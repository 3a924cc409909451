------------------------- MODULE RecurrenceGeneration -------------------------
(***************************************************************************)
(* The rule of ONE recurrence and the occurrences generated from it: for an *)
(* account, planned transactions; for a card, purchases through            *)
(* registerCardPurchaseForContext, each linked to its occurrence afterwards. *)
(*                                                                         *)
(* A generation is not one transaction.  It reads the rule, reads the      *)
(* occurrences there are, inserts the missing ones, and books them in      *)
(* transactions of their own; other requests run in between, any of its    *)
(* transactions may fail, and its process may die between two of them.     *)
(*                                                                         *)
(* An occurrence is named by its sequence number, which fixes its date; the *)
(* rule's other columns are data.                                          *)
(***************************************************************************)
EXTENDS Integers, FiniteSets

CONSTANTS
  Requests,          \* HTTP requests; each mints the rows it inserts
  MaxOccurrences,    \* bound on sequence numbers (36 in the code, unless the
                     \* caller asks for another)
  Targets,           \* what the rule may be for, within {"account", "card"}
  Offers(_),         \* what each request may ask for
  MayOverlap(_, _),  \* may a request with the 2nd input begin while one with
                     \* the 1st is in flight?
  None

ASSUME MaxOccurrencesAssumption == MaxOccurrences \in Nat \ {0}
ASSUME TargetsAssumption == Targets \subseteq {"account", "card"}

Sequences == 1..MaxOccurrences
EntryIds  == [by : Requests, seq : Sequences]
Statuses  == {"active", "paused", "cancelled"}

Rules   == [status : {"absent"} \cup Statuses, target : Targets \cup {None}]
Entries == [exists : BOOLEAN, linked : BOOLEAN]
Installments == [by : Requests \cup {None}, card : BOOLEAN]

NoRule  == [status |-> "absent", target |-> None]
NoEntry == [exists |-> FALSE, linked |-> FALSE]
NoInstallment == [by |-> None, card |-> FALSE]

\* due: the rule starts today or earlier; through: the last occurrence that the
\* window, the end of the rule and maxOccurrences leave.
Inputs ==
       [op : {"create"}, target : Targets, due : BOOLEAN]
  \cup [op : {"generate"}, through : Sequences]
  \cup [op : {"pause", "resume", "cancel"}]
  \cup [op : {"update"}, target : Targets]

ASSUME NoneAssumption == None \notin Requests \cup Inputs
ASSUME OffersAssumption == \A r \in Requests : Offers(r) \subseteq Inputs

VARIABLES
  rule,         \* the row of "Recurrence"
  installment,  \* table "Installment": who inserted the row of each sequence
                \* number, and whether it is of a card
  entry,        \* rows of "Transaction", linked once they name an installment;
                \* Entry(r, s) is that of request r for occurrence s
  pc,           \* next step of each request
  input,        \* what each request asked for
  seen          \* what each request keeps between its steps

tables   == <<rule, installment, entry>>
requests == <<pc, input, seen>>
vars     == <<tables, requests>>

\* rule: the rule as read; todo: the occurrences still to be booked.
Memories    == [rule : Rules, todo : SUBSET Sequences]
NothingSeen == [rule |-> NoRule, todo |-> {}]

Stopped == {"done", "failed", "crashed"}

TypeOK ==
  /\ rule \in Rules
  /\ installment \in [Sequences -> Installments]
  /\ entry \in [EntryIds -> Entries]
  /\ pc \in [Requests -> Stopped \cup {"idle", "persist", "read", "list", "insert",
                                       "book", "purchase", "link", "undo"}]
  /\ input \in [Requests -> Inputs \cup {None}]
  /\ seen \in [Requests -> Memories]

Init ==
  /\ rule = NoRule
  /\ installment = [s \in Sequences |-> NoInstallment]
  /\ entry = [x \in EntryIds |-> NoEntry]
  /\ pc = [r \in Requests |-> "idle"]
  /\ input = [r \in Requests |-> None]
  /\ seen = [r \in Requests |-> NothingSeen]

-----------------------------------------------------------------------------
(* Life of a request.                                                      *)

InFlight(r) == pc[r] \notin Stopped \cup {"idle"}

Generates(r) == input[r] # None /\ input[r].op \in {"create", "generate"}

\* The row of r for occurrence s.
Entry(r, s) == [by |-> r, seq |-> s]

\* A rule is created by one request, and has an id before anybody asks for it.
Arrive(r) ==
  \E in \in Offers(r) :
    /\ pc[r] = "idle"
    /\ IF in.op = "create" THEN \A q \in Requests : ~InFlight(q) /\ rule = NoRule
                           ELSE rule # NoRule
    /\ \A q \in Requests : InFlight(q) => MayOverlap(input[q], in)
    /\ pc' = [pc EXCEPT ![r] = IF in.op = "create" THEN "persist" ELSE "read"]
    /\ input' = [input EXCEPT ![r] = in]
    /\ UNCHANGED <<tables, seen>>

Goto(r, to) ==
  /\ pc' = [pc EXCEPT ![r] = to]
  /\ UNCHANGED input

Stop(r, how) ==
  /\ Goto(r, how)
  /\ seen' = [seen EXCEPT ![r] = NothingSeen]

-----------------------------------------------------------------------------
(* The rule: createRecurrenceForContext, updateRecurrenceForContext with     *)
(* the scope "recurrence_only", pause, resume and cancel.                  *)

\* Mutant: an edit makes the rule active.
ActiveAfterEdit(in, old) ==
  CASE in.op = "create" -> [status |-> "active", target |-> in.target]
    [] in.op = "update" -> [status |-> "active", target |-> in.target]
    [] in.op = "pause"  -> [old EXCEPT !.status = "paused"]
    [] in.op = "resume" -> [old EXCEPT !.status = "active"]
    [] in.op = "cancel" -> [old EXCEPT !.status = "cancelled"]

\* The whole row as it will be written; a resume asks nothing of the old status.
Edited(in, old) ==
  CASE in.op = "create" -> [status |-> "active", target |-> in.target]
    [] in.op = "update" -> [old EXCEPT !.target = in.target]
    [] in.op = "pause"  -> [old EXCEPT !.status = "paused"]
    [] in.op = "resume" -> [old EXCEPT !.status = "active"]
    [] in.op = "cancel" -> [old EXCEPT !.status = "cancelled"]

\* persistRecurrenceMutation: an upsert of every column, from the row read.  A
\* rule that starts by today generates its first occurrence next.
Persist(r) ==
  /\ pc[r] = "persist"
  /\ rule' = Edited(input[r], seen[r].rule)
  /\ IF input[r].op = "create" /\ input[r].due
       THEN Goto(r, "read") /\ UNCHANGED seen
       ELSE Stop(r, "done")
  /\ UNCHANGED <<installment, entry>>

\* findRecurrenceRow.
ReadRule(r) ==
  /\ pc[r] = "read"
  /\ Goto(r, IF Generates(r) THEN "list" ELSE "persist")
  /\ seen' = [seen EXCEPT ![r].rule = rule]
  /\ UNCHANGED tables

-----------------------------------------------------------------------------
(* generateInstallmentsForContext.                                         *)

Through(r) == IF input[r].op = "create" THEN 1 ELSE input[r].through

\* generateRecurrenceInstallments: the occurrences of the window without a row.
Missing(r) == {s \in 1..Through(r) : installment[s].by = None}

ListInstallments(r) ==
  /\ pc[r] = "list"
  /\ IF seen[r].rule.status = "active" /\ Missing(r) # {}
       THEN /\ Goto(r, "insert")
            /\ seen' = [seen EXCEPT ![r].todo = Missing(r)]
       ELSE Stop(r, "done")
  /\ UNCHANGED tables

\* Mutant: no unique index on recurrence and sequence number.
NotIndexed(S) == TRUE

\* The unique index on recurrence and sequence number.
SequencesFree(S) == \A s \in S : installment[s].by = None

\* All rows in one transaction; a row inserted meanwhile refuses all of them.
InsertInstallments(r) ==
  LET card == seen[r].rule.target = "card"
  IN  /\ pc[r] = "insert"
      /\ IF SequencesFree(seen[r].todo)
           THEN /\ installment' = [s \in Sequences |->
                     IF s \in seen[r].todo THEN [by |-> r, card |-> card]
                     ELSE installment[s]]
                /\ Goto(r, IF card THEN "purchase" ELSE "book")
                /\ UNCHANGED <<rule, entry, seen>>
           ELSE Stop(r, "failed") /\ UNCHANGED tables

\* For an account, all transactions in another one.
Book(r) ==
  /\ pc[r] = "book"
  /\ entry' = [x \in EntryIds |->
       IF x.by = r /\ x.seq \in seen[r].todo
         THEN [exists |-> TRUE, linked |-> TRUE] ELSE entry[x]]
  /\ Stop(r, "done")
  /\ UNCHANGED <<rule, installment>>

First(S) == CHOOSE s \in S : \A t \in S : s <= t

\* Mutant: an occurrence refused is tried again, for ever.
TriedAgain(r) == "purchase"

\* What follows an error in the loop over purchases.
AfterRefusal(r) == "undo"

\* registerCardPurchaseForContext for the next occurrence, which the invoice of
\* its period may refuse.
Purchase(r) ==
  LET x == Entry(r, First(seen[r].todo))
  IN  /\ pc[r] = "purchase"
      /\ \/ /\ entry' = [entry EXCEPT ![x].exists = TRUE]
            /\ Goto(r, "link")
         \/ Goto(r, AfterRefusal(r)) /\ UNCHANGED entry
      /\ UNCHANGED <<rule, installment, seen>>

\* The update that tells the purchase its occurrence.
Link(r) ==
  LET x    == Entry(r, First(seen[r].todo))
      rest == seen[r].todo \ {x.seq}
  IN  /\ pc[r] = "link"
      /\ entry' = [entry EXCEPT ![x].linked = TRUE]
      /\ IF rest = {} THEN Stop(r, "done")
         ELSE Goto(r, "purchase") /\ seen' = [seen EXCEPT ![r].todo = rest]
      /\ UNCHANGED <<rule, installment>>

\* Mutant: nothing counts as unmaterialised.
NothingLoose(r) == {}

\* deleteUnmaterializedCardInstallmentsForContext: of the rows this generation
\* inserted, those that no purchase names.
Unmaterialized(r) ==
  {s \in Sequences : /\ installment[s].by = r /\ installment[s].card
                     /\ ~entry[Entry(r, s)].linked}

Undo(r) ==
  /\ pc[r] = "undo"
  /\ installment' = [s \in Sequences |->
       IF s \in Unmaterialized(r) THEN NoInstallment ELSE installment[s]]
  /\ Stop(r, "failed")
  /\ UNCHANGED <<rule, entry>>

-----------------------------------------------------------------------------
(* The environment.                                                        *)

\* A query or a transaction fails, or a check refuses the request: nothing of
\* that step is written.  Only errors in the loop over purchases are caught, to
\* clean up; an error of the cleaning itself, like the end of the process, is
\* the last the request does.
Fails(r) ==
  /\ \/ pc[r] \in {"persist", "read", "list", "insert", "book"} /\ Stop(r, "failed")
     \/ pc[r] \in {"purchase", "link"} /\ Goto(r, AfterRefusal(r)) /\ UNCHANGED seen
  /\ UNCHANGED tables

Crash(r) ==
  /\ InFlight(r)
  /\ Stop(r, "crashed")
  /\ UNCHANGED tables

Work(r) ==
  \/ Persist(r) \/ ReadRule(r) \/ ListInstallments(r) \/ InsertInstallments(r)
  \/ Book(r) \/ Purchase(r) \/ Link(r) \/ Undo(r)

Next == \E r \in Requests : Arrive(r) \/ Work(r) \/ Fails(r) \/ Crash(r)

\* A request in flight goes on, or fails, or dies; nothing obliges a client.
Spec == Init /\ [][Next]_vars /\ \A r \in Requests : WF_vars(Work(r))

-----------------------------------------------------------------------------
(* What the component promises.                                            *)

Booked(r, s)   == entry[Entry(r, s)].linked
Promised(r, s) == installment[s].by = r /\ ~Booked(r, s)

\* No occurrence is booked twice, however many generations overlap, fail or are
\* repeated, and what is booked never loses the occurrence it names.
OccurrenceBookedOnce ==
  \A r \in Requests, s \in Sequences : Booked(r, s) => installment[s].by = r

\* A generation that answered has booked every occurrence it inserted, and left
\* no purchase without its occurrence; one that failed on a card has withdrawn
\* every occurrence it did not book.
SettledIsMaterialised ==
  \A r \in Requests, s \in Sequences :
    /\ pc[r] = "done" =>
         /\ ~Promised(r, s)
         /\ entry[Entry(r, s)].exists => Booked(r, s)
    /\ pc[r] = "failed" => ~(Promised(r, s) /\ installment[s].card)

\* Whoever pauses, resumes, cancels or edits the rule writes back the whole row it
\* read, and nothing compares that row with the one there is.  So a rule that was
\* stopped becomes active again by a resume, or because an edit writes back the
\* active status it read before the rule was stopped; by nothing else, however
\* changes and generations overlap, fail or die.
OnlyStaleEditsReactivate ==
  [][rule.status \in {"paused", "cancelled"} /\ rule'.status = "active" =>
       \E r \in Requests :
         /\ Persist(r)
         /\ \/ input[r].op = "resume"
            \/ input[r].op = "update" /\ seen[r].rule.status = "active"]_vars

\* The occurrences a generation inserted are booked or withdrawn in the end, unless
\* it died, or failed on an account, where nothing cleans up.
GenerationSettles ==
  \A r \in Requests :
    (\E s \in Sequences : Promised(r, s)) ~>
      \/ \A s \in Sequences : ~Promised(r, s)
      \/ pc[r] = "crashed"
      \/ pc[r] = "failed" /\ \A s \in Sequences : installment[s].by = r => ~installment[s].card

=============================================================================
