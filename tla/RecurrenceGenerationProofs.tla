-------------------- MODULE RecurrenceGenerationProofs --------------------
(***************************************************************************)
(* Theorems about RecurrenceGeneration for every set of requests and every *)
(* bound on occurrences. They hold for every MayOverlap: requests may      *)
(* interleave, fail and die in any way.                                    *)
(*                                                                         *)
(*   TypeCorrect        Spec => []TypeOK                                   *)
(*   BookedOnce         Spec => []OccurrenceBookedOnce                     *)
(*   Settled            Spec => []SettledIsMaterialised                    *)
(*   StoppedUntilOverwritten  Spec => OnlyStaleEditsReactivate             *)
(***************************************************************************)
EXTENDS RecurrenceGeneration, WellFoundedInduction, TLAPS

-----------------------------------------------------------------------------
(* The inductive invariants.                                               *)

\* A request that has begun holds a well-formed input, and only a creation or a
\* generation gets past the reading of the rule without writing it.
Asked(r) ==
  /\ pc[r] # "idle" => input[r] \in Inputs
  /\ pc[r] = "persist" => input[r].op # "generate"
  /\ pc[r] \in {"list", "insert", "book", "purchase", "link", "undo"} => Generates(r)

TypeInv == TypeOK /\ \A r \in Requests : Asked(r)

Inserted(r, s) == installment[s].by = r

\* How far a generation is with the occurrences it inserts: none before it
\* inserts; all of todo until it books them together, for an account; for a card
\* all but todo are booked.
Progress(r) ==
  /\ \A s \in Sequences : Booked(r, s) => Inserted(r, s)
  /\ pc[r] \in {"idle", "persist", "read", "list", "insert"} =>
       \A s \in Sequences : ~Inserted(r, s) /\ ~entry[Entry(r, s)].exists
  /\ pc[r] \in {"insert", "purchase", "link"} => seen[r].todo # {}
  /\ pc[r] = "book" =>
       \A s \in Sequences :
         /\ Inserted(r, s) <=> s \in seen[r].todo
         /\ Inserted(r, s) => ~installment[s].card
         /\ ~entry[Entry(r, s)].exists
  /\ pc[r] \in {"purchase", "link"} =>
       \A s \in Sequences :
         /\ s \in seen[r].todo => Inserted(r, s)
         /\ s \notin seen[r].todo =>
              (Inserted(r, s) \/ entry[Entry(r, s)].exists => Booked(r, s))
  /\ pc[r] \in {"purchase", "link", "undo"} =>
       \A s \in Sequences : Inserted(r, s) => installment[s].card
  /\ pc[r] = "done" =>
       \A s \in Sequences :
         /\ ~Promised(r, s)
         /\ entry[Entry(r, s)].exists => Booked(r, s)
  /\ pc[r] = "failed" =>
       \A s \in Sequences : ~(Promised(r, s) /\ installment[s].card)

ProgressInv == TypeInv /\ \A r \in Requests : Progress(r)

-----------------------------------------------------------------------------
(* Values.                                                                 *)

\* First finds the least member of a set of sequence numbers.
LEMMA FirstInSet ==
  ASSUME NEW S \in SUBSET Sequences, S # {} PROVE First(S) \in S
<1>1. S \subseteq Nat BY MaxOccurrencesAssumption DEF Sequences
<1>2. PICK s \in S : \A t \in S : ~(<<t, s>> \in OpToRel(<, Nat))
  BY <1>1, NatLessThanWellFounded, WFMin
<1>3. \A t \in S : ~(t < s) BY <1>1, <1>2, Zenon DEF OpToRel
<1>4. \A t \in S : s <= t BY <1>1, <1>3
<1> QED BY <1>4 DEF First

LEMMA EntryType ==
  ASSUME NEW r \in Requests, NEW s \in Sequences
  PROVE  /\ Entry(r, s) \in EntryIds /\ Entry(r, s).by = r /\ Entry(r, s).seq = s
         /\ \A q \in Requests, t \in Sequences : Entry(q, t) = Entry(r, s) => q = r /\ t = s
BY DEF Entry, EntryIds

LEMMA EntryIs ==
  ASSUME NEW x \in EntryIds PROVE x.by \in Requests /\ x.seq \in Sequences
                                   /\ x = Entry(x.by, x.seq)
BY DEF Entry, EntryIds

LEMMA NothingSeenType == NothingSeen \in Memories /\ NothingSeen.todo = {}
BY DEF NothingSeen, Memories, NoRule, Rules

LEMMA EditedType ==
  ASSUME NEW in \in Inputs, in.op # "generate", NEW old \in Rules
  PROVE  Edited(in, old) \in Rules
<1>1. CASE in.op = "create" \/ in.op = "update"
  BY <1>1 DEF Edited, Inputs, Rules, Statuses
<1>2. CASE in.op = "pause" \/ in.op = "resume" \/ in.op = "cancel"
  BY <1>2 DEF Edited, Rules, Statuses
<1> QED BY <1>1, <1>2 DEF Inputs

\* What each kind of input asks for.
LEMMA InputKinds ==
  ASSUME NEW in \in Inputs
  PROVE  /\ in.op \in {"create", "generate", "pause", "resume", "cancel", "update"}
         /\ in.op = "generate" => in.through \in Sequences
BY DEF Inputs

LEMMA MissingType ==
  ASSUME NEW r \in Requests, TypeInv, pc[r] = "list"
  PROVE  Missing(r) \subseteq Sequences
<1>1. input[r] \in Inputs /\ (input[r].op = "create" \/ input[r].op = "generate")
  BY DEF TypeInv, Asked, Generates
<1>2. Through(r) \in Sequences
  BY <1>1, InputKinds, MaxOccurrencesAssumption DEF Through, Sequences
<1> QED BY <1>2, MaxOccurrencesAssumption DEF Missing, Sequences

-----------------------------------------------------------------------------
(* The type invariant.                                                     *)

LEMMA InitType == Init => TypeInv
BY NothingSeenType, NoneAssumption
   DEF Init, TypeInv, TypeOK, Asked, NoRule, Rules, NoInstallment, Installments,
       NoEntry, Entries

\* How a step of one request moves on.
LEMMA GotoType ==
  ASSUME TypeInv, NEW r \in Requests, pc[r] # "idle",
         NEW to \in Stopped \cup {"read", "list", "insert", "book", "purchase", "link",
                                 "undo", "persist"},
         Goto(r, to),
         to = "persist" => input[r].op # "generate",
         to \in {"list", "insert", "book", "purchase", "link", "undo"} => Generates(r)
  PROVE  /\ pc' \in [Requests -> Stopped \cup {"idle", "persist", "read", "list", "insert",
                                             "book", "purchase", "link", "undo"}]
         /\ input' \in [Requests -> Inputs \cup {None}]
         /\ \A q \in Requests : Asked(q)'
BY DEF TypeInv, TypeOK, Goto, Asked, Generates, Stopped

LEMMA StopType ==
  ASSUME TypeInv, NEW r \in Requests, pc[r] # "idle", NEW how \in Stopped, Stop(r, how)
  PROVE  /\ pc' \in [Requests -> Stopped \cup {"idle", "persist", "read", "list", "insert",
                                             "book", "purchase", "link", "undo"}]
         /\ input' \in [Requests -> Inputs \cup {None}]
         /\ seen' \in [Requests -> Memories]
         /\ \A q \in Requests : Asked(q)'
<1>1. Goto(r, how) BY DEF Stop
<1>2. seen' \in [Requests -> Memories]
  BY NothingSeenType DEF Stop, TypeInv, TypeOK
<1> QED BY <1>1, <1>2, GotoType DEF Stopped

LEMMA StepType == TypeInv /\ [Next]_vars => TypeInv'
<1> SUFFICES ASSUME TypeInv, [Next]_vars PROVE TypeInv' OBVIOUS
<1> USE DEF TypeInv
<1>1. ASSUME NEW r \in Requests, Arrive(r) PROVE TypeInv'
  <2>1. PICK in \in Offers(r) :
          /\ pc[r] = "idle"
          /\ pc' = [pc EXCEPT ![r] = IF in.op = "create" THEN "persist" ELSE "read"]
          /\ input' = [input EXCEPT ![r] = in]
          /\ UNCHANGED <<tables, seen>>
    BY <1>1 DEF Arrive
  <2>2. in \in Inputs BY OffersAssumption
  <2> QED BY <2>1, <2>2 DEF TypeOK, tables, Asked, Generates, Stopped
<1>2. ASSUME NEW r \in Requests, Persist(r) PROVE TypeInv'
  <2>1. input[r] \in Inputs /\ input[r].op # "generate"
    BY <1>2 DEF Persist, Asked
  <2>2. rule' \in Rules BY <1>2, <2>1, EditedType DEF Persist, TypeOK, Memories
  <2>3. CASE Goto(r, "read") /\ UNCHANGED seen
    BY <1>2, <2>2, <2>3, GotoType DEF Persist, TypeOK
  <2>4. CASE Stop(r, "done")
    BY <1>2, <2>2, <2>4, StopType DEF Persist, TypeOK, Stopped
  <2> QED BY <1>2, <2>3, <2>4 DEF Persist
<1>3. ASSUME NEW r \in Requests, ReadRule(r) PROVE TypeInv'
  <2>1. PICK to \in {"list", "persist"} :
          /\ Goto(r, to)
          /\ to = "list" <=> Generates(r)
    BY <1>3 DEF ReadRule
  <2>2. to = "persist" => input[r].op # "generate"
    BY <1>3, <2>1, NoneAssumption DEF ReadRule, Generates, Asked
  <2>3. seen' \in [Requests -> Memories]
    BY <1>3 DEF ReadRule, TypeOK, Memories
  <2> QED BY <1>3, <2>1, <2>2, <2>3, GotoType DEF ReadRule, TypeOK, tables
<1>4. ASSUME NEW r \in Requests, ListInstallments(r) PROVE TypeInv'
  <2>1. CASE /\ Goto(r, "insert")
             /\ seen' = [seen EXCEPT ![r].todo = Missing(r)]
    <3>1. seen' \in [Requests -> Memories]
      BY <1>4, <2>1, MissingType DEF ListInstallments, TypeOK, Memories
    <3> QED BY <1>4, <2>1, <3>1, GotoType DEF ListInstallments, TypeOK, tables, Asked
  <2>2. CASE Stop(r, "done")
    BY <1>4, <2>2, StopType DEF ListInstallments, TypeOK, tables, Stopped
  <2> QED BY <1>4, <2>1, <2>2 DEF ListInstallments
<1>5. ASSUME NEW r \in Requests, InsertInstallments(r) PROVE TypeInv'
  <2>1. CASE SequencesFree(seen[r].todo)
    <3>1. PICK card \in BOOLEAN :
            /\ installment' = [s \in Sequences |->
                 IF s \in seen[r].todo THEN [by |-> r, card |-> card] ELSE installment[s]]
            /\ Goto(r, IF card THEN "purchase" ELSE "book")
            /\ UNCHANGED <<rule, entry, seen>>
      BY <1>5, <2>1 DEF InsertInstallments
    <3>2. installment' \in [Sequences -> Installments]
      BY <3>1 DEF TypeOK, Installments
    <3>3. PICK to \in {"purchase", "book"} : Goto(r, to) BY <3>1
    <3> QED BY <1>5, <3>1, <3>2, <3>3, GotoType DEF InsertInstallments, TypeOK, Asked
  <2>2. CASE Stop(r, "failed") /\ UNCHANGED tables
    BY <1>5, <2>2, StopType DEF InsertInstallments, TypeOK, tables, Stopped
  <2> QED BY <1>5, <2>1, <2>2 DEF InsertInstallments
<1>6. ASSUME NEW r \in Requests, Book(r) PROVE TypeInv'
  <2>1. entry' \in [EntryIds -> Entries] BY <1>6 DEF Book, TypeOK, Entries
  <2> QED BY <1>6, <2>1, StopType DEF Book, TypeOK, Stopped
<1>7. ASSUME NEW r \in Requests, Purchase(r) PROVE TypeInv'
  <2>1. entry' \in [EntryIds -> Entries]
    <3>1. PICK x : \/ entry' = [entry EXCEPT ![x].exists = TRUE]
                   \/ UNCHANGED entry
      BY <1>7 DEF Purchase
    <3>2. entry \in [EntryIds -> Entries] BY DEF TypeOK
    <3>3. ASSUME NEW y \in EntryIds PROVE [entry[y] EXCEPT !.exists = TRUE] \in Entries
      BY <3>2 DEF Entries
    <3> QED BY ONLY <3>1, <3>2, <3>3
  <2>2. PICK to \in {"link", "undo"} : Goto(r, to)
    BY <1>7 DEF Purchase, AfterRefusal
  <2> QED BY <1>7, <2>1, <2>2, GotoType DEF Purchase, TypeOK, Asked
<1>8. ASSUME NEW r \in Requests, Link(r) PROVE TypeInv'
  <2>1. entry' \in [EntryIds -> Entries]
    <3>1. PICK x : entry' = [entry EXCEPT ![x].linked = TRUE] BY <1>8 DEF Link
    <3>2. entry \in [EntryIds -> Entries] BY DEF TypeOK
    <3>3. ASSUME NEW y \in EntryIds PROVE [entry[y] EXCEPT !.linked = TRUE] \in Entries
      BY <3>2 DEF Entries
    <3> QED BY ONLY <3>1, <3>2, <3>3
  <2>2. CASE Stop(r, "done") BY <1>8, <2>1, <2>2, StopType DEF Link, TypeOK, Stopped
  <2>3. CASE /\ Goto(r, "purchase")
             /\ \E x : seen' = [seen EXCEPT ![r].todo = @ \ {x}]
    <3>1. seen' \in [Requests -> Memories] BY <2>3 DEF TypeOK, Memories
    <3> QED BY <1>8, <2>1, <2>3, <3>1, GotoType DEF Link, TypeOK, Asked
  <2> QED BY <1>8, <2>2, <2>3 DEF Link
<1>9. ASSUME NEW r \in Requests, Undo(r) PROVE TypeInv'
  <2>1. installment' \in [Sequences -> Installments]
    BY <1>9 DEF Undo, TypeOK, NoInstallment, Installments
  <2> QED BY <1>9, <2>1, StopType DEF Undo, TypeOK, Stopped
<1>10. ASSUME NEW r \in Requests, Fails(r) PROVE TypeInv'
  <2>1. CASE Stop(r, "failed") /\ pc[r] # "idle"
    BY <1>10, <2>1, StopType DEF Fails, TypeOK, tables, Stopped
  <2>2. CASE pc[r] \in {"purchase", "link"} /\ Goto(r, "undo") /\ UNCHANGED seen
    BY <1>10, <2>2, GotoType DEF Fails, TypeOK, tables, Asked
  <2> QED BY <1>10, <2>1, <2>2 DEF Fails, AfterRefusal
<1>11. ASSUME NEW r \in Requests, Crash(r) PROVE TypeInv'
  BY <1>11, StopType DEF Crash, InFlight, TypeOK, tables, Stopped
<1>12. CASE UNCHANGED vars
  BY <1>12 DEF vars, tables, requests, TypeOK, Asked, Generates
<1> QED BY <1>1, <1>2, <1>3, <1>4, <1>5, <1>6, <1>7, <1>8, <1>9, <1>10, <1>11, <1>12
        DEF Next, Work

-----------------------------------------------------------------------------
(* A request leaves alone what others have inserted and booked.             *)

Step(r) == Arrive(r) \/ Work(r) \/ Fails(r) \/ Crash(r)

\* Nothing of r has changed.
Untouched(r) ==
  /\ pc'[r] = pc[r] /\ seen'[r] = seen[r]
  /\ \A s \in Sequences :
       /\ Inserted(r, s)' <=> Inserted(r, s)
       /\ Inserted(r, s) => installment'[s] = installment[s]
       /\ entry'[Entry(r, s)] = entry[Entry(r, s)]

LEMMA UntouchedKeeps ==
  ASSUME NEW r \in Requests, Progress(r), Untouched(r) PROVE Progress(r)'
<1>1. \A s \in Sequences : /\ Booked(r, s)' <=> Booked(r, s)
                           /\ Promised(r, s)' <=> Promised(r, s)
  BY DEF Untouched, Booked, Promised, Inserted, Entry
<1>2. \A s \in Sequences :
        /\ Inserted(r, s)' <=> Inserted(r, s)
        /\ Inserted(r, s) => installment'[s].card = installment[s].card
        /\ entry'[Entry(r, s)].exists = entry[Entry(r, s)].exists
        /\ Promised(r, s) => Inserted(r, s)
  BY DEF Untouched, Promised, Inserted
<1>3. pc'[r] = pc[r] /\ seen'[r] = seen[r] BY DEF Untouched
<1> QED BY <1>1, <1>2, <1>3 DEF Progress

LEMMA Apart ==
  ASSUME TypeInv, NEW q \in Requests, NEW r \in Requests, q # r, Step(q)
  PROVE  Untouched(r)
<1> USE DEF TypeInv, TypeOK
<1>1. pc'[r] = pc[r] /\ seen'[r] = seen[r]
  BY DEF Step, Work, Arrive, Persist, ReadRule, ListInstallments, InsertInstallments,
         Book, Purchase, Link, Undo, Fails, Crash, Goto, Stop
<1>2. ASSUME NEW s \in Sequences
      PROVE  /\ Inserted(r, s)' <=> Inserted(r, s)
             /\ Inserted(r, s) => installment'[s] = installment[s]
  <2>1. CASE InsertInstallments(q) /\ SequencesFree(seen[q].todo)
    BY <2>1, NoneAssumption DEF InsertInstallments, SequencesFree, Inserted
  <2>2. CASE Undo(q)
    BY <2>2, NoneAssumption DEF Undo, Unmaterialized, Inserted, NoInstallment
  <2>3. CASE UNCHANGED installment BY <2>3 DEF Inserted
  <2> QED
    BY <2>1, <2>2, <2>3
       DEF Step, Work, Arrive, Persist, ReadRule, ListInstallments, InsertInstallments,
           Book, Purchase, Link, Fails, Crash, tables
<1>3. ASSUME NEW s \in Sequences PROVE entry'[Entry(r, s)] = entry[Entry(r, s)]
  <2>1. Entry(r, s) \in EntryIds /\ Entry(r, s).by = r BY EntryType
  <2>2. \A t : Entry(q, t) # Entry(r, s) BY <2>1 DEF Entry
  <2>3. CASE Book(q) BY <2>1, <2>3 DEF Book
  <2>4. CASE Purchase(q) \/ Link(q) BY <2>1, <2>2, <2>4 DEF Purchase, Link
  <2>5. CASE UNCHANGED entry BY <2>5
  <2> QED
    BY <2>3, <2>4, <2>5
       DEF Step, Work, Arrive, Persist, ReadRule, ListInstallments, InsertInstallments,
           Undo, Fails, Crash, tables
<1> QED BY <1>1, <1>2, <1>3 DEF Untouched

-----------------------------------------------------------------------------
(* A request's own steps.                                                  *)

\* A step that only moves on keeps the rows of r.
LEMMA SameRows ==
  ASSUME NEW r \in Requests, UNCHANGED <<installment, entry>>
  PROVE  \A s \in Sequences : /\ Inserted(r, s)' <=> Inserted(r, s)
                              /\ Booked(r, s)' <=> Booked(r, s)
                              /\ Promised(r, s)' <=> Promised(r, s)
BY DEF Inserted, Booked, Promised

\* Of a request that has inserted nothing there is nothing to settle.
LEMMA NothingInserted ==
  ASSUME NEW r \in Requests, Progress(r), UNCHANGED <<installment, entry>>,
         pc[r] \in {"idle", "persist", "read", "list", "insert"},
         pc'[r] \in Stopped \cup {"persist", "read", "list", "insert"},
         pc'[r] = "insert" => seen'[r].todo # {}
  PROVE  Progress(r)'
BY SameRows DEF Progress, Promised, Inserted, Stopped

LEMMA OwnInsert ==
  ASSUME TypeInv, NEW r \in Requests, Progress(r), InsertInstallments(r)
  PROVE  Progress(r)'
<1> USE DEF TypeInv, TypeOK
<1>1. CASE SequencesFree(seen[r].todo)
  <2>1. PICK card \in BOOLEAN :
          /\ installment' = [s \in Sequences |->
               IF s \in seen[r].todo THEN [by |-> r, card |-> card] ELSE installment[s]]
          /\ pc'[r] = IF card THEN "purchase" ELSE "book"
          /\ entry' = entry /\ seen' = seen
    BY <1>1 DEF InsertInstallments, Goto
  <2>2. \A s \in Sequences :
          /\ Inserted(r, s)' <=> s \in seen[r].todo
          /\ Inserted(r, s)' => installment'[s].card = card
    BY <2>1, NoneAssumption DEF Progress, InsertInstallments, Inserted
  <2>3. \A s \in Sequences : ~Booked(r, s)'
    BY <2>1 DEF Progress, InsertInstallments, Booked
  <2> QED BY <2>1, <2>2, <2>3 DEF Progress, InsertInstallments
<1>2. CASE Stop(r, "failed") /\ UNCHANGED tables
  BY <1>2, NothingInserted DEF InsertInstallments, Stop, Goto, tables, Stopped
<1> QED BY <1>1, <1>2 DEF InsertInstallments

LEMMA OwnBook ==
  ASSUME TypeInv, NEW r \in Requests, Progress(r), Book(r) PROVE Progress(r)'
<1> USE DEF TypeInv, TypeOK
<1>1. pc'[r] = "done" /\ installment' = installment BY DEF Book, Stop, Goto
<1>2. ASSUME NEW s \in Sequences
      PROVE  /\ Inserted(r, s)' <=> s \in seen[r].todo
             /\ Booked(r, s)' <=> s \in seen[r].todo
             /\ entry'[Entry(r, s)].exists <=> s \in seen[r].todo
  <2>1. Inserted(r, s)' <=> s \in seen[r].todo
    BY <1>1 DEF Progress, Book, Inserted
  <2>2. CASE s \in seen[r].todo
    BY <2>1, <2>2, EntryType DEF Book, Booked
  <2>3. CASE s \notin seen[r].todo
    <3>1. entry'[Entry(r, s)] = entry[Entry(r, s)] BY <2>3, EntryType DEF Book
    <3>2. ~Inserted(r, s) /\ ~entry[Entry(r, s)].exists
      BY <2>3 DEF Progress, Book
    <3>3. ~Booked(r, s) BY <3>2 DEF Progress
    <3> QED BY <2>1, <2>3, <3>1, <3>2, <3>3 DEF Booked
  <2> QED BY <2>2, <2>3
<1> QED BY <1>1, <1>2 DEF Progress, Promised, Inserted

\* The occurrence a purchase is about is one of those still to be booked.
LEMMA FirstToDo ==
  ASSUME TypeInv, NEW r \in Requests, Progress(r), pc[r] \in {"purchase", "link"}
  PROVE  /\ First(seen[r].todo) \in seen[r].todo
         /\ First(seen[r].todo) \in Sequences
BY FirstInSet DEF TypeInv, TypeOK, Memories, Progress

LEMMA OwnPurchase ==
  ASSUME TypeInv, NEW r \in Requests, Progress(r), Purchase(r) PROVE Progress(r)'
<1> DEFINE f == First(seen[r].todo)
<1> USE DEF TypeInv, TypeOK
<1>1. f \in seen[r].todo /\ f \in Sequences BY FirstToDo DEF Purchase
<1>2. /\ pc'[r] \in {"link", "undo"}
      /\ installment' = installment /\ seen' = seen
  BY DEF Purchase, Goto, AfterRefusal
<1>3. ASSUME NEW s \in Sequences
      PROVE  /\ Booked(r, s)' <=> Booked(r, s)
             /\ s # f => entry'[Entry(r, s)].exists = entry[Entry(r, s)].exists
  <2>1. CASE entry' = entry BY <2>1 DEF Booked
  <2>2. CASE entry' = [entry EXCEPT ![Entry(r, f)].exists = TRUE]
    <3>1. CASE s = f BY <2>2, <3>1, EntryType DEF Booked, Entries
    <3>2. CASE s # f
      <4>1. Entry(r, s) # Entry(r, f) BY <1>1, <3>2, EntryType
      <4>2. entry'[Entry(r, s)] = entry[Entry(r, s)] BY <2>2, <4>1, EntryType
      <4> QED BY <3>2, <4>2 DEF Booked
    <3> QED BY <3>1, <3>2
  <2> QED BY <2>1, <2>2 DEF Purchase
<1>4. \A s \in Sequences : Inserted(r, s)' <=> Inserted(r, s) BY <1>2 DEF Inserted
<1>5. pc[r] = "purchase" BY DEF Purchase
<1> QED BY <1>1, <1>2, <1>3, <1>4, <1>5 DEF Progress

LEMMA OwnLink ==
  ASSUME TypeInv, NEW r \in Requests, Progress(r), Link(r) PROVE Progress(r)'
<1> DEFINE f    == First(seen[r].todo)
           rest == seen[r].todo \ {f}
<1> USE DEF TypeInv, TypeOK
<1>1. f \in seen[r].todo /\ f \in Sequences BY FirstToDo DEF Link
<1>2. /\ entry' = [entry EXCEPT ![Entry(r, f)].linked = TRUE]
      /\ installment' = installment
      /\ \/ rest = {} /\ pc'[r] = "done"
         \/ rest # {} /\ pc'[r] = "purchase" /\ seen'[r].todo = rest
  <2>1. Entry(r, f).seq = f BY <1>1, EntryType
  <2> QED BY <2>1 DEF Link, Goto, Stop, Memories
<1>3. ASSUME NEW s \in Sequences
      PROVE  /\ s = f => Booked(r, s)'
             /\ s # f => entry'[Entry(r, s)] = entry[Entry(r, s)]
             /\ s # f => (Booked(r, s)' <=> Booked(r, s))
  <2>1. CASE s = f BY <1>2, <2>1, EntryType DEF Booked, Entries
  <2>2. CASE s # f
    <3>1. Entry(r, s) # Entry(r, f) BY <1>1, <2>2, EntryType
    <3> QED BY <1>2, <2>2, <3>1, EntryType DEF Booked
  <2> QED BY <2>1, <2>2
<1>4. \A s \in Sequences : Inserted(r, s)' <=> Inserted(r, s) BY <1>2 DEF Inserted
<1>5. pc[r] = "link" BY DEF Link
<1>6. \A s \in Sequences :
        /\ s \in seen[r].todo => Inserted(r, s)
        /\ s \notin seen[r].todo =>
             (Inserted(r, s) \/ entry[Entry(r, s)].exists => Booked(r, s))
        /\ Inserted(r, s) => installment[s].card
        /\ Booked(r, s) => Inserted(r, s)
  BY <1>5 DEF Progress
<1>7. ASSUME NEW s \in Sequences
      PROVE  /\ s \in rest => Inserted(r, s)'
             /\ s \notin rest =>
                  (Inserted(r, s) \/ entry[Entry(r, s)].exists => Booked(r, s))'
             /\ Inserted(r, s)' => installment'[s].card
             /\ Booked(r, s)' => Inserted(r, s)'
  BY <1>1, <1>2, <1>3, <1>4, <1>6
<1>8. CASE rest = {}
  BY <1>2, <1>7, <1>8 DEF Progress, Promised, Inserted
<1>9. CASE rest # {}
  BY <1>2, <1>7, <1>9 DEF Progress
<1> QED BY <1>8, <1>9

LEMMA OwnUndo ==
  ASSUME TypeInv, NEW r \in Requests, Progress(r), Undo(r) PROVE Progress(r)'
<1> USE DEF TypeInv, TypeOK
<1>1. pc'[r] = "failed" /\ entry' = entry BY DEF Undo, Stop, Goto
<1>2. ASSUME NEW s \in Sequences
      PROVE  /\ Booked(r, s)' <=> Booked(r, s)
             /\ Inserted(r, s)' <=> Booked(r, s)
  <2>1. Booked(r, s)' <=> Booked(r, s) BY <1>1 DEF Booked
  <2>2. Booked(r, s) => Inserted(r, s) BY DEF Progress
  <2>3. Inserted(r, s) => installment[s].card BY DEF Progress, Undo
  <2>4. s \in Unmaterialized(r) <=> Inserted(r, s) /\ ~Booked(r, s)
    BY <2>3 DEF Unmaterialized, Inserted, Booked
  <2> QED BY <2>1, <2>2, <2>4, NoneAssumption DEF Undo, Inserted, NoInstallment
<1> QED BY <1>1, <1>2 DEF Progress, Promised, Inserted

LEMMA OwnFails ==
  ASSUME TypeInv, NEW r \in Requests, Progress(r), Fails(r) PROVE Progress(r)'
<1> USE DEF TypeInv, TypeOK
<1>1. UNCHANGED <<installment, entry>> BY DEF Fails, tables
<1>2. \A s \in Sequences : /\ Inserted(r, s)' <=> Inserted(r, s)
                           /\ Booked(r, s)' <=> Booked(r, s)
                           /\ Promised(r, s)' <=> Promised(r, s)
  BY <1>1, SameRows
<1>3. CASE pc[r] \in {"persist", "read", "list", "insert"} /\ pc'[r] = "failed"
  BY <1>1, <1>3, NothingInserted DEF Stopped
<1>4. CASE pc[r] = "book" /\ pc'[r] = "failed"
  BY <1>1, <1>2, <1>4 DEF Progress, Promised, Inserted
<1>5. CASE pc[r] \in {"purchase", "link"} /\ pc'[r] = "undo"
  BY <1>1, <1>2, <1>5 DEF Progress
<1> QED BY <1>3, <1>4, <1>5 DEF Fails, Stop, Goto, AfterRefusal

LEMMA OwnStep ==
  ASSUME TypeInv, NEW r \in Requests, Progress(r), Step(r) PROVE Progress(r)'
<1> USE DEF TypeInv, TypeOK
<1>1. CASE Arrive(r)
  <2>1. pc[r] = "idle" /\ pc'[r] \in {"persist", "read"} BY <1>1 DEF Arrive
  <2> QED BY <1>1, <2>1, NothingInserted DEF Arrive, tables
<1>2. CASE Persist(r)
  BY <1>2, NothingInserted DEF Persist, Stop, Goto, Stopped
<1>3. CASE ReadRule(r)
  BY <1>3, NothingInserted DEF ReadRule, Goto, tables
<1>4. CASE ListInstallments(r)
  BY <1>4, NothingInserted DEF ListInstallments, Stop, Goto, tables, Stopped, Memories
<1>5. CASE Crash(r)
  <2>1. pc'[r] = "crashed" /\ UNCHANGED <<installment, entry>>
    BY <1>5 DEF Crash, Stop, Goto, tables
  <2> QED BY <2>1, SameRows DEF Progress
<1> QED
  BY <1>1, <1>2, <1>3, <1>4, <1>5, OwnInsert, OwnBook, OwnPurchase, OwnLink, OwnUndo,
     OwnFails
     DEF Step, Work

-----------------------------------------------------------------------------
(* The theorems.                                                           *)

LEMMA InitProgress == Init => \A r \in Requests : Progress(r)
<1> SUFFICES ASSUME Init, NEW r \in Requests PROVE Progress(r) OBVIOUS
<1>1. ASSUME NEW s \in Sequences
      PROVE  ~Inserted(r, s) /\ ~Booked(r, s) /\ ~entry[Entry(r, s)].exists
  BY EntryType, NoneAssumption DEF Init, Inserted, Booked, NoInstallment, NoEntry
<1>2. pc[r] = "idle" BY DEF Init
<1> QED BY <1>1, <1>2 DEF Progress

LEMMA StepProgress == ProgressInv /\ [Next]_vars => ProgressInv'
<1> SUFFICES ASSUME ProgressInv, [Next]_vars PROVE ProgressInv' OBVIOUS
<1>1. TypeInv' BY StepType DEF ProgressInv
<1>2. ASSUME NEW r \in Requests PROVE Progress(r)'
  <2>1. ASSUME NEW q \in Requests, Step(q) PROVE Progress(r)'
    <3>1. CASE q = r BY <2>1, <3>1, OwnStep DEF ProgressInv
    <3>2. CASE q # r BY <2>1, <3>2, Apart, UntouchedKeeps DEF ProgressInv
    <3> QED BY <3>1, <3>2
  <2>2. CASE UNCHANGED vars
    BY <2>2, UntouchedKeeps DEF ProgressInv, Untouched, Inserted, vars, tables, requests
  <2> QED BY <2>1, <2>2 DEF Next, Step
<1> QED BY <1>1, <1>2 DEF ProgressInv

\* Every reachable state is well typed.
THEOREM TypeCorrect == Spec => []TypeOK
<1>1. TypeInv => TypeOK BY DEF TypeInv
<1> QED BY InitType, StepType, <1>1, PTL DEF Spec

\* Every request has booked, inserted and withdrawn exactly what its step says
\* (generateInstallmentsForContext and its cleaning up).
THEOREM ProgressHolds == Spec => []ProgressInv
<1>1. Init => ProgressInv BY InitType, InitProgress DEF ProgressInv
<1> QED BY <1>1, StepProgress, PTL DEF Spec

\* No occurrence is booked twice, and what is booked keeps its occurrence,
\* however generations overlap, fail, die or are repeated.
THEOREM BookedOnce == Spec => []OccurrenceBookedOnce
<1>1. ProgressInv => OccurrenceBookedOnce
  BY DEF ProgressInv, Progress, OccurrenceBookedOnce, Inserted
<1> QED BY <1>1, ProgressHolds, PTL

\* A generation that answered booked all it inserted; one that failed on a card
\* withdrew all it did not book.
THEOREM Settled == Spec => []SettledIsMaterialised
<1>1. ProgressInv => SettledIsMaterialised
  BY DEF ProgressInv, Progress, SettledIsMaterialised
<1> QED BY <1>1, ProgressHolds, PTL

-----------------------------------------------------------------------------
(* Changes of the rule.                                                    *)

\* A creation is alone until it has written the rule, because nobody has its id.
CreatesAlone(r) ==
  pc[r] = "persist" /\ input[r].op = "create" =>
    rule = NoRule /\ \A q \in Requests \ {r} : ~InFlight(q)

RuleInv == \A r \in Requests : CreatesAlone(r)

\* A step of a request leaves the others where they are.
LEMMA OthersStay ==
  ASSUME TypeInv, NEW r \in Requests, Arrive(r) \/ Work(r) \/ Fails(r) \/ Crash(r)
  PROVE  \A q \in Requests \ {r} :
           pc'[q] = pc[q] /\ input'[q] = input[q] /\ seen'[q] = seen[q]
<1>1. CASE Arrive(r) BY <1>1 DEF Arrive, TypeInv, TypeOK
<1>2. CASE Fails(r) \/ Crash(r) BY <1>2 DEF Fails, Crash, Stop, Goto, TypeInv, TypeOK
<1>3. CASE Persist(r) \/ ReadRule(r) \/ ListInstallments(r) \/ InsertInstallments(r)
  BY <1>3 DEF Persist, ReadRule, ListInstallments, InsertInstallments, Stop, Goto,
              TypeInv, TypeOK
<1>4. CASE Book(r) \/ Purchase(r) \/ Link(r) \/ Undo(r)
  BY <1>4 DEF Book, Purchase, Link, Undo, Stop, Goto, TypeInv, TypeOK
<1> QED BY <1>1, <1>2, <1>3, <1>4 DEF Work

\* A request that goes on keeps its input, and none but those that persist write
\* the rule.
LEMMA GoesOn ==
  ASSUME TypeInv, NEW r \in Requests, Work(r) \/ Fails(r) \/ Crash(r)
  PROVE  /\ InFlight(r) /\ UNCHANGED input
         /\ UNCHANGED rule \/ Persist(r)
         /\ pc'[r] = "persist" => ReadRule(r)
<1>1. CASE Fails(r) \/ Crash(r)
  BY <1>1 DEF Fails, Crash, Stop, Goto, InFlight, Stopped, tables, AfterRefusal, TypeInv, TypeOK
<1>2. CASE Persist(r) \/ ReadRule(r) \/ ListInstallments(r) \/ InsertInstallments(r)
  BY <1>2 DEF Persist, ReadRule, ListInstallments, InsertInstallments, Stop, Goto,
              InFlight, Stopped, tables, TypeInv, TypeOK
<1>3. CASE Book(r) \/ Purchase(r) \/ Link(r) \/ Undo(r)
  BY <1>3 DEF Book, Purchase, Link, Undo, Stop, Goto, InFlight, Stopped, AfterRefusal,
              TypeInv, TypeOK
<1> QED BY <1>1, <1>2, <1>3 DEF Work

\* A creation that is under way stays alone.
LEMMA OthersAlone ==
  ASSUME TypeInv, RuleInv, NEW r \in Requests, Arrive(r) \/ Work(r) \/ Fails(r) \/ Crash(r),
         NEW q \in Requests \ {r}
  PROVE  CreatesAlone(q)'
<1> SUFFICES ASSUME pc'[q] = "persist", input'[q].op = "create" PROVE FALSE
  BY DEF CreatesAlone
<1>1. pc[q] = "persist" /\ input[q].op = "create" BY OthersStay
<1>2. InFlight(q) BY <1>1 DEF InFlight, Stopped
<1>3. rule = NoRule /\ ~InFlight(r) BY <1>1 DEF RuleInv, CreatesAlone
<1>4. ~(Work(r) \/ Fails(r) \/ Crash(r)) BY <1>3, GoesOn
<1>5. ~Arrive(r) BY <1>2, <1>3 DEF Arrive
<1> QED BY <1>4, <1>5

\* A creation begins alone, and no other request comes to write without reading.
LEMMA OwnAlone ==
  ASSUME TypeInv, RuleInv, NEW r \in Requests, Arrive(r) \/ Work(r) \/ Fails(r) \/ Crash(r)
  PROVE  CreatesAlone(r)'
<1> SUFFICES ASSUME pc'[r] = "persist", input'[r].op = "create" PROVE CreatesAlone(r)'
  BY DEF CreatesAlone
<1>1. CASE Arrive(r)
  <2>1. rule' = NoRule /\ \A q \in Requests : ~InFlight(q)
    BY <1>1 DEF Arrive, tables, TypeInv, TypeOK
  <2>2. \A q \in Requests \ {r} : ~InFlight(q)'
    BY <1>1, <2>1, OthersStay DEF InFlight
  <2> QED BY <2>1, <2>2 DEF CreatesAlone
<1>2. CASE Work(r) \/ Fails(r) \/ Crash(r)
  <2>1. ReadRule(r) /\ UNCHANGED input BY <1>2, GoesOn
  <2>2. input[r] \in Inputs BY <2>1 DEF ReadRule, TypeInv, Asked
  <2>3. ~Generates(r) BY <2>1 DEF ReadRule, Goto, TypeInv, TypeOK
  <2>4. input[r].op # "create" BY <2>2, <2>3, NoneAssumption DEF Generates
  <2> QED BY <2>1, <2>4
<1> QED BY <1>1, <1>2

\* Nobody is about to write a rule at the start.
LEMMA RuleInvInit == Init => RuleInv
BY DEF Init, RuleInv, CreatesAlone

\* Every step keeps creations alone.
LEMMA RuleInvStep == TypeInv /\ RuleInv /\ [Next]_vars => RuleInv'
<1> SUFFICES ASSUME TypeInv, RuleInv, [Next]_vars PROVE RuleInv' OBVIOUS
<1>1. CASE UNCHANGED vars
  BY <1>1 DEF RuleInv, CreatesAlone, InFlight, vars, tables, requests
<1>2. ASSUME NEW r \in Requests, Arrive(r) \/ Work(r) \/ Fails(r) \/ Crash(r)
      PROVE  RuleInv'
  BY <1>2, OthersAlone, OwnAlone DEF RuleInv
<1> QED BY <1>1, <1>2 DEF Next

\* Of the five changes, a pause and a cancel write another status, a creation finds
\* no rule that was stopped, and an edit writes the status it read.
LEMMA Reactivated ==
  TypeInv /\ RuleInv /\ [Next]_vars =>
    [rule.status \in {"paused", "cancelled"} /\ rule'.status = "active" =>
       \E r \in Requests :
         /\ Persist(r)
         /\ \/ input[r].op = "resume"
            \/ input[r].op = "update" /\ seen[r].rule.status = "active"]_vars
<1> SUFFICES ASSUME TypeInv, RuleInv, Next,
                    rule.status \in {"paused", "cancelled"}, rule'.status = "active"
             PROVE  \E r \in Requests :
                      /\ Persist(r)
                      /\ \/ input[r].op = "resume"
                         \/ input[r].op = "update" /\ seen[r].rule.status = "active"
  OBVIOUS
<1>1. PICK r \in Requests : Arrive(r) \/ Work(r) \/ Fails(r) \/ Crash(r) BY DEF Next
<1>2. ~Arrive(r) BY DEF Arrive, tables
<1>3. Persist(r) BY <1>1, <1>2, GoesOn
<1>4. input[r] \in Inputs /\ input[r].op # "generate" BY <1>3 DEF Persist, TypeInv, Asked
<1>5. input[r].op # "create" BY <1>3 DEF Persist, RuleInv, CreatesAlone, NoRule
<1>6. seen[r].rule \in Rules BY DEF TypeInv, TypeOK, Memories
<1>7. rule' = Edited(input[r], seen[r].rule) BY <1>3 DEF Persist
<1>8. input[r].op \notin {"pause", "cancel"} BY <1>6, <1>7 DEF Edited, Rules
<1>9. input[r].op = "update" => seen[r].rule.status = "active"
  BY <1>6, <1>7 DEF Edited, Rules
<1> QED BY <1>3, <1>4, <1>5, <1>8, <1>9, InputKinds

\* A stale write back of the row is the only change that brings a stopped
\* rule back without a resume, for every overlap of requests.
THEOREM StoppedUntilOverwritten == Spec => OnlyStaleEditsReactivate
BY InitType, StepType, RuleInvInit, RuleInvStep, Reactivated, PTL
   DEF Spec, OnlyStaleEditsReactivate

=============================================================================
