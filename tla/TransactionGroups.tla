------------------------- MODULE TransactionGroups -------------------------
(***************************************************************************)
(* Entries of an account statement (table "Transaction"), the groups that  *)
(* show several of them as one line (table "TransactionGroup"), and the    *)
(* handlers that change either for ONE tenant: update and void of an entry, *)
(* group, ungroup, status and void of a group, void of a member, and the   *)
(* bulk actions.                                                           *)
(*                                                                         *)
(* The handlers of one entry read it with `query` and write it back later, *)
(* as a whole.  All others work inside one transaction that locks what it  *)
(* reads (`for update`) row by row, in the order its query sorts them, and *)
(* different handlers sort differently.  Locks are held to the end of the  *)
(* transaction, so its writes are one step; a cycle of waiting transactions *)
(* is broken by PostgreSQL, which aborts one of them.                      *)
(***************************************************************************)
EXTENDS Integers

CONSTANTS
  Entries,        \* rows of "Transaction"
  Requests,       \* the HTTP requests of a behaviour; each also mints a group id
  Legacy,         \* id of the group that may exist from the start
  Classes,        \* what account, kind, currency, card and invoice amount to:
                  \* entries of different classes cannot share a group
  Roles,          \* the operations each request may be
  Statements,     \* the entries a behaviour may begin with
  UpdateStatuses, \* status a PATCH of an entry may carry, "keep" when absent
  Selections,     \* sets of entries a user may select
  ById, ByDate,   \* the orders the queries lock rows in, as ranks of entries
  None

GroupIds == Requests \cup {Legacy}

ASSUME NamesAssumption ==
  /\ None \notin GroupIds \cup Entries \cup Classes
  /\ Legacy \notin Requests /\ Entries \cap GroupIds = {}
ASSUME SelectionsAssumption == Selections \subseteq SUBSET Entries
ASSUME RolesAssumption ==
  Roles \in [Requests -> SUBSET {"update", "void", "create", "ungroup", "void_group",
                                "status", "void_member", "bulk"}]
ASSUME OrdersAssumption ==
  \A order \in {ById, ByDate} :
    /\ order \in [Entries -> Nat]
    /\ \A e, f \in Entries : order[e] = order[f] => e = f
ASSUME UpdateStatusesAssumption ==
  UpdateStatuses \subseteq {"keep", "planned", "posted", "reconciled", "voided"}

Statuses == {"planned", "posted", "reconciled", "voided"}
Rows     == [class : Classes, status : Statuses, group : GroupIds \cup {None}]

ASSUME NoRowAssumption == None \notin Rows

Alike(row, other) == row.class = other.class /\ row.status = other.status

\* At first there is no group but the legacy one, made as any other.
ASSUME StatementsAssumption ==
  \A rows \in Statements :
    /\ rows \in [Entries -> [class : Classes, status : Statuses, group : {Legacy, None}]]
    /\ \A e \in Entries : rows[e].group = Legacy =>
         /\ rows[e].status # "voided"
         /\ \E f \in Entries : f # e /\ rows[f].group = Legacy
         /\ \A f \in Entries : rows[f].group = Legacy => Alike(rows[e], rows[f])

\* A bulk action selects at most one group; the code allows 500.
Inputs ==
       [op : {"update"}, entry : Entries, to : UpdateStatuses,
        class : Classes \cup {None}]
  \cup [op : {"void"}, entry : Entries]
  \cup [op : {"create"}, ids : Selections]
  \cup [op : {"ungroup", "void_group"}, group : GroupIds]
  \cup [op : {"status"}, group : GroupIds, to : {"posted", "reconciled"}]
  \cup [op : {"void_member"}, group : GroupIds, entry : Entries]
  \cup [op : {"bulk"}, group : GroupIds \cup {None}, ids : Selections,
        to : {"posted", "reconciled", "voided"}]

VARIABLES
  entry,   \* table "Transaction"
  groups,  \* ids in table "TransactionGroup"
  lock,    \* the transaction that holds each row of the two tables
  pc,      \* how far each request is
  input,   \* what each request asked for
  seen     \* what each handler has read, and what it has still to lock

tables   == <<entry, groups>>
requests == <<pc, input, seen>>
vars     == <<tables, lock, requests>>

NothingSeen == [todo |-> {}, rows |-> [e \in Entries |-> None], order |-> ById]

TypeOK ==
  /\ entry \in [Entries -> Rows]
  /\ groups \subseteq GroupIds
  /\ lock \in [Entries \cup GroupIds -> Requests \cup {None}]
  /\ pc \in [Requests -> {"idle", "read", "group", "list", "members", "direct",
                          "ready", "done", "refused"}]
  /\ input \in [Requests -> Inputs \cup {None}]
  /\ seen \in [Requests -> [todo : SUBSET Entries,
                            rows : [Entries -> Rows \cup {None}],
                            order : {ById, ByDate}]]

MembersOf(g) == {e \in Entries : entry[e].group = g}

Several(S) == \E e, f \in S : e # f

\* Groups that validateTransactionGroupMembers would accept.
Uniform(S) ==
  /\ Several(S)
  /\ \A e, f \in S : Alike(entry[e], entry[f]) /\ entry[e].status # "voided"

Init ==
  /\ entry \in Statements
  /\ groups = IF MembersOf(Legacy) = {} THEN {} ELSE {Legacy}
  /\ lock = [x \in Entries \cup GroupIds |-> None]
  /\ pc = [r \in Requests |-> "idle"]
  /\ input = [r \in Requests |-> None]
  /\ seen = [r \in Requests |-> NothingSeen]

-----------------------------------------------------------------------------
(* Life of a request.                                                      *)

Goto(r, at) ==
  /\ pc' = [pc EXCEPT ![r] = at]
  /\ UNCHANGED input

Admit(r, in, at) ==
  /\ pc[r] = "idle" /\ in.op \in Roles[r]
  /\ pc' = [pc EXCEPT ![r] = at]
  /\ input' = [input EXCEPT ![r] = in]

\* Mutant: a transaction that throws is not rolled back before its connection
\* returns to the pool.
ReleasedOnCommit(r, to) ==
  [x \in DOMAIN lock |-> IF lock[x] = r /\ to = "done" THEN None ELSE lock[x]]

\* COMMIT or ROLLBACK gives all locks back.
Released(r, to) == [x \in DOMAIN lock |-> IF lock[x] = r THEN None ELSE lock[x]]

Finish(r, to) ==
  /\ Goto(r, to)
  /\ seen' = [seen EXCEPT ![r] = NothingSeen]
  /\ lock' = Released(r, to)

Refuse(r) == Finish(r, "refused") /\ UNCHANGED tables

Answer(r, rows, existing) ==
  /\ entry' = rows
  /\ groups' = existing
  /\ Finish(r, "done")

\* Rows with new values for the members of S.
WithStatus(rows, S, status) ==
  [e \in Entries |-> IF e \in S THEN [rows[e] EXCEPT !.status = status] ELSE rows[e]]

WithGroup(rows, S, g) ==
  [e \in Entries |-> IF e \in S THEN [rows[e] EXCEPT !.group = g] ELSE rows[e]]

-----------------------------------------------------------------------------
(* updateTransactionForContext and voidTransactionForContext.              *)

Only(e) == [NothingSeen.rows EXCEPT ![e] = entry[e]]

\* A member may not be asked for another status, account, kind or currency.
UpdateBegin(r) ==
  \E e \in Entries, to \in UpdateStatuses, class \in Classes \cup {None} :
    /\ Admit(r, [op |-> "update", entry |-> e, to |-> to, class |-> class],
             IF entry[e].group # None /\ (to # "keep" \/ class # None)
               THEN "refused" ELSE "read")
    /\ seen' = [seen EXCEPT ![r].rows = Only(e)]
    /\ UNCHANGED <<tables, lock>>

VoidBegin(r) ==
  \E e \in Entries :
    /\ Admit(r, [op |-> "void", entry |-> e],
             IF entry[e].group # None THEN "refused" ELSE "read")
    /\ seen' = [seen EXCEPT ![r].rows = Only(e)]
    /\ UNCHANGED <<tables, lock>>

\* What is written: the row as it was read, with the fields of the payload.
Written(in, row) ==
  IF in.op = "void" THEN [row EXCEPT !.status = "voided"]
  ELSE [row EXCEPT !.status = IF in.to = "keep" THEN @ ELSE in.to,
                   !.class  = IF in.class = None THEN @ ELSE in.class]

\* Mutant: the table has no trigger.
NeverGuarded(old, new) == FALSE

\* The trigger prevent_grouped_transaction_invalidation, on the row as it is.
Guarded(old, new) == old.group # None /\ ~Alike(old, new)

\* The update waits for whoever holds the row.  It does not write the column
\* "transactionGroupId".
EntryCommit(r) ==
  /\ pc[r] = "read"
  /\ LET e   == input[r].entry
         new == Written(input[r], seen[r].rows[e])
     IN  /\ lock[e] = None
         /\ IF Guarded(entry[e], new) THEN Refuse(r)
            ELSE Answer(r, [entry EXCEPT ![e] = [new EXCEPT !.group = entry[e].group]],
                        groups)

-----------------------------------------------------------------------------
(* The transactions that lock.  A request goes through the stages "group",  *)
(* "list", "members", "direct" and "ready", and skips those its handler has *)
(* no query for.                                                           *)

CreateBegin(r) ==
  \E ids \in Selections :
    /\ Several(ids)
    /\ Admit(r, [op |-> "create", ids |-> ids], "direct")
    /\ seen' = [seen EXCEPT ![r].todo = ids, ![r].order = ByDate]
    /\ UNCHANGED <<tables, lock>>

\* The group is read without a lock and deleted last; the rows of an update are
\* locked in no stated order.
UngroupBegin(r) ==
  \E g \in groups, order \in {ById, ByDate} :
    /\ Admit(r, [op |-> "ungroup", group |-> g], "list")
    /\ seen' = [seen EXCEPT ![r].order = order]
    /\ UNCHANGED <<tables, lock>>

\* transaction-group-actions.ts; a request for a group that never was finds none.
GroupInputs ==
       [op : {"void_group"}, group : groups]
  \cup [op : {"status"}, group : groups, to : {"posted", "reconciled"}]
  \cup [op : {"void_member"}, group : groups, entry : Entries]

GroupBegin(r) ==
  /\ \E in \in GroupInputs : Admit(r, in, "group")
  /\ seen' = [seen EXCEPT ![r].order = ByDate]
  /\ UNCHANGED <<tables, lock>>

BulkBegin(r) ==
  \E g \in groups \cup {None}, ids \in Selections, to \in {"posted", "reconciled", "voided"} :
    /\ g # None \/ ids # {}
    /\ Admit(r, [op |-> "bulk", group |-> g, ids |-> ids, to |-> to],
             IF g = None THEN "direct" ELSE "group")
    /\ seen' = [seen EXCEPT ![r].todo = IF g = None THEN ids ELSE {},
                            ![r].order = ById]
    /\ UNCHANGED <<tables, lock>>

\* Mutant: the rows are read without `for update`.
NotTaken(r, x) == lock

Taken(r, x) == [lock EXCEPT ![x] = r]

\* `select ... for update` of the group, or the delete that ends an ungrouping.
LockGroup(r) ==
  LET g == input[r].group
  IN  /\ pc[r] = "group"
      /\ lock[g] = None
      /\ IF input[r].op = "ungroup" THEN Goto(r, "ready") /\ UNCHANGED seen
         ELSE IF g \in groups THEN Goto(r, "list") /\ UNCHANGED seen
         ELSE Goto(r, "refused") /\ seen' = [seen EXCEPT ![r] = NothingSeen]
      /\ lock' = IF g \in groups THEN [lock EXCEPT ![g] = r] ELSE lock
      /\ UNCHANGED tables

\* The statement on the members begins: it will look at the rows that are
\* members now, and at no others.
ListMembers(r) ==
  /\ pc[r] = "list"
  /\ Goto(r, "members")
  /\ seen' = [seen EXCEPT ![r].todo = MembersOf(input[r].group)]
  /\ UNCHANGED <<tables, lock>>

NextRow(r) ==
  CHOOSE e \in seen[r].todo :
    \A f \in seen[r].todo : seen[r].order[e] <= seen[r].order[f]

\* A row that is a member no more once its lock is free is passed over.
Matches(r, e) == pc[r] = "members" => entry[e].group = input[r].group

LockRow(r) ==
  /\ pc[r] \in {"members", "direct"} /\ seen[r].todo # {}
  /\ LET e == NextRow(r)
     IN  /\ lock[e] \in {r, None}
         /\ lock' = IF Matches(r, e) THEN Taken(r, e) ELSE lock
         /\ seen' = [seen EXCEPT
              ![r].todo = @ \ {e},
              ![r].rows[e] = IF Matches(r, e) THEN entry[e] ELSE @]
  /\ UNCHANGED <<tables, pc, input>>

NextStage(r) ==
  /\ pc[r] \in {"members", "direct"} /\ seen[r].todo = {}
  /\ IF pc[r] = "members" /\ input[r].op = "bulk"
       THEN Goto(r, "direct") /\ seen' = [seen EXCEPT ![r].todo = input[r].ids]
       ELSE /\ Goto(r, IF input[r].op = "ungroup" THEN "group" ELSE "ready")
            /\ UNCHANGED seen
  /\ UNCHANGED <<tables, lock>>

-----------------------------------------------------------------------------
(* What the transactions write, from the rows they have read.              *)

Read(r)        == {e \in Entries : seen[r].rows[e] # None}
ReadMembers(r) == {e \in Read(r) : seen[r].rows[e].group = input[r].group}

CanCommit(r, op) == pc[r] = "ready" /\ input[r].op = op

\* validateTransactionGroupMembers on the rows read.
Groupable(r) ==
  \A e, f \in Read(r) :
    LET row == seen[r].rows[e]
    IN  row.status # "voided" /\ row.group = None /\ Alike(row, seen[r].rows[f])

\* The update asks once more that no row has a group.
CreateCommit(r) ==
  /\ CanCommit(r, "create")
  /\ IF Groupable(r) /\ \A e \in input[r].ids : entry[e].group = None
       THEN Answer(r, WithGroup(entry, input[r].ids, r), groups \cup {r})
       ELSE Refuse(r)

UngroupCommit(r) ==
  /\ CanCommit(r, "ungroup")
  /\ Answer(r, WithGroup(entry, Read(r), None), groups \ {input[r].group})

\* Reconciling wants posted members, undoing it reconciled ones.
StatusRefused(rows, to) ==
  \E row \in rows : row.status # IF to = "reconciled" THEN "posted" ELSE "reconciled"

StatusCommit(r) ==
  LET to   == input[r].to
      rows == {seen[r].rows[e] : e \in Read(r)}
  IN  /\ CanCommit(r, "status")
      /\ IF ~Several(Read(r)) THEN Refuse(r)
         ELSE IF \A row \in rows : row.status = to THEN Answer(r, entry, groups)
         ELSE IF StatusRefused(rows, to) THEN Refuse(r)
         ELSE Answer(r, WithStatus(entry, Read(r), to), groups)

\* A group of two loses both members: one is voided, the other stands alone.
VoidMemberCommit(r) ==
  LET g    == input[r].group
      e    == input[r].entry
      rest == Read(r) \ {e}
      gone == WithStatus(WithGroup(entry, {e}, None), {e}, "voided")
  IN  /\ CanCommit(r, "void_member")
      /\ IF ~Several(Read(r)) \/ e \notin Read(r) THEN Refuse(r)
         ELSE IF ~Several(rest)
           THEN Answer(r, WithGroup(gone, MembersOf(g), None), groups \ {g})
           ELSE Answer(r, gone, groups)

VoidGroupCommit(r) ==
  LET g == input[r].group
  IN  /\ CanCommit(r, "void_group")
      /\ IF ~Several(Read(r)) THEN Refuse(r)
         ELSE Answer(r, WithStatus(WithGroup(entry, MembersOf(g), None),
                                   Read(r), "voided"), groups \ {g})

\* The rows a bulk action changes: those that still have the status it is about.
Applies(row, to) ==
  CASE to = "reconciled" -> row.status = "posted"
    [] to = "posted"     -> row.status = "reconciled"
    [] to = "voided"     -> row.status # "voided"

\* Only whole groups are selected, and only posted or reconciled entries can be
\* reconciled or not.
BulkRefused(r) ==
  \/ input[r].group # None /\ ~Several(ReadMembers(r))
  \/ \E e \in input[r].ids : seen[r].rows[e].group \notin {None, input[r].group}
  \/ /\ input[r].to # "voided"
     /\ \E e \in Read(r) : seen[r].rows[e].status \notin {"posted", "reconciled"}

\* Members are detached and, unless they are voided, attached again.
BulkCommit(r) ==
  LET g        == input[r].group
      to       == input[r].to
      changed  == WithStatus(entry, {e \in Read(r) : Applies(entry[e], to)}, to)
      detached == IF g = None THEN changed ELSE WithGroup(changed, MembersOf(g), None)
  IN  /\ CanCommit(r, "bulk")
      /\ IF BulkRefused(r) THEN Refuse(r)
         ELSE IF to = "voided" \/ g = None
           THEN Answer(r, detached, IF to = "voided" THEN groups \ {g} ELSE groups)
           ELSE Answer(r, WithGroup(detached, ReadMembers(r), g), groups)

-----------------------------------------------------------------------------
(* PostgreSQL and the network.                                             *)

\* The row r waits for.
Wanted(r) ==
  CASE pc[r] = "read"  -> input[r].entry
    [] pc[r] = "group" -> input[r].group
    [] pc[r] \in {"members", "direct"} /\ seen[r].todo # {} -> NextRow(r)
    [] OTHER -> None

WaitsFor(r, q) == r # q /\ Wanted(r) # None /\ lock[Wanted(r)] = q

\* Every transaction of S waits for one of S.
Deadlocked(S) == S # {} /\ \A r \in S : \E q \in S : WaitsFor(r, q)

\* The detector aborts a transaction of a cycle: of a set as small as it can be.
BreakDeadlock ==
  \E S \in SUBSET Requests :
    /\ Deadlocked(S)
    /\ \A T \in SUBSET S : Deadlocked(T) => T = S
    /\ \E r \in S : Refuse(r)

InFlight(r) == pc[r] \notin {"idle", "done", "refused"}

\* A query fails, or the process dies and its connections close: a rollback.
Fail(r) == InFlight(r) /\ Refuse(r)

Begin(r) ==
  \/ UpdateBegin(r) \/ VoidBegin(r) \/ CreateBegin(r)
  \/ UngroupBegin(r) \/ GroupBegin(r) \/ BulkBegin(r)

Work(r) ==
  \/ EntryCommit(r) \/ LockGroup(r) \/ ListMembers(r) \/ LockRow(r) \/ NextStage(r)
  \/ CreateCommit(r) \/ UngroupCommit(r) \/ StatusCommit(r)
  \/ VoidMemberCommit(r) \/ VoidGroupCommit(r) \/ BulkCommit(r)

Next == BreakDeadlock \/ \E r \in Requests : Begin(r) \/ Work(r) \/ Fail(r)

\* A transaction goes on when the row it waits for is free, and the detector
\* runs; no client is obliged to send anything.
Spec ==
  /\ Init /\ [][Next]_vars
  /\ \A r \in Requests : WF_vars(Work(r))
  /\ WF_vars(BreakDeadlock)

-----------------------------------------------------------------------------
(* What the component promises.                                            *)

\* A group is one line of the statement: it has two members or more, of one
\* account, kind, currency and status, none voided, and no entry names a group
\* that is gone.  So for all overlaps, although an update of an entry writes
\* the status it read before the entry was grouped.
GroupIsUniform ==
  \A e \in Entries :
    entry[e].group # None =>
      entry[e].group \in groups /\ Uniform(MembersOf(entry[e].group))

Asked(in) ==
       (IF in.op = "bulk" THEN in.ids ELSE {})
  \cup (IF in.group = None THEN {} ELSE MembersOf(in.group))

StatusAsked(in) == IF in.op = "void_group" THEN "voided" ELSE in.to

\* An action on a selection is all or nothing: when it answers, every entry it
\* was asked for, and every member of the group it was asked for, has the status
\* asked for, whatever became of them since the user made the selection.
SelectionTakenWhole ==
  [][\A r \in Requests :
       /\ pc[r] = "ready" /\ pc'[r] = "done"
       /\ input[r].op \in {"bulk", "status", "void_group"}
       => \A e \in Asked(input[r]) : entry'[e].status = StatusAsked(input[r])]_vars

\* No request waits for ever, although handlers lock groups and entries in
\* different orders: a deadlock costs one of them, and every lock is given back.
RequestsEnd == \A r \in Requests : InFlight(r) ~> ~InFlight(r)

=============================================================================
