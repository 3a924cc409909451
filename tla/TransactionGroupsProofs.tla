----------------------- MODULE TransactionGroupsProofs -----------------------
(***************************************************************************)
(* Theorems about TransactionGroups for every set of entries, requests and *)
(* classes, every selection, role and order of locking: requests may       *)
(* interleave, fail, deadlock and be aborted in any way.                   *)
(*                                                                         *)
(*   TypeCorrect        Spec => []TypeOK                                   *)
(*   GroupsUniform      Spec => []GroupIsUniform                           *)
(*   TakenWhole         Spec => SelectionTakenWhole                        *)
(*   NoLockLeft         Spec => []LockedByLiving                           *)
(*   SomebodyGoesOn     FiniteRequests /\ Spec => []NeverStuck             *)
(***************************************************************************)
EXTENDS TransactionGroups, FiniteSetTheorems, TLAPS

-----------------------------------------------------------------------------
(* The inductive invariant.                                                *)

\* The stages of a transaction that locks what it reads.
Working == {"group", "list", "members", "direct", "ready"}

\* What a request that has begun can have asked for, and that the group it asked
\* for is an old one.
Asks(r) ==
  /\ pc[r] # "idle" => input[r] \in Inputs
  /\ pc[r] = "read" =>
       input[r].op \in {"update", "void"} /\ seen[r].rows[input[r].entry] \in Rows
  /\ pc[r] \in Working => input[r].op \notin {"update", "void"}
  /\ pc[r] \in {"group", "list", "members"} =>
       input[r].op # "create" /\ input[r].group \in GroupIds
  /\ pc[r] = "direct" => input[r].op \in {"create", "bulk"}
  /\ pc[r] \in Working /\ input[r].op = "create" => Several(input[r].ids)
  /\ pc[r] \in Working /\ input[r].op # "create" /\ input[r].group \in Requests =>
       pc[input[r].group] = "done"

\* What a transaction has read it has locked, and is still so.
Holds(r) ==
  /\ pc[r] = "idle" => Read(r) = {}
  /\ pc[r] \in Working =>
       \A e \in Read(r) : lock[e] = r /\ seen[r].rows[e] = entry[e]

IdsAsked(r) == IF input[r].op \in {"create", "bulk"} THEN input[r].ids ELSE {}

MembersAsked(r) ==
  {e \in Entries : /\ input[r].op # "create"
                   /\ entry[e].group = input[r].group
                   /\ entry[e].group # None}

\* A transaction has read, or has still to lock, every entry it was asked for and
\* every entry that is a member of its group now; and it reads no others.
Covers(r) ==
  pc[r] \in Working =>
    /\ Read(r) \subseteq MembersAsked(r) \cup IdsAsked(r)
    /\ pc[r] = "list" \/ (pc[r] = "group" /\ input[r].op # "ungroup") => Read(r) = {}
    /\ pc[r] = "members" => MembersAsked(r) \subseteq seen[r].todo \cup Read(r)
    /\ pc[r] = "members" => Read(r) \subseteq MembersAsked(r)
    /\ pc[r] \in {"direct", "ready"} \/ (pc[r] = "group" /\ input[r].op = "ungroup") =>
         MembersAsked(r) \subseteq Read(r)
    /\ pc[r] = "direct" => seen[r].todo \subseteq IdsAsked(r)
    /\ pc[r] = "direct" => IdsAsked(r) \subseteq seen[r].todo \cup Read(r)
    /\ pc[r] = "ready" => IdsAsked(r) \subseteq Read(r)

\* A group is made by a request that is done.
Minted == \A g \in groups \cap Requests : pc[g] = "done"

GroupInv ==
  /\ TypeOK
  /\ GroupIsUniform
  /\ Minted
  /\ \A r \in Requests : Asks(r) /\ Holds(r) /\ Covers(r)

-----------------------------------------------------------------------------
(* Values.                                                                 *)

LEMMA InputKinds ==
  ASSUME NEW in \in Inputs
  PROVE  /\ in.op \in {"update", "void", "create", "ungroup", "void_group", "status",
                       "void_member", "bulk"}
         /\ in.op = "update" => in.entry \in Entries /\ in.to \in UpdateStatuses
                                /\ in.class \in Classes \cup {None}
         /\ in.op = "void" => in.entry \in Entries
         /\ in.op \in {"create", "bulk"} => in.ids \in Selections
         /\ in.op \in {"ungroup", "void_group", "status", "void_member"} =>
              in.group \in GroupIds
         /\ in.op = "bulk" => in.group \in GroupIds \cup {None}
                              /\ in.to \in {"posted", "reconciled", "voided"}
         /\ in.op = "status" => in.to \in {"posted", "reconciled"}
BY DEF Inputs

LEMMA NothingSeenType ==
  /\ NothingSeen \in [todo : SUBSET Entries, rows : [Entries -> Rows \cup {None}],
                      order : {ById, ByDate}]
  /\ NothingSeen.todo = {}
  /\ \A e \in Entries : NothingSeen.rows[e] = None
BY DEF NothingSeen

\* Orders are ranks, so the next row to lock is one of those to be locked.
LEMMA NextRowType ==
  ASSUME TypeOK, NEW r \in Requests, seen[r].todo # {}
  PROVE  NextRow(r) \in seen[r].todo
<1> DEFINE T     == seen[r].todo
           order == seen[r].order
           ranks == {order[e] : e \in T}
<1>1. T \subseteq Entries /\ order \in [Entries -> Nat]
  BY OrdersAssumption DEF TypeOK
<1>2. ranks \subseteq Nat /\ ranks # {} BY <1>1
<1>3. PICK n \in ranks : \A k \in ranks : ~(<<k, n>> \in OpToRel(<, Nat))
  BY <1>2, NatLessThanWellFounded, WFMin
<1>4. \A k \in ranks : ~(k < n) BY <1>2, <1>3, Zenon DEF OpToRel
<1>5. PICK e \in T : order[e] = n OBVIOUS
<1>6. ASSUME NEW f \in T PROVE order[e] <= order[f]
  <2>1. order[f] \in ranks OBVIOUS
  <2>2. order[e] \in Nat /\ order[f] \in Nat BY <1>1
  <2>3. ~(order[f] < order[e]) BY <1>4, <1>5, <2>1
  <2> QED BY ONLY <2>2, <2>3
<1> QED BY <1>6 DEF NextRow

\* What a request remembers, and what it remembers after an assignment to seen.
Memories == [todo : SUBSET Entries, rows : [Entries -> Rows \cup {None}], order : {ById, ByDate}]

LEMMA WithTodo ==
  ASSUME NEW m \in Memories, NEW todo \in SUBSET Entries
  PROVE  LET n == [m EXCEPT !.todo = todo]
         IN  n \in Memories /\ n.todo = todo /\ n.rows = m.rows
BY DEF Memories

LEMMA WithOrder ==
  ASSUME NEW m \in Memories, NEW order \in {ById, ByDate}
  PROVE  LET n == [m EXCEPT !.order = order]
         IN  n \in Memories /\ n.todo = m.todo /\ n.rows = m.rows
BY DEF Memories

LEMMA WithRow ==
  ASSUME NEW m \in Memories, NEW e \in Entries, NEW row \in Rows \cup {None}
  PROVE  LET n == [m EXCEPT !.rows[e] = row]
         IN  n \in Memories /\ n.todo = m.todo /\ n.rows = [m.rows EXCEPT ![e] = row]
<1>1. PICK rows : rows = [m.rows EXCEPT ![e] = row] OBVIOUS
<1>2. rows \in [Entries -> Rows \cup {None}] BY <1>1 DEF Memories
<1>3. PICK n : n = [m EXCEPT !.rows = rows] OBVIOUS
<1>4. n \in Memories /\ n.todo = m.todo /\ n.rows = rows BY <1>2, <1>3 DEF Memories
<1> QED BY <1>1, <1>3, <1>4

LEMMA Remembers ==
  ASSUME TypeOK, NEW r \in Requests, NEW m \in Memories, seen' = [seen EXCEPT ![r] = m]
  PROVE  /\ seen' \in [Requests -> [todo : SUBSET Entries, rows : [Entries -> Rows \cup {None}],
                                    order : {ById, ByDate}]]
         /\ seen'[r] = m
         /\ \A q \in Requests \ {r} : seen'[q] = seen[q]
<1>1. seen \in [Requests -> Memories] BY DEF TypeOK, Memories
<1>2. seen' \in [Requests -> Memories] BY ONLY <1>1, seen' = [seen EXCEPT ![r] = m], m \in Memories
<1>3. /\ seen'[r] = m
      /\ \A q \in Requests \ {r} : seen'[q] = seen[q]
  BY <1>1
<1> QED BY <1>2, <1>3 DEF Memories

LEMMA Remembered ==
  ASSUME TypeOK, NEW r \in Requests
  PROVE  seen[r] \in Memories /\ r \in DOMAIN seen
BY DEF TypeOK, Memories

-----------------------------------------------------------------------------
(* What a step of one request leaves to the others.                        *)

\* No step touches what another request has locked, and entries join no group
\* but a new one.
Apart(r) ==
  /\ \A q \in Requests \ {r} :
       pc'[q] = pc[q] /\ input'[q] = input[q] /\ seen'[q] = seen[q]
  /\ \A x \in Entries \cup GroupIds : lock[x] \notin {r, None} => lock'[x] = lock[x]
  /\ \A e \in Entries : lock[e] \notin {r, None} => entry'[e] = entry[e]
  /\ \A e \in Entries : entry'[e].group \in {entry[e].group, None, r}

LEMMA OthersKeep ==
  ASSUME GroupInv, NEW r \in Requests, pc[r] # "done", Apart(r),
         NEW q \in Requests \ {r}
  PROVE  Asks(q)' /\ Holds(q)' /\ Covers(q)'
<1>1. pc'[q] = pc[q] /\ input'[q] = input[q] /\ seen'[q] = seen[q]
  BY DEF Apart
<1>2. Asks(q) /\ Holds(q) /\ Covers(q) BY DEF GroupInv
<1>3. Asks(q)'
  <2>1. input[q].group \in Requests /\ pc[input[q].group] = "done" =>
          pc'[input[q].group] = "done"
    BY DEF Apart
  <2> QED BY <1>1, <1>2, <2>1 DEF Asks, Working
<1>4. Read(q)' = Read(q) BY <1>1 DEF Read
<1>5. Holds(q)'
  <2> SUFFICES ASSUME pc[q] \in Working, NEW e \in Read(q)
               PROVE  lock'[e] = q /\ seen[q].rows[e] = entry'[e]
    BY <1>1, <1>2, <1>4 DEF Holds
  <2>1. lock[e] = q /\ seen[q].rows[e] = entry[e] /\ e \in Entries
    BY <1>2 DEF Holds, Read
  <2>2. lock[e] \notin {r, None}
    BY <2>1, NamesAssumption DEF GroupIds
  <2> QED BY <2>1, <2>2 DEF Apart
<1>6. Covers(q)'
  <2> SUFFICES ASSUME pc[q] \in Working PROVE Covers(q)' BY <1>1 DEF Covers
  <2>1. IdsAsked(q)' = IdsAsked(q) BY <1>1 DEF IdsAsked
  <2>2. input[q].op # "create" => input[q].group # r
    BY <1>2 DEF Asks
  <2>3. MembersAsked(q)' \subseteq MembersAsked(q)
    BY <1>1, <2>2 DEF MembersAsked, Apart
  <2>4. MembersAsked(q) \cap Read(q) \subseteq MembersAsked(q)'
    <3> SUFFICES ASSUME NEW e \in MembersAsked(q), e \in Read(q)
                 PROVE  e \in MembersAsked(q)'
      OBVIOUS
    <3>1. entry'[e] = entry[e]
      BY <1>1, <1>2, <1>4, <1>5 DEF Holds, MembersAsked
    <3> QED BY <1>1, <3>1 DEF MembersAsked
  <2>5. Read(q) \subseteq MembersAsked(q)' \cup IdsAsked(q)
    BY <1>2, <2>4 DEF Covers
  <2> QED BY <1>1, <1>2, <1>4, <2>1, <2>3, <2>4, <2>5 DEF Covers
<1> QED BY <1>3, <1>5, <1>6

-----------------------------------------------------------------------------
(* Steps of one request that change no table.                              *)

\* What a step of r must establish, beside what it leaves alone.
Own(r) ==
  /\ pc' \in [Requests -> {"idle", "read", "group", "list", "members", "direct",
                           "ready", "done", "refused"}]
  /\ input' \in [Requests -> Inputs \cup {None}]
  /\ seen' \in [Requests -> [todo : SUBSET Entries, rows : [Entries -> Rows \cup {None}],
                             order : {ById, ByDate}]]
  /\ lock' \in [Entries \cup GroupIds -> Requests \cup {None}]
  /\ Asks(r)' /\ Holds(r)' /\ Covers(r)'

\* The tables stay: nothing is to be shown of groups.
LEMMA QuietStep ==
  ASSUME GroupInv, NEW r \in Requests, pc[r] # "done", UNCHANGED tables, Apart(r), Own(r)
  PROVE  GroupInv'
<1>1. TypeOK' BY DEF Own, TypeOK, GroupInv, tables
<1>2. GroupIsUniform'
  BY DEF GroupInv, tables, GroupIsUniform, Uniform, MembersOf, Several
<1>3. Minted' BY DEF GroupInv, tables, Minted, Apart
<1> QED BY <1>1, <1>2, <1>3, OthersKeep DEF Own, GroupInv

\* A request that ends holds nothing.
LEMMA FinishOwn ==
  ASSUME GroupInv, NEW r \in Requests, pc[r] # "idle",
         NEW to \in {"done", "refused"}, Finish(r, to)
  PROVE  /\ Own(r)
         /\ pc'[r] = to
         /\ \A q \in Requests \ {r} :
              pc'[q] = pc[q] /\ input'[q] = input[q] /\ seen'[q] = seen[q]
         /\ \A x \in Entries \cup GroupIds : lock[x] \notin {r, None} => lock'[x] = lock[x]
<1>1. /\ pc' = [pc EXCEPT ![r] = to] /\ UNCHANGED input
      /\ seen' = [seen EXCEPT ![r] = NothingSeen]
      /\ lock' = [x \in DOMAIN lock |-> IF lock[x] = r THEN None ELSE lock[x]]
  BY DEF Finish, Goto, Released
<1>2. TypeOK /\ Asks(r) BY DEF GroupInv
<1>3. Asks(r)' BY <1>1, <1>2 DEF TypeOK, Asks, Working
<1>4. pc'[r] \notin Working BY <1>1, <1>2 DEF TypeOK, Working
<1>5. Holds(r)' /\ Covers(r)' BY <1>1, <1>2, <1>4 DEF Holds, Covers, TypeOK
<1> QED BY <1>1, <1>2, <1>3, <1>5, NothingSeenType DEF TypeOK, Own

LEMMA RefuseStep ==
  ASSUME GroupInv, NEW r \in Requests, pc[r] \notin {"idle", "done"}, Refuse(r)
  PROVE  GroupInv'
<1>1. UNCHANGED tables /\ Finish(r, "refused") BY DEF Refuse
<1>2. Apart(r) BY <1>1, FinishOwn DEF Apart, tables
<1> QED BY <1>1, <1>2, FinishOwn, QuietStep

\* Beginnings: what a request asks for in the first step, and what it remembers.
Admitted(r, in, at) ==
  /\ Admit(r, in, at) /\ UNCHANGED <<tables, lock>>
  /\ seen' \in [Requests -> [todo : SUBSET Entries, rows : [Entries -> Rows \cup {None}],
                             order : {ById, ByDate}]]
  /\ \A q \in Requests \ {r} : seen'[q] = seen[q]
  /\ at = "read" => in.op \in {"update", "void"} /\ seen'[r].rows[in.entry] \in Rows
  /\ at # "read" /\ at # "refused" =>
       /\ in.op \notin {"update", "void"}
       /\ \A e \in Entries : seen'[r].rows[e] = None
  /\ at \in {"group", "list"} => in.op # "create" /\ in.group \in groups
  /\ at = "list" => in.op = "ungroup"
  /\ at = "group" => in.op # "ungroup"
  /\ at = "direct" => /\ in.op \in {"create", "bulk"}
                      /\ in.op = "bulk" => in.group = None
                      /\ seen'[r].todo = in.ids
                      /\ in.op = "create" => Several(in.ids)

LEMMA AdmitOwn ==
  ASSUME GroupInv, NEW r \in Requests, NEW in \in Inputs,
         NEW at \in {"read", "refused", "group", "list", "direct"}, Admitted(r, in, at)
  PROVE  GroupInv'
<1>1. /\ pc[r] = "idle"
      /\ pc' = [pc EXCEPT ![r] = at]
      /\ input' = [input EXCEPT ![r] = in]
      /\ UNCHANGED <<tables, lock>>
      /\ seen' \in [Requests -> [todo : SUBSET Entries, rows : [Entries -> Rows \cup {None}],
                                 order : {ById, ByDate}]]
      /\ \A q \in Requests \ {r} : seen'[q] = seen[q]
  BY DEF Admit, Admitted
<1>2. TypeOK /\ Minted BY DEF GroupInv
<1>3. pc'[r] = at /\ input'[r] = in BY <1>1, <1>2 DEF TypeOK
<1>4. Asks(r)'
  <2>1. in.op # "create" /\ in.op # "update" /\ in.op # "void" /\ in.group \in Requests
        /\ at \in Working => in.group \in groups
    BY InputKinds, NamesAssumption DEF Working, GroupIds, Admitted
  <2>2. in.group \in groups /\ in.group \in Requests => pc'[in.group] = "done"
    BY <1>1, <1>2 DEF Minted, TypeOK, tables
  <2>3. groups \subseteq GroupIds BY <1>2 DEF TypeOK
  <2> QED BY <1>3, <2>1, <2>2, <2>3 DEF Asks, Working, Admitted
<1>5. at \in Working => Read(r)' = {} BY DEF Read, Working, Admitted
<1>6. Holds(r)' BY <1>3, <1>5 DEF Holds
<1>7. Covers(r)'
  <2>1. CASE at \in {"read", "refused"} BY <2>1, <1>3 DEF Covers, Working
  <2>2. CASE at \in {"group", "list"} BY <2>2, <1>3, <1>5 DEF Covers, Working, Admitted
  <2>3. CASE at = "direct"
    <3>1. MembersAsked(r)' = {} BY <1>3, <2>3 DEF MembersAsked, Admitted
    <3>2. IdsAsked(r)' = in.ids /\ seen'[r].todo = in.ids BY <1>3, <2>3 DEF IdsAsked, Admitted
    <3> QED BY <1>3, <1>5, <2>3, <3>1, <3>2 DEF Covers, Working
  <2> QED BY <2>1, <2>2, <2>3
<1>8. Own(r)
  BY <1>1, <1>2, <1>4, <1>6, <1>7 DEF Own, TypeOK
<1>9. Apart(r) BY <1>1, <1>2 DEF Apart, TypeOK, tables
<1> QED BY <1>1, <1>8, <1>9, QuietStep

LEMMA BeginStep ==
  ASSUME GroupInv, NEW r \in Requests, Begin(r) PROVE GroupInv'
<1>1. TypeOK /\ Holds(r) BY DEF GroupInv
<1>2. pc[r] = "idle" =>
        seen[r].rows \in [Entries -> Rows \cup {None}]
        /\ \A e \in Entries : seen[r].rows[e] = None
  BY <1>1 DEF Holds, Read, TypeOK
<1>3. \A e \in Entries : Only(e) \in [Entries -> Rows \cup {None}]
  BY <1>1, NothingSeenType DEF Only, TypeOK
<1>4. CASE UpdateBegin(r)
  <2>1. PICK e \in Entries, to \in UpdateStatuses, class \in Classes \cup {None} :
          /\ Admit(r, [op |-> "update", entry |-> e, to |-> to, class |-> class],
                   IF entry[e].group # None /\ (to # "keep" \/ class # None)
                     THEN "refused" ELSE "read")
          /\ seen' = [seen EXCEPT ![r].rows = Only(e)]
          /\ UNCHANGED <<tables, lock>>
    BY <1>4 DEF UpdateBegin
  <2> DEFINE in == [op |-> "update", entry |-> e, to |-> to, class |-> class]
             at == IF entry[e].group # None /\ (to # "keep" \/ class # None)
                     THEN "refused" ELSE "read"
  <2>2. in \in Inputs /\ in.op = "update" BY DEF Inputs
  <2>3. at \in {"refused", "read"} OBVIOUS
  <2>4. /\ seen' \in [Requests -> [todo : SUBSET Entries, rows : [Entries -> Rows \cup {None}],
                                   order : {ById, ByDate}]]
        /\ \A q \in Requests \ {r} : seen'[q] = seen[q]
        /\ in.entry = e /\ seen'[r].rows[e] \in Rows
    BY <1>1, <1>3, <2>1, NothingSeenType DEF TypeOK, Only
  <2>5. Admit(r, in, at) /\ UNCHANGED <<tables, lock>> BY <2>1
  <2> HIDE DEF in, at
  <2>6. Admitted(r, in, at)
    BY <2>2, <2>3, <2>4, <2>5 DEF Admitted
  <2> QED BY <2>2, <2>3, <2>6, AdmitOwn
<1>5. CASE VoidBegin(r)
  <2>1. PICK e \in Entries :
          /\ Admit(r, [op |-> "void", entry |-> e],
                   IF entry[e].group # None THEN "refused" ELSE "read")
          /\ seen' = [seen EXCEPT ![r].rows = Only(e)]
          /\ UNCHANGED <<tables, lock>>
    BY <1>5 DEF VoidBegin
  <2> DEFINE in == [op |-> "void", entry |-> e]
             at == IF entry[e].group # None THEN "refused" ELSE "read"
  <2>2. in \in Inputs /\ in.op = "void" BY DEF Inputs
  <2>3. at \in {"refused", "read"} OBVIOUS
  <2>4. /\ seen' \in [Requests -> [todo : SUBSET Entries, rows : [Entries -> Rows \cup {None}],
                                   order : {ById, ByDate}]]
        /\ \A q \in Requests \ {r} : seen'[q] = seen[q]
        /\ in.entry = e /\ seen'[r].rows[e] \in Rows
    BY <1>1, <1>3, <2>1, NothingSeenType DEF TypeOK, Only
  <2>5. Admit(r, in, at) /\ UNCHANGED <<tables, lock>> BY <2>1
  <2> HIDE DEF in, at
  <2>6. Admitted(r, in, at)
    BY <2>2, <2>3, <2>4, <2>5 DEF Admitted
  <2> QED BY <2>2, <2>3, <2>6, AdmitOwn
<1>6. CASE CreateBegin(r)
  <2>1. PICK ids \in Selections :
          /\ Several(ids)
          /\ Admit(r, [op |-> "create", ids |-> ids], "direct")
          /\ seen' = [seen EXCEPT ![r].todo = ids, ![r].order = ByDate]
          /\ UNCHANGED <<tables, lock>>
    BY <1>6 DEF CreateBegin
  <2> DEFINE in == [op |-> "create", ids |-> ids]
  <2>2. in \in Inputs /\ in.op = "create" /\ in.ids = ids BY DEF Inputs
  <2>3. /\ seen' \in [Requests -> [todo : SUBSET Entries, rows : [Entries -> Rows \cup {None}],
                                   order : {ById, ByDate}]]
        /\ seen'[r].todo = ids /\ seen'[r].rows = seen[r].rows
        /\ \A q \in Requests \ {r} : seen'[q] = seen[q]
    <3>1. PICK m : m = [seen[r] EXCEPT !.todo = ids] OBVIOUS
    <3>2. m \in Memories /\ m.todo = ids /\ m.rows = seen[r].rows
      BY <1>1, <3>1, Remembered, WithTodo, SelectionsAssumption
    <3>3. PICK n : n = [m EXCEPT !.order = ByDate] OBVIOUS
    <3>4. n \in Memories /\ n.todo = ids /\ n.rows = seen[r].rows BY <3>2, <3>3, WithOrder
    <3>5. seen' = [seen EXCEPT ![r] = n] BY <1>1, <2>1, <3>1, <3>3, Remembered
    <3> QED BY <1>1, <3>4, <3>5, Remembers
  <2>4. pc[r] = "idle" BY <2>1 DEF Admit
  <2>5. Admit(r, in, "direct") BY <2>1
  <2> HIDE DEF in
  <2>6. Admitted(r, in, "direct")
    BY <1>2, <2>1, <2>2, <2>3, <2>4, <2>5 DEF Admitted
  <2> QED BY <2>2, <2>6, AdmitOwn
<1>7. CASE UngroupBegin(r)
  <2>1. PICK g \in groups, order \in {ById, ByDate} :
          /\ Admit(r, [op |-> "ungroup", group |-> g], "list")
          /\ seen' = [seen EXCEPT ![r].order = order]
          /\ UNCHANGED <<tables, lock>>
    BY <1>7 DEF UngroupBegin
  <2> DEFINE in == [op |-> "ungroup", group |-> g]
  <2>2. in \in Inputs /\ in.op = "ungroup" /\ in.group = g BY <1>1 DEF Inputs, TypeOK
  <2>3. /\ seen' \in [Requests -> [todo : SUBSET Entries, rows : [Entries -> Rows \cup {None}],
                                   order : {ById, ByDate}]]
        /\ seen'[r].rows = seen[r].rows
        /\ \A q \in Requests \ {r} : seen'[q] = seen[q]
    <3>1. PICK m : m = [seen[r] EXCEPT !.order = order] OBVIOUS
    <3>2. m \in Memories /\ m.rows = seen[r].rows BY <1>1, <3>1, Remembered, WithOrder
    <3>3. seen' = [seen EXCEPT ![r] = m] BY <2>1, <3>1
    <3> QED BY <1>1, <3>2, <3>3, Remembers
  <2>4. pc[r] = "idle" BY <2>1 DEF Admit
  <2>5. Admit(r, in, "list") BY <2>1
  <2> HIDE DEF in
  <2>6. Admitted(r, in, "list")
    BY <1>2, <2>1, <2>2, <2>3, <2>4, <2>5 DEF Admitted
  <2> QED BY <2>2, <2>6, AdmitOwn
<1>8. CASE GroupBegin(r)
  <2>1. PICK in \in GroupInputs : Admit(r, in, "group") BY <1>8 DEF GroupBegin
  <2>2. /\ in \in Inputs /\ in.group \in groups
        /\ in.op \in {"void_group", "status", "void_member"}
    BY <1>1 DEF GroupInputs, Inputs, TypeOK
  <2>3. /\ seen' \in [Requests -> [todo : SUBSET Entries, rows : [Entries -> Rows \cup {None}],
                                   order : {ById, ByDate}]]
        /\ seen'[r].rows = seen[r].rows
        /\ \A q \in Requests \ {r} : seen'[q] = seen[q]
        /\ UNCHANGED <<tables, lock>>
    <3>1. PICK m : m = [seen[r] EXCEPT !.order = ByDate] OBVIOUS
    <3>2. m \in Memories /\ m.rows = seen[r].rows BY <1>1, <3>1, Remembered, WithOrder
    <3>3. seen' = [seen EXCEPT ![r] = m] /\ UNCHANGED <<tables, lock>>
      BY <1>8, <3>1 DEF GroupBegin
    <3> QED BY <1>1, <3>2, <3>3, Remembers
  <2>4. pc[r] = "idle" BY <2>1 DEF Admit
  <2>5. Admitted(r, in, "group")
    BY <1>2, <2>1, <2>2, <2>3, <2>4 DEF Admitted
  <2> QED BY <2>2, <2>5, AdmitOwn
<1>9. CASE BulkBegin(r)
  <2>1. PICK g \in groups \cup {None}, ids \in Selections,
             to \in {"posted", "reconciled", "voided"} :
          /\ Admit(r, [op |-> "bulk", group |-> g, ids |-> ids, to |-> to],
                   IF g = None THEN "direct" ELSE "group")
          /\ seen' = [seen EXCEPT ![r].todo = IF g = None THEN ids ELSE {},
                                  ![r].order = ById]
          /\ UNCHANGED <<tables, lock>>
    BY <1>9 DEF BulkBegin
  <2> DEFINE in == [op |-> "bulk", group |-> g, ids |-> ids, to |-> to]
             at == IF g = None THEN "direct" ELSE "group"
  <2>2. in \in Inputs /\ in.op = "bulk" /\ in.ids = ids /\ in.group = g
    BY <1>1 DEF Inputs, TypeOK
  <2>3. at \in {"direct", "group"} /\ (at = "direct" <=> g = None) OBVIOUS
  <2>4. /\ seen' \in [Requests -> [todo : SUBSET Entries, rows : [Entries -> Rows \cup {None}],
                                   order : {ById, ByDate}]]
        /\ g = None => seen'[r].todo = ids
        /\ seen'[r].rows = seen[r].rows
        /\ \A q \in Requests \ {r} : seen'[q] = seen[q]
    <3>1. PICK todo : todo = IF g = None THEN ids ELSE {} OBVIOUS
    <3>2. todo \in SUBSET Entries BY <3>1, SelectionsAssumption
    <3>3. PICK m : m = [seen[r] EXCEPT !.todo = todo] OBVIOUS
    <3>4. m \in Memories /\ m.todo = todo /\ m.rows = seen[r].rows
      BY <1>1, <3>2, <3>3, Remembered, WithTodo
    <3>5. PICK n : n = [m EXCEPT !.order = ById] OBVIOUS
    <3>6. n \in Memories /\ n.todo = todo /\ n.rows = seen[r].rows BY <3>4, <3>5, WithOrder
    <3>7. seen' = [seen EXCEPT ![r] = n] BY <1>1, <2>1, <3>1, <3>3, <3>5, Remembered
    <3> QED BY <1>1, <3>1, <3>6, <3>7, Remembers
  <2>5. pc[r] = "idle" BY <2>1 DEF Admit
  <2>6. Admit(r, in, at) /\ UNCHANGED <<tables, lock>> BY <2>1
  <2> HIDE DEF in, at
  <2>7. Admitted(r, in, at)
    BY <1>2, <2>2, <2>3, <2>4, <2>5, <2>6 DEF Admitted
  <2> QED BY <2>2, <2>3, <2>7, AdmitOwn
<1> QED BY <1>4, <1>5, <1>6, <1>7, <1>8, <1>9 DEF Begin

\* Locks.
LEMMA LockGroupStep ==
  ASSUME GroupInv, NEW r \in Requests, LockGroup(r) PROVE GroupInv'
<1> DEFINE g == input[r].group
<1>1. TypeOK /\ Asks(r) /\ Holds(r) /\ Covers(r) /\ pc[r] = "group" /\ g \in GroupIds
      /\ input[r].op # "create" /\ lock[g] = None
  BY DEF GroupInv, LockGroup, Asks
<1>2. /\ UNCHANGED <<tables, input>>
      /\ \E to \in {"ready", "list", "refused"} :
           /\ pc' = [pc EXCEPT ![r] = to]
           /\ to = "ready" => input[r].op = "ungroup"
           /\ to = "list" => input[r].op # "ungroup"
      /\ (seen' = [seen EXCEPT ![r] = NothingSeen] /\ pc'[r] = "refused") \/ UNCHANGED seen
      /\ lock' = [lock EXCEPT ![g] = r] \/ UNCHANGED lock
  BY <1>1 DEF LockGroup, Goto, TypeOK
<1>3. PICK to \in {"ready", "list", "refused"} :
           /\ pc' = [pc EXCEPT ![r] = to]
           /\ to = "ready" => input[r].op = "ungroup"
           /\ to = "list" => input[r].op # "ungroup"
  BY <1>2
<1>4. pc'[r] = to BY <1>1, <1>3 DEF TypeOK
<1>5. Asks(r)'
  BY <1>1, <1>2, <1>3, <1>4 DEF Asks, Working, TypeOK
<1>6. to # "refused" => /\ Read(r)' = Read(r) /\ seen'[r] = seen[r]
                        /\ MembersAsked(r)' = MembersAsked(r)
                        /\ IdsAsked(r)' = IdsAsked(r)
  BY <1>1, <1>2, <1>3, <1>4 DEF Read, MembersAsked, IdsAsked, tables
<1>7. \A e \in Entries : lock'[e] = lock[e]
  BY <1>1, <1>2, NamesAssumption DEF TypeOK
<1>8. Holds(r)'
  <2>1. to # "refused" => \A e \in Read(r) : e \in Entries /\ lock[e] = r /\ seen[r].rows[e] = entry[e]
    BY <1>1 DEF Holds, Working, Read
  <2> QED BY <1>2, <1>4, <1>6, <1>7, <2>1 DEF Holds, Working, tables
<1>9. Covers(r)'
  <2>1. input[r].op = "ungroup" => IdsAsked(r) = {} BY DEF IdsAsked
  <2> QED BY <1>1, <1>2, <1>3, <1>4, <1>6, <2>1 DEF Covers, Working
<1>10. Own(r)
  <2>1. seen' \in [Requests -> [todo : SUBSET Entries, rows : [Entries -> Rows \cup {None}],
                                order : {ById, ByDate}]]
    BY <1>1, <1>2, NothingSeenType DEF TypeOK
  <2>2. lock' \in [Entries \cup GroupIds -> Requests \cup {None}]
    BY <1>1, <1>2 DEF TypeOK
  <2>3. input' \in [Requests -> Inputs \cup {None}] BY <1>1, <1>2 DEF TypeOK
  <2> QED BY <1>1, <1>3, <1>5, <1>8, <1>9, <2>1, <2>2, <2>3 DEF Own, TypeOK
<1>11. Apart(r)
  BY <1>1, <1>2, <1>3 DEF Apart, TypeOK, tables
<1> QED BY <1>1, <1>2, <1>10, <1>11, QuietStep

LEMMA ListMembersStep ==
  ASSUME GroupInv, NEW r \in Requests, ListMembers(r) PROVE GroupInv'
<1> DEFINE g == input[r].group
<1>1. TypeOK /\ Asks(r) /\ Holds(r) /\ Covers(r) /\ pc[r] = "list" /\ g \in GroupIds
      /\ input[r].op # "create"
  BY DEF GroupInv, ListMembers, Asks
<1>2. /\ UNCHANGED <<tables, lock, input>>
      /\ pc' = [pc EXCEPT ![r] = "members"]
      /\ seen' = [seen EXCEPT ![r].todo = MembersOf(g)]
  BY DEF ListMembers, Goto
<1>3. pc'[r] = "members" /\ seen'[r].todo = MembersOf(g) /\ seen'[r].rows = seen[r].rows
      /\ MembersOf(g) \subseteq Entries
  BY <1>1, <1>2 DEF TypeOK, MembersOf
<1>4. Asks(r)' BY <1>1, <1>2, <1>3 DEF Asks, Working, TypeOK
<1>5. Read(r) = {} /\ Read(r)' = {}
  BY <1>1, <1>3 DEF Covers, Working, Read
<1>6. Holds(r)' BY <1>3, <1>5 DEF Holds
<1>7. MembersAsked(r)' \subseteq MembersOf(g)
  BY <1>2 DEF MembersAsked, MembersOf, tables
<1>8. Covers(r)' BY <1>3, <1>5, <1>7 DEF Covers
<1>9. Own(r) BY <1>1, <1>2, <1>3, <1>4, <1>6, <1>8 DEF Own, TypeOK
<1>10. Apart(r) BY <1>1, <1>2 DEF Apart, TypeOK, tables
<1> QED BY <1>1, <1>2, <1>9, <1>10, QuietStep

LEMMA LockRowStep ==
  ASSUME GroupInv, NEW r \in Requests, LockRow(r) PROVE GroupInv'
<1> DEFINE e == NextRow(r)
<1>1. TypeOK /\ Asks(r) /\ Holds(r) /\ Covers(r) /\ pc[r] \in {"members", "direct"}
  BY DEF GroupInv, LockRow
<1>2. e \in seen[r].todo /\ e \in Entries /\ entry[e] \in Rows
  BY <1>1, NextRowType DEF LockRow, TypeOK
<1>3. /\ lock[e] \in {r, None}
      /\ UNCHANGED <<tables, pc, input>>
      /\ lock' = IF Matches(r, e) THEN [lock EXCEPT ![e] = r] ELSE lock
      /\ seen' = [seen EXCEPT
              ![r].todo = @ \ {e},
              ![r].rows[e] = IF Matches(r, e) THEN entry[e] ELSE @]
  BY DEF LockRow, Taken
<1>4. /\ seen'[r].todo = seen[r].todo \ {e}
      /\ seen'[r].rows = [seen[r].rows EXCEPT ![e] = IF Matches(r, e) THEN entry[e] ELSE @]
  BY <1>1, <1>3 DEF TypeOK
<1>5. seen[r].rows \in [Entries -> Rows \cup {None}] BY <1>1 DEF TypeOK
<1> HIDE DEF e
<1>6. Read(r)' = IF Matches(r, e) THEN Read(r) \cup {e} ELSE Read(r)
  BY <1>2, <1>4, <1>5, NoRowAssumption DEF Read
<1>7. Asks(r)' BY <1>1, <1>3 DEF Asks, Working
<1>8. Holds(r)'
  BY <1>1, <1>2, <1>3, <1>4, <1>5, <1>6 DEF Holds, Working, Read, TypeOK, tables
<1>9. MembersAsked(r)' = MembersAsked(r) /\ IdsAsked(r)' = IdsAsked(r)
  BY <1>3 DEF MembersAsked, IdsAsked, tables
<1>10. pc[r] = "members" => (Matches(r, e) <=> e \in MembersAsked(r))
  BY <1>1, <1>2, NamesAssumption DEF Matches, MembersAsked, Asks
<1>11. pc[r] = "direct" => Matches(r, e) /\ e \in IdsAsked(r)
  BY <1>1, <1>2 DEF Matches, Covers, Working
<1>12. Covers(r)'
  <2>1. CASE pc[r] = "members"
    <3>1. /\ Read(r) \subseteq MembersAsked(r)
          /\ MembersAsked(r) \subseteq seen[r].todo \cup Read(r)
      BY <1>1, <2>1 DEF Covers, Working
    <3>2. /\ Read(r)' \subseteq MembersAsked(r)
          /\ MembersAsked(r) \subseteq seen'[r].todo \cup Read(r)'
      BY <1>4, <1>6, <1>10, <2>1, <3>1
    <3>3. pc'[r] = "members" BY <1>3, <2>1
    <3> QED BY <1>9, <3>2, <3>3 DEF Covers
  <2>2. CASE pc[r] = "direct"
    <3>1. /\ Read(r) \subseteq MembersAsked(r) \cup IdsAsked(r)
          /\ MembersAsked(r) \subseteq Read(r)
          /\ seen[r].todo \subseteq IdsAsked(r)
          /\ IdsAsked(r) \subseteq seen[r].todo \cup Read(r)
      BY <1>1, <2>2 DEF Covers, Working
    <3>2. Read(r)' = Read(r) \cup {e} /\ e \in IdsAsked(r) BY <1>6, <1>11, <2>2
    <3>3. /\ Read(r)' \subseteq MembersAsked(r) \cup IdsAsked(r)
          /\ MembersAsked(r) \subseteq Read(r)'
          /\ seen'[r].todo \subseteq IdsAsked(r)
          /\ IdsAsked(r) \subseteq seen'[r].todo \cup Read(r)'
      BY <1>4, <3>1, <3>2
    <3>4. pc'[r] = "direct" BY <1>3, <2>2
    <3> QED BY <1>9, <3>3, <3>4 DEF Covers
  <2> QED BY <1>1, <2>1, <2>2
<1>13. Own(r)
  <2>1. seen' \in [Requests -> [todo : SUBSET Entries, rows : [Entries -> Rows \cup {None}],
                                order : {ById, ByDate}]]
    <3>1. PICK row : row = IF Matches(r, e) THEN entry[e] ELSE seen[r].rows[e] OBVIOUS
    <3>2. row \in Rows \cup {None} BY <1>2, <1>5, <3>1
    <3>3. PICK m : m = [seen[r] EXCEPT !.todo = seen[r].todo \ {e}] OBVIOUS
    <3>4. m \in Memories /\ m.rows = seen[r].rows
      <4>1. seen[r].todo \ {e} \in SUBSET Entries BY <1>1 DEF TypeOK
      <4> QED BY <1>1, <3>3, <4>1, Remembered, WithTodo
    <3>5. PICK n : n = [m EXCEPT !.rows[e] = row] OBVIOUS
    <3>6. n \in Memories BY <1>2, <3>2, <3>4, <3>5, WithRow
    <3>7. seen' = [seen EXCEPT ![r] = n] BY <1>1, <1>3, <3>1, <3>3, <3>4, <3>5, Remembered
    <3> QED BY <1>1, <3>6, <3>7, Remembers
  <2>2. lock' \in [Entries \cup GroupIds -> Requests \cup {None}]
    BY <1>1, <1>2, <1>3 DEF TypeOK
  <2>3. UNCHANGED <<pc, input>> BY <1>3
  <2>4. pc' \in [Requests -> {"idle", "read", "group", "list", "members", "direct",
                              "ready", "done", "refused"}]
        /\ input' \in [Requests -> Inputs \cup {None}]
    BY <1>1, <2>3 DEF TypeOK
  <2> QED BY <1>7, <1>8, <1>12, <2>1, <2>2, <2>4 DEF Own
<1>14. Apart(r) BY <1>1, <1>2, <1>3 DEF Apart, TypeOK, tables
<1> QED BY <1>1, <1>3, <1>13, <1>14, QuietStep

LEMMA NextStageStep ==
  ASSUME GroupInv, NEW r \in Requests, NextStage(r) PROVE GroupInv'
<1>1. TypeOK /\ Asks(r) /\ Holds(r) /\ Covers(r) /\ pc[r] \in {"members", "direct"}
      /\ seen[r].todo = {} /\ UNCHANGED <<tables, lock>>
  BY DEF GroupInv, NextStage
<1>2. CASE pc[r] = "members" /\ input[r].op = "bulk"
  <2>1. pc' = [pc EXCEPT ![r] = "direct"] /\ UNCHANGED input
        /\ seen' = [seen EXCEPT ![r].todo = input[r].ids]
    BY <1>2 DEF NextStage, Goto
  <2>2. input[r].ids \subseteq Entries /\ IdsAsked(r) = input[r].ids
    BY <1>1, <1>2, InputKinds, SelectionsAssumption DEF Asks, IdsAsked
  <2>3. pc'[r] = "direct" /\ seen'[r].rows = seen[r].rows /\ seen'[r].todo = input[r].ids
    BY <1>1, <2>1 DEF TypeOK
  <2>4. Asks(r)' BY <1>1, <1>2, <2>1, <2>3 DEF Asks, Working, TypeOK
  <2>5. /\ Read(r)' = Read(r) /\ MembersAsked(r)' = MembersAsked(r)
        /\ IdsAsked(r)' = IdsAsked(r)
    BY <1>1, <2>1, <2>3 DEF Read, MembersAsked, IdsAsked, tables
  <2>6. Holds(r)' BY <1>1, <2>3, <2>5 DEF Holds, Working, tables
  <2>7. Covers(r)' BY <1>1, <1>2, <2>2, <2>3, <2>5 DEF Covers, Working
  <2>8. Own(r)
    <3>1. seen' \in [Requests -> [todo : SUBSET Entries,
                                  rows : [Entries -> Rows \cup {None}], order : {ById, ByDate}]]
      <4>1. PICK m : m = [seen[r] EXCEPT !.todo = input[r].ids] OBVIOUS
      <4>2. m \in Memories BY <1>1, <2>2, <4>1, Remembered, WithTodo
      <4>3. seen' = [seen EXCEPT ![r] = m] BY <2>1, <4>1
      <4> QED BY <1>1, <4>2, <4>3, Remembers
    <3> QED BY <1>1, <2>1, <2>4, <2>6, <2>7, <3>1 DEF Own, TypeOK
  <2>9. Apart(r) BY <1>1, <2>1 DEF Apart, TypeOK, tables
  <2> QED BY <1>1, <2>8, <2>9, QuietStep
<1>3. CASE ~(pc[r] = "members" /\ input[r].op = "bulk")
  <2> DEFINE to == IF input[r].op = "ungroup" THEN "group" ELSE "ready"
  <2>1. pc' = [pc EXCEPT ![r] = to] /\ UNCHANGED <<input, seen>>
    BY <1>3 DEF NextStage, Goto
  <2>2. pc'[r] = to /\ to \in {"group", "ready"} BY <1>1, <2>1 DEF TypeOK
  <2>3. Asks(r)' BY <1>1, <2>1, <2>2 DEF Asks, Working, TypeOK
  <2>4. /\ Read(r)' = Read(r) /\ MembersAsked(r)' = MembersAsked(r)
        /\ IdsAsked(r)' = IdsAsked(r)
    BY <1>1, <2>1 DEF Read, MembersAsked, IdsAsked, tables
  <2>5. Holds(r)' BY <1>1, <2>1, <2>2, <2>4 DEF Holds, Working, tables
  <2>6. pc[r] = "members" => IdsAsked(r) = {} BY <1>1, <1>3 DEF IdsAsked, Asks
  <2>7. Covers(r)'
    BY <1>1, <2>1, <2>2, <2>4, <2>6 DEF Covers, Working, Asks
  <2>8. Own(r) BY <1>1, <2>1, <2>3, <2>5, <2>7 DEF Own, TypeOK
  <2>9. Apart(r) BY <1>1, <2>1 DEF Apart, TypeOK, tables
  <2> QED BY <1>1, <2>8, <2>9, QuietStep
<1> QED BY <1>2, <1>3

-----------------------------------------------------------------------------
(* Steps that write.                                                       *)

\* What a writing step must establish of the tables.
LEMMA WritingStep ==
  ASSUME GroupInv, NEW r \in Requests, pc[r] \notin {"idle", "done"}, Finish(r, "done"),
         entry' \in [Entries -> Rows], groups' \subseteq groups \cup {r},
         \A e \in Entries : lock[e] \notin {r, None} => entry'[e] = entry[e],
         \A e \in Entries : entry'[e].group \in {entry[e].group, None, r},
         GroupIsUniform'
  PROVE  GroupInv'
<1>1. Own(r) /\ Apart(r) /\ pc'[r] = "done" BY FinishOwn DEF Apart
<1>2. TypeOK' BY <1>1 DEF Own, TypeOK, GroupInv, GroupIds
<1>3. Minted' BY <1>1 DEF GroupInv, Minted, Apart
<1> QED BY <1>1, <1>2, <1>3, OthersKeep DEF Own, GroupInv

LEMMA WrittenType ==
  ASSUME NEW in \in Inputs, in.op \in {"update", "void"}, NEW row \in Rows
  PROVE  Written(in, row) \in Rows
<1>1. CASE in.op = "void" BY <1>1 DEF Written, Rows, Statuses
<1>2. CASE in.op = "update"
  BY <1>2, InputKinds, UpdateStatusesAssumption DEF Written, Rows, Statuses
<1> QED BY <1>1, <1>2

LEMMA EntryCommitStep ==
  ASSUME GroupInv, NEW r \in Requests, EntryCommit(r) PROVE GroupInv'
<1> DEFINE e   == input[r].entry
           new == Written(input[r], seen[r].rows[e])
<1>1. TypeOK /\ Asks(r) /\ GroupIsUniform /\ pc[r] = "read" /\ lock[e] = None
  BY DEF GroupInv, EntryCommit
<1>2. e \in Entries /\ new \in Rows BY <1>1, InputKinds, WrittenType DEF Asks
<1>3. CASE Guarded(entry[e], new) BY <1>1, <1>3, RefuseStep DEF EntryCommit
<1>4. CASE ~Guarded(entry[e], new)
  <2> DEFINE row == [new EXCEPT !.group = entry[e].group]
  <2>1. entry' = [entry EXCEPT ![e] = row] /\ groups' = groups /\ Finish(r, "done")
    BY <1>4 DEF EntryCommit, Answer
  <2>2. row \in Rows /\ row.group = entry[e].group
        /\ (entry[e].group # None => row.class = entry[e].class /\ row.status = entry[e].status)
    BY <1>1, <1>2, <1>4 DEF Rows, TypeOK, Guarded, Alike
  <2> HIDE DEF row, e
  <2>3. entry' \in [Entries -> Rows] BY <1>1, <1>2, <2>1, <2>2 DEF TypeOK
  <2>4. \A x \in Entries : /\ entry'[x].group = entry[x].group
                           /\ entry[x].group # None => entry'[x].class = entry[x].class
                                                       /\ entry'[x].status = entry[x].status
    BY <1>1, <1>2, <2>1, <2>2 DEF TypeOK
  <2>5. GroupIsUniform'
    <3> SUFFICES ASSUME NEW x \in Entries, entry[x].group # None
                 PROVE  entry[x].group \in groups /\ Uniform(MembersOf(entry[x].group))'
      BY <2>1, <2>4 DEF GroupIsUniform, MembersOf
    <3>1. Uniform(MembersOf(entry[x].group)) /\ entry[x].group \in groups
      BY <1>1 DEF GroupIsUniform
    <3>2. {y \in Entries : entry'[y].group = entry[x].group} = MembersOf(entry[x].group)
      BY <2>4 DEF MembersOf
    <3> QED BY <2>4, <3>1, <3>2 DEF Uniform, MembersOf, Several, Alike
  <2>6. \A x \in Entries : lock[x] \notin {r, None} => entry'[x] = entry[x]
    BY <1>1, <1>2, <2>1 DEF TypeOK, e
  <2> QED BY <1>1, <2>1, <2>3, <2>4, <2>5, <2>6, WritingStep
<1> QED BY <1>3, <1>4

\* A step that is about one group g, or about entries without one, leaves every
\* other group as it was.
LEMMA OneGroupChanges ==
  ASSUME GroupIsUniform, NEW g,
         \A x \in Entries : entry[x].group \notin {None, g} => entry'[x] = entry[x],
         \A x \in Entries : entry'[x].group \in {entry[x].group, None, g},
         groups \ {g} \subseteq groups',
         \/ g = None
         \/ \A x \in Entries : entry'[x].group # g
         \/ g \in groups' /\ Uniform(MembersOf(g))'
  PROVE  GroupIsUniform'
<1> SUFFICES ASSUME NEW x \in Entries, entry'[x].group # None
             PROVE  (entry[x].group \in groups /\ Uniform(MembersOf(entry[x].group)))'
  BY DEF GroupIsUniform
<1>1. CASE entry'[x].group = g
  <2>1. g \in groups' /\ Uniform(MembersOf(g))' BY <1>1
  <2> QED BY <1>1, <2>1 DEF Uniform, MembersOf, Several
<1>2. CASE entry'[x].group # g
  <2>1. PICK h : h = entry'[x].group OBVIOUS
  <2>2. h \notin {None, g} /\ entry[x].group = h BY <1>2, <2>1
  <2>3. h \in groups' /\ Uniform(MembersOf(h)) BY <2>2 DEF GroupIsUniform
  <2>4. {y \in Entries : entry'[y].group = h} = MembersOf(h)
    BY <2>2 DEF MembersOf
  <2>5. \A y \in MembersOf(h) : entry'[y] = entry[y] BY <2>2 DEF MembersOf
  <2> QED BY <2>1, <2>3, <2>4, <2>5 DEF Uniform, MembersOf, Several
<1> QED BY <1>1, <1>2

\* What a transaction knows when it has all its locks.
LEMMA AtReady ==
  ASSUME GroupInv, NEW r \in Requests, pc[r] = "ready"
  PROVE  /\ input[r] \in Inputs /\ input[r].op \notin {"update", "void"}
         /\ Read(r) \subseteq Entries
         /\ \A e \in Read(r) : lock[e] = r /\ seen[r].rows[e] = entry[e] /\ entry[e] \in Rows
         /\ MembersAsked(r) \subseteq Read(r)
         /\ Read(r) \subseteq MembersAsked(r) \cup IdsAsked(r)
         /\ IdsAsked(r) \subseteq Read(r)
         /\ input[r].op = "create" => Several(input[r].ids)
BY DEF GroupInv, Asks, Holds, Covers, Working, Read, TypeOK

LEMMA StatusType ==
  ASSUME NEW rows \in [Entries -> Rows], NEW S, NEW status \in Statuses
  PROVE  /\ WithStatus(rows, S, status) \in [Entries -> Rows]
         /\ \A x \in Entries : WithStatus(rows, S, status)[x].group = rows[x].group
                               /\ WithStatus(rows, S, status)[x].class = rows[x].class
         /\ \A x \in Entries \cap S : WithStatus(rows, S, status)[x].status = status
         /\ \A x \in Entries \ S : WithStatus(rows, S, status)[x] = rows[x]
BY DEF WithStatus, Rows

LEMMA GroupType ==
  ASSUME NEW rows \in [Entries -> Rows], NEW S, NEW g \in GroupIds \cup {None}
  PROVE  /\ WithGroup(rows, S, g) \in [Entries -> Rows]
         /\ \A x \in Entries : WithGroup(rows, S, g)[x].status = rows[x].status
                               /\ WithGroup(rows, S, g)[x].class = rows[x].class
         /\ \A x \in Entries \cap S : WithGroup(rows, S, g)[x].group = g
         /\ \A x \in Entries \ S : WithGroup(rows, S, g)[x] = rows[x]
BY DEF WithGroup, Rows

LEMMA CreateCommitStep ==
  ASSUME GroupInv, NEW r \in Requests, CreateCommit(r) PROVE GroupInv'
<1> DEFINE ids == input[r].ids
<1>1. TypeOK /\ GroupIsUniform /\ Minted /\ pc[r] = "ready" /\ input[r].op = "create"
  BY DEF GroupInv, CreateCommit, CanCommit
<1>2. CASE Refuse(r) BY <1>1, <1>2, RefuseStep
<1>3. CASE ~Refuse(r)
  <2>1. /\ Groupable(r) /\ \A e \in ids : entry[e].group = None
        /\ entry' = WithGroup(entry, ids, r) /\ groups' = groups \cup {r}
        /\ Finish(r, "done")
    BY <1>3 DEF CreateCommit, Answer
  <2>2. ids = IdsAsked(r) /\ MembersAsked(r) = {} BY <1>1 DEF IdsAsked, MembersAsked
  <2>3. Read(r) = ids /\ Several(ids) /\ ids \subseteq Entries
        /\ \A e \in ids : lock[e] = r /\ seen[r].rows[e] = entry[e]
    BY <1>1, <2>2, AtReady
  <2>4. \A e, f \in ids : Alike(entry[e], entry[f]) /\ entry[e].status # "voided"
    BY <2>1, <2>3 DEF Groupable
  <2> HIDE DEF ids
  <2>5. /\ entry' \in [Entries -> Rows]
        /\ \A x \in Entries : entry'[x].status = entry[x].status
                              /\ entry'[x].class = entry[x].class
        /\ \A x \in ids : entry'[x].group = r
        /\ \A x \in Entries \ ids : entry'[x] = entry[x]
    BY <1>1, <2>1, <2>3, GroupType DEF TypeOK, GroupIds
  <2>6. r \notin groups /\ r # None BY <1>1, NamesAssumption DEF Minted, GroupIds
  <2>7. \A x \in Entries : entry[x].group # r BY <1>1, <2>6 DEF GroupIsUniform
  <2>8. {x \in Entries : entry'[x].group = r} = ids BY <2>3, <2>5, <2>7
  <2>9. Uniform(MembersOf(r))'
    BY <2>3, <2>4, <2>5, <2>8 DEF Uniform, MembersOf, Several, Alike
  <2>10. GroupIsUniform'
    BY <1>1, <2>1, <2>3, <2>5, <2>9, OneGroupChanges
  <2> QED BY <1>1, <2>1, <2>3, <2>5, <2>10, WritingStep
<1> QED BY <1>2, <1>3

\* An action on one group has read its members and nothing else.
LEMMA WholeGroup ==
  ASSUME GroupInv, NEW r \in Requests, pc[r] = "ready",
         input[r].op \in {"ungroup", "status", "void_group", "void_member"}
  PROVE  /\ input[r].group \in GroupIds /\ input[r].group # None
         /\ Read(r) = MembersOf(input[r].group)
         /\ Read(r) \subseteq Entries
         /\ \A e \in Read(r) : lock[e] = r /\ seen[r].rows[e] = entry[e]
<1>1. input[r].group \in GroupIds /\ input[r].group # None
  BY AtReady, InputKinds, NamesAssumption
<1>2. IdsAsked(r) = {} BY DEF IdsAsked
<1>3. MembersAsked(r) = MembersOf(input[r].group) BY <1>1 DEF MembersAsked, MembersOf
<1>4. /\ MembersAsked(r) \subseteq Read(r) /\ Read(r) \subseteq MembersAsked(r) \cup IdsAsked(r)
      /\ Read(r) \subseteq Entries
      /\ \A e \in Read(r) : lock[e] = r /\ seen[r].rows[e] = entry[e]
  BY AtReady
<1>5. Read(r) = MembersAsked(r) BY <1>2, <1>4
<1> QED BY <1>1, <1>3, <1>4, <1>5

\* Detaching all members of a group and deleting it.
LEMMA GroupGone ==
  ASSUME GroupInv, NEW g, g # None,
         \A x \in Entries \ MembersOf(g) : entry'[x] = entry[x],
         \A x \in MembersOf(g) : entry'[x].group = None,
         groups' = groups \ {g}
  PROVE  /\ GroupIsUniform'
         /\ \A x \in Entries : entry'[x].group \in {entry[x].group, None}
<1>1. \A x \in Entries : entry'[x].group # g BY DEF MembersOf
<1>2. \A x \in Entries : entry[x].group \notin {None, g} => entry'[x] = entry[x]
  BY DEF MembersOf
<1>3. \A x \in Entries : entry'[x].group \in {entry[x].group, None}
  BY DEF MembersOf
<1> QED BY <1>1, <1>2, <1>3, OneGroupChanges DEF GroupInv

LEMMA UngroupCommitStep ==
  ASSUME GroupInv, NEW r \in Requests, UngroupCommit(r) PROVE GroupInv'
<1>1. TypeOK /\ pc[r] = "ready" /\ input[r].op = "ungroup"
  BY DEF GroupInv, UngroupCommit, CanCommit
<1>2. PICK g : g = input[r].group OBVIOUS
<1>3. g # None /\ Read(r) = MembersOf(g) /\ \A e \in Read(r) : lock[e] = r
  BY <1>1, <1>2, WholeGroup
<1>4. /\ entry' = WithGroup(entry, Read(r), None) /\ groups' = groups \ {g}
      /\ Finish(r, "done")
  BY <1>2 DEF UngroupCommit, Answer
<1>5. /\ entry' \in [Entries -> Rows]
      /\ \A x \in MembersOf(g) : entry'[x].group = None
      /\ \A x \in Entries \ MembersOf(g) : entry'[x] = entry[x]
  BY <1>1, <1>3, <1>4, GroupType DEF TypeOK, MembersOf
<1>6. GroupIsUniform' /\ \A x \in Entries : entry'[x].group \in {entry[x].group, None}
  BY <1>3, <1>4, <1>5, GroupGone
<1>7. \A x \in Entries : lock[x] \notin {r, None} => entry'[x] = entry[x]
  BY <1>3, <1>5
<1> QED BY <1>1, <1>4, <1>5, <1>6, <1>7, WritingStep

LEMMA StatusCommitStep ==
  ASSUME GroupInv, NEW r \in Requests, StatusCommit(r) PROVE GroupInv'
<1>1. TypeOK /\ GroupIsUniform /\ pc[r] = "ready" /\ input[r].op = "status"
  BY DEF GroupInv, StatusCommit, CanCommit
<1>2. PICK g, to : g = input[r].group /\ to = input[r].to OBVIOUS
<1>3. /\ g # None /\ Read(r) = MembersOf(g) /\ Read(r) \subseteq Entries
      /\ \A e \in Read(r) : lock[e] = r
  BY <1>1, <1>2, WholeGroup
<1>4. to \in {"posted", "reconciled"} BY <1>1, <1>2, AtReady, InputKinds
<1>5. CASE Refuse(r) BY <1>1, <1>5, RefuseStep
<1>6. CASE Answer(r, entry, groups)
  <2>1. entry' = entry /\ groups' = groups /\ Finish(r, "done") BY <1>6 DEF Answer
  <2>2. GroupIsUniform'
    BY <1>1, <2>1 DEF GroupIsUniform, Uniform, MembersOf, Several
  <2> QED BY <1>1, <2>1, <2>2, WritingStep DEF TypeOK
<1>7. CASE Several(Read(r)) /\ Answer(r, WithStatus(entry, Read(r), to), groups)
  <2>1. entry' = WithStatus(entry, Read(r), to) /\ groups' = groups /\ Finish(r, "done")
    BY <1>7 DEF Answer
  <2>2. /\ entry' \in [Entries -> Rows]
        /\ \A x \in Entries : entry'[x].group = entry[x].group
                              /\ entry'[x].class = entry[x].class
        /\ \A x \in MembersOf(g) : entry'[x].status = to
        /\ \A x \in Entries \ MembersOf(g) : entry'[x] = entry[x]
    BY <1>1, <1>3, <1>4, <2>1, StatusType DEF TypeOK, MembersOf, Statuses
  <2>3. \A x \in Entries : entry[x].group \notin {None, g} => entry'[x] = entry[x]
    BY <2>2 DEF MembersOf
  <2>4. g \in groups /\ Uniform(MembersOf(g))
    BY <1>1, <1>3, <1>7 DEF GroupIsUniform, MembersOf, Several
  <2>5. {x \in Entries : entry'[x].group = g} = MembersOf(g) BY <2>2 DEF MembersOf
  <2>6. Uniform(MembersOf(g))'
    <3>1. \A x, y \in MembersOf(g) : /\ entry'[x].class = entry'[y].class
                                     /\ entry'[x].status = to /\ entry'[y].status = to
      BY <2>2, <2>4 DEF Uniform, Alike, MembersOf
    <3> QED BY <1>4, <2>4, <2>5, <3>1 DEF Uniform, MembersOf, Several, Alike
  <2>7. GroupIsUniform' BY <1>1, <2>1, <2>2, <2>3, <2>4, <2>6, OneGroupChanges
  <2>8. \A x \in Entries : lock[x] \notin {r, None} => entry'[x] = entry[x]
    BY <1>3, <2>2
  <2> QED BY <1>1, <2>1, <2>2, <2>7, <2>8, WritingStep
<1> QED BY <1>2, <1>5, <1>6, <1>7 DEF StatusCommit

LEMMA VoidGroupCommitStep ==
  ASSUME GroupInv, NEW r \in Requests, VoidGroupCommit(r) PROVE GroupInv'
<1>1. TypeOK /\ pc[r] = "ready" /\ input[r].op = "void_group"
  BY DEF GroupInv, VoidGroupCommit, CanCommit
<1>2. PICK g : g = input[r].group OBVIOUS
<1>3. /\ g # None /\ Read(r) = MembersOf(g) /\ Read(r) \subseteq Entries
      /\ \A e \in Read(r) : lock[e] = r
  BY <1>1, <1>2, WholeGroup
<1>4. CASE Refuse(r) BY <1>1, <1>4, RefuseStep
<1>5. CASE ~Refuse(r)
  <2> DEFINE detached == WithGroup(entry, MembersOf(g), None)
  <2>1. /\ entry' = WithStatus(detached, Read(r), "voided") /\ groups' = groups \ {g}
        /\ Finish(r, "done")
    BY <1>2, <1>5 DEF VoidGroupCommit, Answer
  <2>2. /\ detached \in [Entries -> Rows]
        /\ \A x \in MembersOf(g) : detached[x].group = None
        /\ \A x \in Entries \ MembersOf(g) : detached[x] = entry[x]
    <3>1. detached = WithGroup(entry, MembersOf(g), None) OBVIOUS
    <3>2. entry \in [Entries -> Rows] /\ MembersOf(g) \subseteq Entries
      BY <1>1 DEF TypeOK, MembersOf
    <3> HIDE DEF detached
    <3> QED BY <3>1, <3>2, GroupType
  <2> HIDE DEF detached
  <2>3. /\ entry' \in [Entries -> Rows]
        /\ \A x \in MembersOf(g) : entry'[x].group = None
        /\ \A x \in Entries \ MembersOf(g) : entry'[x] = entry[x]
    BY <1>3, <2>1, <2>2, StatusType DEF Statuses
  <2>4. GroupIsUniform' /\ \A x \in Entries : entry'[x].group \in {entry[x].group, None}
    BY <1>3, <2>1, <2>3, GroupGone
  <2>5. \A x \in Entries : lock[x] \notin {r, None} => entry'[x] = entry[x]
    BY <1>3, <2>3
  <2> QED BY <1>1, <2>1, <2>3, <2>4, <2>5, WritingStep
<1> QED BY <1>4, <1>5

LEMMA VoidMemberCommitStep ==
  ASSUME GroupInv, NEW r \in Requests, VoidMemberCommit(r) PROVE GroupInv'
<1>1. TypeOK /\ GroupIsUniform /\ pc[r] = "ready" /\ input[r].op = "void_member"
  BY DEF GroupInv, VoidMemberCommit, CanCommit
<1>2. PICK g, e : g = input[r].group /\ e = input[r].entry OBVIOUS
<1>3. /\ g # None /\ Read(r) = MembersOf(g) /\ Read(r) \subseteq Entries
      /\ \A x \in Read(r) : lock[x] = r
  BY <1>1, <1>2, WholeGroup
<1>4. CASE Refuse(r) BY <1>1, <1>4, RefuseStep
<1>5. CASE ~Refuse(r)
  <2> DEFINE detached == WithGroup(entry, {e}, None)
             gone     == WithStatus(detached, {e}, "voided")
  <2>1. e \in MembersOf(g) /\ e \in Entries
    BY <1>2, <1>3, <1>5 DEF VoidMemberCommit
  <2>2. /\ detached \in [Entries -> Rows]
        /\ detached[e].group = None
        /\ \A x \in Entries \ {e} : detached[x] = entry[x]
    <3>1. detached = WithGroup(entry, {e}, None) OBVIOUS
    <3>2. entry \in [Entries -> Rows] BY <1>1 DEF TypeOK
    <3> HIDE DEF detached
    <3> QED BY <2>1, <3>1, <3>2, GroupType
  <2>3. /\ gone \in [Entries -> Rows]
        /\ gone[e].group = None
        /\ \A x \in Entries \ {e} : gone[x] = entry[x]
    <3> HIDE DEF detached
    <3> QED BY <2>1, <2>2, StatusType DEF Statuses
  <2>4. \/ /\ entry' = WithGroup(gone, MembersOf(g), None) /\ groups' = groups \ {g}
        \/ entry' = gone /\ groups' = groups /\ Several(Read(r) \ {e})
    BY <1>2, <1>5 DEF VoidMemberCommit, Answer
  <2>5. Finish(r, "done") BY <1>5 DEF VoidMemberCommit, Answer
  <2> HIDE DEF gone, detached
  <2>6. CASE entry' = WithGroup(gone, MembersOf(g), None) /\ groups' = groups \ {g}
    <3>1. /\ entry' \in [Entries -> Rows]
          /\ \A x \in MembersOf(g) : entry'[x].group = None
          /\ \A x \in Entries \ MembersOf(g) : entry'[x] = gone[x]
      BY <2>3, <2>6, GroupType DEF MembersOf
    <3>2. \A x \in Entries \ MembersOf(g) : entry'[x] = entry[x] BY <2>1, <2>3, <3>1
    <3>3. GroupIsUniform' /\ \A x \in Entries : entry'[x].group \in {entry[x].group, None}
      BY <1>3, <2>6, <3>1, <3>2, GroupGone
    <3>4. \A x \in Entries : lock[x] \notin {r, None} => entry'[x] = entry[x]
      BY <1>3, <3>2
    <3> QED BY <1>1, <2>5, <2>6, <3>1, <3>3, <3>4, WritingStep
  <2>7. CASE entry' = gone /\ groups' = groups /\ Several(Read(r) \ {e})
    <3>1. g \in groups /\ Uniform(MembersOf(g)) BY <1>1, <1>3, <2>1 DEF GroupIsUniform, MembersOf
    <3>2. {x \in Entries : entry'[x].group = g} = MembersOf(g) \ {e}
      BY <1>3, <2>1, <2>3, <2>7 DEF MembersOf
    <3>3. \A x \in MembersOf(g) \ {e} : entry'[x] = entry[x]
      BY <2>3, <2>7 DEF MembersOf
    <3>4. Uniform(MembersOf(g))'
      BY <1>3, <2>7, <3>1, <3>2, <3>3 DEF Uniform, MembersOf, Several
    <3>5. /\ \A x \in Entries : entry[x].group \notin {None, g} => entry'[x] = entry[x]
          /\ \A x \in Entries : entry'[x].group \in {entry[x].group, None}
      BY <2>1, <2>3, <2>7 DEF MembersOf
    <3>6. GroupIsUniform' BY <1>1, <2>7, <3>1, <3>4, <3>5, OneGroupChanges
    <3>7. \A x \in Entries : lock[x] \notin {r, None} => entry'[x] = entry[x]
      BY <1>3, <2>1, <2>3, <2>7
    <3> QED BY <1>1, <2>3, <2>5, <2>7, <3>5, <3>6, <3>7, WritingStep
  <2> QED BY <2>4, <2>6, <2>7
<1> QED BY <1>4, <1>5

\* A bulk action on a group has read all its members, and of the entries it was
\* asked for those that are in no other group.
LEMMA BulkCommitStep ==
  ASSUME GroupInv, NEW r \in Requests, BulkCommit(r) PROVE GroupInv'
<1>1. TypeOK /\ GroupIsUniform /\ pc[r] = "ready" /\ input[r].op = "bulk"
  BY DEF GroupInv, BulkCommit, CanCommit
<1>2. PICK g, to, ids : g = input[r].group /\ to = input[r].to /\ ids = input[r].ids
  OBVIOUS
<1>3. /\ g \in GroupIds \cup {None} /\ to \in {"posted", "reconciled", "voided"}
      /\ ids \subseteq Entries /\ IdsAsked(r) = ids
  BY <1>1, <1>2, AtReady, InputKinds, SelectionsAssumption DEF IdsAsked
<1>4. /\ Read(r) \subseteq Entries /\ ids \subseteq Read(r)
      /\ \A x \in Read(r) : lock[x] = r /\ seen[r].rows[x] = entry[x] /\ entry[x] \in Rows
      /\ g # None => MembersOf(g) \subseteq Read(r)
      /\ \A x \in Read(r) : x \in ids \/ entry[x].group = g
  <2>1. MembersAsked(r) \subseteq Read(r) /\ Read(r) \subseteq MembersAsked(r) \cup IdsAsked(r)
        /\ IdsAsked(r) \subseteq Read(r) /\ Read(r) \subseteq Entries
        /\ \A x \in Read(r) : lock[x] = r /\ seen[r].rows[x] = entry[x] /\ entry[x] \in Rows
    BY <1>1, AtReady
  <2>2. \A x \in MembersAsked(r) : entry[x].group = g BY <1>2 DEF MembersAsked
  <2>3. g # None => MembersOf(g) \subseteq MembersAsked(r)
    BY <1>1, <1>2 DEF MembersAsked, MembersOf
  <2> QED BY <1>3, <2>1, <2>2, <2>3
<1>5. CASE Refuse(r) BY <1>1, <1>5, RefuseStep
<1>6. CASE ~Refuse(r)
  <2> DEFINE rows     == {x \in Read(r) : Applies(entry[x], to)}
             changed  == WithStatus(entry, rows, to)
             detached == IF g = None THEN changed ELSE WithGroup(changed, MembersOf(g), None)
  <2>1. /\ ~BulkRefused(r) /\ Finish(r, "done")
        /\ \/ /\ to = "voided" \/ g = None
              /\ entry' = detached
              /\ groups' = IF to = "voided" THEN groups \ {g} ELSE groups
           \/ /\ to # "voided" /\ g # None
              /\ entry' = WithGroup(detached, ReadMembers(r), g) /\ groups' = groups
    BY <1>2, <1>6 DEF BulkCommit, Answer
  <2>2. /\ \A x \in Read(r) : entry[x].group \in {None, g}
        /\ to # "voided" => \A x \in Read(r) : entry[x].status \in {"posted", "reconciled"}
        /\ g # None => Several(ReadMembers(r))
    BY <1>2, <1>4, <2>1 DEF BulkRefused
  <2>3. g # None => ReadMembers(r) = MembersOf(g)
    BY <1>2, <1>4 DEF ReadMembers, MembersOf
  <2>4. /\ changed \in [Entries -> Rows]
        /\ \A x \in Entries : changed[x].group = entry[x].group
                              /\ changed[x].class = entry[x].class
        /\ \A x \in Entries \ Read(r) : changed[x] = entry[x]
        /\ \A x \in Read(r) : changed[x].status = to
    <3>1. changed = WithStatus(entry, rows, to) OBVIOUS
    <3>2. entry \in [Entries -> Rows] /\ to \in Statuses /\ rows \subseteq Entries
      BY <1>1, <1>3, <1>4 DEF TypeOK, Statuses
    <3>3. \A x \in Read(r) \ rows : entry[x].status = to
      BY <1>3, <1>4, <2>2 DEF Applies
    <3>4. rows \subseteq Read(r) OBVIOUS
    <3> HIDE DEF changed, rows
    <3> QED BY <1>4, <3>1, <3>2, <3>3, <3>4, StatusType
  <2> HIDE DEF changed, rows
  <2>5. /\ detached \in [Entries -> Rows]
        /\ \A x \in Entries : detached[x].class = entry[x].class
        /\ \A x \in Read(r) : detached[x].status = to
        /\ \A x \in Entries \ Read(r) : detached[x] = entry[x]
        /\ \A x \in Entries \ MembersOf(g) : detached[x].group = entry[x].group
        /\ \A x \in MembersOf(g) : detached[x].group = None
    <3>1. CASE g = None BY <2>4, <3>1 DEF MembersOf
    <3>2. CASE g # None
      <4>1. detached = WithGroup(changed, MembersOf(g), None) /\ MembersOf(g) \subseteq Entries
        BY <3>2 DEF MembersOf
      <4> HIDE DEF detached
      <4>2. /\ detached \in [Entries -> Rows]
            /\ \A x \in Entries : detached[x].status = changed[x].status
                                  /\ detached[x].class = changed[x].class
            /\ \A x \in MembersOf(g) : detached[x].group = None
            /\ \A x \in Entries \ MembersOf(g) : detached[x] = changed[x]
        BY <2>4, <4>1, GroupType
      <4> QED BY <1>4, <2>4, <3>2, <4>2
    <3> QED BY <3>1, <3>2
  <2> HIDE DEF detached
  <2>6. CASE entry' = detached /\ (to = "voided" \/ g = None)
             /\ groups' = IF to = "voided" THEN groups \ {g} ELSE groups
    <3>1. \A x \in Entries : entry'[x].group # g \/ g = None BY <2>5, <2>6 DEF MembersOf
    <3>2. \A x \in Entries : entry[x].group \notin {None, g} => entry'[x] = entry[x]
      BY <2>2, <2>5, <2>6
    <3>3. \A x \in Entries : entry'[x].group \in {entry[x].group, None} BY <2>5, <2>6
    <3>4. groups \ {g} \subseteq groups' /\ groups' \subseteq groups BY <2>6
    <3>5. GroupIsUniform' BY <1>1, <3>1, <3>2, <3>3, <3>4, OneGroupChanges
    <3>6. \A x \in Entries : lock[x] \notin {r, None} => entry'[x] = entry[x]
      BY <1>4, <2>5, <2>6
    <3> QED BY <1>1, <2>1, <2>5, <2>6, <3>3, <3>4, <3>5, <3>6, WritingStep
  <2>7. CASE entry' = WithGroup(detached, ReadMembers(r), g) /\ groups' = groups
             /\ to # "voided" /\ g # None
    <3>1. /\ entry' \in [Entries -> Rows]
          /\ \A x \in Entries : entry'[x].status = detached[x].status
                                /\ entry'[x].class = detached[x].class
          /\ \A x \in MembersOf(g) : entry'[x].group = g
          /\ \A x \in Entries \ MembersOf(g) : entry'[x] = detached[x]
      BY <1>3, <2>3, <2>5, <2>7, GroupType DEF MembersOf
    <3>2. \A x \in Entries : entry'[x].group = entry[x].group
      BY <2>5, <3>1 DEF MembersOf
    <3>3. {x \in Entries : entry'[x].group = g} = MembersOf(g) BY <3>2 DEF MembersOf
    <3>4. g \in groups /\ Uniform(MembersOf(g))
      BY <1>1, <2>2, <2>3, <2>7 DEF GroupIsUniform, MembersOf, Several
    <3>5. \A x \in MembersOf(g) : entry'[x].status = to /\ entry'[x].class = entry[x].class
      BY <1>4, <2>5, <2>7, <3>1 DEF MembersOf
    <3>6. Uniform(MembersOf(g))'
      BY <2>7, <3>3, <3>4, <3>5 DEF Uniform, MembersOf, Several, Alike
    <3>7. \A x \in Entries : entry[x].group \notin {None, g} => entry'[x] = entry[x]
      BY <2>2, <2>5, <3>1 DEF MembersOf
    <3>8. GroupIsUniform'
      BY <1>1, <2>7, <3>2, <3>4, <3>6, <3>7, OneGroupChanges
    <3>9. \A x \in Entries : lock[x] \notin {r, None} => entry'[x] = entry[x]
      BY <1>4, <2>5, <2>7, <3>1 DEF MembersOf
    <3> QED BY <1>1, <2>1, <2>7, <3>1, <3>2, <3>8, <3>9, WritingStep
  <2> QED BY <2>1, <2>6, <2>7
<1> QED BY <1>5, <1>6


-----------------------------------------------------------------------------
(* Every step, and the theorems.                                           *)

LEMMA BreakDeadlockStep ==
  ASSUME GroupInv, BreakDeadlock PROVE GroupInv'
<1>1. PICK r \in Requests : Refuse(r) /\ \E q : WaitsFor(r, q)
  BY DEF BreakDeadlock, Deadlocked
<1>2. pc[r] \in {"read", "group", "members", "direct"} BY <1>1 DEF WaitsFor, Wanted
<1> QED BY <1>1, <1>2, RefuseStep

LEMMA WorkStep ==
  ASSUME GroupInv, NEW r \in Requests, Work(r) PROVE GroupInv'
BY EntryCommitStep, LockGroupStep, ListMembersStep, LockRowStep, NextStageStep,
   CreateCommitStep, UngroupCommitStep, StatusCommitStep, VoidMemberCommitStep,
   VoidGroupCommitStep, BulkCommitStep DEF Work

LEMMA GroupInvStep ==
  ASSUME GroupInv, [Next]_vars PROVE GroupInv'
<1>1. CASE BreakDeadlock BY <1>1, BreakDeadlockStep
<1>2. CASE \E r \in Requests : Begin(r) BY <1>2, BeginStep
<1>3. CASE \E r \in Requests : Work(r) BY <1>3, WorkStep
<1>4. CASE \E r \in Requests : Fail(r)
  <2>1. PICK r \in Requests : pc[r] \notin {"idle", "done"} /\ Refuse(r)
    BY <1>4 DEF Fail, InFlight
  <2> QED BY <2>1, RefuseStep
<1>5. CASE UNCHANGED vars
  <2>1. TypeOK' BY <1>5 DEF vars, requests, tables, TypeOK, GroupInv
  <2>2. GroupIsUniform' /\ Minted'
    BY <1>5 DEF vars, requests, tables, GroupInv, GroupIsUniform, Minted, Uniform, MembersOf,
                Several
  <2>3. ASSUME NEW r \in Requests PROVE Asks(r)' /\ Holds(r)' /\ Covers(r)'
    <3>1. Asks(r) /\ Holds(r) /\ Covers(r) BY DEF GroupInv
    <3>2. Asks(r)' BY <1>5, <3>1 DEF vars, requests, tables, Asks
    <3>3. Read(r)' = Read(r) /\ MembersAsked(r)' = MembersAsked(r)
          /\ IdsAsked(r)' = IdsAsked(r)
      BY <1>5 DEF vars, requests, tables, Read, MembersAsked, IdsAsked
    <3>4. Holds(r)' BY <1>5, <3>1, <3>3 DEF vars, requests, tables, Holds
    <3>5. Covers(r)' BY <1>5, <3>1, <3>3 DEF vars, requests, tables, Covers
    <3> QED BY <3>2, <3>4, <3>5
  <2> QED BY <2>1, <2>2, <2>3 DEF GroupInv
<1> QED BY <1>1, <1>2, <1>3, <1>4, <1>5 DEF Next

LEMMA GroupInvInit == ASSUME Init PROVE GroupInv
<1>1. PICK rows \in Statements : entry = rows BY DEF Init
<1>2. /\ entry \in [Entries -> [class : Classes, status : Statuses, group : {Legacy, None}]]
      /\ \A e \in Entries : entry[e].group = Legacy =>
           /\ entry[e].status # "voided"
           /\ \E f \in Entries : f # e /\ entry[f].group = Legacy
           /\ \A f \in Entries : entry[f].group = Legacy => Alike(entry[e], entry[f])
  BY <1>1, StatementsAssumption
<1>3. groups \subseteq {Legacy} /\ (MembersOf(Legacy) # {} => Legacy \in groups)
  BY DEF Init
<1>4. TypeOK
  <2>1. entry \in [Entries -> Rows] BY <1>2 DEF Rows, GroupIds
  <2> QED BY <1>3, <2>1, NothingSeenType DEF Init, TypeOK, GroupIds
<1>5. GroupIsUniform
  <2> SUFFICES ASSUME NEW e \in Entries, entry[e].group # None
               PROVE  entry[e].group \in groups /\ Uniform(MembersOf(entry[e].group))
    BY DEF GroupIsUniform
  <2>1. entry[e].group = Legacy /\ e \in MembersOf(Legacy) BY <1>2 DEF MembersOf
  <2>2. PICK f \in Entries : f # e /\ entry[f].group = Legacy BY <1>2, <2>1
  <2>3. Several(MembersOf(Legacy)) BY <2>1, <2>2 DEF Several, MembersOf
  <2>4. Uniform(MembersOf(Legacy)) BY <1>2, <2>3 DEF Uniform, MembersOf
  <2> QED BY <1>3, <2>1, <2>4
<1>6. Minted BY <1>3, NamesAssumption DEF Minted
<1>7. ASSUME NEW r \in Requests PROVE Asks(r) /\ Holds(r) /\ Covers(r)
  <2>1. pc[r] = "idle" /\ seen[r] = NothingSeen BY DEF Init
  <2>2. Read(r) = {} BY <2>1, NothingSeenType DEF Read
  <2> QED BY <2>1, <2>2 DEF Asks, Holds, Covers, Working
<1> QED BY <1>4, <1>5, <1>6, <1>7 DEF GroupInv

LEMMA GroupInvAlways == Spec => []GroupInv
BY GroupInvInit, GroupInvStep, PTL DEF Spec

\* The tables and what the requests remember of them have the stated types.
THEOREM TypeCorrect == Spec => []TypeOK
<1>1. GroupInv => TypeOK BY DEF GroupInv
<1> QED BY <1>1, GroupInvAlways, PTL

\* A group stays one line of the statement, for every number of overlapping
\* updates, groupings, ungroupings and bulk actions, aborted or not.
THEOREM GroupsUniform == Spec => []GroupIsUniform
<1>1. GroupInv => GroupIsUniform BY DEF GroupInv
<1> QED BY <1>1, GroupInvAlways, PTL


-----------------------------------------------------------------------------
(* A selection is taken whole.                                             *)

\* A request becomes done by a step of its own.
LEMMA DoneByItself ==
  ASSUME GroupInv, [Next]_vars, NEW r \in Requests, pc[r] = "ready", pc'[r] = "done"
  PROVE  \/ CreateCommit(r) \/ UngroupCommit(r) \/ StatusCommit(r)
         \/ VoidMemberCommit(r) \/ VoidGroupCommit(r) \/ BulkCommit(r)
<1>1. TypeOK /\ "refused" # "done" BY DEF GroupInv
<1>2. \A q \in Requests : Refuse(q) => pc' = [pc EXCEPT ![q] = "refused"]
  BY DEF Refuse, Finish, Goto
<1>3. ~BreakDeadlock BY <1>1, <1>2 DEF BreakDeadlock, TypeOK
<1>4. pc' # pc BY DEF vars
<1>5. PICK q \in Requests : Begin(q) \/ Work(q) \/ Fail(q)
  BY <1>3, <1>4 DEF Next, vars, requests
<1>6. ~Fail(q) BY <1>1, <1>2 DEF Fail, TypeOK
<1>7. ~Begin(q)
  <2>1. \A in, at : Admit(q, in, at) /\ pc[r] = "ready" => pc'[r] = "ready"
    BY <1>1 DEF Admit, TypeOK
  <2> QED BY <2>1 DEF Begin, UpdateBegin, VoidBegin, CreateBegin, UngroupBegin, GroupBegin,
                     BulkBegin
<1>8. q = r
  <2>1. \A at : Goto(q, at) /\ q # r => pc'[r] = pc[r] BY <1>1 DEF Goto, TypeOK
  <2>2. \A to : Finish(q, to) => Goto(q, to) BY DEF Finish
  <2> QED
    BY <1>4, <1>5, <1>6, <1>7, <2>1, <2>2
    DEF Work, EntryCommit, LockGroup, ListMembers, LockRow, NextStage, CreateCommit,
        UngroupCommit, StatusCommit, VoidMemberCommit, VoidGroupCommit, BulkCommit,
        Answer, Refuse
<1> QED
  BY <1>5, <1>6, <1>7, <1>8 DEF Work, EntryCommit, LockGroup, ListMembers, LockRow, NextStage


LEMMA StatusTaken ==
  ASSUME GroupInv, NEW r \in Requests, StatusCommit(r), pc'[r] = "done"
  PROVE  \A e \in Asked(input[r]) : entry'[e].status = StatusAsked(input[r])
<1>1. TypeOK /\ pc[r] = "ready" /\ input[r].op = "status"
  BY DEF GroupInv, StatusCommit, CanCommit
<1>2. PICK to : to = input[r].to OBVIOUS
<1>3. Asked(input[r]) \subseteq Read(r) BY <1>1, WholeGroup DEF Asked
<1>4. StatusAsked(input[r]) = to /\ to \in Statuses
  BY <1>1, <1>2, AtReady, InputKinds DEF StatusAsked, Statuses
<1>5. /\ entry \in [Entries -> Rows] /\ Read(r) \subseteq Entries
      /\ \A e \in Read(r) : seen[r].rows[e] = entry[e]
  BY <1>1, AtReady DEF TypeOK
<1>6. ~Refuse(r) BY <1>1 DEF Refuse, Finish, Goto, TypeOK
<1>7. CASE \A e \in Read(r) : seen[r].rows[e].status = to
  BY <1>3, <1>4, <1>5, <1>2, <1>6, <1>7 DEF StatusCommit, Answer
<1>8. CASE entry' = WithStatus(entry, Read(r), to)
  BY <1>3, <1>4, <1>5, <1>8, StatusType
<1>9. (\A e \in Read(r) : seen[r].rows[e].status = to) \/ entry' = WithStatus(entry, Read(r), to)
  BY <1>2, <1>6 DEF StatusCommit, Answer
<1> QED BY <1>7, <1>8, <1>9

LEMMA VoidGroupTaken ==
  ASSUME GroupInv, NEW r \in Requests, VoidGroupCommit(r), pc'[r] = "done"
  PROVE  \A e \in Asked(input[r]) : entry'[e].status = StatusAsked(input[r])
<1>1. TypeOK /\ pc[r] = "ready" /\ input[r].op = "void_group"
  BY DEF GroupInv, VoidGroupCommit, CanCommit
<1>2. Asked(input[r]) \subseteq Read(r) /\ Read(r) \subseteq Entries
  BY <1>1, WholeGroup DEF Asked
<1>3. ~Refuse(r) BY <1>1 DEF Refuse, Finish, Goto, TypeOK
<1>4. PICK detached : detached = WithGroup(entry, MembersOf(input[r].group), None) OBVIOUS
<1>5. entry' = WithStatus(detached, Read(r), "voided")
  BY <1>3, <1>4 DEF VoidGroupCommit, Answer
<1>6. detached \in [Entries -> Rows] BY <1>1, <1>4, GroupType DEF TypeOK
<1>7. \A e \in Read(r) : entry'[e].status = "voided"
  BY <1>2, <1>5, <1>6, StatusType DEF Statuses
<1> QED BY <1>1, <1>2, <1>7 DEF StatusAsked

LEMMA BulkTaken ==
  ASSUME GroupInv, NEW r \in Requests, BulkCommit(r), pc'[r] = "done"
  PROVE  \A e \in Asked(input[r]) : entry'[e].status = StatusAsked(input[r])
<1>1. TypeOK /\ pc[r] = "ready" /\ input[r].op = "bulk"
  BY DEF GroupInv, BulkCommit, CanCommit
<1>2. PICK g, to, ids : g = input[r].group /\ to = input[r].to /\ ids = input[r].ids
  OBVIOUS
<1>3. ~Refuse(r) BY <1>1 DEF Refuse, Finish, Goto, TypeOK
<1>4. to \in {"posted", "reconciled", "voided"} /\ StatusAsked(input[r]) = to
      /\ g \in GroupIds \cup {None} /\ IdsAsked(r) = ids
  BY <1>1, <1>2, AtReady, InputKinds DEF StatusAsked, IdsAsked
<1>5. /\ Read(r) \subseteq Entries /\ IdsAsked(r) \subseteq Read(r)
      /\ MembersAsked(r) \subseteq Read(r)
      /\ \A x \in Read(r) : seen[r].rows[x] = entry[x] /\ entry[x] \in Rows
  BY <1>1, AtReady
<1>6. Asked(input[r]) \subseteq Read(r)
  BY <1>1, <1>2, <1>4, <1>5 DEF Asked, MembersAsked, MembersOf
<1>7. ~BulkRefused(r) BY <1>3 DEF BulkCommit
<1>8. to # "voided" => \A x \in Read(r) : entry[x].status \in {"posted", "reconciled"}
  BY <1>2, <1>5, <1>7 DEF BulkRefused
<1>9. PICK rows : rows = {x \in Read(r) : Applies(entry[x], to)} OBVIOUS
<1>10. \A x \in Read(r) \ rows : entry[x].status = to
  BY <1>4, <1>5, <1>8, <1>9 DEF Applies
<1>11. PICK changed : changed = WithStatus(entry, rows, to) OBVIOUS
<1>12. changed \in [Entries -> Rows] /\ \A x \in Read(r) : changed[x].status = to
  <2>1. rows \subseteq Read(r) BY <1>9
  <2>2. entry \in [Entries -> Rows] /\ to \in Statuses BY <1>1, <1>4 DEF TypeOK, Statuses
  <2> QED BY <1>5, <1>10, <1>11, <2>1, <2>2, StatusType
<1>13. PICK detached :
         detached = IF g = None THEN changed ELSE WithGroup(changed, MembersOf(g), None)
  OBVIOUS
<1>14. detached \in [Entries -> Rows] /\ \A x \in Read(r) : detached[x].status = to
  BY <1>5, <1>12, <1>13, GroupType
<1>15. entry' \in {detached, WithGroup(detached, ReadMembers(r), g)}
  BY <1>2, <1>3, <1>9, <1>11, <1>13 DEF BulkCommit, Answer
<1>16. \A x \in Read(r) : entry'[x].status = to
  BY <1>4, <1>5, <1>14, <1>15, GroupType
<1> QED BY <1>4, <1>6, <1>16

LEMMA StepTakesWhole ==
  GroupInv /\ [Next]_vars =>
    [\A r \in Requests :
       /\ pc[r] = "ready" /\ pc'[r] = "done"
       /\ input[r].op \in {"bulk", "status", "void_group"}
       => \A e \in Asked(input[r]) : entry'[e].status = StatusAsked(input[r])]_vars
<1> SUFFICES ASSUME GroupInv, [Next]_vars, NEW r \in Requests,
                    pc[r] = "ready", pc'[r] = "done",
                    input[r].op \in {"bulk", "status", "void_group"}
             PROVE  \A e \in Asked(input[r]) : entry'[e].status = StatusAsked(input[r])
  OBVIOUS
<1>1. StatusCommit(r) \/ VoidGroupCommit(r) \/ BulkCommit(r)
  BY DoneByItself DEF CreateCommit, UngroupCommit, VoidMemberCommit, CanCommit
<1> QED BY <1>1, StatusTaken, VoidGroupTaken, BulkTaken

\* An action on a selection gives every entry of it, and every member of its
\* group at that moment, the status asked for, or changes none.
THEOREM TakenWhole == Spec => SelectionTakenWhole
BY GroupInvAlways, StepTakesWhole, PTL DEF Spec, SelectionTakenWhole

-----------------------------------------------------------------------------
(* Locks, and who waits for whom.                                          *)

HoldsNothing(r) == \A x \in Entries \cup GroupIds : lock[x] # r

\* Locks are taken inside a transaction and given back at its end; a handler that
\* begins with its group has none before that, and an ungrouping, which ends with its
\* group, has that one last.
LocksTaken(r) ==
  /\ ~InFlight(r) \/ pc[r] = "read" => HoldsNothing(r)
  /\ pc[r] = "group" /\ input[r].op # "ungroup" => HoldsNothing(r)
  /\ pc[r] \in {"group", "list", "members"} /\ input[r].op = "ungroup" =>
       lock[input[r].group] # r

LockInv == \A r \in Requests : LocksTaken(r)

\* A step of r gives locks to nobody else and does not touch what others are at.
OnlyMine(r) ==
  /\ \A q \in Requests \ {r} : pc'[q] = pc[q] /\ input'[q] = input[q]
  /\ \A x \in Entries \cup GroupIds : lock'[x] \in {r, None, lock[x]}

LEMMA LocksOfOthers ==
  ASSUME GroupInv, LockInv, NEW r \in Requests, OnlyMine(r), LocksTaken(r)'
  PROVE  LockInv'
<1> SUFFICES ASSUME NEW q \in Requests \ {r} PROVE LocksTaken(q)' BY DEF LockInv
<1>1. LocksTaken(q) /\ Asks(q) BY DEF LockInv, GroupInv
<1>2. pc'[q] = pc[q] /\ input'[q] = input[q] BY DEF OnlyMine
<1>3. \A x \in Entries \cup GroupIds : lock'[x] = q => lock[x] = q
  BY NamesAssumption DEF OnlyMine, GroupIds
<1>4. HoldsNothing(q) => HoldsNothing(q)' BY <1>3 DEF HoldsNothing
<1>5. pc[q] \in {"group", "list", "members"} => input[q].group \in GroupIds
  BY <1>1 DEF Asks
<1> QED BY <1>1, <1>2, <1>3, <1>4, <1>5 DEF LocksTaken, InFlight

\* Beginning takes no lock.
LEMMA LocksBegin ==
  ASSUME GroupInv, GroupInv', LockInv, NEW r \in Requests, Begin(r) PROVE LockInv'
<1>1. TypeOK /\ TypeOK' /\ LocksTaken(r) /\ Asks(r)' BY DEF GroupInv, LockInv
<1>2. UNCHANGED lock /\ \E in, at : Admit(r, in, at)
  BY DEF Begin, UpdateBegin, VoidBegin, CreateBegin, UngroupBegin, GroupBegin, BulkBegin
<1>3. PICK in, at : Admit(r, in, at) BY <1>2
<1>4. /\ pc[r] = "idle" /\ pc' = [pc EXCEPT ![r] = at]
      /\ input' = [input EXCEPT ![r] = in]
  BY <1>3 DEF Admit
<1>5. OnlyMine(r) BY <1>1, <1>2, <1>4 DEF OnlyMine, TypeOK
<1>6. HoldsNothing(r) BY <1>1, <1>4 DEF LocksTaken, InFlight
<1>7. HoldsNothing(r)' BY <1>2, <1>6 DEF HoldsNothing
<1>8. LocksTaken(r)' BY <1>1, <1>7 DEF LocksTaken, HoldsNothing, Asks
<1> QED BY <1>5, <1>8, LocksOfOthers

\* An end gives back all of them.
LEMMA LocksFinish ==
  ASSUME GroupInv, LockInv, NEW r \in Requests, NEW to \in {"done", "refused"},
         Finish(r, to)
  PROVE  LockInv'
<1>1. TypeOK BY DEF GroupInv
<1>2. /\ pc' = [pc EXCEPT ![r] = to] /\ UNCHANGED input
      /\ lock' = [x \in DOMAIN lock |-> IF lock[x] = r THEN None ELSE lock[x]]
  BY DEF Finish, Goto, Released
<1>3. pc'[r] = to BY <1>1, <1>2 DEF TypeOK
<1>4. \A x \in Entries \cup GroupIds : lock'[x] = IF lock[x] = r THEN None ELSE lock[x]
  BY <1>1, <1>2 DEF TypeOK
<1>5. HoldsNothing(r)' BY <1>4, NamesAssumption DEF HoldsNothing, GroupIds
<1>6. LocksTaken(r)' BY <1>3, <1>5 DEF LocksTaken
<1>7. OnlyMine(r) BY <1>1, <1>2, <1>4 DEF OnlyMine, TypeOK
<1> QED BY <1>6, <1>7, LocksOfOthers

LEMMA LocksGroup ==
  ASSUME GroupInv, LockInv, NEW r \in Requests, LockGroup(r) PROVE LockInv'
<1> DEFINE g == input[r].group
<1>1. TypeOK /\ Asks(r) /\ LocksTaken(r) /\ pc[r] = "group" /\ g \in GroupIds
  BY DEF GroupInv, LockInv, LockGroup, Asks
<1>2. /\ UNCHANGED input
      /\ \/ input[r].op = "ungroup" /\ pc' = [pc EXCEPT ![r] = "ready"]
         \/ input[r].op # "ungroup" /\ g \in groups /\ pc' = [pc EXCEPT ![r] = "list"]
         \/ /\ input[r].op # "ungroup" /\ g \notin groups
            /\ pc' = [pc EXCEPT ![r] = "refused"]
      /\ lock' = IF g \in groups THEN [lock EXCEPT ![g] = r] ELSE lock
  BY DEF LockGroup, Goto
<1>3. OnlyMine(r) BY <1>1, <1>2 DEF OnlyMine, TypeOK
<1>4. LocksTaken(r)'
  <2>1. CASE pc'[r] = "ready" BY <2>1 DEF LocksTaken, InFlight
  <2>2. CASE pc'[r] = "list" /\ input'[r].op # "ungroup" BY <2>2 DEF LocksTaken, InFlight
  <2>3. CASE pc'[r] = "refused" /\ input[r].op # "ungroup" /\ g \notin groups
    <3>1. HoldsNothing(r) BY <1>1, <2>3 DEF LocksTaken
    <3>2. HoldsNothing(r)' BY <1>2, <2>3, <3>1 DEF HoldsNothing
    <3> QED BY <2>3, <3>2 DEF LocksTaken
  <2> QED BY <1>1, <1>2, <2>1, <2>2, <2>3 DEF TypeOK
<1> QED BY <1>3, <1>4, LocksOfOthers

LEMMA LocksRow ==
  ASSUME GroupInv, LockInv, NEW r \in Requests, LockRow(r) PROVE LockInv'
<1> DEFINE e == NextRow(r)
<1>1. TypeOK /\ Asks(r) /\ LocksTaken(r) /\ pc[r] \in {"members", "direct"}
  BY DEF GroupInv, LockInv, LockRow
<1>2. e \in Entries BY <1>1, NextRowType DEF LockRow, TypeOK
<1>3. /\ UNCHANGED <<pc, input>>
      /\ lock' = [lock EXCEPT ![e] = r] \/ UNCHANGED lock
  BY DEF LockRow, Taken
<1> HIDE DEF e
<1>4. OnlyMine(r) BY <1>1, <1>2, <1>3 DEF OnlyMine, TypeOK
<1>5. \A g \in GroupIds : lock'[g] = lock[g]
  BY <1>1, <1>2, <1>3, NamesAssumption DEF TypeOK
<1>6. LocksTaken(r)' BY <1>1, <1>3, <1>5 DEF LocksTaken, InFlight, Asks
<1> QED BY <1>4, <1>6, LocksOfOthers

LEMMA LocksStage ==
  ASSUME GroupInv, LockInv, NEW r \in Requests, ListMembers(r) \/ NextStage(r)
  PROVE  LockInv'
<1>1. TypeOK /\ Asks(r) /\ LocksTaken(r) BY DEF GroupInv, LockInv
<1>2. /\ UNCHANGED <<lock, input>>
      /\ \/ pc[r] = "list" /\ pc' = [pc EXCEPT ![r] = "members"]
         \/ /\ pc[r] \in {"members", "direct"}
            /\ \/ pc' = [pc EXCEPT ![r] = "direct"]
               \/ input[r].op = "ungroup" /\ pc' = [pc EXCEPT ![r] = "group"]
               \/ pc' = [pc EXCEPT ![r] = "ready"]
  BY DEF ListMembers, NextStage, Goto
<1>3. OnlyMine(r) BY <1>1, <1>2 DEF OnlyMine, TypeOK
<1>4. \/ pc[r] \in {"list", "members"} /\ pc'[r] \in {"members", "direct", "ready"}
      \/ pc[r] \in {"direct"} /\ pc'[r] \in {"direct", "ready"}
      \/ pc[r] = "members" /\ pc'[r] = "group" /\ input[r].op = "ungroup"
  BY <1>1, <1>2 DEF TypeOK, Asks
<1>5. LocksTaken(r)' BY <1>1, <1>2, <1>4 DEF LocksTaken, InFlight
<1> QED BY <1>3, <1>5, LocksOfOthers

\* What a request works at ends it or locks.
LEMMA WorkEndsOrLocks ==
  ASSUME NEW r \in Requests, Work(r)
  PROVE  \/ LockGroup(r) \/ LockRow(r) \/ ListMembers(r) \/ NextStage(r)
         \/ Finish(r, "done") \/ Finish(r, "refused")
<1>1. CASE EntryCommit(r) BY <1>1 DEF EntryCommit, Answer, Refuse
<1>2. CASE CreateCommit(r) BY <1>2 DEF CreateCommit, Answer, Refuse
<1>3. CASE UngroupCommit(r) BY <1>3 DEF UngroupCommit, Answer
<1>4. CASE StatusCommit(r) BY <1>4 DEF StatusCommit, Answer, Refuse
<1>5. CASE VoidMemberCommit(r) BY <1>5 DEF VoidMemberCommit, Answer, Refuse
<1>6. CASE VoidGroupCommit(r) BY <1>6 DEF VoidGroupCommit, Answer, Refuse
<1>7. CASE BulkCommit(r) BY <1>7 DEF BulkCommit, Answer, Refuse
<1> QED BY <1>1, <1>2, <1>3, <1>4, <1>5, <1>6, <1>7 DEF Work

LEMMA LockInvAlways == Spec => []LockInv
<1>1. Init => LockInv
  <2> SUFFICES ASSUME Init, NEW r \in Requests PROVE LocksTaken(r) BY DEF LockInv
  <2>1. pc[r] = "idle" /\ \A x \in Entries \cup GroupIds : lock[x] = None BY DEF Init
  <2>2. HoldsNothing(r) BY <2>1, NamesAssumption DEF HoldsNothing, GroupIds
  <2> QED BY <2>1, <2>2 DEF LocksTaken
<1>2. GroupInv /\ GroupInv' /\ LockInv /\ [Next]_vars => LockInv'
  <2> SUFFICES ASSUME GroupInv, GroupInv', LockInv, [Next]_vars PROVE LockInv' OBVIOUS
  <2>1. CASE \E r \in Requests : Begin(r) BY <2>1, LocksBegin
  <2>2. ASSUME NEW r \in Requests, Finish(r, "done") \/ Finish(r, "refused") PROVE LockInv'
    BY <2>2, LocksFinish
  <2>3. CASE \E r \in Requests : Work(r)
    BY <2>2, <2>3, WorkEndsOrLocks, LocksGroup, LocksRow, LocksStage
  <2>4. CASE BreakDeadlock \/ \E r \in Requests : Fail(r)
    <3>1. \E r \in Requests : Refuse(r) BY <2>4 DEF BreakDeadlock, Fail
    <3> QED BY <2>2, <3>1 DEF Refuse
  <2>5. CASE UNCHANGED vars
    BY <2>5 DEF vars, requests, LockInv, LocksTaken, HoldsNothing, InFlight
  <2> QED BY <2>1, <2>3, <2>4, <2>5 DEF Next
<1> QED BY <1>1, <1>2, GroupInvAlways, PTL DEF Spec

\* Only requests that are still working hold locks: every way a transaction ends, be it
\* COMMIT, a refusal, a failed query or the deadlock detector, gives all of them back.
LockedByLiving ==
  \A x \in Entries \cup GroupIds : lock[x] # None => InFlight(lock[x])

LEMMA LivingHold == ASSUME GroupInv, LockInv PROVE LockedByLiving
<1> SUFFICES ASSUME NEW x \in Entries \cup GroupIds, lock[x] # None PROVE InFlight(lock[x])
  BY DEF LockedByLiving
<1>1. PICK r \in Requests : lock[x] = r BY DEF GroupInv, TypeOK
<1> QED BY <1>1 DEF LockInv, LocksTaken, HoldsNothing

THEOREM NoLockLeft == Spec => []LockedByLiving
BY LivingHold, GroupInvAlways, LockInvAlways, PTL

\* A request that is at work can go on: the guards of the actions of Work.
CanGoOn(r) ==
  \/ pc[r] = "list"
  \/ pc[r] = "ready" /\ input[r].op \in {"create", "ungroup", "status", "void_member",
                                        "void_group", "bulk"}
  \/ pc[r] = "read" /\ lock[input[r].entry] = None
  \/ pc[r] = "group" /\ lock[input[r].group] = None
  \/ /\ pc[r] \in {"members", "direct"}
     /\ seen[r].todo # {} => lock[NextRow(r)] \in {r, None}

\* If not, it waits for one that is at work, never for itself and never for one that
\* has ended.
LEMMA WaitsForLiving ==
  ASSUME GroupInv, LockInv, NEW r \in Requests, InFlight(r), ~CanGoOn(r)
  PROVE  \E q \in Requests : InFlight(q) /\ WaitsFor(r, q)
<1>1. TypeOK /\ Asks(r) /\ LocksTaken(r) BY DEF GroupInv, LockInv
<1>2. /\ Wanted(r) \in Entries \cup GroupIds
      /\ lock[Wanted(r)] \notin {r, None}
  <2>1. CASE pc[r] = "read"
    <3>1. Wanted(r) = input[r].entry BY <2>1 DEF Wanted
    <3>2. input[r].entry \in Entries BY <1>1, <2>1, InputKinds DEF Asks
    <3>3. HoldsNothing(r) BY <1>1, <2>1 DEF LocksTaken
    <3> QED BY <2>1, <3>1, <3>2, <3>3 DEF HoldsNothing, CanGoOn
  <2>2. CASE pc[r] = "group"
    <3>1. Wanted(r) = input[r].group BY <2>2 DEF Wanted
    <3>2. input[r].group \in GroupIds BY <1>1, <2>2 DEF Asks
    <3>3. lock[input[r].group] # r
      BY <1>1, <2>2, <3>2 DEF LocksTaken, HoldsNothing
    <3> QED BY <2>2, <3>1, <3>2, <3>3 DEF CanGoOn
  <2>3. CASE pc[r] \in {"members", "direct"}
    <3>1. seen[r].todo # {} /\ lock[NextRow(r)] \notin {r, None} BY <2>3 DEF CanGoOn
    <3>2. Wanted(r) = NextRow(r) BY <2>3, <3>1 DEF Wanted
    <3>3. NextRow(r) \in Entries BY <1>1, <3>1, NextRowType DEF TypeOK
    <3> QED BY <3>1, <3>2, <3>3
  <2>4. CASE pc[r] = "ready" BY <1>1, <2>4, InputKinds DEF Asks, Working, CanGoOn
  <2> QED BY <1>1, <2>1, <2>2, <2>3, <2>4 DEF TypeOK, InFlight, CanGoOn
<1>3. PICK q \in Requests : q = lock[Wanted(r)] BY <1>1, <1>2 DEF TypeOK
<1>4. InFlight(q) BY <1>2, <1>3, LivingHold, NamesAssumption DEF LockedByLiving
<1>5. Wanted(r) # None BY <1>2, NamesAssumption
<1> QED BY <1>2, <1>3, <1>4, <1>5 DEF WaitsFor

\* Some cycle of waiting transactions is one the detector finds, as BreakDeadlock asks.
Breakable(S) == Deadlocked(S) /\ \A T \in SUBSET S : Deadlocked(T) => T = S

FiniteRequests == IsFiniteSet(Requests)

LEMMA SmallestDeadlock ==
  ASSUME FiniteRequests, NEW S \in SUBSET Requests, Deadlocked(S)
  PROVE  \E T \in SUBSET S : Breakable(T)
<1> DEFINE F == {T \in SUBSET S : Deadlocked(T)}
<1>1. IsFiniteSet(S) BY FS_Subset DEF FiniteRequests
<1>2. F \subseteq FiniteSubsetsOf(S) /\ F # {} BY <1>1, FS_Subset DEF FiniteSubsetsOf
<1>3. PICK T \in F : \A U \in F : ~ (<<U, T>> \in StrictSubsetOrdering(S))
  <2> HIDE DEF F
  <2> QED BY <1>1, <1>2, FS_StrictSubsetOrderingWellFounded, WFMin
<1>4. ASSUME NEW U \in SUBSET T, Deadlocked(U) PROVE U = T
  <2>1. U \in F /\ <<U, T>> \in (SUBSET S) \X (SUBSET S) BY <1>4
  <2> QED BY <1>3, <2>1 DEF StrictSubsetOrdering
<1> QED BY <1>3, <1>4 DEF Breakable

\* Nobody waits for ever on a lock nobody will give back: while a request is at work,
\* one of them can go on, or all of them wait for one another and the detector has a
\* cycle to break.
NeverStuck ==
  (\E r \in Requests : InFlight(r)) =>
    \/ \E r \in Requests : InFlight(r) /\ CanGoOn(r)
    \/ \E S \in SUBSET Requests : Breakable(S)

THEOREM SomebodyGoesOn == FiniteRequests /\ Spec => []NeverStuck
<1>1. GroupInv /\ LockInv /\ FiniteRequests => NeverStuck
  <2> SUFFICES ASSUME GroupInv, LockInv, FiniteRequests, NEW r \in Requests, InFlight(r),
                      \A q \in Requests : InFlight(q) => ~CanGoOn(q)
               PROVE  \E S \in SUBSET Requests : Breakable(S)
    BY DEF NeverStuck
  <2> DEFINE S == {q \in Requests : InFlight(q)}
  <2>1. \A q \in S : \E p \in S : WaitsFor(q, p) BY WaitsForLiving
  <2>2. Deadlocked(S) BY <2>1 DEF Deadlocked
  <2> HIDE DEF S
  <2>3. S \in SUBSET Requests BY DEF S
  <2>4. PICK T \in SUBSET S : Breakable(T) BY <2>2, <2>3, SmallestDeadlock
  <2> QED BY <2>3, <2>4
<1>2. FiniteRequests => []FiniteRequests
  <2>1. FiniteRequests => FiniteRequests' BY DEF FiniteRequests
  <2> QED BY <2>1, PTL
<1> QED BY <1>1, <1>2, GroupInvAlways, LockInvAlways, PTL

=============================================================================
