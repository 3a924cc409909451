------------------------- MODULE RemunerationProofs -------------------------
(***************************************************************************)
(* Theorems about Remuneration for every number of instances, requests,    *)
(* accounts and days, every window, and with outages or without:           *)
(*                                                                         *)
(*   TypeCorrect       Spec => []TypeOK                                    *)
(*   NoGaps            Spec => []RatesWithoutGaps                          *)
(*   NothingTwice      Spec => []WritesNothingTwice                        *)
(*   EarlyOnRequest    Spec => OnlyRequestsSettleEarly                     *)
(***************************************************************************)
EXTENDS Remuneration, WellFoundedInduction, TLAPS

-----------------------------------------------------------------------------
(* The inductive invariant.                                                *)

Pairs == Accounts \X Days

Steps == {"idle", "import", "fetch", "process", "write", "done"}

Tasks == [on : Days, asked : Days, from : 0 .. Horizon + 1, found : SUBSET Pairs]

TypeOK ==
    /\ day \in Window .. Horizon
    /\ published \subseteq 0 .. day
    /\ rates \subseteq published /\ 0 \in rates
    /\ config \in [Accounts -> [enabled : BOOLEAN, startsOn : Starts]]
    /\ settled \subseteq Pairs
    /\ lock \in [Locks -> Processes \cup {None}]
    /\ pc \in [Processes -> Steps]
    /\ task \in [Processes -> Tasks]
    /\ completed \in [Schedulers -> Days \cup {Never}]

\* Below a rate that is stored no published one is missing.
FilledBelow == \A d \in published, f \in rates : d < f => d \in rates

\* What a processing finds: days whose rate is stored and which are before its date.
Earned(found, on) == \A pair \in found : pair[2] \in rates /\ pair[2] < on

\* The date of an instance's cycle is a day that has come; an administrator's may be
\* any.
Dated(p) == p \in Schedulers => task[p].on <= day

\* What process p relies on: its import starts right after a rate that is stored,
\* and while it writes it holds the lock, so that what it found has no result yet.
Holds(p) ==
    /\ Dated(p)
    /\ pc[p] \in {"import", "fetch"} => task[p].from - 1 \in rates
    /\ pc[p] = "write" => /\ lock["process"] = p
                          /\ task[p].found \cap settled = {}
                          /\ Earned(task[p].found, task[p].on)

RemunerationInv ==
    /\ TypeOK
    /\ FilledBelow
    /\ \A p \in Processes : Holds(p)

-----------------------------------------------------------------------------
(* The greatest of a set of days.                                          *)

LEMMA MaxIsGreatest ==
    ASSUME NEW S \in SUBSET Days, S # {}
    PROVE  Max(S) \in S /\ \A d \in S : d <= Max(S)
<1>1. Horizon \in Nat BY RemunerationAssumption
<1> DEFINE less == OpToRel(<, Nat)
           T    == {Horizon - d : d \in S}
<1>2. T \subseteq Nat /\ T # {}
  <2>1. T \subseteq Nat BY <1>1 DEF Days
  <2>2. PICK d \in S : TRUE OBVIOUS
  <2>3. Horizon - d \in T OBVIOUS
  <2> QED BY <2>1, <2>3
<1>3. PICK t \in T : \A u \in T : ~(u < t)
  <2> HIDE DEF T
  <2>1. IsWellFoundedOn(less, Nat) BY NatLessThanWellFounded, Zenon
  <2>2. PICK t \in T : \A u \in T : <<u, t>> \notin less BY <1>2, <2>1, WFMin, Zenon
  <2>3. \A u \in T : u < t => <<u, t>> \in less BY <1>2, Zenon DEF OpToRel
  <2> QED BY <2>2, <2>3, Zenon
<1>4. PICK m \in S : t = Horizon - m OBVIOUS
<1>5. \A d \in S : m >= d
  <2> SUFFICES ASSUME NEW d \in S PROVE m >= d OBVIOUS
  <2>1. Horizon - d \in T OBVIOUS
  <2>2. ~(Horizon - d < Horizon - m) BY <1>3, <1>4, <2>1
  <2> QED BY <1>1, <2>2 DEF Days
<1>7. Max(S) \in S /\ \A d \in S : Max(S) >= d BY <1>5 DEF Max
<1> QED BY <1>7, <1>1 DEF Days
-----------------------------------------------------------------------------
(* What the parts of the actions do to the types and to the other          *)
(* processes.                                                              *)

LEMMA NeverNone == \A p \in Processes : p # None
BY RemunerationAssumption

\* The first day an import asks for, and the one it starts at.
LEMMA AskedIsDay ==
    ASSUME TypeOK
    PROVE  Asked \in Days
<1>1. {0, day - Window} \in SUBSET Days BY RemunerationAssumption DEF TypeOK, Days
<1>2. Max({0, day - Window}) \in {0, day - Window} BY <1>1, MaxIsGreatest
<1> QED BY <1>1, <1>2 DEF Asked

LEMMA ImportFollowsRate ==
    ASSUME TypeOK, NEW asked
    PROVE  ImportFrom(asked) \in 0 .. Horizon + 1 /\ ImportFrom(asked) - 1 \in rates
<1>1. rates \in SUBSET Days /\ rates # {} BY RemunerationAssumption DEF TypeOK, Days
<1>2. PICK latest : latest = Max(rates) OBVIOUS
<1>3. latest \in rates BY <1>1, <1>2, MaxIsGreatest
<1>4. latest \in Days BY <1>1, <1>3
<1>5. ImportFrom(asked) = latest + 1 BY <1>1, <1>2 DEF ImportFrom
<1> QED BY <1>3, <1>4, <1>5, RemunerationAssumption DEF Days

\* A process gives up its locks only, and all of them.
LEMMA ReleaseKeeps ==
    ASSUME TypeOK, NEW p \in Processes, Release(p)
    PROVE  /\ lock' \in [Locks -> Processes \cup {None}]
           /\ \A q \in Processes \ {p} : lock["process"] = q => lock'["process"] = q
BY NeverNone DEF TypeOK, Release, Locks

LEMMA IdleIsTask == Idle \in Tasks /\ Idle.on = 0
BY RemunerationAssumption DEF Idle, Tasks, Days, Pairs

\* The step of a process that changes no table: what it relies on must hold of its
\* next step, and the others keep what they rely on.
LEMMA OwnStep ==
    ASSUME RemunerationInv, NEW p \in Processes,
           UNCHANGED <<day, published, rates, config, settled>>,
           pc' \in [Processes -> Steps],
           task' \in [Processes -> Tasks],
           lock' \in [Locks -> Processes \cup {None}],
           completed' \in [Schedulers -> Days \cup {Never}],
           \A q \in Processes \ {p} : /\ pc'[q] = pc[q] /\ task'[q] = task[q]
                                      /\ lock["process"] = q => lock'["process"] = q,
           Holds(p)'
    PROVE  RemunerationInv'
<1>1. TypeOK' BY DEF RemunerationInv, TypeOK
<1>2. FilledBelow' BY DEF RemunerationInv, FilledBelow
<1>4. ASSUME NEW q \in Processes PROVE Holds(q)'
  <2>1. CASE q = p BY <2>1
  <2>2. CASE q # p
    <3>1. Holds(q) BY DEF RemunerationInv
    <3>2. pc'[q] = pc[q] /\ task'[q] = task[q] BY <2>2
    <3>3. lock["process"] = q => lock'["process"] = q BY <2>2
    <3> QED BY <3>1, <3>2, <3>3 DEF Holds, Dated, Earned
  <2> QED BY <2>1, <2>2
<1> QED BY <1>1, <1>2, <1>4 DEF RemunerationInv

\* The end of an operation leaves its process with nothing to rely on.
LEMMA EndsRow ==
    ASSUME TypeOK, NEW p \in Processes, Ends(p)
    PROVE  /\ pc' \in [Processes -> Steps]
           /\ task' \in [Processes -> Tasks]
           /\ pc'[p] \in {"idle", "done"}
           /\ task'[p].on = 0
           /\ \A q \in Processes \ {p} : pc'[q] = pc[q] /\ task'[q] = task[q]
<1>1. PICK next \in {"idle", "done"} : pc' = [pc EXCEPT ![p] = next] BY DEF Ends
<1>2. pc \in [Processes -> Steps] /\ task \in [Processes -> Tasks] BY DEF TypeOK
<1>3. task' = [task EXCEPT ![p] = Idle] BY DEF Ends
<1>4. next \in Steps BY DEF Steps
<1> QED BY <1>1, <1>2, <1>3, <1>4, IdleIsTask

LEMMA AfterImportRow ==
    ASSUME TypeOK, NEW p \in Processes, AfterImport(p), Dated(p), UNCHANGED day
    PROVE  /\ pc' \in [Processes -> Steps]
           /\ task' \in [Processes -> Tasks]
           /\ pc'[p] \in {"idle", "done", "process"}
           /\ Dated(p)'
           /\ \A q \in Processes \ {p} : pc'[q] = pc[q] /\ task'[q] = task[q]
<1>1. CASE p \in Schedulers
  <2>1. PICK row : row = [Idle EXCEPT !.on = task[p].on] OBVIOUS
  <2>2. task[p] \in Tasks BY DEF TypeOK
  <2>3. row \in Tasks /\ row.on = task[p].on
    BY <2>1, <2>2, RemunerationAssumption DEF Idle, Tasks, Days, Pairs
  <2>4. pc' = [pc EXCEPT ![p] = "process"] BY <1>1 DEF AfterImport
  <2>5. task' = [task EXCEPT ![p] = row] BY <1>1, <2>1 DEF AfterImport
  <2> QED BY <2>3, <2>4, <2>5 DEF TypeOK, Steps, Dated
<1>2. CASE p \notin Schedulers
  <2>1. Ends(p) BY <1>2 DEF AfterImport
  <2> QED BY <1>2, <2>1, EndsRow DEF Dated
<1> QED BY <1>1, <1>2

-----------------------------------------------------------------------------
(* The actions.                                                            *)

LEMMA InitEstablishes == Init => RemunerationInv
<1> SUFFICES ASSUME Init PROVE RemunerationInv OBVIOUS
<1>1. Window \in Nat /\ Horizon \in Nat /\ Window <= Horizon /\ Window > 0
  BY RemunerationAssumption
<1>2. TypeOK
  <2>1. day \in Window .. Horizon /\ published \subseteq 0 .. day BY <1>1 DEF Init
  <2>2. rates \subseteq published /\ 0 \in rates /\ settled \subseteq Pairs BY DEF Init
  <2>3. pc \in [Processes -> Steps] BY DEF Init, Steps
  <2>4. task \in [Processes -> Tasks] BY IdleIsTask DEF Init
  <2>5. lock \in [Locks -> Processes \cup {None}] BY DEF Init
  <2>6. completed \in [Schedulers -> Days \cup {Never}] BY DEF Init
  <2>7. config \in [Accounts -> [enabled : BOOLEAN, startsOn : Starts]] BY DEF Init
  <2> QED BY <2>1, <2>2, <2>3, <2>4, <2>5, <2>6, <2>7 DEF TypeOK
<1>3. FilledBelow BY DEF Init, FilledBelow
<1>5. ASSUME NEW p \in Processes PROVE Holds(p)
  BY <1>1, IdleIsTask DEF Init, Holds, Dated
<1> QED BY <1>2, <1>3, <1>5 DEF RemunerationInv

\* Failing, by whatever cause, and the death of an instance.
LEMMA FailedKeeps ==
    ASSUME RemunerationInv, NEW p \in Processes, Failed(p)
    PROVE  RemunerationInv'
<1>1. TypeOK BY DEF RemunerationInv
<1>2. Release(p) /\ Ends(p) /\ UNCHANGED <<day, published, rates, config, settled, completed>>
  BY DEF Failed
<1>3. Dated(p)' BY <1>1, <1>2, EndsRow, RemunerationAssumption DEF TypeOK, Dated
<1>4. Holds(p)' BY <1>1, <1>2, <1>3, EndsRow DEF Holds
<1>5. completed' \in [Schedulers -> Days \cup {Never}] BY <1>1, <1>2 DEF TypeOK
<1>6. pc' \in [Processes -> Steps] /\ task' \in [Processes -> Tasks] BY <1>1, <1>2, EndsRow
<1>7. \A q \in Processes \ {p} : pc'[q] = pc[q] /\ task'[q] = task[q] BY <1>1, <1>2, EndsRow
<1>8. lock' \in [Locks -> Processes \cup {None}] BY <1>1, <1>2, ReleaseKeeps
<1>9. \A q \in Processes \ {p} : lock["process"] = q => lock'["process"] = q
  BY <1>1, <1>2, ReleaseKeeps
<1> QED BY <1>2, <1>4, <1>5, <1>6, <1>7, <1>8, <1>9, OwnStep

LEMMA RestartKeeps ==
    ASSUME RemunerationInv, NEW p \in Processes, Restart(p)
    PROVE  RemunerationInv'
<1>1. TypeOK BY DEF RemunerationInv
<1>2. Release(p) /\ Ends(p) /\ UNCHANGED <<day, published, rates, config, settled>>
  BY DEF Restart
<1>3. Dated(p)' BY <1>1, <1>2, EndsRow, RemunerationAssumption DEF TypeOK, Dated
<1>4. Holds(p)' BY <1>1, <1>2, <1>3, EndsRow DEF Holds
<1>5. completed' \in [Schedulers -> Days \cup {Never}] BY <1>1 DEF TypeOK, Restart
<1>6. pc' \in [Processes -> Steps] /\ task' \in [Processes -> Tasks] BY <1>1, <1>2, EndsRow
<1>7. \A q \in Processes \ {p} : pc'[q] = pc[q] /\ task'[q] = task[q] BY <1>1, <1>2, EndsRow
<1>8. lock' \in [Locks -> Processes \cup {None}] BY <1>1, <1>2, ReleaseKeeps
<1>9. \A q \in Processes \ {p} : lock["process"] = q => lock'["process"] = q
  BY <1>1, <1>2, ReleaseKeeps
<1> QED BY <1>2, <1>4, <1>5, <1>6, <1>7, <1>8, <1>9, OwnStep

\* The start of an import: it will begin right after the latest rate.
LEMMA ReadLatestKeeps ==
    ASSUME RemunerationInv, NEW p \in Processes, NEW on \in Days, NEW asked \in Days,
           ReadLatest(p, on, asked), p \in Schedulers => on <= day
    PROVE  RemunerationInv'
<1>1. TypeOK BY DEF RemunerationInv
<1>2. PICK from : from = ImportFrom(asked) OBVIOUS
<1>3. from \in 0 .. Horizon + 1 /\ from - 1 \in rates BY <1>1, <1>2, ImportFollowsRate
<1>4. PICK row : row = [on |-> on, asked |-> asked, from |-> from, found |-> {}] OBVIOUS
<1>6. row \in Tasks BY <1>3, <1>4 DEF Tasks
<1>7. pc' = [pc EXCEPT ![p] = "import"] /\ task' = [task EXCEPT ![p] = row]
  BY <1>2, <1>4 DEF ReadLatest
<1>8. UNCHANGED <<day, published, rates, config, settled, lock, completed>> BY DEF ReadLatest
<1>9. pc' \in [Processes -> Steps] /\ task' \in [Processes -> Tasks]
  BY <1>1, <1>6, <1>7 DEF TypeOK, Steps
<1>10. Holds(p)' BY <1>1, <1>3, <1>4, <1>7, <1>8 DEF TypeOK, Holds, Dated
<1>11. lock' \in [Locks -> Processes \cup {None}] /\ completed' \in [Schedulers -> Days \cup {Never}]
  BY <1>1, <1>8 DEF TypeOK
<1>12. \A q \in Processes \ {p} : /\ pc'[q] = pc[q] /\ task'[q] = task[q]
                                  /\ lock["process"] = q => lock'["process"] = q
  BY <1>1, <1>7, <1>8 DEF TypeOK
<1> QED BY <1>8, <1>9, <1>10, <1>11, <1>12, OwnStep

LEMMA StartCycleKeeps ==
    ASSUME RemunerationInv, NEW p \in Processes, StartCycle(p)
    PROVE  RemunerationInv'
<1>1. TypeOK /\ p \in Schedulers /\ ReadLatest(p, day, Asked) BY DEF StartCycle, RemunerationInv
<1>2. day \in Days /\ day <= day BY <1>1, RemunerationAssumption DEF TypeOK, Days
<1> QED BY <1>1, <1>2, AskedIsDay, ReadLatestKeeps

LEMMA AdminImportKeeps ==
    ASSUME RemunerationInv, NEW p \in Processes, AdminImport(p)
    PROVE  RemunerationInv'
<1>1. PICK asked \in Dates, until \in Dates : ReadLatest(p, until, asked) BY DEF AdminImport
<1>2. asked \in Days /\ until \in Days /\ p \notin Schedulers
  BY RemunerationAssumption DEF AdminImport
<1> QED BY <1>1, <1>2, ReadLatestKeeps

LEMMA AdminProcessKeeps ==
    ASSUME RemunerationInv, NEW p \in Processes, AdminProcess(p)
    PROVE  RemunerationInv'
<1>1. TypeOK BY DEF RemunerationInv
<1>2. PICK on \in Dates : task' = [task EXCEPT ![p].on = on] BY DEF AdminProcess
<1>3. PICK row : row = [task[p] EXCEPT !.on = on] OBVIOUS
<1>4. task[p] \in Tasks /\ on \in Days /\ p \notin Schedulers
  BY <1>1, RemunerationAssumption DEF TypeOK, AdminProcess
<1>5. row \in Tasks BY <1>3, <1>4 DEF Tasks
<1>6. task' = [task EXCEPT ![p] = row] BY <1>2, <1>3
<1>7. pc' = [pc EXCEPT ![p] = "process"] BY DEF AdminProcess
<1>8. UNCHANGED <<day, published, rates, config, settled, lock, completed>> BY DEF AdminProcess
<1>9. pc' \in [Processes -> Steps] /\ task' \in [Processes -> Tasks]
  BY <1>1, <1>5, <1>6, <1>7 DEF TypeOK, Steps
<1>10. Holds(p)' BY <1>1, <1>4, <1>7 DEF TypeOK, Holds, Dated
<1>11. lock' \in [Locks -> Processes \cup {None}] /\ completed' \in [Schedulers -> Days \cup {Never}]
  BY <1>1, <1>8 DEF TypeOK
<1>12. \A q \in Processes \ {p} : /\ pc'[q] = pc[q] /\ task'[q] = task[q]
                                  /\ lock["process"] = q => lock'["process"] = q
  BY <1>1, <1>6, <1>7, <1>8 DEF TypeOK
<1> QED BY <1>8, <1>9, <1>10, <1>11, <1>12, OwnStep

LEMMA UpToDateKeeps ==
    ASSUME RemunerationInv, NEW p \in Processes, UpToDate(p)
    PROVE  RemunerationInv'
<1>1. TypeOK /\ Holds(p) BY DEF RemunerationInv
<1>2. AfterImport(p) /\ UNCHANGED <<day, published, rates, config, settled, lock, completed>>
  BY DEF UpToDate
<1>3. Dated(p) BY <1>1 DEF Holds
<1>4. pc' \in [Processes -> Steps] /\ task' \in [Processes -> Tasks]
  BY <1>1, <1>2, <1>3, AfterImportRow
<1>5. pc'[p] \in {"idle", "done", "process"} /\ Dated(p)'
  BY <1>1, <1>2, <1>3, AfterImportRow
<1>6. \A q \in Processes \ {p} : pc'[q] = pc[q] /\ task'[q] = task[q]
  BY <1>1, <1>2, <1>3, AfterImportRow
<1>7. Holds(p)' BY <1>2, <1>5 DEF Holds
<1>8. lock' \in [Locks -> Processes \cup {None}] /\ completed' \in [Schedulers -> Days \cup {Never}]
  BY <1>1, <1>2 DEF TypeOK
<1>9. \A q \in Processes \ {p} : lock["process"] = q => lock'["process"] = q BY <1>2
<1> QED BY <1>2, <1>4, <1>6, <1>7, <1>8, <1>9, OwnStep

LEMMA AskProviderKeeps ==
    ASSUME RemunerationInv, NEW p \in Processes, AskProvider(p)
    PROVE  RemunerationInv'
<1>1. TypeOK /\ Holds(p) BY DEF RemunerationInv
<1>2. UNCHANGED <<day, published, rates, config, settled, task, completed>> BY DEF AskProvider
<1>3. lock' = [lock EXCEPT !["import"] = p] /\ pc' = [pc EXCEPT ![p] = "fetch"]
  BY DEF AskProvider
<1>4. pc' \in [Processes -> Steps] /\ task' \in [Processes -> Tasks]
  BY <1>1, <1>2, <1>3 DEF TypeOK, Steps
<1>5. Holds(p)' BY <1>1, <1>2, <1>3 DEF TypeOK, Holds, Dated, AskProvider
<1>6. lock' \in [Locks -> Processes \cup {None}] /\ completed' \in [Schedulers -> Days \cup {Never}]
  BY <1>1, <1>2, <1>3 DEF TypeOK
<1>7. \A q \in Processes \ {p} : /\ pc'[q] = pc[q] /\ task'[q] = task[q]
                                 /\ lock["process"] = q => lock'["process"] = q
  BY <1>1, <1>2, <1>3 DEF TypeOK, Locks
<1> QED BY <1>2, <1>4, <1>5, <1>6, <1>7, OwnStep

\* Storing leaves no gap: what lies between the rate before the import and the day it
\* was asked on is all stored, what lies below that rate was already.
LEMMA StoreRatesKeeps ==
    ASSUME RemunerationInv, NEW p \in Processes, StoreRates(p)
    PROVE  RemunerationInv'
<1>1. TypeOK /\ Holds(p) BY DEF RemunerationInv
<1>2. /\ pc[p] = "fetch" /\ rates' = rates \cup Received(p) /\ Release(p) /\ AfterImport(p)
      /\ UNCHANGED <<day, published, config, settled, completed>>
  BY DEF StoreRates
<1>3. PICK from : from = task[p].from OBVIOUS
<1>4. PICK on : on = task[p].on OBVIOUS
<1>5. Received(p) = published \cap (from .. on) BY <1>3, <1>4 DEF Received
<1>6. /\ from \in 0 .. Horizon + 1 /\ on \in Days /\ Dated(p)
      /\ from - 1 \in rates
  BY <1>1, <1>2, <1>3, <1>4 DEF TypeOK, Tasks, Holds
<1>7. day \in Int /\ published \subseteq Int /\ rates \subseteq Int
  BY <1>1, RemunerationAssumption DEF TypeOK
<1>8. /\ pc' \in [Processes -> Steps] /\ task' \in [Processes -> Tasks]
      /\ pc'[p] \in {"idle", "done", "process"}
      /\ Dated(p)'
      /\ \A q \in Processes \ {p} : pc'[q] = pc[q] /\ task'[q] = task[q]
  BY <1>1, <1>2, <1>4, <1>6, AfterImportRow
<1>9. TypeOK'
  <2>1. rates' \subseteq published' /\ 0 \in rates' BY <1>1, <1>2, <1>5 DEF TypeOK
  <2>2. lock' \in [Locks -> Processes \cup {None}] BY <1>1, <1>2, ReleaseKeeps
  <2> QED BY <1>1, <1>2, <1>8, <2>1, <2>2 DEF TypeOK
<1>10. FilledBelow'
  <2> SUFFICES ASSUME NEW d \in published, NEW f \in rates \cup Received(p), d < f
               PROVE  d \in rates \cup Received(p)
    BY <1>2 DEF FilledBelow
  <2>1. FilledBelow BY DEF RemunerationInv
  <2>2. CASE f \in rates BY <2>1, <2>2 DEF FilledBelow
  <2>3. CASE f \in Received(p) /\ d >= from BY <1>5, <1>6, <1>7, <2>3 DEF Days
  <2>4. CASE d = from - 1 BY <1>6, <2>4
  <2>5. CASE d < from - 1 BY <1>6, <2>1, <2>5 DEF FilledBelow
  <2> QED BY <1>6, <1>7, <2>2, <2>3, <2>4, <2>5
<1>12. ASSUME NEW q \in Processes PROVE Holds(q)'
  <2>1. CASE q = p BY <1>2, <1>8, <2>1 DEF Holds
  <2>2. CASE q # p
    <3>1. Holds(q) BY DEF RemunerationInv
    <3>2. pc'[q] = pc[q] /\ task'[q] = task[q] BY <1>8, <2>2
    <3>3. lock["process"] = q => lock'["process"] = q BY <1>1, <1>2, <2>2, ReleaseKeeps
    <3> QED BY <1>2, <3>1, <3>2, <3>3 DEF Holds, Dated, Earned
  <2> QED BY <2>1, <2>2
<1> QED BY <1>9, <1>10, <1>12 DEF RemunerationInv

\* A processing finds pairs without a result, of days that are over, and takes the
\* lock under which it will write them.
LEMMA ListPendingKeeps ==
    ASSUME RemunerationInv, NEW p \in Processes, ListPending(p)
    PROVE  RemunerationInv'
<1>1. TypeOK /\ Holds(p) BY DEF RemunerationInv
<1>2. UNCHANGED <<day, published, rates, config, settled, completed>> BY DEF ListPending
<1>3. lock["process"] = None /\ lock' = [lock EXCEPT !["process"] = p] BY DEF ListPending
<1>4. pc' = [pc EXCEPT ![p] = "write"] BY DEF ListPending
<1>5. PICK found : found = AllPending(task[p].on) OBVIOUS
<1>6. PICK row : row = [task[p] EXCEPT !.found = found] OBVIOUS
<1>7. task' = [task EXCEPT ![p] = row] BY <1>5, <1>6 DEF ListPending
<1>8. task[p] \in Tasks /\ Dated(p) BY <1>1 DEF TypeOK, Holds
<1>9. found \subseteq Pairs /\ found \cap settled = {} /\ Earned(found, task[p].on)
  <2>1. found \subseteq Pairs BY <1>5 DEF AllPending, Pairs
  <2>2. ASSUME NEW pair \in found
        PROVE  pair \notin settled /\ pair[2] \in rates /\ pair[2] < task[p].on
    <3>1. PICK a \in Accounts, d \in Days : pair = <<a, d>> BY <2>1 DEF Pairs
    <3>2. pair[1] = a /\ pair[2] = d BY <3>1
    <3>3. d \in Pending(a, task[p].on) BY <1>5, <3>2 DEF AllPending
    <3>4. d \in rates /\ d < task[p].on /\ <<a, d>> \notin settled BY <3>3 DEF Pending
    <3> QED BY <3>1, <3>2, <3>4
  <2> QED BY <2>1, <2>2 DEF Earned
<1>10. row \in Tasks /\ row.found = found /\ row.on = task[p].on
  BY <1>6, <1>8, <1>9 DEF Tasks
<1>11. pc' \in [Processes -> Steps] /\ task' \in [Processes -> Tasks]
  BY <1>1, <1>4, <1>7, <1>10 DEF TypeOK, Steps
<1>12. lock' \in [Locks -> Processes \cup {None}] /\ completed' \in [Schedulers -> Days \cup {Never}]
  BY <1>1, <1>2, <1>3 DEF TypeOK
<1>13. Holds(p)'
  <2>1. pc'[p] = "write" /\ task'[p] = row BY <1>1, <1>4, <1>7 DEF TypeOK
  <2>2. lock'["process"] = p BY <1>1, <1>3 DEF TypeOK, Locks
  <2>3. task'[p].found = found /\ task'[p].on = task[p].on BY <1>10, <2>1
  <2>4. Dated(p)' /\ task'[p].found \cap settled' = {} BY <1>2, <1>8, <1>9, <2>3 DEF Dated
  <2>5. Earned(task[p].found, task[p].on)' BY <1>2, <1>9, <2>3 DEF Earned
  <2> QED BY <2>1, <2>2, <2>4, <2>5 DEF Holds
<1>14. \A q \in Processes \ {p} : /\ pc'[q] = pc[q] /\ task'[q] = task[q]
                                  /\ lock["process"] = q => lock'["process"] = q
  BY <1>1, <1>3, <1>4, <1>7, NeverNone DEF TypeOK
<1> QED BY <1>2, <1>11, <1>12, <1>13, <1>14, OwnStep

\* A processing writes with the lock: no other one is about to write.
LEMMA WriteResultsKeeps ==
    ASSUME RemunerationInv, NEW p \in Processes, WriteResults(p)
    PROVE  RemunerationInv'
<1>1. TypeOK /\ Holds(p) BY DEF RemunerationInv
<1>2. /\ pc[p] = "write" /\ settled' = settled \cup task[p].found /\ Release(p) /\ Ends(p)
      /\ UNCHANGED <<day, published, rates, config>>
  BY DEF WriteResults
<1>3. /\ pc' \in [Processes -> Steps] /\ task' \in [Processes -> Tasks]
      /\ pc'[p] \in {"idle", "done"} /\ task'[p].on = 0
      /\ \A q \in Processes \ {p} : pc'[q] = pc[q] /\ task'[q] = task[q]
  BY <1>1, <1>2, EndsRow
<1>4. lock' \in [Locks -> Processes \cup {None}] BY <1>1, <1>2, ReleaseKeeps
<1>5. task[p] \in Tasks BY <1>1 DEF TypeOK
<1>6. task[p].found \subseteq Pairs /\ task[p].on \in Days BY <1>5 DEF Tasks
<1>7. completed' \in [Schedulers -> Days \cup {Never}] BY <1>1, <1>6 DEF TypeOK, WriteResults
<1>8. TypeOK' BY <1>1, <1>2, <1>3, <1>4, <1>6, <1>7 DEF TypeOK
<1>9. FilledBelow' BY <1>2 DEF RemunerationInv, FilledBelow
<1>11. ASSUME NEW q \in Processes PROVE Holds(q)'
  <2>1. CASE q = p BY <1>1, <1>2, <1>3, <2>1, RemunerationAssumption DEF TypeOK, Holds, Dated
  <2>2. CASE q # p
    <3>1. Holds(q) BY DEF RemunerationInv
    <3>2. lock["process"] = p BY <1>1, <1>2 DEF Holds
    <3>3. pc'[q] = pc[q] /\ task'[q] = task[q] BY <1>3, <2>2
    <3>4. pc'[q] # "write" BY <2>2, <3>1, <3>2, <3>3 DEF Holds
    <3> QED BY <1>2, <3>1, <3>3, <3>4 DEF Holds, Dated
  <2> QED BY <2>1, <2>2
<1> QED BY <1>8, <1>9, <1>11 DEF RemunerationInv

\* A rate is published above the others, hence above every stored one.
LEMMA PublishKeeps == RemunerationInv /\ Publish => RemunerationInv'
<1> SUFFICES ASSUME RemunerationInv, Publish PROVE RemunerationInv' OBVIOUS
<1>1. TypeOK BY DEF RemunerationInv
<1>2. UNCHANGED <<day, rates, config, settled, lock, pc, task, completed>> BY DEF Publish
<1>3. PICK latest : latest = Max(published) OBVIOUS
<1>4. PICK d \in {day - 1, day} : d > latest /\ published' = published \cup {d}
  BY <1>3 DEF Publish
<1>5. published \in SUBSET Days /\ published # {} /\ day \in Days
  BY <1>1, RemunerationAssumption DEF TypeOK, Days
<1>6. latest \in published /\ \A e \in published : e <= latest BY <1>3, <1>5, MaxIsGreatest
<1>7. d \in 0 .. day BY <1>4, <1>5, <1>6 DEF Days
<1>8. TypeOK' BY <1>1, <1>2, <1>4, <1>7 DEF TypeOK
<1>9. FilledBelow'
  <2> SUFFICES ASSUME NEW e \in published \cup {d}, NEW f \in rates, e < f
               PROVE  e \in rates
    BY <1>2, <1>4 DEF FilledBelow
  <2>1. f \in published /\ f <= latest BY <1>1, <1>6 DEF TypeOK
  <2>2. e # d BY <1>4, <1>5, <1>6, <1>7, <2>1 DEF Days
  <2> QED BY <2>2 DEF RemunerationInv, FilledBelow
<1>11. \A p \in Processes : Holds(p)' BY <1>2 DEF RemunerationInv, Holds, Dated, Earned
<1> QED BY <1>8, <1>9, <1>11 DEF RemunerationInv

LEMMA ConfigureKeeps ==
    ASSUME RemunerationInv, NEW a \in Accounts, Configure(a)
    PROVE  RemunerationInv'
<1>1. TypeOK BY DEF RemunerationInv
<1>2. UNCHANGED <<day, published, rates, settled, lock, pc, task, completed>> BY DEF Configure
<1>3. config' \in [Accounts -> [enabled : BOOLEAN, startsOn : Starts]]
  BY <1>1 DEF TypeOK, Configure
<1>4. TypeOK' BY <1>1, <1>2, <1>3 DEF TypeOK
<1>5. FilledBelow' BY <1>2 DEF RemunerationInv, FilledBelow
<1>6. \A p \in Processes : Holds(p)' BY <1>2 DEF RemunerationInv, Holds, Dated, Earned
<1> QED BY <1>4, <1>5, <1>6 DEF RemunerationInv

LEMMA TickKeeps == RemunerationInv /\ Tick => RemunerationInv'
<1> SUFFICES ASSUME RemunerationInv, Tick PROVE RemunerationInv' OBVIOUS
<1>1. TypeOK BY DEF RemunerationInv
<1>2. /\ day < Horizon /\ day' = day + 1
      /\ UNCHANGED <<published, rates, config, settled, lock, pc, task, completed>>
  BY DEF Tick
<1>3. day \in Int /\ published \subseteq 0 .. day + 1 /\ day + 1 \in Window .. Horizon
  BY <1>1, <1>2, RemunerationAssumption DEF TypeOK
<1>4. TypeOK' BY <1>1, <1>2, <1>3 DEF TypeOK
<1>5. FilledBelow' BY <1>2 DEF RemunerationInv, FilledBelow
<1>9. ASSUME NEW p \in Processes PROVE Holds(p)'
  <2>1. Holds(p) BY DEF RemunerationInv
  <2>2. task[p].on \in Int BY <1>1, RemunerationAssumption DEF TypeOK, Tasks, Days
  <2>3. Dated(p)' BY <1>2, <1>3, <2>1, <2>2 DEF Holds, Dated
  <2> QED BY <1>2, <2>1, <2>3 DEF Holds, Earned
<1> QED BY <1>4, <1>5, <1>9 DEF RemunerationInv

LEMMA NextKeeps == RemunerationInv /\ [Next]_vars => RemunerationInv'
<1> SUFFICES ASSUME RemunerationInv, [Next]_vars PROVE RemunerationInv' OBVIOUS
<1>1. ASSUME NEW p \in Processes, Cycle(p) PROVE RemunerationInv'
  <2>1. CASE StartCycle(p) BY <2>1, StartCycleKeeps
  <2>2. CASE ImportBusy(p) BY <2>2, FailedKeeps DEF ImportBusy
  <2>3. CASE UpToDate(p) BY <2>3, UpToDateKeeps
  <2>4. CASE AskProvider(p) BY <2>4, AskProviderKeeps
  <2>5. CASE StoreRates(p) BY <2>5, StoreRatesKeeps
  <2>6. CASE RefuseRates(p) BY <2>6, FailedKeeps DEF RefuseRates
  <2>7. CASE ProcessBusy(p) BY <2>7, FailedKeeps DEF ProcessBusy
  <2>8. CASE ListPending(p) BY <2>8, ListPendingKeeps
  <2>9. CASE WriteResults(p) BY <2>9, WriteResultsKeeps
  <2> QED BY <1>1, <2>1, <2>2, <2>3, <2>4, <2>5, <2>6, <2>7, <2>8, <2>9 DEF Cycle
<1>2. ASSUME NEW p \in Processes, AdminImport(p) PROVE RemunerationInv'
  BY <1>2, AdminImportKeeps
<1>3. ASSUME NEW p \in Processes, AdminProcess(p) PROVE RemunerationInv'
  BY <1>3, AdminProcessKeeps
<1>4. ASSUME NEW p \in Processes, Fail(p) PROVE RemunerationInv' BY <1>4, FailedKeeps DEF Fail
<1>5. ASSUME NEW p \in Processes, Restart(p) PROVE RemunerationInv' BY <1>5, RestartKeeps
<1>6. ASSUME NEW a \in Accounts, Configure(a) PROVE RemunerationInv' BY <1>6, ConfigureKeeps
<1>7. CASE Publish BY <1>7, PublishKeeps
<1>8. CASE Tick BY <1>8, TickKeeps
<1>9. CASE UNCHANGED vars
  BY <1>9 DEF vars, RemunerationInv, TypeOK, FilledBelow, Earned, Holds, Dated
<1> QED BY <1>1, <1>2, <1>3, <1>4, <1>5, <1>6, <1>7, <1>8, <1>9 DEF Next

LEMMA RemunerationInvAlways == Spec => []RemunerationInv
BY InitEstablishes, NextKeeps, PTL DEF Spec

-----------------------------------------------------------------------------
(* The theorems.                                                           *)

(* The state of the remuneration is well formed; in particular no rate is  *)
(* stored that the bank has not published, nor one of a day to come.       *)
THEOREM TypeCorrect == Spec => []TypeOK
<1>1. RemunerationInv => TypeOK BY DEF RemunerationInv
<1> QED BY <1>1, RemunerationInvAlways, PTL

(* Imports leave no gap (RatesWithoutGaps): whatever importCdiRates was    *)
(* asked for, it starts right after the latest rate it read, so no         *)
(* overlap, failure or late answer of the provider leaves a hole behind.   *)
THEOREM NoGaps == Spec => []RatesWithoutGaps
<1>1. RemunerationInv => RatesWithoutGaps
  BY DEF RemunerationInv, FilledBelow, RatesWithoutGaps
<1> QED BY <1>1, RemunerationInvAlways, PTL

(* No competence gets a second result (WritesNothingTwice): the advisory   *)
(* lock is held from the reading of the pending competences to the end of  *)
(* the transaction that writes them.                                       *)
THEOREM NothingTwice == Spec => []WritesNothingTwice
<1>1. RemunerationInv => WritesNothingTwice BY DEF RemunerationInv, Holds, WritesNothingTwice
<1> QED BY <1>1, RemunerationInvAlways, PTL

(* A result is of a day whose rate is stored, and of a day that is over    *)
(* unless an administrator asked for a processing dated after today:       *)
(* processAccountRemunerations compares days with the date it is given,    *)
(* and only the request's may be one to come.  A cycle of the scheduler    *)
(* settles nothing early, although it reads the clock once and may write   *)
(* days later.                                                             *)
OnlyRequestsSettleEarly ==
    [][\A pair \in settled' \ settled :
          /\ pair[2] \in rates
          /\ \/ pair[2] < day
             \/ \E m \in Admins : pc[m] = "write" /\ day < task[m].on]_vars

(* Only WriteResults adds results, and what it writes was found before the *)
(* date of its process.                                                    *)
LEMMA EarlyStep ==
    ASSUME RemunerationInv, Next, NEW pair \in settled' \ settled
    PROVE  /\ pair[2] \in rates
           /\ \/ pair[2] < day
              \/ \E m \in Admins : pc[m] = "write" /\ day < task[m].on
<1>1. PICK p \in Processes : WriteResults(p)
  BY DEF Next, Cycle, StartCycle, ReadLatest, ImportBusy, UpToDate, AskProvider, StoreRates,
         RefuseRates, ProcessBusy, ListPending, AdminImport, AdminProcess, Fail, Restart, Failed,
         Configure, Publish, Tick
<1>2. /\ TypeOK /\ Dated(p) /\ pc[p] = "write" /\ pair \in task[p].found
      /\ Earned(task[p].found, task[p].on)
  BY <1>1 DEF RemunerationInv, Holds, WriteResults
<1>3. pair[2] \in rates /\ pair[2] < task[p].on BY <1>2 DEF Earned
<1>4. pair[2] \in Int /\ day \in Int /\ task[p].on \in Int
  <2>1. Days \subseteq Int BY RemunerationAssumption DEF Days
  <2>2. rates \subseteq 0 .. day /\ day \in Window .. Horizon BY <1>2 DEF TypeOK
  <2>3. task[p] \in Tasks BY <1>2 DEF TypeOK
  <2>4. task[p].on \in Days BY <2>3 DEF Tasks
  <2>5. Window \in Int /\ Horizon \in Int BY RemunerationAssumption
  <2>6. day \in Int BY <2>2, <2>5
  <2>7. pair[2] \in 0 .. day BY <1>3, <2>2
  <2>8. task[p].on \in Int BY <2>1, <2>4
  <2>9. 0 .. day \subseteq Int BY <2>6
  <2>10. pair[2] \in Int BY <2>7, <2>9
  <2> QED BY <2>6, <2>8, <2>10
<1>5. CASE p \in Schedulers BY <1>2, <1>3, <1>4, <1>5 DEF Dated
<1>6. CASE p \in Admins BY <1>2, <1>3, <1>4, <1>6
<1> QED BY <1>5, <1>6 DEF Processes

(* The only results before the end of a day are those a request asked for. *)
THEOREM EarlyOnRequest == Spec => OnlyRequestsSettleEarly
<1>1. RemunerationInv /\ [Next]_vars =>
        [\A pair \in settled' \ settled :
            /\ pair[2] \in rates
            /\ \/ pair[2] < day
               \/ \E m \in Admins : pc[m] = "write" /\ day < task[m].on]_vars
  BY EarlyStep
<1> QED BY <1>1, RemunerationInvAlways, PTL DEF Spec, OnlyRequestsSettleEarly

=============================================================================
