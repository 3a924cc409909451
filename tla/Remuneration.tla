---------------------------- MODULE Remuneration ----------------------------
(***************************************************************************)
(* The daily remuneration of accounts at the CDI rate: the scheduler of    *)
(* account-remuneration-scheduler.ts, the administrator's two requests,    *)
(* and the operations they run (repositories/account-remuneration-service  *)
(* .ts inside account-remuneration-diagnostics-service.ts).                *)
(*                                                                         *)
(* An operation is one database transaction, with its advisory lock, its   *)
(* effects and its row in the log of operations, which the model leaves    *)
(* out; an operation that fails has no effect but that row.  An instance   *)
(* that dies loses the date of its last cycle.                             *)
(***************************************************************************)
EXTENDS Integers, FiniteSets, FiniteSetsExt

CONSTANTS
    Schedulers,    \* API instances that run the daily cycle
    Admins,        \* administrator's requests, one each
    Accounts,
    Horizon,       \* bound on the calendar
    Window,        \* DEFAULT_IMPORT_LOOKBACK_DAYS
    Starts,        \* first days of remuneration an account may be given
    Dates,         \* the dates an administrator may give in a request
    Outages        \* may days pass without an import until the window is left behind?

Days == 0 .. Horizon
Processes == Schedulers \cup Admins
Locks == {"import", "process"}
None == "none"
Never == -1       \* the instance has completed no day since it started

ASSUME RemunerationAssumption ==
    /\ Horizon \in Nat
    /\ Window \in 1 .. Horizon
    /\ Starts \subseteq Days
    /\ Dates \subseteq Days
    /\ Outages \in BOOLEAN
    /\ Schedulers \cap Admins = {}
    /\ None \notin Processes

VARIABLES
    day,           \* today, in UTC
    published,     \* the days whose rate the central bank has published
    rates,         \* the days whose rate is stored (FinancialIndexRate, confirmed)
    config,        \* AccountRemunerationConfiguration: enabled, startsOn, per account
    settled,       \* the pairs of account and competence with an AccountRemuneration
    lock,          \* the advisory locks: the process that holds it, or None
    pc, task,      \* what a process does next, and with which values
    completed      \* lastCompletedDate, in the memory of each instance

vars == <<day, published, rates, config, settled, lock, pc, task, completed>>

Idle == [on |-> 0, asked |-> 0, from |-> 0, found |-> {}]

Init ==
    /\ day = Window            \* the first rate is that of the day 0
    /\ published = {0}
    /\ rates = {0}
    /\ config \in [Accounts -> [enabled : BOOLEAN, startsOn : Starts]]
    /\ settled = {}
    /\ lock = [k \in Locks |-> None]
    /\ pc = [p \in Processes |-> "idle"]
    /\ task = [p \in Processes |-> Idle]
    /\ completed = [p \in Schedulers |-> Never]

-----------------------------------------------------------------------------

\* Mutant: an import starts where it is asked to, if that is later.
ImportFromAsked(asked) == IF rates = {} THEN asked ELSE Max({asked, Max(rates) + 1})

(* Where an import starts: the day after the latest rate stored, whatever  *)
(* was asked for.                                                          *)
ImportFrom(asked) == IF rates = {} THEN asked ELSE Max(rates) + 1

(* The scheduler asks for the last Window days.                            *)
Asked == Max({0, day - Window})

\* Mutant: only the last competence is processed.
PendingYesterday(a, on) ==
    {d \in rates \cap {on - 1} : /\ config[a].enabled
                                 /\ config[a].startsOn <= d
                                 /\ <<a, d>> \notin settled}

(* The competences of a that a processing dated on finds without a result. *)
Pending(a, on) ==
    {d \in rates : /\ config[a].enabled
                   /\ config[a].startsOn <= d
                   /\ d < on
                   /\ <<a, d>> \notin settled}

AllPending(on) == {pair \in Accounts \X Days : pair[2] \in Pending(pair[1], on)}

-----------------------------------------------------------------------------
(* The end of an operation.  What comes after it: the scheduler processes  *)
(* after an import, and a failure ends the cycle.                          *)
Release(p) == lock' = [k \in Locks |-> IF lock[k] = p THEN None ELSE lock[k]]

Ends(p) ==
    /\ pc' = [pc EXCEPT ![p] = IF p \in Admins THEN "done" ELSE "idle"]
    /\ task' = [task EXCEPT ![p] = Idle]

AfterImport(p) ==
    IF p \in Schedulers
    THEN /\ pc' = [pc EXCEPT ![p] = "process"]
         /\ task' = [task EXCEPT ![p] = [Idle EXCEPT !.on = task[p].on]]
    ELSE Ends(p)

Failed(p) ==
    /\ Release(p)
    /\ Ends(p)
    /\ UNCHANGED <<day, published, rates, config, settled, completed>>

-----------------------------------------------------------------------------
(* importCdiRates reads the latest rate before it has the lock.            *)
ReadLatest(p, on, asked) ==
    /\ pc[p] = "idle"
    /\ pc' = [pc EXCEPT ![p] = "import"]
    /\ task' = [task EXCEPT ![p] = [on |-> on, asked |-> asked, from |-> ImportFrom(asked),
                                    found |-> {}]]
    /\ UNCHANGED <<day, published, rates, config, settled, lock, completed>>

StartCycle(p) ==
    /\ p \in Schedulers
    /\ completed[p] # day
    /\ ReadLatest(p, day, Asked)

(* An administrator asks for any period, also one that is over or to come; *)
(* assertImportPeriodOrder asks only that it does not end before it starts.*)
AdminImport(p) ==
    /\ p \in Admins
    /\ \E asked, until \in Dates : asked <= until /\ ReadLatest(p, until, asked)

(* An administrator gives the date of the processing, which nothing        *)
(* compares with today.                                                    *)
AdminProcess(p) ==
    /\ p \in Admins
    /\ pc[p] = "idle"
    /\ \E on \in Dates : task' = [task EXCEPT ![p].on = on]
    /\ pc' = [pc EXCEPT ![p] = "process"]
    /\ UNCHANGED <<day, published, rates, config, settled, lock, completed>>

ImportBusy(p) ==
    /\ pc[p] = "import"
    /\ lock["import"] # None
    /\ Failed(p)

UpToDate(p) ==
    /\ pc[p] = "import"
    /\ lock["import"] = None
    /\ task[p].from > task[p].on
    /\ AfterImport(p)
    /\ UNCHANGED <<day, published, rates, config, settled, lock, completed>>

AskProvider(p) ==
    /\ pc[p] = "import"
    /\ lock["import"] = None
    /\ task[p].from <= task[p].on
    /\ lock' = [lock EXCEPT !["import"] = p]
    /\ pc' = [pc EXCEPT ![p] = "fetch"]
    /\ UNCHANGED <<day, published, rates, config, settled, task, completed>>

Received(p) == published \cap (task[p].from .. task[p].on)

(* assertProviderRatesWithinPeriod compares with what was asked for, not   *)
(* with where the import started.                                          *)
WithinPeriod(p) == Received(p) \subseteq task[p].asked .. task[p].on

StoreRates(p) ==
    /\ pc[p] = "fetch"
    /\ WithinPeriod(p)
    /\ rates' = rates \cup Received(p)
    /\ Release(p)
    /\ AfterImport(p)
    /\ UNCHANGED <<day, published, config, settled, completed>>

RefuseRates(p) ==
    /\ pc[p] = "fetch"
    /\ ~ WithinPeriod(p)
    /\ Failed(p)

-----------------------------------------------------------------------------
ProcessBusy(p) ==
    /\ pc[p] = "process"
    /\ lock["process"] # None
    /\ Failed(p)

\* Mutant: the lock on processing is not honoured.
ListPendingUnlocked(p) ==
    /\ pc[p] = "process"
    /\ lock' = [lock EXCEPT !["process"] = p]
    /\ task' = [task EXCEPT ![p].found = AllPending(task[p].on)]
    /\ pc' = [pc EXCEPT ![p] = "write"]
    /\ UNCHANGED <<day, published, rates, config, settled, completed>>

ListPending(p) ==
    /\ pc[p] = "process"
    /\ lock["process"] = None
    /\ lock' = [lock EXCEPT !["process"] = p]
    /\ task' = [task EXCEPT ![p].found = AllPending(task[p].on)]
    /\ pc' = [pc EXCEPT ![p] = "write"]
    /\ UNCHANGED <<day, published, rates, config, settled, completed>>

(* Each competence gets its row, with a planned income when the balance    *)
(* and the amount allow it and with the reason when they do not.  The key  *)
(* of AccountRemuneration would abort a second row for a competence; the   *)
(* lock, held until the transaction ends, leaves it nothing to abort.      *)
WriteResults(p) ==
    /\ pc[p] = "write"
    /\ settled' = settled \cup task[p].found
    /\ completed' = IF p \in Schedulers THEN [completed EXCEPT ![p] = task[p].on] ELSE completed
    /\ Release(p)
    /\ Ends(p)
    /\ UNCHANGED <<day, published, rates, config>>

-----------------------------------------------------------------------------
(* The provider is down or answers nonsense, or a statement fails: the     *)
(* transaction is rolled back and the failure recorded.                    *)
Fail(p) ==
    /\ pc[p] \in {"fetch", "write"}
    /\ Failed(p)

(* The instance dies and comes back without its memory.                    *)
Restart(p) ==
    /\ p \in Schedulers
    /\ Release(p)
    /\ Ends(p)
    /\ completed' = [completed EXCEPT ![p] = Never]
    /\ UNCHANGED <<day, published, rates, config, settled>>

(* saveAccountRemunerationConfiguration; an account that may not be        *)
(* remunerated cannot be enabled.                                          *)
Configure(a) ==
    /\ \E enabled \in BOOLEAN, startsOn \in Starts :
          config' = [config EXCEPT ![a] = [enabled |-> enabled, startsOn |-> startsOn]]
    /\ UNCHANGED <<day, published, rates, settled, lock, pc, task, completed>>

(* Rates are published in order, each on its own day or the next, or never *)
(* on a holiday.  The bank may take longer: the window of ten days is      *)
(* wider than its delay, as the model's window is wider than one day.      *)
Publish ==
    /\ \E d \in {day - 1, day} : /\ d > Max(published)
                               /\ published' = published \cup {d}
    /\ UNCHANGED <<day, rates, config, settled, lock, pc, task, completed>>

(* Without outages, a published rate is imported before the scheduler's    *)
(* window leaves it behind.                                                *)
Tick ==
    /\ day < Horizon
    /\ Outages \/ \A d \in published \ rates : d >= day + 1 - Window
    /\ day' = day + 1
    /\ UNCHANGED <<published, rates, config, settled, lock, pc, task, completed>>

Cycle(p) ==
    \/ StartCycle(p) \/ ImportBusy(p) \/ UpToDate(p) \/ AskProvider(p) \/ StoreRates(p)
    \/ RefuseRates(p) \/ ProcessBusy(p) \/ ListPending(p) \/ WriteResults(p)

Next ==
    \/ \E p \in Processes : Cycle(p) \/ AdminImport(p) \/ AdminProcess(p) \/ Fail(p) \/ Restart(p)
    \/ \E a \in Accounts : Configure(a)
    \/ Publish
    \/ Tick

Spec == Init /\ [][Next]_vars

(* Time passes, a request ends, the timer of the scheduler fires every     *)
(* fifteen minutes, and an instance is up and the provider answers again   *)
(* and again, so that no step fails for ever.                              *)
Fairness ==
    /\ WF_vars(Tick)
    /\ \A p \in Admins : WF_vars(pc[p] # "idle" /\ (Cycle(p) \/ Fail(p)))
    /\ \A p \in Schedulers :
          /\ SF_vars(StartCycle(p))
          /\ SF_vars(UpToDate(p) \/ AskProvider(p))
          /\ SF_vars(StoreRates(p))
          /\ SF_vars(ListPending(p))
          /\ SF_vars(WriteResults(p))
          /\ WF_vars(ImportBusy(p) \/ RefuseRates(p) \/ ProcessBusy(p))

FairSpec == Spec /\ Fairness

-----------------------------------------------------------------------------
(* Imports leave no gap: whatever periods administrators ask for, however  *)
(* imports overlap, fail or come late, every published rate between two    *)
(* stored ones is stored.                                                  *)
RatesWithoutGaps ==
    \A d \in published :
        (\E e, f \in rates : e < d /\ d < f) => d \in rates

(* Every competence is settled: a rate published before the last day gets  *)
(* a result for each account whose remuneration stays on and had begun,    *)
(* however often the provider, the database or an instance fails.          *)
EveryCompetenceSettled ==
    \A a \in Accounts, d \in 0 .. Horizon - 2 :
        (d \in published /\ day < Horizon)
            ~> (<<a, d>> \in settled \/ ~ config[a].enabled \/ config[a].startsOn > d)

(* Every competence is settled once: whatever a processing is about to     *)
(* write has no result yet, so the key of AccountRemuneration never aborts *)
(* a transaction that planned incomes.                                     *)
WritesNothingTwice ==
    \A p \in Processes : pc[p] = "write" => task[p].found \cap settled = {}

=============================================================================
