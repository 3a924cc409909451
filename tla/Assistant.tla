----------------------------- MODULE Assistant -----------------------------
(***************************************************************************)
(* Conversations with the financial assistant of ONE user who switches     *)
(* between financial profiles: starting, reading and cancelling a          *)
(* conversation, and sending a message, which claims a turn, resolves it,  *)
(* may call an AI provider, and finalizes the turn much later.             *)
(*                                                                         *)
(* Every step below is one database transaction (or one autocommit query)  *)
(* of a request; requests interleave between steps, may stop for good at   *)
(* any of them, and compare times with a clock they sampled earlier.       *)
(* Transactions on one conversation take its row lock, those that switch   *)
(* profiles hold an advisory lock of the user, `scopeLock`.                *)
(***************************************************************************)
EXTENDS Integers, FiniteSets

CONSTANTS
  Requests,       \* HTTP requests; one mints a conversation or a turn at most
  Profiles,       \* financial profiles of the user
  Keys,           \* idempotency keys of messages
  Questions,      \* normalized questions
  Currencies,     \* currencies of the user's data
  ResolvesTo(_),  \* currencies the evidence for a question may be in, None when
                  \* it needs clarification or is out of scope
  Offers(_),      \* what each request may ask for
  TTL,            \* life of a conversation, in ticks
  Lease,          \* PROCESSING_LEASE_MS, in ticks
  MaxTime,        \* bound on the clock
  ConsentChecks,  \* consent checks before the first provider call
  MaxRetries,     \* retries of a provider call
  None

ASSUME TimesAssumption ==
  TTL \in Nat /\ Lease \in Nat \ {0} /\ MaxTime \in Nat
ASSUME ChecksAssumption == ConsentChecks \in Nat \ {0} /\ MaxRetries \in Nat
ASSUME ResolutionAssumption ==
  \A q \in Questions : ResolvesTo(q) \subseteq Currencies \cup {None}

Open     == {"ACTIVE", "PROCESSING", "AWAITING_CLARIFICATION", "ANSWERED", "FAILED"}
Closed   == {"CANCELLED", "EXPIRED"}
Settled  == {"AWAITING_CLARIFICATION", "ANSWERED", "FAILED"}
Times    == 0..MaxTime

ASSUME NoneAssumption == None \notin Requests \cup Profiles \cup Currencies \cup Settled

Inputs ==
       [op : {"start", "get"}, profile : Profiles]
  \cup [op : {"send"}, conversation : Requests, key : Keys, question : Questions]
  \cup [op : {"cancel"}, conversation : Requests]

ASSUME OffersAssumption == \A r \in Requests : Offers(r) \subseteq Inputs

\* A row not inserted has status "absent".
Conversations ==
  [status    : {"absent"} \cup Open \cup Closed,
   profile   : Profiles \cup {None},
   version   : Nat,
   currency  : Currencies \cup {None},
   expiresAt : Nat,
   updatedAt : Times]

Turns ==
  [status       : {"absent", "PROCESSING"} \cup Settled \cup Closed,
   conversation : Requests \cup {None},
   version      : Nat,
   key          : Keys \cup {None},
   question     : Questions \cup {None},
   currency     : Currencies \cup {None},
   createdAt    : Times,
   answeredAt   : Times]

NoConversation ==
  [status |-> "absent", profile |-> None, version |-> 0, currency |-> None,
   expiresAt |-> 0, updatedAt |-> 0]

NoTurn ==
  [status |-> "absent", conversation |-> None, version |-> 0, key |-> None,
   question |-> None, currency |-> None, createdAt |-> 0, answeredAt |-> 0]

VARIABLES
  clock,         \* in Times
  conversation,  \* [Requests -> Conversations], table "FinancialAssistantConversation"
  turn,          \* [Requests -> Turns], table "FinancialAssistantTurn"
  scopeLock,     \* request that holds the user's advisory lock, or None
  pc,            \* next step of each request, or one of Stopped
  input,         \* what each request asked for
  seen           \* [Requests -> Memories], what each request keeps between its steps

tables   == <<conversation, turn>>
requests == <<pc, input, seen>>
vars     == <<clock, tables, scopeLock, requests>>

\* now: the time sampled last; visible: the turns in the snapshot of the
\* statement that expires other profiles' conversations; version: the turn's
\* conversationVersion; found: the conversation read; checks: consent checks
\* that passed; then, result: what follows the reading of the conversation.
Memories ==
  [now     : Times,
   visible : SUBSET Requests,
   version : Nat,
   found   : Requests \cup {None},
   checks  : 0..(ConsentChecks + MaxRetries),
   then    : {"reply", "consent", "finish"},
   result  : Settled \cup {None}]

NothingSeen ==
  [now |-> 0, visible |-> {}, version |-> 0, found |-> None, checks |-> 0,
   then |-> "reply", result |-> None]

Stopped == {"done", "rejected", "expired", "crashed"}

Init ==
  /\ clock = 0
  /\ conversation = [i \in Requests |-> NoConversation]
  /\ turn = [t \in Requests |-> NoTurn]
  /\ scopeLock = None
  /\ pc = [r \in Requests |-> "idle"]
  /\ input = [r \in Requests |-> None]
  /\ seen = [r \in Requests |-> NothingSeen]

-----------------------------------------------------------------------------
(* The repository's helpers.                                               *)

IsOpen(i) == conversation[i].status \in Open

TurnsOf(i) == {t \in Requests : turn[t].conversation = i}

Processing(i) == {t \in TurnsOf(i) : turn[t].status = "PROCESSING"}

\* Mutant: a conversation is still accepted at the instant it expires.
ExpiredLater(c, now) == c.expiresAt < now

Expired(c, now) == c.expiresAt <= now

\* isInterruptedProcessing.
Interrupted(c, now) ==
  c.status = "PROCESSING" /\ now - c.updatedAt >= Lease

\* markConversationExpired guards only against EXPIRED, so that a cancelled
\* conversation may still become an expired one.
ExpiredRow(c, now) ==
  IF c.status = "EXPIRED" THEN c
  ELSE [c EXCEPT !.status = "EXPIRED", !.version = @ + 1, !.updatedAt = now]

\* The turns being processed that a closed conversation takes with it.
TurnsClosed(ts, status, now) ==
  [t \in Requests |->
     IF t \in ts /\ turn[t].status = "PROCESSING"
       THEN [turn[t] EXCEPT !.status = status, !.answeredAt = now]
       ELSE turn[t]]

\* failInterruptedProcessing, on the conversation.
RecoveredRow(c, now) ==
  [c EXCEPT !.status = "FAILED", !.version = @ + 1, !.updatedAt = now]

\* Mutant: the turn keeps the version its first process knows.
TurnFailed(i, row, now) ==
  [row EXCEPT !.status = "FAILED", !.answeredAt = now]

\* The turn recovered gets the conversation's new version, which fences off
\* the process that was working on it.
TurnRecovered(i, row, now) ==
  [row EXCEPT !.status = "FAILED", !.answeredAt = now,
              !.version = conversation[i].version + 1]

TurnsRecovered(i, now) ==
  [t \in Requests |->
     IF t \in Processing(i) THEN TurnRecovered(i, turn[t], now) ELSE turn[t]]

ProfileOf(r) ==
  IF input[r].op = "send" THEN conversation[input[r].conversation].profile
  ELSE input[r].profile

\* findOpenConversation: the open conversation of the request's profile.
Mine(r) == {i \in Requests : IsOpen(i) /\ conversation[i].profile = ProfileOf(r)}

-----------------------------------------------------------------------------
(* Life of a request.                                                      *)

Begin(r, in, to) ==
  /\ pc[r] = "idle"
  /\ in \in Offers(r)
  /\ pc' = [pc EXCEPT ![r] = to]
  /\ input' = [input EXCEPT ![r] = in]
  /\ seen' = [seen EXCEPT ![r].now = clock]
  /\ UNCHANGED <<clock, tables, scopeLock>>

Goto(r, to) ==
  /\ pc' = [pc EXCEPT ![r] = to]
  /\ UNCHANGED <<clock, input>>

Stop(r, how) ==
  /\ Goto(r, how)
  /\ seen' = [seen EXCEPT ![r] = NothingSeen]

\* getFinancialAssistantConversationForContext is called with a new time; what
\* the caller does next is `then`.
GetThen(r, then, result) ==
  /\ Goto(r, "lock")
  /\ seen' = [seen EXCEPT ![r] = [@ EXCEPT !.now = clock, !.then = then,
                                           !.result = result, !.visible = {},
                                           !.found = None]]

Release(r) == scopeLock' = IF scopeLock = r THEN None ELSE scopeLock

-----------------------------------------------------------------------------
(* Reading and starting a conversation.                                    *)

GetBegin(r)   == \E p \in Profiles : Begin(r, [op |-> "get", profile |-> p], "lock")
StartBegin(r) == \E p \in Profiles : Begin(r, [op |-> "start", profile |-> p], "lock")

\* Mutant: the advisory lock is not taken.
Unlocked(r) == TRUE

\* lockAssistantScope waits for its holder's transaction to end.
ScopeFree(r) == scopeLock = None

\* expireOtherProfileContexts updates conversations and then turns in ONE
\* statement, whose snapshot is taken before it waits for row locks.
Lock(r) ==
  /\ pc[r] = "lock"
  /\ ScopeFree(r)
  /\ scopeLock' = r
  /\ Goto(r, IF input[r].op = "start" THEN "find" ELSE "expireOthers")
  /\ seen' = [seen EXCEPT ![r].visible =
                {t \in Requests : turn[t].status = "PROCESSING"}]
  /\ UNCHANGED tables

Others(r) == {i \in Requests : IsOpen(i) /\ conversation[i].profile # ProfileOf(r)}

\* Of the turns, only those the snapshot shows: one claimed in between stays
\* PROCESSING in its expired conversation.
TurnsOfOthers(r) == UNION {TurnsOf(i) : i \in Others(r)} \cap seen[r].visible

ExpireOthers(r) ==
  /\ pc[r] = "expireOthers"
  /\ conversation' = [i \in Requests |->
       IF i \in Others(r) THEN ExpiredRow(conversation[i], seen[r].now)
       ELSE conversation[i]]
  /\ turn' = TurnsClosed(TurnsOfOthers(r), "EXPIRED", seen[r].now)
  /\ Release(r)
  /\ Goto(r, "recover")
  /\ seen' = [seen EXCEPT ![r].visible = {}]

\* startFinancialAssistantConversation goes on in the same transaction, which
\* first looks for an open conversation of the profile that is still alive.
FindOpen(r) ==
  LET alive == {i \in Mine(r) : ~Expired(conversation[i], seen[r].now)}
  IN  /\ pc[r] = "find"
      /\ \E i \in IF alive = {} THEN {None} ELSE alive :
           seen' = [seen EXCEPT ![r].found = i]
      /\ Goto(r, "insert")
      /\ UNCHANGED <<tables, scopeLock>>

\* The transaction commits: one found is reused, else one is inserted, after the
\* profile's expired one.
Insert(r) ==
  LET now  == seen[r].now
      dead == {i \in Mine(r) : Expired(conversation[i], now)}
      new  == [NoConversation EXCEPT !.status = "ACTIVE",
                 !.profile = input[r].profile, !.expiresAt = now + TTL,
                 !.updatedAt = now]
  IN  /\ pc[r] = "insert"
      /\ conversation' = [i \in Requests |->
           IF i \in Others(r) \cup dead THEN ExpiredRow(conversation[i], now)
           ELSE IF i = r /\ seen[r].found = None THEN new
           ELSE conversation[i]]
      /\ turn' = TurnsClosed(
           TurnsOfOthers(r) \cup UNION {TurnsOf(i) : i \in dead}, "EXPIRED", now)
      /\ Release(r)
      /\ Stop(r, "done")

\* recoverInterruptedConversation.
Recover(r) ==
  /\ pc[r] = "recover"
  /\ \/ /\ \A i \in Mine(r) : /\ ~Expired(conversation[i], seen[r].now)
                              /\ ~Interrupted(conversation[i], seen[r].now)
        /\ UNCHANGED tables
     \/ \E i \in Mine(r) :
          /\ Expired(conversation[i], seen[r].now)
          /\ conversation' = [conversation EXCEPT ![i] = ExpiredRow(@, seen[r].now)]
          /\ turn' = TurnsClosed(TurnsOf(i), "EXPIRED", seen[r].now)
     \/ \E i \in Mine(r) :
          /\ ~Expired(conversation[i], seen[r].now)
          /\ Interrupted(conversation[i], seen[r].now)
          /\ conversation' = [conversation EXCEPT ![i] = RecoveredRow(@, seen[r].now)]
          /\ turn' = TurnsRecovered(i, seen[r].now)
  /\ Goto(r, "read")
  /\ UNCHANGED <<scopeLock, seen>>

\* resolveAuthoritativeConsent's comparison of what was read with the turn.
StillProcessing(r, i) ==
  /\ i = input[r].conversation
  /\ conversation[i].status = "PROCESSING"
  /\ conversation[i].version = seen[r].version

\* What follows the reading: the reply of a GET, the finalization, or, in a
\* consent check, the next check, the provider, or the answer without it.
Proceed(r, consent) ==
  \/ seen[r].then = "reply"  /\ Stop(r, "done")
  \/ seen[r].then = "finish" /\ Goto(r, "finalize") /\ UNCHANGED seen
  \/ seen[r].then = "consent" /\ ~consent /\ GetThen(r, "finish", "ANSWERED")
  \/ /\ seen[r].then = "consent" /\ consent
     /\ Goto(r, IF seen[r].checks + 1 < ConsentChecks THEN "lock" ELSE "provider")
     /\ seen' = [seen EXCEPT ![r] = [@ EXCEPT !.checks = seen[r].checks + 1, !.now = clock]]

\* The conversation is read without a lock; one that has expired by now is
\* expired in a transaction of its own.  The consent itself may be missing,
\* or the evidence empty.
Read(r) ==
  /\ pc[r] = "read"
  /\ \/ \E i \in Mine(r) :
          /\ Expired(conversation[i], seen[r].now)
          /\ Goto(r, "expire")
          /\ seen' = [seen EXCEPT ![r].found = i]
     \/ /\ \A i \in Mine(r) : ~Expired(conversation[i], seen[r].now)
        /\ \E granted \in BOOLEAN :
             Proceed(r, granted /\ \E i \in Mine(r) : StillProcessing(r, i))
  /\ UNCHANGED <<tables, scopeLock>>

\* expireConversation.
Expire(r) ==
  LET i == seen[r].found
  IN  /\ pc[r] = "expire"
      /\ conversation' = [conversation EXCEPT ![i] = ExpiredRow(@, seen[r].now)]
      /\ turn' = TurnsClosed(TurnsOf(i), "EXPIRED", seen[r].now)
      /\ Proceed(r, FALSE)
      /\ UNCHANGED scopeLock

-----------------------------------------------------------------------------
(* Sending a message.                                                      *)

\* The conversation is read first, and must be open.
SendBegin(r) ==
  \E i \in Requests, k \in Keys, q \in Questions :
    /\ conversation[i].status # "absent"
    /\ Begin(r, [op |-> "send", conversation |-> i, key |-> k, question |-> q],
             IF IsOpen(i) THEN "claim" ELSE "rejected")

\* Mutant: a key whose turn has failed is forgotten.
KnownUnlessFailed(r) ==
  {t \in TurnsOf(input[r].conversation) :
     turn[t].key = input[r].key /\ turn[t].status # "FAILED"}

\* findTurnByIdempotency.
Known(r) ==
  {t \in TurnsOf(input[r].conversation) : turn[t].key = input[r].key}

\* Mutant: a second message need not wait for the first.
NeverBusy(c, late) == FALSE

\* A turn is being processed, and its process is not known to be dead.
Busy(c, late) == c.status = "PROCESSING" /\ ~late

\* claimFinancialAssistantTurn, with the time sampled before the request read
\* anything.  A refusal throws, and the transaction is rolled back: also the
\* expiry that the code writes just before it refuses with "expired".
Claim(r) ==
  LET i    == input[r].conversation
      c    == conversation[i]
      now  == seen[r].now
      late == Interrupted(c, now)
      base == IF late THEN RecoveredRow(c, now) ELSE c
      old  == IF late THEN TurnsRecovered(i, now) ELSE turn
  IN  /\ pc[r] = "claim"
      /\ IF Expired(c, now) THEN Stop(r, "expired") /\ UNCHANGED tables
         ELSE IF \/ \E t \in Known(r) : turn[t].question # input[r].question
                 \/ Known(r) = {} /\ Busy(c, late)
                 \/ Known(r) = {} /\ c.status \in Closed
           THEN Stop(r, "rejected") /\ UNCHANGED tables
         ELSE IF Known(r) # {}
           THEN /\ conversation' = [conversation EXCEPT ![i] = base]
                /\ turn' = old
                /\ Stop(r, "done")
         ELSE /\ conversation' = [conversation EXCEPT ![i] =
                   [base EXCEPT !.status = "PROCESSING", !.version = @ + 1,
                                !.updatedAt = now]]
              /\ turn' = [old EXCEPT ![r] =
                   [NoTurn EXCEPT !.status = "PROCESSING", !.conversation = i,
                      !.version = base.version + 1, !.key = input[r].key,
                      !.question = input[r].question, !.createdAt = now]]
              /\ Goto(r, "bind")
              /\ seen' = [seen EXCEPT ![r].version = base.version + 1]
      /\ UNCHANGED scopeLock

\* A question in another currency than the conversation's.
CurrencyClash(c, currency) ==
  c.currency # None /\ currency # None /\ c.currency # currency

\* The question was resolved, to evidence, a request for clarification or a
\* refusal, and is bound to the turn; `now` is still the claim's.
Bind(r) ==
  LET i == input[r].conversation
      c == conversation[i]
  IN  /\ pc[r] = "bind"
      /\ IF c.version # seen[r].version \/ c.status # "PROCESSING"
         THEN GetThen(r, "finish", "FAILED") /\ UNCHANGED tables
         ELSE \E currency \in ResolvesTo(input[r].question) :
           IF CurrencyClash(c, currency)
           THEN /\ conversation' = [conversation EXCEPT ![i] = ExpiredRow(@, seen[r].now)]
                /\ turn' = TurnsClosed(TurnsOf(i), "EXPIRED", seen[r].now)
                /\ GetThen(r, "finish", "FAILED")
           ELSE /\ conversation' = [conversation EXCEPT ![i] =
                     [@ EXCEPT !.updatedAt = seen[r].now,
                               !.currency = IF currency = None THEN c.currency ELSE currency]]
                /\ turn' = [turn EXCEPT ![r].currency = currency]
                /\ \/ currency # None /\ GetThen(r, "consent", None)
                   \/ currency # None /\ GetThen(r, "finish", "ANSWERED")
                   \/ currency = None /\ GetThen(r, "finish", "ANSWERED")
                   \/ GetThen(r, "finish", "AWAITING_CLARIFICATION")
      /\ UNCHANGED scopeLock

MayRetry(r) == seen[r].checks < ConsentChecks + MaxRetries

\* The provider answered, failed for good, or failed and is tried once more.
ProviderReturns(r) ==
  /\ pc[r] = "provider"
  /\ \/ GetThen(r, "finish", "ANSWERED")
     \/ MayRetry(r) /\ GetThen(r, "consent", None)
  /\ UNCHANGED <<tables, scopeLock>>

\* Mutant: a turn whose conversation moved on is left alone.
FinishedElsewhere(r) == turn[r]

\* The turn of a conversation that was closed, or moved on, meanwhile.
FencedTurn(r) ==
  [turn[r] EXCEPT !.answeredAt = seen[r].now,
     !.status = IF conversation[input[r].conversation].status = "EXPIRED"
                  THEN "EXPIRED" ELSE "CANCELLED"]

\* The conversation was cancelled or expired, or has another version.
Stale(r) ==
  LET c == conversation[input[r].conversation]
  IN  c.version # seen[r].version \/ c.status \in Closed

\* finalizeFinancialAssistantTurn.
Finalize(r) ==
  LET i == input[r].conversation
  IN  /\ pc[r] = "finalize"
      /\ IF turn[r].version # seen[r].version THEN UNCHANGED tables
         ELSE IF Stale(r)
           THEN /\ turn' = [turn EXCEPT ![r] = FencedTurn(r)]
                /\ UNCHANGED conversation
         ELSE /\ turn' = [turn EXCEPT ![r].status = seen[r].result,
                                      ![r].answeredAt = seen[r].now]
              /\ conversation' = [conversation EXCEPT ![i].status = seen[r].result,
                                                      ![i].updatedAt = seen[r].now]
      /\ Stop(r, "done")
      /\ UNCHANGED scopeLock

-----------------------------------------------------------------------------
(* Cancelling a conversation.                                              *)

CancelBegin(r) ==
  \E i \in Requests :
    /\ conversation[i].status # "absent"
    /\ Begin(r, [op |-> "cancel", conversation |-> i], "cancel")

CancelledRow(c, now) ==
  [c EXCEPT !.status = "CANCELLED", !.version = @ + 1, !.updatedAt = now]

Cancel(r) ==
  LET i   == input[r].conversation
      now == seen[r].now
  IN  /\ pc[r] = "cancel"
      /\ IF ~IsOpen(i) THEN UNCHANGED tables
         ELSE IF Expired(conversation[i], now)
           THEN /\ conversation' = [conversation EXCEPT ![i] = ExpiredRow(@, now)]
                /\ turn' = TurnsClosed(TurnsOf(i), "EXPIRED", now)
         ELSE /\ conversation' = [conversation EXCEPT ![i] = CancelledRow(@, now)]
              /\ turn' = TurnsClosed(TurnsOf(i), "CANCELLED", now)
      /\ Stop(r, "done")
      /\ UNCHANGED scopeLock

-----------------------------------------------------------------------------
(* The environment.                                                        *)

\* The process dies, or a transaction fails where nothing catches the error:
\* in a GET, a start, a cancellation, a claim, or, as the promise is returned
\* and not awaited, in the finalization.
Crash(r) ==
  /\ pc[r] \notin Stopped \cup {"idle"}
  /\ Release(r)
  /\ Stop(r, "crashed")
  /\ UNCHANGED tables

\* A transaction fails while the message is prepared: the handler catches the
\* error and finalizes the turn as FAILED.  In a consent check it only means
\* that the provider is not called.
Fails(r) ==
  /\ input[r] # None /\ turn[r].status # "absent"
  /\ \/ /\ \/ pc[r] = "bind"
           \/ /\ pc[r] \in {"lock", "expireOthers", "recover", "read", "expire"}
              /\ seen[r].then = "finish" /\ seen[r].result # "FAILED"
        /\ GetThen(r, "finish", "FAILED")
     \/ /\ pc[r] \in {"lock", "expireOthers", "recover", "read", "expire"}
        /\ seen[r].then = "consent"
        /\ GetThen(r, "finish", "ANSWERED")
  /\ Release(r)
  /\ UNCHANGED tables

Tick ==
  /\ clock < MaxTime
  /\ clock' = clock + 1
  /\ UNCHANGED <<tables, scopeLock, requests>>

Work(r) ==
  \/ Lock(r) \/ ExpireOthers(r) \/ FindOpen(r) \/ Insert(r)
  \/ Recover(r) \/ Read(r) \/ Expire(r)
  \/ Claim(r) \/ Bind(r) \/ ProviderReturns(r) \/ Finalize(r) \/ Cancel(r)

Arrive(r) == GetBegin(r) \/ StartBegin(r) \/ SendBegin(r) \/ CancelBegin(r)

Next == Tick \/ \E r \in Requests : Arrive(r) \/ Work(r) \/ Fails(r) \/ Crash(r)

\* A request that has not stopped goes on: the event loop and the database keep
\* serving it.  Nothing obliges a client to send a request, or time to pass.
Fairness == \A r \in Requests : WF_vars(Work(r))

Spec == Init /\ [][Next]_vars /\ Fairness

-----------------------------------------------------------------------------
(* What the component promises.                                            *)

\* The user has at most one open conversation, whichever profiles the requests
\* that start or read one come from, and however they overlap.
OneOpenContext ==
  \A i, j \in Requests : IsOpen(i) /\ IsOpen(j) => i = j

\* A conversation in PROCESSING has exactly one turn in PROCESSING, which carries
\* its version; turns are not in PROCESSING anywhere else, but for those claimed
\* while another profile's request expired their conversation.
ProcessingIsFenced ==
  \A i \in Requests :
    /\ conversation[i].status = "PROCESSING" =>
         /\ Cardinality(Processing(i)) = 1
         /\ \A t \in Processing(i) : turn[t].version = conversation[i].version
    /\ Processing(i) # {} => conversation[i].status \in {"PROCESSING", "EXPIRED"}

\* A message is answered, or answered by a question, only while its conversation
\* is alive and before its lease runs out, by the clock the finalization sampled.
AnsweredInTime ==
  \A t \in Requests :
    turn[t].status \in {"ANSWERED", "AWAITING_CLARIFICATION"} =>
      /\ turn[t].answeredAt < conversation[turn[t].conversation].expiresAt
      /\ turn[t].answeredAt - turn[t].createdAt < Lease

\* A retry with the same key never gets a second turn, also after the first one
\* was interrupted, failed or expired.
OneTurnPerKey ==
  \A s, t \in Requests :
    /\ turn[s].status # "absent" /\ turn[t].status # "absent"
    /\ turn[s].conversation = turn[t].conversation /\ turn[s].key = turn[t].key
    => s = t

\* A late answer never overwrites a newer outcome: a turn answered or failed
\* stays as it is, a cancelled or expired one is never answered, and a closed
\* conversation is never opened again.
LateAnswerIsFenced ==
  [][\A t \in Requests :
       /\ turn[t].status \in Settled => turn'[t] = turn[t]
       /\ turn[t].status \in Closed => turn'[t].status \in Closed
       /\ conversation[t].status \in Closed => conversation'[t].status \in Closed]_vars

\* A turn that was claimed does not stay in PROCESSING, unless its request died.
TurnSettles ==
  \A r \in Requests :
    turn[r].status = "PROCESSING" ~>
      turn[r].status # "PROCESSING" \/ pc[r] = "crashed"

=============================================================================
