--------------------------- MODULE AssistantProofs ---------------------------
(***************************************************************************)
(* Theorems about Assistant for every set of requests, profiles, keys and  *)
(* questions, every duration of a conversation and of a lease, and every   *)
(* number of consent checks and of retries:                                *)
(*                                                                         *)
(*   TypeCorrect      Spec => []TypeOK                                     *)
(*   OneContext       Spec => []OneOpenContext                             *)
(*   OneTurn          Spec => []OneTurnPerKey                              *)
(*   ProcessingFenced Spec => []ProcessingIsFenced                         *)
(*   InTime           Spec => []AnsweredInTime                             *)
(*   LateIsFenced     Spec => LateAnswerIsFenced                           *)
(***************************************************************************)
EXTENDS Assistant, FiniteSetTheorems, TLAPS

-----------------------------------------------------------------------------
(* The inductive invariant.                                                *)

Scoped  == {"expireOthers", "find", "insert"}
Getting == {"lock", "expireOthers", "recover", "read", "expire"}
Sending == {"bind", "provider", "finalize"} \cup Getting

TablesOK ==
  /\ conversation \in [Requests -> Conversations]
  /\ turn \in [Requests -> Turns]

ControlOK ==
  /\ clock \in Times
  /\ pc \in [Requests -> Stopped \cup Sending \cup {"idle", "find", "insert", "claim", "cancel"}]
  /\ input \in [Requests -> Inputs \cup {None}]
  /\ seen \in [Requests -> Memories]

TypeOK == TablesOK /\ ControlOK /\ scopeLock \in Requests \cup {None}

\* A turn belongs to a conversation.
TurnsBelong ==
  \A t \in Requests :
    /\ turn[t].status = "absent" => turn[t].conversation = None
    /\ turn[t].status # "absent" =>
         /\ turn[t].conversation \in Requests
         /\ conversation[turn[t].conversation].status # "absent"

\* The turn being processed has the version of its conversation, and started
\* when the conversation was last written.
OneProcessing ==
  \A i \in Requests :
    /\ conversation[i].status = "PROCESSING" =>
         \E t \in Requests :
           /\ Processing(i) = {t}
           /\ turn[t].version = conversation[i].version
           /\ turn[t].createdAt = conversation[i].updatedAt
    /\ Processing(i) # {} => conversation[i].status \in {"PROCESSING", "EXPIRED"}

TableInv ==
  /\ TurnsBelong /\ OneOpenContext /\ OneTurnPerKey /\ OneProcessing /\ AnsweredInTime

\* What each request is after at each step, and what it has inserted.
Stage(r) ==
  /\ pc[r] # "idle" => input[r] \in Inputs
  /\ pc[r] \in {"find", "insert"} => input[r].op = "start"
  /\ pc[r] \in {"bind", "provider", "finalize", "claim"} => input[r].op = "send"
  /\ pc[r] \in {"claim", "cancel"} => conversation[input[r].conversation].status # "absent"
  /\ pc[r] = "cancel" => input[r].op = "cancel"
  /\ pc[r] \in Getting => input[r].op # "cancel"
  /\ pc[r] \in Getting /\ seen[r].then # "reply" => input[r].op = "send"
  /\ pc[r] \in Getting /\ input[r].op = "send" => seen[r].then # "reply"
  /\ pc[r] \in {"idle", "claim"} => seen[r].then = "reply"
  /\ pc[r] = "expire" => seen[r].found # None /\ conversation[seen[r].found].status # "absent"
  /\ pc[r] = "finalize" => seen[r].then = "finish"
  /\ seen[r].then = "finish" => seen[r].result # None
  /\ seen[r].then = "consent" /\ pc[r] # "provider" =>
       seen[r].checks < ConsentChecks + MaxRetries
  /\ pc[r] = "bind" => seen[r].checks = 0
  /\ pc[r] \in {"idle", "claim"} => seen[r].checks = 0
  /\ conversation[r].status # "absent" => pc[r] = "done"
  /\ turn[r].status # "absent" =>
       pc[r] \in Sending \cup {"done", "crashed"} /\ input[r].op = "send"

\* The advisory lock: nobody else opens a conversation, so that none of the
\* profile is alive where none was found.
InScope(r) ==
  /\ pc[r] \in Scoped => scopeLock = r
  /\ pc[r] = "insert" /\ seen[r].found = None =>
       \A i \in Mine(r) : Expired(conversation[i], seen[r].now)

\* Between its claim and its finalization a request has a turn.  As long as its
\* conversation has the version of the claim and is not closed, the turn is the
\* one being processed; and the turn has the claim's version until it fails.
Fenced(r) ==
  /\ turn[r].status # "absent"
  /\ turn[r].conversation = input[r].conversation
  /\ seen[r].version <= conversation[input[r].conversation].version
  /\ turn[r].version = seen[r].version => turn[r].status \notin Settled
  /\ ~Stale(r) =>
       /\ conversation[input[r].conversation].status = "PROCESSING"
       /\ turn[r].status = "PROCESSING"
       /\ turn[r].version = seen[r].version

Fence(r) ==
  pc[r] \in Sending /\ input[r].op = "send" =>
    /\ Fenced(r)
    /\ pc[r] = "bind" => turn[r].createdAt = seen[r].now

\* After the reading that goes before the finalization, a conversation with the
\* version of the claim has not expired, nor its lease, by the time sampled.
Timely(r) ==
  pc[r] \in {"read", "expire", "finalize"} /\ input[r].op = "send" /\ ~Stale(r) =>
    LET c == conversation[input[r].conversation]
    IN  /\ ~Expired(c, seen[r].now)
        /\ seen[r].now - c.updatedAt < Lease

AssistantInv ==
  /\ TypeOK
  /\ TableInv
  /\ \A r \in Requests : Stage(r) /\ InScope(r) /\ Fence(r) /\ Timely(r)


-----------------------------------------------------------------------------
(* Values and rows.                                                        *)

LEMMA InputKinds ==
  ASSUME NEW in \in Inputs
  PROVE  /\ in.op \in {"start", "get", "send", "cancel"}
         /\ in.op \in {"start", "get"} => in.profile \in Profiles
         /\ in.op \in {"send", "cancel"} => in.conversation \in Requests
         /\ in.op = "send" => in.key \in Keys /\ in.question \in Questions
BY DEF Inputs

LEMMA ExpiredRowType ==
  ASSUME NEW c \in Conversations, NEW now \in Times
  PROVE  /\ ExpiredRow(c, now) \in Conversations
         /\ ExpiredRow(c, now).status = "EXPIRED"
         /\ ExpiredRow(c, now).profile = c.profile
         /\ ExpiredRow(c, now).expiresAt = c.expiresAt
         /\ c.status = "EXPIRED" => ExpiredRow(c, now) = c
         /\ c.status # "EXPIRED" => ExpiredRow(c, now).version = c.version + 1
<1>1. CASE c.status = "EXPIRED" BY <1>1 DEF ExpiredRow
<1>2. CASE c.status # "EXPIRED"
  <2>1. PICK v : v = c.version + 1 OBVIOUS
  <2>2. v \in Nat BY <2>1 DEF Conversations
  <2>3. ExpiredRow(c, now) = [c EXCEPT !.status = "EXPIRED", !.version = v, !.updatedAt = now]
    BY <1>2, <2>1 DEF ExpiredRow
  <2> QED BY <1>2, <2>1, <2>2, <2>3 DEF Conversations, Closed
<1> QED BY <1>1, <1>2

LEMMA RecoveredRowType ==
  ASSUME NEW c \in Conversations, NEW now \in Times
  PROVE  /\ RecoveredRow(c, now) \in Conversations
         /\ RecoveredRow(c, now).status = "FAILED"
         /\ RecoveredRow(c, now).profile = c.profile
         /\ RecoveredRow(c, now).expiresAt = c.expiresAt
         /\ RecoveredRow(c, now).version = c.version + 1
<1>1. PICK v : v = c.version + 1 OBVIOUS
<1>2. v \in Nat BY <1>1 DEF Conversations
<1>3. RecoveredRow(c, now) = [c EXCEPT !.status = "FAILED", !.version = v, !.updatedAt = now]
  BY <1>1 DEF RecoveredRow
<1> QED BY <1>1, <1>2, <1>3 DEF Conversations, Open

\* Rows of turns that end: everything but the status, the version and the time
\* of the end is kept.
SameTurn(row, old) ==
  /\ row.conversation = old.conversation /\ row.key = old.key
  /\ row.question = old.question /\ row.createdAt = old.createdAt

LEMMA TurnsClosedType ==
  ASSUME TypeOK, NEW ts, NEW status \in Closed, NEW now \in Times,
         NEW rows, rows = TurnsClosed(ts, status, now)
  PROVE  /\ rows \in [Requests -> Turns]
         /\ \A t \in Requests :
              IF t \in ts /\ turn[t].status = "PROCESSING"
                THEN /\ rows[t].status = status /\ rows[t].version = turn[t].version
                     /\ SameTurn(rows[t], turn[t])
                ELSE rows[t] = turn[t]
<1> SUFFICES ASSUME NEW t \in Requests
             PROVE  /\ rows[t] \in Turns
                    /\ IF t \in ts /\ turn[t].status = "PROCESSING"
                       THEN /\ rows[t].status = status /\ rows[t].version = turn[t].version
                            /\ SameTurn(rows[t], turn[t])
                       ELSE rows[t] = turn[t]
  <2>1. rows = [t \in Requests |-> rows[t]] BY DEF TurnsClosed
  <2> QED BY <2>1
<1>1. turn[t] \in Turns BY DEF TypeOK, TablesOK, ControlOK
<1>2. PICK row : row = [turn[t] EXCEPT !.status = status, !.answeredAt = now] OBVIOUS
<1>3. row \in Turns /\ row.status = status /\ row.version = turn[t].version
      /\ SameTurn(row, turn[t])
  BY <1>1, <1>2 DEF Turns, SameTurn
<1>4. rows[t] =
        IF t \in ts /\ turn[t].status = "PROCESSING" THEN row ELSE turn[t]
  BY <1>2 DEF TurnsClosed
<1> QED BY <1>1, <1>3, <1>4

LEMMA TurnsRecoveredType ==
  ASSUME TypeOK, NEW i \in Requests, NEW now \in Times
  PROVE  /\ TurnsRecovered(i, now) \in [Requests -> Turns]
         /\ \A t \in Requests :
              IF t \in Processing(i)
                THEN /\ TurnsRecovered(i, now)[t].status = "FAILED"
                     /\ TurnsRecovered(i, now)[t].version = conversation[i].version + 1
                     /\ SameTurn(TurnsRecovered(i, now)[t], turn[t])
                ELSE TurnsRecovered(i, now)[t] = turn[t]
<1> SUFFICES ASSUME NEW t \in Requests
             PROVE  /\ TurnsRecovered(i, now)[t] \in Turns
                    /\ IF t \in Processing(i)
                       THEN /\ TurnsRecovered(i, now)[t].status = "FAILED"
                            /\ TurnsRecovered(i, now)[t].version = conversation[i].version + 1
                            /\ SameTurn(TurnsRecovered(i, now)[t], turn[t])
                       ELSE TurnsRecovered(i, now)[t] = turn[t]
  BY DEF TurnsRecovered
<1>1. turn[t] \in Turns BY DEF TypeOK, TablesOK, ControlOK
<1>2. PICK v : v = conversation[i].version + 1 OBVIOUS
<1>3. v \in Nat BY <1>2 DEF TypeOK, TablesOK, ControlOK, Conversations
<1>4. PICK row : row = [turn[t] EXCEPT !.status = "FAILED", !.answeredAt = now, !.version = v]
  OBVIOUS
<1>5. row \in Turns /\ row.status = "FAILED" /\ row.version = v /\ SameTurn(row, turn[t])
  BY <1>1, <1>3, <1>4 DEF Turns, SameTurn, Settled
<1>6. TurnsRecovered(i, now)[t] = IF t \in Processing(i) THEN row ELSE turn[t]
  BY <1>2, <1>4 DEF TurnsRecovered, TurnRecovered
<1> QED BY <1>1, <1>2, <1>5, <1>6


-----------------------------------------------------------------------------
(* What a step of one request may do to the tables.                        *)

\* A conversation stays as it is, or moves on with a new version and is not
\* opened again if it was closed.
ConversationKept(i) ==
  \/ conversation'[i] = conversation[i]
  \/ /\ conversation[i].status # "absent" /\ conversation'[i].status # "absent"
     /\ conversation'[i].version > conversation[i].version
     /\ conversation'[i].profile = conversation[i].profile
     /\ conversation'[i].expiresAt = conversation[i].expiresAt
     /\ conversation[i].status \in Closed => conversation'[i].status \in Closed
  \/ /\ conversation[i].status \in Closed /\ conversation'[i].status \in Closed
     /\ conversation'[i].version >= conversation[i].version
     /\ conversation'[i].profile = conversation[i].profile
     /\ conversation'[i].expiresAt = conversation[i].expiresAt

\* A request writes the conversation whose turn it has without a new version.
ConversationOwned(r, i) ==
  /\ pc[r] \in Sending /\ input[r].op = "send" /\ i = input[r].conversation
  /\ ~Stale(r)
  /\ conversation'[i].status \in Open
  /\ conversation'[i].version = conversation[i].version
  /\ conversation'[i].profile = conversation[i].profile
  /\ conversation'[i].expiresAt = conversation[i].expiresAt

ConversationNew(r, i) ==
  /\ i = r /\ pc[r] = "insert"
  /\ conversation[i].status = "absent" /\ conversation'[i].status # "absent"

\* A turn stays as it is, or ends with its conversation: closed if that is closed,
\* and otherwise failed, with a version that no process knows.
TurnKept(t) ==
  \/ turn'[t] = turn[t]
  \/ /\ turn[t].status = "PROCESSING" /\ SameTurn(turn'[t], turn[t])
     /\ \/ /\ turn'[t].status \in Closed /\ turn'[t].version = turn[t].version
           /\ conversation'[turn[t].conversation].status \in Closed
        \/ /\ turn'[t].status = "FAILED"
           /\ turn'[t].version > conversation[turn[t].conversation].version
           /\ conversation'[turn[t].conversation].version >
                conversation[turn[t].conversation].version

OthersWait(r) ==
  \A q \in Requests \ {r} : pc'[q] = pc[q] /\ input'[q] = input[q] /\ seen'[q] = seen[q]

Effects(r) ==
  /\ \A i \in Requests : ConversationKept(i) \/ ConversationOwned(r, i) \/ ConversationNew(r, i)
  /\ \A t \in Requests \ {r} : TurnKept(t)
  /\ turn[r].status \in Settled => turn'[r] = turn[r]
  /\ turn[r].status \in Closed => turn'[r].status \in Closed
  /\ OthersWait(r)
  /\ \A q \in Requests \ {r} : scopeLock = q => scopeLock' = q

LEMMA ProcessingOfFresh ==
  ASSUME AssistantInv, NEW r \in Requests, pc[r] \in Sending, input[r].op = "send", ~Stale(r)
  PROVE  /\ input[r].conversation \in Requests
         /\ conversation[input[r].conversation].status = "PROCESSING"
         /\ Processing(input[r].conversation) = {r}
         /\ turn[r].status = "PROCESSING" /\ turn[r].conversation = input[r].conversation
         /\ turn[r].version = conversation[input[r].conversation].version
         /\ turn[r].version = seen[r].version
         /\ turn[r].createdAt = conversation[input[r].conversation].updatedAt
<1>1. TypeOK /\ OneProcessing /\ Stage(r) /\ Fence(r) BY DEF AssistantInv, TableInv
<1>2. input[r].conversation \in Requests
  BY <1>1, InputKinds DEF Stage, Sending, Getting
<1>3. Fenced(r) BY <1>1 DEF Fence
<1>4. r \in Processing(input[r].conversation)
  BY <1>3 DEF Fenced, Processing, TurnsOf
<1> QED BY <1>1, <1>2, <1>3, <1>4 DEF Fenced, OneProcessing

\* A step that keeps a request's turn and conversation keeps its fence.
LEMMA FenceKept ==
  ASSUME AssistantInv, TypeOK', NEW q \in Requests, pc[q] \in Sending, input[q].op = "send",
         input'[q] = input[q], seen'[q].version = seen[q].version, TurnKept(q),
         ConversationKept(input[q].conversation)
  PROVE  /\ Fenced(q)'
         /\ ~Stale(q)' => ~Stale(q) /\ conversation'[input[q].conversation] =
                                         conversation[input[q].conversation]
         /\ ~Stale(q)' => turn'[q] = turn[q]
<1> DEFINE i == input[q].conversation
<1>1. TypeOK /\ Stage(q) /\ Fenced(q) BY DEF AssistantInv, Fence
<1>2. i \in Requests BY <1>1, InputKinds DEF Stage, Sending, Getting
<1>3. /\ conversation[i].version \in Nat /\ seen[q].version \in Nat /\ turn[q].version \in Nat
      /\ i = turn[q].conversation
  BY <1>1, <1>2 DEF TypeOK, TablesOK, ControlOK, Conversations, Memories, Turns, Fenced
<1> HIDE DEF i
<1>4. ~Stale(q) <=> conversation[i].version = seen[q].version
                    /\ conversation[i].status \notin Closed
  BY DEF Stale, i
<1>5. ~Stale(q)' <=> conversation'[i].version = seen[q].version
                     /\ conversation'[i].status \notin Closed
  BY DEF Stale, i
<1>6. /\ turn[q].status # "absent" /\ seen[q].version <= conversation[i].version
      /\ turn[q].version = seen[q].version => turn[q].status \notin Settled
      /\ ~Stale(q) => /\ conversation[i].status = "PROCESSING" /\ turn[q].status = "PROCESSING"
                      /\ turn[q].version = seen[q].version
  BY <1>1 DEF Fenced, i
<1>7. ~Stale(q)' => ~Stale(q) /\ conversation'[i] = conversation[i]
  <2> SUFFICES ASSUME conversation'[i].version = seen[q].version,
                      conversation'[i].status \notin Closed
               PROVE  ~Stale(q) /\ conversation'[i] = conversation[i]
    BY <1>5
  <2>1. conversation'[i] = conversation[i]
    BY <1>3, <1>6 DEF ConversationKept, i
  <2> QED BY <1>4, <2>1
<1>8. seen[q].version <= conversation'[i].version
  <2>1. \/ conversation'[i].version = conversation[i].version
        \/ conversation'[i].version >= conversation[i].version
        \/ conversation'[i].version > conversation[i].version
    BY DEF ConversationKept, i
  <2>2. conversation'[i].version \in Nat BY <1>2 DEF TypeOK, TablesOK, ControlOK, Conversations
  <2> QED BY <1>3, <1>6, <2>1, <2>2
<1>9. ~Stale(q)' => turn'[q] = turn[q]
  <2> SUFFICES ASSUME ~Stale(q)' PROVE turn'[q] = turn[q]
    OBVIOUS
  <2>1. conversation'[i] = conversation[i] /\ conversation[i].status = "PROCESSING"
    BY <1>6, <1>7
  <2> QED BY <1>3, <2>1 DEF TurnKept, Closed
<1>10. turn'[q].version = seen[q].version => turn'[q].status \notin Settled
  <2>1. CASE turn'[q] = turn[q] BY <1>6, <2>1
  <2>2. CASE turn'[q].status \in Closed BY <2>2 DEF Closed, Settled
  <2>3. CASE turn'[q].version > conversation[i].version BY <1>3, <1>6, <2>3
  <2> QED BY <1>3, <2>1, <2>2, <2>3 DEF TurnKept
<1>11. turn'[q].status # "absent" /\ turn'[q].conversation = i
  BY <1>3, <1>6 DEF TurnKept, SameTurn, Closed
<1> QED
  BY <1>6, <1>7, <1>8, <1>9, <1>10, <1>11 DEF Fenced, i


\* Others keep what they rely on.
LEMMA OthersKeep ==
  ASSUME AssistantInv, TypeOK', NEW r \in Requests, Effects(r), NEW q \in Requests \ {r},
         pc[r] \in Scoped => scopeLock = r
  PROVE  Stage(q)' /\ InScope(q)' /\ Fence(q)' /\ Timely(q)'
<1>1. pc'[q] = pc[q] /\ input'[q] = input[q] /\ seen'[q] = seen[q] BY DEF Effects, OthersWait
<1>2. Stage(q) /\ InScope(q) /\ Fence(q) /\ Timely(q) /\ TypeOK BY DEF AssistantInv
<1>3. \A i \in Requests : conversation[i].status # "absent" => conversation'[i].status # "absent"
  BY DEF Effects, ConversationKept, ConversationOwned, ConversationNew, Closed, Open
<1>4. conversation'[q].status # "absent" => conversation[q].status # "absent"
  <2>1. ConversationOwned(r, q) => conversation[q].status = "PROCESSING"
    BY ProcessingOfFresh DEF ConversationOwned
  <2>2. ConversationKept(q) \/ ConversationOwned(r, q) BY DEF Effects, ConversationNew
  <2> QED BY <2>1, <2>2 DEF ConversationKept, Closed
<1>5. turn'[q].status # "absent" => turn[q].status # "absent"
  BY DEF Effects, TurnKept
<1>6. /\ pc[q] \in {"claim", "cancel"} => input[q].conversation \in Requests
      /\ pc[q] = "expire" => seen[q].found \in Requests
  BY <1>2, InputKinds DEF Stage, TypeOK, ControlOK, Memories
<1>7. Stage(q)' BY <1>1, <1>2, <1>3, <1>4, <1>5, <1>6 DEF Stage
<1>8. InScope(q)'
  <2>1. pc[q] \in Scoped => scopeLock = q /\ scopeLock' = q BY <1>2 DEF InScope, Effects
  <2>2. ASSUME pc[q] = "insert", seen[q].found = None, NEW i \in Requests, i \in Mine(q)'
        PROVE  Expired(conversation'[i], seen[q].now)
    <3>1. input[q].op = "start" /\ scopeLock = q BY <1>2, <2>2, <2>1 DEF Stage, Scoped
    <3>2. conversation'[i].status \in Open /\ conversation'[i].profile = input[q].profile
      BY <1>1, <2>2, <3>1 DEF Mine, IsOpen, ProfileOf
    <3>3. ~ConversationNew(r, i) BY <3>1 DEF ConversationNew, Scoped
    <3>4. /\ conversation[i].status \in Open
          /\ conversation'[i].profile = conversation[i].profile
          /\ conversation'[i].expiresAt = conversation[i].expiresAt
      <4>1. CASE ConversationKept(i)
        <5>1. conversation[i].status \in {"absent"} \cup Open \cup Closed
          BY <1>2 DEF TypeOK, TablesOK, ControlOK, Conversations
        <5> QED BY <3>2, <4>1, <5>1 DEF ConversationKept, Open, Closed
      <4>2. CASE ConversationOwned(r, i)
        <5>1. conversation[i].status = "PROCESSING"
          BY <4>2, ProcessingOfFresh DEF ConversationOwned
        <5> QED BY <4>2, <5>1 DEF ConversationOwned, Open
      <4> QED BY <3>3, <4>1, <4>2 DEF Effects
    <3>5. i \in Mine(q) BY <3>1, <3>2, <3>4 DEF Mine, IsOpen, ProfileOf
    <3>6. Expired(conversation[i], seen[q].now) BY <1>2, <2>2, <3>5 DEF InScope
    <3> QED BY <3>4, <3>6 DEF Expired
  <2>3. Mine(q)' \subseteq Requests BY DEF Mine
  <2> QED BY <1>1, <2>1, <2>2, <2>3 DEF InScope
<1>9. CASE ~(pc[q] \in Sending /\ input[q].op = "send")
  BY <1>1, <1>7, <1>8, <1>9 DEF Fence, Timely, Sending, Getting
<1>10. CASE pc[q] \in Sending /\ input[q].op = "send"
  <2> DEFINE i == input[q].conversation
  <2>1. i \in Requests BY <1>2, <1>10, InputKinds DEF Stage, Sending, Getting
  <2>2. Fenced(q) /\ TurnKept(q) BY <1>2, <1>10 DEF Fence, Effects
  <2>3. CASE ConversationKept(i)
    <3>1. /\ Fenced(q)'
          /\ ~Stale(q)' => ~Stale(q) /\ conversation'[i] = conversation[i]
      BY <1>1, <1>10, <2>2, <2>3, FenceKept
    <3>2. turn'[q].createdAt = turn[q].createdAt BY <2>2 DEF TurnKept, SameTurn
    <3>3. Fence(q)' BY <1>1, <1>2, <1>10, <3>1, <3>2 DEF Fence
    <3>4. Timely(q)' BY <1>1, <1>2, <3>1 DEF Timely
    <3> QED BY <1>7, <1>8, <3>3, <3>4
  <2>4. CASE ConversationNew(r, i)
    <3>1. conversation[i].status # "absent"
      BY <2>1, <2>2 DEF Fenced, AssistantInv, TableInv, TurnsBelong
    <3> QED BY <2>4, <3>1 DEF ConversationNew
  <2>5. CASE ConversationOwned(r, i)
    <3>1. Processing(i) = {r} /\ conversation[i].status = "PROCESSING"
          /\ pc[r] \in Sending /\ input[r].op = "send" /\ ~Stale(r) /\ i = input[r].conversation
      BY <2>5, ProcessingOfFresh DEF ConversationOwned
    <3>2. Stale(q) BY <1>10, <3>1, ProcessingOfFresh
    <3>3. conversation[i].version # seen[q].version
      BY <3>1, <3>2 DEF Stale, Closed
    <3>4. conversation'[i].version = conversation[i].version BY <2>5 DEF ConversationOwned
    <3>5. Stale(q)' BY <1>1, <3>3, <3>4 DEF Stale
    <3>6. turn'[q].status # "absent" /\ turn'[q].conversation = i
          /\ turn'[q].createdAt = turn[q].createdAt
          /\ (turn'[q].version = seen[q].version => turn'[q].status \notin Settled)
      <4>1. turn[q].status # "PROCESSING"
        <5>1. turn[q].status = "PROCESSING" => q \in Processing(i)
          BY <2>2 DEF Processing, TurnsOf, Fenced
        <5> QED BY <3>1, <5>1
      <4>2. turn'[q] = turn[q] BY <2>2, <4>1 DEF TurnKept
      <4> QED BY <2>2, <4>2 DEF Fenced
    <3>7. Fenced(q)' BY <1>1, <2>2, <3>4, <3>5, <3>6 DEF Fenced
    <3>8. Fence(q)' BY <1>1, <1>2, <1>10, <3>6, <3>7 DEF Fence
    <3>9. Timely(q)' BY <3>5 DEF Timely
    <3> QED BY <1>7, <1>8, <3>8, <3>9
  <2> QED BY <2>1, <2>3, <2>4, <2>5 DEF Effects
<1> QED BY <1>9, <1>10


-----------------------------------------------------------------------------
(* What steps make of the tables.                                          *)

\* A request's own turn: written again, or claimed with a key of its own.
TurnWritten(r) ==
  /\ turn[r].status # "absent" /\ turn'[r].status # "absent"
  /\ SameTurn(turn'[r], turn[r])
  /\ turn'[r].status \in {"ANSWERED", "AWAITING_CLARIFICATION"} =>
       /\ turn'[r].answeredAt < conversation[turn[r].conversation].expiresAt
       /\ turn'[r].answeredAt - turn[r].createdAt < Lease

TurnNew(r) ==
  /\ turn[r].status = "absent" /\ turn'[r].status = "PROCESSING"
  /\ turn'[r].conversation \in Requests
  /\ conversation[turn'[r].conversation].status # "absent"
  /\ \A t \in Requests :
       turn[t].status # "absent" /\ turn[t].conversation = turn'[r].conversation
       => turn[t].key # turn'[r].key

LEMMA TurnsKept ==
  ASSUME AssistantInv, NEW r \in Requests,
         \A i \in Requests :
           ConversationKept(i) \/ ConversationOwned(r, i) \/ ConversationNew(r, i),
         \A t \in Requests \ {r} : TurnKept(t),
         TurnKept(r) \/ TurnWritten(r) \/ TurnNew(r)
  PROVE  TurnsBelong' /\ OneTurnPerKey' /\ AnsweredInTime'
<1>1. TypeOK /\ TurnsBelong /\ OneTurnPerKey /\ AnsweredInTime BY DEF AssistantInv, TableInv
<1>2. \A i \in Requests : conversation[i].status # "absent" =>
        conversation'[i].status # "absent"
        /\ conversation'[i].expiresAt = conversation[i].expiresAt
  BY DEF ConversationKept, ConversationOwned, ConversationNew, Closed, Open
<1>3. ASSUME NEW t \in Requests, t # r \/ ~TurnNew(r)
      PROVE  /\ turn'[t].conversation = turn[t].conversation /\ turn'[t].key = turn[t].key
             /\ turn'[t].createdAt = turn[t].createdAt
             /\ turn'[t].status = "absent" <=> turn[t].status = "absent"
             /\ turn'[t] = turn[t] \/ TurnWritten(t)
                \/ turn'[t].status \notin {"ANSWERED", "AWAITING_CLARIFICATION"}
  <2>1. CASE TurnKept(t) BY <2>1 DEF TurnKept, SameTurn, Closed
  <2>2. CASE TurnWritten(t) BY <2>2 DEF TurnWritten, SameTurn
  <2> QED BY <1>3, <2>1, <2>2
<1>4. TurnsBelong'
  <2> SUFFICES ASSUME NEW t \in Requests
               PROVE  /\ turn'[t].status = "absent" => turn'[t].conversation = None
                      /\ turn'[t].status # "absent" =>
                           /\ turn'[t].conversation \in Requests
                           /\ conversation'[turn'[t].conversation].status # "absent"
    BY DEF TurnsBelong
  <2>1. CASE t # r \/ ~TurnNew(r) BY <1>1, <1>2, <1>3, <2>1 DEF TurnsBelong
  <2>2. CASE t = r /\ TurnNew(r) BY <1>2, <2>2 DEF TurnNew
  <2> QED BY <2>1, <2>2
<1>5. OneTurnPerKey' BY <1>1, <1>3 DEF OneTurnPerKey, TurnNew
<1>6. AnsweredInTime'
  <2> SUFFICES ASSUME NEW t \in Requests,
                      turn'[t].status \in {"ANSWERED", "AWAITING_CLARIFICATION"}
               PROVE  /\ turn'[t].answeredAt < conversation'[turn'[t].conversation].expiresAt
                      /\ turn'[t].answeredAt - turn'[t].createdAt < Lease
    BY DEF AnsweredInTime
  <2>1. t # r \/ ~TurnNew(r) BY DEF TurnNew
  <2>2. /\ turn[t].conversation \in Requests /\ turn'[t].conversation = turn[t].conversation
        /\ conversation'[turn[t].conversation].expiresAt =
             conversation[turn[t].conversation].expiresAt
    BY <1>1, <1>2, <1>3, <2>1 DEF TurnsBelong
  <2>3. CASE turn'[t] = turn[t] BY <1>1, <2>2, <2>3 DEF AnsweredInTime
  <2>4. CASE TurnWritten(t) BY <1>3, <2>1, <2>2, <2>4 DEF TurnWritten
  <2> QED BY <1>3, <2>1, <2>3, <2>4
<1> QED BY <1>4, <1>5, <1>6

LEMMA OpenKept ==
  ASSUME AssistantInv, NEW r \in Requests,
         \A i \in Requests :
           ConversationKept(i) \/ ConversationOwned(r, i) \/ ConversationNew(r, i),
         \A i \in Requests :
           ConversationNew(r, i) => \A j \in Requests : IsOpen(j)' => j = r
  PROVE  OneOpenContext'
<1>1. TypeOK /\ OneOpenContext BY DEF AssistantInv, TableInv
<1>2. ASSUME NEW i \in Requests, IsOpen(i)', ~ConversationNew(r, i) PROVE IsOpen(i)
  <2>1. conversation[i].status \in {"absent"} \cup Open \cup Closed
    BY <1>1 DEF TypeOK, TablesOK, ControlOK, Conversations
  <2>2. CASE ConversationOwned(r, i)
    BY <2>2, ProcessingOfFresh DEF ConversationOwned, IsOpen, Open
  <2> QED BY <1>2, <2>1, <2>2 DEF ConversationKept, IsOpen, Open, Closed
<1> QED BY <1>1, <1>2 DEF OneOpenContext

\* Conversations are closed, together with turns of theirs, and one may be opened
\* after all others are closed.
\* What closing writes: the turns ts that are in progress take the status, and a
\* conversation takes it, is left alone, or is the new one of r.
Closes(r, ts, status, now) ==
  /\ conversation' \in [Requests -> Conversations]
  /\ turn' = TurnsClosed(ts, status, now)
  /\ \A i \in Requests :
       \/ conversation'[i] = conversation[i]
       \/ /\ ConversationKept(i) /\ conversation'[i].status = status
          /\ status = "CANCELLED" => TurnsOf(i) \subseteq ts
       \/ ConversationNew(r, i) /\ conversation'[i].status = "ACTIVE"
  /\ \A t \in ts \cap Requests : turn[t].status = "PROCESSING" =>
       conversation'[turn[t].conversation].status \in Closed
  /\ \A i \in Requests :
       ConversationNew(r, i) => \A j \in Requests : IsOpen(j)' => j = r

LEMMA CloseTables ==
  ASSUME AssistantInv, NEW r \in Requests, NEW ts, NEW status \in Closed, NEW now \in Times,
         Closes(r, ts, status, now)
  PROVE  /\ TableInv'
         /\ turn' \in [Requests -> Turns]
         /\ \A i \in Requests : ConversationKept(i) \/ ConversationNew(r, i)
         /\ \A t \in Requests : TurnKept(t)
<1>0. /\ conversation' \in [Requests -> Conversations]
      /\ turn' = TurnsClosed(ts, status, now)
      /\ \A i \in Requests :
           \/ conversation'[i] = conversation[i]
           \/ /\ ConversationKept(i) /\ conversation'[i].status = status
              /\ status = "CANCELLED" => TurnsOf(i) \subseteq ts
           \/ ConversationNew(r, i) /\ conversation'[i].status = "ACTIVE"
      /\ \A t \in ts \cap Requests : turn[t].status = "PROCESSING" =>
           conversation'[turn[t].conversation].status \in Closed
      /\ \A i \in Requests :
           ConversationNew(r, i) => \A j \in Requests : IsOpen(j)' => j = r
  BY DEF Closes
<1>1. TypeOK /\ OneProcessing /\ TurnsBelong BY DEF AssistantInv, TableInv
<1>2. /\ turn' \in [Requests -> Turns]
      /\ \A t \in Requests :
           IF t \in ts /\ turn[t].status = "PROCESSING"
             THEN /\ turn'[t].status = status /\ turn'[t].version = turn[t].version
                  /\ SameTurn(turn'[t], turn[t])
             ELSE turn'[t] = turn[t]
  <2>1. PICK rows : rows = TurnsClosed(ts, status, now) OBVIOUS
  <2>2. /\ rows \in [Requests -> Turns]
        /\ \A t \in Requests :
             IF t \in ts /\ turn[t].status = "PROCESSING"
               THEN /\ rows[t].status = status /\ rows[t].version = turn[t].version
                    /\ SameTurn(rows[t], turn[t])
               ELSE rows[t] = turn[t]
    BY <1>1, <2>1, TurnsClosedType
  <2>3. turn' = rows BY <1>0, <2>1
  <2> QED BY <2>2, <2>3
<1>3. \A i \in Requests : ConversationKept(i) \/ ConversationNew(r, i) BY <1>0 DEF ConversationKept
<1>4. ASSUME NEW t \in Requests PROVE TurnKept(t)
  <2>1. CASE t \in ts /\ turn[t].status = "PROCESSING"
    <3>1. conversation'[turn[t].conversation].status \in Closed BY <1>0, <2>1
    <3> QED BY <1>2, <2>1, <3>1 DEF TurnKept
  <2>2. CASE ~(t \in ts /\ turn[t].status = "PROCESSING") BY <1>2, <2>2 DEF TurnKept
  <2> QED BY <2>1, <2>2
<1>5. TurnsBelong' /\ OneTurnPerKey' /\ AnsweredInTime' BY <1>0, <1>3, <1>4, TurnsKept
<1>6. OneOpenContext' BY <1>0, <1>3, OpenKept
<1>7. OneProcessing'
  <2> SUFFICES ASSUME NEW i \in Requests
               PROVE  /\ conversation'[i].status = "PROCESSING" =>
                           \E t \in Requests :
                             /\ Processing(i)' = {t}
                             /\ turn'[t].version = conversation'[i].version
                             /\ turn'[t].createdAt = conversation'[i].updatedAt
                      /\ Processing(i)' # {} =>
                           conversation'[i].status \in {"PROCESSING", "EXPIRED"}
    BY DEF OneProcessing
  <2>1. \A t \in Processing(i)' : t \in Processing(i) /\ t \notin ts
    BY <1>2 DEF Processing, TurnsOf, SameTurn, Closed
  <2>2. CASE conversation'[i] = conversation[i]
    <3>1. CASE conversation[i].status = "PROCESSING"
      <4>1. PICK t \in Requests : /\ Processing(i) = {t}
                                  /\ turn[t].version = conversation[i].version
                                  /\ turn[t].createdAt = conversation[i].updatedAt
        BY <1>1, <3>1 DEF OneProcessing
      <4>2. turn[t].status = "PROCESSING" /\ turn[t].conversation = i
        BY <4>1 DEF Processing, TurnsOf
      <4>3. t \notin ts BY <1>0, <2>2, <3>1, <4>1, <4>2 DEF Closed
      <4>4. turn'[t] = turn[t] BY <1>2, <4>3
      <4>5. Processing(i)' = {t} BY <2>1, <4>1, <4>2, <4>4 DEF Processing, TurnsOf
      <4> QED BY <2>2, <3>1, <4>1, <4>4, <4>5
    <3>2. CASE conversation[i].status # "PROCESSING"
      BY <1>1, <2>1, <2>2, <3>2 DEF OneProcessing
    <3> QED BY <3>1, <3>2
  <2>3. CASE conversation'[i].status = status /\ (status = "CANCELLED" => TurnsOf(i) \subseteq ts)
    <3>1. status = "CANCELLED" => Processing(i)' = {}
      BY <2>1, <2>3 DEF Processing
    <3> QED BY <2>3, <3>1 DEF Closed
  <2>4. CASE ConversationNew(r, i) /\ conversation'[i].status = "ACTIVE"
    <3>1. Processing(i) = {}
      BY <1>1, <2>4 DEF Processing, TurnsOf, TurnsBelong, ConversationNew
    <3> QED BY <2>1, <2>4, <3>1
  <2> QED BY <1>0, <2>2, <2>3, <2>4
<1> QED BY <1>2, <1>3, <1>4, <1>5, <1>6, <1>7 DEF TableInv


\* The turn of an interrupted process is failed, with its conversation.
LEMMA RecoverTables ==
  ASSUME AssistantInv, NEW r \in Requests, NEW i \in Requests, NEW now \in Times,
         conversation[i].status = "PROCESSING",
         conversation' = [conversation EXCEPT ![i] = RecoveredRow(conversation[i], now)],
         turn' = TurnsRecovered(i, now)
  PROVE  /\ TableInv' /\ TablesOK'
         /\ \A j \in Requests : ConversationKept(j)
         /\ \A t \in Requests : TurnKept(t)
<1>1. TypeOK /\ OneProcessing BY DEF AssistantInv, TableInv
<1>2. PICK row : row = RecoveredRow(conversation[i], now) OBVIOUS
<1>3. /\ row \in Conversations /\ row.status = "FAILED" /\ row.profile = conversation[i].profile
      /\ row.expiresAt = conversation[i].expiresAt
      /\ row.version = conversation[i].version + 1
  BY <1>1, <1>2, RecoveredRowType DEF TypeOK, TablesOK
<1>4. /\ conversation' \in [Requests -> Conversations]
      /\ conversation'[i] = row
      /\ \A j \in Requests \ {i} : conversation'[j] = conversation[j]
  BY <1>1, <1>2, <1>3 DEF TypeOK, TablesOK
<1>5. conversation[i].version \in Nat BY <1>1 DEF TypeOK, TablesOK, Conversations
<1>6. \A j \in Requests : ConversationKept(j)
  BY <1>3, <1>4, <1>5 DEF ConversationKept, Closed
<1>7. PICK rows : rows = TurnsRecovered(i, now) OBVIOUS
<1>8. /\ turn' \in [Requests -> Turns]
      /\ \A t \in Requests :
           IF t \in Processing(i)
             THEN /\ turn'[t].status = "FAILED"
                  /\ turn'[t].version = conversation[i].version + 1
                  /\ SameTurn(turn'[t], turn[t])
             ELSE turn'[t] = turn[t]
  BY <1>1, <1>7, TurnsRecoveredType
<1>9. \A t \in Requests : TurnKept(t)
  BY <1>3, <1>4, <1>5, <1>8 DEF TurnKept, Processing, TurnsOf
<1>10. TurnsBelong' /\ OneTurnPerKey' /\ AnsweredInTime' BY <1>6, <1>9, TurnsKept
<1>11. OneOpenContext'
  <2>1. \A j \in Requests : ~ConversationNew(r, j)
    BY <1>3, <1>4 DEF ConversationNew
  <2> QED BY <1>6, <2>1, OpenKept
<1>12. OneProcessing'
  <2> SUFFICES ASSUME NEW j \in Requests
               PROVE  /\ conversation'[j].status = "PROCESSING" =>
                           \E t \in Requests :
                             /\ Processing(j)' = {t}
                             /\ turn'[t].version = conversation'[j].version
                             /\ turn'[t].createdAt = conversation'[j].updatedAt
                      /\ Processing(j)' # {} =>
                           conversation'[j].status \in {"PROCESSING", "EXPIRED"}
    BY DEF OneProcessing
  <2>1. \A t \in Requests : t \in Processing(j)' <=> t \in Processing(j) /\ t \notin Processing(i)
    BY <1>8 DEF Processing, TurnsOf, SameTurn
  <2>2. Processing(j) \subseteq Requests /\ Processing(j)' \subseteq Requests
    BY DEF Processing, TurnsOf
  <2>3. CASE j = i BY <1>3, <1>4, <2>1, <2>2, <2>3
  <2>4. CASE j # i
    <3>1. Processing(j) \cap Processing(i) = {} BY <2>4 DEF Processing, TurnsOf
    <3>2. Processing(j)' = Processing(j) BY <2>1, <2>2, <3>1
    <3>3. \A t \in Processing(j) : turn'[t] = turn[t] BY <1>8, <2>2, <3>1
    <3> QED BY <1>1, <1>4, <2>4, <3>2, <3>3 DEF OneProcessing
  <2> QED BY <2>3, <2>4
<1> QED BY <1>4, <1>6, <1>8, <1>9, <1>10, <1>11, <1>12 DEF TableInv, TablesOK

\* A new turn takes an open conversation in which nothing is being processed any
\* more.
LEMMA ClaimTables ==
  ASSUME AssistantInv, NEW r \in Requests, NEW i \in Requests,
         conversation[i].status \in Open,
         conversation' \in [Requests -> Conversations],
         \A j \in Requests \ {i} : conversation'[j] = conversation[j],
         conversation'[i].status = "PROCESSING",
         conversation'[i].version > conversation[i].version,
         conversation'[i].profile = conversation[i].profile,
         conversation'[i].expiresAt = conversation[i].expiresAt,
         TurnNew(r),
         turn'[r].conversation = i,
         turn'[r].version = conversation'[i].version,
         turn'[r].createdAt = conversation'[i].updatedAt,
         \A t \in Requests \ {r} :
           IF t \in Processing(i)
             THEN /\ turn'[t].status = "FAILED"
                  /\ turn'[t].version > conversation[i].version
                  /\ SameTurn(turn'[t], turn[t])
             ELSE turn'[t] = turn[t]
  PROVE  /\ TableInv'
         /\ \A j \in Requests : ConversationKept(j)
         /\ \A t \in Requests \ {r} : TurnKept(t)
<1>1. TypeOK /\ OneProcessing BY DEF AssistantInv, TableInv
<1>2. \A j \in Requests : ConversationKept(j) BY DEF ConversationKept, Open, Closed
<1>3. \A t \in Requests \ {r} : TurnKept(t) BY DEF TurnKept, Processing, TurnsOf
<1>4. TurnsBelong' /\ OneTurnPerKey' /\ AnsweredInTime' BY <1>2, <1>3, TurnsKept
<1>5. OneOpenContext'
  <2>1. \A j \in Requests : ~ConversationNew(r, j) BY DEF ConversationNew, Open
  <2> QED BY <1>2, <2>1, OpenKept
<1>6. OneProcessing'
  <2> SUFFICES ASSUME NEW j \in Requests
               PROVE  /\ conversation'[j].status = "PROCESSING" =>
                           \E t \in Requests :
                             /\ Processing(j)' = {t}
                             /\ turn'[t].version = conversation'[j].version
                             /\ turn'[t].createdAt = conversation'[j].updatedAt
                      /\ Processing(j)' # {} =>
                           conversation'[j].status \in {"PROCESSING", "EXPIRED"}
    BY DEF OneProcessing
  <2>1. \A t \in Requests \ {r} :
          t \in Processing(j)' <=> t \in Processing(j) /\ t \notin Processing(i)
    BY DEF Processing, TurnsOf, SameTurn
  <2>2. Processing(j) \subseteq Requests /\ Processing(j)' \subseteq Requests
    BY DEF Processing, TurnsOf
  <2>3. r \in Processing(j)' <=> j = i BY DEF Processing, TurnsOf, TurnNew
  <2>4. CASE j = i
    <3>1. Processing(i)' = {r} BY <2>1, <2>2, <2>3, <2>4
    <3> QED BY <2>4, <3>1
  <2>5. CASE j # i
    <3>1. Processing(j) \cap Processing(i) = {} BY <2>5 DEF Processing, TurnsOf
    <3>2. r \notin Processing(j) BY DEF Processing, TurnsOf, TurnNew
    <3> DEFINE P == Processing(j)
               Q == Processing(j)'
    <3>3. Q = P
      <4>1. \A t \in Requests : t \in Q <=> t \in P BY <2>1, <2>3, <2>5, <3>1, <3>2
      <4>2. P \subseteq Requests /\ Q \subseteq Requests BY <2>2
      <4> HIDE DEF P, Q
      <4> QED BY <4>1, <4>2
    <3>4. \A t \in Processing(j) : turn'[t] = turn[t] BY <2>2, <3>1, <3>2
    <3> QED BY <1>1, <2>5, <3>3, <3>4 DEF OneProcessing
  <2> QED BY <2>4, <2>5
<1> QED BY <1>2, <1>3, <1>4, <1>5, <1>6 DEF TableInv


\* A request that still has its turn writes it, and its conversation.
LEMMA OwnedTables ==
  ASSUME AssistantInv, NEW r \in Requests, NEW i \in Requests,
         ConversationOwned(r, i), TurnWritten(r),
         \A j \in Requests \ {i} : conversation'[j] = conversation[j],
         \A t \in Requests \ {r} : turn'[t] = turn[t],
         \/ /\ conversation'[i].status = "PROCESSING" /\ turn'[r].status = "PROCESSING"
            /\ turn'[r].version = turn[r].version
            /\ conversation'[i].updatedAt = turn[r].createdAt
         \/ conversation'[i].status \in Settled /\ turn'[r].status \in Settled
  PROVE  TableInv'
<1>1. TypeOK /\ OneProcessing BY DEF AssistantInv, TableInv
<1>2. \A j \in Requests : ConversationKept(j) \/ ConversationOwned(r, j) BY DEF ConversationKept
<1>3. \A t \in Requests \ {r} : TurnKept(t) BY DEF TurnKept
<1>4. TurnsBelong' /\ OneTurnPerKey' /\ AnsweredInTime' BY <1>2, <1>3, TurnsKept
<1>5. OneOpenContext'
  <2>1. \A j \in Requests : ~ConversationNew(r, j)
    BY DEF ConversationNew, ConversationOwned, Sending, Getting
  <2> QED BY <1>2, <2>1, OpenKept
<1>6. /\ Processing(i) = {r} /\ turn[r].version = conversation[i].version
      /\ turn[r].conversation = i /\ turn'[r].conversation = i
      /\ conversation'[i].version = conversation[i].version
  BY ProcessingOfFresh DEF ConversationOwned, TurnWritten, SameTurn
<1>7. OneProcessing'
  <2> SUFFICES ASSUME NEW j \in Requests
               PROVE  /\ conversation'[j].status = "PROCESSING" =>
                           \E t \in Requests :
                             /\ Processing(j)' = {t}
                             /\ turn'[t].version = conversation'[j].version
                             /\ turn'[t].createdAt = conversation'[j].updatedAt
                      /\ Processing(j)' # {} =>
                           conversation'[j].status \in {"PROCESSING", "EXPIRED"}
    BY DEF OneProcessing
  <2>1. \A t \in Requests \ {r} : t \in Processing(j)' <=> t \in Processing(j)
    BY DEF Processing, TurnsOf
  <2>2. Processing(j) \subseteq Requests /\ Processing(j)' \subseteq Requests
    BY DEF Processing, TurnsOf
  <2>3. r \in Processing(j)' <=> j = i /\ turn'[r].status = "PROCESSING"
    BY <1>6 DEF Processing, TurnsOf
  <2>4. CASE j = i /\ turn'[r].status = "PROCESSING"
    <3>1. Processing(i)' = {r} BY <1>6, <2>1, <2>2, <2>3, <2>4
    <3> QED BY <1>6, <2>4, <3>1 DEF TurnWritten, SameTurn, Settled
  <2>5. CASE j = i /\ turn'[r].status # "PROCESSING"
    <3>1. Processing(i)' = {} BY <1>6, <2>1, <2>2, <2>3, <2>5
    <3> QED BY <2>5, <3>1 DEF Settled
  <2>6. CASE j # i
    <3> DEFINE P == Processing(j)
               Q == Processing(j)'
    <3>1. r \notin P BY <1>6, <2>6 DEF Processing, TurnsOf
    <3>2. Q = P
      <4>1. \A t \in Requests : t \in Q <=> t \in P BY <2>1, <2>3, <2>6, <3>1
      <4>2. P \subseteq Requests /\ Q \subseteq Requests BY <2>2
      <4> HIDE DEF P, Q
      <4> QED BY <4>1, <4>2
    <3>3. \A t \in P : turn'[t] = turn[t] BY <2>2, <3>1
    <3> QED BY <1>1, <2>6, <3>2, <3>3 DEF OneProcessing
  <2> QED BY <2>4, <2>5, <2>6
<1> QED BY <1>4, <1>5, <1>7 DEF TableInv

-----------------------------------------------------------------------------
(* The moves of a request.                                                 *)

\* A step is sound when it has these effects and leaves its own request right.
LEMMA Assembled ==
  ASSUME AssistantInv, NEW r \in Requests, TypeOK', TableInv', Effects(r),
         Stage(r)', InScope(r)', Fence(r)', Timely(r)'
  PROVE  AssistantInv'
<1>1. pc[r] \in Scoped => scopeLock = r BY DEF AssistantInv, InScope
<1>2. \A q \in Requests \ {r} : Stage(q)' /\ InScope(q)' /\ Fence(q)' /\ Timely(q)'
  BY <1>1, OthersKeep
<1> QED BY <1>2 DEF AssistantInv

\* Rows are inserted by the request they are named after, before it ends or while
\* it has a turn.
TurnNotInserted(r) == turn'[r].status # "absent" => turn[r].status # "absent"

NothingInserted(r) ==
  /\ conversation'[r].status # "absent" => conversation[r].status # "absent"
  /\ TurnNotInserted(r)

LEMMA StopMoves ==
  ASSUME AssistantInv, NEW r \in Requests, NEW how \in Stopped, Stop(r, how),
         pc[r] \notin Stopped \cup {"idle"},
         TurnNotInserted(r), how # "done" => NothingInserted(r),
         how \in {"rejected", "expired"} => pc[r] = "claim"
  PROVE  ControlOK' /\ OthersWait(r) /\ Stage(r)' /\ InScope(r)' /\ Fence(r)' /\ Timely(r)'
<1>1. TypeOK /\ Stage(r) BY DEF AssistantInv
<1>2. NothingSeen \in Memories
  BY ChecksAssumption, TimesAssumption DEF NothingSeen, Memories, Times
<1>3. pc' = [pc EXCEPT ![r] = how] /\ input' = input /\ clock' = clock
      /\ seen' = [seen EXCEPT ![r] = NothingSeen]
  BY DEF Stop, Goto
<1>4. ControlOK' BY <1>1, <1>2, <1>3 DEF TypeOK, ControlOK
<1>5. OthersWait(r) BY <1>1, <1>3 DEF OthersWait, TypeOK, ControlOK
<1>6. pc'[r] = how /\ input'[r] = input[r] /\ seen'[r] = NothingSeen
  BY <1>1, <1>3 DEF TypeOK, ControlOK
<1>7. how \notin Sending /\ how \notin {"idle", "find", "insert", "claim", "cancel"}
  BY DEF Stopped, Sending, Getting
<1>8. Stage(r)'
  <2>1. input[r] \in Inputs BY <1>1 DEF Stage
  <2>2. conversation'[r].status # "absent" => how = "done"
    BY <1>1 DEF Stage, NothingInserted, Stopped
  <2>3. turn'[r].status # "absent" => how \in {"done", "crashed"} /\ input[r].op = "send"
    BY <1>1 DEF Stage, TurnNotInserted, Stopped, Sending, Getting
  <2> QED BY <1>6, <1>7, <2>1, <2>2, <2>3, NoneAssumption DEF Stage, NothingSeen, Sending, Getting
<1> QED
  BY <1>4, <1>5, <1>6, <1>7, <1>8 DEF InScope, Fence, Timely, Scoped, Sending, Getting

LEMMA GetThenMoves ==
  ASSUME AssistantInv, NEW r \in Requests, NEW then \in {"consent", "finish"},
         NEW result \in Settled \cup {None}, GetThen(r, then, result),
         pc[r] \in Sending, input[r].op = "send", NothingInserted(r),
         then = "finish" => result # None,
         then = "consent" => seen[r].checks < ConsentChecks + MaxRetries
  PROVE  /\ ControlOK' /\ OthersWait(r) /\ Stage(r)' /\ InScope(r)' /\ Timely(r)'
         /\ pc'[r] = "lock" /\ input'[r] = input[r] /\ seen'[r].version = seen[r].version
<1>1. TypeOK /\ Stage(r) BY DEF AssistantInv
<1>2. PICK memory : memory = [seen[r] EXCEPT !.now = clock, !.then = then,
                                !.result = result, !.visible = {}, !.found = None]
  OBVIOUS
<1>3. seen[r] \in Memories /\ clock \in Times BY <1>1 DEF TypeOK, ControlOK
<1>4. /\ memory \in Memories /\ memory.version = seen[r].version
      /\ memory.then = then /\ memory.result = result /\ memory.checks = seen[r].checks
  BY <1>2, <1>3 DEF Memories
<1>5. pc' = [pc EXCEPT ![r] = "lock"] /\ input' = input /\ clock' = clock
      /\ seen' = [seen EXCEPT ![r] = memory]
  BY <1>2 DEF GetThen, Goto
<1>6. ControlOK' BY <1>1, <1>4, <1>5 DEF TypeOK, ControlOK, Sending, Getting
<1>7. OthersWait(r) BY <1>1, <1>5 DEF OthersWait, TypeOK, ControlOK
<1>8. pc'[r] = "lock" /\ input'[r] = input[r] /\ seen'[r] = memory
  BY <1>1, <1>5 DEF TypeOK, ControlOK
<1>9. Stage(r)'
  <2>1. input[r] \in Inputs BY <1>1 DEF Stage, Sending, Getting
  <2>2. conversation'[r].status = "absent"
    BY <1>1 DEF Stage, NothingInserted, TurnNotInserted, Sending, Getting
  <2> QED BY <1>4, <1>8, <2>1, <2>2 DEF Stage, Getting, Sending
<1> QED BY <1>4, <1>6, <1>7, <1>8, <1>9 DEF InScope, Timely, Scoped

LEMMA ProceedMoves ==
  ASSUME AssistantInv, NEW r \in Requests, NEW consent \in BOOLEAN, Proceed(r, consent),
         pc[r] \in {"read", "expire"}, NothingInserted(r)
  PROVE  /\ ControlOK' /\ OthersWait(r) /\ Stage(r)' /\ InScope(r)'
         /\ input'[r] = input[r]
         /\ \/ pc'[r] = "done"
            \/ /\ pc'[r] \in {"lock", "provider", "finalize"}
               /\ seen'[r].version = seen[r].version
               /\ pc'[r] = "finalize" => seen'[r] = seen[r]
<1>1. TypeOK /\ Stage(r) BY DEF AssistantInv
<1>2. seen[r] \in Memories /\ clock \in Times /\ pc[r] \in Getting
  BY <1>1 DEF TypeOK, ControlOK, Getting
<1>3. input[r] \in Inputs /\ conversation'[r].status = "absent"
  BY <1>1 DEF Stage, NothingInserted
<1>4. CASE seen[r].then = "reply" /\ Stop(r, "done")
  <2>1. pc'[r] = "done" /\ input'[r] = input[r]
    BY <1>1, <1>4 DEF Stop, Goto, TypeOK, ControlOK
  <2>2. ControlOK' /\ OthersWait(r) /\ Stage(r)' /\ InScope(r)'
    BY <1>4, StopMoves DEF Stopped, NothingInserted
  <2> QED BY <2>1, <2>2
<1>5. CASE seen[r].then = "finish" /\ Goto(r, "finalize") /\ UNCHANGED seen
  <2>1. pc' = [pc EXCEPT ![r] = "finalize"] /\ input' = input /\ clock' = clock /\ seen' = seen
    BY <1>5 DEF Goto
  <2>2. ControlOK' BY <1>1, <2>1 DEF TypeOK, ControlOK, Sending
  <2>3. OthersWait(r) BY <1>1, <2>1 DEF OthersWait, TypeOK, ControlOK
  <2>4. pc'[r] = "finalize" /\ input'[r] = input[r] /\ seen'[r] = seen[r]
    BY <1>1, <2>1 DEF TypeOK, ControlOK
  <2>5. Stage(r)' BY <1>1, <1>2, <1>3, <1>5, <2>4 DEF Stage, Getting, Sending
  <2> QED BY <2>2, <2>3, <2>4, <2>5 DEF InScope, Scoped
<1>6. CASE seen[r].then = "consent" /\ ~consent /\ GetThen(r, "finish", "ANSWERED")
  <2>1. input[r].op = "send" BY <1>1, <1>2, <1>6 DEF Stage
  <2>2. "ANSWERED" \in Settled /\ "ANSWERED" # None BY NoneAssumption DEF Settled
  <2> QED BY <1>2, <1>6, <2>1, <2>2, GetThenMoves DEF Sending
<1>7. CASE /\ seen[r].then = "consent" /\ consent
           /\ Goto(r, IF seen[r].checks + 1 < ConsentChecks THEN "lock" ELSE "provider")
           /\ seen' = [seen EXCEPT ![r] = [@ EXCEPT !.checks = seen[r].checks + 1, !.now = clock]]
  <2> DEFINE to == IF seen[r].checks + 1 < ConsentChecks THEN "lock" ELSE "provider"
  <2>1. PICK n : n = seen[r].checks + 1 OBVIOUS
  <2>2. n \in 0..(ConsentChecks + MaxRetries)
    BY <1>1, <1>2, <1>7, <2>1, ChecksAssumption DEF Stage, Memories, Getting
  <2>3. PICK memory : memory = [seen[r] EXCEPT !.checks = seen[r].checks + 1, !.now = clock]
    OBVIOUS
  <2>4. /\ memory \in Memories /\ memory.version = seen[r].version /\ memory.checks = n
        /\ memory.then = "consent" /\ memory.result = seen[r].result
    BY <1>2, <1>7, <2>1, <2>2, <2>3 DEF Memories
  <2>5. /\ pc' = [pc EXCEPT ![r] = to] /\ input' = input /\ clock' = clock
        /\ seen' = [seen EXCEPT ![r] = memory]
    <3>1. seen' = [seen EXCEPT ![r] = memory] BY <1>7, <2>3
    <3>2. Goto(r, to) BY <1>7
    <3> QED BY <3>1, <3>2 DEF Goto
  <2>6. to \in {"lock", "provider"} /\ (to = "lock" => n < ConsentChecks) BY <2>1
  <2> HIDE DEF to
  <2>7. ControlOK' BY <1>1, <2>4, <2>5, <2>6 DEF TypeOK, ControlOK, Sending, Getting
  <2>8. OthersWait(r) BY <1>1, <2>5 DEF OthersWait, TypeOK, ControlOK
  <2>9. pc'[r] = to /\ input'[r] = input[r] /\ seen'[r] = memory
    BY <1>1, <2>5 DEF TypeOK, ControlOK
  <2>10. to = "lock" => n < ConsentChecks + MaxRetries
    BY <2>2, <2>6, ChecksAssumption
  <2>11. input[r].op = "send" BY <1>1, <1>2, <1>7 DEF Stage
  <2>12. Stage(r)'
    BY <1>1, <1>3, <2>4, <2>6, <2>9, <2>10, <2>11 DEF Stage, Getting, Sending
  <2> QED BY <2>4, <2>6, <2>7, <2>8, <2>9, <2>12 DEF InScope, Scoped
<1> QED BY <1>4, <1>5, <1>6, <1>7 DEF Proceed


-----------------------------------------------------------------------------
(* One lemma per action.                                                   *)

LEMMA QuietTables ==
  ASSUME AssistantInv, NEW r \in Requests, UNCHANGED tables
  PROVE  /\ TableInv' /\ TablesOK' /\ NothingInserted(r)
         /\ \A i \in Requests : ConversationKept(i)
         /\ \A t \in Requests : TurnKept(t)
<1>1. TypeOK /\ TableInv /\ conversation' = conversation /\ turn' = turn
  BY DEF AssistantInv, tables
<1>2. TurnsBelong' /\ OneOpenContext' /\ OneTurnPerKey' /\ AnsweredInTime'
  BY <1>1 DEF TableInv, TurnsBelong, OneOpenContext, OneTurnPerKey, AnsweredInTime, IsOpen
<1>3. OneProcessing' BY <1>1 DEF TableInv, OneProcessing, Processing, TurnsOf
<1> QED
  BY <1>1, <1>2, <1>3 DEF TableInv, TypeOK, TablesOK, NothingInserted, TurnNotInserted,
  ConversationKept, TurnKept

LEMMA EffectsKept ==
  ASSUME NEW r \in Requests, OthersWait(r),
         \A i \in Requests : ConversationKept(i) \/ ConversationNew(r, i),
         \A t \in Requests : TurnKept(t),
         \A q \in Requests \ {r} : scopeLock = q => scopeLock' = q
  PROVE  Effects(r)
BY DEF Effects, TurnKept, Settled, Closed

\* The fence of a request that goes on after a step which keeps the tables.
LEMMA OwnFence ==
  ASSUME AssistantInv, TypeOK', NEW r \in Requests, pc[r] \in Sending,
         input'[r] = input[r], pc'[r] # "bind",
         pc'[r] \in Sending /\ input[r].op = "send" => seen'[r].version = seen[r].version,
         \A i \in Requests : ConversationKept(i),
         \A t \in Requests : TurnKept(t)
  PROVE  /\ Fence(r)'
         /\ pc'[r] \in Sending /\ input[r].op = "send" /\ ~Stale(r)' =>
              /\ ~Stale(r)
              /\ conversation'[input[r].conversation] = conversation[input[r].conversation]
<1>1. CASE ~(pc'[r] \in Sending /\ input[r].op = "send") BY <1>1 DEF Fence
<1>2. CASE pc'[r] \in Sending /\ input[r].op = "send"
  <2>1. input[r].conversation \in Requests
    BY <1>2, InputKinds DEF AssistantInv, Stage, Sending, Getting
  <2> QED BY <1>2, <2>1, FenceKept DEF Fence
<1> QED BY <1>1, <1>2

LEMMA ReleaseKeeps ==
  ASSUME AssistantInv, NEW r \in Requests, Release(r)
  PROVE  /\ scopeLock' \in Requests \cup {None}
         /\ \A q \in Requests \ {r} : scopeLock = q => scopeLock' = q
BY DEF AssistantInv, TypeOK, Release

LEMMA BeginStep ==
  ASSUME AssistantInv, NEW r \in Requests, NEW in \in Inputs,
         NEW to \in {"lock", "claim", "cancel", "rejected"}, Begin(r, in, to),
         to = "lock" => in.op \in {"get", "start"},
         to = "claim" => in.op = "send" /\ conversation[in.conversation].status # "absent",
         to = "cancel" => in.op = "cancel" /\ conversation[in.conversation].status # "absent"
  PROVE  AssistantInv' /\ Effects(r)
<1>1. TypeOK /\ Stage(r) BY DEF AssistantInv
<1>2. /\ pc[r] = "idle" /\ pc' = [pc EXCEPT ![r] = to]
      /\ input' = [input EXCEPT ![r] = in] /\ clock' = clock /\ scopeLock' = scopeLock
      /\ conversation' = conversation /\ turn' = turn
  BY DEF Begin, tables
<1>3. PICK memory : memory = [seen[r] EXCEPT !.now = clock] OBVIOUS
<1>4. seen[r] \in Memories /\ clock \in Times BY <1>1 DEF TypeOK, ControlOK
<1>5. /\ memory \in Memories /\ memory.then = seen[r].then /\ memory.checks = seen[r].checks
      /\ memory.result = seen[r].result
  BY <1>3, <1>4 DEF Memories
<1>6. seen' = [seen EXCEPT ![r] = memory] BY <1>1, <1>3 DEF Begin, TypeOK, ControlOK
<1>7. ControlOK'
  BY <1>1, <1>2, <1>5, <1>6 DEF TypeOK, ControlOK, Sending, Getting, Stopped
<1>8. OthersWait(r) BY <1>1, <1>2, <1>6 DEF OthersWait, TypeOK, ControlOK
<1>9. pc'[r] = to /\ input'[r] = in /\ seen'[r] = memory
  BY <1>1, <1>2, <1>6 DEF TypeOK, ControlOK
<1>10. /\ TableInv' /\ TablesOK' /\ \A i \in Requests : ConversationKept(i)
       /\ \A t \in Requests : TurnKept(t)
  BY <1>2, QuietTables DEF tables
<1>11. seen[r].then = "reply" /\ seen[r].checks = 0 /\ conversation'[r].status = "absent"
       /\ turn'[r].status = "absent"
  BY <1>1, <1>2 DEF Stage, Sending, Getting
<1>12. Stage(r)' BY <1>2, <1>5, <1>9, <1>11 DEF Stage, Sending, Getting
<1>13. InScope(r)' /\ Fence(r)' /\ Timely(r)'
  BY <1>9 DEF InScope, Fence, Timely, Scoped, Sending, Getting
<1>14. Effects(r) BY <1>2, <1>8, <1>10, EffectsKept
<1>15. TypeOK' BY <1>1, <1>2, <1>7, <1>10 DEF TypeOK
<1> QED BY <1>10, <1>12, <1>13, <1>14, <1>15, Assembled

LEMMA ArriveStep ==
  ASSUME AssistantInv, NEW r \in Requests, Arrive(r)
  PROVE  AssistantInv' /\ Effects(r)
<1>1. ASSUME NEW in, NEW to, Begin(r, in, to) PROVE in \in Inputs
  BY <1>1, OffersAssumption DEF Begin
<1>2. CASE GetBegin(r)
  <2>1. PICK p \in Profiles : Begin(r, [op |-> "get", profile |-> p], "lock")
    BY <1>2 DEF GetBegin
  <2>2. PICK in : in = [op |-> "get", profile |-> p] OBVIOUS
  <2>3. in \in Inputs /\ in.op = "get" BY <1>1, <2>1, <2>2
  <2> QED BY <2>1, <2>2, <2>3, BeginStep
<1>3. CASE StartBegin(r)
  <2>1. PICK p \in Profiles : Begin(r, [op |-> "start", profile |-> p], "lock")
    BY <1>3 DEF StartBegin
  <2>2. PICK in : in = [op |-> "start", profile |-> p] OBVIOUS
  <2>3. in \in Inputs /\ in.op = "start" BY <1>1, <2>1, <2>2
  <2> QED BY <2>1, <2>2, <2>3, BeginStep
<1>4. CASE SendBegin(r)
  <2>1. PICK i \in Requests, k \in Keys, q \in Questions :
          /\ conversation[i].status # "absent"
          /\ Begin(r, [op |-> "send", conversation |-> i, key |-> k, question |-> q],
                   IF IsOpen(i) THEN "claim" ELSE "rejected")
    BY <1>4 DEF SendBegin
  <2>2. PICK in : in = [op |-> "send", conversation |-> i, key |-> k, question |-> q]
    OBVIOUS
  <2>3. in \in Inputs /\ in.op = "send" /\ in.conversation = i BY <1>1, <2>1, <2>2
  <2>4. Begin(r, in, "claim") \/ Begin(r, in, "rejected") BY <2>1, <2>2
  <2> QED BY <2>1, <2>3, <2>4, BeginStep
<1>5. CASE CancelBegin(r)
  <2>1. PICK i \in Requests :
          /\ conversation[i].status # "absent"
          /\ Begin(r, [op |-> "cancel", conversation |-> i], "cancel")
    BY <1>5 DEF CancelBegin
  <2>2. PICK in : in = [op |-> "cancel", conversation |-> i] OBVIOUS
  <2>3. in \in Inputs /\ in.op = "cancel" /\ in.conversation = i BY <1>1, <2>1, <2>2
  <2> QED BY <2>1, <2>2, <2>3, BeginStep
<1> QED BY <1>2, <1>3, <1>4, <1>5 DEF Arrive

LEMMA LockStep ==
  ASSUME AssistantInv, NEW r \in Requests, Lock(r)
  PROVE  AssistantInv' /\ Effects(r)
<1> DEFINE to == IF input[r].op = "start" THEN "find" ELSE "expireOthers"
<1>1. TypeOK /\ Stage(r) BY DEF AssistantInv
<1>2. /\ pc[r] = "lock" /\ scopeLock = None /\ scopeLock' = r /\ pc' = [pc EXCEPT ![r] = to]
      /\ input' = input /\ clock' = clock /\ conversation' = conversation /\ turn' = turn
  BY DEF Lock, ScopeFree, Goto, tables
<1>3. PICK visible : visible = {t \in Requests : turn[t].status = "PROCESSING"} OBVIOUS
<1>4. PICK memory : memory = [seen[r] EXCEPT !.visible = visible] OBVIOUS
<1>5. seen[r] \in Memories BY <1>1 DEF TypeOK, ControlOK
<1>6. /\ memory \in Memories /\ memory.then = seen[r].then /\ memory.checks = seen[r].checks
      /\ memory.result = seen[r].result /\ memory.version = seen[r].version
  BY <1>3, <1>4, <1>5 DEF Memories
<1>7. seen' = [seen EXCEPT ![r] = memory] BY <1>1, <1>3, <1>4 DEF Lock, TypeOK, ControlOK
<1>8. to \in {"find", "expireOthers"} /\ (to = "find" => input[r].op = "start") OBVIOUS
<1> HIDE DEF to
<1>9. ControlOK' BY <1>1, <1>2, <1>6, <1>7, <1>8 DEF TypeOK, ControlOK, Sending, Getting
<1>10. OthersWait(r) BY <1>1, <1>2, <1>7 DEF OthersWait, TypeOK, ControlOK
<1>11. pc'[r] = to /\ input'[r] = input[r] /\ seen'[r] = memory
  BY <1>1, <1>2, <1>7 DEF TypeOK, ControlOK
<1>12. /\ TableInv' /\ TablesOK' /\ NothingInserted(r)
       /\ \A i \in Requests : ConversationKept(i)
       /\ \A t \in Requests : TurnKept(t)
  BY <1>2, QuietTables DEF tables
<1>13. TypeOK' BY <1>2, <1>9, <1>12 DEF TypeOK
<1>14. Stage(r)'
  <2>1. /\ input[r] \in Inputs /\ input[r].op # "cancel"
        /\ seen[r].then # "reply" <=> input[r].op = "send"
        /\ seen[r].then = "finish" => seen[r].result # None
        /\ seen[r].then = "consent" => seen[r].checks < ConsentChecks + MaxRetries
        /\ conversation[r].status = "absent"
    BY <1>1, <1>2 DEF Stage, Getting
  <2>2. turn[r].status # "absent" => input[r].op = "send"
    BY <1>1 DEF Stage
  <2> QED BY <1>2, <1>6, <1>8, <1>11, <2>1, <2>2 DEF Stage, Sending, Getting
<1>15. InScope(r)' /\ Timely(r)' BY <1>2, <1>8, <1>11 DEF InScope, Timely, Scoped
<1>16. Fence(r)'
  BY <1>2, <1>6, <1>8, <1>11, <1>12, <1>13, OwnFence DEF Sending, Getting
<1>17. Effects(r) BY <1>2, <1>10, <1>12, NoneAssumption, EffectsKept
<1> QED BY <1>12, <1>13, <1>14, <1>15, <1>16, <1>17, Assembled


\* What closes conversations with ExpiredRow keeps them.
LEMMA ExpiredKept ==
  ASSUME TablesOK, NEW i \in Requests, NEW now \in Times,
         conversation[i].status # "absent",
         conversation'[i] = ExpiredRow(conversation[i], now)
  PROVE  /\ ConversationKept(i) /\ conversation'[i] \in Conversations
         /\ conversation'[i].status = "EXPIRED"
<1>1. conversation[i] \in Conversations BY DEF TablesOK
<1>2. conversation[i].version \in Nat BY <1>1 DEF Conversations
<1>3. PICK row : row = ExpiredRow(conversation[i], now) OBVIOUS
<1>4. /\ row \in Conversations /\ row.status = "EXPIRED" /\ row.profile = conversation[i].profile
      /\ row.expiresAt = conversation[i].expiresAt
      /\ conversation[i].status = "EXPIRED" => row = conversation[i]
      /\ conversation[i].status # "EXPIRED" => row.version = conversation[i].version + 1
  BY <1>1, <1>3, ExpiredRowType
<1> QED BY <1>2, <1>3, <1>4 DEF ConversationKept, Closed

\* A conversation is closed on its own, with all its turns.
ClosesOne(i, row, status, now) ==
  /\ conversation[i].status # "absent"
  /\ row \in Conversations /\ row.status = status
  /\ conversation' = [conversation EXCEPT ![i] = row]
  /\ \/ row = ExpiredRow(conversation[i], now)
     \/ /\ row.version > conversation[i].version
        /\ row.profile = conversation[i].profile
        /\ row.expiresAt = conversation[i].expiresAt
  /\ turn' = TurnsClosed(TurnsOf(i), status, now)

LEMMA CloseOne ==
  ASSUME AssistantInv, NEW r \in Requests, NEW i \in Requests, NEW now \in Times,
         NEW status \in Closed, NEW row, ClosesOne(i, row, status, now)
  PROVE  /\ TableInv' /\ TablesOK' /\ NothingInserted(r)
         /\ \A j \in Requests : ConversationKept(j)
         /\ \A t \in Requests : TurnKept(t)
         /\ conversation'[i].status = status
<1>1. TablesOK BY DEF AssistantInv, TypeOK
<1>2. /\ conversation' \in [Requests -> Conversations] /\ conversation'[i] = row
      /\ \A j \in Requests \ {i} : conversation'[j] = conversation[j]
  BY <1>1 DEF TablesOK, ClosesOne
<1>3. ConversationKept(i)
  <2>1. CASE row = ExpiredRow(conversation[i], now)
    BY <1>1, <1>2, <2>1, ExpiredKept DEF ClosesOne
  <2>2. CASE row.version > conversation[i].version
             /\ row.profile = conversation[i].profile
             /\ row.expiresAt = conversation[i].expiresAt
    BY <1>2, <2>2 DEF ConversationKept, Closed, ClosesOne
  <2> QED BY <2>1, <2>2 DEF ClosesOne
<1>4. \A j \in Requests :
        \/ conversation'[j] = conversation[j]
        \/ /\ ConversationKept(j) /\ conversation'[j].status = status
           /\ status = "CANCELLED" => TurnsOf(j) \subseteq TurnsOf(i)
  BY <1>2, <1>3 DEF ClosesOne
<1>5. \A t \in TurnsOf(i) \cap Requests : turn[t].status = "PROCESSING" =>
        conversation'[turn[t].conversation].status \in Closed
  BY <1>2 DEF TurnsOf, ClosesOne
<1>6. \A j \in Requests : ~ConversationNew(r, j)
  BY <1>2 DEF ConversationNew, ClosesOne
<1>7. /\ TableInv' /\ turn' \in [Requests -> Turns]
      /\ \A j \in Requests : ConversationKept(j) \/ ConversationNew(r, j)
      /\ \A t \in Requests : TurnKept(t)
  <2>1. Closes(r, TurnsOf(i), status, now)
    BY <1>2, <1>4, <1>5, <1>6 DEF Closes, ClosesOne
  <2> QED BY <2>1, CloseTables
<1>8. NothingInserted(r)
  <2>1. TurnNotInserted(r)
    <3>1. TurnKept(r) BY <1>7
    <3> QED BY <3>1 DEF TurnNotInserted, TurnKept
  <2>2. conversation'[r].status # "absent" => conversation[r].status # "absent"
    BY <1>2 DEF ClosesOne
  <2> QED BY <2>1, <2>2 DEF NothingInserted
<1> QED BY <1>2, <1>6, <1>7, <1>8 DEF TablesOK, ClosesOne

\* expireConversation, and what does the same within other transactions.
LEMMA ExpireOne ==
  ASSUME AssistantInv, NEW r \in Requests, NEW i \in Requests, NEW now \in Times,
         conversation[i].status # "absent",
         conversation' = [conversation EXCEPT ![i] = ExpiredRow(@, now)],
         turn' = TurnsClosed(TurnsOf(i), "EXPIRED", now)
  PROVE  /\ TableInv' /\ TablesOK' /\ NothingInserted(r)
         /\ \A j \in Requests : ConversationKept(j)
         /\ \A t \in Requests : TurnKept(t)
         /\ conversation'[i].status = "EXPIRED"
<1>1. TypeOK BY DEF AssistantInv
<1>2. PICK row : row = ExpiredRow(conversation[i], now) OBVIOUS
<1>3. PICK status : status = "EXPIRED" OBVIOUS
<1>4. row \in Conversations /\ row.status = status /\ status \in Closed
  BY <1>1, <1>2, <1>3, ExpiredRowType DEF TypeOK, TablesOK, Closed
<1>5. conversation' = [conversation EXCEPT ![i] = row] BY <1>2
<1>6. turn' = TurnsClosed(TurnsOf(i), status, now) BY <1>3
<1>7. /\ TableInv' /\ TablesOK' /\ NothingInserted(r)
      /\ \A j \in Requests : ConversationKept(j)
      /\ \A t \in Requests : TurnKept(t)
      /\ conversation'[i].status = status
  <2>1. ClosesOne(i, row, status, now) BY <1>2, <1>4, <1>5, <1>6 DEF ClosesOne
  <2> QED BY <1>4, <2>1, CloseOne
<1> QED BY <1>3, <1>7

LEMMA ExpireOthersStep ==
  ASSUME AssistantInv, NEW r \in Requests, ExpireOthers(r)
  PROVE  AssistantInv' /\ Effects(r)
<1> DEFINE now == seen[r].now
<1>1. TypeOK /\ Stage(r) BY DEF AssistantInv
<1>2. /\ pc[r] = "expireOthers" /\ pc' = [pc EXCEPT ![r] = "recover"] /\ Release(r)
      /\ input' = input /\ clock' = clock
      /\ turn' = TurnsClosed(TurnsOfOthers(r), "EXPIRED", now)
      /\ conversation' = [i \in Requests |->
           IF i \in Others(r) THEN ExpiredRow(conversation[i], now) ELSE conversation[i]]
  BY DEF ExpireOthers, Goto
<1>3. PICK memory : memory = [seen[r] EXCEPT !.visible = {}] OBVIOUS
<1>4. seen[r] \in Memories BY <1>1 DEF TypeOK, ControlOK
<1>5. /\ memory \in Memories /\ memory.then = seen[r].then /\ memory.checks = seen[r].checks
      /\ memory.result = seen[r].result /\ memory.version = seen[r].version
      /\ now \in Times
  BY <1>3, <1>4 DEF Memories
<1>6. seen' = [seen EXCEPT ![r] = memory] BY <1>1, <1>3 DEF ExpireOthers, TypeOK, ControlOK
<1> HIDE DEF now
<1>7. ASSUME NEW i \in Requests
      PROVE  /\ i \in Others(r) => /\ conversation'[i] = ExpiredRow(conversation[i], now)
                                   /\ conversation[i].status # "absent"
             /\ i \notin Others(r) => conversation'[i] = conversation[i]
  BY <1>2 DEF Others, IsOpen, Open
<1>8. ASSUME NEW i \in Requests
      PROVE  /\ conversation'[i] \in Conversations
             /\ \/ conversation'[i] = conversation[i]
                \/ ConversationKept(i) /\ conversation'[i].status = "EXPIRED"
  BY <1>1, <1>5, <1>7, ExpiredKept DEF TypeOK, TablesOK
<1>9. conversation' \in [Requests -> Conversations] BY <1>2, <1>8
<1>10. \A t \in TurnsOfOthers(r) \cap Requests : turn[t].status = "PROCESSING" =>
         conversation'[turn[t].conversation].status \in Closed
  <2> SUFFICES ASSUME NEW t \in TurnsOfOthers(r) \cap Requests
               PROVE  conversation'[turn[t].conversation].status \in Closed
    OBVIOUS
  <2>1. turn[t].conversation \in Others(r) BY DEF TurnsOfOthers, TurnsOf
  <2>2. Others(r) \subseteq Requests BY DEF Others
  <2> QED BY <1>1, <1>5, <1>7, <2>1, <2>2, ExpiredKept DEF Closed, TypeOK
<1>11. \A i \in Requests : ~ConversationNew(r, i) BY <1>2 DEF ConversationNew
<1>12. /\ TableInv' /\ turn' \in [Requests -> Turns]
       /\ \A i \in Requests : ConversationKept(i) \/ ConversationNew(r, i)
       /\ \A t \in Requests : TurnKept(t)
  <2>1. PICK status : status = "EXPIRED" OBVIOUS
  <2>2. status \in Closed BY <2>1 DEF Closed
  <2>3. turn' = TurnsClosed(TurnsOfOthers(r), status, now) BY <1>2, <2>1
  <2>4. \A i \in Requests :
          \/ conversation'[i] = conversation[i]
          \/ /\ ConversationKept(i) /\ conversation'[i].status = status
             /\ status = "CANCELLED" => TurnsOf(i) \subseteq TurnsOfOthers(r)
    BY <1>8, <2>1
  <2>5. Closes(r, TurnsOfOthers(r), status, now)
    BY <1>9, <1>10, <1>11, <2>3, <2>4 DEF Closes
  <2> QED BY <1>5, <2>2, <2>5, CloseTables
<1>13. ControlOK'
  BY <1>1, <1>2, <1>5, <1>6 DEF TypeOK, ControlOK, Sending, Getting
<1>14. OthersWait(r) BY <1>1, <1>2, <1>6 DEF OthersWait, TypeOK, ControlOK
<1>15. pc'[r] = "recover" /\ input'[r] = input[r] /\ seen'[r] = memory
  BY <1>1, <1>2, <1>6 DEF TypeOK, ControlOK
<1>16. TypeOK' BY <1>2, <1>9, <1>12, <1>13, ReleaseKeeps DEF TypeOK, TablesOK
<1>17. Stage(r)'
  <2>1. conversation'[r].status = "absent"
    BY <1>1, <1>2, <1>7 DEF Stage
  <2>2. turn'[r].status # "absent" => input[r].op = "send"
    BY <1>1, <1>12 DEF Stage, TurnKept
  <2>3. /\ input[r] \in Inputs /\ input[r].op # "cancel"
        /\ seen[r].then # "reply" <=> input[r].op = "send"
        /\ seen[r].then = "finish" => seen[r].result # None
        /\ seen[r].then = "consent" => seen[r].checks < ConsentChecks + MaxRetries
    BY <1>1, <1>2 DEF Stage, Getting
  <2> QED BY <1>5, <1>15, <2>1, <2>2, <2>3 DEF Stage, Sending, Getting
<1>18. InScope(r)' /\ Timely(r)' BY <1>15 DEF InScope, Timely, Scoped
<1>19. Fence(r)'
  BY <1>2, <1>5, <1>11, <1>12, <1>15, <1>16, OwnFence DEF Sending, Getting
<1>20. Effects(r) BY <1>2, <1>12, <1>14, ReleaseKeeps, EffectsKept
<1> QED BY <1>12, <1>16, <1>17, <1>18, <1>19, <1>20, Assembled


LEMMA FindOpenStep ==
  ASSUME AssistantInv, NEW r \in Requests, FindOpen(r)
  PROVE  AssistantInv' /\ Effects(r)
<1>1. TypeOK /\ Stage(r) /\ InScope(r) BY DEF AssistantInv
<1>2. PICK alive : alive = {i \in Mine(r) : ~Expired(conversation[i], seen[r].now)} OBVIOUS
<1>3. /\ pc[r] = "find" /\ pc' = [pc EXCEPT ![r] = "insert"]
      /\ \E i \in IF alive = {} THEN {None} ELSE alive : seen' = [seen EXCEPT ![r].found = i]
      /\ input' = input /\ clock' = clock /\ scopeLock' = scopeLock
      /\ conversation' = conversation /\ turn' = turn
  BY <1>2 DEF FindOpen, Goto, tables
<1>4. PICK i \in IF alive = {} THEN {None} ELSE alive : seen' = [seen EXCEPT ![r].found = i]
  BY <1>3
<1>5. alive \subseteq Requests BY <1>2 DEF Mine
<1>6. PICK memory : memory = [seen[r] EXCEPT !.found = i] OBVIOUS
<1>7. seen[r] \in Memories BY <1>1 DEF TypeOK, ControlOK
<1>8. /\ memory \in Memories /\ memory.then = seen[r].then /\ memory.found = i
      /\ memory.result = seen[r].result /\ memory.now = seen[r].now
      /\ memory.checks = seen[r].checks
  BY <1>5, <1>6, <1>7 DEF Memories
<1>9. seen' = [seen EXCEPT ![r] = memory] BY <1>1, <1>4, <1>6 DEF TypeOK, ControlOK
<1>10. ControlOK' BY <1>1, <1>3, <1>8, <1>9 DEF TypeOK, ControlOK
<1>11. OthersWait(r) BY <1>1, <1>3, <1>9 DEF OthersWait, TypeOK, ControlOK
<1>12. pc'[r] = "insert" /\ input'[r] = input[r] /\ seen'[r] = memory
  BY <1>1, <1>3, <1>9 DEF TypeOK, ControlOK
<1>13. /\ TableInv' /\ TablesOK'
       /\ \A j \in Requests : ConversationKept(j)
       /\ \A t \in Requests : TurnKept(t)
  BY <1>3, QuietTables DEF tables
<1>14. TypeOK' BY <1>1, <1>3, <1>10, <1>13 DEF TypeOK
<1>15. Stage(r)' BY <1>1, <1>3, <1>8, <1>12 DEF Stage, Sending, Getting
<1>16. InScope(r)'
  <2>1. scopeLock' = r BY <1>1, <1>3 DEF InScope, Scoped
  <2>2. i = None => alive = {} BY <1>5, NoneAssumption
  <2>3. Mine(r)' = Mine(r) BY <1>3 DEF Mine, IsOpen, ProfileOf
  <2> QED BY <1>2, <1>3, <1>8, <1>12, <2>1, <2>2, <2>3 DEF InScope
<1>17. Fence(r)' /\ Timely(r)' BY <1>12 DEF Fence, Timely, Sending, Getting
<1>18. Effects(r) BY <1>3, <1>11, <1>13, EffectsKept
<1> QED BY <1>13, <1>14, <1>15, <1>16, <1>17, <1>18, Assembled

LEMMA InsertStep ==
  ASSUME AssistantInv, NEW r \in Requests, Insert(r)
  PROVE  AssistantInv' /\ Effects(r)
<1> DEFINE now == seen[r].now
           dead == {i \in Mine(r) : Expired(conversation[i], now)}
           shut == Others(r) \cup dead
           ts   == TurnsOfOthers(r) \cup UNION {TurnsOf(i) : i \in dead}
<1>1. TypeOK /\ Stage(r) /\ InScope(r) BY DEF AssistantInv
<1>2. PICK new : new = [NoConversation EXCEPT !.status = "ACTIVE",
                          !.profile = input[r].profile, !.expiresAt = now + TTL,
                          !.updatedAt = now]
  OBVIOUS
<1>3. /\ pc[r] = "insert" /\ Release(r) /\ Stop(r, "done")
      /\ turn' = TurnsClosed(ts, "EXPIRED", now)
      /\ conversation' = [i \in Requests |->
           IF i \in shut THEN ExpiredRow(conversation[i], now)
           ELSE IF i = r /\ seen[r].found = None THEN new
           ELSE conversation[i]]
  BY <1>2 DEF Insert
<1>4. /\ input[r] \in Inputs /\ input[r].op = "start" /\ input[r].profile \in Profiles
      /\ now \in Times /\ conversation[r].status = "absent"
  BY <1>1, <1>3, InputKinds DEF Stage, TypeOK, ControlOK, Memories
<1>5. new \in Conversations /\ new.status = "ACTIVE"
  <2>1. PICK later : later = now + TTL OBVIOUS
  <2>2. later \in Nat BY <1>4, <2>1, TimesAssumption DEF Times
  <2>3. new = [NoConversation EXCEPT !.status = "ACTIVE", !.profile = input[r].profile,
                 !.expiresAt = later, !.updatedAt = now]
    BY <1>2, <2>1
  <2> QED BY <1>4, <2>2, <2>3 DEF NoConversation, Conversations, Open
<1>6. /\ shut \subseteq Requests /\ r \notin shut
      /\ \A i \in shut : conversation[i].status # "absent"
  BY <1>4 DEF Others, Mine, IsOpen, Open
<1>7. \A t \in ts : turn[t].conversation \in shut BY DEF TurnsOfOthers, TurnsOf
<1>8. ~Expired(conversation[r], now) => r \notin dead OBVIOUS
<1>9. \A i \in Requests : IsOpen(i) /\ i \notin dead /\ i \notin Others(r) =>
        i \in Mine(r) /\ ~Expired(conversation[i], now)
  BY DEF Others, Mine
<1> HIDE DEF now, dead, shut, ts
<1>10. ASSUME NEW i \in Requests
       PROVE  conversation'[i] \in Conversations
              /\ \/ conversation'[i] = conversation[i] /\ i \notin shut
                 \/ /\ i \in shut /\ ConversationKept(i) /\ conversation'[i].status = "EXPIRED"
                 \/ i = r /\ seen[r].found = None /\ conversation'[i] = new
  <2>1. CASE i \in shut
    BY <1>1, <1>3, <1>4, <1>6, <2>1, ExpiredKept DEF TypeOK
  <2>2. CASE i \notin shut
    BY <1>1, <1>3, <1>5, <2>2 DEF TypeOK, TablesOK
  <2> QED BY <2>1, <2>2
<1>11. conversation' \in [Requests -> Conversations] BY <1>3, <1>10
<1>12. \A i \in Requests : conversation'[i] = new => ConversationNew(r, i) \/ i # r
  BY <1>3, <1>4, <1>5 DEF ConversationNew
<1>13. ASSUME seen[r].found = None, NEW j \in Requests, IsOpen(j)'
       PROVE  j = r
  <2> SUFFICES ASSUME j # r PROVE FALSE OBVIOUS
  <2>1. conversation'[j] = conversation[j] /\ j \notin shut
    BY <1>10, <1>13 DEF IsOpen, Open
  <2>2. IsOpen(j) BY <1>13, <2>1 DEF IsOpen
  <2>3. j \notin dead /\ j \notin Others(r) BY <2>1 DEF shut
  <2>4. j \in Mine(r) /\ ~Expired(conversation[j], now) BY <1>9, <2>2, <2>3
  <2> QED BY <1>1, <1>3, <1>13, <2>4 DEF InScope, now
<1>14. \A i \in Requests : ConversationNew(r, i) => seen[r].found = None
  BY <1>6, <1>10 DEF ConversationNew
<1>15. /\ TableInv' /\ turn' \in [Requests -> Turns]
       /\ \A i \in Requests : ConversationKept(i) \/ ConversationNew(r, i)
       /\ \A t \in Requests : TurnKept(t)
  <2>1. PICK status : status = "EXPIRED" OBVIOUS
  <2>2. status \in Closed BY <2>1 DEF Closed
  <2>3. turn' = TurnsClosed(ts, status, now) BY <1>3, <2>1
  <2>4. \A i \in Requests :
          \/ conversation'[i] = conversation[i]
          \/ /\ ConversationKept(i) /\ conversation'[i].status = status
             /\ status = "CANCELLED" => TurnsOf(i) \subseteq ts
          \/ ConversationNew(r, i) /\ conversation'[i].status = "ACTIVE"
    BY <1>5, <1>10, <1>12, <2>1
  <2>5. \A t \in ts \cap Requests : turn[t].status = "PROCESSING" =>
          conversation'[turn[t].conversation].status \in Closed
    BY <1>4, <1>6, <1>7, <1>10 DEF Closed
  <2>6. \A i \in Requests : ConversationNew(r, i) => \A j \in Requests : IsOpen(j)' => j = r
    BY <1>13, <1>14
  <2>7. Closes(r, ts, status, now) BY <1>11, <2>3, <2>4, <2>5, <2>6 DEF Closes
  <2> QED BY <1>4, <2>2, <2>7, CloseTables
<1>16. TurnNotInserted(r) BY <1>15 DEF TurnNotInserted, TurnKept
<1>17. ControlOK' /\ OthersWait(r) /\ Stage(r)' /\ InScope(r)' /\ Fence(r)' /\ Timely(r)'
  <2>1. "done" \in Stopped /\ pc[r] \notin Stopped \cup {"idle"} BY <1>3 DEF Stopped
  <2> QED BY <1>3, <1>16, <2>1, StopMoves
<1>18. TypeOK' BY <1>3, <1>11, <1>15, <1>17, ReleaseKeeps DEF TypeOK, TablesOK
<1>19. Effects(r) BY <1>3, <1>15, <1>17, ReleaseKeeps, EffectsKept
<1> QED BY <1>15, <1>17, <1>18, <1>19, Assembled


\* After a recovery the open conversation of the profile has neither expired nor
\* been interrupted, or is no longer what it was.
LEMMA RecoverTablesKept ==
  ASSUME AssistantInv, NEW r \in Requests, Recover(r)
  PROVE  /\ TableInv' /\ TablesOK' /\ NothingInserted(r)
         /\ \A i \in Requests : ConversationKept(i)
         /\ \A t \in Requests : TurnKept(t)
         /\ \A i \in Mine(r) :
              conversation'[i] = conversation[i] /\ conversation[i].status = "PROCESSING" =>
                /\ ~Expired(conversation[i], seen[r].now)
                /\ seen[r].now - conversation[i].updatedAt < Lease
<1> DEFINE now == seen[r].now
<1>1. TypeOK /\ OneOpenContext BY DEF AssistantInv, TableInv
<1>2. now \in Times /\ Mine(r) \subseteq Requests BY <1>1 DEF TypeOK, ControlOK, Memories, Mine
<1>3. \A i, j \in Mine(r) : i = j BY <1>1 DEF OneOpenContext, Mine
<1>4. \A i \in Mine(r) : conversation[i].status # "absent" BY DEF Mine, IsOpen, Open
<1>5. \A i \in Requests : conversation[i].updatedAt \in Int /\ now \in Int /\ Lease \in Int
  BY <1>1, <1>2, TimesAssumption DEF TypeOK, TablesOK, Conversations, Times
<1>6. CASE /\ \A i \in Mine(r) : /\ ~Expired(conversation[i], seen[r].now)
                                 /\ ~Interrupted(conversation[i], seen[r].now)
           /\ UNCHANGED tables
  <2>1. \A i \in Mine(r) : conversation[i].status = "PROCESSING" =>
          ~Expired(conversation[i], now) /\ now - conversation[i].updatedAt < Lease
    BY <1>2, <1>5, <1>6 DEF Interrupted
  <2> QED BY <1>6, <2>1, QuietTables
<1>7. CASE \E i \in Mine(r) :
             /\ Expired(conversation[i], seen[r].now)
             /\ conversation' = [conversation EXCEPT ![i] = ExpiredRow(@, seen[r].now)]
             /\ turn' = TurnsClosed(TurnsOf(i), "EXPIRED", seen[r].now)
  <2>1. PICK i \in Mine(r) :
             /\ conversation' = [conversation EXCEPT ![i] = ExpiredRow(@, now)]
             /\ turn' = TurnsClosed(TurnsOf(i), "EXPIRED", now)
    BY <1>7
  <2>2. /\ TableInv' /\ TablesOK' /\ NothingInserted(r)
        /\ \A j \in Requests : ConversationKept(j)
        /\ \A t \in Requests : TurnKept(t)
        /\ conversation'[i].status = "EXPIRED"
    BY <1>2, <1>4, <2>1, ExpireOne
  <2> QED BY <1>3, <2>2
<1>8. CASE \E i \in Mine(r) :
             /\ ~Expired(conversation[i], seen[r].now)
             /\ Interrupted(conversation[i], seen[r].now)
             /\ conversation' = [conversation EXCEPT ![i] = RecoveredRow(@, seen[r].now)]
             /\ turn' = TurnsRecovered(i, seen[r].now)
  <2>1. PICK i \in Mine(r) :
             /\ Interrupted(conversation[i], now)
             /\ conversation' = [conversation EXCEPT ![i] = RecoveredRow(conversation[i], now)]
             /\ turn' = TurnsRecovered(i, now)
    BY <1>8
  <2>2. conversation[i].status = "PROCESSING" BY <2>1 DEF Interrupted
  <2>3. /\ TableInv' /\ TablesOK'
        /\ \A j \in Requests : ConversationKept(j)
        /\ \A t \in Requests : TurnKept(t)
    BY <1>2, <2>1, <2>2, RecoverTables
  <2>4. conversation'[i].status = "FAILED"
    BY <1>1, <1>2, <2>1, RecoveredRowType DEF TypeOK, TablesOK
  <2>5. NothingInserted(r)
    BY <2>3 DEF NothingInserted, TurnNotInserted, ConversationKept, TurnKept, Closed
  <2> QED BY <1>3, <2>2, <2>3, <2>4, <2>5
<1> QED BY <1>6, <1>7, <1>8 DEF Recover

LEMMA RecoverStep ==
  ASSUME AssistantInv, NEW r \in Requests, Recover(r)
  PROVE  AssistantInv' /\ Effects(r)
<1>1. TypeOK /\ Stage(r) /\ Fence(r) BY DEF AssistantInv
<1>2. /\ pc[r] = "recover" /\ pc' = [pc EXCEPT ![r] = "read"]
      /\ input' = input /\ clock' = clock /\ scopeLock' = scopeLock /\ seen' = seen
  BY DEF Recover, Goto
<1>3. /\ TableInv' /\ TablesOK' /\ NothingInserted(r)
      /\ \A i \in Requests : ConversationKept(i)
      /\ \A t \in Requests : TurnKept(t)
      /\ \A i \in Mine(r) :
           conversation'[i] = conversation[i] /\ conversation[i].status = "PROCESSING" =>
             /\ ~Expired(conversation[i], seen[r].now)
             /\ seen[r].now - conversation[i].updatedAt < Lease
  BY RecoverTablesKept
<1>4. ControlOK' BY <1>1, <1>2 DEF TypeOK, ControlOK, Sending, Getting
<1>5. OthersWait(r) BY <1>1, <1>2 DEF OthersWait, TypeOK, ControlOK
<1>6. pc'[r] = "read" /\ input'[r] = input[r] /\ seen'[r] = seen[r]
  BY <1>1, <1>2 DEF TypeOK, ControlOK
<1>7. TypeOK' BY <1>1, <1>2, <1>3, <1>4 DEF TypeOK
<1>8. Stage(r)'
  <2>1. /\ input[r] \in Inputs /\ input[r].op # "cancel"
        /\ seen[r].then # "reply" <=> input[r].op = "send"
        /\ seen[r].then = "finish" => seen[r].result # None
        /\ seen[r].then = "consent" => seen[r].checks < ConsentChecks + MaxRetries
        /\ conversation'[r].status = "absent"
    BY <1>1, <1>2, <1>3 DEF Stage, Getting, NothingInserted
  <2>2. turn'[r].status # "absent" => input[r].op = "send"
    BY <1>1, <1>3 DEF Stage, NothingInserted, TurnNotInserted
  <2> QED BY <1>6, <2>1, <2>2 DEF Stage, Sending, Getting
<1>9. /\ Fence(r)'
      /\ input[r].op = "send" /\ ~Stale(r)' =>
           /\ ~Stale(r)
           /\ conversation'[input[r].conversation] = conversation[input[r].conversation]
  BY <1>2, <1>3, <1>6, <1>7, OwnFence DEF Sending, Getting
<1>10. Timely(r)'
  <2> SUFFICES ASSUME input[r].op = "send", ~Stale(r)'
               PROVE  LET c == conversation'[input[r].conversation]
                      IN  /\ ~Expired(c, seen[r].now)
                          /\ seen[r].now - c.updatedAt < Lease
    BY <1>6 DEF Timely
  <2> DEFINE i == input[r].conversation
  <2>1. ~Stale(r) /\ conversation'[i] = conversation[i] BY <1>9
  <2>2. i \in Requests /\ conversation[i].status = "PROCESSING"
    BY <1>2, <2>1, ProcessingOfFresh DEF Sending, Getting
  <2>3. i \in Mine(r) BY <2>2 DEF Mine, IsOpen, Open, ProfileOf
  <2> QED BY <1>3, <2>1, <2>2, <2>3
<1>11. InScope(r)' BY <1>6 DEF InScope, Scoped
<1>12. Effects(r) BY <1>2, <1>3, <1>5, EffectsKept
<1> QED BY <1>3, <1>7, <1>8, <1>9, <1>10, <1>11, <1>12, Assembled

\* What reading, expiring or waiting for the provider goes on to.
LEMMA ProceedStep ==
  ASSUME AssistantInv, NEW r \in Requests, NEW consent \in BOOLEAN, Proceed(r, consent),
         pc[r] \in {"read", "expire"}, scopeLock' = scopeLock,
         TableInv', TablesOK', NothingInserted(r),
         \A i \in Requests : ConversationKept(i),
         \A t \in Requests : TurnKept(t)
  PROVE  AssistantInv' /\ Effects(r)
<1>1. TypeOK /\ Timely(r) BY DEF AssistantInv
<1>2. /\ ControlOK' /\ OthersWait(r) /\ Stage(r)' /\ InScope(r)'
      /\ input'[r] = input[r]
      /\ \/ pc'[r] = "done"
         \/ /\ pc'[r] \in {"lock", "provider", "finalize"}
            /\ seen'[r].version = seen[r].version
            /\ pc'[r] = "finalize" => seen'[r] = seen[r]
  BY ProceedMoves
<1>3. TypeOK' BY <1>1, <1>2 DEF TypeOK
<1>4. pc[r] \in Sending /\ pc'[r] # "bind" /\ ("done" \notin Sending)
  BY <1>2 DEF Sending, Getting
<1>5. pc'[r] \in Sending /\ input[r].op = "send" => seen'[r].version = seen[r].version
  BY <1>2, <1>4
<1>6. /\ Fence(r)'
      /\ pc'[r] \in Sending /\ input[r].op = "send" /\ ~Stale(r)' =>
           /\ ~Stale(r)
           /\ conversation'[input[r].conversation] = conversation[input[r].conversation]
  BY <1>2, <1>3, <1>4, <1>5, OwnFence
<1>7. Timely(r)'
  <2> SUFFICES ASSUME pc'[r] = "finalize", input[r].op = "send", ~Stale(r)'
               PROVE  LET c == conversation'[input[r].conversation]
                      IN  /\ ~Expired(c, seen'[r].now)
                          /\ seen'[r].now - c.updatedAt < Lease
    BY <1>2 DEF Timely
  <2>1. pc'[r] \in Sending BY DEF Sending
  <2> QED BY <1>1, <1>2, <1>6, <2>1 DEF Timely
<1>8. Effects(r) BY <1>2, EffectsKept
<1> QED BY <1>2, <1>3, <1>6, <1>7, <1>8, Assembled

LEMMA ReadStep ==
  ASSUME AssistantInv, NEW r \in Requests, Read(r)
  PROVE  AssistantInv' /\ Effects(r)
<1>1. TypeOK /\ Stage(r) /\ Timely(r) BY DEF AssistantInv
<1>2. pc[r] = "read" /\ scopeLock' = scopeLock /\ UNCHANGED tables BY DEF Read
<1>3. /\ TableInv' /\ TablesOK' /\ NothingInserted(r)
      /\ \A i \in Requests : ConversationKept(i)
      /\ \A t \in Requests : TurnKept(t)
  BY <1>2, QuietTables
<1>4. CASE \E i \in Mine(r) :
             /\ Expired(conversation[i], seen[r].now)
             /\ Goto(r, "expire")
             /\ seen' = [seen EXCEPT ![r].found = i]
  <2>1. PICK i \in Mine(r) : Goto(r, "expire") /\ seen' = [seen EXCEPT ![r].found = i]
    BY <1>4
  <2>2. i \in Requests /\ conversation[i].status # "absent" BY DEF Mine, IsOpen, Open
  <2>3. PICK memory : memory = [seen[r] EXCEPT !.found = i] OBVIOUS
  <2>4. seen[r] \in Memories BY <1>1 DEF TypeOK, ControlOK
  <2>5. /\ memory \in Memories /\ memory.then = seen[r].then /\ memory.found = i
        /\ memory.result = seen[r].result /\ memory.now = seen[r].now
        /\ memory.checks = seen[r].checks /\ memory.version = seen[r].version
    BY <2>2, <2>3, <2>4 DEF Memories
  <2>6. /\ seen' = [seen EXCEPT ![r] = memory] /\ pc' = [pc EXCEPT ![r] = "expire"]
        /\ input' = input /\ clock' = clock
    BY <1>1, <2>1, <2>3 DEF TypeOK, ControlOK, Goto
  <2>7. ControlOK' BY <1>1, <2>5, <2>6 DEF TypeOK, ControlOK, Sending, Getting
  <2>8. OthersWait(r) BY <1>1, <2>6 DEF OthersWait, TypeOK, ControlOK
  <2>9. pc'[r] = "expire" /\ input'[r] = input[r] /\ seen'[r] = memory
    BY <1>1, <2>6 DEF TypeOK, ControlOK
  <2>10. TypeOK' BY <1>1, <1>2, <1>3, <2>7 DEF TypeOK
  <2>11. conversation' = conversation /\ turn' = turn BY <1>2 DEF tables
  <2>12. Stage(r)'
    <3>1. /\ input[r] \in Inputs /\ input[r].op # "cancel"
          /\ seen[r].then # "reply" <=> input[r].op = "send"
          /\ seen[r].then = "finish" => seen[r].result # None
          /\ seen[r].then = "consent" => seen[r].checks < ConsentChecks + MaxRetries
          /\ conversation[r].status = "absent"
      BY <1>1, <1>2 DEF Stage, Getting
    <3>2. turn[r].status # "absent" => input[r].op = "send" BY <1>1 DEF Stage
    <3>3. i # None BY <2>2, NoneAssumption
    <3> QED BY <2>2, <2>5, <2>9, <2>11, <3>1, <3>2, <3>3 DEF Stage, Sending, Getting
  <2>13. Fence(r)'
    BY <1>2, <1>3, <2>5, <2>9, <2>10, OwnFence DEF Sending, Getting
  <2>14. Timely(r)' BY <1>1, <1>2, <2>5, <2>9, <2>11 DEF Timely, Stale
  <2>15. InScope(r)' BY <2>9 DEF InScope, Scoped
  <2>16. Effects(r) BY <1>2, <1>3, <2>8, EffectsKept
  <2> QED BY <1>3, <2>10, <2>12, <2>13, <2>14, <2>15, <2>16, Assembled
<1>5. CASE \E granted \in BOOLEAN :
             Proceed(r, granted /\ \E i \in Mine(r) : StillProcessing(r, i))
  <2>1. PICK granted \in BOOLEAN :
             Proceed(r, granted /\ \E i \in Mine(r) : StillProcessing(r, i))
    BY <1>5
  <2>2. PICK consent \in BOOLEAN :
             consent = (granted /\ \E i \in Mine(r) : StillProcessing(r, i))
    OBVIOUS
  <2>3. Proceed(r, consent) BY <2>1, <2>2
  <2> QED BY <1>2, <1>3, <2>3, ProceedStep
<1> QED BY <1>4, <1>5 DEF Read

LEMMA ExpireStep ==
  ASSUME AssistantInv, NEW r \in Requests, Expire(r)
  PROVE  AssistantInv' /\ Effects(r)
<1> DEFINE now == seen[r].now
           i == seen[r].found
<1>1. TypeOK /\ Stage(r) BY DEF AssistantInv
<1>2. /\ pc[r] = "expire" /\ Proceed(r, FALSE) /\ scopeLock' = scopeLock
      /\ conversation' = [conversation EXCEPT ![i] = ExpiredRow(@, now)]
      /\ turn' = TurnsClosed(TurnsOf(i), "EXPIRED", now)
  BY DEF Expire
<1>3. i \in Requests /\ conversation[i].status # "absent" /\ now \in Times
  BY <1>1, <1>2 DEF Stage, TypeOK, ControlOK, Memories
<1>4. /\ TableInv' /\ TablesOK' /\ NothingInserted(r)
      /\ \A j \in Requests : ConversationKept(j)
      /\ \A t \in Requests : TurnKept(t)
  BY <1>2, <1>3, ExpireOne
<1> QED BY <1>2, <1>4, ProceedStep


\* A request that stops, after a step that keeps the tables.
LEMMA StopStep ==
  ASSUME AssistantInv, NEW r \in Requests, NEW how \in Stopped, Stop(r, how),
         pc[r] \notin Stopped \cup {"idle"},
         how \in {"rejected", "expired"} => pc[r] = "claim",
         scopeLock' = scopeLock \/ Release(r),
         TableInv', TablesOK', NothingInserted(r),
         \A i \in Requests : ConversationKept(i),
         \A t \in Requests : TurnKept(t)
  PROVE  AssistantInv' /\ Effects(r)
<1>1. TypeOK BY DEF AssistantInv
<1>2. ControlOK' /\ OthersWait(r) /\ Stage(r)' /\ InScope(r)' /\ Fence(r)' /\ Timely(r)'
  BY StopMoves DEF NothingInserted
<1>3. /\ scopeLock' \in Requests \cup {None}
      /\ \A q \in Requests \ {r} : scopeLock = q => scopeLock' = q
  BY <1>1, ReleaseKeeps DEF TypeOK
<1>4. TypeOK' BY <1>2, <1>3 DEF TypeOK
<1>5. Effects(r) BY <1>2, <1>3, EffectsKept
<1> QED BY <1>2, <1>4, <1>5, Assembled

\* A claim that recovers an interrupted conversation, or finds nothing to recover.
LEMMA BaseOfClaim ==
  ASSUME AssistantInv, NEW r \in Requests, NEW i \in Requests, NEW now \in Times,
         NEW late \in BOOLEAN, late = Interrupted(conversation[i], now),
         NEW base, base = IF late THEN RecoveredRow(conversation[i], now) ELSE conversation[i],
         NEW old, old = IF late THEN TurnsRecovered(i, now) ELSE turn
  PROVE  /\ base \in Conversations /\ base.version >= conversation[i].version
         /\ base.profile = conversation[i].profile
         /\ base.expiresAt = conversation[i].expiresAt
         /\ old \in [Requests -> Turns]
         /\ \A t \in Requests :
              IF late /\ t \in Processing(i)
                THEN /\ old[t].status = "FAILED" /\ SameTurn(old[t], turn[t])
                     /\ old[t].version > conversation[i].version
                ELSE old[t] = turn[t]
<1>1. TypeOK BY DEF AssistantInv
<1>2. conversation[i].version \in Nat BY <1>1 DEF TypeOK, TablesOK, Conversations
<1>3. CASE late
  <2>1. base = RecoveredRow(conversation[i], now) /\ old = TurnsRecovered(i, now) BY <1>3
  <2>2. /\ base \in Conversations /\ base.version = conversation[i].version + 1
        /\ base.profile = conversation[i].profile
        /\ base.expiresAt = conversation[i].expiresAt
    BY <1>1, <2>1, RecoveredRowType DEF TypeOK, TablesOK
  <2>3. /\ old \in [Requests -> Turns]
        /\ \A t \in Requests :
             IF t \in Processing(i)
               THEN /\ old[t].status = "FAILED"
                    /\ old[t].version = conversation[i].version + 1
                    /\ SameTurn(old[t], turn[t])
               ELSE old[t] = turn[t]
    BY <1>1, <2>1, TurnsRecoveredType
  <2> QED BY <1>2, <1>3, <2>2, <2>3
<1>4. CASE ~late BY <1>1, <1>2, <1>4 DEF TypeOK, TablesOK
<1> QED BY <1>3, <1>4

LEMMA ClaimNew ==
  ASSUME AssistantInv, NEW r \in Requests, pc[r] = "claim",
         NEW i \in Requests, i = input[r].conversation,
         Known(r) = {}, conversation[i].status \in Open,
         NEW row \in Conversations, row.status = "PROCESSING",
         row.version > conversation[i].version,
         row.profile = conversation[i].profile, row.expiresAt = conversation[i].expiresAt,
         row.updatedAt = seen[r].now,
         NEW mine \in Turns, mine.status = "PROCESSING", mine.conversation = i,
         mine.version = row.version, mine.key = input[r].key, mine.createdAt = seen[r].now,
         NEW old \in [Requests -> Turns],
         \A t \in Requests :
           IF t \in Processing(i)
             THEN /\ old[t].status = "FAILED" /\ SameTurn(old[t], turn[t])
                  /\ old[t].version > conversation[i].version
             ELSE old[t] = turn[t],
         conversation' = [conversation EXCEPT ![i] = row],
         turn' = [old EXCEPT ![r] = mine],
         Goto(r, "bind"), seen' = [seen EXCEPT ![r].version = row.version],
         scopeLock' = scopeLock
  PROVE  AssistantInv' /\ Effects(r)
<1>1. TypeOK /\ Stage(r) BY DEF AssistantInv
<1>2. /\ input[r] \in Inputs /\ input[r].op = "send"
      /\ conversation[r].status = "absent" /\ turn[r].status = "absent"
      /\ seen[r].then = "reply" /\ seen[r].checks = 0
  BY <1>1 DEF Stage, Sending, Getting
<1>3. row.version \in Nat BY DEF Conversations
<1>4. /\ conversation' \in [Requests -> Conversations] /\ conversation'[i] = row
      /\ \A j \in Requests \ {i} : conversation'[j] = conversation[j]
  BY <1>1 DEF TypeOK, TablesOK
<1>5. /\ turn' \in [Requests -> Turns] /\ turn'[r] = mine
      /\ \A t \in Requests \ {r} : turn'[t] = old[t]
  OBVIOUS
<1>6. TurnNew(r)
  <2>1. \A t \in Requests : turn[t].conversation = i => turn[t].key # input[r].key
    BY DEF Known, TurnsOf
  <2>2. conversation[i].status # "absent" BY DEF Open
  <2> QED BY <1>2, <1>5, <2>1, <2>2 DEF TurnNew
<1>7. /\ TableInv' /\ \A j \in Requests : ConversationKept(j)
      /\ \A t \in Requests \ {r} : TurnKept(t)
  <2>1. \A t \in Requests \ {r} :
          IF t \in Processing(i)
            THEN /\ turn'[t].status = "FAILED"
                 /\ turn'[t].version > conversation[i].version
                 /\ SameTurn(turn'[t], turn[t])
            ELSE turn'[t] = turn[t]
    BY <1>5
  <2>2. turn'[r].conversation = i /\ turn'[r].version = conversation'[i].version
        /\ turn'[r].createdAt = conversation'[i].updatedAt
    BY <1>4, <1>5
  <2>3. /\ conversation'[i].status = "PROCESSING"
        /\ conversation'[i].version > conversation[i].version
        /\ conversation'[i].profile = conversation[i].profile
        /\ conversation'[i].expiresAt = conversation[i].expiresAt
    BY <1>4
  <2> QED BY <1>4, <1>6, <2>1, <2>2, <2>3, ClaimTables
<1>8. PICK memory : memory = [seen[r] EXCEPT !.version = row.version] OBVIOUS
<1>9. seen[r] \in Memories BY <1>1 DEF TypeOK, ControlOK
<1>10. /\ memory \in Memories /\ memory.then = "reply" /\ memory.checks = 0
       /\ memory.version = row.version /\ memory.now = seen[r].now
  BY <1>2, <1>3, <1>8, <1>9 DEF Memories
<1>11. /\ seen' = [seen EXCEPT ![r] = memory] /\ pc' = [pc EXCEPT ![r] = "bind"]
       /\ input' = input /\ clock' = clock
  BY <1>1, <1>8 DEF TypeOK, ControlOK, Goto
<1>12. ControlOK' BY <1>1, <1>10, <1>11 DEF TypeOK, ControlOK, Sending
<1>13. OthersWait(r) BY <1>1, <1>11 DEF OthersWait, TypeOK, ControlOK
<1>14. pc'[r] = "bind" /\ input'[r] = input[r] /\ seen'[r] = memory
  BY <1>1, <1>11 DEF TypeOK, ControlOK
<1>15. conversation'[r].status = "absent"
  <2>1. i # r BY <1>2 DEF Open
  <2> QED BY <1>2, <1>4, <2>1
<1>16. Stage(r)' BY <1>2, <1>10, <1>14, <1>15 DEF Stage, Sending, Getting
<1>17. Fence(r)'
  <2>1. turn'[r].status # "absent" /\ turn'[r].status \notin Settled
    BY <1>5 DEF Settled
  <2>2. seen'[r].version <= conversation'[i].version
    BY <1>3, <1>4, <1>10, <1>14
  <2>3. Fenced(r)' BY <1>4, <1>5, <1>10, <1>14, <2>1, <2>2 DEF Fenced
  <2> QED BY <1>5, <1>10, <1>14, <2>3 DEF Fence
<1>18. InScope(r)' /\ Timely(r)' BY <1>14 DEF InScope, Timely, Scoped
<1>19. TypeOK' BY <1>1, <1>4, <1>5, <1>12 DEF TypeOK, TablesOK
<1>20. Effects(r) BY <1>2, <1>7, <1>13 DEF Effects, Settled, Closed
<1> QED BY <1>7, <1>16, <1>17, <1>18, <1>19, <1>20, Assembled

LEMMA ClaimStep ==
  ASSUME AssistantInv, NEW r \in Requests, Claim(r)
  PROVE  AssistantInv' /\ Effects(r)
<1> DEFINE i    == input[r].conversation
           c    == conversation[i]
           now  == seen[r].now
<1>1. TypeOK /\ Stage(r) BY DEF AssistantInv
<1>2. pc[r] = "claim" /\ scopeLock' = scopeLock BY DEF Claim
<1>3. i \in Requests /\ c.status # "absent" /\ now \in Times
  BY <1>1, <1>2, InputKinds DEF Stage, TypeOK, ControlOK, Memories
<1>4. PICK late \in BOOLEAN : late = Interrupted(c, now) BY DEF Interrupted
<1>5. PICK base : base = IF late THEN RecoveredRow(c, now) ELSE c OBVIOUS
<1>6. PICK old : old = IF late THEN TurnsRecovered(i, now) ELSE turn OBVIOUS
<1>7. pc[r] \notin Stopped \cup {"idle"} BY <1>2 DEF Stopped
<1>8. ASSUME NEW how \in {"expired", "rejected"}, Stop(r, how), UNCHANGED tables
      PROVE  AssistantInv' /\ Effects(r)
  <2>1. how \in Stopped BY <1>8 DEF Stopped
  <2>2. /\ TableInv' /\ TablesOK' /\ NothingInserted(r)
        /\ \A j \in Requests : ConversationKept(j)
        /\ \A t \in Requests : TurnKept(t)
    BY <1>8, QuietTables
  <2> QED BY <1>2, <1>7, <1>8, <2>1, <2>2, StopStep
<1>9. CASE Expired(c, now)
  <2>1. Stop(r, "expired") /\ UNCHANGED tables BY <1>9 DEF Claim
  <2> QED BY <1>8, <2>1
<1>10. CASE ~Expired(c, now) /\ \/ \E t \in Known(r) : turn[t].question # input[r].question
                                \/ Known(r) = {} /\ Busy(c, late)
                                \/ Known(r) = {} /\ c.status \in Closed
  <2>1. Stop(r, "rejected") /\ UNCHANGED tables BY <1>4, <1>10 DEF Claim
  <2> QED BY <1>8, <2>1
<1>11. CASE /\ ~Expired(c, now) /\ Known(r) # {}
            /\ ~\E t \in Known(r) : turn[t].question # input[r].question
  <2>1. /\ conversation' = [conversation EXCEPT ![i] = base] /\ turn' = old
        /\ Stop(r, "done")
    BY <1>4, <1>5, <1>6, <1>11 DEF Claim
  <2>2. /\ TableInv' /\ TablesOK'
        /\ \A j \in Requests : ConversationKept(j)
        /\ \A t \in Requests : TurnKept(t)
    <3>1. CASE late
      <4>1. conversation[i].status = "PROCESSING" BY <1>4, <3>1 DEF Interrupted
      <4> QED BY <1>3, <1>5, <1>6, <2>1, <3>1, <4>1, RecoverTables
    <3>2. CASE ~late
      <4>1. conversation' = conversation /\ turn' = turn
        BY <1>1, <1>5, <1>6, <2>1, <3>2 DEF TypeOK, TablesOK
      <4> QED BY <4>1, QuietTables DEF tables
    <3> QED BY <3>1, <3>2
  <2>3. NothingInserted(r)
    BY <2>2 DEF NothingInserted, TurnNotInserted, ConversationKept, TurnKept, Closed
  <2>4. "done" \in Stopped BY DEF Stopped
  <2> QED BY <1>2, <1>7, <2>1, <2>2, <2>3, <2>4, StopStep
<1>12. CASE /\ ~Expired(c, now) /\ Known(r) = {}
            /\ ~Busy(c, late) /\ c.status \notin Closed
  <2>1. PICK version : version = base.version + 1 OBVIOUS
  <2>2. PICK row : row = [base EXCEPT !.status = "PROCESSING", !.version = base.version + 1,
                                      !.updatedAt = now]
    OBVIOUS
  <2>3. PICK mine : mine = [NoTurn EXCEPT !.status = "PROCESSING", !.conversation = i,
                              !.version = base.version + 1, !.key = input[r].key,
                              !.question = input[r].question, !.createdAt = now]
    OBVIOUS
  <2>4. /\ conversation' = [conversation EXCEPT ![i] = row] /\ turn' = [old EXCEPT ![r] = mine]
        /\ Goto(r, "bind")
        /\ seen' = [seen EXCEPT ![r].version = version]
    BY <1>4, <1>5, <1>6, <1>12, <2>1, <2>2, <2>3 DEF Claim
  <2>5. c.status \in Open
    BY <1>1, <1>3, <1>12 DEF TypeOK, TablesOK, Conversations
  <2>6. /\ base \in Conversations /\ base.version >= c.version
        /\ base.profile = c.profile /\ base.expiresAt = c.expiresAt
        /\ old \in [Requests -> Turns]
        /\ \A t \in Requests :
             IF late /\ t \in Processing(i)
               THEN /\ old[t].status = "FAILED" /\ SameTurn(old[t], turn[t])
                    /\ old[t].version > c.version
               ELSE old[t] = turn[t]
    <3>1. PICK j \in Requests, at \in Times : j = i /\ at = now BY <1>3
    <3>2. /\ late = Interrupted(conversation[j], at)
          /\ base = IF late THEN RecoveredRow(conversation[j], at) ELSE conversation[j]
          /\ old = IF late THEN TurnsRecovered(j, at) ELSE turn
      BY <1>4, <1>5, <1>6, <3>1
    <3> HIDE DEF i, c, now
    <3>3. /\ base \in Conversations /\ base.version >= conversation[j].version
          /\ base.profile = conversation[j].profile
          /\ base.expiresAt = conversation[j].expiresAt
          /\ old \in [Requests -> Turns]
          /\ \A t \in Requests :
               IF late /\ t \in Processing(j)
                 THEN /\ old[t].status = "FAILED" /\ SameTurn(old[t], turn[t])
                      /\ old[t].version > conversation[j].version
                 ELSE old[t] = turn[t]
      BY <3>2, BaseOfClaim
    <3> QED BY <3>1, <3>3 DEF c
  <2>7. version \in Nat /\ version > c.version
    BY <1>1, <1>3, <2>1, <2>6 DEF Conversations, TypeOK, TablesOK
  <2>8. /\ row \in Conversations /\ row.status = "PROCESSING" /\ row.version = version
        /\ row.profile = c.profile /\ row.expiresAt = c.expiresAt /\ row.updatedAt = now
    <3>1. row = [base EXCEPT !.status = "PROCESSING", !.version = version, !.updatedAt = now]
      BY <2>1, <2>2
    <3> QED BY <1>3, <2>6, <2>7, <3>1 DEF Conversations, Open
  <2>9. /\ mine \in Turns /\ mine.status = "PROCESSING" /\ mine.conversation = i
        /\ mine.version = version /\ mine.key = input[r].key /\ mine.createdAt = now
    <3>1. mine = [NoTurn EXCEPT !.status = "PROCESSING", !.conversation = i,
                    !.version = version, !.key = input[r].key,
                    !.question = input[r].question, !.createdAt = now]
      BY <2>1, <2>3
    <3>2. input[r].key \in Keys /\ input[r].question \in Questions
      BY <1>1, <1>2, InputKinds DEF Stage
    <3>3. 0 \in Times BY TimesAssumption DEF Times
    <3> QED BY <1>3, <2>7, <3>1, <3>2, <3>3 DEF NoTurn, Turns
  <2>10. ~late => Processing(i) = {}
    BY <1>3, <1>12, <2>5 DEF Busy, AssistantInv, TableInv, OneProcessing, Open
  <2>11. \A t \in Requests :
           IF t \in Processing(i)
             THEN /\ old[t].status = "FAILED" /\ SameTurn(old[t], turn[t])
                  /\ old[t].version > c.version
             ELSE old[t] = turn[t]
    BY <2>6, <2>10
  <2>12. seen' = [seen EXCEPT ![r].version = row.version] BY <2>4, <2>8
  <2> QED BY <1>2, <1>3, <1>12, <2>4, <2>5, <2>6, <2>7, <2>8, <2>9, <2>11, <2>12, ClaimNew
<1> QED BY <1>9, <1>10, <1>11, <1>12


\* A request that asks for its conversation, after a step that keeps the tables.
LEMMA GetThenStep ==
  ASSUME AssistantInv, NEW r \in Requests, NEW then \in {"consent", "finish"},
         NEW result \in Settled \cup {None}, GetThen(r, then, result),
         pc[r] \in Sending, input[r].op = "send",
         then = "finish" => result # None,
         then = "consent" => seen[r].checks < ConsentChecks + MaxRetries,
         scopeLock' = scopeLock \/ Release(r),
         TableInv', TablesOK', NothingInserted(r),
         \A i \in Requests : ConversationKept(i),
         \A t \in Requests : TurnKept(t)
  PROVE  AssistantInv' /\ Effects(r)
<1>1. TypeOK BY DEF AssistantInv
<1>2. /\ ControlOK' /\ OthersWait(r) /\ Stage(r)' /\ InScope(r)' /\ Timely(r)'
      /\ pc'[r] = "lock" /\ input'[r] = input[r] /\ seen'[r].version = seen[r].version
  BY GetThenMoves
<1>3. /\ scopeLock' \in Requests \cup {None}
      /\ \A q \in Requests \ {r} : scopeLock = q => scopeLock' = q
  BY <1>1, ReleaseKeeps DEF TypeOK
<1>4. TypeOK' BY <1>2, <1>3 DEF TypeOK
<1>5. Fence(r)' BY <1>2, <1>4, OwnFence
<1>6. Effects(r) BY <1>2, <1>3, EffectsKept
<1> QED BY <1>2, <1>4, <1>5, <1>6, Assembled

\* What a request may make of its conversation and of the turn it still has: leave
\* both in PROCESSING, or settle both in time.
OwnedWrite(r, row, mine) ==
  LET c == conversation[input[r].conversation]
  IN  /\ row \in Conversations /\ mine \in Turns
      /\ row.version = c.version /\ row.profile = c.profile /\ row.expiresAt = c.expiresAt
      /\ SameTurn(mine, turn[r])
      /\ \/ /\ row.status = "PROCESSING" /\ mine.status = "PROCESSING"
            /\ mine.version = turn[r].version /\ row.updatedAt = turn[r].createdAt
         \/ /\ row.status \in Settled /\ mine.status \in Settled
            /\ mine.answeredAt < c.expiresAt
            /\ mine.answeredAt - turn[r].createdAt < Lease

LEMMA OwnedStep ==
  ASSUME AssistantInv, NEW r \in Requests, NEW i, i = input[r].conversation,
         pc[r] \in Sending, input[r].op = "send", ~Stale(r),
         NEW row, NEW mine, OwnedWrite(r, row, mine),
         conversation' = [conversation EXCEPT ![i] = row], turn' = [turn EXCEPT ![r] = mine]
  PROVE  /\ TableInv' /\ TablesOK' /\ NothingInserted(r)
         /\ \A j \in Requests : ConversationKept(j) \/ ConversationOwned(r, j)
         /\ \A t \in Requests \ {r} : TurnKept(t)
<1>1. TypeOK BY DEF AssistantInv
<1> i \in Requests BY ProcessingOfFresh
<1> USE DEF OwnedWrite
<1>2. /\ conversation' \in [Requests -> Conversations] /\ conversation'[i] = row
      /\ \A j \in Requests \ {i} : conversation'[j] = conversation[j]
      /\ turn' \in [Requests -> Turns] /\ turn'[r] = mine
      /\ \A t \in Requests \ {r} : turn'[t] = turn[t]
  BY <1>1 DEF TypeOK, TablesOK
<1>3. turn[r].status = "PROCESSING" /\ turn[r].conversation = i
      /\ conversation[i].status = "PROCESSING"
  BY ProcessingOfFresh
<1>4. ConversationOwned(r, i) BY <1>2 DEF ConversationOwned, Open, Settled
<1>5. mine.status \in {"PROCESSING"} \cup Settled OBVIOUS
<1>6. TurnWritten(r) BY <1>2, <1>3, <1>5 DEF TurnWritten, Settled
<1>7. TableInv'
  <2>1. \/ /\ conversation'[i].status = "PROCESSING" /\ turn'[r].status = "PROCESSING"
           /\ turn'[r].version = turn[r].version
           /\ conversation'[i].updatedAt = turn[r].createdAt
        \/ conversation'[i].status \in Settled /\ turn'[r].status \in Settled
    BY <1>2
  <2> QED BY <1>2, <1>4, <1>6, <2>1, OwnedTables
<1>8. \A j \in Requests : ConversationKept(j) \/ ConversationOwned(r, j)
  BY <1>2, <1>4 DEF ConversationKept
<1>9. \A t \in Requests \ {r} : TurnKept(t) BY <1>2 DEF TurnKept
<1>10. NothingInserted(r)
  BY <1>2, <1>3 DEF NothingInserted, TurnNotInserted
<1> QED BY <1>2, <1>3, <1>7, <1>8, <1>9, <1>10 DEF TablesOK

LEMMA BindStep ==
  ASSUME AssistantInv, NEW r \in Requests, Bind(r)
  PROVE  AssistantInv' /\ Effects(r)
<1> DEFINE i   == input[r].conversation
           c   == conversation[i]
           now == seen[r].now
<1>1. TypeOK /\ Stage(r) /\ Fence(r) BY DEF AssistantInv
<1>2. pc[r] = "bind" /\ scopeLock' = scopeLock BY DEF Bind
<1>3. /\ pc[r] \in Sending /\ input[r].op = "send" /\ input[r] \in Inputs
      /\ input[r].question \in Questions
      /\ i \in Requests /\ now \in Times /\ seen[r].checks = 0
      /\ c.status # "absent" /\ c \in Conversations /\ turn[r] \in Turns
  <2>1. pc[r] \in Sending /\ input[r].op = "send" /\ input[r] \in Inputs /\ seen[r].checks = 0
    BY <1>1, <1>2 DEF Stage, Sending
  <2>2. i \in Requests /\ input[r].question \in Questions /\ now \in Times
    BY <1>1, <2>1, InputKinds DEF TypeOK, ControlOK, Memories
  <2>3. c.status # "absent"
    BY <1>1, <2>1, <2>2 DEF Fence, Fenced, AssistantInv, TableInv, TurnsBelong
  <2> QED BY <1>1, <2>1, <2>2, <2>3 DEF TypeOK, TablesOK
<1>4. seen[r].checks < ConsentChecks + MaxRetries BY <1>3, ChecksAssumption
<1>5. Settled \subseteq Settled \cup {None} /\ None \notin Settled BY NoneAssumption
<1>6. CASE c.version # seen[r].version \/ c.status # "PROCESSING"
  <2>1. GetThen(r, "finish", "FAILED") /\ UNCHANGED tables BY <1>6 DEF Bind
  <2>2. /\ TableInv' /\ TablesOK' /\ NothingInserted(r)
        /\ \A j \in Requests : ConversationKept(j)
        /\ \A t \in Requests : TurnKept(t)
    BY <2>1, QuietTables
  <2>3. "FAILED" \in Settled BY DEF Settled
  <2> QED BY <1>2, <1>3, <1>5, <2>1, <2>2, <2>3, GetThenStep
<1>7. CASE c.version = seen[r].version /\ c.status = "PROCESSING"
  <2>1. PICK currency \in ResolvesTo(input[r].question) :
           IF CurrencyClash(c, currency)
           THEN /\ conversation' = [conversation EXCEPT ![i] = ExpiredRow(@, seen[r].now)]
                /\ turn' = TurnsClosed(TurnsOf(i), "EXPIRED", seen[r].now)
                /\ GetThen(r, "finish", "FAILED")
           ELSE /\ conversation' = [conversation EXCEPT ![i] =
                     [@ EXCEPT !.updatedAt = seen[r].now,
                               !.currency = IF currency = None THEN c.currency ELSE currency]]
                /\ turn' = [turn EXCEPT ![r].currency = currency]
                /\ \/ currency # None /\ GetThen(r, "consent", None)
                   \/ currency # None /\ GetThen(r, "finish", "ANSWERED")
                   \/ currency = None /\ GetThen(r, "finish", "ANSWERED")
                   \/ GetThen(r, "finish", "AWAITING_CLARIFICATION")
    BY <1>7 DEF Bind
  <2>2. CASE CurrencyClash(c, currency)
    <3>1. /\ conversation' = [conversation EXCEPT ![i] = ExpiredRow(@, now)]
          /\ turn' = TurnsClosed(TurnsOf(i), "EXPIRED", now)
          /\ GetThen(r, "finish", "FAILED")
      BY <2>1, <2>2
    <3>2. /\ TableInv' /\ TablesOK' /\ NothingInserted(r)
          /\ \A j \in Requests : ConversationKept(j)
          /\ \A t \in Requests : TurnKept(t)
      BY <1>3, <3>1, ExpireOne
    <3>3. "FAILED" \in Settled BY DEF Settled
    <3> QED BY <1>2, <1>3, <1>5, <3>1, <3>2, <3>3, GetThenStep
  <2>3. CASE ~CurrencyClash(c, currency)
    <3>1. PICK bound : bound = IF currency = None THEN c.currency ELSE currency OBVIOUS
    <3>2. PICK row : row = [c EXCEPT !.updatedAt = now, !.currency = bound] OBVIOUS
    <3>3. PICK mine : mine = [turn[r] EXCEPT !.currency = currency] OBVIOUS
    <3>4. conversation' = [conversation EXCEPT ![i] = row] BY <2>1, <2>3, <3>1, <3>2
    <3>5. turn' = [turn EXCEPT ![r] = mine] BY <1>1, <2>1, <2>3, <3>3 DEF TypeOK, TablesOK
    <3>6. PICK then \in {"consent", "finish"}, result \in Settled \cup {None} :
            GetThen(r, then, result) /\ (then = "finish" => result # None)
      <4>1. \/ GetThen(r, "consent", None)
            \/ GetThen(r, "finish", "ANSWERED")
            \/ GetThen(r, "finish", "AWAITING_CLARIFICATION")
        BY <2>1, <2>3
      <4>2. {"ANSWERED", "AWAITING_CLARIFICATION"} \subseteq Settled BY DEF Settled
      <4> QED BY <1>5, <4>1, <4>2
    <3>7. currency \in Currencies \cup {None} /\ bound \in Currencies \cup {None}
      BY <1>3, <3>1, ResolutionAssumption DEF Conversations
    <3>8. /\ row \in Conversations /\ row.version = c.version /\ row.profile = c.profile
          /\ row.expiresAt = c.expiresAt /\ row.status = c.status /\ row.updatedAt = now
      BY <1>3, <3>2, <3>7 DEF Conversations
    <3>9. /\ mine \in Turns /\ mine.status = turn[r].status /\ mine.version = turn[r].version
          /\ SameTurn(mine, turn[r])
      BY <1>3, <3>3, <3>7 DEF Turns, SameTurn
    <3>10. ~Stale(r) BY <1>7 DEF Stale, Closed
    <3>11. /\ turn[r].status = "PROCESSING" /\ turn[r].version = seen[r].version
           /\ turn[r].conversation = i /\ turn[r].createdAt = now
      BY <1>1, <1>2, <1>3, <3>10 DEF Fence, Fenced
    <3>12. /\ TableInv' /\ TablesOK' /\ NothingInserted(r)
           /\ \A j \in Requests : ConversationKept(j) \/ ConversationOwned(r, j)
           /\ \A t \in Requests \ {r} : TurnKept(t)
           /\ conversation'[i] = row /\ turn'[r] = mine
      <4>1. /\ row.status = "PROCESSING" /\ mine.status = "PROCESSING"
            /\ mine.version = turn[r].version /\ row.updatedAt = turn[r].createdAt
        BY <1>7, <3>8, <3>9, <3>11
      <4>2. /\ i \in Requests /\ row \in Conversations /\ mine \in Turns
            /\ row.version = c.version /\ row.profile = c.profile
            /\ row.expiresAt = c.expiresAt /\ SameTurn(mine, turn[r])
        BY <1>3, <3>8, <3>9
      <4>3. OwnedWrite(r, row, mine) BY <4>1, <4>2 DEF OwnedWrite
      <4>4. i = input[r].conversation /\ pc[r] \in Sending /\ input[r].op = "send" BY <1>3
      <4> HIDE DEF i
      <4>5. /\ TableInv' /\ TablesOK' /\ NothingInserted(r)
            /\ \A j \in Requests : ConversationKept(j) \/ ConversationOwned(r, j)
            /\ \A t \in Requests \ {r} : TurnKept(t)
        BY <3>4, <3>5, <3>10, <4>3, <4>4, OwnedStep
      <4>6. conversation'[i] = row /\ turn'[r] = mine
        BY <1>1, <1>3, <3>4, <3>5 DEF i, TypeOK, TablesOK
      <4> QED BY <4>5, <4>6
    <3>13. /\ ControlOK' /\ OthersWait(r) /\ Stage(r)' /\ InScope(r)' /\ Timely(r)'
           /\ pc'[r] = "lock" /\ input'[r] = input[r] /\ seen'[r].version = seen[r].version
      BY <1>3, <1>4, <3>6, <3>12, GetThenMoves
    <3>14. TypeOK' BY <1>1, <1>2, <3>12, <3>13 DEF TypeOK
    <3>15. Fence(r)'
      <4>1. seen[r].version \in Nat BY <1>1 DEF TypeOK, ControlOK, Memories
      <4>2. Fenced(r)'
        BY <1>7, <3>8, <3>9, <3>11, <3>12, <3>13, <4>1 DEF Fenced, Settled, SameTurn
      <4> QED BY <3>13, <4>2 DEF Fence
    <3>16. Effects(r)
      BY <1>2, <3>11, <3>12, <3>13 DEF Effects, Settled, Closed
    <3> QED BY <3>12, <3>13, <3>14, <3>15, <3>16, Assembled
  <2> QED BY <2>2, <2>3
<1> QED BY <1>6, <1>7


LEMMA ProviderReturnsStep ==
  ASSUME AssistantInv, NEW r \in Requests, ProviderReturns(r)
  PROVE  AssistantInv' /\ Effects(r)
<1>1. /\ pc[r] = "provider" /\ scopeLock' = scopeLock /\ UNCHANGED tables
      /\ \/ GetThen(r, "finish", "ANSWERED")
         \/ MayRetry(r) /\ GetThen(r, "consent", None)
  BY DEF ProviderReturns
<1>2. pc[r] \in Sending /\ input[r].op = "send"
  BY <1>1 DEF AssistantInv, Stage, Sending
<1>3. /\ TableInv' /\ TablesOK' /\ NothingInserted(r)
      /\ \A i \in Requests : ConversationKept(i)
      /\ \A t \in Requests : TurnKept(t)
  BY <1>1, QuietTables
<1>4. PICK then \in {"consent", "finish"}, result \in Settled \cup {None} :
        /\ GetThen(r, then, result) /\ (then = "finish" => result # None)
        /\ then = "consent" => seen[r].checks < ConsentChecks + MaxRetries
  BY <1>1, NoneAssumption DEF MayRetry, Settled
<1> QED BY <1>1, <1>2, <1>3, <1>4, GetThenStep

\* The turn of a request that lost its conversation is closed, and nothing else.
LEMMA FencedTables ==
  ASSUME AssistantInv, NEW r \in Requests, pc[r] = "finalize",
         turn[r].version = seen[r].version, Stale(r),
         conversation' = conversation, turn' = [turn EXCEPT ![r] = FencedTurn(r)]
  PROVE  /\ TableInv' /\ TablesOK' /\ NothingInserted(r)
         /\ \A t \in Requests \ {r} : turn'[t] = turn[t]
         /\ turn[r].status \notin Settled /\ turn'[r].status \in Closed
<1> DEFINE i == input[r].conversation
<1>1. TypeOK /\ Stage(r) /\ Fence(r) /\ OneProcessing BY DEF AssistantInv, TableInv
<1>2. input[r].op = "send" /\ i \in Requests /\ Fenced(r)
  BY <1>1, InputKinds DEF Stage, Fence, Sending
<1>3. turn[r] \in Turns /\ seen[r].now \in Times
  BY <1>1 DEF TypeOK, TablesOK, ControlOK, Memories
<1>4. PICK status \in Closed :
        FencedTurn(r) = [turn[r] EXCEPT !.answeredAt = seen[r].now, !.status = status]
  BY DEF FencedTurn, Closed
<1>5. PICK mine : mine = FencedTurn(r) OBVIOUS
<1>6. mine \in Turns /\ mine.status = status /\ SameTurn(mine, turn[r])
  BY <1>3, <1>4, <1>5 DEF Turns, SameTurn, Closed
<1>7. /\ turn' \in [Requests -> Turns] /\ turn'[r] = mine
      /\ \A t \in Requests \ {r} : turn'[t] = turn[t]
  BY <1>1, <1>5, <1>6 DEF TypeOK, TablesOK
<1>8. turn[r].status \notin Settled /\ turn[r].status # "absent" /\ turn[r].conversation = i
  BY <1>2 DEF Fenced
<1>9. \A j \in Requests : ConversationKept(j) BY DEF ConversationKept
<1>10. \A t \in Requests \ {r} : TurnKept(t) BY <1>7 DEF TurnKept
<1>11. TurnWritten(r) BY <1>6, <1>7, <1>8 DEF TurnWritten, Closed
<1>12. TurnsBelong' /\ OneTurnPerKey' /\ AnsweredInTime' BY <1>9, <1>10, <1>11, TurnsKept
<1>13. OneOpenContext'
  <2>1. \A j \in Requests : ~ConversationNew(r, j) BY DEF ConversationNew
  <2> QED BY <1>9, <2>1, OpenKept
<1>14. turn[r].status = "PROCESSING" => conversation[i].status = "EXPIRED"
  <2> SUFFICES ASSUME turn[r].status = "PROCESSING", conversation[i].status = "PROCESSING"
               PROVE  FALSE
    <3>1. turn[r].status = "PROCESSING" => r \in Processing(i)
      BY <1>8 DEF Processing, TurnsOf
    <3> QED BY <1>1, <1>2, <3>1 DEF OneProcessing
  <2>1. r \in Processing(i) BY <1>8 DEF Processing, TurnsOf
  <2>2. turn[r].version = conversation[i].version BY <1>1, <1>2, <2>1 DEF OneProcessing
  <2> QED BY <2>2 DEF Stale, Closed
<1>15. OneProcessing'
  <2> SUFFICES ASSUME NEW j \in Requests
               PROVE  /\ conversation'[j].status = "PROCESSING" =>
                           \E t \in Requests :
                             /\ Processing(j)' = {t}
                             /\ turn'[t].version = conversation'[j].version
                             /\ turn'[t].createdAt = conversation'[j].updatedAt
                      /\ Processing(j)' # {} =>
                           conversation'[j].status \in {"PROCESSING", "EXPIRED"}
    BY DEF OneProcessing
  <2>1. Processing(j)' \subseteq Processing(j) BY <1>6, <1>7 DEF Processing, TurnsOf, Closed
  <2>2. CASE conversation[j].status = "PROCESSING"
    <3>1. PICK t \in Requests : /\ Processing(j) = {t}
                                /\ turn[t].version = conversation[j].version
                                /\ turn[t].createdAt = conversation[j].updatedAt
      BY <1>1, <2>2 DEF OneProcessing
    <3>2. t # r /\ turn[t].conversation = j /\ turn[t].status = "PROCESSING"
      BY <1>8, <1>14, <2>2, <3>1 DEF Processing, TurnsOf
    <3>3. turn'[t] = turn[t] BY <1>7, <3>2
    <3>4. Processing(j)' = {t} BY <2>1, <3>1, <3>2, <3>3 DEF Processing, TurnsOf
    <3> QED BY <2>2, <3>1, <3>3, <3>4
  <2>3. CASE conversation[j].status # "PROCESSING"
    BY <1>1, <2>1, <2>3 DEF OneProcessing
  <2> QED BY <2>2, <2>3
<1>16. NothingInserted(r) BY <1>8 DEF NothingInserted, TurnNotInserted
<1>17. TablesOK' BY <1>1, <1>7 DEF TypeOK, TablesOK
<1> QED BY <1>6, <1>7, <1>8, <1>12, <1>13, <1>15, <1>16, <1>17 DEF TableInv

LEMMA FinalizeStep ==
  ASSUME AssistantInv, NEW r \in Requests, Finalize(r)
  PROVE  AssistantInv' /\ Effects(r)
<1> DEFINE i   == input[r].conversation
           now == seen[r].now
<1>1. TypeOK /\ Stage(r) /\ Fence(r) /\ Timely(r) BY DEF AssistantInv
<1>2. pc[r] = "finalize" /\ scopeLock' = scopeLock /\ Stop(r, "done") BY DEF Finalize
<1>3. /\ pc[r] \in Sending /\ input[r].op = "send" /\ i \in Requests
      /\ pc[r] \notin Stopped \cup {"idle"} /\ "done" \in Stopped
  BY <1>1, <1>2, InputKinds DEF Stage, Sending, Stopped
<1>4. seen[r].result \in Settled /\ now \in Times
  BY <1>1, <1>2 DEF Stage, TypeOK, ControlOK, Memories
<1>5. CASE turn[r].version # seen[r].version
  <2>1. UNCHANGED tables BY <1>5 DEF Finalize
  <2>2. /\ TableInv' /\ TablesOK' /\ NothingInserted(r)
        /\ \A j \in Requests : ConversationKept(j)
        /\ \A t \in Requests : TurnKept(t)
    BY <2>1, QuietTables
  <2> QED BY <1>2, <1>3, <2>2, StopStep
<1>6. CASE turn[r].version = seen[r].version /\ Stale(r)
  <2>1. conversation' = conversation /\ turn' = [turn EXCEPT ![r] = FencedTurn(r)]
    BY <1>6 DEF Finalize
  <2>2. /\ TableInv' /\ TablesOK' /\ NothingInserted(r)
        /\ \A t \in Requests \ {r} : turn'[t] = turn[t]
        /\ turn[r].status \notin Settled /\ turn'[r].status \in Closed
    BY <1>2, <1>6, <2>1, FencedTables
  <2>3. ControlOK' /\ OthersWait(r) /\ Stage(r)' /\ InScope(r)' /\ Fence(r)' /\ Timely(r)'
    BY <1>2, <1>3, <2>2, StopMoves DEF NothingInserted
  <2>4. TypeOK' BY <1>1, <1>2, <2>2, <2>3 DEF TypeOK
  <2>5. Effects(r) BY <1>2, <2>1, <2>2, <2>3 DEF Effects, ConversationKept, TurnKept
  <2> QED BY <2>2, <2>3, <2>4, <2>5, Assembled
<1>7. CASE turn[r].version = seen[r].version /\ ~Stale(r)
  <2>1. /\ turn' = [turn EXCEPT ![r].status = seen[r].result, ![r].answeredAt = now]
        /\ conversation' = [conversation EXCEPT ![i].status = seen[r].result,
                                                ![i].updatedAt = now]
    BY <1>7 DEF Finalize
  <2>2. PICK row : row = [conversation[i] EXCEPT !.status = seen[r].result, !.updatedAt = now]
    OBVIOUS
  <2>3. PICK mine : mine = [turn[r] EXCEPT !.status = seen[r].result, !.answeredAt = now]
    OBVIOUS
  <2>4. conversation' = [conversation EXCEPT ![i] = row]
    BY <1>1, <1>3, <2>1, <2>2 DEF TypeOK, TablesOK
  <2>5. turn' = [turn EXCEPT ![r] = mine] BY <1>1, <2>1, <2>3 DEF TypeOK, TablesOK
  <2>6. conversation[i] \in Conversations /\ turn[r] \in Turns
    BY <1>1, <1>3 DEF TypeOK, TablesOK
  <2>7. /\ row \in Conversations /\ row.version = conversation[i].version
        /\ row.profile = conversation[i].profile /\ row.expiresAt = conversation[i].expiresAt
        /\ row.status \in Settled
    BY <1>4, <2>2, <2>6 DEF Conversations, Settled, Open
  <2>8. /\ mine \in Turns /\ SameTurn(mine, turn[r]) /\ mine.status \in Settled
        /\ mine.answeredAt = now
    BY <1>4, <2>3, <2>6 DEF Turns, SameTurn
  <2>9. turn[r].status = "PROCESSING" /\ turn[r].createdAt = conversation[i].updatedAt
    BY <1>3, <1>7, ProcessingOfFresh
  <2>10. now < conversation[i].expiresAt /\ now - turn[r].createdAt < Lease
    <3>1. ~Expired(conversation[i], now) /\ now - conversation[i].updatedAt < Lease
      BY <1>1, <1>2, <1>3, <1>7 DEF Timely
    <3>2. now \in Int /\ conversation[i].expiresAt \in Int
      BY <1>4, <2>6, TimesAssumption DEF Times, Conversations
    <3> QED BY <2>9, <3>1, <3>2 DEF Expired
  <2>11. OwnedWrite(r, row, mine) BY <2>7, <2>8, <2>10 DEF OwnedWrite
  <2>12. /\ TableInv' /\ TablesOK' /\ NothingInserted(r)
         /\ \A j \in Requests : ConversationKept(j) \/ ConversationOwned(r, j)
         /\ \A t \in Requests \ {r} : TurnKept(t)
    BY <1>3, <1>7, <2>4, <2>5, <2>11, OwnedStep
  <2>13. ControlOK' /\ OthersWait(r) /\ Stage(r)' /\ InScope(r)' /\ Fence(r)' /\ Timely(r)'
    BY <1>2, <1>3, <2>12, StopMoves DEF NothingInserted
  <2>14. TypeOK' BY <1>1, <1>2, <2>12, <2>13 DEF TypeOK
  <2>15. Effects(r) BY <1>2, <2>9, <2>12, <2>13 DEF Effects, Settled, Closed
  <2> QED BY <2>12, <2>13, <2>14, <2>15, Assembled
<1> QED BY <1>5, <1>6, <1>7

LEMMA CancelledRowType ==
  ASSUME NEW c \in Conversations, NEW now \in Times
  PROVE  /\ CancelledRow(c, now) \in Conversations
         /\ CancelledRow(c, now).status = "CANCELLED"
         /\ CancelledRow(c, now).profile = c.profile
         /\ CancelledRow(c, now).expiresAt = c.expiresAt
         /\ CancelledRow(c, now).version = c.version + 1
<1>1. PICK v : v = c.version + 1 OBVIOUS
<1>2. v \in Nat BY <1>1 DEF Conversations
<1>3. CancelledRow(c, now) = [c EXCEPT !.status = "CANCELLED", !.version = v, !.updatedAt = now]
  BY <1>1 DEF CancelledRow
<1> QED BY <1>1, <1>2, <1>3 DEF Conversations, Closed

LEMMA CancelStep ==
  ASSUME AssistantInv, NEW r \in Requests, Cancel(r)
  PROVE  AssistantInv' /\ Effects(r)
<1> DEFINE i   == input[r].conversation
           now == seen[r].now
<1>1. TypeOK /\ Stage(r) BY DEF AssistantInv
<1>2. pc[r] = "cancel" /\ scopeLock' = scopeLock /\ Stop(r, "done") BY DEF Cancel
<1>3. /\ i \in Requests /\ now \in Times /\ conversation[i].status # "absent"
      /\ pc[r] \notin Stopped \cup {"idle"} /\ "done" \in Stopped
      /\ conversation[i] \in Conversations
  BY <1>1, <1>2, InputKinds DEF Stage, Stopped, TypeOK, TablesOK, ControlOK, Memories
<1>4. /\ TableInv' /\ TablesOK' /\ NothingInserted(r)
      /\ \A j \in Requests : ConversationKept(j)
      /\ \A t \in Requests : TurnKept(t)
  <2>1. CASE ~IsOpen(i)
    <3>1. UNCHANGED tables BY <2>1 DEF Cancel
    <3> QED BY <3>1, QuietTables
  <2>2. CASE IsOpen(i) /\ Expired(conversation[i], now)
    <3>1. /\ conversation' = [conversation EXCEPT ![i] = ExpiredRow(@, now)]
          /\ turn' = TurnsClosed(TurnsOf(i), "EXPIRED", now)
      BY <2>2 DEF Cancel
    <3> QED BY <1>3, <3>1, ExpireOne
  <2>3. CASE IsOpen(i) /\ ~Expired(conversation[i], now)
    <3>1. /\ conversation' = [conversation EXCEPT ![i] = CancelledRow(@, now)]
          /\ turn' = TurnsClosed(TurnsOf(i), "CANCELLED", now)
      BY <2>3 DEF Cancel
    <3>2. PICK row : row = CancelledRow(conversation[i], now) OBVIOUS
    <3>3. PICK status : status = "CANCELLED" OBVIOUS
    <3>4. /\ row \in Conversations /\ row.status = status /\ status \in Closed
          /\ row.profile = conversation[i].profile
          /\ row.expiresAt = conversation[i].expiresAt
          /\ row.version = conversation[i].version + 1
      BY <1>3, <3>2, <3>3, CancelledRowType DEF Closed
    <3>5. row.version > conversation[i].version BY <1>3, <3>4 DEF Conversations
    <3>6. conversation' = [conversation EXCEPT ![i] = row] BY <3>1, <3>2
    <3>7. turn' = TurnsClosed(TurnsOf(i), status, now) BY <3>1, <3>3
    <3>8. conversation[i].status # "absent" BY <2>3 DEF IsOpen, Open
    <3>9. ClosesOne(i, row, status, now) BY <3>4, <3>5, <3>6, <3>7, <3>8 DEF ClosesOne
    <3>10. /\ TableInv' /\ TablesOK' /\ NothingInserted(r)
           /\ \A j \in Requests : ConversationKept(j)
           /\ \A t \in Requests : TurnKept(t)
      BY <1>3, <3>4, <3>9, CloseOne
    <3> QED BY <3>10
  <2> QED BY <2>1, <2>2, <2>3
<1> QED BY <1>2, <1>3, <1>4, StopStep

LEMMA CrashStep ==
  ASSUME AssistantInv, NEW r \in Requests, Crash(r)
  PROVE  AssistantInv' /\ Effects(r)
<1>1. /\ pc[r] \notin Stopped \cup {"idle"} /\ Release(r) /\ Stop(r, "crashed")
      /\ UNCHANGED tables /\ "crashed" \in Stopped
  BY DEF Crash, Stopped
<1>2. /\ TableInv' /\ TablesOK' /\ NothingInserted(r)
      /\ \A j \in Requests : ConversationKept(j)
      /\ \A t \in Requests : TurnKept(t)
  BY <1>1, QuietTables
<1> QED BY <1>1, <1>2, StopStep

LEMMA FailsStep ==
  ASSUME AssistantInv, NEW r \in Requests, Fails(r)
  PROVE  AssistantInv' /\ Effects(r)
<1>1. Stage(r) BY DEF AssistantInv
<1>2. Release(r) /\ UNCHANGED tables /\ turn[r].status # "absent" BY DEF Fails
<1>3. /\ TableInv' /\ TablesOK' /\ NothingInserted(r)
      /\ \A j \in Requests : ConversationKept(j)
      /\ \A t \in Requests : TurnKept(t)
  BY <1>2, QuietTables
<1>4. PICK result \in Settled : GetThen(r, "finish", result) BY DEF Fails, Settled
<1>5. pc[r] \in Sending /\ input[r].op = "send" BY <1>1, <1>2 DEF Stage, Fails, Sending, Getting
<1>6. result # None BY NoneAssumption
<1> QED BY <1>2, <1>3, <1>4, <1>5, <1>6, GetThenStep


LEMMA WorkStep ==
  ASSUME AssistantInv, NEW r \in Requests, Work(r)
  PROVE  AssistantInv' /\ Effects(r)
BY LockStep, ExpireOthersStep, FindOpenStep, InsertStep, RecoverStep, ReadStep, ExpireStep,
   ClaimStep, BindStep, ProviderReturnsStep, FinalizeStep, CancelStep
DEF Work

\* The clock may go on, or nothing happen.
LEMMA QuietStep ==
  ASSUME AssistantInv, clock' \in Times, UNCHANGED <<tables, scopeLock, requests>>
  PROVE  AssistantInv'
<1>1. /\ TypeOK /\ TableInv /\ conversation' = conversation /\ turn' = turn
      /\ scopeLock' = scopeLock /\ pc' = pc /\ input' = input /\ seen' = seen
  BY DEF AssistantInv, tables, requests
<1>2. TypeOK' BY <1>1 DEF TypeOK, TablesOK, ControlOK
<1>3. TableInv'
  BY <1>1 DEF TableInv, TurnsBelong, OneOpenContext, OneTurnPerKey, AnsweredInTime, IsOpen,
              OneProcessing, Processing, TurnsOf
<1>4. ASSUME NEW r \in Requests PROVE Stage(r)' /\ InScope(r)' /\ Fence(r)' /\ Timely(r)'
  <2>1. Stage(r) /\ InScope(r) /\ Fence(r) /\ Timely(r) BY DEF AssistantInv
  <2>2. Stale(r)' = Stale(r) /\ Mine(r)' = Mine(r)
    BY <1>1 DEF Stale, Mine, IsOpen, ProfileOf
  <2> QED BY <1>1, <2>1, <2>2 DEF Stage, InScope, Fence, Fenced, Timely
<1> QED BY <1>2, <1>3, <1>4 DEF AssistantInv

LEMMA InitInv == Init => AssistantInv
<1> SUFFICES ASSUME Init PROVE AssistantInv OBVIOUS
<1>1. NoConversation \in Conversations /\ NoTurn \in Turns /\ NothingSeen \in Memories
  BY ChecksAssumption, TimesAssumption
  DEF NoConversation, Conversations, NoTurn, Turns, NothingSeen, Memories, Times
<1>2. TypeOK BY <1>1, TimesAssumption DEF Init, TypeOK, TablesOK, ControlOK, Times
<1>3. \A r \in Requests : /\ conversation[r] = NoConversation /\ turn[r] = NoTurn
                          /\ pc[r] = "idle" /\ seen[r] = NothingSeen
  BY DEF Init
<1>4. \A i \in Requests : Processing(i) = {} /\ ~IsOpen(i) /\ conversation[i].status = "absent"
                          /\ turn[i].status = "absent" /\ turn[i].conversation = None
  BY <1>3 DEF Processing, TurnsOf, IsOpen, NoTurn, NoConversation, Open
<1>5. TableInv
  BY <1>4 DEF TableInv, TurnsBelong, OneOpenContext, OneTurnPerKey, OneProcessing,
              AnsweredInTime
<1>6. ASSUME NEW r \in Requests PROVE Stage(r) /\ InScope(r) /\ Fence(r) /\ Timely(r)
  <2>1. seen[r].then = "reply" /\ seen[r].checks = 0 BY <1>3 DEF NothingSeen
  <2> QED BY <1>3, <1>4, <2>1
          DEF Stage, InScope, Fence, Timely, Scoped, Getting, Sending
<1> QED BY <1>2, <1>5, <1>6 DEF AssistantInv

LEMMA NextInv == AssistantInv /\ [Next]_vars => AssistantInv'
<1> SUFFICES ASSUME AssistantInv, [Next]_vars PROVE AssistantInv' OBVIOUS
<1>1. CASE Tick
  <2>1. clock' \in Times
    BY <1>1, TimesAssumption DEF Tick, AssistantInv, TypeOK, ControlOK, Times
  <2> QED BY <1>1, <2>1, QuietStep DEF Tick
<1>2. ASSUME NEW r \in Requests, Arrive(r) \/ Work(r) \/ Fails(r) \/ Crash(r)
      PROVE  AssistantInv'
  BY <1>2, ArriveStep, WorkStep, FailsStep, CrashStep
<1>3. CASE UNCHANGED vars
  <2>1. clock' \in Times BY <1>3 DEF vars, AssistantInv, TypeOK, ControlOK
  <2> QED BY <1>3, <2>1, QuietStep DEF vars
<1> QED BY <1>1, <1>2, <1>3 DEF Next

\* The invariant holds at first, and every step keeps it.
LEMMA AssistantInvAlways == Spec => []AssistantInv
<1> QED BY InitInv, NextInv, PTL DEF Spec

-----------------------------------------------------------------------------
(* What is promised.                                                       *)

\* The tables keep to their types, and every request keeps to its life and to what
\* it may ask for, whatever requests run into each other.
THEOREM TypeCorrect == Spec => []TypeOK
<1>1. AssistantInv => TypeOK BY DEF AssistantInv
<1> QED BY <1>1, AssistantInvAlways, PTL

\* The user never has two open conversations: the advisory lock is held from the
\* search of a conversation to the insertion of the new one, and nobody else inserts.
THEOREM OneContext == Spec => []OneOpenContext
<1>1. AssistantInv => OneOpenContext BY DEF AssistantInv, TableInv
<1> QED BY <1>1, AssistantInvAlways, PTL

\* However often a message is sent again with its key, it has one turn.
THEOREM OneTurn == Spec => []OneTurnPerKey
<1>1. AssistantInv => OneTurnPerKey BY DEF AssistantInv, TableInv
<1> QED BY <1>1, AssistantInvAlways, PTL

\* The conversation being processed has one turn being processed, with its version.
THEOREM ProcessingFenced == Spec => []ProcessingIsFenced
<1>1. AssistantInv => ProcessingIsFenced
  <2> SUFFICES ASSUME AssistantInv, NEW i \in Requests
               PROVE  /\ conversation[i].status = "PROCESSING" =>
                           /\ Cardinality(Processing(i)) = 1
                           /\ \A t \in Processing(i) :
                                turn[t].version = conversation[i].version
                      /\ Processing(i) # {} =>
                           conversation[i].status \in {"PROCESSING", "EXPIRED"}
    BY DEF ProcessingIsFenced
  <2>1. OneProcessing BY DEF AssistantInv, TableInv
  <2>2. ASSUME conversation[i].status = "PROCESSING"
        PROVE  /\ Cardinality(Processing(i)) = 1
               /\ \A t \in Processing(i) : turn[t].version = conversation[i].version
    <3>1. PICK t \in Requests : Processing(i) = {t} /\ turn[t].version = conversation[i].version
      BY <2>1, <2>2 DEF OneProcessing
    <3>2. Cardinality({t}) = 1 BY FS_Singleton
    <3> QED BY <3>1, <3>2
  <2> QED BY <2>1, <2>2 DEF OneProcessing
<1> QED BY <1>1, AssistantInvAlways, PTL

\* An answer is only stored while its conversation is alive and its lease runs, by
\* the clock sampled before the last reading of the conversation.
THEOREM InTime == Spec => []AnsweredInTime
<1>1. AssistantInv => AnsweredInTime BY DEF AssistantInv, TableInv
<1> QED BY <1>1, AssistantInvAlways, PTL

LEMMA EffectsAreFenced ==
  ASSUME AssistantInv, NEW r \in Requests, Effects(r), NEW t \in Requests
  PROVE  /\ turn[t].status \in Settled => turn'[t] = turn[t]
         /\ turn[t].status \in Closed => turn'[t].status \in Closed
         /\ conversation[t].status \in Closed => conversation'[t].status \in Closed
<1>1. t # r => TurnKept(t) BY DEF Effects
<1>2. ConversationKept(t) \/ ConversationOwned(r, t) \/ ConversationNew(r, t) BY DEF Effects
<1>3. ConversationOwned(r, t) => conversation[t].status = "PROCESSING"
  BY ProcessingOfFresh DEF ConversationOwned
<1>4. conversation[t].status \in Closed => conversation'[t].status \in Closed
  BY <1>2, <1>3 DEF ConversationKept, ConversationNew, Closed
<1> QED BY <1>1, <1>4 DEF Effects, TurnKept, Settled, Closed

LEMMA NextIsFenced ==
  AssistantInv /\ [Next]_vars =>
    [\A t \in Requests :
       /\ turn[t].status \in Settled => turn'[t] = turn[t]
       /\ turn[t].status \in Closed => turn'[t].status \in Closed
       /\ conversation[t].status \in Closed => conversation'[t].status \in Closed]_vars
<1> SUFFICES ASSUME AssistantInv, Next, NEW t \in Requests
             PROVE  /\ turn[t].status \in Settled => turn'[t] = turn[t]
                    /\ turn[t].status \in Closed => turn'[t].status \in Closed
                    /\ conversation[t].status \in Closed => conversation'[t].status \in Closed
  OBVIOUS
<1>1. CASE Tick BY <1>1 DEF Tick, tables
<1>2. ASSUME NEW r \in Requests, Arrive(r) \/ Work(r) \/ Fails(r) \/ Crash(r)
      PROVE  Effects(r)
  BY <1>2, ArriveStep, WorkStep, FailsStep, CrashStep
<1> QED BY <1>1, <1>2, EffectsAreFenced DEF Next

\* A late answer never overwrites a newer outcome, whatever steps of other requests
\* come between the claim of a turn and its finalization.
THEOREM LateIsFenced == Spec => LateAnswerIsFenced
<1> QED BY AssistantInvAlways, NextIsFenced, PTL DEF Spec, LateAnswerIsFenced

=============================================================================
