------------------------ MODULE AuthenticationProofs ------------------------
(***************************************************************************)
(* Theorems about Authentication for every set of attempts, callbacks,     *)
(* requests, users and identities, and every lifetime of an attempt and of *)
(* a session:                                                              *)
(*                                                                         *)
(*   OneSession       Spec => []OneSessionPerLogin                         *)
(*   DisabledIsOut    Spec => []DisabledHasNoSession                       *)
(*   OneAccount       Spec => []OneAccountPerPerson                        *)
(*   StaysRevoked     Spec => RevocationStands                             *)
(***************************************************************************)
EXTENDS Authentication, FiniteSetTheorems, TLAPS

-----------------------------------------------------------------------------
(* The inductive invariant.                                                *)

Emails   == {i.email : i \in Identities} \cup {Registered[u] : u \in DOMAIN Registered}
Subjects == {i.subject : i \in Identities}
Reasons  == {"user_disabled", "expired", "idle_timeout", "logout"}

AttemptRows ==
    [status : {"absent", "PENDING", "PROCESSING", "CONSUMED", "CANCELLED", "EXPIRED", "FAILED"},
     version : Nat, expires : Nat]

UserRows ==
    [status : {"ACTIVE", "DISABLED"}, email : Emails, subject : Subjects \cup {None},
     profiles : {0, 1}]

SessionRows ==
    [status : {"ACTIVE"}, user : Users, seen : Nat, expires : Nat,
     revoked : Reasons \cup {None}]

Claims ==
    [attempt : Attempts, version : Nat, at : Nat, identity : Identities \cup {None},
     found : Users \cup {None}]

Judgements == [session : Callbacks, at : Nat, reason : Reasons \cup {None}]

\* A callback works from its claim on, and knows who comes from the exchange on.
Working  == {"exchange", "subject", "email", "refuse", "write", "fail"}
Searches == {"subject", "email", "refuse", "write"}

TypeInv ==
    /\ clock \in Nat
    /\ attempt \in [Attempts -> AttemptRows]
    /\ user \in [Users -> UserRows \cup {Absent}]
    /\ session \in [Callbacks -> SessionRows \cup {Absent}]
    /\ pc \in [Callbacks \cup Requests -> Working \cup {"idle", "done", "judge", "revoke"}]
    /\ task \in [Callbacks \cup Requests -> Claims \cup Judgements \cup {None}]
    /\ \A c \in Callbacks :
          /\ task[c] \in Claims \cup {None}
          /\ pc[c] \in Working => task[c] \in Claims
          /\ pc[c] \in Searches => task[c].identity \in Identities
          /\ pc[c] \notin {"judge", "revoke"}
    /\ \A r \in Requests :
          /\ pc[r] \in {"idle", "judge", "revoke"}
          /\ pc[r] \in {"judge", "revoke"} => task[r] \in Judgements
          /\ pc[r] = "revoke" => task[r].reason \in Reasons

\* A session is made for a user by a callback that is done, out of an attempt
\* that is consumed; and an attempt is consumed for one.
LoggedIn ==
    \A c \in Callbacks :
        session[c] # Absent =>
            /\ pc[c] = "done" /\ task[c] \in Claims /\ task[c].identity \in Identities
            /\ attempt[task[c].attempt].status = "CONSUMED"
            /\ Exists(session[c].user)

ConsumedForSession ==
    \A a \in Attempts :
        attempt[a].status = "CONSUMED" =>
            \E c \in Callbacks : session[c] # Absent /\ task[c].attempt = a

NoTwoSessions ==
    \A c, d \in Callbacks :
        session[c] # Absent /\ session[d] # Absent /\ task[c].attempt = task[d].attempt => c = d

\* A callback holds no row before it has found a user, and while it holds the
\* row of the user it found, nobody disables them.
HeldIsActive ==
    \A c \in Callbacks :
        /\ pc[c] \in {"exchange", "subject", "email"} => task[c].found = None
        /\ pc[c] = "write" /\ task[c].found # None => user[task[c].found].status = "ACTIVE"

AuthInv ==
    /\ TypeInv
    /\ LoggedIn /\ ConsumedForSession /\ NoTwoSessions
    /\ HeldIsActive /\ DisabledHasNoSession
    /\ OneAccountPerPerson


-----------------------------------------------------------------------------
(* Rows.                                                                   *)

LEMMA RowsAreNotAbsent ==
    /\ \A s \in SessionRows : s # Absent
    /\ \A u \in UserRows : u # Absent
    /\ Absent.status = "absent"
BY DEF SessionRows, UserRows, Absent

LEMMA UserExists ==
    ASSUME TypeInv, NEW u \in Users
    PROVE  /\ Exists(u) => user[u] \in UserRows
           /\ user[u].status \in {"ACTIVE", "DISABLED"} => Exists(u) /\ user[u] \in UserRows
BY RowsAreNotAbsent DEF TypeInv, Exists, UserRows

\* What a step may do to a session that is there: revoke it or renew it, as long
\* as nobody has revoked it.
Kept(c) ==
    \/ session'[c] = session[c]
    \/ /\ session[c] # Absent /\ session[c].revoked = None
       /\ session'[c] # Absent /\ session'[c].user = session[c].user

SessionsKept ==
    /\ session' \in [Callbacks -> SessionRows \cup {Absent}]
    /\ \A c \in Callbacks : Kept(c)

LEMMA RevokedKeeps ==
    ASSUME NEW s \in SessionRows \cup {Absent}, NEW reason \in Reasons
    PROVE  /\ Revoked(s, reason) \in SessionRows \cup {Absent}
           /\ \/ Revoked(s, reason) = s
              \/ /\ s # Absent /\ s.revoked = None
                 /\ Revoked(s, reason) # Absent
                 /\ Revoked(s, reason).user = s.user
           /\ s # Absent => /\ Revoked(s, reason) # Absent
                            /\ Revoked(s, reason).revoked # None
                            /\ Revoked(s, reason).user = s.user
<1>1. CASE s # Absent /\ s.revoked = None
    <2>1. s \in SessionRows BY <1>1
    <2>2. Revoked(s, reason) = [s EXCEPT !.revoked = reason] BY <1>1 DEF Revoked
    <2>3. /\ [s EXCEPT !.revoked = reason] \in SessionRows
          /\ [s EXCEPT !.revoked = reason].user = s.user
          /\ [s EXCEPT !.revoked = reason].revoked = reason
        BY <2>1 DEF SessionRows
    <2>4. reason # None BY DEF Reasons, None
    <2> QED BY <1>1, <2>2, <2>3, <2>4, RowsAreNotAbsent
<1>2. CASE ~ (s # Absent /\ s.revoked = None) BY <1>2 DEF Revoked
<1> QED BY <1>1, <1>2

LEMMA RevokeAllKeeps ==
    ASSUME TypeInv, NEW u, session' = RevokeAll(u)
    PROVE  /\ SessionsKept
           /\ \A c \in Callbacks :
                 session'[c] # Absent /\ session'[c].revoked = None =>
                     session'[c] = session[c] /\ session[c].user # u
<1> SUFFICES ASSUME NEW c \in Callbacks
             PROVE  /\ session'[c] \in SessionRows \cup {Absent} /\ Kept(c)
                    /\ session'[c] # Absent /\ session'[c].revoked = None =>
                           session'[c] = session[c] /\ session[c].user # u
    BY DEF SessionsKept, RevokeAll
<1>1. session[c] \in SessionRows \cup {Absent} BY DEF TypeInv
<1>2. "user_disabled" \in Reasons BY DEF Reasons
<1>3. CASE session[c] # Absent /\ session[c].user = u
    <2>1. session'[c] = Revoked(session[c], "user_disabled") BY <1>3 DEF RevokeAll
    <2> QED BY <1>1, <1>2, <1>3, <2>1, RevokedKeeps DEF Kept
<1>4. CASE ~ (session[c] # Absent /\ session[c].user = u)
    <2>1. session'[c] = session[c] BY <1>4 DEF RevokeAll
    <2> QED BY <1>1, <1>4, <2>1 DEF Kept
<1> QED BY <1>3, <1>4

-----------------------------------------------------------------------------
(* Steps that make no session and change no user.                          *)

\* Attempts move, but none is consumed and none that was is not.
NoneConsumed ==
    /\ attempt' \in [Attempts -> AttemptRows]
    /\ \A a \in Attempts : attempt'[a].status = "CONSUMED" <=> attempt[a].status = "CONSUMED"

LEMMA SettlesType ==
    ASSUME TypeInv, NEW a \in Attempts,
           NEW status \in {"PROCESSING", "CONSUMED", "CANCELLED", "EXPIRED", "FAILED"}
    PROVE  /\ Settles(a, status) \in [Attempts -> AttemptRows]
           /\ Settles(a, status)[a].status = status
           /\ Settles(a, status)[a].version \in Nat
           /\ \A b \in Attempts \ {a} : Settles(a, status)[b] = attempt[b]
<1>1. attempt[a] \in AttemptRows BY DEF TypeInv
<1>2. [attempt[a] EXCEPT !.status = status, !.version = @ + 1] \in AttemptRows
    <2>1. attempt[a].version + 1 \in Nat BY <1>1 DEF AttemptRows
    <2> QED BY <1>1, <2>1 DEF AttemptRows
<1>3. /\ Settles(a, status) = [attempt EXCEPT
                ![a] = [attempt[a] EXCEPT !.status = status, !.version = @ + 1]]
      /\ [attempt[a] EXCEPT !.status = status, !.version = @ + 1].status = status
    BY <1>1 DEF TypeInv, Settles, AttemptRows
<1> QED BY <1>1, <1>2, <1>3 DEF TypeInv, AttemptRows

LEMMA SettlesOpen ==
    ASSUME TypeInv, NEW a \in Attempts, attempt[a].status # "CONSUMED",
           NEW status \in {"PROCESSING", "CANCELLED", "EXPIRED", "FAILED"},
           attempt' = Settles(a, status)
    PROVE  NoneConsumed
BY SettlesType DEF NoneConsumed

\* The callback that moves has no session yet.
LEMMA CallbackStep ==
    ASSUME AuthInv, NEW c \in Callbacks, pc[c] # "done",
           NEW at \in Working \cup {"done"}, NEW tk \in Claims \cup {None},
           pc' = [pc EXCEPT ![c] = at], task' = [task EXCEPT ![c] = tk],
           at \in Working => tk \in Claims,
           at \in Searches => tk.identity \in Identities,
           at \in {"exchange", "subject", "email"} => tk.found = None,
           at = "write" => tk.found = None \/ user[tk.found].status = "ACTIVE",
           NoneConsumed, SessionsKept, UNCHANGED <<clock, user>>
    PROVE  AuthInv'
<1>1. TypeInv BY DEF AuthInv
<1>2. c \notin Requests BY NamesAssumption
<1>3. pc'[c] = at /\ task'[c] = tk
      /\ \A q \in (Callbacks \cup Requests) \ {c} : pc'[q] = pc[q] /\ task'[q] = task[q]
    BY <1>1 DEF TypeInv
<1>4. TypeInv'
    <2>1. /\ pc' \in [Callbacks \cup Requests -> Working \cup {"idle", "done", "judge", "revoke"}]
          /\ task' \in [Callbacks \cup Requests -> Claims \cup Judgements \cup {None}]
        BY <1>1 DEF TypeInv
    <2>2. \A r \in Requests : pc'[r] = pc[r] /\ task'[r] = task[r] BY <1>2, <1>3
    <2>3. at \notin {"judge", "revoke"} BY DEF Working
    <2> QED BY <1>1, <1>3, <2>1, <2>2, <2>3 DEF TypeInv, NoneConsumed, SessionsKept
<1>5. session[c] = Absent BY DEF AuthInv, LoggedIn
<1>6. \A d \in Callbacks : (session'[d] # Absent <=> session[d] # Absent)
                           /\ (session[d] # Absent => /\ pc'[d] = pc[d] /\ task'[d] = task[d]
                                                      /\ session'[d].user = session[d].user)
    BY <1>3, <1>5 DEF SessionsKept, Kept
<1>7. LoggedIn'
    BY <1>6 DEF AuthInv, LoggedIn, NoneConsumed, Claims, Exists
<1>8. ConsumedForSession' /\ NoTwoSessions'
    BY <1>6 DEF AuthInv, ConsumedForSession, NoTwoSessions, NoneConsumed
<1>9. HeldIsActive' BY <1>3 DEF AuthInv, HeldIsActive
<1>10. DisabledHasNoSession' BY DEF AuthInv, DisabledHasNoSession, SessionsKept, Kept
<1>11. OneAccountPerPerson'
    <2>1. \A d \in Callbacks : session'[d] # Absent =>
              session'[d].user = session[d].user /\ session[d] # Absent /\ task'[d] = task[d]
        BY <1>6 DEF SessionsKept, Kept
    <2> QED BY <2>1 DEF AuthInv, OneAccountPerPerson, Exists, Identity
<1> QED BY <1>4, <1>7, <1>8, <1>9, <1>10, <1>11 DEF AuthInv


\* Nothing of the sessions or the attempts changes.
LEMMA NothingMoves ==
    ASSUME TypeInv
    PROVE  /\ UNCHANGED session => SessionsKept
           /\ UNCHANGED attempt => NoneConsumed
BY DEF TypeInv, SessionsKept, Kept, NoneConsumed

\* What a callback remembers when it stops, and when it starts again.
LEMMA ClaimedType ==
    ASSUME NEW a \in Attempts, NEW version \in Nat, NEW at \in Nat
    PROVE  Claimed(a, version, at) \in Claims /\ Claimed(a, version, at).found = None
BY DEF Claimed, Claims

LEMMA SameTask ==
    ASSUME TypeInv, NEW c \in Callbacks, UNCHANGED task
    PROVE  task' = [task EXCEPT ![c] = task[c]] /\ task[c] \in Claims \cup {None}
BY DEF TypeInv

LEMMA ClaimStep ==
    ASSUME AuthInv, NEW c \in Callbacks, NEW a \in Attempts,
           Claim(c, a) \/ ClaimNothing(c, a) \/ Cancel(c, a)
    PROVE  AuthInv'
<1>1. TypeInv /\ clock \in Nat /\ UNCHANGED <<clock, user, session>> /\ pc[c] = "idle"
    BY DEF AuthInv, TypeInv, Claim, ClaimNothing, Cancel
<1>2. SessionsKept BY <1>1, NothingMoves
<1>3. CASE Claim(c, a)
    <2>1. /\ attempt' = Settles(a, "PROCESSING") /\ attempt[a].status = "PENDING"
          /\ pc' = [pc EXCEPT ![c] = "exchange"]
          /\ task' = [task EXCEPT ![c] = Claimed(a, attempt'[a].version, clock)]
        BY <1>3 DEF Claim, Claimable
    <2>2. NoneConsumed BY <1>1, <2>1, SettlesOpen
    <2>3. /\ Claimed(a, attempt'[a].version, clock) \in Claims
          /\ Claimed(a, attempt'[a].version, clock).found = None
        BY <1>1, <2>1, SettlesType, ClaimedType
    <2> QED BY <1>1, <1>2, <2>1, <2>2, <2>3, CallbackStep DEF Working, Searches
<1>4. CASE ClaimNothing(c, a) \/ Cancel(c, a)
    <2>1. /\ pc' = [pc EXCEPT ![c] = "done"] /\ UNCHANGED task
          /\ \/ attempt' = attempt
             \/ attempt[a].status = "PENDING" /\ \E s \in {"EXPIRED", "CANCELLED"} :
                                                   attempt' = Settles(a, s)
        BY <1>4 DEF ClaimNothing, Cancel, Claimable
    <2>2. NoneConsumed BY <1>1, <2>1, SettlesOpen, NothingMoves
    <2>3. task' = [task EXCEPT ![c] = task[c]] /\ task[c] \in Claims \cup {None}
        BY <1>1, <2>1, SameTask
    <2> QED BY <1>1, <1>2, <2>1, <2>2, <2>3, CallbackStep DEF Working, Searches
<1> QED BY <1>3, <1>4

LEMMA ExchangeStep ==
    ASSUME AuthInv, NEW c \in Callbacks, Exchange(c) PROVE AuthInv'
<1>1. TypeInv /\ UNCHANGED <<clock, attempt, user, session>> /\ pc[c] = "exchange"
      /\ task[c] \in Claims
    BY DEF AuthInv, TypeInv, Exchange, Working
<1>2. PICK i \in Identities : task' = [task EXCEPT ![c].identity = i] BY DEF Exchange
<1> DEFINE tk == [task[c] EXCEPT !.identity = i]
<1>3. tk \in Claims /\ tk.identity = i /\ tk.found = None
    BY <1>1 DEF Claims, AuthInv, HeldIsActive
<1>4. pc' = [pc EXCEPT ![c] = "subject"] /\ task' = [task EXCEPT ![c] = tk]
    BY <1>2 DEF Exchange
<1>5. NoneConsumed /\ SessionsKept BY <1>1, NothingMoves
<1> HIDE DEF tk
<1> QED BY <1>1, <1>3, <1>4, <1>5, CallbackStep DEF Working, Searches

LEMMA FoundStep ==
    ASSUME AuthInv, NEW c \in Callbacks, pc[c] \in {"subject", "email"}, NEW u \in Users,
           Exists(u), Found(c, u)
    PROVE  AuthInv'
<1>1. TypeInv /\ UNCHANGED <<clock, attempt, user, session>>
      /\ task[c] \in Claims /\ task[c].identity \in Identities
    BY DEF AuthInv, TypeInv, Found, Working, Searches
<1> DEFINE tk == [task[c] EXCEPT !.found = u]
           at == IF user[u].status = "DISABLED" THEN "refuse" ELSE "write"
<1>2. tk \in Claims /\ tk.identity \in Identities /\ tk.found = u BY <1>1 DEF Claims
<1>3. pc' = [pc EXCEPT ![c] = at] /\ task' = [task EXCEPT ![c] = tk] BY DEF Found
<1>4. at \in {"refuse", "write"} /\ (at = "write" => user[u].status = "ACTIVE")
    BY <1>1, UserExists DEF UserRows
<1>5. NoneConsumed /\ SessionsKept BY <1>1, NothingMoves
<1> HIDE DEF tk, at
<1> QED BY <1>1, <1>2, <1>3, <1>4, <1>5, CallbackStep DEF Working, Searches

LEMMA FindStep ==
    ASSUME AuthInv, NEW c \in Callbacks, FindBySubject(c) \/ FindByEmail(c) PROVE AuthInv'
<1>1. TypeInv /\ pc[c] \in {"subject", "email"}
      /\ task[c] \in Claims /\ task[c].identity \in Identities
    BY DEF AuthInv, TypeInv, FindBySubject, FindByEmail, Working, Searches
<1>2. CASE \E u \in BySubject(Identity(c)) \cup ByEmail(Identity(c)) : Found(c, u)
    BY <1>1, <1>2, FoundStep DEF BySubject, ByEmail
<1>3. CASE /\ pc[c] = "subject"
           /\ pc' = [pc EXCEPT ![c] = "email"]
           /\ UNCHANGED <<clock, attempt, user, session, task>>
    <2>1. NoneConsumed /\ SessionsKept BY <1>1, <1>3, NothingMoves
    <2>2. task' = [task EXCEPT ![c] = task[c]] /\ task[c].found = None
        BY <1>1, <1>3, SameTask DEF AuthInv, HeldIsActive
    <2> QED BY <1>1, <1>3, <2>1, <2>2, CallbackStep DEF Working, Searches
<1>4. CASE /\ pc[c] = "email"
           /\ pc' = [pc EXCEPT ![c] = "write"]
           /\ UNCHANGED <<clock, attempt, user, session, task>>
    <2>1. NoneConsumed /\ SessionsKept BY <1>1, <1>4, NothingMoves
    <2>2. task' = [task EXCEPT ![c] = task[c]] BY <1>1, <1>4, SameTask
    <2>3. task[c].found = None BY <1>4 DEF AuthInv, HeldIsActive
    <2> QED BY <1>1, <1>4, <2>1, <2>2, <2>3, CallbackStep DEF Working, Searches
<1> QED BY <1>2, <1>3, <1>4 DEF FindBySubject, FindByEmail


LEMMA RollsBackStep ==
    ASSUME AuthInv, NEW c \in Callbacks, pc[c] \in Working, RollsBack(c),
           SessionsKept, UNCHANGED <<clock, attempt, user>>
    PROVE  AuthInv'
<1>1. TypeInv /\ task[c].attempt \in Attempts /\ pc[c] # "done"
    BY DEF AuthInv, TypeInv, Claims, Working
<1>2. Claimed(task[c].attempt, 0, 0) \in Claims BY <1>1, ClaimedType
<1>3. NoneConsumed BY <1>1, NothingMoves
<1> QED BY <1>1, <1>2, <1>3, CallbackStep DEF RollsBack, Working, Searches

LEMMA RefuseStep ==
    ASSUME AuthInv, NEW c \in Callbacks, Refuse(c) \/ Fail(c) PROVE AuthInv'
<1>1. /\ TypeInv /\ RollsBack(c) /\ UNCHANGED <<clock, attempt, user>>
      /\ pc[c] \in Working
      /\ UNCHANGED session \/ \E u : session' = RevokeAll(u)
    BY DEF AuthInv, Refuse, Fail, Working
<1>2. SessionsKept BY <1>1, NothingMoves, RevokeAllKeeps
<1> QED BY <1>1, <1>2, RollsBackStep

LEMMA GivesUpStep ==
    ASSUME AuthInv, NEW c \in Callbacks, MarkFailed(c) \/ Crash(c) PROVE AuthInv'
<1>1. /\ TypeInv /\ UNCHANGED <<clock, user, session>>
      /\ pc[c] \notin {"idle", "done"} /\ pc[c] \in Working
      /\ pc' = [pc EXCEPT ![c] = "done"] /\ task' = [task EXCEPT ![c] = None]
    BY DEF AuthInv, TypeInv, MarkFailed, Crash, GivesUp
<1>2. SessionsKept BY <1>1, NothingMoves
<1>3. task[c].attempt \in Attempts BY <1>1 DEF TypeInv, Claims
<1>4. \/ UNCHANGED attempt
      \/ /\ attempt[task[c].attempt].status = "PROCESSING"
         /\ attempt' = Settles(task[c].attempt, "FAILED")
    BY DEF MarkFailed, Crash
<1>5. NoneConsumed BY <1>1, <1>3, <1>4, NothingMoves, SettlesOpen
<1> QED BY <1>1, <1>2, <1>5, CallbackStep DEF Working, Searches

\* Steps of nobody's callback.
LEMMA OtherStep ==
    ASSUME AuthInv, TypeInv', NoneConsumed, SessionsKept, UNCHANGED user,
           \A c \in Callbacks : pc'[c] = pc[c] /\ task'[c] = task[c]
    PROVE  AuthInv'
<1>1. \A d \in Callbacks : (session'[d] # Absent <=> session[d] # Absent)
                           /\ (session[d] # Absent => session'[d].user = session[d].user)
    BY DEF SessionsKept, Kept
<1>2. LoggedIn' BY <1>1 DEF AuthInv, LoggedIn, NoneConsumed, Claims, Exists
<1>3. ConsumedForSession' /\ NoTwoSessions'
    BY <1>1 DEF AuthInv, ConsumedForSession, NoTwoSessions, NoneConsumed
<1>4. HeldIsActive' BY DEF AuthInv, HeldIsActive
<1>5. DisabledHasNoSession' BY DEF AuthInv, DisabledHasNoSession, SessionsKept, Kept
<1>6. OneAccountPerPerson' BY <1>1 DEF AuthInv, OneAccountPerPerson, Exists, Identity
<1> QED BY <1>2, <1>3, <1>4, <1>5, <1>6 DEF AuthInv

LEMMA StartLoginStep ==
    ASSUME AuthInv, NEW a \in Attempts, StartLogin(a) PROVE AuthInv'
<1>1. TypeInv /\ UNCHANGED <<clock, user, session, pc, task>> BY DEF AuthInv, StartLogin
<1>2. clock + AttemptTtl \in Nat BY <1>1, AuthenticationAssumption DEF TypeInv
<1>3. [status |-> "PENDING", version |-> 0, expires |-> clock + AttemptTtl] \in AttemptRows
    BY <1>2 DEF AttemptRows
<1>4. /\ attempt' = [attempt EXCEPT ![a] =
              [status |-> "PENDING", version |-> 0, expires |-> clock + AttemptTtl]]
      /\ attempt[a].status = "absent"
    BY DEF StartLogin
<1>5. NoneConsumed BY <1>1, <1>3, <1>4 DEF NoneConsumed, TypeInv
<1>6. TypeInv' BY <1>1, <1>5 DEF TypeInv, NoneConsumed
<1> QED BY <1>1, <1>5, <1>6, NothingMoves, OtherStep

LEMMA ExpireStep == ASSUME AuthInv, ExpireAttempts PROVE AuthInv'
<1>1. TypeInv /\ UNCHANGED <<clock, user, session, pc, task>> BY DEF AuthInv, ExpireAttempts
<1>2. ASSUME NEW a \in Attempts
      PROVE  attempt'[a] \in AttemptRows
             /\ (attempt'[a].status = "CONSUMED" <=> attempt[a].status = "CONSUMED")
    <2>1. attempt[a] \in AttemptRows /\ attempt[a].version + 1 \in Nat
        BY <1>1 DEF TypeInv, AttemptRows
    <2>2. CASE a \in Overdue
        <3>1. attempt'[a] = [attempt[a] EXCEPT
                  !.status = IF @ = "PENDING" THEN "EXPIRED" ELSE "FAILED",
                  !.version = @ + 1]
            BY <2>2 DEF ExpireAttempts
        <3>2. PICK s \in {"EXPIRED", "FAILED"} :
                attempt'[a] = [attempt[a] EXCEPT !.status = s, !.version = @ + 1]
            BY <3>1
        <3>3. attempt[a].status \in Open BY <2>2 DEF Overdue
        <3> QED BY <2>1, <3>2, <3>3 DEF AttemptRows, Open
    <2>3. CASE a \notin Overdue BY <2>1, <2>3 DEF ExpireAttempts
    <2> QED BY <2>2, <2>3
<1>3. NoneConsumed BY <1>2 DEF NoneConsumed, ExpireAttempts
<1>4. TypeInv' BY <1>1, <1>3 DEF TypeInv, NoneConsumed
<1> QED BY <1>1, <1>3, <1>4, NothingMoves, OtherStep

LEMMA TickStep == ASSUME AuthInv, Tick PROVE AuthInv'
<1>1. TypeInv /\ UNCHANGED <<attempt, user, session, pc, task>> /\ clock' = clock + 1
    BY DEF AuthInv, Tick
<1>2. TypeInv' BY <1>1 DEF TypeInv
<1> QED BY <1>1, <1>2, NothingMoves, OtherStep

LEMMA LogoutStep == ASSUME AuthInv, NEW c \in Callbacks, Logout(c) PROVE AuthInv'
<1>1. /\ TypeInv /\ UNCHANGED <<clock, attempt, user, pc, task>>
      /\ session' = [session EXCEPT ![c] = Revoked(session[c], "logout")]
      /\ session[c] \in SessionRows \cup {Absent}
    BY DEF AuthInv, TypeInv, Logout
<1>2. SessionsKept BY <1>1, RevokedKeeps DEF TypeInv, SessionsKept, Kept, Reasons
<1>3. TypeInv' BY <1>1, <1>2 DEF TypeInv, SessionsKept
<1> QED BY <1>1, <1>2, <1>3, NothingMoves, OtherStep

\* Requests with a session's cookie.
LEMMA RequestSessions ==
    ASSUME TypeInv, NEW r \in Requests, Request(r) PROVE SessionsKept
<1>1. ASSUME NEW c \in Callbacks, Touch(r, c) PROVE SessionsKept
    <2>1. /\ session' = [session EXCEPT ![c] = [session[c] EXCEPT !.seen = clock]]
          /\ session[c] \in SessionRows /\ session[c].revoked = None
        BY <1>1 DEF Touch, Live, TypeInv
    <2>2. /\ [session[c] EXCEPT !.seen = clock] \in SessionRows
          /\ [session[c] EXCEPT !.seen = clock].user = session[c].user
        BY <2>1 DEF TypeInv, SessionRows
    <2> QED BY <2>1, <2>2, RowsAreNotAbsent DEF TypeInv, SessionsKept, Kept
<1>2. ASSUME RevokeRejected(r) PROVE SessionsKept
    <2>1. PICK c, why : c = task[r].session /\ why = task[r].reason OBVIOUS
    <2>2. c \in Callbacks /\ why \in Reasons
        BY <1>2, <2>1 DEF RevokeRejected, TypeInv, Judgements
    <2>3. session' = [session EXCEPT ![c] = Revoked(session[c], why)]
        BY <1>2, <2>1 DEF RevokeRejected
    <2>4. session[c] \in SessionRows \cup {Absent} BY <2>2 DEF TypeInv
    <2>5. PICK s : s = Revoked(session[c], why) OBVIOUS
    <2>6. /\ s \in SessionRows \cup {Absent}
          /\ \/ s = session[c]
             \/ /\ session[c] # Absent /\ session[c].revoked = None
                /\ s # Absent /\ s.user = session[c].user
        BY <2>2, <2>4, <2>5, RevokedKeeps
    <2> QED BY <2>2, <2>3, <2>5, <2>6 DEF TypeInv, SessionsKept, Kept
<1>3. ASSUME NEW c \in Callbacks, Miss(r, c) PROVE SessionsKept
    BY <1>3, NothingMoves DEF Miss
<1>4. CASE Judge(r) BY <1>4, NothingMoves DEF Judge
<1> QED BY <1>1, <1>2, <1>3, <1>4 DEF Request


Proceeds(r) ==
    /\ pc' \in [Callbacks \cup Requests -> Working \cup {"idle", "done", "judge", "revoke"}]
    /\ task' \in [Callbacks \cup Requests -> Claims \cup Judgements \cup {None}]
    /\ \A q \in (Callbacks \cup Requests) \ {r} : pc'[q] = pc[q] /\ task'[q] = task[q]
    /\ pc'[r] \in {"idle", "judge", "revoke"}
    /\ pc'[r] \in {"judge", "revoke"} => task'[r] \in Judgements
    /\ pc'[r] = "revoke" => task'[r].reason \in Reasons

LEMMA RequestStep == ASSUME AuthInv, NEW r \in Requests, Request(r) PROVE AuthInv'
<1>1. TypeInv /\ SessionsKept BY RequestSessions DEF AuthInv
<1>2. UNCHANGED <<clock, attempt, user>>
    BY DEF Request, Touch, Miss, Judge, RevokeRejected
<1>3. Proceeds(r)
    <2>1. ASSUME NEW at \in {"idle", "judge", "revoke"},
                 NEW tk \in Claims \cup Judgements \cup {None},
                 pc' = [pc EXCEPT ![r] = at], task' = [task EXCEPT ![r] = tk],
                 at \in {"judge", "revoke"} => tk \in Judgements,
                 at = "revoke" => tk.reason \in Reasons
          PROVE  Proceeds(r)
        BY <1>1, <2>1 DEF TypeInv, Proceeds
    <2>2. CASE \E c \in Callbacks : Touch(r, c) BY <1>1, <2>2 DEF Touch, TypeInv, Proceeds
    <2>3. CASE \E c \in Callbacks : Miss(r, c)
        <3>1. PICK c \in Callbacks : Miss(r, c) BY <2>3
        <3>2. [session |-> c, at |-> clock, reason |-> None] \in Judgements
            BY <1>1 DEF TypeInv, Judgements
        <3> QED BY <2>1, <3>1, <3>2 DEF Miss
    <2>4. CASE Judge(r)
        <3>1. task[r] \in Judgements BY <1>1, <2>4 DEF Judge, TypeInv
        <3>2. PICK why : why = Why(session[task[r].session], task[r].at) OBVIOUS
        <3>3. why \in Reasons \cup {None} BY <3>2 DEF Why, Reasons
        <3>4. CASE why = None BY <2>1, <2>4, <3>2, <3>4 DEF Judge
        <3>5. CASE why # None
            <4> DEFINE tk == [task[r] EXCEPT !.reason = why, !.at = 0]
            <4>1. pc' = [pc EXCEPT ![r] = "revoke"] /\ task' = [task EXCEPT ![r] = tk]
                BY <2>4, <3>2, <3>5 DEF Judge
            <4>2. tk \in Judgements /\ tk.reason \in Reasons
                BY <3>1, <3>3, <3>5 DEF Judgements
            <4> HIDE DEF tk
            <4> QED BY <2>1, <4>1, <4>2
        <3> QED BY <3>4, <3>5
    <2>5. CASE RevokeRejected(r) BY <2>1, <2>5 DEF RevokeRejected
    <2> QED BY <2>2, <2>3, <2>4, <2>5 DEF Request
<1>4. \A c \in Callbacks : pc'[c] = pc[c] /\ task'[c] = task[c]
    BY <1>3, NamesAssumption DEF Proceeds
<1>5. TypeInv' BY <1>1, <1>2, <1>3, <1>4 DEF TypeInv, SessionsKept, Proceeds
<1> QED BY <1>1, <1>2, <1>4, <1>5, NothingMoves, OtherStep


-----------------------------------------------------------------------------
(* Steps that change a user.                                               *)

LEMMA DisableStep ==
    ASSUME AuthInv, NEW u \in Users, Disable(u) \/ Enable(u) PROVE AuthInv'
<1>1. PICK s \in {"ACTIVE", "DISABLED"} :
        /\ user' = [user EXCEPT ![u].status = s]
        /\ s = "DISABLED" => session' = RevokeAll(u)
        /\ s = "ACTIVE" => UNCHANGED session
    BY DEF Disable, Enable
<1>2. /\ TypeInv /\ UNCHANGED <<clock, attempt, pc, task>> /\ u \notin Locked
      /\ user[u].status \in {"ACTIVE", "DISABLED"}
    BY DEF AuthInv, Disable, Enable
<1>3. user[u] \in UserRows BY <1>2, UserExists
<1>4. PICK row : row = [user[u] EXCEPT !.status = s] OBVIOUS
<1>5. /\ row \in UserRows /\ row.status = s
      /\ row.email = user[u].email /\ row.subject = user[u].subject
      /\ row.profiles = user[u].profiles
    BY <1>3, <1>4 DEF UserRows
<1>6. user' = [user EXCEPT ![u] = row] BY <1>1, <1>4
<1>7. SessionsKept BY <1>1, <1>2, NothingMoves, RevokeAllKeeps
<1>8. TypeInv' BY <1>2, <1>5, <1>6, <1>7 DEF TypeInv, SessionsKept
<1>9. \A d \in Callbacks : (session'[d] # Absent <=> session[d] # Absent)
                           /\ (session[d] # Absent => session'[d].user = session[d].user
                                                      /\ session[d].user \in Users)
    BY <1>2, <1>7 DEF SessionsKept, Kept, TypeInv, SessionRows
<1>10. LoggedIn'
    <2>1. \A v \in Users : Exists(v) => Exists(v)' BY <1>2, <1>6, <1>5 DEF TypeInv, Exists, UserRows
    <2> QED BY <1>2, <1>9, <2>1 DEF AuthInv, LoggedIn
<1>11. ConsumedForSession' /\ NoTwoSessions'
    BY <1>2, <1>9 DEF AuthInv, ConsumedForSession, NoTwoSessions
<1>12. HeldIsActive'
    <2> SUFFICES ASSUME NEW c \in Callbacks, pc[c] = "write", task[c].found # None
                 PROVE  user'[task[c].found].status = "ACTIVE"
        BY <1>2 DEF AuthInv, HeldIsActive
    <2>1. task[c].found \in Users /\ task[c].found \in Locked
        BY <1>2 DEF TypeInv, Claims, Working, Locked
    <2> QED BY <1>2, <1>6, <2>1 DEF AuthInv, HeldIsActive, TypeInv
<1>13. DisabledHasNoSession'
    <2> SUFFICES ASSUME NEW c \in Callbacks, session'[c] # Absent, session'[c].revoked = None
                 PROVE  user'[session'[c].user].status = "ACTIVE"
        BY DEF DisabledHasNoSession
    <2>1. CASE s = "ACTIVE"
        BY <1>1, <1>2, <1>5, <1>6, <1>9, <2>1 DEF AuthInv, DisabledHasNoSession, TypeInv
    <2>2. CASE s = "DISABLED"
        <3>1. session'[c] = session[c] /\ session[c].user # u
            BY <1>1, <1>2, <2>2, RevokeAllKeeps
        <3> QED BY <1>2, <1>6, <1>9, <3>1 DEF AuthInv, DisabledHasNoSession, TypeInv
    <2> QED BY <2>1, <2>2
<1>14. OneAccountPerPerson'
    <2>1. \A v \in Users : /\ user'[v].email = user[v].email
                           /\ user'[v].subject = user[v].subject
                           /\ user'[v].profiles = user[v].profiles
                           /\ Exists(v)' <=> Exists(v)
        BY <1>2, <1>5, <1>6 DEF TypeInv, Exists
    <2> QED BY <1>2, <1>9, <2>1 DEF AuthInv, OneAccountPerPerson, Identity
<1> QED BY <1>8, <1>10, <1>11, <1>12, <1>13, <1>14 DEF AuthInv

\* A login: what remains to be shown is that the user it leaves behind is the
\* person's own and nobody else's.
LEMMA LogsInStep ==
    ASSUME AuthInv, NEW c \in Callbacks, NEW u \in Users, pc[c] = "write", LogsIn(c, u),
           NEW row \in UserRows, user' = [user EXCEPT ![u] = row],
           row.status = "ACTIVE", row.subject = Identity(c).subject, row.profiles = 1,
           \A v \in Users \ {u} :
              Exists(v) => user[v].email # row.email /\ user[v].subject # row.subject,
           Exists(u) => user[u].subject \in {None, row.subject}
    PROVE  AuthInv'
<1>1. /\ TypeInv /\ task[c] \in Claims /\ task[c].identity \in Identities
      /\ task[c].attempt \in Attempts /\ task[c].at \in Nat /\ session[c] = Absent
    BY DEF AuthInv, TypeInv, Working, Searches, Claims, LoggedIn
<1>2. PICK a : a = task[c].attempt OBVIOUS
<1>3. /\ attempt[a].status = "PROCESSING" /\ attempt' = Settles(a, "CONSUMED")
      /\ pc' = [pc EXCEPT ![c] = "done"] /\ UNCHANGED <<clock, task>>
    BY <1>2 DEF LogsIn, Fresh
<1>4. PICK new : new = [status |-> "ACTIVE", user |-> u, seen |-> task[c].at,
                        expires |-> task[c].at + SessionTtl, revoked |-> None]
    OBVIOUS
<1>5. new \in SessionRows /\ new # Absent /\ new.user = u /\ new.revoked = None
    <2>1. task[c].at + SessionTtl \in Nat BY <1>1, AuthenticationAssumption
    <2> QED BY <1>1, <1>4, <2>1, RowsAreNotAbsent DEF SessionRows
<1>6. session' = [session EXCEPT ![c] = new] BY <1>4 DEF LogsIn
<1>7. /\ attempt' \in [Attempts -> AttemptRows] /\ attempt'[a].status = "CONSUMED"
      /\ \A b \in Attempts \ {a} : attempt'[b] = attempt[b]
    BY <1>1, <1>2, <1>3, SettlesType
<1>8. TypeInv'
    <2>1. c \notin Requests BY NamesAssumption
    <2> QED BY <1>1, <1>3, <1>5, <1>6, <1>7, <2>1 DEF TypeInv, Working, Searches
<1>9. /\ session'[c] = new /\ pc'[c] = "done"
      /\ \A d \in Callbacks \ {c} : session'[d] = session[d] /\ pc'[d] = pc[d]
    BY <1>1, <1>3, <1>6 DEF TypeInv
<1>10. \A d \in Callbacks : session[d] # Absent => task[d].attempt # a
    BY <1>3 DEF AuthInv, LoggedIn
<1>11. LoggedIn'
    <2>1. user'[u] = row /\ \A v \in Users \ {u} : user'[v] = user[v] BY <1>1 DEF TypeInv
    <2>2. Exists(u)' /\ \A v \in Users : Exists(v) => Exists(v)'
        BY <2>1 DEF Exists
    <2>3. \A d \in Callbacks : session[d] # Absent => session[d].user \in Users
        BY <1>1 DEF TypeInv, SessionRows
    <2> QED BY <1>1, <1>2, <1>3, <1>5, <1>7, <1>9, <1>10, <2>2, <2>3 DEF AuthInv, LoggedIn, Claims
<1>12. ConsumedForSession'
    BY <1>1, <1>2, <1>3, <1>5, <1>7, <1>9 DEF AuthInv, ConsumedForSession
<1>13. NoTwoSessions'
    BY <1>1, <1>2, <1>3, <1>9, <1>10 DEF AuthInv, NoTwoSessions
<1>14. user'[u] = row /\ \A v \in Users \ {u} : user'[v] = user[v] BY <1>1 DEF TypeInv
<1>15. HeldIsActive'
    BY <1>1, <1>3, <1>9, <1>14 DEF AuthInv, HeldIsActive, TypeInv, Claims, Working
<1>16. \A d \in Callbacks : session[d] # Absent => session[d].user \in Users
    BY <1>1 DEF TypeInv, SessionRows
<1>17. DisabledHasNoSession'
    BY <1>5, <1>9, <1>14, <1>16 DEF AuthInv, DisabledHasNoSession
<1>18. OneAccountPerPerson'
    <2>1. Exists(u)' /\ \A v \in Users \ {u} : Exists(v)' <=> Exists(v)
        BY <1>14 DEF Exists, UserRows
    <2>2. row.subject # None BY <1>1, NamesAssumption DEF Identity
    <2>3. \A v, w \in Users :
            Exists(v)' /\ Exists(w)' /\ v # w
            => user'[v].email # user'[w].email
               /\ user'[v].subject \notin {user'[w].subject} \ {None}
        BY <1>14, <2>1, <2>2 DEF AuthInv, OneAccountPerPerson
    <2>4. \A v \in Users : Exists(v)' => user'[v].profiles <= 1
        BY <1>14, <2>1 DEF AuthInv, OneAccountPerPerson
    <2>5. ASSUME NEW d \in Callbacks, session'[d] # Absent
          PROVE  /\ user'[session'[d].user].subject = task[d].identity.subject
                 /\ user'[session'[d].user].profiles = 1
        <3>1. CASE d = c BY <1>5, <1>9, <1>14, <3>1 DEF Identity
        <3>2. CASE d # c
            <4>1. PICK v \in Users : v = session[d].user /\ session'[d] = session[d]
                BY <1>9, <1>16, <2>5, <3>2
            <4>2. user[v].subject = task[d].identity.subject /\ user[v].profiles = 1
                BY <2>5, <4>1 DEF AuthInv, OneAccountPerPerson, Identity
            <4>3. task[d].identity \in Identities BY <2>5, <4>1 DEF AuthInv, LoggedIn
            <4>4. user[v].subject # None BY <4>2, <4>3, NamesAssumption
            <4>5. v = u => user[v].subject = row.subject
                <5>1. v = u => Exists(u) BY <2>5, <4>1 DEF AuthInv, LoggedIn
                <5> QED BY <4>4, <5>1
            <4> QED BY <1>14, <4>1, <4>2, <4>5
        <3> QED BY <3>1, <3>2
    <2> QED BY <1>3, <2>3, <2>4, <2>5 DEF OneAccountPerPerson, Identity
<1> QED BY <1>8, <1>11, <1>12, <1>13, <1>15, <1>17, <1>18 DEF AuthInv


LEMMA LogInStep ==
    ASSUME AuthInv, NEW c \in Callbacks,
           LogInAsFound(c) \/ LogInAsNew(c) \/ LogInAsConcurrent(c)
    PROVE  AuthInv'
<1>1. /\ TypeInv /\ pc[c] = "write" /\ task[c] \in Claims /\ task[c].identity \in Identities
      /\ HeldIsActive /\ OneAccountPerPerson
    BY DEF AuthInv, TypeInv, LogInAsFound, LogInAsNew, LogInAsConcurrent, Working, Searches
<1>2. PICK i \in Identities : i = Identity(c) BY <1>1 DEF Identity
<1>3. i.subject \in Subjects /\ i.subject # None /\ i.email \in Emails
    BY NamesAssumption DEF Subjects, Emails
<1>4. CASE LogInAsFound(c)
    <2>1. PICK u : u = task[c].found OBVIOUS
    <2>2. u \in Users /\ user[u].status = "ACTIVE"
        BY <1>1, <1>4, <2>1 DEF LogInAsFound, HeldIsActive, Claims
    <2>3. Exists(u) /\ user[u] \in UserRows BY <1>1, <2>2, UserExists
    <2>4. /\ Conflicts(c) \subseteq {u} /\ user[u].subject \in {None, i.subject}
          /\ LogsIn(c, u) /\ user' = Linked(c, u)
        BY <1>2, <1>4, <2>1 DEF LogInAsFound, MayLink, Matches
    <2>5. PICK row : row = [user[u] EXCEPT !.subject = i.subject, !.email = i.email,
                                           !.profiles = IF @ = 0 THEN 1 ELSE @]
        OBVIOUS
    <2>6. /\ row \in UserRows /\ row.status = "ACTIVE" /\ row.subject = i.subject
          /\ row.email = i.email /\ row.profiles = 1
        BY <1>3, <2>2, <2>3, <2>5 DEF UserRows
    <2>7. user' = [user EXCEPT ![u] = row]
        BY <1>2, <2>4, <2>5 DEF Linked
    <2>8. \A v \in Users \ {u} :
             Exists(v) => user[v].email # row.email /\ user[v].subject # row.subject
        BY <1>2, <2>4, <2>6 DEF Conflicts, BySubject, ByEmail
    <2> QED BY <1>1, <1>2, <2>2, <2>4, <2>6, <2>7, <2>8, LogsInStep
<1>5. CASE LogInAsNew(c)
    <2>1. PICK u \in Users :
            /\ ~ Exists(u) /\ LogsIn(c, u)
            /\ user' = [user EXCEPT ![u] = NewUser(i.email, i.subject, 1)]
        BY <1>2, <1>5 DEF LogInAsNew
    <2>2. PICK row : row = NewUser(i.email, i.subject, 1) OBVIOUS
    <2>3. /\ row \in UserRows /\ row.status = "ACTIVE" /\ row.subject = i.subject
          /\ row.email = i.email /\ row.profiles = 1
        BY <1>3, <2>2 DEF UserRows, NewUser
    <2>4. \A v \in Users \ {u} :
             Exists(v) => user[v].email # row.email /\ user[v].subject # row.subject
        BY <1>2, <1>5, <2>3 DEF LogInAsNew, Conflicts, BySubject, ByEmail
    <2> QED BY <1>1, <1>2, <2>1, <2>2, <2>3, <2>4, LogsInStep
<1>6. CASE LogInAsConcurrent(c)
    <2>1. PICK u \in Concurrent(c) :
            /\ user[u].subject = i.subject /\ user[u].status = "ACTIVE" /\ LogsIn(c, u)
            /\ user' = [user EXCEPT ![u].profiles = IF @ = 0 THEN 1 ELSE @]
        BY <1>2, <1>6 DEF LogInAsConcurrent
    <2>2. u \in Users BY DEF Concurrent, BySubject, ByEmail
    <2>3. Exists(u) /\ user[u] \in UserRows BY <1>1, <2>1, <2>2, UserExists
    <2>4. PICK row : row = [user[u] EXCEPT !.profiles = IF @ = 0 THEN 1 ELSE @] OBVIOUS
    <2>5. /\ row \in UserRows /\ row.status = "ACTIVE" /\ row.subject = i.subject
          /\ row.email = user[u].email /\ row.profiles = 1
        BY <2>1, <2>3, <2>4 DEF UserRows
    <2>6. user' = [user EXCEPT ![u] = row] BY <2>1, <2>4
    <2>7. \A v \in Users \ {u} :
             Exists(v) => user[v].email # row.email /\ user[v].subject # row.subject
        <3>1. \A v \in Users \ {u} :
                 Exists(v) => /\ user[u].email # user[v].email
                              /\ user[u].subject \notin {user[v].subject} \ {None}
            BY <1>1, <2>2, <2>3 DEF OneAccountPerPerson
        <3> SUFFICES ASSUME NEW v \in Users \ {u}, Exists(v)
                     PROVE  user[v].email # row.email /\ user[v].subject # row.subject
            OBVIOUS
        <3>2. user[u].subject # None BY <1>3, <2>1
        <3>3. user[v].subject # user[u].subject BY <3>1, <3>2
        <3>4. row.subject = user[u].subject /\ row.email = user[u].email BY <2>1, <2>5
        <3>5. user[u].email # user[v].email BY <3>1
        <3> QED BY <3>3, <3>4, <3>5
    <2>8. LogsIn(c, u) /\ row.subject = Identity(c).subject /\ user[u].subject = row.subject
        BY <1>2, <2>1, <2>5
    <2> QED BY <1>1, <2>2, <2>5, <2>6, <2>7, <2>8, LogsInStep
<1> QED BY <1>4, <1>5, <1>6

-----------------------------------------------------------------------------
(* Every step, and the theorems.                                           *)

LEMMA CallbackSteps == ASSUME AuthInv, NEW c \in Callbacks, Callback(c) PROVE AuthInv'
BY ClaimStep, ExchangeStep, FindStep, LogInStep, RefuseStep, GivesUpStep DEF Callback

LEMMA AuthInvStep == ASSUME AuthInv, [Next]_vars PROVE AuthInv'
<1>1. CASE UNCHANGED vars
    <2>1. TypeInv /\ UNCHANGED <<clock, attempt, user, session, pc, task>>
        BY <1>1 DEF vars, AuthInv
    <2>2. TypeInv' BY <2>1 DEF TypeInv
    <2> QED BY <2>1, <2>2, NothingMoves, OtherStep
<1>2. CASE Next
    BY <1>2, StartLoginStep, CallbackSteps, LogoutStep, RequestStep, DisableStep, ExpireStep,
       TickStep
    DEF Next
<1> QED BY <1>1, <1>2

LEMMA AuthInvInit == ASSUME Init PROVE AuthInv
<1>1. TypeInv
    <2>1. [status |-> "absent", version |-> 0, expires |-> 0] \in AttemptRows
        BY DEF AttemptRows
    <2>2. \A u \in DOMAIN Registered : NewUser(Registered[u], None, 1) \in UserRows
        BY DEF NewUser, UserRows, Emails
    <2>3. user \in [Users -> UserRows \cup {Absent}] BY <2>2 DEF Init
    <2> QED BY <2>1, <2>3 DEF Init, TypeInv, Working, Searches
<1>2. \A c \in Callbacks : session[c] = Absent BY DEF Init
<1>3. LoggedIn /\ NoTwoSessions /\ DisabledHasNoSession
    BY <1>2 DEF LoggedIn, NoTwoSessions, DisabledHasNoSession
<1>4. ConsumedForSession BY DEF Init, ConsumedForSession
<1>5. HeldIsActive BY DEF Init, HeldIsActive
<1>6. OneAccountPerPerson
    <2>1. \A u \in Users : Exists(u) => u \in DOMAIN Registered
                                        /\ user[u] = NewUser(Registered[u], None, 1)
        BY DEF Init, Exists, Absent
    <2>2. \A u \in Users : Exists(u) => u \in DOMAIN Registered /\ user[u].profiles = 1
                                        /\ user[u].email = Registered[u]
                                        /\ user[u].subject = None
        <3>1. \A e : /\ NewUser(e, None, 1).email = e
                     /\ NewUser(e, None, 1).subject = None
                     /\ NewUser(e, None, 1).profiles = 1
            BY DEF NewUser
        <3> QED BY <2>1, <3>1
    <2>3. \A u, v \in Users : Exists(u) /\ Exists(v) /\ u # v =>
             user[u].email # user[v].email /\ user[u].subject \notin {user[v].subject} \ {None}
        BY <2>2, AuthenticationAssumption
    <2> QED BY <1>2, <2>2, <2>3 DEF OneAccountPerPerson
<1> QED BY <1>1, <1>3, <1>4, <1>5, <1>6 DEF AuthInv

LEMMA AuthInvAlways == Spec => []AuthInv
BY AuthInvInit, AuthInvStep, PTL DEF Spec

\* A login yields one session or none, and consumes its attempt exactly when it
\* yields one, however many callbacks repeat it, fail or die.
THEOREM OneSession == Spec => []OneSessionPerLogin
<1>1. ASSUME AuthInv PROVE OneSessionPerLogin
    <2> SUFFICES ASSUME NEW a \in Attempts
                 PROVE  Cardinality(SessionsOf(a)) =
                            IF attempt[a].status = "CONSUMED" THEN 1 ELSE 0
        BY DEF OneSessionPerLogin
    <2>1. LoggedIn /\ ConsumedForSession /\ NoTwoSessions BY <1>1 DEF AuthInv
    <2>2. CASE attempt[a].status = "CONSUMED"
        <3>1. PICK c \in Callbacks : session[c] # Absent /\ task[c].attempt = a
            BY <2>1, <2>2 DEF ConsumedForSession
        <3>2. SessionsOf(a) = {c} BY <2>1, <3>1 DEF SessionsOf, NoTwoSessions
        <3> QED BY <2>2, <3>2, FS_Singleton
    <2>3. CASE attempt[a].status # "CONSUMED"
        <3>1. SessionsOf(a) = {} BY <2>1, <2>3 DEF SessionsOf, LoggedIn
        <3> QED BY <2>3, <3>1, FS_EmptySet
    <2> QED BY <2>2, <2>3
<1> QED BY <1>1, AuthInvAlways, PTL

\* Who is disabled has no session left, also when a callback was just logging
\* them in.
THEOREM DisabledIsOut == Spec => []DisabledHasNoSession
<1>1. AuthInv => DisabledHasNoSession BY DEF AuthInv
<1> QED BY <1>1, AuthInvAlways, PTL

\* Accounts are neither doubled nor mixed, for any number of people who log in
\* at once, change their emails and take each other's.
THEOREM OneAccount == Spec => []OneAccountPerPerson
<1>1. AuthInv => OneAccountPerPerson BY DEF AuthInv
<1> QED BY <1>1, AuthInvAlways, PTL

LEMMA NextKeepsRevoked ==
    AuthInv /\ [Next]_vars =>
      [\A c \in Callbacks :
          session[c] # Absent /\ session[c].revoked # None => session'[c] = session[c]]_vars
<1> SUFFICES ASSUME AuthInv, Next, NEW c \in Callbacks,
                    session[c] # Absent, session[c].revoked # None
             PROVE  session'[c] = session[c]
    OBVIOUS
<1>1. TypeInv BY DEF AuthInv
<1>2. SessionsKept => session'[c] = session[c] BY DEF SessionsKept, Kept
<1>3. UNCHANGED session => session'[c] = session[c] OBVIOUS
<1>4. ASSUME NEW d \in Callbacks, NEW u, LogsIn(d, u), pc[d] = "write"
      PROVE  session'[c] = session[c]
    <2>1. session[d] = Absent BY <1>4 DEF AuthInv, LoggedIn
    <2> QED BY <1>1, <1>4, <2>1 DEF LogsIn, TypeInv
<1>5. ASSUME NEW d \in Callbacks, Callback(d) PROVE session'[c] = session[c]
    <2>1. \/ UNCHANGED session
          \/ \E u : session' = RevokeAll(u)
          \/ \E u : LogsIn(d, u) /\ pc[d] = "write"
        BY <1>5 DEF Callback, Claim, ClaimNothing, Cancel, Exchange, FindBySubject, FindByEmail,
                    Found, LogInAsFound, LogInAsNew, LogInAsConcurrent, Refuse, Fail, MarkFailed,
                    Crash
    <2> QED BY <1>1, <1>2, <1>3, <1>4, <2>1, RevokeAllKeeps
<1>6. ASSUME NEW d \in Callbacks, Logout(d) PROVE session'[c] = session[c]
    BY <1>1, <1>6 DEF Logout, Revoked, TypeInv
<1>7. ASSUME NEW r \in Requests, Request(r) PROVE session'[c] = session[c]
    BY <1>1, <1>2, <1>7, RequestSessions
<1>8. ASSUME NEW u \in Users, Disable(u) \/ Enable(u) PROVE session'[c] = session[c]
    BY <1>1, <1>2, <1>3, <1>8, RevokeAllKeeps DEF Disable, Enable
<1> QED
    BY <1>3, <1>5, <1>6, <1>7, <1>8 DEF Next, StartLogin, ExpireAttempts, Tick

\* What ended a session first is neither undone nor replaced.
THEOREM StaysRevoked == Spec => RevocationStands
BY AuthInvAlways, NextKeepsRevoked, PTL DEF Spec, RevocationStands

=============================================================================
