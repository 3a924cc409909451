--------------------------- MODULE Authentication ---------------------------
(***************************************************************************)
(* Logging in through the identity provider and the sessions that come of  *)
(* it: oidc-flow.ts, external-identity.ts, persistent-session.ts and the   *)
(* triggers on User of the migration 20260730201500.                       *)
(*                                                                         *)
(* A callback claims its attempt, exchanges the code, and in one           *)
(* transaction finds or creates the user, creates the session and consumes *)
(* the attempt.  The transaction is its reads that lock a user, and one    *)
(* step for its writes, which nobody sees before they commit.  Tokens,     *)
(* hashes, PKCE and the browser's binding are abstracted: a request with   *)
(* a wrong one finds no row and changes nothing.                           *)
(***************************************************************************)
EXTENDS Integers, FiniteSets

CONSTANTS
    Attempts,      \* attempts to log in
    Callbacks,     \* returns from the provider; one may repeat another's attempt
    Requests,      \* requests that come with a session's cookie
    Users,         \* ids of User rows
    Identities,    \* what the provider says: [subject, email]
    Registered,    \* the emails of the users who registered with a password
    AttemptTtl,    \* OIDC_ATTEMPT_TTL_MINUTES
    SessionTtl,    \* the absolute age of a session
    IdleTimeout,   \* AUTH_SESSION_IDLE_TIMEOUT_MINUTES
    MaxTime        \* bound on the clock

ASSUME AuthenticationAssumption ==
    /\ {AttemptTtl, SessionTtl, IdleTimeout} \subseteq 1 .. MaxTime
    /\ MaxTime \in Nat
    /\ IsFiniteSet(Users)
    /\ DOMAIN Registered \subseteq Users
    /\ \A u, v \in DOMAIN Registered : Registered[u] = Registered[v] => u = v

None == "none"

(* A provider's subject is never empty, and no row has the id of no row.   *)
ASSUME NamesAssumption ==
    /\ Callbacks \cap Requests = {}
    /\ None \notin Users
    /\ \A i \in Identities : i.subject # None

Open == {"PENDING", "PROCESSING"}

VARIABLES
    clock,
    attempt,       \* OidcLoginAttempt
    user,          \* User, with the number of its active financial profiles
    session,       \* ApplicationSession: the one a callback created
    pc,            \* what a callback or a request does next
    task           \* and what it has read

vars == <<clock, attempt, user, session, pc, task>>

Absent == [status |-> "absent"]

Exists(u) == user[u].status # "absent"

NewUser(e, s, n) == [status |-> "ACTIVE", email |-> e, subject |-> s, profiles |-> n]

(* Users who registered with a password have a profile and no identity.    *)
Init ==
    /\ clock = 0
    /\ attempt = [a \in Attempts |-> [status |-> "absent", version |-> 0, expires |-> 0]]
    /\ user = [u \in Users |-> IF u \in DOMAIN Registered
                              THEN NewUser(Registered[u], None, 1) ELSE Absent]
    /\ session = [c \in Callbacks |-> Absent]
    /\ pc = [p \in Callbacks \cup Requests |-> "idle"]
    /\ task = [p \in Callbacks \cup Requests |-> None]

-----------------------------------------------------------------------------
(* The attempt.                                                            *)

Settles(a, status) ==
    [attempt EXCEPT ![a].status = status, ![a].version = @ + 1]

(* startOidcLogin                                                          *)
StartLogin(a) ==
    /\ attempt[a].status = "absent"
    /\ clock + AttemptTtl <= MaxTime
    /\ attempt' = [attempt EXCEPT ![a] =
                       [status |-> "PENDING", version |-> 0, expires |-> clock + AttemptTtl]]
    /\ UNCHANGED <<clock, user, session, pc, task>>

\* Mutant: an attempt already taken is taken again.
ClaimableAgain(a) == attempt[a].status # "absent" /\ attempt[a].expires > clock

Claimable(a) == attempt[a].status = "PENDING" /\ attempt[a].expires > clock

Claimed(a, version, at) ==
    [attempt |-> a, version |-> version, at |-> at, identity |-> None, found |-> None]

(* claimOidcAttempt                                                        *)
Claim(c, a) ==
    /\ pc[c] = "idle"
    /\ Claimable(a)
    /\ attempt' = Settles(a, "PROCESSING")
    /\ pc' = [pc EXCEPT ![c] = "exchange"]
    /\ task' = [task EXCEPT ![c] = Claimed(a, attempt'[a].version, clock)]
    /\ UNCHANGED <<clock, user, session>>

(* A callback that finds no attempt to claim, which expires it if it is    *)
(* late.                                                                   *)
ClaimNothing(c, a) ==
    /\ pc[c] = "idle"
    /\ attempt[a].status # "absent"
    /\ ~ Claimable(a)
    /\ attempt' = IF attempt[a].status = "PENDING" THEN Settles(a, "EXPIRED") ELSE attempt
    /\ pc' = [pc EXCEPT ![c] = "done"]
    /\ UNCHANGED <<clock, user, session, task>>

(* The user gave up at the provider: cancelOidcAttempt.                    *)
Cancel(c, a) ==
    /\ pc[c] = "idle"
    /\ Claimable(a)
    /\ attempt' = Settles(a, "CANCELLED")
    /\ pc' = [pc EXCEPT ![c] = "done"]
    /\ UNCHANGED <<clock, user, session, task>>

\* Mutant: the cleanup leaves attempts in processing alone.
OverduePending ==
    {a \in Attempts : attempt[a].status = "PENDING" /\ attempt[a].expires <= clock}

(* The cleanup that every instance runs each minute.                       *)
Overdue == {a \in Attempts : attempt[a].status \in Open /\ attempt[a].expires <= clock}

ExpireAttempts ==
    /\ Overdue # {}
    /\ attempt' = [a \in Attempts |->
          IF a \in Overdue
          THEN [attempt[a] EXCEPT !.status = IF @ = "PENDING" THEN "EXPIRED" ELSE "FAILED",
                                  !.version = @ + 1]
          ELSE attempt[a]]
    /\ UNCHANGED <<clock, user, session, pc, task>>

-----------------------------------------------------------------------------
(* The identity.                                                           *)

Identity(c) == task[c].identity

\* Mutant: the user is read without a lock.
LockedNobody == {}

(* Whose row a transaction has read FOR UPDATE and not yet released.       *)
Locked == {task[c].found : c \in {d \in Callbacks : pc[d] \in {"refuse", "write"}}} \ {None}

BySubject(i) == {u \in Users : Exists(u) /\ user[u].subject = i.subject}
ByEmail(i) == {u \in Users : Exists(u) /\ user[u].email = i.email}

(* The code is exchanged and the token that comes back is valid.           *)
Exchange(c) ==
    /\ pc[c] = "exchange"
    /\ \E i \in Identities : task' = [task EXCEPT ![c].identity = i]
    /\ pc' = [pc EXCEPT ![c] = "subject"]
    /\ UNCHANGED <<clock, attempt, user, session>>

(* assertExternalUserIsActive ends the search for a user who is disabled.  *)
Found(c, u) ==
    /\ u \notin Locked
    /\ task' = [task EXCEPT ![c].found = u]
    /\ pc' = [pc EXCEPT ![c] = IF user[u].status = "DISABLED" THEN "refuse" ELSE "write"]
    /\ UNCHANGED <<clock, attempt, user, session>>

FindBySubject(c) ==
    /\ pc[c] = "subject"
    /\ IF BySubject(Identity(c)) = {}
       THEN /\ pc' = [pc EXCEPT ![c] = "email"]
            /\ UNCHANGED <<clock, attempt, user, session, task>>
       ELSE \E u \in BySubject(Identity(c)) : Found(c, u)

FindByEmail(c) ==
    /\ pc[c] = "email"
    /\ IF ByEmail(Identity(c)) = {}
       THEN /\ pc' = [pc EXCEPT ![c] = "write"]
            /\ UNCHANGED <<clock, attempt, user, session, task>>
       ELSE \E u \in ByEmail(Identity(c)) : Found(c, u)

(* The rows of User are unique by email and by subject.                    *)
Conflicts(c) == BySubject(Identity(c)) \cup ByEmail(Identity(c))

Matches(c, u) == user[u].subject \in {None, Identity(c).subject}

\* Mutant: whoever has the email is the person.
MayLinkByEmail(c, u) == Conflicts(c) \subseteq {u}

(* An identity, once linked, is not replaced: by email a user is found who *)
(* has none, or this one.  The email follows the provider's, unless        *)
(* another user has it.                                                    *)
MayLink(c, u) == Matches(c, u) /\ Conflicts(c) \subseteq {u}

Linked(c, u) ==
    [user EXCEPT ![u].subject = Identity(c).subject,
                 ![u].email = Identity(c).email,
                 ![u].profiles = IF @ = 0 THEN 1 ELSE @]

(* The rest of the transaction, once the user is known: the session and    *)
(* the attempt, whose version nobody may have moved since the claim.       *)
Fresh(c) ==
    /\ attempt[task[c].attempt].status = "PROCESSING"
    /\ attempt[task[c].attempt].version = task[c].version

LogsIn(c, u) ==
    /\ Fresh(c)
    /\ session' = [session EXCEPT ![c] = [status |-> "ACTIVE", user |-> u, seen |-> task[c].at,
                                          expires |-> task[c].at + SessionTtl, revoked |-> None]]
    /\ attempt' = Settles(task[c].attempt, "CONSUMED")
    /\ pc' = [pc EXCEPT ![c] = "done"]
    /\ UNCHANGED <<clock, task>>

LogInAsFound(c) ==
    /\ pc[c] = "write"
    /\ task[c].found # None
    /\ MayLink(c, task[c].found)
    /\ user' = Linked(c, task[c].found)
    /\ LogsIn(c, task[c].found)

LogInAsNew(c) ==
    /\ pc[c] = "write"
    /\ task[c].found = None
    /\ Conflicts(c) = {}
    /\ \E u \in Users :
          /\ ~ Exists(u)
          /\ user' = [user EXCEPT ![u] = NewUser(Identity(c).email, Identity(c).subject, 1)]
          /\ LogsIn(c, u)

(* Another callback inserted the user first: insert on conflict do nothing, *)
(* and the search again, by subject first.                                  *)
Concurrent(c) ==
    IF BySubject(Identity(c)) # {} THEN BySubject(Identity(c)) ELSE ByEmail(Identity(c))

LogInAsConcurrent(c) ==
    /\ pc[c] = "write"
    /\ task[c].found = None
    /\ \E u \in Concurrent(c) :
          /\ u \notin Locked
          /\ user[u].subject = Identity(c).subject
          /\ user[u].status = "ACTIVE"
          /\ user' = [user EXCEPT ![u].profiles = IF @ = 0 THEN 1 ELSE @]
          /\ LogsIn(c, u)

\* Mutant: the last reason to revoke wins.
RevokedAgain(s, reason) == IF s # Absent THEN [s EXCEPT !.revoked = reason] ELSE s

(* The user is disabled: their sessions are revoked outside of the         *)
(* transaction, which is then rolled back.                                 *)
Revoked(s, reason) ==
    IF s # Absent /\ s.revoked = None THEN [s EXCEPT !.revoked = reason] ELSE s

RevokeAll(u) ==
    [c \in Callbacks |-> IF session[c] # Absent /\ session[c].user = u
                         THEN Revoked(session[c], "user_disabled") ELSE session[c]]

RollsBack(c) ==
    /\ pc' = [pc EXCEPT ![c] = "fail"]
    /\ task' = [task EXCEPT ![c] = Claimed(task[c].attempt, 0, 0)]

Refuse(c) ==
    /\ \/ pc[c] = "refuse" /\ session' = RevokeAll(task[c].found)
       \/ /\ pc[c] = "write"
          /\ task[c].found = None
          /\ \E u \in Concurrent(c) : /\ u \notin Locked
                                      /\ user[u].subject = Identity(c).subject
                                      /\ user[u].status = "DISABLED"
                                      /\ session' = RevokeAll(u)
    /\ RollsBack(c)
    /\ UNCHANGED <<clock, attempt, user>>

(* The provider, the validation, a key, the version or the database refuses *)
(* to go on; the transaction, if there is one, is rolled back.              *)
Fail(c) ==
    /\ pc[c] \in {"exchange", "subject", "email", "write"}
    /\ RollsBack(c)
    /\ UNCHANGED <<clock, attempt, user, session>>

(* markOidcAttemptFailed, whose own failure is ignored.                    *)
GivesUp(c) ==
    /\ pc' = [pc EXCEPT ![c] = "done"]
    /\ task' = [task EXCEPT ![c] = None]

MarkFailed(c) ==
    /\ pc[c] = "fail"
    /\ GivesUp(c)
    /\ \/ /\ attempt[task[c].attempt].status = "PROCESSING"
          /\ attempt' = Settles(task[c].attempt, "FAILED")
       \/ UNCHANGED attempt
    /\ UNCHANGED <<clock, user, session>>

(* The instance dies, and with it the transaction.                         *)
Crash(c) ==
    /\ pc[c] \notin {"idle", "done"}
    /\ GivesUp(c)
    /\ UNCHANGED <<clock, attempt, user, session>>

-----------------------------------------------------------------------------
(* Sessions.                                                               *)

Live(s, now) ==
    /\ s # Absent
    /\ s.revoked = None
    /\ s.expires > now
    /\ s.seen > now - IdleTimeout
    /\ user[s.user].status = "ACTIVE"

(* authenticatePersistentSession and renewPersistentSession, which also    *)
(* replaces the token, when their conditional update finds the session.    *)
Touch(r, c) ==
    /\ pc[r] = "idle"
    /\ Live(session[c], clock)
    /\ session' = [session EXCEPT ![c].seen = clock]
    /\ UNCHANGED <<clock, attempt, user, pc, task>>

(* rejectInactiveSession reads the session again, to see why.              *)
Why(s, now) ==
    IF user[s.user].status = "DISABLED" THEN "user_disabled"
    ELSE IF s.revoked # None THEN None
    ELSE IF s.expires <= now THEN "expired"
    ELSE IF s.seen <= now - IdleTimeout THEN "idle_timeout"
    ELSE None

Miss(r, c) ==
    /\ pc[r] = "idle"
    /\ session[c] # Absent
    /\ ~ Live(session[c], clock)
    /\ pc' = [pc EXCEPT ![r] = "judge"]
    /\ task' = [task EXCEPT ![r] = [session |-> c, at |-> clock, reason |-> None]]
    /\ UNCHANGED <<clock, attempt, user, session>>

Judge(r) ==
    /\ pc[r] = "judge"
    /\ LET why == Why(session[task[r].session], task[r].at)
       IN  IF why = None
           THEN /\ pc' = [pc EXCEPT ![r] = "idle"]
                /\ task' = [task EXCEPT ![r] = None]
           ELSE /\ pc' = [pc EXCEPT ![r] = "revoke"]
                /\ task' = [task EXCEPT ![r].reason = why, ![r].at = 0]
    /\ UNCHANGED <<clock, attempt, user, session>>

(* revokeSessionIfActive, by id, on what the reading said.                 *)
RevokeRejected(r) ==
    /\ pc[r] = "revoke"
    /\ session' = [session EXCEPT ![task[r].session] = Revoked(@, task[r].reason)]
    /\ pc' = [pc EXCEPT ![r] = "idle"]
    /\ task' = [task EXCEPT ![r] = None]
    /\ UNCHANGED <<clock, attempt, user>>

Logout(c) ==
    /\ session[c] # Absent
    /\ session' = [session EXCEPT ![c] = Revoked(@, "logout")]
    /\ UNCHANGED <<clock, attempt, user, pc, task>>

-----------------------------------------------------------------------------
(* An operator disables a user and enables them again; the trigger         *)
(* revokeSessionsWhenUserDisabled is part of the update.                   *)
Disable(u) ==
    /\ user[u].status = "ACTIVE"
    /\ u \notin Locked
    /\ user' = [user EXCEPT ![u].status = "DISABLED"]
    /\ session' = RevokeAll(u)
    /\ UNCHANGED <<clock, attempt, pc, task>>

Enable(u) ==
    /\ user[u].status = "DISABLED"
    /\ u \notin Locked
    /\ user' = [user EXCEPT ![u].status = "ACTIVE"]
    /\ UNCHANGED <<clock, attempt, session, pc, task>>

Tick ==
    /\ clock < MaxTime
    /\ clock' = clock + 1
    /\ UNCHANGED <<attempt, user, session, pc, task>>

Callback(c) ==
    \/ \E a \in Attempts : Claim(c, a) \/ ClaimNothing(c, a) \/ Cancel(c, a)
    \/ Exchange(c) \/ FindBySubject(c) \/ FindByEmail(c)
    \/ LogInAsFound(c) \/ LogInAsNew(c) \/ LogInAsConcurrent(c)
    \/ Refuse(c) \/ Fail(c) \/ MarkFailed(c) \/ Crash(c)

Request(r) ==
    \/ \E c \in Callbacks : Touch(r, c) \/ Miss(r, c)
    \/ Judge(r) \/ RevokeRejected(r)

Next ==
    \/ \E a \in Attempts : StartLogin(a)
    \/ \E c \in Callbacks : Callback(c) \/ Logout(c)
    \/ \E r \in Requests : Request(r)
    \/ \E u \in Users : Disable(u) \/ Enable(u)
    \/ ExpireAttempts
    \/ Tick

(* Time passes and the cleanup runs; no callback need ever come, or end.   *)
Spec == Init /\ [][Next]_vars /\ WF_vars(Tick) /\ WF_vars(ExpireAttempts)

-----------------------------------------------------------------------------
SessionsOf(a) == {c \in Callbacks : session[c] # Absent /\ task[c].attempt = a}

(* A login yields at most one session, and the attempt is consumed exactly *)
(* when it yields one: however callbacks repeat, overlap the cleanup, fail *)
(* or die between the session and the attempt.                             *)
OneSessionPerLogin ==
    \A a \in Attempts :
        Cardinality(SessionsOf(a)) = IF attempt[a].status = "CONSUMED" THEN 1 ELSE 0

(* A disabled user has no session left, also when a callback found them    *)
(* still active and creates its session while they are being disabled.     *)
DisabledHasNoSession ==
    \A c \in Callbacks :
        session[c] # Absent /\ session[c].revoked = None => user[session[c].user].status = "ACTIVE"

(* A person logs in as one user, their own, with one initial profile: two  *)
(* first logins at once, a change of email and an email that another       *)
(* person's identity has taken never mix or double accounts.               *)
OneAccountPerPerson ==
    /\ \A u, v \in Users :
          /\ Exists(u) /\ Exists(v) /\ u # v
          => user[u].email # user[v].email /\ user[u].subject \notin {user[v].subject} \ {None}
    /\ \A u \in Users : Exists(u) => user[u].profiles <= 1
    /\ \A c \in Callbacks :
          session[c] # Absent => /\ user[session[c].user].subject = Identity(c).subject
                                 /\ user[session[c].user].profiles = 1

(* A revocation stands: what ended a session first, logout, expiry,        *)
(* idleness or the user's being disabled, is neither undone nor replaced   *)
(* by a request that read the session before, nor is the session used.     *)
RevocationStands ==
    [][\A c \in Callbacks :
          session[c] # Absent /\ session[c].revoked # None => session'[c] = session[c]]_vars

(* Every attempt ends: one whose callback never comes, or dies on its way, *)
(* is not left pending or in processing.                                   *)
AttemptsSettle ==
    \A a \in Attempts : attempt[a].status \in Open ~> attempt[a].status \notin Open

=============================================================================
