---------------------------- MODULE ImportReview ----------------------------
(***************************************************************************)
(* The review of imported statement lines: repositories/imports.ts, the    *)
(* deterministic candidates of repositories/review-suggestions.ts and      *)
(* generalized-deterministic-review-*.ts, and the review queue that calls  *)
(* them (ai-review-queue-decision-service.ts).                             *)
(*                                                                         *)
(* Every request is one database transaction.  It takes row locks (select  *)
(* ... for update) and an advisory lock one after the other, and what it   *)
(* writes becomes visible when it commits: the model writes in the last    *)
(* step of a request only.  A lock that is the last one before the commit   *)
(* is only waited for: nobody could see it held.  Two paths take the same  *)
(* two locks in opposite orders: the batch's own routes lock the batch and *)
(* then the line, the review queue and the candidate decisions the line    *)
(* and then the batch.  PostgreSQL breaks the deadlock by aborting one.    *)
(***************************************************************************)
EXTENDS Naturals, FiniteSets

CONSTANTS
    Requests,     \* the requests the API serves at the same time
    Batches,      \* imported files
    Lines,        \* extracted lines (AiSuggestion of kind TRANSACTION_EXTRACTION)
    Entries,      \* transactions that exist before the import
    Payloads,     \* contents a line may be edited to; also its fingerprint
    Movements,    \* what a payload says of money: accounts, amount, date
    Transfers,    \* the movements that are transfers between own accounts
    MovementOf,   \* the movement a payload describes
    MaxRev,       \* bound on the changes of one transaction
    None          \* no owner, no target, no movement

ASSUME ImportAssumption ==
    /\ Transfers \subseteq Movements
    /\ MovementOf \in [Payloads -> Movements]
    /\ MaxRev \in Nat
    /\ Entries \cap Lines = {}
    /\ None \notin Requests \cup Entries \cup Lines \cup Movements \cup Payloads

VARIABLES
    batch,        \* ImportBatch.status
    line,         \* the lines: batch, status, payload, target (transaction)
    candidates,   \* set of Candidate: AiSuggestion of kind DEDUPLICATION, RECONCILIATION
    ledger,       \* [Rows -> Row], table Transaction; the one made of line l is named l
    held,         \* [Locks -> Requests or None]: row and advisory locks
    pc,           \* what a request does next
    req           \* what a request was asked and has read; "seen" is the fingerprint
                  \* the reviewer saw, "found" the transfer that is there already

vars == <<batch, line, candidates, ledger, held, pc, req>>

(* A transaction created from a line carries its aiSuggestionId, which is  *)
(* unique in the table: the line names it.                                 *)
Rows == Entries \cup Lines
Kinds == {"deduplication", "reconciliation"}
Locks == ({"batch"} \X Batches) \cup ({"line"} \X Lines) \cup ({"transfer"} \X Movements)
         \cup ({"row"} \X Rows)

Key == [kind : Kinds, line : Lines, target : Rows, payload : Payloads]
Candidate == [kind : Kinds, line : Lines, target : Rows, payload : Payloads,
              status : {"pending", "approved", "rejected", "expired"}, seen : 0 .. MaxRev]
Row == [status : {"none", "posted", "reconciled", "voided"},
        movement : Movements \cup {None}, rev : 0 .. MaxRev]

-----------------------------------------------------------------------------
Exists(b) == \E l \in Lines : line[l].batch = b

Live(t) == ledger[t].status \in {"posted", "reconciled"}

(* detectDuplicateTransactions: live transactions that look like q.        *)
Twins(q) == {t \in Rows : Live(t) /\ ledger[t].movement = MovementOf[q]}

KeyOf(c) == [kind |-> c.kind, line |-> c.line, target |-> c.target, payload |-> c.payload]

Proposal(l, q, kind, t) ==
    [kind |-> kind, line |-> l, target |-> t, payload |-> q,
     status |-> "pending", seen |-> ledger[t].rev]

(* What the detection proposes for line l with the content q.              *)
Proposals(l, q) == {Proposal(l, q, kind, t) : kind \in Kinds, t \in Twins(q)}

(* insert ... on conflict do nothing, over the unique key of a candidate.  *)
Insert(C, new) == C \cup {c \in new : \A d \in C : KeyOf(d) # KeyOf(c)}

Offered(l, q) == Insert(candidates, Proposals(l, q))

Open(C, l, q) == {c \in C : c.line = l /\ c.payload = q /\ c.status = "pending"}

\* Mutant: only the candidates for duplicates expire.
ExpiredDuplicates(C, l, keep) ==
    {IF c.line = l /\ c.status = "pending" /\ c.kind = "deduplication" /\ KeyOf(c) \notin keep
     THEN [c EXCEPT !.status = "expired"] ELSE c : c \in C}

(* expireDeterministicCandidates, keeping the candidate that was decided.  *)
Expired(C, l, keep) ==
    {IF c.line = l /\ c.status = "pending" /\ KeyOf(c) \notin keep
     THEN [c EXCEPT !.status = "expired"] ELSE c : c \in C}

Mark(C, key, status) ==
    {IF KeyOf(c) = key THEN [c EXCEPT !.status = status] ELSE c : c \in C}

(* recalculateImportBatch.                                                 *)
Recount(b, L, C) ==
    IF \/ \E l \in Lines : L[l].batch = b /\ L[l].status = "pending"
       \/ \E c \in C : L[c.line].batch = b /\ c.status = "pending"
    THEN "reviewing" ELSE "completed"

-----------------------------------------------------------------------------
Init ==
    /\ line \in [Lines -> [batch : Batches, status : {"pending"},
                           payload : Payloads, target : {None}]]
    /\ batch = [b \in Batches |-> "reviewing"]
    /\ candidates = {}
    /\ ledger \in [Rows -> Row]
    /\ \A t \in Rows :
          /\ ledger[t].rev = 0
          /\ IF t \in Entries
             THEN ledger[t].status = "posted" /\ ledger[t].movement # None
             ELSE ledger[t].status = "none" /\ ledger[t].movement = None
    /\ held = [k \in Locks |-> None]
    /\ pc = [p \in Requests |-> "idle"]
    /\ req = [p \in Requests |-> None]

Free(k) == held[k] = None
Take(p, k) == held' = [held EXCEPT ![k] = p]

(* The transaction ends, by commit or by rollback, and its locks with it.  *)
End(p) ==
    /\ held' = [k \in Locks |-> IF held[k] = p THEN None ELSE held[k]]
    /\ pc' = [pc EXCEPT ![p] = "idle"]
    /\ req' = [req EXCEPT ![p] = None]

Go(p, step) == pc' = [pc EXCEPT ![p] = step]
Refuse(p) == End(p) /\ UNCHANGED <<batch, line, candidates, ledger>>

(* The last writes of a decision on a line of batch b, with the batch      *)
(* recounted over them.                                                    *)
Commit(p, b, L, C) ==
    /\ line' = L
    /\ candidates' = C
    /\ batch' = [batch EXCEPT ![b] = Recount(b, L, C)]
    /\ End(p)

-----------------------------------------------------------------------------
(* A request begins with its first lock: until it has that one it has read *)
(* nothing that it uses, the scan and the recount excepted.  The checks it *)
(* makes right after the lock are guards: a refused request does nothing.  *)
Begin(p, r, k, step) ==
    /\ pc[p] = "idle"
    /\ Free(k)
    /\ Take(p, k)
    /\ req' = [req EXCEPT ![p] = r]
    /\ Go(p, step)
    /\ UNCHANGED <<batch, line, candidates, ledger>>

Read(p, r, step) ==
    /\ pc[p] = "idle"
    /\ req' = [req EXCEPT ![p] = r]
    /\ Go(p, step)
    /\ UNCHANGED <<batch, line, candidates, ledger, held>>

(* From the page of the batch: requireMutableBatch, then the line.         *)
ReviewInBatch(p) ==
    \E op \in {"approve", "reject"}, l \in Lines :
        /\ batch[line[l].batch] # "discarded"
        /\ Begin(p, [op |-> op, line |-> l, via |-> "batch", seen |-> None, found |-> None],
                 <<"batch", line[l].batch>>, "second")

EditInBatch(p) ==
    \E l \in Lines, to \in Payloads :
        /\ batch[line[l].batch] # "discarded"
        /\ Begin(p, [op |-> "edit", line |-> l, via |-> "batch", seen |-> None, to |-> to],
                 <<"batch", line[l].batch>>, "second")

\* Mutant: the fingerprint the reviewer sends is not compared.
SeenPending(l, seen) == line[l].status = "pending"

(* From the queue: the line first, pending and with the fingerprint the    *)
(* reviewer saw.                                                           *)
SeenByQueue(l, seen) == line[l].status = "pending" /\ line[l].payload = seen

ReviewInQueue(p) ==
    \E op \in {"approve", "reject"}, l \in Lines, seen \in Payloads :
        /\ SeenByQueue(l, seen)
        /\ Begin(p, [op |-> op, line |-> l, via |-> "queue", seen |-> seen, found |-> None],
                 <<"line", l>>, "second")

EditInQueue(p) ==
    \E l \in Lines, seen, to \in Payloads :
        /\ SeenByQueue(l, seen)
        /\ Begin(p, [op |-> "edit", line |-> l, via |-> "queue", seen |-> seen, to |-> to],
                 <<"line", l>>, "second")

(* A decision on a candidate: the source line, then the candidate, still   *)
(* pending and made from the content the line still has.                   *)
Decide(p) ==
    \E c \in candidates, verdict \in {"approve", "reject"} :
        /\ c.status = "pending"
        /\ line[c.line].status = "pending"
        /\ line[c.line].payload = c.payload
        /\ Begin(p, [op |-> "decide", line |-> c.line, key |-> KeyOf(c), verdict |-> verdict],
                 <<"line", c.line>>, "second")

\* Mutant: lines that reconciled an existing transaction do not count.
HasOwnEffects(b) == \E l \in Lines : line[l].batch = b /\ ledger[l].status # "none"

(* With the batch locked, discarding looks for financial effects.          *)
HasEffects(b) ==
    \E l \in Lines :
        /\ line[l].batch = b
        /\ ledger[l].status # "none" \/ (line[l].status = "approved" /\ line[l].target # None)

BeginDiscard(p) ==
    \E b \in Batches :
        /\ Exists(b)
        /\ batch[b] # "discarded"
        /\ ~ HasEffects(b)
        /\ Begin(p, [op |-> "discard", batch |-> b], <<"batch", b>>, "discard")

(* The scan reads the transactions before it locks a line.                 *)
ReadForScan(p) ==
    \E l \in Lines :
        /\ line[l].status = "pending"
        /\ Read(p, [op |-> "scan", line |-> l,
                    saw |-> [t \in {t \in Rows : Live(t)} |-> ledger[t]]], "second")

(* The end of approve-selected and of detect-duplicates counts the lines   *)
(* of the batch without having locked it.                                  *)
ReadForRefresh(p) ==
    \E b \in Batches :
        /\ Exists(b)
        /\ Read(p, [op |-> "refresh", batch |-> b, verdict |-> Recount(b, line, candidates)],
                "write")

-----------------------------------------------------------------------------
(* The second lock: the batch's page and the scan wait for the line, the   *)
(* others for the batch.                                                   *)
LineFirst(p) == req[p].op = "decide" \/ (req[p].op # "scan" /\ req[p].via = "queue")

Second(p) ==
    LET l == req[p].line
    IN  IF LineFirst(p) THEN <<"batch", line[l].batch>> ELSE <<"line", l>>

\* Mutant: the line's status is not read again under its lock.
AcceptsDecided(p) == batch[line[req[p].line].batch] # "discarded"

(* A candidate decision wants a batch under review, the others one that is *)
(* not discarded; all of them want a pending line.                         *)
Accepts(p) ==
    LET l == req[p].line
    IN  /\ line[l].status = "pending"
        /\ CASE req[p].op = "decide" -> batch[line[l].batch] = "reviewing"
             [] req[p].op = "scan" -> TRUE
             [] OTHER -> batch[line[l].batch] # "discarded"

Locked(p, op) ==
    /\ pc[p] = "second"
    /\ req[p].op = op
    /\ Free(Second(p))
    /\ Accepts(p)

(* A line that was decided before: the answer repeats the decision or      *)
(* refuses the transition.                                                 *)
AnswerDecided(p) ==
    /\ pc[p] = "second"
    /\ Free(Second(p))
    /\ ~ Accepts(p)
    /\ Refuse(p)

-----------------------------------------------------------------------------
(* Decisions on a line.                                                    *)
Reject(p) ==
    LET l == req[p].line
    IN  /\ Locked(p, "reject")
        /\ Commit(p, line[l].batch, [line EXCEPT ![l].status = "rejected"],
                  Expired(candidates, l, {}))
        /\ UNCHANGED ledger

(* The candidates of the old content expire; those of the new one are      *)
(* inserted, unless a row with that fingerprint is there already.          *)
Edit(p) ==
    LET l == req[p].line
        to == req[p].to
    IN  /\ Locked(p, "edit")
        /\ Commit(p, line[l].batch, [line EXCEPT ![l].payload = to],
                  Insert(Expired(candidates, l, {}), Proposals(l, to)))
        /\ UNCHANGED ledger

(* A transfer with no open candidate skips the detection.                  *)
SkipsDetection(l, q) ==
    MovementOf[q] \in Transfers /\ Open(candidates, l, q) = {}

Blocked(l) ==
    LET q == line[l].payload
    IN  ~ SkipsDetection(l, q) /\ Open(Offered(l, q), l, q) # {}

(* 409 IMPORT_REVIEW_CANDIDATE_PENDING; the candidates stay.               *)
ApproveBlocked(p) ==
    LET l == req[p].line
    IN  /\ Locked(p, "approve")
        /\ Blocked(l)
        /\ Commit(p, line[l].batch, line, Offered(l, line[l].payload))
        /\ UNCHANGED ledger

ApproveProceeds(p) ==
    LET l == req[p].line
    IN  /\ Locked(p, "approve")
        /\ ~ Blocked(l)
        /\ Take(p, Second(p))
        /\ Go(p, IF MovementOf[line[l].payload] \in Transfers THEN "key" ELSE "settle")
        /\ UNCHANGED <<batch, line, candidates, ledger, req>>

(* findCanonicalTransfer, once lockCanonicalTransfer has its advisory lock *)
(* on the transfer: a live twin the reviewer did not reject for this line  *)
(* and content.                                                            *)
Canonical(l) ==
    {t \in Twins(line[l].payload) :
        ~ \E c \in candidates : /\ c.line = l
                                /\ c.payload = line[l].payload
                                /\ c.target = t
                                /\ c.status = "rejected"}

\* Mutant: the advisory lock is on the line and not on the transfer.
TransferKeyOfLine(l) == <<"row", l>>

TransferKey(l) == <<"transfer", MovementOf[line[l].payload]>>

FindTransfer(p) ==
    LET l == req[p].line
        key == TransferKey(l)
    IN  /\ pc[p] = "key"
        /\ Free(key)
        /\ \/ /\ Canonical(l) = {}
              /\ Take(p, key)
              /\ UNCHANGED req
           \/ \E t \in Canonical(l) :
                 /\ Free(<<"row", t>>)
                 /\ held' = [held EXCEPT ![key] = p, ![<<"row", t>>] = p]
                 /\ req' = [req EXCEPT ![p].found = t]
        /\ Go(p, "settle")
        /\ UNCHANGED <<batch, line, candidates, ledger>>

(* A transaction that changes, and with it its updatedAt.                  *)
Changed(row, status, movement) ==
    [status |-> status, movement |-> movement, rev |-> row.rev + 1]

Reconciled(t) ==
    IF ledger[t].status = "reconciled" THEN ledger
    ELSE [ledger EXCEPT ![t] = Changed(ledger[t], "reconciled", ledger[t].movement)]

(* The line becomes a transaction of its own, or joins the transfer found. *)
Settle(p) ==
    LET l == req[p].line
        t == IF req[p].found = None THEN l ELSE req[p].found
    IN  /\ pc[p] = "settle"
        /\ ledger[t].rev < MaxRev
        /\ ledger' = IF req[p].found = None
                     THEN [ledger EXCEPT ![l] = [status |-> "posted", rev |-> 0,
                                                 movement |-> MovementOf[line[l].payload]]]
                     ELSE Reconciled(t)
        /\ Commit(p, line[l].batch,
                  [line EXCEPT ![l].status = "approved", ![l].target = t],
                  Expired(candidates, l, {}))

-----------------------------------------------------------------------------
(* The decision on a candidate.                                            *)
RejectCandidate(p) ==
    /\ Locked(p, "decide")
    /\ req[p].verdict = "reject"
    /\ Commit(p, line[req[p].line].batch, line, Mark(candidates, req[p].key, "rejected"))
    /\ UNCHANGED ledger

(* The target must be there, unchanged since the candidate was made.       *)
TargetAccepts(key) ==
    LET t == key.target
    IN  /\ Live(t)
        /\ key.kind = "reconciliation" => ledger[t].status # "reconciled"
        /\ \E c \in candidates : KeyOf(c) = key /\ c.seen = ledger[t].rev
        /\ ledger[t].movement = MovementOf[key.payload]

ApproveCandidate(p) ==
    LET key == req[p].key
        l == key.line
        C == Mark(Expired(candidates, l, {key}), key, "approved")
    IN  /\ Locked(p, "decide")
        /\ req[p].verdict = "approve"
        /\ Free(<<"row", key.target>>)
        /\ TargetAccepts(key)
        /\ \/ /\ key.kind = "deduplication"
              /\ Commit(p, line[l].batch, [line EXCEPT ![l].status = "rejected"], C)
              /\ UNCHANGED ledger
           \/ /\ key.kind = "reconciliation"
              /\ ledger[key.target].rev < MaxRev
              /\ ledger' = Reconciled(key.target)
              /\ Commit(p, line[l].batch,
                        [line EXCEPT ![l].status = "approved", ![l].target = key.target], C)

RefuseCandidate(p) ==
    /\ Locked(p, "decide")
    /\ req[p].verdict = "approve"
    /\ ~ TargetAccepts(req[p].key)
    /\ Refuse(p)

-----------------------------------------------------------------------------
(* The scan: stale candidates get a fingerprint of their own, which no     *)
(* later insert collides with, and count no more; the model drops them.    *)
Wanted(l, saw) ==
    LET like == {t \in DOMAIN saw : saw[t].movement = MovementOf[line[l].payload]}
    IN  {Proposal(l, line[l].payload, "deduplication", t) : t \in like} \cup
        {Proposal(l, line[l].payload, "reconciliation", t) :
            t \in {t \in like : saw[t].status # "reconciled"}}

Scan(p) ==
    LET l == req[p].line
        saw == req[p].saw
        wanted == IF batch[line[l].batch] = "reviewing" THEN Wanted(l, saw) ELSE {}
        stale == {c \in candidates :
                    /\ c.line = l
                    /\ c.status = "pending"
                    /\ ~ \E d \in wanted : KeyOf(d) = KeyOf(c) /\ saw[c.target].rev <= c.seen}
        swept == {IF c.status = "pending" /\ line[c.line].status # "pending"
                  THEN [c EXCEPT !.status = "expired"] ELSE c : c \in candidates \ stale}
    IN  /\ Locked(p, "scan")
        /\ candidates' = Insert(swept, wanted)
        /\ End(p)
        /\ UNCHANGED <<batch, line, ledger>>

-----------------------------------------------------------------------------
(* discardImportBatchForContext rejects the pending lines, each as soon as *)
(* its row is free.                                                        *)
Discard(p) ==
    LET b == req[p].batch
        open == {l \in Lines : line[l].batch = b /\ line[l].status = "pending"}
    IN  /\ pc[p] = "discard"
        /\ \A l \in open : Free(<<"line", l>>)
        /\ line' = [l \in Lines |-> IF l \in open THEN [line[l] EXCEPT !.status = "rejected"]
                                    ELSE line[l]]
        /\ candidates' = {IF line[c.line].batch = b /\ c.status = "pending"
                          THEN [c EXCEPT !.status = "expired"] ELSE c : c \in candidates}
        /\ batch' = [batch EXCEPT ![b] = "discarded"]
        /\ End(p)
        /\ UNCHANGED ledger

(* The counted status is written whatever the batch has become.            *)
Refresh(p) ==
    /\ pc[p] = "write"
    /\ Free(<<"batch", req[p].batch>>)
    /\ batch' = [batch EXCEPT ![req[p].batch] = req[p].verdict]
    /\ End(p)
    /\ UNCHANGED <<line, candidates, ledger>>

-----------------------------------------------------------------------------
(* A deadlock, a lost connection, a crash or a failed validation.          *)
Rollback(p) == pc[p] # "idle" /\ Refuse(p)

(* Outside the review, transactions are edited and voided.                 *)
ChangeEntry ==
    \E t \in Rows :
        /\ Live(t)
        /\ Free(<<"row", t>>)
        /\ ledger[t].rev < MaxRev
        /\ \/ ledger' = [ledger EXCEPT ![t] = Changed(ledger[t], "voided", ledger[t].movement)]
           \/ \E m \in Movements :
                 ledger' = [ledger EXCEPT ![t] = Changed(ledger[t], ledger[t].status, m)]
        /\ UNCHANGED <<batch, line, candidates, held, pc, req>>

Next ==
    \/ ChangeEntry
    \/ \E p \in Requests :
          \/ ReviewInBatch(p) \/ EditInBatch(p) \/ ReviewInQueue(p) \/ EditInQueue(p)
          \/ Decide(p) \/ BeginDiscard(p) \/ ReadForScan(p) \/ ReadForRefresh(p)
          \/ AnswerDecided(p) \/ Reject(p) \/ Edit(p)
          \/ ApproveBlocked(p) \/ ApproveProceeds(p) \/ FindTransfer(p) \/ Settle(p)
          \/ RejectCandidate(p) \/ ApproveCandidate(p) \/ RefuseCandidate(p)
          \/ Scan(p) \/ Discard(p) \/ Refresh(p) \/ Rollback(p)

Spec == Init /\ [][Next]_vars

-----------------------------------------------------------------------------
(* A line has at most one effect on the ledger, and only when approved: a  *)
(* transaction of its own, or an existing one that it reconciled, however  *)
(* approvals, candidate decisions, edits and discards of the line overlap. *)
OneEffectPerLine ==
    \A l \in Lines :
        /\ line[l].status = "approved" <=> line[l].target # None
        /\ ledger[l].status # "none" <=> line[l].target = l
        /\ line[l].target \notin {None, l} =>
              ledger[line[l].target].status \in {"reconciled", "voided"}

(* A discarded batch moved no money: none of its lines was approved while  *)
(* the discard looked for effects, and none is approved after it.          *)
DiscardedHasNoEffect ==
    \A l \in Lines : batch[line[l].batch] = "discarded" => line[l].status = "rejected"

(* A decided line leaves nothing to review: its open candidates went with  *)
(* it, though the scan may be adding some from what it read before; and a  *)
(* confirmed candidate is the one that decided its line.                   *)
NothingLeftToReview ==
    \A c \in candidates :
        /\ c.status = "pending" =>
              line[c.line].status = "pending" /\ line[c.line].payload = c.payload
        /\ c.status = "approved" =>
              IF c.kind = "deduplication" THEN line[c.line].status = "rejected"
              ELSE line[c.line].status = "approved" /\ line[c.line].target = c.target

(* The two statements of one transfer, imported in two batches and         *)
(* confirmed at the same time, become one transaction: a line becomes a    *)
(* transfer of its own only if the reviewer rejected each live transfer    *)
(* that another line had become and that was not changed since.            *)
TransferCountedOnce ==
    [][\A l \in Lines :
          (line[l].target = None /\ line'[l].target = l
             /\ MovementOf[line[l].payload] \in Transfers) =>
             \A t \in Twins(line[l].payload) \cap Lines :
                ledger[t].rev = 0 => t \notin Canonical(l)]_vars

(* What the queue approves is what the reviewer saw: an edit that commits  *)
(* between reading the queue and locking the line refuses the approval.    *)
ApprovedAsSeen ==
    [][\A p \in Requests :
          (pc[p] = "settle" /\ req[p].via = "queue" /\ pc'[p] = "idle"
             /\ line'[req[p].line].status = "approved") =>
             line'[req[p].line].payload = req[p].seen]_vars

(* Approval repeats the detection: a line becomes a new transaction only   *)
(* if the reviewer rejected a candidate for each live twin of the content  *)
(* approved, as long as the ledger does not change under it.               *)
NewLinesWereReviewed ==
    [][\A l \in Lines :
          (line[l].target = None /\ line'[l].target = l) => Canonical(l) = {}]_vars

=============================================================================
