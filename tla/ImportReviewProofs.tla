------------------------- MODULE ImportReviewProofs -------------------------
(***************************************************************************)
(* Theorems about ImportReview for every number of requests, batches,      *)
(* lines and transactions:                                                 *)
(*                                                                         *)
(*   TypeCorrect       Spec => []TypeOK                                    *)
(*   OneEffect         Spec => []OneEffectPerLine                          *)
(*   DiscardIsClean    Spec => []DiscardedHasNoEffect                      *)
(*   QueueIsClean      Spec => []NothingLeftToReview                       *)
(*   ApprovedWasSeen   Spec => ApprovedAsSeen                              *)
(*   CountedOnce       Spec => TransferCountedOnce                         *)
(*   DeadlocksAreOfBothOrders   Spec => []DeadlockTakesBothOrders          *)
(***************************************************************************)
EXTENDS ImportReview, TLAPS

-----------------------------------------------------------------------------
(* The inductive invariant.                                                *)

LineRow == [batch : Batches, status : {"pending", "approved", "rejected"},
            payload : Payloads, target : Rows \cup {None}]

Steps == {"idle", "second", "key", "settle", "discard", "write"}

TypeOK ==
    /\ batch \in [Batches -> {"reviewing", "completed", "discarded"}]
    /\ line \in [Lines -> LineRow]
    /\ candidates \subseteq Candidate
    /\ ledger \in [Rows -> Row]
    /\ held \in [Locks -> Requests \cup {None}]
    /\ pc \in [Requests -> Steps]
    /\ DOMAIN req = Requests

Reviews == [op : {"approve", "reject"}, line : Lines, via : {"batch", "queue"},
            seen : Payloads \cup {None}, found : Rows \cup {None}]
Edits == [op : {"edit"}, line : Lines, via : {"batch", "queue"},
          seen : Payloads \cup {None}, to : Payloads]
Decisions == [op : {"decide"}, line : Lines, key : Key, verdict : {"approve", "reject"}]
Discards == [op : {"discard"}, batch : Batches]
Refreshes == [op : {"refresh"}, batch : Batches, verdict : {"reviewing", "completed"}]

HasLine(p, l) == held[<<"line", l>>] = p
HasBatch(p, l) == held[<<"batch", line[l].batch>>] = p
AsSeen(r) == r.via = "queue" => line[r.line].payload = r.seen

\* No transfer that another line became is left for line l to join.
NoneToJoin(l) ==
    \A t \in Twins(line[l].payload) \cap Lines : ledger[t].rev = 0 => t \notin Canonical(l)

\* A request with its first lock.
AtSecond(p, r) ==
    \/ /\ r \in Reviews \cup Edits
       /\ r.op = "approve" => r.found = None
       /\ AsSeen(r)
       /\ IF r.via = "queue" THEN HasLine(p, r.line) ELSE HasBatch(p, r.line)
    \/ r \in Decisions /\ r.key.line = r.line /\ HasLine(p, r.line)
    \/ r.op = "scan" /\ r.line \in Lines /\ DOMAIN r.saw \subseteq Rows

\* An approval with both locks.
Approving(p, r) ==
    /\ r \in Reviews /\ r.op = "approve"
    /\ HasLine(p, r.line) /\ HasBatch(p, r.line)
    /\ line[r.line].status = "pending"
    /\ AsSeen(r)

\* An approval that knows what its line becomes.
Settling(p, r) ==
    /\ r.found # None => ledger[r.found].status # "none"
    /\ r.found = None /\ MovementOf[line[r.line].payload] \in Transfers =>
          held[TransferKey(r.line)] = p /\ NoneToJoin(r.line)

\* A discard that found no effect.
Discarding(p, r) ==
    /\ r \in Discards
    /\ held[<<"batch", r.batch>>] = p
    /\ \A l \in Lines : line[l].batch = r.batch => line[l].status # "approved"

\* What request p relies on between two of its steps.
Relies(p) ==
    /\ pc[p] = "second" => AtSecond(p, req[p])
    /\ pc[p] \in {"key", "settle"} => Approving(p, req[p])
    /\ pc[p] = "key" => req[p].found = None
    /\ pc[p] = "settle" => Settling(p, req[p])
    /\ pc[p] = "discard" => Discarding(p, req[p])
    /\ pc[p] = "write" => req[p] \in Refreshes

TableInv == OneEffectPerLine /\ DiscardedHasNoEffect /\ NothingLeftToReview

ReviewInv ==
    /\ TypeOK
    /\ TableInv
    /\ \A p \in Requests : Relies(p)

-----------------------------------------------------------------------------
(* What the operators on candidates return.                                *)

LEMMA ExpiredMember ==
    ASSUME NEW C \in SUBSET Candidate, NEW l, NEW keep, NEW c \in Expired(C, l, keep)
    PROVE  /\ c \in Candidate
           /\ c.status # "expired" => /\ c \in C
                                      /\ c.status = "pending" /\ c.line = l => KeyOf(c) \in keep
<1>1. PICK d \in C : c = IF d.line = l /\ d.status = "pending" /\ KeyOf(d) \notin keep
                         THEN [d EXCEPT !.status = "expired"] ELSE d
  BY DEF Expired
<1>2. d \in Candidate OBVIOUS
<1>3. CASE d.line = l /\ d.status = "pending" /\ KeyOf(d) \notin keep
  <2>1. c = [d EXCEPT !.status = "expired"] BY <1>1, <1>3
  <2> QED BY <1>2, <2>1 DEF Candidate
<1>4. CASE ~ (d.line = l /\ d.status = "pending" /\ KeyOf(d) \notin keep)
  <2>1. c = d BY <1>1, <1>4
  <2> QED BY <1>2, <1>4, <2>1
<1> QED BY <1>3, <1>4

LEMMA ExpiredKeeps ==
    ASSUME NEW C, NEW l, NEW keep, NEW c \in C, c.status # "pending"
    PROVE  c \in Expired(C, l, keep)
BY DEF Expired

LEMMA MarkMember ==
    ASSUME NEW C \in SUBSET Candidate, NEW key,
           NEW status \in {"approved", "rejected"}, NEW c \in Mark(C, key, status)
    PROVE  /\ c \in Candidate
           /\ \/ c \in C /\ KeyOf(c) # key
              \/ c.status = status /\ KeyOf(c) = key
<1>1. PICK d \in C : c = IF KeyOf(d) = key THEN [d EXCEPT !.status = status] ELSE d
  BY DEF Mark
<1>2. d \in Candidate OBVIOUS
<1>3. CASE KeyOf(d) = key
  <2>1. c = [d EXCEPT !.status = status] BY <1>1, <1>3
  <2>2. /\ c \in Candidate /\ c.status = status
        /\ c.kind = d.kind /\ c.line = d.line /\ c.target = d.target /\ c.payload = d.payload
    BY <1>2, <2>1 DEF Candidate
  <2> QED BY <1>3, <2>2 DEF KeyOf
<1>4. CASE KeyOf(d) # key BY <1>1, <1>2, <1>4
<1> QED BY <1>3, <1>4

LEMMA MarkKeeps ==
    ASSUME NEW C, NEW key, NEW status, NEW c \in C, KeyOf(c) # key
    PROVE  c \in Mark(C, key, status)
BY DEF Mark

LEMMA InsertMember ==
    ASSUME NEW C, NEW new
    PROVE  C \subseteq Insert(C, new) /\ Insert(C, new) \subseteq C \cup new
BY DEF Insert

LEMMA ProposalRow ==
    ASSUME TypeOK, NEW l \in Lines, NEW q \in Payloads, NEW kind \in Kinds, NEW t \in Rows
    PROVE  /\ Proposal(l, q, kind, t) \in Candidate
           /\ Proposal(l, q, kind, t).status = "pending"
           /\ Proposal(l, q, kind, t).line = l
           /\ Proposal(l, q, kind, t).payload = q
<1>1. ledger[t].rev \in 0 .. MaxRev BY DEF TypeOK, Row
<1> QED BY <1>1 DEF Proposal, Candidate

LEMMA ProposalsRow ==
    ASSUME TypeOK, NEW l \in Lines, NEW q \in Payloads, NEW c \in Proposals(l, q)
    PROVE  c \in Candidate /\ c.status = "pending" /\ c.line = l /\ c.payload = q
<1>1. PICK kind \in Kinds, t \in Twins(q) : c = Proposal(l, q, kind, t) BY DEF Proposals
<1>2. t \in Rows BY DEF Twins
<1> QED BY <1>1, <1>2, ProposalRow

LEMMA RecountCounts ==
    ASSUME NEW b, NEW L, NEW C PROVE Recount(b, L, C) \in {"reviewing", "completed"}
BY DEF Recount

\* The locks are told apart by their first component.
LEMMA LockNames ==
    /\ \A l \in Lines : <<"line", l>> \in Locks
    /\ \A b \in Batches : <<"batch", b>> \in Locks
    /\ \A t \in Rows : <<"row", t>> \in Locks
    /\ \A m \in Movements : <<"transfer", m>> \in Locks
BY DEF Locks

LEMMA TransferKeyIsLock ==
    ASSUME TypeOK, NEW l \in Lines
    PROVE  /\ TransferKey(l) \in Locks
           /\ TransferKey(l) = <<"transfer", MovementOf[line[l].payload]>>
           /\ MovementOf[line[l].payload] \in Movements
<1>1. line[l].payload \in Payloads BY DEF TypeOK, LineRow
<1>2. MovementOf[line[l].payload] \in Movements BY <1>1, ImportAssumption
<1> QED BY <1>2, LockNames DEF TransferKey

-----------------------------------------------------------------------------
(* What a step of p leaves the other requests.                             *)

\* No transaction goes, and no line becomes a transfer whose key another request has.
LedgerFreely(p) ==
    /\ \A t \in Rows : ledger[t].status # "none" => ledger'[t].status # "none"
    /\ \A t \in Lines : (/\ ledger'[t] # ledger[t]
                         /\ ledger'[t].rev = 0
                         /\ ledger'[t].movement \in Transfers) =>
                            held[<<"transfer", ledger'[t].movement>>] \in {p, None}

\* What is written is not locked by another request, and no line becomes approved in a
\* batch another request has locked.
WritesFreely(p) ==
    /\ \A k \in Lines : line'[k].batch = line[k].batch
    /\ \A k \in Lines : line'[k] # line[k] => held[<<"line", k>>] \in {p, None}
    /\ \A k \in Lines : line'[k].status = "approved" /\ line[k].status # "approved" =>
                           held[<<"batch", line[k].batch>>] \in {p, None}
    /\ \A c \in candidates : c.status = "rejected" /\ c \notin candidates' =>
                                held[<<"line", c.line>>] \in {p, None}
    /\ LedgerFreely(p)

LEMMA NoneToJoinKept ==
    ASSUME TypeOK, NEW p, NEW q \in Requests, q # p, WritesFreely(p), NEW l \in Lines,
           HasLine(q, l), held[TransferKey(l)] = q,
           MovementOf[line[l].payload] \in Transfers, NoneToJoin(l)
    PROVE  NoneToJoin(l)'
<1>1. q # None BY ImportAssumption
<1>2. line'[l] = line[l] BY <1>1 DEF WritesFreely, HasLine
<1>3. PICK m : m = MovementOf[line[l].payload] OBVIOUS
<1>4. m \in Transfers /\ held[<<"transfer", m>>] = q BY <1>3 DEF TransferKey
<1>5. MovementOf[line'[l].payload] = m BY <1>2, <1>3
<1> SUFFICES ASSUME NEW t \in Lines, t \in Rows, Live(t)', ledger'[t].movement = m,
                    ledger'[t].rev = 0
             PROVE  t \notin Canonical(l)'
  BY <1>5 DEF NoneToJoin, Twins
<1>6. ledger'[t] = ledger[t] BY <1>1, <1>4 DEF WritesFreely, LedgerFreely
<1>7. t \in Twins(line[l].payload) BY <1>3, <1>6 DEF Twins, Live
<1>8. t \notin Canonical(l) BY <1>6, <1>7 DEF NoneToJoin
<1>9. PICK c \in candidates : /\ c.line = l /\ c.payload = line[l].payload
                              /\ c.target = t /\ c.status = "rejected"
  BY <1>7, <1>8 DEF Canonical
<1>10. c \in candidates' BY <1>1, <1>9 DEF WritesFreely, HasLine
<1> QED BY <1>2, <1>9, <1>10 DEF Canonical

LEMMA OthersKeep ==
    ASSUME TypeOK, NEW p, NEW q \in Requests, q # p, Relies(q), WritesFreely(p),
           pc'[q] = pc[q], req'[q] = req[q],
           \A k \in Locks : held[k] = q => held'[k] = q
    PROVE  Relies(q)'
<1>1. q # None BY ImportAssumption
<1>2. PICK r : r = req[q] OBVIOUS
<1>3. req'[q] = r BY <1>2
<1>4. ASSUME NEW l \in Lines, HasLine(q, l) PROVE HasLine(q, l)' /\ line'[l] = line[l]
  BY <1>1, <1>4, LockNames DEF WritesFreely, HasLine
<1>5. ASSUME NEW l \in Lines, HasBatch(q, l) PROVE HasBatch(q, l)'
  <2>1. line[l].batch \in Batches BY DEF TypeOK, LineRow
  <2> QED BY <1>5, <2>1, LockNames DEF WritesFreely, HasBatch
<1>6. ASSUME pc[q] = "second" PROVE AtSecond(q, r)'
  <2>1. AtSecond(q, r) BY <1>2, <1>6 DEF Relies
  <2>2. CASE r \in Reviews \cup Edits /\ r.via = "queue"
    <3>1. r.line \in Lines BY <2>2 DEF Reviews, Edits
    <3>2. HasLine(q, r.line) /\ AsSeen(r) /\ (r.op = "approve" => r.found = None)
      BY <2>1, <2>2 DEF AtSecond, Decisions, Reviews, Edits
    <3> QED BY <1>4, <2>2, <3>1, <3>2 DEF AtSecond, AsSeen
  <2>3. CASE r \in Reviews \cup Edits /\ r.via # "queue"
    <3>1. r.line \in Lines BY <2>3 DEF Reviews, Edits
    <3>2. HasBatch(q, r.line) /\ (r.op = "approve" => r.found = None)
      BY <2>1, <2>3 DEF AtSecond, Decisions, Reviews, Edits
    <3> QED BY <1>5, <2>3, <3>1, <3>2 DEF AtSecond, AsSeen
  <2>4. CASE r \in Decisions /\ r.key.line = r.line /\ HasLine(q, r.line)
    <3>1. r.line \in Lines BY <2>4 DEF Decisions
    <3> QED BY <1>4, <2>4, <3>1 DEF AtSecond
  <2>5. CASE r.op = "scan" /\ r.line \in Lines /\ DOMAIN r.saw \subseteq Rows
    BY <2>5 DEF AtSecond
  <2> QED BY <2>1, <2>2, <2>3, <2>4, <2>5 DEF AtSecond
<1>7. ASSUME pc[q] \in {"key", "settle"} PROVE Approving(q, r)'
  <2>1. Approving(q, r) BY <1>2, <1>7 DEF Relies
  <2>2. r.line \in Lines BY <2>1 DEF Approving, Reviews
  <2>3. HasLine(q, r.line)' /\ line'[r.line] = line[r.line] BY <1>4, <2>1, <2>2 DEF Approving
  <2>4. HasBatch(q, r.line)' BY <1>5, <2>1, <2>2 DEF Approving
  <2> QED BY <2>1, <2>3, <2>4 DEF Approving, AsSeen
<1>8. ASSUME pc[q] = "settle" PROVE Settling(q, r)'
  <2>1. Approving(q, r) /\ Settling(q, r) BY <1>2, <1>8 DEF Relies
  <2>2. r.line \in Lines /\ r.found \in Rows \cup {None} /\ HasLine(q, r.line)
    BY <2>1 DEF Approving, Reviews
  <2>3. line'[r.line] = line[r.line] BY <1>4, <2>2
  <2>4. r.found # None => ledger'[r.found].status # "none"
    BY <2>1, <2>2 DEF Settling, WritesFreely, LedgerFreely
  <2>5. ASSUME r.found = None, MovementOf[line[r.line].payload] \in Transfers
        PROVE  held'[TransferKey(r.line)] = q /\ NoneToJoin(r.line)'
    <3>1. held[TransferKey(r.line)] = q /\ NoneToJoin(r.line) BY <2>1, <2>5 DEF Settling
    <3>2. TransferKey(r.line) \in Locks BY <2>2, TransferKeyIsLock
    <3> QED BY <2>2, <2>5, <3>1, <3>2, NoneToJoinKept
  <2>6. TransferKey(r.line)' = TransferKey(r.line) BY <2>3 DEF TransferKey
  <2> QED BY <2>3, <2>4, <2>5, <2>6 DEF Settling
<1>9. ASSUME pc[q] = "discard" PROVE Discarding(q, r)'
  <2>1. Discarding(q, r) BY <1>2, <1>9 DEF Relies
  <2>2. r.batch \in Batches BY <2>1 DEF Discarding, Discards
  <2>3. held'[<<"batch", r.batch>>] = q BY <2>1, <2>2, LockNames DEF Discarding
  <2>4. ASSUME NEW l \in Lines, line'[l].batch = r.batch PROVE line'[l].status # "approved"
    <3>1. line[l].batch = r.batch BY <2>4 DEF WritesFreely
    <3> QED BY <1>1, <2>1, <3>1 DEF WritesFreely, Discarding
  <2> QED BY <2>1, <2>3, <2>4 DEF Discarding
<1> QED BY <1>2, <1>3, <1>6, <1>7, <1>8, <1>9 DEF Relies

-----------------------------------------------------------------------------
(* The two shapes of a step: a request moves on without writing, or writes *)
(* and ends.                                                               *)

LEMMA FreelyUnwritten ==
    ASSUME NEW p, UNCHANGED <<line, candidates, ledger>>
    PROVE  WritesFreely(p)
BY DEF WritesFreely, LedgerFreely

LEMMA QuietStep ==
    ASSUME ReviewInv, NEW p \in Requests,
           UNCHANGED <<batch, line, candidates, ledger>>,
           held' \in [Locks -> Requests \cup {None}],
           pc' \in [Requests -> Steps],
           DOMAIN req' = Requests,
           \A q \in Requests \ {p} : pc'[q] = pc[q] /\ req'[q] = req[q],
           \A q \in Requests \ {p}, k \in Locks : held[k] = q => held'[k] = q,
           Relies(p)'
    PROVE  ReviewInv'
<1>1. TypeOK' BY DEF ReviewInv, TypeOK
<1>2. TableInv'
  BY DEF ReviewInv, TableInv, OneEffectPerLine, DiscardedHasNoEffect, NothingLeftToReview
<1>3. WritesFreely(p) BY FreelyUnwritten
<1>4. ASSUME NEW q \in Requests PROVE Relies(q)'
  <2>1. CASE q = p BY <2>1
  <2>2. CASE q # p
    <3>1. TypeOK /\ Relies(q) BY DEF ReviewInv
    <3>2. pc'[q] = pc[q] /\ req'[q] = req[q] BY <2>2
    <3>3. \A k \in Locks : held[k] = q => held'[k] = q BY <2>2
    <3> QED BY <1>3, <2>2, <3>1, <3>2, <3>3, OthersKeep
  <2> QED BY <2>1, <2>2
<1> QED BY <1>1, <1>2, <1>4 DEF ReviewInv

LEMMA EndRow ==
    ASSUME TypeOK, NEW p \in Requests, End(p)
    PROVE  /\ held' \in [Locks -> Requests \cup {None}]
           /\ pc' \in [Requests -> Steps]
           /\ DOMAIN req' = Requests
           /\ pc'[p] = "idle"
           /\ \A q \in Requests \ {p} : pc'[q] = pc[q] /\ req'[q] = req[q]
           /\ \A q \in Requests \ {p}, k \in Locks : held[k] = q => held'[k] = q
<1>1. p # None BY ImportAssumption
<1>2. held' \in [Locks -> Requests \cup {None}] BY DEF TypeOK, End
<1>3. pc' \in [Requests -> Steps] /\ pc'[p] = "idle" BY DEF TypeOK, End, Steps
<1>4. DOMAIN req' = Requests BY DEF TypeOK, End
<1>5. \A q \in Requests \ {p} : pc'[q] = pc[q] /\ req'[q] = req[q] BY DEF TypeOK, End
<1>6. \A q \in Requests \ {p}, k \in Locks : held[k] = q => held'[k] = q BY DEF TypeOK, End
<1> QED BY <1>2, <1>3, <1>4, <1>5, <1>6

\* The tables as they are typed, for the steps that write them.
TablesOK ==
    /\ batch \in [Batches -> {"reviewing", "completed", "discarded"}]
    /\ line \in [Lines -> LineRow]
    /\ candidates \subseteq Candidate
    /\ ledger \in [Rows -> Row]

LEMMA EndStep ==
    ASSUME ReviewInv, NEW p \in Requests, End(p), TablesOK', TableInv', WritesFreely(p)
    PROVE  ReviewInv'
<1>1. TypeOK BY DEF ReviewInv
<1>2. TypeOK' BY <1>1, EndRow DEF TypeOK, TablesOK
<1>3. ASSUME NEW q \in Requests PROVE Relies(q)'
  <2>1. CASE q = p
    <3>1. pc'[q] = "idle" BY <1>1, <2>1, EndRow
    <3> QED BY <3>1 DEF Relies
  <2>2. CASE q # p
    <3>1. Relies(q) BY DEF ReviewInv
    <3>2. pc'[q] = pc[q] /\ req'[q] = req[q] BY <1>1, <2>2, EndRow
    <3>3. \A k \in Locks : held[k] = q => held'[k] = q BY <1>1, <2>2, EndRow
    <3> QED BY <1>1, <2>2, <3>1, <3>2, <3>3, OthersKeep
  <2> QED BY <2>1, <2>2
<1> QED BY <1>2, <1>3 DEF ReviewInv

LEMMA RefuseKeeps ==
    ASSUME ReviewInv, NEW p \in Requests, Refuse(p)
    PROVE  ReviewInv'
<1>1. End(p) /\ UNCHANGED <<batch, line, candidates, ledger>> BY DEF Refuse
<1>2. TablesOK' BY <1>1 DEF ReviewInv, TypeOK, TablesOK
<1>3. TableInv'
  BY <1>1 DEF ReviewInv, TableInv, OneEffectPerLine, DiscardedHasNoEffect, NothingLeftToReview
<1>4. WritesFreely(p) BY <1>1, FreelyUnwritten
<1> QED BY <1>1, <1>2, <1>3, <1>4, EndStep

\* A request begins: it must rely on what it finds once it has its first lock.
LEMMA BeginKeeps ==
    ASSUME ReviewInv, NEW p \in Requests, NEW r, NEW k \in Locks,
           NEW step \in {"second", "discard"}, Begin(p, r, k, step),
           step = "second" => AtSecond(p, r)',
           step = "discard" => Discarding(p, r)'
    PROVE  ReviewInv'
<1>1. TypeOK BY DEF ReviewInv
<1>2. held[k] = None /\ held' = [held EXCEPT ![k] = p] BY DEF Begin, Free, Take
<1>3. pc' = [pc EXCEPT ![p] = step] /\ req' = [req EXCEPT ![p] = r] BY DEF Begin, Go
<1>4. UNCHANGED <<batch, line, candidates, ledger>> BY DEF Begin
<1>5. held' \in [Locks -> Requests \cup {None}] BY <1>1, <1>2 DEF TypeOK
<1>6. pc' \in [Requests -> Steps] BY <1>1, <1>3 DEF TypeOK, Steps
<1>7. DOMAIN req' = Requests BY <1>1, <1>3 DEF TypeOK
<1>8. \A q \in Requests \ {p} : pc'[q] = pc[q] /\ req'[q] = req[q] BY <1>1, <1>3 DEF TypeOK
<1>9. \A q \in Requests \ {p}, j \in Locks : held[j] = q => held'[j] = q
  BY <1>1, <1>2, ImportAssumption DEF TypeOK
<1>10. pc'[p] = step /\ req'[p] = r BY <1>1, <1>3 DEF TypeOK
<1>11. Relies(p)' BY <1>10 DEF Relies
<1> QED BY <1>4, <1>5, <1>6, <1>7, <1>8, <1>9, <1>11, QuietStep

LEMMA ReadKeeps ==
    ASSUME ReviewInv, NEW p \in Requests, NEW r,
           NEW step \in {"second", "write"}, Read(p, r, step),
           step = "second" => AtSecond(p, r)',
           step = "write" => r \in Refreshes
    PROVE  ReviewInv'
<1>1. TypeOK BY DEF ReviewInv
<1>2. pc' = [pc EXCEPT ![p] = step] /\ req' = [req EXCEPT ![p] = r] BY DEF Read, Go
<1>3. UNCHANGED <<batch, line, candidates, ledger, held>> BY DEF Read
<1>4. held' \in [Locks -> Requests \cup {None}] BY <1>1, <1>3 DEF TypeOK
<1>5. pc' \in [Requests -> Steps] BY <1>1, <1>2 DEF TypeOK, Steps
<1>6. DOMAIN req' = Requests BY <1>1, <1>2 DEF TypeOK
<1>7. \A q \in Requests \ {p} : pc'[q] = pc[q] /\ req'[q] = req[q] BY <1>1, <1>2 DEF TypeOK
<1>8. \A q \in Requests \ {p}, j \in Locks : held[j] = q => held'[j] = q BY <1>3
<1>9. pc'[p] = step /\ req'[p] = r BY <1>1, <1>2 DEF TypeOK
<1>10. Relies(p)' BY <1>9 DEF Relies
<1> QED BY <1>3, <1>4, <1>5, <1>6, <1>7, <1>8, <1>10, QuietStep

-----------------------------------------------------------------------------
(* The first steps.                                                        *)

LEMMA BeginHolds ==
    ASSUME TypeOK, NEW p \in Requests, NEW r, NEW k \in Locks, NEW step, Begin(p, r, k, step)
    PROVE  held'[k] = p /\ line' = line
BY DEF TypeOK, Begin, Take

LEMMA BatchOfLine ==
    ASSUME TypeOK, NEW l \in Lines
    PROVE  line[l].batch \in Batches /\ <<"batch", line[l].batch>> \in Locks
<1>1. line[l].batch \in Batches BY DEF TypeOK, LineRow
<1> QED BY <1>1, LockNames

LEMMA ReviewInBatchKeeps ==
    ASSUME ReviewInv, NEW p \in Requests, ReviewInBatch(p)
    PROVE  ReviewInv'
<1>1. TypeOK BY DEF ReviewInv
<1>2. PICK op \in {"approve", "reject"}, l \in Lines :
        Begin(p, [op |-> op, line |-> l, via |-> "batch", seen |-> None, found |-> None],
              <<"batch", line[l].batch>>, "second")
  BY DEF ReviewInBatch
<1>3. PICK r : r = [op |-> op, line |-> l, via |-> "batch", seen |-> None, found |-> None]
  OBVIOUS
<1>4. PICK k : k = <<"batch", line[l].batch>> OBVIOUS
<1>5. k \in Locks BY <1>1, <1>4, BatchOfLine
<1>6. Begin(p, r, k, "second") BY <1>2, <1>3, <1>4
<1>7. held'[k] = p /\ line' = line BY <1>1, <1>5, <1>6, BeginHolds
<1>8. r \in Reviews /\ r.via = "batch" /\ r.line = l /\ r.found = None BY <1>3 DEF Reviews
<1>9. HasBatch(p, l)' BY <1>4, <1>7 DEF HasBatch
<1>10. AtSecond(p, r)' BY <1>8, <1>9 DEF AtSecond, AsSeen
<1> QED BY <1>5, <1>6, <1>10, BeginKeeps

LEMMA EditInBatchKeeps ==
    ASSUME ReviewInv, NEW p \in Requests, EditInBatch(p)
    PROVE  ReviewInv'
<1>1. TypeOK BY DEF ReviewInv
<1>2. PICK l \in Lines, to \in Payloads :
        Begin(p, [op |-> "edit", line |-> l, via |-> "batch", seen |-> None, to |-> to],
              <<"batch", line[l].batch>>, "second")
  BY DEF EditInBatch
<1>3. PICK r : r = [op |-> "edit", line |-> l, via |-> "batch", seen |-> None, to |-> to]
  OBVIOUS
<1>4. PICK k : k = <<"batch", line[l].batch>> OBVIOUS
<1>5. k \in Locks BY <1>1, <1>4, BatchOfLine
<1>6. Begin(p, r, k, "second") BY <1>2, <1>3, <1>4
<1>7. held'[k] = p /\ line' = line BY <1>1, <1>5, <1>6, BeginHolds
<1>8. r \in Edits /\ r.via = "batch" /\ r.line = l /\ r.op = "edit" BY <1>3 DEF Edits
<1>9. HasBatch(p, l)' BY <1>4, <1>7 DEF HasBatch
<1>10. AtSecond(p, r)' BY <1>8, <1>9 DEF AtSecond, AsSeen
<1> QED BY <1>5, <1>6, <1>10, BeginKeeps

LEMMA ReviewInQueueKeeps ==
    ASSUME ReviewInv, NEW p \in Requests, ReviewInQueue(p)
    PROVE  ReviewInv'
<1>1. TypeOK BY DEF ReviewInv
<1>2. PICK op \in {"approve", "reject"}, l \in Lines, seen \in Payloads :
        /\ SeenByQueue(l, seen)
        /\ Begin(p, [op |-> op, line |-> l, via |-> "queue", seen |-> seen, found |-> None],
                 <<"line", l>>, "second")
  BY DEF ReviewInQueue
<1>3. PICK r : r = [op |-> op, line |-> l, via |-> "queue", seen |-> seen, found |-> None]
  OBVIOUS
<1>4. PICK k : k = <<"line", l>> OBVIOUS
<1>5. k \in Locks BY <1>4, LockNames
<1>6. Begin(p, r, k, "second") BY <1>2, <1>3, <1>4
<1>7. held'[k] = p /\ line' = line BY <1>1, <1>5, <1>6, BeginHolds
<1>8. r \in Reviews /\ r.via = "queue" /\ r.line = l /\ r.found = None /\ r.seen = seen
  BY <1>3 DEF Reviews
<1>9. HasLine(p, l)' BY <1>4, <1>7 DEF HasLine
<1>10. AsSeen(r)' BY <1>2, <1>7, <1>8 DEF AsSeen, SeenByQueue
<1>11. AtSecond(p, r)' BY <1>8, <1>9, <1>10 DEF AtSecond
<1> QED BY <1>5, <1>6, <1>11, BeginKeeps

LEMMA EditInQueueKeeps ==
    ASSUME ReviewInv, NEW p \in Requests, EditInQueue(p)
    PROVE  ReviewInv'
<1>1. TypeOK BY DEF ReviewInv
<1>2. PICK l \in Lines, seen \in Payloads, to \in Payloads :
        /\ SeenByQueue(l, seen)
        /\ Begin(p, [op |-> "edit", line |-> l, via |-> "queue", seen |-> seen, to |-> to],
                 <<"line", l>>, "second")
  BY DEF EditInQueue
<1>3. PICK r : r = [op |-> "edit", line |-> l, via |-> "queue", seen |-> seen, to |-> to]
  OBVIOUS
<1>4. PICK k : k = <<"line", l>> OBVIOUS
<1>5. k \in Locks BY <1>4, LockNames
<1>6. Begin(p, r, k, "second") BY <1>2, <1>3, <1>4
<1>7. held'[k] = p /\ line' = line BY <1>1, <1>5, <1>6, BeginHolds
<1>8. r \in Edits /\ r.via = "queue" /\ r.line = l /\ r.op = "edit" /\ r.seen = seen
  BY <1>3 DEF Edits
<1>9. HasLine(p, l)' BY <1>4, <1>7 DEF HasLine
<1>10. AsSeen(r)' BY <1>2, <1>7, <1>8 DEF AsSeen, SeenByQueue
<1>11. AtSecond(p, r)' BY <1>8, <1>9, <1>10 DEF AtSecond
<1> QED BY <1>5, <1>6, <1>11, BeginKeeps

LEMMA KeyRow ==
    ASSUME NEW c \in Candidate
    PROVE  /\ KeyOf(c) \in Key
           /\ KeyOf(c).kind = c.kind /\ KeyOf(c).line = c.line
           /\ KeyOf(c).target = c.target /\ KeyOf(c).payload = c.payload
BY DEF Candidate, KeyOf, Key

LEMMA DecideKeeps ==
    ASSUME ReviewInv, NEW p \in Requests, Decide(p)
    PROVE  ReviewInv'
<1>1. TypeOK BY DEF ReviewInv
<1>2. PICK c \in candidates, verdict \in {"approve", "reject"} :
        Begin(p, [op |-> "decide", line |-> c.line, key |-> KeyOf(c), verdict |-> verdict],
              <<"line", c.line>>, "second")
  BY DEF Decide
<1>3. c \in Candidate BY <1>1 DEF TypeOK
<1>4. c.line \in Lines BY <1>3 DEF Candidate
<1>5. PICK key : key = KeyOf(c) OBVIOUS
<1>6. key \in Key /\ key.line = c.line BY <1>3, <1>5, KeyRow
<1>7. PICK r : r = [op |-> "decide", line |-> c.line, key |-> key, verdict |-> verdict]
  OBVIOUS
<1>8. PICK k : k = <<"line", c.line>> OBVIOUS
<1>9. k \in Locks BY <1>4, <1>8, LockNames
<1>10. Begin(p, r, k, "second") BY <1>2, <1>5, <1>7, <1>8
<1>11. held'[k] = p BY <1>1, <1>9, <1>10, BeginHolds
<1>12. r \in Decisions /\ r.key.line = r.line /\ r.line = c.line
  BY <1>4, <1>6, <1>7 DEF Decisions
<1>13. AtSecond(p, r)' BY <1>8, <1>11, <1>12 DEF AtSecond, HasLine
<1> QED BY <1>9, <1>10, <1>13, BeginKeeps

\* Without effects in the ledger no line of the batch is approved: an approved one has
\* a target.
LEMMA BeginDiscardKeeps ==
    ASSUME ReviewInv, NEW p \in Requests, BeginDiscard(p)
    PROVE  ReviewInv'
<1>1. TypeOK /\ OneEffectPerLine BY DEF ReviewInv, TableInv
<1>2. PICK b \in Batches :
        /\ ~ HasEffects(b)
        /\ Begin(p, [op |-> "discard", batch |-> b], <<"batch", b>>, "discard")
  BY DEF BeginDiscard
<1>3. PICK r : r = [op |-> "discard", batch |-> b] OBVIOUS
<1>4. PICK k : k = <<"batch", b>> OBVIOUS
<1>5. k \in Locks BY <1>4, LockNames
<1>6. Begin(p, r, k, "discard") BY <1>2, <1>3, <1>4
<1>7. held'[k] = p /\ line' = line BY <1>1, <1>5, <1>6, BeginHolds
<1>8. r \in Discards /\ r.batch = b BY <1>3 DEF Discards
<1>9. \A l \in Lines : line[l].batch = b => line[l].status # "approved"
  BY <1>1, <1>2 DEF HasEffects, OneEffectPerLine
<1>10. Discarding(p, r)' BY <1>4, <1>7, <1>8, <1>9 DEF Discarding
<1> QED BY <1>5, <1>6, <1>10, BeginKeeps

LEMMA ReadForScanKeeps ==
    ASSUME ReviewInv, NEW p \in Requests, ReadForScan(p)
    PROVE  ReviewInv'
<1>1. PICK l \in Lines :
        Read(p, [op |-> "scan", line |-> l,
                 saw |-> [t \in {t \in Rows : Live(t)} |-> ledger[t]]], "second")
  BY DEF ReadForScan
<1>2. PICK saw : saw = [t \in {t \in Rows : Live(t)} |-> ledger[t]] OBVIOUS
<1>3. DOMAIN saw \subseteq Rows BY <1>2
<1>4. PICK r : r = [op |-> "scan", line |-> l, saw |-> saw] OBVIOUS
<1>5. Read(p, r, "second") BY <1>1, <1>2, <1>4
<1>6. AtSecond(p, r)' BY <1>3, <1>4 DEF AtSecond
<1> QED BY <1>5, <1>6, ReadKeeps

LEMMA ReadForRefreshKeeps ==
    ASSUME ReviewInv, NEW p \in Requests, ReadForRefresh(p)
    PROVE  ReviewInv'
<1>1. PICK b \in Batches :
        Read(p, [op |-> "refresh", batch |-> b, verdict |-> Recount(b, line, candidates)],
             "write")
  BY DEF ReadForRefresh
<1>2. PICK verdict : verdict = Recount(b, line, candidates) OBVIOUS
<1>3. verdict \in {"reviewing", "completed"} BY <1>2, RecountCounts
<1>4. PICK r : r = [op |-> "refresh", batch |-> b, verdict |-> verdict] OBVIOUS
<1>5. Read(p, r, "write") BY <1>1, <1>2, <1>4
<1>6. r \in Refreshes BY <1>3, <1>4 DEF Refreshes
<1> QED BY <1>5, <1>6, ReadKeeps

-----------------------------------------------------------------------------
(* The decisions: they hold or may take both locks, of a pending line.     *)

LEMMA LockedHolds ==
    ASSUME ReviewInv, NEW p \in Requests, NEW op, Locked(p, op), NEW r, r = req[p]
    PROVE  /\ r.op = op /\ r.line \in Lines
           /\ line[r.line].status = "pending"
           /\ AtSecond(p, r)
           /\ held[<<"line", r.line>>] \in {p, None}
           /\ op # "scan" => held[<<"batch", line[r.line].batch>>] \in {p, None}
<1>1. AtSecond(p, r) /\ r.op = op BY DEF ReviewInv, Relies, Locked
<1>2. Accepts(p) /\ Free(Second(p)) BY DEF Locked
<1>3. line[r.line].status = "pending" BY <1>2 DEF Accepts
<1>4. CASE r \in Reviews \cup Edits /\ r.via = "queue"
  <2>1. r.line \in Lines /\ r.op # "decide" /\ r.op # "scan" BY <1>4 DEF Reviews, Edits
  <2>2. HasLine(p, r.line) BY <1>1, <1>4, <2>1 DEF AtSecond, Decisions
  <2>3. Second(p) = <<"batch", line[r.line].batch>> BY <1>4, <2>1 DEF Second, LineFirst
  <2> QED BY <1>1, <1>2, <1>3, <2>1, <2>2, <2>3 DEF HasLine, Free
<1>5. CASE r \in Reviews \cup Edits /\ r.via # "queue"
  <2>1. r.line \in Lines /\ r.op # "decide" /\ r.op # "scan" BY <1>5 DEF Reviews, Edits
  <2>2. HasBatch(p, r.line) BY <1>1, <1>5, <2>1 DEF AtSecond, Decisions
  <2>3. Second(p) = <<"line", r.line>> BY <1>5, <2>1 DEF Second, LineFirst
  <2> QED BY <1>1, <1>2, <1>3, <2>1, <2>2, <2>3 DEF HasBatch, Free
<1>6. CASE r \in Decisions /\ r.key.line = r.line /\ HasLine(p, r.line)
  <2>1. r.line \in Lines /\ r.op = "decide" BY <1>6 DEF Decisions
  <2>2. Second(p) = <<"batch", line[r.line].batch>> BY <2>1 DEF Second, LineFirst
  <2> QED BY <1>1, <1>2, <1>3, <1>6, <2>1, <2>2 DEF HasLine, Free
<1>7. CASE r.op = "scan" /\ r.line \in Lines /\ DOMAIN r.saw \subseteq Rows
  <2>1. Second(p) = <<"line", r.line>> BY <1>7 DEF Second, LineFirst
  <2> QED BY <1>1, <1>2, <1>3, <1>7, <2>1 DEF Free
<1> QED BY <1>1, <1>4, <1>5, <1>6, <1>7 DEF AtSecond

\* A step that changes the one line l: with its lock free or its own, and the batch's.
LEMMA OneLineFreely ==
    ASSUME TypeOK, NEW p, NEW l \in Lines,
           held[<<"line", l>>] \in {p, None},
           \A k \in Lines : k # l => line'[k] = line[k],
           line'[l].batch = line[l].batch,
           line'[l].status = "approved" => held[<<"batch", line[l].batch>>] \in {p, None},
           \A c \in candidates : c.status = "rejected" /\ c \notin candidates' => c.line = l,
           LedgerFreely(p)
    PROVE  WritesFreely(p)
<1>1. \A k \in Lines : line'[k].batch = line[k].batch OBVIOUS
<1>2. \A k \in Lines : line'[k] # line[k] => held[<<"line", k>>] \in {p, None} OBVIOUS
<1>3. \A k \in Lines : line'[k].status = "approved" /\ line[k].status # "approved" =>
                          held[<<"batch", line[k].batch>>] \in {p, None}
  OBVIOUS
<1>4. \A c \in candidates : c.status = "rejected" /\ c \notin candidates' =>
                               held[<<"line", c.line>>] \in {p, None}
  OBVIOUS
<1> QED BY <1>1, <1>2, <1>3, <1>4 DEF WritesFreely

\* Where the ledger stays and no line is approved, the effects stay.
LEMMA EffectsStay ==
    ASSUME OneEffectPerLine, ledger' = ledger,
           \A k \in Lines : /\ line'[k].target = line[k].target
                            /\ line'[k].status = "approved" <=> line[k].status = "approved"
    PROVE  OneEffectPerLine'
BY DEF OneEffectPerLine

\* A decision on a line that is pending leaves its batch in review or complete; the
\* other batches keep their lines.
LEMMA DiscardedStay ==
    ASSUME TypeOK, DiscardedHasNoEffect, NEW l \in Lines, NEW status,
           status # "discarded",
           batch' = [batch EXCEPT ![line[l].batch] = status],
           \A k \in Lines : k # l => line'[k] = line[k],
           line'[l].batch = line[l].batch
    PROVE  DiscardedHasNoEffect'
<1>1. \A k \in Lines : line[k].batch \in Batches BY BatchOfLine
<1>2. ASSUME NEW k \in Lines, batch'[line'[k].batch] = "discarded"
      PROVE  line'[k].status = "rejected"
  <2>1. line'[k].batch = line[k].batch OBVIOUS
  <2>2. line[k].batch # line[l].batch BY <1>1, <1>2, <2>1 DEF TypeOK
  <2>3. batch[line[k].batch] = "discarded" BY <1>1, <1>2, <2>1, <2>2 DEF TypeOK
  <2> QED BY <2>2, <2>3 DEF DiscardedHasNoEffect
<1> QED BY <1>2 DEF DiscardedHasNoEffect

\* What a candidate asks of its line.
Fits(c) ==
    /\ c.status = "pending" =>
          line[c.line].status = "pending" /\ line[c.line].payload = c.payload
    /\ c.status = "approved" =>
          IF c.kind = "deduplication" THEN line[c.line].status = "rejected"
          ELSE line[c.line].status = "approved" /\ line[c.line].target = c.target

LEMMA AllFit == NothingLeftToReview <=> \A c \in candidates : Fits(c)
BY DEF NothingLeftToReview, Fits

LEMMA FitStays ==
    ASSUME NEW c, Fits(c), line'[c.line] = line[c.line]
    PROVE  Fits(c)'
BY DEF Fits

\* What a decision of p on the pending line l writes: the lines L, of which only l
\* changes, and the candidates C, of which none is left open on l.
Decides(p, l, L, C) ==
    /\ Commit(p, line[l].batch, L, C)
    /\ line[l].status = "pending"
    /\ held[<<"line", l>>] \in {p, None}
    /\ held[<<"batch", line[l].batch>>] \in {p, None}
    /\ L \in [Lines -> LineRow] /\ L[l].batch = line[l].batch
    /\ \A k \in Lines : k # l => L[k] = line[k]
    /\ C \subseteq Candidate
    /\ \A c \in candidates : c.status = "rejected" /\ c \notin C => c.line = l
    /\ \A c \in C : c \notin candidates \/ c.line = l => Fits(c)'

\* The end of a decision.
LEMMA DecisionCommits ==
    ASSUME ReviewInv, NEW p \in Requests, NEW l \in Lines, NEW L, NEW C,
           Decides(p, l, L, C), ledger' \in [Rows -> Row], OneEffectPerLine', LedgerFreely(p)
    PROVE  ReviewInv'
<1>0. /\ Commit(p, line[l].batch, L, C)
      /\ line[l].status = "pending"
      /\ held[<<"line", l>>] \in {p, None}
      /\ held[<<"batch", line[l].batch>>] \in {p, None}
      /\ L \in [Lines -> LineRow] /\ L[l].batch = line[l].batch
      /\ \A k \in Lines : k # l => L[k] = line[k]
      /\ C \subseteq Candidate
      /\ \A c \in candidates : c.status = "rejected" /\ c \notin C => c.line = l
      /\ \A c \in C : c \notin candidates \/ c.line = l => Fits(c)'
  BY DEF Decides
<1>1. TypeOK /\ DiscardedHasNoEffect /\ NothingLeftToReview BY DEF ReviewInv, TableInv
<1>2. PICK status : status = Recount(line[l].batch, L, C) OBVIOUS
<1>3. status \in {"reviewing", "completed"} BY <1>2, RecountCounts
<1>4. batch' = [batch EXCEPT ![line[l].batch] = status] BY <1>0, <1>2 DEF Commit
<1>5. line' = L /\ candidates' = C /\ End(p) BY <1>0 DEF Commit
<1>6. TablesOK'
  <2>1. batch' \in [Batches -> {"reviewing", "completed", "discarded"}]
    BY <1>1, <1>3, <1>4 DEF TypeOK
  <2> QED BY <1>0, <1>5, <2>1 DEF TablesOK
<1>7. DiscardedHasNoEffect' BY <1>0, <1>1, <1>3, <1>4, <1>5, DiscardedStay
<1>8. NothingLeftToReview'
  <2>1. ASSUME NEW c \in C, c \in candidates, c.line # l PROVE Fits(c)'
    <3>1. Fits(c) BY <1>1, <2>1, AllFit
    <3>2. c.line \in Lines BY <1>0, <2>1 DEF Candidate
    <3>3. line'[c.line] = line[c.line] BY <1>0, <1>5, <2>1, <3>2
    <3> QED BY <3>1, <3>3, FitStays
  <2>2. \A c \in candidates' : Fits(c)' BY <1>0, <1>5, <2>1
  <2> QED BY <2>2 DEF NothingLeftToReview, Fits
<1>9. WritesFreely(p)
  <2>1. \A k \in Lines : k # l => line'[k] = line[k] BY <1>0, <1>5
  <2>2. line'[l].batch = line[l].batch BY <1>0, <1>5
  <2>3. \A c \in candidates : c.status = "rejected" /\ c \notin candidates' => c.line = l
    BY <1>0, <1>5
  <2> QED BY <1>0, <1>1, <2>1, <2>2, <2>3, OneLineFreely
<1> QED BY <1>5, <1>6, <1>7, <1>8, <1>9, EndStep DEF TableInv

-----------------------------------------------------------------------------
(* The commits, one by one.                                                *)

\* A pending line has no approved candidate; once its open ones expire, none of its
\* candidates asks anything of it.
LEMMA ClosedCandidates ==
    ASSUME ReviewInv, NEW l \in Lines, line[l].status = "pending", NEW keep,
           NEW c \in Expired(candidates, l, keep), c \notin candidates \/ c.line = l
    PROVE  c.status \in {"rejected", "expired"} \/ (c.status = "pending" /\ KeyOf(c) \in keep)
<1>1. candidates \in SUBSET Candidate BY DEF ReviewInv, TypeOK
<1>2. c \in Candidate BY <1>1, ExpiredMember
<1>3. c.status # "expired" => /\ c \in candidates
                              /\ c.status = "pending" /\ c.line = l => KeyOf(c) \in keep
  BY <1>1, ExpiredMember
<1>4. CASE c.status = "expired" BY <1>4
<1>5. CASE c.status # "expired"
  <2>1. c \in candidates /\ c.line = l BY <1>3, <1>5
  <2>2. Fits(c) BY <2>1, AllFit DEF ReviewInv, TableInv
  <2>3. c.status # "approved" BY <2>1, <2>2 DEF Fits
  <2>4. c.status \in {"pending", "approved", "rejected", "expired"} BY <1>2 DEF Candidate
  <2> QED BY <1>3, <1>5, <2>1, <2>3, <2>4
<1> QED BY <1>4, <1>5

LEMMA ExpiredTyped ==
    ASSUME TypeOK, NEW l, NEW keep
    PROVE  /\ Expired(candidates, l, keep) \subseteq Candidate
           /\ \A c \in candidates : c.status = "rejected" => c \in Expired(candidates, l, keep)
<1>1. candidates \in SUBSET Candidate BY DEF TypeOK
<1> QED BY <1>1, ExpiredMember, ExpiredKeeps

\* A line that is rejected, its row otherwise the same.
LEMMA RejectedRow ==
    ASSUME TypeOK, NEW l \in Lines, NEW L, L = [line EXCEPT ![l].status = "rejected"]
    PROVE  /\ L \in [Lines -> LineRow]
           /\ L[l].status = "rejected" /\ L[l].batch = line[l].batch
           /\ L[l].target = line[l].target
           /\ \A k \in Lines : k # l => L[k] = line[k]
<1>1. PICK row : row = [line[l] EXCEPT !.status = "rejected"] OBVIOUS
<1>2. L = [line EXCEPT ![l] = row] BY <1>1
<1>3. line[l] \in LineRow BY DEF TypeOK
<1>4. /\ row \in LineRow /\ row.status = "rejected" /\ row.batch = line[l].batch
      /\ row.target = line[l].target
  BY <1>1, <1>3 DEF LineRow
<1> QED BY <1>2, <1>4 DEF TypeOK

\* A decision that leaves the ledger alone and the line without an effect.
LEMMA PlainCommits ==
    ASSUME ReviewInv, NEW p \in Requests, NEW l \in Lines, NEW L, NEW C,
           Decides(p, l, L, C),
           L[l].target = line[l].target, L[l].status # "approved",
           ledger' = ledger
    PROVE  ReviewInv'
<1>1. TypeOK /\ OneEffectPerLine BY DEF ReviewInv, TableInv
<1>2. OneEffectPerLine'
  <2>1. line' = L BY DEF Decides, Commit
  <2>2. \A k \in Lines : /\ line'[k].target = line[k].target
                         /\ line'[k].status = "approved" <=> line[k].status = "approved"
    BY <2>1 DEF Decides
  <2> QED BY <1>1, <2>2, EffectsStay
<1>3. ledger' \in [Rows -> Row] BY <1>1 DEF TypeOK
<1>4. LedgerFreely(p) BY DEF LedgerFreely
<1> QED BY <1>2, <1>3, <1>4, DecisionCommits

LEMMA RejectKeeps ==
    ASSUME ReviewInv, NEW p \in Requests, Reject(p)
    PROVE  ReviewInv'
<1>1. TypeOK BY DEF ReviewInv
<1>2. PICK l : l = req[p].line OBVIOUS
<1>3. PICK L : L = [line EXCEPT ![l].status = "rejected"] OBVIOUS
<1>4. PICK C : C = Expired(candidates, l, {}) OBVIOUS
<1>5. Locked(p, "reject") /\ Commit(p, line[l].batch, L, C) /\ ledger' = ledger
  BY <1>2, <1>3, <1>4 DEF Reject
<1>6. /\ l \in Lines /\ line[l].status = "pending"
      /\ held[<<"line", l>>] \in {p, None} /\ held[<<"batch", line[l].batch>>] \in {p, None}
  BY <1>2, <1>5, LockedHolds
<1>7. L \in [Lines -> LineRow] BY <1>1, <1>3, <1>6, RejectedRow
<1>8. /\ L[l].status # "approved" /\ L[l].batch = line[l].batch
      /\ L[l].target = line[l].target
  BY <1>1, <1>3, <1>6, RejectedRow
<1>9. \A k \in Lines : k # l => L[k] = line[k] BY <1>1, <1>3, <1>6, RejectedRow
<1>10. C \subseteq Candidate BY <1>1, <1>4, ExpiredTyped
<1>11. \A c \in candidates : c.status = "rejected" /\ c \notin C => c.line = l
  BY <1>1, <1>4, ExpiredTyped
<1>12. ASSUME NEW c \in C, c \notin candidates \/ c.line = l PROVE Fits(c)'
  <2>1. c.status \in {"rejected", "expired"} BY <1>4, <1>6, <1>12, ClosedCandidates
  <2> QED BY <2>1 DEF Fits
<1>13. Decides(p, l, L, C)
  BY <1>5, <1>6, <1>7, <1>8, <1>9, <1>10, <1>11, <1>12 DEF Decides
<1> QED BY <1>5, <1>6, <1>8, <1>13, PlainCommits

\* The candidates of the content a line is edited to fit it.
LEMMA EditKeeps ==
    ASSUME ReviewInv, NEW p \in Requests, Edit(p)
    PROVE  ReviewInv'
<1>1. TypeOK BY DEF ReviewInv
<1>2. PICK l : l = req[p].line OBVIOUS
<1>3. PICK to : to = req[p].to OBVIOUS
<1>4. PICK L : L = [line EXCEPT ![l].payload = to] OBVIOUS
<1>5. PICK expired : expired = Expired(candidates, l, {}) OBVIOUS
<1>6. PICK offered : offered = Proposals(l, to) OBVIOUS
<1>7. PICK C : C = Insert(expired, offered) OBVIOUS
<1>8. Locked(p, "edit") /\ Commit(p, line[l].batch, L, C) /\ ledger' = ledger
  BY <1>2, <1>3, <1>4, <1>5, <1>6, <1>7 DEF Edit
<1>9. /\ l \in Lines /\ line[l].status = "pending"
      /\ held[<<"line", l>>] \in {p, None} /\ held[<<"batch", line[l].batch>>] \in {p, None}
  BY <1>2, <1>8, LockedHolds
<1>10. to \in Payloads
  <2>1. AtSecond(p, req[p]) /\ req[p].op = "edit" BY <1>8, LockedHolds
  <2>2. req[p] \in Edits BY <2>1 DEF AtSecond, Reviews, Edits, Decisions
  <2> QED BY <1>3, <2>2 DEF Edits
<1>11. /\ L \in [Lines -> LineRow]
       /\ L[l].status = "pending" /\ L[l].batch = line[l].batch
       /\ L[l].target = line[l].target /\ L[l].payload = to
       /\ \A k \in Lines : k # l => L[k] = line[k]
  <2>1. PICK row : row = [line[l] EXCEPT !.payload = to] OBVIOUS
  <2>2. L = [line EXCEPT ![l] = row] BY <1>4, <2>1
  <2>3. line[l] \in LineRow BY <1>1, <1>9 DEF TypeOK
  <2>4. /\ row \in LineRow /\ row.status = "pending" /\ row.batch = line[l].batch
        /\ row.target = line[l].target /\ row.payload = to
    BY <1>9, <1>10, <2>1, <2>3 DEF LineRow
  <2> QED BY <1>1, <1>9, <2>2, <2>4 DEF TypeOK
<1>12. ASSUME NEW c \in offered
       PROVE  c \in Candidate /\ c.status = "pending" /\ c.line = l /\ c.payload = to
  BY <1>1, <1>6, <1>9, <1>10, ProposalsRow
<1>13. expired \subseteq C /\ C \subseteq expired \cup offered BY <1>7, InsertMember
<1>14. expired \subseteq Candidate BY <1>1, <1>5, ExpiredTyped
<1>15. C \subseteq Candidate BY <1>12, <1>13, <1>14
<1>16. \A c \in candidates : c.status = "rejected" => c \in expired BY <1>1, <1>5, ExpiredTyped
<1>17. \A c \in candidates : c.status = "rejected" /\ c \notin C => c.line = l BY <1>13, <1>16
<1>18. ASSUME NEW c \in C, c \notin candidates \/ c.line = l PROVE Fits(c)'
  <2>1. line' = L BY <1>8 DEF Commit
  <2>2. CASE c \in offered BY <1>11, <1>12, <2>1, <2>2 DEF Fits
  <2>3. CASE c \in expired
    <3>1. c.status \in {"rejected", "expired"} BY <1>5, <1>9, <1>18, <2>3, ClosedCandidates
    <3> QED BY <3>1 DEF Fits
  <2> QED BY <1>13, <2>2, <2>3
<1>19. L \in [Lines -> LineRow] BY <1>11
<1>20. L[l].status # "approved" /\ L[l].batch = line[l].batch /\ L[l].target = line[l].target
  BY <1>11
<1>21. \A k \in Lines : k # l => L[k] = line[k] BY <1>11
<1>22. Decides(p, l, L, C)
  BY <1>8, <1>9, <1>15, <1>17, <1>18, <1>19, <1>20, <1>21 DEF Decides
<1> QED BY <1>8, <1>9, <1>20, <1>22, PlainCommits

LEMMA ApproveBlockedKeeps ==
    ASSUME ReviewInv, NEW p \in Requests, ApproveBlocked(p)
    PROVE  ReviewInv'
<1>1. TypeOK BY DEF ReviewInv
<1>2. PICK l : l = req[p].line OBVIOUS
<1>3. PICK q : q = line[l].payload OBVIOUS
<1>4. PICK offered : offered = Proposals(l, q) OBVIOUS
<1>5. PICK C : C = Insert(candidates, offered) OBVIOUS
<1>6. Locked(p, "approve") /\ Commit(p, line[l].batch, line, C) /\ ledger' = ledger
  BY <1>2, <1>3, <1>4, <1>5 DEF ApproveBlocked, Offered
<1>7. /\ l \in Lines /\ line[l].status = "pending"
      /\ held[<<"line", l>>] \in {p, None} /\ held[<<"batch", line[l].batch>>] \in {p, None}
  BY <1>2, <1>6, LockedHolds
<1>8. line \in [Lines -> LineRow] /\ candidates \subseteq Candidate BY <1>1 DEF TypeOK
<1>9. q \in Payloads BY <1>3, <1>7, <1>8 DEF LineRow
<1>10. ASSUME NEW c \in offered
       PROVE  c \in Candidate /\ c.status = "pending" /\ c.line = l /\ c.payload = q
  BY <1>1, <1>4, <1>7, <1>9, ProposalsRow
<1>11. candidates \subseteq C /\ C \subseteq candidates \cup offered BY <1>5, InsertMember
<1>12. C \subseteq Candidate BY <1>8, <1>10, <1>11
<1>13. \A c \in candidates : c.status = "rejected" /\ c \notin C => c.line = l BY <1>11
<1>14. ASSUME NEW c \in C, c \notin candidates \/ c.line = l PROVE Fits(c)'
  <2>1. line' = line BY <1>6 DEF Commit
  <2>2. CASE c \in offered BY <1>3, <1>7, <1>10, <2>1, <2>2 DEF Fits
  <2>3. CASE c \in candidates
    <3>1. Fits(c) BY <2>3, AllFit DEF ReviewInv, TableInv
    <3> QED BY <2>1, <3>1, FitStays
  <2> QED BY <1>11, <2>2, <2>3
<1>15. line[l].status # "approved" BY <1>7
<1>16. Decides(p, l, line, C) BY <1>6, <1>7, <1>8, <1>12, <1>13, <1>14 DEF Decides
<1> QED BY <1>6, <1>7, <1>15, <1>16, PlainCommits

\* The key a decision was asked for names a candidate of its line.
LEMMA DecisionKey ==
    ASSUME ReviewInv, NEW p \in Requests, Locked(p, "decide")
    PROVE  req[p].key \in Key /\ req[p].key.line = req[p].line
<1>1. AtSecond(p, req[p]) /\ req[p].op = "decide" BY LockedHolds
<1>2. req[p] \in Decisions /\ req[p].key.line = req[p].line
  BY <1>1 DEF AtSecond, Reviews, Edits, Decisions
<1> QED BY <1>2 DEF Decisions

LEMMA RejectCandidateKeeps ==
    ASSUME ReviewInv, NEW p \in Requests, RejectCandidate(p)
    PROVE  ReviewInv'
<1>1. TypeOK BY DEF ReviewInv
<1>2. PICK l : l = req[p].line OBVIOUS
<1>3. PICK key : key = req[p].key OBVIOUS
<1>4. PICK C : C = Mark(candidates, key, "rejected") OBVIOUS
<1>5. Locked(p, "decide") /\ Commit(p, line[l].batch, line, C) /\ ledger' = ledger
  BY <1>2, <1>3, <1>4 DEF RejectCandidate
<1>6. /\ l \in Lines /\ line[l].status = "pending"
      /\ held[<<"line", l>>] \in {p, None} /\ held[<<"batch", line[l].batch>>] \in {p, None}
  BY <1>2, <1>5, LockedHolds
<1>7. line \in [Lines -> LineRow] /\ candidates \in SUBSET Candidate BY <1>1 DEF TypeOK
<1>8. key.line = l BY <1>2, <1>3, <1>5, DecisionKey
<1>9. \A c \in C : /\ c \in Candidate
                   /\ (c \in candidates /\ KeyOf(c) # key) \/ c.status = "rejected"
  BY <1>4, <1>7, MarkMember
<1>10. C \subseteq Candidate BY <1>9
<1>11. \A c \in candidates : c.status = "rejected" /\ c \notin C => c.line = l
  <2>1. ASSUME NEW c \in candidates, c \notin C PROVE c.line = l
    <3>1. KeyOf(c) = key BY <1>4, <2>1, MarkKeeps
    <3> QED BY <1>7, <1>8, <3>1, KeyRow
  <2> QED BY <2>1
<1>12. ASSUME NEW c \in C, c \notin candidates \/ c.line = l PROVE Fits(c)'
  <2>1. line' = line BY <1>5 DEF Commit
  <2>2. CASE c.status = "rejected" BY <2>2 DEF Fits
  <2>3. CASE c \in candidates
    <3>1. Fits(c) BY <2>3, AllFit DEF ReviewInv, TableInv
    <3> QED BY <2>1, <3>1, FitStays
  <2> QED BY <1>9, <2>2, <2>3
<1>13. line[l].status # "approved" BY <1>6
<1>14. Decides(p, l, line, C) BY <1>5, <1>6, <1>7, <1>10, <1>11, <1>12 DEF Decides
<1> QED BY <1>5, <1>6, <1>13, <1>14, PlainCommits

\* An approval that has both locks.
LEMMA ApproveProceedsKeeps ==
    ASSUME ReviewInv, NEW p \in Requests, ApproveProceeds(p)
    PROVE  ReviewInv'
<1>1. TypeOK BY DEF ReviewInv
<1>2. PICK r : r = req[p] OBVIOUS
<1>3. PICK l : l = r.line OBVIOUS
<1>4. PICK k : k = Second(p) OBVIOUS
<1>5. Locked(p, "approve") BY DEF ApproveProceeds
<1>6. r.op = "approve" /\ l \in Lines /\ line[l].status = "pending" /\ AtSecond(p, r)
  BY <1>2, <1>3, <1>5, LockedHolds
<1>7. /\ r \in Reviews /\ r.found = None /\ AsSeen(r)
      /\ IF r.via = "queue" THEN HasLine(p, l) ELSE HasBatch(p, l)
  BY <1>3, <1>6 DEF AtSecond, Edits, Decisions
<1>8. k = IF r.via = "queue" THEN <<"batch", line[l].batch>> ELSE <<"line", l>>
  BY <1>2, <1>3, <1>4, <1>6 DEF Second, LineFirst
<1>9. k \in Locks BY <1>1, <1>6, <1>8, BatchOfLine, LockNames
<1>10. held[k] = None BY <1>4, <1>5 DEF Locked, Free
<1>11. held' = [held EXCEPT ![k] = p] BY <1>4 DEF ApproveProceeds, Take
<1>12. PICK step : step = IF MovementOf[line[l].payload] \in Transfers THEN "key" ELSE "settle"
  OBVIOUS
<1>13. pc' = [pc EXCEPT ![p] = step] BY <1>2, <1>3, <1>12 DEF ApproveProceeds, Go
<1>14. UNCHANGED <<batch, line, candidates, ledger, req>> BY DEF ApproveProceeds
<1>15. held' \in [Locks -> Requests \cup {None}] BY <1>1, <1>9, <1>11 DEF TypeOK
<1>16. pc' \in [Requests -> Steps] /\ pc'[p] = step BY <1>1, <1>12, <1>13 DEF TypeOK, Steps
<1>17. DOMAIN req' = Requests BY <1>1, <1>14 DEF TypeOK
<1>18. \A q \in Requests \ {p} : pc'[q] = pc[q] /\ req'[q] = req[q]
  BY <1>1, <1>13, <1>14 DEF TypeOK
<1>19. \A q \in Requests \ {p}, j \in Locks : held[j] = q => held'[j] = q
  BY <1>1, <1>10, <1>11, ImportAssumption DEF TypeOK
<1>20. held'[k] = p /\ \A j \in Locks : held[j] = p => held'[j] = p
  BY <1>1, <1>9, <1>11 DEF TypeOK
<1>21. <<"line", l>> \in Locks /\ <<"batch", line[l].batch>> \in Locks
  BY <1>1, <1>6, BatchOfLine, LockNames
<1>22. held'[<<"line", l>>] = p /\ held'[<<"batch", line[l].batch>>] = p
  BY <1>7, <1>8, <1>20, <1>21 DEF HasLine, HasBatch
<1>23. Approving(p, r)'
  BY <1>3, <1>6, <1>7, <1>14, <1>22 DEF Approving, HasLine, HasBatch, AsSeen
<1>24. step = "settle" => Settling(p, r)' BY <1>3, <1>7, <1>12, <1>14 DEF Settling
<1>25. req'[p] = r /\ step \in {"key", "settle"} BY <1>2, <1>12, <1>14
<1>26. Relies(p)' BY <1>7, <1>16, <1>23, <1>24, <1>25 DEF Relies
<1> QED BY <1>14, <1>15, <1>16, <1>17, <1>18, <1>19, <1>26, QuietStep

\* An approval that has the transfer's key has found the transfer to join, or that
\* there is none.
LEMMA FindTransferKeeps ==
    ASSUME ReviewInv, NEW p \in Requests, FindTransfer(p)
    PROVE  ReviewInv'
<1>1. TypeOK BY DEF ReviewInv
<1>2. PICK r : r = req[p] OBVIOUS
<1>3. PICK l : l = r.line OBVIOUS
<1>4. PICK k : k = TransferKey(l) OBVIOUS
<1>5. pc[p] = "key" /\ held[k] = None
  BY <1>2, <1>3, <1>4 DEF FindTransfer, Free
<1>6. Approving(p, r) /\ r.found = None BY <1>2, <1>5 DEF ReviewInv, Relies
<1>7. l \in Lines /\ r \in Reviews BY <1>3, <1>6 DEF Approving, Reviews
<1>8. k \in Locks BY <1>1, <1>4, <1>7, TransferKeyIsLock
<1>9. pc' = [pc EXCEPT ![p] = "settle"] /\ UNCHANGED <<batch, line, candidates, ledger>>
  BY DEF FindTransfer, Go
<1>10. pc' \in [Requests -> Steps] /\ pc'[p] = "settle" BY <1>1, <1>9 DEF TypeOK, Steps
<1>11. <<"line", l>> \in Locks /\ <<"batch", line[l].batch>> \in Locks
  BY <1>1, <1>7, BatchOfLine, LockNames
<1>12. held[<<"line", l>>] = p /\ held[<<"batch", line[l].batch>>] = p
  BY <1>3, <1>6 DEF Approving, HasLine, HasBatch
<1>13. line[l].status = "pending" /\ AsSeen(r) BY <1>3, <1>6 DEF Approving
<1>14. CASE Canonical(l) = {} /\ Take(p, k) /\ req' = req
  <2>1. held' = [held EXCEPT ![k] = p] BY <1>14 DEF Take
  <2>2. held' \in [Locks -> Requests \cup {None}] BY <1>1, <1>8, <2>1 DEF TypeOK
  <2>3. DOMAIN req' = Requests BY <1>1, <1>14 DEF TypeOK
  <2>4. \A q \in Requests \ {p} : pc'[q] = pc[q] /\ req'[q] = req[q]
    BY <1>1, <1>9, <1>14 DEF TypeOK
  <2>5. \A q \in Requests \ {p}, j \in Locks : held[j] = q => held'[j] = q
    BY <1>1, <1>5, <2>1, ImportAssumption DEF TypeOK
  <2>6. held'[k] = p /\ held'[<<"line", l>>] = p /\ held'[<<"batch", line[l].batch>>] = p
    BY <1>1, <1>8, <1>11, <1>12, <2>1 DEF TypeOK
  <2>7. Approving(p, r)'
    BY <1>3, <1>6, <1>9, <1>13, <2>6 DEF Approving, HasLine, HasBatch, AsSeen
  <2>8. NoneToJoin(l) BY <1>14 DEF NoneToJoin
  <2>9. NoneToJoin(l)' /\ TransferKey(l)' = k
    BY <1>4, <1>9, <2>8 DEF NoneToJoin, Twins, Live, Canonical, TransferKey
  <2>10. Settling(p, r)' BY <1>3, <1>6, <2>6, <2>9 DEF Settling
  <2>11. req'[p] = r BY <1>2, <1>14
  <2>12. Relies(p)' BY <1>10, <2>7, <2>10, <2>11 DEF Relies
  <2> QED BY <1>9, <1>10, <2>2, <2>3, <2>4, <2>5, <2>12, QuietStep
<1>15. ASSUME NEW t \in Canonical(l), held[<<"row", t>>] = None,
              held' = [held EXCEPT ![k] = p, ![<<"row", t>>] = p],
              req' = [req EXCEPT ![p].found = t]
       PROVE  ReviewInv'
  <2>1. t \in Rows /\ Live(t) BY DEF Canonical, Twins
  <2>2. <<"row", t>> \in Locks BY <2>1, LockNames
  <2>3. PICK j : j = <<"row", t>> OBVIOUS
  <2>4. held' = [held EXCEPT ![k] = p, ![j] = p] /\ j \in Locks /\ held[j] = None
    BY <1>15, <2>2, <2>3
  <2>5. held' \in [Locks -> Requests \cup {None}] BY <1>1, <1>8, <2>4 DEF TypeOK
  <2>6. PICK row : row = [r EXCEPT !.found = t] OBVIOUS
  <2>7. req' = [req EXCEPT ![p] = row] BY <1>2, <1>15, <2>6
  <2>8. DOMAIN req' = Requests /\ req'[p] = row BY <1>1, <2>7 DEF TypeOK
  <2>9. \A q \in Requests \ {p} : pc'[q] = pc[q] /\ req'[q] = req[q]
    BY <1>1, <1>9, <2>7 DEF TypeOK
  <2>10. \A q \in Requests \ {p}, i \in Locks : held[i] = q => held'[i] = q
    BY <1>1, <1>5, <2>4, ImportAssumption DEF TypeOK
  <2>11. held'[<<"line", l>>] = p /\ held'[<<"batch", line[l].batch>>] = p
    BY <1>1, <1>8, <1>11, <1>12, <2>4 DEF TypeOK
  <2>12. /\ row \in Reviews /\ row.op = r.op /\ row.line = l /\ row.via = r.via
         /\ row.seen = r.seen /\ row.found = t
    BY <1>3, <1>7, <2>1, <2>6 DEF Reviews
  <2>13. Approving(p, row)'
    BY <1>3, <1>6, <1>9, <1>13, <2>11, <2>12 DEF Approving, HasLine, HasBatch, AsSeen
  <2>14. t # None BY <2>1, ImportAssumption DEF Rows
  <2>15. ledger'[t].status # "none" BY <1>9, <2>1 DEF Live
  <2>16. Settling(p, row)' BY <2>12, <2>14, <2>15 DEF Settling
  <2>17. Relies(p)' BY <1>10, <2>8, <2>13, <2>16 DEF Relies
  <2> QED BY <1>9, <1>10, <2>5, <2>8, <2>9, <2>10, <2>17, QuietStep
<1> QED BY <1>2, <1>3, <1>4, <1>14, <1>15 DEF FindTransfer, Free

-----------------------------------------------------------------------------
(* The commits that change the ledger.                                     *)

\* A line that is approved with the target t, its row otherwise the same.
LEMMA ApprovedRow ==
    ASSUME TypeOK, NEW l \in Lines, NEW t \in Rows, NEW L,
           L = [line EXCEPT ![l].status = "approved", ![l].target = t]
    PROVE  /\ L \in [Lines -> LineRow]
           /\ L[l].status = "approved" /\ L[l].target = t /\ L[l].batch = line[l].batch
           /\ \A k \in Lines : k # l => L[k] = line[k]
<1>1. line[l] \in LineRow BY DEF TypeOK
<1>2. PICK half : half = [line[l] EXCEPT !.status = "approved"] OBVIOUS
<1>3. half \in LineRow /\ half.status = "approved" /\ half.batch = line[l].batch
  BY <1>1, <1>2 DEF LineRow
<1>4. PICK row : row = [half EXCEPT !.target = t] OBVIOUS
<1>5. row \in LineRow /\ row.status = "approved" /\ row.batch = line[l].batch /\ row.target = t
  BY <1>3, <1>4 DEF LineRow
<1>6. PICK M : M = [line EXCEPT ![l].status = "approved"] OBVIOUS
<1>7. M = [line EXCEPT ![l] = half] BY <1>2, <1>6
<1>8. M[l] = half /\ DOMAIN M = Lines /\ \A k \in Lines : k # l => M[k] = line[k]
  BY <1>7 DEF TypeOK
<1>9. L = [M EXCEPT ![l].target = t] BY <1>6
<1>10. L = [M EXCEPT ![l] = row] BY <1>4, <1>8, <1>9
<1>11. L[l] = row /\ \A k \in Lines : k # l => L[k] = line[k] BY <1>8, <1>10
<1>12. L \in [Lines -> LineRow] BY <1>5, <1>7, <1>10, <1>3 DEF TypeOK
<1> QED BY <1>5, <1>11, <1>12

LEMMA ChangedRow ==
    ASSUME NEW row \in Row, row.rev < MaxRev,
           NEW status \in {"posted", "reconciled", "voided"},
           NEW movement \in Movements \cup {None}
    PROVE  /\ Changed(row, status, movement) \in Row
           /\ Changed(row, status, movement).status = status
           /\ Changed(row, status, movement).rev # 0
<1>1. MaxRev \in Nat BY ImportAssumption
<1>2. row.rev \in 0 .. MaxRev BY DEF Row
<1>3. row.rev + 1 \in 0 .. MaxRev /\ row.rev + 1 # 0 BY <1>1, <1>2
<1> QED BY <1>3 DEF Changed, Row

LEMMA ReconciledRow ==
    ASSUME TypeOK, NEW t \in Rows, ledger[t].rev < MaxRev, ledger' = Reconciled(t)
    PROVE  /\ ledger' \in [Rows -> Row]
           /\ ledger'[t].status = "reconciled"
           /\ \A u \in Rows : u # t => ledger'[u] = ledger[u]
           /\ \A u \in Rows : ledger'[u] # ledger[u] => ledger'[u].rev # 0
<1>1. ledger[t] \in Row BY DEF TypeOK
<1>2. CASE ledger[t].status = "reconciled"
  <2>1. ledger' = ledger BY <1>2 DEF Reconciled
  <2> QED BY <1>2, <2>1 DEF TypeOK
<1>3. CASE ledger[t].status # "reconciled"
  <2>1. PICK row : row = Changed(ledger[t], "reconciled", ledger[t].movement) OBVIOUS
  <2>2. ledger[t].movement \in Movements \cup {None} BY <1>1 DEF Row
  <2>3. row \in Row /\ row.status = "reconciled" /\ row.rev # 0
    BY <1>1, <2>1, <2>2, ChangedRow
  <2>4. ledger' = [ledger EXCEPT ![t] = row] BY <1>3, <2>1 DEF Reconciled
  <2> QED BY <2>3, <2>4 DEF TypeOK
<1> QED BY <1>2, <1>3

\* A pending line has no transaction, and so nobody's target is one of its own.
LEMMA PendingHasNone ==
    ASSUME OneEffectPerLine, NEW l \in Lines, line[l].status = "pending"
    PROVE  /\ line[l].target = None /\ ledger[l].status = "none"
           /\ \A k \in Lines : line[k].target # l
<1>1. l # None BY ImportAssumption
<1>2. line[l].target = None /\ ledger[l].status = "none" BY <1>1 DEF OneEffectPerLine
<1>3. ASSUME NEW k \in Lines, line[k].target = l PROVE FALSE
  <2>1. k # l BY <1>1, <1>2, <1>3
  <2>2. ledger[l].status \in {"reconciled", "voided"} BY <1>1, <1>3, <2>1 DEF OneEffectPerLine
  <2> QED BY <1>2, <2>2
<1> QED BY <1>2, <1>3

\* The line joins the transaction t, which is there.
LEMMA JoinsOne ==
    ASSUME TypeOK, OneEffectPerLine, NEW l \in Lines, line[l].status = "pending",
           NEW t \in Rows, ledger[t].status # "none", ledger[t].rev < MaxRev,
           ledger' = Reconciled(t),
           \A k \in Lines : k # l => line'[k] = line[k],
           line'[l].status = "approved", line'[l].target = t
    PROVE  OneEffectPerLine'
<1>1. t # None /\ l \in Rows BY ImportAssumption DEF Rows
<1>2. line[l].target = None /\ ledger[l].status = "none" BY PendingHasNone
<1>3. t # l BY <1>2
<1>4. /\ ledger'[t].status = "reconciled"
      /\ \A u \in Rows : u # t => ledger'[u] = ledger[u]
  BY ReconciledRow
<1>5. ASSUME NEW k \in Lines
      PROVE  /\ line'[k].status = "approved" <=> line'[k].target # None
             /\ ledger'[k].status # "none" <=> line'[k].target = k
             /\ line'[k].target \notin {None, k} =>
                   ledger'[line'[k].target].status \in {"reconciled", "voided"}
  <2>1. CASE k = l BY <1>1, <1>2, <1>3, <1>4, <2>1
  <2>2. CASE k # l
    <3>1. line'[k] = line[k] BY <2>2
    <3>2. /\ line[k].status = "approved" <=> line[k].target # None
          /\ ledger[k].status # "none" <=> line[k].target = k
          /\ line[k].target \notin {None, k} =>
                ledger[line[k].target].status \in {"reconciled", "voided"}
      BY DEF OneEffectPerLine
    <3>3. k \in Rows BY DEF Rows
    <3>4. line[k].target \in Rows \cup {None} BY DEF TypeOK, LineRow
    <3>5. \A u \in Rows : ledger'[u] = ledger[u] \/ (u = t /\ ledger'[u].status = "reconciled")
      BY <1>4
    <3> QED BY <3>1, <3>2, <3>3, <3>4, <3>5
  <2> QED BY <2>1, <2>2
<1> QED BY <1>5 DEF OneEffectPerLine

\* The line becomes a transaction.
LEMMA BecomesOne ==
    ASSUME TypeOK, OneEffectPerLine, NEW l \in Lines, line[l].status = "pending",
           NEW row \in Row, row.status = "posted", ledger' = [ledger EXCEPT ![l] = row],
           \A k \in Lines : k # l => line'[k] = line[k],
           line'[l].status = "approved", line'[l].target = l
    PROVE  OneEffectPerLine'
<1>1. l # None /\ l \in Rows BY ImportAssumption DEF Rows
<1>2. \A k \in Lines : line[k].target # l BY PendingHasNone
<1>3. ledger'[l].status = "posted" /\ \A u \in Rows : u # l => ledger'[u] = ledger[u]
  BY <1>1 DEF TypeOK
<1>4. ASSUME NEW k \in Lines
      PROVE  /\ line'[k].status = "approved" <=> line'[k].target # None
             /\ ledger'[k].status # "none" <=> line'[k].target = k
             /\ line'[k].target \notin {None, k} =>
                   ledger'[line'[k].target].status \in {"reconciled", "voided"}
  <2>1. CASE k = l BY <1>1, <1>3, <2>1
  <2>2. CASE k # l
    <3>1. line'[k] = line[k] BY <2>2
    <3>2. /\ line[k].status = "approved" <=> line[k].target # None
          /\ ledger[k].status # "none" <=> line[k].target = k
          /\ line[k].target \notin {None, k} =>
                ledger[line[k].target].status \in {"reconciled", "voided"}
      BY DEF OneEffectPerLine
    <3>3. k \in Rows BY DEF Rows
    <3>4. line[k].target \in Rows \cup {None} /\ line[k].target # l BY <1>2 DEF TypeOK, LineRow
    <3> QED BY <1>3, <2>2, <3>1, <3>2, <3>3, <3>4
  <2> QED BY <2>1, <2>2
<1> QED BY <1>4 DEF OneEffectPerLine

\* What a settlement starts from.
LEMMA SettleHas ==
    ASSUME ReviewInv, NEW p \in Requests, pc[p] = "settle", NEW r, r = req[p]
    PROVE  /\ r \in Reviews /\ r.line \in Lines /\ r.found \in Rows \cup {None}
           /\ Approving(p, r) /\ Settling(p, r)
           /\ line[r.line].status = "pending"
           /\ held[<<"line", r.line>>] = p /\ held[<<"batch", line[r.line].batch>>] = p
<1>1. Approving(p, r) /\ Settling(p, r) BY DEF ReviewInv, Relies
<1> QED BY <1>1 DEF Approving, Reviews, HasLine, HasBatch

LEMMA SettleKeeps ==
    ASSUME ReviewInv, NEW p \in Requests, Settle(p)
    PROVE  ReviewInv'
<1>1. TypeOK /\ OneEffectPerLine BY DEF ReviewInv, TableInv
<1>2. PICK r : r = req[p] OBVIOUS
<1>3. PICK l : l = r.line OBVIOUS
<1>4. PICK t : t = IF r.found = None THEN l ELSE r.found OBVIOUS
<1>5. PICK L : L = [line EXCEPT ![l].status = "approved", ![l].target = t] OBVIOUS
<1>6. PICK C : C = Expired(candidates, l, {}) OBVIOUS
<1>7. PICK new : new = [status |-> "posted", rev |-> 0, movement |-> MovementOf[line[l].payload]]
  OBVIOUS
<1>8. pc[p] = "settle" /\ ledger[t].rev < MaxRev /\ Commit(p, line[l].batch, L, C)
  BY <1>2, <1>3, <1>4, <1>5, <1>6 DEF Settle
<1>9. ledger' = IF r.found = None THEN [ledger EXCEPT ![l] = new] ELSE Reconciled(t)
  BY <1>2, <1>3, <1>4, <1>7 DEF Settle
<1>10. /\ r.found \in Rows \cup {None} /\ l \in Lines /\ line[l].status = "pending"
       /\ held[<<"line", l>>] \in {p, None} /\ held[<<"batch", line[l].batch>>] \in {p, None}
       /\ Settling(p, r)
  BY <1>2, <1>3, <1>8, SettleHas
<1>11. t \in Rows /\ l \in Rows BY <1>4, <1>10 DEF Rows
<1>12. L \in [Lines -> LineRow] /\ L[l].batch = line[l].batch BY <1>1, <1>5, <1>10, <1>11, ApprovedRow
<1>13. \A k \in Lines : k # l => L[k] = line[k] BY <1>1, <1>5, <1>10, <1>11, ApprovedRow
<1>14. L[l].status = "approved" /\ L[l].target = t BY <1>1, <1>5, <1>10, <1>11, ApprovedRow
<1>15. line' = L BY <1>8 DEF Commit
<1>16. C \subseteq Candidate BY <1>1, <1>6, ExpiredTyped
<1>17. \A c \in candidates : c.status = "rejected" /\ c \notin C => c.line = l
  BY <1>1, <1>6, ExpiredTyped
<1>18. ASSUME NEW c \in C, c \notin candidates \/ c.line = l PROVE Fits(c)'
  <2>1. c.status \in {"rejected", "expired"} BY <1>6, <1>10, <1>18, ClosedCandidates
  <2> QED BY <2>1 DEF Fits
<1>19. Decides(p, l, L, C)
  BY <1>8, <1>10, <1>12, <1>13, <1>16, <1>17, <1>18 DEF Decides
<1>20. CASE r.found = None
  <2>1. t = l /\ ledger' = [ledger EXCEPT ![l] = new] BY <1>4, <1>9, <1>20
  <2>2. MovementOf[line[l].payload] \in Movements BY <1>1, <1>10, TransferKeyIsLock
  <2>3. new \in Row /\ new.status = "posted" /\ new.movement = MovementOf[line[l].payload]
    BY <1>7, <2>2, ImportAssumption DEF Row
  <2>4. ledger' \in [Rows -> Row] BY <1>1, <1>11, <2>1, <2>3 DEF TypeOK
  <2>5. OneEffectPerLine'
    BY <1>1, <1>10, <1>13, <1>14, <1>15, <2>1, <2>3, BecomesOne
  <2>6. ledger'[l] = new /\ \A u \in Rows : u # l => ledger'[u] = ledger[u]
    BY <1>1, <1>11, <2>1 DEF TypeOK
  <2>7. \A u \in Rows : ledger[u].status # "none" => ledger'[u].status # "none"
    BY <2>3, <2>6
  <2>8. ASSUME NEW u \in Lines, ledger'[u] # ledger[u], ledger'[u].movement \in Transfers
        PROVE  held[<<"transfer", ledger'[u].movement>>] \in {p, None}
    <3>1. u \in Rows BY DEF Rows
    <3>2. u = l BY <2>6, <2>8, <3>1
    <3>3. ledger'[u].movement = MovementOf[line[l].payload] BY <2>3, <2>6, <3>2
    <3>4. held[TransferKey(l)] = p BY <1>3, <1>10, <1>20, <2>8, <3>3 DEF Settling
    <3> QED BY <3>3, <3>4 DEF TransferKey
  <2>9. LedgerFreely(p) BY <2>7, <2>8 DEF LedgerFreely
  <2> QED BY <1>10, <1>19, <2>4, <2>5, <2>9, DecisionCommits
<1>21. CASE r.found # None
  <2>1. t = r.found /\ ledger' = Reconciled(t) BY <1>4, <1>9, <1>21
  <2>2. ledger[t].status # "none" BY <1>10, <1>21, <2>1 DEF Settling
  <2>3. ledger' \in [Rows -> Row] BY <1>1, <1>8, <1>11, <2>1, ReconciledRow
  <2>4. ledger'[t].status = "reconciled" /\ \A u \in Rows : u # t => ledger'[u] = ledger[u]
    BY <1>1, <1>8, <1>11, <2>1, ReconciledRow
  <2>5. \A u \in Rows : ledger'[u] # ledger[u] => ledger'[u].rev # 0
    BY <1>1, <1>8, <1>11, <2>1, ReconciledRow
  <2>6. OneEffectPerLine'
    BY <1>1, <1>8, <1>10, <1>11, <1>13, <1>14, <1>15, <2>1, <2>2, JoinsOne
  <2>7. \A u \in Rows : ledger[u].status # "none" => ledger'[u].status # "none" BY <2>4
  <2>8. LedgerFreely(p) BY <2>5, <2>7 DEF LedgerFreely, Rows
  <2> QED BY <1>10, <1>19, <2>3, <2>6, <2>8, DecisionCommits
<1> QED BY <1>20, <1>21

\* Confirming a candidate closes the others of its line; the confirmed one fits the
\* line as the decision leaves it.
LEMMA ApproveCandidateKeeps ==
    ASSUME ReviewInv, NEW p \in Requests, ApproveCandidate(p)
    PROVE  ReviewInv'
<1>1. TypeOK /\ OneEffectPerLine BY DEF ReviewInv, TableInv
<1>2. PICK key : key = req[p].key OBVIOUS
<1>3. PICK l : l = key.line OBVIOUS
<1>4. PICK E : E = Expired(candidates, l, {key}) OBVIOUS
<1>5. PICK C : C = Mark(E, key, "approved") OBVIOUS
<1>6. Locked(p, "decide") /\ TargetAccepts(key) BY <1>2 DEF ApproveCandidate
<1>7. key \in Key /\ key.line = req[p].line BY <1>2, <1>6, DecisionKey
<1>8. /\ l \in Lines /\ line[l].status = "pending"
      /\ held[<<"line", l>>] \in {p, None} /\ held[<<"batch", line[l].batch>>] \in {p, None}
  BY <1>3, <1>6, <1>7, LockedHolds
<1>9. E \in SUBSET Candidate BY <1>1, <1>4, ExpiredTyped
<1>10. \A c \in C : /\ c \in Candidate
                    /\ \/ c \in E /\ KeyOf(c) # key
                       \/ c.status = "approved" /\ KeyOf(c) = key
  BY <1>5, <1>9, MarkMember
<1>11. C \subseteq Candidate BY <1>10
<1>12. \A c \in candidates : c.status = "rejected" /\ c \notin C => c.line = l
  <2>1. ASSUME NEW c \in candidates, c.status = "rejected", c \notin C PROVE c.line = l
    <3>1. c \in E BY <1>1, <1>4, <2>1, ExpiredTyped
    <3>2. KeyOf(c) = key BY <1>5, <2>1, <3>1, MarkKeeps
    <3>3. c \in Candidate BY <1>1 DEF TypeOK
    <3> QED BY <1>3, <3>2, <3>3, KeyRow
  <2> QED BY <2>1
<1>13. ASSUME NEW c \in C, c \notin candidates \/ c.line = l
       PROVE  \/ c.status \in {"rejected", "expired"}
              \/ c.status = "approved" /\ c.line = l /\ c.kind = key.kind /\ c.target = key.target
  <2>1. CASE c \in E /\ KeyOf(c) # key
    <3>1. c.status \in {"rejected", "expired"} \/ (c.status = "pending" /\ KeyOf(c) \in {key})
      BY <1>4, <1>8, <1>13, <2>1, ClosedCandidates
    <3> QED BY <2>1, <3>1
  <2>2. CASE c.status = "approved" /\ KeyOf(c) = key
    <3>1. c \in Candidate BY <1>10
    <3> QED BY <1>3, <2>2, <3>1, KeyRow
  <2> QED BY <1>10, <2>1, <2>2
<1>14. key.kind \in Kinds /\ key.target \in Rows BY <1>7 DEF Key
<1>15. CASE key.kind = "deduplication"
  <2>1. PICK L : L = [line EXCEPT ![l].status = "rejected"] OBVIOUS
  <2>2. Commit(p, line[l].batch, L, C) /\ ledger' = ledger
    BY <1>2, <1>3, <1>4, <1>5, <1>15, <2>1 DEF ApproveCandidate
  <2>3. L \in [Lines -> LineRow] BY <1>1, <1>8, <2>1, RejectedRow
  <2>4. /\ L[l].status = "rejected" /\ L[l].batch = line[l].batch
        /\ L[l].target = line[l].target
    BY <1>1, <1>8, <2>1, RejectedRow
  <2>5. L[l].status # "approved" BY <2>4
  <2>6. \A k \in Lines : k # l => L[k] = line[k] BY <1>1, <1>8, <2>1, RejectedRow
  <2>7. ASSUME NEW c \in C, c \notin candidates \/ c.line = l PROVE Fits(c)'
    <3>1. line'[l].status = "rejected" BY <2>2, <2>4 DEF Commit
    <3> QED BY <1>13, <1>15, <2>7, <3>1 DEF Fits
  <2>8. Decides(p, l, L, C)
    BY <1>8, <1>11, <1>12, <2>2, <2>3, <2>4, <2>6, <2>7 DEF Decides
  <2> QED BY <1>8, <2>2, <2>4, <2>5, <2>8, PlainCommits
<1>16. CASE key.kind = "reconciliation"
  <2>1. PICK t : t = key.target OBVIOUS
  <2>2. PICK L : L = [line EXCEPT ![l].status = "approved", ![l].target = t] OBVIOUS
  <2>3. Commit(p, line[l].batch, L, C) /\ ledger[t].rev < MaxRev /\ ledger' = Reconciled(t)
    BY <1>2, <1>3, <1>4, <1>5, <1>16, <2>1, <2>2 DEF ApproveCandidate
  <2>4. t \in Rows /\ ledger[t].status # "none"
    BY <1>6, <1>14, <2>1 DEF TargetAccepts, Live
  <2>5. L \in [Lines -> LineRow] /\ L[l].batch = line[l].batch
    BY <1>1, <1>8, <2>2, <2>4, ApprovedRow
  <2>6. L[l].status = "approved" /\ L[l].target = t BY <1>1, <1>8, <2>2, <2>4, ApprovedRow
  <2>7. \A k \in Lines : k # l => L[k] = line[k] BY <1>1, <1>8, <2>2, <2>4, ApprovedRow
  <2>8. line' = L BY <2>3 DEF Commit
  <2>9. ASSUME NEW c \in C, c \notin candidates \/ c.line = l PROVE Fits(c)'
    BY <1>13, <1>16, <2>1, <2>6, <2>8, <2>9 DEF Fits
  <2>10. ledger' \in [Rows -> Row] BY <1>1, <2>3, <2>4, ReconciledRow
  <2>11. ledger'[t].status = "reconciled" /\ \A u \in Rows : u # t => ledger'[u] = ledger[u]
    BY <1>1, <2>3, <2>4, ReconciledRow
  <2>12. \A u \in Rows : ledger'[u] # ledger[u] => ledger'[u].rev # 0
    BY <1>1, <2>3, <2>4, ReconciledRow
  <2>13. OneEffectPerLine' BY <1>1, <1>8, <2>3, <2>4, <2>6, <2>7, <2>8, JoinsOne
  <2>14. LedgerFreely(p) BY <2>11, <2>12 DEF LedgerFreely, Rows
  <2>15. Decides(p, l, L, C)
    BY <1>8, <1>11, <1>12, <2>3, <2>5, <2>7, <2>9 DEF Decides
  <2> QED BY <1>8, <2>10, <2>13, <2>14, <2>15, DecisionCommits
<1> QED BY <1>14, <1>15, <1>16 DEF Kinds

\* The scan adds candidates of a content the line still has, and takes away only open
\* ones.
LEMMA ScanKeeps ==
    ASSUME ReviewInv, NEW p \in Requests, Scan(p)
    PROVE  ReviewInv'
<1>1. TypeOK /\ TableInv BY DEF ReviewInv
<1>2. PICK l : l = req[p].line OBVIOUS
<1>3. PICK saw : saw = req[p].saw OBVIOUS
<1>4. PICK wanted : wanted = IF batch[line[l].batch] = "reviewing" THEN Wanted(l, saw) ELSE {}
  OBVIOUS
<1>5. PICK stale : stale = {c \in candidates :
                    /\ c.line = l
                    /\ c.status = "pending"
                    /\ ~ \E d \in wanted : KeyOf(d) = KeyOf(c) /\ saw[c.target].rev <= c.seen}
  OBVIOUS
<1>6. PICK swept : swept = {IF c.status = "pending" /\ line[c.line].status # "pending"
                            THEN [c EXCEPT !.status = "expired"] ELSE c : c \in candidates \ stale}
  OBVIOUS
<1>7. /\ Locked(p, "scan") /\ candidates' = Insert(swept, wanted) /\ End(p)
      /\ UNCHANGED <<batch, line, ledger>>
  BY <1>2, <1>3, <1>4, <1>5, <1>6 DEF Scan
<1>8. l \in Lines /\ line[l].status = "pending" BY <1>2, <1>7, LockedHolds
<1>9. DOMAIN saw \subseteq Rows
  <2>1. AtSecond(p, req[p]) /\ req[p].op = "scan" BY <1>7, LockedHolds
  <2> QED BY <1>3, <2>1 DEF AtSecond, Reviews, Edits, Decisions
<1>10. candidates \in SUBSET Candidate /\ line[l].payload \in Payloads
  BY <1>1, <1>8 DEF TypeOK, LineRow
<1>11. ASSUME NEW c \in wanted
       PROVE  c \in Candidate /\ c.status = "pending" /\ c.line = l /\ c.payload = line[l].payload
  <2>1. c \in Wanted(l, saw) BY <1>4
  <2>2. PICK kind \in Kinds, t \in DOMAIN saw : c = Proposal(l, line[l].payload, kind, t)
    BY <2>1 DEF Wanted, Kinds
  <2>3. t \in Rows BY <1>9
  <2> QED BY <1>1, <1>8, <1>10, <2>2, <2>3, ProposalRow
<1>12. ASSUME NEW c \in swept
       PROVE  c \in Candidate /\ (c \in candidates \/ c.status = "expired")
  <2>1. PICK d \in candidates : c = IF d.status = "pending" /\ line[d.line].status # "pending"
                                    THEN [d EXCEPT !.status = "expired"] ELSE d
    BY <1>6
  <2>2. d \in Candidate BY <1>10
  <2>3. CASE c = d BY <2>2, <2>3
  <2>4. CASE c = [d EXCEPT !.status = "expired"] BY <2>2, <2>4 DEF Candidate
  <2> QED BY <2>1, <2>3, <2>4
<1>13. candidates' \subseteq swept \cup wanted /\ swept \subseteq candidates' BY <1>7, InsertMember
<1>14. TablesOK'
  <2>1. candidates' \subseteq Candidate BY <1>11, <1>12, <1>13
  <2> QED BY <1>1, <1>7, <2>1 DEF TypeOK, TablesOK
<1>15. TableInv'
  <2>1. OneEffectPerLine' BY <1>1, <1>7, EffectsStay DEF TableInv
  <2>2. DiscardedHasNoEffect' BY <1>1, <1>7 DEF TableInv, DiscardedHasNoEffect
  <2>3. ASSUME NEW c \in swept \cup wanted PROVE Fits(c)'
    <3>1. CASE c \in wanted BY <1>7, <1>8, <1>11, <3>1 DEF Fits
    <3>2. CASE c \in swept /\ c \in candidates
      <4>1. Fits(c) BY <1>1, <3>2, AllFit DEF TableInv
      <4> QED BY <1>7, <4>1, FitStays
    <3>3. CASE c \in swept /\ c.status = "expired" BY <3>3 DEF Fits
    <3> QED BY <1>12, <3>1, <3>2, <3>3
  <2>4. \A c \in candidates' : Fits(c)' BY <1>13, <2>3
  <2>5. NothingLeftToReview' BY <2>4 DEF NothingLeftToReview, Fits
  <2> QED BY <2>1, <2>2, <2>5 DEF TableInv
<1>16. WritesFreely(p)
  <2>1. ASSUME NEW c \in candidates, c.status = "rejected" PROVE c \in candidates'
    <3>1. c \notin stale BY <1>5, <2>1
    <3>2. c \in swept BY <1>6, <2>1, <3>1
    <3> QED BY <1>13, <3>2
  <2>2. LedgerFreely(p) BY <1>7 DEF LedgerFreely
  <2> QED BY <1>7, <2>1, <2>2 DEF WritesFreely
<1> QED BY <1>7, <1>14, <1>15, <1>16, EndStep

\* A discard rejects what is pending in a batch where nothing is approved.
LEMMA DiscardKeeps ==
    ASSUME ReviewInv, NEW p \in Requests, Discard(p)
    PROVE  ReviewInv'
<1>1. TypeOK /\ TableInv BY DEF ReviewInv
<1>2. PICK b : b = req[p].batch OBVIOUS
<1>3. PICK open : open = {l \in Lines : line[l].batch = b /\ line[l].status = "pending"} OBVIOUS
<1>4. /\ pc[p] = "discard" /\ \A l \in open : Free(<<"line", l>>)
      /\ line' = [l \in Lines |-> IF l \in open THEN [line[l] EXCEPT !.status = "rejected"]
                                  ELSE line[l]]
      /\ batch' = [batch EXCEPT ![b] = "discarded"]
      /\ End(p) /\ ledger' = ledger
  BY <1>2, <1>3 DEF Discard
<1>5. candidates' = {IF line[c.line].batch = b /\ c.status = "pending"
                     THEN [c EXCEPT !.status = "expired"] ELSE c : c \in candidates}
  BY <1>2 DEF Discard
<1>6. b \in Batches /\ \A l \in Lines : line[l].batch = b => line[l].status # "approved"
  BY <1>2, <1>4 DEF ReviewInv, Relies, Discarding, Discards
<1>7. ASSUME NEW l \in Lines
      PROVE  /\ line'[l] \in LineRow /\ line'[l].batch = line[l].batch
             /\ line'[l].target = line[l].target
             /\ l \notin open => line'[l] = line[l]
             /\ l \in open => line'[l].status = "rejected"
  <2>1. line[l] \in LineRow BY <1>1 DEF TypeOK
  <2>2. CASE l \in open
    <3>1. line'[l] = [line[l] EXCEPT !.status = "rejected"] BY <1>4, <2>2
    <3> QED BY <2>1, <2>2, <3>1 DEF LineRow
  <2>3. CASE l \notin open
    <3>1. line'[l] = line[l] BY <1>4, <2>3
    <3> QED BY <2>1, <2>3, <3>1
  <2> QED BY <2>2, <2>3
<1>8. candidates \in SUBSET Candidate BY <1>1 DEF TypeOK
<1>9. ASSUME NEW c \in candidates'
      PROVE  /\ c \in Candidate
             /\ \/ c.status = "expired"
                \/ c \in candidates /\ (line[c.line].batch = b => c.status # "pending")
  <2>1. PICK d \in candidates : c = IF line[d.line].batch = b /\ d.status = "pending"
                                    THEN [d EXCEPT !.status = "expired"] ELSE d
    BY <1>5
  <2>2. d \in Candidate BY <1>8
  <2>3. CASE line[d.line].batch = b /\ d.status = "pending"
    <3>1. c = [d EXCEPT !.status = "expired"] BY <2>1, <2>3
    <3> QED BY <2>2, <3>1 DEF Candidate
  <2>4. CASE ~ (line[d.line].batch = b /\ d.status = "pending")
    <3>1. c = d BY <2>1, <2>4
    <3> QED BY <2>2, <2>4, <3>1
  <2> QED BY <2>3, <2>4
<1>10. TablesOK'
  <2>1. line' \in [Lines -> LineRow]
    <3>1. PICK L : L = line' OBVIOUS
    <3>2. DOMAIN L = Lines /\ \A l \in Lines : L[l] = line'[l] BY <1>4, <3>1
    <3>3. line' = [l \in Lines |-> line'[l]] BY <1>4
    <3> QED BY <1>7, <3>3
  <2>2. batch' \in [Batches -> {"reviewing", "completed", "discarded"}]
    BY <1>1, <1>4 DEF TypeOK
  <2>3. candidates' \subseteq Candidate BY <1>9
  <2>4. ledger' \in [Rows -> Row] BY <1>1, <1>4 DEF TypeOK
  <2> QED BY <2>1, <2>2, <2>3, <2>4 DEF TablesOK
<1>11. TableInv'
  <2>1. OneEffectPerLine'
    <3>1. \A l \in Lines : line'[l].status = "approved" <=> line[l].status = "approved"
      BY <1>3, <1>7
    <3> QED BY <1>1, <1>4, <1>7, <3>1, EffectsStay DEF TableInv
  <2>2. ASSUME NEW l \in Lines, batch'[line'[l].batch] = "discarded"
        PROVE  line'[l].status = "rejected"
    <3>1. CASE line[l].batch = b
      <4>1. line[l].status \in {"pending", "rejected"} BY <1>1, <1>6, <3>1 DEF TypeOK, LineRow
      <4> QED BY <1>3, <1>7, <3>1, <4>1
    <3>2. CASE line[l].batch # b
      <4>1. line[l].batch \in Batches BY <1>1, BatchOfLine
      <4>2. batch[line[l].batch] = "discarded" BY <1>1, <1>4, <1>7, <2>2, <3>2, <4>1 DEF TypeOK
      <4>3. line[l].status = "rejected" BY <1>1, <4>2 DEF TableInv, DiscardedHasNoEffect
      <4> QED BY <1>3, <1>7, <3>2, <4>3
    <3> QED BY <3>1, <3>2
  <2>3. DiscardedHasNoEffect' BY <2>2 DEF DiscardedHasNoEffect
  <2>4. ASSUME NEW c \in candidates' PROVE Fits(c)'
    <3>1. CASE c.status = "expired" BY <3>1 DEF Fits
    <3>2. CASE c \in candidates /\ (line[c.line].batch = b => c.status # "pending")
      <4>1. Fits(c) BY <1>1, <3>2, AllFit DEF TableInv
      <4>2. c.line \in Lines BY <1>8, <3>2 DEF Candidate
      <4>3. CASE c.status \in {"pending", "approved"}
        <5>1. c.line \notin open BY <1>3, <3>2, <4>1, <4>3 DEF Fits
        <5> QED BY <1>7, <4>1, <4>2, <5>1, FitStays
      <4>4. CASE c.status \notin {"pending", "approved"} BY <4>4 DEF Fits
      <4> QED BY <4>3, <4>4
    <3> QED BY <1>9, <3>1, <3>2
  <2>5. NothingLeftToReview' BY <2>4 DEF NothingLeftToReview, Fits
  <2> QED BY <2>1, <2>3, <2>5 DEF TableInv
<1>12. WritesFreely(p)
  <2>1. ASSUME NEW c \in candidates, c.status = "rejected" PROVE c \in candidates'
    BY <1>5, <2>1
  <2>2. LedgerFreely(p) BY <1>4 DEF LedgerFreely
  <2>3. \A k \in Lines : line'[k] # line[k] => held[<<"line", k>>] \in {p, None}
    BY <1>4, <1>7 DEF Free
  <2>4. \A k \in Lines : line'[k].status = "approved" => line[k].status = "approved" BY <1>7
  <2> QED BY <1>7, <2>1, <2>2, <2>3, <2>4 DEF WritesFreely
<1> QED BY <1>4, <1>10, <1>11, <1>12, EndStep

LEMMA RefreshKeeps ==
    ASSUME ReviewInv, NEW p \in Requests, Refresh(p)
    PROVE  ReviewInv'
<1>1. TypeOK /\ TableInv BY DEF ReviewInv
<1>2. PICK r : r = req[p] OBVIOUS
<1>3. /\ pc[p] = "write" /\ batch' = [batch EXCEPT ![r.batch] = r.verdict] /\ End(p)
      /\ UNCHANGED <<line, candidates, ledger>>
  BY <1>2 DEF Refresh
<1>4. r.batch \in Batches /\ r.verdict \in {"reviewing", "completed"}
  BY <1>2, <1>3 DEF ReviewInv, Relies, Refreshes
<1>5. TablesOK' BY <1>1, <1>3, <1>4 DEF TypeOK, TablesOK
<1>6. DiscardedHasNoEffect'
  <2> SUFFICES ASSUME NEW l \in Lines, batch'[line[l].batch] = "discarded"
               PROVE  line[l].status = "rejected"
    BY <1>3 DEF DiscardedHasNoEffect
  <2>1. line[l].batch \in Batches BY <1>1, BatchOfLine
  <2>2. batch[line[l].batch] = "discarded" BY <1>1, <1>3, <1>4, <2>1 DEF TypeOK
  <2> QED BY <1>1, <2>2 DEF TableInv, DiscardedHasNoEffect
<1>7. TableInv'
  BY <1>1, <1>3, <1>6 DEF TableInv, OneEffectPerLine, NothingLeftToReview
<1>8. WritesFreely(p) BY <1>3, FreelyUnwritten
<1> QED BY <1>3, <1>5, <1>7, <1>8, EndStep

\* Outside the review a transaction changes, and with it its revision.
LEMMA ChangeEntryKeeps == ReviewInv /\ ChangeEntry => ReviewInv'
<1> SUFFICES ASSUME ReviewInv, ChangeEntry PROVE ReviewInv' OBVIOUS
<1>1. TypeOK /\ TableInv BY DEF ReviewInv
<1>2. UNCHANGED <<batch, line, candidates, held, pc, req>> BY DEF ChangeEntry
<1>3. PICK t \in Rows : /\ Live(t) /\ ledger[t].rev < MaxRev
                        /\ \/ ledger' = [ledger EXCEPT ![t] = Changed(ledger[t], "voided", ledger[t].movement)]
                           \/ \E m \in Movements :
                                 ledger' = [ledger EXCEPT ![t] = Changed(ledger[t], ledger[t].status, m)]
  BY DEF ChangeEntry
<1>4. ledger[t] \in Row BY <1>1 DEF TypeOK
<1>5. PICK status \in {"posted", "reconciled", "voided"}, movement \in Movements \cup {None} :
        /\ status \in {"voided", ledger[t].status}
        /\ ledger' = [ledger EXCEPT ![t] = Changed(ledger[t], status, movement)]
  <2>1. ledger[t].movement \in Movements \cup {None} BY <1>4 DEF Row
  <2>2. ledger[t].status \in {"posted", "reconciled"} BY <1>3 DEF Live
  <2>3. CASE ledger' = [ledger EXCEPT ![t] = Changed(ledger[t], "voided", ledger[t].movement)]
    BY <2>1, <2>3
  <2>4. ASSUME NEW m \in Movements,
               ledger' = [ledger EXCEPT ![t] = Changed(ledger[t], ledger[t].status, m)]
        PROVE  \E status \in {"posted", "reconciled", "voided"}, movement \in Movements \cup {None} :
                  /\ status \in {"voided", ledger[t].status}
                  /\ ledger' = [ledger EXCEPT ![t] = Changed(ledger[t], status, movement)]
    BY <2>2, <2>4
  <2> QED BY <1>3, <2>3, <2>4
<1>6. PICK row : row = Changed(ledger[t], status, movement) OBVIOUS
<1>7. row \in Row /\ row.status = status /\ row.rev # 0 BY <1>3, <1>4, <1>6, ChangedRow
<1>8. ledger' = [ledger EXCEPT ![t] = row] BY <1>5, <1>6
<1>9. /\ ledger' \in [Rows -> Row] /\ ledger'[t] = row
      /\ \A u \in Rows : u # t => ledger'[u] = ledger[u]
  BY <1>1, <1>7, <1>8 DEF TypeOK
<1>10. TypeOK' BY <1>1, <1>2, <1>9 DEF TypeOK
<1>11. OneEffectPerLine'
  <2>1. ASSUME NEW u \in Rows
        PROVE  /\ ledger'[u].status # "none" <=> ledger[u].status # "none"
               /\ ledger[u].status \in {"reconciled", "voided"} =>
                     ledger'[u].status \in {"reconciled", "voided"}
    BY <1>3, <1>5, <1>7, <1>9 DEF Live
  <2>2. \A l \in Lines : l \in Rows /\ line[l].target \in Rows \cup {None}
    BY <1>1 DEF TypeOK, LineRow, Rows
  <2> QED BY <1>1, <1>2, <2>1, <2>2 DEF TableInv, OneEffectPerLine
<1>12. TableInv'
  BY <1>1, <1>2, <1>11 DEF TableInv, DiscardedHasNoEffect, NothingLeftToReview
<1>13. WritesFreely(None)
  <2>1. LedgerFreely(None) BY <1>5, <1>7, <1>9 DEF LedgerFreely, Rows
  <2> QED BY <1>2, <2>1 DEF WritesFreely
<1>14. ASSUME NEW q \in Requests PROVE Relies(q)'
  <2>1. q # None BY ImportAssumption
  <2>2. Relies(q) BY DEF ReviewInv
  <2>3. pc'[q] = pc[q] /\ req'[q] = req[q] /\ \A k \in Locks : held[k] = q => held'[k] = q
    BY <1>2
  <2> QED BY <1>1, <1>13, <2>1, <2>2, <2>3, OthersKeep
<1> QED BY <1>10, <1>12, <1>14 DEF ReviewInv

LEMMA InitEstablishes == Init => ReviewInv
<1> SUFFICES ASSUME Init PROVE ReviewInv OBVIOUS
<1>1. line \in [Lines -> LineRow]
  <2>1. line \in [Lines -> [batch : Batches, status : {"pending"}, payload : Payloads, target : {None}]]
    BY DEF Init
  <2> QED BY <2>1 DEF LineRow
<1>2. \A l \in Lines : line[l].status = "pending" /\ line[l].target = None BY DEF Init
<1>3. \A l \in Lines : ledger[l].status = "none"
  BY ImportAssumption DEF Init, Rows
<1>4. TypeOK
  <2>1. batch \in [Batches -> {"reviewing", "completed", "discarded"}] BY DEF Init
  <2>2. held \in [Locks -> Requests \cup {None}] BY DEF Init
  <2>3. pc \in [Requests -> Steps] BY DEF Init, Steps
  <2>4. DOMAIN req = Requests BY DEF Init
  <2>5. candidates \subseteq Candidate /\ ledger \in [Rows -> Row] BY DEF Init
  <2> QED BY <1>1, <2>1, <2>2, <2>3, <2>4, <2>5 DEF TypeOK
<1>5. OneEffectPerLine
  <2>1. \A l \in Lines : l # None BY ImportAssumption
  <2> QED BY <1>2, <1>3, <2>1 DEF OneEffectPerLine
<1>6. DiscardedHasNoEffect
  <2>1. \A b \in Batches : batch[b] = "reviewing" BY DEF Init
  <2>2. \A l \in Lines : line[l].batch \in Batches BY <1>1 DEF LineRow
  <2> QED BY <2>1, <2>2 DEF DiscardedHasNoEffect
<1>7. NothingLeftToReview BY DEF Init, NothingLeftToReview
<1>8. \A p \in Requests : Relies(p) BY DEF Init, Relies
<1> QED BY <1>4, <1>5, <1>6, <1>7, <1>8 DEF ReviewInv, TableInv

LEMMA NextKeeps == ReviewInv /\ [Next]_vars => ReviewInv'
<1> SUFFICES ASSUME ReviewInv, [Next]_vars PROVE ReviewInv' OBVIOUS
<1>1. CASE ChangeEntry BY <1>1, ChangeEntryKeeps
<1>2. ASSUME NEW p \in Requests,
             \/ ReviewInBatch(p) \/ EditInBatch(p) \/ ReviewInQueue(p) \/ EditInQueue(p)
             \/ Decide(p) \/ BeginDiscard(p) \/ ReadForScan(p) \/ ReadForRefresh(p)
      PROVE  ReviewInv'
  BY <1>2, ReviewInBatchKeeps, EditInBatchKeeps, ReviewInQueueKeeps, EditInQueueKeeps,
     DecideKeeps, BeginDiscardKeeps, ReadForScanKeeps, ReadForRefreshKeeps
<1>3. ASSUME NEW p \in Requests, AnswerDecided(p) \/ RefuseCandidate(p) \/ Rollback(p)
      PROVE  ReviewInv'
  BY <1>3, RefuseKeeps DEF AnswerDecided, RefuseCandidate, Rollback
<1>4. ASSUME NEW p \in Requests,
             \/ Reject(p) \/ Edit(p) \/ ApproveBlocked(p) \/ ApproveProceeds(p)
             \/ FindTransfer(p) \/ Settle(p)
      PROVE  ReviewInv'
  BY <1>4, RejectKeeps, EditKeeps, ApproveBlockedKeeps, ApproveProceedsKeeps,
     FindTransferKeeps, SettleKeeps
<1>5. ASSUME NEW p \in Requests,
             \/ RejectCandidate(p) \/ ApproveCandidate(p)
             \/ Scan(p) \/ Discard(p) \/ Refresh(p)
      PROVE  ReviewInv'
  BY <1>5, RejectCandidateKeeps, ApproveCandidateKeeps, ScanKeeps, DiscardKeeps, RefreshKeeps
<1>6. CASE UNCHANGED vars
  <2>1. UNCHANGED <<batch, line, candidates, ledger, held, pc, req>> BY <1>6 DEF vars
  <2>2. TypeOK' BY <2>1 DEF ReviewInv, TypeOK
  <2>3. TableInv'
    BY <2>1 DEF ReviewInv, TableInv, OneEffectPerLine, DiscardedHasNoEffect, NothingLeftToReview
  <2>4. ASSUME NEW q \in Requests PROVE Relies(q)'
    <3>1. q # None /\ TypeOK /\ Relies(q) BY ImportAssumption DEF ReviewInv
    <3>2. WritesFreely(None) BY <2>1, FreelyUnwritten
    <3>3. pc'[q] = pc[q] /\ req'[q] = req[q] /\ \A k \in Locks : held[k] = q => held'[k] = q
      BY <2>1
    <3> QED BY <3>1, <3>2, <3>3, OthersKeep
  <2> QED BY <2>2, <2>3, <2>4 DEF ReviewInv
<1> QED BY <1>1, <1>2, <1>3, <1>4, <1>5, <1>6 DEF Next

LEMMA ReviewInvAlways == Spec => []ReviewInv
BY InitEstablishes, NextKeeps, PTL DEF Spec

-----------------------------------------------------------------------------
(* The theorems on states.                                                 *)

(* The tables, the locks and what each request carries are well formed.    *)
THEOREM TypeCorrect == Spec => []TypeOK
<1>1. ReviewInv => TypeOK BY DEF ReviewInv
<1> QED BY <1>1, ReviewInvAlways, PTL

(* A line has one effect at most (OneEffectPerLine): whoever approves it   *)
(* holds the locks of the line and of its batch, and reads under them that *)
(* the line is pending; so nobody else decides it before the commit.       *)
THEOREM OneEffect == Spec => []OneEffectPerLine
<1>1. ReviewInv => OneEffectPerLine BY DEF ReviewInv, TableInv
<1> QED BY <1>1, ReviewInvAlways, PTL

(* A discarded batch moved no money (DiscardedHasNoEffect): the discard    *)
(* looks for effects with the batch locked, and no approval commits        *)
(* without that lock.                                                      *)
THEOREM DiscardIsClean == Spec => []DiscardedHasNoEffect
<1>1. ReviewInv => DiscardedHasNoEffect BY DEF ReviewInv, TableInv
<1> QED BY <1>1, ReviewInvAlways, PTL

(* A decided line leaves nothing to review (NothingLeftToReview), though   *)
(* the scan works on what it read before it locked the line.               *)
THEOREM QueueIsClean == Spec => []NothingLeftToReview
<1>1. ReviewInv => NothingLeftToReview BY DEF ReviewInv, TableInv
<1> QED BY <1>1, ReviewInvAlways, PTL

-----------------------------------------------------------------------------
(* The theorems on steps.                                                  *)

\* Who changes the content of a line, and who gives it a target.
Retold(k) == \E q \in Requests : Edit(q) /\ req[q].line = k
Targeted(k) ==
    \E q \in Requests : \/ Settle(q) /\ req[q].line = k
                        \/ ApproveCandidate(q) /\ req[q].key.line = k

LEMMA WhoWritesLine ==
    ASSUME ReviewInv, [Next]_vars, NEW k \in Lines
    PROVE  /\ line'[k].payload # line[k].payload => Retold(k)
           /\ line'[k].target # line[k].target => Targeted(k)
<1>1. TypeOK BY DEF ReviewInv
<1>2. line[k] \in LineRow /\ line \in [Lines -> LineRow] BY <1>1 DEF TypeOK
<1>3. CASE line' = line BY <1>3
<1>4. ASSUME NEW q \in Requests, Reject(q)
      PROVE  line'[k].payload = line[k].payload /\ line'[k].target = line[k].target
  <2>1. PICK l : l = req[q].line OBVIOUS
  <2>2. line' = [line EXCEPT ![l].status = "rejected"] BY <1>4, <2>1 DEF Reject, Commit
  <2>3. l \in Lines BY <1>4, <2>1, LockedHolds DEF Reject
  <2> QED BY <1>2, <2>2, <2>3 DEF LineRow
<1>5. ASSUME NEW q \in Requests, Edit(q)
      PROVE  /\ line'[k].payload # line[k].payload => Retold(k)
             /\ line'[k].target = line[k].target
  <2>1. PICK l : l = req[q].line OBVIOUS
  <2>2. PICK to : to = req[q].to OBVIOUS
  <2>3. line' = [line EXCEPT ![l].payload = to] BY <1>5, <2>1, <2>2 DEF Edit, Commit
  <2>4. l \in Lines BY <1>5, <2>1, LockedHolds DEF Edit
  <2>5. CASE k = l
    <3>1. Retold(k) BY <1>5, <2>1, <2>5 DEF Retold
    <3> QED BY <1>2, <2>3, <2>4, <3>1 DEF LineRow
  <2>6. CASE k # l BY <1>2, <2>3, <2>6
  <2> QED BY <2>5, <2>6
<1>6. ASSUME NEW q \in Requests, Settle(q)
      PROVE  /\ line'[k].payload = line[k].payload
             /\ line'[k].target # line[k].target => Targeted(k)
  <2>1. PICK l : l = req[q].line OBVIOUS
  <2>2. PICK t : line' = [line EXCEPT ![l].status = "approved", ![l].target = t]
    BY <1>6, <2>1 DEF Settle, Commit
  <2>3. pc[q] = "settle" BY <1>6 DEF Settle
  <2>4. l \in Lines BY <2>1, <2>3, SettleHas
  <2>5. CASE k = l
    <3>1. Targeted(k) BY <1>6, <2>1, <2>5 DEF Targeted
    <3> QED BY <1>2, <2>2, <2>4, <3>1 DEF LineRow
  <2>6. CASE k # l BY <1>2, <2>2, <2>6
  <2> QED BY <2>5, <2>6
<1>7. ASSUME NEW q \in Requests, ApproveCandidate(q)
      PROVE  /\ line'[k].payload = line[k].payload
             /\ line'[k].target # line[k].target => Targeted(k)
  <2>1. PICK l : l = req[q].key.line OBVIOUS
  <2>2. PICK t : t = req[q].key.target OBVIOUS
  <2>3. \/ line' = [line EXCEPT ![l].status = "approved", ![l].target = t]
        \/ line' = [line EXCEPT ![l].status = "rejected"]
    BY <1>7, <2>1, <2>2 DEF ApproveCandidate, Commit
  <2>4. l \in Lines
    <3>1. Locked(q, "decide") BY <1>7 DEF ApproveCandidate
    <3>2. req[q].line \in Lines BY <3>1, LockedHolds
    <3>3. req[q].key.line = req[q].line BY <3>1, DecisionKey
    <3> QED BY <2>1, <3>2, <3>3
  <2>5. CASE k = l
    <3>1. Targeted(k) BY <1>7, <2>1, <2>5 DEF Targeted
    <3> QED BY <1>2, <2>3, <2>4, <3>1 DEF LineRow
  <2>6. CASE k # l BY <1>2, <2>3, <2>6
  <2> QED BY <2>5, <2>6
<1>8. ASSUME NEW q \in Requests, Discard(q)
      PROVE  line'[k].payload = line[k].payload /\ line'[k].target = line[k].target
  <2>1. line'[k] \in {[line[k] EXCEPT !.status = "rejected"], line[k]} BY <1>8 DEF Discard
  <2> QED BY <1>2, <2>1 DEF LineRow
<1>9. CASE ChangeEntry BY <1>3, <1>9 DEF ChangeEntry
<1>10. CASE UNCHANGED vars BY <1>3, <1>10 DEF vars
<1>11. ASSUME NEW q \in Requests,
              \/ ReviewInBatch(q) \/ EditInBatch(q) \/ ReviewInQueue(q) \/ EditInQueue(q)
              \/ Decide(q) \/ BeginDiscard(q) \/ ReadForScan(q) \/ ReadForRefresh(q)
       PROVE  line' = line
  BY <1>11 DEF ReviewInBatch, EditInBatch, ReviewInQueue, EditInQueue, Decide, BeginDiscard,
               ReadForScan, ReadForRefresh, Begin, Read
<1>12. ASSUME NEW q \in Requests,
              \/ AnswerDecided(q) \/ RefuseCandidate(q) \/ Rollback(q) \/ ApproveBlocked(q)
              \/ ApproveProceeds(q) \/ FindTransfer(q) \/ RejectCandidate(q) \/ Scan(q)
              \/ Refresh(q)
       PROVE  line' = line
  BY <1>12 DEF AnswerDecided, RefuseCandidate, Rollback, Refuse, ApproveBlocked,
               ApproveProceeds, FindTransfer, RejectCandidate, Scan, Refresh, Commit
<1> QED BY <1>3, <1>4, <1>5, <1>6, <1>7, <1>8, <1>9, <1>10, <1>11, <1>12 DEF Next

\* An approval from the queue settles the content that was seen: it is that content
\* when the approval has the line's lock, and nobody edits the line without it.
LEMMA SettlesAsSeen ==
    ASSUME ReviewInv, [Next]_vars, NEW p \in Requests,
           pc[p] = "settle", req[p].via = "queue"
    PROVE  line'[req[p].line].payload = req[p].seen
<1>1. PICK r : r = req[p] OBVIOUS
<1>2. /\ r.line \in Lines /\ Approving(p, r)
      /\ held[<<"line", r.line>>] = p
  BY <1>1, SettleHas
<1>3. line[r.line].payload = r.seen BY <1>1, <1>2 DEF Approving, AsSeen
<1>4. ~ Retold(r.line)
  <2> SUFFICES ASSUME NEW q \in Requests, Edit(q), req[q].line = r.line PROVE FALSE
    BY DEF Retold
  <2>1. Locked(q, "edit") BY DEF Edit
  <2>2. held[<<"line", r.line>>] \in {q, None} BY <2>1, LockedHolds
  <2>3. q = p BY <1>2, <2>2, ImportAssumption
  <2> QED BY <2>1, <2>3 DEF Locked
<1> QED BY <1>1, <1>2, <1>3, <1>4, WhoWritesLine

(* What the queue approves is what the reviewer saw (ApprovedAsSeen): the  *)
(* fingerprint is compared under the line's lock, which edits need.        *)
THEOREM ApprovedWasSeen == Spec => ApprovedAsSeen
<1>1. ReviewInv /\ [Next]_vars =>
         [\A p \in Requests :
             (pc[p] = "settle" /\ req[p].via = "queue" /\ pc'[p] = "idle"
                /\ line'[req[p].line].status = "approved") =>
                line'[req[p].line].payload = req[p].seen]_vars
  BY SettlesAsSeen
<1> QED BY <1>1, ReviewInvAlways, PTL DEF Spec, ApprovedAsSeen

\* Only a settlement that found nothing to join makes a line its own target.
LEMMA OwnTarget ==
    ASSUME ReviewInv, [Next]_vars, NEW l \in Lines, line[l].target = None, line'[l].target = l
    PROVE  \E p \in Requests : pc[p] = "settle" /\ req[p].line = l /\ req[p].found = None
<1>1. TypeOK /\ OneEffectPerLine /\ l # None BY ImportAssumption DEF ReviewInv, TableInv
<1>2. ledger[l].status = "none" BY <1>1 DEF OneEffectPerLine
<1>3. Targeted(l) BY <1>1, WhoWritesLine
<1>4. ASSUME NEW q \in Requests, Settle(q), req[q].line = l
      PROVE  pc[q] = "settle" /\ req[q].found = None
  <2>1. PICK r : r = req[q] OBVIOUS
  <2>2. PICK t : t = IF r.found = None THEN l ELSE r.found OBVIOUS
  <2>3. line' = [line EXCEPT ![l].status = "approved", ![l].target = t] /\ pc[q] = "settle"
    BY <1>4, <2>1, <2>2 DEF Settle, Commit
  <2>4. r.found \in Rows \cup {None} /\ Settling(q, r) BY <2>1, <2>3, SettleHas
  <2>5. t \in Rows BY <2>2, <2>4 DEF Rows
  <2>6. line'[l].target = t BY <1>1, <2>3, <2>5, ApprovedRow
  <2>7. r.found # l BY <1>1, <1>2, <2>4 DEF Settling
  <2> QED BY <2>1, <2>2, <2>3, <2>6, <2>7
<1>5. ASSUME NEW q \in Requests, ApproveCandidate(q), req[q].key.line = l PROVE FALSE
  <2>1. PICK t : t = req[q].key.target OBVIOUS
  <2>2. Locked(q, "decide") /\ TargetAccepts(req[q].key) BY <1>5 DEF ApproveCandidate
  <2>3. t \in Rows /\ ledger[t].status # "none"
    BY <2>1, <2>2, DecisionKey DEF Key, TargetAccepts, Live
  <2>4. \/ line' = [line EXCEPT ![l].status = "approved", ![l].target = t]
        \/ line' = [line EXCEPT ![l].status = "rejected"]
    BY <1>5, <2>1 DEF ApproveCandidate, Commit
  <2>5. CASE line' = [line EXCEPT ![l].status = "approved", ![l].target = t]
    <3>1. line'[l].target = t BY <1>1, <2>3, <2>5, ApprovedRow
    <3> QED BY <1>2, <2>3, <3>1
  <2>6. CASE line' = [line EXCEPT ![l].status = "rejected"]
    <3>1. line'[l].target = None BY <1>1, <2>6, RejectedRow
    <3> QED BY <1>1, <3>1
  <2> QED BY <2>4, <2>5, <2>6
<1> QED BY <1>3, <1>4, <1>5 DEF Targeted

LEMMA NoneWasToJoin ==
    ASSUME ReviewInv, [Next]_vars, NEW l \in Lines, line[l].target = None, line'[l].target = l,
           MovementOf[line[l].payload] \in Transfers
    PROVE  NoneToJoin(l)
<1>1. PICK p \in Requests : pc[p] = "settle" /\ req[p].line = l /\ req[p].found = None
  BY OwnTarget
<1>2. Settling(p, req[p]) BY <1>1, SettleHas
<1> QED BY <1>1, <1>2 DEF Settling

(* Two statements of one transfer become one transaction                   *)
(* (TransferCountedOnce): the advisory lock on the transfer is held from   *)
(* the search for the other statement's transaction to the commit.         *)
THEOREM CountedOnce == Spec => TransferCountedOnce
<1>1. ReviewInv /\ [Next]_vars =>
         [\A l \in Lines :
             (line[l].target = None /\ line'[l].target = l
                /\ MovementOf[line[l].payload] \in Transfers) =>
                \A t \in Twins(line[l].payload) \cap Lines :
                   ledger[t].rev = 0 => t \notin Canonical(l)]_vars
  BY NoneWasToJoin DEF NoneToJoin
<1> QED BY <1>1, ReviewInvAlways, PTL DEF Spec, TransferCountedOnce

-----------------------------------------------------------------------------
(* Which requests can deadlock.                                            *)

\* A request past its first lock came from the queue, which locks the line first, or
\* from the page of the batch or a discard, which lock the batch first.
FromQueue(p) == pc[p] = "second" /\ LineFirst(p)
FromBatch(p) == pc[p] = "discard" \/ (pc[p] = "second" /\ ~LineFirst(p) /\ req[p].op # "scan")
HasBoth(p) == pc[p] \in {"key", "settle"}

\* What the locks a request holds say of how far it is.
Orderly(p) ==
    /\ \A l \in Lines : held[<<"line", l>>] = p => FromQueue(p) \/ HasBoth(p)
    /\ \A b \in Batches : held[<<"batch", b>>] = p => FromBatch(p) \/ HasBoth(p)
    /\ \A m \in Movements : held[<<"transfer", m>>] = p => pc[p] = "settle"
    /\ \A t \in Rows : held[<<"row", t>>] = p => pc[p] = "settle"

OrderInv == \A p \in Requests : Orderly(p)

LEMMA LockKinds ==
    ASSUME NEW k \in Locks
    PROVE  \/ \E l \in Lines : k = <<"line", l>>
           \/ \E b \in Batches : k = <<"batch", b>>
           \/ \E m \in Movements : k = <<"transfer", m>>
           \/ \E t \in Rows : k = <<"row", t>>
BY DEF Locks

\* A request that is not there holds nothing.
LEMMA IdleHasNone ==
    ASSUME NEW p \in Requests, Orderly(p), pc[p] = "idle"
    PROVE  \A k \in Locks : held[k] # p
<1>1. ~FromQueue(p) /\ ~FromBatch(p) /\ ~HasBoth(p) BY DEF FromQueue, FromBatch, HasBoth
<1> QED BY <1>1, LockKinds DEF Orderly

LEMMA NoneIsOrderly ==
    ASSUME NEW p, \A k \in Locks : held[k] # p
    PROVE  Orderly(p)
BY LockNames DEF Orderly

\* A step gives locks to the request that takes it only.
LEMMA OthersOrderly ==
    ASSUME OrderInv, NEW p \in Requests,
           \A q \in Requests \ {p} : pc'[q] = pc[q] /\ req'[q] = req[q],
           \A k \in Locks : held'[k] \in {p, None, held[k]},
           Orderly(p)'
    PROVE  OrderInv'
<1> SUFFICES ASSUME NEW q \in Requests \ {p} PROVE Orderly(q)' BY DEF OrderInv
<1>1. Orderly(q) /\ q # None BY ImportAssumption DEF OrderInv
<1>2. \A k \in Locks : held'[k] = q => held[k] = q BY <1>1
<1>3. /\ FromQueue(q)' = FromQueue(q) /\ FromBatch(q)' = FromBatch(q)
      /\ HasBoth(q)' = HasBoth(q) /\ pc'[q] = pc[q]
  BY DEF FromQueue, FromBatch, HasBoth, LineFirst
<1> QED BY <1>1, <1>2, <1>3, LockNames DEF Orderly

LEMMA OrderlyEnd ==
    ASSUME TypeOK, OrderInv, NEW p \in Requests, End(p) PROVE OrderInv'
<1>1. held' = [k \in Locks |-> IF held[k] = p THEN None ELSE held[k]] BY DEF End
<1>2. \A k \in Locks : held'[k] # p BY <1>1, ImportAssumption
<1>3. Orderly(p)' BY <1>2, LockNames DEF Orderly
<1>4. \A q \in Requests \ {p} : pc'[q] = pc[q] /\ req'[q] = req[q] BY EndRow
<1> QED BY <1>1, <1>3, <1>4, OthersOrderly

LEMMA OrderlyBegin ==
    ASSUME TypeOK, OrderInv, NEW p \in Requests, NEW r, NEW k \in Locks, NEW step,
           Begin(p, r, k, step),
           \/ /\ \E b \in Batches : k = <<"batch", b>>
              /\ step = "discard" \/ (/\ step = "second" /\ r.op \notin {"decide", "scan"}
                                      /\ r.via # "queue")
           \/ /\ \E l \in Lines : k = <<"line", l>>
              /\ step = "second"
              /\ r.op = "decide" \/ (r.op # "scan" /\ r.via = "queue")
    PROVE  OrderInv'
<1>1. /\ pc[p] = "idle" /\ held' = [held EXCEPT ![k] = p]
      /\ req' = [req EXCEPT ![p] = r] /\ pc' = [pc EXCEPT ![p] = step]
  BY DEF Begin, Take, Go
<1>2. /\ \A q \in Requests \ {p} : pc'[q] = pc[q] /\ req'[q] = req[q]
      /\ pc'[p] = step /\ req'[p] = r
  BY <1>1 DEF TypeOK
<1>3. \A j \in Locks : held[j] # p BY <1>1, IdleHasNone DEF OrderInv
<1>4. \A j \in Locks : held'[j] = IF j = k THEN p ELSE held[j] BY <1>1 DEF TypeOK
<1>5. \A j \in Locks : held'[j] = p => j = k BY <1>3, <1>4
<1>6. Orderly(p)'
  <2>1. CASE (\E b \in Batches : k = <<"batch", b>>) /\ FromBatch(p)'
    BY <1>5, <2>1, LockNames DEF Orderly
  <2>2. CASE (\E l \in Lines : k = <<"line", l>>) /\ FromQueue(p)'
    BY <1>5, <2>2, LockNames DEF Orderly
  <2> QED BY <1>2, <2>1, <2>2 DEF FromBatch, FromQueue, LineFirst
<1> QED BY <1>2, <1>4, <1>6, OthersOrderly

LEMMA OrderlyRead ==
    ASSUME TypeOK, OrderInv, NEW p \in Requests, NEW r, NEW step, Read(p, r, step)
    PROVE  OrderInv'
<1>1. /\ pc[p] = "idle" /\ held' = held
      /\ req' = [req EXCEPT ![p] = r] /\ pc' = [pc EXCEPT ![p] = step]
  BY DEF Read, Go
<1>2. \A q \in Requests \ {p} : pc'[q] = pc[q] /\ req'[q] = req[q] BY <1>1 DEF TypeOK
<1>3. \A k \in Locks : held[k] # p BY <1>1, IdleHasNone DEF OrderInv
<1>4. Orderly(p)' BY <1>1, <1>3, LockNames DEF Orderly
<1> QED BY <1>1, <1>2, <1>4, OthersOrderly

\* An approval takes its second lock, and then those of the transfer.
LEMMA OrderlyApprove ==
    ASSUME TypeOK, OrderInv, NEW p \in Requests, ApproveProceeds(p) \/ FindTransfer(p)
    PROVE  OrderInv'
<1>1. CASE ApproveProceeds(p)
  <2>1. PICK k, to : /\ to \in {"key", "settle"} /\ held' = [held EXCEPT ![k] = p]
                     /\ pc' = [pc EXCEPT ![p] = to] /\ req' = req
                     /\ k = <<"batch", line[req[p].line].batch>> \/ k = <<"line", req[p].line>>
    BY <1>1 DEF ApproveProceeds, Take, Go, Second
  <2>2. pc[p] = "second" /\ Orderly(p) BY <1>1 DEF ApproveProceeds, Locked, OrderInv
  <2>3. /\ pc'[p] = to
        /\ \A q \in Requests \ {p} : pc'[q] = pc[q] /\ req'[q] = req[q]
        /\ \A j \in Locks : held'[j] = IF j = k THEN p ELSE held[j]
    BY <2>1 DEF TypeOK
  <2>4. /\ \A m \in Movements : held'[<<"transfer", m>>] = held[<<"transfer", m>>]
        /\ \A t \in Rows : held'[<<"row", t>>] = held[<<"row", t>>]
    BY <2>1, <2>3, LockNames
  <2>5. Orderly(p)' BY <2>1, <2>2, <2>3, <2>4 DEF Orderly, HasBoth
  <2> QED BY <2>3, <2>5, OthersOrderly
<1>2. CASE FindTransfer(p)
  <2>1. /\ pc' = [pc EXCEPT ![p] = "settle"]
        /\ \/ \E key : held' = [held EXCEPT ![key] = p]
           \/ \E key, row : held' = [held EXCEPT ![key] = p, ![row] = p]
        /\ \/ req' = req
           \/ \E t : req' = [req EXCEPT ![p].found = t]
    BY <1>2 DEF FindTransfer, Take, Go
  <2>2. /\ pc'[p] = "settle"
        /\ \A q \in Requests \ {p} : pc'[q] = pc[q] /\ req'[q] = req[q]
        /\ \A k \in Locks : held'[k] \in {p, None, held[k]}
    BY <2>1 DEF TypeOK
  <2>3. Orderly(p)' BY <2>2 DEF Orderly, HasBoth
  <2> QED BY <2>2, <2>3, OthersOrderly
<1> QED BY <1>1, <1>2

\* Every other step of a request ends it.
LEMMA OrderlyStep ==
    ASSUME ReviewInv, OrderInv, [Next]_vars PROVE OrderInv'
<1>1. TypeOK BY DEF ReviewInv
<1>2. CASE UNCHANGED <<held, pc, req>>
  BY <1>2 DEF OrderInv, Orderly, FromQueue, FromBatch, HasBoth, LineFirst
<1>3. CASE ChangeEntry \/ UNCHANGED vars BY <1>2, <1>3 DEF ChangeEntry, vars
<1>4. ASSUME NEW p \in Requests, End(p) PROVE OrderInv' BY <1>1, <1>4, OrderlyEnd
<1>5. ASSUME NEW p \in Requests,
             \/ AnswerDecided(p) \/ Reject(p) \/ Edit(p) \/ ApproveBlocked(p) \/ Settle(p)
             \/ RejectCandidate(p) \/ ApproveCandidate(p) \/ RefuseCandidate(p)
             \/ Scan(p) \/ Discard(p) \/ Refresh(p) \/ Rollback(p)
      PROVE  OrderInv'
  <2>1. End(p)
    <3>1. CASE AnswerDecided(p) \/ RefuseCandidate(p) \/ Rollback(p)
      BY <3>1 DEF AnswerDecided, RefuseCandidate, Rollback, Refuse
    <3>2. CASE Reject(p) \/ Edit(p) \/ ApproveBlocked(p) \/ RejectCandidate(p)
      BY <3>2 DEF Reject, Edit, ApproveBlocked, RejectCandidate, Commit
    <3>3. CASE Settle(p) BY <3>3 DEF Settle, Commit
    <3>4. CASE ApproveCandidate(p) BY <3>4 DEF ApproveCandidate, Commit
    <3>5. CASE Scan(p) \/ Discard(p) \/ Refresh(p) BY <3>5 DEF Scan, Discard, Refresh
    <3> QED BY <1>5, <3>1, <3>2, <3>3, <3>4, <3>5
  <2> QED BY <1>4, <2>1
<1>6. ASSUME NEW p \in Requests, ReviewInBatch(p) \/ EditInBatch(p) PROVE OrderInv'
  <2>1. ASSUME NEW r, NEW l \in Lines, Begin(p, r, <<"batch", line[l].batch>>, "second"),
               r.op \notin {"decide", "scan"}, r.via = "batch"
        PROVE  OrderInv'
    BY <1>1, <2>1, BatchOfLine, OrderlyBegin
  <2>2. CASE ReviewInBatch(p)
    <3>1. PICK op \in {"approve", "reject"}, l \in Lines :
            Begin(p, [op |-> op, line |-> l, via |-> "batch", seen |-> None, found |-> None],
                  <<"batch", line[l].batch>>, "second")
      BY <2>2 DEF ReviewInBatch
    <3> QED BY <2>1, <3>1
  <2>3. CASE EditInBatch(p)
    <3>1. PICK l \in Lines, to \in Payloads :
            Begin(p, [op |-> "edit", line |-> l, via |-> "batch", seen |-> None, to |-> to],
                  <<"batch", line[l].batch>>, "second")
      BY <2>3 DEF EditInBatch
    <3> QED BY <2>1, <3>1
  <2> QED BY <1>6, <2>2, <2>3
<1>7. ASSUME NEW p \in Requests, ReviewInQueue(p) \/ EditInQueue(p) \/ Decide(p) PROVE OrderInv'
  <2>1. ASSUME NEW r, NEW l \in Lines, Begin(p, r, <<"line", l>>, "second"),
               r.op = "decide" \/ (r.op # "scan" /\ r.via = "queue")
        PROVE  OrderInv'
    BY <1>1, <2>1, LockNames, OrderlyBegin
  <2>2. CASE ReviewInQueue(p)
    <3>1. PICK op \in {"approve", "reject"}, l \in Lines, seen \in Payloads :
            Begin(p, [op |-> op, line |-> l, via |-> "queue", seen |-> seen, found |-> None],
                  <<"line", l>>, "second")
      BY <2>2 DEF ReviewInQueue
    <3> QED BY <2>1, <3>1
  <2>3. CASE EditInQueue(p)
    <3>1. PICK l \in Lines, seen \in Payloads, to \in Payloads :
            Begin(p, [op |-> "edit", line |-> l, via |-> "queue", seen |-> seen, to |-> to],
                  <<"line", l>>, "second")
      BY <2>3 DEF EditInQueue
    <3> QED BY <2>1, <3>1
  <2>4. CASE Decide(p)
    <3>1. PICK c \in candidates, verdict \in {"approve", "reject"} :
            Begin(p, [op |-> "decide", line |-> c.line, key |-> KeyOf(c), verdict |-> verdict],
                  <<"line", c.line>>, "second")
      BY <2>4 DEF Decide
    <3>2. c.line \in Lines BY <1>1 DEF TypeOK, Candidate
    <3> QED BY <2>1, <3>1, <3>2
  <2> QED BY <1>7, <2>2, <2>3, <2>4
<1>8. ASSUME NEW p \in Requests, BeginDiscard(p) PROVE OrderInv'
  <2>1. PICK b \in Batches : Begin(p, [op |-> "discard", batch |-> b], <<"batch", b>>, "discard")
    BY <1>8 DEF BeginDiscard
  <2> QED BY <1>1, <2>1, LockNames, OrderlyBegin
<1>9. ASSUME NEW p \in Requests, ReadForScan(p) \/ ReadForRefresh(p) PROVE OrderInv'
  <2>1. \E r, step : Read(p, r, step) BY <1>9 DEF ReadForScan, ReadForRefresh
  <2> QED BY <1>1, <2>1, OrderlyRead
<1>10. ASSUME NEW p \in Requests, ApproveProceeds(p) \/ FindTransfer(p) PROVE OrderInv'
  BY <1>1, <1>10, OrderlyApprove
<1> QED BY <1>3, <1>5, <1>6, <1>7, <1>8, <1>9, <1>10 DEF Next

LEMMA OrderInvAlways == Spec => []OrderInv
<1>1. Init => OrderInv
  <2> SUFFICES ASSUME Init, NEW p \in Requests PROVE Orderly(p) BY DEF OrderInv
  <2>1. \A k \in Locks : held[k] # p BY ImportAssumption DEF Init
  <2> QED BY <2>1, NoneIsOrderly
<1> QED BY <1>1, OrderlyStep, ReviewInvAlways, PTL DEF Spec

\* The locks the next step of a request asks for.  A request that has none yet is in
\* nobody's way.
AsksFor(p, k) ==
    \/ pc[p] = "second" /\ k = Second(p)
    \/ pc[p] = "second" /\ req[p].op = "decide" /\ k = <<"row", req[p].key.target>>
    \/ pc[p] = "key" /\ k = TransferKey(req[p].line)
    \/ pc[p] = "key" /\ \E t \in Canonical(req[p].line) : k = <<"row", t>>
    \/ /\ pc[p] = "discard"
       /\ \E l \in Lines : /\ line[l].batch = req[p].batch /\ line[l].status = "pending"
                           /\ k = <<"line", l>>
    \/ pc[p] = "write" /\ k = <<"batch", req[p].batch>>

WaitsFor(p, q) == p # q /\ \E k \in Locks : AsksFor(p, k) /\ held[k] = q

Deadlocked(S) == S # {} /\ \A p \in S : \E q \in S : WaitsFor(p, q)

\* A deadlock takes both orders: a request that came from the queue and one that came
\* from the page of the batch or discards it.  The transfer's advisory lock and the rows
\* of the ledger are in none: whoever holds those waits for nothing.
DeadlockTakesBothOrders ==
    \A S \in SUBSET Requests : Deadlocked(S) =>
        /\ \E p \in S : FromQueue(p)
        /\ \E q \in S : FromBatch(q)
        /\ \A p \in S : ~HasBoth(p)

LEMMA BothOrders == ASSUME TypeOK, OrderInv PROVE DeadlockTakesBothOrders
<1> SUFFICES ASSUME NEW S \in SUBSET Requests, Deadlocked(S)
             PROVE  /\ \E p \in S : FromQueue(p)
                    /\ \E q \in S : FromBatch(q)
                    /\ \A p \in S : ~HasBoth(p)
  BY DEF DeadlockTakesBothOrders
<1>1. \A p \in S : pc[p] # "settle"
  BY DEF Deadlocked, WaitsFor, AsksFor
<1>2. ASSUME NEW p \in S, NEW q \in S, NEW k \in Locks, AsksFor(p, k), held[k] = q
      PROVE  \/ (\E l \in Lines : k = <<"line", l>>) /\ (FromQueue(q) \/ HasBoth(q))
             \/ (\E b \in Batches : k = <<"batch", b>>) /\ (FromBatch(q) \/ HasBoth(q))
  <2>1. Orderly(q) /\ pc[q] # "settle" BY <1>1 DEF OrderInv
  <2> QED BY <1>2, <2>1, LockKinds DEF Orderly
<1>3. ASSUME NEW p \in S PROVE ~HasBoth(p)
  <2>1. PICK q \in S, k \in Locks : AsksFor(p, k) /\ held[k] = q
    BY DEF Deadlocked, WaitsFor
  <2>2. (\E l \in Lines : k = <<"line", l>>) \/ (\E b \in Batches : k = <<"batch", b>>)
    BY <1>2, <2>1
  <2>3. pc[p] # "key" BY <2>1, <2>2 DEF AsksFor, TransferKey
  <2> QED BY <1>1, <2>3 DEF HasBoth
<1>4. ASSUME NEW p \in S
      PROVE  \E q \in S, k \in Locks :
               /\ AsksFor(p, k)
               /\ \/ (\E l \in Lines : k = <<"line", l>>) /\ FromQueue(q)
                  \/ (\E b \in Batches : k = <<"batch", b>>) /\ FromBatch(q)
  <2>1. PICK q \in S, k \in Locks : AsksFor(p, k) /\ held[k] = q
    BY DEF Deadlocked, WaitsFor
  <2>2. ~HasBoth(q) BY <1>3
  <2> QED BY <1>2, <2>1, <2>2
<1>5. ASSUME NEW p \in S, FromQueue(p) PROVE \E q \in S : FromBatch(q)
  <2>1. \A l \in Lines : ~AsksFor(p, <<"line", l>>) BY <1>5 DEF FromQueue, AsksFor, Second
  <2> QED BY <1>4, <2>1
<1>6. ASSUME NEW q \in S, FromBatch(q) PROVE \E p \in S : FromQueue(p)
  <2>1. \A b \in Batches : ~AsksFor(q, <<"batch", b>>)
    BY <1>6 DEF FromBatch, AsksFor, Second, LineFirst
  <2> QED BY <1>4, <2>1
<1>7. PICK p \in S : FromQueue(p) \/ FromBatch(p) BY <1>4 DEF Deadlocked
<1> QED BY <1>3, <1>5, <1>6, <1>7

THEOREM DeadlocksAreOfBothOrders == Spec => []DeadlockTakesBothOrders
<1>1. ReviewInv => TypeOK BY DEF ReviewInv
<1> QED BY <1>1, BothOrders, ReviewInvAlways, OrderInvAlways, PTL

=============================================================================
