------------------------- MODULE CardInvoicesProofs -------------------------
(***************************************************************************)
(* Theorems about CardInvoices for every set of requests, periods, amounts, *)
(* plans and accounts, and for every MayOverlap: requests may interleave in *)
(* any way, two of them on the same invoice or purchase included.          *)
(*                                                                         *)
(*   TypeCorrect               Spec => []TypeOK                            *)
(*   PaymentLinkHolds          Spec => []PaymentLink                       *)
(*   VoidedIsFinal             Spec => VoidedForecastStaysVoided           *)
(*   LockedUntilOvertaken      Spec => LockedUnlessOvertaken               *)
(*   SecondOnlyWhenOvertaken   Spec => SecondInvoiceOnlyWhenOvertaken      *)
(*   PaidUntilOvertaken        Spec => PaymentStandsUnlessOvertaken        *)
(*   TotalKeptUntilMiscounted  Spec => TotalKeptUnlessMiscounted           *)
(*   ContractUntilMiscounted   Spec => ContractUnlessMiscounted            *)
(*   InstallmentsCover         Spec => []InstallmentsCoverPurchase         *)
(*                                                                         *)
(* TotalKept and Contract add up amounts: they assume FiniteRequests.      *)
(***************************************************************************)
EXTENDS CardInvoices, FiniteSetTheorems, TLAPS

-----------------------------------------------------------------------------
(* The inductive invariants.                                               *)

\* A request that has begun holds a well-formed input.
InputAsked == \A r \in Requests : pc[r] # "idle" => input[r] \in Inputs

\* A purchase's plan fits the bound, counting the installments before it.
PlanFits ==
  \A r \in Requests :
    pc[r] # "idle" /\ input[r].op = "purchase" =>
      /\ input[r].plan \in Plans
      /\ input[r].start - 1 + Len(input[r].plan) <= MaxInstallments

TypeInv == TypeOK /\ InputAsked /\ PlanFits

\* Rows carry the id of the request that inserted them, which is then done.
InvoiceMinted ==
  \A i \in InvoiceIds : Exists(invoice, i) => pc[i.by] = "done"
ForecastMinted ==
  \A f \in ItemIds : forecast[f].status # "absent" => pc[f.by] = "done"

\* The payment an invoice names was made by a request that is done.
PayerDone ==
  \A i \in InvoiceIds :
    invoice[i].payment # None => pc[invoice[i].payment] = "done"

\* A request closes and pays an invoice that exists; rows are never deleted.
AimExists(r) ==
  InFlight(r) /\ input[r].op \in {"close", "pay"} =>
    Exists(invoice, input[r].invoice)

\* No copy of an open invoice, or of one not found, names a payment, however
\* stale it has become.
SnapshotUnpaid(r) ==
  \A i \in InvoiceIds :
    seen[r].invoice[i].status \in {"absent", "open"} =>
      seen[r].invoice[i].payment = None

\* An invoice that was found is still there.
SnapshotExists(r) ==
  \A i \in InvoiceIds : Exists(seen[r].invoice, i) => Exists(invoice, i)

\* A purchase that passed its checks bills invoices that were open when they
\* were read, or that were not found and get an id of its own.
TargetsReadOpen(r) ==
  Ready(r, "purchase") =>
    \A k \in DOMAIN input[r].plan :
      /\ seen[r].invoice[TargetOf(r, k)].status \in {"absent", "open"}
      /\ Exists(seen[r].invoice, TargetOf(r, k)) \/ TargetOf(r, k).by = r

\* A move that found no destination inserts one under an id of its own.
DestinationOwn(r) ==
  Ready(r, "move") =>
    \/ Exists(seen[r].invoice, seen[r].target[input[r].period])
    \/ seen[r].target[input[r].period].by = r

RequestInv(r) ==
  /\ AimExists(r) /\ SnapshotUnpaid(r) /\ SnapshotExists(r)
  /\ TargetsReadOpen(r) /\ DestinationOwn(r)

LinkInv ==
  /\ TypeInv /\ PaymentLink /\ InvoiceMinted /\ PayerDone
  /\ \A r \in Requests : RequestInv(r)

\* A payment voids forecasts that exist.
VoidsExisting ==
  \A r \in Requests : \A f \in seen[r].voidForecast :
    forecast[f].status # "absent"

VoidInv == TypeInv /\ ForecastMinted /\ VoidsExisting

-----------------------------------------------------------------------------
(* The states of a request.                                                *)

LEMMA NothingSeenType ==
  ASSUME NEW r \in Requests PROVE NothingSeen(r) \in Snapshots
BY DEF NothingSeen, Snapshots, MintedBy, NoInvoice, NoPurchase, InvoiceRows,
       PurchaseRows, InvoiceIds

LEMMA AdmitType ==
  ASSUME TypeInv, NEW r \in Requests, NEW in \in Inputs, Admit(r, in),
         in.op = "purchase" =>
           in.start - 1 + Len(in.plan) <= MaxInstallments
  PROVE  /\ pc' \in [Requests -> {"idle", "loading", "ready", "done", "rejected"}]
         /\ input' \in [Requests -> Inputs \cup {None}]
         /\ InputAsked' /\ PlanFits'
BY DEF TypeInv, TypeOK, InputAsked, PlanFits, Admit, Inputs

LEMMA AdvanceType ==
  ASSUME TypeInv, NEW r \in Requests, pc[r] # "idle",
         NEW to \in {"ready", "done", "rejected"}, Advance(r, to)
  PROVE  /\ pc' \in [Requests -> {"idle", "loading", "ready", "done", "rejected"}]
         /\ input' \in [Requests -> Inputs \cup {None}]
         /\ InputAsked' /\ PlanFits'
BY DEF TypeInv, TypeOK, InputAsked, PlanFits, Advance

LEMMA FinishType ==
  ASSUME TypeInv, NEW r \in Requests, pc[r] # "idle",
         NEW to \in {"done", "rejected"}, Finish(r, to)
  PROVE  /\ pc' \in [Requests -> {"idle", "loading", "ready", "done", "rejected"}]
         /\ input' \in [Requests -> Inputs \cup {None}]
         /\ seen' \in [Requests -> Snapshots]
         /\ InputAsked' /\ PlanFits'
<1>1. Advance(r, to) BY DEF Finish
<1>2. seen' \in [Requests -> Snapshots]
  BY NothingSeenType DEF Finish, TypeInv, TypeOK
<1> QED BY <1>1, <1>2, AdvanceType

LEMMA RejectType ==
  ASSUME TypeInv, NEW r \in Requests, pc[r] # "idle", Reject(r)
  PROVE  TypeInv'
<1>1. Finish(r, "rejected") /\ UNCHANGED tables BY DEF Reject
<1> QED BY <1>1, FinishType DEF TypeInv, TypeOK, tables

-----------------------------------------------------------------------------
(* The largest element of a set of installments, which Max chooses.        *)

\* A nonempty set of natural numbers has a least element: among the intervals
\* 1..n, n in S, one is minimal for inclusion.
LEMMA SmallestNat ==
  ASSUME NEW S \in SUBSET Nat, S # {}
  PROVE  \E n \in S : \A m \in S : n <= m
<1> DEFINE F == {1..n : n \in S}
<1>1. F \subseteq FiniteSubsetsOf(Nat)
  <2>1. \A n \in S : 1..n \subseteq Nat /\ IsFiniteSet(1..n) BY FS_Interval
  <2> QED BY <2>1 DEF FiniteSubsetsOf
<1>2. F # {} OBVIOUS
<1>3. PICK x \in F : \A y \in F : ~(<<y, x>> \in StrictSubsetOrdering(Nat))
  BY <1>1, <1>2, FS_StrictSubsetOrderingWellFounded, WFMin
<1>4. PICK n \in S : x = 1..n OBVIOUS
<1>5. \A m \in S : n <= m
  <2> SUFFICES ASSUME NEW m \in S, m < n PROVE FALSE OBVIOUS
  <2> DEFINE a == 1..m  b == 1..n
  <2>1. /\ a \in SUBSET Nat /\ b \in SUBSET Nat
        /\ a \subseteq b /\ a # b /\ a \in F /\ b = x
    BY <1>4
  <2> HIDE DEF a, b
  <2>2. <<a, b>> \in StrictSubsetOrdering(Nat) BY <2>1 DEF StrictSubsetOrdering
  <2> QED BY <2>1, <2>2, <1>3
<1> QED BY <1>5

LEMMA MaxInterval ==
  ASSUME NEW N \in Nat, NEW S \in SUBSET (1..N), S # {}
  PROVE  Max(S) \in S
<1> DEFINE T == {x \in Nat : N - x \in S}
<1>1. PICK s \in S : TRUE OBVIOUS
<1>2. N - s \in T OBVIOUS
<1>3. PICK t \in T : \A u \in T : t <= u BY <1>2, SmallestNat
<1>4. \A m \in S : N - m \in T OBVIOUS
<1>5. \E x \in S : \A y \in S : x >= y BY <1>3, <1>4
<1> QED BY <1>5 DEF Max

-----------------------------------------------------------------------------
(* Helpers of a purchase.                                                  *)

\* The k-th of the len installments still to come is one of the n of the purchase.
LEMMA PlaceInPlan ==
  ASSUME NEW first \in Nat \ {0}, NEW len \in Nat, NEW k \in 1..len
  PROVE  /\ first - 1 + len \in Nat \ {0}
         /\ first - 1 + k \in 1..(first - 1 + len)
BY SMT

LEMMA ShareType ==
  ASSUME TypeInv, NEW r \in Requests, pc[r] # "idle", input[r].op = "purchase",
         NEW k \in DOMAIN input[r].plan
  PROVE  Share(input[r], k) \in Int
<1> DEFINE in == input[r]
           n  == in.start - 1 + Len(in.plan)
<1>1. in \in [op : {"purchase"}, amount : Amounts, start : Starts, plan : Plans]
  BY DEF TypeInv, InputAsked, Inputs
<1>2. in.plan \in Seq(Periods) /\ in.amount \in Nat /\ in.start \in Nat \ {0}
  BY <1>1, PlansAssumption, AmountsAssumption, StartsAssumption
<1>3. k \in 1..Len(in.plan) /\ Len(in.plan) \in Nat BY <1>2
<1>4. PICK first : first = in.start OBVIOUS
<1>5. PICK len : len = Len(in.plan) OBVIOUS
<1>6. first \in Nat \ {0} /\ len \in Nat /\ k \in 1..len BY <1>2, <1>3, <1>4, <1>5
<1>7. first - 1 + len \in Nat \ {0} /\ first - 1 + k \in 1..(first - 1 + len)
  BY ONLY <1>6, PlaceInPlan
<1>8. n \in Nat \ {0} /\ in.start - 1 + k \in 1..n BY <1>4, <1>5, <1>7
<1> HIDE DEF in, n
<1>9. SplitAmount(in.amount, n)[in.start - 1 + k] \in Int
  BY <1>2, <1>8 DEF SplitAmount
<1> QED BY <1>9 DEF Share, in, n

LEMMA BilledType ==
  ASSUME TypeInv, NEW r \in Requests, pc[r] # "idle", input[r].op = "purchase",
         NEW k \in DOMAIN input[r].plan
  PROVE  /\ TargetOf(r, k) \in InvoiceIds
         /\ BilledTotal(r, k) \in Int
<1>1. input[r].plan \in Seq(Periods)
  BY PlansAssumption DEF TypeInv, InputAsked, Inputs
<1>2. input[r].plan[k] \in Periods BY <1>1
<1>3. seen[r] \in Snapshots BY DEF TypeInv, TypeOK
<1>4. TargetOf(r, k) \in InvoiceIds BY <1>2, <1>3 DEF Snapshots, TargetOf
<1>5. seen[r].invoice[TargetOf(r, k)].total \in Int
  BY <1>3, <1>4 DEF Snapshots, InvoiceRows
<1> QED BY <1>4, <1>5, ShareType DEF BilledTotal

LEMMA LastShareType ==
  ASSUME TypeInv, NEW r \in Requests, pc[r] # "idle", input[r].op = "purchase",
         NEW i \in Touched(r)
  PROVE  LastShareIn(r, i) \in DOMAIN input[r].plan /\ TargetOf(r, LastShareIn(r, i)) = i
<1> DEFINE S == {k \in DOMAIN input[r].plan : TargetOf(r, k) = i}
<1>1. input[r].plan \in Seq(Periods)
  BY PlansAssumption DEF TypeInv, InputAsked, Inputs
<1>2. S \in SUBSET (1..Len(input[r].plan)) /\ Len(input[r].plan) \in Nat BY <1>1
<1>3. S # {} BY DEF Touched
<1> HIDE DEF S
<1>4. Max(S) \in S BY <1>2, <1>3, MaxInterval
<1> QED BY <1>4 DEF S, LastShareIn

-----------------------------------------------------------------------------
(* Every action preserves the types.                                       *)

LEMMA PurchaseBeginType ==
  ASSUME TypeInv, NEW r \in Requests, PurchaseBegin(r)
  PROVE  TypeInv'
<1>1. PICK amount \in Amounts, start \in Starts, plan \in Plans :
        /\ start - 1 + Len(plan) <= MaxInstallments
        /\ Admit(r, [op |-> "purchase", amount |-> amount, start |-> start,
                     plan |-> plan])
  BY DEF PurchaseBegin
<1> DEFINE in == [op |-> "purchase", amount |-> amount, start |-> start,
                  plan |-> plan]
<1>2. in \in Inputs BY DEF Inputs
<1>3. in.start - 1 + Len(in.plan) <= MaxInstallments BY <1>1
<1>4. seen' \in [Requests -> Snapshots]
  <2>1. /\ seen[r] \in Snapshots /\ account \in Accounts
        /\ invoice \in [InvoiceIds -> InvoiceRows]
    BY DEF TypeInv, TypeOK
  <2>2. [seen[r] EXCEPT !.invoice = invoice, !.account = account] \in Snapshots
    BY <2>1 DEF Snapshots
  <2> QED BY <2>2 DEF PurchaseBegin, TypeInv, TypeOK
<1>5. UNCHANGED tables BY DEF PurchaseBegin
<1> HIDE DEF in
<1>6. Admit(r, in) BY <1>1 DEF in
<1> QED BY <1>2, <1>3, <1>4, <1>5, <1>6, AdmitType DEF TypeInv, TypeOK, tables

LEMMA PurchaseLoadType ==
  ASSUME TypeInv, NEW r \in Requests, PurchaseLoad(r)
  PROVE  TypeInv'
<1>1. pc[r] # "idle" BY DEF PurchaseLoad, Loading
<1>2. CASE Reject(r) BY <1>1, <1>2, RejectType
<1>3. CASE ~Reject(r)
  <2>1. PICK target \in [Periods -> InvoiceIds], reuse \in SUBSET ReusableForecasts(r) :
          /\ Advance(r, "ready")
          /\ seen' = [seen EXCEPT ![r] =
                        [@ EXCEPT !.target = target, !.reuse = reuse]]
          /\ UNCHANGED tables
    BY <1>3 DEF PurchaseLoad
  <2>2. reuse \in SUBSET ItemIds BY DEF ReusableForecasts
  <2>3. seen' \in [Requests -> Snapshots]
    <3>1. seen[r] \in Snapshots BY DEF TypeInv, TypeOK
    <3>2. [seen[r] EXCEPT !.target = target, !.reuse = reuse] \in Snapshots
      BY <2>2, <3>1 DEF Snapshots
    <3> QED BY <2>1, <3>2 DEF TypeInv, TypeOK
  <2> QED BY <1>1, <2>1, <2>3, AdvanceType DEF TypeInv, TypeOK, tables
<1> QED BY <1>2, <1>3

LEMMA ForecastsAfterPurchaseType ==
  ASSUME TypeInv, NEW r \in Requests, pc[r] # "idle", input[r].op = "purchase"
  PROVE  ForecastsAfterPurchase(r) \in [ItemIds -> ForecastRows]
<1> SUFFICES ASSUME NEW f \in ItemIds
             PROVE  ForecastsAfterPurchase(r)[f] \in ForecastRows
  BY DEF ForecastsAfterPurchase
<1> DEFINE isReused == f \in seen[r].reuse /\ forecast[f].invoice \in Touched(r)
           isNew == /\ seen[r].account # None /\ f.by = r
                    /\ f.seq \in DOMAIN input[r].plan
                    /\ {g \in seen[r].reuse : forecast[g].invoice = TargetOf(r, f.seq)} = {}
<1>1. forecast[f] \in ForecastRows BY DEF TypeInv, TypeOK
<1>2. CASE isReused
  <2> DEFINE k == LastShareIn(r, forecast[f].invoice)
  <2>1. k \in DOMAIN input[r].plan BY <1>2, LastShareType
  <2>2. ForecastAmount(r, k) \in Int BY <2>1, BilledType DEF ForecastAmount
  <2>3. ForecastsAfterPurchase(r)[f] =
          [forecast[f] EXCEPT !.amount = ForecastAmount(r, k)]
    BY <1>2 DEF ForecastsAfterPurchase, RefreshedForecast
  <2> HIDE DEF k
  <2> QED BY <1>1, <2>2, <2>3 DEF ForecastRows
<1>3. CASE ~isReused /\ isNew
  <2>1. ForecastAmount(r, f.seq) \in Int /\ TargetOf(r, f.seq) \in InvoiceIds
    BY <1>3, BilledType DEF ForecastAmount
  <2>2. seen[r].account \in Accounts \cup {None}
    BY DEF TypeInv, TypeOK, Snapshots
  <2>3. ForecastsAfterPurchase(r)[f] =
          [status |-> "planned", amount |-> ForecastAmount(r, f.seq),
           invoice |-> TargetOf(r, f.seq), account |-> seen[r].account]
    BY <1>3 DEF ForecastsAfterPurchase
  <2> QED BY <2>1, <2>2, <2>3 DEF ForecastRows
<1>4. CASE ~isReused /\ ~isNew
  BY <1>1, <1>4 DEF ForecastsAfterPurchase
<1> QED BY <1>2, <1>3, <1>4

LEMMA PurchaseCommitType ==
  ASSUME TypeInv, NEW r \in Requests, PurchaseCommit(r)
  PROVE  TypeInv'
<1>1. pc[r] # "idle" /\ input[r].op = "purchase" BY DEF PurchaseCommit, Ready
<1>2. CASE Reject(r) BY <1>1, <1>2, RejectType
<1>3. CASE ~Reject(r)
  <2>1. /\ invoice' = InvoicesAfterPurchase(r)
        /\ purchase' = [purchase EXCEPT ![r] =
             [status |-> "posted", amount |-> input[r].amount,
              invoice |-> TargetOf(r, 1)]]
        /\ installment' = InstallmentsAfterPurchase(r)
        /\ forecast' = ForecastsAfterPurchase(r)
        /\ Finish(r, "done")
        /\ UNCHANGED <<account, payment>>
    BY <1>3 DEF PurchaseCommit
  <2>2. /\ input[r].amount \in Int /\ input[r].plan \in Seq(Periods)
        /\ 1 \in DOMAIN input[r].plan
    <3>1. input[r].amount \in Amounts /\ input[r].plan \in Plans
      BY <1>1 DEF TypeInv, InputAsked, Inputs
    <3>2. input[r].plan \in Seq(Periods) /\ Len(input[r].plan) \in 1..MaxInstallments
      BY <3>1, PlansAssumption
    <3>3. 1 \in 1..Len(input[r].plan)
      <4> DEFINE n == Len(input[r].plan)
      <4>1. n \in 1..MaxInstallments BY <3>2
      <4> HIDE DEF n
      <4>2. 1 \in 1..n BY <4>1, MaxInstallmentsAssumption
      <4> QED BY <4>2 DEF n
    <3>4. DOMAIN input[r].plan = 1..Len(input[r].plan) BY <3>2
    <3>5. \A a \in Amounts : a \in Int BY AmountsAssumption
    <3>6. input[r].amount \in Int BY <3>1, <3>5
    <3> QED BY <3>2, <3>3, <3>4, <3>6
  <2>3. invoice' \in [InvoiceIds -> InvoiceRows]
    <3>1. \A i \in InvoiceIds : InvoicesAfterPurchase(r)[i] \in InvoiceRows
      <4> SUFFICES ASSUME NEW i \in InvoiceIds
                   PROVE  InvoicesAfterPurchase(r)[i] \in InvoiceRows
        OBVIOUS
      <4>1. CASE i \in Touched(r)
        <5>1. BilledTotal(r, LastShareIn(r, i)) \in Int
          BY <1>1, <4>1, LastShareType, BilledType
        <5>2. seen[r].invoice[i].payment \in Requests \cup {None}
          BY DEF TypeInv, TypeOK, Snapshots, InvoiceRows
        <5> QED BY <4>1, <5>1, <5>2 DEF InvoicesAfterPurchase, InvoiceRows
      <4>2. CASE i \notin Touched(r)
        BY <4>2 DEF InvoicesAfterPurchase, TypeInv, TypeOK
      <4> QED BY <4>1, <4>2
    <3> QED BY <2>1, <3>1 DEF InvoicesAfterPurchase
  <2>4. purchase' \in [Requests -> PurchaseRows]
    <3>1. TargetOf(r, 1) \in InvoiceIds BY <1>1, <2>2, BilledType
    <3> QED BY <2>1, <2>2, <3>1 DEF TypeInv, TypeOK, PurchaseRows
  <2>5. installment' \in [ItemIds -> InstallmentRows]
    <3>1. \A k \in DOMAIN input[r].plan :
            TargetOf(r, k) \in InvoiceIds /\ Share(input[r], k) \in Int
      BY <1>1, BilledType, ShareType
    <3> QED BY <2>1, <3>1 DEF InstallmentsAfterPurchase, TypeInv, TypeOK, InstallmentRows
  <2>6. forecast' \in [ItemIds -> ForecastRows]
    BY <1>1, <2>1, ForecastsAfterPurchaseType
  <2>7. /\ pc' \in [Requests -> {"idle", "loading", "ready", "done", "rejected"}]
        /\ input' \in [Requests -> Inputs \cup {None}]
        /\ seen' \in [Requests -> Snapshots]
        /\ InputAsked' /\ PlanFits'
    BY <1>1, <2>1, FinishType
  <2> QED BY <2>1, <2>3, <2>4, <2>5, <2>6, <2>7 DEF TypeInv, TypeOK
<1> QED BY <1>2, <1>3

\* What the fields of an input and of a snapshot are.
LEMMA InputType ==
  ASSUME TypeInv, NEW r \in Requests, pc[r] # "idle"
  PROVE  /\ input[r].op = "edit" =>
              input[r].purchase \in Requests /\ input[r].amount \in Int
                /\ input[r].status \in EditStatuses
         /\ input[r].op = "move" =>
              input[r].purchase \in Requests /\ input[r].period \in Periods
         /\ input[r].op \in {"close", "pay"} => input[r].invoice \in InvoiceIds
<1>1. input[r] \in Inputs BY DEF TypeInv, InputAsked
<1>2. \A a \in Amounts : a \in Int BY AmountsAssumption
<1> QED BY <1>1, <1>2 DEF Inputs

LEMMA SeenType ==
  ASSUME TypeInv, NEW r \in Requests
  PROVE  seen[r] \in Snapshots
BY DEF TypeInv, TypeOK

LEMMA EditType ==
  ASSUME TypeInv, NEW r \in Requests, EditBegin(r) \/ EditLoad(r) \/ EditCommit(r)
  PROVE  TypeInv'
<1>1. CASE EditBegin(r)
  <2>1. PICK q \in Requests, amount \in Amounts, status \in EditStatuses :
          /\ Admit(r, [op |-> "edit", purchase |-> q, amount |-> amount,
                       status |-> status])
          /\ seen' = [seen EXCEPT ![r] = [@ EXCEPT !.purchase = purchase[q]]]
          /\ UNCHANGED tables
    BY <1>1 DEF EditBegin
  <2> DEFINE in == [op |-> "edit", purchase |-> q, amount |-> amount,
                    status |-> status]
  <2>2. in \in Inputs /\ in.op # "purchase" BY DEF Inputs
  <2>3. [seen[r] EXCEPT !.purchase = purchase[q]] \in Snapshots
    <3>1. purchase[q] \in PurchaseRows BY DEF TypeInv, TypeOK
    <3> QED BY <3>1, SeenType DEF Snapshots
  <2>4. seen' \in [Requests -> Snapshots] BY <2>1, <2>3 DEF TypeInv, TypeOK
  <2>5. Admit(r, in) BY <2>1
  <2> HIDE DEF in
  <2> QED BY <2>1, <2>2, <2>4, <2>5, AdmitType DEF TypeInv, TypeOK, tables
<1>2. CASE EditLoad(r)
  <2>1. pc[r] # "idle" BY <1>2 DEF EditLoad, Loading
  <2>2. CASE Reject(r) BY <2>1, <2>2, RejectType
  <2>3. CASE ~Reject(r)
    <3> DEFINE i == seen[r].purchase.invoice
               s == [seen[r] EXCEPT !.invoice[i] = invoice[i]]
    <3>1. /\ Advance(r, "ready")
          /\ seen' = [seen EXCEPT ![r] = s]
          /\ UNCHANGED tables
      BY <1>2, <2>3 DEF EditLoad, TypeInv, TypeOK
    <3>2. [seen[r].invoice EXCEPT ![i] = invoice[i]] \in [InvoiceIds -> InvoiceRows]
      <4>1. seen[r].invoice \in [InvoiceIds -> InvoiceRows] BY SeenType DEF Snapshots
      <4>2. i \in InvoiceIds => invoice[i] \in InvoiceRows BY DEF TypeInv, TypeOK
      <4> QED BY <4>1, <4>2
    <3>3. s \in Snapshots
      <4>1. PICK f : f = [seen[r].invoice EXCEPT ![i] = invoice[i]] OBVIOUS
      <4>2. f \in [InvoiceIds -> InvoiceRows] BY <3>2, <4>1
      <4>3. [seen[r] EXCEPT !.invoice = f] \in Snapshots BY <4>2, SeenType DEF Snapshots
      <4> QED BY <4>1, <4>3
    <3> HIDE DEF s
    <3>4. seen' \in [Requests -> Snapshots] BY <3>1, <3>3 DEF TypeInv, TypeOK
    <3> QED BY <2>1, <3>1, <3>4, AdvanceType DEF TypeInv, TypeOK, tables
  <2> QED BY <2>2, <2>3
<1>3. CASE EditCommit(r)
  <2> DEFINE old == seen[r].purchase
             in  == input[r]
  <2>1. pc[r] # "idle" /\ in.op = "edit" BY <1>3 DEF EditCommit, Ready
  <2>2. in.amount \in Int /\ in.status \in EditStatuses BY <2>1, InputType
  <2>3. old \in PurchaseRows BY SeenType DEF Snapshots
  <2>4. NextStatus(in, old) \in {"absent", "posted", "planned", "voided"}
    BY <2>2, <2>3, EditStatusesAssumption DEF NextStatus, PurchaseRows
  <2>5. purchase' \in [Requests -> PurchaseRows]
    <3>1. in.purchase \in Requests BY <2>1, InputType
    <3>2. purchase[in.purchase] \in PurchaseRows BY <3>1 DEF TypeInv, TypeOK
    <3> DEFINE row == [purchase[in.purchase] EXCEPT
                         !.amount = in.amount, !.status = NextStatus(in, old)]
    <3>3. row \in PurchaseRows BY <2>2, <2>4, <3>2 DEF PurchaseRows
    <3>4. purchase' = [purchase EXCEPT ![in.purchase] = row]
      BY <1>3, <3>1 DEF EditCommit, TypeInv, TypeOK
    <3> HIDE DEF row
    <3> QED BY <3>3, <3>4 DEF TypeInv, TypeOK
  <2>6. invoice' \in [InvoiceIds -> InvoiceRows]
    <3>1. CASE old.invoice \in InvoiceIds
      <4>1. invoice[old.invoice].total \in Int
        BY <3>1 DEF TypeInv, TypeOK, InvoiceRows
      <4>2. old.amount \in Int BY <2>3 DEF PurchaseRows
      <4>3. TotalAfterEdit(r) \in Int BY <2>2, <4>1, <4>2 DEF TotalAfterEdit
      <4>4. invoice[old.invoice] \in InvoiceRows
        BY <3>1 DEF TypeInv, TypeOK
      <4>5. [invoice[old.invoice] EXCEPT !.total = TotalAfterEdit(r)] \in InvoiceRows
        BY <4>3, <4>4 DEF InvoiceRows
      <4> QED BY <1>3, <3>1, <4>5 DEF EditCommit, TypeInv, TypeOK
    <3>2. CASE old.invoice \notin InvoiceIds
      BY <1>3, <3>2 DEF EditCommit, TypeInv, TypeOK
    <3> QED BY <3>1, <3>2
  <2>7. Finish(r, "done") /\ UNCHANGED <<account, installment, forecast, payment>>
    BY <1>3 DEF EditCommit
  <2> QED BY <2>1, <2>5, <2>6, <2>7, FinishType DEF TypeInv, TypeOK
<1> QED BY <1>1, <1>2, <1>3

\* An invoice stays well formed when an amount moves out of it or into it.
LEMMA LessRowType ==
  ASSUME NEW row \in InvoiceRows, NEW a \in Int
  PROVE  [row EXCEPT !.total = @ - a] \in InvoiceRows
BY DEF InvoiceRows

LEMMA MoreRowType ==
  ASSUME NEW row \in InvoiceRows, NEW a \in Int, NEW found \in BOOLEAN
  PROVE  [row EXCEPT !.total = @ + a,
                     !.status = IF found THEN @ ELSE "open"] \in InvoiceRows
<1>1. row.total + a \in Int BY DEF InvoiceRows
<1>2. CASE found BY <1>1, <1>2 DEF InvoiceRows
<1>3. CASE ~found BY <1>1, <1>3 DEF InvoiceRows
<1> QED BY <1>2, <1>3

LEMMA MoveSnapshotType ==
  ASSUME NEW s \in Snapshots, NEW p \in Periods, NEW to \in InvoiceIds,
         NEW row \in InvoiceRows, NEW a \in Int
  PROVE  [s EXCEPT !.amount = a, !.target[p] = to, !.invoice[to] = row] \in Snapshots
<1>1. [s EXCEPT !.amount = a] \in Snapshots BY DEF Snapshots
<1>2. [s.target EXCEPT ![p] = to] \in [Periods -> InvoiceIds] BY DEF Snapshots
<1>3. [s.invoice EXCEPT ![to] = row] \in [InvoiceIds -> InvoiceRows] BY DEF Snapshots
<1> QED BY <1>1, <1>2, <1>3 DEF Snapshots

LEMMA SnapshotInvoice ==
  ASSUME NEW s \in Snapshots, NEW i \in InvoiceIds, NEW row \in InvoiceRows
  PROVE  [s EXCEPT !.invoice[i] = row] \in Snapshots
<1>1. s.invoice \in [InvoiceIds -> InvoiceRows] BY DEF Snapshots
<1>2. PICK f : f = [s.invoice EXCEPT ![i] = row] OBVIOUS
<1>3. f \in [InvoiceIds -> InvoiceRows] BY ONLY <1>1, <1>2, i \in InvoiceIds, row \in InvoiceRows
<1>4. [s EXCEPT !.invoice = f] \in Snapshots BY <1>3 DEF Snapshots
<1> QED BY <1>2, <1>4

LEMMA MoveCommitRows ==
  ASSUME TypeInv, NEW r \in Requests, pc[r] # "idle", input[r].op = "move"
  PROVE  /\ seen[r].target[input[r].period] \in InvoiceIds
         /\ InvoicesAfterMove(r) \in [InvoiceIds -> InvoiceRows]
<1>1. input[r].period \in Periods BY InputType
<1>2. seen[r].target[input[r].period] \in InvoiceIds BY <1>1, SeenType DEF Snapshots
<1>3. seen[r].amount \in Int BY SeenType DEF Snapshots
<1>4. \A i \in InvoiceIds : invoice[i] \in InvoiceRows BY DEF TypeInv, TypeOK
<1>5. Exists(seen[r].invoice, seen[r].target[input[r].period]) \in BOOLEAN
  BY DEF Exists
<1>6. \A i \in InvoiceIds : InvoicesAfterMove(r)[i] \in InvoiceRows
  BY <1>3, <1>4, <1>5, LessRowType, MoreRowType DEF InvoicesAfterMove
<1>7. InvoicesAfterMove(r) \in [InvoiceIds -> InvoiceRows]
  BY <1>6 DEF InvoicesAfterMove
<1> QED BY <1>2, <1>7

LEMMA MoveType ==
  ASSUME TypeInv, NEW r \in Requests, MoveBegin(r) \/ MoveLoad(r) \/ MoveCommit(r)
  PROVE  TypeInv'
<1>1. CASE MoveBegin(r)
  <2>1. PICK q \in Requests, p \in Periods :
          /\ Admit(r, [op |-> "move", purchase |-> q, period |-> p])
          /\ seen' = [seen EXCEPT ![r] = [@ EXCEPT !.purchase = purchase[q]]]
          /\ UNCHANGED tables
    BY <1>1 DEF MoveBegin
  <2> DEFINE in == [op |-> "move", purchase |-> q, period |-> p]
  <2>2. in \in Inputs /\ in.op # "purchase" BY DEF Inputs
  <2>3. [seen[r] EXCEPT !.purchase = purchase[q]] \in Snapshots
    <3>1. purchase[q] \in PurchaseRows BY DEF TypeInv, TypeOK
    <3> QED BY <3>1, SeenType DEF Snapshots
  <2>4. seen' \in [Requests -> Snapshots] BY <2>1, <2>3 DEF TypeInv, TypeOK
  <2>5. Admit(r, in) BY <2>1
  <2> HIDE DEF in
  <2> QED BY <2>1, <2>2, <2>4, <2>5, AdmitType DEF TypeInv, TypeOK, tables
<1>2. CASE MoveLoad(r)
  <2>1. pc[r] # "idle" /\ input[r].op = "move" BY <1>2 DEF MoveLoad, Loading
  <2>2. CASE Reject(r) BY <2>1, <2>2, RejectType
  <2>3. CASE ~Reject(r)
    <3>1. PICK to \in Destinations(r), amount \in MoveAmounts(r) :
            /\ Advance(r, "ready")
            /\ seen' = [seen EXCEPT ![r] =
                 [@ EXCEPT !.amount = amount,
                           !.target[input[r].period] = to,
                           !.invoice[to] = invoice[to]]]
            /\ UNCHANGED tables
      BY <1>2, <2>3 DEF MoveLoad
    <3>2. input[r].period \in Periods BY <2>1, InputType
    <3>3. to \in InvoiceIds
      <4>1. [by |-> r, period |-> input[r].period] \in InvoiceIds
        BY <3>2 DEF InvoiceIds
      <4> QED BY <4>1 DEF Destinations
    <3>4. amount \in Int
      <4>1. seen[r].purchase.amount \in Int BY SeenType DEF Snapshots, PurchaseRows
      <4>2. \A x \in ItemIds : installment[x].amount \in Int
        BY DEF TypeInv, TypeOK, InstallmentRows
      <4> QED BY <4>1, <4>2 DEF MoveAmounts
    <3> DEFINE s == [seen[r] EXCEPT !.amount = amount,
                                    !.target[input[r].period] = to,
                                    !.invoice[to] = invoice[to]]
    <3>5. invoice[to] \in InvoiceRows BY <3>3 DEF TypeInv, TypeOK
    <3>6. s \in Snapshots BY <3>2, <3>3, <3>4, <3>5, SeenType, MoveSnapshotType
    <3> HIDE DEF s
    <3>7. seen' = [seen EXCEPT ![r] = s] BY <3>1 DEF s
    <3>8. seen' \in [Requests -> Snapshots] BY <3>6, <3>7 DEF TypeInv, TypeOK
    <3> QED BY <2>1, <3>1, <3>8, AdvanceType DEF TypeInv, TypeOK, tables
  <2> QED BY <2>2, <2>3
<1>3. CASE MoveCommit(r)
  <2>1. pc[r] # "idle" /\ input[r].op = "move" BY <1>3 DEF MoveCommit, Ready
  <2>2. CASE Reject(r) BY <2>1, <2>2, RejectType
  <2>3. CASE ~Reject(r)
    <3>1. /\ invoice' = InvoicesAfterMove(r)
          /\ purchase' = [purchase EXCEPT ![input[r].purchase].invoice =
                            seen[r].target[input[r].period]]
          /\ Finish(r, "done")
          /\ UNCHANGED <<account, installment, forecast, payment>>
      BY <1>3, <2>3 DEF MoveCommit
    <3>2. purchase' \in [Requests -> PurchaseRows]
      <4>1. PICK to : to = seen[r].target[input[r].period] OBVIOUS
      <4>2. PICK q : q = input[r].purchase OBVIOUS
      <4>3. to \in InvoiceIds BY <2>1, <4>1, MoveCommitRows
      <4>4. purchase \in [Requests -> PurchaseRows] BY DEF TypeInv, TypeOK
      <4>5. ASSUME NEW x \in Requests PROVE [purchase[x] EXCEPT !.invoice = to] \in PurchaseRows
        BY <4>3, <4>4 DEF PurchaseRows
      <4>6. purchase' = [purchase EXCEPT ![q].invoice = to] BY <3>1, <4>1, <4>2
      <4> QED BY ONLY <4>4, <4>5, <4>6
    <3>3. invoice' \in [InvoiceIds -> InvoiceRows] BY <2>1, <3>1, MoveCommitRows
    <3> QED BY <2>1, <3>1, <3>2, <3>3, FinishType DEF TypeInv, TypeOK
  <2> QED BY <2>2, <2>3
<1> QED BY <1>1, <1>2, <1>3

LEMMA CloseType ==
  ASSUME TypeInv, NEW r \in Requests, CloseBegin(r) \/ CloseLoad(r) \/ CloseCommit(r)
  PROVE  TypeInv'
<1>1. CASE CloseBegin(r)
  <2>1. PICK i \in InvoiceIds : Admit(r, [op |-> "close", invoice |-> i])
    BY <1>1 DEF CloseBegin
  <2> DEFINE in == [op |-> "close", invoice |-> i]
  <2>2. in \in Inputs /\ in.op # "purchase" BY DEF Inputs
  <2>3. Admit(r, in) BY <2>1
  <2>4. UNCHANGED <<tables, seen>> BY <1>1 DEF CloseBegin
  <2> HIDE DEF in
  <2> QED BY <2>2, <2>3, <2>4, AdmitType DEF TypeInv, TypeOK, tables
<1>2. CASE CloseLoad(r)
  <2>1. pc[r] # "idle" BY <1>2 DEF CloseLoad, Loading
  <2>2. CASE Reject(r) BY <2>1, <2>2, RejectType
  <2>3. CASE ~Reject(r)
    BY <1>2, <2>1, <2>3, AdvanceType DEF CloseLoad, TypeInv, TypeOK, tables
  <2> QED BY <2>2, <2>3
<1>3. CASE CloseCommit(r)
  <2>1. pc[r] # "idle" /\ input[r].op = "close" BY <1>3 DEF CloseCommit, Ready
  <2>2. input[r].invoice \in InvoiceIds BY <2>1, InputType
  <2>3. /\ invoice' = [invoice EXCEPT ![input[r].invoice].status = "closed"]
        /\ Finish(r, "done")
        /\ UNCHANGED <<account, purchase, installment, forecast, payment>>
    BY <1>3 DEF CloseCommit
  <2>4. invoice' \in [InvoiceIds -> InvoiceRows]
    BY <2>2, <2>3 DEF TypeInv, TypeOK, InvoiceRows
  <2> QED BY <2>1, <2>3, <2>4, FinishType DEF TypeInv, TypeOK
<1> QED BY <1>1, <1>2, <1>3

LEMMA VoidChoiceType ==
  ASSUME NEW i, NEW void \in VoidChoices(i)
  PROVE  void[1] \in SUBSET PlannedForecastsOf(i) /\ void[2] \in SUBSET Requests
BY DEF VoidChoices, PlannedForecastsOf, PlannedPurchasesOf

LEMMA PayType ==
  ASSUME TypeInv, NEW r \in Requests, PayBegin(r) \/ PayLoad(r) \/ PayCommit(r)
  PROVE  TypeInv'
<1>1. CASE PayBegin(r)
  <2>1. PICK i \in InvoiceIds :
          /\ Admit(r, [op |-> "pay", invoice |-> i])
          /\ seen' = [seen EXCEPT ![r] = [@ EXCEPT !.invoice[i] = invoice[i]]]
          /\ UNCHANGED tables
    BY <1>1 DEF PayBegin
  <2> DEFINE in == [op |-> "pay", invoice |-> i]
             s  == [seen[r] EXCEPT !.invoice[i] = invoice[i]]
  <2>2. in \in Inputs /\ in.op # "purchase" BY DEF Inputs
  <2>3. invoice[i] \in InvoiceRows /\ seen[r] \in Snapshots BY SeenType DEF TypeInv, TypeOK
  <2>4. s \in Snapshots BY <2>3, SnapshotInvoice
  <2>5. Admit(r, in) /\ seen' = [seen EXCEPT ![r] = s] BY <2>1
  <2> HIDE DEF in, s
  <2>6. seen' \in [Requests -> Snapshots] BY <2>4, <2>5 DEF TypeInv, TypeOK
  <2> QED BY <2>1, <2>2, <2>5, <2>6, AdmitType DEF TypeInv, TypeOK, tables
<1>2. CASE PayLoad(r)
  <2>1. pc[r] # "idle" BY <1>2 DEF PayLoad, Loading
  <2>2. CASE Reject(r) BY <2>1, <2>2, RejectType
  <2>3. CASE ~Reject(r)
    <3>1. PICK void \in VoidChoices(input[r].invoice) :
            /\ Advance(r, "ready")
            /\ seen' = [seen EXCEPT ![r] =
                 [@ EXCEPT !.voidForecast = void[1], !.voidPurchase = void[2]]]
            /\ UNCHANGED tables
      BY <1>2, <2>3 DEF PayLoad
    <3>2. void[1] \in SUBSET ItemIds /\ void[2] \in SUBSET Requests
      BY VoidChoiceType DEF PlannedForecastsOf
    <3> DEFINE vf == void[1]
               vp == void[2]
    <3>3. [seen[r] EXCEPT !.voidForecast = vf, !.voidPurchase = vp] \in Snapshots
      <4> HIDE DEF vf, vp
      <4>1. vf \in SUBSET ItemIds /\ vp \in SUBSET Requests BY <3>2 DEF vf, vp
      <4>2. seen[r] \in Snapshots BY SeenType
      <4> QED BY <4>1, <4>2 DEF Snapshots
    <3>4. seen' \in [Requests -> Snapshots] BY <3>1, <3>3 DEF TypeInv, TypeOK
    <3> QED BY <2>1, <3>1, <3>4, AdvanceType DEF TypeInv, TypeOK, tables
  <2> QED BY <2>2, <2>3
<1>3. CASE PayCommit(r)
  <2> DEFINE i == input[r].invoice
             total == seen[r].invoice[i].total
  <2>1. pc[r] # "idle" /\ input[r].op = "pay" BY <1>3 DEF PayCommit, Ready
  <2>2. i \in InvoiceIds BY <2>1, InputType
  <2>3. total \in Int BY <2>2, SeenType DEF Snapshots, InvoiceRows
  <2>4. /\ payment' = [payment EXCEPT ![r] = [invoice |-> i, amount |-> total]]
        /\ invoice' = [invoice EXCEPT ![i] =
             [status |-> "paid", total |-> total, payment |-> r]]
        /\ Finish(r, "done")
        /\ UNCHANGED <<account, installment>>
    BY <1>3 DEF PayCommit
  <2>5. payment' \in [Requests -> PaymentRows]
    BY <2>2, <2>3, <2>4 DEF TypeInv, TypeOK, PaymentRows
  <2>6. invoice' \in [InvoiceIds -> InvoiceRows]
    BY <2>2, <2>3, <2>4 DEF TypeInv, TypeOK, InvoiceRows
  <2>7. forecast' \in [ItemIds -> ForecastRows]
    BY <1>3 DEF PayCommit, TypeInv, TypeOK, ForecastRows
  <2>8. purchase' \in [Requests -> PurchaseRows]
    BY <1>3 DEF PayCommit, TypeInv, TypeOK, PurchaseRows
  <2> QED BY <2>1, <2>4, <2>5, <2>6, <2>7, <2>8, FinishType DEF TypeInv, TypeOK
<1> QED BY <1>1, <1>2, <1>3

-----------------------------------------------------------------------------
(* Type correctness.                                                       *)

LEMMA TypeInit == Init => TypeInv
<1> SUFFICES ASSUME Init PROVE TypeInv OBVIOUS
<1>1. TypeOK
  BY NothingSeenType
  DEF Init, TypeOK, NoInvoice, NoPurchase, NoInstallment, NoForecast, NoPayment,
      InvoiceRows, PurchaseRows, InstallmentRows, ForecastRows, PaymentRows
<1> QED BY <1>1 DEF Init, TypeInv, InputAsked, PlanFits

LEMMA TypeStep == TypeInv /\ [Next]_vars => TypeInv'
<1> SUFFICES ASSUME TypeInv, [Next]_vars PROVE TypeInv' OBVIOUS
<1>1. CASE SetPaymentAccount
  BY <1>1 DEF SetPaymentAccount, requests, TypeInv, TypeOK, InputAsked, PlanFits
<1>2. ASSUME NEW r \in Requests, Step(r) PROVE TypeInv'
  BY <1>2, PurchaseBeginType, PurchaseLoadType, PurchaseCommitType, EditType,
     MoveType, CloseType, PayType DEF Step
<1>3. CASE UNCHANGED vars
  BY <1>3 DEF vars, tables, requests, TypeInv, TypeOK, InputAsked, PlanFits
<1> QED BY <1>1, <1>2, <1>3 DEF Next

\* The tables, and what every request in flight remembers, keep their types
\* however the requests interleave: no handler writes a status, a link or an
\* amount that the schema has no room for, whatever its reads returned.
THEOREM TypeCorrect == Spec => []TypeOK
<1>1. TypeInv => TypeOK BY DEF TypeInv
<1> QED BY <1>1, TypeInit, TypeStep, PTL DEF Spec

-----------------------------------------------------------------------------
(* The link between an invoice and its payment.                            *)

\* A step of one request leaves what the others are doing alone, and is never
\* a step of a request that is done.
LEMMA OnlyOne ==
  ASSUME TypeInv, NEW r \in Requests, Step(r)
  PROVE  /\ pc[r] # "done"
         /\ \A q \in Requests \ {r} :
              pc'[q] = pc[q] /\ input'[q] = input[q] /\ seen'[q] = seen[q]
<1>1. CASE PurchaseBegin(r) \/ EditBegin(r) \/ MoveBegin(r) \/ CloseBegin(r) \/ PayBegin(r)
  BY <1>1 DEF PurchaseBegin, EditBegin, MoveBegin, CloseBegin, PayBegin, Admit,
              TypeInv, TypeOK
<1>2. CASE PurchaseLoad(r) \/ EditLoad(r) \/ MoveLoad(r) \/ CloseLoad(r) \/ PayLoad(r)
  BY <1>2 DEF PurchaseLoad, EditLoad, MoveLoad, CloseLoad, PayLoad, Loading,
              Reject, Finish, Advance, TypeInv, TypeOK
<1>3. CASE PurchaseCommit(r) \/ EditCommit(r) \/ MoveCommit(r) \/ CloseCommit(r) \/ PayCommit(r)
  BY <1>3 DEF PurchaseCommit, EditCommit, MoveCommit, CloseCommit, PayCommit,
              Ready, Reject, Finish, Advance, TypeInv, TypeOK
<1> QED BY <1>1, <1>2, <1>3 DEF Step

\* Requests that do not step keep their invariant while invoices only appear.
LEMMA OthersKeep ==
  ASSUME TypeInv, NEW q \in Requests, RequestInv(q),
         pc'[q] = pc[q], input'[q] = input[q], seen'[q] = seen[q],
         \A i \in InvoiceIds : Exists(invoice, i) => Exists(invoice, i)'
  PROVE  RequestInv(q)'
<1>1. AimExists(q)'
  <2>1. InFlight(q) /\ input[q].op \in {"close", "pay"} =>
          input[q].invoice \in InvoiceIds
    BY InputType DEF InFlight
  <2> QED BY <2>1 DEF RequestInv, AimExists, InFlight, Exists
<1>2. SnapshotUnpaid(q)' BY DEF RequestInv, SnapshotUnpaid
<1>3. TargetsReadOpen(q)'
  BY DEF RequestInv, TargetsReadOpen, Ready, TargetOf, Exists
<1>4. DestinationOwn(q)' BY DEF RequestInv, DestinationOwn, Ready, Exists
<1>5. SnapshotExists(q)' BY DEF RequestInv, SnapshotExists, Exists
<1> QED BY <1>1, <1>2, <1>3, <1>4, <1>5 DEF RequestInv

\* A request that is over remembers nothing and aims at nothing.
LEMMA FinishedInv ==
  ASSUME TypeInv, NEW r \in Requests, NEW to \in {"done", "rejected"},
         Finish(r, to)
  PROVE  pc'[r] = to /\ RequestInv(r)'
<1>1. pc'[r] = to /\ seen'[r] = NothingSeen(r)
  BY DEF Finish, Advance, TypeInv, TypeOK
<1> QED BY <1>1 DEF RequestInv, AimExists, InFlight, SnapshotUnpaid,
                    SnapshotExists, Exists, TargetsReadOpen, DestinationOwn,
                    Ready, NothingSeen, NoInvoice

\* What remains to be shown of a step: the tables, and the request that steps.
LEMMA LinkFromStep ==
  ASSUME LinkInv, NEW r \in Requests, Step(r),
         PaymentLink', RequestInv(r)',
         \A i \in InvoiceIds : Exists(invoice, i) => Exists(invoice, i)',
         \A i \in InvoiceIds : Exists(invoice, i)' =>
           Exists(invoice, i) \/ pc'[i.by] = "done",
         \A i \in InvoiceIds :
           invoice'[i].payment \in {None, invoice[i].payment}
             \/ pc'[invoice'[i].payment] = "done"
  PROVE  LinkInv'
<1>1. TypeInv' BY TypeStep DEF LinkInv, Next
<1>2. \A q \in Requests : pc[q] = "done" => pc'[q] = "done"
  BY OnlyOne DEF LinkInv
<1>3. InvoiceMinted'
  BY <1>2 DEF LinkInv, InvoiceMinted, InvoiceIds
<1>4. PayerDone'
  <2>1. \A i \in InvoiceIds : invoice[i].payment \in Requests \cup {None}
    BY DEF LinkInv, TypeInv, TypeOK, InvoiceRows
  <2> QED BY <1>2, <2>1 DEF LinkInv, PayerDone
<1>5. \A q \in Requests \ {r} : RequestInv(q)'
  BY OnlyOne, OthersKeep DEF LinkInv
<1> QED BY <1>1, <1>3, <1>4, <1>5 DEF LinkInv

\* A step that only reads.
LEMMA LinkFromRead ==
  ASSUME LinkInv, NEW r \in Requests, Step(r), UNCHANGED tables, RequestInv(r)'
  PROVE  LinkInv'
<1>1. PaymentLink' BY DEF LinkInv, PaymentLink, tables
<1>2. \A i \in InvoiceIds : invoice'[i] = invoice[i] BY DEF tables
<1> QED BY <1>1, <1>2, LinkFromStep DEF Exists

LEMMA LinkReject ==
  ASSUME LinkInv, NEW r \in Requests, Step(r), Reject(r)
  PROVE  LinkInv'
<1>1. RequestInv(r)' BY FinishedInv DEF Reject, LinkInv
<1> QED BY <1>1, LinkFromRead DEF Reject

LEMMA LinkBegin ==
  ASSUME LinkInv, NEW r \in Requests,
         PurchaseBegin(r) \/ EditBegin(r) \/ MoveBegin(r) \/ CloseBegin(r)
           \/ PayBegin(r)
  PROVE  LinkInv'
<1>1. UNCHANGED tables
  BY DEF PurchaseBegin, EditBegin, MoveBegin, CloseBegin, PayBegin
<1>2. pc'[r] = "loading"
  BY DEF PurchaseBegin, EditBegin, MoveBegin, CloseBegin, PayBegin, Admit,
         LinkInv, TypeInv, TypeOK
<1>3. input'[r].op \in {"close", "pay"} => Exists(invoice, input'[r].invoice)
  <2>1. \A in : Admit(r, in) => input'[r] = in
    BY DEF Admit, LinkInv, TypeInv, TypeOK
  <2>2. CASE PurchaseBegin(r) BY <2>1, <2>2 DEF PurchaseBegin
  <2>3. CASE EditBegin(r) BY <2>1, <2>3 DEF EditBegin
  <2>4. CASE MoveBegin(r) BY <2>1, <2>4 DEF MoveBegin
  <2>5. CASE CloseBegin(r) BY <2>1, <2>5 DEF CloseBegin
  <2>6. CASE PayBegin(r) BY <2>1, <2>6 DEF PayBegin
  <2> QED BY <2>2, <2>3, <2>4, <2>5, <2>6
<1>4. AimExists(r)' BY <1>1, <1>3 DEF AimExists, Exists, tables
<1>5. SnapshotUnpaid(r)' /\ SnapshotExists(r)'
  <2>1. \A i \in InvoiceIds :
          invoice[i].status \in {"absent", "open"} => invoice[i].payment = None
    BY DEF LinkInv, PaymentLink
  <2>0. \A i \in InvoiceIds : invoice'[i] = invoice[i] BY <1>1 DEF tables
  <2>2. seen[r] \in Snapshots /\ seen \in [Requests -> Snapshots]
    BY DEF LinkInv, TypeInv, TypeOK
  <2>3. SnapshotUnpaid(r) /\ SnapshotExists(r) BY DEF LinkInv, RequestInv
  <2>4. CASE PurchaseBegin(r)
    <3>1. seen'[r].invoice = invoice BY <2>2, <2>4 DEF PurchaseBegin, Snapshots
    <3> QED BY <2>0, <2>1, <3>1 DEF SnapshotUnpaid, SnapshotExists, Exists
  <2>5. CASE EditBegin(r) \/ MoveBegin(r) \/ CloseBegin(r)
    <3>1. seen'[r].invoice = seen[r].invoice
      BY <2>2, <2>5 DEF EditBegin, MoveBegin, CloseBegin, Snapshots
    <3> QED BY <2>0, <2>3, <3>1 DEF SnapshotUnpaid, SnapshotExists, Exists
  <2>6. CASE PayBegin(r)
    <3>1. \A i \in InvoiceIds : seen'[r].invoice[i] \in {invoice[i], seen[r].invoice[i]}
      BY <2>2, <2>6 DEF PayBegin, Snapshots
    <3> QED BY <2>0, <2>1, <2>3, <3>1 DEF SnapshotUnpaid, SnapshotExists, Exists
  <2> QED BY <2>4, <2>5, <2>6
<1>6. RequestInv(r)'
  BY <1>2, <1>4, <1>5 DEF RequestInv, TargetsReadOpen, DestinationOwn, Ready
<1>7. Step(r) BY DEF Step
<1> QED BY <1>1, <1>6, <1>7, LinkFromRead

\* A request that passed its checks keeps what Begin and the checks established.
LEMMA LinkReady ==
  ASSUME LinkInv, NEW r \in Requests, Step(r), Advance(r, "ready"),
         UNCHANGED tables, pc[r] = "loading",
         \A i \in InvoiceIds :
           seen'[r].invoice[i] \in {invoice[i], seen[r].invoice[i]},
         TargetsReadOpen(r)', DestinationOwn(r)'
  PROVE  LinkInv'
<1>1. /\ input'[r] = input[r]
      /\ AimExists(r) /\ SnapshotUnpaid(r) /\ SnapshotExists(r)
  BY DEF Advance, LinkInv, RequestInv
<1>2. AimExists(r)' BY <1>1 DEF AimExists, InFlight, Exists, tables
<1>3. SnapshotUnpaid(r)'
  <2>1. \A i \in InvoiceIds :
          invoice[i].status \in {"absent", "open"} => invoice[i].payment = None
    BY DEF LinkInv, PaymentLink
  <2> QED BY <1>1, <2>1 DEF SnapshotUnpaid
<1>4. SnapshotExists(r)' BY <1>1 DEF SnapshotExists, Exists, tables
<1>5. RequestInv(r)' BY <1>2, <1>3, <1>4 DEF RequestInv
<1> QED BY <1>5, LinkFromRead

LEMMA LinkLoad ==
  ASSUME LinkInv, NEW r \in Requests,
         PurchaseLoad(r) \/ EditLoad(r) \/ MoveLoad(r) \/ CloseLoad(r)
           \/ PayLoad(r)
  PROVE  LinkInv'
<1>1. Step(r) /\ pc[r] = "loading"
  BY DEF Step, PurchaseLoad, EditLoad, MoveLoad, CloseLoad, PayLoad, Loading
<1>2. CASE Reject(r) BY <1>1, <1>2, LinkReject
<1>3. CASE ~Reject(r)
  <2>1. Advance(r, "ready") /\ UNCHANGED tables
    BY <1>3 DEF PurchaseLoad, EditLoad, MoveLoad, CloseLoad, PayLoad
  <2>2. pc'[r] = "ready" /\ input'[r] = input[r]
    BY <2>1 DEF Advance, LinkInv, TypeInv, TypeOK
  <2>3. seen[r] \in Snapshots /\ seen \in [Requests -> Snapshots]
    BY DEF LinkInv, TypeInv, TypeOK
  <2>4. CASE PurchaseLoad(r)
    <3>1. PICK target \in [Periods -> InvoiceIds], reuse \in SUBSET ReusableForecasts(r) :
            /\ \A p \in Periods : target[p] \in Resolutions(r, p)
            /\ \A k \in DOMAIN input[r].plan :
                 CanReceivePurchase(seen[r].invoice[target[input[r].plan[k]]])
            /\ seen' = [seen EXCEPT ![r] =
                          [@ EXCEPT !.target = target, !.reuse = reuse]]
      BY <1>3, <2>4 DEF PurchaseLoad
    <3>2. seen'[r].invoice = seen[r].invoice /\ seen'[r].target = target
      BY <2>3, <3>1 DEF Snapshots
    <3>3. TargetsReadOpen(r)'
      <4>1. \A p \in Periods : Exists(seen[r].invoice, target[p]) \/ target[p].by = r
        BY <3>1 DEF Resolutions
      <4>2. \A k \in DOMAIN input[r].plan : input[r].plan[k] \in Periods
        <5>1. input[r].op = "purchase" BY <2>4 DEF PurchaseLoad, Loading
        <5>2. input[r].plan \in Plans
          BY <1>1, <5>1 DEF LinkInv, TypeInv, InputAsked, Inputs
        <5> QED BY <5>2, PlansAssumption
      <4> QED BY <2>2, <3>1, <3>2, <4>1, <4>2
              DEF TargetsReadOpen, TargetOf, CanReceivePurchase, Exists
    <3>4. DestinationOwn(r)' BY <2>2, <2>4 DEF DestinationOwn, Ready, PurchaseLoad, Loading
    <3> QED BY <1>1, <2>1, <3>2, <3>3, <3>4, LinkReady
  <2>5. CASE EditLoad(r)
    <3> DEFINE i == seen[r].purchase.invoice
    <3>1. seen' = [seen EXCEPT ![r] = [@ EXCEPT !.invoice[i] = invoice[i]]]
      BY <1>3, <2>5 DEF EditLoad
    <3>2. \A j \in InvoiceIds : seen'[r].invoice[j] \in {invoice[j], seen[r].invoice[j]}
      BY <2>3, <3>1 DEF Snapshots
    <3>3. TargetsReadOpen(r)' /\ DestinationOwn(r)'
      BY <2>2, <2>5 DEF TargetsReadOpen, DestinationOwn, Ready, EditLoad, Loading
    <3> QED BY <1>1, <2>1, <3>2, <3>3, LinkReady
  <2>6. CASE MoveLoad(r)
    <3>1. PICK to \in Destinations(r), amount \in MoveAmounts(r) :
            seen' = [seen EXCEPT ![r] =
              [@ EXCEPT !.amount = amount,
                        !.target[input[r].period] = to,
                        !.invoice[to] = invoice[to]]]
      BY <1>3, <2>6 DEF MoveLoad
    <3>2. input[r].op = "move" /\ input[r].period \in Periods
      BY <1>1, <2>6, InputType DEF MoveLoad, Loading, LinkInv
    <3>3. to \in InvoiceIds /\ (Exists(invoice, to) \/ to.by = r)
      BY <3>2 DEF Destinations, InvoiceIds
    <3>4. /\ \A j \in InvoiceIds : seen'[r].invoice[j] \in {invoice[j], seen[r].invoice[j]}
          /\ seen'[r].target[input[r].period] = to
          /\ seen'[r].invoice[to] = invoice[to]
      BY <2>3, <3>1, <3>2, <3>3 DEF Snapshots
    <3>5. DestinationOwn(r)'
      BY <2>2, <3>3, <3>4 DEF DestinationOwn, Exists
    <3>6. TargetsReadOpen(r)' BY <2>2, <3>2 DEF TargetsReadOpen, Ready
    <3> QED BY <1>1, <2>1, <3>4, <3>5, <3>6, LinkReady
  <2>7. CASE CloseLoad(r)
    <3>1. seen' = seen BY <1>3, <2>7 DEF CloseLoad
    <3>2. TargetsReadOpen(r)' /\ DestinationOwn(r)'
      BY <2>2, <2>7 DEF TargetsReadOpen, DestinationOwn, Ready, CloseLoad, Loading
    <3> QED BY <1>1, <2>1, <3>1, <3>2, LinkReady
  <2>8. CASE PayLoad(r)
    <3>1. PICK void \in VoidChoices(input[r].invoice) :
            seen' = [seen EXCEPT ![r] =
              [@ EXCEPT !.voidForecast = void[1], !.voidPurchase = void[2]]]
      BY <1>3, <2>8 DEF PayLoad
    <3>2. seen'[r].invoice = seen[r].invoice BY <2>3, <3>1 DEF Snapshots
    <3>3. TargetsReadOpen(r)' /\ DestinationOwn(r)'
      BY <2>2, <2>8 DEF TargetsReadOpen, DestinationOwn, Ready, PayLoad, Loading
    <3> QED BY <1>1, <2>1, <3>2, <3>3, LinkReady
  <2> QED BY <2>4, <2>5, <2>6, <2>7, <2>8
<1> QED BY <1>2, <1>3

\* A commit: what is left to show is about the tables.
LEMMA LinkFromCommit ==
  ASSUME LinkInv, NEW r \in Requests, Step(r), Finish(r, "done"), PaymentLink',
         \A i \in InvoiceIds : Exists(invoice, i) => Exists(invoice, i)',
         \A i \in InvoiceIds : Exists(invoice, i)' => Exists(invoice, i) \/ i.by = r,
         \A i \in InvoiceIds : invoice'[i].payment \in {None, invoice[i].payment, r}
  PROVE  LinkInv'
<1>1. pc'[r] = "done" /\ RequestInv(r)' BY FinishedInv DEF LinkInv
<1> QED BY <1>1, LinkFromStep

LEMMA LinkPurchaseCommit ==
  ASSUME LinkInv, NEW r \in Requests, PurchaseCommit(r)
  PROVE  LinkInv'
<1>1. Step(r) BY DEF Step
<1>2. CASE Reject(r) BY <1>1, <1>2, LinkReject
<1>3. CASE ~Reject(r)
  <2>1. /\ invoice' = InvoicesAfterPurchase(r) /\ Finish(r, "done")
        /\ UNCHANGED payment
    BY <1>3 DEF PurchaseCommit
  <2>2. \A i \in Touched(r) :
          /\ seen[r].invoice[i].status \in {"absent", "open"}
          /\ i \in InvoiceIds
          /\ Exists(seen[r].invoice, i) \/ i.by = r
    <3>1. Ready(r, "purchase") BY DEF PurchaseCommit
    <3>2. TargetsReadOpen(r) BY DEF LinkInv, RequestInv
    <3>3. pc[r] # "idle" /\ input[r].op = "purchase" BY <3>1 DEF Ready
    <3> QED BY <3>1, <3>2, <3>3, BilledType DEF TargetsReadOpen, Touched, LinkInv
  <2>3. \A i \in Touched(r) : seen[r].invoice[i].payment = None
    BY <2>2 DEF LinkInv, RequestInv, SnapshotUnpaid
  <2>4. \A i \in InvoiceIds :
          IF i \in Touched(r)
            THEN invoice'[i].status = "open" /\ invoice'[i].payment = None
            ELSE invoice'[i] = invoice[i]
    BY <2>1, <2>3 DEF InvoicesAfterPurchase
  <2>5. PaymentLink' BY <2>1, <2>4 DEF PaymentLink, LinkInv
  <2>6. \A i \in Touched(r) : Exists(invoice, i) \/ i.by = r
    BY <2>2 DEF LinkInv, RequestInv, SnapshotExists
  <2> QED BY <1>1, <2>1, <2>4, <2>5, <2>6, LinkFromCommit DEF Exists
<1> QED BY <1>2, <1>3

LEMMA LinkMoveCommit ==
  ASSUME LinkInv, NEW r \in Requests, MoveCommit(r)
  PROVE  LinkInv'
<1>1. Step(r) /\ Ready(r, "move") BY DEF Step, MoveCommit
<1>2. CASE Reject(r) BY <1>1, <1>2, LinkReject
<1>3. CASE ~Reject(r)
  <2> DEFINE to == seen[r].target[input[r].period]
  <2>1. /\ invoice' = InvoicesAfterMove(r) /\ Finish(r, "done")
        /\ UNCHANGED payment
    BY <1>3 DEF MoveCommit
  <2>2. \A i \in InvoiceIds :
          /\ invoice'[i].payment = invoice[i].payment
          /\ \/ invoice'[i].status = invoice[i].status
             \/ /\ i = to /\ ~Exists(seen[r].invoice, to)
                /\ invoice'[i].status = "open"
    <3>1. \A i \in InvoiceIds : invoice[i] \in InvoiceRows
      BY DEF LinkInv, TypeInv, TypeOK
    <3> QED BY <2>1, <3>1 DEF InvoicesAfterMove, InvoiceRows
  <2>3. ~Exists(seen[r].invoice, to) => to.by = r
    BY <1>1 DEF LinkInv, RequestInv, DestinationOwn
  <2>4. to \in InvoiceIds BY <1>1, MoveCommitRows DEF LinkInv, Ready
  <2>5. pc[r] = "ready" BY <1>1 DEF Ready
  <2>6. ~Exists(seen[r].invoice, to) => invoice[to].status = "absent"
    BY <2>3, <2>4, <2>5 DEF LinkInv, InvoiceMinted, Exists
  <2> HIDE DEF to
  <2>7. PaymentLink' BY <2>1, <2>2, <2>4, <2>6 DEF PaymentLink, LinkInv
  <2>8. \A i \in InvoiceIds : Exists(invoice, i) => Exists(invoice, i)'
    BY <2>2 DEF Exists
  <2>9. \A i \in InvoiceIds : Exists(invoice, i)' => Exists(invoice, i) \/ i.by = r
    BY <2>2, <2>3 DEF Exists
  <2> QED BY <1>1, <2>1, <2>2, <2>7, <2>8, <2>9, LinkFromCommit
<1> QED BY <1>2, <1>3

LEMMA LinkEditCommit ==
  ASSUME LinkInv, NEW r \in Requests, EditCommit(r)
  PROVE  LinkInv'
<1>1. Step(r) BY DEF Step
<1>2. Finish(r, "done") /\ UNCHANGED payment BY DEF EditCommit
<1>3. \A i \in InvoiceIds : /\ invoice'[i].status = invoice[i].status
                            /\ invoice'[i].payment = invoice[i].payment
  <2>1. \A i \in InvoiceIds : invoice[i] \in InvoiceRows
    BY DEF LinkInv, TypeInv, TypeOK
  <2>2. invoice \in [InvoiceIds -> InvoiceRows] BY DEF LinkInv, TypeInv, TypeOK
  <2> QED BY <2>1, <2>2 DEF EditCommit, InvoiceRows
<1>4. PaymentLink' BY <1>2, <1>3 DEF PaymentLink, LinkInv
<1> QED BY <1>1, <1>2, <1>3, <1>4, LinkFromCommit DEF Exists

LEMMA LinkCloseCommit ==
  ASSUME LinkInv, NEW r \in Requests, CloseCommit(r)
  PROVE  LinkInv'
<1> DEFINE c == input[r].invoice
<1>1. Step(r) /\ Ready(r, "close") BY DEF Step, CloseCommit
<1>2. Finish(r, "done") /\ UNCHANGED payment BY DEF CloseCommit
<1>3. c \in InvoiceIds BY <1>1, InputType DEF Ready, LinkInv
<1>4. Exists(invoice, c)
  BY <1>1 DEF LinkInv, RequestInv, AimExists, InFlight, Ready
<1>5. \A i \in InvoiceIds :
        /\ invoice'[i].payment = invoice[i].payment
        /\ invoice'[i].status = IF i = c THEN "closed" ELSE invoice[i].status
  <2>1. invoice \in [InvoiceIds -> InvoiceRows] BY DEF LinkInv, TypeInv, TypeOK
  <2> QED BY <1>3, <2>1 DEF CloseCommit, InvoiceRows
<1> HIDE DEF c
<1>6. PaymentLink' BY <1>2, <1>5 DEF PaymentLink, LinkInv
<1> QED BY <1>1, <1>2, <1>4, <1>5, <1>6, LinkFromCommit DEF Exists

LEMMA LinkPayCommit ==
  ASSUME LinkInv, NEW r \in Requests, PayCommit(r)
  PROVE  LinkInv'
<1> DEFINE p == input[r].invoice
           total == seen[r].invoice[p].total
<1>1. Step(r) /\ Ready(r, "pay") BY DEF Step, PayCommit
<1>2. Finish(r, "done") BY DEF PayCommit
<1>3. p \in InvoiceIds BY <1>1, InputType DEF Ready, LinkInv
<1>4. Exists(invoice, p)
  BY <1>1 DEF LinkInv, RequestInv, AimExists, InFlight, Ready
<1>5. \A i \in InvoiceIds :
        IF i = p THEN invoice'[i].status = "paid" /\ invoice'[i].payment = r
                 ELSE invoice'[i] = invoice[i]
  <2>1. invoice \in [InvoiceIds -> InvoiceRows] BY DEF LinkInv, TypeInv, TypeOK
  <2> QED BY <1>3, <2>1 DEF PayCommit
<1>6. payment' = [payment EXCEPT ![r] = [invoice |-> p, amount |-> total]]
  BY DEF PayCommit
<1>7. \A q \in Requests : payment'[q].invoice = IF q = r THEN p ELSE payment[q].invoice
  <2> HIDE DEF p, total
  <2>1. payment \in [Requests -> PaymentRows] BY DEF LinkInv, TypeInv, TypeOK
  <2> QED BY <1>6, <2>1
<1>8. \A i \in InvoiceIds : invoice[i].payment # r
  <2>1. pc[r] = "ready" BY <1>1 DEF Ready
  <2> QED BY <2>1, NoneAssumption DEF LinkInv, PayerDone
<1>9. \A i \in InvoiceIds : invoice[i].payment \in Requests \cup {None}
  BY DEF LinkInv, TypeInv, TypeOK, InvoiceRows
<1> HIDE DEF p, total
<1>10. PaymentLink'
  BY <1>3, <1>5, <1>7, <1>8, <1>9, NoneAssumption DEF PaymentLink, LinkInv
<1> QED BY <1>1, <1>2, <1>4, <1>5, <1>10, LinkFromCommit DEF Exists

LEMMA LinkInit == Init => LinkInv
<1> SUFFICES ASSUME Init PROVE LinkInv OBVIOUS
<1>1. TypeInv BY TypeInit
<1>2. PaymentLink /\ InvoiceMinted /\ PayerDone
  BY DEF Init, PaymentLink, InvoiceMinted, PayerDone, Exists, NoInvoice
<1>3. \A r \in Requests : RequestInv(r)
  BY DEF Init, RequestInv, AimExists, InFlight, SnapshotUnpaid, SnapshotExists,
         Exists, TargetsReadOpen, DestinationOwn, Ready, NothingSeen, NoInvoice
<1> QED BY <1>1, <1>2, <1>3 DEF LinkInv

LEMMA LinkStep == LinkInv /\ [Next]_vars => LinkInv'
<1> SUFFICES ASSUME LinkInv, [Next]_vars PROVE LinkInv' OBVIOUS
<1>1. TypeInv' BY TypeStep DEF LinkInv
<1>2. CASE SetPaymentAccount \/ UNCHANGED vars
  <2>1. UNCHANGED <<invoice, payment, requests>>
    BY <1>2 DEF SetPaymentAccount, vars, tables
  <2>2. PaymentLink' /\ InvoiceMinted' /\ PayerDone'
    BY <2>1 DEF LinkInv, PaymentLink, InvoiceMinted, PayerDone, Exists, requests
  <2>3. \A r \in Requests : RequestInv(r)'
    BY <2>1, OthersKeep DEF LinkInv, Exists, requests
  <2> QED BY <1>1, <2>2, <2>3 DEF LinkInv
<1>3. ASSUME NEW r \in Requests, Step(r) PROVE LinkInv'
  BY <1>3, LinkBegin, LinkLoad, LinkPurchaseCommit, LinkEditCommit,
     LinkMoveCommit, LinkCloseCommit, LinkPayCommit DEF Step
<1> QED BY <1>2, <1>3 DEF Next

\* Under every interleaving, a paid invoice names a payment made for it, and an
\* open one names none: the copies that registration, edit and move make of a
\* row they read long before never bring back or lose the link that payInvoice
\* wrote, because a row they may write was unpaid when they read it.
THEOREM PaymentLinkHolds == Spec => []PaymentLink
<1>1. LinkInv => PaymentLink BY DEF LinkInv
<1> QED BY <1>1, LinkInit, LinkStep, PTL DEF Spec

-----------------------------------------------------------------------------
(* Voided forecasts.                                                       *)

\* What one request may do to the forecasts: rows it mints itself appear, other
\* rows keep their status or, when they exist, become voided.
ForecastsOnlyVoided(r) ==
  \A f \in ItemIds :
    \/ forecast'[f].status = forecast[f].status
    \/ f.by = r /\ forecast[f].status = "absent" /\ pc'[r] = "done"
    \/ forecast[f].status # "absent" /\ forecast'[f].status = "voided"

LEMMA ForecastStep ==
  ASSUME VoidInv, NEW r \in Requests, Step(r)
  PROVE  ForecastsOnlyVoided(r)
<1>1. CASE UNCHANGED forecast BY <1>1 DEF ForecastsOnlyVoided
<1>2. CASE PurchaseCommit(r) /\ ~Reject(r)
  <2>1. forecast' = ForecastsAfterPurchase(r) /\ Finish(r, "done") /\ pc[r] = "ready"
    BY <1>2 DEF PurchaseCommit, Ready
  <2>2. pc'[r] = "done" BY <2>1 DEF Finish, Advance, VoidInv, TypeInv, TypeOK
  <2>3. \A f \in ItemIds :
          \/ forecast'[f].status = forecast[f].status
          \/ f.by = r
    <3>1. \A f \in ItemIds : forecast[f] \in ForecastRows
      BY DEF VoidInv, TypeInv, TypeOK
    <3> QED BY <2>1, <3>1 DEF ForecastsAfterPurchase, RefreshedForecast, ForecastRows
  <2>4. \A f \in ItemIds : f.by = r => forecast[f].status = "absent"
    BY <2>1 DEF VoidInv, ForecastMinted
  <2> QED BY <2>2, <2>3, <2>4 DEF ForecastsOnlyVoided
<1>3. CASE PayCommit(r)
  <2>1. \A f \in ItemIds : forecast[f] \in ForecastRows
    BY DEF VoidInv, TypeInv, TypeOK
  <2>2. \A f \in ItemIds :
          \/ forecast'[f] = forecast[f]
          \/ f \in seen[r].voidForecast /\ forecast'[f].status = "voided"
    BY <1>3, <2>1 DEF PayCommit, ForecastRows
  <2> QED BY <2>2 DEF ForecastsOnlyVoided, VoidInv, VoidsExisting
<1>4. PurchaseCommit(r) \/ PayCommit(r) \/ UNCHANGED forecast
  BY DEF Step, PurchaseBegin, PurchaseLoad, EditBegin, EditLoad, EditCommit,
         MoveBegin, MoveLoad, MoveCommit, CloseBegin, CloseLoad, CloseCommit,
         PayBegin, PayLoad, Reject, tables
<1>5. Reject(r) => UNCHANGED forecast BY DEF Reject, tables
<1> QED BY <1>1, <1>2, <1>3, <1>4, <1>5

\* Only PayLoad selects forecasts to void, and it selects planned ones.
LEMMA VoidsStep ==
  ASSUME VoidInv, NEW r \in Requests, Step(r)
  PROVE  \A f \in seen'[r].voidForecast : forecast[f].status # "absent"
<1>1. VoidsExisting BY DEF VoidInv
<1>2. seen \in [Requests -> Snapshots] /\ seen[r] \in Snapshots
  BY DEF VoidInv, TypeInv, TypeOK
<1>3. CASE \E to \in {"done", "rejected"} : Finish(r, to)
  <2>1. seen'[r].voidForecast = {} BY <1>2, <1>3 DEF Finish, NothingSeen
  <2> QED BY <2>1
<1>4. CASE PayLoad(r) /\ ~Reject(r)
  <2>1. PICK void \in VoidChoices(input[r].invoice) :
          seen' = [seen EXCEPT ![r] =
            [@ EXCEPT !.voidForecast = void[1], !.voidPurchase = void[2]]]
    BY <1>4 DEF PayLoad
  <2>2. seen'[r].voidForecast = void[1] BY <1>2, <2>1 DEF Snapshots
  <2>3. void[1] \in SUBSET PlannedForecastsOf(input[r].invoice) BY VoidChoiceType
  <2> QED BY <2>2, <2>3 DEF PlannedForecastsOf
<1>5. CASE UNCHANGED seen BY <1>1, <1>5 DEF VoidsExisting
<1>6. CASE /\ PurchaseBegin(r) \/ PurchaseLoad(r) \/ EditBegin(r) \/ EditLoad(r)
                \/ MoveBegin(r) \/ MoveLoad(r) \/ PayBegin(r)
           /\ ~Reject(r)
  <2>1. seen'[r].voidForecast = seen[r].voidForecast
    <3>1. CASE PurchaseBegin(r) BY <1>2, <3>1 DEF PurchaseBegin, Snapshots
    <3>2. CASE PurchaseLoad(r) BY <1>2, <1>6, <3>2 DEF PurchaseLoad, Snapshots
    <3>3. CASE EditBegin(r) BY <1>2, <3>3 DEF EditBegin, Snapshots
    <3>4. CASE EditLoad(r) BY <1>2, <1>6, <3>4 DEF EditLoad, Snapshots
    <3>5. CASE MoveBegin(r) BY <1>2, <3>5 DEF MoveBegin, Snapshots
    <3>6. CASE MoveLoad(r)
      <4>1. PICK to \in Destinations(r), amount \in MoveAmounts(r) :
              seen' = [seen EXCEPT ![r] =
                [@ EXCEPT !.amount = amount,
                          !.target[input[r].period] = to,
                          !.invoice[to] = invoice[to]]]
        BY <1>6, <3>6 DEF MoveLoad
      <4> QED BY <1>2, <4>1 DEF Snapshots
    <3>7. CASE PayBegin(r) BY <1>2, <3>7 DEF PayBegin, Snapshots
    <3> QED BY <1>6, <3>1, <3>2, <3>3, <3>4, <3>5, <3>6, <3>7
  <2> QED BY <1>1, <2>1 DEF VoidsExisting
<1>7. CASE \/ PurchaseCommit(r) \/ EditCommit(r) \/ MoveCommit(r)
           \/ CloseCommit(r) \/ PayCommit(r) \/ Reject(r)
  BY <1>3, <1>7 DEF PurchaseCommit, EditCommit, MoveCommit, CloseCommit,
                    PayCommit, Reject
<1>8. CASE CloseBegin(r) \/ CloseLoad(r)
  BY <1>5, <1>7, <1>8 DEF CloseBegin, CloseLoad
<1> QED BY <1>4, <1>6, <1>7, <1>8 DEF Step

LEMMA VoidStep == VoidInv /\ [Next]_vars => VoidInv'
<1> SUFFICES ASSUME VoidInv, [Next]_vars PROVE VoidInv' OBVIOUS
<1>1. TypeInv' BY TypeStep DEF VoidInv
<1>2. CASE SetPaymentAccount \/ UNCHANGED vars
  <2>1. UNCHANGED <<forecast, requests>>
    BY <1>2 DEF SetPaymentAccount, vars, tables
  <2> QED BY <1>1, <2>1 DEF VoidInv, ForecastMinted, VoidsExisting, requests
<1>3. ASSUME NEW r \in Requests, Step(r) PROVE VoidInv'
  <2>1. ForecastsOnlyVoided(r) BY <1>3, ForecastStep
  <2>2. pc[r] # "done" /\ \A q \in Requests \ {r} :
          pc'[q] = pc[q] /\ seen'[q] = seen[q]
    BY <1>3, OnlyOne DEF VoidInv
  <2>3. ForecastMinted'
    <3>1. \A f \in ItemIds : f.by \in Requests BY DEF ItemIds
    <3> QED BY <2>1, <2>2, <3>1 DEF VoidInv, ForecastMinted, ForecastsOnlyVoided
  <2>4. \A f \in ItemIds :
          forecast[f].status # "absent" => forecast'[f].status # "absent"
    BY <2>1 DEF ForecastsOnlyVoided
  <2>5. \A q \in Requests, f \in ItemIds :
          f \in seen'[q].voidForecast => forecast[f].status # "absent"
    BY <1>3, <2>2, VoidsStep DEF VoidInv, VoidsExisting
  <2>6. \A q \in Requests : seen'[q].voidForecast \in SUBSET ItemIds
    BY <1>1 DEF TypeInv, TypeOK, Snapshots
  <2>7. VoidsExisting' BY <2>4, <2>5, <2>6 DEF VoidsExisting
  <2> QED BY <1>1, <2>3, <2>7 DEF VoidInv
<1> QED BY <1>2, <1>3 DEF Next

LEMMA VoidInit == Init => VoidInv
BY TypeInit DEF Init, VoidInv, ForecastMinted, VoidsExisting, NoForecast, NothingSeen

LEMMA VoidKept ==
  VoidInv /\ [Next]_vars =>
    [\A f \in ItemIds :
       forecast[f].status = "voided" => forecast'[f].status = "voided"]_vars
<1> SUFFICES ASSUME VoidInv, Next
             PROVE  \A f \in ItemIds :
               forecast[f].status = "voided" => forecast'[f].status = "voided"
  OBVIOUS
<1>1. CASE SetPaymentAccount BY <1>1 DEF SetPaymentAccount
<1>2. ASSUME NEW r \in Requests, Step(r)
      PROVE  \A f \in ItemIds :
               forecast[f].status = "voided" => forecast'[f].status = "voided"
  BY <1>2, ForecastStep DEF ForecastsOnlyVoided
<1> QED BY <1>1, <1>2 DEF Next

\* A forecast voided by a payment stays voided, also when a purchase that read
\* it before the payment writes it afterwards: the upsert leaves the status
\* alone, and no request mints an id that a row already has.
THEOREM VoidedIsFinal == Spec => VoidedForecastStaysVoided
BY VoidInit, VoidStep, VoidKept, PTL DEF Spec, VoidedForecastStaysVoided
-----------------------------------------------------------------------------
(* Sums over finite sets. Instead of an induction over the set, which needs *)
(* a theorem with an operator parameter, every proof takes the smallest of *)
(* the subsets that would be counterexamples.                              *)

\* The element a sum takes first, and what makes a function the sums of the subsets of
\* a set.
First(s) == CHOOSE x \in s : TRUE
Sums(g, f, S) ==
  g = [s \in SUBSET S |-> IF s = {} THEN 0 ELSE f[First(s)] + g[s \ {First(s)}]]

\* Induction on finite sets: of every kind there is a smallest one.
LEMMA Smallest ==
  ASSUME NEW S, IsFiniteSet(S), NEW F, F \subseteq SUBSET S, F # {}
  PROVE  \E T \in F : \A U \in F : U \subseteq T => U = T
<1>1. F \subseteq FiniteSubsetsOf(S) BY FS_Subset DEF FiniteSubsetsOf
<1>2. PICK T \in F : \A U \in F : ~ (<<U, T>> \in StrictSubsetOrdering(S))
  BY <1>1, FS_StrictSubsetOrderingWellFounded, WFMin
<1>3. ASSUME NEW U \in F, U \subseteq T, U # T PROVE FALSE
  <2>1. <<U, T>> \in (SUBSET S) \X (SUBSET S) OBVIOUS
  <2> QED BY <1>2, <1>3, <2>1 DEF StrictSubsetOrdering
<1> QED BY <1>2, <1>3

\* The first element is one of them.
LEMMA FirstOf == ASSUME NEW s, s # {} PROVE First(s) \in s
BY DEF First

\* Two such functions agree where both are defined.
LEMMA SumsAgree ==
  ASSUME NEW f, NEW S, NEW T, IsFiniteSet(S), NEW g, NEW h, Sums(g, f, S), Sums(h, f, T),
         NEW s \in SUBSET S, s \subseteq T
  PROVE  g[s] = h[s]
<1> DEFINE F == {u \in SUBSET S : u \subseteq T /\ g[u] # h[u]}
<1> SUFFICES ASSUME s \in F PROVE FALSE OBVIOUS
<1>1. PICK u \in F : \A v \in F : v \subseteq u => v = u
  <2>1. F \subseteq SUBSET S /\ F # {} OBVIOUS
  <2> HIDE DEF F
  <2> QED BY <2>1, Smallest
<1>2. /\ g[u] = IF u = {} THEN 0 ELSE f[First(u)] + g[u \ {First(u)}]
      /\ h[u] = IF u = {} THEN 0 ELSE f[First(u)] + h[u \ {First(u)}]
  BY <1>1 DEF Sums
<1>3. u # {} BY <1>1, <1>2
<1>4. First(u) \in u BY <1>3, FirstOf
<1>5. g[u \ {First(u)}] = h[u \ {First(u)}] BY <1>1, <1>4
<1> QED BY <1>1, <1>2, <1>3, <1>5

\* There is one for every finite set.
LEMMA SumsExist ==
  ASSUME NEW f, NEW S, IsFiniteSet(S) PROVE \E g : Sums(g, f, S)
<1> DEFINE F == {T \in SUBSET S : ~ \E g : Sums(g, f, T)}
<1> SUFFICES ASSUME S \in F PROVE FALSE OBVIOUS
<1>1. PICK T \in F : \A U \in F : U \subseteq T => U = T
  <2>1. F \subseteq SUBSET S /\ F # {} OBVIOUS
  <2> HIDE DEF F
  <2> QED BY <2>1, Smallest
<1> DEFINE sol(U) == CHOOSE g : Sums(g, f, U)
           rest   == T \ {First(T)}
           h == [s \in SUBSET T |->
                   IF s = {} THEN 0
                   ELSE IF s = T THEN f[First(T)] + sol(rest)[rest]
                   ELSE sol(s)[s]]
<1>2. ASSUME NEW U \in SUBSET T, U # T PROVE Sums(sol(U), f, U)
  <2>1. \E g : Sums(g, f, U) BY <1>1, <1>2
  <2> QED BY <2>1
<1>3. ASSUME NEW U \in SUBSET T, U # T PROVE h[U] = sol(U)[U]
  <2>1. CASE U = {}
    <3>1. Sums(sol(U), f, U) BY <1>2, <1>3
    <3>2. sol(U)[U] = 0
      <4> HIDE DEF sol
      <4> QED BY <2>1, <3>1 DEF Sums
    <3> QED BY <2>1, <3>2
  <2> QED BY <1>3, <2>1
<1>4. ASSUME NEW s \in SUBSET T
      PROVE  h[s] = IF s = {} THEN 0 ELSE f[First(s)] + h[s \ {First(s)}]
  <2>1. CASE s = {} BY <2>1
  <2>2. CASE s # {}
    <3> DEFINE less == s \ {First(s)}
    <3>1. First(s) \in s BY <2>2, FirstOf
    <3>2. less \in SUBSET T /\ less # T /\ less # s BY <3>1
    <3>3. h[less] = sol(less)[less] BY <1>3, <3>2
    <3>4. CASE s = T BY <2>2, <3>3, <3>4
    <3>5. CASE s # T
      <4>1. Sums(sol(s), f, s) /\ Sums(sol(less), f, less) BY <1>2, <3>2, <3>5
      <4>2. sol(s)[s] = f[First(s)] + sol(s)[less] BY <2>2, <4>1 DEF Sums
      <4>3. IsFiniteSet(s) BY <1>1, FS_Subset
      <4>4. sol(s)[less] = sol(less)[less]
        <5>1. less \in SUBSET s /\ less \subseteq less OBVIOUS
        <5> HIDE DEF sol, less
        <5> QED BY <4>1, <4>3, <5>1, SumsAgree
      <4>5. h[s] = sol(s)[s] BY <1>3, <3>5
      <4> HIDE DEF sol, h, less
      <4> QED BY <2>2, <3>3, <4>2, <4>4, <4>5 DEF less
    <3> QED BY <3>4, <3>5
  <2> QED BY <2>1, <2>2
<1>5. Sums(h, f, T)
  <2> HIDE DEF sol
  <2>1. h = [s \in SUBSET T |-> h[s]] OBVIOUS
  <2>2. [s \in SUBSET T |-> h[s]]
          = [s \in SUBSET T |-> IF s = {} THEN 0 ELSE f[First(s)] + h[s \ {First(s)}]]
    BY <1>4
  <2> HIDE DEF h
  <2> QED BY <2>1, <2>2 DEF Sums
<1> QED BY <1>1, <1>5

\* SumFunctionOnSet is what they say of the whole set.
LEMMA SumIs ==
  ASSUME NEW f, NEW S, IsFiniteSet(S)
  PROVE  \E g : Sums(g, f, S) /\ SumFunctionOnSet(f, S) = g[S]
<1>1. SumFunctionOnSet(f, S) =
        (CHOOSE iter : iter = [s \in SUBSET S |->
                                 IF s = {} THEN 0
                                 ELSE f[First(s)] + iter[s \ {First(s)}]])[S]
  BY DEF SumFunctionOnSet, FoldFunctionOnSet, MapThenFoldSet, First
<1>2. SumFunctionOnSet(f, S) = (CHOOSE iter : Sums(iter, f, S))[S] BY <1>1 DEF Sums
<1> QED BY <1>2, SumsExist

\* A sum of nothing is 0, and another takes its first element to the rest.
LEMMA SumEmpty == ASSUME NEW f PROVE SumFunctionOnSet(f, {}) = 0
<1>1. PICK g : Sums(g, f, {}) /\ SumFunctionOnSet(f, {}) = g[{}] BY FS_EmptySet, SumIs
<1> QED BY <1>1 DEF Sums

LEMMA SumFirst ==
  ASSUME NEW f, NEW S, IsFiniteSet(S), S # {}
  PROVE  SumFunctionOnSet(f, S) = f[First(S)] + SumFunctionOnSet(f, S \ {First(S)})
<1> DEFINE rest == S \ {First(S)}
<1>1. IsFiniteSet(rest) BY FS_Subset
<1>2. PICK g : Sums(g, f, S) /\ SumFunctionOnSet(f, S) = g[S] BY SumIs
<1>3. PICK h : Sums(h, f, rest) /\ SumFunctionOnSet(f, rest) = h[rest] BY <1>1, SumIs
<1>4. g[S] = f[First(S)] + g[rest] BY <1>2 DEF Sums
<1>5. g[rest] = h[rest]
  <2>1. rest \in SUBSET S /\ rest \subseteq rest OBVIOUS
  <2> HIDE DEF rest
  <2> QED BY <1>2, <1>3, <2>1, SumsAgree
<1> QED BY <1>2, <1>3, <1>4, <1>5

\* A sum of integers is one, and not negative if they are not.
LEMMA SumType ==
  ASSUME NEW f, NEW S, IsFiniteSet(S), \A x \in S : f[x] \in Int
  PROVE  SumFunctionOnSet(f, S) \in Int
<1> DEFINE F == {T \in SUBSET S : SumFunctionOnSet(f, T) \notin Int}
<1> SUFFICES ASSUME S \in F PROVE FALSE OBVIOUS
<1>1. PICK T \in F : \A U \in F : U \subseteq T => U = T
  <2>1. F \subseteq SUBSET S /\ F # {} OBVIOUS
  <2> HIDE DEF F
  <2> QED BY <2>1, Smallest
<1>2. T # {}
  <2>1. 0 \in Int OBVIOUS
  <2> QED BY <1>1, <2>1, SumEmpty
<1>3. IsFiniteSet(T) /\ First(T) \in T BY <1>1, <1>2, FS_Subset, FirstOf
<1>4. SumFunctionOnSet(f, T) = f[First(T)] + SumFunctionOnSet(f, T \ {First(T)})
  BY <1>2, <1>3, SumFirst
<1>5. SumFunctionOnSet(f, T \ {First(T)}) \in Int BY <1>1, <1>3
<1> QED BY <1>1, <1>3, <1>4, <1>5

\* A sum of natural numbers is one.
LEMMA SumNat ==
  ASSUME NEW f, NEW S, IsFiniteSet(S), \A x \in S : f[x] \in Nat
  PROVE  SumFunctionOnSet(f, S) \in Nat
<1> DEFINE F == {T \in SUBSET S : SumFunctionOnSet(f, T) \notin Nat}
<1> SUFFICES ASSUME S \in F PROVE FALSE OBVIOUS
<1>1. PICK T \in F : \A U \in F : U \subseteq T => U = T
  <2>1. F \subseteq SUBSET S /\ F # {} OBVIOUS
  <2> HIDE DEF F
  <2> QED BY <2>1, Smallest
<1>2. T # {} BY <1>1, SumEmpty
<1>3. IsFiniteSet(T) /\ First(T) \in T BY <1>1, <1>2, FS_Subset, FirstOf
<1>4. SumFunctionOnSet(f, T) = f[First(T)] + SumFunctionOnSet(f, T \ {First(T)})
  BY <1>2, <1>3, SumFirst
<1>5. SumFunctionOnSet(f, T \ {First(T)}) \in Nat BY <1>1, <1>3
<1> QED BY <1>1, <1>3, <1>4, <1>5

\* Any element may be taken out of a sum.
LEMMA SumWithout ==
  ASSUME NEW f, NEW S, IsFiniteSet(S), \A x \in S : f[x] \in Int, NEW x \in S
  PROVE  SumFunctionOnSet(f, S) = f[x] + SumFunctionOnSet(f, S \ {x})
<1> DEFINE sum(T) == SumFunctionOnSet(f, T)
           F == {T \in SUBSET S : \E y \in T : sum(T) # f[y] + sum(T \ {y})}
<1> SUFFICES ASSUME S \in F PROVE FALSE OBVIOUS
<1>1. PICK T \in F : \A U \in F : U \subseteq T => U = T
  <2>1. F \subseteq SUBSET S /\ F # {} OBVIOUS
  <2> HIDE DEF F
  <2> QED BY <2>1, Smallest
<1>2. PICK y \in T : sum(T) # f[y] + sum(T \ {y}) BY <1>1
<1> DEFINE z == First(T)
<1>3. IsFiniteSet(T) /\ z \in T /\ sum(T) = f[z] + sum(T \ {z})
  BY <1>1, <1>2, FS_Subset, FirstOf, SumFirst
<1>4. y # z BY <1>2, <1>3
<1> HIDE DEF z
<1>5. T \ {z} \notin F /\ T \ {y} \notin F /\ T \subseteq S BY <1>1, <1>2, <1>3
<1>6. sum(T \ {z}) = f[y] + sum((T \ {z}) \ {y}) BY <1>2, <1>4, <1>5
<1>7. sum(T \ {y}) = f[z] + sum((T \ {y}) \ {z}) BY <1>3, <1>4, <1>5
<1>8. (T \ {y}) \ {z} = (T \ {z}) \ {y} OBVIOUS
<1>9. /\ sum((T \ {z}) \ {y}) \in Int /\ f[y] \in Int /\ f[z] \in Int
  <2>1. IsFiniteSet((T \ {z}) \ {y}) BY <1>3, FS_Subset
  <2> QED BY <1>2, <1>3, <1>5, <2>1, SumType
<1> HIDE DEF sum
<1>10. sum((T \ {y}) \ {z}) = sum((T \ {z}) \ {y}) BY <1>8
<1> QED BY <1>2, <1>3, <1>6, <1>7, <1>9, <1>10

\* Only the values on the set count.
LEMMA SumSame ==
  ASSUME NEW f, NEW g, NEW S, IsFiniteSet(S), \A x \in S : f[x] = g[x]
  PROVE  SumFunctionOnSet(f, S) = SumFunctionOnSet(g, S)
<1> DEFINE F == {T \in SUBSET S : SumFunctionOnSet(f, T) # SumFunctionOnSet(g, T)}
<1> SUFFICES ASSUME S \in F PROVE FALSE OBVIOUS
<1>1. PICK T \in F : \A U \in F : U \subseteq T => U = T
  <2>1. F \subseteq SUBSET S /\ F # {} OBVIOUS
  <2> HIDE DEF F
  <2> QED BY <2>1, Smallest
<1>2. T # {} BY <1>1, SumEmpty
<1>3. IsFiniteSet(T) /\ First(T) \in T BY <1>1, <1>2, FS_Subset, FirstOf
<1>4. /\ SumFunctionOnSet(f, T) = f[First(T)] + SumFunctionOnSet(f, T \ {First(T)})
      /\ SumFunctionOnSet(g, T) = g[First(T)] + SumFunctionOnSet(g, T \ {First(T)})
  BY <1>2, <1>3, SumFirst
<1>5. SumFunctionOnSet(f, T \ {First(T)}) = SumFunctionOnSet(g, T \ {First(T)})
  BY <1>1, <1>3
<1> QED BY <1>1, <1>3, <1>4, <1>5

\* A new element, or a new value of one element, adds to a sum what it says.
LEMMA SumInsert ==
  ASSUME NEW f, NEW g, NEW S, IsFiniteSet(S), NEW x, x \notin S,
         g[x] \in Int, \A y \in S : f[y] \in Int /\ f[y] = g[y]
  PROVE  SumFunctionOnSet(g, S \cup {x}) = SumFunctionOnSet(f, S) + g[x]
<1> DEFINE T == S \cup {x}
<1>1. IsFiniteSet(T) BY FS_AddElement
<1>2. \A y \in T : g[y] \in Int OBVIOUS
<1>3. x \in T /\ T \ {x} = S OBVIOUS
<1> HIDE DEF T
<1>4. SumFunctionOnSet(g, T) = g[x] + SumFunctionOnSet(g, S)
  <2>1. SumFunctionOnSet(g, T) = g[x] + SumFunctionOnSet(g, T \ {x})
    BY <1>1, <1>2, <1>3, SumWithout
  <2> QED BY <1>3, <2>1
<1>5. SumFunctionOnSet(f, S) = SumFunctionOnSet(g, S) BY SumSame
<1>6. SumFunctionOnSet(f, S) \in Int BY SumType
<1> QED BY <1>4, <1>5, <1>6 DEF T

LEMMA SumRemove ==
  ASSUME NEW f, NEW S, IsFiniteSet(S), NEW x \in S, \A y \in S : f[y] \in Int
  PROVE  SumFunctionOnSet(f, S \ {x}) = SumFunctionOnSet(f, S) - f[x]
<1>1. SumFunctionOnSet(f, S) = f[x] + SumFunctionOnSet(f, S \ {x}) BY SumWithout
<1>2. IsFiniteSet(S \ {x}) BY FS_Subset
<1>3. SumFunctionOnSet(f, S \ {x}) \in Int /\ f[x] \in Int BY <1>2, SumType
<1> QED BY <1>1, <1>3

LEMMA SumChange ==
  ASSUME NEW f, NEW g, NEW S, IsFiniteSet(S), NEW x \in S, g[x] \in Int,
         \A y \in S : f[y] \in Int, \A y \in S \ {x} : f[y] = g[y]
  PROVE  SumFunctionOnSet(g, S) = SumFunctionOnSet(f, S) - f[x] + g[x]
<1> DEFINE R == S \ {x}
<1>1. IsFiniteSet(R) /\ x \notin R /\ R \cup {x} = S /\ \A y \in R : f[y] \in Int /\ f[y] = g[y]
  BY FS_Subset
<1>2. SumFunctionOnSet(f, R) = SumFunctionOnSet(f, S) - f[x] BY SumRemove
<1>3. SumFunctionOnSet(g, R \cup {x}) = SumFunctionOnSet(f, R) + g[x]
  <2> HIDE DEF R
  <2> QED BY <1>1, SumInsert
<1> QED BY <1>1, <1>2, <1>3

\* Quotient and remainder of natural numbers.
LEMMA DivType ==
  ASSUME NEW a \in Nat, NEW n \in Nat \ {0}
  PROVE  /\ a \div n \in Nat /\ a % n \in Nat /\ a % n < n
         /\ a = n * (a \div n) + (a % n)
<1>1. a \div n \in Int /\ a % n \in 0..(n - 1) OBVIOUS
<1>2. a = n * (a \div n) + (a % n) OBVIOUS
<1>3. a \div n >= 0 BY <1>1, <1>2
<1> QED BY <1>1, <1>2, <1>3

\* The shares of an amount, of which the first have one minor unit more, add up: those
\* up to the m-th to m whole parts and what the first have more.
LEMMA SharesAddUp ==
  ASSUME NEW a \in Nat, NEW n \in Nat \ {0}, NEW f, NEW item,
         \A j, k \in 1..n : item[j] = item[k] => j = k,
         \A k \in 1..n : f[item[k]] = (a \div n) + (IF k <= a % n THEN 1 ELSE 0)
  PROVE  SumFunctionOnSet(f, {item[k] : k \in 1..n}) = a
<1> DEFINE S(m) == {item[k] : k \in 1..m}
           d == a \div n
           rem == a % n
           upTo(m) == m * d + (IF m <= rem THEN m ELSE rem)
           Bad == {m \in 0..n : ~(IsFiniteSet(S(m)) /\ SumFunctionOnSet(f, S(m)) = upTo(m))}
<1>1. d \in Nat /\ rem \in Nat /\ rem < n /\ a = n * d + rem BY DivType
<1>2. Bad = {}
  <2> SUFFICES ASSUME Bad # {} PROVE FALSE OBVIOUS
  <2>1. PICK m \in Bad : \A l \in Bad : m <= l
    <3>1. Bad \in SUBSET Nat OBVIOUS
    <3> HIDE DEF Bad
    <3> QED BY <3>1, SmallestNat
  <2>2. m \in 0..n /\ m \in Nat OBVIOUS
  <2>3. m # 0
    <3>1. S(0) = {} OBVIOUS
    <3>2. IsFiniteSet(S(0)) /\ SumFunctionOnSet(f, S(0)) = 0
      BY <3>1, SumEmpty, FS_EmptySet
    <3>3. upTo(0) = 0
      <4> HIDE DEF d, rem
      <4> QED BY <1>1
    <3> QED BY <2>1, <3>2, <3>3
  <2> DEFINE l == m - 1
  <2>4. l \in 0..n /\ l \in Nat /\ l < m /\ m \in 1..n BY <2>2, <2>3
  <2>5. IsFiniteSet(S(l)) /\ SumFunctionOnSet(f, S(l)) = upTo(l)
    <3>1. l \notin Bad
      <4> HIDE DEF Bad
      <4> QED BY <2>1, <2>2, <2>4
    <3> QED BY <2>4, <3>1
  <2>6. S(m) = S(l) \cup {item[m]}
    <3>1. 1..m = (1..l) \cup {m} BY <2>2, <2>4
    <3> QED BY <3>1
  <2>7. item[m] \notin S(l)
    <3>1. \A k \in 1..l : k \in 1..n /\ k # m BY <2>2, <2>4
    <3> QED BY <2>4, <3>1
  <2>8. \A x \in S(l) : f[x] \in Int
    <3>1. \A k \in 1..l : k \in 1..n BY <2>2, <2>4
    <3>2. \A k \in 1..l : f[item[k]] = d + (IF k <= rem THEN 1 ELSE 0) BY <3>1
    <3>3. \A k \in 1..l : f[item[k]] \in Int
      <4> HIDE DEF d, rem
      <4> QED BY <1>1, <3>2
    <3> QED BY <3>3
  <2>9. f[item[m]] = d + (IF m <= rem THEN 1 ELSE 0) BY <2>4
  <2>10. f[item[m]] \in Int
    <3> HIDE DEF d, rem
    <3> QED BY <1>1, <2>9
  <2> HIDE DEF S, Bad
  <2>11. SumFunctionOnSet(f, S(l) \cup {item[m]}) = SumFunctionOnSet(f, S(l)) + f[item[m]]
    BY <2>5, <2>7, <2>8, <2>10, SumInsert
  <2>12. IsFiniteSet(S(m)) BY <2>5, <2>6, FS_AddElement
  <2>13. SumFunctionOnSet(f, S(m)) = upTo(l) + (d + (IF m <= rem THEN 1 ELSE 0))
    BY <2>5, <2>6, <2>9, <2>11
  <2>14. upTo(l) + (d + (IF m <= rem THEN 1 ELSE 0)) = upTo(m)
    <3> HIDE DEF d, rem
    <3>1. m * d = l * d + d BY <1>1, <2>2
    <3>2. l * d \in Nat /\ m * d \in Nat BY <1>1, <2>2, <2>4
    <3> QED BY <1>1, <2>2, <2>4, <3>1, <3>2
  <2> QED BY <2>1, <2>12, <2>13, <2>14 DEF Bad
<1>3. n \in 0..n OBVIOUS
<1>4. SumFunctionOnSet(f, S(n)) = upTo(n) BY <1>2, <1>3
<1>5. upTo(n) = a
  <2> HIDE DEF d, rem
  <2>1. ~(n <= rem) BY <1>1
  <2> QED BY <1>1, <2>1
<1> QED BY <1>4, <1>5

-----------------------------------------------------------------------------
(* What a step writes, and what a request knows of the tables.             *)

\* What a request reads writes no table.
LEMMA BeginsWriteNothing ==
  ASSUME NEW r \in Requests,
         PurchaseBegin(r) \/ EditBegin(r) \/ MoveBegin(r) \/ CloseBegin(r) \/ PayBegin(r)
  PROVE  UNCHANGED tables
BY DEF PurchaseBegin, EditBegin, MoveBegin, CloseBegin, PayBegin

\* What a request reads before its transaction writes no table.
LEMMA LoadsWriteNothing ==
  ASSUME NEW r \in Requests,
         PurchaseLoad(r) \/ EditLoad(r) \/ MoveLoad(r) \/ CloseLoad(r) \/ PayLoad(r)
  PROVE  UNCHANGED tables
<1>1. CASE Reject(r) BY <1>1 DEF Reject
<1>2. CASE ~Reject(r)
  <2>1. Advance(r, "ready") /\ UNCHANGED tables
    BY <1>2 DEF PurchaseLoad, EditLoad, MoveLoad, CloseLoad, PayLoad
  <2> QED BY <2>1
<1> QED BY <1>1, <1>2

IsEdit(in) == in.op \in {"edit", "move"}

\* What a request begins with.
LEMMA BeginInput ==
  ASSUME NEW r \in Requests
  PROVE  /\ PurchaseBegin(r) => \E in \in Inputs : Admit(r, in) /\ in.op = "purchase"
         /\ EditBegin(r) => \E in \in Inputs : Admit(r, in) /\ in.op = "edit"
         /\ MoveBegin(r) => \E in \in Inputs : Admit(r, in) /\ in.op = "move"
         /\ CloseBegin(r) => \E in \in Inputs : Admit(r, in) /\ in.op = "close"
         /\ PayBegin(r) => \E in \in Inputs : Admit(r, in) /\ in.op = "pay"
<1>1. ASSUME PurchaseBegin(r)
      PROVE  \E in \in Inputs : Admit(r, in) /\ in.op = "purchase"
  <2>1. PICK amount \in Amounts, start \in Starts, plan \in Plans :
          Admit(r, [op |-> "purchase", amount |-> amount, start |-> start,
                    plan |-> plan])
    BY <1>1 DEF PurchaseBegin
  <2>2. [op |-> "purchase", amount |-> amount, start |-> start, plan |-> plan] \in Inputs
    BY DEF Inputs
  <2> QED BY <2>1, <2>2
<1>2. ASSUME EditBegin(r)
      PROVE  \E in \in Inputs : Admit(r, in) /\ in.op = "edit"
  <2>1. PICK q \in Requests, amount \in Amounts, status \in EditStatuses :
          Admit(r, [op |-> "edit", purchase |-> q, amount |-> amount, status |-> status])
    BY <1>2 DEF EditBegin
  <2>2. [op |-> "edit", purchase |-> q, amount |-> amount, status |-> status] \in Inputs
    BY DEF Inputs
  <2> QED BY <2>1, <2>2
<1>3. ASSUME MoveBegin(r)
      PROVE  \E in \in Inputs : Admit(r, in) /\ in.op = "move"
  <2>1. PICK q \in Requests, p \in Periods :
          Admit(r, [op |-> "move", purchase |-> q, period |-> p])
    BY <1>3 DEF MoveBegin
  <2>2. [op |-> "move", purchase |-> q, period |-> p] \in Inputs BY DEF Inputs
  <2> QED BY <2>1, <2>2
<1>4. ASSUME CloseBegin(r)
      PROVE  \E in \in Inputs : Admit(r, in) /\ in.op = "close"
  <2>1. PICK i \in InvoiceIds : Admit(r, [op |-> "close", invoice |-> i])
    BY <1>4 DEF CloseBegin
  <2>2. [op |-> "close", invoice |-> i] \in Inputs BY DEF Inputs
  <2> QED BY <2>1, <2>2
<1>5. ASSUME PayBegin(r)
      PROVE  \E in \in Inputs : Admit(r, in) /\ in.op = "pay"
  <2>1. PICK i \in InvoiceIds : Admit(r, [op |-> "pay", invoice |-> i])
    BY <1>5 DEF PayBegin
  <2>2. [op |-> "pay", invoice |-> i] \in Inputs BY DEF Inputs
  <2> QED BY <2>1, <2>2
<1> QED BY <1>1, <1>2, <1>3, <1>4, <1>5

\* What the commits do to the invoices, when nothing refuses them.
LEMMA EditEffect ==
  ASSUME TypeInv, NEW r \in Requests, EditCommit(r)
  PROVE  /\ UNCHANGED payment
         /\ \A i \in InvoiceIds :
              /\ invoice'[i].status = invoice[i].status
              /\ i # seen[r].purchase.invoice => invoice'[i] = invoice[i]
<1>1. invoice \in [InvoiceIds -> InvoiceRows] BY DEF TypeInv, TypeOK
<1>2. \A i \in InvoiceIds : invoice[i] \in InvoiceRows BY <1>1
<1> QED BY <1>1, <1>2 DEF EditCommit, InvoiceRows

\* What a move writes of the invoices: the two it names, and a status only where
\* it inserts.
LEMMA MoveEffect ==
  ASSUME LinkInv, NEW r \in Requests, MoveCommit(r), ~Reject(r)
  PROVE  LET to == seen[r].target[input[r].period]
         IN  /\ UNCHANGED payment
             /\ \A i \in InvoiceIds :
                  /\ \/ invoice'[i].status = invoice[i].status
                     \/ /\ i = to /\ ~Exists(seen[r].invoice, to)
                        /\ invoice[i].status = "absent" /\ invoice'[i].status = "open"
                  /\ i \notin {to, seen[r].purchase.invoice} => invoice'[i] = invoice[i]
<1> DEFINE to == seen[r].target[input[r].period]
<1>1. /\ invoice' = InvoicesAfterMove(r) /\ UNCHANGED payment
      /\ Ready(r, "move")
  BY DEF MoveCommit
<1>2. \A i \in InvoiceIds :
        /\ \/ invoice'[i].status = invoice[i].status
           \/ /\ i = to /\ ~Exists(seen[r].invoice, to)
              /\ invoice'[i].status = "open"
        /\ i \notin {to, seen[r].purchase.invoice} => invoice'[i] = invoice[i]
  <2>1. \A i \in InvoiceIds : invoice[i] \in InvoiceRows
    BY DEF LinkInv, TypeInv, TypeOK
  <2> QED BY <1>1, <2>1 DEF InvoicesAfterMove, InvoiceRows
<1>3. ~Exists(seen[r].invoice, to) => to.by = r
  BY <1>1 DEF LinkInv, RequestInv, DestinationOwn
<1>4. to \in InvoiceIds /\ pc[r] = "ready"
  BY <1>1, MoveCommitRows DEF LinkInv, Ready
<1>5. ~Exists(seen[r].invoice, to) => invoice[to].status = "absent"
  BY <1>3, <1>4 DEF LinkInv, InvoiceMinted, Exists
<1> HIDE DEF to
<1>6. /\ UNCHANGED payment
      /\ \A i \in InvoiceIds :
           /\ \/ invoice'[i].status = invoice[i].status
              \/ /\ i = to /\ ~Exists(seen[r].invoice, to)
                 /\ invoice[i].status = "absent" /\ invoice'[i].status = "open"
           /\ i \notin {to, seen[r].purchase.invoice} => invoice'[i] = invoice[i]
  BY <1>1, <1>2, <1>5
<1> QED BY <1>6 DEF to

\* The writers.
LEMMA Writers ==
  ASSUME NEW r \in Requests, Step(r)
  PROVE  \/ UNCHANGED tables
         \/ (PurchaseCommit(r) \/ MoveCommit(r)) /\ ~Reject(r)
         \/ EditCommit(r) \/ CloseCommit(r) \/ PayCommit(r)
<1>1. CASE Reject(r) BY <1>1 DEF Reject
<1>2. CASE PurchaseBegin(r) \/ EditBegin(r) \/ MoveBegin(r) \/ CloseBegin(r) \/ PayBegin(r)
  BY <1>2, BeginsWriteNothing
<1>3. CASE PurchaseLoad(r) \/ EditLoad(r) \/ MoveLoad(r) \/ CloseLoad(r) \/ PayLoad(r)
  BY <1>3, LoadsWriteNothing
<1> QED BY <1>1, <1>2, <1>3 DEF Step

\* A commit that is not refused ends its request.
LEMMA CommitEnds ==
  ASSUME TypeInv, NEW r \in Requests,
         \/ (PurchaseCommit(r) \/ MoveCommit(r)) /\ ~Reject(r)
         \/ EditCommit(r) \/ CloseCommit(r) \/ PayCommit(r)
  PROVE  Finish(r, "done") /\ pc'[r] = "done" /\ pc[r] = "ready"
<1>1. Finish(r, "done") /\ pc[r] = "ready"
  BY DEF PurchaseCommit, MoveCommit, EditCommit, CloseCommit, PayCommit, Ready
<1> QED BY <1>1 DEF Finish, Advance, TypeInv, TypeOK

\* Invoices are never deleted.
LEMMA InvoicesStay ==
  ASSUME LinkInv, NEW r \in Requests, Step(r)
  PROVE  \A i \in InvoiceIds : Exists(invoice, i) => Exists(invoice, i)'
<1>1. invoice \in [InvoiceIds -> InvoiceRows] /\ TypeInv BY DEF LinkInv, TypeInv, TypeOK
<1>2. CASE UNCHANGED tables BY <1>2 DEF Exists, tables
<1>3. CASE PurchaseCommit(r) /\ ~Reject(r)
  <2>1. \A i \in InvoiceIds :
          invoice'[i] = invoice[i] \/ invoice'[i].status = "open"
    BY <1>3 DEF PurchaseCommit, InvoicesAfterPurchase
  <2> QED BY <2>1 DEF Exists
<1>4. CASE EditCommit(r) BY <1>1, <1>4, EditEffect DEF Exists
<1>5. CASE MoveCommit(r) /\ ~Reject(r)
  <2>1. \A i \in InvoiceIds :
          invoice'[i].status = invoice[i].status \/ invoice'[i].status = "open"
    BY <1>5, MoveEffect
  <2> QED BY <2>1 DEF Exists
<1>6. CASE CloseCommit(r)
  <2>1. \A i \in InvoiceIds :
          invoice'[i] = invoice[i] \/ invoice'[i].status = "closed"
    BY <1>1, <1>6 DEF CloseCommit, InvoiceRows
  <2> QED BY <2>1 DEF Exists
<1>7. CASE PayCommit(r)
  <2>1. \A i \in InvoiceIds :
          invoice'[i] = invoice[i] \/ invoice'[i].status = "paid"
    BY <1>1, <1>7 DEF PayCommit
  <2> QED BY <2>1 DEF Exists
<1> QED BY <1>2, <1>3, <1>4, <1>5, <1>6, <1>7, Writers

\* Rows of purchases, installments and payments appear when the request that minted
\* their ids is done, in invoices that exist.
PurchaseKnown(q) ==
  IF Exists(purchase, q)
    THEN /\ pc[q] = "done" /\ purchase[q].amount \in Nat
         /\ purchase[q].invoice \in InvoiceIds /\ Exists(invoice, purchase[q].invoice)
    ELSE purchase[q].invoice = None

InstallmentKnown(x) ==
  installment[x].invoice # None =>
    /\ pc[x.by] = "done" /\ installment[x].amount \in Nat
    /\ installment[x].invoice \in InvoiceIds /\ Exists(invoice, installment[x].invoice)

\* Only a request that is done has posted a payment.
PaymentKnown(r) == pc[r] # "done" => payment[r] = NoPayment

RowsKnown ==
  /\ \A r \in Requests : PurchaseKnown(r) /\ PaymentKnown(r)
  /\ \A x \in ItemIds : InstallmentKnown(x)

\* What the checks of a request established of its own reads, and of rows that no
\* other request takes away; nothing here says that what it read is still so.
PurchaseRead(r) ==
  Ready(r, "purchase") => \A p \in Periods : seen[r].target[p] \in Resolutions(r, p)

EditRead(r) ==
  InFlight(r) /\ IsEdit(input[r]) =>
    /\ Exists(purchase, input[r].purchase) /\ seen[r].purchase.status # "absent"
    /\ pc[r] = "ready" \/ input[r].op = "move" => ~HasInstallments(input[r].purchase)

MoveRead(r) ==
  Ready(r, "move") =>
    /\ seen[r].target[input[r].period].period = input[r].period
    /\ seen[r].purchase.invoice.period # input[r].period

PayRead(r) ==
  /\ Ready(r, "pay") => Payable(seen[r].invoice[input[r].invoice])
  /\ \A q \in seen[r].voidPurchase : Exists(purchase, q)

HasRead(r) == PurchaseRead(r) /\ EditRead(r) /\ MoveRead(r) /\ PayRead(r)

ReadInv == RowsKnown /\ \A r \in Requests : HasRead(r)

\* A share is a natural number, and the whole amount when it is the only one.
LEMMA ShareNat ==
  ASSUME NEW in \in Inputs, in.op = "purchase", NEW k \in DOMAIN in.plan
  PROVE  /\ Share(in, k) \in Nat
         /\ ~InInstallments(in) => Share(in, k) = in.amount /\ k = 1 /\ Len(in.plan) = 1
<1> DEFINE n == in.start - 1 + Len(in.plan)
           a == in.amount
           j == in.start - 1 + k
<1>1. in \in [op : {"purchase"}, amount : Amounts, start : Starts, plan : Plans]
  BY DEF Inputs
<1>2. /\ in.plan \in Seq(Periods) /\ a \in Nat /\ in.start \in Nat \ {0}
      /\ Len(in.plan) \in Nat /\ k \in 1..Len(in.plan)
  <2>1. in.plan \in Plans /\ in.start \in Starts /\ a \in Amounts BY <1>1
  <2>2. in.plan \in Seq(Periods) BY <2>1, PlansAssumption
  <2>3. a \in Nat /\ in.start \in Nat \ {0} BY <2>1, AmountsAssumption, StartsAssumption
  <2>4. Len(in.plan) \in Nat /\ k \in 1..Len(in.plan) BY <2>2
  <2> QED BY <2>2, <2>3, <2>4
<1>3. n \in Nat \ {0} /\ j \in 1..n
  <2> DEFINE s == in.start
             len == Len(in.plan)
  <2>1. s \in Nat /\ s >= 1 /\ len \in Nat /\ k \in 1..len BY <1>2
  <2> HIDE DEF s, len
  <2>2. s - 1 + len \in Nat \ {0} /\ s - 1 + k \in 1..(s - 1 + len) BY <2>1
  <2> QED BY <2>2 DEF s, len
<1>4. ~(n > 1) => n = 1 /\ j = 1 /\ k = 1 /\ Len(in.plan) = 1
  <2> DEFINE s == in.start
             len == Len(in.plan)
  <2>1. s \in Nat /\ s >= 1 /\ len \in Nat /\ k \in 1..len BY <1>2
  <2> HIDE DEF s, len
  <2>2. ~(s - 1 + len > 1) => s - 1 + len = 1 /\ s - 1 + k = 1 /\ k = 1 /\ len = 1
    BY <2>1
  <2> QED BY <2>2 DEF s, len
<1> HIDE DEF n, a, j
<1>5. a \div n \in Nat /\ a % n \in Nat /\ a % n < n /\ a = n * (a \div n) + (a % n)
  BY <1>2, <1>3, DivType
<1>6. Share(in, k) = (a \div n) + (IF j <= a % n THEN 1 ELSE 0)
  BY <1>3 DEF Share, SplitAmount, n, a, j
<1>7. Share(in, k) \in Nat BY <1>3, <1>5, <1>6
<1>8. n = 1 => Share(in, k) = a
  <2> SUFFICES ASSUME n = 1 PROVE Share(in, k) = a OBVIOUS
  <2>1. a % n = 0 BY <1>5
  <2>2. j = 1 BY <1>3
  <2>3. a = a \div n BY <1>5, <2>1
  <2> QED BY <1>6, <1>5, <2>1, <2>2, <2>3
<1> QED BY <1>4, <1>7, <1>8 DEF InInstallments, n, a

\* The input of an edit or a move names a purchase.
LEMMA EditedType ==
  ASSUME TypeInv, NEW r \in Requests, InFlight(r), IsEdit(input[r])
  PROVE  input[r].purchase \in Requests
BY DEF TypeInv, InputAsked, InFlight, IsEdit, Inputs

\* What a commit does to the purchases: a new row, another amount and status, another
\* invoice, or another status.
LEMMA EditRows ==
  ASSUME TypeInv, NEW r \in Requests, EditRead(r), EditCommit(r)
  PROVE  /\ input[r].amount \in Nat /\ input[r].purchase \in Requests
         /\ \A q \in Requests :
              /\ q # input[r].purchase => purchase'[q] = purchase[q]
              /\ purchase'[q].invoice = purchase[q].invoice
              /\ purchase'[q].amount =
                   IF q = input[r].purchase THEN input[r].amount ELSE purchase[q].amount
              /\ Exists(purchase, q)' <=> Exists(purchase, q)
         /\ UNCHANGED <<installment, payment>>
<1>1. Ready(r, "edit") BY DEF EditCommit
<1>2. InFlight(r) /\ IsEdit(input[r]) BY <1>1 DEF Ready, InFlight, IsEdit
<1>3. /\ input[r].purchase \in Requests /\ input[r].amount \in Amounts
      /\ input[r].status \in EditStatuses
  BY <1>1 DEF Ready, TypeInv, InputAsked, Inputs
<1>4. input[r].amount \in Nat BY <1>3, AmountsAssumption
<1>5. purchase \in [Requests -> PurchaseRows] BY DEF TypeInv, TypeOK
<1>6. \A q \in Requests : purchase[q] \in PurchaseRows BY <1>5
<1>7. purchase' = [purchase EXCEPT ![input[r].purchase] =
           [@ EXCEPT !.amount = input[r].amount,
                     !.status = NextStatus(input[r], seen[r].purchase)]]
      /\ UNCHANGED <<installment, payment>>
  BY DEF EditCommit
<1>8. /\ seen[r].purchase.status # "absent"
      /\ Exists(purchase, input[r].purchase)
  BY <1>2 DEF EditRead
<1>9. NextStatus(input[r], seen[r].purchase) # "absent"
  BY <1>3, <1>8, EditStatusesAssumption DEF NextStatus, Exists
<1> HIDE DEF NextStatus
<1>10. PICK p : p = input[r].purchase OBVIOUS
<1>11. PICK a, st : a = input[r].amount /\ st = NextStatus(input[r], seen[r].purchase) OBVIOUS
<1>12. /\ p \in Requests /\ a \in Nat /\ st # "absent" /\ Exists(purchase, p)
       /\ purchase' = [purchase EXCEPT ![p] = [@ EXCEPT !.amount = a, !.status = st]]
  BY <1>3, <1>4, <1>7, <1>8, <1>9, <1>10, <1>11
<1>13. \A q \in Requests : q # p => purchase'[q] = purchase[q] BY <1>5, <1>12
<1>14. purchase'[p] = [purchase[p] EXCEPT !.amount = a, !.status = st] BY <1>5, <1>12
<1>15. /\ purchase'[p].invoice = purchase[p].invoice /\ purchase'[p].amount = a
       /\ purchase'[p].status = st
  <2>1. PICK old : old = purchase[p] OBVIOUS
  <2>2. old \in PurchaseRows BY <1>6, <1>12, <2>1
  <2>3. DOMAIN old = {"status", "amount", "invoice"} BY <2>2 DEF PurchaseRows
  <2>4. purchase'[p] = [old EXCEPT !.amount = a, !.status = st] BY <1>14, <2>1
  <2> QED BY <2>1, <2>3, <2>4
<1>16. ASSUME NEW q \in Requests
       PROVE  /\ purchase'[q].invoice = purchase[q].invoice
              /\ purchase'[q].amount = IF q = p THEN a ELSE purchase[q].amount
              /\ Exists(purchase, q)' <=> Exists(purchase, q)
  <2>1. CASE q = p BY <1>12, <1>15, <2>1 DEF Exists
  <2>2. CASE q # p BY <1>13, <2>2 DEF Exists
  <2> QED BY <2>1, <2>2
<1> QED BY <1>7, <1>10, <1>11, <1>12, <1>13, <1>16

\* A move gives its purchase another invoice.
LEMMA MoveRows ==
  ASSUME TypeInv, NEW r \in Requests, MoveCommit(r), ~Reject(r)
  PROVE  /\ input[r].purchase \in Requests
         /\ \A q \in Requests :
              /\ q # input[r].purchase => purchase'[q] = purchase[q]
              /\ purchase'[q].invoice =
                   IF q = input[r].purchase THEN seen[r].target[input[r].period]
                                            ELSE purchase[q].invoice
              /\ purchase'[q].amount = purchase[q].amount
              /\ Exists(purchase, q)' <=> Exists(purchase, q)
         /\ UNCHANGED <<installment, payment>>
<1>1. Ready(r, "move") BY DEF MoveCommit
<1>2. InFlight(r) /\ IsEdit(input[r]) BY <1>1 DEF Ready, InFlight, IsEdit
<1>3. input[r].purchase \in Requests BY <1>2, EditedType
<1>5. purchase \in [Requests -> PurchaseRows] BY DEF TypeInv, TypeOK
<1>6. \A q \in Requests : purchase[q] \in PurchaseRows BY <1>5
<1>7. purchase' = [purchase EXCEPT ![input[r].purchase].invoice =
                              seen[r].target[input[r].period]]
      /\ UNCHANGED <<installment, payment>>
  BY DEF MoveCommit
<1> QED BY <1>3, <1>5, <1>6, <1>7 DEF Exists, PurchaseRows

\* A payment voids purchases, and changes neither their amounts nor their invoices.
LEMMA PayRows ==
  ASSUME TypeInv, NEW r \in Requests, PayRead(r), PayCommit(r)
  PROVE  /\ \A q \in Requests :
              /\ purchase'[q].invoice = purchase[q].invoice
              /\ purchase'[q].amount = purchase[q].amount
              /\ Exists(purchase, q)' <=> Exists(purchase, q)
         /\ UNCHANGED installment
<1>1. \A q \in Requests : purchase[q] \in PurchaseRows BY DEF TypeInv, TypeOK
<1>2. /\ purchase' = [q \in Requests |->
           IF q \in seen[r].voidPurchase
             THEN [purchase[q] EXCEPT !.status = "voided"] ELSE purchase[q]]
      /\ UNCHANGED installment
  BY DEF PayCommit
<1> QED BY <1>1, <1>2 DEF PayRead, Exists, PurchaseRows

\* A registration inserts one purchase.
LEMMA PurchaseRow ==
  ASSUME TypeInv, NEW r \in Requests, PurchaseCommit(r), ~Reject(r)
  PROVE  /\ \A q \in Requests :
              q # r => purchase'[q] = purchase[q]
         /\ purchase'[r].status = "posted" /\ purchase'[r].amount = input[r].amount
         /\ purchase'[r].invoice = TargetOf(r, 1)
         /\ UNCHANGED payment
         /\ installment' = InstallmentsAfterPurchase(r)
BY DEF PurchaseCommit, TypeInv, TypeOK

\* The installments a purchase writes: all of them its own, none if it has one share.
LEMMA PurchaseParts ==
  ASSUME TypeInv, NEW r \in Requests, PurchaseCommit(r), ~Reject(r)
  PROVE  LET item(k) == [by |-> r, seq |-> input[r].start - 1 + k]
             in == input[r]
         IN  /\ \A x \in ItemIds :
                  \/ installment'[x] = installment[x]
                  \/ /\ InInstallments(in)
                     /\ \E k \in DOMAIN in.plan :
                          /\ x = item(k)
                          /\ installment'[x] = [invoice |-> TargetOf(r, k),
                                                amount |-> Share(in, k)]
             /\ InInstallments(in) =>
                  /\ \A k \in DOMAIN in.plan :
                       /\ item(k) \in ItemIds
                       /\ installment'[item(k)] = [invoice |-> TargetOf(r, k),
                                                   amount |-> Share(in, k)]
                  /\ MaxInstallments # 1
<1> DEFINE item(k) == [by |-> r, seq |-> input[r].start - 1 + k]
           in == input[r]
<1>1. Ready(r, "purchase") /\ installment' = InstallmentsAfterPurchase(r)
  BY DEF PurchaseCommit
<1>2. in \in Inputs /\ in.op = "purchase" /\ pc[r] # "idle" /\ TypeInv
  BY <1>1 DEF Ready, TypeInv, InputAsked
<1>3. in.plan \in Plans /\ in.start \in Starts /\ in.start - 1 + Len(in.plan) <= MaxInstallments
  BY <1>2 DEF TypeInv, PlanFits, Inputs
<1>4. in.plan \in Seq(Periods) /\ in.start \in Nat \ {0} BY <1>3, PlansAssumption, StartsAssumption
<1>5. Len(in.plan) \in Nat /\ DOMAIN in.plan = 1..Len(in.plan) BY <1>4
<1> DEFINE s == in.start
           len == Len(in.plan)
<1>6. s \in Nat /\ s >= 1 /\ len \in Nat /\ s - 1 + len <= MaxInstallments /\ MaxInstallments \in Nat
  BY <1>3, <1>4, <1>5, MaxInstallmentsAssumption
<1>7. InInstallments(in) <=> s - 1 + len > 1 BY DEF InInstallments
<1>8. \A x \in ItemIds : x.seq - s + 1 \in DOMAIN in.plan => x.seq \in Nat
  BY DEF ItemIds
<1>9. \A k \in 1..len : s - 1 + k \in 1..MaxInstallments /\ (s - 1 + k) - s + 1 = k
  <2> HIDE DEF s, len
  <2> QED BY <1>6
<1>10. ASSUME NEW x \in ItemIds
       PROVE  \/ installment'[x] = installment[x]
              \/ /\ InInstallments(in)
                 /\ \E k \in DOMAIN in.plan :
                      /\ x = item(k)
                      /\ installment'[x] = [invoice |-> TargetOf(r, k), amount |-> Share(in, k)]
  <2>1. CASE x.by = r /\ InInstallments(in) /\ x.seq - s + 1 \in DOMAIN in.plan
    <3> DEFINE k == x.seq - s + 1
    <3>1. installment'[x] = [invoice |-> TargetOf(r, k), amount |-> Share(in, k)]
      BY <1>1, <2>1 DEF InstallmentsAfterPurchase
    <3>2. x.seq = s - 1 + k
      <4>1. x.seq \in Nat BY <1>8, <2>1
      <4> QED BY <1>6, <4>1
    <3>3. x = item(k) BY <2>1, <3>2 DEF ItemIds
    <3> QED BY <2>1, <3>1, <3>3
  <2>2. CASE ~(x.by = r /\ InInstallments(in) /\ x.seq - s + 1 \in DOMAIN in.plan)
    BY <1>1, <2>2 DEF InstallmentsAfterPurchase
  <2> QED BY <2>1, <2>2
<1>11. ASSUME InInstallments(in), NEW k \in DOMAIN in.plan
       PROVE  /\ item(k) \in ItemIds
              /\ installment'[item(k)] = [invoice |-> TargetOf(r, k), amount |-> Share(in, k)]
  <2>1. item(k) \in ItemIds BY <1>5, <1>9 DEF ItemIds
  <2>2. item(k).by = r /\ item(k).seq = s - 1 + k OBVIOUS
  <2>3. item(k).seq - s + 1 = k BY <1>5, <1>9, <2>2
  <2> HIDE DEF item, s
  <2> QED BY <1>1, <1>11, <2>1, <2>2, <2>3 DEF InstallmentsAfterPurchase, s
<1>12. InInstallments(in) => MaxInstallments # 1 BY <1>6, <1>7
<1> QED BY <1>10, <1>11, <1>12

\* A purchase was not billed before it is registered.
LEMMA NotYetBilled ==
  ASSUME TypeInv, RowsKnown, NEW r \in Requests, pc[r] # "done"
  PROVE  /\ purchase[r].invoice = None /\ ~HasInstallments(r)
         /\ \A x \in ItemIds : x.by = r => installment[x].invoice = None
<1>1. purchase[r].invoice = None BY DEF RowsKnown, PurchaseKnown
<1>2. \A x \in ItemIds : x.by = r => installment[x].invoice = None
  BY DEF RowsKnown, InstallmentKnown
<1> QED BY <1>1, <1>2 DEF HasInstallments

\* A purchase that is registered neither gains nor loses installments.
LEMMA InstallmentsStay ==
  ASSUME LinkInv, RowsKnown, NEW r \in Requests, Step(r), NEW q \in Requests,
         Exists(purchase, q)
  PROVE  HasInstallments(q)' <=> HasInstallments(q)
<1>1. TypeInv /\ pc[q] = "done" BY DEF LinkInv, RowsKnown, PurchaseKnown
<1>2. CASE UNCHANGED installment BY <1>2 DEF HasInstallments
<1>3. CASE PurchaseCommit(r) /\ ~Reject(r)
  <2>1. q # r BY <1>1, <1>3 DEF PurchaseCommit, Ready
  <2> DEFINE item(k) == [by |-> r, seq |-> input[r].start - 1 + k]
  <2>2. \A k : item(k).by = r OBVIOUS
  <2>3. \A x \in ItemIds :
          installment'[x] = installment[x] \/ \E k \in DOMAIN input[r].plan : x = item(k)
    BY <1>1, <1>3, PurchaseParts
  <2> HIDE DEF item
  <2>4. \A x \in ItemIds : x.by = q => installment'[x] = installment[x]
    BY <2>1, <2>2, <2>3
  <2> QED BY <2>4 DEF HasInstallments
<1>4. UNCHANGED installment \/ (PurchaseCommit(r) /\ ~Reject(r))
  BY Writers DEF tables, MoveCommit, EditCommit, CloseCommit, PayCommit
<1> QED BY <1>2, <1>3, <1>4

\* Purchases are never deleted.
LEMMA PurchasesStay ==
  ASSUME LinkInv, NEW r \in Requests, HasRead(r), Step(r)
  PROVE  \A q \in Requests : Exists(purchase, q) => Exists(purchase, q)'
<1>1. TypeInv BY DEF LinkInv
<1>2. CASE UNCHANGED tables BY <1>2 DEF tables, Exists
<1>3. CASE PurchaseCommit(r) /\ ~Reject(r)
  <2>1. purchase'[r].status = "posted" BY <1>1, <1>3, PurchaseRow
  <2>2. \A q \in Requests : q # r => purchase'[q] = purchase[q]
    BY <1>1, <1>3, PurchaseRow
  <2> QED BY <2>1, <2>2 DEF Exists
<1>4. CASE MoveCommit(r) /\ ~Reject(r) BY <1>1, <1>4, MoveRows
<1>5. CASE EditCommit(r) BY <1>1, <1>5, EditRows DEF HasRead
<1>6. CASE CloseCommit(r) BY <1>6 DEF CloseCommit, Exists
<1>7. CASE PayCommit(r) BY <1>1, <1>7, PayRows DEF HasRead
<1> QED BY <1>2, <1>3, <1>4, <1>5, <1>6, <1>7, Writers

\* What a request has read stays so in a step of another one.
LEMMA OthersRead ==
  ASSUME LinkInv, ReadInv, NEW r \in Requests, Step(r)
  PROVE  \A q \in Requests \ {r} : HasRead(q)'
<1> SUFFICES ASSUME NEW q \in Requests \ {r} PROVE HasRead(q)' OBVIOUS
<1>1. pc'[q] = pc[q] /\ input'[q] = input[q] /\ seen'[q] = seen[q]
  BY OnlyOne DEF LinkInv
<1>2. TypeInv /\ HasRead(q) /\ HasRead(r) /\ RowsKnown BY DEF LinkInv, ReadInv
<1>3. PurchaseRead(q)'
  <2>1. \A p : Resolutions(q, p)' = Resolutions(q, p) BY <1>1 DEF Resolutions, Exists
  <2> QED BY <1>1, <1>2, <2>1 DEF HasRead, PurchaseRead, Ready
<1>4. EditRead(q)'
  <2> SUFFICES ASSUME InFlight(q), IsEdit(input[q]) PROVE EditRead(q)'
    BY <1>1 DEF EditRead, InFlight
  <2>1. input[q].purchase \in Requests BY <1>2, EditedType
  <2>2. Exists(purchase, input[q].purchase) BY <1>2 DEF HasRead, EditRead
  <2>3. Exists(purchase, input[q].purchase)' BY <1>1, <1>2, <2>1, <2>2, PurchasesStay DEF Exists
  <2>4. PICK p : p = input[q].purchase OBVIOUS
  <2>5. HasInstallments(p)' <=> HasInstallments(p)
    BY <1>2, <2>1, <2>2, <2>4, InstallmentsStay
  <2> QED BY <1>1, <1>2, <2>3, <2>4, <2>5 DEF HasRead, EditRead
<1>5. MoveRead(q)' BY <1>1, <1>2 DEF HasRead, MoveRead, Ready
<1>6. PayRead(q)'
  <2>1. seen[q].voidPurchase \subseteq Requests BY <1>2, SeenType DEF Snapshots
  <2> QED BY <1>1, <1>2, <2>1, PurchasesStay DEF HasRead, PayRead, Ready, Exists
<1> QED BY <1>3, <1>4, <1>5, <1>6 DEF HasRead

\* A request that is over has nothing to commit.
LEMMA ReadOver ==
  ASSUME TypeInv, NEW r \in Requests, NEW to \in {"done", "rejected"}, Finish(r, to)
  PROVE  HasRead(r)'
<1>1. pc'[r] = to /\ seen'[r] = NothingSeen(r)
  BY DEF Finish, Advance, TypeInv, TypeOK
<1> QED BY <1>1 DEF HasRead, PurchaseRead, EditRead, MoveRead, PayRead, InFlight, Ready,
                    NothingSeen

\* What a request has read as it begins.
LEMMA ReadBegin ==
  ASSUME TypeInv, NEW r \in Requests, HasRead(r),
         PurchaseBegin(r) \/ EditBegin(r) \/ MoveBegin(r) \/ CloseBegin(r) \/ PayBegin(r)
  PROVE  HasRead(r)'
<1>1. pc'[r] = "loading" /\ UNCHANGED tables
  BY DEF PurchaseBegin, EditBegin, MoveBegin, CloseBegin, PayBegin, Admit, TypeInv, TypeOK
<1>2. seen \in [Requests -> Snapshots] /\ seen[r] \in Snapshots
  BY DEF TypeInv, TypeOK
<1>3. PayRead(r)'
  <2>1. seen'[r].voidPurchase = seen[r].voidPurchase
    BY <1>2 DEF PurchaseBegin, EditBegin, MoveBegin, CloseBegin, PayBegin, Snapshots
  <2> QED BY <1>1, <2>1 DEF HasRead, PayRead, Exists, Ready, tables
<1>4. EditRead(r)'
  <2>1. CASE EditBegin(r) \/ MoveBegin(r)
    <3>1. PICK q \in Requests, in \in Inputs :
            /\ Exists(purchase, q) /\ Admit(r, in) /\ in.purchase = q
            /\ in.op = "move" => ~HasInstallments(q)
            /\ seen' = [seen EXCEPT ![r] = [@ EXCEPT !.purchase = purchase[q]]]
      <4>1. CASE EditBegin(r)
        <5>1. PICK q \in Requests, amount \in Amounts, status \in EditStatuses :
                /\ Exists(purchase, q)
                /\ Admit(r, [op |-> "edit", purchase |-> q, amount |-> amount,
                             status |-> status])
                /\ seen' = [seen EXCEPT ![r] = [@ EXCEPT !.purchase = purchase[q]]]
          BY <4>1 DEF EditBegin
        <5> DEFINE in == [op |-> "edit", purchase |-> q, amount |-> amount, status |-> status]
        <5>2. in \in Inputs BY DEF Inputs
        <5> QED BY <5>1, <5>2
      <4>2. CASE MoveBegin(r)
        <5>1. PICK q \in Requests, p \in Periods :
                /\ Exists(purchase, q) /\ ~HasInstallments(q)
                /\ Admit(r, [op |-> "move", purchase |-> q, period |-> p])
                /\ seen' = [seen EXCEPT ![r] = [@ EXCEPT !.purchase = purchase[q]]]
          BY <4>2 DEF MoveBegin
        <5> DEFINE in == [op |-> "move", purchase |-> q, period |-> p]
        <5>2. in \in Inputs BY DEF Inputs
        <5> QED BY <5>1, <5>2
      <4> QED BY <2>1, <4>1, <4>2
    <3>2. input'[r] = in BY <3>1 DEF Admit, TypeInv, TypeOK
    <3>3. seen'[r].purchase = purchase[q] BY <1>2, <3>1 DEF Snapshots
    <3> QED BY <1>1, <3>1, <3>2, <3>3 DEF EditRead, Exists, HasInstallments, tables
  <2>2. CASE ~(EditBegin(r) \/ MoveBegin(r))
    <3>1. PICK in \in Inputs : Admit(r, in) /\ in.op \in {"purchase", "close", "pay"}
      BY <2>2, BeginInput
    <3>2. input'[r] = in BY <3>1 DEF Admit, TypeInv, TypeOK
    <3> QED BY <3>1, <3>2 DEF EditRead, IsEdit
  <2> QED BY <2>1, <2>2
<1> QED BY <1>1, <1>3, <1>4 DEF HasRead, PurchaseRead, MoveRead, Ready

\* What a request has read once it passed its checks.
LEMMA ReadLoad ==
  ASSUME TypeInv, NEW r \in Requests, HasRead(r),
         PurchaseLoad(r) \/ EditLoad(r) \/ MoveLoad(r) \/ CloseLoad(r) \/ PayLoad(r)
  PROVE  HasRead(r)'
<1>1. CASE Reject(r) BY <1>1, ReadOver DEF Reject
<1>2. CASE ~Reject(r)
  <2>1. /\ pc'[r] = "ready" /\ input' = input /\ pc[r] = "loading"
        /\ UNCHANGED tables
    BY <1>2 DEF PurchaseLoad, EditLoad, MoveLoad, CloseLoad, PayLoad, Advance, TypeInv,
                TypeOK, Loading
  <2>2. seen \in [Requests -> Snapshots] /\ seen[r] \in Snapshots
    BY DEF TypeInv, TypeOK
  <2>3. UNCHANGED <<purchase, installment>> BY <2>1 DEF tables
  <2>4. CASE PurchaseLoad(r)
    <3>1. PICK target \in [Periods -> InvoiceIds], reuse \in SUBSET ReusableForecasts(r) :
            /\ \A p \in Periods : target[p] \in Resolutions(r, p)
            /\ seen' = [seen EXCEPT ![r] =
                          [@ EXCEPT !.target = target, !.reuse = reuse]]
      BY <1>2, <2>4 DEF PurchaseLoad
    <3>2. /\ seen'[r].invoice = seen[r].invoice /\ seen'[r].target = target
          /\ seen'[r].voidPurchase = seen[r].voidPurchase
      BY <2>2, <3>1 DEF Snapshots
    <3>3. input'[r].op = "purchase" BY <2>1, <2>4 DEF PurchaseLoad, Loading
    <3>4. \A p : Resolutions(r, p)' = Resolutions(r, p)
      BY <2>1, <3>2 DEF Resolutions, Exists
    <3>5. PurchaseRead(r)' BY <3>1, <3>2, <3>4 DEF PurchaseRead
    <3> QED BY <2>3, <3>2, <3>3, <3>5
            DEF HasRead, EditRead, MoveRead, PayRead, Ready, IsEdit, Exists
  <2>5. CASE EditLoad(r)
    <3>1. /\ input[r].op = "edit" /\ ~HasInstallments(input[r].purchase)
          /\ \E i : seen' = [seen EXCEPT ![r] = [@ EXCEPT !.invoice[i] = invoice[i]]]
      BY <1>2, <2>5 DEF EditLoad, Loading, AmountLocked
    <3>2. /\ seen'[r].purchase = seen[r].purchase
          /\ seen'[r].voidPurchase = seen[r].voidPurchase
      BY <2>2, <3>1 DEF Snapshots
    <3>3. InFlight(r) BY <2>1 DEF InFlight
    <3> QED BY <2>1, <2>3, <3>1, <3>2, <3>3
            DEF HasRead, PurchaseRead, EditRead, MoveRead, PayRead, Exists, HasInstallments,
                Ready, IsEdit
  <2>6. CASE MoveLoad(r)
    <3>1. PICK to \in Destinations(r), amount \in MoveAmounts(r) :
            /\ seen[r].purchase.invoice.period # input[r].period
            /\ seen' = [seen EXCEPT ![r] =
                   [@ EXCEPT !.amount = amount,
                             !.target[input[r].period] = to,
                             !.invoice[to] = invoice[to]]]
      BY <1>2, <2>6 DEF MoveLoad
    <3>2. /\ input[r].op = "move" /\ InFlight(r) /\ IsEdit(input[r])
      BY <2>6 DEF MoveLoad, Loading, InFlight, IsEdit
    <3>3. input[r].period \in Periods
      BY <3>2 DEF TypeInv, InputAsked, InFlight, Inputs
    <3>4. to.period = input[r].period BY DEF Destinations
    <3>5. /\ seen'[r].purchase = seen[r].purchase
          /\ seen'[r].voidPurchase = seen[r].voidPurchase
          /\ seen'[r].target[input[r].period] = to
      BY <2>2, <3>1, <3>3 DEF Snapshots
    <3>6. MoveRead(r)' BY <2>1, <3>1, <3>4, <3>5 DEF MoveRead
    <3> QED BY <2>1, <2>3, <3>2, <3>5, <3>6
            DEF HasRead, PurchaseRead, EditRead, PayRead, Exists, HasInstallments, Ready
  <2>7. CASE CloseLoad(r)
    <3>1. input'[r].op = "close" /\ seen' = seen
      BY <1>2, <2>1, <2>7 DEF CloseLoad, Loading
    <3> QED BY <2>3, <3>1
            DEF HasRead, PurchaseRead, EditRead, MoveRead, PayRead, Exists, Ready, IsEdit
  <2>8. CASE PayLoad(r)
    <3>1. PICK void \in VoidChoices(input[r].invoice) :
            /\ seen' = [seen EXCEPT ![r] =
                [@ EXCEPT !.voidForecast = void[1], !.voidPurchase = void[2]]]
            /\ Payable(seen[r].invoice[input[r].invoice])
      BY <1>2, <2>8 DEF PayLoad
    <3>2. seen'[r].invoice = seen[r].invoice /\ seen'[r].voidPurchase = void[2]
      BY <2>2, <3>1 DEF Snapshots
    <3>3. input'[r].op = "pay" BY <2>1, <2>8 DEF PayLoad, Loading
    <3>4. \A q \in void[2] : purchase[q].status = "planned"
      BY DEF VoidChoices, PlannedPurchasesOf
    <3> QED BY <2>1, <2>3, <3>1, <3>2, <3>3, <3>4
            DEF HasRead, PurchaseRead, EditRead, MoveRead, PayRead, Exists, Ready, IsEdit
  <2> QED BY <2>4, <2>5, <2>6, <2>7, <2>8
<1> QED BY <1>1, <1>2

\* What remains to be shown of the rows: where they point, and that what a request
\* inserts it inserts as it ends.
LEMMA RowsStep ==
  ASSUME LinkInv, RowsKnown, NEW r \in Requests, Step(r),
         \A q \in Requests :
           \/ /\ Exists(purchase, q)' <=> Exists(purchase, q)
              /\ purchase'[q].invoice = purchase[q].invoice
              /\ purchase'[q].amount = purchase[q].amount
           \/ /\ Exists(purchase, q)' /\ pc'[q] = "done" /\ purchase'[q].amount \in Nat
              /\ purchase'[q].invoice \in InvoiceIds /\ Exists(invoice, purchase[q].invoice)',
         \A x \in ItemIds :
           \/ installment'[x] = installment[x]
           \/ /\ pc'[x.by] = "done" /\ installment'[x].amount \in Nat
              /\ installment'[x].invoice \in InvoiceIds
              /\ Exists(invoice, installment[x].invoice)',
         \A q \in Requests : payment'[q] = payment[q] \/ pc'[q] = "done"
  PROVE  RowsKnown'
<1>1. \A q \in Requests : pc[q] = "done" => pc'[q] = "done" BY OnlyOne DEF LinkInv
<1>2. \A i \in InvoiceIds : Exists(invoice, i) => Exists(invoice, i)' BY InvoicesStay
<1>3. ASSUME NEW q \in Requests PROVE PurchaseKnown(q)'
  <2>1. PurchaseKnown(q) BY DEF RowsKnown
  <2>2. CASE /\ Exists(purchase, q)' <=> Exists(purchase, q)
             /\ purchase'[q].invoice = purchase[q].invoice
             /\ purchase'[q].amount = purchase[q].amount
    <3>1. CASE Exists(purchase, q)
      <4>1. /\ pc'[q] = "done" /\ purchase'[q].amount \in Nat
            /\ purchase'[q].invoice \in InvoiceIds
            /\ invoice'[purchase[q].invoice].status # "absent"
        BY <1>1, <1>2, <2>1, <2>2, <3>1 DEF PurchaseKnown, Exists
      <4> QED BY <2>2, <3>1, <4>1 DEF PurchaseKnown, Exists
    <3>2. CASE ~Exists(purchase, q) BY <2>1, <2>2, <3>2 DEF PurchaseKnown
    <3> QED BY <3>1, <3>2
  <2>3. CASE /\ Exists(purchase, q)' /\ pc'[q] = "done" /\ purchase'[q].amount \in Nat
             /\ purchase'[q].invoice \in InvoiceIds /\ Exists(invoice, purchase[q].invoice)'
    BY <2>3 DEF PurchaseKnown
  <2> QED BY <2>2, <2>3
<1>4. ASSUME NEW q \in Requests PROVE PaymentKnown(q)'
  BY <1>1 DEF RowsKnown, PaymentKnown
<1>5. ASSUME NEW x \in ItemIds PROVE InstallmentKnown(x)'
  <2>1. InstallmentKnown(x) /\ x.by \in Requests BY DEF RowsKnown, ItemIds
  <2>2. CASE installment'[x] = installment[x]
    BY <1>1, <1>2, <2>1, <2>2 DEF InstallmentKnown, Exists
  <2>3. CASE /\ pc'[x.by] = "done" /\ installment'[x].amount \in Nat
             /\ installment'[x].invoice \in InvoiceIds
             /\ Exists(invoice, installment[x].invoice)'
    BY <2>3 DEF InstallmentKnown
  <2> QED BY <2>2, <2>3
<1> QED BY <1>3, <1>4, <1>5 DEF RowsKnown

\* A purchase enters the invoices resolved for it, which its transaction leaves open.
LEMMA RowsPurchase ==
  ASSUME LinkInv, RowsKnown, NEW r \in Requests, PurchaseCommit(r), ~Reject(r)
  PROVE  RowsKnown'
<1> DEFINE in == input[r]
<1>1. Step(r) /\ Ready(r, "purchase") /\ TypeInv BY DEF Step, PurchaseCommit, LinkInv
<1>2. pc'[r] = "done" BY <1>1, CommitEnds
<1>3. /\ in \in Inputs /\ in.op = "purchase"
  BY <1>1 DEF Ready, TypeInv, InputAsked
<1>4. in.amount \in Nat /\ 1 \in DOMAIN in.plan /\ \A k \in DOMAIN in.plan : in.plan[k] \in Periods
  <2>1. in.plan \in Plans /\ in.amount \in Amounts BY <1>3 DEF Inputs
  <2>2. in.plan \in Seq(Periods) /\ Len(in.plan) \in 1..MaxInstallments
    BY <2>1, PlansAssumption
  <2>3. Len(in.plan) \in Nat /\ Len(in.plan) >= 1
    BY <2>2, MaxInstallmentsAssumption
  <2>4. in.amount \in Nat BY <2>1, AmountsAssumption
  <2> QED BY <2>2, <2>3, <2>4
<1>5. \A k \in DOMAIN in.plan :
        /\ TargetOf(r, k) \in InvoiceIds /\ invoice'[TargetOf(r, k)].status = "open"
        /\ Share(in, k) \in Nat
  <2> SUFFICES ASSUME NEW k \in DOMAIN in.plan
               PROVE  /\ TargetOf(r, k) \in InvoiceIds
                      /\ invoice'[TargetOf(r, k)].status = "open"
                      /\ Share(in, k) \in Nat
    OBVIOUS
  <2>1. TargetOf(r, k) \in InvoiceIds BY <1>1, <1>4, SeenType DEF Snapshots, TargetOf
  <2>2. TargetOf(r, k) \in Touched(r) BY DEF Touched
  <2>3. invoice'[TargetOf(r, k)].status = "open"
    BY <2>1, <2>2 DEF PurchaseCommit, InvoicesAfterPurchase
  <2> QED BY <1>3, <2>1, <2>3, ShareNat
<1>6. /\ \A q \in Requests : q # r => purchase'[q] = purchase[q]
      /\ Exists(purchase, r)' /\ purchase'[r].amount = in.amount
      /\ purchase'[r].invoice = TargetOf(r, 1)
      /\ UNCHANGED payment
  BY <1>1, PurchaseRow DEF Exists
<1>7. \A x \in ItemIds :
       \/ installment'[x] = installment[x]
       \/ /\ x.by = r
          /\ \E k \in DOMAIN in.plan :
               installment'[x] = [invoice |-> TargetOf(r, k), amount |-> Share(in, k)]
  <2> DEFINE item(k) == [by |-> r, seq |-> input[r].start - 1 + k]
  <2>1. \A k : item(k).by = r OBVIOUS
  <2>2. /\ \A x \in ItemIds :
             \/ installment'[x] = installment[x]
             \/ /\ InInstallments(in)
                /\ \E k \in DOMAIN in.plan :
                     /\ x = item(k)
                     /\ installment'[x] = [invoice |-> TargetOf(r, k),
                                           amount |-> Share(in, k)]
    BY <1>1, PurchaseParts
  <2> HIDE DEF item, in
  <2> QED BY <2>1, <2>2
<1>8. ASSUME NEW x \in ItemIds, installment'[x] # installment[x]
      PROVE  /\ pc'[x.by] = "done" /\ installment'[x].amount \in Nat
             /\ installment'[x].invoice \in InvoiceIds
             /\ Exists(invoice, installment[x].invoice)'
  <2>1. PICK k \in DOMAIN in.plan :
          installment'[x] = [invoice |-> TargetOf(r, k), amount |-> Share(in, k)]
    BY <1>7, <1>8
  <2>2. installment'[x].invoice = TargetOf(r, k) /\ installment'[x].amount = Share(in, k)
    BY <2>1
  <2> QED BY <1>2, <1>5, <1>7, <1>8, <2>2 DEF Exists
<1>9. \A q \in Requests :
       \/ /\ Exists(purchase, q)' <=> Exists(purchase, q)
          /\ purchase'[q].invoice = purchase[q].invoice
          /\ purchase'[q].amount = purchase[q].amount
       \/ /\ Exists(purchase, q)' /\ pc'[q] = "done" /\ purchase'[q].amount \in Nat
          /\ purchase'[q].invoice \in InvoiceIds /\ Exists(invoice, purchase[q].invoice)'
  <2>1. /\ pc'[r] = "done" /\ purchase'[r].amount \in Nat
        /\ purchase'[r].invoice \in InvoiceIds /\ Exists(invoice, purchase[r].invoice)'
    BY <1>2, <1>4, <1>5, <1>6 DEF Exists
  <2>2. \A q \in Requests : q # r =>
           /\ Exists(purchase, q)' <=> Exists(purchase, q)
           /\ purchase'[q].invoice = purchase[q].invoice
           /\ purchase'[q].amount = purchase[q].amount
    BY <1>6 DEF Exists
  <2> QED BY <1>6, <2>1, <2>2
<1>10. \A q \in Requests : payment'[q] = payment[q] BY <1>6
<1> QED BY <1>1, <1>8, <1>9, <1>10, RowsStep

\* No step points a row at an invoice that is not there.
LEMMA RowsNext ==
  ASSUME LinkInv, ReadInv, NEW r \in Requests, Step(r)
  PROVE  RowsKnown'
<1>1. TypeInv /\ RowsKnown /\ HasRead(r) BY DEF LinkInv, ReadInv
<1>a. \A q \in Requests : pc[q] = "done" => pc'[q] = "done" BY <1>1, OnlyOne
<1>b. \A i \in InvoiceIds : Exists(invoice, i) => Exists(invoice, i)' BY InvoicesStay
<1>2. CASE UNCHANGED tables
  <2>1. UNCHANGED <<purchase, installment, payment>> BY <1>2 DEF tables
  <2> QED BY <1>1, <2>1, RowsStep DEF Exists
<1>3. CASE PurchaseCommit(r) /\ ~Reject(r) BY <1>1, <1>3, RowsPurchase
<1>4. CASE EditCommit(r)
  <2>0. PICK q : q = input[r].purchase OBVIOUS
  <2>1. /\ input[r].amount \in Nat /\ q \in Requests
        /\ \A p \in Requests :
              /\ p # q => purchase'[p] = purchase[p]
              /\ purchase'[p].invoice = purchase[p].invoice
              /\ Exists(purchase, p)' <=> Exists(purchase, p)
        /\ purchase'[q].amount = input[r].amount
        /\ UNCHANGED <<installment, payment>>
    BY <1>1, <1>4, <2>0, EditRows DEF HasRead
  <2>2. Exists(purchase, q)
    BY <1>4, <2>0 DEF ReadInv, HasRead, EditRead, EditCommit, Ready, InFlight, IsEdit
  <2>3. PurchaseKnown(q) BY <1>1, <2>1 DEF RowsKnown
  <2>4. /\ pc'[q] = "done" /\ purchase'[q].invoice \in InvoiceIds
        /\ Exists(invoice, purchase[q].invoice)'
    BY <1>a, <1>b, <2>1, <2>2, <2>3 DEF PurchaseKnown, Exists
  <2>5. \A p \in Requests :
           \/ /\ Exists(purchase, p)' <=> Exists(purchase, p)
              /\ purchase'[p].invoice = purchase[p].invoice
              /\ purchase'[p].amount = purchase[p].amount
           \/ /\ Exists(purchase, p)' /\ pc'[p] = "done" /\ purchase'[p].amount \in Nat
              /\ purchase'[p].invoice \in InvoiceIds /\ Exists(invoice, purchase[p].invoice)'
    BY <2>1, <2>2, <2>4 DEF Exists
  <2> QED BY <1>1, <2>1, <2>5, RowsStep
<1>5. CASE MoveCommit(r) /\ ~Reject(r)
  <2>0. PICK q, to : q = input[r].purchase /\ to = seen[r].target[input[r].period] OBVIOUS
  <2>1. /\ q \in Requests
        /\ \A p \in Requests :
             /\ p # q => purchase'[p] = purchase[p]
             /\ Exists(purchase, p)' <=> Exists(purchase, p)
             /\ purchase'[p].amount = purchase[p].amount
        /\ purchase'[q].invoice = to
        /\ UNCHANGED <<installment, payment>>
    BY <1>1, <1>5, <2>0, MoveRows
  <2>2. Ready(r, "move") /\ pc[r] # "idle" BY <1>5 DEF MoveCommit, Ready
  <2>3. to \in InvoiceIds BY <1>1, <2>0, <2>2, MoveCommitRows DEF Ready
  <2>4. Exists(purchase, q)
    BY <2>0, <2>2 DEF ReadInv, HasRead, EditRead, Ready, InFlight, IsEdit
  <2>5. PurchaseKnown(q) BY <1>1, <2>1 DEF RowsKnown
  <2>6. invoice'[to].status # "absent"
    <3>1. invoice' = InvoicesAfterMove(r)
      BY <1>5 DEF MoveCommit
    <3>2. CASE Exists(seen[r].invoice, to)
      <4>1. Exists(invoice, to)
        BY <2>3, <3>2 DEF LinkInv, RequestInv, SnapshotExists
      <4> QED BY <2>3, <4>1, InvoicesStay DEF Exists
    <3>3. CASE ~Exists(seen[r].invoice, to)
      <4>1. invoice[to] \in InvoiceRows BY <1>1, <2>3 DEF TypeInv, TypeOK
      <4>2. to # seen[r].purchase.invoice
        BY <2>0, <2>2 DEF ReadInv, HasRead, MoveRead
      <4>3. invoice'[to] = [invoice[to] EXCEPT !.total = @ + seen[r].amount, !.status = "open"]
        BY <2>0, <2>3, <3>1, <3>3, <4>2 DEF InvoicesAfterMove
      <4> QED BY <4>1, <4>3 DEF InvoiceRows
    <3> QED BY <3>2, <3>3
  <2>7. /\ pc'[q] = "done" /\ purchase'[q].amount \in Nat
        /\ purchase'[q].invoice \in InvoiceIds
        /\ Exists(invoice, purchase[q].invoice)'
    BY <1>a, <2>1, <2>3, <2>4, <2>5, <2>6 DEF PurchaseKnown, Exists
  <2>8. \A p \in Requests : p # q => purchase'[p].invoice = purchase[p].invoice
    BY <2>1
  <2>9. \A p \in Requests :
           \/ /\ Exists(purchase, p)' <=> Exists(purchase, p)
              /\ purchase'[p].invoice = purchase[p].invoice
              /\ purchase'[p].amount = purchase[p].amount
           \/ /\ Exists(purchase, p)' /\ pc'[p] = "done" /\ purchase'[p].amount \in Nat
              /\ purchase'[p].invoice \in InvoiceIds /\ Exists(invoice, purchase[p].invoice)'
    BY <2>1, <2>4, <2>7, <2>8 DEF Exists
  <2> QED BY <1>1, <2>1, <2>9, RowsStep
<1>6. CASE CloseCommit(r)
  <2>1. UNCHANGED <<purchase, installment, payment>> BY <1>6 DEF CloseCommit
  <2> QED BY <1>1, <2>1, RowsStep DEF Exists
<1>7. CASE PayCommit(r)
  <2>1. /\ \A q \in Requests :
             /\ purchase'[q].invoice = purchase[q].invoice
             /\ purchase'[q].amount = purchase[q].amount
             /\ Exists(purchase, q)' <=> Exists(purchase, q)
        /\ UNCHANGED installment
    BY <1>1, <1>7, PayRows DEF HasRead
  <2>2. pc'[r] = "done" BY <1>1, <1>7, CommitEnds
  <2>3. \A q \in Requests : payment'[q] = payment[q] \/ pc'[q] = "done"
    BY <1>1, <1>7, <2>2 DEF PayCommit, TypeInv, TypeOK
  <2> QED BY <1>1, <2>1, <2>3, RowsStep
<1> QED BY <1>2, <1>3, <1>4, <1>5, <1>6, <1>7, Writers

LEMMA ReadInit == Init => ReadInv
<1> SUFFICES ASSUME Init PROVE ReadInv OBVIOUS
<1>1. RowsKnown
  BY DEF Init, RowsKnown, PurchaseKnown, InstallmentKnown, PaymentKnown, Exists,
         NoPurchase, NoInstallment
<1>2. \A r \in Requests : HasRead(r)
  BY DEF Init, HasRead, PurchaseRead, EditRead, MoveRead, PayRead, InFlight, Ready, NothingSeen
<1> QED BY <1>1, <1>2 DEF ReadInv

LEMMA ReadStep == LinkInv /\ ReadInv /\ [Next]_vars => ReadInv'
<1> SUFFICES ASSUME LinkInv, ReadInv, [Next]_vars PROVE ReadInv' OBVIOUS
<1>1. CASE SetPaymentAccount \/ UNCHANGED vars
  <2>1. UNCHANGED <<invoice, purchase, installment, payment, requests>>
    BY <1>1 DEF SetPaymentAccount, vars, tables
  <2>2. UNCHANGED <<pc, input, seen>> BY <2>1 DEF requests
  <2>3. RowsKnown'
    BY <2>1, <2>2 DEF ReadInv, RowsKnown, PurchaseKnown, InstallmentKnown, PaymentKnown, Exists
  <2>4. ASSUME NEW r \in Requests PROVE HasRead(r)'
    <3>1. \A p : Resolutions(r, p)' = Resolutions(r, p) BY <2>2 DEF Resolutions, Exists
    <3>2. PurchaseRead(r)' BY <2>2, <3>1 DEF ReadInv, HasRead, PurchaseRead, Ready
    <3> QED BY <2>1, <2>2, <3>2
            DEF ReadInv, HasRead, EditRead, MoveRead, PayRead, InFlight, Ready, Exists,
                HasInstallments
  <2> QED BY <2>3, <2>4 DEF ReadInv
<1>2. ASSUME NEW r \in Requests, Step(r) PROVE ReadInv'
  <2>1. TypeInv /\ HasRead(r) BY DEF LinkInv, ReadInv
  <2>2. HasRead(r)'
    <3>1. CASE Reject(r) BY <2>1, <3>1, ReadOver DEF Reject
    <3>2. CASE PurchaseBegin(r) \/ EditBegin(r) \/ MoveBegin(r) \/ CloseBegin(r) \/ PayBegin(r)
      BY <2>1, <3>2, ReadBegin
    <3>3. CASE PurchaseLoad(r) \/ EditLoad(r) \/ MoveLoad(r) \/ CloseLoad(r) \/ PayLoad(r)
      BY <2>1, <3>3, ReadLoad
    <3>4. CASE /\ ~Reject(r)
               /\ \/ PurchaseCommit(r) \/ MoveCommit(r) \/ EditCommit(r)
                  \/ CloseCommit(r) \/ PayCommit(r)
      BY <2>1, <3>4, CommitEnds, ReadOver
    <3> QED BY <1>2, <3>1, <3>2, <3>3, <3>4 DEF Step
  <2> QED BY <1>2, <2>2, RowsNext, OthersRead DEF ReadInv
<1> QED BY <1>1, <1>2 DEF Next

\* Both invariants, however requests overlap.
LEMMA ReadAlways == Spec => [](LinkInv /\ ReadInv)
BY LinkInit, LinkStep, ReadInit, ReadStep, PTL DEF Spec

-----------------------------------------------------------------------------
(* Requests that others overtake.                                          *)

\* The invoices a purchase touches are of the periods its shares fall in.
LEMMA TargetPeriods ==
  ASSUME LinkInv, ReadInv, NEW r \in Requests, Ready(r, "purchase"),
         NEW k \in DOMAIN input[r].plan
  PROVE  /\ TargetOf(r, k) \in InvoiceIds /\ TargetOf(r, k).period = input[r].plan[k]
         /\ input[r].plan[k] \in Periods
         /\ TargetOf(r, k) \in Resolutions(r, input[r].plan[k])
<1>1. input[r].plan \in Plans
  BY DEF Ready, LinkInv, TypeInv, InputAsked, Inputs
<1>2. input[r].plan \in Seq(Periods) BY <1>1, PlansAssumption
<1>3. input[r].plan[k] \in Periods BY <1>2
<1>4. TargetOf(r, k) \in Resolutions(r, input[r].plan[k])
  BY <1>3 DEF ReadInv, HasRead, PurchaseRead, TargetOf
<1>5. TargetOf(r, k).period = input[r].plan[k] BY <1>4 DEF Resolutions
<1>6. TargetOf(r, k) \in InvoiceIds
  BY <1>3, SeenType DEF LinkInv, Snapshots, TargetOf
<1> QED BY <1>3, <1>4, <1>5, <1>6

\* A purchase that nobody overtook on an invoice it touches has read it as it is.
LEMMA TouchedAsRead ==
  ASSUME LinkInv, ReadInv, NEW r \in Requests, Ready(r, "purchase"), NEW i \in Touched(r),
         ~Overtaken(r, i)
  PROVE  i \in InvoiceIds /\ seen[r].invoice[i] = invoice[i]
<1>1. PICK k \in DOMAIN input[r].plan : i = TargetOf(r, k) BY DEF Touched
<1>2. i \in InvoiceIds /\ i.period = input[r].plan[k] BY <1>1, TargetPeriods
<1> QED BY <1>2 DEF Overtaken

\* A request that commits and was not overtaken on an invoice that is closed or paid
\* leaves it as it is, or pays it.
LEMMA LockedStep ==
  ASSUME LinkInv, ReadInv, NEW r \in Requests, Step(r), NEW i \in InvoiceIds,
         invoice[i].status \in LockedStatuses, ~CommitsOvertaken(r, i)
  PROVE  \/ invoice'[i] = invoice[i]
         \/ /\ invoice[i].status = "closed" /\ invoice'[i].status = "paid"
            /\ invoice'[i].total = invoice[i].total
<1>1. TypeInv BY DEF LinkInv
<1>2. invoice \in [InvoiceIds -> InvoiceRows] BY <1>1 DEF TypeInv, TypeOK
<1>3. CASE UNCHANGED tables BY <1>3 DEF tables
<1>4. CASE PurchaseCommit(r) /\ ~Reject(r)
  <2>1. ~Overtaken(r, i) BY <1>1, <1>4, CommitEnds DEF CommitsOvertaken
  <2>2. i \notin Touched(r)
    <3> SUFFICES ASSUME i \in Touched(r) PROVE FALSE OBVIOUS
    <3>1. Ready(r, "purchase") BY <1>4 DEF PurchaseCommit
    <3>2. seen[r].invoice[i] = invoice[i] BY <2>1, <3>1, TouchedAsRead
    <3>3. seen[r].invoice[i].status \in {"absent", "open"}
      BY <3>1 DEF LinkInv, RequestInv, TargetsReadOpen, Touched
    <3> QED BY <3>2, <3>3 DEF LockedStatuses
  <2> QED BY <1>4, <2>2 DEF PurchaseCommit, InvoicesAfterPurchase
<1>5. CASE EditCommit(r)
  <2>1. ~Overtaken(r, i) BY <1>1, <1>5, CommitEnds DEF CommitsOvertaken
  <2>2. i # seen[r].purchase.invoice
    BY <1>5, <2>1 DEF EditCommit, Overtaken
  <2> QED BY <1>1, <1>5, <2>2, EditEffect
<1>6. CASE MoveCommit(r) /\ ~Reject(r)
  <2>1. ~Overtaken(r, i) BY <1>1, <1>6, CommitEnds DEF CommitsOvertaken
  <2>2. i \notin {seen[r].target[input[r].period], seen[r].purchase.invoice}
    BY <1>6, <2>1 DEF MoveCommit, Overtaken
  <2> QED BY <1>6, <2>2, MoveEffect
<1>7. CASE CloseCommit(r)
  <2>1. ~Overtaken(r, i) BY <1>1, <1>7, CommitEnds DEF CommitsOvertaken
  <2>2. i # input[r].invoice
    BY <1>7, <2>1 DEF CloseCommit, Overtaken, LockedStatuses
  <2> QED BY <1>2, <1>7, <2>2 DEF CloseCommit
<1>8. CASE PayCommit(r)
  <2>1. CASE i # input[r].invoice BY <1>2, <1>8, <2>1 DEF PayCommit
  <2>2. CASE i = input[r].invoice
    <3>1. ~Overtaken(r, i) BY <1>1, <1>8, CommitEnds DEF CommitsOvertaken
    <3>2. seen[r].invoice[i] = invoice[i]
      BY <1>8, <2>2, <3>1 DEF PayCommit, Overtaken
    <3>3. Payable(invoice[i])
      BY <1>8, <2>2, <3>2 DEF PayCommit, ReadInv, HasRead, PayRead
    <3>4. invoice[i].status = "closed" BY <3>3 DEF Payable, LockedStatuses
    <3> QED BY <1>2, <1>8, <2>2, <3>2, <3>4 DEF PayCommit
  <2> QED BY <2>1, <2>2
<1> QED BY <1>3, <1>4, <1>5, <1>6, <1>7, <1>8, Writers

LEMMA LockedKept ==
  LinkInv /\ ReadInv /\ [Next]_vars =>
    [\A i \in InvoiceIds :
       invoice[i].status \in LockedStatuses =>
         \/ invoice'[i] = invoice[i]
         \/ /\ invoice[i].status = "closed" /\ invoice'[i].status = "paid"
            /\ invoice'[i].total = invoice[i].total
         \/ \E r \in Requests : CommitsOvertaken(r, i)]_vars
<1> SUFFICES ASSUME LinkInv, ReadInv, Next, NEW i \in InvoiceIds,
                    invoice[i].status \in LockedStatuses,
                    \A r \in Requests : ~CommitsOvertaken(r, i)
             PROVE  \/ invoice'[i] = invoice[i]
                    \/ /\ invoice[i].status = "closed" /\ invoice'[i].status = "paid"
                       /\ invoice'[i].total = invoice[i].total
  OBVIOUS
<1>1. CASE SetPaymentAccount BY <1>1 DEF SetPaymentAccount
<1>2. CASE \E r \in Requests : Step(r) BY <1>2, LockedStep
<1> QED BY <1>1, <1>2 DEF Next

\* However requests overlap, a closed invoice keeps its total and at most becomes
\* paid, and a paid one stays as it is, until a request commits that found the invoice
\* otherwise when it checked its status, outside the transaction that writes.
THEOREM LockedUntilOvertaken == Spec => LockedUnlessOvertaken
BY ReadAlways, LockedKept, PTL DEF Spec, LockedUnlessOvertaken

\* A request that inserts an invoice of a period that has one, by another request or
\* by itself, was overtaken on it.
LEMMA SecondStep ==
  ASSUME LinkInv, ReadInv, NEW r \in Requests, Step(r),
         NEW i \in InvoiceIds, NEW j \in InvoiceIds, i # j, i.period = j.period,
         ~Exists(invoice, i), Exists(invoice, i)', Exists(invoice, j)'
  PROVE  CommitsOvertaken(r, j)
<1>1. TypeInv BY DEF LinkInv
<1>2. invoice \in [InvoiceIds -> InvoiceRows] BY <1>1 DEF TypeInv, TypeOK
<1>3. CASE UNCHANGED tables BY <1>3 DEF tables, Exists
<1>4. CASE PurchaseCommit(r) /\ ~Reject(r)
  <2>1. Ready(r, "purchase") /\ pc'[r] = "done" /\ invoice' = InvoicesAfterPurchase(r)
    BY <1>1, <1>4, CommitEnds DEF PurchaseCommit
  <2>2. i \in Touched(r) BY <2>1 DEF InvoicesAfterPurchase, Exists
  <2>3. PICK k \in DOMAIN input[r].plan : i = TargetOf(r, k) BY <2>2 DEF Touched
  <2>4. /\ i.period = input[r].plan[k] /\ i \in Resolutions(r, input[r].plan[k])
    BY <2>1, <2>3, TargetPeriods
  <2>5. ~Exists(seen[r].invoice, i) BY DEF LinkInv, RequestInv, SnapshotExists
  <2>6. \A h \in InvoiceIds : h.period = i.period => ~Exists(seen[r].invoice, h)
    BY <2>4, <2>5 DEF Resolutions
  <2>7. j \notin Touched(r)
    <3> SUFFICES ASSUME NEW l \in DOMAIN input[r].plan, j = TargetOf(r, l) PROVE FALSE
      BY DEF Touched
    <3>1. j.period = input[r].plan[l] BY <2>1, TargetPeriods
    <3>2. input[r].plan[l] = input[r].plan[k] BY <2>4, <3>1
    <3> QED BY <2>3, <3>2 DEF TargetOf
  <2>8. Exists(invoice, j) BY <2>1, <2>7 DEF InvoicesAfterPurchase, Exists
  <2>9. invoice[j] # seen[r].invoice[j] BY <2>6, <2>8 DEF Exists
  <2> QED BY <2>1, <2>4, <2>9 DEF CommitsOvertaken, Overtaken
<1>5. CASE EditCommit(r) BY <1>1, <1>5, EditEffect DEF Exists
<1>6. CASE MoveCommit(r) /\ ~Reject(r)
  <2>1. Ready(r, "move") /\ pc'[r] = "done" BY <1>1, <1>6, CommitEnds DEF MoveCommit
  <2>2. PICK to : to = seen[r].target[input[r].period] OBVIOUS
  <2>3. /\ i = to /\ ~Exists(seen[r].invoice, to)
        /\ invoice'[j].status = invoice[j].status
    <3>1. \A m \in InvoiceIds :
            \/ invoice'[m].status = invoice[m].status
            \/ m = to /\ ~Exists(seen[r].invoice, to)
      BY <1>6, <2>2, MoveEffect
    <3>2. invoice'[i].status # invoice[i].status BY DEF Exists
    <3> QED BY <3>1, <3>2
  <2>4. to.period = input[r].period BY <2>1, <2>2 DEF ReadInv, HasRead, MoveRead
  <2>5. Exists(invoice, j) BY <2>3 DEF Exists
  <2> QED BY <2>1, <2>2, <2>3, <2>4, <2>5 DEF CommitsOvertaken, Overtaken
<1>7. CASE CloseCommit(r)
  <2>1. input[r].invoice \in InvoiceIds /\ Exists(invoice, input[r].invoice)
    BY <1>1, <1>7, InputType DEF CloseCommit, Ready, LinkInv, RequestInv, AimExists, InFlight
  <2> QED BY <1>2, <1>7, <2>1 DEF CloseCommit, Exists
<1>8. CASE PayCommit(r)
  <2>1. input[r].invoice \in InvoiceIds /\ Exists(invoice, input[r].invoice)
    BY <1>1, <1>8, InputType DEF PayCommit, Ready, LinkInv, RequestInv, AimExists, InFlight
  <2> QED BY <1>2, <1>8, <2>1 DEF PayCommit, Exists
<1> QED BY <1>3, <1>4, <1>5, <1>6, <1>7, <1>8, Writers

LEMMA SecondKept ==
  LinkInv /\ ReadInv /\ [Next]_vars =>
    [\A i, j \in InvoiceIds :
       i # j /\ i.period = j.period /\ (Exists(invoice, i) /\ Exists(invoice, j))' =>
         \/ Exists(invoice, i) /\ Exists(invoice, j)
         \/ \E r \in Requests : CommitsOvertaken(r, i) \/ CommitsOvertaken(r, j)]_vars
<1> SUFFICES ASSUME LinkInv, ReadInv, Next, NEW i \in InvoiceIds, NEW j \in InvoiceIds,
                    i # j, i.period = j.period, Exists(invoice, i)', Exists(invoice, j)'
             PROVE  \/ Exists(invoice, i) /\ Exists(invoice, j)
                    \/ \E r \in Requests : CommitsOvertaken(r, i) \/ CommitsOvertaken(r, j)
  OBVIOUS
<1>1. CASE SetPaymentAccount BY <1>1 DEF SetPaymentAccount, Exists
<1>2. ASSUME NEW r \in Requests, Step(r)
      PROVE  \/ Exists(invoice, i) /\ Exists(invoice, j)
             \/ CommitsOvertaken(r, i) \/ CommitsOvertaken(r, j)
  <2>1. ~Exists(invoice, i) => CommitsOvertaken(r, j) BY <1>2, SecondStep
  <2>2. ~Exists(invoice, j) => CommitsOvertaken(r, i) BY <1>2, SecondStep
  <2> QED BY <2>1, <2>2
<1> QED BY <1>1, <1>2 DEF Next

\* However requests overlap, a period with an invoice, whatever its status, gets no
\* second one, except by a purchase or a move that looked for it before it was there:
\* the unique index keeps apart open invoices only.
THEOREM SecondOnlyWhenOvertaken == Spec => SecondInvoiceOnlyWhenOvertaken
BY ReadAlways, SecondKept, PTL DEF Spec, SecondInvoiceOnlyWhenOvertaken

\* A payment is posted by its own request, and never written again.
LEMMA PaymentWriters ==
  ASSUME TypeInv, NEW r \in Requests, Step(r)
  PROVE  \/ UNCHANGED payment
         \/ PayCommit(r) /\ \A q \in Requests \ {r} : payment'[q] = payment[q]
<1>1. UNCHANGED payment \/ PayCommit(r)
  BY Writers DEF tables, PurchaseCommit, MoveCommit, EditCommit, CloseCommit
<1>2. PayCommit(r) => \A q \in Requests \ {r} : payment'[q] = payment[q]
  BY DEF PayCommit, TypeInv, TypeOK
<1> QED BY <1>1, <1>2

\* A payment is settled as it is posted, and stays so unless its invoice is overtaken.
LEMMA PaymentStep ==
  ASSUME LinkInv, ReadInv, NEW q \in Requests, Step(q), NEW r \in Requests,
         Posted(r)', Posted(r) => Settled(r),
         ~CommitsOvertaken(q, payment'[r].invoice)
  PROVE  Settled(r)'
<1>1. TypeInv /\ PaymentKnown(r) BY DEF LinkInv, ReadInv, RowsKnown
<1>2. CASE payment'[r] = payment[r]
  <2> DEFINE i == payment[r].invoice
  <2>1. Settled(r) /\ i # None BY <1>2 DEF Posted
  <2>2. i \in InvoiceIds BY <1>1, <2>1 DEF TypeInv, TypeOK, PaymentRows
  <2>3. invoice[i] = [status |-> "paid", total |-> payment[r].amount, payment |-> r]
    BY <2>1 DEF Settled
  <2>4. invoice[i].status = "paid" BY <2>3
  <2>5. invoice'[i] = invoice[i]
    BY <1>2, <2>2, <2>4, LockedStep DEF LockedStatuses
  <2> QED BY <1>2, <2>3, <2>5 DEF Settled
<1>3. CASE PayCommit(r) /\ q = r
  <2>1. Ready(r, "pay") BY <1>3 DEF PayCommit
  <2>2. input[r].invoice \in InvoiceIds BY <1>1, <2>1, InputType DEF Ready
  <2>3. PICK i, total : i = input[r].invoice /\ total = seen[r].invoice[i].total OBVIOUS
  <2>4. /\ invoice' = [invoice EXCEPT ![i] =
             [status |-> "paid", total |-> total, payment |-> r]]
        /\ payment' = [payment EXCEPT ![r] = [invoice |-> i, amount |-> total]]
    BY <1>3, <2>3 DEF PayCommit
  <2>5. /\ payment'[r] = [invoice |-> i, amount |-> total]
        /\ invoice'[i] = [status |-> "paid", total |-> total, payment |-> r]
    BY <1>1, <2>2, <2>3, <2>4 DEF TypeInv, TypeOK
  <2> QED BY <2>5 DEF Settled
<1> QED BY <1>1, <1>2, <1>3, PaymentWriters

LEMMA PaymentKept ==
  LinkInv /\ ReadInv /\ [Next]_vars =>
    [\A r \in Requests :
       Posted(r)' /\ (Posted(r) => Settled(r)) =>
         Settled(r)' \/ \E q \in Requests : CommitsOvertaken(q, payment'[r].invoice)]_vars
<1> SUFFICES ASSUME LinkInv, ReadInv, Next, NEW r \in Requests,
                    Posted(r)', Posted(r) => Settled(r),
                    \A q \in Requests : ~CommitsOvertaken(q, payment'[r].invoice)
             PROVE  Settled(r)'
  OBVIOUS
<1>1. CASE SetPaymentAccount BY <1>1 DEF SetPaymentAccount, Posted, Settled
<1>2. CASE \E q \in Requests : Step(q) BY <1>2, PaymentStep
<1> QED BY <1>1, <1>2 DEF Next

\* However requests overlap, a payment is the one its invoice names, of the invoice's
\* total, from its posting on and until a request commits that was overtaken on that
\* invoice. The second of two payments that found it payable is such a request.
THEOREM PaidUntilOvertaken == Spec => PaymentStandsUnlessOvertaken
BY ReadAlways, PaymentKept, PTL DEF Spec, PaymentStandsUnlessOvertaken

-----------------------------------------------------------------------------
(* What the invoices bill.                                                 *)

\* Sums are over the rows that the requests mint.
FiniteRequests == IsFiniteSet(Requests)

\* The purchases an invoice bills, and the installments.
Whole(i) == {q \in Requests : purchase[q].invoice = i /\ ~HasInstallments(q)}
Parts(i) == {x \in ItemIds : installment[x].invoice = i}

\* What an invoice bills is the sum of the two.
LEMMA ChargedIs ==
  ASSUME NEW i
  PROVE  Charged(i) = SumFunctionOnSet(PurchaseAmounts, Whole(i))
                        + SumFunctionOnSet(InstallmentAmounts, Parts(i))
BY DEF Charged, Whole, Parts

\* Finitely many requests mint finitely many rows.
LEMMA FiniteItems ==
  ASSUME FiniteRequests PROVE IsFiniteSet(ItemIds)
<1> DEFINE pair == [x \in ItemIds |-> <<x.by, x.seq>>]
<1>1. IsFiniteSet(Requests \X (1..MaxInstallments))
  <2>1. 1 \in Int /\ MaxInstallments \in Int BY MaxInstallmentsAssumption
  <2>2. IsFiniteSet(1..MaxInstallments) BY <2>1, FS_Interval
  <2> QED BY <2>2, FS_Product DEF FiniteRequests
<1>2. pair \in [ItemIds -> Requests \X (1..MaxInstallments)] BY DEF ItemIds
<1>3. \A x, y \in ItemIds : pair[x] = pair[y] => x = y BY DEF ItemIds
<1> HIDE DEF pair
<1>4. pair \in Injection(ItemIds, Requests \X (1..MaxInstallments))
  BY <1>2, <1>3 DEF Injection, IsInjective
<1> QED BY <1>1, <1>4, FS_Injection

LEMMA FiniteBills ==
  ASSUME FiniteRequests, NEW i
  PROVE  IsFiniteSet(Whole(i)) /\ IsFiniteSet(Parts(i))
<1>1. Whole(i) \subseteq Requests /\ Parts(i) \subseteq ItemIds BY DEF Whole, Parts
<1> QED BY <1>1, FiniteItems, FS_Subset DEF FiniteRequests

\* The terms of the sums are natural numbers.
LEMMA ChargesNat ==
  ASSUME RowsKnown, TypeInv
  PROVE  /\ PurchaseAmounts \in [Requests -> Int] /\ InstallmentAmounts \in [ItemIds -> Int]
         /\ \A i \in InvoiceIds :
              /\ \A q \in Whole(i) : PurchaseAmounts[q] \in Nat
              /\ \A x \in Parts(i) : InstallmentAmounts[x] \in Nat
<1>1. /\ purchase \in [Requests -> PurchaseRows]
      /\ installment \in [ItemIds -> InstallmentRows]
  BY DEF TypeInv, TypeOK
<1>2. \A i \in InvoiceIds : i # None BY NoneAssumption
<1> QED BY <1>1, <1>2 DEF PurchaseRows, InstallmentRows, PurchaseAmounts, InstallmentAmounts,
           Whole, Parts, RowsKnown, PurchaseKnown, InstallmentKnown

\* What an invoice bills is a natural number.
LEMMA ChargedNat ==
  ASSUME RowsKnown, TypeInv, FiniteRequests, NEW i \in InvoiceIds
  PROVE  Charged(i) \in Nat
<1>1. /\ SumFunctionOnSet(PurchaseAmounts, Whole(i)) \in Nat
      /\ SumFunctionOnSet(InstallmentAmounts, Parts(i)) \in Nat
  BY ChargesNat, FiniteBills, SumNat
<1> QED BY <1>1, ChargedIs

\* What an invoice bills after a step.
LEMMA ChargedIsPrime ==
  ASSUME NEW i
  PROVE  Charged(i)' = SumFunctionOnSet(PurchaseAmounts', Whole(i)')
                        + SumFunctionOnSet(InstallmentAmounts', Parts(i)')
BY DEF Charged, Whole, Parts

\* An invoice bills what it did while the rows of its charges stay.
LEMMA SameCharges ==
  ASSUME \A q \in Requests : /\ purchase'[q].invoice = purchase[q].invoice
                             /\ purchase'[q].amount = purchase[q].amount,
         UNCHANGED installment, NEW i
  PROVE  Charged(i)' = Charged(i)
<1>1. Whole(i)' = Whole(i) /\ Parts(i)' = Parts(i) BY DEF Whole, Parts, HasInstallments
<1>2. PurchaseAmounts' = PurchaseAmounts /\ InstallmentAmounts' = InstallmentAmounts
  BY DEF PurchaseAmounts, InstallmentAmounts
<1> QED BY <1>1, <1>2, ChargedIs, ChargedIsPrime

\* A purchase that nobody overtook on an invoice adds to it the one share that falls
\* in it.
LEMMA PurchaseInvoice ==
  ASSUME LinkInv, ReadInv, NEW r \in Requests, PurchaseCommit(r), ~Reject(r),
         NEW i \in InvoiceIds, ~Overtaken(r, i), ~SharesMeet(r, i)
  PROVE  /\ i \notin Touched(r) => invoice'[i] = invoice[i]
         /\ \A k \in DOMAIN input[r].plan :
              i = TargetOf(r, k) =>
                /\ invoice[i].status \in {"absent", "open"} /\ invoice'[i].status = "open"
                /\ invoice'[i].total = invoice[i].total + Share(input[r], k)
<1>1. Ready(r, "purchase") /\ invoice' = InvoicesAfterPurchase(r) BY DEF PurchaseCommit
<1>2. i \notin Touched(r) => invoice'[i] = invoice[i] BY <1>1 DEF InvoicesAfterPurchase
<1>3. ASSUME NEW k \in DOMAIN input[r].plan, i = TargetOf(r, k)
      PROVE  /\ invoice[i].status \in {"absent", "open"} /\ invoice'[i].status = "open"
             /\ invoice'[i].total = invoice[i].total + Share(input[r], k)
  <2>1. i \in Touched(r) BY <1>3 DEF Touched
  <2>2. LastShareIn(r, i) = k
    <3>1. LastShareIn(r, i) \in DOMAIN input[r].plan /\ TargetOf(r, LastShareIn(r, i)) = i
      BY <1>1, <2>1, LastShareType DEF Ready, LinkInv
    <3> QED BY <1>1, <1>3, <3>1 DEF SharesMeet
  <2>3. seen[r].invoice[i] = invoice[i] BY <1>1, <2>1, TouchedAsRead
  <2>4. /\ invoice'[i].status = "open" /\ invoice'[i].total = BilledTotal(r, k)
    BY <1>1, <2>1, <2>2 DEF InvoicesAfterPurchase
  <2>5. BilledTotal(r, k) = invoice[i].total + Share(input[r], k)
    BY <1>3, <2>3 DEF BilledTotal
  <2>6. invoice[i].status \in {"absent", "open"}
    BY <1>1, <1>3, <2>3 DEF LinkInv, RequestInv, TargetsReadOpen
  <2> QED BY <2>4, <2>5, <2>6
<1> QED BY <1>2, <1>3

\* A purchase registered whole adds its amount to one invoice, and nothing else.
LEMMA WholePurchase ==
  ASSUME LinkInv, ReadInv, FiniteRequests, NEW r \in Requests, PurchaseCommit(r), ~Reject(r),
         ~InInstallments(input[r]), NEW i \in InvoiceIds
  PROVE  Charged(i)' = Charged(i) + (IF i = TargetOf(r, 1) THEN Share(input[r], 1) ELSE 0)
<1>1. /\ Ready(r, "purchase") /\ TypeInv /\ RowsKnown /\ FiniteRequests /\ i # None
  BY NoneAssumption DEF PurchaseCommit, LinkInv, ReadInv
<1>2. /\ purchase[r].invoice = None /\ ~HasInstallments(r)
      /\ \A x \in ItemIds : x.by = r => installment[x].invoice = None
  BY <1>1, NotYetBilled DEF Ready
<1>3. installment \in [ItemIds -> InstallmentRows] /\ installment' = installment
  <2>1. \A x \in ItemIds : installment'[x] = installment[x]
    BY <1>1, PurchaseParts
  <2>2. /\ installment \in [ItemIds -> InstallmentRows]
        /\ installment' = [x \in ItemIds |-> installment'[x]]
    BY PurchaseRow, <1>1 DEF TypeInv, TypeOK, InstallmentsAfterPurchase
  <2> QED BY <2>1, <2>2
<1>4. /\ \A q \in Requests : q # r => purchase'[q] = purchase[q]
      /\ purchase'[r].invoice = TargetOf(r, 1) /\ purchase'[r].amount = input[r].amount
  BY <1>1, PurchaseRow
<1>5. /\ Parts(i)' = Parts(i) /\ InstallmentAmounts' = InstallmentAmounts
      /\ \A q \in Requests : HasInstallments(q)' <=> HasInstallments(q)
  BY <1>3 DEF Parts, InstallmentAmounts, HasInstallments
<1>6. /\ r \notin Whole(i)
      /\ Whole(i)' = IF i = TargetOf(r, 1) THEN Whole(i) \cup {r} ELSE Whole(i)
  BY <1>1, <1>2, <1>4, <1>5 DEF Whole
<1>7. /\ \A q \in Whole(i) : /\ PurchaseAmounts[q] \in Int
                             /\ PurchaseAmounts[q] = PurchaseAmounts'[q]
      /\ PurchaseAmounts'[r] = input[r].amount
  <2>1. \A q \in Whole(i) : q \in Requests /\ q # r BY <1>6 DEF Whole
  <2>2. \A q \in Whole(i) : PurchaseAmounts[q] \in Int BY <1>1, <2>1, ChargesNat
  <2> QED BY <1>4, <2>1, <2>2 DEF PurchaseAmounts
<1>8. Share(input[r], 1) = input[r].amount /\ input[r].amount \in Int
  <2>1. input[r] \in Inputs /\ input[r].op = "purchase"
    BY <1>1 DEF Ready, TypeInv, InputAsked
  <2>2. input[r].plan \in Plans /\ input[r].amount \in Amounts BY <2>1 DEF Inputs
  <2>3. 1 \in DOMAIN input[r].plan
    <3>1. input[r].plan \in Seq(Periods) /\ Len(input[r].plan) \in 1..MaxInstallments
      BY <2>2, PlansAssumption
    <3>2. Len(input[r].plan) \in Nat /\ Len(input[r].plan) >= 1
      BY <3>1, MaxInstallmentsAssumption
    <3> QED BY <3>1, <3>2
  <2> QED BY <2>1, <2>2, <2>3, ShareNat, AmountsAssumption
<1>9. /\ SumFunctionOnSet(PurchaseAmounts, Whole(i)) \in Int
      /\ SumFunctionOnSet(InstallmentAmounts, Parts(i)) \in Int
      /\ IsFiniteSet(Whole(i))
  BY <1>1, ChargesNat, FiniteBills, SumType
<1>10. SumFunctionOnSet(PurchaseAmounts', Whole(i)') =
         SumFunctionOnSet(PurchaseAmounts, Whole(i))
           + (IF i = TargetOf(r, 1) THEN Share(input[r], 1) ELSE 0)
  <2>1. CASE i = TargetOf(r, 1)
    <3>1. SumFunctionOnSet(PurchaseAmounts', Whole(i) \cup {r}) =
            SumFunctionOnSet(PurchaseAmounts, Whole(i)) + PurchaseAmounts'[r]
      BY <1>6, <1>7, <1>8, <1>9, SumInsert
    <3> QED BY <1>6, <1>7, <1>8, <2>1, <3>1
  <2>2. CASE i # TargetOf(r, 1)
    <3>1. SumFunctionOnSet(PurchaseAmounts, Whole(i)) = SumFunctionOnSet(PurchaseAmounts', Whole(i))
      BY <1>7, <1>9, SumSame
    <3> QED BY <1>6, <1>9, <2>2, <3>1
  <2> QED BY <2>1, <2>2
<1> QED BY <1>5, <1>8, <1>9, <1>10, ChargedIs, ChargedIsPrime

\* A purchase in installments adds to an invoice the installment that falls in it.
LEMMA InstalledPurchase ==
  ASSUME LinkInv, ReadInv, FiniteRequests, NEW r \in Requests, PurchaseCommit(r), ~Reject(r),
         InInstallments(input[r]), NEW i \in InvoiceIds, ~SharesMeet(r, i)
  PROVE  /\ i \notin Touched(r) => Charged(i)' = Charged(i)
         /\ \A k \in DOMAIN input[r].plan :
              i = TargetOf(r, k) => Charged(i)' = Charged(i) + Share(input[r], k)
<1> DEFINE in == input[r]
           item(k) == [by |-> r, seq |-> in.start - 1 + k]
<1>1. /\ Ready(r, "purchase") /\ TypeInv /\ RowsKnown /\ FiniteRequests /\ i # None
  BY NoneAssumption DEF PurchaseCommit, LinkInv, ReadInv
<1>2. /\ purchase[r].invoice = None /\ ~HasInstallments(r)
      /\ \A x \in ItemIds : x.by = r => installment[x].invoice = None
  BY <1>1, NotYetBilled DEF Ready
<1>3. /\ \A x \in ItemIds :
            \/ installment'[x] = installment[x]
            \/ \E k \in DOMAIN in.plan :
                 /\ x = item(k)
                 /\ installment'[x] = [invoice |-> TargetOf(r, k), amount |-> Share(in, k)]
      /\ \A k \in DOMAIN in.plan :
            /\ item(k) \in ItemIds
            /\ installment'[item(k)] = [invoice |-> TargetOf(r, k), amount |-> Share(in, k)]
  BY <1>1, PurchaseParts
<1>a. \A k : item(k).by = r OBVIOUS
<1> HIDE DEF item
<1>b. \A k \in DOMAIN in.plan :
        /\ item(k) \in ItemIds /\ installment'[item(k)].invoice = TargetOf(r, k)
        /\ installment'[item(k)].amount = Share(in, k)
  <2> SUFFICES ASSUME NEW k \in DOMAIN in.plan
               PROVE  /\ item(k) \in ItemIds
                      /\ installment'[item(k)].invoice = TargetOf(r, k)
                      /\ installment'[item(k)].amount = Share(in, k)
    OBVIOUS
  <2>1. /\ item(k) \in ItemIds
        /\ installment'[item(k)] = [invoice |-> TargetOf(r, k), amount |-> Share(in, k)]
    BY <1>3
  <2> QED BY <2>1
<1>c. \A x \in ItemIds :
        installment'[x] = installment[x] \/ \E k \in DOMAIN in.plan : x = item(k)
  <2> SUFFICES ASSUME NEW x \in ItemIds
               PROVE  installment'[x] = installment[x] \/ \E k \in DOMAIN in.plan : x = item(k)
    OBVIOUS
  <2> QED BY <1>3
<1>4. \A q \in Requests : q # r => purchase'[q] = purchase[q]
  BY <1>1, PurchaseRow
<1>5. in \in Inputs /\ in.op = "purchase" BY <1>1 DEF Ready, TypeInv, InputAsked
<1>6. 1 \in DOMAIN in.plan
  <2>1. in.plan \in Plans BY <1>5 DEF Inputs
  <2>2. in.plan \in Seq(Periods) /\ Len(in.plan) \in 1..MaxInstallments
    BY <2>1, PlansAssumption
  <2>3. Len(in.plan) \in Nat /\ Len(in.plan) >= 1
    BY <2>2, MaxInstallmentsAssumption
  <2> QED BY <2>2, <2>3
<1>7. \A k \in DOMAIN in.plan : TargetOf(r, k) \in InvoiceIds /\ TargetOf(r, k) # None
  BY <1>1, TargetPeriods, NoneAssumption
<1>8. \A q \in Requests \ {r} : HasInstallments(q)' <=> HasInstallments(q)
  <2>1. \A x \in ItemIds : x.by # r => installment'[x] = installment[x]
    BY <1>a, <1>c
  <2> QED BY <2>1 DEF HasInstallments
<1>9. HasInstallments(r)'
  <2>1. item(1) \in ItemIds /\ installment'[item(1)].invoice # None /\ item(1).by = r
    BY <1>a, <1>b, <1>6, <1>7
  <2> QED BY <2>1 DEF HasInstallments
<1>10. Whole(i)' = Whole(i) /\ \A q \in Whole(i) : q \in Requests /\ q # r
  BY <1>1, <1>2, <1>4, <1>8, <1>9 DEF Whole
<1>11. SumFunctionOnSet(PurchaseAmounts', Whole(i)') = SumFunctionOnSet(PurchaseAmounts, Whole(i))
  <2>1. \A q \in Whole(i) : PurchaseAmounts[q] = PurchaseAmounts'[q]
    BY <1>4, <1>10 DEF PurchaseAmounts
  <2> QED BY <1>1, <1>10, <2>1, FiniteBills, SumSame
<1>12. /\ SumFunctionOnSet(PurchaseAmounts, Whole(i)) \in Int
       /\ SumFunctionOnSet(InstallmentAmounts, Parts(i)) \in Int
       /\ IsFiniteSet(Parts(i))
       /\ \A x \in Parts(i) : InstallmentAmounts[x] \in Int /\ x \in ItemIds
  BY <1>1, ChargesNat, FiniteBills, SumType DEF Parts
<1>13. \A k \in DOMAIN in.plan : item(k) \notin Parts(i) BY <1>1, <1>2, <1>a DEF Parts
<1>14. \A x \in Parts(i) : installment'[x] = installment[x] BY <1>c, <1>12, <1>13
<1>15. \A x \in Parts(i) : InstallmentAmounts'[x] = InstallmentAmounts[x]
  BY <1>12, <1>14 DEF InstallmentAmounts
<1>16. ASSUME i \notin Touched(r) PROVE Charged(i)' = Charged(i)
  <2>1. \A k \in DOMAIN in.plan : TargetOf(r, k) # i BY <1>16 DEF Touched
  <2>2. Parts(i)' = Parts(i)
    <3>1. \A x \in ItemIds : installment'[x].invoice = i => installment'[x] = installment[x]
      BY <1>b, <1>c, <2>1
    <3> QED BY <1>14, <3>1 DEF Parts
  <2>3. SumFunctionOnSet(InstallmentAmounts, Parts(i)) = SumFunctionOnSet(InstallmentAmounts', Parts(i))
    BY <1>12, <1>15, SumSame
  <2> QED BY <1>11, <2>2, <2>3, ChargedIs, ChargedIsPrime
<1>17. ASSUME NEW k \in DOMAIN in.plan, i = TargetOf(r, k)
       PROVE  Charged(i)' = Charged(i) + Share(in, k)
  <2>1. Parts(i)' = Parts(i) \cup {item(k)}
    <3>1. \A x \in ItemIds : installment'[x].invoice = i => x = item(k) \/ installment[x].invoice = i
      <4>1. \A j \in DOMAIN in.plan : TargetOf(r, j) = i => j = k
        BY <1>1, <1>17 DEF SharesMeet
      <4> SUFFICES ASSUME NEW x \in ItemIds, installment'[x].invoice = i
                   PROVE  x = item(k) \/ installment[x].invoice = i
        OBVIOUS
      <4>2. CASE installment'[x] = installment[x] BY <4>2
      <4>3. ASSUME NEW j \in DOMAIN in.plan, x = item(j) PROVE x = item(k)
        BY <1>b, <4>1, <4>3
      <4> QED BY <1>c, <4>2, <4>3
    <3>2. installment'[item(k)].invoice = i /\ item(k) \in ItemIds BY <1>b, <1>17
    <3>3. \A x \in ItemIds : installment[x].invoice = i => installment'[x].invoice = i
      BY <1>14 DEF Parts
    <3> DEFINE y == item(k)
    <3>4. y = item(k) OBVIOUS
    <3> HIDE DEF y
    <3> QED BY <3>1, <3>2, <3>3, <3>4 DEF Parts
  <2>2. InstallmentAmounts'[item(k)] = Share(in, k) BY <1>b, <1>17 DEF InstallmentAmounts
  <2>3. Share(in, k) \in Int BY <1>5, ShareNat
  <2>4. item(k) \notin Parts(i) BY <1>13
  <2>5. SumFunctionOnSet(InstallmentAmounts', Parts(i) \cup {item(k)}) =
          SumFunctionOnSet(InstallmentAmounts, Parts(i)) + InstallmentAmounts'[item(k)]
    BY <1>12, <1>15, <2>2, <2>3, <2>4, SumInsert
  <2>6. Charged(i)' = SumFunctionOnSet(PurchaseAmounts, Whole(i))
                        + (SumFunctionOnSet(InstallmentAmounts, Parts(i)) + Share(in, k))
    BY <1>11, <2>1, <2>2, <2>5, ChargedIsPrime
  <2> HIDE DEF in
  <2> QED BY <1>12, <2>3, <2>6, ChargedIs
<1> QED BY <1>16, <1>17

\* The purchase an edit is of.
LEMMA EditRowsKnown ==
  ASSUME LinkInv, ReadInv, NEW r \in Requests, EditCommit(r)
  PROVE  LET q == input[r].purchase
         IN  /\ q \in Requests /\ ~HasInstallments(q) /\ Exists(purchase, q)
             /\ purchase[q].amount \in Nat
             /\ purchase[q].invoice \in InvoiceIds /\ Exists(invoice, purchase[q].invoice)
<1> DEFINE q == input[r].purchase
<1>1. /\ TypeInv /\ RowsKnown /\ EditRead(r)
      /\ InFlight(r) /\ IsEdit(input[r]) /\ pc[r] = "ready"
  BY DEF LinkInv, ReadInv, HasRead, EditCommit, Ready, InFlight, IsEdit
<1>2. q \in Requests BY <1>1, EditedType
<1> QED BY <1>1, <1>2 DEF EditRead, RowsKnown, PurchaseKnown

\* An edit changes what one invoice bills by the difference it makes.
LEMMA EditCharges ==
  ASSUME LinkInv, ReadInv, FiniteRequests, NEW r \in Requests, EditCommit(r), NEW i \in InvoiceIds
  PROVE  LET q == input[r].purchase
         IN  Charged(i)' = Charged(i) + (IF i = purchase[q].invoice
                                           THEN input[r].amount - purchase[q].amount ELSE 0)
<1> DEFINE q == input[r].purchase
<1>1. /\ TypeInv /\ RowsKnown /\ FiniteRequests /\ EditRead(r) /\ i # None
      /\ InFlight(r) /\ IsEdit(input[r]) /\ pc[r] = "ready"
  BY NoneAssumption DEF LinkInv, ReadInv, HasRead, EditCommit, Ready, InFlight, IsEdit
<1>2. /\ ~HasInstallments(q) /\ purchase[q].amount \in Nat
  BY EditRowsKnown
<1>3. /\ input[r].amount \in Nat /\ q \in Requests
      /\ \A p \in Requests :
           /\ p # q => purchase'[p] = purchase[p]
           /\ purchase'[p].invoice = purchase[p].invoice
           /\ purchase'[p].amount = IF p = q THEN input[r].amount ELSE purchase[p].amount
      /\ UNCHANGED installment
  BY <1>1, EditRows
<1> HIDE DEF q
<1>5. /\ Parts(i)' = Parts(i) /\ InstallmentAmounts' = InstallmentAmounts /\ Whole(i)' = Whole(i)
  BY <1>3 DEF Parts, InstallmentAmounts, HasInstallments, Whole
<1>6. /\ \A p \in Whole(i) : p \in Requests /\ PurchaseAmounts[p] \in Int
      /\ \A p \in Whole(i) \ {q} : PurchaseAmounts[p] = PurchaseAmounts'[p]
      /\ PurchaseAmounts'[q] = input[r].amount /\ PurchaseAmounts[q] = purchase[q].amount
  <2>1. \A p \in Whole(i) : p \in Requests BY DEF Whole
  <2>2. \A p \in Whole(i) : PurchaseAmounts[p] \in Int BY <1>1, ChargesNat
  <2> QED BY <1>3, <2>1, <2>2 DEF PurchaseAmounts
<1>7. q \in Whole(i) <=> i = purchase[q].invoice BY <1>2, <1>3 DEF Whole
<1>8. /\ SumFunctionOnSet(PurchaseAmounts, Whole(i)) \in Int
      /\ SumFunctionOnSet(InstallmentAmounts, Parts(i)) \in Int
      /\ IsFiniteSet(Whole(i))
  BY <1>1, ChargesNat, FiniteBills, SumType
<1>9. CASE i = purchase[q].invoice
  <2>1. SumFunctionOnSet(PurchaseAmounts', Whole(i)) =
          SumFunctionOnSet(PurchaseAmounts, Whole(i)) - PurchaseAmounts[q] + PurchaseAmounts'[q]
    BY <1>3, <1>6, <1>7, <1>8, <1>9, SumChange
  <2>2. Charged(i)' = (SumFunctionOnSet(PurchaseAmounts, Whole(i)) - purchase[q].amount
                         + input[r].amount) + SumFunctionOnSet(InstallmentAmounts, Parts(i))
    BY <1>5, <1>6, <2>1, ChargedIsPrime
  <2>3. Charged(i)' = Charged(i) + (input[r].amount - purchase[q].amount)
    BY <1>2, <1>3, <1>8, <2>2, ChargedIs
  <2> QED BY <1>9, <2>3 DEF q
<1>10. CASE i # purchase[q].invoice
  <2>1. SumFunctionOnSet(PurchaseAmounts, Whole(i)) = SumFunctionOnSet(PurchaseAmounts', Whole(i))
    BY <1>6, <1>7, <1>8, <1>10, SumSame
  <2>2. Charged(i)' = Charged(i) + 0 BY <1>5, <1>8, <2>1, ChargedIs, ChargedIsPrime
  <2> QED BY <1>10, <2>2 DEF q
<1> QED BY <1>9, <1>10

\* The two invoices of a move.
LEMMA MoveEnds ==
  ASSUME LinkInv, ReadInv, NEW r \in Requests, MoveCommit(r)
  PROVE  LET q == input[r].purchase
             to == seen[r].target[input[r].period]
         IN  /\ q \in Requests /\ ~HasInstallments(q) /\ Exists(purchase, q)
             /\ purchase[q].amount \in Nat /\ purchase[q].invoice \in InvoiceIds
             /\ Exists(invoice, purchase[q].invoice)
             /\ to \in InvoiceIds /\ to # seen[r].purchase.invoice
             /\ to.period # seen[r].purchase.invoice.period
             /\ to.period \in Periods /\ to # None
<1> DEFINE q == input[r].purchase
           to == seen[r].target[input[r].period]
<1>1. /\ TypeInv /\ RowsKnown /\ EditRead(r) /\ MoveRead(r) /\ Ready(r, "move")
      /\ InFlight(r) /\ IsEdit(input[r]) /\ pc[r] = "ready"
  BY DEF LinkInv, ReadInv, HasRead, MoveCommit, Ready, InFlight, IsEdit
<1>2. /\ Exists(purchase, q) /\ ~HasInstallments(q)
  BY <1>1 DEF EditRead
<1>3. q \in Requests BY <1>1, EditedType
<1>4. /\ purchase[q].amount \in Nat /\ purchase[q].invoice \in InvoiceIds
      /\ Exists(invoice, purchase[q].invoice)
  BY <1>1, <1>2, <1>3 DEF RowsKnown, PurchaseKnown
<1>5. /\ seen[r].purchase.invoice.period # input[r].period
      /\ to.period = input[r].period
  BY <1>1 DEF MoveRead
<1>6. to \in InvoiceIds BY <1>1, MoveCommitRows DEF Ready
<1>7. to.period \in Periods /\ to # None BY <1>6, NoneAssumption DEF InvoiceIds
<1> QED BY <1>2, <1>3, <1>4, <1>5, <1>6, <1>7

\* A move takes the amount of the purchase from one invoice to the other.
LEMMA MoveCharges ==
  ASSUME LinkInv, ReadInv, FiniteRequests, NEW r \in Requests, MoveCommit(r), ~Reject(r),
         ~StalePurchase(r), NEW i \in InvoiceIds
  PROVE  LET q == input[r].purchase
             to == seen[r].target[input[r].period]
         IN  Charged(i)' = IF i = purchase[q].invoice THEN Charged(i) - purchase[q].amount
                           ELSE IF i = to THEN Charged(i) + purchase[q].amount
                           ELSE Charged(i)
<1> DEFINE q == input[r].purchase
           to == seen[r].target[input[r].period]
           from == purchase[q].invoice
<1>1. /\ TypeInv /\ RowsKnown /\ FiniteRequests /\ i # None
  BY NoneAssumption DEF LinkInv, ReadInv
<1>2. /\ q \in Requests /\ ~HasInstallments(q) /\ purchase[q].amount \in Nat
      /\ to # from
  BY MoveEnds DEF StalePurchase, MoveCommit
<1>3. /\ \A p \in Requests :
           /\ p # q => purchase'[p] = purchase[p]
           /\ purchase'[p].invoice = IF p = q THEN to ELSE purchase[p].invoice
           /\ purchase'[p].amount = purchase[p].amount
      /\ UNCHANGED installment
  BY <1>1, MoveRows
<1> HIDE DEF q, to
<1>5. /\ Parts(i)' = Parts(i) /\ InstallmentAmounts' = InstallmentAmounts
      /\ PurchaseAmounts' = PurchaseAmounts
      /\ \A p : HasInstallments(p)' <=> HasInstallments(p)
  BY <1>3 DEF Parts, InstallmentAmounts, PurchaseAmounts, HasInstallments
<1>6. /\ \A p \in Whole(i) : PurchaseAmounts[p] \in Int
      /\ PurchaseAmounts[q] = purchase[q].amount
  BY <1>1, <1>2, ChargesNat DEF PurchaseAmounts
<1>8. /\ SumFunctionOnSet(PurchaseAmounts, Whole(i)) \in Int
      /\ SumFunctionOnSet(InstallmentAmounts, Parts(i)) \in Int
      /\ IsFiniteSet(Whole(i))
  BY <1>1, ChargesNat, FiniteBills, SumType
<1>9. CASE i = from
  <2>1. q \in Whole(i) /\ Whole(i)' = Whole(i) \ {q} BY <1>2, <1>3, <1>5, <1>9 DEF Whole
  <2>2. SumFunctionOnSet(PurchaseAmounts, Whole(i) \ {q}) =
          SumFunctionOnSet(PurchaseAmounts, Whole(i)) - PurchaseAmounts[q]
    BY <1>6, <1>8, <2>1, SumRemove
  <2>3. Charged(i)' = (SumFunctionOnSet(PurchaseAmounts, Whole(i)) - purchase[q].amount)
                        + SumFunctionOnSet(InstallmentAmounts, Parts(i))
    BY <1>5, <1>6, <2>1, <2>2, ChargedIsPrime
  <2>4. Charged(i)' = Charged(i) - purchase[q].amount BY <1>2, <1>8, <2>3, ChargedIs
  <2> QED BY <1>9, <2>4 DEF q
<1>10. CASE i = to
  <2>1. q \notin Whole(i) /\ Whole(i)' = Whole(i) \cup {q}
    BY <1>2, <1>3, <1>5, <1>10 DEF Whole
  <2>2. SumFunctionOnSet(PurchaseAmounts, Whole(i) \cup {q}) =
          SumFunctionOnSet(PurchaseAmounts, Whole(i)) + PurchaseAmounts[q]
    BY <1>2, <1>6, <1>8, <2>1, SumInsert
  <2>3. Charged(i)' = (SumFunctionOnSet(PurchaseAmounts, Whole(i)) + purchase[q].amount)
                        + SumFunctionOnSet(InstallmentAmounts, Parts(i))
    BY <1>5, <1>6, <2>1, <2>2, ChargedIsPrime
  <2>4. Charged(i)' = Charged(i) + purchase[q].amount BY <1>2, <1>8, <2>3, ChargedIs
  <2> QED BY <1>2, <1>10, <2>4 DEF q, to
<1>11. CASE i # from /\ i # to
  <2>1. Whole(i)' = Whole(i) BY <1>2, <1>3, <1>5, <1>11 DEF Whole
  <2>2. Charged(i)' = Charged(i) BY <1>5, <2>1, ChargedIs, ChargedIsPrime
  <2> QED BY <1>11, <2>2 DEF q, to
<1> QED BY <1>9, <1>10, <1>11

\* An edit of a purchase that is as it was read moves the total of its invoice.
LEMMA EditTotals ==
  ASSUME LinkInv, ReadInv, NEW r \in Requests, EditCommit(r), ~StalePurchase(r)
  PROVE  LET q == input[r].purchase
             from == purchase[q].invoice
         IN  /\ invoice'[from].status = invoice[from].status
             /\ invoice'[from].total = invoice[from].total + (input[r].amount - purchase[q].amount)
             /\ \A i \in InvoiceIds \ {from} : invoice'[i] = invoice[i]
<1> DEFINE q == input[r].purchase
           from == purchase[q].invoice
<1>1. TypeInv BY DEF LinkInv
<1>2. /\ seen[r].purchase.invoice = from /\ seen[r].purchase.amount = purchase[q].amount
      /\ from \in InvoiceIds
  BY EditRowsKnown DEF StalePurchase, EditCommit
<1>3. invoice \in [InvoiceIds -> InvoiceRows] BY <1>1 DEF TypeInv, TypeOK
<1>4. invoice[from] \in InvoiceRows BY <1>2, <1>3
<1>5. invoice' = [invoice EXCEPT ![from].total =
                    invoice[from].total + (input[r].amount - purchase[q].amount)]
  BY <1>2 DEF EditCommit, TotalAfterEdit
<1> HIDE DEF q, from
<1>6. /\ invoice'[from].status = invoice[from].status
      /\ invoice'[from].total = invoice[from].total + (input[r].amount - purchase[q].amount)
      /\ \A i \in InvoiceIds \ {from} : invoice'[i] = invoice[i]
  BY <1>2, <1>3, <1>4, <1>5 DEF InvoiceRows
<1> QED BY <1>6 DEF q, from

\* A move of a purchase that is as it was read, and whole, takes its amount from one
\* total and adds it to another.
LEMMA MoveTotals ==
  ASSUME LinkInv, ReadInv, NEW r \in Requests, MoveCommit(r), ~Reject(r),
         ~StalePurchase(r), ~PartialMove(r)
  PROVE  LET q == input[r].purchase
             to == seen[r].target[input[r].period]
             from == purchase[q].invoice
         IN  /\ invoice'[from].status = invoice[from].status
             /\ invoice'[from].total = invoice[from].total - purchase[q].amount
             /\ invoice'[to].status = IF Exists(seen[r].invoice, to) THEN invoice[to].status
                                                                     ELSE "open"
             /\ invoice'[to].total = invoice[to].total + purchase[q].amount
             /\ \A i \in InvoiceIds \ {from, to} : invoice'[i] = invoice[i]
<1> DEFINE q == input[r].purchase
           to == seen[r].target[input[r].period]
           from == purchase[q].invoice
<1>1. TypeInv /\ Ready(r, "move") /\ invoice' = InvoicesAfterMove(r)
  BY DEF LinkInv, MoveCommit
<1>2. /\ seen[r].purchase.invoice = from /\ seen[r].amount = purchase[q].amount
      /\ from \in InvoiceIds /\ to \in InvoiceIds /\ to # from
  BY <1>1, MoveEnds DEF StalePurchase, PartialMove
<1>3. invoice[from] \in InvoiceRows /\ invoice[to] \in InvoiceRows
  BY <1>1, <1>2 DEF TypeInv, TypeOK
<1>4. invoice'[from] = [invoice[from] EXCEPT !.total = @ - purchase[q].amount]
  BY <1>1, <1>2 DEF InvoicesAfterMove
<1>5. invoice'[to] = [invoice[to] EXCEPT
                        !.total  = @ + purchase[q].amount,
                        !.status = IF Exists(seen[r].invoice, to) THEN @ ELSE "open"]
  BY <1>1, <1>2 DEF InvoicesAfterMove
<1>6. \A i \in InvoiceIds \ {from, to} : invoice'[i] = invoice[i]
  BY <1>1, <1>2 DEF InvoicesAfterMove
<1> HIDE DEF q, to, from
<1>7. /\ invoice'[from].status = invoice[from].status
      /\ invoice'[from].total = invoice[from].total - purchase[q].amount
  BY <1>3, <1>4 DEF InvoiceRows
<1>8. /\ invoice'[to].total = invoice[to].total + purchase[q].amount
      /\ invoice'[to].status = IF Exists(seen[r].invoice, to) THEN invoice[to].status ELSE "open"
  BY <1>3, <1>5 DEF InvoiceRows
<1> QED BY <1>6, <1>7, <1>8 DEF q, to, from

\* What a payment, and a closing, write of the invoices.
LEMMA PayTotals ==
  ASSUME LinkInv, NEW r \in Requests, PayCommit(r)
  PROVE  LET i == input[r].invoice
         IN  /\ i \in InvoiceIds
             /\ invoice'[i].status = "paid" /\ invoice'[i].total = seen[r].invoice[i].total
             /\ \A j \in InvoiceIds \ {i} : invoice'[j] = invoice[j]
<1>1. TypeInv /\ Ready(r, "pay") BY DEF LinkInv, PayCommit
<1>2. input[r].invoice \in InvoiceIds BY <1>1, InputType DEF Ready
<1>3. invoice \in [InvoiceIds -> InvoiceRows] BY <1>1 DEF TypeInv, TypeOK
<1> QED BY <1>2, <1>3 DEF PayCommit

LEMMA CloseTotals ==
  ASSUME LinkInv, NEW r \in Requests, CloseCommit(r)
  PROVE  LET i == input[r].invoice
         IN  /\ i \in InvoiceIds
             /\ invoice'[i].status = "closed" /\ invoice'[i].total = invoice[i].total
             /\ \A j \in InvoiceIds \ {i} : invoice'[j] = invoice[j]
<1>1. TypeInv /\ Ready(r, "close") BY DEF LinkInv, CloseCommit
<1>2. input[r].invoice \in InvoiceIds BY <1>1, InputType DEF Ready
<1>3. PICK i : i = input[r].invoice OBVIOUS
<1>4. invoice' = [invoice EXCEPT ![i].status = "closed"] BY <1>3 DEF CloseCommit
<1>5. invoice \in [InvoiceIds -> InvoiceRows] /\ invoice[i] \in InvoiceRows
  BY <1>1, <1>2, <1>3 DEF TypeInv, TypeOK
<1>6. /\ invoice'[i].status = "closed" /\ invoice'[i].total = invoice[i].total
      /\ \A j \in InvoiceIds \ {i} : invoice'[j] = invoice[j]
  BY <1>2, <1>3, <1>4, <1>5 DEF InvoiceRows
<1> QED BY <1>2, <1>3, <1>6

\* A commit that does not miscount moves the total of an invoice by what it changes of
\* the charges the invoice bills.
LEMMA TotalStep ==
  ASSUME LinkInv, ReadInv, FiniteRequests, NEW r \in Requests, Step(r),
         NEW i \in InvoiceIds, TotalKept(i), pc'[r] = "done" => ~Miscounts(r, i)
  PROVE  TotalKept(i)'
<1>1. TypeInv /\ RowsKnown /\ HasRead(r) BY DEF LinkInv, ReadInv
<1>2. /\ invoice[i].total = Charged(i) /\ Charged(i) \in Nat
  BY <1>1, ChargedNat DEF TotalKept
<1>3. CASE UNCHANGED tables
  <2>1. UNCHANGED <<invoice, purchase, installment>> BY <1>3 DEF tables
  <2>2. Charged(i)' = Charged(i) BY <2>1, SameCharges
  <2> QED BY <1>2, <2>1, <2>2 DEF TotalKept
<1>4. CASE PurchaseCommit(r) /\ ~Reject(r)
  <2> DEFINE in == input[r]
  <2>1. ~Overtaken(r, i) /\ ~SharesMeet(r, i) BY <1>1, <1>4, CommitEnds DEF Miscounts
  <2>2. in \in Inputs /\ in.op = "purchase"
    BY <1>4 DEF PurchaseCommit, Ready, LinkInv, TypeInv, InputAsked
  <2>3. 1 \in DOMAIN in.plan
    <3>1. in.plan \in Plans BY <2>2 DEF Inputs
    <3>2. in.plan \in Seq(Periods) /\ Len(in.plan) \in 1..MaxInstallments
      BY <3>1, PlansAssumption
    <3>3. Len(in.plan) \in Nat /\ Len(in.plan) >= 1
      BY <3>2, MaxInstallmentsAssumption
    <3> QED BY <3>2, <3>3
  <2>4. CASE i \notin Touched(r)
    <3>1. invoice'[i] = invoice[i] /\ i # TargetOf(r, 1)
      BY <1>4, <2>1, <2>3, <2>4, PurchaseInvoice DEF Touched
    <3>2. Charged(i)' = Charged(i)
      BY <1>2, <1>4, <2>1, <2>4, <3>1, WholePurchase, InstalledPurchase
    <3> QED BY <1>2, <3>1, <3>2 DEF TotalKept
  <2>5. ASSUME NEW k \in DOMAIN in.plan, i = TargetOf(r, k)
        PROVE  TotalKept(i)'
    <3>1. invoice'[i].total = invoice[i].total + Share(in, k)
      BY <1>4, <2>1, <2>5, PurchaseInvoice
    <3>2. ~InInstallments(in) => k = 1 BY <2>2, ShareNat
    <3>3. Charged(i)' = Charged(i) + Share(in, k)
      BY <1>4, <2>1, <2>5, <3>2, WholePurchase, InstalledPurchase
    <3> QED BY <1>2, <3>1, <3>3 DEF TotalKept
  <2> QED BY <2>4, <2>5 DEF Touched
<1>5. CASE EditCommit(r)
  <2> DEFINE q == input[r].purchase
             from == purchase[q].invoice
  <2>1. ~StalePurchase(r) BY <1>1, <1>5, CommitEnds DEF Miscounts
  <2>2. Charged(i)' = Charged(i) + (IF i = from THEN input[r].amount - purchase[q].amount ELSE 0)
    BY <1>5, <2>1, EditCharges
  <2>3. /\ invoice'[from].total = invoice[from].total + (input[r].amount - purchase[q].amount)
        /\ i # from => invoice'[i] = invoice[i]
    BY <1>5, <2>1, EditTotals
  <2> HIDE DEF q, from
  <2> QED BY <1>2, <2>2, <2>3 DEF TotalKept
<1>6. CASE MoveCommit(r) /\ ~Reject(r)
  <2> DEFINE q == input[r].purchase
             to == seen[r].target[input[r].period]
             from == purchase[q].invoice
  <2>1. ~StalePurchase(r) /\ ~PartialMove(r) /\ Ready(r, "move")
    BY <1>1, <1>6, CommitEnds DEF Miscounts, MoveCommit
  <2>2. Charged(i)' = IF i = from THEN Charged(i) - purchase[q].amount
                      ELSE IF i = to THEN Charged(i) + purchase[q].amount
                      ELSE Charged(i)
    BY <1>6, <2>1, MoveCharges
  <2>3. to # from BY <1>6, <2>1, MoveEnds DEF StalePurchase
  <2>4. /\ invoice'[from].total = invoice[from].total - purchase[q].amount
        /\ invoice'[to].total = invoice[to].total + purchase[q].amount
        /\ i \notin {from, to} => invoice'[i] = invoice[i]
    BY <1>6, <2>1, MoveTotals
  <2> HIDE DEF q, to, from
  <2> QED BY <1>2, <2>2, <2>3, <2>4 DEF TotalKept
<1>7. CASE CloseCommit(r)
  <2>1. UNCHANGED <<purchase, installment>> BY <1>7 DEF CloseCommit
  <2>2. Charged(i)' = Charged(i) BY <2>1, SameCharges
  <2>3. invoice'[i].total = invoice[i].total BY <1>7, CloseTotals
  <2> QED BY <1>2, <2>2, <2>3 DEF TotalKept
<1>8. CASE PayCommit(r)
  <2>1. ~Overtaken(r, i) BY <1>1, <1>8, CommitEnds DEF Miscounts
  <2>2. /\ \A q \in Requests : /\ purchase'[q].invoice = purchase[q].invoice
                               /\ purchase'[q].amount = purchase[q].amount
        /\ UNCHANGED installment
    BY <1>1, <1>8, PayRows DEF HasRead
  <2>3. Charged(i)' = Charged(i) BY <2>2, SameCharges
  <2>4. i = input[r].invoice => seen[r].invoice[i] = invoice[i]
    BY <1>8, <2>1 DEF Overtaken, PayCommit
  <2>5. invoice'[i].total = invoice[i].total BY <1>8, <2>4, PayTotals
  <2> QED BY <1>2, <2>3, <2>5 DEF TotalKept
<1> QED BY <1>3, <1>4, <1>5, <1>6, <1>7, <1>8, Writers

LEMMA TotalNext ==
  FiniteRequests /\ LinkInv /\ ReadInv /\ [Next]_vars =>
    [\A i \in InvoiceIds : TotalKept(i) => TotalKept(i)' \/ CommitsMiscount(i)]_vars
<1> SUFFICES ASSUME FiniteRequests, LinkInv, ReadInv, Next, NEW i \in InvoiceIds,
                    TotalKept(i), \A r \in Requests : pc'[r] = "done" => ~Miscounts(r, i)
             PROVE  TotalKept(i)'
  BY DEF CommitsMiscount
<1>1. CASE SetPaymentAccount
  <2>1. UNCHANGED <<invoice, purchase, installment>> BY <1>1 DEF SetPaymentAccount
  <2>2. Charged(i)' = Charged(i) BY <2>1, SameCharges
  <2> QED BY <2>1, <2>2 DEF TotalKept
<1>2. CASE \E r \in Requests : Step(r) BY <1>2, TotalStep
<1> QED BY <1>1, <1>2 DEF Next

\* However requests overlap, an invoice's total that is the sum of what the invoice
\* bills remains so: the registration's absolute write, the edit's difference, the
\* move's transfer and the payment's write agree. The exceptions are counted out: a
\* commit that was overtaken on the invoice, an edit or a move of a purchase changed
\* since it was read, two shares of a purchase in one invoice, and a move that takes
\* the amount of an installment for the purchase's.
THEOREM TotalKeptUntilMiscounted ==
  FiniteRequests /\ Spec => TotalKeptUnlessMiscounted
<1>1. FiniteRequests => []FiniteRequests
  <2>1. FiniteRequests => FiniteRequests' BY DEF FiniteRequests
  <2> QED BY <2>1, PTL
<1> QED BY <1>1, ReadAlways, TotalNext, PTL DEF Spec, TotalKeptUnlessMiscounted

-----------------------------------------------------------------------------
(* The contract.                                                           *)

Books == LinkInv /\ ReadInv /\ FiniteRequests /\ BooksInOrder

\* Zeros add up to zero.
LEMMA SumZero ==
  ASSUME NEW f, NEW S, IsFiniteSet(S), \A x \in S : f[x] = 0
  PROVE  SumFunctionOnSet(f, S) = 0
<1> DEFINE F == {T \in SUBSET S : SumFunctionOnSet(f, T) # 0}
<1> SUFFICES ASSUME S \in F PROVE FALSE OBVIOUS
<1>1. PICK T \in F : \A U \in F : U \subseteq T => U = T
  <2>1. F \subseteq SUBSET S /\ F # {} OBVIOUS
  <2> HIDE DEF F
  <2> QED BY <2>1, Smallest
<1>2. T # {} BY <1>1, SumEmpty
<1>3. IsFiniteSet(T) /\ First(T) \in T BY <1>1, <1>2, FS_Subset, FirstOf
<1>4. SumFunctionOnSet(f, T) = f[First(T)] + SumFunctionOnSet(f, T \ {First(T)})
  BY <1>2, <1>3, SumFirst
<1>5. SumFunctionOnSet(f, T \ {First(T)}) = 0 BY <1>1, <1>3
<1> QED BY <1>1, <1>3, <1>4, <1>5

\* The bill of a period is its invoice.
LEMMA BillIs ==
  ASSUME OneInvoicePerPeriod, NEW i \in InvoiceIds
  PROVE  /\ Exists(invoice, i) =>
              BillOf(i.period) = [status |-> invoice[i].status, total |-> invoice[i].total]
         /\ (\A j \in InvoiceIds : Exists(invoice, j) => j.period # i.period) =>
              BillOf(i.period) = [status |-> "none", total |-> 0]
<1> DEFINE found == {j \in InvoiceIds : j.period = i.period /\ Exists(invoice, j)}
<1>1. ASSUME Exists(invoice, i)
      PROVE  BillOf(i.period) = [status |-> invoice[i].status, total |-> invoice[i].total]
  <2>1. found = {i} BY <1>1 DEF OneInvoicePerPeriod
  <2>2. (CHOOSE j \in found : TRUE) = i BY <2>1
  <2> QED BY <2>1, <2>2 DEF BillOf
<1>2. ASSUME \A j \in InvoiceIds : Exists(invoice, j) => j.period # i.period
      PROVE  BillOf(i.period) = [status |-> "none", total |-> 0]
  <2>1. found = {} BY <1>2
  <2> QED BY <2>1 DEF BillOf
<1> QED BY <1>1, <1>2

\* The bill of a period after a step.
LEMMA BillIsPrime ==
  ASSUME OneInvoicePerPeriod', NEW i \in InvoiceIds, Exists(invoice, i)'
  PROVE  BillOf(i.period)' = [status |-> invoice'[i].status, total |-> invoice'[i].total]
<1> DEFINE found == {j \in InvoiceIds : j.period = i.period /\ invoice'[j].status # "absent"}
<1>1. found = {i} BY DEF OneInvoicePerPeriod, Exists
<1>2. (CHOOSE j \in found : TRUE) = i BY <1>1
<1> QED BY <1>1, <1>2 DEF BillOf, Exists

\* A period whose invoices stay has the bill it had.
LEMMA SameBill ==
  ASSUME NEW p, \A i \in InvoiceIds : i.period = p => invoice'[i] = invoice[i]
  PROVE  BillOf(p)' = BillOf(p)
<1>1. {i \in InvoiceIds : i.period = p /\ Exists(invoice, i)'} =
      {i \in InvoiceIds : i.period = p /\ Exists(invoice, i)}
  BY DEF Exists
<1> DEFINE found == {i \in InvoiceIds : i.period = p /\ Exists(invoice, i)}
<1>2. CASE found = {} BY <1>1, <1>2 DEF BillOf
<1>3. CASE found # {}
  <2> DEFINE i == CHOOSE j \in found : TRUE
  <2>1. i \in found BY <1>3
  <2>2. invoice'[i] = invoice[i] BY <2>1
  <2> QED BY <1>1, <1>3, <2>2 DEF BillOf
<1> QED BY <1>2, <1>3

\* Before a request writes an invoice of a period, the bill is that invoice, or none.
LEMMA BillBefore ==
  ASSUME Books, Books', NEW r \in Requests, Step(r), NEW i \in InvoiceIds, Exists(invoice, i)'
  PROVE  /\ BillOf(i.period).total \in Nat /\ invoice[i].total \in Nat
         /\ IF Exists(invoice, i)
              THEN BillOf(i.period) = [status |-> invoice[i].status, total |-> invoice[i].total]
              ELSE BillOf(i.period) = [status |-> "none", total |-> 0]
<1>1. OneInvoicePerPeriod /\ OneInvoicePerPeriod' BY DEF Books, BooksInOrder
<1>2. invoice[i].total \in Nat
  BY ChargedNat
     DEF Books, BooksInOrder, TotalIsSumOfCharges, TotalKept, LinkInv, ReadInv
<1>3. CASE Exists(invoice, i) BY <1>1, <1>2, <1>3, BillIs
<1>4. CASE ~Exists(invoice, i)
  <2>1. \A j \in InvoiceIds : Exists(invoice, j) => Exists(invoice, j)' BY InvoicesStay DEF Books
  <2>2. \A j \in InvoiceIds : Exists(invoice, j) => j.period # i.period
    <3> SUFFICES ASSUME NEW j \in InvoiceIds, Exists(invoice, j), j.period = i.period
                 PROVE  FALSE
      OBVIOUS
    <3>1. Exists(invoice, j)' BY <2>1
    <3>2. j = i BY <1>1, <3>1 DEF OneInvoicePerPeriod
    <3> QED BY <1>4, <3>2
  <2>3. BillOf(i.period) = [status |-> "none", total |-> 0] BY <1>1, <2>2, BillIs
  <2> QED BY <1>2, <1>4, <2>3
<1> QED BY <1>3, <1>4

\* Bills are what the contract calls bills.
LEMMA BillsType == Books => [p \in Periods |-> BillOf(p)] \in [Periods -> Contract!Bills]
<1> SUFFICES ASSUME Books, NEW p \in Periods
             PROVE  BillOf(p) \in Contract!Bills
  OBVIOUS
<1> DEFINE found == {i \in InvoiceIds : i.period = p /\ Exists(invoice, i)}
<1>1. CASE found = {} BY <1>1 DEF BillOf, Contract!Bills
<1>2. CASE found # {}
  <2>1. PICK i \in found : TRUE BY <1>2
  <2>2. i \in InvoiceIds /\ Exists(invoice, i) /\ i.period = p BY <2>1
  <2>3. invoice[i].total \in Nat
    BY <2>2, ChargedNat
       DEF Books, BooksInOrder, TotalIsSumOfCharges, TotalKept, LinkInv, ReadInv
  <2>4. invoice[i].status \in {"open", "closed", "paid"}
    BY <2>2 DEF Books, LinkInv, TypeInv, TypeOK, InvoiceRows, Exists
  <2>5. BillOf(p) = [status |-> invoice[i].status, total |-> invoice[i].total]
    BY <2>2, BillIs DEF Books, BooksInOrder
  <2> QED BY <2>3, <2>4, <2>5 DEF Contract!Bills
<1> QED BY <1>1, <1>2

\* The payments add up.
LEMMA DebitedIs == SumFunction(PaymentAmounts) = SumFunctionOnSet(PaymentAmounts, Requests)
<1>1. DOMAIN PaymentAmounts = Requests BY DEF PaymentAmounts
<1> QED BY <1>1 DEF SumFunction

\* What a payment that nobody overtook writes of its invoice, and debits.
LEMMA PayInvoices ==
  ASSUME Books, NEW r \in Requests, PayCommit(r), NEW i \in InvoiceIds,
         i = input[r].invoice, ~Miscounts(r, i)
  PROVE  /\ invoice[i].status \in {"open", "closed"} /\ invoice'[i].status = "paid"
         /\ invoice'[i].total = invoice[i].total
         /\ invoice[i].total \in Nat /\ invoice[i].total > 0
         /\ \A j \in InvoiceIds \ {i} : invoice'[j] = invoice[j]
         /\ payment'[r].amount = invoice[i].total
         /\ \A q \in Requests \ {r} : payment'[q] = payment[q]
<1>1. /\ TypeInv /\ LinkInv /\ Ready(r, "pay") /\ PayRead(r)
      /\ invoice[i].total \in Nat
  BY ChargedNat
     DEF Books, LinkInv, ReadInv, HasRead, PayCommit, BooksInOrder, TotalIsSumOfCharges,
         TotalKept
<1>2. invoice[i] = seen[r].invoice[i] BY <1>1 DEF Miscounts, Overtaken
<1>3. invoice[i].status # "paid" /\ invoice[i].total > 0
  BY <1>1, <1>2 DEF PayRead, Payable
<1>4. invoice[i].status # "absent"
  BY <1>1 DEF LinkInv, RequestInv, AimExists, InFlight, Ready, Exists
<1>5. invoice[i].status \in {"open", "closed"}
  BY <1>1, <1>3, <1>4 DEF TypeInv, TypeOK, InvoiceRows
<1>6. /\ payment'[r].amount = invoice[i].total
      /\ \A q \in Requests \ {r} : payment'[q] = payment[q]
  BY <1>1, <1>2 DEF PayCommit, TypeInv, TypeOK
<1> QED BY <1>1, <1>2, <1>3, <1>5, <1>6, PayTotals

\* A payment debits the total of its invoice.
LEMMA DebitedStep ==
  ASSUME Books, NEW r \in Requests, PayCommit(r), NEW i \in InvoiceIds,
         i = input[r].invoice, ~Miscounts(r, i)
  PROVE  SumFunction(PaymentAmounts)' = SumFunction(PaymentAmounts) + invoice[i].total
<1>1. /\ payment'[r].amount = invoice[i].total
      /\ \A q \in Requests \ {r} : payment'[q] = payment[q]
      /\ invoice[i].total \in Nat
  BY PayInvoices
<1>2. payment[r].amount = 0
  BY DEF PayCommit, Ready, Books, ReadInv, RowsKnown, PaymentKnown, NoPayment
<1>4. \A q \in Requests : payment[q].amount \in Int
  BY DEF Books, LinkInv, TypeInv, TypeOK, PaymentRows
<1>5. /\ PaymentAmounts'[r] = invoice[i].total /\ PaymentAmounts[r] = 0
      /\ \A q \in Requests : PaymentAmounts[q] \in Int
      /\ \A q \in Requests \ {r} : PaymentAmounts[q] = PaymentAmounts'[q]
  BY <1>1, <1>2, <1>4 DEF PaymentAmounts
<1>6. IsFiniteSet(Requests) BY DEF Books, FiniteRequests
<1>7. SumFunctionOnSet(PaymentAmounts', Requests) =
        SumFunctionOnSet(PaymentAmounts, Requests) - PaymentAmounts[r] + PaymentAmounts'[r]
  BY <1>1, <1>5, <1>6, SumChange
<1>8. SumFunctionOnSet(PaymentAmounts, Requests) \in Int BY <1>5, <1>6, SumType
<1>9. SumFunction(PaymentAmounts)' = SumFunctionOnSet(PaymentAmounts', Requests)
  <2>1. DOMAIN PaymentAmounts' = Requests BY DEF PaymentAmounts
  <2> QED BY <2>1 DEF SumFunction
<1> QED BY <1>1, <1>5, <1>7, <1>8, <1>9, DebitedIs

\* A purchase charges the bills of the periods its shares fall in.
LEMMA ContractPurchase ==
  ASSUME Books, Books', NEW r \in Requests, PurchaseCommit(r), ~Reject(r),
         \A i \in InvoiceIds : ~Miscounts(r, i)
  PROVE  Contract!Purchase
<1> DEFINE in == input[r]
           S == {in.plan[k] : k \in DOMAIN in.plan}
<1>1. /\ Step(r) /\ Ready(r, "purchase") /\ in \in Inputs /\ in.op = "purchase"
      /\ LinkInv /\ ReadInv
      /\ \A i \in InvoiceIds : ~Overtaken(r, i) /\ ~SharesMeet(r, i)
  BY DEF Step, PurchaseCommit, Ready, Books, LinkInv, TypeInv, InputAsked, Miscounts
<1>2. \A k \in DOMAIN in.plan : /\ TargetOf(r, k) \in InvoiceIds
                                /\ TargetOf(r, k).period = in.plan[k] /\ in.plan[k] \in Periods
  BY <1>1, TargetPeriods
<1>3. S \in (SUBSET Periods) \ {{}}
  <2>1. in.plan \in Plans BY <1>1 DEF Inputs
  <2>2. in.plan \in Seq(Periods) /\ Len(in.plan) \in 1..MaxInstallments
    BY <2>1, PlansAssumption
  <2>3. Len(in.plan) \in Nat /\ Len(in.plan) >= 1
    BY <2>2, MaxInstallmentsAssumption
  <2>4. 1 \in DOMAIN in.plan BY <2>2, <2>3
  <2>5. in.plan[1] \in S BY <2>4
  <2> QED BY <1>2, <2>5
<1>4. ASSUME NEW p \in S
      PROVE  /\ BillOf(p).status \in {"none", "open"}
             /\ BillOf(p)'.status = "open"
             /\ BillOf(p)'.total >= BillOf(p).total
  <2>1. PICK k \in DOMAIN in.plan : p = in.plan[k] BY <1>4
  <2> DEFINE i == TargetOf(r, k)
  <2>2. PICK j \in InvoiceIds : j = i /\ j.period = p BY <1>2, <2>1
  <2>3. /\ invoice'[j].status = "open" /\ invoice[j].status \in {"absent", "open"}
        /\ invoice'[j].total = invoice[j].total + Share(in, k)
    BY <1>1, <2>2, PurchaseInvoice
  <2>4. Share(in, k) \in Nat BY <1>1, ShareNat
  <2>5. Exists(invoice, j)' BY <2>3 DEF Exists
  <2>6. BillOf(p)' = [status |-> "open", total |-> invoice'[j].total]
    BY <2>2, <2>3, <2>5, BillIsPrime DEF Books, BooksInOrder
  <2>7. /\ BillOf(p).total \in Nat /\ invoice[j].total \in Nat
        /\ IF Exists(invoice, j)
              THEN BillOf(p) = [status |-> invoice[j].status, total |-> invoice[j].total]
              ELSE BillOf(p) = [status |-> "none", total |-> 0]
    BY <1>1, <2>2, <2>5, BillBefore
  <2>8. CASE Exists(invoice, j)
    <3>1. BillOf(p).status = "open" /\ BillOf(p).total = invoice[j].total
      BY <2>3, <2>7, <2>8 DEF Exists
    <3> HIDE DEF in
    <3> QED BY <2>3, <2>4, <2>6, <2>7, <3>1
  <2>9. CASE ~Exists(invoice, j)
    <3>1. BillOf(p).status = "none" /\ BillOf(p).total = 0 BY <2>7, <2>9
    <3> HIDE DEF in
    <3> QED BY <2>3, <2>4, <2>6, <2>7, <3>1
  <2> QED BY <2>8, <2>9
<1>5. ASSUME NEW p \in Periods \ S PROVE BillOf(p)' = BillOf(p)
  <2>1. \A i \in InvoiceIds : i.period = p => i \notin Touched(r)
    BY <1>2, <1>5 DEF Touched
  <2> QED BY <1>1, <2>1, PurchaseInvoice, SameBill
<1>6. [p \in Periods |-> BillOf(p)]' \in [Periods -> Contract!Bills]
  <2>1. ([p \in Periods |-> BillOf(p)] \in [Periods -> Contract!Bills])'
    BY BillsType, PTL
  <2> QED BY <2>1 DEF Contract!Bills
<1>7. SumFunction(PaymentAmounts)' = SumFunction(PaymentAmounts)
  BY DEF PurchaseCommit, PaymentAmounts
<1> HIDE DEF S
<1> QED BY <1>3, <1>4, <1>5, <1>6, <1>7 DEF Contract!Purchase, Contract!Chargeable

\* Bills are natural numbers after every step.
LEMMA BillsTypePrime == ASSUME Books' PROVE \A p \in Periods : BillOf(p)' \in Contract!Bills
<1>1. ([p \in Periods |-> BillOf(p)] \in [Periods -> Contract!Bills])'
  BY BillsType, PTL
<1>2. [p \in Periods |-> BillOf(p)'] \in [Periods -> Contract!Bills]
  BY <1>1 DEF Contract!Bills
<1> QED BY <1>2

\* The bill of an invoice that is there before and after a step.
LEMMA BillOfRow ==
  ASSUME Books, Books', NEW i \in InvoiceIds, Exists(invoice, i), Exists(invoice, i)'
  PROVE  /\ BillOf(i.period) = [status |-> invoice[i].status, total |-> invoice[i].total]
         /\ BillOf(i.period)' = [status |-> invoice'[i].status, total |-> invoice'[i].total]
         /\ i.period \in Periods
BY BillIs, BillIsPrime DEF Books, BooksInOrder, InvoiceIds

\* An edit charges its bill less or more.
LEMMA ContractEdit ==
  ASSUME Books, Books', NEW r \in Requests, EditCommit(r),
         \A i \in InvoiceIds : ~Miscounts(r, i)
  PROVE  \E p \in Periods : Contract!Edit(p)
<1>a. LinkInv /\ ReadInv /\ Ready(r, "edit") BY DEF Books, EditCommit
<1>1. PICK i \in InvoiceIds :
        i = purchase[input[r].purchase].invoice /\ Exists(invoice, i)
  BY <1>a, EditRowsKnown
<1>b. ~StalePurchase(r) /\ ~Overtaken(r, i) BY DEF Miscounts
<1>c. i = seen[r].purchase.invoice BY <1>a, <1>b, <1>1 DEF StalePurchase
<1>d. invoice[i].status = "open"
  BY <1>a, <1>b, <1>c, <1>1
     DEF Overtaken, Exists, LockedStatuses, LinkInv, TypeInv, TypeOK, InvoiceRows
<1>2. /\ invoice[i].status = "open" /\ invoice'[i].status = "open"
      /\ \A j \in InvoiceIds \ {i} : invoice'[j] = invoice[j]
  BY <1>a, <1>b, <1>d, <1>1, EditTotals
<1>3. /\ BillOf(i.period) = [status |-> invoice[i].status, total |-> invoice[i].total]
      /\ BillOf(i.period)' = [status |-> invoice'[i].status, total |-> invoice'[i].total]
      /\ i.period \in Periods
  BY <1>2, BillOfRow DEF Exists
<1>4. BillOf(i.period)' \in Contract!Bills BY <1>3, BillsTypePrime
<1>5. invoice'[i].total \in Nat BY <1>3, <1>4 DEF Contract!Bills
<1>6. \A p \in Periods : p # i.period => BillOf(p)' = BillOf(p)
  BY <1>2, SameBill
<1>7. SumFunction(PaymentAmounts)' = SumFunction(PaymentAmounts)
  BY DEF EditCommit, PaymentAmounts
<1>8. BillOf(i.period)' = [BillOf(i.period) EXCEPT !.total = BillOf(i.period)'.total]
  BY <1>2, <1>3
<1>9. Contract!Edit(i.period)
  BY <1>2, <1>3, <1>5, <1>6, <1>7, <1>8 DEF Contract!Edit
<1> QED BY <1>3, <1>9

\* Closing an invoice closes its bill.
LEMMA ContractClose ==
  ASSUME Books, Books', NEW r \in Requests, CloseCommit(r),
         \A i \in InvoiceIds : ~Miscounts(r, i)
  PROVE  \E p \in Periods : Contract!Close(p)
<1>a. LinkInv /\ Ready(r, "close") BY DEF Books, CloseCommit
<1>1. PICK i \in InvoiceIds : i = input[r].invoice BY <1>a, CloseTotals
<1>b. invoice[i].status = "open" BY <1>a, <1>1 DEF Miscounts, Overtaken
<1>2. /\ invoice[i].status = "open" /\ invoice'[i].status = "closed"
      /\ invoice'[i].total = invoice[i].total
      /\ \A j \in InvoiceIds \ {i} : invoice'[j] = invoice[j]
  BY <1>a, <1>b, <1>1, CloseTotals
<1>3. /\ BillOf(i.period) = [status |-> invoice[i].status, total |-> invoice[i].total]
      /\ BillOf(i.period)' = [status |-> invoice'[i].status, total |-> invoice'[i].total]
      /\ i.period \in Periods
  BY <1>2, BillOfRow DEF Exists
<1>6. \A p \in Periods : p # i.period => BillOf(p)' = BillOf(p)
  BY <1>2, SameBill
<1>7. SumFunction(PaymentAmounts)' = SumFunction(PaymentAmounts)
  BY DEF CloseCommit, PaymentAmounts
<1>8. BillOf(i.period)' = [BillOf(i.period) EXCEPT !.status = "closed"]
  BY <1>2, <1>3
<1>9. Contract!Close(i.period)
  BY <1>2, <1>3, <1>6, <1>7, <1>8 DEF Contract!Close
<1> QED BY <1>3, <1>9

\* Paying an invoice pays its bill.
LEMMA ContractPay ==
  ASSUME Books, Books', NEW r \in Requests, PayCommit(r),
         \A i \in InvoiceIds : ~Miscounts(r, i)
  PROVE  \E p \in Periods : Contract!Pay(p)
<1>1. PICK i \in InvoiceIds : i = input[r].invoice BY PayTotals DEF Books
<1>2. /\ invoice[i].status \in {"open", "closed"} /\ invoice'[i].status = "paid"
      /\ invoice'[i].total = invoice[i].total /\ invoice[i].total > 0
      /\ \A j \in InvoiceIds \ {i} : invoice'[j] = invoice[j]
  BY <1>1, PayInvoices
<1>3. /\ BillOf(i.period) = [status |-> invoice[i].status, total |-> invoice[i].total]
      /\ BillOf(i.period)' = [status |-> invoice'[i].status, total |-> invoice'[i].total]
      /\ i.period \in Periods
  BY <1>2, BillOfRow DEF Exists
<1>6. \A p \in Periods : p # i.period => BillOf(p)' = BillOf(p)
  BY <1>2, SameBill
<1>7. SumFunction(PaymentAmounts)' = SumFunction(PaymentAmounts) + invoice[i].total
  BY <1>1, DebitedStep
<1>8. BillOf(i.period)' = [BillOf(i.period) EXCEPT !.status = "paid"]
  BY <1>2, <1>3
<1>9. Contract!Pay(i.period)
  BY <1>2, <1>3, <1>6, <1>7, <1>8 DEF Contract!Pay
<1> QED BY <1>3, <1>9

\* An invoice that is not there bills nothing.
LEMMA AbsentBillsNothing ==
  ASSUME Books, NEW i \in InvoiceIds, ~Exists(invoice, i)
  PROVE  invoice[i].total = 0
<1>1. i # None BY NoneAssumption
<1>2. Whole(i) = {}
  <2>1. ASSUME NEW q \in Requests, purchase[q].invoice = i PROVE FALSE
    BY <1>1, <2>1 DEF Books, ReadInv, RowsKnown, PurchaseKnown
  <2> QED BY <2>1 DEF Whole
<1>3. Parts(i) = {}
  <2>1. ASSUME NEW x \in ItemIds, installment[x].invoice = i PROVE FALSE
    BY <1>1, <2>1 DEF Books, ReadInv, RowsKnown, InstallmentKnown
  <2> QED BY <2>1 DEF Parts
<1>4. Charged(i) = 0 BY <1>2, <1>3, ChargedIs, SumEmpty
<1> QED BY <1>4 DEF Books, BooksInOrder, TotalIsSumOfCharges, TotalKept

\* What a move that nobody overtook does to the two invoices.
LEMMA MoveInvoices ==
  ASSUME Books, NEW r \in Requests, MoveCommit(r), ~Reject(r),
         NEW i \in InvoiceIds, NEW j \in InvoiceIds, NEW a,
         i = purchase[input[r].purchase].invoice, a = purchase[input[r].purchase].amount,
         j = seen[r].target[input[r].period], ~Miscounts(r, i), ~Miscounts(r, j)
  PROVE  /\ i.period # j.period /\ a \in Nat
         /\ invoice[i].status = "open" /\ invoice'[i].status = "open"
         /\ invoice'[i].total = invoice[i].total - a
         /\ invoice[j].status \in {"absent", "open"} /\ invoice'[j].status = "open"
         /\ invoice'[j].total = invoice[j].total + a
         /\ \A m \in InvoiceIds \ {i, j} : invoice'[m] = invoice[m]
<1>1. /\ LinkInv /\ ReadInv /\ Ready(r, "move") /\ MoveRead(r)
      /\ invoice[i] \in InvoiceRows /\ invoice[j] \in InvoiceRows
  BY DEF Books, MoveCommit, ReadInv, HasRead, LinkInv, TypeInv, TypeOK
<1>2. ~StalePurchase(r) /\ ~PartialMove(r) /\ ~Overtaken(r, i) /\ ~Overtaken(r, j)
  BY DEF Miscounts
<1>3. i = seen[r].purchase.invoice BY <1>1, <1>2 DEF StalePurchase
<1>4. a \in Nat /\ i.period # j.period /\ Exists(invoice, i)
  BY <1>1, <1>3, MoveEnds
<1>5. invoice[i].status = "open"
  BY <1>1, <1>2, <1>3, <1>4 DEF Overtaken, Exists, LockedStatuses, InvoiceRows
<1>6. invoice[j].status \in {"absent", "open"}
  BY <1>1, <1>2 DEF Overtaken, LockedStatuses, InvoiceRows
<1>7. Exists(seen[r].invoice, j) => invoice[j].status = "open"
  BY <1>1, <1>6 DEF LinkInv, RequestInv, SnapshotExists, Exists
<1>8. /\ invoice'[i].status = invoice[i].status
      /\ invoice'[i].total = invoice[i].total - a
      /\ invoice'[j].status = IF Exists(seen[r].invoice, j) THEN invoice[j].status ELSE "open"
      /\ invoice'[j].total = invoice[j].total + a
      /\ \A m \in InvoiceIds \ {i, j} : invoice'[m] = invoice[m]
  BY <1>1, <1>2, MoveTotals
<1> QED BY <1>4, <1>5, <1>6, <1>7, <1>8

\* A move carries a charge from one bill to another.
LEMMA ContractMove ==
  ASSUME Books, Books', NEW r \in Requests, MoveCommit(r), ~Reject(r),
         \A i \in InvoiceIds : ~Miscounts(r, i)
  PROVE  \E p, q \in Periods : Contract!Move(p, q)
<1>1. PICK i \in InvoiceIds, j \in InvoiceIds :
        /\ i = purchase[input[r].purchase].invoice
        /\ j = seen[r].target[input[r].period]
        /\ i.period # j.period
  <2>1. /\ purchase[input[r].purchase].invoice \in InvoiceIds
        /\ seen[r].target[input[r].period] \in InvoiceIds
    BY MoveEnds DEF Books
  <2> QED BY <2>1, MoveInvoices
<1>2. PICK a \in Nat : a = purchase[input[r].purchase].amount BY MoveEnds DEF Books
<1>3. /\ invoice[i].status = "open" /\ invoice'[i].status = "open"
      /\ invoice'[i].total = invoice[i].total - a
      /\ invoice[j].status \in {"absent", "open"} /\ invoice'[j].status = "open"
      /\ invoice'[j].total = invoice[j].total + a
      /\ \A m \in InvoiceIds \ {i, j} : invoice'[m] = invoice[m]
  <2>1. ~Miscounts(r, i) /\ ~Miscounts(r, j) OBVIOUS
  <2>2. /\ invoice[i].status = "open" /\ invoice'[i].status = "open"
        /\ invoice[j].status \in {"absent", "open"} /\ invoice'[j].status = "open"
    BY <1>1, <1>2, <2>1, MoveInvoices
  <2>3. invoice'[i].total = invoice[i].total - a
    BY <1>1, <1>2, <2>1, MoveInvoices
  <2>4. invoice'[j].total = invoice[j].total + a
    BY <1>1, <1>2, <2>1, MoveInvoices
  <2>5. \A m \in InvoiceIds \ {i, j} : invoice'[m] = invoice[m]
    BY <1>1, <1>2, <2>1, MoveInvoices
  <2> QED BY <2>2, <2>3, <2>4, <2>5
<1>4. /\ BillOf(i.period) = [status |-> invoice[i].status, total |-> invoice[i].total]
      /\ BillOf(i.period)' = [status |-> invoice'[i].status, total |-> invoice'[i].total]
      /\ i.period \in Periods
  BY <1>3, BillOfRow DEF Exists
<1>5. Step(r) /\ Exists(invoice, j)' BY <1>3 DEF Step, Exists
<1>6. BillOf(j.period)' = [status |-> "open", total |-> invoice'[j].total]
  BY <1>3, <1>5, BillIsPrime DEF Books, BooksInOrder
<1>7. /\ invoice[j].total \in Nat
      /\ IF Exists(invoice, j)
           THEN BillOf(j.period) = [status |-> invoice[j].status, total |-> invoice[j].total]
           ELSE BillOf(j.period) = [status |-> "none", total |-> 0]
  BY <1>5, BillBefore
<1>8. Exists(invoice, j) \/ invoice[j].total = 0
  <2>1. ASSUME ~Exists(invoice, j) PROVE invoice[j].total = 0
    BY <2>1, AbsentBillsNothing
  <2> QED BY <2>1
<1>9. BillOf(j.period).status \in {"none", "open"} /\ BillOf(j.period).total = invoice[j].total
  BY <1>3, <1>7, <1>8 DEF Exists
<1>10. j.period \in Periods BY DEF InvoiceIds
<1>11. BillOf(i.period)' \in Contract!Bills /\ BillOf(j.period)' \in Contract!Bills
  BY <1>4, <1>10, BillsTypePrime
<1>12. /\ BillOf(i.period)'.total = invoice'[i].total /\ BillOf(j.period)'.total = invoice'[j].total
       /\ invoice'[i].total \in Nat /\ invoice'[j].total \in Nat
  BY <1>4, <1>6, <1>11 DEF Contract!Bills
<1>13. invoice[i].total \in Nat
  BY ChargedNat
     DEF Books, BooksInOrder, TotalIsSumOfCharges, TotalKept, LinkInv, ReadInv
<1>14. BillOf(i.period)'.total + BillOf(j.period)'.total = BillOf(i.period).total + BillOf(j.period).total
  BY <1>2, <1>3, <1>4, <1>7, <1>9, <1>12, <1>13
<1>15. \A p \in Periods : p # i.period /\ p # j.period => BillOf(p)' = BillOf(p)
  BY <1>3, SameBill
<1>16. SumFunction(PaymentAmounts)' = SumFunction(PaymentAmounts)
  BY DEF MoveCommit, PaymentAmounts
<1>17. /\ BillOf(i.period)' = [BillOf(i.period) EXCEPT !.total = BillOf(i.period)'.total]
       /\ BillOf(j.period)' = [status |-> "open", total |-> BillOf(j.period)'.total]
  BY <1>3, <1>4, <1>6
<1>18. BillOf(i.period).status = "open" BY <1>3, <1>4
<1>19. PICK P, Q : P = i.period /\ Q = j.period OBVIOUS
<1>20. P \in Periods /\ Q \in Periods /\ P # Q BY <1>1, <1>4, <1>10, <1>19
<1>21. PICK b, c : b = [p \in Periods |-> BillOf(p)] /\ c = [p \in Periods |-> BillOf(p)']
  OBVIOUS
<1>22. b[P] = BillOf(P) /\ b[Q] = BillOf(Q) /\ c[P] = BillOf(P)' /\ c[Q] = BillOf(Q)'
  BY <1>20, <1>21
<1>23. b[P].status = "open" /\ b[Q].status \in {"none", "open"}
  BY <1>9, <1>18, <1>19, <1>22
<1>24. c[P].total \in Nat /\ c[Q].total \in Nat /\ c[P].total + c[Q].total = b[P].total + b[Q].total
  BY <1>12, <1>14, <1>19, <1>22
<1>25. c[P] = [b[P] EXCEPT !.total = c[P].total] /\ c[Q] = [status |-> "open", total |-> c[Q].total]
  BY <1>17, <1>19, <1>22
<1>26. \A p \in Periods : p # P /\ p # Q => c[p] = b[p] BY <1>15, <1>19, <1>21
<1>27. DOMAIN b = Periods /\ DOMAIN c = Periods
       /\ b = [p \in Periods |-> b[p]] /\ c = [p \in Periods |-> c[p]] BY <1>21
<1>28. c = [b EXCEPT ![P].total = c[P].total, ![Q] = [status |-> "open", total |-> c[Q].total]]
  BY ONLY <1>20, <1>25, <1>26, <1>27
<1>29. Contract!Move(P, Q)
  BY <1>16, <1>20, <1>21, <1>23, <1>24, <1>28 DEF Contract!Move, Contract!Chargeable
<1> QED BY <1>19, <1>20, <1>29

\* At the start there are no bills, and nothing is debited.
LEMMA BooksInit == Init => BooksInOrder
<1> SUFFICES ASSUME Init PROVE BooksInOrder OBVIOUS
<1>1. \A i \in InvoiceIds : invoice[i].status = "absent" /\ invoice[i].total = 0
  BY DEF Init, NoInvoice
<1>2. OneInvoicePerPeriod BY <1>1 DEF OneInvoicePerPeriod, Exists
<1>3. ASSUME NEW i \in InvoiceIds PROVE Charged(i) = 0
  <2>1. Whole(i) = {} BY NoneAssumption DEF Init, NoPurchase, Whole
  <2>2. Parts(i) = {} BY NoneAssumption DEF Init, NoInstallment, Parts
  <2> QED BY <2>1, <2>2, ChargedIs, SumEmpty
<1> QED BY <1>1, <1>2, <1>3 DEF BooksInOrder, TotalIsSumOfCharges, TotalKept

\* At the start the contract is at its own.
LEMMA ContractInit == FiniteRequests /\ Init => Contract!Init
<1> SUFFICES ASSUME FiniteRequests, Init PROVE Contract!Init OBVIOUS
<1>1. \A p \in Periods : BillOf(p) = [status |-> "none", total |-> 0]
  <2>1. \A i \in InvoiceIds : ~Exists(invoice, i) BY DEF Init, Exists, NoInvoice
  <2> QED BY <2>1 DEF BillOf
<1>2. SumFunction(PaymentAmounts) = 0
  <2>1. \A r \in Requests : PaymentAmounts[r] = 0 BY DEF Init, PaymentAmounts, NoPayment
  <2> QED BY <2>1, DebitedIs, SumZero DEF FiniteRequests
<1> QED BY <1>1, <1>2 DEF Contract!Init

\* Nothing happens to the bills while the invoices and the payments stay.
LEMMA ContractStutters ==
  ASSUME UNCHANGED <<invoice, payment>> PROVE UNCHANGED Contract!vars
<1>1. \A p \in Periods : BillOf(p)' = BillOf(p) BY SameBill
<1>2. SumFunction(PaymentAmounts)' = SumFunction(PaymentAmounts) BY DEF PaymentAmounts
<1> QED BY <1>1, <1>2 DEF Contract!vars

\* A step that does not miscount leaves the books in order, and is the contract's.
LEMMA ContractNext ==
  ASSUME Books, LinkInv', ReadInv', NEW r \in Requests, Step(r),
         \A i \in InvoiceIds : ~CommitsMiscount(i)
  PROVE  BooksInOrder' /\ (Contract!Next \/ UNCHANGED Contract!vars)
<1>1. pc'[r] = "done" => \A i \in InvoiceIds : ~Miscounts(r, i) BY DEF CommitsMiscount
<1>2. BooksInOrder'
  <2>1. \A i \in InvoiceIds : TotalKept(i)'
    BY <1>1, TotalStep DEF Books, BooksInOrder, TotalIsSumOfCharges
  <2>2. ASSUME NEW i \in InvoiceIds, NEW j \in InvoiceIds, i # j, i.period = j.period,
               Exists(invoice, i)', Exists(invoice, j)'
        PROVE  FALSE
    <3>1. ~Exists(invoice, i) \/ ~Exists(invoice, j)
      BY <2>2 DEF Books, BooksInOrder, OneInvoicePerPeriod
    <3>2. CommitsOvertaken(r, i) \/ CommitsOvertaken(r, j)
      BY <2>2, <3>1, SecondStep DEF Books
    <3> QED BY <1>1, <3>2 DEF CommitsOvertaken, Miscounts
  <2>3. OneInvoicePerPeriod' BY <2>2 DEF OneInvoicePerPeriod
  <2> QED BY <2>1, <2>3 DEF BooksInOrder, TotalIsSumOfCharges
<1>3. Books' BY <1>2 DEF Books, FiniteRequests
<1>4. TypeInv BY DEF Books, LinkInv
<1>5. CASE UNCHANGED tables
  <2>1. UNCHANGED <<invoice, payment>> BY <1>5 DEF tables
  <2> QED BY <1>2, <2>1, ContractStutters
<1>6. CASE PurchaseCommit(r) /\ ~Reject(r)
  BY <1>1, <1>2, <1>3, <1>4, <1>6, CommitEnds, ContractPurchase DEF Contract!Next
<1>7. CASE EditCommit(r)
  BY <1>1, <1>2, <1>3, <1>4, <1>7, CommitEnds, ContractEdit DEF Contract!Next
<1>8. CASE MoveCommit(r) /\ ~Reject(r)
  BY <1>1, <1>2, <1>3, <1>4, <1>8, CommitEnds, ContractMove DEF Contract!Next
<1>9. CASE CloseCommit(r)
  BY <1>1, <1>2, <1>3, <1>4, <1>9, CommitEnds, ContractClose DEF Contract!Next
<1>10. CASE PayCommit(r)
  BY <1>1, <1>2, <1>3, <1>4, <1>10, CommitEnds, ContractPay DEF Contract!Next
<1> QED BY <1>5, <1>6, <1>7, <1>8, <1>9, <1>10, Writers

LEMMA ContractStep ==
  /\ FiniteRequests /\ LinkInv /\ ReadInv /\ LinkInv' /\ ReadInv' /\ [Next]_vars
  => [BooksInOrder =>
        \/ BooksInOrder' /\ (Contract!Next \/ UNCHANGED Contract!vars)
        \/ \E i \in InvoiceIds : CommitsMiscount(i)]_vars
<1> SUFFICES ASSUME FiniteRequests, LinkInv, ReadInv, LinkInv', ReadInv', Next, BooksInOrder,
                    \A i \in InvoiceIds : ~CommitsMiscount(i)
             PROVE  BooksInOrder' /\ (Contract!Next \/ UNCHANGED Contract!vars)
  OBVIOUS
<1>1. CASE SetPaymentAccount
  <2>1. UNCHANGED <<invoice, purchase, installment, payment>> BY <1>1 DEF SetPaymentAccount
  <2>2. \A i \in InvoiceIds : Charged(i)' = Charged(i) BY <2>1, SameCharges
  <2>3. BooksInOrder'
    BY <2>1, <2>2
    DEF BooksInOrder, TotalIsSumOfCharges, TotalKept, OneInvoicePerPeriod, Exists
  <2> QED BY <2>1, <2>3, ContractStutters
<1>2. CASE \E r \in Requests : Step(r) BY <1>2, ContractNext DEF Books
<1> QED BY <1>1, <1>2 DEF Next

\* However requests overlap, a handler keeps the card's contract: one bill per period,
\* charged while open, frozen once closed, debited once for its total. It starts from
\* books in order, and every transaction is a step of InvoiceContract, or none, and
\* leaves the books in order, up to the first commit that miscounts.
THEOREM ContractUntilMiscounted ==
  FiniteRequests /\ Spec =>
    BooksInOrder /\ Contract!Init /\ ContractUnlessMiscounted
<1>1. FiniteRequests => []FiniteRequests
  <2>1. FiniteRequests => FiniteRequests' BY DEF FiniteRequests
  <2> QED BY <2>1, PTL
<1> QED BY <1>1, ReadAlways, BooksInit, ContractInit, ContractStep, PTL
        DEF Spec, ContractUnlessMiscounted

-----------------------------------------------------------------------------
(* Purchases in installments, however requests interleave: the invariant   *)
(* is inductive for every MayOverlap.                                      *)

\* A row is inserted by the request that minted its id, which is then done.
PurchaseMinted == \A q \in Requests : Exists(purchase, q) => pc[q] = "done"
InstallmentMinted ==
  \A x \in ItemIds : installment[x].invoice # None => pc[x.by] = "done"

\* Edits, moves and payments write purchases that are registered, and an edit that
\* passed its checks writes one without installments.
WritesRegistered(r) ==
  /\ InFlight(r) /\ IsEdit(input[r]) => pc[input[r].purchase] = "done"
  /\ \A q \in seen[r].voidPurchase : pc[q] = "done"
  /\ Ready(r, "edit") => ~HasInstallments(input[r].purchase)

CoverInv ==
  /\ TypeInv /\ PurchaseMinted /\ InstallmentMinted
  /\ \A r \in Requests : WritesRegistered(r)
  /\ InstallmentsCoverPurchase

\* The installments of a purchase.
PartsOf(q) == {x \in ItemIds : x.by = q /\ installment[x].invoice # None}

\* The property, now and after a step, in terms of them.
LEMMA CoverIs ==
  InstallmentsCoverPurchase <=>
    \A q \in Requests :
      (\E x \in PartsOf(q) : x.seq = 1) =>
        SumFunctionOnSet(InstallmentAmounts, PartsOf(q)) = purchase[q].amount
BY DEF InstallmentsCoverPurchase, PartsOf

LEMMA CoverIsPrime ==
  InstallmentsCoverPurchase' <=>
    \A q \in Requests :
      (\E x \in PartsOf(q)' : x.seq = 1) =>
        SumFunctionOnSet(InstallmentAmounts', PartsOf(q)') = purchase'[q].amount
BY DEF InstallmentsCoverPurchase, PartsOf

\* A purchase has finitely many installments, also when requests are infinitely many.
LEMMA FiniteParts == ASSUME NEW q PROVE IsFiniteSet(PartsOf(q))
<1> DEFINE S == PartsOf(q)
           seqOf == [x \in S |-> x.seq]
<1>1. IsFiniteSet(1..MaxInstallments)
  <2>1. 1 \in Int /\ MaxInstallments \in Int BY MaxInstallmentsAssumption
  <2> QED BY <2>1, FS_Interval
<1>2. \A x \in S : x \in ItemIds /\ x.by = q BY DEF PartsOf
<1>3. seqOf \in [S -> 1..MaxInstallments] BY <1>2 DEF ItemIds
<1>4. \A x, y \in S : seqOf[x] = seqOf[y] => x = y BY <1>2 DEF ItemIds
<1> HIDE DEF seqOf
<1>5. seqOf \in Injection(S, 1..MaxInstallments) BY <1>3, <1>4 DEF Injection, IsInjective
<1> QED BY <1>1, <1>5, FS_Injection

\* Which rows a step writes, and which purchases' amounts, however requests interleave.
LEMMA WrittenRows ==
  ASSUME CoverInv, NEW r \in Requests, Step(r)
  PROVE  \/ PurchaseCommit(r) /\ ~Reject(r)
         \/ /\ UNCHANGED installment
            /\ \A q \in Requests :
                 /\ purchase'[q] # purchase[q] => pc[q] = "done"
                 /\ purchase'[q].amount # purchase[q].amount => ~HasInstallments(q)
<1>1. purchase \in [Requests -> PurchaseRows] /\ \A q \in Requests : purchase[q] \in PurchaseRows
  BY DEF CoverInv, TypeInv, TypeOK
<1>2. CASE UNCHANGED tables BY <1>2 DEF tables
<1>3. CASE PurchaseCommit(r)
  <2>1. CASE Reject(r) BY <2>1 DEF Reject, tables
  <2> QED BY <1>3, <2>1
<1>4. CASE EditCommit(r)
  <2>1. /\ Ready(r, "edit") /\ UNCHANGED installment
        /\ purchase' = [purchase EXCEPT ![input[r].purchase] =
             [@ EXCEPT !.amount = input[r].amount,
                       !.status = NextStatus(input[r], seen[r].purchase)]]
    BY <1>4 DEF EditCommit
  <2>2. /\ pc[input[r].purchase] = "done" /\ ~HasInstallments(input[r].purchase)
    BY <2>1 DEF CoverInv, WritesRegistered, Ready, InFlight, IsEdit
  <2>3. \A q \in Requests : q # input[r].purchase => purchase'[q] = purchase[q]
    BY <1>1, <2>1
  <2> QED BY <2>1, <2>2, <2>3
<1>5. CASE MoveCommit(r) /\ ~Reject(r)
  <2>1. /\ Ready(r, "move") /\ UNCHANGED installment
        /\ purchase' = [purchase EXCEPT ![input[r].purchase].invoice =
                              seen[r].target[input[r].period]]
    BY <1>5 DEF MoveCommit
  <2>2. pc[input[r].purchase] = "done"
    BY <2>1 DEF CoverInv, WritesRegistered, Ready, InFlight, IsEdit
  <2>3. \A q \in Requests : purchase'[q].amount = purchase[q].amount
    BY <1>1, <2>1 DEF PurchaseRows
  <2>4. \A q \in Requests : q # input[r].purchase => purchase'[q] = purchase[q]
    BY <1>1, <2>1
  <2> QED BY <2>1, <2>2, <2>3, <2>4
<1>6. CASE CloseCommit(r) BY <1>6 DEF CloseCommit
<1>7. CASE PayCommit(r)
  <2>1. /\ UNCHANGED installment
        /\ purchase' = [q \in Requests |->
             IF q \in seen[r].voidPurchase
               THEN [purchase[q] EXCEPT !.status = "voided"] ELSE purchase[q]]
    BY <1>7 DEF PayCommit
  <2>2. \A q \in seen[r].voidPurchase : pc[q] = "done" BY DEF CoverInv, WritesRegistered
  <2>3. \A q \in Requests : purchase'[q].amount = purchase[q].amount
    BY <1>1, <2>1 DEF PurchaseRows
  <2> QED BY <2>1, <2>2, <2>3
<1>8. CASE Reject(r) BY <1>2, <1>8 DEF Reject
<1>9. CASE \/ PurchaseBegin(r) \/ EditBegin(r) \/ MoveBegin(r) \/ CloseBegin(r) \/ PayBegin(r)
           \/ PurchaseLoad(r) \/ EditLoad(r) \/ MoveLoad(r) \/ CloseLoad(r) \/ PayLoad(r)
  <2>1. UNCHANGED tables
    BY <1>9 DEF PurchaseBegin, EditBegin, MoveBegin, CloseBegin, PayBegin,
       PurchaseLoad, EditLoad, MoveLoad, CloseLoad, PayLoad, Reject
  <2> QED BY <1>2, <2>1
<1> QED BY <1>3, <1>4, <1>5, <1>6, <1>7, <1>8, <1>9 DEF Step

\* What a step leaves of the rows of the requests that are done.
LEMMA DoneStays ==
  ASSUME CoverInv, NEW r \in Requests, Step(r)
  PROVE  /\ \A q \in Requests : pc[q] = "done" => pc'[q] = "done"
         /\ \A q : pc[q] = "done" /\ q # r => (HasInstallments(q)' <=> HasInstallments(q))
         /\ PurchaseCommit(r) /\ ~Reject(r) => pc'[r] = "done"
<1>1. TypeInv BY DEF CoverInv
<1>2. \A q \in Requests : pc[q] = "done" => pc'[q] = "done" BY <1>1, OnlyOne
<1>3. \A q : q # r => (HasInstallments(q)' <=> HasInstallments(q))
  <2>1. \A x \in ItemIds : x.by # r => installment'[x] = installment[x]
    <3>1. CASE PurchaseCommit(r) /\ ~Reject(r)
      BY <3>1 DEF PurchaseCommit, InstallmentsAfterPurchase
    <3> QED BY <3>1, WrittenRows
  <2> QED BY <2>1 DEF HasInstallments
<1>4. PurchaseCommit(r) /\ ~Reject(r) => pc'[r] = "done"
  BY <1>1 DEF PurchaseCommit, Finish, Advance, TypeInv, TypeOK
<1> QED BY <1>2, <1>3, <1>4

\* A row is inserted by a request that is then done.
LEMMA MintedStep ==
  ASSUME CoverInv, NEW r \in Requests, Step(r)
  PROVE  PurchaseMinted' /\ InstallmentMinted'
<1>1. TypeInv /\ PurchaseMinted /\ InstallmentMinted BY DEF CoverInv
<1>2. CASE PurchaseCommit(r) /\ ~Reject(r)
  <2>1. /\ \A q \in Requests : q # r => purchase'[q] = purchase[q]
        /\ installment' = InstallmentsAfterPurchase(r)
    BY <1>1, <1>2, PurchaseRow
  <2>2. pc'[r] = "done" /\ \A q \in Requests : pc[q] = "done" => pc'[q] = "done"
    BY <1>2, DoneStays
  <2>3. PurchaseMinted' BY <1>1, <2>1, <2>2 DEF PurchaseMinted, Exists
  <2>4. ASSUME NEW x \in ItemIds, installment'[x].invoice # None PROVE pc'[x.by] = "done"
    <3>1. CASE x.by = r BY <2>2, <3>1
    <3>2. CASE x.by # r
      <4>1. installment'[x] = installment[x]
        BY <2>1, <3>2 DEF InstallmentsAfterPurchase
      <4>2. pc[x.by] = "done" BY <1>1, <2>4, <4>1 DEF InstallmentMinted
      <4> QED BY <2>2, <4>2 DEF ItemIds
    <3> QED BY <3>1, <3>2
  <2> QED BY <2>3, <2>4 DEF InstallmentMinted
<1>3. CASE ~(PurchaseCommit(r) /\ ~Reject(r))
  <2>1. /\ UNCHANGED installment
        /\ \A q \in Requests : purchase'[q] # purchase[q] => pc[q] = "done"
    BY <1>3, WrittenRows
  <2>2. \A q \in Requests : pc[q] = "done" => pc'[q] = "done" BY DoneStays
  <2>3. PurchaseMinted' BY <1>1, <2>1, <2>2 DEF PurchaseMinted, Exists
  <2>4. InstallmentMinted'
    <3>1. \A x \in ItemIds : x.by \in Requests BY DEF ItemIds
    <3> QED BY <1>1, <2>1, <2>2, <3>1 DEF InstallmentMinted
  <2> QED BY <2>3, <2>4
<1> QED BY <1>2, <1>3

\* A request that is over, or has not begun, and plans to void nothing, writes nothing.
LEMMA WritesOver ==
  ASSUME TypeInv, NEW r \in Requests, NEW to \in {"done", "rejected"}, Finish(r, to)
  PROVE  WritesRegistered(r)'
<1>1. pc'[r] = to /\ seen'[r] = NothingSeen(r)
  BY DEF Finish, Advance, TypeInv, TypeOK
<1> QED BY <1>1 DEF WritesRegistered, InFlight, Ready, NothingSeen

\* What a request begins with and loads is registered.
LEMMA WritesBegin ==
  ASSUME CoverInv, NEW r \in Requests,
         PurchaseBegin(r) \/ EditBegin(r) \/ MoveBegin(r) \/ CloseBegin(r) \/ PayBegin(r)
  PROVE  WritesRegistered(r)'
<1>1. TypeInv /\ PurchaseMinted /\ WritesRegistered(r) BY DEF CoverInv
<1>2. /\ pc'[r] = "loading" /\ pc[r] = "idle"
      /\ \A q \in Requests : q # r => pc'[q] = pc[q]
  BY <1>1 DEF PurchaseBegin, EditBegin, MoveBegin, CloseBegin, PayBegin, Admit, TypeInv, TypeOK
<1>3. seen \in [Requests -> Snapshots] /\ seen[r] \in Snapshots
  BY <1>1 DEF TypeInv, TypeOK
<1>4. seen'[r].voidPurchase = seen[r].voidPurchase /\ seen[r].voidPurchase \in SUBSET Requests
  BY <1>3 DEF PurchaseBegin, EditBegin, MoveBegin, CloseBegin, PayBegin, Snapshots
<1>5. \A q \in seen'[r].voidPurchase : pc'[q] = "done"
  BY <1>1, <1>2, <1>4 DEF WritesRegistered
<1>6. CASE EditBegin(r) \/ MoveBegin(r)
  <2>1. PICK q \in Requests : Exists(purchase, q) /\ \E in : Admit(r, in) /\ in.purchase = q
    <3>1. CASE EditBegin(r)
      <4>1. PICK q \in Requests, amount \in Amounts, status \in EditStatuses :
              /\ Exists(purchase, q)
              /\ Admit(r, [op |-> "edit", purchase |-> q, amount |-> amount,
                           status |-> status])
        BY <3>1 DEF EditBegin
      <4> QED BY <4>1
    <3>2. CASE MoveBegin(r)
      <4>1. PICK q \in Requests, p \in Periods :
              /\ Exists(purchase, q)
              /\ Admit(r, [op |-> "move", purchase |-> q, period |-> p])
        BY <3>2 DEF MoveBegin
      <4> QED BY <4>1
    <3> QED BY <1>6, <3>1, <3>2
  <2>2. input'[r].purchase = q BY <1>1, <2>1 DEF Admit, TypeInv, TypeOK
  <2>3. pc[q] = "done" BY <1>1, <2>1 DEF PurchaseMinted
  <2> QED BY <1>2, <1>5, <2>2, <2>3 DEF WritesRegistered, Ready
<1>7. CASE ~(EditBegin(r) \/ MoveBegin(r))
  <2>1. PICK in \in Inputs : Admit(r, in) /\ in.op \in {"purchase", "close", "pay"}
    BY <1>7, BeginInput
  <2>2. input'[r] = in BY <1>1, <2>1 DEF Admit, TypeInv, TypeOK
  <2> QED BY <1>2, <1>5, <2>1, <2>2 DEF WritesRegistered, IsEdit, Ready
<1> QED BY <1>6, <1>7

LEMMA WritesLoad ==
  ASSUME CoverInv, NEW r \in Requests,
         PurchaseLoad(r) \/ EditLoad(r) \/ MoveLoad(r) \/ CloseLoad(r) \/ PayLoad(r)
  PROVE  WritesRegistered(r)'
<1>1. TypeInv /\ PurchaseMinted /\ WritesRegistered(r) BY DEF CoverInv
<1>2. CASE Reject(r) BY <1>1, <1>2, WritesOver DEF Reject
<1>3. CASE ~Reject(r)
  <2>1. /\ pc'[r] = "ready" /\ input' = input /\ pc[r] = "loading"
        /\ \A q \in Requests : q # r => pc'[q] = pc[q]
        /\ UNCHANGED tables
    BY <1>1, <1>3 DEF PurchaseLoad, EditLoad, MoveLoad, CloseLoad, PayLoad, Advance, TypeInv,
                TypeOK, Loading
  <2>2. seen \in [Requests -> Snapshots] /\ seen[r] \in Snapshots
    BY <1>1 DEF TypeInv, TypeOK
  <2>3. InFlight(r) /\ IsEdit(input[r]) =>
          input[r].purchase \in Requests /\ pc'[input[r].purchase] = "done"
    BY <1>1, <2>1, EditedType DEF WritesRegistered
  <2>4. UNCHANGED <<purchase, installment>> BY <2>1 DEF tables
  <2>5. Ready(r, "edit")' => ~HasInstallments(input[r].purchase)
    <3>1. CASE EditLoad(r) BY <1>3, <3>1 DEF EditLoad, AmountLocked
    <3>2. CASE ~EditLoad(r)
      BY <2>1, <3>2 DEF PurchaseLoad, MoveLoad, CloseLoad, PayLoad, Loading, Ready
    <3> QED BY <3>1, <3>2
  <2>6. \A q \in seen'[r].voidPurchase : pc'[q] = "done"
    <3>1. CASE PayLoad(r)
      <4>1. PICK void \in VoidChoices(input[r].invoice) :
              seen' = [seen EXCEPT ![r] =
                 [@ EXCEPT !.voidForecast = void[1], !.voidPurchase = void[2]]]
        BY <1>3, <3>1 DEF PayLoad
      <4>2. seen'[r].voidPurchase = void[2] BY <2>2, <4>1 DEF Snapshots
      <4>3. \A q \in void[2] : q \in Requests /\ purchase[q].status = "planned"
        BY DEF VoidChoices, PlannedPurchasesOf
      <4>4. \A q \in void[2] : q \in Requests /\ pc[q] = "done"
        BY <1>1, <4>3 DEF PurchaseMinted, Exists
      <4> QED BY <2>1, <4>2, <4>4
    <3>2. CASE ~PayLoad(r)
      <4>1. seen[r].voidPurchase \in SUBSET Requests BY <2>2 DEF Snapshots
      <4>2. CASE EditLoad(r)
        <5>1. \E i : seen' = [seen EXCEPT ![r] = [@ EXCEPT !.invoice[i] = invoice[i]]]
          BY <1>3, <4>2 DEF EditLoad
        <5> QED BY <1>1, <2>1, <2>2, <4>1, <5>1 DEF WritesRegistered, Snapshots
      <4>3. CASE MoveLoad(r)
        <5>1. \E to, amount, p : seen' = [seen EXCEPT ![r] =
                 [@ EXCEPT !.amount = amount, !.target[p] = to, !.invoice[to] = invoice[to]]]
          BY <1>3, <4>3 DEF MoveLoad
        <5> QED BY <1>1, <2>1, <2>2, <4>1, <5>1 DEF WritesRegistered, Snapshots
      <4>4. CASE PurchaseLoad(r) \/ CloseLoad(r)
        <5>1. seen'[r].voidPurchase = seen[r].voidPurchase
          BY <1>3, <2>2, <4>4 DEF PurchaseLoad, CloseLoad, Snapshots
        <5> QED BY <1>1, <2>1, <4>1, <5>1 DEF WritesRegistered
      <4> QED BY <3>2, <4>2, <4>3, <4>4
    <3> QED BY <3>1, <3>2
  <2>7. InFlight(r) BY <2>1 DEF InFlight
  <2> QED BY <2>1, <2>3, <2>4, <2>5, <2>6, <2>7 DEF WritesRegistered, HasInstallments, Ready
<1> QED BY <1>2, <1>3

\* Whatever a request does, all requests still write registered purchases only.
LEMMA WritesStep ==
  ASSUME CoverInv, NEW r \in Requests, Step(r), NEW q \in Requests
  PROVE  WritesRegistered(q)'
<1>1. TypeInv /\ WritesRegistered(q) BY DEF CoverInv
<1>2. CASE q = r
  <2>1. CASE PurchaseCommit(r) \/ EditCommit(r) \/ MoveCommit(r) \/ CloseCommit(r) \/ PayCommit(r)
    <3>1. \E to \in {"done", "rejected"} : Finish(r, to)
      BY <2>1 DEF PurchaseCommit, EditCommit, MoveCommit, CloseCommit, PayCommit, Reject
    <3> QED BY <1>1, <1>2, <3>1, WritesOver
  <2> QED BY <1>2, <2>1, WritesBegin, WritesLoad DEF Step
<1>3. CASE q # r
  <2>1. /\ pc'[q] = pc[q] /\ input'[q] = input[q] /\ seen'[q] = seen[q] /\ pc[r] # "done"
    BY <1>1, <1>3, OnlyOne
  <2>2. seen[q].voidPurchase \in SUBSET Requests BY <1>1 DEF TypeInv, TypeOK, Snapshots
  <2>3. \A p \in Requests : pc[p] = "done" =>
          pc'[p] = "done" /\ (HasInstallments(p)' <=> HasInstallments(p))
    BY <2>1, DoneStays
  <2>4. InFlight(q) /\ IsEdit(input[q]) =>
          input[q].purchase \in Requests /\ pc[input[q].purchase] = "done"
    BY <1>1, EditedType DEF WritesRegistered
  <2>5. Ready(q, "edit") => InFlight(q) /\ IsEdit(input[q]) BY DEF Ready, InFlight, IsEdit
  <2> DEFINE p == input[q].purchase
  <2>6. Ready(q, "edit") => ~HasInstallments(p) BY <1>1 DEF WritesRegistered
  <2>7. ASSUME Ready(q, "edit") PROVE ~(HasInstallments(input[q].purchase)')
    <3>1. PICK z : z = p OBVIOUS
    <3>2. z \in Requests /\ pc[z] = "done" /\ ~HasInstallments(z)
      BY <2>4, <2>5, <2>6, <2>7, <3>1
    <3>3. ~(HasInstallments(z)') BY <2>3, <3>2
    <3>4. z = input'[q].purchase BY <2>1, <3>1
    <3> QED BY <3>3, <3>4 DEF HasInstallments
  <2>8. Ready(q, "edit")' => ~HasInstallments(input[q].purchase)'
    BY <2>1, <2>7 DEF Ready
  <2>9. InFlight(q)' /\ IsEdit(input[q])' => pc'[input'[q].purchase] = "done"
    BY <2>1, <2>3, <2>4 DEF InFlight, IsEdit
  <2>10. \A z \in seen'[q].voidPurchase : pc'[z] = "done"
    BY <1>1, <2>1, <2>2, <2>3 DEF WritesRegistered
  <2> QED BY <2>8, <2>9, <2>10 DEF WritesRegistered
<1> QED BY <1>2, <1>3

\* A purchase registered from its first installment on is billed in full.
LEMMA CoverPurchase ==
  ASSUME TypeInv, InstallmentMinted, NEW r \in Requests, pc[r] # "done",
         PurchaseCommit(r), ~Reject(r), \E x \in PartsOf(r)' : x.seq = 1
  PROVE  SumFunctionOnSet(InstallmentAmounts', PartsOf(r)') = purchase'[r].amount
<1>1. PICK in : in = input[r] OBVIOUS
<1>2. PICK n : n = Len(in.plan) OBVIOUS
<1>3. Ready(r, "purchase") /\ purchase'[r].amount = in.amount
  BY <1>1, PurchaseRow DEF PurchaseCommit
<1>4. /\ pc[r] # "idle" /\ in \in Inputs /\ in.op = "purchase"
      /\ in.amount \in Amounts /\ in.start \in Starts /\ in.plan \in Plans
  BY <1>1, <1>3 DEF Ready, TypeInv, InputAsked, Inputs
<1>5. /\ in.amount \in Nat /\ in.start \in Nat \ {0} /\ DOMAIN in.plan = 1..n
      /\ n \in Nat \ {0}
  <2>1. /\ in.amount \in Nat /\ in.start \in Nat \ {0} /\ in.plan \in Seq(Periods)
        /\ Len(in.plan) \in 1..MaxInstallments
    BY <1>4, AmountsAssumption, StartsAssumption, PlansAssumption
  <2>2. n \in Nat /\ n >= 1 BY <1>2, <2>1, MaxInstallmentsAssumption
  <2> QED BY <1>2, <2>1, <2>2
<1>6. \A x \in ItemIds : x.by = r => installment[x].invoice = None
  BY DEF InstallmentMinted
<1>7. ASSUME NEW x \in PartsOf(r)'
      PROVE  /\ InInstallments(in)
             /\ \E k \in 1..n : x = [by |-> r, seq |-> in.start - 1 + k]
  <2>1. x \in ItemIds /\ x.by = r /\ installment'[x].invoice # None BY DEF PartsOf
  <2>2. installment'[x] # installment[x] BY <1>6, <2>1
  <2>3. \/ installment'[x] = installment[x]
        \/ /\ InInstallments(input[r])
           /\ \E k \in DOMAIN input[r].plan : x = [by |-> r, seq |-> input[r].start - 1 + k]
    BY <2>1, PurchaseParts
  <2> QED BY <1>1, <1>5, <2>2, <2>3
<1>8. in.start = 1 /\ InInstallments(in)
  <2>1. PICK x \in PartsOf(r)' : x.seq = 1 OBVIOUS
  <2>2. PICK k \in 1..n : x = [by |-> r, seq |-> in.start - 1 + k] BY <1>7
  <2>3. in.start - 1 + k = 1 BY <2>1, <2>2
  <2>4. in.start = 1 BY <1>5, <2>3
  <2> QED BY <1>7, <2>4
<1>9. PICK item : item = [k \in 1..n |-> [by |-> r, seq |-> k]] OBVIOUS
<1>10. ASSUME NEW k \in 1..n
       PROVE  /\ item[k] \in ItemIds /\ item[k].by = r
              /\ installment'[item[k]].invoice # None
              /\ installment'[item[k]].amount = Share(in, k)
  <2>1. item[k] = [by |-> r, seq |-> in.start - 1 + k] BY <1>8, <1>9
  <2>2. /\ item[k] \in ItemIds
        /\ installment'[item[k]] = [invoice |-> TargetOf(r, k), amount |-> Share(in, k)]
    BY <1>1, <1>5, <1>8, <2>1, PurchaseParts
  <2>3. TargetOf(r, k) # None BY <1>1, <1>4, <1>5, BilledType, NoneAssumption
  <2> QED BY <2>1, <2>2, <2>3
<1>11. PartsOf(r)' = {item[k] : k \in 1..n}
  <2>1. \A x \in PartsOf(r)' : \E k \in 1..n : x = item[k]
    <3> SUFFICES ASSUME NEW x \in PartsOf(r)' PROVE \E k \in 1..n : x = item[k] OBVIOUS
    <3>1. PICK k \in 1..n : x = [by |-> r, seq |-> in.start - 1 + k] BY <1>7
    <3>2. x = item[k] BY <1>8, <1>9, <3>1
    <3> QED BY <3>2
  <2>2. \A k \in 1..n : item[k] \in PartsOf(r)' BY <1>10 DEF PartsOf
  <2> QED BY <2>1, <2>2
<1>12. \A k \in 1..n :
         InstallmentAmounts'[item[k]] = (in.amount \div n) + (IF k <= in.amount % n THEN 1 ELSE 0)
  <2> SUFFICES ASSUME NEW k \in 1..n
               PROVE  InstallmentAmounts'[item[k]] =
                        (in.amount \div n) + (IF k <= in.amount % n THEN 1 ELSE 0)
    OBVIOUS
  <2>1. InstallmentAmounts'[item[k]] = Share(in, k) BY <1>10 DEF InstallmentAmounts
  <2>2. Share(in, k) = SplitAmount(in.amount, in.start - 1 + n)[in.start - 1 + k]
    BY <1>2 DEF Share
  <2>3. in.start - 1 + n = n /\ in.start - 1 + k = k BY <1>5, <1>8
  <2>4. SplitAmount(in.amount, n)[k] =
          (in.amount \div n) + (IF k <= in.amount % n THEN 1 ELSE 0)
    BY DEF SplitAmount
  <2> QED BY <2>1, <2>2, <2>3, <2>4
<1>13. \A j, k \in 1..n : item[j] = item[k] => j = k
  <2>1. \A k \in 1..n : item[k].seq = k BY <1>9
  <2> QED BY <2>1
<1>14. SumFunctionOnSet(InstallmentAmounts', {item[k] : k \in 1..n}) = in.amount
  <2>1. PICK f : f = InstallmentAmounts' OBVIOUS
  <2>2. PICK a : a = in.amount OBVIOUS
  <2>3. \A k \in 1..n : f[item[k]] = (a \div n) + (IF k <= a % n THEN 1 ELSE 0)
    BY <1>12, <2>1, <2>2
  <2>4. a \in Nat /\ n \in Nat \ {0} BY <1>5, <2>2
  <2>5. \A j, k \in 1..n : item[j] = item[k] => j = k BY <1>13
  <2>6. SumFunctionOnSet(f, {item[k] : k \in 1..n}) = a BY ONLY <2>3, <2>4, <2>5, SharesAddUp
  <2> QED BY <2>1, <2>2, <2>6
<1> QED BY <1>3, <1>11, <1>14

\* Installments are written once and all together, and lock the purchase's amount.
LEMMA CoverStep ==
  ASSUME CoverInv, NEW r \in Requests, Step(r)
  PROVE  InstallmentsCoverPurchase'
<1>1. /\ TypeInv /\ PurchaseMinted /\ InstallmentMinted /\ pc[r] # "done"
      /\ \A q \in Requests :
           (\E x \in PartsOf(q) : x.seq = 1) =>
             SumFunctionOnSet(InstallmentAmounts, PartsOf(q)) = purchase[q].amount
  BY OnlyOne, CoverIs DEF CoverInv
<1> SUFFICES ASSUME NEW q \in Requests, \E x \in PartsOf(q)' : x.seq = 1
             PROVE  SumFunctionOnSet(InstallmentAmounts', PartsOf(q)') = purchase'[q].amount
  BY CoverIsPrime
<1>2. CASE PurchaseCommit(r) /\ ~Reject(r) /\ q = r BY <1>1, <1>2, CoverPurchase
<1>3. CASE PurchaseCommit(r) /\ ~Reject(r) /\ q # r
  <2>1. purchase'[q] = purchase[q] /\ installment' = InstallmentsAfterPurchase(r)
    BY <1>1, <1>3, PurchaseRow
  <2>2. \A x \in ItemIds : x.by = q => installment'[x] = installment[x]
    BY <1>3, <2>1 DEF InstallmentsAfterPurchase
  <2>3. PartsOf(q)' = PartsOf(q) BY <2>2 DEF PartsOf
  <2>4. \A x \in PartsOf(q) : InstallmentAmounts[x] = InstallmentAmounts'[x]
    BY <2>2 DEF PartsOf, InstallmentAmounts
  <2>5. SumFunctionOnSet(InstallmentAmounts, PartsOf(q)) =
          SumFunctionOnSet(InstallmentAmounts', PartsOf(q))
    BY <2>4, FiniteParts, SumSame
  <2>6. SumFunctionOnSet(InstallmentAmounts, PartsOf(q)) = purchase[q].amount
    BY <1>1, <2>3
  <2> QED BY <2>1, <2>3, <2>5, <2>6
<1>4. CASE ~(PurchaseCommit(r) /\ ~Reject(r))
  <2>1. /\ UNCHANGED installment
        /\ purchase'[q].amount # purchase[q].amount => ~HasInstallments(q)
    BY <1>4, WrittenRows
  <2>2. PartsOf(q)' = PartsOf(q) /\ InstallmentAmounts' = InstallmentAmounts
    BY <2>1 DEF PartsOf, InstallmentAmounts
  <2>3. HasInstallments(q) BY <2>2 DEF HasInstallments, PartsOf
  <2>4. SumFunctionOnSet(InstallmentAmounts, PartsOf(q)) = purchase[q].amount
    BY <1>1, <2>2
  <2> QED BY <2>1, <2>2, <2>3, <2>4
<1> QED BY <1>2, <1>3, <1>4

\* No purchase has installments at the start.
LEMMA CoverInit == Init => CoverInv
<1> SUFFICES ASSUME Init PROVE CoverInv OBVIOUS
<1>1. TypeInv BY TypeInit
<1>2. PurchaseMinted /\ InstallmentMinted
  BY DEF Init, PurchaseMinted, InstallmentMinted, Exists, NoPurchase, NoInstallment
<1>3. \A r \in Requests : WritesRegistered(r)
  BY DEF Init, WritesRegistered, InFlight, Ready, NothingSeen
<1>4. InstallmentsCoverPurchase
  <2>1. \A q \in Requests : PartsOf(q) = {} BY DEF Init, PartsOf, NoInstallment
  <2> QED BY <2>1, CoverIs
<1> QED BY <1>1, <1>2, <1>3, <1>4 DEF CoverInv

\* Every step of the card keeps purchases in installments covered.
LEMMA CoverNext == CoverInv /\ [Next]_vars => CoverInv'
<1> SUFFICES ASSUME CoverInv, [Next]_vars PROVE CoverInv' OBVIOUS
<1>1. TypeInv' BY TypeStep DEF CoverInv
<1>2. CASE SetPaymentAccount \/ UNCHANGED vars
  <2>1. UNCHANGED <<purchase, installment, requests>>
    BY <1>2 DEF SetPaymentAccount, vars, tables
  <2>2. UNCHANGED <<pc, input, seen>> BY <2>1 DEF requests
  <2>3. PurchaseMinted' /\ InstallmentMinted'
    BY <2>1, <2>2 DEF CoverInv, PurchaseMinted, InstallmentMinted, Exists
  <2>4. \A r \in Requests : WritesRegistered(r)'
    BY <2>1, <2>2 DEF CoverInv, WritesRegistered, InFlight, Ready, HasInstallments
  <2>5. InstallmentsCoverPurchase'
    <3>1. \A q \in Requests : PartsOf(q)' = PartsOf(q) BY <2>1 DEF PartsOf
    <3>2. InstallmentAmounts' = InstallmentAmounts BY <2>1 DEF InstallmentAmounts
    <3>3. InstallmentsCoverPurchase BY DEF CoverInv
    <3> QED BY <2>1, <3>1, <3>2, <3>3, CoverIs, CoverIsPrime
  <2> QED BY <1>1, <2>3, <2>4, <2>5 DEF CoverInv
<1>3. ASSUME NEW r \in Requests, Step(r) PROVE CoverInv'
  <2>1. \A q \in Requests : WritesRegistered(q)' BY <1>3, WritesStep
  <2> QED BY <1>1, <1>3, <2>1, MintedStep, CoverStep DEF CoverInv
<1> QED BY <1>2, <1>3 DEF Next

\* However requests interleave, a purchase billed from its first installment on is
\* billed in full: the minor units that a division leaves are neither lost nor billed
\* twice, and no edit, move or payment in flight changes the amount they add up to.
THEOREM InstallmentsCover == Spec => []InstallmentsCoverPurchase
<1>1. CoverInv => InstallmentsCoverPurchase BY DEF CoverInv
<1> QED BY <1>1, CoverInit, CoverNext, PTL DEF Spec

=============================================================================
