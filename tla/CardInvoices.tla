---------------------------- MODULE CardInvoices ----------------------------
(***************************************************************************)
(* Card purchases, invoices, payment forecasts and payments of ONE card of *)
(* one tenant, as the API's repositories keep them in PostgreSQL.          *)
(*                                                                         *)
(* Every handler reads rows with `query` (autocommit), validates what it   *)
(* read in the domain package, and only then persists in one transaction   *)
(* (`withTransaction`, READ COMMITTED, no row lock taken by the reads).    *)
(* A request therefore has three steps, and other requests may run between *)
(* them:                                                                   *)
(*   Begin   the first query: pc "idle" -> "loading"                       *)
(*   Load    the later queries and the domain's checks: -> "ready", or     *)
(*           "rejected" (4xx, nothing written)                             *)
(*   Commit  the transaction, one step: -> "done", or a unique index       *)
(*           refuses it and everything is rolled back: -> "rejected"       *)
(*                                                                         *)
(* A transaction is one step because its statements only write, and the    *)
(* row locks they take are held until it ends.                             *)
(***************************************************************************)
EXTENDS Integers, Sequences, FiniteSetsExt, Functions

CONSTANTS
  Requests,         \* the HTTP requests of a behaviour; each also mints row ids
  Periods,          \* billing periods of the card, consecutive integers
  MaxInstallments,  \* bound on the installments of a purchase (120 in the code)
  Amounts,          \* amounts a user may enter, in minor units
  Starts,           \* values of installmentStart a user may enter
  Plans,            \* sequences of periods the installments left may fall in
  EditStatuses,     \* status a purchase edit may carry, "keep" when absent
  Accounts,         \* values of the card's payment account, None when the card
                    \* has no active one in its currency
  Ops,              \* the operations the requests may perform
  MayOverlap(_, _), \* may a request with the 2nd input begin while one with
                    \* the 1st is in flight?
  None

ASSUME PeriodsAssumption == Periods \subseteq Int
ASSUME MaxInstallmentsAssumption == MaxInstallments \in Nat \ {0}
ASSUME AmountsAssumption == Amounts \subseteq Nat \ {0}
ASSUME StartsAssumption == Starts \subseteq Nat \ {0}
ASSUME PlansAssumption ==
  \A plan \in Plans : plan \in Seq(Periods) /\ Len(plan) \in 1..MaxInstallments
ASSUME OpsAssumption == Ops \subseteq {"purchase", "edit", "move", "close", "pay"}
ASSUME EditStatusesAssumption == EditStatuses \subseteq {"keep", "posted", "planned"}

(***************************************************************************)
(* Rows.  A row that has not been inserted has status "absent" (or names   *)
(* no invoice).  Ids say which request minted them, so that no two are     *)
(* equal; an invoice id also names the invoice's period.                   *)
(***************************************************************************)
InvoiceIds == [by : Requests, period : Periods]
ItemIds    == [by : Requests, seq : 1..MaxInstallments]

ASSUME NoneAssumption == None \notin Requests \cup InvoiceIds

InvoiceRows == [status  : {"absent", "open", "closed", "paid"},
                total   : Int,
                payment : Requests \cup {None}]
PurchaseRows == [status  : {"absent", "posted", "planned", "voided"},
                 amount  : Int,
                 invoice : InvoiceIds \cup {None}]
InstallmentRows == [invoice : InvoiceIds \cup {None}, amount : Int]
ForecastRows == [status  : {"absent", "planned", "voided"},
                 amount  : Int,
                 invoice : InvoiceIds \cup {None},
                 account : Accounts \cup {None}]
PaymentRows == [invoice : InvoiceIds \cup {None}, amount : Int]

NoInvoice     == [status |-> "absent", total |-> 0, payment |-> None]
NoPurchase    == [status |-> "absent", amount |-> 0, invoice |-> None]
NoInstallment == [invoice |-> None, amount |-> 0]
NoForecast    == [status |-> "absent", amount |-> 0, invoice |-> None,
                  account |-> None]
NoPayment     == [invoice |-> None, amount |-> 0]

Inputs ==
       [op : {"purchase"}, amount : Amounts, start : Starts, plan : Plans]
  \cup [op : {"edit"}, purchase : Requests, amount : Amounts,
        status : EditStatuses]
  \cup [op : {"move"}, purchase : Requests, period : Periods]
  \cup [op : {"close", "pay"}, invoice : InvoiceIds]

VARIABLES
  account,      \* the card's payment account, None when it has no active one
  invoice,      \* table "Invoice"
  purchase,     \* rows of "Transaction" with cardId and no accountId
  installment,  \* table "Installment", purchases in installments only
  forecast,     \* rows of "Transaction": PLANNED payment of an invoice
  payment,      \* rows of "Transaction": POSTED payment of an invoice
  pc,           \* how far each request is
  input,        \* what each request asked for
  seen          \* what the handler of each request keeps from its reads

tables   == <<account, invoice, purchase, installment, forecast, payment>>
requests == <<pc, input, seen>>
vars     == <<tables, requests>>

\* What the handlers keep between their queries and their transaction.
Snapshots == [invoice  : [InvoiceIds -> InvoiceRows],
              account  : Accounts \cup {None},
              purchase : PurchaseRows,
              target   : [Periods -> InvoiceIds],
              reuse    : SUBSET ItemIds,
              voidForecast : SUBSET ItemIds,
              voidPurchase : SUBSET Requests,
              amount   : Int]

MintedBy(r) == [p \in Periods |-> [by |-> r, period |-> p]]

NothingSeen(r) ==
  [invoice  |-> [i \in InvoiceIds |-> NoInvoice],
   account  |-> None,
   purchase |-> NoPurchase,
   target   |-> MintedBy(r),
   reuse    |-> {},
   voidForecast |-> {},
   voidPurchase |-> {},
   amount   |-> 0]

TypeOK ==
  /\ account \in Accounts
  /\ invoice \in [InvoiceIds -> InvoiceRows]
  /\ purchase \in [Requests -> PurchaseRows]
  /\ installment \in [ItemIds -> InstallmentRows]
  /\ forecast \in [ItemIds -> ForecastRows]
  /\ payment \in [Requests -> PaymentRows]
  /\ pc \in [Requests -> {"idle", "loading", "ready", "done", "rejected"}]
  /\ input \in [Requests -> Inputs \cup {None}]
  /\ seen \in [Requests -> Snapshots]

Init ==
  /\ account \in Accounts
  /\ invoice = [i \in InvoiceIds |-> NoInvoice]
  /\ purchase = [q \in Requests |-> NoPurchase]
  /\ installment = [x \in ItemIds |-> NoInstallment]
  /\ forecast = [f \in ItemIds |-> NoForecast]
  /\ payment = [r \in Requests |-> NoPayment]
  /\ pc = [r \in Requests |-> "idle"]
  /\ input = [r \in Requests |-> None]
  /\ seen = [r \in Requests |-> NothingSeen(r)]

-----------------------------------------------------------------------------
(* Helpers of the handlers.                                                *)

Exists(table, i) == table[i].status # "absent"

\* LOCKED_CARD_PURCHASE_INVOICE_STATUSES; no code sets CANCELLED or OVERDUE.
LockedStatuses == {"closed", "paid"}

HasInstallments(q) ==
  \E x \in ItemIds : x.by = q /\ installment[x].invoice # None

\* The partial unique index "Invoice_open_card_period_key".
OpenPeriodIndex(table) ==
  \A i, j \in InvoiceIds :
    (/\ i.period = j.period
     /\ table[i].status = "open"
     /\ table[j].status = "open") => i = j

\* Mutant: one minor unit of the remainder is lost.
SplitShort(amount, n) ==
  [k \in 1..n |-> (amount \div n) + (IF k < amount % n THEN 1 ELSE 0)]

\* splitAmount: the remainder goes to the first installments.
SplitAmount(amount, n) ==
  [k \in 1..n |-> (amount \div n) + (IF k <= amount % n THEN 1 ELSE 0)]

\* The share of the k-th installment still to be billed.
Share(in, k) ==
  SplitAmount(in.amount, in.start - 1 + Len(in.plan))[in.start - 1 + k]

\* A purchase is in installments when its total number of them exceeds one.
InInstallments(in) == in.start - 1 + Len(in.plan) > 1

-----------------------------------------------------------------------------
(* Life of a request.                                                      *)

InFlight(r) == pc[r] \in {"loading", "ready"}

Admit(r, in) ==
  /\ pc[r] = "idle"
  /\ in.op \in Ops
  /\ \A q \in Requests : InFlight(q) => MayOverlap(input[q], in)
  /\ pc' = [pc EXCEPT ![r] = "loading"]
  /\ input' = [input EXCEPT ![r] = in]

Loading(r, op) == pc[r] = "loading" /\ input[r].op = op
Ready(r, op)   == pc[r] = "ready" /\ input[r].op = op

Advance(r, to) ==
  /\ pc' = [pc EXCEPT ![r] = to]
  /\ UNCHANGED input

\* What was read is dropped when the handler returns or throws.
Finish(r, to) ==
  /\ Advance(r, to)
  /\ seen' = [seen EXCEPT ![r] = NothingSeen(r)]

Reject(r) == Finish(r, "rejected") /\ UNCHANGED tables

-----------------------------------------------------------------------------
(* registerCardPurchaseForContext.                                         *)

\* Reads the card (its payment account) and all invoices of the card.
PurchaseBegin(r) ==
  \E amount \in Amounts, start \in Starts, plan \in Plans :
    /\ start - 1 + Len(plan) <= MaxInstallments
    /\ Admit(r, [op |-> "purchase", amount |-> amount, start |-> start,
                 plan |-> plan])
    /\ seen' = [seen EXCEPT ![r] =
                              [@ EXCEPT !.invoice = invoice, !.account = account]]
    /\ UNCHANGED tables

\* Mutant: an invoice that is not open is not found.
ResolutionsOpenOnly(r, p) ==
  LET found == {i \in InvoiceIds :
                  i.period = p /\ seen[r].invoice[i].status = "open"}
  IN  IF found = {} THEN {[by |-> r, period |-> p]} ELSE found

\* resolveInvoiceForPurchase: the invoices read for a period, or a new one.
Resolutions(r, p) ==
  LET found == {i \in InvoiceIds : i.period = p /\ Exists(seen[r].invoice, i)}
  IN  IF found = {} \/ p \notin {input[r].plan[k] : k \in DOMAIN input[r].plan}
        THEN {[by |-> r, period |-> p]}
        ELSE found

\* Mutant: the forecasts of the invoices are not looked up.
NoReusableForecasts(r) == {}

\* listForecastTransactionsForInvoices.
ReusableForecasts(r) ==
  {f \in ItemIds : /\ seen[r].account # None
                   /\ forecast[f].status = "planned"
                   /\ forecast[f].account = seen[r].account
                   /\ forecast[f].invoice \in InvoiceIds
                   /\ Exists(seen[r].invoice, forecast[f].invoice)}

\* One forecast for each invoice that has any: the first the query returned.
FirstPerInvoice(found, first) ==
  /\ \A f \in found : \E g \in first : forecast[g].invoice = forecast[f].invoice
  /\ \A f, g \in first : forecast[f].invoice = forecast[g].invoice => f = g

\* Mutants: only a paid, or only a closed, invoice refuses a purchase.
RefusesOnlyPaid(row) == row.status # "paid"
RefusesOnlyClosed(row) == row.status # "closed"

\* validateInvoiceCanReceivePurchase, on the invoice as it was read.
CanReceivePurchase(row) == row.status \in {"absent", "open"}

\* The k-th installment goes to the invoice resolved for its period.
TargetOf(r, k) == seen[r].target[input[r].plan[k]]

Touched(r) == {TargetOf(r, k) : k \in DOMAIN input[r].plan}

\* Reads the planned forecasts, then the domain resolves the invoices.
PurchaseLoad(r) ==
  /\ Loading(r, "purchase")
  /\ \E target \in [Periods -> InvoiceIds], reuse \in SUBSET ReusableForecasts(r) :
       /\ \A p \in Periods : target[p] \in Resolutions(r, p)
       /\ FirstPerInvoice(ReusableForecasts(r), reuse)
       /\ IF \A k \in DOMAIN input[r].plan :
               CanReceivePurchase(seen[r].invoice[target[input[r].plan[k]]])
            THEN /\ Advance(r, "ready")
                 /\ seen' = [seen EXCEPT ![r] =
                                  [@ EXCEPT !.target = target, !.reuse = reuse]]
                 /\ UNCHANGED tables
            ELSE Reject(r)

\* Every installment adds to the total that was READ, also when an earlier
\* one of the same purchase fell in the same period: the first invoice found
\* wins, and of the updates of one row the last one stays.
BilledTotal(r, k) == seen[r].invoice[TargetOf(r, k)].total + Share(input[r], k)

LastShareIn(r, i) == Max({k \in DOMAIN input[r].plan : TargetOf(r, k) = i})

\* buildUpsertInvoiceSql: absolute values, taken from the invoice as read.
InvoicesAfterPurchase(r) ==
  [i \in InvoiceIds |->
     IF i \in Touched(r)
       THEN [status  |-> "open",
             total   |-> BilledTotal(r, LastShareIn(r, i)),
             payment |-> seen[r].invoice[i].payment]
       ELSE invoice[i]]

\* A new invoice resolved by two installments is inserted twice.
InsertsTwice(r) ==
  \E j, k \in DOMAIN input[r].plan :
    j # k /\ TargetOf(r, j) = TargetOf(r, k)
          /\ ~Exists(seen[r].invoice, TargetOf(r, k))

InstallmentsAfterPurchase(r) ==
  [x \in ItemIds |->
     IF /\ x.by = r /\ InInstallments(input[r])
        /\ x.seq - input[r].start + 1 \in DOMAIN input[r].plan
       THEN LET k == x.seq - input[r].start + 1
            IN  [invoice |-> TargetOf(r, k), amount |-> Share(input[r], k)]
       ELSE installment[x]]

\* buildPaymentForecastTransactions: a forecast carries its invoice's new total.
ForecastAmount(r, k) == BilledTotal(r, k)

\* Mutant: the upsert of a forecast found also writes its status.
RevivedForecast(row, amount) ==
  [row EXCEPT !.amount = amount, !.status = "planned"]

\* buildUpsertForecastTransactionSql: a forecast found gets the new amount,
\* whatever its status is by now.
RefreshedForecast(row, amount) == [row EXCEPT !.amount = amount]

ForecastsAfterPurchase(r) ==
  LET reused(i) == {f \in seen[r].reuse : forecast[f].invoice = i}
  IN  [f \in ItemIds |->
         IF f \in seen[r].reuse /\ forecast[f].invoice \in Touched(r)
           THEN RefreshedForecast(forecast[f],
                  ForecastAmount(r, LastShareIn(r, forecast[f].invoice)))
         ELSE IF /\ seen[r].account # None /\ f.by = r
                 /\ f.seq \in DOMAIN input[r].plan
                 /\ reused(TargetOf(r, f.seq)) = {}
           THEN [status |-> "planned", amount |-> ForecastAmount(r, f.seq),
                 invoice |-> TargetOf(r, f.seq), account |-> seen[r].account]
         ELSE forecast[f]]

PurchaseCommit(r) ==
  /\ Ready(r, "purchase")
  /\ IF OpenPeriodIndex(InvoicesAfterPurchase(r)) /\ ~InsertsTwice(r)
       THEN /\ invoice' = InvoicesAfterPurchase(r)
            /\ purchase' = [purchase EXCEPT ![r] =
                 [status |-> "posted", amount |-> input[r].amount,
                  invoice |-> TargetOf(r, 1)]]
            /\ installment' = InstallmentsAfterPurchase(r)
            /\ forecast' = ForecastsAfterPurchase(r)
            /\ Finish(r, "done")
            /\ UNCHANGED <<account, payment>>
       ELSE Reject(r)

-----------------------------------------------------------------------------
(* updateCardPurchaseForContext.                                           *)

EditBegin(r) ==
  \E q \in Requests, amount \in Amounts, status \in EditStatuses :
    /\ Exists(purchase, q)
    /\ Admit(r, [op |-> "edit", purchase |-> q, amount |-> amount,
                 status |-> status])
    /\ seen' = [seen EXCEPT ![r] = [@ EXCEPT !.purchase = purchase[q]]]
    /\ UNCHANGED tables

\* Amount and status of a purchase in installments are locked.
AmountLocked(q) == HasInstallments(q)

\* The invoice and the installments are read after the purchase.
EditLoad(r) ==
  /\ Loading(r, "edit")
  /\ IF /\ invoice[seen[r].purchase.invoice].status \notin LockedStatuses
        /\ ~AmountLocked(input[r].purchase)
       THEN LET i == seen[r].purchase.invoice
            IN  /\ Advance(r, "ready")
                /\ seen' = [seen EXCEPT ![r] = [@ EXCEPT !.invoice[i] = invoice[i]]]
                /\ UNCHANGED tables
       ELSE Reject(r)

\* Mutant: a payload without a status is taken at its word.
StatusAsSent(in, old) == in.status

\* A payload without a status keeps the status that was read.
NextStatus(in, old) == IF in.status = "keep" THEN old.status ELSE in.status

\* Mutant: the new total is computed from the invoice that was read.
TotalReadPlusDelta(r) ==
  seen[r].invoice[seen[r].purchase.invoice].total
    + (input[r].amount - seen[r].purchase.amount)

\* "totalAmountMinor" + delta: relative to the row as it is at the commit.
TotalAfterEdit(r) ==
  invoice[seen[r].purchase.invoice].total
    + (input[r].amount - seen[r].purchase.amount)

\* The purchase gets absolute values; the invoice it belonged to when it was
\* read moves by the difference to the amount that was read.
EditCommit(r) ==
  LET in  == input[r]
      old == seen[r].purchase
  IN  /\ Ready(r, "edit")
      /\ purchase' = [purchase EXCEPT ![in.purchase] =
           [@ EXCEPT !.amount = in.amount, !.status = NextStatus(in, old)]]
      /\ invoice' = [invoice EXCEPT ![old.invoice].total = TotalAfterEdit(r)]
      /\ Finish(r, "done")
      /\ UNCHANGED <<account, installment, forecast, payment>>

-----------------------------------------------------------------------------
(* moveCardPurchaseInvoicePeriodForContext.                                *)

\* assertPurchaseIsNotCanonicalInstallment, then the purchase is read.
MoveBegin(r) ==
  \E q \in Requests, p \in Periods :
    /\ Exists(purchase, q) /\ ~HasInstallments(q)
    /\ Admit(r, [op |-> "move", purchase |-> q, period |-> p])
    /\ seen' = [seen EXCEPT ![r] = [@ EXCEPT !.purchase = purchase[q]]]
    /\ UNCHANGED tables

\* findInvoiceByPeriodForMove: any invoice of the period, or a new one.
Destinations(r) ==
  LET found == {i \in InvoiceIds : i.period = input[r].period /\ Exists(invoice, i)}
  IN  IF found = {} THEN {[by |-> r, period |-> input[r].period]} ELSE found

\* resolveInvoiceMoveAmountMinor for a purchase without recurrence: the amount
\* of an installment of the card that is due with the origin invoice and is
\* not larger than the purchase, WHOEVER it belongs to; else the purchase's.
MoveAmounts(r) ==
  LET due == {x \in ItemIds :
                /\ installment[x].invoice # None
                /\ installment[x].invoice.period = seen[r].purchase.invoice.period
                /\ installment[x].amount <= seen[r].purchase.amount}
  IN  IF due = {} THEN {seen[r].purchase.amount}
      ELSE {installment[x].amount : x \in due}

MoveLoad(r) ==
  /\ Loading(r, "move")
  /\ \E to \in Destinations(r), amount \in MoveAmounts(r) :
       IF /\ invoice[seen[r].purchase.invoice].status \notin LockedStatuses
          /\ seen[r].purchase.invoice.period # input[r].period
          /\ invoice[to].status \notin LockedStatuses
         THEN /\ Advance(r, "ready")
              /\ seen' = [seen EXCEPT ![r] =
                   [@ EXCEPT !.amount = amount,
                             !.target[input[r].period] = to,
                             !.invoice[to] = invoice[to]]]
              /\ UNCHANGED tables
         ELSE Reject(r)

\* A destination that was not found is inserted, open and with total 0; then
\* both totals move by the amount.
InvoicesAfterMove(r) ==
  LET to == seen[r].target[input[r].period]
  IN  [i \in InvoiceIds |->
         IF i = seen[r].purchase.invoice
           THEN [invoice[i] EXCEPT !.total = @ - seen[r].amount]
         ELSE IF i = to
           THEN [invoice[i] EXCEPT
                   !.total  = @ + seen[r].amount,
                   !.status = IF Exists(seen[r].invoice, to) THEN @ ELSE "open"]
         ELSE invoice[i]]

MoveCommit(r) ==
  /\ Ready(r, "move")
  /\ IF OpenPeriodIndex(InvoicesAfterMove(r))
       THEN /\ invoice' = InvoicesAfterMove(r)
            /\ purchase' = [purchase EXCEPT ![input[r].purchase].invoice =
                              seen[r].target[input[r].period]]
            /\ Finish(r, "done")
            /\ UNCHANGED <<account, installment, forecast, payment>>
       ELSE Reject(r)

-----------------------------------------------------------------------------
(* closeInvoiceForContext.                                                 *)

\* assertInvoiceCurrencyIntegrity, whose outcome is not modelled.
CloseBegin(r) ==
  \E i \in InvoiceIds :
    /\ Exists(invoice, i)
    /\ Admit(r, [op |-> "close", invoice |-> i])
    /\ UNCHANGED <<tables, seen>>

CloseLoad(r) ==
  /\ Loading(r, "close")
  /\ IF invoice[input[r].invoice].status = "open"
       THEN Advance(r, "ready") /\ UNCHANGED <<tables, seen>>
       ELSE Reject(r)

\* The update has no condition on the status.
CloseCommit(r) ==
  /\ Ready(r, "close")
  /\ invoice' = [invoice EXCEPT ![input[r].invoice].status = "closed"]
  /\ Finish(r, "done")
  /\ UNCHANGED <<account, purchase, installment, forecast, payment>>

-----------------------------------------------------------------------------
(* payInvoiceForContext.                                                   *)

PayBegin(r) ==
  \E i \in InvoiceIds :
    /\ Exists(invoice, i)
    /\ Admit(r, [op |-> "pay", invoice |-> i])
    /\ seen' = [seen EXCEPT ![r] = [@ EXCEPT !.invoice[i] = invoice[i]]]
    /\ UNCHANGED tables

\* findForecastTransactionIdForInvoice asks for a PLANNED, MANUAL transaction
\* of the invoice, so a purchase edited to PLANNED qualifies as well.
PlannedForecastsOf(i) ==
  {f \in ItemIds : forecast[f].status = "planned" /\ forecast[f].invoice = i}

PlannedPurchasesOf(i) ==
  {q \in Requests : purchase[q].status = "planned" /\ purchase[q].invoice = i}

\* Mutant: no forecast is voided.
VoidsNothing(i) == {<<{}, {}>>}

\* `limit 1`: one row of either kind, if there is any.
VoidChoices(i) ==
  LET choices ==      {<<{f}, {}>> : f \in PlannedForecastsOf(i)}
                 \cup {<<{}, {q}>> : q \in PlannedPurchasesOf(i)}
  IN  IF choices = {} THEN {<<{}, {}>>} ELSE choices

\* The amount paid is the total read (payload.amountMinor, if any, equals it).
Payable(row) == row.status # "paid" /\ row.total > 0

PayLoad(r) ==
  /\ Loading(r, "pay")
  /\ \E void \in VoidChoices(input[r].invoice) :
       IF Payable(seen[r].invoice[input[r].invoice])
         THEN /\ Advance(r, "ready")
              /\ seen' = [seen EXCEPT ![r] =
                   [@ EXCEPT !.voidForecast = void[1], !.voidPurchase = void[2]]]
              /\ UNCHANGED tables
         ELSE Reject(r)

\* Absolute values again: the total is the one that was read.
PayCommit(r) ==
  LET i == input[r].invoice
      total == seen[r].invoice[i].total
  IN  /\ Ready(r, "pay")
      /\ payment' = [payment EXCEPT ![r] = [invoice |-> i, amount |-> total]]
      /\ invoice' = [invoice EXCEPT ![i] =
           [status |-> "paid", total |-> total, payment |-> r]]
      /\ forecast' = [f \in ItemIds |->
           IF f \in seen[r].voidForecast
             THEN [forecast[f] EXCEPT !.status = "voided"] ELSE forecast[f]]
      /\ purchase' = [q \in Requests |->
           IF q \in seen[r].voidPurchase
             THEN [purchase[q] EXCEPT !.status = "voided"] ELSE purchase[q]]
      /\ Finish(r, "done")
      /\ UNCHANGED <<account, installment>>

-----------------------------------------------------------------------------
\* updateCardForContext sets another payment account, or the account is
\* archived or reactivated.
SetPaymentAccount ==
  /\ account' \in Accounts \ {account}
  /\ UNCHANGED <<invoice, purchase, installment, forecast, payment, requests>>

Step(r) ==
  \/ PurchaseBegin(r) \/ PurchaseLoad(r) \/ PurchaseCommit(r)
  \/ EditBegin(r) \/ EditLoad(r) \/ EditCommit(r)
  \/ MoveBegin(r) \/ MoveLoad(r) \/ MoveCommit(r)
  \/ CloseBegin(r) \/ CloseLoad(r) \/ CloseCommit(r)
  \/ PayBegin(r) \/ PayLoad(r) \/ PayCommit(r)

Next == SetPaymentAccount \/ \E r \in Requests : Step(r)

Spec == Init /\ [][Next]_vars

-----------------------------------------------------------------------------
(* What the component promises.  Which of these hold depends on MayOverlap *)
(* and on the inputs; the runs say which instance each is checked on.      *)

PurchaseAmounts    == [q \in Requests |-> purchase[q].amount]
InstallmentAmounts == [x \in ItemIds |-> installment[x].amount]
PaymentAmounts     == [r \in Requests |-> payment[r].amount]

\* The charges an invoice should bill: the purchases in it and, for purchases
\* in installments, the installments in it.
Charged(i) ==
  LET whole == {q \in Requests : purchase[q].invoice = i /\ ~HasInstallments(q)}
      parts == {x \in ItemIds : installment[x].invoice = i}
  IN  SumFunctionOnSet(PurchaseAmounts, whole) + SumFunctionOnSet(InstallmentAmounts, parts)

\* Invoice.totalAmountMinor, which registration, edit and move each maintain in
\* their own way, is the sum of what the invoice bills.
TotalKept(i) == invoice[i].total = Charged(i)

TotalIsSumOfCharges == \A i \in InvoiceIds : TotalKept(i)

\* A purchase billed from its first installment on is billed in full: what its
\* installments charge, over all invoices, adds up to the purchase's amount.
InstallmentsCoverPurchase ==
  \A q \in Requests :
    LET parts == {x \in ItemIds : x.by = q /\ installment[x].invoice # None}
    IN  (\E x \in parts : x.seq = 1) =>
          SumFunctionOnSet(InstallmentAmounts, parts) = purchase[q].amount

\* The link between an invoice and its payment, which payInvoice writes and
\* every other handler copies from what it read: a paid invoice names a payment
\* made for it, an open one names none, and no link names another's payment.
PaymentLink ==
  \A i \in InvoiceIds :
    /\ invoice[i].status = "paid" => invoice[i].payment # None
    /\ invoice[i].status \in {"absent", "open"} => invoice[i].payment = None
    /\ invoice[i].payment # None => payment[invoice[i].payment].invoice = i

\* Paying an invoice debits the account exactly once: every payment posted is
\* the one its invoice names, the invoice is paid, and the amount is its total.
SettledOnce ==
  \A r \in Requests :
    payment[r].invoice # None =>
      invoice[payment[r].invoice] =
        [status |-> "paid", total |-> payment[r].amount, payment |-> r]

\* Purchases, moves and their retries never leave a card with two invoices for
\* the same billing period, whatever the status of the first.
OneInvoicePerPeriod ==
  \A i, j \in InvoiceIds :
    Exists(invoice, i) /\ Exists(invoice, j) /\ i.period = j.period => i = j

\* Paying an invoice leaves no planned payment of it behind, so cash flow never
\* counts the same invoice as paid and as still to be paid.
PaidLeavesNoForecast ==
  \A i \in InvoiceIds :
    invoice[i].status = "paid" => PlannedForecastsOf(i) = {}

\* An invoice has at most one planned payment, however many purchases it
\* collected and however often the account was unset and set again.
OneForecastPerInvoice ==
  \A i \in InvoiceIds : \A f, g \in PlannedForecastsOf(i) : f = g

\* A forecast that a payment voided is never planned again, also when a purchase
\* that read it before the payment updates it afterwards.
VoidedForecastStaysVoided ==
  [][\A f \in ItemIds :
       forecast[f].status = "voided" => forecast'[f].status = "voided"]_vars

-----------------------------------------------------------------------------
(* What holds however requests overlap.  Nothing in a transaction asks again *)
(* what its handler found before it, so each promise ends with the request  *)
(* that another one has overtaken: these properties say that it ends with   *)
(* no other, and name the invoices each commit can damage.                  *)

\* What request r found of invoice i, and its transaction relies on, is no longer so.
Overtaken(r, i) ==
  \/ /\ Ready(r, "purchase")
     /\ i.period \in {input[r].plan[k] : k \in DOMAIN input[r].plan}
     /\ invoice[i] # seen[r].invoice[i]
  \/ /\ Ready(r, "edit") \/ Ready(r, "move")
     /\ i = seen[r].purchase.invoice
     /\ invoice[i].status \in LockedStatuses
  \/ /\ Ready(r, "move")
     /\ LET to == seen[r].target[input[r].period]
        IN  \/ i = to /\ invoice[i].status \in LockedStatuses
            \/ /\ i.period = input[r].period /\ Exists(invoice, i)
               /\ ~Exists(seen[r].invoice, to)
  \/ Ready(r, "close") /\ i = input[r].invoice /\ invoice[i].status # "open"
  \/ Ready(r, "pay") /\ i = input[r].invoice /\ invoice[i] # seen[r].invoice[i]

\* The transaction of r is committed, although r is overtaken on invoice i.
CommitsOvertaken(r, i) == Overtaken(r, i) /\ pc'[r] = "done"

Posted(r) == payment[r].invoice # None

\* The payment that r posted is the one its invoice names, of the invoice's total.
Settled(r) ==
  invoice[payment[r].invoice] =
    [status |-> "paid", total |-> payment[r].amount, payment |-> r]

\* A payment is settled when it is posted and for as long as no request commits that
\* was overtaken on its invoice: the second of two payments that passed the same
\* check, a purchase that saw the invoice open, an edit, a move or a closing.
PaymentStandsUnlessOvertaken ==
  [][\A r \in Requests :
       Posted(r)' /\ (Posted(r) => Settled(r)) =>
         Settled(r)' \/ \E q \in Requests : CommitsOvertaken(q, payment'[r].invoice)]_vars

\* A period gets a second invoice only from a purchase or a move that looked for the
\* first one before it was there.
SecondInvoiceOnlyWhenOvertaken ==
  [][\A i, j \in InvoiceIds :
       i # j /\ i.period = j.period /\ (Exists(invoice, i) /\ Exists(invoice, j))' =>
         \/ Exists(invoice, i) /\ Exists(invoice, j)
         \/ \E r \in Requests : CommitsOvertaken(r, i) \/ CommitsOvertaken(r, j)]_vars

\* An invoice that is closed keeps its total and at most becomes paid, and a paid one
\* stays as it is, unless a request commits that found it otherwise.
LockedUnlessOvertaken ==
  [][\A i \in InvoiceIds :
       invoice[i].status \in LockedStatuses =>
         \/ invoice'[i] = invoice[i]
         \/ /\ invoice[i].status = "closed" /\ invoice'[i].status = "paid"
            /\ invoice'[i].total = invoice[i].total
         \/ \E r \in Requests : CommitsOvertaken(r, i)]_vars

\* The purchase that r edits or moves is no longer as it was read.
StalePurchase(r) ==
  /\ Ready(r, "edit") \/ Ready(r, "move")
  /\ \/ purchase[input[r].purchase].amount # seen[r].purchase.amount
     \/ purchase[input[r].purchase].invoice # seen[r].purchase.invoice

\* Two shares of a purchase fall in invoice i, of which the last one is billed.
SharesMeet(r, i) ==
  /\ Ready(r, "purchase")
  /\ \E j, k \in DOMAIN input[r].plan : j # k /\ TargetOf(r, j) = i /\ TargetOf(r, k) = i

\* A move takes the amount of another purchase's installment.
PartialMove(r) == Ready(r, "move") /\ seen[r].amount # seen[r].purchase.amount

\* What makes a commit of r count something twice in invoice i, or not at all.
Miscounts(r, i) == Overtaken(r, i) \/ StalePurchase(r) \/ SharesMeet(r, i) \/ PartialMove(r)

CommitsMiscount(i) == \E r \in Requests : pc'[r] = "done" /\ Miscounts(r, i)

\* The total of an invoice, which registration, edit and move maintain in their own
\* ways and a payment writes back, remains the sum of what it bills, unless a request
\* commits that was overtaken on it, or edits or moves a purchase that changed since
\* it was read, or bills two shares in it, or moves a part of a purchase.
TotalKeptUnlessMiscounted ==
  [][\A i \in InvoiceIds : TotalKept(i) => TotalKept(i)' \/ CommitsMiscount(i)]_vars

-----------------------------------------------------------------------------
\* The card as a whole: one bill per period, and the sum of all payments.
BillOf(p) ==
  LET found == {i \in InvoiceIds : i.period = p /\ Exists(invoice, i)}
  IN  IF found = {} THEN [status |-> "none", total |-> 0]
      ELSE LET i == CHOOSE j \in found : TRUE
           IN  [status |-> invoice[i].status, total |-> invoice[i].total]

Contract == INSTANCE InvoiceContract WITH
  bill    <- [p \in Periods |-> BillOf(p)],
  debited <- SumFunction(PaymentAmounts)

\* The repositories implement InvoiceContract: every transaction is one of its
\* steps or leaves the bills and the money alone.
ImplementsContract == Contract!Spec

BooksInOrder == OneInvoicePerPeriod /\ TotalIsSumOfCharges

\* From books in order, a transaction is a step of the contract, or none, and leaves
\* the books in order, unless it miscounts.
ContractUnlessMiscounted ==
  [][BooksInOrder =>
       \/ BooksInOrder' /\ (Contract!Next \/ UNCHANGED Contract!vars)
       \/ \E i \in InvoiceIds : CommitsMiscount(i)]_vars

=============================================================================
