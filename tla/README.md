# SolverFin in TLA+

SolverFin is a multi-tenant personal finance application: an HTTP API in
TypeScript over PostgreSQL (`apps/api`), a domain package without I/O
(`packages/domain`), adapters to AI providers (`packages/ai`) and a server-side
rendered web client (`apps/web`). This directory holds a model of the parts of
the API in which requests meet on shared rows, what TLC checks of it on small
instances, and what TLAPS proves of it for all.

Paths below are relative to the repository; `repositories/` stands for
`apps/api/src/repositories/`.

## 1. Inventory

What every part has in common is `apps/api/src/db.ts`. `query` is one
autocommit statement. `withTransaction` runs a callback between BEGIN and
COMMIT or ROLLBACK at PostgreSQL's default isolation, READ COMMITTED.
`withSharedTransaction` joins the transaction of the caller with a savepoint.
The API keeps no ledger state in memory: all state is in the tables, and requests
interact by overlapping on them. Most handlers read with `query`, validate in the
domain package what they read, and write in one transaction, so that what was
read may be stale by the time it is written.

| component | state | operations | hard behaviour | correct when |
|---|---|---|---|---|
| **Cards and invoices** `repositories/cards.ts`, `card-invoice-contracts-core.ts`, `card-purchase-invoice-period-move-core.ts`, `packages/domain/src/cards-core.ts` | `Invoice`, `Installment`, purchases, payment forecasts and payments (all three in `Transaction`) | register, edit and move a purchase; close and pay an invoice | absolute values written from stale reads; two disciplines on one total; forecasts found by the account of the day | totals are the sum of the charges; paid once; locked invoices stay put |
| **Billing calendar** `cards-core.ts`, the move's helpers | none | period of a date, due date, months of installments, destination and date of a move | days clamped to short months | periods tile the calendar; the due date is the next due day |
| **Financial assistant** `apps/api/src/financial-assistant-*.ts`, `packages/ai/src/index.ts` (`runAiTask`) | `FinancialAssistantConversation`, `FinancialAssistantTurn` | start, read, cancel, send | provider calls of many seconds, leases, retries, switching profiles, sampled clocks | one open context; one turn per key; late answers fenced |
| **Recurrences** `repositories/recurrences.ts`, `packages/domain/src/recurrences.ts` | `Recurrence`, `Installment`, `Transaction` | create, edit, pause, resume, cancel, generate occurrences | several transactions per generation, the card purchase flow called in between, withdrawal after a failure | each occurrence is booked once; what is inserted is booked or withdrawn; a cancelled rule stays so |
| Edits of recurring purchases and transactions | the same rows | this / this and the following | row locks, locked invoices in the series | the series and its rows agree |
| Manual installments `repositories/manual-installments.ts` | `Installment`, an idempotency key | create, edit one | retries that race | a key creates once |
| **Transactions, groups and bulk actions** `repositories/transactions.ts`, `transaction-groups.ts`, `transaction-group-actions.ts`, `transaction-bulk-actions.ts` | `Transaction`, `TransactionGroup` | update and void an entry; group, ungroup, status and void of a group or a member; reconcile, undo, void a selection | whole rows rewritten from stale reads; row locks taken in several orders | a group is one line: same account, kind, currency and status; a selection is taken whole; nobody waits for ever |
| **Imports and their review**, with the AI review queue, deduplication and reconciliation: `repositories/imports.ts`, `review-suggestions.ts`, `apps/api/src/generalized-deterministic-review-*.ts`, `ai-review-queue-decision-service.ts` | `ImportBatch`, extracted lines and candidates (both in `AiSuggestion`), `Transaction` | approve, reject, edit a line, from the batch or from the queue; decide a candidate; scan; discard; recount | the same locks taken in two orders; a detection repeated in the approval; a status counted without a lock | a line has one effect; a discarded batch none; what is approved is what was seen |
| OFX, documents, bank messages | the same | parse and propose | parsing | – |
| **Account remuneration** `repositories/account-remuneration-*.ts`, `apps/api/src/account-remuneration-scheduler.ts` | `FinancialIndexRate`, `AccountRemuneration`, `AccountRemunerationConfiguration`; the last completed day in memory | daily cycle, the administrator's import and processing, configuration | several instances; a provider that fails for days; the memory lost on restart | rates without gaps; each competence settled, once |
| **Authentication and sessions** `apps/api/src/oidc-flow.ts`, `external-identity.ts`, `persistent-session.ts`, `auth-service.ts` | `OidcLoginAttempt`, `User`, `ApplicationSession` | start, callback, cancel, cleanup, use and renew a session, logout, disable a user | repeated callbacks, a slow provider, two first logins, users disabled meanwhile | one session per login; none for a disabled user; one account per person; revocations stand |
| Insights, categorization, payables, budgets, reports, accounts, categories, attachments, rules, consent, web | their tables | mostly plain records and aggregations | little | – |

How they interact: recurrences and imports call the card purchase flow; bulk
actions and edits of transactions reach rows that invoices name as payment or
forecast; the assistant reads the ledger as evidence and never writes it;
`runAiTask` calls back into the assistant's consent check before every attempt.

The list of hazards, each at its line and with the properties that watch it, is
in `PROJECT.json`; so is the status of every component.

## 2. The modules

| module | what it is |
|---|---|
| `CardInvoices` | the handlers of one card: purchase, edit, move, close, pay |
| `InvoiceContract` | what that component promises, one step per operation |
| `MCCardInvoices` | instances for TLC: which requests may overlap, which periods, symmetry |
| `CardInvoicesProofs` | theorems about `CardInvoices` and their proofs |
| `InvoiceCalendar`, `MCInvoiceCalendar` | the billing calendar, and sixteen months of it |
| `Assistant`, `MCAssistant` | conversations of one user with the financial assistant, and an instance |
| `RecurrenceGeneration`, `MCRecurrenceGeneration` | the rule of one recurrence and the generation of its occurrences, and an instance |
| `ImportReview`, `MCImportReview` | imported lines, their candidates and the batch under review, and an instance |
| `Remuneration`, `MCRemuneration` | the daily remuneration of accounts, and an instance |
| `Authentication`, `MCAuthentication` | logging in through the identity provider, and sessions, and an instance |
| `TransactionGroups`, `MCTransactionGroups` | entries of a statement, their groups and the actions on selections, and an instance |
| `InvoiceCalendarProofs`, `RecurrenceGenerationProofs`, `ImportReviewProofs`, `RemunerationProofs`, `AuthenticationProofs`, `AssistantProofs`, `TransactionGroupsProofs` | theorems about the module each is named after, and their proofs |

`PROJECT.json` gives, for every definition that stands for code, the lines it
stands for.

### CardInvoices

State: one variable per table (`invoice`, `purchase`, `installment`, `forecast`,
`payment`; the last two and `purchase` are kinds of rows of `Transaction` that
the code tells apart by their columns), the card's payment `account`, and for each
request how far it is (`pc`), what it asked for (`input`) and what its handler
holds from its reads (`seen`). A row's id is made of the request that minted
it, so that ids are unique as `randomUUID` makes them.

A request has three steps. *Begin* is its first query. *Load* is its later
queries and the domain's checks, after which it is rejected or ready.
*Commit* is its transaction, one step because the transactions only write and
keep the row locks they take. Reads lock nothing. So any other request may run
between the check and the write of this one. Every write is modelled as the
statement has it: absolute values from the row read (`InvoicesAfterPurchase`,
`PayCommit`), differences to a value read (`TotalAfterEdit`,
`InvoicesAfterMove`), or a column left out (`RefreshedForecast`, which does not
write the status). The unique indexes that can refuse a transaction are guards
of the commit, and a refusal rolls everything back.

`MayOverlap` is a parameter: it says which requests may be in flight together.
Nothing in the code keeps any apart, so the run `cards_concurrent` and every theorem
leave it free. `cards_ledger` is about what the handlers do when purchases, closings
and payments take turns (section 3).

Because nothing in a transaction asks again what its handler read before it, much of
what the handlers promise ends with a request that another has overtaken. The section
"What holds however requests overlap" of the module says exactly when. `Overtaken(r, i)`:
what `r` found of invoice `i`, and its transaction relies on, is no longer so.
`StalePurchase(r)`: the purchase `r` edits or moves has another amount or invoice than
was read. `SharesMeet` and `PartialMove` are two miscounts without any overlap ("Known
limits"). The properties named `...UnlessOvertaken` and `...UnlessMiscounted` say that a
promise ends with the commit of such a request, on the invoices named, and with no other.

Abstractions: periods are consecutive integers (the calendar is a module of its
own); texts, categories and dates of rows are left out; one currency, one
card, one tenant; amounts are small integers; `None` is SQL null. Cancelled and
overdue invoices do not occur because no code sets those states.

### InvoiceContract

One bill per period with a status and a total, and the money that paying bills
took out of accounts. A purchase charges bills that are open or do not exist;
an edit changes an open bill; a move takes from one open bill what it gives
another; closing freezes; paying debits the total once. `CardInvoices` is mapped
to it by `BillOf` (the invoice of the period) and the sum of the payment rows,
and `ImplementsContract` says that every step is a step of the contract or
changes nothing it can see. `ContractUnlessMiscounted` says the same of each
transaction by itself, where requests overlap in any way.

### InvoiceCalendar

The domain's date functions, on dates `<<year, month, day>>`; the code compares
ISO strings, which order dates as `Rank` does. The behaviour walks from day to
day for each pair of closing and due day, so that a step compares what the
functions say of neighbouring days. The reference definition of the due date is the
least of the due days of two years that come after the closing (`DueDaysFrom`).
`IsDate` is what a date column holds; the functions themselves ask only that a date
be given, and the model does not say what they make of a string that is none.

### Assistant

One user with several profiles. State: both tables, the user's advisory lock
(`pg_advisory_xact_lock`), a clock, and for each request its next step and what it
remembers, above all `now`, the time it *sampled*: the code takes `new Date()`
once and compares with it after arbitrary delays. Every transaction or
autocommit query is a step. The start of a conversation has two, `FindOpen` and
`Insert`, because what makes the search and the insertion atomic is the lock and
nothing else.

A message goes `SendBegin` (the router reads the conversation), `Claim`,
`Bind`, then consent checks, each of which reads the conversation as a GET does
(`Lock`, `ExpireOthers`, `Recover`, `Read`, perhaps `Expire`), then the provider
(`ProviderReturns`, which may repeat), one more such reading, and `Finalize`. A
recovered, cancelled or expired conversation has another version by then.

`ExpireOthers` follows one SQL statement closely: its data-modifying CTE updates
conversations after waiting for their row locks, and turns as its snapshot
shows them. A turn claimed during the wait stays in PROCESSING in an expired
conversation until its own finalization marks it; `ProcessingIsFenced` and
`TurnSettles` say exactly that much.

`Claim` that refuses with "expired" writes nothing, because it throws inside
the transaction that wrote the expiry.

Failures: `Crash` ends a request at any step (process death, or an error nobody
catches: the promise of the finalization is returned and not awaited).
`Fails` is an error that the message handler does catch. A transaction that
fails leaves nothing behind.

Left out: texts and pending questions, evidence (only its currency is kept),
provider content and costs. The service passes no currency to the claim, so the
claim's own currency check never runs. The unique indexes on the open context
and on the idempotency key are deliberately absent: `OneOpenContext` and
`OneTurnPerKey` show that the handlers do not rely on them.

### RecurrenceGeneration

One recurrence. State: the row of the rule, the rows of `Installment` and the rows
of `Transaction` generated from it, and for each request its next step, what it
asked for, and what it keeps (the rule as read, the occurrences still to be booked).
An occurrence is its sequence number. `installment` is keyed by it because of the
unique index on recurrence and sequence number; that the index *refuses* an
insertion is the guard `SequencesFree`, and the mutant of `OccurrenceBookedOnce`
drops it. An entry is keyed by the request that made it and its occurrence.

A change of the rule reads (`ReadRule`) and writes the whole row (`Persist`). A
generation reads the rule, then the installments (`ListInstallments`, with the
domain's choice of the missing ones), inserts their rows in one transaction
(`InsertInstallments`), and books them: for an account all in a second transaction
(`Book`), for a card one by one, a purchase (`Purchase`) and the update that links
it (`Link`). An error in that loop leads to `Undo`, which deletes the rows
inserted that no purchase names. The catch-up of the list of recurrences is a
generation up to today; creating a rule that starts by today generates its
first occurrence.

`Fails` is an error or a refusal in any step, `Crash` the end of the process.
`Purchase` is one step here: its own interleavings are those of `CardInvoices`.
Amounts, dates, frequency and instruments are data. `COMPLETED` is a status that
no code sets.

### ImportReview

State: the status of each batch, the lines (status, content, and `target`, the
transaction a line became or reconciled), the set of candidates, the `ledger`
(transactions that were there, and one per line that may be created), the row and
advisory locks that are `held`, and for each request its next step (`pc`) and what
it was asked and has read (`req`).

Every request is one transaction. It takes its locks one after the other and its
writes are visible at its commit, so the model writes in the last step only. The
batch's page locks the batch and then the line (`ReviewInBatch`, `EditInBatch`);
the queue and the decisions on candidates lock the line and then the batch
(`ReviewInQueue`, `EditInQueue`, `Decide`). `Second` is the second lock and
`Accepts` the checks after it. Requests that wait for each other are ended by
`Rollback`, as PostgreSQL aborts one of them; `Rollback` is also every other error.
A lock that a transaction takes right before its commit is waited for and not held.

An approval repeats the detection under its locks (`Offered`, `Blocked`); a transfer
without open candidates skips it and looks for its twin under an advisory lock on
the transfer (`FindTransfer`). `Insert` is the insert that does nothing on a
conflict with the unique key, which also counts candidates that have expired.
`ReadForScan` and `ReadForRefresh` read without a lock what `Scan` and `Refresh` use.

Abstractions: what a line says is one of a few `Payloads` and stands for its
fingerprint; what the detectors compare is the `MovementOf` a payload; scores are
left out, so every live transaction of the same movement is a candidate of both
kinds. Left out: approvals of categories, lines that become card purchases and the
invoice they join, suggestions that do not come from an import, payloads of older
versions, and the replay of a decision by its public key.

### Remuneration

State: the calendar, the rates published and stored, the configuration and the
settled competences per account, the two advisory locks, and for each process its
next step and values; `completed` is what an instance remembers and loses on
`Restart`. An instance's cycle is `StartCycle` (which reads the latest rate
*before* it has the lock), `ImportBusy`, `UpToDate` or `AskProvider`, then
`StoreRates` or `RefuseRates`, then `ProcessBusy` or `ListPending`, and
`WriteResults`. An administrator runs one half of it. `Fail` is any error of a step.

An administrator's requests carry dates, and the model lets them be any of the
constant `Dates`: an import asks for a period that may be over or to come
(`assertImportPeriodOrder` asks only that it does not end before it starts), and a
processing has the date the request gives, which nothing compares with today
(`account-remuneration-router.ts:105-108`, `account-remuneration-service.ts:340-343`). A
date to come therefore settles a competence whose day is not over, when its rate is
stored; `OnlyRequestsSettleEarly` says that nothing else does.

The start of an import is the day after the latest rate whatever was asked for
(`ImportFrom`); the check of what the provider returned compares with what was
asked for (`WithinPeriod`). Both are as in the code, and `remuneration_outage`
shows where they disagree. `Outages = FALSE` is an assumption about the
environment: a published rate is imported before the window leaves it behind.

Left out: balances, amounts and the planned income, reasons for a result
without income, the log of operations, the hour of the day.

### Authentication

State: the clock, the attempts (status, version, expiry), the users (status, email,
the provider's subject, number of profiles), the session each callback created,
and for each callback and request its next step and what it has read.

A callback goes `Claim`, `Exchange`, `FindBySubject`, `FindByEmail`, then one of
`LogInAsFound`, `LogInAsNew`, `LogInAsConcurrent`, or `Refuse`. From the search
on this is one transaction; the searches lock the user they find (`Locked`), and
all it writes becomes visible in its last step. `Refuse` revokes sessions *outside*
of the transaction that it then rolls back, as the code does. A failure leads to
`MarkFailed`, whose own failure is ignored. `ExpireAttempts` is the cleanup.
A request that finds its session unusable reads it again to see why (`Judge`) and
revokes it on what it read (`RevokeRejected`). `Disable` includes the trigger that
revokes sessions; the trigger that makes a linked identity immutable is in `MayLink`.

Abstracted: tokens, hashes, keys, PKCE and the browser's binding; a request with a
wrong one finds no row. Left out: registration and login with a password.

### TransactionGroups

State: the rows of `Transaction` (status, group, and `class`, which stands for the
columns that must agree within a group), the ids in `TransactionGroup`, the row
`lock`s, and for each request how far it is (`pc`), what it asked (`input`), and what
its handler has read and has still to lock (`seen`).

The handlers of one entry read it (`UpdateBegin`, `VoidBegin`), refuse what a
member of a group may not do, and later write the whole row as read
(`EntryCommit`). The statement does not write the column of the group, and a
trigger of the table (`Guarded`) compares old and new row: it is the only thing
between a stale update and a group.

All other handlers are one transaction each, with up to three queries that lock:
the group (`LockGroup`), its members (`ListMembers`, then `LockRow` one by one) and
the entries selected (`LockRow` again). The statement on the members fixes which
rows it looks at when it begins and asks again, once it has a lock, whether the row
still matches (`Matches`), as PostgreSQL does at READ COMMITTED. Rows are locked in
the order the query sorts them, `ByDate` or `ById`; for the update that ungroups,
which states no order, both are tried. Ungrouping locks the members *before* the
group. What a transaction writes becomes visible at its commit, and it holds the
locks of all it changes, so the writes are one step (`CreateCommit` and so on).
`BreakDeadlock` is PostgreSQL's detector, which aborts a transaction of a cycle;
`Fail` is an error, or the death of the process, at any point.

Left out: creation of entries, transfers, copies of members, edits of a member's
amount, dates and texts, the refusal of groups with installments, and effective
dates (a posted entry has one).

## 3. What is checked

Every run has `CHECK_DEADLOCK FALSE`: requests are used up, the walk through the
days ends, the clock is bounded. So the systems do stop.

| run | instance | shows |
|---|---|---|
| `cards_ledger` | 4 requests, 2 periods, all five operations, the payment account unset and set again; edits and moves of *different* purchases overlap, nothing else does | at most one forecast per invoice, none after payment; `ImplementsContract`: one bill per period, frozen once closed, debited once |
| `cards_concurrent` | 4 requests, any overlap; purchases in one or two installments, also with the first already billed | the remainder of the division is billed once; the link between invoice and payment, and that a voided forecast is never revived, survive every interleaving; totals remain the sum of the charges, though handlers maintain them by different means, locked invoices stay and periods keep to one invoice, unless a request commits that was overtaken |
| `calendar` | closing days {1,15,27..31}, due days {1,10,27..31}, 1 Dec 2023 to 31 Mar 2025, offsets up to 12 months | periods tile; due dates; installments in consecutive periods; moves find their period |
| `assistant` | a conversation, a message and one more request of any kind, two profiles, two keys, two currencies; clock 0..2, life of a conversation 2, lease 1, 2 consent checks and 1 retry | one open context, versions fence late answers, one turn per key, answers in time, turns settle |
| `recurrences` | 4 requests (creation; generation or resumption; generation, edit or pause; pause or cancellation), 2 occurrences, account or card; any overlap | each occurrence booked once; settled generations left nothing half done; a stopped rule comes back by a resume, or by an edit that writes back what it read, and by nothing else; what was inserted is booked or withdrawn in the end |
| `imports` | 2 requests at a time, again and again; 2 lines in one batch or in two, 2 contents, of a transfer and of a purchase; transactions change once | one effect per line; none in a discarded batch; decided lines leave nothing to review; both statements of a transfer are one transaction; what the queue approves is what was seen |
| `remuneration` | one instance, one administrator's request, one account; dates given by requests 0, 3 and 4; window 2 days, calendar of 5, without outages | rates without gaps; no competence settled twice; each settled in the end |
| `sessions` | 2 attempts, 2 callbacks, 1 request at a time, a user with a password and an unused id, the provider's identities of two people one of whom changes email; clock 0..3, attempts 1, idleness 2, sessions 3 | one session per login; none for a disabled user; one account per person; revocations stand; attempts settle |
| `groups` | 3 requests that may overlap in any way: one changes an entry, one groups or voids groups and members, one groups, ungroups or acts on a group or a selection; 3 entries, loose with one planned or all in a group; dates in the opposite order of ids | groups are uniform; a selection is taken whole or refused; every request ends, also out of a deadlock |
| `double_payment` | 3 requests, any overlap | **violated**: two overlapping payments debit twice |
| `imports_unreviewed` | 1 request at a time, 1 line, a transaction like it | **violated**: a line edited without a change is approved without review of its twin |
| `remuneration_outage` | as `remuneration`, with outages | **violated**: after an outage longer than the window nothing is settled any more |

The violated properties state what the repository's documentation says; the
quotations are in `PROJECT.json`, under `findings`.

What the two card runs catch. `cards_concurrent` is where hazards of overlap are looked
for: an edit that wrote a total it had read instead of a difference breaks
`TotalKeptUnlessMiscounted` as soon as another request commits in between; a purchase
that accepted a closed invoice breaks `LockedUnlessOvertaken`; a lookup that missed invoices
that are not open breaks `SecondInvoiceOnlyWhenOvertaken`. What these properties
except is what the code really does, and the next section has an instance for each: an
overtaken purchase, edit, move, closing or payment. In `cards_ledger` purchases,
closings and payments take turns, so none of its properties speaks of *their* overlap;
it has what the other lacks, the payment account that comes and goes, and edits
and moves of different purchases that meet on one invoice.

Why the bounds are enough. *Cards*: every property relates at most two rows of
one kind, a purchase that puts them there and two operations that overlap; 4
requests allow two purchases and two more operations on them. Two periods give a
move a destination and installments a second invoice; amounts 2 and 3 make the
sums of two purchases distinct and leave a remainder when divided by two. Requests are symmetric: ids are only compared. *Calendar*: the
functions depend on the lengths of neighbouring months, and all pairs occur,
with a February of 29 and one of 28 days; the closing and due days are those on
either side of every clamping and two that are never clamped. *Assistant*: at
most one message is being processed at a time per conversation, so a third
request is the one that interferes; a clock with three values has a before, a
within and an after for the lease and for the life of a conversation. Two
consent checks where the code makes three (before the task, and in `runAiTask`)
only shorten a chain of equal steps.
*Recurrences*: two generations meet on the same rows while a third request
changes the rule between their reads, and a pause may follow a cancellation; two
occurrences are enough for a loop that books one and fails on the next, and for
windows that overlap in part.
*Imports*: each property is about one line, or about two statements of one transfer;
two transactions that overlap are enough for every order of two locks and for a scan
or a recount from a stale reading, and requests come again without a bound. A
transaction changes at most once (`MaxRev`), which tells "unchanged since" from
"changed". *Remuneration*: two processes on two locks; a date that is over for good, one
that comes during the run and the last one, so that a request may be early, late and in time; a window of two days is wider
than the provider's delay of one, as ten days are in the code, and the calendar
leaves three days to fail and recover. *Sessions*: the second callback repeats the
first one's attempt or meets it on a user; one person has an account with a
password, the other none, and one changes to the other's email; a clock with four
values ends attempts, idleness and sessions at different times. *Groups*: a stale
update needs one entry and the handlers that group it; a deadlock needs two
transactions and two rows in opposite orders; the third entry is what makes a
group survive the loss of a member. Transactions of one handler interfere with
each other as those of two do, since they ask for the same locks. `Roles` keeps the
three kinds of requests apart and `Selections` are the empty one and two that meet
in one entry.

Fairness. `CardInvoices`, `InvoiceCalendar` and `ImportReview` have none and claim no
liveness: an HTTP request may stop at any step. `Assistant` and
`RecurrenceGeneration` have weak fairness of `Work(r)` for every request `r`: a
request that can take its next step takes it or crashes, because the event loop and
the database serve live requests. Nothing obliges a client to send anything, time to
pass, a provider to succeed, or a crash not to happen. `TurnSettles` therefore says:
a claimed turn leaves PROCESSING, or its process died; and `GenerationSettles`:
inserted occurrences are booked or withdrawn, or their process died, or their
generation failed on an account (see below).

`Authentication` has weak fairness of the clock and of the cleanup, which every
instance runs each minute; callbacks may stop anywhere. `Remuneration` has weak
fairness of the clock and of an administrator's request once begun, and *strong*
fairness of the scheduler's steps: the timer repeats the cycle every fifteen
minutes, and an instance is up, the lock free and the provider well again and
again. Any number of failures and restarts may come in between. Without that
assumption a provider that is down for ever refutes `EveryCompetenceSettled`
trivially; with it, `remuneration_outage` still refutes it.

`TransactionGroups` has weak fairness of every request's next step, which is enabled
only while the row it waits for is free, and of the deadlock detector. `RequestsEnd`
therefore depends on the locks being given back: a request that is begun answers,
is refused or is aborted.

### Known limits of the code, and instances that show them

These follow from the absence of locks and are not runs of their own. To see those of
cards, change the constants of `cards_ledger.cfg` as given, with `NeverOverlap` unless
stated, and check the property named.

* Two overlapping purchases: one total is lost (`AlwaysOverlap`;
  `TotalIsSumOfCharges`; `repositories/cards.ts:271` reads, `318-326` writes).
  Two overlapping edits of one purchase both add their difference to the amount
  that it had before either (`AlwaysOverlap`; `TotalIsSumOfCharges`).
* An edit that overlaps the closing changes a closed invoice (`AlwaysOverlap`,
  operations purchase, edit, close; `ImplementsContract`).
* A first purchase that overlaps a purchase and its closing or payment makes a
  second invoice for the period; the partial index covers open ones only
  (`AlwaysOverlap`; `OneInvoicePerPeriod`).
* A purchase edited to `planned` is what a payment finds and voids in place of the
  forecast (`EditStatuses = {"planned"}`; `PaidLeavesNoForecast`).
* The payment account is *replaced*: the next purchase adds a second forecast
  (`Accounts` with two accounts; `OneForecastPerInvoice`, `PaidLeavesNoForecast`).
* A move after a purchase in installments in the same period takes an
  installment's amount for the purchase's (installments with move;
  `TotalIsSumOfCharges`).
* Two shares of one purchase fall in one period, as for a purchase on 31 March
  with closing day 30 (`Plans` with `<<0>>` and `<<0, 0>>`; `TotalIsSumOfCharges`, and
  `OneForecastPerInvoice` when the payment account was set in between). Where the
  invoice is new, the purchase inserts it twice and is refused.
* Around a February of 28 days the due dates of two invoices may coincide
  (closing day 29, due day 30), and a closing day changed in mid-life makes
  periods overlap; `PeriodsTile` is for one closing day.
* A turn claimed while another profile's request waits for the row lock, whose
  process then dies, stays PROCESSING in an expired conversation for good.
* A cancelled conversation may become EXPIRED: `markConversationExpired`
  excludes only EXPIRED. `LateAnswerIsFenced` allows it.

* A generation for an account that fails or dies between its two transactions
  leaves occurrences that nothing books: later generations see their rows and
  skip them, and only cards have a withdrawal. `SettledIsMaterialised` and
  `GenerationSettles` exempt exactly this case.
* A generation for a card that dies in its loop leaves the same. A purchase whose
  link fails stays on the invoice while its occurrence is withdrawn, and the next
  generation buys it again; `OccurrenceBookedOnce` speaks of linked entries.
* An edit that read the rule before its pause or cancellation writes it back as active
  (`repositories/recurrences.ts:775`). `OnlyStaleEditsReactivate` names this case, beside a
  resume, and excludes every other.
* A pause of a cancelled rule makes it paused, and the page offers to resume what is paused
  (`packages/domain/src/recurrences.ts:373`): no handler asks for the old status.
  `OnlyStaleEditsReactivate` therefore speaks of becoming active, not of staying cancelled.
* A generation that read the rule before a pause or a cancellation books its
  occurrences after it.
* A purchase that overlaps a closing opens the invoice again (operations purchase
  and close, `AlwaysOverlap`; `ImplementsContract`).
* An edit changes the invoice's total and leaves the planned payment as it was
  (`card-invoice-contracts-core.ts:470`), and so does a move: only a purchase refreshes
  the forecast.
* A claim that finds its conversation expired writes the expiry and throws in the same
  transaction, which rolls it back (`financial-assistant-repository.ts:194`).
* A message in flight in one profile reads its conversation again and by that expires the
  conversation the user opened in another profile (`financial-assistant-service.ts:226`).
* The recount at the end of `approve-selected` and of `detect-duplicates` writes what it
  counted over a batch that was discarded meanwhile (`repositories/imports.ts:881`,
  `2062`): its lines are rejected, its status says otherwise. `DiscardedHasNoEffect`
  speaks of batches whose status is `discarded`.
* A candidate decision may confirm a target that a whole-row update is about to
  overwrite; `ChangeEntry` changes a transaction in one step.
* Two *first* imports of rates with separate periods, both of which read an empty
  table before the lock, can leave a gap for good
  (`account-remuneration-service.ts:248`). `Init` has one rate.
* An administrator's processing for a date to come settles competences whose day is not
  over, from the balance at that moment (`account-remuneration-service.ts:340-343`).
* A logout with a token that a renewal has just replaced revokes nothing.
* An update of an entry without a group writes the status it read: a
  reconciliation meanwhile is undone and an entry voided meanwhile lives again
  (`repositories/transactions.ts:328`, `412`). In `TransactionGroups` these are steps of
  `EntryCommit`; no property forbids them, and no document promises otherwise.
* The update of future planned occurrences lists them without a lock and writes them
  by id: one posted meanwhile loses its effective date (`repositories/transactions.ts:645`).
* Voiding an entry that an invoice names as its payment leaves the invoice paid.

## 4. What is proved

`CardInvoicesProofs`, for every set of requests and periods, every number of
installments, every plan and every `MayOverlap`: any two requests may overlap.
They rest on the ASSUMEs of `CardInvoices` alone (ids differ from `None`, periods are
integers, amounts, starts and lengths of plans are positive); the last two, which add up
amounts, assume also that there are finitely many requests (`FiniteRequests`).

* `TypeCorrect`: `Spec => []TypeOK`. `TypeOK` is not inductive: that a request
  past its beginning has a real input and that the shares of its plan are among
  the installments (`TypeInv` = `TypeOK`, `InputAsked`, `PlanFits`) are needed for
  `SplitAmount` and the ids of installments to be in their domains.
* `PaymentLinkHolds`: `Spec => []PaymentLink`. A purchase writes the payment it
  *read*, so the invariant must speak of every handler's snapshot.
  `LinkInv` adds that an invoice exists only after the request that minted its
  id has committed (`InvoiceMinted`), that the payment an invoice names was made
  by a request that is done (`PayerDone`), and for each request (`RequestInv`)
  that the invoice it closes or pays exists, that no copy it holds of an open or
  absent invoice names a payment, that what it found is still there, that a
  purchase past its checks bills invoices it read as open or mints its own, and
  that a move which found no destination mints its own. A purchase may reopen
  a paid invoice; the link survives, because it writes the absent payment it
  read together with the status.
* `VoidedIsFinal`: `Spec => VoidedForecastStaysVoided`, from `VoidInv`: a
  forecast exists only after the request that minted its id has committed
  (`ForecastMinted`), so that no purchase in flight inserts over it, and a payment
  voids only forecasts that exist (`VoidsExisting`).
* `InstallmentsCover`: `Spec => []InstallmentsCoverPurchase`. A purchase and its installments
  are inserted in one transaction, and the shares of an amount add up to it (`SharesAddUp`,
  for every amount and number of installments). That no later write undoes this, whatever
  overlaps, is in `CoverInv`: rows are inserted by the request that minted their ids, which is
  then done (`PurchaseMinted`, `InstallmentMinted`), and whoever writes an existing purchase
  read one that was registered by then; an edit that passed its check saw no
  installments, and there will never be any (`WritesRegistered`).

The other five say where a promise ends. The code checks a status before its transaction
and writes without checking again, so none of `SettledOnce`, `OneInvoicePerPeriod`,
`TotalIsSumOfCharges` and `ImplementsContract` is an invariant when any two requests may
overlap. What is true of every overlap is which commits can end them, and the theorems say
it. Their invariant, `ReadInv`, has no fact about what *stays* as it was read, because
nothing does. It says that rows of purchases, installments and payments exist only for
requests that are done, and in invoices that exist (`RowsKnown`), and what each request's own
checks established of its own reads (`HasRead`): a purchase has for each period one of the
invoices it found, or an id of its own; what an edit or a move read had no installments when
that was asked, and is still registered; a payment read an invoice that can be paid.

* `LockedUntilOvertaken`: `Spec => LockedUnlessOvertaken`. A request that writes a closed or
  paid invoice either read it so, and was refused, or is overtaken (`LockedStep`).
* `SecondOnlyWhenOvertaken`: `Spec => SecondInvoiceOnlyWhenOvertaken`. A request mints an invoice
  only for a period in which it found none; if there is one by its commit, it is overtaken.
* `PaidUntilOvertaken`: `Spec => PaymentStandsUnlessOvertaken`, in no run of its own: a payment is
  the one its invoice names, of the invoice's total, from its commit to the commit of a request
  overtaken on that invoice. In `double_payment` the second payment is the one overtaken.
* `TotalKeptUntilMiscounted`: `FiniteRequests /\ Spec => TotalKeptUnlessMiscounted`. The three
  ways of maintaining a total agree: a registration adds its share to the total it read, which
  is the present one unless it is overtaken; an edit adds a difference to the total of the
  moment, whatever others made of it; a move takes an amount from one and adds it to another.
  Closing and payment leave it. `TotalStep` has one case for each.
* `ContractUntilMiscounted`: `FiniteRequests /\ Spec => BooksInOrder /\ Contract!Init /\
  ContractUnlessMiscounted`, in no run of its own: from books in order (one invoice per period, totals
  that are sums) a transaction that is not one of the exceptions is a step of
  `InvoiceContract`, or none, and leaves the books in order. There is one lemma for each step
  of the contract. `ImplementsContract` itself, of whole behaviours, is model-checked in
  `cards_ledger`.

Sums are `SumFunctionOnSet` of the community modules, a fold over a set. What the
proofs need of it (`SumWithout`, `SumSame`, `SumInsert`, `SumRemove`, `SumChange`) is proved from
its definition for all finite sets, without the induction theorems, whose operator parameter
the provers cannot instantiate: `Smallest`, that a nonempty family of subsets of a finite set
has a smallest one, follows from a well-founded ordering of the library, and each proof takes
the smallest counterexample.

Each step lemma has one case per handler; the QED steps of the theorems are
the only temporal ones.

`RecurrenceGenerationProofs`, for every set of requests, every bound on occurrences and every
`MayOverlap`, from the ASSUMEs of `RecurrenceGeneration`:

* `TypeCorrect`: `Spec => []TypeOK`, from `TypeInv`, which adds what a request at
  each step can have asked for.
* `BookedOnce`: `Spec => []OccurrenceBookedOnce`, and `Settled`:
  `Spec => []SettledIsMaterialised`. Neither is inductive: `Progress` says for each
  step of a generation which occurrences it has inserted and which of them it has
  booked. The proof has two halves. A request's own step keeps its `Progress`
  (`OwnStep`). A step of another request leaves its rows alone (`Apart`): an
  insertion because the unique index refuses taken sequence numbers, a withdrawal
  because it is confined to the rows its own request inserted.

* `StoppedUntilOverwritten`: `Spec => OnlyStaleEditsReactivate`. Changes of a rule write the whole
  row they read, and nothing compares it with the one there is. A pause and a cancellation
  never write `active`, and a creation, the only other writer that does, is alone until it has
  written (`CreatesAlone`); what remains is a resume and an edit of a rule it read as active.

Each has one lemma or case per action. Requests may fail, die and interleave in
any way; where a property exempts crashes, so does its theorem.

`TransactionGroupsProofs`, for every set of entries, requests and classes, every
selection, role and order of locking. Assumed: names differ from `None` and from each
other, each order ranks the entries without ties (the code sorts by id, or by date and
then id), and the statement at the beginning has groups that are alike.

* `TypeCorrect`: `Spec => []TypeOK`.
* `GroupsUniform`: `Spec => []GroupIsUniform`, and `TakenWhole`:
  `Spec => SelectionTakenWhole`. `GroupInv` says that what a transaction has read it
  has locked and is still so (`Holds`), that it has read or has still to lock every
  member its group has *now* and every entry selected (`Covers`), and that a group is
  made by a request that is done (`Minted`). Entries join a group only when it is
  made, so `Covers` cannot be broken from outside; that is the lemma `Apart`, which
  says what a step of one request leaves to the others. The stale write of a single
  entry is stopped by the trigger alone.
* `NoLockLeft`: `Spec => []LockedByLiving`: every way a transaction ends gives its locks
  back. `SomebodyGoesOn`: `FiniteRequests /\ Spec => []NeverStuck`: while a request is at
  work, one of them can take a step (`CanGoOn`, the guards of `Work`), or there is a cycle
  for the deadlock detector. This is the part of `RequestsEnd` that is safety, for any
  number of requests. `LockInv` says which locks a handler can have at each stage, so that
  none waits for itself (an ungrouping takes its group last, the others theirs first), and
  the smallest of the sets that wait for one another is the cycle. In no run of their own.

`AuthenticationProofs`, for every set of attempts, callbacks, requests, users and
identities, and every lifetime. Assumed: lifetimes are positive, registered emails
differ, users are a finite set.

* `OneSession`: `Spec => []OneSessionPerLogin`. A session belongs to a callback that is
  done, out of a consumed attempt (`LoggedIn`), every consumed attempt has one
  (`ConsumedForSession`) and no two share one (`NoTwoSessions`).
* `DisabledIsOut`: `Spec => []DisabledHasNoSession`: who a callback has found is
  active until it ends, because it holds the row (`HeldIsActive`).
* `OneAccount`: `Spec => []OneAccountPerPerson`, which is inductive given the types: the
  unique indexes and the trigger on linked identities are part of the last step.
* `StaysRevoked`: `Spec => RevocationStands`.

`AssistantProofs`, for every set of requests, profiles, keys and questions, every
duration of a conversation and of a lease, and every number of consent checks and
retries. Assumed: the lease and the number of consent checks are positive, and `None`
is no value of the model.

* `TypeCorrect`: `Spec => []TypeOK`, which is defined beside the proof.
* `OneContext`: `Spec => []OneOpenContext`. Between the search and the insertion the
  request holds the advisory lock, and nothing of the profile that it did not see is
  alive (`InScope`).
* `OneTurn`: `Spec => []OneTurnPerKey`.
* `ProcessingFenced`: `Spec => []ProcessingIsFenced`, `InTime`: `Spec =>
  []AnsweredInTime` and `LateIsFenced`: `Spec => LateAnswerIsFenced`. `Fence` says what
  the version is for: from its claim to its finalization a request has a turn, and as
  long as the conversation has the version of the claim and is not closed, that turn
  is the one being processed. `Timely` says that after the last reading of the
  conversation neither it nor the lease has expired by the time *sampled*;
  `OneProcessing` relates the turn's start to the conversation's last write, which
  makes the lease of one the lease of the other.

`RemunerationProofs`, for every number of instances, administrators, accounts and
days, every window, with outages or without.

* `TypeCorrect`: `Spec => []TypeOK`, defined beside the proof; in it, that no rate is
  stored that was not published.
* `NoGaps`: `Spec => []RatesWithoutGaps`. An import starts right after a rate that is
  stored, and stored rates are never removed (`Holds`); so what it stores extends the
  stored rates without a hole whatever others stored meanwhile (`FilledBelow`).
* `NothingTwice`: `Spec => []WritesNothingTwice`: the lock is held from the list of
  pending competences to the write.
* `EarlyOnRequest`: `Spec => OnlyRequestsSettleEarly`, in no run of its own: what is settled
  is a day whose rate is stored, and a day that is over unless an administrator's request
  gave a later date. The dates a scheduler works with are never after its today, though
  it reads them long before it writes (`Dated`).

`ImportReviewProofs`, for every number of requests, batches, lines and transactions.
Assumed: contents have a movement, ids of lines, transactions and requests differ.

* `TypeCorrect`: `Spec => []TypeOK`, defined beside the proof.
* `OneEffect`: `Spec => []OneEffectPerLine`, `DiscardIsClean`: `Spec =>
  []DiscardedHasNoEffect`, `QueueIsClean`: `Spec => []NothingLeftToReview`. What they need
  is in `Relies`: which locks a request holds at each of its steps, in either order of
  taking them, and what it has read under them.
* `ApprovedWasSeen`: `Spec => ApprovedAsSeen`, from the fingerprint compared under the
  line's lock (`AsSeen`).
* `CountedOnce`: `Spec => TransferCountedOnce`: an approval that creates a transfer holds
  the transfer's advisory lock, and since it searched no other line's transaction
  has appeared that it could have joined (`NoneToJoin`).
* `DeadlocksAreOfBothOrders`: `Spec => []DeadlockTakesBothOrders`, in no run of its own.
  Whatever the number of requests, in every set of them that wait for one another one came
  from the queue or decides on a candidate (line first) and one from the page of the batch
  or a discard (batch first): either order alone could not deadlock. The transfer's advisory
  lock and the locked rows of the ledger are in no cycle, because whoever holds one waits
  for nothing (`Orderly`).

`InvoiceCalendarProofs`, for every closing and due day of a card, every date a walk can start
from, and every number of installments. Assumed: days of a card are within 1..31 (the code
refuses others) and the first day is a date.

* `PeriodsAlwaysTile`: `Spec => PeriodsTile`, `MovesFind`: `Spec => []MoveFindsPeriod`,
  `DueIsFirst`: `Spec => []DueIsFirstDueDay` and `SharesConsecutive`: `Spec =>
  []SharesInConsecutivePeriods`. The invariant is only that the day is a date; the work is in
  the lemmas. `Rank` orders dates by months and then by days, and `NextDay` is the successor
  in that order (`NextDayIsNext`). `addMonths` counts months, `year * 12 + month`, forwards and
  backwards (`MonthsOn`). Closings grow with their months (`ClosingOrder`), so that each date
  lies between exactly one closing and the one before it (`EndIs`, `EndUnique`), and every date of
  that stretch has the same period (`PeriodOfDates`). A share of a purchase is billed in its
  month or the next (`ShareMonth`), and in months with a closing day before the 28th it is
  the same for all shares (`LateOrNot`).

Every inductive invariant above was checked by TLC on the instances of section 3
before it was proved.

Only model-checked is liveness: `TurnSettles`, `GenerationSettles`,
`EveryCompetenceSettled`, `AttemptsSettle`, `RequestsEnd`. The prover has no rule for fairness
over `ENABLED`. Only model-checked, too, are the three properties of `cards_ledger` that need
purchases, closings and payments to take turns, which nothing in the code makes them do:
`OneForecastPerInvoice`, `PaidLeavesNoForecast` and `ImplementsContract`. Every other
invariant and action property of the passing runs is a theorem.

## 5. What is not modelled, and the plan

1. Recurring edits: the scope `recurrence_and_future_pending`
   (`repositories/recurrences.ts:541-711`) and the edits of this and the following
   occurrences, composed with `RecurrenceGeneration`.
2. Transactions: creation, transfers, the update of future planned occurrences, and
   the effect on invoices that name the row, composed with `CardInvoices`;
   `TransactionGroups` would then replace `ChangeEntry` of `ImportReview`.
3. `ManualInstallments`: creation under an idempotency key.

Left aside: aggregations that only read (budgets, reports, dashboard,
projections), parsing (OFX, documents, bank messages), scores (categorization,
deduplication), the web client, and plain record keeping. They keep no state that
requests race on, or none beyond a single statement.
