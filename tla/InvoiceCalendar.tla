--------------------------- MODULE InvoiceCalendar ---------------------------
(***************************************************************************)
(* The calendar of a card: which billing period a purchase belongs to, when *)
(* the bill of that period is due, in which periods the later installments *)
(* of the purchase fall, and to which period and date a purchase is moved. *)
(* The functions are those of the domain package; the behaviour only walks *)
(* through the days on which a card can be used, so that a step relates    *)
(* what the functions say of one day to what they say of the next.         *)
(*                                                                         *)
(* A date is <<year, month, day>>.  The code compares ISO strings, which   *)
(* order dates as Rank does.                                               *)
(***************************************************************************)
EXTENDS Integers, Sequences

CONSTANTS
  ClosingDays,  \* closing days a card may have, within 1..31
  DueDays,      \* due days a card may have, within 1..31
  FirstDay,     \* the days walked through
  LastDay,
  MaxOffset     \* the largest offset of an installment looked at

ASSUME DaysAssumption == ClosingDays \subseteq 1..31 /\ DueDays \subseteq 1..31
ASSUME MaxOffsetAssumption == MaxOffset \in Nat

VARIABLES
  card,   \* closingDay and dueDay of the card
  today   \* the day of the purchase

vars == <<card, today>>

-----------------------------------------------------------------------------
(* Dates.                                                                  *)

Year(date)  == date[1]
Month(date) == date[2]
Day(date)   == date[3]

Rank(date) == 372 * Year(date) + 31 * Month(date) + Day(date)

Leap(y) == y % 4 = 0 /\ (y % 100 # 0 \/ y % 400 = 0)

\* Date.UTC(year, month, 0).getUTCDate()
LastDayOfMonth(y, m) ==
  CASE m \in {4, 6, 9, 11} -> 30
    [] m = 2               -> IF Leap(y) THEN 29 ELSE 28
    [] OTHER               -> 31

\* What a date column of the database holds; the code itself asks only that a date
\* be given (validateDate).
IsDate(date) ==
  /\ date = <<Year(date), Month(date), Day(date)>>
  /\ Year(date) \in Int /\ Month(date) \in 1..12
  /\ Day(date) \in 1..LastDayOfMonth(Year(date), Month(date))

ASSUME FirstDayAssumption == IsDate(FirstDay)

\* addDays(date, 1)
NextDay(date) ==
  LET y == Year(date)  m == Month(date)
  IN  IF Day(date) < LastDayOfMonth(y, m) THEN <<y, m, Day(date) + 1>>
      ELSE IF m < 12 THEN <<y, m + 1, 1>>
      ELSE <<y + 1, 1, 1>>

ClampDay(y, m, d) ==
  IF d <= LastDayOfMonth(y, m) THEN d ELSE LastDayOfMonth(y, m)

\* Mutant: the day is kept although the month is shorter.
AddMonthsUnclamped(y, m, d, months) ==
  <<y + ((m - 1 + months) \div 12), ((m - 1 + months) % 12) + 1, d>>

\* \div and % round as Math.floor and the code's ((i % 12) + 12) % 12 do.
AddMonths(y, m, d, months) ==
  LET ty == y + ((m - 1 + months) \div 12)
      tm == ((m - 1 + months) % 12) + 1
  IN  <<ty, tm, ClampDay(ty, tm, d)>>

-----------------------------------------------------------------------------
(* Billing periods.                                                        *)

\* Mutant: a due day equal to the closing date counts.
DueOnOrAfter(end, dueDay) ==
  LET y == Year(end)  m == Month(end)
      this == <<y, m, ClampDay(y, m, dueDay)>>
  IN  IF Rank(this) >= Rank(end) THEN this ELSE AddMonths(y, m, dueDay, 1)

DueOnAfter(end, dueDay) ==
  LET y == Year(end)  m == Month(end)
      this == <<y, m, ClampDay(y, m, dueDay)>>
  IN  IF Rank(this) > Rank(end) THEN this ELSE AddMonths(y, m, dueDay, 1)

PeriodEnd(c, date) ==
  LET y == Year(date)  m == Month(date)
      closing == ClampDay(y, m, c.closingDay)
  IN  IF Day(date) <= closing THEN <<y, m, closing>>
      ELSE AddMonths(y, m, c.closingDay, 1)

\* Mutant: one month before the end, instead of before the closing day.
PeriodStartFromEnd(c, end) ==
  NextDay(AddMonths(Year(end), Month(end), Day(end), -1))

\* The day after the previous closing.
PeriodStart(c, end) ==
  NextDay(AddMonths(Year(end), Month(end), c.closingDay, -1))

InvoicePeriod(c, date) ==
  LET end == PeriodEnd(c, date)
  IN  [start |-> PeriodStart(c, end), end |-> end,
       due |-> DueOnAfter(end, c.dueDay)]

\* The period of the installment `offset` months after the purchase.
InstallmentPeriod(c, date, offset) ==
  InvoicePeriod(c, AddMonths(Year(date), Month(date), Day(date), offset))

\* resolveDestinationPeriod: a move names the month in which a bill closes.
DestinationPeriod(c, y, m) == InvoicePeriod(c, <<y, m, ClampDay(y, m, c.closingDay)>>)

\* Mutant: the day of the purchase in the closing month, wherever that is.
MovedDateUnbounded(date, period) ==
  LET y == Year(period.end)  m == Month(period.end)
  IN  <<y, m, ClampDay(y, m, Day(date))>>

\* resolveMovedPurchaseDate
MovedDate(date, period) ==
  LET y == Year(period.end)  m == Month(period.end)
      candidate == <<y, m, ClampDay(y, m, Day(date))>>
  IN  CASE Rank(candidate) < Rank(period.start) -> period.start
        [] Rank(candidate) > Rank(period.end)   -> period.end
        [] OTHER                                -> candidate

-----------------------------------------------------------------------------
Init ==
  /\ card \in [closingDay : ClosingDays, dueDay : DueDays]
  /\ today = FirstDay

Tomorrow ==
  /\ Rank(today) < Rank(LastDay)
  /\ today' = NextDay(today)
  /\ UNCHANGED card

Next == Tomorrow

Spec == Init /\ [][Next]_vars

-----------------------------------------------------------------------------
Within(date, period) ==
  Rank(period.start) <= Rank(date) /\ Rank(date) <= Rank(period.end)

\* Periods tile the calendar: a day lies in its own period, and the period of
\* the next day is the same one or starts on the day after its end, also where
\* a closing day is clamped to a short month (calculateInvoicePeriod).
PeriodsTile ==
  [][LET old == InvoicePeriod(card, today)
         new == InvoicePeriod(card, today')
     IN  /\ Within(today, old) /\ Within(today', new)
         /\ IF today = old.end THEN new.start = NextDay(old.end) ELSE new = old]_vars

\* The due days of two years: in every month the due day of the card, or the
\* month's last day if the month is shorter.
DueDaysFrom(year) ==
  {<<y, m, ClampDay(y, m, card.dueDay)>> : y \in {year, year + 1}, m \in 1..12}

\* A bill is due on the first due day after it closes, never on the day it
\* closes and never skipping a month (calculateDueOnAfter).
DueIsFirstDueDay ==
  LET period == InvoicePeriod(card, today)
      later  == {date \in DueDaysFrom(Year(period.end)) : Rank(date) > Rank(period.end)}
  IN  /\ period.due \in later
      /\ \A date \in later : Rank(period.due) <= Rank(date)

\* Number of months between two bills, by the months they close in.
MonthsBetween(p, q) ==
  12 * (Year(q.end) - Year(p.end)) + Month(q.end) - Month(p.end)

\* Installments are billed one per period, in consecutive periods, unless the
\* purchase is made after a closing day of 28 or more; even then none is billed
\* before an earlier one, and no more than one period is left out or doubled
\* (registerCardPurchase, which applies addMonths to the purchase's date).
SharesInConsecutivePeriods ==
  \A k \in 0..(MaxOffset - 1) :
    LET gap == MonthsBetween(InstallmentPeriod(card, today, k),
                             InstallmentPeriod(card, today, k + 1))
    IN  IF Day(today) <= card.closingDay \/ card.closingDay < 28
          THEN gap = 1 ELSE gap \in 0..2

\* The month in which a bill closes names its period: a move to that month
\* finds the very period a purchase was billed in, and the date a moved purchase
\* gets is billed in the destination, whatever day the purchase was made on.
MoveFindsPeriod ==
  LET period == InvoicePeriod(card, today)
  IN  /\ DestinationPeriod(card, Year(period.end), Month(period.end)) = period
      /\ \A k \in 0..MaxOffset :
           LET to == AddMonths(Year(period.end), Month(period.end), 1, k)
               destination == DestinationPeriod(card, Year(to), Month(to))
           IN  InvoicePeriod(card, MovedDate(today, destination)) = destination

=============================================================================
