------------------------ MODULE InvoiceCalendarProofs ------------------------
(***************************************************************************)
(* Theorems about InvoiceCalendar for every closing and due day, every     *)
(* date and every number of installments.                                  *)
(*                                                                         *)
(*   PeriodsAlwaysTile  Spec => PeriodsTile                                *)
(*   MovesFind          Spec => []MoveFindsPeriod                          *)
(*   DueIsFirst         Spec => []DueIsFirstDueDay                         *)
(*   SharesConsecutive  Spec => []SharesInConsecutivePeriods               *)
(*                                                                         *)
(* Rank embeds the dates in the integers and NextDay is the successor in   *)
(* that order. Closings grow with the months, so that a date lies between  *)
(* exactly one closing and the one before it, which makes its period; the  *)
(* theorems are read off that.                                             *)
(***************************************************************************)
EXTENDS InvoiceCalendar, TLAPS

-----------------------------------------------------------------------------
(* Months.                                                                 *)

\* Every card there can be, and the months after and before a month.
Cards == [closingDay : ClosingDays, dueDay : DueDays]

NextY(y, m) == IF m = 12 THEN y + 1 ELSE y
NextM(m)    == IF m = 12 THEN 1 ELSE m + 1
PrevY(y, m) == IF m = 1 THEN y - 1 ELSE y
PrevM(m)    == IF m = 1 THEN 12 ELSE m - 1

\* Months have 28 to 31 days.
LEMMA Lengths ==
  ASSUME NEW y \in Int, NEW m \in 1..12 PROVE LastDayOfMonth(y, m) \in 28..31
BY DEF LastDayOfMonth

\* A day clamped to a month is a day of the month, earlier only if the month is
\* shorter.
LEMMA Clamped ==
  ASSUME NEW y \in Int, NEW m \in 1..12, NEW d \in 1..31
  PROVE  /\ ClampDay(y, m, d) \in 1..LastDayOfMonth(y, m) /\ ClampDay(y, m, d) \in 1..31
         /\ ClampDay(y, m, d) <= d
         /\ d <= 28 => ClampDay(y, m, d) = d
         /\ d > 28 => ClampDay(y, m, d) >= 28
BY Lengths DEF ClampDay

\* The clamping keeps the order of days.
LEMMA ClampOrder ==
  ASSUME NEW y \in Int, NEW m \in 1..12, NEW d \in 1..31, NEW e \in 1..31, d <= e
  PROVE  ClampDay(y, m, d) <= ClampDay(y, m, e)
BY Lengths DEF ClampDay

\* What the provers need to know of the two operators of AddMonths.
LEMMA Remainder  == ASSUME NEW a \in Int PROVE a % 12 \in 0..11 OBVIOUS
LEMMA Quotient   == ASSUME NEW a \in Int PROVE a \div 12 \in Int OBVIOUS
LEMMA Division   == ASSUME NEW a \in Int PROVE a = 12 * (a \div 12) + (a % 12) OBVIOUS

\* addMonthsParts counts months across years, forwards and backwards.
LEMMA MonthsOn ==
  ASSUME NEW y \in Int, NEW m \in 1..12, NEW d \in 1..31, NEW k \in Int
  PROVE  \E ty \in Int, tm \in 1..12 :
           /\ 12 * ty + tm = 12 * y + m + k
           /\ AddMonths(y, m, d, k) = <<ty, tm, ClampDay(ty, tm, d)>>
<1> DEFINE a == (m - 1 + k) \div 12
           b == (m - 1 + k) % 12
<1>1. a \in Int BY Quotient
<1>2. b \in 0..11 BY Remainder
<1>3. m - 1 + k = 12 * a + b BY Division
<1>4. AddMonths(y, m, d, k) = <<y + a, b + 1, ClampDay(y + a, b + 1, d)>>
  BY DEF AddMonths
<1> HIDE DEF a, b
<1>5. y + a \in Int /\ b + 1 \in 1..12 /\ 12 * (y + a) + (b + 1) = 12 * y + m + k
  BY <1>1, <1>2, <1>3
<1> QED BY <1>4, <1>5

\* In particular to the next month, and back to the last.
LEMMA MonthOn ==
  ASSUME NEW y \in Int, NEW m \in 1..12, NEW d \in 1..31
  PROVE  /\ AddMonths(y, m, d, 1) = <<NextY(y, m), NextM(m), ClampDay(NextY(y, m), NextM(m), d)>>
         /\ AddMonths(y, m, d, -1) = <<PrevY(y, m), PrevM(m), ClampDay(PrevY(y, m), PrevM(m), d)>>
<1>0. \A k \in Int : \E ty \in Int, tm \in 1..12 :
        /\ 12 * ty + tm = 12 * y + m + k
        /\ AddMonths(y, m, d, k) = <<ty, tm, ClampDay(ty, tm, d)>>
  BY MonthsOn
<1>1. PICK ty \in Int, tm \in 1..12 :
        /\ 12 * ty + tm = 12 * y + m + 1
        /\ AddMonths(y, m, d, 1) = <<ty, tm, ClampDay(ty, tm, d)>>
  <2>1. 1 \in Int OBVIOUS
  <2> QED BY <1>0, <2>1, Zenon
<1>2. ty = NextY(y, m) /\ tm = NextM(m) BY <1>1 DEF NextY, NextM
<1>3. PICK sy \in Int, sm \in 1..12 :
        /\ 12 * sy + sm = 12 * y + m + (-1)
        /\ AddMonths(y, m, d, -1) = <<sy, sm, ClampDay(sy, sm, d)>>
  <2>1. -1 \in Int OBVIOUS
  <2> QED BY <1>0, <2>1, Zenon
<1>4. sy = PrevY(y, m) /\ sm = PrevM(m) BY <1>3 DEF PrevY, PrevM
<1> QED BY <1>1, <1>2, <1>3, <1>4

\* Going on and back leads home, and counts months.
LEMMA MonthTypes ==
  ASSUME NEW y \in Int, NEW m \in 1..12
  PROVE  /\ NextY(y, m) \in Int /\ NextM(m) \in 1..12
         /\ PrevY(y, m) \in Int /\ PrevM(m) \in 1..12
         /\ PrevY(NextY(y, m), NextM(m)) = y /\ PrevM(NextM(m)) = m
         /\ 12 * NextY(y, m) + NextM(m) = 12 * y + m + 1
         /\ 12 * PrevY(y, m) + PrevM(m) = 12 * y + m - 1
BY DEF NextY, NextM, PrevY, PrevM

-----------------------------------------------------------------------------
(* Dates.                                                                  *)

\* The parts of a date.
LEMMA Parts ==
  ASSUME NEW y, NEW m, NEW d
  PROVE  Year(<<y, m, d>>) = y /\ Month(<<y, m, d>>) = m /\ Day(<<y, m, d>>) = d
BY DEF Year, Month, Day

\* A date's parts are those of a calendar, and its rank goes by months, then by days.
LEMMA DateParts ==
  ASSUME NEW date, IsDate(date)
  PROVE  /\ Year(date) \in Int /\ Month(date) \in 1..12 /\ Day(date) \in 1..31
         /\ Day(date) <= LastDayOfMonth(Year(date), Month(date))
         /\ date = <<Year(date), Month(date), Day(date)>>
         /\ Rank(date) \in Int
         /\ Rank(date) = 31 * (12 * Year(date) + Month(date)) + Day(date)
<1>1. LastDayOfMonth(Year(date), Month(date)) \in 28..31 BY Lengths DEF IsDate
<1>2. Year(date) \in Int /\ Month(date) \in 1..12 /\ Day(date) \in 1..31
      /\ Day(date) <= LastDayOfMonth(Year(date), Month(date))
  BY <1>1 DEF IsDate
<1>3. Rank(date) = 372 * Year(date) + 31 * Month(date) + Day(date) BY DEF Rank
<1> QED BY <1>2, <1>3 DEF IsDate

\* A clamped day is a date.
LEMMA ClampedDate ==
  ASSUME NEW y \in Int, NEW m \in 1..12, NEW d \in 1..31
  PROVE  /\ IsDate(<<y, m, ClampDay(y, m, d)>>)
         /\ Rank(<<y, m, ClampDay(y, m, d)>>) = 31 * (12 * y + m) + ClampDay(y, m, d)
<1> DEFINE day  == ClampDay(y, m, d)
           date == <<y, m, day>>
<1>1. day \in 1..LastDayOfMonth(y, m) BY Clamped
<1>2. Year(date) = y /\ Month(date) = m /\ Day(date) = day BY Parts
<1> HIDE DEF day
<1>3. IsDate(date) BY <1>1, <1>2 DEF IsDate
<1>4. Rank(date) = 31 * (12 * y + m) + day BY <1>2, <1>3, DateParts
<1> QED BY <1>3, <1>4 DEF day

\* Two dates of one rank are the same date.
LEMMA RankInjective ==
  ASSUME NEW a, NEW b, IsDate(a), IsDate(b), Rank(a) = Rank(b) PROVE a = b
<1>1. /\ Year(a) \in Int /\ Month(a) \in 1..12 /\ Day(a) \in 1..31
      /\ Year(b) \in Int /\ Month(b) \in 1..12 /\ Day(b) \in 1..31
      /\ 31 * (12 * Year(a) + Month(a)) + Day(a) = 31 * (12 * Year(b) + Month(b)) + Day(b)
      /\ a = <<Year(a), Month(a), Day(a)>> /\ b = <<Year(b), Month(b), Day(b)>>
  BY DateParts
<1>2. 12 * Year(a) + Month(a) = 12 * Year(b) + Month(b)
  <2> DEFINE i == 12 * Year(a) + Month(a)
             j == 12 * Year(b) + Month(b)
  <2>1. i \in Int /\ j \in Int BY <1>1
  <2>2. 31 * i + Day(a) = 31 * j + Day(b) BY <1>1
  <2> HIDE DEF i, j
  <2>3. i = j BY <1>1, <2>1, <2>2
  <2> QED BY <2>3 DEF i, j
<1>3. Year(a) = Year(b) /\ Month(a) = Month(b) BY <1>1, <1>2
<1>4. Day(a) = Day(b) BY <1>1, <1>2
<1> QED BY <1>1, <1>3, <1>4

\* addDays(date, 1) is the next date in that order.
LEMMA NextDayIsNext ==
  ASSUME NEW date, IsDate(date)
  PROVE  /\ IsDate(NextDay(date)) /\ Rank(date) < Rank(NextDay(date))
         /\ \A e : IsDate(e) /\ Rank(date) < Rank(e) => Rank(NextDay(date)) <= Rank(e)
<1> DEFINE y == Year(date)
           m == Month(date)
           d == Day(date)
           n == LastDayOfMonth(y, m)
<1>1. y \in Int /\ m \in 1..12 /\ d \in 1..n /\ n \in 28..31
      /\ Rank(date) = 31 * (12 * y + m) + d
  BY DateParts, Lengths
<1>2. ASSUME NEW e, IsDate(e), Rank(date) < Rank(e)
      PROVE  \/ 12 * Year(e) + Month(e) >= 12 * y + m + 1
             \/ Year(e) = y /\ Month(e) = m /\ Day(e) >= d + 1 /\ Day(e) <= n
  <2>1. /\ Year(e) \in Int /\ Month(e) \in 1..12 /\ Day(e) \in 1..31
        /\ Day(e) <= LastDayOfMonth(Year(e), Month(e))
        /\ Rank(e) = 31 * (12 * Year(e) + Month(e)) + Day(e)
    BY <1>2, DateParts
  <2> HIDE DEF y, m, d
  <2>2. CASE 12 * Year(e) + Month(e) = 12 * y + m
    <3>1. Year(e) = y /\ Month(e) = m BY <1>1, <2>1, <2>2
    <3> QED BY <1>1, <1>2, <2>1, <3>1
  <2> QED BY <1>1, <1>2, <2>1, <2>2
<1>3. CASE d < n
  <2>1. NextDay(date) = <<y, m, d + 1>> BY <1>3 DEF NextDay
  <2>2. IsDate(NextDay(date)) /\ Rank(NextDay(date)) = 31 * (12 * y + m) + d + 1
    BY <1>1, <1>3, <2>1, Parts, DateParts DEF IsDate
  <2>3. ASSUME NEW e, IsDate(e), Rank(date) < Rank(e) PROVE Rank(NextDay(date)) <= Rank(e)
    <3>1. /\ Year(e) \in Int /\ Month(e) \in 1..12 /\ Day(e) \in 1..31
          /\ Rank(e) = 31 * (12 * Year(e) + Month(e)) + Day(e)
      BY <2>3, DateParts
    <3>2. \/ 12 * Year(e) + Month(e) >= 12 * y + m + 1
          \/ Year(e) = y /\ Month(e) = m /\ Day(e) >= d + 1
      BY <1>2, <2>3
    <3> HIDE DEF y, m, d
    <3> QED BY <1>1, <2>2, <3>1, <3>2
  <2> QED BY <1>1, <2>2, <2>3
<1>4. CASE ~(d < n)
  <2>1. NextDay(date) = <<NextY(y, m), NextM(m), 1>>
    BY <1>1, <1>4 DEF NextDay, NextY, NextM
  <2>2. /\ NextY(y, m) \in Int /\ NextM(m) \in 1..12
        /\ LastDayOfMonth(NextY(y, m), NextM(m)) \in 28..31
        /\ 12 * NextY(y, m) + NextM(m) = 12 * y + m + 1
    BY <1>1, MonthTypes, Lengths
  <2>3. IsDate(NextDay(date)) BY <2>1, <2>2, Parts DEF IsDate
  <2>4. Rank(NextDay(date)) = 31 * (12 * y + m + 1) + 1 BY <2>1, <2>2, <2>3, Parts, DateParts
  <2>5. ASSUME NEW e, IsDate(e), Rank(date) < Rank(e) PROVE Rank(NextDay(date)) <= Rank(e)
    <3>1. /\ Year(e) \in Int /\ Month(e) \in 1..12 /\ Day(e) \in 1..31
          /\ Rank(e) = 31 * (12 * Year(e) + Month(e)) + Day(e)
      BY <2>5, DateParts
    <3>2. \/ 12 * Year(e) + Month(e) >= 12 * y + m + 1
          \/ Day(e) >= d + 1 /\ Day(e) <= n
      BY <1>2, <2>5
    <3> HIDE DEF y, m, d, n
    <3> QED BY <1>1, <1>4, <2>4, <3>1, <3>2
  <2> QED BY <1>1, <1>4, <2>3, <2>4, <2>5
<1> QED BY <1>3, <1>4

-----------------------------------------------------------------------------
(* Closing dates.                                                          *)

\* The card's closing date in a month, and in the month before.
Closing(c, y, m) == <<y, m, ClampDay(y, m, c.closingDay)>>
Previous(c, y, m) == Closing(c, PrevY(y, m), PrevM(m))

\* The days of a card are days of some month.
LEMMA CardDays ==
  ASSUME NEW c \in Cards PROVE c.closingDay \in 1..31 /\ c.dueDay \in 1..31
BY DaysAssumption DEF Cards

\* A card's closing date in a month is a date of that month.
LEMMA ClosingDate ==
  ASSUME NEW c \in Cards, NEW y \in Int, NEW m \in 1..12
  PROVE  /\ IsDate(Closing(c, y, m)) /\ Rank(Closing(c, y, m)) \in Int
         /\ Year(Closing(c, y, m)) = y /\ Month(Closing(c, y, m)) = m
         /\ Rank(Closing(c, y, m)) >= 31 * (12 * y + m) + 1
         /\ Rank(Closing(c, y, m)) <= 31 * (12 * y + m) + 31
<1>1. c.closingDay \in 1..31 BY CardDays
<1>2. /\ IsDate(Closing(c, y, m))
      /\ Rank(Closing(c, y, m)) = 31 * (12 * y + m) + ClampDay(y, m, c.closingDay)
  BY <1>1, ClampedDate DEF Closing
<1>3. ClampDay(y, m, c.closingDay) \in 1..31 BY <1>1, Clamped
<1> QED BY <1>2, <1>3, Parts DEF Closing

\* Later months close later.
LEMMA ClosingOrder ==
  ASSUME NEW c \in Cards, NEW y \in Int, NEW m \in 1..12, NEW z \in Int, NEW n \in 1..12,
         12 * y + m <= 12 * z + n
  PROVE  Rank(Closing(c, y, m)) <= Rank(Closing(c, z, n))
<1> DEFINE i == 12 * y + m
           j == 12 * z + n
<1>1. CASE i = j
  <2>1. y = z /\ m = n BY <1>1
  <2>2. Rank(Closing(c, y, m)) \in Int BY ClosingDate
  <2> QED BY <2>1, <2>2
<1>2. CASE i < j
  <2>1. /\ Rank(Closing(c, y, m)) \in Int /\ Rank(Closing(c, z, n)) \in Int
        /\ Rank(Closing(c, y, m)) <= 31 * i + 31 /\ Rank(Closing(c, z, n)) >= 31 * j + 1
    BY ClosingDate
  <2>2. i \in Int /\ j \in Int OBVIOUS
  <2> HIDE DEF i, j
  <2> QED BY <1>2, <2>1, <2>2
<1> QED BY <1>1, <1>2

\* calculateInvoicePeriod: a purchase is billed at the first closing on or after it.
LEMMA EndIs ==
  ASSUME NEW c \in Cards, NEW date, IsDate(date)
  PROVE  \E y \in Int, m \in 1..12 :
           /\ PeriodEnd(c, date) = Closing(c, y, m)
           /\ Rank(Previous(c, y, m)) < Rank(date) /\ Rank(date) <= Rank(Closing(c, y, m))
           /\ 12 * y + m = 12 * Year(date) + Month(date)
                + (IF Day(date) <= ClampDay(Year(date), Month(date), c.closingDay) THEN 0 ELSE 1)
<1> DEFINE y == Year(date)
           m == Month(date)
           d == Day(date)
           i == 12 * y + m
           k == ClampDay(y, m, c.closingDay)
<1>1. /\ y \in Int /\ m \in 1..12 /\ d \in 1..31
      /\ Rank(date) = 31 * (12 * y + m) + d /\ c.closingDay \in 1..31
  BY DateParts, CardDays
<1> HIDE DEF y, m, d
<1>2. Rank(Closing(c, y, m)) = 31 * i + k /\ k \in Int
  <2>1. y \in Int /\ m \in 1..12 /\ c.closingDay \in 1..31 BY <1>1
  <2>2. k \in 1..31 BY <2>1, Clamped
  <2>3. Rank(<<y, m, k>>) = 31 * (12 * y + m) + k BY <2>1, ClampedDate
  <2> QED BY <2>2, <2>3 DEF Closing
<1>3. /\ NextY(y, m) \in Int /\ NextM(m) \in 1..12 /\ PrevY(y, m) \in Int /\ PrevM(m) \in 1..12
      /\ PrevY(NextY(y, m), NextM(m)) = y /\ PrevM(NextM(m)) = m
      /\ 12 * NextY(y, m) + NextM(m) = i + 1 /\ 12 * PrevY(y, m) + PrevM(m) = i - 1
  <2>1. y \in Int /\ m \in 1..12 BY <1>1
  <2>2. /\ NextY(y, m) \in Int /\ NextM(m) \in 1..12
        /\ PrevY(y, m) \in Int /\ PrevM(m) \in 1..12
    BY <2>1, MonthTypes
  <2>3. PrevY(NextY(y, m), NextM(m)) = y /\ PrevM(NextM(m)) = m BY <2>1, MonthTypes
  <2>4. 12 * NextY(y, m) + NextM(m) = 12 * y + m + 1 BY <2>1, MonthTypes
  <2>5. 12 * PrevY(y, m) + PrevM(m) = 12 * y + m - 1 BY <2>1, MonthTypes
  <2> QED BY <2>1, <2>2, <2>3, <2>4, <2>5
<1>4. i \in Int /\ Rank(date) = 31 * i + d BY <1>1
<1>5. CASE d <= k
  <2>1. PeriodEnd(c, date) = Closing(c, y, m) BY <1>5 DEF PeriodEnd, Closing, y, m, d
  <2>2. /\ Rank(Previous(c, y, m)) \in Int
        /\ Rank(Previous(c, y, m)) <= 31 * (12 * PrevY(y, m) + PrevM(m)) + 31
    BY <1>3, ClosingDate DEF Previous
  <2>3. Rank(Previous(c, y, m)) <= 31 * (i - 1) + 31 BY <1>3, <2>2
  <2> HIDE DEF i, k
  <2>4. Rank(Previous(c, y, m)) < Rank(date) BY <1>1, <1>4, <2>2, <2>3
  <2>5. Rank(date) <= Rank(Closing(c, y, m)) BY <1>1, <1>2, <1>4, <1>5
  <2>6. i = i + (IF d <= k THEN 0 ELSE 1) BY <1>4, <1>5
  <2> QED BY <1>1, <2>1, <2>4, <2>5, <2>6 DEF y, m, d, i, k
<1>6. CASE ~(d <= k)
  <2>1. PeriodEnd(c, date) = Closing(c, NextY(y, m), NextM(m))
    <3>1. AddMonths(y, m, c.closingDay, 1) = Closing(c, NextY(y, m), NextM(m))
      BY <1>1, MonthOn DEF Closing
    <3> QED BY <1>6, <3>1 DEF PeriodEnd, y, m, d
  <2>2. Previous(c, NextY(y, m), NextM(m)) = Closing(c, y, m) BY <1>3 DEF Previous
  <2>3. /\ Rank(Closing(c, NextY(y, m), NextM(m))) \in Int
        /\ Rank(Closing(c, NextY(y, m), NextM(m)))
             >= 31 * (12 * NextY(y, m) + NextM(m)) + 1
    BY <1>3, ClosingDate
  <2>4. Rank(Closing(c, NextY(y, m), NextM(m))) >= 31 * (i + 1) + 1 BY <1>3, <2>3
  <2> HIDE DEF i, k
  <2>5. Rank(Previous(c, NextY(y, m), NextM(m))) < Rank(date)
    BY <1>1, <1>2, <1>4, <1>6, <2>2
  <2>6. Rank(date) <= Rank(Closing(c, NextY(y, m), NextM(m)))
    BY <1>1, <1>4, <2>3, <2>4
  <2>7. 12 * NextY(y, m) + NextM(m) = i + (IF d <= k THEN 0 ELSE 1)
    BY <1>3, <1>6
  <2> QED BY <1>3, <2>1, <2>5, <2>6, <2>7 DEF y, m, d, i, k
<1> QED BY <1>5, <1>6

\* There is one such closing.
LEMMA EndUnique ==
  ASSUME NEW c \in Cards, NEW date, IsDate(date), NEW y \in Int, NEW m \in 1..12,
         Rank(Previous(c, y, m)) < Rank(date), Rank(date) <= Rank(Closing(c, y, m))
  PROVE  PeriodEnd(c, date) = Closing(c, y, m)
<1>1. PICK z \in Int, n \in 1..12 :
        /\ PeriodEnd(c, date) = Closing(c, z, n)
        /\ Rank(Previous(c, z, n)) < Rank(date) /\ Rank(date) <= Rank(Closing(c, z, n))
  BY EndIs
<1>2. /\ PrevY(y, m) \in Int /\ PrevM(m) \in 1..12 /\ 12 * PrevY(y, m) + PrevM(m) = 12 * y + m - 1
      /\ PrevY(z, n) \in Int /\ PrevM(n) \in 1..12 /\ 12 * PrevY(z, n) + PrevM(n) = 12 * z + n - 1
  BY MonthTypes
<1>3. /\ Rank(Closing(c, y, m)) \in Int /\ Rank(Closing(c, z, n)) \in Int
      /\ Rank(Previous(c, y, m)) \in Int /\ Rank(Previous(c, z, n)) \in Int
      /\ Rank(date) \in Int
  BY <1>2, ClosingDate, DateParts DEF Previous
<1>4. ~(12 * y + m < 12 * z + n)
  <2> SUFFICES ASSUME 12 * y + m < 12 * z + n PROVE FALSE OBVIOUS
  <2>1. 12 * y + m <= 12 * PrevY(z, n) + PrevM(n) BY <1>2
  <2>2. Rank(Closing(c, y, m)) <= Rank(Previous(c, z, n))
    BY <1>2, <2>1, ClosingOrder DEF Previous
  <2> QED BY <1>1, <1>3, <2>2
<1>5. ~(12 * z + n < 12 * y + m)
  <2> SUFFICES ASSUME 12 * z + n < 12 * y + m PROVE FALSE OBVIOUS
  <2>1. 12 * z + n <= 12 * PrevY(y, m) + PrevM(m) BY <1>2
  <2>2. Rank(Closing(c, z, n)) <= Rank(Previous(c, y, m))
    BY <1>2, <2>1, ClosingOrder DEF Previous
  <2> QED BY <1>1, <1>3, <2>2
<1>6. y = z /\ m = n BY <1>4, <1>5
<1> QED BY <1>1, <1>6

\* A period starts on the day after the previous closing.
LEMMA StartIs ==
  ASSUME NEW c \in Cards, NEW y \in Int, NEW m \in 1..12
  PROVE  PeriodStart(c, Closing(c, y, m)) = NextDay(Previous(c, y, m))
<1>1. c.closingDay \in 1..31 BY CardDays
<1>2. AddMonths(y, m, c.closingDay, -1) = Previous(c, y, m) BY <1>1, MonthOn DEF Previous, Closing
<1> QED BY <1>2, ClosingDate DEF PeriodStart

\* The first days of the months of a series.
LEMMA FirstsOn ==
  ASSUME NEW y \in Int, NEW m \in 1..12, NEW k \in Int
  PROVE  \E ty \in Int, tm \in 1..12 : AddMonths(y, m, 1, k) = <<ty, tm, ClampDay(ty, tm, 1)>>
<1>1. PICK d \in 1..31 : d = 1 OBVIOUS
<1>2. \E ty \in Int, tm \in 1..12 : AddMonths(y, m, d, k) = <<ty, tm, ClampDay(ty, tm, d)>>
  <2>1. PICK ty \in Int, tm \in 1..12 :
          /\ 12 * ty + tm = 12 * y + m + k
          /\ AddMonths(y, m, d, k) = <<ty, tm, ClampDay(ty, tm, d)>>
    BY MonthsOn, Zenon
  <2> QED BY <2>1, Zenon
<1> QED BY <1>1, <1>2

\* A closing date ends its own period, which begins on the day after the closing before.
LEMMA ClosingEnds ==
  ASSUME NEW c \in Cards, NEW y \in Int, NEW m \in 1..12
  PROVE  /\ Rank(Previous(c, y, m)) < Rank(Closing(c, y, m))
         /\ PeriodEnd(c, Closing(c, y, m)) = Closing(c, y, m)
         /\ InvoicePeriod(c, Closing(c, y, m)).end = Closing(c, y, m)
         /\ InvoicePeriod(c, Closing(c, y, m)).start = NextDay(Previous(c, y, m))
<1> DEFINE end    == Closing(c, y, m)
           before == Previous(c, y, m)
           period == InvoicePeriod(c, end)
<1>1. /\ PrevY(y, m) \in Int /\ PrevM(m) \in 1..12
      /\ 12 * PrevY(y, m) + PrevM(m) = 12 * y + m - 1
  BY MonthTypes
<1>2. IsDate(end) /\ IsDate(before) /\ Rank(end) \in Int /\ Rank(before) \in Int
  BY <1>1, ClosingDate DEF Previous
<1>3. Rank(before) < Rank(end)
  <2>1. Rank(before) <= 31 * (12 * PrevY(y, m) + PrevM(m)) + 31 /\ Rank(end) >= 31 * (12 * y + m) + 1
    BY <1>1, ClosingDate DEF Previous
  <2>2. 31 * (12 * PrevY(y, m) + PrevM(m)) + 31 = 31 * (12 * y + m) BY <1>1
  <2> HIDE DEF end, before
  <2> QED BY <1>2, <2>1, <2>2
<1>4. PeriodEnd(c, end) = end BY <1>2, <1>3, EndUnique
<1>5. period.end = end /\ period.start = NextDay(before)
  BY <1>4, StartIs DEF InvoicePeriod
<1> QED BY <1>3, <1>4, <1>5

\* The dates from one closing, exclusive, to the next are those of a period.
LEMMA PeriodOfDates ==
  ASSUME NEW c \in Cards, NEW date, IsDate(date), NEW y \in Int, NEW m \in 1..12
  PROVE  LET period == InvoicePeriod(c, Closing(c, y, m))
         IN  /\ period.end = Closing(c, y, m) /\ period.start = NextDay(Previous(c, y, m))
             /\ Within(date, period) <=>
                  Rank(Previous(c, y, m)) < Rank(date) /\ Rank(date) <= Rank(Closing(c, y, m))
             /\ Within(date, period) => InvoicePeriod(c, date) = period
             /\ IsDate(period.start) /\ Within(period.start, period)
             /\ IsDate(period.end) /\ Within(period.end, period)
<1> DEFINE end    == Closing(c, y, m)
           before == Previous(c, y, m)
           period == InvoicePeriod(c, end)
<1>1. /\ PrevY(y, m) \in Int /\ PrevM(m) \in 1..12
      /\ 12 * PrevY(y, m) + PrevM(m) = 12 * y + m - 1
  BY MonthTypes
<1>2. IsDate(end) /\ IsDate(before) /\ Rank(end) \in Int /\ Rank(before) \in Int
  BY <1>1, ClosingDate DEF Previous
<1>3. Rank(before) < Rank(end) BY ClosingEnds
<1>4. PeriodEnd(c, end) = end BY ClosingEnds
<1>5. period.end = end /\ period.start = NextDay(before) BY ClosingEnds
<1>6. /\ IsDate(NextDay(before)) /\ Rank(before) < Rank(NextDay(before))
      /\ \A e : IsDate(e) /\ Rank(before) < Rank(e) => Rank(NextDay(before)) <= Rank(e)
      /\ Rank(NextDay(before)) \in Int
  BY <1>2, NextDayIsNext, DateParts
<1>7. ASSUME NEW e, IsDate(e)
      PROVE  Within(e, period) <=> Rank(before) < Rank(e) /\ Rank(e) <= Rank(end)
  <2>1. Rank(e) \in Int BY <1>7, DateParts
  <2> HIDE DEF end, before, period
  <2> QED BY <1>2, <1>5, <1>6, <1>7, <2>1 DEF Within
<1>8. Within(date, period) => InvoicePeriod(c, date) = period
  <2> SUFFICES ASSUME Within(date, period) PROVE InvoicePeriod(c, date) = period OBVIOUS
  <2>1. PeriodEnd(c, date) = end BY <1>7, EndUnique
  <2> QED BY <1>4, <2>1 DEF InvoicePeriod
<1>9. Within(period.start, period) /\ Within(period.end, period)
  <2>1. Rank(NextDay(before)) <= Rank(end) BY <1>2, <1>3, <1>6
  <2>2. Within(NextDay(before), period) BY <1>6, <1>7, <2>1
  <2>3. Within(end, period) BY <1>2, <1>3, <1>7
  <2> HIDE DEF end, before, period
  <2> QED BY <1>5, <2>2, <2>3
<1> HIDE DEF end, before, period
<1>10. /\ period.end = end /\ period.start = NextDay(before)
       /\ Within(date, period) <=> Rank(before) < Rank(date) /\ Rank(date) <= Rank(end)
       /\ Within(date, period) => InvoicePeriod(c, date) = period
       /\ IsDate(period.start) /\ Within(period.start, period)
       /\ IsDate(period.end) /\ Within(period.end, period)
  BY <1>2, <1>5, <1>6, <1>7, <1>8, <1>9
<1> QED BY <1>10 DEF end, before, period

\* Every date has a period, and lies in it.
LEMMA PeriodIs ==
  ASSUME NEW c \in Cards, NEW date, IsDate(date)
  PROVE  \E y \in Int, m \in 1..12 :
           /\ InvoicePeriod(c, date) = InvoicePeriod(c, Closing(c, y, m))
           /\ Within(date, InvoicePeriod(c, Closing(c, y, m)))
           /\ 12 * y + m = 12 * Year(date) + Month(date)
                + (IF Day(date) <= ClampDay(Year(date), Month(date), c.closingDay) THEN 0 ELSE 1)
<1>1. PICK y \in Int, m \in 1..12 :
        /\ Rank(Previous(c, y, m)) < Rank(date) /\ Rank(date) <= Rank(Closing(c, y, m))
        /\ 12 * y + m = 12 * Year(date) + Month(date)
             + (IF Day(date) <= ClampDay(Year(date), Month(date), c.closingDay) THEN 0 ELSE 1)
  BY EndIs
<1>2. Within(date, InvoicePeriod(c, Closing(c, y, m))) BY <1>1, PeriodOfDates
<1>3. InvoicePeriod(c, date) = InvoicePeriod(c, Closing(c, y, m)) BY <1>2, PeriodOfDates
<1> QED BY <1>1, <1>2, <1>3

-----------------------------------------------------------------------------
(* The walk through the days.                                              *)

\* The inductive invariant: the card is a card, and the day a date.
CalendarInv == card \in Cards /\ IsDate(today)

\* The walk starts on a date, goes from date to date, and so is always on one.
LEMMA CalendarInit == Init => CalendarInv
BY FirstDayAssumption DEF Init, CalendarInv, Cards

LEMMA CalendarStep == CalendarInv /\ [Next]_vars => CalendarInv'
BY NextDayIsNext DEF CalendarInv, Next, Tomorrow, vars, IsDate, Cards

LEMMA CalendarAlways == Spec => []CalendarInv
BY CalendarInit, CalendarStep, PTL DEF Spec

-----------------------------------------------------------------------------
(* Periods tile the calendar.                                              *)

\* The ends of a period, and the month it closes in.
LEMMA PeriodEnds ==
  ASSUME NEW c \in Cards, NEW y \in Int, NEW m \in 1..12
  PROVE  /\ InvoicePeriod(c, Closing(c, y, m)).end = Closing(c, y, m)
         /\ InvoicePeriod(c, Closing(c, y, m)).start = NextDay(Previous(c, y, m))
         /\ Year(InvoicePeriod(c, Closing(c, y, m)).end) = y
         /\ Month(InvoicePeriod(c, Closing(c, y, m)).end) = m
<1>1. /\ IsDate(Closing(c, y, m))
      /\ Year(Closing(c, y, m)) = y /\ Month(Closing(c, y, m)) = m
  BY ClosingDate
<1>2. /\ InvoicePeriod(c, Closing(c, y, m)).end = Closing(c, y, m)
      /\ InvoicePeriod(c, Closing(c, y, m)).start = NextDay(Previous(c, y, m))
  BY ClosingEnds
<1> QED BY <1>1, <1>2

\* The periods of a date and of the date after it.
LEMMA TodayTomorrow ==
  ASSUME NEW c \in Cards, NEW date, IsDate(date)
  PROVE  LET old == InvoicePeriod(c, date)
             new == InvoicePeriod(c, NextDay(date))
         IN  /\ Within(date, old) /\ Within(NextDay(date), new)
             /\ IF date = old.end THEN new.start = NextDay(old.end) ELSE new = old
<1> DEFINE old == InvoicePeriod(c, date)
           new == InvoicePeriod(c, NextDay(date))
<1>1. /\ IsDate(NextDay(date)) /\ Rank(date) < Rank(NextDay(date))
      /\ \A e : IsDate(e) /\ Rank(date) < Rank(e) => Rank(NextDay(date)) <= Rank(e)
      /\ Rank(date) \in Int /\ Rank(NextDay(date)) \in Int
  BY NextDayIsNext, DateParts
<1>2. PICK y \in Int, m \in 1..12 :
        /\ old = InvoicePeriod(c, Closing(c, y, m))
        /\ Within(date, InvoicePeriod(c, Closing(c, y, m)))
  BY PeriodIs
<1> DEFINE end == Closing(c, y, m)
<1>3. /\ old.end = end /\ IsDate(end) /\ Rank(end) \in Int /\ Rank(Previous(c, y, m)) \in Int
      /\ Rank(Previous(c, y, m)) < Rank(date) /\ Rank(date) <= Rank(end)
  <2>1. PrevY(y, m) \in Int /\ PrevM(m) \in 1..12 BY MonthTypes
  <2>2. Rank(Previous(c, y, m)) \in Int BY <2>1, ClosingDate DEF Previous
  <2>3. IsDate(end) /\ Rank(end) \in Int BY ClosingDate
  <2>4. old.end = end BY <1>2, PeriodEnds
  <2>5. Rank(Previous(c, y, m)) < Rank(date) /\ Rank(date) <= Rank(end)
    BY <1>2, PeriodOfDates
  <2> QED BY <2>2, <2>3, <2>4, <2>5
<1>4. CASE date = end
  <2>1. /\ NextY(y, m) \in Int /\ NextM(m) \in 1..12
        /\ PrevY(NextY(y, m), NextM(m)) = y /\ PrevM(NextM(m)) = m
        /\ 12 * NextY(y, m) + NextM(m) = 12 * y + m + 1
    BY MonthTypes
  <2> DEFINE next == Closing(c, NextY(y, m), NextM(m))
  <2>2. Previous(c, NextY(y, m), NextM(m)) = end BY <2>1 DEF Previous
  <2>3. IsDate(next) /\ Rank(next) \in Int /\ Rank(end) < Rank(next)
    <3>1. /\ Rank(next) >= 31 * (12 * NextY(y, m) + NextM(m)) + 1
          /\ Rank(end) <= 31 * (12 * y + m) + 31
          /\ IsDate(next) /\ Rank(next) \in Int
      BY <2>1, ClosingDate
    <3>2. 31 * (12 * NextY(y, m) + NextM(m)) = 31 * (12 * y + m) + 31 BY <2>1
    <3> HIDE DEF end, next
    <3> QED BY <1>3, <2>1, <3>1, <3>2
  <2>4. Rank(NextDay(date)) <= Rank(next) BY <1>1, <1>4, <2>3
  <2>5. Within(NextDay(date), InvoicePeriod(c, next))
    BY <1>1, <1>4, <2>1, <2>2, <2>4, PeriodOfDates
  <2>6. new = InvoicePeriod(c, next) BY <1>1, <2>1, <2>5, PeriodOfDates
  <2>7. InvoicePeriod(c, next).start = NextDay(end) BY <2>1, <2>2, PeriodEnds
  <2> HIDE DEF next, end, old, new
  <2> QED BY <1>2, <1>3, <1>4, <2>5, <2>6, <2>7 DEF old, new
<1>5. CASE date # end
  <2>1. Rank(date) # Rank(end) BY <1>3, <1>5, RankInjective
  <2>2. Rank(NextDay(date)) <= Rank(end) BY <1>1, <1>3, <2>1
  <2>3. Rank(Previous(c, y, m)) < Rank(NextDay(date)) BY <1>1, <1>3
  <2>4. Within(NextDay(date), InvoicePeriod(c, Closing(c, y, m)))
    BY <1>1, <2>2, <2>3, PeriodOfDates
  <2>5. new = InvoicePeriod(c, Closing(c, y, m)) BY <1>1, <2>4, PeriodOfDates
  <2> HIDE DEF end, old, new
  <2> QED BY <1>2, <1>3, <1>5, <2>4, <2>5 DEF old, new
<1> QED BY <1>4, <1>5

\* Periods tile the calendar, for every closing day and every date: a day lies in its
\* own period, and the period of the next day is the same one or starts on the day
\* after its end (calculateInvoicePeriod), however short the month.
THEOREM PeriodsAlwaysTile == Spec => PeriodsTile
<1>1. CalendarInv /\ [Next]_vars =>
        [LET old == InvoicePeriod(card, today)
             new == InvoicePeriod(card, today')
         IN  /\ Within(today, old) /\ Within(today', new)
             /\ IF today = old.end THEN new.start = NextDay(old.end) ELSE new = old]_vars
  <2> SUFFICES ASSUME CalendarInv, Tomorrow
               PROVE  LET old == InvoicePeriod(card, today)
                          new == InvoicePeriod(card, today')
                      IN  /\ Within(today, old) /\ Within(today', new)
                          /\ IF today = old.end THEN new.start = NextDay(old.end)
                             ELSE new = old
    BY DEF Next
  <2>1. today' = NextDay(today) BY DEF Tomorrow
  <2> QED BY <2>1, TodayTomorrow DEF CalendarInv
<1> QED BY <1>1, CalendarAlways, PTL DEF Spec, PeriodsTile

-----------------------------------------------------------------------------
(* Moves.                                                                  *)

\* resolveDestinationPeriod finds the period that closes in a month.
LEMMA DestinationIs ==
  ASSUME NEW c \in Cards, NEW y \in Int, NEW m \in 1..12
  PROVE  DestinationPeriod(c, y, m) = InvoicePeriod(c, Closing(c, y, m))
BY DEF DestinationPeriod, Closing

\* resolveMovedPurchaseDate keeps the date within the period.
LEMMA MovedWithin ==
  ASSUME NEW c \in Cards, NEW date, IsDate(date), NEW y \in Int, NEW m \in 1..12
  PROVE  LET period == InvoicePeriod(c, Closing(c, y, m))
         IN  InvoicePeriod(c, MovedDate(date, period)) = period
<1> DEFINE period == InvoicePeriod(c, Closing(c, y, m))
           moved  == MovedDate(date, period)
<1>1. /\ period.end = Closing(c, y, m)
      /\ IsDate(period.start) /\ Within(period.start, period)
      /\ IsDate(period.end) /\ Within(period.end, period)
  <2>1. period.end = Closing(c, y, m) BY PeriodEnds
  <2>2. IsDate(period.start) /\ Within(period.start, period) BY PeriodOfDates
  <2>3. IsDate(period.end) /\ Within(period.end, period) BY PeriodOfDates
  <2> QED BY <2>1, <2>2, <2>3
<1>2. Year(period.end) = y /\ Month(period.end) = m BY PeriodEnds
<1> DEFINE candidate == <<y, m, ClampDay(y, m, Day(date))>>
<1>3. IsDate(candidate) BY DateParts, ClampedDate
<1>4. /\ Rank(candidate) \in Int /\ Rank(period.start) \in Int /\ Rank(period.end) \in Int
  BY <1>1, <1>3, DateParts
<1>5. moved = CASE Rank(candidate) < Rank(period.start) -> period.start
                [] Rank(candidate) > Rank(period.end)   -> period.end
                [] OTHER                                -> candidate
  BY <1>2 DEF MovedDate
<1> HIDE DEF candidate, moved
<1>6. IsDate(moved) /\ Within(moved, period)
  <2>1. CASE Rank(candidate) < Rank(period.start) \/ Rank(candidate) > Rank(period.end)
    <3>1. Rank(period.start) <= Rank(period.end) BY <1>1 DEF Within
    <3>2. moved = period.start \/ moved = period.end
      BY <1>4, <1>5, <2>1, <3>1
    <3> HIDE DEF period
    <3> QED BY <1>1, <3>2
  <2>2. CASE ~(Rank(candidate) < Rank(period.start)) /\ ~(Rank(candidate) > Rank(period.end))
    <3>1. moved = candidate BY <1>5, <2>2
    <3> HIDE DEF period
    <3> QED BY <1>3, <1>4, <2>2, <3>1 DEF Within
  <2> QED BY <2>1, <2>2
<1> QED BY <1>6, PeriodOfDates DEF moved

\* A move to the month in which a bill closes finds that bill's period, and the date it
\* gives the purchase is billed where it was moved to, for every date, every closing
\* day and every month.
THEOREM MovesFind == Spec => []MoveFindsPeriod
<1>1. CalendarInv => MoveFindsPeriod
  <2> SUFFICES ASSUME CalendarInv PROVE MoveFindsPeriod OBVIOUS
  <2> DEFINE period == InvoicePeriod(card, today)
  <2>1. card \in Cards /\ IsDate(today) BY DEF CalendarInv
  <2>2. PICK y \in Int, m \in 1..12 : period = InvoicePeriod(card, Closing(card, y, m))
    BY <2>1, PeriodIs
  <2>3. Year(period.end) = y /\ Month(period.end) = m
    BY <2>1, <2>2, PeriodEnds
  <2>4. DestinationPeriod(card, y, m) = period BY <2>1, <2>2, DestinationIs
  <2>5. ASSUME NEW k \in 0..MaxOffset
        PROVE  LET to == AddMonths(y, m, 1, k)
                   destination == DestinationPeriod(card, Year(to), Month(to))
               IN  InvoicePeriod(card, MovedDate(today, destination)) = destination
    <3>1. k \in Int OBVIOUS
    <3>2. PICK z \in Int, n \in 1..12 : AddMonths(y, m, 1, k) = <<z, n, ClampDay(z, n, 1)>>
      BY <3>1, FirstsOn
    <3>3. Year(AddMonths(y, m, 1, k)) = z /\ Month(AddMonths(y, m, 1, k)) = n
      BY <3>2, Parts
    <3>4. DestinationPeriod(card, z, n) = InvoicePeriod(card, Closing(card, z, n))
      BY <2>1, DestinationIs
    <3> QED BY <2>1, <3>3, <3>4, MovedWithin
  <2> QED BY <2>3, <2>4, <2>5 DEF MoveFindsPeriod
<1> QED BY <1>1, CalendarAlways, PTL

-----------------------------------------------------------------------------
(* Due dates.                                                              *)

\* The due days of two years, for a due day `d`.
DueDaysOf(d, year) ==
  {<<y, m, ClampDay(y, m, d)>> : y \in {year, year + 1}, m \in 1..12}

\* calculateDueOnAfter finds the first due day after a closing date.
LEMMA FirstDueDay ==
  ASSUME NEW d \in 1..31, NEW end, IsDate(end)
  PROVE  /\ DueOnAfter(end, d) \in DueDaysOf(d, Year(end))
         /\ Rank(DueOnAfter(end, d)) > Rank(end)
         /\ \A date \in DueDaysOf(d, Year(end)) :
              Rank(date) > Rank(end) => Rank(DueOnAfter(end, d)) <= Rank(date)
<1> DEFINE y == Year(end)
           m == Month(end)
           DueDay(yy, mm) == <<yy, mm, ClampDay(yy, mm, d)>>
           days  == {DueDay(yy, mm) : yy \in {y, y + 1}, mm \in 1..12}
           later == {date \in days : Rank(date) > Rank(end)}
           due   == DueOnAfter(end, d)
<1>1. /\ y \in Int /\ m \in 1..12 /\ Day(end) \in 1..31
      /\ Rank(end) = 31 * (12 * y + m) + Day(end)
  BY DateParts
<1>2. \A z \in Int, n \in 1..12 :
        /\ Rank(DueDay(z, n)) = 31 * (12 * z + n) + ClampDay(z, n, d)
        /\ ClampDay(z, n, d) \in 1..31
  BY ClampedDate, Clamped
<1>3. due = IF Rank(DueDay(y, m)) > Rank(end) THEN DueDay(y, m)
            ELSE DueDay(NextY(y, m), NextM(m))
  <2>1. AddMonths(y, m, d, 1) = DueDay(NextY(y, m), NextM(m)) BY <1>1, MonthOn
  <2> QED BY <2>1 DEF DueOnAfter
<1>4. /\ NextY(y, m) \in {y, y + 1} /\ NextY(y, m) \in Int /\ NextM(m) \in 1..12
      /\ 12 * NextY(y, m) + NextM(m) = 12 * y + m + 1
  BY <1>1 DEF NextY, NextM
<1> HIDE DEF y, m, DueDay, due
\* A due day of an earlier month is not later, and later months have later due days.
<1>5. ASSUME NEW z \in {y, y + 1}, NEW n \in 1..12, Rank(DueDay(z, n)) > Rank(end)
      PROVE  12 * z + n >= 12 * y + m
  <2> DEFINE i == 12 * z + n
             j == 12 * y + m
  <2>1. z \in Int /\ i \in Int /\ j \in Int BY <1>1
  <2>2. /\ Rank(DueDay(z, n)) = 31 * i + ClampDay(z, n, d) /\ ClampDay(z, n, d) \in 1..31
        /\ Rank(end) = 31 * j + Day(end)
    BY <1>1, <1>2, <2>1
  <2> HIDE DEF i, j
  <2>3. i >= j BY <1>1, <1>5, <2>1, <2>2
  <2> QED BY <2>3 DEF i, j
<1>6. ASSUME NEW z \in Int, NEW n \in 1..12, NEW u \in Int, NEW v \in 1..12,
             12 * u + v <= 12 * z + n
      PROVE  Rank(DueDay(u, v)) <= Rank(DueDay(z, n))
  <2> DEFINE i == 12 * z + n
             j == 12 * u + v
  <2>1. /\ Rank(DueDay(z, n)) = 31 * i + ClampDay(z, n, d) /\ ClampDay(z, n, d) \in 1..31
        /\ Rank(DueDay(u, v)) = 31 * j + ClampDay(u, v, d) /\ ClampDay(u, v, d) \in 1..31
    BY <1>2
  <2>2. CASE i = j
    <3>1. u = z /\ v = n BY <2>2
    <3>2. Rank(DueDay(z, n)) \in Int BY <2>1
    <3> QED BY <3>1, <3>2
  <2>3. CASE j < i
    <3>1. i \in Int /\ j \in Int OBVIOUS
    <3> HIDE DEF i, j
    <3> QED BY <2>1, <2>3, <3>1
  <2> QED BY <1>6, <2>2, <2>3
<1>7. due \in later /\ \A date \in later : Rank(due) <= Rank(date)
  <2>1. CASE Rank(DueDay(y, m)) > Rank(end)
    <3>1. due = DueDay(y, m) BY <1>3, <2>1
    <3>2. due \in later BY <1>1, <2>1, <3>1
    <3>3. ASSUME NEW date \in later PROVE Rank(due) <= Rank(date)
      <4>1. PICK z \in {y, y + 1}, n \in 1..12 : date = DueDay(z, n) OBVIOUS
      <4>2. Rank(DueDay(z, n)) > Rank(end) BY <4>1
      <4>3. 12 * y + m <= 12 * z + n /\ z \in Int BY <1>1, <1>5, <4>2
      <4> QED BY <1>1, <1>6, <3>1, <4>1, <4>3
    <3> QED BY <3>2, <3>3
  <2>2. CASE ~(Rank(DueDay(y, m)) > Rank(end))
    <3>1. due = DueDay(NextY(y, m), NextM(m)) BY <1>3, <2>2
    <3>2. Rank(due) > Rank(end)
      <4> DEFINE j == 12 * y + m
      <4>1. /\ Rank(due) = 31 * (12 * NextY(y, m) + NextM(m)) + ClampDay(NextY(y, m), NextM(m), d)
            /\ ClampDay(NextY(y, m), NextM(m), d) \in 1..31
        BY <1>2, <1>4, <3>1
      <4>2. Rank(due) = 31 * (j + 1) + ClampDay(NextY(y, m), NextM(m), d)
        BY <1>4, <4>1
      <4>3. j \in Int /\ Rank(end) = 31 * j + Day(end) BY <1>1
      <4> HIDE DEF j
      <4> QED BY <1>1, <4>1, <4>2, <4>3
    <3>3. due \in later BY <1>4, <3>1, <3>2
    <3>4. ASSUME NEW date \in later PROVE Rank(due) <= Rank(date)
      <4>1. PICK z \in {y, y + 1}, n \in 1..12 : date = DueDay(z, n) OBVIOUS
      <4>2. Rank(DueDay(z, n)) > Rank(end) BY <4>1
      <4>3. 12 * y + m <= 12 * z + n /\ z \in Int BY <1>1, <1>5, <4>2
      <4>4. 12 * y + m # 12 * z + n
        <5> SUFFICES ASSUME 12 * y + m = 12 * z + n PROVE FALSE OBVIOUS
        <5>1. y = z /\ m = n BY <1>1, <4>3
        <5> QED BY <2>2, <4>2, <5>1
      <4>5. 12 * NextY(y, m) + NextM(m) <= 12 * z + n BY <1>1, <1>4, <4>3, <4>4
      <4> QED BY <1>4, <1>6, <3>1, <4>1, <4>3, <4>5
    <3> QED BY <3>3, <3>4
  <2> QED BY <2>1, <2>2
<1>8. days = DueDaysOf(d, Year(end)) BY DEF DueDay, DueDaysOf, y
<1> HIDE DEF days
<1>9. /\ due \in days /\ Rank(due) > Rank(end)
      /\ \A date \in days : Rank(date) > Rank(end) => Rank(due) <= Rank(date)
  BY <1>7
<1> QED BY <1>8, <1>9 DEF due

\* A bill is due on the first due day after it closes, for every pair of a closing and a
\* due day and every date: never on the day it closes, and no month is skipped.
THEOREM DueIsFirst == Spec => []DueIsFirstDueDay
<1>1. CalendarInv => DueIsFirstDueDay
  <2> SUFFICES ASSUME CalendarInv PROVE DueIsFirstDueDay OBVIOUS
  <2> DEFINE period == InvoicePeriod(card, today)
  <2>1. card \in Cards /\ IsDate(today) /\ card.dueDay \in 1..31
    BY CardDays DEF CalendarInv
  <2>2. PICK y \in Int, m \in 1..12 : PeriodEnd(card, today) = Closing(card, y, m)
    BY <2>1, EndIs
  <2>3. IsDate(period.end) /\ period.due = DueOnAfter(period.end, card.dueDay)
    BY <2>1, <2>2, ClosingDate DEF InvoicePeriod
  <2>4. DueDaysFrom(Year(period.end)) = DueDaysOf(card.dueDay, Year(period.end))
    BY DEF DueDaysFrom, DueDaysOf
  <2> HIDE DEF period
  <2>5. /\ period.due \in DueDaysFrom(Year(period.end)) /\ Rank(period.due) > Rank(period.end)
        /\ \A date \in DueDaysFrom(Year(period.end)) :
             Rank(date) > Rank(period.end) => Rank(period.due) <= Rank(date)
    BY <2>1, <2>3, <2>4, FirstDueDay
  <2> QED BY <2>5 DEF DueIsFirstDueDay, period
<1> QED BY <1>1, CalendarAlways, PTL

-----------------------------------------------------------------------------
(* Installments.                                                           *)

\* Does a purchase of day d wait for the closing of the next month?
Late(c, y, m, d) == ClampDay(y, m, d) > ClampDay(y, m, c.closingDay)

\* The month in which the share `k` months after a purchase is billed.
LEMMA ShareMonth ==
  ASSUME NEW c \in Cards, NEW date, IsDate(date), NEW k \in Int
  PROVE  \E y \in Int, m \in 1..12 :
           LET end == InstallmentPeriod(c, date, k).end
           IN  /\ Year(end) \in Int /\ Month(end) \in 1..12
               /\ 12 * Year(end) + Month(end)
                    = 12 * Year(date) + Month(date) + k
                        + (IF Late(c, y, m, Day(date)) THEN 1 ELSE 0)
<1> DEFINE d == Day(date)
           end == InstallmentPeriod(c, date, k).end
<1>1. Year(date) \in Int /\ Month(date) \in 1..12 /\ d \in 1..31 BY DateParts
<1>2. PICK y \in Int, m \in 1..12 :
        /\ 12 * y + m = 12 * Year(date) + Month(date) + k
        /\ AddMonths(Year(date), Month(date), d, k) = <<y, m, ClampDay(y, m, d)>>
  BY <1>1, MonthsOn
<1> DEFINE share == <<y, m, ClampDay(y, m, d)>>
<1>3. IsDate(share) /\ Year(share) = y /\ Month(share) = m /\ Day(share) = ClampDay(y, m, d)
  BY <1>1, ClampedDate, Parts
<1> HIDE DEF share
<1>4. PICK z \in Int, n \in 1..12 :
        /\ InvoicePeriod(c, share) = InvoicePeriod(c, Closing(c, z, n))
        /\ 12 * z + n = 12 * y + m
             + (IF Day(share) <= ClampDay(y, m, c.closingDay) THEN 0 ELSE 1)
  BY <1>3, PeriodIs
<1>5. Year(end) = z /\ Month(end) = n
  <2>1. InstallmentPeriod(c, date, k) = InvoicePeriod(c, share)
    BY <1>2 DEF InstallmentPeriod, share
  <2> QED BY <1>4, <2>1, PeriodEnds
<1>6. ClampDay(y, m, d) \in Int /\ ClampDay(y, m, c.closingDay) \in Int
  <2>1. d \in 1..31 /\ c.closingDay \in 1..31 BY <1>1, CardDays
  <2> HIDE DEF d
  <2>2. \A x \in 1..31 : ClampDay(y, m, x) \in 1..31 BY Clamped
  <2> QED BY <2>1, <2>2
<1>7. (IF Day(share) <= ClampDay(y, m, c.closingDay) THEN 0 ELSE 1)
        = (IF Late(c, y, m, d) THEN 1 ELSE 0)
  BY <1>3, <1>6 DEF Late
<1> HIDE DEF end
<1>8. 12 * Year(end) + Month(end)
        = 12 * Year(date) + Month(date) + k + (IF Late(c, y, m, d) THEN 1 ELSE 0)
  BY <1>1, <1>2, <1>4, <1>5, <1>7
<1> QED BY <1>5, <1>8 DEF end, d

\* A purchase on or before the closing day never waits, and one after a closing day
\* that every month has always does.
LEMMA LateOrNot ==
  ASSUME NEW c \in Cards, NEW y \in Int, NEW m \in 1..12, NEW d \in 1..31
  PROVE  /\ d <= c.closingDay => ~Late(c, y, m, d)
         /\ d > c.closingDay /\ c.closingDay < 28 => Late(c, y, m, d)
<1>1. c.closingDay \in 1..31 BY CardDays
<1>2. ClampDay(y, m, d) \in 1..31 /\ ClampDay(y, m, c.closingDay) \in 1..31
  BY <1>1, Clamped
<1>3. ASSUME d <= c.closingDay PROVE ~Late(c, y, m, d)
  <2>1. ClampDay(y, m, d) <= ClampDay(y, m, c.closingDay) BY <1>1, <1>3, ClampOrder
  <2> QED BY <1>2, <2>1 DEF Late
<1>4. ASSUME d > c.closingDay, c.closingDay < 28 PROVE Late(c, y, m, d)
  <2>1. \A x \in 1..31 : /\ x <= 28 => ClampDay(y, m, x) = x
                         /\ x > 28 => ClampDay(y, m, x) >= 28
    BY Clamped
  <2>2. ClampDay(y, m, c.closingDay) = c.closingDay
    <3>1. c.closingDay <= 28 BY <1>1, <1>4
    <3> QED BY <1>1, <2>1, <3>1
  <2>3. ClampDay(y, m, d) > c.closingDay
    <3>1. CASE d <= 28
      <4>1. ClampDay(y, m, d) = d BY <2>1, <3>1
      <4> QED BY <1>4, <4>1
    <3>2. CASE d > 28
      <4>1. ClampDay(y, m, d) >= 28 BY <2>1, <3>2
      <4> QED BY <1>1, <1>2, <1>4, <4>1
    <3> QED BY <3>1, <3>2
  <2> QED BY <2>2, <2>3 DEF Late
<1> QED BY <1>3, <1>4

\* Installments are billed one per period, in consecutive periods, for every number of
\* them, unless the purchase is made after a closing day of 28 or more; even then none
\* is billed before an earlier one and no more than one period is left out.
THEOREM SharesConsecutive == Spec => []SharesInConsecutivePeriods
<1>1. CalendarInv => SharesInConsecutivePeriods
  <2> SUFFICES ASSUME CalendarInv, NEW k \in 0..(MaxOffset - 1)
               PROVE  LET gap == MonthsBetween(InstallmentPeriod(card, today, k),
                                               InstallmentPeriod(card, today, k + 1))
                      IN  IF Day(today) <= card.closingDay \/ card.closingDay < 28
                            THEN gap = 1 ELSE gap \in 0..2
    BY DEF SharesInConsecutivePeriods
  <2> DEFINE p == InstallmentPeriod(card, today, k).end
             q == InstallmentPeriod(card, today, k + 1).end
             d == Day(today)
             late(y, m) == IF Late(card, y, m, d) THEN 1 ELSE 0
             now == 12 * Year(today) + Month(today)
  <2>1. /\ card \in Cards /\ IsDate(today) /\ k \in Int /\ k + 1 \in Int /\ card.closingDay \in 1..31
        /\ now \in Int /\ d \in 1..31
    BY MaxOffsetAssumption, CardDays, DateParts DEF CalendarInv
  <2>2. PICK y \in Int, m \in 1..12 :
          /\ Year(p) \in Int /\ Month(p) \in 1..12
          /\ 12 * Year(p) + Month(p) = now + k + late(y, m)
    BY <2>1, ShareMonth
  <2>3. PICK z \in Int, n \in 1..12 :
          /\ Year(q) \in Int /\ Month(q) \in 1..12
          /\ 12 * Year(q) + Month(q) = now + (k + 1) + late(z, n)
    BY <2>1, ShareMonth
  <2>4. MonthsBetween(InstallmentPeriod(card, today, k), InstallmentPeriod(card, today, k + 1))
          = 12 * (Year(q) - Year(p)) + Month(q) - Month(p)
    BY DEF MonthsBetween
  <2>5. /\ d <= card.closingDay \/ card.closingDay < 28 => late(y, m) = late(z, n)
        /\ late(y, m) \in {0, 1} /\ late(z, n) \in {0, 1}
    <3>1. late(y, m) \in {0, 1} /\ late(z, n) \in {0, 1} OBVIOUS
    <3> HIDE DEF d
    <3>2. CASE d <= card.closingDay
      <4>1. ~Late(card, y, m, d) /\ ~Late(card, z, n, d) BY <2>1, <3>2, LateOrNot
      <4> QED BY <3>1, <4>1
    <3>3. CASE ~(d <= card.closingDay) /\ card.closingDay < 28
      <4>1. d > card.closingDay BY <2>1, <3>3
      <4>2. Late(card, y, m, d) /\ Late(card, z, n, d) BY <2>1, <3>3, <4>1, LateOrNot
      <4> QED BY <3>1, <4>2
    <3> QED BY <3>1, <3>2, <3>3
  <2> HIDE DEF p, q, late, now
  <2>6. 12 * (Year(q) - Year(p)) + Month(q) - Month(p) = 1 + late(z, n) - late(y, m)
    BY <2>1, <2>2, <2>3, <2>5
  <2> QED BY <2>4, <2>5, <2>6
<1> QED BY <1>1, CalendarAlways, PTL

=============================================================================
