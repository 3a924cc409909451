SPECIFICATION Spec
CHECK_DEADLOCK FALSE
CONSTANTS
  ClosingDays = {1, 15, 27, 28, 29, 30, 31}
  DueDays = {1, 10, 27, 28, 29, 30, 31}
  FirstDay <- WalkFrom
  LastDay <- WalkTo
  MaxOffset = 12
INVARIANT DueIsFirstDueDay
INVARIANT SharesInConsecutivePeriods
INVARIANT MoveFindsPeriod
PROPERTY PeriodsTile
