SPECIFICATION Spec
CHECK_DEADLOCK FALSE
CONSTANTS
  None = None
  r1 = r1
  r2 = r2
  r3 = r3
  Requests = {r1, r2, r3}
  Periods = {0}
  MaxInstallments = 1
  Amounts = {2}
  Starts = {1}
  Plans <- OnePeriodPlans
  EditStatuses = {"keep"}
  Accounts = {None}
  Ops = {"purchase", "pay"}
  MayOverlap <- AlwaysOverlap
SYMMETRY Symmetry
INVARIANT SettledOnce
