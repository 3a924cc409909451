SPECIFICATION Spec
CHECK_DEADLOCK FALSE
CONSTANTS
  None = None
  acc = acc
  r1 = r1
  r2 = r2
  r3 = r3
  r4 = r4
  Requests = {r1, r2, r3, r4}
  Periods = {0, 1}
  MaxInstallments = 1
  Amounts = {2, 3}
  Starts = {1}
  Plans <- SinglePlans
  EditStatuses = {"keep"}
  Accounts = {acc, None}
  Ops = {"purchase", "edit", "move", "close", "pay"}
  MayOverlap <- DisjointEditsOverlap
SYMMETRY Symmetry
INVARIANT TypeOK
INVARIANT PaidLeavesNoForecast
INVARIANT OneForecastPerInvoice
PROPERTY ImplementsContract
