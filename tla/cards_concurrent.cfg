SPECIFICATION Spec
CHECK_DEADLOCK FALSE
CONSTANTS
  None = None
  acc = acc
  r1 = r1
  r2 = r2
  r3 = r3
  r4 = r4
  Requests = {r1, r2, r3, r4}
  Periods = {0, 1}
  MaxInstallments = 2
  Amounts = {2, 3}
  Starts = {1, 2}
  Plans <- MixedPlans
  EditStatuses = {"keep"}
  Accounts = {acc}
  Ops = {"purchase", "edit", "move", "close", "pay"}
  MayOverlap <- AlwaysOverlap
SYMMETRY Symmetry
INVARIANT PaymentLink
INVARIANT InstallmentsCoverPurchase
PROPERTY VoidedForecastStaysVoided
PROPERTY TotalKeptUnlessMiscounted
PROPERTY LockedUnlessOvertaken
PROPERTY SecondInvoiceOnlyWhenOvertaken
