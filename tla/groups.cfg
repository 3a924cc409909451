SPECIFICATION Spec
CHECK_DEADLOCK FALSE
CONSTANTS
  None = None
  Legacy = Legacy
  r1 = r1
  r2 = r2
  r3 = r3
  e1 = e1
  e2 = e2
  e3 = e3
  checking = checking
  savings = savings
  Entries = {e1, e2, e3}
  Requests = {r1, r2, r3}
  Roles <- RolesApart
  Classes = {checking, savings}
  Statements <- Opening
  UpdateStatuses = {"keep", "planned"}
  Selections <- SomeSelections
  ById <- RankById
  ByDate <- RankByDate
INVARIANT GroupIsUniform
PROPERTY SelectionTakenWhole
PROPERTY RequestsEnd
