SPECIFICATION Spec
CHECK_DEADLOCK FALSE
CONSTANTS
  None = None
  creator = creator
  r1 = r1
  r2 = r2
  r3 = r3
  Requests = {creator, r1, r2, r3}
  MaxOccurrences = 2
  Targets = {"account", "card"}
  Offers <- SeriesOffers
  MayOverlap <- AlwaysOverlap
INVARIANT OccurrenceBookedOnce
INVARIANT SettledIsMaterialised
PROPERTY OnlyStaleEditsReactivate
PROPERTY GenerationSettles
