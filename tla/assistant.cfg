SPECIFICATION Spec
CHECK_DEADLOCK FALSE
CONSTANTS
  None = None
  first = first
  message = message
  other = other
  home = home
  away = away
  k1 = k1
  k2 = k2
  q1 = q1
  q2 = q2
  brl = brl
  usd = usd
  Requests = {first, message, other}
  Profiles = {home, away}
  Keys = {k1, k2}
  Questions = {q1, q2}
  Currencies = {brl, usd}
  Offers <- ConversationOffers
  ResolvesTo <- TwoCurrencies
  TTL = 2
  Lease = 1
  MaxTime = 2
  ConsentChecks = 2
  MaxRetries = 1
INVARIANT OneOpenContext
INVARIANT ProcessingIsFenced
INVARIANT AnsweredInTime
INVARIANT OneTurnPerKey
PROPERTY LateAnswerIsFenced
PROPERTY TurnSettles
