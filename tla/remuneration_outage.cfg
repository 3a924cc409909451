CONSTANTS
    s1 = s1  s2 = s2  m1 = m1  m2 = m2  a1 = a1
    Schedulers = {s1}
    Admins = {m1}
    Accounts = {a1}
    Horizon = 4
    Window = 2
    Starts = {1}
    Dates = {0, 3, 4}
    Outages = TRUE
SPECIFICATION FairSpec
CHECK_DEADLOCK FALSE
PROPERTIES EveryCompetenceSettled
