CONSTANTS
    a1 = a1  a2 = a2  c1 = c1  c2 = c2  r1 = r1  u1 = u1  u2 = u2
    ana = ana  bia = bia  ana_mail = ana_mail  bia_mail = bia_mail
    Attempts = {a1, a2}
    Callbacks = {c1, c2}
    Requests = {r1}
    Users = {u1, u2}
    Identities <- People
    Registered <- OneLocalUser
    AttemptTtl = 1
    SessionTtl = 3
    IdleTimeout = 2
    MaxTime = 3
SPECIFICATION Spec
CHECK_DEADLOCK FALSE
INVARIANTS OneSessionPerLogin DisabledHasNoSession OneAccountPerPerson
PROPERTIES RevocationStands AttemptsSettle
