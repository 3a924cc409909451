CONSTANTS
    p1 = p1  p2 = p2  q1 = q1  q2 = q2  m1 = m1  m2 = m2
    l1 = l1  l2 = l2  e1 = e1  b1 = b1  b2 = b2
    Requests = {p1}
    Batches = {b1}
    Lines = {l1}
    Entries = {e1}
    Payloads = {q1, q2}
    Movements = {m1}
    Transfers = {}
    MovementOf <- OneMovement
    MaxRev = 1
    None = None
SPECIFICATION Spec
SYMMETRY Symmetry
CHECK_DEADLOCK FALSE
PROPERTIES NewLinesWereReviewed
