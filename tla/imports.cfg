CONSTANTS
    p1 = p1  p2 = p2  q1 = q1  q2 = q2  m1 = m1  m2 = m2
    l1 = l1  l2 = l2  e1 = e1  b1 = b1  b2 = b2
    Requests = {p1, p2}
    Batches = {b1, b2}
    Lines = {l1, l2}
    Entries = {}
    Payloads = {q1, q2}
    Movements = {m1, m2}
    Transfers = {m1}
    MovementOf <- TransferAndPurchase
    MaxRev = 1
    None = None
SPECIFICATION Spec
SYMMETRY Symmetry
CHECK_DEADLOCK FALSE
INVARIANTS OneEffectPerLine DiscardedHasNoEffect NothingLeftToReview
PROPERTIES TransferCountedOnce ApprovedAsSeen
