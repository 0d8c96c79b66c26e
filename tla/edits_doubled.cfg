SPECIFICATION Spec
CONSTANTS
    t1 = t1  t2 = t2  r1 = r1  r2 = r2  n1 = n1  g1 = g1
    Transactions = {t1}
    Stored = {t1}
    Transfers = {}
    Plain = Plain
    Patches <- LinesOnly
    Notes = {Plain, n1}
    Batches <- OneEntry
    Habits = {"atomic"}
    MaxRequests <- TwoRequests
    Slots = {r1, r2}
    None = None
INVARIANT LinesOfOneEdit
CHECK_DEADLOCK FALSE
