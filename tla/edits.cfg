SPECIFICATION Spec
CONSTANTS
    t1 = t1  t2 = t2  r1 = r1  r2 = r2  n1 = n1  g1 = g1
    Transactions = {t1, t2}
    Stored = {t1}
    Transfers = {}
    Plain = Plain
    Patches <- SomePatches
    Notes = {Plain, n1}
    Batches <- SomeBatches
    Habits = {"batch", "any"}
    MaxRequests <- SomeRequests
    Slots = {r1, r2}
    None = None
INVARIANT TypeOK
PROPERTIES EditsAreWhole EveryRequestEnds
CHECK_DEADLOCK FALSE
