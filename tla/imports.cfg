SPECIFICATION Spec
CONSTANTS
    i1 = i1  i2 = i2  x1 = x1  n1 = n1  a1 = a1  a2 = a2  c1 = c1  r1 = r1  r2 = r2
    Items = {i1, i2}
    Refs = {x1}
    Blank = Blank
    Names = {n1}
    Targets <- OneAccount
    Slots = {r1, r2}
    Copies = 2
    None = None
    MaxRequests = 3
SYMMETRY Ids
INVARIANTS TypeOK PostedOnce
PROPERTY ProcessedWerePosted
