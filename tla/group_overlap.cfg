SPECIFICATION Spec
CONSTANTS
    u1 = u1  a1 = a1  a2 = a2  g1 = g1  c1 = c1  c2 = c2
    Users = {u1}
    Accounts = {a1}
    Groups = {g1}
    Contributions = {c1}
    None = None
    Slots = {r1, r2}
    PoolSize = 2
    Deleters = 1
    Traffic = "any"
INVARIANT GroupsTakeTheirEntries
CHECK_DEADLOCK FALSE
