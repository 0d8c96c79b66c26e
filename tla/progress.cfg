SPECIFICATION ProgressSpec
CONSTANTS
    u1 = u1  a1 = a1  a2 = a2  g1 = g1   c1 = c1  c2 = c2
    q1 = q1  q2 = q2  q3 = q3  q4 = q4  k1 = k1  k2 = k2  k3 = k3
    Users = {u1}
    Accounts = {a1, a2}
    Groups = {g1}
    Contributions = {c1, c2}
    None = None
    Slots = {r1, r2}
    PoolSize = 3
    Deleters = 2
    Traffic = "apart"
    Conns = {k1, k2, k3}
    PoolSlots = {q1, q2, q3, q4}
    Nesters = {q1, q2}
    MaxInner = 2
    Versions = 2
INVARIANTS TypesOK ContributionsArePosted SomeoneGoesOn
PROPERTIES PostedToTheGroupsAccount EveryRequestEnds EveryoneIsServed EventuallyFresh
CHECK_DEADLOCK FALSE
