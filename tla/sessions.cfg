SPECIFICATION Spec
CONSTANTS
    u1 = u1  u2 = u2  k1 = k1  k2 = k2  k3 = k3  r1 = r1  r2 = r2
    e1 = e1  p1 = p1  w1 = w1  w2 = w2
    Blank = Blank
    Users = {u1, u2}
    Tokens = {k1, k2, k3}
    Emails = {Blank, e1}
    Phones = {Blank, p1}
    Passwords = {w1, w2}
    Slots = {r1, r2}
    Traffic = "apart"
    LostDeletes = FALSE
    None = None
SYMMETRY Ids
INVARIANT TypeOK
PROPERTIES SessionsAreChains SignupsAnsweredWhole PasswordsChangedByHolders
