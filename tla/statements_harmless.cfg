SPECIFICATION StmtSpec
CONSTANTS
    u1 = u1  u2 = u2  a1 = a1
    d1 = d1  d2 = d2  t1 = t1  t2 = t2
    Users = {u1}
    Accounts = {a1}
    Debts = {d1, d2}
    Transactions = {t1, t2}
    None = None
    Perm <- OneOwner
    Principals = {2}
    Amounts = {1}
    Modes = {"amount", "split"}
    Statuses = {"overdue"}
    Subunits = 1
    Slots = {r1, r2}
    Ops <- AllOps
    Overlap = "harmless"
SYMMETRY Ids
INVARIANTS StmtTypeOK Conservation
