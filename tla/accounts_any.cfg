SPECIFICATION Spec
CONSTANTS
    u1 = u1  u2 = u2  a1 = a1  a2 = a2  a3 = a3  t1 = t1  t2 = t2
    Users = {u1, u2}
    Accounts = {a2, a3}
    Transactions = {t1}
    None = None
    Kind <- Kinds
    PatchStatuses = {"matured"}
    Ops = {"create", "create_savings", "post", "delete", "delete_savings", "patch_savings"}
    Slots = {r1, r2}
    Traffic = "any"
SYMMETRY Ids
INVARIANT OneOwner
PROPERTY DeletedForever
