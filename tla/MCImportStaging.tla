--------------------------- MODULE MCImportStaging ---------------------------
(* Instances of ImportStaging for TLC. *)
EXTENDS ImportStaging, TLC

CONSTANTS i1, i2, x1, n1, a1, a2, c1, r1, r2

TwoKinds == "account" :> {a1} @@ "category" :> {c1}
OneAccount == "account" :> {a1}
TwoAccounts == "account" :> {a1, a2}

Ids == Permutations(Items) \cup Permutations(Slots)
=============================================================================
