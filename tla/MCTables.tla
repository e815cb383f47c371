----------------------------- MODULE MCTables -----------------------------
(* Small instances of SetIter, with keys that share a bucket.              *)
EXTENDS SetIter

MCKeys == {"k1", "k2", "k3"}

MCHashOf(k) == CASE k = "k1" -> 4 [] k = "k2" -> 8 [] OTHER -> 7

MCEqual(j, k) == j = k

MCMethods == {{"put", "del"}, {"at"}}

=============================================================================
