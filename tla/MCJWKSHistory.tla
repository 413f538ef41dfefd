--------------------------- MODULE MCJWKSHistory ---------------------------
(* The key cache with its history, on small instances.                       *)
EXTENDS JWKSHistory, TLC

CONSTANTS l1, l2, l3, k1, k2

OneLookup    == {l1}
TwoLookups   == {l1, l2}
ThreeLookups == {l1, l2, l3}
TwoKids      == {k1, k2}

Symmetry == Permutations(Lookups) \cup Permutations(Kids)
=============================================================================
