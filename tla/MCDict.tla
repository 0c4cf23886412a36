------------------------------- MODULE MCDict -------------------------------
(* A small instance of Dict for TLC: a bucket whose chain holds all the     *)
(* keys, and one that stays empty.                                          *)
EXTENDS Dict, TLC

CONSTANTS k0, k1, k2, v1, v2, r1, r2, n1, n2, n3, n4

ThreeKeys == {k0, k1, k2}
TwoValues == {v1, v2}
TwoReaders == {r1, r2}
FourNodes == {n1, n2, n3, n4}

\* All of bucket 1.
Colliding == (k0 :> 1) @@ (k1 :> 3) @@ (k2 :> 5)

\* The keys differ in nothing but their names.
Symmetry == Permutations(FourNodes) \cup Permutations(TwoReaders)
            \cup Permutations(ThreeKeys) \cup Permutations(TwoValues)
=============================================================================
