--------------------------- MODULE MCFilterLinks ----------------------------
(* A small instance of FilterLinks for TLC: two hash functions that collide *)
(* in every way, on links of every kind.                                    *)
EXTENDS FilterLinks

CONSTANTS p1, p2, short, image, other, f1, f2

AllLinks == {p1, p2, short, image, other}
ShortLinks == {short}
LocalLinks == {p1, p2, image}
PageLinks == {p1, p2, short, other}
TwoFuncs == {f1, f2}

\* image and other do not pass check and are not hashed.
Hashes == {h \in [AllLinks -> 0..2] : h[image] = 0 /\ h[other] = 0}
AllHashes == [TwoFuncs -> Hashes]
=============================================================================
