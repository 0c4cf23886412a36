----------------------------- MODULE MCReports ------------------------------
(* A small instance of Reports for TLC: pages of at most two links, each in *)
(* one order.                                                               *)
EXTENDS Reports

SmallPages == {SetToSeq(links) : links \in UNION {kSubset(n, Urls) : n \in 0..2}}
=============================================================================
