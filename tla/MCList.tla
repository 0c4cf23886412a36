------------------------------- MODULE MCList -------------------------------
(* A small instance of List for TLC. *)
EXTENDS List

CONSTANTS x, y, n1, n2, n3

TwoElements == {x, y}
ThreeNodes == {n1, n2, n3}
=============================================================================
