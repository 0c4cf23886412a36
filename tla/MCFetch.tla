------------------------------ MODULE MCFetch -------------------------------
(* Small instances of Fetch for TLC: a page of up to three first buffers.   *)
EXTENDS Fetch
=============================================================================
