------------------------------ MODULE CrawlJob ------------------------------
(***************************************************************************)
(* What one crawl job does, seen from the crawl (Fetched, Dropped and      *)
(* Failed of Crawler): it makes at most Attempts attempts, and ends with   *)
(* the page pushed or with nothing.                                        *)
(***************************************************************************)
EXTENDS Integers

CONSTANT Attempts

VARIABLES
    phase,      \* "crawl", "count" once the page is pushed, "release" with nothing
    timeout     \* the attempts left

vars == <<phase, timeout>>

Init == phase = "crawl" /\ timeout = Attempts

Fetched == phase = "crawl" /\ phase' = "count" /\ UNCHANGED timeout

Dropped == phase = "crawl" /\ phase' = "release" /\ timeout' \in {timeout, timeout - 1}

Failed ==
    /\ phase = "crawl"
    /\ timeout' = timeout - 1
    /\ phase' = IF timeout' > 0 THEN "crawl" ELSE "release"

Next == Fetched \/ Dropped \/ Failed

Spec == Init /\ [][Next]_vars
=============================================================================
