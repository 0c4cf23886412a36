----------------------------- MODULE SiteCrawl ------------------------------
(***************************************************************************)
(* What the crawl promises, without threads, queues or counters: starting  *)
(* from one URL, pages are asked for at most once, each by a link of a     *)
(* page recorded before, and the crawl may stop only when nothing asked    *)
(* for is open any more, or when the graph holds as many pages as it can.  *)
(***************************************************************************)
EXTENDS Integers, FiniteSets, Sequences, Functions

CONSTANTS Urls, Seed, Pages, VertexMax, AllocFails

VARIABLES
    asked,      \* the URLs asked for
    open,       \* those of them whose page is still to come or to be gone through
    pages,      \* [the URLs recorded -> the links recorded of each]
    links,      \* the links of the page that is being gone through
    stopped     \* the crawl is over

vars == <<asked, open, pages, links, stopped>>

Recorded == DOMAIN pages

Init ==
    /\ asked = {} /\ open = {}
    /\ pages = [u \in {} |-> <<>>]
    /\ links = {}
    /\ stopped = FALSE

Request(u) ==
    /\ ~stopped
    /\ u \notin asked
    /\ asked' = asked \cup {u}
    /\ open' = open \cup {u}
    /\ UNCHANGED <<pages, links, stopped>>

(* The first request is for the seed, every other one follows a link of    *)
(* the page that is being gone through.                                    *)
RequestSeed == asked = {} /\ Request(Seed)
FollowLink == \E v \in links : Request(v)

(* What is recorded of a page's links: all of them, while memory lasts.    *)
Recordable(page) ==
    IF "list_push_back" \in AllocFails
    THEN UNION {[1..n -> Range(page)] : n \in 0..Len(page)}
    ELSE {page}

Record(u) ==
    /\ ~stopped
    /\ u \in open \ Recorded
    /\ Cardinality(Recorded) < VertexMax
    /\ links = {}
    /\ \E page \in Pages :
          /\ links' = Range(page)
          /\ \E recorded \in Recordable(page) :
                pages' = [v \in Recorded \cup {u} |-> IF v = u THEN recorded ELSE pages[v]]
    /\ UNCHANGED <<asked, open, stopped>>

(* The page could not be fetched, or all of its links have been asked for: *)
(* a link is passed over only for want of memory.                          *)
Close(u) ==
    /\ u \in open
    /\ open' = open \ {u}
    /\ \/ /\ u \notin Recorded
          /\ UNCHANGED links
       \/ /\ u \in Recorded
          /\ "do_work" \in AllocFails \/ links \subseteq asked
          /\ links' = {}
    /\ UNCHANGED <<asked, pages, stopped>>

Stop ==
    /\ ~stopped
    /\ open = {} \/ Cardinality(Recorded) >= VertexMax
    /\ stopped' = TRUE
    /\ UNCHANGED <<asked, open, pages, links>>

Next ==
    \/ RequestSeed
    \/ FollowLink
    \/ \E u \in open : Record(u) \/ Close(u)
    \/ Stop

Spec == Init /\ [][Next]_vars

-----------------------------------------------------------------------------
\* The crawl has gone through everything it has recorded: nothing open,
\* every link of every page asked for (if do_work has memory for the jobs).
AllFollowed ==
    "do_work" \notin AllocFails /\ stopped /\ Cardinality(Recorded) < VertexMax =>
        open = {} /\ \A u \in Recorded : Range(pages[u]) \subseteq asked
=============================================================================
