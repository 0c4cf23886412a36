----------------------------- MODULE MCCrawler ------------------------------
(* Small instances of Crawler for TLC. *)
EXTENDS Crawler, TLC

CONSTANTS t1, t2, a, b, c

\* What filter can leave of a page: no link, a link to a page seen or not,
\* and a page that may link to itself or to the seed.
WidePages == {<<>>, <<b, c>>, <<c, a>>}
NarrowPages == {<<>>, <<b, c>>}

ThreadSymmetry == Permutations(Threads)
=============================================================================
