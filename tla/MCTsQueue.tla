----------------------------- MODULE MCTsQueue ------------------------------
(* A small instance of TsQueue for TLC: the job queue of the pool, or the   *)
(* URL queue that do_work alone takes from.                                 *)
EXTENDS TsQueue, TLC

CONSTANTS p, q, c, d, k, r, x, y, n1, n2, n3

TwoProducers == {p, q}
TwoConsumers == {c, d}
OneChecker == {k}
OneReader == {r}

PoolClients == {p, c, d, r}
WorkClients == {p, q, k, r}
PoolOrWork == {PoolClients, WorkClients}

TwoElements == {x, y}
ThreeNodes == {n1, n2, n3}

\* Addresses, elements, and clients of one kind, are interchangeable: but
\* p is not q, who is no client of the pool.
Symmetry == Permutations(ThreeNodes) \cup Permutations(TwoElements) \cup Permutations(TwoConsumers)
=============================================================================
