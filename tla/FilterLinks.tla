---------------------------- MODULE FilterLinks -----------------------------
(***************************************************************************)
(* filter of worker.c: of the links of a page (olist) keeps those that     *)
(* pass check, once each (nlist), remembering what it kept in the Bloom    *)
(* filter of bloomfilter.c.  A link is known by what check tells of it and *)
(* by its hashes, which may collide in any way.                            *)
(***************************************************************************)
EXTENDS Naturals, Sequences, SequencesExt

CONSTANTS
    Links,
    Short,      \* the links with fewer characters than the domain
    Local,      \* the links that begin with the domain
    Page,       \* the links that end in ".htm" or ".html"
    Funcs,      \* the names of the hash functions (six in the code)
    HashVectors,\* what they may be: functions from Funcs, and Links, to Nat
    Factor,     \* bits for each link (60 in the code)
    MaxLinks    \* bound: the links of a page

ASSUME FilterAssumption ==
    /\ Local \cap Short = {}
    /\ Factor \in Nat \ {0} /\ MaxLinks \in Nat
    /\ HashVectors \subseteq [Funcs -> [Links -> Nat]]

VARIABLES
    olist,      \* the links in the page, in their order
    func,       \* the hash functions
    bits,       \* the positions of bf->bits that are 1
    blocks,     \* what bloom_init allocated and has not been freed
    nlist,      \* the links kept
    lost,       \* history: the links list_push_back had no memory for
    iter,       \* the place in olist of the link looked at
    pc,         \* "init", "loop", "add" or "done"
    ret         \* what filter returns

filterVars == <<olist, func, bits, blocks, nlist, lost, iter, pc, ret>>

FilterInit ==
    /\ olist \in SeqOf(Links, MaxLinks)
    /\ func \in HashVectors
    /\ bits = {} /\ blocks = {}
    /\ nlist = <<>> /\ lost = {} /\ iter = 1
    /\ pc = "init" /\ ret = 0

bsize == Len(olist) * Factor

\* The positions bloom_add sets for a link, and bloom_check reads.
BitsOf(l) == {func[f][l] % bsize : f \in Funcs}

check(l) == (l \in Short \/ l \in Local) /\ l \in Page

-----------------------------------------------------------------------------
(* bloom_init *)

\* A page without links: the size of the filter is 0.
NoLinks ==
    /\ pc = "init" /\ olist = <<>>
    /\ pc' = "done"
    /\ UNCHANGED <<olist, func, bits, blocks, nlist, lost, iter, ret>>

\* Either malloc fails; bf->bits is freed when it is the second.
BloomNoMemory ==
    /\ pc = "init" /\ olist # <<>>
    /\ pc' = "done"
    /\ UNCHANGED <<olist, func, bits, blocks, nlist, lost, iter, ret>>

BloomInit ==
    /\ pc = "init" /\ olist # <<>>
    /\ pc' = "loop"
    /\ blocks' = {"bits", "func"}
    /\ UNCHANGED <<olist, func, bits, nlist, lost, iter, ret>>

-----------------------------------------------------------------------------
(* the loop *)

Looked == olist[iter]

\* Faulty: a link is taken for kept when any of its bits is set.
bloom_check_any(l) == BitsOf(l) \cap bits # {}

bloom_check(l) == BitsOf(l) \subseteq bits

Pass ==
    /\ pc = "loop" /\ iter <= Len(olist)
    /\ ~check(Looked) \/ bloom_check(Looked)
    /\ iter' = iter + 1
    /\ UNCHANGED <<olist, func, bits, blocks, nlist, lost, pc, ret>>

\* Faulty: at the front.
KeepFront ==
    /\ pc = "loop" /\ iter <= Len(olist)
    /\ check(Looked) /\ ~bloom_check(Looked)
    /\ nlist' = <<Looked>> \o nlist
    /\ pc' = "add"
    /\ UNCHANGED <<olist, func, bits, blocks, lost, iter, ret>>

\* list_push_back copies the link; for lack of memory it drops it, and filter,
\* which is not told, sets its bits all the same.
Keep ==
    /\ pc = "loop" /\ iter <= Len(olist)
    /\ check(Looked) /\ ~bloom_check(Looked)
    /\ \/ nlist' = Append(nlist, Looked) /\ UNCHANGED lost
       \/ lost' = lost \cup {Looked} /\ UNCHANGED nlist
    /\ pc' = "add"
    /\ UNCHANGED <<olist, func, bits, blocks, iter, ret>>

\* Faulty: all the hash functions but one.
bloom_add_short ==
    /\ pc = "add"
    /\ \E g \in Funcs : bits' = bits \cup {func[f][Looked] % bsize : f \in Funcs \ {g}}
    /\ iter' = iter + 1 /\ pc' = "loop"
    /\ UNCHANGED <<olist, func, blocks, nlist, lost, ret>>

bloom_add ==
    /\ pc = "add"
    /\ bits' = bits \cup BitsOf(Looked)
    /\ iter' = iter + 1 /\ pc' = "loop"
    /\ UNCHANGED <<olist, func, blocks, nlist, lost, ret>>

bloom_destroy ==
    /\ pc = "loop" /\ iter > Len(olist)
    /\ blocks' = {}
    /\ ret' = 1 /\ pc' = "done"
    /\ UNCHANGED <<olist, func, bits, nlist, lost, iter>>

Done == pc = "done" /\ UNCHANGED filterVars

FilterNext ==
    \/ NoLinks \/ BloomNoMemory \/ BloomInit
    \/ Pass \/ Keep \/ bloom_add \/ bloom_destroy
    \/ Done

FilterSpec == FilterInit /\ [][FilterNext]_filterVars

-----------------------------------------------------------------------------
(* The variables have their types, and a bit that is set is one of the     *)
(* array's.                                                                *)
FilterTypes ==
    /\ olist \in Seq(Links) /\ func \in HashVectors
    /\ bits \subseteq Nat /\ (pc \in {"loop", "add"} => \A b \in bits : b < bsize)
    /\ blocks \subseteq {"bits", "func"}
    /\ nlist \in Seq(Links) /\ lost \subseteq Links
    /\ iter \in 1..(Len(olist) + 1) /\ (pc = "add" => iter <= Len(olist))
    /\ pc \in {"init", "loop", "add", "done"} /\ ret \in {0, 1}

Kept == ToSet(nlist)

(* filter deletes duplicates: no link is kept twice, however the hashes    *)
(* collide (a Bloom filter forgets nothing).                               *)
KeptOnce == IsInjective(nlist)

PlacesOf(l) == {i \in DOMAIN olist : olist[i] = l}

(* The links kept are links of the page that pass check, in the order in   *)
(* which the page first has them.                                          *)
KeptInOrder ==
    /\ \A l \in Kept : check(l) /\ PlacesOf(l) # {}
    /\ \A i, j \in DOMAIN nlist : i < j =>
          \E m \in PlacesOf(nlist[i]) : \A n \in PlacesOf(nlist[j]) : m < n

(* A link that passes check and is not kept either met no memory in        *)
(* list_push_back, which prints of it, or has each of its bits in common   *)
(* with a link that was kept or met none: the price of the Bloom filter,   *)
(* and all of it.  Without the lack of memory only a collision loses one.  *)
LostOnlyByCollision ==
    pc = "loop" \/ (pc = "done" /\ ret = 1) =>
        \A i \in 1..(iter - 1) : check(olist[i]) /\ olist[i] \notin Kept \cup lost =>
            BitsOf(olist[i]) \subseteq UNION {BitsOf(l) : l \in Kept \cup lost}

(* filter fails, and then keeps nothing, only for a page without links or  *)
(* for lack of memory; and it leaves no block of the Bloom filter behind.  *)
CleanReturn ==
    /\ FilterTypes
    /\ pc = "done" => /\ blocks = {}
                      /\ ret = 0 => nlist = <<>>
                      /\ ret = 1 => iter = Len(olist) + 1 /\ olist # <<>>

(* What filter answers: the links kept are of the page, pass check and are *)
(* in its order; without links or memory there is none; no block is left.  *)
Filtered == KeptInOrder /\ CleanReturn
=============================================================================
