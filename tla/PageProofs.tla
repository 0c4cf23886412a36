----------------------------- MODULE PageProofs -----------------------------
(* Proofs about the links of a page: which of them FilterLinks keeps, for  *)
(* any links, hash functions and page; which of them LinkParser collects,  *)
(* and where they lead, for any page and URL; and how HttpUrl cuts a URL.  *)
EXTENDS PageLinks, FilterLinks, SequenceTheorems, FiniteSetTheorems,
        WellFoundedInduction, TLAPS

-----------------------------------------------------------------------------
(* The links kept. *)

TypeInv ==
    /\ olist \in Seq(Links) /\ nlist \in Seq(Links) /\ lost \subseteq Links
    /\ iter \in Nat \ {0}
    /\ pc \in {"init", "loop", "add", "done"}
    /\ pc = "add" => iter <= Len(olist)

\* b is a bit of a link that was kept, or for which there was no memory.
Owned(b) ==
    \/ \E i \in 1..Len(nlist) : b \in BitsOf(nlist[i])
    \/ \E l \in lost : b \in BitsOf(l)

\* The bits of a kept link are set, but for the one just put in.
BitsAreKept ==
    /\ \A i \in 1..Len(nlist) :
          BitsOf(nlist[i]) \subseteq bits \/ (pc = "add" /\ nlist[i] = Looked)
    /\ \A b \in bits : Owned(b)

LastIsHere ==
    pc = "add" => (\E i \in 1..Len(nlist) : nlist[i] = Looked) \/ Looked \in lost

Covered == \A i \in 1..(iter - 1) : check(olist[i]) => BitsOf(olist[i]) \subseteq bits

Distinct == \A i, j \in 1..Len(nlist) : nlist[i] = nlist[j] => i = j

FilterInv == TypeInv /\ BitsAreKept /\ LastIsHere /\ Covered /\ Distinct

(* Nothing is kept yet, and nothing is covered.                            *)
LEMMA FilterBegins == FilterInit => FilterInv
  <1> SUFFICES ASSUME FilterInit PROVE FilterInv
    OBVIOUS
  <1>1. olist \in Seq(Links)
    BY DEF FilterInit, SeqOf
  <1>2. TypeInv
    BY <1>1 DEF FilterInit, TypeInv
  <1>3. nlist = <<>> /\ bits = {} /\ iter = 1 /\ pc = "init" /\ Len(nlist) = 0
    BY DEF FilterInit
  <1>4. BitsAreKept /\ LastIsHere
    BY <1>3, SMT DEF BitsAreKept, LastIsHere
  <1>5. Covered /\ Distinct
    BY <1>3, SMT DEF Covered, Distinct
  <1> QED
    BY <1>2, <1>4, <1>5 DEF FilterInv

(* The hashes of a page's links are fixed when filter begins.              *)
LEMMA SameBits ==
  ASSUME UNCHANGED <<olist, func>>
  PROVE  /\ \A l : BitsOf(l)' = BitsOf(l)
         /\ \A l : check(l)' = check(l)
  BY DEF BitsOf, bsize, check

(* Steps that change neither the lists nor the bits, and stay out of the   *)
(* middle of a round.                                                      *)
LEMMA QuietStep ==
  ASSUME FilterInv, UNCHANGED <<olist, func, bits, nlist, lost, iter>>,
         pc # "add", pc' \in {"init", "loop", "done"}
  PROVE  FilterInv'
  <1>1. TypeInv'
    BY DEF FilterInv, TypeInv
  <1>3. BitsAreKept'
    BY SameBits DEF FilterInv, BitsAreKept, Owned
  <1>4. Covered'
    BY SameBits DEF FilterInv, Covered
  <1>5. LastIsHere' /\ Distinct'
    BY DEF FilterInv, LastIsHere, Distinct
  <1> QED
    BY <1>1, <1>3, <1>4, <1>5 DEF FilterInv

(* A link passed over does not pass check, or has all its bits set.        *)
LEMMA PassStep ==
  ASSUME FilterInv, Pass
  PROVE  FilterInv'
  <1> USE DEF FilterInv
  <1>1. TypeInv'
    BY DEF Pass, TypeInv
  <1>2. UNCHANGED <<nlist, lost, bits>> /\ pc = "loop"
    BY DEF Pass
  <1>3. UNCHANGED <<olist, func>>
    BY DEF Pass
  <1>4. BitsAreKept'
    BY <1>2, <1>3, SameBits DEF BitsAreKept, Owned
  <1>5. Covered'
    <2> SUFFICES ASSUME NEW i \in 1..(iter' - 1), check(olist[i])
                 PROVE  BitsOf(olist[i]) \subseteq bits
      BY <1>2, <1>3, SameBits DEF Covered
    <2>1. i \in 1..(iter - 1) \/ i = iter
      BY DEF Pass, TypeInv
    <2>2. CASE i \in 1..(iter - 1)
      BY <2>2 DEF Covered
    <2>3. CASE i = iter
      BY <2>3 DEF Pass, Looked, bloom_check
    <2> QED
      BY <2>1, <2>2, <2>3
  <1>6. LastIsHere' /\ Distinct'
    BY <1>2 DEF LastIsHere, Distinct, Pass
  <1> QED
    BY <1>1, <1>4, <1>5, <1>6

(* A link kept has a bit that none of those kept before has set, so it is  *)
(* none of them.                                                           *)
LEMMA KeepStep ==
  ASSUME FilterInv, Keep
  PROVE  FilterInv'
  <1> USE DEF FilterInv
  <1>0. Looked \in Links
    BY DEF Keep, TypeInv, Looked
  <1>1. TypeInv'
    BY <1>0 DEF Keep, TypeInv
  <1>2. UNCHANGED <<olist, func, bits, iter>> /\ pc = "loop" /\ Looked' = Looked
    BY DEF Keep, Looked
  <1>3. Covered'
    BY <1>2, SameBits DEF Covered
  <1>4. CASE lost' = lost \cup {Looked} /\ UNCHANGED nlist
    <2>1. BitsAreKept'
      BY <1>2, <1>4, SameBits DEF BitsAreKept, Owned
    <2>2. LastIsHere' /\ Distinct'
      BY <1>2, <1>4 DEF LastIsHere, Distinct
    <2> QED
      BY <1>1, <1>3, <2>1, <2>2
  <1>5. CASE nlist' = Append(nlist, Looked) /\ UNCHANGED lost
    <2>1. /\ Len(nlist') = Len(nlist) + 1 /\ Len(nlist) \in Nat
          /\ nlist'[Len(nlist) + 1] = Looked
          /\ \A i \in 1..Len(nlist) : nlist'[i] = nlist[i]
      BY <1>0, <1>5 DEF TypeInv
    <2>2. \A i \in 1..Len(nlist) : BitsOf(nlist[i]) \subseteq bits
      BY <1>2 DEF BitsAreKept
    <2>3. BitsAreKept'
      <3>1. ASSUME NEW i \in 1..Len(nlist')
            PROVE  (BitsOf(nlist[i]) \subseteq bits \/ (pc = "add" /\ nlist[i] = Looked))'
        <4>1. i \in 1..Len(nlist) \/ i = Len(nlist) + 1
          BY <2>1
        <4>2. CASE i \in 1..Len(nlist)
          BY <4>2, <1>2, <2>1, <2>2, SameBits
        <4>3. CASE i = Len(nlist) + 1
          BY <4>3, <1>2, <2>1 DEF Keep
        <4> QED
          BY <4>1, <4>2, <4>3
      <3>2. ASSUME NEW b \in bits'
            PROVE  Owned(b)'
        <4>1. Owned(b)
          BY <1>2 DEF BitsAreKept
        <4> QED
          BY <4>1, <1>2, <1>5, <2>1, SameBits DEF Owned
      <3>3. (\A b \in bits : Owned(b))'
        BY <3>2
      <3>4. (\A i \in 1..Len(nlist) :
                BitsOf(nlist[i]) \subseteq bits \/ (pc = "add" /\ nlist[i] = Looked))'
        BY <3>1
      <3> QED
        BY <3>3, <3>4 DEF BitsAreKept
    <2>4. LastIsHere'
      BY <1>2, <2>1 DEF LastIsHere
    <2>5. \A i \in 1..Len(nlist) : nlist[i] # Looked
      BY <2>2 DEF Keep, bloom_check
    <2>6. Distinct'
      BY <2>1, <2>5 DEF Distinct
    <2> QED
      BY <1>1, <1>3, <2>3, <2>4, <2>6
  <1> QED
    BY <1>4, <1>5 DEF Keep

(* Its bits are set before the next link is looked at.                     *)
LEMMA AddStep ==
  ASSUME FilterInv, bloom_add
  PROVE  FilterInv'
  <1> USE DEF FilterInv
  <1>1. TypeInv'
    BY DEF bloom_add, TypeInv
  <1>2. /\ UNCHANGED <<olist, func, nlist, lost>>
        /\ bits' = bits \cup BitsOf(Looked) /\ iter' = iter + 1
        /\ pc = "add" /\ pc' = "loop"
    BY DEF bloom_add
  <1>3. (\E i \in 1..Len(nlist) : nlist[i] = Looked) \/ Looked \in lost
    BY <1>2 DEF LastIsHere
  <1>4. \A b : Owned(b)' <=> Owned(b)
    BY <1>2, SameBits DEF Owned
  <1>5. BitsAreKept'
    <2>1. \A b \in bits' : Owned(b)
      BY <1>2, <1>3 DEF BitsAreKept, Owned
    <2>2. \A i \in 1..Len(nlist) : BitsOf(nlist[i]) \subseteq bits'
      BY <1>2 DEF BitsAreKept
    <2> QED
      BY <1>2, <1>4, <2>1, <2>2, SameBits DEF BitsAreKept
  <1>6. Covered'
    <2> SUFFICES ASSUME NEW i \in 1..(iter' - 1), check(olist[i])
                 PROVE  BitsOf(olist[i]) \subseteq bits'
      BY <1>2, SameBits DEF Covered
    <2>1. i \in 1..(iter - 1) \/ i = iter
      BY <1>2 DEF TypeInv
    <2>2. CASE i \in 1..(iter - 1)
      BY <2>2, <1>2 DEF Covered
    <2>3. CASE i = iter
      BY <2>3, <1>2 DEF Looked
    <2> QED
      BY <2>1, <2>2, <2>3
  <1>7. LastIsHere' /\ Distinct'
    BY <1>2 DEF LastIsHere, Distinct
  <1> QED
    BY <1>1, <1>5, <1>6, <1>7

LEMMA FilterStep == FilterInv /\ [FilterNext]_filterVars => FilterInv'
  <1> SUFFICES ASSUME FilterInv, [FilterNext]_filterVars
               PROVE  FilterInv'
    OBVIOUS
  <1>1. CASE NoLinks \/ BloomNoMemory \/ BloomInit \/ bloom_destroy
    BY <1>1, QuietStep DEF NoLinks, BloomNoMemory, BloomInit, bloom_destroy
  <1>2. CASE Pass
    BY <1>2, PassStep
  <1>3. CASE Keep
    BY <1>3, KeepStep
  <1>4. CASE bloom_add
    BY <1>4, AddStep
  <1>5. CASE UNCHANGED filterVars
    <2>1. UNCHANGED <<olist, func, bits, nlist, lost, iter, pc>>
      BY <1>5 DEF filterVars
    <2>2. CASE pc # "add"
      BY <2>1, <2>2, QuietStep DEF FilterInv, TypeInv
    <2>3. CASE pc = "add"
      BY <2>1, <2>3, SameBits DEF FilterInv, TypeInv, BitsAreKept, Owned, LastIsHere, Looked, Covered, Distinct
    <2> QED
      BY <2>2, <2>3
  <1> QED
    BY <1>1, <1>2, <1>3, <1>4, <1>5 DEF FilterNext, Done

(* What the others need of filter's rounds, in every state.                *)
THEOREM FilterInvariant == FilterSpec => []FilterInv
  BY FilterBegins, FilterStep, PTL DEF FilterSpec

(* No link of a page is kept twice (worker.c:32), for any hash functions.  *)
THEOREM NoneTwice == FilterSpec => []KeptOnce
  <1>1. FilterInv => KeptOnce
    <2> SUFFICES ASSUME FilterInv PROVE KeptOnce
      OBVIOUS
    <2>1. DOMAIN nlist = 1..Len(nlist)
      BY DEF FilterInv, TypeInv
    <2> QED
      BY <2>1 DEF FilterInv, Distinct, KeptOnce, IsInjective
  <1> QED
    BY <1>1, FilterInvariant, PTL

(* A link that passes check is left out only when list_push_back had no    *)
(* memory for it, or when every one of its bits belongs to a link that was *)
(* kept or for which there was no memory.                                  *)
THEOREM LostByCollision == FilterSpec => []LostOnlyByCollision
  <1>1. FilterInv => LostOnlyByCollision
    <2> SUFFICES ASSUME FilterInv, pc # "add",
                        NEW i \in 1..(iter - 1), check(olist[i]),
                        NEW b \in BitsOf(olist[i])
                 PROVE  \E l \in Kept \cup lost : b \in BitsOf(l)
      BY DEF LostOnlyByCollision
    <2>1. Owned(b)
      BY DEF FilterInv, Covered, BitsAreKept
    <2>2. \A j \in 1..Len(nlist) : nlist[j] \in Kept
      BY DEF Kept, ToSet, FilterInv, TypeInv
    <2> QED
      BY <2>1, <2>2 DEF Owned
  <1> QED
    BY <1>1, FilterInvariant, PTL

-----------------------------------------------------------------------------
(* What filter answers. *)

\* The places of the page that have been looked at.
Seen == 1..(IF pc = "add" THEN iter ELSE iter - 1)

\* Every link kept passes check and has been seen, and each one at a place
\* before all the places of those kept after it.
InOrder ==
    /\ \A i \in 1..Len(nlist) : check(nlist[i]) /\ \E m \in Seen : olist[m] = nlist[i]
    /\ \A i, j \in 1..Len(nlist) : i < j =>
          \E m \in Seen : /\ olist[m] = nlist[i]
                          /\ \A n \in 1..Len(olist) : olist[n] = nlist[j] => m < n

\* The blocks of the filter are there while it runs, a page it runs for has
\* links, and what it keeps before it runs, or without running, is nothing.
Returning ==
    /\ pc \in {"init", "done"} => blocks = {}
    /\ pc \in {"loop", "add"} \/ ret = 1 => olist # <<>>
    /\ ret = 1 => pc = "done" /\ iter = Len(olist) + 1
    /\ pc = "init" \/ (pc = "done" /\ ret = 0) => nlist = <<>> /\ lost = {}

AnswerInv == FilterTypes /\ InOrder /\ Returning

(* The positions of a link's bits are in the array.                        *)
LEMMA BitsInArray ==
  ASSUME FilterTypes, olist # <<>>, NEW l \in Links, NEW b \in BitsOf(l)
  PROVE  b \in Nat /\ b < bsize
  <1>1. PICK f \in Funcs : b = func[f][l] % bsize
    BY DEF BitsOf
  <1>2. func[f][l] \in Nat
    <2>1. func \in [Funcs -> [Links -> Nat]]
      BY FilterAssumption DEF FilterTypes
    <2> QED
      BY <2>1
  <1>3. bsize \in Nat /\ bsize > 0
    <2>1. Len(olist) \in Nat /\ Len(olist) > 0
      BY DEF FilterTypes
    <2>2. Factor \in Nat /\ Factor > 0
      BY FilterAssumption
    <2> QED
      BY <2>1, <2>2 DEF bsize
  <1> HIDE DEF bsize
  <1> QED
    BY <1>1, <1>2, <1>3

(* Nothing is kept, seen or allocated yet.                                 *)
LEMMA AnswerInit == FilterInit => AnswerInv
  <1> SUFFICES ASSUME FilterInit PROVE AnswerInv
    OBVIOUS
  <1>1. olist \in Seq(Links)
    BY DEF FilterInit, SeqOf
  <1>2. FilterTypes
    BY <1>1 DEF FilterInit, FilterTypes
  <1>3. InOrder
    BY DEF FilterInit, InOrder
  <1>4. Returning
    BY DEF FilterInit, Returning
  <1> QED
    BY <1>2, <1>3, <1>4 DEF AnswerInv

(* The types, in a round.                                                  *)
LEMMA RoundTyped ==
  ASSUME AnswerInv, Pass \/ Keep \/ bloom_add
  PROVE  FilterTypes'
  <1> USE DEF AnswerInv
  <1>1. UNCHANGED <<olist, func>> /\ bsize' = bsize
    BY DEF Pass, Keep, bloom_add, bsize
  <1>2. olist # <<>> /\ iter \in 1..Len(olist) /\ Len(olist) \in Nat
    BY DEF Pass, Keep, bloom_add, FilterTypes
  <1>3. Looked \in Links
    BY <1>2 DEF Looked, FilterTypes
  <1>4. bits' \subseteq Nat /\ \A b \in bits' : b < bsize
    <2>1. CASE bits' = bits
      BY <2>1 DEF FilterTypes, Pass, Keep, bloom_add
    <2>2. CASE bits' = bits \cup BitsOf(Looked) /\ pc = "add"
      BY <2>2, <1>2, <1>3, BitsInArray DEF FilterTypes
    <2> QED
      BY <2>1, <2>2 DEF Pass, Keep, bloom_add
  <1>5. nlist' \in Seq(Links) /\ lost' \subseteq Links
    <2>1. nlist' \in Seq(Links)
      BY <1>3 DEF FilterTypes, Pass, Keep, bloom_add
    <2>2. lost' \subseteq Links
      BY <1>3 DEF FilterTypes, Pass, Keep, bloom_add
    <2> QED
      BY <2>1, <2>2
  <1>6. iter' \in 1..(Len(olist) + 1) /\ (pc' = "add" => iter' <= Len(olist))
    BY <1>2 DEF Pass, Keep, bloom_add
  <1>7. pc' \in {"loop", "add"} /\ UNCHANGED <<blocks, ret>>
    BY DEF Pass, Keep, bloom_add
  <1> QED
    BY <1>1, <1>4, <1>5, <1>6, <1>7 DEF FilterTypes

(* A step that keeps the lists and loses no place that was seen keeps the  *)
(* order.                                                                  *)
LEMMA SameOrder ==
  ASSUME InOrder, UNCHANGED <<olist, func, nlist>>, Seen \subseteq Seen'
  PROVE  InOrder'
  BY SameBits DEF InOrder

(* A link kept is new: were it at a place seen before, its bits would all  *)
(* be set (Covered).  So the links kept before it all come first.          *)
LEMMA KeepOrder ==
  ASSUME FilterInv, AnswerInv, Keep
  PROVE  InOrder'
  <1>1. /\ pc = "loop" /\ pc' = "add" /\ UNCHANGED <<olist, func, iter>>
        /\ check(Looked) /\ ~bloom_check(Looked)
        /\ iter \in 1..Len(olist) /\ Len(olist) \in Nat
    BY DEF Keep, AnswerInv, FilterTypes
  <1>2. Looked \in Links /\ nlist \in Seq(Links)
    BY <1>1 DEF Looked, AnswerInv, FilterTypes
  <1>3. CASE UNCHANGED nlist
    <2>1. Seen \subseteq Seen'
      BY <1>1 DEF Seen
    <2> QED
      BY <1>1, <1>3, <2>1, SameOrder DEF AnswerInv
  <1>4. CASE nlist' = Append(nlist, Looked)
    <2>1. /\ Len(nlist') = Len(nlist) + 1 /\ Len(nlist) \in Nat
          /\ nlist'[Len(nlist) + 1] = Looked
          /\ \A i \in 1..Len(nlist) : nlist'[i] = nlist[i]
      BY <1>2, <1>4
    <2>2. Seen = 1..(iter - 1) /\ Seen' = 1..iter
      BY <1>1 DEF Seen
    <2>3. \A n \in Seen : olist[n] # Looked
      BY <1>1, <2>2 DEF FilterInv, Covered, bloom_check
    <2>4. ASSUME NEW i \in 1..Len(nlist')
          PROVE  check(nlist'[i]) /\ \E m \in Seen' : olist[m] = nlist'[i]
      <3>1. CASE i \in 1..Len(nlist)
        <4>1. nlist'[i] = nlist[i] /\ Seen \subseteq Seen'
          BY <3>1, <1>1, <2>1, <2>2
        <4>2. check(nlist[i]) /\ \E m \in Seen : olist[m] = nlist[i]
          BY <3>1 DEF AnswerInv, InOrder
        <4> QED
          BY <4>1, <4>2
      <3>2. CASE i = Len(nlist) + 1
        <4>1. iter \in Seen' /\ olist[iter] = nlist'[i]
          BY <3>2, <1>1, <2>1, <2>2 DEF Looked
        <4> QED
          BY <4>1, <3>2, <1>1, <2>1
      <3> QED
        BY <3>1, <3>2, <2>1
    <2>5. ASSUME NEW i \in 1..Len(nlist'), NEW j \in 1..Len(nlist'), i < j
          PROVE  \E m \in Seen' : /\ olist[m] = nlist'[i]
                                  /\ \A n \in 1..Len(olist) : olist[n] = nlist'[j] => m < n
      <3>1. i \in 1..Len(nlist) /\ nlist'[i] = nlist[i]
        BY <2>1, <2>5
      <3>2. CASE j \in 1..Len(nlist)
        <4>1. nlist'[j] = nlist[j]
          BY <3>2, <2>1
        <4>2. PICK m \in Seen : /\ olist[m] = nlist[i]
                                /\ \A n \in 1..Len(olist) : olist[n] = nlist[j] => m < n
          BY <3>1, <3>2, <2>5 DEF AnswerInv, InOrder
        <4>3. m \in Seen'
          BY <1>1, <2>2
        <4> QED
          BY <3>1, <4>1, <4>2, <4>3
      <3>3. CASE j = Len(nlist) + 1
        <4>1. PICK m \in Seen : olist[m] = nlist[i]
          BY <3>1 DEF AnswerInv, InOrder
        <4>2. m \in Seen' /\ m < iter
          BY <1>1, <2>2
        <4>3. ASSUME NEW n \in 1..Len(olist), olist[n] = Looked
              PROVE  m < n
          BY <4>2, <4>3, <1>1, <2>2, <2>3
        <4> QED
          BY <3>1, <3>3, <2>1, <4>1, <4>2, <4>3
      <3> QED
        BY <3>2, <3>3, <2>1
    <2>6. \A l : check(l)' = check(l)
      BY <1>1, SameBits
    <2> QED
      BY <1>1, <2>4, <2>5, <2>6 DEF InOrder
  <1> QED
    BY <1>3, <1>4 DEF Keep

(* The answer is right after each step.                                    *)
LEMMA AnswerStep == FilterInv /\ AnswerInv /\ [FilterNext]_filterVars => AnswerInv'
  <1> SUFFICES ASSUME FilterInv, AnswerInv, [FilterNext]_filterVars
               PROVE  AnswerInv'
    OBVIOUS
  <1>1. ASSUME NoLinks \/ BloomNoMemory \/ BloomInit \/ bloom_destroy
        PROVE  FilterTypes' /\ InOrder' /\ Returning'
    <2>1. UNCHANGED <<olist, func, bits, nlist, lost, iter>>
      BY <1>1 DEF NoLinks, BloomNoMemory, BloomInit, bloom_destroy
    <2>2. pc # "add" /\ pc' # "add" /\ Seen' = Seen
      BY <1>1 DEF NoLinks, BloomNoMemory, BloomInit, bloom_destroy, Seen
    <2>3. InOrder'
      BY <2>1, <2>2, SameOrder DEF AnswerInv
    <2>4. bsize' = bsize
      BY <2>1 DEF bsize
    <2>5. bits = {} \/ pc = "loop"
      BY <1>1 DEF NoLinks, BloomNoMemory, BloomInit, bloom_destroy, FilterInv, BitsAreKept, Owned,
                  AnswerInv, Returning, FilterTypes
    <2>6. FilterTypes'
      BY <1>1, <2>1, <2>4, <2>5 DEF NoLinks, BloomNoMemory, BloomInit, bloom_destroy, AnswerInv, FilterTypes
    <2>7. Returning'
      <3>1. Returning /\ ret \in {0, 1} /\ iter \in 1..(Len(olist) + 1) /\ Len(olist) \in Nat
        BY DEF AnswerInv, FilterTypes
      <3>2. CASE NoLinks \/ BloomNoMemory \/ BloomInit
        BY <2>1, <3>1, <3>2 DEF NoLinks, BloomNoMemory, BloomInit, Returning
      <3>3. CASE bloom_destroy
        BY <2>1, <3>1, <3>3 DEF bloom_destroy, Returning
      <3> QED
        BY <1>1, <3>2, <3>3
    <2> QED
      BY <2>3, <2>6, <2>7
  <1>2. ASSUME Pass \/ Keep \/ bloom_add
        PROVE  FilterTypes' /\ InOrder' /\ Returning'
    <2>1. FilterTypes'
      BY <1>2, RoundTyped
    <2>2. ASSUME Keep PROVE InOrder'
      BY <2>2, KeepOrder
    <2>3. ASSUME Pass \/ bloom_add PROVE InOrder'
      <3>1. UNCHANGED <<olist, func, nlist>> /\ iter \in Nat /\ iter' = iter + 1
        BY <2>3 DEF Pass, bloom_add, AnswerInv, FilterTypes
      <3>2. Seen \subseteq Seen'
        BY <2>3, <3>1 DEF Pass, bloom_add, Seen
      <3> QED
        BY <3>1, <3>2, SameOrder DEF AnswerInv
    <2>4. Returning'
      BY <1>2 DEF Pass, Keep, bloom_add, AnswerInv, Returning, FilterTypes
    <2> QED
      BY <2>1, <2>2, <2>3, <2>4, <1>2
  <1>3. CASE UNCHANGED filterVars
    <2>1. UNCHANGED <<olist, func, bits, blocks, nlist, lost, iter, pc, ret>>
      BY <1>3 DEF filterVars
    <2>2. Seen' = Seen /\ bsize' = bsize
      BY <2>1 DEF Seen, bsize
    <2>3. FilterTypes' /\ Returning'
      BY <2>1, <2>2 DEF AnswerInv, FilterTypes, Returning
    <2> QED
      BY <2>1, <2>2, <2>3, SameOrder DEF AnswerInv
  <1> QED
    BY <1>1, <1>2, <1>3 DEF FilterNext, Done, AnswerInv

(* What holds of filter's answer holds in every state.                     *)
THEOREM AnswerInvariant == FilterSpec => [](FilterInv /\ AnswerInv)
  BY FilterBegins, FilterStep, AnswerInit, AnswerStep, PTL DEF FilterSpec

(* filter keeps links of the page that pass check, in the order in which   *)
(* the page first has them, whatever the hashes; it answers an error, and  *)
(* an empty list, only without links or memory, and frees every block.     *)
THEOREM AnswersRight == FilterSpec => []Filtered
  <1>1. AnswerInv => Filtered
    <2> SUFFICES ASSUME AnswerInv PROVE Filtered
      OBVIOUS
    <2>1. /\ DOMAIN nlist = 1..Len(nlist) /\ DOMAIN olist = 1..Len(olist)
          /\ Len(nlist) \in Nat /\ Len(olist) \in Nat
          /\ Seen \subseteq 1..Len(olist)
      BY DEF AnswerInv, FilterTypes, Seen
    <2>2. ASSUME NEW l \in Kept
          PROVE  check(l) /\ PlacesOf(l) # {}
      <3>1. PICK i \in 1..Len(nlist) : l = nlist[i]
        BY <2>1 DEF Kept, ToSet
      <3> QED
        BY <3>1, <2>1 DEF AnswerInv, InOrder, PlacesOf
    <2>3. ASSUME NEW i \in DOMAIN nlist, NEW j \in DOMAIN nlist, i < j
          PROVE  \E m \in PlacesOf(nlist[i]) : \A n \in PlacesOf(nlist[j]) : m < n
      <3>1. PICK m \in Seen : /\ olist[m] = nlist[i]
                              /\ \A n \in 1..Len(olist) : olist[n] = nlist[j] => m < n
        BY <2>1, <2>3 DEF AnswerInv, InOrder
      <3> QED
        BY <3>1, <2>1 DEF PlacesOf
    <2>4. CleanReturn
      BY DEF AnswerInv, CleanReturn, Returning
    <2> QED
      BY <2>2, <2>3, <2>4 DEF Filtered, KeptInOrder
  <1> QED
    BY <1>1, AnswerInvariant, PTL

-----------------------------------------------------------------------------
(* Sequences, sets and numbers. *)

\* Of the numbers that have a property there is a least.
LEMMA LeastNumber ==
    ASSUME NEW S \in SUBSET Nat, S # {}
    PROVE  \E n \in S : \A m \in S : n <= m
  <1>1. \E n \in S : \A m \in S : ~(<<m, n>> \in OpToRel(<, Nat))
    BY NatLessThanWellFounded, WFMin
  <1>2. \A n \in S : \A m \in S : ~(<<m, n>> \in OpToRel(<, Nat)) => n <= m
    BY DEF OpToRel
  <1> QED  BY <1>1, <1>2

\* A part of a sequence: its length and its elements.
LEMMA PartOf ==
    ASSUME NEW S, NEW s \in Seq(S), NEW i \in Nat \ {0}, NEW j \in Nat, j <= Len(s), i <= j + 1
    PROVE  /\ SubSeq(s, i, j) \in Seq(S)
           /\ Len(SubSeq(s, i, j)) = j - i + 1
           /\ \A k \in 1..(j - i + 1) : SubSeq(s, i, j)[k] = s[i + k - 1]
  <1>1. \A k \in i..j : s[k] \in S
    BY ElementOfSeq, LenProperties
  <1>2. i \in Int /\ j \in Int
    OBVIOUS
  <1>3. /\ SubSeq(s, i, j) \in Seq(S)
        /\ Len(SubSeq(s, i, j)) = IF i <= j THEN j - i + 1 ELSE 0
        /\ \A k \in 1..(j - i + 1) : SubSeq(s, i, j)[k] = s[i + k - 1]
    BY ONLY <1>1, <1>2, SubSeqProperties
  <1> QED  BY <1>3

\* Two characters of a sequence.
LEMMA TwoOf ==
    ASSUME NEW S, NEW s \in Seq(S), NEW i \in Nat \ {0}, i + 1 <= Len(s), NEW a \in S, NEW b \in S
    PROVE  SubSeq(s, i, i + 1) = <<a, b>> <=> s[i] = a /\ s[i + 1] = b
  <1> DEFINE t == SubSeq(s, i, i + 1)
  <1>1. Len(s) \in Nat
    BY LenProperties
  <1>2. t \in Seq(S) /\ Len(t) = 2 /\ t[1] = s[i] /\ t[2] = s[i + 1]
    <2>1. i + 1 \in Nat /\ i <= (i + 1) + 1
      OBVIOUS
    <2>2. t \in Seq(S) /\ Len(t) = (i + 1) - i + 1 /\ \A k \in 1..((i + 1) - i + 1) : t[k] = s[i + k - 1]
      BY <2>1, PartOf
    <2> HIDE DEF t
    <2> QED  BY <2>2
  <1> HIDE DEF t
  <1>3. t = <<a, b>> <=> t[1] = a /\ t[2] = b
    BY <1>2
  <1> QED  BY <1>2, <1>3 DEF t

\* Three.
LEMMA ThreeOf ==
    ASSUME NEW S, NEW s \in Seq(S), NEW i \in Nat \ {0}, i + 2 <= Len(s),
           NEW a \in S, NEW b \in S, NEW c \in S
    PROVE  SubSeq(s, i, i + 2) = <<a, b, c>> <=> s[i] = a /\ s[i + 1] = b /\ s[i + 2] = c
  <1> DEFINE t == SubSeq(s, i, i + 2)
  <1>1. Len(s) \in Nat
    BY LenProperties
  <1>2. t \in Seq(S) /\ Len(t) = 3 /\ t[1] = s[i] /\ t[2] = s[i + 1] /\ t[3] = s[i + 2]
    <2>1. i + 2 \in Nat /\ i <= (i + 2) + 1
      OBVIOUS
    <2>2. t \in Seq(S) /\ Len(t) = (i + 2) - i + 1 /\ \A k \in 1..((i + 2) - i + 1) : t[k] = s[i + k - 1]
      BY <2>1, PartOf
    <2> HIDE DEF t
    <2> QED  BY <2>2
  <1> HIDE DEF t
  <1>3. t = <<a, b, c>> <=> t[1] = a /\ t[2] = b /\ t[3] = c
    BY <1>2
  <1> QED  BY <1>2, <1>3 DEF t

\* Four.
LEMMA FourOf ==
    ASSUME NEW S, NEW s \in Seq(S), NEW i \in Nat \ {0}, i + 3 <= Len(s),
           NEW a \in S, NEW b \in S, NEW c \in S, NEW d \in S
    PROVE  SubSeq(s, i, i + 3) = <<a, b, c, d>>
             <=> s[i] = a /\ s[i + 1] = b /\ s[i + 2] = c /\ s[i + 3] = d
  <1> DEFINE t == SubSeq(s, i, i + 3)
  <1>1. Len(s) \in Nat
    BY LenProperties
  <1>2. /\ t \in Seq(S) /\ Len(t) = 4
        /\ t[1] = s[i] /\ t[2] = s[i + 1] /\ t[3] = s[i + 2] /\ t[4] = s[i + 3]
    <2>1. i + 3 \in Nat /\ i <= (i + 3) + 1
      OBVIOUS
    <2>2. t \in Seq(S) /\ Len(t) = (i + 3) - i + 1 /\ \A k \in 1..((i + 3) - i + 1) : t[k] = s[i + k - 1]
      BY <2>1, PartOf
    <2> HIDE DEF t
    <2> QED  BY <2>2
  <1> HIDE DEF t
  <1>3. t = <<a, b, c, d>> <=> t[1] = a /\ t[2] = b /\ t[3] = c /\ t[4] = d
    BY <1>2
  <1> QED  BY <1>2, <1>3 DEF t

\* A set of numbers and the same further on have as many elements.
LEMMA Shifted ==
    ASSUME NEW d \in Int, NEW A \in SUBSET Int, NEW B \in SUBSET Int, IsFiniteSet(A),
           \A i \in A : i + d \in B, \A k \in B : k - d \in A
    PROVE  IsFiniteSet(B) /\ Cardinality(B) = Cardinality(A)
  <1> DEFINE f == [i \in A |-> i + d]
  <1>1. f \in [A -> B]
    OBVIOUS
  <1>2. \A i \in A : \A k \in A : f[i] = f[k] => i = k
    OBVIOUS
  <1>3. \A k \in B : \E i \in A : f[i] = k
    <2> SUFFICES ASSUME NEW k \in B PROVE \E i \in A : f[i] = k
      OBVIOUS
    <2>1. k - d \in A /\ f[k - d] = k
      OBVIOUS
    <2> QED  BY <2>1
  <1> HIDE DEF f
  <1>4. ExistsBijection(A, B)
    BY <1>1, <1>2, <1>3 DEF ExistsBijection, Bijection, Injection, Surjection, IsInjective
  <1> QED  BY <1>4, FS_Bijection

\* A set of numbers from a to b is finite.
LEMMA PartFinite ==
    ASSUME NEW a \in Int, NEW b \in Int, NEW A \in SUBSET (a..b)
    PROVE  IsFiniteSet(A) /\ Cardinality(A) \in Nat
  BY FS_Interval, FS_Subset, FS_CardinalityType

-----------------------------------------------------------------------------
(* _search_root *)

\* The characters of a "./" and of a "../".
LEMMA DotIs ==
    ASSUME NEW link \in Seq(STRING), NEW c \in Nat
    PROVE  /\ Dot(link, c) <=> c + 2 < Len(link) /\ link[c + 1] = "." /\ link[c + 2] = "/"
           /\ DotDot(link, c) <=> /\ c + 3 < Len(link)
                                  /\ link[c + 1] = "." /\ link[c + 2] = "." /\ link[c + 3] = "/"
  <1>1. Len(link) \in Nat
    BY LenProperties
  <1>2. (c + 1) + 1 = c + 2 /\ (c + 1) + 2 = c + 3 /\ c + 1 \in Nat \ {0}
    OBVIOUS
  <1>3. ASSUME c + 2 < Len(link)
        PROVE  SubSeq(link, c + 1, c + 2) = <<".", "/">> <=> link[c + 1] = "." /\ link[c + 2] = "/"
    <2>1. (c + 1) + 1 <= Len(link)
      BY <1>1, <1>3
    <2>2. SubSeq(link, c + 1, (c + 1) + 1) = <<".", "/">> <=> link[c + 1] = "." /\ link[(c + 1) + 1] = "/"
      BY <1>2, <2>1, TwoOf
    <2> QED  BY <1>2, <2>2
  <1>4. ASSUME c + 3 < Len(link)
        PROVE  SubSeq(link, c + 1, c + 3) = <<".", ".", "/">>
                 <=> link[c + 1] = "." /\ link[c + 2] = "." /\ link[c + 3] = "/"
    <2>1. (c + 1) + 2 <= Len(link)
      BY <1>1, <1>4
    <2>2. SubSeq(link, c + 1, (c + 1) + 2) = <<".", ".", "/">>
            <=> link[c + 1] = "." /\ link[(c + 1) + 1] = "." /\ link[(c + 1) + 2] = "/"
      BY <1>2, <2>1, ThreeOf
    <2> QED  BY <1>2, <2>2
  <1> QED  BY <1>3, <1>4 DEF Dot, DotDot

\* What Skip computes from c on, when f does from further on.
SkipAt(f, link, c) ==
    CASE Dot(link, c)    -> f[c + 2]
      [] DotDot(link, c) -> [f[c + 3] EXCEPT !.layer = @ + 1]
      [] OTHER           -> [c |-> c, layer |-> 1]

\* f computes that.
Skips(f, link) == f = [c \in 0..Len(link) |-> SkipAt(f, link, c)]

\* Skip is what a function that computes it answers for 0.
LEMMA SkipIs == ASSUME NEW link PROVE Skip(link) = (CHOOSE f : Skips(f, link))[0]
  BY DEF Skip, Skips, SkipAt

\* Skip goes on to the right only: it computes what it is defined by.
LEMMA SkipAsDefined ==
    ASSUME NEW link \in Seq(STRING)
    PROVE  \E f : Skips(f, link) /\ Skip(link) = f[0]
  <1> DEFINE N == Len(link)
             UpTo(n) == \E f : \A c \in 0..N : N - c <= n => f[c] = SkipAt(f, link, c)
             Bad == {n \in Nat : ~UpTo(n)}
  <1>1. N \in Nat
    BY LenProperties
  <1>2. ASSUME NEW f, NEW g, NEW c \in 0..N,
               \A d \in 0..N : d > c => f[d] = g[d]
        PROVE  SkipAt(f, link, c) = SkipAt(g, link, c)
    <2>1. Dot(link, c) => f[c + 2] = g[c + 2]
      BY <1>1, <1>2 DEF Dot
    <2>2. DotDot(link, c) => f[c + 3] = g[c + 3]
      BY <1>1, <1>2 DEF DotDot
    <2> QED  BY <2>1, <2>2, Zenon DEF SkipAt
  <1> HIDE DEF N
  <1>3. Bad = {}
    <2> SUFFICES ASSUME Bad # {} PROVE FALSE
      OBVIOUS
    <2>1. Bad \in SUBSET Nat /\ Bad # {}
      OBVIOUS
    <2> HIDE DEF Bad
    <2> PICK n \in Bad : \A m \in Bad : n <= m
      BY <2>1, LeastNumber
    <2>2. n \in Nat
      BY <2>1
    <2>3. ~UpTo(n) /\ (n # 0 => UpTo(n - 1))
      <3>1. n # 0 => n - 1 \in Nat /\ ~(n <= n - 1)
        BY <2>2
      <3> QED  BY <2>2, <3>1 DEF Bad
    <2>4. PICK f : \A c \in 0..N : N - c <= n - 1 => f[c] = SkipAt(f, link, c)
      <3>1. CASE n = 0
        <4>1. \A c \in 0..N : ~(N - c <= n - 1)
          BY <1>1, <3>1
        <4> QED  BY <4>1
      <3>2. CASE n # 0
        BY <2>3, <3>2
      <3> QED  BY <3>1, <3>2
    <2> DEFINE g == [c \in 0..N |-> IF N - c <= n - 1 THEN f[c] ELSE SkipAt(f, link, c)]
    <2>5. \A c \in 0..N : g[c] = SkipAt(f, link, c) /\ (N - c <= n - 1 => g[c] = f[c])
      BY <2>4
    <2> HIDE DEF g
    <2>6. ASSUME NEW c \in 0..N, N - c <= n PROVE g[c] = SkipAt(g, link, c)
      <3>1. \A d \in 0..N : d > c => f[d] = g[d]
        <4>1. \A d \in 0..N : d > c => N - d <= n - 1
          BY <1>1, <2>2, <2>6
        <4> QED  BY <2>5, <4>1
      <3> QED  BY <1>2, <2>5, <3>1
    <2> QED  BY <2>3, <2>6
  <1>4. PICK f : \A c \in 0..N : f[c] = SkipAt(f, link, c)
    <2>1. UpTo(N)
      BY <1>1, <1>3
    <2>2. \A c \in 0..N : N - c <= N
      BY <1>1
    <2> QED  BY <2>1, <2>2
  <1> DEFINE g == [c \in 0..N |-> f[c]]
  <1>5. \A c \in 0..N : g[c] = f[c]
    OBVIOUS
  <1>6. g = [c \in 0..N |-> g[c]]
    OBVIOUS
  <1> HIDE DEF g
  <1>7. \A c \in 0..N : g[c] = SkipAt(g, link, c)
    BY <1>2, <1>4, <1>5
  <1>8. g = [c \in 0..N |-> SkipAt(g, link, c)]
    BY <1>6, <1>7
  <1>9. Skips(g, link)
    BY <1>8 DEF Skips, N
  <1>10. Skips(CHOOSE h : Skips(h, link), link)
    BY <1>9
  <1> QED  BY <1>10, SkipIs

\* The "." followed by another within link from c + 1 to d.
DotsIn(link, c, d) == {i \in (c + 1)..(d - 1) : link[i] = "." /\ link[i + 1] = "."}

\* There are finitely many of them.
LEMMA DotsFinite ==
    ASSUME NEW link, NEW c \in Nat, NEW d \in Nat
    PROVE  IsFiniteSet(DotsIn(link, c, d)) /\ Cardinality(DotsIn(link, c, d)) \in Nat
  <1>1. DotsIn(link, c, d) \in SUBSET ((c + 1)..(d - 1)) /\ c + 1 \in Int /\ d - 1 \in Int
    BY DEF DotsIn
  <1> QED  BY <1>1, PartFinite

\* Nothing but "./" and "../" is skipped, and a layer is gone up for each "..".
Skipped(link, c, r) ==
    /\ r = [c |-> r.c, layer |-> r.layer]
    /\ r.c \in c..Len(link) /\ (c < Len(link) => r.c < Len(link))
    /\ r.layer = 1 + Cardinality(DotsIn(link, c, r.c))
    /\ \A i \in (c + 1)..(r.c) : link[i] \in {".", "/"}
    /\ ~Dot(link, r.c) /\ ~DotDot(link, r.c)

\* From c on Skip goes on as Skipped says.
LEMMA SkipRight ==
    ASSUME NEW link \in Seq(STRING)
    PROVE  Skipped(link, 0, Skip(link))
  <1> DEFINE N == Len(link)
  <1>1. N \in Nat
    BY LenProperties
  <1> PICK f : Skips(f, link) /\ Skip(link) = f[0]
    BY SkipAsDefined
  <1>2. \A c \in 0..N : f[c] = SkipAt(f, link, c)
    BY DEF Skips
  <1> DEFINE Bad == {n \in Nat : n <= N /\ ~Skipped(link, N - n, f[N - n])}
  <1>3. ASSUME NEW c \in 0..N, \A d \in 0..N : d > c => Skipped(link, d, f[d])
        PROVE  Skipped(link, c, f[c])
    <2>1. f[c] = SkipAt(f, link, c)
      BY <1>2
    <2>c. c \in Nat /\ c <= N
      BY <1>1
    <2>2. CASE Dot(link, c)
      <3>1. c + 2 < N /\ link[c + 1] = "." /\ link[c + 2] = "/" /\ c + 2 \in 0..N
        BY <2>2, DotIs, <1>1
      <3>n. ~DotDot(link, c)
        BY <2>c, <3>1, DotIs
      <3>2. f[c] = f[c + 2]
        BY <2>1, <2>2, <3>n, Zenon DEF SkipAt
      <3> DEFINE r == f[c + 2]
      <3>3. Skipped(link, c + 2, r)
        BY <1>3, <3>1
      <3> HIDE DEF r
      <3>4. r.c \in Nat /\ r.c >= c + 2 /\ r.c < N
        BY <1>1, <3>1, <3>3 DEF Skipped
      <3>5. DotsIn(link, c, r.c) = DotsIn(link, c + 2, r.c)
        <4>1. \A i \in (c + 1)..(r.c - 1) : i = c + 1 \/ i = c + 2 \/ i \in (c + 3)..(r.c - 1)
          BY <3>4
        <4>2. \A i \in (c + 3)..(r.c - 1) : i \in (c + 1)..(r.c - 1)
          BY <3>4
        <4>3. (c + 1) + 1 = c + 2 /\ (c + 2) + 1 = c + 3
          OBVIOUS
        <4> QED  BY <3>1, <4>1, <4>2, <4>3 DEF DotsIn
      <3>6. \A i \in (c + 1)..(r.c) : link[i] \in {".", "/"}
        <4>1. \A i \in (c + 1)..(r.c) : i = c + 1 \/ i = c + 2 \/ i \in (c + 3)..(r.c)
          BY <3>4
        <4> QED  BY <3>1, <3>3, <4>1 DEF Skipped
      <3>7. r.c \in c..N /\ (c < N => r.c < N)
        BY <1>1, <3>4
      <3>8. Skipped(link, c, r)
        BY <3>3, <3>5, <3>6, <3>7 DEF Skipped
      <3> QED  BY <3>2, <3>8 DEF r
    <2>3. CASE ~Dot(link, c) /\ DotDot(link, c)
      <3>1. /\ c + 3 < N /\ link[c + 1] = "." /\ link[c + 2] = "." /\ link[c + 3] = "/"
            /\ c + 3 \in 0..N
        BY <2>3, DotIs, <1>1
      <3>2. f[c] = [f[c + 3] EXCEPT !.layer = @ + 1]
        BY <2>1, <2>3, Zenon DEF SkipAt
      <3> DEFINE r == f[c + 3]
      <3>3. Skipped(link, c + 3, r)
        BY <1>3, <3>1
      <3>h. f[c] = [r EXCEPT !.layer = @ + 1]
        BY <3>2
      <3> HIDE DEF r
      <3>4. r.c \in Nat /\ r.c >= c + 3 /\ r.c < N
        BY <1>1, <3>1, <3>3 DEF Skipped
      <3>5. /\ DotsIn(link, c, r.c) = DotsIn(link, c + 3, r.c) \cup {c + 1}
            /\ c + 1 \notin DotsIn(link, c + 3, r.c)
        <4>1. \A i \in (c + 1)..(r.c - 1) : i = c + 1 \/ i = c + 2 \/ i = c + 3 \/ i \in (c + 4)..(r.c - 1)
          BY <3>4
        <4>2. \A i \in (c + 4)..(r.c - 1) : i \in (c + 1)..(r.c - 1)
          BY <3>4
        <4>3. /\ (c + 1) + 1 = c + 2 /\ (c + 2) + 1 = c + 3 /\ (c + 3) + 1 = c + 4
              /\ c + 1 \in (c + 1)..(r.c - 1) /\ c + 1 \notin (c + 4)..(r.c - 1)
          BY <3>4
        <4> QED  BY <3>1, <4>1, <4>2, <4>3 DEF DotsIn
      <3>6. \A i \in (c + 1)..(r.c) : link[i] \in {".", "/"}
        <4>1. \A i \in (c + 1)..(r.c) : i = c + 1 \/ i = c + 2 \/ i = c + 3 \/ i \in (c + 4)..(r.c)
          BY <3>4
        <4>2. (c + 3) + 1 = c + 4
          OBVIOUS
        <4> QED  BY <3>1, <3>3, <4>1, <4>2 DEF Skipped
      <3>7. r.c \in c..N /\ (c < N => r.c < N)
        BY <1>1, <3>4
      <3>8. Cardinality(DotsIn(link, c, r.c)) = Cardinality(DotsIn(link, c + 3, r.c)) + 1
        <4>2. IsFiniteSet(DotsIn(link, c + 3, r.c))
          BY <2>c, <3>4, DotsFinite
        <4> QED  BY <3>5, <4>2, FS_AddElement
      <3>9. f[c].c = r.c /\ f[c].layer = r.layer + 1 /\ f[c] = [c |-> r.c, layer |-> r.layer + 1]
        BY <3>h, <3>3 DEF Skipped
      <3>10. r.layer + 1 = 1 + Cardinality(DotsIn(link, c, r.c))
        <4>1. Cardinality(DotsIn(link, c + 3, r.c)) \in Nat
          BY <2>c, <3>4, DotsFinite
        <4>2. r.layer = 1 + Cardinality(DotsIn(link, c + 3, r.c))
          BY <3>3 DEF Skipped
        <4> QED  BY <3>8, <4>1, <4>2
      <3> QED  BY <3>3, <3>6, <3>7, <3>9, <3>10 DEF Skipped
    <2>4. CASE ~Dot(link, c) /\ ~DotDot(link, c)
      <3>1. f[c] = [c |-> c, layer |-> 1]
        BY <2>1, <2>4, Zenon DEF SkipAt
      <3>2. DotsIn(link, c, c) = {} /\ Cardinality({}) = 0
        <4>1. (c + 1)..(c - 1) = {}
          BY <2>c
        <4> QED  BY <4>1, FS_EmptySet DEF DotsIn
      <3>3. (c + 1)..c = {} /\ c \in c..N
        BY <1>1, <2>c
      <3> DEFINE r == f[c]
      <3>4. r = [c |-> r.c, layer |-> r.layer] /\ r.c = c /\ r.layer = 1
        BY <3>1
      <3> HIDE DEF r
      <3>5. Skipped(link, c, r)
        <4>1. r.layer = 1 + Cardinality(DotsIn(link, c, r.c))
          <5>1. r.c = c /\ r.layer = 1
            BY <3>4
          <5>2. Cardinality(DotsIn(link, c, r.c)) = 0
            BY <3>2, <5>1, Zenon
          <5> QED  BY <5>1, <5>2
        <4>2. \A i \in (c + 1)..(r.c) : link[i] \in {".", "/"}
          BY <3>3, <3>4
        <4>3. ~Dot(link, r.c) /\ ~DotDot(link, r.c)
          BY <2>4, <3>4
        <4>4. r.c \in c..Len(link) /\ (c < Len(link) => r.c < Len(link))
          BY <3>3, <3>4
        <4>5. r = [c |-> r.c, layer |-> r.layer]
          BY <3>4
        <4> QED  BY <4>1, <4>2, <4>3, <4>4, <4>5, Zenon DEF Skipped
      <3> QED  BY <3>5 DEF r
    <2> QED  BY <2>2, <2>3, <2>4
  <1>4. Bad = {}
    <2> SUFFICES ASSUME Bad # {} PROVE FALSE
      OBVIOUS
    <2>1. Bad \in SUBSET Nat /\ Bad # {}
      OBVIOUS
    <2> HIDE DEF Bad
    <2> PICK n \in Bad : \A m \in Bad : n <= m
      BY <2>1, LeastNumber
    <2>2. n \in Nat /\ n <= N /\ ~Skipped(link, N - n, f[N - n])
      BY DEF Bad
    <2>3. \A d \in 0..N : d > N - n => Skipped(link, d, f[d])
      <3> SUFFICES ASSUME NEW d \in 0..N, d > N - n, ~Skipped(link, d, f[d]) PROVE FALSE
        OBVIOUS
      <3>1. N - d \in Nat /\ N - d <= N /\ N - (N - d) = d /\ N - d < n
        BY <1>1, <2>2
      <3>2. N - d \in Bad
        BY <3>1 DEF Bad
      <3>3. n <= N - d
        BY <3>2
      <3> QED  BY <1>1, <2>2, <3>1, <3>3
    <2>4. N - n \in 0..N
      BY <1>1, <2>2
    <2> QED  BY <1>3, <2>2, <2>3, <2>4
  <1>5. Skipped(link, N - N, f[N - N])
    BY <1>1, <1>4
  <1>6. N - N = 0
    BY <1>1
  <1> QED  BY <1>5, <1>6

\* What PrefixSize computes from i back, when f does from before.
BackAt(f, i, l) ==
    CASE i = 0                         -> 0
      [] i > 0 /\ url[i] = "/" /\ l = 1 -> i
      [] i > 0 /\ url[i] = "/" /\ l > 1 -> f[<<i - 1, l - 1>>]
      [] OTHER                         -> f[<<i - 1, l>>]

\* f computes that.
Backs(f, layer) == f = [p \in (0..Len(url)) \X (1..layer) |-> BackAt(f, p[1], p[2])]

\* PrefixSize is what a function that computes it answers for the end of url.
LEMMA PrefixIs ==
    ASSUME NEW layer
    PROVE  PrefixSize(layer) = (CHOOSE f : Backs(f, layer))[<<Len(url), layer>>]
  BY DEF PrefixSize, Backs, BackAt

\* PrefixSize goes back by a character at a time: it computes what it is defined by.
LEMMA PrefixAsDefined ==
    ASSUME url \in Seq(STRING), NEW layer \in Nat \ {0}
    PROVE  \E f : Backs(f, layer) /\ PrefixSize(layer) = f[<<Len(url), layer>>]
  <1> DEFINE N == Len(url)
             UpTo(n) == \E f : \A i \in 0..N, l \in 1..layer : i <= n => f[<<i, l>>] = BackAt(f, i, l)
             Bad == {n \in Nat : ~UpTo(n)}
  <1>1. N \in Nat
    BY LenProperties
  <1>2. ASSUME NEW f, NEW g, NEW i \in 0..N, NEW l \in 1..layer,
               \A k \in 0..N, m \in 1..layer : k < i => f[<<k, m>>] = g[<<k, m>>]
        PROVE  BackAt(f, i, l) = BackAt(g, i, l)
    <2>1. CASE i = 0
      BY <2>1 DEF BackAt
    <2>2. CASE i > 0
      <3>1. i - 1 \in 0..N /\ i - 1 < i /\ (l > 1 => l - 1 \in 1..layer)
        BY <1>1, <2>2
      <3>2. f[<<i - 1, l>>] = g[<<i - 1, l>>] /\ (l > 1 => f[<<i - 1, l - 1>>] = g[<<i - 1, l - 1>>])
        BY <1>2, <3>1
      <3> QED  BY <3>2, Zenon DEF BackAt
    <2> QED  BY <1>1, <2>1, <2>2
  <1> HIDE DEF N
  <1>3. Bad = {}
    <2> SUFFICES ASSUME Bad # {} PROVE FALSE
      OBVIOUS
    <2>1. Bad \in SUBSET Nat /\ Bad # {}
      OBVIOUS
    <2> HIDE DEF Bad
    <2> PICK n \in Bad : \A m \in Bad : n <= m
      BY <2>1, LeastNumber
    <2>2. n \in Nat
      BY <2>1
    <2>3. ~UpTo(n) /\ (n # 0 => UpTo(n - 1))
      <3>1. n # 0 => n - 1 \in Nat /\ ~(n <= n - 1)
        BY <2>2
      <3> QED  BY <2>2, <3>1 DEF Bad
    <2>4. PICK f : \A i \in 0..N, l \in 1..layer : i <= n - 1 => f[<<i, l>>] = BackAt(f, i, l)
      <3>1. CASE n = 0
        <4>1. \A i \in 0..N : ~(i <= n - 1)
          BY <1>1, <3>1
        <4> QED  BY <4>1
      <3>2. CASE n # 0
        BY <2>3, <3>2
      <3> QED  BY <3>1, <3>2
    <2> DEFINE g == [p \in (0..N) \X (1..layer) |-> IF p[1] <= n - 1 THEN f[p] ELSE BackAt(f, p[1], p[2])]
    <2>5. \A i \in 0..N, l \in 1..layer :
             g[<<i, l>>] = BackAt(f, i, l) /\ (i <= n - 1 => g[<<i, l>>] = f[<<i, l>>])
      BY <2>4
    <2> HIDE DEF g
    <2>6. ASSUME NEW i \in 0..N, NEW l \in 1..layer, i <= n PROVE g[<<i, l>>] = BackAt(g, i, l)
      <3>1. \A k \in 0..N, m \in 1..layer : k < i => f[<<k, m>>] = g[<<k, m>>]
        <4>1. \A k \in 0..N : k < i => k <= n - 1
          BY <1>1, <2>2, <2>6
        <4> QED  BY <2>5, <4>1
      <3> QED  BY <1>2, <2>5, <3>1
    <2> QED  BY <2>3, <2>6
  <1>4. PICK f : \A i \in 0..N, l \in 1..layer : f[<<i, l>>] = BackAt(f, i, l)
    <2>1. UpTo(N)
      BY <1>1, <1>3
    <2>2. \A i \in 0..N : i <= N
      BY <1>1
    <2> QED  BY <2>1, <2>2
  <1> DEFINE g == [p \in (0..N) \X (1..layer) |-> f[p]]
  <1>5. \A i \in 0..N, l \in 1..layer : g[<<i, l>>] = f[<<i, l>>]
    OBVIOUS
  <1>6. g = [p \in (0..N) \X (1..layer) |-> g[p]]
    OBVIOUS
  <1> HIDE DEF g
  <1>7. \A i \in 0..N, l \in 1..layer : g[<<i, l>>] = BackAt(g, i, l)
    BY <1>2, <1>4, <1>5
  <1>8. g = [p \in (0..N) \X (1..layer) |-> BackAt(g, p[1], p[2])]
    <2>1. \A p \in (0..N) \X (1..layer) : g[p] = BackAt(g, p[1], p[2])
      BY <1>7
    <2> QED  BY <1>6, <2>1
  <1>9. Backs(g, layer)
    BY <1>8 DEF Backs, N
  <1>10. Backs(CHOOSE h : Backs(h, layer), layer)
    BY <1>9
  <1> QED  BY <1>10, PrefixIs

\* The slashes of url from a to b.
SlashesIn(a, b) == {k \in a..b : url[k] = "/"}

\* There are finitely many of them.
LEMMA SlashesFinite ==
    ASSUME NEW a \in Int, NEW b \in Int
    PROVE  IsFiniteSet(SlashesIn(a, b)) /\ Cardinality(SlashesIn(a, b)) \in Nat
  <1>1. SlashesIn(a, b) \in SUBSET (a..b)
    BY DEF SlashesIn
  <1> QED  BY <1>1, PartFinite

\* Up to r, a slash, there are l slashes back from i; or there are fewer.
Prefixed(i, l, r) ==
    /\ r \in 0..i
    /\ r = 0 => Cardinality(SlashesIn(1, i)) < l
    /\ r # 0 => url[r] = "/" /\ Cardinality(SlashesIn(r + 1, i)) = l - 1

\* One character further back.
LEMMA SlashesStep ==
    ASSUME NEW i \in Nat \ {0}, NEW a \in Nat, a <= i
    PROVE  Cardinality(SlashesIn(a, i)) =
             IF url[i] = "/" THEN Cardinality(SlashesIn(a, i - 1)) + 1 ELSE Cardinality(SlashesIn(a, i - 1))
  <1>1. a..i = (a..(i - 1)) \cup {i} /\ i \notin a..(i - 1) /\ i - 1 \in Int
    OBVIOUS
  <1>2. CASE url[i] = "/"
    <2>1. SlashesIn(a, i) = SlashesIn(a, i - 1) \cup {i} /\ i \notin SlashesIn(a, i - 1)
      BY <1>1, <1>2 DEF SlashesIn
    <2>2. a \in Int /\ i - 1 \in Int
      OBVIOUS
    <2>3. IsFiniteSet(SlashesIn(a, i - 1))
      BY ONLY <2>2, SlashesFinite
    <2> QED  BY <1>2, <2>1, <2>3, FS_AddElement
  <1>3. CASE url[i] # "/"
    <2>1. SlashesIn(a, i) = SlashesIn(a, i - 1)
      BY <1>1, <1>3 DEF SlashesIn
    <2> QED  BY <1>3, <2>1
  <1> QED  BY <1>2, <1>3

\* PrefixSize goes back as Prefixed says.
LEMMA PrefixRight ==
    ASSUME url \in Seq(STRING), NEW layer \in Nat \ {0}
    PROVE  Prefixed(Len(url), layer, PrefixSize(layer))
  <1> DEFINE N == Len(url)
  <1>1. N \in Nat
    BY LenProperties
  <1> PICK f : Backs(f, layer) /\ PrefixSize(layer) = f[<<N, layer>>]
    BY PrefixAsDefined
  <1>2. \A i \in 0..N, l \in 1..layer : f[<<i, l>>] = BackAt(f, i, l)
    BY DEF Backs
  <1> HIDE DEF N
  <1> DEFINE Bad == {i \in 0..N : \E l \in 1..layer : ~Prefixed(i, l, f[<<i, l>>])}
  <1>3. ASSUME NEW i \in 0..N, NEW l \in 1..layer,
               i > 0 => \A m \in 1..layer : Prefixed(i - 1, m, f[<<i - 1, m>>])
        PROVE  Prefixed(i, l, f[<<i, l>>])
    <2>1. f[<<i, l>>] = BackAt(f, i, l)
      BY <1>2
    <2>2. i \in Nat /\ l \in Nat /\ l >= 1
      BY <1>1
    <2>3. CASE i = 0
      <3>1. f[<<i, l>>] = 0
        BY <2>1, <2>3 DEF BackAt
      <3>2. Cardinality(SlashesIn(1, i)) = 0
        <4>1. SlashesIn(1, i) = {}
          BY <2>3 DEF SlashesIn
        <4> QED  BY <4>1, FS_EmptySet
      <3> QED  BY <2>2, <2>3, <3>1, <3>2 DEF Prefixed
    <2>4. CASE i > 0 /\ url[i] = "/" /\ l = 1
      <3>1. f[<<i, l>>] = i
        BY <2>1, <2>4 DEF BackAt
      <3>2. Cardinality(SlashesIn(i + 1, i)) = 0
        <4>1. (i + 1)..i = {}
          BY <2>2
        <4>2. SlashesIn(i + 1, i) = {}
          BY <4>1 DEF SlashesIn
        <4> QED  BY <4>2, FS_EmptySet
      <3> DEFINE r == f[<<i, l>>]
      <3>3. r = i
        BY <3>1
      <3> HIDE DEF r
      <3>4. Prefixed(i, l, r)
        BY <2>2, <2>4, <3>2, <3>3 DEF Prefixed
      <3> QED  BY <3>4 DEF r
    <2>5. CASE i > 0 /\ url[i] = "/" /\ l > 1
      <3> DEFINE r == f[<<i - 1, l - 1>>]
      <3>1. f[<<i, l>>] = r
        <4>1. l # 1 /\ i # 0
          BY <2>2, <2>5
        <4> QED  BY <2>1, <2>5, <4>1 DEF BackAt
      <3>2. Prefixed(i - 1, l - 1, r)
        <4>1. l - 1 \in 1..layer
          BY <2>2, <2>5
        <4> QED  BY <1>3, <2>5, <4>1
      <3> HIDE DEF r
      <3>3. r \in 0..(i - 1) /\ 1 <= i /\ (r # 0 => r + 1 \in Nat /\ r + 1 <= i)
        BY <2>2, <2>5, <3>2 DEF Prefixed
      <3>4. /\ Cardinality(SlashesIn(1, i)) = Cardinality(SlashesIn(1, i - 1)) + 1
            /\ r # 0 => Cardinality(SlashesIn(r + 1, i)) = Cardinality(SlashesIn(r + 1, i - 1)) + 1
        BY <2>2, <2>5, <3>3, SlashesStep
      <3>5. /\ Cardinality(SlashesIn(1, i - 1)) \in Nat
            /\ r # 0 => Cardinality(SlashesIn(r + 1, i - 1)) \in Nat
        <4>1. 1 \in Int /\ i - 1 \in Int /\ (r # 0 => r + 1 \in Int)
          BY <2>2, <3>3
        <4> QED  BY <4>1, SlashesFinite
      <3>6. Prefixed(i, l, r)
        BY <2>2, <2>5, <3>2, <3>3, <3>4, <3>5 DEF Prefixed
      <3> QED  BY <3>1, <3>6
    <2>6. CASE i > 0 /\ url[i] # "/"
      <3> DEFINE r == f[<<i - 1, l>>]
      <3>1. f[<<i, l>>] = r
        <4>1. i # 0
          BY <2>2, <2>6
        <4> QED  BY <2>1, <2>6, <4>1 DEF BackAt
      <3>2. Prefixed(i - 1, l, r)
        BY <1>3, <2>6
      <3> HIDE DEF r
      <3>3. r \in 0..(i - 1) /\ 1 <= i /\ (r # 0 => r + 1 \in Nat /\ r + 1 <= i)
        BY <2>2, <2>6, <3>2 DEF Prefixed
      <3>4. /\ Cardinality(SlashesIn(1, i)) = Cardinality(SlashesIn(1, i - 1))
            /\ r # 0 => Cardinality(SlashesIn(r + 1, i)) = Cardinality(SlashesIn(r + 1, i - 1))
        BY <2>2, <2>6, <3>3, SlashesStep
      <3>6. Prefixed(i, l, r)
        BY <2>2, <2>6, <3>2, <3>3, <3>4 DEF Prefixed
      <3> QED  BY <3>1, <3>6
    <2> QED  BY <2>2, <2>3, <2>4, <2>5, <2>6
  <1>4. Bad = {}
    <2> SUFFICES ASSUME Bad # {} PROVE FALSE
      OBVIOUS
    <2>1. Bad \in SUBSET Nat /\ Bad # {}
      BY <1>1
    <2> HIDE DEF Bad
    <2> PICK i \in Bad : \A m \in Bad : i <= m
      BY <2>1, LeastNumber
    <2>2. i \in 0..N /\ \E l \in 1..layer : ~Prefixed(i, l, f[<<i, l>>])
      BY DEF Bad
    <2>3. i > 0 => \A m \in 1..layer : Prefixed(i - 1, m, f[<<i - 1, m>>])
      <3> SUFFICES ASSUME i > 0, i - 1 \notin Bad PROVE \A m \in 1..layer : Prefixed(i - 1, m, f[<<i - 1, m>>])
        <4>1. i > 0 => i - 1 \notin Bad
          <5>1. i > 0 => ~(i <= i - 1)
            BY <1>1, <2>2
          <5> QED  BY <5>1
        <4> QED  BY <4>1
      <3>1. i - 1 \in 0..N
        BY <1>1, <2>2
      <3> QED  BY <3>1 DEF Bad
    <2> QED  BY <1>3, <2>2, <2>3
  <1>5. N \in 0..N /\ layer \in 1..layer
    BY <1>1
  <1>6. Prefixed(N, layer, f[<<N, layer>>])
    BY <1>4, <1>5
  <1> QED  BY <1>6 DEF N

\* What a sequence of two, or of three, begins.
LEMMA TwoBegin ==
    ASSUME NEW S, NEW s \in Seq(S), NEW a, NEW b
    PROVE  /\ IsPrefix(<<a, b>>, s) <=> Len(s) >= 2 /\ s[1] = a /\ s[2] = b
           /\ IsPrefix(<<a, b>>, s) /\ Len(s) = 2 => <<a, b>> = s
  <1> DEFINE u == <<a, b>>
  <1>1. u \in Seq({a, b}) /\ Len(u) = 2 /\ Len(s) \in Nat
    BY LenProperties
  <1>2. SubSeq(u, 1, Len(u)) = u
    BY <1>1, SubSeqFull
  <1>3. Len(s) >= 2 => (SubSeq(s, 1, 1 + 1) = u <=> s[1] = a /\ s[1 + 1] = b)
    <2> DEFINE T == S \cup {a, b}
    <2>1. s \in Seq(T) /\ a \in T /\ b \in T
      BY SeqMonotonic
    <2> HIDE DEF T
    <2> QED  BY <1>1, <2>1, TwoOf
  <1>4. 1 + 1 = 2
    OBVIOUS
  <1>5. Len(s) = 2 => SubSeq(s, 1, Len(u)) = s
    BY <1>1, SubSeqFull
  <1> HIDE DEF u
  <1>6. IsPrefix(u, s) <=> Len(s) >= 2 /\ s[1] = a /\ s[2] = b
    BY <1>1, <1>2, <1>3, <1>4 DEF IsPrefix
  <1>7. IsPrefix(u, s) /\ Len(s) = 2 => u = s
    BY <1>1, <1>2, <1>5 DEF IsPrefix
  <1> QED  BY <1>6, <1>7 DEF u

\* What a sequence of three begins.
LEMMA ThreeBegin ==
    ASSUME NEW S, NEW s \in Seq(S), NEW a, NEW b, NEW c
    PROVE  /\ IsPrefix(<<a, b, c>>, s) <=> Len(s) >= 3 /\ s[1] = a /\ s[2] = b /\ s[3] = c
           /\ IsPrefix(<<a, b, c>>, s) /\ Len(s) = 3 => <<a, b, c>> = s
  <1> DEFINE u == <<a, b, c>>
  <1>1. u \in Seq({a, b, c}) /\ Len(u) = 3 /\ Len(s) \in Nat
    BY LenProperties
  <1>2. SubSeq(u, 1, Len(u)) = u
    BY <1>1, SubSeqFull
  <1>3. Len(s) >= 3 => (SubSeq(s, 1, 1 + 2) = u <=> s[1] = a /\ s[1 + 1] = b /\ s[1 + 2] = c)
    <2> DEFINE T == S \cup {a, b, c}
    <2>1. s \in Seq(T) /\ a \in T /\ b \in T /\ c \in T
      BY SeqMonotonic
    <2> HIDE DEF T
    <2> QED  BY <1>1, <2>1, ThreeOf
  <1>4. 1 + 1 = 2 /\ 1 + 2 = 3
    OBVIOUS
  <1>5. Len(s) = 3 => SubSeq(s, 1, Len(u)) = s
    BY <1>1, SubSeqFull
  <1> HIDE DEF u
  <1>6. IsPrefix(u, s) <=> Len(s) >= 3 /\ s[1] = a /\ s[2] = b /\ s[3] = c
    BY <1>1, <1>2, <1>3, <1>4 DEF IsPrefix
  <1>7. IsPrefix(u, s) /\ Len(s) = 3 => u = s
    BY <1>1, <1>2, <1>5 DEF IsPrefix
  <1> QED  BY <1>6, <1>7 DEF u

\* What is left of a link when all is skipped begins with neither, or is it.
LEMMA RestOfLink ==
    ASSUME NEW link \in Seq(STRING), NEW c \in Nat, c <= Len(link), ~Dot(link, c), ~DotDot(link, c),
           NEW up \in {<<".", "/">>, <<".", ".", "/">>},
           IsPrefix(up, SubSeq(link, c + 1, Len(link)))
    PROVE  up = SubSeq(link, c + 1, Len(link))
  <1> DEFINE t == SubSeq(link, c + 1, Len(link))
  <1>1. Len(link) \in Nat
    BY LenProperties
  <1>2. t \in Seq(STRING) /\ Len(t) = Len(link) - c /\ \A k \in 1..(Len(link) - c) : t[k] = link[c + k]
    <2>1. c + 1 \in Nat \ {0} /\ c + 1 <= Len(link) + 1 /\ Len(link) <= Len(link)
      BY <1>1
    <2>2. /\ t \in Seq(STRING) /\ Len(t) = Len(link) - (c + 1) + 1
          /\ \A k \in 1..(Len(link) - (c + 1) + 1) : t[k] = link[(c + 1) + k - 1]
      BY <1>1, <2>1, PartOf
    <2> HIDE DEF t
    <2>3. Len(link) - (c + 1) + 1 = Len(link) - c /\ \A k \in Nat : (c + 1) + k - 1 = c + k
      BY <1>1
    <2> QED  BY <2>2, <2>3
  <1> HIDE DEF t
  <1>3. CASE up = <<".", "/">>
    <2>1. IsPrefix(<<".", "/">>, t)
      BY <1>3 DEF t
    <2>b. Len(t) >= 2 /\ t[1] = "." /\ t[2] = "/" /\ (Len(t) = 2 => <<".", "/">> = t)
      BY ONLY <1>2, <2>1, TwoBegin
    <2>2. Len(t) >= 2 /\ t[1] = "." /\ t[2] = "/" /\ (Len(t) = 2 => up = t)
      BY <1>3, <2>b
    <2>3. link[c + 1] = "." /\ link[c + 2] = "/"
      BY <1>1, <1>2, <2>2
    <2>4. Len(t) = 2
      BY <1>1, <1>2, <2>2, <2>3, DotIs
    <2> QED  BY <2>2, <2>4 DEF t
  <1>4. CASE up = <<".", ".", "/">>
    <2>1. IsPrefix(<<".", ".", "/">>, t)
      BY <1>4 DEF t
    <2>b. Len(t) >= 3 /\ t[1] = "." /\ t[2] = "." /\ t[3] = "/" /\ (Len(t) = 3 => <<".", ".", "/">> = t)
      BY ONLY <1>2, <2>1, ThreeBegin
    <2>2. Len(t) >= 3 /\ t[1] = "." /\ t[2] = "." /\ t[3] = "/" /\ (Len(t) = 3 => up = t)
      BY <1>4, <2>b
    <2>3. link[c + 1] = "." /\ link[c + 2] = "." /\ link[c + 3] = "/"
      BY <1>1, <1>2, <2>2
    <2>4. Len(t) = 3
      <3>1. ~(c + 3 < Len(link))
        BY <2>3, DotIs
      <3> QED  BY <1>1, <1>2, <2>2, <3>1
    <2> QED  BY <2>2, <2>4 DEF t
  <1> QED  BY <1>3, <1>4

\* Ups counts what is skipped over.
LEMMA UpsIs ==
    ASSUME NEW link \in Seq(STRING), NEW c \in Nat, c <= Len(link)
    PROVE  Ups(link, c) = Cardinality(DotsIn(link, 0, c))
  <1>1. Len(link) \in Nat
    BY LenProperties
  <1>2. \A i \in 1..(c - 1) : SubSeq(link, i, i + 1) = <<".", ".">> <=> link[i] = "." /\ link[i + 1] = "."
    <2> SUFFICES ASSUME NEW i \in 1..(c - 1)
                 PROVE SubSeq(link, i, i + 1) = <<".", ".">> <=> link[i] = "." /\ link[i + 1] = "."
      OBVIOUS
    <2>1. i \in Nat \ {0} /\ i + 1 <= Len(link)
      BY <1>1
    <2> QED  BY <2>1, TwoOf
  <1>3. {i \in 1..(c - 1) : SubSeq(link, i, i + 1) = <<".", ".">>} = DotsIn(link, 0, c)
    <2>1. 0 + 1 = 1
      OBVIOUS
    <2> QED  BY <1>2, <2>1 DEF DotsIn
  <1> QED  BY <1>3 DEF Ups

\* Slashes counts those of a part of url.
LEMMA SlashesOfRest ==
    ASSUME url \in Seq(STRING), NEW n \in Nat, n <= Len(url)
    PROVE  Slashes(SubSeq(url, n + 1, Len(url))) = Cardinality(SlashesIn(n + 1, Len(url)))
  <1> DEFINE t == SubSeq(url, n + 1, Len(url))
  <1>1. Len(url) \in Nat
    BY LenProperties
  <1>2. /\ t \in Seq(STRING) /\ DOMAIN t = 1..(Len(url) - n)
        /\ \A k \in 1..(Len(url) - n) : t[k] = url[n + k]
    <2>1. n + 1 \in Nat \ {0} /\ n + 1 <= Len(url) + 1 /\ Len(url) <= Len(url)
      BY <1>1
    <2>2. /\ t \in Seq(STRING) /\ Len(t) = Len(url) - (n + 1) + 1
          /\ \A k \in 1..(Len(url) - (n + 1) + 1) : t[k] = url[(n + 1) + k - 1]
      BY <1>1, <2>1, PartOf
    <2> HIDE DEF t
    <2>3. Len(url) - (n + 1) + 1 = Len(url) - n /\ \A k \in Nat : (n + 1) + k - 1 = n + k
      BY <1>1
    <2>4. DOMAIN t = 1..Len(t) /\ Len(t) = Len(url) - n
      BY <2>2, <2>3, LenProperties
    <2>5. \A k \in 1..(Len(url) - n) : t[k] = url[n + k]
      BY <2>2, <2>3
    <2> QED  BY <2>2, <2>4, <2>5
  <1> HIDE DEF t
  <1> DEFINE B == {i \in DOMAIN t : t[i] = "/"}
             A == SlashesIn(n + 1, Len(url))
  <1>3. \A i \in A : i + (0 - n) \in B
    BY <1>1, <1>2 DEF SlashesIn
  <1>4. \A k \in B : k - (0 - n) \in A
    BY <1>1, <1>2 DEF SlashesIn
  <1>5. IsFiniteSet(A) /\ A \in SUBSET Int /\ B \in SUBSET Int /\ 0 - n \in Int
    <2>1. n + 1 \in Int /\ Len(url) \in Int
      BY <1>1
    <2>2. A \in SUBSET Int /\ B \in SUBSET Int
      <3>1. A \subseteq (n + 1)..Len(url) /\ B \subseteq 1..(Len(url) - n)
        BY <1>2 DEF SlashesIn
      <3> QED  BY <1>1, <3>1
    <2>3. IsFiniteSet(A)
      BY <2>1, SlashesFinite
    <2> QED  BY <2>2, <2>3
  <1> HIDE DEF A, B
  <1>6. Cardinality(B) = Cardinality(A)
    BY ONLY <1>3, <1>4, <1>5, Shifted
  <1> QED  BY <1>6 DEF A, B, Slashes, t

\* What Resolved says of a link and of what is made of it.
ResolvesTo(link, abs) ==
    IF IsPrefix(http, link) THEN abs = link
    ELSE \E c \in 0..(Len(link) - 1), n \in 1..Len(url) :
            /\ abs = SubSeq(url, 1, n) \o SubSeq(link, c + 1, Len(link))
            /\ url[n] = "/"
            /\ ToSet(SubSeq(link, 1, c)) \subseteq {".", "/"}
            /\ Slashes(SubSeq(url, n + 1, Len(url))) = Ups(link, c)
            /\ \A up \in {<<".", "/">>, <<".", ".", "/">>} :
                  IsPrefix(up, SubSeq(link, c + 1, Len(link))) => up = SubSeq(link, c + 1, Len(link))

\* A link is pushed as Resolved says or not at all; and it is if it is
\* absolute, or does not climb beyond the first slash of url.
LEMMA AbsoluteRight ==
    ASSUME url \in Seq(STRING), NEW link \in Seq(STRING)
    PROVE  /\ \/ Absolute(link) = <<>>
              \/ \E abs \in Seq(STRING) : Absolute(link) = <<abs>> /\ ResolvesTo(link, abs)
           /\ /\ link # <<>>
              /\ IsPrefix(http, link) \/ Ups(link, Len(link)) < Slashes(url)
              => Absolute(link) # <<>>
  <1> DEFINE N == Len(link)
             c == Skip(link).c
             layer == Skip(link).layer
             n == PrefixSize(layer)
             path == SubSeq(link, c + 1, Len(link))
             prefix == SubSeq(url, 1, n)
  <1>1. N \in Nat /\ Len(url) \in Nat
    BY LenProperties
  <1>2. CASE IsPrefix(http, link)
    <2>1. Len(http) = 7
      BY DEF http
    <2>2. IsAbsolute(link)
      BY <1>1, <1>2, <2>1 DEF IsAbsolute, IsPrefix
    <2>3. Absolute(link) = <<link>>
      BY <2>2 DEF Absolute
    <2> QED  BY <1>2, <2>3 DEF ResolvesTo
  <1>3. CASE ~IsPrefix(http, link)
    <2>1. Absolute(link) = IF prefix # <<>> /\ path # <<>> THEN <<prefix \o path>> ELSE <<>>
      BY <1>3 DEF Absolute, IsAbsolute
    <2>2. Skipped(link, 0, Skip(link))
      BY SkipRight
    <2>3. /\ c \in 0..N /\ (0 < N => c < N)
          /\ layer = 1 + Cardinality(DotsIn(link, 0, c))
          /\ \A i \in 1..c : link[i] \in {".", "/"}
          /\ ~Dot(link, c) /\ ~DotDot(link, c)
      <3>1. 0 + 1 = 1
        OBVIOUS
      <3> QED  BY <2>2, <3>1 DEF Skipped
    <2> HIDE DEF c, layer
    <2>4. c \in Nat /\ c <= N
      BY <1>1, <2>3
    <2>5. Cardinality(DotsIn(link, 0, c)) \in Nat
      <3>1. 0 \in Nat
        OBVIOUS
      <3> QED  BY ONLY <3>1, <2>4, DotsFinite
    <2>6. layer \in Nat \ {0} /\ layer - 1 = Ups(link, c)
      BY <2>3, <2>4, <2>5, UpsIs
    <2>7. Prefixed(Len(url), layer, n)
      BY <2>6, PrefixRight
    <2> HIDE DEF n
    <2>8. n \in Nat /\ n <= Len(url)
      BY <1>1, <2>7 DEF Prefixed
    <2>9. prefix \in Seq(STRING) /\ Len(prefix) = n
      <3>1. 1 \in Nat \ {0} /\ 1 <= n + 1
        BY <2>8
      <3>2. prefix \in Seq(STRING) /\ Len(prefix) = n - 1 + 1
        BY ONLY <2>8, <3>1, url \in Seq(STRING), PartOf
      <3> QED  BY <2>8, <3>2
    <2>10. path \in Seq(STRING) /\ Len(path) = N - c
      <3>1. c + 1 \in Nat \ {0} /\ c + 1 <= N + 1 /\ N <= N
        BY <1>1, <2>4
      <3>2. path \in Seq(STRING) /\ Len(path) = N - (c + 1) + 1
        BY ONLY <1>1, <3>1, link \in Seq(STRING), PartOf
      <3> QED  BY <1>1, <2>4, <3>2
    <2>11. ASSUME prefix # <<>>, path # <<>>
           PROVE  \E abs \in Seq(STRING) : Absolute(link) = <<abs>> /\ ResolvesTo(link, abs)
      <3> DEFINE abs == prefix \o path
      <3>1. Absolute(link) = <<abs>> /\ abs \in Seq(STRING)
        BY <2>1, <2>9, <2>10, <2>11, ConcatProperties
      <3>2. n # 0 /\ n \in 1..Len(url)
        BY <1>1, <2>8, <2>9, <2>11, EmptySeq
      <3>3. c \in 0..(N - 1)
        BY <1>1, <2>4, <2>10, <2>11, EmptySeq
      <3>4. url[n] = "/" /\ Cardinality(SlashesIn(n + 1, Len(url))) = layer - 1
        BY <2>7, <3>2 DEF Prefixed
      <3>5. Slashes(SubSeq(url, n + 1, Len(url))) = Ups(link, c)
        BY <2>6, <2>8, <3>4, SlashesOfRest
      <3>6. ToSet(SubSeq(link, 1, c)) \subseteq {".", "/"}
        <4> DEFINE t == SubSeq(link, 1, c)
        <4>1. t \in Seq(STRING) /\ Len(t) = c /\ \A k \in 1..c : t[k] = link[k]
          <5>1. 1 \in Nat \ {0} /\ 1 <= c + 1
            BY <2>4
          <5>2. /\ t \in Seq(STRING) /\ Len(t) = c - 1 + 1
                /\ \A k \in 1..(c - 1 + 1) : t[k] = link[1 + k - 1]
            BY ONLY <2>4, <5>1, link \in Seq(STRING), PartOf
          <5> HIDE DEF t
          <5>3. c - 1 + 1 = c /\ \A k \in 1..c : 1 + k - 1 = k
            BY <2>4
          <5> QED  BY <5>2, <5>3
        <4> HIDE DEF t
        <4>2. DOMAIN t = 1..c
          BY <4>1, LenProperties
        <4> QED  BY <2>3, <4>1, <4>2 DEF ToSet, t
      <3>7. \A up \in {<<".", "/">>, <<".", ".", "/">>} : IsPrefix(up, path) => up = path
        BY <2>3, <2>4, RestOfLink
      <3>8. ResolvesTo(link, abs)
        <4> HIDE DEF N
        <4> QED  BY <1>3, <3>2, <3>3, <3>4, <3>5, <3>6, <3>7 DEF ResolvesTo, N
      <3> QED  BY <3>1, <3>8
    <2>12. ASSUME link # <<>>, Ups(link, Len(link)) < Slashes(url)
           PROVE  Absolute(link) # <<>>
      <3>1. N # 0
        BY <2>12, EmptySeq
      <3>2. path # <<>>
        <4> HIDE DEF path, N
        <4>1. Len(path) # 0
          BY <1>1, <2>3, <2>4, <2>10, <3>1
        <4> QED  BY <4>1
      <3>3. Ups(link, c) <= Ups(link, N)
        <4>1. DotsIn(link, 0, c) \in SUBSET DotsIn(link, 0, N)
          BY <1>1, <2>4 DEF DotsIn
        <4>2. IsFiniteSet(DotsIn(link, 0, N))
          BY <1>1, DotsFinite
        <4>3. Cardinality(DotsIn(link, 0, c)) <= Cardinality(DotsIn(link, 0, N))
          BY ONLY <4>1, <4>2, FS_Subset
        <4>4. Ups(link, N) = Cardinality(DotsIn(link, 0, N))
          BY <1>1, UpsIs
        <4> QED  BY <2>4, <4>3, <4>4, UpsIs
      <3>4. Ups(link, N) \in Nat
        <4>1. Cardinality(DotsIn(link, 0, N)) \in Nat
          BY <1>1, DotsFinite
        <4> QED  BY <1>1, <4>1, UpsIs
      <3>5. Slashes(url) = Cardinality(SlashesIn(1, Len(url)))
        <4>1. DOMAIN url = 1..Len(url)
          BY LenProperties
        <4> QED  BY <4>1 DEF Slashes, SlashesIn
      <3>6. Cardinality(SlashesIn(1, Len(url))) \in Nat
        BY <1>1, SlashesFinite
      <3>7. n # 0
        <4> SUFFICES ASSUME n = 0 PROVE FALSE
          OBVIOUS
        <4>1. Cardinality(SlashesIn(1, Len(url))) < layer
          BY <2>7 DEF Prefixed
        <4> QED  BY <2>6, <2>12, <3>3, <3>4, <3>5, <3>6, <4>1
      <3>8. prefix # <<>>
        BY <2>9, <3>7
      <3>9. <<prefix \o path>> # <<>>
        OBVIOUS
      <3> QED  BY <2>1, <3>2, <3>8, <3>9
    <2> QED  BY <1>3, <2>1, <2>11, <2>12
  <1> QED  BY <1>2, <1>3

-----------------------------------------------------------------------------
(* The anchors of a page. *)

\* What Anchors takes from n on, when f does from further on.
AnchorsAt(f, n) ==
    IF n > Len(htmltxt) THEN {}
    ELSE IF ~Opens(n) THEN f[n + 1]
    ELSE UNION {{<<n, j>>} \cup f[j + 1] : j \in Closes(n)}

\* f computes that.
Takes(f) == f = [n \in 1..(Len(htmltxt) + 1) |-> AnchorsAt(f, n)]

\* Anchors is what a function that takes them answers for 1.
LEMMA AnchorsIs == Anchors = {a \in (CHOOSE f : Takes(f))[1] : htmltxt[a[2]] = ">"}
  BY DEF Anchors, Takes, AnchorsAt

\* Anchors are taken from left to right: they are what they are defined by.
LEMMA AnchorsAsDefined ==
    ASSUME htmltxt \in Seq(STRING)
    PROVE  \E f : Takes(f) /\ Anchors = {a \in f[1] : htmltxt[a[2]] = ">"}
  <1> DEFINE N == Len(htmltxt) + 1
             UpTo(n) == \E f : \A c \in 1..N : N - c <= n => f[c] = AnchorsAt(f, c)
             Bad == {n \in Nat : ~UpTo(n)}
  <1>1. Len(htmltxt) \in Nat /\ N \in Nat
    BY LenProperties
  <1>2. ASSUME NEW f, NEW g, NEW c \in 1..N, \A d \in 1..N : d > c => f[d] = g[d]
        PROVE  AnchorsAt(f, c) = AnchorsAt(g, c)
    <2>1. CASE c > Len(htmltxt)
      BY <2>1 DEF AnchorsAt
    <2>2. CASE ~(c > Len(htmltxt))
      <3>1. f[c + 1] = g[c + 1]
        BY <1>1, <1>2, <2>2
      <3>2. \A j \in Closes(c) : f[j + 1] = g[j + 1]
        BY <1>1, <1>2 DEF Closes, Places
      <3>3. {{<<c, j>>} \cup f[j + 1] : j \in Closes(c)} = {{<<c, j>>} \cup g[j + 1] : j \in Closes(c)}
        BY <3>2
      <3> QED  BY <2>2, <3>1, <3>3, Zenon DEF AnchorsAt
    <2> QED  BY <2>1, <2>2
  <1> HIDE DEF N
  <1>3. Bad = {}
    <2> SUFFICES ASSUME Bad # {} PROVE FALSE
      OBVIOUS
    <2>1. Bad \in SUBSET Nat /\ Bad # {}
      OBVIOUS
    <2> HIDE DEF Bad
    <2> PICK n \in Bad : \A m \in Bad : n <= m
      BY <2>1, LeastNumber
    <2>2. n \in Nat
      BY <2>1
    <2>3. ~UpTo(n) /\ (n # 0 => UpTo(n - 1))
      <3>1. n # 0 => n - 1 \in Nat /\ ~(n <= n - 1)
        BY <2>2
      <3> QED  BY <2>2, <3>1 DEF Bad
    <2>4. PICK f : \A c \in 1..N : N - c <= n - 1 => f[c] = AnchorsAt(f, c)
      <3>1. CASE n = 0
        <4>1. \A c \in 1..N : ~(N - c <= n - 1)
          BY <1>1, <3>1
        <4> QED  BY <4>1
      <3>2. CASE n # 0
        BY <2>3, <3>2
      <3> QED  BY <3>1, <3>2
    <2> DEFINE g == [c \in 1..N |-> IF N - c <= n - 1 THEN f[c] ELSE AnchorsAt(f, c)]
    <2>5. \A c \in 1..N : g[c] = AnchorsAt(f, c) /\ (N - c <= n - 1 => g[c] = f[c])
      BY <2>4
    <2> HIDE DEF g
    <2>6. ASSUME NEW c \in 1..N, N - c <= n PROVE g[c] = AnchorsAt(g, c)
      <3>1. \A d \in 1..N : d > c => f[d] = g[d]
        <4>1. \A d \in 1..N : d > c => N - d <= n - 1
          BY <1>1, <2>2, <2>6
        <4> QED  BY <2>5, <4>1
      <3> QED  BY <1>2, <2>5, <3>1
    <2> QED  BY <2>3, <2>6
  <1>4. PICK f : \A c \in 1..N : f[c] = AnchorsAt(f, c)
    <2>1. UpTo(N)
      BY <1>1, <1>3
    <2>2. \A c \in 1..N : N - c <= N
      BY <1>1
    <2> QED  BY <2>1, <2>2
  <1> DEFINE g == [c \in 1..N |-> f[c]]
  <1>5. \A c \in 1..N : g[c] = f[c]
    OBVIOUS
  <1>6. g = [c \in 1..N |-> g[c]]
    OBVIOUS
  <1> HIDE DEF g
  <1>7. \A c \in 1..N : g[c] = AnchorsAt(g, c)
    BY <1>2, <1>4, <1>5
  <1>8. g = [c \in 1..N |-> AnchorsAt(g, c)]
    BY <1>6, <1>7
  <1>9. Takes(g)
    BY <1>8 DEF Takes, N
  <1>10. Takes(CHOOSE h : Takes(h))
    BY <1>9
  <1> QED  BY <1>10, AnchorsIs

\* a begins from n on, and not within another from n on.
AnchorFrom(n, a) ==
    /\ a = <<a[1], a[2]>> /\ a[1] \in Places /\ a[1] >= n
    /\ Opens(a[1]) /\ a[2] \in Closes(a[1])
    /\ \A i \in n..(a[1] - 1) : Opens(i) => a[2] \notin Closes(i)

\* From n on those are taken that AnchorFrom says.
LEMMA AnchorRight ==
    ASSUME htmltxt \in Seq(STRING)
    PROVE  \A a \in Anchors : AnchorFrom(1, a) /\ htmltxt[a[2]] = ">"
  <1> DEFINE N == Len(htmltxt) + 1
  <1>1. Len(htmltxt) \in Nat /\ N \in Nat /\ N >= 1
    BY LenProperties
  <1> PICK f : Takes(f) /\ Anchors = {a \in f[1] : htmltxt[a[2]] = ">"}
    BY AnchorsAsDefined
  <1>2. \A n \in 1..N : f[n] = AnchorsAt(f, n)
    BY DEF Takes
  <1> DEFINE Bad == {k \in Nat : k < N /\ \E a \in f[N - k] : ~AnchorFrom(N - k, a)}
  <1>3. ASSUME NEW n \in 1..N, \A d \in 1..N : d > n => \A a \in f[d] : AnchorFrom(d, a),
               NEW a \in f[n]
        PROVE  AnchorFrom(n, a)
    <2>1. n <= Len(htmltxt) /\ n \in Nat /\ n \in Places
      <3>1. ~(n > Len(htmltxt))
        BY <1>2, <1>3 DEF AnchorsAt
      <3> QED  BY <1>1, <3>1 DEF Places
    <2>2. CASE ~Opens(n)
      <3>1. a \in f[n + 1] /\ n + 1 \in 1..N
        <4>1. f[n] = AnchorsAt(f, n) /\ ~(n > Len(htmltxt))
          BY <1>1, <1>2, <2>1
        <4>2. f[n] = f[n + 1]
          BY <2>2, <4>1 DEF AnchorsAt
        <4>3. n + 1 \in 1..N
          BY <1>1, <2>1
        <4> QED  BY <1>3, <4>2, <4>3
      <3>2. AnchorFrom(n + 1, a)
        BY <1>3, <3>1, <2>1
      <3>3. \A i \in n..(a[1] - 1) : i = n \/ i \in (n + 1)..(a[1] - 1)
        BY <2>1
      <3>4. a[1] >= n
        BY <1>1, <2>1, <3>2 DEF AnchorFrom, Places
      <3> QED  BY <2>2, <3>2, <3>3, <3>4 DEF AnchorFrom
    <2>3. CASE Opens(n)
      <3>1. f[n] = UNION {{<<n, j>>} \cup f[j + 1] : j \in Closes(n)}
        BY <1>1, <1>2, <2>1, <2>3 DEF AnchorsAt
      <3>2. PICK j \in Closes(n) : a = <<n, j>> \/ a \in f[j + 1]
        BY <1>3, <3>1
      <3>3. CASE a = <<n, j>>
        <4>1. a[1] = n /\ a[2] = j /\ n..(n - 1) = {}
          BY <2>1, <3>3
        <4>2. n >= n
          BY <2>1
        <4> QED  BY <2>1, <2>3, <3>2, <3>3, <4>1, <4>2 DEF AnchorFrom
      <3>4. CASE a \in f[j + 1]
        <4>1. j \in Nat /\ j > n /\ j + 1 \in 1..N /\ htmltxt[j] \in {">", Newline}
          BY <1>1, <2>1 DEF Closes, Places
        <4>2. AnchorFrom(j + 1, a)
          BY <1>3, <2>1, <3>4, <4>1
        <4>3. a[1] \in Nat /\ a[1] >= j + 1 /\ a[2] \in Nat /\ a[2] > a[1]
          BY <1>1, <4>2 DEF AnchorFrom, Closes, Places
        <4>4. ASSUME NEW i \in n..(a[1] - 1), Opens(i) PROVE a[2] \notin Closes(i)
          <5>1. i \in Nat /\ (i < j \/ i = j \/ i \in (j + 1)..(a[1] - 1))
            BY <2>1, <4>1, <4>3
          <5>2. CASE i < j
            <6>1. j \in i..(a[2] - 1)
              BY <4>1, <4>3, <5>1, <5>2
            <6> QED  BY <4>1, <6>1 DEF Closes
          <5>3. CASE i = j
            <6>1. htmltxt[j] # "<"
              BY <4>1 DEF Newline
            <6> QED  BY <4>4, <5>3, <6>1 DEF Opens
          <5>4. CASE i \in (j + 1)..(a[1] - 1)
            BY <4>2, <4>4, <5>4 DEF AnchorFrom
          <5> QED  BY <5>1, <5>2, <5>3, <5>4
        <4>5. a[1] >= n
          BY <2>1, <4>1, <4>3
        <4> QED  BY <4>2, <4>4, <4>5 DEF AnchorFrom
      <3> QED  BY <3>2, <3>3, <3>4
    <2> QED  BY <2>2, <2>3
  <1>4. Bad = {}
    <2> SUFFICES ASSUME Bad # {} PROVE FALSE
      OBVIOUS
    <2>1. Bad \in SUBSET Nat /\ Bad # {}
      OBVIOUS
    <2> HIDE DEF Bad
    <2> PICK k \in Bad : \A m \in Bad : k <= m
      BY <2>1, LeastNumber
    <2>2. k \in Nat /\ k < N /\ \E a \in f[N - k] : ~AnchorFrom(N - k, a)
      BY DEF Bad
    <2>3. \A d \in 1..N : d > N - k => \A a \in f[d] : AnchorFrom(d, a)
      <3> SUFFICES ASSUME NEW d \in 1..N, d > N - k, NEW a \in f[d], ~AnchorFrom(d, a) PROVE FALSE
        OBVIOUS
      <3>1. N - d \in Nat /\ N - d < N /\ N - (N - d) = d /\ N - d < k
        BY <1>1, <2>2
      <3>2. N - d \in Bad
        BY <3>1 DEF Bad
      <3>3. k <= N - d
        BY <3>2
      <3> QED  BY <1>1, <2>2, <3>1, <3>3
    <2>4. N - k \in 1..N
      BY <1>1, <2>2
    <2> QED  BY <1>3, <2>2, <2>3, <2>4
  <1>5. \A a \in f[1] : AnchorFrom(1, a)
    <2>1. N - 1 \in Nat /\ N - 1 < N /\ N - (N - 1) = 1
      BY <1>1
    <2>2. N - 1 \notin Bad
      BY <1>4
    <2> HIDE DEF N
    <2>3. ~\E a \in f[N - (N - 1)] : ~AnchorFrom(N - (N - 1), a)
      BY <2>1, <2>2
    <2> QED  BY <2>1, <2>3
  <1> QED  BY <1>5

\* An anchor from i to j is one, or ends with one that it begins within.
LEMMA AnchorAround ==
    ASSUME htmltxt \in Seq(STRING), NEW i \in Places, Opens(i), NEW j \in Closes(i), htmltxt[j] = ">"
    PROVE  \E a \in Anchors : a[1] <= i /\ a[2] = j /\ a[1] \in Nat
  <1> DEFINE N == Len(htmltxt) + 1
  <1>1. Len(htmltxt) \in Nat /\ N \in Nat /\ N >= 1
    BY LenProperties
  <1> PICK f : Takes(f) /\ Anchors = {a \in f[1] : htmltxt[a[2]] = ">"}
    BY AnchorsAsDefined
  <1>2. \A n \in 1..N : f[n] = AnchorsAt(f, n)
    BY DEF Takes
  <1>3. /\ i \in Nat /\ i >= 1 /\ i <= Len(htmltxt)
        /\ j \in Nat /\ j > i /\ j <= Len(htmltxt) /\ htmltxt[j] \in {">", Newline}
        /\ \A k \in i..(j - 1) : htmltxt[k] \notin {">", Newline}
    BY <1>1 DEF Places, Closes
  <1> DEFINE Good(n) == \E m \in 1..i : <<m, j>> \in f[n]
             Bad == {k \in Nat : k < i /\ ~Good(i - k)}
  <1>4. ASSUME NEW n \in 1..i, \A d \in 1..i : d > n => Good(d)
        PROVE  Good(n)
    <2>1. n \in Nat /\ n <= Len(htmltxt) /\ n \in 1..N /\ ~(n > Len(htmltxt))
      BY <1>1, <1>3
    <2>2. CASE Opens(n)
      <3>1. f[n] = UNION {{<<n, k>> } \cup f[k + 1] : k \in Closes(n)}
        BY <1>2, <2>1, <2>2 DEF AnchorsAt
      <3> DEFINE C == {k \in (n + 1)..j : htmltxt[k] \in {">", Newline}}
      <3>2. C \in SUBSET Nat /\ C # {}
        <4>1. j \in C
          BY <1>3, <2>1
        <4> QED  BY <1>3, <2>1, <4>1
      <3> HIDE DEF C
      <3> PICK k \in C : \A m \in C : k <= m
        BY <3>2, LeastNumber
      <3>3. k \in Nat /\ k > n /\ k <= j /\ htmltxt[k] \in {">", Newline}
        BY <1>3, <2>1 DEF C
      <3>4. k \in Closes(n)
        <4>1. k \in Places
          BY <1>1, <1>3, <3>3, <2>1 DEF Places
        <4>2. ASSUME NEW m \in n..(k - 1) PROVE htmltxt[m] \notin {">", Newline}
          <5>1. m \in Nat /\ m < k
            BY <2>1, <3>3
          <5>2. CASE m = n
            BY <2>2, <5>2 DEF Opens, Newline
          <5>3. CASE m # n
            <6>1. m \in (n + 1)..j
              BY <1>3, <2>1, <3>3, <5>1, <5>3
            <6>2. m \notin C
              BY <3>3, <5>1
            <6> QED  BY <6>1, <6>2 DEF C
          <5> QED  BY <5>2, <5>3
        <4> QED  BY <3>3, <4>1, <4>2 DEF Closes
      <3>5. {<<n, k>>} \cup f[k + 1] \subseteq f[n]
        BY <3>1, <3>4
      <3>6. CASE k < i
        <4>1. k + 1 \in 1..i /\ k + 1 > n
          BY <1>3, <3>3, <3>6, <2>1
        <4>2. Good(k + 1)
          BY <1>4, <4>1
        <4> QED  BY <3>5, <4>2
      <3>7. CASE ~(k < i)
        <4>1. k # i
          <5>1. htmltxt[i] # ">" /\ htmltxt[i] # Newline
            BY DEF Opens, Newline
          <5> QED  BY <3>3, <5>1
        <4>2. k = j
          <5>1. k \notin i..(j - 1)
            BY <1>3, <3>3
          <5> QED  BY <1>3, <3>3, <3>7, <5>1
        <4> QED  BY <1>4, <3>5, <4>2
      <3> QED  BY <3>6, <3>7
    <2>3. CASE ~Opens(n)
      <3>1. f[n] = f[n + 1]
        BY <1>2, <2>1, <2>3 DEF AnchorsAt
      <3>2. n # i
        BY <2>3
      <3>3. n + 1 \in 1..i /\ n + 1 > n
        BY <1>3, <1>4, <3>2
      <3>4. Good(n + 1)
        BY <1>4, <3>3
      <3> QED  BY <3>1, <3>4
    <2> QED  BY <2>2, <2>3
  <1> HIDE DEF Good
  <1>5. Bad = {}
    <2> SUFFICES ASSUME Bad # {} PROVE FALSE
      OBVIOUS
    <2>1. Bad \in SUBSET Nat /\ Bad # {}
      OBVIOUS
    <2> HIDE DEF Bad
    <2> PICK k \in Bad : \A m \in Bad : k <= m
      BY <2>1, LeastNumber
    <2>2. k \in Nat /\ k < i /\ ~Good(i - k)
      BY DEF Bad
    <2>3. \A d \in 1..i : d > i - k => Good(d)
      <3> SUFFICES ASSUME NEW d \in 1..i, d > i - k, ~Good(d) PROVE FALSE
        OBVIOUS
      <3>1. i - d \in Nat /\ i - d < i /\ i - (i - d) = d /\ i - d < k
        BY <1>3, <2>2
      <3>2. i - d \in Bad
        BY <3>1 DEF Bad
      <3>3. k <= i - d
        BY <3>2
      <3> QED  BY <1>3, <2>2, <3>1, <3>3
    <2>4. i - k \in 1..i
      BY <1>3, <2>2
    <2> QED  BY <1>4, <2>2, <2>3, <2>4
  <1>6. Good(1)
    <2>1. i - 1 \in Nat /\ i - 1 < i /\ i - (i - 1) = 1
      BY <1>3
    <2>2. Good(i - (i - 1))
      BY <1>5, <2>1
    <2> QED  BY <2>1, <2>2
  <1>7. PICK m \in 1..i : <<m, j>> \in f[1]
    BY <1>6 DEF Good
  <1>8. <<m, j>> \in Anchors /\ m <= i /\ m \in Nat
    BY <1>3, <1>7
  <1> QED  BY <1>8

-----------------------------------------------------------------------------
(* What holds while a page is read. *)

\* The types.
ParserTypes ==
    /\ url \in Seq(STRING) /\ htmltxt \in Seq(STRING)
    /\ ch \in Nat \ {0} /\ ch <= Len(htmltxt) + 1
    /\ status \in {"S_START", "S_LEFT", "S_A", "S_BLANK", "S_H", "S_R", "S_E", "S_F", "S_EQ",
                   "S_LQ", "S_RQ", "S_RIGHT", "S_END"}
    /\ as_ \in Nat /\ ls \in Nat /\ le \in Nat
    /\ urllist \in Seq([so : Nat, eo : Nat, link : Seq(STRING)])

\* Which pointers are set in which state.
PointersInv ==
    /\ status = "S_START" => as_ = NULL
    /\ status \in {"S_START", "S_LEFT", "S_A", "S_BLANK", "S_H", "S_R", "S_E", "S_F", "S_EQ"}
         => ls = NULL /\ le = NULL
    /\ status = "S_LQ" => ls # NULL /\ le = NULL
    /\ status = "S_RQ" => le # NULL
    /\ as_ # NULL => as_ < ch
    /\ le # NULL => ls # NULL

\* In a tag: what has been read of it, up to the blank after its "a".
TagInv ==
    /\ status \notin {"S_START", "S_END"} =>
          /\ as_ # NULL /\ htmltxt[as_] = "<"
          /\ \A k \in as_..(ch - 1) : htmltxt[k] \notin {">", Newline}
    /\ status = "S_RIGHT" => ch <= Len(htmltxt) /\ htmltxt[ch] = ">"
    /\ status = "S_LEFT" => Blanks(as_ + 1, ch - 1)
    /\ status = "S_A" => ch - 1 > as_ /\ htmltxt[ch - 1] = "a" /\ Blanks(as_ + 1, ch - 2)
    /\ status \in {"S_BLANK", "S_H", "S_R", "S_E", "S_F", "S_EQ", "S_LQ", "S_RQ"} => Opens(as_)

\* From an href at p to the opening quote of its value, which is from s on.
Leads(p, s) ==
    /\ HrefAt(p)
    /\ \E q \in (p + 4)..(s - 2) : htmltxt[q] = "=" /\ Blanks(p + 4, q - 1) /\ Blanks(q + 1, s - 2)
    /\ htmltxt[s - 1] = Quote

\* What has been read of an href, and of its value.
HrefInv ==
    /\ status = "S_H" => ch - 1 > as_ /\ htmltxt[ch - 1] = "h"
    /\ status = "S_R" => ch - 2 > as_ /\ htmltxt[ch - 2] = "h" /\ htmltxt[ch - 1] = "r"
    /\ status = "S_E" => ch - 3 > as_ /\ htmltxt[ch - 3] = "h" /\ htmltxt[ch - 2] = "r" /\ htmltxt[ch - 1] = "e"
    /\ status = "S_F" => \E p \in (as_ + 1)..(ch - 4) : HrefAt(p) /\ Blanks(p + 4, ch - 1)
    /\ status = "S_EQ" =>
          \E p \in (as_ + 1)..(ch - 5) : /\ HrefAt(p)
                                        /\ \E q \in (p + 4)..(ch - 1) :
                                              /\ htmltxt[q] = "="
                                              /\ Blanks(p + 4, q - 1) /\ Blanks(q + 1, ch - 1)
    /\ ls # NULL => /\ as_ # NULL /\ Opens(as_) /\ as_ < ls /\ ls <= ch
                    /\ \E p \in (as_ + 1)..(ls - 1) : Leads(p, ls)
    /\ status = "S_LQ" => \A k \in ls..(ch - 1) : htmltxt[k] # Quote
    /\ le # NULL => /\ ls <= le + 1 /\ le + 1 < ch /\ htmltxt[le + 1] = Quote
                    /\ \A k \in ls..le : htmltxt[k] # Quote

\* All the links collected stand before this place.
Bound == IF as_ # NULL THEN as_ ELSE ch

\* Each link collected is the value of an href in an anchor that has been
\* read, and is pushed as Absolute makes it; and there is an end of an
\* anchor between two.
InAnchor(link) ==
    /\ link.so # 0 /\ link.so <= link.eo + 1 /\ link.eo < Len(htmltxt)
    /\ Absolute(SubSeq(htmltxt, link.so, link.eo)) = <<link.link>>
    /\ \E a \in Anchors : \E p \in a[1]..a[2] :
          link.eo + 1 < a[2] /\ Value(p, link.so, link.eo) /\ a[2] < Bound

LinksInv ==
    /\ \A m \in 1..Len(urllist) : InAnchor(urllist[m])
    /\ \A m, n \in 1..Len(urllist) : m < n =>
          \E a \in Anchors : urllist[m].eo < a[2] /\ a[2] < urllist[n].so

\* The anchor a has an href at p, its first, after a blank, with "=" at q
\* and the value from s to e, a link that leads somewhere.
HasLink(a, p, q, s, e) ==
    /\ ~PassedOver(a[1])
    /\ \A k \in a[1]..(p - 1) : ~HrefAt(k)
    /\ htmltxt[p - 1] = Blank
    /\ s <= e /\ e + 1 < a[2]
    /\ HrefAt(p) /\ q \in (p + 4)..(s - 2) /\ htmltxt[q] = "="
    /\ Blanks(p + 4, q - 1) /\ Blanks(q + 1, s - 2)
    /\ htmltxt[s - 1] = Quote /\ htmltxt[e + 1] = Quote
    /\ \A k \in s..e : htmltxt[k] # Quote
    /\ Absolute(SubSeq(htmltxt, s, e)) # <<>>

\* The link from s to e is in the list, unless there was no memory for it.
Met(s, e) ==
    \/ \E m \in 1..Len(urllist) : urllist[m].so = s /\ urllist[m].eo = e
    \/ <<s, e>> \in dropped

\* How far that link has been read.
Progress(a, p, q, s, e) ==
    /\ a[1] < ch /\ ch <= p =>
          as_ = a[1] /\ status \in {"S_LEFT", "S_A", "S_BLANK", "S_H", "S_R", "S_E"}
    /\ ch = p + 1 => as_ = a[1] /\ status = "S_H"
    /\ ch = p + 2 => as_ = a[1] /\ status = "S_R"
    /\ ch = p + 3 => as_ = a[1] /\ status = "S_E"
    /\ p + 3 < ch /\ ch <= q => as_ = a[1] /\ status = "S_F"
    /\ q < ch /\ ch < s => as_ = a[1] /\ status = "S_EQ"
    /\ s <= ch /\ ch <= e + 1 => as_ = a[1] /\ status = "S_LQ" /\ ls = s
    /\ e + 1 < ch /\ ch <= a[2] => /\ as_ = a[1] /\ ls = s /\ le = e
                                   /\ status \in (IF ch = a[2] THEN {"S_RQ", "S_RIGHT"} ELSE {"S_RQ"})
    /\ a[2] < ch => Met(s, e)

\* So far has every link of an anchor been read.
ProgressInv ==
    \A a \in Anchors : \A p, q, s, e \in (a[1] + 1)..a[2] :
        HasLink(a, p, q, s, e) => Progress(a, p, q, s, e)

\* The invariant of the parser.
PageInv == ParserTypes /\ PointersInv /\ TagInv /\ HrefInv /\ LinksInv /\ ProgressInv

\* The page and its URL are fixed when it is begun.
LEMMA SamePage ==
    ASSUME UNCHANGED <<url, htmltxt>>
    PROVE  /\ \A i, j : Blanks(i, j)' = Blanks(i, j)
           /\ \A i : Opens(i)' = Opens(i)
           /\ \A p : HrefAt(p)' = HrefAt(p)
           /\ \A p, s : Leads(p, s)' = Leads(p, s)
           /\ \A p, s, e : Value(p, s, e)' = Value(p, s, e)
           /\ \A i : PassedOver(i)' = PassedOver(i)
  BY DEF Blanks, Opens, Places, HrefAt, Leads, Value, PassedOver

\* So are its anchors.
LEMMA SameAnchors ==
    ASSUME UNCHANGED <<url, htmltxt>>
    PROVE  Anchors' = Anchors
  BY DEF Anchors, Opens, Closes, Places, Blanks

\* And what is made of a link.
LEMMA SameAbsolute ==
    ASSUME UNCHANGED <<url, htmltxt>>
    PROVE  \A link : Absolute(link)' = Absolute(link)
  <1>1. \A layer : PrefixSize(layer)' = PrefixSize(layer)
    BY DEF PrefixSize
  <1>2. \A link : IsAbsolute(link)' = IsAbsolute(link)
    BY DEF IsAbsolute
  <1>3. \A link : Skip(link)' = Skip(link)
    BY DEF Skip, Dot, DotDot
  <1> QED  BY <1>1, <1>2, <1>3, Zenon DEF Absolute

\* And what is said of the links collected, as long as they are the same.
LEMMA SameLinks ==
    ASSUME UNCHANGED <<url, htmltxt>>
    PROVE  \A a, p, q, s, e : HasLink(a, p, q, s, e)' = HasLink(a, p, q, s, e)
  <1>1. /\ \A i, j : Blanks(i, j)' = Blanks(i, j)
        /\ \A p : HrefAt(p)' = HrefAt(p)
        /\ \A i : PassedOver(i)' = PassedOver(i)
        /\ \A link : Absolute(link)' = Absolute(link)
    BY SamePage, SameAbsolute
  <1> QED  BY <1>1 DEF HasLink

\* What ReadTag may do.
Moves(s, c, t) ==
    \/ s = "S_F" /\ c # Blank /\ t = "S_BLANK"
    \/ s = "S_EQ" /\ c # Blank /\ c # Quote /\ t = "S_BLANK"
    \/ s \in {"S_BLANK", "S_H", "S_R", "S_E"} /\ t = "S_BLANK"
    \/ s = "S_LEFT" /\ c = "a" /\ t = "S_A"
    \/ s = "S_LEFT" /\ c = Blank /\ t = "S_LEFT"
    \/ s = "S_A" /\ c = Blank /\ t = "S_BLANK"
    \/ s = "S_BLANK" /\ c = "h" /\ t = "S_H"
    \/ s = "S_H" /\ c = "r" /\ t = "S_R"
    \/ s = "S_R" /\ c = "e" /\ t = "S_E"
    \/ s = "S_E" /\ c = "f" /\ t = "S_F"
    \/ s = "S_F" /\ c = Blank /\ t = "S_F"
    \/ s = "S_F" /\ c = "=" /\ t = "S_EQ"
    \/ s = "S_EQ" /\ c = Blank /\ t = "S_EQ"
    \/ s = "S_EQ" /\ c = Quote /\ t = "S_LQ"
    \/ s = "S_LQ" /\ c # Quote /\ t = "S_LQ"
    \/ s = "S_LQ" /\ c = Quote /\ t = "S_RQ"
    \/ s = "S_RQ" /\ t = "S_RQ"

\* After moves the machine as Moves says.
LEMMA AfterMoves ==
    ASSUME ParserTypes, ReadTag
    PROVE  status' = "S_END" \/ (Here # Newline /\ Moves(status, Here, status'))
  <1> DEFINE c == Here
  <1>1. status' = After(status, c)
    BY DEF ReadTag
  <1> HIDE DEF c
  <1>2. status \in {"S_LEFT", "S_A", "S_BLANK", "S_H", "S_R", "S_E", "S_F", "S_EQ", "S_LQ", "S_RQ"}
    BY DEF ParserTypes, ReadTag
  <1>3. CASE c = Newline
    BY <1>1, <1>3 DEF After, c
  <1>4. CASE c # Newline
    <2>1. /\ After("S_LEFT", c) = IF c = "a" THEN "S_A" ELSE IF c = Blank THEN "S_LEFT" ELSE "S_END"
          /\ After("S_A", c) = IF c = Blank THEN "S_BLANK" ELSE "S_END"
          /\ After("S_EQ", c) = IF c = Quote THEN "S_LQ" ELSE IF c = Blank THEN "S_EQ" ELSE "S_BLANK"
          /\ After("S_LQ", c) = IF c = Quote THEN "S_RQ" ELSE "S_LQ"
          /\ After("S_RQ", c) = "S_RQ"
      BY <1>4 DEF After, Blank, Quote, Expected
    <2>2. /\ After("S_BLANK", c) = IF c = "h" THEN "S_H" ELSE "S_BLANK"
          /\ After("S_H", c) = IF c = "r" THEN "S_R" ELSE "S_BLANK"
          /\ After("S_R", c) = IF c = "e" THEN "S_E" ELSE "S_BLANK"
          /\ After("S_E", c) = IF c = "f" THEN "S_F" ELSE "S_BLANK"
          /\ After("S_F", c) = IF c = "=" THEN "S_EQ" ELSE IF c = Blank THEN "S_F" ELSE "S_BLANK"
      BY <1>4 DEF After, Blank, Quote, Expected, Following
    <2>3. Blank # "a" /\ Blank # Quote /\ Blank # "="
      BY DEF Blank, Quote
    <2>4. status' = "S_END" \/ Moves(status, c, status')
      BY <1>1, <1>2, <2>1, <2>2, <2>3 DEF Moves
    <2> QED  BY <1>4, <2>4 DEF c
  <1> QED  BY <1>3, <1>4

\* The characters of an href.
LEMMA HrefIs ==
    ASSUME htmltxt \in Seq(STRING), NEW p \in Nat \ {0}
    PROVE  HrefAt(p) <=> /\ p + 3 <= Len(htmltxt)
                         /\ htmltxt[p] = "h" /\ htmltxt[p + 1] = "r"
                         /\ htmltxt[p + 2] = "e" /\ htmltxt[p + 3] = "f"
  BY FourOf DEF HrefAt

\* The states in which an anchor has been opened.
Deep == {"S_BLANK", "S_H", "S_R", "S_E", "S_F", "S_EQ", "S_LQ", "S_RQ"}

\* ReadTag keeps the types, and the pointers where they should be.
LEMMA ReadTagTypes ==
    ASSUME ParserTypes, PointersInv, TagInv, ReadTag
    PROVE  ParserTypes' /\ PointersInv'
  <1>1. Len(htmltxt) \in Nat
    BY LenProperties DEF ParserTypes
  <1>2. ch' = ch + 1 /\ ch <= Len(htmltxt) /\ UNCHANGED <<url, htmltxt, as_, urllist>>
    BY DEF ReadTag, Reading
  <1>3. status' = "S_END" \/ Moves(status, Here, status')
    BY AfterMoves
  <1>4. status' \in Deep \cup {"S_LEFT", "S_A", "S_END"} /\ status' # "S_RIGHT" /\ status' # "S_START"
    BY <1>3 DEF Moves, Deep
  <1>5. le' \in Nat /\ ls' \in Nat
    <2>1. status = "S_LQ" => ch - 1 \in Nat
      BY DEF ParserTypes
    <2> QED  BY <2>1 DEF ReadTag, ParserTypes
  <1>n. ch \in Nat /\ as_ \in Nat /\ ch # 0
    BY DEF ParserTypes
  <1>6. ParserTypes'
    <2>1. ch' \in Nat \ {0} /\ ch' <= Len(htmltxt) + 1
      BY ONLY <1>1, <1>2, <1>n
    <2>2. url' \in Seq(STRING) /\ htmltxt' \in Seq(STRING) /\ ch' <= Len(htmltxt') + 1
      BY <1>2, <2>1 DEF ParserTypes
    <2>3. urllist' \in Seq([so : Nat, eo : Nat, link : Seq(STRING)]) /\ as_' \in Nat
      BY <1>2 DEF ParserTypes
    <2> QED  BY <1>4, <1>5, <2>1, <2>2, <2>3 DEF ParserTypes, Deep
  <1>7. /\ status' = "S_LQ" => ls' # NULL /\ le' = NULL
        /\ status' = "S_RQ" => le' # NULL
        /\ le' # NULL => ls' # NULL
    <2>1. ch - 1 # NULL /\ ch + 1 # NULL
      <3>1. as_ # NULL /\ as_ < ch
        BY DEF TagInv, PointersInv, ReadTag
      <3> QED  BY <1>n, <3>1 DEF NULL
    <2>2. /\ status' = "S_LQ" => (status = "S_LQ" /\ Here # Quote) \/ (status = "S_EQ" /\ Here = Quote)
          /\ status' = "S_RQ" => status = "S_RQ" \/ (status = "S_LQ" /\ Here = Quote)
      BY <1>3 DEF Moves
    <2>3. /\ ls' = IF status = "S_EQ" /\ Here = Quote THEN ch + 1 ELSE ls
          /\ le' = IF status = "S_LQ" /\ Here = Quote THEN ch - 1 ELSE le
      BY DEF ReadTag
    <2> QED  BY <2>1, <2>2, <2>3 DEF PointersInv
  <1>8. status' \in {"S_START", "S_LEFT", "S_A", "S_BLANK", "S_H", "S_R", "S_E", "S_F", "S_EQ"}
          => ls' = NULL /\ le' = NULL
    <2>1. status' \in {"S_START", "S_LEFT", "S_A", "S_BLANK", "S_H", "S_R", "S_E", "S_F", "S_EQ"}
            => /\ status \in {"S_LEFT", "S_A", "S_BLANK", "S_H", "S_R", "S_E", "S_F", "S_EQ"}
               /\ ~(status = "S_EQ" /\ Here = Quote)
      BY <1>3 DEF Moves, Blank, Quote
    <2>2. /\ ls' = IF status = "S_EQ" /\ Here = Quote THEN ch + 1 ELSE ls
          /\ le' = IF status = "S_LQ" /\ Here = Quote THEN ch - 1 ELSE le
      BY DEF ReadTag
    <2> QED  BY <2>1, <2>2 DEF PointersInv
  <1>9. as_' # NULL => as_' < ch'
    <2>1. as_ # NULL => as_ < ch
      BY DEF PointersInv
    <2> QED  BY <1>2, <1>n, <2>1
  <1> QED  BY <1>4, <1>6, <1>7, <1>8, <1>9 DEF PointersInv

\* ReadTag keeps account of the tag.
LEMMA ReadTagTag ==
    ASSUME ParserTypes, PointersInv, TagInv, ReadTag
    PROVE  TagInv'
  <1>1. Len(htmltxt) \in Nat
    BY LenProperties DEF ParserTypes
  <1>2. /\ ch' = ch + 1 /\ ch <= Len(htmltxt) /\ UNCHANGED <<url, htmltxt, as_, urllist>>
        /\ ch \in Nat /\ as_ \in Nat /\ status \notin {"S_START", "S_END", "S_RIGHT"} /\ htmltxt[ch] # ">"
    BY DEF ReadTag, Reading, Here, ParserTypes
  <1>3. status' = "S_END" \/ (htmltxt[ch] # Newline /\ Moves(status, htmltxt[ch], status'))
    BY AfterMoves DEF Here
  <1>n. ch \in Nat /\ as_ \in Nat
    BY <1>2
  <1>4. as_ # NULL /\ as_ < ch /\ htmltxt[as_] = "<" /\ \A k \in as_..(ch - 1) : htmltxt[k] \notin {">", Newline}
    BY <1>2 DEF TagInv, PointersInv
  <1>5. CASE status' = "S_END"
    BY <1>5 DEF TagInv
  <1>6. CASE status' # "S_END"
    <2>1. htmltxt[ch] # Newline /\ Moves(status, htmltxt[ch], status')
      BY <1>3, <1>6
    <2>2. \A k \in as_..((ch + 1) - 1) : htmltxt[k] \notin {">", Newline}
      <3>1. \A k \in as_..((ch + 1) - 1) : k = ch \/ k \in as_..(ch - 1)
        BY ONLY <1>n
      <3> QED  BY <1>2, <1>4, <2>1, <3>1
    <2>3. status' # "S_RIGHT"
      BY <2>1 DEF Moves
    <2>4. status' = "S_LEFT" => Blanks(as_ + 1, (ch + 1) - 1)
      <3>1. \A k \in (as_ + 1)..((ch + 1) - 1) : k = ch \/ k \in (as_ + 1)..(ch - 1)
        BY ONLY <1>n
      <3>2. status' = "S_LEFT" => status = "S_LEFT" /\ htmltxt[ch] = Blank
        BY <2>1 DEF Moves
      <3> QED  BY <3>1, <3>2 DEF TagInv, Blanks
    <2>5. status' = "S_A" => (ch + 1) - 1 > as_ /\ htmltxt[(ch + 1) - 1] = "a" /\ Blanks(as_ + 1, (ch + 1) - 2)
      <3>1. status' = "S_A" => status = "S_LEFT" /\ htmltxt[ch] = "a"
        BY <2>1 DEF Moves
      <3>2. (ch + 1) - 1 = ch /\ (ch + 1) - 2 = ch - 1
        BY <1>2
      <3> QED  BY <1>2, <1>4, <3>1, <3>2 DEF TagInv
    <2>6. status' \in Deep => Opens(as_)
      <3>1. status' \in Deep => status \in Deep \/ (status = "S_A" /\ htmltxt[ch] = Blank)
        BY <2>1 DEF Moves, Deep
      <3>2. status \in Deep => Opens(as_)
        BY DEF TagInv, Deep
      <3>3. ASSUME status = "S_A", htmltxt[ch] = Blank PROVE Opens(as_)
        <4>1. ch - 1 > as_ /\ htmltxt[ch - 1] = "a" /\ Blanks(as_ + 1, ch - 2)
          BY <3>3 DEF TagInv
        <4>2. ch - 1 \in Places /\ (ch - 1) - 1 = ch - 2 /\ (ch - 1) + 1 = ch /\ ch - 1 < Len(htmltxt)
          <5>1. ch <= Len(htmltxt) /\ ch - 1 > as_
            BY <1>2, <4>1
          <5> QED  BY ONLY <1>1, <1>n, <5>1 DEF Places
        <4> QED  BY <1>4, <3>3, <4>1, <4>2 DEF Opens
      <3> QED  BY <3>1, <3>2, <3>3
    <2>7. /\ \A i, j : Blanks(i, j)' = Blanks(i, j)
          /\ \A i : Opens(i)' = Opens(i)
      BY <1>2, SamePage
    <2>8. status' \in Deep => Opens(as_)'
      BY <1>2, <2>6, <2>7
    <2>9. /\ status' = "S_LEFT" => Blanks(as_ + 1, ch - 1)'
          /\ status' = "S_A" => Blanks(as_ + 1, ch - 2)'
      BY <1>2, <2>4, <2>5 DEF Blanks
    <2>10. status' \notin {"S_START", "S_END"} =>
              as_' # NULL /\ htmltxt'[as_'] = "<" /\ \A k \in as_'..(ch' - 1) : htmltxt'[k] \notin {">", Newline}
      BY <1>2, <1>4, <2>2
    <2>11. status' = "S_A" => ch' - 1 > as_' /\ htmltxt'[ch' - 1] = "a"
      BY <1>2, <2>5
    <2> QED  BY <2>3, <2>8, <2>9, <2>10, <2>11 DEF TagInv, Deep
  <1> QED  BY <1>5, <1>6

\* ReadTag keeps account of the href.
LEMMA ReadTagHref ==
    ASSUME ParserTypes, PointersInv, TagInv, HrefInv, ReadTag
    PROVE  HrefInv'
  <1> DEFINE c == htmltxt[ch]
  <1>1. Len(htmltxt) \in Nat /\ ch \in Nat /\ as_ \in Nat /\ ls \in Nat /\ le \in Nat
    BY LenProperties DEF ParserTypes
  <1>2. /\ ch' = ch + 1 /\ UNCHANGED <<url, htmltxt, as_, urllist>>
        /\ ls' = IF status = "S_EQ" /\ c = Quote THEN ch + 1 ELSE ls
        /\ le' = IF status = "S_LQ" /\ c = Quote THEN ch - 1 ELSE le
    BY DEF ReadTag, Here
  <1>3. status' = "S_END" \/ (c # Newline /\ Moves(status, c, status'))
    BY AfterMoves DEF Here
  <1>4. as_ # NULL /\ as_ < ch /\ ch <= Len(htmltxt) /\ ch \in Nat \ {0} /\ htmltxt \in Seq(STRING)
    BY DEF TagInv, PointersInv, ReadTag, Reading, ParserTypes
  <1>5. /\ \A i, j : Blanks(i, j)' = Blanks(i, j)
        /\ \A i : Opens(i)' = Opens(i)
        /\ \A p : HrefAt(p)' = HrefAt(p)
        /\ \A p, s : Leads(p, s)' = Leads(p, s)
    BY <1>2, SamePage
  <1> HIDE DEF c
  <1>6. /\ status' = "S_H" => ch > as_ /\ htmltxt[ch] = "h"
        /\ status' = "S_R" => ch - 1 > as_ /\ htmltxt[ch - 1] = "h" /\ htmltxt[ch] = "r"
        /\ status' = "S_E" => ch - 2 > as_ /\ htmltxt[ch - 2] = "h" /\ htmltxt[ch - 1] = "r" /\ htmltxt[ch] = "e"
    <2>1. /\ status' = "S_H" => c = "h"
          /\ status' = "S_R" => status = "S_H" /\ c = "r"
          /\ status' = "S_E" => status = "S_R" /\ c = "e"
      BY <1>3 DEF Moves
    <2> QED  BY <1>1, <1>4, <2>1 DEF HrefInv, c
  <1>7. status' = "S_F" => \E p \in (as_ + 1)..(ch - 3) : HrefAt(p) /\ Blanks(p + 4, ch)
    <2> SUFFICES ASSUME status' = "S_F" PROVE \E p \in (as_ + 1)..(ch - 3) : HrefAt(p) /\ Blanks(p + 4, ch)
      OBVIOUS
    <2>1. (status = "S_E" /\ c = "f") \/ (status = "S_F" /\ c = Blank)
      BY <1>3 DEF Moves
    <2>2. CASE status = "S_E" /\ c = "f"
      <3>1. ch - 3 > as_ /\ htmltxt[ch - 3] = "h" /\ htmltxt[ch - 2] = "r" /\ htmltxt[ch - 1] = "e" /\ htmltxt[ch] = "f"
        BY <2>2 DEF HrefInv, c
      <3>2. /\ ch - 3 \in Nat \ {0} /\ (ch - 3) + 1 = ch - 2 /\ (ch - 3) + 2 = ch - 1 /\ (ch - 3) + 3 = ch
            /\ (ch - 3) + 4 = ch + 1 /\ ch - 3 \in (as_ + 1)..(ch - 3)
        BY <1>1, <1>4, <3>1
      <3>3. HrefAt(ch - 3)
        BY <1>4, <3>1, <3>2, HrefIs
      <3>4. Blanks((ch - 3) + 4, ch)
        <4>1. (ch + 1)..ch = {}
          BY <1>1
        <4> QED  BY <3>2, <4>1 DEF Blanks
      <3> QED  BY <3>2, <3>3, <3>4
    <2>3. CASE status = "S_F" /\ c = Blank
      <3> PICK p \in (as_ + 1)..(ch - 4) : HrefAt(p) /\ Blanks(p + 4, ch - 1)
        BY <2>3 DEF HrefInv
      <3>1. p \in (as_ + 1)..(ch - 3)
        BY <1>1
      <3>2. \A k \in (p + 4)..ch : k = ch \/ k \in (p + 4)..(ch - 1)
        BY <1>1
      <3>3. Blanks(p + 4, ch)
        BY <2>3, <3>2 DEF Blanks, c
      <3> QED  BY <3>1, <3>3
    <2> QED  BY <2>1, <2>2, <2>3
  <1>8. status' = "S_EQ" =>
          \E p \in (as_ + 1)..(ch - 4) : /\ HrefAt(p)
                                         /\ \E q \in (p + 4)..ch :
                                               htmltxt[q] = "=" /\ Blanks(p + 4, q - 1) /\ Blanks(q + 1, ch)
    <2> SUFFICES ASSUME status' = "S_EQ"
                 PROVE  \E p \in (as_ + 1)..(ch - 4) :
                           /\ HrefAt(p)
                           /\ \E q \in (p + 4)..ch :
                                 htmltxt[q] = "=" /\ Blanks(p + 4, q - 1) /\ Blanks(q + 1, ch)
      OBVIOUS
    <2>1. (status = "S_F" /\ c = "=") \/ (status = "S_EQ" /\ c = Blank)
      BY <1>3 DEF Moves
    <2>2. CASE status = "S_F" /\ c = "="
      <3> PICK p \in (as_ + 1)..(ch - 4) : HrefAt(p) /\ Blanks(p + 4, ch - 1)
        BY <2>2 DEF HrefInv
      <3>1. ch \in (p + 4)..ch /\ (ch + 1)..ch = {}
        BY <1>1
      <3>2. Blanks(ch + 1, ch) /\ htmltxt[ch] = "="
        BY <2>2, <3>1 DEF Blanks, c
      <3> QED  BY <3>1, <3>2
    <2>3. CASE status = "S_EQ" /\ c = Blank
      <3> PICK p \in (as_ + 1)..(ch - 5) :
                 /\ HrefAt(p)
                 /\ \E q \in (p + 4)..(ch - 1) :
                       htmltxt[q] = "=" /\ Blanks(p + 4, q - 1) /\ Blanks(q + 1, ch - 1)
        BY <2>3 DEF HrefInv
      <3> PICK q \in (p + 4)..(ch - 1) : htmltxt[q] = "=" /\ Blanks(p + 4, q - 1) /\ Blanks(q + 1, ch - 1)
        OBVIOUS
      <3>1. p \in (as_ + 1)..(ch - 4) /\ q \in (p + 4)..ch
        BY <1>1
      <3>2. \A k \in (q + 1)..ch : k = ch \/ k \in (q + 1)..(ch - 1)
        BY <1>1
      <3>3. Blanks(q + 1, ch)
        BY <2>3, <3>2 DEF Blanks, c
      <3> QED  BY <3>1, <3>3
    <2> QED  BY <2>1, <2>2, <2>3
  <1>9. ls' # NULL => /\ as_ # NULL /\ Opens(as_) /\ as_ < ls' /\ ls' <= ch + 1
                      /\ \E p \in (as_ + 1)..(ls' - 1) : Leads(p, ls')
    <2> SUFFICES ASSUME ls' # NULL
                 PROVE  /\ as_ # NULL /\ Opens(as_) /\ as_ < ls' /\ ls' <= ch + 1
                        /\ \E p \in (as_ + 1)..(ls' - 1) : Leads(p, ls')
      OBVIOUS
    <2>1. CASE status = "S_EQ" /\ c = Quote
      <3>1. ls' = ch + 1 /\ Opens(as_)
        BY <1>2, <2>1 DEF TagInv
      <3> PICK p \in (as_ + 1)..(ch - 5) :
                 /\ HrefAt(p)
                 /\ \E q \in (p + 4)..(ch - 1) :
                       htmltxt[q] = "=" /\ Blanks(p + 4, q - 1) /\ Blanks(q + 1, ch - 1)
        BY <2>1 DEF HrefInv
      <3>2. p \in (as_ + 1)..((ch + 1) - 1) /\ (ch + 1) - 2 = ch - 1 /\ (ch + 1) - 1 = ch
        BY <1>1
      <3>3. Leads(p, ch + 1)
        BY <2>1, <3>2 DEF Leads, c
      <3> QED  BY <1>1, <1>4, <3>1, <3>2, <3>3
    <2>2. CASE ~(status = "S_EQ" /\ c = Quote)
      <3>1. ls' = ls
        BY <1>2, <2>2
      <3>2. /\ as_ # NULL /\ Opens(as_) /\ as_ < ls /\ ls <= ch
            /\ \E p \in (as_ + 1)..(ls - 1) : Leads(p, ls)
        BY <3>1 DEF HrefInv
      <3>3. ls <= ch + 1
        BY <1>1, <3>2
      <3> QED  BY <3>1, <3>2, <3>3
    <2> QED  BY <2>1, <2>2
  <1>10. status' = "S_LQ" => \A k \in ls'..ch : htmltxt[k] # Quote
    <2> SUFFICES ASSUME status' = "S_LQ" PROVE \A k \in ls'..ch : htmltxt[k] # Quote
      OBVIOUS
    <2>1. (status = "S_EQ" /\ c = Quote) \/ (status = "S_LQ" /\ c # Quote)
      BY <1>3 DEF Moves
    <2>2. CASE status = "S_EQ" /\ c = Quote
      <3>1. ls' = ch + 1 /\ (ch + 1)..ch = {}
        BY <1>1, <1>2, <2>2
      <3> QED  BY <3>1
    <2>3. CASE status = "S_LQ" /\ c # Quote
      <3>1. ls' = ls
        BY <1>2, <2>3
      <3>2. \A k \in ls..ch : k = ch \/ k \in ls..(ch - 1)
        BY <1>1
      <3> QED  BY <2>3, <3>1, <3>2 DEF HrefInv, c
    <2> QED  BY <2>1, <2>2, <2>3
  <1>11. le' # NULL => /\ ls' <= le' + 1 /\ le' + 1 < ch + 1 /\ htmltxt[le' + 1] = Quote
                       /\ \A k \in ls'..le' : htmltxt[k] # Quote
    <2> SUFFICES ASSUME le' # NULL
                 PROVE  /\ ls' <= le' + 1 /\ le' + 1 < ch + 1 /\ htmltxt[le' + 1] = Quote
                        /\ \A k \in ls'..le' : htmltxt[k] # Quote
      OBVIOUS
    <2>1. CASE status = "S_LQ" /\ c = Quote
      <3>1. le' = ch - 1 /\ ls' = ls /\ ls # NULL
        BY <1>2, <2>1 DEF PointersInv
      <3>2. ls <= ch /\ \A k \in ls..(ch - 1) : htmltxt[k] # Quote
        BY <2>1, <3>1 DEF HrefInv
      <3>3. (ch - 1) + 1 = ch /\ ls <= (ch - 1) + 1 /\ ch < ch + 1
        BY <1>1, <3>2
      <3> QED  BY <2>1, <3>1, <3>2, <3>3 DEF c
    <2>2. CASE ~(status = "S_LQ" /\ c = Quote)
      <3>1. le' = le /\ status # "S_EQ"
        BY <1>2, <2>2 DEF PointersInv
      <3>2. ls' = ls
        BY <1>2, <3>1
      <3>3. ls <= le + 1 /\ le + 1 < ch /\ htmltxt[le + 1] = Quote /\ \A k \in ls..le : htmltxt[k] # Quote
        BY <3>1 DEF HrefInv
      <3>4. le + 1 < ch + 1
        BY <1>1, <3>3
      <3> QED  BY <3>1, <3>2, <3>3, <3>4
    <2> QED  BY <2>1, <2>2
  <1>12. /\ ch' - 1 = ch /\ ch' - 2 = ch - 1 /\ ch' - 3 = ch - 2 /\ ch' - 4 = ch - 3 /\ ch' - 5 = ch - 4
         /\ htmltxt' = htmltxt /\ as_' = as_
    BY <1>1, <1>2
  <1>13. /\ status' = "S_H" => ch' - 1 > as_' /\ htmltxt'[ch' - 1] = "h"
         /\ status' = "S_R" => ch' - 2 > as_' /\ htmltxt'[ch' - 2] = "h" /\ htmltxt'[ch' - 1] = "r"
         /\ status' = "S_E" => ch' - 3 > as_' /\ htmltxt'[ch' - 3] = "h" /\ htmltxt'[ch' - 2] = "r" /\ htmltxt'[ch' - 1] = "e"
    BY <1>6, <1>12
  <1>14. status' = "S_F" => \E p \in (as_' + 1)..(ch' - 4) : HrefAt(p)' /\ Blanks(p + 4, ch - 1)'
    BY <1>5, <1>7, <1>12 DEF Blanks
  <1>15. status' = "S_EQ" =>
          \E p \in (as_' + 1)..(ch' - 5) : /\ HrefAt(p)'
                                         /\ \E q \in (p + 4)..(ch' - 1) :
                                               /\ htmltxt'[q] = "="
                                               /\ Blanks(p + 4, q - 1)' /\ Blanks(q + 1, ch - 1)'
    BY <1>5, <1>8, <1>12 DEF Blanks
  <1>16. ls' # NULL => /\ as_' # NULL /\ Opens(as_)' /\ as_' < ls' /\ ls' <= ch'
                       /\ \E p \in (as_' + 1)..(ls' - 1) : Leads(p, ls)'
    BY <1>2, <1>5, <1>9, <1>12 DEF Leads, Blanks
  <1>17. status' = "S_LQ" => \A k \in ls'..(ch' - 1) : htmltxt'[k] # Quote
    BY <1>10, <1>12
  <1>18. le' # NULL => /\ ls' <= le' + 1 /\ le' + 1 < ch' /\ htmltxt'[le' + 1] = Quote
                       /\ \A k \in ls'..le' : htmltxt'[k] # Quote
    BY <1>2, <1>11, <1>12
  <1> QED  BY <1>13, <1>14, <1>15, <1>16, <1>17, <1>18 DEF HrefInv

\* What is said of the tag, all of it.
InTagInv == PointersInv /\ TagInv /\ HrefInv

\* With no tag begun there is nothing to say.
LEMMA OutOfTag ==
    ASSUME status \in {"S_START", "S_END"}, as_ = NULL, ls = NULL, le = NULL
    PROVE  InTagInv
  BY DEF InTagInv, PointersInv, TagInv, HrefInv

\* ReadText begins a tag at most.
LEMMA ReadTextTag ==
    ASSUME ParserTypes, InTagInv, ReadText
    PROVE  ParserTypes' /\ InTagInv'
  <1>1. Len(htmltxt) \in Nat /\ ch \in Nat \ {0} /\ ch <= Len(htmltxt)
    BY LenProperties DEF ParserTypes, ReadText, Reading
  <1>2. /\ as_ = NULL /\ ls = NULL /\ le = NULL /\ ls' = NULL /\ le' = NULL /\ ch' = ch + 1
        /\ UNCHANGED <<url, htmltxt, urllist>>
    BY DEF InTagInv, PointersInv, ReadText
  <1>3. ch' \in Nat \ {0} /\ ch' <= Len(htmltxt) + 1
    BY ONLY <1>1, <1>2
  <1>4. CASE htmltxt[ch] = "<"
    <2>1. status' = "S_LEFT" /\ as_' = ch
      BY <1>4 DEF ReadText, Here, Newline
    <2>2. ParserTypes'
      BY <1>1, <1>2, <1>3, <2>1 DEF ParserTypes, NULL
    <2>3. Blanks(ch + 1, ch)
      <3>1. (ch + 1)..ch = {}
        BY <1>1
      <3> QED  BY <3>1 DEF Blanks
    <2>4. \A k \in ch..ch : htmltxt[k] \notin {">", Newline}
      <3>1. ch..ch = {ch}
        BY <1>1
      <3> QED  BY <1>4, <3>1 DEF Newline
    <2>5. (ch + 1) - 1 = ch /\ ch < ch + 1 /\ ch # NULL
      BY <1>1 DEF NULL
    <2>6. Blanks(as_ + 1, ch - 1)'
      BY <1>2, <2>1, <2>3, <2>5 DEF Blanks
    <2>7. \A k \in as_'..(ch' - 1) : htmltxt'[k] \notin {">", Newline}
      BY <1>2, <2>1, <2>4, <2>5
    <2> QED  BY <1>2, <1>4, <2>1, <2>2, <2>5, <2>6, <2>7 DEF InTagInv, PointersInv, TagInv, HrefInv
  <1>5. CASE htmltxt[ch] # "<"
    <2>1. status' \in {"S_START", "S_END"} /\ as_' = NULL
      BY <1>2, <1>5 DEF ReadText, Here
    <2>2. ParserTypes'
      BY <1>1, <1>2, <1>3, <2>1 DEF ParserTypes, NULL
    <2>3. InTagInv'
      BY <1>2, <2>1 DEF InTagInv, PointersInv, TagInv, HrefInv
    <2> QED  BY <2>2, <2>3
  <1> QED  BY <1>4, <1>5

\* TagEnds leaves what has been read of the tag.
LEMMA TagEndsTag ==
    ASSUME ParserTypes, InTagInv, TagEnds
    PROVE  ParserTypes' /\ InTagInv'
  <1>1. /\ UNCHANGED <<url, htmltxt, ch, as_, ls, le, urllist>> /\ status' = "S_RIGHT"
        /\ htmltxt[ch] = ">" /\ ch <= Len(htmltxt) /\ status \notin {"S_START", "S_END", "S_RIGHT"}
    BY DEF TagEnds, Here, Reading
  <1>2. /\ \A i, j : Blanks(i, j)' = Blanks(i, j)
        /\ \A i : Opens(i)' = Opens(i)
        /\ \A p : HrefAt(p)' = HrefAt(p)
        /\ \A p, s : Leads(p, s)' = Leads(p, s)
    BY <1>1, SamePage
  <1>3. ParserTypes'
    BY <1>1 DEF ParserTypes
  <1>4. PointersInv' /\ TagInv'
    BY <1>1 DEF InTagInv, PointersInv, TagInv
  <1>5. HrefInv'
    <2>1. ls # NULL => /\ as_ # NULL /\ Opens(as_) /\ as_ < ls /\ ls <= ch
                       /\ \E p \in (as_ + 1)..(ls - 1) : Leads(p, ls)
      BY DEF InTagInv, HrefInv
    <2>2. ls' # NULL => /\ as_' # NULL /\ Opens(as_)' /\ as_' < ls' /\ ls' <= ch'
                        /\ \E p \in (as_' + 1)..(ls' - 1) : Leads(p, ls)'
      BY <1>1, <1>2, <2>1
    <2>3. le' # NULL => /\ ls' <= le' + 1 /\ le' + 1 < ch' /\ htmltxt'[le' + 1] = Quote
                        /\ \A k \in ls'..le' : htmltxt'[k] # Quote
      BY <1>1 DEF InTagInv, HrefInv
    <2> QED  BY <1>1, <2>2, <2>3 DEF HrefInv
  <1> QED  BY <1>3, <1>4, <1>5 DEF InTagInv

\* End forgets the tag that was broken off.
LEMMA EndTag ==
    ASSUME ParserTypes, InTagInv, End
    PROVE  ParserTypes' /\ InTagInv'
  <1>1. /\ UNCHANGED <<url, htmltxt, ch, urllist>> /\ status' = "S_START"
        /\ as_' = NULL /\ ls' = NULL /\ le' = NULL
    BY DEF End
  <1>2. ParserTypes'
    BY <1>1 DEF ParserTypes, NULL
  <1>3. InTagInv'
    BY <1>1 DEF InTagInv, PointersInv, TagInv, HrefInv
  <1> QED  BY <1>2, <1>3

\* The link between the quotes, when there is one.
LEMMA LinkFound ==
    ASSUME ParserTypes, InTagInv, status = "S_RIGHT", ls # NULL, le # NULL
    PROVE  /\ as_ # NULL /\ as_ < ls /\ ls <= le + 1 /\ le + 1 < ch /\ ch <= Len(htmltxt)
           /\ SubSeq(htmltxt, ls, le) \in Seq(STRING)
           /\ Opens(as_) /\ htmltxt[ch] = ">" /\ as_ \in Places /\ ch \in Closes(as_)
           /\ \E p \in (as_ + 1)..(ls - 1) : Value(p, ls, le)
  <1>1. Len(htmltxt) \in Nat /\ ch \in Nat /\ as_ \in Nat /\ ls \in Nat /\ le \in Nat /\ htmltxt \in Seq(STRING)
    BY LenProperties DEF ParserTypes
  <1>2. /\ as_ # NULL /\ as_ < ls /\ ls <= le + 1 /\ le + 1 < ch /\ ch <= Len(htmltxt)
        /\ htmltxt[ch] = ">" /\ Opens(as_) /\ htmltxt[le + 1] = Quote
        /\ \A k \in ls..le : htmltxt[k] # Quote
        /\ \A k \in as_..(ch - 1) : htmltxt[k] \notin {">", Newline}
    BY DEF InTagInv, HrefInv, TagInv
  <1>3. SubSeq(htmltxt, ls, le) \in Seq(STRING)
    <2>1. ls \in Nat \ {0} /\ le <= Len(htmltxt)
      BY <1>1, <1>2
    <2> QED  BY ONLY <1>1, <1>2, <2>1, PartOf
  <1>4. as_ \in Places /\ ch \in Closes(as_)
    <2>1. as_ \in 1..Len(htmltxt) /\ ch \in 1..Len(htmltxt) /\ ch > as_
      BY <1>1, <1>2 DEF NULL
    <2> QED  BY <1>2, <2>1 DEF Places, Closes
  <1>5. PICK p \in (as_ + 1)..(ls - 1) : Leads(p, ls)
    BY DEF InTagInv, HrefInv
  <1>6. Value(p, ls, le)
    BY <1>2, <1>5 DEF Leads, Value
  <1> QED  BY <1>2, <1>3, <1>4, <1>5, <1>6

\* What Right does: it pushes nothing, or one link, or has no memory for it.
LEMMA RightPushes ==
    ASSUME ParserTypes, InTagInv, Right
    PROVE  \/ /\ urllist' = urllist /\ dropped' = dropped
              /\ ~Found \/ Absolute(SubSeq(htmltxt, ls, le)) = <<>>
           \/ \E abs \in Seq(STRING) :
                 /\ Found /\ Absolute(SubSeq(htmltxt, ls, le)) = <<abs>>
                 /\ urllist' = urllist \o <<[so |-> ls, eo |-> le, link |-> abs]>>
                 /\ dropped' = dropped
           \/ urllist' = urllist /\ dropped' = dropped \cup {<<ls, le>>}
  <1> DEFINE links == Absolute(SubSeq(htmltxt, ls, le))
             pushed == [i \in DOMAIN links |-> [so |-> ls, eo |-> le, link |-> links[i]]]
  <1>1. Pushed = IF Found THEN pushed ELSE <<>>
    BY DEF Pushed
  <1>2. \/ urllist' = urllist \o Pushed /\ dropped' = dropped
        \/ urllist' = urllist /\ dropped' = dropped \cup {<<ls, le>>}
    BY DEF Right
  <1>3. urllist \o <<>> = urllist
    BY ConcatEmptySeq DEF ParserTypes
  <1>4. CASE ~Found
    BY <1>1, <1>2, <1>3, <1>4
  <1>5. CASE Found
    <2>1. SubSeq(htmltxt, ls, le) \in Seq(STRING) /\ url \in Seq(STRING)
      BY <1>5, LinkFound DEF Found, Right, ParserTypes
    <2>2. links = <<>> \/ \E abs \in Seq(STRING) : links = <<abs>>
      BY <2>1, AbsoluteRight
    <2> HIDE DEF links
    <2>3. CASE links = <<>>
      <3>1. pushed = <<>>
        BY <2>3
      <3> QED  BY <1>1, <1>2, <1>3, <1>5, <2>3, <3>1 DEF links
    <2>4. CASE links # <<>>
      <3> PICK abs \in Seq(STRING) : links = <<abs>>
        BY <2>2, <2>4
      <3>1. pushed = <<[so |-> ls, eo |-> le, link |-> abs]>>
        OBVIOUS
      <3> QED  BY <1>1, <1>2, <1>5, <3>1 DEF links
    <2> QED  BY <2>3, <2>4
  <1> QED  BY <1>4, <1>5

\* A link pushed is behind the others.
LEMMA PushedLast ==
    ASSUME NEW S, NEW s \in Seq(S), NEW x \in S
    PROVE  /\ s \o <<x>> \in Seq(S) /\ Len(s \o <<x>>) = Len(s) + 1
           /\ \A i \in 1..Len(s) : (s \o <<x>>)[i] = s[i]
           /\ (s \o <<x>>)[Len(s) + 1] = x
  <1> DEFINE t == <<x>>
  <1>1. t \in Seq(S) /\ Len(t) = 1 /\ t[1] = x /\ Len(s) \in Nat
    BY LenProperties
  <1> HIDE DEF t
  <1>2. /\ s \o t \in Seq(S) /\ Len(s \o t) = Len(s) + Len(t)
        /\ \A i \in 1..(Len(s) + Len(t)) : (s \o t)[i] = IF i <= Len(s) THEN s[i] ELSE t[i - Len(s)]
    BY ONLY <1>1, ConcatProperties, s \in Seq(S)
  <1>3. (s \o t)[Len(s) + 1] = x
    <2>1. Len(s) + 1 \in 1..(Len(s) + Len(t)) /\ ~(Len(s) + 1 <= Len(s)) /\ (Len(s) + 1) - Len(s) = 1
      BY <1>1
    <2> QED  BY <1>1, <1>2, <2>1
  <1>4. \A i \in 1..Len(s) : (s \o t)[i] = s[i]
    BY <1>1, <1>2
  <1> QED  BY <1>1, <1>2, <1>3, <1>4 DEF t

\* A link that leads somewhere is pushed: if the list stays, for want of memory.
LEMMA LinkPushed ==
    ASSUME ParserTypes, InTagInv, Right, Found, Absolute(SubSeq(htmltxt, ls, le)) # <<>>,
           urllist' = urllist
    PROVE  dropped' = dropped \cup {<<ls, le>>}
  <1> DEFINE Link == [so : Nat, eo : Nat, link : Seq(STRING)]
  <1> SUFFICES ASSUME NEW abs \in Seq(STRING),
                      urllist' = urllist \o <<[so |-> ls, eo |-> le, link |-> abs]>>
               PROVE  FALSE
    BY RightPushes
  <1> PICK x : x = [so |-> ls, eo |-> le, link |-> abs]
    OBVIOUS
  <1>1. x \in Link /\ urllist \in Seq(Link) /\ Len(urllist) \in Nat
    BY LenProperties DEF ParserTypes
  <1> HIDE DEF Link
  <1>2. Len(urllist \o <<x>>) = Len(urllist) + 1
    BY <1>1, PushedLast
  <1> QED  BY <1>1, <1>2

\* Right forgets the tag that has been read.
LEMMA RightTag ==
    ASSUME ParserTypes, InTagInv, Right
    PROVE  ParserTypes' /\ InTagInv'
  <1>1. /\ UNCHANGED <<url, htmltxt>> /\ status' = "S_START" /\ ch' = ch + 1 /\ ch <= Len(htmltxt)
        /\ as_' = NULL /\ ls' = NULL /\ le' = NULL
    BY DEF Right, Reading
  <1>2. urllist' \in Seq([so : Nat, eo : Nat, link : Seq(STRING)])
    <2>1. urllist \in Seq([so : Nat, eo : Nat, link : Seq(STRING)]) /\ ls \in Nat /\ le \in Nat
      BY DEF ParserTypes
    <2>2. CASE urllist' = urllist
      BY <2>1, <2>2
    <2>3. CASE urllist' # urllist
      <3> PICK abs \in Seq(STRING) : urllist' = urllist \o <<[so |-> ls, eo |-> le, link |-> abs]>>
        BY <2>3, RightPushes
      <3> DEFINE x == [so |-> ls, eo |-> le, link |-> abs]
      <3>1. x \in [so : Nat, eo : Nat, link : Seq(STRING)]
        BY <2>1
      <3> HIDE DEF x
      <3>2. urllist \o <<x>> \in Seq([so : Nat, eo : Nat, link : Seq(STRING)])
        BY <2>1, <3>1, PushedLast
      <3> QED  BY <3>2 DEF x
    <2> QED  BY <2>2, <2>3
  <1>3. ParserTypes'
    <2>1. Len(htmltxt) \in Nat /\ ch \in Nat \ {0}
      BY LenProperties DEF ParserTypes
    <2>2. ch' \in Nat \ {0} /\ ch' <= Len(htmltxt) + 1
      BY ONLY <1>1, <2>1
    <2> QED  BY <1>1, <1>2, <2>2 DEF ParserTypes, NULL
  <1>4. InTagInv'
    BY <1>1 DEF InTagInv, PointersInv, TagInv, HrefInv
  <1> QED  BY <1>3, <1>4

\* Nothing is said of anything but the variables of the parser.
LEMMA SameTag ==
    ASSUME ParserTypes, InTagInv, UNCHANGED vars
    PROVE  ParserTypes' /\ InTagInv'
  <1>1. UNCHANGED <<url, htmltxt, ch, status, as_, ls, le, urllist>>
    BY DEF vars
  <1>2. ParserTypes'
    BY <1>1 DEF ParserTypes
  <1>3. PointersInv' /\ TagInv'
    BY <1>1 DEF InTagInv, PointersInv, TagInv, Blanks, Opens, Places
  <1>4. HrefInv'
    BY <1>1 DEF InTagInv, HrefInv, Blanks, Opens, Places, HrefAt, Leads
  <1> QED  BY <1>2, <1>3, <1>4 DEF InTagInv

\* Every step keeps account of the tag.
LEMMA TagStep ==
    ASSUME ParserTypes, InTagInv, [Next]_vars
    PROVE  ParserTypes' /\ InTagInv'
  <1>1. CASE ReadText
    BY <1>1, ReadTextTag
  <1>2. CASE ReadTag
    BY <1>2, ReadTagTypes, ReadTagTag, ReadTagHref DEF InTagInv
  <1>3. CASE TagEnds
    BY <1>3, TagEndsTag
  <1>4. CASE Right
    BY <1>4, RightTag
  <1>5. CASE End
    BY <1>5, EndTag
  <1>6. CASE Finished \/ UNCHANGED vars
    BY <1>6, SameTag DEF Finished
  <1> QED  BY <1>1, <1>2, <1>3, <1>4, <1>5, <1>6 DEF Next

\* The place before which the collected links stand only moves on.
LEMMA BoundGrows ==
    ASSUME ParserTypes, InTagInv, [Next]_vars
    PROVE  Bound \in Nat /\ Bound' \in Nat /\ Bound <= Bound'
  <1>1. ch \in Nat /\ as_ \in Nat /\ (as_ # NULL => as_ < ch)
    BY DEF ParserTypes, InTagInv, PointersInv
  <1>2. CASE ReadText
    <2>1. as_ = NULL
      BY <1>2 DEF InTagInv, PointersInv, ReadText
    <2>2. ch' = ch + 1 /\ (as_' = ch \/ as_' = as_)
      BY <1>2 DEF ReadText
    <2> QED  BY <1>1, <2>1, <2>2 DEF Bound, NULL
  <1>3. CASE ReadTag \/ TagEnds
    <2>1. as_' = as_ /\ as_ # NULL
      BY <1>3 DEF ReadTag, TagEnds, InTagInv, TagInv
    <2> QED  BY <1>1, <2>1 DEF Bound
  <1>4. CASE Right \/ End
    <2>1. as_' = NULL /\ (ch' = ch + 1 \/ ch' = ch)
      BY <1>4 DEF Right, End
    <2> QED  BY <1>1, <2>1 DEF Bound
  <1>5. CASE Finished \/ UNCHANGED vars
    <2>1. as_' = as_ /\ ch' = ch
      BY <1>5 DEF Finished, vars
    <2> QED  BY <1>1, <2>1 DEF Bound
  <1> QED  BY <1>2, <1>3, <1>4, <1>5 DEF Next

\* A page's links stay what they are.
LEMMA PageKept ==
    ASSUME [Next]_vars
    PROVE  UNCHANGED <<url, htmltxt>> /\ (~Right => UNCHANGED <<urllist, dropped>>)
  BY DEF Next, ReadText, ReadTag, TagEnds, Right, End, Finished, vars

\* A link collected stays in its anchor.
LEMMA InAnchorKept ==
    ASSUME ParserTypes, InTagInv, [Next]_vars, NEW x, InAnchor(x)
    PROVE  InAnchor(x)'
  <1>1. UNCHANGED <<url, htmltxt>>
    BY PageKept
  <1>2. /\ Anchors' = Anchors
        /\ \A link : Absolute(link)' = Absolute(link)
        /\ \A p, s, e : Value(p, s, e)' = Value(p, s, e)
    BY <1>1, SameAnchors, SameAbsolute, SamePage
  <1>3. PICK a \in Anchors : \E p \in a[1]..a[2] : x.eo + 1 < a[2] /\ Value(p, x.so, x.eo) /\ a[2] < Bound
    BY DEF InAnchor
  <1>4. a[2] \in Nat
    <2>1. htmltxt \in Seq(STRING) /\ Len(htmltxt) \in Nat
      BY LenProperties DEF ParserTypes
    <2>2. a[2] \in Closes(a[1])
      BY <2>1, AnchorRight DEF AnchorFrom
    <2> QED  BY <2>1, <2>2 DEF Closes, Places
  <1>5. a[2] < Bound'
    <2>1. a[2] < Bound /\ Bound \in Nat /\ Bound' \in Nat /\ Bound <= Bound'
      BY <1>3, BoundGrows
    <2> QED  BY ONLY <1>4, <2>1
  <1>6. \E b \in Anchors' : \E p \in b[1]..b[2] : x.eo + 1 < b[2] /\ Value(p, x.so, x.eo)' /\ b[2] < Bound'
    BY <1>2, <1>3, <1>5
  <1>7. /\ x.so # 0 /\ x.so <= x.eo + 1 /\ x.eo < Len(htmltxt')
        /\ Absolute(SubSeq(htmltxt, x.so, x.eo))' = <<x.link>>
    BY <1>1, <1>2 DEF InAnchor
  <1> QED  BY <1>6, <1>7 DEF InAnchor

\* The link pushed by Right is in an anchor, and behind the ends of those before.
LEMMA LastInAnchor ==
    ASSUME ParserTypes, InTagInv, LinksInv, Right, Found, NEW abs \in Seq(STRING),
           Absolute(SubSeq(htmltxt, ls, le)) = <<abs>>,
           NEW x, x = [so |-> ls, eo |-> le, link |-> abs]
    PROVE  InAnchor(x)'
  <1>1. /\ Len(htmltxt) \in Nat /\ ch \in Nat /\ as_ \in Nat /\ ls \in Nat /\ le \in Nat /\ htmltxt \in Seq(STRING)
        /\ ls # 0
    BY LenProperties DEF ParserTypes, Found, NULL
  <1>2. /\ as_ # NULL /\ as_ < ls /\ ls <= le + 1 /\ le + 1 < ch /\ ch <= Len(htmltxt)
        /\ Opens(as_) /\ htmltxt[ch] = ">" /\ as_ \in Places /\ ch \in Closes(as_)
        /\ \E p \in (as_ + 1)..(ls - 1) : Value(p, ls, le)
    BY LinkFound DEF Found, Right
  <1>3. UNCHANGED <<url, htmltxt>> /\ ch' = ch + 1 /\ as_' = NULL
    BY DEF Right
  <1>4. /\ Anchors' = Anchors
        /\ \A link : Absolute(link)' = Absolute(link)
        /\ \A p, s, e : Value(p, s, e)' = Value(p, s, e)
    BY <1>3, SameAnchors, SameAbsolute, SamePage
  <1>5. PICK a \in Anchors : a[1] <= as_ /\ a[2] = ch /\ a[1] \in Nat
    BY <1>1, <1>2, AnchorAround
  <1>6. PICK p \in (as_ + 1)..(ls - 1) : Value(p, ls, le)
    BY <1>2
  <1>7. p \in a[1]..a[2] /\ le + 1 < a[2] /\ a[2] < Bound'
    BY <1>1, <1>2, <1>3, <1>5 DEF Bound
  <1>8. x.so = ls /\ x.eo = le /\ x.link = abs
    OBVIOUS
  <1>9. \E b \in Anchors' : \E r \in b[1]..b[2] : x.eo + 1 < b[2] /\ Value(r, x.so, x.eo)' /\ b[2] < Bound'
    BY <1>4, <1>5, <1>6, <1>7, <1>8
  <1>10. /\ x.so # 0 /\ x.so <= x.eo + 1 /\ x.eo < Len(htmltxt')
         /\ Absolute(SubSeq(htmltxt, x.so, x.eo))' = <<x.link>>
    <2>1. le < Len(htmltxt)
      BY <1>1, <1>2
    <2> QED  BY <1>1, <1>2, <1>3, <1>4, <1>8, <2>1
  <1> QED  BY <1>9, <1>10 DEF InAnchor

\* Between a link collected before and the one pushed there is an anchor's end.
LEMMA EndBetween ==
    ASSUME ParserTypes, InTagInv, Right, Found,
           NEW x \in [so : Nat, eo : Nat, link : Seq(STRING)], InAnchor(x)
    PROVE  \E a \in Anchors : x.eo < a[2] /\ a[2] < ls
  <1>1. PICK a \in Anchors : \E p \in a[1]..a[2] : x.eo + 1 < a[2] /\ Value(p, x.so, x.eo) /\ a[2] < Bound
    BY DEF InAnchor
  <1>2. as_ # NULL /\ as_ < ls
    BY LinkFound DEF Found, Right
  <1>3. Bound = as_ /\ as_ \in Nat /\ ls \in Nat /\ x.eo \in Nat
    BY <1>2 DEF Bound, ParserTypes
  <1>4. a[2] \in Nat
    <2>1. htmltxt \in Seq(STRING) /\ Len(htmltxt) \in Nat
      BY LenProperties DEF ParserTypes
    <2>2. a[2] \in Closes(a[1])
      BY <2>1, AnchorRight DEF AnchorFrom
    <2> QED  BY <2>1, <2>2 DEF Closes, Places
  <1> QED  BY <1>1, <1>2, <1>3, <1>4

\* Every step keeps the links collected as LinksInv says.
LEMMA LinksStep ==
    ASSUME ParserTypes, InTagInv, LinksInv, [Next]_vars
    PROVE  LinksInv'
  <1> DEFINE Link == [so : Nat, eo : Nat, link : Seq(STRING)]
  <1>1. UNCHANGED <<url, htmltxt>> /\ Anchors' = Anchors
    BY PageKept, SameAnchors
  <1> PICK s : s = urllist
    OBVIOUS
  <1>2. s \in Seq(Link) /\ Len(s) \in Nat
    BY LenProperties DEF ParserTypes
  <1> HIDE DEF Link
  <1>3. \A m \in 1..Len(s) : s[m] \in Link
    BY <1>2, ElementOfSeq
  <1>4. \A m \in 1..Len(s) : InAnchor(s[m])'
    <2> SUFFICES ASSUME NEW m \in 1..Len(s) PROVE InAnchor(s[m])'
      OBVIOUS
    <2>1. InAnchor(s[m])
      BY DEF LinksInv
    <2> PICK x : x = s[m]
      OBVIOUS
    <2>2. InAnchor(x)'
      BY <2>1, InAnchorKept
    <2> QED  BY <2>2
  <1>5. \A m, n \in 1..Len(s) : m < n => \E a \in Anchors : s[m].eo < a[2] /\ a[2] < s[n].so
    BY DEF LinksInv
  <1>6. CASE urllist' = s
    BY <1>1, <1>4, <1>5, <1>6 DEF LinksInv
  <1>7. CASE urllist' # s
    <2>1. Right
      BY <1>7, PageKept
    <2>2. PICK abs \in Seq(STRING) :
             /\ Found /\ Absolute(SubSeq(htmltxt, ls, le)) = <<abs>>
             /\ urllist' = s \o <<[so |-> ls, eo |-> le, link |-> abs]>>
      BY <1>7, <2>1, RightPushes
    <2> PICK x : x = [so |-> ls, eo |-> le, link |-> abs]
      OBVIOUS
    <2>3. x \in Link /\ x.so = ls
      BY DEF Link, ParserTypes
    <2>4. InAnchor(x)'
      BY <2>1, <2>2, LastInAnchor
    <2>5. \A m \in 1..Len(s) : \E a \in Anchors : s[m].eo < a[2] /\ a[2] < x.so
      <3> SUFFICES ASSUME NEW m \in 1..Len(s) PROVE \E a \in Anchors : s[m].eo < a[2] /\ a[2] < x.so
        OBVIOUS
      <3>1. s[m] \in Link /\ InAnchor(s[m])
        BY <1>3 DEF LinksInv
      <3> QED  BY <2>1, <2>2, <2>3, <3>1, EndBetween DEF Link
    <2> PICK t : t = s \o <<x>>
      OBVIOUS
    <2>6. Len(t) = Len(s) + 1 /\ (\A m \in 1..Len(s) : t[m] = s[m]) /\ t[Len(s) + 1] = x
      BY <1>2, <2>3, PushedLast
    <2>7. \A m \in 1..Len(t) : m \in 1..Len(s) \/ m = Len(s) + 1
      BY <1>2, <2>6
    <2>8. \A m \in 1..Len(t) : InAnchor(t[m])'
      BY <1>4, <2>4, <2>6, <2>7
    <2>9. \A m, n \in 1..Len(t) : m < n => \E a \in Anchors : t[m].eo < a[2] /\ a[2] < t[n].so
      <3> SUFFICES ASSUME NEW m \in 1..Len(t), NEW n \in 1..Len(t), m < n
                   PROVE  \E a \in Anchors : t[m].eo < a[2] /\ a[2] < t[n].so
        OBVIOUS
      <3>1. m \in 1..Len(s)
        BY <1>2, <2>6
      <3>2. CASE n \in 1..Len(s)
        BY <1>5, <2>6, <3>1, <3>2
      <3>3. CASE n = Len(s) + 1
        BY <2>5, <2>6, <3>1, <3>3
      <3> QED  BY <2>7, <3>2, <3>3
    <2>10. urllist' = t
      BY <2>2
    <2>11. \A m \in 1..Len(urllist') : InAnchor(urllist[m])'
      BY <2>8, <2>10
    <2>12. \A m, n \in 1..Len(urllist') : m < n =>
              \E a \in Anchors' : urllist'[m].eo < a[2] /\ a[2] < urllist'[n].so
      BY <1>1, <2>9, <2>10
    <2> QED  BY <2>11, <2>12 DEF LinksInv
  <1> QED  BY <1>6, <1>7

\* What ReadTag makes of a character that breaks nothing off.
LEMMA ReadTagIs ==
    ASSUME ParserTypes, ReadTag, NEW c, c = htmltxt[ch], c # Newline
    PROVE  /\ status = "S_LEFT" /\ c = "a" => status' = "S_A"
           /\ status = "S_LEFT" /\ c = Blank => status' = "S_LEFT"
           /\ status = "S_A" /\ c = Blank => status' = "S_BLANK"
           /\ status = "S_BLANK" => status' = IF c = "h" THEN "S_H" ELSE "S_BLANK"
           /\ status = "S_H" => status' = IF c = "r" THEN "S_R" ELSE "S_BLANK"
           /\ status = "S_R" => status' = IF c = "e" THEN "S_E" ELSE "S_BLANK"
           /\ status = "S_E" => status' = IF c = "f" THEN "S_F" ELSE "S_BLANK"
           /\ status = "S_F" /\ c = "=" => status' = "S_EQ"
           /\ status = "S_F" /\ c = Blank => status' = "S_F"
           /\ status = "S_EQ" /\ c = Quote => status' = "S_LQ"
           /\ status = "S_EQ" /\ c = Blank => status' = "S_EQ"
           /\ status = "S_LQ" => status' = IF c = Quote THEN "S_RQ" ELSE "S_LQ"
           /\ status = "S_RQ" => status' = "S_RQ"
           /\ ch' = ch + 1 /\ UNCHANGED <<url, htmltxt, as_, urllist>>
           /\ ls' = IF status = "S_EQ" /\ c = Quote THEN ch + 1 ELSE ls
           /\ le' = IF status = "S_LQ" /\ c = Quote THEN ch - 1 ELSE le
  <1>1. status' = After(status, c)
    BY DEF ReadTag, Here
  <1>2. /\ ch' = ch + 1 /\ UNCHANGED <<url, htmltxt, as_, urllist>>
        /\ ls' = IF status = "S_EQ" /\ c = Quote THEN ch + 1 ELSE ls
        /\ le' = IF status = "S_LQ" /\ c = Quote THEN ch - 1 ELSE le
    BY DEF ReadTag, Here
  <1>3. /\ After("S_LEFT", c) = IF c = "a" THEN "S_A" ELSE IF c = Blank THEN "S_LEFT" ELSE "S_END"
        /\ After("S_A", c) = IF c = Blank THEN "S_BLANK" ELSE "S_END"
        /\ After("S_EQ", c) = IF c = Quote THEN "S_LQ" ELSE IF c = Blank THEN "S_EQ" ELSE "S_BLANK"
        /\ After("S_LQ", c) = IF c = Quote THEN "S_RQ" ELSE "S_LQ"
        /\ After("S_RQ", c) = "S_RQ"
    BY DEF After, Blank, Quote, Expected
  <1>4. /\ After("S_BLANK", c) = IF c = "h" THEN "S_H" ELSE "S_BLANK"
        /\ After("S_H", c) = IF c = "r" THEN "S_R" ELSE "S_BLANK"
        /\ After("S_R", c) = IF c = "e" THEN "S_E" ELSE "S_BLANK"
        /\ After("S_E", c) = IF c = "f" THEN "S_F" ELSE "S_BLANK"
        /\ After("S_F", c) = IF c = "=" THEN "S_EQ" ELSE IF c = Blank THEN "S_F" ELSE "S_BLANK"
    BY DEF After, Blank, Quote, Expected, Following
  <1>5. Blank # "a" /\ Blank # Quote /\ Blank # "="
    BY DEF Blank, Quote
  <1> QED  BY <1>1, <1>2, <1>3, <1>4, <1>5

\* Where an anchor's link stands, and what about it.
LEMMA LinkAt ==
    ASSUME htmltxt \in Seq(STRING), NEW a \in Anchors,
           NEW p \in (a[1] + 1)..a[2], NEW q \in (a[1] + 1)..a[2],
           NEW s \in (a[1] + 1)..a[2], NEW e \in (a[1] + 1)..a[2], HasLink(a, p, q, s, e)
    PROVE  /\ a[1] \in Nat \ {0} /\ a[2] \in Nat /\ p \in Nat /\ q \in Nat /\ s \in Nat /\ e \in Nat
           /\ a[1] + 1 < p /\ p + 4 <= q /\ q + 2 <= s /\ s <= e /\ e + 1 < a[2] /\ a[2] <= Len(htmltxt)
           /\ htmltxt[a[1]] = "<" /\ htmltxt[a[2]] = ">"
           /\ \A k \in a[1]..(a[2] - 1) : htmltxt[k] \notin {">", Newline}
           /\ htmltxt[p] = "h" /\ htmltxt[p + 1] = "r" /\ htmltxt[p + 2] = "e" /\ htmltxt[p + 3] = "f"
  <1>1. Len(htmltxt) \in Nat
    BY LenProperties
  <1>2. /\ a[1] \in Places /\ Opens(a[1]) /\ a[2] \in Closes(a[1]) /\ htmltxt[a[2]] = ">"
    BY AnchorRight DEF AnchorFrom
  <1>3. /\ a[1] \in Nat \ {0} /\ a[2] \in Nat /\ a[2] <= Len(htmltxt) /\ htmltxt[a[1]] = "<"
        /\ \A k \in a[1]..(a[2] - 1) : htmltxt[k] \notin {">", Newline}
    <2>1. a[1] \in 1..Len(htmltxt) /\ a[2] \in 1..Len(htmltxt)
      BY <1>2 DEF Closes, Places
    <2>2. a[1] \in Nat \ {0} /\ a[2] \in Nat /\ a[2] <= Len(htmltxt)
      BY <1>1, <2>1
    <2>3. \A k \in a[1]..(a[2] - 1) : htmltxt[k] \notin {">", Newline}
      BY <1>2 DEF Closes
    <2>4. htmltxt[a[1]] = "<"
      BY <1>2 DEF Opens
    <2> QED  BY <2>2, <2>3, <2>4
  <1>4. p \in Nat \ {0} /\ q \in Nat /\ s \in Nat /\ e \in Nat /\ a[1] < p
    BY <1>3
  <1>5. /\ HrefAt(p) /\ q \in (p + 4)..(s - 2) /\ s <= e /\ e + 1 < a[2] /\ htmltxt[p - 1] = Blank
    BY DEF HasLink
  <1>6. htmltxt[p] = "h" /\ htmltxt[p + 1] = "r" /\ htmltxt[p + 2] = "e" /\ htmltxt[p + 3] = "f"
    BY <1>4, <1>5, HrefIs
  <1>7. p + 4 <= q /\ q + 2 <= s
    BY <1>4, <1>5
  <1>8. a[1] + 1 < p
    <2>1. p - 1 # a[1]
      BY <1>3, <1>5 DEF Blank
    <2> QED  BY ONLY <1>3, <1>4, <2>1
  <1> QED  BY <1>1, <1>2, <1>3, <1>4, <1>5, <1>6, <1>7, <1>8

\* Up to the href: the machine is between the "<" and the href.
LEMMA BeforeHref ==
    ASSUME ParserTypes, InTagInv, ReadTag, NEW a \in Anchors,
           NEW p \in (a[1] + 1)..a[2], NEW q \in (a[1] + 1)..a[2],
           NEW s \in (a[1] + 1)..a[2], NEW e \in (a[1] + 1)..a[2], HasLink(a, p, q, s, e),
           a[1] < ch, ch <= p,
           as_ = a[1], status \in {"S_LEFT", "S_A", "S_BLANK", "S_H", "S_R", "S_E"}
    PROVE  /\ ch < p => status' \in {"S_LEFT", "S_A", "S_BLANK", "S_H", "S_R", "S_E"}
           /\ ch = p => status' = "S_H"
  <1> DEFINE c == htmltxt[ch]
  <1> PICK b, d : b = a[1] /\ d = a[2]
    OBVIOUS
  <1>1. /\ b \in Nat \ {0} /\ d \in Nat /\ p \in Nat /\ q \in Nat /\ s \in Nat /\ e \in Nat
        /\ b + 1 < p /\ p + 4 <= q /\ q + 2 <= s /\ s <= e /\ e + 1 < d /\ d <= Len(htmltxt)
        /\ htmltxt[b] = "<" /\ htmltxt[d] = ">"
        /\ \A k \in b..(d - 1) : htmltxt[k] \notin {">", Newline}
        /\ htmltxt[p] = "h" /\ htmltxt[p + 1] = "r" /\ htmltxt[p + 2] = "e" /\ htmltxt[p + 3] = "f"
    <2>1. /\ a[1] \in Nat \ {0} /\ a[2] \in Nat /\ p \in Nat /\ q \in Nat /\ s \in Nat /\ e \in Nat
          /\ a[1] + 1 < p /\ p + 4 <= q /\ q + 2 <= s /\ s <= e /\ e + 1 < a[2] /\ a[2] <= Len(htmltxt)
          /\ htmltxt[a[1]] = "<" /\ htmltxt[a[2]] = ">"
          /\ \A k \in a[1]..(a[2] - 1) : htmltxt[k] \notin {">", Newline}
          /\ htmltxt[p] = "h" /\ htmltxt[p + 1] = "r" /\ htmltxt[p + 2] = "e" /\ htmltxt[p + 3] = "f"
      <3>1. htmltxt \in Seq(STRING)
        BY DEF ParserTypes
      <3> QED  BY <3>1, LinkAt
    <2> QED  BY ONLY <2>1, b = a[1], d = a[2]
  <1>2. ch \in Nat /\ Len(htmltxt) \in Nat /\ b < ch /\ ch <= p /\ ch < d
    <2>1. ch \in Nat /\ Len(htmltxt) \in Nat /\ b < ch
      BY LenProperties DEF ParserTypes
    <2> QED  BY ONLY <1>1, <2>1, ch <= p
  <1>3. c # Newline
    <2>1. ch \in b..(d - 1)
      BY ONLY <1>1, <1>2
    <2> QED  BY <1>1, <2>1
  <1>4. PICK k \in Places : /\ k > b /\ htmltxt[k] = "a" /\ Blanks(b + 1, k - 1)
                            /\ k < Len(htmltxt) /\ htmltxt[k + 1] = Blank
    BY AnchorRight DEF AnchorFrom, Opens, ParserTypes
  <1>5. k \in Nat /\ k < p
    <2>1. k \in Nat
      BY <1>2, <1>4 DEF Places
    <2>2. k # p
      BY <1>1, <1>4
    <2>3. ~(p < k)
      <3> SUFFICES ASSUME p < k PROVE FALSE
        OBVIOUS
      <3>1. p \in (b + 1)..(k - 1)
        BY <1>1, <2>1
      <3> QED  BY <1>1, <1>4, <3>1 DEF Blanks, Blank
    <2> QED  BY <1>1, <2>1, <2>2, <2>3
  <1>6. \A i \in b..(p - 1) : ~HrefAt(i)
    BY DEF HasLink
  <1>7. htmltxt[p - 1] = Blank
    BY DEF HasLink
  <1>8. CASE status = "S_LEFT"
    <2>1. Blanks(b + 1, ch - 1)
      BY <1>8 DEF InTagInv, TagInv
    <2>2. ~(k < ch)
      <3> SUFFICES ASSUME k < ch PROVE FALSE
        OBVIOUS
      <3>1. k \in (b + 1)..(ch - 1)
        BY ONLY <1>1, <1>2, <1>4, <1>5, k < ch
      <3> QED  BY <1>4, <2>1, <3>1 DEF Blanks, Blank
    <2>3. c = "a" \/ c = Blank
      <3>1. ch = k \/ ch \in (b + 1)..(k - 1)
        BY ONLY <1>1, <1>2, <1>5, <2>2
      <3> QED  BY <1>4, <3>1 DEF Blanks
    <2>4. status' \in {"S_LEFT", "S_A"}
      BY <1>3, <1>8, <2>3, ReadTagIs
    <2>5. ch < p
      BY ONLY <1>1, <1>2, <1>5, <2>2
    <2> QED  BY <1>1, <1>2, <2>4, <2>5
  <1>9. CASE status = "S_A"
    <2>1. ch - 1 > b /\ htmltxt[ch - 1] = "a" /\ Blanks(b + 1, ch - 2)
      BY <1>9 DEF InTagInv, TagInv
    <2>2. ch - 1 = k
      <3>1. ~(ch - 1 < k)
        <4> SUFFICES ASSUME ch - 1 < k PROVE FALSE
          OBVIOUS
        <4>1. ch - 1 \in (b + 1)..(k - 1)
          BY ONLY <1>1, <1>2, <1>5, <2>1, ch - 1 < k
        <4> QED  BY <1>4, <2>1, <4>1 DEF Blanks, Blank
      <3>2. ~(k < ch - 1)
        <4> SUFFICES ASSUME k < ch - 1 PROVE FALSE
          OBVIOUS
        <4>1. k \in (b + 1)..(ch - 2)
          BY ONLY <1>1, <1>2, <1>4, <1>5, k < ch - 1
        <4> QED  BY <1>4, <2>1, <4>1 DEF Blanks, Blank
      <3> QED  BY <1>2, <1>5, <3>1, <3>2
    <2>3. c = Blank
      <3>1. ch = k + 1
        BY <1>2, <1>5, <2>2
      <3> QED  BY <1>4, <3>1
    <2>4. status' = "S_BLANK"
      BY <1>3, <1>9, <2>3, ReadTagIs
    <2>5. ch # p
      BY <1>1, <2>3 DEF Blank
    <2> QED  BY <2>4, <2>5
  <1>10. CASE status = "S_BLANK"
    <2>1. status' = IF c = "h" THEN "S_H" ELSE "S_BLANK"
      BY <1>3, <1>10, ReadTagIs
    <2> QED  BY <1>1, <2>1
  <1>11. CASE status \in {"S_H", "S_R", "S_E"}
    <2>1. ch # p
      <3>1. htmltxt[ch - 1] \in {"h", "r", "e"}
        BY <1>11 DEF InTagInv, HrefInv
      <3> QED  BY <1>7, <3>1 DEF Blank
    <2>2. ~(status = "S_E" /\ c = "f")
      <3> SUFFICES ASSUME status = "S_E", c = "f" PROVE FALSE
        OBVIOUS
      <3>1. ch - 3 > b /\ htmltxt[ch - 3] = "h" /\ htmltxt[ch - 2] = "r" /\ htmltxt[ch - 1] = "e"
        BY DEF InTagInv, HrefInv
      <3>2. /\ ch - 3 \in Nat \ {0} /\ (ch - 3) + 1 = ch - 2 /\ (ch - 3) + 2 = ch - 1 /\ (ch - 3) + 3 = ch
            /\ ch - 3 \in b..(p - 1) /\ ch <= Len(htmltxt)
        <4> DEFINE i == b
        <4>1. i \in Nat \ {0} /\ p \in Nat /\ ch \in Nat /\ ch - 3 > i /\ ch <= p /\ p + 4 <= q /\ q + 2 <= s
              /\ s <= e /\ e + 1 < d /\ d <= Len(htmltxt) /\ q \in Nat /\ s \in Nat /\ e \in Nat /\ d \in Nat
          BY <1>1, <1>2, <3>1
        <4> HIDE DEF i
        <4>2. /\ ch - 3 \in Nat \ {0} /\ (ch - 3) + 1 = ch - 2 /\ (ch - 3) + 2 = ch - 1 /\ (ch - 3) + 3 = ch
              /\ ch - 3 \in i..(p - 1) /\ ch <= Len(htmltxt)
          BY ONLY <1>2, <4>1
        <4> QED  BY <4>2 DEF i
      <3>3. HrefAt(ch - 3)
        BY <3>1, <3>2, HrefIs DEF ParserTypes
      <3> QED  BY <1>6, <3>2, <3>3
    <2>3. status' \in {"S_R", "S_E", "S_BLANK"}
      <3>1. /\ status = "S_H" => status' = IF c = "r" THEN "S_R" ELSE "S_BLANK"
            /\ status = "S_R" => status' = IF c = "e" THEN "S_E" ELSE "S_BLANK"
            /\ status = "S_E" => status' = IF c = "f" THEN "S_F" ELSE "S_BLANK"
        BY <1>3, ReadTagIs
      <3> QED  BY <1>11, <2>2, <3>1
    <2> QED  BY <2>1, <2>3
  <1> QED  BY <1>8, <1>9, <1>10, <1>11

\* Within an anchor, the machine goes on with its link.
LEMMA WithinAnchor ==
    ASSUME ParserTypes, InTagInv, ReadTag, NEW a \in Anchors,
           NEW p \in (a[1] + 1)..a[2], NEW q \in (a[1] + 1)..a[2],
           NEW s \in (a[1] + 1)..a[2], NEW e \in (a[1] + 1)..a[2], HasLink(a, p, q, s, e),
           Progress(a, p, q, s, e), a[1] < ch, ch < a[2]
    PROVE  Progress(a, p, q, s, e)'
  <1> DEFINE c == htmltxt[ch]
  <1>1. /\ a[1] \in Nat \ {0} /\ a[2] \in Nat /\ p \in Nat /\ q \in Nat /\ s \in Nat /\ e \in Nat
        /\ a[1] + 1 < p /\ p + 4 <= q /\ q + 2 <= s /\ s <= e /\ e + 1 < a[2] /\ a[2] <= Len(htmltxt)
        /\ htmltxt[a[1]] = "<" /\ htmltxt[a[2]] = ">"
        /\ \A k \in a[1]..(a[2] - 1) : htmltxt[k] \notin {">", Newline}
        /\ htmltxt[p] = "h" /\ htmltxt[p + 1] = "r" /\ htmltxt[p + 2] = "e" /\ htmltxt[p + 3] = "f"
    BY LinkAt DEF ParserTypes
  <1>2. ch \in Nat /\ Len(htmltxt) \in Nat
    BY LenProperties DEF ParserTypes
  <1> PICK i : i = a[1]
    OBVIOUS
  <1> PICK j : j = a[2]
    OBVIOUS
  <1>3. c # Newline
    <2>1. i < ch /\ ch < j /\ i \in Nat /\ j \in Nat
      BY <1>1
    <2>2. ch \in i..(j - 1)
      BY ONLY <1>2, <2>1
    <2> QED  BY <1>1, <2>2
  <1>12. /\ i \in Nat /\ j \in Nat /\ p \in Nat /\ q \in Nat /\ s \in Nat /\ e \in Nat /\ ch \in Nat
         /\ i + 1 < p /\ p + 4 <= q /\ q + 2 <= s /\ s <= e /\ e + 1 < j /\ i < ch /\ ch < j
    BY <1>1, <1>2
  <1>4. as_ = i
    <2>1. ch <= p \/ ch = p + 1 \/ ch = p + 2 \/ ch = p + 3 \/ (p + 3 < ch /\ ch <= q) \/ (q < ch /\ ch < s)
             \/ (s <= ch /\ ch <= e + 1) \/ (e + 1 < ch /\ ch <= j)
      BY ONLY <1>12
    <2> QED  BY <2>1 DEF Progress
  <1>5. /\ ch' = ch + 1 /\ UNCHANGED <<url, htmltxt, as_, urllist>>
        /\ ls' = IF status = "S_EQ" /\ c = Quote THEN ch + 1 ELSE ls
        /\ le' = IF status = "S_LQ" /\ c = Quote THEN ch - 1 ELSE le
    BY <1>3, ReadTagIs
  <1>13. ch' = ch + 1 /\ as_' = i
    BY <1>4, <1>5
  <1> HIDE DEF c
  <1>6. CASE ch <= p
    <2>1. status \in {"S_LEFT", "S_A", "S_BLANK", "S_H", "S_R", "S_E"}
      BY <1>6 DEF Progress
    <2>2. /\ ch < p => status' \in {"S_LEFT", "S_A", "S_BLANK", "S_H", "S_R", "S_E"}
          /\ ch = p => status' = "S_H"
      BY <1>4, <1>6, <2>1, BeforeHref
    <2>3. /\ (ch' <= p => ch < p) /\ (ch' = p + 1 => ch = p)
         /\ ch' # p + 2 /\ ch' # p + 3 /\ ~(p + 3 < ch') /\ ~(q < ch') /\ ~(s <= ch') /\ ~(e + 1 < ch') /\ ~(j < ch')
      BY ONLY <1>12, <1>13, <1>6
    <2> QED  BY ONLY <1>13, <2>2, <2>3, i = a[1], j = a[2] DEF Progress
  <1>7. CASE p < ch /\ ch <= p + 3
    <2>1. /\ ch = p + 1 => status = "S_H" /\ c = "r"
          /\ ch = p + 2 => status = "S_R" /\ c = "e"
          /\ ch = p + 3 => status = "S_E" /\ c = "f"
      BY <1>1 DEF Progress, c
    <2>2. /\ ch = p + 1 => status' = "S_R"
          /\ ch = p + 2 => status' = "S_E"
          /\ ch = p + 3 => status' = "S_F"
      BY <1>3, <2>1, ReadTagIs DEF c
    <2> QED  BY <1>12, <1>13, <1>7, <2>2 DEF Progress
  <1>8. CASE p + 3 < ch /\ ch <= q
    <2>1. status = "S_F"
      BY <1>8 DEF Progress
    <2>2. htmltxt[q] = "=" /\ Blanks(p + 4, q - 1)
      BY DEF HasLink
    <2>3. ch = q \/ ch \in (p + 4)..(q - 1)
      BY <1>1, <1>2, <1>8
    <2>4. (ch = q /\ c = "=") \/ (ch # q /\ c = Blank)
      <3>1. CASE ch = q
        BY <2>2, <3>1 DEF c
      <3>2. CASE ch # q
        BY <2>2, <2>3, <3>2 DEF Blanks, c
      <3> QED  BY <3>1, <3>2
    <2>5. /\ ch = q => status' = "S_EQ"
          /\ ch # q => status' = "S_F"
      BY <1>3, <2>1, <2>4, ReadTagIs DEF c
    <2>6. /\ ~(ch' <= p) /\ ch' # p + 1 /\ ch' # p + 2 /\ ch' # p + 3
         /\ (ch' <= q => ch # q) /\ (q < ch' => ch = q)
         /\ ~(s <= ch') /\ ~(e + 1 < ch') /\ ~(j < ch')
      BY ONLY <1>12, <1>13, <1>8
    <2> QED  BY ONLY <1>13, <2>5, <2>6, i = a[1], j = a[2] DEF Progress
  <1>9. CASE q < ch /\ ch < s
    <2>1. status = "S_EQ"
      BY <1>9 DEF Progress
    <2>2. htmltxt[s - 1] = Quote /\ Blanks(q + 1, s - 2)
      BY DEF HasLink
    <2>3. ch = s - 1 \/ ch \in (q + 1)..(s - 2)
      BY <1>1, <1>2, <1>9
    <2>4. (ch = s - 1 /\ c = Quote) \/ (ch # s - 1 /\ c = Blank)
      <3>1. CASE ch = s - 1
        BY <2>2, <3>1 DEF c
      <3>2. CASE ch # s - 1
        BY <2>2, <2>3, <3>2 DEF Blanks, c
      <3> QED  BY <3>1, <3>2
    <2>5. /\ ch = s - 1 => status' = "S_LQ" /\ ls' = ch + 1
          /\ ch # s - 1 => status' = "S_EQ"
      BY <1>3, <1>5, <2>1, <2>4, ReadTagIs DEF c
    <2>6. /\ ~(ch' <= p) /\ ch' # p + 1 /\ ch' # p + 2 /\ ch' # p + 3 /\ ~(ch' <= q)
         /\ (ch' < s => ch # s - 1) /\ (s <= ch' => ch = s - 1 /\ ch + 1 = s)
         /\ ~(e + 1 < ch') /\ ~(j < ch')
      BY ONLY <1>12, <1>13, <1>9
    <2> QED  BY ONLY <1>13, <2>5, <2>6, i = a[1], j = a[2] DEF Progress
  <1>10. CASE s <= ch /\ ch <= e + 1
    <2>1. status = "S_LQ" /\ ls = s
      BY <1>10 DEF Progress
    <2>2. htmltxt[e + 1] = Quote /\ \A k \in s..e : htmltxt[k] # Quote
      BY DEF HasLink
    <2>3. ch = e + 1 \/ ch \in s..e
      BY <1>1, <1>2, <1>10
    <2>4. /\ ch = e + 1 => c = Quote
          /\ ch # e + 1 => c # Quote
      BY <2>2, <2>3 DEF c
    <2>5. /\ ch = e + 1 => status' = "S_RQ" /\ le' = ch - 1
          /\ ch # e + 1 => status' = "S_LQ"
          /\ ls' = s
      BY <1>3, <1>5, <2>1, <2>4, ReadTagIs DEF c
    <2>6. /\ ~(ch' <= p) /\ ch' # p + 1 /\ ch' # p + 2 /\ ch' # p + 3 /\ ~(ch' <= q) /\ ~(ch' < s)
         /\ (ch' <= e + 1 => ch # e + 1) /\ (e + 1 < ch' => ch = e + 1 /\ ch - 1 = e)
         /\ ~(j < ch')
      BY ONLY <1>12, <1>13, <1>10
    <2> QED  BY ONLY <1>13, <2>5, <2>6, i = a[1], j = a[2] DEF Progress
  <1>11. CASE e + 1 < ch
    <2>1. status = "S_RQ" /\ ls = s /\ le = e
      <3>1. ch <= j /\ ch # j
        BY ONLY <1>12
      <3> QED  BY <1>11, <3>1 DEF Progress
    <2>2. status' = "S_RQ" /\ ls' = s /\ le' = e
      BY <1>3, <1>5, <2>1, ReadTagIs DEF c
    <2> QED  BY <1>12, <1>13, <1>11, <2>2 DEF Progress
  <1> QED  BY <1>12, <1>6, <1>7, <1>8, <1>9, <1>10, <1>11

\* Before the anchor there is nothing to say of its link; behind it, that it
\* has been collected.
LEMMA NotYet ==
    ASSUME NEW a, NEW p, NEW q, NEW s, NEW e, NEW i, NEW j, i = a[1], j = a[2],
           i \in Nat, j \in Nat, p \in Nat, q \in Nat, s \in Nat, e \in Nat, ch' \in Nat,
           i + 1 < p, p + 4 <= q, q + 2 <= s, s <= e, e + 1 < j, ch' <= i
    PROVE  Progress(a, p, q, s, e)'
  <1>1. /\ ~(i < ch' /\ ch' <= p) /\ ch' # p + 1 /\ ch' # p + 2 /\ ch' # p + 3 /\ ~(p + 3 < ch' /\ ch' <= q)
        /\ ~(q < ch' /\ ch' < s) /\ ~(s <= ch' /\ ch' <= e + 1) /\ ~(e + 1 < ch' /\ ch' <= j) /\ ~(j < ch')
    OBVIOUS
  <1> QED  BY <1>1 DEF Progress

\* Behind the anchor its link is among those collected.
LEMMA Collected ==
    ASSUME NEW a, NEW p, NEW q, NEW s, NEW e, NEW i, NEW j, i = a[1], j = a[2],
           i \in Nat, j \in Nat, p \in Nat, q \in Nat, s \in Nat, e \in Nat, ch' \in Nat,
           i + 1 < p, p + 4 <= q, q + 2 <= s, s <= e, e + 1 < j, j < ch',
           Met(s, e)'
    PROVE  Progress(a, p, q, s, e)'
  <1>1. /\ ~(i < ch' /\ ch' <= p) /\ ch' # p + 1 /\ ch' # p + 2 /\ ch' # p + 3 /\ ~(p + 3 < ch' /\ ch' <= q)
        /\ ~(q < ch' /\ ch' < s) /\ ~(s <= ch' /\ ch' <= e + 1) /\ ~(e + 1 < ch' /\ ch' <= j)
    OBVIOUS
  <1> QED  BY <1>1 DEF Progress

\* At the anchor's "<" the machine is in no tag.
LEMMA NotInTag ==
    ASSUME ParserTypes, InTagInv, NEW a \in Anchors, ~PassedOver(a[1]), ch = a[1],
           status \notin {"S_START", "S_END"}
    PROVE  FALSE
  <1>1. /\ htmltxt \in Seq(STRING) /\ Len(htmltxt) \in Nat /\ as_ \in Nat /\ ch \in Nat
    BY LenProperties DEF ParserTypes
  <1>2. /\ a[1] \in Places /\ Opens(a[1]) /\ a[2] \in Closes(a[1]) /\ htmltxt[a[2]] = ">"
        /\ \A i \in 1..(a[1] - 1) : Opens(i) => a[2] \notin Closes(i)
    BY <1>1, AnchorRight DEF AnchorFrom
  <1>3. /\ as_ # NULL /\ as_ < ch /\ htmltxt[as_] = "<"
        /\ \A k \in as_..(ch - 1) : htmltxt[k] \notin {">", Newline}
    BY DEF InTagInv, TagInv, PointersInv
  <1>4. as_ \in 1..(a[1] - 1)
    BY <1>1, <1>3 DEF NULL
  <1>5. status # "S_LEFT" /\ status # "S_A"
    <2>1. ~Blanks(as_ + 1, ch - 1)
      BY <1>3, <1>4 DEF PassedOver
    <2>2. ~(htmltxt[ch - 1] = "a" /\ Blanks(as_ + 1, ch - 2))
      BY <1>3, <1>4 DEF PassedOver
    <2> QED  BY <2>1, <2>2 DEF InTagInv, TagInv
  <1>6. status # "S_RIGHT"
    <2>1. htmltxt[ch] = "<"
      BY <1>2 DEF Opens
    <2> QED  BY <2>1 DEF InTagInv, TagInv
  <1>7. Opens(as_)
    BY <1>5, <1>6 DEF InTagInv, TagInv, ParserTypes
  <1>8. a[2] \in Closes(as_)
    <2>1. a[2] \in Places /\ a[2] > a[1] /\ \A k \in a[1]..(a[2] - 1) : htmltxt[k] \notin {">", Newline}
      BY <1>2 DEF Closes
    <2> PICK j : j = a[2]
      OBVIOUS
    <2>2. j \in Nat
      BY <1>1, <2>1 DEF Places
    <2>3. \A k \in as_..(j - 1) : k \in as_..(ch - 1) \/ k \in ch..(j - 1)
      BY <1>1, <2>2
    <2>4. \A k \in as_..(j - 1) : htmltxt[k] \notin {">", Newline}
      BY <1>3, <2>1, <2>3
    <2>5. j > as_
      BY <1>1, <1>3, <2>1, <2>2
    <2>6. htmltxt[j] \in {">", Newline}
      BY <1>2
    <2> QED  BY <2>1, <2>4, <2>5, <2>6 DEF Closes
  <1> QED  BY <1>2, <1>4, <1>7, <1>8

\* A link collected stays.
LEMMA StillThere ==
    ASSUME ParserTypes, InTagInv, [Next]_vars, NEW s, NEW e,
           Met(s, e)
    PROVE  Met(s, e)'
  <1> DEFINE Link == [so : Nat, eo : Nat, link : Seq(STRING)]
  <1>1. CASE urllist' = urllist
    <2>1. dropped \subseteq dropped'
      <3>1. ~Right => dropped' = dropped
        BY PageKept
      <3> QED  BY <3>1, RightPushes
    <2> QED  BY <1>1, <2>1 DEF Met
  <1>2. CASE urllist' # urllist
    <2>1. Right
      BY <1>2, PageKept
    <2>2. PICK abs \in Seq(STRING) : /\ urllist' = urllist \o <<[so |-> ls, eo |-> le, link |-> abs]>>
                                     /\ dropped' = dropped
      BY <1>2, <2>1, RightPushes
    <2> PICK x : x = [so |-> ls, eo |-> le, link |-> abs]
      OBVIOUS
    <2>3. x \in Link /\ urllist \in Seq(Link) /\ Len(urllist) \in Nat
      BY LenProperties DEF ParserTypes
    <2> HIDE DEF Link
    <2>4. /\ Len(urllist \o <<x>>) = Len(urllist) + 1
          /\ \A m \in 1..Len(urllist) : (urllist \o <<x>>)[m] = urllist[m]
      BY <2>3, PushedLast
    <2>5. Len(urllist') = Len(urllist) + 1 /\ \A m \in 1..Len(urllist) : urllist'[m] = urllist[m]
      BY <2>2, <2>4
    <2>6. \A m \in 1..Len(urllist) : m \in 1..Len(urllist')
      BY <2>3, <2>5
    <2> QED  BY <2>2, <2>5, <2>6 DEF Met
  <1> QED  BY <1>1, <1>2

\* Every step goes on with the link of an anchor, and Right collects it.
LEMMA ProgressStep ==
    ASSUME ParserTypes, InTagInv, ProgressInv, [Next]_vars
    PROVE  ProgressInv'
  <1>1. UNCHANGED <<url, htmltxt>> /\ (~Right => UNCHANGED <<urllist, dropped>>) /\ Anchors' = Anchors
    BY PageKept, SameAnchors
  <1> SUFFICES ASSUME NEW a \in Anchors,
                      NEW p \in (a[1] + 1)..a[2], NEW q \in (a[1] + 1)..a[2],
                      NEW s \in (a[1] + 1)..a[2], NEW e \in (a[1] + 1)..a[2], HasLink(a, p, q, s, e)
               PROVE  Progress(a, p, q, s, e)'
    <2>1. \A b, k, l, m, n : HasLink(b, k, l, m, n)' = HasLink(b, k, l, m, n)
      BY <1>1, SameLinks
    <2> QED  BY <1>1, <2>1, Zenon DEF ProgressInv
  <1>2. Progress(a, p, q, s, e)
    BY DEF ProgressInv
  <1>3. /\ a[1] \in Nat \ {0} /\ a[2] \in Nat /\ p \in Nat /\ q \in Nat /\ s \in Nat /\ e \in Nat
        /\ a[1] + 1 < p /\ p + 4 <= q /\ q + 2 <= s /\ s <= e /\ e + 1 < a[2] /\ a[2] <= Len(htmltxt)
        /\ htmltxt[a[1]] = "<" /\ htmltxt[a[2]] = ">"
        /\ \A k \in a[1]..(a[2] - 1) : htmltxt[k] \notin {">", Newline}
    BY LinkAt DEF ParserTypes
  <1>4. /\ ch \in Nat /\ ch' \in Nat /\ Len(htmltxt) \in Nat /\ (ch' = ch \/ ch' = ch + 1)
    <2>1. ch' = ch \/ ch' = ch + 1
      BY DEF Next, ReadText, ReadTag, TagEnds, Right, End, Finished, vars
    <2> QED  BY <2>1, LenProperties DEF ParserTypes
  <1> PICK i : i = a[1]
    OBVIOUS
  <1> PICK j : j = a[2]
    OBVIOUS
  <1>5. /\ i \in Nat /\ j \in Nat /\ p \in Nat /\ q \in Nat /\ s \in Nat /\ e \in Nat /\ ch \in Nat
        /\ i + 1 < p /\ p + 4 <= q /\ q + 2 <= s /\ s <= e /\ e + 1 < j
    BY <1>3, <1>4
  <1>6. CASE ch' <= i
    BY <1>4, <1>5, <1>6, NotYet
  <1>7. CASE j < ch
    <2>1. Met(s, e)
      BY <1>2, <1>7 DEF Progress
    <2>2. Met(s, e)'
      BY <2>1, StillThere
    <2>3. j < ch'
      BY <1>4, <1>5, <1>7
    <2> QED  BY <1>4, <1>5, <2>2, <2>3, Collected
  <1>8. CASE i < ch /\ ch <= j
    <2>1. as_ = i /\ status \notin {"S_START", "S_END"} /\ (status = "S_RIGHT" => e + 1 < ch)
      <3>1. ch <= p \/ ch = p + 1 \/ ch = p + 2 \/ ch = p + 3 \/ (p + 3 < ch /\ ch <= q) \/ (q < ch /\ ch < s)
               \/ (s <= ch /\ ch <= e + 1) \/ (e + 1 < ch /\ ch <= j)
        BY ONLY <1>5, <1>8
      <3> QED  BY <1>2, <1>8, <3>1 DEF Progress
    <2>2. ch <= Len(htmltxt) /\ (htmltxt[ch] = ">" <=> ch = j)
      <3>1. ch = j \/ ch \in i..(j - 1)
        BY ONLY <1>5, <1>8
      <3> QED  BY <1>3, <1>4, <1>5, <1>8, <3>1
    <2>3. CASE ReadTag
      <3>1. ch < j
        BY <1>5, <1>8, <2>2, <2>3 DEF ReadTag, Here
      <3> QED  BY <1>2, <1>8, <2>3, <3>1, WithinAnchor
    <2>4. ch = j => ls = s /\ le = e
      BY <1>2, <1>5 DEF Progress
    <2>5. CASE TagEnds
      <3>1. ch = j /\ ch' = ch /\ as_' = as_ /\ ls' = ls /\ le' = le /\ status' = "S_RIGHT"
        BY <2>2, <2>5 DEF TagEnds, Here
      <3>2. ch' = j /\ as_' = i /\ ls' = s /\ le' = e /\ status' = "S_RIGHT"
        BY <2>1, <2>4, <3>1
      <3> QED  BY <1>5, <3>2 DEF Progress
    <2>6. CASE Right
      <3>1. ch = j /\ ch' = ch + 1
        BY <2>2, <2>6 DEF Right, InTagInv, TagInv
      <3>2. Found /\ Absolute(SubSeq(htmltxt, ls, le)) # <<>>
        <4>1. ls = s /\ le = e /\ s # NULL /\ e # NULL
          BY ONLY <1>5, <2>4, <3>1 DEF NULL
        <4>2. Absolute(SubSeq(htmltxt, s, e)) # <<>>
          BY DEF HasLink
        <4> QED  BY <4>1, <4>2 DEF Found
      <3>3. ls = s /\ le = e
        BY <2>4, <3>1
      <3>4. Met(s, e)'
        <4>1. CASE urllist' = urllist
          <5>1. dropped' = dropped \cup {<<ls, le>>}
            BY <2>6, <3>2, <4>1, LinkPushed
          <5> QED  BY <3>3, <5>1 DEF Met
        <4>2. CASE urllist' # urllist
          <5>1. PICK abs \in Seq(STRING) : urllist' = urllist \o <<[so |-> ls, eo |-> le, link |-> abs]>>
            BY <2>6, <4>2, RightPushes
          <5> PICK x : x = [so |-> ls, eo |-> le, link |-> abs]
            OBVIOUS
          <5> DEFINE Link == [so : Nat, eo : Nat, link : Seq(STRING)]
          <5>2. x \in Link /\ x.so = s /\ x.eo = e /\ urllist \in Seq(Link) /\ Len(urllist) \in Nat
            BY <3>3, LenProperties DEF ParserTypes
          <5> HIDE DEF Link
          <5>3. Len(urllist \o <<x>>) = Len(urllist) + 1 /\ (urllist \o <<x>>)[Len(urllist) + 1] = x
            BY <5>2, PushedLast
          <5>4. Len(urllist) + 1 \in 1..Len(urllist') /\ urllist'[Len(urllist) + 1] = x
            BY <5>1, <5>2, <5>3
          <5> QED  BY <5>2, <5>4 DEF Met
        <4> QED  BY <4>1, <4>2
      <3>5. j < ch'
        BY <1>5, <3>1
      <3> QED  BY <1>4, <1>5, <3>4, <3>5, Collected
    <2>7. CASE UNCHANGED vars
      BY <1>2, <2>7 DEF vars, Progress, Met
    <2>8. ~ReadText /\ ~End /\ ~Finished
      BY <2>1, <2>2 DEF ReadText, End, Finished, Reading
    <2> QED  BY <2>3, <2>5, <2>6, <2>7, <2>8 DEF Next
  <1>9. CASE ch = i /\ i < ch'
    <2>1. status \in {"S_START", "S_END"}
      BY <1>9, NotInTag DEF HasLink
    <2>2. ch' # ch
      BY <1>5, <1>9
    <2>3. ReadText
      BY <2>1, <2>2 DEF Next, ReadTag, TagEnds, Right, End, Finished, vars
    <2>4. status' = "S_LEFT" /\ as_' = i /\ ch' = i + 1
      <3>1. htmltxt[ch] = "<"
        BY <1>3, <1>9
      <3> QED  BY <1>9, <2>3, <3>1 DEF ReadText, Here, Newline
    <2>5. /\ i < ch' /\ ch' <= p /\ ~(ch' = p + 1) /\ ~(ch' = p + 2) /\ ~(ch' = p + 3) /\ ~(p + 3 < ch')
          /\ ~(q < ch') /\ ~(s <= ch') /\ ~(e + 1 < ch') /\ ~(j < ch')
      BY ONLY <1>5, <2>4
    <2> QED  BY <2>4, <2>5 DEF Progress
  <1>10. ch' <= i \/ j < ch \/ (i < ch /\ ch <= j) \/ (ch = i /\ i < ch')
    BY ONLY <1>4, <1>5
  <1> QED  BY <1>6, <1>7, <1>8, <1>9, <1>10

\* A page that is begun.
LEMMA PageInit ==
    ASSUME Init
    PROVE  PageInv
  <1> PICK in \in Inputs : url = in[1] /\ htmltxt = in[2]
    BY DEF Init
  <1>1. url \in Seq(STRING) /\ htmltxt \in Seq(STRING)
    BY InputsAssumption
  <1>2. Len(htmltxt) \in Nat
    BY <1>1, LenProperties
  <1>3. /\ ch = 1 /\ status = "S_START" /\ as_ = NULL /\ ls = NULL /\ le = NULL /\ urllist = <<>>
    BY DEF Init
  <1>4. ParserTypes
    <2>1. urllist \in Seq([so : Nat, eo : Nat, link : Seq(STRING)])
      BY <1>3, EmptySeq
    <2> QED  BY <1>1, <1>2, <1>3, <2>1 DEF ParserTypes, NULL
  <1>5. InTagInv
    BY <1>3, OutOfTag
  <1>6. LinksInv
    <2>1. 1..Len(urllist) = {}
      BY <1>3
    <2> QED  BY <2>1 DEF LinksInv
  <1>7. ProgressInv
    <2> SUFFICES ASSUME NEW a \in Anchors,
                        NEW p \in (a[1] + 1)..a[2], NEW q \in (a[1] + 1)..a[2],
                        NEW s \in (a[1] + 1)..a[2], NEW e \in (a[1] + 1)..a[2], HasLink(a, p, q, s, e)
                 PROVE  Progress(a, p, q, s, e)
      BY DEF ProgressInv
    <2> PICK i, j : i = a[1] /\ j = a[2]
      OBVIOUS
    <2>1. /\ i \in Nat \ {0} /\ j \in Nat /\ p \in Nat /\ q \in Nat /\ s \in Nat /\ e \in Nat
          /\ i + 1 < p /\ p + 4 <= q /\ q + 2 <= s /\ s <= e /\ e + 1 < j
      BY <1>1, LinkAt
    <2>2. /\ ~(i < ch) /\ ch # p + 1 /\ ch # p + 2 /\ ch # p + 3 /\ ~(p + 3 < ch)
          /\ ~(q < ch) /\ ~(s <= ch) /\ ~(e + 1 < ch) /\ ~(j < ch)
      BY <1>3, <2>1
    <2> QED  BY <2>2 DEF Progress
  <1> QED  BY <1>4, <1>5, <1>6, <1>7 DEF PageInv, InTagInv

\* Every step of the parser keeps the invariant.
LEMMA PageStep ==
    ASSUME PageInv, [Next]_vars
    PROVE  PageInv'
  BY TagStep, LinksStep, ProgressStep DEF PageInv, InTagInv

\* So it holds of every page, all the time.
LEMMA PageInvariant == CrawlSpec => []PageInv
  <1>1. CrawlInit => PageInv
    BY PageInit DEF CrawlInit
  <1>2. PageInv /\ [CrawlNext]_pageVars => PageInv'
    <2>1. [CrawlNext]_pageVars => [Next]_vars
      BY DEF CrawlNext, ReadPage, Rejected, pageVars
    <2> QED  BY <2>1, PageStep
  <1> QED  BY <1>1, <1>2, PTL DEF CrawlSpec

(* OwnHref for every page and every URL: a link that extract_absolute_link *)
(* collects is the value of an href within one anchor, and no two are of   *)
(* the same anchor.                                                        *)
THEOREM PagesLinks == CrawlSpec => []OwnHref
  <1>1. PageInv => OwnHref
    <2> SUFFICES ASSUME PageInv PROVE OwnHref
      OBVIOUS
    <2>1. DOMAIN urllist = 1..Len(urllist)
      BY LenProperties DEF PageInv, ParserTypes
    <2> QED  BY <2>1 DEF OwnHref, PageInv, LinksInv, InAnchor
  <1> QED  BY <1>1, PageInvariant, PTL

(* Every variable of extract_absolute_link keeps its type, and the         *)
(* pointers point into the tag, for every page.                            *)
THEOREM PagesTypes == CrawlSpec => []TypeOK
  <1>1. PageInv => TypeOK
    <2> SUFFICES ASSUME PageInv PROVE TypeOK
      OBVIOUS
    <2>1. Len(htmltxt) \in Nat /\ ch \in Nat \ {0} /\ as_ \in Nat /\ ls \in Nat /\ le \in Nat
      BY LenProperties DEF PageInv, ParserTypes
    <2>2. ch \in 1..(Len(htmltxt) + 1)
      BY <2>1 DEF PageInv, ParserTypes
    <2>3. DOMAIN Expected = {"S_BLANK", "S_H", "S_R", "S_E", "S_F"}
      BY DEF Expected
    <2>4. as_ \in 0..(ch - 1)
      BY <2>1 DEF PageInv, PointersInv, NULL
    <2>5. /\ ls # NULL => as_ < ls /\ ls <= ch
          /\ le # NULL => ls <= le + 1 /\ le + 1 < ch
      BY DEF PageInv, HrefInv
    <2>6. ls \in 0..ch /\ le \in 0..(ch - 1)
      BY <2>1, <2>5 DEF NULL
    <2> QED  BY <2>2, <2>3, <2>4, <2>5, <2>6 DEF TypeOK, Found, PageInv, ParserTypes
  <1> QED  BY <1>1, PageInvariant, PTL

(* Resolved for every page and every URL: what _search_root and the state  *)
(* S_RIGHT push for a link is the link, or as much of the page's URL as    *)
(* the "../" of the link leave with the rest of the link behind it.        *)
THEOREM LinksResolved == CrawlSpec => []Resolved
  <1>1. PageInv /\ TypeOK => Resolved
    <2> SUFFICES ASSUME PageInv, TypeOK, NEW m \in DOMAIN urllist
                 PROVE  ResolvesTo(SubSeq(htmltxt, urllist[m].so, urllist[m].eo), urllist[m].link)
      BY DEF Resolved, ResolvesTo
    <2>1. /\ url \in Seq(STRING) /\ htmltxt \in Seq(STRING) /\ Len(htmltxt) \in Nat
          /\ urllist \in Seq([so : Nat, eo : Nat, link : Seq(STRING)])
      BY LenProperties DEF PageInv, ParserTypes
    <2>2. m \in 1..Len(urllist) /\ urllist[m] \in [so : Nat, eo : Nat, link : Seq(STRING)]
      BY <2>1, LenProperties, ElementOfSeq
    <2> PICK x : x = urllist[m]
      OBVIOUS
    <2>3. InAnchor(x) /\ x.so \in Nat /\ x.eo \in Nat
      BY <2>2 DEF PageInv, LinksInv
    <2> DEFINE link == SubSeq(htmltxt, x.so, x.eo)
    <2>4. link \in Seq(STRING)
      <3>1. x.so \in Nat \ {0} /\ x.eo <= Len(htmltxt) /\ x.so <= x.eo + 1
        <4>1. x.so # 0 /\ x.so <= x.eo + 1 /\ x.eo < Len(htmltxt)
          BY ONLY <2>3 DEF InAnchor
        <4> QED  BY ONLY <2>1, <2>3, <4>1
      <3> QED  BY ONLY <2>1, <2>3, <3>1, PartOf
    <2>5. Absolute(link) = <<x.link>>
      BY <2>3 DEF InAnchor
    <2> HIDE DEF link
    <2>6. Absolute(link) # <<>>
      BY <2>5
    <2> PICK abs \in Seq(STRING) : Absolute(link) = <<abs>> /\ ResolvesTo(link, abs)
      BY <2>1, <2>4, <2>6, AbsoluteRight
    <2>7. abs = x.link
      <3>1. <<abs>> = <<x.link>>
        BY <2>5
      <3> QED  BY ONLY <3>1
    <2> QED  BY <2>7 DEF link
  <1> QED  BY <1>1, PageInvariant, PagesTypes, PTL

(* AnchorsFound for every page: the states of extract_absolute_link pass   *)
(* over no anchor that has a blank before its first href, if its link      *)
(* leads somewhere.                                                        *)
THEOREM LinksFound == CrawlSpec => []AnchorsFound
  <1>1. PageInv => AnchorsFound
    <2> SUFFICES ASSUME PageInv, ~Reading, NEW a \in Anchors,
                        NEW p \in (a[1] + 1)..a[2], NEW s \in (a[1] + 1)..a[2], NEW e \in (a[1] + 1)..a[2],
                        ~PassedOver(a[1]), \A k \in a[1]..(p - 1) : ~HrefAt(k),
                        htmltxt[p - 1] = Blank, s <= e, e + 1 < a[2], Value(p, s, e),
                        \/ IsPrefix(http, SubSeq(htmltxt, s, e))
                        \/ Ups(SubSeq(htmltxt, s, e), e - s + 1) < Slashes(url)
                 PROVE  \/ \E m \in DOMAIN urllist : urllist[m].so = s /\ urllist[m].eo = e
                        \/ <<s, e>> \in dropped
      BY DEF AnchorsFound
    <2>1. /\ url \in Seq(STRING) /\ htmltxt \in Seq(STRING) /\ Len(htmltxt) \in Nat /\ ch \in Nat
          /\ DOMAIN urllist = 1..Len(urllist)
      BY LenProperties DEF PageInv, ParserTypes
    <2>2. a[1] \in Places /\ a[2] \in Closes(a[1])
      BY <2>1, AnchorRight DEF AnchorFrom
    <2> PICK i, j : i = a[1] /\ j = a[2]
      OBVIOUS
    <2>3. i \in Nat \ {0} /\ j \in Nat /\ j <= Len(htmltxt)
      <3>1. a[1] \in 1..Len(htmltxt) /\ a[2] \in 1..Len(htmltxt)
        BY <2>2 DEF Closes, Places
      <3> QED  BY <2>1, <3>1
    <2>4. p \in Nat \ {0} /\ s \in Nat \ {0} /\ e \in Nat /\ i < p /\ p <= j /\ s <= j
      BY <2>3
    <2> PICK q \in (p + 4)..(s - 2) : /\ htmltxt[q] = "="
                                      /\ Blanks(p + 4, q - 1) /\ Blanks(q + 1, s - 2)
      BY DEF Value
    <2>5. q \in (i + 1)..j
      BY ONLY <2>3, <2>4, q \in (p + 4)..(s - 2)
    <2> DEFINE link == SubSeq(htmltxt, s, e)
    <2>6. link \in Seq(STRING) /\ Len(link) = e - s + 1 /\ link # <<>>
      <3>1. e <= Len(htmltxt) /\ s <= e + 1
        BY <2>3, <2>4
      <3>2. link \in Seq(STRING) /\ Len(link) = e - s + 1
        BY ONLY <2>1, <2>4, <3>1, PartOf
      <3> HIDE DEF link
      <3>3. Len(link) # 0
        BY <2>4, <3>2
      <3> QED  BY <3>2, <3>3
    <2>7. Absolute(link) # <<>>
      BY <2>1, <2>6, AbsoluteRight
    <2>8. HasLink(a, p, q, s, e)
      BY <2>7 DEF HasLink, Value
    <2>9. Progress(a, p, q, s, e)
      BY <2>5, <2>8 DEF PageInv, ProgressInv
    <2>10. j < ch
      BY <2>1, <2>3 DEF Reading
    <2> QED  BY <2>1, <2>9, <2>10 DEF Progress, Met
  <1> QED  BY <1>1, PageInvariant, PTL

-----------------------------------------------------------------------------
(* The places at which a URL is cut. *)

\* No c from i to j.
NoneOf(u, c, i, j) == \A k \in i..j : u[k] # c

\* The first c from i on is at r; or there is none, and r is the end.
FirstFrom(u, c, i, r) ==
    /\ r \in i..(Len(u) + 1)
    /\ NoneOf(u, c, i, r - 1)
    /\ r <= Len(u) => u[r] = c

\* There is a "://" at t.
SchemeIn(u, t) ==
    t \in 1..Len(u) /\ t + 2 <= Len(u) /\ u[t] = ":" /\ u[t + 1] = "/" /\ u[t + 2] = "/"

\* The first is at s; or there is none, and s is 0.
FirstScheme(u, s) ==
    IF s = 0 THEN \A t \in 1..Len(u) : ~SchemeIn(u, t)
    ELSE SchemeIn(u, s) /\ \A t \in 1..(s - 1) : ~SchemeIn(u, t)

\* The host begins behind it.
From(s) == IF s = 0 THEN 1 ELSE s + 3

\* The places at which http_url_parse_s cuts u: its "://", the ":" of a port, the
\* slash of its path (or its end) and the "?".
Cuts(u, s, c, f, q) ==
    /\ FirstScheme(u, s)
    /\ IF c = 0 THEN NoneOf(u, ":", From(s), Len(u)) ELSE FirstFrom(u, ":", From(s), c) /\ c <= Len(u)
    /\ FirstFrom(u, "/", IF c = 0 THEN From(s) ELSE c + 1, f)
    /\ IF q = 0 THEN NoneOf(u, "?", f, Len(u)) ELSE FirstFrom(u, "?", f, q) /\ q <= Len(u)

\* The parts of u between those places.
SplitOf(u, s, c, f, q) ==
    [status   |-> "URL_RECOGNIZED",
     protocol |-> SubSeq(u, 1, s - 1),
     host     |-> SubSeq(u, From(s), IF c = 0 THEN f - 1 ELSE c - 1),
     port     |-> IF c = 0 THEN <<>> ELSE SubSeq(u, c + 1, f - 1),
     path     |-> SubSeq(u, f, IF q = 0 THEN Len(u) ELSE q - 1),
     search   |-> IF q = 0 THEN <<>> ELSE SubSeq(u, q + 1, Len(u))]

\* Every part has only the characters it may have.
Recognizable(r) ==
    All(r.protocol, Alnum) /\ All(r.host, HostChars) /\ All(r.port, Digits) /\ All(r.path, PathChars)

\* A part of what is left of a URL is a part of the URL.
LEMMA PartOfRest ==
    ASSUME NEW u \in Seq(STRING), NEW a \in Nat \ {0}, a <= Len(u) + 1,
           NEW v, v = SubSeq(u, a, Len(u))
    PROVE  /\ v \in Seq(STRING) /\ Len(v) = Len(u) - a + 1
           /\ \A k \in 1..Len(v) : v[k] = u[a + k - 1]
           /\ \A n \in 0..Len(v) : /\ SubSeq(v, 1, n) = SubSeq(u, a, a + n - 1)
                                   /\ Len(SubSeq(v, 1, n)) = n
                                   /\ SubSeq(v, n + 1, Len(v)) = SubSeq(u, a + n, Len(u))
           /\ SubSeq(v, Len(v) + 2, Len(v)) = <<>>
  <1>1. Len(u) \in Nat /\ a <= Len(u) + 1 /\ Len(u) <= Len(u)
    BY LenProperties
  <1>2. /\ v \in Seq(STRING) /\ Len(v) = Len(u) - a + 1
        /\ \A k \in 1..(Len(u) - a + 1) : v[k] = u[a + k - 1]
    BY ONLY u \in Seq(STRING), a \in Nat \ {0}, v = SubSeq(u, a, Len(u)), <1>1, PartOf
  <1>3. Len(v) \in Nat
    BY <1>1, <1>2
  <1>4. ASSUME NEW n \in 0..Len(v)
        PROVE  /\ SubSeq(v, 1, n) = SubSeq(u, a, a + n - 1)
               /\ Len(SubSeq(v, 1, n)) = n
               /\ SubSeq(v, n + 1, Len(v)) = SubSeq(u, a + n, Len(u))
    <2>1. n \in Nat /\ n <= Len(v) /\ 1 \in Nat \ {0} /\ 1 <= n + 1 /\ n + 1 \in Nat \ {0} /\ n + 1 <= Len(v) + 1 /\ Len(v) <= Len(v)
      BY <1>3
    <2>2. a + n - 1 \in Nat /\ a <= (a + n - 1) + 1 /\ a + n - 1 <= Len(u) /\ a + n \in Nat \ {0} /\ a + n <= Len(u) + 1
      BY <1>1, <1>2, <2>1
    <2> PICK x, y, w, z : /\ x = SubSeq(v, 1, n) /\ y = SubSeq(u, a, a + n - 1)
                          /\ w = SubSeq(v, n + 1, Len(v)) /\ z = SubSeq(u, a + n, Len(u))
      OBVIOUS
    <2>3. x \in Seq(STRING) /\ Len(x) = n - 1 + 1 /\ \A k \in 1..(n - 1 + 1) : x[k] = v[1 + k - 1]
      BY ONLY <1>2, <2>1, x = SubSeq(v, 1, n), PartOf
    <2>4. /\ y \in Seq(STRING) /\ Len(y) = (a + n - 1) - a + 1
          /\ \A k \in 1..((a + n - 1) - a + 1) : y[k] = u[a + k - 1]
      BY ONLY u \in Seq(STRING), a \in Nat \ {0}, <2>2, y = SubSeq(u, a, a + n - 1), PartOf
    <2>5. /\ w \in Seq(STRING) /\ Len(w) = Len(v) - (n + 1) + 1
          /\ \A k \in 1..(Len(v) - (n + 1) + 1) : w[k] = v[(n + 1) + k - 1]
      BY ONLY <1>2, <1>3, <2>1, w = SubSeq(v, n + 1, Len(v)), PartOf
    <2>6. /\ z \in Seq(STRING) /\ Len(z) = Len(u) - (a + n) + 1
          /\ \A k \in 1..(Len(u) - (a + n) + 1) : z[k] = u[(a + n) + k - 1]
      <3> PICK b : b = a + n
        OBVIOUS
      <3>1. b \in Nat \ {0} /\ b <= Len(u) + 1 /\ z = SubSeq(u, b, Len(u))
        BY <2>2
      <3>2. z \in Seq(STRING) /\ Len(z) = Len(u) - b + 1 /\ \A k \in 1..(Len(u) - b + 1) : z[k] = u[b + k - 1]
        BY ONLY u \in Seq(STRING), <1>1, <3>1, PartOf
      <3> QED  BY <3>2
    <2>7. Len(x) = n /\ Len(y) = n /\ Len(w) = Len(v) - n /\ Len(z) = Len(v) - n
      BY <1>1, <1>2, <1>3, <2>1, <2>3, <2>4, <2>5, <2>6
    <2>8. \A k \in 1..n : x[k] = v[k] /\ v[k] = u[a + k - 1] /\ y[k] = u[a + k - 1]
      BY <1>1, <1>2, <1>3, <2>1, <2>3, <2>4
    <2>9. x = y
      <3>1. \A k \in 1..Len(x) : x[k] = y[k]
        BY <2>7, <2>8
      <3>2. x \in Seq(STRING) /\ y \in Seq(STRING) /\ Len(x) = Len(y)
        BY <2>3, <2>4, <2>7
      <3> QED  BY ONLY <3>1, <3>2, SeqEqual
    <2>10. \A k \in 1..(Len(v) - n) : w[k] = v[n + k] /\ v[n + k] = u[a + n + k - 1] /\ z[k] = u[a + n + k - 1]
      <3> SUFFICES ASSUME NEW k \in 1..(Len(v) - n)
                   PROVE  w[k] = v[n + k] /\ v[n + k] = u[a + n + k - 1] /\ z[k] = u[a + n + k - 1]
        OBVIOUS
      <3>1. /\ k \in 1..(Len(v) - (n + 1) + 1) /\ (n + 1) + k - 1 = n + k
            /\ k \in 1..(Len(u) - (a + n) + 1) /\ (a + n) + k - 1 = a + n + k - 1
            /\ n + k \in 1..(Len(u) - a + 1) /\ a + (n + k) - 1 = a + n + k - 1
        BY <1>1, <1>2, <1>3, <2>1
      <3> QED  BY <1>2, <2>5, <2>6, <3>1
    <2>11. w = z
      <3>1. \A k \in 1..Len(w) : w[k] = z[k]
        BY <2>7, <2>10
      <3>2. w \in Seq(STRING) /\ z \in Seq(STRING) /\ Len(w) = Len(z)
        BY <2>5, <2>6, <2>7
      <3> QED  BY ONLY <3>1, <3>2, SeqEqual
    <2> QED  BY <2>7, <2>9, <2>11
  <1>5. SubSeq(v, Len(v) + 2, Len(v)) = <<>>
    <2>1. Len(v) + 2 \in Int /\ Len(v) \in Int /\ Len(v) < Len(v) + 2
      BY <1>3
    <2> QED  BY ONLY <2>1, SubSeqEmpty
  <1> QED  BY <1>2, <1>4, <1>5

\* The length up to the first c.
LEMMA UptoIs ==
    ASSUME NEW v \in Seq(STRING), NEW c
    PROVE  /\ Upto(v, c) \in 0..Len(v)
           /\ \A k \in 1..Upto(v, c) : v[k] # c
           /\ Upto(v, c) < Len(v) => v[Upto(v, c) + 1] = c
           /\ Contains(v, c) <=> Upto(v, c) < Len(v)
  <1> DEFINE I == {i \in 1..Len(v) : v[i] = c}
  <1>1. Len(v) \in Nat
    BY LenProperties
  <1>2. Upto(v, c) = IF Contains(v, c) THEN (IF I # {} THEN Min(I) ELSE 0) - 1 ELSE Len(v)
    BY DEF Upto, SelectInSeq
  <1>3. CASE Contains(v, c)
    <2>1. I # {} /\ I \in SUBSET Nat
      BY <1>1, <1>3 DEF Contains
    <2>2. \E n \in I : \A m \in I : n <= m
      BY <2>1, LeastNumber
    <2>3. Min(I) \in I /\ \A m \in I : Min(I) <= m
      BY <2>2 DEF Min
    <2> PICK n : n = Min(I)
      OBVIOUS
    <2>4. n \in 1..Len(v) /\ v[n] = c /\ \A k \in 1..Len(v) : v[k] = c => n <= k
      BY <2>3
    <2>5. Upto(v, c) = n - 1
      BY <1>2, <1>3, <2>1
    <2>6. n - 1 \in 0..Len(v) /\ n - 1 < Len(v) /\ (n - 1) + 1 = n
      BY <1>1, <2>4
    <2>7. \A k \in 1..(n - 1) : v[k] # c
      <3> SUFFICES ASSUME NEW k \in 1..(n - 1), v[k] = c PROVE FALSE
        OBVIOUS
      <3>1. k \in 1..Len(v) /\ ~(n <= k)
        BY <1>1, <2>4
      <3> QED  BY <2>4, <3>1
    <2> QED  BY <1>3, <2>4, <2>5, <2>6, <2>7
  <1>4. CASE ~Contains(v, c)
    <2>1. Upto(v, c) = Len(v)
      BY <1>2, <1>4
    <2> QED  BY <1>1, <1>4, <2>1 DEF Contains
  <1> QED  BY <1>3, <1>4

\* What is cut off at r, the first c of v, which is left of u from a on.
CutAt(u, a, v, c, r) ==
    /\ FirstFrom(u, c, a, r) /\ (Contains(v, c) <=> r <= Len(u))
    /\ SubSeq(v, 1, Upto(v, c)) = SubSeq(u, a, r - 1)
    /\ Len(SubSeq(v, 1, Upto(v, c))) = r - a
    /\ SubSeq(v, (r - a) + 1, Len(v)) = SubSeq(u, r, Len(u))
    /\ SubSeq(v, (r - a + 1) + 1, Len(v)) =
          IF r <= Len(u) THEN SubSeq(u, r + 1, Len(u)) ELSE <<>>

\* There is such a place.
LEMMA CutOff ==
    ASSUME NEW u \in Seq(STRING), NEW a \in Nat \ {0}, a <= Len(u) + 1,
           NEW v, v = SubSeq(u, a, Len(u)), NEW c
    PROVE  \E r \in Nat : CutAt(u, a, v, c, r)
  <1> PICK n : n = Upto(v, c)
    OBVIOUS
  <1>1. Len(u) \in Nat
    BY LenProperties
  <1>2. /\ v \in Seq(STRING) /\ Len(v) = Len(u) - a + 1
        /\ \A k \in 1..Len(v) : v[k] = u[a + k - 1]
        /\ \A m \in 0..Len(v) : /\ SubSeq(v, 1, m) = SubSeq(u, a, a + m - 1)
                                /\ Len(SubSeq(v, 1, m)) = m
                                /\ SubSeq(v, m + 1, Len(v)) = SubSeq(u, a + m, Len(u))
        /\ SubSeq(v, Len(v) + 2, Len(v)) = <<>>
    BY PartOfRest
  <1>3. /\ n \in 0..Len(v) /\ \A k \in 1..n : v[k] # c
        /\ n < Len(v) => v[n + 1] = c
        /\ Contains(v, c) <=> n < Len(v)
    BY <1>2, UptoIs
  <1>4. n \in Nat /\ a + n \in Nat /\ (a + n) - a = n /\ Len(v) \in Nat
    <2>1. Len(v) \in Nat
      BY <1>2, LenProperties
    <2>2. n \in Nat
      BY ONLY <1>3, <2>1
    <2> QED  BY ONLY <2>1, <2>2, a \in Nat \ {0}
  <1>5. FirstFrom(u, c, a, a + n)
    <2>1. a + n \in a..(Len(u) + 1)
      BY <1>1, <1>2, <1>3
    <2>2. ASSUME NEW k \in a..((a + n) - 1) PROVE u[k] # c
      <3>1. k - a + 1 \in 1..n /\ k - a + 1 \in 1..Len(v) /\ a + (k - a + 1) - 1 = k
        BY <1>1, <1>2, <1>3
      <3> QED  BY <1>2, <1>3, <3>1
    <2>3. a + n <= Len(u) => u[a + n] = c
      <3> SUFFICES ASSUME a + n <= Len(u) PROVE u[a + n] = c
        OBVIOUS
      <3>1. n < Len(v) /\ n + 1 \in 1..Len(v) /\ a + (n + 1) - 1 = a + n
        BY <1>1, <1>2, <1>4
      <3> QED  BY <1>2, <1>3, <3>1
    <2> QED  BY <2>1, <2>2, <2>3 DEF FirstFrom, NoneOf
  <1>6. Contains(v, c) <=> a + n <= Len(u)
    BY <1>1, <1>2, <1>3, <1>4
  <1>7. /\ SubSeq(v, 1, n) = SubSeq(u, a, (a + n) - 1)
        /\ Len(SubSeq(v, 1, n)) = (a + n) - a
        /\ SubSeq(v, ((a + n) - a) + 1, Len(v)) = SubSeq(u, a + n, Len(u))
    <2>1. /\ SubSeq(v, 1, n) = SubSeq(u, a, a + n - 1)
          /\ Len(SubSeq(v, 1, n)) = n
          /\ SubSeq(v, n + 1, Len(v)) = SubSeq(u, a + n, Len(u))
      BY <1>2, <1>3
    <2> PICK m, z : m = (a + n) - a /\ z = (a + n) - 1
      OBVIOUS
    <2>2. m = n /\ z = a + n - 1
      BY <1>4
    <2>3. SubSeq(v, 1, n) = SubSeq(u, a, z) /\ Len(SubSeq(v, 1, n)) = m
          /\ SubSeq(v, m + 1, Len(v)) = SubSeq(u, a + n, Len(u))
      BY ONLY <2>1, <2>2
    <2> QED  BY ONLY <2>3, m = (a + n) - a, z = (a + n) - 1
  <1>8. SubSeq(v, ((a + n) - a + 1) + 1, Len(v)) =
          IF a + n <= Len(u) THEN SubSeq(u, (a + n) + 1, Len(u)) ELSE <<>>
    <2>1. CASE a + n <= Len(u)
      <3>1. n + 1 \in 0..Len(v) /\ a + (n + 1) = (a + n) + 1
        BY <1>1, <1>2, <1>4, <2>1
      <3>2. SubSeq(v, (n + 1) + 1, Len(v)) = SubSeq(u, a + (n + 1), Len(u))
        BY <1>2, <3>1
      <3> QED  BY <1>4, <2>1, <3>1, <3>2
    <2>2. CASE ~(a + n <= Len(u))
      <3>1. n = Len(v) /\ (n + 1) + 1 = Len(v) + 2
        BY <1>1, <1>2, <1>3, <2>2
      <3> QED  BY <1>2, <1>4, <2>2, <3>1
    <2> QED  BY <2>1, <2>2
  <1>9. CutAt(u, a, v, c, a + n)
    BY ONLY <1>5, <1>6, <1>7, <1>8, n = Upto(v, c) DEF CutAt
  <1> QED  BY ONLY <1>4, <1>9

\* What begins with "://".
LEMMA BeginsScheme ==
    ASSUME NEW u \in Seq(STRING), NEW t \in 1..Len(u)
    PROVE  IsPrefix(<<":", "/", "/">>, SubSeq(u, t, Len(u))) <=> SchemeIn(u, t)
  <1>1. Len(u) \in Nat
    BY LenProperties
  <1>2. t \in Nat \ {0} /\ t <= Len(u) + 1 /\ Len(u) <= Len(u)
    BY <1>1
  <1> PICK v : v = SubSeq(u, t, Len(u))
    OBVIOUS
  <1>3. v \in Seq(STRING) /\ Len(v) = Len(u) - t + 1 /\ \A k \in 1..Len(v) : v[k] = u[t + k - 1]
    BY ONLY <1>2, u \in Seq(STRING), v = SubSeq(u, t, Len(u)), PartOfRest
  <1>4. IsPrefix(<<":", "/", "/">>, v) <=> Len(v) >= 3 /\ v[1] = ":" /\ v[2] = "/" /\ v[3] = "/"
    BY ONLY <1>3, ThreeBegin
  <1>5. Len(v) >= 3 <=> t + 2 <= Len(u)
    BY <1>1, <1>2, <1>3
  <1>6. Len(v) >= 3 => v[1] = u[t] /\ v[2] = u[t + 1] /\ v[3] = u[t + 2]
    <2> SUFFICES ASSUME Len(v) >= 3 PROVE v[1] = u[t] /\ v[2] = u[t + 1] /\ v[3] = u[t + 2]
      OBVIOUS
    <2>1. 1 \in 1..Len(v) /\ 2 \in 1..Len(v) /\ 3 \in 1..Len(v)
      BY <1>1, <1>2, <1>3
    <2>2. t + 1 - 1 = t /\ t + 2 - 1 = t + 1 /\ t + 3 - 1 = t + 2
      BY <1>2
    <2> QED  BY <1>3, <2>1, <2>2
  <1> QED  BY <1>4, <1>5, <1>6 DEF SchemeIn

\* Scheme finds the first.
LEMMA SchemeIs ==
    ASSUME NEW u \in Seq(STRING)
    PROVE  Scheme(u) \in Nat /\ FirstScheme(u, Scheme(u))
  <1> DEFINE at == {i \in 1..Len(u) : IsPrefix(<<":", "/", "/">>, SubSeq(u, i, Len(u)))}
  <1>1. Len(u) \in Nat
    BY LenProperties
  <1>2. Scheme(u) = IF at = {} THEN 0 ELSE Min(at)
    BY DEF Scheme
  <1>3. \A i : i \in at <=> i \in 1..Len(u) /\ SchemeIn(u, i)
    BY BeginsScheme
  <1> HIDE DEF at
  <1>4. CASE at = {}
    BY <1>2, <1>3, <1>4 DEF FirstScheme
  <1>5. CASE at # {}
    <2>1. at \in SUBSET Nat
      BY <1>1, <1>3
    <2>2. \E n \in at : \A m \in at : n <= m
      BY <1>5, <2>1, LeastNumber
    <2>3. Min(at) \in at /\ \A m \in at : Min(at) <= m
      BY <2>2 DEF Min
    <2> PICK n : n = Min(at)
      OBVIOUS
    <2>4. n \in at /\ (\A m \in at : n <= m) /\ Scheme(u) = n
      BY <1>2, <1>5, <2>3
    <2>5. n \in 1..Len(u) /\ SchemeIn(u, n) /\ n # 0
      BY <1>1, <1>3, <2>4
    <2>6. \A t \in 1..(n - 1) : ~SchemeIn(u, t)
      <3> SUFFICES ASSUME NEW t \in 1..(n - 1), SchemeIn(u, t) PROVE FALSE
        OBVIOUS
      <3>1. t \in at
        BY <1>3 DEF SchemeIn
      <3>2. n <= t
        BY <2>4, <3>1
      <3> QED  BY <1>1, <2>5, <3>2
    <2> QED  BY <1>1, <2>4, <2>5, <2>6 DEF FirstScheme
  <1> QED  BY <1>4, <1>5

\* What http_url_parse_s makes of a URL that is cut at these places.
Parsed(r, result) ==
    /\ Recognizable(r) => result = r
    /\ ~Recognizable(r) => ~Recognized(result)

\* Every URL is cut at some places, and http_url_parse_s makes that of it.
LEMMA ParseIs ==
    ASSUME NEW u \in Seq(STRING)
    PROVE  \E s, c, f, q \in Nat :
              Cuts(u, s, c, f, q) /\ Parsed(SplitOf(u, s, c, f, q), http_url_parse_s(u))
  <1> DEFINE Drop(t, n) == SubSeq(t, n + 1, Len(t))
             scheme   == Scheme(u)
             protocol == SubSeq(u, 1, scheme - 1)
             afterScheme == IF scheme = 0 THEN u ELSE Drop(u, scheme + 2)
             hasPort  == Contains(afterScheme, ":")
             host     == SubSeq(afterScheme, 1, Upto(afterScheme, IF hasPort THEN ":" ELSE "/"))
             afterHost == Drop(afterScheme, Len(host) + IF hasPort THEN 1 ELSE 0)
             port     == IF hasPort THEN SubSeq(afterHost, 1, Upto(afterHost, "/")) ELSE <<>>
             afterPort == Drop(afterHost, Len(port))
             path     == SubSeq(afterPort, 1, Upto(afterPort, "?"))
             search   == Drop(afterPort, Len(path) + 1)
             result   == http_url_parse_s(u)
  <1>1. Len(u) \in Nat
    BY LenProperties
  <1>2. result = IF ~All(protocol, Alnum)
        THEN [Nothing EXCEPT !.status = "URL_PROTO_UNRECOGNIZED"]
        ELSE IF ~All(host, HostChars)
        THEN [Nothing EXCEPT !.status = "URL_HOST_UNRECOGNIZED", !.protocol = protocol]
        ELSE IF ~All(port, Digits)
        THEN [Nothing EXCEPT !.status = "URL_PORT_UNRECOGNIZED", !.protocol = protocol,
                             !.host = host]
        ELSE IF ~All(path, PathChars)
        THEN [Nothing EXCEPT !.status = "URL_PATH_UNRECOGNIZED", !.protocol = protocol,
                             !.host = host, !.port = port]
        ELSE [status |-> "URL_RECOGNIZED", protocol |-> protocol, host |-> host, port |-> port,
              path |-> path, search |-> search]
    BY DEF http_url_parse_s
  <1>3. protocol = SubSeq(u, 1, scheme - 1) /\ scheme \in Nat /\ FirstScheme(u, scheme)
    BY SchemeIs
  <1> DEFINE a == From(scheme)
  <1>4. a \in Nat \ {0} /\ a <= Len(u) + 1 /\ afterScheme = SubSeq(u, a, Len(u))
    <2>1. CASE scheme = 0
      <3>1. SubSeq(u, 1, Len(u)) = u
        BY SubSeqFull
      <3>2. afterScheme = u
        BY <2>1
      <3>3. a = 1
        BY <2>1 DEF From
      <3> HIDE DEF afterScheme, a
      <3> QED  BY <1>1, <3>1, <3>2, <3>3
    <2>2. CASE scheme # 0
      <3>1. scheme + 2 <= Len(u)
        BY <1>3, <2>2 DEF FirstScheme, SchemeIn
      <3>2. afterScheme = SubSeq(u, (scheme + 2) + 1, Len(u))
        BY <2>2
      <3>3. a = scheme + 3
        BY <2>2 DEF From
      <3>4. (scheme + 2) + 1 = scheme + 3 /\ scheme + 3 \in Nat \ {0} /\ scheme + 3 <= Len(u) + 1
        BY ONLY <1>1, <1>3, <3>1
      <3> HIDE DEF afterScheme, a, scheme
      <3> QED  BY <3>2, <3>3, <3>4
    <2> QED  BY <2>1, <2>2
  <1> HIDE DEF scheme, a, protocol
  <1>5. \E c, f \in Nat : /\ IF c = 0 THEN NoneOf(u, ":", a, Len(u)) ELSE FirstFrom(u, ":", a, c) /\ c <= Len(u)
                          /\ FirstFrom(u, "/", IF c = 0 THEN a ELSE c + 1, f)
                          /\ host = SubSeq(u, a, IF c = 0 THEN f - 1 ELSE c - 1)
                          /\ port = IF c = 0 THEN <<>> ELSE SubSeq(u, c + 1, f - 1)
                          /\ afterPort = SubSeq(u, f, Len(u))
    <2> PICK v : v = afterScheme
      OBVIOUS
    <2>1. v = SubSeq(u, a, Len(u))
      BY <1>4
    <2>2. CASE hasPort
      <3>0. PICK c \in Nat : CutAt(u, a, v, ":", c)
        BY <1>4, <2>1, CutOff
      <3>1. /\ FirstFrom(u, ":", a, c) /\ (Contains(v, ":") <=> c <= Len(u))
            /\ SubSeq(v, 1, Upto(v, ":")) = SubSeq(u, a, c - 1)
            /\ Len(SubSeq(v, 1, Upto(v, ":"))) = c - a
            /\ SubSeq(v, (c - a + 1) + 1, Len(v)) =
                  IF c <= Len(u) THEN SubSeq(u, c + 1, Len(u)) ELSE <<>>
        BY ONLY <3>0 DEF CutAt
      <3>2. host = SubSeq(v, 1, Upto(v, ":")) /\ Contains(v, ":") /\ afterHost = Drop(v, Len(host) + 1)
        BY <2>2
      <3> HIDE DEF host, afterHost, afterScheme
      <3>3. c <= Len(u) /\ host = SubSeq(u, a, c - 1) /\ Len(host) = c - a
        BY <3>1, <3>2
      <3>4. afterHost = SubSeq(u, c + 1, Len(u))
        BY <3>1, <3>2, <3>3
      <3>5. c + 1 \in Nat \ {0} /\ c + 1 <= Len(u) + 1
        BY <1>1, <3>3
      <3> PICK w : w = afterHost
        OBVIOUS
      <3> PICK d : d = c + 1
        OBVIOUS
      <3>10. d \in Nat \ {0} /\ d <= Len(u) + 1 /\ w = SubSeq(u, d, Len(u))
        BY <3>4, <3>5
      <3>11. PICK f \in Nat : CutAt(u, d, w, "/", f)
        BY <3>10, CutOff
      <3>6. /\ FirstFrom(u, "/", c + 1, f)
            /\ SubSeq(w, 1, Upto(w, "/")) = SubSeq(u, c + 1, f - 1)
            /\ Len(SubSeq(w, 1, Upto(w, "/"))) = f - (c + 1)
            /\ SubSeq(w, (f - (c + 1)) + 1, Len(w)) = SubSeq(u, f, Len(u))
        BY ONLY <3>11, d = c + 1 DEF CutAt
      <3>7. port = SubSeq(w, 1, Upto(w, "/")) /\ afterPort = SubSeq(w, Len(port) + 1, Len(w))
        BY <2>2
      <3> HIDE DEF port, afterPort
      <3>8. port = SubSeq(u, c + 1, f - 1) /\ afterPort = SubSeq(u, f, Len(u))
        BY <3>6, <3>7
      <3>9. c # 0
        BY <1>1, <1>4, <3>1 DEF FirstFrom
      <3> QED  BY <3>1, <3>3, <3>6, <3>8, <3>9
    <2>3. CASE ~hasPort
      <3>0. PICK f \in Nat : CutAt(u, a, v, "/", f)
        BY <1>4, <2>1, CutOff
      <3>1. /\ FirstFrom(u, "/", a, f)
            /\ SubSeq(v, 1, Upto(v, "/")) = SubSeq(u, a, f - 1)
            /\ Len(SubSeq(v, 1, Upto(v, "/"))) = f - a
            /\ SubSeq(v, (f - a) + 1, Len(v)) = SubSeq(u, f, Len(u))
        BY ONLY <3>0 DEF CutAt
      <3>2. host = SubSeq(v, 1, Upto(v, "/")) /\ ~Contains(v, ":") /\ afterHost = Drop(v, Len(host) + 0)
        BY <2>3
      <3>3. port = <<>> /\ afterPort = Drop(afterHost, Len(<<>>))
        BY <2>3
      <3> HIDE DEF host, afterHost, afterScheme, port, afterPort
      <3>4. host = SubSeq(u, a, f - 1) /\ Len(host) = f - a
        BY <3>1, <3>2
      <3>5. f \in Nat \ {0} /\ f <= Len(u) + 1 /\ f - a + 0 = f - a /\ f - a \in Nat
        BY <1>1, <1>4, <3>1 DEF FirstFrom
      <3>6. afterHost = SubSeq(u, f, Len(u))
        BY <3>1, <3>2, <3>4, <3>5
      <3> PICK w : w = afterHost
        OBVIOUS
      <3>7. w \in Seq(STRING)
        BY <3>5, <3>6, PartOfRest
      <3>8. afterPort = w
        <4>1. SubSeq(w, 1, Len(w)) = w
          BY <3>7, SubSeqFull
        <4>2. Len(<<>>) + 1 = 1
          OBVIOUS
        <4> QED  BY <3>3, <4>1, <4>2
      <3>9. NoneOf(u, ":", a, Len(u))
        <4>0. PICK c \in Nat : CutAt(u, a, v, ":", c)
          BY <1>4, <2>1, CutOff
        <4>1. FirstFrom(u, ":", a, c) /\ (Contains(v, ":") <=> c <= Len(u))
          BY ONLY <4>0 DEF CutAt
        <4>2. c = Len(u) + 1 /\ c - 1 = Len(u)
          BY <1>1, <1>4, <3>2, <4>1 DEF FirstFrom
        <4> QED  BY <4>1, <4>2 DEF FirstFrom
      <3>10. 0 \in Nat
        BY ONLY <1>1
      <3> QED  BY <3>1, <3>3, <3>4, <3>6, <3>8, <3>9, <3>10
    <2> QED  BY <2>2, <2>3
  <1>6. PICK c \in Nat, f \in Nat :
           /\ IF c = 0 THEN NoneOf(u, ":", a, Len(u)) ELSE FirstFrom(u, ":", a, c) /\ c <= Len(u)
           /\ FirstFrom(u, "/", IF c = 0 THEN a ELSE c + 1, f)
           /\ host = SubSeq(u, a, IF c = 0 THEN f - 1 ELSE c - 1)
           /\ port = IF c = 0 THEN <<>> ELSE SubSeq(u, c + 1, f - 1)
           /\ afterPort = SubSeq(u, f, Len(u))
    BY <1>5
  <1> PICK w : w = afterPort
    OBVIOUS
  <1>7. path = SubSeq(w, 1, Upto(w, "?")) /\ search = SubSeq(w, (Len(path) + 1) + 1, Len(w))
    OBVIOUS
  <1> HIDE DEF host, port, afterPort, path, search, afterHost, afterScheme, hasPort
  <1>8. f \in Nat \ {0} /\ f <= Len(u) + 1 /\ w = SubSeq(u, f, Len(u))
    <2>1. (IF c = 0 THEN a ELSE c + 1) \in Nat \ {0}
      BY <1>4
    <2>2. f \in (IF c = 0 THEN a ELSE c + 1)..(Len(u) + 1)
      BY <1>6 DEF FirstFrom
    <2> QED  BY <1>1, <1>6, <2>1, <2>2
  <1>16. PICK r \in Nat : CutAt(u, f, w, "?", r)
    BY <1>8, CutOff
  <1>9. /\ FirstFrom(u, "?", f, r) /\ (Contains(w, "?") <=> r <= Len(u))
        /\ SubSeq(w, 1, Upto(w, "?")) = SubSeq(u, f, r - 1)
        /\ Len(SubSeq(w, 1, Upto(w, "?"))) = r - f
        /\ SubSeq(w, (r - f + 1) + 1, Len(w)) =
              IF r <= Len(u) THEN SubSeq(u, r + 1, Len(u)) ELSE <<>>
    BY ONLY <1>16 DEF CutAt
  <1>10. PICK q \in Nat : /\ IF q = 0 THEN NoneOf(u, "?", f, Len(u)) ELSE FirstFrom(u, "?", f, q) /\ q <= Len(u)
                         /\ path = SubSeq(u, f, IF q = 0 THEN Len(u) ELSE q - 1)
                         /\ search = IF q = 0 THEN <<>> ELSE SubSeq(u, q + 1, Len(u))
    <2>1. path = SubSeq(u, f, r - 1) /\ Len(path) = r - f
      BY <1>7, <1>9
    <2>2. search = IF r <= Len(u) THEN SubSeq(u, r + 1, Len(u)) ELSE <<>>
      BY <1>7, <1>9, <2>1
    <2>3. CASE r <= Len(u)
      <3>1. r # 0
        BY <1>1, <1>8, <1>9 DEF FirstFrom
      <3> QED  BY <1>9, <2>1, <2>2, <2>3, <3>1
    <2>4. CASE ~(r <= Len(u))
      <3>1. r - 1 = Len(u)
        BY <1>1, <1>8, <1>9, <2>4 DEF FirstFrom
      <3>2. NoneOf(u, "?", f, Len(u)) /\ 0 \in Nat
        BY <1>9, <3>1 DEF FirstFrom
      <3> QED  BY <2>1, <2>2, <2>4, <3>1, <3>2
    <2> QED  BY <2>3, <2>4
  <1> DEFINE split == SplitOf(u, scheme, c, f, q)
  <1>11. Cuts(u, scheme, c, f, q)
    BY <1>3, <1>6, <1>10 DEF Cuts, a
  <1>12. split = [status |-> "URL_RECOGNIZED", protocol |-> protocol, host |-> host, port |-> port,
                 path |-> path, search |-> search]
    BY <1>3, <1>6, <1>10 DEF SplitOf, a
  <1> HIDE DEF result, split
  <1>13. Recognizable(split) <=> /\ All(protocol, Alnum) /\ All(host, HostChars)
                                 /\ All(port, Digits) /\ All(path, PathChars)
    BY <1>12 DEF Recognizable
  <1>14. Parsed(split, result)
    <2>1. Recognizable(split) => result = split
      BY <1>2, <1>12, <1>13
    <2>2. CASE ~Recognizable(split)
      <3>1. result.status \in {"URL_PROTO_UNRECOGNIZED", "URL_HOST_UNRECOGNIZED",
                               "URL_PORT_UNRECOGNIZED", "URL_PATH_UNRECOGNIZED"}
        BY <1>2, <1>13, <2>2 DEF Nothing
      <3> QED  BY <3>1, <2>2 DEF Recognized, Parsed
    <2> QED  BY <2>1, <2>2 DEF Parsed
  <1> QED  BY <1>3, <1>11, <1>14 DEF split, result

\* A place is the first of its kind in only one way.
LEMMA FirstUnique ==
    ASSUME NEW u \in Seq(STRING), NEW c, NEW i \in Nat, NEW r \in Nat, NEW t \in Nat,
           FirstFrom(u, c, i, r), FirstFrom(u, c, i, t)
    PROVE  r = t
  <1>1. Len(u) \in Nat
    BY LenProperties
  <1>2. ASSUME NEW x \in Nat, NEW y \in Nat, FirstFrom(u, c, i, x), FirstFrom(u, c, i, y), x < y PROVE FALSE
    <2>1. x \in i..(y - 1) /\ x <= Len(u)
      BY <1>1, <1>2 DEF FirstFrom
    <2> QED  BY <1>2, <2>1 DEF FirstFrom, NoneOf
  <1>3. ~(r < t) /\ ~(t < r)
    BY <1>2
  <1> QED  BY <1>3

\* A URL is cut in one way.
LEMMA CutsUnique ==
    ASSUME NEW u \in Seq(STRING), NEW s \in Nat, NEW c \in Nat, NEW f \in Nat, NEW q \in Nat,
           NEW s2 \in Nat, NEW c2 \in Nat, NEW f2 \in Nat, NEW q2 \in Nat,
           Cuts(u, s, c, f, q), Cuts(u, s2, c2, f2, q2)
    PROVE  s = s2 /\ c = c2 /\ f = f2 /\ q = q2
  <1>1. Len(u) \in Nat
    BY LenProperties
  <1>2. s = s2
    <2>1. FirstScheme(u, s) /\ FirstScheme(u, s2)
      BY DEF Cuts
    <2>2. ASSUME NEW x \in Nat, NEW y \in Nat, FirstScheme(u, x), FirstScheme(u, y), x # y PROVE x = 0 \/ y < x
      <3> SUFFICES ASSUME x # 0 PROVE y < x
        OBVIOUS
      <3>1. SchemeIn(u, x) /\ x \in 1..Len(u)
        BY <2>2 DEF FirstScheme, SchemeIn
      <3>2. y # 0
        BY <2>2, <3>1 DEF FirstScheme
      <3>3. ~(x \in 1..(y - 1))
        BY <2>2, <3>1, <3>2 DEF FirstScheme
      <3> QED  BY <1>1, <2>2, <3>1, <3>2, <3>3
    <2>3. ~(s # s2)
      <3> SUFFICES ASSUME s # s2 PROVE FALSE
        OBVIOUS
      <3>1. s = 0 \/ s2 < s
        BY <2>1, <2>2
      <3>2. s2 = 0 \/ s < s2
        BY <2>1, <2>2
      <3>3. (s = 0 /\ s2 \in 1..Len(u) /\ SchemeIn(u, s2)) \/ (s2 = 0 /\ s \in 1..Len(u) /\ SchemeIn(u, s))
        BY <2>1, <3>1, <3>2 DEF FirstScheme, SchemeIn
      <3> QED  BY <2>1, <3>3 DEF FirstScheme
    <2> QED  BY <2>3
  <1>3. From(s) \in Nat \ {0}
    BY DEF From
  <1>4. c = c2
    <2>1. /\ IF c = 0 THEN NoneOf(u, ":", From(s), Len(u)) ELSE FirstFrom(u, ":", From(s), c) /\ c <= Len(u)
          /\ IF c2 = 0 THEN NoneOf(u, ":", From(s), Len(u)) ELSE FirstFrom(u, ":", From(s), c2) /\ c2 <= Len(u)
      BY <1>2 DEF Cuts
    <2>2. ASSUME NEW x \in Nat, FirstFrom(u, ":", From(s), x), x <= Len(u), NoneOf(u, ":", From(s), Len(u))
          PROVE  FALSE
      <3>1. x \in From(s)..Len(u)
        BY <1>1, <1>3, <2>2 DEF FirstFrom
      <3> QED  BY <2>2, <3>1 DEF FirstFrom, NoneOf
    <2> QED  BY <1>3, <2>1, <2>2, FirstUnique
  <1>5. f = f2
    <2>1. (IF c = 0 THEN From(s) ELSE c + 1) \in Nat
      BY <1>3
    <2> QED  BY <1>2, <1>4, <2>1, FirstUnique DEF Cuts
  <1>6. q = q2
    <2>1. /\ IF q = 0 THEN NoneOf(u, "?", f, Len(u)) ELSE FirstFrom(u, "?", f, q) /\ q <= Len(u)
          /\ IF q2 = 0 THEN NoneOf(u, "?", f, Len(u)) ELSE FirstFrom(u, "?", f, q2) /\ q2 <= Len(u)
      BY <1>5 DEF Cuts
    <2>2. ASSUME NEW x \in Nat, FirstFrom(u, "?", f, x), x <= Len(u), NoneOf(u, "?", f, Len(u))
          PROVE  FALSE
      <3>1. x \in f..Len(u)
        BY <1>1, <2>2 DEF FirstFrom
      <3> QED  BY <2>2, <3>1 DEF FirstFrom, NoneOf
    <2> QED  BY <2>1, <2>2, FirstUnique
  <1> QED  BY <1>2, <1>4, <1>5, <1>6

\* A part has only such characters when the URL has them there.
LEMMA AllOf ==
    ASSUME NEW u \in Seq(STRING), NEW i \in Nat \ {0}, NEW j \in Int, j <= Len(u), NEW chars
    PROVE  All(SubSeq(u, i, j), chars) <=> \A k \in i..j : u[k] \in chars
  <1> PICK t : t = SubSeq(u, i, j)
    OBVIOUS
  <1>1. Len(u) \in Nat
    BY LenProperties
  <1>2. CASE j < i
    <2>1. t = <<>>
      BY <1>2, SubSeqEmpty
    <2>2. DOMAIN t = {}
      BY <2>1
    <2>3. i..j = {}
      BY <1>2
    <2> QED  BY <2>2, <2>3 DEF All, ToSet
  <1>3. CASE i <= j
    <2>1. j \in Nat /\ i <= j + 1
      BY <1>3
    <2>2. t \in Seq(STRING) /\ Len(t) = j - i + 1 /\ \A k \in 1..(j - i + 1) : t[k] = u[i + k - 1]
      BY ONLY u \in Seq(STRING), i \in Nat \ {0}, j <= Len(u), t = SubSeq(u, i, j), <2>1, PartOf
    <2>3. DOMAIN t = 1..(j - i + 1)
      BY <2>2, LenProperties
    <2>4. All(t, chars) <=> \A k \in 1..(j - i + 1) : u[i + k - 1] \in chars
      BY <2>2, <2>3 DEF All, ToSet
    <2>5. ASSUME \A k \in 1..(j - i + 1) : u[i + k - 1] \in chars, NEW k \in i..j
          PROVE  u[k] \in chars
      <3>1. k - i + 1 \in 1..(j - i + 1) /\ i + (k - i + 1) - 1 = k
        BY <2>1
      <3> QED  BY <2>5, <3>1
    <2>6. ASSUME \A k \in i..j : u[k] \in chars, NEW k \in 1..(j - i + 1)
          PROVE  u[i + k - 1] \in chars
      <3>1. i + k - 1 \in i..j
        BY <2>1
      <3> QED  BY <2>6, <3>1
    <2> QED  BY <2>4, <2>5, <2>6
  <1> QED  BY <1>2, <1>3

\* The places of a cut, in their order.
LEMMA CutsOrder ==
    ASSUME NEW u \in Seq(STRING), NEW s \in Nat, NEW c \in Nat, NEW f \in Nat, NEW q \in Nat,
           Cuts(u, s, c, f, q)
    PROVE  /\ Len(u) \in Nat /\ From(s) \in Nat \ {0} /\ From(s) <= Len(u) + 1
           /\ s # 0 => s + 2 <= Len(u) /\ From(s) = s + 3
           /\ c # 0 => From(s) <= c /\ c <= Len(u) /\ u[c] = ":" /\ c < f
           /\ From(s) <= f /\ f <= Len(u) + 1
           /\ f <= Len(u) => u[f] = "/"
           /\ q # 0 => f < q /\ q <= Len(u) /\ u[q] = "?"
  <1>1. Len(u) \in Nat
    BY LenProperties
  <1>2. From(s) \in Nat \ {0} /\ (s # 0 => s + 2 <= Len(u) /\ From(s) = s + 3) /\ From(s) <= Len(u) + 1
    <2>1. s # 0 => s + 2 <= Len(u)
      BY DEF Cuts, FirstScheme, SchemeIn
    <2> QED  BY <1>1, <2>1 DEF From
  <1>3. c # 0 => From(s) <= c /\ c <= Len(u) /\ u[c] = ":"
    <2> SUFFICES ASSUME c # 0 PROVE From(s) <= c /\ c <= Len(u) /\ u[c] = ":"
      OBVIOUS
    <2>1. FirstFrom(u, ":", From(s), c) /\ c <= Len(u)
      BY DEF Cuts
    <2> QED  BY <1>1, <1>2, <2>1 DEF FirstFrom
  <1> PICK d : d = IF c = 0 THEN From(s) ELSE c + 1
    OBVIOUS
  <1>4. d \in Nat /\ From(s) <= d /\ (c # 0 => c < d)
    BY <1>2, <1>3
  <1>5. FirstFrom(u, "/", d, f)
    BY DEF Cuts
  <1>6. d <= f /\ f <= Len(u) + 1 /\ (f <= Len(u) => u[f] = "/")
    BY <1>1, <1>4, <1>5 DEF FirstFrom
  <1>7. From(s) <= f /\ (c # 0 => c < f)
    BY <1>2, <1>4, <1>6
  <1>8. q # 0 => f < q /\ q <= Len(u) /\ u[q] = "?"
    <2> SUFFICES ASSUME q # 0 PROVE f < q /\ q <= Len(u) /\ u[q] = "?"
      OBVIOUS
    <2>1. FirstFrom(u, "?", f, q) /\ q <= Len(u)
      BY DEF Cuts
    <2>2. f <= q /\ u[q] = "?"
      BY <1>1, <2>1 DEF FirstFrom
    <2>3. f # q
      BY <1>6, <2>1, <2>2
    <2> QED  BY <2>1, <2>2, <2>3
  <1> QED  BY <1>1, <1>2, <1>3, <1>6, <1>7, <1>8

\* The characters of the parts.
LEMMA PartsAre ==
    ASSUME NEW u \in Seq(STRING), NEW s \in Nat, NEW c \in Nat, NEW f \in Nat, NEW q \in Nat,
           s <= Len(u) + 1, c <= Len(u) + 1, f <= Len(u) + 1, q <= Len(u) + 1, f # 0
    PROVE  Recognizable(SplitOf(u, s, c, f, q)) <=>
              /\ \A k \in 1..(s - 1) : u[k] \in Alnum
              /\ \A k \in From(s)..(IF c = 0 THEN f - 1 ELSE c - 1) : u[k] \in HostChars
              /\ c # 0 => \A k \in (c + 1)..(f - 1) : u[k] \in Digits
              /\ \A k \in f..(IF q = 0 THEN Len(u) ELSE q - 1) : u[k] \in PathChars
  <1> DEFINE r == SplitOf(u, s, c, f, q)
  <1>1. Len(u) \in Nat /\ From(s) \in Nat \ {0}
    BY LenProperties DEF From
  <1>2. All(r.protocol, Alnum) <=> \A k \in 1..(s - 1) : u[k] \in Alnum
    <2>1. 1 \in Nat \ {0} /\ s - 1 \in Int /\ s - 1 <= Len(u)
      BY <1>1
    <2>2. r.protocol = SubSeq(u, 1, s - 1)
      BY DEF SplitOf
    <2> HIDE DEF r
    <2> QED  BY <2>1, <2>2, AllOf
  <1>3. All(r.host, HostChars) <=> \A k \in From(s)..(IF c = 0 THEN f - 1 ELSE c - 1) : u[k] \in HostChars
    <2> PICK j : j = IF c = 0 THEN f - 1 ELSE c - 1
      OBVIOUS
    <2>1. j \in Int /\ j <= Len(u)
      BY <1>1
    <2>2. r.host = SubSeq(u, From(s), j)
      BY DEF SplitOf
    <2> PICK h, a : h = r.host /\ a = From(s)
      OBVIOUS
    <2> HIDE DEF r
    <2>3. a \in Nat \ {0} /\ h = SubSeq(u, a, j)
      BY <1>1, <2>2
    <2>4. All(SubSeq(u, a, j), HostChars) <=> \A k \in a..j : u[k] \in HostChars
      BY ONLY u \in Seq(STRING), <2>1, <2>3, AllOf
    <2> QED  BY <2>3, <2>4
  <1>4. All(r.port, Digits) <=> (c # 0 => \A k \in (c + 1)..(f - 1) : u[k] \in Digits)
    <2>1. CASE c = 0
      <3>1. r.port = <<>>
        BY <2>1 DEF SplitOf
      <3> HIDE DEF r
      <3>2. ToSet(<<>>) = {}
        BY DEF ToSet
      <3> QED  BY <2>1, <3>1, <3>2 DEF All
    <2>2. CASE c # 0
      <3>1. r.port = SubSeq(u, c + 1, f - 1)
        BY <2>2 DEF SplitOf
      <3>2. c + 1 \in Nat \ {0} /\ f - 1 \in Int /\ f - 1 <= Len(u)
        BY <1>1
      <3> PICK h, i, j : h = r.port /\ i = c + 1 /\ j = f - 1
        OBVIOUS
      <3> HIDE DEF r
      <3>3. i \in Nat \ {0} /\ j \in Int /\ j <= Len(u) /\ h = SubSeq(u, i, j)
        BY <3>1, <3>2
      <3>4. All(SubSeq(u, i, j), Digits) <=> \A k \in i..j : u[k] \in Digits
        BY ONLY u \in Seq(STRING), <3>3, AllOf
      <3> QED  BY <2>2, <3>3, <3>4
    <2> QED  BY <2>1, <2>2
  <1>5. All(r.path, PathChars) <=> \A k \in f..(IF q = 0 THEN Len(u) ELSE q - 1) : u[k] \in PathChars
    <2> PICK j : j = IF q = 0 THEN Len(u) ELSE q - 1
      OBVIOUS
    <2>1. j \in Int /\ j <= Len(u) /\ f \in Nat \ {0}
      BY <1>1
    <2>2. r.path = SubSeq(u, f, j)
      BY DEF SplitOf
    <2> PICK h : h = r.path
      OBVIOUS
    <2> HIDE DEF r
    <2>3. All(SubSeq(u, f, j), PathChars) <=> \A k \in f..j : u[k] \in PathChars
      BY ONLY u \in Seq(STRING), <2>1, AllOf
    <2> QED  BY <2>2, <2>3
  <1> HIDE DEF r
  <1>6. Recognizable(r) <=> /\ All(r.protocol, Alnum) /\ All(r.host, HostChars)
                            /\ All(r.port, Digits) /\ All(r.path, PathChars)
    BY DEF Recognizable
  <1> QED  BY <1>2, <1>3, <1>4, <1>5, <1>6 DEF r

\* The delimiters are in no part that they end.
LEMMA Delimiters ==
    /\ ":" \notin Alnum /\ "/" \notin Alnum
    /\ ":" \notin HostChars /\ "/" \notin HostChars
    /\ ":" \notin Digits /\ "/" \notin Digits
    /\ "?" \notin PathChars
  <1>1. \A x \in {":", "/", "?"} : x \notin Alnum /\ x \notin Digits
    BY CharactersAssumption DEF Alnum
  <1> QED  BY <1>1 DEF HostChars, PathChars

\* The parts between the places of a cut are those of the grammar.
LEMMA SplitsAt ==
    \A s, c, f, q : SplitAt(s, c, f, q) = SplitOf(url, s, c, f, q)
  BY DEF SplitAt, SplitOf, From

\* What is asked of the server is the rest of the URL.
LEMMA RequestIs ==
    ASSUME NEW u \in Seq(STRING), NEW s \in Nat, NEW c \in Nat, NEW f \in Nat, NEW q \in Nat,
           Cuts(u, s, c, f, q), NEW r, r = SplitOf(u, s, c, f, q)
    PROVE  SubSeq(u, f, Len(u)) \in {RequestPath(r), RequestPath(r) \o <<"?">>}
  <1>1. /\ Len(u) \in Nat /\ From(s) \in Nat \ {0}
        /\ From(s) <= f /\ f <= Len(u) + 1
        /\ q # 0 => f < q /\ q <= Len(u) /\ u[q] = "?"
    BY CutsOrder
  <1>2. f \in Nat \ {0}
    BY <1>1
  <1>3. CASE q = 0
    <2>1. r.path = SubSeq(u, f, Len(u)) /\ r.search = <<>>
      BY <1>3 DEF SplitOf
    <2> QED  BY <2>1 DEF RequestPath
  <1>4. CASE q # 0
    <2> PICK v, x, y : v = SubSeq(u, f, Len(u)) /\ x = SubSeq(u, f, q - 1) /\ y = SubSeq(u, q + 1, Len(u))
      OBVIOUS
    <2>1. r.path = x /\ r.search = y
      BY <1>4 DEF SplitOf
    <2>2. /\ q - 1 \in Nat /\ q - 1 <= Len(u) /\ f <= (q - 1) + 1 /\ q + 1 \in Nat \ {0}
          /\ q + 1 <= Len(u) + 1 /\ Len(u) <= Len(u) /\ f < q /\ q <= Len(u) /\ u[q] = "?"
      BY <1>1, <1>4
    <2>3. v \in Seq(STRING) /\ Len(v) = Len(u) - f + 1 /\ \A k \in 1..(Len(u) - f + 1) : v[k] = u[f + k - 1]
      BY ONLY u \in Seq(STRING), <1>1, <1>2, v = SubSeq(u, f, Len(u)), <2>2, PartOf
    <2>4. x \in Seq(STRING) /\ Len(x) = (q - 1) - f + 1 /\ \A k \in 1..((q - 1) - f + 1) : x[k] = u[f + k - 1]
      <3> PICK b : b = q - 1
        OBVIOUS
      <3>1. b \in Nat /\ b <= Len(u) /\ f <= b + 1 /\ x = SubSeq(u, f, b)
        BY <2>2
      <3>2. x \in Seq(STRING) /\ Len(x) = b - f + 1 /\ \A k \in 1..(b - f + 1) : x[k] = u[f + k - 1]
        BY ONLY u \in Seq(STRING), <1>2, <3>1, PartOf
      <3> QED  BY <3>2
    <2>5. /\ y \in Seq(STRING) /\ Len(y) = Len(u) - (q + 1) + 1
          /\ \A k \in 1..(Len(u) - (q + 1) + 1) : y[k] = u[(q + 1) + k - 1]
      BY ONLY u \in Seq(STRING), <1>1, y = SubSeq(u, q + 1, Len(u)), <2>2, PartOf
    <2>6. /\ Len(v) \in Nat /\ Len(x) \in Nat /\ Len(y) \in Nat
          /\ Len(x) = q - f /\ Len(y) = Len(u) - q /\ Len(v) = Len(u) - f + 1
      BY <1>1, <1>2, <2>2, <2>3, <2>4, <2>5
    <2> PICK m : m = <<"?">>
      OBVIOUS
    <2>7. m \in Seq(STRING) /\ Len(m) = 1 /\ m[1] = "?"
      <3>1. u[q] \in STRING
        BY <2>2, LenProperties, ElementOfSeq
      <3> QED  BY <2>2, <3>1
    <2> PICK w : w = x \o m
      OBVIOUS
    <2>8. /\ w \in Seq(STRING) /\ Len(w) = Len(x) + 1
          /\ \A k \in 1..(Len(x) + 1) : w[k] = IF k <= Len(x) THEN x[k] ELSE m[k - Len(x)]
      <3>1. /\ w \in Seq(STRING) /\ Len(w) = Len(x) + Len(m)
            /\ \A k \in 1..(Len(x) + Len(m)) : w[k] = IF k <= Len(x) THEN x[k] ELSE m[k - Len(x)]
        BY ONLY <2>4, <2>7, w = x \o m, ConcatProperties
      <3> QED  BY <2>7, <3>1
    <2>9. \A k \in 1..Len(w) : w[k] = v[k]
      <3> SUFFICES ASSUME NEW k \in 1..Len(w) PROVE w[k] = v[k]
        OBVIOUS
      <3>1. k \in 1..(Len(x) + 1) /\ k \in 1..(Len(u) - f + 1)
        BY <1>1, <1>2, <2>2, <2>6, <2>8
      <3>2. CASE k <= Len(x)
        <4>1. k \in 1..((q - 1) - f + 1)
          BY <1>2, <2>2, <2>6, <3>1, <3>2
        <4> QED  BY <2>3, <2>4, <2>8, <3>1, <3>2, <4>1
      <3>3. CASE ~(k <= Len(x))
        <4>1. k - Len(x) = 1 /\ f + k - 1 = q
          BY <1>2, <2>2, <2>6, <3>1, <3>3
        <4> QED  BY <2>2, <2>3, <2>7, <2>8, <3>1, <3>3, <4>1
      <3> QED  BY <3>2, <3>3
    <2> PICK z : z = w \o y
      OBVIOUS
    <2>10. /\ z \in Seq(STRING) /\ Len(z) = Len(w) + Len(y)
           /\ \A k \in 1..(Len(w) + Len(y)) : z[k] = IF k <= Len(w) THEN w[k] ELSE y[k - Len(w)]
      BY ONLY <2>5, <2>8, z = w \o y, ConcatProperties
    <2>14. /\ Len(w) = q - f + 1 /\ Len(w) + Len(y) = Len(u) - f + 1 /\ Len(z) = Len(v)
           /\ f \in Nat /\ f < q /\ q <= Len(u) /\ Len(u) \in Nat /\ q \in Nat
      <3>1. Len(w) = Len(x) + 1 /\ Len(z) = Len(w) + Len(y)
        BY <2>8, <2>10
      <3>2. f \in Nat /\ f < q /\ q <= Len(u) /\ Len(u) \in Nat /\ q \in Nat
        BY <1>1, <1>2, <2>2
      <3> QED  BY ONLY <2>6, <3>1, <3>2
    <2>11. z = v
      <3>1. Len(z) = Len(v)
        BY <2>14
      <3>2. ASSUME NEW k \in 1..Len(z) PROVE z[k] = v[k]
        <4>1. k \in 1..(Len(w) + Len(y)) /\ k \in 1..(Len(u) - f + 1) /\ Len(w) = q - f + 1
          BY <2>10, <2>14
        <4>2. CASE k <= Len(w)
          <5>1. k \in 1..Len(w)
            BY <1>1, <1>2, <2>2, <4>1, <4>2
          <5> QED  BY <2>9, <2>10, <4>1, <4>2, <5>1
        <4>3. CASE ~(k <= Len(w))
          <5> PICK d : d = k - Len(w)
            OBVIOUS
          <5>1. d \in 1..(Len(u) - (q + 1) + 1) /\ (q + 1) + d - 1 = f + k - 1
            BY ONLY <2>14, <4>1, <4>3, d = k - Len(w)
          <5>2. z[k] = y[d]
            BY <2>10, <4>1, <4>3
          <5>3. y[d] = u[f + k - 1]
            BY <2>5, <5>1
          <5>4. v[k] = u[f + k - 1]
            BY <2>3, <4>1
          <5> QED  BY <5>2, <5>3, <5>4
        <4> QED  BY <4>2, <4>3
      <3>3. z \in Seq(STRING) /\ v \in Seq(STRING)
        BY <2>3, <2>10
      <3> QED  BY ONLY <3>1, <3>2, <3>3, SeqEqual
    <2>12. RequestPath(r) = IF y = <<>> THEN x ELSE w \o y
      BY <2>1 DEF RequestPath
    <2>13. CASE y = <<>>
      <3>1. w \o y = w
        BY <2>8, <2>13, ConcatEmptySeq
      <3> QED  BY <2>11, <2>12, <2>13, <3>1
    <2> QED  BY <2>11, <2>12, <2>13
  <1> QED  BY <1>3, <1>4

\* While a page is read, what http_url_parse_s made of its URL stands; and one
\* that is not recognised has no links.
SplitInv ==
    /\ url \in Seq(STRING)
    /\ http_url = http_url_parse_s(url)
    /\ Recognized(http_url) \/ urllist = <<>>

\* Every step of the crawl keeps that.
LEMMA SplitInvariant == CrawlSpec => []SplitInv
  <1>1. CrawlInit => SplitInv
    BY InputsAssumption DEF CrawlInit, Init, SplitInv
  <1>2. SplitInv /\ [CrawlNext]_pageVars => SplitInv'
    <2> SUFFICES ASSUME SplitInv, [CrawlNext]_pageVars PROVE SplitInv'
      OBVIOUS
    <2>1. UNCHANGED <<url, http_url>> /\ (Recognized(http_url) \/ UNCHANGED urllist)
      BY PageKept DEF CrawlNext, ReadPage, Rejected, pageVars, vars
    <2>2. http_url_parse_s(url)' = http_url_parse_s(url)
      BY <2>1
    <2>3. Recognized(http_url)' <=> Recognized(http_url)
      BY <2>1 DEF Recognized
    <2> QED  BY <2>1, <2>2, <2>3 DEF SplitInv
  <1> QED  BY <1>1, <1>2, PTL DEF CrawlSpec

\* The places of the schemes and colons of url.
LEMMA SchemesAre ==
    ASSUME url \in Seq(STRING)
    PROVE  /\ \A t : t \in Schemes <=> t \in 1..Len(url) /\ SchemeIn(url, t)
           /\ \A i : i \in Colons <=> i \in 1..Len(url) /\ url[i] = ":"
  <1>1. DOMAIN url = 1..Len(url)
    BY LenProperties
  <1>2. \A i : i \in Colons <=> i \in 1..Len(url) /\ url[i] = ":"
    BY <1>1 DEF Colons
  <1>3. \A t \in 1..Len(url) : t \in Schemes <=> SchemeIn(url, t)
    <2> SUFFICES ASSUME NEW t \in 1..Len(url) PROVE t \in Schemes <=> SchemeIn(url, t)
      OBVIOUS
    <2>1. IsPrefix(<<":", "/", "/">>, SubSeq(url, t, Len(url))) <=> SchemeIn(url, t)
      BY BeginsScheme
    <2> QED  BY <1>2, <2>1 DEF Schemes, SchemeIn
  <1> QED  BY <1>2, <1>3 DEF Schemes

\* The URL is cut where it may be.
LEMMA CutsReadable ==
    ASSUME url \in Seq(STRING), NEW s \in Nat, NEW c \in Nat, NEW f \in Nat, NEW q \in Nat,
           Cuts(url, s, c, f, q), Recognizable(SplitOf(url, s, c, f, q))
    PROVE  /\ s \in Schemes \cup {0} /\ c \in Colons \cup {0} /\ f \in Ends /\ q \in Marks \cup {0}
           /\ Readable(s, c, f, q)
  <1>1. /\ Len(url) \in Nat /\ From(s) \in Nat \ {0} /\ From(s) <= Len(url) + 1
        /\ s # 0 => s + 2 <= Len(url) /\ From(s) = s + 3
        /\ c # 0 => From(s) <= c /\ c <= Len(url) /\ url[c] = ":" /\ c < f
        /\ From(s) <= f /\ f <= Len(url) + 1
        /\ f <= Len(url) => url[f] = "/"
        /\ q # 0 => f < q /\ q <= Len(url) /\ url[q] = "?"
    BY CutsOrder
  <1>2. s # 0 => SchemeIn(url, s) /\ s \in 1..Len(url)
    BY DEF Cuts, FirstScheme, SchemeIn
  <1>3. s \in Schemes \cup {0}
    BY <1>2, SchemesAre
  <1>4. c # 0 => c \in 1..Len(url)
    BY <1>1
  <1>5. c \in Colons \cup {0}
    BY <1>1, <1>4, SchemesAre
  <1>6. f \in Ends /\ q \in Marks \cup {0}
    BY <1>1 DEF Ends, Marks
  <1>7. Ordered(s, c, f, q)
    BY <1>1 DEF Ordered, From
  <1> DEFINE r == SplitAt(s, c, f, q)
  <1>9. r = SplitOf(url, s, c, f, q)
    BY SplitsAt
  <1> HIDE DEF r
  <1>10. All(r.protocol, Alnum) /\ All(r.host, HostChars) /\ All(r.port, Digits) /\ All(r.path, PathChars)
    BY <1>9 DEF Recognizable
  <1>11. Readable(s, c, f, q)
    BY <1>7, <1>10 DEF Readable, r
  <1> QED  BY <1>3, <1>5, <1>6, <1>11

\* Where the URL may be cut it is.
LEMMA ReadableCuts ==
    ASSUME url \in Seq(STRING),
           NEW s \in Schemes \cup {0}, NEW c \in Colons \cup {0}, NEW f \in Ends, NEW q \in Marks \cup {0},
           Readable(s, c, f, q), c = 0 => \A i \in Colons : i < f, s = 0 => Schemes = {}
    PROVE  /\ s \in Nat /\ c \in Nat /\ f \in Nat /\ q \in Nat
           /\ Cuts(url, s, c, f, q) /\ Recognizable(SplitOf(url, s, c, f, q))
  <1>1. Len(url) \in Nat
    BY LenProperties
  <1>2. /\ s # 0 => s \in 1..Len(url) /\ SchemeIn(url, s)
        /\ c # 0 => c \in 1..Len(url) /\ url[c] = ":"
    BY SchemesAre
  <1>3. s \in 0..Len(url) /\ c \in 0..Len(url) /\ f \in 1..(Len(url) + 1) /\ q \in 0..Len(url)
    BY <1>1, <1>2 DEF Ends, Marks
  <1>4. s \in Nat /\ c \in Nat /\ f \in Nat /\ q \in Nat /\ f # 0 /\ From(s) \in Nat \ {0}
    BY <1>3 DEF From
  <1> DEFINE r == SplitAt(s, c, f, q)
  <1>5. r = SplitOf(url, s, c, f, q)
    BY SplitsAt
  <1>6. /\ From(s) <= (IF c = 0 THEN f ELSE c) /\ c < f /\ (q = 0 \/ f < q)
        /\ f = Len(url) + 1 \/ url[f] = "/"
        /\ q = 0 \/ url[q] = "?"
        /\ All(r.protocol, Alnum) /\ All(r.host, HostChars)
        /\ All(r.port, Digits) /\ All(r.path, PathChars)
    BY DEF Readable, Ordered, From, Ends, Marks
  <1> HIDE DEF r
  <1>7. Recognizable(SplitOf(url, s, c, f, q))
    BY <1>5, <1>6 DEF Recognizable
  <1>8. /\ \A k \in 1..(s - 1) : url[k] \in Alnum
        /\ \A k \in From(s)..(IF c = 0 THEN f - 1 ELSE c - 1) : url[k] \in HostChars
        /\ c # 0 => \A k \in (c + 1)..(f - 1) : url[k] \in Digits
        /\ \A k \in f..(IF q = 0 THEN Len(url) ELSE q - 1) : url[k] \in PathChars
    <2>1. s <= Len(url) + 1 /\ c <= Len(url) + 1 /\ f <= Len(url) + 1 /\ q <= Len(url) + 1
      BY <1>1, <1>3
    <2> QED  BY ONLY url \in Seq(STRING), <1>4, <1>7, <2>1, PartsAre
  <1>9. FirstScheme(url, s)
    <2>1. CASE s = 0
      BY <2>1, SchemesAre DEF FirstScheme
    <2>2. CASE s # 0
      <3>1. \A t \in 1..(s - 1) : ~SchemeIn(url, t)
        BY <1>8, Delimiters DEF SchemeIn
      <3> QED  BY <1>2, <2>2, <3>1 DEF FirstScheme
    <2> QED  BY <2>1, <2>2
  <1>10. IF c = 0 THEN NoneOf(url, ":", From(s), Len(url)) ELSE FirstFrom(url, ":", From(s), c) /\ c <= Len(url)
    <2>1. CASE c = 0
      <3>1. ASSUME NEW k \in From(s)..Len(url), url[k] = ":" PROVE FALSE
        <4>1. k \in 1..Len(url)
          BY <1>1, <1>4
        <4>2. k < f
          BY <2>1, <3>1, <4>1, SchemesAre
        <4>3. k \in From(s)..(f - 1)
          BY <1>1, <1>3, <1>4, <4>2
        <4> QED  BY <1>8, <2>1, <3>1, <4>3, Delimiters
      <3> QED  BY <2>1, <3>1 DEF NoneOf
    <2>2. CASE c # 0
      <3>1. \A k \in From(s)..(c - 1) : url[k] # ":"
        BY <1>8, <2>2, Delimiters
      <3>2. c \in From(s)..(Len(url) + 1) /\ c <= Len(url)
        BY <1>1, <1>3, <1>4, <1>6, <2>2
      <3> QED  BY <1>2, <2>2, <3>1, <3>2 DEF FirstFrom, NoneOf
    <2> QED  BY <2>1, <2>2
  <1>11. FirstFrom(url, "/", IF c = 0 THEN From(s) ELSE c + 1, f)
    <2> PICK d : d = IF c = 0 THEN From(s) ELSE c + 1
      OBVIOUS
    <2>1. \A k \in d..(f - 1) : url[k] # "/"
      BY <1>8, Delimiters
    <2>2. f \in d..(Len(url) + 1)
      BY <1>1, <1>3, <1>4, <1>6
    <2>3. f <= Len(url) => url[f] = "/"
      BY <1>1, <1>3, <1>6
    <2> QED  BY <2>1, <2>2, <2>3 DEF FirstFrom, NoneOf
  <1>12. IF q = 0 THEN NoneOf(url, "?", f, Len(url)) ELSE FirstFrom(url, "?", f, q) /\ q <= Len(url)
    <2>1. CASE q = 0
      BY <1>8, <2>1, Delimiters DEF NoneOf
    <2>2. CASE q # 0
      <3>1. \A k \in f..(q - 1) : url[k] # "?"
        BY <1>8, <2>2, Delimiters
      <3>2. q \in f..(Len(url) + 1) /\ q <= Len(url) /\ url[q] = "?"
        BY <1>1, <1>3, <1>4, <1>6, <2>2
      <3> QED  BY <2>2, <3>1, <3>2 DEF FirstFrom, NoneOf
    <2> QED  BY <2>1, <2>2
  <1> QED  BY <1>4, <1>7, <1>9, <1>10, <1>11, <1>12 DEF Cuts

\* The grammar has no character in a part that is not tested for.
LEMMA GrammaticalReadable ==
    ASSUME NEW s, NEW c, NEW f, NEW q, Grammatical(s, c, f, q)
    PROVE  s # 0 /\ Readable(s, c, f, q)
  <1> DEFINE r == SplitAt(s, c, f, q)
  <1>1. /\ Ordered(s, c, f, q) /\ s # 0
        /\ r.protocol \in {<<"h", "t", "t", "p">>, <<"h", "t", "t", "p", "s">>}
        /\ ToSet(r.host) \subseteq Alnum \cup {"-", "."}
        /\ c # 0 => ToSet(r.port) \subseteq Digits
        /\ ToSet(r.path) \subseteq Segment \cup {"/"}
    BY DEF Grammatical, HostName
  <1>2. r.port = <<>> \/ c # 0
    BY DEF SplitAt
  <1> HIDE DEF r
  <1>3. All(r.protocol, Alnum)
    <2>1. {"h", "t", "p", "s"} \subseteq Alnum
      BY CharactersAssumption DEF Alnum
    <2>2. /\ ToSet(<<"h", "t", "t", "p">>) \subseteq {"h", "t", "p", "s"}
          /\ ToSet(<<"h", "t", "t", "p", "s">>) \subseteq {"h", "t", "p", "s"}
      BY DEF ToSet
    <2> QED  BY <1>1, <2>1, <2>2 DEF All
  <1>4. All(r.host, HostChars)
    BY <1>1 DEF All, HostChars
  <1>5. All(r.port, Digits)
    <2>1. ToSet(<<>>) = {}
      BY DEF ToSet
    <2> QED  BY <1>1, <1>2, <2>1 DEF All
  <1>6. All(r.path, PathChars)
    BY <1>1 DEF All, PathChars, Segment
  <1> QED  BY <1>1, <1>3, <1>4, <1>5, <1>6 DEF Readable, r

(* UrlSplit for every URL, and any letters and digits: what http_url_parse *)
(* recognises it has cut into parts of the characters it tests for, and    *)
(* asked for is the rest; and it cuts a URL where the grammar of           *)
(* http_url.h has it, unless a ":" behind the host is taken for a port's.  *)
THEOREM UrlsSplit == CrawlSpec => []UrlSplit
  <1>1. SplitInv => UrlSplit
    <2> SUFFICES ASSUME SplitInv PROVE UrlSplit
      OBVIOUS
    <2>1. url \in Seq(STRING)
      BY DEF SplitInv
    <2> PICK s \in Nat, c \in Nat, f \in Nat, q \in Nat :
              Cuts(url, s, c, f, q) /\ Parsed(SplitOf(url, s, c, f, q), http_url)
      BY <2>1, ParseIs DEF SplitInv
    <2>2. ASSUME Recognized(http_url)
          PROVE  \E s1 \in Schemes \cup {0}, c1 \in Colons \cup {0}, f1 \in Ends, q1 \in Marks \cup {0} :
                    /\ Readable(s1, c1, f1, q1) /\ http_url = SplitAt(s1, c1, f1, q1)
                    /\ SubSeq(url, f1, Len(url))
                          \in {RequestPath(http_url), RequestPath(http_url) \o <<"?">>}
      <3>1. Recognizable(SplitOf(url, s, c, f, q)) /\ http_url = SplitOf(url, s, c, f, q)
        BY <2>2 DEF Parsed
      <3>2. /\ s \in Schemes \cup {0} /\ c \in Colons \cup {0} /\ f \in Ends /\ q \in Marks \cup {0}
            /\ Readable(s, c, f, q)
        BY <2>1, <3>1, CutsReadable
      <3>3. http_url = SplitAt(s, c, f, q)
        BY <3>1, SplitsAt
      <3>4. SubSeq(url, f, Len(url)) \in {RequestPath(http_url), RequestPath(http_url) \o <<"?">>}
        BY <2>1, <3>1, RequestIs
      <3> QED  BY <3>2, <3>3, <3>4
    <2>3. ASSUME NEW s1 \in Schemes \cup {0}, NEW c1 \in Colons \cup {0}, NEW f1 \in Ends,
                 NEW q1 \in Marks \cup {0},
                 (Readable(s1, c1, f1, q1) /\ (s1 = 0 => Schemes = {})) \/ Grammatical(s1, c1, f1, q1),
                 c1 = 0 => \A i \in Colons : i < f1
          PROVE  http_url = SplitAt(s1, c1, f1, q1)
      <3>1. Readable(s1, c1, f1, q1) /\ (s1 = 0 => Schemes = {})
        BY <2>3, GrammaticalReadable
      <3>2. /\ s1 \in Nat /\ c1 \in Nat /\ f1 \in Nat /\ q1 \in Nat
            /\ Cuts(url, s1, c1, f1, q1) /\ Recognizable(SplitOf(url, s1, c1, f1, q1))
        BY <2>1, <2>3, <3>1, ReadableCuts
      <3>3. s = s1 /\ c = c1 /\ f = f1 /\ q = q1
        BY <2>1, <3>2, CutsUnique
      <3>4. http_url = SplitOf(url, s1, c1, f1, q1)
        BY <3>2, <3>3 DEF Parsed
      <3> QED  BY <3>4, SplitsAt
    <2> QED  BY <2>2, <2>3 DEF UrlSplit
  <1> QED  BY <1>1, SplitInvariant, PTL

\* Slashes counts those of a part from a to b too.
LEMMA SlashesOfPart ==
    ASSUME url \in Seq(STRING), NEW a \in Nat \ {0}, NEW b \in Nat, b <= Len(url), a <= b + 1
    PROVE  Slashes(SubSeq(url, a, b)) = Cardinality(SlashesIn(a, b))
  <1> PICK t : t = SubSeq(url, a, b)
    OBVIOUS
  <1>1. t \in Seq(STRING) /\ Len(t) = b - a + 1 /\ \A k \in 1..(b - a + 1) : t[k] = url[a + k - 1]
    BY ONLY url \in Seq(STRING), a \in Nat \ {0}, b \in Nat, b <= Len(url), a <= b + 1, t = SubSeq(url, a, b), PartOf
  <1>2. DOMAIN t = 1..(b - a + 1)
    BY <1>1, LenProperties
  <1> DEFINE B == {i \in DOMAIN t : t[i] = "/"}
             A == SlashesIn(a, b)
             d == 1 - a
  <1>3. ASSUME NEW i \in A PROVE i + d \in B
    <2>1. i \in a..b /\ url[i] = "/"
      BY DEF SlashesIn
    <2> PICK k : k = i + d
      OBVIOUS
    <2>2. k \in 1..(b - a + 1) /\ a + k - 1 = i
      BY <2>1
    <2> QED  BY <1>1, <1>2, <2>1, <2>2
  <1>4. ASSUME NEW k \in B PROVE k - d \in A
    <2>1. k \in 1..(b - a + 1) /\ t[k] = "/"
      BY <1>2
    <2>2. k - d = a + k - 1 /\ a + k - 1 \in a..b
      BY <2>1
    <2>3. url[a + k - 1] = "/"
      BY <1>1, <2>1
    <2> QED  BY <2>2, <2>3 DEF SlashesIn
  <1>5. IsFiniteSet(A) /\ A \in SUBSET Int /\ B \in SUBSET Int /\ d \in Int
    <2>1. A \subseteq a..b /\ B \subseteq 1..(b - a + 1)
      BY <1>2 DEF SlashesIn
    <2>2. A \in SUBSET Int /\ B \in SUBSET Int
      BY <2>1
    <2>3. a \in Int /\ b \in Int
      OBVIOUS
    <2>4. IsFiniteSet(SlashesIn(a, b))
      BY ONLY <2>3, SlashesFinite
    <2> QED  BY <2>2, <2>4
  <1> HIDE DEF A, B, d
  <1>6. Cardinality(B) = Cardinality(A)
    BY ONLY <1>3, <1>4, <1>5, Shifted
  <1> QED  BY <1>6 DEF A, B, Slashes

\* Where two sequences are the same, so are their parts.
LEMMA SamePart ==
    ASSUME NEW u \in Seq(STRING), NEW v \in Seq(STRING), NEW n \in Nat, n <= Len(u), n <= Len(v),
           \A k \in 1..n : u[k] = v[k], NEW i \in Nat \ {0}, NEW j \in Int, j <= n
    PROVE  SubSeq(u, i, j) = SubSeq(v, i, j)
  <1> PICK x, y : x = SubSeq(u, i, j) /\ y = SubSeq(v, i, j)
    OBVIOUS
  <1>1. Len(u) \in Nat /\ Len(v) \in Nat
    BY LenProperties
  <1>2. CASE j < i
    BY <1>2, SubSeqEmpty
  <1>3. CASE i <= j
    <2>1. j \in Nat /\ i <= j + 1 /\ j <= Len(u) /\ j <= Len(v)
      BY <1>1, <1>3
    <2>2. x \in Seq(STRING) /\ Len(x) = j - i + 1 /\ \A k \in 1..(j - i + 1) : x[k] = u[i + k - 1]
      BY ONLY u \in Seq(STRING), i \in Nat \ {0}, x = SubSeq(u, i, j), <2>1, PartOf
    <2>3. y \in Seq(STRING) /\ Len(y) = j - i + 1 /\ \A k \in 1..(j - i + 1) : y[k] = v[i + k - 1]
      BY ONLY v \in Seq(STRING), i \in Nat \ {0}, y = SubSeq(v, i, j), <2>1, PartOf
    <2>4. ASSUME NEW k \in 1..Len(x) PROVE x[k] = y[k]
      <3>1. k \in 1..(j - i + 1) /\ i + k - 1 \in 1..n
        BY <2>1, <2>2
      <3> QED  BY <2>2, <2>3, <3>1
    <2>5. x = y
      <3>1. Len(x) = Len(y)
        BY <2>2, <2>3
      <3> QED  BY ONLY <2>2, <2>3, <2>4, <3>1, SeqEqual
    <2> QED  BY <2>5
  <1> QED  BY <1>2, <1>3

\* A URL that is the page's up to a slash of its path, and is recognised, is
\* cut where the page's was.
LEMMA SameCut ==
    ASSUME NEW u \in Seq(STRING), NEW v \in Seq(STRING), NEW n \in Nat,
           NEW s \in Nat, NEW c \in Nat, NEW f \in Nat, NEW q \in Nat,
           NEW s2 \in Nat, NEW c2 \in Nat, NEW f2 \in Nat, NEW q2 \in Nat,
           Cuts(u, s, c, f, q), Recognizable(SplitOf(u, s, c, f, q)),
           Cuts(v, s2, c2, f2, q2), Recognizable(SplitOf(v, s2, c2, f2, q2)),
           f <= n, n <= Len(u), n <= Len(v), u[n] = "/", \A k \in 1..n : u[k] = v[k],
           c = 0 \/ f # c + 1 \/ s # 0
    PROVE  s = s2 /\ c = c2 /\ f = f2
  <1>1. /\ Len(u) \in Nat /\ From(s) \in Nat \ {0} /\ From(s) <= Len(u) + 1
        /\ s # 0 => s + 2 <= Len(u) /\ From(s) = s + 3
        /\ c # 0 => From(s) <= c /\ c <= Len(u) /\ u[c] = ":" /\ c < f
        /\ From(s) <= f /\ f <= Len(u) + 1
        /\ f <= Len(u) => u[f] = "/"
        /\ q # 0 => f < q /\ q <= Len(u) /\ u[q] = "?"
    BY ONLY u \in Seq(STRING), s \in Nat, c \in Nat, f \in Nat, q \in Nat, Cuts(u, s, c, f, q),
            CutsOrder
  <1>2. /\ Len(v) \in Nat /\ From(s2) \in Nat \ {0} /\ From(s2) <= Len(v) + 1
        /\ s2 # 0 => s2 + 2 <= Len(v) /\ From(s2) = s2 + 3
        /\ c2 # 0 => From(s2) <= c2 /\ c2 <= Len(v) /\ v[c2] = ":" /\ c2 < f2
        /\ From(s2) <= f2 /\ f2 <= Len(v) + 1
        /\ f2 <= Len(v) => v[f2] = "/"
        /\ q2 # 0 => f2 < q2 /\ q2 <= Len(v) /\ v[q2] = "?"
    BY ONLY v \in Seq(STRING), s2 \in Nat, c2 \in Nat, f2 \in Nat, q2 \in Nat,
            Cuts(v, s2, c2, f2, q2), CutsOrder
  <1>3. /\ \A k \in 1..(s - 1) : u[k] \in Alnum
        /\ \A k \in From(s)..(IF c = 0 THEN f - 1 ELSE c - 1) : u[k] \in HostChars
        /\ c # 0 => \A k \in (c + 1)..(f - 1) : u[k] \in Digits
    <2>1. s <= Len(u) + 1 /\ c <= Len(u) + 1 /\ f <= Len(u) + 1 /\ q <= Len(u) + 1 /\ f # 0
      BY ONLY <1>1, s \in Nat, c \in Nat, f \in Nat, q \in Nat
    <2> QED  BY <2>1, PartsAre
  <1>4. /\ \A k \in 1..(s2 - 1) : v[k] \in Alnum
        /\ \A k \in From(s2)..(IF c2 = 0 THEN f2 - 1 ELSE c2 - 1) : v[k] \in HostChars
    <2>1. s2 <= Len(v) + 1 /\ c2 <= Len(v) + 1 /\ f2 <= Len(v) + 1 /\ q2 <= Len(v) + 1 /\ f2 # 0
      BY ONLY <1>2, s2 \in Nat, c2 \in Nat, f2 \in Nat, q2 \in Nat
    <2> QED  BY <2>1, PartsAre
  <1>5. u[f] = "/" /\ v[f] = "/" /\ f \in 1..n
    BY <1>1
  <1>6. FirstScheme(u, s) /\ FirstScheme(v, s2)
    BY DEF Cuts
  <1>7. \A t \in 1..n : t + 2 <= n => (SchemeIn(u, t) <=> SchemeIn(v, t))
    <2> SUFFICES ASSUME NEW t \in 1..n, t + 2 <= n PROVE SchemeIn(u, t) <=> SchemeIn(v, t)
      OBVIOUS
    <2>1. t \in 1..n /\ t + 1 \in 1..n /\ t + 2 \in 1..n
      OBVIOUS
    <2>2. u[t] = v[t] /\ u[t + 1] = v[t + 1] /\ u[t + 2] = v[t + 2]
      BY <2>1
    <2>3. t \in 1..Len(u) /\ t \in 1..Len(v) /\ t + 2 <= Len(u) /\ t + 2 <= Len(v)
      <3>1. Len(u) \in Nat /\ Len(v) \in Nat
        BY <1>1, <1>2
      <3> QED  BY ONLY <3>1, n \in Nat, n <= Len(u), n <= Len(v), t \in 1..n, t + 2 <= n
    <2> QED  BY <2>2, <2>3 DEF SchemeIn
  <1>8. s = s2
    <2>1. CASE s # 0
      <3>1. SchemeIn(u, s) /\ s + 3 <= f /\ s \in 1..n /\ s + 2 <= n
        BY <1>1, <1>6, <2>1 DEF FirstScheme, SchemeIn
      <3>2. SchemeIn(v, s)
        BY <1>7, <3>1
      <3>3. s2 # 0
        BY <1>6, <3>2 DEF FirstScheme, SchemeIn
      <3>4. SchemeIn(v, s2) /\ \A t \in 1..(s2 - 1) : ~SchemeIn(v, t)
        BY <1>6, <3>3 DEF FirstScheme
      <3>5. ~(s < s2)
        <4> SUFFICES ASSUME s < s2 PROVE FALSE
          OBVIOUS
        <4>1. s \in 1..(s2 - 1)
          BY <3>1
        <4> QED  BY <3>2, <3>4, <4>1
      <3>6. ~(s2 < s)
        <4> SUFFICES ASSUME s2 < s PROVE FALSE
          OBVIOUS
        <4>1. s2 \in 1..(s - 1) /\ s2 \in 1..n /\ s2 + 2 <= n
          BY <3>1, <3>3
        <4>2. SchemeIn(u, s2)
          BY <1>7, <3>4, <4>1
        <4> QED  BY <1>6, <2>1, <4>1, <4>2 DEF FirstScheme
      <3> QED  BY <3>5, <3>6
    <2>2. CASE s = 0
      <3> SUFFICES ASSUME s2 # 0 PROVE FALSE
        BY <2>2
      <3>1. SchemeIn(v, s2) /\ s2 + 2 <= Len(v) /\ v[s2] = ":" /\ v[s2 + 1] = "/"
        BY <1>6 DEF FirstScheme, SchemeIn
      <3>2. s2 < f
        <4>1. s2 # f
          BY <1>5, <3>1
        <4>2. ~(f < s2)
          <5> SUFFICES ASSUME f < s2 PROVE FALSE
            OBVIOUS
          <5>1. f \in 1..(s2 - 1)
            BY <1>5
          <5> QED  BY <1>4, <1>5, <5>1, Delimiters
        <4> QED  BY <4>1, <4>2
      <3>3. s2 \in 1..n /\ s2 + 1 \in 1..n
        BY <1>5, <3>2
      <3>4. u[s2] = ":"
        BY <3>1, <3>3
      <3>5. From(s) = 1
        BY <2>2 DEF From
      <3>6. n = s2 + 1 /\ f = s2 + 1
        <4>1. ~(s2 + 2 <= n)
          <5> SUFFICES ASSUME s2 + 2 <= n PROVE FALSE
            OBVIOUS
          <5>1. SchemeIn(u, s2) /\ s2 \in 1..Len(u)
            BY <1>7, <3>1, <3>3 DEF SchemeIn
          <5> QED  BY <1>6, <2>2, <5>1 DEF FirstScheme
        <4> QED  BY <1>5, <3>2, <4>1
      <3>7. c # 0
        <4> SUFFICES ASSUME c = 0 PROVE FALSE
          OBVIOUS
        <4>1. NoneOf(u, ":", 1, Len(u)) /\ s2 \in 1..Len(u)
          BY <1>1, <3>3, <3>5 DEF Cuts
        <4> QED  BY <3>4, <4>1 DEF NoneOf
      <3>8. FirstFrom(u, ":", 1, c)
        BY <3>5, <3>7 DEF Cuts
      <3>9. c <= s2
        <4> SUFFICES ASSUME s2 < c PROVE FALSE
          OBVIOUS
        <4>1. s2 \in 1..(c - 1)
          BY <3>3
        <4> QED  BY <3>4, <3>8, <4>1 DEF FirstFrom, NoneOf
      <3>10. c = s2
        <4> SUFFICES ASSUME c < s2 PROVE FALSE
          BY <3>9
        <4>1. s2 \in (c + 1)..(f - 1)
          BY <3>2
        <4> QED  BY <1>3, <3>4, <3>7, <4>1, Delimiters
      <3> QED  BY <2>2, <3>6, <3>7, <3>10
    <2> QED  BY <2>1, <2>2
  <1>9. c = c2
    <2>1. CASE c # 0
      <3>1. FirstFrom(u, ":", From(s), c) /\ c \in 1..n /\ c <= Len(v)
        BY <1>1, <1>2, <2>1 DEF Cuts
      <3>2. FirstFrom(v, ":", From(s), c)
        <4>1. c \in From(s)..(Len(v) + 1) /\ v[c] = ":"
          <5>1. v[c] = u[c]
            BY <3>1
          <5> QED  BY ONLY <1>1, <1>2, <2>1, <3>1, <5>1, c \in Nat
        <4>2. \A k \in From(s)..(c - 1) : v[k] # ":"
          <5>1. \A k \in From(s)..(c - 1) : k \in 1..n
            BY ONLY <1>1, <3>1, n \in Nat
          <5> QED  BY <3>1, <5>1 DEF FirstFrom, NoneOf
        <4> QED  BY <4>1, <4>2 DEF FirstFrom, NoneOf
      <3>3. c2 # 0
        <4> SUFFICES ASSUME c2 = 0 PROVE FALSE
          OBVIOUS
        <4>1. NoneOf(v, ":", From(s), Len(v)) /\ c \in From(s)..Len(v) /\ v[c] = ":"
          BY <1>1, <1>2, <1>8, <2>1, <3>1 DEF Cuts
        <4> QED  BY <4>1 DEF NoneOf
      <3>4. FirstFrom(v, ":", From(s), c2)
        BY <1>8, <3>3 DEF Cuts
      <3> QED  BY <1>1, <3>2, <3>4, FirstUnique
    <2>2. CASE c = 0
      <3> SUFFICES ASSUME c2 # 0 PROVE FALSE
        BY <2>2
      <3>1. NoneOf(u, ":", From(s), Len(u))
        BY <2>2 DEF Cuts
      <3>2. From(s) <= c2 /\ v[c2] = ":"
        BY <1>2, <1>8
      <3>3. n < c2
        <4> SUFFICES ASSUME c2 <= n PROVE FALSE
          OBVIOUS
        <4>1. c2 \in 1..n /\ c2 \in From(s)..Len(u)
          BY <1>1, <3>2
        <4> QED  BY <3>1, <3>2, <4>1 DEF NoneOf
      <3>4. f \in From(s2)..(c2 - 1)
        BY <1>1, <1>5, <1>8, <3>3
      <3> QED  BY <1>4, <1>5, <3>4, Delimiters
    <2> QED  BY <2>1, <2>2
  <1>10. f = f2
    <2> PICK d : d = IF c = 0 THEN From(s) ELSE c + 1
      OBVIOUS
    <2>1. d \in Nat \ {0} /\ d <= f
      BY <1>1
    <2>2. FirstFrom(u, "/", d, f) /\ FirstFrom(v, "/", d, f2)
      BY <1>8, <1>9 DEF Cuts
    <2>3. FirstFrom(v, "/", d, f)
      <3>1. f \in d..(Len(v) + 1)
        BY <1>2, <1>5, <2>1
      <3>2. \A k \in d..(f - 1) : k \in 1..n
        BY ONLY <1>5, <2>1, n \in Nat
      <3>3. \A k \in d..(f - 1) : v[k] # "/"
        BY <2>2, <3>2 DEF FirstFrom, NoneOf
      <3> QED  BY <1>5, <3>1, <3>3 DEF FirstFrom, NoneOf
    <2> QED  BY <2>1, <2>2, <2>3, FirstUnique
  <1> QED  BY <1>8, <1>9, <1>10

\* More of a link has no fewer "..".
LEMMA UpsGrow ==
    ASSUME NEW link \in Seq(STRING), NEW c \in Nat, c <= Len(link)
    PROVE  Ups(link, c) \in Nat /\ Ups(link, Len(link)) \in Nat /\ Ups(link, c) <= Ups(link, Len(link))
  <1> DEFINE N == Len(link)
  <1>1. N \in Nat
    BY LenProperties
  <1>2. DotsIn(link, 0, c) \in SUBSET DotsIn(link, 0, N)
    BY <1>1 DEF DotsIn
  <1>3. IsFiniteSet(DotsIn(link, 0, N)) /\ Cardinality(DotsIn(link, 0, N)) \in Nat
    BY <1>1, DotsFinite
  <1>4. Cardinality(DotsIn(link, 0, c)) <= Cardinality(DotsIn(link, 0, N))
    BY ONLY <1>2, <1>3, FS_Subset
  <1>5. Cardinality(DotsIn(link, 0, c)) \in Nat
    <2>1. 0 \in Nat
      OBVIOUS
    <2> QED  BY <2>1, <1>1, DotsFinite
  <1>6. Ups(link, c) = Cardinality(DotsIn(link, 0, c)) /\ Ups(link, N) = Cardinality(DotsIn(link, 0, N))
    <2>1. N <= Len(link)
      BY <1>1
    <2> QED  BY <1>1, <2>1, UpsIs
  <1> QED  BY <1>3, <1>4, <1>5, <1>6

\* If what is left of a URL has fewer slashes than its path, it is within the path.
LEMMA WithinPath ==
    ASSUME url \in Seq(STRING), NEW s \in Nat, NEW c \in Nat, NEW f \in Nat, NEW q \in Nat,
           Cuts(url, s, c, f, q), NEW n \in 1..Len(url),
           Slashes(SubSeq(url, n + 1, Len(url))) < Slashes(SplitOf(url, s, c, f, q).path)
    PROVE  f <= n
  <1> SUFFICES ASSUME n < f PROVE FALSE
    BY CutsOrder
  <1>1. /\ Len(url) \in Nat /\ f \in Nat \ {0} /\ f <= Len(url) + 1
        /\ q # 0 => f < q /\ q <= Len(url)
    BY CutsOrder
  <1> PICK e : e = IF q = 0 THEN Len(url) ELSE q - 1
    OBVIOUS
  <1>2. e \in Nat /\ e <= Len(url) /\ f <= e + 1
    BY <1>1
  <1>3. SplitOf(url, s, c, f, q).path = SubSeq(url, f, e)
    BY DEF SplitOf
  <1>4. Slashes(SubSeq(url, f, e)) = Cardinality(SlashesIn(f, e))
    BY ONLY url \in Seq(STRING), <1>1, <1>2, SlashesOfPart
  <1>5. Slashes(SubSeq(url, n + 1, Len(url))) = Cardinality(SlashesIn(n + 1, Len(url)))
    <2>1. n \in Nat /\ n <= Len(url)
      BY <1>1
    <2> QED  BY ONLY url \in Seq(STRING), <2>1, SlashesOfRest
  <1>6. SlashesIn(f, e) \in SUBSET SlashesIn(n + 1, Len(url))
    BY <1>1, <1>2 DEF SlashesIn
  <1>7. IsFiniteSet(SlashesIn(n + 1, Len(url))) /\ Cardinality(SlashesIn(n + 1, Len(url))) \in Nat
        /\ Cardinality(SlashesIn(f, e)) \in Nat
    <2>1. n + 1 \in Int /\ Len(url) \in Int /\ f \in Int /\ e \in Int
      BY <1>1, <1>2
    <2> QED  BY ONLY <2>1, SlashesFinite
  <1>8. Cardinality(SlashesIn(f, e)) <= Cardinality(SlashesIn(n + 1, Len(url)))
    BY ONLY <1>6, <1>7, FS_Subset
  <1> QED  BY <1>3, <1>4, <1>5, <1>7, <1>8

(* SameSite for every page and every URL: a relative link that does not    *)
(* climb above the page's path is, put together by extract_absolute_link   *)
(* and cut again by http_url_parse, a URL of the same protocol, host and   *)
(* port.                                                                   *)
THEOREM LinksSameSite == CrawlSpec => []SameSite
  <1>1. PageInv /\ SplitInv /\ Resolved => SameSite
    <2> SUFFICES ASSUME PageInv, SplitInv, Resolved, ~Reading, NEW m \in DOMAIN urllist,
                        ~IsPrefix(http, SubSeq(htmltxt, urllist[m].so, urllist[m].eo)),
                        Ups(SubSeq(htmltxt, urllist[m].so, urllist[m].eo),
                            Len(SubSeq(htmltxt, urllist[m].so, urllist[m].eo))) < Slashes(http_url.path),
                        http_url.port = <<>> => Schemes # {} \/ Colons = {},
                        Recognized(http_url_parse_s(urllist[m].link))
                 PROVE  /\ http_url_parse_s(urllist[m].link).protocol = http_url.protocol
                        /\ http_url_parse_s(urllist[m].link).host = http_url.host
                        /\ http_url_parse_s(urllist[m].link).port = http_url.port
      BY DEF SameSite
    <2> PICK link, v, to : /\ link = SubSeq(htmltxt, urllist[m].so, urllist[m].eo)
                           /\ v = urllist[m].link /\ to = http_url_parse_s(v)
      OBVIOUS
    <2>1. /\ url \in Seq(STRING) /\ htmltxt \in Seq(STRING) /\ Len(htmltxt) \in Nat /\ Len(url) \in Nat
          /\ urllist \in Seq([so : Nat, eo : Nat, link : Seq(STRING)])
      BY LenProperties DEF PageInv, ParserTypes
    <2>2. m \in 1..Len(urllist) /\ urllist[m] \in [so : Nat, eo : Nat, link : Seq(STRING)]
      <3>1. DOMAIN urllist = 1..Len(urllist)
        BY ONLY <2>1, LenProperties
      <3>2. m \in 1..Len(urllist)
        BY <3>1
      <3> QED  BY ONLY <2>1, <3>2, ElementOfSeq
    <2>3. v \in Seq(STRING) /\ Len(v) \in Nat
      BY <2>2, LenProperties
    <2>4. link \in Seq(STRING) /\ Len(link) \in Nat
      <3> PICK x : x = urllist[m]
        OBVIOUS
      <3>1. InAnchor(x) /\ x.so \in Nat /\ x.eo \in Nat /\ link = SubSeq(htmltxt, x.so, x.eo)
        BY <2>2 DEF PageInv, LinksInv
      <3>2. x.so \in Nat \ {0} /\ x.eo <= Len(htmltxt) /\ x.so <= x.eo + 1
        <4>1. x.so # 0 /\ x.so <= x.eo + 1 /\ x.eo < Len(htmltxt)
          BY ONLY <3>1 DEF InAnchor
        <4> QED  BY ONLY <2>1, <3>1, <4>1
      <3>3. link \in Seq(STRING)
        BY ONLY <2>1, <3>1, <3>2, PartOf
      <3> QED  BY <3>3, LenProperties
    <2>5. ResolvesTo(link, v)
      <3>1. ResolvesTo(SubSeq(htmltxt, urllist[m].so, urllist[m].eo), urllist[m].link)
        BY DEF Resolved, ResolvesTo
      <3> QED  BY ONLY <3>1, link = SubSeq(htmltxt, urllist[m].so, urllist[m].eo), v = urllist[m].link
    <2>6. PICK d \in 0..(Len(link) - 1), n \in 1..Len(url) :
             /\ v = SubSeq(url, 1, n) \o SubSeq(link, d + 1, Len(link))
             /\ url[n] = "/"
             /\ Slashes(SubSeq(url, n + 1, Len(url))) = Ups(link, d)
      BY <2>5 DEF ResolvesTo
    <2>7. n <= Len(v) /\ \A k \in 1..n : url[k] = v[k]
      <3> PICK x, y : x = SubSeq(url, 1, n) /\ y = SubSeq(link, d + 1, Len(link))
        OBVIOUS
      <3>1. /\ 1 \in Nat \ {0} /\ n \in Nat /\ n <= Len(url) /\ 1 <= n + 1
            /\ d + 1 \in Nat \ {0} /\ d + 1 <= Len(link) + 1 /\ Len(link) <= Len(link)
        <4>1. d \in Nat /\ d <= Len(link) - 1 /\ n \in Nat /\ 1 <= n /\ n <= Len(url)
          BY ONLY <2>1, <2>4, d \in 0..(Len(link) - 1), n \in 1..Len(url)
        <4> QED  BY ONLY <2>1, <2>4, <4>1
      <3>2. x \in Seq(STRING) /\ Len(x) = n - 1 + 1 /\ \A k \in 1..(n - 1 + 1) : x[k] = url[1 + k - 1]
        <4> PICK o : o = 1
          OBVIOUS
        <4>1. o \in Nat \ {0} /\ n \in Nat /\ n <= Len(url) /\ o <= n + 1 /\ x = SubSeq(url, o, n)
          BY <3>1
        <4>2. x \in Seq(STRING) /\ Len(x) = n - o + 1 /\ \A k \in 1..(n - o + 1) : x[k] = url[o + k - 1]
          <5>1. /\ SubSeq(url, o, n) \in Seq(STRING) /\ Len(SubSeq(url, o, n)) = n - o + 1
                /\ \A k \in 1..(n - o + 1) : SubSeq(url, o, n)[k] = url[o + k - 1]
            <6>1. o \in Nat \ {0} /\ n \in Nat /\ n <= Len(url) /\ o <= n + 1
              BY ONLY <4>1
            <6>2. url \in Seq(STRING)
              BY <2>1
            <6> QED  BY ONLY <6>1, <6>2, PartOf
          <5> QED  BY ONLY <4>1, <5>1
        <4> QED  BY ONLY <4>2, o = 1
      <3>3. x \in Seq(STRING) /\ Len(x) = n /\ \A k \in 1..n : x[k] = url[k]
        <4>1. n - 1 + 1 = n /\ \A k \in 1..n : 1 + k - 1 = k
          BY <3>1
        <4> QED  BY <3>2, <4>1
      <3>4. y \in Seq(STRING) /\ Len(y) \in Nat
        <4> PICK b : b = d + 1
          OBVIOUS
        <4>1. b \in Nat \ {0} /\ b <= Len(link) + 1 /\ Len(link) <= Len(link) /\ y = SubSeq(link, b, Len(link))
          BY <3>1
        <4>2. y \in Seq(STRING)
          BY ONLY <2>4, <4>1, PartOf
        <4> QED  BY <4>2, LenProperties
      <3>5. /\ Len(v) = Len(x) + Len(y)
            /\ \A k \in 1..(Len(x) + Len(y)) : v[k] = IF k <= Len(x) THEN x[k] ELSE y[k - Len(x)]
        <4>1. v = x \o y
          BY <2>6
        <4> QED  BY ONLY <3>3, <3>4, <4>1, ConcatProperties
      <3>6. n <= Len(v)
        BY ONLY <3>1, <3>3, <3>4, <3>5
      <3>7. ASSUME NEW k \in 1..n PROVE url[k] = v[k]
        <4>1. k \in 1..(Len(x) + Len(y)) /\ k <= Len(x)
          BY ONLY <3>1, <3>3, <3>4, k \in 1..n
        <4> QED  BY ONLY <3>3, <3>5, <4>1, k \in 1..n
      <3> QED  BY <3>6, <3>7
    <2>8. Recognized(http_url)
      <3>1. urllist # <<>>
        BY <2>2
      <3> QED  BY <3>1 DEF SplitInv
    <2> PICK s \in Nat, c \in Nat, f \in Nat, q \in Nat :
              Cuts(url, s, c, f, q) /\ Parsed(SplitOf(url, s, c, f, q), http_url)
      BY <2>1, ParseIs DEF SplitInv
    <2> PICK s2 \in Nat, c2 \in Nat, f2 \in Nat, q2 \in Nat :
              Cuts(v, s2, c2, f2, q2) /\ Parsed(SplitOf(v, s2, c2, f2, q2), to)
      BY <2>3, ParseIs
    <2>9. /\ Recognizable(SplitOf(url, s, c, f, q)) /\ http_url = SplitOf(url, s, c, f, q)
          /\ Recognizable(SplitOf(v, s2, c2, f2, q2)) /\ to = SplitOf(v, s2, c2, f2, q2)
      BY <2>8 DEF Parsed
    <2>10. f <= n
      <3>1. Ups(link, d) < Slashes(http_url.path)
        <4>1. d \in Nat /\ d <= Len(link)
          BY <2>4
        <4>2. Ups(link, d) \in Nat /\ Ups(link, Len(link)) \in Nat /\ Ups(link, d) <= Ups(link, Len(link))
          BY ONLY <2>4, <4>1, UpsGrow
        <4>3. Slashes(http_url.path) \in Nat
          <5> PICK e : e = IF q = 0 THEN Len(url) ELSE q - 1
            OBVIOUS
          <5>1. http_url.path = SubSeq(url, f, e)
            BY <2>9 DEF SplitOf
          <5>2. /\ Len(url) \in Nat /\ From(s) \in Nat \ {0} /\ From(s) <= f /\ f <= Len(url) + 1
                /\ q # 0 => f < q /\ q <= Len(url)
            BY <2>1, CutsOrder
          <5>3. f \in Nat \ {0} /\ e \in Nat /\ e <= Len(url) /\ f <= e + 1 /\ f \in Int /\ e \in Int
            BY <5>2
          <5>4. Slashes(SubSeq(url, f, e)) = Cardinality(SlashesIn(f, e))
            BY ONLY <2>1, <5>3, SlashesOfPart
          <5>5. Cardinality(SlashesIn(f, e)) \in Nat
            BY ONLY <5>3, SlashesFinite
          <5> QED  BY ONLY <5>1, <5>4, <5>5
        <4>4. Ups(link, Len(link)) < Slashes(http_url.path)
          OBVIOUS
        <4> PICK a, b, g : a = Ups(link, d) /\ b = Ups(link, Len(link)) /\ g = Slashes(http_url.path)
          OBVIOUS
        <4>5. a \in Nat /\ b \in Nat /\ a <= b /\ g \in Nat /\ b < g
          BY ONLY <4>2, <4>3, <4>4, a = Ups(link, d), b = Ups(link, Len(link)), g = Slashes(http_url.path)
        <4>6. a < g
          BY ONLY <4>5
        <4> QED  BY ONLY <4>6, a = Ups(link, d), g = Slashes(http_url.path)
      <3>2. Slashes(SubSeq(url, n + 1, Len(url))) < Slashes(SplitOf(url, s, c, f, q).path)
        BY ONLY <2>6, <2>9, <3>1
      <3>3. url \in Seq(STRING) /\ Cuts(url, s, c, f, q)
        BY <2>1
      <3> QED  BY ONLY <3>2, <3>3, s \in Nat, c \in Nat, f \in Nat, q \in Nat, n \in 1..Len(url), WithinPath
    <2>11. c = 0 \/ f # c + 1 \/ s # 0
      <3> SUFFICES ASSUME c # 0, f = c + 1, s = 0 PROVE FALSE
        OBVIOUS
      <3>1. http_url.port = SubSeq(url, c + 1, f - 1)
        BY <2>9 DEF SplitOf
      <3>2. http_url.port = <<>>
        <4>1. c + 1 \in Int /\ f - 1 \in Int /\ f - 1 < c + 1
          OBVIOUS
        <4> QED  BY <3>1, <4>1, SubSeqEmpty
      <3>3. c \in Colons
        <4>1. c \in 1..Len(url) /\ url[c] = ":"
          <5>1. Len(url) \in Nat /\ From(s) \in Nat \ {0} /\ From(s) <= c /\ c <= Len(url) /\ url[c] = ":"
            BY <2>1, CutsOrder
          <5>2. c \in 1..Len(url)
            BY ONLY <5>1, c \in Nat
          <5> QED  BY ONLY <5>1, <5>2
        <4> QED  BY ONLY <2>1, <4>1, SchemesAre
      <3>4. Schemes = {}
        <4>1. \A t \in 1..Len(url) : ~SchemeIn(url, t)
          BY ONLY s = 0, Cuts(url, s, c, f, q) DEF Cuts, FirstScheme
        <4> QED  BY <2>1, <4>1, SchemesAre
      <3> QED  BY <3>2, <3>3, <3>4
    <2>12. s = s2 /\ c = c2 /\ f = f2
      <3>1. n \in Nat /\ n <= Len(url)
        BY <2>1
      <3> QED  BY <2>1, <2>3, <2>6, <2>7, <2>9, <2>10, <2>11, <3>1, SameCut
    <2>13. \A i \in Nat \ {0} : \A j \in Int : j <= n => SubSeq(url, i, j) = SubSeq(v, i, j)
      <3>1. n \in Nat /\ n <= Len(url)
        BY <2>1
      <3> QED  BY <2>1, <2>3, <2>7, <3>1, SamePart
    <2>14. /\ SubSeq(url, 1, s - 1) = SubSeq(v, 1, s - 1)
           /\ SubSeq(url, From(s), IF c = 0 THEN f - 1 ELSE c - 1) = SubSeq(v, From(s), IF c = 0 THEN f - 1 ELSE c - 1)
           /\ SubSeq(url, c + 1, f - 1) = SubSeq(v, c + 1, f - 1)
      <3>1. /\ From(s) \in Nat \ {0} /\ (s # 0 => From(s) = s + 3) /\ From(s) <= f /\ (c # 0 => c < f)
        BY <2>1, CutsOrder
      <3>2. /\ 1 \in Nat \ {0} /\ s - 1 \in Int /\ s - 1 <= n
            /\ (IF c = 0 THEN f - 1 ELSE c - 1) \in Int /\ (IF c = 0 THEN f - 1 ELSE c - 1) <= n
            /\ c + 1 \in Nat \ {0} /\ f - 1 \in Int /\ f - 1 <= n
        BY <2>10, <3>1
      <3> QED  BY <2>13, <3>1, <3>2
    <2>15. /\ http_url.protocol = SubSeq(url, 1, s - 1)
           /\ http_url.host = SubSeq(url, From(s), IF c = 0 THEN f - 1 ELSE c - 1)
           /\ http_url.port = IF c = 0 THEN <<>> ELSE SubSeq(url, c + 1, f - 1)
      BY ONLY <2>9 DEF SplitOf
    <2>16. /\ to.protocol = SubSeq(v, 1, s - 1)
           /\ to.host = SubSeq(v, From(s), IF c = 0 THEN f - 1 ELSE c - 1)
           /\ to.port = IF c = 0 THEN <<>> ELSE SubSeq(v, c + 1, f - 1)
      BY ONLY <2>9, <2>12 DEF SplitOf
    <2>17. to.protocol = http_url.protocol /\ to.host = http_url.host /\ to.port = http_url.port
      BY ONLY <2>14, <2>15, <2>16
    <2> QED  BY ONLY <2>17, v = urllist[m].link, to = http_url_parse_s(v)
  <1> QED  BY <1>1, PageInvariant, SplitInvariant, LinksResolved, PTL
=============================================================================
