----------------------------- MODULE ListProofs -----------------------------
(***************************************************************************)
(* What TLAPS proves of List, for any elements and any addresses: until    *)
(* list_push_back finds tail behind, whatever is pushed, inserted, erased, *)
(* looked up and cleared, an iteration meets the elements that             *)
(* AbstractList has.  The argument: until then there is a sequence of      *)
(* nodes that next goes along from the meta node, each node once, and that *)
(* ends at tail, or tail is behind; a call puts one in or takes one out.   *)
(***************************************************************************)
EXTENDS List, SequenceTheorems, FiniteSetTheorems, WellFoundedInduction, TLAPS

USE DEF list

-----------------------------------------------------------------------------
(* The list as a sequence of nodes. *)

\* Its places count from the meta node, at 0.
Place(s, i) == IF i = 0 THEN Meta ELSE IF i \in 1..Len(s) THEN s[i] ELSE NULL

ListOf(s) ==
    /\ \A i \in 0..Len(s) : next[Place(s, i)] = Place(s, i + 1)
    /\ \A i, j \in 1..Len(s) : s[i] = s[j] => i = j

Held(s) == {s[i] : i \in 1..Len(s)}

Shape(s) ==
    /\ ListOf(s)
    /\ allocated = Held(s)
    /\ len = Len(s)
    /\ tail = IF end = "kept" THEN Place(s, Len(s)) ELSE Meta

TypeOK ==
    /\ next \in [Nodes \cup {Meta} -> Nodes \cup {NULL}]
    /\ buffer \in [Nodes -> Elements \cup {NULL}]

Sound == TypeOK /\ \E s \in Seq(Nodes) : Shape(s)

\* The inductive invariant.
Inv == end = "lost" \/ (end \in {"kept", "behind"} /\ Sound)

-----------------------------------------------------------------------------
(* Lemmas about sequences. *)

\* What is at a place.
LEMMA Places ==
    ASSUME NEW s \in Seq(Nodes)
    PROVE  /\ Len(s) \in Nat
           /\ \A i \in 1..Len(s) : s[i] \in Nodes /\ Place(s, i) = s[i]
           /\ Place(s, 0) = Meta
           /\ \A i \in 0..Len(s) : Place(s, i) \in Nodes \cup {Meta} /\ Place(s, i) # NULL
           /\ \A i : i \notin 0..Len(s) => Place(s, i) = NULL
  <1>1. Len(s) \in Nat /\ \A i \in 1..Len(s) : s[i] \in Nodes
    BY ElementOfSeq, LenProperties
  <1>2. \A i \in 1..Len(s) : i # 0
    BY <1>1
  <1>3. \A i : i \in 0..Len(s) <=> i = 0 \/ i \in 1..Len(s)
    BY <1>1
  <1> QED  BY <1>1, <1>2, <1>3, ListAssumption DEF Place

\* No place is twice in a list.
LEMMA PlacesDiffer ==
    ASSUME NEW s \in Seq(Nodes), ListOf(s), NEW i \in 0..Len(s), NEW j \in 0..Len(s),
           Place(s, i) = Place(s, j)
    PROVE  i = j
  <1>1. Len(s) \in Nat
    BY Places
  <1>2. CASE i # 0 /\ j # 0
    <2>1. i \in 1..Len(s) /\ j \in 1..Len(s)
      BY <1>1, <1>2
    <2> QED  BY <2>1, Places DEF ListOf
  <1>3. CASE i = 0 \/ j = 0
    <2>1. \A k \in 0..Len(s) : k # 0 => Place(s, k) \in Nodes
      <3> TAKE k \in 0..Len(s)
      <3>1. k # 0 => k \in 1..Len(s)
        BY <1>1
      <3> QED  BY <3>1, Places
    <2> QED  BY <1>3, <2>1, Places, ListAssumption
  <1> QED  BY <1>2, <1>3

\* e put at position i, and what is at position i taken out.
With(s, i, e) ==
    [j \in 1..(Len(s) + 1) |-> IF j < i THEN s[j] ELSE IF j = i THEN e ELSE s[j - 1]]
Without(s, i) == [j \in 1..(Len(s) - 1) |-> IF j < i THEN s[j] ELSE s[j + 1]]

\* The first is what InsertAt does.
Inserting(S) ==
    \A s \in Seq(S), e \in S : \A i \in 1..(Len(s) + 1) :
        /\ With(s, i, e) \in Seq(S) /\ Len(With(s, i, e)) = Len(s) + 1
        /\ Abstract!InsertAt(s, i, e) = With(s, i, e)

LEMMA WithIs == ASSUME NEW S PROVE Inserting(S)
  <1> SUFFICES ASSUME NEW s \in Seq(S), NEW e \in S, NEW i \in 1..(Len(s) + 1)
               PROVE  /\ With(s, i, e) \in Seq(S) /\ Len(With(s, i, e)) = Len(s) + 1
                      /\ Abstract!InsertAt(s, i, e) = With(s, i, e)
    BY DEF Inserting
  <1> DEFINE t == With(s, i, e)
             before == SubSeq(s, 1, i - 1)
             after == SubSeq(s, i, Len(s))
  <1>1. Len(s) \in Nat /\ \A j \in 1..Len(s) : s[j] \in S
    BY ElementOfSeq, LenProperties
  <1>2. t \in [1..(Len(s) + 1) -> S]
    <2> SUFFICES ASSUME NEW j \in 1..(Len(s) + 1)
                 PROVE  (IF j < i THEN s[j] ELSE IF j = i THEN e ELSE s[j - 1]) \in S
      BY DEF With
    <2>1. (j < i => j \in 1..Len(s)) /\ (~(j < i) /\ j # i => j - 1 \in 1..Len(s))
      BY <1>1
    <2> QED  BY <1>1, <2>1
  <1>3. t \in Seq(S) /\ Len(t) = Len(s) + 1
    BY <1>1, <1>2, IsASeq, LenProperties
  <1>4. /\ before \in Seq(S) /\ Len(before) = i - 1
        /\ \A j \in 1..(i - 1) : before[j] = s[j]
    <2>1. \A j \in 1..(i - 1) : s[j] \in S
      BY <1>1
    <2>2. /\ before \in Seq(S) /\ Len(before) = IF 1 <= i - 1 THEN (i - 1) - 1 + 1 ELSE 0
          /\ \A j \in 1..((i - 1) - 1 + 1) : before[j] = s[1 + j - 1]
      BY <1>1, <2>1, SubSeqProperties
    <2>3. (i - 1) - 1 + 1 = i - 1 /\ \A j \in 1..(i - 1) : 1 + j - 1 = j
      BY <1>1
    <2> QED  BY <1>1, <2>2, <2>3
  <1>5. /\ after \in Seq(S) /\ Len(after) = Len(s) - i + 1
        /\ \A j \in 1..(Len(s) - i + 1) : after[j] = s[i + j - 1]
    <2>1. \A j \in i..Len(s) : s[j] \in S
      BY <1>1
    <2>2. /\ after \in Seq(S) /\ Len(after) = IF i <= Len(s) THEN Len(s) - i + 1 ELSE 0
          /\ \A j \in 1..(Len(s) - i + 1) : after[j] = s[i + j - 1]
      BY <1>1, <2>1, SubSeqProperties
    <2> QED  BY <1>1, <2>2
  <1> HIDE DEF before, after
  <1> DEFINE u == before \o <<e>>
             v == u \o after
  <1>6. <<e>> \in Seq(S) /\ Len(<<e>>) = 1 /\ <<e>>[1] = e
    OBVIOUS
  <1>7. /\ u \in Seq(S) /\ Len(u) = i
        /\ \A j \in 1..i : u[j] = IF j < i THEN s[j] ELSE e
    <2>1. /\ u \in Seq(S) /\ Len(u) = Len(before) + Len(<<e>>)
          /\ \A j \in 1..(Len(before) + Len(<<e>>)) :
                u[j] = IF j <= Len(before) THEN before[j] ELSE <<e>>[j - Len(before)]
      BY ONLY <1>4, <1>6, ConcatProperties, Zenon
    <2>2. Len(before) + Len(<<e>>) = i /\ Len(before) = i - 1
      BY <1>1, <1>4, <1>6
    <2>3. \A j \in 1..i : /\ j < i => j <= i - 1 /\ j \in 1..(i - 1)
                          /\ ~(j < i) => ~(j <= i - 1) /\ j - (i - 1) = 1
      BY <1>1
    <2> HIDE DEF u
    <2>4. ASSUME NEW j \in 1..i PROVE u[j] = IF j < i THEN s[j] ELSE e
      <3>1. u[j] = IF j <= i - 1 THEN before[j] ELSE <<e>>[j - (i - 1)]
        BY <2>1, <2>2
      <3> QED  BY <1>4, <1>6, <2>3, <3>1
    <2> QED  BY <2>1, <2>2, <2>4
  <1> HIDE DEF u
  <1>8. /\ v \in Seq(S) /\ Len(v) = Len(s) + 1
        /\ \A j \in 1..(Len(s) + 1) : v[j] = t[j]
    <2>1. /\ v \in Seq(S) /\ Len(v) = Len(u) + Len(after)
          /\ \A j \in 1..(Len(u) + Len(after)) :
                v[j] = IF j <= Len(u) THEN u[j] ELSE after[j - Len(u)]
      BY ONLY <1>5, <1>7, ConcatProperties, Zenon
    <2> HIDE DEF v
    <2>2. Len(u) + Len(after) = Len(s) + 1 /\ Len(u) = i
      BY <1>1, <1>5, <1>7
    <2>3. \A j \in 1..(Len(s) + 1) :
             /\ j <= i => j \in 1..i
             /\ ~(j <= i) => j - i \in 1..(Len(s) - i + 1) /\ i + (j - i) - 1 = j - 1
      BY <1>1
    <2>4. \A j \in 1..(Len(s) + 1) : v[j] = IF j < i THEN s[j] ELSE IF j = i THEN e ELSE s[j - 1]
      <3> TAKE j \in 1..(Len(s) + 1)
      <3>1. CASE j <= i
        BY <1>1, <1>7, <2>1, <2>2, <2>3, <3>1
      <3>2. CASE ~(j <= i)
        <4>1. v[j] = after[j - i]
          BY <2>1, <2>2, <3>2
        <4>2. after[j - i] = s[j - 1]
          BY <1>5, <2>3, <3>2
        <4>3. ~(j < i) /\ j # i
          BY <1>1, <3>2
        <4> QED  BY <4>1, <4>2, <4>3
      <3> QED  BY <3>1, <3>2
    <2> QED  BY <2>1, <2>2, <2>4 DEF With
  <1>9. Abstract!InsertAt(s, i, e) = v
    BY DEF Abstract!InsertAt, before, after, u
  <1> HIDE DEF t, v
  <1>10. v = t
    BY <1>3, <1>8, SeqEqual
  <1> QED  BY <1>3, <1>9, <1>10 DEF t

\* And RemoveAt; Tail takes out the first.
LEMMA WithoutIs ==
    ASSUME NEW S, NEW s \in Seq(S), NEW i \in 1..Len(s)
    PROVE  /\ Without(s, i) \in Seq(S) /\ Len(Without(s, i)) = Len(s) - 1
           /\ Abstract!RemoveAt(s, i) = Without(s, i)
           /\ i = 1 => s # <<>> /\ Tail(s) = Without(s, i)
  <1> DEFINE t == Without(s, i)
             before == SubSeq(s, 1, i - 1)
             after == SubSeq(s, i + 1, Len(s))
  <1>1. Len(s) \in Nat /\ Len(s) - 1 \in Nat /\ \A j \in 1..Len(s) : s[j] \in S
    BY ElementOfSeq, LenProperties
  <1>2. t \in [1..(Len(s) - 1) -> S]
    <2> SUFFICES ASSUME NEW j \in 1..(Len(s) - 1)
                 PROVE  (IF j < i THEN s[j] ELSE s[j + 1]) \in S
      BY DEF Without
    <2>1. j \in 1..Len(s) /\ j + 1 \in 1..Len(s)
      BY <1>1
    <2> QED  BY <1>1, <2>1
  <1>3. t \in Seq(S) /\ Len(t) = Len(s) - 1
    BY <1>1, <1>2, IsASeq, LenProperties
  <1>4. /\ before \in Seq(S) /\ Len(before) = i - 1
        /\ \A j \in 1..(i - 1) : before[j] = s[j]
    <2>1. \A j \in 1..(i - 1) : s[j] \in S
      BY <1>1
    <2>2. /\ before \in Seq(S) /\ Len(before) = IF 1 <= i - 1 THEN (i - 1) - 1 + 1 ELSE 0
          /\ \A j \in 1..((i - 1) - 1 + 1) : before[j] = s[1 + j - 1]
      BY <1>1, <2>1, SubSeqProperties
    <2>3. i \in Int
      BY <1>1
    <2>4. (i - 1) - 1 + 1 = i - 1 /\ \A j \in 1..(i - 1) : 1 + j - 1 = j
      BY ONLY <2>3
    <2> QED  BY <1>1, <2>2, <2>4
  <1>5. /\ after \in Seq(S) /\ Len(after) = Len(s) - i
        /\ \A j \in 1..(Len(s) - i) : after[j] = s[i + j]
    <2>1. \A j \in (i + 1)..Len(s) : s[j] \in S
      BY <1>1
    <2>2. /\ after \in Seq(S) /\ Len(after) = IF i + 1 <= Len(s) THEN Len(s) - (i + 1) + 1 ELSE 0
          /\ \A j \in 1..(Len(s) - (i + 1) + 1) : after[j] = s[(i + 1) + j - 1]
      BY <1>1, <2>1, SubSeqProperties
    <2>3. Len(after) = Len(s) - i /\ Len(s) - (i + 1) + 1 = Len(s) - i
      <3>1. i \in Int /\ Len(s) \in Int /\ i <= Len(s)
        BY <1>1
      <3>2. Len(after) = IF i + 1 <= Len(s) THEN Len(s) - (i + 1) + 1 ELSE 0
        BY <2>2, Zenon
      <3> QED  BY ONLY <3>1, <3>2
    <2>4. \A j \in 1..(Len(s) - i) : after[j] = s[(i + 1) + j - 1]
      BY <2>2, <2>3
    <2>5. \A j \in 1..(Len(s) - i) : (i + 1) + j - 1 = i + j
      BY <1>1
    <2> QED  BY <2>2, <2>3, <2>4, <2>5, Zenon
  <1> HIDE DEF before, after
  <1> DEFINE v == before \o after
  <1>6. /\ v \in Seq(S) /\ Len(v) = Len(s) - 1
        /\ \A j \in 1..(Len(s) - 1) : v[j] = t[j]
    <2>1. /\ v \in Seq(S) /\ Len(v) = Len(before) + Len(after)
          /\ \A j \in 1..(Len(before) + Len(after)) :
                v[j] = IF j <= Len(before) THEN before[j] ELSE after[j - Len(before)]
      BY ONLY <1>4, <1>5, ConcatProperties, Zenon
    <2> HIDE DEF v
    <2>2. Len(before) + Len(after) = Len(s) - 1 /\ Len(before) = i - 1
      BY <1>1, <1>4, <1>5
    <2>3. ASSUME NEW j \in 1..(Len(s) - 1) PROVE v[j] = IF j < i THEN s[j] ELSE s[j + 1]
      <3>1. v[j] = IF j <= i - 1 THEN before[j] ELSE after[j - (i - 1)]
        BY <2>1, <2>2
      <3>2. CASE j < i
        <4>1. j <= i - 1 /\ j \in 1..(i - 1)
          BY <1>1, <3>2
        <4> QED  BY <1>4, <3>1, <3>2, <4>1
      <3>3. CASE ~(j < i)
        <4>1. ~(j <= i - 1) /\ j - (i - 1) \in 1..(Len(s) - i) /\ i + (j - (i - 1)) = j + 1
          BY <1>1, <3>3
        <4>2. after[j - (i - 1)] = s[j + 1]
          BY <1>5, <4>1
        <4> QED  BY <3>1, <3>3, <4>1, <4>2
      <3> QED  BY <3>2, <3>3
    <2> QED  BY <2>1, <2>2, <2>3 DEF Without
  <1>7. Abstract!RemoveAt(s, i) = v
    BY DEF Abstract!RemoveAt, before, after
  <1> HIDE DEF v
  <1>8. ASSUME i = 1 PROVE s # <<>> /\ Tail(s) = t
    <2>1. s # <<>>
      BY <1>1, EmptySeq
    <2>2. /\ Tail(s) \in Seq(S) /\ Len(Tail(s)) = Len(s) - 1
          /\ \A j \in 1..Len(Tail(s)) : Tail(s)[j] = s[j + 1]
      BY <2>1, HeadTailProperties
    <2>3. \A j \in 1..(Len(s) - 1) : t[j] = s[j + 1]
      BY <1>1, <1>8 DEF Without
    <2> HIDE DEF t
    <2> QED  BY <1>3, <2>1, <2>2, <2>3, SeqEqual
  <1> HIDE DEF t
  <1>9. v = t
    BY <1>3, <1>6, SeqEqual
  <1> QED  BY <1>3, <1>7, <1>8, <1>9 DEF t

\* The places after an insertion.
LEMMA WithPlaces ==
    ASSUME NEW s \in Seq(Nodes), NEW index \in 0..Len(s), NEW n \in Nodes
    PROVE  /\ \A j \in 0..index : Place(With(s, index + 1, n), j) = Place(s, j)
           /\ Place(With(s, index + 1, n), index + 1) = n
           /\ \A j \in (index + 2)..(Len(s) + 2) :
                 Place(With(s, index + 1, n), j) = Place(s, j - 1)
  <1> DEFINE t == With(s, index + 1, n)
  <1>1. Len(s) \in Nat
    BY Places
  <1>2. t \in Seq(Nodes) /\ Len(t) = Len(s) + 1
    <2>1. index + 1 \in 1..(Len(s) + 1)
      BY <1>1
    <2> QED  BY <2>1, WithIs, Zenon DEF Inserting
  <1>3. \A j \in 1..(Len(s) + 1) :
           t[j] = IF j < index + 1 THEN s[j] ELSE IF j = index + 1 THEN n ELSE s[j - 1]
    BY DEF With
  <1> HIDE DEF t
  <1>4. ASSUME NEW j \in 0..index PROVE Place(t, j) = Place(s, j)
    <2>1. CASE j = 0
      BY <2>1 DEF Place
    <2>2. CASE j # 0
      <3>1. j \in 1..Len(s) /\ j \in 1..Len(t) /\ j < index + 1
        BY <1>1, <1>2, <2>2
      <3> QED  BY <1>2, <1>3, <2>2, <3>1 DEF Place
    <2> QED  BY <2>1, <2>2
  <1>5. Place(t, index + 1) = n
    <2>1. index + 1 \in 1..Len(t) /\ index + 1 # 0 /\ ~(index + 1 < index + 1)
      BY <1>1, <1>2
    <2> QED  BY <1>2, <1>3, <2>1 DEF Place
  <1>6. ASSUME NEW j \in (index + 2)..(Len(s) + 2) PROVE Place(t, j) = Place(s, j - 1)
    <2>1. j # 0 /\ j - 1 # 0 /\ (j \in 1..Len(t) <=> j - 1 \in 1..Len(s)) /\ ~(j < index + 1) /\ j # index + 1
      BY <1>1, <1>2
    <2> QED  BY <1>2, <1>3, <2>1 DEF Place
  <1> QED  BY <1>4, <1>5, <1>6 DEF t

\* The places after an erasure.
LEMMA WithoutPlaces ==
    ASSUME NEW s \in Seq(Nodes), NEW index \in 0..(Len(s) - 1)
    PROVE  /\ \A j \in 0..index : Place(Without(s, index + 1), j) = Place(s, j)
           /\ \A j \in (index + 1)..Len(s) : Place(Without(s, index + 1), j) = Place(s, j + 1)
  <1> DEFINE t == Without(s, index + 1)
  <1>1. Len(s) \in Nat
    BY Places
  <1>2. t \in Seq(Nodes) /\ Len(t) = Len(s) - 1
    <2>1. index + 1 \in 1..Len(s)
      BY <1>1
    <2> QED  BY <2>1, WithoutIs
  <1>3. \A j \in 1..(Len(s) - 1) : t[j] = IF j < index + 1 THEN s[j] ELSE s[j + 1]
    BY DEF Without
  <1> HIDE DEF t
  <1>4. ASSUME NEW j \in 0..index PROVE Place(t, j) = Place(s, j)
    <2>1. CASE j = 0
      BY <2>1 DEF Place
    <2>2. CASE j # 0
      <3>1. j \in 1..Len(s) /\ j \in 1..Len(t) /\ j < index + 1
        BY <1>1, <1>2, <2>2
      <3> QED  BY <1>2, <1>3, <2>2, <3>1 DEF Place
    <2> QED  BY <2>1, <2>2
  <1>5. ASSUME NEW j \in (index + 1)..Len(s) PROVE Place(t, j) = Place(s, j + 1)
    <2>1. j # 0 /\ j + 1 # 0 /\ (j \in 1..Len(t) <=> j + 1 \in 1..Len(s)) /\ ~(j < index + 1)
      BY <1>1, <1>2
    <2> QED  BY <1>2, <1>3, <2>1 DEF Place
  <1> QED  BY <1>4, <1>5 DEF t

-----------------------------------------------------------------------------
(* What a walk along the list meets. *)

\* A set of numbers has a least one: induction, without an operator for it.
LEMMA LeastNumber ==
    ASSUME NEW T \in SUBSET Nat, T # {}
    PROVE  \E n \in T : \A m \in T : n <= m
  <1> DEFINE R == OpToRel(<, Nat)
  <1>1. IsWellFoundedOn(R, Nat)
    BY NatLessThanWellFounded
  <1>2. R = {ss \in Nat \X Nat : ss[1] < ss[2]}
    BY DEF OpToRel
  <1> HIDE DEF R
  <1>3. PICK n \in T : \A m \in T : ~ (<<m, n>> \in R)
    BY <1>1, WFMin
  <1>4. \A m \in T : ~ (m < n)
    BY <1>2, <1>3
  <1> QED  BY <1>3, <1>4

\* f goes along the pointers from the meta node.
Walks(f) ==
    f = [i \in Nat |-> IF i = 0 THEN Meta ELSE IF f[i - 1] = NULL THEN NULL ELSE next[f[i - 1]]]

\* There is one such way.
LEMMA OneWalk ==
    ASSUME NEW f, NEW g, Walks(f), Walks(g)
    PROVE  f = g
  <1> DEFINE T == {i \in Nat : f[i] # g[i]}
  <1>1. \A i \in Nat : i # 0 =>
          /\ f[i] = IF f[i - 1] = NULL THEN NULL ELSE next[f[i - 1]]
          /\ g[i] = IF g[i - 1] = NULL THEN NULL ELSE next[g[i - 1]]
    BY DEF Walks
  <1>2. f[0] = g[0]
    BY DEF Walks
  <1>3. T = {}
    <2> SUFFICES ASSUME T # {} PROVE FALSE
      OBVIOUS
    <2>1. PICK m \in T : \A i \in T : m <= i
      BY LeastNumber
    <2>2. m \in Nat /\ m # 0 /\ m - 1 \in Nat /\ ~(m <= m - 1)
      BY <1>2
    <2>3. f[m - 1] = g[m - 1]
      BY <2>1, <2>2
    <2> QED  BY <1>1, <2>2, <2>3
  <1>4. \A i \in Nat : f[i] = g[i]
    BY <1>3
  <1>5. f = [i \in Nat |-> f[i]] /\ g = [i \in Nat |-> g[i]]
    BY DEF Walks
  <1> QED  BY <1>4, <1>5

\* So the node before an index is at the place of that number.
LEMMA WalkMeets ==
    ASSUME NEW s \in Seq(Nodes), ListOf(s)
    PROVE  \A i \in Nat : Before(i) = Place(s, i)
  <1> DEFINE f == [i \in Nat |-> Place(s, i)]
  <1>1. Len(s) \in Nat
    BY Places
  <1>2. Walks(f)
    <2> SUFFICES ASSUME NEW i \in Nat
                 PROVE  f[i] = IF i = 0 THEN Meta
                               ELSE IF f[i - 1] = NULL THEN NULL ELSE next[f[i - 1]]
      BY DEF Walks
    <2>1. CASE i = 0
      BY <2>1, Places
    <2>2. CASE i # 0
      <3>1. i - 1 \in Nat /\ (i - 1) + 1 = i
        BY <2>2
      <3>2. f[i] = Place(s, i) /\ f[i - 1] = Place(s, i - 1)
        BY <3>1
      <3>3. CASE i - 1 \in 0..Len(s)
        <4>1. next[Place(s, i - 1)] = Place(s, i)
          BY <3>1, <3>3 DEF ListOf
        <4> QED  BY <2>2, <3>2, <3>3, <4>1, Places
      <3>4. CASE i - 1 \notin 0..Len(s)
        <4>1. i \notin 0..Len(s)
          BY <1>1, <3>1, <3>4
        <4> QED  BY <2>2, <3>2, <3>4, <4>1, Places
      <3> QED  BY <3>3, <3>4
    <2> QED  BY <2>1, <2>2
  <1> HIDE DEF f
  <1> DEFINE walk == CHOOSE g : Walks(g)
  <1>3. Walks(walk)
    BY <1>2
  <1>4. walk = f
    BY <1>2, <1>3, OneWalk
  <1>5. \A i \in Nat : Before(i) = walk[i]
    BY DEF Before, Walks
  <1> QED  BY <1>4, <1>5 DEF f

\* The list holds as many nodes as it is long.
LEMMA HeldCount ==
    ASSUME NEW s \in Seq(Nodes), ListOf(s)
    PROVE  /\ Cardinality(Held(s)) = Len(s)
           /\ Len(s) \in 0..Cardinality(Nodes) /\ Cardinality(Nodes) \in Nat
  <1>1. Len(s) \in Nat
    BY Places
  <1>2. Held(s) \subseteq Nodes
    BY Places DEF Held
  <1>3. IsFiniteSet(Held(s)) /\ Cardinality(Held(s)) <= Cardinality(Nodes) /\ Cardinality(Nodes) \in Nat
    BY <1>2, ListAssumption, FS_Subset, FS_CardinalityType
  <1>4. s \in Injection(1..Len(s), Held(s)) /\ s \in Surjection(1..Len(s), Held(s))
    <2>1. s \in [1..Len(s) -> Held(s)]
      BY LenProperties DEF Held
    <2>2. \A i, j \in 1..Len(s) : s[i] = s[j] => i = j
      BY DEF ListOf
    <2>3. \A h \in Held(s) : \E i \in 1..Len(s) : s[i] = h
      BY DEF Held
    <2> QED  BY <2>1, <2>2, <2>3 DEF Injection, Surjection, IsInjective
  <1>5. IsFiniteSet(1..Len(s)) /\ Cardinality(1..Len(s)) = Len(s)
    <2>0. 1 \in Int /\ Len(s) \in Int
      BY <1>1
    <2>1. IsFiniteSet(1..Len(s)) /\ Cardinality(1..Len(s)) = IF 1 > Len(s) THEN 0 ELSE Len(s) - 1 + 1
      BY ONLY <2>0, FS_Interval, Zenon
    <2> QED  BY <1>1, <2>1
  <1>6. Cardinality(Held(s)) = Len(s)
    BY <1>4, <1>5, FS_Surjection
  <1> QED  BY <1>1, <1>3, <1>6

\* What AbstractList sees of a list.
Seen(s) == [i \in 1..Len(s) |-> buffer[s[i]]]

\* An iteration meets the list.
LEMMA ChainIs ==
    ASSUME NEW s \in Seq(Nodes), ListOf(s)
    PROVE  Chain = s /\ [i \in DOMAIN Chain |-> buffer[Chain[i]]] = Seen(s)
  <1> DEFINE met == {i \in 1..Cardinality(Nodes) : Before(i) # NULL}
  <1>1. Len(s) \in 0..Cardinality(Nodes) /\ Cardinality(Nodes) \in Nat /\ Len(s) \in Nat
    BY HeldCount, Places
  <1>2. \A i \in 1..Cardinality(Nodes) : i \in Nat /\ (i \in 0..Len(s) <=> i \in 1..Len(s))
    BY <1>1
  <1>3. met = 1..Len(s)
    <2>1. \A i \in 1..Cardinality(Nodes) : Before(i) # NULL <=> i \in 1..Len(s)
      BY <1>2, WalkMeets, Places
    <2>2. \A i \in 1..Len(s) : i \in 1..Cardinality(Nodes)
      BY <1>1
    <2> QED  BY <2>1, <2>2
  <1>4. \A i \in 1..Len(s) : i \in Nat /\ Before(i) = s[i]
    BY <1>1, WalkMeets, Places
  <1>5. Chain = [i \in met |-> Before(i)]
    BY DEF Chain
  <1>6. s = [i \in 1..Len(s) |-> s[i]] /\ DOMAIN s = 1..Len(s)
    BY LenProperties
  <1> HIDE DEF met
  <1>7. Chain = s
    BY <1>3, <1>4, <1>5, <1>6
  <1> QED  BY <1>6, <1>7 DEF Seen

-----------------------------------------------------------------------------
(* One node more, and one less. *)

Typed == Elements \cup {NULL}

\* What AbstractList sees is a sequence.
LEMMA SeenIs ==
    ASSUME TypeOK, NEW s \in Seq(Nodes)
    PROVE  /\ Seen(s) \in Seq(Typed) /\ Len(Seen(s)) = Len(s)
           /\ \A i \in 1..Len(s) : Seen(s)[i] = buffer[s[i]]
  <1>1. Len(s) \in Nat /\ \A i \in 1..Len(s) : buffer[s[i]] \in Typed
    BY Places DEF TypeOK, Typed
  <1>2. Seen(s) \in [1..Len(s) -> Typed]
    BY <1>1 DEF Seen
  <1> QED  BY <1>1, <1>2, IsASeq, LenProperties DEF Seen

\* A node linked behind the one before an index; tail follows at the end.
LEMMA InsertStep ==
    ASSUME TypeOK, NEW s \in Seq(Nodes), Shape(s), NEW index \in 0..len,
           NEW n \in Nodes \ allocated, NEW e \in Elements,
           Linked(n, Place(s, index), Place(s, index + 1), e),
           tail' = IF end' # "kept" THEN Meta ELSE IF index = len THEN n ELSE tail,
           end' = "kept" /\ index # len => end = "kept"
    PROVE  /\ TypeOK'
           /\ \E t \in Seq(Nodes) : /\ Shape(t)' /\ Len(t) = Len(s) + 1
                                    /\ Seen(t)' = Abstract!InsertAt(Seen(s), index + 1, e)
  <1> DEFINE t == With(s, index + 1, n)
             p == Place(s, index)
  <1>1. Len(s) \in Nat /\ index \in 0..Len(s) /\ index + 1 \in 1..(Len(s) + 1) /\ len = Len(s)
    BY Places DEF Shape
  <1>2. /\ t \in Seq(Nodes) /\ Len(t) = Len(s) + 1
        /\ \A j \in 1..Len(t) :
              t[j] = IF j < index + 1 THEN s[j] ELSE IF j = index + 1 THEN n ELSE s[j - 1]
    BY <1>1, WithIs DEF Inserting, With
  <1>3. /\ \A j \in 0..index : Place(t, j) = Place(s, j)
        /\ Place(t, index + 1) = n
        /\ \A j \in (index + 2)..(Len(s) + 2) : Place(t, j) = Place(s, j - 1)
    BY <1>1, WithPlaces
  <1> HIDE DEF t
  <1>4. /\ n \in Nodes /\ \A j \in 1..Len(s) : s[j] # n
        /\ \A j \in 0..Len(s) : Place(s, j) # n
    <2>1. \A j \in 1..Len(s) : s[j] # n
      BY DEF Shape, Held
    <2>2. \A j \in 0..Len(s) : j = 0 \/ j \in 1..Len(s)
      BY <1>1
    <2> QED  BY <2>1, <2>2, Places, ListAssumption
  <1>5. ListOf(s) /\ p \in Nodes \cup {Meta} /\ p # n
    BY <1>1, <1>4, Places DEF Shape
  <1>6. /\ next' = [next EXCEPT ![n] = next[p], ![p] = n]
        /\ buffer' = [buffer EXCEPT ![n] = e]
        /\ allocated' = allocated \cup {n} /\ len' = len + 1
    <2>1. next[p] = Place(s, index + 1)
      BY <1>1, <1>5 DEF ListOf
    <2> QED  BY <2>1 DEF Linked
  <1>7. TypeOK'
    <2>1. next[p] \in Nodes \cup {NULL}
      BY <1>5 DEF TypeOK
    <2> HIDE DEF p
    <2>2. next' \in [Nodes \cup {Meta} -> Nodes \cup {NULL}]
      BY <1>4, <1>5, <1>6, <2>1 DEF TypeOK
    <2>3. buffer' \in [Nodes -> Elements \cup {NULL}]
      BY <1>6 DEF TypeOK
    <2> QED  BY <2>2, <2>3 DEF TypeOK
  <1>8. /\ next'[n] = next[p] /\ next'[p] = n
        /\ \A m \in Nodes \cup {Meta} : m # n /\ m # p => next'[m] = next[m]
    <2> HIDE DEF p
    <2> QED  BY <1>4, <1>5, <1>6 DEF TypeOK
  <1>9. \A j \in 0..Len(t) : next'[Place(t, j)] = Place(t, j + 1)
    <2> TAKE j \in 0..Len(t)
    <2>1. CASE j < index
      <3>1. j \in 0..index /\ j + 1 \in 0..index /\ j \in 0..Len(s) /\ j # index
        BY <1>1, <1>2, <2>1
      <3>2. Place(s, j) # p /\ Place(s, j) # n /\ Place(s, j) \in Nodes \cup {Meta}
        BY <1>1, <1>4, <1>5, <3>1, Places, PlacesDiffer
      <3>3. next[Place(s, j)] = Place(s, j + 1)
        BY <1>5, <3>1 DEF ListOf
      <3> QED  BY <1>3, <1>8, <3>1, <3>2, <3>3
    <2>2. CASE j = index
      <3>1. j \in 0..index
        BY <1>1, <2>2
      <3> QED  BY <1>3, <1>8, <2>2, <3>1
    <2>3. CASE j = index + 1
      <3>1. next[p] = Place(s, index + 1)
        BY <1>1, <1>5 DEF ListOf
      <3>2. j + 1 \in (index + 2)..(Len(s) + 2) /\ (j + 1) - 1 = index + 1
        BY <1>1, <1>2, <2>3
      <3>3. Place(t, j + 1) = Place(s, index + 1)
        BY <1>3, <3>2
      <3> QED  BY <1>3, <1>8, <2>3, <3>1, <3>3
    <2>4. CASE j > index + 1
      <3>1. /\ j \in (index + 2)..(Len(s) + 2) /\ j + 1 \in (index + 2)..(Len(s) + 2)
            /\ j - 1 \in 0..Len(s) /\ j - 1 # index /\ (j + 1) - 1 = (j - 1) + 1
        BY <1>1, <1>2, <2>4
      <3>2. Place(t, j) = Place(s, j - 1) /\ Place(t, j + 1) = Place(s, (j - 1) + 1)
        BY <1>3, <3>1
      <3>3. Place(s, j - 1) # p /\ Place(s, j - 1) # n /\ Place(s, j - 1) \in Nodes \cup {Meta}
        BY <1>1, <1>4, <1>5, <3>1, Places, PlacesDiffer
      <3>4. next[Place(s, j - 1)] = Place(s, (j - 1) + 1)
        BY <1>5, <3>1 DEF ListOf
      <3> QED  BY <1>8, <3>2, <3>3, <3>4
    <2> QED  BY <1>1, <1>2, <2>1, <2>2, <2>3, <2>4
  <1>10. ASSUME NEW i \in 1..Len(t), NEW j \in 1..Len(t), t[i] = t[j]
         PROVE  i = j
    <2> DEFINE from(k) == IF k < index + 1 THEN k ELSE k - 1
    <2>1. \A k \in 1..Len(t) : k # index + 1 => from(k) \in 1..Len(s) /\ t[k] = s[from(k)]
      BY <1>1, <1>2
    <2>2. t[index + 1] = n /\ \A k \in 1..Len(t) : k # index + 1 => t[k] # n
      BY <1>1, <1>2, <1>4, <2>1
    <2>3. CASE i = index + 1 \/ j = index + 1
      BY <1>10, <2>2, <2>3
    <2>4. CASE i # index + 1 /\ j # index + 1
      <3>1. from(i) = from(j)
        BY <1>5, <1>10, <2>1, <2>4 DEF ListOf
      <3> QED  BY <1>1, <1>2, <2>4, <3>1
    <2> QED  BY <2>3, <2>4
  <1>11. allocated' = Held(t)
    <2>1. ASSUME NEW j \in 1..Len(s) PROVE \E k \in 1..Len(t) : t[k] = s[j]
      <3>1. CASE j < index + 1
        <4>1. j \in 1..Len(t)
          BY <1>1, <1>2
        <4> QED  BY <1>2, <3>1, <4>1
      <3>2. CASE ~(j < index + 1)
        <4>1. j + 1 \in 1..Len(t) /\ ~(j + 1 < index + 1) /\ j + 1 # index + 1 /\ (j + 1) - 1 = j
          BY <1>1, <1>2, <3>2
        <4> QED  BY <1>2, <4>1
      <3> QED  BY <3>1, <3>2
    <2>2. index + 1 \in 1..Len(t) /\ t[index + 1] = n
      BY <1>1, <1>2
    <2>3. ASSUME NEW k \in 1..Len(t) PROVE t[k] = n \/ \E j \in 1..Len(s) : t[k] = s[j]
      <3>1. (k < index + 1 => k \in 1..Len(s)) /\ (~(k < index + 1) /\ k # index + 1 => k - 1 \in 1..Len(s))
        BY <1>1, <1>2
      <3> QED  BY <1>2, <3>1
    <2>4. allocated' = Held(s) \cup {n}
      BY <1>6 DEF Shape
    <2>5. ASSUME NEW m \in Held(s) \cup {n} PROVE m \in Held(t)
      BY <2>1, <2>2, <2>5 DEF Held
    <2>6. ASSUME NEW m \in Held(t) PROVE m \in Held(s) \cup {n}
      BY <2>3, <2>6 DEF Held
    <2> QED  BY <2>4, <2>5, <2>6
  <1>12. len' = Len(t) /\ tail' = IF end' = "kept" THEN Place(t, Len(t)) ELSE Meta
    <2>0. CASE end' # "kept"
      BY <1>1, <1>2, <1>6, <2>0
    <2>1. CASE index = len
      BY <1>1, <1>2, <1>3, <1>6, <2>1
    <2>2. CASE index # len
      <3>1. Len(t) \in (index + 2)..(Len(s) + 2) /\ Len(t) - 1 = Len(s)
        BY <1>1, <1>2, <2>2
      <3>2. Place(t, Len(t)) = Place(s, Len(s))
        BY <1>3, <3>1
      <3> QED  BY <1>1, <1>2, <1>6, <2>2, <3>2 DEF Shape
    <2> QED  BY <2>0, <2>1, <2>2
  <1>13. Shape(t)'
    BY <1>9, <1>10, <1>11, <1>12 DEF Shape, ListOf, Place, Held
  <1>14. Seen(t)' = Abstract!InsertAt(Seen(s), index + 1, e)
    <2> DEFINE u == Seen(s)
               w == With(u, index + 1, e)
    <2>1. u \in Seq(Typed) /\ Len(u) = Len(s) /\ \A i \in 1..Len(s) : u[i] = buffer[s[i]]
      BY SeenIs
    <2>2. e \in Typed
      BY DEF Typed
    <2> HIDE DEF u
    <2>3. Abstract!InsertAt(u, index + 1, e) = w
      <3>1. index + 1 \in 1..(Len(u) + 1)
        BY <1>1, <2>1
      <3> QED  BY <2>1, <2>2, <3>1, WithIs, Zenon DEF Inserting
    <2>4. w = [j \in 1..(Len(s) + 1) |->
                  IF j < index + 1 THEN u[j] ELSE IF j = index + 1 THEN e ELSE u[j - 1]]
      BY <2>1 DEF With
    <2>5. Seen(t)' = [j \in 1..(Len(s) + 1) |-> buffer'[t[j]]]
      BY <1>2 DEF Seen
    <2>6. buffer'[n] = e /\ \A m \in Nodes : m # n => buffer'[m] = buffer[m]
      BY <1>6 DEF TypeOK
    <2>7. ASSUME NEW j \in 1..(Len(s) + 1)
          PROVE  buffer'[t[j]] = IF j < index + 1 THEN u[j] ELSE IF j = index + 1 THEN e ELSE u[j - 1]
      <3>1. CASE j < index + 1
        <4>1. j \in 1..Len(s) /\ t[j] = s[j]
          BY <1>1, <1>2, <3>1
        <4> QED  BY <1>4, <2>1, <2>6, <3>1, <4>1, Places
      <3>2. CASE j = index + 1
        BY <1>1, <1>2, <2>6, <3>2
      <3>3. CASE ~(j < index + 1) /\ j # index + 1
        <4>1. j - 1 \in 1..Len(s) /\ t[j] = s[j - 1]
          BY <1>1, <1>2, <3>3
        <4> QED  BY <1>4, <2>1, <2>6, <3>3, <4>1, Places
      <3> QED  BY <3>1, <3>2, <3>3
    <2> HIDE DEF w
    <2>8. Seen(t)' = w
      BY <2>4, <2>5, <2>7
    <2> QED  BY <2>3, <2>8 DEF u
  <1> QED  BY <1>2, <1>7, <1>13, <1>14

\* A node unlinked and freed; tail goes back if it was the last.
LEMMA EraseStep ==
    ASSUME TypeOK, end \in {"kept", "behind"}, NEW s \in Seq(Nodes), Shape(s),
           NEW index \in 0..(len - 1), list_erase(index)
    PROVE  /\ TypeOK' /\ end' \in {"kept", "behind"}
           /\ \E t \in Seq(Nodes) : /\ Shape(t)' /\ Len(t) = Len(s) - 1
                                    /\ Seen(t)' = Abstract!RemoveAt(Seen(s), index + 1)
                                    /\ index = 0 => Seen(s) # <<>> /\ Seen(t)' = Tail(Seen(s))
  <1> DEFINE t == Without(s, index + 1)
             p == Place(s, index)
             c == Place(s, index + 1)
  <1>1. Len(s) \in Nat /\ index \in 0..(Len(s) - 1) /\ index + 1 \in 1..Len(s) /\ len = Len(s)
    BY Places DEF Shape
  <1>2. /\ t \in Seq(Nodes) /\ Len(t) = Len(s) - 1
        /\ \A j \in 1..Len(t) : t[j] = IF j < index + 1 THEN s[j] ELSE s[j + 1]
    BY <1>1, WithoutIs DEF Without
  <1>3. /\ \A j \in 0..index : Place(t, j) = Place(s, j)
        /\ \A j \in (index + 1)..Len(s) : Place(t, j) = Place(s, j + 1)
    BY <1>1, WithoutPlaces
  <1> HIDE DEF t
  <1>4. ListOf(s)
    BY DEF Shape
  <1>5. /\ index \in 0..Len(s) /\ index + 1 \in 0..Len(s) /\ index \in Nat
        /\ p \in Nodes \cup {Meta} /\ c = s[index + 1] /\ c \in Nodes /\ p # c /\ next[p] = c
    <2>1. index \in 0..Len(s) /\ index + 1 \in 0..Len(s) /\ index # index + 1
      BY <1>1
    <2>2. p # c
      BY <1>4, <2>1, PlacesDiffer
    <2>3. c = s[index + 1] /\ c \in Nodes
      BY <1>1, Places
    <2> QED  BY <1>1, <1>4, <2>1, <2>2, <2>3, Places DEF ListOf
  <1>6. /\ next' = [next EXCEPT ![p] = next[c]] /\ buffer' = buffer
        /\ allocated' = allocated \ {c} /\ len' = len - 1
        /\ tail' = IF index = len - 1 THEN p ELSE tail
        /\ end' = IF index = len - 1 THEN "kept" ELSE end
    <2>1. Before(index) = p /\ Before(index + 1) = c
      BY <1>4, <1>5, WalkMeets
    <2> QED  BY <1>5, <2>1, ListAssumption DEF list_erase
  <1>7. TypeOK'
    <2>1. next[c] \in Nodes \cup {NULL}
      BY <1>5 DEF TypeOK
    <2> HIDE DEF p, c
    <2> QED  BY <1>5, <1>6, <2>1 DEF TypeOK
  <1>8. /\ next'[p] = next[c]
        /\ \A m \in Nodes \cup {Meta} : m # p => next'[m] = next[m]
    <2> HIDE DEF p, c
    <2> QED  BY <1>5, <1>6 DEF TypeOK
  <1>9. \A j \in 0..Len(t) : next'[Place(t, j)] = Place(t, j + 1)
    <2> TAKE j \in 0..Len(t)
    <2>1. CASE j < index
      <3>1. j \in 0..index /\ j + 1 \in 0..index /\ j \in 0..Len(s) /\ j # index
        BY <1>1, <1>2, <2>1
      <3>2. Place(s, j) # p /\ Place(s, j) \in Nodes \cup {Meta}
        BY <1>4, <1>5, <3>1, Places, PlacesDiffer
      <3>3. next[Place(s, j)] = Place(s, j + 1)
        BY <1>4, <3>1 DEF ListOf
      <3> QED  BY <1>3, <1>8, <3>1, <3>2, <3>3
    <2>2. CASE j = index
      <3>1. j \in 0..index /\ index + 1 \in (index + 1)..Len(s)
        BY <1>1, <2>2
      <3>2. next[c] = Place(s, (index + 1) + 1)
        BY <1>4, <1>5 DEF ListOf
      <3> QED  BY <1>3, <1>8, <2>2, <3>1, <3>2
    <2>3. CASE j > index
      <3>1. /\ j \in (index + 1)..Len(s) /\ j + 1 \in (index + 1)..Len(s)
            /\ j + 1 \in 0..Len(s) /\ j + 1 # index
        BY <1>1, <1>2, <2>3
      <3>2. Place(t, j) = Place(s, j + 1) /\ Place(t, j + 1) = Place(s, (j + 1) + 1)
        BY <1>3, <3>1
      <3>3. Place(s, j + 1) # p /\ Place(s, j + 1) \in Nodes \cup {Meta}
        BY <1>4, <1>5, <3>1, Places, PlacesDiffer
      <3>4. next[Place(s, j + 1)] = Place(s, (j + 1) + 1)
        BY <1>4, <3>1 DEF ListOf
      <3> QED  BY <1>8, <3>2, <3>3, <3>4
    <2> QED  BY <1>1, <1>2, <2>1, <2>2, <2>3
  <1> DEFINE from(k) == IF k < index + 1 THEN k ELSE k + 1
  <1>10. \A k \in 1..Len(t) : from(k) \in 1..Len(s) /\ from(k) # index + 1 /\ t[k] = s[from(k)]
    BY <1>1, <1>2
  <1>11. ASSUME NEW i \in 1..Len(t), NEW j \in 1..Len(t), t[i] = t[j]
         PROVE  i = j
    <2>1. from(i) = from(j)
      BY <1>4, <1>10, <1>11 DEF ListOf
    <2> QED  BY <1>1, <1>2, <2>1
  <1>12. allocated' = Held(t)
    <2>1. ASSUME NEW j \in 1..Len(s), j # index + 1 PROVE \E k \in 1..Len(t) : t[k] = s[j]
      <3>1. CASE j < index + 1
        <4>1. j \in 1..Len(t)
          BY <1>1, <1>2, <3>1
        <4> QED  BY <1>2, <3>1, <4>1
      <3>2. CASE ~(j < index + 1)
        <4>1. j - 1 \in 1..Len(t) /\ ~(j - 1 < index + 1) /\ (j - 1) + 1 = j
          BY <1>1, <1>2, <2>1, <3>2
        <4> QED  BY <1>2, <4>1
      <3> QED  BY <3>1, <3>2
    <2>2. ASSUME NEW k \in 1..Len(t) PROVE t[k] # c /\ \E j \in 1..Len(s) : t[k] = s[j]
      BY <1>1, <1>4, <1>5, <1>10 DEF ListOf
    <2>3. allocated' = Held(s) \ {c}
      BY <1>6 DEF Shape
    <2>4. \A m : m \in Held(s) \ {c} => m \in Held(t)
      BY <1>5, <2>1 DEF Held
    <2>5. \A m : m \in Held(t) => m \in Held(s) \ {c}
      BY <2>2 DEF Held
    <2> QED  BY <2>3, <2>4, <2>5
  <1>13. len' = Len(t) /\ tail' = IF end' = "kept" THEN Place(t, Len(t)) ELSE Meta
    <2>1. CASE index = len - 1
      <3>1. Len(t) = index /\ index \in 0..index
        BY <1>1, <1>2, <2>1
      <3> QED  BY <1>1, <1>3, <1>6, <2>1, <3>1
    <2>2. CASE index # len - 1
      <3>1. Len(t) \in (index + 1)..Len(s) /\ Len(t) + 1 = Len(s)
        BY <1>1, <1>2, <2>2
      <3>2. Place(t, Len(t)) = Place(s, Len(s))
        BY <1>3, <3>1
      <3> QED  BY <1>1, <1>2, <1>6, <2>2, <3>2 DEF Shape
    <2> QED  BY <2>1, <2>2
  <1>14. Shape(t)'
    BY <1>9, <1>11, <1>12, <1>13 DEF Shape, ListOf, Place, Held
  <1>15. /\ Seen(t)' = Abstract!RemoveAt(Seen(s), index + 1)
         /\ index = 0 => Seen(s) # <<>> /\ Seen(t)' = Tail(Seen(s))
    <2> DEFINE u == Seen(s)
               w == Without(u, index + 1)
    <2>1. u \in Seq(Typed) /\ Len(u) = Len(s) /\ \A i \in 1..Len(s) : u[i] = buffer[s[i]]
      BY SeenIs
    <2> HIDE DEF u
    <2>2. /\ Abstract!RemoveAt(u, index + 1) = w
          /\ index = 0 => u # <<>> /\ Tail(u) = w
      BY <1>1, <2>1, WithoutIs
    <2>3. w = [j \in 1..(Len(s) - 1) |-> IF j < index + 1 THEN u[j] ELSE u[j + 1]]
      BY <2>1 DEF Without
    <2>4. Seen(t)' = [j \in 1..(Len(s) - 1) |-> buffer[t[j]]]
      BY <1>2, <1>6 DEF Seen
    <2>5. ASSUME NEW j \in 1..(Len(s) - 1)
          PROVE  buffer[t[j]] = IF j < index + 1 THEN u[j] ELSE u[j + 1]
      <3>1. from(j) \in 1..Len(s) /\ t[j] = s[from(j)]
        BY <1>2, <1>10
      <3> QED  BY <2>1, <3>1
    <2> HIDE DEF w
    <2>6. Seen(t)' = w
      BY <2>3, <2>4, <2>5
    <2> QED  BY <2>2, <2>6 DEF u
  <1>16. end' \in {"kept", "behind"}
    BY <1>6
  <1> QED  BY <1>2, <1>7, <1>14, <1>15, <1>16

-----------------------------------------------------------------------------
(* The refinement. *)

Elems == [i \in DOMAIN Chain |-> buffer[Chain[i]]]

SeenRight ==
    TypeOK => \A s \in Seq(Nodes) : Shape(s) =>
                 /\ Elems = Seen(s) /\ Len(Seen(s)) = Len(s)
                 /\ len = Len(s) /\ Cardinality(allocated) = Len(s)

\* What AbstractList has for a list.
LEMMA AbstractIs == SeenRight
  BY ChainIs, HeldCount, SeenIs DEF SeenRight, Shape, Elems

\* A call of push or insert puts one element in, at its index, or finds tail
\* behind.
LEMMA InsertInserts ==
    ASSUME TypeOK, end \in {"kept", "behind"}, NEW s \in Seq(Nodes), Shape(s),
           PushBack \/ PushFront \/ Insert
    PROVE  end' = "lost" \/ (Inv' /\ Abstract!Next)
  <1> SUFFICES ASSUME end' # "lost" PROVE Inv' /\ Abstract!Next
    OBVIOUS
  <1>1. /\ Len(s) \in Nat /\ len = Len(s) /\ ListOf(s)
        /\ tail = IF end = "kept" THEN Place(s, Len(s)) ELSE Meta
    BY Places DEF Shape
  <1>2. PICK index \in 0..len, n \in Nodes \ allocated, e \in Elements :
           /\ Call("insert", index, e)
           /\ Linked(n, Place(s, index), Place(s, index + 1), e)
           /\ tail' = IF end' # "kept" THEN Meta ELSE IF index = len THEN n ELSE tail
           /\ end' = "kept" /\ index # len => end = "kept"
           /\ end' \in {"kept", "behind"}
    <2>1. 0 \in 0..len /\ len \in 0..len
      BY <1>1
    <2>2. ASSUME NEW n, NEW e, list_push_back(n, e)
          PROVE  /\ Linked(n, Place(s, len), Place(s, len + 1), e)
                 /\ tail' = n /\ end' = "kept" /\ end = "kept"
      <3>1. end = "kept" /\ end' = "kept"
        BY <2>2 DEF list_push_back
      <3>2. tail = Place(s, len) /\ Place(s, len + 1) = NULL
        <4>1. len + 1 \notin 0..Len(s)
          BY <1>1
        <4> QED  BY <1>1, <3>1, <4>1, Places
      <3> QED  BY <2>2, <3>1, <3>2 DEF list_push_back
    <2>3. ASSUME NEW n, NEW e, list_push_front(n, e)
          PROVE  /\ Linked(n, Place(s, 0), Place(s, 0 + 1), e)
                 /\ tail' = IF end' # "kept" THEN Meta ELSE IF 0 = len THEN n ELSE tail
                 /\ end' = "kept" /\ 0 # len => end = "kept"
                 /\ end' \in {"kept", "behind"}
      <3>1. next[Meta] = Place(s, 0 + 1) /\ Place(s, 0) = Meta
        <4>1. 0 \in 0..Len(s)
          BY <1>1
        <4> QED  BY <1>1, <4>1, Places DEF ListOf
      <3>2. Linked(n, Place(s, 0), Place(s, 0 + 1), e)
        BY <2>3, <3>1 DEF list_push_front
      <3>3. /\ tail' = tail
            /\ end' = IF len = 0 /\ end = "kept" THEN "behind" ELSE end
        BY <2>3 DEF list_push_front
      <3>4. len = 0 => tail = Meta
        BY <1>1, <3>1
      <3> QED  BY <1>1, <3>2, <3>3, <3>4
    <2>4. CASE PushBack
      <3>1. PICK n \in Nodes \ allocated, e \in Elements :
               Call("insert", len, e) /\ list_push_back(n, e)
        BY <2>4 DEF PushBack
      <3>2. /\ Linked(n, Place(s, len), Place(s, len + 1), e)
            /\ tail' = n /\ end' = "kept" /\ end = "kept"
        BY <2>2, <3>1
      <3> QED  BY <2>1, <3>1, <3>2
    <2>5. CASE PushFront
      <3>1. PICK n \in Nodes \ allocated, e \in Elements :
               Call("insert", 0, e) /\ list_push_front(n, e)
        BY <2>5 DEF PushFront
      <3>2. /\ Linked(n, Place(s, 0), Place(s, 0 + 1), e)
            /\ tail' = IF end' # "kept" THEN Meta ELSE IF 0 = len THEN n ELSE tail
            /\ end' = "kept" /\ 0 # len => end = "kept"
            /\ end' \in {"kept", "behind"}
        BY <2>3, <3>1
      <3> QED  BY <2>1, <3>1, <3>2
    <2>6. CASE Insert
      <3>1. PICK index \in 0..len, n \in Nodes \ allocated, e \in Elements :
               Call("insert", index, e) /\ list_insert(index, n, e)
        BY <2>6 DEF Insert
      <3>2. CASE index = 0 /\ list_push_front(n, e)
        <4>1. /\ Linked(n, Place(s, 0), Place(s, 0 + 1), e)
              /\ tail' = IF end' # "kept" THEN Meta ELSE IF 0 = len THEN n ELSE tail
              /\ end' = "kept" /\ 0 # len => end = "kept"
              /\ end' \in {"kept", "behind"}
          BY <2>3, <3>2
        <4> QED  BY <3>1, <3>2, <4>1
      <3>3. CASE index = len /\ list_push_back(n, e)
        <4>1. /\ Linked(n, Place(s, len), Place(s, len + 1), e)
              /\ tail' = n /\ end' = "kept" /\ end = "kept"
          BY <2>2, <3>3
        <4> QED  BY <3>1, <3>3, <4>1
      <3>4. CASE /\ index # 0 /\ index # len /\ Before(index) # NULL
                 /\ Linked(n, Before(index), next[Before(index)], e) /\ UNCHANGED <<tail, end>>
        <4>1. index \in Nat /\ index \in 0..Len(s)
          BY <1>1
        <4>2. Before(index) = Place(s, index) /\ next[Before(index)] = Place(s, index + 1)
          BY <1>1, <4>1, WalkMeets DEF ListOf
        <4>3. Linked(n, Place(s, index), Place(s, index + 1), e)
          BY <3>4, <4>2
        <4>4. tail' = IF end' # "kept" THEN Meta ELSE IF index = len THEN n ELSE tail
          BY <1>1, <3>4
        <4> QED  BY <3>1, <3>4, <4>3, <4>4
      <3> QED  BY <3>1, <3>2, <3>3, <3>4 DEF list_insert
    <2> QED  BY <2>4, <2>5, <2>6
  <1>3. TypeOK' /\ \E t \in Seq(Nodes) :
           /\ Shape(t)' /\ Len(t) = Len(s) + 1
           /\ Seen(t)' = Abstract!InsertAt(Seen(s), index + 1, e)
    BY <1>2, InsertStep
  <1>4. PICK t \in Seq(Nodes) :
           /\ Shape(t)' /\ Len(t) = Len(s) + 1
           /\ Seen(t)' = Abstract!InsertAt(Seen(s), index + 1, e)
    BY <1>3
  <1>5. Elems = Seen(s) /\ Len(Seen(s)) = Len(s)
    BY AbstractIs DEF SeenRight
  <1>6. Elems' = Seen(t)' /\ len' = Len(t) /\ Cardinality(allocated)' = Len(t) /\ Len(Seen(t)') = Len(t)
    <2>1. SeenRight' /\ TypeOK'
      BY <1>3, AbstractIs, PTL
    <2> QED  BY <1>4, <2>1 DEF SeenRight
  <1>7. Inv'
    BY <1>2, <1>3, <1>4 DEF Inv, Sound
  <1>8. Abstract!Insert(index, e)
    <2>1. called' = <<"insert", index, e>>
      BY <1>2 DEF Call
    <2>2. Seen(t)' = Abstract!InsertAt(Elems, index + 1, e)
      BY <1>4, <1>5
    <2>3. Abstract!Becomes(Abstract!InsertAt(Elems, index + 1, e))
      BY <1>6, <2>2 DEF Abstract!Becomes, Elems
    <2> QED  BY <2>1, <2>3 DEF Abstract!Insert, Elems
  <1>9. index \in 0..Len(Elems) /\ ~Clearing
    BY <1>1, <1>2, <1>5 DEF Call
  <1> QED  BY <1>7, <1>8, <1>9 DEF Abstract!Next, Abstract!Clearing, Clearing, Elems

\* A call of erase takes one out, and so does a turn of list_clear's loop.
LEMMA EraseErases ==
    ASSUME TypeOK, end \in {"kept", "behind"}, NEW s \in Seq(Nodes), Shape(s), Erase \/ ClearLoop
    PROVE  Inv' /\ Abstract!Next
  <1>1. Len(s) \in Nat /\ len = Len(s)
    BY Places DEF Shape
  <1>2. Elems = Seen(s) /\ Len(Seen(s)) = Len(s)
    BY AbstractIs DEF SeenRight
  <1>3. ASSUME NEW index \in 0..(len - 1), list_erase(index)
        PROVE  /\ Inv' /\ Abstract!Becomes(Abstract!RemoveAt(Elems, index + 1))
               /\ index = 0 => Elems # <<>> /\ Abstract!Becomes(Tail(Elems))
    <2>1. TypeOK' /\ end' \in {"kept", "behind"} /\ \E t \in Seq(Nodes) :
             /\ Shape(t)' /\ Len(t) = Len(s) - 1
             /\ Seen(t)' = Abstract!RemoveAt(Seen(s), index + 1)
             /\ index = 0 => Seen(s) # <<>> /\ Seen(t)' = Tail(Seen(s))
      BY <1>3, EraseStep
    <2>2. PICK t \in Seq(Nodes) :
             /\ Shape(t)' /\ Len(t) = Len(s) - 1
             /\ Seen(t)' = Abstract!RemoveAt(Seen(s), index + 1)
             /\ index = 0 => Seen(s) # <<>> /\ Seen(t)' = Tail(Seen(s))
      BY <2>1
    <2>3. SeenRight'
      BY AbstractIs, PTL
    <2>4. Elems' = Seen(t)' /\ len' = Len(t) /\ Cardinality(allocated)' = Len(t) /\ Len(Seen(t)') = Len(t)
      BY <2>1, <2>2, <2>3 DEF SeenRight
    <2>5. Inv'
      BY <2>1, <2>2 DEF Inv, Sound
    <2> QED  BY <1>2, <2>2, <2>4, <2>5 DEF Abstract!Becomes, Elems
  <1>4. CASE Erase
    <2>1. PICK index \in 0..(len - 1) : called' = <<"erase", index>> /\ list_erase(index) /\ ~Clearing
      BY <1>4 DEF Erase
    <2>2. index \in 0..(Len(Elems) - 1)
      BY <1>1, <1>2
    <2>3. Inv' /\ Abstract!Erase(index)
      BY <1>3, <2>1 DEF Abstract!Erase, Elems
    <2> QED  BY <2>1, <2>2, <2>3 DEF Abstract!Next, Abstract!Clearing, Clearing, Elems
  <1>5. CASE ClearLoop
    <2>1. CASE len # 0
      <3>1. 0 \in 0..(len - 1) /\ list_erase(0) /\ UNCHANGED called /\ Clearing
        BY <1>1, <1>5, <2>1 DEF ClearLoop
      <3>2. Inv' /\ Abstract!ClearFirst
        BY <1>3, <3>1 DEF Abstract!ClearFirst, Elems
      <3> QED  BY <3>1, <3>2 DEF Abstract!Next, Abstract!Clearing, Clearing
    <2>2. CASE len = 0
      <3>1. called' = <<"cleared">> /\ UNCHANGED <<list, end>> /\ Clearing
        BY <1>5, <2>2 DEF ClearLoop
      <3>2. Elems = <<>>
        BY <1>1, <1>2, <2>2, SeenIs, EmptySeq
      <3>3. UNCHANGED <<Elems, len, Cardinality(allocated)>>
        BY <3>1 DEF Elems, Chain, Before
      <3>4. Inv'
        BY <3>1 DEF Inv, Sound, TypeOK, Shape, ListOf
      <3> QED  BY <3>1, <3>2, <3>3, <3>4
               DEF Abstract!Next, Abstract!Clearing, Abstract!Cleared, Clearing, Elems
    <2> QED  BY <2>1, <2>2
  <1> QED  BY <1>4, <1>5

\* A look-up answers the element, or that there is none; a wrong step is not
\* taken.
LEMMA IndexOfAnswers ==
    ASSUME TypeOK, NEW s \in Seq(Nodes), Shape(s), IndexOf
    PROVE  \E index \in 0..Len(Elems) : /\ ~Clearing
              /\ called' = <<"index_of", index,
                             IF index < Len(Elems) THEN Elems[index + 1] ELSE Nothing>>
  <1>1. Len(s) \in Nat /\ len = Len(s) /\ ListOf(s)
    BY Places DEF Shape
  <1>2. /\ Elems = Seen(s) /\ Len(Seen(s)) = Len(s)
        /\ \A i \in 1..Len(s) : Seen(s)[i] = buffer[s[i]]
    BY AbstractIs, SeenIs DEF SeenRight
  <1>3. PICK index \in 0..len : Call("index_of", index, list_index_of(index))
    BY DEF IndexOf
  <1>4. Before(index + 1) = Place(s, index + 1)
    <2>1. index + 1 \in Nat
      BY <1>1
    <2> QED  BY <1>1, <2>1, WalkMeets
  <1>5. list_index_of(index) = IF index < Len(Elems) THEN Elems[index + 1] ELSE Nothing
    <2>1. CASE index < len
      <3>1. index + 1 \in 1..Len(s)
        BY <1>1, <2>1
      <3>2. Before(index + 1) = s[index + 1] /\ s[index + 1] # NULL
        BY <1>4, <3>1, Places, ListAssumption
      <3> QED  BY <1>1, <1>2, <2>1, <3>1, <3>2 DEF list_index_of
    <2>2. CASE ~(index < len)
      BY <1>1, <1>2, <2>2 DEF list_index_of
    <2> QED  BY <2>1, <2>2
  <1> QED  BY <1>1, <1>2, <1>3, <1>5 DEF Call

LEMMA NoMisstep ==
    ASSUME end \in {"kept", "behind"}, NEW s \in Seq(Nodes), Shape(s)
    PROVE  ~Misstep
  <1>1. Len(s) \in Nat /\ len = Len(s) /\ ListOf(s)
    BY Places DEF Shape
  <1>2. tail \in allocated \cup {Meta}
    <2>1. Place(s, Len(s)) = Meta \/ Place(s, Len(s)) \in Held(s)
      BY <1>1 DEF Place, Held
    <2> QED  BY <2>1 DEF Shape
  <1>3. ASSUME NEW index \in 1..(len - 1) PROVE Before(index) # NULL
    <2>1. index \in Nat /\ index \in 0..Len(s)
      BY <1>1
    <2> QED  BY <1>1, <2>1, WalkMeets, Places
  <1> QED  BY <1>2, <1>3 DEF Misstep

\* Every step keeps the list, and is one of AbstractList's, until tail is
\* found behind.
LEMMA Step == Inv /\ [Next]_vars => Inv' /\ [Abstract!Next \/ end' = "lost"]_Abstract!vars
  <1> SUFFICES ASSUME Inv, [Next]_vars PROVE Inv' /\ [Abstract!Next \/ end' = "lost"]_Abstract!vars
    OBVIOUS
  <1>1. CASE end = "lost"
    <2>1. end' = "lost"
      BY <1>1 DEF Next, vars, PushBack, PushFront, Insert, Misstep, NoMemory, Erase, IndexOf, Clear,
                  ClearLoop, list_push_back, list_push_front, list_insert, list_erase
    <2>2. Inv'
      BY <2>1 DEF Inv
    <2> QED  BY <2>1, <2>2
  <1>2. CASE end # "lost"
    <2>1. PICK s \in Seq(Nodes) : TypeOK /\ end \in {"kept", "behind"} /\ Shape(s)
      BY <1>2 DEF Inv, Sound
    <2>2. CASE Clear \/ NoMemory \/ IndexOf \/ UNCHANGED vars
      <3>1. UNCHANGED <<list, end>>
        BY <2>2 DEF Clear, NoMemory, IndexOf, vars
      <3>2. UNCHANGED <<Elems, len, Cardinality(allocated)>>
        BY <3>1 DEF Elems, Chain, Before
      <3>3. Inv'
        BY <2>1, <3>1 DEF Inv, Sound, TypeOK, Shape, ListOf
      <3>4. CASE IndexOf
        <4>1. PICK index \in 0..Len(Elems) : /\ ~Clearing
                 /\ called' = <<"index_of", index,
                                IF index < Len(Elems) THEN Elems[index + 1] ELSE Nothing>>
          BY <2>1, <3>4, IndexOfAnswers
        <4>2. Abstract!IndexOf(index)
          BY <3>2, <4>1 DEF Abstract!IndexOf, Elems
        <4> QED  BY <3>3, <4>1, <4>2 DEF Abstract!Next, Abstract!Clearing, Clearing, Elems
      <3>5. CASE Clear \/ NoMemory \/ UNCHANGED vars
        <4>1. Abstract!Next \/ UNCHANGED called
          BY <3>2, <3>5 DEF Clear, NoMemory, vars, Abstract!Next, Abstract!Clear, Abstract!Clearing, Clearing, Elems
        <4> QED  BY <3>2, <3>3, <4>1 DEF Abstract!vars, Elems
      <3> QED  BY <2>2, <3>4, <3>5
    <2>3. CASE PushBack \/ PushFront \/ Insert
      <3>1. end' = "lost" \/ (Inv' /\ Abstract!Next)
        BY <2>1, <2>3, InsertInserts
      <3>2. end' = "lost" => Inv'
        BY DEF Inv
      <3> QED  BY <3>1, <3>2
    <2>4. CASE Erase \/ ClearLoop
      BY <2>1, <2>4, EraseErases
    <2>5. ~Misstep
      BY <2>1, NoMisstep
    <2> QED  BY <2>2, <2>3, <2>4, <2>5 DEF Next
  <1> QED  BY <1>1, <1>2

\* It starts empty.
LEMMA Start == list_init => Inv /\ Abstract!Init
  <1> SUFFICES ASSUME list_init PROVE Inv /\ Abstract!Init
    OBVIOUS
  <1> DEFINE s == <<>>
  <1>1. s \in Seq(Nodes) /\ Len(s) = 0
    BY EmptySeq
  <1>2. TypeOK
    BY DEF list_init, TypeOK
  <1> HIDE DEF s
  <1>3. \A i \in 1..Len(s) : FALSE
    BY <1>1
  <1>4. Shape(s)
    <2>1. Place(s, 0) = Meta /\ Place(s, 1) = NULL
      BY <1>1, <1>3 DEF Place
    <2>2. \A i \in 0..Len(s) : i = 0 /\ i + 1 = 1
      BY <1>1
    <2>3. ListOf(s)
      BY <1>3, <2>1, <2>2 DEF list_init, ListOf
    <2>4. Held(s) = {}
      BY <1>3 DEF Held
    <2> QED  BY <1>1, <2>1, <2>3, <2>4 DEF list_init, Shape
  <1>5. Elems = Seen(s) /\ Len(Seen(s)) = 0 /\ len = 0 /\ Cardinality(allocated) = 0
    BY <1>1, <1>2, <1>4, AbstractIs DEF SeenRight
  <1>6. Elems = <<>>
    BY <1>1, <1>2, <1>5, SeenIs, EmptySeq
  <1> QED  BY <1>1, <1>2, <1>4, <1>5, <1>6 DEF Inv, Sound, Abstract!Init, list_init, Elems

\* list.c: whatever is pushed, inserted, erased, looked up and cleared, in any
\* order, an iteration meets the elements of a sequence treated alike,
\* list_size is its length and no block is lost: until list_push_back follows a
\* list_push_front that put the first element in, with no erasure of the last
\* element between them.
THEOREM ListImplements == Spec => SequenceUnlessLost
  <1> QED  BY Start, Step, PTL DEF Spec, SequenceUnlessLost
=============================================================================
