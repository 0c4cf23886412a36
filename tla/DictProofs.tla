----------------------------- MODULE DictProofs -----------------------------
(***************************************************************************)
(* What TLAPS proves of Dict, for any keys, values, readers and addresses: *)
(* the chains are sound at every moment, no look-up leaves them, nothing   *)
(* allocated is lost, and the whole implements KeyValue.  All of it comes  *)
(* from one invariant: for each bucket there is a sequence of nodes that   *)
(* its chain is, and the calls in progress stand somewhere on it.          *)
(***************************************************************************)
EXTENDS Dict, SequenceTheorems, FiniteSetTheorems, WellFoundedInduction, TLAPS

USE DEF mode

-----------------------------------------------------------------------------
(* The chains, as sequences of nodes. *)

Place(s, i) == IF i \in 1..Len(s) THEN s[i] ELSE NULL

HasKey(s, k) == \E i \in 1..Len(s) : mem[s[i]].key = k

\* The chain of bucket b is s, and belongs there.
ChainOf(b, s) ==
    /\ table[b].next = Place(s, 1)
    /\ \A i \in 1..Len(s) : /\ mem[s[i]] \in Elem
                            /\ _dict_index(mem[s[i]].key) = b
                            /\ mem[s[i]].next = Place(s, i + 1)
    /\ \A i, j \in 1..Len(s) : mem[s[i]].key = mem[s[j]].key => i = j

Chains(ch) == \A b \in Buckets : ChainOf(b, ch[b])

\* A walk along s that is at n, at its end if that is NULL.
Along(n, s) == \E i \in 1..(Len(s) + 1) : n = Place(s, i)

-----------------------------------------------------------------------------
(* Where the calls are. *)

\* Nothing goes on once the table is destroyed, and only the calls that may
\* be shared go on side by side.
Modes ==
    /\ destroyed => Quiet
    /\ ~shared => writer = None \/ \A r \in Readers : reader[r] = None

\* The writer's key is in no chain while the walk has not passed it, or when
\* its element has been taken out; c tells whether one was.
WriterOn(s) ==
    /\ writer.bucket = _dict_index(writer.key)
    /\ shared => /\ writer.value # Absent
                 /\ writer.pc \in {"malloc", "walk"} => ~HasKey(s, writer.key)
                 /\ writer.pc # "free"
                 /\ writer.pc \in {"fill", "link", "head"} => writer.c = NULL
    /\ writer.value = Absent => writer.pc \in {"walk", "free"} /\ writer.elem = NULL
    /\ writer.pc = "malloc" => writer.elem = NULL /\ writer.p = NULL
    /\ writer.pc = "walk" =>
          \E i \in 1..(Len(s) + 1) : /\ writer.c = Place(s, i) /\ writer.p = Place(s, i - 1)
                                     /\ \A j \in 1..(i - 1) : mem[s[j]].key # writer.key
    /\ writer.pc = "free" =>
          writer.c \in Nodes /\ mem[writer.c] \in Elem /\ mem[writer.c].key = writer.key
    /\ writer.pc \in {"free", "fill", "link", "head"} => ~HasKey(s, writer.key)

\* The new element, which nobody else knows before it is at the head.
ElementOn(s) ==
    /\ writer.pc \in {"walk", "free", "fill"} /\ writer.value # Absent =>
          writer.elem \in Nodes /\ mem[writer.elem] = Raw
    /\ writer.pc \in {"link", "head"} =>
          /\ writer.elem \in Nodes
          /\ mem[writer.elem] =
                [key |-> writer.key, value |-> writer.value,
                 next |-> IF writer.pc = "link" THEN Raw ELSE table[writer.bucket].next]
    /\ writer.pc = "size" => s # <<>> /\ writer.elem = s[1]

Writing(ch) == writer # None => WriterOn(ch[writer.bucket]) /\ ElementOn(ch[writer.bucket])

Reading(ch) ==
    \A r \in Readers : reader[r] # None /\ reader[r].pc = "walk" =>
        Along(reader[r].c, ch[_dict_index(reader[r].key)])

-----------------------------------------------------------------------------
(* What is allocated, and counted. *)

\* The bucket is counted up after its element is at the head, and not down
\* when one is taken out.
Sized(ch) ==
    \A b \in Buckets :
        Len(ch[b]) <= table[b].size
                      + IF writer # None /\ writer.pc = "size" /\ writer.bucket = b THEN 1 ELSE 0

InHand(n) == writer # None /\ (n = writer.elem \/ (n = writer.c /\ writer.pc = "free"))

Kept(ch) ==
    \A n \in Nodes : mem[n] # Free =>
        InHand(n) \/ \E b \in Buckets : \E i \in 1..Len(ch[b]) : ch[b][i] = n

DictInv(ch) == Chains(ch) /\ Writing(ch) /\ Reading(ch) /\ Sized(ch) /\ Kept(ch)

Inv == TypeOK /\ Modes /\ \E ch \in [Buckets -> Seq(Nodes)] : DictInv(ch)
-----------------------------------------------------------------------------
(* Lemmas about sequences. *)

\* Each key has its bucket.
LEMMA IndexInRange == \A k \in Keys : _dict_index(k) \in Buckets
  <1> TAKE k \in Keys
  <1>1. hash_func[k] \in Nat /\ Size \in Nat /\ Size > 0
    BY DictAssumption
  <1> QED  BY <1>1 DEF _dict_index, Buckets

\* Where a chain has elements, and where it ends.
LEMMA Places ==
    ASSUME NEW s \in Seq(Nodes)
    PROVE  /\ Len(s) \in Nat
           /\ \A i \in 1..Len(s) : s[i] \in Nodes /\ Place(s, i) = s[i] /\ Place(s, i) # NULL
           /\ \A i : i \notin 1..Len(s) => Place(s, i) = NULL
           /\ \A i : Place(s, i) \in Nodes \cup {NULL}
  <1>1. Len(s) \in Nat /\ \A i \in 1..Len(s) : s[i] \in Nodes
    BY ElementOfSeq, LenProperties
  <1> QED  BY <1>1, DictAssumption DEF Place

\* A node put before a chain.
Before(n, s) == [j \in 1..(Len(s) + 1) |-> IF j = 1 THEN n ELSE s[j - 1]]

\* It is one longer, and the places move up by one.
LEMMA BeforeIs ==
    ASSUME NEW s \in Seq(Nodes), NEW n \in Nodes
    PROVE  /\ Before(n, s) \in Seq(Nodes) /\ Len(Before(n, s)) = Len(s) + 1
           /\ Before(n, s)[1] = n /\ Place(Before(n, s), 1) = n
           /\ \A i \in 1..Len(s) : Before(n, s)[i + 1] = s[i]
           /\ \A i \in 2..Len(Before(n, s)) : Before(n, s)[i] = s[i - 1] /\ i - 1 \in 1..Len(s)
           /\ \A i \in 1..(Len(s) + 1) : Place(Before(n, s), i + 1) = Place(s, i)
  <1> DEFINE t == Before(n, s)
  <1>1. Len(s) \in Nat /\ \A i \in 1..Len(s) : s[i] \in Nodes
    BY Places
  <1>2. t \in [1..(Len(s) + 1) -> Nodes]
    <2> SUFFICES ASSUME NEW j \in 1..(Len(s) + 1)
                 PROVE  (IF j = 1 THEN n ELSE s[j - 1]) \in Nodes
      BY DEF Before
    <2>1. j = 1 \/ j - 1 \in 1..Len(s)
      BY <1>1
    <2> QED  BY <1>1, <2>1
  <1>3. t \in Seq(Nodes) /\ Len(t) = Len(s) + 1
    BY <1>1, <1>2, IsASeq, LenProperties
  <1>4. \A i \in 1..(Len(s) + 1) : t[i] = IF i = 1 THEN n ELSE s[i - 1]
    BY DEF Before
  <1>5. t[1] = n
    BY <1>1, <1>4
  <1>6. \A i \in 1..Len(s) : t[i + 1] = s[i]
    <2> TAKE i \in 1..Len(s)
    <2>1. i + 1 \in 1..(Len(s) + 1) /\ i + 1 # 1 /\ (i + 1) - 1 = i
      BY <1>1
    <2>2. t[i + 1] = s[(i + 1) - 1]
      BY <1>4, <2>1
    <2> QED  BY <2>1, <2>2
  <1>7. \A i \in 2..Len(t) : t[i] = s[i - 1] /\ i - 1 \in 1..Len(s)
    <2> TAKE i \in 2..Len(t)
    <2>1. i \in 1..(Len(s) + 1) /\ i # 1 /\ i - 1 \in 1..Len(s)
      BY <1>1, <1>3
    <2> QED  BY <1>4, <2>1
  <1>8. \A i \in 1..(Len(s) + 1) : Place(t, i + 1) = Place(s, i)
    <2> TAKE i \in 1..(Len(s) + 1)
    <2>1. i + 1 \in 1..Len(t) <=> i \in 1..Len(s)
      BY <1>1, <1>3
    <2> QED  BY <1>6, <2>1 DEF Place
  <1>9. Place(t, 1) = n
    <2>1. 1 \in 1..Len(t)
      BY <1>1, <1>3
    <2> QED  BY <1>5, <2>1 DEF Place
  <1> HIDE DEF t
  <1> QED  BY <1>3, <1>5, <1>6, <1>7, <1>8, <1>9 DEF t

\* A chain with a node taken out.
Without(s, i) == [j \in 1..(Len(s) - 1) |-> IF j < i THEN s[j] ELSE s[j + 1]]

\* It is one shorter, and the places after the node move down by one.
LEMMA WithoutIs ==
    ASSUME NEW s \in Seq(Nodes), NEW i \in 1..Len(s)
    PROVE  /\ Without(s, i) \in Seq(Nodes) /\ Len(Without(s, i)) = Len(s) - 1
           /\ \A j \in 1..Len(Without(s, i)) :
                 /\ j < i => Without(s, i)[j] = s[j] /\ j \in 1..Len(s)
                 /\ ~(j < i) => Without(s, i)[j] = s[j + 1] /\ j + 1 \in 1..Len(s)
           /\ \A j : /\ j \in 1..(i - 1) => Place(Without(s, i), j) = Place(s, j)
                     /\ j \in i..Len(s) => Place(Without(s, i), j) = Place(s, j + 1)
           /\ \A j \in 1..Len(s) : j # i => \E k \in 1..Len(Without(s, i)) : Without(s, i)[k] = s[j]
  <1> DEFINE t == Without(s, i)
  <1>1. Len(s) \in Nat /\ Len(s) - 1 \in Nat /\ \A j \in 1..Len(s) : s[j] \in Nodes
    BY Places
  <1>2. \A j \in 1..(Len(s) - 1) : /\ j \in 1..Len(s) /\ j + 1 \in 1..Len(s)
                                   /\ t[j] = IF j < i THEN s[j] ELSE s[j + 1]
    BY <1>1 DEF Without
  <1>3. t \in [1..(Len(s) - 1) -> Nodes]
    <2> SUFFICES ASSUME NEW j \in 1..(Len(s) - 1)
                 PROVE  (IF j < i THEN s[j] ELSE s[j + 1]) \in Nodes
      BY DEF Without
    <2> QED  BY <1>1, <1>2
  <1>4. t \in Seq(Nodes) /\ Len(t) = Len(s) - 1
    BY <1>1, <1>3, IsASeq, LenProperties
  <1> HIDE DEF t
  <1>5. \A j \in 1..(i - 1) : Place(t, j) = Place(s, j)
    <2> TAKE j \in 1..(i - 1)
    <2>1. j \in 1..(Len(s) - 1) /\ j < i
      BY <1>1
    <2> QED  BY <1>2, <1>4, <2>1 DEF Place
  <1>6. \A j \in i..Len(s) : Place(t, j) = Place(s, j + 1)
    <2> TAKE j \in i..Len(s)
    <2>1. CASE j = Len(s)
      <3>1. j \notin 1..Len(t) /\ j + 1 \notin 1..Len(s)
        BY <1>1, <1>4, <2>1
      <3> QED  BY <3>1 DEF Place
    <2>2. CASE j # Len(s)
      <3>1. j \in 1..Len(t) /\ ~(j < i)
        BY <1>1, <1>4, <2>2
      <3> QED  BY <1>2, <1>4, <3>1 DEF Place
    <2> QED  BY <2>1, <2>2
  <1>7. \A j \in 1..Len(s) : j # i => \E k \in 1..Len(t) : t[k] = s[j]
    <2> SUFFICES ASSUME NEW j \in 1..Len(s), j # i
                 PROVE  \E k \in 1..Len(t) : t[k] = s[j]
      OBVIOUS
    <2>1. CASE j < i
      <3>1. j \in 1..Len(t)
        BY <1>1, <1>4, <2>1
      <3> QED  BY <1>2, <1>4, <2>1, <3>1
    <2>2. CASE ~(j < i)
      <3>1. j - 1 \in 1..Len(t) /\ ~(j - 1 < i) /\ (j - 1) + 1 = j
        BY <1>1, <1>4, <2>2
      <3> QED  BY <1>2, <1>4, <3>1
    <2> QED  BY <2>1, <2>2
  <1>8. \A j \in 1..Len(t) : /\ j < i => t[j] = s[j] /\ j \in 1..Len(s)
                             /\ ~(j < i) => t[j] = s[j + 1] /\ j + 1 \in 1..Len(s)
    BY <1>2, <1>4
  <1> QED  BY <1>4, <1>5, <1>6, <1>7, <1>8 DEF t

-----------------------------------------------------------------------------
(* The chains as At walks them, and what Lookup finds in them. *)

\* A set of numbers has a least one: induction, without an operator for it.
LEMMA LeastNumber ==
    ASSUME NEW T \in SUBSET Nat, T # {}
    PROVE  \E n \in T : \A m \in T : n <= m
  <1> DEFINE R == OpToRel(<, Nat)
  <1>1. IsWellFoundedOn(R, Nat)
    BY NatLessThanWellFounded
  <1>2. R = {ss \in Nat \X Nat : ss[1] < ss[2]}
    BY DEF OpToRel
  <1> HIDE DEF R
  <1>3. PICK n \in T : \A m \in T : ~ (<<m, n>> \in R)
    BY <1>1, WFMin
  <1>4. \A m \in T : ~ (m < n)
    BY <1>2, <1>3
  <1> QED  BY <1>3, <1>4

\* f goes from n along the pointers.
Goes(f, n) ==
    f = [j \in Nat |-> IF j = 0 THEN n
                       ELSE IF f[j - 1] \in Filled THEN mem[f[j - 1]].next ELSE NULL]

\* There is one way from a node.
LEMMA OneWay ==
    ASSUME NEW f, NEW g, NEW n, Goes(f, n), Goes(g, n)
    PROVE  f = g
  <1> DEFINE T == {j \in Nat : f[j] # g[j]}
  <1>1. \A j \in Nat : j # 0 =>
          /\ f[j] = IF f[j - 1] \in Filled THEN mem[f[j - 1]].next ELSE NULL
          /\ g[j] = IF g[j - 1] \in Filled THEN mem[g[j - 1]].next ELSE NULL
    BY DEF Goes
  <1>2. f[0] = g[0]
    BY DEF Goes
  <1>3. T = {}
    <2> SUFFICES ASSUME T # {} PROVE FALSE
      OBVIOUS
    <2>1. PICK m \in T : \A j \in T : m <= j
      BY LeastNumber
    <2>2. m \in Nat /\ m # 0 /\ m - 1 \in Nat /\ ~(m <= m - 1)
      BY <1>2
    <2>3. f[m - 1] = g[m - 1]
      BY <2>1, <2>2
    <2> QED  BY <1>1, <2>2, <2>3
  <1>4. \A j \in Nat : f[j] = g[j]
    BY <1>3
  <1>5. f = [j \in Nat |-> f[j]] /\ g = [j \in Nat |-> g[j]]
    BY DEF Goes
  <1> QED  BY <1>4, <1>5

\* The elements of a chain are filled in, and are different.
LEMMA ChainNodes ==
    ASSUME TypeOK, NEW b, NEW s \in Seq(Nodes), ChainOf(b, s)
    PROVE  /\ \A i \in 1..Len(s) : s[i] \in Filled
           /\ \A i, j \in 1..Len(s) : s[i] = s[j] => i = j
           /\ NULL \notin Filled
  BY Places, DictAssumption DEF ChainOf, Filled

\* From an element of a chain At goes along the chain.
LEMMA AtWalks ==
    ASSUME TypeOK, NEW b, NEW s \in Seq(Nodes), ChainOf(b, s), NEW i \in 1..(Len(s) + 1)
    PROVE  \A j \in Nat : At(Place(s, i), j) = Place(s, i + j)
  <1> DEFINE n == Place(s, i)
             f == [j \in Nat |-> Place(s, i + j)]
  <1>1. Len(s) \in Nat /\ i \in Nat
    BY Places
  <1>2. Goes(f, n)
    <2> SUFFICES ASSUME NEW j \in Nat
                 PROVE  f[j] = IF j = 0 THEN n
                               ELSE IF f[j - 1] \in Filled THEN mem[f[j - 1]].next ELSE NULL
      BY DEF Goes
    <2>1. CASE j = 0
      BY <1>1, <2>1
    <2>2. CASE j # 0
      <3> DEFINE m == i + (j - 1)
      <3>1. m \in Nat /\ m >= 1 /\ j - 1 \in Nat /\ i + j = m + 1
        BY <1>1, <2>2
      <3>2. f[j] = Place(s, m + 1) /\ f[j - 1] = Place(s, m)
        BY <3>1
      <3>3. CASE m \in 1..Len(s)
        <4>1. Place(s, m) = s[m] /\ s[m] \in Filled
          BY <3>3, Places, ChainNodes
        <4>2. mem[s[m]].next = Place(s, m + 1)
          BY <3>3 DEF ChainOf
        <4> QED  BY <2>2, <3>2, <4>1, <4>2
      <3>4. CASE m \notin 1..Len(s)
        <4>1. m + 1 \notin 1..Len(s)
          BY <1>1, <3>1, <3>4
        <4>2. Place(s, m) = NULL /\ Place(s, m + 1) = NULL
          BY <3>4, <4>1 DEF Place
        <4> QED  BY <2>2, <3>2, <4>2, ChainNodes
      <3> QED  BY <3>3, <3>4
    <2> QED  BY <2>1, <2>2
  <1> HIDE DEF f
  <1> DEFINE at == CHOOSE g : Goes(g, n)
  <1>3. Goes(at, n)
    BY <1>2
  <1>4. at = f
    BY <1>2, <1>3, OneWay
  <1>5. \A j \in Nat : At(n, j) = at[j]
    BY DEF At, Goes
  <1> QED  BY <1>4, <1>5 DEF f

\* A chain is no longer than there are nodes.
LEMMA ChainFits ==
    ASSUME TypeOK, NEW b, NEW s \in Seq(Nodes), ChainOf(b, s)
    PROVE  Len(s) \in 0..Cardinality(Nodes) /\ Cardinality(Nodes) \in Nat
  <1>1. Len(s) \in Nat
    BY Places
  <1>2. s \in Injection(1..Len(s), Nodes)
    <2>1. s \in [1..Len(s) -> Nodes]
      BY LenProperties
    <2>2. \A i, j \in 1..Len(s) : s[i] = s[j] => i = j
      BY ChainNodes
    <2> QED  BY <2>1, <2>2 DEF Injection, IsInjective
  <1>3. Cardinality(1..Len(s)) <= Cardinality(Nodes)
    BY <1>2, DictAssumption, FS_Injection
  <1>4. Cardinality(1..Len(s)) = Len(s)
    <2>0. 1 \in Int /\ Len(s) \in Int
      BY <1>1
    <2>1. Cardinality(1..Len(s)) = IF 1 > Len(s) THEN 0 ELSE Len(s) - 1 + 1
      BY ONLY <2>0, FS_Interval, Zenon
    <2> QED  BY <1>1, <2>1
  <1>5. Cardinality(Nodes) \in Nat
    BY DictAssumption, FS_CardinalityType
  <1> QED  BY <1>1, <1>3, <1>4, <1>5

\* What is read from the i-th place of s on.
Told(s, i) ==
    /\ Chain(Place(s, i)) = {s[j] : j \in i..Len(s)}
    /\ Ends(Place(s, i))
    /\ \A k \in Keys :
          /\ (\A j \in i..Len(s) : mem[s[j]].key # k) => Lookup(Place(s, i), k) = Absent
          /\ \A j \in i..Len(s) :
                mem[s[j]].key = k => Lookup(Place(s, i), k) = mem[s[j]].value

Readable ==
    TypeOK => \A b \in Buckets : \A s \in Seq(Nodes) :
                ChainOf(b, s) => \A i \in 1..(Len(s) + 1) : Told(s, i)

\* A chain reads as the sequence it is.
LEMMA ChainsRead == Readable
  <1> SUFFICES ASSUME TypeOK, NEW b \in Buckets, NEW s \in Seq(Nodes), ChainOf(b, s),
                      NEW i \in 1..(Len(s) + 1)
               PROVE  Told(s, i)
    BY DEF Readable
  <1> DEFINE n == Place(s, i)
             N == Cardinality(Nodes)
  <1>1. Len(s) \in 0..N /\ N \in Nat /\ Len(s) \in Nat /\ i \in Nat /\ i >= 1
    BY ChainFits, Places
  <1>2. \A j \in Nat : At(n, j) = Place(s, i + j)
    BY AtWalks
  <1>3. Chain(n) = {s[j] : j \in i..Len(s)}
    <2>1. ASSUME NEW m \in Chain(n) PROVE m \in {s[j] : j \in i..Len(s)}
      <3>1. PICK j \in 0..N : m = At(n, j) /\ m # NULL
        BY DEF Chain
      <3>2. m = Place(s, i + j)
        BY <1>1, <1>2, <3>1
      <3>3. i + j \in 1..Len(s) /\ m = s[i + j]
        BY <3>1, <3>2 DEF Place
      <3>4. i + j \in i..Len(s)
        BY <1>1, <3>3
      <3> QED  BY <3>3, <3>4
    <2>2. ASSUME NEW j \in i..Len(s) PROVE s[j] \in Chain(n)
      <3>1. j \in 1..Len(s) /\ j - i \in 0..N /\ i + (j - i) = j
        BY <1>1
      <3>2. At(n, j - i) = Place(s, j)
        BY <1>1, <1>2, <3>1
      <3>3. Place(s, j) = s[j] /\ s[j] # NULL
        BY <3>1, Places
      <3> QED  BY <3>1, <3>2, <3>3 DEF Chain
    <2> QED  BY <2>1, <2>2
  <1>4. Ends(n)
    <2>1. At(n, N) = NULL
      <3>1. i + N \notin 1..Len(s)
        BY <1>1
      <3> QED  BY <1>1, <1>2, <3>1 DEF Place
    <2>2. Chain(n) \subseteq Filled
      <3>1. \A j \in i..Len(s) : j \in 1..Len(s)
        BY <1>1
      <3> QED  BY <1>3, <3>1, ChainNodes
    <2> QED  BY <2>1, <2>2 DEF Ends
  <1>5. ASSUME NEW k \in Keys, \A j \in i..Len(s) : mem[s[j]].key # k
        PROVE  Lookup(n, k) = Absent
    BY <1>3, <1>5 DEF Lookup
  <1>6. ASSUME NEW k \in Keys, NEW j \in i..Len(s), mem[s[j]].key = k
        PROVE  Lookup(n, k) = mem[s[j]].value
    <2>1. s[j] \in Chain(n) \cap Filled
      BY <1>3, <1>4 DEF Ends
    <2>2. \A e \in Chain(n) \cap Filled : mem[e].key = k <=> e = s[j]
      <3> SUFFICES ASSUME NEW h \in i..Len(s) PROVE mem[s[h]].key = k <=> s[h] = s[j]
        BY <1>3
      <3>1. h \in 1..Len(s) /\ j \in 1..Len(s)
        BY <1>1
      <3> QED  BY <1>6, <3>1 DEF ChainOf
    <2>3. (CHOOSE e \in Chain(n) \cap Filled : mem[e].key = k) = s[j]
      BY <2>1, <2>2
    <2> QED  BY <1>6, <2>1, <2>3 DEF Lookup
  <1> HIDE DEF n
  <1>7. n = Place(s, i)
    BY DEF n
  <1> QED  BY <1>3, <1>4, <1>5, <1>6, <1>7 DEF Told

\* The same after a step.
LEMMA ChainsReadThen == Readable'
  BY ChainsRead, PTL

-----------------------------------------------------------------------------
(* What keeps the chains. *)

\* The writer's call and its variables.
LEMMA WriterTypes ==
    ASSUME TypeOK, writer # None
    PROVE  /\ writer \in WriterCall
           /\ writer.key \in Keys /\ writer.value \in Values \cup {Absent}
           /\ writer.bucket \in Buckets
           /\ {writer.elem, writer.c, writer.p} \subseteq Nodes \cup {NULL}
  BY DEF TypeOK, WriterCall

\* The call goes on at another place.
LEMMA WriterGoes ==
    ASSUME TypeOK, writer # None, NEW to, writer' = [writer EXCEPT !.pc = to],
           to \in {"free", "fill", "link", "head", "size"}
    PROVE  /\ writer' \in WriterCall /\ writer' # None /\ writer'.pc = to
           /\ writer'.key = writer.key /\ writer'.value = writer.value
           /\ writer'.bucket = writer.bucket
           /\ writer'.elem = writer.elem /\ writer'.c = writer.c /\ writer'.p = writer.p
  <1>1. writer \in WriterCall
    BY WriterTypes
  <1>2. writer' \in WriterCall
    BY <1>1 DEF WriterCall
  <1>3. writer' # None
    BY <1>2, DictAssumption
  <1> QED  BY <1>1, <1>2, <1>3 DEF WriterCall

\* n is in no chain.
Off(n, ch) == \A b \in Buckets : \A i \in 1..Len(ch[b]) : ch[b][i] # n

\* Memory that is not filled in is in no chain,
LEMMA UnfilledOff ==
    ASSUME NEW ch \in [Buckets -> Seq(Nodes)], Chains(ch), NEW n, mem[n] \notin Elem
    PROVE  Off(n, ch)
  BY DEF Chains, ChainOf, Off

\* nor is an element whose key its chain does not have.
LEMMA UnkeyedOff ==
    ASSUME NEW ch \in [Buckets -> Seq(Nodes)], Chains(ch), NEW n,
           ~HasKey(ch[_dict_index(mem[n].key)], mem[n].key)
    PROVE  Off(n, ch)
  BY DEF Chains, ChainOf, Off, HasKey

\* A step that leaves a chain's elements alone leaves the chain.
LEMMA ChainKept ==
    ASSUME NEW b, NEW s \in Seq(Nodes), ChainOf(b, s), table'[b].next = table[b].next,
           \A i \in 1..Len(s) : mem'[s[i]] = mem[s[i]]
    PROVE  ChainOf(b, s)' /\ \A k : HasKey(s, k)' <=> HasKey(s, k)
  BY DEF ChainOf, HasKey

\* The elements of the chains stay as they are.
Same(ch) == \A b \in Buckets : \A i \in 1..Len(ch[b]) : mem'[ch[b][i]] = mem[ch[b][i]]

\* So does one that writes to memory in no chain.
LEMMA ChainsKept ==
    ASSUME NEW ch \in [Buckets -> Seq(Nodes)], Chains(ch), NEW n, Off(n, ch),
           \A m \in Nodes : m # n => mem'[m] = mem[m],
           \A b \in Buckets : table'[b].next = table[b].next
    PROVE  /\ Chains(ch)'
           /\ \A b \in Buckets : \A k : HasKey(ch[b], k)' <=> HasKey(ch[b], k)
           /\ Same(ch)
  <1>1. \A b \in Buckets : \A i \in 1..Len(ch[b]) : mem'[ch[b][i]] = mem[ch[b][i]]
    <2> TAKE b \in Buckets
    <2> TAKE i \in 1..Len(ch[b])
    <2>1. ch[b] \in Seq(Nodes)
      OBVIOUS
    <2>2. ch[b][i] \in Nodes
      BY <2>1, Places
    <2> QED  BY <2>2 DEF Off
  <1>2. \A b \in Buckets : ChainOf(b, ch[b])' /\ \A k : HasKey(ch[b], k)' <=> HasKey(ch[b], k)
    <2> TAKE b \in Buckets
    <2>1. ch[b] \in Seq(Nodes) /\ ChainOf(b, ch[b])
      BY DEF Chains
    <2> QED  BY <1>1, <2>1, ChainKept
  <1> QED  BY <1>1, <1>2 DEF Chains, Same

\* Steps that change neither memory nor the table.
LEMMA ChainsUnchanged ==
    ASSUME UNCHANGED <<mem, table>>
    PROVE  /\ \A ch : Chains(ch)' <=> Chains(ch)
           /\ \A s, k : HasKey(s, k)' <=> HasKey(s, k)
  BY DEF Chains, ChainOf, HasKey

\* A step of the writer's call does not disturb who may call.
LEMMA WriterModes ==
    ASSUME Modes, writer # None, UNCHANGED <<reader, mode>>
    PROVE  Modes'
  BY DEF Modes, Quiet

\* A reader keeps its place while the chains are the same.
LEMMA ReadersStay ==
    ASSUME UNCHANGED reader
    PROVE  \A ch : Reading(ch)' <=> Reading(ch)
  BY DEF Reading

\* What was in a chain still is, or is in hand.
LEMMA KeptStill ==
    ASSUME NEW ch, Kept(ch),
           \A n \in Nodes : mem'[n] # Free => InHand(n)' \/ (mem[n] # Free /\ ~InHand(n))
    PROVE  Kept(ch)'
  BY DEF Kept

-----------------------------------------------------------------------------
(* The beginning. *)

\* All chains are empty at first.
LEMMA InitInv == dict_init => Inv
  <1> SUFFICES ASSUME dict_init PROVE Inv
    OBVIOUS
  <1> DEFINE ch == [b \in Buckets |-> <<>>]
  <1>1. ch \in [Buckets -> Seq(Nodes)] /\ \A b \in Buckets : Len(ch[b]) = 0
    BY EmptySeq
  <1>2. TypeOK
    BY DEF dict_init, TypeOK
  <1>3. Modes
    BY DEF dict_init, Modes, Quiet
  <1> HIDE DEF ch
  <1>4. Chains(ch)
    <2> SUFFICES ASSUME NEW b \in Buckets PROVE ChainOf(b, ch[b])
      BY DEF Chains
    <2>1. Len(ch[b]) = 0 /\ table[b].next = NULL
      BY <1>1 DEF dict_init
    <2> QED  BY <2>1 DEF ChainOf, Place
  <1>5. Writing(ch) /\ Reading(ch)
    BY DEF dict_init, Writing, Reading
  <1>6. Sized(ch)
    BY <1>1 DEF dict_init, Sized
  <1>7. Kept(ch)
    BY DEF dict_init, Kept
  <1> QED  BY <1>1, <1>2, <1>3, <1>4, <1>5, <1>6, <1>7 DEF Inv, DictInv

-----------------------------------------------------------------------------
(* The steps of a call that changes the table. *)

\* A call begins at the head of its chain.
LEMMA BeginKeeps ==
    ASSUME TypeOK, Modes, NEW ch \in [Buckets -> Seq(Nodes)], DictInv(ch),
           NEW k \in Keys, NEW v \in Values \cup {Absent}, NEW pc, Begin(k, v, pc),
           \/ pc = "malloc" /\ v \in Values /\ (shared => ~Has(k))
           \/ pc = "walk" /\ v = Absent /\ ~shared
    PROVE  TypeOK' /\ Modes' /\ DictInv(ch)'
  <1> DEFINE b == _dict_index(k)
             s == ch[b]
  <1>1. b \in Buckets /\ s \in Seq(Nodes) /\ ChainOf(b, s)
    BY IndexInRange DEF DictInv, Chains
  <1>2. /\ writer = None /\ ~destroyed /\ (shared \/ Quiet)
        /\ UNCHANGED <<mem, table, reader, mode>>
        /\ writer' = [pc |-> pc, key |-> k, value |-> v, bucket |-> b, elem |-> NULL,
                      c |-> IF pc = "walk" THEN table[b].next ELSE NULL, p |-> NULL]
    BY DEF Begin
  <1> HIDE DEF b
  <1>3. writer' \in WriterCall
    <2>1. table[b].next \in Nodes \cup {NULL}
      BY <1>1 DEF TypeOK
    <2> QED  BY <1>1, <1>2, <2>1 DEF WriterCall
  <1>4. TypeOK'
    BY <1>2, <1>3 DEF TypeOK
  <1>5. Modes'
    BY <1>2 DEF Modes, Quiet
  <1>6. writer'.bucket = b /\ writer'.pc = pc /\ writer'.key = k /\ writer'.value = v
        /\ writer'.elem = NULL /\ writer'.p = NULL
        /\ writer'.c = IF pc = "walk" THEN table[b].next ELSE NULL
    BY <1>2
  <1>7. Absent \notin Values /\ Len(s) \in Nat
    BY <1>1, Places, DictAssumption
  <1>8. shared => ~HasKey(s, k)
    <2> SUFFICES ASSUME shared, HasKey(s, k) PROVE FALSE
      OBVIOUS
    <2>1. PICK i \in 1..Len(s) : mem[s[i]].key = k
      BY DEF HasKey
    <2>2. 1 \in 1..(Len(s) + 1)
      BY <1>7
    <2>3. Told(s, 1)
      BY <1>1, <2>2, ChainsRead DEF Readable
    <2>4. Lookup(table[b].next, k) = mem[s[i]].value
      BY <1>1, <2>1, <2>3 DEF Told, ChainOf
    <2>5. mem[s[i]].value \in Values
      BY <1>1 DEF ChainOf, Elem
    <2> QED  BY <1>7, <2>4, <2>5 DEF Has, b
  <1>9. WriterOn(s)'
    <2>1. ASSUME pc = "walk"
          PROVE  \E i \in 1..(Len(s) + 1) :
                    /\ writer'.c = Place(s, i) /\ writer'.p = Place(s, i - 1)
                    /\ \A j \in 1..(i - 1) : mem'[s[j]].key # writer'.key
      <3>1. writer'.c = Place(s, 1)
        BY <1>1, <1>6, <2>1 DEF ChainOf
      <3>2. 1 \in 1..(Len(s) + 1) /\ 1 - 1 = 0 /\ 0 \notin 1..Len(s) /\ 1..0 = {}
        BY <1>7
      <3>3. writer'.p = Place(s, 0)
        BY <1>6, <3>2 DEF Place
      <3> QED  BY <3>1, <3>2, <3>3
    <2>2. \A q : HasKey(s, q)' <=> HasKey(s, q)
      BY <1>2, ChainsUnchanged
    <2> QED  BY <1>2, <1>6, <1>7, <1>8, <2>1, <2>2 DEF WriterOn, b
  <1>10. ElementOn(s)'
    BY <1>6, <1>7 DEF ElementOn
  <1>11. Chains(ch)' /\ Reading(ch)'
    BY <1>2, ChainsUnchanged, ReadersStay DEF DictInv
  <1>12. Writing(ch)'
    BY <1>6, <1>9, <1>10 DEF Writing
  <1>13. Sized(ch)'
    BY <1>2, <1>6 DEF DictInv, Sized
  <1>14. Kept(ch)'
    BY <1>2 DEF DictInv, Kept, InHand
  <1> QED  BY <1>4, <1>5, <1>11, <1>12, <1>13, <1>14 DEF DictInv

\* The new element is in no chain.
LEMMA MallocKeeps ==
    ASSUME TypeOK, Modes, NEW ch \in [Buckets -> Seq(Nodes)], DictInv(ch), Malloc
    PROVE  TypeOK' /\ Modes' /\ DictInv(ch)' /\ Same(ch) /\ writer' # None
  <1>1. /\ writer # None /\ writer.pc = "malloc"
        /\ UNCHANGED <<table, reader, mode>>
    BY DEF Malloc
  <1>b. PICK b \in Buckets : b = writer.bucket
    BY <1>1, WriterTypes
  <1> DEFINE s == ch[b]
  <1>2. PICK n \in Nodes :
          /\ mem[n] = Free
          /\ mem' = [mem EXCEPT ![n] = Raw]
          /\ writer' = [writer EXCEPT !.pc = "walk", !.elem = n, !.c = table[writer.bucket].next]
    BY DEF Malloc
  <1>3. writer \in WriterCall
    BY <1>b, <1>1, WriterTypes
  <1>4. s \in Seq(Nodes) /\ ChainOf(b, s) /\ WriterOn(s) /\ Len(s) \in Nat
    BY <1>b, <1>1, <1>3, Places DEF DictInv, Chains, Writing
  <1>5. table[b].next \in Nodes \cup {NULL}
    BY <1>3 DEF TypeOK
  <1>6. /\ writer' \in WriterCall /\ writer' # None
        /\ writer'.pc = "walk" /\ writer'.elem = n /\ writer'.c = table[b].next
        /\ writer'.key = writer.key /\ writer'.value = writer.value /\ writer'.bucket = b
        /\ writer'.p = writer.p
    <2>1. /\ writer' \in WriterCall
          /\ writer'.pc = "walk" /\ writer'.elem = n /\ writer'.c = table[b].next
          /\ writer'.key = writer.key /\ writer'.value = writer.value /\ writer'.bucket = b
          /\ writer'.p = writer.p
      BY <1>b, <1>2, <1>3, <1>5 DEF WriterCall
    <2> QED  BY <2>1, DictAssumption
  <1>7. mem' \in [Nodes -> Elem \cup {Free, Raw}] /\ mem'[n] = Raw
        /\ \A m \in Nodes : m # n => mem'[m] = mem[m]
    BY <1>2 DEF TypeOK
  <1>8. TypeOK' /\ Modes'
    BY <1>b, <1>1, <1>6, <1>7, WriterModes DEF TypeOK
  <1>9. Off(n, ch)
    BY <1>2, UnfilledOff, DictAssumption DEF DictInv
  <1>10. Chains(ch)' /\ Same(ch) /\ \A k : HasKey(s, k)' <=> HasKey(s, k)
    BY <1>b, <1>1, <1>3, <1>7, <1>9, ChainsKept DEF DictInv
  <1>11. writer.elem = NULL /\ writer.value # Absent /\ writer.p = NULL
    BY <1>b, <1>1, <1>4 DEF WriterOn
  <1>12. Place(s, 0) = NULL /\ 1 \in 1..(Len(s) + 1) /\ 1 - 1 = 0 /\ 1..0 = {}
    BY <1>4 DEF Place
  <1>13. \E i \in 1..(Len(s) + 1) : /\ writer'.c = Place(s, i) /\ writer'.p = Place(s, i - 1)
                                    /\ \A j \in 1..(i - 1) : mem'[s[j]].key # writer'.key
    BY <1>4, <1>6, <1>11, <1>12 DEF ChainOf
  <1>14. WriterOn(s)'
    BY <1>b, <1>1, <1>4, <1>6, <1>10, <1>11, <1>13 DEF WriterOn
  <1>15. ElementOn(s)'
    BY <1>6, <1>7 DEF ElementOn
  <1>16. Writing(ch)' /\ Reading(ch)'
    BY <1>b, <1>1, <1>6, <1>14, <1>15, ReadersStay DEF Writing, DictInv
  <1>17. Sized(ch)'
    BY <1>b, <1>1, <1>6 DEF DictInv, Sized
  <1>18. Kept(ch)'
    <2>1. \A m \in Nodes : mem'[m] # Free => InHand(m)' \/ (mem[m] # Free /\ ~InHand(m))
      BY <1>1, <1>6, <1>7, <1>11, DictAssumption DEF InHand
    <2> QED  BY <2>1, KeptStill DEF DictInv
  <1> QED  BY <1>6, <1>8, <1>10, <1>16, <1>17, <1>18 DEF DictInv

\* An insertion for which there is no memory leaves no trace.
LEMMA MallocFailsKeeps ==
    ASSUME TypeOK, Modes, NEW ch \in [Buckets -> Seq(Nodes)], DictInv(ch), MallocFails
    PROVE  TypeOK' /\ Modes' /\ DictInv(ch)'
  <1>1. /\ writer # None /\ writer.pc = "malloc" /\ writer' = None
        /\ UNCHANGED <<mem, table, reader, mode>>
    BY DEF MallocFails
  <1>2. writer.elem = NULL
    BY <1>1 DEF DictInv, Writing, WriterOn
  <1>3. TypeOK' /\ Modes'
    BY <1>1, WriterModes DEF TypeOK
  <1>4. Chains(ch)' /\ Writing(ch)' /\ Reading(ch)'
    BY <1>1, ChainsUnchanged, ReadersStay DEF Writing, DictInv
  <1>5. Sized(ch)'
    BY <1>1 DEF DictInv, Sized
  <1>6. Kept(ch)'
    BY <1>1, <1>2, DictAssumption DEF DictInv, Kept, InHand
  <1> QED  BY <1>3, <1>4, <1>5, <1>6 DEF DictInv

\* The walk goes one place on.
LEMMA WalkOnKeeps ==
    ASSUME TypeOK, Modes, NEW ch \in [Buckets -> Seq(Nodes)], DictInv(ch), WalkOn
    PROVE  TypeOK' /\ Modes' /\ DictInv(ch)' /\ writer' # None
  <1>1. /\ writer # None /\ writer.pc = "walk" /\ writer.c # NULL
        /\ mem[writer.c].key # writer.key
        /\ writer' = [writer EXCEPT !.p = writer.c, !.c = mem[writer.c].next]
        /\ UNCHANGED <<mem, table, reader, mode>>
    BY DEF WalkOn, Found
  <1>b. PICK b \in Buckets : b = writer.bucket
    BY <1>1, WriterTypes
  <1> DEFINE s == ch[b]
  <1>2. writer \in WriterCall
    BY <1>b, <1>1, WriterTypes
  <1>3. s \in Seq(Nodes) /\ ChainOf(b, s) /\ WriterOn(s) /\ ElementOn(s) /\ Len(s) \in Nat
    BY <1>b, <1>1, <1>2, Places DEF DictInv, Chains, Writing
  <1>4. PICK i \in 1..(Len(s) + 1) :
            /\ writer.c = Place(s, i) /\ writer.p = Place(s, i - 1)
            /\ \A j \in 1..(i - 1) : mem[s[j]].key # writer.key
    BY <1>b, <1>1, <1>3 DEF WriterOn
  <1>5. i \in 1..Len(s) /\ i + 1 \in 1..(Len(s) + 1) /\ (i + 1) - 1 = i /\ i \in Nat
    BY <1>b, <1>1, <1>3, <1>4 DEF Place
  <1>6. writer.c = s[i] /\ s[i] \in Nodes /\ mem[s[i]].next = Place(s, i + 1)
    BY <1>3, <1>4, <1>5 DEF Place, ChainOf
  <1>7. Place(s, i + 1) \in Nodes \cup {NULL}
    BY <1>3, Places
  <1>8. /\ writer' \in WriterCall /\ writer' # None
        /\ writer'.pc = "walk" /\ writer'.elem = writer.elem
        /\ writer'.c = Place(s, i + 1) /\ writer'.p = Place(s, i)
        /\ writer'.key = writer.key /\ writer'.value = writer.value /\ writer'.bucket = b
    <2>1. writer' = [writer EXCEPT !.p = Place(s, i), !.c = Place(s, i + 1)]
      BY <1>1, <1>4, <1>6
    <2>2. Place(s, i) \in Nodes \cup {NULL}
      BY <1>3, Places
    <2>3. writer.pc = "walk"
      BY <1>1
    <2> HIDE DEF s
    <2>4. /\ writer' \in WriterCall
          /\ writer'.pc = "walk" /\ writer'.elem = writer.elem
          /\ writer'.c = Place(s, i + 1) /\ writer'.p = Place(s, i)
          /\ writer'.key = writer.key /\ writer'.value = writer.value /\ writer'.bucket = b
      BY <1>b, <1>2, <1>7, <2>1, <2>2, <2>3 DEF WriterCall
    <2> QED  BY <2>4, DictAssumption
  <1>9. TypeOK' /\ Modes'
    BY <1>b, <1>1, <1>8, WriterModes DEF TypeOK
  <1>10. \A j \in 1..i : mem[s[j]].key # writer.key
    <2> TAKE j \in 1..i
    <2>1. j \in 1..(i - 1) \/ j = i
      BY <1>5
    <2> QED  BY <1>b, <1>1, <1>4, <1>6, <2>1
  <1>11. \E h \in 1..(Len(s) + 1) : /\ writer'.c = Place(s, h) /\ writer'.p = Place(s, h - 1)
                                    /\ \A j \in 1..(h - 1) : mem'[s[j]].key # writer'.key
    BY <1>b, <1>1, <1>5, <1>8, <1>10
  <1>12. \A k : HasKey(s, k)' <=> HasKey(s, k)
    BY <1>b, <1>1, ChainsUnchanged
  <1>13. WriterOn(s)' /\ ElementOn(s)'
    BY <1>b, <1>1, <1>3, <1>8, <1>11, <1>12 DEF WriterOn, ElementOn
  <1>14. Chains(ch)' /\ Writing(ch)' /\ Reading(ch)'
    BY <1>b, <1>1, <1>8, <1>13, ChainsUnchanged, ReadersStay DEF Writing, DictInv
  <1>15. Sized(ch)'
    BY <1>b, <1>1, <1>8 DEF DictInv, Sized
  <1>16. Kept(ch)'
    BY <1>b, <1>1, <1>8 DEF DictInv, Kept, InHand
  <1> QED  BY <1>8, <1>9, <1>14, <1>15, <1>16 DEF DictInv

\* A walk through the whole chain has not found the key.
LEMMA NotThereKeeps ==
    ASSUME TypeOK, Modes, NEW ch \in [Buckets -> Seq(Nodes)], DictInv(ch), NotThere
    PROVE  /\ TypeOK' /\ Modes' /\ DictInv(ch)'
           /\ ~HasKey(ch[writer.bucket], writer.key)
  <1>1. /\ writer # None /\ writer.pc = "walk" /\ writer.c = NULL
        /\ writer' = IF writer.value = Absent THEN None ELSE [writer EXCEPT !.pc = "fill"]
        /\ UNCHANGED <<mem, table, reader, mode>>
    BY DEF NotThere
  <1>b. PICK b \in Buckets : b = writer.bucket
    BY <1>1, WriterTypes
  <1> DEFINE s == ch[b]
  <1>2. writer \in WriterCall
    BY <1>b, <1>1, WriterTypes
  <1>3. s \in Seq(Nodes) /\ ChainOf(b, s) /\ WriterOn(s) /\ ElementOn(s) /\ Len(s) \in Nat
    BY <1>b, <1>1, <1>2, Places DEF DictInv, Chains, Writing
  <1>4. ~HasKey(s, writer.key)
    <2>1. PICK i \in 1..(Len(s) + 1) :
            /\ writer.c = Place(s, i)
            /\ \A j \in 1..(i - 1) : mem[s[j]].key # writer.key
      BY <1>b, <1>1, <1>3 DEF WriterOn
    <2>2. i \notin 1..Len(s)
      BY <1>b, <1>1, <1>3, <2>1, Places
    <2>3. 1..(i - 1) = 1..Len(s)
      BY <1>3, <2>2
    <2> QED  BY <2>1, <2>3 DEF HasKey
  <1>5. \A k : HasKey(s, k)' <=> HasKey(s, k)
    BY <1>b, <1>1, ChainsUnchanged
  <1>6. Modes' /\ Chains(ch)' /\ Reading(ch)'
    BY <1>b, <1>1, ChainsUnchanged, ReadersStay, WriterModes DEF DictInv
  <1>7. CASE writer.value = Absent
    <2>1. writer' = None /\ writer.elem = NULL
      BY <1>b, <1>1, <1>3, <1>7 DEF WriterOn
    <2>2. TypeOK' /\ Writing(ch)'
      BY <1>b, <1>1, <2>1 DEF TypeOK, Writing
    <2>3. Sized(ch)'
      BY <1>b, <1>1, <2>1 DEF DictInv, Sized
    <2>4. Kept(ch)'
      <3>1. \A m \in Nodes : ~InHand(m)
        BY <1>1, <2>1, DictAssumption DEF InHand
      <3>2. \A m \in Nodes : mem'[m] # Free => InHand(m)' \/ (mem[m] # Free /\ ~InHand(m))
        BY <1>1, <3>1
      <3> QED  BY <3>2, KeptStill DEF DictInv
    <2> QED  BY <1>b, <1>4, <1>6, <2>2, <2>3, <2>4 DEF DictInv
  <1>8. CASE writer.value # Absent
    <2>1. /\ writer' \in WriterCall /\ writer' # None
          /\ writer'.pc = "fill" /\ writer'.elem = writer.elem /\ writer'.c = writer.c
          /\ writer'.key = writer.key /\ writer'.value = writer.value /\ writer'.bucket = b
      BY <1>b, <1>1, <1>8, WriterGoes
    <2>2. TypeOK'
      BY <1>b, <1>1, <2>1 DEF TypeOK
    <2>3. WriterOn(s)' /\ ElementOn(s)'
      BY <1>b, <1>1, <1>3, <1>4, <1>5, <1>8, <2>1 DEF WriterOn, ElementOn
    <2>4. Writing(ch)'
      BY <2>1, <2>3 DEF Writing
    <2>5. Sized(ch)'
      BY <1>b, <1>1, <2>1 DEF DictInv, Sized
    <2>6. Kept(ch)'
      <3>1. \A m \in Nodes : InHand(m) => InHand(m)'
        BY <1>1, <2>1 DEF InHand
      <3>2. \A m \in Nodes : mem'[m] # Free => InHand(m)' \/ (mem[m] # Free /\ ~InHand(m))
        BY <1>1, <3>1
      <3> QED  BY <3>2, KeptStill DEF DictInv
    <2> QED  BY <1>b, <1>4, <1>6, <2>2, <2>4, <2>5, <2>6 DEF DictInv
  <1> QED  BY <1>7, <1>8

\* What an element taken out of a chain leaves: the one before it, or the
\* bucket, points past it.
Bridged(b, s, i) ==
    /\ i = 1 => UNCHANGED mem /\ table' = [table EXCEPT ![b].next = Place(s, 2)]
    /\ i # 1 => UNCHANGED table /\ mem' = [mem EXCEPT ![s[i - 1]].next = Place(s, i + 1)]

\* Nothing else of an element changes.
LEMMA BridgedHeap ==
    ASSUME TypeOK, NEW b \in Buckets, NEW s \in Seq(Nodes), ChainOf(b, s),
           NEW i \in 1..Len(s), Bridged(b, s, i)
    PROVE  /\ mem' \in [Nodes -> Elem \cup {Free, Raw}]
           /\ table' \in [Buckets -> [size : Nat, next : Nodes \cup {NULL}]]
           /\ \A d \in Buckets : table'[d].size = table[d].size
           /\ \A d \in Buckets : d # b => table'[d].next = table[d].next
           /\ table'[b].next = Place(Without(s, i), 1)
           /\ \A n \in Nodes : mem[n] \in Elem =>
                 mem'[n] \in Elem /\ mem'[n].key = mem[n].key /\ mem'[n].value = mem[n].value
           /\ \A n \in Nodes : i = 1 \/ n # s[i - 1] => mem'[n] = mem[n]
           /\ i # 1 => mem'[s[i - 1]].next = Place(s, i + 1)
  <1>1. Len(s) \in Nat /\ i \in Nat /\ \A j : Place(s, j) \in Nodes \cup {NULL}
    BY Places
  <1>2. table[b].next = Place(s, 1)
    BY DEF ChainOf
  <1>3. CASE i = 1
    <2>1. UNCHANGED mem /\ table' = [table EXCEPT ![b].next = Place(s, 2)]
      BY <1>3 DEF Bridged
    <2>2. Place(s, 2) = Place(Without(s, i), 1)
      <3>1. PICK j \in i..Len(s) : j = 1
        BY <1>1, <1>3
      <3>2. Place(Without(s, i), j) = Place(s, j + 1)
        BY WithoutIs
      <3> QED  BY <3>1, <3>2
    <2>3. table' \in [Buckets -> [size : Nat, next : Nodes \cup {NULL}]]
      BY <1>1, <2>1 DEF TypeOK
    <2>4. table'[b].next = Place(s, 2) /\ \A d \in Buckets : table'[d].size = table[d].size
          /\ (d # b => table'[d].next = table[d].next)
      BY <2>1 DEF TypeOK
    <2> QED  BY <1>3, <2>1, <2>2, <2>3, <2>4 DEF TypeOK
  <1>4. CASE i # 1
    <2> DEFINE p == s[i - 1]
               e == [mem[p] EXCEPT !.next = Place(s, i + 1)]
    <2>1. i - 1 \in 1..Len(s) /\ 1 \in 1..(i - 1)
      BY <1>1, <1>4
    <2>2. p \in Nodes /\ mem[p] \in Elem
      BY <2>1, Places DEF ChainOf
    <2>3. UNCHANGED table /\ mem' = [mem EXCEPT ![p] = e]
      BY <1>4 DEF Bridged
    <2>4. e \in Elem /\ e.key = mem[p].key /\ e.value = mem[p].value /\ e.next = Place(s, i + 1)
      BY <1>1, <2>2 DEF Elem
    <2>5. Place(s, 1) = Place(Without(s, i), 1)
      BY <2>1, WithoutIs
    <2> HIDE DEF e
    <2>6. /\ mem' \in [Nodes -> Elem \cup {Free, Raw}]
          /\ mem'[p] = e /\ \A n \in Nodes : n # p => mem'[n] = mem[n]
      BY <2>2, <2>3, <2>4 DEF TypeOK
    <2> HIDE DEF p
    <2>7. p = s[i - 1]
      BY DEF p
    <2> QED  BY <1>2, <1>4, <2>3, <2>4, <2>5, <2>6, <2>7 DEF TypeOK
  <1> QED  BY <1>3, <1>4

\* The chain without the element is the chain.
LEMMA BridgedChain ==
    ASSUME TypeOK, NEW b \in Buckets, NEW s \in Seq(Nodes), ChainOf(b, s),
           NEW i \in 1..Len(s), Bridged(b, s, i), NEW k, mem[s[i]].key = k
    PROVE  ChainOf(b, Without(s, i))' /\ ~HasKey(Without(s, i), k)'
  <1> DEFINE t == Without(s, i)
  <1>1. Len(s) \in Nat /\ i \in Nat /\ Len(t) = Len(s) - 1
    BY Places, WithoutIs
  <1>2. /\ \A n \in Nodes : mem[n] \in Elem => mem'[n] \in Elem /\ mem'[n].key = mem[n].key
        /\ \A n \in Nodes : i = 1 \/ n # s[i - 1] => mem'[n] = mem[n]
        /\ i # 1 => mem'[s[i - 1]].next = Place(s, i + 1)
        /\ table'[b].next = Place(t, 1)
    BY BridgedHeap
  <1>3. /\ \A j \in 1..Len(s) : /\ s[j] \in Nodes /\ mem[s[j]] \in Elem
                                /\ _dict_index(mem[s[j]].key) = b
                                /\ mem[s[j]].next = Place(s, j + 1)
        /\ \A j, h \in 1..Len(s) : mem[s[j]].key = mem[s[h]].key => j = h
    BY Places DEF ChainOf
  <1> DEFINE From(j) == IF j < i THEN j ELSE j + 1
  <1>4. \A j \in 1..Len(t) : From(j) \in 1..Len(s) /\ From(j) # i /\ t[j] = s[From(j)]
    <2> TAKE j \in 1..Len(t)
    <2>1. CASE j < i
      <3>1. t[j] = s[j] /\ j \in 1..Len(s) /\ From(j) = j
        BY <2>1, WithoutIs
      <3>2. j # i
        BY <1>1, <2>1
      <3> QED  BY <3>1, <3>2
    <2>2. CASE ~(j < i)
      <3>1. t[j] = s[j + 1] /\ j + 1 \in 1..Len(s) /\ From(j) = j + 1
        BY <2>2, WithoutIs
      <3>2. j + 1 # i
        BY <1>1, <2>2
      <3> QED  BY <3>1, <3>2
    <2> QED  BY <2>1, <2>2
  <1>5. \A j \in 1..Len(t) : mem'[t[j]] \in Elem /\ mem'[t[j]].key = mem[s[From(j)]].key
    BY <1>2, <1>3, <1>4
  <1>6. ASSUME NEW j \in 1..Len(t)
        PROVE  mem'[t[j]].next = Place(t, j + 1)
    <2>1. CASE i # 1 /\ j = i - 1
      <3>1. t[j] = s[i - 1] /\ j + 1 = i /\ i \in i..Len(s)
        BY <1>1, <1>4, <2>1
      <3>2. Place(t, i) = Place(s, i + 1)
        BY <3>1, WithoutIs
      <3> QED  BY <1>2, <2>1, <3>1, <3>2
    <2>2. CASE j < i /\ j # i - 1
      <3>1. j + 1 \in 1..(i - 1) /\ t[j] = s[j] /\ j \in 1..Len(s)
        BY <1>1, <1>4, <2>2
      <3>2. i - 1 \in 1..Len(s) /\ j # i - 1
        BY <1>1, <2>2
      <3>3. s[j] # s[i - 1]
        BY <1>3, <3>1, <3>2
      <3>4. mem'[t[j]] = mem[s[j]]
        BY <1>2, <1>3, <3>1, <3>3
      <3>5. Place(t, j + 1) = Place(s, j + 1)
        BY <3>1, WithoutIs
      <3> QED  BY <1>3, <3>1, <3>4, <3>5
    <2>3. CASE ~(j < i)
      <3>1. j + 1 \in i..Len(s) /\ t[j] = s[j + 1] /\ j + 1 \in 1..Len(s)
        BY <1>1, <1>4, <2>3
      <3>2. i = 1 \/ s[j + 1] # s[i - 1]
        <4>1. i = 1 \/ (i - 1 \in 1..Len(s) /\ j + 1 # i - 1)
          BY <1>1, <2>3
        <4> QED  BY <1>3, <3>1, <4>1
      <3>3. mem'[t[j]] = mem[s[j + 1]]
        BY <1>2, <1>3, <3>1, <3>2
      <3>4. Place(t, j + 1) = Place(s, (j + 1) + 1)
        BY <3>1, WithoutIs
      <3> QED  BY <1>3, <3>1, <3>3, <3>4
    <2>4. j \in Int /\ i \in Int
      BY <1>1
    <2> QED  BY <2>1, <2>2, <2>3, <2>4
  <1>7. ASSUME NEW j \in 1..Len(t), NEW h \in 1..Len(t), mem'[t[j]].key = mem'[t[h]].key
        PROVE  j = h
    <2>1. From(j) \in 1..Len(s) /\ From(h) \in 1..Len(s)
      BY <1>4
    <2>2. mem[s[From(j)]].key = mem[s[From(h)]].key
      BY <1>5, <1>7
    <2> HIDE DEF From
    <2>3. From(j) = From(h)
      BY <1>3, <2>1, <2>2
    <2> QED  BY <1>1, <2>3 DEF From
  <1> HIDE DEF t, From
  <1>8. \A j \in 1..Len(t) : mem'[t[j]].key # k
    <2> TAKE j \in 1..Len(t)
    <2>1. From(j) \in 1..Len(s) /\ From(j) # i /\ mem'[t[j]].key = mem[s[From(j)]].key
      BY <1>4, <1>5
    <2> QED  BY <1>3, <2>1
  <1>9. \A j \in 1..Len(t) : _dict_index(mem'[t[j]].key) = b
    <2> TAKE j \in 1..Len(t)
    <2>1. From(j) \in 1..Len(s) /\ mem'[t[j]].key = mem[s[From(j)]].key
      BY <1>4, <1>5
    <2>2. _dict_index(mem[s[From(j)]].key) = b
      BY <1>3, <2>1
    <2> QED  BY <2>1, <2>2
  <1>10. ChainOf(b, t)'
    BY <1>2, <1>5, <1>6, <1>7, <1>9 DEF ChainOf
  <1>11. ~HasKey(t, k)'
    BY <1>8 DEF HasKey
  <1> QED  BY <1>10, <1>11 DEF t

\* Taking an element out is such a step; readers are away, since with them the
\* key would not have been there.
LEMMA UnlinkKeeps ==
    ASSUME TypeOK, Modes, NEW ch \in [Buckets -> Seq(Nodes)], DictInv(ch), Unlink
    PROVE  /\ TypeOK' /\ Modes' /\ ~shared
           /\ \E b \in Buckets : \E i \in 1..Len(ch[b]) :
                 /\ writer.bucket = b /\ ch[b][i] = writer.c /\ mem[writer.c].key = writer.key
                 /\ Bridged(b, ch[b], i)
                 /\ DictInv([ch EXCEPT ![b] = Without(ch[b], i)])'
  <1>1. /\ writer # None /\ writer.pc = "walk" /\ writer.c # NULL
        /\ mem[writer.c].key = writer.key
        /\ writer' = [writer EXCEPT !.pc = "free"]
        /\ UNCHANGED <<reader, mode>>
    BY DEF Unlink, Goto, Found
  <1>2. PICK b \in Buckets : b = writer.bucket
    BY <1>1, WriterTypes
  <1> DEFINE s == ch[b]
  <1>3. writer \in WriterCall
    BY <1>1, WriterTypes
  <1>4. s \in Seq(Nodes) /\ ChainOf(b, s) /\ WriterOn(s) /\ ElementOn(s) /\ Len(s) \in Nat
    BY <1>1, <1>2, Places DEF DictInv, Chains, Writing
  <1>5. PICK i \in 1..(Len(s) + 1) : writer.c = Place(s, i) /\ writer.p = Place(s, i - 1)
    BY <1>1, <1>4 DEF WriterOn
  <1>6. i \in 1..Len(s) /\ writer.c = s[i] /\ s[i] \in Nodes /\ mem[s[i]] \in Elem /\ i \in Nat
    BY <1>1, <1>4, <1>5, Places DEF ChainOf
  <1>7. mem[s[i]].next = Place(s, i + 1) /\ table[b].next = Place(s, 1)
    BY <1>4, <1>6 DEF ChainOf
  <1>8. ~shared /\ \A r \in Readers : reader[r] = None
    <2>1. HasKey(s, writer.key)
      BY <1>1, <1>6 DEF HasKey
    <2> QED  BY <1>1, <1>4, <2>1 DEF WriterOn, Modes
  <1>9. writer.c = table[writer.bucket].next <=> i = 1
    <2>1. 1 \in 1..Len(s) /\ Place(s, 1) = s[1]
      BY <1>4, <1>6, Places
    <2>2. s[i] = s[1] <=> i = 1
      BY <1>4, <1>6, <2>1, ChainNodes
    <2> QED  BY <1>2, <1>6, <1>7, <2>1, <2>2
  <1>10. Bridged(b, s, i)
    <2>1. CASE i = 1
      <3>1. UNCHANGED mem /\ table' = [table EXCEPT ![writer.bucket].next = mem[writer.c].next]
        BY <1>9, <2>1 DEF Unlink
      <3>2. UNCHANGED mem /\ table' = [table EXCEPT ![b].next = mem[s[i]].next]
        BY <1>2, <1>6, <3>1
      <3>3. mem[s[i]].next = Place(s, 2)
        BY <1>7, <2>1
      <3> QED  BY <2>1, <3>2, <3>3 DEF Bridged
    <2>2. CASE i # 1
      <3>1. i - 1 \in 1..Len(s)
        BY <1>4, <1>6, <2>2
      <3>2. writer.p = s[i - 1]
        BY <1>4, <1>5, <3>1, Places
      <3>3. UNCHANGED table /\ mem' = [mem EXCEPT ![s[i - 1]].next = mem[s[i]].next]
        BY <1>6, <1>9, <2>2, <3>2 DEF Unlink
      <3> QED  BY <1>7, <2>2, <3>3 DEF Bridged
    <2> QED  BY <2>1, <2>2
  <1> DEFINE t == Without(s, i)
             cs == [ch EXCEPT ![b] = t]
  <1>11. t \in Seq(Nodes) /\ Len(t) = Len(s) - 1
         /\ \A j \in 1..Len(s) : j # i => \E h \in 1..Len(t) : t[h] = s[j]
    BY <1>4, <1>6, WithoutIs
  <1>12. /\ cs \in [Buckets -> Seq(Nodes)] /\ cs[b] = t
         /\ \A d \in Buckets : d # b => cs[d] = ch[d]
    BY <1>11
  <1>13. /\ mem' \in [Nodes -> Elem \cup {Free, Raw}]
         /\ table' \in [Buckets -> [size : Nat, next : Nodes \cup {NULL}]]
         /\ \A d \in Buckets : table'[d].size = table[d].size
         /\ \A d \in Buckets : d # b => table'[d].next = table[d].next
         /\ \A n \in Nodes : mem[n] \in Elem => mem'[n] \in Elem /\ mem'[n].key = mem[n].key
         /\ \A n \in Nodes : i = 1 \/ n # s[i - 1] => mem'[n] = mem[n]
    BY <1>4, <1>6, <1>10, BridgedHeap
  <1>14. /\ writer' \in WriterCall /\ writer' # None
         /\ writer'.pc = "free" /\ writer'.elem = writer.elem /\ writer'.c = s[i]
         /\ writer'.key = writer.key /\ writer'.value = writer.value /\ writer'.bucket = b
    BY <1>1, <1>2, <1>6, WriterGoes
  <1>15. TypeOK' /\ Modes'
    BY <1>1, <1>13, <1>14, WriterModes DEF TypeOK
  <1>16. i = 1 \/ (i - 1 \in 1..Len(s) /\ s[i - 1] \in Nodes /\ mem[s[i - 1]] \in Elem
                   /\ _dict_index(mem[s[i - 1]].key) = b)
    <2>1. i = 1 \/ i - 1 \in 1..Len(s)
      BY <1>4, <1>6
    <2> QED  BY <1>4, <2>1, Places DEF ChainOf
  <1>17. \A k : mem[s[i]].key = k => ChainOf(b, t)' /\ ~HasKey(t, k)'
    BY <1>4, <1>6, <1>10, BridgedChain
  <1> HIDE DEF t, cs
  <1>18. ChainOf(b, t)' /\ ~HasKey(t, writer.key)'
    BY <1>1, <1>6, <1>14, <1>17
  <1>19. Chains(cs)'
    <2>1. ASSUME NEW d \in Buckets, d # b PROVE ChainOf(d, ch[d])'
      <3>1. ch[d] \in Seq(Nodes) /\ ChainOf(d, ch[d])
        BY DEF DictInv, Chains
      <3>2. \A j \in 1..Len(ch[d]) : ch[d][j] \in Nodes /\ _dict_index(mem[ch[d][j]].key) = d
        BY <3>1, Places DEF ChainOf
      <3>3. \A j \in 1..Len(ch[d]) : mem'[ch[d][j]] = mem[ch[d][j]]
        BY <1>13, <1>16, <2>1, <3>2
      <3> QED  BY <1>13, <2>1, <3>1, <3>3, ChainKept
    <2>2. \A d \in Buckets : ChainOf(d, cs[d])'
      BY <1>12, <1>18, <2>1
    <2> QED  BY <2>2 DEF Chains
  <1>20. WriterOn(t)'
    <2>1. mem'[s[i]] \in Elem /\ mem'[s[i]].key = writer.key
      BY <1>1, <1>6, <1>13
    <2> QED  BY <1>1, <1>4, <1>6, <1>8, <1>14, <1>18, <2>1, <1>2 DEF WriterOn
  <1>21. ElementOn(t)'
    <2>1. ASSUME writer.value # Absent
          PROVE  writer.elem \in Nodes /\ mem'[writer.elem] = Raw
      <3>1. writer.elem \in Nodes /\ mem[writer.elem] = Raw
        BY <1>1, <1>4, <2>1 DEF ElementOn
      <3>2. i = 1 \/ writer.elem # s[i - 1]
        BY <1>16, <3>1, DictAssumption
      <3> QED  BY <1>13, <3>1, <3>2
    <2> QED  BY <1>14, <2>1 DEF ElementOn
  <1>22. Writing(cs)'
    BY <1>12, <1>14, <1>20, <1>21 DEF Writing
  <1>23. Reading(cs)'
    BY <1>1, <1>8 DEF Reading
  <1>24. Sized(cs)'
    <2>1. ASSUME NEW d \in Buckets PROVE Len(cs[d]) <= table'[d].size + 0
      <3>1. Len(ch[d]) <= table[d].size + 0
        BY <1>1 DEF DictInv, Sized
      <3>2. Len(cs[d]) = Len(ch[d]) \/ (d = b /\ Len(cs[d]) = Len(s) - 1)
        BY <1>11, <1>12
      <3>3. table'[d].size = table[d].size /\ table[d].size \in Nat
        BY <1>13 DEF TypeOK
      <3> QED  BY <1>4, <3>1, <3>2, <3>3
    <2>2. ~(writer'.pc = "size")
      BY <1>14
    <2> QED  BY <2>1, <2>2 DEF Sized
  <1>25. Kept(cs)'
    <2> SUFFICES ASSUME NEW n \in Nodes, mem'[n] # Free, ~InHand(n)'
                 PROVE  \E d \in Buckets : \E j \in 1..Len(cs[d]) : cs[d][j] = n
      BY DEF Kept
    <2>1. mem[n] # Free
      <3>1. CASE i # 1 /\ n = s[i - 1]
        BY <1>16, <3>1, DictAssumption
      <3>2. CASE i = 1 \/ n # s[i - 1]
        BY <1>13, <3>2
      <3> QED  BY <3>1, <3>2
    <2>2. ~InHand(n) /\ n # s[i]
      BY <1>1, <1>14 DEF InHand
    <2>3. PICK d \in Buckets : \E j \in 1..Len(ch[d]) : ch[d][j] = n
      BY <2>1, <2>2 DEF DictInv, Kept
    <2>4. CASE d # b
      BY <1>12, <2>3, <2>4
    <2>5. CASE d = b
      <3>1. PICK j \in 1..Len(s) : s[j] = n
        BY <2>3, <2>5
      <3>2. \E h \in 1..Len(t) : t[h] = n
        BY <1>11, <2>2, <3>1
      <3> QED  BY <1>12, <3>2
    <2> QED  BY <2>4, <2>5
  <1>26. DictInv(cs)'
    BY <1>19, <1>22, <1>23, <1>24, <1>25 DEF DictInv
  <1> QED  BY <1>1, <1>2, <1>6, <1>8, <1>10, <1>15, <1>26 DEF cs, t

\* The element taken out is given back; an insertion goes on.
LEMMA UnlinkedKeeps ==
    ASSUME TypeOK, Modes, NEW ch \in [Buckets -> Seq(Nodes)], DictInv(ch), Unlinked
    PROVE  TypeOK' /\ Modes' /\ DictInv(ch)' /\ Same(ch)
  <1>1. /\ writer # None /\ writer.pc = "free"
        /\ mem' = [mem EXCEPT ![writer.c] = Free]
        /\ writer' = IF writer.value = Absent THEN None ELSE [writer EXCEPT !.pc = "fill"]
        /\ UNCHANGED <<table, reader, mode>>
    BY DEF Unlinked
  <1>2. PICK b \in Buckets : b = writer.bucket
    BY <1>1, WriterTypes
  <1> DEFINE s == ch[b]
  <1>3. writer \in WriterCall
    BY <1>1, WriterTypes
  <1>4. s \in Seq(Nodes) /\ WriterOn(s) /\ ElementOn(s)
    BY <1>1, <1>2 DEF DictInv, Writing
  <1>5. PICK n \in Nodes : n = writer.c
    BY <1>1, <1>4 DEF WriterOn
  <1>6. mem[n] \in Elem /\ mem[n].key = writer.key /\ ~HasKey(s, writer.key)
        /\ _dict_index(writer.key) = b
    BY <1>1, <1>2, <1>4, <1>5 DEF WriterOn
  <1>7. Off(n, ch)
    BY <1>6, UnkeyedOff DEF DictInv
  <1>8. /\ mem' \in [Nodes -> Elem \cup {Free, Raw}] /\ mem'[n] = Free
        /\ \A m \in Nodes : m # n => mem'[m] = mem[m]
    BY <1>1, <1>5 DEF TypeOK
  <1>9. Chains(ch)' /\ Same(ch) /\ \A k : HasKey(s, k)' <=> HasKey(s, k)
    BY <1>1, <1>7, <1>8, ChainsKept DEF DictInv
  <1>10. Modes' /\ Reading(ch)'
    BY <1>1, WriterModes, ReadersStay DEF DictInv
  <1>11. CASE writer.value = Absent
    <2>1. writer' = None /\ writer.elem = NULL
      BY <1>1, <1>4, <1>11 DEF WriterOn
    <2>2. TypeOK' /\ Writing(ch)'
      BY <1>1, <1>8, <2>1 DEF TypeOK, Writing
    <2>3. Sized(ch)'
      BY <1>1, <2>1 DEF DictInv, Sized
    <2>4. \A m \in Nodes : mem'[m] # Free => InHand(m)' \/ (mem[m] # Free /\ ~InHand(m))
      BY <1>1, <1>5, <1>8, <2>1, DictAssumption DEF InHand
    <2> QED  BY <1>9, <1>10, <2>2, <2>3, <2>4, KeptStill DEF DictInv
  <1>12. CASE writer.value # Absent
    <2>1. /\ writer' \in WriterCall /\ writer' # None
          /\ writer'.pc = "fill" /\ writer'.elem = writer.elem /\ writer'.c = writer.c
          /\ writer'.key = writer.key /\ writer'.value = writer.value /\ writer'.bucket = b
      BY <1>1, <1>2, <1>12, WriterGoes
    <2>2. TypeOK'
      BY <1>1, <1>8, <2>1 DEF TypeOK
    <2>3. writer.elem \in Nodes /\ mem[writer.elem] = Raw /\ writer.elem # n
      BY <1>1, <1>4, <1>6, <1>12, DictAssumption DEF ElementOn
    <2>4. WriterOn(s)' /\ ElementOn(s)'
      BY <1>1, <1>4, <1>6, <1>8, <1>9, <1>12, <2>1, <2>3 DEF WriterOn, ElementOn
    <2>5. Writing(ch)'
      BY <2>1, <2>4 DEF Writing
    <2>6. Sized(ch)'
      BY <1>1, <2>1 DEF DictInv, Sized
    <2>7. \A m \in Nodes : mem'[m] # Free => InHand(m)' \/ (mem[m] # Free /\ ~InHand(m))
      BY <1>1, <1>5, <1>8, <2>1 DEF InHand
    <2> QED  BY <1>9, <1>10, <2>2, <2>5, <2>6, <2>7, KeptStill DEF DictInv
  <1> QED  BY <1>9, <1>11, <1>12

\* A step that writes to the writer's own element leaves everybody else alone.
LEMMA OwnElement ==
    ASSUME TypeOK, Modes, NEW ch \in [Buckets -> Seq(Nodes)], DictInv(ch), writer # None,
           writer.pc \in {"fill", "link"}, NEW to \in {"link", "head"},
           writer' = [writer EXCEPT !.pc = to], UNCHANGED <<table, reader, mode>>,
           NEW e, mem' = [mem EXCEPT ![writer.elem] = e],
           e = [key |-> writer.key, value |-> writer.value,
                next |-> IF to = "link" THEN Raw ELSE table[writer.bucket].next]
    PROVE  TypeOK' /\ Modes' /\ DictInv(ch)' /\ Same(ch)
  <1>1. writer \in WriterCall
    BY WriterTypes
  <1>2. PICK b \in Buckets : b = writer.bucket
    BY WriterTypes
  <1> DEFINE s == ch[b]
  <1>3. s \in Seq(Nodes) /\ WriterOn(s) /\ ElementOn(s)
    BY <1>2 DEF DictInv, Writing
  <1>4. writer.value \in Values /\ writer.key \in Keys
    BY <1>3, WriterTypes DEF WriterOn
  <1>5. writer.elem \in Nodes
    BY <1>3, <1>4, DictAssumption DEF ElementOn
  <1>6. PICK n \in Nodes : n = writer.elem
    BY <1>5
  <1>7. /\ mem[n] = Raw \/ (mem[n] \in Elem /\ mem[n].key = writer.key)
        /\ mem[n] # Free
    <2>1. CASE writer.pc = "fill"
      BY <1>3, <1>4, <1>6, <2>1, DictAssumption DEF ElementOn
    <2>2. CASE writer.pc = "link"
      <3>1. mem[n] = [key |-> writer.key, value |-> writer.value, next |-> Raw]
        BY <1>3, <1>6, <2>2 DEF ElementOn
      <3>2. mem[n] \in Elem /\ mem[n].key = writer.key
        BY <1>4, <3>1 DEF Elem
      <3> QED  BY <3>2, DictAssumption
    <2> QED  BY <2>1, <2>2
  <1>8. Off(n, ch)
    <2>1. CASE mem[n] = Raw
      BY <2>1, UnfilledOff, DictAssumption DEF DictInv
    <2>2. CASE mem[n] \in Elem /\ mem[n].key = writer.key
      <3>1. ~HasKey(ch[_dict_index(mem[n].key)], mem[n].key)
        BY <1>2, <1>3, <2>2 DEF WriterOn
      <3> QED  BY <3>1, UnkeyedOff DEF DictInv
    <2> QED  BY <1>7, <2>1, <2>2
  <1>9. e \in Elem
    <2>1. table[writer.bucket].next \in Nodes \cup {NULL}
      BY <1>2 DEF TypeOK
    <2> QED  BY <1>4, <2>1 DEF Elem
  <1>10. /\ mem' \in [Nodes -> Elem \cup {Free, Raw}] /\ mem'[n] = e
         /\ \A m \in Nodes : m # n => mem'[m] = mem[m]
    BY <1>6, <1>9 DEF TypeOK
  <1>11. Chains(ch)' /\ Same(ch) /\ \A k : HasKey(s, k)' <=> HasKey(s, k)
    BY <1>8, <1>10, ChainsKept DEF DictInv
  <1>12. /\ writer' \in WriterCall /\ writer' # None
         /\ writer'.pc = to /\ writer'.elem = n /\ writer'.c = writer.c
         /\ writer'.key = writer.key /\ writer'.value = writer.value /\ writer'.bucket = b
    BY <1>1, <1>2, <1>6, WriterGoes
  <1>13. TypeOK' /\ Modes'
    BY <1>10, <1>12, WriterModes DEF TypeOK
  <1>14. WriterOn(s)'
    BY <1>3, <1>4, <1>11, <1>12, DictAssumption, <1>2 DEF WriterOn
  <1>15. ElementOn(s)'
    <2>1. mem'[n] = [key |-> writer'.key, value |-> writer'.value,
                     next |-> IF writer'.pc = "link" THEN Raw ELSE table'[writer'.bucket].next]
      BY <1>2, <1>10, <1>12
    <2> QED  BY <1>12, <2>1 DEF ElementOn
  <1>16. Writing(ch)' /\ Reading(ch)'
    BY <1>12, <1>14, <1>15, ReadersStay DEF Writing, DictInv
  <1>17. Sized(ch)'
    BY <1>12 DEF DictInv, Sized
  <1>18. Kept(ch)'
    <2>1. \A m \in Nodes : mem'[m] # Free => InHand(m)' \/ (mem[m] # Free /\ ~InHand(m))
      BY <1>6, <1>10, <1>12 DEF InHand
    <2> QED  BY <2>1, KeptStill DEF DictInv
  <1> QED  BY <1>6, <1>8, <1>11, <1>13, <1>16, <1>17, <1>18 DEF DictInv

\* Its fields are written, ...
LEMMA FillKeeps ==
    ASSUME TypeOK, Modes, NEW ch \in [Buckets -> Seq(Nodes)], DictInv(ch), Fill
    PROVE  TypeOK' /\ Modes' /\ DictInv(ch)' /\ Same(ch)
  <1> DEFINE e == [key |-> writer.key, value |-> writer.value, next |-> Raw]
  <1>1. /\ writer # None /\ writer.pc = "fill" /\ writer' = [writer EXCEPT !.pc = "link"]
        /\ mem' = [mem EXCEPT ![writer.elem] = e]
        /\ UNCHANGED <<table, reader, mode>>
    BY DEF Fill, Goto
  <1>2. e = [key |-> writer.key, value |-> writer.value,
             next |-> IF "link" = "link" THEN Raw ELSE table[writer.bucket].next]
    OBVIOUS
  <1> HIDE DEF e
  <1> QED  BY <1>1, <1>2, OwnElement

\* ... and its next.
LEMMA LinkKeeps ==
    ASSUME TypeOK, Modes, NEW ch \in [Buckets -> Seq(Nodes)], DictInv(ch), Link
    PROVE  TypeOK' /\ Modes' /\ DictInv(ch)' /\ Same(ch)
  <1> DEFINE e == [key |-> writer.key, value |-> writer.value,
                   next |-> IF "head" = "link" THEN Raw ELSE table[writer.bucket].next]
             old == [key |-> writer.key, value |-> writer.value, next |-> Raw]
  <1>1. /\ writer # None /\ writer.pc = "link" /\ writer' = [writer EXCEPT !.pc = "head"]
        /\ mem' = [mem EXCEPT ![writer.elem].next = table[writer.bucket].next]
        /\ UNCHANGED <<table, reader, mode>>
    BY DEF Link, Goto
  <1>2. mem[writer.elem] = old
    BY <1>1 DEF DictInv, Writing, ElementOn
  <1>3. e = [old EXCEPT !.next = table[writer.bucket].next]
    OBVIOUS
  <1>4. mem' = [mem EXCEPT ![writer.elem] = e]
    BY <1>1, <1>2, <1>3
  <1>5. e = [key |-> writer.key, value |-> writer.value,
             next |-> IF "head" = "link" THEN Raw ELSE table[writer.bucket].next]
    OBVIOUS
  <1> HIDE DEF e, old
  <1> QED  BY <1>1, <1>4, <1>5, OwnElement

\* The element is complete when the bucket points to it.
LEMMA PublishKeeps ==
    ASSUME TypeOK, Modes, NEW ch \in [Buckets -> Seq(Nodes)], DictInv(ch), Publish
    PROVE  /\ TypeOK' /\ Modes'
           /\ \E b \in Buckets : \E n \in Nodes :
                 /\ b = writer.bucket /\ n = writer.elem /\ mem[n] \in Elem
                 /\ mem[n].key = writer.key /\ mem[n].value = writer.value
                 /\ DictInv([ch EXCEPT ![b] = Before(n, ch[b])])'
  <1>1. /\ writer # None /\ writer.pc = "head" /\ writer' = [writer EXCEPT !.pc = "size"]
        /\ table' = [table EXCEPT ![writer.bucket].next = writer.elem]
        /\ UNCHANGED <<mem, reader, mode>>
    BY DEF Publish, Goto
  <1>2. PICK b \in Buckets : b = writer.bucket
    BY <1>1, WriterTypes
  <1> DEFINE s == ch[b]
  <1>3. writer \in WriterCall
    BY <1>1, WriterTypes
  <1>4. s \in Seq(Nodes) /\ ChainOf(b, s) /\ WriterOn(s) /\ ElementOn(s) /\ Len(s) \in Nat
    BY <1>1, <1>2, Places DEF DictInv, Chains, Writing
  <1>5. PICK n \in Nodes : n = writer.elem
    BY <1>1, <1>4 DEF ElementOn
  <1>6. /\ mem[n] = [key |-> writer.key, value |-> writer.value, next |-> table[b].next]
        /\ ~HasKey(s, writer.key) /\ _dict_index(writer.key) = b
        /\ writer.value \in Values /\ writer.key \in Keys
    BY <1>1, <1>2, <1>4, <1>5, WriterTypes DEF ElementOn, WriterOn
  <1>7. table[b].next = Place(s, 1) /\ table[b].next \in Nodes \cup {NULL}
    BY <1>4 DEF ChainOf, TypeOK
  <1>8. mem[n] \in Elem /\ mem[n].key = writer.key /\ mem[n].value = writer.value
        /\ mem[n].next = Place(s, 1)
    BY <1>6, <1>7 DEF Elem
  <1> DEFINE t == Before(n, s)
             cs == [ch EXCEPT ![b] = t]
  <1>9. /\ t \in Seq(Nodes) /\ Len(t) = Len(s) + 1 /\ t[1] = n /\ Place(t, 1) = n
        /\ \A i \in 2..Len(t) : t[i] = s[i - 1] /\ i - 1 \in 1..Len(s)
        /\ \A i \in 1..Len(s) : t[i + 1] = s[i]
        /\ \A i \in 1..(Len(s) + 1) : Place(t, i + 1) = Place(s, i)
    BY <1>4, BeforeIs
  <1>10. /\ cs \in [Buckets -> Seq(Nodes)] /\ cs[b] = t
         /\ \A d \in Buckets : d # b => cs[d] = ch[d]
    BY <1>9
  <1>11. /\ table' \in [Buckets -> [size : Nat, next : Nodes \cup {NULL}]]
         /\ \A d \in Buckets : table'[d].size = table[d].size
         /\ \A d \in Buckets : d # b => table'[d].next = table[d].next
         /\ table'[b].next = n
    BY <1>1, <1>2, <1>5 DEF TypeOK
  <1>12. /\ writer' \in WriterCall /\ writer' # None
         /\ writer'.pc = "size" /\ writer'.elem = n
         /\ writer'.key = writer.key /\ writer'.value = writer.value /\ writer'.bucket = b
    BY <1>1, <1>2, <1>5, WriterGoes
  <1>13. TypeOK' /\ Modes'
    BY <1>1, <1>11, <1>12, WriterModes DEF TypeOK
  <1> HIDE DEF t, cs
  <1>14. ChainOf(b, t)'
    <2>1. ASSUME NEW i \in 1..Len(t)
          PROVE  /\ mem[t[i]] \in Elem /\ _dict_index(mem[t[i]].key) = b
                 /\ mem[t[i]].next = Place(t, i + 1)
      <3>1. CASE i = 1
        <4>1. Place(t, i + 1) = Place(s, 1)
          BY <1>4, <1>9, <3>1
        <4> QED  BY <1>6, <1>8, <1>9, <3>1, <4>1
      <3>2. CASE i # 1
        <4>1. i \in 2..Len(t) /\ i \in 1..(Len(s) + 1) /\ (i - 1) + 1 = i
          BY <1>4, <1>9, <3>2
        <4>2. t[i] = s[i - 1] /\ i - 1 \in 1..Len(s)
          BY <1>9, <4>1
        <4>3. mem[s[i - 1]].next = Place(s, (i - 1) + 1)
          BY <1>4, <4>2 DEF ChainOf
        <4> QED  BY <1>4, <1>9, <4>1, <4>2, <4>3 DEF ChainOf
      <3> QED  BY <3>1, <3>2
    <2>2. ASSUME NEW i \in 1..Len(t), NEW j \in 1..Len(t), mem[t[i]].key = mem[t[j]].key
          PROVE  i = j
      <3>1. \A h \in 2..Len(t) : mem[t[h]].key # writer.key
        BY <1>6, <1>9 DEF HasKey
      <3>2. CASE i = 1 \/ j = 1
        <4>1. /\ i = 1 \/ i \in 2..Len(t)
              /\ j = 1 \/ j \in 2..Len(t)
          BY <1>4, <1>9
        <4>2. mem[t[1]].key = writer.key
          BY <1>8, <1>9
        <4> QED  BY <2>2, <3>1, <3>2, <4>1, <4>2
      <3>3. CASE i # 1 /\ j # 1
        <4>1. i \in 2..Len(t) /\ j \in 2..Len(t)
          BY <1>4, <1>9, <3>3
        <4>2. /\ i - 1 \in 1..Len(s) /\ j - 1 \in 1..Len(s)
              /\ mem[s[i - 1]].key = mem[s[j - 1]].key
          BY <1>9, <2>2, <4>1
        <4>3. i - 1 = j - 1
          BY <1>4, <4>2 DEF ChainOf
        <4> QED  BY <4>1, <4>3
      <3> QED  BY <3>2, <3>3
    <2> QED  BY <1>1, <1>9, <1>11, <2>1, <2>2 DEF ChainOf
  <1>15. Chains(cs)'
    <2>1. ASSUME NEW d \in Buckets, d # b PROVE ChainOf(d, ch[d])'
      <3>1. ch[d] \in Seq(Nodes) /\ ChainOf(d, ch[d])
        BY DEF DictInv, Chains
      <3> QED  BY <1>1, <1>11, <2>1, <3>1, ChainKept
    <2>2. \A d \in Buckets : ChainOf(d, cs[d])'
      BY <1>10, <1>14, <2>1
    <2> QED  BY <2>2 DEF Chains
  <1>16. WriterOn(t)' /\ ElementOn(t)'
    <2>1. writer.value # Absent
      BY <1>6, DictAssumption
    <2>2. t # <<>>
      BY <1>4, <1>9
    <2> QED  BY <1>6, <1>9, <1>12, <2>1, <2>2 DEF WriterOn, ElementOn
  <1>17. Writing(cs)'
    BY <1>10, <1>12, <1>16 DEF Writing
  <1>18. Reading(cs)'
    <2> SUFFICES ASSUME NEW r \in Readers, reader[r] # None, reader[r].pc = "walk"
                 PROVE  Along(reader[r].c, cs[_dict_index(reader[r].key)])
      BY <1>1 DEF Reading
    <2>1. reader[r].key \in Keys
      BY DEF TypeOK, ReaderCall
    <2> DEFINE d == _dict_index(reader[r].key)
    <2>2. d \in Buckets /\ Along(reader[r].c, ch[d])
      BY <2>1, IndexInRange DEF DictInv, Reading
    <2> HIDE DEF d
    <2>3. CASE d # b
      BY <1>10, <2>2, <2>3 DEF d
    <2>4. CASE d = b
      <3>1. PICK i \in 1..(Len(s) + 1) : reader[r].c = Place(s, i)
        BY <2>2, <2>4 DEF Along
      <3>2. i + 1 \in 1..(Len(t) + 1) /\ reader[r].c = Place(t, i + 1)
        BY <1>4, <1>9, <3>1
      <3> QED  BY <1>10, <2>4, <3>2 DEF Along, d
    <2> QED  BY <2>3, <2>4
  <1>19. Sized(cs)'
    <2>1. ASSUME NEW d \in Buckets
          PROVE  Len(cs[d]) <= table'[d].size + IF d = b THEN 1 ELSE 0
      <3>1. Len(ch[d]) <= table[d].size + 0
        BY <1>1 DEF DictInv, Sized
      <3>2. Len(cs[d]) = IF d = b THEN Len(s) + 1 ELSE Len(ch[d])
        BY <1>9, <1>10
      <3>3. table'[d].size = table[d].size /\ table[d].size \in Nat
        BY <1>11 DEF TypeOK
      <3> QED  BY <1>4, <3>1, <3>2, <3>3
    <2>2. \A d : d = b <=> (writer' # None /\ writer'.pc = "size" /\ writer'.bucket = d)
      BY <1>12
    <2> QED  BY <2>1, <2>2 DEF Sized
  <1>20. Kept(cs)'
    <2> SUFFICES ASSUME NEW m \in Nodes, mem[m] # Free, m # n
                 PROVE  \E d \in Buckets : \E j \in 1..Len(cs[d]) : cs[d][j] = m
      BY <1>1, <1>12 DEF Kept, InHand
    <2>1. ~InHand(m)
      BY <1>1, <1>5 DEF InHand
    <2>2. PICK d \in Buckets : \E j \in 1..Len(ch[d]) : ch[d][j] = m
      BY <2>1 DEF DictInv, Kept
    <2>3. CASE d # b
      BY <1>10, <2>2, <2>3
    <2>4. CASE d = b
      <3>1. PICK j \in 1..Len(s) : s[j] = m
        BY <2>2, <2>4
      <3>2. j + 1 \in 1..Len(t) /\ t[j + 1] = m
        BY <1>4, <1>9, <3>1
      <3> QED  BY <1>10, <3>2
    <2> QED  BY <2>3, <2>4
  <1>21. DictInv(cs)'
    BY <1>15, <1>17, <1>18, <1>19, <1>20 DEF DictInv
  <1> QED  BY <1>2, <1>5, <1>8, <1>12, <1>13, <1>21 DEF cs, t

\* The bucket is counted up.
LEMMA CountKeeps ==
    ASSUME TypeOK, Modes, NEW ch \in [Buckets -> Seq(Nodes)], DictInv(ch), Count
    PROVE  TypeOK' /\ Modes' /\ DictInv(ch)' /\ \A b \in Buckets : table'[b].next = table[b].next
  <1>1. /\ writer # None /\ writer.pc = "size" /\ writer' = None
        /\ table' = [table EXCEPT ![writer.bucket].size = @ + 1]
        /\ UNCHANGED <<mem, reader, mode>>
    BY DEF Count
  <1>2. PICK b \in Buckets : b = writer.bucket
    BY <1>1, WriterTypes
  <1>3. ch[b] \in Seq(Nodes) /\ ch[b] # <<>> /\ ch[b][1] = writer.elem /\ 1 \in 1..Len(ch[b])
    <2>1. ElementOn(ch[b])
      BY <1>1, <1>2 DEF DictInv, Writing
    <2>2. ch[b] \in Seq(Nodes)
      OBVIOUS
    <2> QED  BY <1>1, <2>1, <2>2, EmptySeq, LenProperties DEF ElementOn
  <1>4. /\ table' \in [Buckets -> [size : Nat, next : Nodes \cup {NULL}]]
        /\ \A d \in Buckets : table'[d].next = table[d].next
        /\ \A d \in Buckets : d # b => table'[d].size = table[d].size
        /\ table'[b].size = table[b].size + 1
    BY <1>1, <1>2 DEF TypeOK
  <1>5. TypeOK' /\ Modes'
    BY <1>1, <1>4, WriterModes DEF TypeOK
  <1>6. Chains(ch)'
    <2> SUFFICES ASSUME NEW d \in Buckets PROVE ChainOf(d, ch[d])'
      BY DEF Chains
    <2>1. ch[d] \in Seq(Nodes) /\ ChainOf(d, ch[d])
      BY DEF DictInv, Chains
    <2> QED  BY <1>1, <1>4, <2>1, ChainKept
  <1>7. Writing(ch)' /\ Reading(ch)'
    BY <1>1, ReadersStay DEF Writing, DictInv
  <1>8. Sized(ch)'
    <2>1. ASSUME NEW d \in Buckets PROVE Len(ch[d]) <= table'[d].size + 0
      <3>1. Len(ch[d]) <= table[d].size + IF d = b THEN 1 ELSE 0
        BY <1>1, <1>2 DEF DictInv, Sized
      <3>2. table[d].size \in Nat /\ table'[d].size \in Nat
        BY <1>4 DEF TypeOK
      <3> QED  BY <1>4, <3>1, <3>2
    <2> QED  BY <1>1, <2>1 DEF Sized
  <1>9. Kept(ch)'
    <2> SUFFICES ASSUME NEW m \in Nodes, mem[m] # Free
                 PROVE  \E d \in Buckets : \E j \in 1..Len(ch[d]) : ch[d][j] = m
      BY <1>1 DEF Kept
    <2>1. m = writer.elem \/ ~InHand(m)
      BY <1>1 DEF InHand
    <2> QED  BY <1>3, <2>1 DEF DictInv, Kept
  <1> QED  BY <1>4, <1>5, <1>6, <1>7, <1>8, <1>9 DEF DictInv

-----------------------------------------------------------------------------
(* The steps of a look-up. *)

\* A look-up changes its own call only; it may, if it is shared or alone.
LEMMA ReaderKeeps ==
    ASSUME TypeOK, Modes, NEW ch \in [Buckets -> Seq(Nodes)], DictInv(ch), NEW r \in Readers,
           UNCHANGED <<mem, table, writer, mode>>,
           NEW call \in ReaderCall \cup {None}, reader' = [reader EXCEPT ![r] = call],
           call # None => ~destroyed /\ (shared \/ writer = None),
           call # None /\ call.pc = "walk" => Along(call.c, ch[_dict_index(call.key)])
    PROVE  TypeOK' /\ Modes' /\ DictInv(ch)'
  <1>1. reader'[r] = call /\ \A q \in Readers : q # r => reader'[q] = reader[q]
    BY DEF TypeOK
  <1>2. TypeOK'
    BY DEF TypeOK
  <1>3. Modes'
    BY <1>1 DEF Modes, Quiet
  <1>4. Chains(ch)'
    BY ChainsUnchanged DEF DictInv
  <1>5. Writing(ch)'
    BY DEF DictInv, Writing, WriterOn, ElementOn, HasKey
  <1>6. Reading(ch)'
    BY <1>1 DEF DictInv, Reading
  <1>7. Sized(ch)' /\ Kept(ch)'
    BY DEF DictInv, Sized, Kept, InHand
  <1> QED  BY <1>2, <1>3, <1>4, <1>5, <1>6, <1>7 DEF DictInv

\* A look-up starts at the head of its key's chain, ...
LEMMA FindKeeps ==
    ASSUME TypeOK, Modes, NEW ch \in [Buckets -> Seq(Nodes)], DictInv(ch), NEW r \in Readers,
           NEW k \in Keys, dict_find(r, k)
    PROVE  TypeOK' /\ Modes' /\ DictInv(ch)'
  <1> DEFINE b == _dict_index(k)
             call == [pc |-> "walk", key |-> k, c |-> table[b].next, value |-> Absent]
  <1>1. b \in Buckets
    BY IndexInRange
  <1>2. ch[b] \in Seq(Nodes) /\ ChainOf(b, ch[b]) /\ Len(ch[b]) \in Nat
    BY <1>1, Places DEF DictInv, Chains
  <1>3. Along(call.c, ch[b])
    <2>1. 1 \in 1..(Len(ch[b]) + 1) /\ call.c = Place(ch[b], 1)
      BY <1>2 DEF ChainOf
    <2> QED  BY <2>1 DEF Along
  <1>4. call \in ReaderCall /\ call.key = k
    <2>1. table[b].next \in Nodes \cup {NULL}
      BY <1>1 DEF TypeOK
    <2> QED  BY <2>1 DEF ReaderCall
  <1>5. /\ ~destroyed /\ (shared \/ Quiet) /\ reader' = [reader EXCEPT ![r] = call]
        /\ UNCHANGED <<mem, table, writer, mode>>
    BY DEF dict_find
  <1>6. call # None => ~destroyed /\ (shared \/ writer = None)
    BY <1>5 DEF Quiet
  <1>7. Along(call.c, ch[_dict_index(call.key)])
    BY <1>3, <1>4
  <1> HIDE DEF call
  <1> QED  BY <1>4, <1>5, <1>6, <1>7, ReaderKeeps

\* A reader that is on a chain is at its end or on an element of it.
LEMMA ReaderAt ==
    ASSUME TypeOK, NEW ch \in [Buckets -> Seq(Nodes)], DictInv(ch), NEW r \in Readers,
           reader[r] # None, reader[r].pc = "walk"
    PROVE  \E b \in Buckets :
              /\ b = _dict_index(reader[r].key) /\ ChainOf(b, ch[b]) /\ Len(ch[b]) \in Nat
              /\ reader[r] \in ReaderCall
              /\ \E i \in 1..(Len(ch[b]) + 1) :
                    /\ reader[r].c = Place(ch[b], i)
                    /\ i \in 1..Len(ch[b]) =>
                          /\ reader[r].c = ch[b][i] /\ reader[r].c # NULL
                          /\ mem[ch[b][i]] \in Elem
                          /\ mem[ch[b][i]].next = Place(ch[b], i + 1)
                    /\ i \notin 1..Len(ch[b]) => reader[r].c = NULL
  <1>1. reader[r] \in ReaderCall /\ reader[r].key \in Keys
    BY DEF TypeOK, ReaderCall
  <1>2. PICK b \in Buckets : b = _dict_index(reader[r].key)
    BY <1>1, IndexInRange
  <1>3. ch[b] \in Seq(Nodes) /\ ChainOf(b, ch[b]) /\ Len(ch[b]) \in Nat
    BY <1>2, Places DEF DictInv, Chains
  <1>4. PICK i \in 1..(Len(ch[b]) + 1) : reader[r].c = Place(ch[b], i)
    BY <1>2 DEF DictInv, Reading, Along
  <1>5. i \in 1..Len(ch[b]) => /\ reader[r].c = ch[b][i] /\ reader[r].c # NULL
                               /\ mem[ch[b][i]] \in Elem
                               /\ mem[ch[b][i]].next = Place(ch[b], i + 1)
    BY <1>3, <1>4, Places DEF ChainOf
  <1>6. i \notin 1..Len(ch[b]) => reader[r].c = NULL
    BY <1>3, <1>4, Places
  <1> QED  BY <1>1, <1>2, <1>3, <1>4, <1>5, <1>6

\* ... goes on along it, ...
LEMMA BucketFindKeeps ==
    ASSUME TypeOK, Modes, NEW ch \in [Buckets -> Seq(Nodes)], DictInv(ch), NEW r \in Readers,
           _bucket_find(r)
    PROVE  TypeOK' /\ Modes' /\ DictInv(ch)'
  <1>1. /\ reader[r] # None /\ reader[r].pc = "walk"
        /\ UNCHANGED <<mem, table, writer, mode>>
    BY DEF _bucket_find
  <1>2. PICK b \in Buckets :
              /\ b = _dict_index(reader[r].key) /\ ChainOf(b, ch[b]) /\ Len(ch[b]) \in Nat
              /\ reader[r] \in ReaderCall
              /\ \E i \in 1..(Len(ch[b]) + 1) :
                    /\ reader[r].c = Place(ch[b], i)
                    /\ i \in 1..Len(ch[b]) =>
                          /\ reader[r].c = ch[b][i] /\ reader[r].c # NULL
                          /\ mem[ch[b][i]] \in Elem
                          /\ mem[ch[b][i]].next = Place(ch[b], i + 1)
                    /\ i \notin 1..Len(ch[b]) => reader[r].c = NULL
    BY <1>1, ReaderAt
  <1>3. ~destroyed /\ (shared \/ writer = None)
    BY <1>1 DEF Modes, Quiet
  <1>4. CASE reader[r].c = NULL
    <2> DEFINE call == [reader[r] EXCEPT !.pc = "found"]
    <2>1. reader' = [reader EXCEPT ![r] = call]
      BY <1>4 DEF _bucket_find
    <2>2. call \in ReaderCall /\ call.pc = "found"
      BY <1>2 DEF ReaderCall
    <2> HIDE DEF call
    <2> QED  BY <1>1, <1>3, <2>1, <2>2, ReaderKeeps
  <1>5. CASE reader[r].c # NULL
    <2>1. PICK i \in 1..Len(ch[b]) :
              /\ reader[r].c = ch[b][i] /\ mem[ch[b][i]] \in Elem
              /\ mem[ch[b][i]].next = Place(ch[b], i + 1)
      BY <1>2, <1>5
    <2>2. CASE Hit(r)
      <3> DEFINE call == [reader[r] EXCEPT !.pc = "found", !.value = mem[reader[r].c].value]
      <3>1. reader' = [reader EXCEPT ![r] = call]
        BY <1>1, <1>5, <2>2 DEF _bucket_find, TypeOK
      <3>2. mem[reader[r].c].value \in Values
        BY <2>1 DEF Elem
      <3>3. call \in ReaderCall /\ call.pc = "found"
        BY <1>2, <3>2 DEF ReaderCall
      <3> HIDE DEF call
      <3> QED  BY <1>1, <1>3, <3>1, <3>3, ReaderKeeps
    <2>3. CASE ~Hit(r)
      <3> DEFINE call == [reader[r] EXCEPT !.c = mem[reader[r].c].next]
      <3>1. reader' = [reader EXCEPT ![r] = call]
        BY <1>5, <2>3 DEF _bucket_find
      <3>2. Place(ch[b], i + 1) \in Nodes \cup {NULL} /\ ch[b] \in Seq(Nodes)
        BY Places
      <3>3. call \in ReaderCall /\ call.key = reader[r].key /\ call.c = Place(ch[b], i + 1)
        BY <1>2, <2>1, <3>2 DEF ReaderCall
      <3>4. i + 1 \in 1..(Len(ch[b]) + 1)
        BY <1>2
      <3> HIDE DEF call
      <3>5. Along(call.c, ch[_dict_index(call.key)])
        BY <1>2, <3>3, <3>4 DEF Along
      <3> QED  BY <1>1, <1>3, <3>1, <3>3, <3>5, ReaderKeeps
    <2> QED  BY <2>2, <2>3
  <1> QED  BY <1>4, <1>5

\* ... and ends.
LEMMA FindReturnsKeeps ==
    ASSUME TypeOK, Modes, NEW ch \in [Buckets -> Seq(Nodes)], DictInv(ch), NEW r \in Readers,
           FindReturns(r)
    PROVE  TypeOK' /\ Modes' /\ DictInv(ch)'
  BY ReaderKeeps DEF FindReturns

-----------------------------------------------------------------------------
(* The end. *)

\* dict_destroy is called when nobody is at it.
LEMMA DestroyKeeps ==
    ASSUME TypeOK, Modes, NEW ch \in [Buckets -> Seq(Nodes)], DictInv(ch), dict_destroy
    PROVE  TypeOK' /\ Modes' /\ DictInv(ch)'
  <1>1. Quiet /\ destroyed' = TRUE /\ UNCHANGED <<mem, table, writer, reader, shared>>
    BY DEF dict_destroy
  <1>2. TypeOK' /\ Modes'
    BY <1>1 DEF TypeOK, Modes, Quiet
  <1>3. Chains(ch)' /\ Writing(ch)' /\ Reading(ch)'
    BY <1>1, ChainsUnchanged, ReadersStay DEF DictInv, Writing, Quiet
  <1>4. Sized(ch)' /\ Kept(ch)'
    BY <1>1 DEF DictInv, Sized, Kept, InHand
  <1> QED  BY <1>2, <1>3, <1>4 DEF DictInv

\* A round of dict_destroy takes the first element of a chain.
LEMMA FreeFirstKeeps ==
    ASSUME TypeOK, Modes, NEW ch \in [Buckets -> Seq(Nodes)], DictInv(ch),
           NEW b \in Buckets, FreeFirst(b)
    PROVE  TypeOK' /\ Modes' /\ \E cs \in [Buckets -> Seq(Nodes)] : DictInv(cs)'
  <1> DEFINE s == ch[b]
  <1>1. /\ destroyed /\ table[b].next # NULL /\ table[b].size > 0
        /\ table' = [table EXCEPT ![b] = [size |-> @.size - 1, next |-> mem[@.next].next]]
        /\ mem' = [mem EXCEPT ![table[b].next] = Free]
        /\ UNCHANGED <<writer, reader, mode>>
    BY DEF FreeFirst
  <1>2. writer = None /\ \A r \in Readers : reader[r] = None
    BY <1>1 DEF Modes, Quiet
  <1>3. s \in Seq(Nodes) /\ ChainOf(b, s) /\ Len(s) \in Nat
    BY Places DEF DictInv, Chains
  <1>4. 1 \in 1..Len(s) /\ table[b].next = s[1]
    <2>1. table[b].next = Place(s, 1)
      BY <1>3 DEF ChainOf
    <2> QED  BY <1>1, <1>3, <2>1, Places
  <1>5. PICK n \in Nodes : n = s[1] /\ mem[n] \in Elem /\ mem[n].next = Place(s, 2)
                           /\ _dict_index(mem[n].key) = b
    BY <1>3, <1>4, Places DEF ChainOf
  <1> DEFINE t == Without(s, 1)
             cs == [ch EXCEPT ![b] = t]
  <1>6. /\ t \in Seq(Nodes) /\ Len(t) = Len(s) - 1
        /\ \A j \in 1..Len(t) : t[j] = s[j + 1] /\ j + 1 \in 1..Len(s)
        /\ \A j \in 1..Len(s) : Place(t, j) = Place(s, j + 1)
        /\ \A j \in 1..Len(s) : j # 1 => \E h \in 1..Len(t) : t[h] = s[j]
    <2>1. \A j \in 1..Len(t) : ~(j < 1)
      BY <1>3, <1>4, WithoutIs
    <2> QED  BY <1>3, <1>4, <2>1, WithoutIs
  <1>7. /\ cs \in [Buckets -> Seq(Nodes)] /\ cs[b] = t
        /\ \A d \in Buckets : d # b => cs[d] = ch[d]
    BY <1>6
  <1>8. /\ mem' \in [Nodes -> Elem \cup {Free, Raw}] /\ mem'[n] = Free
        /\ \A m \in Nodes : m # n => mem'[m] = mem[m]
    BY <1>1, <1>4, <1>5 DEF TypeOK
  <1>9. /\ table'[b].size = table[b].size - 1 /\ table[b].size - 1 \in Nat
        /\ table'[b].next = Place(s, 2) /\ Place(s, 2) \in Nodes \cup {NULL}
        /\ \A d \in Buckets : d # b => table'[d] = table[d]
        /\ table' \in [Buckets -> [size : Nat, next : Nodes \cup {NULL}]]
    <2> DEFINE e == [size |-> table[b].size - 1, next |-> mem[n].next]
    <2>1. table' = [table EXCEPT ![b] = e]
      BY <1>1, <1>4, <1>5 DEF TypeOK
    <2>2. table[b].size - 1 \in Nat
      BY <1>1 DEF TypeOK
    <2>3. e.size = table[b].size - 1 /\ e.next = Place(s, 2) /\ Place(s, 2) \in Nodes \cup {NULL}
          /\ e \in [size : Nat, next : Nodes \cup {NULL}]
      BY <1>3, <1>5, <2>2, Places
    <2> HIDE DEF e
    <2> QED  BY <2>1, <2>2, <2>3 DEF TypeOK
  <1>10. TypeOK' /\ Modes'
    BY <1>1, <1>2, <1>8, <1>9 DEF TypeOK, Modes, Quiet
  <1> HIDE DEF t, cs
  <1>11. ChainOf(b, t)'
    <2>1. \A j \in 1..Len(t) : t[j] # n
      <3> TAKE j \in 1..Len(t)
      <3>1. t[j] = s[j + 1] /\ j + 1 \in 1..Len(s) /\ j + 1 # 1
        BY <1>3, <1>6
      <3>2. s[j + 1] # s[1]
        BY <1>3, <1>4, <3>1, ChainNodes
      <3> QED  BY <1>5, <3>1, <3>2
    <2>2. ASSUME NEW j \in 1..Len(t)
          PROVE  /\ mem'[t[j]] = mem[s[j + 1]] /\ mem[s[j + 1]] \in Elem
                 /\ _dict_index(mem[s[j + 1]].key) = b
                 /\ mem[s[j + 1]].next = Place(t, j + 1)
      <3>1. t[j] = s[j + 1] /\ j + 1 \in 1..Len(s) /\ t[j] \in Nodes
        BY <1>3, <1>6, Places
      <3>2. Place(t, j + 1) = Place(s, (j + 1) + 1)
        BY <1>6, <3>1
      <3> QED  BY <1>3, <1>8, <2>1, <3>1, <3>2 DEF ChainOf
    <2>3. ASSUME NEW i \in 1..Len(t), NEW j \in 1..Len(t), mem'[t[i]].key = mem'[t[j]].key
          PROVE  i = j
      <3>1. mem[s[i + 1]].key = mem[s[j + 1]].key /\ i + 1 \in 1..Len(s) /\ j + 1 \in 1..Len(s)
        BY <1>6, <2>2, <2>3
      <3>2. i + 1 = j + 1
        BY <1>3, <3>1 DEF ChainOf
      <3> QED  BY <1>3, <1>6, <3>2
    <2>4. table'[b].next = Place(t, 1)
      <3>1. Place(t, 1) = Place(s, 1 + 1)
        BY <1>4, <1>6
      <3> QED  BY <1>9, <3>1
    <2> QED  BY <2>2, <2>3, <2>4 DEF ChainOf
  <1>12. Chains(cs)'
    <2>1. ASSUME NEW d \in Buckets, d # b PROVE ChainOf(d, ch[d])'
      <3>1. ch[d] \in Seq(Nodes) /\ ChainOf(d, ch[d])
        BY DEF DictInv, Chains
      <3>2. \A j \in 1..Len(ch[d]) : ch[d][j] \in Nodes /\ ch[d][j] # n
        BY <1>5, <2>1, <3>1, Places DEF ChainOf
      <3>3. \A j \in 1..Len(ch[d]) : mem'[ch[d][j]] = mem[ch[d][j]]
        BY <1>8, <3>2
      <3> QED  BY <1>9, <2>1, <3>1, <3>3, ChainKept
    <2>2. \A d \in Buckets : ChainOf(d, cs[d])'
      BY <1>7, <1>11, <2>1
    <2> QED  BY <2>2 DEF Chains
  <1>13. Writing(cs)' /\ Reading(cs)'
    BY <1>1, <1>2 DEF Writing, Reading
  <1>14. Sized(cs)'
    <2>1. ASSUME NEW d \in Buckets PROVE Len(cs[d]) <= table'[d].size + 0
      <3>1. Len(ch[d]) <= table[d].size + 0
        BY <1>2 DEF DictInv, Sized
      <3>2. Len(cs[d]) = IF d = b THEN Len(s) - 1 ELSE Len(ch[d])
        BY <1>6, <1>7
      <3>3. /\ table[d].size \in Nat
            /\ table'[d].size = IF d = b THEN table[d].size - 1 ELSE table[d].size
        BY <1>9 DEF TypeOK
      <3> QED  BY <1>3, <3>1, <3>2, <3>3
    <2> QED  BY <1>1, <1>2, <2>1 DEF Sized
  <1>15. Kept(cs)'
    <2> SUFFICES ASSUME NEW m \in Nodes, mem'[m] # Free
                 PROVE  \E d \in Buckets : \E j \in 1..Len(cs[d]) : cs[d][j] = m
      BY DEF Kept
    <2>1. m # n /\ mem[m] # Free /\ ~InHand(m)
      BY <1>2, <1>8 DEF InHand
    <2>2. PICK d \in Buckets : \E j \in 1..Len(ch[d]) : ch[d][j] = m
      BY <2>1 DEF DictInv, Kept
    <2>3. CASE d # b
      BY <1>7, <2>2, <2>3
    <2>4. CASE d = b
      <3>1. PICK j \in 1..Len(s) : s[j] = m
        BY <2>2, <2>4
      <3>2. \E h \in 1..Len(t) : t[h] = m
        BY <1>5, <1>6, <2>1, <3>1
      <3> QED  BY <1>7, <3>2
    <2> QED  BY <2>3, <2>4
  <1>16. DictInv(cs)'
    BY <1>12, <1>13, <1>14, <1>15 DEF DictInv
  <1> QED  BY <1>7, <1>10, <1>16

-----------------------------------------------------------------------------
(* The invariant is kept. *)

\* The steps that leave the chains what they are.
Steady ==
    \/ \E k \in Keys : dict_remove(k) \/ \E v \in Values : dict_insert(k, v)
    \/ Malloc \/ MallocFails \/ WalkOn \/ Unlinked \/ NotThere
    \/ Fill \/ Link \/ Count
    \/ \E r \in Readers : Read(r)
    \/ dict_destroy \/ Done

\* They keep the invariant with the sequences it had.
LEMMA SteadyKeeps ==
    ASSUME TypeOK, Modes, NEW ch \in [Buckets -> Seq(Nodes)], DictInv(ch), Steady
    PROVE  TypeOK' /\ Modes' /\ DictInv(ch)' /\ Same(ch)
  <1>0. UNCHANGED mem => Same(ch)
    BY DEF Same
  <1>1. ASSUME NEW k \in Keys, dict_remove(k)
        PROVE  TypeOK' /\ Modes' /\ DictInv(ch)' /\ Same(ch)
    <2>1. Begin(k, Absent, "walk") /\ ~shared
      BY <1>1 DEF dict_remove
    <2>2. UNCHANGED mem
      BY <2>1 DEF Begin
    <2> QED  BY <1>0, <2>1, <2>2, BeginKeeps
  <1>2. ASSUME NEW k \in Keys, NEW v \in Values, dict_insert(k, v)
        PROVE  TypeOK' /\ Modes' /\ DictInv(ch)' /\ Same(ch)
    <2>1. Begin(k, v, "malloc") /\ (shared => ~Has(k))
      BY <1>2 DEF dict_insert
    <2>2. UNCHANGED mem
      BY <2>1 DEF Begin
    <2> QED  BY <1>0, <2>1, <2>2, BeginKeeps
  <1>3. CASE Malloc
    BY <1>3, MallocKeeps
  <1>4. CASE MallocFails
    BY <1>0, <1>4, MallocFailsKeeps DEF MallocFails
  <1>5. CASE WalkOn
    BY <1>0, <1>5, WalkOnKeeps DEF WalkOn
  <1>6. CASE Unlinked
    BY <1>6, UnlinkedKeeps
  <1>7. CASE NotThere
    BY <1>0, <1>7, NotThereKeeps DEF NotThere
  <1>8. CASE Fill
    BY <1>8, FillKeeps
  <1>9. CASE Link
    BY <1>9, LinkKeeps
  <1>10. CASE Count
    BY <1>0, <1>10, CountKeeps DEF Count
  <1>11. ASSUME NEW r \in Readers, Read(r)
         PROVE  TypeOK' /\ Modes' /\ DictInv(ch)' /\ Same(ch)
    <2>1. UNCHANGED mem
      BY <1>11 DEF Read, dict_find, _bucket_find, FindReturns
    <2>2. TypeOK' /\ Modes' /\ DictInv(ch)'
      BY <1>11, FindKeeps, BucketFindKeeps, FindReturnsKeeps DEF Read
    <2> QED  BY <1>0, <2>1, <2>2
  <1>12. CASE dict_destroy
    BY <1>0, <1>12, DestroyKeeps DEF dict_destroy
  <1>13. CASE Done
    <2>1. UNCHANGED vars
      BY <1>13 DEF Done
    <2> QED  BY <2>1, ChainsUnchanged, ReadersStay
             DEF vars, TypeOK, Modes, Quiet, DictInv, Writing, WriterOn, ElementOn, HasKey,
                 Sized, Kept, InHand, Same
  <1> QED  BY <1>1, <1>2, <1>3, <1>4, <1>5, <1>6, <1>7, <1>8, <1>9, <1>10, <1>11, <1>12, <1>13
           DEF Steady

\* An element put into a chain, or taken out, leaves another sequence.
LEMMA StepKeeps == Inv /\ [Next]_vars => Inv'
  <1> SUFFICES ASSUME Inv, [Next]_vars PROVE Inv'
    OBVIOUS
  <1>1. PICK ch \in [Buckets -> Seq(Nodes)] : DictInv(ch)
    BY DEF Inv
  <1>2. TypeOK /\ Modes
    BY DEF Inv
  <1>3. CASE Steady
    BY <1>1, <1>2, <1>3, SteadyKeeps DEF Inv
  <1>4. CASE Unlink
    <2>1. TypeOK' /\ Modes'
      BY <1>1, <1>2, <1>4, UnlinkKeeps
    <2>2. PICK b \in Buckets : \E i \in 1..Len(ch[b]) :
              DictInv([ch EXCEPT ![b] = Without(ch[b], i)])'
      BY <1>1, <1>2, <1>4, UnlinkKeeps
    <2>3. PICK i \in 1..Len(ch[b]) : DictInv([ch EXCEPT ![b] = Without(ch[b], i)])'
      BY <2>2
    <2>4. [ch EXCEPT ![b] = Without(ch[b], i)] \in [Buckets -> Seq(Nodes)]
      BY WithoutIs
    <2> QED  BY <2>1, <2>3, <2>4 DEF Inv
  <1>5. CASE Publish
    <2>1. TypeOK' /\ Modes'
      BY <1>1, <1>2, <1>5, PublishKeeps
    <2>2. PICK b \in Buckets, n \in Nodes : DictInv([ch EXCEPT ![b] = Before(n, ch[b])])'
      BY <1>1, <1>2, <1>5, PublishKeeps
    <2>3. [ch EXCEPT ![b] = Before(n, ch[b])] \in [Buckets -> Seq(Nodes)]
      BY BeforeIs
    <2> QED  BY <2>1, <2>2, <2>3 DEF Inv
  <1>6. ASSUME NEW b \in Buckets, FreeFirst(b)
        PROVE  Inv'
    BY <1>1, <1>2, <1>6, FreeFirstKeeps DEF Inv
  <1>7. CASE UNCHANGED vars
    <2>1. TypeOK' /\ Modes' /\ DictInv(ch)'
      BY <1>1, <1>2, <1>7, ChainsUnchanged, ReadersStay
         DEF vars, TypeOK, Modes, Quiet, DictInv, Writing, WriterOn, ElementOn, HasKey,
             Sized, Kept, InHand
    <2> QED  BY <2>1 DEF Inv
  <1> QED  BY <1>3, <1>4, <1>5, <1>6, <1>7 DEF Next, Write, Steady

\* The invariant holds at every moment.
THEOREM DictKeeps == Spec => []Inv
  <1> QED  BY InitInv, StepKeeps, PTL DEF Spec

-----------------------------------------------------------------------------
(* What follows from it. *)

\* dict.c: at every moment each bucket's chain can be walked to its end, over
\* filled elements of its own with different keys.
THEOREM ChainsStaySound == Spec => []ChainsSound
  <1>1. Inv => ChainsSound
    <2> SUFFICES ASSUME Inv PROVE ChainsSound
      OBVIOUS
    <2>1. PICK ch \in [Buckets -> Seq(Nodes)] : DictInv(ch)
      BY DEF Inv
    <2>2. TypeOK
      BY DEF Inv
    <2>3. ASSUME NEW b \in Buckets
          PROVE  /\ Ends(table[b].next)
                 /\ \A m, n \in Chain(table[b].next) :
                       /\ _dict_index(mem[n].key) = b
                       /\ mem[m].key = mem[n].key => m = n
      <3>1. ch[b] \in Seq(Nodes) /\ ChainOf(b, ch[b]) /\ 1 \in 1..(Len(ch[b]) + 1)
        BY <2>1, Places DEF DictInv, Chains
      <3>2. Told(ch[b], 1) /\ table[b].next = Place(ch[b], 1)
        BY <2>2, <3>1, ChainsRead DEF Readable, ChainOf
      <3>3. Ends(table[b].next) /\ Chain(table[b].next) = {ch[b][j] : j \in 1..Len(ch[b])}
        BY <3>2 DEF Told
      <3> QED  BY <3>1, <3>3 DEF ChainOf
    <2> QED  BY <2>2, <2>3 DEF ChainsSound
  <1> QED  BY <1>1, DictKeeps, PTL

\* worker.c, dict.c: a look-up that takes no lock stands on elements that are
\* allocated and filled in, whatever is inserted meanwhile, and comes to an end.
THEOREM ReadersStayOn == Spec => []NoStrayRead
  <1>1. Inv => NoStrayRead
    <2> SUFFICES ASSUME Inv, NEW r \in Readers, reader[r] # None, reader[r].pc = "walk"
                 PROVE  Ends(reader[r].c)
      BY DEF NoStrayRead
    <2>1. PICK ch \in [Buckets -> Seq(Nodes)] : DictInv(ch)
      BY DEF Inv
    <2>2. TypeOK
      BY DEF Inv
    <2>3. PICK b \in Buckets :
              /\ ChainOf(b, ch[b])
              /\ \E i \in 1..(Len(ch[b]) + 1) : reader[r].c = Place(ch[b], i)
      BY <2>1, <2>2, ReaderAt
    <2>4. PICK i \in 1..(Len(ch[b]) + 1) : reader[r].c = Place(ch[b], i)
      BY <2>3
    <2>5. ch[b] \in Seq(Nodes)
      OBVIOUS
    <2>6. Told(ch[b], i)
      BY <2>2, <2>3, <2>5, ChainsRead DEF Readable
    <2> QED  BY <2>4, <2>6 DEF Told
  <1> QED  BY <1>1, DictKeeps, PTL

\* dict.c: an element allocated is in a chain or in hand, and nothing is left
\* when dict_destroy is through.
THEOREM NoneLost == Spec => []NothingLost
  <1>1. Inv => NothingLost
    <2> SUFFICES ASSUME Inv PROVE NothingLost
      OBVIOUS
    <2>1. PICK ch \in [Buckets -> Seq(Nodes)] : DictInv(ch)
      BY DEF Inv
    <2>2. TypeOK /\ Modes
      BY DEF Inv
    <2>3. \A b \in Buckets : /\ ch[b] \in Seq(Nodes) /\ Len(ch[b]) \in Nat
                             /\ table[b].next = Place(ch[b], 1)
                             /\ Chain(table[b].next) = {ch[b][j] : j \in 1..Len(ch[b])}
      <3> TAKE b \in Buckets
      <3>1. ch[b] \in Seq(Nodes) /\ ChainOf(b, ch[b]) /\ 1 \in 1..(Len(ch[b]) + 1)
            /\ Len(ch[b]) \in Nat
        BY <2>1, Places DEF DictInv, Chains
      <3>2. Told(ch[b], 1) /\ table[b].next = Place(ch[b], 1)
        BY <2>2, <3>1, ChainsRead DEF Readable, ChainOf
      <3> QED  BY <3>1, <3>2 DEF Told
    <2>4. ASSUME NEW n \in Nodes, mem[n] # Free
          PROVE  \/ \E b \in Buckets : n \in Chain(table[b].next)
                 \/ writer # None /\ (n = writer.elem \/ (n = writer.c /\ writer.pc = "free"))
      <3>1. CASE InHand(n)
        BY <3>1 DEF InHand
      <3>2. CASE ~InHand(n)
        <4>1. PICK b \in Buckets : \E i \in 1..Len(ch[b]) : ch[b][i] = n
          BY <2>1, <2>4, <3>2 DEF DictInv, Kept
        <4>2. n \in Chain(table[b].next)
          BY <2>3, <4>1
        <4> QED  BY <4>2
      <3> QED  BY <3>1, <3>2
    <2>5. ASSUME Emptied, NEW n \in Nodes
          PROVE  mem[n] = Free
      <3>1. writer = None
        BY <2>2, <2>5 DEF Emptied, Modes, Quiet
      <3>2. \A b \in Buckets : Len(ch[b]) = 0
        <4> TAKE b \in Buckets
        <4>1. table[b].next = NULL \/ table[b].size = 0
          BY <2>5 DEF Emptied
        <4>2. Len(ch[b]) <= table[b].size + 0
          BY <2>1, <3>1 DEF DictInv, Sized
        <4>3. table[b].next = NULL => 1 \notin 1..Len(ch[b])
          BY <2>3, Places
        <4> QED  BY <2>3, <4>1, <4>2, <4>3
      <3>3. ~InHand(n) /\ ~(\E b \in Buckets : \E j \in 1..Len(ch[b]) : ch[b][j] = n)
        BY <3>1, <3>2 DEF InHand
      <3> QED  BY <2>1, <3>3 DEF DictInv, Kept
    <2> QED  BY <2>4, <2>5 DEF NothingLost
  <1> QED  BY <1>1, DictKeeps, PTL

-----------------------------------------------------------------------------
(* What the callers see. *)

\* What Lookup finds for k moves along with the elements that have the key.
LEMMA LookupMoves ==
    ASSUME TypeOK, TypeOK', NEW b \in Buckets, NEW s \in Seq(Nodes), NEW t \in Seq(Nodes),
           ChainOf(b, s), ChainOf(b, t)',
           NEW i \in 1..(Len(s) + 1), NEW h \in 1..(Len(t) + 1), NEW k \in Keys,
           \A j \in i..Len(s) : mem[s[j]].key = k =>
              \E g \in h..Len(t) : mem'[t[g]].key = k /\ mem'[t[g]].value = mem[s[j]].value,
           \A g \in h..Len(t) : mem'[t[g]].key = k => \E j \in i..Len(s) : mem[s[j]].key = k
    PROVE  Lookup(Place(t, h), k)' = Lookup(Place(s, i), k)
  <1>1. Told(s, i)
    BY ChainsRead DEF Readable
  <1>2. Told(t, h)'
    BY ChainsReadThen DEF Readable
  <1>3. CASE \E j \in i..Len(s) : mem[s[j]].key = k
    <2>1. PICK j \in i..Len(s) : mem[s[j]].key = k
      BY <1>3
    <2>2. Lookup(Place(s, i), k) = mem[s[j]].value
      BY <1>1, <2>1 DEF Told
    <2>3. PICK g \in h..Len(t) : mem'[t[g]].key = k /\ mem'[t[g]].value = mem[s[j]].value
      BY <2>1
    <2>4. Lookup(Place(t, h), k)' = mem'[t[g]].value
      BY <1>2, <2>3 DEF Told
    <2> QED  BY <2>2, <2>3, <2>4
  <1>4. CASE ~\E j \in i..Len(s) : mem[s[j]].key = k
    <2>1. Lookup(Place(s, i), k) = Absent
      BY <1>1, <1>4 DEF Told
    <2>2. Lookup(Place(t, h), k)' = Absent
      BY <1>2, <1>4 DEF Told
    <2> QED  BY <2>1, <2>2
  <1> QED  BY <1>3, <1>4

\* What is found for a key whose chain is s.
LEMMA LookupFromHead ==
    ASSUME TypeOK, NEW b \in Buckets, NEW s \in Seq(Nodes), ChainOf(b, s),
           NEW k \in Keys, b = _dict_index(k)
    PROVE  /\ table[_dict_index(k)].next = Place(s, 1) /\ 1 \in 1..(Len(s) + 1)
           /\ ~HasKey(s, k) => Lookup(table[_dict_index(k)].next, k) = Absent
           /\ \A j \in 1..Len(s) : mem[s[j]].key = k =>
                 Lookup(table[_dict_index(k)].next, k) = mem[s[j]].value
  <1>1. Len(s) \in Nat /\ 1 \in 1..(Len(s) + 1)
    BY Places
  <1>2. Told(s, 1) /\ table[b].next = Place(s, 1)
    BY <1>1, ChainsRead DEF Readable, ChainOf
  <1> QED  BY <1>1, <1>2 DEF Told, HasKey

HeadLookup == TypeOK => \A b \in Buckets : \A s \in Seq(Nodes) : \A k \in Keys :
    ChainOf(b, s) /\ b = _dict_index(k) =>
        /\ ~HasKey(s, k) => Lookup(table[_dict_index(k)].next, k) = Absent
        /\ \A j \in 1..Len(s) : mem[s[j]].key = k =>
              Lookup(table[_dict_index(k)].next, k) = mem[s[j]].value

\* The same after a step.
LEMMA HeadLookupThen == HeadLookup'
  <1>1. HeadLookup
    BY LookupFromHead DEF HeadLookup
  <1> QED  BY <1>1, PTL

\* Steps that leave the chains' elements alone leave what is found in them.
LEMMA SameLookups ==
    ASSUME TypeOK, TypeOK', NEW ch \in [Buckets -> Seq(Nodes)], DictInv(ch), DictInv(ch)',
           Same(ch), NEW b \in Buckets, NEW i \in 1..(Len(ch[b]) + 1), NEW k \in Keys
    PROVE  Lookup(Place(ch[b], i), k)' = Lookup(Place(ch[b], i), k)
  <1>1. ch[b] \in Seq(Nodes) /\ ChainOf(b, ch[b]) /\ ChainOf(b, ch[b])' /\ Len(ch[b]) \in Nat
    BY Places DEF DictInv, Chains
  <1> DEFINE s == ch[b]
  <1>2. /\ \A j \in i..Len(s) : mem[s[j]].key = k =>
              \E g \in i..Len(s) : mem'[s[g]].key = k /\ mem'[s[g]].value = mem[s[j]].value
        /\ \A g \in i..Len(s) : mem'[s[g]].key = k => \E j \in i..Len(s) : mem[s[j]].key = k
    <2>1. \A j \in i..Len(s) : mem'[s[j]] = mem[s[j]]
      BY <1>1 DEF Same
    <2> QED  BY <2>1
  <1>3. s \in Seq(Nodes) /\ ChainOf(b, s) /\ ChainOf(b, s)' /\ i \in 1..(Len(s) + 1)
    BY <1>1
  <1> HIDE DEF s
  <1>4. Lookup(Place(s, i), k)' = Lookup(Place(s, i), k)
    BY <1>2, <1>3, LookupMoves
  <1> QED  BY <1>4 DEF s

\* Such a step changes nothing of the table when it does not change what the
\* insertion in progress has replaced.
LEMMA SameContent ==
    ASSUME TypeOK, TypeOK', NEW ch \in [Buckets -> Seq(Nodes)], DictInv(ch), DictInv(ch)',
           Same(ch), UNCHANGED destroyed, Replaced' <=> Replaced,
           Replaced => writer'.key = writer.key /\ writer'.value = writer.value
    PROVE  Content' = Content
  <1>1. \A k \in Keys : /\ _dict_index(k) \in Buckets
                        /\ Lookup(table[_dict_index(k)].next, k)'
                              = Lookup(table[_dict_index(k)].next, k)
    <2> TAKE k \in Keys
    <2> DEFINE b == _dict_index(k)
    <2>1. b \in Buckets
      BY IndexInRange
    <2>2. /\ ch[b] \in Seq(Nodes) /\ Len(ch[b]) \in Nat /\ 1 \in 1..(Len(ch[b]) + 1)
          /\ table[b].next = Place(ch[b], 1) /\ table'[b].next = Place(ch[b], 1)
      BY <2>1, Places DEF DictInv, Chains, ChainOf
    <2>3. Lookup(Place(ch[b], 1), k)' = Lookup(Place(ch[b], 1), k)
      BY <2>1, <2>2, SameLookups
    <2> HIDE DEF b
    <2>4. Lookup(table[b].next, k)' = Lookup(table[b].next, k)
      BY <2>2, <2>3
    <2> QED  BY <2>1, <2>4 DEF b
  <1> QED  BY <1>1 DEF Content

Answers == [r \in Readers |-> Answer(r)]

\* A look-up in progress does not notice it either.
LEMMA SameAnswer ==
    ASSUME TypeOK, TypeOK', NEW ch \in [Buckets -> Seq(Nodes)], DictInv(ch), DictInv(ch)',
           Same(ch), NEW r \in Readers, reader'[r] = reader[r]
    PROVE  Answer(r)' = Answer(r)
  <1>1. CASE reader[r] = None \/ reader[r].pc # "walk"
    <2>1. reader[r] = None \/ reader[r].pc = "found"
      BY <1>1 DEF TypeOK, ReaderCall
    <2> QED  BY <2>1 DEF Answer
  <1>2. CASE reader[r] # None /\ reader[r].pc = "walk"
    <2>1. PICK b \in Buckets : /\ b = _dict_index(reader[r].key) /\ reader[r] \in ReaderCall
                               /\ \E i \in 1..(Len(ch[b]) + 1) : reader[r].c = Place(ch[b], i)
      BY <1>2, ReaderAt
    <2>2. PICK i \in 1..(Len(ch[b]) + 1) : reader[r].c = Place(ch[b], i)
      BY <2>1
    <2>3. PICK k \in Keys : k = reader[r].key
      BY <2>1 DEF ReaderCall
    <2>4. Lookup(Place(ch[b], i), k)' = Lookup(Place(ch[b], i), k)
      BY SameLookups
    <2>5. reader[r].pc # "found"
      BY <1>2
    <2>6. Lookup(reader[r].c, reader[r].key)' = Lookup(reader[r].c, reader[r].key)
      BY <2>2, <2>3, <2>4
    <2> QED  BY <1>2, <2>5, <2>6 DEF Answer
  <1> QED  BY <1>1, <1>2

\* So for all of them, when none of them moves.
LEMMA SameAnswers ==
    ASSUME TypeOK, TypeOK', NEW ch \in [Buckets -> Seq(Nodes)], DictInv(ch), DictInv(ch)',
           Same(ch), UNCHANGED reader
    PROVE  Answers' = Answers
  BY SameAnswer DEF Answers

\* Whether the call in progress has had its effect.
Effected ==
    Replaced \/ writer.pc = "size" \/ (writer.value = Absent /\ writer.pc = "free")

\* A step that neither begins, nor ends, nor settles the call.
LEMMA RequestSame ==
    ASSUME writer # None, writer' # None, writer'.key = writer.key, writer'.value = writer.value,
           Effected' <=> Effected
    PROVE  Request' = Request
  <1>1. Effected' = Effected
    BY DEF Effected
  <1>2. Request = [key |-> writer.key, value |-> writer.value, done |-> Effected]
    BY DEF Request, Effected
  <1>3. Request' = [key |-> writer'.key, value |-> writer'.value, done |-> Effected']
    BY DEF Request, Effected
  <1> QED  BY <1>1, <1>2, <1>3

\* The call that is asked for and has not had its effect, and the one that has.
LEMMA RequestIs ==
    ASSUME writer # None
    PROVE  /\ Effected => Request = [key |-> writer.key, value |-> writer.value, done |-> TRUE]
           /\ ~Effected => Request = [key |-> writer.key, value |-> writer.value, done |-> FALSE]
  <1>1. Request = [key |-> writer.key, value |-> writer.value, done |-> Effected]
    BY DEF Request, Effected
  <1>2. Effected = TRUE \/ Effected = FALSE
    BY DEF Effected
  <1> QED  BY <1>1, <1>2

\* What KeyValue reads of it.
LEMMA RequestTyped ==
    ASSUME TypeOK, writer # None
    PROVE  /\ Request # None /\ Request.key = writer.key /\ Request.value = writer.value
           /\ Effected => Request.done
           /\ ~Effected => ~Request.done
  <1>1. writer.key \in Keys /\ writer.value \in Values \cup {Absent}
    BY WriterTypes
  <1>2. CASE Effected
    <2>1. Request = [key |-> writer.key, value |-> writer.value, done |-> TRUE]
      BY <1>2, RequestIs
    <2>2. Request \in Requests
      BY <1>1, <2>1 DEF Requests
    <2> QED  BY <1>2, <2>1, <2>2, CallsAssumption
  <1>3. CASE ~Effected
    <2>1. Request = [key |-> writer.key, value |-> writer.value, done |-> FALSE]
      BY <1>3, RequestIs
    <2>2. Request \in Requests
      BY <1>1, <2>1 DEF Requests
    <2> QED  BY <1>3, <2>1, <2>2, CallsAssumption
  <1> QED  BY <1>2, <1>3

\* The call has its effect.
LEMMA RequestDone ==
    ASSUME TypeOK, writer # None, writer' # None, writer'.key = writer.key, writer'.value = writer.value,
           ~Effected, Effected'
    PROVE  Request' = [Request EXCEPT !.done = TRUE]
  <1>1. Request = [key |-> writer.key, value |-> writer.value, done |-> FALSE]
    BY RequestIs
  <1>2. Request' = [key |-> writer'.key, value |-> writer'.value, done |-> Effected']
    BY DEF Request, Effected
  <1>3. Effected' = TRUE
    BY Zenon DEF Effected
  <1>4. Request' = [key |-> writer.key, value |-> writer.value, done |-> TRUE]
    BY <1>2, <1>3
  <1>5. writer.key \in Keys /\ writer.value \in Values \cup {Absent}
    BY WriterTypes
  <1>6. \A r \in Requests : /\ [r EXCEPT !.done = TRUE] \in Requests
                            /\ [r EXCEPT !.done = TRUE].key = r.key
                            /\ [r EXCEPT !.done = TRUE].value = r.value
                            /\ [r EXCEPT !.done = TRUE].done = TRUE
    BY DEF Requests
  <1>7. Request \in Requests /\ Request' \in Requests
    BY <1>1, <1>4, <1>5 DEF Requests
  <1>8. \A r, q \in Requests : r.key = q.key /\ r.value = q.value /\ r.done = q.done => r = q
    BY DEF Requests
  <1>9. \A r, q \in Requests :
           q.key = r.key /\ q.value = r.value /\ q.done = TRUE => q = [r EXCEPT !.done = TRUE]
    <2> TAKE r, q \in Requests
    <2> DEFINE u == [r EXCEPT !.done = TRUE]
    <2>1. u \in Requests /\ u.key = r.key /\ u.value = r.value /\ u.done = TRUE
      BY <1>6
    <2> HIDE DEF u
    <2>2. q.key = r.key /\ q.value = r.value /\ q.done = TRUE => q = u
      BY <1>8, <2>1
    <2> QED  BY <2>2 DEF u
  <1>10. /\ Request'.key = Request.key /\ Request'.value = Request.value
         /\ Request'.done = TRUE
    BY <1>1, <1>4
  <1> QED  BY <1>7, <1>9, <1>10

\* The steps within a call.
LEMMA CallGoesOn ==
    ASSUME TypeOK, Modes, NEW ch \in [Buckets -> Seq(Nodes)], DictInv(ch),
           \/ Malloc \/ WalkOn \/ Fill \/ Link
           \/ (Unlinked \/ NotThere) /\ writer.value # Absent
    PROVE  UNCHANGED <<Content, Request, Answers>>
  <1>1. TypeOK' /\ DictInv(ch)' /\ Same(ch)
    BY SteadyKeeps DEF Steady
  <1>2. writer # None /\ UNCHANGED <<reader, destroyed>>
    BY DEF Malloc, WalkOn, Unlinked, NotThere, Fill, Link, Goto
  <1>3. writer \in WriterCall /\ WriterOn(ch[writer.bucket])
    BY <1>2, WriterTypes DEF DictInv, Writing
  <1>4. /\ writer' # None /\ writer'.key = writer.key /\ writer'.value = writer.value
        /\ Replaced' <=> Replaced
        /\ Effected' <=> Effected
    <2>1. CASE Malloc
      <3>1. PICK n \in Nodes :
              writer' = [writer EXCEPT !.pc = "walk", !.elem = n, !.c = table[writer.bucket].next]
        BY <2>1 DEF Malloc
      <3>2. writer.pc = "malloc"
        BY <2>1 DEF Malloc
      <3>3. /\ writer' # None /\ writer'.key = writer.key /\ writer'.value = writer.value
            /\ writer'.pc = "walk"
        BY <1>3, <2>1, <3>1, MallocKeeps DEF WriterCall
      <3> QED  BY <3>2, <3>3 DEF Replaced, Effected
    <2>2. CASE WalkOn
      <3>1. /\ writer' = [writer EXCEPT !.p = writer.c, !.c = mem[writer.c].next]
            /\ writer.pc = "walk"
        BY <2>2 DEF WalkOn
      <3>2. /\ writer' # None /\ writer'.key = writer.key /\ writer'.value = writer.value
            /\ writer'.pc = "walk"
        BY <1>3, <2>2, <3>1, WalkOnKeeps DEF WriterCall
      <3> QED  BY <3>1, <3>2 DEF Replaced, Effected
    <2>3. ASSUME NEW to \in {"fill", "link", "head"}, writer' = [writer EXCEPT !.pc = to]
          PROVE  /\ writer' # None /\ writer'.key = writer.key /\ writer'.value = writer.value
                 /\ writer'.pc = to /\ writer'.c = writer.c
      BY <1>2, <2>3, WriterGoes
    <2>4. CASE Unlinked /\ writer.value # Absent
      <3>1. writer.pc = "free" /\ writer' = [writer EXCEPT !.pc = "fill"]
        BY <2>4 DEF Unlinked
      <3>2. writer.c # NULL
        BY <1>3, <3>1, DictAssumption DEF WriterOn
      <3> QED  BY <1>2, <2>3, <2>4, <3>1, <3>2 DEF Replaced, Effected
    <2>5. CASE NotThere /\ writer.value # Absent
      <3>1. writer.pc = "walk" /\ writer.c = NULL /\ writer' = [writer EXCEPT !.pc = "fill"]
        BY <2>5 DEF NotThere
      <3> QED  BY <1>2, <2>3, <2>5, <3>1 DEF Replaced, Effected
    <2>6. CASE Fill
      <3>1. writer.pc = "fill" /\ writer' = [writer EXCEPT !.pc = "link"]
        BY <2>6 DEF Fill, Goto
      <3> QED  BY <1>2, <2>3, <3>1 DEF Replaced, Effected
    <2>7. CASE Link
      <3>1. writer.pc = "link" /\ writer' = [writer EXCEPT !.pc = "head"]
        BY <2>7 DEF Link, Goto
      <3> QED  BY <1>2, <2>3, <3>1 DEF Replaced, Effected
    <2> QED  BY <2>1, <2>2, <2>4, <2>5, <2>6, <2>7
  <1>5. Content' = Content /\ Answers' = Answers
    BY <1>1, <1>2, <1>4, SameContent, SameAnswers
  <1>6. Request' = Request
    BY <1>2, <1>4, RequestSame
  <1> QED  BY <1>5, <1>6

-----------------------------------------------------------------------------
(* Each step of dict.c is one of KeyValue's, or none. *)

\* A call begins.
LEMMA BeginAsks ==
    ASSUME TypeOK, Modes, NEW ch \in [Buckets -> Seq(Nodes)], DictInv(ch),
           NEW k \in Keys, NEW v \in Values \cup {Absent},
           (dict_remove(k) /\ v = Absent) \/ (v \in Values /\ dict_insert(k, v))
    PROVE  KV!Ask(k, v)
  <1>1. TypeOK' /\ DictInv(ch)' /\ Same(ch)
    BY SteadyKeeps DEF Steady
  <1>2. PICK pc \in {"malloc", "walk"} : Begin(k, v, pc)
    BY DEF dict_remove, dict_insert
  <1> DEFINE b == _dict_index(k)
             c == IF pc = "walk" THEN table[b].next ELSE NULL
  <1>3. b \in Buckets /\ c \in Nodes \cup {NULL}
    BY IndexInRange DEF TypeOK
  <1>4. /\ writer = None
        /\ writer' = [pc |-> pc, key |-> k, value |-> v, bucket |-> b, elem |-> NULL,
                      c |-> c, p |-> NULL]
        /\ UNCHANGED <<mem, table, reader, mode>>
    BY <1>2 DEF Begin
  <1> HIDE DEF b, c
  <1>5. writer' \in WriterCall
    BY <1>3, <1>4 DEF WriterCall
  <1>6. writer' # None /\ writer'.key = k /\ writer'.value = v /\ writer'.pc = pc
    BY <1>4, <1>5, DictAssumption
  <1>7. ~Replaced /\ ~Replaced' /\ ~Effected'
    BY <1>4, <1>6 DEF Replaced, Effected
  <1>8. Content' = Content /\ Answers' = Answers
    BY <1>1, <1>4, <1>7, SameContent, SameAnswers
  <1>9. Request = None
    BY <1>4 DEF Request
  <1>10. Request' = [key |-> k, value |-> v, done |-> FALSE]
    <2>1. Request' = [key |-> writer'.key, value |-> writer'.value, done |-> Effected']
      BY <1>6 DEF Request, Effected
    <2>2. Effected' = FALSE
      BY <1>7 DEF Effected
    <2> QED  BY <1>6, <2>1, <2>2
  <1> QED  BY <1>8, <1>9, <1>10 DEF KV!Ask, Answers

\* A call ends, when it has had its effect or has none.
LEMMA CallReturns ==
    ASSUME TypeOK, Modes, NEW ch \in [Buckets -> Seq(Nodes)], DictInv(ch),
           \/ MallocFails \/ Count
           \/ (Unlinked \/ NotThere) /\ writer.value = Absent
    PROVE  KV!Return
  <1>1. TypeOK' /\ DictInv(ch)' /\ Same(ch)
    BY SteadyKeeps DEF Steady
  <1>2. writer # None /\ writer' = None /\ UNCHANGED <<reader, destroyed>>
    BY DEF MallocFails, Count, Unlinked, NotThere
  <1>3. writer \in WriterCall /\ WriterOn(ch[writer.bucket])
    BY <1>2, WriterTypes DEF DictInv, Writing
  <1>4. ~Replaced
    BY <1>3 DEF Replaced, MallocFails, Count, Unlinked, NotThere
  <1>5. ~Replaced'
    BY <1>2 DEF Replaced
  <1>6. Content' = Content /\ Answers' = Answers
    BY <1>1, <1>2, <1>4, <1>5, SameContent, SameAnswers
  <1>7. Request' = None
    BY <1>2 DEF Request
  <1>8. /\ Request # None
        /\ Effected => Request.done
        /\ Request.key = writer.key /\ Request.value = writer.value
    BY <1>2, <1>3, RequestTyped
  <1>9. Request.done \/ Request.value # Absent \/ Content[Request.key] = Absent
    <2>1. CASE MallocFails
      <3>1. writer.value # Absent
        BY <1>3, <2>1 DEF MallocFails, WriterOn
      <3> QED  BY <1>8, <3>1
    <2>2. CASE Count \/ (Unlinked /\ writer.value = Absent)
      <3>1. Effected
        BY <2>2 DEF Count, Unlinked, Effected
      <3> QED  BY <1>8, <3>1
    <2>3. CASE NotThere /\ writer.value = Absent
      <3>1. ~HasKey(ch[writer.bucket], writer.key)
        BY <2>3, NotThereKeeps
      <3>2. ~destroyed
        BY <1>2 DEF Modes, Quiet
      <3>3. PICK k \in Keys : k = writer.key
        BY <1>2, WriterTypes
      <3>4. Lookup(table[_dict_index(k)].next, k) = Absent
        <4>1. PICK b \in Buckets : b = writer.bucket /\ b = _dict_index(k)
          BY <1>2, <1>3, <3>3, WriterTypes DEF WriterOn
        <4>2. ch[b] \in Seq(Nodes) /\ ChainOf(b, ch[b]) /\ ~HasKey(ch[b], k)
          BY <3>1, <3>3, <4>1 DEF DictInv, Chains
        <4> QED  BY <4>1, <4>2, LookupFromHead
      <3>5. Content[k] = Absent
        BY <1>4, <3>2, <3>4 DEF Content
      <3> QED  BY <1>8, <3>3, <3>5
    <2> QED  BY <2>1, <2>2, <2>3
  <1> QED  BY <1>6, <1>7, <1>8, <1>9 DEF KV!Return, Answers

\* What is found for k from the head when the elements that have it are the same.
LEMMA HeadMoves ==
    ASSUME TypeOK, TypeOK', NEW k \in Keys, NEW b \in Buckets, b = _dict_index(k),
           NEW s \in Seq(Nodes), NEW t \in Seq(Nodes), ChainOf(b, s), ChainOf(b, t)',
           \A j \in 1..Len(s) : mem'[s[j]].key = mem[s[j]].key /\ mem'[s[j]].value = mem[s[j]].value,
           \A j \in 1..Len(s) : mem[s[j]].key = k => \E g \in 1..Len(t) : t[g] = s[j],
           \A g \in 1..Len(t) : mem'[t[g]].key = k => \E j \in 1..Len(s) : s[j] = t[g]
    PROVE  Lookup(table[_dict_index(k)].next, k)' = Lookup(table[_dict_index(k)].next, k)
  <1>1. 1 \in 1..(Len(s) + 1) /\ 1 \in 1..(Len(t) + 1)
    BY Places
  <1>2. \A j \in 1..Len(s) : mem[s[j]].key = k =>
              \E g \in 1..Len(t) : mem'[t[g]].key = k /\ mem'[t[g]].value = mem[s[j]].value
    <2> TAKE j \in 1..Len(s)
    <2> HAVE mem[s[j]].key = k
    <2>1. PICK g \in 1..Len(t) : t[g] = s[j]
      OBVIOUS
    <2> QED  BY <2>1
  <1>3. \A g \in 1..Len(t) : mem'[t[g]].key = k => \E j \in 1..Len(s) : mem[s[j]].key = k
    <2> TAKE g \in 1..Len(t)
    <2> HAVE mem'[t[g]].key = k
    <2>1. PICK j \in 1..Len(s) : s[j] = t[g]
      OBVIOUS
    <2>2. mem'[s[j]].key = k
      BY <2>1
    <2> QED  BY <2>2
  <1>4. Lookup(Place(t, 1), k)' = Lookup(Place(s, 1), k)
    BY <1>1, <1>2, <1>3, LookupMoves
  <1>5. table[b].next = Place(s, 1) /\ table'[b].next = Place(t, 1)
    BY DEF ChainOf
  <1>6. Lookup(table[b].next, k)' = Lookup(table[b].next, k)
    BY <1>4, <1>5
  <1> QED  BY <1>6

\* An element is taken out: the key is removed, or has its new value from here on.
LEMMA UnlinkApplies ==
    ASSUME TypeOK, Modes, NEW ch \in [Buckets -> Seq(Nodes)], DictInv(ch), Unlink
    PROVE  KV!Apply
  <1>1. /\ writer # None /\ writer.pc = "walk" /\ writer.c # NULL
        /\ writer' = [writer EXCEPT !.pc = "free"]
        /\ UNCHANGED <<reader, mode>>
    BY DEF Unlink, Goto
  <1>2. TypeOK' /\ ~shared
    BY UnlinkKeeps
  <1>3. PICK b \in Buckets :
          \E i \in 1..Len(ch[b]) :
             /\ writer.bucket = b /\ ch[b][i] = writer.c /\ mem[writer.c].key = writer.key
             /\ Bridged(b, ch[b], i)
             /\ DictInv([ch EXCEPT ![b] = Without(ch[b], i)])'
    BY UnlinkKeeps
  <1>4. PICK i \in 1..Len(ch[b]) :
             /\ writer.bucket = b /\ ch[b][i] = writer.c /\ mem[writer.c].key = writer.key
             /\ Bridged(b, ch[b], i)
             /\ DictInv([ch EXCEPT ![b] = Without(ch[b], i)])'
    BY <1>3
  <1>5. PICK key \in Keys, value \in Values \cup {Absent} :
             key = writer.key /\ value = writer.value
    BY <1>1, WriterTypes
  <1>6. /\ writer' # None /\ writer'.pc = "free" /\ writer'.c # NULL
        /\ writer'.key = key /\ writer'.value = value
    BY <1>1, <1>5, WriterGoes
  <1>7. ~Replaced /\ ~Effected /\ Effected' /\ (Replaced' <=> value # Absent)
    BY <1>1, <1>6 DEF Replaced, Effected
  <1>8. ~destroyed /\ ~destroyed' /\ \A r \in Readers : reader[r] = None /\ reader'[r] = None
    BY <1>1, <1>2 DEF Modes, Quiet
  <1>9. Answers' = Answers
    BY <1>8 DEF Answers, Answer
  <1> DEFINE s == ch[b]
             t == Without(s, i)
             cs == [ch EXCEPT ![b] = t]
  <1>10. s \in Seq(Nodes) /\ ChainOf(b, s) /\ Len(s) \in Nat /\ b = _dict_index(key)
    BY <1>1, <1>4, <1>5, Places DEF DictInv, Chains, Writing, WriterOn
  <1>11. /\ t \in Seq(Nodes) /\ cs \in [Buckets -> Seq(Nodes)] /\ cs[b] = t
         /\ \A d \in Buckets : d # b => cs[d] = ch[d]
         /\ \A j \in 1..Len(s) : j # i => \E g \in 1..Len(t) : t[g] = s[j]
         /\ \A g \in 1..Len(t) : \E j \in 1..Len(s) : s[j] = t[g]
    <2>1. /\ t \in Seq(Nodes)
          /\ \A g \in 1..Len(t) : /\ g < i => t[g] = s[g] /\ g \in 1..Len(s)
                                  /\ ~(g < i) => t[g] = s[g + 1] /\ g + 1 \in 1..Len(s)
          /\ \A j \in 1..Len(s) : j # i => \E g \in 1..Len(t) : t[g] = s[j]
      BY WithoutIs
    <2> HIDE DEF t
    <2>2. ASSUME NEW g \in 1..Len(t)
          PROVE  \E j \in 1..Len(s) : s[j] = t[g]
      BY <2>1
    <2> QED  BY <2>1, <2>2
  <1>12. ChainOf(b, t)' /\ ~HasKey(t, key)'
    BY <1>4, <1>5, <1>10, BridgedChain
  <1>13. ASSUME NEW k \in Keys, k # key
         PROVE  Lookup(table[_dict_index(k)].next, k)' = Lookup(table[_dict_index(k)].next, k)
    <2>1. \A n \in Nodes : mem[n] \in Elem =>
                 mem'[n].key = mem[n].key /\ mem'[n].value = mem[n].value
      BY <1>4, <1>10, BridgedHeap
    <2>2. CASE _dict_index(k) = b
      <3>1. \A j \in 1..Len(s) :
              mem'[s[j]].key = mem[s[j]].key /\ mem'[s[j]].value = mem[s[j]].value
        BY <1>10, <2>1, Places DEF ChainOf
      <3>2. \A j \in 1..Len(s) : mem[s[j]].key = k => j # i
        BY <1>4, <1>5, <1>13
      <3>3. \A j \in 1..Len(s) : mem[s[j]].key = k => \E g \in 1..Len(t) : t[g] = s[j]
        BY <1>11, <3>2
      <3>4. \A g \in 1..Len(t) : \E j \in 1..Len(s) : s[j] = t[g]
        BY <1>11
      <3> HIDE DEF t
      <3> QED  BY <1>2, <1>10, <1>11, <1>12, <2>2, <3>1, <3>3, <3>4, HeadMoves
    <2>3. CASE _dict_index(k) # b
      <3>1. PICK d \in Buckets : d = _dict_index(k) /\ d # b
        BY <2>3, IndexInRange
      <3>2. ch[d] \in Seq(Nodes) /\ ChainOf(d, ch[d])
        BY <3>1 DEF DictInv, Chains
      <3> HIDE DEF t
      <3>3. DictInv(cs)'
        BY <1>4 DEF t
      <3>4. ChainOf(d, ch[d])'
        BY <1>11, <3>1, <3>3 DEF DictInv, Chains
      <3>5. \A j \in 1..Len(ch[d]) :
              /\ mem'[ch[d][j]].key = mem[ch[d][j]].key
              /\ mem'[ch[d][j]].value = mem[ch[d][j]].value
        BY <2>1, <3>2, Places DEF ChainOf
      <3> QED  BY <1>2, <3>1, <3>2, <3>4, <3>5, HeadMoves
    <2> QED  BY <2>2, <2>3
  <1>14. Content' = [Content EXCEPT ![key] = value]
    <2>1. ASSUME NEW k \in Keys, k # key
          PROVE  Content'[k] = Content[k]
      BY <1>6, <1>7, <1>8, <1>13, <2>1 DEF Content
    <2>2. Content'[key] = value
      <3>1. CASE value # Absent
        BY <1>6, <1>7, <1>8, <3>1 DEF Content
      <3>2. CASE value = Absent
        <4>1. Lookup(table[_dict_index(key)].next, key)' = Absent
          BY <1>2, <1>10, <1>11, <1>12, HeadLookupThen DEF HeadLookup
        <4> QED  BY <1>7, <1>8, <3>2, <4>1 DEF Content
      <3> QED  BY <3>1, <3>2
    <2>3. /\ Content = [k \in Keys |-> Content[k]]
          /\ Content' = [k \in Keys |-> Content'[k]]
      BY DEF Content
    <2> QED  BY <2>1, <2>2, <2>3
  <1>15. /\ Request # None /\ ~Request.done /\ Request.key = key /\ Request.value = value
         /\ Request' = [Request EXCEPT !.done = TRUE]
    BY <1>1, <1>5, <1>6, <1>7, RequestTyped, RequestDone
  <1> QED  BY <1>9, <1>14, <1>15 DEF KV!Apply, Answers

\* The new element is at the head: who is on the chain further on does not see it.
LEMMA PublishAnswers ==
    ASSUME TypeOK, Modes, NEW ch \in [Buckets -> Seq(Nodes)], DictInv(ch), TypeOK',
           UNCHANGED <<mem, reader>>, NEW b \in Buckets, NEW n \in Nodes,
           DictInv([ch EXCEPT ![b] = Before(n, ch[b])])'
    PROVE  Answers' = Answers
  <1> SUFFICES ASSUME NEW r \in Readers PROVE Answer(r)' = Answer(r)
    BY DEF Answers
  <1>1. CASE reader[r] = None \/ reader[r].pc # "walk"
    <2>1. reader[r] = None \/ reader[r].pc = "found"
      BY <1>1 DEF TypeOK, ReaderCall
    <2> QED  BY <2>1 DEF Answer
  <1>2. CASE reader[r] # None /\ reader[r].pc = "walk"
    <2>1. PICK d \in Buckets : /\ d = _dict_index(reader[r].key) /\ reader[r] \in ReaderCall
                               /\ ChainOf(d, ch[d]) /\ Len(ch[d]) \in Nat
                               /\ \E i \in 1..(Len(ch[d]) + 1) : reader[r].c = Place(ch[d], i)
      BY <1>2, ReaderAt
    <2>2. PICK i \in 1..(Len(ch[d]) + 1) : reader[r].c = Place(ch[d], i)
      BY <2>1
    <2>3. PICK k \in Keys : k = reader[r].key
      BY <2>1 DEF ReaderCall
    <2> DEFINE s == ch[d]
               t == Before(n, ch[b])
               cs == [ch EXCEPT ![b] = t]
    <2>4. /\ t \in Seq(Nodes) /\ cs \in [Buckets -> Seq(Nodes)] /\ cs[b] = t
          /\ \A e \in Buckets : e # b => cs[e] = ch[e]
      BY BeforeIs
    <2>5. s \in Seq(Nodes) /\ ChainOf(d, cs[d])'
      BY <2>4 DEF DictInv, Chains
    <2>6. Lookup(Place(s, i), k)' = Lookup(Place(s, i), k)
      <3>1. CASE d = b
        <4>1. /\ Len(t) = Len(s) + 1 /\ Place(t, i + 1) = Place(s, i)
              /\ \A j \in 1..Len(s) : t[j + 1] = s[j]
              /\ \A g \in 2..Len(t) : t[g] = s[g - 1]
          <5>1. s \in Seq(Nodes) /\ i \in 1..(Len(s) + 1) /\ t = Before(n, s)
            BY <2>5, <3>1
          <5> HIDE DEF t, s
          <5> QED  BY <5>1, BeforeIs
        <4>2. i + 1 \in 1..(Len(t) + 1) /\ i \in Nat /\ i >= 1
          BY <2>1, <4>1
        <4> HIDE DEF t
        <4>3. ASSUME NEW j \in i..Len(s) PROVE j + 1 \in (i + 1)..Len(t) /\ t[j + 1] = s[j]
          <5>1. j \in 1..Len(s) /\ j + 1 \in (i + 1)..Len(t)
            BY <2>1, <4>1, <4>2
          <5> QED  BY <4>1, <5>1
        <4>4. ASSUME NEW g \in (i + 1)..Len(t) PROVE g - 1 \in i..Len(s) /\ t[g] = s[g - 1]
          <5>1. g \in 2..Len(t) /\ g - 1 \in i..Len(s)
            BY <2>1, <4>1, <4>2
          <5> QED  BY <4>1, <5>1
        <4>5. ChainOf(d, t)'
          BY <2>4, <2>5, <3>1
        <4>6. PICK h \in 1..(Len(t) + 1) : h = i + 1
          BY <4>2
        <4>7. \A j \in i..Len(s) : mem[s[j]].key = k =>
                \E g \in h..Len(t) : mem'[t[g]].key = k /\ mem'[t[g]].value = mem[s[j]].value
          BY <4>3, <4>6
        <4>8. \A g \in h..Len(t) : mem'[t[g]].key = k => \E j \in i..Len(s) : mem[s[j]].key = k
          BY <4>4, <4>6
        <4>9. Lookup(Place(t, h), k)' = Lookup(Place(s, i), k)
          <5>1. s \in Seq(Nodes) /\ t \in Seq(Nodes) /\ ChainOf(d, s)
            BY <2>1, <2>4, <2>5
          <5>2. i \in 1..(Len(s) + 1)
            OBVIOUS
          <5> HIDE DEF s
          <5> QED  BY <4>5, <4>7, <4>8, <5>1, <5>2, LookupMoves
        <4> QED  BY <4>1, <4>6, <4>9
      <3>2. CASE d # b
        <4>1. ChainOf(d, s)'
          BY <2>4, <2>5, <3>2
        <4> QED  BY <2>1, <2>5, <4>1, LookupMoves
      <3> QED  BY <3>1, <3>2
    <2>7. reader[r].pc # "found" /\ reader' = reader
      BY <1>2
    <2>8. Lookup(reader[r].c, reader[r].key)' = Lookup(reader[r].c, reader[r].key)
      BY <2>2, <2>3, <2>6, <2>7
    <2> QED  BY <1>2, <2>7, <2>8 DEF Answer
  <1> QED  BY <1>1, <1>2

\* The new element is at the head: the key has its new value from here on, or
\* keeps it if an element with the key has been taken out.
LEMMA PublishApplies ==
    ASSUME TypeOK, Modes, NEW ch \in [Buckets -> Seq(Nodes)], DictInv(ch), Publish
    PROVE  KV!Apply \/ UNCHANGED <<Content, Request, Answers>>
  <1>1. /\ writer # None /\ writer.pc = "head" /\ writer' = [writer EXCEPT !.pc = "size"]
        /\ UNCHANGED <<mem, reader, mode>>
    BY DEF Publish, Goto
  <1>2. TypeOK'
    BY PublishKeeps
  <1>3. PICK b \in Buckets : \E n \in Nodes :
                 /\ b = writer.bucket /\ n = writer.elem /\ mem[n] \in Elem
                 /\ mem[n].key = writer.key /\ mem[n].value = writer.value
                 /\ DictInv([ch EXCEPT ![b] = Before(n, ch[b])])'
    BY PublishKeeps
  <1>4. PICK n \in Nodes :
                 /\ b = writer.bucket /\ n = writer.elem /\ mem[n] \in Elem
                 /\ mem[n].key = writer.key /\ mem[n].value = writer.value
                 /\ DictInv([ch EXCEPT ![b] = Before(n, ch[b])])'
    BY <1>3
  <1>5. Answers' = Answers
    BY <1>1, <1>2, <1>4, PublishAnswers
  <1> DEFINE s == ch[b]
             t == Before(n, s)
             cs == [ch EXCEPT ![b] = t]
  <1>6. s \in Seq(Nodes) /\ ChainOf(b, s) /\ WriterOn(s) /\ Len(s) \in Nat
    BY <1>1, <1>3, Places DEF DictInv, Chains, Writing
  <1>7. PICK key \in Keys, value \in Values :
             key = writer.key /\ value = writer.value /\ b = _dict_index(key)
    BY <1>1, <1>4, <1>6, WriterTypes DEF WriterOn
  <1>8. /\ writer' # None /\ writer'.pc = "size"
        /\ writer'.key = key /\ writer'.value = value
    BY <1>1, <1>7, WriterGoes
  <1>9. /\ Effected <=> Replaced
        /\ Effected' /\ ~Replaced' /\ value # Absent
    BY <1>1, <1>7, <1>8, DictAssumption DEF Replaced, Effected
  <1>10. ~destroyed /\ ~destroyed'
    BY <1>1 DEF Modes, Quiet
  <1>11. /\ t \in Seq(Nodes) /\ Len(t) = Len(s) + 1 /\ t[1] = n
         /\ \A j \in 1..Len(s) : j + 1 \in 1..Len(t) /\ t[j + 1] = s[j]
         /\ \A j \in 1..Len(t) : j # 1 => t[j] = s[j - 1] /\ j - 1 \in 1..Len(s)
    <2>1. /\ t \in Seq(Nodes) /\ Len(t) = Len(s) + 1 /\ t[1] = n
          /\ \A j \in 1..Len(s) : t[j + 1] = s[j]
          /\ \A j \in 2..Len(t) : t[j] = s[j - 1] /\ j - 1 \in 1..Len(s)
      BY <1>6, BeforeIs
    <2> HIDE DEF t
    <2>2. \A j \in 1..Len(s) : j + 1 \in 1..Len(t)
      BY <1>6, <2>1
    <2>3. \A j \in 1..Len(t) : j # 1 => j \in 2..Len(t)
      BY <1>6, <2>1
    <2> QED  BY <2>1, <2>2, <2>3
  <1>12. cs \in [Buckets -> Seq(Nodes)] /\ cs[b] = t /\ \A d \in Buckets : d # b => cs[d] = ch[d]
    BY <1>11
  <1> HIDE DEF t
  <1>13. DictInv(cs)'
    BY <1>4 DEF t
  <1>14. ChainOf(b, t)'
    BY <1>12, <1>13 DEF DictInv, Chains
  <1>15. Lookup(table[_dict_index(key)].next, key)' = value
    <2>1. 1 \in 1..Len(t) /\ mem'[t[1]].key = key /\ mem'[t[1]].value = value
      BY <1>1, <1>4, <1>6, <1>7, <1>11
    <2> QED  BY <1>2, <1>7, <1>11, <1>14, <2>1, HeadLookupThen DEF HeadLookup
  <1>16. ASSUME NEW k \in Keys, k # key
         PROVE  Lookup(table[_dict_index(k)].next, k)' = Lookup(table[_dict_index(k)].next, k)
    <2>1. CASE _dict_index(k) = b
      <3>1. \A g \in 1..Len(t) : mem'[t[g]].key = k => \E j \in 1..Len(s) : s[j] = t[g]
        BY <1>1, <1>4, <1>7, <1>11, <1>16
      <3>2. \A j \in 1..Len(s) : mem[s[j]].key = k => \E g \in 1..Len(t) : t[g] = s[j]
        BY <1>11
      <3> QED  BY <1>1, <1>2, <1>6, <1>11, <1>14, <2>1, <3>1, <3>2, HeadMoves
    <2>2. CASE _dict_index(k) # b
      <3>1. PICK d \in Buckets : d = _dict_index(k) /\ d # b
        BY <2>2, IndexInRange
      <3>2. ch[d] \in Seq(Nodes) /\ ChainOf(d, ch[d])
        BY <3>1 DEF DictInv, Chains
      <3>3. ChainOf(d, ch[d])'
        BY <1>12, <1>13, <3>1 DEF DictInv, Chains
      <3> QED  BY <1>1, <1>2, <3>1, <3>2, <3>3, HeadMoves
    <2> QED  BY <2>1, <2>2
  <1>17. ASSUME NEW k \in Keys, k # key
         PROVE  Content'[k] = Content[k]
    BY <1>7, <1>9, <1>10, <1>16, <1>17 DEF Content
  <1>18. Content'[key] = value
    BY <1>9, <1>10, <1>15 DEF Content
  <1>19. /\ Content = [k \in Keys |-> Content[k]]
         /\ Content' = [k \in Keys |-> Content'[k]]
    BY DEF Content
  <1>20. CASE Replaced
    <2>1. Content[key] = value
      BY <1>7, <1>10, <1>20 DEF Content
    <2>2. Content' = Content
      BY <1>17, <1>18, <1>19, <2>1
    <2>3. Request' = Request
      BY <1>1, <1>7, <1>8, <1>9, <1>20, RequestSame
    <2> QED  BY <1>5, <2>2, <2>3
  <1>21. CASE ~Replaced
    <2>1. Content' = [Content EXCEPT ![key] = value]
      BY <1>17, <1>18, <1>19
    <2>2. /\ Request # None /\ ~Request.done /\ Request.key = key /\ Request.value = value
          /\ Request' = [Request EXCEPT !.done = TRUE]
      BY <1>1, <1>7, <1>8, <1>9, <1>21, RequestTyped, RequestDone
    <2> QED  BY <1>5, <2>1, <2>2 DEF KV!Apply, Answers
  <1> QED  BY <1>20, <1>21

\* A look-up that goes on has no value yet.
Unanswered ==
    \A r \in Readers : reader[r] # None /\ reader[r].pc = "walk" => reader[r].value = Absent

\* Only the end of the walk gives it one.
LEMMA StillUnanswered == Spec => []Unanswered
  <1>1. dict_init => Unanswered
    BY DEF dict_init, Unanswered
  <1>2. TypeOK /\ Unanswered /\ [Next]_vars => Unanswered'
    <2> SUFFICES ASSUME TypeOK, Unanswered, [Next]_vars PROVE Unanswered'
      OBVIOUS
    <2>1. CASE UNCHANGED reader
      BY <2>1 DEF Unanswered
    <2>2. ASSUME NEW r \in Readers, NEW call, reader' = [reader EXCEPT ![r] = call],
                 call # None /\ call.pc = "walk" => call.value = Absent
          PROVE  Unanswered'
      BY <2>2 DEF TypeOK, Unanswered
    <2>3. ASSUME NEW r \in Readers, Read(r) PROVE Unanswered'
      <3>1. ASSUME NEW k \in Keys, dict_find(r, k) PROVE Unanswered'
        <4> DEFINE call == [pc |-> "walk", key |-> k, c |-> table[_dict_index(k)].next,
                            value |-> Absent]
        <4>1. call.value = Absent /\ reader' = [reader EXCEPT ![r] = call]
          BY <3>1 DEF dict_find
        <4> HIDE DEF call
        <4> QED  BY <2>2, <4>1
      <3>2. CASE _bucket_find(r)
        <4>1. reader[r] # None /\ reader[r].pc = "walk" /\ reader[r] \in ReaderCall
          BY <3>2 DEF _bucket_find, TypeOK
        <4>2. reader[r].value = Absent
          BY <4>1 DEF Unanswered
        <4> DEFINE none == [reader[r] EXCEPT !.pc = "found"]
                   found == [reader[r] EXCEPT !.pc = "found", !.value = mem[reader[r].c].value]
                   on == [reader[r] EXCEPT !.c = mem[reader[r].c].next]
        <4>3. none.pc = "found" /\ found.pc = "found" /\ on.value = Absent
          BY <4>1, <4>2 DEF ReaderCall
        <4>4. \/ reader' = [reader EXCEPT ![r] = none]
              \/ reader' = [reader EXCEPT ![r] = found]
              \/ reader' = [reader EXCEPT ![r] = on]
          BY <3>2 DEF _bucket_find
        <4> HIDE DEF none, found, on
        <4> QED  BY <2>2, <4>3, <4>4
      <3>3. CASE FindReturns(r)
        BY <2>2, <3>3 DEF FindReturns
      <3> QED  BY <2>3, <3>1, <3>2, <3>3 DEF Read
    <2>4. CASE Write \/ dict_destroy \/ (\E b \in Buckets : FreeFirst(b)) \/ Done \/ UNCHANGED vars
      <3>1. UNCHANGED reader
        BY <2>4 DEF Write, dict_remove, dict_insert, Begin, Malloc, MallocFails, WalkOn, Unlink,
                    Unlinked, NotThere, Fill, Link, Publish, Count, dict_destroy, FreeFirst, Done,
                    vars
      <3> QED  BY <2>1, <3>1
    <2> QED  BY <2>3, <2>4 DEF Next
  <1> QED  BY <1>1, <1>2, DictKeeps, PTL DEF Spec, Inv

\* A step of one reader.
LEMMA OneAnswer ==
    ASSUME TypeOK, TypeOK', NEW ch \in [Buckets -> Seq(Nodes)], DictInv(ch), DictInv(ch)',
           Same(ch), NEW r \in Readers, NEW call, reader' = [reader EXCEPT ![r] = call]
    PROVE  /\ \A q \in Readers : q # r => Answers'[q] = Answers[q]
           /\ reader'[r] = call
           /\ Answers = [q \in Readers |-> Answers[q]]
           /\ Answers' = [q \in Readers |-> Answers'[q]]
           /\ Answers[r] = Answer(r) /\ Answers'[r] = Answer(r)'
  <1>1. \A q \in Readers : q # r => reader'[q] = reader[q]
    BY DEF TypeOK
  <1>2. \A q \in Readers : q # r => Answer(q)' = Answer(q)
    BY <1>1, SameAnswer
  <1>3. reader'[r] = call
    BY DEF TypeOK
  <1> QED  BY <1>2, <1>3 DEF Answers

\* A look-up begins, and is settled.
LEMMA FindFinds ==
    ASSUME TypeOK, Modes, NEW ch \in [Buckets -> Seq(Nodes)], DictInv(ch),
           NEW r \in Readers, NEW k \in Keys, dict_find(r, k)
    PROVE  KV!Find(r, k)
  <1>1. TypeOK' /\ DictInv(ch)' /\ Same(ch)
    BY SteadyKeeps DEF Steady, Read
  <1> DEFINE call == [pc |-> "walk", key |-> k, c |-> table[_dict_index(k)].next, value |-> Absent]
  <1>2. /\ ~destroyed /\ reader[r] = None /\ (shared \/ Quiet)
        /\ reader' = [reader EXCEPT ![r] = call]
        /\ UNCHANGED <<mem, table, writer, mode>>
    BY DEF dict_find
  <1>3. Content' = Content
    <2>1. Replaced' <=> Replaced
      BY <1>2 DEF Replaced
    <2> QED  BY <1>1, <1>2, <2>1, SameContent
  <1>4. Request' = Request
    BY <1>2 DEF Request, Replaced
  <1>5. ~Replaced
    <2>1. CASE writer = None
      BY <2>1 DEF Replaced
    <2>2. CASE writer # None
      <3>1. shared /\ WriterOn(ch[writer.bucket])
        BY <1>2, <2>2 DEF Quiet, DictInv, Writing
      <3> QED  BY <3>1 DEF WriterOn, Replaced
    <2> QED  BY <2>1, <2>2
  <1>6. Content[k] = Lookup(table[_dict_index(k)].next, k)
    BY <1>2, <1>5 DEF Content
  <1>7. Content'[k] = Lookup(table[_dict_index(k)].next, k)'
    BY <1>2, <1>5 DEF Content, Replaced
  <1>8. call # None /\ call.pc # "found" /\ call.key = k /\ call.c = table'[_dict_index(k)].next
    <2>1. table[_dict_index(k)].next \in Nodes \cup {NULL}
      BY IndexInRange DEF TypeOK
    <2>2. call \in ReaderCall
      BY <2>1 DEF ReaderCall
    <2> QED  BY <1>2, <2>2, DictAssumption
  <1> HIDE DEF call
  <1>9. /\ \A q \in Readers : q # r => Answers'[q] = Answers[q]
        /\ reader'[r] = call
        /\ Answers = [q \in Readers |-> Answers[q]] /\ Answers' = [q \in Readers |-> Answers'[q]]
        /\ Answers[r] = Answer(r) /\ Answers'[r] = Answer(r)'
    BY <1>1, <1>2, OneAnswer
  <1>10. Answer(r) = None
    BY <1>2 DEF Answer
  <1>11. Answer(r)' = [key |-> k, value |-> Content[k]]
    <2>1. Answer(r)' = [key |-> k, value |-> Lookup(table[_dict_index(k)].next, k)']
      BY <1>8, <1>9 DEF Answer
    <2> QED  BY <1>3, <1>7, <2>1
  <1>12. Answers' = [Answers EXCEPT ![r] = [key |-> k, value |-> Content[k]]]
    BY <1>9, <1>11
  <1> QED  BY <1>3, <1>4, <1>9, <1>10, <1>12 DEF KV!Find, Answers

\* It ends.
LEMMA ReturnTells ==
    ASSUME TypeOK, Modes, NEW ch \in [Buckets -> Seq(Nodes)], DictInv(ch),
           NEW r \in Readers, FindReturns(r)
    PROVE  KV!Tell(r)
  <1>1. TypeOK' /\ DictInv(ch)' /\ Same(ch)
    BY SteadyKeeps DEF Steady, Read
  <1>2. reader' = [reader EXCEPT ![r] = None] /\ UNCHANGED <<mem, table, writer, mode>>
    BY DEF FindReturns
  <1>3. Content' = Content
    <2>1. Replaced' <=> Replaced
      BY <1>2 DEF Replaced
    <2> QED  BY <1>1, <1>2, <2>1, SameContent
  <1>4. Request' = Request
    BY <1>2 DEF Request, Replaced
  <1>5. /\ \A q \in Readers : q # r => Answers'[q] = Answers[q]
        /\ reader'[r] = None
        /\ Answers = [q \in Readers |-> Answers[q]] /\ Answers' = [q \in Readers |-> Answers'[q]]
        /\ Answers'[r] = Answer(r)'
    BY <1>1, <1>2, OneAnswer
  <1>6. Answer(r)' = None
    BY <1>5 DEF Answer
  <1>7. Answers' = [Answers EXCEPT ![r] = None]
    BY <1>5, <1>6
  <1> QED  BY <1>3, <1>4, <1>7 DEF KV!Tell, Answers

\* In between it is told what it was to be told when it began.
LEMMA BucketFindSilent ==
    ASSUME TypeOK, Modes, Unanswered, NEW ch \in [Buckets -> Seq(Nodes)], DictInv(ch),
           NEW r \in Readers, _bucket_find(r)
    PROVE  UNCHANGED <<Content, Request, Answers>>
  <1>1. TypeOK' /\ DictInv(ch)' /\ Same(ch)
    BY SteadyKeeps DEF Steady, Read
  <1>2. /\ reader[r] # None /\ reader[r].pc = "walk" /\ reader[r].value = Absent
        /\ UNCHANGED <<mem, table, writer, mode>>
    BY DEF _bucket_find, Unanswered
  <1>3. Content' = Content
    <2>1. Replaced' <=> Replaced
      BY <1>2 DEF Replaced
    <2> QED  BY <1>1, <1>2, <2>1, SameContent
  <1>4. Request' = Request
    BY <1>2 DEF Request, Replaced
  <1>5. PICK b \in Buckets :
              /\ b = _dict_index(reader[r].key) /\ ChainOf(b, ch[b]) /\ Len(ch[b]) \in Nat
              /\ reader[r] \in ReaderCall
              /\ \E i \in 1..(Len(ch[b]) + 1) :
                    /\ reader[r].c = Place(ch[b], i)
                    /\ i \in 1..Len(ch[b]) =>
                          /\ reader[r].c = ch[b][i] /\ reader[r].c # NULL
                          /\ mem[ch[b][i]] \in Elem
                          /\ mem[ch[b][i]].next = Place(ch[b], i + 1)
                    /\ i \notin 1..Len(ch[b]) => reader[r].c = NULL
    BY <1>2, ReaderAt
  <1> DEFINE s == ch[b]
  <1>6. PICK i \in 1..(Len(s) + 1) :
                    /\ reader[r].c = Place(s, i)
                    /\ i \in 1..Len(s) =>
                          /\ reader[r].c = s[i] /\ reader[r].c # NULL
                          /\ mem[s[i]] \in Elem
                          /\ mem[s[i]].next = Place(s, i + 1)
                    /\ i \notin 1..Len(s) => reader[r].c = NULL
    BY <1>5
  <1>7. PICK k \in Keys : k = reader[r].key
    BY <1>5 DEF ReaderCall
  <1>8. s \in Seq(Nodes) /\ ChainOf(b, s)' /\ Told(s, i)
    BY <1>1, <1>5, ChainsRead DEF Readable, DictInv, Chains
  <1>9. Answer(r) = [key |-> k, value |-> Lookup(Place(s, i), k)]
    BY <1>2, <1>6, <1>7 DEF Answer
  <1>10. ASSUME NEW call \in ReaderCall, reader' = [reader EXCEPT ![r] = call],
                Answer(r)' = Answer(r)
         PROVE  Answers' = Answers
    BY <1>1, <1>10, OneAnswer
  <1>11. ASSUME NEW call \in ReaderCall, reader' = [reader EXCEPT ![r] = call],
                call.pc = "found", call.key = k, call.value = Lookup(Place(s, i), k)
         PROVE  Answers' = Answers
    <2>1. reader'[r] = call /\ call # None
      BY <1>1, <1>11, OneAnswer, DictAssumption
    <2>2. Answer(r)' = [key |-> k, value |-> Lookup(Place(s, i), k)]
      BY <1>11, <2>1 DEF Answer
    <2> QED  BY <1>9, <1>10, <1>11, <2>2
  <1>12. CASE reader[r].c = NULL
    <2> DEFINE call == [reader[r] EXCEPT !.pc = "found"]
    <2>1. reader' = [reader EXCEPT ![r] = call]
      BY <1>12 DEF _bucket_find
    <2>2. call \in ReaderCall /\ call.pc = "found" /\ call.key = k /\ call.value = Absent
      BY <1>2, <1>5, <1>7 DEF ReaderCall
    <2> HIDE DEF call
    <2>3. \A j \in i..Len(s) : FALSE
      BY <1>5, <1>6, <1>12
    <2>4. Lookup(Place(s, i), k) = Absent
      BY <1>8, <2>3 DEF Told
    <2> QED  BY <1>3, <1>4, <1>11, <2>1, <2>2, <2>4
  <1>13. CASE reader[r].c # NULL
    <2>1. i \in 1..Len(s) /\ reader[r].c = s[i] /\ mem[s[i]] \in Elem
          /\ mem[s[i]].next = Place(s, i + 1)
      BY <1>6, <1>13
    <2>2. CASE Hit(r)
      <3> DEFINE call == [reader[r] EXCEPT !.pc = "found", !.value = mem[reader[r].c].value]
      <3>1. reader' = [reader EXCEPT ![r] = call]
        BY <1>2, <1>13, <2>2 DEF _bucket_find, TypeOK
      <3>2. mem[s[i]].value \in Values
        BY <2>1 DEF Elem
      <3>3. call \in ReaderCall /\ call.pc = "found" /\ call.key = k /\ call.value = mem[s[i]].value
        BY <1>5, <1>7, <2>1, <3>2 DEF ReaderCall
      <3> HIDE DEF call
      <3>4. mem[s[i]].key = k /\ i \in i..Len(s)
        BY <1>5, <1>7, <2>1, <2>2 DEF Hit
      <3>5. Lookup(Place(s, i), k) = mem[s[i]].value
        BY <1>8, <3>4 DEF Told
      <3> QED  BY <1>3, <1>4, <1>11, <3>1, <3>3, <3>5
    <2>3. CASE ~Hit(r)
      <3> DEFINE call == [reader[r] EXCEPT !.c = mem[reader[r].c].next]
      <3>1. reader' = [reader EXCEPT ![r] = call]
        BY <1>13, <2>3 DEF _bucket_find
      <3>2. Place(s, i + 1) \in Nodes \cup {NULL}
        BY <1>8, Places
      <3>3. call \in ReaderCall /\ call.pc = "walk" /\ call.key = k /\ call.c = Place(s, i + 1)
        BY <1>2, <1>5, <1>7, <2>1, <3>2 DEF ReaderCall
      <3> HIDE DEF call
      <3>4. PICK h \in 1..(Len(s) + 1) : h = i + 1
        BY <1>5, <2>1
      <3>5. mem[s[i]].key # k
        BY <1>7, <2>1, <2>3 DEF Hit
      <3>6. ASSUME NEW j \in i..Len(s), mem[s[j]].key = k
            PROVE  \E g \in h..Len(s) : mem'[s[g]].key = k /\ mem'[s[g]].value = mem[s[j]].value
        <4>1. j \in h..Len(s)
          BY <1>5, <3>4, <3>5, <3>6
        <4> QED  BY <1>2, <3>6, <4>1
      <3>7. ASSUME NEW g \in h..Len(s), mem'[s[g]].key = k
            PROVE  \E j \in i..Len(s) : mem[s[j]].key = k
        <4>1. g \in i..Len(s)
          BY <1>5, <3>4
        <4> QED  BY <1>2, <3>7, <4>1
      <3>8. Lookup(Place(s, h), k)' = Lookup(Place(s, i), k)
        <4>1. ChainOf(b, s) /\ s \in Seq(Nodes) /\ i \in 1..(Len(s) + 1)
          BY <1>5, <1>8
        <4> HIDE DEF s
        <4> QED  BY <1>1, <1>8, <3>6, <3>7, <4>1, LookupMoves
      <3>9. reader'[r] = call /\ call # None
        BY <1>1, <3>1, <3>3, OneAnswer, DictAssumption
      <3>10. Answer(r)' = [key |-> k, value |-> Lookup(Place(s, h), k)']
        BY <3>3, <3>4, <3>9 DEF Answer
      <3> QED  BY <1>3, <1>4, <1>9, <1>10, <3>1, <3>3, <3>8, <3>10
    <2> QED  BY <2>2, <2>3
  <1> QED  BY <1>12, <1>13

-----------------------------------------------------------------------------
(* The beginning, the end, and the refinement. *)

\* A table without elements has no keys.
LEMMA InitIsEmpty == dict_init => KV!Init
  <1> SUFFICES ASSUME dict_init PROVE KV!Init
    OBVIOUS
  <1>1. /\ mem = [n \in Nodes |-> Free] /\ writer = None /\ reader = [r \in Readers |-> None]
        /\ destroyed = FALSE
    BY DEF dict_init
  <1>2. Filled = {}
    BY <1>1 DEF Filled
  <1>3. \A n, k : Lookup(n, k) = Absent
    BY <1>2 DEF Lookup
  <1>4. Content = [k \in Keys |-> Absent]
    BY <1>1, <1>3 DEF Content, Replaced
  <1>5. Request = None /\ Answers = [r \in Readers |-> None]
    BY <1>1 DEF Request, Answers, Answer
  <1> QED  BY <1>4, <1>5 DEF KV!Init, Answers

\* dict_destroy: the table is empty at once.
LEMMA DestroyEmpties ==
    ASSUME dict_destroy
    PROVE  KV!Destroy
  <1>1. /\ writer = None /\ \A r \in Readers : reader[r] = None
        /\ destroyed' = TRUE /\ UNCHANGED <<mem, table, writer, reader, shared>>
    BY DEF dict_destroy, Quiet
  <1>2. Content' = [k \in Keys |-> Absent]
    BY <1>1 DEF Content, Replaced
  <1>3. Request = None /\ Request' = None
    BY <1>1 DEF Request
  <1>4. Answers' = Answers
    BY <1>1 DEF Answers, Answer
  <1> QED  BY <1>2, <1>3, <1>4 DEF KV!Destroy, Answers

\* What it frees then is not looked at any more.
LEMMA FreeFirstSilent ==
    ASSUME Modes, NEW b \in Buckets, FreeFirst(b)
    PROVE  UNCHANGED <<Content, Request, Answers>>
  <1>1. /\ destroyed /\ destroyed' /\ UNCHANGED <<writer, reader>>
        /\ writer = None /\ \A r \in Readers : reader[r] = None
    BY DEF FreeFirst, Modes, Quiet
  <1>2. Content = [k \in Keys |-> Absent] /\ Content' = [k \in Keys |-> Absent]
    BY <1>1 DEF Content, Replaced
  <1>3. Request = None /\ Request' = None
    BY <1>1 DEF Request
  <1>4. Answers' = Answers
    BY <1>1 DEF Answers, Answer
  <1> QED  BY <1>2, <1>3, <1>4

\* dict.c: the table with its calls is a function from keys to values that one
\* thread changes, a change at a time, while others look keys up in it.
THEOREM DictIsKeyValue == Spec => KeyValueSpec
  <1>1. Inv /\ Unanswered /\ [Next]_vars => [KV!Next]_KV!vars
    <2> SUFFICES ASSUME Inv, Unanswered, [Next]_vars
                 PROVE  KV!Next \/ UNCHANGED <<Content, Request, Answers>>
      BY DEF KV!vars, Answers
    <2>1. PICK ch \in [Buckets -> Seq(Nodes)] : DictInv(ch)
      BY DEF Inv
    <2>2. TypeOK /\ Modes
      BY DEF Inv
    <2>3. ASSUME NEW k \in Keys, dict_remove(k) PROVE KV!Next
      BY <2>1, <2>2, <2>3, BeginAsks DEF KV!Next
    <2>4. ASSUME NEW k \in Keys, NEW v \in Values, dict_insert(k, v) PROVE KV!Next
      BY <2>1, <2>2, <2>4, BeginAsks DEF KV!Next
    <2>5. CASE Malloc \/ WalkOn \/ Fill \/ Link
      BY <2>1, <2>2, <2>5, CallGoesOn
    <2>6. CASE Unlinked \/ NotThere
      BY <2>1, <2>2, <2>6, CallGoesOn, CallReturns DEF KV!Next
    <2>7. CASE MallocFails \/ Count
      BY <2>1, <2>2, <2>7, CallReturns DEF KV!Next
    <2>8. CASE Unlink
      BY <2>1, <2>2, <2>8, UnlinkApplies DEF KV!Next
    <2>9. CASE Publish
      BY <2>1, <2>2, <2>9, PublishApplies DEF KV!Next
    <2>10. ASSUME NEW r \in Readers, Read(r)
           PROVE  KV!Next \/ UNCHANGED <<Content, Request, Answers>>
      BY <2>1, <2>2, <2>10, FindFinds, BucketFindSilent, ReturnTells DEF Read, KV!Next
    <2>11. CASE dict_destroy
      BY <2>11, DestroyEmpties DEF KV!Next
    <2>12. ASSUME NEW b \in Buckets, FreeFirst(b)
           PROVE  UNCHANGED <<Content, Request, Answers>>
      BY <2>2, <2>12, FreeFirstSilent
    <2>13. CASE Done \/ UNCHANGED vars
      <3>1. UNCHANGED vars
        BY <2>13 DEF Done
      <3>2. Content' = Content
        <4>1. DictInv(ch)' /\ TypeOK'
          BY <2>1, <2>2, <3>1, ChainsUnchanged, ReadersStay
             DEF vars, TypeOK, Modes, Quiet, DictInv, Writing, WriterOn, ElementOn, HasKey,
                 Sized, Kept, InHand
        <4>2. Same(ch) /\ (Replaced' <=> Replaced)
          BY <3>1 DEF vars, Same, Replaced
        <4> QED  BY <2>1, <2>2, <3>1, <4>1, <4>2, SameContent DEF vars
      <3>3. Answers' = Answers
        <4>1. DictInv(ch)' /\ TypeOK'
          BY <2>1, <2>2, <3>1, ChainsUnchanged, ReadersStay
             DEF vars, TypeOK, Modes, Quiet, DictInv, Writing, WriterOn, ElementOn, HasKey,
                 Sized, Kept, InHand
        <4>2. Same(ch)
          BY <3>1 DEF vars, Same
        <4> QED  BY <2>1, <2>2, <3>1, <4>1, <4>2, SameAnswers DEF vars
      <3>4. Request' = Request
        BY <3>1 DEF vars, Request, Replaced
      <3> QED  BY <3>2, <3>3, <3>4
    <2> QED  BY <2>3, <2>4, <2>5, <2>6, <2>7, <2>8, <2>9, <2>10, <2>11, <2>12, <2>13
             DEF Next, Write
  <1> QED  BY <1>1, InitIsEmpty, DictKeeps, StillUnanswered, PTL DEF Spec, KeyValueSpec, KV!Spec

=============================================================================
