--------------------------- MODULE ReportsProofs ---------------------------
(***************************************************************************)
(* What TLAPS proves of Reports, for any pages inserted in any order and   *)
(* marked at any time: the graph stays consistent and nothing in it starts *)
(* again, and the files of the end say the same of it: the ids, the lines  *)
(* of sitemap.dot and the degrees agree, the ranks add up to 1.0 and grow  *)
(* with the links, and the two lists of gen_top have the best, in order.   *)
(*                                                                         *)
(* The sums, the merge sort and the list of lines are computed by          *)
(* recursion.  What they compute is proved by taking a least case in which *)
(* it is not so.                                                           *)
(***************************************************************************)
EXTENDS Reports, WebGraphProofs, FiniteSetTheorems, WellFoundedInduction

\* The numbers from 1 on.
LEMMA FirstNumbers ==
    ASSUME NEW n \in Nat
    PROVE  IsFiniteSet(1..n) /\ Cardinality(1..n) = n
  <1>1. 1 \in Int /\ n \in Int
    OBVIOUS
  <1>2. IsFiniteSet(1..n) /\ Cardinality(1..n) = IF 1 > n THEN 0 ELSE n - 1 + 1
    BY ONLY <1>1, FS_Interval, SMTT(60)
  <1> QED  BY <1>2

\* A collection of subsets of a finite set has one that no other is within.
LEMMA LeastSet ==
    ASSUME NEW S, IsFiniteSet(S), NEW C \in SUBSET SUBSET S, C # {}
    PROVE  \E T \in C : \A U \in C : U \subseteq T => U = T
  <1>1. IsWellFoundedOn(StrictSubsetOrdering(S), SUBSET S)
    BY FS_StrictSubsetOrderingWellFounded, FS_FiniteSubsetsOfFinite
  <1>2. \E T \in C : \A U \in C : ~(<<U, T>> \in StrictSubsetOrdering(S))
    BY <1>1, WFMin
  <1>3. \A U, T \in C : U \subseteq T /\ U # T => <<U, T>> \in StrictSubsetOrdering(S)
    BY DEF StrictSubsetOrdering
  <1> QED  BY <1>2, <1>3

-----------------------------------------------------------------------------
(* SumFunctionOnSet, which picks the elements one by one. *)

Adds(h, f, S) ==
    h = [s \in SUBSET S |-> IF s = {} THEN 0
                            ELSE LET x == CHOOSE x \in s : TRUE IN f[x] + h[s \ {x}]]

Adding(f, S) == CHOOSE h : Adds(h, f, S)

\* The sum is read off that function.
LEMMA SumIs == \A f, S : SumFunctionOnSet(f, S) = Adding(f, S)[S]
  BY DEF SumFunctionOnSet, FoldFunctionOnSet, MapThenFoldSet, Adding, Adds

\* What has been added up of a set is known from its subsets.
LEMMA AddsAt ==
    ASSUME NEW f, NEW S, NEW h, Adds(h, f, S), NEW s \in SUBSET S
    PROVE  /\ s = {} => h[s] = 0
           /\ s # {} => \E x \in s : x = (CHOOSE y \in s : TRUE) /\ h[s] = f[x] + h[s \ {x}]
  <1>1. h[s] = IF s = {} THEN 0 ELSE f[CHOOSE x \in s : TRUE] + h[s \ {CHOOSE x \in s : TRUE}]
    BY DEF Adds
  <1>2. s # {} => (CHOOSE x \in s : TRUE) \in s
    OBVIOUS
  <1> QED  BY <1>1, <1>2

\* Over a finite set there is no more than one such function.
LEMMA OneAdding ==
    ASSUME NEW f, NEW S, IsFiniteSet(S), NEW h, NEW g, Adds(h, f, S), Adds(g, f, S),
           NEW s \in SUBSET S
    PROVE  h[s] = g[s]
  <1> DEFINE Bad == {t \in SUBSET S : h[t] # g[t]}
  <1> SUFFICES ASSUME Bad # {} PROVE FALSE
    OBVIOUS
  <1>a. Bad \in SUBSET SUBSET S /\ Bad # {}
    OBVIOUS
  <1> HIDE DEF Bad
  <1> PICK t \in Bad : \A u \in Bad : u \subseteq t => u = t
    BY <1>a, LeastSet
  <1> USE DEF Bad
  <1>1. t # {}
    BY AddsAt
  <1>2. PICK x \in t : x = (CHOOSE y \in t : TRUE) /\ h[t] = f[x] + h[t \ {x}]
    BY <1>1, AddsAt
  <1>3. g[t] = f[x] + g[t \ {x}]
    <2>1. \E y \in t : y = (CHOOSE z \in t : TRUE) /\ g[t] = f[y] + g[t \ {y}]
      BY <1>1, AddsAt
    <2> QED  BY <1>2, <2>1
  <1>4. t \ {x} \notin Bad /\ t \ {x} \in SUBSET S
    OBVIOUS
  <1> QED  BY <1>2, <1>3, <1>4

\* And it is one for each subset.
LEMMA AddsPart ==
    ASSUME NEW f, NEW S, NEW T \in SUBSET S, NEW h, Adds(h, f, S)
    PROVE  Adds([s \in SUBSET T |-> h[s]], f, T)
  <1> DEFINE g == [s \in SUBSET T |-> h[s]]
             r == [s \in SUBSET T |-> IF s = {} THEN 0
                            ELSE LET x == CHOOSE x \in s : TRUE IN f[x] + g[s \ {x}]]
  <1>1. ASSUME NEW s \in SUBSET T PROVE g[s] = r[s]
    <2>1. CASE s = {}
      BY <2>1, AddsAt
    <2>2. CASE s # {}
      <3> PICK x \in s : x = (CHOOSE y \in s : TRUE) /\ h[s] = f[x] + h[s \ {x}]
        BY <2>2, AddsAt
      <3>1. g[s \ {x}] = h[s \ {x}] /\ g[s] = h[s]
        OBVIOUS
      <3>2. r[s] = f[x] + g[s \ {x}]
        BY <2>2
      <3> QED  BY <3>1, <3>2
    <2> QED  BY <2>1, <2>2
  <1>2. g = r
    BY <1>1
  <1> QED  BY <1>2 DEF Adds

\* There is such a function for a finite set.
LEMMA AddingAdds ==
    ASSUME NEW f, NEW S, IsFiniteSet(S)
    PROVE  Adds(Adding(f, S), f, S)
  <1> DEFINE Bad == {t \in SUBSET S : ~Adds(Adding(f, t), f, t)}
  <1> SUFFICES ASSUME Bad # {} PROVE FALSE
    OBVIOUS
  <1>a. Bad \in SUBSET SUBSET S /\ Bad # {}
    OBVIOUS
  <1> HIDE DEF Bad
  <1> PICK t \in Bad : \A u \in Bad : u \subseteq t => u = t
    BY <1>a, LeastSet
  <1> USE DEF Bad
  <1>1. ASSUME NEW u \in SUBSET t, u # t PROVE Adds(Adding(f, u), f, u)
    BY <1>1
  <1>2. ASSUME NEW u \in SUBSET t PROVE IsFiniteSet(u)
    BY FS_Subset
  <1> DEFINE g == [s \in SUBSET t |->
                     IF s = {} THEN 0
                     ELSE LET x == CHOOSE x \in s : TRUE
                          IN  f[x] + Adding(f, s \ {x})[s \ {x}]]
             r == [s \in SUBSET t |->
                     IF s = {} THEN 0
                     ELSE LET x == CHOOSE x \in s : TRUE IN f[x] + g[s \ {x}]]
  <1>3. ASSUME NEW u \in SUBSET t, u # t PROVE g[u] = Adding(f, u)[u]
    <2> DEFINE h == Adding(f, u)
    <2>1. Adds(h, f, u)
      BY <1>1, <1>3
    <2> HIDE DEF h
    <2>2. CASE u = {}
      BY <2>1, <2>2, AddsAt DEF h
    <2>3. CASE u # {}
      <3> DEFINE x == CHOOSE y \in u : TRUE
                 v == u \ {x}
      <3>1. x \in u /\ h[u] = f[x] + h[v]
        <4>1. \E y \in u : y = x /\ h[u] = f[y] + h[u \ {y}]
          BY <2>1, <2>3, AddsAt
        <4> QED  BY <4>1
      <3>2. g[u] = f[x] + Adding(f, v)[v]
        BY <2>3
      <3>3. v \in SUBSET u /\ v \in SUBSET t /\ v # t
        BY <3>1, <1>3
      <3> HIDE DEF x, v
      <3>4. Adds([s \in SUBSET v |-> h[s]], f, v)
        BY <2>1, <3>3, AddsPart
      <3>5. Adds(Adding(f, v), f, v) /\ IsFiniteSet(v)
        BY <1>1, <1>2, <3>3
      <3>6. [s \in SUBSET v |-> h[s]][v] = Adding(f, v)[v]
        BY <3>4, <3>5, OneAdding
      <3> QED  BY <3>1, <3>2, <3>6 DEF h
    <2> QED  BY <2>2, <2>3
  <1>4. ASSUME NEW s \in SUBSET t PROVE g[s] = r[s]
    <2>1. CASE s = {}
      BY <2>1
    <2>2. CASE s # {}
      <3> DEFINE x == CHOOSE y \in s : TRUE
      <3>1. x \in s
        BY <2>2
      <3>2. g[s \ {x}] = Adding(f, s \ {x})[s \ {x}]
        <4> HIDE DEF g
        <4>1. s \ {x} \in SUBSET t /\ s \ {x} # t
          BY <3>1
        <4> QED  BY <4>1, <1>3
      <3>3. g[s] = f[x] + Adding(f, s \ {x})[s \ {x}] /\ r[s] = f[x] + g[s \ {x}]
        BY <2>2
      <3> QED  BY <3>2, <3>3
    <2> QED  BY <2>1, <2>2
  <1>5. g = r
    <2>1. g = [s \in SUBSET t |-> g[s]]
      OBVIOUS
    <2>2. r = [s \in SUBSET t |-> r[s]]
      OBVIOUS
    <2> HIDE DEF g, r
    <2> QED  BY <1>4, <2>1, <2>2
  <1>6. Adds(g, f, t)
    BY <1>5 DEF Adds
  <1> QED  BY <1>6 DEF Adding

\* The sum of no numbers is 0; else it is one of them and the sum of the rest.
LEMMA SumStep ==
    ASSUME NEW f, NEW S, IsFiniteSet(S)
    PROVE  /\ SumFunctionOnSet(f, {}) = 0
           /\ S # {} => \E x \in S : SumFunctionOnSet(f, S) = f[x] + SumFunctionOnSet(f, S \ {x})
  <1>1. SumFunctionOnSet(f, {}) = 0
    BY SumIs, AddingAdds, AddsAt, FS_EmptySet
  <1>2. ASSUME S # {}
        PROVE  \E x \in S : SumFunctionOnSet(f, S) = f[x] + SumFunctionOnSet(f, S \ {x})
    <2> DEFINE h == Adding(f, S)
    <2>1. Adds(h, f, S)
      BY AddingAdds
    <2> HIDE DEF h
    <2>2. PICK x \in S : h[S] = f[x] + h[S \ {x}]
      BY <1>2, <2>1, AddsAt
    <2> DEFINE T == S \ {x}
    <2>3. T \in SUBSET S /\ IsFiniteSet(T)
      BY FS_Subset
    <2> HIDE DEF T
    <2>4. Adds([s \in SUBSET T |-> h[s]], f, T) /\ Adds(Adding(f, T), f, T)
      BY <2>1, <2>3, AddsPart, AddingAdds
    <2>5. [s \in SUBSET T |-> h[s]][T] = Adding(f, T)[T]
      BY <2>3, <2>4, OneAdding
    <2>6. h[T] = Adding(f, T)[T]
      BY <2>5
    <2> QED  BY <2>2, <2>6, SumIs DEF h, T
  <1> QED  BY <1>1, <1>2

\* Sums of numbers are numbers.
LEMMA SumType ==
    ASSUME NEW f, NEW S, IsFiniteSet(S), \A x \in S : f[x] \in Int
    PROVE  SumFunctionOnSet(f, S) \in Int
  <1> DEFINE Bad == {t \in SUBSET S : SumFunctionOnSet(f, t) \notin Int}
  <1> SUFFICES ASSUME Bad # {} PROVE FALSE
    OBVIOUS
  <1>a. Bad \in SUBSET SUBSET S /\ Bad # {}
    OBVIOUS
  <1> HIDE DEF Bad
  <1> PICK t \in Bad : \A u \in Bad : u \subseteq t => u = t
    BY <1>a, LeastSet
  <1> USE DEF Bad
  <1>1. IsFiniteSet(t)
    BY FS_Subset
  <1>2. CASE t = {}
    BY <1>1, <1>2, SumStep
  <1>3. CASE t # {}
    <2>1. PICK x \in t : SumFunctionOnSet(f, t) = f[x] + SumFunctionOnSet(f, t \ {x})
      BY <1>1, <1>3, SumStep
    <2>2. SumFunctionOnSet(f, t \ {x}) \in Int
      OBVIOUS
    <2> QED  BY <2>1, <2>2
  <1> QED  BY <1>2, <1>3

\* The same whatever is taken first.
LEMMA SumRemove ==
    ASSUME NEW f, NEW S, IsFiniteSet(S), \A x \in S : f[x] \in Int, NEW x \in S
    PROVE  SumFunctionOnSet(f, S) = f[x] + SumFunctionOnSet(f, S \ {x})
  <1> DEFINE Sum(t) == SumFunctionOnSet(f, t)
             Bad == {t \in SUBSET S : \E y \in t : Sum(t) # f[y] + Sum(t \ {y})}
  <1> SUFFICES ASSUME Bad # {} PROVE FALSE
    OBVIOUS
  <1>a. Bad \in SUBSET SUBSET S /\ Bad # {}
    OBVIOUS
  <1> HIDE DEF Bad
  <1> PICK t \in Bad : \A u \in Bad : u \subseteq t => u = t
    BY <1>a, LeastSet
  <1> USE DEF Bad
  <1> PICK y \in t : Sum(t) # f[y] + Sum(t \ {y})
    OBVIOUS
  <1>1. ASSUME NEW u \in SUBSET S PROVE IsFiniteSet(u) /\ Sum(u) \in Int
    <2>1. IsFiniteSet(u)
      BY FS_Subset
    <2> QED  BY <2>1, SumType
  <1>2. PICK z \in t : Sum(t) = f[z] + Sum(t \ {z})
    BY ZenonT(30), <1>1, SumStep
  <1> HIDE DEF Sum
  <1>3. z # y
    BY <1>2
  <1>4. t \ {z} \notin Bad /\ t \ {y} \notin Bad
    OBVIOUS
  <1>5. Sum(t \ {z}) = f[y] + Sum((t \ {z}) \ {y}) /\ Sum(t \ {y}) = f[z] + Sum((t \ {y}) \ {z})
    <2>1. y \in t \ {z} /\ z \in t \ {y} /\ t \ {z} \in SUBSET S /\ t \ {y} \in SUBSET S
      BY <1>3
    <2> QED  BY <1>4, <2>1
  <1>6. (t \ {z}) \ {y} = (t \ {y}) \ {z}
    OBVIOUS
  <1>7. /\ f[y] \in Int /\ f[z] \in Int
        /\ Sum((t \ {y}) \ {z}) \in Int
    BY <1>1
  <1>8. Sum((t \ {z}) \ {y}) = Sum((t \ {y}) \ {z})
    BY <1>6
  <1> QED  BY <1>2, <1>5, <1>7, <1>8

\* A finite set without one of its elements.
LEMMA OneFewer ==
    ASSUME NEW S, IsFiniteSet(S), NEW T, NEW x \in S, T = S \ {x}
    PROVE  IsFiniteSet(T) /\ Cardinality(T) = Cardinality(S) - 1
  BY FS_RemoveElement

\* Sums of what is not negative are not negative.
LEMMA SumNat ==
    ASSUME NEW f, NEW S, IsFiniteSet(S), \A x \in S : f[x] \in Nat
    PROVE  SumFunctionOnSet(f, S) \in Nat
  <1> DEFINE Bad == {t \in SUBSET S : SumFunctionOnSet(f, t) \notin Nat}
  <1> SUFFICES ASSUME Bad # {} PROVE FALSE
    OBVIOUS
  <1>1. Bad \in SUBSET SUBSET S /\ Bad # {}
    OBVIOUS
  <1> HIDE DEF Bad
  <1> PICK t \in Bad : \A u \in Bad : u \subseteq t => u = t
    BY <1>1, LeastSet
  <1> USE DEF Bad
  <1>2. IsFiniteSet(t)
    BY FS_Subset
  <1>3. CASE t = {}
    BY <1>2, <1>3, SumStep
  <1>4. CASE t # {}
    <2>1. PICK x \in t : SumFunctionOnSet(f, t) = f[x] + SumFunctionOnSet(f, t \ {x})
      BY <1>2, <1>4, SumStep
    <2>2. SumFunctionOnSet(f, t \ {x}) \in Nat
      OBVIOUS
    <2> QED  BY <2>1, <2>2
  <1> QED  BY <1>3, <1>4

\* A sum of numbers none of which is below c.
LEMMA SumAtLeast ==
    ASSUME NEW f, NEW S, IsFiniteSet(S), NEW c \in Nat, \A x \in S : f[x] \in Nat /\ c <= f[x]
    PROVE  c * Cardinality(S) <= SumFunctionOnSet(f, S)
  <1> DEFINE Bad == {t \in SUBSET S : ~(c * Cardinality(t) <= SumFunctionOnSet(f, t))}
  <1> SUFFICES ASSUME Bad # {} PROVE FALSE
    OBVIOUS
  <1>1. Bad \in SUBSET SUBSET S /\ Bad # {}
    OBVIOUS
  <1> HIDE DEF Bad
  <1> PICK t \in Bad : \A u \in Bad : u \subseteq t => u = t
    BY <1>1, LeastSet
  <1> USE DEF Bad
  <1>2. IsFiniteSet(t)
    BY FS_Subset
  <1>3. CASE t = {}
    BY <1>2, <1>3, SumStep, FS_EmptySet
  <1>4. CASE t # {}
    <2>1. PICK x \in t : SumFunctionOnSet(f, t) = f[x] + SumFunctionOnSet(f, t \ {x})
      BY <1>2, <1>4, SumStep
    <2> DEFINE u == t \ {x}
               m == Cardinality(u)
               s == SumFunctionOnSet(f, u)
    <2>2. c * m <= s
      OBVIOUS
    <2>3. /\ Cardinality(t) = m + 1 /\ m \in Nat
      <3>1. IsFiniteSet(u) /\ Cardinality(u) = Cardinality(t) - 1
        BY <1>2, FS_RemoveElement
      <3>2. Cardinality(t) \in Nat /\ Cardinality(u) \in Nat
        BY <1>2, <3>1, FS_CardinalityType
      <3> QED  BY <3>1, <3>2
    <2>4. s \in Nat
      BY <1>2, FS_RemoveElement, SumNat
    <2>5. f[x] \in Nat /\ c <= f[x] /\ SumFunctionOnSet(f, t) = f[x] + s
      BY <2>1
    <2>6. ~(c * Cardinality(t) <= SumFunctionOnSet(f, t))
      OBVIOUS
    <2> HIDE DEF u, m, s
    <2>7. c * (m + 1) = c * m + c /\ c * m \in Nat
      BY <2>3
    <2> QED  BY <2>2, <2>3, <2>4, <2>5, <2>6, <2>7
  <1> QED  BY <1>3, <1>4

\* The shares that numbers have, in c-ths of m, rounded down.
LEMMA SumShares ==
    ASSUME NEW d, NEW p, NEW S, IsFiniteSet(S), NEW c \in Nat, NEW m \in Nat \ {0},
           \A x \in S : d[x] \in Nat /\ p[x] = (d[x] * c) \div m
    PROVE  /\ m * SumFunctionOnSet(p, S) <= c * SumFunctionOnSet(d, S)
           /\ c * SumFunctionOnSet(d, S) <= m * (SumFunctionOnSet(p, S) + Cardinality(S))
  <1> DEFINE D(t) == SumFunctionOnSet(d, t)
             P(t) == SumFunctionOnSet(p, t)
             Right(t) == m * P(t) <= c * D(t) /\ c * D(t) <= m * (P(t) + Cardinality(t))
             Bad == {t \in SUBSET S : ~Right(t)}
  <1> SUFFICES ASSUME Bad # {} PROVE FALSE
    OBVIOUS
  <1>1. Bad \in SUBSET SUBSET S /\ Bad # {}
    OBVIOUS
  <1> HIDE DEF Bad
  <1> PICK t \in Bad : \A u \in Bad : u \subseteq t => u = t
    BY <1>1, LeastSet
  <1>2. t \in SUBSET S /\ ~Right(t) /\ \A u \in SUBSET t : u # t => Right(u)
    BY DEF Bad
  <1>3. \A u \in SUBSET t : IsFiniteSet(u) /\ Cardinality(u) \in Nat
    BY <1>2, FS_Subset, FS_CardinalityType
  <1>4. \A x \in t : d[x] \in Nat /\ p[x] \in Nat /\ m * p[x] <= d[x] * c /\ d[x] * c <= m * p[x] + m
    <2> SUFFICES ASSUME NEW x \in t
                 PROVE  /\ d[x] \in Nat /\ p[x] \in Nat
                        /\ m * p[x] <= d[x] * c /\ d[x] * c <= m * p[x] + m
      OBVIOUS
    <2>1. d[x] \in Nat /\ p[x] = (d[x] * c) \div m
      BY <1>2
    <2> DEFINE a == d[x] * c
    <2>2. a \in Nat
      BY <2>1
    <2> HIDE DEF a
    <2>3. a \div m \in Nat /\ m * (a \div m) <= a /\ a <= m * (a \div m) + m
      BY <2>2
    <2> QED  BY <2>1, <2>3 DEF a
  <1>5. \A u \in SUBSET t : D(u) \in Nat /\ P(u) \in Nat
    <2> TAKE u \in SUBSET t
    <2>1. IsFiniteSet(u) /\ \A x \in u : d[x] \in Nat /\ p[x] \in Nat
      BY <1>3, <1>4
    <2> QED  BY <2>1, SumNat
  <1>6. CASE t = {}
    <2>1. D(t) = 0 /\ P(t) = 0 /\ Cardinality(t) = 0
      BY <1>3, <1>6, SumStep, FS_EmptySet
    <2> HIDE DEF D, P
    <2> QED  BY <1>2, <2>1
  <1>7. CASE t # {}
    <2> PICK x \in t : TRUE
      BY <1>7
    <2> DEFINE u == t \ {x}
    <2>1. D(t) = d[x] + D(u) /\ P(t) = p[x] + P(u)
      <3>1. IsFiniteSet(t) /\ \A y \in t : d[y] \in Int /\ p[y] \in Int
        BY <1>3, <1>4
      <3> QED  BY <3>1, SumRemove
    <2>2. Cardinality(t) = Cardinality(u) + 1 /\ Cardinality(u) \in Nat
      BY <1>3, FS_RemoveElement
    <2>3. Right(u) /\ D(u) \in Nat /\ P(u) \in Nat
      BY <1>2, <1>5
    <2> HIDE DEF D, P, u
    <2> DEFINE a == d[x]
               b == p[x]
               Du == D(u)
               Pu == P(u)
               k == Cardinality(u)
    <2>4. a \in Nat /\ b \in Nat /\ m * b <= a * c /\ a * c <= m * b + m
      BY <1>4
    <2>5. /\ Du \in Nat /\ Pu \in Nat /\ k \in Nat
          /\ m * Pu <= c * Du /\ c * Du <= m * (Pu + k)
      BY <2>2, <2>3
    <2>6. D(t) = a + Du /\ P(t) = b + Pu /\ Cardinality(t) = k + 1
      BY <2>1, <2>2
    <2> HIDE DEF a, b, Du, Pu, k
    <2>7. /\ m * (b + Pu) = m * b + m * Pu /\ c * (a + Du) = a * c + c * Du
          /\ m * (b + Pu + k + 1) = m * b + m * (Pu + k) + m
      BY <2>4, <2>5
    <2>8. /\ m * b \in Nat /\ m * Pu \in Nat /\ a * c \in Nat /\ c * Du \in Nat /\ m * (Pu + k) \in Nat
      BY <2>4, <2>5
    <2>9. (b + Pu) + (k + 1) = b + Pu + k + 1
      BY <2>4, <2>5
    <2>10. m * (b + Pu) <= c * (a + Du)
      BY <2>4, <2>5, <2>7, <2>8
    <2>11. c * (a + Du) <= m * ((b + Pu) + (k + 1))
      BY <2>4, <2>5, <2>7, <2>8, <2>9
    <2> QED  BY <1>2, <2>6, <2>10, <2>11
  <1> QED  BY <1>6, <1>7

\* Of pairs that count by their first parts, those are worth no less that
\* have no first part less often.
LEMMA SumByFirst ==
    ASSUME NEW g, NEW D, IsFiniteSet(D), \A e \in D : g[e] \in Nat,
           \A e, d \in D : e[1] = d[1] => g[e] = g[d],
           NEW A \in SUBSET D, NEW B \in SUBSET D,
           \A x : Cardinality({e \in A : e[1] = x}) <= Cardinality({e \in B : e[1] = x})
    PROVE  SumFunctionOnSet(g, A) <= SumFunctionOnSet(g, B)
  <1> DEFINE Of(C, x) == {e \in C : e[1] = x}
             Less(a, b) == \A x : Cardinality(Of(a, x)) <= Cardinality(Of(b, x))
             Sum(a) == SumFunctionOnSet(g, a)
             Bad == {a \in SUBSET D : \E b \in SUBSET D : Less(a, b) /\ ~(Sum(a) <= Sum(b))}
  <1> SUFFICES ASSUME Bad # {} PROVE FALSE
    OBVIOUS
  <1>1. Bad \in SUBSET SUBSET D /\ Bad # {}
    OBVIOUS
  <1> HIDE DEF Bad
  <1> PICK a \in Bad : \A u \in Bad : u \subseteq a => u = a
    BY <1>1, LeastSet
  <1>2. PICK b \in SUBSET D : Less(a, b) /\ ~(Sum(a) <= Sum(b))
    BY DEF Bad
  <1>3. a \in SUBSET D /\ \A u \in SUBSET a, w \in SUBSET D : u # a /\ Less(u, w) => Sum(u) <= Sum(w)
    BY DEF Bad
  <1>4. \A u \in SUBSET D : /\ IsFiniteSet(u) /\ Cardinality(u) \in Nat /\ Sum(u) \in Nat
                            /\ \A e \in u : Sum(u) = g[e] + Sum(u \ {e})
    <2> SUFFICES ASSUME NEW u \in SUBSET D
                 PROVE  /\ IsFiniteSet(u) /\ Cardinality(u) \in Nat /\ Sum(u) \in Nat
                        /\ \A e \in u : Sum(u) = g[e] + Sum(u \ {e})
      OBVIOUS
    <2>1. IsFiniteSet(u) /\ \A e \in u : g[e] \in Nat
      BY FS_Subset
    <2>2. Cardinality(u) \in Nat /\ Sum(u) \in Nat
      BY <2>1, FS_CardinalityType, SumNat
    <2>3. ASSUME NEW e \in u PROVE Sum(u) = g[e] + Sum(u \ {e})
      <3>1. \A d \in u : g[d] \in Int
        BY <2>1
      <3> QED  BY <2>1, <3>1, SumRemove
    <2> QED  BY <2>1, <2>2, <2>3
  <1>5. CASE a = {}
    <2>1. Sum(a) = 0
      BY <1>3, <1>4, <1>5, SumStep
    <2> HIDE DEF Sum
    <2> QED  BY <1>2, <1>4, <2>1
  <1>6. CASE a # {}
    <2> HIDE DEF Sum
    <2> PICK e \in a : TRUE
      BY <1>6
    <2> DEFINE x == e[1]
    <2>1. \A u \in SUBSET D : \A y : IsFiniteSet(Of(u, y)) /\ Cardinality(Of(u, y)) \in Nat
      <3> SUFFICES ASSUME NEW u \in SUBSET D, NEW y
                   PROVE  Of(u, y) \in SUBSET D
        BY <1>4
      <3> QED  OBVIOUS
    <2>2. Of(b, x) # {}
      <3>1. Of(a, x) # {}
        OBVIOUS
      <3>2. Cardinality(Of(a, x)) # 0
        BY ZenonT(30), <1>3, <2>1, <3>1, FS_EmptySet
      <3>3. Cardinality(Of(a, x)) <= Cardinality(Of(b, x))
        BY <1>2
      <3>4. Cardinality(Of(b, x)) # 0
        <4> HIDE DEF Of
        <4> QED  BY <1>2, <1>3, <2>1, <3>2, <3>3
      <3> QED  BY <3>4, FS_EmptySet
    <2> PICK d \in b : d[1] = x
      BY <2>2
    <2> DEFINE u == a \ {e}
               w == b \ {d}
    <2>3. u \in SUBSET a /\ u # a /\ u \in SUBSET D /\ w \in SUBSET D
      BY <1>2, <1>3
    <2>4. Less(u, w)
      <3> SUFFICES ASSUME NEW y PROVE Cardinality(Of(u, y)) <= Cardinality(Of(w, y))
        OBVIOUS
      <3>1. Cardinality(Of(a, y)) <= Cardinality(Of(b, y))
        BY <1>2
      <3>2. CASE y # x
        <4>1. Of(u, y) = Of(a, y) /\ Of(w, y) = Of(b, y)
          BY <3>2
        <4> QED  BY <3>1, <4>1
      <3>3. CASE y = x
        <4>1. Of(u, y) = Of(a, y) \ {e} /\ Of(w, y) = Of(b, y) \ {d}
          OBVIOUS
        <4>2. e \in Of(a, y) /\ d \in Of(b, y)
          BY <3>3
        <4>3. /\ IsFiniteSet(Of(a, y)) /\ Cardinality(Of(a, y)) \in Nat
              /\ IsFiniteSet(Of(b, y)) /\ Cardinality(Of(b, y)) \in Nat
          BY ZenonT(30), <1>2, <1>3, <2>1
        <4> HIDE DEF Of, u, w
        <4>4. Cardinality(Of(u, y)) = Cardinality(Of(a, y)) - 1
          BY <4>1, <4>2, <4>3, OneFewer
        <4>5. Cardinality(Of(w, y)) = Cardinality(Of(b, y)) - 1
          BY <4>1, <4>2, <4>3, OneFewer
        <4> QED  BY <3>1, <4>3, <4>4, <4>5
      <3> QED  BY <3>2, <3>3
    <2>5. Sum(u) <= Sum(w)
      <3> HIDE DEF Less, u, w
      <3> QED  BY <1>3, <2>3, <2>4
    <2>6. Sum(a) = g[e] + Sum(u) /\ Sum(b) = g[d] + Sum(w)
      BY <1>2, <1>3, <1>4
    <2>7. g[e] = g[d] /\ g[e] \in Nat
      <3>1. e \in D /\ d \in D
        BY <1>2, <1>3
      <3> QED  BY <3>1
    <2>8. Sum(u) \in Nat /\ Sum(w) \in Nat
      BY <1>4, <2>3
    <2> HIDE DEF u, w
    <2> QED  BY <1>2, <2>5, <2>6, <2>7, <2>8
  <1> QED  BY <1>5, <1>6

\* Of the numbers that have a property there is a least.
LEMMA LeastNumber ==
    ASSUME NEW S \in SUBSET Nat, S # {}
    PROVE  \E n \in S : \A m \in S : n <= m
  <1>1. \E n \in S : \A m \in S : ~(<<m, n>> \in OpToRel(<, Nat))
    BY NatLessThanWellFounded, WFMin
  <1>2. \A n \in S, m \in S : ~(<<m, n>> \in OpToRel(<, Nat)) => n <= m
    BY DEF OpToRel
  <1> QED  BY <1>1, <1>2

-----------------------------------------------------------------------------
(* qsort by a key. *)

(* t has the elements of C, each once, those with the greatest keys first. *)
Ranking(t, C, key) ==
    /\ t \in Seq(C) /\ Range(t) = C /\ IsInjective(t)
    /\ \A i, k \in 1..Len(t) : i < k => key[t[i]] >= key[t[k]]

\* What Merge makes of the rest of left from l on and of right from r on.
MergeAt(f, left, right, key, l, r) ==
    IF l > Len(left) \/ r > Len(right)
    THEN SubSeq(left, l, Len(left)) \o SubSeq(right, r, Len(right))
    ELSE IF (IF key[left[l]] < key[right[r]] THEN 1 ELSE 0) <= 0 THEN <<left[l]>> \o f[<<l + 1, r>>]
    ELSE <<right[r]>> \o f[<<l, r + 1>>]

Merges(f, left, right, key) ==
    f = [p \in (1..(Len(left) + 1)) \X (1..(Len(right) + 1)) |->
            MergeAt(f, left, right, key, p[1], p[2])]

Merged(left, right, key) == (CHOOSE f : Merges(f, left, right, key))[<<1, 1>>]

SortAt(f, s, key, i, n) ==
    IF n <= 1 THEN SubSeq(s, i, i + n - 1)
    ELSE Merged(f[<<i, n \div 2>>], f[<<i + (n \div 2), n - (n \div 2)>>], key)

Sorts(f, s, key) == f = [p \in Nat \X (0..Len(s)) |-> SortAt(f, s, key, p[1], p[2])]

SortedBy(s, key) == (CHOOSE f : Sorts(f, s, key))[<<1, Len(s)>>]

\* It is what the comparisons of gen_top sort by.
LEMMA SortedByIs ==
    ASSUME NEW s
    PROVE  qsort(s, _ind_cmp) = SortedBy(s, ind) /\ qsort(s, _pr_cmp) = SortedBy(s, pr)
  BY DEF SortedBy, Sorts, SortAt, Merged, Merges, MergeAt, _ind_cmp, _pr_cmp, qsort, Merge

\* Merge calls itself for shorter rests only: it computes what it is defined by.
LEMMA MergeAsDefined ==
    ASSUME NEW S, NEW left \in Seq(S), NEW right \in Seq(S), NEW key
    PROVE  \E f : Merges(f, left, right, key) /\ Merged(left, right, key) = f[<<1, 1>>]
  <1> DEFINE L == Len(left) + 1
             R == Len(right) + 1
             M(f, l, r) == MergeAt(f, left, right, key, l, r)
             UpTo(n) == \E f : \A l \in 1..L, r \in 1..R : (L - l) + (R - r) <= n => f[<<l, r>>] = M(f, l, r)
             Bad == {n \in Nat : ~UpTo(n)}
  <1>1. L \in Nat /\ R \in Nat /\ Len(left) \in Nat /\ Len(right) \in Nat
    BY LenProperties
  <1>2. ASSUME NEW f, NEW g, NEW l, NEW r,
               \/ l > Len(left) \/ r > Len(right)
               \/ f[<<l + 1, r>>] = g[<<l + 1, r>>] /\ f[<<l, r + 1>>] = g[<<l, r + 1>>]
        PROVE  M(f, l, r) = M(g, l, r)
    BY <1>2 DEF MergeAt
  <1>3. Bad = {}
    <2> SUFFICES ASSUME Bad # {} PROVE FALSE
      OBVIOUS
    <2>1. Bad \in SUBSET Nat /\ Bad # {}
      OBVIOUS
    <2> HIDE DEF Bad
    <2> PICK n \in Bad : \A m \in Bad : n <= m
      BY <2>1, LeastNumber
    <2>2. n \in Nat /\ ~UpTo(n) /\ (n # 0 => UpTo(n - 1))
      <3>1. n \in Nat
        BY <2>1
      <3>2. n # 0 => n - 1 \in Nat /\ ~(n <= n - 1)
        BY <3>1
      <3> QED  BY <3>1, <3>2 DEF Bad
    <2> HIDE DEF UpTo
    <2>3. n \in Nat
      BY <2>2
    <2> USE DEF UpTo
    <2>4. PICK f : \A l \in 1..L, r \in 1..R : (L - l) + (R - r) <= n - 1 => f[<<l, r>>] = M(f, l, r)
      <3>1. CASE n = 0
        <4>1. \A l \in 1..L, r \in 1..R : ~((L - l) + (R - r) <= n - 1)
          BY <1>1, <3>1
        <4> QED  BY <4>1
      <3>2. CASE n # 0
        BY <2>2, <3>2
      <3> QED  BY <3>1, <3>2
    <2> DEFINE g == [p \in (1..L) \X (1..R) |->
                      IF (L - p[1]) + (R - p[2]) <= n - 1 THEN f[p] ELSE M(f, p[1], p[2])]
    <2>5. \A l \in 1..L, r \in 1..R : g[<<l, r>>] = M(f, l, r)
      <3> HIDE DEF M
      <3> QED  BY <2>4
    <2>6. \A l \in 1..L, r \in 1..R : (L - l) + (R - r) <= n - 1 => g[<<l, r>>] = f[<<l, r>>]
      <3> HIDE DEF M
      <3> QED  OBVIOUS
    <2> HIDE DEF g, M
    <2>7. ASSUME NEW l \in 1..L, NEW r \in 1..R, (L - l) + (R - r) <= n
          PROVE  g[<<l, r>>] = M(g, l, r)
      <3>1. CASE l > Len(left) \/ r > Len(right)
        <4>1. M(f, l, r) = M(g, l, r)
          BY ZenonT(30), <1>2, <3>1
        <4> QED  BY <2>5, <4>1
      <3>2. CASE ~(l > Len(left) \/ r > Len(right))
        <4>1. /\ l + 1 \in 1..L /\ r + 1 \in 1..R
              /\ (L - (l + 1)) + (R - r) <= n - 1 /\ (L - l) + (R - (r + 1)) <= n - 1
          <5>1. n \in Nat /\ l \in Nat /\ r \in Nat /\ l <= Len(left) /\ r <= Len(right)
            BY <1>1, <2>3, <3>2
          <5> QED  BY <1>1, <2>7, <5>1
        <4>2. g[<<l + 1, r>>] = f[<<l + 1, r>>] /\ g[<<l, r + 1>>] = f[<<l, r + 1>>]
          BY <2>6, <4>1
        <4>3. M(f, l, r) = M(g, l, r)
          BY <1>2, <4>2
        <4> QED  BY <2>5, <4>3
      <3> QED  BY <3>1, <3>2
    <2> QED  BY <2>2, <2>7
  <1>4. UpTo(L + R)
    <2>1. L + R \in Nat
      BY <1>1
    <2> QED  BY <1>3, <2>1
  <1>5. PICK f : \A l \in 1..L, r \in 1..R : f[<<l, r>>] = M(f, l, r)
    <2>1. \A l \in 1..L, r \in 1..R : (L - l) + (R - r) <= L + R
      BY <1>1
    <2> QED  BY <1>4, <2>1
  <1> DEFINE g == [p \in (1..L) \X (1..R) |-> f[p]]
  <1>6. \A l \in 1..L, r \in 1..R : g[<<l, r>>] = M(g, l, r)
    <2>1. \A l \in 1..L, r \in 1..R : g[<<l, r>>] = f[<<l, r>>]
      OBVIOUS
    <2> HIDE DEF M, g
    <2> SUFFICES ASSUME NEW l \in 1..L, NEW r \in 1..R PROVE M(f, l, r) = M(g, l, r)
      BY <1>5, <2>1
    <2>2. CASE l > Len(left) \/ r > Len(right)
      BY ZenonT(30), <1>2, <2>2
    <2>3. CASE ~(l > Len(left) \/ r > Len(right))
      <3>1. l + 1 \in 1..L /\ r + 1 \in 1..R
        BY <1>1, <2>3
      <3>2. f[<<l + 1, r>>] = g[<<l + 1, r>>] /\ f[<<l, r + 1>>] = g[<<l, r + 1>>]
        BY <2>1, <3>1
      <3> QED  BY <1>2, <3>2
    <2> QED  BY <2>2, <2>3
  <1>7. g = [p \in (1..L) \X (1..R) |-> M(g, p[1], p[2])]
    <2>1. g = [p \in (1..L) \X (1..R) |-> g[p]]
      OBVIOUS
    <2> HIDE DEF g, M
    <2>2. \A p \in (1..L) \X (1..R) : g[p] = M(g, p[1], p[2])
      BY <1>6
    <2> QED  BY <2>1, <2>2
  <1>8. Merges(g, left, right, key)
    BY <1>7 DEF Merges
  <1> QED  BY <1>8 DEF Merged

\* The halves of a part of two or more are shorter than it.
LEMMA Halves ==
    ASSUME NEW n \in Nat, n > 1
    PROVE  /\ n \div 2 \in 1..(n - 1) /\ n - (n \div 2) \in 1..(n - 1)
  OBVIOUS

\* So does qsort, for shorter parts.
LEMMA SortAsDefined ==
    ASSUME NEW S, NEW s \in Seq(S), NEW key
    PROVE  \E f : Sorts(f, s, key) /\ SortedBy(s, key) = f[<<1, Len(s)>>]
  <1> DEFINE N == Len(s)
             M(f, i, n) == SortAt(f, s, key, i, n)
             UpTo(m) == \E f : \A i \in Nat, n \in 0..N : n <= m => f[<<i, n>>] = M(f, i, n)
             Bad == {m \in Nat : ~UpTo(m)}
  <1>1. N \in Nat
    BY LenProperties
  <1>2. ASSUME NEW f, NEW g, NEW i \in Nat, NEW n \in 0..N,
               \A k \in Nat, m \in 0..N : m < n => f[<<k, m>>] = g[<<k, m>>]
        PROVE  M(f, i, n) = M(g, i, n)
    <2>1. CASE n <= 1
      BY <2>1 DEF SortAt
    <2>2. CASE n > 1
      <3> DEFINE h == n \div 2
      <3>1. h \in 1..(n - 1) /\ n - h \in 1..(n - 1)
        BY <1>1, <2>2, Halves
      <3> HIDE DEF h, N
      <3>2. h \in 0..N /\ n - h \in 0..N /\ h < n /\ n - h < n /\ i + h \in Nat
        BY <1>1, <3>1
      <3>3. f[<<i, h>>] = g[<<i, h>>] /\ f[<<i + h, n - h>>] = g[<<i + h, n - h>>]
        BY <1>2, <3>2
      <3> QED  BY <3>3 DEF SortAt, h
    <2> QED  BY <1>1, <2>1, <2>2
  <1> HIDE DEF N, M
  <1>3. Bad = {}
    <2> SUFFICES ASSUME Bad # {} PROVE FALSE
      OBVIOUS
    <2>1. Bad \in SUBSET Nat /\ Bad # {}
      OBVIOUS
    <2> HIDE DEF Bad
    <2> PICK m \in Bad : \A k \in Bad : m <= k
      BY <2>1, LeastNumber
    <2>2. m \in Nat
      BY <2>1
    <2>3. ~UpTo(m) /\ (m # 0 => UpTo(m - 1))
      <3>1. m # 0 => m - 1 \in Nat /\ ~(m <= m - 1)
        BY <2>2
      <3> QED  BY <2>2, <3>1 DEF Bad
    <2>4. PICK f : \A i \in Nat, n \in 0..N : n <= m - 1 => f[<<i, n>>] = M(f, i, n)
      <3>1. CASE m = 0
        <4>1. \A n \in 0..N : ~(n <= m - 1)
          BY <1>1, <3>1
        <4> QED  BY <4>1
      <3>2. CASE m # 0
        BY <2>3, <3>2
      <3> QED  BY <3>1, <3>2
    <2> DEFINE g == [p \in Nat \X (0..N) |-> IF p[2] <= m - 1 THEN f[p] ELSE M(f, p[1], p[2])]
    <2>5. \A i \in Nat, n \in 0..N : g[<<i, n>>] = M(f, i, n)
      BY <2>4
    <2>6. \A i \in Nat, n \in 0..N : n <= m - 1 => g[<<i, n>>] = f[<<i, n>>]
      OBVIOUS
    <2> HIDE DEF g
    <2>7. ASSUME NEW i \in Nat, NEW n \in 0..N, n <= m
          PROVE  g[<<i, n>>] = M(g, i, n)
      <3>1. \A k \in Nat, q \in 0..N : q < n => f[<<k, q>>] = g[<<k, q>>]
        <4>1. \A q \in 0..N : q < n => q <= m - 1
          BY <1>1, <2>2, <2>7
        <4> QED  BY <2>6, <4>1
      <3> QED  BY <1>2, <2>5, <3>1
    <2> QED  BY <2>3, <2>7
  <1>4. PICK f : \A i \in Nat, n \in 0..N : f[<<i, n>>] = M(f, i, n)
    <2>1. UpTo(N)
      BY <1>1, <1>3
    <2>2. \A n \in 0..N : n <= N
      BY <1>1
    <2> QED  BY <2>1, <2>2
  <1> DEFINE g == [p \in Nat \X (0..N) |-> f[p]]
  <1>5. \A i \in Nat, n \in 0..N : g[<<i, n>>] = M(g, i, n)
    <2>1. \A i \in Nat, n \in 0..N : g[<<i, n>>] = f[<<i, n>>]
      OBVIOUS
    <2> HIDE DEF g
    <2>2. ASSUME NEW i \in Nat, NEW n \in 0..N PROVE M(f, i, n) = M(g, i, n)
      BY <1>2, <2>1
    <2> QED  BY <1>4, <2>1, <2>2
  <1>6. g = [p \in Nat \X (0..N) |-> M(g, p[1], p[2])]
    <2>1. g = [p \in Nat \X (0..N) |-> g[p]]
      OBVIOUS
    <2> HIDE DEF g
    <2>2. \A p \in Nat \X (0..N) : g[p] = M(g, p[1], p[2])
      BY <1>5
    <2> QED  BY <2>1, <2>2
  <1>7. Sorts(g, s, key)
    BY <1>6 DEF Sorts, N, M
  <1> QED  BY <1>7 DEF SortedBy

-----------------------------------------------------------------------------
\* A sequence with a greatest element put in front.
LEMMA RankingCons ==
    ASSUME NEW t, NEW C, NEW key, Ranking(t, C, key), NEW x, x \notin C,
           \A y \in C : key[x] >= key[y]
    PROVE  Ranking(<<x>> \o t, C \cup {x}, key)
  <1> DEFINE D == C \cup {x}
             u == <<x>> \o t
             n == Len(t)
  <1>1. t \in Seq(C) /\ n \in Nat /\ \A i \in 1..n : t[i] \in C
    BY LenProperties, ElementOfSeq DEF Ranking
  <1>2. <<x>> \in Seq(D) /\ Len(<<x>>) = 1 /\ <<x>>[1] = x
    OBVIOUS
  <1>3. t \in Seq(D)
    BY <1>1, SeqMonotonic
  <1>4. /\ u \in Seq(D) /\ Len(u) = 1 + n
        /\ u[1] = x /\ \A i \in 1..n : u[i + 1] = t[i]
    <2>1. /\ u \in Seq(D) /\ Len(u) = Len(<<x>>) + n
          /\ \A i \in 1..(Len(<<x>>) + n) :
                u[i] = IF i <= Len(<<x>>) THEN <<x>>[i] ELSE t[i - Len(<<x>>)]
      BY ONLY <1>2, <1>3, ConcatProperties, Zenon
    <2> HIDE DEF u, n
    <2>2. /\ u \in Seq(D) /\ Len(u) = 1 + n
          /\ \A i \in 1..(1 + n) : u[i] = IF i <= 1 THEN <<x>>[i] ELSE t[i - 1]
      BY <1>2, <2>1
    <2>3. 1 \in 1..(1 + n) /\ \A i \in 1..n : i + 1 \in 1..(1 + n) /\ ~(i + 1 <= 1) /\ (i + 1) - 1 = i
      BY <1>1
    <2>4. u[1] = <<x>>[1]
      BY <2>2, <2>3
    <2>5. \A i \in 1..n : u[i + 1] = t[i]
      BY <2>2, <2>3
    <2> QED  BY <1>2, <2>2, <2>4, <2>5
  <1>5. \A i \in 1..n, k \in 1..n : (t[i] = t[k] => i = k) /\ (i < k => key[t[i]] >= key[t[k]])
    BY <1>1, LenProperties DEF Ranking, IsInjective
  <1>6. Range(t) = C
    BY DEF Ranking
  <1> HIDE DEF u, n, D
  <1>7. \A i \in 1..(1 + n) : i = 1 \/ (i - 1 \in 1..n /\ u[i] = t[i - 1] /\ t[i - 1] \in C)
    <2> TAKE i \in 1..(1 + n)
    <2>1. i = 1 \/ (i - 1 \in 1..n /\ (i - 1) + 1 = i)
      BY <1>1
    <2> QED  BY <1>1, <1>4, <2>1
  <1>8. DOMAIN u = 1..(1 + n)
    BY <1>4, LenProperties
  <1>9. Range(u) = D
    <2>1. \A i \in DOMAIN u : u[i] \in D
      BY <1>4, <1>7, <1>8 DEF D
    <2>2. ASSUME NEW y \in D PROVE \E i \in DOMAIN u : u[i] = y
      <3>1. CASE y = x
        BY <1>1, <1>4, <1>8, <3>1
      <3>2. CASE y # x
        <4>1. PICK i \in DOMAIN t : t[i] = y
          BY <1>6, <3>2 DEF D, Range
        <4>2. i \in 1..n
          BY <1>1, LenProperties DEF n
        <4>3. i + 1 \in 1..(1 + n)
          BY <1>1, <4>2
        <4> QED  BY <1>4, <1>8, <4>1, <4>2, <4>3
      <3> QED  BY <3>1, <3>2
    <2> QED  BY <2>1, <2>2 DEF Range
  <1>10. IsInjective(u)
    <2> SUFFICES ASSUME NEW i \in 1..(1 + n), NEW k \in 1..(1 + n), u[i] = u[k] PROVE i = k
      BY <1>8 DEF IsInjective
    <2>1. CASE i # 1 /\ k # 1
      <3>1. i - 1 = k - 1
        BY <1>5, <1>7, <2>1
      <3> QED  BY <1>1, <3>1
    <2>2. CASE i = 1 \/ k = 1
      BY <1>4, <1>7, <2>2
    <2> QED  BY <2>1, <2>2
  <1>11. ASSUME NEW i \in 1..(1 + n), NEW k \in 1..(1 + n), i < k
         PROVE  key[u[i]] >= key[u[k]]
    <2>1. k # 1 /\ k \in Int /\ i \in Int
      BY <1>1, <1>11
    <2>2. CASE i = 1
      BY <1>4, <1>7, <2>1, <2>2
    <2>3. CASE i # 1
      <3>1. i - 1 \in 1..n /\ k - 1 \in 1..n /\ i - 1 < k - 1
        BY <1>1, <1>11, <2>1, <2>3
      <3>2. u[i] = t[i - 1] /\ u[k] = t[k - 1]
        BY <1>7, <2>1, <2>3
      <3> QED  BY <1>5, <3>1, <3>2
    <2> QED  BY <2>2, <2>3
  <1> QED  BY <1>4, <1>9, <1>10, <1>11 DEF Ranking, u, D

\* The rest of a sequence, from a place on.
Rest(t, l) == {t[i] : i \in l..Len(t)}

\* What is left of a ranking from a place on ranks what it has.
LEMMA RankingRest ==
    ASSUME NEW t, NEW C, NEW key, Ranking(t, C, key), NEW l \in 1..(Len(t) + 1)
    PROVE  Ranking(SubSeq(t, l, Len(t)), Rest(t, l), key)
  <1> DEFINE n == Len(t)
             u == SubSeq(t, l, n)
             m == n - l + 1
             D == Rest(t, l)
  <1>1. t \in Seq(C) /\ n \in Nat /\ DOMAIN t = 1..n
    BY LenProperties DEF Ranking
  <1>2. \A i \in l..n : t[i] \in D
    BY DEF Rest
  <1>3. m \in Nat /\ \A i \in 1..m : l + i - 1 \in l..n /\ l + i - 1 \in 1..n
    BY <1>1
  <1>4. /\ u \in Seq(D) /\ Len(u) = m
        /\ \A i \in 1..m : u[i] = t[l + i - 1]
    <2>1. l \in Int /\ n \in Int
      BY <1>1
    <2> HIDE DEF D, n
    <2>2. /\ u \in Seq(D) /\ Len(u) = IF l <= n THEN n - l + 1 ELSE 0
          /\ \A i \in 1..(n - l + 1) : u[i] = t[l + i - 1]
      BY <1>2, <2>1, SubSeqProperties
    <2>3. (IF l <= n THEN n - l + 1 ELSE 0) = m
      BY <1>1 DEF n
    <2> QED  BY <2>2, <2>3
  <1>5. \A i \in 1..n, k \in 1..n : (t[i] = t[k] => i = k) /\ (i < k => key[t[i]] >= key[t[k]])
    BY <1>1 DEF Ranking, IsInjective
  <1>6. DOMAIN u = 1..m
    BY <1>4, LenProperties
  <1> HIDE DEF u, n
  <1>7. Range(u) = D
    <2>1. \A i \in 1..m : u[i] \in D
      BY <1>2, <1>3, <1>4
    <2>2. ASSUME NEW y \in D PROVE \E i \in 1..m : u[i] = y
      <3>1. PICK k \in l..n : y = t[k]
        BY DEF Rest, n
      <3>2. k - l + 1 \in 1..m /\ l + (k - l + 1) - 1 = k
        BY <1>1, <3>1
      <3> QED  BY <1>4, <3>1, <3>2
    <2> QED  BY <1>6, <2>1, <2>2 DEF Range
  <1>8. ASSUME NEW i \in 1..m, NEW k \in 1..m
        PROVE  /\ u[i] = u[k] => i = k
               /\ i < k => key[u[i]] >= key[u[k]]
    <2>1. /\ l + i - 1 \in 1..n /\ l + k - 1 \in 1..n
          /\ l + i - 1 = l + k - 1 => i = k
          /\ i < k => l + i - 1 < l + k - 1
      BY <1>1, <1>3
    <2> QED  BY <1>4, <1>5, <2>1
  <1> QED  BY <1>4, <1>6, <1>7, <1>8 DEF Ranking, IsInjective, u, n

\* The rests of a ranking, from all of it to nothing.
LEMMA RestFacts ==
    ASSUME NEW t, NEW C, NEW key, Ranking(t, C, key)
    PROVE  /\ Len(t) \in Nat /\ Rest(t, 1) = C /\ Rest(t, Len(t) + 1) = {}
           /\ \A l \in 1..Len(t) : /\ t[l] \in C /\ t[l] \notin Rest(t, l + 1)
                                   /\ Rest(t, l) = Rest(t, l + 1) \cup {t[l]}
           /\ \A l \in 1..(Len(t) + 1) : Rest(t, l) \subseteq C
           /\ (\A x \in C : key[x] \in Int) =>
                 \A l \in 1..Len(t) : \A y \in Rest(t, l) : key[t[l]] >= key[y]
  <1> DEFINE n == Len(t)
  <1>1. n \in Nat /\ DOMAIN t = 1..n /\ \A i \in 1..n : t[i] \in C
    BY LenProperties, ElementOfSeq DEF Ranking
  <1>2. \A i \in 1..n, k \in 1..n : (t[i] = t[k] => i = k) /\ (i < k => key[t[i]] >= key[t[k]])
    BY <1>1 DEF Ranking, IsInjective
  <1>3. C = {t[i] : i \in 1..n}
    BY <1>1 DEF Ranking, Range
  <1> HIDE DEF n
  <1>4. Rest(t, 1) = C /\ Rest(t, n + 1) = {}
    <2>1. (n + 1)..n = {}
      BY <1>1
    <2> QED  BY <1>3, <2>1 DEF Rest, n
  <1>5. ASSUME NEW l \in 1..n
        PROVE  /\ t[l] \in C /\ t[l] \notin Rest(t, l + 1)
               /\ Rest(t, l) = Rest(t, l + 1) \cup {t[l]}
    <2>1. l..n = ((l + 1)..n) \cup {l}
      BY <1>1
    <2>2. \A i \in (l + 1)..n : i \in 1..n /\ i # l
      BY <1>1
    <2>3. t[l] \notin Rest(t, l + 1)
      BY <1>2, <2>2 DEF Rest, n
    <2>4. Rest(t, l) = Rest(t, l + 1) \cup {t[l]}
      BY <2>1 DEF Rest, n
    <2> QED  BY <1>1, <2>3, <2>4
  <1>6. ASSUME NEW l \in 1..(n + 1) PROVE Rest(t, l) \subseteq C
    <2>1. \A i \in l..n : i \in 1..n
      BY <1>1
    <2> QED  BY <1>1, <2>1 DEF Rest, n
  <1>7. ASSUME \A x \in C : key[x] \in Int, NEW l \in 1..n, NEW y \in Rest(t, l)
        PROVE  key[t[l]] >= key[y]
    <2>1. PICK i \in l..n : y = t[i]
      BY DEF Rest, n
    <2>2. i \in 1..n /\ (i = l \/ l < i)
      BY <1>1
    <2>3. key[t[l]] \in Int
      BY <1>1, <1>7
    <2>4. CASE i = l
      <3>1. y = t[l]
        BY <2>1, <2>4
      <3> QED  BY <2>3, <3>1
    <2>5. CASE l < i
      BY <1>2, <2>1, <2>2, <2>5
    <2> QED  BY <2>2, <2>4, <2>5
  <1> QED  BY <1>1, <1>4, <1>5, <1>6, <1>7 DEF n

\* Merge takes the front of one of two rankings first, until one is used up.
LEMMA RankingMerge ==
    ASSUME NEW left, NEW right, NEW A, NEW B, NEW key,
           Ranking(left, A, key), Ranking(right, B, key), A \cap B = {},
           \A x \in A \cup B : key[x] \in Int
    PROVE  Ranking(Merged(left, right, key), A \cup B, key)
  <1> DEFINE n == Len(left)
             m == Len(right)
             Both(l, r) == Rest(left, l) \cup Rest(right, r)
  <1>1. left \in Seq(A \cup B) /\ right \in Seq(A \cup B)
    BY SeqMonotonic DEF Ranking
  <1>2. PICK f : Merges(f, left, right, key) /\ Merged(left, right, key) = f[<<1, 1>>]
    BY <1>1, MergeAsDefined
  <1>3. \A l \in 1..(n + 1), r \in 1..(m + 1) : f[<<l, r>>] = MergeAt(f, left, right, key, l, r)
    BY <1>2 DEF Merges
  <1>4. /\ n \in Nat /\ Rest(left, 1) = A /\ Rest(left, n + 1) = {}
        /\ \A l \in 1..n : /\ left[l] \in A /\ left[l] \notin Rest(left, l + 1)
                           /\ Rest(left, l) = Rest(left, l + 1) \cup {left[l]}
        /\ \A l \in 1..(n + 1) : Rest(left, l) \subseteq A
        /\ \A l \in 1..n : \A y \in Rest(left, l) : key[left[l]] >= key[y]
    BY RestFacts
  <1>5. /\ m \in Nat /\ Rest(right, 1) = B /\ Rest(right, m + 1) = {}
        /\ \A r \in 1..m : /\ right[r] \in B /\ right[r] \notin Rest(right, r + 1)
                           /\ Rest(right, r) = Rest(right, r + 1) \cup {right[r]}
        /\ \A r \in 1..(m + 1) : Rest(right, r) \subseteq B
        /\ \A r \in 1..m : \A y \in Rest(right, r) : key[right[r]] >= key[y]
    BY RestFacts
  <1> DEFINE Ranks(l, r) == Ranking(f[<<l, r>>], Both(l, r), key)
             Bad == {k \in Nat : \E l \in 1..(n + 1), r \in 1..(m + 1) :
                                    k = (n + 1 - l) + (m + 1 - r) /\ ~Ranks(l, r)}
  <1>6. Bad = {}
    <2> SUFFICES ASSUME Bad # {} PROVE FALSE
      OBVIOUS
    <2>1. Bad \in SUBSET Nat /\ Bad # {}
      OBVIOUS
    <2> HIDE DEF Bad
    <2>2. PICK k \in Bad : \A q \in Bad : k <= q
      BY <2>1, LeastNumber
    <2> HIDE DEF Ranks, Both, n, m
    <2>3. PICK l \in 1..(n + 1), r \in 1..(m + 1) : k = (n + 1 - l) + (m + 1 - r) /\ ~Ranks(l, r)
      BY DEF Bad
    <2>4. \A a \in 1..(n + 1), b \in 1..(m + 1) :
             (n + 1 - a) + (m + 1 - b) < (n + 1 - l) + (m + 1 - r) => Ranks(a, b)
      <3> SUFFICES ASSUME NEW a \in 1..(n + 1), NEW b \in 1..(m + 1),
                          (n + 1 - a) + (m + 1 - b) < (n + 1 - l) + (m + 1 - r), ~Ranks(a, b)
                   PROVE  FALSE
        OBVIOUS
      <3> DEFINE q == (n + 1 - a) + (m + 1 - b)
      <3>1. q \in Nat /\ k \in Int /\ ~(k <= q)
        BY <1>4, <1>5, <2>3
      <3>2. q \in Bad
        BY <3>1 DEF Bad
      <3> QED  BY <2>2, <3>1, <3>2
    <2>5. CASE l = n + 1
      <3>1. SubSeq(left, l, n) = <<>>
        BY <1>4, <2>5, SubSeqEmpty
      <3>2. Ranking(SubSeq(right, r, m), Rest(right, r), key)
        BY RankingRest DEF m
      <3>3. f[<<l, r>>] = <<>> \o SubSeq(right, r, m)
        <4>1. l > n
          BY <1>4, <2>5
        <4> QED  BY <1>3, <3>1, <4>1 DEF MergeAt, n, m
      <3>4. <<>> \o SubSeq(right, r, m) = SubSeq(right, r, m)
        BY <3>2, ConcatEmptySeq DEF Ranking
      <3>5. Both(l, r) = Rest(right, r)
        BY <1>4, <2>5 DEF Both
      <3> QED  BY <2>3, <3>2, <3>3, <3>4, <3>5 DEF Ranks
    <2>6. CASE r = m + 1
      <3>1. SubSeq(right, r, m) = <<>>
        BY <1>5, <2>6, SubSeqEmpty
      <3>2. Ranking(SubSeq(left, l, n), Rest(left, l), key)
        BY RankingRest DEF n
      <3>3. f[<<l, r>>] = SubSeq(left, l, n) \o <<>>
        <4>1. r > m
          BY <1>5, <2>6
        <4> QED  BY <1>3, <3>1, <4>1 DEF MergeAt, n, m
      <3>4. SubSeq(left, l, n) \o <<>> = SubSeq(left, l, n)
        BY <3>2, ConcatEmptySeq DEF Ranking
      <3>5. Both(l, r) = Rest(left, l)
        BY <1>5, <2>6 DEF Both
      <3> QED  BY <2>3, <3>2, <3>3, <3>4, <3>5 DEF Ranks
    <2>7. CASE l # n + 1 /\ r # m + 1
      <3> DEFINE x == left[l]
                 y == right[r]
      <3>1. /\ l \in 1..n /\ r \in 1..m /\ ~(l > n \/ r > m)
            /\ l + 1 \in 1..(n + 1) /\ r + 1 \in 1..(m + 1)
            /\ (n + 1 - (l + 1)) + (m + 1 - r) < (n + 1 - l) + (m + 1 - r)
            /\ (n + 1 - l) + (m + 1 - (r + 1)) < (n + 1 - l) + (m + 1 - r)
        BY <1>4, <1>5, <2>7
      <3>2. Ranks(l + 1, r) /\ Ranks(l, r + 1)
        BY <2>4, <3>1
      <3>3. x \in A /\ y \in B /\ key[x] \in Int /\ key[y] \in Int
        BY <1>4, <1>5, <3>1
      <3>4. f[<<l, r>>] = IF ~(key[x] < key[y]) THEN <<x>> \o f[<<l + 1, r>>]
                          ELSE <<y>> \o f[<<l, r + 1>>]
        <4>1. f[<<l, r>>] = IF (IF key[x] < key[y] THEN 1 ELSE 0) <= 0 THEN <<x>> \o f[<<l + 1, r>>]
                            ELSE <<y>> \o f[<<l, r + 1>>]
          BY <1>3, <3>1 DEF MergeAt, n, m
        <4>2. (IF key[x] < key[y] THEN 1 ELSE 0) <= 0 <=> ~(key[x] < key[y])
          OBVIOUS
        <4> QED  BY <4>1, <4>2
      <3>5. /\ Rest(left, l) \subseteq A /\ Rest(left, l + 1) \subseteq A
            /\ Rest(right, r) \subseteq B /\ Rest(right, r + 1) \subseteq B
        BY <1>4, <1>5, <3>1
      <3>6. CASE ~(key[x] < key[y])
        <4>1. x \notin Both(l + 1, r) /\ Both(l, r) = Both(l + 1, r) \cup {x}
          BY <1>4, <3>1, <3>3, <3>5 DEF Both
        <4>2. \A z \in Both(l + 1, r) : key[x] >= key[z]
          <5> TAKE z \in Both(l + 1, r)
          <5>1. CASE z \in Rest(left, l)
            BY <1>4, <3>1, <5>1
          <5>2. CASE z \in Rest(right, r)
            <6>1. key[y] >= key[z] /\ key[z] \in Int
              BY <1>5, <3>1, <3>5, <5>2
            <6> QED  BY <3>3, <3>6, <6>1
          <5> QED  BY <4>1, <5>1, <5>2 DEF Both
        <4>3. Ranking(<<x>> \o f[<<l + 1, r>>], Both(l + 1, r) \cup {x}, key)
          BY <3>2, <4>1, <4>2, RankingCons DEF Ranks
        <4> QED  BY <2>3, <3>4, <3>6, <4>1, <4>3 DEF Ranks
      <3>7. CASE key[x] < key[y]
        <4>1. y \notin Both(l, r + 1) /\ Both(l, r) = Both(l, r + 1) \cup {y}
          BY <1>5, <3>1, <3>3, <3>5 DEF Both
        <4>2. \A z \in Both(l, r + 1) : key[y] >= key[z]
          <5> TAKE z \in Both(l, r + 1)
          <5>1. CASE z \in Rest(right, r)
            BY <1>5, <3>1, <5>1
          <5>2. CASE z \in Rest(left, l)
            <6>1. key[x] >= key[z] /\ key[z] \in Int
              BY <1>4, <3>1, <3>5, <5>2
            <6> QED  BY <3>3, <3>7, <6>1
          <5> QED  BY <4>1, <5>1, <5>2 DEF Both
        <4>3. Ranking(<<y>> \o f[<<l, r + 1>>], Both(l, r + 1) \cup {y}, key)
          BY <3>2, <4>1, <4>2, RankingCons DEF Ranks
        <4> QED  BY <2>3, <3>4, <3>7, <4>1, <4>3 DEF Ranks
      <3> QED  BY <3>6, <3>7
    <2> QED  BY <2>5, <2>6, <2>7
  <1>7. Ranks(1, 1)
    <2>1. 1 \in 1..(n + 1) /\ 1 \in 1..(m + 1) /\ (n + 1 - 1) + (m + 1 - 1) \in Nat
      BY <1>4, <1>5
    <2> HIDE DEF Ranks, n, m
    <2> QED  BY <1>6, <2>1
  <1>8. Both(1, 1) = A \cup B
    BY <1>4, <1>5
  <1> HIDE DEF Both
  <1> QED  BY <1>2, <1>7, <1>8

\* The elements of s at n places from i on.
Part(s, i, n) == {s[k] : k \in i..(i + n - 1)}

\* qsort ranks what it is given.
LEMMA RankingSort ==
    ASSUME NEW C, NEW s \in Seq(C), IsInjective(s), Range(s) = C,
           NEW key, \A x \in C : key[x] \in Int
    PROVE  Ranking(SortedBy(s, key), C, key)
  <1> DEFINE N == Len(s)
             Within(i, n) == i >= 1 /\ i + n - 1 <= N
  <1>1. N \in Nat /\ DOMAIN s = 1..N /\ \A k \in 1..N : s[k] \in C
    BY LenProperties, ElementOfSeq
  <1>2. PICK f : Sorts(f, s, key) /\ SortedBy(s, key) = f[<<1, N>>]
    BY SortAsDefined
  <1>3. \A i \in Nat, n \in 0..N : f[<<i, n>>] = SortAt(f, s, key, i, n)
    BY <1>2 DEF Sorts
  <1>4. \A i \in 1..N, k \in 1..N : s[i] = s[k] => i = k
    BY <1>1 DEF IsInjective
  <1> HIDE DEF N
  <1> DEFINE Ranks(i, n) == Ranking(f[<<i, n>>], Part(s, i, n), key)
             Bad == {n \in 0..N : \E i \in Nat : Within(i, n) /\ ~Ranks(i, n)}
  <1>5. Bad = {}
    <2> SUFFICES ASSUME Bad # {} PROVE FALSE
      OBVIOUS
    <2>1. Bad \in SUBSET Nat /\ Bad # {}
      BY <1>1
    <2> HIDE DEF Bad
    <2>2. PICK n \in Bad : \A q \in Bad : n <= q
      BY <2>1, LeastNumber
    <2> HIDE DEF Ranks
    <2>3. PICK i \in Nat : Within(i, n) /\ ~Ranks(i, n)
      BY DEF Bad
    <2>4. n \in 0..N /\ n \in Nat
      BY <1>1 DEF Bad
    <2>5. ASSUME NEW k \in Nat, NEW q \in 0..N, q < n, Within(k, q) PROVE Ranks(k, q)
      <3>1. ~(n <= q)
        BY <1>1, <2>4, <2>5
      <3> QED  BY <2>2, <2>5, <3>1 DEF Bad
    <2>6. CASE n <= 1
      <3> DEFINE u == SubSeq(s, i, i + n - 1)
                 P == Part(s, i, n)
      <3>1. /\ u \in Seq(P) /\ Len(u) = n
            /\ \A k \in 1..n : u[k] = s[i + k - 1]
        <4>1. \A k \in i..(i + n - 1) : s[k] \in P
          BY DEF Part
        <4>2. i \in Int /\ i + n - 1 \in Int
          BY <2>4
        <4> HIDE DEF P
        <4>3. /\ u \in Seq(P) /\ Len(u) = IF i <= i + n - 1 THEN (i + n - 1) - i + 1 ELSE 0
              /\ \A k \in 1..((i + n - 1) - i + 1) : u[k] = s[i + k - 1]
          BY <4>1, <4>2, SubSeqProperties
        <4>4. (IF i <= i + n - 1 THEN (i + n - 1) - i + 1 ELSE 0) = n /\ (i + n - 1) - i + 1 = n
          BY <2>4
        <4> QED  BY <4>3, <4>4
      <3>2. \A k, q \in 1..n : k = q
        BY <2>4, <2>6
      <3>3. DOMAIN u = 1..n
        BY <3>1, LenProperties
      <3>4. Range(u) = P
        <4> HIDE DEF u
        <4>1. \A y \in P : \E k \in 1..n : u[k] = y
          <5> TAKE y \in P
          <5>1. PICK j \in i..(i + n - 1) : y = s[j]
            BY DEF Part
          <5>2. j - i + 1 \in 1..n /\ i + (j - i + 1) - 1 = j
            BY <2>4
          <5> QED  BY <3>1, <5>1, <5>2
        <4>2. \A k \in 1..n : u[k] \in P
          BY <3>1, ElementOfSeq
        <4> HIDE DEF P
        <4> QED  BY <3>3, <4>1, <4>2 DEF Range
      <3>5. f[<<i, n>>] = u
        BY <1>3, <2>4, <2>6 DEF SortAt
      <3>6. Ranking(u, P, key)
        <4> HIDE DEF u, P
        <4>1. IsInjective(u)
          BY <3>2, <3>3 DEF IsInjective
        <4>2. \A k, q \in 1..n : ~(k < q)
          BY <2>4, <2>6
        <4> QED  BY <3>1, <3>4, <4>1, <4>2 DEF Ranking
      <3> QED  BY <2>3, <3>5, <3>6 DEF Ranks
    <2>7. CASE n > 1
      <3> DEFINE h == n \div 2
                 A == Part(s, i, h)
                 B == Part(s, i + h, n - h)
      <3>1. h \in 1..(n - 1) /\ n - h \in 1..(n - 1)
        BY <2>4, <2>7, Halves
      <3>2. f[<<i, n>>] = Merged(f[<<i, h>>], f[<<i + h, n - h>>], key)
        <4>1. ~(n <= 1)
          BY <2>4, <2>7
        <4> QED  BY <1>3, <2>4, <4>1 DEF SortAt
      <3> HIDE DEF h
      <3>3. /\ h \in 0..N /\ n - h \in 0..N /\ i + h \in Nat /\ h < n /\ n - h < n
            /\ Within(i, h) /\ Within(i + h, n - h)
        BY <1>1, <2>3, <2>4, <3>1
      <3> HIDE DEF Within
      <3>4. Ranking(f[<<i, h>>], A, key) /\ Ranking(f[<<i + h, n - h>>], B, key)
        BY <2>5, <3>3 DEF Ranks
      <3>5. /\ \A k : k \in i..(i + n - 1) <=> k \in i..(i + h - 1) \/ k \in (i + h)..(i + h + (n - h) - 1)
            /\ \A k \in i..(i + h - 1), q \in (i + h)..(i + h + (n - h) - 1) : k # q
            /\ \A k \in i..(i + n - 1) : k \in 1..N
        BY <1>1, <2>3, <2>4, <3>1 DEF Within
      <3>6. Part(s, i, n) = A \cup B
        BY <3>5 DEF Part
      <3>7. A \cap B = {}
        BY <1>4, <3>5 DEF Part
      <3>8. A \cup B \subseteq C
        BY <1>1, <3>5 DEF Part
      <3> HIDE DEF A, B
      <3>9. Ranking(Merged(f[<<i, h>>], f[<<i + h, n - h>>], key), A \cup B, key)
        BY <3>4, <3>7, <3>8, RankingMerge
      <3> QED  BY <2>3, <3>2, <3>6, <3>9 DEF Ranks
    <2> QED  BY <2>4, <2>6, <2>7
  <1>6. Ranks(1, N)
    <2>1. N \in 0..N /\ Within(1, N) /\ 1 \in Nat
      BY <1>1
    <2> HIDE DEF Ranks, Within
    <2> QED  BY <1>5, <2>1
  <1>7. Part(s, 1, N) = C
    <2>1. 1 + N - 1 = N
      BY <1>1
    <2> QED  BY <1>1, <2>1 DEF Part, Range
  <1> QED  BY <1>2, <1>6, <1>7

(* FlattenSeq, which gen_graphviz's lines are made with. *)
Flattens(f, rows) == f = [i \in 1..Len(rows) |-> IF i = 1 THEN rows[i] ELSE f[i - 1] \o rows[i]]

\* The rows are put together from the first on.
LEMMA FlattenIs ==
    ASSUME NEW rows
    PROVE  FlattenSeq(rows) = IF Len(rows) = 0 THEN rows
                              ELSE (CHOOSE f : Flattens(f, rows))[Len(rows)]
  BY DEF FlattenSeq, Flattens

\* Which is well-founded.
LEMMA FlattenAsDefined ==
    ASSUME NEW S, NEW rows \in Seq(Seq(S))
    PROVE  Flattens(CHOOSE f : Flattens(f, rows), rows)
  <1> DEFINE N == Len(rows)
             M(f, i) == IF i = 1 THEN rows[i] ELSE f[i - 1] \o rows[i]
             UpTo(m) == \E f : \A i \in 1..N : i <= m => f[i] = M(f, i)
             Bad == {m \in Nat : ~UpTo(m)}
  <1>1. N \in Nat
    BY LenProperties
  <1> HIDE DEF N
  <1>2. Bad = {}
    <2> SUFFICES ASSUME Bad # {} PROVE FALSE
      OBVIOUS
    <2>1. Bad \in SUBSET Nat /\ Bad # {}
      OBVIOUS
    <2> HIDE DEF Bad
    <2> PICK m \in Bad : \A k \in Bad : m <= k
      BY <2>1, LeastNumber
    <2>2. m \in Nat
      BY <2>1
    <2>3. ~UpTo(m) /\ (m # 0 => UpTo(m - 1))
      <3>1. m # 0 => m - 1 \in Nat /\ ~(m <= m - 1)
        BY <2>2
      <3> QED  BY <2>2, <3>1 DEF Bad
    <2>4. PICK f : \A i \in 1..N : i <= m - 1 => f[i] = M(f, i)
      <3>1. CASE m = 0
        <4>1. \A i \in 1..N : ~(i <= m - 1)
          BY <1>1, <3>1
        <4> QED  BY <4>1
      <3>2. CASE m # 0
        BY <2>3, <3>2
      <3> QED  BY <3>1, <3>2
    <2> DEFINE g == [i \in 1..N |-> IF i <= m - 1 THEN f[i] ELSE M(f, i)]
    <2>5. \A i \in 1..N : g[i] = M(f, i) /\ (i <= m - 1 => g[i] = f[i])
      BY <2>4
    <2> HIDE DEF g
    <2>6. ASSUME NEW i \in 1..N, i <= m PROVE g[i] = M(g, i)
      <3>1. CASE i = 1
        BY <2>5, <3>1
      <3>2. CASE i # 1
        <4>1. i - 1 \in 1..N /\ i - 1 <= m - 1
          BY <1>1, <2>2, <2>6, <3>2
        <4>2. g[i - 1] = f[i - 1]
          BY <2>5, <4>1
        <4> QED  BY <2>5, <4>2
      <3> QED  BY <3>1, <3>2
    <2> QED  BY <2>3, <2>6
  <1>3. PICK f : \A i \in 1..N : f[i] = M(f, i)
    <2>1. UpTo(N)
      BY <1>1, <1>2
    <2>2. \A i \in 1..N : i <= N
      BY <1>1
    <2> QED  BY <2>1, <2>2
  <1> DEFINE g == [i \in 1..N |-> f[i]]
  <1>4. \A i \in 1..N : g[i] = M(g, i)
    <2>1. \A i \in 1..N : g[i] = f[i]
      OBVIOUS
    <2> HIDE DEF g
    <2> SUFFICES ASSUME NEW i \in 1..N PROVE g[i] = M(g, i)
      OBVIOUS
    <2>2. CASE i = 1
      BY <1>3, <2>1, <2>2
    <2>3. CASE i # 1
      <3>1. i - 1 \in 1..N
        BY <1>1, <2>3
      <3>2. g[i - 1] = f[i - 1]
        BY <2>1, <3>1
      <3> QED  BY <1>3, <2>1, <3>2
    <2> QED  BY <2>2, <2>3
  <1>5. g = [i \in 1..N |-> M(g, i)]
    <2>1. g = [i \in 1..N |-> g[i]]
      OBVIOUS
    <2> HIDE DEF g, M
    <2> QED  BY <1>4, <2>1
  <1>6. Flattens(g, rows)
    BY <1>5 DEF Flattens, N
  <1> QED  BY <1>6

\* The places in the first n rows.
PlacesTo(rows, n) == UNION {{<<i, k>> : k \in 1..Len(rows[i])} : i \in 1..n}

\* t has what is there, each place once: b says where.
Lists(b, t, rows, n) ==
    /\ b \in [PlacesTo(rows, n) -> 1..Len(t)]
    /\ \A m \in 1..Len(t) : \E e \in PlacesTo(rows, n) : b[e] = m
    /\ \A e, d \in PlacesTo(rows, n) : b[e] = b[d] => e = d
    /\ \A e \in PlacesTo(rows, n) : t[b[e]] = rows[e[1]][e[2]]

\* With one row more.
LEMMA ListsMore ==
    ASSUME NEW S, NEW rows \in Seq(Seq(S)), NEW n \in 0..(Len(rows) - 1),
           NEW t \in Seq(S), NEW b, Lists(b, t, rows, n)
    PROVE  t \o rows[n + 1] \in Seq(S) /\ \E c : Lists(c, t \o rows[n + 1], rows, n + 1)
  <1> DEFINE row == rows[n + 1]
             L == Len(t)
             R == Len(row)
             u == t \o row
             P == PlacesTo(rows, n)
             Q == PlacesTo(rows, n + 1)
  <1>1. row \in Seq(S) /\ n \in Nat
    <2>1. Len(rows) \in Nat
      BY LenProperties
    <2>2. n + 1 \in 1..Len(rows)
      BY <2>1
    <2> QED  BY <2>1, <2>2, ElementOfSeq
  <1>2. L \in Nat /\ R \in Nat
    BY <1>1, LenProperties
  <1>3. /\ u \in Seq(S) /\ Len(u) = L + R
        /\ \A i \in 1..(L + R) : u[i] = IF i <= L THEN t[i] ELSE row[i - L]
    <2> HIDE DEF row
    <2> QED  BY <1>1, ConcatProperties
  <1>4. ASSUME NEW e
        PROVE  e \in Q <=> e \in P \/ \E k \in 1..R : e = <<n + 1, k>>
    <2>1. \A i : i \in 1..(n + 1) <=> i \in 1..n \/ i = n + 1
      BY <1>1
    <2>2. e \in Q <=> \E i \in 1..(n + 1) : \E k \in 1..Len(rows[i]) : e = <<i, k>>
      BY DEF PlacesTo
    <2>3. e \in P <=> \E i \in 1..n : \E k \in 1..Len(rows[i]) : e = <<i, k>>
      BY DEF PlacesTo
    <2> HIDE DEF P, Q
    <2> QED  BY <2>1, <2>2, <2>3
  <1>5. \A e \in P : e[1] # n + 1
    <2> TAKE e \in P
    <2> PICK i \in 1..n : \E k \in 1..Len(rows[i]) : e = <<i, k>>
      BY DEF PlacesTo
    <2>1. e[1] = i /\ i # n + 1
      BY <1>1
    <2> QED  BY <2>1
  <1>6. /\ b \in [P -> 1..L]
        /\ \A m \in 1..L : \E e \in P : b[e] = m
        /\ \A e, d \in P : b[e] = b[d] => e = d
        /\ \A e \in P : t[b[e]] = rows[e[1]][e[2]]
    BY DEF Lists
  <1> DEFINE c == [e \in Q |-> IF e \in P THEN b[e] ELSE L + e[2]]
  <1> HIDE DEF P, Q, row, L, R, u
  <1>7. \A e \in P : e \in Q /\ c[e] = b[e] /\ c[e] \in 1..L
    BY <1>4, <1>6
  <1>8. \A k \in 1..R : <<n + 1, k>> \in Q /\ c[<<n + 1, k>>] = L + k
    <2> TAKE k \in 1..R
    <2>1. <<n + 1, k>> \in Q /\ <<n + 1, k>> \notin P
      BY <1>4, <1>5
    <2> QED  BY <2>1
  <1>9. DOMAIN c = Q
    OBVIOUS
  <1>a. c = [e \in Q |-> c[e]]
    OBVIOUS
  <1> HIDE DEF c
  <1>10. \A e \in Q : c[e] \in 1..(L + R)
    <2> TAKE e \in Q
    <2>1. CASE e \in P
      BY <1>2, <1>7, <2>1
    <2>2. CASE e \notin P
      <3> PICK k \in 1..R : e = <<n + 1, k>>
        BY <1>4, <2>2
      <3> QED  BY <1>2, <1>8
    <2> QED  BY <2>1, <2>2
  <1>11. \A m \in 1..(L + R) : \E e \in Q : c[e] = m
    <2> TAKE m \in 1..(L + R)
    <2>1. CASE m <= L
      <3>1. m \in 1..L
        BY <1>2, <2>1
      <3> QED  BY <1>6, <1>7, <3>1
    <2>2. CASE ~(m <= L)
      <3>1. m - L \in 1..R /\ L + (m - L) = m
        BY <1>2, <2>2
      <3> QED  BY <1>8, <3>1
    <2> QED  BY <2>1, <2>2
  <1>12. ASSUME NEW e \in Q, NEW d \in Q, c[e] = c[d] PROVE e = d
    <2>1. CASE e \in P /\ d \in P
      BY <1>6, <1>7, <1>12, <2>1
    <2>2. CASE e \notin P /\ d \notin P
      <3> PICK k \in 1..R : e = <<n + 1, k>>
        BY <1>4, <2>2
      <3> PICK q \in 1..R : d = <<n + 1, q>>
        BY <1>4, <2>2
      <3>1. L + k = L + q
        BY <1>8, <1>12
      <3>2. k = q
        BY <1>2, <3>1
      <3> QED  BY <3>2
    <2>3. \A x \in Q, y \in Q : x \in P /\ y \notin P => c[x] # c[y]
      <3> SUFFICES ASSUME NEW x \in P, NEW y \in Q, y \notin P PROVE c[x] # c[y]
        OBVIOUS
      <3> PICK k \in 1..R : y = <<n + 1, k>>
        BY <1>4
      <3>1. c[y] = L + k /\ c[x] \in 1..L
        BY <1>7, <1>8
      <3> QED  BY <1>2, <3>1
    <2> QED  BY <1>12, <2>1, <2>2, <2>3
  <1>13. \A e \in Q : u[c[e]] = rows[e[1]][e[2]]
    <2> TAKE e \in Q
    <2>1. CASE e \in P
      <3>1. c[e] = b[e] /\ c[e] \in 1..(L + R) /\ c[e] <= L
        BY <1>2, <1>7, <2>1
      <3> QED  BY <1>3, <1>6, <2>1, <3>1
    <2>2. CASE e \notin P
      <3> PICK k \in 1..R : e = <<n + 1, k>>
        BY <1>4, <2>2
      <3>1. c[e] = L + k /\ L + k \in 1..(L + R) /\ ~(L + k <= L) /\ (L + k) - L = k
        BY <1>2, <1>8
      <3>2. u[c[e]] = row[k]
        BY <1>3, <3>1
      <3> QED  BY <3>2 DEF row
    <2> QED  BY <2>1, <2>2
  <1>14. c \in [Q -> 1..(L + R)]
    BY <1>a, <1>10
  <1>15. Lists(c, u, rows, n + 1)
    BY <1>3, <1>11, <1>12, <1>13, <1>14 DEF Lists, Q
  <1> QED  BY <1>3, <1>15 DEF u, row

\* So each element of each row has its place.
LEMMA FlattenLists ==
    ASSUME NEW S, NEW rows \in Seq(Seq(S))
    PROVE  FlattenSeq(rows) \in Seq(S) /\ \E b : Lists(b, FlattenSeq(rows), rows, Len(rows))
  <1> DEFINE N == Len(rows)
             f == CHOOSE f : Flattens(f, rows)
             Flat(n) == IF n = 0 THEN <<>> ELSE f[n]
             Right(n) == Flat(n) \in Seq(S) /\ \E b : Lists(b, Flat(n), rows, n)
             Bad == {n \in 0..N : ~Right(n)}
  <1>1. N \in Nat /\ \A i \in 1..N : rows[i] \in Seq(S)
    BY LenProperties, ElementOfSeq
  <1>2. \A i \in 1..N : f[i] = IF i = 1 THEN rows[i] ELSE f[i - 1] \o rows[i]
    <2>1. Flattens(f, rows)
      BY FlattenAsDefined
    <2> HIDE DEF f
    <2> QED  BY <2>1 DEF Flattens
  <1> HIDE DEF f, N
  <1>3. \A n \in 1..N : Flat(n) = Flat(n - 1) \o rows[n]
    <2> TAKE n \in 1..N
    <2>1. CASE n = 1
      <3>1. Flat(n) = rows[n] /\ Flat(n - 1) = <<>>
        BY <1>2, <2>1
      <3>2. <<>> \o rows[n] = rows[n]
        BY <1>1, ConcatEmptySeq
      <3> QED  BY <3>1, <3>2
    <2>2. CASE n # 1
      <3>1. n # 0 /\ n - 1 # 0
        BY <1>1, <2>2
      <3> QED  BY <1>2, <2>2, <3>1
    <2> QED  BY <2>1, <2>2
  <1>4. Bad = {}
    <2> SUFFICES ASSUME Bad # {} PROVE FALSE
      OBVIOUS
    <2>1. Bad \in SUBSET Nat /\ Bad # {}
      BY <1>1
    <2> HIDE DEF Bad
    <2>2. PICK n \in Bad : \A k \in Bad : n <= k
      BY <2>1, LeastNumber
    <2> HIDE DEF Right
    <2>3. n \in 0..N /\ n \in Nat /\ ~Right(n)
      BY <2>1, <2>2 DEF Bad
    <2>4. CASE n = 0
      <3>1. Flat(n) = <<>> /\ <<>> \in Seq(S) /\ Len(<<>>) = 0
        BY <2>4, EmptySeq
      <3>2. PlacesTo(rows, n) = {}
        BY <2>4 DEF PlacesTo
      <3>3. Lists([e \in {} |-> 0], Flat(n), rows, n)
        <4>1. 1..Len(<<>>) = {}
          BY <3>1
        <4> HIDE DEF Flat
        <4> QED  BY <3>1, <3>2, <4>1 DEF Lists
      <3> QED  BY <2>3, <3>1, <3>3 DEF Right
    <2>5. CASE n # 0
      <3>1. n - 1 \in 0..N /\ ~(n <= n - 1) /\ n \in 1..N /\ (n - 1) + 1 = n /\ n - 1 \in 0..(N - 1)
        BY <1>1, <2>3, <2>5
      <3>2. Right(n - 1)
        BY <2>2, <3>1 DEF Bad
      <3> HIDE DEF Flat
      <3>3. PICK b : Lists(b, Flat(n - 1), rows, n - 1)
        BY <3>2 DEF Right
      <3>4. Flat(n - 1) \in Seq(S)
        BY <3>2 DEF Right
      <3> DEFINE k == n - 1
      <3>5. k \in 0..(Len(rows) - 1) /\ k + 1 = n
        BY <3>1 DEF N
      <3>6. Flat(k) \in Seq(S) /\ Lists(b, Flat(k), rows, k) /\ Flat(n) = Flat(k) \o rows[n]
        BY <1>3, <3>1, <3>3, <3>4
      <3> HIDE DEF k
      <3>7. Flat(k) \o rows[k + 1] \in Seq(S) /\ \E c : Lists(c, Flat(k) \o rows[k + 1], rows, k + 1)
        BY <3>5, <3>6, ListsMore
      <3> QED  BY <2>3, <3>5, <3>6, <3>7 DEF Right
    <2> QED  BY <2>4, <2>5
  <1>5. Right(N)
    <2>1. N \in 0..N
      BY <1>1
    <2> HIDE DEF Right
    <2> QED  BY <1>4, <2>1
  <1>6. Flat(N) = FlattenSeq(rows)
    <2>1. CASE N = 0
      <3>1. rows = <<>>
        BY <2>1, EmptySeq DEF N
      <3> QED  BY <2>1, <3>1, FlattenIs DEF N
    <2>2. CASE N # 0
      BY <2>2, FlattenIs DEF N, f
    <2> QED  BY <2>1, <2>2
  <1> HIDE DEF Flat
  <1> QED  BY <1>5, <1>6 DEF N

\* As many of its elements are in W as there are places with such elements.
LEMMA FlattenCounts ==
    ASSUME NEW S, NEW rows \in Seq(Seq(S))
    PROVE  LET t == FlattenSeq(rows)
               P == PlacesTo(rows, Len(rows))
           IN  /\ t \in Seq(S) /\ IsFiniteSet(P)
               /\ \A W : Cardinality({k \in DOMAIN t : t[k] \in W})
                           = Cardinality({e \in P : rows[e[1]][e[2]] \in W})
  <1> DEFINE t == FlattenSeq(rows)
             P == PlacesTo(rows, Len(rows))
             n == Len(t)
  <1>1. t \in Seq(S) /\ \E c : Lists(c, t, rows, Len(rows))
    BY FlattenLists
  <1>2. PICK b : Lists(b, t, rows, Len(rows))
    BY <1>1
  <1>3. /\ b \in [P -> 1..n]
        /\ \A m \in 1..n : \E e \in P : b[e] = m
        /\ \A e, d \in P : b[e] = b[d] => e = d
        /\ \A e \in P : t[b[e]] = rows[e[1]][e[2]]
    BY <1>2 DEF Lists
  <1>4. n \in Nat /\ DOMAIN t = 1..n
    BY <1>1, LenProperties
  <1> HIDE DEF t, P, n
  <1>5. IsFiniteSet(1..n)
    BY <1>4, FirstNumbers
  <1>6. IsFiniteSet(P)
    <2>1. b \in Injection(P, 1..n)
      BY <1>3 DEF Injection, IsInjective
    <2> QED  BY <1>5, <2>1, FS_Injection
  <1>7. ASSUME NEW W
        PROVE  Cardinality({k \in DOMAIN t : t[k] \in W}) = Cardinality({e \in P : rows[e[1]][e[2]] \in W})
    <2> DEFINE A == {e \in P : rows[e[1]][e[2]] \in W}
               B == {k \in 1..n : t[k] \in W}
               g == [e \in A |-> b[e]]
    <2>1. IsFiniteSet(A)
      BY <1>6, FS_Subset
    <2>2. \A e \in A : g[e] = b[e] /\ e \in P /\ b[e] \in B
      BY <1>3
    <2>3. \A k \in B : \E e \in A : g[e] = k
      <3> TAKE k \in B
      <3> PICK e \in P : b[e] = k
        BY <1>3
      <3>1. e \in A
        BY <1>3
      <3> QED  BY <2>2, <3>1
    <2>4. g = [e \in A |-> g[e]] /\ DOMAIN g = A
      OBVIOUS
    <2> HIDE DEF A, B, g
    <2>5. g \in [A -> B] /\ \A e, d \in A : g[e] = g[d] => e = d
      BY <1>3, <2>2, <2>4
    <2>6. g \in Surjection(A, B) /\ g \in Injection(A, B)
      BY <2>3, <2>4, <2>5 DEF Surjection, Injection, IsInjective
    <2>7. Cardinality(B) = Cardinality(A)
      BY <2>1, <2>6, FS_Surjection
    <2> QED  BY <1>4, <2>7 DEF A, B
  <1> QED  BY <1>1, <1>6, <1>7 DEF t, P

Phases == {"build", "degree", "rank", "cdf", "sitemap", "check", "top", "end"}

\* A URL has a vertex when its page has been inserted.
InsertedKnown == \A u \in Urls : IsVertex(u) <=> u \in Range(inserted)

\* A page inserted once has edges to links filter gave it, each once.
LinksOnce == Once => \A i \in 1..Len(vertex) : IsInjective(vertex[i].edge)

EdgesTo(j) == {e \in Counted : Target(e) + 1 = j}
EdgesFrom(i) == {e \in Counted : e[1] = i}

\* No more vertices than pages inserted.
FewVertices == Len(vertex) <= Len(inserted) /\ Len(inserted) <= MaxInserts

GraphInv ==
    /\ phase \in Phases /\ inserted \in Seq(Urls)
    /\ GraphTypes /\ GraphConsistent
    /\ InsertedKnown /\ LinksOnce /\ FewVertices

\* The degrees are those of the graph from their computation on.
DegreesOfGraph ==
    /\ ind = IF phase \in {"build", "degree"} THEN <<>>
             ELSE [j \in Vertices |-> Cardinality(EdgesTo(j))]
    /\ outd = IF phase \in {"build", "degree"} THEN <<>>
              ELSE [i \in Vertices |-> Cardinality(EdgesFrom(i))]

Ranked == {"cdf", "sitemap", "check", "top", "end"}

\* What RankMonotone says, of the graph.
RanksRight ==
    /\ pr \in [Vertices -> Nat]
    /\ vertex # <<>> =>
          /\ Total(pr) \in (Scale - Len(vertex))..Scale
          /\ \A v, w \in Vertices :
                (\A x \in Vertices :
                      Cardinality({e \in EdgesTo(v) : e[1] = x})
                         <= Cardinality({e \in EdgesTo(w) : e[1] = x}))
                  => pr[v] <= pr[w]

\* Between two rounds the ranks start from 0, and the last ones add up to so
\* much that a vertex gets a share of them without any links.
RanksOfGraph ==
    /\ phase = "rank" => /\ pr = [j \in Vertices |-> 0]
                         /\ pr_vector \in [Vertices -> Nat]
                         /\ 100 * Len(vertex) <= Damping * Total(pr_vector)
    /\ phase \in Ranked => RanksRight

\* What each file has in it.
Holds(file, contents) == file \in DOMAIN files /\ files[file] = contents

WebgraphFile ==
    [i \in Vertices |->
        [vid |-> i - 1, url |-> vertex[i].addr,
         edge |-> [k \in DOMAIN vertex[i].edge |-> <<Target(<<i, k>>), vertex[i].edge[k]>>]]]

IsIndCdf(cdf) ==
    /\ \A j \in Vertices : ind[j] <= Len(vertex)
    /\ \E rest \in {0, 256}, last \in 0..Len(vertex) :
          /\ last = 0 <=> vertex = <<>>
          /\ IsLast(last, rest)
          /\ cdf = [i \in 1..last |-> IndVector(i, rest)]

SitemapRows ==
    [i \in Vertices |-> [k \in DOMAIN vertex[i].edge |-> <<i - 1, Target(<<i, k>>)>>]]

SitemapFile == FlattenSeq(SitemapRows)

CheckresultFile ==
    [u \in Urls |-> IF IsVertex(u) THEN <<ind[Vid(u) + 1], pr[Vid(u) + 1]>> ELSE <<>>]

FirstOf(s) == SubSeq(s, 1, IF Top < Len(s) THEN Top ELSE Len(s))
ByInd == SortedBy([i \in Vertices |-> i], ind)
Top10File == [byInd |-> FirstOf(ByInd), byPr |-> FirstOf(SortedBy(ByInd, pr))]

FilesOfGraph ==
    /\ phase # "build" => Holds("webgraph", WebgraphFile) /\ Holds("link", Known)
    /\ phase \in Ranked \ {"cdf"} => \E cdf : IsIndCdf(cdf) /\ Holds("indcdf", cdf)
    /\ phase \in {"check", "top", "end"} => Holds("sitemap", SitemapFile)
    /\ phase \in {"top", "end"} => Holds("checkresult", CheckresultFile)
    /\ phase = "end" => Holds("top10", Top10File)

ReportInv == GraphInv /\ DegreesOfGraph /\ RanksOfGraph /\ FilesOfGraph

-----------------------------------------------------------------------------
\* A sequence has no more different elements than places; with one more it
\* has as many only if it had as many before and the one is new.
LEMMA DifferentElements ==
    ASSUME NEW S, NEW s \in Seq(S), NEW x \in S
    PROVE  /\ Range(Append(s, x)) = Range(s) \cup {x}
           /\ Cardinality(Range(Append(s, x))) = Len(Append(s, x)) =>
                 Cardinality(Range(s)) = Len(s) /\ x \notin Range(s)
  <1> DEFINE n == Len(s)
  <1>1. n \in Nat /\ s \in [1..n -> S]
    BY LenProperties
  <1>2. /\ Append(s, x) \in [1..(n + 1) -> S] /\ Len(Append(s, x)) = n + 1
        /\ Append(s, x)[n + 1] = x /\ \A i \in 1..n : Append(s, x)[i] = s[i]
    <2>1. /\ Append(s, x) \in Seq(S) /\ Len(Append(s, x)) = n + 1
          /\ Append(s, x)[n + 1] = x /\ \A i \in 1..n : Append(s, x)[i] = s[i]
      BY AppendProperties
    <2> QED  BY <2>1, LenProperties
  <1>3. Range(Append(s, x)) = Range(s) \cup {x}
    BY <1>1, <1>2 DEF Range
  <1>4. s \in Surjection(1..n, Range(s))
    BY <1>1 DEF Surjection, Range
  <1>5. IsFiniteSet(1..n) /\ Cardinality(1..n) = n
    BY <1>1, FirstNumbers
  <1>6. IsFiniteSet(Range(s)) /\ Cardinality(Range(s)) <= n /\ Cardinality(Range(s)) \in Nat
    BY <1>4, <1>5, FS_Surjection, FS_CardinalityType
  <1>7. Cardinality(Range(s) \cup {x}) =
          IF x \in Range(s) THEN Cardinality(Range(s)) ELSE Cardinality(Range(s)) + 1
    BY <1>6, FS_AddElement
  <1> QED  BY <1>1, <1>2, <1>3, <1>6, <1>7

\* A graph without links twice leads to a vertex from each other at most once.
LEMMA EdgesToFew ==
    ASSUME GraphTypes, GraphConsistent, NEW j \in Vertices,
           \A i \in 1..Len(vertex) : IsInjective(vertex[i].edge)
    PROVE  Cardinality(EdgesTo(j)) <= Len(vertex)
  <1> DEFINE n == Len(vertex)
             S == EdgesTo(j)
             f == [e \in S |-> e[1]]
  <1>1. n \in Nat /\ Vertices = 1..n
    BY LenProperties DEF GraphTypes, Vertices
  <1>2. ASSUME NEW e \in S
        PROVE  /\ e[1] \in 1..n /\ e[2] \in DOMAIN vertex[e[1]].edge /\ e = <<e[1], e[2]>>
               /\ vertex[e[1]].edge[e[2]] = vertex[j].addr
    <2>1. e \in Edges /\ Target(e) = j - 1
      <3>1. Target(e) \in Int
        <4>1. \E i \in Vertices : \E k \in DOMAIN vertex[i].edge : e = <<i, k>>
          BY DEF EdgesTo, Counted, Edges
        <4> PICK i \in Vertices : \E k \in DOMAIN vertex[i].edge : e = <<i, k>>
          BY <4>1
        <4> PICK k \in DOMAIN vertex[i].edge : e = <<i, k>>
          OBVIOUS
        <4>2. vertex[i].edge[k] \in Known
          BY <1>1 DEF GraphConsistent, Range
        <4> QED  BY <4>2 DEF Target, Vid, GraphTypes, Info
      <3> QED  BY <1>1, <3>1 DEF EdgesTo, Counted
    <2> PICK i \in Vertices : \E k \in DOMAIN vertex[i].edge : e = <<i, k>>
      BY <2>1 DEF Edges
    <2>2. PICK k \in DOMAIN vertex[i].edge : e = <<i, k>>
      OBVIOUS
    <2> DEFINE u == vertex[i].edge[k]
    <2>3. u \in Known /\ vertex_dict[u].vid = j - 1
      BY <1>1, <2>1, <2>2 DEF GraphConsistent, Range, Target, Vid
    <2>4. IsVertex(u)
      BY <1>1, <2>3 DEF IsVertex
    <2>5. u = vertex[(j - 1) + 1].addr
      BY <2>3, <2>4 DEF GraphConsistent
    <2>6. (j - 1) + 1 = j
      BY <1>1
    <2> QED  BY <1>1, <2>2, <2>5, <2>6
  <1>3. f \in Injection(S, 1..n)
    <2>1. ASSUME NEW e \in S, NEW d \in S, e[1] = d[1]
          PROVE  e = d
      <3>1. IsInjective(vertex[e[1]].edge)
        BY <1>2
      <3>2. e[2] = d[2]
        BY <1>2, <2>1, <3>1 DEF IsInjective
      <3> QED  BY <1>2, <2>1, <3>2
    <2> HIDE DEF S
    <2> QED  BY <1>2, <2>1 DEF Injection, IsInjective
  <1>4. IsFiniteSet(1..n) /\ Cardinality(1..n) = n
    BY <1>1, FirstNumbers
  <1> HIDE DEF f, S
  <1>5. Cardinality(S) <= n
    BY <1>3, <1>4, FS_Injection
  <1> QED  BY <1>5 DEF S

-----------------------------------------------------------------------------
(* The edges of the graph. *)

\* The places of the links, in all edge lists.
LEMMA EdgesFinite ==
    ASSUME GraphTypes
    PROVE  /\ Len(vertex) \in Nat /\ Vertices = 1..Len(vertex)
           /\ \A i \in Vertices : /\ vertex[i].edge \in Seq(Urls) /\ vertex[i].addr \in Urls
                                  /\ DOMAIN vertex[i].edge = 1..Len(vertex[i].edge)
                                  /\ Len(vertex[i].edge) \in Nat
           /\ IsFiniteSet(Vertices) /\ Cardinality(Vertices) = Len(vertex)
           /\ IsFiniteSet(Edges)
  <1> DEFINE n == Len(vertex)
             rows == [i \in 1..n |-> vertex[i].edge]
  <1>1. n \in Nat /\ Vertices = 1..n /\ \A i \in 1..n : vertex[i] \in Vertex
    BY LenProperties, ElementOfSeq DEF GraphTypes, Vertices
  <1>2. \A i \in 1..n : /\ vertex[i].edge \in Seq(Urls) /\ vertex[i].addr \in Urls
    BY <1>1 DEF Vertex
  <1>3. \A i \in 1..n : /\ DOMAIN vertex[i].edge = 1..Len(vertex[i].edge)
                        /\ Len(vertex[i].edge) \in Nat
    BY <1>2, LenProperties
  <1>4. IsFiniteSet(1..n) /\ Cardinality(1..n) = n
    <2>1. n \in Nat
      BY <1>1
    <2> HIDE DEF n, rows
    <2>2. IsFiniteSet(1..n) /\ Cardinality(1..n) = n
      BY ONLY <2>1, FirstNumbers
    <2> QED  BY <2>2
  <1>5. rows \in Seq(Seq(Urls)) /\ Len(rows) = n
    <2>1. rows \in [1..n -> Seq(Urls)]
      BY <1>2
    <2> HIDE DEF rows
    <2> QED  BY <1>1, <2>1, LenProperties, SeqDef
  <1>6. IsFiniteSet(PlacesTo(rows, n))
    <2> HIDE DEF rows, n
    <2> QED  BY <1>5, FlattenCounts
  <1>7. PlacesTo(rows, n) = Edges
    BY <1>1, <1>3 DEF PlacesTo, Edges
  <1> QED  BY <1>1, <1>2, <1>3, <1>4, <1>6, <1>7

\* Each leads to a vertex or to none.
LEMMA EdgeFacts ==
    ASSUME GraphTypes, GraphConsistent, NEW e \in Edges
    PROVE  /\ e = <<e[1], e[2]>> /\ e[1] \in Vertices /\ e[2] \in DOMAIN vertex[e[1]].edge
           /\ vertex[e[1]].edge[e[2]] \in Known
           /\ Target(e) \in Int
           /\ \/ Target(e) = -1 \/ Target(e) < 0
              \/ Target(e) + 1 \in Vertices /\ vertex[Target(e) + 1].addr = vertex[e[1]].edge[e[2]]
  <1> PICK i \in Vertices : \E k \in DOMAIN vertex[i].edge : e = <<i, k>>
    BY DEF Edges
  <1> PICK k \in DOMAIN vertex[i].edge : e = <<i, k>>
    OBVIOUS
  <1>1. vertex[i].edge[k] \in Known
    BY EdgesFinite DEF GraphConsistent, Range
  <1> DEFINE u == vertex[i].edge[k]
             t == vertex_dict[u].vid
  <1>2. Target(e) = t /\ t \in Int
    BY <1>1 DEF Target, Vid, GraphTypes, Info
  <1>3. t >= 0 => t < Len(vertex) /\ vertex[t + 1].addr = u
    BY <1>1 DEF GraphConsistent, IsVertex
  <1>4. t < 0 \/ t + 1 \in Vertices
    BY <1>2, <1>3, EdgesFinite
  <1> HIDE DEF t, u
  <1> QED  BY <1>1, <1>2, <1>3, <1>4 DEF u

\* The edges that count are finitely many, to and from any vertex.
LEMMA CountedFinite ==
    ASSUME GraphTypes
    PROVE  /\ IsFiniteSet(Counted)
           /\ \A j : IsFiniteSet(EdgesTo(j)) /\ IsFiniteSet(EdgesFrom(j))
           /\ \A j : Cardinality(EdgesTo(j)) \in Nat /\ Cardinality(EdgesFrom(j)) \in Nat
  <1>1. IsFiniteSet(Counted)
    BY EdgesFinite, FS_Subset DEF Counted
  <1>2. \A j : IsFiniteSet(EdgesTo(j)) /\ IsFiniteSet(EdgesFrom(j))
    BY <1>1, FS_Subset DEF EdgesTo, EdgesFrom
  <1> QED  BY <1>1, <1>2, FS_CardinalityType

-----------------------------------------------------------------------------
(* A round of calc_pagerank. *)

Resting ==
    /\ pr = [j \in Vertices |-> 0]
    /\ pr_vector \in [Vertices -> Nat]
    /\ 100 * Len(vertex) <= Damping * Total(pr_vector)

OutdOfGraph == outd = [i \in Vertices |-> Cardinality(EdgesFrom(i))]

\* What a link gives is the same for all links of a page.
LEMMA GivenNat ==
    ASSUME GraphTypes, GraphConsistent, Resting, OutdOfGraph
    PROVE  /\ DOMAIN Given = Counted
           /\ \A e \in Counted : Given[e] \in Nat
           /\ \A e, d \in Counted : e[1] = d[1] => Given[e] = Given[d]
  <1>1. ASSUME NEW e \in Counted PROVE Given[e] \in Nat
    <2>1. e[1] \in Vertices
      BY EdgeFacts DEF Counted
    <2>2. Cardinality(EdgesFrom(e[1])) \in Nat /\ Cardinality(EdgesFrom(e[1])) # 0
      <3>1. EdgesFrom(e[1]) # {}
        BY DEF EdgesFrom
      <3> QED  BY <3>1, CountedFinite, FS_EmptySet
    <2> DEFINE b == outd[e[1]]
               a == pr_vector[e[1]]
    <2>3. b \in Nat /\ b > 0 /\ a \in Nat
      BY <2>1, <2>2 DEF OutdOfGraph, Resting
    <2>4. Given[e] = a \div b
      BY DEF Given
    <2> HIDE DEF a, b
    <2> QED  BY <2>3, <2>4
  <1> QED  BY <1>1 DEF Given

Got(j) == SumFunctionOnSet(Given, EdgesTo(j))
Part15 == (Damping * Total(pr_vector)) \div (100 * Len(vertex))

\* A rank is at least the part that depends on no link.
LEMMA DampedIs ==
    ASSUME GraphTypes, GraphConsistent, Resting, OutdOfGraph, vertex # <<>>
    PROVE  /\ Part15 \in Nat /\ Part15 >= 1
           /\ \A j \in Vertices : Got(j) \in Nat /\ Damped[j] = ((Got(j) * 85) \div 100) + Part15
           /\ DOMAIN Damped = Vertices
  <1>1. Len(vertex) \in Nat /\ Len(vertex) > 0
    BY EmptySeq, EdgesFinite DEF GraphTypes
  <1>2. Total(pr_vector) \in Nat
    BY EdgesFinite, SumNat DEF Total, SumFunction, Resting
  <1>3. Part15 \in Nat /\ Part15 >= 1
    <2> DEFINE a == Damping * Total(pr_vector)
               b == 100 * Len(vertex)
    <2>1. a \in Nat /\ b \in Nat /\ b > 0 /\ b <= a
      BY <1>1, <1>2 DEF Damping, Resting
    <2> HIDE DEF a, b
    <2>2. a \div b \in Nat /\ a \div b >= 1
      BY <2>1
    <2> QED  BY <2>2 DEF Part15, a, b
  <1>4. ASSUME NEW j \in Vertices
        PROVE  Got(j) \in Nat /\ Damped[j] = ((Got(j) * 85) \div 100) + Part15
    <2>1. Got(j) \in Nat
      <3>1. IsFiniteSet(EdgesTo(j)) /\ \A e \in EdgesTo(j) : Given[e] \in Nat
        BY CountedFinite, GivenNat DEF EdgesTo
      <3> QED  BY <3>1, SumNat DEF Got
    <2>2. {e \in DOMAIN Given : Target(e) + 1 = j} = EdgesTo(j)
      BY GivenNat DEF EdgesTo
    <2>3. Damped[j] = (((pr[j] + Got(j)) * (100 - Damping)) \div 100) + Part15
      BY <2>2 DEF Damped, Got, Part15
    <2>4. pr[j] = 0 /\ 100 - Damping = 85
      BY DEF Resting, Damping
    <2> QED  BY <2>1, <2>3, <2>4
  <1> QED  BY <1>3, <1>4 DEF Damped

\* The ranks that a round computes.
LEMMA NewRanksRight ==
    ASSUME GraphTypes, GraphConsistent, Resting, OutdOfGraph, vertex # <<>>
    PROVE  /\ NewRanks \in [Vertices -> Nat]
           /\ Total(NewRanks) \in (Scale - Len(vertex))..Scale
           /\ \A v, w \in Vertices :
                 (\A x \in Vertices : Cardinality({e \in EdgesTo(v) : e[1] = x})
                                         <= Cardinality({e \in EdgesTo(w) : e[1] = x}))
                   => NewRanks[v] <= NewRanks[w]
  <1> DEFINE n == Len(vertex)
             V == Vertices
             d == Damped
             m == Total(d)
             p == NewRanks
  <1>1. n \in Nat /\ n > 0 /\ IsFiniteSet(V) /\ Cardinality(V) = n
    BY EmptySeq, EdgesFinite DEF GraphTypes
  <1>2. DOMAIN d = V /\ \A j \in V : d[j] \in Nat /\ 1 <= d[j]
    <2>1. ASSUME NEW j \in V PROVE d[j] \in Nat /\ 1 <= d[j]
      <3>1. /\ Got(j) \in Nat /\ Part15 \in Nat /\ Part15 >= 1
            /\ d[j] = ((Got(j) * 85) \div 100) + Part15
        BY DampedIs
      <3> QED  BY <3>1
    <2> QED  BY <2>1, DampedIs
  <1>3. m = SumFunctionOnSet(d, V)
    BY <1>2 DEF Total, SumFunction
  <1>4. m \in Nat /\ m >= n
    <2> HIDE DEF d, V, m, n
    <2>1. m \in Nat
      BY <1>1, <1>2, <1>3, SumNat
    <2>2. 1 * Cardinality(V) <= m
      <3>1. 1 \in Nat
        OBVIOUS
      <3> QED  BY <1>1, <1>2, <1>3, <3>1, SumAtLeast
    <2> QED  BY <1>1, <2>1, <2>2
  <1>5. m \in Nat \ {0} /\ Scale \in Nat
    BY <1>1, <1>4, ScaleAssumption
  <1>6. p = [j \in V |-> (d[j] * Scale) \div m]
    BY DEF NewRanks
  <1> HIDE DEF d, m, n, V
  <1>7. \A j \in V : p[j] \in Nat
    <2> TAKE j \in V
    <2>1. d[j] * Scale \in Nat
      BY <1>2, <1>5
    <2>2. p[j] = (d[j] * Scale) \div m
      BY <1>6
    <2> DEFINE a == d[j] * Scale
    <2> HIDE DEF a
    <2>3. a \div m \in Nat
      BY <1>5, <2>1 DEF a
    <2> QED  BY <2>2, <2>3 DEF a
  <1>8. DOMAIN p = V
    BY <1>6
  <1>9. p \in [V -> Nat]
    <2>1. p = [j \in V |-> p[j]]
      BY <1>6
    <2> HIDE DEF p
    <2> QED  BY <1>7, <2>1
  <1>10. \A j \in V : d[j] \in Nat /\ p[j] = (d[j] * Scale) \div m
    BY <1>2, <1>6
  <1>11. Total(p) = SumFunctionOnSet(p, V)
    BY <1>8 DEF Total, SumFunction
  <1> HIDE DEF p
  <1>12. Total(p) \in (Scale - n)..Scale
    <2> DEFINE t == Total(p)
    <2>1. t \in Nat
      BY <1>1, <1>7, <1>11, SumNat
    <2>2. m * t <= Scale * m /\ Scale * m <= m * (t + n)
      BY <1>1, <1>3, <1>5, <1>10, <1>11, SumShares
    <2> HIDE DEF t
    <2>3. t <= Scale
      <3> SUFFICES ASSUME t >= Scale + 1 PROVE FALSE
        BY <1>5, <2>1
      <3>1. m * t >= m * (Scale + 1)
        BY <1>5, <2>1
      <3>2. m * (Scale + 1) = Scale * m + m /\ m >= 1
        BY <1>5
      <3>3. m * t \in Nat /\ Scale * m \in Nat
        BY <1>5, <2>1
      <3> QED  BY <1>5, <2>2, <3>1, <3>2, <3>3
    <2>4. Scale <= t + n
      <3> SUFFICES ASSUME Scale >= (t + n) + 1 PROVE FALSE
        BY <1>1, <1>5, <2>1
      <3> DEFINE k == t + n
      <3>1. k \in Nat
        BY <1>1, <2>1
      <3>2. Scale * m <= m * k /\ Scale >= k + 1
        BY <2>2
      <3> HIDE DEF k
      <3>3. Scale * m >= (k + 1) * m
        BY <1>5, <3>1, <3>2
      <3>4. (k + 1) * m = m * k + m /\ m >= 1 /\ m * k \in Nat
        BY <1>5, <3>1
      <3> QED  BY <1>5, <3>2, <3>3, <3>4
    <2> QED  BY <1>1, <1>5, <2>1, <2>3, <2>4 DEF t
  <1>13. ASSUME NEW v \in V, NEW w \in V,
                \A x \in V : Cardinality({e \in EdgesTo(v) : e[1] = x})
                                <= Cardinality({e \in EdgesTo(w) : e[1] = x})
         PROVE  p[v] <= p[w]
    <2>1. \A x : Cardinality({e \in EdgesTo(v) : e[1] = x})
                    <= Cardinality({e \in EdgesTo(w) : e[1] = x})
      <3> SUFFICES ASSUME NEW x, x \notin V
                   PROVE  Cardinality({e \in EdgesTo(v) : e[1] = x})
                            <= Cardinality({e \in EdgesTo(w) : e[1] = x})
        BY <1>13
      <3>1. \A e \in Counted : e[1] \in V
        BY EdgeFacts DEF Counted, V
      <3>2. {e \in EdgesTo(v) : e[1] = x} = {} /\ {e \in EdgesTo(w) : e[1] = x} = {}
        BY <3>1 DEF EdgesTo
      <3>3. Cardinality({}) = 0
        BY FS_EmptySet
      <3>4. /\ Cardinality({e \in EdgesTo(v) : e[1] = x}) = 0
            /\ Cardinality({e \in EdgesTo(w) : e[1] = x}) = 0
        BY ONLY <3>2, <3>3
      <3> QED  BY <3>4
    <2>2. SumFunctionOnSet(Given, EdgesTo(v)) <= SumFunctionOnSet(Given, EdgesTo(w))
      <3> DEFINE D == Counted
                 A == EdgesTo(v)
                 B == EdgesTo(w)
                 g == Given
      <3>1. IsFiniteSet(D) /\ A \in SUBSET D /\ B \in SUBSET D
        BY CountedFinite DEF EdgesTo
      <3>2. (\A e \in D : g[e] \in Nat) /\ \A e, c \in D : e[1] = c[1] => g[e] = g[c]
        BY GivenNat
      <3>3. \A x : Cardinality({e \in A : e[1] = x}) <= Cardinality({e \in B : e[1] = x})
        BY <2>1
      <3> HIDE DEF D, A, B, g
      <3>4. SumFunctionOnSet(g, A) <= SumFunctionOnSet(g, B)
        BY <3>1, <3>2, <3>3, SumByFirst
      <3> QED  BY <3>4 DEF g, A, B
    <2>3. d[v] <= d[w]
      <3>1. /\ Got(v) \in Nat /\ d[v] = ((Got(v) * 85) \div 100) + Part15
            /\ Got(w) \in Nat /\ d[w] = ((Got(w) * 85) \div 100) + Part15
            /\ Part15 \in Nat
        BY DampedIs DEF d, V
      <3>2. Got(v) <= Got(w)
        BY <2>2 DEF Got
      <3>3. (Got(v) * 85) \div 100 <= (Got(w) * 85) \div 100
        BY <3>1, <3>2
      <3> QED  BY <3>1, <3>3
    <2> DEFINE a == d[v] * Scale
               b == d[w] * Scale
    <2>4. a \in Nat /\ b \in Nat /\ a <= b
      BY <1>2, <1>5, <2>3
    <2>5. p[v] = a \div m /\ p[w] = b \div m
      BY <1>10
    <2> HIDE DEF a, b
    <2>6. a \div m <= b \div m
      BY <1>5, <2>4
    <2> QED  BY <2>5, <2>6
  <1> QED  BY <1>9, <1>12, <1>13 DEF p, V, n

-----------------------------------------------------------------------------
\* Before the first page there is nothing.
LEMMA ReportInit == Init => ReportInv
  <1> SUFFICES ASSUME Init PROVE ReportInv
    OBVIOUS
  <1>1. GraphTypes /\ GraphConsistent /\ Known = {} /\ vertex = <<>>
    BY WebGraphStart DEF Init, WebGraphInit, Known
  <1>2. inserted = <<>> /\ phase = "build" /\ ind = <<>> /\ outd = <<>>
    BY DEF Init
  <1>3. inserted \in Seq(Urls) /\ Range(inserted) = {} /\ Len(vertex) = 0 /\ Len(inserted) = 0
    BY <1>1, <1>2 DEF Range
  <1>4. GraphInv
    BY <1>1, <1>2, <1>3, ScaleAssumption
    DEF GraphInv, Phases, InsertedKnown, LinksOnce, IsVertex, FewVertices
  <1>5. DegreesOfGraph /\ RanksOfGraph /\ FilesOfGraph
    BY <1>2 DEF DegreesOfGraph, RanksOfGraph, FilesOfGraph, Ranked
  <1> QED  BY <1>4, <1>5 DEF ReportInv

\* Of links that differ, the edges stored differ.
LEMMA StoredDiffer ==
    ASSUME NEW links \in Seq(Urls), IsInjective(links), NEW edges \in Stored(links)
    PROVE  IsInjective(edges)
  <1>1. edges \in Seq(Urls)
    BY StoredLinks
  <1>2. DOMAIN edges = 1..Len(edges) /\ DOMAIN links = 1..Len(links)
        /\ Len(edges) \in Nat /\ Len(links) \in Nat
    BY <1>1, LenProperties
  <1>3. PICK at \in [1..Len(edges) -> 1..Len(links)] :
            /\ \A i, j \in 1..Len(edges) : i < j => at[i] < at[j]
            /\ \A i \in 1..Len(edges) : edges[i] = links[at[i]]
    BY DEF Stored
  <1>4. ASSUME NEW i \in 1..Len(edges), NEW j \in 1..Len(edges), edges[i] = edges[j]
        PROVE  i = j
    <2>1. at[i] \in 1..Len(links) /\ at[j] \in 1..Len(links)
      BY <1>3
    <2>2. at[i] = at[j]
      BY <1>2, <1>3, <1>4, <2>1 DEF IsInjective
    <2> QED  BY <1>2, <1>3, <2>1, <2>2
  <1> QED  BY <1>2, <1>4 DEF IsInjective

\* A page inserted keeps the graph, whether or not it was inserted before, and
\* whichever of its edges are stored.
LEMMA InsertStep ==
    ASSUME GraphInv, NEW url \in Urls, NEW links \in Pages, Insert(url, links)
    PROVE  GraphInv' /\ InfoKeptStep
  <1>1. links \in Seq(Urls) /\ IsInjective(links)
    BY PagesAssumption
  <1>2. PICK edges \in Stored(links) :
          /\ InsertEdge(url, links, edges)
          /\ inserted' = Append(inserted, url) /\ phase' = phase
    BY DEF Insert
  <1>3. GraphTypes' /\ GraphConsistent' /\ InfoKeptStep
    BY <1>1, <1>2, InsertEdgeType, InsertEdgeConsistent, InsertEdgeKeeps DEF GraphInv
  <1>4. /\ inserted' \in Seq(Urls)
        /\ Range(inserted') = Range(inserted) \cup {url}
        /\ Len(inserted') = Len(inserted) + 1 /\ Len(inserted) \in Nat
        /\ Once' => Once /\ url \notin Range(inserted)
    BY <1>2, DifferentElements, AppendProperties, LenProperties DEF GraphInv, Once
  <1>5. /\ Known' = Known \cup {url} \cup Range(links)
        /\ vertex_dict' \in [Known' -> Info]
        /\ \A u \in Known : u # url \/ IsVertex(url) => vertex_dict'[u] = vertex_dict[u]
        /\ ~IsVertex(url) => vertex_dict'[url] = [vid |-> Len(vertex), in |-> TRUE]
        /\ \A u \in Known' \ Known : u # url => vertex_dict'[u] = [vid |-> -1, in |-> FALSE]
    BY <1>1, <1>2, InsertEdgeInfos DEF GraphInv
  <1>6. Len(vertex) \in Nat
    BY LenProperties DEF GraphInv, GraphTypes
  <1>7. \A u \in Urls : IsVertex(u)' <=> IsVertex(u) \/ u = url
    BY <1>5, <1>6 DEF IsVertex
  <1>8. InsertedKnown'
    BY <1>4, <1>7 DEF GraphInv, InsertedKnown
  <1>9. LinksOnce'
    <2> SUFFICES ASSUME Once', NEW i \in 1..Len(vertex')
                 PROVE  IsInjective(vertex'[i].edge)
      BY DEF LinksOnce
    <2>1. Once /\ ~IsVertex(url)
      BY <1>4 DEF GraphInv, InsertedKnown
    <2>2. /\ Len(vertex') = Len(vertex) + 1
          /\ \A k \in 1..Len(vertex) : vertex'[k] = vertex[k]
          /\ vertex'[Len(vertex) + 1] = [addr |-> url, edge |-> edges]
      BY <1>1, <1>2, <2>1, InsertEdgeNew DEF GraphInv
    <2>3. CASE i = Len(vertex) + 1
      BY <1>1, <2>2, <2>3, StoredDiffer
    <2>4. CASE i \in 1..Len(vertex)
      BY <2>1, <2>2, <2>4 DEF GraphInv, LinksOnce
    <2> QED  BY <1>6, <2>2, <2>3, <2>4
  <1>10. FewVertices'
    <2>1. Len(inserted) < MaxInserts /\ MaxInserts \in Nat
      BY ScaleAssumption DEF Insert
    <2>2. Len(vertex') = Len(vertex) \/ Len(vertex') = Len(vertex) + 1
      <3>1. IsVertex(url) => vertex_dict[url].vid < Len(vertex)
        BY DEF GraphInv, GraphConsistent, IsVertex
      <3> QED  BY <1>1, <1>2, <3>1, InsertEdgeNew, InsertEdgeAgain DEF GraphInv
    <2> QED  BY <1>4, <1>6, <2>1, <2>2 DEF FewVertices, GraphInv
  <1> QED  BY <1>2, <1>3, <1>4, <1>8, <1>9, <1>10 DEF GraphInv

\* A mark changes no id and no edge.
LEMMA MarkStep ==
    ASSUME GraphInv, NEW u \in Known, Mark(u)
    PROVE  GraphInv' /\ InfoKeptStep
  <1>1. MarkAsked(u) /\ vertex' = vertex /\ inserted' = inserted /\ phase' = phase
    BY DEF Mark
  <1>2. GraphTypes' /\ GraphConsistent' /\ InfoKeptStep
    BY <1>1, MarkAskedConsistent DEF GraphInv
  <1>3. Known' = Known /\ \A w \in Known : vertex_dict'[w].vid = vertex_dict[w].vid
    BY <1>1, MarkAskedInfos DEF GraphInv
  <1>4. InsertedKnown' /\ LinksOnce' /\ FewVertices'
    BY <1>1, <1>3 DEF GraphInv, InsertedKnown, IsVertex, LinksOnce, Once, FewVertices
  <1> QED  BY <1>1, <1>2, <1>4 DEF GraphInv


-----------------------------------------------------------------------------
(* The reports. *)

\* What the reports say of the graph follows from the graph.
LEMMA SameGraph ==
    ASSUME UNCHANGED <<vertex_dict, vertex>>
    PROVE  /\ Vertices' = Vertices /\ Known' = Known
           /\ \A u : IsVertex(u)' = IsVertex(u) /\ Vid(u)' = Vid(u)
           /\ \A e : Target(e)' = Target(e)
           /\ Counted' = Counted
           /\ \A j : EdgesTo(j)' = EdgesTo(j) /\ EdgesFrom(j)' = EdgesFrom(j)
  BY DEF Vertices, Known, IsVertex, Vid, Target, Counted, Edges, EdgesTo, EdgesFrom

\* And from the degrees and the ranks.
LEMMA SameFiles ==
    ASSUME UNCHANGED <<vertex_dict, vertex, ind, pr>>
    PROVE  /\ WebgraphFile' = WebgraphFile /\ SitemapFile' = SitemapFile
           /\ CheckresultFile' = CheckresultFile /\ Top10File' = Top10File
           /\ \A cdf : IsIndCdf(cdf)' = IsIndCdf(cdf)
  <1>1. Vertices' = Vertices
    BY DEF Vertices
  <1>2. WebgraphFile' = WebgraphFile
    BY <1>1, SameGraph DEF WebgraphFile
  <1>3. SitemapFile' = SitemapFile
    <2>1. SitemapRows' = SitemapRows
      BY <1>1, SameGraph DEF SitemapRows
    <2> QED  BY <2>1 DEF SitemapFile
  <1>4. CheckresultFile' = CheckresultFile
    BY SameGraph DEF CheckresultFile
  <1>5. Top10File' = Top10File
    BY <1>1 DEF Top10File, ByInd, FirstOf
  <1>6. \A cdf : IsIndCdf(cdf)' = IsIndCdf(cdf)
    BY <1>1 DEF IsIndCdf, IsLast, IndVector
  <1> QED  BY <1>2, <1>3, <1>4, <1>5, <1>6

\* A file written is there, and so are those that were.
LEMMA WriteHolds ==
    ASSUME NEW file, NEW contents, Write(file, contents)
    PROVE  /\ UNCHANGED <<vertex_dict, vertex, inserted, ind, outd, pr, pr_vector>>
           /\ file \in DOMAIN files' /\ files'[file] = contents
           /\ \A f, c : f # file /\ Holds(f, c) => f \in DOMAIN files' /\ files'[f] = c
  BY DEF Write, Holds, graphVars, degrees, ranks

\* No report changes the graph.
LEMMA ReportsOnly ==
    ASSUME PrintWebg \/ Report \/ UNCHANGED vars
    PROVE  UNCHANGED <<graphVars, inserted>>
  BY DEF PrintWebg, Report, BeginRanks, Round, NoRounds, GenIndCdf, GenGraphviz, GenIndPagerank,
         GenTop, Write, vars

\* And so the graph stays as it was when the reports began.
LEMMA ReportGraph ==
    ASSUME GraphInv, PrintWebg \/ Report \/ UNCHANGED vars
    PROVE  GraphInv' /\ UNCHANGED <<vertex_dict, vertex, inserted>>
  <1>1. UNCHANGED <<vertex_dict, vertex, inserted>>
    BY ReportsOnly DEF graphVars
  <1>2. phase' \in Phases
    BY DEF PrintWebg, Report, BeginRanks, Round, NoRounds, GenIndCdf, GenGraphviz, GenIndPagerank,
           GenTop, vars, Phases, GraphInv
  <1> QED  BY <1>1, <1>2 DEF GraphInv, GraphTypes, GraphConsistent, InsertedKnown, LinksOnce,
                             Once, IsVertex, Known, FewVertices

\* What the reports have computed stays right while nothing of it changes.
LEMMA Computed ==
    ASSUME DegreesOfGraph, RanksOfGraph,
           UNCHANGED <<vertex_dict, vertex, ind, outd, pr, pr_vector>>,
           phase' \in {"build", "degree"} <=> phase \in {"build", "degree"},
           phase' = "rank" => phase = "rank",
           phase' \in Ranked => phase \in Ranked
    PROVE  DegreesOfGraph' /\ RanksOfGraph'
  <1>1. DegreesOfGraph'
    BY SameGraph DEF DegreesOfGraph
  <1>2. phase' = "rank" => /\ pr' = [j \in Vertices' |-> 0]
                           /\ pr_vector' \in [Vertices' -> Nat]
                           /\ 100 * Len(vertex') <= Damping * Total(pr_vector')
    BY SameGraph DEF RanksOfGraph
  <1>3. phase' \in Ranked => RanksRight'
    BY SameGraph DEF RanksOfGraph, RanksRight
  <1> QED  BY <1>1, <1>2, <1>3 DEF RanksOfGraph, Ranked

\* The files written stay right while what they are made from does not change.
LEMMA Written ==
    ASSUME FilesOfGraph, UNCHANGED <<vertex_dict, vertex, ind, pr>>,
           NEW old, \A f, c : f \in old /\ Holds(f, c) => Holds(f, c)'
    PROVE  /\ phase # "build" /\ "webgraph" \in old /\ "link" \in old =>
                 Holds("webgraph", WebgraphFile)' /\ Holds("link", Known)'
           /\ phase \in Ranked \ {"cdf"} /\ "indcdf" \in old =>
                 \E cdf : IsIndCdf(cdf)' /\ Holds("indcdf", cdf)'
           /\ phase \in {"check", "top", "end"} /\ "sitemap" \in old =>
                 Holds("sitemap", SitemapFile)'
           /\ phase \in {"top", "end"} /\ "checkresult" \in old =>
                 Holds("checkresult", CheckresultFile)'
           /\ phase = "end" /\ "top10" \in old => Holds("top10", Top10File)'
  <1>1. ASSUME phase # "build", "webgraph" \in old, "link" \in old
        PROVE  Holds("webgraph", WebgraphFile)' /\ Holds("link", Known)'
    <2>1. /\ "webgraph" \in DOMAIN files' /\ files'["webgraph"] = WebgraphFile
          /\ "link" \in DOMAIN files' /\ files'["link"] = Known
      BY <1>1 DEF FilesOfGraph, Holds
    <2> QED  BY <2>1, SameFiles, SameGraph DEF Holds
  <1>2. ASSUME phase \in Ranked \ {"cdf"}, "indcdf" \in old
        PROVE  \E cdf : IsIndCdf(cdf)' /\ Holds("indcdf", cdf)'
    <2>1. PICK cdf : IsIndCdf(cdf) /\ Holds("indcdf", cdf)
      BY <1>2 DEF FilesOfGraph
    <2> QED  BY <1>2, <2>1, SameFiles
  <1>3. ASSUME phase \in {"check", "top", "end"}, "sitemap" \in old
        PROVE  Holds("sitemap", SitemapFile)'
    <2>1. "sitemap" \in DOMAIN files' /\ files'["sitemap"] = SitemapFile
      BY <1>3 DEF FilesOfGraph, Holds
    <2> QED  BY <2>1, SameFiles DEF Holds
  <1>4. ASSUME phase \in {"top", "end"}, "checkresult" \in old
        PROVE  Holds("checkresult", CheckresultFile)'
    <2>1. "checkresult" \in DOMAIN files' /\ files'["checkresult"] = CheckresultFile
      BY <1>4 DEF FilesOfGraph, Holds
    <2> QED  BY <2>1, SameFiles DEF Holds
  <1>5. ASSUME phase = "end", "top10" \in old
        PROVE  Holds("top10", Top10File)'
    <2>1. "top10" \in DOMAIN files' /\ files'["top10"] = Top10File
      BY <1>5 DEF FilesOfGraph, Holds
    <2> QED  BY <2>1, SameFiles DEF Holds
  <1> QED  BY <1>1, <1>2, <1>3, <1>4, <1>5

AllFiles == {"webgraph", "link", "indcdf", "sitemap", "checkresult", "top10"}

\* printWebg
LEMMA PrintStep ==
    ASSUME ReportInv, PrintWebg
    PROVE  DegreesOfGraph' /\ RanksOfGraph' /\ FilesOfGraph'
  <1>1. /\ phase = "build" /\ phase' = "degree"
        /\ UNCHANGED <<vertex_dict, vertex, inserted, ind, outd, pr, pr_vector>>
        /\ files' = [webgraph |-> WebgraphFile, link |-> Known]
    BY DEF PrintWebg, graphVars, degrees, ranks, WebgraphFile
  <1>2. DegreesOfGraph' /\ RanksOfGraph'
    BY <1>1, Computed DEF ReportInv, Ranked
  <1>3. Holds("webgraph", WebgraphFile)' /\ Holds("link", Known)'
    BY <1>1, SameFiles, SameGraph DEF Holds
  <1> QED  BY <1>1, <1>2, <1>3 DEF FilesOfGraph, Ranked

\* calc_pagerank before the first round: every vertex has the rank 1.0.
LEMMA BeginStep ==
    ASSUME ReportInv, BeginRanks
    PROVE  DegreesOfGraph' /\ RanksOfGraph' /\ FilesOfGraph'
  <1>1. /\ phase = "degree" /\ phase' = "rank"
        /\ UNCHANGED <<vertex_dict, vertex, inserted, files>>
        /\ pr' = [i \in Vertices |-> 0] /\ pr_vector' = [i \in Vertices |-> Scale]
        /\ ind' = [j \in Vertices |-> Cardinality(EdgesTo(j))]
        /\ outd' = [i \in Vertices |-> Cardinality(EdgesFrom(i))]
    BY DEF BeginRanks, graphVars, CalcDegree, EdgesTo, EdgesFrom
  <1>2. DegreesOfGraph'
    BY <1>1, SameGraph DEF DegreesOfGraph
  <1>3. RanksOfGraph'
    <2>1. pr_vector' \in [Vertices -> Nat]
      BY <1>1, ScaleAssumption
    <2>2. 100 * Len(vertex) <= Damping * Total(pr_vector')
      <3> DEFINE n == Len(vertex)
                 v == pr_vector'
                 t == SumFunctionOnSet(v, Vertices)
      <3>1. n \in Nat /\ IsFiniteSet(Vertices) /\ Cardinality(Vertices) = n
        BY EdgesFinite DEF ReportInv, GraphInv
      <3>2. Total(v) = t
        BY <1>1 DEF Total, SumFunction
      <3>3. \A i \in Vertices : v[i] \in Nat /\ Scale <= v[i]
        BY <1>1, ScaleAssumption
      <3>4. Scale \in Nat
        BY ScaleAssumption
      <3> HIDE DEF n, v
      <3>5. t \in Nat /\ Scale * n <= t
        BY <3>1, <3>3, <3>4, SumNat, SumAtLeast
      <3>6. n <= MaxInserts
        BY ScaleAssumption, <3>1, LenProperties DEF ReportInv, GraphInv, FewVertices, n
      <3> HIDE DEF t
      <3>7. 100 * n <= 15 * t
        <4>1. n = 0 \/ 100 <= 15 * Scale
          <5> SUFFICES ASSUME n >= 1 PROVE 100 <= 15 * Scale
            BY <3>1
          <5>1. MaxInserts \in Nat /\ MaxInserts >= 1 /\ 15 * Scale >= 115 * MaxInserts
            BY <3>1, <3>6, ScaleAssumption DEF Damping
          <5> QED  BY <3>4, <5>1
        <4>2. CASE n = 0
          BY <3>5, <4>2
        <4>3. CASE 100 <= 15 * Scale
          <5> DEFINE k == 15 * Scale
          <5>1. k \in Nat /\ k * n <= 15 * t
            <6>1. k * n = 15 * (Scale * n) /\ Scale * n \in Nat
              BY <3>1, <3>4
            <6> QED  BY <3>4, <3>5, <6>1
          <5>2. k \in Nat /\ 100 <= k
            BY <3>4, <4>3
          <5> HIDE DEF k
          <5>3. 100 * n <= k * n
            BY <3>1, <5>2
          <5> QED  BY <3>1, <3>5, <5>1, <5>2, <5>3
        <4> QED  BY <4>1, <4>2, <4>3
      <3> QED  BY <3>2, <3>7 DEF n, v, t, Damping
    <2> QED  BY <1>1, <2>1, <2>2, SameGraph DEF RanksOfGraph, Ranked
  <1>4. FilesOfGraph'
    <2>1. /\ "webgraph" \in DOMAIN files' /\ files'["webgraph"] = WebgraphFile
          /\ "link" \in DOMAIN files' /\ files'["link"] = Known
      BY <1>1 DEF ReportInv, FilesOfGraph, Holds
    <2>2. WebgraphFile' = WebgraphFile
      BY <1>1, SameGraph DEF WebgraphFile
    <2> QED  BY <1>1, <2>1, <2>2, SameGraph DEF FilesOfGraph, Holds, Ranked
  <1> QED  BY <1>2, <1>3, <1>4

\* A round, and the ranks the next one starts from.
LEMMA RoundStep ==
    ASSUME ReportInv, Round
    PROVE  DegreesOfGraph' /\ RanksOfGraph' /\ FilesOfGraph'
  <1> DEFINE new == NewRanks
             n == Len(vertex)
  <1>1. /\ phase = "rank" /\ vertex # <<>>
        /\ pr' = Reset(new) /\ pr_vector' = new
        /\ phase' = IF Restless(new) = {} THEN "cdf" ELSE "rank"
        /\ UNCHANGED <<vertex_dict, vertex, inserted, ind, outd, files>>
    BY DEF Round, graphVars, degrees
  <1>2. /\ new \in [Vertices -> Nat]
        /\ Total(new) \in (Scale - n)..Scale
        /\ \A v, w \in Vertices :
              (\A x \in Vertices : Cardinality({e \in EdgesTo(v) : e[1] = x})
                                      <= Cardinality({e \in EdgesTo(w) : e[1] = x}))
                => new[v] <= new[w]
    <2>1. Resting
      BY <1>1 DEF ReportInv, RanksOfGraph, Resting
    <2>2. OutdOfGraph
      BY <1>1 DEF ReportInv, DegreesOfGraph, OutdOfGraph
    <2> QED  BY <1>1, <2>1, <2>2, NewRanksRight DEF ReportInv, GraphInv
  <1> HIDE DEF new
  <1>3. DegreesOfGraph'
    BY <1>1, SameGraph DEF ReportInv, DegreesOfGraph
  <1>4. RanksOfGraph'
    <2>1. CASE Restless(new) = {}
      <3>1. pr' = new /\ phase' = "cdf"
        BY <1>1, <2>1 DEF Reset
      <3>2. RanksRight'
        BY <1>1, <1>2, <3>1, SameGraph DEF RanksRight
      <3> QED  BY <3>1, <3>2 DEF RanksOfGraph
    <2>2. CASE Restless(new) # {}
      <3>1. pr' = [j \in Vertices |-> 0] /\ phase' = "rank"
        BY <1>1, <2>2 DEF Reset
      <3>2. 100 * n <= 15 * Total(new)
        <4> DEFINE t == Total(new)
        <4>1. n \in Nat /\ n <= MaxInserts
          BY ScaleAssumption, EdgesFinite, LenProperties DEF ReportInv, GraphInv, FewVertices
        <4>2. t \in Int /\ t >= Scale - n
          BY <1>2, <4>1, ScaleAssumption
        <4>3. 15 * Scale >= 115 * MaxInserts /\ Scale \in Nat /\ MaxInserts \in Nat
          BY ScaleAssumption DEF Damping
        <4> HIDE DEF t, n
        <4> QED  BY <4>1, <4>2, <4>3 DEF t
      <3> QED  BY <1>1, <1>2, <3>1, <3>2, SameGraph DEF RanksOfGraph, Damping, Ranked
    <2> QED  BY <2>1, <2>2
  <1>5. FilesOfGraph'
    <2>1. /\ "webgraph" \in DOMAIN files' /\ files'["webgraph"] = WebgraphFile
          /\ "link" \in DOMAIN files' /\ files'["link"] = Known
      BY <1>1 DEF ReportInv, FilesOfGraph, Holds
    <2>2. WebgraphFile' = WebgraphFile
      BY <1>1, SameGraph DEF WebgraphFile
    <2> QED  BY <1>1, <2>1, <2>2, SameGraph DEF FilesOfGraph, Holds, Ranked
  <1> QED  BY <1>3, <1>4, <1>5

\* An empty graph has no ranks to compute.
LEMMA NoRoundsStep ==
    ASSUME ReportInv, NoRounds
    PROVE  DegreesOfGraph' /\ RanksOfGraph' /\ FilesOfGraph'
  <1>1. /\ phase = "rank" /\ vertex = <<>> /\ phase' = "cdf"
        /\ UNCHANGED <<vertex_dict, vertex, inserted, ind, outd, pr, pr_vector, files>>
    BY DEF NoRounds, graphVars, degrees, ranks
  <1>2. DegreesOfGraph'
    BY <1>1, SameGraph DEF ReportInv, DegreesOfGraph
  <1>3. RanksOfGraph'
    <2>1. pr' \in [Vertices' -> Nat]
      BY <1>1, SameGraph DEF ReportInv, RanksOfGraph
    <2> QED  BY <1>1, <2>1 DEF RanksOfGraph, RanksRight
  <1>4. FilesOfGraph'
    <2>1. \A f, c : f \in AllFiles /\ Holds(f, c) => Holds(f, c)'
      BY <1>1 DEF Holds
    <2>2. FilesOfGraph
      BY DEF ReportInv
    <2>3. Holds("webgraph", WebgraphFile)' /\ Holds("link", Known)'
      BY <1>1, <2>1, <2>2, Written, "webgraph" \in AllFiles, "link" \in AllFiles DEF AllFiles
    <2> QED  BY <1>1, <2>3 DEF FilesOfGraph, Ranked
  <1> QED  BY <1>2, <1>3, <1>4

\* gen_ind_cdf
LEMMA IndCdfStep ==
    ASSUME ReportInv, GenIndCdf
    PROVE  DegreesOfGraph' /\ RanksOfGraph' /\ FilesOfGraph'
  <1>1. phase = "cdf" /\ phase' = "sitemap"
    BY DEF GenIndCdf
  <1>2. \E cdf : IsIndCdf(cdf) /\ Write("indcdf", cdf)
    BY DEF GenIndCdf, IsIndCdf
  <1>3. PICK new : IsIndCdf(new) /\ Write("indcdf", new)
    BY <1>2
  <1>4. /\ UNCHANGED <<vertex_dict, vertex, inserted, ind, outd, pr, pr_vector>>
        /\ Holds("indcdf", new)'
        /\ \A f, c : f \in AllFiles \ {"indcdf"} /\ Holds(f, c) => Holds(f, c)'
    BY <1>3, WriteHolds DEF Holds
  <1>5. DegreesOfGraph' /\ RanksOfGraph'
    BY <1>1, <1>4, Computed DEF ReportInv, Ranked
  <1>6. FilesOfGraph'
    <2> DEFINE old == AllFiles \ {"indcdf"}
    <2>1. "webgraph" \in old /\ "link" \in old
      BY DEF AllFiles
    <2> HIDE DEF old
    <2>2. Holds("webgraph", WebgraphFile)' /\ Holds("link", Known)'
      BY <1>1, <1>4, <2>1, Written DEF ReportInv, old
    <2>3. IsIndCdf(new)'
      BY <1>3, <1>4, SameFiles
    <2> QED  BY <1>1, <1>4, <2>2, <2>3 DEF FilesOfGraph, Ranked
  <1> QED  BY <1>5, <1>6

\* gen_graphviz
LEMMA GraphvizStep ==
    ASSUME ReportInv, GenGraphviz
    PROVE  DegreesOfGraph' /\ RanksOfGraph' /\ FilesOfGraph'
  <1>1. phase = "sitemap" /\ phase' = "check" /\ Write("sitemap", SitemapFile)
    BY DEF GenGraphviz, SitemapFile, SitemapRows
  <1>2. /\ UNCHANGED <<vertex_dict, vertex, inserted, ind, outd, pr, pr_vector>>
        /\ "sitemap" \in DOMAIN files' /\ files'["sitemap"] = SitemapFile
        /\ \A f, c : f \in AllFiles \ {"sitemap"} /\ Holds(f, c) => Holds(f, c)'
    BY <1>1, WriteHolds DEF Holds
  <1>3. DegreesOfGraph' /\ RanksOfGraph'
    BY <1>1, <1>2, Computed DEF ReportInv, Ranked
  <1>4. FilesOfGraph'
    <2> DEFINE old == AllFiles \ {"sitemap"}
    <2>1. "webgraph" \in old /\ "link" \in old /\ "indcdf" \in old
      BY DEF AllFiles
    <2> HIDE DEF old
    <2>2. /\ Holds("webgraph", WebgraphFile)' /\ Holds("link", Known)'
          /\ \E cdf : IsIndCdf(cdf)' /\ Holds("indcdf", cdf)'
      BY <1>1, <1>2, <2>1, Written DEF ReportInv, old, Ranked
    <2>3. Holds("sitemap", SitemapFile)'
      BY <1>2, SameFiles DEF Holds
    <2> QED  BY <1>1, <2>2, <2>3 DEF FilesOfGraph, Ranked
  <1> QED  BY <1>3, <1>4

\* gen_ind_pagerank
LEMMA IndPagerankStep ==
    ASSUME ReportInv, GenIndPagerank
    PROVE  DegreesOfGraph' /\ RanksOfGraph' /\ FilesOfGraph'
  <1>1. phase = "check" /\ phase' = "top" /\ Write("checkresult", CheckresultFile)
    BY DEF GenIndPagerank, CheckresultFile
  <1>2. /\ UNCHANGED <<vertex_dict, vertex, inserted, ind, outd, pr, pr_vector>>
        /\ "checkresult" \in DOMAIN files' /\ files'["checkresult"] = CheckresultFile
        /\ \A f, c : f \in AllFiles \ {"checkresult"} /\ Holds(f, c) => Holds(f, c)'
    BY <1>1, WriteHolds DEF Holds
  <1>3. DegreesOfGraph' /\ RanksOfGraph'
    BY <1>1, <1>2, Computed DEF ReportInv, Ranked
  <1>4. FilesOfGraph'
    <2> DEFINE old == AllFiles \ {"checkresult"}
    <2>1. "webgraph" \in old /\ "link" \in old /\ "indcdf" \in old /\ "sitemap" \in old
      BY DEF AllFiles
    <2> HIDE DEF old
    <2>2. /\ Holds("webgraph", WebgraphFile)' /\ Holds("link", Known)'
          /\ \E cdf : IsIndCdf(cdf)' /\ Holds("indcdf", cdf)'
          /\ Holds("sitemap", SitemapFile)'
      BY <1>1, <1>2, <2>1, Written DEF ReportInv, old, Ranked
    <2>3. Holds("checkresult", CheckresultFile)'
      BY <1>2, SameFiles DEF Holds
    <2> QED  BY <1>1, <2>2, <2>3 DEF FilesOfGraph, Ranked
  <1> QED  BY <1>3, <1>4

\* gen_top
LEMMA TopStep ==
    ASSUME ReportInv, GenTop
    PROVE  DegreesOfGraph' /\ RanksOfGraph' /\ FilesOfGraph'
  <1>1. phase = "top" /\ phase' = "end" /\ Write("top10", Top10File)
    <2>1. /\ qsort([i \in Vertices |-> i], _ind_cmp) = ByInd
          /\ qsort(ByInd, _pr_cmp) = SortedBy(ByInd, pr)
      BY SortedByIs DEF ByInd
    <2> QED  BY <2>1 DEF GenTop, Top10File, FirstOf
  <1>2. /\ UNCHANGED <<vertex_dict, vertex, inserted, ind, outd, pr, pr_vector>>
        /\ "top10" \in DOMAIN files' /\ files'["top10"] = Top10File
        /\ \A f, c : f \in AllFiles \ {"top10"} /\ Holds(f, c) => Holds(f, c)'
    BY <1>1, WriteHolds DEF Holds
  <1>3. DegreesOfGraph' /\ RanksOfGraph'
    BY <1>1, <1>2, Computed DEF ReportInv, Ranked
  <1>4. FilesOfGraph'
    <2> DEFINE old == AllFiles \ {"top10"}
    <2>1. /\ "webgraph" \in old /\ "link" \in old /\ "indcdf" \in old /\ "sitemap" \in old
          /\ "checkresult" \in old
      BY DEF AllFiles
    <2> HIDE DEF old
    <2>2. /\ Holds("webgraph", WebgraphFile)' /\ Holds("link", Known)'
          /\ \E cdf : IsIndCdf(cdf)' /\ Holds("indcdf", cdf)'
          /\ Holds("sitemap", SitemapFile)'
          /\ Holds("checkresult", CheckresultFile)'
      BY <1>1, <1>2, <2>1, Written DEF ReportInv, old, Ranked
    <2>3. Holds("top10", Top10File)'
      BY <1>2, SameFiles DEF Holds
    <2> QED  BY <1>1, <2>2, <2>3 DEF FilesOfGraph, Ranked
  <1> QED  BY <1>3, <1>4

\* A report keeps the graph, and computes and writes what is right.
LEMMA ReportStep ==
    ASSUME ReportInv, PrintWebg \/ Report \/ UNCHANGED vars
    PROVE  ReportInv' /\ [InfoKeptStep]_graphVars
  <1>1. GraphInv' /\ UNCHANGED graphVars
    BY ReportGraph DEF ReportInv, graphVars
  <1>2. CASE UNCHANGED vars
    <2>1. /\ UNCHANGED <<vertex_dict, vertex, ind, outd, pr, pr_vector>>
          /\ phase' = phase /\ files' = files
      BY <1>2 DEF vars, graphVars, degrees, ranks
    <2>2. DegreesOfGraph' /\ RanksOfGraph'
      BY <2>1, Computed DEF ReportInv
    <2>3. FilesOfGraph'
      <3>1. \A f, c : f \in AllFiles /\ Holds(f, c) => Holds(f, c)'
        BY <2>1 DEF Holds
      <3>2. /\ "webgraph" \in AllFiles /\ "link" \in AllFiles /\ "indcdf" \in AllFiles
            /\ "sitemap" \in AllFiles /\ "checkresult" \in AllFiles /\ "top10" \in AllFiles
        BY DEF AllFiles
      <3>3. /\ phase # "build" => Holds("webgraph", WebgraphFile)' /\ Holds("link", Known)'
            /\ phase \in Ranked \ {"cdf"} => \E cdf : IsIndCdf(cdf)' /\ Holds("indcdf", cdf)'
            /\ phase \in {"check", "top", "end"} => Holds("sitemap", SitemapFile)'
            /\ phase \in {"top", "end"} => Holds("checkresult", CheckresultFile)'
            /\ phase = "end" => Holds("top10", Top10File)'
        BY <2>1, <3>1, <3>2, Written DEF ReportInv
      <3> QED  BY <2>1, <3>3 DEF FilesOfGraph, Ranked
    <2> QED  BY <1>1, <2>2, <2>3 DEF ReportInv
  <1>3. CASE PrintWebg \/ Report
    <2>1. DegreesOfGraph' /\ RanksOfGraph' /\ FilesOfGraph'
      BY <1>3, PrintStep, BeginStep, RoundStep, NoRoundsStep, IndCdfStep, GraphvizStep,
         IndPagerankStep, TopStep DEF Report
    <2> QED  BY <1>1, <2>1 DEF ReportInv
  <1> QED  BY <1>2, <1>3

\* Each step keeps the graph, and all that is in it.
LEMMA NextStep == ReportInv /\ [Next]_vars => ReportInv' /\ [InfoKeptStep]_graphVars
  <1> SUFFICES ASSUME ReportInv, [Next]_vars
               PROVE  ReportInv' /\ [InfoKeptStep]_graphVars
    OBVIOUS
  <1>1. ASSUME phase = "build", phase' = "build", UNCHANGED <<ind, outd>>, GraphInv'
        PROVE  ReportInv'
    BY <1>1 DEF ReportInv, DegreesOfGraph, RanksOfGraph, FilesOfGraph, Ranked
  <1>2. ASSUME NEW url \in Urls, NEW links \in Pages, Insert(url, links)
        PROVE  ReportInv' /\ InfoKeptStep
    <2>1. UNCHANGED <<ind, outd>> /\ phase = "build" /\ phase' = "build"
      BY <1>2 DEF Insert, degrees
    <2> QED  BY <1>1, <1>2, <2>1, InsertStep DEF ReportInv
  <1>3. ASSUME NEW u \in Known, Mark(u)
        PROVE  ReportInv' /\ InfoKeptStep
    <2>1. UNCHANGED <<ind, outd>> /\ phase = "build" /\ phase' = "build"
      BY <1>3 DEF Mark, degrees
    <2> QED  BY <1>1, <1>3, <2>1, MarkStep DEF ReportInv
  <1>4. CASE PrintWebg \/ Report \/ UNCHANGED vars
    BY <1>4, ReportStep
  <1> QED  BY <1>2, <1>3, <1>4 DEF Next

(* The graph, the degrees, the ranks and the files, in every state.        *)
THEOREM ReportsKeep == Spec => []ReportInv
  BY ReportInit, NextStep, PTL DEF Spec

(* insert_edge in any order, with pages inserted again, and marks at any   *)
(* time: an id names the vertex that points back, and an edge leads to a   *)
(* URL of the dictionary (webgraph.c).                                     *)
THEOREM GraphStaysConsistent == Spec => []GraphConsistent
  <1>1. ReportInv => GraphConsistent
    BY DEF ReportInv, GraphInv
  <1> QED  BY <1>1, ReportsKeep, PTL

(* insert_edge and do_work take back no element of the dictionary, no id   *)
(* and no mark, nor does any report.                                       *)
THEOREM NothingForgotten == Spec => InfoKept
  <1>1. ReportInv /\ [Next]_vars => [InfoKeptStep]_graphVars
    BY NextStep
  <1> QED  BY <1>1, ReportsKeep, PTL DEF Spec, InfoKept, InfoKeptStep

\* A page inserted once gives each vertex one to its indegree, at most.
LEMMA IndegreesFitLemma == ReportInv => IndegreesFit
  <1> SUFFICES ASSUME ReportInv, Once, NEW v \in DOMAIN ind
               PROVE  ind[v] <= Len(vertex)
    BY DEF IndegreesFit
  <1>1. DOMAIN <<>> = {}
    OBVIOUS
  <1>2. v \in Vertices /\ ind[v] = Cardinality(EdgesTo(v))
    BY <1>1 DEF ReportInv, DegreesOfGraph
  <1> QED  BY <1>2, EdgesToFew DEF ReportInv, GraphInv, LinksOnce

\* Every edge is a line of sitemap.dot, and every line an edge.
LEMMA SitemapLines ==
    ASSUME GraphTypes
    PROVE  /\ \A k \in DOMAIN SitemapFile :
                 \E e \in Edges : SitemapFile[k] = <<e[1] - 1, Target(e)>>
           /\ \A W : Cardinality({k \in DOMAIN SitemapFile : SitemapFile[k] \in W})
                        = Cardinality({e \in Edges : <<e[1] - 1, Target(e)>> \in W})
  <1> DEFINE rows == SitemapRows
             t == SitemapFile
             n == Len(vertex)
             S == {<<e[1] - 1, Target(e)>> : e \in Edges}
  <1>1. /\ n \in Nat /\ Vertices = 1..n
        /\ \A i \in 1..n : /\ DOMAIN vertex[i].edge = 1..Len(vertex[i].edge)
                           /\ Len(vertex[i].edge) \in Nat
    BY EdgesFinite
  <1>2. DOMAIN rows = 1..n /\ \A i \in 1..n : rows[i] \in Seq(S) /\ Len(rows[i]) = Len(vertex[i].edge)
                                             /\ \A k \in 1..Len(vertex[i].edge) :
                                                   rows[i][k] = <<i - 1, Target(<<i, k>>)>>
    <2> SUFFICES ASSUME NEW i \in 1..n
                 PROVE  /\ rows[i] \in Seq(S) /\ Len(rows[i]) = Len(vertex[i].edge)
                        /\ \A k \in 1..Len(vertex[i].edge) : rows[i][k] = <<i - 1, Target(<<i, k>>)>>
      BY <1>1 DEF SitemapRows
    <2> DEFINE m == Len(vertex[i].edge)
               r == rows[i]
    <2>1. m \in Nat /\ r = [k \in 1..m |-> <<i - 1, Target(<<i, k>>)>>]
      BY <1>1 DEF SitemapRows
    <2>2. \A k \in 1..m : <<i - 1, Target(<<i, k>>)>> \in S
      <3> TAKE k \in 1..m
      <3>1. <<i, k>> \in Edges
        BY <1>1 DEF Edges
      <3> QED  BY <3>1
    <2> HIDE DEF m, r, S
    <2>3. r \in [1..m -> S]
      BY <2>1, <2>2
    <2>4. r \in Seq(S) /\ Len(r) = m
      BY <2>1, <2>3, SeqDef, LenProperties
    <2> QED  BY <2>1, <2>4 DEF r, m
  <1> HIDE DEF rows, n, S
  <1>3. rows \in Seq(Seq(S)) /\ Len(rows) = n
    <2>1. rows \in [1..n -> Seq(S)]
      <3>1. rows = [i \in 1..n |-> rows[i]]
        BY <1>1 DEF rows, SitemapRows
      <3> QED  BY <1>2, <3>1
    <2> QED  BY <1>1, <2>1, SeqDef, LenProperties
  <1>4. t = FlattenSeq(rows)
    BY DEF SitemapFile, rows
  <1> HIDE DEF t
  <1>5. /\ t \in Seq(S)
        /\ \A W : Cardinality({k \in DOMAIN t : t[k] \in W})
                    = Cardinality({e \in PlacesTo(rows, Len(rows)) : rows[e[1]][e[2]] \in W})
    <2>1. rows \in Seq(Seq(S))
      BY <1>3
    <2>2. /\ FlattenSeq(rows) \in Seq(S)
          /\ \A W : Cardinality({k \in DOMAIN FlattenSeq(rows) : FlattenSeq(rows)[k] \in W})
                      = Cardinality({e \in PlacesTo(rows, Len(rows)) : rows[e[1]][e[2]] \in W})
      BY ONLY ZenonT(30), <2>1, FlattenCounts
    <2> QED  BY <1>4, <2>2
  <1>6. PlacesTo(rows, Len(rows)) = Edges
    <2>1. \A i \in 1..n : {<<i, k>> : k \in 1..Len(rows[i])} = {<<i, k>> : k \in DOMAIN vertex[i].edge}
      BY <1>1, <1>2
    <2>2. PlacesTo(rows, Len(rows)) = UNION {{<<i, k>> : k \in 1..Len(rows[i])} : i \in 1..n}
      BY <1>3 DEF PlacesTo
    <2>3. Edges = UNION {{<<i, k>> : k \in DOMAIN vertex[i].edge} : i \in 1..n}
      BY <1>1 DEF Edges
    <2> QED  BY ONLY <2>1, <2>2, <2>3
  <1>7. \A e \in Edges : rows[e[1]][e[2]] = <<e[1] - 1, Target(e)>>
    <2> TAKE e \in Edges
    <2>1. PICK i \in 1..n : \E k \in DOMAIN vertex[i].edge : e = <<i, k>>
      BY <1>1 DEF Edges
    <2>2. PICK k \in DOMAIN vertex[i].edge : e = <<i, k>>
      BY <2>1
    <2>3. rows[i][k] = <<i - 1, Target(<<i, k>>)>>
      BY <1>1, <1>2
    <2> QED  BY <2>2, <2>3
  <1>8. \A k \in DOMAIN t : t[k] \in S
    BY <1>5, LenProperties, ElementOfSeq
  <1>9. ASSUME NEW W
        PROVE  Cardinality({k \in DOMAIN t : t[k] \in W})
                  = Cardinality({e \in Edges : <<e[1] - 1, Target(e)>> \in W})
    <2>1. {e \in PlacesTo(rows, Len(rows)) : rows[e[1]][e[2]] \in W}
            = {e \in Edges : <<e[1] - 1, Target(e)>> \in W}
      BY <1>6, <1>7
    <2> QED  BY <1>5, <2>1
  <1> QED  BY <1>8, <1>9 DEF t, S

\* The lines of sitemap.dot by their ends.
LEMMA LinesOfEdges ==
    ASSUME GraphTypes, GraphConsistent, files.sitemap = SitemapFile
    PROVE  /\ \A v \in Vertices : LinesTo(v - 1) = Cardinality(EdgesTo(v))
           /\ \A v \in Vertices : LinesFrom(v - 1) = Cardinality({e \in Edges : e[1] = v})
           /\ \A v \in Vertices : \A w \in Int :
                 LinesBetween(v - 1, w) = Cardinality({e \in Edges : e[1] = v /\ Target(e) = w})
  <1> DEFINE t == SitemapFile
  <1>1. \A k \in DOMAIN t : \E e \in Edges : t[k] = <<e[1] - 1, Target(e)>>
    BY SitemapLines
  <1>2. \A W : Cardinality({k \in DOMAIN t : t[k] \in W})
                 = Cardinality({e \in Edges : <<e[1] - 1, Target(e)>> \in W})
    BY SitemapLines
  <1>3. \A v \in Vertices : v \in Nat /\ v >= 1
    BY EdgesFinite
  <1>4. \A e \in Edges : e[1] \in Nat /\ Target(e) \in Int
    BY <1>3, EdgeFacts
  <1> DEFINE S == {<<e[1] - 1, Target(e)>> : e \in Edges}
  <1>5. ASSUME NEW v \in Vertices PROVE LinesTo(v - 1) = Cardinality(EdgesTo(v))
    <2> DEFINE W == {p \in S : p[2] = v - 1}
    <2>1. {k \in DOMAIN t : t[k][2] = v - 1} = {k \in DOMAIN t : t[k] \in W}
      BY <1>1
    <2>2. {e \in Edges : <<e[1] - 1, Target(e)>> \in W} = {e \in Edges : Target(e) = v - 1}
      OBVIOUS
    <2>3. {e \in Edges : Target(e) = v - 1} = EdgesTo(v)
      BY <1>3, <1>4 DEF EdgesTo, Counted
    <2> HIDE DEF W, t
    <2>4. Cardinality({k \in DOMAIN t : t[k] \in W})
                 = Cardinality({e \in Edges : <<e[1] - 1, Target(e)>> \in W})
      BY <1>2
    <2>5. Cardinality({k \in DOMAIN t : t[k][2] = v - 1}) = Cardinality(EdgesTo(v))
      BY <2>1, <2>2, <2>3, <2>4
    <2> QED  BY <2>5 DEF LinesTo, t
  <1>6. ASSUME NEW v \in Vertices
        PROVE  LinesFrom(v - 1) = Cardinality({e \in Edges : e[1] = v})
    <2> DEFINE W == {p \in S : p[1] = v - 1}
    <2>1. {k \in DOMAIN t : t[k][1] = v - 1} = {k \in DOMAIN t : t[k] \in W}
      BY <1>1
    <2>2. {e \in Edges : <<e[1] - 1, Target(e)>> \in W} = {e \in Edges : e[1] - 1 = v - 1}
      OBVIOUS
    <2>3. {e \in Edges : e[1] - 1 = v - 1} = {e \in Edges : e[1] = v}
      BY <1>3, <1>4
    <2> HIDE DEF W, t
    <2>4. Cardinality({k \in DOMAIN t : t[k] \in W})
                 = Cardinality({e \in Edges : <<e[1] - 1, Target(e)>> \in W})
      BY <1>2
    <2>5. Cardinality({k \in DOMAIN t : t[k][1] = v - 1}) = Cardinality({e \in Edges : e[1] = v})
      BY <2>1, <2>2, <2>3, <2>4
    <2> QED  BY <2>5 DEF LinesFrom, t
  <1>7. ASSUME NEW v \in Vertices, NEW w \in Int
        PROVE  LinesBetween(v - 1, w) = Cardinality({e \in Edges : e[1] = v /\ Target(e) = w})
    <2> DEFINE W == {<<v - 1, w>>}
    <2>1. {k \in DOMAIN t : t[k] = <<v - 1, w>>} = {k \in DOMAIN t : t[k] \in W}
      OBVIOUS
    <2>2. {e \in Edges : <<e[1] - 1, Target(e)>> \in W} = {e \in Edges : e[1] = v /\ Target(e) = w}
      BY <1>3, <1>4
    <2> HIDE DEF W, t
    <2>3. Cardinality({k \in DOMAIN t : t[k] \in W})
                 = Cardinality({e \in Edges : <<e[1] - 1, Target(e)>> \in W})
      BY <1>2
    <2>4. Cardinality({k \in DOMAIN t : t[k] = <<v - 1, w>>})
             = Cardinality({e \in Edges : e[1] = v /\ Target(e) = w})
      BY <2>1, <2>2, <2>3
    <2> QED  BY <2>4 DEF LinesBetween, t
  <1> QED  BY <1>5, <1>6, <1>7

\* The links of a page: those to vertices and those to URLs without one.
LEMMA LinksOfPage ==
    ASSUME GraphTypes, GraphConsistent, NEW v \in Vertices
    PROVE  /\ Cardinality({e \in Edges : e[1] = v}) = Len(vertex[v].edge)
           /\ Cardinality({e \in Edges : e[1] = v})
                 = Cardinality(EdgesFrom(v))
                     + Cardinality({e \in Edges : e[1] = v /\ Target(e) = -1})
  <1> DEFINE A == {e \in Edges : e[1] = v}
             B == {e \in Edges : e[1] = v /\ Target(e) = -1}
             m == Len(vertex[v].edge)
             f == [k \in 1..m |-> <<v, k>>]
  <1>1. DOMAIN vertex[v].edge = 1..m /\ m \in Nat
    BY EdgesFinite
  <1>2. A = {<<v, k>> : k \in 1..m}
    BY <1>1 DEF Edges
  <1>3. f \in Bijection(1..m, A)
    <2> HIDE DEF m, A
    <2> QED  BY <1>2 DEF Bijection, Injection, Surjection, IsInjective
  <1>4. Cardinality(A) = m
    <2>1. IsFiniteSet(1..m) /\ Cardinality(1..m) = m
      <3> HIDE DEF m
      <3> QED  BY <1>1, FirstNumbers
    <2> HIDE DEF f, m, A
    <2>2. ExistsBijection(1..m, A)
      BY <1>3 DEF ExistsBijection
    <2> QED  BY <2>1, <2>2, FS_Bijection
  <1>5. Cardinality(A) = Cardinality(EdgesFrom(v)) + Cardinality(B)
    <2>1. A = EdgesFrom(v) \cup B /\ EdgesFrom(v) \cap B = {}
      BY DEF EdgesFrom, Counted
    <2>2. IsFiniteSet(EdgesFrom(v)) /\ IsFiniteSet(B)
      BY EdgesFinite, CountedFinite, FS_Subset
    <2> HIDE DEF A, B
    <2>3. /\ Cardinality(EdgesFrom(v) \cup B) = Cardinality(EdgesFrom(v)) + Cardinality(B)
                                                 - Cardinality(EdgesFrom(v) \cap B)
          /\ Cardinality(EdgesFrom(v) \cap B) = 0
      BY <2>1, <2>2, FS_Union, FS_EmptySet
    <2>4. Cardinality(EdgesFrom(v)) \in Nat /\ Cardinality(B) \in Nat
      BY <2>2, FS_CardinalityType
    <2> QED  BY <2>1, <2>3, <2>4
  <1> QED  BY <1>4, <1>5

\* The distribution of the indegrees, once it is written.
LEMMA IndCdfRight ==
    ASSUME GraphTypes, IsFiniteSet(Vertices), ind \in [Vertices -> Nat], NEW cdf, IsIndCdf(cdf)
    PROVE  /\ \A i \in DOMAIN cdf : i < Len(vertex) => cdf[i] = Cardinality({v \in Vertices : ind[v] <= i})
           /\ (\E i \in DOMAIN cdf : i < Len(vertex) /\ cdf[i] = Len(vertex))
                 <=> Len(vertex) > 1 /\ \A v \in Vertices : ind[v] < Len(vertex)
  <1> DEFINE n == Len(vertex)
             Below(i) == {v \in Vertices : ind[v] <= i}
  <1>1. n \in Nat /\ Vertices = 1..n /\ Cardinality(Vertices) = n
    BY EdgesFinite
  <1>2. PICK rest \in {0, 256}, last \in 0..n :
            /\ last = 0 <=> vertex = <<>>
            /\ IsLast(last, rest)
            /\ cdf = [i \in 1..last |-> IndVector(i, rest)]
    BY DEF IsIndCdf
  <1>3. \A i \in Nat : i < n => IndVector(i, rest) = Cardinality(Below(i))
    <2> TAKE i \in Nat
    <2> HAVE i < n
    <2>1. IsFiniteSet(Below(i))
      BY FS_Subset
    <2>2. Cardinality(Below(i)) \in Nat
      BY <2>1, FS_CardinalityType
    <2> QED  BY <1>1, <2>2 DEF IndVector
  <1>4. \A i \in 1..last : i < n => cdf[i] = Cardinality(Below(i))
    BY <1>1, <1>2, <1>3
  <1>5. ASSUME NEW i \in 1..last, i < n, cdf[i] = n
        PROVE  n > 1 /\ \A v \in Vertices : ind[v] < n
    <2>1. Cardinality(Below(i)) = Cardinality(Vertices)
      BY <1>1, <1>4, <1>5
    <2>2. Below(i) = Vertices
      <3>1. Below(i) \in SUBSET Vertices
        OBVIOUS
      <3> HIDE DEF Below
      <3> QED  BY <2>1, <3>1, FS_Subset
    <2> QED  BY <1>1, <1>5, <2>2
  <1>6. ASSUME n > 1, \A v \in Vertices : ind[v] < n
        PROVE  \E i \in 1..last : i < n /\ cdf[i] = n
    <2>1. n - 1 \in 1..n /\ n - 1 \in Nat /\ n - 1 < n
      BY <1>1, <1>6
    <2>2. IndVector(n - 1, rest) = n
      <3>1. Below(n - 1) = Vertices
        BY <1>1, <1>6
      <3> HIDE DEF Below, n
      <3> QED  BY <1>1, <1>3, <2>1, <3>1
    <2>3. last # n
      <3> SUFFICES ASSUME last = n PROVE FALSE
        OBVIOUS
      <3>1. \A h \in 1..(last - 1) : IndVector(h, rest) # n
        BY <1>2 DEF IsLast
      <3>2. n - 1 \in 1..(last - 1)
        BY <1>1, <1>6
      <3> QED  BY <2>2, <3>1, <3>2
    <2>4. IndVector(last, rest) = n
      BY <1>2, <2>3 DEF IsLast
    <2>5. last \in 1..last /\ last < n
      <3>1. vertex # <<>>
        BY <1>1, <1>6
      <3> QED  BY <1>1, <1>2, <2>3, <3>1
    <2>6. cdf[last] = n
      BY <1>2, <2>4, <2>5
    <2> QED  BY <2>5, <2>6
  <1>7. DOMAIN cdf = 1..last
    BY <1>2
  <1> QED  BY <1>4, <1>5, <1>6, <1>7

\* The ids in webgraph.dat.
LEMMA WebgraphIds ==
    ASSUME GraphTypes, GraphConsistent, NEW i \in Vertices, NEW k \in DOMAIN vertex[i].edge
    PROVE  LET line == WebgraphFile
               vid == line[i].edge[k][1]
               url == line[i].edge[k][2]
           IN  url \in Known /\ \A j \in Vertices : line[j].vid = vid <=> line[j].url = url
  <1> DEFINE url == vertex[i].edge[k]
             vid == Target(<<i, k>>)
  <1>1. WebgraphFile[i].edge[k][1] = vid /\ WebgraphFile[i].edge[k][2] = url
    BY DEF WebgraphFile
  <1>2. \A j \in Vertices : WebgraphFile[j].vid = j - 1 /\ WebgraphFile[j].url = vertex[j].addr
    BY SMTT(30) DEF WebgraphFile
  <1>3. url \in Known /\ vid = vertex_dict[url].vid /\ vid \in Int
    <2>1. <<i, k>> \in Edges
      BY DEF Edges
    <2> QED  BY <2>1, EdgeFacts DEF Target, Vid
  <1>4. ASSUME NEW j \in Vertices PROVE j - 1 = vid <=> vertex[j].addr = url
    <2>1. /\ Vertices = 1..Len(vertex) /\ Len(vertex) \in Nat
      BY EdgesFinite
    <2>2. vertex[j].addr = url => vid = j - 1
      BY <1>3, <2>1 DEF GraphConsistent
    <2>3. ASSUME j - 1 = vid PROVE vertex[j].addr = url
      <3>1. vid >= 0 /\ vid + 1 = j
        BY <1>3, <2>1, <2>3
      <3>2. IsVertex(url)
        BY <1>3, <3>1 DEF IsVertex
      <3>3. vertex[vertex_dict[url].vid + 1].addr = url
        BY <1>3, <3>2 DEF GraphConsistent
      <3> QED  BY <1>3, <3>1, <3>3
    <2> QED  BY <2>2, <2>3
  <1> HIDE DEF url, vid
  <1> QED  BY <1>1, <1>2, <1>3, <1>4

\* What the files say in the end.
LEMMA EndFiles ==
    ASSUME ReportInv, Reported
    PROVE  /\ GraphTypes /\ GraphConsistent
           /\ files.webgraph = WebgraphFile /\ files.link = Known
           /\ IsIndCdf(files.indcdf)
           /\ files.sitemap = SitemapFile
           /\ files.checkresult = CheckresultFile
           /\ files.top10 = Top10File
           /\ ind = [j \in Vertices |-> Cardinality(EdgesTo(j))]
           /\ outd = [i \in Vertices |-> Cardinality(EdgesFrom(i))]
           /\ RanksRight
  <1>1. phase = "end" /\ phase \in Ranked
    BY DEF Reported, Ranked
  <1>2. PICK cdf : IsIndCdf(cdf) /\ Holds("indcdf", cdf)
    BY <1>1 DEF ReportInv, FilesOfGraph
  <1>3. files.indcdf = cdf
    BY <1>2 DEF Holds
  <1> QED  BY <1>1, <1>2, <1>3 DEF ReportInv, GraphInv, DegreesOfGraph, RanksOfGraph, FilesOfGraph, Holds

(* Every report of webgraph.c goes over the graph by itself; their files   *)
(* agree, for every graph that insert_edge can build: the ids and URLs of  *)
(* webgraph.dat, the lines of sitemap.dot with the degrees, and both with  *)
(* checkresult.dat and indcdf.dat.                                         *)
THEOREM ReportsAgree == Spec => []FilesAgree
  <1>1. ReportInv => FilesAgree
    <2> SUFFICES ASSUME ReportInv, Reported
                 PROVE  LET line == files.webgraph
                            All == Len(vertex)
                        IN
                        /\ \A i \in DOMAIN line : \A k \in DOMAIN line[i].edge :
                              LET vid == line[i].edge[k][1]
                                  url == line[i].edge[k][2]
                              IN  /\ url \in files.link
                                  /\ \A j \in DOMAIN line : line[j].vid = vid <=> line[j].url = url
                        /\ \A v \in Vertices :
                              /\ ind[v] = LinesTo(v - 1)
                              /\ LinesFrom(v - 1) = outd[v] + LinesBetween(v - 1, -1)
                              /\ LinesFrom(v - 1) = Len(line[v].edge)
                        /\ \A i \in DOMAIN files.indcdf : i < All =>
                              files.indcdf[i] = Cardinality({v \in Vertices : LinesTo(v - 1) <= i})
                        /\ (\E i \in DOMAIN files.indcdf : i < All /\ files.indcdf[i] = All)
                              <=> All > 1 /\ \A v \in Vertices : LinesTo(v - 1) < All
                        /\ \A u \in Urls :
                              IF files.checkresult[u] = <<>> THEN \A j \in Vertices : line[j].url # u
                              ELSE \E j \in Vertices : /\ line[j].url = u
                                                       /\ files.checkresult[u][1] = LinesTo(j - 1)
      BY IndegreesFitLemma DEF FilesAgree
    <2> DEFINE line == files.webgraph
               All == Len(vertex)
               cdf == files.indcdf
    <2>1. /\ GraphTypes /\ GraphConsistent
          /\ files.webgraph = WebgraphFile /\ files.link = Known
          /\ IsIndCdf(cdf)
          /\ files.sitemap = SitemapFile
          /\ files.checkresult = CheckresultFile
          /\ ind = [j \in Vertices |-> Cardinality(EdgesTo(j))]
          /\ outd = [i \in Vertices |-> Cardinality(EdgesFrom(i))]
      BY EndFiles
    <2>2. DOMAIN line = Vertices /\ \A i \in Vertices : /\ line[i].url = vertex[i].addr
                                                       /\ DOMAIN line[i].edge = DOMAIN vertex[i].edge
      BY <2>1 DEF WebgraphFile
    <2>3. \A v \in Vertices : ind[v] = LinesTo(v - 1)
      BY <2>1, LinesOfEdges
    <2>4. ASSUME NEW i \in DOMAIN line, NEW k \in DOMAIN line[i].edge
          PROVE  /\ line[i].edge[k][2] \in files.link
                 /\ \A j \in DOMAIN line : line[j].vid = line[i].edge[k][1] <=> line[j].url = line[i].edge[k][2]
      BY <2>1, <2>2, WebgraphIds
    <2>5. ASSUME NEW v \in Vertices
          PROVE  /\ LinesFrom(v - 1) = outd[v] + LinesBetween(v - 1, -1)
                 /\ LinesFrom(v - 1) = Len(line[v].edge)
      <3>1. LinesFrom(v - 1) = Cardinality({e \in Edges : e[1] = v})
        BY <2>1, LinesOfEdges
      <3>2. LinesBetween(v - 1, -1) = Cardinality({e \in Edges : e[1] = v /\ Target(e) = -1})
        <4>1. -1 \in Int
          OBVIOUS
        <4> QED  BY <2>1, <4>1, LinesOfEdges
      <3>3. Len(line[v].edge) = Len(vertex[v].edge)
        <4> DEFINE m == Len(vertex[v].edge)
        <4>1. DOMAIN vertex[v].edge = 1..m /\ m \in Nat
          BY <2>1, EdgesFinite
        <4>2. line[v].edge = [k \in 1..m |-> <<Target(<<v, k>>), vertex[v].edge[k]>>]
          <5>1. WebgraphFile[v].edge
                  = [k \in DOMAIN vertex[v].edge |-> <<Target(<<v, k>>), vertex[v].edge[k]>>]
            BY DEF WebgraphFile
          <5> HIDE DEF m
          <5> QED  BY <2>1, <4>1, <5>1
        <4> HIDE DEF m, line
        <4> QED  BY <4>1, <4>2 DEF m
      <3> QED  BY <2>1, <3>1, <3>2, <3>3, LinksOfPage
    <2>6. /\ \A i \in DOMAIN cdf : i < All => cdf[i] = Cardinality({v \in Vertices : LinesTo(v - 1) <= i})
          /\ (\E i \in DOMAIN cdf : i < All /\ cdf[i] = All)
                 <=> All > 1 /\ \A v \in Vertices : LinesTo(v - 1) < All
      <3>1. IsFiniteSet(Vertices) /\ ind \in [Vertices -> Nat]
        BY <2>1, EdgesFinite, CountedFinite
      <3>2. /\ \A i \in DOMAIN cdf : i < All => cdf[i] = Cardinality({v \in Vertices : ind[v] <= i})
            /\ (\E i \in DOMAIN cdf : i < All /\ cdf[i] = All)
                   <=> All > 1 /\ \A v \in Vertices : ind[v] < All
        <4> HIDE DEF cdf
        <4> QED  BY <2>1, <3>1, IndCdfRight
      <3>3. \A i : {v \in Vertices : ind[v] <= i} = {v \in Vertices : LinesTo(v - 1) <= i}
        BY <2>3
      <3> HIDE DEF cdf, All
      <3> QED  BY <2>3, <3>2, <3>3
    <2>7. ASSUME NEW u \in Urls
          PROVE  IF files.checkresult[u] = <<>> THEN \A j \in Vertices : line[j].url # u
                 ELSE \E j \in Vertices : line[j].url = u /\ files.checkresult[u][1] = LinesTo(j - 1)
      <3>1. files.checkresult[u] = IF IsVertex(u) THEN <<ind[Vid(u) + 1], pr[Vid(u) + 1]>> ELSE <<>>
        BY <2>1 DEF CheckresultFile
      <3>2. IsVertex(u) <=> \E j \in Vertices : vertex[j].addr = u
        BY <2>1, VertexAddrs, EdgesFinite
      <3>3. CASE ~IsVertex(u)
        BY <2>2, <3>1, <3>2, <3>3
      <3>4. CASE IsVertex(u)
        <4> DEFINE j == Vid(u) + 1
        <4>1. j \in Vertices /\ vertex[j].addr = u
          <5>1. /\ vertex_dict[u].vid \in Int /\ vertex_dict[u].vid >= 0
                /\ vertex_dict[u].vid < Len(vertex) /\ vertex[vertex_dict[u].vid + 1].addr = u
            BY <2>1, <3>4 DEF GraphConsistent, GraphTypes, IsVertex, Info
          <5>2. Vertices = 1..Len(vertex) /\ Len(vertex) \in Nat
            BY <2>1, EdgesFinite
          <5> QED  BY <5>1, <5>2 DEF Vid
        <4>2. files.checkresult[u] = <<ind[j], pr[j]>>
          BY <3>1, <3>4
        <4> HIDE DEF j
        <4>3. <<ind[j], pr[j]>> # <<>> /\ <<ind[j], pr[j]>>[1] = ind[j]
          OBVIOUS
        <4> QED  BY <2>2, <2>3, <4>1, <4>2, <4>3
      <3> QED  BY <3>3, <3>4
    <2> QED  BY <2>3, <2>4, <2>5, <2>6, <2>7
  <1> QED  BY <1>1, ReportsKeep, PTL

(* gen_ind_cdf counts within ind_vector as long as no page is inserted     *)
(* twice, which the crawl sees to.                                         *)
THEOREM IndegreesInArray == Spec => []IndegreesFit
  BY IndegreesFitLemma, ReportsKeep, PTL

(* calc_pagerank, for every graph and after any number of rounds: the      *)
(* ranks add up to 1.0 but for the rounding, and a page that every page    *)
(* links to as often as to another, or more often, does not rank below it. *)
THEOREM RanksMonotone == Spec => []RankMonotone
  <1>1. ReportInv => RankMonotone
    <2> SUFFICES ASSUME ReportInv, Reported, vertex # <<>>
                 PROVE  /\ Total(pr) \in (Scale - Len(vertex))..Scale
                        /\ \A v, w \in Vertices :
                              (\A x \in Vertices : LinesBetween(x - 1, v - 1) <= LinesBetween(x - 1, w - 1))
                                => pr[v] <= pr[w]
      BY DEF RankMonotone
    <2>1. GraphTypes /\ GraphConsistent /\ files.sitemap = SitemapFile /\ RanksRight
      BY EndFiles
    <2>2. ASSUME NEW x \in Vertices, NEW v \in Vertices
          PROVE  LinesBetween(x - 1, v - 1) = Cardinality({e \in EdgesTo(v) : e[1] = x})
      <3>1. v - 1 \in Int /\ v - 1 # -1 /\ v \in Int
        BY <2>1, EdgesFinite
      <3>2. LinesBetween(x - 1, v - 1) = Cardinality({e \in Edges : e[1] = x /\ Target(e) = v - 1})
        BY <2>1, <3>1, LinesOfEdges
      <3>3. \A e \in Edges : Target(e) \in Int
        BY <2>1, EdgeFacts
      <3>4. {e \in Edges : e[1] = x /\ Target(e) = v - 1} = {e \in EdgesTo(v) : e[1] = x}
        BY <3>1, <3>3 DEF EdgesTo, Counted
      <3> QED  BY <3>2, <3>4
    <2> QED  BY <2>1, <2>2 DEF RanksRight
  <1> QED  BY <1>1, ReportsKeep, PTL

-----------------------------------------------------------------------------
\* The first of a ranking are the best.
LEMMA FirstRanked ==
    ASSUME NEW s, NEW C, NEW key, Ranking(s, C, key), \A x \in C : key[x] \in Int
    PROVE  LET list == FirstOf(s)
           IN  /\ IsInjective(list) /\ Range(list) \subseteq C
               /\ \A i, k \in DOMAIN list : i < k => key[list[i]] >= key[list[k]]
               /\ \A v \in C \ Range(list) :
                     Len(list) = Top /\ \A k \in DOMAIN list : key[v] <= key[list[k]]
  <1> DEFINE n == Len(s)
             m == IF Top < n THEN Top ELSE n
             list == FirstOf(s)
  <1>1. /\ s \in Seq(C) /\ n \in Nat /\ s \in [1..n -> C] /\ Range(s) = C /\ IsInjective(s)
        /\ \A i, k \in 1..n : i < k => key[s[i]] >= key[s[k]]
    BY LenProperties DEF Ranking
  <1>2. m \in 0..n /\ (m < n => m = Top) /\ Top \in Nat
    <2>1. n \in Nat /\ Top \in Nat
      BY <1>1, ScaleAssumption
    <2> HIDE DEF n
    <2> QED  BY ONLY <2>1
  <1> HIDE DEF m
  <1>3. list = SubSeq(s, 1, m)
    BY DEF FirstOf, m
  <1>4. list \in [1..m -> C] /\ Len(list) = m /\ \A i \in 1..m : list[i] = s[i]
    <2> HIDE DEF n, list
    <2>1. 1 \in 1..(n + 1) /\ m \in 0..n /\ m \in Nat /\ n = Len(s) /\ s \in Seq(C)
      BY <1>1, <1>2 DEF n
    <2>2. /\ SubSeq(s, 1, m) \in Seq(C) /\ Len(SubSeq(s, 1, m)) = m
          /\ \A i \in 1..m : SubSeq(s, 1, m)[i] = s[i]
      <3>1. 1 \in Int /\ m \in Int /\ \A i \in 1..m : i \in DOMAIN s
        BY <1>1, <1>2
      <3> QED  BY <2>1, <3>1
    <2>3. list \in [1..m -> C]
      BY <1>3, <2>2, LenProperties
    <2> QED  BY <1>3, <2>2, <2>3
  <1>5. DOMAIN list = 1..m /\ \A i \in 1..m : i \in 1..n
    BY <1>1, <1>2, <1>4
  <1> HIDE DEF list, n
  <1>6. IsInjective(list)
    BY <1>1, <1>4, <1>5 DEF IsInjective
  <1>7. Range(list) \subseteq C
    BY <1>4, <1>5 DEF Range
  <1>8. \A i, k \in DOMAIN list : i < k => key[list[i]] >= key[list[k]]
    BY <1>1, <1>4, <1>5
  <1>9. ASSUME NEW v \in C \ Range(list)
        PROVE  Len(list) = Top /\ \A k \in DOMAIN list : key[v] <= key[list[k]]
    <2>1. PICK h \in 1..n : s[h] = v
      BY <1>1 DEF Range
    <2>2. h \notin 1..m
      BY <1>4, <1>5, <2>1 DEF Range
    <2>3. h \in Nat /\ m < h /\ m < n
      BY <1>1, <1>2, <2>1, <2>2
    <2>4. ASSUME NEW k \in DOMAIN list PROVE key[v] <= key[list[k]]
      <3>1. k \in 1..n /\ k < h /\ list[k] = s[k]
        BY <1>2, <1>4, <1>5, <2>3
      <3>2. key[s[k]] >= key[s[h]] /\ s[k] \in C
        BY <1>1, <3>1
      <3> QED  BY <2>1, <3>1, <3>2
    <2> QED  BY <1>2, <1>4, <2>3, <2>4
  <1> QED  BY <1>6, <1>7, <1>8, <1>9 DEF list

\* Both sorts of gen_top rank all vertices.
LEMMA VerticesRanked ==
    ASSUME GraphTypes, ind \in [Vertices -> Int], pr \in [Vertices -> Int]
    PROVE  Ranking(ByInd, Vertices, ind) /\ Ranking(SortedBy(ByInd, pr), Vertices, pr)
  <1> DEFINE s == [i \in Vertices |-> i]
  <1>1. s \in Seq(Vertices) /\ IsInjective(s) /\ Range(s) = Vertices
    <2>1. Vertices = 1..Len(vertex) /\ Len(vertex) \in Nat
      BY EdgesFinite
    <2>2. s \in Seq(Vertices)
      BY <2>1, SeqDef
    <2> QED  BY <2>2 DEF IsInjective, Range
  <1> HIDE DEF s
  <1>2. Ranking(SortedBy(s, ind), Vertices, ind)
    BY <1>1, RankingSort
  <1>3. Ranking(ByInd, Vertices, ind)
    BY <1>2 DEF ByInd, s
  <1>4. ByInd \in Seq(Vertices) /\ IsInjective(ByInd) /\ Range(ByInd) = Vertices
    BY <1>3 DEF Ranking
  <1>5. Ranking(SortedBy(ByInd, pr), Vertices, pr)
    BY <1>4, RankingSort
  <1> QED  BY <1>3, <1>5

(* gen_top sorts twice, the second time what the first has sorted, with    *)
(* comparisons that never answer below 0: each list has the best vertices, *)
(* the best first, each once.                                              *)
THEOREM TopIsRanked == Spec => []TopRanked
  <1>1. ReportInv => TopRanked
    <2> SUFFICES ASSUME ReportInv, Reported,
                        NEW by \in {<<files.top10.byInd, ind>>, <<files.top10.byPr, pr>>}
                 PROVE  LET list == by[1]
                            key == by[2]
                        IN  /\ IsInjective(list) /\ Range(list) \subseteq Vertices
                            /\ \A i, k \in DOMAIN list : i < k => key[list[i]] >= key[list[k]]
                            /\ \A v \in Vertices \ Range(list) :
                                  Len(list) = Top /\ \A k \in DOMAIN list : key[v] <= key[list[k]]
      BY DEF TopRanked
    <2>1. /\ GraphTypes /\ files.top10 = Top10File /\ RanksRight
          /\ ind = [j \in Vertices |-> Cardinality(EdgesTo(j))]
      BY EndFiles
    <2>2. ind \in [Vertices -> Int] /\ pr \in [Vertices -> Int]
      <3>1. \A j \in Vertices : Cardinality(EdgesTo(j)) \in Int
        BY <2>1, CountedFinite
      <3>2. pr \in [Vertices -> Nat]
        BY <2>1 DEF RanksRight
      <3> QED  BY <2>1, <3>1, <3>2
    <2>3. PICK s : Ranking(s, Vertices, by[2]) /\ by[1] = FirstOf(s) /\ by[2] \in [Vertices -> Int]
      <3>1. Ranking(ByInd, Vertices, ind) /\ Ranking(SortedBy(ByInd, pr), Vertices, pr)
        BY <2>1, <2>2, VerticesRanked
      <3>2. /\ files.top10.byInd = FirstOf(ByInd)
            /\ files.top10.byPr = FirstOf(SortedBy(ByInd, pr))
        BY <2>1 DEF Top10File
      <3> QED  BY <2>2, <3>1, <3>2
    <2> QED  BY <2>3, FirstRanked
  <1> QED  BY <1>1, ReportsKeep, PTL
=============================================================================
