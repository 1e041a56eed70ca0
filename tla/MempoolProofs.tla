--------------------------- MODULE MempoolProofs ---------------------------
(***************************************************************************)
(* For every set of transactions and every policy: the spends index and    *)
(* the totals of the pool are exact after every call, the links are sound, *)
(* and along the links no entry has more ancestors than allowed (there may *)
(* be unlinked ones: AncestorLimit of Mempool does not hold).  remove_tx   *)
(* and the insertion at the end of add_tx each preserve the invariants as  *)
(* operators; an insertion does because add_tx removes all conflicts       *)
(* first, which is the lemma Uncontested.  The lemmas about sums are first.*)
(*                                                                         *)
(* For every pool that calls can leave, a block template has the linked    *)
(* ancestors of what it has: the walk of get_ancestors ends and misses     *)
(* none, and each turn of the loop of get_block_template keeps TemplateOK. *)
(***************************************************************************)
EXTENDS BlockTemplate, TLAPS, FiniteSetTheorems, NaturalsInduction, WellFoundedInduction

-----------------------------------------------------------------------------
(* Induction, over sets instead of predicates *)

\* A set that has the least number and with every number the next one.
LEMMA UpFromZero ==
  ASSUME NEW P, 0 \in P, \A n \in Nat : n \in P => n + 1 \in P
  PROVE  \A n \in Nat : n \in P
<1> DEFINE Bad == {n \in Nat : n \notin P}
<1>1. SUFFICES ASSUME Bad # {} PROVE FALSE
  OBVIOUS
<1> HIDE DEF Bad
<1>2. Bad \subseteq Nat
  BY DEF Bad
<1>3. PICK k \in Bad : \A j \in Bad : ~(<<j, k>> \in OpToRel(<, Nat))
  BY <1>1, <1>2, NatLessThanWellFounded, WFMin, Zenon
<1>4. k \in Nat /\ k \notin P /\ \A j \in Bad : ~(j < k)
  BY <1>2, <1>3 DEF OpToRel, Bad
<1>5. k - 1 \in Nat /\ k - 1 \notin Bad /\ k - 1 + 1 = k
  BY <1>4
<1>6. k - 1 \in P
  BY <1>5 DEF Bad
<1>7. k - 1 + 1 \in P
  BY <1>5, <1>6
<1> QED BY <1>4, <1>5, <1>7

\* A finite set is in P if P has every set all of whose proper parts it has.
LEMMA UpFromParts ==
  ASSUME NEW S, IsFiniteSet(S), NEW P,
         \A T \in SUBSET S : (\A U \in SUBSET T : U # T => U \in P) => T \in P
  PROVE  S \in P
<1> DEFINE Q == {n \in Nat : \A T \in SUBSET S : Cardinality(T) <= n => T \in P}
<1>0. \A T \in SUBSET S : IsFiniteSet(T) /\ Cardinality(T) \in Nat
  BY FS_Subset, FS_CardinalityType
<1>1. ASSUME NEW T \in SUBSET S, NEW U \in SUBSET T, U # T
      PROVE  Cardinality(U) < Cardinality(T) /\ U \in SUBSET S
  <2>1. IsFiniteSet(T) /\ Cardinality(T) \in Nat /\ U \in SUBSET S /\ Cardinality(U) \in Nat
    BY <1>0
  <2>2. Cardinality(U) <= Cardinality(T) /\ Cardinality(U) # Cardinality(T)
    BY <1>1, <2>1, FS_Subset
  <2> QED BY <2>1, <2>2
<1>2. 0 \in Q
  <2>1. ASSUME NEW T \in SUBSET S, Cardinality(T) <= 0 PROVE T \in P
    <3>1. ASSUME NEW U \in SUBSET T, U # T PROVE FALSE
      <4>1. Cardinality(U) < Cardinality(T) /\ U \in SUBSET S
        BY <1>1, <3>1
      <4>2. Cardinality(U) \in Nat /\ Cardinality(T) \in Nat
        BY <1>0, <4>1
      <4> QED BY <2>1, <4>1, <4>2
    <3> QED BY <3>1
  <2> QED BY <2>1
<1>3. ASSUME NEW n \in Nat, n \in Q PROVE n + 1 \in Q
  <2>1. ASSUME NEW T \in SUBSET S, Cardinality(T) <= n + 1 PROVE T \in P
    <3>1. ASSUME NEW U \in SUBSET T, U # T PROVE U \in P
      <4>1. Cardinality(U) < Cardinality(T) /\ U \in SUBSET S
        BY <1>1, <3>1
      <4>2. Cardinality(U) \in Nat /\ Cardinality(T) \in Nat
        BY <1>0, <4>1
      <4>3. Cardinality(U) <= n
        BY <2>1, <4>1, <4>2
      <4> QED BY <1>3, <4>1, <4>3
    <3> QED BY <3>1
  <2> QED BY <2>1
<1> HIDE DEF Q
<1>4. \A n \in Nat : n \in Q
  BY <1>2, <1>3, UpFromZero
<1>5. Cardinality(S) \in Q /\ Cardinality(S) \in Nat
  BY <1>0, <1>4
<1> QED BY <1>5 DEF Q

-----------------------------------------------------------------------------
(* Sums *)

Pick(s) == CHOOSE x \in s : TRUE

\* g is the recursive function that SumOf evaluates, on the parts of S.
Adds(f, S, g) ==
    g = [s \in SUBSET S |-> IF s = {} THEN 0 ELSE f[Pick(s)] + g[s \ {Pick(s)}]]

LEMMA PickIn == ASSUME NEW s, s # {} PROVE Pick(s) \in s
  BY DEF Pick

LEMMA SumUnfolded ==
  ASSUME NEW f, NEW S PROVE SumOf(f, S) = (CHOOSE g : Adds(f, S, g))[S]
  BY DEF SumOf, MapThenSumSet, MapThenFoldSet, Adds, Pick

\* The recursion has a solution.
LEMMA AddsExists ==
  ASSUME NEW f, NEW S, IsFiniteSet(S) PROVE \E g : Adds(f, S, g)
<1> DEFINE Dom(n) == {s \in SUBSET S : Cardinality(s) <= n}
           Step(g, s) == IF s = {} THEN 0 ELSE f[Pick(s)] + g[s \ {Pick(s)}]
           Upto(n, g) == g = [s \in Dom(n) |-> Step(g, s)]
           P == {n \in Nat : \E g : Upto(n, g)}
<1>0. \A s \in SUBSET S : IsFiniteSet(s) /\ Cardinality(s) \in Nat
  BY FS_Subset, FS_CardinalityType
<1>1. 0 \in P
  <2> DEFINE g == [s \in Dom(0) |-> 0]
  <2>1. \A s \in Dom(0) : s = {}
    BY <1>0, FS_EmptySet
  <2>2. Upto(0, g)
    BY <2>1
  <2> QED BY <2>2
<1>2. ASSUME NEW n \in Nat, n \in P PROVE n + 1 \in P
  <2>1. PICK g : Upto(n, g)
    BY <1>2
  <2> DEFINE h == [s \in Dom(n + 1) |-> Step(g, s)]
  <2>2. ASSUME NEW s \in Dom(n + 1), s # {} PROVE h[s \ {Pick(s)}] = g[s \ {Pick(s)}]
    <3>1. s \ {Pick(s)} \in SUBSET S /\ Cardinality(s \ {Pick(s)}) = Cardinality(s) - 1
          /\ Cardinality(s) \in Nat
      BY <1>0, <2>2, PickIn, FS_RemoveElement
    <3>2. s \ {Pick(s)} \in Dom(n) /\ s \ {Pick(s)} \in Dom(n + 1)
      BY <2>2, <3>1
    <3>3. g[s \ {Pick(s)}] = Step(g, s \ {Pick(s)})
      BY <2>1, <3>2
    <3> QED BY <3>2, <3>3
  <2>3. \A s \in Dom(n + 1) : Step(g, s) = Step(h, s)
    BY <2>2
  <2> HIDE DEF Step, Dom
  <2>4. [s \in Dom(n + 1) |-> Step(g, s)] = [s \in Dom(n + 1) |-> Step(h, s)]
    BY <2>3
  <2>5. Upto(n + 1, h)
    BY <2>4
  <2>6. \E e : Upto(n + 1, e)
    BY <2>5
  <2> QED BY <2>6
<1> HIDE DEF P
<1>3. Cardinality(S) \in P /\ Cardinality(S) \in Nat
  BY <1>0, <1>1, <1>2, UpFromZero
<1>4. PICK g : Upto(Cardinality(S), g)
  BY <1>3 DEF P
<1>5. Dom(Cardinality(S)) = SUBSET S
  BY FS_Subset
<1>6. Adds(f, S, g)
  BY <1>4, <1>5 DEF Adds
<1> QED BY <1>6

\* Two solutions agree where both are defined.
LEMMA AddsAgree ==
  ASSUME NEW f, NEW S, NEW T \in SUBSET S, IsFiniteSet(T), NEW g, NEW h,
         Adds(f, S, g), Adds(f, T, h)
  PROVE  g[T] = h[T]
<1> DEFINE P == {U \in SUBSET T : g[U] = h[U]}
<1>1. ASSUME NEW U \in SUBSET T, \A V \in SUBSET U : V # U => V \in P PROVE U \in P
  <2>1. /\ g[U] = IF U = {} THEN 0 ELSE f[Pick(U)] + g[U \ {Pick(U)}]
        /\ h[U] = IF U = {} THEN 0 ELSE f[Pick(U)] + h[U \ {Pick(U)}]
    BY Zenon DEF Adds
  <2>2. CASE U = {}
    BY <2>1, <2>2
  <2>3. CASE U # {}
    <3>1. U \ {Pick(U)} \in P
      BY <1>1, <2>3, PickIn
    <3> QED BY <2>1, <2>3, <3>1
  <2> QED BY <2>2, <2>3
<1> HIDE DEF P
<1>2. T \in P
  BY <1>1, UpFromParts
<1> QED BY <1>2 DEF P

\* What SumOf computes.
LEMMA SumStep ==
  ASSUME NEW f, NEW S, IsFiniteSet(S)
  PROVE  SumOf(f, S) = IF S = {} THEN 0 ELSE f[Pick(S)] + SumOf(f, S \ {Pick(S)})
<1> DEFINE g == CHOOSE e : Adds(f, S, e)
           T == S \ {Pick(S)}
           h == CHOOSE e : Adds(f, T, e)
<1>1. IsFiniteSet(T) /\ T \in SUBSET S
  BY FS_RemoveElement
<1>2. Adds(f, S, g)
  BY AddsExists, Zenon
<1>3. Adds(f, T, h)
  BY <1>1, AddsExists, Zenon
<1>4. SumOf(f, S) = g[S] /\ SumOf(f, T) = h[T]
  BY SumUnfolded
<1> HIDE DEF g, h
<1>5. g[T] = h[T]
  BY <1>1, <1>2, <1>3, AddsAgree
<1>6. g[S] = IF S = {} THEN 0 ELSE f[Pick(S)] + g[T]
  BY <1>2, Zenon DEF Adds
<1> QED BY <1>4, <1>5, <1>6

LEMMA SumType ==
  ASSUME NEW f, NEW S, IsFiniteSet(S), \A x \in S : f[x] \in Nat
  PROVE  SumOf(f, S) \in Nat
<1> DEFINE P == {T \in SUBSET S : SumOf(f, T) \in Nat}
<1>1. ASSUME NEW T \in SUBSET S, \A U \in SUBSET T : U # T => U \in P PROVE T \in P
  <2>1. SumOf(f, T) = IF T = {} THEN 0 ELSE f[Pick(T)] + SumOf(f, T \ {Pick(T)})
    BY FS_Subset, SumStep
  <2>2. CASE T = {}
    BY <2>1, <2>2
  <2>3. CASE T # {}
    <3>1. Pick(T) \in T /\ T \ {Pick(T)} \in P
      BY <1>1, <2>3, PickIn
    <3> QED BY <2>1, <2>3, <3>1
  <2> QED BY <2>2, <2>3
<1> HIDE DEF P
<1>2. S \in P
  BY <1>1, UpFromParts
<1> QED BY <1>2 DEF P

LEMMA SumSame ==
  ASSUME NEW f, NEW g, NEW S, IsFiniteSet(S), \A x \in S : f[x] = g[x]
  PROVE  SumOf(f, S) = SumOf(g, S)
<1> DEFINE P == {T \in SUBSET S : SumOf(f, T) = SumOf(g, T)}
<1>1. ASSUME NEW T \in SUBSET S, \A U \in SUBSET T : U # T => U \in P PROVE T \in P
  <2>1. /\ SumOf(f, T) = IF T = {} THEN 0 ELSE f[Pick(T)] + SumOf(f, T \ {Pick(T)})
        /\ SumOf(g, T) = IF T = {} THEN 0 ELSE g[Pick(T)] + SumOf(g, T \ {Pick(T)})
    BY FS_Subset, SumStep
  <2>2. CASE T = {}
    BY <2>1, <2>2
  <2>3. CASE T # {}
    <3>1. Pick(T) \in T /\ T \ {Pick(T)} \in P
      BY <1>1, <2>3, PickIn
    <3> QED BY <2>1, <2>3, <3>1
  <2> QED BY <2>2, <2>3
<1> HIDE DEF P
<1>2. S \in P
  BY <1>1, UpFromParts
<1> QED BY <1>2 DEF P

\* A sum does not depend on the order: any member can be taken out.
LEMMA SumWithout ==
  ASSUME NEW f, NEW S, IsFiniteSet(S), \A y \in S : f[y] \in Nat, NEW x \in S
  PROVE  SumOf(f, S) = SumOf(f, S \ {x}) + f[x]
<1> DEFINE Good(T) == \A z \in T : SumOf(f, T) = SumOf(f, T \ {z}) + f[z]
           P == {T \in SUBSET S : Good(T)}
<1>0. ASSUME NEW T \in SUBSET S
      PROVE  /\ IsFiniteSet(T) /\ SumOf(f, T) \in Nat
             /\ T # {} => SumOf(f, T) = f[Pick(T)] + SumOf(f, T \ {Pick(T)})
  BY FS_Subset, SumType, SumStep
<1>1. ASSUME NEW T \in SUBSET S, \A U \in SUBSET T : U # T => U \in P PROVE T \in P
  <2>1. ASSUME NEW z \in T PROVE SumOf(f, T) = SumOf(f, T \ {z}) + f[z]
    <3> DEFINE y == Pick(T)
               U == T \ {y}
               V == T \ {z}
               W == T \ {y, z}
    <3>1. y \in T /\ U \in P /\ V \in P
      BY <1>1, <2>1, PickIn
    <3>2. /\ SumOf(f, T) = f[y] + SumOf(f, U) /\ SumOf(f, U) \in Nat
          /\ SumOf(f, V) \in Nat /\ SumOf(f, W) \in Nat /\ f[y] \in Nat /\ f[z] \in Nat
      BY <1>0, <2>1, <3>1
    <3>3. CASE y = z
      BY <3>2, <3>3
    <3>4. CASE y # z
      <4>1. z \in U /\ U \ {z} = W /\ y \in V /\ V \ {y} = W
        BY <3>1, <3>4
      <4>2. SumOf(f, U) = SumOf(f, W) + f[z]
        BY <3>1, <4>1
      <4>3. SumOf(f, V) = SumOf(f, W) + f[y]
        BY <3>1, <4>1
      <4> QED BY <3>2, <4>2, <4>3
    <3> QED BY <3>3, <3>4
  <2> QED BY <2>1
<1> HIDE DEF P
<1>2. S \in P
  BY <1>1, UpFromParts
<1> QED BY <1>2 DEF P

LEMMA SumEmpty == ASSUME NEW f PROVE SumOf(f, {}) = 0
  BY SumStep, FS_EmptySet

LEMMA SumWith ==
  ASSUME NEW f, NEW S, IsFiniteSet(S), NEW x, x \notin S,
         \A y \in S \cup {x} : f[y] \in Nat
  PROVE  SumOf(f, S \cup {x}) = SumOf(f, S) + f[x]
<1> DEFINE T == S \cup {x}
<1>1. IsFiniteSet(T) /\ x \in T /\ T \ {x} = S
  BY FS_AddElement
<1> HIDE DEF T
<1>2. SumOf(f, T) = SumOf(f, T \ {x}) + f[x]
  BY <1>1, SumWithout DEF T
<1> QED BY <1>1, <1>2 DEF T

\* A sum over a set is that over a part and that over the rest.
LEMMA SumSplit ==
  ASSUME NEW f, NEW S, IsFiniteSet(S), \A y \in S : f[y] \in Nat, NEW T \in SUBSET S
  PROVE  SumOf(f, S) = SumOf(f, S \ T) + SumOf(f, T)
<1> DEFINE Good(U) == SumOf(f, S) = SumOf(f, S \ U) + SumOf(f, U)
           P == {U \in SUBSET T : Good(U)}
<1>0. ASSUME NEW U \in SUBSET S
      PROVE  IsFiniteSet(U) /\ SumOf(f, U) \in Nat
  BY FS_Subset, SumType
<1>1. ASSUME NEW U \in SUBSET T, \A V \in SUBSET U : V # U => V \in P PROVE U \in P
  <2>1. CASE U = {}
    <3>1. SumOf(f, {}) = 0 /\ SumOf(f, S) \in Nat /\ S \ {} = S
      BY <1>0, SumEmpty
    <3> QED BY <2>1, <3>1
  <2>2. CASE U # {}
    <3> PICK x \in U : TRUE
      BY <2>2
    <3> DEFINE V == U \ {x}
               W == S \ V
    <3>1. V \in P /\ W \in SUBSET S /\ U \in SUBSET S /\ V \in SUBSET S
          /\ S \ U \in SUBSET S /\ W \ {x} = S \ U /\ x \in W
      BY <1>1
    <3>2. SumOf(f, U) = SumOf(f, V) + f[x]
      BY <1>0, <3>1, SumWithout
    <3>3. SumOf(f, W) = SumOf(f, W \ {x}) + f[x]
      <4>1. IsFiniteSet(W) /\ \A y \in W : f[y] \in Nat
        BY <1>0, <3>1
      <4> HIDE DEF W
      <4> QED BY <3>1, <4>1, SumWithout
    <3>4. SumOf(f, S) = SumOf(f, W) + SumOf(f, V)
      BY <3>1
    <3>5. /\ SumOf(f, V) \in Nat /\ SumOf(f, S \ U) \in Nat /\ f[x] \in Nat
          /\ SumOf(f, W) = SumOf(f, S \ U) + f[x]
      BY <1>0, <3>1, <3>3
    <3>6. Good(U)
      BY <3>2, <3>4, <3>5
    <3> QED BY <3>6
  <2> QED BY <2>1, <2>2
<1>2. IsFiniteSet(T)
  BY <1>0
<1> HIDE DEF P
<1>3. T \in P
  BY <1>1, <1>2, UpFromParts
<1> QED BY <1>3 DEF P

LEMMA SumMonotone ==
  ASSUME NEW f, NEW g, NEW S, IsFiniteSet(S),
         \A x \in S : f[x] \in Nat /\ g[x] \in Nat /\ f[x] <= g[x]
  PROVE  SumOf(f, S) <= SumOf(g, S)
<1> DEFINE Good(T) == SumOf(f, T) <= SumOf(g, T)
           P == {T \in SUBSET S : Good(T)}
<1>1. ASSUME NEW T \in SUBSET S, \A U \in SUBSET T : U # T => U \in P PROVE T \in P
  <2>1. IsFiniteSet(T)
    BY FS_Subset
  <2>2. CASE T = {}
    BY <2>2, SumEmpty
  <2>3. CASE T # {}
    <3> PICK x \in T : TRUE
      BY <2>3
    <3> DEFINE U == T \ {x}
    <3>1. Good(U) /\ IsFiniteSet(U) /\ U \subseteq S
      BY <1>1, <2>1, FS_RemoveElement
    <3>2. SumOf(f, T) = SumOf(f, U) + f[x] /\ SumOf(g, T) = SumOf(g, U) + g[x]
      BY <2>1, SumWithout
    <3>3. SumOf(f, U) \in Nat /\ SumOf(g, U) \in Nat
      BY <3>1, SumType
    <3>4. Good(T)
      BY <3>1, <3>2, <3>3
    <3> QED BY <3>4
  <2> QED BY <2>2, <2>3
<1> HIDE DEF P
<1>2. S \in P
  BY <1>1, UpFromParts
<1> QED BY <1>2 DEF P

LEMMA SumOnes ==
  ASSUME NEW f, NEW S, IsFiniteSet(S), \A x \in S : f[x] = 1
  PROVE  SumOf(f, S) = Cardinality(S)
<1> DEFINE P == {T \in SUBSET S : SumOf(f, T) = Cardinality(T)}
<1>1. ASSUME NEW T \in SUBSET S, \A U \in SUBSET T : U # T => U \in P PROVE T \in P
  <2>1. IsFiniteSet(T) /\ Cardinality(T) \in Nat
    BY FS_Subset, FS_CardinalityType
  <2>2. CASE T = {}
    BY <2>2, SumEmpty, FS_EmptySet
  <2>3. CASE T # {}
    <3> PICK x \in T : TRUE
      BY <2>3
    <3>1. T \ {x} \in P /\ f[x] = 1
      BY <1>1
    <3>2. SumOf(f, T) = SumOf(f, T \ {x}) + f[x]
      BY <2>1, SumWithout
    <3>3. Cardinality(T \ {x}) = Cardinality(T) - 1
      BY <2>1, FS_RemoveElement
    <3> QED BY <2>1, <3>1, <3>2, <3>3
  <2> QED BY <2>2, <2>3
<1> HIDE DEF P
<1>2. S \in P
  BY <1>1, UpFromParts
<1> QED BY <1>2 DEF P

\* A union is no larger than the sum of the bounds of its members.
LEMMA UnionWithin ==
  ASSUME NEW c, NEW A, NEW S, IsFiniteSet(S),
         \A x \in S : c[x] \in Nat /\ IsFiniteSet(A[x]) /\ Cardinality(A[x]) <= c[x]
  PROVE  /\ IsFiniteSet(UNION {A[x] : x \in S})
         /\ Cardinality(UNION {A[x] : x \in S}) <= SumOf(c, S)
<1> DEFINE U(T) == UNION {A[x] : x \in T}
           Good(T) == IsFiniteSet(U(T)) /\ Cardinality(U(T)) <= SumOf(c, T)
           P == {T \in SUBSET S : Good(T)}
<1>1. ASSUME NEW T \in SUBSET S, \A V \in SUBSET T : V # T => V \in P PROVE T \in P
  <2>1. IsFiniteSet(T)
    BY FS_Subset
  <2>2. CASE T = {}
    <3>1. U(T) = {}
      BY <2>2
    <3> QED BY <2>2, <3>1, SumEmpty, FS_EmptySet
  <2>3. CASE T # {}
    <3> PICK x \in T : TRUE
      BY <2>3
    <3> DEFINE V == T \ {x}
    <3>1. Good(V)
      BY <1>1
    <3>2. U(T) = U(V) \cup A[x]
      OBVIOUS
    <3>3. IsFiniteSet(A[x]) /\ Cardinality(A[x]) <= c[x] /\ c[x] \in Nat
      OBVIOUS
    <3>4. SumOf(c, T) = SumOf(c, V) + c[x] /\ SumOf(c, V) \in Nat
      <4>1. IsFiniteSet(V)
        BY <2>1, FS_RemoveElement
      <4> QED BY <2>1, <4>1, SumWithout, SumType
    <3> HIDE DEF U, V
    <3>5. /\ IsFiniteSet(U(T))
          /\ Cardinality(U(T)) = Cardinality(U(V)) + Cardinality(A[x]) - Cardinality(U(V) \cap A[x])
      BY <3>1, <3>2, <3>3, FS_Union
    <3>6. /\ Cardinality(U(V)) \in Nat /\ Cardinality(A[x]) \in Nat
          /\ Cardinality(U(V) \cap A[x]) \in Nat
      <4>1. IsFiniteSet(U(V) \cap A[x])
        BY <3>3, FS_Subset
      <4> QED BY <3>1, <3>3, <4>1, FS_CardinalityType
    <3>7. Good(T)
      BY <3>1, <3>3, <3>4, <3>5, <3>6
    <3> QED BY <3>7
  <2> QED BY <2>2, <2>3
<1> HIDE DEF P
<1>2. S \in P
  BY <1>1, UpFromParts
<1> QED BY <1>2 DEF P

-----------------------------------------------------------------------------
(* Statistics *)

LEMMA TotalOfFacts ==
  ASSUME NEW S \in SUBSET Txs
  PROVE  /\ IsFiniteSet(S)
         /\ TotalOf(S).count = Cardinality(S)
         /\ TotalOf(S).size = SumOf(Vsize, S)
         /\ TotalOf(S).fees = SumOf(Fee, S)
<1> DEFINE own == [t \in S |-> Own(t)]
<1>1. IsFiniteSet(S)
  BY TxAssumption, FS_Subset
<1>2. /\ TotalOf(S).count = SumOf([x \in S |-> own[x].count], S)
      /\ TotalOf(S).size = SumOf([x \in S |-> own[x].size], S)
      /\ TotalOf(S).fees = SumOf([x \in S |-> own[x].fees], S)
  BY DEF TotalOf, Total
<1>3. \A x \in S : /\ own[x].count = 1
                   /\ own[x].size = Vsize[x] /\ own[x].fees = Fee[x]
  BY DEF Own
<1> HIDE DEF own
<1>4. SumOf([x \in S |-> own[x].count], S) = Cardinality(S)
  BY <1>1, <1>3, SumOnes
<1>5. SumOf([x \in S |-> own[x].size], S) = SumOf(Vsize, S)
  BY <1>1, <1>3, SumSame
<1>6. SumOf([x \in S |-> own[x].fees], S) = SumOf(Fee, S)
  BY <1>1, <1>3, SumSame
<1> QED BY <1>1, <1>2, <1>4, <1>5, <1>6

-----------------------------------------------------------------------------
(* Index and links *)

\* The fields of a pool after remove_tx.
LEMMA RemoveFields ==
  ASSUME NEW m, NEW S
  PROVE  LET r == RemoveAll(m, S)
         IN /\ InPool(r) = InPool(m) \ S
            /\ DOMAIN r.spends = {o \in DOMAIN m.spends :
                                    \A t \in S \cap InPool(m) : o \notin Inputs[t]}
            /\ \A o \in DOMAIN r.spends : r.spends[o] = m.spends[o]
            /\ \A t \in InPool(m) \ S :
                  /\ r.entries[t].parents = m.entries[t].parents \ (S \cap InPool(m))
                  /\ r.entries[t].children = m.entries[t].children \ (S \cap InPool(m))
  BY DEF RemoveAll, InPool

\* The owner of an outpoint in spends is in the pool and spends it.
LEMMA SpenderInPool ==
  ASSUME NEW m, SpendsExactOf(m), NEW o \in DOMAIN m.spends
  PROVE  m.spends[o] \in InPool(m) /\ o \in Inputs[m.spends[o]]
<1>1. PICK t \in InPool(m) : o \in Inputs[t]
  BY DEF SpendsExactOf
<1>2. m.spends[o] = t
  BY <1>1 DEF SpendsExactOf
<1> QED BY <1>1, <1>2

\* remove_tx keeps the index exact and the links sound.
LEMMA RemoveSound ==
  ASSUME NEW m, PoolSound(m), NEW S
  PROVE  PoolSound(RemoveAll(m, S))
<1> DEFINE r == RemoveAll(m, S)
<1>1. /\ InPool(r) = InPool(m) \ S
      /\ DOMAIN r.spends = {o \in DOMAIN m.spends :
                              \A t \in S \cap InPool(m) : o \notin Inputs[t]}
      /\ \A o \in DOMAIN r.spends : r.spends[o] = m.spends[o]
      /\ \A t \in InPool(m) \ S :
            /\ r.entries[t].parents = m.entries[t].parents \ (S \cap InPool(m))
            /\ r.entries[t].children = m.entries[t].children \ (S \cap InPool(m))
  BY RemoveFields
<1> HIDE DEF r
<1>2. SpendsExactOf(m) /\ LinksSoundOf(m) /\ InPool(m) \subseteq Txs
  BY DEF PoolSound
<1>3. SpendsExactOf(r)
  <2>1. ASSUME NEW o \in DOMAIN r.spends
        PROVE  o \in UNION {Inputs[t] : t \in InPool(r)}
    <3>1. m.spends[o] \in InPool(m) /\ o \in Inputs[m.spends[o]]
      BY <1>1, <1>2, <2>1, SpenderInPool
    <3> QED BY <1>1, <2>1, <3>1
  <2>2. ASSUME NEW t \in InPool(r), NEW o \in Inputs[t]
        PROVE  o \in DOMAIN r.spends /\ r.spends[o] = t
    <3>1. o \in DOMAIN m.spends /\ m.spends[o] = t
      BY <1>1, <1>2, <2>2 DEF SpendsExactOf
    <3>2. \A u \in S \cap InPool(m) : o \notin Inputs[u]
      BY <1>1, <1>2, <2>2, <3>1 DEF SpendsExactOf
    <3> QED BY <1>1, <3>1, <3>2
  <2> QED BY <2>1, <2>2 DEF SpendsExactOf
<1>4. LinksSoundOf(r)
  BY <1>1, <1>2 DEF LinksSoundOf
<1>5. PoolSound(r)
  BY <1>1, <1>2, <1>3, <1>4 DEF PoolSound
<1> QED BY <1>5 DEF r

\* With its conflicts removed, no input of a transaction is spent in the pool.
LEMMA Uncontested ==
  ASSUME NEW m, SpendsExactOf(m), NEW t
  PROVE  Inputs[t] \cap DOMAIN RemoveAll(m, Conflicts(m, t)).spends = {}
<1> DEFINE r == RemoveAll(m, Conflicts(m, t))
<1> SUFFICES ASSUME NEW o \in Inputs[t], o \in DOMAIN r.spends PROVE FALSE
  OBVIOUS
<1>1. /\ o \in DOMAIN m.spends
      /\ \A u \in Conflicts(m, t) \cap InPool(m) : o \notin Inputs[u]
  BY RemoveFields
<1>2. m.spends[o] \in Conflicts(m, t)
  BY <1>1 DEF Conflicts, Contested
<1> QED BY <1>1, <1>2, SpenderInPool

\* Inserting a transaction none of whose inputs is spent.
LEMMA InsertSound ==
  ASSUME NEW m, PoolSound(m), NEW t \in Txs, t \notin InPool(m),
         Inputs[t] \cap DOMAIN m.spends = {}
  PROVE  PoolSound(Insert(m, t))
<1> DEFINE r == Insert(m, t)
           P == Parents(m, t)
<1>1. /\ InPool(r) = InPool(m) \cup {t}
      /\ DOMAIN r.spends = DOMAIN m.spends \cup Inputs[t]
      /\ \A o \in DOMAIN r.spends :
            r.spends[o] = IF o \in Inputs[t] THEN t ELSE m.spends[o]
      /\ r.entries[t].parents = P /\ r.entries[t].children = {}
      /\ \A u \in InPool(m) :
            /\ r.entries[u].parents = m.entries[u].parents
            /\ r.entries[u].children = IF u \in P THEN m.entries[u].children \cup {t}
                                       ELSE m.entries[u].children
  BY DEF Insert, InPool
<1>2. P \subseteq InPool(m) /\ \A p \in P : \E o \in Inputs[t] : o[1] = p
  BY DEF Parents
<1> HIDE DEF r, P
<1>3. SpendsExactOf(m) /\ LinksSoundOf(m) /\ InPool(m) \subseteq Txs
  BY DEF PoolSound
<1>4. SpendsExactOf(r)
  <2>1. ASSUME NEW o \in DOMAIN r.spends
        PROVE  o \in UNION {Inputs[u] : u \in InPool(r)}
    BY <1>1, <1>3, <2>1 DEF SpendsExactOf
  <2>2. ASSUME NEW u \in InPool(r), NEW o \in Inputs[u]
        PROVE  o \in DOMAIN r.spends /\ r.spends[o] = u
    <3>1. CASE u = t
      BY <1>1, <2>2, <3>1
    <3>2. CASE u \in InPool(m)
      <4>1. o \in DOMAIN m.spends /\ m.spends[o] = u
        BY <1>3, <2>2, <3>2 DEF SpendsExactOf
      <4> QED BY <1>1, <4>1
    <3> QED BY <1>1, <2>2, <3>1, <3>2
  <2> QED BY <2>1, <2>2 DEF SpendsExactOf
<1>5. LinksSoundOf(r)
  <2>1. ASSUME NEW u \in InPool(r), NEW p \in r.entries[u].parents
        PROVE  /\ p \in InPool(r) /\ u \in r.entries[p].children
               /\ \E o \in Inputs[u] : o[1] = p
    <3>1. CASE u = t
      BY <1>1, <1>2, <2>1, <3>1
    <3>2. CASE u \in InPool(m)
      <4>1. p \in m.entries[u].parents
        BY <1>1, <2>1, <3>2
      <4>2. /\ p \in InPool(m) /\ u \in m.entries[p].children
            /\ \E o \in Inputs[u] : o[1] = p
        BY <1>3, <3>2, <4>1 DEF LinksSoundOf
      <4>3. p \in InPool(r) /\ u \in r.entries[p].children
        BY <1>1, <4>2
      <4> QED BY <4>2, <4>3
    <3> QED BY <1>1, <2>1, <3>1, <3>2
  <2>2. ASSUME NEW u \in InPool(r), NEW c \in r.entries[u].children
        PROVE  c \in InPool(r) /\ u \in r.entries[c].parents
    <3>1. u \in InPool(m)
      BY <1>1, <2>2
    <3>2. CASE c \in m.entries[u].children
      BY <1>1, <1>3, <3>1, <3>2 DEF LinksSoundOf
    <3>3. CASE c = t /\ u \in P
      BY <1>1, <3>3
    <3> QED BY <1>1, <2>2, <3>1, <3>2, <3>3
  <2> QED BY <2>1, <2>2 DEF LinksSoundOf
<1>6. PoolSound(r)
  BY <1>1, <1>3, <1>4, <1>5 DEF PoolSound
<1> QED BY <1>6 DEF r

\* An empty pool is sound.
LEMMA NewSound == PoolSound(NewMempool)
<1>1. InPool(NewMempool) = {} /\ DOMAIN NewMempool.spends = {}
  BY DEF NewMempool, InPool
<1> QED BY <1>1 DEF PoolSound, SpendsExactOf, LinksSoundOf

\* The invariant of the pool: the index is exact and the links are sound
\* whatever is added, replaced, evicted, expired or removed, in any order.
THEOREM MempoolCorrect == MPSpec => []PoolSound(pool)
<1>1. MPInit => PoolSound(pool)
  BY NewSound DEF MPInit
<1>2. PoolSound(pool) /\ [MPNext]_pool => PoolSound(pool)'
  <2> SUFFICES ASSUME PoolSound(pool), [MPNext]_pool PROVE PoolSound(pool')
    OBVIOUS
  <2>1. ASSUME NEW t \in Txs, AddTx(t) PROVE PoolSound(pool')
    <3> DEFINE m == RemoveAll(pool, Conflicts(pool, t))
    <3>1. PoolSound(m) /\ t \notin InPool(m)
      BY <2>1, RemoveSound, RemoveFields DEF AddTx, Admissible
    <3>2. Inputs[t] \cap DOMAIN m.spends = {}
      BY Uncontested DEF PoolSound
    <3>3. PoolSound(Insert(m, t))
      BY <3>1, <3>2, InsertSound
    <3>4. PICK V : pool' = RemoveAll(Insert(m, t), V)
      BY <2>1 DEF AddTx
    <3> QED BY <3>3, <3>4, RemoveSound
  <2>2. ASSUME NEW t \in Txs, AddTxFails(t) PROVE PoolSound(pool')
    BY <2>2, RemoveSound DEF AddTxFails
  <2>3. ASSUME NEW t \in Txs, RemoveTx(t) PROVE PoolSound(pool')
    BY <2>3, RemoveSound DEF RemoveTx
  <2>4. CASE UpdateHeight
    BY <2>4, RemoveSound DEF UpdateHeight
  <2>5. CASE Clear
    BY <2>5, NewSound DEF Clear
  <2>6. CASE pool' = pool
    BY <2>6
  <2> QED BY <2>1, <2>2, <2>3, <2>4, <2>5, <2>6 DEF MPNext
<1> QED BY <1>1, <1>2, PTL DEF MPSpec

\* spends is exactly the index of the inputs of the entries, so find_conflicts
\* sees every double spend and the pool holds none.
THEOREM SpendsAlwaysExact == MPSpec => []SpendsExact
<1>1. PoolSound(pool) => SpendsExact
  BY DEF PoolSound, SpendsExact
<1> QED BY <1>1, MempoolCorrect, PTL

\* The parent and child sets of the entries mirror each other and never lead
\* out of the pool.
THEOREM LinksAlwaysSound == MPSpec => []LinksSound
<1>1. PoolSound(pool) => LinksSound
  BY DEF PoolSound, LinksSound
<1> QED BY <1>1, MempoolCorrect, PTL

-----------------------------------------------------------------------------
(* Totals *)

\* The totals are those of the entries.
TotalsExactOf(m) == /\ m.size = SumOf(Vsize, InPool(m))
                    /\ m.fees = SumOf(Fee, InPool(m))

TotalsInv == PoolSound(pool) /\ TotalsExactOf(pool) /\ pool.size <= max_size

LEMMA TxSums ==
  ASSUME NEW S \in SUBSET Txs
  PROVE  /\ IsFiniteSet(S) /\ SumOf(Vsize, S) \in Nat /\ SumOf(Fee, S) \in Nat
         /\ \A x \in S : Vsize[x] \in Nat /\ Fee[x] \in Nat
<1>1. IsFiniteSet(S) /\ \A x \in S : Vsize[x] \in Nat /\ Fee[x] \in Nat
  BY TxAssumption, FS_Subset
<1> QED BY <1>1, SumType

\* remove_tx subtracts what it removes, and nothing goes below zero.
LEMMA RemoveTotals ==
  ASSUME NEW m, PoolSound(m), TotalsExactOf(m), NEW S
  PROVE  /\ TotalsExactOf(RemoveAll(m, S))
         /\ RemoveAll(m, S).size <= m.size
         /\ RemoveAll(m, S).size = m.size - TotalOf(S \cap InPool(m)).size
<1> DEFINE r == RemoveAll(m, S)
           out == S \cap InPool(m)
           all == InPool(m)
<1>1. InPool(r) = all \ out /\ out \in SUBSET all /\ all \in SUBSET Txs /\ out \in SUBSET Txs
  BY RemoveFields DEF PoolSound
<1>2. r.size = m.size - TotalOf(out).size /\ r.fees = m.fees - TotalOf(out).fees
  BY DEF RemoveAll
<1>3. m.size = SumOf(Vsize, all) /\ m.fees = SumOf(Fee, all)
  BY DEF TotalsExactOf
<1> HIDE DEF r, out, all
<1>4. /\ IsFiniteSet(all) /\ SumOf(Vsize, all) \in Nat /\ SumOf(Fee, all) \in Nat
      /\ \A x \in all : Vsize[x] \in Nat /\ Fee[x] \in Nat
      /\ SumOf(Vsize, out) \in Nat /\ SumOf(Fee, out) \in Nat
      /\ SumOf(Vsize, all \ out) \in Nat /\ SumOf(Fee, all \ out) \in Nat
  BY <1>1, TxSums
<1>5. TotalOf(out).size = SumOf(Vsize, out) /\ TotalOf(out).fees = SumOf(Fee, out)
  BY <1>1, TotalOfFacts
<1>6. SumOf(Vsize, all) = SumOf(Vsize, all \ out) + SumOf(Vsize, out)
  BY <1>1, <1>4, SumSplit
<1>7. SumOf(Fee, all) = SumOf(Fee, all \ out) + SumOf(Fee, out)
  BY <1>1, <1>4, SumSplit
<1>8. r.size = SumOf(Vsize, all \ out) /\ r.fees = SumOf(Fee, all \ out) /\ r.size <= m.size
  BY <1>2, <1>3, <1>4, <1>5, <1>6, <1>7
<1> QED BY <1>1, <1>2, <1>8 DEF TotalsExactOf, r, out

\* The insertion at the end of add_tx adds what it inserts.
LEMMA InsertTotals ==
  ASSUME NEW m, PoolSound(m), TotalsExactOf(m), NEW t \in Txs, t \notin InPool(m)
  PROVE  TotalsExactOf(Insert(m, t))
<1> DEFINE all == InPool(m)
<1>1. /\ InPool(Insert(m, t)) = all \cup {t}
      /\ Insert(m, t).size = m.size + Vsize[t] /\ Insert(m, t).fees = m.fees + Fee[t]
  BY DEF Insert, InPool
<1>2. all \in SUBSET Txs /\ all \cup {t} \in SUBSET Txs
  BY DEF PoolSound
<1>3. IsFiniteSet(all) /\ \A x \in all \cup {t} : Vsize[x] \in Nat /\ Fee[x] \in Nat
  BY <1>2, TxSums
<1> HIDE DEF all
<1>4. t \notin all /\ m.size = SumOf(Vsize, all) /\ m.fees = SumOf(Fee, all)
  BY DEF all, TotalsExactOf
<1>5. /\ SumOf(Vsize, all \cup {t}) = SumOf(Vsize, all) + Vsize[t]
      /\ SumOf(Fee, all \cup {t}) = SumOf(Fee, all) + Fee[t]
  BY <1>3, <1>4, SumWith
<1> QED BY <1>1, <1>4, <1>5 DEF TotalsExactOf

LEMMA NewTotals == TotalsExactOf(NewMempool) /\ NewMempool.size <= max_size
<1>1. InPool(NewMempool) = {} /\ NewMempool.size = 0 /\ NewMempool.fees = 0
  BY DEF NewMempool, InPool
<1> QED BY <1>1, SumEmpty, PolicyAssumption DEF TotalsExactOf

\* total_size and total_fees, which getmempoolinfo reports, are the sums over
\* the entries after every call, and maybe_evict brings the size within the
\* limit whatever add_tx inserted and removed before it.
THEOREM TotalsAlwaysExact == MPSpec => []TotalsExact
<1>1. MPInit => TotalsInv
  BY NewSound, NewTotals DEF MPInit, TotalsInv
<1>2. TotalsInv /\ PoolSound(pool)' /\ [MPNext]_pool => TotalsInv'
  <2> SUFFICES ASSUME TotalsInv, PoolSound(pool'), [MPNext]_pool PROVE TotalsInv'
    OBVIOUS
  <2> DEFINE Fits(m) == TotalsExactOf(m) /\ m.size <= max_size
  <2>0. PoolSound(pool) /\ TotalsExactOf(pool) /\ pool.size <= max_size
        /\ pool.size \in Nat /\ max_size \in Nat
    BY TxSums, PolicyAssumption DEF TotalsInv, TotalsExactOf, PoolSound
  <2>1. ASSUME NEW S PROVE Fits(RemoveAll(pool, S))
    <3> DEFINE r == RemoveAll(pool, S)
    <3>1. TotalsExactOf(r) /\ r.size <= pool.size /\ PoolSound(r)
      BY <2>0, RemoveTotals, RemoveSound
    <3>2. r.size \in Nat
      BY <3>1, TxSums DEF TotalsExactOf, PoolSound
    <3> HIDE DEF r
    <3>3. Fits(r)
      BY <2>0, <3>1, <3>2
    <3> QED BY <3>3 DEF r
  <2>2. ASSUME NEW t \in Txs, AddTx(t) PROVE Fits(pool')
    <3> DEFINE m == RemoveAll(pool, Conflicts(pool, t))
               n == Insert(m, t)
    <3>1. PoolSound(m) /\ t \notin InPool(m) /\ TotalsExactOf(m)
      BY <2>0, <2>1, <2>2, RemoveSound, RemoveFields DEF AddTx, Admissible
    <3>2. PoolSound(n)
      BY <2>0, <3>1, InsertSound, Uncontested DEF PoolSound
    <3>3. TotalsExactOf(n)
      BY <3>1, InsertTotals
    <3> PICK V \in Victims(n) : pool' = RemoveAll(n, V)
      BY <2>2 DEF AddTx
    <3> HIDE DEF n
    <3>4. n.size - TotalOf(V).size <= max_size /\ V \cap InPool(n) = V
      BY DEF Victims
    <3> QED BY <3>2, <3>3, <3>4, RemoveTotals
  <2>3. ASSUME NEW t \in Txs, AddTxFails(t) \/ RemoveTx(t) PROVE Fits(pool')
    BY <2>1, <2>3 DEF AddTxFails, RemoveTx
  <2>4. ASSUME UpdateHeight PROVE Fits(pool')
    BY <2>1, <2>4 DEF UpdateHeight
  <2>5. ASSUME Clear PROVE Fits(pool')
    BY <2>5, NewTotals DEF Clear
  <2>6. ASSUME pool' = pool PROVE Fits(pool')
    BY <2>0, <2>6
  <2>7. Fits(pool')
    BY <2>2, <2>3, <2>4, <2>5, <2>6, Zenon DEF MPNext
  <2> QED BY <2>7 DEF TotalsInv
<1>3. TotalsInv => TotalsExact
  BY TotalOfFacts DEF TotalsInv, TotalsExactOf, TotalsExact, PoolSound
<1> QED BY <1>1, <1>2, <1>3, MempoolCorrect, PTL DEF MPSpec

-----------------------------------------------------------------------------
(* Ancestors *)

\* A contains t and, with an entry, its parents.
ClosedFrom(m, t, A) ==
    t \in A /\ \A u \in A : u \in InPool(m) /\ m.entries[u].parents \subseteq A

\* Every entry has a set closed under parents that its ancestor count covers.
\* (The set of its ancestors is one; the invariant does not need the least.)
AncestorsCounted(m) ==
    \A t \in InPool(m) :
        /\ m.entries[t].anc \in Stats
        /\ m.entries[t].anc.count <= max_ancestors
        /\ \E A \in SUBSET Txs :
              ClosedFrom(m, t, A) /\ Cardinality(A) <= m.entries[t].anc.count

\* The recursive function that Ancestors evaluates, up to n.
Climbs(m, t, n, g) ==
    g = [k \in 0..n |-> IF k = 0 THEN {t}
                        ELSE g[k-1] \cup UNION {m.entries[u].parents : u \in g[k-1]}]

LEMMA AncestorsUnfolded ==
  ASSUME NEW m, NEW t
  PROVE  Ancestors(m, t) = (CHOOSE g : Climbs(m, t, Cardinality(Txs), g))[Cardinality(Txs)]
  BY DEF Ancestors, Climbs

LEMMA ClimbsExists ==
  ASSUME NEW m, NEW t, NEW N \in Nat PROVE \E g : Climbs(m, t, N, g)
<1> DEFINE P == {n \in Nat : \E g : Climbs(m, t, n, g)}
           More(S) == S \cup UNION {m.entries[u].parents : u \in S}
<1>1. 0 \in P
  <2>1. Climbs(m, t, 0, [k \in 0..0 |-> {t}])
    BY DEF Climbs
  <2> QED BY <2>1
<1>2. ASSUME NEW n \in Nat, n \in P PROVE n + 1 \in P
  <2>1. PICK g : Climbs(m, t, n, g)
    BY <1>2
  <2> DEFINE h == [k \in 0..(n+1) |-> IF k = 0 THEN {t} ELSE More(g[k-1])]
  <2>2. ASSUME NEW k \in 0..(n+1), k # 0 PROVE h[k-1] = g[k-1]
    <3>1. k - 1 \in 0..n /\ k - 1 \in 0..(n+1)
      BY <2>2
    <3>2. g[k-1] = IF k - 1 = 0 THEN {t} ELSE More(g[(k-1)-1])
      BY <2>1, <3>1, Zenon DEF Climbs
    <3> QED BY <3>1, <3>2
  <2> HIDE DEF More
  <2>3. [k \in 0..(n+1) |-> IF k = 0 THEN {t} ELSE More(g[k-1])]
          = [k \in 0..(n+1) |-> IF k = 0 THEN {t} ELSE More(h[k-1])]
    BY <2>2
  <2> DEFINE e == h
  <2>4. e = [k \in 0..(n+1) |-> IF k = 0 THEN {t} ELSE More(e[k-1])]
    BY <2>3
  <2> HIDE DEF e
  <2>5. Climbs(m, t, n + 1, e)
    BY <2>4 DEF Climbs, More
  <2> QED BY <2>5
<1> HIDE DEF P
<1>3. N \in P
  BY <1>1, <1>2, UpFromZero
<1> QED BY <1>3 DEF P

\* Every closed set holds all ancestors.
LEMMA AncestorsWithin ==
  ASSUME NEW m, NEW t, NEW A, ClosedFrom(m, t, A) PROVE Ancestors(m, t) \subseteq A
<1> DEFINE N == Cardinality(Txs)
           g == CHOOSE e : Climbs(m, t, N, e)
           P == {n \in Nat : n \in 0..N => g[n] \subseteq A}
<1>0. N \in Nat
  BY TxAssumption, FS_CardinalityType
<1>1. Climbs(m, t, N, g)
  BY <1>0, ClimbsExists, Zenon
<1> HIDE DEF g
<1>2. 0 \in P
  <2>1. g[0] = {t}
    BY <1>0, <1>1 DEF Climbs
  <2> QED BY <2>1 DEF ClosedFrom
<1>3. ASSUME NEW n \in Nat, n \in P PROVE n + 1 \in P
  <2> SUFFICES ASSUME n + 1 \in 0..N PROVE g[n+1] \subseteq A
    OBVIOUS
  <2>1. n \in 0..N /\ n + 1 # 0 /\ (n + 1) - 1 = n
    BY <1>0
  <2>2. g[n+1] = g[n] \cup UNION {m.entries[u].parents : u \in g[n]}
    BY <1>1, <2>1 DEF Climbs
  <2>3. g[n] \subseteq A
    BY <1>3, <2>1
  <2> QED BY <2>2, <2>3 DEF ClosedFrom
<1> HIDE DEF P
<1>4. N \in P
  BY <1>0, <1>2, <1>3, UpFromZero
<1>5. g[N] \subseteq A
  BY <1>0, <1>4 DEF P
<1> QED BY <1>5, AncestorsUnfolded DEF g

\* remove_tx lowers the count of a child by one for each parent it loses, and
\* each of them leaves the child's ancestors.
LEMMA RemoveCounted ==
  ASSUME NEW m, PoolSound(m), AncestorsCounted(m), NEW S
  PROVE  AncestorsCounted(RemoveAll(m, S))
<1> DEFINE r == RemoveAll(m, S)
           out == S \cap InPool(m)
<1> SUFFICES ASSUME NEW t \in InPool(r)
             PROVE  /\ r.entries[t].anc \in Stats
                    /\ r.entries[t].anc.count <= max_ancestors
                    /\ \E B \in SUBSET Txs :
                          ClosedFrom(r, t, B) /\ Cardinality(B) <= r.entries[t].anc.count
  BY DEF AncestorsCounted
<1>1. InPool(r) = InPool(m) \ out /\ t \in InPool(m) /\ t \notin out
  BY RemoveFields
<1> DEFINE lost == m.entries[t].parents \cap out
           old == m.entries[t].anc
           new == r.entries[t].anc
<1>2. new = Less(old, TotalOf(lost))
  BY <1>1 DEF RemoveAll, InPool
<1>3. \A u \in InPool(r) : r.entries[u].parents = m.entries[u].parents \ out
  BY <1>1, RemoveFields
<1>4. old \in Stats /\ old.count <= max_ancestors
  BY <1>1 DEF AncestorsCounted
<1>5. PICK A \in SUBSET Txs : ClosedFrom(m, t, A) /\ Cardinality(A) <= old.count
  BY <1>1 DEF AncestorsCounted
<1>6. lost \subseteq A \cap out /\ lost \in SUBSET Txs
  BY <1>1, <1>5 DEF ClosedFrom
<1> HIDE DEF r, out, lost, old, new
<1>7. /\ IsFiniteSet(A) /\ Cardinality(A) \in Nat
      /\ IsFiniteSet(lost) /\ Cardinality(lost) \in Nat
      /\ IsFiniteSet(A \ out) /\ Cardinality(A \ out) \in Nat
  BY <1>5, <1>6, TxAssumption, FS_Subset, FS_CardinalityType
<1>8. Cardinality(A \ out) <= Cardinality(A) - Cardinality(lost)
  <2>1. A \ out \in SUBSET (A \ lost)
    BY <1>6
  <2>2. IsFiniteSet(A \ lost) /\ Cardinality(A \ lost) = Cardinality(A) - Cardinality(A \cap lost)
    BY <1>7, FS_Difference
  <2>3. A \cap lost = lost
    BY <1>6
  <2>4. Cardinality(A \ out) <= Cardinality(A \ lost)
    BY <2>1, <2>2, FS_Subset
  <2> QED BY <2>2, <2>3, <2>4
<1>9. /\ TotalOf(lost).count = Cardinality(lost) /\ TotalOf(lost).size \in Nat
      /\ TotalOf(lost).fees \in Nat
  BY <1>6, TotalOfFacts, TxSums
<1>10. /\ new \in Stats
       /\ new.count = IF Cardinality(lost) > old.count THEN 0 ELSE old.count - Cardinality(lost)
  <2>1. /\ DOMAIN old = {"count", "size", "fees"}
        /\ old.count \in Nat /\ old.size \in Nat /\ old.fees \in Nat
    BY <1>4 DEF Stats
  <2> DEFINE f(k) == IF TotalOf(lost)[k] > old[k] THEN 0 ELSE old[k] - TotalOf(lost)[k]
  <2>2. f("count") \in Nat /\ f("size") \in Nat /\ f("fees") \in Nat
    BY <1>7, <1>9, <2>1
  <2>3. new = [k \in {"count", "size", "fees"} |-> f(k)]
    BY <1>2, <2>1 DEF Less
  <2>4. f("count") = IF Cardinality(lost) > old.count THEN 0 ELSE old.count - Cardinality(lost)
    BY <1>9
  <2> HIDE DEF f
  <2>5. new.count = f("count") /\ new \in Stats
    BY <2>2, <2>3 DEF Stats
  <2> QED BY <2>4, <2>5
<1>11. ClosedFrom(r, t, A \ out)
  BY <1>1, <1>3, <1>5 DEF ClosedFrom
<1>12. old.count \in Nat /\ new.count \in Nat
  BY <1>4, <1>10 DEF Stats
<1>13. Cardinality(A \ out) <= new.count /\ new.count <= max_ancestors
  BY <1>4, <1>5, <1>7, <1>8, <1>10, <1>12, PolicyAssumption
<1>14. A \ out \in SUBSET Txs
  OBVIOUS
<1> QED BY <1>10, <1>11, <1>13, <1>14 DEF new

\* What calculate_ancestors returns.
LEMMA AncestorStatsFacts ==
  ASSUME NEW m, PoolSound(m), AncestorsCounted(m), NEW t \in Txs
  PROVE  LET P == Parents(m, t)
             a == AncestorStats(m, t)
         IN /\ IsFiniteSet(P) /\ P \subseteq InPool(m)
            /\ a \in Stats
            /\ a.count = 1 + SumOf([x \in P |-> m.entries[x].anc.count], P)
<1> DEFINE P == Parents(m, t)
           anc == [q \in P |-> m.entries[q].anc]
           T == Total(anc, P)
           a == AncestorStats(m, t)
<1>1. IsFiniteSet(P) /\ P \subseteq InPool(m)
  BY TxAssumption, FS_Subset DEF Parents, PoolSound
<1>2. \A x \in P : /\ anc[x] = m.entries[x].anc /\ anc[x].count \in Nat
                   /\ anc[x].size \in Nat /\ anc[x].fees \in Nat
  BY <1>1 DEF AncestorsCounted, Stats
<1>3. a = Plus(Own(t), T)
  BY DEF AncestorStats
<1>4. /\ T.count = SumOf([x \in P |-> anc[x].count], P)
      /\ T.size = SumOf([x \in P |-> anc[x].size], P)
      /\ T.fees = SumOf([x \in P |-> anc[x].fees], P)
  BY DEF Total
<1>5. [x \in P |-> anc[x].count] = [x \in P |-> m.entries[x].anc.count]
  OBVIOUS
<1> HIDE DEF P, anc, T, a
<1>6. T.count \in Nat /\ T.size \in Nat /\ T.fees \in Nat
  BY <1>1, <1>2, <1>4, SumType
<1>7. Vsize[t] \in Nat /\ Fee[t] \in Nat
  BY TxAssumption
<1> DEFINE f(k) == Own(t)[k] + T[k]
<1>8. f("count") = 1 + T.count /\ f("count") \in Nat /\ f("size") \in Nat /\ f("fees") \in Nat
  BY <1>6, <1>7 DEF Own
<1>9. a = [k \in {"count", "size", "fees"} |-> f(k)]
  BY <1>3 DEF Plus, Own
<1> HIDE DEF f
<1>10. a \in Stats /\ a.count = f("count")
  BY <1>8, <1>9 DEF Stats
<1> QED BY <1>1, <1>4, <1>5, <1>8, <1>10 DEF P, a

\* A transaction within the limits: its count is one more than the sum of its
\* parents' counts, and the union of their closed sets is closed.
LEMMA InsertCounted ==
  ASSUME NEW m, PoolSound(m), AncestorsCounted(m), NEW t \in Txs, t \notin InPool(m),
         WithinLimits(m, t)
  PROVE  AncestorsCounted(Insert(m, t))
<1> DEFINE r == Insert(m, t)
           P == Parents(m, t)
           a == AncestorStats(m, t)
           c == [x \in P |-> m.entries[x].anc.count]
<1>1. /\ InPool(r) = InPool(m) \cup {t}
      /\ r.entries[t].parents = P /\ r.entries[t].anc = a
      /\ \A u \in InPool(m) : /\ r.entries[u].parents = m.entries[u].parents
                              /\ r.entries[u].anc = m.entries[u].anc
  BY DEF Insert, InPool
<1>2. /\ IsFiniteSet(P) /\ P \subseteq InPool(m) /\ a \in Stats
      /\ a.count = 1 + SumOf(c, P)
  BY AncestorStatsFacts
<1>3. a.count <= max_ancestors
  BY DEF WithinLimits
<1> HIDE DEF r, P, a, c
<1>4. ASSUME NEW u \in InPool(m), NEW A \in SUBSET Txs, ClosedFrom(m, u, A)
      PROVE  ClosedFrom(r, u, A)
  BY <1>1, <1>4 DEF ClosedFrom
<1> DEFINE Covers(u, A) == ClosedFrom(m, u, A) /\ Cardinality(A) <= m.entries[u].anc.count
           up == [x \in P |-> CHOOSE A \in SUBSET Txs : Covers(x, A)]
           all == UNION {up[x] : x \in P}
<1>5. ASSUME NEW x \in P PROVE up[x] \in SUBSET Txs /\ Covers(x, up[x])
  <2>1. \E A \in SUBSET Txs : Covers(x, A)
    BY <1>2 DEF AncestorsCounted
  <2> QED BY <2>1
<1>6. ASSUME NEW x \in P
      PROVE c[x] \in Nat /\ IsFiniteSet(up[x]) /\ Cardinality(up[x]) <= c[x]
  <2>1. c[x] = m.entries[x].anc.count /\ m.entries[x].anc \in Stats
    BY <1>2 DEF c, AncestorsCounted
  <2>2. IsFiniteSet(up[x])
    BY <1>5, TxAssumption, FS_Subset
  <2> QED BY <1>5, <2>1, <2>2 DEF Stats
<1>7. \A x \in P : ClosedFrom(m, x, up[x]) /\ up[x] \in SUBSET Txs
  BY <1>5
<1> HIDE DEF up
<1>8. IsFiniteSet(all) /\ Cardinality(all) <= SumOf(c, P) /\ SumOf(c, P) \in Nat
  BY <1>2, <1>6, UnionWithin, SumType
<1>9. all \cup {t} \in SUBSET Txs /\ ClosedFrom(r, t, all \cup {t})
  <2>1. \A u \in all : u \in InPool(m) /\ m.entries[u].parents \subseteq all
    BY <1>7 DEF ClosedFrom
  <2>2. P \subseteq all
    BY <1>7 DEF ClosedFrom
  <2>3. all \in SUBSET Txs
    BY <1>7
  <2> HIDE DEF all
  <2> QED BY <1>1, <2>1, <2>2, <2>3 DEF ClosedFrom
<1> HIDE DEF all
<1>10. Cardinality(all \cup {t}) <= a.count
  <2>1. Cardinality(all) \in Nat
    BY <1>8, FS_CardinalityType
  <2>2. Cardinality(all \cup {t}) = IF t \in all THEN Cardinality(all)
                                                 ELSE Cardinality(all) + 1
    BY <1>8, FS_AddElement
  <2> QED BY <1>2, <1>8, <2>1, <2>2
<1>11. ASSUME NEW u \in InPool(r)
       PROVE  /\ r.entries[u].anc \in Stats
              /\ r.entries[u].anc.count <= max_ancestors
              /\ \E A \in SUBSET Txs :
                    ClosedFrom(r, u, A) /\ Cardinality(A) <= r.entries[u].anc.count
  <2>1. CASE u = t
    BY <1>1, <1>2, <1>3, <1>9, <1>10, <2>1
  <2>2. CASE u \in InPool(m)
    <3>1. /\ m.entries[u].anc \in Stats /\ m.entries[u].anc.count <= max_ancestors
          /\ \E A \in SUBSET Txs :
                ClosedFrom(m, u, A) /\ Cardinality(A) <= m.entries[u].anc.count
      BY <2>2 DEF AncestorsCounted
    <3> QED BY <1>1, <1>4, <2>2, <3>1
  <2> QED BY <1>1, <2>1, <2>2
<1> QED BY <1>11 DEF AncestorsCounted, r

LEMMA CountedLimits == AncestorsCounted(pool) => LinkedAncestorLimit
<1> SUFFICES ASSUME AncestorsCounted(pool), NEW t \in InPool(pool)
             PROVE  /\ Cardinality(Ancestors(pool, t)) <= pool.entries[t].anc.count
                    /\ Cardinality(Ancestors(pool, t)) <= max_ancestors
  BY DEF LinkedAncestorLimit
<1> DEFINE k == pool.entries[t].anc.count
<1>1. k \in Nat /\ k <= max_ancestors
  <2>1. pool.entries[t].anc \in Stats /\ k <= max_ancestors
    BY DEF AncestorsCounted
  <2> QED BY <2>1 DEF Stats
<1>2. PICK A \in SUBSET Txs : ClosedFrom(pool, t, A) /\ Cardinality(A) <= k
  BY DEF AncestorsCounted
<1>3. IsFiniteSet(A) /\ Ancestors(pool, t) \in SUBSET A
  BY <1>2, AncestorsWithin, TxAssumption, FS_Subset
<1>4. /\ Cardinality(Ancestors(pool, t)) <= Cardinality(A)
      /\ Cardinality(Ancestors(pool, t)) \in Nat /\ Cardinality(A) \in Nat
  BY <1>3, FS_Subset, FS_CardinalityType
<1> QED BY <1>1, <1>2, <1>4, PolicyAssumption

\* Although removals correct the counts of direct children only (remove_tx), a
\* stored count is never below the number of ancestors along the links, which
\* is therefore within max_ancestors.  Nothing is said of ancestors that came
\* into the pool after their descendants and are not linked to them.
THEOREM LinkedAncestorsLimited == MPSpec => []LinkedAncestorLimit
<1>1. MPInit => AncestorsCounted(pool)
  BY DEF MPInit, NewMempool, AncestorsCounted, InPool
<1>2. PoolSound(pool) /\ AncestorsCounted(pool) /\ [MPNext]_pool => AncestorsCounted(pool)'
  <2> SUFFICES ASSUME PoolSound(pool), AncestorsCounted(pool), [MPNext]_pool
               PROVE  AncestorsCounted(pool')
    OBVIOUS
  <2>1. ASSUME NEW t \in Txs, AddTx(t) PROVE AncestorsCounted(pool')
    <3> DEFINE m == RemoveAll(pool, Conflicts(pool, t))
               n == Insert(m, t)
    <3>1. PoolSound(m) /\ t \notin InPool(m) /\ AncestorsCounted(m)
      BY <2>1, RemoveSound, RemoveCounted, RemoveFields DEF AddTx, Admissible
    <3>2. WithinLimits(m, t)
      BY <2>1 DEF AddTx
    <3>3. PoolSound(n)
      BY <3>1, InsertSound, Uncontested DEF PoolSound
    <3>4. AncestorsCounted(n)
      BY <3>1, <3>2, InsertCounted
    <3> PICK V : pool' = RemoveAll(n, V)
      BY <2>1 DEF AddTx
    <3> HIDE DEF n
    <3> QED BY <3>3, <3>4, RemoveCounted
  <2>2. ASSUME NEW t \in Txs, AddTxFails(t) \/ RemoveTx(t) PROVE AncestorsCounted(pool')
    BY <2>2, RemoveCounted DEF AddTxFails, RemoveTx
  <2>3. ASSUME UpdateHeight PROVE AncestorsCounted(pool')
    BY <2>3, RemoveCounted DEF UpdateHeight
  <2>4. ASSUME Clear PROVE AncestorsCounted(pool')
    BY <2>4 DEF Clear, NewMempool, AncestorsCounted, InPool
  <2>5. ASSUME pool' = pool PROVE AncestorsCounted(pool')
    BY <2>5
  <2> QED BY <2>1, <2>2, <2>3, <2>4, <2>5, Zenon DEF MPNext
<1> QED BY <1>1, <1>2, CountedLimits, MempoolCorrect, PTL DEF MPSpec

-----------------------------------------------------------------------------
(* Folds over sequences *)

LEMMA MaxIn ==
  ASSUME NEW n \in Nat, NEW S \in SUBSET (1..n), S # {}
  PROVE  Max(S) \in S /\ \A y \in S : y <= Max(S)
<1> DEFINE P == {k \in Nat : \A T \in SUBSET (1..k) :
                    T # {} => \E x \in T : \A y \in T : x >= y}
<1>1. 0 \in P
  <2>1. \A T \in SUBSET (1..0) : T = {}
    OBVIOUS
  <2> QED BY <2>1
<1>2. ASSUME NEW k \in Nat, k \in P PROVE k + 1 \in P
  <2> SUFFICES ASSUME NEW T \in SUBSET (1..(k+1)), T # {}
               PROVE  \E x \in T : \A y \in T : x >= y
    OBVIOUS
  <2>1. CASE k + 1 \in T
    BY <2>1
  <2>2. CASE k + 1 \notin T
    <3>1. T \in SUBSET (1..k)
      BY <2>2
    <3> QED BY <1>2, <3>1
  <2> QED BY <2>1, <2>2
<1> HIDE DEF P
<1>3. n \in P
  BY <1>1, <1>2, UpFromZero
<1>4. \E x \in S : \A y \in S : x >= y
  BY <1>3 DEF P
<1>5. Max(S) \in S /\ \A y \in S : Max(S) >= y
  BY <1>4 DEF Max
<1> QED BY <1>5

\* g is the recursive function that FoldLeft evaluates, for N elements, values
\* in X and the step F.
Folds(N, X, b, F, g) ==
    /\ g \in [SUBSET (1..N) -> X]
    /\ \A s \in SUBSET (1..N) :
          g[s] = IF s = {} THEN b ELSE F[<<g[s \ {Max(s)}], Max(s)>>]

\* The recursion has a solution.
LEMMA FoldExists ==
  ASSUME NEW N \in Nat, NEW X, NEW b \in X, NEW F \in [X \X (1..N) -> X]
  PROVE  \E g : Folds(N, X, b, F, g)
<1> DEFINE Val(g, s) == IF s = {} THEN b ELSE F[<<g[s \ {Max(s)}], Max(s)>>]
           Upto(n) == \E g \in [SUBSET (1..n) -> X] :
                        \A s \in SUBSET (1..n) : g[s] = Val(g, s)
           P == {n \in Nat : n <= N => Upto(n)}
<1>1. 0 \in P
  <2> DEFINE g == [s \in SUBSET (1..0) |-> b]
  <2>1. g \in [SUBSET (1..0) -> X] /\ \A s \in SUBSET (1..0) : g[s] = Val(g, s)
    OBVIOUS
  <2>2. Upto(0)
    BY <2>1
  <2> HIDE DEF Upto
  <2> QED BY <2>2
<1>2. ASSUME NEW n \in Nat, n \in P PROVE n + 1 \in P
  <2> SUFFICES ASSUME n + 1 <= N
               PROVE  Upto(n + 1)
    <3> HIDE DEF Upto
    <3> QED OBVIOUS
  <2>0. Upto(n)
    <3> HIDE DEF Upto
    <3> QED BY <1>2
  <2>1. PICK g \in [SUBSET (1..n) -> X] : \A s \in SUBSET (1..n) : g[s] = Val(g, s)
    BY <2>0
  <2> DEFINE h == [s \in SUBSET (1..(n+1)) |->
                     IF n + 1 \in s THEN F[<<g[s \ {n + 1}], n + 1>>] ELSE g[s]]
  <2>2. ASSUME NEW s \in SUBSET (1..(n+1)), n + 1 \notin s PROVE s \in SUBSET (1..n)
    BY <2>2
  <2>3. ASSUME NEW s \in SUBSET (1..(n+1)) PROVE h[s] \in X
    <3>1. CASE n + 1 \in s
      <4>1. s \ {n + 1} \in SUBSET (1..n) /\ n + 1 \in 1..N
        OBVIOUS
      <4>2. <<g[s \ {n + 1}], n + 1>> \in X \X (1..N)
        BY <4>1
      <4> QED BY <3>1, <4>2
    <3>2. CASE n + 1 \notin s
      BY <2>2, <3>2
    <3> QED BY <3>1, <3>2
  <2>4. ASSUME NEW s \in SUBSET (1..(n+1)) PROVE h[s] = Val(h, s)
    <3>1. CASE n + 1 \in s
      <4>0. n + 1 \in Nat /\ s # {}
        BY <3>1
      <4>1. Max(s) \in s /\ \A y \in s : y <= Max(s)
        BY <4>0, MaxIn
      <4>2. Max(s) = n + 1
        <5>1. Max(s) \in 1..(n+1) /\ n + 1 <= Max(s)
          BY <3>1, <4>1
        <5> QED BY <5>1
      <4>3. s \ {n + 1} \in SUBSET (1..n) /\ s \ {n + 1} \in SUBSET (1..(n+1))
        OBVIOUS
      <4>4. h[s \ {n + 1}] = g[s \ {n + 1}]
        BY <4>3
      <4> HIDE DEF h
      <4>5. h[s] = F[<<g[s \ {n + 1}], n + 1>>]
        BY <3>1 DEF h
      <4> QED BY <3>1, <4>2, <4>4, <4>5
    <3>2. CASE n + 1 \notin s /\ s # {}
      <4>1. s \in SUBSET (1..n) /\ s \ {Max(s)} \in SUBSET (1..n)
        BY <2>2, <3>2
      <4>2. h[s] = g[s] /\ h[s \ {Max(s)}] = g[s \ {Max(s)}]
        BY <3>2, <4>1
      <4> HIDE DEF h
      <4> QED BY <2>1, <3>2, <4>1, <4>2
    <3>3. CASE s = {}
      <4>1. h[s] = g[s] /\ s \in SUBSET (1..n)
        BY <3>3
      <4> QED BY <2>1, <3>3, <4>1
    <3> QED BY <3>1, <3>2, <3>3
  <2>5. h \in [SUBSET (1..(n+1)) -> X]
    BY <2>3
  <2> HIDE DEF h, Val
  <2> QED BY <2>4, <2>5
<1> HIDE DEF P, Upto
<1>3. N \in P
  BY <1>1, <1>2, UpFromZero
<1>4. Upto(N)
  BY <1>3 DEF P
<1>5. PICK g \in [SUBSET (1..N) -> X] : \A s \in SUBSET (1..N) : g[s] = Val(g, s)
  BY <1>4 DEF Upto
<1>6. Folds(N, X, b, F, g)
  BY <1>5 DEF Folds
<1> QED BY <1>6

\* The sets that the fold of a whole sequence goes through.
LEMMA FoldStages ==
  ASSUME NEW N \in Nat
  PROVE  /\ 1..0 = {}
         /\ \A i \in 1..N : /\ 1..i \in SUBSET (1..N) /\ 1..i # {} /\ Max(1..i) = i
                            /\ (1..i) \ {i} = 1..(i-1)
<1>1. ASSUME NEW i \in 1..N
      PROVE  /\ 1..i \in SUBSET (1..N) /\ 1..i # {} /\ Max(1..i) = i
             /\ (1..i) \ {i} = 1..(i-1)
  <2>1. i \in Nat /\ 1..i \in SUBSET (1..N) /\ 1..i # {} /\ (1..i) \ {i} = 1..(i-1)
    OBVIOUS
  <2>2. Max(1..i) \in 1..i /\ \A y \in 1..i : y <= Max(1..i)
    BY <2>1, MaxIn
  <2> QED BY <2>1, <2>2
<1> QED BY <1>1

-----------------------------------------------------------------------------
(* get_block_template *)

\* What InOrder computes: each member of S once.
LEMMA InOrderFacts ==
  ASSUME NEW P, IsFiniteSet(P), NEW rank \in SetToSeqs(P), NEW S \in SUBSET P
  PROVE  /\ InOrder(rank, S) \in Seq(S) /\ ToSet(InOrder(rank, S)) = S
         /\ Len(InOrder(rank, S)) = Cardinality(S)
<1> DEFINE N == Cardinality(P)
           X == Seq(S)
           op(q, t) == IF t \in S THEN Append(q, t) ELSE q
           Solves(g) == g = [s \in SUBSET (1..N) |->
                               IF s = {} THEN << >> ELSE op(g[s \ {Max(s)}], rank[Max(s)])]
           h == CHOOSE g : Solves(g)
           F == [p \in X \X (1..N) |-> op(p[1], rank[p[2]])]
<1>1. N \in Nat /\ DOMAIN rank = 1..N /\ rank \in [1..N -> P]
      /\ \A i, j \in 1..N : i # j => rank[i] # rank[j]
  BY FS_CardinalityType DEF SetToSeqs
<1>2. InOrder(rank, S) = h[1..N]
  <2>1. InOrder(rank, S) = h[DOMAIN rank]
    BY <1>1 DEF InOrder, FoldLeft, MapThenFoldSet
  <2> QED BY <1>1, <2>1
<1> HIDE DEF N
<1>3. Solves(h)
  <2>1. F \in [X \X (1..N) -> X]
    OBVIOUS
  <2>2. \A q \in X : \A i \in 1..N : F[<<q, i>>] = op(q, rank[i])
    OBVIOUS
  <2> HIDE DEF F, op, X
  <2> DEFINE b == << >>
  <2>3. b \in X
    BY DEF X
  <2> HIDE DEF b
  <2>4. PICK g : Folds(N, X, b, F, g)
    BY <1>1, <2>1, <2>3, FoldExists
  <2>5. ASSUME NEW s \in SUBSET (1..N), s # {}
        PROVE  F[<<g[s \ {Max(s)}], Max(s)>>] = op(g[s \ {Max(s)}], rank[Max(s)])
    <3>1. Max(s) \in 1..N /\ g[s \ {Max(s)}] \in X
      BY <1>1, <2>4, <2>5, MaxIn DEF Folds
    <3> QED BY <2>2, <3>1
  <2>6. Solves(g)
    BY <2>4, <2>5 DEF b, Folds
  <2> QED BY <2>6
<1> HIDE DEF h
<1>4. h[1..0] = << >> /\ \A i \in 1..N : h[1..i] = op(h[1..(i-1)], rank[i])
  <2>1. /\ 1..0 = {}
        /\ \A i \in 1..N : /\ 1..i \in SUBSET (1..N) /\ 1..i # {} /\ Max(1..i) = i
                           /\ (1..i) \ {i} = 1..(i-1)
    BY <1>1, FoldStages
  <2>2. \A s \in SUBSET (1..N) :
          h[s] = IF s = {} THEN << >> ELSE op(h[s \ {Max(s)}], rank[Max(s)])
    <3> HIDE DEF op
    <3> QED BY <1>3
  <2> HIDE DEF op
  <2>3. h[{}] = << >>
    BY <2>2
  <2> QED BY <2>1, <2>2, <2>3
<1> DEFINE Seen(n) == {rank[i] : i \in 1..n} \cap S
           Good(n, q) == q \in Seq(S) /\ ToSet(q) = Seen(n) /\ Len(q) = Cardinality(Seen(n))
           Q == {n \in Nat : n <= N => Good(n, h[1..n])}
<1>5. 0 \in Q
  <2>1. Seen(0) = {} /\ ToSet(<< >>) = {} /\ Len(<< >>) = 0 /\ << >> \in Seq(S)
    BY DEF ToSet
  <2>2. Good(0, h[1..0])
    BY <1>4, <2>1, FS_EmptySet
  <2> HIDE DEF Good
  <2> QED BY <2>2
<1>6. ASSUME NEW n \in Nat, n \in Q PROVE n + 1 \in Q
  <2> DEFINE t == rank[n + 1]
             q == h[1..n]
  <2> SUFFICES ASSUME n + 1 <= N PROVE Good(n + 1, h[1..(n+1)])
    <3> HIDE DEF Good
    <3> QED OBVIOUS
  <2>1. Good(n, q) /\ n + 1 \in 1..N /\ (n + 1) - 1 = n
    <3> HIDE DEF Good
    <3> QED BY <1>1, <1>6
  <2>2. h[1..(n+1)] = op(q, t)
    BY <1>4, <2>1
  <2>3. {rank[i] : i \in 1..(n+1)} = {rank[i] : i \in 1..n} \cup {t}
    <3>1. 1..(n+1) = (1..n) \cup {n + 1}
      OBVIOUS
    <3> QED BY <3>1
  <2>4. t \notin {rank[i] : i \in 1..n}
    BY <1>1, <2>1
  <2>5. IsFiniteSet(Seen(n))
    BY FS_Subset
  <2> HIDE DEF q, t
  <2>6. CASE t \in S
    <3>1. Seen(n + 1) = Seen(n) \cup {t} /\ t \notin Seen(n)
      BY <2>3, <2>4, <2>6
    <3>2. Cardinality(Seen(n + 1)) = Cardinality(Seen(n)) + 1
      BY <2>5, <3>1, FS_AddElement
    <3>3. /\ Append(q, t) \in Seq(S) /\ Len(Append(q, t)) = Len(q) + 1
          /\ ToSet(Append(q, t)) = ToSet(q) \cup {t}
      <4>1. q \in Seq(S)
        BY <2>1
      <4>2. /\ Append(q, t) \in Seq(S) /\ Len(Append(q, t)) = Len(q) + 1 /\ Len(q) \in Nat
            /\ DOMAIN Append(q, t) = 1..(Len(q)+1) /\ DOMAIN q = 1..Len(q)
            /\ \A i \in 1..Len(q) : Append(q, t)[i] = q[i]
            /\ Append(q, t)[Len(q) + 1] = t
        BY <2>6, <4>1
      <4> QED BY <4>2 DEF ToSet
    <3> QED BY <2>1, <2>2, <2>6, <3>1, <3>2, <3>3
  <2>7. CASE t \notin S
    <3>1. Seen(n + 1) = Seen(n)
      BY <2>3, <2>7
    <3> QED BY <2>1, <2>2, <2>7, <3>1
  <2> QED BY <2>6, <2>7
<1> HIDE DEF Q
<1>7. N \in Q
  BY <1>1, <1>5, <1>6, UpFromZero
<1>8. Good(N, h[1..N])
  <2> HIDE DEF Good
  <2> QED BY <1>1, <1>7 DEF Q
<1>9. Seen(N) = S
  <2>1. rank \in Injection(1..N, P)
    BY <1>1 DEF Injection, IsInjective
  <2>2. rank \in Surjection(1..N, P)
    <3>1. Cardinality(1..N) = Cardinality(P)
      BY <1>1, FS_Interval DEF N
    <3> QED BY <2>1, <3>1, FS_Injection
  <2> QED BY <2>2 DEF Surjection
<1> QED BY <1>2, <1>8, <1>9

LEMMA SeqEnds ==
  ASSUME NEW S, NEW s \in Seq(S), s # << >>
  PROVE  /\ Last(s) \in S /\ Front(s) \in Seq(S) /\ Len(s) \in Nat \ {0}
         /\ Len(Front(s)) = Len(s) - 1 /\ ToSet(s) = ToSet(Front(s)) \cup {Last(s)}
<1>1. Len(s) \in Nat \ {0} /\ DOMAIN s = 1..Len(s) /\ \A i \in 1..Len(s) : s[i] \in S
  OBVIOUS
<1>2. /\ Front(s) \in Seq(S) /\ Len(Front(s)) = Len(s) - 1
      /\ DOMAIN Front(s) = 1..(Len(s) - 1)
      /\ \A i \in 1..(Len(s) - 1) : Front(s)[i] = s[i]
  BY <1>1 DEF Front
<1>3. Last(s) = s[Len(s)]
  BY DEF Last
<1>4. 1..Len(s) = (1..(Len(s) - 1)) \cup {Len(s)}
  BY <1>1
<1> QED BY <1>1, <1>2, <1>3, <1>4 DEF ToSet

LEMMA SeqJoins ==
  ASSUME NEW S, NEW a \in Seq(S), NEW b \in Seq(S)
  PROVE  /\ a \o b \in Seq(S) /\ Len(a \o b) = Len(a) + Len(b)
         /\ ToSet(a \o b) = ToSet(a) \cup ToSet(b)
<1> DEFINE c == a \o b
<1>1. /\ c \in Seq(S) /\ Len(a) \in Nat /\ Len(b) \in Nat /\ Len(c) = Len(a) + Len(b)
      /\ DOMAIN a = 1..Len(a) /\ DOMAIN b = 1..Len(b) /\ DOMAIN c = 1..(Len(a) + Len(b))
      /\ \A i \in 1..(Len(a) + Len(b)) : c[i] = IF i <= Len(a) THEN a[i] ELSE b[i - Len(a)]
  OBVIOUS
<1> HIDE DEF c
<1>2. ASSUME NEW i \in 1..Len(a) PROVE i \in 1..(Len(a) + Len(b)) /\ c[i] = a[i]
  BY <1>1
<1>3. ASSUME NEW i \in 1..Len(b)
      PROVE  i + Len(a) \in 1..(Len(a) + Len(b)) /\ c[i + Len(a)] = b[i]
  BY <1>1
<1>4. ToSet(a) \cup ToSet(b) \subseteq ToSet(c)
  <2>1. ASSUME NEW i \in DOMAIN a PROVE a[i] \in ToSet(c)
    <3>1. i \in DOMAIN c /\ c[i] = a[i]
      BY <1>1, <1>2
    <3> QED BY <3>1 DEF ToSet
  <2>2. ASSUME NEW i \in DOMAIN b PROVE b[i] \in ToSet(c)
    <3>1. i + Len(a) \in DOMAIN c /\ c[i + Len(a)] = b[i]
      BY <1>1, <1>3
    <3> QED BY <3>1 DEF ToSet
  <2> QED BY <2>1, <2>2 DEF ToSet
<1>5. ASSUME NEW i \in 1..(Len(a) + Len(b)) PROVE c[i] \in ToSet(a) \cup ToSet(b)
  <2>1. CASE i <= Len(a)
    <3>1. i \in 1..Len(a) /\ c[i] = a[i]
      BY <1>1, <2>1
    <3> QED BY <1>1, <3>1 DEF ToSet
  <2>2. CASE i > Len(a)
    <3>1. i - Len(a) \in 1..Len(b) /\ c[i] = b[i - Len(a)]
      BY <1>1, <2>2
    <3> QED BY <1>1, <3>1 DEF ToSet
  <2> QED BY <1>1, <2>1, <2>2
<1>6. ToSet(c) \subseteq ToSet(a) \cup ToSet(b)
  BY <1>1, <1>5 DEF ToSet
<1> QED BY <1>1, <1>4, <1>6 DEF c

LEMMA SeqAdds ==
  ASSUME NEW S, NEW s \in Seq(S), NEW x \in S
  PROVE  /\ Append(s, x) \in Seq(S) /\ Len(Append(s, x)) = Len(s) + 1 /\ Len(s) \in Nat
         /\ DOMAIN Append(s, x) = 1..(Len(s)+1) /\ DOMAIN s = 1..Len(s)
         /\ \A i \in 1..Len(s) : Append(s, x)[i] = s[i]
         /\ Append(s, x)[Len(s) + 1] = x
         /\ ToSet(Append(s, x)) = ToSet(s) \cup {x}
<1>1. /\ Append(s, x) \in Seq(S) /\ Len(Append(s, x)) = Len(s) + 1 /\ Len(s) \in Nat
      /\ DOMAIN Append(s, x) = 1..(Len(s)+1) /\ DOMAIN s = 1..Len(s)
      /\ \A i \in 1..Len(s) : Append(s, x)[i] = s[i]
      /\ Append(s, x)[Len(s) + 1] = x
  OBVIOUS
<1> QED BY <1>1 DEF ToSet

\* g is the recursive function that starts with b and takes N steps F.
Walks(N, X, b, F, g) ==
    g \in [0..N -> X] /\ \A n \in 0..N : g[n] = IF n = 0 THEN b ELSE F[g[n-1]]

LEMMA WalkExists ==
  ASSUME NEW N \in Nat, NEW X, NEW b \in X, NEW F \in [X -> X]
  PROVE  \E g : Walks(N, X, b, F, g)
<1> DEFINE P == {n \in Nat : \E g : Walks(n, X, b, F, g)}
<1>1. 0 \in P
  <2>1. Walks(0, X, b, F, [k \in 0..0 |-> b])
    BY DEF Walks
  <2> QED BY <2>1
<1>2. ASSUME NEW n \in Nat, n \in P PROVE n + 1 \in P
  <2>1. PICK g : Walks(n, X, b, F, g)
    BY <1>2
  <2>2. g \in [0..n -> X] /\ \A k \in 0..n : g[k] = IF k = 0 THEN b ELSE F[g[k-1]]
    BY <2>1 DEF Walks
  <2> DEFINE h == [k \in 0..(n+1) |-> IF k = n + 1 THEN F[g[n]] ELSE g[k]]
  <2>3. h \in [0..(n+1) -> X]
    BY <2>2
  <2>4. ASSUME NEW k \in 0..(n+1) PROVE h[k] = IF k = 0 THEN b ELSE F[h[k-1]]
    <3>1. CASE k = n + 1
      <4>1. k # 0 /\ k - 1 = n /\ n \in 0..(n+1) /\ n # n + 1
        BY <3>1
      <4>2. h[k] = F[g[n]] /\ h[n] = g[n]
        BY <3>1, <4>1
      <4> QED BY <4>1, <4>2
    <3>2. CASE k # n + 1 /\ k # 0
      <4>1. k \in 0..n /\ k - 1 \in 0..n /\ k - 1 \in 0..(n+1) /\ k - 1 # n + 1
        BY <3>2
      <4>2. h[k] = g[k] /\ h[k-1] = g[k-1]
        BY <3>2, <4>1
      <4> QED BY <2>2, <3>2, <4>1, <4>2
    <3>3. CASE k = 0
      BY <2>2, <3>3
    <3> QED BY <3>1, <3>2, <3>3
  <2> HIDE DEF h
  <2>5. Walks(n + 1, X, b, F, h)
    BY <2>3, <2>4 DEF Walks
  <2> QED BY <2>5
<1> HIDE DEF P
<1>3. N \in P
  BY <1>1, <1>2, UpFromZero
<1> QED BY <1>3 DEF P

-----------------------------------------------------------------------------
(* get_ancestors *)

WalkStates(m) == [to_visit : Seq(InPool(m)), visited : SUBSET InPool(m),
                  ancestors : Seq(InPool(m))]

\* A walk from t: what is listed has been visited or will be, and with an
\* entry that has been visited its parents.
WalkOK(m, t, s) ==
    LET listed == ToSet(s.ancestors)
        waiting == ToSet(s.to_visit)
    IN /\ s \in WalkStates(m)
       /\ t \notin listed
       /\ s.visited = {} => s.to_visit = <<t>>
       /\ s.visited # {} => t \in s.visited
       /\ waiting \subseteq {t} \cup listed
       /\ s.visited \subseteq {t} \cup listed
       /\ listed \subseteq s.visited \cup waiting
       /\ \A u \in s.visited : m.entries[u].parents \subseteq s.visited \cup waiting
       /\ \A a \in listed : \E c \in InPool(m) : a \in m.entries[c].parents

NumParents(m) == [u \in InPool(m) |-> Cardinality(m.entries[u].parents)]

\* The pushes that are left: what waits, and the parents of what has not been
\* visited.
Pushes(m, s) == Len(s.to_visit) + SumOf(NumParents(m), InPool(m) \ s.visited)

LEMMA ParentsFacts ==
  ASSUME NEW m, PoolSound(m)
  PROVE  /\ IsFiniteSet(InPool(m))
         /\ \A u \in InPool(m) : /\ m.entries[u].parents \subseteq InPool(m)
                                 /\ IsFiniteSet(m.entries[u].parents)
                                 /\ NumParents(m)[u] = Cardinality(m.entries[u].parents)
                                 /\ NumParents(m)[u] \in Nat
<1>1. IsFiniteSet(InPool(m))
  BY TxAssumption, FS_Subset DEF PoolSound
<1>2. ASSUME NEW u \in InPool(m)
      PROVE  m.entries[u].parents \subseteq InPool(m) /\ IsFiniteSet(m.entries[u].parents)
  BY <1>1, FS_Subset DEF PoolSound, LinksSoundOf
<1> QED BY <1>1, <1>2, FS_CardinalityType DEF NumParents

LEMMA VisitFacts ==
  ASSUME NEW m, PoolSound(m), NEW rank \in SetToSeqs(InPool(m)),
         NEW t \in InPool(m), NEW s \in WalkStates(m), s.to_visit # << >>
  PROVE  /\ Visit(m, rank, s) \in WalkStates(m)
         /\ WalkOK(m, t, s) => WalkOK(m, t, Visit(m, rank, s))
         /\ Pushes(m, Visit(m, rank, s)) + 1 <= Pushes(m, s)
         /\ Pushes(m, s) \in Nat /\ Pushes(m, Visit(m, rank, s)) \in Nat
<1> DEFINE I == InPool(m)
           cur == Last(s.to_visit)
           D == m.entries[cur].parents \ (s.visited \cup {cur})
           new == InOrder(rank, D)
           r == Visit(m, rank, s)
           par == NumParents(m)
<1>1. /\ IsFiniteSet(I)
      /\ \A u \in I : /\ m.entries[u].parents \subseteq I /\ IsFiniteSet(m.entries[u].parents)
                      /\ par[u] = Cardinality(m.entries[u].parents) /\ par[u] \in Nat
  BY ParentsFacts
<1>2. s.to_visit \in Seq(I) /\ s.visited \in SUBSET I /\ s.ancestors \in Seq(I)
  BY DEF WalkStates
<1>3. /\ cur \in I /\ Front(s.to_visit) \in Seq(I) /\ Len(s.to_visit) \in Nat \ {0}
      /\ Len(Front(s.to_visit)) = Len(s.to_visit) - 1
      /\ ToSet(s.to_visit) = ToSet(Front(s.to_visit)) \cup {cur}
  BY <1>2, SeqEnds
<1>4. D \in SUBSET I
  BY <1>1, <1>3
<1>5. new \in Seq(I) /\ ToSet(new) = D /\ Len(new) = Cardinality(D)
  <2>1. new \in Seq(D) /\ ToSet(new) = D /\ Len(new) = Cardinality(D)
    <3> HIDE DEF D
    <3> QED BY <1>1, <1>4, InOrderFacts
  <2> HIDE DEF new, D
  <2> QED BY <1>4, <2>1
<1>6. Cardinality(D) \in Nat /\ Cardinality(D) <= par[cur]
  <2>1. D \subseteq m.entries[cur].parents /\ IsFiniteSet(m.entries[cur].parents)
    BY <1>1, <1>3
  <2> QED BY <1>1, <1>3, <2>1, FS_Subset, FS_CardinalityType
<1>7. \A V \in SUBSET I : IsFiniteSet(I \ V) /\ SumOf(par, I \ V) \in Nat
  <2> TAKE V \in SUBSET I
  <2>1. IsFiniteSet(I \ V)
    BY <1>1, FS_Subset
  <2> QED BY <1>1, <2>1, SumType
<1>8. CASE cur \in s.visited
  <2>1. r = [s EXCEPT !.to_visit = Front(@)]
    BY <1>8 DEF Visit
  <2>2. /\ r \in WalkStates(m)
        /\ r.to_visit = Front(s.to_visit) /\ r.visited = s.visited /\ r.ancestors = s.ancestors
    BY <1>3, <2>1 DEF WalkStates
  <2> HIDE DEF r
  <2>3. WalkOK(m, t, s) => WalkOK(m, t, r)
    BY <1>3, <1>8, <2>2 DEF WalkOK
  <2>4. Pushes(m, r) + 1 <= Pushes(m, s) /\ Pushes(m, s) \in Nat /\ Pushes(m, r) \in Nat
    <3> DEFINE V == I \ s.visited
    <3>1. SumOf(par, V) \in Nat
      BY <1>2, <1>7
    <3>2. /\ Pushes(m, s) = Len(s.to_visit) + SumOf(par, V)
          /\ Pushes(m, r) = Len(s.to_visit) - 1 + SumOf(par, V)
      BY <1>3, <2>2 DEF Pushes
    <3> HIDE DEF V, par
    <3> QED BY <1>3, <3>1, <3>2
  <2> QED BY <2>2, <2>3, <2>4 DEF r
<1>9. CASE cur \notin s.visited
  <2> HIDE DEF new
  <2>1. r = [to_visit  |-> Front(s.to_visit) \o new,
             visited   |-> s.visited \cup {cur},
             ancestors |-> s.ancestors \o new]
    BY <1>9 DEF Visit, new
  <2>2. /\ Front(s.to_visit) \o new \in Seq(I) /\ s.ancestors \o new \in Seq(I)
        /\ Len(Front(s.to_visit) \o new) = Len(s.to_visit) - 1 + Cardinality(D)
        /\ ToSet(Front(s.to_visit) \o new) = ToSet(Front(s.to_visit)) \cup D
        /\ ToSet(s.ancestors \o new) = ToSet(s.ancestors) \cup D
    <3> HIDE DEF D, cur
    <3>1. /\ Front(s.to_visit) \o new \in Seq(I)
          /\ Len(Front(s.to_visit) \o new) = Len(s.to_visit) - 1 + Cardinality(D)
          /\ ToSet(Front(s.to_visit) \o new) = ToSet(Front(s.to_visit)) \cup D
      <4> DEFINE f == Front(s.to_visit)
      <4>1. f \in Seq(I) /\ Len(f) = Len(s.to_visit) - 1
        BY <1>3
      <4> HIDE DEF f
      <4>2. f \o new \in Seq(I) /\ Len(f \o new) = Len(f) + Len(new)
            /\ ToSet(f \o new) = ToSet(f) \cup ToSet(new)
        BY <1>5, <4>1, SeqJoins
      <4>3. f \o new \in Seq(I) /\ Len(f \o new) = Len(s.to_visit) - 1 + Cardinality(D)
            /\ ToSet(f \o new) = ToSet(f) \cup D
        BY <1>5, <4>1, <4>2, Zenon
      <4> QED BY <4>3, Zenon DEF f
    <3>2. /\ s.ancestors \o new \in Seq(I)
          /\ ToSet(s.ancestors \o new) = ToSet(s.ancestors) \cup ToSet(new)
      BY <1>2, <1>5, SeqJoins
    <3> QED BY <1>5, <3>1, <3>2
  <2>3. /\ r \in WalkStates(m)
        /\ r.to_visit = Front(s.to_visit) \o new /\ r.visited = s.visited \cup {cur}
        /\ r.ancestors = s.ancestors \o new
    BY <1>2, <1>3, <2>1, <2>2 DEF WalkStates
  <2> HIDE DEF r
  <2>4. ASSUME WalkOK(m, t, s) PROVE WalkOK(m, t, r)
    <3>1. s.visited = {} => cur = t
      BY <2>4 DEF WalkOK, Last
    <3>2. t \notin D /\ t \in r.visited
      BY <1>9, <2>3, <2>4, <3>1 DEF WalkOK
    <3>3. /\ ToSet(r.ancestors) = ToSet(s.ancestors) \cup D
          /\ ToSet(r.to_visit) = ToSet(Front(s.to_visit)) \cup D
      BY <2>2, <2>3
    <3>4. \A u \in r.visited : m.entries[u].parents \subseteq r.visited \cup ToSet(r.to_visit)
      BY <1>3, <2>3, <2>4, <3>3 DEF WalkOK
    <3>5. \A a \in D : a \in m.entries[cur].parents
      OBVIOUS
    <3> HIDE DEF D, cur
    <3> QED BY <1>3, <2>3, <2>4, <3>2, <3>3, <3>4, <3>5 DEF WalkOK
  <2>5. Pushes(m, r) + 1 <= Pushes(m, s) /\ Pushes(m, s) \in Nat /\ Pushes(m, r) \in Nat
    <3> DEFINE V == I \ s.visited
    <3>1. cur \in V /\ V \ {cur} = I \ r.visited /\ IsFiniteSet(V)
      BY <1>2, <1>3, <1>7, <1>9, <2>3
    <3>2. SumOf(par, V) = SumOf(par, V \ {cur}) + par[cur]
      <4> HIDE DEF cur, par
      <4> QED BY <1>1, <3>1, SumWithout
    <3>3. SumOf(par, V) \in Nat /\ SumOf(par, V \ {cur}) \in Nat
      <4>1. r.visited \in SUBSET I
        BY <1>2, <1>3, <2>3
      <4> QED BY <1>2, <1>7, <3>1, <4>1
    <3>4. /\ Pushes(m, s) = Len(s.to_visit) + SumOf(par, V)
          /\ Pushes(m, r) = Len(s.to_visit) - 1 + Cardinality(D) + SumOf(par, V \ {cur})
      BY <2>2, <2>3, <3>1 DEF Pushes
    <3>5. par[cur] \in Nat
      BY <1>1, <1>3
    <3> DEFINE a == SumOf(par, V)
               b == SumOf(par, V \ {cur})
               l == Len(s.to_visit)
               d == Cardinality(D)
               p == par[cur]
    <3>6. /\ a = b + p /\ a \in Nat /\ b \in Nat /\ p \in Nat /\ l \in Nat \ {0}
          /\ d \in Nat /\ d <= p /\ Pushes(m, s) = l + a /\ Pushes(m, r) = l - 1 + d + b
      BY <1>3, <1>6, <3>2, <3>3, <3>4, <3>5
    <3> HIDE DEF a, b, l, d, p
    <3> QED BY <3>6
  <2> QED BY <2>3, <2>4, <2>5 DEF r
<1> QED BY <1>8, <1>9

\* What get_ancestors returns: with t, a set closed under parents, all of whose
\* other members have a child.  The walk ends before the pushes run out.
LEMMA GetAncestorsFacts ==
  ASSUME NEW m, PoolSound(m), NEW rank \in SetToSeqs(InPool(m)), NEW t \in InPool(m)
  PROVE  /\ GetAncestors(m, rank, t) \in Seq(InPool(m))
         /\ t \notin ToSet(GetAncestors(m, rank, t))
         /\ ClosedFrom(m, t, {t} \cup ToSet(GetAncestors(m, rank, t)))
         /\ \A a \in ToSet(GetAncestors(m, rank, t)) : m.entries[a].children # {}
<1> DEFINE I == InPool(m)
           X == WalkStates(m)
           b == [to_visit |-> <<t>>, visited |-> {}, ancestors |-> << >>]
           Step(s) == IF s.to_visit = << >> THEN s ELSE Visit(m, rank, s)
           N == 1 + SumOf(NumParents(m), I)
           Solves(g) == g = [n \in 0..N |-> IF n = 0 THEN b ELSE Step(g[n-1])]
           h == CHOOSE g : Solves(g)
           F == [s \in X |-> Step(s)]
<1>1. GetAncestors(m, rank, t) = h[N].ancestors
  BY DEF GetAncestors, NumParents
<1>2. IsFiniteSet(I) /\ \A u \in I : NumParents(m)[u] \in Nat
  BY ParentsFacts
<1>3. N \in Nat /\ N = Pushes(m, b)
  <2>1. SumOf(NumParents(m), I) \in Nat
    BY <1>2, SumType
  <2>2. I \ {} = I /\ Len(<<t>>) = 1 /\ b.to_visit = <<t>> /\ b.visited = {}
    OBVIOUS
  <2> QED BY <2>1, <2>2 DEF Pushes
<1>4. b \in X /\ WalkOK(m, t, b)
  <2>1. b \in X
    BY DEF WalkStates
  <2>2. /\ b.to_visit = <<t>> /\ b.visited = {} /\ b.ancestors = << >>
        /\ ToSet(<<t>>) = {t} /\ ToSet(<< >>) = {}
    BY DEF ToSet
  <2> HIDE DEF b
  <2> QED BY <2>1, <2>2 DEF WalkOK
<1> HIDE DEF N, b
<1>5. \A s \in X : Step(s) \in X
  BY VisitFacts
<1> HIDE DEF X, Step
<1>6. Solves(h)
  <2>1. F \in [X -> X] /\ \A s \in X : F[s] = Step(s)
    BY <1>5
  <2> HIDE DEF F
  <2>2. PICK g : Walks(N, X, b, F, g)
    BY <1>3, <1>4, <2>1, WalkExists
  <2>3. ASSUME NEW n \in 0..N, n # 0 PROVE F[g[n-1]] = Step(g[n-1])
    <3>1. n - 1 \in 0..N
      BY <1>3, <2>3
    <3>2. g[n-1] \in X
      BY <2>2, <3>1 DEF Walks
    <3> QED BY <2>1, <3>2
  <2>4. Solves(g)
    BY <2>2, <2>3 DEF Walks
  <2> QED BY <2>4
<1> HIDE DEF h
<1>7. h[0] = b /\ \A n \in 0..N : n # 0 => h[n] = Step(h[n-1])
  BY <1>3, <1>6
<1> DEFINE Good(n, s) == /\ s \in X /\ WalkOK(m, t, s)
                         /\ s.to_visit # << >> => Pushes(m, s) \in Nat /\ n + Pushes(m, s) <= N
           Q == {n \in Nat : n <= N => Good(n, h[n])}
<1>8. 0 \in Q
  <2>1. Good(0, b)
    BY <1>3, <1>4
  <2> HIDE DEF Good
  <2> QED BY <1>7, <2>1
<1>9. ASSUME NEW n \in Nat, n \in Q PROVE n + 1 \in Q
  <2> SUFFICES ASSUME n + 1 <= N PROVE Good(n + 1, h[n+1])
    <3> HIDE DEF Good
    <3> QED OBVIOUS
  <2> DEFINE s == h[n]
  <2>1. Good(n, s) /\ n + 1 \in 0..N /\ n + 1 # 0 /\ (n + 1) - 1 = n
    <3> HIDE DEF Good
    <3> QED BY <1>3, <1>9
  <2>2. h[n+1] = Step(s)
    BY <1>7, <2>1
  <2> HIDE DEF s
  <2>3. CASE s.to_visit = << >>
    BY <2>1, <2>2, <2>3 DEF Step
  <2>4. CASE s.to_visit # << >>
    <3> DEFINE r == Visit(m, rank, s)
    <3>1. h[n+1] = r
      BY <2>2, <2>4 DEF Step
    <3>2. /\ r \in X /\ WalkOK(m, t, r) /\ Pushes(m, r) + 1 <= Pushes(m, s)
          /\ Pushes(m, s) \in Nat /\ Pushes(m, r) \in Nat
      BY <2>1, <2>4, VisitFacts DEF X
    <3> HIDE DEF r
    <3>3. n + 1 + Pushes(m, r) <= N
      BY <1>3, <2>1, <2>4, <3>2
    <3> QED BY <3>1, <3>2, <3>3
  <2> QED BY <2>3, <2>4
<1> HIDE DEF Q
<1>10. N \in Q
  BY <1>3, <1>8, <1>9, UpFromZero
<1> DEFINE s == h[N]
<1>11. Good(N, s)
  <2> HIDE DEF Good
  <2> QED BY <1>3, <1>10 DEF Q
<1> HIDE DEF s
<1>12. /\ s.to_visit \in Seq(I) /\ s.visited \in SUBSET I /\ s.ancestors \in Seq(I)
  BY <1>11 DEF X, WalkStates
<1>13. s.to_visit = << >>
  <2> SUFFICES ASSUME s.to_visit # << >> PROVE FALSE
    OBVIOUS
  <2>1. Len(s.to_visit) \in Nat \ {0}
    BY <1>12
  <2>2. SumOf(NumParents(m), I \ s.visited) \in Nat
    <3>1. IsFiniteSet(I \ s.visited)
      BY <1>2, FS_Subset
    <3> QED BY <1>2, <3>1, SumType
  <2>3. Pushes(m, s) \in Nat /\ N + Pushes(m, s) <= N
    BY <1>11
  <2>4. Pushes(m, s) # 0
    BY <2>1, <2>2 DEF Pushes
  <2> QED BY <1>3, <2>3, <2>4
<1> DEFINE A == s.ancestors
<1>14. ToSet(<< >>) = {} /\ ToSet(A) \subseteq I
  BY <1>12 DEF ToSet
<1>15. s.visited = {t} \cup ToSet(A) /\ t \notin ToSet(A)
  BY <1>11, <1>13, <1>14 DEF WalkOK
<1>16. \A u \in s.visited : m.entries[u].parents \subseteq s.visited
  BY <1>11, <1>13, <1>14 DEF WalkOK
<1>17. ClosedFrom(m, t, {t} \cup ToSet(A))
  BY <1>12, <1>15, <1>16 DEF ClosedFrom
<1>18. \A a \in ToSet(A) : m.entries[a].children # {}
  BY <1>11 DEF WalkOK, PoolSound, LinksSoundOf
<1>19. GetAncestors(m, rank, t) = A
  BY <1>1 DEF s
<1> QED BY <1>12, <1>15, <1>17, <1>18, <1>19

-----------------------------------------------------------------------------
(* The template *)

\* r is template and then those of anc that it lacks.
Completes(template, anc, r) ==
    /\ IsInjective(r) /\ ToSet(r) = ToSet(template) \cup ToSet(anc)
    /\ Len(template) <= Len(r) /\ \A i \in 1..Len(template) : r[i] = template[i]

\* What the ancestors' turn of the loop computes.
LEMMA PushFacts ==
  ASSUME NEW S, NEW template \in Seq(S), NEW anc \in Seq(S), IsInjective(template)
  PROVE  LET push(txs, u) == IF u \in ToSet(txs) THEN txs ELSE Append(txs, u)
             r == FoldLeft(push, template, anc)
         IN  r \in Seq(S) /\ Completes(template, anc, r)
<1> DEFINE N == Len(anc)
           X == Seq(S)
           push(txs, u) == IF u \in ToSet(txs) THEN txs ELSE Append(txs, u)
           Solves(g) == g = [s \in SUBSET (1..N) |->
                               IF s = {} THEN template ELSE push(g[s \ {Max(s)}], anc[Max(s)])]
           h == CHOOSE g : Solves(g)
           F == [p \in X \X (1..N) |-> push(p[1], anc[p[2]])]
<1>1. N \in Nat /\ DOMAIN anc = 1..N /\ anc \in [1..N -> S]
  OBVIOUS
<1>2. FoldLeft(push, template, anc) = h[1..N]
  <2>1. FoldLeft(push, template, anc) = h[DOMAIN anc]
    BY <1>1 DEF FoldLeft, MapThenFoldSet
  <2> QED BY <1>1, <2>1
<1> HIDE DEF N
<1>3. Solves(h)
  <2>1. F \in [X \X (1..N) -> X]
    BY <1>1
  <2>2. \A q \in X : \A i \in 1..N : F[<<q, i>>] = push(q, anc[i])
    OBVIOUS
  <2>3. template \in X
    OBVIOUS
  <2> HIDE DEF F, push, X
  <2>4. PICK g : Folds(N, X, template, F, g)
    BY <1>1, <2>1, <2>3, FoldExists
  <2>5. ASSUME NEW s \in SUBSET (1..N), s # {}
        PROVE  F[<<g[s \ {Max(s)}], Max(s)>>] = push(g[s \ {Max(s)}], anc[Max(s)])
    <3>1. Max(s) \in 1..N /\ g[s \ {Max(s)}] \in X
      BY <1>1, <2>4, <2>5, MaxIn DEF Folds
    <3> QED BY <2>2, <3>1
  <2>6. Solves(g)
    BY <2>4, <2>5 DEF Folds
  <2> QED BY <2>6
<1> HIDE DEF h
<1>4. h[1..0] = template /\ \A i \in 1..N : h[1..i] = push(h[1..(i-1)], anc[i])
  <2>1. /\ 1..0 = {}
        /\ \A i \in 1..N : /\ 1..i \in SUBSET (1..N) /\ 1..i # {} /\ Max(1..i) = i
                           /\ (1..i) \ {i} = 1..(i-1)
    BY <1>1, FoldStages
  <2>2. \A s \in SUBSET (1..N) :
          h[s] = IF s = {} THEN template ELSE push(h[s \ {Max(s)}], anc[Max(s)])
    <3> HIDE DEF push
    <3> QED BY <1>3
  <2> HIDE DEF push
  <2>3. h[{}] = template
    BY <2>2
  <2> QED BY <2>1, <2>2, <2>3
<1> DEFINE Seen(n) == ToSet(template) \cup {anc[i] : i \in 1..n}
           Good(n, q) == /\ q \in Seq(S) /\ IsInjective(q) /\ ToSet(q) = Seen(n)
                         /\ Len(template) <= Len(q)
                         /\ \A i \in 1..Len(template) : q[i] = template[i]
           Q == {n \in Nat : n <= N => Good(n, h[1..n])}
<1>5. 0 \in Q
  <2>1. Seen(0) = ToSet(template) /\ Len(template) <= Len(template)
    OBVIOUS
  <2>2. Good(0, h[1..0])
    BY <1>4, <2>1
  <2> HIDE DEF Good
  <2> QED BY <2>2
<1>6. ASSUME NEW n \in Nat, n \in Q PROVE n + 1 \in Q
  <2> DEFINE t == anc[n + 1]
             q == h[1..n]
  <2> SUFFICES ASSUME n + 1 <= N PROVE Good(n + 1, h[1..(n+1)])
    <3> HIDE DEF Good
    <3> QED OBVIOUS
  <2>1. Good(n, q) /\ n + 1 \in 1..N /\ (n + 1) - 1 = n
    <3> HIDE DEF Good
    <3> QED BY <1>1, <1>6
  <2>2. h[1..(n+1)] = push(q, t)
    BY <1>4, <2>1
  <2>3. Seen(n + 1) = Seen(n) \cup {t}
    <3>1. 1..(n+1) = (1..n) \cup {n + 1}
      OBVIOUS
    <3> QED BY <3>1
  <2>4. t \in S
    BY <1>1, <2>1
  <2> HIDE DEF q, t
  <2>5. CASE t \notin ToSet(q)
    <3> DEFINE a == Append(q, t)
    <3>1. /\ a \in Seq(S) /\ Len(a) = Len(q) + 1 /\ Len(q) \in Nat
          /\ DOMAIN a = 1..(Len(q)+1) /\ DOMAIN q = 1..Len(q)
          /\ \A i \in 1..Len(q) : a[i] = q[i]
          /\ a[Len(q) + 1] = t /\ ToSet(a) = ToSet(q) \cup {t}
      BY <2>1, <2>4, SeqAdds
    <3>2. Len(template) \in Nat
      OBVIOUS
    <3> HIDE DEF a
    <3>3. \A i \in 1..Len(q) : a[i] # t
      BY <2>5, <3>1 DEF ToSet
    <3>4. IsInjective(a)
      <4>1. 1..(Len(q)+1) = (1..Len(q)) \cup {Len(q)+1}
        BY <3>1
      <4>2. \A i, j \in 1..Len(q) : q[i] = q[j] => i = j
        BY <2>1, <3>1 DEF IsInjective
      <4> QED BY <3>1, <3>3, <4>1, <4>2 DEF IsInjective
    <3>5. Len(template) <= Len(a) /\ \A i \in 1..Len(template) : a[i] = template[i]
      BY <2>1, <3>1, <3>2
    <3>6. ToSet(a) = Seen(n + 1)
      BY <2>1, <2>3, <3>1
    <3>7. h[1..(n+1)] = a
      BY <2>2, <2>5 DEF a
    <3> QED BY <3>1, <3>4, <3>5, <3>6, <3>7
  <2>6. CASE t \in ToSet(q)
    <3>1. Seen(n + 1) = Seen(n)
      BY <2>1, <2>3, <2>6
    <3> QED BY <2>1, <2>2, <2>6, <3>1
  <2> QED BY <2>5, <2>6
<1> HIDE DEF Q
<1>7. N \in Q
  BY <1>1, <1>5, <1>6, UpFromZero
<1>8. Good(N, h[1..N])
  <2> HIDE DEF Good
  <2> QED BY <1>1, <1>7 DEF Q
<1>9. ToSet(anc) = {anc[i] : i \in 1..N}
  BY <1>1 DEF ToSet
<1>10. h[1..N] \in Seq(S) /\ Completes(template, anc, h[1..N])
  BY <1>8, <1>9 DEF Completes
<1> HIDE DEF push
<1>11. /\ FoldLeft(push, template, anc) \in Seq(S)
       /\ Completes(template, anc, FoldLeft(push, template, anc))
  BY <1>2, <1>10
<1> QED BY <1>11 DEF push

\* A template in the making: nothing twice, with every transaction its
\* parents, and before one without children all of a set that is closed.
TemplateOK(m, txs) ==
    /\ txs \in Seq(InPool(m)) /\ IsInjective(txs)
    /\ \A u \in ToSet(txs) : m.entries[u].parents \subseteq ToSet(txs)
    /\ \A i \in 1..Len(txs) : m.entries[txs[i]].children = {} =>
          \E A \in SUBSET InPool(m) :
             /\ ClosedFrom(m, txs[i], A)
             /\ \A a \in A \ {txs[i]} : \E j \in 1..(i-1) : txs[j] = a

LEMMA ConsiderOK ==
  ASSUME NEW m, PoolSound(m), NEW rank \in SetToSeqs(InPool(m)), NEW w,
         NEW txs, TemplateOK(m, txs), NEW t \in InPool(m)
  PROVE  TemplateOK(m, Consider(m, rank, w, txs, t))
<1> DEFINE I == InPool(m)
           push(q, u) == IF u \in ToSet(q) THEN q ELSE Append(q, u)
           anc == GetAncestors(m, rank, t)
           r == FoldLeft(push, txs, anc)
           new == Append(r, t)
<1>1. \/ Consider(m, rank, w, txs, t) = txs
      \/ t \notin ToSet(txs) /\ Consider(m, rank, w, txs, t) = new
  BY DEF Consider
<1>2. /\ anc \in Seq(I) /\ t \notin ToSet(anc) /\ ClosedFrom(m, t, {t} \cup ToSet(anc))
      /\ \A a \in ToSet(anc) : m.entries[a].children # {}
  BY GetAncestorsFacts
<1> HIDE DEF anc
<1>3. txs \in Seq(I) /\ IsInjective(txs)
  BY DEF TemplateOK
<1>4. r \in Seq(I) /\ Completes(txs, anc, r)
  BY <1>2, <1>3, PushFacts
<1> HIDE DEF r
<1>5. ASSUME t \notin ToSet(txs) PROVE TemplateOK(m, new)
  <2>1. /\ new \in Seq(I) /\ Len(new) = Len(r) + 1 /\ Len(r) \in Nat
        /\ DOMAIN new = 1..(Len(r)+1) /\ DOMAIN r = 1..Len(r)
        /\ \A i \in 1..Len(r) : new[i] = r[i]
        /\ new[Len(r) + 1] = t /\ ToSet(new) = ToSet(r) \cup {t}
    BY <1>4, SeqAdds
  <2>2. Len(txs) \in Nat /\ DOMAIN txs = 1..Len(txs)
    BY <1>3
  <2>3. /\ IsInjective(r) /\ ToSet(r) = ToSet(txs) \cup ToSet(anc)
        /\ Len(txs) <= Len(r) /\ \A i \in 1..Len(txs) : r[i] = txs[i]
    BY <1>4 DEF Completes
  <2> HIDE DEF new
  <2>4. 1..(Len(r)+1) = (1..Len(r)) \cup {Len(r)+1}
    BY <2>1
  <2>5. t \notin ToSet(r) /\ \A i \in 1..Len(r) : r[i] # t /\ r[i] \in ToSet(r)
    BY <1>2, <1>5, <2>1, <2>3 DEF ToSet
  <2>6. IsInjective(new)
    <3>1. \A i, j \in 1..Len(r) : r[i] = r[j] => i = j
      BY <2>1, <2>3 DEF IsInjective
    <3> QED BY <2>1, <2>4, <2>5, <3>1 DEF IsInjective
  <2>7. ASSUME NEW u \in ToSet(new) PROVE m.entries[u].parents \subseteq ToSet(new)
    <3>1. CASE u \in ToSet(txs)
      BY <2>1, <2>3, <3>1 DEF TemplateOK
    <3>2. CASE u \in {t} \cup ToSet(anc)
      BY <1>2, <2>1, <2>3, <3>2 DEF ClosedFrom
    <3> QED BY <2>1, <2>3, <3>1, <3>2
  <2>8. ASSUME NEW i \in 1..Len(new), m.entries[new[i]].children = {}
        PROVE  \E A \in SUBSET I :
                  /\ ClosedFrom(m, new[i], A)
                  /\ \A a \in A \ {new[i]} : \E j \in 1..(i-1) : new[j] = a
    <3>1. CASE i \in 1..Len(txs)
      <4>1. i \in 1..Len(r) /\ new[i] = txs[i]
        BY <2>1, <2>2, <2>3, <3>1
      <4>2. PICK A \in SUBSET I :
               /\ ClosedFrom(m, txs[i], A)
               /\ \A a \in A \ {txs[i]} : \E j \in 1..(i-1) : txs[j] = a
        BY <2>8, <3>1, <4>1 DEF TemplateOK
      <4>3. \A j \in 1..(i-1) : j \in 1..Len(txs) /\ j \in 1..Len(r) /\ new[j] = txs[j]
        BY <2>1, <2>2, <2>3, <3>1
      <4>4. \A a \in A \ {new[i]} : \E j \in 1..(i-1) : new[j] = a
        BY <4>1, <4>2, <4>3
      <4> QED BY <4>1, <4>2, <4>4
    <3>2. CASE i \in 1..Len(r) /\ i \notin 1..Len(txs)
      <4>1. new[i] = r[i] /\ r[i] \in ToSet(txs) \cup ToSet(anc)
        BY <2>1, <2>3, <2>5, <3>2
      <4>2. ASSUME r[i] \in ToSet(txs) PROVE FALSE
        <5>1. PICK j \in 1..Len(txs) : txs[j] = r[i]
          BY <2>2, <4>2 DEF ToSet
        <5>2. j \in 1..Len(r) /\ r[j] = r[i]
          BY <2>1, <2>2, <2>3, <5>1
        <5>3. j = i
          BY <2>1, <2>3, <3>2, <5>2 DEF IsInjective
        <5> QED BY <3>2, <5>3
      <4> QED BY <1>2, <2>8, <4>1, <4>2
    <3>3. CASE i = Len(r) + 1
      <4> DEFINE A == {t} \cup ToSet(anc)
      <4>1. new[i] = t /\ i - 1 = Len(r) /\ ClosedFrom(m, t, A)
        BY <1>2, <2>1, <3>3
      <4>2. A \in SUBSET I
        BY <4>1 DEF ClosedFrom
      <4>3. ASSUME NEW a \in A \ {t} PROVE \E j \in 1..(i-1) : new[j] = a
        <5>1. a \in ToSet(r)
          BY <2>3
        <5>2. PICK j \in 1..Len(r) : r[j] = a
          BY <2>1, <5>1 DEF ToSet
        <5> QED BY <2>1, <4>1, <5>2
      <4> HIDE DEF A
      <4> QED BY <4>1, <4>2, <4>3
    <3> QED BY <2>1, <2>4, <3>1, <3>2, <3>3
  <2> QED BY <2>1, <2>6, <2>7, <2>8 DEF TemplateOK
<1> HIDE DEF new
<1> QED BY <1>1, <1>5

\* The template for one order of the entries and one of the parents.
Filled(m, rank, w, ord) ==
    FoldLeft(LAMBDA txs, t : Consider(m, rank, w, txs, t), << >>, ord)

\* The loop over the entries.
LEMMA TemplateFacts ==
  ASSUME NEW m, PoolSound(m), NEW w, NEW txs \in GetBlockTemplate(m, w)
  PROVE  TemplateOK(m, txs)
<1>1. PICK ord \in Sorted(m), rank \in SetToSeqs(InPool(m)) :
        txs = Filled(m, rank, w, ord)
  <2>1. GetBlockTemplate(m, w) =
          {Filled(m, rank, w, ord) : ord \in Sorted(m), rank \in SetToSeqs(InPool(m))}
    BY DEF GetBlockTemplate, Filled, FoldLeft, MapThenFoldSet
  <2> QED BY <2>1
<1> DEFINE I == InPool(m)
           N == Cardinality(I)
           X == {q \in Seq(I) : TemplateOK(m, q)}
           op(q, t) == Consider(m, rank, w, q, t)
           Solves(g) == g = [s \in SUBSET (1..N) |->
                               IF s = {} THEN << >> ELSE op(g[s \ {Max(s)}], ord[Max(s)])]
           h == CHOOSE g : Solves(g)
           F == [p \in X \X (1..N) |-> op(p[1], ord[p[2]])]
<1>2. N \in Nat /\ DOMAIN ord = 1..N /\ ord \in [1..N -> I]
  <2>1. IsFiniteSet(I)
    BY ParentsFacts
  <2> QED BY <1>1, <2>1, FS_CardinalityType DEF Sorted, SetToSeqs
<1>3. txs = h[1..N]
  <2>1. txs = h[DOMAIN ord]
    <3>1. Filled(m, rank, w, ord) = h[DOMAIN ord]
      BY <1>2, Zenon DEF Filled, FoldLeft, MapThenFoldSet
    <3> QED BY <1>1, <3>1
  <2> QED BY <1>2, <2>1
<1>4. \A q \in X, i \in 1..N : op(q, ord[i]) \in X
  <2> TAKE q \in X, i \in 1..N
  <2>1. TemplateOK(m, q) /\ ord[i] \in I
    BY <1>2
  <2>2. TemplateOK(m, op(q, ord[i]))
    BY <1>1, <2>1, ConsiderOK
  <2> HIDE DEF op
  <2> QED BY <2>2 DEF TemplateOK
<1>5. << >> \in X
  <2>1. << >> \in Seq(I) /\ ToSet(<< >>) = {} /\ IsInjective(<< >>) /\ Len(<< >>) = 0
    BY DEF ToSet, IsInjective
  <2> QED BY <2>1 DEF TemplateOK
<1> HIDE DEF N, X, op
<1> DEFINE b == << >>
<1>6. PICK g : Folds(N, X, b, F, g)
  <2>1. F \in [X \X (1..N) -> X]
    BY <1>4
  <2> HIDE DEF F, b
  <2> QED BY <1>2, <1>5, <2>1, FoldExists DEF b
<1>7. Solves(h)
  <2>1. ASSUME NEW s \in SUBSET (1..N), s # {}
        PROVE  F[<<g[s \ {Max(s)}], Max(s)>>] = op(g[s \ {Max(s)}], ord[Max(s)])
    <3>1. Max(s) \in 1..N /\ g[s \ {Max(s)}] \in X
      BY <1>2, <1>6, <2>1, MaxIn DEF Folds
    <3> QED BY <3>1
  <2> HIDE DEF F
  <2>2. Solves(g)
    BY <1>6, <2>1 DEF Folds
  <2> QED BY <2>2
<1> HIDE DEF h
<1>8. h[1..0] = << >> /\ \A i \in 1..N : h[1..i] = op(h[1..(i-1)], ord[i])
  <2>1. /\ 1..0 = {}
        /\ \A i \in 1..N : /\ 1..i \in SUBSET (1..N) /\ 1..i # {} /\ Max(1..i) = i
                           /\ (1..i) \ {i} = 1..(i-1)
    BY <1>2, FoldStages
  <2>2. \A s \in SUBSET (1..N) :
          h[s] = IF s = {} THEN << >> ELSE op(h[s \ {Max(s)}], ord[Max(s)])
    BY <1>7
  <2>3. h[{}] = << >>
    BY <2>2
  <2> QED BY <2>1, <2>2, <2>3
<1> DEFINE Q == {n \in Nat : n <= N => h[1..n] \in X}
<1>9. 0 \in Q
  BY <1>5, <1>8
<1>10. ASSUME NEW n \in Nat, n \in Q PROVE n + 1 \in Q
  <2> SUFFICES ASSUME n + 1 <= N PROVE h[1..(n+1)] \in X
    OBVIOUS
  <2>1. h[1..n] \in X /\ n + 1 \in 1..N /\ (n + 1) - 1 = n
    BY <1>2, <1>10
  <2>2. h[1..(n+1)] = op(h[1..n], ord[n+1])
    BY <1>8, <2>1
  <2> QED BY <1>4, <2>1, <2>2
<1> HIDE DEF Q
<1>11. N \in Q
  BY <1>2, <1>9, <1>10, UpFromZero
<1>12. h[1..N] \in X
  BY <1>2, <1>11 DEF Q
<1> QED BY <1>3, <1>12 DEF X

\* No template has a transaction twice or one without all its linked ancestors,
\* and all of them are before a transaction without linked children: for every
\* pool that calls can leave, every weight limit and every order of the hash
\* tables (get_block_template).
THEOREM TemplateAlwaysFollowsLinks == MPSpec => []TemplateFollowsLinks
<1>1. ASSUME PoolSound(pool) PROVE TemplateFollowsLinks
  <2> SUFFICES ASSUME NEW w \in Weights, NEW txs \in GetBlockTemplate(pool, w)
               PROVE  /\ IsInjective(txs)
                      /\ \A i \in DOMAIN txs : \A a \in Ancestors(pool, txs[i]) \ {txs[i]} :
                            \E j \in DOMAIN txs :
                              txs[j] = a /\ (pool.entries[txs[i]].children = {} => j < i)
    BY DEF TemplateFollowsLinks
  <2>1. TemplateOK(pool, txs)
    BY <1>1, TemplateFacts
  <2>2. /\ txs \in Seq(InPool(pool)) /\ IsInjective(txs) /\ Len(txs) \in Nat
        /\ DOMAIN txs = 1..Len(txs) /\ ToSet(txs) \subseteq InPool(pool)
    BY <2>1 DEF TemplateOK, ToSet
  <2>3. ASSUME NEW i \in DOMAIN txs, NEW a \in Ancestors(pool, txs[i]) \ {txs[i]}
        PROVE  \E j \in DOMAIN txs :
                  txs[j] = a /\ (pool.entries[txs[i]].children = {} => j < i)
    <3>1. CASE pool.entries[txs[i]].children = {}
      <4>1. PICK A \in SUBSET InPool(pool) :
               /\ ClosedFrom(pool, txs[i], A)
               /\ \A c \in A \ {txs[i]} : \E j \in 1..(i-1) : txs[j] = c
        BY <2>1, <2>2, <3>1 DEF TemplateOK
      <4>2. Ancestors(pool, txs[i]) \subseteq A
        BY <4>1, AncestorsWithin
      <4>3. PICK j \in 1..(i-1) : txs[j] = a
        BY <4>1, <4>2
      <4>4. j \in DOMAIN txs /\ j < i
        BY <2>2
      <4> QED BY <4>3, <4>4
    <3>2. CASE pool.entries[txs[i]].children # {}
      <4>1. ClosedFrom(pool, txs[i], ToSet(txs))
        BY <2>1, <2>2 DEF TemplateOK, ClosedFrom, ToSet
      <4>2. a \in ToSet(txs)
        BY <4>1, AncestorsWithin
      <4> QED BY <3>2, <4>2 DEF ToSet
    <3> QED BY <3>1, <3>2
  <2> QED BY <2>2, <2>3
<1> QED BY <1>1, MempoolCorrect, PTL
=============================================================================
