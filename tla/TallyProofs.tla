----------------------------- MODULE TallyProofs -----------------------------
(***************************************************************************)
(* How a tally changes with one value of the function.                     *)
(***************************************************************************)
EXTENDS Tallies, FunctionTheorems, FiniteSetTheorems, TLAPS

\* A value has as many units as it says.
LEMMA UnitsOfOne ==
    ASSUME NEW x, NEW n \in Int
    PROVE  /\ IsFiniteSet({x} \X (1 .. n))
           /\ Cardinality({x} \X (1 .. n)) = IF n > 0 THEN n ELSE 0
  <1> DEFINE U == {x} \X (1 .. n)
             b == [i \in 1 .. n |-> <<x, i>>]
  <1>1. b \in Bijection(1 .. n, U)
    <2>1. b \in [1 .. n -> U] /\ \A i, j \in 1 .. n : b[i] = b[j] => i = j
      OBVIOUS
    <2>2. \A u \in U : \E i \in 1 .. n : b[i] = u
      OBVIOUS
    <2> QED BY <2>1, <2>2, Fun_IsBij, Fun_IsInj, Fun_IsSurj
  <1>2. IsFiniteSet(1 .. n) /\ Cardinality(1 .. n) = IF 1 > n THEN 0 ELSE n - 1 + 1
    BY FS_Interval
  <1>3. IsFiniteSet(U) /\ Cardinality(U) = Cardinality(1 .. n)
    BY <1>1, <1>2, FS_Bijection DEF ExistsBijection
  <1> QED BY <1>2, <1>3

\* A function without positive values adds up to nothing.
LEMMA EmptyTally ==
    ASSUME NEW f, \A x \in DOMAIN f : f[x] \in Int /\ f[x] <= 0
    PROVE  IsFiniteSet(Units(f)) /\ Tally(f) = 0
  <1>1. \A x \in DOMAIN f : 1 .. f[x] = {}
    OBVIOUS
  <1>2. Units(f) = {}
    BY <1>1 DEF Units
  <1> QED BY <1>2, FS_EmptySet DEF Tally

\* Changing one value changes the sum by as much.
LEMMA TallyChange ==
    ASSUME NEW S, NEW f \in [S -> Int], NEW g \in [S -> Int], NEW x \in S,
           IsFiniteSet(Units(f)), \A y \in S \ {x} : g[y] = f[y]
    PROVE  /\ IsFiniteSet(Units(g))
           /\ Tally(g) \in Nat /\ Tally(f) \in Nat
           /\ Tally(g) = Tally(f) - (IF f[x] > 0 THEN f[x] ELSE 0)
                                  + (IF g[x] > 0 THEN g[x] ELSE 0)
  <1> DEFINE Rest == UNION {{y} \X (1 .. f[y]) : y \in S \ {x}}
             F == {x} \X (1 .. f[x])
             G == {x} \X (1 .. g[x])
  <1>1. Units(f) = Rest \cup F /\ Units(g) = Rest \cup G
    BY DEF Units
  <1>2. Rest \cap F = {} /\ Rest \cap G = {}
    OBVIOUS
  <1>3. IsFiniteSet(F) /\ Cardinality(F) = IF f[x] > 0 THEN f[x] ELSE 0
    BY UnitsOfOne
  <1>4. IsFiniteSet(G) /\ Cardinality(G) = IF g[x] > 0 THEN g[x] ELSE 0
    BY UnitsOfOne
  <1> HIDE DEF Rest, F, G
  <1>5. IsFiniteSet(Rest)
    <2>1. Rest \in SUBSET Units(f)
      BY <1>1
    <2> QED BY <2>1, FS_Subset
  <1>6. IsFiniteSet(Units(f)) /\ Cardinality(Units(f)) = Cardinality(Rest) + Cardinality(F)
    <2>1. /\ IsFiniteSet(Rest \cup F)
          /\ Cardinality(Rest \cup F)
             = Cardinality(Rest) + Cardinality(F) - Cardinality(Rest \cap F)
      BY <1>3, <1>5, FS_Union
    <2>2. Cardinality(Rest \cap F) = 0 /\ Cardinality(Rest) \in Nat /\ Cardinality(F) \in Nat
      BY <1>2, <1>3, <1>5, FS_EmptySet, FS_CardinalityType
    <2> QED BY <1>1, <2>1, <2>2
  <1>7. IsFiniteSet(Units(g)) /\ Cardinality(Units(g)) = Cardinality(Rest) + Cardinality(G)
    <2>1. /\ IsFiniteSet(Rest \cup G)
          /\ Cardinality(Rest \cup G)
             = Cardinality(Rest) + Cardinality(G) - Cardinality(Rest \cap G)
      BY <1>4, <1>5, FS_Union
    <2>2. Cardinality(Rest \cap G) = 0 /\ Cardinality(Rest) \in Nat /\ Cardinality(G) \in Nat
      BY <1>2, <1>4, <1>5, FS_EmptySet, FS_CardinalityType
    <2> QED BY <1>1, <2>1, <2>2
  <1>8. Cardinality(Rest) \in Nat
    BY <1>5, FS_CardinalityType
  <1> QED BY <1>3, <1>4, <1>6, <1>7, <1>8 DEF Tally
=============================================================================
