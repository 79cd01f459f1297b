------------------------- MODULE LedgerSumTheorems -------------------------
(* How the sums of LedgerSums change when one entry of the function does.  *)
EXTENDS LedgerSums, FiniteSetTheorems, FunctionTheorems, TLAPS

\* Disjoint finite sets add up.
LEMMA DisjointUnion ==
    ASSUME NEW S, NEW T, IsFiniteSet(S), IsFiniteSet(T), S \cap T = {}
    PROVE  Cardinality(S \cup T) = Cardinality(S) + Cardinality(T)
<1>1. Cardinality(S \cup T) = Cardinality(S) + Cardinality(T) - Cardinality(S \cap T)
  BY FS_Union
<1>2. Cardinality(S \cap T) = 0
  BY FS_EmptySet
<1>3. Cardinality(S) \in Nat /\ Cardinality(T) \in Nat
  BY FS_CardinalityType
<1> QED BY <1>1, <1>2, <1>3

\* A block has as many elements as it has units.
LEMMA BlockSize ==
    ASSUME NEW x, NEW n \in Nat
    PROVE  IsFiniteSet(Block(x, n)) /\ Cardinality(Block(x, n)) = n
<1> DEFINE F == [k \in 1 .. n |-> <<x, k>>]
<1>1. F \in Bijection(1 .. n, Block(x, n))
  <2>1. F \in [1 .. n -> Block(x, n)]
    BY DEF Block
  <2>2. \A j, k \in 1 .. n : F[j] = F[k] => j = k
    OBVIOUS
  <2>3. \A t \in Block(x, n) : \E k \in 1 .. n : F[k] = t
    BY DEF Block
  <2> QED BY <2>1, <2>2, <2>3, Fun_IsBij
<1>2. ExistsBijection(1 .. n, Block(x, n))
  BY <1>1 DEF ExistsBijection
<1>3. IsFiniteSet(1 .. n) /\ Cardinality(1 .. n) = n
  <2> HIDE DEF F
  <2> QED BY FS_Interval
<1> QED BY <1>2, <1>3, FS_Bijection

\* The units of a function with a finite domain are finitely many.
LEMMA UnitsFinite ==
    ASSUME NEW f, IsFiniteSet(DOMAIN f), f \in [DOMAIN f -> Nat]
    PROVE  IsFiniteSet(Units(f))
<1> DEFINE Blocks == {Block(x, f[x]) : x \in DOMAIN f}
           G == [x \in DOMAIN f |-> Block(x, f[x])]
<1>1. G \in Surjection(DOMAIN f, Blocks)
  BY Fun_IsSurj
<1>2. IsFiniteSet(Blocks)
  BY <1>1, FS_Surjection
<1>3. \A b \in Blocks : IsFiniteSet(b)
  BY BlockSize
<1>4. IsFiniteSet(UNION Blocks)
  <2> HIDE DEF Blocks
  <2> QED BY <1>2, <1>3, FS_UNION
<1> QED BY <1>4 DEF Units

\* A sum is a natural number.
LEMMA TotalNat ==
    ASSUME NEW f, IsFiniteSet(DOMAIN f), f \in [DOMAIN f -> Nat]
    PROVE  Total(f) \in Nat
BY UnitsFinite, FS_CardinalityType DEF Total

\* One entry is at most the sum.
LEMMA EntryAtMostTotal ==
    ASSUME NEW f, IsFiniteSet(DOMAIN f), f \in [DOMAIN f -> Nat], NEW x \in DOMAIN f
    PROVE  f[x] <= Total(f)
<1>1. Block(x, f[x]) \in SUBSET Units(f)
  BY DEF Units
<1>2. Cardinality(Block(x, f[x])) <= Cardinality(Units(f))
  BY <1>1, UnitsFinite, FS_Subset
<1> QED BY <1>2, BlockSize DEF Total

\* A function that is 0 everywhere (the one with no entry included) sums to 0.
LEMMA TotalZero ==
    ASSUME NEW f, \A x \in DOMAIN f : f[x] = 0
    PROVE  Total(f) = 0
<1>1. Units(f) = {}
  BY DEF Units, Block
<1> QED BY <1>1, FS_EmptySet DEF Total

\* Changing one entry, or adding one, changes the sum by the difference.
LEMMA TotalUpdate ==
    ASSUME NEW f, IsFiniteSet(DOMAIN f), f \in [DOMAIN f -> Nat],
           NEW x,
           NEW g, g \in [DOMAIN g -> Nat], DOMAIN g = DOMAIN f \cup {x},
           \A y \in DOMAIN f \ {x} : g[y] = f[y]
    PROVE  Total(g) = Total(f) - (IF x \in DOMAIN f THEN f[x] ELSE 0) + g[x]
<1> DEFINE old == IF x \in DOMAIN f THEN f[x] ELSE 0
           Rest == UNION {Block(y, f[y]) : y \in DOMAIN f \ {x}}
<1>1. old \in Nat /\ g[x] \in Nat
  OBVIOUS
<1>2. Units(f) = Rest \cup Block(x, old)
  BY DEF Units, Block
<1>3. Units(g) = Rest \cup Block(x, g[x])
  BY DEF Units
<1>4. Rest \cap Block(x, old) = {} /\ Rest \cap Block(x, g[x]) = {}
  BY DEF Block
<1>5. IsFiniteSet(Rest) /\ Cardinality(Rest) \in Nat
  <2>1. Rest \in SUBSET Units(f)
    BY DEF Units
  <2> QED BY <2>1, UnitsFinite, FS_Subset, FS_CardinalityType
<1> HIDE DEF old, Rest
<1>6. Total(f) = Cardinality(Rest) + old
  <2>1. IsFiniteSet(Block(x, old)) /\ Cardinality(Block(x, old)) = old
    BY <1>1, BlockSize
  <2> QED BY <1>2, <1>4, <1>5, <2>1, DisjointUnion DEF Total
<1>7. Total(g) = Cardinality(Rest) + g[x]
  <2>1. IsFiniteSet(Block(x, g[x])) /\ Cardinality(Block(x, g[x])) = g[x]
    BY <1>1, BlockSize
  <2> QED BY <1>3, <1>4, <1>5, <2>1, DisjointUnion DEF Total
<1> QED BY <1>1, <1>5, <1>6, <1>7 DEF old
=============================================================================
