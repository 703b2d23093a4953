----------------------------- MODULE UnitsProofs -----------------------------
(***************************************************************************)
(* The laws of sums that the proofs about balances use, and the existence  *)
(* of least and greatest elements that the proofs about choices and about  *)
(* recursive functions use.                                                *)
(***************************************************************************)
EXTENDS Units, FiniteSetTheorems, WellFoundedInduction, TLAPS

\* The units of a sum.
LEMMA UnitsIn ==
    ASSUME NEW f, NEW u
    PROVE  u \in UnitsOf(f) <=> \E x \in DOMAIN f : \E k \in 1 .. f[x] : u = <<x, k>>
BY DEF UnitsOf

\* One member's units are as many as it is worth.
LEMMA UnitsOfOne ==
    ASSUME NEW x, NEW n \in Nat
    PROVE  IsFiniteSet({x} \X (1 .. n)) /\ Cardinality({x} \X (1 .. n)) = n
<1>1. IsFiniteSet({x}) /\ Cardinality({x}) = 1
  BY FS_Singleton
<1>2. IsFiniteSet(1 .. n) /\ Cardinality(1 .. n) = n
  <2>1. IsFiniteSet(1 .. n) /\ Cardinality(1 .. n) = IF 1 > n THEN 0 ELSE n - 1 + 1
    BY FS_Interval
  <2> QED BY <2>1
<1>3. /\ IsFiniteSet({x} \X (1 .. n))
      /\ Cardinality({x} \X (1 .. n)) = Cardinality({x}) * Cardinality(1 .. n)
  BY <1>1, <1>2, FS_Product
<1> QED BY <1>1, <1>2, <1>3

\* A sum is a natural number.
LEMMA SumType ==
    ASSUME NEW f, Summable(f)
    PROVE  IsFiniteSet(UnitsOf(f)) /\ SumOf(f) \in Nat
<1> DEFINE Block(x) == {x} \X (1 .. f[x])
           Blocks == {Block(x) : x \in DOMAIN f}
           F == [x \in DOMAIN f |-> Block(x)]
<1>1. IsFiniteSet(Blocks)
  <2>1. F \in Surjection(DOMAIN f, Blocks)
    BY DEF Surjection
  <2>2. IsFiniteSet(DOMAIN f)
    BY DEF Summable
  <2> QED BY <2>1, <2>2, FS_Surjection
<1>2. \A T \in Blocks : IsFiniteSet(T)
  <2>1. ASSUME NEW x \in DOMAIN f PROVE IsFiniteSet(Block(x))
    <3>1. f[x] \in Nat
      BY DEF Summable
    <3> QED BY <3>1, UnitsOfOne
  <2> HIDE DEF Block
  <2> QED BY <2>1
<1>3. IsFiniteSet(UNION Blocks)
  <2> HIDE DEF Blocks
  <2> QED BY <1>1, <1>2, FS_UNION
<1>4. IsFiniteSet(UnitsOf(f))
  BY <1>3 DEF UnitsOf
<1> QED BY <1>4, FS_CardinalityType DEF SumOf

\* The sum over nothing is 0.
LEMMA SumEmpty ==
    ASSUME NEW f, DOMAIN f = {}
    PROVE  SumOf(f) = 0
<1>1. UnitsOf(f) = {}
  BY DEF UnitsOf
<1> QED BY <1>1, FS_EmptySet DEF SumOf

\* One member may be set apart.
LEMMA SumSplit ==
    ASSUME NEW f, Summable(f), NEW g, NEW x \in DOMAIN f,
           DOMAIN g = DOMAIN f \ {x}, \A y \in DOMAIN g : g[y] = f[y]
    PROVE  Summable(g) /\ SumOf(f) = SumOf(g) + f[x]
<1>1. Summable(g)
  BY FS_Subset DEF Summable
<1> DEFINE B == {x} \X (1 .. f[x])
<1>2. UnitsOf(f) = UnitsOf(g) \cup B
  <2>1. ASSUME NEW u PROVE u \in UnitsOf(f) <=> u \in UnitsOf(g) \/ u \in B
    BY UnitsIn
  <2> QED BY <2>1
<1>3. UnitsOf(g) \cap B = {}
  BY UnitsIn
<1>4. IsFiniteSet(UnitsOf(g)) /\ SumOf(g) \in Nat
  BY <1>1, SumType
<1>5. IsFiniteSet(B) /\ Cardinality(B) = f[x]
  BY UnitsOfOne DEF Summable
<1>6. f[x] \in Nat
  BY DEF Summable
<1>7. Cardinality(UnitsOf(g) \cup B)
         = Cardinality(UnitsOf(g)) + Cardinality(B) - Cardinality(UnitsOf(g) \cap B)
  BY <1>4, <1>5, FS_Union
<1>8. Cardinality(UnitsOf(g) \cap B) = 0
  BY <1>3, FS_EmptySet
<1> HIDE DEF B
<1>9. SumOf(f) = SumOf(g) + f[x]
  BY <1>2, <1>4, <1>5, <1>6, <1>7, <1>8 DEF SumOf
<1> QED BY <1>1, <1>9

\* Changing one member's value changes the sum by the difference.
LEMMA SumChange ==
    ASSUME NEW f, Summable(f), NEW g, NEW x \in DOMAIN f,
           DOMAIN g = DOMAIN f, g[x] \in Nat,
           \A y \in DOMAIN f \ {x} : g[y] = f[y]
    PROVE  Summable(g) /\ SumOf(g) = SumOf(f) - f[x] + g[x]
<1>1. Summable(g)
  BY DEF Summable
<1> DEFINE h == [y \in DOMAIN f \ {x} |-> f[y]]
<1>2. Summable(h) /\ SumOf(f) = SumOf(h) + f[x]
  BY SumSplit
<1>3. SumOf(g) = SumOf(h) + g[x]
  BY <1>1, SumSplit
<1>4. SumOf(h) \in Nat /\ f[x] \in Nat
  BY <1>2, SumType DEF Summable
<1> HIDE DEF h
<1> QED BY <1>1, <1>2, <1>3, <1>4

\* A sum over a set is the sum over a part of it and over the rest.
LEMMA SumParts ==
    ASSUME NEW f, Summable(f), NEW g, NEW h, DOMAIN g \subseteq DOMAIN f,
           DOMAIN h = DOMAIN f \ DOMAIN g,
           \A x \in DOMAIN g : g[x] = f[x], \A x \in DOMAIN h : h[x] = f[x]
    PROVE  Summable(g) /\ Summable(h) /\ SumOf(f) = SumOf(g) + SumOf(h)
<1>1. Summable(g) /\ Summable(h)
  BY FS_Subset DEF Summable
<1>2. UnitsOf(f) = UnitsOf(g) \cup UnitsOf(h)
  <2>1. ASSUME NEW u \in UnitsOf(f) PROVE u \in UnitsOf(g) \cup UnitsOf(h)
    <3>1. PICK x \in DOMAIN f : \E k \in 1 .. f[x] : u = <<x, k>>
      BY <2>1, UnitsIn
    <3> QED BY <3>1, UnitsIn
  <2>2. ASSUME NEW u \in UnitsOf(g) \cup UnitsOf(h) PROVE u \in UnitsOf(f)
    BY <2>2, UnitsIn
  <2> QED BY <2>1, <2>2
<1>3. UnitsOf(g) \cap UnitsOf(h) = {}
  <2> SUFFICES ASSUME NEW u, u \in UnitsOf(g), u \in UnitsOf(h) PROVE FALSE
    OBVIOUS
  <2>1. PICK x \in DOMAIN g : \E k \in 1 .. g[x] : u = <<x, k>>
    BY UnitsIn
  <2>2. PICK y \in DOMAIN h : \E k \in 1 .. h[y] : u = <<y, k>>
    BY UnitsIn
  <2>3. x = y
    BY <2>1, <2>2
  <2> QED BY <2>1, <2>2, <2>3
<1>4. /\ IsFiniteSet(UnitsOf(g)) /\ IsFiniteSet(UnitsOf(h))
      /\ SumOf(g) \in Nat /\ SumOf(h) \in Nat
  BY <1>1, SumType
<1>5. Cardinality(UnitsOf(g) \cup UnitsOf(h))
        = Cardinality(UnitsOf(g)) + Cardinality(UnitsOf(h))
            - Cardinality(UnitsOf(g) \cap UnitsOf(h))
  BY <1>4, FS_Union
<1>6. Cardinality(UnitsOf(g) \cap UnitsOf(h)) = 0
  BY <1>3, FS_EmptySet
<1> QED BY <1>1, <1>2, <1>4, <1>5, <1>6 DEF SumOf

\* A sum over fewer members of smaller values is smaller.
LEMMA SumMonotonic ==
    ASSUME NEW f, Summable(f), NEW g, DOMAIN g \subseteq DOMAIN f,
           \A x \in DOMAIN g : g[x] \in Nat /\ g[x] <= f[x]
    PROVE  Summable(g) /\ SumOf(g) <= SumOf(f)
<1>1. Summable(g)
  BY FS_Subset DEF Summable
<1>2. UnitsOf(g) \subseteq UnitsOf(f)
  <2>1. ASSUME NEW u \in UnitsOf(g) PROVE u \in UnitsOf(f)
    <3>1. PICK x \in DOMAIN g : \E k \in 1 .. g[x] : u = <<x, k>>
      BY UnitsIn
    <3>2. PICK k \in 1 .. g[x] : u = <<x, k>>
      BY <3>1
    <3>3. k \in 1 .. f[x]
      BY DEF Summable
    <3> QED BY <3>2, <3>3, UnitsIn
  <2> QED BY <2>1
<1>3. IsFiniteSet(UnitsOf(f))
  BY SumType
<1> QED BY <1>1, <1>2, <1>3, FS_Subset DEF SumOf

\* Each member's value is within the sum.
LEMMA SumBounds ==
    ASSUME NEW f, Summable(f), NEW x \in DOMAIN f
    PROVE  f[x] <= SumOf(f)
<1> DEFINE h == [y \in DOMAIN f \ {x} |-> f[y]]
<1>1. Summable(h) /\ SumOf(f) = SumOf(h) + f[x]
  BY SumSplit
<1>2. SumOf(h) \in Nat /\ f[x] \in Nat
  BY <1>1, SumType DEF Summable
<1> HIDE DEF h
<1> QED BY <1>1, <1>2

-----------------------------------------------------------------------------

\* Every set of naturals has a least member.
LEMMA LeastNat ==
    ASSUME NEW T \in SUBSET Nat, T # {}
    PROVE  \E n \in T : \A m \in T : n <= m
<1> DEFINE R == {p \in Nat \X Nat : p[1] < p[2]}
<1>1. IsWellFoundedOn(R, Nat)
  BY NatLessThanWellFounded DEF OpToRel
<1>2. PICK n \in T : \A m \in T : ~(<<m, n>> \in R)
  <2> HIDE DEF R
  <2> QED BY <1>1, WFMin
<1>3. \A m \in T : ~(m < n)
  BY <1>2
<1> QED BY <1>2, <1>3

\* A set of naturals that holds 0, and with a number the next one, holds them
\* all.  Facts about recursive functions are proved with the set of the
\* numbers they hold for.
LEMMA Induct ==
    ASSUME NEW S \in SUBSET Nat, 0 \in S, \A n \in S : n + 1 \in S
    PROVE  S = Nat
<1>1. SUFFICES ASSUME Nat \ S # {} PROVE FALSE
  OBVIOUS
<1>2. PICK m \in Nat \ S : \A k \in Nat \ S : m <= k
  BY <1>1, LeastNat
<1>3. m # 0
  BY <1>2
<1>4. m - 1 \in S
  BY <1>2, <1>3
<1> QED BY <1>2, <1>4

\* A finite set has a member of the greatest worth: in a smallest subset that
\* had none, the others would have one.
LEMMA FiniteMax ==
    ASSUME NEW S, IsFiniteSet(S), S # {}, NEW f, \A x \in S : f[x] \in Int
    PROVE  \E x \in S : \A y \in S : f[y] <= f[x]
<1> DEFINE Topped(U) == \E x \in U : \A y \in U : f[y] <= f[x]
           Bad == {n \in Nat : \E U \in SUBSET S :
                                  U # {} /\ Cardinality(U) = n /\ ~Topped(U)}
<1>1. ASSUME ~Topped(S) PROVE FALSE
  <2>1. Cardinality(S) \in Bad
    BY <1>1, FS_CardinalityType
  <2>2. PICK n \in Bad : \A m \in Bad : n <= m
    <3>1. Bad \in SUBSET Nat /\ Bad # {}
      BY <2>1
    <3> HIDE DEF Bad
    <3> QED BY <3>1, LeastNat
  <2>3. PICK U \in SUBSET S : U # {} /\ Cardinality(U) = n /\ ~Topped(U)
    OBVIOUS
  <2>4. PICK u \in U : TRUE
    BY <2>3
  <2>5. IsFiniteSet(U) /\ IsFiniteSet(U \ {u}) /\ Cardinality(U \ {u}) = n - 1
    BY <2>3, <2>4, FS_Subset, FS_RemoveElement
  <2>6. Cardinality(U \ {u}) \in Nat /\ n \in Nat
    BY <2>5, FS_CardinalityType
  <2>7. Cardinality(U \ {u}) \notin Bad
    BY <2>2, <2>5, <2>6
  <2>8. U \ {u} = {} \/ Topped(U \ {u})
    BY <2>3, <2>6, <2>7
  <2>9. CASE U \ {u} = {}
    <3>1. U = {u} /\ f[u] \in Int
      BY <2>3, <2>4, <2>9
    <3> QED BY <2>3, <3>1
  <2>10. CASE Topped(U \ {u})
    <3>1. PICK v \in U \ {u} : \A y \in U \ {u} : f[y] <= f[v]
      BY <2>10
    <3>2. f[u] \in Int /\ f[v] \in Int /\ \A y \in U : f[y] \in Int
      BY <2>3, <2>4, <3>1
    <3>3. CASE f[u] <= f[v]
      BY <2>3, <3>1, <3>2, <3>3
    <3>4. CASE f[v] <= f[u]
      BY <2>3, <2>4, <3>1, <3>2, <3>4
    <3> QED BY <3>2, <3>3, <3>4
  <2> QED BY <2>8, <2>9, <2>10
<1> QED BY <1>1

\* The image of a finite set is finite, and has a maximum.
LEMMA ImageMax ==
    ASSUME NEW S, IsFiniteSet(S), S # {}, NEW f, \A x \in S : f[x] \in Int
    PROVE  \E m \in {f[x] : x \in S} : m \in Int /\ \A n \in {f[x] : x \in S} : n <= m
BY FiniteMax

\* ... and one of the least.
LEMMA FiniteMin ==
    ASSUME NEW S, IsFiniteSet(S), S # {}, NEW f, \A x \in S : f[x] \in Int
    PROVE  \E x \in S : \A y \in S : f[x] <= f[y]
<1> DEFINE g == [x \in S |-> -f[x]]
<1>1. \A x \in S : g[x] \in Int /\ g[x] = -f[x]
  OBVIOUS
<1> HIDE DEF g
<1>2. PICK x \in S : \A y \in S : g[y] <= g[x]
  BY <1>1, FiniteMax
<1>3. \A y \in S : f[x] <= f[y]
  BY <1>1, <1>2
<1> QED BY <1>3

\* Multiplying keeps the order.
LEMMA Scaled ==
  ASSUME NEW a \in Nat, NEW b \in Nat, NEW m \in Nat, a <= b
  PROVE  a * m <= b * m
<1>1. PICK d \in Nat : b = a + d
  <2>1. b - a \in Nat /\ b = a + (b - a) OBVIOUS
  <2> QED BY <2>1
<1>2. b * m = a * m + d * m BY <1>1
<1>3. d * m \in Nat /\ a * m \in Nat BY <1>1
<1> QED BY <1>2, <1>3
=============================================================================
