--------------------------- MODULE Ordered_proofs ---------------------------
(* Facts about the elements of a finite set of integers in order, and      *)
(* about remainders.                                                       *)
EXTENDS Ordered, FiniteSetTheorems, TLAPS

(* Different elements have different ranks. *)
LEMMA RankFacts ==
    ASSUME NEW S, S \subseteq Int, IsFiniteSet(S)
    PROVE  /\ Cardinality(S) \in Nat
           /\ \A x \in S : Rank(S, x) \in 0 .. Cardinality(S) - 1
           /\ \A x, y \in S : x < y => Rank(S, x) < Rank(S, y)
           /\ \A x, y \in S : Rank(S, x) = Rank(S, y) => x = y
<1> DEFINE Below(x) == {y \in S : y < x}
<1>1. Cardinality(S) \in Nat
  BY FS_CardinalityType
<1>2. \A x : IsFiniteSet(Below(x)) /\ Rank(S, x) \in Nat
  <2> TAKE x
  <2>1. Below(x) \in SUBSET S
    OBVIOUS
  <2>2. IsFiniteSet(Below(x))
    BY <2>1, FS_Subset
  <2> QED
    BY <2>2, FS_CardinalityType DEF Rank
<1>3. ASSUME NEW T, IsFiniteSet(T), NEW U \in SUBSET T, U # T
      PROVE  Cardinality(U) < Cardinality(T)
  <2>1. /\ Cardinality(U) <= Cardinality(T) /\ Cardinality(U) # Cardinality(T)
        /\ IsFiniteSet(U)
    BY <1>3, FS_Subset
  <2>2. Cardinality(U) \in Nat /\ Cardinality(T) \in Nat
    BY <1>3, <2>1, FS_CardinalityType
  <2> QED
    BY <2>1, <2>2
<1>4. ASSUME NEW x \in S PROVE Rank(S, x) \in 0 .. Cardinality(S) - 1
  <2>1. Below(x) \in SUBSET S /\ Below(x) # S
    OBVIOUS
  <2>2. Rank(S, x) < Cardinality(S)
    BY <1>3, <2>1 DEF Rank
  <2>3. Rank(S, x) \in Nat
    BY <1>2
  <2> QED
    BY <1>1, <2>2, <2>3
<1>5. ASSUME NEW x \in S, NEW y \in S, x < y PROVE Rank(S, x) < Rank(S, y)
  <2>1. \A z \in S : z < x => z < y
    BY <1>5
  <2>2. ~(x < x)
    OBVIOUS
  <2>3. Below(x) \in SUBSET Below(y) /\ x \in Below(y) /\ x \notin Below(x)
    BY <1>5, <2>1, <2>2, Zenon
  <2> QED
    BY <1>2, <1>3, <2>3 DEF Rank
<1>6. ASSUME NEW x \in S, NEW y \in S, Rank(S, x) = Rank(S, y) PROVE x = y
  <2>1. Rank(S, x) \in Nat /\ x \in Int /\ y \in Int
    BY <1>2
  <2> QED
    BY <1>5, <1>6, <2>1
<1> QED
  BY <1>1, <1>4, <1>5, <1>6

(* Every rank below the size of the set is the rank of an element. *)
LEMMA RankExists ==
    ASSUME NEW S, S \subseteq Int, IsFiniteSet(S), NEW n \in 0 .. Cardinality(S) - 1
    PROVE  \E x \in S : Rank(S, x) = n
<1> DEFINE T == 0 .. Cardinality(S) - 1
           f == [x \in S |-> Rank(S, x)]
<1>1. Cardinality(S) \in Nat
  BY RankFacts
<1>2. IsFiniteSet(T) /\ Cardinality(T) = Cardinality(S)
  <2>1. Cardinality(S) - 1 \in Int /\ 0 \in Int
    BY <1>1
  <2>2. /\ IsFiniteSet(T)
        /\ Cardinality(T) = IF 0 > Cardinality(S) - 1 THEN 0 ELSE (Cardinality(S) - 1) - 0 + 1
    BY <2>1, FS_Interval
  <2> QED
    BY <1>1, <2>2
<1>3. f \in [S -> T]
  BY RankFacts
<1>4. \A x \in S : f[x] = Rank(S, x)
  OBVIOUS
<1> HIDE DEF f
<1>5. f \in Injection(S, T)
  <2>1. \A x, y \in S : f[x] = f[y] => x = y
    BY <1>4, RankFacts
  <2> QED
    BY <1>3, <2>1 DEF Injection, IsInjective
<1>6. f \in Surjection(S, T)
  BY <1>2, <1>5, FS_Injection
<1>7. \E x \in S : f[x] = n
  BY <1>6 DEF Surjection
<1> QED
  BY <1>4, <1>7

(* The sequence has the elements of the set, and each of them once, in     *)
(* ascending order.                                                        *)
LEMMA InOrderFacts ==
    ASSUME NEW S, S \subseteq Int, IsFiniteSet(S)
    PROVE  /\ InOrder(S) \in Seq(S) /\ Len(InOrder(S)) = Cardinality(S)
           /\ Cardinality(S) \in Nat
           /\ \A n \in 1 .. Cardinality(S) : /\ InOrder(S)[n] \in S
                                             /\ Rank(S, InOrder(S)[n]) = n - 1
           /\ \A n, m \in 1 .. Cardinality(S) : n < m => InOrder(S)[n] < InOrder(S)[m]
           /\ \A x \in S : \E n \in 1 .. Cardinality(S) : InOrder(S)[n] = x
<1>1. Cardinality(S) \in Nat
  BY RankFacts
<1>2. ASSUME NEW n \in 1 .. Cardinality(S)
      PROVE  InOrder(S)[n] \in S /\ Rank(S, InOrder(S)[n]) = n - 1
  <2>1. n - 1 \in 0 .. Cardinality(S) - 1
    BY <1>1
  <2>2. \E x \in S : Rank(S, x) = n - 1
    BY <2>1, RankExists
  <2>3. InOrder(S)[n] = CHOOSE x \in S : Rank(S, x) = n - 1
    BY DEF InOrder
  <2> QED
    BY <2>2, <2>3
<1>3. /\ InOrder(S) \in Seq(S) /\ Len(InOrder(S)) = Cardinality(S)
  <2>1. InOrder(S) \in [1 .. Cardinality(S) -> S]
    <3>1. InOrder(S) = [n \in 1 .. Cardinality(S) |-> InOrder(S)[n]]
      BY DEF InOrder
    <3> QED
      BY <1>2, <3>1
  <2> QED
    BY <1>1, <2>1
<1>4. ASSUME NEW n \in 1 .. Cardinality(S), NEW m \in 1 .. Cardinality(S), n < m
      PROVE  InOrder(S)[n] < InOrder(S)[m]
  <2> DEFINE x == InOrder(S)[n]
             y == InOrder(S)[m]
  <2>1. x \in S /\ y \in S /\ Rank(S, x) = n - 1 /\ Rank(S, y) = m - 1
    BY <1>2
  <2> HIDE DEF x, y
  <2>2. x # y /\ ~(y < x)
    <3>1. y < x => Rank(S, y) < Rank(S, x)
      BY <2>1, RankFacts
    <3> QED
      BY <1>1, <1>4, <2>1, <3>1
  <2>3. x \in Int /\ y \in Int
    BY <2>1
  <2>4. x < y
    BY <2>2, <2>3
  <2> QED
    BY <2>4 DEF x, y
<1>5. ASSUME NEW x \in S PROVE \E n \in 1 .. Cardinality(S) : InOrder(S)[n] = x
  <2>1. Rank(S, x) \in 0 .. Cardinality(S) - 1
    BY RankFacts
  <2>2. PICK n \in 1 .. Cardinality(S) : Rank(S, x) = n - 1
    BY <1>1, <2>1
  <2>3. InOrder(S)[n] \in S /\ Rank(S, InOrder(S)[n]) = Rank(S, x)
    BY <1>2, <2>2
  <2>4. InOrder(S)[n] = x
    BY <2>3, RankFacts
  <2> QED
    BY <2>4
<1> QED
  BY <1>1, <1>2, <1>3, <1>4, <1>5

(* The elements of an interval follow on one another. *)
LEMMA InOrderInterval ==
    ASSUME NEW a \in Int, NEW b \in Int, a <= b + 1
    PROVE  /\ Cardinality(a .. b) = b - a + 1 /\ IsFiniteSet(a .. b)
           /\ \A n \in 1 .. b - a + 1 : InOrder(a .. b)[n] = a + n - 1
<1>1. IsFiniteSet(a .. b) /\ Cardinality(a .. b) = b - a + 1
  BY FS_Interval
<1>2. ASSUME NEW x \in a .. b PROVE Rank(a .. b, x) = x - a
  <2>1. {y \in a .. b : y < x} = a .. x - 1
    OBVIOUS
  <2>2. x - 1 \in Int /\ a <= x
    OBVIOUS
  <2>3. Cardinality(a .. x - 1) = IF a > x - 1 THEN 0 ELSE (x - 1) - a + 1
    BY <2>2, FS_Interval
  <2>4. Rank(a .. b, x) = Cardinality(a .. x - 1)
    BY <2>1 DEF Rank
  <2> QED
    BY <2>2, <2>3, <2>4
<1>3. ASSUME NEW n \in 1 .. b - a + 1 PROVE InOrder(a .. b)[n] = a + n - 1
  <2> DEFINE x == InOrder(a .. b)[n]
  <2>1. a .. b \subseteq Int
    OBVIOUS
  <2>2. x \in a .. b /\ Rank(a .. b, x) = n - 1
    BY <1>1, <2>1, InOrderFacts
  <2> HIDE DEF x
  <2>3. x = a + n - 1
    BY <1>2, <2>2
  <2> QED
    BY <2>3 DEF x
<1> QED
  BY <1>1, <1>3

(* An empty set has no elements. *)
LEMMA InOrderEmpty == InOrder({}) = << >> /\ Cardinality({}) = 0
<1>1. Cardinality({}) = 0
  BY FS_EmptySet
<1>2. InOrder({}) \in Seq({}) /\ Len(InOrder({})) = 0
  BY <1>1, FS_EmptySet, InOrderFacts
<1> QED
  BY <1>1, <1>2
-----------------------------------------------------------------------------
(* Remainders: the numbers of blocks on the wire. *)

(* Division with remainder. *)
LEMMA DivMod ==
    ASSUME NEW M \in Nat \ {0}, NEW a \in Nat
    PROVE  a % M \in 0 .. M - 1 /\ a \div M \in Nat /\ a = M * (a \div M) + (a % M)
<1>1. a % M \in 0 .. M - 1 /\ a \div M \in Int
  OBVIOUS
<1>2. a % M = a - M * (a \div M)
  OBVIOUS
<1>3. a \div M >= 0
  <2> SUFFICES ASSUME a \div M <= 0 - 1 PROVE FALSE
    BY <1>1
  <2>1. M * (a \div M) <= M * (0 - 1)
    BY <1>1
  <2> QED
    BY <1>1, <1>2, <2>1
<1>4. a = M * (a \div M) + (a % M)
  <2>1. M * (a \div M) \in Int
    BY <1>1
  <2> QED
    BY <1>1, <1>2, <2>1
<1> QED
  BY <1>1, <1>3, <1>4

(* The remainder is unique. *)
LEMMA ModUnique ==
    ASSUME NEW M \in Nat \ {0}, NEW q \in Nat, NEW r \in 0 .. M - 1
    PROVE  (M * q + r) % M = r
OBVIOUS

(* Numbers with the same remainder are at least M apart. *)
LEMMA ModSame ==
    ASSUME NEW M \in Nat \ {0}, NEW a \in Nat, NEW b \in Nat, a < b, a % M = b % M
    PROVE  a + M <= b
<1>1. /\ a = M * (a \div M) + (a % M) /\ b = M * (b \div M) + (b % M)
      /\ a \div M \in Nat /\ b \div M \in Nat
  BY DivMod
<1>2. M * (a \div M) < M * (b \div M)
  BY <1>1
<1>3. (a \div M) < (b \div M)
  BY <1>1, <1>2
<1>4. M * (a \div M + 1) <= M * (b \div M)
  BY <1>1, <1>3
<1> QED
  BY <1>1, <1>4

(* The remainder of the successor. *)
LEMMA ModSucc ==
    ASSUME NEW M \in Nat \ {0}, NEW a \in Nat
    PROVE  ((a % M) + 1) % M = (a + 1) % M
<1>1. a % M \in 0 .. M - 1 /\ a \div M \in Nat /\ a = M * (a \div M) + (a % M)
  BY DivMod
<1> PICK q \in Nat : q = a \div M
  BY <1>1
<1> PICK r \in 0 .. M - 1 : r = a % M
  BY <1>1
<1>2. a = M * q + r
  BY <1>1
<1>3. CASE r + 1 < M
  <2>1. a + 1 = M * q + (r + 1) /\ r + 1 = M * 0 + (r + 1) /\ r + 1 \in 0 .. M - 1
    BY <1>2, <1>3
  <2>2. (M * q + (r + 1)) % M = r + 1 /\ (M * 0 + (r + 1)) % M = r + 1
    BY <2>1, ModUnique
  <2> QED
    BY <2>1, <2>2
<1>4. CASE r + 1 = M
  <2>1. a + 1 = M * (q + 1) + 0 /\ r + 1 = M * 1 + 0 /\ 0 \in 0 .. M - 1 /\ q + 1 \in Nat
    BY <1>2, <1>4
  <2>2. (M * (q + 1) + 0) % M = 0 /\ (M * 1 + 0) % M = 0
    BY <2>1, ModUnique
  <2> QED
    BY <2>1, <2>2
<1> QED
  BY <1>3, <1>4
=============================================================================
