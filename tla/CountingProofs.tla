--------------------------- MODULE CountingProofs ---------------------------
(***************************************************************************)
(* Facts about numbers that the proofs of several components rest on: the  *)
(* least element of a set of them, induction over a set, powers of two (a  *)
(* subnet's size), division by one, and sums of counters (Tally).          *)
(***************************************************************************)
EXTENDS Tally, Integers, FiniteSetTheorems, TLAPS

-----------------------------------------------------------------------------
(* The order of numbers.  The set of those up to a number is finite, and   *)
(* strict inclusion of finite sets is well founded.                        *)

\* Every set of natural numbers that is not empty has a least element.
LEMMA LeastNumber ==
    ASSUME NEW T, T \subseteq Nat, T # {}
    PROVE  \E x \in T : \A y \in T : x <= y
<1> DEFINE upTo(x) == {y \in T : y <= x}
           F == {upTo(x) : x \in T}
<1>1. \A x \in T : upTo(x) \in FiniteSubsetsOf(Nat)
    <2> SUFFICES ASSUME NEW x \in T PROVE upTo(x) \in FiniteSubsetsOf(Nat)
        OBVIOUS
    <2>1. x \in Nat /\ upTo(x) \in SUBSET Nat /\ \A y \in upTo(x) : y <= x
        OBVIOUS
    <2> HIDE DEF upTo
    <2>2. IsFiniteSet(upTo(x))
        BY <2>1, FS_BoundedSetOfNaturals
    <2> QED
        BY <2>1, <2>2 DEF FiniteSubsetsOf
<1>2. F \subseteq FiniteSubsetsOf(Nat) /\ F # {}
    BY <1>1
<1>3. IsWellFoundedOn(StrictSubsetOrdering(Nat), FiniteSubsetsOf(Nat))
    BY FS_StrictSubsetOrderingWellFounded
<1> HIDE DEF F
<1>4. PICK A \in F : \A B \in F : ~(<<B, A>> \in StrictSubsetOrdering(Nat))
    BY <1>2, <1>3, WFMin
<1>5. PICK x \in T : A = upTo(x)
    BY DEF F
<1>6. ASSUME NEW y \in T, ~(x <= y) PROVE FALSE
    <2>0. x \in Nat /\ y \in Nat /\ y < x
        BY <1>6
    <2>1. upTo(y) \subseteq upTo(x) /\ x \in upTo(x) /\ x \notin upTo(y)
        <3>1. x \in upTo(x) /\ x \notin upTo(y)
            BY <2>0
        <3>2. \A z \in T : z <= y => z <= x
            BY <2>0
        <3> QED
            BY <3>1, <3>2
    <2>2. upTo(y) \in F /\ upTo(y) \in SUBSET Nat /\ upTo(x) \in SUBSET Nat
        BY DEF F
    <2> HIDE DEF upTo
    <2>3. <<upTo(y), upTo(x)>> \in StrictSubsetOrdering(Nat)
        BY <2>1, <2>2 DEF StrictSubsetOrdering
    <2> QED
        BY <1>4, <1>5, <2>2, <2>3
<1> QED
    BY <1>6

\* Induction: a set that has 0, and with each number the next, has all.
LEMMA AllNumbers ==
    ASSUME NEW T, 0 \in T, \A n \in Nat : n \in T => n + 1 \in T
    PROVE  Nat \subseteq T
<1>1. SUFFICES ASSUME Nat \ T # {} PROVE FALSE
    OBVIOUS
<1>2. PICK x \in Nat \ T : \A y \in Nat \ T : x <= y
    BY <1>1, LeastNumber
<1>3. x # 0 /\ x - 1 \in Nat
    BY <1>2
<1> QED
    BY <1>2, <1>3

\* A bounded set of numbers has a greatest element.
LEMMA GreatestNumber ==
    ASSUME NEW n \in Nat, NEW T, T \subseteq 1..n, T # {}
    PROVE  \E x \in T : \A y \in T : y <= x
<1> DEFINE D == {n - y : y \in T}
<1>1. D \subseteq Nat /\ D # {}
    <2>1. \A y \in T : n - y \in Nat
        OBVIOUS
    <2> QED
        BY <2>1
<1> HIDE DEF D
<1>2. PICK d \in D : \A e \in D : d <= e
    BY <1>1, LeastNumber
<1>3. PICK x \in T : d = n - x
    BY DEF D
<1>4. ASSUME NEW y \in T PROVE y <= x
    <2>1. n - y \in D
        BY DEF D
    <2>2. x \in 1..n /\ y \in 1..n /\ n - x <= n - y
        BY <1>2, <1>3, <2>1
    <2> QED
        BY <2>2
<1> QED
    BY <1>4

-----------------------------------------------------------------------------
(* Powers of two, and numbers that divide by one.                         *)

\* A set of n elements has 2^n subsets.
LEMMA PowerType ==
    ASSUME NEW n \in Nat
    PROVE  2^n \in Nat \ {0} /\ IsFiniteSet(SUBSET (1..n)) /\ Cardinality(SUBSET (1..n)) = 2^n
<1>1. IsFiniteSet(1..n) /\ Cardinality(1..n) = n
    BY FS_Interval
<1>2. IsFiniteSet(SUBSET (1..n)) /\ Cardinality(SUBSET (1..n)) = 2^n
    BY <1>1, FS_SUBSET
<1>3. SUBSET (1..n) # {}
    OBVIOUS
<1> QED
    BY <1>2, <1>3, FS_CardinalityType, FS_EmptySet

LEMMA PowerSum ==
    ASSUME NEW a \in Nat, NEW b \in Nat
    PROVE  2^(a + b) = 2^a * 2^b
<1> DEFINE A == 1..a
           B == a + 1..a + b
           C == 1..a + b
           split == [X \in SUBSET C |-> <<X \cap A, X \cap B>>]
<1>1. IsFiniteSet(A) /\ Cardinality(A) = a
    BY FS_Interval
<1>2. IsFiniteSet(B) /\ Cardinality(B) = b
    <2>1. a + 1 \in Int /\ a + b \in Int /\ (IF a + 1 > a + b THEN 0 ELSE (a + b) - (a + 1) + 1) = b
        OBVIOUS
    <2> QED
        BY <2>1, FS_Interval
<1>3. IsFiniteSet(C) /\ Cardinality(C) = a + b
    <2>1. 1 \in Int /\ a + b \in Int /\ (IF 1 > a + b THEN 0 ELSE (a + b) - 1 + 1) = a + b
        OBVIOUS
    <2> QED
        BY <2>1, FS_Interval
<1>4. C = A \cup B /\ A \cap B = {}
    OBVIOUS
<1> HIDE DEF A, B, C
<1>5. IsFiniteSet(SUBSET A) /\ Cardinality(SUBSET A) = 2^a
    BY <1>1, FS_SUBSET
<1>6. IsFiniteSet(SUBSET B) /\ Cardinality(SUBSET B) = 2^b
    BY <1>2, FS_SUBSET
<1>7. IsFiniteSet(SUBSET C) /\ Cardinality(SUBSET C) = 2^(a + b)
    BY <1>3, FS_SUBSET
<1>8. Cardinality((SUBSET A) \X (SUBSET B)) = 2^a * 2^b
    BY <1>5, <1>6, FS_Product
<1>9. split \in Bijection(SUBSET C, (SUBSET A) \X (SUBSET B))
    <2>1. /\ split \in [SUBSET C -> (SUBSET A) \X (SUBSET B)]
          /\ \A X \in SUBSET C : split[X] = <<X \cap A, X \cap B>>
        OBVIOUS
    <2> HIDE DEF split
    <2>2. ASSUME NEW X \in SUBSET C, NEW Y \in SUBSET C, split[X] = split[Y] PROVE X = Y
        <3>1. X \cap A = Y \cap A /\ X \cap B = Y \cap B
            BY <2>1, <2>2
        <3> QED
            BY <1>4, <3>1
    <2>3. ASSUME NEW P \in (SUBSET A) \X (SUBSET B) PROVE \E X \in SUBSET C : split[X] = P
        <3> DEFINE X == P[1] \cup P[2]
        <3>1. P[1] \subseteq A /\ P[2] \subseteq B /\ P = <<P[1], P[2]>>
            OBVIOUS
        <3>2. X \in SUBSET C /\ X \cap A = P[1] /\ X \cap B = P[2]
            BY <1>4, <3>1
        <3> HIDE DEF X
        <3> QED
            BY <2>1, <3>1, <3>2
    <2> QED
        BY <2>1, <2>2, <2>3 DEF Bijection, Injection, Surjection, IsInjective
<1> HIDE DEF split
<1>10. ExistsBijection(SUBSET C, (SUBSET A) \X (SUBSET B))
    BY <1>9 DEF ExistsBijection
<1> QED
    BY <1>7, <1>8, <1>10, FS_Bijection

LEMMA PowerValues == 2^0 = 1 /\ 2^1 = 2 /\ 2^2 = 4
<1>1. 2^0 = 1
    <2>1. SUBSET (1..0) = {{}}
        OBVIOUS
    <2> QED
        BY <2>1, PowerType, FS_Singleton
<1>2. 2^1 = 2
    <2>1. SUBSET (1..1) = {{}} \cup {{1}}
        OBVIOUS
    <2>2. {1} \notin {{}}
        OBVIOUS
    <2>3. IsFiniteSet({{}}) /\ Cardinality({{}}) = 1
        BY FS_Singleton
    <2>4. Cardinality({{}} \cup {{1}}) = 2
        <3> DEFINE S == {{}}
                   x == {1}
        <3>1. IsFiniteSet(S) /\ Cardinality(S) = 1 /\ x \notin S
            BY <2>2, <2>3
        <3> HIDE DEF S, x
        <3>2. Cardinality(S \cup {x}) = 2
            BY <3>1, FS_AddElement
        <3> QED
            BY <3>2 DEF S, x
    <2> QED
        BY <2>1, <2>4, PowerType
<1>3. 2^(1 + 1) = 2^1 * 2^1
    BY PowerSum
<1> QED
    BY <1>1, <1>2, <1>3

LEMMA PowerGrows ==
    ASSUME NEW n \in Nat, n >= 2
    PROVE  2^n >= 4
<1>1. n - 2 \in Nat /\ 2 + (n - 2) = n
    OBVIOUS
<1>2. 2^(2 + (n - 2)) = 2^2 * 2^(n - 2)
    BY <1>1, PowerSum
<1>3. 2^(n - 2) \in Nat \ {0}
    BY <1>1, PowerType
<1> DEFINE m == 2^(n - 2)
<1>4. 2^n = 4 * m /\ m \in Nat \ {0}
    BY <1>1, <1>2, <1>3, PowerValues
<1> HIDE DEF m
<1> QED
    BY <1>4

\* The addresses with the same quotient as a multiple of the divisor.
LEMMA SameQuotient ==
    ASSUME NEW s \in Nat \ {0}, NEW x \in Nat, NEW y \in Nat, y % s = 0
    PROVE  x \div s = y \div s <=> y <= x /\ x <= y + s - 1
<1> DEFINE q == x \div s
           k == y \div s
           r == x % s
<1>1. q \in Nat /\ k \in Nat /\ r \in 0..s - 1 /\ x = s * q + r /\ y = s * k
    OBVIOUS
<1> HIDE DEF q, k, r
<1>2. CASE q = k
    BY <1>1, <1>2 DEF q, k
<1>3. CASE q < k
    <2>1. k - q - 1 \in Nat
        BY <1>1, <1>3
    <2>2. s * (k - q - 1) \in Nat /\ s * k = s * q + s + s * (k - q - 1)
        BY <1>1, <2>1
    <2>3. x < y
        BY <1>1, <2>2
    <2> QED
        BY <1>1, <1>3, <2>3 DEF q, k
<1>4. CASE q > k
    <2>1. q - k - 1 \in Nat
        BY <1>1, <1>4
    <2>2. s * (q - k - 1) \in Nat /\ s * q = s * k + s + s * (q - k - 1)
        BY <1>1, <2>1
    <2>3. x > y + s - 1
        BY <1>1, <2>2
    <2> QED
        BY <1>1, <1>4, <2>3 DEF q, k
<1> QED
    BY <1>1, <1>2, <1>3, <1>4

-----------------------------------------------------------------------------
(* Sums of counters.                                                       *)

\* The counters of a finite set of things have a sum.
LEMMA TallyType ==
    ASSUME NEW S, IsFiniteSet(S), NEW f \in [S -> Nat]
    PROVE  IsFiniteSet(Units(f)) /\ Tally(f) \in Nat
<1> DEFINE part(x) == {x} \X (1..f[x])
           parts == {part(x) : x \in S}
<1>1. \A x \in S : IsFiniteSet(part(x))
    <2> SUFFICES ASSUME NEW x \in S PROVE IsFiniteSet({x} \X (1..f[x]))
        OBVIOUS
    <2> DEFINE n == f[x]
    <2>n. n \in Int /\ 1 \in Int
        OBVIOUS
    <2> HIDE DEF n
    <2>1. IsFiniteSet({x}) /\ IsFiniteSet(1..n)
        BY <2>n, FS_Singleton, FS_Interval
    <2> QED
        BY <2>1, FS_Product DEF n
<1> HIDE DEF part
<1>2. IsFiniteSet(parts)
    <2> DEFINE onto == [x \in S |-> part(x)]
    <2>1. onto \in Surjection(S, parts)
        BY DEF Surjection
    <2> QED
        BY <2>1, FS_Surjection
<1> HIDE DEF parts
<1>3. IsFiniteSet(UNION parts)
    <2>1. \A T \in parts : IsFiniteSet(T)
        BY <1>1 DEF parts
    <2> QED
        BY <1>2, <2>1, FS_UNION
<1>4. Units(f) = UNION parts
    BY DEF Units, parts, part
<1> QED
    BY <1>3, <1>4, FS_CardinalityType DEF Tally

LEMMA UnitsAre ==
    ASSUME NEW f
    PROVE  Units(f) = {u \in (DOMAIN f) \X Nat : u[2] \in 1..f[u[1]]}
BY DEF Units

\* Counting nothing, counting once more, and counting no more than before.
LEMMA TallyZero ==
    ASSUME NEW f, \A x \in DOMAIN f : f[x] = 0
    PROVE  Tally(f) = 0
<1>1. Units(f) = {}
    BY DEF Units
<1> QED
    BY <1>1, FS_EmptySet DEF Tally

LEMMA TallyOneMore ==
    ASSUME NEW S, IsFiniteSet(S), NEW f \in [S -> Nat], NEW g, NEW u,
           u \notin Units(f), Units(g) = Units(f) \cup {u}
    PROVE  Tally(g) = Tally(f) + 1
<1>1. IsFiniteSet(Units(f))
    BY TallyType
<1> QED
    BY <1>1, FS_AddElement DEF Tally

LEMMA TallyNoMore ==
    ASSUME NEW S, IsFiniteSet(S), NEW f \in [S -> Nat], NEW g \in [S -> Nat],
           \A y \in S : g[y] <= f[y]
    PROVE  Tally(g) <= Tally(f)
<1>1. Units(g) \subseteq Units(f)
    BY UnitsAre
<1> QED
    BY <1>1, TallyType, FS_Subset DEF Tally
=============================================================================
