--------------------------- MODULE LocalOptProofs ---------------------------
(***************************************************************************)
(* Proofs about LocalOpt, for every program, number of bits and number of  *)
(* rounds: each of the three passes keeps what the program computes, and   *)
(* so do the three together.                                               *)
(***************************************************************************)
EXTENDS LocalOpt, WellFoundedInduction, TLAPS

-----------------------------------------------------------------------------
(* Induction and recursion up to a bound *)

LEMMA Least ==
    ASSUME NEW S \in SUBSET Nat, S # {} PROVE \E j \in S : \A h \in S : j <= h
<1>1. S \subseteq Nat /\ S # {}
  OBVIOUS
<1>2. \E j \in S : \A h \in S : ~ (<<h, j>> \in OpToRel(<, Nat))
  BY <1>1, NatLessThanWellFounded, WFMin, Zenon
<1>3. PICK j \in S : \A h \in S : ~ (<<h, j>> \in OpToRel(<, Nat))
  BY <1>2, Zenon
<1>4. \A h \in S : ~(h < j)
  <2>1. SUFFICES ASSUME NEW h \in S, h < j PROVE FALSE
    OBVIOUS
  <2>2. <<h, j>> \in OpToRel(<, Nat)
    BY <1>1, <2>1 DEF OpToRel
  <2>3. QED
    BY <1>3, <2>2, Zenon
<1>5. QED
  BY <1>1, <1>4

LEMMA BoundedInduction ==
    ASSUME NEW N \in Nat, NEW T, 0 \in T, \A k \in 1 .. N : k - 1 \in T => k \in T
    PROVE  0 .. N \subseteq T
<1> DEFINE S == {k \in 0 .. N : k \notin T}
<1>1. SUFFICES ASSUME S # {} PROVE FALSE
  OBVIOUS
<1>2. S \in SUBSET Nat
  OBVIOUS
<1>3. PICK j \in S : \A h \in S : j <= h
  <2> HIDE DEF S
  <2>1. QED
    BY <1>1, <1>2, Least
<1>4. j \in 1 .. N /\ j - 1 \in 0 .. N /\ j - 1 < j
  BY <1>3
<1>5. j - 1 \in T
  BY <1>3, <1>4
<1>6. QED
  BY <1>3, <1>4, <1>5

\* g is what comes of s0 step by step, step k being F[k]
StepByStep(N, s0, F, g) == g[0] = s0 /\ \A k \in 1 .. N : g[k] = F[k][g[k - 1]]

\* There is such a g for every s0 and F.
LEMMA Recursion ==
    ASSUME NEW N \in Nat, NEW S, NEW s0 \in S, NEW F \in [1 .. N -> [S -> S]]
    PROVE  \E g \in [0 .. N -> S] : StepByStep(N, s0, F, g)
<1> DEFINE T == {n \in 0 .. N : \E g \in [0 .. n -> S] : StepByStep(n, s0, F, g)}
<1>1. 0 \in T
  <2> DEFINE g0 == [k \in 0 .. 0 |-> s0]
  <2>1. g0 \in [0 .. 0 -> S] /\ StepByStep(0, s0, F, g0)
    BY DEF StepByStep
  <2> HIDE DEF g0
  <2>2. \E g \in [0 .. 0 -> S] : StepByStep(0, s0, F, g)
    BY <2>1
  <2>3. QED
    BY <2>2
<1>2. ASSUME NEW n \in 1 .. N, n - 1 \in T PROVE n \in T
  <2>1. PICK g \in [0 .. n - 1 -> S] : StepByStep(n - 1, s0, F, g)
    BY <1>2
  <2> DEFINE h == [k \in 0 .. n |-> IF k = n THEN F[n][g[n - 1]] ELSE g[k]]
  <2>2. n \in Nat /\ n - 1 \in Nat /\ g[n - 1] \in S
    BY <1>2
  <2>3. h \in [0 .. n -> S]
    BY <2>2
  <2>4. h[0] = s0
    BY <2>1, <2>2 DEF StepByStep
  <2>5. ASSUME NEW k \in 1 .. n PROVE h[k] = F[k][h[k - 1]]
    <3>1. h[k - 1] = g[k - 1]
      BY <2>2
    <3>2. CASE k = n
      <4>1. h[k] = F[n][g[n - 1]]
        BY <2>2, <3>2
      <4> HIDE DEF h
      <4>2. QED
        BY <3>1, <3>2, <4>1
    <3>3. CASE k # n
      <4>1. k \in 1 .. n - 1 /\ h[k] = g[k]
        BY <2>2, <3>3
      <4>2. QED
        BY <2>1, <3>1, <4>1 DEF StepByStep
    <3>4. QED
      BY <3>2, <3>3
  <2> HIDE DEF h
  <2>6. StepByStep(n, s0, F, h)
    BY <2>4, <2>5 DEF StepByStep
  <2>7. QED
    BY <1>2, <2>3, <2>6
<1>3. N \in T
  <2> HIDE DEF T
  <2>1. 0 .. N \subseteq T
    BY <1>1, <1>2, BoundedInduction
  <2>2. QED
    BY <2>1
<1>4. QED
  BY <1>3

-----------------------------------------------------------------------------
(* Powers of two *)

LEMMA Powers ==
    /\ Pow2[0] = 1
    /\ \A k \in 1 .. Width : Pow2[k] = 2 * Pow2[k - 1]
    /\ \A k \in 0 .. Width : Pow2[k] \in Nat /\ Pow2[k] > 0
<1> DEFINE F == [k \in 1 .. Width |-> [p \in Nat |-> 2 * p]]
<1>1. Width \in Nat
  BY WidthAssumption
<1>2. F \in [1 .. Width -> [Nat -> Nat]] /\ 1 \in Nat
  OBVIOUS
<1>3. PICK g \in [0 .. Width -> Nat] : StepByStep(Width, 1, F, g)
  <2> HIDE DEF F
  <2>1. QED
    BY <1>1, <1>2, Recursion
<1>4. g = [k \in 0 .. Width |-> IF k = 0 THEN 1 ELSE 2 * g[k - 1]]
  <2>1. ASSUME NEW k \in 0 .. Width, k # 0 PROVE g[k] = 2 * g[k - 1]
    <3>1. k \in 1 .. Width /\ k - 1 \in 0 .. Width
      BY <1>1, <2>1
    <3>2. QED
      BY <1>3, <3>1 DEF StepByStep
  <2>2. QED
    BY <1>3, <2>1 DEF StepByStep
<1>5. Pow2 = [k \in 0 .. Width |-> IF k = 0 THEN 1 ELSE 2 * Pow2[k - 1]]
  BY <1>4 DEF Pow2
<1>6. Pow2[0] = 1 /\ \A k \in 1 .. Width : Pow2[k] = 2 * Pow2[k - 1]
  BY <1>1, <1>5
<1> DEFINE T == {k \in 0 .. Width : Pow2[k] \in Nat /\ Pow2[k] > 0}
<1>7. 0 \in T
  BY <1>1, <1>6
<1>8. ASSUME NEW k \in 1 .. Width, k - 1 \in T PROVE k \in T
  <2>1. Pow2[k - 1] \in Nat /\ Pow2[k - 1] > 0 /\ Pow2[k] = 2 * Pow2[k - 1]
    BY <1>6, <1>8
  <2>2. Pow2[k] \in Nat /\ Pow2[k] > 0
    BY <2>1
  <2>3. QED
    BY <1>1, <2>2
<1>9. 0 .. Width \subseteq T
  <2> HIDE DEF T
  <2>1. QED
    BY <1>1, <1>7, <1>8, BoundedInduction
<1>10. QED
  BY <1>6, <1>9

LEMMA Range2 ==
    /\ Width \in Nat /\ Width >= 2 /\ Half \in Nat /\ Half >= 2 /\ Pow2[Width] = 2 * Half
    /\ Ints \subseteq Int /\ {0, 1, -1} \subseteq Ints
<1>1. Width \in Nat /\ Width >= 2
  BY WidthAssumption
<1>2. Width \in 1 .. Width /\ Width - 1 \in 1 .. Width /\ Width - 2 \in 0 .. Width
  BY <1>1
<1>3. Pow2[Width] = 2 * Half
  BY <1>2, Powers DEF Half
<1>4. Half = 2 * Pow2[Width - 1 - 1]
  BY <1>2, Powers DEF Half
<1>5. Width - 1 - 1 = Width - 2
  BY <1>1
<1>6. Pow2[Width - 2] \in Nat /\ Pow2[Width - 2] > 0
  BY <1>2, Powers
<1>7. Half \in Nat /\ Half >= 2
  BY <1>4, <1>5, <1>6
<1>8. QED
  BY <1>1, <1>3, <1>7 DEF Ints

\* An operation whose result is cut to Width bits gives an integer of Width
\* bits, and cutting one that has them changes nothing.
LEMMA WrapInRange ==
    /\ \A n \in Int : Wrap(n) \in Ints
    /\ \A v \in Ints : Wrap(v) = v
<1>1. ASSUME NEW n \in Int PROVE Wrap(n) \in Ints
  <2>1. (n + Half) % (2 * Half) \in 0 .. 2 * Half - 1
    <3> DEFINE a == n + Half
               M == 2 * Half
    <3>1. a \in Int /\ M \in Nat /\ M > 0
      BY Range2
    <3> HIDE DEF a, M
    <3>2. a % M \in 0 .. M - 1
      BY <3>1
    <3>3. QED
      BY <3>2 DEF a, M
  <2> DEFINE b == (n + Half) % (2 * Half)
  <2>2. b \in 0 .. 2 * Half - 1 /\ Wrap(n) = b - Half
    BY <2>1, Range2 DEF Wrap
  <2> HIDE DEF b
  <2>3. QED
    BY <2>2, Range2 DEF Ints
<1>2. ASSUME NEW v \in Ints PROVE Wrap(v) = v
  <2> DEFINE a == v + Half
             M == 2 * Half
  <2>1. v \in Int /\ a \in 0 .. M - 1 /\ M \in Nat /\ M > 0
    BY Range2 DEF Ints
  <2>2. a % M = a
    <3> HIDE DEF a, M
    <3>1. QED
      BY <2>1
  <2>3. Wrap(v) = (a % M) - Half
    BY Range2 DEF Wrap
  <2>4. QED
    BY <2>1, <2>2, <2>3, Range2
<1>3. QED
  BY <1>1, <1>2

-----------------------------------------------------------------------------
(* The bits of an integer *)

LEMMA Halving ==
    ASSUME NEW n \in Int, NEW p \in Nat, p > 0
    PROVE  (n \div p) \in Int /\ (n \div p) \div 2 = n \div (2 * p) /\ (n \div 2) \div p = n \div (2 * p)
<1>1. n \div p \in Int
  OBVIOUS
<1>2. (n \div p) \div 2 = n \div (2 * p)
  OBVIOUS
<1>3. (n \div 2) \div p = n \div (2 * p)
  OBVIOUS
<1>4. QED
  BY <1>1, <1>2, <1>3

LEMMA SameHalves ==
    ASSUME NEW m \in Int, NEW n \in Int, m \div 2 = n \div 2, m % 2 = n % 2 PROVE m = n
OBVIOUS

LEMMA BitOfDiv ==
    ASSUME NEW m \in Int, NEW n \in Int, (m % 2 = 1) <=> (n % 2 = 1) PROVE m % 2 = n % 2
<1>1. m % 2 \in {0, 1} /\ n % 2 \in {0, 1}
  OBVIOUS
<1>2. QED
  BY <1>1

\* An integer of Width bits is given by its bits.
LEMMA BitsUnique ==
    ASSUME NEW m \in Ints, NEW n \in Ints, Bits(m) = Bits(n) PROVE m = n
<1> DEFINE W == Width - 1
           T == {j \in 0 .. W : m \div Pow2[W - j] = n \div Pow2[W - j]}
<1>1. W \in Nat /\ m \in Int /\ n \in Int
  BY Range2
<1>2. ASSUME NEW k \in 0 .. W PROVE (m \div Pow2[k]) % 2 = (n \div Pow2[k]) % 2
  <2>1. Pow2[k] \in Nat /\ Pow2[k] > 0
    BY Range2, Powers
  <2>2. k \in Bits(m) <=> k \in Bits(n)
    BY Zenon
  <2>3. ((m \div Pow2[k]) % 2 = 1) <=> ((n \div Pow2[k]) % 2 = 1)
    BY <2>2 DEF Bits
  <2>4. m \div Pow2[k] \in Int /\ n \div Pow2[k] \in Int
    BY <1>1, <2>1, Halving
  <2>5. QED
    BY <2>3, <2>4, BitOfDiv
<1>3. 0 \in T
  <2>1. Half \in Nat /\ Half > 0 /\ m \in -Half .. Half - 1 /\ n \in -Half .. Half - 1
    BY Range2 DEF Ints
  <2>2. m \div Half \in {-1, 0}
    BY <2>1
  <2>3. n \div Half \in {-1, 0}
    BY <2>1
  <2>4. (m \div Half) % 2 = (n \div Half) % 2
    BY <1>1, <1>2 DEF Half
  <2>5. m \div Half = n \div Half
    BY <2>2, <2>3, <2>4
  <2>6. W - 0 = W
    BY <1>1
  <2>7. QED
    BY <1>1, <2>5, <2>6 DEF Half
<1>4. ASSUME NEW j \in 1 .. W, j - 1 \in T PROVE j \in T
  <2> DEFINE k == W - j
  <2>1. k \in 0 .. W /\ k + 1 \in 1 .. Width /\ (k + 1) - 1 = k /\ W - (j - 1) = k + 1 /\ k \in 0 .. Width
    BY <1>1, Range2
  <2>2. Pow2[k] \in Nat /\ Pow2[k] > 0 /\ Pow2[k + 1] = 2 * Pow2[k]
    BY <2>1, Powers
  <2>3. m \div (2 * Pow2[k]) = n \div (2 * Pow2[k])
    BY <1>4, <2>1, <2>2
  <2> DEFINE p == Pow2[k]
  <2> HIDE DEF p
  <2>4. m \div p \in Int /\ n \div p \in Int /\ (m \div p) \div 2 = (n \div p) \div 2
    BY <1>1, <2>2, <2>3, Halving DEF p
  <2>5. (m \div p) % 2 = (n \div p) % 2
    BY <1>2, <2>1 DEF p
  <2>6. m \div p = n \div p
    BY <2>4, <2>5, SameHalves
  <2>7. QED
    BY <1>1, <2>6 DEF p
<1>5. W \in T
  <2> HIDE DEF T
  <2>1. 0 .. W \subseteq T
    BY <1>1, <1>3, <1>4, BoundedInduction
  <2>2. QED
    BY <1>1, <2>1
<1>6. W - W = 0
  BY <1>1
<1>7. m \div 1 = n \div 1
  BY <1>5, <1>6, Powers
<1>8. QED
  BY <1>1, <1>7

\* Every set of bits is the bits of one.
LEMMA BitsExist ==
    ASSUME NEW S \in SUBSET (0 .. Width - 1) PROVE \E n \in Ints : Bits(n) = S
<1> DEFINE W == Width - 1
           IsTop(r, j) == /\ r \in -Pow2[j] .. Pow2[j] - 1
                          /\ \A k \in 0 .. j : (r \div Pow2[k]) % 2 = 1 <=> (W - j) + k \in S
           T == {j \in 0 .. W : \E r \in Int : IsTop(r, j)}
<1>1. W \in Nat /\ 0 .. W \subseteq 0 .. Width
  BY Range2
<1>2. 0 \in T
  <2> DEFINE r == IF W \in S THEN -1 ELSE 0
  <2>1. r \in Int /\ r \in -1 .. 0 /\ (r % 2 = 1 <=> W \in S)
    <3>1. \A n \in Int : n % 2 = 1 <=> (n + 2) % 2 = 1
      OBVIOUS
    <3>2. ((-1) + 2) % 2 = 1
      OBVIOUS
    <3>3. 0 % 2 = 0
      OBVIOUS
    <3>4. QED
      BY <3>1, <3>2, <3>3
  <2>2. r \div 1 = r
    <3> HIDE DEF r
    <3>1. QED
      BY <2>1
  <2> HIDE DEF r
  <2>3. IsTop(r, 0)
    <3>1. r \in -Pow2[0] .. Pow2[0] - 1
      BY <2>1, Powers
    <3>2. ASSUME NEW k \in 0 .. 0 PROVE (r \div Pow2[k]) % 2 = 1 <=> (W - 0) + k \in S
      <4>1. k = 0 /\ (W - 0) + 0 = W
        BY <1>1
      <4>2. r \div Pow2[k] = r
        BY <2>2, <4>1, Powers
      <4>3. QED
        BY <2>1, <4>1, <4>2
    <3>3. QED
      BY <3>1, <3>2
  <2>4. QED
    BY <1>1, <2>1, <2>3
<1>3. ASSUME NEW j \in 1 .. W, j - 1 \in T PROVE j \in T
  <2>1. PICK h \in Int : IsTop(h, j - 1)
    BY <1>3
  <2> DEFINE b == IF W - j \in S THEN 1 ELSE 0
             r == 2 * h + b
  <2>2. b \in {0, 1} /\ r \in Int
    BY <2>1
  <2>3. r % 2 = b /\ r \div 2 = h
    <3> HIDE DEF b
    <3>1. QED
      BY <2>2
  <2> HIDE DEF r
  <2>4. r \in -Pow2[j] .. Pow2[j] - 1
    <3>1. Pow2[j] = 2 * Pow2[j - 1] /\ Pow2[j - 1] \in Nat
      BY <1>1, Powers
    <3>2. h \in -Pow2[j - 1] .. Pow2[j - 1] - 1
      BY <2>1
    <3> HIDE DEF b
    <3>3. QED
      BY <2>2, <3>1, <3>2 DEF r
  <2>5. ASSUME NEW k \in 0 .. j PROVE (r \div Pow2[k]) % 2 = 1 <=> (W - j) + k \in S
    <3>1. CASE k = 0
      <4>1. r \div Pow2[k] = r /\ (W - j) + k = W - j
        BY <1>1, <2>2, <3>1, Powers
      <4>2. QED
        BY <2>3, <4>1
    <3>2. CASE k # 0
      <4>1. k \in 1 .. Width /\ k - 1 \in 0 .. j - 1 /\ k - 1 \in 0 .. Width /\ (W - (j - 1)) + (k - 1) = (W - j) + k
        BY <1>1, <3>2, Range2
      <4> DEFINE p == Pow2[k - 1]
      <4>2. p \in Nat /\ p > 0 /\ Pow2[k] = 2 * p
        BY <4>1, Powers
      <4> HIDE DEF p
      <4>3. r \div (2 * p) = h \div p
        BY <2>2, <2>3, <4>2, Halving
      <4>4. (h \div p) % 2 = 1 <=> (W - j) + k \in S
        BY <2>1, <4>1 DEF p
      <4>5. QED
        BY <4>2, <4>3, <4>4
    <3>3. QED
      BY <3>1, <3>2
  <2>6. IsTop(r, j)
    BY <2>4, <2>5
  <2> HIDE DEF IsTop
  <2>7. QED
    BY <1>1, <2>2, <2>6
<1>4. W \in T
  <2> HIDE DEF T
  <2>1. 0 .. W \subseteq T
    BY <1>1, <1>2, <1>3, BoundedInduction
  <2>2. QED
    BY <1>1, <2>1
<1>5. PICK n \in Int : IsTop(n, W)
  BY <1>4
<1>6. n \in Ints
  BY <1>1, <1>5 DEF Ints, Half
<1>7. \A k \in 0 .. W : k \in Bits(n) <=> k \in S
  <2>1. ASSUME NEW k \in 0 .. W PROVE k \in Bits(n) <=> k \in S
    <3>1. (W - W) + k = k
      BY <1>1
    <3>2. QED
      BY <1>5, <3>1 DEF Bits
  <2>2. QED
    BY <2>1
<1>8. Bits(n) \subseteq 0 .. W
  BY DEF Bits
<1>9. Bits(n) = S
  BY <1>7, <1>8
<1>10. QED
  BY <1>6, <1>9

LEMMA FromBitsOf ==
    /\ \A S \in SUBSET (0 .. Width - 1) : FromBits(S) \in Ints
    /\ \A v \in Ints : FromBits(Bits(v)) = v
<1>1. ASSUME NEW S \in SUBSET (0 .. Width - 1) PROVE FromBits(S) \in Ints /\ Bits(FromBits(S)) = S
  <2>1. \E n \in Ints : Bits(n) = S
    BY BitsExist
  <2>2. QED
    BY <2>1 DEF FromBits
<1>2. ASSUME NEW v \in Ints PROVE FromBits(Bits(v)) = v
  <2> DEFINE S == Bits(v)
             n == FromBits(S)
  <2>1. S \in SUBSET (0 .. Width - 1)
    BY DEF Bits
  <2>2. n \in Ints /\ Bits(n) = Bits(v)
    <3> HIDE DEF S
    <3>1. n \in Ints /\ Bits(n) = S
      BY <1>1, <2>1
    <3>2. QED
      BY <3>1 DEF S
  <2> HIDE DEF n
  <2>3. n = v
    BY <2>2, BitsUnique
  <2>4. QED
    BY <2>3 DEF n
<1>3. QED
  BY <1>1, <1>2

LEMMA BitLogic ==
    /\ \A l, r \in Ints : FromBits(Bits(l) \cap Bits(r)) \in Ints /\ FromBits(Bits(l) \cup Bits(r)) \in Ints
    /\ \A v \in Ints : FromBits(Bits(v) \cap Bits(v)) = v /\ FromBits(Bits(v) \cup Bits(v)) = v
    /\ \A v \in Ints : /\ FromBits(Bits(v) \cap Bits(0)) = 0 /\ FromBits(Bits(0) \cap Bits(v)) = 0
                       /\ FromBits(Bits(v) \cup Bits(0)) = v /\ FromBits(Bits(0) \cup Bits(v)) = v
<1>1. \A l \in Ints : Bits(l) \subseteq 0 .. Width - 1
  BY DEF Bits
<1>2. Bits(0) = {}
  <2>1. ASSUME NEW k \in 0 .. Width - 1 PROVE (0 \div Pow2[k]) % 2 # 1
    <3> DEFINE p == Pow2[k]
    <3>1. p \in Nat /\ p > 0
      BY Range2, Powers
    <3> HIDE DEF p
    <3>2. 0 \div p = 0
      BY <3>1
    <3>3. 0 % 2 = 0
      OBVIOUS
    <3>4. QED
      BY <3>2, <3>3 DEF p
  <2>2. QED
    BY <2>1 DEF Bits
<1>3. 0 \in Ints
  BY Range2
<1>4. ASSUME NEW l \in Ints, NEW r \in Ints
      PROVE  FromBits(Bits(l) \cap Bits(r)) \in Ints /\ FromBits(Bits(l) \cup Bits(r)) \in Ints
  <2>1. Bits(l) \cap Bits(r) \in SUBSET (0 .. Width - 1) /\ Bits(l) \cup Bits(r) \in SUBSET (0 .. Width - 1)
    BY <1>1
  <2>2. QED
    BY <2>1, FromBitsOf
<1>5. ASSUME NEW v \in Ints
      PROVE  /\ FromBits(Bits(v) \cap Bits(v)) = v /\ FromBits(Bits(v) \cup Bits(v)) = v
             /\ FromBits(Bits(v) \cap Bits(0)) = 0 /\ FromBits(Bits(0) \cap Bits(v)) = 0
             /\ FromBits(Bits(v) \cup Bits(0)) = v /\ FromBits(Bits(0) \cup Bits(v)) = v
  <2>1. /\ Bits(v) \cap Bits(v) = Bits(v) /\ Bits(v) \cup Bits(v) = Bits(v)
        /\ Bits(v) \cap Bits(0) = Bits(0) /\ Bits(0) \cap Bits(v) = Bits(0)
        /\ Bits(v) \cup Bits(0) = Bits(v) /\ Bits(0) \cup Bits(v) = Bits(v)
    BY <1>2
  <2>2. FromBits(Bits(v)) = v /\ FromBits(Bits(0)) = 0
    BY <1>3, FromBitsOf
  <2>3. QED
    BY <2>1, <2>2
<1>6. QED
  BY <1>4, <1>5

-----------------------------------------------------------------------------
(* What an instruction computes, and what the compiler computes for it *)

LEMMA ComputedInRange ==
    ASSUME NEW op \in BinaryOps, NEW l \in Ints, NEW r \in Ints, ~Traps(op, l, r)
    PROVE  Computed(op, l, r) \in Ints
<1>1. l \in Int /\ r \in Int /\ l + r \in Int /\ l - r \in Int /\ l * r \in Int
  BY Range2
<1>2. Wrap(l + r) \in Ints /\ Wrap(l - r) \in Ints /\ Wrap(l * r) \in Ints
  BY <1>1, WrapInRange
<1>3. Truth(l < r) \in Ints /\ Truth(l = r) \in Ints
  BY Range2 DEF Truth
<1>4. op = "Slash" => Quotient(l, r) \in Ints
  BY DEF Traps
<1>5. QED
  BY <1>2, <1>3, <1>4, BitLogic DEF Computed, BinaryOps

\* The literal that fold_constants writes is what the instruction would have
\* computed; for an and or an or, as long as both operands are truth values.
LEMMA FoldedIsComputed ==
    ASSUME NEW op \in BinaryOps, NEW l \in Ints, NEW r \in Ints,
           op \in {"And", "Or"} => {l, r} \subseteq {0, 1}
    PROVE  Folded(op, l, r) = Computed(op, l, r)
<1>1. CASE op = "And"
  <2>1. l \in {0, 1} /\ r \in {0, 1}
    BY <1>1
  <2>2. Computed(op, l, r) = FromBits(Bits(l) \cap Bits(r))
    BY <1>1 DEF Computed
  <2>3. Folded(op, l, r) = Truth(l # 0 /\ r # 0)
    BY <1>1 DEF Folded
  <2>4. QED
    BY <2>1, <2>2, <2>3, BitLogic, Range2 DEF Truth
<1>2. CASE op = "Or"
  <2>1. l \in {0, 1} /\ r \in {0, 1}
    BY <1>2
  <2>2. Computed(op, l, r) = FromBits(Bits(l) \cup Bits(r))
    BY <1>2 DEF Computed
  <2>3. Folded(op, l, r) = Truth(l # 0 \/ r # 0)
    BY <1>2 DEF Folded
  <2>4. QED
    BY <2>1, <2>2, <2>3, BitLogic, Range2 DEF Truth
<1>3. CASE op \notin {"And", "Or"}
  BY <1>3 DEF Folded, Computed, BinaryOps
<1>4. QED
  BY <1>1, <1>2, <1>3

LEMMA DividedByOne == ASSUME NEW l \in Ints PROVE Quotient(l, 1) = l
<1>1. l \in Int
  BY Range2
<1>2. l \div 1 = l /\ (-l) \div 1 = -l /\ Abs(1) = 1
  BY <1>1 DEF Abs
<1>3. QED
  BY <1>1, <1>2 DEF Quotient, Abs

-----------------------------------------------------------------------------
(* Executions *)

Envs == [Vars -> Ints]
Outputs == Seq(Ints \cup {"trap"})
States == [env : Envs, out : Outputs, halted : BOOLEAN, next : Nat]

LEMMA FetchInRange ==
    ASSUME NEW env \in Envs, NEW x \in Operands
    PROVE  Fetch(env, x) \in Ints /\ (x \in Ints => Fetch(env, x) = x) /\ (x \in Vars => Fetch(env, x) = env[x])
<1>1. x \in Vars => x \notin Ints
  BY NamesAssumption, Range2
<1>2. x \in Vars \/ x \in Ints
  BY DEF Operands
<1>3. QED
  BY <1>1, <1>2 DEF Fetch, Envs

LEMMA StoreInStates ==
    ASSUME NEW s \in States, NEW x \in Vars, NEW v \in Ints PROVE Store(s, x, v) \in States
BY DEF Store, States, Envs

LEMMA StopInStates ==
    ASSUME NEW s \in States, NEW v \in Ints \cup {"trap"} PROVE Stop(s, v) \in States
<1>1. Append(s.out, v) \in Outputs
  BY DEF States, Outputs
<1>2. QED
  BY <1>1 DEF Stop, States

LEMMA PushInStates ==
    ASSUME NEW s \in States, NEW v \in Ints PROVE [s EXCEPT !.out = Append(@, v)] \in States
<1>1. Append(s.out, v) \in Outputs
  BY DEF States, Outputs
<1>2. QED
  BY <1>1 DEF States

LEMMA NextInStates ==
    ASSUME NEW s \in States, NEW n \in Nat PROVE [s EXCEPT !.next = n] \in States
BY DEF States

LEMMA StateFields ==
    ASSUME NEW s \in States
    PROVE  s.env \in Envs /\ s.out \in Outputs /\ s.halted \in BOOLEAN /\ s.next \in Nat
BY DEF States

\* what is known of the fields of a quad
LEMMA QuadKinds ==
    ASSUME NEW q, WellFormed(q)
    PROVE  /\ q.op \in BinaryOps \cup {"Assign", "CondGoto", "Goto", "PushArg", "Return", "EmptyQuad"}
           /\ q.op \in BinaryOps => q.target \in Vars /\ q.opd1 \in Operands /\ q.opd2 \in Operands
           /\ q.op = "Assign" => q.target \in Vars /\ q.opd1 \in Operands
           /\ q.op = "CondGoto" => q.target \in Operands /\ q.opd1 \in Nat /\ (q.opd2 = Nothing \/ q.opd2 \in Nat)
           /\ q.op = "Goto" => q.target = Nothing /\ q.opd2 \in Nat
           /\ q.op \in {"PushArg", "Return"} => q.target = Nothing /\ q.opd2 \in Operands
           /\ q.op = "EmptyQuad" => q = EmptyQuad
<1>1. CASE q = EmptyQuad
  BY <1>1 DEF EmptyQuad, Quad, BinaryOps
<1>2. CASE q # EmptyQuad
  BY <1>2 DEF WellFormed, BinaryOps
<1>3. QED
  BY <1>1, <1>2

LEMMA StepKinds ==
    ASSUME NEW s, NEW q
    PROVE  /\ q.op \in BinaryOps => Step(s, q) = Compute(s, q)
           /\ q.op = "Assign" => Step(s, q) = Assign(s, q)
           /\ q.op = "Goto" => Step(s, q) = Jump(s, q)
           /\ q.op = "CondGoto" => Step(s, q) = Branch(s, q)
           /\ q.op = "PushArg" => Step(s, q) = Push(s, q)
           /\ q.op = "Return" => Step(s, q) = ReturnValue(s, q)
           /\ q.op = "EmptyQuad" => Step(s, q) = s
BY DEF Step, BinaryOps

LEMMA ComputeCases ==
    ASSUME NEW s \in States, NEW q, WellFormed(q), q.op \in BinaryOps
    PROVE  LET l == Fetch(s.env, q.opd1)
               r == Fetch(s.env, q.opd2)
           IN  /\ l \in Ints /\ r \in Ints
               /\ Step(s, q) = IF Traps(q.op, l, r) THEN Stop(s, "trap")
                               ELSE Store(s, q.target, Computed(q.op, l, r))
               /\ Step(s, q) \in States
<1> DEFINE l == Fetch(s.env, q.opd1)
           r == Fetch(s.env, q.opd2)
<1>1. q.opd1 \in Operands /\ q.opd2 \in Operands /\ q.target \in Vars
  BY QuadKinds
<1>2. l \in Ints /\ r \in Ints
  BY <1>1, StateFields, FetchInRange
<1>3. Step(s, q) = IF Traps(q.op, l, r) THEN Stop(s, "trap")
                   ELSE Store(s, q.target, Computed(q.op, l, r))
  BY StepKinds DEF Compute
<1> HIDE DEF l, r
<1>4. CASE Traps(q.op, l, r)
  BY <1>2, <1>3, <1>4, StopInStates DEF l, r
<1>5. CASE ~Traps(q.op, l, r)
  <2>1. Computed(q.op, l, r) \in Ints
    BY <1>2, <1>5, ComputedInRange
  <2>2. Step(s, q) = Store(s, q.target, Computed(q.op, l, r))
    BY <1>3, <1>5
  <2>3. Step(s, q) \in States
    BY <1>1, <2>1, <2>2, StoreInStates
  <2>4. QED
    BY <1>2, <1>3, <2>3 DEF l, r
<1>6. QED
  BY <1>4, <1>5

LEMMA StepInStates ==
    ASSUME NEW s \in States, NEW q, WellFormed(q) PROVE Step(s, q) \in States
<1>1. s.env \in Envs
  BY StateFields
<1>2. CASE q.op \in BinaryOps
  BY <1>2, ComputeCases
<1>3. CASE q.op = "Assign"
  <2>1. Fetch(s.env, q.opd1) \in Ints /\ q.target \in Vars
    BY <1>1, <1>3, QuadKinds, FetchInRange
  <2>2. Step(s, q) = Store(s, q.target, Fetch(s.env, q.opd1))
    BY <1>3, StepKinds DEF Assign
  <2>3. QED
    BY <2>1, <2>2, StoreInStates
<1>4. CASE q.op = "Goto"
  <2>1. q.opd2 \in Nat
    BY <1>4, QuadKinds
  <2>2. Step(s, q) = [s EXCEPT !.next = q.opd2]
    BY <1>4, StepKinds DEF Jump
  <2>3. QED
    BY <2>1, <2>2, NextInStates
<1>5. CASE q.op = "CondGoto"
  <2>1. q.opd1 \in Nat /\ (q.opd2 # Nothing => q.opd2 \in Nat)
    BY <1>5, QuadKinds
  <2>2. Step(s, q) \in {[s EXCEPT !.next = q.opd1], s}
            \cup (IF q.opd2 # Nothing THEN {[s EXCEPT !.next = q.opd2]} ELSE {})
    BY <1>5, StepKinds DEF Branch
  <2>3. [s EXCEPT !.next = q.opd1] \in States /\ (q.opd2 # Nothing => [s EXCEPT !.next = q.opd2] \in States)
    BY <2>1, NextInStates
  <2>4. QED
    BY <2>2, <2>3
<1>6. CASE q.op = "PushArg"
  <2>1. Fetch(s.env, q.opd2) \in Ints
    BY <1>1, <1>6, QuadKinds, FetchInRange
  <2>2. Step(s, q) = [s EXCEPT !.out = Append(@, Fetch(s.env, q.opd2))]
    BY <1>6, StepKinds DEF Push
  <2>3. QED
    BY <2>1, <2>2, PushInStates
<1>7. CASE q.op = "Return"
  <2>1. Fetch(s.env, q.opd2) \in Ints
    BY <1>1, <1>7, QuadKinds, FetchInRange
  <2>2. Step(s, q) = Stop(s, Fetch(s.env, q.opd2))
    BY <1>7, StepKinds DEF ReturnValue
  <2>3. QED
    BY <2>1, <2>2, StopInStates
<1>8. CASE q.op = "EmptyQuad"
  BY <1>8, StepKinds
<1>9. QED
  BY <1>2, <1>3, <1>4, <1>5, <1>6, <1>7, <1>8, QuadKinds

Kinds == BinaryOps \cup {"Assign", "CondGoto", "Goto", "PushArg", "Return", "EmptyQuad"}
Fields == Operands \cup Nat \cup {Nothing}
QuadSet ==
    {q \in [op : Kinds, target : Fields, opd1 : Fields, opd2 : Fields] : WellFormed(q)}

LEMMA WellFormedInSet == ASSUME NEW q, WellFormed(q) PROVE q \in QuadSet
<1>1. CASE q = EmptyQuad
  <2>1. q \in [op : Kinds, target : Fields, opd1 : Fields, opd2 : Fields]
    BY <1>1 DEF EmptyQuad, Quad, Kinds, Fields
  <2>2. QED
    BY <2>1 DEF QuadSet
<1>2. CASE q # EmptyQuad
  <2>1. q = [op |-> q.op, target |-> q.target, opd1 |-> q.opd1, opd2 |-> q.opd2]
    BY DEF WellFormed, Quad
  <2>2. PICK o, t, x, y : q = [op |-> o, target |-> t, opd1 |-> x, opd2 |-> y]
    BY <2>1
  <2>3. q.op = o /\ q.target = t /\ q.opd1 = x /\ q.opd2 = y
    BY <2>2
  <2>4. o \in Kinds
    BY <2>3, QuadKinds DEF Kinds
  <2>5. t \in Fields /\ x \in Fields /\ y \in Fields
    BY <1>2, <2>3, <2>2 DEF WellFormed, Fields, Operands, Quad
  <2>6. QED
    BY <2>2, <2>4, <2>5 DEF QuadSet
<1>3. QED
  BY <1>1, <1>2

LEMMA PassedInStates ==
    ASSUME NEW s \in States, NEW k \in Nat, NEW q, WellFormed(q)
    PROVE  Passed(s, k, q) \in States
<1>1. [s EXCEPT !.next = k + 1] \in States
  BY NextInStates
<1>2. QED
  BY <1>1, StepInStates DEF Passed

LEMMA RoundSteps ==
    ASSUME NEW qs \in Seq(QuadSet), NEW s \in States
    PROVE  \E r \in [0 .. Len(qs) -> States] :
              /\ r[0] = s
              /\ \A k \in 1 .. Len(qs) : r[k] = Passed(r[k - 1], k, qs[k])
              /\ Round(qs, s) = r[Len(qs)]
<1> DEFINE N == Len(qs)
           F == [k \in 1 .. N |-> [p \in States |-> Passed(p, k, qs[k])]]
           g == CHOOSE g : g = [k \in 0 .. N |-> IF k = 0 THEN s ELSE Passed(g[k - 1], k, qs[k])]
<1>1. N \in Nat
  OBVIOUS
<1>2. F \in [1 .. N -> [States -> States]]
  <2>1. ASSUME NEW k \in 1 .. N, NEW p \in States PROVE Passed(p, k, qs[k]) \in States
    <3>1. k \in Nat /\ WellFormed(qs[k])
      BY DEF QuadSet
    <3>2. QED
      BY <3>1, PassedInStates
  <2>2. QED
    BY <2>1
<1>3. PICK r \in [0 .. N -> States] : StepByStep(N, s, F, r)
  <2> HIDE DEF F, N
  <2>1. QED
    BY <1>1, <1>2, Recursion
<1>4. r[0] = s /\ \A k \in 1 .. N : r[k] = Passed(r[k - 1], k, qs[k])
  <2>1. ASSUME NEW k \in 1 .. N PROVE r[k] = Passed(r[k - 1], k, qs[k])
    <3>1. r[k - 1] \in States
      OBVIOUS
    <3>2. QED
      BY <1>3, <3>1 DEF StepByStep
  <2>2. QED
    BY <1>3, <2>1 DEF StepByStep
<1>5. r = [k \in 0 .. N |-> IF k = 0 THEN s ELSE Passed(r[k - 1], k, qs[k])]
  <2>1. \A k \in 0 .. N : r[k] = IF k = 0 THEN s ELSE Passed(r[k - 1], k, qs[k])
    BY <1>4
  <2>2. QED
    BY <2>1
<1>6. g = [k \in 0 .. N |-> IF k = 0 THEN s ELSE Passed(g[k - 1], k, qs[k])]
  BY <1>5
<1>7. Round(qs, s) = g[N]
  BY DEF Round
<1> HIDE DEF g
<1>8. 0 .. N \subseteq {k \in 0 .. N : g[k] = r[k]}
  <2> DEFINE T == {k \in 0 .. N : g[k] = r[k]}
  <2>1. 0 \in T
    BY <1>4, <1>6
  <2>2. ASSUME NEW k \in 1 .. N, k - 1 \in T PROVE k \in T
    <3>1. k \in 0 .. N /\ k # 0
      BY <1>1
    <3>2. g[k] = Passed(g[k - 1], k, qs[k])
      BY <1>6, <3>1
    <3>3. QED
      BY <1>4, <2>2, <3>1, <3>2
  <2> HIDE DEF T
  <2>3. QED
    BY <1>1, <2>1, <2>2, BoundedInduction DEF T
<1>9. QED
  BY <1>1, <1>4, <1>7, <1>8

LEMMA RoundInStates ==
    ASSUME NEW qs \in Seq(QuadSet), NEW s \in States PROVE Round(qs, s) \in States
<1>1. PICK r \in [0 .. Len(qs) -> States] : Round(qs, s) = r[Len(qs)]
  BY RoundSteps
<1>2. QED
  BY <1>1

LEMMA StartInStates ==
    ASSUME NEW env \in [Vars -> Values] PROVE Start(env) \in States
<1>1. env \in Envs
  BY WidthAssumption DEF Envs
<1>2. <<>> \in Outputs
  BY DEF Outputs
<1>3. QED
  BY <1>1, <1>2 DEF Start, States

LEMMA RunSteps ==
    ASSUME NEW qs \in Seq(QuadSet), NEW env \in [Vars -> Values]
    PROVE  \E r \in [0 .. Rounds -> States] :
              /\ r[0] = Start(env)
              /\ \A n \in 1 .. Rounds : r[n] = Round(qs, r[n - 1])
              /\ Run(qs, env) = r[Rounds].out
<1> DEFINE N == Rounds
           s == Start(env)
           F == [k \in 1 .. N |-> [p \in States |-> Round(qs, p)]]
           g == CHOOSE g : g = [k \in 0 .. N |-> IF k = 0 THEN s ELSE Round(qs, g[k - 1])]
<1>1. N \in Nat /\ s \in States
  BY WidthAssumption, StartInStates
<1>2. F \in [1 .. N -> [States -> States]]
  BY RoundInStates
<1>3. PICK r \in [0 .. N -> States] : StepByStep(N, s, F, r)
  <2> HIDE DEF F, N, s
  <2>1. QED
    BY <1>1, <1>2, Recursion
<1> HIDE DEF s
<1>4. r[0] = s /\ \A k \in 1 .. N : r[k] = Round(qs, r[k - 1])
  <2>1. ASSUME NEW k \in 1 .. N PROVE r[k] = Round(qs, r[k - 1])
    <3>1. r[k - 1] \in States
      BY <1>1
    <3>2. QED
      BY <1>3, <3>1 DEF StepByStep
  <2>2. QED
    BY <1>3, <2>1 DEF StepByStep
<1>5. r = [k \in 0 .. N |-> IF k = 0 THEN s ELSE Round(qs, r[k - 1])]
  <2>1. \A k \in 0 .. N : r[k] = IF k = 0 THEN s ELSE Round(qs, r[k - 1])
    BY <1>1, <1>4
  <2>2. QED
    BY <2>1
<1>6. g = [k \in 0 .. N |-> IF k = 0 THEN s ELSE Round(qs, g[k - 1])]
  BY <1>5
<1>7. Run(qs, env) = g[N].out
  BY DEF Run, s
<1> HIDE DEF g
<1>8. 0 .. N \subseteq {k \in 0 .. N : g[k] = r[k]}
  <2> DEFINE T == {k \in 0 .. N : g[k] = r[k]}
  <2>1. 0 \in T
    BY <1>1, <1>4, <1>6
  <2>2. ASSUME NEW k \in 1 .. N, k - 1 \in T PROVE k \in T
    <3>1. k \in 0 .. N /\ k # 0
      BY <1>1
    <3>2. g[k] = Round(qs, g[k - 1])
      BY <1>6, <3>1
    <3>3. QED
      BY <1>4, <2>2, <3>1, <3>2
  <2> HIDE DEF T
  <2>3. QED
    BY <1>1, <2>1, <2>2, BoundedInduction DEF T
<1>9. g[N] = r[N]
  BY <1>1, <1>8
<1>10. Run(qs, env) = r[Rounds].out
  BY <1>7, <1>9
<1>11. QED
  BY <1>4, <1>10 DEF s

\* Programs whose rounds are the same mean the same.
LEMMA SameRounds ==
    ASSUME NEW ps \in Seq(QuadSet), NEW qs \in Seq(QuadSet),
           \A s \in States : Round(ps, s) = Round(qs, s)
    PROVE  Meaning(ps) = Meaning(qs)
<1>1. ASSUME NEW env \in [Vars -> Values] PROVE Run(ps, env) = Run(qs, env)
  <2>1. PICK p \in [0 .. Rounds -> States] :
              /\ p[0] = Start(env)
              /\ \A n \in 1 .. Rounds : p[n] = Round(ps, p[n - 1])
              /\ Run(ps, env) = p[Rounds].out
    BY RunSteps
  <2>2. PICK q \in [0 .. Rounds -> States] :
              /\ q[0] = Start(env)
              /\ \A n \in 1 .. Rounds : q[n] = Round(qs, q[n - 1])
              /\ Run(qs, env) = q[Rounds].out
    BY RunSteps
  <2> DEFINE T == {n \in 0 .. Rounds : p[n] = q[n]}
  <2>3. Rounds \in Nat
    BY WidthAssumption
  <2>4. 0 \in T
    BY <2>1, <2>2, <2>3
  <2>5. ASSUME NEW n \in 1 .. Rounds, n - 1 \in T PROVE n \in T
    <3>1. p[n - 1] \in States /\ p[n - 1] = q[n - 1]
      BY <2>3, <2>5
    <3>2. QED
      BY <2>1, <2>2, <2>3, <3>1
  <2> HIDE DEF T
  <2>6. 0 .. Rounds \subseteq T
    BY <2>3, <2>4, <2>5, BoundedInduction
  <2>7. QED
    BY <2>1, <2>2, <2>3, <2>6 DEF T
<1>2. QED
  BY <1>1 DEF Meaning

\* Programs whose quads do the same, one by one, mean the same.
LEMMA SameSteps ==
    ASSUME NEW ps \in Seq(QuadSet), NEW qs \in Seq(QuadSet), Len(ps) = Len(qs),
           \A k \in 1 .. Len(qs), s \in States : Step(s, ps[k]) = Step(s, qs[k])
    PROVE  Meaning(ps) = Meaning(qs)
<1> DEFINE N == Len(qs)
<1>1. N \in Nat
  OBVIOUS
<1>2. ASSUME NEW k \in 1 .. N, NEW s \in States PROVE Passed(s, k, ps[k]) = Passed(s, k, qs[k])
  <2>1. k + 1 \in Nat
    BY <1>1
  <2>2. [s EXCEPT !.next = k + 1] \in States
    BY <2>1, NextInStates
  <2>3. QED
    BY <2>2 DEF Passed
<1>3. ASSUME NEW s \in States PROVE Round(ps, s) = Round(qs, s)
  <2>1. PICK p \in [0 .. N -> States] :
              /\ p[0] = s
              /\ \A k \in 1 .. N : p[k] = Passed(p[k - 1], k, ps[k])
              /\ Round(ps, s) = p[N]
    BY RoundSteps
  <2>2. PICK q \in [0 .. N -> States] :
              /\ q[0] = s
              /\ \A k \in 1 .. N : q[k] = Passed(q[k - 1], k, qs[k])
              /\ Round(qs, s) = q[N]
    BY RoundSteps
  <2> DEFINE T == {k \in 0 .. N : p[k] = q[k]}
  <2>3. 0 \in T
    BY <2>1, <2>2, <1>1
  <2>4. ASSUME NEW k \in 1 .. N, k - 1 \in T PROVE k \in T
    <3>1. p[k - 1] \in States /\ p[k - 1] = q[k - 1]
      BY <1>1, <2>4
    <3>2. QED
      BY <1>2, <2>1, <2>2, <3>1
  <2> HIDE DEF T
  <2>5. 0 .. N \subseteq T
    BY <1>1, <2>3, <2>4, BoundedInduction
  <2>6. QED
    BY <1>1, <2>1, <2>2, <2>5 DEF T
<1>4. QED
  BY <1>3, SameRounds

-----------------------------------------------------------------------------
(* Quads that do the same *)

LEMMA FoldedInRange ==
    ASSUME NEW op \in BinaryOps, NEW l \in Ints, NEW r \in Ints, ~Traps(op, l, r)
    PROVE  Folded(op, l, r) \in Ints
<1>1. l \in Int /\ r \in Int /\ l + r \in Int /\ l - r \in Int /\ l * r \in Int
  BY Range2
<1>2. Wrap(l + r) \in Ints /\ Wrap(l - r) \in Ints /\ Wrap(l * r) \in Ints
  BY <1>1, WrapInRange
<1>3. /\ Truth(l < r) \in Ints /\ Truth(l = r) \in Ints
      /\ Truth(l # 0 /\ r # 0) \in Ints /\ Truth(l # 0 \/ r # 0) \in Ints
  BY Range2 DEF Truth
<1>4. op = "Slash" => Quotient(l, r) \in Ints
  BY DEF Traps
<1>5. Folded(op, l, r) \in {Wrap(l + r), Wrap(l - r), Wrap(l * r), Truth(l < r), Truth(l = r),
                            Truth(l # 0 /\ r # 0), Truth(l # 0 \/ r # 0)}
        \/ (op = "Slash" /\ Folded(op, l, r) = Quotient(l, r))
  BY DEF Folded, BinaryOps
<1>6. QED
  BY <1>2, <1>3, <1>4, <1>5

LEMMA CopyWellFormed ==
    ASSUME NEW q, NEW x \in Operands, q.target \in Vars PROVE WellFormed(Copy(q, x))
BY DEF Copy, Quad, WellFormed

LEMMA CopyStep ==
    ASSUME NEW s, NEW q, NEW x PROVE Step(s, Copy(q, x)) = Store(s, q.target, Fetch(s.env, x))
<1> DEFINE c == Copy(q, x)
<1>1. c.op = "Assign" /\ c.target = q.target /\ c.opd1 = x
  BY DEF Copy, Quad
<1> HIDE DEF c
<1>2. QED
  BY <1>1, StepKinds DEF Assign, c

LEMMA FoldedStep ==
    ASSUME NEW s \in States, NEW q, WellFormed(q), q.op \in BinaryOps, {q.opd1, q.opd2} \subseteq Ints,
           ~Traps(q.op, q.opd1, q.opd2), q.op \in {"And", "Or"} => {q.opd1, q.opd2} \subseteq {0, 1}
    PROVE  Step(s, Copy(q, Folded(q.op, q.opd1, q.opd2))) = Step(s, q)
<1> DEFINE v == Folded(q.op, q.opd1, q.opd2)
<1>1. q.opd1 \in Ints /\ q.opd2 \in Ints
  OBVIOUS
<1>2. Fetch(s.env, q.opd1) = q.opd1 /\ Fetch(s.env, q.opd2) = q.opd2
  BY <1>1 DEF Fetch
<1>3. Step(s, q) = Store(s, q.target, Computed(q.op, q.opd1, q.opd2))
  BY <1>2, ComputeCases
<1>4. v = Computed(q.op, q.opd1, q.opd2) /\ v \in Ints
  BY <1>1, FoldedIsComputed, FoldedInRange
<1> HIDE DEF v
<1>5. Fetch(s.env, v) = v
  BY <1>4 DEF Fetch
<1>6. Step(s, Copy(q, v)) = Store(s, q.target, v)
  BY <1>5, CopyStep
<1>7. QED
  BY <1>3, <1>4, <1>6 DEF v

\* Each identity that simplify_algebraic_identities knows, but those for
\* x - x and x / x.
LEMMA SimplifiedStep ==
    ASSUME NEW s \in States, NEW q, WellFormed(q), ~SelfInverse(q)
    PROVE  Step(s, Simplified(q)) = Step(s, q)
<1>1. CASE q.op \in BinaryOps
  <2> DEFINE l == Fetch(s.env, q.opd1)
             r == Fetch(s.env, q.opd2)
  <2>1. q.opd1 \in Operands /\ q.opd2 \in Operands /\ s.env \in Envs /\ {0, 1} \subseteq Ints
    BY <1>1, QuadKinds, StateFields, Range2
  <2>2. /\ l \in Ints /\ r \in Ints
        /\ Step(s, q) = IF Traps(q.op, l, r) THEN Stop(s, "trap")
                        ELSE Store(s, q.target, Computed(q.op, l, r))
    BY <1>1, ComputeCases
  <2>3. \A x \in Ints : (q.opd1 = x => l = x) /\ (q.opd2 = x => r = x)
    BY DEF Fetch
  <2>4. (q.opd1 = 0 => l = 0) /\ (q.opd2 = 0 => r = 0) /\ (q.opd1 = 1 => l = 1) /\ (q.opd2 = 1 => r = 1)
        /\ (q.opd1 = q.opd2 => l = r) /\ Fetch(s.env, 0) = 0
    BY <2>1, <2>3 DEF Fetch
  <2>5. /\ Step(s, Copy(q, q.opd1)) = Store(s, q.target, l)
        /\ Step(s, Copy(q, q.opd2)) = Store(s, q.target, r)
        /\ Step(s, Copy(q, 0)) = Store(s, q.target, 0)
    BY <2>4, CopyStep
  <2> HIDE DEF l, r
  <2>6. l \in Int /\ r \in Int /\ Wrap(l) = l /\ Wrap(r) = r /\ Wrap(0) = 0
    BY <2>1, <2>2, WrapInRange, Range2
  <2>7. CASE q.op = "Plus"
    <3>1. Step(s, q) = Store(s, q.target, Wrap(l + r))
      BY <2>2, <2>7 DEF Traps, Computed
    <3>2. Simplified(q) = IF q.opd1 = 0 THEN Copy(q, q.opd2) ELSE IF q.opd2 = 0 THEN Copy(q, q.opd1) ELSE q
      BY <2>7 DEF Simplified
    <3>3. (l = 0 => l + r = r) /\ (r = 0 => l + r = l)
      BY <2>6
    <3>4. QED
      BY <2>4, <2>5, <2>6, <3>1, <3>2, <3>3
  <2>8. CASE q.op = "Minus"
    <3>1. Step(s, q) = Store(s, q.target, Wrap(l - r))
      BY <2>2, <2>8 DEF Traps, Computed
    <3>2. Simplified(q) = IF q.opd2 = 0 THEN Copy(q, q.opd1) ELSE q
      BY <2>8 DEF Simplified, SelfInverse
    <3>3. r = 0 => l - r = l
      BY <2>6
    <3>4. QED
      BY <2>4, <2>5, <2>6, <3>1, <3>2, <3>3
  <2>9. CASE q.op = "Star"
    <3>1. Step(s, q) = Store(s, q.target, Wrap(l * r))
      BY <2>2, <2>9 DEF Traps, Computed
    <3>2. Simplified(q) = IF q.opd1 = 1 THEN Copy(q, q.opd2) ELSE IF q.opd2 = 1 THEN Copy(q, q.opd1)
                          ELSE IF q.opd1 = 0 \/ q.opd2 = 0 THEN Copy(q, 0) ELSE q
      BY <2>9 DEF Simplified
    <3>3. l = 1 => l * r = r
      BY <2>6
    <3>4. r = 1 => l * r = l
      BY <2>6
    <3>5. (l = 0 => l * r = 0) /\ (r = 0 => l * r = 0)
      BY <2>6
    <3>6. QED
      BY <2>4, <2>5, <2>6, <3>1, <3>2, <3>3, <3>4, <3>5
  <2>10. CASE q.op = "Slash"
    <3>1. Simplified(q) = IF q.opd2 = 1 THEN Copy(q, q.opd1) ELSE q
      BY <2>10 DEF Simplified, SelfInverse
    <3>2. ASSUME r = 1 PROVE Step(s, q) = Store(s, q.target, l)
      <4>1. Quotient(l, r) = l
        BY <2>2, <3>2, DividedByOne
      <4>2. ~Traps(q.op, l, r)
        BY <2>2, <3>2, <4>1 DEF Traps
      <4>3. Computed(q.op, l, r) = Quotient(l, r)
        BY <2>10 DEF Computed
      <4>4. QED
        BY <2>2, <4>1, <4>2, <4>3
    <3>3. QED
      BY <2>4, <2>5, <3>1, <3>2
  <2>11. CASE q.op = "And"
    <3>1. Step(s, q) = Store(s, q.target, FromBits(Bits(l) \cap Bits(r)))
      BY <2>2, <2>11 DEF Traps, Computed
    <3>2. Simplified(q) = IF q.opd1 = q.opd2 THEN Copy(q, q.opd1) ELSE q
      BY <2>11 DEF Simplified
    <3>3. l = r => FromBits(Bits(l) \cap Bits(r)) = l
      BY <2>2, BitLogic
    <3>4. QED
      BY <2>4, <2>5, <3>1, <3>2, <3>3
  <2>12. CASE q.op = "Or"
    <3>1. Step(s, q) = Store(s, q.target, FromBits(Bits(l) \cup Bits(r)))
      BY <2>2, <2>12 DEF Traps, Computed
    <3>2. Simplified(q) = IF q.opd1 = q.opd2 THEN Copy(q, q.opd1) ELSE q
      BY <2>12 DEF Simplified
    <3>3. l = r => FromBits(Bits(l) \cup Bits(r)) = l
      BY <2>2, BitLogic
    <3>4. QED
      BY <2>4, <2>5, <3>1, <3>2, <3>3
  <2>13. CASE q.op \in {"Less", "EqualEqual"}
    BY <2>13 DEF Simplified
  <2>14. QED
    BY <1>1, <2>7, <2>8, <2>9, <2>10, <2>11, <2>12, <2>13 DEF BinaryOps
<1>2. CASE q.op \notin BinaryOps
  BY <1>2 DEF Simplified, BinaryOps
<1>3. QED
  BY <1>1, <1>2

-----------------------------------------------------------------------------
(* The passes *)

Typed ==
    /\ quads \in Seq(QuadSet) /\ source \in Seq(QuadSet)
    /\ Len(quads) = Len(source) /\ Len(quads) >= 2
    /\ pass \in {"fold", "merge", "simplify", "done"} /\ crashed \in BOOLEAN
    /\ i \in Nat /\ i >= 1
    /\ pass = "fold" => i <= Len(quads)
    /\ pass \in {"merge", "simplify"} => i < Len(quads)

LEMMA Updated ==
    ASSUME NEW qs \in Seq(QuadSet), NEW k \in 1 .. Len(qs), NEW q, WellFormed(q)
    PROVE  LET ps == [qs EXCEPT ![k] = q]
           IN  /\ ps \in Seq(QuadSet) /\ Len(ps) = Len(qs) /\ ps[k] = q
               /\ \A j \in 1 .. Len(qs) : j # k => ps[j] = qs[j]
<1>1. q \in QuadSet
  BY WellFormedInSet
<1>2. QED
  BY <1>1

LEMMA Listed == ASSUME NEW qs \in Seq(QuadSet), NEW k \in 1 .. Len(qs) PROVE WellFormed(qs[k])
<1>1. qs[k] \in QuadSet
  OBVIOUS
<1>2. QED
  BY <1>1 DEF QuadSet

LEMMA SimplifiedWellFormed == ASSUME NEW q, WellFormed(q) PROVE WellFormed(Simplified(q))
<1>1. CASE q.op \in BinaryOps
  <2>1. q.target \in Vars /\ q.opd1 \in Operands /\ q.opd2 \in Operands /\ 0 \in Operands /\ 1 \in Operands
    BY <1>1, QuadKinds, Range2 DEF Operands
  <2>2. \A x \in Operands : WellFormed(Copy(q, x))
    BY <2>1, CopyWellFormed
  <2>3. WellFormed(Quad("Assign", q.target, q.opd1, q.opd2))
    BY <2>1 DEF WellFormed, Quad
  <2>4. Simplified(q) \in {Copy(q, q.opd1), Copy(q, q.opd2), Copy(q, 0), Copy(q, 1), q,
                           Quad("Assign", q.target, q.opd1, q.opd2)}
    BY DEF Simplified
  <2>5. QED
    BY <2>1, <2>2, <2>3, <2>4
<1>2. CASE q.op \notin BinaryOps
  BY <1>2 DEF Simplified, BinaryOps
<1>3. QED
  BY <1>1, <1>2

\* A quad that is merged with the next has a target.
LEMMA MergesKinds ==
    ASSUME NEW q1, NEW q2, WellFormed(q1), WellFormed(q2), Merges(q1, q2)
    PROVE  /\ q1.target \in Operands /\ q2.target \in Vars /\ q2.op = "Assign" /\ q2.opd1 = q1.target
           /\ q1.op \in BinaryOps \cup {"Assign", "CondGoto"}
           /\ WellFormed(Merged(q1, q2))
<1>1. q2.op = "Assign" /\ q2.opd1 = q1.target /\ q2.target \in Vars /\ q1.target \in Operands
  BY QuadKinds DEF Merges
<1>2. Nothing \notin Operands
  BY NamesAssumption, Range2 DEF Operands
<1>3. q1.op \in BinaryOps \cup {"Assign", "CondGoto"}
  <2>1. EmptyQuad.target = Nothing
    BY DEF EmptyQuad, Quad
  <2>2. QED
    BY <1>1, <1>2, <2>1, QuadKinds
<1>4. WellFormed(Merged(q1, q2))
  <2>1. q1 # EmptyQuad
    BY <1>1, <1>2 DEF EmptyQuad, Quad
  <2>2. q2.target \in Operands
    BY <1>1 DEF Operands
  <2>3. QED
    BY <1>1, <1>3, <2>1, <2>2 DEF WellFormed, Merged, Quad, BinaryOps
<1>5. QED
  BY <1>1, <1>3, <1>4

LEMMA EmptyWellFormed == WellFormed(EmptyQuad)
BY DEF WellFormed, EmptyQuad, Quad

LEMMA InitTyped == Init => Typed
<1>1. SUFFICES ASSUME Init PROVE Typed
  OBVIOUS
<1>2. quads \in Seq(Range(quads)) /\ Len(quads) >= 2 /\ \A q \in Range(quads) : WellFormed(q)
  BY <1>1, ProgramsAssumption DEF Init
<1>3. Range(quads) \subseteq QuadSet
  BY <1>2, WellFormedInSet
<1>4. quads \in Seq(QuadSet)
  <2>1. \A R : R \subseteq QuadSet => Seq(R) \subseteq Seq(QuadSet)
    OBVIOUS
  <2>2. QED
    BY <1>2, <1>3, <2>1
<1>5. source = quads /\ pass = "fold" /\ i = 1 /\ crashed = FALSE
  BY <1>1 DEF Init
<1>6. source \in Seq(QuadSet) /\ Len(quads) = Len(source) /\ Len(quads) \in Nat
  BY <1>4, <1>5
<1>7. i \in Nat /\ i >= 1 /\ i < Len(quads)
  BY <1>2, <1>5, <1>6
<1>8. pass \in {"fold", "merge", "simplify", "done"} /\ pass \notin {"merge", "simplify"}
  BY <1>5
<1>9. crashed \in BOOLEAN
  BY <1>5
<1>10. Len(quads) >= 2
  BY <1>2
<1>11. i <= Len(quads)
  BY <1>6, <1>7
<1>12. QED
  BY <1>4, <1>6, <1>7, <1>8, <1>9, <1>10, <1>11 DEF Typed

LEMMA AdvanceTyped ==
    ASSUME Typed, pass \in {"fold", "merge", "simplify"}, Advance, quads' \in Seq(QuadSet),
           Len(quads') = Len(quads), crashed' \in BOOLEAN
    PROVE  Typed'
<1>1. Len(quads) \in Nat /\ Len(quads) >= 2 /\ i \in Nat /\ i >= 1
  BY DEF Typed
<1>2. source' = source
  BY DEF Advance
<1>3. CASE i < Limit
  <2>1. i' = i + 1 /\ pass' = pass
    BY <1>3 DEF Advance
  <2>2. pass = "fold" => i + 1 <= Len(quads)
    BY <1>1, <1>3 DEF Limit
  <2>3. pass # "fold" => i + 1 < Len(quads)
    BY <1>1, <1>3 DEF Limit
  <2>4. QED
    BY <1>1, <1>2, <2>1, <2>2, <2>3 DEF Typed
<1>4. CASE ~(i < Limit)
  <2>1. i' = 1 /\ pass' = Following[pass]
    BY <1>4 DEF Advance
  <2>2. pass' \in {"merge", "simplify", "done"}
    BY <2>1 DEF Following
  <2>3. QED
    BY <1>1, <1>2, <2>1, <2>2 DEF Typed
<1>5. QED
  BY <1>3, <1>4

\* What fold_constants does with a quad.
LEMMA FoldCases ==
    ASSUME Typed, FoldConstants
    PROVE  LET q == quads[i]
           IN  /\ i \in 1 .. Len(quads) /\ WellFormed(q) /\ crashed' \in BOOLEAN
               /\ \/ UNCHANGED quads
                  \/ /\ q.op \in BinaryOps /\ {q.opd1, q.opd2} \subseteq Ints
                     /\ ~Traps(q.op, q.opd1, q.opd2) /\ UNCHANGED crashed
                     /\ WellFormed(Copy(q, Folded(q.op, q.opd1, q.opd2)))
                     /\ quads' = [quads EXCEPT ![i] = Copy(q, Folded(q.op, q.opd1, q.opd2))]
<1> DEFINE q == quads[i]
<1>1. i \in 1 .. Len(quads)
  BY DEF Typed, FoldConstants
<1>2. WellFormed(q)
  BY <1>1, Listed DEF Typed
<1>3. crashed' \in BOOLEAN
  BY DEF FoldConstants, Typed
<1>4. CASE /\ q.op \in BinaryOps /\ {q.opd1, q.opd2} \subseteq Ints
           /\ ~Traps(q.op, q.opd1, q.opd2)
  <2> DEFINE v == Folded(q.op, q.opd1, q.opd2)
  <2>1. v \in Operands
    BY <1>4, FoldedInRange DEF Operands
  <2>2. q.target \in Vars
    BY <1>2, <1>4, QuadKinds
  <2>3. WellFormed(Copy(q, v))
    BY <2>1, <2>2, CopyWellFormed
  <2>4. quads' = [quads EXCEPT ![i] = Copy(q, v)] /\ UNCHANGED crashed
    BY <1>4 DEF FoldConstants
  <2>5. QED
    BY <1>1, <1>2, <1>3, <1>4, <2>3, <2>4
<1>5. CASE ~(/\ q.op \in BinaryOps /\ {q.opd1, q.opd2} \subseteq Ints
             /\ ~Traps(q.op, q.opd1, q.opd2))
  BY <1>1, <1>2, <1>3, <1>5 DEF FoldConstants
<1>6. QED
  BY <1>4, <1>5

LEMMA MergeCases ==
    ASSUME Typed, MergeAdjacentStoreFetch
    PROVE  /\ i \in 1 .. Len(quads) /\ i + 1 \in 1 .. Len(quads)
           /\ WellFormed(quads[i]) /\ WellFormed(quads[i + 1])
           /\ \/ UNCHANGED quads
              \/ /\ Merges(quads[i], quads[i + 1]) /\ WellFormed(Merged(quads[i], quads[i + 1]))
                 /\ quads' = [quads EXCEPT ![i] = EmptyQuad,
                                           ![i + 1] = Merged(quads[i], quads[i + 1])]
<1>1. i \in 1 .. Len(quads) /\ i + 1 \in 1 .. Len(quads)
  BY DEF Typed, MergeAdjacentStoreFetch
<1>2. WellFormed(quads[i]) /\ WellFormed(quads[i + 1])
  BY <1>1, Listed DEF Typed
<1>3. QED
  BY <1>1, <1>2, MergesKinds DEF MergeAdjacentStoreFetch

LEMMA SimplifyCases ==
    ASSUME Typed, SimplifyAlgebraicIdentities
    PROVE  /\ i \in 1 .. Len(quads) /\ WellFormed(quads[i]) /\ WellFormed(Simplified(quads[i]))
           /\ quads' = [quads EXCEPT ![i] = Simplified(quads[i])]
<1>1. i \in 1 .. Len(quads)
  BY DEF Typed, SimplifyAlgebraicIdentities
<1>2. WellFormed(quads[i]) /\ WellFormed(Simplified(quads[i]))
  BY <1>1, Listed, SimplifiedWellFormed DEF Typed
<1>3. QED
  BY <1>1, <1>2 DEF SimplifyAlgebraicIdentities

LEMMA NextTyped == ASSUME Typed, [Next]_vars PROVE Typed'
<1>1. quads \in Seq(QuadSet)
  BY DEF Typed
<1>2. CASE FoldConstants
  <2>1. quads' \in Seq(QuadSet) /\ Len(quads') = Len(quads) /\ crashed' \in BOOLEAN
    BY <1>1, <1>2, FoldCases, Updated
  <2>2. Advance /\ pass \in {"fold", "merge", "simplify"}
    BY <1>2 DEF FoldConstants
  <2>3. QED
    BY <2>1, <2>2, AdvanceTyped
<1>3. CASE MergeAdjacentStoreFetch
  <2>1. crashed' \in BOOLEAN /\ Advance /\ pass \in {"fold", "merge", "simplify"}
    BY <1>3 DEF MergeAdjacentStoreFetch, Typed
  <2>2. quads' \in Seq(QuadSet) /\ Len(quads') = Len(quads)
    <3>1. CASE UNCHANGED quads
      BY <1>1, <3>1
    <3>2. CASE ~UNCHANGED quads
      <4> DEFINE m == Merged(quads[i], quads[i + 1])
                 qs == [quads EXCEPT ![i] = EmptyQuad]
      <4>1. /\ i \in 1 .. Len(quads) /\ i + 1 \in 1 .. Len(quads) /\ WellFormed(m)
            /\ quads' = [quads EXCEPT ![i] = EmptyQuad, ![i + 1] = m]
        BY <1>3, <3>2, MergeCases
      <4> HIDE DEF m
      <4>2. qs \in Seq(QuadSet) /\ Len(qs) = Len(quads)
        BY <1>1, <4>1, Updated, EmptyWellFormed
      <4>3. quads' = [qs EXCEPT ![i + 1] = m]
        BY <4>1
      <4> HIDE DEF qs
      <4> DEFINE ps == [qs EXCEPT ![i + 1] = m]
      <4>4. i + 1 \in 1 .. Len(qs)
        BY <4>1, <4>2
      <4>5. ps \in Seq(QuadSet) /\ Len(ps) = Len(qs)
        BY <4>1, <4>2, <4>4, Updated
      <4>6. QED
        BY <4>2, <4>3, <4>5
    <3>3. QED
      BY <3>1, <3>2
  <2>3. QED
    BY <2>1, <2>2, AdvanceTyped
<1>4. CASE SimplifyAlgebraicIdentities
  <2>1. crashed' \in BOOLEAN /\ Advance /\ pass \in {"fold", "merge", "simplify"}
    BY <1>4 DEF SimplifyAlgebraicIdentities, Typed
  <2>2. quads' \in Seq(QuadSet) /\ Len(quads') = Len(quads)
    BY <1>1, <1>4, SimplifyCases, Updated
  <2>3. QED
    BY <2>1, <2>2, AdvanceTyped
<1>5. CASE UNCHANGED vars
  BY <1>5 DEF vars, Typed
<1>6. QED
  BY <1>2, <1>3, <1>4, <1>5 DEF Next

\* The quads keep their number and their form, and the loop counters stay
\* inside the vector.
THEOREM SpecTyped == Spec => []Typed
<1>1. Init => Typed
  BY InitTyped
<1>2. Typed /\ [Next]_vars => Typed'
  BY NextTyped
<1>3. QED
  BY <1>1, <1>2, PTL DEF Spec

\* Two programs that differ in one quad that does the same.
LEMMA SameButOne ==
    ASSUME NEW qs \in Seq(QuadSet), NEW k \in 1 .. Len(qs), NEW q, WellFormed(q),
           \A s \in States : Step(s, q) = Step(s, qs[k])
    PROVE  SameMeaning(qs, [qs EXCEPT ![k] = q])
<1> DEFINE ps == [qs EXCEPT ![k] = q]
<1>1. /\ ps \in Seq(QuadSet) /\ Len(ps) = Len(qs) /\ ps[k] = q
      /\ \A j \in 1 .. Len(qs) : j # k => ps[j] = qs[j]
  BY Updated
<1> HIDE DEF ps
<1>2. \A j \in 1 .. Len(qs), s \in States : Step(s, ps[j]) = Step(s, qs[j])
  BY <1>1
<1>3. Meaning(ps) = Meaning(qs)
  BY <1>1, <1>2, SameSteps
<1>4. QED
  BY <1>3 DEF SameMeaning, ps

LEMMA FoldMeaning ==
    ASSUME Typed, FoldConstants, BooleanLogic(quads) PROVE SameMeaning(quads, quads')
<1> DEFINE q == quads[i]
           c == Copy(q, Folded(q.op, q.opd1, q.opd2))
<1>1. CASE UNCHANGED quads
  BY <1>1 DEF SameMeaning
<1>2. CASE ~UNCHANGED quads
  <2>1. /\ i \in 1 .. Len(quads) /\ WellFormed(q) /\ q.op \in BinaryOps /\ {q.opd1, q.opd2} \subseteq Ints
        /\ ~Traps(q.op, q.opd1, q.opd2) /\ WellFormed(c)
        /\ quads' = [quads EXCEPT ![i] = c]
    BY <1>2, FoldCases
  <2>2. q.op \in {"And", "Or"} => {q.opd1, q.opd2} \subseteq {0, 1}
    <3>1. i \in DOMAIN quads
      BY <2>1 DEF Typed
    <3>2. q.op \in {"And", "Or"} => {q.opd1, q.opd2} \cap Ints \subseteq {0, 1}
      BY <3>1 DEF BooleanLogic
    <3>3. QED
      BY <2>1, <3>2
  <2>3. ASSUME NEW s \in States PROVE Step(s, c) = Step(s, q)
    BY <2>1, <2>2, FoldedStep
  <2> HIDE DEF c
  <2>4. SameMeaning(quads, [quads EXCEPT ![i] = c])
    BY <2>1, <2>3, SameButOne DEF Typed
  <2>5. QED
    BY <2>1, <2>4
<1>3. QED
  BY <1>1, <1>2

LEMMA SimplifyMeaning ==
    ASSUME Typed, SimplifyAlgebraicIdentities, ~SelfInverse(quads[i]) PROVE SameMeaning(quads, quads')
<1> DEFINE q == quads[i]
           c == Simplified(q)
<1>1. i \in 1 .. Len(quads) /\ WellFormed(q) /\ WellFormed(c) /\ quads' = [quads EXCEPT ![i] = c]
  BY SimplifyCases
<1>2. ASSUME NEW s \in States PROVE Step(s, c) = Step(s, q)
  BY <1>1, SimplifiedStep
<1> HIDE DEF c
<1>3. SameMeaning(quads, [quads EXCEPT ![i] = c])
  BY <1>1, <1>2, SameButOne DEF Typed
<1>4. QED
  BY <1>1, <1>3

\* Folding does not change what the program computes, at any width, as long
\* as an and or an or of literals has truth values (fold_constants).
THEOREM SpecFoldKeepsMeaning == Spec => FoldKeepsMeaning
<1>1. ASSUME Typed, [Next]_vars
      PROVE  [pass = "fold" /\ BooleanLogic(quads) => SameMeaning(quads, quads')]_vars
  <2>1. CASE FoldConstants
    BY <1>1, <2>1, FoldMeaning
  <2>2. CASE MergeAdjacentStoreFetch \/ SimplifyAlgebraicIdentities
    BY <2>2 DEF MergeAdjacentStoreFetch, SimplifyAlgebraicIdentities
  <2>3. QED
    BY <1>1, <2>1, <2>2 DEF Next
<1>2. QED
  BY <1>1, SpecTyped, PTL DEF Spec, FoldKeepsMeaning

\* An identity the third pass uses does not change what the program computes,
\* at any width, but for x - x and x / x (simplify_algebraic_identities).
THEOREM SpecSimplifyKeepsMeaning == Spec => SimplifyKeepsMeaning
<1>1. ASSUME Typed, [Next]_vars
      PROVE  [pass = "simplify" /\ ~SelfInverse(quads[i]) => SameMeaning(quads, quads')]_vars
  <2>1. CASE SimplifyAlgebraicIdentities
    BY <1>1, <2>1, SimplifyMeaning
  <2>2. CASE FoldConstants \/ MergeAdjacentStoreFetch
    BY <2>2 DEF FoldConstants, MergeAdjacentStoreFetch
  <2>3. QED
    BY <1>1, <2>1, <2>2 DEF Next
<1>2. QED
  BY <1>1, SpecTyped, PTL DEF Spec, SimplifyKeepsMeaning

-----------------------------------------------------------------------------
(* Leaving out a store *)

\* the environments give every variable but x the same value
AgreeBut(x, e, f) == \A v \in Vars \ {x} : e[v] = f[v]

LEMMA StoreFields ==
    ASSUME NEW s \in States, NEW x \in Vars, NEW v \in Ints, NEW t, t = Store(s, x, v)
    PROVE  /\ t.env \in Envs /\ t.env[x] = v /\ (\A y \in Vars \ {x} : t.env[y] = s.env[y])
           /\ t.out = s.out /\ t.halted = s.halted /\ t.next = s.next
BY DEF Store, States, Envs

LEMMA StopFields ==
    ASSUME NEW s \in States, NEW r \in States, s.out = r.out, s.next = r.next, NEW v,
           NEW a, a = Stop(s, v), NEW b, b = Stop(r, v)
    PROVE  /\ a.out = b.out /\ a.halted = b.halted /\ a.halted /\ a.next = b.next
           /\ a.next = s.next /\ a.env = s.env /\ b.env = r.env
BY DEF Stop, States

LEMMA PushFields ==
    ASSUME NEW s \in States, NEW v, NEW t, t = [s EXCEPT !.out = Append(@, v)]
    PROVE  t.env = s.env /\ t.out = Append(s.out, v) /\ t.halted = s.halted /\ t.next = s.next
BY DEF States

LEMMA NextFields ==
    ASSUME NEW s \in States, NEW n, NEW t, t = [s EXCEPT !.next = n]
    PROVE  t.env = s.env /\ t.out = s.out /\ t.halted = s.halted /\ t.next = n
BY DEF States

LEMMA FetchAgrees ==
    ASSUME NEW s \in States, NEW r \in States, NEW x \in Vars, AgreeBut(x, s.env, r.env),
           NEW y \in Operands, y # x \/ s.env = r.env
    PROVE  Fetch(s.env, y) = Fetch(r.env, y)
<1>1. CASE y \in Ints
  BY <1>1 DEF Fetch
<1>2. CASE y \notin Ints
  <2>1. y \in Vars
    BY <1>2 DEF Operands
  <2>2. s.env[y] = r.env[y]
    BY <2>1 DEF AgreeBut
  <2>3. QED
    BY <1>2, <2>2 DEF Fetch
<1>3. QED
  BY <1>1, <1>2

LEMMA ReadsKinds ==
    ASSUME NEW q
    PROVE  /\ q.op \in BinaryOps => Reads(q) = {q.opd1, q.opd2}
           /\ q.op = "Assign" => Reads(q) = {q.opd1}
           /\ q.op = "CondGoto" => Reads(q) = {q.target}
           /\ q.op \in {"PushArg", "Return"} => Reads(q) = {q.opd2}
           /\ q.op \in {"Goto", "EmptyQuad"} => Reads(q) = {}
BY DEF Reads, BinaryOps

\* One quad, executed in two states that differ at most in a variable the quad
\* does not read.
LEMMA StepAgrees ==
    ASSUME NEW s \in States, NEW r \in States, NEW x \in Vars, NEW q, WellFormed(q),
           AgreeBut(x, s.env, r.env), x \notin Reads(q) \/ s.env = r.env,
           s.out = r.out, s.halted = r.halted, s.next = r.next
    PROVE  LET a == Step(s, q)
               b == Step(r, q)
           IN  /\ a.out = b.out /\ a.halted = b.halted /\ a.next = b.next
               /\ AgreeBut(x, a.env, b.env) /\ (s.env = r.env => a.env = b.env)
               /\ a.next = s.next \/ a.next \in Landings(q)
               /\ q.op = "Goto" => a.next \in Landings(q)
               /\ q.op = "Return" => a.halted
<1> DEFINE a == Step(s, q)
           b == Step(r, q)
<1>1. \A y \in Operands : y \in Reads(q) => Fetch(s.env, y) = Fetch(r.env, y)
  BY FetchAgrees
<1>2. s.env \in Envs /\ r.env \in Envs
  BY StateFields
<1>3. ASSUME NEW y \in Vars, NEW v \in Ints, a = Store(s, y, v), b = Store(r, y, v), q.op \notin {"Goto", "Return"}
      PROVE  /\ a.out = b.out /\ a.halted = b.halted /\ a.next = b.next
             /\ AgreeBut(x, a.env, b.env) /\ (s.env = r.env => a.env = b.env)
             /\ a.next = s.next \/ a.next \in Landings(q)
             /\ q.op = "Goto" => a.next \in Landings(q)
             /\ q.op = "Return" => a.halted
  <2> HIDE DEF a, b
  <2>1. /\ a.env[y] = v /\ (\A z \in Vars \ {y} : a.env[z] = s.env[z])
        /\ a.out = s.out /\ a.halted = s.halted /\ a.next = s.next /\ a.env \in Envs
    BY <1>3, StoreFields
  <2>2. /\ b.env[y] = v /\ (\A z \in Vars \ {y} : b.env[z] = r.env[z])
        /\ b.out = r.out /\ b.halted = r.halted /\ b.next = r.next /\ b.env \in Envs
    BY <1>3, StoreFields
  <2>3. AgreeBut(x, a.env, b.env)
    BY <2>1, <2>2 DEF AgreeBut
  <2>4. s.env = r.env => a.env = b.env
    BY <2>1, <2>2 DEF Envs
  <2>5. QED
    BY <1>3, <2>1, <2>2, <2>3, <2>4
<1>4. CASE q.op \in BinaryOps
  <2> DEFINE l == Fetch(s.env, q.opd1)
             m == Fetch(s.env, q.opd2)
  <2>1. q.opd1 \in Operands /\ q.opd2 \in Operands /\ q.opd1 \in Reads(q) /\ q.opd2 \in Reads(q) /\ q.target \in Vars
    BY <1>4, QuadKinds, ReadsKinds
  <2>2. Fetch(r.env, q.opd1) = l /\ Fetch(r.env, q.opd2) = m
    BY <1>1, <2>1
  <2>3. /\ l \in Ints /\ m \in Ints
        /\ a = IF Traps(q.op, l, m) THEN Stop(s, "trap") ELSE Store(s, q.target, Computed(q.op, l, m))
        /\ b = IF Traps(q.op, l, m) THEN Stop(r, "trap") ELSE Store(r, q.target, Computed(q.op, l, m))
    BY <1>4, <2>2, ComputeCases
  <2> HIDE DEF a, b, l, m
  <2>4. CASE Traps(q.op, l, m)
    <3> DEFINE v == "trap"
    <3>1. a = Stop(s, v) /\ b = Stop(r, v)
      BY <2>3, <2>4
    <3> HIDE DEF v
    <3>2. /\ a.out = b.out /\ a.halted = b.halted /\ a.halted /\ a.next = b.next
          /\ a.next = s.next /\ a.env = s.env /\ b.env = r.env
      BY <3>1, StopFields
    <3>3. q.op # "Goto"
      BY <1>4 DEF BinaryOps
    <3>4. QED
      BY <3>2, <3>3 DEF a, b
  <2>5. CASE ~Traps(q.op, l, m)
    <3>1. Computed(q.op, l, m) \in Ints
      BY <1>4, <2>3, <2>5, ComputedInRange
    <3>2. q.op \notin {"Goto", "Return"}
      BY <1>4 DEF BinaryOps
    <3>3. a = Store(s, q.target, Computed(q.op, l, m)) /\ b = Store(r, q.target, Computed(q.op, l, m))
      BY <2>3, <2>5
    <3>4. QED
      BY <1>3, <2>1, <3>1, <3>2, <3>3 DEF a, b
  <2>6. QED
    BY <2>4, <2>5
<1>5. CASE q.op = "Assign"
  <2> DEFINE v == Fetch(s.env, q.opd1)
  <2>1. q.opd1 \in Operands /\ q.opd1 \in Reads(q) /\ q.target \in Vars
    BY <1>5, QuadKinds, ReadsKinds
  <2>2. v \in Ints /\ Fetch(r.env, q.opd1) = v
    BY <1>1, <1>2, <2>1, FetchInRange
  <2>3. a = Store(s, q.target, v) /\ b = Store(r, q.target, v)
    BY <1>5, <2>2, StepKinds DEF Assign
  <2> HIDE DEF v, a, b
  <2>4. QED
    BY <1>3, <1>5, <2>1, <2>2, <2>3 DEF a, b
<1>6. CASE q.op = "Goto"
  <2>1. a = [s EXCEPT !.next = q.opd2] /\ b = [r EXCEPT !.next = q.opd2]
    BY <1>6, StepKinds DEF Jump
  <2>2. Landings(q) = {q.opd2}
    BY <1>6 DEF Landings
  <2> HIDE DEF a, b
  <2>3. /\ a.env = s.env /\ a.out = s.out /\ a.halted = s.halted /\ a.next = q.opd2
        /\ b.env = r.env /\ b.out = r.out /\ b.halted = r.halted /\ b.next = q.opd2
    BY <2>1, NextFields
  <2>4. QED
    BY <1>6, <2>2, <2>3 DEF a, b
<1>7. CASE q.op = "CondGoto"
  <2> DEFINE v == Fetch(s.env, q.target)
             n == IF v = 0 THEN q.opd1 ELSE IF q.opd2 # Nothing THEN q.opd2 ELSE s.next
  <2>1. q.target \in Operands /\ q.target \in Reads(q)
    BY <1>7, QuadKinds, ReadsKinds
  <2>2. Fetch(r.env, q.target) = v
    BY <1>1, <2>1
  <2>3. a = Branch(s, q) /\ b = Branch(r, q)
    BY <1>7, StepKinds
  <2>4. a = [s EXCEPT !.next = n] /\ b = [r EXCEPT !.next = n]
    <3>1. s = [s EXCEPT !.next = s.next] /\ r = [r EXCEPT !.next = s.next]
      BY DEF States
    <3>2. QED
      BY <2>2, <2>3, <3>1 DEF Branch
  <2>5. n = s.next \/ n \in Landings(q)
    BY <1>7 DEF Landings
  <2> HIDE DEF a, b, n, v
  <2>6. /\ a.env = s.env /\ a.out = s.out /\ a.halted = s.halted /\ a.next = n
        /\ b.env = r.env /\ b.out = r.out /\ b.halted = r.halted /\ b.next = n
    BY <2>4, NextFields
  <2>7. QED
    BY <1>7, <2>5, <2>6 DEF a, b
<1>8. CASE q.op = "PushArg"
  <2> DEFINE v == Fetch(s.env, q.opd2)
  <2>1. q.opd2 \in Operands /\ q.opd2 \in Reads(q)
    BY <1>8, QuadKinds, ReadsKinds
  <2>2. Fetch(r.env, q.opd2) = v
    BY <1>1, <2>1
  <2>3. a = [s EXCEPT !.out = Append(@, v)] /\ b = [r EXCEPT !.out = Append(@, v)]
    BY <1>8, <2>2, StepKinds DEF Push
  <2> HIDE DEF a, b, v
  <2>4. /\ a.env = s.env /\ a.out = Append(s.out, v) /\ a.halted = s.halted /\ a.next = s.next
        /\ b.env = r.env /\ b.out = Append(r.out, v) /\ b.halted = r.halted /\ b.next = r.next
    BY <2>3, PushFields
  <2>5. QED
    BY <1>8, <2>4 DEF a, b
<1>9. CASE q.op = "Return"
  <2> DEFINE v == Fetch(s.env, q.opd2)
  <2>1. q.opd2 \in Operands /\ q.opd2 \in Reads(q)
    BY <1>9, QuadKinds, ReadsKinds
  <2>2. Fetch(r.env, q.opd2) = v
    BY <1>1, <2>1
  <2>3. a = Stop(s, v) /\ b = Stop(r, v)
    BY <1>9, <2>2, StepKinds DEF ReturnValue
  <2> HIDE DEF a, b, v
  <2>4. /\ a.out = b.out /\ a.halted = b.halted /\ a.halted /\ a.next = b.next
        /\ a.next = s.next /\ a.env = s.env /\ b.env = r.env
    BY <2>3, StopFields
  <2>5. QED
    BY <1>9, <2>4 DEF a, b
<1>10. CASE q.op = "EmptyQuad"
  <2>1. a = s /\ b = r
    BY <1>10, StepKinds
  <2>2. QED
    BY <1>10, <2>1
<1>11. QED
  BY <1>4, <1>5, <1>6, <1>7, <1>8, <1>9, <1>10, QuadKinds

\* a place where a store can be left out, L the places after the copy
Site(qs, k, L) ==
    /\ qs \in Seq(QuadSet) /\ k \in 1 .. Len(qs) - 1
    /\ Merges(qs[k], qs[k + 1]) /\ qs[k].op # "CondGoto"
    /\ \A j \in 1 .. Len(qs) : k + 1 \notin Landings(qs[j])
    /\ L \in SUBSET (1 .. Len(qs)) /\ k + 2 \in L \cup {Len(qs) + 1}
    /\ \A j \in L : Followers(qs, j) \cap 1 .. Len(qs) \subseteq L
    /\ \A j \in L \ {k + 1} : qs[k].target \notin Reads(qs[j])

\* a state before the merge and one after it
Alike(qs, k, L, s, r) ==
    /\ s \in States /\ r \in States
    /\ s.out = r.out /\ s.halted = r.halted
    /\ ~s.halted => /\ s.next = r.next /\ s.next # k + 1
                    /\ AgreeBut(qs[k].target, s.env, r.env)
                    /\ s.env = r.env \/ s.next \in L \/ s.next \notin 1 .. Len(qs)

LEMMA SiteFacts ==
    ASSUME NEW qs, NEW k, NEW L, Site(qs, k, L)
    PROVE  /\ Len(qs) \in Nat /\ k \in 1 .. Len(qs) /\ k + 1 \in 1 .. Len(qs)
           /\ WellFormed(qs[k]) /\ WellFormed(qs[k + 1]) /\ WellFormed(Merged(qs[k], qs[k + 1]))
           /\ qs[k].op \in BinaryOps \cup {"Assign"}
           /\ qs[k].target \in Vars /\ qs[k + 1].target \in Vars
           /\ qs[k + 1].op = "Assign" /\ qs[k + 1].opd1 = qs[k].target
<1>1. Len(qs) \in Nat /\ k \in 1 .. Len(qs) /\ k + 1 \in 1 .. Len(qs)
  BY DEF Site
<1>2. WellFormed(qs[k]) /\ WellFormed(qs[k + 1])
  BY <1>1, Listed DEF Site
<1>3. /\ qs[k + 1].target \in Vars /\ qs[k + 1].op = "Assign" /\ qs[k + 1].opd1 = qs[k].target
      /\ qs[k].op \in BinaryOps \cup {"Assign", "CondGoto"} /\ WellFormed(Merged(qs[k], qs[k + 1]))
  BY <1>2, MergesKinds DEF Site
<1>4. qs[k].op \in BinaryOps \cup {"Assign"}
  BY <1>3 DEF Site
<1>5. qs[k].target \in Vars
  BY <1>2, <1>4, QuadKinds
<1>6. QED
  BY <1>1, <1>2, <1>3, <1>4, <1>5

\* The quads that the merge leaves alone.
LEMMA ElsewhereAlike ==
    ASSUME NEW qs, NEW k, NEW L, Site(qs, k, L), NEW s, NEW r, Alike(qs, k, L, s, r),
           NEW j \in 1 .. Len(qs), j # k, j # k + 1
    PROVE  Alike(qs, k, L, Passed(s, j, qs[j]), Passed(r, j, qs[j]))
<1> DEFINE x == qs[k].target
           q == qs[j]
           s1 == [s EXCEPT !.next = j + 1]
           r1 == [r EXCEPT !.next = j + 1]
           a == Step(s1, q)
           b == Step(r1, q)
<1>1. s \in States /\ r \in States /\ s.out = r.out /\ s.halted = r.halted
  BY DEF Alike
<1>2. CASE s.halted
  BY <1>1, <1>2 DEF Passed
<1>3. CASE ~s.halted /\ s.next # j
  <2>1. r.next # j
    BY <1>3 DEF Alike
  <2>2. Passed(s, j, q) = s /\ Passed(r, j, q) = r
    BY <1>3, <2>1 DEF Passed
  <2>3. QED
    BY <2>2
<1>4. CASE ~s.halted /\ s.next = j
  <2>1. r.next = j /\ AgreeBut(x, s.env, r.env) /\ (s.env = r.env \/ j \in L)
    BY <1>4 DEF Alike
  <2>2. Passed(s, j, q) = a /\ Passed(r, j, q) = b
    BY <1>1, <1>4, <2>1 DEF Passed
  <2>3. j \in Nat /\ j + 1 \in Nat /\ k \in Nat /\ j + 1 # k + 1
    BY SiteFacts
  <2>4. s1 \in States /\ r1 \in States
    BY <1>1, <2>3, NextInStates
  <2>5. /\ s1.env = s.env /\ s1.out = s.out /\ s1.halted = s.halted /\ s1.next = j + 1
        /\ r1.env = r.env /\ r1.out = r.out /\ r1.halted = r.halted /\ r1.next = j + 1
    BY <1>1, NextFields
  <2>6. x \in Vars /\ WellFormed(q)
    BY SiteFacts, Listed DEF Site
  <2>7. j \in L => x \notin Reads(q)
    BY DEF Site
  <2> HIDE DEF s1, r1, x, q
  <2>8. /\ a.out = b.out /\ a.halted = b.halted /\ a.next = b.next
        /\ AgreeBut(x, a.env, b.env) /\ (s1.env = r1.env => a.env = b.env)
        /\ a.next = s1.next \/ a.next \in Landings(q)
        /\ q.op = "Goto" => a.next \in Landings(q)
        /\ q.op = "Return" => a.halted
    BY <1>1, <2>1, <2>4, <2>5, <2>6, <2>7, StepAgrees
  <2>9. a \in States /\ b \in States
    BY <2>4, <2>6, StepInStates
  <2>10. k + 1 \notin Landings(q)
    BY DEF Site, q
  <2>11. a.next # k + 1
    BY <2>3, <2>5, <2>8, <2>10
  <2>12. ~a.halted /\ j \in L => a.next \in L \/ a.next \notin 1 .. Len(qs)
    <3>1. ~a.halted => a.next \in Followers(qs, j)
      BY <2>5, <2>8 DEF Followers, q
    <3>2. j \in L => Followers(qs, j) \cap 1 .. Len(qs) \subseteq L
      BY DEF Site
    <3>3. QED
      BY <3>1, <3>2
  <2>13. s.env = r.env => a.env = b.env
    BY <2>5, <2>8
  <2> HIDE DEF a, b
  <2>14. Alike(qs, k, L, a, b)
    BY <2>1, <2>8, <2>9, <2>11, <2>12, <2>13 DEF Alike, x
  <2>15. QED
    BY <2>2, <2>14 DEF q
<1>5. QED
  BY <1>2, <1>3, <1>4

\* what a quad that has a target does: it traps, or it stores a value
Stuck(env, q) == q.op \in BinaryOps /\ Traps(q.op, Fetch(env, q.opd1), Fetch(env, q.opd2))
Value(env, q) ==
    IF q.op \in BinaryOps THEN Computed(q.op, Fetch(env, q.opd1), Fetch(env, q.opd2))
    ELSE Fetch(env, q.opd1)

LEMMA Effects ==
    ASSUME NEW s \in States, NEW q, WellFormed(q), q.op \in BinaryOps \cup {"Assign"}
    PROVE  /\ Stuck(s.env, q) => Step(s, q) = Stop(s, "trap")
           /\ ~Stuck(s.env, q) => Step(s, q) = Store(s, q.target, Value(s.env, q)) /\ Value(s.env, q) \in Ints
<1>1. CASE q.op \in BinaryOps
  <2> DEFINE l == Fetch(s.env, q.opd1)
             r == Fetch(s.env, q.opd2)
  <2>1. /\ l \in Ints /\ r \in Ints
        /\ Step(s, q) = IF Traps(q.op, l, r) THEN Stop(s, "trap") ELSE Store(s, q.target, Computed(q.op, l, r))
    BY <1>1, ComputeCases
  <2>2. (Stuck(s.env, q) <=> Traps(q.op, l, r)) /\ Value(s.env, q) = Computed(q.op, l, r)
    BY <1>1 DEF Stuck, Value
  <2> HIDE DEF l, r
  <2>3. ~Traps(q.op, l, r) => Computed(q.op, l, r) \in Ints
    BY <1>1, <2>1, ComputedInRange
  <2>4. QED
    BY <2>1, <2>2, <2>3
<1>2. CASE q.op = "Assign"
  <2>1. q.op \notin BinaryOps
    BY <1>2 DEF BinaryOps
  <2>2. ~Stuck(s.env, q) /\ Value(s.env, q) = Fetch(s.env, q.opd1)
    BY <2>1 DEF Stuck, Value
  <2>3. Step(s, q) = Store(s, q.target, Fetch(s.env, q.opd1))
    BY <1>2, StepKinds DEF Assign
  <2>4. q.opd1 \in Operands /\ s.env \in Envs
    BY <1>2, QuadKinds, StateFields
  <2>5. QED
    BY <2>2, <2>3, <2>4, FetchInRange
<1>3. QED
  BY <1>1, <1>2

LEMMA EffectsAgree ==
    ASSUME NEW s \in States, NEW r \in States, NEW x \in Vars, AgreeBut(x, s.env, r.env),
           NEW q, WellFormed(q), q.op \in BinaryOps \cup {"Assign"}, x \notin Reads(q) \/ s.env = r.env
    PROVE  (Stuck(s.env, q) <=> Stuck(r.env, q)) /\ Value(s.env, q) = Value(r.env, q)
<1>1. \A y \in Operands : y \in Reads(q) => Fetch(s.env, y) = Fetch(r.env, y)
  BY FetchAgrees
<1>2. CASE q.op \in BinaryOps
  <2>1. q.opd1 \in Operands /\ q.opd2 \in Operands /\ Reads(q) = {q.opd1, q.opd2}
    BY <1>2, QuadKinds, ReadsKinds
  <2>2. Fetch(s.env, q.opd1) = Fetch(r.env, q.opd1) /\ Fetch(s.env, q.opd2) = Fetch(r.env, q.opd2)
    BY <1>1, <2>1
  <2>3. QED
    BY <2>2 DEF Stuck, Value
<1>3. CASE q.op = "Assign"
  <2>1. q.op \notin BinaryOps
    BY <1>3 DEF BinaryOps
  <2>2. q.opd1 \in Operands /\ Reads(q) = {q.opd1}
    BY <1>3, QuadKinds, ReadsKinds
  <2>3. Fetch(s.env, q.opd1) = Fetch(r.env, q.opd1)
    BY <1>1, <2>2
  <2>4. QED
    BY <2>1, <2>3 DEF Stuck, Value
<1>4. QED
  BY <1>2, <1>3

LEMMA MergedEffects ==
    ASSUME NEW env, NEW q1, NEW q2, NEW m, m = Merged(q1, q2)
    PROVE  /\ m.op = q1.op /\ m.target = q2.target
           /\ Stuck(env, m) <=> Stuck(env, q1)
           /\ Value(env, m) = Value(env, q1)
<1>1. m.op = q1.op /\ m.target = q2.target /\ m.opd1 = q1.opd1 /\ m.opd2 = q1.opd2
  BY DEF Merged, Quad
<1>2. QED
  BY <1>1 DEF Stuck, Value

LEMMA TrapFields ==
    ASSUME NEW s \in States, NEW r \in States, s.out = r.out,
           NEW a, a = Stop(s, "trap"), NEW b, b = Stop(r, "trap")
    PROVE  a.out = b.out /\ a.halted = b.halted /\ a.halted
BY DEF Stop, States

\* The store and the copy, and the quads the merge makes of them.
LEMMA CopyAlike ==
    ASSUME NEW qs, NEW k, NEW L, Site(qs, k, L), NEW s, NEW r, Alike(qs, k, L, s, r)
    PROVE  Alike(qs, k, L, Passed(Passed(s, k, qs[k]), k + 1, qs[k + 1]),
                           Passed(Passed(r, k, EmptyQuad), k + 1, Merged(qs[k], qs[k + 1])))
<1> DEFINE q1 == qs[k]
           q2 == qs[k + 1]
           m == Merged(q1, q2)
           x == q1.target
           y == q2.target
<1>1. /\ WellFormed(q1) /\ WellFormed(q2) /\ WellFormed(m) /\ q1.op \in BinaryOps \cup {"Assign"}
      /\ x \in Vars /\ y \in Vars /\ q2.op = "Assign" /\ q2.opd1 = x /\ k \in 1 .. Len(qs) /\ Len(qs) \in Nat
  BY SiteFacts
<1>2. k \in Nat /\ k + 1 \in Nat /\ (k + 1) + 1 = k + 2 /\ k + 2 \in Nat /\ k + 1 # k /\ k + 2 # k + 1
  BY <1>1
<1>3. s \in States /\ r \in States /\ s.out = r.out /\ s.halted = r.halted
  BY DEF Alike
<1>4. CASE s.halted
  BY <1>3, <1>4 DEF Passed
<1>5. CASE ~s.halted /\ s.next # k
  <2>1. s.next # k + 1 /\ r.next = s.next /\ ~r.halted
    BY <1>3, <1>5 DEF Alike
  <2>2. Passed(s, k, q1) = s /\ Passed(s, k + 1, q2) = s /\ Passed(r, k, EmptyQuad) = r /\ Passed(r, k + 1, m) = r
    BY <1>5, <2>1 DEF Passed
  <2>3. QED
    BY <2>2
<1>6. CASE ~s.halted /\ s.next = k
  <2> DEFINE s1 == [s EXCEPT !.next = k + 1]
             a1 == Step(s1, q1)
             r1 == [r EXCEPT !.next = k + 1]
             r2 == [r1 EXCEPT !.next = (k + 1) + 1]
             b == Step(r2, m)
             a == Passed(a1, k + 1, q2)
  <2>1. r.next = k /\ ~r.halted /\ AgreeBut(x, s.env, r.env) /\ (s.env = r.env \/ k \in L)
    BY <1>1, <1>3, <1>6 DEF Alike
  <2>2. s1 \in States /\ r1 \in States /\ r2 \in States
    BY <1>2, <1>3, NextInStates
  <2>3. /\ s1.env = s.env /\ s1.out = s.out /\ s1.halted = s.halted /\ s1.next = k + 1
        /\ r1.env = r.env /\ r1.out = r.out /\ r1.halted = r.halted /\ r1.next = k + 1
    BY <1>3, NextFields
  <2>4. r2.env = r.env /\ r2.out = r.out /\ r2.halted = r.halted /\ r2.next = k + 2
    BY <1>2, <2>2, <2>3, NextFields
  <2>5. Passed(r, k, EmptyQuad) = r1
    <3>1. EmptyQuad.op = "EmptyQuad"
      BY DEF EmptyQuad, Quad
    <3>2. Step(r1, EmptyQuad) = r1
      BY <3>1, StepKinds
    <3>3. QED
      BY <2>1, <3>2 DEF Passed
  <2>6. Passed(r1, k + 1, m) = b
    BY <2>1, <2>3 DEF Passed
  <2>7. Passed(s, k, q1) = a1
    BY <1>6 DEF Passed
  <2>8. x \notin Reads(q1) \/ s.env = r.env
    BY <1>2, <2>1 DEF Site
  <2> HIDE DEF s1, r1, r2, m, x, y, q1, q2
  <2>9. (Stuck(s1.env, q1) <=> Stuck(r2.env, q1)) /\ Value(s1.env, q1) = Value(r2.env, q1)
    BY <1>1, <2>1, <2>2, <2>3, <2>4, <2>8, EffectsAgree
  <2>10. m.op = q1.op /\ m.target = y /\ (Stuck(r2.env, m) <=> Stuck(r2.env, q1)) /\ Value(r2.env, m) = Value(r2.env, q1)
    BY MergedEffects DEF m, y
  <2>11. a1 \in States /\ b \in States
    BY <1>1, <2>2, StepInStates
  <2>12. CASE Stuck(s1.env, q1)
    <3>1. a1 = Stop(s1, "trap") /\ b = Stop(r2, "trap")
      BY <1>1, <2>2, <2>9, <2>10, <2>12, Effects
    <3> HIDE DEF a1, b
    <3>2. a1.out = b.out /\ a1.halted = b.halted /\ a1.halted
      BY <1>3, <2>2, <2>3, <2>4, <3>1, TrapFields
    <3>3. a = a1
      BY <3>2 DEF Passed
    <3> HIDE DEF a
    <3>4. Alike(qs, k, L, a, b)
      BY <2>11, <3>2, <3>3 DEF Alike
    <3>5. QED
      BY <2>5, <2>6, <2>7, <3>4 DEF a, q1, q2, m
  <2>13. CASE ~Stuck(s1.env, q1)
    <3> DEFINE v == Value(s1.env, q1)
               a2 == [a1 EXCEPT !.next = (k + 1) + 1]
    <3>1. v \in Ints /\ a1 = Store(s1, x, v) /\ b = Store(r2, y, v)
      BY <1>1, <2>2, <2>9, <2>10, <2>13, Effects DEF x
    <3> HIDE DEF a1, b, v
    <3>2. /\ a1.env \in Envs /\ a1.env[x] = v /\ (\A z \in Vars \ {x} : a1.env[z] = s1.env[z])
          /\ a1.out = s1.out /\ a1.halted = s1.halted /\ a1.next = s1.next
      BY <1>1, <2>2, <3>1, StoreFields
    <3>3. a2 \in States /\ a2.env = a1.env /\ a2.out = a1.out /\ a2.halted = a1.halted /\ a2.next = k + 2
      BY <1>2, <2>11, NextInStates, NextFields
    <3>4. a = Step(a2, q2)
      BY <1>6, <2>3, <3>2 DEF Passed
    <3> HIDE DEF a, a2
    <3>5. Fetch(a2.env, x) = v
      BY <1>1, <3>2, <3>3, FetchInRange DEF Operands
    <3>6. a = Store(a2, y, v)
      BY <1>1, <3>4, <3>5, StepKinds DEF Assign, y
    <3>7. /\ a.env \in Envs /\ a.env[y] = v /\ (\A z \in Vars \ {y} : a.env[z] = a2.env[z])
          /\ a.out = a2.out /\ a.halted = a2.halted /\ a.next = a2.next
      BY <1>1, <3>1, <3>3, <3>6, StoreFields
    <3>8. /\ b.env \in Envs /\ b.env[y] = v /\ (\A z \in Vars \ {y} : b.env[z] = r2.env[z])
          /\ b.out = r2.out /\ b.halted = r2.halted /\ b.next = r2.next
      BY <1>1, <2>2, <3>1, StoreFields
    <3>9. AgreeBut(x, a.env, b.env)
      <4>1. ASSUME NEW z \in Vars \ {x} PROVE a.env[z] = b.env[z]
        <5>1. s.env[z] = r.env[z]
          BY <2>1, <4>1 DEF AgreeBut
        <5>2. QED
          BY <2>3, <2>4, <3>2, <3>3, <3>7, <3>8, <5>1
      <4>2. QED
        BY <4>1 DEF AgreeBut
    <3>10. a.next = k + 2 /\ b.next = k + 2 /\ a.out = b.out /\ a.halted = b.halted
      BY <1>3, <2>3, <2>4, <3>2, <3>3, <3>7, <3>8
    <3>11. k + 2 \in L \/ k + 2 \notin 1 .. Len(qs)
      BY <1>1 DEF Site
    <3>12. a \in States
      BY <1>1, <3>1, <3>3, <3>6, StoreInStates
    <3>13. Alike(qs, k, L, a, b)
      BY <1>2, <2>11, <3>9, <3>10, <3>11, <3>12 DEF Alike, x, q1
    <3>14. QED
      BY <2>5, <2>6, <2>7, <3>13 DEF a, q1, q2, m
  <2>14. QED
    BY <2>12, <2>13
<1>7. QED
  BY <1>4, <1>5, <1>6

\* the quads with the store left out
LeftOut(qs, k, ps) ==
    /\ ps \in Seq(QuadSet) /\ Len(ps) = Len(qs)
    /\ ps[k] = EmptyQuad /\ ps[k + 1] = Merged(qs[k], qs[k + 1])
    /\ \A j \in 1 .. Len(qs) : j \notin {k, k + 1} => ps[j] = qs[j]

LEMMA RoundAlike ==
    ASSUME NEW qs, NEW k, NEW L, Site(qs, k, L), NEW ps, LeftOut(qs, k, ps),
           NEW s, NEW r, Alike(qs, k, L, s, r)
    PROVE  Alike(qs, k, L, Round(qs, s), Round(ps, r))
<1> DEFINE N == Len(qs)
<1>1. N \in Nat /\ qs \in Seq(QuadSet) /\ ps \in Seq(QuadSet) /\ Len(ps) = N
  BY SiteFacts DEF Site, LeftOut
<1>2. k \in Nat /\ k >= 1 /\ k + 1 <= N
  BY SiteFacts
<1>3. PICK a \in [0 .. N -> States] :
          /\ a[0] = s
          /\ \A j \in 1 .. N : a[j] = Passed(a[j - 1], j, qs[j])
          /\ Round(qs, s) = a[N]
  BY <1>1, RoundSteps DEF Alike
<1>4. PICK b \in [0 .. N -> States] :
          /\ b[0] = r
          /\ \A j \in 1 .. N : b[j] = Passed(b[j - 1], j, ps[j])
          /\ Round(ps, r) = b[N]
  BY <1>1, RoundSteps DEF Alike
<1> DEFINE Al(j) == j # k => Alike(qs, k, L, a[j], b[j])
           T == {n \in 0 .. N : \A j \in 0 .. n : Al(j)}
<1>5. 0 \in T
  <2>1. Alike(qs, k, L, a[0], b[0])
    BY <1>3, <1>4
  <2>2. \A j \in 0 .. 0 : j = 0
    OBVIOUS
  <2>3. QED
    BY <1>1, <2>1, <2>2
<1>6. ASSUME NEW n \in 1 .. N, n - 1 \in T PROVE n \in T
  <2>1. n \in 0 .. N /\ n \in Nat /\ \A j \in 0 .. n : j = n \/ j \in 0 .. n - 1
    BY <1>1
  <2>2. \A j \in 0 .. n - 1 : Al(j)
    BY <1>6
  <2>3. Al(n)
    <3>1. CASE n = k
      BY <3>1
    <3>2. CASE n = k + 1
      <4>1. k - 1 \in 0 .. n - 1 /\ k - 1 # k /\ k \in 1 .. N /\ (k + 1) - 1 = k
        BY <1>1, <1>2, <3>2
      <4>2. Alike(qs, k, L, a[k - 1], b[k - 1])
        BY <2>2, <4>1
      <4>3. a[k] = Passed(a[k - 1], k, qs[k]) /\ b[k] = Passed(b[k - 1], k, EmptyQuad)
        BY <1>3, <1>4, <4>1 DEF LeftOut
      <4>4. a[n] = Passed(a[k], k + 1, qs[k + 1]) /\ b[n] = Passed(b[k], k + 1, Merged(qs[k], qs[k + 1]))
        BY <1>3, <1>4, <3>2, <4>1 DEF LeftOut
      <4>5. Alike(qs, k, L, a[n], b[n])
        BY <4>2, <4>3, <4>4, CopyAlike
      <4>6. QED
        BY <4>5
    <3>3. CASE n # k /\ n # k + 1
      <4>1. n - 1 \in 0 .. n - 1 /\ n - 1 # k
        BY <1>2, <2>1, <3>3
      <4>2. Alike(qs, k, L, a[n - 1], b[n - 1])
        BY <2>2, <4>1
      <4>3. ps[n] = qs[n]
        BY <3>3 DEF LeftOut
      <4>4. a[n] = Passed(a[n - 1], n, qs[n]) /\ b[n] = Passed(b[n - 1], n, qs[n])
        BY <1>3, <1>4, <4>3
      <4>5. Alike(qs, k, L, a[n], b[n])
        BY <3>3, <4>2, <4>4, ElsewhereAlike
      <4>6. QED
        BY <4>5
    <3>4. QED
      BY <3>1, <3>2, <3>3
  <2> HIDE DEF Al
  <2>4. QED
    BY <2>1, <2>2, <2>3
<1>7. N \in T
  <2> HIDE DEF T
  <2>1. 0 .. N \subseteq T
    BY <1>1, <1>5, <1>6, BoundedInduction
  <2>2. QED
    BY <1>1, <2>1
<1>8. N \in 0 .. N /\ N # k
  BY <1>1, <1>2
<1>9. QED
  BY <1>3, <1>4, <1>7, <1>8

LEMMA LeftOutMeaning ==
    ASSUME NEW qs, NEW k, NEW L, Site(qs, k, L), NEW ps, LeftOut(qs, k, ps)
    PROVE  Meaning(qs) = Meaning(ps)
<1>1. qs \in Seq(QuadSet) /\ ps \in Seq(QuadSet) /\ Rounds \in Nat
  BY WidthAssumption DEF Site, LeftOut
<1>2. ASSUME NEW env \in [Vars -> Values] PROVE Run(qs, env) = Run(ps, env)
  <2>1. PICK a \in [0 .. Rounds -> States] :
              /\ a[0] = Start(env)
              /\ \A n \in 1 .. Rounds : a[n] = Round(qs, a[n - 1])
              /\ Run(qs, env) = a[Rounds].out
    BY <1>1, RunSteps
  <2>2. PICK b \in [0 .. Rounds -> States] :
              /\ b[0] = Start(env)
              /\ \A n \in 1 .. Rounds : b[n] = Round(ps, b[n - 1])
              /\ Run(ps, env) = b[Rounds].out
    BY <1>1, RunSteps
  <2> DEFINE T == {n \in 0 .. Rounds : Alike(qs, k, L, a[n], b[n])}
  <2>3. 0 \in T
    <3>1. Start(env).next = 1
      BY DEF Start
    <3>2. 1 # k + 1
      BY SiteFacts
    <3>3. Alike(qs, k, L, Start(env), Start(env))
      BY <3>1, <3>2, StartInStates DEF Alike, AgreeBut
    <3>4. QED
      BY <1>1, <2>1, <2>2, <3>3
  <2>4. ASSUME NEW n \in 1 .. Rounds, n - 1 \in T PROVE n \in T
    <3>1. Alike(qs, k, L, a[n - 1], b[n - 1])
      BY <2>4
    <3>2. Alike(qs, k, L, Round(qs, a[n - 1]), Round(ps, b[n - 1]))
      BY <3>1, RoundAlike
    <3>3. QED
      BY <1>1, <2>1, <2>2, <3>2
  <2> HIDE DEF T
  <2>5. 0 .. Rounds \subseteq T
    BY <1>1, <2>3, <2>4, BoundedInduction
  <2>6. Alike(qs, k, L, a[Rounds], b[Rounds])
    BY <1>1, <2>5 DEF T
  <2>7. QED
    BY <2>1, <2>2, <2>6 DEF Alike
<1>3. QED
  BY <1>2 DEF Meaning

LEMMA SiteExists ==
    ASSUME NEW qs \in Seq(QuadSet), NEW k \in 1 .. Len(qs) - 1,
           Merges(qs[k], qs[k + 1]), CopyIsLastRead(qs, k)
    PROVE  \E L : Site(qs, k, L)
<1>1. DOMAIN qs = 1 .. Len(qs)
  OBVIOUS
<1>2. /\ qs[k].op # "CondGoto" /\ (\A q \in Range(qs) : k + 1 \notin Landings(q))
      /\ NotReadAfter(qs, k, qs[k].target)
  BY DEF CopyIsLastRead
<1>3. \A j \in 1 .. Len(qs) : k + 1 \notin Landings(qs[j])
  BY <1>1, <1>2 DEF Range
<1>4. PICK L \in SUBSET DOMAIN qs :
          /\ k + 2 \in L \cup {Len(qs) + 1}
          /\ KeepsTo(qs, L)
          /\ \A j \in L \ {k + 1} : qs[k].target \notin Reads(qs[j])
  BY <1>2 DEF NotReadAfter
<1>5. \A j \in L : Followers(qs, j) \cap 1 .. Len(qs) \subseteq L
  BY <1>1, <1>4 DEF KeepsTo
<1>6. Site(qs, k, L)
  BY <1>1, <1>2, <1>3, <1>4, <1>5 DEF Site
<1>7. QED
  BY <1>6

LEMMA MergeLeavesOut ==
    ASSUME Typed, MergeAdjacentStoreFetch
    PROVE  UNCHANGED quads \/ (Merges(quads[i], quads[i + 1]) /\ LeftOut(quads, i, quads'))
<1>1. CASE UNCHANGED quads
  BY <1>1
<1>2. CASE ~UNCHANGED quads
  <2> DEFINE m == Merged(quads[i], quads[i + 1])
             qs == [quads EXCEPT ![i] = EmptyQuad]
             ps == [qs EXCEPT ![i + 1] = m]
  <2>1. /\ i \in 1 .. Len(quads) /\ i + 1 \in 1 .. Len(quads) /\ WellFormed(m)
        /\ Merges(quads[i], quads[i + 1])
        /\ quads' = [quads EXCEPT ![i] = EmptyQuad, ![i + 1] = m]
    BY <1>2, MergeCases
  <2> HIDE DEF m
  <2>2. /\ qs \in Seq(QuadSet) /\ Len(qs) = Len(quads) /\ qs[i] = EmptyQuad
        /\ \A j \in 1 .. Len(quads) : j # i => qs[j] = quads[j]
    BY <2>1, Updated, EmptyWellFormed DEF Typed
  <2>3. quads' = ps
    BY <2>1
  <2> HIDE DEF qs
  <2>4. i + 1 \in 1 .. Len(qs)
    BY <2>1, <2>2
  <2>5. /\ ps \in Seq(QuadSet) /\ Len(ps) = Len(qs) /\ ps[i + 1] = m
        /\ \A j \in 1 .. Len(qs) : j # i + 1 => ps[j] = qs[j]
    BY <2>1, <2>2, <2>4, Updated
  <2> HIDE DEF ps
  <2>6. LeftOut(quads, i, ps)
    BY <2>1, <2>2, <2>5 DEF LeftOut, m
  <2>7. QED
    BY <2>1, <2>3, <2>6
<1>3. QED
  BY <1>1, <1>2

LEMMA MergeMeaning ==
    ASSUME Typed, MergeAdjacentStoreFetch, CopyIsLastRead(quads, i) PROVE SameMeaning(quads, quads')
<1>1. CASE UNCHANGED quads
  BY <1>1 DEF SameMeaning
<1>2. CASE ~UNCHANGED quads
  <2>1. Merges(quads[i], quads[i + 1]) /\ LeftOut(quads, i, quads')
    BY <1>2, MergeLeavesOut
  <2>2. quads \in Seq(QuadSet) /\ i \in 1 .. Len(quads) - 1
    BY DEF Typed, MergeAdjacentStoreFetch
  <2>3. PICK L : Site(quads, i, L)
    BY <2>1, <2>2, SiteExists
  <2>4. Meaning(quads) = Meaning(quads')
    BY <2>1, <2>3, LeftOutMeaning
  <2>5. QED
    BY <2>4 DEF SameMeaning
<1>3. QED
  BY <1>1, <1>2

\* Leaving out the store before a copy of what was stored does not change what
\* the program computes, in stretches and in loops, as long as the copy is
\* the last read and is reached from the store only
\* (merge_adjacent_store_fetch).
THEOREM SpecMergeKeepsMeaning == Spec => MergeKeepsMeaning
<1>1. ASSUME Typed, [Next]_vars
      PROVE  [pass = "merge" /\ CopyIsLastRead(quads, i) => SameMeaning(quads, quads')]_vars
  <2>1. CASE MergeAdjacentStoreFetch
    BY <1>1, <2>1, MergeMeaning
  <2>2. CASE FoldConstants \/ SimplifyAlgebraicIdentities
    BY <2>2 DEF FoldConstants, SimplifyAlgebraicIdentities
  <2>3. QED
    BY <1>1, <2>1, <2>2 DEF Next
<1>2. QED
  BY <1>1, SpecTyped, PTL DEF Spec, MergeKeepsMeaning

-----------------------------------------------------------------------------
(* The limits of a pass hold after the passes before it *)

LEMMA LastReadAt ==
    ASSUME NEW qs \in Seq(QuadSet), NEW k
    PROVE  CopyIsLastRead(qs, k) <=>
              (Merges(qs[k], qs[k + 1]) =>
                  /\ qs[k].op # "CondGoto"
                  /\ \A j \in 1 .. Len(qs) : k + 1 \notin Landings(qs[j])
                  /\ NotReadAfter(qs, k, qs[k].target))
<1>1. (\A q \in Range(qs) : k + 1 \notin Landings(q)) <=> (\A j \in 1 .. Len(qs) : k + 1 \notin Landings(qs[j]))
  BY DEF Range
<1>2. QED
  BY <1>1 DEF CopyIsLastRead

LEMMA LandingsKinds ==
    ASSUME NEW q
    PROVE  q.op \in BinaryOps \cup {"Assign", "EmptyQuad"} =>
              Landings(q) = {} /\ q.op \notin {"Goto", "Return"}
BY DEF Landings, BinaryOps

LEMMA LiteralTarget ==
    ASSUME NEW q, WellFormed(q), q.target \in Ints PROVE q.op = "CondGoto"
<1>1. q.target \notin Vars /\ q.target # Nothing
  BY NamesAssumption, Range2
<1>2. q.op # "EmptyQuad"
  <2>1. EmptyQuad.target = Nothing
    BY DEF EmptyQuad, Quad
  <2>2. QED
    BY <1>1, <2>1, QuadKinds
<1>3. QED
  BY <1>1, <1>2, QuadKinds

LEMMA CopyFields ==
    ASSUME NEW q, NEW v, NEW c, c = Copy(q, v)
    PROVE  c.op = "Assign" /\ c.target = q.target /\ c.opd1 = v /\ Reads(c) = {v} /\ Landings(c) = {}
<1>1. c.op = "Assign" /\ c.target = q.target /\ c.opd1 = v
  BY DEF Copy, Quad
<1>2. QED
  BY <1>1, ReadsKinds, LandingsKinds

\* ps is qs with the quad at j folded to v.
Becomes(qs, j, v, ps) == ps = [qs EXCEPT ![j] = Copy(qs[j], v)]

\* A quad that becomes a copy of a literal is read after no copy, and makes
\* none the last read that was not.
LEMMA FoldKeepsLastRead ==
    ASSUME NEW qs \in Seq(QuadSet), NEW j \in 1 .. Len(qs), qs[j].op \in BinaryOps,
           NEW v \in Ints, NEW ps, Becomes(qs, j, v, ps),
           TestsVariables(qs), NEW k \in 1 .. Len(qs) - 1, CopyIsLastRead(qs, k)
    PROVE  CopyIsLastRead(ps, k)
<1> DEFINE c == Copy(qs[j], v)
           x == qs[k].target
<1>1. WellFormed(qs[j]) /\ qs[j].target \in Vars
  BY Listed, QuadKinds
<1>2. c.op = "Assign" /\ c.target = qs[j].target /\ c.opd1 = v /\ Reads(c) = {v} /\ Landings(c) = {}
  BY CopyFields
<1>3. WellFormed(c)
  BY <1>1, CopyWellFormed DEF Operands
<1> HIDE DEF c
<1>4. /\ ps \in Seq(QuadSet) /\ Len(ps) = Len(qs) /\ ps[j] = c
      /\ \A m \in 1 .. Len(qs) : m # j => ps[m] = qs[m]
  BY <1>3, Updated DEF c, Becomes
<1>5. k \in 1 .. Len(qs) /\ k + 1 \in 1 .. Len(qs) /\ k \in Nat
  OBVIOUS
<1>6. Landings(qs[j]) = {} /\ qs[j].op \notin {"Goto", "Return"}
  BY LandingsKinds
<1>7. SUFFICES ASSUME Merges(ps[k], ps[k + 1])
               PROVE  /\ ps[k].op # "CondGoto"
                      /\ \A m \in 1 .. Len(ps) : k + 1 \notin Landings(ps[m])
                      /\ NotReadAfter(ps, k, ps[k].target)
  BY <1>4, LastReadAt
<1>8. ps[k].target = x
  BY <1>2, <1>4, <1>5
<1>9. k + 1 # j
  <2>1. SUFFICES ASSUME k + 1 = j PROVE FALSE
    OBVIOUS
  <2>2. ps[k] = qs[k] /\ ps[k + 1] = c
    BY <1>4, <1>5, <2>1
  <2>3. x \in Ints
    BY <1>2, <1>7, <2>2 DEF Merges
  <2>4. qs[k].op = "CondGoto"
    BY <1>5, <2>3, Listed, LiteralTarget
  <2>5. x \in Vars
    BY <1>5, <2>4 DEF TestsVariables
  <2>6. QED
    BY <2>3, <2>5, NamesAssumption, Range2
<1>10. ps[k + 1] = qs[k + 1]
  BY <1>4, <1>5, <1>9
<1>11. Merges(qs[k], qs[k + 1])
  BY <1>7, <1>8, <1>10 DEF Merges
<1>12. /\ qs[k].op # "CondGoto"
       /\ \A m \in 1 .. Len(qs) : k + 1 \notin Landings(qs[m])
       /\ NotReadAfter(qs, k, x)
  BY <1>11, LastReadAt
<1>13. ps[k].op # "CondGoto"
  BY <1>2, <1>4, <1>5, <1>12
<1>14. \A m \in 1 .. Len(ps) : Landings(ps[m]) = Landings(qs[m])
  BY <1>2, <1>4, <1>6
<1>15. \A m \in 1 .. Len(ps) : Followers(ps, m) = Followers(qs, m)
  <2>1. ASSUME NEW m \in 1 .. Len(ps) PROVE ps[m].op \in {"Goto", "Return"} <=> qs[m].op \in {"Goto", "Return"}
    BY <1>2, <1>4, <1>6
  <2>2. QED
    BY <1>14, <2>1 DEF Followers
<1>16. v # x
  <2>1. x \in Operands /\ x \notin Ints
    <3>1. x \in Operands
      BY <1>5, <1>11, Listed, MergesKinds
    <3>2. QED
      BY <1>5, <1>12, <3>1, Listed, LiteralTarget
  <2>2. QED
    BY <2>1
<1>17. NotReadAfter(ps, k, x)
  <2>1. DOMAIN ps = DOMAIN qs /\ DOMAIN qs = 1 .. Len(qs)
    BY <1>4
  <2>2. PICK L \in SUBSET DOMAIN qs :
          /\ k + 2 \in L \cup {Len(qs) + 1}
          /\ KeepsTo(qs, L)
          /\ \A m \in L \ {k + 1} : x \notin Reads(qs[m])
    BY <1>12 DEF NotReadAfter
  <2>3. KeepsTo(ps, L)
    BY <1>4, <1>15, <2>1, <2>2 DEF KeepsTo
  <2>4. \A m \in L \ {k + 1} : x \notin Reads(ps[m])
    BY <1>2, <1>4, <1>16, <2>1, <2>2
  <2>5. QED
    BY <1>4, <2>1, <2>2, <2>3, <2>4 DEF NotReadAfter
<1>18. QED
  BY <1>4, <1>8, <1>12, <1>13, <1>14, <1>17

\* Leaving out a store makes no later copy one that is read again: the
\* operands that move one place down are read where they were read before, or
\* the place is not one the program keeps to.
LEMMA MergeKeepsLastRead ==
    ASSUME NEW qs \in Seq(QuadSet), NEW j \in 1 .. Len(qs) - 1, Merges(qs[j], qs[j + 1]),
           CopyIsLastRead(qs, j), NEW ps, LeftOut(qs, j, ps),
           NEW k \in 1 .. Len(qs) - 1, k > j, CopyIsLastRead(qs, k)
    PROVE  CopyIsLastRead(ps, k)
<1> DEFINE q1 == qs[j]
           q2 == qs[j + 1]
           m == Merged(q1, q2)
           x == qs[k].target
<1>1. PICK L0 : Site(qs, j, L0)
  BY SiteExists
<1>2. /\ Len(qs) \in Nat /\ j \in 1 .. Len(qs) /\ j + 1 \in 1 .. Len(qs) /\ WellFormed(m)
      /\ q1.op \in BinaryOps \cup {"Assign"} /\ q2.op = "Assign"
      /\ \A l \in 1 .. Len(qs) : j + 1 \notin Landings(qs[l])
  BY <1>1, SiteFacts DEF Site
<1>3. m.op = q1.op /\ m.target = q2.target /\ m.opd1 = q1.opd1 /\ m.opd2 = q1.opd2
  BY DEF Merged, Quad
<1> HIDE DEF m
<1>4. /\ ps \in Seq(QuadSet) /\ Len(ps) = Len(qs) /\ ps[j] = EmptyQuad /\ ps[j + 1] = m
      /\ \A l \in 1 .. Len(qs) : l \notin {j, j + 1} => ps[l] = qs[l]
  BY DEF LeftOut, m
<1>5. EmptyQuad.op = "EmptyQuad"
  BY DEF EmptyQuad, Quad
<1>6. /\ Landings(EmptyQuad) = {} /\ Landings(m) = {} /\ Landings(q1) = {} /\ Landings(q2) = {}
      /\ \A q \in {EmptyQuad, m, q1, q2} : q.op \notin {"Goto", "Return"}
  BY <1>2, <1>3, <1>5, LandingsKinds
<1>7. Reads(EmptyQuad) = {} /\ Reads(m) = Reads(q1)
  <2>1. Reads(EmptyQuad) = {}
    BY <1>5, ReadsKinds
  <2>2. Reads(m) = Reads(q1)
    <3>1. CASE q1.op \in BinaryOps
      <4>1. Reads(q1) = {q1.opd1, q1.opd2} /\ Reads(m) = {m.opd1, m.opd2}
        BY <1>3, <3>1, ReadsKinds
      <4>2. QED
        BY <1>3, <4>1
    <3>2. CASE q1.op = "Assign"
      <4>1. Reads(q1) = {q1.opd1} /\ Reads(m) = {m.opd1}
        BY <1>3, <3>2, ReadsKinds
      <4>2. QED
        BY <1>3, <4>1
    <3>3. QED
      BY <1>2, <3>1, <3>2
  <2>3. QED
    BY <2>1, <2>2
<1>8. k \in 1 .. Len(qs) /\ k + 1 \in 1 .. Len(qs) /\ k \notin {j} /\ k + 1 \notin {j, j + 1} /\ k \in Nat /\ j \in Nat
  BY <1>2
<1>9. SUFFICES ASSUME Merges(ps[k], ps[k + 1])
               PROVE  /\ ps[k].op # "CondGoto"
                      /\ \A l \in 1 .. Len(ps) : k + 1 \notin Landings(ps[l])
                      /\ NotReadAfter(ps, k, ps[k].target)
  BY <1>4, LastReadAt
<1>10. ps[k].target = x
  BY <1>3, <1>4, <1>8
<1>11. ps[k + 1] = qs[k + 1]
  BY <1>4, <1>8
<1>12. Merges(qs[k], qs[k + 1])
  BY <1>9, <1>10, <1>11 DEF Merges
<1>13. /\ qs[k].op # "CondGoto"
       /\ \A l \in 1 .. Len(qs) : k + 1 \notin Landings(qs[l])
       /\ NotReadAfter(qs, k, x)
  BY <1>12, LastReadAt
<1>14. ps[k].op # "CondGoto"
  <2>1. m.op # "CondGoto"
    BY <1>2, <1>3 DEF BinaryOps
  <2>2. QED
    BY <1>4, <1>8, <1>13, <2>1
<1>15. \A l \in 1 .. Len(ps) : Landings(ps[l]) = Landings(qs[l]) /\ Followers(ps, l) = Followers(qs, l)
  <2>1. ASSUME NEW l \in 1 .. Len(ps)
        PROVE  /\ Landings(ps[l]) = Landings(qs[l])
               /\ ps[l].op \in {"Goto", "Return"} <=> qs[l].op \in {"Goto", "Return"}
    BY <1>4, <1>6
  <2>2. QED
    BY <2>1 DEF Followers
<1>16. NotReadAfter(ps, k, x)
  <2>1. DOMAIN ps = DOMAIN qs /\ DOMAIN qs = 1 .. Len(qs)
    BY <1>4
  <2>2. PICK L \in SUBSET DOMAIN qs :
          /\ k + 2 \in L \cup {Len(qs) + 1}
          /\ KeepsTo(qs, L)
          /\ \A l \in L \ {k + 1} : x \notin Reads(qs[l])
    BY <1>13 DEF NotReadAfter
  <2> DEFINE M == IF j \in L THEN L ELSE L \ {j + 1}
  <2>3. M \in SUBSET DOMAIN ps /\ k + 2 \in M \cup {Len(ps) + 1}
    BY <1>4, <1>8, <2>1, <2>2
  <2>4. KeepsTo(ps, M)
    <3>1. ASSUME NEW l \in M PROVE Followers(ps, l) \cap DOMAIN ps \subseteq M
      <4>1. l \in 1 .. Len(ps) /\ l \in L
        BY <1>4, <2>1, <2>3
      <4>2. Followers(ps, l) = Followers(qs, l)
        BY <1>15, <4>1
      <4>3. Followers(qs, l) \cap DOMAIN ps \subseteq L
        BY <2>1, <2>2, <4>1 DEF KeepsTo
      <4>4. j + 1 \in Followers(qs, l) => l = j
        <5>1. l \in Nat
          BY <4>1
        <5>2. Followers(qs, l) \subseteq Landings(qs[l]) \cup {l + 1}
          BY DEF Followers
        <5>3. j + 1 \notin Landings(qs[l])
          BY <1>2, <1>4, <4>1
        <5>4. QED
          BY <1>8, <5>1, <5>2, <5>3
      <4>5. QED
        BY <4>1, <4>2, <4>3, <4>4
    <3>2. QED
      BY <3>1 DEF KeepsTo
  <2>5. ASSUME NEW l \in M \ {k + 1} PROVE x \notin Reads(ps[l])
    <3>1. l \in 1 .. Len(qs) /\ l \in L /\ l # k + 1
      BY <2>1, <2>2
    <3>2. CASE l = j
      BY <1>4, <1>7, <3>2
    <3>3. CASE l = j + 1
      <4>1. j \in L /\ j # k + 1
        BY <1>8, <3>3
      <4>2. QED
        BY <1>4, <1>7, <2>2, <3>3, <4>1
    <3>4. CASE l \notin {j, j + 1}
      BY <1>4, <2>2, <3>1, <3>4
    <3>5. QED
      BY <3>2, <3>3, <3>4
  <2> HIDE DEF M
  <2>6. QED
    BY <2>3, <2>4, <2>5 DEF NotReadAfter
<1>17. QED
  BY <1>4, <1>10, <1>13, <1>14, <1>15, <1>16

\* Where the pass is, the quads ahead are still inside the limits.
From == IF pass = "fold" THEN 1 ELSE i
StillRegular ==
    /\ pass = "fold" => BooleanLogic(quads) /\ TestsVariables(quads)
    /\ pass \in {"fold", "merge"} =>
          \A k \in 1 .. Len(quads) - 1 : k >= From => CopyIsLastRead(quads, k)
    /\ pass \in {"fold", "merge", "simplify"} => \A k \in 1 .. Len(quads) : ~SelfInverse(quads[k])
MeaningKept ==
    Regular(source) => Meaning(quads) = Meaning(source) /\ StillRegular

LEMMA SameMeaningAs == ASSUME NEW ps, NEW qs, SameMeaning(ps, qs) PROVE Meaning(ps) = Meaning(qs)
BY DEF SameMeaning

LEMMA InitMeaningKept == Init /\ Typed => MeaningKept
<1>1. SUFFICES ASSUME Init, Typed, Regular(quads) PROVE StillRegular
  BY DEF Init, MeaningKept
<1>2. DOMAIN quads = 1 .. Len(quads)
  BY <1>1 DEF Typed
<1>3. QED
  BY <1>1, <1>2 DEF Init, StillRegular, Regular

LEMMA FoldMeaningKept ==
    ASSUME Typed, Typed', FoldConstants, MeaningKept PROVE MeaningKept'
<1>1. source' = source
  BY DEF FoldConstants, Advance
<1>2. SUFFICES ASSUME Regular(source) PROVE Meaning(quads') = Meaning(source) /\ StillRegular'
  BY <1>1 DEF MeaningKept
<1>3. /\ Meaning(quads) = Meaning(source)
      /\ BooleanLogic(quads) /\ TestsVariables(quads)
      /\ \A k \in 1 .. Len(quads) - 1 : CopyIsLastRead(quads, k)
      /\ \A k \in 1 .. Len(quads) : ~SelfInverse(quads[k])
  BY <1>2 DEF MeaningKept, StillRegular, FoldConstants, From
<1>4. Meaning(quads') = Meaning(source)
  BY <1>3, FoldMeaning, SameMeaningAs
<1>5. quads \in Seq(QuadSet) /\ DOMAIN quads = 1 .. Len(quads) /\ quads' \in Seq(QuadSet)
  BY DEF Typed
<1>6. /\ BooleanLogic(quads') /\ TestsVariables(quads')
      /\ \A k \in 1 .. Len(quads') - 1 : CopyIsLastRead(quads', k)
      /\ \A k \in 1 .. Len(quads') : ~SelfInverse(quads'[k])
  <2>1. CASE UNCHANGED quads
    BY <1>3, <2>1
  <2>2. CASE ~UNCHANGED quads
    <3> DEFINE q == quads[i]
               v == Folded(q.op, q.opd1, q.opd2)
               c == Copy(q, v)
    <3>1. /\ i \in 1 .. Len(quads) /\ q.op \in BinaryOps /\ {q.opd1, q.opd2} \subseteq Ints
          /\ ~Traps(q.op, q.opd1, q.opd2) /\ WellFormed(c)
          /\ quads' = [quads EXCEPT ![i] = c]
      BY <2>2, FoldCases
    <3>2. v \in Ints
      BY <3>1, FoldedInRange
    <3> HIDE DEF v
    <3>3. c.op = "Assign"
      BY CopyFields
    <3>4. ASSUME NEW k \in 1 .. Len(quads) - 1 PROVE CopyIsLastRead(quads', k)
      <4>1. CopyIsLastRead(quads, k) /\ TestsVariables(quads) /\ quads[i].op \in BinaryOps
        BY <1>3, <3>1, <3>4
      <4>2. Becomes(quads, i, v, quads')
        BY <3>1 DEF Becomes
      <4>3. i \in 1 .. Len(quads)
        BY <3>1
      <4>4. QED
        BY <1>5, <3>2, <3>4, <4>1, <4>2, <4>3, FoldKeepsLastRead
    <3> HIDE DEF c
    <3>5. /\ Len(quads') = Len(quads) /\ quads'[i] = c
          /\ \A k \in 1 .. Len(quads) : k # i => quads'[k] = quads[k]
      BY <1>5, <3>1, Updated
    <3>6. DOMAIN quads' = 1 .. Len(quads)
      BY <1>5, <3>5
    <3>7. BooleanLogic(quads') /\ TestsVariables(quads')
      BY <1>3, <1>5, <3>3, <3>5, <3>6 DEF BooleanLogic, TestsVariables
    <3>8. \A k \in 1 .. Len(quads') : ~SelfInverse(quads'[k])
      BY <1>3, <3>3, <3>5 DEF SelfInverse
    <3>9. QED
      BY <3>4, <3>5, <3>7, <3>8
  <2>3. QED
    BY <2>1, <2>2
<1>7. QED
  BY <1>4, <1>6 DEF StillRegular

LEMMA MergeMeaningKept ==
    ASSUME Typed, Typed', MergeAdjacentStoreFetch, MeaningKept PROVE MeaningKept'
<1>1. source' = source /\ pass = "merge"
  BY DEF MergeAdjacentStoreFetch, Advance
<1>2. SUFFICES ASSUME Regular(source) PROVE Meaning(quads') = Meaning(source) /\ StillRegular'
  BY <1>1 DEF MeaningKept
<1>3. /\ Meaning(quads) = Meaning(source)
      /\ \A k \in 1 .. Len(quads) - 1 : k >= i => CopyIsLastRead(quads, k)
      /\ \A k \in 1 .. Len(quads) : ~SelfInverse(quads[k])
  BY <1>1, <1>2 DEF MeaningKept, StillRegular, From
<1>4. quads \in Seq(QuadSet) /\ i \in 1 .. Len(quads) - 1 /\ Len(quads) \in Nat /\ i \in Nat
  BY <1>1 DEF Typed
<1>5. CopyIsLastRead(quads, i)
  BY <1>3, <1>4
<1>6. Meaning(quads') = Meaning(source)
  BY <1>3, <1>5, MergeMeaning, SameMeaningAs
<1>7. /\ Len(quads') = Len(quads)
      /\ \A k \in 1 .. Len(quads) - 1 : k > i => CopyIsLastRead(quads', k)
      /\ \A k \in 1 .. Len(quads) : ~SelfInverse(quads'[k])
  <2>1. CASE UNCHANGED quads
    BY <1>3, <1>4, <2>1
  <2>2. CASE ~UNCHANGED quads
    <3>1. Merges(quads[i], quads[i + 1]) /\ LeftOut(quads, i, quads')
      BY <2>2, MergeLeavesOut
    <3>2. \A k \in 1 .. Len(quads) - 1 : k > i => CopyIsLastRead(quads', k)
      <4>1. ASSUME NEW k \in 1 .. Len(quads) - 1, k > i PROVE CopyIsLastRead(quads', k)
        <5>1. CopyIsLastRead(quads, k)
          BY <1>3, <1>4, <4>1
        <5>2. QED
          BY <1>4, <1>5, <3>1, <4>1, <5>1, MergeKeepsLastRead
      <4>2. QED
        BY <4>1
    <3>3. ASSUME NEW k \in 1 .. Len(quads) PROVE ~SelfInverse(quads'[k])
      <4>1. CASE k = i
        <5>1. quads'[k].op = "EmptyQuad"
          BY <3>1, <4>1 DEF LeftOut, EmptyQuad, Quad
        <5>2. QED
          BY <5>1 DEF SelfInverse
      <4>2. CASE k = i + 1
        <5> DEFINE m == Merged(quads[i], quads[i + 1])
        <5>1. quads'[k] = m
          BY <3>1, <4>2 DEF LeftOut
        <5>2. m.op = quads[i].op /\ m.opd1 = quads[i].opd1 /\ m.opd2 = quads[i].opd2
          BY DEF Merged, Quad
        <5>3. ~SelfInverse(quads[i])
          BY <1>3, <1>4
        <5> HIDE DEF m
        <5>4. QED
          BY <5>1, <5>2, <5>3 DEF SelfInverse
      <4>3. CASE k \notin {i, i + 1}
        BY <1>3, <3>1, <4>3 DEF LeftOut
      <4>4. QED
        BY <4>1, <4>2, <4>3
    <3>4. QED
      BY <3>1, <3>2, <3>3 DEF LeftOut
  <2>3. QED
    BY <2>1, <2>2
<1>8. (pass' = "merge" /\ i' = i + 1) \/ (pass' = "simplify" /\ i' = 1)
  BY <1>1 DEF MergeAdjacentStoreFetch, Advance, Following
<1>9. \A k \in 1 .. Len(quads) - 1 : k >= i + 1 => k > i
  BY <1>4
<1>10. QED
  BY <1>6, <1>7, <1>8, <1>9 DEF StillRegular, From

LEMMA SimplifyMeaningKept ==
    ASSUME Typed, Typed', SimplifyAlgebraicIdentities, MeaningKept PROVE MeaningKept'
<1>1. source' = source /\ pass = "simplify"
  BY DEF SimplifyAlgebraicIdentities, Advance
<1>2. SUFFICES ASSUME Regular(source) PROVE Meaning(quads') = Meaning(source) /\ StillRegular'
  BY <1>1 DEF MeaningKept
<1>3. /\ Meaning(quads) = Meaning(source)
      /\ \A k \in 1 .. Len(quads) : ~SelfInverse(quads[k])
  BY <1>1, <1>2 DEF MeaningKept, StillRegular
<1>4. i \in 1 .. Len(quads) /\ quads' = [quads EXCEPT ![i] = Simplified(quads[i])] /\ WellFormed(Simplified(quads[i]))
  BY SimplifyCases
<1>5. ~SelfInverse(quads[i])
  BY <1>3, <1>4
<1>6. Meaning(quads') = Meaning(source)
  BY <1>3, <1>5, SimplifyMeaning, SameMeaningAs
<1>7. ~SelfInverse(Simplified(quads[i]))
  <2> DEFINE q == quads[i]
  <2>1. Simplified(q) \in {Copy(q, q.opd1), Copy(q, q.opd2), Copy(q, 0), Copy(q, 1), q,
                           Quad("Assign", q.target, q.opd1, q.opd2)}
    BY DEF Simplified
  <2>2. \A x : Copy(q, x).op = "Assign"
    BY CopyFields
  <2>3. Quad("Assign", q.target, q.opd1, q.opd2).op = "Assign"
    BY DEF Quad
  <2>4. Simplified(q).op = "Assign" \/ Simplified(q) = q
    BY <2>1, <2>2, <2>3
  <2>5. QED
    BY <1>5, <2>4 DEF SelfInverse
<1>8. Len(quads') = Len(quads) /\ \A k \in 1 .. Len(quads) : ~SelfInverse(quads'[k])
  <2> DEFINE c == Simplified(quads[i])
  <2> HIDE DEF c
  <2>1. /\ Len(quads') = Len(quads) /\ quads'[i] = c
        /\ \A k \in 1 .. Len(quads) : k # i => quads'[k] = quads[k]
    BY <1>4, Updated DEF c, Typed
  <2>2. QED
    BY <1>3, <1>7, <2>1 DEF c
<1>9. pass' \in {"simplify", "done"}
  BY <1>1 DEF SimplifyAlgebraicIdentities, Advance, Following
<1>10. QED
  BY <1>6, <1>8, <1>9 DEF StillRegular

\* The three passes together keep what a program computes, if the program is
\* inside the limits before the first of them: no pass brings about what the
\* next one is wrong about (main.cpp, the order of the passes).
THEOREM SpecResultKept == Spec => []ResultKept
<1>1. Init => MeaningKept
  BY InitTyped, InitMeaningKept
<1>2. Typed /\ Typed' /\ MeaningKept /\ [Next]_vars => MeaningKept'
  <2>1. SUFFICES ASSUME Typed, Typed', MeaningKept, [Next]_vars PROVE MeaningKept'
    OBVIOUS
  <2>2. CASE FoldConstants
    BY <2>1, <2>2, FoldMeaningKept
  <2>3. CASE MergeAdjacentStoreFetch
    BY <2>1, <2>3, MergeMeaningKept
  <2>4. CASE SimplifyAlgebraicIdentities
    BY <2>1, <2>4, SimplifyMeaningKept
  <2>5. CASE UNCHANGED vars
    BY <2>1, <2>5 DEF vars, MeaningKept, StillRegular, From
  <2>6. QED
    BY <2>1, <2>2, <2>3, <2>4, <2>5 DEF Next
<1>3. MeaningKept => ResultKept
  BY DEF MeaningKept, ResultKept, SameMeaning
<1>4. QED
  BY <1>1, <1>2, <1>3, SpecTyped, PTL DEF Spec
=============================================================================
