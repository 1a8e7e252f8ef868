----------------------------- MODULE Recurrences -----------------------------
(***************************************************************************)
(* Lemmas for proofs by induction over numbers, and for definitions by     *)
(* recursion, each value of which depends on the one before it: sums,      *)
(* powers of two with the digits they give, and functions on trees.        *)
(***************************************************************************)
EXTENDS Integers, NaturalsInduction, WellFoundedInduction, TLAPS

-------------------------------------------------------------------------------
\* Numbers.

\* A set of numbers with an element has a least one.
LEMMA LeastElement ==
    ASSUME NEW T \in SUBSET Nat, T # {}
    PROVE  \E x \in T : \A y \in T : x <= y
<1> DEFINE R == OpToRel(<, Nat)
<1>1. IsWellFoundedOn(R, Nat)
  BY NatLessThanWellFounded
<1>2. \A x, y \in Nat : y < x => <<y, x>> \in R
  BY DEF OpToRel
<1> HIDE DEF R
<1>3. PICK x \in T : \A y \in T : ~ (<<y, x>> \in R)
  BY <1>1, WFMin
<1>4. ASSUME NEW y \in T PROVE x <= y
  <2>1. x \in Nat /\ y \in Nat
    OBVIOUS
  <2>2. ~ (y < x)
    BY <1>2, <1>3, <2>1
  <2> QED
    BY <2>1, <2>2
<1> QED
  BY <1>4

\* Of the indices in a set there is a largest one.
LEMMA GreatestElement ==
    ASSUME NEW n \in Nat, NEW T \in SUBSET (1 .. n), T # {}
    PROVE  \E x \in T : \A y \in T : y <= x
<1> DEFINE U == {n - x : x \in T}
<1>1. U \in SUBSET Nat /\ U # {}
  <2>1. \A x \in 1 .. n : n - x \in Nat
    OBVIOUS
  <2>2. \A x \in T : x \in 1 .. n
    OBVIOUS
  <2>3. PICK x : x \in T
    OBVIOUS
  <2>4. n - x \in U
    BY <2>3
  <2> QED
    BY <2>1, <2>2, <2>4
<1>2. PICK u \in U : \A v \in U : u <= v
  BY <1>1, LeastElement
<1>3. PICK x \in T : u = n - x
  BY <1>2
<1>4. ASSUME NEW y \in T PROVE y <= x
  <2>1. n - y \in U /\ x \in 1 .. n /\ y \in 1 .. n
    OBVIOUS
  <2>2. n - x <= n - y
    BY <1>2, <1>3, <2>1
  <2> QED
    BY <2>1, <2>2
<1> QED
  BY <1>4

\* Induction over a stretch of numbers, by the least of those left out.
LEMMA Stretch ==
    ASSUME NEW b \in Nat, NEW m \in Nat, NEW T \in SUBSET (b .. m), b \in T,
           \A i \in b + 1 .. m : i - 1 \in T => i \in T
    PROVE  T = b .. m
<1>1. SUFFICES ASSUME T # b .. m PROVE FALSE
  OBVIOUS
<1> DEFINE U == (b .. m) \ T
<1>2. U \in SUBSET Nat /\ U # {}
  <2>1. U \in SUBSET Nat
    OBVIOUS
  <2>2. PICK n \in b .. m : n \notin T
    BY <1>1, Zenon
  <2> QED
    BY <2>1, <2>2
<1>3. PICK n \in U : \A k \in U : n <= k
  BY <1>2, LeastElement
<1>4. n \in b .. m /\ n \notin T /\ n # b
  BY <1>3
<1>5. n - 1 \in b .. m /\ n \in b + 1 .. m
  BY <1>4
<1>6. n - 1 \notin U
  BY <1>3, <1>4
<1> QED
  BY <1>4, <1>5, <1>6

-------------------------------------------------------------------------------
\* Definitions by recursion.

\* A sequence of values in which each follows from the one before it exists.
Follows(f, b, m, a, G) ==
    f = [i \in b .. m |-> IF i = b THEN a ELSE G[<<i, f[i - 1]>>]]
LEMMA Recursion ==
    ASSUME NEW b \in Nat, NEW m \in Nat, b <= m, NEW S, NEW a \in S,
           NEW G \in [(b + 1 .. m) \X S -> S]
    PROVE  \E f \in [b .. m -> S] : Follows(f, b, m, a, G)
<1> DEFINE F(n) == \E f \in [b .. n -> S] :
                      f = [i \in b .. n |-> IF i = b THEN a ELSE G[<<i, f[i - 1]>>]]
           T == {n \in b .. m : F(n)}
<1>1. F(b)
  <2> DEFINE f == [i \in b .. b |-> a]
  <2>1. f \in [b .. b -> S] /\ \A i \in b .. b : i = b
    OBVIOUS
  <2>2. f = [i \in b .. b |-> IF i = b THEN a ELSE G[<<i, f[i - 1]>>]]
    BY <2>1
  <2> QED
    BY <2>1, <2>2
<1>2. ASSUME NEW n \in b + 1 .. m, F(n - 1) PROVE F(n)
  <2>1. PICK f \in [b .. n - 1 -> S] :
            f = [i \in b .. n - 1 |-> IF i = b THEN a ELSE G[<<i, f[i - 1]>>]]
    BY <1>2
  <2>2. n - 1 \in b .. n - 1 /\ n \in Nat /\ n # b
    OBVIOUS
  <2> DEFINE v == G[<<n, f[n - 1]>>]
             g == [i \in b .. n |-> IF i = n THEN v ELSE f[i]]
  <2>3. v \in S
    <3>1. f[n - 1] \in S
      BY <2>2
    <3>2. <<n, f[n - 1]>> \in (b + 1 .. m) \X S
      BY <3>1
    <3> QED
      BY <3>2
  <2> HIDE DEF v
  <2>4. \A i \in b .. n : i # n => i \in b .. n - 1
    OBVIOUS
  <2>5. g \in [b .. n -> S]
    BY <2>3, <2>4
  <2>6. ASSUME NEW i \in b .. n
        PROVE  g[i] = IF i = b THEN a ELSE G[<<i, g[i - 1]>>]
    <3>1. CASE i = n
      <4>1. g[i] = v /\ g[i - 1] = f[n - 1]
        BY <3>1, <2>2, <2>4
      <4> QED
        BY <4>1, <3>1, <2>2 DEF v
    <3>2. CASE i # n
      <4>1. i \in b .. n - 1 /\ g[i] = f[i]
        BY <3>2, <2>4
      <4>2. i # b => i - 1 \in b .. n /\ i - 1 # n
        BY <4>1
      <4>3. i # b => g[i - 1] = f[i - 1]
        BY <4>2
      <4>4. f[i] = IF i = b THEN a ELSE G[<<i, f[i - 1]>>]
        BY <2>1, <4>1
      <4> HIDE DEF g
      <4> QED
        BY <4>1, <4>3, <4>4
    <3> QED
      BY <3>1, <3>2
  <2>7. g = [i \in b .. n |-> g[i]]
    OBVIOUS
  <2> HIDE DEF g
  <2>8. g = [i \in b .. n |-> IF i = b THEN a ELSE G[<<i, g[i - 1]>>]]
    BY <2>6, <2>7
  <2> QED
    BY <2>5, <2>8
<1> HIDE DEF F
<1>3. T = b .. m
  <2>1. T \in SUBSET (b .. m) /\ b \in T
    BY <1>1
  <2>2. ASSUME NEW i \in b + 1 .. m, i - 1 \in T PROVE i \in T
    BY <1>2, <2>2
  <2> HIDE DEF T
  <2> QED
    BY <2>1, <2>2, Stretch
<1>4. m \in b .. m
  OBVIOUS
<1>5. F(m)
  BY <1>3, <1>4
<1> QED
  BY <1>5 DEF F, Follows

-------------------------------------------------------------------------------
\* Sums and powers of two.

\* The sums of the first numbers of a sequence exist.
Sums(f, m, t) == f = [k \in 0 .. m |-> IF k = 0 THEN 0 ELSE f[k - 1] + t[k]]
LEMMA Summing ==
    ASSUME NEW m \in Nat, NEW t \in [1 .. m -> Int]
    PROVE  \E f \in [0 .. m -> Int] : Sums(f, m, t)
<1> DEFINE zero == 0
           G == [x \in (0 + 1 .. m) \X Int |-> x[2] + t[x[1]]]
<1>1. G \in [(0 + 1 .. m) \X Int -> Int] /\ zero \in Int /\ zero = 0 /\ 0 \in Nat /\ 0 <= m
  OBVIOUS
<1>2. \A k \in 1 .. m : \A v \in Int : G[<<k, v>>] = v + t[k]
  OBVIOUS
<1> HIDE DEF G, zero
<1>3. PICK f \in [0 .. m -> Int] : Follows(f, 0, m, zero, G)
  BY <1>1, Recursion
<1>4. ASSUME NEW k \in 0 .. m PROVE f[k] = IF k = 0 THEN 0 ELSE f[k - 1] + t[k]
  <2>1. f[k] = IF k = 0 THEN zero ELSE G[<<k, f[k - 1]>>]
    BY <1>3 DEF Follows
  <2>2. k # 0 => k \in 1 .. m /\ k - 1 \in 0 .. m
    OBVIOUS
  <2> QED
    BY <1>1, <1>2, <2>1, <2>2
<1>5. f = [k \in 0 .. m |-> f[k]]
  OBVIOUS
<1>6. Sums(f, m, t)
  BY <1>4, <1>5 DEF Sums
<1> QED
  BY <1>6

LEMMA SumsUnfold ==
    ASSUME NEW m \in Nat, NEW t \in [1 .. m -> Int], NEW f, Sums(f, m, t)
    PROVE  /\ f \in [0 .. m -> Int] /\ f[0] = 0
           /\ \A k \in 1 .. m : f[k] = f[k - 1] + t[k]
<1>1. \A k \in 0 .. m : f[k] = IF k = 0 THEN 0 ELSE f[k - 1] + t[k]
  BY DEF Sums
<1>2. f[0] = 0 /\ \A k \in 1 .. m : f[k] = f[k - 1] + t[k]
  BY <1>1
<1> DEFINE T == {k \in 0 .. m : f[k] \in Int}
<1>3. T = 0 .. m
  <2>1. T \in SUBSET (0 .. m) /\ 0 \in T
    BY <1>2
  <2>2. ASSUME NEW k \in 0 + 1 .. m, k - 1 \in T PROVE k \in T
    BY <1>2, <2>2
  <2> HIDE DEF T
  <2> QED
    BY <2>1, <2>2, Stretch
<1>4. f = [k \in 0 .. m |-> f[k]]
  BY DEF Sums
<1> QED
  BY <1>2, <1>3, <1>4

\* The powers of two, up to a last one.
Doubles(P, m) == P = [k \in 0 .. m |-> IF k = 0 THEN 1 ELSE 2 * P[k - 1]]
Powers(P, m) ==
    /\ m \in Nat /\ P[0] = 1
    /\ \A k \in 1 .. m : P[k] = 2 * P[k - 1]
    /\ \A k \in 0 .. m : P[k] \in Nat \ {0}
LEMMA Doubling ==
    ASSUME NEW m \in Nat
    PROVE  \E P : Doubles(P, m)
<1> DEFINE S == Nat \ {0}
           one == 1
           G == [x \in (0 + 1 .. m) \X S |-> 2 * x[2]]
<1>1. /\ G \in [(0 + 1 .. m) \X S -> S] /\ one \in S /\ one = 1 /\ 0 \in Nat /\ 0 <= m
      /\ \A k \in 1 .. m : \A v \in S : G[<<k, v>>] = 2 * v
  OBVIOUS
<1> HIDE DEF G, S, one
<1>2. PICK P \in [0 .. m -> S] : Follows(P, 0, m, one, G)
  BY <1>1, Recursion
<1>3. ASSUME NEW k \in 0 .. m PROVE P[k] = IF k = 0 THEN 1 ELSE 2 * P[k - 1]
  <2>1. P[k] = IF k = 0 THEN one ELSE G[<<k, P[k - 1]>>]
    BY <1>2 DEF Follows
  <2>2. k # 0 => k \in 1 .. m /\ k - 1 \in 0 .. m
    OBVIOUS
  <2> QED
    BY <1>1, <2>1, <2>2
<1>4. P = [k \in 0 .. m |-> P[k]]
  OBVIOUS
<1>5. Doubles(P, m)
  BY <1>3, <1>4 DEF Doubles
<1> QED
  BY <1>5

LEMMA DoublesUnfold ==
    ASSUME NEW m \in Nat, NEW P, Doubles(P, m)
    PROVE  Powers(P, m)
<1>1. \A k \in 0 .. m : P[k] = IF k = 0 THEN 1 ELSE 2 * P[k - 1]
  BY DEF Doubles
<1>2. P[0] = 1 /\ \A k \in 1 .. m : P[k] = 2 * P[k - 1]
  BY <1>1
<1> DEFINE T == {k \in 0 .. m : P[k] \in Nat \ {0}}
<1>3. T = 0 .. m
  <2>1. T \in SUBSET (0 .. m) /\ 0 \in T
    BY <1>2
  <2>2. ASSUME NEW k \in 0 + 1 .. m, k - 1 \in T PROVE k \in T
    <3>1. k \in 1 .. m /\ k \in 0 .. m /\ P[k - 1] \in Nat \ {0}
      BY <2>2
    <3>2. P[k] = 2 * P[k - 1]
      BY <1>2, <3>1
    <3> QED
      BY <3>1, <3>2
  <2> HIDE DEF T
  <2> QED
    BY <2>1, <2>2, Stretch
<1> QED
  BY <1>2, <1>3 DEF Powers

LEMMA PowersGrow ==
    ASSUME NEW m, NEW P, Powers(P, m),
           NEW a \in 0 .. m, NEW b \in 0 .. m, a <= b
    PROVE  P[a] <= P[b]
<1> DEFINE T == {k \in a .. m : P[a] <= P[k]}
<1>0. m \in Nat /\ a \in Nat
  BY DEF Powers
<1>1. T = a .. m
  <2>1. P[a] \in Nat
    BY DEF Powers
  <2>2. T \in SUBSET (a .. m) /\ a \in T
    BY <1>0, <2>1
  <2>3. ASSUME NEW k \in a + 1 .. m, k - 1 \in T PROVE k \in T
    <3>1. k \in 1 .. m /\ k - 1 \in 0 .. m /\ k \in a .. m
      BY <1>0
    <3>2. P[k] = 2 * P[k - 1] /\ P[k - 1] \in Nat /\ P[a] <= P[k - 1]
      BY <2>3, <3>1 DEF Powers
    <3>3. P[a] <= P[k]
      BY <2>1, <3>2
    <3> QED
      BY <3>1, <3>3
  <2> HIDE DEF T
  <2> QED
    BY <1>0, <2>2, <2>3, Stretch
<1>2. b \in T
  BY <1>0, <1>1
<1> QED
  BY <1>2

\* A quotient and a remainder are known by what they add up to.
LEMMA Remainder ==
    ASSUME NEW d \in Nat \ {0}, NEW q \in Int, NEW r \in 0 .. d - 1, NEW a \in Int,
           a = d * q + r
    PROVE  a % d = r /\ a \div d = q
<1> DEFINE x == a \div d
           y == a % d
<1>1. x \in Int /\ y \in 0 .. d - 1 /\ a = d * x + y
  OBVIOUS
<1> HIDE DEF x, y
<1>2. ASSUME x >= q + 1 PROVE FALSE
  <2>1. d * (x - q) >= d
    BY <1>1, <1>2
  <2>2. d * (x - q) = d * x - d * q
    BY <1>1
  <2>3. d * x \in Int /\ d * q \in Int
    BY <1>1
  <2> QED
    BY <1>1, <2>1, <2>2, <2>3
<1>3. ASSUME x <= q - 1 PROVE FALSE
  <2>1. d * (q - x) >= d
    BY <1>1, <1>3
  <2>2. d * (q - x) = d * q - d * x
    BY <1>1
  <2>3. d * x \in Int /\ d * q \in Int
    BY <1>1
  <2> QED
    BY <1>1, <2>1, <2>2, <2>3
<1>4. x = q
  BY <1>1, <1>2, <1>3
<1>5. d * q \in Int
  OBVIOUS
<1>6. y = r
  BY <1>1, <1>4, <1>5
<1> QED
  BY <1>4, <1>6 DEF x, y

\* A binary digit.  The lowest k of them follow from the lowest k - 1 and the next.
DigitOf(P, p, k) == (p \div P[k]) % 2
LEMMA LowestDigit ==
    ASSUME NEW m, NEW P, Powers(P, m),
           NEW p \in Int, NEW k \in 1 .. m
    PROVE  /\ p % P[k] = (p % P[k - 1]) + DigitOf(P, p, k - 1) * P[k - 1]
           /\ DigitOf(P, p, k - 1) \in {0, 1}
<1> DEFINE h == P[k - 1]
           d == P[k]
           q == p \div h
           r == p % h
           c == q \div 2
           b == q % 2
<1>1. k - 1 \in 0 .. m /\ k \in 0 .. m
  BY DEF Powers
<1>2. h \in Nat \ {0} /\ d = 2 * h
  BY <1>1 DEF Powers
<1>3. DigitOf(P, p, k - 1) = b
  BY DEF DigitOf
<1> HIDE DEF h, d
<1>4. q \in Int /\ r \in 0 .. h - 1 /\ p = h * q + r
  BY <1>2
<1>5. c \in Int /\ b \in 0 .. 1 /\ q = 2 * c + b
  BY <1>4
<1> DEFINE s == b * h + r
<1> HIDE DEF q, r, b, c
<1>6. s \in 0 .. d - 1
  <2>1. b = 0 \/ b = 1
    BY <1>5
  <2>2. b = 0 => b * h = 0
    BY <1>2
  <2>3. b = 1 => b * h = h
    BY <1>2
  <2> QED
    BY <2>1, <2>2, <2>3, <1>2, <1>4
<1>7. p = d * c + s
  <2>1. h * q = h * (2 * c) + h * b
    BY <1>2, <1>5
  <2>2. h * (2 * c) = d * c /\ h * b = b * h
    BY <1>2, <1>5
  <2>3. d * c \in Int /\ b * h \in Int
    BY <1>2, <1>5
  <2> QED
    BY <1>4, <2>1, <2>2, <2>3
<1>8. d \in Nat \ {0}
  BY <1>2
<1> HIDE DEF s
<1>9. p % d = s
  BY <1>5, <1>6, <1>7, <1>8, Remainder
<1>10. b * h \in Int
  BY <1>2, <1>5
<1> QED
  BY <1>3, <1>4, <1>5, <1>9, <1>10 DEF s, h, d, r

\* Of a number of n digits those above are 0.
LEMMA NoHigherDigits ==
    ASSUME NEW m, NEW P, Powers(P, m),
           NEW n \in 0 .. m, NEW p \in 0 .. P[n] - 1,
           NEW k \in n + 1 .. m
    PROVE  DigitOf(P, p, k - 1) = 0
<1> DEFINE d == P[k - 1]
<1>1. k - 1 \in 0 .. m /\ n <= k - 1
  BY DEF Powers
<1>2. d \in Nat \ {0} /\ P[n] <= d /\ P[n] \in Nat
  BY <1>1, PowersGrow DEF Powers
<1> HIDE DEF d
<1>3. p \in 0 .. d - 1 /\ p \in Int /\ 0 \in Int /\ p = d * 0 + p
  BY <1>2
<1>4. p \div d = 0
  BY <1>2, <1>3, Remainder
<1> QED
  BY <1>4 DEF DigitOf, d

\* The first k digits of n ones are k ones.
LEMMA AllOnes ==
    ASSUME NEW m, NEW P, Powers(P, m),
           NEW n \in 0 .. m, NEW k \in 0 .. n
    PROVE  (P[n] - 1) % P[k] = P[k] - 1
<1> DEFINE q == P[n] - 1
           T == {j \in 0 .. n : q % P[n - j] = P[n - j] - 1}
<1>0. m \in Nat /\ n \in Nat
  BY DEF Powers
<1>1. P[n] \in Nat \ {0} /\ q \in Nat
  BY DEF Powers
<1>2. T = 0 .. n
  <2>1. q % P[n] = q
    <3> DEFINE d == P[n]
    <3>1. q \in 0 .. d - 1 /\ 0 \in Int /\ q = d * 0 + q /\ d \in Nat \ {0} /\ q \in Int
      BY <1>1
    <3> HIDE DEF d, q
    <3> QED
      BY <3>1, Remainder DEF d
  <2>2. T \in SUBSET (0 .. n) /\ 0 \in T
    BY <1>0, <2>1
  <2>3. ASSUME NEW j \in 0 + 1 .. n, j - 1 \in T PROVE j \in T
    <3> DEFINE i == n - (j - 1)
               h == P[i - 1]
               r == q % h
               b == DigitOf(P, q, i - 1)
    <3>1. i \in 1 .. m /\ i - 1 \in 0 .. m /\ i - 1 = n - j /\ j \in 0 .. n
      BY <1>0
    <3>2. q % P[i] = P[i] - 1
      BY <2>3
    <3>3. P[i] = 2 * h /\ h \in Nat \ {0}
      BY <3>1 DEF Powers
    <3>4. q % P[i] = r + b * h /\ b \in {0, 1}
      BY <1>1, <3>1, LowestDigit
    <3> HIDE DEF i, h, q
    <3>5. r \in 0 .. h - 1
      BY <1>1, <3>3
    <3> HIDE DEF r, b
    <3>6. b = 0 => b * h = 0
      BY <3>3
    <3>7. b = 1 => b * h = h
      BY <3>3
    <3>8. r = h - 1
      BY <3>2, <3>3, <3>4, <3>5, <3>6, <3>7
    <3> QED
      BY <3>1, <3>8 DEF r, h, q
  <2> HIDE DEF T
  <2> QED
    BY <1>0, <2>2, <2>3, Stretch
<1> DEFINE j == n - k
<1>3. j \in 0 .. n /\ n - j = k
  BY <1>0
<1> HIDE DEF j, q
<1>4. q % P[n - j] = P[n - j] - 1
  BY <1>2, <1>3
<1> QED
  BY <1>3, <1>4 DEF q

LEMMA AllOnesDigits ==
    ASSUME NEW m, NEW P, Powers(P, m),
           NEW n \in 0 .. m, NEW k \in 1 .. n
    PROVE  DigitOf(P, P[n] - 1, k - 1) = 1
<1> DEFINE q == P[n] - 1
           h == P[k - 1]
           b == DigitOf(P, q, k - 1)
<1>1. k \in 1 .. m /\ k - 1 \in 0 .. n /\ k \in 0 .. n /\ P[n] \in Nat
  BY DEF Powers
<1>2. q % P[k] = P[k] - 1 /\ q % h = h - 1
  BY <1>1, AllOnes
<1>3. q % P[k] = (q % h) + b * h /\ b \in {0, 1}
  BY <1>1, LowestDigit
<1>4. P[k] = 2 * h /\ h \in Nat \ {0}
  BY <1>1 DEF Powers
<1> HIDE DEF q, h, b
<1>5. b = 0 => b * h = 0
  BY <1>4
<1>6. b = 1
  BY <1>2, <1>3, <1>4, <1>5
<1> QED
  BY <1>6 DEF b, q

\* sum[k] has the digits that x makes of those of p and q, up to k.
Combines(sum, P, m, x, p, q) ==
    /\ sum \in [0 .. m -> Int] /\ sum[0] = 0
    /\ \A k \in 1 .. m :
          sum[k] = sum[k - 1] + x[DigitOf(P, p, k - 1) + DigitOf(P, q, k - 1)] * P[k - 1]
\* Where p has 0 its complement has 1.
LEMMA OnesComplement ==
    ASSUME NEW m, NEW P, Powers(P, m),
           NEW n \in 0 .. m, NEW p \in 0 .. P[n] - 1, NEW x, x[0] = 0, x[1] = 1, x[2] = 0,
           NEW sum, Combines(sum, P, m, x, p, P[n] - 1)
    PROVE  sum[m] = P[n] - 1 - p
<1> DEFINE q == P[n] - 1
<1>0. m \in Nat /\ n \in Nat /\ P[n] \in Nat \ {0} /\ q \in Int /\ p \in Int
      /\ q \in 0 .. P[n] - 1
  BY DEF Powers
<1>1. x[0] = 0 /\ x[1] = 1 /\ x[2] = 0
  OBVIOUS
<1>2. /\ sum[0] = 0 /\ sum \in [0 .. m -> Int]
      /\ \A k \in 1 .. m :
            sum[k] = sum[k - 1] + x[DigitOf(P, p, k - 1) + DigitOf(P, q, k - 1)] * P[k - 1]
  BY DEF Combines
<1> DEFINE T == {k \in 0 .. n : sum[k] = P[k] - 1 - (p % P[k])}
<1>3. T = 0 .. n
  <2>1. 0 \in T
    <3>1. P[0] = 1
      BY DEF Powers
    <3>2. p % 1 = 0
      BY <1>0
    <3> QED
      BY <1>0, <1>2, <3>1, <3>2
  <2>2. ASSUME NEW k \in 0 + 1 .. n, k - 1 \in T PROVE k \in T
    <3> DEFINE h == P[k - 1]
               b == DigitOf(P, p, k - 1)
               r == p % h
    <3>1. k \in 1 .. m /\ k - 1 \in 0 .. m /\ k \in 1 .. n /\ k \in 0 .. n
      BY <1>0
    <3>2. P[k] = 2 * h /\ h \in Nat \ {0}
      BY <3>1 DEF Powers
    <3>3. p % P[k] = r + b * h /\ b \in {0, 1}
      BY <1>0, <3>1, LowestDigit
    <3>4. DigitOf(P, q, k - 1) = 1
      BY <3>1, AllOnesDigits
    <3>5. sum[k - 1] = h - 1 - r
      BY <2>2
    <3>6. sum[k] = sum[k - 1] + x[b + 1] * h
      BY <1>2, <3>1, <3>4
    <3> HIDE DEF h, q
    <3>7. r \in Int
      BY <1>0, <3>2
    <3> HIDE DEF r, b
    <3>8. sum[k] = 2 * h - 1 - (r + b * h)
      <4>1. CASE b = 0
        <5>1. b * h = 0 /\ x[b + 1] * h = h
          BY <3>2, <4>1, <1>1
        <5> QED
          BY <3>2, <3>5, <3>6, <3>7, <5>1
      <4>2. CASE b = 1
        <5>1. b * h = h /\ x[b + 1] * h = 0
          BY <3>2, <4>2, <1>1
        <5> QED
          BY <3>2, <3>5, <3>6, <3>7, <5>1
      <4> QED
        BY <3>3, <4>1, <4>2
    <3>9. sum[k] = P[k] - 1 - (p % P[k])
      BY <3>2, <3>3, <3>8
    <3> QED
      BY <3>1, <3>9
  <2>3. T \in SUBSET (0 .. n)
    OBVIOUS
  <2> HIDE DEF T
  <2> QED
    BY <1>0, <2>1, <2>2, <2>3, Stretch
<1> DEFINE U == {k \in n .. m : sum[k] = P[n] - 1 - p}
<1>4. U = n .. m
  <2>1. n \in U
    <3> DEFINE d == P[n]
    <3>1. sum[n] = d - 1 - (p % d)
      BY <1>0, <1>3
    <3>2. p \in 0 .. d - 1 /\ 0 \in Int /\ p = d * 0 + p /\ d \in Nat \ {0} /\ p \in Int
      BY <1>0
    <3> HIDE DEF d
    <3>3. p % d = p /\ p \div d = 0
      BY <3>2, Remainder
    <3> QED
      BY <1>0, <3>1, <3>3 DEF d
  <2>2. ASSUME NEW k \in n + 1 .. m, k - 1 \in U PROVE k \in U
    <3>1. k \in 1 .. m /\ k - 1 \in 0 .. m /\ k \in n .. m
      BY <1>0
    <3>2. DigitOf(P, p, k - 1) = 0 /\ DigitOf(P, q, k - 1) = 0
      BY <1>0, NoHigherDigits
    <3>3. sum[k] = sum[k - 1] + x[0 + 0] * P[k - 1]
      BY <1>2, <3>1, <3>2
    <3>4. P[k - 1] \in Nat /\ sum[k - 1] \in Int
      BY <3>1, <1>2 DEF Powers
    <3>5. sum[k] = sum[k - 1]
      BY <3>3, <3>4, <1>1
    <3>6. sum[k - 1] = P[n] - 1 - p
      BY <2>2
    <3> QED
      BY <3>1, <3>5, <3>6
  <2>3. U \in SUBSET (n .. m)
    OBVIOUS
  <2> HIDE DEF U
  <2> QED
    <3>1. n \in Nat /\ m \in Nat
      BY <1>0
    <3> QED
      BY <2>1, <2>2, <2>3, <3>1, Stretch, Zenon
<1>5. m \in U
  BY <1>0, <1>4
<1> QED
  BY <1>5 DEF q

-------------------------------------------------------------------------------
\* Trees, each element of D being higher than its parts.

\* Induction from the parts to the whole.
LEMMA HeightInduction ==
    ASSUME NEW D, NEW H \in [D -> Nat], NEW T,
           \A e \in D : (\A p \in D : H[p] < H[e] => p \in T) => e \in T
    PROVE  D \subseteq T
<1>1. SUFFICES ASSUME NEW x \in D, x \notin T PROVE FALSE
  OBVIOUS
<1> DEFINE U == {H[e] : e \in D \ T}
<1>2. U \in SUBSET Nat /\ U # {}
  <2>1. x \in D \ T
    BY <1>1
  <2>2. H[x] \in U
    BY <2>1
  <2> QED
    BY <2>2
<1>3. PICK h \in U : \A u \in U : h <= u
  BY <1>2, LeastElement
<1>4. PICK e \in D \ T : h = H[e]
  BY <1>3
<1>5. ASSUME NEW p \in D, H[p] < H[e] PROVE p \in T
  <2>1. p \notin T => H[p] \in U
    OBVIOUS
  <2>2. H[p] \in Nat /\ H[e] \in Nat
    BY <1>4
  <2>3. p \notin T => H[e] <= H[p]
    BY <1>3, <1>4, <2>1
  <2> QED
    BY <1>5, <2>2, <2>3
<1> QED
  BY <1>4, <1>5

\* A function on trees, each value of which depends on those of the parts, exists:
\* G gives the value of an element, of a function that is right on its parts.
RestsOnParts(D, H, R, G) ==
    \A e \in D : \A f, g \in [D -> R] :
       (\A p \in D : H[p] < H[e] => f[p] = g[p]) => G[<<e, f>>] = G[<<e, g>>]
Recurs(f, D, G) == f = [e \in D |-> G[<<e, f>>]]
LEMMA HeightRecursion ==
    ASSUME NEW D, NEW H \in [D -> Nat], NEW R, R # {},
           NEW G \in [D \X [D -> R] -> R], RestsOnParts(D, H, R, G)
    PROVE  \E f \in [D -> R] : Recurs(f, D, G)
<1>0. \A e \in D : \A f, g \in [D -> R] :
         (\A p \in D : H[p] < H[e] => f[p] = g[p]) => G[<<e, f>>] = G[<<e, g>>]
  BY DEF RestsOnParts
<1> DEFINE W(n) == {f \in [D -> R] : \A e \in D : H[e] < n => f[e] = G[<<e, f>>]}
<1>1. ASSUME NEW m \in Nat, NEW n \in Nat, NEW f \in W(m), NEW g \in W(n)
      PROVE  \A e \in D : H[e] < m /\ H[e] < n => f[e] = g[e]
  <2> DEFINE T == {e \in D : H[e] < m /\ H[e] < n => f[e] = g[e]}
  <2>1. ASSUME NEW e \in D, \A p \in D : H[p] < H[e] => p \in T
        PROVE  e \in T
    <3>1. SUFFICES ASSUME H[e] < m, H[e] < n PROVE f[e] = g[e]
      OBVIOUS
    <3>2. ASSUME NEW p \in D, H[p] < H[e] PROVE f[p] = g[p]
      <4>1. H[p] \in Nat /\ H[e] \in Nat
        OBVIOUS
      <4>2. H[p] < m /\ H[p] < n
        BY <3>1, <3>2, <4>1
      <4> QED
        BY <2>1, <3>2, <4>2
    <3>3. G[<<e, f>>] = G[<<e, g>>]
      BY <1>0, <3>2
    <3> QED
      BY <3>1, <3>3
  <2> HIDE DEF T
  <2>2. D \subseteq T
    BY <2>1, HeightInduction
  <2> QED
    BY <2>2 DEF T
<1>2. ASSUME NEW n \in Nat, W(n) # {} PROVE W(n + 1) # {}
  <2>1. PICK f \in [D -> R] : \A e \in D : H[e] < n => f[e] = G[<<e, f>>]
    BY <1>2
  <2> DEFINE g == [e \in D |-> G[<<e, f>>]]
  <2>2. g \in [D -> R]
    OBVIOUS
  <2>3. ASSUME NEW e \in D, H[e] < n + 1 PROVE g[e] = G[<<e, g>>]
    <3>1. ASSUME NEW p \in D, H[p] < H[e] PROVE f[p] = g[p]
      <4>1. H[p] \in Nat /\ H[e] \in Nat
        OBVIOUS
      <4>2. H[p] < n
        BY <2>3, <3>1, <4>1
      <4> QED
        BY <2>1, <4>2
    <3> HIDE DEF g
    <3>2. G[<<e, f>>] = G[<<e, g>>]
      BY <1>0, <2>2, <3>1
    <3> QED
      BY <3>2 DEF g
  <2> HIDE DEF g
  <2>4. g \in W(n + 1)
    BY <2>2, <2>3
  <2> QED
    BY <2>4
<1>3. ASSUME NEW m \in Nat PROVE W(m) # {}
  <2> DEFINE T == {n \in 0 .. m : W(n) # {}}
  <2>1. 0 \in T
    <3>1. PICK r \in R : TRUE
      OBVIOUS
    <3>2. [e \in D |-> r] \in W(0)
      OBVIOUS
    <3> QED
      BY <3>2
  <2> HIDE DEF W
  <2>2. ASSUME NEW i \in 0 + 1 .. m, i - 1 \in T PROVE i \in T
    <3>1. i - 1 \in Nat /\ (i - 1) + 1 = i /\ i \in 0 .. m
      OBVIOUS
    <3>2. W((i - 1) + 1) # {}
      BY <1>2, <2>2, <3>1
    <3> QED
      BY <3>1, <3>2
  <2>3. T \in SUBSET (0 .. m)
    OBVIOUS
  <2> HIDE DEF T
  <2>4. T = 0 .. m
    BY <2>1, <2>2, <2>3, Stretch
  <2>5. m \in 0 .. m
    OBVIOUS
  <2> QED
    BY <2>4, <2>5 DEF T
<1> DEFINE right(e) == CHOOSE f : f \in W(H[e] + 1)
           F == [e \in D |-> right(e)[e]]
<1>4. \A e \in D : right(e) \in W(H[e] + 1)
  <2> HIDE DEF W
  <2>1. \A e \in D : W(H[e] + 1) # {}
    BY <1>3
  <2> QED
    BY <2>1
<1>5. F \in [D -> R]
  <2>1. \A e \in D : right(e) \in [D -> R]
    BY <1>4
  <2> HIDE DEF right
  <2> QED
    BY <2>1
<1>6. ASSUME NEW e \in D PROVE F[e] = G[<<e, F>>]
  <2> DEFINE f == right(e)
  <2>1. f \in [D -> R] /\ f[e] = G[<<e, f>>]
    <3>1. f \in W(H[e] + 1)
      BY <1>4
    <3> HIDE DEF f
    <3>2. f \in [D -> R] /\ \A x \in D : H[x] < H[e] + 1 => f[x] = G[<<x, f>>]
      BY <3>1
    <3>3. H[e] < H[e] + 1
      OBVIOUS
    <3> QED
      BY <3>2, <3>3
  <2> HIDE DEF right
  <2>2. ASSUME NEW p \in D, H[p] < H[e] PROVE f[p] = F[p]
    <3>1. H[p] < H[p] + 1 /\ H[p] < H[e] + 1 /\ H[p] + 1 \in Nat /\ H[e] + 1 \in Nat
      BY <2>2
    <3>2. right(p) \in W(H[p] + 1) /\ f \in W(H[e] + 1)
      BY <1>4
    <3> HIDE DEF W
    <3>3. right(p)[p] = f[p]
      BY <1>1, <3>1, <3>2
    <3> QED
      BY <3>3
  <2>3. F[e] = f[e]
    OBVIOUS
  <2> HIDE DEF f, F
  <2>4. G[<<e, f>>] = G[<<e, F>>]
    BY <1>0, <1>5, <2>1, <2>2
  <2> QED
    BY <2>1, <2>3, <2>4
<1>7. F = [e \in D |-> F[e]]
  OBVIOUS
<1> HIDE DEF F
<1>8. F = [e \in D |-> G[<<e, F>>]]
  BY <1>6, <1>7
<1> QED
  BY <1>5, <1>8 DEF Recurs
===============================================================================
