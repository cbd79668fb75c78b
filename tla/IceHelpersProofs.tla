-------------------------- MODULE IceHelpersProofs --------------------------
(***************************************************************************)
(* What holds of the helpers for words, hashes and arrays of any width:    *)
(* the loop over bits, the FNV hashes, and the elements of an array.       *)
(***************************************************************************)
EXTENDS IceBits, IceHash, IceArray, WellFoundedInduction,
        FiniteSetTheorems, SequenceTheorems, TLAPS

(* Induction, from the well-foundedness of < and without a predicate as a    *)
(* parameter: a non-empty set of numbers has a least one.                    *)
LEMMA LeastNumber ==
  ASSUME NEW T \in SUBSET Nat, T # {}
  PROVE  \E n \in T : \A m \in T : n <= m
<1> DEFINE R == OpToRel(<, Nat)
<1>1. \A m, n \in Nat : m < n => <<m, n>> \in R
  BY DEF OpToRel
<1>2. IsWellFoundedOn(R, Nat)
  BY NatLessThanWellFounded
<1> HIDE DEF R
<1>3. PICK n \in T : \A m \in T : ~(<<m, n>> \in R)
  BY <1>2, WFMin
<1>4. ASSUME NEW m \in T
      PROVE  n <= m
  <2>1. m \in Nat /\ n \in Nat
    OBVIOUS
  <2>2. ~(m < n)
    BY <1>1, <1>3, <2>1, Zenon
  <2> QED
    BY <2>1, <2>2
<1> QED
  BY <1>4

(* A set with 0 and the successor of each of its numbers has them all.       *)
LEMMA Induction ==
  ASSUME NEW S, 0 \in S, \A n \in Nat : n \in S => n + 1 \in S
  PROVE  \A n \in Nat : n \in S
<1> DEFINE T == Nat \ S
<1> SUFFICES ASSUME T # {} PROVE FALSE
  OBVIOUS
<1>1. PICK n \in T : \A m \in T : n <= m
  BY LeastNumber
<1>2. n # 0 /\ n - 1 \in Nat
  BY <1>1
<1>3. n - 1 \notin T
  BY <1>1, <1>2
<1> QED
  BY <1>2, <1>3

(* There is a function that is defined by its value before.                  *)
LEMMA Recursion ==
  ASSUME NEW a \in Int, NEW g \in [Nat \X Int -> Int]
  PROVE  \E f \in [Nat -> Int] :
           f[0] = a /\ \A n \in Nat : f[n + 1] = g[<<n, f[n]>>]
<1> DEFINE Upto(k) == {f \in [0 .. k -> Int] :
                         f[0] = a /\ \A n \in 0 .. k - 1 : f[n + 1] = g[<<n, f[n]>>]}
           G == {k \in Nat : Upto(k) # {}}
<1>1. 0 \in G
  <2>1. [n \in 0 .. 0 |-> a] \in Upto(0)
    OBVIOUS
  <2> QED
    BY <2>1
<1>2. ASSUME NEW k \in Nat, k \in G
      PROVE  k + 1 \in G
  <2>1. PICK f \in Upto(k) : TRUE
    BY <1>2
  <2>2. /\ f \in [0 .. k -> Int] /\ f[0] = a
        /\ \A n \in 0 .. k - 1 : f[n + 1] = g[<<n, f[n]>>]
    BY <2>1
  <2> DEFINE e == [n \in 0 .. k + 1 |-> IF n = k + 1 THEN g[<<k, f[k]>>] ELSE f[n]]
  <2>3. g[<<k, f[k]>>] \in Int
    BY <2>2
  <2>4. e \in [0 .. k + 1 -> Int]
    BY <2>2, <2>3
  <2>5. e[0] = a /\ e[k + 1] = g[<<k, f[k]>>] /\ \A n \in 0 .. k : e[n] = f[n]
    BY <2>2
  <2> HIDE DEF e
  <2>6. ASSUME NEW n \in 0 .. (k + 1) - 1
        PROVE  e[n + 1] = g[<<n, e[n]>>]
    <3>1. CASE n = k
      <4>1. e[k] = f[k] /\ e[n + 1] = g[<<k, f[k]>>]
        BY <2>5, <3>1
      <4> QED
        BY <3>1, <4>1
    <3>2. CASE n # k
      <4>1. n \in 0 .. k - 1 /\ n \in 0 .. k /\ n + 1 \in 0 .. k
        BY <3>2
      <4> QED
        BY <2>2, <2>5, <4>1
    <3> QED
      BY <3>1, <3>2
  <2>7. e \in Upto(k + 1)
    BY <2>4, <2>5, <2>6
  <2> QED
    BY <2>7
<1> HIDE DEF G
<1>3. \A k \in Nat : k \in G
  BY <1>1, <1>2, Induction
<1> DEFINE best == [n \in Nat |-> CHOOSE e : e \in Upto(n)]
           f == [n \in Nat |-> best[n][n]]
<1>4. \A k \in Nat : best[k] \in Upto(k)
  <2> HIDE DEF Upto
  <2> QED
    BY <1>3 DEF G
<1>5. \A k \in Nat :
        /\ best[k] \in [0 .. k -> Int] /\ best[k][0] = a
        /\ \A n \in 0 .. k - 1 : best[k][n + 1] = g[<<n, best[k][n]>>]
  BY <1>4
<1> HIDE DEF best
<1>6. ASSUME NEW k \in Nat
      PROVE  \A n \in 0 .. k : best[k][n] = best[k + 1][n]
  <2> DEFINE B == {n \in Nat : n <= k => best[k][n] = best[k + 1][n]}
  <2>1. 0 \in B
    BY <1>5
  <2>2. ASSUME NEW n \in Nat, n \in B
        PROVE  n + 1 \in B
    <3> SUFFICES ASSUME n + 1 <= k PROVE best[k][n + 1] = best[k + 1][n + 1]
      OBVIOUS
    <3>1. n \in 0 .. k - 1 /\ n \in 0 .. (k + 1) - 1 /\ best[k][n] = best[k + 1][n]
      BY <2>2
    <3>2. best[k][n + 1] = g[<<n, best[k][n]>>]
      BY <1>5, <3>1, Zenon
    <3>3. best[k + 1][n + 1] = g[<<n, best[k + 1][n]>>]
      <4>1. k + 1 \in Nat
        OBVIOUS
      <4> QED
        BY <1>5, <3>1, <4>1, Zenon
    <3> QED
      BY <3>1, <3>2, <3>3
  <2> HIDE DEF B
  <2>3. \A n \in Nat : n \in B
    BY <2>1, <2>2, Induction
  <2> QED
    BY <2>3 DEF B
<1>7. f \in [Nat -> Int] /\ f[0] = a
  <2>1. \A n \in Nat : best[n][n] \in Int
    BY <1>5
  <2> QED
    BY <1>5, <2>1
<1>8. ASSUME NEW n \in Nat
      PROVE  f[n + 1] = g[<<n, f[n]>>]
  <2>1. f[n] = best[n][n] /\ f[n + 1] = best[n + 1][n + 1]
    OBVIOUS
  <2>2. n \in 0 .. n /\ n \in 0 .. (n + 1) - 1 /\ n + 1 \in Nat
    OBVIOUS
  <2>3. best[n][n] = best[n + 1][n] /\ best[n + 1][n + 1] = g[<<n, best[n + 1][n]>>]
    BY <1>5, <1>6, <2>2, Zenon
  <2> QED
    BY <2>1, <2>3
<1> QED
  BY <1>7, <1>8

(* Products, multiples and quotients.                                        *)
LEMMA Times == \A m, n \in Nat : m * n \in Nat
BY SMT

LEMMA AMultiple ==
  ASSUME NEW a \in Nat \ {0}, NEW k \in Nat
  PROVE  (a * k) % a = 0
OBVIOUS

LEMMA Quotient ==
  ASSUME NEW a \in Nat \ {0}, NEW n \in Nat, n % a = 0
  PROVE  n \div a \in Nat /\ n = a * (n \div a)
OBVIOUS

-----------------------------------------------------------------------------
(* Words.                                                                    *)

(* The powers of two.                                                        *)
LEMMA Powers ==
  /\ Pow2[0] = 1
  /\ \A n \in Nat : /\ Pow2[n] \in Nat /\ Pow2[n] > n
                    /\ Pow2[n + 1] = 2 * Pow2[n]
<1> DEFINE F(p) == [n \in Nat |-> IF n = 0 THEN 1 ELSE 2 * p[n - 1]]
           g == [x \in Nat \X Int |-> 2 * x[2]]
           p == Pow2
<1>1. g \in [Nat \X Int -> Int] /\ \A n \in Nat, x \in Int : g[<<n, x>>] = 2 * x
  OBVIOUS
<1> HIDE DEF g
<1>i. 1 \in Int
  OBVIOUS
<1>2. PICK f \in [Nat -> Int] : f[0] = 1 /\ \A n \in Nat : f[n + 1] = g[<<n, f[n]>>]
  BY <1>1, <1>i, Recursion, Zenon
<1>3. f = F(f)
  <2>1. ASSUME NEW n \in Nat, n # 0
        PROVE  f[n] = 2 * f[n - 1]
    <3>1. n - 1 \in Nat /\ (n - 1) + 1 = n /\ f[n - 1] \in Int
      BY <2>1
    <3>2. f[(n - 1) + 1] = g[<<n - 1, f[n - 1]>>]
      BY <1>2, <3>1, Zenon
    <3> QED
      BY <1>1, <3>1, <3>2
  <2> QED
    BY <1>2, <2>1
<1>4. Pow2 = CHOOSE q : q = F(q)
  BY DEF Pow2
<1>5. p = F(p)
  BY <1>3, <1>4
<1> HIDE DEF p
<1>6. \A n \in Nat : p[n] = IF n = 0 THEN 1 ELSE 2 * p[n - 1]
  BY <1>5, Zenon
<1>7. \A n \in Nat : p[n + 1] = 2 * p[n]
  <2> SUFFICES ASSUME NEW n \in Nat PROVE p[n + 1] = 2 * p[n]
    OBVIOUS
  <2>1. n + 1 \in Nat /\ n + 1 # 0 /\ (n + 1) - 1 = n
    OBVIOUS
  <2> QED
    BY <1>6, <2>1
<1> DEFINE G == {n \in Nat : p[n] \in Nat /\ p[n] > n}
<1>8. 0 \in G /\ \A n \in Nat : n \in G => n + 1 \in G
  BY <1>6, <1>7
<1> HIDE DEF G
<1>9. \A n \in Nat : n \in G
  BY <1>8, Induction
<1>10. p[0] = 1
  BY <1>6
<1> QED
  BY <1>7, <1>9, <1>10 DEF G, p

(* Each shift by one place halves what the shifts before left.               *)
LEMMA Shifts ==
  ASSUME NEW x \in Int
  PROVE  /\ Shifted(x)[0] = x
         /\ \A p \in Nat : /\ Shifted(x)[p] \in Int
                           /\ Shifted(x)[p + 1] = Shifted(x)[p] \div 2
<1> DEFINE F(s) == [n \in Nat |-> IF n = 0 THEN x ELSE s[n - 1] \div 2]
           g == [y \in Nat \X Int |-> y[2] \div 2]
           s == Shifted(x)
<1>1. g \in [Nat \X Int -> Int] /\ \A n \in Nat, y \in Int : g[<<n, y>>] = y \div 2
  OBVIOUS
<1> HIDE DEF g
<1>2. PICK f \in [Nat -> Int] : f[0] = x /\ \A n \in Nat : f[n + 1] = g[<<n, f[n]>>]
  BY <1>1, Recursion
<1>3. f = F(f)
  <2>1. ASSUME NEW n \in Nat, n # 0
        PROVE  f[n] = f[n - 1] \div 2
    <3>1. n - 1 \in Nat /\ (n - 1) + 1 = n /\ f[n - 1] \in Int
      BY <2>1
    <3>2. f[(n - 1) + 1] = g[<<n - 1, f[n - 1]>>]
      BY <1>2, <3>1, Zenon
    <3> QED
      BY <1>1, <3>1, <3>2
  <2> QED
    BY <1>2, <2>1
<1>4. Shifted(x) = CHOOSE q : q = F(q)
  BY DEF Shifted
<1>5. s = F(s)
  BY <1>3, <1>4
<1> HIDE DEF s
<1>6. \A n \in Nat : s[n] = IF n = 0 THEN x ELSE s[n - 1] \div 2
  BY <1>5, Zenon
<1>7. \A n \in Nat : s[n + 1] = s[n] \div 2
  <2> SUFFICES ASSUME NEW n \in Nat PROVE s[n + 1] = s[n] \div 2
    OBVIOUS
  <2>1. n + 1 \in Nat /\ n + 1 # 0 /\ (n + 1) - 1 = n
    OBVIOUS
  <2> QED
    BY <1>6, <2>1
<1> DEFINE G == {n \in Nat : s[n] \in Int}
<1>8. 0 \in G /\ \A n \in Nat : n \in G => n + 1 \in G
  BY <1>6, <1>7
<1> HIDE DEF G
<1>9. \A n \in Nat : n \in G
  BY <1>8, Induction
<1>10. s[0] = x
  BY <1>6
<1> QED
  BY <1>7, <1>9, <1>10 DEF G, s

(* The shifts of a number that is not negative.                              *)
LEMMA ShiftsOfNat ==
  ASSUME NEW x \in Nat
  PROVE  /\ \A p \in Nat : Shifted(x)[p] \in Nat
         /\ \A k, p \in Nat : Shifted(x)[p] < Pow2[k] <=> x < Pow2[k + p]
<1> DEFINE s == Shifted(x)
<1>1. s[0] = x /\ \A p \in Nat : s[p + 1] = s[p] \div 2
  BY Shifts
<1> HIDE DEF s
<1> DEFINE G == {p \in Nat : /\ s[p] \in Nat
                             /\ \A k \in Nat : s[p] < Pow2[k] <=> x < Pow2[k + p]}
<1>2. 0 \in G
  <2>1. \A k \in Nat : k + 0 = k
    OBVIOUS
  <2> QED
    BY <1>1, <2>1
<1>3. ASSUME NEW p \in Nat, p \in G
      PROVE  p + 1 \in G
  <2>1. s[p] \in Nat /\ s[p + 1] = s[p] \div 2 /\ s[p + 1] \in Nat
    BY <1>1, <1>3
  <2>2. ASSUME NEW k \in Nat
        PROVE  s[p + 1] < Pow2[k] <=> x < Pow2[k + (p + 1)]
    <3>1. Pow2[k + 1] = 2 * Pow2[k] /\ Pow2[k] \in Nat /\ k + 1 \in Nat
      BY Powers
    <3>2. s[p] < Pow2[k + 1] <=> x < Pow2[(k + 1) + p]
      BY <1>3, <3>1
    <3>3. (k + 1) + p = k + (p + 1)
      OBVIOUS
    <3>4. s[p] \div 2 < Pow2[k] <=> s[p] < 2 * Pow2[k]
      BY <2>1, <3>1
    <3> QED
      BY <2>1, <3>1, <3>2, <3>3, <3>4
  <2> QED
    BY <2>1, <2>2
<1> HIDE DEF G
<1>4. \A p \in Nat : p \in G
  BY <1>2, <1>3, Induction
<1> QED
  BY <1>4 DEF G, s

(* The word with the bits S set, from its highest bit on.                    *)
Above(f, S, n) ==
  /\ f \in [0 .. n -> Nat] /\ f[0] = 0 /\ f[n] = Word(S, n)
  /\ \A k \in 1 .. n : f[k] = 2 * f[k - 1] + (IF n - k \in S THEN 1 ELSE 0)

LEMMA WordAbove ==
  ASSUME NEW n \in Nat, NEW S
  PROVE  \E f : Above(f, S, n)
<1> DEFINE bit(k) == IF n - k \in S THEN 1 ELSE 0
           F(q) == [k \in 0 .. n |-> IF k = 0 THEN 0 ELSE 2 * q[k - 1] + bit(k)]
           g == [y \in Nat \X Int |-> 2 * y[2] + bit(y[1] + 1)]
           q == CHOOSE q : q = F(q)
<1>b. \A k : bit(k) \in {0, 1}
  OBVIOUS
<1> HIDE DEF bit
<1>1. /\ g \in [Nat \X Int -> Int]
      /\ \A k \in Nat, y \in Int : g[<<k, y>>] = 2 * y + bit(k + 1)
  BY <1>b
<1> HIDE DEF g
<1>i. 0 \in Int
  OBVIOUS
<1>2. PICK e \in [Nat -> Int] : e[0] = 0 /\ \A k \in Nat : e[k + 1] = g[<<k, e[k]>>]
  BY <1>1, <1>i, Recursion, Zenon
<1> DEFINE f == [k \in 0 .. n |-> e[k]]
<1>3. f = F(f)
  <2>1. ASSUME NEW k \in 0 .. n, k # 0
        PROVE  e[k] = 2 * e[k - 1] + bit(k)
    <3>1. k - 1 \in Nat /\ (k - 1) + 1 = k /\ e[k - 1] \in Int
      BY <2>1
    <3>2. e[(k - 1) + 1] = g[<<k - 1, e[k - 1]>>]
      BY <1>2, <3>1, Zenon
    <3>3. g[<<k - 1, e[k - 1]>>] = 2 * e[k - 1] + bit((k - 1) + 1)
      BY <1>1, <3>1, Zenon
    <3> QED
      BY <3>1, <3>2, <3>3
  <2>2. \A k \in 0 .. n : k # 0 => k - 1 \in 0 .. n
    OBVIOUS
  <2> QED
    BY <1>2, <2>1, <2>2
<1>4. Word(S, n) = q[n]
  BY DEF Word, bit
<1>5. q = F(q)
  BY <1>3
<1> HIDE DEF q
<1>6. \A k \in 0 .. n : q[k] = IF k = 0 THEN 0 ELSE 2 * q[k - 1] + bit(k)
  BY <1>5, Zenon
<1>7. q = [k \in 0 .. n |-> q[k]]
  BY <1>5, <1>6, Zenon
<1> DEFINE G == {k \in Nat : k <= n => q[k] \in Nat}
<1>8. 0 \in G
  BY <1>6
<1>9. ASSUME NEW k \in Nat, k \in G
      PROVE  k + 1 \in G
  <2> SUFFICES ASSUME k + 1 <= n PROVE q[k + 1] \in Nat
    OBVIOUS
  <2>1. k + 1 \in 0 .. n /\ k + 1 # 0 /\ (k + 1) - 1 = k /\ q[k] \in Nat
    BY <1>9
  <2> QED
    BY <1>6, <1>b, <2>1
<1> HIDE DEF G
<1>10. \A k \in Nat : k \in G
  BY <1>8, <1>9, Induction
<1>11. q \in [0 .. n -> Nat]
  BY <1>7, <1>10 DEF G
<1>12. \A k \in 1 .. n : q[k] = 2 * q[k - 1] + bit(k)
  BY <1>6
<1>13. q[0] = 0
  BY <1>6
<1> QED
  BY <1>4, <1>11, <1>12, <1>13 DEF bit, Above

(* A word with the bits S set has these bits and no others: & and ^ are what *)
(* their definitions say.                                                    *)
LEMMA WordBitsSet ==
  ASSUME NEW n \in Nat, NEW S \in SUBSET (0 .. n - 1)
  PROVE  Word(S, n) \in Words(n) /\ BitsOf(Word(S, n), n) = S
<1>0. PICK f : Above(f, S, n)
  BY WordAbove
<1>1. /\ f \in [0 .. n -> Nat] /\ f[0] = 0 /\ f[n] = Word(S, n)
      /\ \A k \in 1 .. n : f[k] = 2 * f[k - 1] + (IF n - k \in S THEN 1 ELSE 0)
  BY <1>0 DEF Above
<1> DEFINE x == Word(S, n)
           s == Shifted(x)
<1>2. x \in Nat /\ x = f[n]
  BY <1>1
<1> HIDE DEF x
<1>3. s[0] = x /\ \A p \in Nat : s[p + 1] = s[p] \div 2
  BY <1>2, Shifts
<1> HIDE DEF s
<1> DEFINE G == {p \in Nat : p <= n => s[p] = f[n - p]}
<1>4. 0 \in G
  BY <1>2, <1>3
<1>5. ASSUME NEW p \in Nat, p \in G
      PROVE  p + 1 \in G
  <2> SUFFICES ASSUME p + 1 <= n PROVE s[p + 1] = f[n - (p + 1)]
    OBVIOUS
  <2>1. s[p] = f[n - p] /\ s[p + 1] = s[p] \div 2
    BY <1>3, <1>5
  <2>2. n - p \in 1 .. n /\ (n - p) - 1 = n - (p + 1) /\ n - (p + 1) \in 0 .. n
    OBVIOUS
  <2>3. f[n - p] = 2 * f[n - (p + 1)] + (IF n - (n - p) \in S THEN 1 ELSE 0)
    BY <1>1, <2>2
  <2> DEFINE y == f[n - (p + 1)]
             b == IF n - (n - p) \in S THEN 1 ELSE 0
  <2>4. y \in Nat
    BY <1>1, <2>2
  <2>5. b \in {0, 1} /\ s[p] = 2 * y + b
    BY <2>1, <2>3
  <2> HIDE DEF y, b
  <2>6. s[p + 1] = y
    BY <2>1, <2>4, <2>5
  <2> QED
    BY <2>6 DEF y
<1> HIDE DEF G
<1>6. \A p \in Nat : p \in G
  BY <1>4, <1>5, Induction
<1>7. ASSUME NEW p \in 0 .. n - 1
      PROVE  Bit(x, p) = 1 <=> p \in S
  <2>1. p \in G /\ p <= n /\ n - p \in 1 .. n /\ (n - p) - 1 \in 0 .. n /\ n - (n - p) = p
    BY <1>6
  <2>2. s[p] = f[n - p]
    BY <2>1 DEF G
  <2>3. f[n - p] = 2 * f[(n - p) - 1] + (IF p \in S THEN 1 ELSE 0) /\ f[(n - p) - 1] \in Nat
    BY <1>1, <2>1
  <2> QED
    BY <2>2, <2>3 DEF Bit, s
<1>8. x < Pow2[n]
  <2>1. s[n] = 0
    BY <1>1, <1>6 DEF G
  <2>2. s[n] < Pow2[0] /\ 0 \in Nat /\ 0 + n = n
    BY <2>1, Powers
  <2> QED
    BY <1>2, <2>2, ShiftsOfNat DEF s
<1>9. BitsOf(x, n) = S
  BY <1>7 DEF BitsOf
<1>10. x \in Words(n)
  <2>1. Pow2[n] \in Nat
    BY Powers
  <2> QED
    BY <1>2, <1>8, <2>1 DEF Words
<1> QED
  BY <1>9, <1>10 DEF x

(* A word is known by its bits.                                              *)
LEMMA SameBits ==
  ASSUME NEW n \in Nat, NEW x \in Words(n), NEW y \in Words(n), BitsOf(x, n) = BitsOf(y, n)
  PROVE  x = y
<1> DEFINE a == Shifted(x)
           b == Shifted(y)
<1>1. /\ x \in Nat /\ y \in Nat /\ x < Pow2[n] /\ y < Pow2[n] /\ Pow2[0] = 1
  BY Powers DEF Words
<1>2. /\ a[0] = x /\ b[0] = y
      /\ \A p \in Nat : /\ a[p + 1] = a[p] \div 2 /\ b[p + 1] = b[p] \div 2
                        /\ a[p] \in Nat /\ b[p] \in Nat
  <2>i. x \in Int /\ y \in Int
    BY <1>1
  <2>1. \A p \in Nat : a[p + 1] = a[p] \div 2 /\ a[p] \in Nat
    BY <1>1, <2>i, Shifts, ShiftsOfNat, Zenon
  <2>2. \A p \in Nat : b[p + 1] = b[p] \div 2 /\ b[p] \in Nat
    BY <1>1, <2>i, Shifts, ShiftsOfNat, Zenon
  <2>3. a[0] = x /\ b[0] = y
    BY <1>1, Shifts
  <2> QED
    BY <2>1, <2>2, <2>3
<1>3. a[n] = 0 /\ b[n] = 0
  <2>1. 0 \in Nat /\ 0 + n = n
    OBVIOUS
  <2>2. a[n] < Pow2[0] /\ b[n] < Pow2[0]
    BY <1>1, <2>1, ShiftsOfNat
  <2> QED
    BY <1>1, <1>2, <2>2
<1>4. \A p \in 0 .. n - 1 : a[p] % 2 = 1 <=> b[p] % 2 = 1
  BY DEF BitsOf, Bit
<1> HIDE DEF a, b
<1> DEFINE G == {k \in Nat : k <= n => a[n - k] = b[n - k]}
<1>5. 0 \in G
  BY <1>3
<1>6. ASSUME NEW k \in Nat, k \in G
      PROVE  k + 1 \in G
  <2> SUFFICES ASSUME k + 1 <= n PROVE a[n - (k + 1)] = b[n - (k + 1)]
    OBVIOUS
  <2> DEFINE p == n - (k + 1)
  <2>1. p \in Nat /\ p \in 0 .. n - 1 /\ p + 1 = n - k /\ a[n - k] = b[n - k]
    BY <1>6
  <2> HIDE DEF p
  <2>2. a[p] \div 2 = b[p] \div 2 /\ a[p] \in Nat /\ b[p] \in Nat
    <3>1. a[p + 1] = b[p + 1]
      BY <2>1
    <3> QED
      BY <1>2, <2>1, <3>1
  <2>3. a[p] % 2 = 1 <=> b[p] % 2 = 1
    BY <1>4, <2>1
  <2>4. a[p] = b[p]
    BY <2>2, <2>3
  <2> QED
    BY <2>4 DEF p
<1> HIDE DEF G
<1>7. n \in G
  BY <1>5, <1>6, Induction
<1>8. n - n = 0
  OBVIOUS
<1> QED
  BY <1>2, <1>7, <1>8 DEF G

(* ^ gives a word, and loses nothing of either word.                         *)
LEMMA XorKeeps ==
  ASSUME NEW n \in Nat, NEW x \in Words(n), NEW y \in Words(n), NEW z \in Words(n)
  PROVE  /\ Xor(x, y, n) \in Words(n)
         /\ Xor(x, z, n) = Xor(y, z, n) => x = y
         /\ Xor(z, x, n) = Xor(z, y, n) => x = y
<1> DEFINE B(a) == BitsOf(a, n)
           D(a, b) == (B(a) \ B(b)) \cup (B(b) \ B(a))
<1>1. \A a : B(a) \in SUBSET (0 .. n - 1)
  BY DEF BitsOf
<1> HIDE DEF B
<1>2. \A a, b : D(a, b) \in SUBSET (0 .. n - 1)
  BY <1>1
<1>3. \A a, b : Xor(a, b, n) = Word(D(a, b), n)
  BY DEF Xor, B
<1> HIDE DEF D
<1>4. \A a, b : Xor(a, b, n) \in Words(n) /\ B(Xor(a, b, n)) = D(a, b)
  <2> SUFFICES ASSUME NEW a, NEW b
               PROVE  Xor(a, b, n) \in Words(n) /\ B(Xor(a, b, n)) = D(a, b)
    OBVIOUS
  <2>1. D(a, b) \in SUBSET (0 .. n - 1) /\ Xor(a, b, n) = Word(D(a, b), n)
    BY <1>2, <1>3
  <2>2. Word(D(a, b), n) \in Words(n) /\ BitsOf(Word(D(a, b), n), n) = D(a, b)
    BY <2>1, WordBitsSet
  <2> QED
    BY <2>1, <2>2 DEF B
<1>5. \A a, b, c : D(a, c) = D(b, c) => B(a) = B(b)
  BY DEF D
<1>6. \A a, b, c : D(c, a) = D(c, b) => B(a) = B(b)
  BY DEF D
<1>7. B(x) = B(y) => x = y
  BY SameBits DEF B
<1>8. \A a, b : Xor(a, b, n) \in Words(n)
  BY <1>4
<1>9. \A a, b, c, d : Xor(a, b, n) = Xor(c, d, n) => D(a, b) = D(c, d)
  <2> SUFFICES ASSUME NEW a, NEW b, NEW c, NEW d, Xor(a, b, n) = Xor(c, d, n)
               PROVE  D(a, b) = D(c, d)
    OBVIOUS
  <2>1. B(Xor(a, b, n)) = D(a, b) /\ B(Xor(c, d, n)) = D(c, d)
    BY <1>4
  <2> QED
    BY <2>1
<1>10. Xor(x, z, n) = Xor(y, z, n) => x = y
  <2> SUFFICES ASSUME Xor(x, z, n) = Xor(y, z, n) PROVE x = y
    OBVIOUS
  <2>1. D(x, z) = D(y, z)
    BY <1>9
  <2> QED
    BY <1>5, <1>7, <2>1
<1>11. Xor(z, x, n) = Xor(z, y, n) => x = y
  <2> SUFFICES ASSUME Xor(z, x, n) = Xor(z, y, n) PROVE x = y
    OBVIOUS
  <2>1. D(z, x) = D(z, y)
    BY <1>9
  <2> QED
    BY <1>6, <1>7, <2>1
<1> QED
  BY <1>8, <1>10, <1>11

LEMMA PowersGrow ==
  ASSUME NEW m \in Nat, NEW n \in Nat, m <= n
  PROVE  Pow2[m] <= Pow2[n]
<1> DEFINE G == {k \in Nat : Pow2[m] <= Pow2[m + k]}
<1>1. 0 \in G
  BY Powers
<1>2. ASSUME NEW k \in Nat, k \in G
      PROVE  k + 1 \in G
  <2>1. m + k \in Nat /\ (m + k) + 1 = m + (k + 1)
    OBVIOUS
  <2>2. /\ Pow2[m] \in Nat /\ Pow2[m + k] \in Nat
        /\ Pow2[(m + k) + 1] = 2 * Pow2[m + k]
    BY <2>1, Powers
  <2> QED
    BY <1>2, <2>1, <2>2
<1> HIDE DEF G
<1>3. n - m \in G /\ m + (n - m) = n
  BY <1>1, <1>2, Induction
<1> QED
  BY <1>3 DEF G

(* A power of two that divides a number times an odd one divides the number. *)
LEMMA OddFactor ==
  ASSUME NEW q \in Nat, q % 2 = 1
  PROVE  \A n \in Nat : \A d, c \in Int :
           d * q = Pow2[n] * c => \E e \in Int : d = Pow2[n] * e
<1> DEFINE Good(n) == \A d, c \in Int :
                        d * q = Pow2[n] * c => \E e \in Int : d = Pow2[n] * e
           G == {n \in Nat : Good(n)}
<1>1. 0 \in G
  <2>1. \A d \in Int : d = Pow2[0] * d
    BY Powers
  <2> QED
    BY <2>1
<1>2. ASSUME NEW n \in Nat, n \in G
      PROVE  n + 1 \in G
  <2> SUFFICES ASSUME NEW d \in Int, NEW c \in Int, d * q = Pow2[n + 1] * c
               PROVE  \E e \in Int : d = Pow2[n + 1] * e
    OBVIOUS
  <2> DEFINE k == Pow2[n]
  <2>1. k \in Nat /\ k > 0 /\ Pow2[n + 1] = 2 * k
    BY Powers
  <2>2. Good(n)
    BY <1>2
  <2>3. d * q = k * (2 * c) /\ 2 * c \in Int
    <3> HIDE DEF k
    <3> QED
      BY <2>1
  <2>4. PICK e \in Int : d = k * e
    BY <2>2, <2>3
  <2> HIDE DEF k, Good
  <2>5. k * (e * q) = k * (2 * c)
    BY <2>1, <2>3, <2>4
  <2>6. e * q = 2 * c
    BY <2>1, <2>5
  <2>7. PICK r \in Int : q = 2 * r + 1
    BY q = 2 * (q \div 2) + 1
  <2>8. e = 2 * (c - e * r)
    BY <2>6, <2>7
  <2>9. c - e * r \in Int
    OBVIOUS
  <2>10. d = (2 * k) * (c - e * r)
    BY <2>1, <2>4, <2>8, <2>9
  <2> QED
    BY <2>1, <2>9, <2>10
<1> HIDE DEF G
<1>3. \A n \in Nat : n \in G
  BY <1>1, <1>2, Induction
<1> QED
  BY <1>3 DEF G

(* So a word that is multiplied with an odd number loses nothing.            *)
LEMMA OddProductKeeps ==
  ASSUME NEW n \in Nat, NEW x \in Words(n), NEW y \in Words(n),
         NEW q \in Nat, q % 2 = 1,
         (x * q) % Pow2[n] = (y * q) % Pow2[n]
  PROVE  x = y
<1> DEFINE m == Pow2[n]
<1>1. m \in Nat /\ m > 0 /\ x \in 0 .. m - 1 /\ y \in 0 .. m - 1
  BY Powers DEF Words
<1>2. (x * q) % m = (y * q) % m
  OBVIOUS
<1> HIDE DEF m
<1> DEFINE a == x * q
           b == y * q
<1>3. a \in Int /\ b \in Int
  BY <1>1
<1>4. a % m = b % m
  BY <1>2
<1>5. (x - y) * q = a - b
  BY <1>1
<1> HIDE DEF a, b
<1>6. a = m * (a \div m) + (a % m) /\ b = m * (b \div m) + (b % m)
  BY <1>1, <1>3
<1>7. a \div m \in Int /\ b \div m \in Int
  BY <1>1, <1>3
<1> DEFINE c == (a \div m) - (b \div m)
<1>8. a - b = m * c
  BY <1>1, <1>3, <1>4, <1>6, <1>7
<1>9. PICK e \in Int : x - y = m * e
  <2>1. x - y \in Int /\ c \in Int
    BY <1>1, <1>7
  <2> HIDE DEF c
  <2> QED
    BY <1>5, <1>8, <2>1, OddFactor DEF m
<1>10. e = 0
  <2>1. m * e < m /\ m * e > -m
    BY <1>1, <1>9
  <2>2. e >= 1 => m * e >= m
    BY <1>1
  <2>3. e <= -1 => m * e <= -m
    BY <1>1
  <2> QED
    BY <1>1, <2>1, <2>2, <2>3
<1> QED
  BY <1>1, <1>9, <1>10

-----------------------------------------------------------------------------
(* FNV hashes.                                                               *)

(* fnv_byte1 of the hash r, and the bytes of a structure.                    *)
FnvStep(r, b, x) == (Xor(b, x, r.bits) * r.prime) % Pow2[r.bits]

Octets == Words(ByteBits)

(* One step of a hash gives a hash, and structures that have differed so far *)
(* or differ in this byte stay apart.                                        *)
LEMMA StepKeeps ==
  ASSUME NEW r \in Fnv, NEW b \in Octets, NEW c \in Octets,
         NEW x \in Words(r.bits), NEW y \in Words(r.bits)
  PROVE  /\ FnvStep(r, b, x) \in Words(r.bits)
         /\ FnvStep(r, b, x) = FnvStep(r, c, x) => b = c
         /\ FnvStep(r, b, x) = FnvStep(r, b, y) => x = y
<1> DEFINE n == r.bits
           q == r.prime
<1>1. n \in Nat /\ ByteBits \in Nat /\ ByteBits <= n /\ q \in Nat /\ q % 2 = 1
  BY HashAssumption
<1>2. b \in Words(n) /\ c \in Words(n)
  <2>1. Pow2[ByteBits] <= Pow2[n] /\ Pow2[n] \in Nat /\ Pow2[ByteBits] \in Nat
    BY <1>1, Powers, PowersGrow
  <2> QED
    BY <2>1 DEF Octets, Words
<1> HIDE DEF q
<1>3. /\ FnvStep(r, b, x) = (Xor(b, x, n) * q) % Pow2[n]
      /\ FnvStep(r, c, x) = (Xor(c, x, n) * q) % Pow2[n]
      /\ FnvStep(r, b, y) = (Xor(b, y, n) * q) % Pow2[n]
  BY DEF FnvStep, q
<1>4. x \in Words(n) /\ y \in Words(n)
  OBVIOUS
<1> HIDE DEF n
<1>5. Xor(b, x, n) \in Words(n) /\ Xor(c, x, n) \in Words(n) /\ Xor(b, y, n) \in Words(n)
  BY <1>1, <1>2, <1>4, XorKeeps, Zenon
<1>6. FnvStep(r, b, x) \in Words(n)
  <2> DEFINE a == Xor(b, x, n)
             m == Pow2[n]
  <2>1. m \in Nat /\ m > 0 /\ a \in Int
    BY <1>1, <1>5, Powers DEF Words
  <2>2. FnvStep(r, b, x) = (a * q) % m
    BY <1>3
  <2> HIDE DEF a, m
  <2>3. (a * q) % m \in 0 .. m - 1
    <3>1. a * q \in Int
      BY <1>1, <2>1
    <3> QED
      BY <2>1, <3>1
  <2> QED
    BY <2>2, <2>3 DEF Words, m
<1>7. ASSUME FnvStep(r, b, x) = FnvStep(r, c, x)
      PROVE  b = c
  <2>1. Xor(b, x, n) = Xor(c, x, n)
    BY <1>1, <1>3, <1>5, <1>7, OddProductKeeps
  <2> QED
    BY <1>1, <1>2, <1>4, <2>1, XorKeeps, Zenon
<1>8. ASSUME FnvStep(r, b, x) = FnvStep(r, b, y)
      PROVE  x = y
  <2>1. Xor(b, x, n) = Xor(b, y, n)
    BY <1>1, <1>3, <1>5, <1>8, OddProductKeeps
  <2> QED
    BY <1>1, <1>2, <1>4, <2>1, XorKeeps, Zenon
<1> QED
  BY <1>6, <1>7, <1>8 DEF n

(* f has the hashes of the beginnings of s, of which the first is a; and x   *)
(* is the hash of s.                                                         *)
Hashes(f, r, a, s) ==
  /\ f \in [0 .. Len(s) -> Words(r.bits)] /\ f[0] = a
  /\ \A k \in 1 .. Len(s) : f[k] = FnvStep(r, s[k], f[k - 1])

Reached(x, r, a, s) == \E f : Hashes(f, r, a, s) /\ f[Len(s)] = x

(* There is only one.                                                        *)
LEMMA HashesAgree ==
  ASSUME NEW f, NEW g, NEW r, NEW a, NEW s \in Seq(Octets), NEW u \in Seq(Octets),
         Hashes(f, r, a, s), Hashes(g, r, a, u),
         NEW n \in 0 .. Len(s), n <= Len(u), \A k \in 1 .. n : s[k] = u[k]
  PROVE  f[n] = g[n]
<1> DEFINE G == {k \in Nat : k <= n => f[k] = g[k]}
<1>1. 0 \in G
  BY DEF Hashes
<1>2. ASSUME NEW k \in Nat, k \in G
      PROVE  k + 1 \in G
  <2> SUFFICES ASSUME k + 1 <= n PROVE f[k + 1] = g[k + 1]
    OBVIOUS
  <2>1. f[k] = g[k] /\ k + 1 \in 1 .. n /\ (k + 1) - 1 = k
    BY <1>2
  <2>2. k + 1 \in 1 .. Len(s) /\ k + 1 \in 1 .. Len(u)
    OBVIOUS
  <2>3. f[k + 1] = FnvStep(r, s[k + 1], f[k]) /\ g[k + 1] = FnvStep(r, u[k + 1], g[k])
    BY <2>1, <2>2 DEF Hashes
  <2> QED
    BY <2>1, <2>3
<1> HIDE DEF G
<1>3. n \in G
  BY <1>1, <1>2, Induction
<1> QED
  BY <1>3 DEF G

(* One byte more.                                                            *)
LEMMA ReachedAppend ==
  ASSUME NEW r \in Fnv, NEW a, NEW s \in Seq(Octets), NEW x, NEW b \in Octets,
         Reached(x, r, a, s)
  PROVE  Reached(FnvStep(r, b, x), r, a, Append(s, b))
<1>1. PICK f : Hashes(f, r, a, s) /\ f[Len(s)] = x
  BY DEF Reached
<1> DEFINE n == Len(s)
           o == Append(s, b)
           y == FnvStep(r, b, x)
           g == [k \in 0 .. n + 1 |-> IF k = n + 1 THEN y ELSE f[k]]
<1>2. /\ n \in Nat /\ Len(o) = n + 1 /\ o[n + 1] = b
      /\ \A k \in 1 .. n : o[k] = s[k]
  OBVIOUS
<1>3. /\ f \in [0 .. n -> Words(r.bits)] /\ f[0] = a /\ f[n] = x
      /\ \A k \in 1 .. n : f[k] = FnvStep(r, s[k], f[k - 1])
  BY <1>1 DEF Hashes
<1>4. x \in Words(r.bits)
  BY <1>2, <1>3
<1>5. y \in Words(r.bits)
  BY <1>4, StepKeeps
<1> HIDE DEF n, o, y
<1>6. g \in [0 .. n + 1 -> Words(r.bits)] /\ g[0] = a /\ g[n + 1] = y
  BY <1>2, <1>3, <1>5
<1>7. \A k \in 0 .. n : g[k] = f[k]
  BY <1>2
<1> HIDE DEF g
<1>8. ASSUME NEW k \in 1 .. n + 1
      PROVE  g[k] = FnvStep(r, o[k], g[k - 1])
  <2>1. k - 1 \in 0 .. n /\ g[k - 1] = f[k - 1]
    BY <1>2, <1>7
  <2>2. CASE k = n + 1
    <3>1. k - 1 = n
      BY <1>2, <2>2
    <3> QED
      BY <1>2, <1>3, <1>6, <2>1, <2>2, <3>1 DEF y
  <2>3. CASE k # n + 1
    <3>1. k \in 1 .. n /\ k \in 0 .. n
      BY <1>2, <2>3
    <3>2. g[k] = f[k] /\ o[k] = s[k] /\ f[k] = FnvStep(r, s[k], f[k - 1])
      BY <1>2, <1>3, <1>7, <3>1
    <3> QED
      BY <2>1, <3>2
  <2> QED
    BY <2>2, <2>3
<1>9. Hashes(g, r, a, o) /\ g[Len(o)] = y
  BY <1>2, <1>6, <1>8 DEF Hashes
<1> QED
  BY <1>9 DEF Reached, o, y

(* The unrolled functions are as many steps.                                 *)
LEMMA ReachedByte4 ==
  ASSUME fnv \in Fnv, NEW a, NEW s \in Seq(Octets), NEW x, Reached(x, fnv, a, s),
         NEW b \in Seq(Octets), Len(b) = 4
  PROVE  Reached(fnv_byte4(b, x), fnv, a, s \o b)
<1> DEFINE s1 == Append(s, b[1])
           s2 == Append(s1, b[2])
           s3 == Append(s2, b[3])
           s4 == Append(s3, b[4])
           x1 == FnvStep(fnv, b[1], x)
           x2 == FnvStep(fnv, b[2], x1)
           x3 == FnvStep(fnv, b[3], x2)
           x4 == FnvStep(fnv, b[4], x3)
<1>1. b[1] \in Octets /\ b[2] \in Octets /\ b[3] \in Octets /\ b[4] \in Octets
  <2>1. \A k \in 1 .. 4 : b[k] \in Octets
    BY ElementOfSeq
  <2> QED
    BY <2>1
<1>2. s1 \in Seq(Octets) /\ s2 \in Seq(Octets) /\ s3 \in Seq(Octets) /\ s4 \in Seq(Octets)
  BY <1>1
<1>3. s \o b = s4
  <2> DEFINE n == Len(s)
  <2>1. n \in Nat /\ Len(s4) = n + 4
    BY <1>1, <1>2
  <2>2. /\ \A k \in 1 .. n : s4[k] = s[k]
        /\ s4[n + 1] = b[1] /\ s4[n + 2] = b[2] /\ s4[n + 3] = b[3] /\ s4[n + 4] = b[4]
    BY <1>1, <1>2
  <2>3. /\ s \o b \in Seq(Octets) /\ Len(s \o b) = n + 4
        /\ \A k \in 1 .. n + 4 : (s \o b)[k] = IF k <= n THEN s[k] ELSE b[k - n]
    <3>1. /\ s \o b \in Seq(Octets) /\ Len(s \o b) = n + Len(b)
          /\ \A k \in 1 .. n + Len(b) : (s \o b)[k] = IF k <= n THEN s[k] ELSE b[k - n]
      BY ConcatProperties, Zenon
    <3> QED
      BY <3>1
  <2> HIDE DEF s4, n
  <2>4. ASSUME NEW k \in 1 .. n + 4
        PROVE  (s \o b)[k] = s4[k]
    <3>1. CASE k <= n
      BY <2>1, <2>2, <2>3, <3>1
    <3>2. CASE ~(k <= n)
      <4>1. k = n + 1 \/ k = n + 2 \/ k = n + 3 \/ k = n + 4
        BY <2>1, <3>2
      <4>2. (s \o b)[k] = b[k - n]
        BY <2>3, <3>2
      <4>3. /\ (n + 1) - n = 1 /\ (n + 2) - n = 2
            /\ (n + 3) - n = 3 /\ (n + 4) - n = 4
        BY <2>1
      <4> QED
        BY <2>2, <4>1, <4>2, <4>3
    <3> QED
      BY <3>1, <3>2
  <2> QED
    BY <1>2, <2>1, <2>3, <2>4, SeqEqual
<1>4. fnv_byte4(b, x) = x4
  BY DEF fnv_byte4, fnv_byte1, FnvStep
<1> HIDE DEF x1, x2, x3, x4, s1, s2, s3, s4
<1>5. Reached(x1, fnv, a, s1)
  BY <1>1, ReachedAppend DEF x1, s1
<1>6. Reached(x2, fnv, a, s2)
  BY <1>1, <1>2, <1>5, ReachedAppend DEF x2, s2
<1>7. Reached(x3, fnv, a, s3)
  BY <1>1, <1>2, <1>6, ReachedAppend DEF x3, s3
<1>8. Reached(x4, fnv, a, s4)
  BY <1>1, <1>2, <1>7, ReachedAppend DEF x4, s4
<1> QED
  BY <1>3, <1>4, <1>8

LEMMA ReachedByte8 ==
  ASSUME fnv \in Fnv, NEW a, NEW s \in Seq(Octets), NEW x, Reached(x, fnv, a, s),
         NEW b \in Seq(Octets), Len(b) = 8
  PROVE  Reached(fnv_byte8(b, x), fnv, a, s \o b)
<1> DEFINE b1 == SubSeq(b, 1, 4)
           b2 == SubSeq(b, 5, 8)
           x1 == fnv_byte4(b1, x)
           x2 == fnv_byte4(b2, x1)
<1>1. /\ b1 \in Seq(Octets) /\ Len(b1) = 4
      /\ b2 \in Seq(Octets) /\ Len(b2) = 4
      /\ s \o b1 \in Seq(Octets)
  <2>1. /\ \A k \in 1 .. 4 : b[k] \in Octets
        /\ \A k \in 5 .. 8 : b[k] \in Octets
    <3>1. \A k \in 1 .. 8 : b[k] \in Octets
      BY ElementOfSeq
    <3> QED
      BY <3>1
  <2>2. b1 \in Seq(Octets) /\ Len(b1) = 4
    BY <2>1, SubSeqProperties
  <2>3. b2 \in Seq(Octets) /\ Len(b2) = 4
    BY <2>1, SubSeqProperties
  <2> QED
    BY <2>2, <2>3, ConcatProperties
<1>2. s \o b = (s \o b1) \o b2
  <2>1. /\ \A k \in 1 .. 4 : b1[k] = b[k]
        /\ \A k \in 1 .. 4 : b2[k] = b[k + 4]
    OBVIOUS
  <2> HIDE DEF b1, b2
  <2>2. b1 \o b2 = b
    <3>1. /\ b1 \o b2 \in Seq(Octets) /\ Len(b1 \o b2) = 8
          /\ \A k \in 1 .. 8 : (b1 \o b2)[k] = IF k <= 4 THEN b1[k] ELSE b2[k - 4]
      <4>1. /\ b1 \o b2 \in Seq(Octets) /\ Len(b1 \o b2) = Len(b1) + Len(b2)
            /\ \A k \in 1 .. Len(b1) + Len(b2) :
                 (b1 \o b2)[k] = IF k <= Len(b1) THEN b1[k] ELSE b2[k - Len(b1)]
        BY <1>1, ConcatProperties, Zenon
      <4> QED
        BY <1>1, <4>1
    <3>2. \A k \in 1 .. 8 : (b1 \o b2)[k] = b[k]
      <4> SUFFICES ASSUME NEW k \in 1 .. 8 PROVE (b1 \o b2)[k] = b[k]
        OBVIOUS
      <4>1. CASE k <= 4
        <5>1. k \in 1 .. 4
          BY <4>1
        <5>2. (b1 \o b2)[k] = b1[k]
          BY <3>1, <4>1, Zenon
        <5> QED
          BY <2>1, <5>1, <5>2
      <4>2. CASE ~(k <= 4)
        <5>1. k - 4 \in 1 .. 4 /\ (k - 4) + 4 = k
          BY <4>2
        <5> QED
          BY <2>1, <3>1, <4>2, <5>1
      <4> QED
        BY <4>1, <4>2
    <3> QED
      BY <3>1, <3>2, SeqEqual
  <2>3. (s \o b1) \o b2 = s \o (b1 \o b2)
    <3>1. \A r1, r2, r3 \in Seq(Octets) : (r1 \o r2) \o r3 = r1 \o (r2 \o r3)
      BY ConcatAssociative
    <3> QED
      BY <1>1, <3>1, Zenon
  <2> QED
    BY <2>2, <2>3
<1>3. fnv_byte8(b, x) = x2
  BY DEF fnv_byte8
<1> HIDE DEF x1, x2, b1, b2
<1>4. Reached(x1, fnv, a, s \o b1)
  BY <1>1, ReachedByte4 DEF x1
<1>5. Reached(x2, fnv, a, (s \o b1) \o b2)
  BY <1>1, <1>4, ReachedByte4 DEF x2
<1> QED
  BY <1>2, <1>3, <1>5

(* A number in memory is a sequence of bytes.                                *)
LEMMA MemoryTyped ==
  ASSUME NEW i \in Int, NEW n \in Nat
  PROVE  InMemory(i, n) \in Seq(Octets) /\ Len(InMemory(i, n)) = n
<1>1. ASSUME NEW k \in 1 .. n
      PROVE  Shifted(i)[ByteBits * (k - 1)] % Pow2[ByteBits] \in Octets
  <2> DEFINE j == Shifted(i)[ByteBits * (k - 1)]
             m == Pow2[ByteBits]
  <2>1. ByteBits * (k - 1) \in Nat /\ m \in Nat /\ m > 0
    BY HashAssumption, Powers
  <2>2. j \in Int
    BY <2>1, Shifts
  <2> HIDE DEF j, m
  <2>3. j % m \in 0 .. m - 1
    BY <2>1, <2>2
  <2> QED
    BY <2>3 DEF j, m, Octets, Words
<1> DEFINE e(k) == Shifted(i)[ByteBits * (k - 1)] % Pow2[ByteBits]
<1>2. \A k \in 1 .. n : e(k) \in Octets
  BY <1>1
<1>3. InMemory(i, n) = [k \in 1 .. n |-> e(k)]
  BY DEF InMemory
<1> HIDE DEF e
<1> QED
  BY <1>2, <1>3

(* FnvBuf is the last of the hashes of the beginnings of s.                  *)
LEMMA BufHashes ==
  ASSUME fnv \in Fnv, start \in Starts, NEW s \in Seq(Octets)
  PROVE  Reached(FnvBuf(s), fnv, start, s)
<1> DEFINE n == Len(s)
           W == Words(fnv.bits)
           next(y) == IF y[1] < n /\ y[2] \in W THEN FnvStep(fnv, s[y[1] + 1], y[2]) ELSE 0
           g == [y \in Nat \X Int |-> next(y)]
           F(q) == [k \in 0 .. n |-> IF k = 0 THEN start ELSE FnvStep(fnv, s[k], q[k - 1])]
           hash == CHOOSE q : q = F(q)
<1>1. n \in Nat /\ start \in W /\ W \subseteq Int
  <2>1. fnv.bits \in Nat /\ Starts \subseteq W
    BY HashAssumption
  <2> QED
    BY <2>1, Powers DEF Words
<1>2. \A k \in 1 .. n, x \in W : FnvStep(fnv, s[k], x) \in W
  <2> SUFFICES ASSUME NEW k \in 1 .. n, NEW x \in W PROVE FnvStep(fnv, s[k], x) \in W
    OBVIOUS
  <2>1. s[k] \in Octets
    BY ElementOfSeq
  <2> QED
    BY <2>1, StepKeeps
<1>3. FnvBuf(s) = hash[n]
  BY DEF FnvBuf, fnv_byte1, FnvStep
<1> HIDE DEF W, n
<1>4. g \in [Nat \X Int -> Int]
  <2> SUFFICES ASSUME NEW y \in Nat \X Int PROVE next(y) \in Int
    OBVIOUS
  <2>1. CASE y[1] < n /\ y[2] \in W
    <3>1. y[1] + 1 \in 1 .. n
      BY <1>1, <2>1
    <3> QED
      BY <1>1, <1>2, <2>1, <3>1
  <2>2. CASE ~(y[1] < n /\ y[2] \in W)
    BY <2>2
  <2> QED
    BY <2>1, <2>2
<1>5. \A k \in Nat, x \in Int :
        g[<<k, x>>] = IF k < n /\ x \in W THEN FnvStep(fnv, s[k + 1], x) ELSE 0
  OBVIOUS
<1> HIDE DEF g
<1>i. start \in Int
  BY <1>1
<1>6. PICK e \in [Nat -> Int] : e[0] = start /\ \A k \in Nat : e[k + 1] = g[<<k, e[k]>>]
  BY <1>4, <1>i, Recursion, Zenon
<1> DEFINE G == {k \in Nat : k <= n => e[k] \in W}
<1>7. 0 \in G
  BY <1>1, <1>6
<1>8. ASSUME NEW k \in Nat, k \in G
      PROVE  k + 1 \in G
  <2> SUFFICES ASSUME k + 1 <= n PROVE e[k + 1] \in W
    OBVIOUS
  <2>1. k < n /\ e[k] \in W /\ k + 1 \in 1 .. n /\ e[k] \in Int
    BY <1>1, <1>8
  <2>2. e[k + 1] = FnvStep(fnv, s[k + 1], e[k])
    BY <1>5, <1>6, <2>1
  <2> QED
    BY <1>2, <2>1, <2>2
<1> HIDE DEF G
<1>9. \A k \in Nat : k \in G
  BY <1>7, <1>8, Induction
<1>10. \A k \in 0 .. n : e[k] \in W
  BY <1>9 DEF G
<1>11. ASSUME NEW k \in 1 .. n
       PROVE  e[k] = FnvStep(fnv, s[k], e[k - 1])
  <2>1. k - 1 \in Nat /\ k - 1 \in 0 .. n /\ (k - 1) + 1 = k /\ k - 1 < n
    BY <1>1
  <2>2. e[k - 1] \in W /\ e[k - 1] \in Int
    BY <1>1, <1>10, <2>1
  <2>3. e[(k - 1) + 1] = g[<<k - 1, e[k - 1]>>]
    BY <1>6, <2>1, Zenon
  <2>4. g[<<k - 1, e[k - 1]>>] = FnvStep(fnv, s[(k - 1) + 1], e[k - 1])
    BY <1>5, <2>1, <2>2
  <2> QED
    BY <2>1, <2>3, <2>4
<1> DEFINE f == [k \in 0 .. n |-> e[k]]
<1>12. f = F(f)
  <2>1. \A k \in 0 .. n : k # 0 => k \in 1 .. n /\ k - 1 \in 0 .. n
    BY <1>1
  <2> QED
    BY <1>6, <1>11, <2>1
<1>13. hash = F(hash)
  BY <1>12
<1> HIDE DEF hash
<1>14. \A k \in 0 .. n : hash[k] = IF k = 0 THEN start ELSE FnvStep(fnv, s[k], hash[k - 1])
  BY <1>13, Zenon
<1>15. hash = [k \in 0 .. n |-> hash[k]]
  BY <1>13, <1>14, Zenon
<1> DEFINE H == {k \in Nat : k <= n => hash[k] \in W}
<1>16. 0 \in H
  BY <1>1, <1>14
<1>17. ASSUME NEW k \in Nat, k \in H
       PROVE  k + 1 \in H
  <2> SUFFICES ASSUME k + 1 <= n PROVE hash[k + 1] \in W
    OBVIOUS
  <2>1. k + 1 \in 0 .. n /\ k + 1 \in 1 .. n /\ k + 1 # 0 /\ (k + 1) - 1 = k /\ hash[k] \in W
    BY <1>1, <1>17
  <2>2. hash[k + 1] = FnvStep(fnv, s[k + 1], hash[k])
    BY <1>14, <2>1
  <2> QED
    BY <1>2, <2>1, <2>2
<1> HIDE DEF H
<1>18. \A k \in Nat : k \in H
  BY <1>16, <1>17, Induction
<1>19. \A k \in 0 .. n : hash[k] \in W
  BY <1>18 DEF H
<1>20. hash \in [0 .. n -> W] /\ hash[0] = start
  <2>1. 0 \in 0 .. n
    BY <1>1
  <2> QED
    BY <1>14, <1>15, <1>19, <2>1
<1>21. \A k \in 1 .. n : hash[k] = FnvStep(fnv, s[k], hash[k - 1])
  BY <1>14
<1>22. Hashes(hash, fnv, start, s)
  BY <1>20, <1>21 DEF Hashes, n, W
<1> QED
  BY <1>3, <1>22 DEF Reached, n

(* The hash so far is the last of the hashes of the beginnings of what has   *)
(* been hashed.                                                              *)
HashInv ==
  /\ fnv \in Fnv /\ start \in Starts /\ hashed \in Seq(Octets)
  /\ Reached(h, fnv, start, hashed)

LEMMA HashInvInit == HashInit => HashInv
<1> SUFFICES ASSUME HashInit PROVE HashInv
  OBVIOUS
<1>1. fnv \in Fnv /\ start \in Starts /\ h = start /\ hashed = <<>>
  BY DEF HashInit
<1>2. start \in Words(fnv.bits)
  BY <1>1, HashAssumption
<1> DEFINE f == [k \in 0 .. 0 |-> start]
<1>3. Hashes(f, fnv, start, hashed) /\ f[Len(hashed)] = h
  <2>1. Len(hashed) = 0
    BY <1>1
  <2> QED
    BY <1>1, <1>2, <2>1 DEF Hashes
<1> QED
  BY <1>1, <1>3 DEF HashInv, Reached

LEMMA HashInvNext == HashInv /\ [HashNext]_hashVars => HashInv'
<1> SUFFICES ASSUME HashInv, [HashNext]_hashVars PROVE HashInv'
  OBVIOUS
<1>1. /\ fnv \in Fnv /\ start \in Starts /\ hashed \in Seq(Octets)
      /\ Reached(h, fnv, start, hashed)
  BY DEF HashInv
(* Every function hashes a field of bytes.                                   *)
<1>2. ASSUME NEW s \in Seq(Octets), NEW x, Hashed(s, x),
             Reached(x, fnv, start, hashed \o s)
      PROVE  HashInv'
  <2>1. h' = x /\ hashed' = hashed \o s /\ fnv' = fnv /\ start' = start
    BY <1>2 DEF Hashed
  <2>2. hashed \o s \in Seq(Octets)
    BY <1>1, ConcatProperties
  <2> QED
    BY <1>1, <1>2, <2>1, <2>2 DEF HashInv
<1>3. ASSUME NEW b \in Byte, HashByte(b)
      PROVE  HashInv'
  <2>1. b \in Octets
    BY HashAssumption DEF Octets
  <2>2. <<b>> \in Seq(Octets) /\ hashed \o <<b>> = Append(hashed, b)
    BY <1>1, <2>1
  <2>3. Reached(fnv_byte1(b, h), fnv, start, hashed \o <<b>>)
    BY <1>1, <2>1, <2>2, ReachedAppend DEF fnv_byte1, FnvStep
  <2>4. Hashed(<<b>>, fnv_byte1(b, h))
    BY <1>3 DEF HashByte
  <2> HIDE DEF Octets
  <2> QED
    BY <1>2, <2>2, <2>3, <2>4
<1>4. ASSUME NEW i \in Int, Hashed(InMemory(i, 4), fnv_byte4(InMemory(i, 4), h))
      PROVE  HashInv'
  <2>1. InMemory(i, 4) \in Seq(Octets) /\ Len(InMemory(i, 4)) = 4
    BY MemoryTyped
  <2>2. Reached(fnv_byte4(InMemory(i, 4), h), fnv, start, hashed \o InMemory(i, 4))
    BY <1>1, <2>1, ReachedByte4
  <2> QED
    BY <1>2, <1>4, <2>1, <2>2
<1>5. ASSUME NEW i \in Int, HashUint64(i)
      PROVE  HashInv'
  <2>1. InMemory(i, 8) \in Seq(Octets) /\ Len(InMemory(i, 8)) = 8
    BY MemoryTyped
  <2>2. Reached(fnv_byte8(InMemory(i, 8), h), fnv, start, hashed \o InMemory(i, 8))
    BY <1>1, <2>1, ReachedByte8
  <2>3. Hashed(InMemory(i, 8), fnv_byte8(InMemory(i, 8), h))
    BY <1>5 DEF HashUint64, fnv_uint64_t
  <2> QED
    BY <1>2, <2>1, <2>2, <2>3
<1>6. Signed \subseteq Int /\ Uint32 \subseteq Int /\ Uint64 \subseteq Int
  <2>1. /\ 4 * ByteBits \in Nat /\ 4 * ByteBits - 1 \in Nat /\ 8 * ByteBits \in Nat
    BY HashAssumption
  <2>2. /\ Pow2[4 * ByteBits] \in Nat /\ Pow2[4 * ByteBits - 1] \in Nat
        /\ Pow2[8 * ByteBits] \in Nat
    BY <2>1, Powers
  <2> QED
    BY <2>2, HashAssumption DEF Words
<1>7. CASE UNCHANGED hashVars
  BY <1>1, <1>7 DEF hashVars, HashInv
<1>8. ASSUME NEW i \in Signed, HashInt(i)
      PROVE  HashInv'
  BY <1>4, <1>6, <1>8 DEF HashInt, fnv_int
<1>9. ASSUME NEW i \in Uint32, HashUint32(i) \/ HashFloat(i)
      PROVE  HashInv'
  BY <1>4, <1>6, <1>9 DEF HashUint32, HashFloat, fnv_uint32_t, fnv_float
<1> QED
  BY <1>3, <1>5, <1>6, <1>7, <1>8, <1>9 DEF HashNext

LEMMA HashInvIsFold == HashInv => HashIsFold
<1> SUFFICES ASSUME HashInv PROVE h = FnvBuf(hashed)
  BY DEF HashIsFold
<1>1. /\ fnv \in Fnv /\ start \in Starts /\ hashed \in Seq(Octets)
      /\ Reached(h, fnv, start, hashed)
  BY DEF HashInv
<1>2. PICK f : Hashes(f, fnv, start, hashed) /\ f[Len(hashed)] = h
  BY <1>1 DEF Reached
<1>3. PICK g : Hashes(g, fnv, start, hashed) /\ g[Len(hashed)] = FnvBuf(hashed)
  BY <1>1, BufHashes DEF Reached
<1>4. Len(hashed) \in 0 .. Len(hashed) /\ Len(hashed) <= Len(hashed)
  BY <1>1
<1>5. f[Len(hashed)] = g[Len(hashed)]
  BY <1>1, <1>2, <1>3, <1>4, HashesAgree
<1> QED
  BY <1>2, <1>3, <1>5

(* Where two structures differ, their hashes part, and they stay apart.      *)
LEMMA HashInvIsApart == HashInv => OneByteApart
<1> SUFFICES ASSUME HashInv, NEW n \in DOMAIN hashed, NEW b \in Octets, b # hashed[n]
             PROVE  FnvBuf([hashed EXCEPT ![n] = b]) # h
  BY DEF OneByteApart, Octets
<1> DEFINE s == hashed
           u == [hashed EXCEPT ![n] = b]
           len == Len(hashed)
<1>1. /\ fnv \in Fnv /\ start \in Starts /\ s \in Seq(Octets)
      /\ Reached(h, fnv, start, s)
  BY DEF HashInv
<1>2. /\ u \in Seq(Octets) /\ Len(u) = len /\ n \in 1 .. len /\ len \in Nat
      /\ u[n] = b /\ \A k \in 1 .. len : k # n => u[k] = s[k]
  BY <1>1
<1>3. PICK f : Hashes(f, fnv, start, s) /\ f[len] = h
  BY <1>1 DEF Reached
<1>4. PICK g : Hashes(g, fnv, start, u) /\ g[Len(u)] = FnvBuf(u)
  BY <1>1, <1>2, BufHashes DEF Reached
<1>5. \A k \in 1 .. len : s[k] \in Octets
  BY <1>1, ElementOfSeq
<1>b. s[n] # b
  OBVIOUS
<1> HIDE DEF s, u, len
<1>6. /\ \A k \in 0 .. len : f[k] \in Words(fnv.bits) /\ g[k] \in Words(fnv.bits)
      /\ \A k \in 1 .. len : f[k] = FnvStep(fnv, s[k], f[k - 1])
      /\ \A k \in 1 .. len : g[k] = FnvStep(fnv, u[k], g[k - 1])
  BY <1>2, <1>3, <1>4 DEF Hashes, len, s
<1>7. f[n - 1] = g[n - 1]
  <2>1. n - 1 \in 0 .. Len(s) /\ n - 1 <= Len(u) /\ \A k \in 1 .. n - 1 : s[k] = u[k]
    BY <1>2 DEF len, s
  <2> QED
    BY <1>1, <1>2, <1>3, <1>4, <2>1, HashesAgree
<1> DEFINE G == {k \in Nat : n + k <= len => f[n + k] # g[n + k]}
<1>8. 0 \in G
  <2>1. n + 0 = n /\ n \in 1 .. len /\ n - 1 \in 0 .. len
    BY <1>2
  <2>2. /\ f[n] = FnvStep(fnv, s[n], f[n - 1]) /\ g[n] = FnvStep(fnv, b, f[n - 1])
        /\ f[n - 1] \in Words(fnv.bits) /\ s[n] \in Octets
    BY <1>2, <1>5, <1>6, <1>7, <2>1
  <2>3. f[n] # g[n]
    BY <1>1, <1>b, <2>2, StepKeeps
  <2> QED
    BY <2>1, <2>3
<1>9. ASSUME NEW k \in Nat, k \in G
      PROVE  k + 1 \in G
  <2> SUFFICES ASSUME n + (k + 1) <= len PROVE f[n + (k + 1)] # g[n + (k + 1)]
    OBVIOUS
  <2> DEFINE j == n + (k + 1)
  <2>1. /\ j \in 1 .. len /\ j - 1 = n + k /\ j - 1 \in 0 .. len /\ j # n
        /\ f[j - 1] # g[j - 1]
    BY <1>2, <1>9
  <2> HIDE DEF j
  <2>2. /\ f[j] = FnvStep(fnv, s[j], f[j - 1]) /\ g[j] = FnvStep(fnv, s[j], g[j - 1])
        /\ f[j - 1] \in Words(fnv.bits) /\ g[j - 1] \in Words(fnv.bits) /\ s[j] \in Octets
    BY <1>2, <1>5, <1>6, <2>1
  <2>3. f[j] # g[j]
    BY <1>1, <2>1, <2>2, StepKeeps
  <2> QED
    BY <2>3 DEF j
<1> HIDE DEF G
<1>10. len - n \in G /\ n + (len - n) = len
  BY <1>2, <1>8, <1>9, Induction
<1>11. f[len] # g[len]
  BY <1>2, <1>10 DEF G
<1> QED
  BY <1>2, <1>3, <1>4, <1>11 DEF u

(* The unrolled functions give what the loop of the fnv library gives for    *)
(* the bytes in memory, for every width, prime and structure.                *)
THEOREM HashAlwaysFold == HashSpec => []HashIsFold
BY HashInvInit, HashInvNext, HashInvIsFold, PTL DEF HashSpec

(* A structure that differs in one byte, wherever it is, hashes differently. *)
THEOREM BytesStayApart == HashSpec => []OneByteApart
BY HashInvInit, HashInvNext, HashInvIsApart, PTL DEF HashSpec

-----------------------------------------------------------------------------
(* The bits of a word.                                                       *)

LEMMA WordTyped == WordBits \in Nat /\ WordBits > 0 /\ WordMod \in Nat /\ WordMod > WordBits
BY BitsAssumption, Powers DEF WordMod

LEMMA ZeroHasNoBits ==
  ASSUME NEW x \in Words(WordBits)
  PROVE  SetBits(x) = {} <=> x = 0
<1> DEFINE n == WordBits
           s == Shifted(0)
           G == {p \in Nat : s[p] = 0}
<1>0. n \in Nat /\ Pow2[n] \in Nat /\ Pow2[n] > 0
  BY WordTyped, Powers
<1>1. s[0] = 0 /\ \A p \in Nat : s[p + 1] = s[p] \div 2
  BY Shifts
<1> HIDE DEF s
<1>2. 0 \in G /\ \A p \in Nat : p \in G => p + 1 \in G
  BY <1>1
<1> HIDE DEF G
<1>3. \A p \in Nat : p \in G
  BY <1>2, Induction
<1>4. BitsOf(0, n) = {}
  <2>1. \A p \in 0 .. n - 1 : s[p] = 0
    BY <1>0, <1>3 DEF G
  <2> QED
    BY <2>1 DEF BitsOf, Bit, s
<1>5. 0 \in Words(n) /\ x \in Words(n)
  BY <1>0 DEF Words
<1>6. BitsOf(x, n) = {} => x = 0
  BY <1>0, <1>4, <1>5, SameBits
<1> QED
  BY <1>4, <1>6 DEF SetBits

(* The number of trailing zeros is the position of the lowest bit.           *)
LEMMA TrailingZeros ==
  ASSUME NEW x \in Words(WordBits), x # 0
  PROVE  /\ GetNumberOfTrailingZerosUint32(x) \in SetBits(x)
         /\ \A p \in SetBits(x) : GetNumberOfTrailingZerosUint32(x) <= p
<1> DEFINE B == SetBits(x)
<1>1. B # {} /\ B \in SUBSET Nat /\ WordBits \in Nat /\ \A p \in B : p < WordBits
  BY ZeroHasNoBits, WordTyped DEF SetBits, BitsOf
<1>2. GetNumberOfTrailingZerosUint32(x) = Min(B \cup {WordBits})
  BY DEF GetNumberOfTrailingZerosUint32, SetBits, BitsOf, Bit
<1> HIDE DEF B
<1>3. PICK p \in B : \A o \in B : p <= o
  BY <1>1, LeastNumber
<1>4. p \in B \cup {WordBits} /\ \A o \in B \cup {WordBits} : p <= o
  BY <1>1, <1>3
<1>5. Min(B \cup {WordBits}) = p
  <2>1. \A o \in B \cup {WordBits} : (\A c \in B \cup {WordBits} : o <= c) => o = p
    BY <1>1, <1>4
  <2> QED
    BY <1>4, <2>1 DEF Min
<1> QED
  BY <1>2, <1>3, <1>5 DEF B

(* x & -x leaves the lowest bit of x: up to it the shifts of both add up to  *)
(* a power of two, and behind it to one less.                                *)
LEMMA LowestBit ==
  ASSUME NEW x \in Words(WordBits), NEW p \in SetBits(x), \A o \in SetBits(x) : p <= o
  PROVE  SetBits(x) \cap SetBits(Negated(x)) = {p}
<1> DEFINE n == WordBits
           y == Negated(x)
           a == Shifted(x)
           b == Shifted(y)
<1>1. n \in Nat /\ WordMod \in Nat /\ WordMod = Pow2[n] /\ p \in 0 .. n - 1
  BY WordTyped DEF WordMod, SetBits, BitsOf
<1>2. x \in 1 .. Pow2[n] - 1
  <2>1. x # 0
    BY ZeroHasNoBits
  <2> QED
    BY <2>1 DEF Words
<1>3. y = Pow2[n] - x /\ y \in Nat
  <2>1. WordMod - x \in 1 .. WordMod - 1
    BY <1>1, <1>2
  <2> QED
    BY <1>1, <2>1 DEF Negated
<1> HIDE DEF n, y
<1>4. /\ a[0] = x /\ b[0] = y
      /\ \A k \in Nat : /\ a[k] \in Nat /\ b[k] \in Nat
                        /\ a[k + 1] = a[k] \div 2 /\ b[k + 1] = b[k] \div 2
  <2>i. x \in Int /\ y \in Int /\ x \in Nat
    BY <1>1, <1>2, <1>3
  <2>1. a[0] = x /\ \A k \in Nat : a[k + 1] = a[k] \div 2 /\ a[k] \in Nat
    BY <2>i, Shifts, ShiftsOfNat, Zenon
  <2>2. b[0] = y /\ \A k \in Nat : b[k + 1] = b[k] \div 2 /\ b[k] \in Nat
    BY <1>3, <2>i, Shifts, ShiftsOfNat, Zenon
  <2> QED
    BY <2>1, <2>2
<1>5. /\ SetBits(x) = {k \in 0 .. n - 1 : a[k] % 2 = 1}
      /\ SetBits(y) = {k \in 0 .. n - 1 : b[k] % 2 = 1}
  BY DEF SetBits, BitsOf, Bit, n
<1> HIDE DEF a, b
<1>6. a[p] % 2 = 1 /\ \A k \in 0 .. n - 1 : k < p => a[k] % 2 = 0
  <2>1. a[p] % 2 = 1
    BY <1>5
  <2>2. ASSUME NEW k \in 0 .. n - 1, k < p
        PROVE  a[k] % 2 = 0
    <3>1. k \notin SetBits(x) /\ a[k] \in Nat
      BY <1>1, <1>4, <2>2
    <3>2. a[k] % 2 # 1
      BY <1>5, <3>1
    <3> QED
      BY <3>1, <3>2
  <2> QED
    BY <2>1, <2>2
<1>7. \A k \in 0 .. n - 1 : /\ n - k \in Nat /\ n - (k + 1) \in Nat
                            /\ Pow2[n - k] = 2 * Pow2[n - (k + 1)]
                            /\ Pow2[n - (k + 1)] \in Nat /\ Pow2[n - k] \in Nat
  <2> SUFFICES ASSUME NEW k \in 0 .. n - 1
               PROVE  /\ n - k \in Nat /\ n - (k + 1) \in Nat
                      /\ Pow2[n - k] = 2 * Pow2[n - (k + 1)]
                      /\ Pow2[n - (k + 1)] \in Nat /\ Pow2[n - k] \in Nat
    OBVIOUS
  <2>1. n - (k + 1) \in Nat /\ (n - (k + 1)) + 1 = n - k /\ n - k \in Nat
    BY <1>1
  <2>2. Pow2[(n - (k + 1)) + 1] = 2 * Pow2[n - (k + 1)]
    BY <2>1, Powers
  <2> QED
    BY <2>1, <2>2, Powers
<1> DEFINE G == {k \in Nat : k <= p => a[k] + b[k] = Pow2[n - k]}
<1>8. 0 \in G
  <2>1. n - 0 = n /\ a[0] + b[0] = Pow2[n]
    BY <1>1, <1>2, <1>3, <1>4
  <2> QED
    BY <2>1
<1>9. ASSUME NEW k \in Nat, k \in G
      PROVE  k + 1 \in G
  <2> SUFFICES ASSUME k + 1 <= p PROVE a[k + 1] + b[k + 1] = Pow2[n - (k + 1)]
    OBVIOUS
  <2> DEFINE c == Pow2[n - (k + 1)]
             i == a[k]
             j == b[k]
  <2>1. k \in 0 .. n - 1 /\ k < p
    BY <1>1
  <2>2. i + j = 2 * c /\ c \in Nat /\ i \in Nat /\ j \in Nat /\ i % 2 = 0
    <3>1. i + j = Pow2[n - k]
      BY <1>1, <1>9, <2>1
    <3>2. Pow2[n - k] = 2 * c /\ c \in Nat
      BY <1>7, <2>1
    <3>3. i \in Nat /\ j \in Nat
      BY <1>4
    <3>4. i % 2 = 0
      BY <1>6, <2>1
    <3> QED
      BY <3>1, <3>2, <3>3, <3>4
  <2>3. a[k + 1] = i \div 2 /\ b[k + 1] = j \div 2
    BY <1>4
  <2> HIDE DEF c, i, j
  <2>4. i \div 2 + j \div 2 = c
    BY <2>2
  <2> QED
    BY <2>3, <2>4 DEF c
<1> HIDE DEF G
<1>10. a[p] + b[p] = Pow2[n - p]
  <2>1. p \in Nat /\ p <= p
    BY <1>1
  <2>2. p \in G
    BY <1>8, <1>9, <2>1, Induction
  <2> QED
    BY <2>1, <2>2 DEF G
<1>11. b[p] % 2 = 1 /\ a[p + 1] + b[p + 1] = Pow2[n - (p + 1)] - 1
  <2> DEFINE c == Pow2[n - (p + 1)]
             i == a[p]
             j == b[p]
  <2>1. i + j = 2 * c /\ c \in Nat /\ i \in Nat /\ j \in Nat /\ i % 2 = 1
    BY <1>1, <1>4, <1>6, <1>7, <1>10
  <2>2. a[p + 1] = i \div 2 /\ b[p + 1] = j \div 2
    BY <1>1, <1>4
  <2> HIDE DEF c, i, j
  <2>3. j % 2 = 1 /\ i \div 2 + j \div 2 = c - 1
    BY <2>1
  <2> QED
    BY <2>2, <2>3 DEF c, j
<1> DEFINE H == {k \in Nat : p + 1 + k < n =>
                   a[p + 1 + k] + b[p + 1 + k] = Pow2[n - (p + 1 + k)] - 1}
<1>12. 0 \in H
  <2>1. p + 1 + 0 = p + 1
    BY <1>1
  <2> QED
    BY <1>11, <2>1
<1>13. \A k \in 0 .. n - 1 : a[k] + b[k] = Pow2[n - k] - 1 =>
         /\ ~(a[k] % 2 = 1 /\ b[k] % 2 = 1)
         /\ a[k + 1] + b[k + 1] = Pow2[n - (k + 1)] - 1
  <2> SUFFICES ASSUME NEW k \in 0 .. n - 1, a[k] + b[k] = Pow2[n - k] - 1
               PROVE  /\ ~(a[k] % 2 = 1 /\ b[k] % 2 = 1)
                      /\ a[k + 1] + b[k + 1] = Pow2[n - (k + 1)] - 1
    OBVIOUS
  <2> DEFINE c == Pow2[n - (k + 1)]
             i == a[k]
             j == b[k]
  <2>1. i + j = 2 * c - 1 /\ c \in Nat /\ i \in Nat /\ j \in Nat
    BY <1>1, <1>4, <1>7
  <2>2. a[k + 1] = i \div 2 /\ b[k + 1] = j \div 2
    BY <1>1, <1>4
  <2> HIDE DEF c, i, j
  <2>3. ~(i % 2 = 1 /\ j % 2 = 1) /\ i \div 2 + j \div 2 = c - 1
    BY <2>1
  <2> QED
    BY <2>2, <2>3 DEF c, i, j
<1>14. ASSUME NEW k \in Nat, k \in H
       PROVE  k + 1 \in H
  <2> DEFINE m == p + 1 + k
  <2>1. m + 1 = p + 1 + (k + 1) /\ m \in Nat
    BY <1>1
  <2> HIDE DEF m
  <2> SUFFICES ASSUME m + 1 < n PROVE a[m + 1] + b[m + 1] = Pow2[n - (m + 1)] - 1
    BY <2>1
  <2>2. m \in 0 .. n - 1 /\ a[m] + b[m] = Pow2[n - m] - 1
    BY <1>1, <1>14, <2>1 DEF m
  <2> QED
    BY <1>13, <2>2
<1> HIDE DEF H
<1>15. ASSUME NEW k \in 0 .. n - 1, k > p
       PROVE  ~(a[k] % 2 = 1 /\ b[k] % 2 = 1)
  <2>1. k - (p + 1) \in Nat /\ p + 1 + (k - (p + 1)) = k /\ k < n
    BY <1>1, <1>15
  <2>2. k - (p + 1) \in H
    BY <1>12, <1>14, <2>1, Induction
  <2>3. a[k] + b[k] = Pow2[n - k] - 1
    BY <2>1, <2>2 DEF H
  <2> QED
    BY <1>13, <2>3
<1>16. ASSUME NEW k \in 0 .. n - 1
       PROVE  a[k] % 2 = 1 /\ b[k] % 2 = 1 <=> k = p
  <2>1. k < p \/ k = p \/ k > p
    BY <1>1
  <2>2. CASE k < p
    <3>1. a[k] % 2 # 1 /\ k # p
      BY <1>1, <1>6, <2>2
    <3> QED
      BY <3>1
  <2>3. CASE k = p
    BY <1>6, <1>11, <2>3
  <2>4. CASE k > p
    BY <1>1, <1>15, <2>4
  <2> QED
    BY <2>1, <2>2, <2>3, <2>4
<1> QED
  BY <1>1, <1>5, <1>16 DEF y

(* The number of trailing zeros is that of the factors two.                  *)
LEMMA TrailingFactors ==
  ASSUME NEW x \in Nat, NEW p \in Nat, \A k \in 0 .. p - 1 : Bit(x, k) # 1
  PROVE  x % Pow2[p] = 0
<1> DEFINE s == Shifted(x)
           G == {k \in Nat : k <= p => x = Pow2[k] * s[k]}
<1>1. /\ s[0] = x
      /\ \A k \in Nat : s[k] \in Nat /\ s[k + 1] = s[k] \div 2
  <2>1. x \in Int
    OBVIOUS
  <2> QED
    BY <2>1, Shifts, ShiftsOfNat, Zenon
<1>2. \A k \in 0 .. p - 1 : s[k] % 2 # 1
  BY DEF Bit
<1> HIDE DEF s
<1>3. 0 \in G
  BY <1>1, Powers
<1>4. ASSUME NEW k \in Nat, k \in G
      PROVE  k + 1 \in G
  <2> SUFFICES ASSUME k + 1 <= p PROVE x = Pow2[k + 1] * s[k + 1]
    OBVIOUS
  <2> DEFINE c == Pow2[k]
             i == s[k]
             j == s[k + 1]
  <2>1. k \in 0 .. p - 1 /\ c \in Nat /\ Pow2[k + 1] = 2 * c
    BY Powers
  <2>2. i \in Nat /\ j = i \div 2 /\ i % 2 # 1 /\ x = c * i
    BY <1>1, <1>2, <1>4, <2>1
  <2> HIDE DEF c, i, j
  <2>3. i = 2 * j /\ j \in Nat
    BY <2>2
  <2>4. x = (2 * c) * j
    BY <2>1, <2>2, <2>3
  <2> QED
    BY <2>1, <2>4 DEF j
<1> HIDE DEF G
<1>5. p \in G /\ p <= p
  BY <1>3, <1>4, Induction
<1> DEFINE c == Pow2[p]
           i == s[p]
<1>6. x = c * i /\ c \in Nat \ {0} /\ i \in Nat
  BY <1>1, <1>5, Powers DEF G
<1> HIDE DEF c, i
<1>7. (c * i) % c = 0
  BY <1>6, AMultiple
<1> QED
  BY <1>6, <1>7 DEF c

(* The logarithm is the position of the highest bit.                         *)
LEMMA Logarithm ==
  ASSUME NEW x \in Words(WordBits), NEW p \in SetBits(x), \A o \in SetBits(x) : o <= p
  PROVE  iceFloorLog2Uint32(x) = p /\ Pow2[p] <= x
<1> DEFINE n == WordBits
           s == Shifted(x)
<1>1. /\ n \in Nat /\ WordMod \in Nat /\ WordMod > n /\ WordMod = Pow2[n]
      /\ p \in 0 .. n - 1 /\ x \in Nat /\ x < Pow2[n] /\ Pow2[0] = 1
  BY WordTyped, Powers DEF WordMod, SetBits, BitsOf, Words
<1>2. /\ s[0] = x
      /\ \A k \in Nat : s[k] \in Nat /\ s[k + 1] = s[k] \div 2
  <2>1. x \in Int /\ x \in Nat
    BY <1>1
  <2> QED
    BY <2>1, Shifts, ShiftsOfNat, Zenon
<1>3. \A k \in Nat : s[k] < 1 <=> x < Pow2[k]
  <2> SUFFICES ASSUME NEW k \in Nat PROVE s[k] < 1 <=> x < Pow2[k]
    OBVIOUS
  <2>1. x \in Nat /\ 0 \in Nat /\ 0 + k = k
    BY <1>1
  <2>2. s[k] < Pow2[0] <=> x < Pow2[0 + k]
    BY <2>1, ShiftsOfNat, Zenon
  <2> QED
    BY <1>1, <2>1, <2>2
<1>4. s[p] % 2 = 1 /\ \A k \in 0 .. n - 1 : k > p => s[k] % 2 # 1
  <2>1. SetBits(x) = {k \in 0 .. n - 1 : s[k] % 2 = 1}
    BY DEF SetBits, BitsOf, Bit
  <2>2. s[p] % 2 = 1
    BY <2>1
  <2>3. ASSUME NEW k \in 0 .. n - 1, k > p
        PROVE  s[k] % 2 # 1
    <3>1. k \notin SetBits(x)
      BY <1>1, <2>3
    <3> QED
      BY <2>1, <3>1
  <2> QED
    BY <2>2, <2>3
<1> HIDE DEF s
<1>5. Pow2[p] <= x
  <2>1. p \in Nat /\ ~(s[p] < 1) /\ Pow2[p] \in Nat
    <3>1. p \in Nat
      BY <1>1
    <3>2. s[p] \in Nat /\ s[p] % 2 = 1
      BY <1>2, <1>4, <3>1
    <3> QED
      BY <3>1, <3>2, Powers
  <2>2. ~(x < Pow2[p])
    BY <1>3, <2>1
  <2> QED
    BY <1>1, <2>1, <2>2
<1> DEFINE G == {k \in Nat : p < n - k => s[n - k] = 0}
<1>6. 0 \in G
  <2>1. s[n] < 1 /\ s[n] \in Nat /\ n - 0 = n
    BY <1>1, <1>2, <1>3
  <2> QED
    BY <2>1
<1>7. ASSUME NEW k \in Nat, k \in G
      PROVE  k + 1 \in G
  <2> SUFFICES ASSUME p < n - (k + 1) PROVE s[n - (k + 1)] = 0
    OBVIOUS
  <2> DEFINE m == n - (k + 1)
  <2>1. m \in 0 .. n - 1 /\ m \in Nat /\ m > p /\ m + 1 = n - k /\ p < n - k
    BY <1>1
  <2>2. s[m + 1] = 0
    BY <1>7, <2>1
  <2> HIDE DEF m
  <2>3. s[m] \div 2 = 0 /\ s[m] % 2 # 1 /\ s[m] \in Nat
    BY <1>2, <1>4, <2>1, <2>2
  <2>4. s[m] = 0
    BY <2>3
  <2> QED
    BY <2>4 DEF m
<1> HIDE DEF G
<1>8. ASSUME NEW k \in 0 .. n - 1
      PROVE  Pow2[k] > x <=> k \in p + 1 .. n - 1
  <2>0. k \in Nat /\ Pow2[k] \in Nat /\ s[k] \in Nat
    BY <1>2, Powers
  <2>1. CASE k > p
    <3>1. n - k \in Nat /\ n - (n - k) = k /\ p < n - (n - k)
      BY <1>1, <2>1
    <3>2. n - k \in G
      BY <1>6, <1>7, <3>1, Induction
    <3>3. s[k] = 0
      BY <3>1, <3>2 DEF G
    <3>4. x < Pow2[k]
      BY <1>3, <2>0, <3>3
    <3> QED
      BY <1>1, <2>0, <2>1, <3>4
  <2>2. CASE k <= p
    <3>1. Pow2[k] <= Pow2[p] /\ Pow2[p] \in Nat
      BY <1>1, <2>0, <2>2, PowersGrow, Powers
    <3> QED
      BY <1>1, <1>5, <2>0, <2>2, <3>1
  <2> QED
    BY <1>1, <2>0, <2>1, <2>2
<1>9. x # 0 /\ GetNumberOfLeadingZeros(x) = n - 1 - p
  <2>1. {k \in 0 .. n - 1 : Pow2[k] > x} = p + 1 .. n - 1
    BY <1>1, <1>8
  <2>2. Cardinality(p + 1 .. n - 1) = n - 1 - p
    <3>1. p + 1 \in Int /\ n - 1 \in Int
      BY <1>1
    <3>2. Cardinality(p + 1 .. n - 1) =
            IF p + 1 > n - 1 THEN 0 ELSE (n - 1) - (p + 1) + 1
      BY <3>1, FS_Interval, Zenon
    <3> QED
      BY <1>1, <3>2
  <2>3. x # 0
    <3>1. Pow2[p] > 0 /\ Pow2[p] \in Nat
      BY <1>1, Powers
    <3> QED
      BY <1>1, <1>5, <3>1
  <2> QED
    BY <2>1, <2>2, <2>3 DEF GetNumberOfLeadingZeros
<1>10. iceFloorLog2Uint32(x) = (WordMod + n - 1 - (n - 1 - p)) % WordMod
  BY <1>9 DEF iceFloorLog2Uint32
<1>11. WordMod + n - 1 - (n - 1 - p) = WordMod + p /\ (WordMod + p) % WordMod = p
  <2> HIDE DEF n
  <2>1. WordMod + n - 1 - (n - 1 - p) = WordMod + p
    BY <1>1
  <2>2. (WordMod + p) % WordMod = p
    BY <1>1
  <2> QED
    BY <2>1, <2>2
<1> QED
  BY <1>5, <1>10, <1>11

(* The bits that the loop has not come to yet: in the body and after a break *)
(* the one of the body is still in w.                                        *)
Rest ==
  IF loop \in {"body", "left"} THEN SetBits(w) \ {GetNumberOfTrailingZerosUint32(w)}
  ELSE SetBits(w)

(* The positions are the bits before the rest, in ascending order.           *)
BitsInv ==
  /\ word \in Words(WordBits) /\ w \in Words(WordBits)
  /\ loop \in {"none", "test", "body", "left", "done"}
  /\ loop \in {"body", "left"} =>
       w # 0 /\ SetBits(t) = {GetNumberOfTrailingZerosUint32(w)}
  /\ loop \in {"none", "done"} => w = 0
  /\ positions \in Seq(Nat)
  /\ \A m, n \in DOMAIN positions : m < n => positions[m] < positions[n]
  /\ \A m \in DOMAIN positions, p \in Rest : positions[m] < p
  /\ Rest \in SUBSET SetBits(word) /\ ToSet(positions) = SetBits(word) \ Rest

LEMMA BitsInvInit == BitsInit => BitsInv
<1> SUFFICES ASSUME BitsInit PROVE BitsInv
  OBVIOUS
<1>1. /\ word = 0 /\ w = 0 /\ loop = "none" /\ positions = <<>>
  BY DEF BitsInit
<1>2. 0 \in Words(WordBits)
  BY WordTyped, Powers DEF Words
<1>3. SetBits(0) = {}
  BY <1>2, ZeroHasNoBits
<1>4. Rest = {} /\ SetBits(word) = {}
  BY <1>1, <1>3 DEF Rest
<1>5. positions \in Seq(Nat) /\ DOMAIN positions = {} /\ ToSet(positions) = {}
  BY <1>1 DEF ToSet
<1> QED
  BY <1>1, <1>2, <1>4, <1>5 DEF BitsInv

LEMMA BitsInvNext == BitsInv /\ [BitsNext]_bitsVars => BitsInv'
<1> SUFFICES ASSUME BitsInv, [BitsNext]_bitsVars PROVE BitsInv'
  OBVIOUS
<1> DEFINE n == WordBits
           z(x) == GetNumberOfTrailingZerosUint32(x)
<1>1. /\ word \in Words(n) /\ w \in Words(n)
      /\ loop \in {"none", "test", "body", "left", "done"}
      /\ loop \in {"body", "left"} => w # 0 /\ SetBits(t) = {z(w)}
      /\ loop \in {"none", "done"} => w = 0
      /\ positions \in Seq(Nat)
      /\ \A m, k \in DOMAIN positions : m < k => positions[m] < positions[k]
      /\ \A m \in DOMAIN positions, p \in Rest : positions[m] < p
      /\ Rest \in SUBSET SetBits(word) /\ ToSet(positions) = SetBits(word) \ Rest
  BY DEF BitsInv
<1>0. n \in Nat /\ \A x : SetBits(x) \in SUBSET Nat
  BY WordTyped DEF SetBits, BitsOf
<1>2. CASE UNCHANGED bitsVars
  BY <1>1, <1>2 DEF bitsVars, BitsInv, Rest
<1>3. ASSUME NEW x \in Words(n), ForEachBitPos(x)
      PROVE  BitsInv'
  <2>1. word' = x /\ w' = x /\ loop' = "test" /\ positions' = <<>>
    BY <1>3 DEF ForEachBitPos
  <2>2. Rest' = SetBits(word')
    BY <2>1 DEF Rest
  <2>3. positions' \in Seq(Nat) /\ DOMAIN positions' = {} /\ ToSet(positions') = {}
    BY <2>1 DEF ToSet
  <2>4. word' \in Words(n) /\ w' \in Words(n)
    BY <2>1
  <2> QED
    BY <2>1, <2>2, <2>3, <2>4 DEF BitsInv
<1>4. CASE RunBody
  <2>1. /\ loop = "test" /\ w # 0 /\ t' = And(w, Negated(w), n)
        /\ positions' = Append(positions, z(w))
        /\ loop' = "body" /\ word' = word /\ w' = w
    BY <1>4 DEF RunBody
  <2> DEFINE p == z(w)
  <2>2. p \in SetBits(w) /\ p \in Nat /\ \A o \in SetBits(w) : p <= o
    BY <1>0, <1>1, <2>1, TrailingZeros
  <2>3. SetBits(w) \cap SetBits(Negated(w)) = {p}
    BY <1>1, <2>2, LowestBit
  <2>4. SetBits(t') = {p}
    <3> DEFINE S == BitsOf(w, n) \cap BitsOf(Negated(w), n)
    <3>1. S = {p} /\ S \in SUBSET (0 .. n - 1)
      BY <2>3 DEF SetBits, BitsOf
    <3>2. t' = Word(S, n)
      BY <2>1 DEF And
    <3> HIDE DEF S
    <3>3. BitsOf(Word(S, n), n) = S
      BY <1>0, <3>1, WordBitsSet
    <3> QED
      BY <3>1, <3>2, <3>3 DEF SetBits
  <2>5. Rest = SetBits(w) /\ Rest' = SetBits(w) \ {p}
    BY <2>1 DEF Rest
  <2>6. z(w') = p /\ SetBits(t)' = {p}
    BY <2>1, <2>4 DEF SetBits
  <2> HIDE DEF p, z
  <2> DEFINE k == Len(positions)
  <2>7. /\ positions' \in Seq(Nat) /\ k \in Nat /\ DOMAIN positions = 1 .. k
        /\ DOMAIN positions' = 1 .. k + 1 /\ positions'[k + 1] = p
        /\ \A m \in 1 .. k : positions'[m] = positions[m] /\ positions[m] \in Nat
    BY <1>1, <2>1, <2>2 DEF p
  <2> HIDE DEF k
  <2>8. \A m \in 1 .. k : positions[m] < p
    BY <1>1, <2>2, <2>5, <2>7
  <2>9. \A m, j \in 1 .. k + 1 : m < j => positions'[m] < positions'[j]
    <3> SUFFICES ASSUME NEW m \in 1 .. k + 1, NEW j \in 1 .. k + 1, m < j
                 PROVE  positions'[m] < positions'[j]
      OBVIOUS
    <3>1. m \in 1 .. k /\ (j \in 1 .. k \/ j = k + 1)
      BY <2>7
    <3> QED
      BY <1>1, <2>7, <2>8, <3>1
  <2>10. \A m \in 1 .. k + 1, o \in Rest' : positions'[m] < o
    <3> SUFFICES ASSUME NEW m \in 1 .. k + 1, NEW o \in SetBits(w), o # p
                 PROVE  positions'[m] < o
      BY <2>5
    <3>1. o \in Nat /\ p < o
      BY <1>0, <2>2
    <3>2. m \in 1 .. k \/ m = k + 1
      BY <2>7
    <3> QED
      BY <2>2, <2>7, <2>8, <3>1, <3>2
  <2>11. ToSet(positions') = ToSet(positions) \cup {p}
    <3>1. ToSet(positions) = {positions[m] : m \in 1 .. k}
      BY <2>7 DEF ToSet
    <3>2. ToSet(positions') = {positions'[m] : m \in 1 .. k + 1}
      BY <2>7 DEF ToSet
    <3>3. 1 .. k + 1 = (1 .. k) \cup {k + 1}
      BY <2>7
    <3> QED
      BY <2>7, <3>1, <3>2, <3>3
  <2>12. ToSet(positions') = SetBits(word) \ Rest' /\ Rest' \in SUBSET SetBits(word)
    BY <1>1, <2>2, <2>5, <2>11
  <2>13. /\ word' \in Words(n) /\ w' \in Words(n) /\ w' # 0 /\ SetBits(word)' = SetBits(word)
    BY <1>1, <2>1 DEF SetBits
  <2> QED
    BY <2>1, <2>6, <2>7, <2>9, <2>10, <2>12, <2>13 DEF BitsInv, z
<1>5. CASE BodyEnds
  <2>1. /\ loop = "body" /\ word' = word /\ t' = t /\ positions' = positions
        /\ \/ w' = Xor(w, t, n) /\ loop' = "test"
           \/ loop' = "left" /\ w' = w
    BY <1>5 DEF BodyEnds
  <2>2. CASE loop' = "left" /\ w' = w
    <3>1. Rest' = Rest /\ SetBits(word)' = SetBits(word)
      BY <2>1, <2>2 DEF Rest, SetBits
    <3> QED
      BY <1>1, <2>1, <2>2, <3>1 DEF BitsInv
  <2>3. CASE w' = Xor(w, t, n) /\ loop' = "test"
    <3> DEFINE p == z(w)
               S == (BitsOf(w, n) \ BitsOf(t, n)) \cup (BitsOf(t, n) \ BitsOf(w, n))
    <3>1. p \in SetBits(w) /\ SetBits(t) = {p}
      BY <1>1, <2>1, TrailingZeros
    <3>2. S = SetBits(w) \ {p} /\ S \in SUBSET (0 .. n - 1)
      BY <3>1 DEF SetBits, BitsOf
    <3>3. w' = Word(S, n)
      BY <2>3 DEF Xor
    <3> HIDE DEF S
    <3>4. Word(S, n) \in Words(n) /\ BitsOf(Word(S, n), n) = S
      BY <1>0, <3>2, WordBitsSet
    <3>5. w' \in Words(n) /\ SetBits(w)' = S
      BY <3>3, <3>4 DEF SetBits
    <3>6. Rest = S
      BY <2>1, <3>2 DEF Rest
    <3>7. Rest' = Rest
      BY <2>3, <3>5, <3>6 DEF Rest
    <3>8. SetBits(word)' = SetBits(word)
      BY <2>1 DEF SetBits
    <3> QED
      BY <1>1, <2>1, <2>3, <3>5, <3>7, <3>8 DEF BitsInv
  <2> QED
    BY <2>1, <2>2, <2>3
<1>6. CASE ForEachBitDone
  <2>1. /\ loop = "test" /\ w = 0 /\ loop' = "done"
        /\ word' = word /\ w' = w /\ t' = t /\ positions' = positions
    BY <1>6 DEF ForEachBitDone
  <2>2. Rest' = Rest /\ SetBits(word)' = SetBits(word)
    BY <2>1 DEF Rest, SetBits
  <2> QED
    BY <1>1, <2>1, <2>2 DEF BitsInv
<1> QED
  BY <1>2, <1>3, <1>4, <1>5, <1>6 DEF BitsNext

LEMMA BitsInvIsOnce == BitsInv => EachBitOnce
<1> SUFFICES ASSUME BitsInv PROVE EachBitOnce
  OBVIOUS
<1> DEFINE n == WordBits
           B == SetBits(word)
           k == Len(positions)
<1>1. /\ word \in Words(n) /\ w \in Words(n)
      /\ loop \in {"none", "test", "body", "left", "done"}
      /\ loop \in {"body", "left"} =>
           w # 0 /\ SetBits(t) = {GetNumberOfTrailingZerosUint32(w)}
      /\ loop \in {"none", "done"} => w = 0
      /\ positions \in Seq(Nat)
      /\ \A m, j \in DOMAIN positions : m < j => positions[m] < positions[j]
      /\ Rest \in SUBSET SetBits(word) /\ ToSet(positions) = SetBits(word) \ Rest
  BY DEF BitsInv
<1>2. SetBits(0) = {}
  <2>1. 0 \in Words(n)
    BY WordTyped, Powers DEF Words
  <2> QED
    BY <2>1, ZeroHasNoBits
<1>3. Rest = SetBits(w) \ (IF loop = "test" THEN {} ELSE SetBits(t))
  <2>1. CASE loop = "test"
    BY <2>1 DEF Rest
  <2>2. CASE loop \in {"body", "left"}
    BY <1>1, <2>2 DEF Rest
  <2>3. CASE loop \in {"none", "done"}
    BY <1>1, <1>2, <2>3 DEF Rest
  <2> QED
    BY <1>1, <2>1, <2>2, <2>3
<1>4. ASSUME loop = "done", word # 0
      PROVE  /\ ToSet(positions) = B
             /\ Last(positions) = iceFloorLog2Uint32(word)
             /\ Pow2[iceFloorLog2Uint32(word)] <= word
             /\ word % Pow2[GetNumberOfTrailingZerosUint32(word)] = 0
             /\ Head(positions) = GetNumberOfTrailingZerosUint32(word)
  <2>1. ToSet(positions) = B
    BY <1>1, <1>2, <1>4 DEF Rest
  <2>2. B # {} /\ B = {positions[m] : m \in 1 .. k} /\ DOMAIN positions = 1 .. k /\ k \in Nat
    BY <1>1, <1>4, <2>1, ZeroHasNoBits DEF ToSet
  <2> HIDE DEF k, B
  <2>3. 1 \in 1 .. k /\ k \in 1 .. k
    <3>1. PICK m \in 1 .. k : TRUE
      BY <2>2
    <3> QED
      BY <2>2, <3>1
  <2>4. \A m \in 1 .. k :
          /\ positions[m] \in Nat
          /\ positions[1] <= positions[m] /\ positions[m] <= positions[k]
    <3> SUFFICES ASSUME NEW m \in 1 .. k
                 PROVE  /\ positions[m] \in Nat
                        /\ positions[1] <= positions[m] /\ positions[m] <= positions[k]
      OBVIOUS
    <3>1. positions[m] \in Nat /\ positions[1] \in Nat /\ positions[k] \in Nat
      BY <1>1, <2>2, <2>3
    <3>2. m = 1 \/ 1 < m
      BY <2>2
    <3>3. m = k \/ m < k
      BY <2>2
    <3>4. positions[1] <= positions[m]
      BY <1>1, <2>2, <2>3, <3>1, <3>2
    <3>5. positions[m] <= positions[k]
      BY <1>1, <2>2, <2>3, <3>1, <3>3
    <3> QED
      BY <3>1, <3>4, <3>5
  <2>5. positions[k] \in B /\ \A o \in B : o <= positions[k]
    BY <2>2, <2>3, <2>4
  <2>6. positions[1] \in B /\ \A o \in B : positions[1] <= o
    BY <2>2, <2>3, <2>4
  <2>7. Last(positions) = positions[k] /\ Head(positions) = positions[1]
    BY <1>1, <2>3 DEF Last, k
  <2>8. iceFloorLog2Uint32(word) = positions[k] /\ Pow2[positions[k]] <= word
    BY <1>1, <2>5, Logarithm DEF B
  <2> DEFINE p == GetNumberOfTrailingZerosUint32(word)
  <2>9. p \in B /\ \A o \in B : p <= o
    BY <1>1, <1>4, TrailingZeros DEF B
  <2>10. \A o \in B : o \in Nat
    BY <2>2, <2>4
  <2>11. positions[1] = p
    BY <2>6, <2>9, <2>10
  <2>12. word % Pow2[p] = 0
    <3>1. p \in Nat /\ p \in 0 .. n - 1 /\ word \in Nat
      BY <1>1, <2>9, <2>10 DEF B, SetBits, BitsOf, Words
    <3>2. ASSUME NEW j \in 0 .. p - 1
          PROVE  Bit(word, j) # 1
      <4>1. j \in 0 .. n - 1 /\ j < p /\ n \in Nat
        BY <3>1, WordTyped
      <4>2. j \notin B
        BY <2>9, <3>1, <4>1
      <4> QED
        BY <4>1, <4>2 DEF B, SetBits, BitsOf
    <3> QED
      BY <3>1, <3>2, TrailingFactors
  <2> QED
    BY <2>1, <2>7, <2>8, <2>11, <2>12
<1> QED
  BY <1>1, <1>3, <1>4 DEF EachBitOnce

(* The loop over the bits of a word of any width runs its body once for each *)
(* set bit, from the lowest to the highest, and the counts agree with it.    *)
THEOREM BitsVisitedOnce == BitsSpec => []EachBitOnce
BY BitsInvInit, BitsInvNext, BitsInvIsOnce, PTL DEF BitsSpec

-----------------------------------------------------------------------------
(* Aligned arrays.                                                           *)

LEMMA ArrayConstants ==
  /\ SizeofType \in Nat /\ SizeofType > 0 /\ ElemAlign \in Nat \ {0}
  /\ ArrayLen \in Nat /\ SizeMax \in Nat /\ Place \subseteq Nat
  /\ \A p \in Place : p % ElemAlign = 0
BY ArrayAssumption

LEMMA PlaceOfMultiple ==
  ASSUME NEW a \in Nat \ {0}, NEW p \in Nat, p % a = 0,
         NEW i \in Nat, NEW d \in Nat, d % a = 0
  PROVE  (p + i * d) % a = 0
<1> DEFINE x == p \div a
           y == d \div a
<1>1. x \in Nat /\ p = a * x /\ y \in Nat /\ d = a * y
  BY Quotient
<1> HIDE DEF x, y
<1>2. i * y \in Nat
  BY <1>1, Times
<1>3. i * d = a * (i * y)
  BY <1>1
<1>4. a * x + a * (i * y) = a * (x + i * y)
  BY <1>1, <1>2
<1>5. x + i * y \in Nat
  BY <1>1, <1>2
<1> QED
  BY <1>1, <1>3, <1>4, <1>5, AMultiple

(* Rounding up gives a multiple that is not smaller.                         *)
LEMMA RoundedUp ==
  size_aligned \in Nat /\ size_aligned >= SizeofType /\ size_aligned % ElemAlign = 0
<1> DEFINE n == SizeofType + (ElemAlign - 1)
<1>1. n \in Nat /\ n % ElemAlign \in 0 .. ElemAlign - 1
  BY ArrayConstants
<1>2. n >= n % ElemAlign /\ n - (n % ElemAlign) >= SizeofType
  BY <1>1, ArrayConstants
<1>3. size_aligned = n - (n % ElemAlign)
  BY DEF size_aligned, ice_align_up
<1> HIDE DEF n
<1>4. n - (n % ElemAlign) = ElemAlign * (n \div ElemAlign) /\ n \div ElemAlign \in Nat
  BY <1>1, ArrayConstants
<1>5. size_aligned % ElemAlign = 0
  BY <1>3, <1>4, AMultiple, ArrayConstants
<1> QED
  BY <1>1, <1>2, <1>3, <1>5, ArrayConstants

(* Multiples of the distance are a distance apart.                           *)
LEMMA Spaced ==
  ASSUME NEW d \in Nat, NEW i \in Nat, NEW j \in Nat, i < j
  PROVE  i * d + d <= j * d
<1>1. (j - i - 1) * d \in Nat
  BY Times
<1>2. j * d = i * d + d + (j - i - 1) * d
  OBVIOUS
<1> QED
  BY <1>1, <1>2, Times

(* The elements handed out are those of the array: their pointers are what   *)
(* _get computes, and the block has room for all of them.                    *)
ArrayInv ==
  /\ v \in Nat /\ v % ElemAlign = 0
  /\ v # 0 => bytes = ArrayLen * size_aligned
  /\ elements # {} => v # 0
  /\ \A e \in elements :
       e.index \in Nat /\ e.index < ArrayLen /\ e.ptr = v + e.index * size_aligned

LEMMA ArrayInvInit == ArrayInit => ArrayInv
BY ArrayConstants DEF ArrayInit, ArrayInv

LEMMA ArrayInvNext == ArrayInv /\ [ArrayNext]_arrayVars => ArrayInv'
<1> SUFFICES ASSUME ArrayInv, [ArrayNext]_arrayVars PROVE ArrayInv'
  OBVIOUS
<1> USE DEF ArrayInv
<1>1. ASSUME NEW p \in Place, ArrayNew(p)
      PROVE  ArrayInv'
  BY <1>1, ArrayConstants DEF ArrayNew
<1>2. ASSUME NEW i \in Nat, ArrayGet(i)
      PROVE  ArrayInv'
  <2>1. /\ v' = v /\ bytes' = bytes /\ v # 0 /\ i < ArrayLen
        /\ elements' = elements \cup {[index |-> i, ptr |-> v + i * size_aligned]}
    BY <1>2 DEF ArrayGet
  <2> QED
    BY <2>1
<1>3. CASE ArrayFree
  BY <1>3, ArrayConstants DEF ArrayFree
<1>4. CASE UNCHANGED arrayVars
  BY <1>4 DEF arrayVars
<1>5. CASE ArrayBack
  <2>1. (ArrayLen - 1) % (SizeMax + 1) \in Nat
    BY ArrayConstants
  <2> QED
    BY <1>2, <1>4, <1>5, <2>1 DEF ArrayBack, ArrayGetRefused
<1> QED
  BY <1>1, <1>2, <1>3, <1>4, <1>5, ArrayConstants DEF ArrayNext, ArrayNewFails, ArrayGetRefused

LEMMA InvIsApart == ArrayInv => ElementsApart
<1> SUFFICES ASSUME ArrayInv, NEW e \in elements
             PROVE  /\ e.ptr % ElemAlign = 0
                    /\ v <= e.ptr /\ e.ptr + SizeofType <= v + bytes
                    /\ \A f \in elements : e.index < f.index => e.ptr + SizeofType <= f.ptr
  BY DEF ElementsApart
<1> DEFINE d == size_aligned
           at == e.index * d
<1>1. d \in Nat /\ d >= SizeofType /\ d % ElemAlign = 0 /\ SizeofType \in Nat
  BY RoundedUp, ArrayConstants
<1>2. /\ v \in Nat /\ v % ElemAlign = 0 /\ bytes = ArrayLen * d
      /\ e.index \in Nat /\ e.index < ArrayLen /\ e.ptr = v + at
  BY DEF ArrayInv
<1>3. e.ptr % ElemAlign = 0
  <2> DEFINE i == e.index
  <2>1. ElemAlign \in Nat \ {0} /\ i \in Nat
    BY <1>2, ArrayConstants
  <2> HIDE DEF d, i
  <2>2. (v + i * d) % ElemAlign = 0
    BY <1>1, <1>2, <2>1, PlaceOfMultiple
  <2>3. e.ptr = v + i * d
    BY <1>2 DEF d, i
  <2> QED
    BY <2>2, <2>3
<1>4. at + d <= bytes /\ at \in Nat /\ bytes \in Nat
  BY <1>1, <1>2, Spaced, Times, ArrayConstants
<1>5. ASSUME NEW f \in elements, e.index < f.index
      PROVE  e.ptr + SizeofType <= f.ptr
  <2>1. f.index \in Nat /\ f.ptr = v + f.index * d
    BY DEF ArrayInv
  <2>2. at + d <= f.index * d /\ f.index * d \in Nat
    BY <1>1, <1>2, <1>5, <2>1, Spaced, Times
  <2> DEFINE to == f.index * d
  <2> HIDE DEF d, at, to
  <2>3. at + d <= to /\ to \in Nat /\ f.ptr = v + to
    BY <2>1, <2>2 DEF to
  <2> QED
    BY <1>1, <1>2, <1>4, <2>3
<1> HIDE DEF d, at
<1>6. v <= e.ptr /\ e.ptr + SizeofType <= v + bytes
  BY <1>1, <1>2, <1>4
<1> QED
  BY <1>3, <1>5, <1>6

(* For every type, alignment and length, the pointers that _get and _back    *)
(* hand out lead to aligned elements in the block that do not overlap.       *)
THEOREM ArrayElementsApart == ArraySpec => []ElementsApart
BY ArrayInvInit, ArrayInvNext, InvIsApart, PTL DEF ArraySpec
=============================================================================
