---------------------------- MODULE NumberTheorems ----------------------------
(***************************************************************************)
(* Facts about numbers that the proofs of several components rest on: the  *)
(* least of a set of natural numbers, division with rest, numbers that are *)
(* the same modulo n, sums and powers; and of the one-out-of-N proof:      *)
(* polynomials as lists of coefficients, digits, and exchanged sums.       *)
(***************************************************************************)
EXTENDS Arithmetic, WellFoundedInduction, TLAPS

LEMMA LeastExists ==
    ASSUME NEW T \in SUBSET Nat, T # {}
    PROVE  \E a \in T : \A b \in T : a <= b
<1> DEFINE R == OpToRel(<, Nat)
<1>1. IsWellFoundedOn(R, Nat)
  BY NatLessThanWellFounded
<1>2. \A a, b \in Nat : a < b => <<a, b>> \in R
  BY DEF OpToRel
<1> HIDE DEF R
<1>3. PICK a \in T : \A b \in T : ~(<<b, a>> \in R)
  BY <1>1, WFMin
<1>4. \A b \in T : ~(b < a)
  BY <1>2, <1>3
<1> QED BY <1>4

-----------------------------------------------------------------------------
\* Division with rest, which is unique.
LEMMA DivMod ==
    ASSUME NEW a \in Int, NEW n \in Nat \ {0}
    PROVE  /\ a \div n \in Int /\ a % n \in 0..(n - 1)
           /\ a = n * (a \div n) + (a % n)
           /\ a \in Nat => a \div n \in Nat
OBVIOUS

LEMMA DivUnique ==
    ASSUME NEW a \in Int, NEW q \in Int, NEW n \in Nat \ {0},
           NEW r \in 0..(n - 1), a = n * q + r
    PROVE  a % n = r /\ a \div n = q
OBVIOUS

-----------------------------------------------------------------------------
\* a and b are the same modulo n.
Same(a, b, n) == \E q \in Int : a = b + n * q

LEMMA SameMod ==
    ASSUME NEW n \in Nat \ {0}, NEW a \in Int, NEW b \in Int
    PROVE  Same(a, b, n) <=> a % n = b % n
<1>1. PICK u \in Int : a = n * u + (a % n)
  BY DivMod
<1>2. PICK v \in Int : b = n * v + (b % n)
  BY DivMod
<1>3. a % n \in 0..(n - 1) /\ b % n \in 0..(n - 1)
  OBVIOUS
<1>4. ASSUME a % n = b % n PROVE Same(a, b, n)
  <2>1. PICK r \in 0..(n - 1) : r = a % n
    BY <1>3
  <2>2. a = n * u + r /\ b = n * v + r
    BY <1>1, <1>2, <1>4, <2>1
  <2>3. u - v \in Int /\ a = b + n * (u - v)
    BY <2>2
  <2> QED BY <2>3 DEF Same
<1>5. ASSUME Same(a, b, n) PROVE a % n = b % n
  <2>1. PICK q \in Int : a = b + n * q
    BY <1>5 DEF Same
  <2>2. PICK r \in 0..(n - 1) : r = b % n
    BY <1>3
  <2>3. a = n * (v + q) + r /\ v + q \in Int
    BY <1>2, <2>1, <2>2
  <2>4. a % n = r
    BY <2>3, DivUnique
  <2> QED BY <2>2, <2>4
<1> QED BY <1>4, <1>5

LEMMA SameRest ==
    ASSUME NEW n \in Nat \ {0}, NEW a \in Int
    PROVE  Same(a % n, a, n) /\ a % n \in Int
<1>1. PICK r \in Int : r = a % n
  OBVIOUS
<1>2. PICK u \in Int : a = n * u + r
  BY <1>1, DivMod
<1>3. -u \in Int /\ r = a + n * (-u)
  BY <1>2
<1> QED BY <1>1, <1>3 DEF Same

LEMMA SameSum ==
    ASSUME NEW n \in Nat \ {0}, NEW a \in Int, NEW b \in Int,
           NEW c \in Int, NEW d \in Int, Same(a, b, n), Same(c, d, n)
    PROVE  Same(a + c, b + d, n) /\ Same(a - c, b - d, n)
<1>1. PICK q \in Int : a = b + n * q
  BY DEF Same
<1>2. PICK p \in Int : c = d + n * p
  BY DEF Same
<1>3. /\ a + c = (b + d) + n * (q + p) /\ q + p \in Int
      /\ a - c = (b - d) + n * (q - p) /\ q - p \in Int
  BY <1>1, <1>2
<1> QED BY <1>3 DEF Same

LEMMA SameProduct ==
    ASSUME NEW n \in Nat \ {0}, NEW a \in Int, NEW b \in Int, NEW k \in Int,
           Same(a, b, n)
    PROVE  Same(a * k, b * k, n)
<1>1. PICK q \in Int : a = b + n * q
  BY DEF Same
<1>2. a * k = b * k + n * (q * k) /\ q * k \in Int
  BY <1>1
<1> QED BY <1>2 DEF Same

LEMMA SameUnit ==
    ASSUME NEW n \in Nat \ {0}, NEW a \in Int, NEW k \in Int, Same(a, 1, n)
    PROVE  Same(a * k, k, n)
<1>1. PICK q \in Int : a = 1 + n * q
  BY DEF Same
<1>2. a * k = k + n * (q * k) /\ q * k \in Int
  BY <1>1
<1> QED BY <1>2 DEF Same

LEMMA SameTrans ==
    ASSUME NEW n \in Nat \ {0}, NEW a \in Int, NEW b \in Int, NEW c \in Int,
           Same(a, b, n), Same(b, c, n)
    PROVE  Same(a, c, n)
BY SameMod

LEMMA SameReverse ==
    ASSUME NEW n \in Nat \ {0}, NEW a \in Int, NEW b \in Int, Same(a, b, n)
    PROVE  Same(b, a, n)
BY SameMod

LEMMA SameProducts ==
    ASSUME NEW n \in Nat \ {0}, NEW a \in Int, NEW b \in Int,
           NEW c \in Int, NEW d \in Int, Same(a, b, n), Same(c, d, n)
    PROVE  Same(a * c, b * d, n)
<1>1. Same(a * c, b * c, n)
  BY SameProduct
<1>2. Same(c * b, d * b, n)
  BY SameProduct
<1>3. c * b = b * c /\ d * b = b * d
  OBVIOUS
<1>4. a * c \in Int /\ b * c \in Int /\ b * d \in Int
  OBVIOUS
<1> QED BY <1>1, <1>2, <1>3, <1>4, SameTrans

\* Numbers below n that are the same modulo n.
LEMMA SameEqual ==
    ASSUME NEW n \in Nat \ {0}, NEW a \in 0..(n - 1), NEW b \in Int,
           Same(a, b, n)
    PROVE  a = b % n
<1>1. a % n = a
  OBVIOUS
<1> QED BY <1>1, SameMod

-----------------------------------------------------------------------------
\* Induction up to a bound, for a set.
LEMMA UpTo ==
    ASSUME NEW n \in Nat, NEW T, 0 \in T,
           \A k \in 0..(n - 1) : k \in T => k + 1 \in T
    PROVE  \A k \in 0..n : k \in T
<1> DEFINE Missing == {k \in Nat : k <= n /\ k \notin T}
<1> SUFFICES ASSUME Missing # {} PROVE FALSE
  OBVIOUS
<1>1. PICK a \in Missing : \A b \in Missing : a <= b
  <2>1. Missing \in SUBSET Nat
    OBVIOUS
  <2> HIDE DEF Missing
  <2> QED BY <2>1, LeastExists
<1>2. a # 0 /\ a \in Nat /\ a <= n
  OBVIOUS
<1>3. a - 1 \in 0..(n - 1) /\ ~(a - 1 \in Missing)
  BY <1>1, <1>2
<1>4. a - 1 \in T
  BY <1>3
<1> QED BY <1>2, <1>3, <1>4

-----------------------------------------------------------------------------
(* Sums. *)

IsSum(n, f, s) == s = [k \in 0..n |-> IF k = 0 THEN 0 ELSE s[k - 1] + f[k]]

\* The recursive definition has a solution.
LEMMA SumExists ==
    ASSUME NEW f, NEW n \in Nat
    PROVE  \E s : IsSum(n, f, s)
<1> DEFINE T == {k \in Nat : ~ \E s : IsSum(k, f, s)}
<1> SUFFICES ASSUME T # {} PROVE FALSE
  OBVIOUS
<1>1. PICK a \in T : \A b \in T : a <= b
  <2>1. T \in SUBSET Nat
    OBVIOUS
  <2> HIDE DEF T
  <2> QED BY <2>1, LeastExists
<1>2. CASE a = 0
  <2>1. IsSum(0, f, [k \in 0..0 |-> 0])
    BY DEF IsSum
  <2> QED BY <1>2, <2>1
<1>3. CASE a > 0
  <2>1. a - 1 \in Nat /\ ~(a - 1 \in T)
    BY <1>1, <1>3
  <2>2. PICK s : IsSum(a - 1, f, s)
    BY <2>1
  <2> DEFINE w == [k \in 0..a |-> IF k = a THEN s[a - 1] + f[a] ELSE s[k]]
  <2>3. ASSUME NEW k \in 0..a
        PROVE  w[k] = IF k = 0 THEN 0 ELSE w[k - 1] + f[k]
    <3>1. CASE k = a
      BY <1>3, <3>1
    <3>2. CASE k < a
      <4>1. k \in 0..(a - 1)
        BY <3>2
      <4>2. s[k] = IF k = 0 THEN 0 ELSE s[k - 1] + f[k]
        BY <2>2, <4>1 DEF IsSum
      <4>3. w[k] = s[k] /\ (k # 0 => w[k - 1] = s[k - 1])
        BY <3>2
      <4> QED BY <4>2, <4>3
    <3> QED BY <3>1, <3>2
  <2>4. IsSum(a, f, w)
    <3>1. w = [k \in 0..a |-> w[k]]
      OBVIOUS
    <3> HIDE DEF w
    <3>2. [k \in 0..a |-> w[k]]
            = [k \in 0..a |-> IF k = 0 THEN 0 ELSE w[k - 1] + f[k]]
      BY <2>3
    <3> QED BY <3>1, <3>2 DEF IsSum
  <2> QED BY <2>4
<1> QED BY <1>1, <1>2, <1>3

\* All solutions agree.
LEMMA SumUnique ==
    ASSUME NEW f, NEW n \in Nat, NEW m \in 0..n, NEW s, NEW t,
           IsSum(n, f, s), IsSum(m, f, t)
    PROVE  \A k \in 0..m : s[k] = t[k]
<1> DEFINE T == {k \in Nat : k <= m /\ s[k] # t[k]}
<1> SUFFICES ASSUME T # {} PROVE FALSE
  OBVIOUS
<1>1. PICK a \in T : \A b \in T : a <= b
  <2>1. T \in SUBSET Nat
    OBVIOUS
  <2> HIDE DEF T
  <2> QED BY <2>1, LeastExists
<1>2. /\ s[a] = IF a = 0 THEN 0 ELSE s[a - 1] + f[a]
      /\ t[a] = IF a = 0 THEN 0 ELSE t[a - 1] + f[a]
  <2>1. a \in 0..m /\ a \in 0..n
    OBVIOUS
  <2> QED BY <2>1 DEF IsSum
<1>3. a # 0
  BY <1>2
<1>4. a - 1 \in Nat /\ ~(a - 1 \in T)
  BY <1>1, <1>3
<1> QED BY <1>2, <1>3, <1>4

LEMMA SumStep ==
    ASSUME NEW f
    PROVE  /\ SumTo(0, f) = 0
           /\ \A n \in Nat : SumTo(n + 1, f) = SumTo(n, f) + f[n + 1]
<1>1. ASSUME NEW n \in Nat
      PROVE  \E s : IsSum(n, f, s) /\ SumTo(n, f) = s[n]
  <2>1. SumTo(n, f) = (CHOOSE s : IsSum(n, f, s))[n]
    BY DEF SumTo, IsSum
  <2> QED BY <2>1, SumExists
<1>2. SumTo(0, f) = 0
  BY <1>1 DEF IsSum
<1>3. ASSUME NEW n \in Nat
      PROVE  SumTo(n + 1, f) = SumTo(n, f) + f[n + 1]
  <2>1. n + 1 \in Nat /\ n \in 0..(n + 1)
    OBVIOUS
  <2>2. PICK s : IsSum(n + 1, f, s) /\ SumTo(n + 1, f) = s[n + 1]
    BY <1>1, <2>1
  <2>3. PICK t : IsSum(n, f, t) /\ SumTo(n, f) = t[n]
    BY <1>1
  <2>4. s[n] = t[n]
    BY <2>1, <2>2, <2>3, SumUnique
  <2>5. s[n + 1] = s[n] + f[n + 1]
    BY <2>2 DEF IsSum
  <2> QED BY <2>2, <2>3, <2>4, <2>5
<1> QED BY <1>2, <1>3

LEMMA SumInt ==
    ASSUME NEW n \in Nat, NEW f, \A i \in 1..n : f[i] \in Int
    PROVE  SumTo(n, f) \in Int
<1> DEFINE T == {k \in 0..n : SumTo(k, f) \in Int}
<1>1. 0 \in T
  BY SumStep
<1>2. ASSUME NEW k \in 0..(n - 1), k \in T PROVE k + 1 \in T
  <2>1. SumTo(k + 1, f) = SumTo(k, f) + f[k + 1]
    BY SumStep
  <2>2. k + 1 \in 1..n
    OBVIOUS
  <2> QED BY <1>2, <2>1, <2>2
<1>3. \A k \in 0..n : k \in T
  <2> HIDE DEF T
  <2> QED BY <1>1, <1>2, UpTo
<1> QED BY <1>3

IsLinear(m, D, f1, f2, f3, f4, ww, oo) ==
    \A i \in 1..m : /\ f1[i] \in Int /\ f2[i] \in Int
                    /\ f3[i] \in Int /\ f4[i] \in Int
                    /\ D[i] = (f1[i] + f2[i]) + (ww * f3[i] + oo * f4[i])

LEMMA SumLinear ==
    ASSUME NEW m \in Nat, NEW ww \in Int, NEW oo \in Int,
           NEW f1, NEW f2, NEW f3, NEW f4, NEW D,
           IsLinear(m, D, f1, f2, f3, f4, ww, oo)
    PROVE  SumTo(m, D) = (SumTo(m, f1) + SumTo(m, f2))
                           + (ww * SumTo(m, f3) + oo * SumTo(m, f4))
<1> DEFINE Goal(k) == SumTo(k, D) = (SumTo(k, f1) + SumTo(k, f2))
                                      + (ww * SumTo(k, f3) + oo * SumTo(k, f4))
           T == {k \in 0..m : Goal(k)}
<1>0. \A i \in 1..m : /\ f1[i] \in Int /\ f2[i] \in Int
                      /\ f3[i] \in Int /\ f4[i] \in Int
                      /\ D[i] = (f1[i] + f2[i]) + (ww * f3[i] + oo * f4[i])
  BY DEF IsLinear
<1>1. 0 \in T
  <2>1. ww * 0 = 0 /\ oo * 0 = 0
    OBVIOUS
  <2> QED BY <2>1, SumStep
<1>2. ASSUME NEW k \in 0..(m - 1), k \in T PROVE k + 1 \in T
  <2>1. k + 1 \in 1..m /\ k \in Nat
    OBVIOUS
  <2>2. PICK s1 \in Int, s2 \in Int, s3 \in Int, s4 \in Int :
          s1 = SumTo(k, f1) /\ s2 = SumTo(k, f2) /\ s3 = SumTo(k, f3) /\ s4 = SumTo(k, f4)
    <3>1. \A i \in 1..k : f1[i] \in Int /\ f2[i] \in Int /\ f3[i] \in Int /\ f4[i] \in Int
      BY <1>0
    <3> QED BY <2>1, <3>1, SumInt
  <2>3. PICK t1 \in Int, t2 \in Int, t3 \in Int, t4 \in Int :
          t1 = f1[k + 1] /\ t2 = f2[k + 1] /\ t3 = f3[k + 1] /\ t4 = f4[k + 1]
    BY <1>0, <2>1
  <2>4. SumTo(k + 1, D) = ((s1 + s2) + (ww * s3 + oo * s4))
                            + ((t1 + t2) + (ww * t3 + oo * t4))
    BY <1>0, <1>2, <2>1, <2>2, <2>3, SumStep
  <2>5. /\ SumTo(k + 1, f1) = s1 + t1 /\ SumTo(k + 1, f2) = s2 + t2
        /\ SumTo(k + 1, f3) = s3 + t3 /\ SumTo(k + 1, f4) = s4 + t4
    BY <2>1, <2>2, <2>3, SumStep
  <2>6. ((s1 + t1) + (s2 + t2)) + (ww * (s3 + t3) + oo * (s4 + t4))
          = ((s1 + s2) + (ww * s3 + oo * s4)) + ((t1 + t2) + (ww * t3 + oo * t4))
    OBVIOUS
  <2>7. Goal(k + 1)
    BY <2>4, <2>5, <2>6
  <2> HIDE DEF Goal
  <2> QED BY <2>1, <2>7
<1>3. \A k \in 0..m : k \in T
  <2> HIDE DEF T
  <2> QED BY <1>1, <1>2, UpTo
<1> QED BY <1>3


LEMMA SumSame ==
    ASSUME NEW n \in Nat, NEW f, NEW g, NEW m \in Nat \ {0},
           \A i \in 1..n : f[i] \in Int /\ g[i] \in Int /\ Same(f[i], g[i], m)
    PROVE  Same(SumTo(n, f), SumTo(n, g), m)
<1> DEFINE T == {k \in 0..n : Same(SumTo(k, f), SumTo(k, g), m)}
<1>1. 0 \in T
  <2>1. 0 = 0 + m * 0
    OBVIOUS
  <2> QED BY <2>1, SumStep DEF Same
<1>2. ASSUME NEW k \in 0..(n - 1), k \in T PROVE k + 1 \in T
  <2>1. k + 1 \in 1..n /\ k \in Nat
    OBVIOUS
  <2>2. SumTo(k, f) \in Int /\ SumTo(k, g) \in Int
    <3>1. \A i \in 1..k : f[i] \in Int /\ g[i] \in Int
      OBVIOUS
    <3> QED BY <2>1, <3>1, SumInt
  <2>3. Same(SumTo(k, f) + f[k + 1], SumTo(k, g) + g[k + 1], m)
    BY <1>2, <2>1, <2>2, SameSum
  <2> QED BY <2>1, <2>3, SumStep
<1>3. \A k \in 0..n : k \in T
  <2> HIDE DEF T
  <2> QED BY <1>1, <1>2, UpTo
<1> QED BY <1>3

\* g is what follows the first m of f.
Follows(m, n, f, g) == \A i \in 1..n : g[i] = f[m + i]

LEMMA SumConcat ==
    ASSUME NEW m \in Nat, NEW n \in Nat, NEW f, NEW g,
           \A i \in 1..(m + n) : f[i] \in Int, Follows(m, n, f, g)
    PROVE  SumTo(m + n, f) = SumTo(m, f) + SumTo(n, g)
<1> DEFINE T == {k \in 0..n : SumTo(m + k, f) = SumTo(m, f) + SumTo(k, g)}
<1>0. SumTo(m, f) \in Int
  <2>1. \A i \in 1..m : f[i] \in Int
    OBVIOUS
  <2> QED BY <2>1, SumInt
<1>1. 0 \in T
  <2>1. m + 0 = m
    OBVIOUS
  <2> QED BY <1>0, <2>1, SumStep
<1>2. ASSUME NEW k \in 0..(n - 1), k \in T PROVE k + 1 \in T
  <2>1. k + 1 \in 1..n /\ k \in Nat /\ m + k \in Nat /\ m + (k + 1) = (m + k) + 1
    OBVIOUS
  <2>2. g[k + 1] = f[m + (k + 1)] /\ g[k + 1] \in Int
    BY <2>1 DEF Follows
  <2>3. SumTo(k, g) \in Int
    <3>1. \A i \in 1..k : g[i] \in Int
      BY DEF Follows
    <3> QED BY <2>1, <3>1, SumInt
  <2>4. SumTo(m + (k + 1), f) = SumTo(m + k, f) + g[k + 1]
    BY <2>1, <2>2, SumStep
  <2>5. SumTo(k + 1, g) = SumTo(k, g) + g[k + 1]
    BY <2>1, SumStep
  <2> QED BY <1>0, <1>2, <2>2, <2>3, <2>4, <2>5
<1>3. \A k \in 0..n : k \in T
  <2> HIDE DEF T
  <2> QED BY <1>1, <1>2, UpTo
<1> QED BY <1>3

LEMMA SumEqual ==
    ASSUME NEW n \in Nat, NEW f, NEW g, \A i \in 1..n : f[i] = g[i]
    PROVE  SumTo(n, f) = SumTo(n, g)
<1> DEFINE T == {k \in 0..n : SumTo(k, f) = SumTo(k, g)}
<1>1. 0 \in T
  BY SumStep
<1>2. ASSUME NEW k \in 0..(n - 1), k \in T PROVE k + 1 \in T
  <2>1. k + 1 \in 1..n /\ k \in Nat
    OBVIOUS
  <2> QED BY <1>2, <2>1, SumStep
<1>3. \A k \in 0..n : k \in T
  <2> HIDE DEF T
  <2> QED BY <1>1, <1>2, UpTo
<1> QED BY <1>3

\* A sum with at most one term.
LEMMA SumSingle ==
    ASSUME NEW n \in Nat, NEW f, NEW j \in 0..n,
           \A i \in 1..n : f[i] \in Int /\ (i # j => f[i] = 0)
    PROVE  SumTo(n, f) = IF j = 0 THEN 0 ELSE f[j]
<1> DEFINE T == {k \in 0..n : SumTo(k, f) = IF j = 0 \/ k < j THEN 0 ELSE f[j]}
<1>1. 0 \in T
  BY SumStep
<1>2. ASSUME NEW k \in 0..(n - 1), k \in T PROVE k + 1 \in T
  <2>1. SumTo(k + 1, f) = SumTo(k, f) + f[k + 1]
    BY SumStep
  <2>2. PICK a \in Int : a = f[k + 1] /\ (k + 1 # j => a = 0)
    OBVIOUS
  <2>3. CASE j = 0 \/ k < j
    <3>1. SumTo(k + 1, f) = 0 + a
      BY <1>2, <2>1, <2>2, <2>3
    <3>2. CASE k + 1 = j
      BY <2>2, <3>1, <3>2
    <3>3. CASE k + 1 # j
      BY <2>2, <2>3, <3>1, <3>3
    <3> QED BY <3>2, <3>3
  <2>4. CASE j # 0 /\ j <= k
    <3>1. SumTo(k + 1, f) = f[j] + 0 /\ f[j] \in Int
      BY <1>2, <2>1, <2>2, <2>4
    <3> QED BY <2>4, <3>1
  <2> QED BY <2>3, <2>4
<1>3. \A k \in 0..n : k \in T
  <2> HIDE DEF T
  <2> QED BY <1>1, <1>2, UpTo
<1> QED BY <1>3

LEMMA SumSmall ==
    ASSUME NEW f
    PROVE  /\ f[1] \in Int => SumTo(1, f) = f[1]
           /\ f[1] \in Int => SumTo(2, f) = f[1] + f[2]
           /\ f[1] \in Int => SumTo(3, f) = f[1] + f[2] + f[3]
<1>1. SumTo(0 + 1, f) = SumTo(0, f) + f[0 + 1] /\ SumTo(0, f) = 0
  BY SumStep
<1>2. SumTo(1 + 1, f) = SumTo(1, f) + f[1 + 1]
  BY SumStep
<1>3. SumTo(2 + 1, f) = SumTo(2, f) + f[2 + 1]
  BY SumStep
<1>4. 0 + 1 = 1 /\ 1 + 1 = 2 /\ 2 + 1 = 3
  OBVIOUS
<1> QED BY <1>1, <1>2, <1>3, <1>4

-----------------------------------------------------------------------------
(* Powers. *)

IsPower(n, b, s) == s = [k \in 0..n |-> IF k = 0 THEN 1 ELSE b * s[k - 1]]

LEMMA PowerExists ==
    ASSUME NEW b, NEW n \in Nat
    PROVE  \E s : IsPower(n, b, s)
<1> DEFINE T == {k \in 0..n : \E s : IsPower(k, b, s)}
<1>1. 0 \in T
  <2>1. IsPower(0, b, [k \in 0..0 |-> 1])
    BY DEF IsPower
  <2> QED BY <2>1
<1>2. ASSUME NEW a \in 0..(n - 1), a \in T PROVE a + 1 \in T
  <2>1. PICK s : IsPower(a, b, s)
    BY <1>2
  <2>2. PICK d \in Nat : d = a + 1
    OBVIOUS
  <2> DEFINE w == [k \in 0..d |-> IF k = d THEN b * s[a] ELSE s[k]]
  <2>3. ASSUME NEW k \in 0..d
        PROVE  w[k] = IF k = 0 THEN 1 ELSE b * w[k - 1]
    <3>1. CASE k = d
      BY <2>2, <3>1
    <3>2. CASE k # d
      <4>1. k \in 0..a
        BY <2>2, <3>2
      <4>2. s[k] = IF k = 0 THEN 1 ELSE b * s[k - 1]
        BY <2>1, <4>1 DEF IsPower
      <4>3. w[k] = s[k] /\ (k # 0 => w[k - 1] = s[k - 1])
        BY <2>2, <3>2, <4>1
      <4> QED BY <4>2, <4>3
    <3> QED BY <3>1, <3>2
  <2>4. w = [k \in 0..d |-> w[k]]
    OBVIOUS
  <2> HIDE DEF w
  <2>5. [k \in 0..d |-> w[k]] = [k \in 0..d |-> IF k = 0 THEN 1 ELSE b * w[k - 1]]
    BY <2>3
  <2>6. IsPower(d, b, w)
    BY <2>4, <2>5 DEF IsPower
  <2> QED BY <2>2, <2>6
<1>3. \A k \in 0..n : k \in T
  <2> HIDE DEF T
  <2> QED BY <1>1, <1>2, UpTo
<1> QED BY <1>3

LEMMA PowerNat ==
    ASSUME NEW n \in Nat, NEW b \in Nat \ {0}
    PROVE  Power(b, n) \in Nat \ {0}
<1>1. PICK s : IsPower(n, b, s) /\ Power(b, n) = s[n]
  <2>1. Power(b, n) = (CHOOSE s : IsPower(n, b, s))[n]
    BY DEF Power, IsPower
  <2> QED BY <2>1, PowerExists
<1> DEFINE T == {k \in 0..n : s[k] \in Nat \ {0}}
<1>2. 0 \in T
  BY <1>1 DEF IsPower
<1>3. ASSUME NEW k \in 0..(n - 1), k \in T PROVE k + 1 \in T
  <2>1. s[k + 1] = b * s[k]
    BY <1>1 DEF IsPower
  <2>2. PICK t \in Nat \ {0} : t = s[k]
    BY <1>3
  <2>3. b * t \in Nat \ {0}
    OBVIOUS
  <2> QED BY <2>1, <2>2, <2>3
<1>4. \A k \in 0..n : k \in T
  <2> HIDE DEF T
  <2> QED BY <1>2, <1>3, UpTo
<1> QED BY <1>1, <1>4

LEMMA PowerStep ==
    ASSUME NEW b
    PROVE  Power(b, 0) = 1 /\ \A n \in Nat : Power(b, n + 1) = b * Power(b, n)
<1>1. ASSUME NEW n \in Nat
      PROVE  \E s : IsPower(n, b, s) /\ Power(b, n) = s[n]
  <2>1. Power(b, n) = (CHOOSE s : IsPower(n, b, s))[n]
    BY DEF Power, IsPower
  <2> QED BY <2>1, PowerExists
<1>2. Power(b, 0) = 1
  <2>1. PICK n \in Nat : n = 0
    OBVIOUS
  <2>2. PICK s : IsPower(n, b, s) /\ Power(b, n) = s[n]
    BY <1>1
  <2> QED BY <2>1, <2>2 DEF IsPower
<1>3. ASSUME NEW n \in Nat
      PROVE  Power(b, n + 1) = b * Power(b, n)
  <2>1. PICK s : IsPower(n, b, s) /\ Power(b, n) = s[n]
    BY <1>1
  <2>2. PICK d \in Nat : d = n + 1
    OBVIOUS
  <2>3. PICK w : IsPower(d, b, w) /\ Power(b, d) = w[d]
    BY <1>1
  <2> DEFINE T == {k \in 0..n : s[k] = w[k]}
  <2>4. 0 \in T
    BY <2>1, <2>2, <2>3 DEF IsPower
  <2>5. ASSUME NEW k \in 0..(n - 1), k \in T PROVE k + 1 \in T
    <3>1. s[k + 1] = b * s[k]
      BY <2>1 DEF IsPower
    <3>2. w[k + 1] = b * w[k]
      BY <2>2, <2>3 DEF IsPower
    <3> QED BY <2>5, <3>1, <3>2
  <2>6. \A k \in 0..n : k \in T
    <3> HIDE DEF T
    <3> QED BY <2>4, <2>5, UpTo
  <2>7. s[n] = w[n]
    BY <2>6
  <2>8. w[d] = b * w[n]
    BY <2>2, <2>3 DEF IsPower
  <2> QED BY <2>1, <2>2, <2>3, <2>7, <2>8
<1> QED BY <1>2, <1>3

\* What is defined by recursion up to n exists.
Recursive(n, S, b, F) == b \in S /\ F \in [1..n -> [S -> S]]
Follow(n, S, b, F, p) ==
    p \in [0..n -> S] /\ p[0] = b /\ \A k \in 1..n : p[k] = F[k][p[k - 1]]

LEMMA Recursion ==
    ASSUME NEW n \in Nat, NEW S, NEW b, NEW F, Recursive(n, S, b, F)
    PROVE  \E p : Follow(n, S, b, F, p)
<1> DEFINE Solves(i, p) == p[0] = b /\ \A k \in 1..i : p[k] = F[k][p[k - 1]]
           T == {i \in 0..n : \E p \in [0..i -> S] : Solves(i, p)}
<1>0. b \in S /\ F \in [1..n -> [S -> S]]
  BY DEF Recursive
<1>1. 0 \in T
  <2> DEFINE p == [k \in 0..0 |-> b]
  <2>1. p \in [0..0 -> S] /\ p[0] = b /\ 1..0 = {}
    BY <1>0
  <2> HIDE DEF p
  <2>2. Solves(0, p)
    BY <2>1
  <2> QED BY <2>1, <2>2
<1>2. ASSUME NEW i \in 0..(n - 1), i \in T PROVE i + 1 \in T
  <2>1. PICK p \in [0..i -> S] : Solves(i, p)
    BY <1>2
  <2>2. PICK d \in 1..n : d = i + 1
    OBVIOUS
  <2>3. i \in 0..i /\ p[i] \in S /\ F[d] \in [S -> S]
    BY <1>0
  <2>4. PICK v \in S : v = F[d][p[i]]
    BY <2>3
  <2> DEFINE w == [k \in 0..d |-> IF k = d THEN v ELSE p[k]]
  <2>5. w \in [0..d -> S]
    BY <2>2
  <2>6. w[0] = b
    BY <2>1, <2>2
  <2>7. ASSUME NEW k \in 1..d PROVE w[k] = F[k][w[k - 1]]
    <3>1. CASE k = d
      BY <2>2, <2>4, <3>1
    <3>2. CASE k # d
      <4>1. k \in 1..i /\ k - 1 \in 0..d /\ k - 1 # d /\ k \in 0..d
        BY <2>2, <3>2
      <4>2. p[k] = F[k][p[k - 1]]
        BY <2>1, <4>1
      <4> QED BY <3>2, <4>1, <4>2
    <3> QED BY <3>1, <3>2
  <2> HIDE DEF w
  <2>8. Solves(d, w)
    BY <2>6, <2>7, Zenon
  <2> HIDE DEF Solves
  <2>9. d \in T
    BY <2>2, <2>5, <2>8
  <2> QED BY <2>2, <2>9
<1>3. n \in T
  <2>1. n \in 0..n
    OBVIOUS
  <2> HIDE DEF T
  <2> QED BY <1>1, <1>2, <2>1, UpTo
<1>4. PICK p \in [0..n -> S] : Solves(n, p)
  BY <1>3
<1>5. Follow(n, S, b, F, p)
  BY <1>4 DEF Follow
<1> QED BY <1>5

\* And what is defined from n downwards.
RecursiveDown(n, S, b, F) == b \in S /\ F \in [0..(n - 1) -> [S -> S]]
FollowDown(n, S, b, F, p) ==
    p \in [0..n -> S] /\ p[n] = b /\ \A k \in 0..(n - 1) : p[k] = F[k][p[k + 1]]

LEMMA RecursionDown ==
    ASSUME NEW n \in Nat, NEW S, NEW b, NEW F, RecursiveDown(n, S, b, F)
    PROVE  \E p : FollowDown(n, S, b, F, p)
<1> DEFINE H == [j \in 1..n |-> F[n - j]]
<1>1. Recursive(n, S, b, H)
  <2>1. \A j \in 1..n : n - j \in 0..(n - 1)
    OBVIOUS
  <2> QED BY <2>1 DEF Recursive, RecursiveDown
<1>2. \A j \in 1..n : H[j] = F[n - j]
  OBVIOUS
<1> HIDE DEF H
<1>3. PICK w : Follow(n, S, b, H, w)
  BY <1>1, Recursion
<1> DEFINE v == [j \in 0..n |-> w[n - j]]
<1>4. v \in [0..n -> S] /\ v[n] = b
  BY <1>3 DEF Follow
<1>5. ASSUME NEW j \in 0..(n - 1)
      PROVE  v[j] = F[j][v[j + 1]]
  <2>1. PICK d \in 1..n : d = n - j
    OBVIOUS
  <2>2. w[d] = H[d][w[d - 1]]
    BY <1>3 DEF Follow
  <2>3. n - d = j /\ v[j] = w[d] /\ v[j + 1] = w[d - 1]
    BY <2>1
  <2> HIDE DEF v
  <2> QED BY <1>2, <2>2, <2>3
<1> HIDE DEF v
<1>6. FollowDown(n, S, b, F, v)
  BY <1>4, <1>5 DEF FollowDown
<1> QED BY <1>6

\* f[i] is the step from g[i - 1] to g[i].
Steps(n, f, g) ==
    g[0] \in Int /\ \A i \in 1..n : g[i] \in Int /\ f[i] = g[i] - g[i - 1]

LEMMA Telescope ==
    ASSUME NEW n \in Nat, NEW f, NEW g, Steps(n, f, g)
    PROVE  SumTo(n, f) = g[n] - g[0]
<1> DEFINE T == {k \in 0..n : SumTo(k, f) = g[k] - g[0]}
<1>0. \A k \in 0..n : g[k] \in Int
  BY DEF Steps
<1>1. 0 \in T
  BY <1>0, SumStep
<1>2. ASSUME NEW k \in 0..(n - 1), k \in T PROVE k + 1 \in T
  <2>1. k + 1 \in 1..n /\ k \in Nat /\ (k + 1) - 1 = k
    OBVIOUS
  <2>2. f[k + 1] = g[k + 1] - g[k]
    BY <2>1 DEF Steps
  <2>3. SumTo(k + 1, f) = SumTo(k, f) + f[k + 1]
    BY <2>1, SumStep
  <2>4. g[k] \in Int /\ g[k + 1] \in Int /\ g[0] \in Int
    BY <1>0
  <2> QED BY <1>2, <2>2, <2>3, <2>4
<1>3. n \in 0..n
  OBVIOUS
<1> HIDE DEF T
<1>4. n \in T
  BY <1>1, <1>2, <1>3, UpTo
<1> QED BY <1>4 DEF T

\* f is w times g plus o times h, term by term.
Combines(n, f, w, g, o, h) ==
    \A i \in 1..n : g[i] \in Int /\ h[i] \in Int /\ f[i] = w * g[i] + o * h[i]

LEMMA SumCombine ==
    ASSUME NEW n \in Nat, NEW f, NEW g, NEW h, NEW w \in Int, NEW o \in Int,
           Combines(n, f, w, g, o, h)
    PROVE  SumTo(n, f) = w * SumTo(n, g) + o * SumTo(n, h)
<1> DEFINE zero == [i \in 1..n |-> 0]
<1>1. IsLinear(n, f, zero, zero, g, h, w, o)
  <2>1. ASSUME NEW i \in 1..n
        PROVE  zero[i] \in Int /\ g[i] \in Int /\ h[i] \in Int
               /\ f[i] = (zero[i] + zero[i]) + (w * g[i] + o * h[i])
    <3>1. PICK s \in Int, t \in Int : s = w * g[i] /\ t = o * h[i]
      BY DEF Combines
    <3>2. zero[i] = 0 /\ f[i] = s + t
      BY <3>1 DEF Combines
    <3>3. (0 + 0) + (s + t) = s + t
      OBVIOUS
    <3>4. g[i] \in Int /\ h[i] \in Int
      BY DEF Combines
    <3> QED BY <3>1, <3>2, <3>3, <3>4
  <2> QED BY <2>1 DEF IsLinear
<1>2. SumTo(n, zero) = 0
  <2>1. \A i \in 1..n : zero[i] \in Int /\ (i # 0 => zero[i] = 0)
    OBVIOUS
  <2>2. 0 \in 0..n
    OBVIOUS
  <2> HIDE DEF zero
  <2> QED BY <2>1, <2>2, SumSingle
<1>3. SumTo(n, g) \in Int /\ SumTo(n, h) \in Int
  <2>1. \A i \in 1..n : g[i] \in Int /\ h[i] \in Int
    BY DEF Combines
  <2> QED BY <2>1, SumInt
<1> HIDE DEF zero
<1>4. SumTo(n, f) = (SumTo(n, zero) + SumTo(n, zero)) + (w * SumTo(n, g) + o * SumTo(n, h))
  BY <1>1, SumLinear
<1>5. PICK s \in Int, t \in Int : s = w * SumTo(n, g) /\ t = o * SumTo(n, h)
  BY <1>3
<1>6. (0 + 0) + (s + t) = s + t
  OBVIOUS
<1> QED BY <1>2, <1>4, <1>5, <1>6

LEMMA PowerInt ==
    ASSUME NEW b \in Int, NEW n \in Nat
    PROVE  Power(b, n) \in Int
<1> DEFINE T == {k \in 0..n : Power(b, k) \in Int}
<1>1. 0 \in T
  BY PowerStep
<1>2. ASSUME NEW k \in 0..(n - 1), k \in T PROVE k + 1 \in T
  <2>1. Power(b, k + 1) = b * Power(b, k) /\ k \in Nat
    BY PowerStep
  <2>2. PICK p \in Int : p = Power(b, k)
    BY <1>2
  <2>3. b * p \in Int
    OBVIOUS
  <2> QED BY <2>1, <2>2, <2>3
<1>3. n \in 0..n
  OBVIOUS
<1> HIDE DEF T
<1>4. n \in T
  BY <1>1, <1>2, <1>3, UpTo
<1> QED BY <1>4 DEF T

-----------------------------------------------------------------------------
(* Polynomials: the coefficient of X^k is at position k + 1.  E and F are   *)
(* the coefficients of n factors E[j] X + F[j].                            *)

Polynomial == [Int -> Int]
One == [k \in Int |-> IF k = 1 THEN 1 ELSE 0]
Factor(e, b, c) == [k \in Int |-> b * c[k] + e * c[k - 1]]

LEMMA FactorIs ==
    ASSUME NEW e \in Int, NEW b \in Int, NEW c \in Polynomial
    PROVE  /\ Factor(e, b, c) \in Polynomial
           /\ \A k \in Int : /\ Factor(e, b, c)[k] = b * c[k] + e * c[k - 1]
                             /\ c[k] \in Int /\ c[k - 1] \in Int
<1>1. \A k \in Int : c[k] \in Int /\ c[k - 1] \in Int
  BY DEF Polynomial
<1>2. \A k \in Int : b * c[k] + e * c[k - 1] \in Int
  BY <1>1
<1> QED BY <1>1, <1>2 DEF Factor, Polynomial

LEMMA FactorsCommute ==
    ASSUME NEW e \in Int, NEW b \in Int, NEW f \in Int, NEW d \in Int,
           NEW c \in Polynomial
    PROVE  Factor(e, b, Factor(f, d, c)) = Factor(f, d, Factor(e, b, c))
<1>1. /\ Factor(f, d, c) \in Polynomial
      /\ Factor(e, b, c) \in Polynomial
      /\ Factor(e, b, Factor(f, d, c)) \in Polynomial
      /\ Factor(f, d, Factor(e, b, c)) \in Polynomial
  BY FactorIs
<1>2. ASSUME NEW k \in Int
      PROVE  Factor(e, b, Factor(f, d, c))[k] = Factor(f, d, Factor(e, b, c))[k]
  <2>1. PICK s \in Int, t \in Int, w \in Int :
          s = c[k] /\ t = c[k - 1] /\ w = c[(k - 1) - 1]
    BY DEF Polynomial
  <2>2. k - 1 \in Int
    OBVIOUS
  <2>3. /\ Factor(f, d, c)[k] = d * s + f * t
        /\ Factor(f, d, c)[k - 1] = d * t + f * w
        /\ Factor(e, b, c)[k] = b * s + e * t
        /\ Factor(e, b, c)[k - 1] = b * t + e * w
    BY <2>1, <2>2, FactorIs
  <2>4. /\ Factor(e, b, Factor(f, d, c))[k] = b * (d * s + f * t) + e * (d * t + f * w)
        /\ Factor(f, d, Factor(e, b, c))[k] = d * (b * s + e * t) + f * (b * t + e * w)
    BY <1>1, <2>3, FactorIs
  <2>5. b * (d * s + f * t) + e * (d * t + f * w)
          = d * (b * s + e * t) + f * (b * t + e * w)
    OBVIOUS
  <2> QED BY <2>4, <2>5
<1>3. PICK p \in [Int -> Int], q \in [Int -> Int] :
        p = Factor(e, b, Factor(f, d, c)) /\ q = Factor(f, d, Factor(e, b, c))
  BY <1>1 DEF Polynomial
<1>4. \A k \in Int : p[k] = q[k]
  BY <1>2, <1>3
<1>5. p = q
  BY <1>4
<1> QED BY <1>3, <1>5

\* c times the factors from the first one on, and the product of the factors
\* from j on.
Coefficients(n) == [0..(n - 1) -> Int]
IsUp(n, E, F, c, w) ==
    /\ w \in [0..n -> Polynomial] /\ w[0] = c
    /\ \A j \in 0..(n - 1) : w[j + 1] = Factor(E[j], F[j], w[j])
IsDown(n, E, F, w) ==
    /\ w \in [0..n -> Polynomial] /\ w[n] = One
    /\ \A j \in 0..(n - 1) : w[j] = Factor(E[j], F[j], w[j + 1])
Up(n, E, F, c) == CHOOSE w : IsUp(n, E, F, c, w)
Down(n, E, F) == CHOOSE w : IsDown(n, E, F, w)

LEMMA UpIs ==
    ASSUME NEW n \in Nat, NEW E \in Coefficients(n), NEW F \in Coefficients(n),
           NEW c \in Polynomial
    PROVE  IsUp(n, E, F, c, Up(n, E, F, c))
<1> DEFINE S == [j \in 1..n |-> [p \in Polynomial |-> Factor(E[j - 1], F[j - 1], p)]]
<1>1. \A j \in 1..n : \A p \in Polynomial : Factor(E[j - 1], F[j - 1], p) \in Polynomial
  <2>1. \A j \in 1..n : E[j - 1] \in Int /\ F[j - 1] \in Int
    BY DEF Coefficients
  <2> QED BY <2>1, FactorIs
<1>2. Recursive(n, Polynomial, c, S)
  BY <1>1 DEF Recursive
<1>3. \A j \in 1..n : \A p \in Polynomial : S[j][p] = Factor(E[j - 1], F[j - 1], p)
  OBVIOUS
<1> HIDE DEF S
<1>4. PICK w : Follow(n, Polynomial, c, S, w)
  BY <1>2, Recursion
<1>5. ASSUME NEW j \in 0..(n - 1)
      PROVE  w[j + 1] = Factor(E[j], F[j], w[j])
  <2>1. PICK d \in 1..n : d = j + 1
    OBVIOUS
  <2>2. d - 1 = j
    BY <2>1
  <2>3. w[d] = S[d][w[d - 1]] /\ w[d - 1] \in Polynomial
    BY <1>4, <2>2 DEF Follow
  <2> QED BY <1>3, <2>1, <2>2, <2>3
<1>6. IsUp(n, E, F, c, w)
  BY <1>4, <1>5 DEF Follow, IsUp
<1> QED BY <1>6 DEF Up

LEMMA DownIs ==
    ASSUME NEW n \in Nat, NEW E \in Coefficients(n), NEW F \in Coefficients(n)
    PROVE  IsDown(n, E, F, Down(n, E, F))
<1> DEFINE S == [j \in 1..n |-> [p \in Polynomial |-> Factor(E[n - j], F[n - j], p)]]
<1>1. \A j \in 1..n : \A p \in Polynomial : Factor(E[n - j], F[n - j], p) \in Polynomial
  <2>1. \A j \in 1..n : E[n - j] \in Int /\ F[n - j] \in Int
    BY DEF Coefficients
  <2> QED BY <2>1, FactorIs
<1>2. Recursive(n, Polynomial, One, S)
  <2>1. One \in Polynomial
    BY DEF One, Polynomial
  <2> QED BY <1>1, <2>1 DEF Recursive
<1>3. \A j \in 1..n : \A p \in Polynomial : S[j][p] = Factor(E[n - j], F[n - j], p)
  OBVIOUS
<1> HIDE DEF S
<1>4. PICK w : Follow(n, Polynomial, One, S, w)
  BY <1>2, Recursion
<1> DEFINE v == [j \in 0..n |-> w[n - j]]
<1>5. v \in [0..n -> Polynomial]
  BY <1>4 DEF Follow
<1>6. v[n] = One
  BY <1>4 DEF Follow
<1>7. ASSUME NEW j \in 0..(n - 1)
      PROVE  v[j] = Factor(E[j], F[j], v[j + 1])
  <2>1. PICK d \in 1..n : d = n - j
    OBVIOUS
  <2>2. w[d] = S[d][w[d - 1]] /\ w[d - 1] \in Polynomial
    BY <1>4 DEF Follow
  <2>3. n - d = j /\ v[j] = w[d] /\ v[j + 1] = w[d - 1]
    BY <2>1
  <2>4. S[d][w[d - 1]] = Factor(E[n - d], F[n - d], w[d - 1])
    BY <1>3, <2>2
  <2> QED BY <2>2, <2>3, <2>4
<1> HIDE DEF v
<1>8. IsDown(n, E, F, v)
  BY <1>5, <1>6, <1>7 DEF IsDown
<1> QED BY <1>8 DEF Down

\* A further factor may as well come first.
LEMMA UpFactor ==
    ASSUME NEW n \in Nat, NEW E \in Coefficients(n), NEW F \in Coefficients(n),
           NEW c \in Polynomial, NEW e \in Int, NEW b \in Int, NEW j \in 0..n
    PROVE  Up(n, E, F, Factor(e, b, c))[j] = Factor(e, b, Up(n, E, F, c)[j])
<1> DEFINE v == Up(n, E, F, c)
           w == Up(n, E, F, Factor(e, b, c))
           T == {k \in 0..n : w[k] = Factor(e, b, v[k])}
<1>1. IsUp(n, E, F, c, v) /\ IsUp(n, E, F, Factor(e, b, c), w)
  BY FactorIs, UpIs
<1> HIDE DEF v, w
<1>2. 0 \in T
  BY <1>1 DEF IsUp
<1>3. ASSUME NEW k \in 0..(n - 1), k \in T PROVE k + 1 \in T
  <2>1. E[k] \in Int /\ F[k] \in Int /\ v[k] \in Polynomial
    BY <1>1 DEF Coefficients, IsUp
  <2>2. v[k + 1] = Factor(E[k], F[k], v[k]) /\ w[k + 1] = Factor(E[k], F[k], w[k])
    BY <1>1 DEF IsUp
  <2>3. Factor(E[k], F[k], Factor(e, b, v[k])) = Factor(e, b, Factor(E[k], F[k], v[k]))
    BY <2>1, FactorsCommute
  <2> QED BY <1>3, <2>2, <2>3
<1> HIDE DEF T
<1>4. j \in T
  BY <1>2, <1>3, UpTo
<1> QED BY <1>4 DEF T, v, w

\* The product is the same from either end.
LEMMA UpDown ==
    ASSUME NEW n \in Nat, NEW E \in Coefficients(n), NEW F \in Coefficients(n)
    PROVE  Up(n, E, F, One)[n] = Down(n, E, F)[0]
<1> DEFINE W == Down(n, E, F)
           R(i) == Up(n, E, F, W[i])
           T == {k \in 0..n : R(n - k)[n - k] = R(n)[n]}
<1>1. IsDown(n, E, F, W)
  BY DownIs
<1>2. \A i \in 0..n : W[i] \in Polynomial
  BY <1>1 DEF IsDown
<1> HIDE DEF W
<1>3. \A i \in 0..n : IsUp(n, E, F, W[i], R(i))
  BY <1>2, UpIs
<1>4. 0 \in T
  <2>1. n - 0 = n
    OBVIOUS
  <2> QED BY <2>1
<1>5. ASSUME NEW k \in 0..(n - 1), k \in T PROVE k + 1 \in T
  <2>1. PICK d \in 0..(n - 1) : d = n - (k + 1)
    OBVIOUS
  <2>2. d + 1 = n - k /\ d + 1 \in 0..n /\ E[d] \in Int /\ F[d] \in Int /\ d \in 0..n
    BY <2>1 DEF Coefficients
  <2>3. W[d + 1] \in Polynomial /\ W[d] = Factor(E[d], F[d], W[d + 1])
    BY <1>1, <1>2, <2>2 DEF IsDown
  <2>4. R(d)[d] = Factor(E[d], F[d], R(d + 1)[d])
    BY <2>2, <2>3, UpFactor
  <2>5. IsUp(n, E, F, W[d + 1], R(d + 1))
    BY <1>3, <2>2
  <2> HIDE DEF R
  <2>6. R(d + 1)[d + 1] = Factor(E[d], F[d], R(d + 1)[d])
    BY <2>5 DEF IsUp
  <2>7. R(d + 1)[d + 1] = R(n)[n]
    BY <1>5, <2>2
  <2>8. R(n - (k + 1))[n - (k + 1)] = R(n)[n]
    BY <2>1, <2>4, <2>6, <2>7
  <2> QED BY <2>8
<1>6. n \in 0..n /\ n - n = 0
  OBVIOUS
<1> HIDE DEF T
<1>7. n \in T
  BY <1>4, <1>5, <1>6, UpTo
<1>8. R(0)[0] = R(n)[n]
  BY <1>6, <1>7 DEF T
<1>9. R(0)[0] = W[0] /\ W[n] = One
  <2>1. IsUp(n, E, F, W[0], R(0))
    BY <1>3
  <2> HIDE DEF R
  <2> QED BY <1>1, <2>1 DEF IsUp, IsDown
<1> QED BY <1>8, <1>9 DEF W

\* It depends on the factors it has.
LEMMA DownSame ==
    ASSUME NEW n \in Nat, NEW E \in Coefficients(n), NEW F \in Coefficients(n),
           NEW C \in Coefficients(n), NEW D \in Coefficients(n), NEW t \in 0..n,
           \A j \in t..(n - 1) : E[j] = C[j] /\ F[j] = D[j]
    PROVE  Down(n, E, F)[t] = Down(n, C, D)[t]
<1> DEFINE v == Down(n, E, F)
           w == Down(n, C, D)
           T == {k \in 0..(n - t) : v[n - k] = w[n - k]}
<1>0. IsDown(n, E, F, v) /\ IsDown(n, C, D, w)
  BY DownIs
<1> HIDE DEF v, w
<1>1. 0 \in T
  <2>1. n - 0 = n
    OBVIOUS
  <2> QED BY <1>0, <2>1 DEF IsDown
<1>2. ASSUME NEW k \in 0..((n - t) - 1), k \in T PROVE k + 1 \in T
  <2>1. PICK d \in t..(n - 1) : d = n - (k + 1)
    OBVIOUS
  <2>2. d \in 0..(n - 1) /\ d + 1 = n - k
    BY <2>1
  <2>3. v[d] = Factor(E[d], F[d], v[d + 1]) /\ w[d] = Factor(C[d], D[d], w[d + 1])
    BY <1>0, <2>2 DEF IsDown
  <2> QED BY <1>2, <2>1, <2>2, <2>3
<1>3. PICK b \in Nat : b = n - t
  OBVIOUS
<1>4. b \in 0..b /\ n - b = t
  BY <1>3
<1>5. /\ 0 \in T /\ \A k \in 0..(b - 1) : k \in T => k + 1 \in T
  BY <1>1, <1>2, <1>3
<1> HIDE DEF T
<1>6. b \in T
  BY <1>4, <1>5, UpTo
<1> QED BY <1>4, <1>6 DEF T, v, w

\* Its degree.
LEMMA DownDegree ==
    ASSUME NEW n \in Nat, NEW E \in Coefficients(n), NEW F \in Coefficients(n),
           NEW j \in 0..n
    PROVE  \A k \in Int : k < 1 \/ k > n - j + 1 => Down(n, E, F)[j][k] = 0
<1> DEFINE w == Down(n, E, F)
           T == {i \in 0..n : \A k \in Int : k < 1 \/ k > i + 1 => w[n - i][k] = 0}
<1>0. IsDown(n, E, F, w)
  BY DownIs
<1> HIDE DEF w
<1>1. 0 \in T
  <2>1. n - 0 = n /\ w[n] = One
    BY <1>0 DEF IsDown
  <2> QED BY <2>1 DEF One
<1>2. ASSUME NEW i \in 0..(n - 1), i \in T PROVE i + 1 \in T
  <2>1. PICK d \in 0..(n - 1) : d = n - (i + 1)
    OBVIOUS
  <2>2. d + 1 = n - i /\ E[d] \in Int /\ F[d] \in Int /\ d + 1 \in 0..n
    BY <2>1 DEF Coefficients
  <2>3. PICK p \in Polynomial : p = w[d + 1]
    BY <1>0, <2>2 DEF IsDown
  <2>4. w[d] = Factor(E[d], F[d], p)
    BY <1>0, <2>3 DEF IsDown
  <2>5. \A k \in Int : k < 1 \/ k > i + 1 => p[k] = 0
    BY <1>2, <2>2, <2>3
  <2>6. ASSUME NEW k \in Int, k < 1 \/ k > (i + 1) + 1
        PROVE  w[d][k] = 0
    <3>1. p[k] = 0 /\ p[k - 1] = 0
      BY <2>5, <2>6
    <3>2. PICK e \in Int, b \in Int : e = E[d] /\ b = F[d]
      BY <2>2
    <3>3. Factor(e, b, p)[k] = b * 0 + e * 0
      BY <3>1 DEF Factor
    <3>4. b * 0 + e * 0 = 0
      OBVIOUS
    <3> QED BY <2>4, <3>2, <3>3, <3>4
  <2> QED BY <2>1, <2>6
<1>3. PICK i \in 0..n : i = n - j
  OBVIOUS
<1> HIDE DEF T
<1>4. i \in T
  BY <1>1, <1>2, UpTo
<1>5. n - i = j
  BY <1>3
<1> QED BY <1>3, <1>4, <1>5 DEF T, w

\* The value at x of the first L coefficients.
Terms(c, x) == [k \in Nat |-> c[k] * Power(x, k - 1)]
ValueOf(L, c, x) == SumTo(L, Terms(c, x))

LEMMA TermIs ==
    ASSUME NEW c \in Polynomial, NEW x \in Int, NEW k \in Nat, k # 0
    PROVE  /\ Terms(c, x)[k] = c[k] * Power(x, k - 1)
           /\ Terms(c, x)[k] \in Int /\ Power(x, k - 1) \in Int /\ c[k] \in Int
<1>1. k - 1 \in Nat
  OBVIOUS
<1>2. PICK p \in Int, q \in Int : p = Power(x, k - 1) /\ q = c[k]
  BY <1>1, PowerInt DEF Polynomial
<1>3. Terms(c, x)[k] = q * p
  BY <1>2 DEF Terms
<1>4. q * p \in Int
  OBVIOUS
<1> QED BY <1>2, <1>3, <1>4

LEMMA ValueStep ==
    ASSUME NEW c \in Polynomial, NEW x \in Int, NEW L \in Nat
    PROVE  /\ ValueOf(0, c, x) = 0
           /\ ValueOf(L, c, x) \in Int
           /\ ValueOf(L + 1, c, x) = ValueOf(L, c, x) + c[L + 1] * Power(x, L)
<1>1. ValueOf(0, c, x) = 0
  BY SumStep DEF ValueOf
<1>2. ValueOf(L, c, x) \in Int
  <2>1. \A k \in 1..L : Terms(c, x)[k] \in Int
    BY TermIs
  <2> QED BY <2>1, SumInt DEF ValueOf
<1>3. ValueOf(L + 1, c, x) = ValueOf(L, c, x) + Terms(c, x)[L + 1]
  BY SumStep DEF ValueOf
<1>4. PICK d \in Nat : d = L + 1
  OBVIOUS
<1>5. d # 0 /\ d - 1 = L
  BY <1>4
<1>6. Terms(c, x)[d] = c[d] * Power(x, L)
  BY <1>5, TermIs
<1> QED BY <1>1, <1>2, <1>3, <1>4, <1>6

\* A factor multiplies the value.
LEMMA ValueFactor ==
    ASSUME NEW L \in Nat, NEW c \in Polynomial, NEW e \in Int, NEW b \in Int,
           NEW x \in Int, c[0] = 0, c[L + 1] = 0
    PROVE  ValueOf(L + 1, Factor(e, b, c), x) = (e * x + b) * ValueOf(L, c, x)
<1> DEFINE d == Factor(e, b, c)
           V(k) == ValueOf(k, c, x)
           S(k) == ValueOf(k, d, x)
           Goal(k) == S(k) + e * (c[k] * Power(x, k)) = (e * x + b) * V(k)
           T == {k \in 0..(L + 1) : Goal(k)}
<1>0. d \in Polynomial /\ \A k \in Int : d[k] = b * c[k] + e * c[k - 1]
  BY FactorIs
<1> HIDE DEF d
<1>1. 0 \in T
  <2>1. V(0) = 0 /\ S(0) = 0 /\ Power(x, 0) = 1
    BY <1>0, ValueStep, PowerStep
  <2>2. 0 + e * (0 * 1) = (e * x + b) * 0
    OBVIOUS
  <2>3. Goal(0)
    BY <2>1, <2>2
  <2> HIDE DEF Goal
  <2> QED BY <2>3
<1>2. ASSUME NEW k \in 0..L, k \in T PROVE k + 1 \in T
  <2>1. PICK p \in Int, v \in Int, s \in Int, f \in Int, g \in Int :
          p = Power(x, k) /\ v = V(k) /\ s = S(k) /\ f = c[k] /\ g = c[k + 1]
    <3>1. k \in Nat /\ k \in Int /\ k + 1 \in Int
      OBVIOUS
    <3> QED BY <1>0, <3>1, PowerInt, ValueStep DEF Polynomial
  <2>2. V(k + 1) = v + g * p
    BY <1>0, <2>1, ValueStep
  <2>3. S(k + 1) = s + (b * g + e * f) * p
    <3>1. d[k + 1] = b * g + e * f
      <4>1. k + 1 \in Int /\ (k + 1) - 1 = k
        OBVIOUS
      <4> QED BY <1>0, <2>1, <4>1
    <3> QED BY <1>0, <2>1, <3>1, ValueStep
  <2>4. Power(x, k + 1) = x * p
    <3>1. k \in Nat
      OBVIOUS
    <3> QED BY <2>1, <3>1, PowerStep
  <2>5. s + e * (f * p) = (e * x + b) * v
    BY <1>2, <2>1
  <2>6. (s + (b * g + e * f) * p) + e * (g * (x * p))
          = (s + e * (f * p)) + (e * x + b) * (g * p)
    OBVIOUS
  <2>7. (e * x + b) * v + (e * x + b) * (g * p) = (e * x + b) * (v + g * p)
    OBVIOUS
  <2>8. Goal(k + 1)
    BY <2>1, <2>2, <2>3, <2>4, <2>5, <2>6, <2>7
  <2> HIDE DEF Goal
  <2>9. k + 1 \in 0..(L + 1)
    OBVIOUS
  <2> QED BY <2>8, <2>9
<1>3. PICK M \in Nat : M = L + 1
  OBVIOUS
<1>4. M \in 0..M /\ M - 1 = L
  BY <1>3
<1> HIDE DEF Goal
<1>5. 0 \in T /\ \A k \in 0..(M - 1) : k \in T => k + 1 \in T
  BY <1>1, <1>2, <1>4
<1> HIDE DEF T
<1>6. M \in T
  BY <1>4, <1>5, UpTo
<1>7. S(M) + e * (c[M] * Power(x, M)) = (e * x + b) * V(M)
  BY <1>6 DEF T, Goal
<1>8. PICK p \in Int, v \in Int, s \in Int : p = Power(x, M) /\ v = V(L) /\ s = S(M)
  BY <1>0, PowerInt, ValueStep
<1>9. V(M) = v
  <2>1. PICK q \in Int : q = Power(x, L)
    BY PowerInt
  <2>2. V(L + 1) = v + 0 * q
    BY <1>8, <2>1, ValueStep
  <2>3. 0 * q = 0
    OBVIOUS
  <2> QED BY <1>3, <2>2, <2>3
<1>10. s + e * (0 * p) = (e * x + b) * v
  BY <1>3, <1>7, <1>8, <1>9
<1>11. e * (0 * p) = 0
  OBVIOUS
<1>12. s = (e * x + b) * v
  BY <1>10, <1>11
<1> QED BY <1>3, <1>8, <1>12 DEF d

\* A bit is 1 for all factors from j on, or not.
AllOnes(n, E, j) == \A i \in j..(n - 1) : E[i] = 1

\* The highest coefficient.
LEMMA DownTop ==
    ASSUME NEW n \in Nat, NEW E \in [0..(n - 1) -> {0, 1}], NEW F \in Coefficients(n),
           NEW j \in 0..n
    PROVE  Down(n, E, F)[j][n - j + 1] = IF AllOnes(n, E, j) THEN 1 ELSE 0
<1> DEFINE w == Down(n, E, F)
           T == {i \in 0..n : w[n - i][i + 1] = IF AllOnes(n, E, n - i) THEN 1 ELSE 0}
<1>0. IsDown(n, E, F, w) /\ E \in Coefficients(n)
  <2>1. E \in Coefficients(n)
    BY DEF Coefficients
  <2> QED BY <2>1, DownIs
<1>d. ASSUME NEW i \in 0..n, NEW k \in Int, k < 1 \/ k > n - i + 1
      PROVE  w[i][k] = 0
  BY <1>0, <1>d, DownDegree
<1> HIDE DEF w
<1>1. 0 \in T
  <2>1. n - 0 = n /\ w[n] = One /\ 0 + 1 = 1
    BY <1>0 DEF IsDown
  <2>2. One[1] = 1
    BY DEF One
  <2>3. AllOnes(n, E, n)
    BY DEF AllOnes
  <2> QED BY <2>1, <2>2, <2>3
<1>2. ASSUME NEW i \in 0..(n - 1), i \in T PROVE i + 1 \in T
  <2>1. PICK d \in 0..(n - 1) : d = n - (i + 1)
    OBVIOUS
  <2>2. d + 1 = n - i /\ E[d] \in {0, 1} /\ F[d] \in Int /\ d + 1 \in 0..n
    BY <2>1 DEF Coefficients
  <2>3. PICK p \in Polynomial : p = w[d + 1]
    BY <1>0, <2>2 DEF IsDown
  <2>4. w[d] = Factor(E[d], F[d], p)
    BY <1>0, <2>3 DEF IsDown
  <2>5. PICK k \in Int : k = (i + 1) + 1
    OBVIOUS
  <2>6. p[k] = 0 /\ p[k - 1] = IF AllOnes(n, E, d + 1) THEN 1 ELSE 0
    <3>1. p[k] = 0
      BY <1>d, <2>1, <2>2, <2>3, <2>5
    <3>2. k - 1 = i + 1
      BY <2>5
    <3> QED BY <1>2, <2>2, <2>3, <3>1, <3>2
  <2>7. PICK e \in {0, 1}, b \in Int : e = E[d] /\ b = F[d]
    BY <2>2
  <2>8. w[d][k] = b * 0 + e * p[k - 1]
    <3>1. Factor(e, b, p)[k] = b * 0 + e * p[k - 1]
      BY <2>6 DEF Factor
    <3> QED BY <2>4, <2>7, <3>1
  <2>9. AllOnes(n, E, d) <=> e = 1 /\ AllOnes(n, E, d + 1)
    <3>1. d..(n - 1) = {d} \cup ((d + 1)..(n - 1))
      OBVIOUS
    <3> QED BY <2>7, <3>1 DEF AllOnes
  <2>10. w[d][k] = IF AllOnes(n, E, d) THEN 1 ELSE 0
    <3>1. CASE e = 0
      <4>1. p[k - 1] \in Int
        BY <2>6
      <4> QED BY <2>8, <2>9, <3>1, <4>1
    <3>2. CASE e = 1
      BY <2>6, <2>8, <2>9, <3>2
    <3> QED BY <2>7, <3>1, <3>2
  <2> QED BY <2>1, <2>5, <2>10
<1>3. PICK i \in 0..n : i = n - j
  OBVIOUS
<1> HIDE DEF T
<1>4. i \in T
  BY <1>1, <1>2, UpTo
<1>5. n - i = j
  BY <1>3
<1> QED BY <1>3, <1>4, <1>5 DEF T, w

-----------------------------------------------------------------------------
(* Digits in base B, the lowest first. *)

Prefix(k, j, B) == k \div Power(B, j)
Digit(k, j, B) == Prefix(k, j, B) % B

LEMMA PrefixIs ==
    ASSUME NEW B \in Nat \ {0}, NEW k \in Nat, NEW j \in Nat
    PROVE  /\ Prefix(k, j, B) \in Nat
           /\ Digit(k, j, B) \in 0..(B - 1)
           /\ \E d \in 0..(Power(B, j) - 1) : k = Power(B, j) * Prefix(k, j, B) + d
<1>1. PICK p \in Nat \ {0} : p = Power(B, j)
  BY PowerNat
<1>2. PICK c \in Int : c = k
  OBVIOUS
<1>3. PICK a \in Nat, d \in 0..(p - 1) : a = k \div p /\ k = p * a + d
  <2>1. c \div p \in Nat /\ c % p \in 0..(p - 1) /\ c = p * (c \div p) + (c % p)
    BY <1>2, DivMod
  <2> QED BY <1>2, <2>1
<1>4. Prefix(k, j, B) = a
  BY <1>1, <1>3 DEF Prefix
<1>5. a % B \in 0..(B - 1)
  <2>1. PICK g \in Int : g = a
    OBVIOUS
  <2>2. g % B \in 0..(B - 1)
    BY DivMod
  <2> QED BY <2>1, <2>2
<1> QED BY <1>1, <1>3, <1>4, <1>5 DEF Digit

LEMMA PrefixUnique ==
    ASSUME NEW B \in Nat \ {0}, NEW k \in Nat, NEW j \in Nat, NEW a \in Nat,
           NEW d \in 0..(Power(B, j) - 1), k = Power(B, j) * a + d
    PROVE  Prefix(k, j, B) = a
<1>1. PICK p \in Nat \ {0} : p = Power(B, j)
  BY PowerNat
<1>2. k \in Int /\ a \in Int /\ d \in 0..(p - 1) /\ k = p * a + d
  BY <1>1
<1>3. k \div p = a
  BY <1>2, DivUnique
<1> QED BY <1>1, <1>3 DEF Prefix

\* The first prefix is the number, and each digit is the rest of a prefix.
LEMMA PrefixStep ==
    ASSUME NEW B \in Nat \ {0}, NEW k \in Nat, NEW j \in Nat
    PROVE  /\ Prefix(k, 0, B) = k
           /\ Prefix(k, j, B) = B * Prefix(k, j + 1, B) + Digit(k, j, B)
<1>1. Prefix(k, 0, B) = k
  <2>1. Power(B, 0) = 1
    BY PowerStep
  <2>2. PICK z \in Nat : z = 0
    OBVIOUS
  <2>3. k = Power(B, z) * k + 0 /\ 0 \in 0..(Power(B, z) - 1)
    BY <2>1, <2>2
  <2>4. Prefix(k, z, B) = k
    BY <2>3, PrefixUnique
  <2> QED BY <2>2, <2>4
<1>2. PICK p \in Nat \ {0} : p = Power(B, j)
  BY PowerNat
<1>3. PICK a \in Nat, d \in 0..(p - 1) : a = Prefix(k, j, B) /\ k = p * a + d
  <2>1. Prefix(k, j, B) \in Nat
    BY PrefixIs
  <2>2. PICK d \in 0..(Power(B, j) - 1) : k = Power(B, j) * Prefix(k, j, B) + d
    BY PrefixIs
  <2> QED BY <1>2, <2>1, <2>2
<1>4. PICK b \in Nat, e \in 0..(B - 1) : b = a \div B /\ e = a % B /\ a = B * b + e
  <2>1. PICK g \in Int : g = a
    OBVIOUS
  <2>2. g \div B \in Nat /\ g % B \in 0..(B - 1) /\ g = B * (g \div B) + (g % B)
    BY <2>1, DivMod
  <2> QED BY <2>1, <2>2
<1>5. Power(B, j + 1) = B * p
  BY <1>2, PowerStep
<1>6. PICK f \in Int : f = p * e + d
  OBVIOUS
<1>7. f \in 0..(B * p - 1)
  <2>1. p * e >= 0
    OBVIOUS
  <2>2. p * e <= p * (B - 1)
    <3>1. PICK g \in Nat : g = (B - 1) - e
      OBVIOUS
    <3>2. p * g >= 0 /\ p * g \in Int
      OBVIOUS
    <3>3. p * (B - 1) = p * e + p * g
      <4>1. B - 1 = e + g
        BY <3>1
      <4>2. p * (e + g) = p * e + p * g
        OBVIOUS
      <4> QED BY <4>1, <4>2
    <3>4. p * e \in Int
      OBVIOUS
    <3> QED BY <3>2, <3>3, <3>4
  <2>3. p * (B - 1) = B * p - p
    OBVIOUS
  <2>4. PICK s \in Int, t \in Int : s = p * e /\ t = B * p
    OBVIOUS
  <2> QED BY <1>6, <2>1, <2>2, <2>3, <2>4
<1>8. k = (B * p) * b + f
  <2>1. p * (B * b + e) + d = (B * p) * b + (p * e + d)
    OBVIOUS
  <2> QED BY <1>3, <1>4, <1>6, <2>1
<1>9. PICK h \in Nat : h = j + 1
  OBVIOUS
<1>10. Prefix(k, h, B) = b
  BY <1>5, <1>7, <1>8, <1>9, PrefixUnique
<1>11. Digit(k, j, B) = e
  BY <1>3, <1>4 DEF Digit
<1> QED BY <1>1, <1>3, <1>4, <1>9, <1>10, <1>11

\* Numbers with a common prefix have the digits from there on in common.
LEMMA SameDigits ==
    ASSUME NEW B \in Nat \ {0}, NEW k \in Nat, NEW i \in Nat, NEW t \in Nat,
           Prefix(k, t, B) = Prefix(i, t, B), NEW n \in Nat
    PROVE  \A j \in t..n : Digit(k, j, B) = Digit(i, j, B)
                              /\ Prefix(k, j, B) = Prefix(i, j, B)
<1> DEFINE T == {d \in 0..n : Prefix(k, t + d, B) = Prefix(i, t + d, B)}
<1>1. 0 \in T
  <2>1. t + 0 = t
    OBVIOUS
  <2> QED BY <2>1
<1>2. ASSUME NEW d \in 0..(n - 1), d \in T PROVE d + 1 \in T
  <2>1. PICK j \in Nat : j = t + d
    OBVIOUS
  <2>2. PICK a \in Nat, b \in Nat, e \in 0..(B - 1), f \in 0..(B - 1) :
          /\ a = Prefix(k, j + 1, B) /\ b = Prefix(i, j + 1, B)
          /\ e = Digit(k, j, B) /\ f = Digit(i, j, B)
    <3>1. j \in Nat /\ j + 1 \in Nat
      OBVIOUS
    <3>2. /\ Prefix(k, j + 1, B) \in Nat /\ Prefix(i, j + 1, B) \in Nat
          /\ Digit(k, j, B) \in 0..(B - 1) /\ Digit(i, j, B) \in 0..(B - 1)
      BY <3>1, PrefixIs
    <3> QED BY <3>2
  <2>3. B * a + e = B * b + f
    BY <1>2, <2>1, <2>2, PrefixStep
  <2>4. PICK c \in Int : c = B * b + f
    OBVIOUS
  <2>5. c = B * a + e /\ a \in Int /\ b \in Int
    BY <2>3, <2>4
  <2>6. c \div B = a
    BY <2>5, DivUnique
  <2>7. c \div B = b
    BY <2>4, <2>5, DivUnique
  <2>8. j + 1 = t + (d + 1)
    BY <2>1
  <2> QED BY <2>2, <2>6, <2>7, <2>8
<1> HIDE DEF T
<1>3. \A d \in 0..n : d \in T
  BY <1>1, <1>2, UpTo
<1>4. ASSUME NEW j \in t..n
      PROVE  Digit(k, j, B) = Digit(i, j, B) /\ Prefix(k, j, B) = Prefix(i, j, B)
  <2>1. PICK d \in 0..n : d = j - t
    OBVIOUS
  <2>2. t + d = j /\ d \in T
    BY <1>3, <2>1
  <2>3. Prefix(k, j, B) = Prefix(i, j, B)
    BY <2>2 DEF T
  <2> QED BY <2>3 DEF Digit
<1> QED BY <1>4

\* And the other way round, of numbers with n digits.
LEMMA SamePrefix ==
    ASSUME NEW B \in Nat \ {0}, NEW n \in Nat, NEW k \in 0..(Power(B, n) - 1),
           NEW i \in 0..(Power(B, n) - 1), NEW t \in 0..n,
           \A j \in t..(n - 1) : Digit(k, j, B) = Digit(i, j, B)
    PROVE  Prefix(k, t, B) = Prefix(i, t, B)
<1>0. Power(B, n) \in Nat \ {0}
  BY PowerNat
<1>k. k \in Nat /\ i \in Nat
  BY <1>0
<1> DEFINE T == {d \in 0..(n - t) : Prefix(k, n - d, B) = Prefix(i, n - d, B)}
<1>1. 0 \in T
  <2>1. n - 0 = n
    OBVIOUS
  <2>2. PICK z \in Nat : z = 0
    OBVIOUS
  <2>3. k = Power(B, n) * z + k /\ i = Power(B, n) * z + i
    BY <1>0, <1>k, <2>2
  <2>4. Prefix(k, n, B) = z /\ Prefix(i, n, B) = z
    BY <1>k, <2>3, PrefixUnique
  <2> QED BY <2>1, <2>4
<1>2. ASSUME NEW d \in 0..((n - t) - 1), d \in T PROVE d + 1 \in T
  <2>1. PICK j \in t..(n - 1) : j = n - (d + 1)
    OBVIOUS
  <2>2. j + 1 = n - d /\ j \in Nat
    BY <2>1
  <2>3. Digit(k, j, B) = Digit(i, j, B)
    OBVIOUS
  <2>4. /\ Prefix(k, j, B) = B * Prefix(k, j + 1, B) + Digit(k, j, B)
        /\ Prefix(i, j, B) = B * Prefix(i, j + 1, B) + Digit(i, j, B)
    BY <1>k, <2>2, PrefixStep
  <2>5. Prefix(k, j, B) = Prefix(i, j, B)
    BY <1>2, <2>2, <2>3, <2>4
  <2> QED BY <2>1, <2>5
<1>3. PICK h \in Nat : h = n - t
  OBVIOUS
<1>4. h \in 0..h /\ n - h = t
  BY <1>3
<1>5. 0 \in T /\ \A d \in 0..(h - 1) : d \in T => d + 1 \in T
  BY <1>1, <1>2, <1>3
<1> HIDE DEF T
<1>6. h \in T
  BY <1>4, <1>5, UpTo
<1> QED BY <1>4, <1>6 DEF T

\* k is larger than i at digit j and the same above it.
Exceeds(k, i, j, B) ==
    Prefix(k, j + 1, B) = Prefix(i, j + 1, B) /\ Digit(k, j, B) > Digit(i, j, B)

\* The larger of two numbers exceeds the other one at a single digit.
LEMMA LargerDigit ==
    ASSUME NEW B \in Nat \ {0}, NEW n \in Nat, NEW k \in 0..(Power(B, n) - 1),
           NEW i \in 0..(Power(B, n) - 1), NEW f,
           \A j \in 1..n : f[j] = IF Exceeds(k, i, j - 1, B) THEN 1 ELSE 0
    PROVE  SumTo(n, f) = IF k > i THEN 1 ELSE 0
<1>0. Power(B, n) \in Nat \ {0}
  BY PowerNat
<1>k. k \in Nat /\ i \in Nat
  BY <1>0
<1> DEFINE g == [j \in 0..n |-> IF Prefix(k, j, B) > Prefix(i, j, B) THEN 0 - 1 ELSE 0]
<1>1. ASSUME NEW j \in 1..n
      PROVE  f[j] = g[j] - g[j - 1]
  <2>1. PICK d \in Nat : d = j - 1
    OBVIOUS
  <2>2. d \in 0..n /\ d + 1 = j /\ j \in 0..n
    BY <2>1
  <2>3. PICK a \in Nat, b \in Nat, e \in 0..(B - 1), h \in 0..(B - 1) :
          /\ a = Prefix(k, j, B) /\ b = Prefix(i, j, B)
          /\ e = Digit(k, d, B) /\ h = Digit(i, d, B)
    <3>1. j \in Nat
      OBVIOUS
    <3>2. /\ Prefix(k, j, B) \in Nat /\ Prefix(i, j, B) \in Nat
          /\ Digit(k, d, B) \in 0..(B - 1) /\ Digit(i, d, B) \in 0..(B - 1)
      BY <1>k, <3>1, PrefixIs
    <3> QED BY <3>2
  <2>4. Prefix(k, d, B) = B * a + e /\ Prefix(i, d, B) = B * b + h
    BY <1>k, <2>2, <2>3, PrefixStep
  <2>5. f[j] = IF a = b /\ e > h THEN 1 ELSE 0
    BY <2>1, <2>2, <2>3 DEF Exceeds
  <2>6. g[j] = IF a > b THEN 0 - 1 ELSE 0
    BY <2>2, <2>3
  <2>7. g[j - 1] = IF B * a + e > B * b + h THEN 0 - 1 ELSE 0
    BY <2>1, <2>2, <2>4
  <2>8. B * a + e > B * b + h <=> a > b \/ (a = b /\ e > h)
    <3>1. ASSUME NEW s \in Nat, NEW t \in Nat, s > t
          PROVE  B * s >= B * t + B
      <4>1. PICK c \in Nat : s = (t + 1) + c
        <5>1. s - (t + 1) \in Nat /\ s = (t + 1) + (s - (t + 1))
          BY <3>1
        <5> QED BY <5>1
      <4>2. B * s = (B * t + B) + B * c
        BY <4>1
      <4>3. B * c >= 0 /\ B * c \in Int /\ B * t \in Int
        OBVIOUS
      <4> QED BY <4>2, <4>3
    <3>2. PICK s \in Int, t \in Int : s = B * a /\ t = B * b
      OBVIOUS
    <3>3. a > b => s >= t + B
      BY <3>1, <3>2
    <3>4. b > a => t >= s + B
      BY <3>1, <3>2
    <3>5. a = b => s = t
      BY <3>2
    <3>6. a > b \/ a = b \/ b > a
      OBVIOUS
    <3>7. s + e > t + h <=> a > b \/ (a = b /\ e > h)
      BY <3>3, <3>4, <3>5, <3>6
    <3> QED BY <3>2, <3>7
  <2> HIDE DEF g
  <2> QED BY <2>5, <2>6, <2>7, <2>8
<1>2. \A j \in 0..n : g[j] \in Int
  OBVIOUS
<1>3. g[n] = 0
  <2>1. PICK z \in Nat : z = 0
    OBVIOUS
  <2>2. k = Power(B, n) * z + k /\ i = Power(B, n) * z + i
    BY <1>0, <1>k, <2>1
  <2>3. Prefix(k, n, B) = z /\ Prefix(i, n, B) = z
    BY <1>k, <2>2, PrefixUnique
  <2> QED BY <2>1, <2>3
<1>4. g[0] = IF k > i THEN 0 - 1 ELSE 0
  BY <1>k, PrefixStep
<1> HIDE DEF g
<1>5. Steps(n, f, g)
  <2>1. 0 \in 0..n /\ \A j \in 1..n : j \in 0..n
    OBVIOUS
  <2> QED BY <1>1, <1>2, <2>1 DEF Steps
<1>6. SumTo(n, f) = g[n] - g[0]
  BY <1>5, Telescope
<1> QED BY <1>3, <1>4, <1>6

\* The first number with prefix u and digit e at t.
Starts(w, u, e, t, B) == w = (u * B + e) * Power(B, t)

LEMMA StartDigits ==
    ASSUME NEW B \in Nat \ {0}, NEW u \in Nat, NEW e \in 0..(B - 1), NEW t \in Nat,
           NEW w \in Nat, Starts(w, u, e, t, B)
    PROVE  Digit(w, t, B) = e /\ Prefix(w, t + 1, B) = u
<1>1. PICK p \in Nat \ {0} : p = Power(B, t)
  BY PowerNat
<1>2. PICK b \in Nat : b = u * B + e
  <2>1. u * B \in Nat
    OBVIOUS
  <2> QED BY <2>1
<1>3. w = p * b + 0 /\ 0 \in 0..(p - 1)
  BY <1>1, <1>2 DEF Starts
<1>4. Prefix(w, t, B) = b
  BY <1>1, <1>3, PrefixUnique
<1>5. PICK v \in Int, h \in 0..(B - 1) : v = Prefix(w, t + 1, B) /\ h = Digit(w, t, B)
  <2>1. t + 1 \in Nat
    OBVIOUS
  <2>2. Prefix(w, t + 1, B) \in Nat /\ Digit(w, t, B) \in 0..(B - 1)
    BY <2>1, PrefixIs
  <2> QED BY <2>2
<1>6. b = B * v + h
  BY <1>4, <1>5, PrefixStep
<1>7. b = B * u + e /\ b \in Int /\ u \in Int
  <2>1. u * B = B * u
    OBVIOUS
  <2> QED BY <1>2, <2>1
<1>8. b % B = h /\ b \div B = v
  BY <1>6, <1>7, DivUnique
<1>9. b % B = e /\ b \div B = u
  BY <1>7, DivUnique
<1> QED BY <1>5, <1>8, <1>9

\* And the first one with prefix u.
LEMMA StartPrefix ==
    ASSUME NEW B \in Nat \ {0}, NEW u \in Nat, NEW t \in Nat
    PROVE  u * Power(B, t) \in Nat /\ Prefix(u * Power(B, t), t, B) = u
<1>1. PICK p \in Nat \ {0} : p = Power(B, t)
  BY PowerNat
<1>2. PICK w \in Nat : w = u * p
  BY SMT
<1>3. w = p * u + 0 /\ 0 \in 0..(p - 1)
  BY <1>2
<1>4. Prefix(w, t, B) = u
  BY <1>1, <1>3, PrefixUnique
<1> QED BY <1>1, <1>2, <1>4

-----------------------------------------------------------------------------
(* Sums of sums. *)

RowSums(m, M) == [i \in Nat |-> SumTo(m, [j \in Nat |-> M[<<i, j>>]])]
ColumnSums(n, M) == [j \in Nat |-> SumTo(n, [i \in Nat |-> M[<<i, j>>]])]
Matrix(n, m, M) == \A i \in 1..n, j \in 1..m : M[<<i, j>>] \in Int

LEMMA SumsInt ==
    ASSUME NEW n \in Nat, NEW m \in Nat, NEW M, Matrix(n, m, M)
    PROVE  /\ \A i \in 1..n : RowSums(m, M)[i] \in Int
           /\ \A j \in 1..m : ColumnSums(n, M)[j] \in Int
<1>1. ASSUME NEW i \in 1..n PROVE RowSums(m, M)[i] \in Int
  <2> DEFINE f == [j \in Nat |-> M[<<i, j>>]]
  <2>1. \A j \in 1..m : f[j] \in Int
    BY DEF Matrix
  <2> HIDE DEF f
  <2>2. SumTo(m, f) \in Int
    BY <2>1, SumInt
  <2>3. i \in Nat
    OBVIOUS
  <2> QED BY <2>2, <2>3 DEF f, RowSums
<1>2. ASSUME NEW j \in 1..m PROVE ColumnSums(n, M)[j] \in Int
  <2> DEFINE f == [i \in Nat |-> M[<<i, j>>]]
  <2>1. \A i \in 1..n : f[i] \in Int
    BY DEF Matrix
  <2> HIDE DEF f
  <2>2. SumTo(n, f) \in Int
    BY <2>1, SumInt
  <2>3. j \in Nat
    OBVIOUS
  <2> QED BY <2>2, <2>3 DEF f, ColumnSums
<1> QED BY <1>1, <1>2

LEMMA Exchange ==
    ASSUME NEW n \in Nat, NEW m \in Nat, NEW M, Matrix(n, m, M)
    PROVE  SumTo(n, RowSums(m, M)) = SumTo(m, ColumnSums(n, M))
<1> DEFINE T == {i \in 0..n : SumTo(i, RowSums(m, M)) = SumTo(m, ColumnSums(i, M))}
<1>1. 0 \in T
  <2>1. \A j \in 1..m : ColumnSums(0, M)[j] \in Int /\ (j # 0 => ColumnSums(0, M)[j] = 0)
    <3>1. ASSUME NEW j \in 1..m PROVE ColumnSums(0, M)[j] = 0
      <4>1. j \in Nat
        OBVIOUS
      <4> QED BY <4>1, SumStep DEF ColumnSums
    <3> QED BY <3>1
  <2>2. SumTo(m, ColumnSums(0, M)) = 0
    <3>1. 0 \in 0..m
      OBVIOUS
    <3> QED BY <2>1, <3>1, SumSingle
  <2>3. SumTo(0, RowSums(m, M)) = 0
    BY SumStep
  <2> QED BY <2>2, <2>3
<1>2. ASSUME NEW i \in 0..(n - 1), i \in T PROVE i + 1 \in T
  <2>1. i \in Nat /\ i + 1 \in Nat /\ i + 1 \in 1..n /\ i + 1 \in 0..n
    OBVIOUS
  <2> DEFINE f == [j \in Nat |-> M[<<i + 1, j>>]]
  <2>2. RowSums(m, M)[i + 1] = SumTo(m, f)
    BY <2>1 DEF RowSums
  <2>3. SumTo(i + 1, RowSums(m, M)) = SumTo(i, RowSums(m, M)) + SumTo(m, f)
    <3> HIDE DEF f
    <3> QED BY <2>1, <2>2, SumStep
  <2>4. \A j \in 1..m : f[j] \in Int
    BY <2>1 DEF Matrix
  <2>5. Matrix(i, m, M)
    <3>1. \A d \in 1..i : d \in 1..n
      BY <2>1
    <3> QED BY <3>1 DEF Matrix
  <2>6. ASSUME NEW j \in 1..m
        PROVE  ColumnSums(i + 1, M)[j] = 1 * ColumnSums(i, M)[j] + 1 * f[j]
    <3> DEFINE h == [d \in Nat |-> M[<<d, j>>]]
    <3>1. j \in Nat
      OBVIOUS
    <3>2. ColumnSums(i + 1, M)[j] = SumTo(i + 1, h) /\ ColumnSums(i, M)[j] = SumTo(i, h)
      BY <3>1 DEF ColumnSums
    <3>3. h[i + 1] = f[j]
      BY <2>1, <3>1
    <3>4. SumTo(i + 1, h) = SumTo(i, h) + h[i + 1]
      <4> HIDE DEF h
      <4> QED BY <2>1, SumStep
    <3>5. PICK b \in Int, d \in Int : b = ColumnSums(i, M)[j] /\ d = f[j]
      BY <2>1, <2>4, <2>5, SumsInt
    <3>6. 1 * b + 1 * d = b + d
      OBVIOUS
    <3> HIDE DEF h, f
    <3> QED BY <3>2, <3>3, <3>4, <3>5, <3>6
  <2> HIDE DEF f
  <2>7. Combines(m, ColumnSums(i + 1, M), 1, ColumnSums(i, M), 1, f)
    BY <2>1, <2>4, <2>5, <2>6, SumsInt DEF Combines
  <2>8. SumTo(m, ColumnSums(i + 1, M)) = 1 * SumTo(m, ColumnSums(i, M)) + 1 * SumTo(m, f)
    <3>1. 1 \in Int
      OBVIOUS
    <3> QED BY <2>7, <3>1, SumCombine
  <2>9. PICK b \in Int, d \in Int : b = SumTo(m, ColumnSums(i, M)) /\ d = SumTo(m, f)
    <3>1. SumTo(m, ColumnSums(i, M)) \in Int
      BY <2>1, <2>5, SumsInt, SumInt
    <3>2. SumTo(m, f) \in Int
      BY <2>4, SumInt
    <3> QED BY <3>1, <3>2
  <2>10. 1 * b + 1 * d = b + d
    OBVIOUS
  <2>11. SumTo(i, RowSums(m, M)) = b
    BY <1>2, <2>9
  <2> QED BY <2>1, <2>3, <2>8, <2>9, <2>10, <2>11
<1> HIDE DEF T
<1>3. n \in T
  <2>1. n \in 0..n
    OBVIOUS
  <2> QED BY <1>1, <1>2, <2>1, UpTo
<1> QED BY <1>3 DEF T

LEMMA PowerSum ==
    ASSUME NEW x \in Int, NEW t \in Nat, NEW k \in Nat
    PROVE  Power(x, t + k) = Power(x, t) * Power(x, k)
<1> DEFINE T == {i \in 0..k : Power(x, t + i) = Power(x, t) * Power(x, i)}
<1>1. PICK p \in Int : p = Power(x, t)
  BY PowerInt
<1>2. 0 \in T
  <2>1. t + 0 = t /\ p * 1 = p /\ 0 \in 0..k
    OBVIOUS
  <2> QED BY <1>1, <2>1, PowerStep
<1>3. ASSUME NEW i \in 0..(k - 1), i \in T PROVE i + 1 \in T
  <2>1. i \in Nat /\ t + i \in Nat /\ i + 1 \in 0..k /\ t + (i + 1) = (t + i) + 1
    OBVIOUS
  <2>2. PICK b \in Int : b = Power(x, i)
    BY <2>1, PowerInt
  <2>3. Power(x, (t + i) + 1) = x * (p * b)
    BY <1>1, <1>3, <2>1, <2>2, PowerStep
  <2>4. Power(x, i + 1) = x * b
    BY <2>1, <2>2, PowerStep
  <2>5. x * (p * b) = p * (x * b)
    OBVIOUS
  <2> QED BY <1>1, <2>1, <2>3, <2>4, <2>5
<1> HIDE DEF T
<1>4. k \in T
  <2>1. k \in 0..k
    OBVIOUS
  <2> QED BY <1>2, <1>3, <2>1, UpTo
<1> QED BY <1>4 DEF T

\* A polynomial times X^t.
Shifted(f, t, L, c, x) ==
    \A k \in 1..(t + L) : f[k] = c[k - t] * Power(x, k - 1)

LEMMA ValueShift ==
    ASSUME NEW c \in Polynomial, NEW x \in Int, NEW t \in Nat, NEW L \in Nat, NEW f,
           \A k \in Int : k < 1 => c[k] = 0, Shifted(f, t, L, c, x)
    PROVE  SumTo(t + L, f) = Power(x, t) * ValueOf(L, c, x)
<1> DEFINE T == {i \in 0..L : SumTo(t + i, f) = Power(x, t) * ValueOf(i, c, x)}
<1>1. PICK p \in Int : p = Power(x, t)
  BY PowerInt
<1>2. 0 \in T
  <2>1. ASSUME NEW k \in 1..t PROVE f[k] = 0
    <3>1. k \in 1..(t + L) /\ k - t \in Int /\ k - t < 1 /\ k - 1 \in Nat
      OBVIOUS
    <3>2. PICK b \in Int : b = Power(x, k - 1)
      BY <3>1, PowerInt
    <3>3. f[k] = 0 * b
      BY <3>1, <3>2 DEF Shifted
    <3> QED BY <3>3
  <2>2. SumTo(t, f) = 0
    <3>1. 0 \in 0..t
      OBVIOUS
    <3>2. \A k \in 1..t : f[k] \in Int /\ (k # 0 => f[k] = 0)
      BY <2>1
    <3> QED BY <3>1, <3>2, SumSingle
  <2>3. t + 0 = t /\ p * 0 = 0 /\ 0 \in 0..L
    OBVIOUS
  <2> QED BY <1>1, <2>2, <2>3, ValueStep
<1>3. ASSUME NEW i \in 0..(L - 1), i \in T PROVE i + 1 \in T
  <2>1. /\ i \in Nat /\ t + i \in Nat /\ i + 1 \in 0..L /\ t + (i + 1) = (t + i) + 1
        /\ (t + i) + 1 \in 1..(t + L) /\ ((t + i) + 1) - t = i + 1 /\ ((t + i) + 1) - 1 = t + i
    OBVIOUS
  <2>2. PICK b \in Int, d \in Int, v \in Int :
          b = Power(x, i) /\ d = c[i + 1] /\ v = ValueOf(i, c, x)
    <3>1. i + 1 \in Int
      BY <2>1
    <3> QED BY <2>1, <3>1, PowerInt, ValueStep DEF Polynomial
  <2>3. f[(t + i) + 1] = d * (p * b)
    <3>1. f[(t + i) + 1] = c[i + 1] * Power(x, t + i)
      BY <2>1 DEF Shifted
    <3> QED BY <1>1, <2>1, <2>2, <3>1, PowerSum
  <2>4. SumTo((t + i) + 1, f) = SumTo(t + i, f) + f[(t + i) + 1]
    BY <2>1, SumStep
  <2>5. SumTo(t + i, f) = p * v
    BY <1>1, <1>3, <2>2
  <2>6. ValueOf(i + 1, c, x) = v + d * b
    BY <2>1, <2>2, ValueStep
  <2>7. p * v + d * (p * b) = p * (v + d * b)
    OBVIOUS
  <2> QED BY <1>1, <2>1, <2>3, <2>4, <2>5, <2>6, <2>7
<1> HIDE DEF T
<1>4. L \in T
  <2>1. L \in 0..L
    OBVIOUS
  <2> QED BY <1>2, <1>3, <2>1, UpTo
<1> QED BY <1>4 DEF T

LEMMA UpDegree ==
    ASSUME NEW n \in Nat, NEW E \in Coefficients(n), NEW F \in Coefficients(n), NEW w,
           IsUp(n, E, F, One, w), NEW j \in 0..n
    PROVE  \A k \in Int : k < 1 \/ k > j + 1 => w[j][k] = 0
<1> DEFINE T == {i \in 0..n : \A k \in Int : k < 1 \/ k > i + 1 => w[i][k] = 0}
<1>1. 0 \in T
  <2>1. w[0] = One
    BY DEF IsUp
  <2>2. \A k \in Int : k < 1 \/ k > 0 + 1 => One[k] = 0
    BY DEF One
  <2>3. 0 \in 0..n
    OBVIOUS
  <2> QED BY <2>1, <2>2, <2>3
<1>2. ASSUME NEW i \in 0..(n - 1), i \in T PROVE i + 1 \in T
  <2>1. i + 1 \in 0..n /\ i \in 0..n
    OBVIOUS
  <2>2. PICK e \in Int, b \in Int : e = E[i] /\ b = F[i]
    BY DEF Coefficients
  <2>3. w[i + 1] = Factor(e, b, w[i]) /\ w[i] \in Polynomial
    BY <2>1, <2>2 DEF IsUp
  <2>4. ASSUME NEW k \in Int, k < 1 \/ k > (i + 1) + 1 PROVE w[i + 1][k] = 0
    <3>1. k - 1 \in Int /\ (k < 1 \/ k > i + 1) /\ (k - 1 < 1 \/ k - 1 > i + 1)
      BY <2>4
    <3>2. w[i][k] = 0 /\ w[i][k - 1] = 0
      BY <1>2, <3>1
    <3>3. w[i + 1][k] = b * w[i][k] + e * w[i][k - 1]
      BY <2>3, FactorIs
    <3>4. b * 0 + e * 0 = 0
      OBVIOUS
    <3> QED BY <3>2, <3>3, <3>4
  <2> QED BY <2>1, <2>4
<1> HIDE DEF T
<1>3. j \in T
  BY <1>1, <1>2, UpTo
<1> QED BY <1>3 DEF T

\* One factor more, modulo q.
LEMMA ValueTimes ==
    ASSUME NEW L \in Nat, NEW c \in Polynomial, NEW e \in Int, NEW b \in Int, NEW x \in Int,
           c[0] = 0, c[L + 1] = 0, NEW q \in Nat \ {0}, NEW v \in Int, NEW f \in Int,
           Same(v, ValueOf(L, c, x), q), Same(f, e * x + b, q)
    PROVE  /\ Same((v * f) % q, ValueOf(L + 1, Factor(e, b, c), x), q)
           /\ Same(v * f, ValueOf(L + 1, Factor(e, b, c), x), q)
           /\ (v * f) % q \in Int
<1>1. PICK d \in Int, g \in Int : d = ValueOf(L, c, x) /\ g = e * x + b
  <2>1. e * x + b \in Int
    OBVIOUS
  <2> QED BY <2>1, ValueStep
<1>2. ValueOf(L + 1, Factor(e, b, c), x) = g * d
  BY <1>1, ValueFactor
<1>3. Same(v * f, d * g, q)
  BY <1>1, SameProducts
<1>4. PICK y \in Int, z \in Int : y = v * f /\ z = d * g
  OBVIOUS
<1>5. g * d = z
  BY <1>4
<1>6. Same(y % q, y, q) /\ y % q \in Int
  BY SameRest
<1>7. Same(y % q, z, q)
  BY <1>3, <1>4, <1>6, SameTrans
<1> QED BY <1>2, <1>3, <1>4, <1>5, <1>6, <1>7

-----------------------------------------------------------------------------
(* Both sides of a check that sums polynomials' values.                    *)

Lowest(P, i, X, D) == SumTo(D, [k \in 1..D |-> P[i][k] * Power(X, k - 1)])
Weighted(M, C, P, k) == SumTo(M, [i \in 1..M |-> C[i] * P[i][k]])
\* F are the values at X of P's rows, where row J has T more; G are P's
\* columns, weighted with C, and K.
Weighs(M, D, C, F, P, X, J, T, G, K, e, q) ==
    /\ \A i \in 1..M : /\ C[i] \in Int /\ F[i] \in Int
                       /\ \A k \in 1..D : P[i][k] \in Int
                       /\ Same(F[i], Lowest(P, i, X, D) + (IF i = J THEN T ELSE 0), q)
    /\ \A k \in 1..D : /\ G[k] \in Int /\ K[k] \in Int /\ e[k] \in Int
                       /\ Same(G[k], Weighted(M, C, P, k) + K[k], q)
                       /\ Same(e[k], -Power(X, k - 1), q)
Both(M, D, C, F, G, e) ==
    SumTo(M, [i \in 1..M |-> C[i] * F[i]]) + SumTo(D, [k \in 1..D |-> G[k] * e[k]])
Difference(D, c, T, K, X) == c * T - SumTo(D, [k \in 1..D |-> K[k] * Power(X, k - 1)])

LEMMA BothSame ==
    ASSUME NEW M \in Nat, NEW D \in Nat, NEW C, NEW F, NEW P, NEW X \in Int,
           NEW J \in 1..M, NEW T \in Int, NEW G, NEW K, NEW e, NEW q \in Nat \ {0},
           Weighs(M, D, C, F, P, X, J, T, G, K, e, q)
    PROVE  Same(Both(M, D, C, F, G, e), Difference(D, C[J], T, K, X), q)
<1> DEFINE Mx == [w \in Nat \X Nat |-> (C[w[1]] * P[w[1]][w[2]]) * Power(X, w[2] - 1)]
           f1 == [i \in 1..M |-> C[i] * F[i]]
           del == [i \in 1..M |-> IF i = J THEN C[i] ELSE 0]
           h1 == [i \in 1..M |-> 1 * RowSums(D, Mx)[i] + T * del[i]]
           f2 == [k \in 1..D |-> G[k] * e[k]]
           Kp == [k \in 1..D |-> K[k] * Power(X, k - 1)]
           h2 == [k \in 1..D |-> (-1) * ColumnSums(M, Mx)[k] + (-1) * Kp[k]]
<1>1. \A i \in 1..M, k \in 1..D : Mx[<<i, k>>] = (C[i] * P[i][k]) * Power(X, k - 1)
  OBVIOUS
<1> HIDE DEF Mx
<1>2. \A k \in 1..D : k - 1 \in Nat /\ k \in Nat /\ Power(X, k - 1) \in Int
  <2>1. \A k \in 1..D : k - 1 \in Nat /\ k \in Nat
    OBVIOUS
  <2> QED BY <2>1, PowerInt
<1>3. \A i \in 1..M : /\ C[i] \in Int /\ F[i] \in Int
                      /\ \A k \in 1..D : P[i][k] \in Int
                      /\ Same(F[i], Lowest(P, i, X, D) + (IF i = J THEN T ELSE 0), q)
  BY DEF Weighs
<1>4. \A k \in 1..D : /\ G[k] \in Int /\ K[k] \in Int /\ e[k] \in Int
                      /\ Same(G[k], Weighted(M, C, P, k) + K[k], q)
                      /\ Same(e[k], -Power(X, k - 1), q)
  BY DEF Weighs
<1>5. Matrix(M, D, Mx)
  <2>1. ASSUME NEW i \in 1..M, NEW k \in 1..D PROVE Mx[<<i, k>>] \in Int
    <3>1. PICK b \in Int, d \in Int, y \in Int :
            b = C[i] /\ d = P[i][k] /\ y = Power(X, k - 1)
      BY <1>2, <1>3
    <3>2. (b * d) * y \in Int
      OBVIOUS
    <3> QED BY <1>1, <3>1, <3>2
  <2> QED BY <2>1 DEF Matrix
<1>6. ASSUME NEW i \in 1..M
      PROVE  f1[i] \in Int /\ h1[i] \in Int /\ Same(f1[i], h1[i], q)
  <2>1. PICK c \in Int, z \in Int : c = C[i] /\ z = F[i]
    BY <1>3
  <2> DEFINE g == [k \in 1..D |-> P[i][k] * Power(X, k - 1)]
             f == [k \in Nat |-> Mx[<<i, k>>]]
  <2>2. ASSUME NEW k \in 1..D PROVE g[k] \in Int /\ f[k] = c * g[k] + 0 * g[k]
    <3>1. PICK d \in Int, y \in Int : d = P[i][k] /\ y = Power(X, k - 1)
      BY <1>2, <1>3
    <3>2. f[k] = (c * d) * y
      BY <1>1, <1>2, <2>1, <3>1
    <3>3. g[k] = d * y
      BY <3>1
    <3>4. (c * d) * y = c * (d * y) + 0 * (d * y) /\ d * y \in Int
      OBVIOUS
    <3> HIDE DEF f, g
    <3> QED BY <3>2, <3>3, <3>4
  <2>3. PICK v \in Int : v = SumTo(D, g)
    <3> HIDE DEF g
    <3> QED BY <2>2, SumInt
  <2>4. SumTo(D, f) = c * v + 0 * v
    <3> HIDE DEF f, g
    <3>1. Combines(D, f, c, g, 0, g)
      BY <2>2 DEF Combines
    <3>2. 0 \in Int
      OBVIOUS
    <3> QED BY <2>3, <3>1, <3>2, SumCombine
  <2>5. RowSums(D, Mx)[i] = c * v
    <3>1. i \in Nat
      OBVIOUS
    <3>2. RowSums(D, Mx)[i] = SumTo(D, f)
      BY <3>1 DEF RowSums
    <3>3. c * v + 0 * v = c * v
      OBVIOUS
    <3> HIDE DEF f
    <3> QED BY <2>4, <3>2, <3>3
  <2>6. PICK u \in Int : u = IF i = J THEN T ELSE 0
    OBVIOUS
  <2>7. Same(z, v + u, q) /\ v + u \in Int
    <3>1. Lowest(P, i, X, D) = v
      BY <2>3 DEF Lowest
    <3>2. Same(F[i], Lowest(P, i, X, D) + (IF i = J THEN T ELSE 0), q)
      BY <1>3
    <3>3. v + u \in Int
      OBVIOUS
    <3> HIDE DEF f, g, f1, h1, del
    <3> QED BY <2>1, <2>6, <3>1, <3>2, <3>3
  <2>8. Same(z * c, (v + u) * c, q)
    BY <2>7, SameProduct
  <2>9. f1[i] = z * c
    <3>1. f1[i] = c * z /\ c * z = z * c
      BY <2>1
    <3> QED BY <3>1
  <2>10. h1[i] = (v + u) * c
    <3>1. del[i] = IF i = J THEN c ELSE 0
      BY <2>1
    <3>2. T * del[i] = u * c
      <4>1. T * c = T * c /\ T * 0 = 0 * c
        OBVIOUS
      <4> QED BY <2>6, <3>1
    <3>3. h1[i] = 1 * (c * v) + u * c
      BY <2>5, <3>2
    <3>4. 1 * (c * v) + u * c = (v + u) * c
      OBVIOUS
    <3> QED BY <3>3, <3>4
  <2>11. z * c \in Int /\ (v + u) * c \in Int
    OBVIOUS
  <2> HIDE DEF f1, h1
  <2> QED BY <2>8, <2>9, <2>10, <2>11
<1>7. ASSUME NEW k \in 1..D
      PROVE  f2[k] \in Int /\ h2[k] \in Int /\ Kp[k] \in Int /\ Same(f2[k], h2[k], q)
  <2>1. PICK y \in Int, b \in Int, d \in Int, z \in Int :
          y = Power(X, k - 1) /\ b = G[k] /\ d = K[k] /\ z = e[k]
    BY <1>2, <1>4
  <2> DEFINE g == [i \in 1..M |-> C[i] * P[i][k]]
             f == [i \in Nat |-> Mx[<<i, k>>]]
  <2>2. ASSUME NEW i \in 1..M PROVE g[i] \in Int /\ f[i] = y * g[i] + 0 * g[i]
    <3>1. PICK c \in Int, w \in Int : c = C[i] /\ w = P[i][k]
      BY <1>3
    <3>2. f[i] = (c * w) * y
      <4>1. i \in Nat
        OBVIOUS
      <4> QED BY <1>1, <2>1, <3>1, <4>1
    <3>3. g[i] = c * w
      BY <3>1
    <3>4. (c * w) * y = y * (c * w) + 0 * (c * w) /\ c * w \in Int
      OBVIOUS
    <3> HIDE DEF f, g
    <3> QED BY <3>2, <3>3, <3>4
  <2>3. PICK v \in Int : v = SumTo(M, g)
    <3> HIDE DEF g
    <3> QED BY <2>2, SumInt
  <2>4. SumTo(M, f) = y * v + 0 * v
    <3> HIDE DEF f, g
    <3>1. Combines(M, f, y, g, 0, g)
      BY <2>2 DEF Combines
    <3>2. 0 \in Int
      OBVIOUS
    <3> QED BY <2>3, <3>1, <3>2, SumCombine
  <2>5. ColumnSums(M, Mx)[k] = y * v
    <3>2. ColumnSums(M, Mx)[k] = SumTo(M, f)
      BY <1>2 DEF ColumnSums
    <3>3. y * v + 0 * v = y * v
      OBVIOUS
    <3> HIDE DEF f
    <3> QED BY <2>4, <3>2, <3>3
  <2>6. Same(b, v + d, q) /\ Same(z, -y, q)
    BY <1>4, <2>1, <2>3 DEF Weighted
  <2>7. v + d \in Int /\ -y \in Int /\ b * z \in Int /\ (v + d) * (-y) \in Int
    OBVIOUS
  <2>8. Same(b * z, (v + d) * (-y), q)
    BY <2>6, <2>7, SameProducts
  <2>9. Kp[k] = d * y /\ d * y \in Int
    BY <2>1
  <2>10. f2[k] = b * z
    BY <2>1
  <2>11. h2[k] = (v + d) * (-y)
    <3>1. h2[k] = (-1) * (y * v) + (-1) * (d * y)
      BY <2>5, <2>9
    <3>2. (-1) * (y * v) + (-1) * (d * y) = (v + d) * (-y)
      OBVIOUS
    <3> QED BY <3>1, <3>2
  <2> HIDE DEF f2, h2, Kp
  <2> QED BY <2>7, <2>8, <2>9, <2>10, <2>11
<1>8. \A i \in 1..M : del[i] \in Int /\ (i # J => del[i] = 0) /\ (i = J => del[i] = C[J])
  BY <1>3
<1>9. PICK c \in Int : c = C[J] /\ SumTo(M, del) = c
  <2>1. J \in 0..M /\ J # 0
    OBVIOUS
  <2> HIDE DEF del
  <2>2. SumTo(M, del) = IF J = 0 THEN 0 ELSE del[J]
    BY <1>8, <2>1, SumSingle
  <2> QED BY <1>3, <1>8, <2>1, <2>2
<1>10. PICK w \in Int : w = SumTo(M, RowSums(D, Mx)) /\ w = SumTo(D, ColumnSums(M, Mx))
  <2>1. SumTo(M, RowSums(D, Mx)) = SumTo(D, ColumnSums(M, Mx))
    BY <1>5, Exchange
  <2>2. SumTo(M, RowSums(D, Mx)) \in Int
    BY <1>5, SumsInt, SumInt
  <2> QED BY <2>1, <2>2
<1>11. SumTo(M, h1) = 1 * w + T * c
  <2>1. Combines(M, h1, 1, RowSums(D, Mx), T, del)
    BY <1>5, <1>8, SumsInt DEF Combines
  <2>2. 1 \in Int
    OBVIOUS
  <2> HIDE DEF h1, del
  <2>3. SumTo(M, h1) = 1 * SumTo(M, RowSums(D, Mx)) + T * SumTo(M, del)
    BY <2>1, <2>2, SumCombine
  <2> QED BY <1>9, <1>10, <2>3
<1>12. PICK k0 \in Int : k0 = SumTo(D, Kp)
  <2> HIDE DEF Kp
  <2> QED BY <1>7, SumInt
<1>13. SumTo(D, h2) = (-1) * w + (-1) * k0
  <2>1. Combines(D, h2, -1, ColumnSums(M, Mx), -1, Kp)
    <3>1. \A k \in 1..D : Kp[k] \in Int
      BY <1>7
    <3>2. \A k \in 1..D : h2[k] = (-1) * ColumnSums(M, Mx)[k] + (-1) * Kp[k]
      OBVIOUS
    <3> HIDE DEF h2, Kp
    <3> QED BY <1>5, <3>1, <3>2, SumsInt DEF Combines
  <2>2. -1 \in Int
    OBVIOUS
  <2> HIDE DEF h2, Kp
  <2> QED BY <1>10, <1>12, <2>1, <2>2, SumCombine
<1>14. PICK s1 \in Int, t1 \in Int, s2 \in Int, t2 \in Int :
         /\ s1 = SumTo(M, f1) /\ t1 = SumTo(M, h1) /\ s2 = SumTo(D, f2) /\ t2 = SumTo(D, h2)
         /\ Same(s1, t1, q) /\ Same(s2, t2, q)
  <2>1. /\ SumTo(M, f1) \in Int /\ SumTo(M, h1) \in Int
        /\ Same(SumTo(M, f1), SumTo(M, h1), q)
    <3> HIDE DEF f1, h1
    <3> QED BY <1>6, SumSame, SumInt
  <2>2. /\ SumTo(D, f2) \in Int /\ SumTo(D, h2) \in Int
        /\ Same(SumTo(D, f2), SumTo(D, h2), q)
    <3> HIDE DEF f2, h2
    <3> QED BY <1>7, SumSame, SumInt
  <2> QED BY <2>1, <2>2
<1>15. Same(s1 + s2, t1 + t2, q)
  BY <1>14, SameSum
<1>16. t1 + t2 = c * T - k0
  <2>1. (1 * w + T * c) + ((-1) * w + (-1) * k0) = c * T - k0
    OBVIOUS
  <2> HIDE DEF h1, h2
  <2> QED BY <1>11, <1>13, <1>14, <2>1
<1>17. Both(M, D, C, F, G, e) = s1 + s2
  BY <1>14 DEF Both
<1>18. Difference(D, C[J], T, K, X) = c * T - k0
  BY <1>9, <1>12 DEF Difference
<1> QED BY <1>15, <1>16, <1>17, <1>18

LEMMA UnitPower ==
    ASSUME NEW x \in Int, NEW w \in Int, NEW q \in Nat \ {0}, NEW k \in Nat,
           Same(x * w, 1, q)
    PROVE  Same(Power(x, k) * Power(w, k), 1, q)
<1> DEFINE T == {i \in 0..k : Same(Power(x, i) * Power(w, i), 1, q)}
<1>1. 0 \in T
  <2>1. Power(x, 0) = 1 /\ Power(w, 0) = 1
    BY PowerStep
  <2>2. 1 * 1 = 1 + q * 0 /\ 0 \in 0..k
    OBVIOUS
  <2> QED BY <2>1, <2>2 DEF Same
<1>2. ASSUME NEW i \in 0..(k - 1), i \in T PROVE i + 1 \in T
  <2>1. i \in Nat /\ i + 1 \in 0..k
    OBVIOUS
  <2>2. PICK b \in Int, d \in Int : b = Power(x, i) /\ d = Power(w, i)
    BY <2>1, PowerInt
  <2>3. Power(x, i + 1) = x * b /\ Power(w, i + 1) = w * d
    BY <2>1, <2>2, PowerStep
  <2>4. PICK y \in Int, z \in Int : y = x * w /\ z = b * d
    OBVIOUS
  <2>5. Same(y, 1, q) /\ Same(z, 1, q)
    BY <1>2, <2>2, <2>4
  <2>6. Same(y * z, 1 * 1, q) /\ 1 * 1 = 1
    BY <2>5, SameProducts
  <2>7. (x * b) * (w * d) = y * z
    BY <2>4
  <2> QED BY <2>1, <2>3, <2>6, <2>7
<1> HIDE DEF T
<1>3. k \in T
  <2>1. k \in 0..k
    OBVIOUS
  <2> QED BY <1>1, <1>2, <2>1, UpTo
<1> QED BY <1>3 DEF T

-----------------------------------------------------------------------------
(* Sums in blocks, and binary numbers. *)

\* g are the sums of f's blocks of n numbers.
InBlocks(n, m, f, g) ==
    /\ \A i \in 1..(m * n) : f[i] \in Int
    /\ \A j \in 1..m : \E h : /\ \A k \in 1..n : h[k] = f[(j - 1) * n + k]
                              /\ g[j] = SumTo(n, h)

LEMMA SumBlocks ==
    ASSUME NEW n \in Nat, NEW m \in Nat, NEW f, NEW g, InBlocks(n, m, f, g)
    PROVE  SumTo(m * n, f) = SumTo(m, g)
<1> DEFINE s == [j \in 0..m |-> SumTo(j * n, f)]
<1>1. ASSUME NEW j \in 0..m PROVE j * n \in Nat /\ j * n <= m * n
  <2>1. PICK d \in Nat : m = j + d
    <3>1. m - j \in Nat /\ m = j + (m - j)
      OBVIOUS
    <3> QED BY <3>1
  <2>2. m * n = j * n + d * n /\ d * n \in Nat /\ j * n \in Nat
    BY <2>1
  <2> QED BY <2>2
<1>2. ASSUME NEW j \in 0..m PROVE s[j] \in Int /\ s[j] = SumTo(j * n, f)
  <2>1. \A i \in 1..(j * n) : f[i] \in Int
    BY <1>1 DEF InBlocks
  <2> QED BY <1>1, <2>1, SumInt
<1>3. ASSUME NEW j \in 1..m PROVE g[j] = s[j] - s[j - 1]
  <2>1. PICK h : (\A k \in 1..n : h[k] = f[(j - 1) * n + k]) /\ g[j] = SumTo(n, h)
    BY DEF InBlocks
  <2>2. PICK a \in Nat : a = (j - 1) * n
    BY <1>1
  <2>3. a + n = j * n
    BY <2>2
  <2>4. \A i \in 1..(a + n) : f[i] \in Int
    BY <1>1, <2>3 DEF InBlocks
  <2>5. Follows(a, n, f, h)
    BY <2>1, <2>2 DEF Follows
  <2>6. SumTo(a + n, f) = SumTo(a, f) + SumTo(n, h)
    BY <2>4, <2>5, SumConcat
  <2>7. j \in 0..m /\ j - 1 \in 0..m
    OBVIOUS
  <2>8. s[j] = SumTo(a + n, f) /\ s[j - 1] = SumTo(a, f) /\ s[j - 1] \in Int
    BY <1>2, <2>2, <2>3, <2>7
  <2>9. SumTo(n, h) \in Int
    <3>1. \A k \in 1..n : a + k \in 1..(a + n)
      BY <2>2
    <3>2. \A k \in 1..n : h[k] \in Int
      BY <2>1, <2>2, <2>4, <3>1
    <3> QED BY <3>2, SumInt
  <2> QED BY <2>1, <2>6, <2>8, <2>9
<1>4. s[0] = 0 /\ s[m] = SumTo(m * n, f) /\ s[m] \in Int
  BY <1>2, SumStep
<1> HIDE DEF s
<1>5. \A i \in 1..m : s[i] \in Int
  BY <1>2
<1>6. SumTo(m, g) = s[m] - s[0]
  <2>1. s[0] \in Int /\ \A i \in 1..m : s[i] \in Int /\ g[i] = s[i] - s[i - 1]
    BY <1>3, <1>4, <1>5
  <2>2. Steps(m, g, s)
    BY <2>1 DEF Steps
  <2> QED BY <2>2, Telescope
<1> QED BY <1>4, <1>6

\* The lowest bits of a number.
LEMMA BitSum ==
    ASSUME NEW w \in Nat, NEW n \in Nat, NEW f,
           \A k \in 1..n : f[k] = Digit(w, k - 1, 2) * Power(2, k - 1)
    PROVE  SumTo(n, f) = w - Prefix(w, n, 2) * Power(2, n)
<1> DEFINE g == [k \in 0..n |-> -(Prefix(w, k, 2) * Power(2, k))]
<1>1. ASSUME NEW k \in Nat
      PROVE  Prefix(w, k, 2) \in Nat /\ Power(2, k) \in Nat /\ Digit(w, k, 2) \in Int
  <2>1. PICK b \in Nat \ {0} : b = 2
    OBVIOUS
  <2>2. Prefix(w, k, b) \in Nat /\ Digit(w, k, b) \in 0..(b - 1)
    BY PrefixIs
  <2>3. Power(b, k) \in Nat \ {0}
    BY PowerNat
  <2> QED BY <2>1, <2>2, <2>3
<1>2. \A k \in 0..n : g[k] \in Int /\ g[k] = -(Prefix(w, k, 2) * Power(2, k))
  BY <1>1
<1>3. ASSUME NEW k \in 1..n PROVE f[k] = g[k] - g[k - 1]
  <2>1. PICK j \in Nat : k = j + 1
    <3>1. k - 1 \in Nat /\ k = (k - 1) + 1
      OBVIOUS
    <3> QED BY <3>1
  <2>2. PICK p \in Int, q \in Int, t \in Int, d \in Int :
          /\ p = Prefix(w, j, 2) /\ q = Prefix(w, j + 1, 2)
          /\ t = Power(2, j) /\ d = Digit(w, j, 2)
    <3>1. Prefix(w, j, 2) \in Int /\ Power(2, j) \in Int /\ Digit(w, j, 2) \in Int
      BY <1>1, <2>1
    <3>2. j + 1 \in Nat
      BY <2>1
    <3>3. Prefix(w, j + 1, 2) \in Int
      BY <1>1, <3>2
    <3> QED BY <3>1, <3>3
  <2>3. p = 2 * q + d
    BY <2>2, PrefixStep
  <2>4. Power(2, j + 1) = 2 * t
    BY <2>2, PowerStep
  <2>5. g[k] = -(q * (2 * t)) /\ g[k - 1] = -(p * t) /\ f[k] = d * t
    <3>1. k \in 0..n /\ k - 1 \in 0..n /\ k - 1 = j
      BY <2>1
    <3>2. f[k] = Digit(w, j, 2) * Power(2, j)
      BY <3>1
    <3> QED BY <1>2, <2>1, <2>2, <2>4, <3>1, <3>2
  <2>6. d * t = -(q * (2 * t)) - (-(p * t))
    <3>1. p * t = (2 * q + d) * t /\ (2 * q + d) * t = q * (2 * t) + d * t
      BY <2>3
    <3> QED BY <3>1
  <2> QED BY <2>5, <2>6
<1>4. g[0] = -w
  <2>1. Prefix(w, 0, 2) = w /\ Power(2, 0) = 1
    BY PrefixStep, PowerStep
  <2> QED BY <1>2, <2>1
<1>6. g[n] = -(Prefix(w, n, 2) * Power(2, n)) /\ g[n] \in Int
  BY <1>2
<1>5. g[0] \in Int /\ \A k \in 1..n : g[k] \in Int
  BY <1>2
<1> HIDE DEF g
<1>7. SumTo(n, f) = g[n] - g[0]
  <2>1. Steps(n, f, g)
    BY <1>3, <1>5 DEF Steps
  <2> QED BY <2>1, Telescope
<1>8. PICK e \in Int : e = Prefix(w, n, 2) * Power(2, n)
  BY <1>1
<1> QED BY <1>4, <1>6, <1>7, <1>8

LEMMA PowersOfTwo ==
    ASSUME NEW n \in Nat, NEW f, \A k \in 1..n : f[k] = Power(2, k - 1)
    PROVE  SumTo(n, f) = Power(2, n) - 1
<1> DEFINE g == [k \in 0..n |-> Power(2, k)]
<1>1. \A k \in 0..n : g[k] \in Int
  BY PowerNat
<1>2. ASSUME NEW k \in 1..n PROVE f[k] = g[k] - g[k - 1]
  <2>1. PICK j \in Nat : k = j + 1
    <3>1. k - 1 \in Nat /\ k = (k - 1) + 1
      OBVIOUS
    <3> QED BY <3>1
  <2>2. PICK t \in Int : t = Power(2, j)
    BY <2>1, PowerNat
  <2>3. Power(2, j + 1) = 2 * t
    BY <2>2, PowerStep
  <2> QED BY <2>1, <2>2, <2>3
<1>4. g[0] = 1 /\ g[n] = Power(2, n)
  BY PowerStep
<1>5. g[0] \in Int /\ \A k \in 1..n : g[k] \in Int
  BY <1>1
<1> HIDE DEF g
<1>6. SumTo(n, f) = g[n] - g[0]
  <2>1. Steps(n, f, g)
    BY <1>2, <1>5 DEF Steps
  <2> QED BY <2>1, Telescope
<1> QED BY <1>4, <1>6

LEMMA SumTimes ==
    ASSUME NEW n \in Nat, NEW f, NEW g, NEW w \in Int,
           \A i \in 1..n : g[i] \in Int /\ f[i] = w * g[i]
    PROVE  SumTo(n, f) = w * SumTo(n, g)
<1>1. PICK o \in Int : o = 0
  OBVIOUS
<1>2. \A i \in 1..n : f[i] = w * g[i] + o * g[i]
  BY <1>1
<1>3. Combines(n, f, w, g, o, g)
  BY <1>2 DEF Combines
<1>4. SumTo(n, f) = w * SumTo(n, g) + o * SumTo(n, g)
  BY <1>3, SumCombine
<1>5. SumTo(n, g) \in Int
  BY SumInt
<1> QED BY <1>1, <1>4, <1>5

\* The place of bit k of commitment j.
LEMMA BlockIndex ==
    ASSUME NEW n \in Nat \ {0}, NEW m \in Nat, NEW j \in 1..m, NEW k \in 1..n,
           NEW i, i = (j - 1) * n + k
    PROVE  i \in 1..(m * n) /\ (i - 1) \div n = j - 1 /\ (i - 1) % n = k - 1
<1>1. PICK a \in Nat, b \in 0..(n - 1), c \in Nat :
        a = j - 1 /\ b = k - 1 /\ m = (a + 1) + c
  <2>1. j - 1 \in Nat /\ k - 1 \in 0..(n - 1) /\ m - j \in Nat /\ m = (j - 1 + 1) + (m - j)
    OBVIOUS
  <2> QED BY <2>1
<1>2. PICK p \in Nat, q \in Nat : p = a * n /\ q = c * n
  OBVIOUS
<1>3. m * n = p + n + q
  <2>1. m * n = ((a + 1) + c) * n /\ ((a + 1) + c) * n = a * n + n + c * n
    BY <1>1
  <2> QED BY <1>2, <2>1
<1>4. i = p + b + 1
  BY <1>1, <1>2
<1>5. PICK d \in Int : d = i - 1 /\ d = n * a + b
  BY <1>2, <1>4
<1>6. d % n = b /\ d \div n = a
  BY <1>5, DivUnique
<1> QED BY <1>1, <1>3, <1>4, <1>5, <1>6

=============================================================================
