-------------------------- MODULE BulletproofProofs --------------------------
(***************************************************************************)
(* The rounds of the inner product argument keep the relation the range    *)
(* proof rests on, what they make of the bases is what the verifier        *)
(* computes at once, the proof of values in the range is accepted, and one *)
(* of other values only where the challenge does not tell them apart, for  *)
(* every group, every vector length and all challenges.                    *)
(***************************************************************************)
EXTENDS Bulletproof, NumberTheorems

-----------------------------------------------------------------------------
(* Folding: what the halves of two vectors become in the sum of products. *)

\* The squares ww and oo of the challenge and of its inverse.
LEMMA FoldTerm ==
    ASSUME NEW n \in Nat \ {0}, NEW w \in Int, NEW o \in Int,
           NEW ww \in Int, NEW oo \in Int, ww = w * w, oo = o * o,
           NEW s \in Int, NEW t \in Int, NEW p \in Int, NEW q \in Int,
           NEW d \in Int, NEW f \in Int, Same(w * o, 1, n),
           Same(d, w * s + o * t, n), Same(f, o * p + w * q, n)
    PROVE  Same(d * f, (s * p + t * q) + (ww * (s * q) + oo * (t * p)), n)
<1>1. Same(d * f, (w * s + o * t) * (o * p + w * q), n)
  BY SameProducts
<1>2. PICK c \in Int : w * o = 1 + n * c
  BY DEF Same
<1>3. (w * s + o * t) * (o * p + w * q)
        = ((w * o) * (s * p) + (w * o) * (t * q))
            + ((w * w) * (s * q) + (o * o) * (t * p))
  OBVIOUS
<1>4. PICK a \in Int, b \in Int, i \in Int, j \in Int :
        a = s * p /\ b = t * q /\ i = ww * (s * q) /\ j = oo * (t * p)
  OBVIOUS
<1>5. (w * o) * a = a + n * (c * a) /\ (w * o) * b = b + n * (c * b)
  <2>1. (1 + n * c) * a = a + n * (c * a) /\ (1 + n * c) * b = b + n * (c * b)
    OBVIOUS
  <2> QED BY <1>2, <2>1
<1>6. PICK lhs \in Int : lhs = (w * s + o * t) * (o * p + w * q)
  OBVIOUS
<1>7. lhs = ((a + b) + (i + j)) + n * (c * a + c * b)
  <2>1. lhs = ((w * o) * a + (w * o) * b) + (i + j)
    BY <1>3, <1>4, <1>6
  <2>2. (a + n * (c * a)) + (b + n * (c * b)) = (a + b) + n * (c * a + c * b)
    OBVIOUS
  <2> QED BY <1>5, <2>1, <2>2
<1>8. PICK rhs \in Int, k \in Int : rhs = (a + b) + (i + j) /\ k = c * a + c * b
  OBVIOUS
<1>9. Same(lhs, rhs, n)
  BY <1>7, <1>8 DEF Same
<1>10. Same(d * f, rhs, n)
  <2>1. d * f \in Int
    OBVIOUS
  <2> QED BY <1>1, <1>6, <1>9, <2>1, SameTrans
<1> QED BY <1>4, <1>8, <1>10

Products(a, b) == [i \in DOMAIN a |-> a[i] * b[i]]

LEMMA ProductsInt ==
    ASSUME NEW m \in Nat, NEW a \in [1..m -> Int], NEW b \in [1..m -> Int]
    PROVE  /\ \A i \in 1..m : Products(a, b)[i] = a[i] * b[i]
                               /\ Products(a, b)[i] \in Int
           /\ SumTo(m, Products(a, b)) \in Int
<1>1. \A i \in 1..m : a[i] * b[i] \in Int
  <2>1. \A i \in 1..m : a[i] \in Int /\ b[i] \in Int
    OBVIOUS
  <2> QED BY <2>1
<1>2. \A i \in 1..m : Products(a, b)[i] = a[i] * b[i]
  BY DEF Products
<1> QED BY <1>1, <1>2, SumInt

\* The cross terms that the points L and R of a round carry.
LEMMA FoldSum ==
    ASSUME NEW m \in Nat, NEW n \in Nat \ {0}, NEW w \in Int, NEW o \in Int,
           NEW ww \in Int, NEW oo \in Int, ww = w * w, oo = o * o,
           NEW s \in [1..m -> Int], NEW t \in [1..m -> Int],
           NEW p \in [1..m -> Int], NEW q \in [1..m -> Int],
           NEW d \in [1..m -> Int], NEW f \in [1..m -> Int],
           Same(w * o, 1, n),
           \A i \in 1..m : /\ Same(d[i], w * s[i] + o * t[i], n)
                           /\ Same(f[i], o * p[i] + w * q[i], n)
    PROVE  Same(SumTo(m, Products(d, f)),
                (SumTo(m, Products(s, p)) + SumTo(m, Products(t, q)))
                  + (ww * SumTo(m, Products(s, q)) + oo * SumTo(m, Products(t, p))), n)
<1> DEFINE D == [i \in 1..m |-> (Products(s, p)[i] + Products(t, q)[i])
                     + (ww * Products(s, q)[i] + oo * Products(t, p)[i])]
<1>1. ASSUME NEW i \in 1..m PROVE D[i] \in Int
  <2>1. PICK k1 \in Int, k2 \in Int, k3 \in Int, k4 \in Int :
          /\ k1 = Products(s, p)[i] /\ k2 = Products(t, q)[i]
          /\ k3 = Products(s, q)[i] /\ k4 = Products(t, p)[i]
    BY ProductsInt
  <2>2. (k1 + k2) + (ww * k3 + oo * k4) \in Int
    OBVIOUS
  <2> QED BY <2>1, <2>2
<1>2. \A i \in 1..m : Products(d, f)[i] \in Int /\ D[i] \in Int
                      /\ Same(Products(d, f)[i], D[i], n)
  <2> SUFFICES ASSUME NEW i \in 1..m
               PROVE  Same(Products(d, f)[i], D[i], n)
    BY <1>1, ProductsInt
  <2>1. Same(d[i] * f[i], (s[i] * p[i] + t[i] * q[i])
               + (ww * (s[i] * q[i]) + oo * (t[i] * p[i])), n)
    BY FoldTerm
  <2>2. D[i] = (s[i] * p[i] + t[i] * q[i]) + (ww * (s[i] * q[i]) + oo * (t[i] * p[i]))
    BY ProductsInt
  <2>3. Products(d, f)[i] = d[i] * f[i]
    BY ProductsInt
  <2> HIDE DEF D
  <2> QED BY <2>1, <2>2, <2>3
<1>3. Same(SumTo(m, Products(d, f)), SumTo(m, D), n)
  <2> HIDE DEF D
  <2> QED BY <1>2, SumSame
<1>4. SumTo(m, D) = (SumTo(m, Products(s, p)) + SumTo(m, Products(t, q)))
                      + (ww * SumTo(m, Products(s, q)) + oo * SumTo(m, Products(t, p)))
  <2>1. IsLinear(m, D, Products(s, p), Products(t, q), Products(s, q), Products(t, p),
                 ww, oo)
    BY ProductsInt DEF IsLinear
  <2> HIDE DEF D
  <2> QED BY <2>1, SumLinear
<1> HIDE DEF D
<1> QED BY <1>3, <1>4

-----------------------------------------------------------------------------
(* Sequences as functions, and points. *)

Point == [1..Dim -> Int]

LEMMA Vector ==
    ASSUME NEW n \in Nat, NEW S, NEW s \in [1..n -> S]
    PROVE  s \in Seq(S) /\ Len(s) = n /\ DOMAIN s = 1..n
OBVIOUS

LEMMA Elements ==
    ASSUME NEW S, NEW s \in Seq(S), NEW n \in Nat, Len(s) = n
    PROVE  s \in [1..n -> S]
OBVIOUS

\* A of N elements joins g, h and p.
Joins(A, N, n, S, g, h, p) ==
    /\ A = g \o h \o <<p>> /\ N = 2 * n + 1
    /\ g \in [1..n -> S] /\ h \in [1..n -> S] /\ p \in S

LEMMA Concat3 ==
    ASSUME NEW n \in Nat, NEW N \in Nat, NEW S, NEW g, NEW h, NEW p, NEW A,
           Joins(A, N, n, S, g, h, p)
    PROVE  /\ A \in [1..N -> S] /\ A[N] = p
           /\ \A i \in 1..n : A[i] = g[i] /\ A[n + i] = h[i]
<1>0. /\ A = g \o h \o <<p>> /\ N = 2 * n + 1
      /\ g \in [1..n -> S] /\ h \in [1..n -> S] /\ p \in S
  BY DEF Joins
<1>1. /\ g \in Seq(S) /\ Len(g) = n /\ h \in Seq(S) /\ Len(h) = n
  BY <1>0, Vector
<1>2. /\ <<p>> \in Seq(S) /\ Len(<<p>>) = 1 /\ <<p>>[1] = p
  BY <1>0
<1>3. /\ g \o h \in Seq(S) /\ Len(g \o h) = 2 * n
      /\ \A i \in 1..n : (g \o h)[i] = g[i] /\ (g \o h)[n + i] = h[i]
  BY <1>1
<1>4. PICK gh \in Seq(S), one \in Seq(S) : gh = g \o h /\ one = <<p>>
  BY <1>2, <1>3
<1>5. /\ gh \o one \in Seq(S) /\ Len(gh \o one) = Len(gh) + Len(one)
      /\ \A i \in 1..Len(gh) : (gh \o one)[i] = gh[i]
      /\ \A i \in 1..Len(one) : (gh \o one)[Len(gh) + i] = one[i]
  OBVIOUS
<1>6. /\ Len(gh \o one) = 2 * n + 1 /\ (gh \o one)[2 * n + 1] = p
      /\ \A i \in 1..(2 * n) : (gh \o one)[i] = gh[i]
  <2>1. Len(gh) = 2 * n /\ Len(one) = 1 /\ one[1] = p
    BY <1>2, <1>3, <1>4
  <2> QED BY <1>5, <2>1
<1>7. gh \o one \in [1..(2 * n + 1) -> S]
  <2>1. 2 * n + 1 \in Nat
    OBVIOUS
  <2> QED BY <1>5, <1>6, <2>1, Elements
<1>8. \A i \in 1..n : (gh \o one)[i] = g[i] /\ (gh \o one)[n + i] = h[i]
  <2>1. \A i \in 1..n : i \in 1..(2 * n) /\ n + i \in 1..(2 * n)
    OBVIOUS
  <2> QED BY <1>3, <1>4, <1>6, <2>1
<1> QED BY <1>0, <1>4, <1>6, <1>7, <1>8

Halved(s, n, m, S) == n = 2 * m /\ s \in [1..n -> S]

LEMMA Halves ==
    ASSUME NEW m \in Nat, NEW n \in Nat, NEW S, NEW s, Halved(s, n, m, S)
    PROVE  /\ Left(s) \in [1..m -> S] /\ Right(s) \in [1..m -> S]
           /\ Len(s) = n /\ Len(Left(s)) = m /\ Len(Right(s)) = m
           /\ \A i \in 1..m : Left(s)[i] = s[i] /\ Right(s)[i] = s[m + i]
<1>0. s \in [1..n -> S] /\ n = 2 * m
  BY DEF Halved
<1>1. s \in Seq(S) /\ Len(s) = 2 * m /\ Len(s) = n
  BY <1>0, Vector
<1>2. Len(s) \div 2 = m
  BY <1>1
<1>3. Left(s) = SubSeq(s, 1, m) /\ Right(s) = SubSeq(s, m + 1, 2 * m)
  BY <1>1, <1>2 DEF Left, Right
<1>4. /\ SubSeq(s, 1, m) \in Seq(S) /\ Len(SubSeq(s, 1, m)) = m
      /\ \A i \in 1..m : SubSeq(s, 1, m)[i] = s[i]
  BY <1>1
<1>5. /\ SubSeq(s, m + 1, 2 * m) \in Seq(S) /\ Len(SubSeq(s, m + 1, 2 * m)) = m
      /\ \A i \in 1..m : SubSeq(s, m + 1, 2 * m)[i] = s[m + i]
  <2>1. PICK a \in Nat, b \in Nat : a = m + 1 /\ b = 2 * m
    OBVIOUS
  <2>2. /\ \A i \in a..b : i \in 1..Len(s) /\ s[i] \in S
        /\ a <= b + 1 /\ b + 1 - a = m
    BY <1>1, <2>1
  <2>3. /\ SubSeq(s, a, b) \in Seq(S) /\ Len(SubSeq(s, a, b)) = m
        /\ \A i \in 1..m : SubSeq(s, a, b)[i] = s[a + i - 1]
    BY <1>1, <2>2
  <2>4. \A i \in 1..m : a + i - 1 = m + i
    BY <2>1
  <2> QED BY <2>1, <2>3, <2>4
<1>6. /\ SubSeq(s, 1, m) \in [1..m -> S]
      /\ SubSeq(s, m + 1, 2 * m) \in [1..m -> S]
  BY <1>4, <1>5, Elements
<1> QED BY <1>1, <1>3, <1>4, <1>5, <1>6

\* The k-th exponents of the points of A.
Column(A, k) == [i \in DOMAIN A |-> A[i][k]]

LEMMA ColumnInt ==
    ASSUME NEW n \in Nat, NEW A \in [1..n -> Point], NEW k \in 1..Dim
    PROVE  Column(A, k) \in [1..n -> Int] /\ \A i \in 1..n : Column(A, k)[i] = A[i][k]
<1>1. \A i \in 1..n : A[i] \in [1..Dim -> Int]
  BY DEF Point
<1>2. \A i \in 1..n : A[i][k] \in Int
  BY <1>1
<1> QED BY <1>2 DEF Column

LEMMA SameQ ==
    ASSUME NEW a \in Int
    PROVE  Q \in Nat \ {0} /\ a % Q \in 0..(Q - 1) /\ a % Q \in Int /\ Same(a % Q, a, Q)
<1>1. Q \in Nat \ {0}
  BY FieldAssumption
<1> QED BY <1>1, SameRest, DivMod

LEMMA Mul ==
    ASSUME NEW n \in Nat \ {0}, NEW A \in [1..n -> Point], NEW a \in [1..n -> Int]
    PROVE  /\ ECP_vec_mul(A, a) \in Point
           /\ \A k \in 1..Dim :
                /\ ECP_vec_mul(A, a)[k] = SumTo(n, Products(a, Column(A, k))) % Q
                /\ Same(ECP_vec_mul(A, a)[k], SumTo(n, Products(a, Column(A, k))), Q)
                /\ SumTo(n, Products(a, Column(A, k))) \in Int
                /\ ECP_vec_mul(A, a)[k] \in 0..(Q - 1)
<1>1. Len(A) = n /\ DOMAIN A = 1..n /\ DOMAIN A[1] = 1..Dim /\ n \in Nat
  <2>1. n \in Nat /\ 1 \in 1..n
    OBVIOUS
  <2> QED BY <2>1, Vector DEF Point
<1>2. ASSUME NEW k \in 1..Dim
      PROVE  /\ SumTo(n, [i \in 1..n |-> a[i] * A[i][k]])
                  = SumTo(n, Products(a, Column(A, k)))
             /\ SumTo(n, Products(a, Column(A, k))) \in Int
  <2>1. Column(A, k) \in [1..n -> Int] /\ \A i \in 1..n : Column(A, k)[i] = A[i][k]
    BY <1>1, ColumnInt
  <2>2. \A i \in 1..n : [j \in 1..n |-> a[j] * A[j][k]][i] = Products(a, Column(A, k))[i]
    BY <2>1 DEF Products
  <2>3. SumTo(n, Products(a, Column(A, k))) \in Int
    BY <1>1, <2>1, ProductsInt
  <2> QED BY <1>1, <2>2, <2>3, SumEqual
<1>3. ECP_vec_mul(A, a)
        = [k \in 1..Dim |-> SumTo(n, [i \in 1..n |-> a[i] * A[i][k]]) % Q]
  BY <1>1 DEF ECP_vec_mul
<1>4. ASSUME NEW k \in 1..Dim
      PROVE  ECP_vec_mul(A, a)[k] = SumTo(n, Products(a, Column(A, k))) % Q
  BY <1>2, <1>3
<1>5. \A k \in 1..Dim : ECP_vec_mul(A, a)[k] \in Int
  BY <1>2, <1>4, SameQ
<1>6. ECP_vec_mul(A, a) \in Point
  BY <1>3, <1>5 DEF Point
<1> QED BY <1>2, <1>4, <1>6, SameQ

LEMMA MulSmall ==
    ASSUME NEW p \in Point, NEW q \in Point, NEW s \in Point,
           NEW a \in Int, NEW b \in Int, NEW c \in Int
    PROVE  /\ ECP_vec_mul(<<p>>, <<a>>) \in Point
           /\ ECP_vec_mul(<<p, q>>, <<a, b>>) \in Point
           /\ ECP_vec_mul(<<p, q, s>>, <<a, b, c>>) \in Point
           /\ \A k \in 1..Dim :
                /\ ECP_vec_mul(<<p>>, <<a>>)[k] \in 0..(Q - 1)
                /\ ECP_vec_mul(<<p, q>>, <<a, b>>)[k] \in 0..(Q - 1)
                /\ ECP_vec_mul(<<p, q, s>>, <<a, b, c>>)[k] \in 0..(Q - 1)
                /\ Same(ECP_vec_mul(<<p>>, <<a>>)[k], a * p[k], Q)
                /\ Same(ECP_vec_mul(<<p, q>>, <<a, b>>)[k], a * p[k] + b * q[k], Q)
                /\ Same(ECP_vec_mul(<<p, q, s>>, <<a, b, c>>)[k],
                        a * p[k] + b * q[k] + c * s[k], Q)
<1>1. <<p>> \in [1..1 -> Point] /\ <<a>> \in [1..1 -> Int]
  OBVIOUS
<1>2. <<p, q>> \in [1..2 -> Point] /\ <<a, b>> \in [1..2 -> Int]
  OBVIOUS
<1>3. <<p, q, s>> \in [1..3 -> Point] /\ <<a, b, c>> \in [1..3 -> Int]
  OBVIOUS
<1>4. /\ ECP_vec_mul(<<p>>, <<a>>) \in Point
      /\ ECP_vec_mul(<<p, q>>, <<a, b>>) \in Point
      /\ ECP_vec_mul(<<p, q, s>>, <<a, b, c>>) \in Point
  <2>1. 1 \in Nat \ {0} /\ 2 \in Nat \ {0} /\ 3 \in Nat \ {0}
    OBVIOUS
  <2> QED BY <1>1, <1>2, <1>3, <2>1, Mul
<1>5. ASSUME NEW k \in 1..Dim
      PROVE  /\ ECP_vec_mul(<<p>>, <<a>>)[k] \in 0..(Q - 1)
             /\ ECP_vec_mul(<<p, q>>, <<a, b>>)[k] \in 0..(Q - 1)
             /\ ECP_vec_mul(<<p, q, s>>, <<a, b, c>>)[k] \in 0..(Q - 1)
             /\ Same(ECP_vec_mul(<<p>>, <<a>>)[k], a * p[k], Q)
             /\ Same(ECP_vec_mul(<<p, q>>, <<a, b>>)[k], a * p[k] + b * q[k], Q)
             /\ Same(ECP_vec_mul(<<p, q, s>>, <<a, b, c>>)[k],
                     a * p[k] + b * q[k] + c * s[k], Q)
  <2>1. a * p[k] \in Int
    BY DEF Point
  <2>2. SumTo(1, Products(<<a>>, Column(<<p>>, k))) = a * p[k]
    <3>1. Products(<<a>>, Column(<<p>>, k))[1] = a * p[k]
      BY DEF Products, Column
    <3> QED BY <2>1, <3>1, SumSmall
  <2>3. SumTo(2, Products(<<a, b>>, Column(<<p, q>>, k))) = a * p[k] + b * q[k]
    <3>1. /\ Products(<<a, b>>, Column(<<p, q>>, k))[1] = a * p[k]
          /\ Products(<<a, b>>, Column(<<p, q>>, k))[2] = b * q[k]
      BY DEF Products, Column
    <3> QED BY <2>1, <3>1, SumSmall
  <2>4. SumTo(3, Products(<<a, b, c>>, Column(<<p, q, s>>, k)))
          = a * p[k] + b * q[k] + c * s[k]
    <3>1. /\ Products(<<a, b, c>>, Column(<<p, q, s>>, k))[1] = a * p[k]
          /\ Products(<<a, b, c>>, Column(<<p, q, s>>, k))[2] = b * q[k]
          /\ Products(<<a, b, c>>, Column(<<p, q, s>>, k))[3] = c * s[k]
      BY DEF Products, Column
    <3> QED BY <2>1, <3>1, SumSmall
  <2>5. 1 \in Nat \ {0} /\ 2 \in Nat \ {0} /\ 3 \in Nat \ {0}
    OBVIOUS
  <2>6. /\ Same(ECP_vec_mul(<<p>>, <<a>>)[k], a * p[k], Q)
        /\ ECP_vec_mul(<<p>>, <<a>>)[k] \in 0..(Q - 1)
    BY <1>1, <2>2, <2>5, Mul
  <2>7. /\ Same(ECP_vec_mul(<<p, q>>, <<a, b>>)[k], a * p[k] + b * q[k], Q)
        /\ ECP_vec_mul(<<p, q>>, <<a, b>>)[k] \in 0..(Q - 1)
    BY <1>2, <2>3, <2>5, Mul
  <2>8. /\ Same(ECP_vec_mul(<<p, q, s>>, <<a, b, c>>)[k],
                a * p[k] + b * q[k] + c * s[k], Q)
        /\ ECP_vec_mul(<<p, q, s>>, <<a, b, c>>)[k] \in 0..(Q - 1)
    BY <1>3, <2>4, <2>5, Mul
  <2> QED BY <2>6, <2>7, <2>8
<1> QED BY <1>4, <1>5

\* The next round's P.
IsSumOfThree(f, p, q, s, a, b, c) ==
    /\ p \in Point /\ q \in Point /\ s \in Point /\ a \in Int /\ b \in Int /\ c \in Int
    /\ f = ECP_vec_mul(<<p, q, s>>, <<a, b, c>>)

LEMMA MulThree ==
    ASSUME NEW f, NEW p, NEW q, NEW s, NEW a \in Int, NEW b \in Int, NEW c \in Int,
           IsSumOfThree(f, p, q, s, a, b, c)
    PROVE  /\ f \in Point
           /\ \A k \in 1..Dim : /\ f[k] \in 0..(Q - 1)
                                /\ Same(f[k], a * p[k] + b * q[k] + c * s[k], Q)
BY MulSmall DEF IsSumOfThree

LEMMA MulTwo ==
    ASSUME NEW p \in Point, NEW q \in Point, NEW a \in Int, NEW b \in Int
    PROVE  /\ ECP_vec_mul(<<p, q>>, <<a, b>>) \in Point
           /\ \A k \in 1..Dim :
                /\ ECP_vec_mul(<<p, q>>, <<a, b>>)[k] \in 0..(Q - 1)
                /\ Same(ECP_vec_mul(<<p, q>>, <<a, b>>)[k], a * p[k] + b * q[k], Q)
<1>1. ECP_vec_mul(<<p, q, p>>, <<a, b, a>>) \in Point
  BY MulSmall
<1> QED BY <1>1, MulSmall

Dot(n, a, A, k) == SumTo(n, Products(a, Column(A, k)))

LEMMA DotInt ==
    ASSUME NEW n \in Nat, NEW a \in [1..n -> Int], NEW A \in [1..n -> Point],
           NEW k \in 1..Dim
    PROVE  Dot(n, a, A, k) \in Int
BY ColumnInt, ProductsInt DEF Dot

\* The point of an instance, and the points L and R of a round.
IsInstance(f, n, g, h, p, a, b, c) ==
    /\ g \in [1..n -> Point] /\ h \in [1..n -> Point] /\ p \in Point
    /\ a \in [1..n -> Int] /\ b \in [1..n -> Int] /\ c \in Int
    /\ f = ECP_vec_mul(g \o h \o <<p>>, a \o b \o <<c>>)

LEMMA MulInstance ==
    ASSUME NEW n \in Nat, NEW pt, NEW g, NEW h, NEW p, NEW a, NEW b, NEW c \in Int,
           IsInstance(pt, n, g, h, p, a, b, c)
    PROVE  /\ pt \in Point
           /\ \A k \in 1..Dim :
                /\ pt[k] \in 0..(Q - 1)
                /\ Same(pt[k], Dot(n, a, g, k) + Dot(n, b, h, k) + c * p[k], Q)
<1>t. /\ g \in [1..n -> Point] /\ h \in [1..n -> Point] /\ p \in Point
      /\ a \in [1..n -> Int] /\ b \in [1..n -> Int]
      /\ pt = ECP_vec_mul(g \o h \o <<p>>, a \o b \o <<c>>)
  BY DEF IsInstance
<1>1. PICK N : N = 2 * n + 1 /\ N \in Nat \ {0}
  OBVIOUS
<1>0. N \in Nat \ {0} /\ N \in Nat
  BY <1>1
<1>2. PICK A : A = g \o h \o <<p>>
  OBVIOUS
<1>3. PICK d : d = a \o b \o <<c>>
  OBVIOUS
<1>a. /\ A \in [1..N -> Point] /\ A[N] = p
      /\ \A i \in 1..n : A[i] = g[i] /\ A[n + i] = h[i]
  <2>1. Joins(A, N, n, Point, g, h, p)
    BY <1>1, <1>2, <1>t DEF Joins
  <2> QED BY <1>0, <2>1, Concat3
<1>b. /\ d \in [1..N -> Int] /\ d[N] = c
      /\ \A i \in 1..n : d[i] = a[i] /\ d[n + i] = b[i]
  <2>1. PICK S : S = Int
    OBVIOUS
  <2>2. Joins(d, N, n, S, a, b, c)
    BY <1>1, <1>3, <1>t, <2>1 DEF Joins
  <2>3. /\ d \in [1..N -> S] /\ d[N] = c
        /\ \A i \in 1..n : d[i] = a[i] /\ d[n + i] = b[i]
    BY <1>0, <2>2, Concat3
  <2> QED BY <2>1, <2>3
<1>4. ASSUME NEW k \in 1..Dim
      PROVE  SumTo(N, Products(d, Column(A, k)))
               = Dot(n, a, g, k) + Dot(n, b, h, k) + c * p[k]
  <2>1. /\ Column(A, k) \in [1..N -> Int]
        /\ \A i \in 1..N : Column(A, k)[i] = A[i][k]
        /\ Column(g, k) \in [1..n -> Int] /\ Column(h, k) \in [1..n -> Int]
        /\ \A i \in 1..n : Column(g, k)[i] = g[i][k] /\ Column(h, k)[i] = h[i][k]
    BY <1>0, <1>a, <1>t, ColumnInt
  <2>2. PICK f : f = Products(d, Column(A, k))
    OBVIOUS
  <2>3. \A i \in 1..N : f[i] \in Int /\ f[i] = d[i] * A[i][k]
    <3>1. \A i \in 1..N : f[i] \in Int /\ f[i] = d[i] * Column(A, k)[i]
      BY <1>0, <1>a, <1>b, <2>1, <2>2, ProductsInt
    <3> QED BY <2>1, <3>1
  <2>4. PICK f1 : f1 = Products(a, Column(g, k))
    OBVIOUS
  <2>5. PICK f2 : f2 = Products(b, Column(h, k))
    OBVIOUS
  <2>6. \A i \in 1..n : f1[i] = a[i] * g[i][k] /\ f2[i] = b[i] * h[i][k]
    <3>1. \A i \in 1..n : f1[i] = a[i] * Column(g, k)[i]
      BY <1>t, <2>1, <2>4, ProductsInt
    <3>2. \A i \in 1..n : f2[i] = b[i] * Column(h, k)[i]
      BY <1>t, <2>1, <2>5, ProductsInt
    <3> QED BY <2>1, <3>1, <3>2
  <2>7. \A i \in 1..n : i \in 1..N /\ n + i \in 1..N
    BY <1>1
  <2>8. \A i \in 1..n : f[i] = f1[i] /\ f2[i] = f[n + i]
    BY <1>a, <1>b, <2>3, <2>6, <2>7
  <2>9. \A i \in 1..(n + n) : f[i] \in Int
    BY <1>1, <2>3
  <2>10. SumTo(n + n, f) = SumTo(n, f) + SumTo(n, f2)
    <3>1. Follows(n, n, f, f2)
      BY <2>8 DEF Follows
    <3> QED BY <2>9, <3>1, SumConcat
  <2>11. SumTo(n, f) = SumTo(n, f1)
    BY <2>8, SumEqual
  <2>12. f[N] = c * p[k] /\ N = (n + n) + 1 /\ n + n \in Nat
    <3>1. N \in 1..N
      BY <1>0
    <3>2. f[N] = c * p[k]
      BY <1>a, <1>b, <2>3, <3>1
    <3> QED BY <1>1, <3>2
  <2>13. SumTo(N, f) = SumTo(n + n, f) + f[N]
    BY <2>12, SumStep
  <2> QED BY <1>t, <2>2, <2>4, <2>5, <2>10, <2>11, <2>12, <2>13 DEF Dot
<1>5. /\ ECP_vec_mul(A, d) \in Point
      /\ \A k \in 1..Dim : /\ Same(ECP_vec_mul(A, d)[k],
                                   SumTo(N, Products(d, Column(A, k))), Q)
                           /\ ECP_vec_mul(A, d)[k] \in 0..(Q - 1)
  BY <1>0, <1>a, <1>b, Mul
<1>6. pt = ECP_vec_mul(A, d)
  BY <1>2, <1>3, <1>t
<1> QED BY <1>2, <1>3, <1>4, <1>5, <1>6

\* FoldG and FoldH, with the inverse and the challenge in either place.
Folds(f, m, g, h, w, o) ==
    /\ g \in [1..m -> Point] /\ h \in [1..m -> Point]
    /\ f = ECP_vec_add(ECP_vec_scalar(g, w), ECP_vec_scalar(h, o))

LEMMA FoldPoints ==
    ASSUME NEW m \in Nat, NEW g, NEW h, NEW w \in Int, NEW o \in Int,
           NEW f, Folds(f, m, g, h, w, o)
    PROVE  /\ f \in [1..m -> Point]
           /\ \A i \in 1..m, k \in 1..Dim :
                 /\ f[i][k] \in 0..(Q - 1)
                 /\ Same(f[i][k], w * g[i][k] + o * h[i][k], Q)
<1> DEFINE gg == ECP_vec_scalar(g, w)
           hh == ECP_vec_scalar(h, o)
<1>0. /\ g \in [1..m -> Point] /\ h \in [1..m -> Point]
      /\ f = ECP_vec_add(gg, hh)
  BY DEF Folds
<1>1. /\ gg = [i \in 1..m |-> ECP_vec_mul(<<g[i]>>, <<w>>)]
      /\ hh = [i \in 1..m |-> ECP_vec_mul(<<h[i]>>, <<o>>)]
  BY <1>0, Vector DEF ECP_vec_scalar
<1>2. ASSUME NEW i \in 1..m
      PROVE  /\ gg[i] \in Point /\ hh[i] \in Point
             /\ \A k \in 1..Dim : /\ Same(gg[i][k], w * g[i][k], Q)
                                  /\ Same(hh[i][k], o * h[i][k], Q)
  <2>1. g[i] \in Point /\ h[i] \in Point
    BY <1>0
  <2>2. gg[i] = ECP_vec_mul(<<g[i]>>, <<w>>) /\ hh[i] = ECP_vec_mul(<<h[i]>>, <<o>>)
    BY <1>1
  <2> HIDE DEF gg, hh
  <2> QED BY <2>1, <2>2, MulSmall
<1>3. gg \in [1..m -> Point] /\ hh \in [1..m -> Point]
  BY <1>1, <1>2
<1>4. f = [i \in 1..m |-> ECP_vec_mul(<<gg[i], hh[i]>>, <<1, 1>>)]
  <2> HIDE DEF gg, hh
  <2> QED BY <1>0, <1>3, Vector DEF ECP_vec_add
<1> HIDE DEF gg, hh
<1>5. ASSUME NEW i \in 1..m
      PROVE  /\ f[i] \in Point
             /\ \A k \in 1..Dim : /\ f[i][k] \in 0..(Q - 1)
                                  /\ Same(f[i][k], w * g[i][k] + o * h[i][k], Q)
  <2>1. /\ f[i] \in Point
        /\ \A k \in 1..Dim : /\ f[i][k] \in 0..(Q - 1)
                             /\ Same(f[i][k], 1 * gg[i][k] + 1 * hh[i][k], Q)
    <3>1. f[i] = ECP_vec_mul(<<gg[i], hh[i]>>, <<1, 1>>)
      BY <1>4
    <3>2. gg[i] \in Point /\ hh[i] \in Point /\ 1 \in Int
      BY <1>2
    <3> QED BY <3>1, <3>2, MulTwo
  <2>2. ASSUME NEW k \in 1..Dim
        PROVE  Same(f[i][k], w * g[i][k] + o * h[i][k], Q)
    <3>1. PICK a \in Int, b \in Int, c \in Int, d \in Int, t \in Int :
            /\ a = g[i][k] /\ b = h[i][k] /\ c = gg[i][k] /\ d = hh[i][k]
            /\ t = f[i][k]
      <4>1. \A p \in Point : p[k] \in Int
        BY DEF Point
      <4> QED BY <1>0, <1>2, <2>1, <4>1
    <3>2. w * a \in Int /\ o * b \in Int /\ w * a + o * b \in Int /\ c + d \in Int
      OBVIOUS
    <3>3. Same(c, w * a, Q) /\ Same(d, o * b, Q)
      BY <1>2, <3>1
    <3>4. Same(c + d, w * a + o * b, Q)
      BY <3>2, <3>3, SameSum, SameQ
    <3>5. Same(t, c + d, Q)
      <4>1. 1 * c + 1 * d = c + d
        OBVIOUS
      <4> QED BY <2>1, <3>1, <4>1
    <3> QED BY <3>1, <3>2, <3>4, <3>5, SameTrans, SameQ
  <2> QED BY <2>1, <2>2
<1>6. f \in [1..m -> Point]
  BY <1>4, <1>5
<1> QED BY <1>5, <1>6

-----------------------------------------------------------------------------
(* A round. *)

LEMMA InverseUnit ==
    ASSUME NEW c \in Challenges
    PROVE  /\ c \in Int /\ Inverse(c) \in Int
           /\ Same(c * Inverse(c), 1, Q) /\ Same(Inverse(c) * c, 1, Q)
<1>1. /\ c \in 1..(Q - 1) /\ Q \in Nat /\ Q > 1
      /\ \E w \in 1..(Q - 1) : (c * w) % Q = 1
  BY FieldAssumption
<1>2. PICK w : w = Inverse(c) /\ w \in 1..(Q - 1) /\ (c * w) % Q = 1
  BY <1>1 DEF Inverse
<1>3. c \in Int /\ w \in Int /\ c * w \in Int /\ c * w = w * c
  BY <1>1, <1>2
<1>4. Same((c * w) % Q, c * w, Q)
  BY <1>3, SameQ
<1>5. Same(c * w, 1, Q)
  BY <1>2, <1>3, <1>4, SameReverse, SameQ
<1> QED BY <1>2, <1>3, <1>5

LEMMA InnerProductIs ==
    ASSUME NEW n \in Nat, NEW a \in [1..n -> Int], NEW b \in [1..n -> Int]
    PROVE  /\ BN_vec_inner_product(a, b) \in Int
           /\ Same(BN_vec_inner_product(a, b), SumTo(n, Products(a, b)), Q)
<1>1. BN_vec_inner_product(a, b) = SumTo(n, Products(a, b)) % Q
  <2>1. BN_vec_inner_product(a, b) = SumTo(n, [i \in 1..n |-> a[i] * b[i]]) % Q
    BY Vector DEF BN_vec_inner_product
  <2>2. Products(a, b) = [i \in 1..n |-> a[i] * b[i]]
    BY DEF Products
  <2> QED BY <2>1, <2>2
<1> QED BY <1>1, ProductsInt, SameQ

\* The sum of products over two halves.
AreHalves(a, aL, aR, n, m) ==
    /\ n = 2 * m /\ a \in [1..n -> Int]
    /\ aL \in [1..m -> Int] /\ aR \in [1..m -> Int]
    /\ \A i \in 1..m : aL[i] = a[i] /\ aR[i] = a[m + i]

LEMMA SumHalves ==
    ASSUME NEW m \in Nat, NEW n \in Nat,
           NEW a, NEW aL, NEW aR, NEW b, NEW bL, NEW bR,
           AreHalves(a, aL, aR, n, m), AreHalves(b, bL, bR, n, m)
    PROVE  SumTo(n, Products(a, b))
             = SumTo(m, Products(aL, bL)) + SumTo(m, Products(aR, bR))
<1>0. /\ n = 2 * m /\ a \in [1..n -> Int] /\ b \in [1..n -> Int]
      /\ aL \in [1..m -> Int] /\ aR \in [1..m -> Int]
      /\ bL \in [1..m -> Int] /\ bR \in [1..m -> Int]
  BY DEF AreHalves
<1>1. PICK f, fL, fR : f = Products(a, b) /\ fL = Products(aL, bL) /\ fR = Products(aR, bR)
  OBVIOUS
<1>3. \A i \in 1..n : f[i] = a[i] * b[i] /\ f[i] \in Int
  BY <1>0, <1>1, ProductsInt
<1>4. \A i \in 1..m : fL[i] = aL[i] * bL[i] /\ fR[i] = aR[i] * bR[i]
  <2>1. \A i \in 1..m : fL[i] = aL[i] * bL[i]
    BY <1>0, <1>1, ProductsInt
  <2>2. \A i \in 1..m : fR[i] = aR[i] * bR[i]
    BY <1>0, <1>1, ProductsInt
  <2> QED BY <2>1, <2>2
<1>5. \A i \in 1..m : i \in 1..n /\ m + i \in 1..n
  BY <1>0
<1>6. \A i \in 1..m : fL[i] = f[i] /\ fR[i] = f[m + i]
  BY <1>3, <1>4, <1>5 DEF AreHalves
<1>7. n = m + m
  BY <1>0
<1>8. SumTo(m + m, f) = SumTo(m, f) + SumTo(m, fR)
  <2>1. Follows(m, m, f, fR)
    BY <1>6 DEF Follows
  <2>2. \A i \in 1..(m + m) : f[i] \in Int
    BY <1>3, <1>7
  <2> QED BY <2>1, <2>2, SumConcat
<1>9. SumTo(m, fL) = SumTo(m, f)
  BY <1>6, SumEqual
<1> QED BY <1>1, <1>7, <1>8, <1>9

LEMMA VectorHalves ==
    ASSUME NEW m \in Nat, NEW n \in Nat, n = 2 * m, NEW a \in [1..n -> Int]
    PROVE  AreHalves(a, Left(a), Right(a), n, m)
<1>1. Halved(a, n, m, Int)
  BY DEF Halved
<1> QED BY <1>1, Halves DEF AreHalves

LEMMA DotHalves ==
    ASSUME NEW m \in Nat, NEW n \in Nat, NEW a, NEW A, NEW k \in 1..Dim,
           Halved(a, n, m, Int), Halved(A, n, m, Point)
    PROVE  Dot(n, a, A, k)
             = Dot(m, Left(a), Left(A), k) + Dot(m, Right(a), Right(A), k)
<1>0. n = 2 * m /\ a \in [1..n -> Int] /\ A \in [1..n -> Point]
  BY DEF Halved
<1>1. PICK aL \in [1..m -> Int], aR \in [1..m -> Int] :
        aL = Left(a) /\ aR = Right(a) /\ AreHalves(a, aL, aR, n, m)
  <2>1. AreHalves(a, Left(a), Right(a), n, m)
    BY <1>0, VectorHalves
  <2> QED BY <2>1 DEF AreHalves
<1>2. PICK gL \in [1..m -> Point], gR \in [1..m -> Point] :
        /\ gL = Left(A) /\ gR = Right(A)
        /\ \A i \in 1..m : gL[i] = A[i] /\ gR[i] = A[m + i]
  BY Halves
<1>3. PICK b \in [1..n -> Int] : /\ b = Column(A, k)
                                 /\ \A i \in 1..n : b[i] = A[i][k]
  BY <1>0, ColumnInt
<1>4. PICK bL \in [1..m -> Int] : /\ bL = Column(gL, k)
                                  /\ \A i \in 1..m : bL[i] = gL[i][k]
  BY <1>0, ColumnInt
<1>5. PICK bR \in [1..m -> Int] : /\ bR = Column(gR, k)
                                  /\ \A i \in 1..m : bR[i] = gR[i][k]
  BY <1>0, ColumnInt
<1>6. \A i \in 1..m : i \in 1..n /\ m + i \in 1..n
  BY <1>0
<1>7. AreHalves(b, bL, bR, n, m)
  BY <1>0, <1>2, <1>3, <1>4, <1>5, <1>6 DEF AreHalves
<1>8. SumTo(n, Products(a, b))
        = SumTo(m, Products(aL, bL)) + SumTo(m, Products(aR, bR))
  BY <1>1, <1>7, SumHalves
<1> QED BY <1>1, <1>2, <1>3, <1>4, <1>5, <1>8 DEF Dot

\* c * t is the same for numbers c that are, and so are sums of three terms.
LEMMA SameThird ==
    ASSUME NEW n \in Nat \ {0}, NEW a1 \in Int, NEW a2 \in Int, NEW b1 \in Int,
           NEW b2 \in Int, NEW c1 \in Int, NEW c2 \in Int, NEW t \in Int,
           Same(a1, a2, n), Same(b1, b2, n), Same(c1, c2, n)
    PROVE  Same(a1 + b1 + c1 * t, a2 + b2 + c2 * t, n)
<1>1. Same(c1 * t, c2 * t, n)
  BY SameProduct
<1>2. Same(a1 + b1, a2 + b2, n)
  BY SameSum
<1>3. PICK p1 \in Int, p2 \in Int, s1 \in Int, s2 \in Int :
        p1 = c1 * t /\ p2 = c2 * t /\ s1 = a1 + b1 /\ s2 = a2 + b2
  OBVIOUS
<1>4. Same(s1 + p1, s2 + p2, n)
  BY <1>1, <1>2, <1>3, SameSum
<1> QED BY <1>3, <1>4

LEMMA SameSelf ==
    ASSUME NEW n \in Nat \ {0}, NEW a \in Int
    PROVE  Same(a, a, n)
<1>1. a = a + n * 0
  OBVIOUS
<1> QED BY <1>1 DEF Same

\* The exponents of one generator: l and r of the points L and R, p of P, and
\* n1 of the next round's P.
RoundSums(l, q, p, n1, ww, oo, t, A1, A2, A3, A4, B1, B2, B3, B4, c1, c2, c3, c4) ==
    /\ Same(l, A3 + B3 + c3 * t, Q) /\ Same(q, A4 + B4 + c4 * t, Q)
    /\ Same(p, (A1 + A2) + (B1 + B2) + (c1 + c2) * t, Q)
    /\ Same(n1, ((A1 + A2) + (ww * A3 + oo * A4))
                  + ((B1 + B2) + (oo * B4 + ww * B3))
                  + ((c1 + c2) + (ww * c3 + oo * c4)) * t, Q)

LEMMA RoundNumbers ==
    ASSUME NEW ww \in Int, NEW oo \in Int, NEW t \in Int,
           NEW A1 \in Int, NEW A2 \in Int, NEW A3 \in Int, NEW A4 \in Int,
           NEW B1 \in Int, NEW B2 \in Int, NEW B3 \in Int, NEW B4 \in Int,
           NEW c1 \in Int, NEW c2 \in Int, NEW c3 \in Int, NEW c4 \in Int,
           NEW l \in Int, NEW q \in Int, NEW p \in Int, NEW n1 \in Int,
           RoundSums(l, q, p, n1, ww, oo, t, A1, A2, A3, A4, B1, B2, B3, B4,
                     c1, c2, c3, c4)
    PROVE  Same(ww * l + 1 * p + oo * q, n1, Q)
<1>0. Q \in Nat \ {0}
  BY FieldAssumption
<1>a. /\ Same(l, A3 + B3 + c3 * t, Q) /\ Same(q, A4 + B4 + c4 * t, Q)
      /\ Same(p, (A1 + A2) + (B1 + B2) + (c1 + c2) * t, Q)
      /\ Same(n1, ((A1 + A2) + (ww * A3 + oo * A4))
                    + ((B1 + B2) + (oo * B4 + ww * B3))
                    + ((c1 + c2) + (ww * c3 + oo * c4)) * t, Q)
  BY DEF RoundSums
<1>1. PICK l0 \in Int, q0 \in Int, p0 \in Int, m0 \in Int :
        /\ l0 = A3 + B3 + c3 * t /\ q0 = A4 + B4 + c4 * t
        /\ p0 = (A1 + A2) + (B1 + B2) + (c1 + c2) * t
        /\ m0 = ((A1 + A2) + (ww * A3 + oo * A4))
                  + ((B1 + B2) + (oo * B4 + ww * B3))
                  + ((c1 + c2) + (ww * c3 + oo * c4)) * t
  OBVIOUS
<1>2. Same(l * ww, l0 * ww, Q) /\ Same(q * oo, q0 * oo, Q)
  BY <1>0, <1>1, <1>a, SameProduct
<1>3. PICK l1 \in Int, l2 \in Int, q1 \in Int, q2 \in Int :
        l1 = l * ww /\ l2 = l0 * ww /\ q1 = q * oo /\ q2 = q0 * oo
  OBVIOUS
<1>4. Same(p, p0, Q) /\ Same(l1, l2, Q) /\ Same(q1, q2, Q)
  BY <1>1, <1>2, <1>3, <1>a
<1>5. Same(l1 + p, l2 + p0, Q)
  BY <1>0, <1>4, SameSum
<1>6. Same((l1 + p) + q1, (l2 + p0) + q2, Q)
  <2>1. l1 + p \in Int /\ l2 + p0 \in Int
    OBVIOUS
  <2> QED BY <1>0, <1>4, <1>5, <2>1, SameSum
<1>7. (l2 + p0) + q2 = m0
  <2>1. /\ l0 * ww = ww * A3 + ww * B3 + (ww * c3) * t
        /\ q0 * oo = oo * A4 + oo * B4 + (oo * c4) * t
    BY <1>1
  <2>2. ((c1 + c2) + (ww * c3 + oo * c4)) * t
          = (c1 + c2) * t + ((ww * c3) * t + (oo * c4) * t)
    OBVIOUS
  <2>3. PICK e1 \in Int, e2 \in Int, e3 \in Int, e4 \in Int, e5 \in Int,
             e6 \in Int, e7 \in Int, e8 \in Int :
          /\ e1 = ww * A3 /\ e2 = ww * B3 /\ e3 = (ww * c3) * t
          /\ e4 = oo * A4 /\ e5 = oo * B4 /\ e6 = (oo * c4) * t
          /\ e7 = (c1 + c2) * t
          /\ e8 = ((c1 + c2) + (ww * c3 + oo * c4)) * t
    OBVIOUS
  <2>4. l2 = e1 + e2 + e3 /\ q2 = e4 + e5 + e6
    BY <1>3, <2>1, <2>3
  <2>5. p0 = (A1 + A2) + (B1 + B2) + e7 /\ e8 = e7 + (e3 + e6)
    BY <1>1, <2>2, <2>3
  <2>6. m0 = ((A1 + A2) + (e1 + e4)) + ((B1 + B2) + (e5 + e2)) + e8
    BY <1>1, <2>3
  <2> QED BY <2>4, <2>5, <2>6
<1>8. Same(n1, m0, Q)
  BY <1>1, <1>a
<1>9. PICK s1 \in Int : s1 = (l1 + p) + q1
  OBVIOUS
<1>10. Same(s1, n1, Q)
  BY <1>0, <1>6, <1>7, <1>8, <1>9, SameReverse, SameTrans
<1>11. ww * l + 1 * p + oo * q = s1
  <2>1. ww * l = l1 /\ oo * q = q1 /\ 1 * p = p
    BY <1>3
  <2> QED BY <1>9, <2>1
<1> QED BY <1>10, <1>11

\* Two points whose exponents are the same.
LEMMA PointsEqual ==
    ASSUME NEW s \in Point, NEW t \in Point,
           \A k \in 1..Dim : /\ s[k] \in 0..(Q - 1) /\ t[k] \in 0..(Q - 1)
                             /\ Same(s[k], t[k], Q)
    PROVE  s = t
<1>1. ASSUME NEW k \in 1..Dim PROVE s[k] = t[k]
  <2>1. PICK a \in 0..(Q - 1), b \in 0..(Q - 1) : a = s[k] /\ b = t[k]
    OBVIOUS
  <2>2. Q \in Nat \ {0} /\ Same(a, b, Q) /\ b \in Int
    BY <2>1, FieldAssumption
  <2>b. b % Q = b
    BY <2>2
  <2>3. a = b % Q
    BY <2>2, SameEqual
  <2> QED BY <2>1, <2>b, <2>3
<1>2. s = [k \in 1..Dim |-> s[k]] /\ t = [k \in 1..Dim |-> t[k]]
  BY DEF Point
<1>3. [k \in 1..Dim |-> s[k]] = [k \in 1..Dim |-> t[k]]
  BY <1>1
<1> QED BY <1>2, <1>3

\* The folded witness.
LEMMA FoldScalars ==
    ASSUME NEW m \in Nat, NEW a \in [1..m -> Int], NEW b \in [1..m -> Int],
           NEW w \in Int, NEW o \in Int
    PROVE  LET f == BN_vec_add(BN_vec_scalar(a, w), BN_vec_scalar(b, o))
           IN /\ f \in [1..m -> Int]
              /\ \A i \in 1..m : Same(f[i], w * a[i] + o * b[i], Q)
<1> DEFINE aa == BN_vec_scalar(a, w)
           bb == BN_vec_scalar(b, o)
           f == BN_vec_add(aa, bb)
<1>1. /\ aa = [i \in 1..m |-> (a[i] * w) % Q]
      /\ bb = [i \in 1..m |-> (b[i] * o) % Q]
  BY Vector DEF BN_vec_scalar
<1>2. ASSUME NEW i \in 1..m
      PROVE  /\ aa[i] \in Int /\ bb[i] \in Int
             /\ Same(aa[i], w * a[i], Q) /\ Same(bb[i], o * b[i], Q)
  <2>1. PICK s \in Int, t \in Int : s = a[i] /\ t = b[i]
    OBVIOUS
  <2>2. PICK sw \in Int, to \in Int : /\ sw = s * w /\ to = t * o
                                      /\ sw = w * s /\ to = o * t
    OBVIOUS
  <2>3. aa[i] = sw % Q /\ bb[i] = to % Q
    BY <1>1, <2>1, <2>2
  <2> HIDE DEF aa, bb
  <2> QED BY <2>1, <2>2, <2>3, SameQ
<1>3. aa \in [1..m -> Int] /\ bb \in [1..m -> Int]
  BY <1>1, <1>2
<1> HIDE DEF aa, bb
<1>4. f = [i \in 1..m |-> (aa[i] + bb[i]) % Q]
  BY <1>3, Vector DEF BN_vec_add
<1> HIDE DEF f
<1>5. ASSUME NEW i \in 1..m
      PROVE  f[i] \in Int /\ Same(f[i], w * a[i] + o * b[i], Q)
  <2>1. PICK s \in Int, t \in Int, s1 \in Int, t1 \in Int :
          /\ s = aa[i] /\ t = bb[i] /\ s1 = w * a[i] /\ t1 = o * b[i]
          /\ Same(s, s1, Q) /\ Same(t, t1, Q)
    <3>1. a[i] \in Int /\ b[i] \in Int
      OBVIOUS
    <3>2. w * a[i] \in Int /\ o * b[i] \in Int
      BY <3>1
    <3> QED BY <1>2, <3>2
  <2>2. PICK st \in Int, st1 \in Int : st = s + t /\ st1 = s1 + t1
    OBVIOUS
  <2>3. Same(st, st1, Q) /\ Same(st % Q, st, Q) /\ st % Q \in Int
    BY <2>1, <2>2, SameSum, SameQ
  <2>4. Same(st % Q, st1, Q)
    BY <2>3, SameTrans, SameQ
  <2>5. f[i] = st % Q
    BY <1>4, <2>1, <2>2
  <2> QED BY <2>1, <2>2, <2>3, <2>4, <2>5
<1>6. f \in [1..m -> Int]
  BY <1>4, <1>5
<1> QED BY <1>5, <1>6 DEF f, aa, bb

\* d folds s and t, with the challenge and its inverse in either place.
FoldsTo(d, m, s, t, w, o) ==
    /\ d \in [1..m -> Int] /\ s \in [1..m -> Int] /\ t \in [1..m -> Int]
    /\ \A i \in 1..m : Same(d[i], w * s[i] + o * t[i], Q)

LEMMA FoldBoth ==
    ASSUME NEW m \in Nat, NEW w \in Int, NEW o \in Int, NEW ww \in Int, NEW oo \in Int,
           ww = w * w, oo = o * o, Same(w * o, 1, Q),
           NEW d, NEW s, NEW t, NEW f, NEW p, NEW q,
           FoldsTo(d, m, s, t, w, o), FoldsTo(f, m, p, q, o, w)
    PROVE  Same(SumTo(m, Products(d, f)),
                (SumTo(m, Products(s, p)) + SumTo(m, Products(t, q)))
                  + (ww * SumTo(m, Products(s, q)) + oo * SumTo(m, Products(t, p))), Q)
<1>1. /\ d \in [1..m -> Int] /\ s \in [1..m -> Int] /\ t \in [1..m -> Int]
      /\ f \in [1..m -> Int] /\ p \in [1..m -> Int] /\ q \in [1..m -> Int]
      /\ \A i \in 1..m : /\ Same(d[i], w * s[i] + o * t[i], Q)
                         /\ Same(f[i], o * p[i] + w * q[i], Q)
  BY DEF FoldsTo
<1> QED BY <1>1, FoldSum, SameQ, FieldAssumption

\* One level of the recursion: the next instance, and its witness.
IsStep(n, m, c, o, g, h, p, uu, a, b, L, R, p1, g1, h1, a1, b1) ==
    /\ n = 2 * m /\ o = Inverse(c)
    /\ g \in [1..n -> Point] /\ h \in [1..n -> Point]
    /\ a \in [1..n -> Int] /\ b \in [1..n -> Int]
    /\ p \in Point /\ uu \in Point /\ p = Commitment(g, h, uu, a, b)
    /\ L = ECP_vec_mul(Right(g) \o Left(h) \o <<uu>>,
             Left(a) \o Right(b) \o <<BN_vec_inner_product(Left(a), Right(b))>>)
    /\ R = ECP_vec_mul(Left(g) \o Right(h) \o <<uu>>,
             Right(a) \o Left(b) \o <<BN_vec_inner_product(Right(a), Left(b))>>)
    /\ p1 = ECP_vec_mul(<<L, p, R>>, <<c * c, 1, o * o>>)
    /\ g1 = FoldG(g, c) /\ h1 = FoldH(h, c)
    /\ a1 = BN_vec_add(BN_vec_scalar(Left(a), c), BN_vec_scalar(Right(a), o))
    /\ b1 = BN_vec_add(BN_vec_scalar(Left(b), o), BN_vec_scalar(Right(b), c))

LEMMA Round ==
    ASSUME NEW m \in Nat, NEW n \in Nat, NEW c \in Challenges,
           NEW g, NEW h, NEW a, NEW b, NEW p, NEW uu, NEW L, NEW R, NEW o,
           NEW p1, NEW g1, NEW h1, NEW a1, NEW b1,
           IsStep(n, m, c, o, g, h, p, uu, a, b, L, R, p1, g1, h1, a1, b1)
    PROVE  /\ g1 \in [1..m -> Point] /\ h1 \in [1..m -> Point]
           /\ a1 \in [1..m -> Int] /\ b1 \in [1..m -> Int]
           /\ p1 \in Point /\ p1 = Commitment(g1, h1, uu, a1, b1)
<1>0. /\ n = 2 * m /\ o = Inverse(c)
      /\ g \in [1..n -> Point] /\ h \in [1..n -> Point]
      /\ a \in [1..n -> Int] /\ b \in [1..n -> Int]
      /\ p \in Point /\ uu \in Point /\ p = Commitment(g, h, uu, a, b)
      /\ L = ECP_vec_mul(Right(g) \o Left(h) \o <<uu>>,
               Left(a) \o Right(b) \o <<BN_vec_inner_product(Left(a), Right(b))>>)
      /\ R = ECP_vec_mul(Left(g) \o Right(h) \o <<uu>>,
               Right(a) \o Left(b) \o <<BN_vec_inner_product(Right(a), Left(b))>>)
      /\ p1 = ECP_vec_mul(<<L, p, R>>, <<c * c, 1, o * o>>)
      /\ g1 = FoldG(g, c) /\ h1 = FoldH(h, c)
      /\ a1 = BN_vec_add(BN_vec_scalar(Left(a), c), BN_vec_scalar(Right(a), o))
      /\ b1 = BN_vec_add(BN_vec_scalar(Left(b), o), BN_vec_scalar(Right(b), c))
  BY DEF IsStep
<1> USE <1>0
<1>1. /\ c \in Int /\ o \in Int /\ Same(c * o, 1, Q) /\ Same(o * c, 1, Q)
      /\ Q \in Nat \ {0} /\ n \in Nat
  BY InverseUnit, FieldAssumption
<1>2. PICK ww \in Int, oo \in Int : ww = c * c /\ oo = o * o
  BY <1>1
<1>3. PICK gL \in [1..m -> Point], gR \in [1..m -> Point] : gL = Left(g) /\ gR = Right(g)
  <2>1. Halved(g, n, m, Point)
    BY DEF Halved
  <2> QED BY <2>1, Halves
<1>4. PICK hL \in [1..m -> Point], hR \in [1..m -> Point] : hL = Left(h) /\ hR = Right(h)
  <2>1. Halved(h, n, m, Point)
    BY DEF Halved
  <2> QED BY <2>1, Halves
<1>5. PICK aL \in [1..m -> Int], aR \in [1..m -> Int] :
        aL = Left(a) /\ aR = Right(a) /\ AreHalves(a, aL, aR, n, m)
  <2>1. AreHalves(a, Left(a), Right(a), n, m)
    BY VectorHalves
  <2> QED BY <2>1 DEF AreHalves
<1>6. PICK bL \in [1..m -> Int], bR \in [1..m -> Int] :
        bL = Left(b) /\ bR = Right(b) /\ AreHalves(b, bL, bR, n, m)
  <2>1. AreHalves(b, Left(b), Right(b), n, m)
    BY VectorHalves
  <2> QED BY <2>1 DEF AreHalves
<1>7. /\ g1 \in [1..m -> Point]
      /\ \A i \in 1..m, k \in 1..Dim : Same(g1[i][k], o * gL[i][k] + c * gR[i][k], Q)
  <2>1. Folds(g1, m, gL, gR, o, c)
    BY <1>3 DEF FoldG, Folds
  <2> QED BY <1>1, <2>1, FoldPoints
<1>8. /\ h1 \in [1..m -> Point]
      /\ \A i \in 1..m, k \in 1..Dim : Same(h1[i][k], c * hL[i][k] + o * hR[i][k], Q)
  <2>1. Folds(h1, m, hL, hR, c, o)
    BY <1>4 DEF FoldH, Folds
  <2> QED BY <1>1, <2>1, FoldPoints
<1>9. /\ a1 \in [1..m -> Int]
      /\ \A i \in 1..m : Same(a1[i], c * aL[i] + o * aR[i], Q)
  BY <1>1, <1>5, FoldScalars
<1>10. /\ b1 \in [1..m -> Int]
       /\ \A i \in 1..m : Same(b1[i], o * bL[i] + c * bR[i], Q)
  BY <1>1, <1>6, FoldScalars
<1>11. FoldsTo(a1, m, aL, aR, c, o) /\ FoldsTo(b1, m, bL, bR, o, c)
  BY <1>9, <1>10 DEF FoldsTo
<1>12. PICK q1 : q1 = Commitment(g1, h1, uu, a1, b1)
  OBVIOUS
<1>13. PICK i0 \in Int, i1 \in Int, i3 \in Int, i4 \in Int :
         /\ i0 = BN_vec_inner_product(a, b) /\ i1 = BN_vec_inner_product(a1, b1)
         /\ i3 = BN_vec_inner_product(aL, bR) /\ i4 = BN_vec_inner_product(aR, bL)
  BY <1>1, <1>9, <1>10, InnerProductIs
<1>14. /\ L = ECP_vec_mul(gR \o hL \o <<uu>>, aL \o bR \o <<i3>>)
       /\ R = ECP_vec_mul(gL \o hR \o <<uu>>, aR \o bL \o <<i4>>)
       /\ p = ECP_vec_mul(g \o h \o <<uu>>, a \o b \o <<i0>>)
       /\ q1 = ECP_vec_mul(g1 \o h1 \o <<uu>>, a1 \o b1 \o <<i1>>)
  BY <1>3, <1>4, <1>5, <1>6, <1>12, <1>13 DEF Commitment
<1>15. /\ L \in Point
       /\ \A k \in 1..Dim : Same(L[k], Dot(m, aL, gR, k) + Dot(m, bR, hL, k) + i3 * uu[k], Q)
  <2>1. IsInstance(L, m, gR, hL, uu, aL, bR, i3)
    BY <1>14 DEF IsInstance
  <2> QED BY <2>1, MulInstance
<1>16. /\ R \in Point
       /\ \A k \in 1..Dim : Same(R[k], Dot(m, aR, gL, k) + Dot(m, bL, hR, k) + i4 * uu[k], Q)
  <2>1. IsInstance(R, m, gL, hR, uu, aR, bL, i4)
    BY <1>14 DEF IsInstance
  <2> QED BY <2>1, MulInstance
<1>17. \A k \in 1..Dim : Same(p[k], Dot(n, a, g, k) + Dot(n, b, h, k) + i0 * uu[k], Q)
  <2>1. IsInstance(p, n, g, h, uu, a, b, i0)
    BY <1>14 DEF IsInstance
  <2> QED BY <2>1, MulInstance
<1>18. /\ q1 \in Point
       /\ \A k \in 1..Dim : /\ q1[k] \in 0..(Q - 1)
                            /\ Same(q1[k], Dot(m, a1, g1, k) + Dot(m, b1, h1, k)
                                             + i1 * uu[k], Q)
  <2>1. IsInstance(q1, m, g1, h1, uu, a1, b1, i1)
    BY <1>7, <1>8, <1>9, <1>10, <1>14 DEF IsInstance
  <2> QED BY <2>1, MulInstance
<1>19. /\ p1 \in Point
       /\ \A k \in 1..Dim : /\ p1[k] \in 0..(Q - 1)
                            /\ Same(p1[k], ww * L[k] + 1 * p[k] + oo * R[k], Q)
  <2>1. PICK one \in Int : one = 1
    OBVIOUS
  <2>2. IsSumOfThree(p1, L, p, R, ww, one, oo)
    BY <1>2, <1>15, <1>16, <2>1 DEF IsSumOfThree
  <2>3. /\ p1 \in Point
        /\ \A k \in 1..Dim : /\ p1[k] \in 0..(Q - 1)
                             /\ Same(p1[k], ww * L[k] + one * p[k] + oo * R[k], Q)
    BY <2>2, MulThree
  <2> QED BY <2>1, <2>3
<1>20. ASSUME NEW k \in 1..Dim PROVE Same(p1[k], q1[k], Q)
  <2> DEFINE kgL == Column(gL, k)
             kgR == Column(gR, k)
             khL == Column(hL, k)
             khR == Column(hR, k)
             kg1 == Column(g1, k)
             kh1 == Column(h1, k)
  <2>1. /\ kgL \in [1..m -> Int] /\ \A i \in 1..m : kgL[i] = gL[i][k]
        /\ kgR \in [1..m -> Int] /\ \A i \in 1..m : kgR[i] = gR[i][k]
    BY ColumnInt
  <2>2. /\ khL \in [1..m -> Int] /\ \A i \in 1..m : khL[i] = hL[i][k]
        /\ khR \in [1..m -> Int] /\ \A i \in 1..m : khR[i] = hR[i][k]
    BY ColumnInt
  <2>3. /\ kg1 \in [1..m -> Int] /\ \A i \in 1..m : kg1[i] = g1[i][k]
        /\ kh1 \in [1..m -> Int] /\ \A i \in 1..m : kh1[i] = h1[i][k]
    BY <1>7, <1>8, ColumnInt
  <2> HIDE DEF kgL, kgR, khL, khR, kg1, kh1
  <2>4. FoldsTo(kg1, m, kgL, kgR, o, c)
    BY <1>7, <2>1, <2>3 DEF FoldsTo
  <2>5. FoldsTo(kh1, m, khL, khR, c, o)
    BY <1>8, <2>2, <2>3 DEF FoldsTo
  <2> DEFINE A1 == SumTo(m, Products(aL, kgL))
             A2 == SumTo(m, Products(aR, kgR))
             A3 == SumTo(m, Products(aL, kgR))
             A4 == SumTo(m, Products(aR, kgL))
             B1 == SumTo(m, Products(bL, khL))
             B2 == SumTo(m, Products(bR, khR))
             B3 == SumTo(m, Products(bR, khL))
             B4 == SumTo(m, Products(bL, khR))
             c1 == SumTo(m, Products(aL, bL))
             c2 == SumTo(m, Products(aR, bR))
             c3 == SumTo(m, Products(aL, bR))
             c4 == SumTo(m, Products(aR, bL))
             DA == SumTo(m, Products(a1, kg1))
             DB == SumTo(m, Products(b1, kh1))
             DC == SumTo(m, Products(a1, b1))
  <2>6. A1 \in Int /\ A2 \in Int /\ A3 \in Int /\ A4 \in Int
    BY <2>1, ProductsInt
  <2>7. B1 \in Int /\ B2 \in Int /\ B3 \in Int /\ B4 \in Int
    BY <2>2, ProductsInt
  <2>8. c1 \in Int /\ c2 \in Int /\ c3 \in Int /\ c4 \in Int
    BY ProductsInt
  <2>9. DA \in Int /\ DB \in Int /\ DC \in Int
    BY <1>9, <1>10, <2>3, ProductsInt
  <2>10. Same(DA, (A1 + A2) + (ww * A3 + oo * A4), Q)
    BY <1>1, <1>2, <1>11, <2>4, FoldBoth
  <2>11. Same(DB, (B1 + B2) + (oo * B4 + ww * B3), Q)
    BY <1>1, <1>2, <1>11, <2>5, FoldBoth
  <2>12. Same(DC, (c1 + c2) + (ww * c3 + oo * c4), Q)
    BY <1>1, <1>2, <1>11, FoldBoth
  <2>13. PICK t \in Int, l \in Int, f \in Int, s \in Int, q \in Int, pp \in Int :
           t = uu[k] /\ l = L[k] /\ f = R[k] /\ s = p[k] /\ q = q1[k] /\ pp = p1[k]
    BY <1>15, <1>16, <1>18, <1>19 DEF Point
  <2>14. /\ Same(l, A3 + B3 + i3 * t, Q) /\ Same(f, A4 + B4 + i4 * t, Q)
         /\ Same(q, DA + DB + i1 * t, Q)
    <3>1. /\ Dot(m, aL, gR, k) = A3 /\ Dot(m, bR, hL, k) = B3
          /\ Dot(m, aR, gL, k) = A4 /\ Dot(m, bL, hR, k) = B4
          /\ Dot(m, a1, g1, k) = DA /\ Dot(m, b1, h1, k) = DB
      BY DEF Dot, kgL, kgR, khL, khR, kg1, kh1
    <3> HIDE DEF A3, A4, B3, B4, DA, DB
    <3> QED BY <1>15, <1>16, <1>18, <2>13, <3>1
  <2>15. Same(s, (A1 + A2) + (B1 + B2) + i0 * t, Q)
    <3>1. Dot(n, a, g, k) = A1 + A2 /\ Dot(n, b, h, k) = B1 + B2
      <4>1. /\ Dot(m, aL, gL, k) = A1 /\ Dot(m, aR, gR, k) = A2
            /\ Dot(m, bL, hL, k) = B1 /\ Dot(m, bR, hR, k) = B2
        BY DEF Dot, kgL, kgR, khL, khR
      <4>2. /\ Dot(n, a, g, k) = Dot(m, aL, gL, k) + Dot(m, aR, gR, k)
            /\ Dot(n, b, h, k) = Dot(m, bL, hL, k) + Dot(m, bR, hR, k)
        <5>1. /\ Halved(a, n, m, Int) /\ Halved(b, n, m, Int)
              /\ Halved(g, n, m, Point) /\ Halved(h, n, m, Point)
          BY DEF Halved
        <5>2. Dot(n, a, g, k) = Dot(m, Left(a), Left(g), k) + Dot(m, Right(a), Right(g), k)
          BY <5>1, DotHalves
        <5>3. Dot(n, b, h, k) = Dot(m, Left(b), Left(h), k) + Dot(m, Right(b), Right(h), k)
          BY <5>1, DotHalves
        <5> QED BY <1>3, <1>4, <1>5, <1>6, <5>2, <5>3
      <4> QED BY <4>1, <4>2
    <3> HIDE DEF A1, A2, B1, B2
    <3> QED BY <1>17, <2>13, <3>1
  <2>16. /\ Same(i3, c3, Q) /\ Same(i4, c4, Q) /\ Same(i1, DC, Q)
         /\ Same(i0, c1 + c2, Q)
    <3>1. Same(i3, c3, Q) /\ Same(i4, c4, Q) /\ Same(i1, DC, Q)
      BY <1>9, <1>10, <1>13, InnerProductIs
    <3>2. Same(i0, SumTo(n, Products(a, b)), Q)
      BY <1>1, <1>13, InnerProductIs
    <3>3. SumTo(n, Products(a, b)) = c1 + c2
      BY <1>1, <1>5, <1>6, SumHalves
    <3> QED BY <3>1, <3>2, <3>3
  <2> HIDE DEF A1, A2, A3, A4, B1, B2, B3, B4, c1, c2, c3, c4, DA, DB, DC
  <2>17. PICK dA \in Int, dB \in Int, dC \in Int, a12 \in Int, b12 \in Int, c12 \in Int :
           /\ dA = (A1 + A2) + (ww * A3 + oo * A4)
           /\ dB = (B1 + B2) + (oo * B4 + ww * B3)
           /\ dC = (c1 + c2) + (ww * c3 + oo * c4)
           /\ a12 = A1 + A2 /\ b12 = B1 + B2 /\ c12 = c1 + c2
    BY <2>6, <2>7, <2>8
  <2>18. Same(i1, dC, Q)
    BY <1>1, <2>9, <2>12, <2>16, <2>17, SameTrans
  <2>19. Same(l, A3 + B3 + c3 * t, Q)
    <3>1. Same(A3 + B3 + i3 * t, A3 + B3 + c3 * t, Q)
      BY <1>1, <2>6, <2>7, <2>8, <2>16, SameSelf, SameThird
    <3>2. A3 + B3 + i3 * t \in Int /\ A3 + B3 + c3 * t \in Int
      BY <2>6, <2>7, <2>8
    <3> QED BY <1>1, <2>14, <3>1, <3>2, SameTrans
  <2>20. Same(f, A4 + B4 + c4 * t, Q)
    <3>1. Same(A4 + B4 + i4 * t, A4 + B4 + c4 * t, Q)
      BY <1>1, <2>6, <2>7, <2>8, <2>16, SameSelf, SameThird
    <3>2. A4 + B4 + i4 * t \in Int /\ A4 + B4 + c4 * t \in Int
      BY <2>6, <2>7, <2>8
    <3> QED BY <1>1, <2>14, <3>1, <3>2, SameTrans
  <2>21. Same(s, a12 + b12 + c12 * t, Q)
    <3>1. Same(a12 + b12 + i0 * t, a12 + b12 + c12 * t, Q)
      BY <1>1, <2>16, <2>17, SameSelf, SameThird
    <3>2. a12 + b12 + i0 * t \in Int /\ a12 + b12 + c12 * t \in Int
      OBVIOUS
    <3>3. Same(s, a12 + b12 + i0 * t, Q)
      BY <2>15, <2>17
    <3> QED BY <1>1, <3>1, <3>2, <3>3, SameTrans
  <2>22. Same(q, dA + dB + dC * t, Q)
    <3>1. Same(DA + DB + i1 * t, dA + dB + dC * t, Q)
      BY <1>1, <2>9, <2>10, <2>11, <2>17, <2>18, SameThird
    <3>2. DA + DB + i1 * t \in Int /\ dA + dB + dC * t \in Int
      BY <2>9
    <3> QED BY <1>1, <2>14, <3>1, <3>2, SameTrans
  <2>23. Same(ww * l + 1 * s + oo * f, q, Q)
    <3>1. Same(s, (A1 + A2) + (B1 + B2) + (c1 + c2) * t, Q)
      BY <2>17, <2>21
    <3>2. Same(q, ((A1 + A2) + (ww * A3 + oo * A4))
                    + ((B1 + B2) + (oo * B4 + ww * B3))
                    + ((c1 + c2) + (ww * c3 + oo * c4)) * t, Q)
      BY <2>17, <2>22
    <3>3. RoundSums(l, f, s, q, ww, oo, t, A1, A2, A3, A4, B1, B2, B3, B4,
                    c1, c2, c3, c4)
      BY <2>19, <2>20, <3>1, <3>2 DEF RoundSums
    <3> QED BY <2>6, <2>7, <2>8, <3>3, RoundNumbers
  <2>24. Same(pp, ww * l + 1 * s + oo * f, Q)
    BY <1>19, <2>13
  <2>25. ww * l + 1 * s + oo * f \in Int
    OBVIOUS
  <2>26. Same(pp, q, Q)
    BY <1>1, <2>23, <2>24, <2>25, SameTrans
  <2> QED BY <2>13, <2>26
<1>21. p1 = q1
  BY <1>18, <1>19, <1>20, PointsEqual
<1> QED BY <1>7, <1>8, <1>9, <1>10, <1>12, <1>19, <1>21

-----------------------------------------------------------------------------
(* Powers. *)

IsPowers(n, b, s) == s = [k \in 1..n |-> IF k = 1 THEN 1 ELSE (b * s[k - 1]) % Q]

LEMMA PowersExist ==
    ASSUME NEW b, NEW n \in Nat
    PROVE  \E s : IsPowers(n, b, s)
<1> DEFINE T == {k \in 0..n : \E s : IsPowers(k, b, s)}
<1>1. 0 \in T
  <2>1. IsPowers(0, b, [k \in 1..0 |-> 1])
    BY DEF IsPowers
  <2> QED BY <2>1
<1>2. ASSUME NEW a \in 0..(n - 1), a \in T PROVE a + 1 \in T
  <2>1. PICK s : IsPowers(a, b, s)
    BY <1>2
  <2>2. PICK d \in Nat : d = a + 1
    OBVIOUS
  <2> DEFINE w == [k \in 1..d |-> IF k = d THEN (IF d = 1 THEN 1 ELSE (b * s[a]) % Q)
                                  ELSE s[k]]
  <2>3. ASSUME NEW k \in 1..d
        PROVE  w[k] = IF k = 1 THEN 1 ELSE (b * w[k - 1]) % Q
    <3>1. CASE k = d
      BY <2>2, <3>1
    <3>2. CASE k # d
      <4>1. k \in 1..a
        BY <2>2, <3>2
      <4>2. s[k] = IF k = 1 THEN 1 ELSE (b * s[k - 1]) % Q
        BY <2>1, <4>1 DEF IsPowers
      <4>3. w[k] = s[k] /\ (k # 1 => w[k - 1] = s[k - 1])
        BY <2>2, <3>2, <4>1
      <4> QED BY <4>2, <4>3
    <3> QED BY <3>1, <3>2
  <2>4. w = [k \in 1..d |-> w[k]]
    OBVIOUS
  <2> HIDE DEF w
  <2>5. [k \in 1..d |-> w[k]] = [k \in 1..d |-> IF k = 1 THEN 1 ELSE (b * w[k - 1]) % Q]
    BY <2>3
  <2>6. IsPowers(d, b, w)
    BY <2>4, <2>5 DEF IsPowers
  <2> QED BY <2>2, <2>6
<1>3. \A k \in 0..n : k \in T
  <2> HIDE DEF T
  <2> QED BY <1>1, <1>2, UpTo
<1> QED BY <1>3

LEMMA PowersInt ==
    ASSUME NEW n \in Nat, NEW b \in Int
    PROVE  BN_vec_gen_power(n, b) \in [1..n -> Int]
<1>1. PICK s : IsPowers(n, b, s) /\ BN_vec_gen_power(n, b) = s
  <2>1. BN_vec_gen_power(n, b) = CHOOSE s : IsPowers(n, b, s)
    BY DEF BN_vec_gen_power, IsPowers
  <2> QED BY <2>1, PowersExist
<1> DEFINE T == {k \in 0..n : k = 0 \/ s[k] \in Int}
<1>2. 0 \in T
  OBVIOUS
<1>3. ASSUME NEW k \in 0..(n - 1), k \in T PROVE k + 1 \in T
  <2>1. s[k + 1] = IF k = 0 THEN 1 ELSE (b * s[k]) % Q
    BY <1>1 DEF IsPowers
  <2>2. CASE k = 0
    BY <2>1, <2>2
  <2>3. CASE k # 0
    <3>1. PICK t \in Int : t = s[k]
      BY <1>3, <2>3
    <3>2. (b * t) % Q \in Int
      <4>1. b * t \in Int
        OBVIOUS
      <4> QED BY <4>1, SameQ
    <3> QED BY <2>1, <2>3, <3>1, <3>2
  <2> QED BY <2>2, <2>3
<1>4. \A k \in 0..n : k \in T
  <2> HIDE DEF T
  <2> QED BY <1>2, <1>3, UpTo
<1>5. \A k \in 1..n : s[k] \in Int
  BY <1>4
<1>6. DOMAIN s = 1..n /\ s = [k \in 1..n |-> s[k]]
  BY <1>1 DEF IsPowers
<1> QED BY <1>1, <1>5, <1>6

-----------------------------------------------------------------------------
(* The instance the first round starts from. *)

LEMMA AddInt ==
    ASSUME NEW n \in Nat, NEW a \in [1..n -> Int], NEW b \in [1..n -> Int]
    PROVE  BN_vec_add(a, b) \in [1..n -> Int]
<1>1. Len(a) = n
  BY Vector
<1>2. ASSUME NEW i \in 1..n PROVE (a[i] + b[i]) % Q \in Int
  <2>1. PICK s \in Int, t \in Int : s = a[i] /\ t = b[i]
    OBVIOUS
  <2>2. s + t \in Int
    OBVIOUS
  <2> QED BY <2>1, <2>2, SameQ
<1> QED BY <1>1, <1>2 DEF BN_vec_add

LEMMA SubInt ==
    ASSUME NEW n \in Nat, NEW a \in [1..n -> Int], NEW b \in [1..n -> Int]
    PROVE  BN_vec_sub(a, b) \in [1..n -> Int]
<1>1. Len(a) = n
  BY Vector
<1>2. ASSUME NEW i \in 1..n PROVE (a[i] - b[i]) % Q \in Int
  <2>1. PICK s \in Int, t \in Int : s = a[i] /\ t = b[i]
    OBVIOUS
  <2>2. s - t \in Int
    OBVIOUS
  <2> QED BY <2>1, <2>2, SameQ
<1> QED BY <1>1, <1>2 DEF BN_vec_sub

LEMMA ProductInt ==
    ASSUME NEW n \in Nat, NEW a \in [1..n -> Int], NEW b \in [1..n -> Int]
    PROVE  BN_vec_product(a, b) \in [1..n -> Int]
<1>1. Len(a) = n
  BY Vector
<1>2. ASSUME NEW i \in 1..n PROVE (a[i] * b[i]) % Q \in Int
  <2>1. PICK s \in Int, t \in Int : s = a[i] /\ t = b[i]
    OBVIOUS
  <2>2. s * t \in Int
    OBVIOUS
  <2> QED BY <2>1, <2>2, SameQ
<1> QED BY <1>1, <1>2 DEF BN_vec_product

LEMMA ScalarInt ==
    ASSUME NEW n \in Nat, NEW a \in [1..n -> Int], NEW c \in Int
    PROVE  BN_vec_scalar(a, c) \in [1..n -> Int]
<1>1. Len(a) = n
  BY Vector
<1>2. ASSUME NEW i \in 1..n PROVE (a[i] * c) % Q \in Int
  <2>1. PICK s \in Int, t \in Int : s = a[i] /\ t = c
    OBVIOUS
  <2>2. s * t \in Int
    OBVIOUS
  <2> QED BY <2>1, <2>2, SameQ
<1> QED BY <1>1, <1>2 DEF BN_vec_scalar

LEMMA Lengths ==
    /\ VECTOR_LEN \in Nat \ {0} /\ VECTOR_LEN \in Nat /\ RANGE_LEN \in Nat \ {0}
    /\ \A i \in 1..VECTOR_LEN : /\ (i - 1) \div RANGE_LEN \in Nat
                                /\ (i - 1) \div RANGE_LEN + 1 \in Agg
                                /\ (i - 1) % RANGE_LEN \in Nat
<1>1. /\ VECTOR_LEN \in Nat \ {0} /\ VECTOR_LEN \in Nat
      /\ RANGE_LEN \in Nat \ {0} /\ AGG_NUM \in Nat \ {0}
      /\ VECTOR_LEN = RANGE_LEN * AGG_NUM
  BY LengthAssumption, BulletAssumption
<1>2. ASSUME NEW i \in 1..VECTOR_LEN
      PROVE  /\ (i - 1) \div RANGE_LEN \in Nat
             /\ (i - 1) \div RANGE_LEN + 1 \in Agg
             /\ (i - 1) % RANGE_LEN \in Nat
  <2>1. PICK d \in Nat, l \in Nat \ {0}, m \in Nat \ {0} :
          d = i - 1 /\ l = RANGE_LEN /\ m = AGG_NUM /\ d < l * m
    BY <1>1
  <2>2. PICK q \in Int, t \in 0..(l - 1) : q = d \div l /\ t = d % l /\ d = l * q + t
    <3>1. PICK k \in Int : k = d
      OBVIOUS
    <3>2. k \div l \in Int /\ k % l \in 0..(l - 1) /\ k = l * (k \div l) + (k % l)
      BY DivMod
    <3> QED BY <3>1, <3>2
  <2>3. q \in Nat
    <3>1. PICK k \in Int : k = d
      OBVIOUS
    <3>2. k \div l \in Nat
      BY <3>1, DivMod
    <3> QED BY <2>2, <3>1, <3>2
  <2>4. q < m
    <3>1. SUFFICES ASSUME q >= m PROVE FALSE
      BY <2>3
    <3>2. PICK s \in Nat : q = m + s
      BY <2>3, <3>1
    <3>3. l * q = l * m + l * s /\ l * s \in Nat /\ l * m \in Nat
      BY <3>2
    <3> QED BY <2>1, <2>2, <3>3
  <2>5. q + 1 \in 1..m /\ t \in Nat
    BY <2>3, <2>4
  <2> QED BY <2>1, <2>2, <2>3, <2>5 DEF Agg
<1> QED BY <1>1, <1>2

LEMMA BitsInt ==
    ASSUME NEW w \in [Agg -> Values]
    PROVE  Bits(w) \in [1..VECTOR_LEN -> Int]
<1>1. ASSUME NEW i \in 1..VECTOR_LEN
      PROVE  (w[(i - 1) \div RANGE_LEN + 1] \div Power(2, (i - 1) % RANGE_LEN)) % 2 \in Int
  <2>1. w[(i - 1) \div RANGE_LEN + 1] \in Nat
    BY Lengths, BulletAssumption
  <2>2. Power(2, (i - 1) % RANGE_LEN) \in Nat \ {0}
    BY Lengths, PowerNat
  <2>3. PICK s \in Nat, t \in Nat \ {0} :
          /\ s = w[(i - 1) \div RANGE_LEN + 1] /\ t = Power(2, (i - 1) % RANGE_LEN)
    BY <2>1, <2>2
  <2>4. (s \div t) % 2 \in Int
    OBVIOUS
  <2> QED BY <2>3, <2>4
<1> QED BY <1>1 DEF Bits

LEMMA ZTwosInt ==
    ASSUME NEW c \in Challenges
    PROVE  ZTwos(c) \in [1..VECTOR_LEN -> Int]
<1>1. ASSUME NEW i \in 1..VECTOR_LEN
      PROVE  (Power(c, (i - 1) \div RANGE_LEN + 2) * Power(2, (i - 1) % RANGE_LEN)) % Q \in Int
  <2>1. c \in Nat \ {0}
    BY FieldAssumption
  <2>2. PICK d \in Nat, f \in Nat : d = (i - 1) \div RANGE_LEN + 2 /\ f = (i - 1) % RANGE_LEN
    BY Lengths
  <2>3. PICK s \in Nat, t \in Nat : s = Power(c, d) /\ t = Power(2, f)
    <3>1. Power(c, d) \in Nat
      BY <2>1, PowerNat
    <3>2. Power(2, f) \in Nat
      BY PowerNat
    <3> QED BY <3>1, <3>2
  <2>4. s * t \in Int
    OBVIOUS
  <2> QED BY <2>2, <2>3, <2>4, SameQ
<1> QED BY <1>1 DEF ZTwos

LEMMA GeneratorsArePoints ==
    /\ G \in Point /\ H \in Point /\ U \in Point
    /\ GG \in [1..VECTOR_LEN -> Point] /\ HH \in [1..VECTOR_LEN -> Point]
<1>1. \A k : Generator(k) \in Point
  BY DEF Generator, Point
<1> QED BY <1>1 DEF G, H, U, GG, HH

LEMMA NewHPoints ==
    ASSUME NEW c \in Challenges
    PROVE  NewH(c) \in [1..VECTOR_LEN -> Point]
<1>1. PICK n \in Nat, i \in Int : n = VECTOR_LEN /\ i = Inverse(c)
  BY Lengths, InverseUnit
<1>2. PICK w \in [1..n -> Int] : w = BN_vec_gen_power(n, i)
  BY PowersInt
<1>3. PICK h \in [1..n -> Point] : h = HH
  BY <1>1, GeneratorsArePoints
<1>4. NewH(c) = [k \in 1..n |-> ECP_vec_mul(<<h[k]>>, <<w[k]>>)]
  <2>1. NewH(c) = ECP_vec_product(h, w) /\ Len(h) = n
    BY <1>1, <1>2, <1>3, Vector DEF NewH
  <2> QED BY <2>1 DEF ECP_vec_product
<1>5. ASSUME NEW k \in 1..n PROVE ECP_vec_mul(<<h[k]>>, <<w[k]>>) \in Point
  <2>1. PICK p \in Point, a \in Int : p = h[k] /\ a = w[k]
    OBVIOUS
  <2> QED BY <2>1, MulSmall
<1> QED BY <1>1, <1>4, <1>5

\* The vectors l and r at a challenge.
LEMMA WitnessVectors ==
    ASSUME v \in [Agg -> Values], y \in Challenges, z \in Challenges,
           sL \in [1..VECTOR_LEN -> Int], sR \in [1..VECTOR_LEN -> Int],
           NEW c \in Challenges
    PROVE  /\ BN_vec_add(LL0, BN_vec_scalar(sL, c)) \in [1..VECTOR_LEN -> Int]
           /\ BN_vec_add(RR0, BN_vec_scalar(RR1, c)) \in [1..VECTOR_LEN -> Int]
<1>1. PICK n \in Nat : n = VECTOR_LEN
  BY Lengths
<1>2. c \in Int /\ y \in Int /\ z \in Int
  BY InverseUnit
<1>3. Ones \in [1..n -> Int] /\ AL \in [1..n -> Int] /\ ZTwos(z) \in [1..n -> Int]
      /\ sL \in [1..n -> Int] /\ sR \in [1..n -> Int]
  BY <1>1, BitsInt, ZTwosInt DEF Ones, AL
<1>4. AR \in [1..n -> Int]
  BY <1>3, SubInt DEF AR
<1>5. BN_vec_scalar(Ones, z) \in [1..n -> Int]
  BY <1>2, <1>3, ScalarInt
<1>6. BN_vec_gen_power(VECTOR_LEN, y) \in [1..n -> Int]
  BY <1>1, <1>2, PowersInt
<1>7. LL0 \in [1..n -> Int]
  BY <1>3, <1>5, SubInt DEF LL0
<1>8. BN_vec_product(BN_vec_gen_power(VECTOR_LEN, y), BN_vec_add(AR, BN_vec_scalar(Ones, z)))
        \in [1..n -> Int]
  <2>1. BN_vec_add(AR, BN_vec_scalar(Ones, z)) \in [1..n -> Int]
    BY <1>4, <1>5, AddInt
  <2> QED BY <1>6, <2>1, ProductInt
<1>9. RR0 \in [1..n -> Int]
  BY <1>3, <1>8, AddInt DEF RR0
<1>10. RR1 \in [1..n -> Int]
  BY <1>3, <1>6, ProductInt DEF RR1
<1>11. BN_vec_scalar(sL, c) \in [1..n -> Int] /\ BN_vec_scalar(RR1, c) \in [1..n -> Int]
  BY <1>2, <1>3, <1>10, ScalarInt
<1> QED BY <1>1, <1>7, <1>9, <1>11, AddInt

-----------------------------------------------------------------------------
(* The invariant: what is folded has a length that divides VECTOR_LEN.     *)

IsRound(n) ==
    /\ VECTOR_LEN % n = 0
    /\ vec_g \in [1..n -> Point] /\ vec_h \in [1..n -> Point]
    /\ vec_a \in [1..n -> Int] /\ vec_b \in [1..n -> Int]
    /\ P \in Point /\ u \in Point
    /\ P = Commitment(vec_g, vec_h, u, vec_a, vec_b)

FoldInv ==
    /\ v \in [Agg -> Values]
    /\ phase \in {"start", "polynomial", "fold", "verify"}
    /\ phase = "polynomial" =>
          /\ y \in Challenges /\ z \in Challenges
          /\ sL \in [1..VECTOR_LEN -> Int] /\ sR \in [1..VECTOR_LEN -> Int]
    /\ phase \in {"fold", "verify"} => \E n \in 1..VECTOR_LEN : IsRound(n)

LEMMA FoldInvShows == FoldInv => RoundsKeepRelation
BY DEF FoldInv, IsRound, RoundsKeepRelation

LEMMA FirstRound ==
    ASSUME FoldInv, CommitPolynomial
    PROVE  IsRound(VECTOR_LEN)'
<1>1. /\ phase = "polynomial" /\ v \in [Agg -> Values]
      /\ y \in Challenges /\ z \in Challenges
      /\ sL \in [1..VECTOR_LEN -> Int] /\ sR \in [1..VECTOR_LEN -> Int]
  BY DEF CommitPolynomial, FoldInv
<1>a. PICK c \in Challenges, d \in Challenges : \E llx, rrx, uu, p :
        /\ llx = BN_vec_add(LL0, BN_vec_scalar(sL, c))
        /\ rrx = BN_vec_add(RR0, BN_vec_scalar(RR1, c))
        /\ uu = ECP_vec_mul(<<U>>, <<d>>)
        /\ p = Commitment(GG, NewH(y), uu, llx, rrx)
        /\ IPStart(GG, NewH(y), p, uu, llx, rrx)
  BY DEF CommitPolynomial
<1>2. PICK llx, rrx, uu, p :
        /\ llx = BN_vec_add(LL0, BN_vec_scalar(sL, c))
        /\ rrx = BN_vec_add(RR0, BN_vec_scalar(RR1, c))
        /\ uu = ECP_vec_mul(<<U>>, <<d>>)
        /\ p = Commitment(GG, NewH(y), uu, llx, rrx)
        /\ IPStart(GG, NewH(y), p, uu, llx, rrx)
  BY <1>a
<1>3. llx \in [1..VECTOR_LEN -> Int] /\ rrx \in [1..VECTOR_LEN -> Int]
  BY <1>1, <1>2, WitnessVectors
<1>4. uu \in Point
  <2>1. d \in Int /\ U \in Point
    BY InverseUnit, GeneratorsArePoints
  <2> QED BY <1>2, <2>1, MulSmall
<1>5. GG \in [1..VECTOR_LEN -> Point] /\ NewH(y) \in [1..VECTOR_LEN -> Point]
  BY <1>1, GeneratorsArePoints, NewHPoints
<1>6. p \in Point
  <2>1. PICK n \in Nat, i \in Int : n = VECTOR_LEN /\ i = BN_vec_inner_product(llx, rrx)
    BY <1>3, Lengths, InnerProductIs
  <2>2. IsInstance(p, n, GG, NewH(y), uu, llx, rrx, i)
    BY <1>2, <1>3, <1>4, <1>5, <2>1 DEF IsInstance, Commitment
  <2> QED BY <2>2, MulInstance
<1>7. VECTOR_LEN % VECTOR_LEN = 0
  BY Lengths
<1>8. /\ vec_g' = GG /\ vec_h' = NewH(y) /\ P' = p /\ u' = uu
      /\ vec_a' = llx /\ vec_b' = rrx
  BY <1>2 DEF IPStart
<1> QED BY <1>2, <1>3, <1>4, <1>5, <1>6, <1>7, <1>8 DEF IsRound

LEMMA NextRound ==
    ASSUME NEW n \in 1..VECTOR_LEN, IsRound(n), NEW c \in Challenges, InnerProduct_Round(c)
    PROVE  \E m \in 1..VECTOR_LEN : n = 2 * m /\ IsRound(m)'
<1>1. n \in Nat /\ n > 1 /\ n \in 2..VECTOR_LEN
  <2>1. Len(vec_a) = n /\ Len(vec_a) > 1
    BY Vector DEF IsRound, InnerProduct_Round
  <2> QED BY <2>1
<1>2. n % 2 = 0
  BY <1>1, LengthAssumption DEF IsRound
<1>3. PICK m \in Nat : n = 2 * m /\ m \in 1..VECTOR_LEN
  <2>1. PICK t \in Nat : t = VECTOR_LEN /\ n \in 2..t
    BY <1>1, Lengths
  <2>2. PICK k \in Int : k = n \div 2 /\ n = 2 * k
    <3>1. n = 2 * (n \div 2) + (n % 2) /\ n \div 2 \in Int
      BY <1>1
    <3> QED BY <1>2, <3>1
  <2>3. k \in Nat /\ k \in 1..t
    BY <2>1, <2>2
  <2> QED BY <2>1, <2>2, <2>3
<1>4. VECTOR_LEN % m = 0
  <2>1. PICK t \in Nat \ {0} : t = VECTOR_LEN
    BY Lengths
  <2>2. PICK q \in Int : t = n * q
    <3>1. t % n = 0
      BY <2>1 DEF IsRound
    <3>2. t = n * (t \div n) + (t % n) /\ t \div n \in Int
      BY <1>1, DivMod
    <3> QED BY <3>1, <3>2
  <2>3. t = m * (2 * q) + 0 /\ 2 * q \in Int
    BY <1>3, <2>2
  <2>4. t % m = 0
    BY <1>3, <2>3, DivUnique
  <2> QED BY <2>1, <2>4
<1>5. /\ vec_g \in [1..n -> Point] /\ vec_h \in [1..n -> Point]
      /\ vec_a \in [1..n -> Int] /\ vec_b \in [1..n -> Int]
      /\ P \in Point /\ u \in Point
      /\ P = Commitment(vec_g, vec_h, u, vec_a, vec_b)
  BY DEF IsRound
<1>6. PICK L, R, o, p1, g1, h1, a1, b1 :
        /\ o = Inverse(c)
        /\ L = ECP_vec_mul(Right(vec_g) \o Left(vec_h) \o <<u>>,
                 Left(vec_a) \o Right(vec_b)
                   \o <<BN_vec_inner_product(Left(vec_a), Right(vec_b))>>)
        /\ R = ECP_vec_mul(Left(vec_g) \o Right(vec_h) \o <<u>>,
                 Right(vec_a) \o Left(vec_b)
                   \o <<BN_vec_inner_product(Right(vec_a), Left(vec_b))>>)
        /\ p1 = ECP_vec_mul(<<L, P, R>>, <<c * c, 1, o * o>>)
        /\ g1 = FoldG(vec_g, c) /\ h1 = FoldH(vec_h, c)
        /\ a1 = BN_vec_add(BN_vec_scalar(Left(vec_a), c), BN_vec_scalar(Right(vec_a), o))
        /\ b1 = BN_vec_add(BN_vec_scalar(Left(vec_b), o), BN_vec_scalar(Right(vec_b), c))
  OBVIOUS
<1>7. /\ vec_g' = g1 /\ vec_h' = h1 /\ P' = p1 /\ u' = u
      /\ vec_a' = a1 /\ vec_b' = b1
  BY <1>6 DEF InnerProduct_Round
<1>8. IsStep(n, m, c, o, vec_g, vec_h, P, u, vec_a, vec_b, L, R, p1, g1, h1, a1, b1)
  BY <1>3, <1>5, <1>6 DEF IsStep
<1>9. /\ g1 \in [1..m -> Point] /\ h1 \in [1..m -> Point]
      /\ a1 \in [1..m -> Int] /\ b1 \in [1..m -> Int]
      /\ p1 \in Point /\ p1 = Commitment(g1, h1, u, a1, b1)
  BY <1>1, <1>3, <1>8, Round
<1>10. IsRound(m)'
  BY <1>4, <1>5, <1>7, <1>9 DEF IsRound
<1> QED BY <1>3, <1>10

LEMMA FoldInit == Init => FoldInv
BY DEF Init, FoldInv

LEMMA FoldStep == FoldInv /\ [Next]_vars => FoldInv'
<1> SUFFICES ASSUME FoldInv, [Next]_vars
             PROVE  FoldInv'
  OBVIOUS
<1>1. CASE CommitBits
  <2>1. PICK a \in Draws, p \in Draws, l \in Blinds, w \in Blinds,
             c \in Challenges, d \in Challenges :
          sL' = l /\ sR' = w /\ y' = c /\ z' = d
    BY <1>1 DEF CommitBits
  <2>2. ASSUME NEW b \in Blinds
        PROVE  b \in [1..VECTOR_LEN -> Int]
    <3>1. 0..(Q - 1) \subseteq Int
      BY FieldAssumption
    <3> QED BY <3>1, BulletAssumption
  <2>3. v \in [Agg -> Values] /\ v' = v /\ phase' = "polynomial"
    BY <1>1 DEF CommitBits, FoldInv
  <2> QED BY <2>1, <2>2, <2>3 DEF FoldInv, Agg
<1>2. CASE CommitPolynomial
  <2>1. IsRound(VECTOR_LEN)'
    BY <1>2, FirstRound
  <2>2. VECTOR_LEN \in 1..VECTOR_LEN
    BY Lengths
  <2>3. v \in [Agg -> Values] /\ v' = v /\ phase' = "fold"
    BY <1>2 DEF CommitPolynomial, secrets, FoldInv
  <2> QED BY <2>1, <2>2, <2>3 DEF FoldInv, Agg
<1>3. CASE Fold
  <2>1. /\ phase = "fold" /\ phase' = phase
        /\ v \in [Agg -> Values] /\ v' = v
    BY <1>3 DEF Fold, bulletVars, secrets, FoldInv
  <2>2. PICK n \in 1..VECTOR_LEN : IsRound(n)
    BY <2>1 DEF FoldInv
  <2>3. PICK c \in Challenges : InnerProduct_Round(c)
    BY <1>3 DEF Fold
  <2>4. \E m \in 1..VECTOR_LEN : IsRound(m)'
    BY <2>2, <2>3, NextRound
  <2> QED BY <2>1, <2>4 DEF FoldInv, Agg
<1>4. ASSUME UNCHANGED ipVars, UNCHANGED v,
             phase' \in {"fold", "verify"}, phase \in {"fold", "verify"}
      PROVE  FoldInv'
  <2>1. PICK n \in 1..VECTOR_LEN : IsRound(n)
    BY <1>4 DEF FoldInv
  <2>2. IsRound(n)'
    BY <1>4, <2>1 DEF IsRound, ipVars
  <2>3. v' \in [Agg -> Values]
    BY <1>4 DEF FoldInv
  <2> QED BY <1>4, <2>2, <2>3 DEF FoldInv, Agg
<1>5. CASE Finish
  BY <1>4, <1>5 DEF Finish, secrets
<1>6. CASE Bullet_Verify
  BY <1>4, <1>6 DEF Bullet_Verify, secrets
<1>7. CASE UNCHANGED vars
  <2>1. UNCHANGED ipVars /\ UNCHANGED <<v, phase, y, z, sL, sR>>
    BY <1>7 DEF vars, bulletVars, secrets
  <2>2. CASE phase \in {"fold", "verify"}
    BY <1>4, <2>1, <2>2
  <2>3. CASE phase \notin {"fold", "verify"}
    BY <2>1, <2>3 DEF FoldInv, Agg
  <2> QED BY <2>2, <2>3
<1> QED BY <1>1, <1>2, <1>3, <1>5, <1>6, <1>7 DEF Next

\* The relation every level of the recursion of InnerProduct_Prove hands to
\* the next one: the point P is the commitment to the folded witness over the
\* folded bases, after any number of rounds with any challenges, for every
\* group, every vector length and every witness.
THEOREM RelationKept == Spec => []RoundsKeepRelation
<1>1. Spec => []FoldInv
  BY FoldInit, FoldStep, PTL DEF Spec
<1> QED BY <1>1, FoldInvShows, PTL

-----------------------------------------------------------------------------
(* The vector s of the verifier: a product with a factor per round.        *)

IsProduct(n, f, s) == s = [k \in 0..n |-> IF k = 0 THEN 1 ELSE (s[k - 1] * f[k]) % Q]

LEMMA ProductExists ==
    ASSUME NEW f, NEW n \in Nat
    PROVE  \E s : IsProduct(n, f, s)
<1> DEFINE T == {k \in 0..n : \E s : IsProduct(k, f, s)}
<1>1. 0 \in T
  <2>1. IsProduct(0, f, [k \in 0..0 |-> 1])
    BY DEF IsProduct
  <2> QED BY <2>1
<1>2. ASSUME NEW a \in 0..(n - 1), a \in T PROVE a + 1 \in T
  <2>1. PICK s : IsProduct(a, f, s)
    BY <1>2
  <2>2. PICK d \in Nat : d = a + 1
    OBVIOUS
  <2> DEFINE w == [k \in 0..d |-> IF k = d THEN (s[a] * f[d]) % Q ELSE s[k]]
  <2>3. ASSUME NEW k \in 0..d
        PROVE  w[k] = IF k = 0 THEN 1 ELSE (w[k - 1] * f[k]) % Q
    <3>1. CASE k = d
      BY <2>2, <3>1
    <3>2. CASE k # d
      <4>1. k \in 0..a
        BY <2>2, <3>2
      <4>2. s[k] = IF k = 0 THEN 1 ELSE (s[k - 1] * f[k]) % Q
        BY <2>1, <4>1 DEF IsProduct
      <4>3. w[k] = s[k] /\ (k # 0 => w[k - 1] = s[k - 1])
        BY <2>2, <3>2, <4>1
      <4> QED BY <4>2, <4>3
    <3> QED BY <3>1, <3>2
  <2>4. w = [k \in 0..d |-> w[k]]
    OBVIOUS
  <2> HIDE DEF w
  <2>5. [k \in 0..d |-> w[k]] = [k \in 0..d |-> IF k = 0 THEN 1 ELSE (w[k - 1] * f[k]) % Q]
    BY <2>3
  <2>6. IsProduct(d, f, w)
    BY <2>4, <2>5 DEF IsProduct
  <2> QED BY <2>2, <2>6
<1>3. \A k \in 0..n : k \in T
  <2> HIDE DEF T
  <2> QED BY <1>1, <1>2, UpTo
<1> QED BY <1>3

\* Solutions for the same first factors agree on them.
LEMMA ProductUnique ==
    ASSUME NEW n \in Nat, NEW m \in Nat, m <= n, NEW f, NEW g, NEW s, NEW t,
           IsProduct(n, f, s), IsProduct(m, g, t), \A k \in 1..m : f[k] = g[k]
    PROVE  \A k \in 0..m : s[k] = t[k]
<1> DEFINE T == {k \in 0..m : s[k] = t[k]}
<1>1. 0 \in T
  BY DEF IsProduct
<1>2. ASSUME NEW k \in 0..(m - 1), k \in T PROVE k + 1 \in T
  <2>1. s[k + 1] = (s[k] * f[k + 1]) % Q /\ t[k + 1] = (t[k] * g[k + 1]) % Q
    BY DEF IsProduct
  <2> QED BY <1>2, <2>1
<1>3. \A k \in 0..m : k \in T
  <2> HIDE DEF T
  <2> QED BY <1>1, <1>2, UpTo
<1> QED BY <1>3

Units == 1..(Q - 1)

\* The product of two units is one.
LEMMA UnitProduct ==
    ASSUME NEW a \in Units, NEW b \in Units
    PROVE  (a * b) % Q \in Units
<1>1. PICK n \in Nat \ {0} : n = Q /\ n > 1
  BY FieldAssumption
<1>2. PICK c \in Units, d \in Units : (a * c) % n = 1 /\ (b * d) % n = 1
  BY <1>1, FieldAssumption DEF Units
<1>3. a \in Int /\ b \in Int /\ c \in Int /\ d \in Int
  BY DEF Units
<1>4. PICK p \in Int, q \in Int, t \in Int, w \in Int :
        p = a * b /\ q = c * d /\ t = a * c /\ w = b * d
  BY <1>3
<1>5. Same(t, 1, n) /\ Same(w, 1, n)
  <2>1. PICK one \in Int : one = 1 /\ one % n = 1
    BY <1>1
  <2> QED BY <1>1, <1>2, <1>4, <2>1, SameMod
<1>6. Same(t * w, 1, n)
  <2>1. Same(t * w, w, n) /\ t * w \in Int
    BY <1>5, SameUnit
  <2>2. PICK one \in Int : one = 1
    OBVIOUS
  <2> QED BY <1>5, <2>1, <2>2, SameTrans
<1>7. t * w = p * q
  BY <1>3, <1>4
<1>8. PICK s \in 0..(n - 1) : s = p % n
  OBVIOUS
<1>9. s # 0
  <2>1. SUFFICES ASSUME s = 0 PROVE FALSE
    OBVIOUS
  <2>2. PICK k \in Int : p = n * k
    <3>1. p = n * (p \div n) + (p % n) /\ p \div n \in Int
      BY DivMod
    <3> QED BY <1>8, <2>1, <3>1
  <2>3. PICK j \in Int : p * q = 1 + n * j
    BY <1>6, <1>7 DEF Same
  <2>4. PICK kq \in Int : kq = k * q
    OBVIOUS
  <2>5. n * kq = 1 + n * j
    BY <2>2, <2>3, <2>4
  <2>6. PICK z1 \in Int : z1 = n * kq
    OBVIOUS
  <2>7. 0 \in 0..(n - 1) /\ 1 \in 0..(n - 1)
    BY <1>1
  <2>8. z1 = n * kq + 0 /\ z1 = n * j + 1
    BY <2>5, <2>6
  <2>9. z1 % n = 0 /\ z1 % n = 1
    BY <2>7, <2>8, DivUnique
  <2> QED BY <2>9
<1> QED BY <1>1, <1>4, <1>8, <1>9 DEF Units

LEMMA ProductUnits ==
    ASSUME NEW n \in Nat, NEW f, NEW s, IsProduct(n, f, s), \A k \in 1..n : f[k] \in Units
    PROVE  \A k \in 0..n : s[k] \in Units
<1> DEFINE T == {k \in 0..n : s[k] \in Units}
<1>1. 0 \in T
  BY FieldAssumption DEF IsProduct, Units
<1>2. ASSUME NEW k \in 0..(n - 1), k \in T PROVE k + 1 \in T
  <2>1. s[k + 1] = (s[k] * f[k + 1]) % Q
    BY DEF IsProduct
  <2>2. s[k] \in Units /\ f[k + 1] \in Units
    BY <1>2
  <2> QED BY <2>1, <2>2, UnitProduct
<1>3. \A k \in 0..n : k \in T
  <2> HIDE DEF T
  <2> QED BY <1>1, <1>2, UpTo
<1> QED BY <1>3

\* The element of the vector s at the index k, counted from 0.
Factors(xs, k) ==
    [j \in 1..Len(xs) |-> IF int_parse_binary(k, j - 1, Len(xs)) = 1
                          THEN xs[j] ELSE Inverse(xs[j])]
Sign(xs, k) ==
    LET s[j \in 0..Len(xs)] ==
          IF j = 0 THEN 1
          ELSE IF int_parse_binary(k, j - 1, Len(xs)) = 1
               THEN (s[j - 1] * xs[j]) % Q
               ELSE (s[j - 1] * Inverse(xs[j])) % Q
    IN s[Len(xs)]

LEMMA SignIs ==
    ASSUME NEW xs, NEW t \in Nat, Len(xs) = t, NEW k
    PROVE  \E s : IsProduct(t, Factors(xs, k), s) /\ Sign(xs, k) = s[t]
<1> DEFINE Solves(s) ==
             s = [j \in 0..t |-> IF j = 0 THEN 1
                                 ELSE IF int_parse_binary(k, j - 1, t) = 1
                                      THEN (s[j - 1] * xs[j]) % Q
                                      ELSE (s[j - 1] * Inverse(xs[j])) % Q]
<1>1. Sign(xs, k) = (CHOOSE s : Solves(s))[t]
  BY DEF Sign
<1>2. ASSUME NEW s
      PROVE  [j \in 0..t |-> IF j = 0 THEN 1
                             ELSE IF int_parse_binary(k, j - 1, t) = 1
                                  THEN (s[j - 1] * xs[j]) % Q
                                  ELSE (s[j - 1] * Inverse(xs[j])) % Q]
               = [j \in 0..t |-> IF j = 0 THEN 1 ELSE (s[j - 1] * Factors(xs, k)[j]) % Q]
  <2>1. ASSUME NEW j \in 0..t, j # 0
        PROVE  Factors(xs, k)[j] = IF int_parse_binary(k, j - 1, t) = 1
                                   THEN xs[j] ELSE Inverse(xs[j])
    BY <2>1 DEF Factors
  <2> QED BY <2>1
<1>3. \A s : Solves(s) <=> IsProduct(t, Factors(xs, k), s)
  BY <1>2 DEF IsProduct
<1>4. \E s : Solves(s)
  BY <1>3, ProductExists
<1> HIDE DEF Solves
<1>5. PICK s : Solves(s) /\ Sign(xs, k) = s[t]
  BY <1>1, <1>4
<1> QED BY <1>3, <1>5

LEMMA UnitInverse ==
    ASSUME NEW c \in Units
    PROVE  /\ Inverse(c) \in Units /\ (c * Inverse(c)) % Q = 1
           /\ c \in Int /\ Inverse(c) \in Int
           /\ Same(c * Inverse(c), 1, Q) /\ Same(Inverse(c) * c, 1, Q)
<1>1. Inverse(c) \in Units /\ (c * Inverse(c)) % Q = 1
  BY FieldAssumption DEF Inverse, Units
<1>2. PICK n \in Nat \ {0}, w \in Int, d \in Int, one \in Int :
        n = Q /\ w = Inverse(c) /\ d = c /\ one = 1 /\ one % n = 1
  BY <1>1, FieldAssumption DEF Units
<1>3. d * w \in Int /\ d * w = w * d /\ (d * w) % n = 1
  BY <1>1, <1>2
<1>4. Same(d * w, one, n)
  BY <1>2, <1>3, SameMod
<1> QED BY <1>1, <1>2, <1>3, <1>4

LEMMA FactorUnits ==
    ASSUME NEW t \in Nat, NEW xs \in [1..t -> Challenges], NEW k
    PROVE  Len(xs) = t /\ \A j \in 1..t : Factors(xs, k)[j] \in Units
<1>1. Len(xs) = t
  BY Vector
<1>2. ASSUME NEW j \in 1..t PROVE Factors(xs, k)[j] \in Units
  <2>1. xs[j] \in Units
    BY FieldAssumption DEF Units
  <2>2. Inverse(xs[j]) \in Units
    BY <2>1, UnitInverse
  <2> QED BY <1>1, <2>1, <2>2 DEF Factors
<1> QED BY <1>1, <1>2

LEMMA SignUnit ==
    ASSUME NEW t \in Nat, NEW xs \in [1..t -> Challenges], NEW k
    PROVE  Sign(xs, k) \in Units
<1>1. Len(xs) = t /\ \A j \in 1..t : Factors(xs, k)[j] \in Units
  BY FactorUnits
<1>2. PICK s : IsProduct(t, Factors(xs, k), s) /\ Sign(xs, k) = s[t]
  BY <1>1, SignIs
<1> QED BY <1>1, <1>2, ProductUnits

LEMMA SignEmpty ==
    ASSUME NEW k
    PROVE  Sign(<<>>, k) = 1
<1>1. PICK t \in Nat : t = 0
  OBVIOUS
<1>2. Len(<<>>) = t
  BY <1>1
<1>3. PICK s : IsProduct(t, Factors(<<>>, k), s) /\ Sign(<<>>, k) = s[t]
  BY <1>2, SignIs
<1> QED BY <1>1, <1>3 DEF IsProduct

\* The lowest bit does not show in the others.
Doubles(k, q, b, d, p) == k = 2 * q + b /\ d = 2 * p

LEMMA BitDrop ==
    ASSUME NEW q \in Nat, NEW b \in {0, 1}, NEW p \in Nat \ {0},
           NEW k \in Nat, NEW d \in Nat \ {0}, Doubles(k, q, b, d, p)
    PROVE  k \div d = q \div p
<1>1. PICK f \in Int, g \in 0..(p - 1) : f = q \div p /\ q = p * f + g
  <2>1. q \div p \in Int /\ q % p \in 0..(p - 1) /\ q = p * (q \div p) + (q % p)
    <3>1. PICK a \in Int : a = q
      OBVIOUS
    <3>2. a \div p \in Int /\ a % p \in 0..(p - 1) /\ a = p * (a \div p) + (a % p)
      BY DivMod
    <3> QED BY <3>1, <3>2
  <2> QED BY <2>1
<1>0. k = 2 * q + b /\ d = 2 * p
  BY DEF Doubles
<1>2. /\ d \in Nat \ {0} /\ 2 * g + b \in 0..(d - 1) /\ k \in Int
      /\ 2 * q + b = 2 * (p * f) + (2 * g + b)
  <2>1. 2 * g + b \in 0..(2 * p - 1) /\ 2 * p \in Nat \ {0}
    OBVIOUS
  <2> QED BY <1>0, <1>1, <2>1
<1>3. d * f = 2 * (p * f)
  BY <1>0, <1>1
<1>4. k = d * f + (2 * g + b)
  BY <1>0, <1>2, <1>3
<1>5. PICK gg \in 0..(d - 1) : gg = 2 * g + b
  BY <1>2
<1>6. k = d * f + gg
  BY <1>4, <1>5
<1>7. k \div d = f
  BY <1>6, DivUnique
<1> QED BY <1>1, <1>7

\* A round more is a factor more: the bit that is new is the lowest.
Appended(ys, xs, c, t) ==
    /\ ys = Append(xs, c) /\ xs \in [1..t -> Challenges] /\ c \in Challenges

Doubled(k, q, b) == k = 2 * q + b

LEMMA SignStep ==
    ASSUME NEW t \in Nat, NEW xs, NEW ys, NEW c, Appended(ys, xs, c, t),
           NEW q \in Nat, NEW b \in {0, 1}, NEW k, Doubled(k, q, b)
    PROVE  Sign(ys, k) = (Sign(xs, q) * (IF b = 1 THEN c ELSE Inverse(c))) % Q
<1>0. k = 2 * q + b
  BY DEF Doubled
<1>1. PICK d \in Nat : d = t + 1
  OBVIOUS
<1>2. xs \in [1..t -> Challenges] /\ c \in Challenges /\ Len(xs) = t
  BY Vector DEF Appended
<1>3. /\ ys \in [1..d -> Challenges] /\ Len(ys) = d /\ ys[d] = c
      /\ \A j \in 1..t : ys[j] = xs[j]
  <2>1. xs \in Seq(Challenges)
    BY <1>2, Vector
  <2>2. ys \in Seq(Challenges) /\ Len(ys) = d /\ ys[d] = c
    BY <1>1, <1>2, <2>1 DEF Appended
  <2>3. \A j \in 1..t : ys[j] = xs[j]
    BY <1>1, <1>2, <2>1 DEF Appended
  <2> QED BY <2>2, <2>3, Elements
<1>4. PICK s : IsProduct(t, Factors(xs, q), s) /\ Sign(xs, q) = s[t]
  BY <1>2, SignIs
<1>5. PICK w : IsProduct(d, Factors(ys, k), w) /\ Sign(ys, k) = w[d]
  BY <1>3, SignIs
<1>6. ASSUME NEW j \in 1..t
      PROVE  Factors(ys, k)[j] = Factors(xs, q)[j]
  <2>1. PICK f \in Nat, g \in Nat : f = t - j /\ g = f + 1
    OBVIOUS
  <2>2. t - 1 - (j - 1) = f /\ d - 1 - (j - 1) = g /\ j \in 1..d
    BY <1>1, <2>1
  <2>3. PICK p \in Nat \ {0}, pp \in Nat \ {0} : p = Power(2, f) /\ pp = Power(2, g) /\ pp = 2 * p
    <3>1. Power(2, f) \in Nat \ {0}
      BY PowerNat
    <3>2. Power(2, f + 1) = 2 * Power(2, f)
      BY PowerStep
    <3> QED BY <2>1, <3>1, <3>2
  <2>4. k \div pp = q \div p
    <3>1. Doubles(k, q, b, pp, p) /\ k \in Nat
      BY <1>0, <2>3 DEF Doubles
    <3> QED BY <3>1, BitDrop
  <2>5. int_parse_binary(k, j - 1, d) = int_parse_binary(q, j - 1, t)
    BY <2>2, <2>3, <2>4 DEF int_parse_binary
  <2> QED BY <1>2, <1>3, <2>2, <2>5 DEF Factors
<1>7. Factors(ys, k)[d] = IF b = 1 THEN c ELSE Inverse(c)
  <2>1. d - 1 - (d - 1) = 0 /\ d \in 1..d
    BY <1>1
  <2>2. (k \div Power(2, 0)) % 2 = b
    <3>1. Power(2, 0) = 1
      BY PowerStep
    <3>2. k \div 1 = k /\ k % 2 = b
      BY <1>0
    <3> QED BY <3>1, <3>2
  <2>3. int_parse_binary(k, d - 1, d) = b
    BY <2>1, <2>2 DEF int_parse_binary
  <2> QED BY <1>3, <2>1, <2>3 DEF Factors
<1>8. \A j \in 0..t : w[j] = s[j]
  <2>1. t <= d
    BY <1>1
  <2> QED BY <1>4, <1>5, <1>6, <2>1, ProductUnique
<1>9. w[d] = (w[t] * Factors(ys, k)[d]) % Q
  BY <1>1, <1>5 DEF IsProduct
<1> QED BY <1>4, <1>5, <1>7, <1>8, <1>9

-----------------------------------------------------------------------------
(* The bases after some rounds: each holds, of the first bases, those whose *)
(* index has its own lowest digits, with the sign of the digits above.     *)

\* The index k of a first base, by the length of this round and of the next.
HalfAt(k, n, m, q, b, g) ==
    /\ k % m = g /\ k \div m = 2 * q + b
    /\ k % n = m * b + g /\ k \div n = q

LEMMA HalfIndex ==
    ASSUME NEW k \in Nat, NEW m \in Nat \ {0}, NEW n \in Nat \ {0}, n = 2 * m
    PROVE  \E q \in Nat, b \in {0, 1}, g \in 0..(m - 1) : HalfAt(k, n, m, q, b, g)
<1>1. PICK q \in Nat, f \in 0..(n - 1) : q = k \div n /\ f = k % n /\ k = n * q + f
  <2>1. PICK a \in Int : a = k
    OBVIOUS
  <2>2. a \div n \in Int /\ a % n \in 0..(n - 1) /\ a = n * (a \div n) + (a % n)
    BY DivMod
  <2>3. a \div n \in Nat
    BY <2>1, DivMod
  <2> QED BY <2>1, <2>2, <2>3
<1>2. PICK b \in {0, 1}, g \in 0..(m - 1) : f = m * b + g
  <2>1. CASE f < m
    <3>1. f \in 0..(m - 1) /\ f = m * 0 + f
      BY <1>1, <2>1
    <3> QED BY <3>1
  <2>2. CASE f >= m
    <3>1. f - m \in 0..(m - 1) /\ f = m * 1 + (f - m)
      BY <1>1, <2>2
    <3> QED BY <3>1
  <2> QED BY <1>1, <2>1, <2>2
<1>3. PICK d \in Nat, a \in Int : d = 2 * q + b /\ a = k
  <2>1. 2 * q + b \in Nat /\ k \in Int
    BY <1>1, <1>2
  <2> QED BY <2>1
<1>4. a = m * d + g
  <2>1. PICK m1 \in Int, q1 \in Int, b1 \in Int : m1 = m /\ q1 = q /\ b1 = b
    BY <1>1, <1>2
  <2>2. (2 * m1) * q1 + (m1 * b1 + g) = m1 * (2 * q1 + b1) + g
    BY <1>2
  <2> QED BY <1>1, <1>2, <1>3, <2>1, <2>2
<1>5. a % m = g /\ a \div m = d
  BY <1>2, <1>4, DivUnique
<1>6. HalfAt(k, n, m, q, b, g)
  BY <1>1, <1>2, <1>3, <1>5 DEF HalfAt
<1> QED BY <1>1, <1>2, <1>6

LEMMA FoldTwo ==
    ASSUME NEW w \in Int, NEW o \in Int, NEW a \in Int, NEW b \in Int,
           NEW c \in Int, NEW d \in Int, NEW f \in Int,
           Same(a, c, Q), Same(b, d, Q), Same(f, w * a + o * b, Q)
    PROVE  Same(f, w * c + o * d, Q)
<1>1. PICK n \in Nat \ {0} : n = Q
  BY FieldAssumption
<1>2. Same(a * w, c * w, n) /\ Same(b * o, d * o, n)
  BY <1>1, SameProduct
<1>3. PICK a1 \in Int, b1 \in Int, c1 \in Int, d1 \in Int :
        a1 = a * w /\ b1 = b * o /\ c1 = c * w /\ d1 = d * o
  OBVIOUS
<1>4. Same(a1 + b1, c1 + d1, n)
  BY <1>2, <1>3, SameSum
<1>5. w * a + o * b = a1 + b1 /\ w * c + o * d = c1 + d1
  BY <1>3
<1>6. a1 + b1 \in Int /\ c1 + d1 \in Int
  BY <1>3
<1> QED BY <1>1, <1>4, <1>5, <1>6, SameTrans

OnG(k) == 4 + k
OnH(k) == 4 + VECTOR_LEN + k
Index == 0..(VECTOR_LEN - 1)

LEMMA Axes ==
    /\ \A k \in Index : OnG(k) \in 1..Dim /\ OnH(k) \in 1..Dim /\ k \in Nat
                        /\ k + 1 \in 1..VECTOR_LEN
    /\ \A d \in 1..Dim : d \in Int
    /\ \A d \in 1..Dim : (\E k \in Index : d = OnG(k)) \/ (\E k \in Index : d = OnH(k))
                         \/ d < 4
<1>1. PICK n \in Nat \ {0} : n = VECTOR_LEN
  BY Lengths
<1>2. ASSUME NEW k \in Index
      PROVE  OnG(k) \in 1..Dim /\ OnH(k) \in 1..Dim /\ k \in Nat /\ k + 1 \in 1..VECTOR_LEN
  BY <1>1 DEF OnG, OnH, Dim, Index
<1>3. ASSUME NEW d \in 1..Dim
      PROVE  (\E k \in Index : d = OnG(k)) \/ (\E k \in Index : d = OnH(k)) \/ d < 4
  <2>1. CASE d < 4
    BY <2>1
  <2>2. CASE 4 <= d /\ d < 4 + n
    <3>1. d - 4 \in Index /\ d = OnG(d - 4)
      BY <1>1, <2>2 DEF Index, OnG
    <3> QED BY <3>1
  <2>3. CASE 4 + n <= d
    <3>1. d - 4 - n \in Index /\ d = OnH(d - 4 - n)
      BY <1>1, <2>3 DEF Index, OnH, Dim
    <3> QED BY <3>1
  <2>4. d \in Int
    BY <1>1 DEF Dim
  <2> QED BY <1>1, <2>1, <2>2, <2>3, <2>4
<1>4. \A d \in 1..Dim : d \in Int
  BY <1>1 DEF Dim
<1> QED BY <1>2, <1>3, <1>4

\* The bases g after the rounds with the challenges xs.
GAt(f, n, xs) ==
    /\ f \in [1..n -> Point]
    /\ \A i \in 1..n, d \in 1..Dim : f[i][d] \in 0..(Q - 1)
    /\ \A i \in 1..n, d \in 1..Dim :
          (d < 4 \/ \E k \in Index : d = OnH(k)) => Same(f[i][d], 0, Q)
    /\ \A i \in 1..n, k \in Index :
          Same(f[i][OnG(k)], IF k % n = i - 1 THEN Sign(xs, k \div n) ELSE 0, Q)

\* The bases h, whose first ones hold the powers w.
HAt(f, n, xs, w) ==
    /\ f \in [1..n -> Point]
    /\ \A i \in 1..n, d \in 1..Dim : f[i][d] \in 0..(Q - 1)
    /\ \A i \in 1..n, d \in 1..Dim :
          (d < 4 \/ \E k \in Index : d = OnG(k)) => Same(f[i][d], 0, Q)
    /\ \A i \in 1..n, k \in Index :
          IF k % n = i - 1
          THEN Same(f[i][OnH(k)] * Sign(xs, k \div n), w[k + 1], Q)
          ELSE Same(f[i][OnH(k)], 0, Q)

\* One level of the recursion on bases f, with left and right factor.
BaseStep(f, n, f1, m, w, o) ==
    /\ n = 2 * m /\ f \in [1..n -> Point]
    /\ f1 = ECP_vec_add(ECP_vec_scalar(Left(f), w), ECP_vec_scalar(Right(f), o))

LEMMA BaseRound ==
    ASSUME NEW m \in Nat, NEW n \in Nat, NEW f, NEW f1, NEW w \in Int, NEW o \in Int,
           BaseStep(f, n, f1, m, w, o)
    PROVE  /\ f1 \in [1..m -> Point]
           /\ \A i \in 1..m, d \in 1..Dim :
                 /\ f1[i][d] \in 0..(Q - 1) /\ f1[i][d] \in Int
                 /\ f[i][d] \in Int /\ f[m + i][d] \in Int
                 /\ Same(f1[i][d], w * f[i][d] + o * f[m + i][d], Q)
<1>1. /\ n = 2 * m /\ f \in [1..n -> Point]
      /\ f1 = ECP_vec_add(ECP_vec_scalar(Left(f), w), ECP_vec_scalar(Right(f), o))
  BY DEF BaseStep
<1>2. /\ Left(f) \in [1..m -> Point] /\ Right(f) \in [1..m -> Point]
      /\ \A i \in 1..m : Left(f)[i] = f[i] /\ Right(f)[i] = f[m + i]
  <2>1. Halved(f, n, m, Point)
    BY <1>1 DEF Halved
  <2> QED BY <2>1, Halves
<1>3. /\ f1 \in [1..m -> Point]
      /\ \A i \in 1..m, d \in 1..Dim :
            /\ f1[i][d] \in 0..(Q - 1)
            /\ Same(f1[i][d], w * Left(f)[i][d] + o * Right(f)[i][d], Q)
  <2>1. Folds(f1, m, Left(f), Right(f), w, o)
    BY <1>1, <1>2 DEF Folds
  <2> QED BY <2>1, FoldPoints
<1>4. \A i \in 1..m, d \in 1..Dim :
        f1[i][d] \in Int /\ Left(f)[i][d] \in Int /\ Right(f)[i][d] \in Int
  BY <1>2, <1>3 DEF Point
<1> QED BY <1>2, <1>3, <1>4

LEMMA SignInt ==
    ASSUME NEW t \in Nat, NEW xs, NEW ys, NEW c, Appended(ys, xs, c, t),
           NEW q \in Nat, NEW b \in {0, 1}, NEW k, Doubled(k, q, b)
    PROVE  /\ Sign(xs, q) \in Int /\ Sign(ys, k) \in Int /\ Sign(ys, k) \in Units
           /\ b = 0 => Same(Sign(ys, k), Sign(xs, q) * Inverse(c), Q)
           /\ b = 1 => Same(Sign(ys, k), Sign(xs, q) * c, Q)
<1>1. xs \in [1..t -> Challenges] /\ c \in Challenges
  BY DEF Appended
<1>2. c \in Int /\ Inverse(c) \in Int /\ c \in Units /\ Inverse(c) \in Units
  <2>1. c \in Units
    BY <1>1, FieldAssumption DEF Units
  <2> QED BY <2>1, UnitInverse
<1>3. Sign(xs, q) \in Units /\ Sign(xs, q) \in Int
  <2>1. Sign(xs, q) \in Units
    BY <1>1, SignUnit
  <2> QED BY <2>1, FieldAssumption DEF Units
<1>4. Sign(ys, k) = (Sign(xs, q) * (IF b = 1 THEN c ELSE Inverse(c))) % Q
  BY SignStep
<1>5. CASE b = 0
  <2>1. Sign(ys, k) = (Sign(xs, q) * Inverse(c)) % Q
    BY <1>4, <1>5
  <2>2. Sign(xs, q) * Inverse(c) \in Int
    BY <1>2, <1>3
  <2>3. (Sign(xs, q) * Inverse(c)) % Q \in Units
    BY <1>2, <1>3, UnitProduct
  <2> QED BY <1>3, <1>5, <2>1, <2>2, <2>3, SameQ
<1>6. CASE b = 1
  <2>1. Sign(ys, k) = (Sign(xs, q) * c) % Q
    BY <1>4, <1>6
  <2>2. Sign(xs, q) * c \in Int
    BY <1>2, <1>3
  <2>3. (Sign(xs, q) * c) % Q \in Units
    BY <1>2, <1>3, UnitProduct
  <2> QED BY <1>3, <1>6, <2>1, <2>2, <2>3, SameQ
<1> QED BY <1>5, <1>6

LEMMA ZeroFold ==
    ASSUME NEW w \in Int, NEW o \in Int, NEW a \in Int, NEW b \in Int,
           NEW f \in Int, Same(a, 0, Q), Same(b, 0, Q), Same(f, w * a + o * b, Q)
    PROVE  Same(f, 0, Q)
<1>1. PICK s \in Int : s = 0
  OBVIOUS
<1>2. Same(f, w * s + o * s, Q)
  BY <1>1, FoldTwo
<1>3. w * s + o * s = 0
  BY <1>1
<1> QED BY <1>2, <1>3

LEMMA GRound ==
    ASSUME NEW m \in Nat \ {0}, NEW n \in Nat \ {0}, NEW t \in Nat,
           NEW f, NEW f1, NEW xs, NEW ys, NEW c, Appended(ys, xs, c, t),
           BaseStep(f, n, f1, m, Inverse(c), c), GAt(f, n, xs)
    PROVE  GAt(f1, m, ys)
<1>1. PICK o \in Int : o = Inverse(c) /\ c \in Int
  BY InverseUnit DEF Appended
<1>2. n = 2 * m /\ m \in Nat
  BY DEF BaseStep
<1>3. /\ f1 \in [1..m -> Point]
      /\ \A i \in 1..m, d \in 1..Dim :
            /\ f1[i][d] \in 0..(Q - 1) /\ f1[i][d] \in Int
            /\ f[i][d] \in Int /\ f[m + i][d] \in Int
            /\ Same(f1[i][d], o * f[i][d] + c * f[m + i][d], Q)
  <2>1. BaseStep(f, n, f1, m, o, c)
    BY <1>1
  <2> QED BY <1>1, <1>2, <2>1, BaseRound
<1>4. \A i \in 1..m : i \in 1..n /\ m + i \in 1..n
  BY <1>2
<1>5. ASSUME NEW i \in 1..m, NEW d \in 1..Dim, d < 4 \/ \E k \in Index : d = OnH(k)
      PROVE  Same(f1[i][d], 0, Q)
  <2>1. Same(f[i][d], 0, Q) /\ Same(f[m + i][d], 0, Q)
    BY <1>4, <1>5 DEF GAt
  <2>2. PICK a \in Int, b \in Int, f2 \in Int :
          a = f[i][d] /\ b = f[m + i][d] /\ f2 = f1[i][d]
    BY <1>3
  <2>3. Same(f2, o * a + c * b, Q)
    BY <1>3, <2>2
  <2>4. PICK n0 \in Int : n0 = 0
    OBVIOUS
  <2>5. Same(f2, o * n0 + c * n0, Q)
    BY <1>1, <2>1, <2>2, <2>3, <2>4, FoldTwo
  <2>6. o * n0 + c * n0 = 0
    BY <1>1, <2>4
  <2> QED BY <2>2, <2>5, <2>6
<1>6. ASSUME NEW i \in 1..m, NEW k \in Index
      PROVE  Same(f1[i][OnG(k)], IF k % m = i - 1 THEN Sign(ys, k \div m) ELSE 0, Q)
  <2>1. PICK q \in Nat, b \in {0, 1}, g \in 0..(m - 1) : HalfAt(k, n, m, q, b, g)
    <3>1. k \in Nat
      BY Axes
    <3> QED BY <1>2, <3>1, HalfIndex
  <2>2. PICK j \in Nat : j = 2 * q + b
    OBVIOUS
  <2>3. k % m = g /\ k \div m = j /\ k % n = m * b + g /\ k \div n = q
    BY <2>1, <2>2 DEF HalfAt
  <2>4. /\ Sign(xs, q) \in Int /\ Sign(ys, j) \in Int
        /\ b = 0 => Same(Sign(ys, j), Sign(xs, q) * o, Q)
        /\ b = 1 => Same(Sign(ys, j), Sign(xs, q) * c, Q)
    BY <1>1, <2>2, SignInt DEF Doubled
  <2>5. PICK s \in Int, s1 \in Int : s = Sign(xs, q) /\ s1 = Sign(ys, j)
    BY <2>4
  <2>6. PICK a \in Int, bb \in Int, f2 \in Int :
          a = f[i][OnG(k)] /\ bb = f[m + i][OnG(k)] /\ f2 = f1[i][OnG(k)]
    BY <1>3, Axes
  <2>7. /\ Same(a, IF m * b + g = i - 1 THEN s ELSE 0, Q)
        /\ Same(bb, IF m * b + g = (m + i) - 1 THEN s ELSE 0, Q)
    BY <1>4, <2>3, <2>5, <2>6 DEF GAt
  <2>8. Same(f2, o * a + c * bb, Q)
    BY <1>3, <2>6, Axes
  <2>9. CASE g # i - 1
    <3>1. m * b + g # i - 1 /\ m * b + g # (m + i) - 1
      BY <1>2, <2>9
    <3>2. Same(f2, 0, Q)
      BY <1>1, <2>7, <2>8, <3>1, ZeroFold
    <3> QED BY <2>3, <2>6, <2>9, <3>2
  <2>10. CASE g = i - 1
    <3>1. Same(s1, f2, Q)
      <4>1. PICK n0 \in Int, n1 \in Nat \ {0} : n0 = 0 /\ n1 = Q
        BY FieldAssumption
      <4>2. CASE b = 0
        <5>1. Same(a, s, Q) /\ Same(bb, n0, Q)
          BY <1>2, <2>7, <2>10, <4>1, <4>2
        <5>2. Same(f2, o * s + c * n0, Q)
          BY <1>1, <2>8, <5>1, FoldTwo
        <5>3. o * s + c * n0 = s * o /\ s * o \in Int
          BY <1>1, <4>1
        <5>4. Same(s1, s * o, Q)
          BY <2>4, <2>5, <4>2
        <5> QED BY <4>1, <5>2, <5>3, <5>4, SameTrans, SameReverse
      <4>3. CASE b = 1
        <5>1. Same(a, n0, Q) /\ Same(bb, s, Q)
          BY <1>2, <2>7, <2>10, <4>1, <4>3
        <5>2. Same(f2, o * n0 + c * s, Q)
          BY <1>1, <2>8, <5>1, FoldTwo
        <5>3. o * n0 + c * s = s * c /\ s * c \in Int
          BY <1>1, <4>1
        <5>4. Same(s1, s * c, Q)
          BY <2>4, <2>5, <4>3
        <5> QED BY <4>1, <5>2, <5>3, <5>4, SameTrans, SameReverse
      <4> QED BY <4>2, <4>3
    <3>2. Same(f2, s1, Q)
      BY <3>1, SameReverse, FieldAssumption
    <3> QED BY <2>3, <2>5, <2>6, <2>10, <3>2
  <2> QED BY <2>9, <2>10
<1> QED BY <1>3, <1>5, <1>6 DEF GAt

LEMMA Cancel ==
    ASSUME NEW f \in Int, NEW a \in Int, NEW s \in Int, NEW s1 \in Int,
           NEW c \in Int, NEW o \in Int, NEW w \in Int,
           Same(f, c * a, Q), Same(s1, s * o, Q), Same(c * o, 1, Q), Same(a * s, w, Q)
    PROVE  Same(f * s1, w, Q)
<1>1. PICK n \in Nat \ {0} : n = Q
  BY FieldAssumption
<1>2. PICK ca \in Int, so \in Int, co \in Int, as \in Int, fs \in Int :
        ca = c * a /\ so = s * o /\ co = c * o /\ as = a * s /\ fs = f * s1
  OBVIOUS
<1>3. Same(fs, ca * so, n)
  BY <1>1, <1>2, SameProducts
<1>4. Same(co * as, as, n)
  BY <1>1, <1>2, SameUnit
<1>5. ca * so = co * as /\ co * as \in Int
  BY <1>2
<1>6. Same(co * as, w, n)
  BY <1>1, <1>2, <1>4, <1>5, SameTrans
<1> QED BY <1>1, <1>2, <1>3, <1>5, <1>6, SameTrans

LEMMA HRound ==
    ASSUME NEW m \in Nat \ {0}, NEW n \in Nat \ {0}, NEW t \in Nat,
           NEW f, NEW f1, NEW xs, NEW ys, NEW c, Appended(ys, xs, c, t),
           BaseStep(f, n, f1, m, c, Inverse(c)),
           NEW w \in [1..VECTOR_LEN -> Int], HAt(f, n, xs, w)
    PROVE  HAt(f1, m, ys, w)
<1>1. PICK o \in Int : /\ o = Inverse(c) /\ c \in Int
                       /\ Same(c * o, 1, Q) /\ Same(o * c, 1, Q)
  BY InverseUnit DEF Appended
<1>2. n = 2 * m /\ m \in Nat
  BY DEF BaseStep
<1>3. /\ f1 \in [1..m -> Point]
      /\ \A i \in 1..m, d \in 1..Dim :
            /\ f1[i][d] \in 0..(Q - 1) /\ f1[i][d] \in Int
            /\ f[i][d] \in Int /\ f[m + i][d] \in Int
            /\ Same(f1[i][d], c * f[i][d] + o * f[m + i][d], Q)
  <2>1. BaseStep(f, n, f1, m, c, o)
    BY <1>1
  <2> QED BY <1>1, <1>2, <2>1, BaseRound
<1>4. \A i \in 1..m : i \in 1..n /\ m + i \in 1..n
  BY <1>2
<1>5. ASSUME NEW i \in 1..m, NEW d \in 1..Dim, d < 4 \/ \E k \in Index : d = OnG(k)
      PROVE  Same(f1[i][d], 0, Q)
  <2>1. Same(f[i][d], 0, Q) /\ Same(f[m + i][d], 0, Q)
    BY <1>4, <1>5 DEF HAt
  <2>2. PICK a \in Int, b \in Int, f2 \in Int :
          a = f[i][d] /\ b = f[m + i][d] /\ f2 = f1[i][d]
    BY <1>3
  <2>3. Same(f2, c * a + o * b, Q)
    BY <1>3, <2>2
  <2>4. PICK n0 \in Int : n0 = 0
    OBVIOUS
  <2>5. Same(f2, c * n0 + o * n0, Q)
    BY <1>1, <2>1, <2>2, <2>3, <2>4, FoldTwo
  <2>6. c * n0 + o * n0 = 0
    BY <1>1, <2>4
  <2> QED BY <2>2, <2>5, <2>6
<1>6. ASSUME NEW i \in 1..m, NEW k \in Index
      PROVE  IF k % m = i - 1
             THEN Same(f1[i][OnH(k)] * Sign(ys, k \div m), w[k + 1], Q)
             ELSE Same(f1[i][OnH(k)], 0, Q)
  <2>1. PICK q \in Nat, b \in {0, 1}, g \in 0..(m - 1) : HalfAt(k, n, m, q, b, g)
    <3>1. k \in Nat
      BY Axes
    <3> QED BY <1>2, <3>1, HalfIndex
  <2>2. PICK j \in Nat : j = 2 * q + b
    OBVIOUS
  <2>3. k % m = g /\ k \div m = j /\ k % n = m * b + g /\ k \div n = q
    BY <2>1, <2>2 DEF HalfAt
  <2>4. /\ Sign(xs, q) \in Int /\ Sign(ys, j) \in Int
        /\ b = 0 => Same(Sign(ys, j), Sign(xs, q) * o, Q)
        /\ b = 1 => Same(Sign(ys, j), Sign(xs, q) * c, Q)
    BY <1>1, <2>2, SignInt DEF Doubled
  <2>5. PICK s \in Int, s1 \in Int, wk \in Int :
          s = Sign(xs, q) /\ s1 = Sign(ys, j) /\ wk = w[k + 1]
    BY <2>4, Axes
  <2>6. PICK a \in Int, bb \in Int, f2 \in Int :
          a = f[i][OnH(k)] /\ bb = f[m + i][OnH(k)] /\ f2 = f1[i][OnH(k)]
    BY <1>3, Axes
  <2>7. /\ IF m * b + g = i - 1 THEN Same(a * s, wk, Q) ELSE Same(a, 0, Q)
        /\ IF m * b + g = (m + i) - 1 THEN Same(bb * s, wk, Q) ELSE Same(bb, 0, Q)
    BY <1>4, <2>3, <2>5, <2>6 DEF HAt
  <2>8. Same(f2, c * a + o * bb, Q)
    BY <1>3, <2>6, Axes
  <2>9. CASE g # i - 1
    <3>1. m * b + g # i - 1 /\ m * b + g # (m + i) - 1
      BY <1>2, <2>9
    <3>2. Same(f2, 0, Q)
      BY <1>1, <2>7, <2>8, <3>1, ZeroFold
    <3> QED BY <2>3, <2>6, <2>9, <3>2
  <2>10. CASE g = i - 1
    <3>1. Same(f2 * s1, wk, Q)
      <4>1. PICK n0 \in Int : n0 = 0
        OBVIOUS
      <4>t. Same(a, a, Q) /\ Same(bb, bb, Q)
        BY SameSelf, FieldAssumption
      <4>2. CASE b = 0
        <5>1. Same(a * s, wk, Q) /\ Same(bb, n0, Q)
          BY <1>2, <2>7, <2>10, <4>1, <4>2
        <5>2. Same(f2, c * a + o * n0, Q)
          BY <1>1, <2>8, <4>t, <5>1, FoldTwo
        <5>3. c * a + o * n0 = c * a
          BY <1>1, <4>1
        <5>4. Same(s1, s * o, Q) /\ Same(f2, c * a, Q)
          BY <2>4, <2>5, <4>2, <5>2, <5>3
        <5> QED BY <1>1, <5>1, <5>4, Cancel
      <4>3. CASE b = 1
        <5>1. Same(a, n0, Q) /\ Same(bb * s, wk, Q)
          BY <1>2, <2>7, <2>10, <4>1, <4>3
        <5>2. Same(f2, c * n0 + o * bb, Q)
          BY <1>1, <2>8, <4>t, <5>1, FoldTwo
        <5>3. c * n0 + o * bb = o * bb
          BY <1>1, <4>1
        <5>4. Same(s1, s * c, Q) /\ Same(f2, o * bb, Q)
          BY <2>4, <2>5, <4>3, <5>2, <5>3
        <5> QED BY <1>1, <5>1, <5>4, Cancel
      <4> QED BY <4>2, <4>3
    <3> QED BY <2>3, <2>5, <2>6, <2>10, <3>1
  <2> QED BY <2>9, <2>10
<1> QED BY <1>3, <1>5, <1>6 DEF HAt

LEMMA GStart == GAt(GG, VECTOR_LEN, <<>>)
<1>1. PICK n \in Nat \ {0} : n = VECTOR_LEN
  BY Lengths
<1>2. PICK q \in Nat \ {0} : q = Q /\ q > 1
  BY FieldAssumption
<1>3. GG \in [1..n -> Point]
  BY <1>1, GeneratorsArePoints
<1>4. ASSUME NEW i \in 1..n, NEW d \in 1..Dim
      PROVE  GG[i][d] = IF d = 3 + i THEN 1 ELSE 0
  BY <1>1, <1>4 DEF GG, Generator
<1>5. ASSUME NEW i \in 1..n, NEW d \in 1..Dim
      PROVE  GG[i][d] \in 0..(q - 1)
  BY <1>2, <1>4
<1>6. ASSUME NEW i \in 1..n, NEW d \in 1..Dim, d < 4 \/ \E k \in Index : d = OnH(k)
      PROVE  Same(GG[i][d], 0, Q)
  <2>1. d # 3 + i
    BY <1>1, <1>6, Axes DEF OnH, Index
  <2>2. GG[i][d] = 0
    BY <1>4, <2>1
  <2>3. PICK s \in Int : s = 0
    OBVIOUS
  <2> QED BY <1>2, <2>2, <2>3, SameSelf
<1>7. ASSUME NEW i \in 1..n, NEW k \in Index
      PROVE  Same(GG[i][OnG(k)], IF k % n = i - 1 THEN Sign(<<>>, k \div n) ELSE 0, Q)
  <2>1. PICK a \in Int : a = k /\ a \in 0..(n - 1)
    BY <1>1, Axes DEF Index
  <2>2. a % n = a
    BY <2>1
  <2>3. Sign(<<>>, k \div n) = 1
    BY SignEmpty
  <2>4. GG[i][OnG(k)] = IF k % n = i - 1 THEN Sign(<<>>, k \div n) ELSE 0
    <3>1. OnG(k) = 3 + i <=> k % n = i - 1
      BY <2>1, <2>2 DEF OnG
    <3> QED BY <1>4, <2>3, <3>1, Axes
  <2>5. GG[i][OnG(k)] \in Int
    BY <1>2, <1>5, Axes
  <2> QED BY <1>2, <2>4, <2>5, SameSelf
<1> QED BY <1>1, <1>2, <1>3, <1>5, <1>6, <1>7 DEF GAt

\* The powers the first bases h hold.
HPowers(c) == BN_vec_gen_power(VECTOR_LEN, Inverse(c))

LEMMA NewHAt ==
    ASSUME NEW c \in Challenges
    PROVE  /\ HPowers(c) \in [1..VECTOR_LEN -> Int]
           /\ NewH(c) \in [1..VECTOR_LEN -> Point]
           /\ \A i \in 1..VECTOR_LEN, d \in 1..Dim :
                /\ NewH(c)[i][d] \in 0..(Q - 1) /\ NewH(c)[i][d] \in Int
                /\ Same(NewH(c)[i][d], IF d = 3 + VECTOR_LEN + i THEN HPowers(c)[i] ELSE 0, Q)
<1>1. PICK n \in Nat \ {0}, i0 \in Int : n = VECTOR_LEN /\ i0 = Inverse(c)
  BY Lengths, InverseUnit
<1>2. PICK w \in [1..n -> Int] : w = BN_vec_gen_power(n, i0)
  BY PowersInt
<1>3. PICK h \in [1..n -> Point] : h = HH
  BY <1>1, GeneratorsArePoints
<1>4. NewH(c) = [k \in 1..n |-> ECP_vec_mul(<<h[k]>>, <<w[k]>>)]
  <2>1. NewH(c) = ECP_vec_product(h, w) /\ Len(h) = n
    BY <1>1, <1>2, <1>3, Vector DEF NewH
  <2> QED BY <2>1 DEF ECP_vec_product
<1>5. ASSUME NEW k \in 1..n
      PROVE  /\ NewH(c)[k] \in Point
             /\ \A d \in 1..Dim :
                   /\ NewH(c)[k][d] \in 0..(Q - 1)
                   /\ Same(NewH(c)[k][d], w[k] * h[k][d], Q)
  <2>1. PICK p \in Point, a \in Int : p = h[k] /\ a = w[k]
    OBVIOUS
  <2>2. NewH(c)[k] = ECP_vec_mul(<<p>>, <<a>>)
    BY <1>4, <2>1
  <2> QED BY <2>1, <2>2, MulSmall
<1>6. ASSUME NEW i \in 1..n, NEW d \in 1..Dim
      PROVE  Same(NewH(c)[i][d], IF d = 3 + n + i THEN w[i] ELSE 0, Q)
  <2>1. h[i][d] = IF d = 3 + n + i THEN 1 ELSE 0
    BY <1>1, <1>3 DEF HH, Generator
  <2>2. PICK a \in Int : a = w[i]
    OBVIOUS
  <2>3. a * h[i][d] = IF d = 3 + n + i THEN a ELSE 0
    BY <2>1
  <2> QED BY <1>5, <2>2, <2>3
<1>7. \A i \in 1..n, d \in 1..Dim : NewH(c)[i][d] \in Int
  BY <1>5 DEF Point
<1>8. NewH(c) \in [1..n -> Point]
  BY <1>4, <1>5
<1>9. HPowers(c) = w
  BY <1>1, <1>2 DEF HPowers
<1> QED BY <1>1, <1>5, <1>6, <1>7, <1>8, <1>9

LEMMA HStart ==
    ASSUME NEW c \in Challenges
    PROVE  HAt(NewH(c), VECTOR_LEN, <<>>, HPowers(c))
<1>1. PICK n \in Nat \ {0} : n = VECTOR_LEN
  BY Lengths
<1>2. PICK w \in [1..n -> Int] : w = HPowers(c)
  BY <1>1, NewHAt
<1>3. PICK h \in [1..n -> Point] : h = NewH(c)
  BY <1>1, NewHAt
<1>4. \A i \in 1..n, d \in 1..Dim :
        /\ h[i][d] \in 0..(Q - 1) /\ h[i][d] \in Int
        /\ Same(h[i][d], IF d = 3 + n + i THEN w[i] ELSE 0, Q)
  BY <1>1, <1>2, <1>3, NewHAt
<1>5. ASSUME NEW i \in 1..n, NEW d \in 1..Dim, d < 4 \/ \E k \in Index : d = OnG(k)
      PROVE  Same(h[i][d], 0, Q)
  <2>1. d # 3 + n + i
    BY <1>1, <1>5, Axes DEF OnG, Index
  <2> QED BY <1>4, <2>1
<1>6. ASSUME NEW i \in 1..n, NEW k \in Index
      PROVE  IF k % n = i - 1
             THEN Same(h[i][OnH(k)] * Sign(<<>>, k \div n), w[k + 1], Q)
             ELSE Same(h[i][OnH(k)], 0, Q)
  <2>1. PICK a \in Int : a = k /\ a \in 0..(n - 1)
    BY <1>1, Axes DEF Index
  <2>2. a % n = a
    BY <2>1
  <2>3. Sign(<<>>, k \div n) = 1
    BY SignEmpty
  <2>4. PICK b \in Int : b = h[i][OnH(k)]
    BY <1>4, Axes
  <2>5. Same(b, IF OnH(k) = 3 + n + i THEN w[i] ELSE 0, Q)
    BY <1>4, <2>4, Axes
  <2>6. OnH(k) = 3 + n + i <=> k % n = i - 1
    BY <1>1, <2>1, <2>2 DEF OnH
  <2>7. CASE k % n = i - 1
    <3>1. w[i] = w[k + 1]
      BY <2>1, <2>2, <2>7
    <3>2. b * 1 = b
      OBVIOUS
    <3> QED BY <2>3, <2>4, <2>5, <2>6, <2>7, <3>1, <3>2
  <2>8. CASE k % n # i - 1
    BY <2>4, <2>5, <2>6, <2>8
  <2> QED BY <2>7, <2>8
<1>7. \A i \in 1..n, d \in 1..Dim : h[i][d] \in 0..(Q - 1)
  BY <1>4
<1> QED BY <1>1, <1>2, <1>3, <1>5, <1>6, <1>7 DEF HAt

LEMMA SignsAre ==
    ASSUME NEW t \in Nat, NEW xs \in [1..t -> Challenges], NEW n \in Nat
    PROVE  LET s == compute_vec_ss(n, xs)
           IN /\ s \in [1..n -> Int]
              /\ \A i \in 1..n : s[i] = Sign(xs, i - 1) /\ s[i] \in Units
              /\ BN_vec_inverse(s) \in [1..n -> Int]
              /\ \A i \in 1..n : /\ BN_vec_inverse(s)[i] = Inverse(s[i])
                                 /\ Same(s[i] * BN_vec_inverse(s)[i], 1, Q)
<1> DEFINE s == compute_vec_ss(n, xs)
<1>1. s = [i \in 1..n |-> Sign(xs, i - 1)]
  BY DEF compute_vec_ss, Sign
<1> HIDE DEF s
<1>2. ASSUME NEW i \in 1..n
      PROVE  s[i] = Sign(xs, i - 1) /\ s[i] \in Units
  BY <1>1, SignUnit
<1>3. Units \subseteq Int
  BY FieldAssumption DEF Units
<1>4. s \in [1..n -> Int]
  BY <1>1, <1>2, <1>3
<1>5. BN_vec_inverse(s) = [i \in 1..n |-> Inverse(s[i])]
  BY <1>4, Vector DEF BN_vec_inverse
<1>6. ASSUME NEW i \in 1..n
      PROVE  /\ BN_vec_inverse(s)[i] = Inverse(s[i]) /\ Inverse(s[i]) \in Int
             /\ Same(s[i] * BN_vec_inverse(s)[i], 1, Q)
  <2>1. PICK a \in Units : a = s[i]
    BY <1>2
  <2>2. Inverse(a) \in Int /\ Same(a * Inverse(a), 1, Q)
    BY UnitInverse
  <2> QED BY <1>5, <2>1, <2>2
<1>7. BN_vec_inverse(s) \in [1..n -> Int]
  BY <1>5, <1>6
<1> QED BY <1>2, <1>4, <1>6, <1>7 DEF s

\* All rounds done: one base is left, and it is the multi-exponentiation.
LEMMA GEnd ==
    ASSUME NEW t \in Nat, NEW xs \in [1..t -> Challenges], NEW f, GAt(f, 1, xs)
    PROVE  f[1] = ECP_vec_mul(GG, compute_vec_ss(VECTOR_LEN, xs))
<1>1. PICK n \in Nat \ {0} : n = VECTOR_LEN /\ n \in Nat
  BY Lengths
<1>2. PICK s \in [1..n -> Int] :
        s = compute_vec_ss(n, xs) /\ \A i \in 1..n : s[i] = Sign(xs, i - 1)
  BY <1>1, SignsAre
<1>3. PICK A \in [1..n -> Point] : A = GG
  BY <1>1, GeneratorsArePoints
<1>4. PICK p : p = ECP_vec_mul(A, s)
  OBVIOUS
<1>5. /\ p \in Point
      /\ \A d \in 1..Dim : /\ Same(p[d], SumTo(n, Products(s, Column(A, d))), Q)
                           /\ SumTo(n, Products(s, Column(A, d))) \in Int
                           /\ p[d] \in 0..(Q - 1)
  BY <1>4, Mul
<1>6. f[1] \in Point /\ 1 \in 1..1
  BY DEF GAt
<1>7. ASSUME NEW d \in 1..Dim
      PROVE  Same(f[1][d], SumTo(n, Products(s, Column(A, d))), Q)
  <2>1. PICK g : g = Products(s, Column(A, d))
    OBVIOUS
  <2>2. \A i \in 1..n : g[i] \in Int /\ g[i] = s[i] * A[i][d]
    <3>1. Column(A, d) \in [1..n -> Int] /\ \A i \in 1..n : Column(A, d)[i] = A[i][d]
      BY ColumnInt
    <3>2. PICK cd \in [1..n -> Int] : cd = Column(A, d)
      BY <3>1
    <3>3. \A i \in 1..n : Products(s, cd)[i] = s[i] * cd[i] /\ Products(s, cd)[i] \in Int
      BY ProductsInt
    <3>4. \A i \in 1..n : cd[i] = A[i][d]
      BY <3>1, <3>2
    <3> QED BY <2>1, <3>2, <3>3, <3>4
  <2>3. \A i \in 1..n : g[i] = IF d = 3 + i THEN s[i] ELSE 0
    <3>1. ASSUME NEW i \in 1..n
          PROVE  g[i] = IF d = 3 + i THEN s[i] ELSE 0
      <4>1. A[i][d] = IF d = 3 + i THEN 1 ELSE 0
        BY <1>1, <1>3 DEF GG, Generator
      <4>2. PICK a \in Int : a = s[i]
        OBVIOUS
      <4> QED BY <2>2, <4>1, <4>2
    <3> QED BY <3>1
  <2>4. CASE \E k \in Index : d = OnG(k)
    <3>1. PICK k \in Index : d = OnG(k)
      BY <2>4
    <3>2. PICK j \in 1..n : j = k + 1 /\ d = 3 + j
      BY <1>1, <3>1, Axes DEF OnG
    <3>3. j \in 0..n /\ \A i \in 1..n : g[i] \in Int /\ (i # j => g[i] = 0)
      <4>1. \A i \in 1..n : i # j => d # 3 + i
        BY <3>2
      <4> QED BY <2>2, <2>3, <3>2, <4>1
    <3>4. SumTo(n, g) = g[j]
      <4>1. SumTo(n, g) = IF j = 0 THEN 0 ELSE g[j]
        BY <3>3, SumSingle
      <4> QED BY <4>1
    <3>5. g[j] = s[j] /\ s[j] = Sign(xs, k)
      <4>1. j - 1 = k
        BY <3>2, Axes
      <4> QED BY <1>2, <2>3, <3>2, <4>1
    <3>6. Same(f[1][d], IF k % 1 = 1 - 1 THEN Sign(xs, k \div 1) ELSE 0, Q)
      BY <1>6, <3>1 DEF GAt
    <3>7. k % 1 = 1 - 1 /\ k \div 1 = k
      BY Axes
    <3> QED BY <2>1, <3>4, <3>5, <3>6, <3>7
  <2>5. CASE ~ \E k \in Index : d = OnG(k)
    <3>1. \A i \in 1..n : d # 3 + i
      <4>1. ASSUME NEW i \in 1..n, d = 3 + i PROVE FALSE
        <5>1. i - 1 \in Index /\ d = OnG(i - 1)
          BY <1>1, <4>1 DEF Index, OnG
        <5> QED BY <2>5, <5>1
      <4> QED BY <4>1
    <3>2. SumTo(n, g) = 0
      <4>1. PICK j \in 0..n : j = 0
        OBVIOUS
      <4>2. \A i \in 1..n : g[i] = 0 /\ g[i] \in Int
        BY <2>2, <2>3, <3>1
      <4> QED BY <4>1, <4>2, SumSingle
    <3>3. Same(f[1][d], 0, Q)
      BY <1>6, <2>5, Axes DEF GAt
    <3> QED BY <2>1, <3>2, <3>3
  <2> QED BY <2>4, <2>5
<1>8. PICK f1 \in Point : f1 = f[1]
  BY <1>6
<1>9. ASSUME NEW d \in 1..Dim
      PROVE  f1[d] \in 0..(Q - 1) /\ p[d] \in 0..(Q - 1) /\ Same(f1[d], p[d], Q)
  <2>1. f1[d] \in 0..(Q - 1)
    BY <1>6, <1>8 DEF GAt
  <2>2. PICK a \in Int, b \in Int, c \in Int, q \in Nat \ {0} :
          a = f1[d] /\ b = p[d] /\ c = SumTo(n, Products(s, Column(A, d))) /\ q = Q
    <3>1. f1[d] \in Int /\ p[d] \in Int
      BY <1>5 DEF Point
    <3>2. SumTo(n, Products(s, Column(A, d))) \in Int
      BY <1>5
    <3>3. Q \in Nat \ {0}
      BY FieldAssumption
    <3> QED BY <3>1, <3>2, <3>3
  <2>3. Same(a, c, q) /\ Same(b, c, q)
    BY <1>5, <1>7, <1>8, <2>2
  <2>4. Same(a, b, q)
    BY <2>3, SameReverse, SameTrans
  <2> QED BY <1>5, <2>1, <2>2, <2>4
<1>10. f1 = p
  BY <1>5, <1>9, PointsEqual
<1> QED BY <1>1, <1>2, <1>3, <1>4, <1>8, <1>10

LEMMA CancelInverse ==
    ASSUME NEW f \in Int, NEW s \in Int, NEW i \in Int, NEW w \in Int, NEW h \in Int,
           Same(s * i, 1, Q), Same(f * s, w, Q), Same(h, w, Q)
    PROVE  Same(f, i * h, Q)
<1>1. PICK n \in Nat \ {0} : n = Q
  BY FieldAssumption
<1>2. PICK si \in Int, fs \in Int : si = s * i /\ fs = f * s
  OBVIOUS
<1>3. Same(si * f, f, n)
  BY <1>1, <1>2, SameUnit
<1>4. Same(fs, h, n)
  BY <1>1, <1>2, SameReverse, SameTrans
<1>5. Same(fs * i, h * i, n)
  BY <1>4, SameProduct
<1>6. fs * i = si * f /\ h * i = i * h /\ si * f \in Int /\ i * h \in Int
  BY <1>2
<1>7. Same(f, si * f, n)
  BY <1>3, <1>6, SameReverse
<1> QED BY <1>1, <1>5, <1>6, <1>7, SameTrans

LEMMA HEnd ==
    ASSUME NEW t \in Nat, NEW xs \in [1..t -> Challenges], NEW f, NEW c \in Challenges,
           HAt(f, 1, xs, HPowers(c))
    PROVE  f[1] = ECP_vec_mul(NewH(c), BN_vec_inverse(compute_vec_ss(VECTOR_LEN, xs)))
<1>1. PICK n \in Nat \ {0} : n = VECTOR_LEN /\ n \in Nat
  BY Lengths
<1>2. PICK s \in [1..n -> Int], o \in [1..n -> Int] :
        /\ s = compute_vec_ss(n, xs) /\ o = BN_vec_inverse(s)
        /\ \A i \in 1..n : s[i] = Sign(xs, i - 1) /\ Same(s[i] * o[i], 1, Q)
  BY <1>1, SignsAre
<1>3. PICK A \in [1..n -> Point], w \in [1..n -> Int] :
        /\ A = NewH(c) /\ w = HPowers(c)
        /\ \A i \in 1..n, d \in 1..Dim :
             /\ A[i][d] \in 0..(Q - 1) /\ A[i][d] \in Int
             /\ Same(A[i][d], IF d = 3 + n + i THEN w[i] ELSE 0, Q)
  BY <1>1, NewHAt
<1>4. PICK p : p = ECP_vec_mul(A, o)
  OBVIOUS
<1>5. /\ p \in Point
      /\ \A d \in 1..Dim : /\ Same(p[d], SumTo(n, Products(o, Column(A, d))), Q)
                           /\ SumTo(n, Products(o, Column(A, d))) \in Int
                           /\ p[d] \in 0..(Q - 1)
  BY <1>4, Mul
<1>6. f[1] \in Point /\ 1 \in 1..1
  BY DEF HAt
<1>z. \A i \in 1..n, d \in 1..Dim : d # 3 + n + i => A[i][d] = 0
  <2>1. ASSUME NEW i \in 1..n, NEW d \in 1..Dim, d # 3 + n + i
        PROVE  A[i][d] = 0
    <3>1. PICK q \in Nat \ {0} : q = Q
      BY FieldAssumption
    <3>2. PICK a \in 0..(q - 1) : a = A[i][d]
      BY <1>3, <3>1
    <3>3. PICK n0 \in Int : n0 = 0 /\ n0 % q = 0
      BY <3>1
    <3>4. Same(a, n0, q)
      BY <1>3, <2>1, <3>1, <3>2, <3>3
    <3>5. a = n0 % q
      BY <3>4, SameEqual
    <3> QED BY <3>2, <3>3, <3>5
  <2> QED BY <2>1
<1>7. ASSUME NEW d \in 1..Dim
      PROVE  Same(f[1][d], SumTo(n, Products(o, Column(A, d))), Q)
  <2>1. PICK g : g = Products(o, Column(A, d))
    OBVIOUS
  <2>2. \A i \in 1..n : g[i] \in Int /\ g[i] = o[i] * A[i][d]
    <3>1. Column(A, d) \in [1..n -> Int] /\ \A i \in 1..n : Column(A, d)[i] = A[i][d]
      BY ColumnInt
    <3>2. PICK cd \in [1..n -> Int] : cd = Column(A, d)
      BY <3>1
    <3>3. \A i \in 1..n : Products(o, cd)[i] = o[i] * cd[i] /\ Products(o, cd)[i] \in Int
      BY ProductsInt
    <3>4. \A i \in 1..n : cd[i] = A[i][d]
      BY <3>1, <3>2
    <3> QED BY <2>1, <3>2, <3>3, <3>4
  <2>3. \A i \in 1..n : d # 3 + n + i => g[i] = 0
    <3>1. ASSUME NEW i \in 1..n, d # 3 + n + i
          PROVE  g[i] = 0
      <4>1. PICK a \in Int : a = o[i]
        OBVIOUS
      <4>2. A[i][d] = 0
        BY <1>z, <3>1
      <4>3. g[i] = a * 0
        BY <2>2, <4>1, <4>2
      <4> QED BY <4>3
    <3> QED BY <3>1
  <2>4. CASE \E k \in Index : d = OnH(k)
    <3>1. PICK k \in Index : d = OnH(k)
      BY <2>4
    <3>2. PICK j \in 1..n : j = k + 1 /\ d = 3 + n + j
      BY <1>1, <3>1, Axes DEF OnH
    <3>3. j \in 0..n /\ \A i \in 1..n : g[i] \in Int /\ (i # j => g[i] = 0)
      BY <2>2, <2>3, <3>2
    <3>4. SumTo(n, g) = g[j]
      <4>1. SumTo(n, g) = IF j = 0 THEN 0 ELSE g[j]
        BY <3>3, SumSingle
      <4> QED BY <4>1
    <3>5. PICK sj \in Int, oj \in Int, wj \in Int, hj \in Int, fd \in Int :
            /\ sj = s[j] /\ oj = o[j] /\ wj = w[j] /\ hj = A[j][d] /\ fd = f[1][d]
      BY <1>3, <1>6 DEF Point
    <3>6. j - 1 = k /\ k % 1 = 1 - 1 /\ k \div 1 = k
      <4>1. k \in Nat
        BY Axes
      <4> QED BY <3>2, <4>1
    <3>7. Same(fd * sj, wj, Q)
      <4>1. Same(f[1][OnH(k)] * Sign(xs, k \div 1), HPowers(c)[k + 1], Q)
        BY <1>6, <3>6 DEF HAt
      <4> QED BY <1>2, <1>3, <3>1, <3>2, <3>5, <3>6, <4>1
    <3>8. Same(hj, wj, Q) /\ Same(sj * oj, 1, Q)
      BY <1>2, <1>3, <3>2, <3>5
    <3>9. Same(fd, oj * hj, Q)
      BY <3>7, <3>8, CancelInverse
    <3> QED BY <2>1, <2>2, <3>4, <3>5, <3>9
  <2>5. CASE ~ \E k \in Index : d = OnH(k)
    <3>1. \A i \in 1..n : d # 3 + n + i
      <4>1. ASSUME NEW i \in 1..n, d = 3 + n + i PROVE FALSE
        <5>1. i - 1 \in Index /\ d = OnH(i - 1)
          BY <1>1, <4>1 DEF Index, OnH
        <5> QED BY <2>5, <5>1
      <4> QED BY <4>1
    <3>2. SumTo(n, g) = 0
      <4>1. PICK j \in 0..n : j = 0
        OBVIOUS
      <4>2. \A i \in 1..n : g[i] = 0 /\ g[i] \in Int
        BY <2>2, <2>3, <3>1
      <4> QED BY <4>1, <4>2, SumSingle
    <3>3. Same(f[1][d], 0, Q)
      BY <1>6, <2>5, Axes DEF HAt
    <3> QED BY <2>1, <3>2, <3>3
  <2> QED BY <2>4, <2>5
<1>8. PICK f1 \in Point : f1 = f[1]
  BY <1>6
<1>9. ASSUME NEW d \in 1..Dim
      PROVE  f1[d] \in 0..(Q - 1) /\ p[d] \in 0..(Q - 1) /\ Same(f1[d], p[d], Q)
  <2>1. f1[d] \in 0..(Q - 1)
    BY <1>6, <1>8 DEF HAt
  <2>2. PICK a \in Int, b \in Int, c1 \in Int, q \in Nat \ {0} :
          a = f1[d] /\ b = p[d] /\ c1 = SumTo(n, Products(o, Column(A, d))) /\ q = Q
    <3>1. f1[d] \in Int /\ p[d] \in Int
      BY <1>5 DEF Point
    <3>2. SumTo(n, Products(o, Column(A, d))) \in Int
      BY <1>5
    <3>3. Q \in Nat \ {0}
      BY FieldAssumption
    <3> QED BY <3>1, <3>2, <3>3
  <2>3. Same(a, c1, q) /\ Same(b, c1, q)
    BY <1>5, <1>7, <1>8, <2>2
  <2>4. Same(a, b, q)
    BY <2>3, SameReverse, SameTrans
  <2> QED BY <1>5, <2>1, <2>2, <2>4
<1>10. f1 = p
  BY <1>5, <1>9, PointsEqual
<1> QED BY <1>1, <1>2, <1>3, <1>4, <1>8, <1>10

-----------------------------------------------------------------------------
(* The invariant: the rounds so far have made of both bases what their     *)
(* challenges say.                                                         *)

RoundsDone(n, t) ==
    /\ IsRound(n) /\ vec_x \in [1..t -> Challenges]
    /\ GAt(vec_g, n, vec_x) /\ HAt(vec_h, n, vec_x, HPowers(y))
    /\ phase = "verify" => n = 1

BaseInv ==
    /\ FoldInv
    /\ phase \in {"fold", "verify"} =>
          y \in Challenges /\ \E n \in 1..VECTOR_LEN, t \in Nat : RoundsDone(n, t)

LEMMA BaseInvShows == BaseInv => BasesAgree
<1> SUFFICES ASSUME BaseInv, phase = "verify"
             PROVE  LET s == compute_vec_ss(VECTOR_LEN, vec_x)
                    IN /\ vec_g[1] = ECP_vec_mul(GG, s)
                       /\ vec_h[1] = ECP_vec_mul(NewH(y), BN_vec_inverse(s))
  BY DEF BasesAgree
<1>1. PICK n \in 1..VECTOR_LEN, t \in Nat : RoundsDone(n, t)
  BY DEF BaseInv
<1>2. /\ vec_x \in [1..t -> Challenges] /\ y \in Challenges
      /\ GAt(vec_g, 1, vec_x) /\ HAt(vec_h, 1, vec_x, HPowers(y))
  BY <1>1 DEF RoundsDone, BaseInv
<1>3. vec_g[1] = ECP_vec_mul(GG, compute_vec_ss(VECTOR_LEN, vec_x))
  BY <1>2, GEnd
<1>4. vec_h[1] = ECP_vec_mul(NewH(y), BN_vec_inverse(compute_vec_ss(VECTOR_LEN, vec_x)))
  BY <1>2, HEnd
<1> QED BY <1>3, <1>4

LEMMA BaseInit == Init => BaseInv
BY FoldInit DEF Init, BaseInv

LEMMA BaseFold ==
    ASSUME BaseInv, Fold
    PROVE  \E n \in 1..VECTOR_LEN, t \in Nat : RoundsDone(n, t)'
<1>1. /\ phase = "fold" /\ phase' = phase /\ y' = y /\ y \in Challenges
  BY DEF Fold, bulletVars, BaseInv
<1>2. PICK n \in 1..VECTOR_LEN, t \in Nat : RoundsDone(n, t)
  BY <1>1 DEF BaseInv
<1>3. PICK c \in Challenges : InnerProduct_Round(c)
  BY DEF Fold
<1>4. PICK m \in 1..VECTOR_LEN : n = 2 * m /\ IsRound(m)'
  BY <1>2, <1>3, NextRound DEF RoundsDone
<1>5. m \in Nat \ {0} /\ n \in Nat \ {0} /\ n = 2 * m
  BY <1>4
<1>6. PICK f, h, f1, h1, xs, ys, w :
        /\ f = vec_g /\ h = vec_h /\ f1 = FoldG(vec_g, c) /\ h1 = FoldH(vec_h, c)
        /\ xs = vec_x /\ ys = Append(vec_x, c) /\ w = HPowers(y)
  OBVIOUS
<1>7. vec_g' = f1 /\ vec_h' = h1 /\ vec_x' = ys
  BY <1>3, <1>6 DEF InnerProduct_Round
<1>8. /\ f \in [1..n -> Point] /\ h \in [1..n -> Point] /\ xs \in [1..t -> Challenges]
      /\ GAt(f, n, xs) /\ HAt(h, n, xs, w) /\ w \in [1..VECTOR_LEN -> Int]
  BY <1>1, <1>2, <1>6, NewHAt DEF RoundsDone, IsRound
<1>9. Appended(ys, xs, c, t)
  BY <1>6, <1>8 DEF Appended
<1>10. BaseStep(f, n, f1, m, Inverse(c), c) /\ BaseStep(h, n, h1, m, c, Inverse(c))
  BY <1>5, <1>6, <1>8 DEF BaseStep, FoldG, FoldH
<1>11. GAt(f1, m, ys)
  BY <1>5, <1>8, <1>9, <1>10, GRound
<1>12. HAt(h1, m, ys, w)
  BY <1>5, <1>8, <1>9, <1>10, HRound
<1>13. PICK d \in Nat : d = t + 1
  OBVIOUS
<1>14. ys \in [1..d -> Challenges]
  <2>1. xs \in Seq(Challenges) /\ Len(xs) = t
    BY <1>8, Vector
  <2>2. ys \in Seq(Challenges) /\ Len(ys) = d
    BY <1>6, <1>13, <2>1
  <2> QED BY <2>2, Elements
<1>15. HPowers(y)' = w
  BY <1>1, <1>6 DEF HPowers
<1>16. /\ IsRound(m)' /\ vec_x' \in [1..d -> Challenges]
       /\ GAt(vec_g', m, vec_x') /\ HAt(vec_h', m, vec_x', w) /\ phase' # "verify"
  BY <1>1, <1>4, <1>7, <1>11, <1>12, <1>14
<1>17. RoundsDone(m, d)'
  BY <1>15, <1>16 DEF RoundsDone, GAt, HAt
<1> QED BY <1>13, <1>17

LEMMA BaseFirst ==
    ASSUME BaseInv, CommitPolynomial
    PROVE  y' \in Challenges /\ \E n \in 1..VECTOR_LEN, t \in Nat : RoundsDone(n, t)'
<1>1. /\ y \in Challenges /\ y' = y /\ phase' = "fold"
  BY DEF CommitPolynomial, BaseInv, FoldInv
<1>2. IsRound(VECTOR_LEN)'
  BY FirstRound DEF BaseInv
<1>3. vec_g' = GG /\ vec_h' = NewH(y) /\ vec_x' = <<>>
  BY DEF CommitPolynomial, IPStart
<1>4. PICK n \in 1..VECTOR_LEN, t \in Nat : n = VECTOR_LEN /\ t = 0
  BY Lengths
<1>5. vec_x' \in [1..t -> Challenges]
  BY <1>3, <1>4
<1>6. GAt(vec_g', n, vec_x') /\ HAt(vec_h', n, vec_x', HPowers(y))
  BY <1>1, <1>3, <1>4, GStart, HStart
<1>7. HPowers(y)' = HPowers(y)
  BY <1>1 DEF HPowers
<1>8. RoundsDone(n, t)'
  BY <1>1, <1>2, <1>4, <1>5, <1>6, <1>7 DEF RoundsDone
<1> QED BY <1>1, <1>8

LEMMA BaseStays ==
    ASSUME BaseInv, UNCHANGED ipVars, UNCHANGED y, phase \in {"fold", "verify"},
           phase' = "verify" => phase = "verify" \/ Len(vec_a) = 1
    PROVE  y' \in Challenges /\ \E n \in 1..VECTOR_LEN, t \in Nat : RoundsDone(n, t)'
<1>1. y \in Challenges
  BY DEF BaseInv
<1>2. PICK n \in 1..VECTOR_LEN, t \in Nat : RoundsDone(n, t)
  BY DEF BaseInv
<1>3. Len(vec_a) = n
  <2>1. vec_a \in [1..n -> Int] /\ n \in Nat
    BY <1>2 DEF RoundsDone, IsRound
  <2> QED BY <2>1, Vector
<1>4. /\ vec_g' = vec_g /\ vec_h' = vec_h /\ P' = P /\ u' = u /\ vec_a' = vec_a
      /\ vec_b' = vec_b /\ vec_x' = vec_x
  BY DEF ipVars
<1>5. IsRound(n)'
  BY <1>2, <1>4 DEF RoundsDone, IsRound
<1>6. HPowers(y)' = HPowers(y)
  BY DEF HPowers
<1>7. GAt(vec_g, n, vec_x)' /\ HAt(vec_h, n, vec_x, HPowers(y))'
  BY <1>2, <1>4, <1>6 DEF RoundsDone
<1>8. phase' = "verify" => n = 1
  BY <1>2, <1>3 DEF RoundsDone
<1>9. RoundsDone(n, t)'
  BY <1>2, <1>4, <1>5, <1>7, <1>8 DEF RoundsDone
<1> QED BY <1>1, <1>9

LEMMA BaseNext == BaseInv /\ [Next]_vars => BaseInv'
<1> SUFFICES ASSUME BaseInv, [Next]_vars
             PROVE  BaseInv'
  OBVIOUS
<1>1. FoldInv'
  BY FoldStep DEF BaseInv
<1>2. CASE CommitBits
  BY <1>1, <1>2 DEF CommitBits, BaseInv
<1>3. CASE CommitPolynomial
  BY <1>1, <1>3, BaseFirst DEF BaseInv
<1>4. CASE Fold
  <2>1. y' = y /\ y \in Challenges
    BY <1>4 DEF Fold, bulletVars, BaseInv
  <2> QED BY <1>1, <1>4, <2>1, BaseFold DEF BaseInv
<1>5. CASE Finish
  BY <1>1, <1>5, BaseStays DEF Finish, BaseInv
<1>6. CASE Bullet_Verify
  BY <1>1, <1>6, BaseStays DEF Bullet_Verify, BaseInv
<1>7. CASE UNCHANGED vars
  <2>1. UNCHANGED ipVars /\ y' = y /\ phase' = phase
    BY <1>7 DEF vars, bulletVars
  <2> QED BY <1>1, <2>1, BaseStays DEF BaseInv
<1> QED BY <1>2, <1>3, <1>4, <1>5, <1>6, <1>7 DEF Next

\* The verifier, who sees only the challenges, computes with compute_vec_ss
\* in one go what the prover's rounds made of the bases, for every group,
\* every vector length and all challenges.
THEOREM BasesAlwaysAgree == Spec => []BasesAgree
<1>1. Spec => []BaseInv
  BY BaseInit, BaseNext, PTL DEF Spec
<1> QED BY <1>1, BaseInvShows, PTL

-----------------------------------------------------------------------------
(* The constant term of the prover's polynomial. *)

\* What the operations on vectors compute, modulo the order.
LEMMA VectorsAre ==
    ASSUME NEW n \in Nat, NEW a \in [1..n -> Int], NEW b \in [1..n -> Int], NEW c \in Int
    PROVE  \A i \in 1..n :
              /\ Same(BN_vec_add(a, b)[i], a[i] + b[i], Q)
              /\ Same(BN_vec_sub(a, b)[i], a[i] - b[i], Q)
              /\ Same(BN_vec_product(a, b)[i], a[i] * b[i], Q)
              /\ Same(BN_vec_scalar(a, c)[i], a[i] * c, Q)
<1> SUFFICES ASSUME NEW i \in 1..n
             PROVE  /\ Same(BN_vec_add(a, b)[i], a[i] + b[i], Q)
                    /\ Same(BN_vec_sub(a, b)[i], a[i] - b[i], Q)
                    /\ Same(BN_vec_product(a, b)[i], a[i] * b[i], Q)
                    /\ Same(BN_vec_scalar(a, c)[i], a[i] * c, Q)
  OBVIOUS
<1>1. Len(a) = n
  BY Vector
<1>2. PICK s \in Int, t \in Int : s = a[i] /\ t = b[i]
  OBVIOUS
<1>3. s + t \in Int /\ s - t \in Int /\ s * t \in Int /\ s * c \in Int
  OBVIOUS
<1>4. /\ BN_vec_add(a, b)[i] = (s + t) % Q /\ BN_vec_sub(a, b)[i] = (s - t) % Q
      /\ BN_vec_product(a, b)[i] = (s * t) % Q /\ BN_vec_scalar(a, c)[i] = (s * c) % Q
  BY <1>1, <1>2 DEF BN_vec_add, BN_vec_sub, BN_vec_product, BN_vec_scalar
<1>5. Same((s + t) % Q, s + t, Q) /\ Same((s - t) % Q, s - t, Q)
  BY <1>3, SameQ
<1>6. Same((s * t) % Q, s * t, Q) /\ Same((s * c) % Q, s * c, Q)
  BY <1>3, SameQ
<1> QED BY <1>2, <1>4, <1>5, <1>6

\* The weights of the bits: z^(j+1) 2^k for bit k of commitment j.
Weights == [i \in 1..VECTOR_LEN |->
              Power(z, (i - 1) \div RANGE_LEN + 2) * Power(2, (i - 1) % RANGE_LEN)]

LEMMA WeightsInt ==
    ASSUME z \in Challenges
    PROVE  /\ Weights \in [1..VECTOR_LEN -> Int] /\ ZTwos(z) \in [1..VECTOR_LEN -> Int]
           /\ \A i \in 1..VECTOR_LEN : Same(ZTwos(z)[i], Weights[i], Q)
<1>1. ASSUME NEW i \in 1..VECTOR_LEN
      PROVE  Weights[i] \in Int /\ Same(ZTwos(z)[i], Weights[i], Q)
  <2>1. PICK d \in Nat, f \in Nat : d = (i - 1) \div RANGE_LEN + 2 /\ f = (i - 1) % RANGE_LEN
    BY Lengths
  <2>2. PICK s \in Int, t \in Int : s = Power(z, d) /\ t = Power(2, f)
    <3>1. z \in Int
      BY InverseUnit
    <3>2. Power(z, d) \in Int
      BY <3>1, PowerInt
    <3>3. Power(2, f) \in Int
      BY PowerInt
    <3> QED BY <3>2, <3>3
  <2>3. Weights[i] = s * t /\ ZTwos(z)[i] = (s * t) % Q
    BY <2>1, <2>2 DEF Weights, ZTwos
  <2>4. s * t \in Int
    OBVIOUS
  <2>5. Same((s * t) % Q, s * t, Q)
    BY <2>4, SameQ
  <2> QED BY <2>3, <2>4, <2>5
<1>2. Weights \in [1..VECTOR_LEN -> Int]
  BY <1>1 DEF Weights
<1> QED BY <1>1, <1>2, ZTwosInt

\* A bit a, turned and blinded by z on both sides.
LEMMA BitTerm ==
    ASSUME NEW n \in Nat \ {0}, NEW b \in {0, 1}, NEW zz \in Int, NEW yy \in Int,
           NEW w \in Int, NEW s \in Int, NEW t \in Int,
           Same(s, b - zz, n), Same(t, yy * ((b - 1) + zz) + w, n)
    PROVE  Same(s * t, ((zz - zz * zz) * yy + b * w) + (-zz) * w, n)
<1>1. PICK d \in Int, f \in Int : d = b - zz /\ f = yy * ((b - 1) + zz) + w
  OBVIOUS
<1>2. Same(s * t, d * f, n)
  BY <1>1, SameProducts
<1>3. d * f = ((zz - zz * zz) * yy + b * w) + (-zz) * w
  <2>1. CASE b = 0
    <3>1. d = -zz /\ f = yy * (-1 + zz) + w
      BY <1>1, <2>1
    <3> QED BY <2>1, <3>1
  <2>2. CASE b = 1
    <3>1. d = 1 - zz /\ f = yy * zz + w
      BY <1>1, <2>2
    <3> QED BY <2>2, <3>1
  <2> QED BY <2>1, <2>2
<1> QED BY <1>2, <1>3

YPowers == BN_vec_gen_power(VECTOR_LEN, y)

LEMMA YPowersInt ==
    ASSUME y \in Challenges
    PROVE  YPowers \in [1..VECTOR_LEN -> Int]
BY InverseUnit, Lengths, PowersInt DEF YPowers

\* Bit k of commitment j.
LEMMA BitIs ==
    ASSUME v \in [Agg -> Values], NEW i \in 1..VECTOR_LEN
    PROVE  /\ v[(i - 1) \div RANGE_LEN + 1] \in Nat
           /\ AL[i] = Digit(v[(i - 1) \div RANGE_LEN + 1], (i - 1) % RANGE_LEN, 2)
           /\ AL[i] \in {0, 1}
<1>1. v[(i - 1) \div RANGE_LEN + 1] \in Nat
  BY Lengths, BulletAssumption
<1>2. AL[i] = Digit(v[(i - 1) \div RANGE_LEN + 1], (i - 1) % RANGE_LEN, 2)
  BY DEF AL, Bits, Digit, Prefix
<1>3. PICK b \in Nat \ {0}, w \in Nat, k \in Nat :
        b = 2 /\ w = v[(i - 1) \div RANGE_LEN + 1] /\ k = (i - 1) % RANGE_LEN
  BY <1>1, Lengths
<1>4. Digit(w, k, b) \in 0..(b - 1)
  BY PrefixIs
<1> QED BY <1>1, <1>2, <1>3, <1>4

LEMMA PointwiseTerm ==
    ASSUME v \in [Agg -> Values], y \in Challenges, z \in Challenges,
           NEW i \in 1..VECTOR_LEN
    PROVE  /\ LL0 \in [1..VECTOR_LEN -> Int] /\ RR0 \in [1..VECTOR_LEN -> Int]
           /\ Same(LL0[i], AL[i] - z, Q)
           /\ Same(RR0[i], YPowers[i] * ((AL[i] - 1) + z) + Weights[i], Q)
<1>1. PICK n \in Nat : n = VECTOR_LEN
  BY Lengths
<1>2. z \in Int /\ i \in 1..n /\ Q \in Nat \ {0}
  BY <1>1, InverseUnit, SameQ
<1>3. /\ Ones \in [1..n -> Int] /\ AL \in [1..n -> Int] /\ ZTwos(z) \in [1..n -> Int]
      /\ YPowers \in [1..n -> Int] /\ Weights \in [1..n -> Int]
      /\ Same(ZTwos(z)[i], Weights[i], Q) /\ Ones[i] = 1
  BY <1>1, BitsInt, WeightsInt, YPowersInt DEF Ones, AL
<1>4. PICK oz : oz = BN_vec_scalar(Ones, z)
  OBVIOUS
<1>5. oz \in [1..n -> Int] /\ Same(oz[i], z, Q)
  <2>1. oz \in [1..n -> Int] /\ Same(oz[i], Ones[i] * z, Q)
    BY <1>2, <1>3, <1>4, ScalarInt, VectorsAre
  <2>2. Ones[i] * z = z
    BY <1>2, <1>3
  <2> QED BY <2>1, <2>2
<1>6. AR \in [1..n -> Int] /\ Same(AR[i], AL[i] - 1, Q)
  <2>1. AR \in [1..n -> Int] /\ Same(AR[i], AL[i] - Ones[i], Q)
    BY <1>2, <1>3, SubInt, VectorsAre DEF AR
  <2> QED BY <1>3, <2>1
<1>7. PICK b \in Int, o \in Int, e1 \in Int, yy \in Int, tz \in Int, w \in Int :
        /\ b = AL[i] /\ o = oz[i] /\ e1 = AR[i] /\ yy = YPowers[i] /\ tz = ZTwos(z)[i]
        /\ w = Weights[i]
  BY <1>2, <1>3, <1>5, <1>6
<1>8. LL0 \in [1..n -> Int] /\ Same(LL0[i], b - z, Q)
  <2>1. LL0 \in [1..n -> Int] /\ Same(LL0[i], b - o, Q)
    BY <1>2, <1>3, <1>4, <1>5, <1>7, SubInt, VectorsAre DEF LL0
  <2>2. Same(o, z, Q) /\ Same(b, b, Q)
    BY <1>2, <1>5, <1>7, SameSelf
  <2>3. Same(b - o, b - z, Q)
    BY <1>2, <2>2, SameSum
  <2>4. PICK s \in Int, d \in Int, f \in Int : s = LL0[i] /\ d = b - o /\ f = b - z
    BY <1>2, <2>1
  <2> QED BY <1>2, <2>1, <2>3, <2>4, SameTrans
<1>9. PICK ar : ar = BN_vec_add(AR, oz)
  OBVIOUS
<1>10. ar \in [1..n -> Int] /\ Same(ar[i], (b - 1) + z, Q)
  <2>1. ar \in [1..n -> Int] /\ Same(ar[i], e1 + o, Q)
    BY <1>2, <1>5, <1>6, <1>7, <1>9, AddInt, VectorsAre
  <2>2. Same(e1, b - 1, Q) /\ Same(o, z, Q)
    BY <1>5, <1>6, <1>7
  <2>3. PICK d \in Int : d = b - 1
    OBVIOUS
  <2>4. Same(e1 + o, d + z, Q)
    BY <1>2, <2>2, <2>3, SameSum
  <2>5. PICK s \in Int, f \in Int, g \in Int : s = ar[i] /\ f = e1 + o /\ g = d + z
    BY <1>2, <2>1
  <2>6. Same(ar[i], d + z, Q)
    BY <1>2, <2>1, <2>4, <2>5, SameTrans
  <2> QED BY <2>1, <2>3, <2>6
<1>11. PICK q \in Int, g \in Int : q = ar[i] /\ g = (b - 1) + z
  BY <1>2, <1>10
<1>12. PICK pr : pr = BN_vec_product(YPowers, ar)
  OBVIOUS
<1>13. pr \in [1..n -> Int] /\ Same(pr[i], yy * g, Q)
  <2>1. pr \in [1..n -> Int] /\ Same(pr[i], yy * q, Q)
    BY <1>2, <1>3, <1>7, <1>10, <1>11, <1>12, ProductInt, VectorsAre
  <2>2. Same(q, g, Q)
    BY <1>10, <1>11
  <2>3. Same(q * yy, g * yy, Q)
    BY <1>2, <2>2, SameProduct
  <2>4. PICK s \in Int, f \in Int, h \in Int :
          s = pr[i] /\ f = yy * q /\ h = yy * g /\ f = q * yy /\ h = g * yy
    BY <1>2, <2>1
  <2> QED BY <1>2, <2>1, <2>3, <2>4, SameTrans
<1>14. RR0 \in [1..n -> Int] /\ Same(RR0[i], yy * g + w, Q)
  <2>1. RR0 = BN_vec_add(pr, ZTwos(z))
    BY <1>4, <1>9, <1>12 DEF RR0, YPowers
  <2>2. RR0 \in [1..n -> Int] /\ Same(RR0[i], pr[i] + tz, Q)
    BY <1>2, <1>3, <1>7, <1>13, <2>1, AddInt, VectorsAre
  <2>3. PICK s \in Int, p \in Int, f \in Int : s = RR0[i] /\ p = pr[i] /\ f = yy * g
    BY <1>2, <1>13, <2>2
  <2>4. Same(p, f, Q) /\ Same(tz, w, Q) /\ Same(s, p + tz, Q)
    BY <1>3, <1>7, <1>13, <2>2, <2>3
  <2>5. Same(p + tz, f + w, Q)
    BY <1>2, <2>4, SameSum
  <2>6. PICK d \in Int, h \in Int : d = p + tz /\ h = f + w
    OBVIOUS
  <2>7. Same(s, f + w, Q)
    BY <1>2, <2>4, <2>5, <2>6, SameTrans
  <2> QED BY <2>2, <2>3, <2>7
<1> QED BY <1>1, <1>7, <1>8, <1>11, <1>14

RangePowers == [j \in Agg |-> Power(z, j + 1) * v[j]]
\* What the bits of a value leave out, and the values without it.
Above(w) == Prefix(w, RANGE_LEN, 2) * Power(2, RANGE_LEN)
LowPowers == [j \in Agg |-> Power(z, j + 1) * (v[j] - Above(v[j]))]
ZPowers(t) == [j \in Agg |-> Power(z, j + t)]

LEMMA AggLengths ==
    /\ RANGE_LEN \in Nat \ {0} /\ AGG_NUM \in Nat \ {0} /\ VECTOR_LEN = AGG_NUM * RANGE_LEN
    /\ Agg = 1..AGG_NUM
<1>1. PICK a \in Nat \ {0}, b \in Nat \ {0} : a = RANGE_LEN /\ b = AGG_NUM
  BY BulletAssumption
<1>2. a * b = b * a
  OBVIOUS
<1> QED BY <1>1, <1>2, BulletAssumption DEF Agg

LEMMA RangePowersInt ==
    ASSUME v \in [Agg -> Values], z \in Challenges, NEW j \in Agg
    PROVE  /\ v[j] \in Nat /\ Power(z, j + 1) \in Int /\ RangePowers[j] \in Int
           /\ RangePowers[j] = Power(z, j + 1) * v[j]
<1>1. v[j] \in Nat /\ j \in Nat /\ z \in Int
  <2>1. v[j] \in Values /\ Values \subseteq Nat
    BY BulletAssumption
  <2>2. j \in Nat
    <3>1. PICK m \in Nat : m = AGG_NUM
      BY AggLengths
    <3>2. j \in 1..m
      BY <3>1, AggLengths
    <3> QED BY <3>2
  <2>3. z \in Int
    BY InverseUnit
  <2> QED BY <2>1, <2>2, <2>3
<1>2. Power(z, j + 1) \in Int
  BY <1>1, PowerInt
<1> QED BY <1>1, <1>2 DEF RangePowers

\* A bit's weight is a power of two in its commitment's power of z.
LEMMA BlockWeight ==
    ASSUME v \in [Agg -> Values], z \in Challenges, NEW j \in Agg, NEW k \in 1..RANGE_LEN,
           NEW i, i = (j - 1) * RANGE_LEN + k
    PROVE  /\ i \in 1..VECTOR_LEN
           /\ Weights[i] = Power(z, j + 1) * Power(2, k - 1)
           /\ AL[i] = Digit(v[j], k - 1, 2)
<1>1. i \in 1..VECTOR_LEN /\ (i - 1) \div RANGE_LEN = j - 1 /\ (i - 1) % RANGE_LEN = k - 1
  BY AggLengths, BlockIndex
<1>2. j \in Nat /\ (j - 1) + 2 = j + 1 /\ (j - 1) + 1 = j
  BY AggLengths
<1>3. Weights[i] = Power(z, j + 1) * Power(2, k - 1)
  BY <1>1, <1>2 DEF Weights
<1>4. AL[i] = Digit(v[j], k - 1, 2)
  BY <1>1, <1>2, BitIs
<1> QED BY <1>1, <1>3, <1>4

\* What the bits leave out is a number, and nothing of a value in the range.
LEMMA AboveIs ==
    ASSUME NEW w \in Nat
    PROVE  /\ Above(w) \in Nat /\ Above(w) <= w
           /\ w < Power(2, RANGE_LEN) <=> Above(w) = 0
<1>1. PICK n \in Nat, b \in Nat \ {0} : n = RANGE_LEN /\ b = 2
  BY AggLengths
<1>2. PICK p \in Nat \ {0} : p = Power(b, n)
  BY PowerNat
<1>3. PICK q \in Nat, d \in 0..(p - 1) : q = Prefix(w, n, b) /\ w = p * q + d
  <2>1. /\ Prefix(w, n, b) \in Nat
        /\ \E d \in 0..(Power(b, n) - 1) : w = Power(b, n) * Prefix(w, n, b) + d
    BY PrefixIs
  <2>2. PICK q \in Nat : q = Prefix(w, n, b)
    BY <2>1
  <2> QED BY <1>2, <2>1, <2>2
<1>4. Above(w) = q * p
  BY <1>1, <1>2, <1>3 DEF Above
<1>5. q * p \in Nat /\ q * p <= w /\ p * q = q * p
  BY <1>3
<1>6. CASE q = 0
  <2>1. q * p = 0 /\ w < p
    BY <1>3, <1>6
  <2> QED BY <1>1, <1>2, <1>4, <1>5, <2>1
<1>7. CASE q # 0
  <2>1. PICK k \in Nat : q = k + 1
    <3>1. q - 1 \in Nat /\ q = (q - 1) + 1
      BY <1>7
    <3> QED BY <3>1
  <2>2. q * p = k * p + p /\ k * p \in Nat
    BY <2>1
  <2>3. q * p >= p /\ q * p # 0 /\ ~(w < p)
    BY <1>5, <2>2
  <2>4. Above(w) \in Nat /\ Above(w) <= w /\ Above(w) # 0
    BY <1>4, <1>5, <2>3
  <2> QED BY <1>1, <1>2, <2>3, <2>4
<1> QED BY <1>6, <1>7

LEMMA LowPowersInt ==
    ASSUME v \in [Agg -> Values], z \in Challenges, NEW j \in Agg
    PROVE  /\ LowPowers[j] \in Int /\ Above(v[j]) \in Int
           /\ LowPowers[j] = Power(z, j + 1) * (v[j] - Above(v[j]))
           /\ InRange(v) => LowPowers[j] = RangePowers[j]
<1>1. v[j] \in Nat /\ Power(z, j + 1) \in Int /\ RangePowers[j] = Power(z, j + 1) * v[j]
  BY RangePowersInt
<1>2. Above(v[j]) \in Int /\ (v[j] < Power(2, RANGE_LEN) => Above(v[j]) = 0)
  BY <1>1, AboveIs
<1>3. LowPowers[j] = Power(z, j + 1) * (v[j] - Above(v[j]))
  BY DEF LowPowers
<1>4. InRange(v) => LowPowers[j] = RangePowers[j]
  <2>1. InRange(v) => Above(v[j]) = 0
    BY <1>2 DEF InRange
  <2>2. v[j] - 0 = v[j]
    BY <1>1
  <2> QED BY <1>1, <1>3, <2>1, <2>2
<1> QED BY <1>1, <1>2, <1>3, <1>4

LEMMA LowIsAll ==
    ASSUME v \in [Agg -> Values], z \in Challenges, InRange(v)
    PROVE  SumTo(AGG_NUM, LowPowers) = SumTo(AGG_NUM, RangePowers)
<1>1. PICK m \in Nat : m = AGG_NUM /\ Agg = 1..m
  BY AggLengths
<1>2. \A j \in 1..m : LowPowers[j] = RangePowers[j]
  BY <1>1, LowPowersInt
<1> QED BY <1>1, <1>2, SumEqual

\* The bits of the values, with their weights, are the values without what
\* the bits leave out.
LEMMA WeightedBits ==
    ASSUME v \in [Agg -> Values], z \in Challenges
    PROVE  SumTo(VECTOR_LEN, Products(AL, Weights)) = SumTo(AGG_NUM, LowPowers)
<1>1. PICK n \in Nat \ {0}, m \in Nat : n = RANGE_LEN /\ m = AGG_NUM
  BY AggLengths
<1>2. m * n = VECTOR_LEN /\ Agg = 1..m /\ m * n \in Nat
  BY <1>1, AggLengths
<1>3. PICK f : f = Products(AL, Weights)
  OBVIOUS
<1>4. \A i \in 1..(m * n) : f[i] = AL[i] * Weights[i] /\ f[i] \in Int
  <2>1. AL \in [1..(m * n) -> Int] /\ Weights \in [1..(m * n) -> Int]
    BY <1>2, BitsInt, WeightsInt DEF AL
  <2> QED BY <1>2, <1>3, <2>1, ProductsInt
<1>5. ASSUME NEW j \in 1..m
      PROVE  \E h : /\ \A k \in 1..n : h[k] = f[(j - 1) * n + k]
                    /\ LowPowers[j] = SumTo(n, h)
  <2>1. PICK p \in Int, w \in Nat :
          p = Power(z, j + 1) /\ w = v[j] /\ LowPowers[j] = p * (w - Above(w))
    BY <1>2, RangePowersInt, LowPowersInt
  <2>2. PICK d : d = [k \in 1..n |-> Digit(w, k - 1, 2) * Power(2, k - 1)]
    OBVIOUS
  <2>3. PICK h : h = [k \in 1..n |-> f[(j - 1) * n + k]]
    OBVIOUS
  <2>4. ASSUME NEW k \in 1..n PROVE d[k] \in Int /\ h[k] = p * d[k]
    <3>1. PICK i : i = (j - 1) * n + k
      OBVIOUS
    <3>2. /\ i \in 1..(m * n) /\ Weights[i] = p * Power(2, k - 1)
          /\ AL[i] = Digit(w, k - 1, 2)
      BY <1>1, <1>2, <2>1, <3>1, BlockWeight
    <3>3. PICK s \in Int, t \in Int : s = Digit(w, k - 1, 2) /\ t = Power(2, k - 1)
      <4>1. k - 1 \in Nat
        OBVIOUS
      <4>2. Power(2, k - 1) \in Int
        BY <4>1, PowerInt
      <4>3. AL[i] \in {0, 1}
        BY <1>2, <3>2, BitIs
      <4> QED BY <3>2, <4>2, <4>3
    <3>4. h[k] = s * (p * t) /\ d[k] = s * t
      BY <1>4, <2>2, <2>3, <3>1, <3>2, <3>3
    <3>5. s * (p * t) = p * (s * t)
      OBVIOUS
    <3> QED BY <3>4, <3>5
  <2>5. SumTo(n, h) = p * SumTo(n, d)
    BY <2>4, SumTimes
  <2>6. SumTo(n, d) = w - Prefix(w, n, 2) * Power(2, n)
    BY <2>2, BitSum
  <2>7. SumTo(n, d) = w - Above(w)
    BY <1>1, <2>6 DEF Above
  <2> QED BY <2>1, <2>3, <2>5, <2>7
<1>6. PICK g : g = LowPowers
  OBVIOUS
<1>7. InBlocks(n, m, f, g)
  BY <1>4, <1>5, <1>6 DEF InBlocks
<1>8. SumTo(m * n, f) = SumTo(m, g)
  BY <1>7, SumBlocks
<1> QED BY <1>1, <1>2, <1>3, <1>6, <1>8

\* The weights, times z.
LEMMA WeightsSum ==
    ASSUME v \in [Agg -> Values], z \in Challenges
    PROVE  z * SumTo(VECTOR_LEN, Weights)
             = SumTo(AGG_NUM, ZPowers(2)) * (Power(2, RANGE_LEN) - 1)
<1>1. PICK n \in Nat \ {0}, m \in Nat : n = RANGE_LEN /\ m = AGG_NUM
  BY AggLengths
<1>2. m * n = VECTOR_LEN /\ Agg = 1..m /\ m * n \in Nat
  BY <1>1, AggLengths
<1>3. PICK zz \in Int : zz = z
  BY InverseUnit
<1>4. PICK t \in Int : t = Power(2, n) - 1
  <2>1. PICK d \in Nat \ {0} : d = 2
    OBVIOUS
  <2>2. Power(d, n) \in Nat \ {0}
    BY PowerNat
  <2> QED BY <2>1, <2>2
<1>5. PICK f : f = Weights
  OBVIOUS
<1>6. \A i \in 1..(m * n) : f[i] \in Int
  BY <1>2, <1>5, WeightsInt
<1>7. PICK g : g = [j \in 1..m |-> t * Power(zz, j + 1)]
  OBVIOUS
<1>8. ASSUME NEW j \in 1..m
      PROVE  \E h : /\ \A k \in 1..n : h[k] = f[(j - 1) * n + k]
                    /\ g[j] = SumTo(n, h)
  <2>1. PICK p \in Int : p = Power(zz, j + 1)
    BY PowerInt
  <2>2. PICK d : d = [k \in 1..n |-> Power(2, k - 1)]
    OBVIOUS
  <2>3. PICK h : h = [k \in 1..n |-> f[(j - 1) * n + k]]
    OBVIOUS
  <2>4. ASSUME NEW k \in 1..n PROVE d[k] \in Int /\ h[k] = p * d[k]
    <3>1. PICK i : i = (j - 1) * n + k
      OBVIOUS
    <3>2. Weights[i] = p * Power(2, k - 1)
      BY <1>1, <1>2, <1>3, <2>1, <3>1, BlockWeight
    <3>3. k - 1 \in Nat
      OBVIOUS
    <3>4. Power(2, k - 1) \in Int
      BY <3>3, PowerInt
    <3> QED BY <1>5, <2>2, <2>3, <3>1, <3>2, <3>4
  <2>5. SumTo(n, h) = p * SumTo(n, d)
    BY <2>4, SumTimes
  <2>6. SumTo(n, d) = t
    BY <1>4, <2>2, PowersOfTwo
  <2>7. g[j] = t * p /\ t * p = p * t
    BY <1>7, <2>1
  <2> QED BY <2>3, <2>5, <2>6, <2>7
<1>9. InBlocks(n, m, f, g)
  BY <1>6, <1>8 DEF InBlocks
<1>10. SumTo(m * n, f) = SumTo(m, g)
  BY <1>9, SumBlocks
<1>11. PICK q : q = [j \in 1..m |-> Power(zz, j + 1)]
  OBVIOUS
<1>12. PICK w : w = [j \in 1..m |-> Power(zz, j + 2)]
  OBVIOUS
<1>13. ASSUME NEW j \in 1..m
       PROVE  q[j] \in Int /\ g[j] = t * q[j] /\ w[j] = zz * q[j]
  <2>1. PICK d \in Nat : d = j + 1 /\ d + 1 = j + 2
    OBVIOUS
  <2>2. Power(zz, d) \in Int /\ Power(zz, d + 1) = zz * Power(zz, d)
    BY PowerInt, PowerStep
  <2> QED BY <1>7, <1>11, <1>12, <2>1, <2>2
<1>14. SumTo(m, g) = t * SumTo(m, q)
  BY <1>13, SumTimes
<1>15. SumTo(m, w) = zz * SumTo(m, q)
  BY <1>13, SumTimes
<1>16. PICK s \in Int : s = SumTo(m, q)
  BY <1>13, SumInt
<1>17. zz * (t * s) = (zz * s) * t
  OBVIOUS
<1>18. ZPowers(2) = w
  BY <1>2, <1>3, <1>12 DEF ZPowers
<1> QED BY <1>1, <1>2, <1>3, <1>4, <1>5, <1>10, <1>14, <1>15, <1>16, <1>17, <1>18

\* Eq 39: the constant term is what the verifier adds to the commitments'
\* values, without what the bits leave out of them.
LEMMA ConstantTerm ==
    ASSUME v \in [Agg -> Values], y \in Challenges, z \in Challenges
    PROVE  /\ Delta \in Int /\ SumTo(AGG_NUM, LowPowers) \in Int
           /\ SumTo(VECTOR_LEN, Products(LL0, RR0)) \in Int
           /\ Same(SumTo(VECTOR_LEN, Products(LL0, RR0)),
                   SumTo(AGG_NUM, LowPowers) + Delta, Q)
<1>1. PICK n \in Nat, m \in Nat : n = VECTOR_LEN /\ m = AGG_NUM
  BY Lengths, AggLengths
<1>2. PICK zz \in Int : zz = z
  BY InverseUnit
<1>3. PICK e1 \in Int : e1 = zz - zz * zz
  OBVIOUS
<1>4. PICK yp \in [1..n -> Int], w \in [1..n -> Int], al \in [1..n -> Int] :
        yp = YPowers /\ w = Weights /\ al = AL
  BY <1>1, YPowersInt, WeightsInt, BitsInt DEF AL
<1>5. PICK ll \in [1..n -> Int], rr \in [1..n -> Int] : ll = LL0 /\ rr = RR0
  <2>1. 1 \in 1..VECTOR_LEN
    BY Lengths
  <2> QED BY <1>1, <2>1, PointwiseTerm
<1>6. Q \in Nat \ {0}
  BY FieldAssumption
<1>7. PICK aw : aw = Products(al, w)
  OBVIOUS
<1>8. \A i \in 1..n : aw[i] = al[i] * w[i] /\ aw[i] \in Int
  BY <1>7, ProductsInt
<1>9. PICK c \in Int : c = -zz
  OBVIOUS
<1>10. PICK q : q = [i \in 1..n |-> e1 * yp[i] + c * w[i]]
  OBVIOUS
<1>11. PICK d : d = [i \in 1..n |-> 1 * aw[i] + 1 * q[i]]
  OBVIOUS
<1>12. ASSUME NEW i \in 1..n
       PROVE  /\ q[i] \in Int /\ d[i] \in Int /\ Products(ll, rr)[i] \in Int
              /\ Same(Products(ll, rr)[i], d[i], Q)
  <2>1. PICK s \in Int, t \in Int, b \in {0, 1}, yy \in Int, x1 \in Int :
          s = ll[i] /\ t = rr[i] /\ b = al[i] /\ yy = yp[i] /\ x1 = w[i]
    BY <1>1, <1>4, <1>5, BitIs
  <2>2. Same(s, b - zz, Q) /\ Same(t, yy * ((b - 1) + zz) + x1, Q)
    BY <1>1, <1>2, <1>4, <1>5, <2>1, PointwiseTerm
  <2>3. Same(s * t, ((zz - zz * zz) * yy + b * x1) + (-zz) * x1, Q)
    BY <1>6, <2>2, BitTerm
  <2>4. q[i] = e1 * yy + c * x1 /\ q[i] \in Int
    BY <1>10, <2>1
  <2>5. aw[i] = b * x1 /\ b * x1 \in Int
    BY <1>8, <2>1
  <2>6. d[i] = (b * x1) + (e1 * yy + c * x1) /\ d[i] \in Int
    <3>1. d[i] = 1 * aw[i] + 1 * q[i]
      BY <1>11
    <3> QED BY <2>4, <2>5, <3>1
  <2>7. ((zz - zz * zz) * yy + b * x1) + (-zz) * x1 = d[i]
    BY <1>3, <1>9, <2>5, <2>6
  <2>8. Products(ll, rr)[i] = s * t /\ s * t \in Int
    <3>1. Products(ll, rr)[i] = ll[i] * rr[i]
      BY ProductsInt
    <3> QED BY <2>1, <3>1
  <2> QED BY <2>3, <2>4, <2>6, <2>7, <2>8
<1>13. PICK f : f = Products(ll, rr)
  OBVIOUS
<1>14. Same(SumTo(n, f), SumTo(n, d), Q)
  BY <1>6, <1>12, <1>13, SumSame
<1>15. SumTo(n, d) = 1 * SumTo(n, aw) + 1 * SumTo(n, q)
  <2>1. PICK o \in Int : o = 1
    OBVIOUS
  <2>2. Combines(n, d, o, aw, o, q)
    BY <1>8, <1>11, <1>12, <2>1 DEF Combines
  <2>3. SumTo(n, d) = o * SumTo(n, aw) + o * SumTo(n, q)
    BY <2>2, SumCombine
  <2> QED BY <2>1, <2>3
<1>16. SumTo(n, q) = e1 * SumTo(n, yp) + c * SumTo(n, w)
  <2>1. Combines(n, q, e1, yp, c, w)
    BY <1>10 DEF Combines
  <2> QED BY <2>1, SumCombine
<1>17. PICK sf \in Int, sa \in Int, sy \in Int, sw \in Int :
         sf = SumTo(n, f) /\ sa = SumTo(n, aw) /\ sy = SumTo(n, yp) /\ sw = SumTo(n, w)
  <2>1. SumTo(n, f) \in Int
    BY <1>12, <1>13, SumInt
  <2>2. SumTo(n, aw) \in Int
    BY <1>8, SumInt
  <2>3. SumTo(n, yp) \in Int /\ SumTo(n, w) \in Int
    BY SumInt
  <2> QED BY <2>1, <2>2, <2>3
<1>18. sa = SumTo(m, LowPowers)
  BY <1>1, <1>4, <1>7, <1>17, WeightedBits
<1>19. PICK sz \in Int, p2 \in Int : /\ sz = SumTo(m, ZPowers(2)) /\ p2 = Power(2, RANGE_LEN) - 1
                                     /\ zz * sw = sz * p2
  <2>1. \A j \in 1..m : ZPowers(2)[j] \in Int
    <3>1. ASSUME NEW j \in 1..m PROVE ZPowers(2)[j] \in Int
      <4>1. j + 2 \in Nat /\ ZPowers(2)[j] = Power(zz, j + 2)
        BY <1>1, <1>2, AggLengths DEF ZPowers
      <4> QED BY <4>1, PowerInt
    <3> QED BY <3>1
  <2>2. SumTo(m, ZPowers(2)) \in Int
    BY <2>1, SumInt
  <2>3. Power(2, RANGE_LEN) \in Int
    <3>1. PICK k \in Nat : k = RANGE_LEN
      BY AggLengths
    <3>2. Power(2, k) \in Int
      BY PowerInt
    <3> QED BY <3>1, <3>2
  <2>4. z * SumTo(VECTOR_LEN, Weights) = SumTo(AGG_NUM, ZPowers(2)) * (Power(2, RANGE_LEN) - 1)
    BY WeightsSum
  <2> QED BY <1>1, <1>2, <1>4, <1>17, <2>2, <2>3, <2>4
<1>20. Delta = (e1 * sy - sz * p2) % Q
  BY <1>1, <1>2, <1>3, <1>4, <1>17, <1>19 DEF Delta, ZPowers, YPowers
<1>21. PICK d0 \in Int : d0 = e1 * sy - sz * p2
  OBVIOUS
<1>22. Delta \in Int /\ Same(Delta, d0, Q)
  BY <1>20, <1>21, SameQ
<1>23. SumTo(n, d) = sa + d0
  <2>1. SumTo(n, d) = 1 * sa + 1 * (e1 * sy + c * sw)
    BY <1>15, <1>16, <1>17
  <2>2. c * sw = -(sz * p2)
    BY <1>9, <1>19
  <2> QED BY <1>21, <2>1, <2>2
<1>24. PICK dl \in Int : dl = Delta
  BY <1>22
<1>25. Same(sa + dl, sa + d0, Q)
  <2>1. Same(sa, sa, Q)
    BY <1>6, SameSelf
  <2> QED BY <1>6, <1>22, <1>24, <2>1, SameSum
<1>26. Same(sf, sa + d0, Q)
  BY <1>14, <1>17, <1>23
<1>27. PICK s1 \in Int, s2 \in Int : s1 = sa + dl /\ s2 = sa + d0
  OBVIOUS
<1>28. Same(sf, sa + dl, Q)
  <2>1. Same(s2, s1, Q)
    BY <1>6, <1>25, <1>27, SameReverse
  <2>2. Same(sf, s1, Q)
    BY <1>6, <1>26, <1>27, <2>1, SameTrans
  <2> QED BY <1>27, <2>2
<1>29. sf = SumTo(VECTOR_LEN, Products(LL0, RR0))
  BY <1>1, <1>5, <1>13, <1>17
<1> QED BY <1>1, <1>17, <1>18, <1>22, <1>24, <1>28, <1>29

-----------------------------------------------------------------------------
(* Multi-exponentiations over lists that are put together. *)

\* The N points D with scalars d are the m points A with a, then the n points B with b.
Joined(N, D, d, m, A, a, n, B, b) ==
    /\ N = m + n /\ D = A \o B /\ d = a \o b
    /\ A \in [1..m -> Point] /\ a \in [1..m -> Int]
    /\ B \in [1..n -> Point] /\ b \in [1..n -> Int]

Concats(N, f, m, s, n, t, S) ==
    N = m + n /\ f = s \o t /\ s \in [1..m -> S] /\ t \in [1..n -> S]

LEMMA Concat ==
    ASSUME NEW m \in Nat, NEW n \in Nat, NEW N \in Nat, NEW S, NEW f, NEW s, NEW t,
           Concats(N, f, m, s, n, t, S)
    PROVE  /\ f \in [1..N -> S] /\ \A i \in 1..m : f[i] = s[i]
           /\ \A i \in 1..n : f[m + i] = t[i]
<1>1. /\ s \in Seq(S) /\ Len(s) = m /\ t \in Seq(S) /\ Len(t) = n /\ f = s \o t /\ N = m + n
  BY Vector DEF Concats
<1>2. /\ s \o t \in Seq(S) /\ Len(s \o t) = Len(s) + Len(t)
      /\ \A i \in 1..Len(s) : (s \o t)[i] = s[i]
      /\ \A i \in 1..Len(t) : (s \o t)[Len(s) + i] = t[i]
  <2>1. PICK p \in Seq(S), q \in Seq(S) : p = s /\ q = t
    BY <1>1
  <2>2. /\ p \o q \in Seq(S) /\ Len(p \o q) = Len(p) + Len(q)
        /\ \A i \in 1..Len(p) : (p \o q)[i] = p[i]
        /\ \A i \in 1..Len(q) : (p \o q)[Len(p) + i] = q[i]
    OBVIOUS
  <2> QED BY <2>1, <2>2
<1>3. f \in Seq(S) /\ Len(f) = N
  BY <1>1, <1>2
<1>4. f \in [1..N -> S]
  BY <1>3, Elements
<1>5. (\A i \in 1..m : f[i] = s[i]) /\ \A i \in 1..n : f[m + i] = t[i]
  BY <1>1, <1>2
<1> QED BY <1>4, <1>5

LEMMA DotConcat ==
    ASSUME NEW m \in Nat, NEW n \in Nat, NEW N \in Nat,
           NEW D, NEW d, NEW A, NEW a, NEW B, NEW b,
           Joined(N, D, d, m, A, a, n, B, b)
    PROVE  /\ D \in [1..N -> Point] /\ d \in [1..N -> Int]
           /\ \A k \in 1..Dim : /\ Dot(N, d, D, k) = Dot(m, a, A, k) + Dot(n, b, B, k)
                                /\ Dot(m, a, A, k) \in Int /\ Dot(n, b, B, k) \in Int
                                /\ Dot(N, d, D, k) \in Int
<1>1. Concats(N, D, m, A, n, B, Point) /\ Concats(N, d, m, a, n, b, Int)
  BY DEF Joined, Concats
<1>2. D \in [1..N -> Point] /\ d \in [1..N -> Int]
  BY <1>1, Concat
<1>3. /\ \A i \in 1..m : D[i] = A[i] /\ d[i] = a[i]
      /\ \A i \in 1..n : D[m + i] = B[i] /\ d[m + i] = b[i]
  BY <1>1, Concat
<1>4. /\ N = m + n /\ A \in [1..m -> Point] /\ a \in [1..m -> Int]
      /\ B \in [1..n -> Point] /\ b \in [1..n -> Int]
  BY DEF Joined
<1>5. ASSUME NEW k \in 1..Dim
      PROVE  Dot(N, d, D, k) = Dot(m, a, A, k) + Dot(n, b, B, k)
  <2>1. PICK f, g, h : /\ f = Products(d, Column(D, k)) /\ g = Products(a, Column(A, k))
                       /\ h = Products(b, Column(B, k))
    OBVIOUS
  <2>2. \A i \in 1..N : f[i] = d[i] * D[i][k] /\ f[i] \in Int
    <3>1. Column(D, k) \in [1..N -> Int] /\ \A i \in 1..N : Column(D, k)[i] = D[i][k]
      BY <1>2, ColumnInt
    <3> QED BY <1>2, <2>1, <3>1, ProductsInt
  <2>3. \A i \in 1..m : g[i] = a[i] * A[i][k]
    <3>1. PICK c \in [1..m -> Int] :
            c = Column(A, k) /\ \A i \in 1..m : c[i] = A[i][k]
      BY <1>4, ColumnInt
    <3>2. \A i \in 1..m : Products(a, c)[i] = a[i] * c[i]
      BY <1>4, ProductsInt
    <3> QED BY <2>1, <3>1, <3>2
  <2>4. \A i \in 1..n : h[i] = b[i] * B[i][k]
    <3>1. PICK c \in [1..n -> Int] :
            c = Column(B, k) /\ \A i \in 1..n : c[i] = B[i][k]
      BY <1>4, ColumnInt
    <3>2. \A i \in 1..n : Products(b, c)[i] = b[i] * c[i]
      BY <1>4, ProductsInt
    <3> QED BY <2>1, <3>1, <3>2
  <2>5. \A i \in 1..m : i \in 1..N /\ f[i] = g[i]
    <3>1. \A i \in 1..m : i \in 1..N
      BY <1>4
    <3> QED BY <1>3, <2>2, <2>3, <3>1
  <2>6. \A i \in 1..n : h[i] = f[m + i]
    <3>1. \A i \in 1..n : m + i \in 1..N
      BY <1>4
    <3> QED BY <1>3, <2>2, <2>4, <3>1
  <2>7. SumTo(m + n, f) = SumTo(m, f) + SumTo(n, h)
    <3>1. Follows(m, n, f, h)
      BY <2>6 DEF Follows
    <3> QED BY <1>4, <2>2, <3>1, SumConcat
  <2>8. SumTo(m, f) = SumTo(m, g)
    BY <2>5, SumEqual
  <2> QED BY <1>4, <2>1, <2>7, <2>8 DEF Dot
<1>6. \A k \in 1..Dim : /\ Dot(m, a, A, k) \in Int /\ Dot(n, b, B, k) \in Int
                        /\ Dot(N, d, D, k) \in Int
  BY <1>2, <1>4, DotInt
<1> QED BY <1>2, <1>5, <1>6

IsOne(B, b, p, w1) == p \in Point /\ w1 \in Int /\ B = <<p>> /\ b = <<w1>>

LEMMA DotOne ==
    ASSUME NEW B, NEW b, NEW p, NEW w1 \in Int, IsOne(B, b, p, w1)
    PROVE  /\ B \in [1..1 -> Point] /\ b \in [1..1 -> Int]
           /\ \A k \in 1..Dim : p[k] \in Int /\ Dot(1, b, B, k) = w1 * p[k]
<1>1. p \in Point /\ B = <<p>> /\ b = <<w1>>
  BY DEF IsOne
<1>2. ASSUME NEW k \in 1..Dim PROVE p[k] \in Int /\ Dot(1, b, B, k) = w1 * p[k]
  <2>1. p[k] \in Int /\ w1 * p[k] \in Int
    BY <1>1 DEF Point
  <2>2. SumTo(1, Products(<<w1>>, Column(<<p>>, k))) = w1 * p[k]
    <3>1. Products(<<w1>>, Column(<<p>>, k))[1] = w1 * p[k]
      BY DEF Products, Column
    <3> QED BY <2>1, <3>1, SumSmall
  <2>3. Dot(1, <<w1>>, <<p>>, k) = w1 * p[k]
    BY <2>2 DEF Dot
  <2> QED BY <1>1, <2>1, <2>3
<1>3. <<p>> \in [1..1 -> Point] /\ <<w1>> \in [1..1 -> Int]
  BY <1>1
<1> QED BY <1>1, <1>2, <1>3

AreTwo(B, b, p, q, w1, w2) ==
    /\ p \in Point /\ q \in Point /\ w1 \in Int /\ w2 \in Int
    /\ B = <<p, q>> /\ b = <<w1, w2>>

LEMMA DotTwo ==
    ASSUME NEW B, NEW b, NEW p, NEW q, NEW w1 \in Int, NEW w2 \in Int,
           AreTwo(B, b, p, q, w1, w2)
    PROVE  /\ B \in [1..2 -> Point] /\ b \in [1..2 -> Int]
           /\ \A k \in 1..Dim : /\ p[k] \in Int /\ q[k] \in Int
                                /\ Dot(2, b, B, k) = w1 * p[k] + w2 * q[k]
<1>1. p \in Point /\ q \in Point /\ B = <<p, q>> /\ b = <<w1, w2>>
  BY DEF AreTwo
<1>2. ASSUME NEW k \in 1..Dim
      PROVE  /\ p[k] \in Int /\ q[k] \in Int
             /\ Dot(2, b, B, k) = w1 * p[k] + w2 * q[k]
  <2>1. p[k] \in Int /\ q[k] \in Int /\ w1 * p[k] \in Int
    BY <1>1 DEF Point
  <2>2. /\ Products(b, Column(B, k))[1] = w1 * p[k]
        /\ Products(b, Column(B, k))[2] = w2 * q[k]
    BY <1>1 DEF Products, Column
  <2> QED BY <2>1, <2>2, SumSmall DEF Dot
<1> QED BY <1>1, <1>2

AreThree(B, b, p, q, s, w1, w2, w3) ==
    /\ p \in Point /\ q \in Point /\ s \in Point
    /\ w1 \in Int /\ w2 \in Int /\ w3 \in Int
    /\ B = <<p, q, s>> /\ b = <<w1, w2, w3>>

LEMMA DotThree ==
    ASSUME NEW B, NEW b, NEW p, NEW q, NEW s, NEW w1 \in Int, NEW w2 \in Int, NEW w3 \in Int,
           AreThree(B, b, p, q, s, w1, w2, w3)
    PROVE  /\ B \in [1..3 -> Point] /\ b \in [1..3 -> Int]
           /\ \A k \in 1..Dim :
                 /\ p[k] \in Int /\ q[k] \in Int /\ s[k] \in Int
                 /\ Dot(3, b, B, k) = w1 * p[k] + w2 * q[k] + w3 * s[k]
<1>1. /\ p \in Point /\ q \in Point /\ s \in Point
      /\ B = <<p, q, s>> /\ b = <<w1, w2, w3>>
  BY DEF AreThree
<1>2. ASSUME NEW k \in 1..Dim
      PROVE  /\ p[k] \in Int /\ q[k] \in Int /\ s[k] \in Int
             /\ Dot(3, b, B, k) = w1 * p[k] + w2 * q[k] + w3 * s[k]
  <2>1. p[k] \in Int /\ q[k] \in Int /\ s[k] \in Int /\ w1 * p[k] \in Int
    BY <1>1 DEF Point
  <2>2. /\ Products(b, Column(B, k))[1] = w1 * p[k]
        /\ Products(b, Column(B, k))[2] = w2 * q[k]
        /\ Products(b, Column(B, k))[3] = w3 * s[k]
    BY <1>1 DEF Products, Column
  <2> QED BY <2>1, <2>2, SumSmall DEF Dot
<1> QED BY <1>1, <1>2

\* f is the multi-exponentiation of the n points A by a.
Multiplies(f, n, A, a) ==
    f = ECP_vec_mul(A, a) /\ A \in [1..n -> Point] /\ a \in [1..n -> Int]

LEMMA MulDot ==
    ASSUME NEW n \in Nat \ {0}, NEW f, NEW A, NEW a, Multiplies(f, n, A, a)
    PROVE  /\ f \in Point
           /\ \A k \in 1..Dim : /\ f[k] \in 0..(Q - 1) /\ f[k] \in Int
                                /\ Dot(n, a, A, k) \in Int
                                /\ Same(f[k], Dot(n, a, A, k), Q)
<1>1. f = ECP_vec_mul(A, a) /\ A \in [1..n -> Point] /\ a \in [1..n -> Int]
  BY DEF Multiplies
<1>2. f \in Point
  BY <1>1, Mul
<1>3. ASSUME NEW k \in 1..Dim
      PROVE  /\ f[k] \in 0..(Q - 1) /\ Dot(n, a, A, k) \in Int
             /\ Same(f[k], Dot(n, a, A, k), Q)
  BY <1>1, Mul DEF Dot
<1>4. \A k \in 1..Dim : f[k] \in Int
  BY <1>2 DEF Point
<1> QED BY <1>2, <1>3, <1>4

-----------------------------------------------------------------------------
(* The polynomials at the challenge, and the verifier's first equation. *)

Evaluates(f, n, a, s, c) ==
    /\ f \in [1..n -> Int] /\ a \in [1..n -> Int] /\ s \in [1..n -> Int]
    /\ \A i \in 1..n : Same(f[i], a[i] + c * s[i], Q)

\* The value of a product of two vector polynomials.
LEMMA InnerLinear ==
    ASSUME NEW n \in Nat, NEW c \in Int, NEW cc \in Int, cc = c * c,
           NEW f, NEW a, NEW s, NEW g, NEW b, NEW t,
           Evaluates(f, n, a, s, c), Evaluates(g, n, b, t, c)
    PROVE  Same(SumTo(n, Products(f, g)),
                (SumTo(n, Products(a, b)) + c * SumTo(n, Products(a, t)))
                  + (c * SumTo(n, Products(s, b)) + cc * SumTo(n, Products(s, t))), Q)
<1>1. /\ f \in [1..n -> Int] /\ a \in [1..n -> Int] /\ s \in [1..n -> Int]
      /\ g \in [1..n -> Int] /\ b \in [1..n -> Int] /\ t \in [1..n -> Int]
      /\ \A i \in 1..n : Same(f[i], a[i] + c * s[i], Q) /\ Same(g[i], b[i] + c * t[i], Q)
  BY DEF Evaluates
<1>2. PICK fg, ab, at, sb, st :
        /\ fg = Products(f, g) /\ ab = Products(a, b) /\ at = Products(a, t)
        /\ sb = Products(s, b) /\ st = Products(s, t)
  OBVIOUS
<1>3. \A i \in 1..n : /\ fg[i] = f[i] * g[i] /\ fg[i] \in Int
                      /\ ab[i] = a[i] * b[i] /\ ab[i] \in Int
                      /\ at[i] = a[i] * t[i] /\ at[i] \in Int
                      /\ sb[i] = s[i] * b[i] /\ sb[i] \in Int
                      /\ st[i] = s[i] * t[i] /\ st[i] \in Int
  BY <1>1, <1>2, ProductsInt
<1>4. PICK e1 : e1 = [i \in 1..n |-> c * at[i]]
  OBVIOUS
<1>5. PICK d : d = [i \in 1..n |-> (ab[i] + e1[i]) + (c * sb[i] + cc * st[i])]
  OBVIOUS
<1>6. Q \in Nat \ {0}
  BY FieldAssumption
<1>7. \A i \in 1..n : fg[i] \in Int /\ d[i] \in Int /\ Same(fg[i], d[i], Q)
  <2> SUFFICES ASSUME NEW i \in 1..n
               PROVE  fg[i] \in Int /\ d[i] \in Int /\ Same(fg[i], d[i], Q)
    OBVIOUS
  <2>1. PICK p \in Int, q \in Int, x1 \in Int, x2 \in Int, x3 \in Int, x4 \in Int :
          p = f[i] /\ q = g[i] /\ x1 = a[i] /\ x2 = s[i] /\ x3 = b[i] /\ x4 = t[i]
    BY <1>1
  <2>2. PICK u1 \in Int, u2 \in Int : u1 = x1 + c * x2 /\ u2 = x3 + c * x4
    OBVIOUS
  <2>3. Same(p, u1, Q) /\ Same(q, u2, Q)
    BY <1>1, <2>1, <2>2
  <2>4. Same(p * q, u1 * u2, Q)
    BY <1>6, <2>3, SameProducts
  <2>5. d[i] = (x1 * x3 + c * (x1 * x4)) + (c * (x2 * x3) + cc * (x2 * x4)) /\ fg[i] = p * q
    BY <1>3, <1>4, <1>5, <2>1
  <2>6. u1 * u2 = (x1 * x3 + c * (x1 * x4)) + (c * (x2 * x3) + cc * (x2 * x4))
    BY <2>2
  <2>7. d[i] \in Int
    BY <2>5
  <2> QED BY <1>3, <2>4, <2>5, <2>6, <2>7
<1>8. Same(SumTo(n, fg), SumTo(n, d), Q)
  BY <1>6, <1>7, SumSame
<1>9. SumTo(n, d) = (SumTo(n, ab) + SumTo(n, e1)) + (c * SumTo(n, sb) + cc * SumTo(n, st))
  <2>1. IsLinear(n, d, ab, e1, sb, st, c, cc)
    BY <1>3, <1>4, <1>5 DEF IsLinear
  <2> QED BY <2>1, SumLinear
<1>10. SumTo(n, e1) = c * SumTo(n, at)
  <2>1. \A i \in 1..n : at[i] \in Int /\ e1[i] = c * at[i]
    BY <1>3, <1>4
  <2> QED BY <2>1, SumTimes
<1> QED BY <1>2, <1>8, <1>9, <1>10

\* A vector plus c times another.
LEMMA AddScaled ==
    ASSUME NEW n \in Nat, NEW a \in [1..n -> Int], NEW s \in [1..n -> Int], NEW c \in Int
    PROVE  Evaluates(BN_vec_add(a, BN_vec_scalar(s, c)), n, a, s, c)
<1>1. PICK p \in [1..n -> Int] : p = BN_vec_scalar(s, c)
  BY ScalarInt
<1>2. PICK f \in [1..n -> Int] : f = BN_vec_add(a, p)
  BY AddInt
<1>3. \A i \in 1..n : Same(f[i], a[i] + p[i], Q) /\ Same(p[i], s[i] * c, Q)
  BY <1>1, <1>2, VectorsAre
<1>4. Q \in Nat \ {0}
  BY FieldAssumption
<1>5. ASSUME NEW i \in 1..n PROVE Same(f[i], a[i] + c * s[i], Q)
  <2>a. PICK t \in Int, q \in Int, w \in Int, s1 \in Int :
          t = f[i] /\ q = a[i] /\ w = p[i] /\ s1 = s[i]
    BY <1>1, <1>2
  <2>b. PICK d \in Int : d = s1 * c
    OBVIOUS
  <2>c. s1 * c = c * s1
    OBVIOUS
  <2>1. /\ t = f[i] /\ q = a[i] /\ w = p[i] /\ d = s[i] * c /\ d = c * s[i]
    BY <2>a, <2>b, <2>c
  <2>2. Same(w, d, Q) /\ Same(q, q, Q) /\ Same(t, q + w, Q)
    BY <1>3, <1>4, <2>1, SameSelf
  <2>3. Same(q + w, q + d, Q)
    BY <1>4, <2>2, SameSum
  <2>4. PICK g \in Int, h \in Int : g = q + w /\ h = q + d
    OBVIOUS
  <2>5. Same(t, h, Q)
    BY <1>4, <2>2, <2>3, <2>4, SameTrans
  <2> QED BY <2>1, <2>4, <2>5
<1> QED BY <1>1, <1>2, <1>5 DEF Evaluates

\* The prover's vectors at the challenge c.
LLAt(c) == BN_vec_add(LL0, BN_vec_scalar(sL, c))
RRAt(c) == BN_vec_add(RR0, BN_vec_scalar(RR1, c))
Drawn == /\ v \in [Agg -> Values] /\ y \in Challenges /\ z \in Challenges
         /\ sL \in [1..VECTOR_LEN -> Int] /\ sR \in [1..VECTOR_LEN -> Int]

LEMMA DrawnVectors ==
    ASSUME Drawn, NEW c \in Challenges
    PROVE  /\ LL0 \in [1..VECTOR_LEN -> Int] /\ RR0 \in [1..VECTOR_LEN -> Int]
           /\ RR1 \in [1..VECTOR_LEN -> Int]
           /\ Evaluates(LLAt(c), VECTOR_LEN, LL0, sL, c)
           /\ Evaluates(RRAt(c), VECTOR_LEN, RR0, RR1, c)
<1>1. PICK n \in Nat : n = VECTOR_LEN
  BY Lengths
<1>2. LL0 \in [1..n -> Int] /\ RR0 \in [1..n -> Int]
  <2>1. 1 \in 1..VECTOR_LEN
    BY Lengths
  <2> QED BY <1>1, <2>1, PointwiseTerm DEF Drawn
<1>3. YPowers \in [1..n -> Int] /\ sL \in [1..n -> Int] /\ sR \in [1..n -> Int]
  BY <1>1, YPowersInt DEF Drawn
<1>4. RR1 \in [1..n -> Int]
  BY <1>3, ProductInt DEF RR1, YPowers
<1>5. c \in Int
  BY InverseUnit
<1> QED BY <1>1, <1>2, <1>3, <1>4, <1>5, AddScaled DEF LLAt, RRAt

\* t(x) = t0 + t1 x + t2 x^2.
LEMMA TxIs ==
    ASSUME Drawn, NEW c \in Challenges
    PROVE  /\ T1Coefficient \in Int /\ T2Coefficient \in Int
           /\ BN_vec_inner_product(LLAt(c), RRAt(c)) \in Int
           /\ SumTo(VECTOR_LEN, Products(LL0, RR0)) \in Int
           /\ Same(BN_vec_inner_product(LLAt(c), RRAt(c)),
                   SumTo(VECTOR_LEN, Products(LL0, RR0))
                     + (c * T1Coefficient + (c * c) * T2Coefficient), Q)
<1>1. PICK n \in Nat : n = VECTOR_LEN
  BY Lengths
<1>2. PICK a \in [1..n -> Int], b \in [1..n -> Int], t \in [1..n -> Int], s \in [1..n -> Int] :
        a = LL0 /\ b = RR0 /\ t = RR1 /\ s = sL
  BY <1>1, DrawnVectors DEF Drawn
<1>3. PICK cc \in Int : cc = c * c /\ c \in Int
  BY InverseUnit
<1>4. Q \in Nat \ {0}
  BY FieldAssumption
<1>5. PICK f, g : f = LLAt(c) /\ g = RRAt(c)
  OBVIOUS
<1>6. Evaluates(f, n, a, s, c) /\ Evaluates(g, n, b, t, c)
  BY <1>1, <1>2, <1>5, DrawnVectors
<1>7. PICK ab \in Int, at \in Int, sb \in Int, st \in Int, fg \in Int :
        /\ ab = SumTo(n, Products(a, b)) /\ at = SumTo(n, Products(a, t))
        /\ sb = SumTo(n, Products(s, b)) /\ st = SumTo(n, Products(s, t))
        /\ fg = SumTo(n, Products(f, g))
  <2>1. f \in [1..n -> Int] /\ g \in [1..n -> Int]
    BY <1>6 DEF Evaluates
  <2>2. SumTo(n, Products(a, b)) \in Int /\ SumTo(n, Products(a, t)) \in Int
    BY ProductsInt
  <2>3. SumTo(n, Products(s, b)) \in Int /\ SumTo(n, Products(s, t)) \in Int
    BY ProductsInt
  <2>4. SumTo(n, Products(f, g)) \in Int
    BY <2>1, ProductsInt
  <2> QED BY <2>2, <2>3, <2>4
<1>8. Same(fg, (ab + c * at) + (c * sb + cc * st), Q)
  BY <1>3, <1>6, <1>7, InnerLinear
<1>9. PICK i \in Int : i = BN_vec_inner_product(f, g) /\ Same(i, fg, Q)
  <2>1. f \in [1..n -> Int] /\ g \in [1..n -> Int]
    BY <1>6 DEF Evaluates
  <2> QED BY <1>7, <2>1, InnerProductIs
<1>10. PICK t2 \in Int : t2 = T2Coefficient /\ Same(t2, st, Q)
  BY <1>2, <1>7, InnerProductIs DEF T2Coefficient
<1>11. PICK t1 \in Int : t1 = T1Coefficient /\ Same(t1, sb + at, Q)
  <2>1. PICK p \in Int, q \in Int :
          /\ p = BN_vec_inner_product(s, b) /\ q = BN_vec_inner_product(a, t)
          /\ Same(p, sb, Q) /\ Same(q, at, Q)
    BY <1>7, InnerProductIs
  <2>2. Same(p + q, sb + at, Q)
    BY <1>4, <2>1, SameSum
  <2>3. PICK d \in Int, h \in Int : d = p + q /\ h = sb + at
    OBVIOUS
  <2>4. T1Coefficient = d % Q
    BY <1>2, <2>1, <2>3 DEF T1Coefficient
  <2>5. PICK w \in Int : w = d % Q /\ Same(w, d, Q)
    BY SameQ
  <2>6. Same(w, h, Q)
    BY <1>4, <2>2, <2>3, <2>5, SameTrans
  <2> QED BY <2>3, <2>4, <2>5, <2>6
<1>12. Same(ab + (c * t1 + cc * t2), (ab + c * at) + (c * sb + cc * st), Q)
  <2>1. PICK h \in Int : h = sb + at
    OBVIOUS
  <2>2. Same(t1 * c, h * c, Q) /\ Same(t2 * cc, st * cc, Q)
    BY <1>3, <1>4, <1>10, <1>11, <2>1, SameProduct
  <2>3. PICK p1 \in Int, p2 \in Int, q1 \in Int, q2 \in Int :
          /\ p1 = t1 * c /\ p2 = h * c /\ q1 = t2 * cc /\ q2 = st * cc
    BY <1>3
  <2>4. Same(p1 + q1, p2 + q2, Q)
    BY <1>4, <2>2, <2>3, SameSum
  <2>5. PICK r1 \in Int, r2 \in Int : r1 = p1 + q1 /\ r2 = p2 + q2
    OBVIOUS
  <2>6. Same(ab, ab, Q)
    BY <1>4, SameSelf
  <2>7. Same(ab + r1, ab + r2, Q)
    BY <1>4, <2>4, <2>5, <2>6, SameSum
  <2>8. ab + r1 = ab + (c * t1 + cc * t2)
    BY <1>3, <2>3, <2>5
  <2>9. ab + r2 = (ab + c * at) + (c * sb + cc * st)
    BY <1>3, <2>1, <2>3, <2>5
  <2> QED BY <2>7, <2>8, <2>9
<1>13. PICK d \in Int, h \in Int :
         /\ d = ab + (c * t1 + cc * t2) /\ h = (ab + c * at) + (c * sb + cc * st)
  BY <1>3
<1>14. Same(i, d, Q)
  <2>1. Same(h, d, Q)
    BY <1>4, <1>12, <1>13, SameReverse
  <2>2. Same(i, h, Q)
    BY <1>4, <1>8, <1>9, <1>13, SameTrans
  <2> QED BY <1>4, <2>1, <2>2, SameTrans
<1> QED BY <1>1, <1>2, <1>3, <1>5, <1>7, <1>9, <1>10, <1>11, <1>13, <1>14

-----------------------------------------------------------------------------
(* Linear combinations up to a multiple of Q. *)

LEMMA SameTwo ==
    ASSUME NEW a \in Int, NEW b \in Int, NEW c \in Int, NEW d \in Int,
           NEW f \in Int, NEW g \in Int, Same(a, b, Q), Same(c, d, Q)
    PROVE  /\ a * f + c * g \in Int /\ b * f + d * g \in Int
           /\ Same(a * f + c * g, b * f + d * g, Q)
<1>1. Q \in Nat \ {0}
  BY FieldAssumption
<1>2. Same(a * f, b * f, Q) /\ Same(c * g, d * g, Q)
  BY <1>1, SameProduct
<1>3. PICK p \in Int, q \in Int, s \in Int, t \in Int :
        p = a * f /\ q = b * f /\ s = c * g /\ t = d * g
  OBVIOUS
<1>4. Same(p + s, q + t, Q)
  BY <1>1, <1>2, <1>3, SameSum
<1> QED BY <1>3, <1>4

\* The numbers of the verifier's first equation, in one coordinate of the
\* points.
Numbers(taux, tx, d, del, t1, t2, c, cc, g, h, zr, s0, sl, tau1, tau2, c1, c2) ==
    /\ cc = c * c
    /\ Same(taux, (tau1 * c + tau2 * cc) + zr, Q)
    /\ Same(tx, (sl + del) + (c * c1 + cc * c2), Q)
    /\ Same(d, zr * g + s0 * h, Q)
    /\ Same(t1, tau1 * g + c1 * h, Q) /\ Same(t2, tau2 * g + c2 * h, Q)
Equation(taux, tx, d, del, t1, t2, c, cc, g, h, zr, s0, tau1, tau2, c1, c2) ==
    Numbers(taux, tx, d, del, t1, t2, c, cc, g, h, zr, s0, s0, tau1, tau2, c1, c2)

LEMMA EquationHolds ==
    ASSUME NEW taux \in Int, NEW tx \in Int, NEW d \in Int, NEW del \in Int,
           NEW t1 \in Int, NEW t2 \in Int, NEW c \in Int, NEW cc \in Int,
           NEW g \in Int, NEW h \in Int, NEW zr \in Int, NEW s0 \in Int,
           NEW tau1 \in Int, NEW tau2 \in Int, NEW c1 \in Int, NEW c2 \in Int,
           Equation(taux, tx, d, del, t1, t2, c, cc, g, h, zr, s0, tau1, tau2, c1, c2)
    PROVE  Same(taux * g + tx * h, d + (del * h + c * t1 + cc * t2), Q)
<1>1. Q \in Nat \ {0}
  BY FieldAssumption
<1>2. PICK a \in Int, b \in Int, p1 \in Int, p2 \in Int, p3 \in Int :
        /\ a = (tau1 * c + tau2 * cc) + zr /\ b = (s0 + del) + (c * c1 + cc * c2)
        /\ p1 = tau1 * g + c1 * h /\ p2 = tau2 * g + c2 * h /\ p3 = zr * g + s0 * h
  OBVIOUS
<1>b. /\ Same(taux, a, Q) /\ Same(tx, b, Q) /\ Same(t1, p1, Q) /\ Same(t2, p2, Q)
  BY <1>2 DEF Equation, Numbers
<1>3. PICK l \in Int, m \in Int : /\ l = taux * g + tx * h /\ m = a * g + b * h
                                  /\ Same(l, m, Q)
  <2>1. Same(taux * g + tx * h, a * g + b * h, Q)
    BY <1>b, SameTwo
  <2> QED BY <2>1
<1>4. PICK n \in Int, o \in Int : /\ n = t1 * c + t2 * cc /\ o = p1 * c + p2 * cc
                                  /\ Same(n, o, Q)
  <2>1. Same(t1 * c + t2 * cc, p1 * c + p2 * cc, Q)
    BY <1>b, SameTwo
  <2> QED BY <2>1
<1>5. PICK w \in Int : w = del * h
  OBVIOUS
<1>6. Same(d, p3, Q) /\ Same(w, w, Q)
  BY <1>1, <1>2, SameSelf DEF Equation, Numbers
<1>7. Same(n + w, o + w, Q)
  BY <1>1, <1>4, <1>6, SameSum
<1>8. PICK n1 \in Int, o1 \in Int : n1 = n + w /\ o1 = o + w
  OBVIOUS
<1>9. Same(d + n1, p3 + o1, Q)
  BY <1>1, <1>6, <1>7, <1>8, SameSum
<1>10. PICK n2 \in Int, o2 \in Int : n2 = d + n1 /\ o2 = p3 + o1
  OBVIOUS
<1>11. m = o2
  <2>1. o2 = (zr * g + s0 * h) + (((tau1 * g + c1 * h) * c + (tau2 * g + c2 * h) * cc) + del * h)
    BY <1>2, <1>4, <1>5, <1>8, <1>10
  <2>2. m = ((tau1 * c + tau2 * cc) + zr) * g + ((s0 + del) + (c * c1 + cc * c2)) * h
    BY <1>2, <1>3
  <2> QED BY <2>1, <2>2
<1>12. n2 = d + (del * h + c * t1 + cc * t2)
  BY <1>4, <1>5, <1>8, <1>10
<1>13. Same(n2, m, Q) /\ Same(l, m, Q)
  BY <1>3, <1>9, <1>10, <1>11
<1>14. Same(m, n2, Q)
  BY <1>1, <1>13, SameReverse
<1>15. Same(l, n2, Q)
  BY <1>1, <1>13, <1>14, SameTrans
<1> QED BY <1>3, <1>12, <1>15

\* What the equation says where the value inside the commitment, s0, is not the
\* value that was proved, sl.
LEMMA EquationFits ==
    ASSUME NEW taux \in Int, NEW tx \in Int, NEW d \in Int, NEW del \in Int,
           NEW t1 \in Int, NEW t2 \in Int, NEW c \in Int, NEW cc \in Int,
           NEW g \in Int, NEW h \in Int, NEW zr \in Int, NEW s0 \in Int, NEW sl \in Int,
           NEW tau1 \in Int, NEW tau2 \in Int, NEW c1 \in Int, NEW c2 \in Int,
           Numbers(taux, tx, d, del, t1, t2, c, cc, g, h, zr, s0, sl, tau1, tau2, c1, c2),
           Same(taux * g + tx * h, d + (del * h + c * t1 + cc * t2), Q)
    PROVE  Same((s0 - sl) * h, 0, Q)
<1>1. PICK o \in Int, t \in Int, n \in Int : o = s0 - sl /\ t = tx + o /\ n = Q
  BY FieldAssumption
<1>2. Same(t, (s0 + del) + (c * c1 + cc * c2), Q)
  <2>1. PICK w \in Int, b \in Int : w = c * c1 + cc * c2 /\ b = (sl + del) + w
    OBVIOUS
  <2>2. PICK q \in Int : tx = b + n * q
    BY <1>1, <2>1 DEF Numbers, Same
  <2>3. t = ((s0 + del) + w) + n * q
    BY <1>1, <2>1, <2>2
  <2> QED BY <1>1, <2>1, <2>3 DEF Same
<1>3. Equation(taux, t, d, del, t1, t2, c, cc, g, h, zr, s0, tau1, tau2, c1, c2)
  BY <1>2 DEF Numbers, Equation
<1>4. Same(taux * g + t * h, d + (del * h + c * t1 + cc * t2), Q)
  BY <1>3, EquationHolds, Zenon
<1>5. PICK a \in Int, b \in Int, w \in Int :
        a = taux * g + tx * h /\ b = taux * g + t * h /\ w = d + (del * h + c * t1 + cc * t2)
  OBVIOUS
<1>6. b = a + o * h
  <2>1. t * h = tx * h + o * h
    BY <1>1
  <2> QED BY <1>5, <2>1
<1>7. PICK q1 \in Int : a = w + n * q1
  BY <1>1, <1>5 DEF Same
<1>8. PICK q2 \in Int : b = w + n * q2
  BY <1>1, <1>4, <1>5 DEF Same
<1>9. o * h = 0 + n * (q2 - q1)
  BY <1>6, <1>7, <1>8
<1> QED BY <1>1, <1>9 DEF Same

\* The commitments, each times its power of z.
IsCommitted == r \in [Agg -> Draws] /\ v \in [Agg -> Values] /\ z \in Challenges
               /\ C = [i \in Agg |-> ECP_vec_mul(<<G, H>>, <<r[i], v[i]>>)]
BlindPowers == [j \in Agg |-> Power(z, j + 1) * r[j]]

LEMMA CommittedSum ==
    ASSUME IsCommitted
    PROVE  /\ C \in [1..AGG_NUM -> Point] /\ ZPowers(1) \in [1..AGG_NUM -> Int]
           /\ SumTo(AGG_NUM, BlindPowers) \in Int /\ SumTo(AGG_NUM, RangePowers) \in Int
           /\ \A k \in 1..Dim :
                 /\ G[k] \in Int /\ H[k] \in Int
                 /\ Dot(AGG_NUM, ZPowers(1), C, k) \in Int
                 /\ Same(Dot(AGG_NUM, ZPowers(1), C, k),
                         SumTo(AGG_NUM, BlindPowers) * G[k]
                           + SumTo(AGG_NUM, RangePowers) * H[k], Q)
<1>1. PICK m \in Nat : m = AGG_NUM /\ Agg = 1..m
  BY AggLengths
<1>2. Q \in Nat \ {0}
  BY FieldAssumption
<1>3. /\ G \in Point /\ H \in Point
      /\ \A k \in 1..Dim : G[k] \in Int /\ H[k] \in Int
  BY GeneratorsArePoints DEF Point
<1>4. ASSUME NEW j \in 1..m
      PROVE  /\ v[j] \in Int /\ r[j] \in Int /\ Power(z, j + 1) \in Int
             /\ RangePowers[j] \in Int /\ RangePowers[j] = Power(z, j + 1) * v[j]
             /\ BlindPowers[j] \in Int /\ BlindPowers[j] = Power(z, j + 1) * r[j]
             /\ ZPowers(1)[j] = Power(z, j + 1)
  <2>1. v \in [Agg -> Values] /\ z \in Challenges /\ j \in Agg
    BY <1>1 DEF IsCommitted
  <2>2. /\ v[j] \in Nat /\ Power(z, j + 1) \in Int /\ RangePowers[j] \in Int
        /\ RangePowers[j] = Power(z, j + 1) * v[j]
    BY <2>1, RangePowersInt
  <2>3. r[j] \in Nat
    BY <2>1, BulletAssumption DEF IsCommitted
  <2>4. PICK p \in Int, q \in Int : p = Power(z, j + 1) /\ q = r[j]
    BY <2>2, <2>3
  <2>5. BlindPowers[j] = p * q /\ ZPowers(1)[j] = p
    BY <2>1, <2>4 DEF BlindPowers, ZPowers
  <2>6. p * q \in Int
    OBVIOUS
  <2> QED BY <2>2, <2>3, <2>4, <2>5, <2>6
<1>5. ASSUME NEW j \in 1..m
      PROVE  /\ C[j] \in Point
             /\ \A k \in 1..Dim : C[j][k] \in Int
                                    /\ Same(C[j][k], r[j] * G[k] + v[j] * H[k], Q)
  <2>1. C[j] = ECP_vec_mul(<<G, H>>, <<r[j], v[j]>>)
    BY <1>1 DEF IsCommitted
  <2>2. PICK p \in Int, q \in Int : p = r[j] /\ q = v[j]
    BY <1>4
  <2>3. PICK f : f = C[j] /\ f = ECP_vec_mul(<<G, H>>, <<p, q>>)
    BY <2>1, <2>2
  <2>4. f \in Point /\ \A k \in 1..Dim : Same(f[k], p * G[k] + q * H[k], Q)
    BY <1>3, <2>3, MulTwo
  <2>5. \A k \in 1..Dim : f[k] \in Int
    BY <2>4 DEF Point
  <2> QED BY <2>2, <2>3, <2>4, <2>5
<1>6. PICK a \in [1..m -> Int] : a = ZPowers(1)
  BY <1>1, <1>4 DEF ZPowers
<1>7. PICK A \in [1..m -> Point] : A = C
  <2>1. C = [j \in 1..m |-> C[j]]
    BY <1>1 DEF IsCommitted
  <2> QED BY <1>5, <2>1
<1>8. PICK f, g : f = BlindPowers /\ g = RangePowers
  OBVIOUS
<1>9. PICK sf \in Int, sg \in Int : sf = SumTo(m, f) /\ sg = SumTo(m, g)
  <2>1. \A j \in 1..m : f[j] \in Int /\ g[j] \in Int
    BY <1>4, <1>8
  <2>2. SumTo(m, f) \in Int /\ SumTo(m, g) \in Int
    BY <2>1, SumInt
  <2> QED BY <2>2
<1>10. ASSUME NEW k \in 1..Dim
       PROVE  /\ Dot(m, a, A, k) \in Int
              /\ Same(Dot(m, a, A, k), sf * G[k] + sg * H[k], Q)
  <2>1. PICK gk \in Int, hk \in Int : gk = G[k] /\ hk = H[k]
    BY <1>3
  <2>2. PICK d : d = [j \in 1..m |-> gk * f[j] + hk * g[j]]
    OBVIOUS
  <2>3. PICK l : l = Products(a, Column(A, k))
    OBVIOUS
  <2>4. ASSUME NEW j \in 1..m
        PROVE  l[j] \in Int /\ d[j] \in Int /\ Same(l[j], d[j], Q)
    <3>1. PICK p \in Int, rj \in Int, vj \in Int, cj \in Int :
            /\ p = Power(z, j + 1) /\ rj = r[j] /\ vj = v[j] /\ cj = C[j][k]
            /\ f[j] = p * rj /\ g[j] = p * vj
      BY <1>4, <1>5, <1>8
    <3>2. l[j] = p * cj /\ l[j] \in Int
      <4>1. Column(A, k) \in [1..m -> Int] /\ Column(A, k)[j] = A[j][k]
        BY ColumnInt
      <4>2. PICK b \in [1..m -> Int] : b = Column(A, k)
        BY <4>1
      <4>3. l[j] = a[j] * b[j] /\ l[j] \in Int
        BY <2>3, <4>2, ProductsInt
      <4> QED BY <1>4, <1>6, <1>7, <3>1, <4>1, <4>2, <4>3
    <3>3. PICK e1 \in Int : e1 = rj * gk + vj * hk
      OBVIOUS
    <3>4. Same(cj, e1, Q)
      BY <1>5, <2>1, <3>1, <3>3
    <3>5. Same(cj * p, e1 * p, Q)
      BY <1>2, <3>4, SameProduct
    <3>6. cj * p = p * cj
      OBVIOUS
    <3>7. e1 * p = gk * (p * rj) + hk * (p * vj)
      BY <3>3
    <3>8. d[j] = gk * (p * rj) + hk * (p * vj)
      BY <2>2, <3>1
    <3>9. gk * (p * rj) + hk * (p * vj) \in Int
      OBVIOUS
    <3> QED BY <3>2, <3>5, <3>6, <3>7, <3>8, <3>9
  <2>5. Same(SumTo(m, l), SumTo(m, d), Q)
    BY <1>2, <2>4, SumSame
  <2>6. SumTo(m, d) = gk * sf + hk * sg
    <3>1. Combines(m, d, gk, f, hk, g)
      BY <1>4, <1>8, <2>2 DEF Combines
    <3> QED BY <1>9, <3>1, SumCombine
  <2>7. gk * sf + hk * sg = sf * gk + sg * hk
    OBVIOUS
  <2>8. Dot(m, a, A, k) = SumTo(m, l) /\ Dot(m, a, A, k) \in Int
    BY <2>3, DotInt DEF Dot
  <2> QED BY <2>1, <2>5, <2>6, <2>7, <2>8
<1> QED BY <1>1, <1>3, <1>6, <1>7, <1>8, <1>9, <1>10

-----------------------------------------------------------------------------
(* The verifier's first equation. *)

\* The part of the proof that commits to t(X), with the blinding tau1, tau2.
SentPolynomial(tau1, tau2) ==
    /\ x \in Challenges /\ tau1 \in Int /\ tau2 \in Int
    /\ proof.T1 = ECP_vec_mul(<<G, H>>, <<tau1, T1Coefficient>>)
    /\ proof.T2 = ECP_vec_mul(<<G, H>>, <<tau2, T2Coefficient>>)
    /\ proof.tx = BN_vec_inner_product(LLAt(x), RRAt(x))
    /\ proof.taux = (tau1 * x + tau2 * x * x + SumTo(AGG_NUM, BlindPowers)) % Q

\* The proof's values as the equation needs them.
LEMMA PolynomialNumbers ==
    ASSUME IsCommitted, Drawn, NEW tau1, NEW tau2, SentPolynomial(tau1, tau2),
           NEW k \in 1..Dim, NEW cc, cc = x * x
    PROVE  /\ proof.T1 \in Point /\ proof.T2 \in Point
           /\ proof.T1[k] \in Int /\ proof.T2[k] \in Int
           /\ proof.taux \in Int /\ proof.tx \in Int /\ x \in Int /\ cc \in Int
           /\ T1Coefficient \in Int /\ T2Coefficient \in Int /\ Delta \in Int
           /\ tau1 \in Int /\ tau2 \in Int
           /\ Numbers(proof.taux, proof.tx, Dot(AGG_NUM, ZPowers(1), C, k), Delta,
                      proof.T1[k], proof.T2[k], x, cc, G[k], H[k],
                      SumTo(AGG_NUM, BlindPowers), SumTo(AGG_NUM, RangePowers),
                      SumTo(AGG_NUM, LowPowers), tau1, tau2, T1Coefficient, T2Coefficient)
<1>1. Q \in Nat \ {0}
  BY FieldAssumption
<1>2. x \in Challenges /\ tau1 \in Int /\ tau2 \in Int
  BY DEF SentPolynomial
<1>3. PICK c \in Int : c = x
  BY <1>2, InverseUnit
<1>4. PICK c2 \in Int : c2 = c * c /\ c2 = cc
  BY <1>3
<1>5. PICK t1 \in Int, t2 \in Int : t1 = T1Coefficient /\ t2 = T2Coefficient
  BY <1>2, TxIs
<1>6. PICK s0 \in Int, zr \in Int :
        s0 = SumTo(AGG_NUM, RangePowers) /\ zr = SumTo(AGG_NUM, BlindPowers)
  BY CommittedSum
<1>14. PICK sl \in Int : sl = SumTo(AGG_NUM, LowPowers)
  BY ConstantTerm DEF Drawn
<1>7. PICK del \in Int, l0 \in Int :
        del = Delta /\ l0 = SumTo(VECTOR_LEN, Products(LL0, RR0)) /\ Same(l0, sl + del, Q)
  BY <1>14, ConstantTerm DEF Drawn
<1>8. PICK p1 \in Point, p2 \in Point :
        /\ p1 = proof.T1 /\ p2 = proof.T2
        /\ p1[k] \in Int /\ p2[k] \in Int
        /\ Same(p1[k], tau1 * G[k] + t1 * H[k], Q)
        /\ Same(p2[k], tau2 * G[k] + t2 * H[k], Q)
  <2>1. PICK f : f = ECP_vec_mul(<<G, H>>, <<tau1, t1>>) /\ f = proof.T1
    BY <1>5 DEF SentPolynomial
  <2>2. PICK g : g = ECP_vec_mul(<<G, H>>, <<tau2, t2>>) /\ g = proof.T2
    BY <1>5 DEF SentPolynomial
  <2>3. G \in Point /\ H \in Point
    BY GeneratorsArePoints
  <2>4. f \in Point /\ Same(f[k], tau1 * G[k] + t1 * H[k], Q)
    BY <1>2, <2>1, <2>3, MulTwo
  <2>5. g \in Point /\ Same(g[k], tau2 * G[k] + t2 * H[k], Q)
    BY <1>2, <2>2, <2>3, MulTwo
  <2>6. f[k] \in Int /\ g[k] \in Int
    BY <2>4, <2>5 DEF Point
  <2> QED BY <2>1, <2>2, <2>4, <2>5, <2>6
<1>9. PICK tx \in Int : tx = proof.tx /\ Same(tx, (sl + del) + (c * t1 + c2 * t2), Q)
  <2>1. PICK tx \in Int : tx = proof.tx /\ Same(tx, l0 + (c * t1 + c2 * t2), Q)
    BY <1>2, <1>3, <1>4, <1>5, <1>7, TxIs DEF SentPolynomial
  <2>2. PICK q \in Int, d \in Int : q = c * t1 + c2 * t2 /\ d = sl + del
    OBVIOUS
  <2>3. Same(q, q, Q)
    BY <1>1, <2>2, SameSelf
  <2>4. Same(l0 + q, d + q, Q)
    BY <1>1, <1>7, <2>2, <2>3, SameSum
  <2>5. PICK f \in Int, g \in Int : f = l0 + q /\ g = d + q
    OBVIOUS
  <2>6. Same(tx, f, Q) /\ Same(f, g, Q)
    BY <2>1, <2>2, <2>4, <2>5
  <2>7. Same(tx, g, Q)
    BY <1>1, <2>6, SameTrans
  <2> QED BY <2>1, <2>2, <2>5, <2>7
<1>10. PICK taux \in Int : taux = proof.taux /\ Same(taux, (tau1 * c + tau2 * c2) + zr, Q)
  <2>1. PICK d \in Int : d = (tau1 * c + tau2 * c2) + zr
    BY <1>2
  <2>2. proof.taux = (tau1 * c + tau2 * c * c + zr) % Q
    BY <1>3, <1>6 DEF SentPolynomial
  <2>3. tau2 * c * c = tau2 * c2
    BY <1>2, <1>4
  <2>4. proof.taux = d % Q
    BY <1>2, <2>1, <2>2, <2>3
  <2> QED BY <2>1, <2>4, SameQ
<1>11. PICK g \in Int, h \in Int, d \in Int :
         /\ g = G[k] /\ h = H[k] /\ d = Dot(AGG_NUM, ZPowers(1), C, k)
         /\ Same(d, zr * g + s0 * h, Q)
  BY <1>6, CommittedSum
<1>12. PICK a1 \in Int, a2 \in Int :
         /\ a1 = p1[k] /\ a2 = p2[k]
         /\ Same(a1, tau1 * g + t1 * h, Q) /\ Same(a2, tau2 * g + t2 * h, Q)
  BY <1>8, <1>11
<1>13. Numbers(taux, tx, d, del, a1, a2, c, c2, g, h, zr, s0, sl, tau1, tau2, t1, t2)
  BY <1>4, <1>9, <1>10, <1>11, <1>12 DEF Numbers
<1> QED BY <1>2, <1>3, <1>4, <1>5, <1>6, <1>7, <1>8, <1>9, <1>10, <1>11, <1>12, <1>13, <1>14

\* The verifier's first equation, coordinate by coordinate.
LEMMA PolynomialSides ==
    ASSUME IsCommitted, Drawn, NEW tau1, NEW tau2, SentPolynomial(tau1, tau2),
           NEW cc, cc = x * x
    PROVE  PolynomialCheck <=>
             \A k \in 1..Dim :
                Same(proof.taux * G[k] + proof.tx * H[k],
                     Dot(AGG_NUM, ZPowers(1), C, k)
                       + (Delta * H[k] + x * proof.T1[k] + cc * proof.T2[k]), Q)
<1>1. PICK m \in Nat, n \in Nat \ {0} : m = AGG_NUM /\ Agg = 1..m /\ n = m + 3
  BY AggLengths
<1>3. 1 \in 1..Dim
  BY Axes, Lengths DEF Dim
<1>4. PICK p1 \in Point, p2 \in Point, taux \in Int, tx \in Int, c \in Int, del \in Int :
        /\ p1 = proof.T1 /\ p2 = proof.T2 /\ taux = proof.taux /\ tx = proof.tx
        /\ c = x /\ del = Delta /\ cc \in Int
  BY <1>3, PolynomialNumbers
<1>5. PICK A \in [1..m -> Point], a \in [1..m -> Int] :
        A = C /\ a = ZPowers(1)
  BY <1>1, CommittedSum
<1>6. PICK B, b : B = <<H, p1, p2>> /\ b = <<del, c, cc>>
  OBVIOUS
<1>7. /\ B \in [1..3 -> Point] /\ b \in [1..3 -> Int] /\ H \in Point /\ G \in Point
      /\ \A k \in 1..Dim : /\ H[k] \in Int /\ p1[k] \in Int /\ p2[k] \in Int
                           /\ Dot(3, b, B, k) = del * H[k] + c * p1[k] + cc * p2[k]
  <2>1. PICK hp \in Point, ci \in Int : hp = H /\ ci = cc
    BY <1>4, GeneratorsArePoints
  <2>2. AreThree(B, b, hp, p1, p2, del, c, ci)
    BY <1>4, <1>6, <2>1 DEF AreThree
  <2>3. /\ B \in [1..3 -> Point] /\ b \in [1..3 -> Int]
        /\ \A k \in 1..Dim :
              /\ hp[k] \in Int /\ p1[k] \in Int /\ p2[k] \in Int
              /\ Dot(3, b, B, k) = del * hp[k] + c * p1[k] + ci * p2[k]
    BY <2>2, DotThree
  <2> QED BY <2>1, <2>3, GeneratorsArePoints
<1>8. PICK D, d : D = A \o B /\ d = a \o b
  OBVIOUS
<1>9. Joined(n, D, d, m, A, a, 3, B, b)
  BY <1>1, <1>7, <1>8 DEF Joined
<1>10. /\ D \in [1..n -> Point] /\ d \in [1..n -> Int]
       /\ \A k \in 1..Dim : /\ Dot(n, d, D, k) = Dot(m, a, A, k) + Dot(3, b, B, k)
                            /\ Dot(m, a, A, k) \in Int
                            /\ Dot(n, d, D, k) \in Int
  <2>1. PICK w \in Nat, nn \in Nat : w = 3 /\ nn = n /\ Joined(nn, D, d, m, A, a, w, B, b)
    BY <1>9
  <2>2. /\ D \in [1..nn -> Point] /\ d \in [1..nn -> Int]
        /\ \A k \in 1..Dim : /\ Dot(nn, d, D, k) = Dot(m, a, A, k) + Dot(w, b, B, k)
                             /\ Dot(m, a, A, k) \in Int
                             /\ Dot(nn, d, D, k) \in Int
    BY <2>1, DotConcat
  <2> QED BY <2>1, <2>2
<1>11. PICK right : right = ECP_vec_mul(D, d)
  OBVIOUS
<1>12. /\ right \in Point
       /\ \A k \in 1..Dim : /\ right[k] \in 0..(Q - 1) /\ right[k] \in Int
                            /\ Same(right[k], Dot(n, d, D, k), Q)
  <2>1. Multiplies(right, n, D, d)
    BY <1>10, <1>11 DEF Multiplies
  <2> QED BY <2>1, MulDot
<1>13. PICK left : left = ECP_vec_mul(<<G, H>>, <<taux, tx>>)
  OBVIOUS
<1>14. /\ left \in Point
       /\ \A k \in 1..Dim : /\ left[k] \in 0..(Q - 1)
                            /\ Same(left[k], taux * G[k] + tx * H[k], Q)
  BY <1>7, <1>13, MulTwo
<1>15. ASSUME NEW k \in 1..Dim
       PROVE  Same(left[k], right[k], Q)
                <=> Same(taux * G[k] + tx * H[k],
                         Dot(m, a, A, k) + (del * H[k] + c * p1[k] + cc * p2[k]), Q)
  <2>1. Q \in Nat \ {0}
    BY FieldAssumption
  <2>2. PICK g \in Int, h \in Int, e1 \in Int, a1 \in Int, a2 \in Int, ci \in Int :
          /\ g = G[k] /\ h = H[k] /\ e1 = Dot(m, a, A, k) /\ a1 = p1[k] /\ a2 = p2[k]
          /\ ci = cc
    BY <1>4, <1>7, <1>10, CommittedSum
  <2>5. PICK l \in Int, s \in Int, lk \in Int, rk \in Int :
          /\ l = taux * g + tx * h /\ s = e1 + (del * h + c * a1 + ci * a2)
          /\ lk = left[k] /\ rk = right[k]
    <3>1. left[k] \in Int /\ right[k] \in Int
      BY <1>12, <1>14 DEF Point
    <3>2. taux * g + tx * h \in Int
      OBVIOUS
    <3>4. e1 + (del * h + c * a1 + ci * a2) \in Int
      OBVIOUS
    <3> QED BY <3>1, <3>2, <3>4
  <2>6. Same(lk, l, Q) /\ Same(rk, s, Q)
    <3>1. Dot(n, d, D, k) = s
      BY <1>7, <1>10, <2>2, <2>5
    <3> QED BY <1>12, <1>14, <2>2, <2>5, <3>1
  <2>7. Same(s, rk, Q) /\ Same(l, lk, Q)
    BY <2>1, <2>6, SameReverse
  <2>8. Same(l, s, Q) => Same(lk, rk, Q)
    <3>1. ASSUME Same(l, s, Q) PROVE Same(lk, rk, Q)
      <4>1. Same(lk, s, Q)
        BY <2>1, <2>6, <3>1, SameTrans
      <4> QED BY <2>1, <2>7, <4>1, SameTrans
    <3> QED BY <3>1
  <2>9. Same(lk, rk, Q) => Same(l, s, Q)
    <3>1. ASSUME Same(lk, rk, Q) PROVE Same(l, s, Q)
      <4>1. Same(l, rk, Q)
        BY <2>1, <2>7, <3>1, SameTrans
      <4> QED BY <2>1, <2>6, <4>1, SameTrans
    <3> QED BY <3>1
  <2> QED BY <2>2, <2>5, <2>8, <2>9
<1>16. left = right <=> \A k \in 1..Dim : Same(left[k], right[k], Q)
  <2>1. ASSUME left = right, NEW k \in 1..Dim PROVE Same(left[k], right[k], Q)
    <3>1. PICK w \in Int : w = left[k]
      BY <1>14 DEF Point
    <3>2. Same(w, w, Q)
      BY FieldAssumption, SameSelf
    <3> QED BY <2>1, <3>1, <3>2
  <2>2. ASSUME \A k \in 1..Dim : Same(left[k], right[k], Q) PROVE left = right
    BY <1>12, <1>14, <2>2, PointsEqual
  <2> QED BY <2>1, <2>2
<1>17. [j \in Agg |-> Power(z, j + 1)] = a
  BY <1>5 DEF ZPowers
<1>18. PolynomialCheck <=> left = right
  BY <1>4, <1>5, <1>6, <1>8, <1>11, <1>13, <1>17 DEF PolynomialCheck
<1> QED BY <1>1, <1>4, <1>5, <1>15, <1>16, <1>18

LEMMA PolynomialHolds ==
    ASSUME IsCommitted, Drawn, InRange(v), NEW tau1, NEW tau2, SentPolynomial(tau1, tau2)
    PROVE  PolynomialCheck
<1>1. PICK cc : cc = x * x
  OBVIOUS
<1>2. ASSUME NEW k \in 1..Dim
      PROVE  Same(proof.taux * G[k] + proof.tx * H[k],
                  Dot(AGG_NUM, ZPowers(1), C, k)
                    + (Delta * H[k] + x * proof.T1[k] + cc * proof.T2[k]), Q)
  <2>1. PICK taux \in Int, tx \in Int, c \in Int, ci \in Int, del \in Int, a1 \in Int,
             a2 \in Int :
          /\ taux = proof.taux /\ tx = proof.tx /\ c = x /\ ci = cc /\ del = Delta
          /\ a1 = proof.T1[k] /\ a2 = proof.T2[k]
    BY <1>1, PolynomialNumbers
  <2>2. PICK g \in Int, h \in Int, e1 \in Int, zr \in Int, s0 \in Int :
          /\ g = G[k] /\ h = H[k] /\ e1 = Dot(AGG_NUM, ZPowers(1), C, k)
          /\ zr = SumTo(AGG_NUM, BlindPowers) /\ s0 = SumTo(AGG_NUM, RangePowers)
    BY CommittedSum
  <2>3. PICK u1 \in Int, u2 \in Int, t1 \in Int, t2 \in Int :
          /\ u1 = tau1 /\ u2 = tau2 /\ t1 = T1Coefficient /\ t2 = T2Coefficient
    BY <1>1, PolynomialNumbers
  <2>4. s0 = SumTo(AGG_NUM, LowPowers)
    BY <2>2, LowIsAll DEF IsCommitted
  <2>5. Numbers(taux, tx, e1, del, a1, a2, c, ci, g, h, zr, s0, s0, u1, u2, t1, t2)
    <3>1. Numbers(proof.taux, proof.tx, Dot(AGG_NUM, ZPowers(1), C, k), Delta,
                      proof.T1[k], proof.T2[k], x, cc, G[k], H[k],
                      SumTo(AGG_NUM, BlindPowers), SumTo(AGG_NUM, RangePowers),
                      SumTo(AGG_NUM, LowPowers), tau1, tau2, T1Coefficient, T2Coefficient)
      BY <1>1, PolynomialNumbers
    <3>2. Numbers(taux, tx, Dot(AGG_NUM, ZPowers(1), C, k), del, a1, a2, c, ci, G[k], H[k],
                  SumTo(AGG_NUM, BlindPowers), SumTo(AGG_NUM, RangePowers),
                  SumTo(AGG_NUM, LowPowers), tau1, tau2, T1Coefficient, T2Coefficient)
      BY <2>1, <3>1
    <3> QED BY <2>2, <2>3, <2>4, <3>2
  <2>6. Same(taux * g + tx * h, e1 + (del * h + c * a1 + ci * a2), Q)
    <3>1. Equation(taux, tx, e1, del, a1, a2, c, ci, g, h, zr, s0, u1, u2, t1, t2)
      BY <2>5 DEF Equation
    <3> QED BY <3>1, EquationHolds, Zenon
  <2> QED BY <2>1, <2>2, <2>6
<1> QED BY <1>1, <1>2, PolynomialSides

\* A polynomial of other values than those inside the commitments passes only
\* where the challenge z does not tell them apart.
LEMMA PolynomialFits ==
    ASSUME IsCommitted, Drawn, NEW tau1, NEW tau2, SentPolynomial(tau1, tau2),
           PolynomialCheck
    PROVE  /\ SumTo(AGG_NUM, RangePowers) \in Int /\ SumTo(AGG_NUM, LowPowers) \in Int
           /\ Same(SumTo(AGG_NUM, RangePowers) - SumTo(AGG_NUM, LowPowers), 0, Q)
<1>1. PICK cc : cc = x * x
  OBVIOUS
<1>2. PICK k \in 1..Dim : k = 2 /\ G[k] = 0 /\ H[k] = 1
  <2>1. PICK n \in Nat : n = VECTOR_LEN /\ Dim = 3 + 2 * n
    BY Lengths DEF Dim
  <2>2. 2 \in 1..Dim
    BY <2>1
  <2> QED BY <2>2 DEF G, H, Generator
<1>3. PICK taux \in Int, tx \in Int, c \in Int, ci \in Int, del \in Int, a1 \in Int,
           a2 \in Int :
        /\ taux = proof.taux /\ tx = proof.tx /\ c = x /\ ci = cc /\ del = Delta
        /\ a1 = proof.T1[k] /\ a2 = proof.T2[k]
  BY <1>1, PolynomialNumbers
<1>4. PICK g \in Int, h \in Int, e1 \in Int, zr \in Int, s0 \in Int, sl \in Int :
        /\ g = G[k] /\ h = H[k] /\ e1 = Dot(AGG_NUM, ZPowers(1), C, k)
        /\ zr = SumTo(AGG_NUM, BlindPowers) /\ s0 = SumTo(AGG_NUM, RangePowers)
        /\ sl = SumTo(AGG_NUM, LowPowers)
  BY CommittedSum, ConstantTerm DEF Drawn
<1>5. PICK u1 \in Int, u2 \in Int, t1 \in Int, t2 \in Int :
        /\ u1 = tau1 /\ u2 = tau2 /\ t1 = T1Coefficient /\ t2 = T2Coefficient
  BY <1>1, PolynomialNumbers
<1>6. Numbers(taux, tx, e1, del, a1, a2, c, ci, g, h, zr, s0, sl, u1, u2, t1, t2)
  <2>1. Numbers(proof.taux, proof.tx, Dot(AGG_NUM, ZPowers(1), C, k), Delta,
                proof.T1[k], proof.T2[k], x, cc, G[k], H[k],
                SumTo(AGG_NUM, BlindPowers), SumTo(AGG_NUM, RangePowers),
                SumTo(AGG_NUM, LowPowers), tau1, tau2, T1Coefficient, T2Coefficient)
    BY <1>1, PolynomialNumbers
  <2>2. Numbers(taux, tx, Dot(AGG_NUM, ZPowers(1), C, k), del, a1, a2, c, ci, G[k], H[k],
                SumTo(AGG_NUM, BlindPowers), SumTo(AGG_NUM, RangePowers),
                SumTo(AGG_NUM, LowPowers), tau1, tau2, T1Coefficient, T2Coefficient)
    BY <1>3, <2>1
  <2> QED BY <1>4, <1>5, <2>2
<1>7. Same(taux * g + tx * h, e1 + (del * h + c * a1 + ci * a2), Q)
  <2>1. Same(proof.taux * G[k] + proof.tx * H[k],
             Dot(AGG_NUM, ZPowers(1), C, k)
               + (Delta * H[k] + x * proof.T1[k] + cc * proof.T2[k]), Q)
    BY <1>1, PolynomialSides
  <2> QED BY <1>3, <1>4, <2>1
<1>8. Same((s0 - sl) * h, 0, Q)
  BY <1>6, <1>7, EquationFits, Zenon
<1>9. (s0 - sl) * h = s0 - sl
  BY <1>2, <1>4
<1> QED BY <1>4, <1>8, <1>9

-----------------------------------------------------------------------------
(* The instance of the inner product that the verifier computes. *)

LEMMA MoveTerm ==
    ASSUME NEW d \in Int, NEW a \in Int, NEW b \in Int, NEW f \in Int, NEW s \in Int,
           NEW w \in Int, NEW yy \in Int, NEW c \in Int, NEW m \in Int, NEW t \in Int,
           m = f + c * s, t = yy * m + w, Same(d, t, Q), Same(b, yy * a, Q)
    PROVE  /\ Same(d * a, (f * b + w * a) + (c * (s * b) + 0 * (w * a)), Q)
           /\ (f * b + w * a) + (c * (s * b) + 0 * (w * a)) \in Int
<1>1. Q \in Nat \ {0}
  BY FieldAssumption
<1>2. PICK p \in Int, q \in Int, g \in Int : p = yy * a /\ q = w * a /\ g = b * m
  OBVIOUS
<1>3. Same(d * a, t * a, Q) /\ Same(b * m, p * m, Q)
  BY <1>1, <1>2, SameProduct
<1>4. PICK da \in Int, ta \in Int, h \in Int : da = d * a /\ ta = t * a /\ h = p * m
  OBVIOUS
<1>5. Same(q, q, Q)
  BY <1>1, SameSelf
<1>6. Same(g + q, h + q, Q)
  BY <1>1, <1>2, <1>3, <1>4, <1>5, SameSum
<1>7. h + q = ta
  <2>1. ta = (yy * m + w) * a /\ h = (yy * a) * m /\ q = w * a
    BY <1>2, <1>4
  <2>2. (yy * m + w) * a = (yy * a) * m + w * a
    OBVIOUS
  <2> QED BY <2>1, <2>2
<1>8. g + q = (f * b + w * a) + (c * (s * b) + 0 * (w * a))
  <2>1. g + q = b * (f + c * s) + w * a
    BY <1>2
  <2>2. b * (f + c * s) + w * a = (f * b + w * a) + (c * (s * b) + 0 * (w * a))
    OBVIOUS
  <2> QED BY <2>1, <2>2
<1>9. PICK l \in Int : l = g + q
  OBVIOUS
<1>10. Same(l, ta, Q) /\ Same(da, ta, Q)
  BY <1>3, <1>4, <1>6, <1>7, <1>9
<1>11. Same(da, l, Q)
  BY <1>1, <1>10, SameReverse, SameTrans
<1> QED BY <1>4, <1>8, <1>9, <1>11

\* The vector d over the bases A is f + c s over the bases B and w over A.
Moves(n, d, A, f, s, w, yv, B, c) ==
    /\ d \in [1..n -> Int] /\ f \in [1..n -> Int] /\ s \in [1..n -> Int]
    /\ w \in [1..n -> Int] /\ yv \in [1..n -> Int]
    /\ A \in [1..n -> Point] /\ B \in [1..n -> Point]
    /\ \A i \in 1..n : Same(d[i], yv[i] * (f[i] + c * s[i]) + w[i], Q)
    /\ \A i \in 1..n, k \in 1..Dim : Same(B[i][k], yv[i] * A[i][k], Q)

LEMMA DotMoved ==
    ASSUME NEW n \in Nat, NEW c \in Int, NEW d, NEW A, NEW f, NEW s, NEW w, NEW yv, NEW B,
           Moves(n, d, A, f, s, w, yv, B, c)
    PROVE  \A k \in 1..Dim :
              /\ Dot(n, d, A, k) \in Int /\ Dot(n, f, B, k) \in Int
              /\ Dot(n, s, B, k) \in Int /\ Dot(n, w, A, k) \in Int
              /\ Same(Dot(n, d, A, k),
                      Dot(n, f, B, k) + c * Dot(n, s, B, k) + Dot(n, w, A, k), Q)
<1>1. /\ d \in [1..n -> Int] /\ f \in [1..n -> Int] /\ s \in [1..n -> Int]
      /\ w \in [1..n -> Int] /\ yv \in [1..n -> Int]
      /\ A \in [1..n -> Point] /\ B \in [1..n -> Point]
  BY DEF Moves
<1>2. Q \in Nat \ {0}
  BY FieldAssumption
<1> SUFFICES ASSUME NEW k \in 1..Dim
             PROVE  /\ Dot(n, d, A, k) \in Int /\ Dot(n, f, B, k) \in Int
                    /\ Dot(n, s, B, k) \in Int /\ Dot(n, w, A, k) \in Int
                    /\ Same(Dot(n, d, A, k),
                            Dot(n, f, B, k) + c * Dot(n, s, B, k) + Dot(n, w, A, k), Q)
  OBVIOUS
<1>3. PICK a \in [1..n -> Int], b \in [1..n -> Int] :
        /\ a = Column(A, k) /\ b = Column(B, k)
        /\ \A i \in 1..n : a[i] = A[i][k] /\ b[i] = B[i][k]
  <2>1. Column(A, k) \in [1..n -> Int] /\ \A i \in 1..n : Column(A, k)[i] = A[i][k]
    BY <1>1, ColumnInt
  <2>2. Column(B, k) \in [1..n -> Int] /\ \A i \in 1..n : Column(B, k)[i] = B[i][k]
    BY <1>1, ColumnInt
  <2> QED BY <2>1, <2>2
<1>4. PICK da, fb, sb, wa :
        /\ da = Products(d, a) /\ fb = Products(f, b)
        /\ sb = Products(s, b) /\ wa = Products(w, a)
  OBVIOUS
<1>5. /\ \A i \in 1..n : /\ da[i] = d[i] * a[i] /\ da[i] \in Int
                         /\ fb[i] = f[i] * b[i] /\ fb[i] \in Int
                         /\ sb[i] = s[i] * b[i] /\ sb[i] \in Int
                         /\ wa[i] = w[i] * a[i] /\ wa[i] \in Int
      /\ SumTo(n, da) \in Int /\ SumTo(n, fb) \in Int
      /\ SumTo(n, sb) \in Int /\ SumTo(n, wa) \in Int
  BY <1>1, <1>3, <1>4, ProductsInt
<1>6. PICK l : l = [i \in 1..n |-> (fb[i] + wa[i]) + (c * sb[i] + 0 * wa[i])]
  OBVIOUS
<1>7. ASSUME NEW i \in 1..n
      PROVE  da[i] \in Int /\ l[i] \in Int /\ Same(da[i], l[i], Q)
  <2>1. PICK di \in Int, ai \in Int, bi \in Int, fi \in Int, si \in Int, wi \in Int, yi \in Int :
          /\ di = d[i] /\ ai = a[i] /\ bi = b[i] /\ fi = f[i] /\ si = s[i] /\ wi = w[i]
          /\ yi = yv[i]
    BY <1>1, <1>3
  <2>2. PICK mi \in Int : mi = fi + c * si
    OBVIOUS
  <2>3. PICK ti \in Int : ti = yi * mi + wi
    OBVIOUS
  <2>4. Same(di, ti, Q) /\ Same(bi, yi * ai, Q)
    BY <1>3, <2>1, <2>2, <2>3 DEF Moves
  <2>5. /\ Same(di * ai, (fi * bi + wi * ai) + (c * (si * bi) + 0 * (wi * ai)), Q)
        /\ (fi * bi + wi * ai) + (c * (si * bi) + 0 * (wi * ai)) \in Int
    BY <2>2, <2>3, <2>4, MoveTerm
  <2>6. da[i] = di * ai /\ l[i] = (fi * bi + wi * ai) + (c * (si * bi) + 0 * (wi * ai))
    BY <1>5, <1>6, <2>1
  <2> QED BY <1>5, <2>5, <2>6
<1>8. Same(SumTo(n, da), SumTo(n, l), Q)
  BY <1>2, <1>7, SumSame
<1>9. SumTo(n, l) = (SumTo(n, fb) + SumTo(n, wa)) + (c * SumTo(n, sb) + 0 * SumTo(n, wa))
  <2>1. PICK o \in Int : o = 0
    OBVIOUS
  <2>2. IsLinear(n, l, fb, wa, sb, wa, c, o)
    BY <1>5, <1>6, <2>1 DEF IsLinear
  <2>3. SumTo(n, l) = (SumTo(n, fb) + SumTo(n, wa)) + (c * SumTo(n, sb) + o * SumTo(n, wa))
    BY <2>2, SumLinear
  <2> QED BY <2>1, <2>3
<1>10. (SumTo(n, fb) + SumTo(n, wa)) + (c * SumTo(n, sb) + 0 * SumTo(n, wa))
         = SumTo(n, fb) + c * SumTo(n, sb) + SumTo(n, wa)
  BY <1>5
<1> QED BY <1>3, <1>4, <1>5, <1>8, <1>9, <1>10 DEF Dot

\* The powers of a unit and of its inverse.
LEMMA PowersCancel ==
    ASSUME NEW n \in Nat, NEW b \in Int, NEW w \in Int, Same(b * w, 1, Q)
    PROVE  \A i \in 1..n : Same(BN_vec_gen_power(n, b)[i] * BN_vec_gen_power(n, w)[i], 1, Q)
<1>1. PICK s, t : /\ IsPowers(n, b, s) /\ s = BN_vec_gen_power(n, b) /\ s \in [1..n -> Int]
                  /\ IsPowers(n, w, t) /\ t = BN_vec_gen_power(n, w) /\ t \in [1..n -> Int]
  <2>1. /\ BN_vec_gen_power(n, b) = CHOOSE p : IsPowers(n, b, p)
        /\ BN_vec_gen_power(n, w) = CHOOSE p : IsPowers(n, w, p)
    BY DEF BN_vec_gen_power, IsPowers
  <2>2. IsPowers(n, b, BN_vec_gen_power(n, b)) /\ IsPowers(n, w, BN_vec_gen_power(n, w))
    BY <2>1, PowersExist
  <2> QED BY <2>2, PowersInt
<1>2. Q \in Nat \ {0}
  BY FieldAssumption
<1> DEFINE T == {k \in 0..n : k = 0 \/ Same(s[k] * t[k], 1, Q)}
<1>3. 0 \in T
  OBVIOUS
<1>4. ASSUME NEW k \in 0..(n - 1), k \in T PROVE k + 1 \in T
  <2>1. PICK d \in 1..n : d = k + 1 /\ d - 1 = k
    OBVIOUS
  <2>2. /\ s[d] = IF d = 1 THEN 1 ELSE (b * s[d - 1]) % Q
        /\ t[d] = IF d = 1 THEN 1 ELSE (w * t[d - 1]) % Q
    BY <1>1 DEF IsPowers
  <2>3. CASE k = 0
    <3>1. s[d] * t[d] = 1
      BY <2>1, <2>2, <2>3
    <3>2. Same(1, 1, Q)
      BY <1>2, SameSelf
    <3> QED BY <2>1, <3>1, <3>2
  <2>4. CASE k # 0
    <3>1. PICK p \in Int, q \in Int : p = s[k] /\ q = t[k] /\ Same(p * q, 1, Q)
      BY <1>1, <1>4, <2>4
    <3>2. PICK bp \in Int, wq \in Int : bp = b * p /\ wq = w * q
      OBVIOUS
    <3>3. PICK p1 \in Int, q1 \in Int :
            p1 = s[d] /\ q1 = t[d] /\ Same(p1, bp, Q) /\ Same(q1, wq, Q)
      <4>1. s[d] = bp % Q /\ t[d] = wq % Q
        BY <2>1, <2>2, <2>4, <3>1, <3>2
      <4> QED BY <4>1, SameQ
    <3>4. Same(p1 * q1, bp * wq, Q)
      BY <1>2, <3>3, SameProducts
    <3>5. PICK bw \in Int, pq \in Int, l \in Int, r1 \in Int :
            bw = b * w /\ pq = p * q /\ l = p1 * q1 /\ r1 = bp * wq
      OBVIOUS
    <3>6. r1 = bw * pq
      <4>1. (b * p) * (w * q) = (b * w) * (p * q)
        OBVIOUS
      <4> QED BY <3>2, <3>5, <4>1
    <3>7. Same(bw * pq, pq, Q)
      BY <1>2, <3>5, SameUnit
    <3>8. Same(l, r1, Q) /\ Same(r1, pq, Q) /\ Same(pq, 1, Q)
      BY <3>1, <3>4, <3>5, <3>6, <3>7
    <3>9. Same(l, 1, Q)
      BY <1>2, <3>8, SameTrans
    <3> QED BY <2>1, <3>3, <3>5, <3>9
  <2> QED BY <2>3, <2>4
<1> HIDE DEF T
<1>5. \A k \in 0..n : k \in T
  BY <1>3, <1>4, UpTo
<1> USE DEF T
<1> QED BY <1>1, <1>5

\* h[i] is its new base to the power y^i.
LEMMA OldBases ==
    ASSUME y \in Challenges
    PROVE  \A i \in 1..VECTOR_LEN, k \in 1..Dim :
              Same(HH[i][k], YPowers[i] * NewH(y)[i][k], Q)
<1>1. PICK n \in Nat : n = VECTOR_LEN
  BY Lengths
<1>2. Q \in Nat \ {0}
  BY FieldAssumption
<1>3. PICK c \in Int, w \in Int : c = y /\ w = Inverse(y) /\ Same(c * w, 1, Q)
  BY InverseUnit
<1>4. \A i \in 1..n : Same(YPowers[i] * HPowers(y)[i], 1, Q)
  BY <1>1, <1>3, PowersCancel DEF YPowers, HPowers
<1> SUFFICES ASSUME NEW i \in 1..VECTOR_LEN, NEW k \in 1..Dim
             PROVE  Same(HH[i][k], YPowers[i] * NewH(y)[i][k], Q)
  OBVIOUS
<1>5. PICK p \in Int, q \in Int, h \in Int, f \in Int :
        /\ p = YPowers[i] /\ q = HPowers(y)[i] /\ h = NewH(y)[i][k]
        /\ f = IF k = 3 + VECTOR_LEN + i THEN q ELSE 0
        /\ Same(h, f, Q) /\ Same(p * q, 1, Q)
  <2>1. /\ NewH(y)[i][k] \in Int /\ HPowers(y)[i] \in Int
        /\ Same(NewH(y)[i][k], IF k = 3 + VECTOR_LEN + i THEN HPowers(y)[i] ELSE 0, Q)
    BY NewHAt
  <2>2. YPowers[i] \in Int
    BY YPowersInt
  <2>3. Same(YPowers[i] * HPowers(y)[i], 1, Q)
    BY <1>1, <1>4
  <2> QED BY <2>1, <2>2, <2>3
<1>6. HH[i][k] = IF k = 3 + VECTOR_LEN + i THEN 1 ELSE 0
  BY DEF HH, Generator
<1>7. Same(h * p, f * p, Q)
  BY <1>2, <1>5, SameProduct
<1>8. PICK a \in Int, b \in Int : a = p * h /\ b = f * p
  OBVIOUS
<1>9. Same(a, b, Q)
  BY <1>5, <1>7, <1>8
<1>10. PICK o \in Int : o = HH[i][k] /\ Same(b, o, Q)
  <2>1. CASE k = 3 + VECTOR_LEN + i
    <3>1. b = p * q
      BY <1>5, <1>8, <2>1
    <3> QED BY <1>5, <1>6, <2>1, <3>1
  <2>2. CASE k # 3 + VECTOR_LEN + i
    <3>1. b = 0
      BY <1>5, <1>8, <2>2
    <3> QED BY <1>2, <1>6, <2>2, <3>1, SameSelf
  <2> QED BY <2>1, <2>2
<1>11. Same(o, a, Q)
  BY <1>2, <1>9, <1>10, SameReverse, SameTrans
<1> QED BY <1>5, <1>8, <1>10, <1>11

\* A commitment to two vectors, blinded by w on p.
IsCommitment(f, n, p, g, h, w, a, b) ==
    /\ p \in Point /\ g \in [1..n -> Point] /\ h \in [1..n -> Point]
    /\ w \in Int /\ a \in [1..n -> Int] /\ b \in [1..n -> Int]
    /\ f = ECP_vec_mul(<<p>> \o g \o h, <<w>> \o a \o b)

LEMMA CommitmentIs ==
    ASSUME NEW n \in Nat, NEW f, NEW p, NEW g, NEW h, NEW w \in Int, NEW a, NEW b,
           IsCommitment(f, n, p, g, h, w, a, b)
    PROVE  /\ f \in Point
           /\ \A k \in 1..Dim :
                 /\ p[k] \in Int /\ f[k] \in Int /\ f[k] \in 0..(Q - 1)
                 /\ Dot(n, a, g, k) \in Int /\ Dot(n, b, h, k) \in Int
                 /\ Same(f[k], w * p[k] + Dot(n, a, g, k) + Dot(n, b, h, k), Q)
<1>1. /\ p \in Point /\ g \in [1..n -> Point] /\ h \in [1..n -> Point]
      /\ a \in [1..n -> Int] /\ b \in [1..n -> Int]
      /\ f = ECP_vec_mul(<<p>> \o g \o h, <<w>> \o a \o b)
  BY DEF IsCommitment
<1>a. PICK o \in Nat, m \in Nat, N \in Nat \ {0}, NN \in Nat :
        o = 1 /\ m = 1 + n /\ N = m + n /\ NN = N
  OBVIOUS
<1>b. PICK B, c : B = <<p>> /\ c = <<w>>
  OBVIOUS
<1>2. o = 1 /\ m = o + n /\ N = m + n /\ NN = N /\ B = <<p>> /\ c = <<w>>
  BY <1>a, <1>b
<1>3. /\ B \in [1..o -> Point] /\ c \in [1..o -> Int]
      /\ \A k \in 1..Dim : p[k] \in Int /\ Dot(o, c, B, k) = w * p[k]
  <2>1. IsOne(B, c, p, w)
    BY <1>1, <1>2 DEF IsOne
  <2>2. /\ B \in [1..1 -> Point] /\ c \in [1..1 -> Int]
        /\ \A k \in 1..Dim : p[k] \in Int /\ Dot(1, c, B, k) = w * p[k]
    BY <2>1, DotOne
  <2> QED BY <1>2, <2>2
<1>4. PICK D, d : D = B \o g /\ d = c \o a
  OBVIOUS
<1>5. Joined(m, D, d, o, B, c, n, g, a)
  BY <1>1, <1>2, <1>3, <1>4 DEF Joined
<1>6. /\ D \in [1..m -> Point] /\ d \in [1..m -> Int]
      /\ \A k \in 1..Dim : /\ Dot(m, d, D, k) = Dot(o, c, B, k) + Dot(n, a, g, k)
                           /\ Dot(n, a, g, k) \in Int
                           /\ Dot(m, d, D, k) \in Int
  BY <1>5, DotConcat
<1>7. PICK E, l : E = D \o h /\ l = d \o b
  OBVIOUS
<1>8. Joined(NN, E, l, m, D, d, n, h, b)
  BY <1>1, <1>2, <1>6, <1>7 DEF Joined
<1>9. /\ E \in [1..NN -> Point] /\ l \in [1..NN -> Int]
      /\ \A k \in 1..Dim : /\ Dot(NN, l, E, k) = Dot(m, d, D, k) + Dot(n, b, h, k)
                           /\ Dot(n, b, h, k) \in Int
  BY <1>8, DotConcat
<1>10. Multiplies(f, N, E, l)
  BY <1>1, <1>2, <1>4, <1>7, <1>9 DEF Multiplies
<1>11. /\ f \in Point
       /\ \A k \in 1..Dim : /\ f[k] \in Int /\ f[k] \in 0..(Q - 1)
                            /\ Same(f[k], Dot(NN, l, E, k), Q)
  BY <1>2, <1>10, MulDot
<1> QED BY <1>3, <1>6, <1>9, <1>11

\* The verifier's product: two points, two vectors and two points.
IsSides(f, n, p, q, g, h, s, t, w, a, b, c1, c2) ==
    /\ p \in Point /\ q \in Point /\ s \in Point /\ t \in Point
    /\ g \in [1..n -> Point] /\ h \in [1..n -> Point]
    /\ a \in [1..n -> Int] /\ b \in [1..n -> Int]
    /\ w \in Int /\ c1 \in Int /\ c2 \in Int
    /\ f = ECP_vec_mul(<<p, q>> \o g \o h \o <<s, t>>, <<1, w>> \o a \o b \o <<c1, c2>>)

LEMMA SidesAre ==
    ASSUME NEW n \in Nat, NEW f, NEW p, NEW q, NEW g, NEW h, NEW s, NEW t, NEW w \in Int,
           NEW a, NEW b, NEW c1 \in Int, NEW c2 \in Int,
           IsSides(f, n, p, q, g, h, s, t, w, a, b, c1, c2)
    PROVE  /\ f \in Point
           /\ \A k \in 1..Dim :
                 /\ f[k] \in 0..(Q - 1) /\ f[k] \in Int
                 /\ Dot(n, a, g, k) \in Int /\ Dot(n, b, h, k) \in Int
                 /\ Same(f[k], ((1 * p[k] + w * q[k]) + Dot(n, a, g, k) + Dot(n, b, h, k))
                                 + (c1 * s[k] + c2 * t[k]), Q)
<1>1. /\ p \in Point /\ q \in Point /\ s \in Point /\ t \in Point
      /\ g \in [1..n -> Point] /\ h \in [1..n -> Point]
      /\ a \in [1..n -> Int] /\ b \in [1..n -> Int]
      /\ f = ECP_vec_mul(<<p, q>> \o g \o h \o <<s, t>>, <<1, w>> \o a \o b \o <<c1, c2>>)
  BY DEF IsSides
<1>2. PICK o \in Nat, m \in Nat, j \in Nat, N \in Nat \ {0}, NN \in Nat, w0 \in Int :
        /\ o = 2 /\ m = 2 + n /\ j = m + n /\ N = j + 2 /\ NN = N /\ w0 = 1
  OBVIOUS
<1>3. PICK B, c, X, y1 : B = <<p, q>> /\ c = <<w0, w>> /\ X = <<s, t>> /\ y1 = <<c1, c2>>
  OBVIOUS
<1>4. /\ B \in [1..o -> Point] /\ c \in [1..o -> Int]
      /\ \A k \in 1..Dim : Dot(o, c, B, k) = w0 * p[k] + w * q[k]
  <2>1. AreTwo(B, c, p, q, w0, w)
    BY <1>1, <1>2, <1>3 DEF AreTwo
  <2>2. /\ B \in [1..2 -> Point] /\ c \in [1..2 -> Int]
        /\ \A k \in 1..Dim : Dot(2, c, B, k) = w0 * p[k] + w * q[k]
    BY <2>1, DotTwo
  <2> QED BY <1>2, <2>2
<1>5. /\ X \in [1..o -> Point] /\ y1 \in [1..o -> Int]
      /\ \A k \in 1..Dim : Dot(o, y1, X, k) = c1 * s[k] + c2 * t[k]
  <2>1. AreTwo(X, y1, s, t, c1, c2)
    BY <1>1, <1>2, <1>3 DEF AreTwo
  <2>2. /\ X \in [1..2 -> Point] /\ y1 \in [1..2 -> Int]
        /\ \A k \in 1..Dim : Dot(2, y1, X, k) = c1 * s[k] + c2 * t[k]
    BY <2>1, DotTwo
  <2> QED BY <1>2, <2>2
<1>6. PICK D, d : D = B \o g /\ d = c \o a
  OBVIOUS
<1>7. Joined(m, D, d, o, B, c, n, g, a)
  BY <1>1, <1>2, <1>4, <1>6 DEF Joined
<1>8. /\ D \in [1..m -> Point] /\ d \in [1..m -> Int]
      /\ \A k \in 1..Dim : /\ Dot(m, d, D, k) = Dot(o, c, B, k) + Dot(n, a, g, k)
                           /\ Dot(n, a, g, k) \in Int
                           /\ Dot(m, d, D, k) \in Int
  BY <1>7, DotConcat
<1>9. PICK E, l : E = D \o h /\ l = d \o b
  OBVIOUS
<1>10. Joined(j, E, l, m, D, d, n, h, b)
  BY <1>1, <1>2, <1>8, <1>9 DEF Joined
<1>11. /\ E \in [1..j -> Point] /\ l \in [1..j -> Int]
       /\ \A k \in 1..Dim : /\ Dot(j, l, E, k) = Dot(m, d, D, k) + Dot(n, b, h, k)
                            /\ Dot(n, b, h, k) \in Int
  BY <1>10, DotConcat
<1>12. PICK F, i : F = E \o X /\ i = l \o y1
  OBVIOUS
<1>13. Joined(NN, F, i, j, E, l, o, X, y1)
  BY <1>2, <1>5, <1>11, <1>12 DEF Joined
<1>14. /\ F \in [1..NN -> Point] /\ i \in [1..NN -> Int]
       /\ \A k \in 1..Dim : Dot(NN, i, F, k) = Dot(j, l, E, k) + Dot(o, y1, X, k)
  BY <1>13, DotConcat
<1>15. Multiplies(f, N, F, i)
  BY <1>1, <1>2, <1>3, <1>6, <1>9, <1>12, <1>14 DEF Multiplies
<1>16. /\ f \in Point
       /\ \A k \in 1..Dim : /\ f[k] \in 0..(Q - 1) /\ f[k] \in Int
                            /\ Same(f[k], Dot(NN, i, F, k), Q)
  BY <1>2, <1>15, MulDot
<1> QED BY <1>2, <1>4, <1>5, <1>8, <1>11, <1>14, <1>16

\* The vectors the verifier adds to the commitments of the prover.
MinusZ == BN_vec_scalar(Ones, (-z) % Q)
YZTwos == BN_vec_add(BN_vec_scalar(YPowers, z), ZTwos(z))

LEMMA MovesG ==
    ASSUME Drawn, x \in Challenges
    PROVE  Moves(VECTOR_LEN, LLAt(x), GG, AL, sL, MinusZ, Ones, GG, x)
<1>1. PICK n \in Nat : n = VECTOR_LEN
  BY Lengths
<1>2. Q \in Nat \ {0}
  BY FieldAssumption
<1>3. PICK c \in Int, zz \in Int, m \in Int : c = x /\ zz = z /\ m = (-z) % Q /\ Same(m, -zz, Q)
  <2>1. x \in Int /\ z \in Int
    BY InverseUnit DEF Drawn
  <2>2. -z \in Int
    BY <2>1
  <2> QED BY <2>1, <2>2, SameQ
<1>4. PICK d \in [1..n -> Int], f \in [1..n -> Int], s \in [1..n -> Int], o \in [1..n -> Int],
           l \in [1..n -> Int] :
        /\ d = LLAt(x) /\ f = AL /\ s = sL /\ o = Ones /\ l = LL0
        /\ \A i \in 1..n : Same(d[i], l[i] + c * s[i], Q)
  <2>1. LL0 \in [1..n -> Int] /\ Evaluates(LLAt(x), n, LL0, sL, x)
    BY <1>1, DrawnVectors
  <2>2. AL \in [1..n -> Int]
    BY <1>1, BitsInt DEF AL, Drawn
  <2>3. Ones \in [1..n -> Int]
    BY <1>1 DEF Ones
  <2> QED BY <1>3, <2>1, <2>2, <2>3 DEF Evaluates
<1>5. PICK w \in [1..n -> Int] : w = MinusZ /\ \A i \in 1..n : Same(w[i], o[i] * m, Q)
  BY <1>3, <1>4, ScalarInt, VectorsAre DEF MinusZ
<1>6. ASSUME NEW i \in 1..n PROVE Same(d[i], o[i] * (f[i] + c * s[i]) + w[i], Q)
  <2>1. PICK di \in Int, fi \in Int, si \in Int, li \in Int, wi \in Int, p \in Int :
          /\ di = d[i] /\ fi = f[i] /\ si = s[i] /\ li = l[i] /\ wi = w[i]
          /\ p = c * si /\ o[i] = 1
    <3>1. o[i] = 1
      BY <1>1, <1>4 DEF Ones
    <3>2. c * s[i] \in Int
      OBVIOUS
    <3> QED BY <3>1, <3>2
  <2>2. Same(di, li + p, Q) /\ Same(wi, m, Q)
    BY <1>3, <1>4, <1>5, <2>1
  <2>3. PICK fz \in Int, mz \in Int : fz = fi - zz /\ mz = -zz
    OBVIOUS
  <2>4. Same(li, fz, Q)
    <3>1. Same(LL0[i], AL[i] - z, Q)
      BY <1>1, PointwiseTerm DEF Drawn
    <3> QED BY <1>3, <1>4, <2>1, <2>3, <3>1
  <2>5. Same(p, p, Q) /\ Same(fi, fi, Q)
    BY <1>2, SameSelf
  <2>6. Same(wi, mz, Q)
    BY <1>2, <1>3, <2>2, <2>3, SameTrans
  <2>7. Same(fi + wi, fi + mz, Q)
    BY <1>2, <2>5, <2>6, SameSum
  <2>8. PICK t \in Int : t = fi + wi /\ Same(t, fz, Q)
    BY <2>3, <2>7
  <2>9. Same(fz, t, Q)
    BY <1>2, <2>8, SameReverse
  <2>10. Same(li, t, Q)
    BY <1>2, <2>4, <2>9, SameTrans
  <2>11. Same(li + p, t + p, Q)
    BY <1>2, <2>5, <2>10, SameSum
  <2>12. PICK q1 \in Int, q2 \in Int : q1 = li + p /\ q2 = t + p
    OBVIOUS
  <2>13. Same(di, q2, Q)
    BY <1>2, <2>2, <2>11, <2>12, SameTrans
  <2>14. q2 = 1 * (fi + p) + wi
    BY <2>8, <2>12
  <2> QED BY <2>1, <2>13, <2>14
<1>7. ASSUME NEW i \in 1..n, NEW k \in 1..Dim PROVE Same(GG[i][k], o[i] * GG[i][k], Q)
  <2>1. PICK g \in Int : g = GG[i][k]
    BY <1>1, GeneratorsArePoints DEF Point
  <2>2. o[i] = 1
    BY <1>1, <1>4 DEF Ones
  <2>3. 1 * g = g
    OBVIOUS
  <2> QED BY <1>2, <2>1, <2>2, <2>3, SameSelf
<1> QED BY <1>1, <1>3, <1>4, <1>5, <1>6, <1>7, GeneratorsArePoints DEF Moves

LEMMA MovesH ==
    ASSUME Drawn, x \in Challenges
    PROVE  /\ Moves(VECTOR_LEN, RRAt(x), NewH(y), AR, sR, YZTwos, YPowers, HH, x)
           /\ AR \in [1..VECTOR_LEN -> Int] /\ YZTwos \in [1..VECTOR_LEN -> Int]
<1>1. PICK n \in Nat : n = VECTOR_LEN
  BY Lengths
<1>2. Q \in Nat \ {0}
  BY FieldAssumption
<1>3. PICK c \in Int, zz \in Int : c = x /\ zz = z
  BY InverseUnit DEF Drawn
<1>4. PICK d \in [1..n -> Int], s \in [1..n -> Int], r0 \in [1..n -> Int],
           r1 \in [1..n -> Int] :
        /\ d = RRAt(x) /\ s = sR /\ r0 = RR0 /\ r1 = RR1
        /\ \A i \in 1..n : Same(d[i], r0[i] + c * r1[i], Q)
  <2>1. /\ RR0 \in [1..n -> Int] /\ RR1 \in [1..n -> Int]
        /\ Evaluates(RRAt(x), n, RR0, RR1, x)
    BY <1>1, DrawnVectors
  <2> QED BY <1>1, <1>3, <2>1 DEF Evaluates, Drawn
<1>5. PICK al \in [1..n -> Int], o \in [1..n -> Int], f \in [1..n -> Int] :
        /\ al = AL /\ o = Ones /\ f = AR /\ \A i \in 1..n : Same(f[i], al[i] - o[i], Q)
  <2>1. AL \in [1..n -> Int]
    BY <1>1, BitsInt DEF AL, Drawn
  <2>2. Ones \in [1..n -> Int]
    BY <1>1 DEF Ones
  <2>3. PICK al \in [1..n -> Int], o \in [1..n -> Int] : al = AL /\ o = Ones
    BY <2>1, <2>2
  <2>4. PICK f \in [1..n -> Int] : f = BN_vec_sub(al, o)
    BY SubInt
  <2>5. \A i \in 1..n : Same(f[i], al[i] - o[i], Q)
    BY <2>4, VectorsAre
  <2> QED BY <2>3, <2>4, <2>5 DEF AR
<1>6. PICK Y \in [1..n -> Int], W \in [1..n -> Int], ZT \in [1..n -> Int] :
        /\ Y = YPowers /\ W = Weights /\ ZT = ZTwos(z)
        /\ \A i \in 1..n : Same(ZT[i], W[i], Q)
  BY <1>1, YPowersInt, WeightsInt DEF Drawn
<1>7. \A i \in 1..n : Same(r1[i], Y[i] * s[i], Q)
  <2>1. r1 = BN_vec_product(Y, s)
    BY <1>4, <1>6 DEF RR1, YPowers
  <2> QED BY <2>1, VectorsAre
<1>8. PICK yz \in [1..n -> Int], w \in [1..n -> Int] :
        /\ yz = BN_vec_scalar(Y, zz) /\ w = BN_vec_add(yz, ZT) /\ w = YZTwos
        /\ \A i \in 1..n : Same(yz[i], Y[i] * zz, Q) /\ Same(w[i], yz[i] + ZT[i], Q)
  <2>1. PICK yz \in [1..n -> Int] : yz = BN_vec_scalar(Y, zz)
    BY ScalarInt
  <2>2. PICK w \in [1..n -> Int] : w = BN_vec_add(yz, ZT)
    BY AddInt
  <2>3. \A i \in 1..n : Same(yz[i], Y[i] * zz, Q)
    BY <2>1, VectorsAre
  <2>4. \A i \in 1..n : Same(w[i], yz[i] + ZT[i], Q)
    BY <2>2, VectorsAre
  <2>5. w = YZTwos
    BY <1>3, <1>6, <2>1, <2>2 DEF YZTwos
  <2> QED BY <2>1, <2>2, <2>3, <2>4, <2>5
<1>9. ASSUME NEW i \in 1..n PROVE Same(d[i], Y[i] * (f[i] + c * s[i]) + w[i], Q)
  <2>1. PICK di \in Int, ri \in Int, qi \in Int, yi \in Int, si \in Int, fi \in Int,
             ai \in Int, wi \in Int, xi \in Int, ti \in Int, gi \in Int :
          /\ di = d[i] /\ ri = r0[i] /\ qi = r1[i] /\ yi = Y[i] /\ si = s[i] /\ fi = f[i]
          /\ ai = al[i] /\ wi = w[i] /\ xi = yz[i] /\ ti = ZT[i] /\ gi = W[i] /\ o[i] = 1
    <3>1. o[i] = 1
      BY <1>1, <1>5 DEF Ones
    <3> QED BY <3>1
  <2>2. /\ Same(di, ri + c * qi, Q) /\ Same(qi, yi * si, Q) /\ Same(fi, ai - 1, Q)
        /\ Same(xi, yi * zz, Q) /\ Same(wi, xi + ti, Q) /\ Same(ti, gi, Q)
    BY <1>4, <1>5, <1>6, <1>7, <1>8, <2>1
  <2>3. Same(ri, yi * ((ai - 1) + zz) + gi, Q)
    <3>1. Same(RR0[i], YPowers[i] * ((AL[i] - 1) + z) + Weights[i], Q)
      BY <1>1, PointwiseTerm DEF Drawn
    <3> QED BY <1>3, <1>4, <1>5, <1>6, <2>1, <3>1
  <2>4. PICK p1 \in Int, p2 \in Int, p3 \in Int, p4 \in Int, p5 \in Int :
          di = (ri + c * qi) + Q * p1 /\ qi = yi * si + Q * p2 /\ fi = (ai - 1) + Q * p3
          /\ xi = yi * zz + Q * p4 /\ wi = (xi + ti) + Q * p5
    BY <2>2 DEF Same
  <2>5. PICK p6 \in Int, p7 \in Int :
          ti = gi + Q * p6 /\ ri = (yi * ((ai - 1) + zz) + gi) + Q * p7
    BY <2>2, <2>3 DEF Same
  <2>6. PICK q \in Int : q = (p7 + c * p2 + p1) - (yi * p3 + p4 + p6 + p5)
    OBVIOUS
  <2>7. PICK k \in Int : k = Q
    BY <1>2
  <2>8. di = (yi * (fi + c * si) + wi) + k * q
    <3>1. di = (((yi * ((ai - 1) + zz) + gi) + k * p7) + c * (yi * si + k * p2)) + k * p1
      BY <2>4, <2>5, <2>7
    <3>2. wi = ((yi * zz + k * p4) + (gi + k * p6)) + k * p5
      BY <2>4, <2>5, <2>7
    <3>3. fi = (ai - 1) + k * p3
      BY <2>4, <2>7
    <3>4. (((yi * ((ai - 1) + zz) + gi) + k * p7) + c * (yi * si + k * p2)) + k * p1
            = (yi * (((ai - 1) + k * p3) + c * si)
                 + (((yi * zz + k * p4) + (gi + k * p6)) + k * p5))
              + k * ((p7 + c * p2 + p1) - (yi * p3 + p4 + p6 + p5))
      OBVIOUS
    <3> QED BY <2>6, <3>1, <3>2, <3>3, <3>4
  <2>9. Same(di, yi * (fi + c * si) + wi, Q)
    BY <2>7, <2>8 DEF Same
  <2> QED BY <2>1, <2>9
<1>10. NewH(y) \in [1..n -> Point]
  BY <1>1, NewHPoints DEF Drawn
<1>11. \A i \in 1..n, k \in 1..Dim : Same(HH[i][k], Y[i] * NewH(y)[i][k], Q)
  BY <1>1, <1>6, OldBases DEF Drawn
<1> QED BY <1>1, <1>3, <1>4, <1>5, <1>6, <1>8, <1>9, <1>10, <1>11, GeneratorsArePoints DEF Moves

InstanceNumbers(f, g, a, s, ll, rr, mu, al, rh, c, h, t, tx, d1, d2, d3, d4, mz, wv) ==
    /\ Same(f, ((1 * a + c * s) + mz + wv) + (mu * h + tx * t), Q)
    /\ Same(a, al * h + d1 + d2, Q) /\ Same(s, rh * h + d3 + d4, Q)
    /\ Same(ll, d1 + c * d3 + mz, Q) /\ Same(rr, d2 + c * d4 + wv, Q)
    /\ Same(g, ll + rr + tx * t, Q) /\ Same(mu, -(al + rh * c), Q)

LEMMA InstancesSame ==
    ASSUME NEW f \in Int, NEW g \in Int, NEW a \in Int, NEW s \in Int, NEW ll \in Int,
           NEW rr \in Int, NEW mu \in Int, NEW al \in Int, NEW rh \in Int, NEW c \in Int,
           NEW h \in Int, NEW t \in Int, NEW tx \in Int, NEW d1 \in Int, NEW d2 \in Int,
           NEW d3 \in Int, NEW d4 \in Int, NEW mz \in Int, NEW wv \in Int,
           InstanceNumbers(f, g, a, s, ll, rr, mu, al, rh, c, h, t, tx, d1, d2, d3, d4, mz, wv)
    PROVE  Same(f, g, Q)
<1>1. PICK k \in Int : k = Q
  BY FieldAssumption
<1>a. PICK q1 \in Int : f = (((1 * a + c * s) + mz + wv) + (mu * h + tx * t)) + k * q1
  <2>1. Same(f, ((1 * a + c * s) + mz + wv) + (mu * h + tx * t), Q)
    BY DEF InstanceNumbers
  <2> QED BY <1>1, <2>1 DEF Same
<1>2. PICK q2 \in Int, q3 \in Int, q4 \in Int :
        /\ a = (al * h + d1 + d2) + k * q2 /\ s = (rh * h + d3 + d4) + k * q3
        /\ ll = (d1 + c * d3 + mz) + k * q4
  <2>1. /\ Same(a, al * h + d1 + d2, Q) /\ Same(s, rh * h + d3 + d4, Q)
        /\ Same(ll, d1 + c * d3 + mz, Q)
    BY DEF InstanceNumbers
  <2> QED BY <1>1, <2>1 DEF Same
<1>3. PICK q5 \in Int, q6 \in Int, q7 \in Int :
        /\ rr = (d2 + c * d4 + wv) + k * q5
        /\ g = (ll + rr + tx * t) + k * q6 /\ mu = -(al + rh * c) + k * q7
  <2>1. /\ Same(rr, d2 + c * d4 + wv, Q) /\ Same(g, ll + rr + tx * t, Q)
        /\ Same(mu, -(al + rh * c), Q)
    BY DEF InstanceNumbers
  <2>2. PICK q5 \in Int : rr = (d2 + c * d4 + wv) + k * q5
    BY <1>1, <2>1 DEF Same
  <2>3. PICK q6 \in Int : g = (ll + rr + tx * t) + k * q6
    BY <1>1, <2>1 DEF Same
  <2>4. PICK q7 \in Int : mu = -(al + rh * c) + k * q7
    BY <1>1, <2>1 DEF Same
  <2> QED BY <2>2, <2>3, <2>4
<1>4. PICK q \in Int : q = (q2 + c * q3 + q7 * h + q1) - (q4 + q5 + q6)
  OBVIOUS
<1>5. f = (((1 * ((al * h + d1 + d2) + k * q2) + c * ((rh * h + d3 + d4) + k * q3)) + mz + wv)
             + ((-(al + rh * c) + k * q7) * h + tx * t)) + k * q1
  BY <1>a, <1>2, <1>3
<1>6. g = (((d1 + c * d3 + mz) + k * q4) + ((d2 + c * d4 + wv) + k * q5) + tx * t) + k * q6
  BY <1>2, <1>3
<1>7. (((1 * ((al * h + d1 + d2) + k * q2) + c * ((rh * h + d3 + d4) + k * q3)) + mz + wv)
             + ((-(al + rh * c) + k * q7) * h + tx * t)) + k * q1
        = ((((d1 + c * d3 + mz) + k * q4) + ((d2 + c * d4 + wv) + k * q5) + tx * t) + k * q6)
            + k * ((q2 + c * q3 + q7 * h + q1) - (q4 + q5 + q6))
  OBVIOUS
<1>8. f = g + k * q
  BY <1>4, <1>5, <1>6, <1>7
<1> QED BY <1>1, <1>8 DEF Same

\* The commitments to the bits and to the blinding vectors.
SentBits ==
    /\ alpha \in Int /\ rho \in Int
    /\ proof.A = ECP_vec_mul(<<H>> \o GG \o HH, <<alpha>> \o AL \o AR)
    /\ proof.S = ECP_vec_mul(<<H>> \o GG \o HH, <<rho>> \o sL \o sR)

LEMMA SentBitsAre ==
    ASSUME Drawn, SentBits
    PROVE  /\ proof.A \in Point /\ proof.S \in Point
           /\ \A k \in 1..Dim :
                 /\ proof.A[k] \in Int /\ proof.S[k] \in Int /\ H[k] \in Int
                 /\ Same(proof.A[k], alpha * H[k] + Dot(VECTOR_LEN, AL, GG, k)
                                                  + Dot(VECTOR_LEN, AR, HH, k), Q)
                 /\ Same(proof.S[k], rho * H[k] + Dot(VECTOR_LEN, sL, GG, k)
                                                + Dot(VECTOR_LEN, sR, HH, k), Q)
<1>1. PICK n \in Nat, w1 \in Int, w2 \in Int : n = VECTOR_LEN /\ w1 = alpha /\ w2 = rho
  BY Lengths DEF SentBits
<1>2. PICK f1, f2 : f1 = proof.A /\ f2 = proof.S
  OBVIOUS
<1>3. H \in Point /\ GG \in [1..n -> Point] /\ HH \in [1..n -> Point]
  BY <1>1, GeneratorsArePoints
<1>4. AL \in [1..n -> Int] /\ sL \in [1..n -> Int] /\ sR \in [1..n -> Int]
  BY <1>1, BitsInt DEF AL, Drawn
<1>5. AR \in [1..n -> Int]
  <2>a. Ones \in [1..n -> Int]
    BY <1>1 DEF Ones
  <2>1. PICK al \in [1..n -> Int], o \in [1..n -> Int] : al = AL /\ o = Ones
    BY <1>4, <2>a
  <2>2. BN_vec_sub(al, o) \in [1..n -> Int]
    BY SubInt
  <2> QED BY <2>1, <2>2 DEF AR
<1>6. IsCommitment(f1, n, H, GG, HH, w1, AL, AR)
  BY <1>1, <1>2, <1>3, <1>4, <1>5 DEF IsCommitment, SentBits
<1>7. IsCommitment(f2, n, H, GG, HH, w2, sL, sR)
  BY <1>1, <1>2, <1>3, <1>4 DEF IsCommitment, SentBits
<1>8. /\ f1 \in Point
      /\ \A k \in 1..Dim :
            /\ H[k] \in Int /\ f1[k] \in Int
            /\ Same(f1[k], w1 * H[k] + Dot(n, AL, GG, k) + Dot(n, AR, HH, k), Q)
  BY <1>6, CommitmentIs
<1>9. /\ f2 \in Point
      /\ \A k \in 1..Dim :
            /\ f2[k] \in Int
            /\ Same(f2[k], w2 * H[k] + Dot(n, sL, GG, k) + Dot(n, sR, HH, k), Q)
  BY <1>7, CommitmentIs
<1> QED BY <1>1, <1>2, <1>8, <1>9

\* With the proof's mu as it was sent the verifier arrives at the instance
\* the prover's inner product argument starts from.
LEMMA SameInstance ==
    ASSUME Drawn, SentBits, x \in Challenges, NEW uu \in Point,
           proof.tx = BN_vec_inner_product(LLAt(x), RRAt(x)),
           proof.mu = (alpha + rho * x) % Q
    PROVE  VerifierP(uu) = Commitment(GG, NewH(y), uu, LLAt(x), RRAt(x))
<1>1. PICK n \in Nat : n = VECTOR_LEN
  BY Lengths
<1>2. PICK c \in Int, al \in Int, rh \in Int : c = x /\ al = alpha /\ rh = rho
  BY InverseUnit DEF SentBits
<1>3. PICK mu \in Int : mu = VerifierMu /\ Same(mu, -(al + rh * c), Q)
  <2>1. Q \in Nat \ {0}
    BY FieldAssumption
  <2>2. PICK d \in Int, m \in Int, w \in Int :
          d = al + rh * c /\ m = proof.mu /\ Same(m, d, Q) /\ w = -m
    <3>1. PICK d \in Int : d = al + rh * c
      OBVIOUS
    <3>2. proof.mu = d % Q
      BY <1>2, <3>1
    <3>3. PICK m \in Int : m = proof.mu /\ Same(m, d, Q)
      BY <3>2, SameQ
    <3>4. -m \in Int
      OBVIOUS
    <3> QED BY <3>1, <3>3, <3>4
  <2>3. Same(0 - m, 0 - d, Q)
    BY <2>1, <2>2, SameSelf, SameSum
  <2>4. PICK wd \in Int : wd = -d /\ Same(w, wd, Q)
    <3>1. -m = 0 - m /\ -d = 0 - d /\ -d \in Int
      OBVIOUS
    <3> QED BY <2>2, <2>3, <3>1
  <2>5. PICK vm \in Int : vm = VerifierMu /\ Same(vm, w, Q)
    <3>1. VerifierMu = w % Q
      BY <2>2 DEF VerifierMu
    <3> QED BY <3>1, SameQ
  <2>6. Same(vm, wd, Q)
    BY <2>1, <2>4, <2>5, SameTrans
  <2> QED BY <2>2, <2>4, <2>5, <2>6
<1>4. PICK tx \in Int : tx = proof.tx
  BY TxIs
<1>5. PICK pA \in Point, pS \in Point, h \in Point, ng \in [1..n -> Point],
           nh \in [1..n -> Point] :
        pA = proof.A /\ pS = proof.S /\ h = H /\ ng = GG /\ nh = NewH(y)
  BY <1>1, SentBitsAre, GeneratorsArePoints, NewHPoints DEF Drawn
<1>6. PICK mv \in [1..n -> Int], yv \in [1..n -> Int], ll \in [1..n -> Int],
           rr \in [1..n -> Int] :
        mv = MinusZ /\ yv = YZTwos /\ ll = LLAt(x) /\ rr = RRAt(x)
  BY <1>1, MovesG, MovesH DEF Moves
<1>7. PICK f : f = VerifierP(uu)
  OBVIOUS
<1>8. IsSides(f, n, pA, pS, ng, nh, h, uu, c, mv, yv, mu, tx)
  <2>1. f = ECP_vec_mul(<<pA, pS>> \o ng \o nh \o <<h, uu>>,
                        <<1, c>> \o mv \o yv \o <<mu, tx>>)
    BY <1>2, <1>3, <1>4, <1>5, <1>6, <1>7 DEF VerifierP, MinusZ, YZTwos, YPowers
  <2> QED BY <2>1 DEF IsSides
<1>9. /\ f \in Point
      /\ \A k \in 1..Dim :
            /\ f[k] \in 0..(Q - 1) /\ f[k] \in Int
            /\ Same(f[k], ((1 * pA[k] + c * pS[k]) + Dot(n, mv, ng, k) + Dot(n, yv, nh, k))
                            + (mu * h[k] + tx * uu[k]), Q)
  BY <1>8, SidesAre
<1>10. PICK g : g = Commitment(ng, nh, uu, ll, rr)
  OBVIOUS
<1>11. IsInstance(g, n, ng, nh, uu, ll, rr, tx)
  <2>1. BN_vec_inner_product(ll, rr) = tx
    BY <1>4, <1>6
  <2> QED BY <1>10, <2>1 DEF IsInstance, Commitment
<1>12. /\ g \in Point
       /\ \A k \in 1..Dim :
             /\ g[k] \in 0..(Q - 1)
             /\ Same(g[k], Dot(n, ll, ng, k) + Dot(n, rr, nh, k) + tx * uu[k], Q)
  BY <1>11, MulInstance
<1>13. ASSUME NEW k \in 1..Dim PROVE Same(f[k], g[k], Q)
  <2>1. PICK d1 \in Int, d3 \in Int, mz \in Int, lk \in Int :
          /\ d1 = Dot(n, AL, GG, k) /\ d3 = Dot(n, sL, GG, k) /\ mz = Dot(n, mv, ng, k)
          /\ lk = Dot(n, ll, ng, k) /\ Same(lk, d1 + c * d3 + mz, Q)
    <3>1. Moves(n, ll, ng, AL, sL, mv, Ones, GG, c)
      BY <1>1, <1>2, <1>5, <1>6, MovesG
    <3> QED BY <1>5, <3>1, DotMoved
  <2>2. PICK d2 \in Int, d4 \in Int, wv \in Int, rk \in Int :
          /\ d2 = Dot(n, AR, HH, k) /\ d4 = Dot(n, sR, HH, k) /\ wv = Dot(n, yv, nh, k)
          /\ rk = Dot(n, rr, nh, k) /\ Same(rk, d2 + c * d4 + wv, Q)
    <3>1. Moves(n, rr, nh, AR, sR, yv, YPowers, HH, c)
      BY <1>1, <1>2, <1>5, <1>6, MovesH
    <3> QED BY <1>5, <3>1, DotMoved
  <2>3. PICK a \in Int, s \in Int, hk \in Int :
          /\ a = pA[k] /\ s = pS[k] /\ hk = h[k]
          /\ Same(a, al * hk + d1 + d2, Q) /\ Same(s, rh * hk + d3 + d4, Q)
    BY <1>1, <1>2, <1>5, <2>1, <2>2, SentBitsAre
  <2>4. PICK fk \in Int, gk \in Int, t \in Int : fk = f[k] /\ gk = g[k] /\ t = uu[k]
    <3>1. f[k] \in Int /\ g[k] \in Int /\ uu[k] \in Int
      BY <1>9, <1>12 DEF Point
    <3> QED BY <3>1
  <2>5. Same(fk, ((1 * a + c * s) + mz + wv) + (mu * hk + tx * t), Q)
    BY <1>9, <2>1, <2>2, <2>3, <2>4
  <2>6. Same(gk, lk + rk + tx * t, Q)
    BY <1>12, <2>1, <2>2, <2>4
  <2>7. InstanceNumbers(fk, gk, a, s, lk, rk, mu, al, rh, c, hk, t, tx, d1, d2, d3, d4, mz, wv)
    BY <1>3, <2>1, <2>2, <2>3, <2>5, <2>6 DEF InstanceNumbers
  <2>8. Same(fk, gk, Q)
    BY <2>7, InstancesSame
  <2> QED BY <2>4, <2>8
<1>14. f = g
  BY <1>9, <1>12, <1>13, PointsEqual
<1> QED BY <1>5, <1>6, <1>7, <1>10, <1>14

-----------------------------------------------------------------------------
(* The rounds as the verifier sees them: the last instance from the first  *)
(* one and the points of the proof.                                        *)

\* One more point with its scalar.
IsAppended(a1, A1, a, A, c, p, t, m) ==
    /\ m = t + 1 /\ a1 \in [1..m -> Int] /\ A1 \in [1..m -> Point]
    /\ a \in [1..t -> Int] /\ A \in [1..t -> Point]
    /\ \A i \in 1..t : a1[i] = a[i] /\ A1[i] = A[i]
    /\ a1[m] = c /\ A1[m] = p

LEMMA DotAppend ==
    ASSUME NEW t \in Nat, NEW m \in Nat, NEW a1, NEW A1, NEW a, NEW A, NEW c \in Int,
           NEW p \in Point, IsAppended(a1, A1, a, A, c, p, t, m)
    PROVE  \A k \in 1..Dim : /\ Dot(m, a1, A1, k) = Dot(t, a, A, k) + c * p[k]
                             /\ Dot(t, a, A, k) \in Int /\ Dot(m, a1, A1, k) \in Int
<1>1. /\ m = t + 1 /\ a1 \in [1..m -> Int] /\ A1 \in [1..m -> Point]
      /\ a \in [1..t -> Int] /\ A \in [1..t -> Point]
      /\ \A i \in 1..t : a1[i] = a[i] /\ A1[i] = A[i]
      /\ a1[m] = c /\ A1[m] = p
  BY DEF IsAppended
<1> SUFFICES ASSUME NEW k \in 1..Dim
             PROVE  /\ Dot(m, a1, A1, k) = Dot(t, a, A, k) + c * p[k]
                    /\ Dot(t, a, A, k) \in Int /\ Dot(m, a1, A1, k) \in Int
  OBVIOUS
<1>2. PICK b1 \in [1..m -> Int] : b1 = Column(A1, k) /\ \A i \in 1..m : b1[i] = A1[i][k]
  BY <1>1, ColumnInt
<1>3. PICK b \in [1..t -> Int] : b = Column(A, k) /\ \A i \in 1..t : b[i] = A[i][k]
  BY <1>1, ColumnInt
<1>4. PICK f1, f : f1 = Products(a1, b1) /\ f = Products(a, b)
  OBVIOUS
<1>5. \A i \in 1..m : f1[i] = a1[i] * b1[i]
  BY <1>1, <1>4, ProductsInt
<1>6. \A i \in 1..t : f[i] = a[i] * b[i]
  BY <1>1, <1>4, ProductsInt
<1>7. \A i \in 1..t : f1[i] = f[i]
  <2> SUFFICES ASSUME NEW i \in 1..t PROVE f1[i] = f[i]
    OBVIOUS
  <2>a. i \in 1..m
    BY <1>1
  <2>b. a1[i] = a[i] /\ A1[i] = A[i]
    BY <1>1
  <2>1. i \in 1..m /\ a1[i] = a[i] /\ b1[i] = b[i]
    BY <1>2, <1>3, <2>a, <2>b
  <2> QED BY <1>5, <1>6, <2>1
<1>8. f1[t + 1] = c * p[k]
  <2>1. m \in 1..m
    BY <1>1
  <2> QED BY <1>1, <1>2, <1>5, <2>1
<1>9. SumTo(t, f1) = SumTo(t, f)
  BY <1>7, SumEqual
<1>10. SumTo(m, f1) = SumTo(t, f) + c * p[k]
  BY <1>1, <1>8, <1>9, SumStep
<1> QED BY <1>1, <1>2, <1>3, <1>4, <1>10, DotInt DEF Dot

\* The square of a challenge and its inverse.
LEMMA SquareInverse ==
    ASSUME NEW c \in Challenges, NEW o \in Int, o = Inverse(c)
    PROVE  /\ (c * c) % Q \in Int /\ Inverse((c * c) % Q) \in Int /\ (c * c) % Q \in Units
           /\ Same((c * c) % Q, c * c, Q) /\ Same(Inverse((c * c) % Q), o * o, Q)
<1>1. c \in Units /\ c \in Int /\ Same(c * o, 1, Q)
  BY InverseUnit, FieldAssumption DEF Units
<1>2. Q \in Nat \ {0}
  BY FieldAssumption
<1>3. PICK cc \in Int, oo \in Int, s \in Int :
        cc = c * c /\ oo = o * o /\ s = (c * c) % Q
  <2>1. c * c \in Int /\ o * o \in Int
    BY <1>1
  <2> QED BY <2>1, SameQ
<1>4. s \in Units /\ s \in Int /\ Same(s, cc, Q)
  <2>1. s \in Units
    BY <1>1, <1>3, UnitProduct
  <2> QED BY <1>3, <2>1, SameQ
<1>5. PICK i \in Int : i = Inverse(s) /\ Same(s * i, 1, Q)
  BY <1>4, UnitInverse
<1>6. Same(i, oo, Q)
  <2>1. PICK si \in Int, co \in Int, ci \in Int : si = s * i /\ co = c * o /\ ci = cc * i
    BY <1>1, <1>4
  <2>2. Same(cc, s, Q)
    BY <1>2, <1>4, SameReverse
  <2>3. Same(cc * i, s * i, Q)
    BY <1>2, <1>4, <2>2, SameProduct
  <2>4. Same(ci, 1, Q)
    BY <1>2, <1>5, <2>1, <2>3, SameTrans
  <2>5. Same(ci * oo, oo, Q)
    BY <1>2, <2>4, SameUnit
  <2>6. PICK l \in Int, m \in Int, n \in Int : l = ci * oo /\ m = co * co /\ n = m * i
    OBVIOUS
  <2>7. Same(m, 1, Q)
    <3>1. Same(co * co, 1 * 1, Q)
      BY <1>1, <1>2, <2>1, SameProducts
    <3> QED BY <2>6, <3>1
  <2>8. Same(m * i, i, Q)
    BY <1>2, <2>6, <2>7, SameUnit
  <2>9. l = n
    <3>1. l = ((c * c) * i) * (o * o) /\ n = ((c * o) * (c * o)) * i
      BY <1>3, <2>1, <2>6
    <3>2. ((c * c) * i) * (o * o) = ((c * o) * (c * o)) * i
      BY <1>1
    <3> QED BY <3>1, <3>2
  <2>10. Same(n, i, Q) /\ Same(n, oo, Q)
    BY <2>5, <2>6, <2>8, <2>9
  <2> QED BY <1>2, <2>10, SameReverse, SameTrans
<1> QED BY <1>3, <1>4, <1>5, <1>6

Squares(xs) == [i \in 1..Len(xs) |-> (xs[i] * xs[i]) % Q]
InverseSquares(xs) == BN_vec_inverse(Squares(xs))

LEMMA SquaresAre ==
    ASSUME NEW t \in Nat, NEW xs \in [1..t -> Challenges]
    PROVE  /\ Squares(xs) \in [1..t -> Int] /\ InverseSquares(xs) \in [1..t -> Int]
           /\ \A i \in 1..t : /\ Squares(xs)[i] = (xs[i] * xs[i]) % Q
                              /\ InverseSquares(xs)[i] = Inverse((xs[i] * xs[i]) % Q)
<1>1. Len(xs) = t
  BY Vector
<1>2. ASSUME NEW i \in 1..t
      PROVE  (xs[i] * xs[i]) % Q \in Int /\ Inverse((xs[i] * xs[i]) % Q) \in Int
  <2>1. PICK c \in Challenges : c = xs[i]
    OBVIOUS
  <2>2. PICK o \in Int : o = Inverse(c)
    BY InverseUnit
  <2> QED BY <2>1, <2>2, SquareInverse
<1>3. PICK s : s = Squares(xs)
  OBVIOUS
<1>4. s = [i \in 1..t |-> (xs[i] * xs[i]) % Q]
  BY <1>1, <1>3 DEF Squares
<1>5. s \in [1..t -> Int]
  BY <1>2, <1>4
<1>6. Len(s) = t
  BY <1>5, Vector
<1>7. InverseSquares(xs) = [i \in 1..t |-> Inverse(s[i])]
  BY <1>3, <1>6 DEF InverseSquares, BN_vec_inverse
<1> QED BY <1>2, <1>3, <1>4, <1>5, <1>7

\* p is what the rounds make of q.
Traced(p, q, L, R, xs, t) ==
    /\ p \in Point /\ q \in Point
    /\ L \in [1..t -> Point] /\ R \in [1..t -> Point] /\ xs \in [1..t -> Challenges]
    /\ \A k \in 1..Dim :
          Same(p[k], q[k] + Dot(t, Squares(xs), L, k) + Dot(t, InverseSquares(xs), R, k), Q)

LEMMA TraceStart ==
    ASSUME NEW p \in Point
    PROVE  Traced(p, p, <<>>, <<>>, <<>>, 0)
<1>1. <<>> \in [1..0 -> Point] /\ <<>> \in [1..0 -> Challenges]
  OBVIOUS
<1>2. ASSUME NEW k \in 1..Dim
      PROVE  Same(p[k], p[k] + Dot(0, Squares(<<>>), <<>>, k)
                             + Dot(0, InverseSquares(<<>>), <<>>, k), Q)
  <2>1. PICK a \in Int : a = p[k]
    BY DEF Point
  <2>2. /\ Dot(0, Squares(<<>>), <<>>, k) = 0
        /\ Dot(0, InverseSquares(<<>>), <<>>, k) = 0
    BY SumStep DEF Dot
  <2>3. a + 0 + 0 = a
    OBVIOUS
  <2>4. Same(a, a, Q)
    BY SameSelf, FieldAssumption
  <2> QED BY <2>1, <2>2, <2>3, <2>4
<1> QED BY <1>1, <1>2 DEF Traced

TraceNext(p1, L1, R1, ys, p, L, R, xs, l, rr, c, o, m, t) ==
    /\ m = t + 1 /\ c \in Challenges /\ o = Inverse(c) /\ l \in Point /\ rr \in Point
    /\ L1 = Append(L, l) /\ R1 = Append(R, rr) /\ ys = Append(xs, c)
    /\ p1 = ECP_vec_mul(<<l, p, rr>>, <<c * c, 1, o * o>>)

\* s1 of m elements is s and then b.
Extended(s1, s, b, t, m, S) ==
    m = t + 1 /\ s1 = Append(s, b) /\ s \in [1..t -> S] /\ b \in S

LEMMA Extend ==
    ASSUME NEW t \in Nat, NEW m \in Nat, NEW S, NEW s1, NEW s, NEW b,
           Extended(s1, s, b, t, m, S)
    PROVE  s1 \in [1..m -> S] /\ s1[m] = b /\ \A i \in 1..t : s1[i] = s[i]
<1>0. m = t + 1 /\ s1 = Append(s, b) /\ s \in [1..t -> S] /\ b \in S
  BY DEF Extended
<1>1. s \in Seq(S) /\ Len(s) = t
  BY <1>0, Vector
<1>2. /\ s1 \in Seq(S) /\ Len(s1) = m
      /\ s1[m] = b /\ \A i \in 1..t : s1[i] = s[i]
  BY <1>0, <1>1
<1>3. s1 \in [1..m -> S]
  BY <1>2, Elements
<1> QED BY <1>2, <1>3

LEMMA TraceStep ==
    ASSUME NEW t \in Nat, NEW m \in Nat, NEW p1, NEW L1, NEW R1, NEW ys, NEW p, NEW q,
           NEW L, NEW R, NEW xs, NEW l, NEW rr, NEW c, NEW o, Traced(p, q, L, R, xs, t),
           TraceNext(p1, L1, R1, ys, p, L, R, xs, l, rr, c, o, m, t)
    PROVE  Traced(p1, q, L1, R1, ys, m)
<1>1. /\ m = t + 1 /\ c \in Challenges /\ o = Inverse(c) /\ l \in Point /\ rr \in Point
      /\ L1 = Append(L, l) /\ R1 = Append(R, rr) /\ ys = Append(xs, c)
      /\ p1 = ECP_vec_mul(<<l, p, rr>>, <<c * c, 1, o * o>>)
  BY DEF TraceNext
<1>2. /\ p \in Point /\ q \in Point
      /\ L \in [1..t -> Point] /\ R \in [1..t -> Point] /\ xs \in [1..t -> Challenges]
      /\ \A k \in 1..Dim :
            Same(p[k], q[k] + Dot(t, Squares(xs), L, k) + Dot(t, InverseSquares(xs), R, k), Q)
  BY DEF Traced
<1>3. c \in Int /\ o \in Int
  BY <1>1, InverseUnit
<1>4. PICK s \in Int, i \in Int : /\ s = (c * c) % Q /\ i = Inverse((c * c) % Q)
                                  /\ Same(s, c * c, Q) /\ Same(i, o * o, Q)
  BY <1>1, <1>3, SquareInverse
<1>5. /\ L1 \in [1..m -> Point] /\ L1[m] = l /\ \A j \in 1..t : L1[j] = L[j]
      /\ R1 \in [1..m -> Point] /\ R1[m] = rr /\ \A j \in 1..t : R1[j] = R[j]
      /\ ys \in [1..m -> Challenges] /\ ys[m] = c /\ \A j \in 1..t : ys[j] = xs[j]
  <2>1. /\ Extended(L1, L, l, t, m, Point) /\ Extended(R1, R, rr, t, m, Point)
        /\ Extended(ys, xs, c, t, m, Challenges)
    BY <1>1, <1>2 DEF Extended
  <2>2. /\ L1 \in [1..m -> Point] /\ L1[m] = l /\ \A j \in 1..t : L1[j] = L[j]
    BY <2>1, Extend
  <2>3. /\ R1 \in [1..m -> Point] /\ R1[m] = rr /\ \A j \in 1..t : R1[j] = R[j]
    BY <2>1, Extend
  <2>4. /\ ys \in [1..m -> Challenges] /\ ys[m] = c /\ \A j \in 1..t : ys[j] = xs[j]
    BY <2>1, Extend
  <2> QED BY <2>2, <2>3, <2>4
<1>6. m \in 1..m /\ \A j \in 1..t : j \in 1..m
  BY <1>1
<1>7. PICK a1 \in [1..m -> Int], b1 \in [1..m -> Int] :
        /\ a1 = Squares(ys) /\ b1 = InverseSquares(ys)
        /\ \A j \in 1..m : /\ a1[j] = (ys[j] * ys[j]) % Q
                           /\ b1[j] = Inverse((ys[j] * ys[j]) % Q)
  BY <1>5, SquaresAre
<1>8. PICK a \in [1..t -> Int], b \in [1..t -> Int] :
        /\ a = Squares(xs) /\ b = InverseSquares(xs)
        /\ \A j \in 1..t : /\ a[j] = (xs[j] * xs[j]) % Q
                           /\ b[j] = Inverse((xs[j] * xs[j]) % Q)
  BY <1>2, SquaresAre
<1>9. IsAppended(a1, L1, a, L, s, l, t, m)
  <2>1. \A j \in 1..t : a1[j] = a[j]
    BY <1>5, <1>6, <1>7, <1>8
  <2>2. a1[m] = s
    BY <1>4, <1>5, <1>6, <1>7
  <2> QED BY <1>1, <1>2, <1>5, <2>1, <2>2 DEF IsAppended
<1>10. IsAppended(b1, R1, b, R, i, rr, t, m)
  <2>1. \A j \in 1..t : b1[j] = b[j]
    BY <1>5, <1>6, <1>7, <1>8
  <2>2. b1[m] = i
    BY <1>4, <1>5, <1>6, <1>7
  <2> QED BY <1>1, <1>2, <1>5, <2>1, <2>2 DEF IsAppended
<1>11. PICK cc \in Int, oo \in Int : cc = c * c /\ oo = o * o /\ Same(s, cc, Q) /\ Same(i, oo, Q)
  <2>1. c * c \in Int /\ o * o \in Int
    BY <1>3
  <2> QED BY <1>4, <2>1
<1>12. /\ p1 \in Point
       /\ \A k \in 1..Dim : Same(p1[k], cc * l[k] + 1 * p[k] + oo * rr[k], Q)
  <2>1. PICK w1 \in Int : w1 = 1
    OBVIOUS
  <2>2. IsSumOfThree(p1, l, p, rr, cc, w1, oo)
    BY <1>1, <1>2, <1>11, <2>1 DEF IsSumOfThree
  <2>3. /\ p1 \in Point
        /\ \A k \in 1..Dim : Same(p1[k], cc * l[k] + w1 * p[k] + oo * rr[k], Q)
    BY <2>2, MulThree
  <2> QED BY <2>1, <2>3
<1>13. ASSUME NEW k \in 1..Dim
       PROVE  Same(p1[k], q[k] + Dot(m, a1, L1, k) + Dot(m, b1, R1, k), Q)
  <2>1. PICK D1 \in Int, d1 \in Int, D2 \in Int, d2 \in Int :
          /\ D1 = Dot(m, a1, L1, k) /\ d1 = Dot(t, a, L, k) /\ D1 = d1 + s * l[k]
          /\ D2 = Dot(m, b1, R1, k) /\ d2 = Dot(t, b, R, k) /\ D2 = d2 + i * rr[k]
    <3>1. /\ Dot(m, a1, L1, k) \in Int /\ Dot(t, a, L, k) \in Int
          /\ Dot(m, a1, L1, k) = Dot(t, a, L, k) + s * l[k]
      BY <1>1, <1>9, DotAppend
    <3>2. /\ Dot(m, b1, R1, k) \in Int /\ Dot(t, b, R, k) \in Int
          /\ Dot(m, b1, R1, k) = Dot(t, b, R, k) + i * rr[k]
      BY <1>1, <1>10, DotAppend
    <3> QED BY <3>1, <3>2
  <2>2. PICK pk \in Int, qk \in Int, nk \in Int, lk \in Int, rk \in Int :
          pk = p[k] /\ qk = q[k] /\ nk = p1[k] /\ lk = l[k] /\ rk = rr[k]
    BY <1>1, <1>2, <1>12 DEF Point
  <2>3. Same(pk, qk + d1 + d2, Q) /\ Same(nk, cc * lk + 1 * pk + oo * rk, Q)
    BY <1>2, <1>8, <1>12, <2>1, <2>2
  <2>4. PICK n \in Int : n = Q
    BY FieldAssumption
  <2>5. PICK q1 \in Int, q2 \in Int, q3 \in Int, q4 \in Int :
          /\ pk = (qk + d1 + d2) + n * q1 /\ nk = (cc * lk + 1 * pk + oo * rk) + n * q2
          /\ s = cc + n * q3 /\ i = oo + n * q4
    <3>1. PICK q1 \in Int : pk = (qk + d1 + d2) + n * q1
      BY <2>3, <2>4 DEF Same
    <3>2. PICK q2 \in Int : nk = (cc * lk + 1 * pk + oo * rk) + n * q2
      BY <2>3, <2>4 DEF Same
    <3>3. PICK q3 \in Int, q4 \in Int : s = cc + n * q3 /\ i = oo + n * q4
      BY <1>11, <2>4 DEF Same
    <3> QED BY <3>1, <3>2, <3>3
  <2>6. PICK w \in Int : w = (q1 + q2) - (q3 * lk + q4 * rk)
    OBVIOUS
  <2>7. nk = (qk + D1 + D2) + n * w
    <3>1. nk = (cc * lk + 1 * ((qk + d1 + d2) + n * q1) + oo * rk) + n * q2
      BY <2>5
    <3>2. D1 = d1 + (cc + n * q3) * lk /\ D2 = d2 + (oo + n * q4) * rk
      BY <2>1, <2>2, <2>5
    <3>3. (cc * lk + 1 * ((qk + d1 + d2) + n * q1) + oo * rk) + n * q2
            = (qk + (d1 + (cc + n * q3) * lk) + (d2 + (oo + n * q4) * rk))
                + n * ((q1 + q2) - (q3 * lk + q4 * rk))
      OBVIOUS
    <3> QED BY <2>6, <3>1, <3>2, <3>3
  <2> QED BY <2>1, <2>2, <2>4, <2>7 DEF Same
<1> QED BY <1>2, <1>5, <1>7, <1>12, <1>13 DEF Traced

\* A vector times a scalar.
LEMMA DotScaled ==
    ASSUME NEW n \in Nat, NEW s \in [1..n -> Int], NEW A \in [1..n -> Point], NEW c \in Int
    PROVE  /\ BN_vec_scalar(s, c) \in [1..n -> Int]
           /\ \A k \in 1..Dim :
                 /\ Dot(n, s, A, k) \in Int /\ Dot(n, BN_vec_scalar(s, c), A, k) \in Int
                 /\ Same(Dot(n, BN_vec_scalar(s, c), A, k), c * Dot(n, s, A, k), Q)
<1>1. PICK d \in [1..n -> Int] : /\ d = BN_vec_scalar(s, c)
                                 /\ \A i \in 1..n : Same(d[i], s[i] * c, Q)
  BY ScalarInt, VectorsAre
<1>2. Q \in Nat \ {0}
  BY FieldAssumption
<1>3. ASSUME NEW k \in 1..Dim
      PROVE  Same(Dot(n, d, A, k), c * Dot(n, s, A, k), Q)
  <2>1. PICK b \in [1..n -> Int] : b = Column(A, k)
    BY ColumnInt
  <2>2. PICK f, g : f = Products(d, b) /\ g = Products(s, b)
    OBVIOUS
  <2>3. PICK h : h = [i \in 1..n |-> c * g[i]]
    OBVIOUS
  <2>4. \A i \in 1..n : /\ f[i] = d[i] * b[i] /\ f[i] \in Int
                        /\ g[i] = s[i] * b[i] /\ g[i] \in Int
    BY <2>2, ProductsInt
  <2>5. ASSUME NEW i \in 1..n PROVE f[i] \in Int /\ h[i] \in Int /\ Same(f[i], h[i], Q)
    <3>1. PICK di \in Int, bi \in Int, si \in Int : di = d[i] /\ bi = b[i] /\ si = s[i]
      OBVIOUS
    <3>2. PICK sc \in Int : sc = si * c /\ Same(di, sc, Q)
      BY <1>1, <3>1
    <3>3. Same(di * bi, sc * bi, Q)
      BY <1>2, <3>2, SameProduct
    <3>4. h[i] = c * (si * bi) /\ f[i] = di * bi
      BY <2>3, <2>4, <3>1
    <3>5. sc * bi = c * (si * bi) /\ c * (si * bi) \in Int
      BY <3>2
    <3> QED BY <2>4, <3>3, <3>4, <3>5
  <2>6. Same(SumTo(n, f), SumTo(n, h), Q)
    BY <1>2, <2>5, SumSame
  <2>7. SumTo(n, h) = c * SumTo(n, g)
    <3>1. \A i \in 1..n : h[i] = c * g[i]
      BY <2>3
    <3>2. \A i \in 1..n : g[i] \in Int
      BY <2>4
    <3>3. \A i \in 1..n : g[i] \in Int /\ h[i] = c * g[i]
      BY <3>1, <3>2
    <3>4. PICK o \in Int : o = 0
      OBVIOUS
    <3>5. Combines(n, h, c, g, o, g)
      <4>1. ASSUME NEW i \in 1..n PROVE h[i] = c * g[i] + o * g[i] /\ g[i] \in Int
        <5>1. PICK gi \in Int : gi = g[i] /\ h[i] = c * gi
          BY <3>3
        <5> QED BY <3>4, <5>1
      <4> QED BY <4>1 DEF Combines
    <3>6. SumTo(n, h) = c * SumTo(n, g) + o * SumTo(n, g)
      BY <3>5, SumCombine
    <3>7. SumTo(n, g) \in Int
      BY <2>4, SumInt
    <3> QED BY <3>4, <3>6, <3>7
  <2> QED BY <2>1, <2>2, <2>6, <2>7 DEF Dot
<1> QED BY <1>1, <1>3, DotInt

EndNumbers(left, right, p, q, a, b, m, ab, ip, g1, h1, S1, S2, T1, T2, t, D1, D2) ==
    /\ m = a * b
    /\ Same(left, T1 + T2 + ab * t, Q) /\ Same(T1, a * S1, Q) /\ Same(T2, b * S2, Q)
    /\ Same(p, a * g1 + b * h1 + ip * t, Q) /\ Same(g1, S1, Q) /\ Same(h1, S2, Q)
    /\ Same(ab, m, Q) /\ Same(ip, m, Q)
    /\ Same(p, q + D1 + D2, Q) /\ Same(right, 1 * q + D1 + D2, Q)

LEMMA EndsSame ==
    ASSUME NEW left \in Int, NEW right \in Int, NEW p \in Int, NEW q \in Int, NEW a \in Int,
           NEW b \in Int, NEW m \in Int, NEW ab \in Int, NEW ip \in Int, NEW g1 \in Int,
           NEW h1 \in Int, NEW S1 \in Int, NEW S2 \in Int, NEW T1 \in Int, NEW T2 \in Int,
           NEW t \in Int, NEW D1 \in Int, NEW D2 \in Int,
           EndNumbers(left, right, p, q, a, b, m, ab, ip, g1, h1, S1, S2, T1, T2, t, D1, D2)
    PROVE  Same(left, right, Q)
<1>1. PICK n \in Int : n = Q
  BY FieldAssumption
<1>2. /\ Same(left, T1 + T2 + ab * t, n) /\ Same(T1, a * S1, n) /\ Same(T2, b * S2, n)
      /\ Same(p, a * g1 + b * h1 + ip * t, n) /\ Same(g1, S1, n) /\ Same(h1, S2, n)
      /\ Same(ab, m, n) /\ Same(ip, m, n)
      /\ Same(p, q + D1 + D2, n) /\ Same(right, 1 * q + D1 + D2, n)
  BY <1>1 DEF EndNumbers
<1>3. PICK q1 \in Int : left = (T1 + T2 + ab * t) + n * q1
  BY <1>2 DEF Same
<1>4. PICK q2 \in Int, q3 \in Int : T1 = a * S1 + n * q2 /\ T2 = b * S2 + n * q3
  BY <1>2 DEF Same
<1>5. PICK q4 \in Int : p = (a * g1 + b * h1 + ip * t) + n * q4
  BY <1>2 DEF Same
<1>6. PICK q5 \in Int, q6 \in Int : g1 = S1 + n * q5 /\ h1 = S2 + n * q6
  BY <1>2 DEF Same
<1>7. PICK q7 \in Int, q8 \in Int : ab = m + n * q7 /\ ip = m + n * q8
  BY <1>2 DEF Same
<1>8. PICK q9 \in Int : p = (q + D1 + D2) + n * q9
  BY <1>2 DEF Same
<1>9. PICK q10 \in Int : right = (1 * q + D1 + D2) + n * q10
  BY <1>2 DEF Same
<1>10. PICK w \in Int, w1 \in Int :
         /\ w = (q1 + q2 + q3 + q7 * t) - (q8 * t + a * q5 + b * q6 + q4)
         /\ w1 = (w + q9) - q10
  OBVIOUS
<1>11. left = p + n * w
  <2>1. left = ((a * S1 + n * q2) + (b * S2 + n * q3) + (m + n * q7) * t) + n * q1
    BY <1>3, <1>4, <1>7
  <2>2. p = (a * (S1 + n * q5) + b * (S2 + n * q6) + (m + n * q8) * t) + n * q4
    BY <1>5, <1>6, <1>7
  <2>3. ((a * S1 + n * q2) + (b * S2 + n * q3) + (m + n * q7) * t) + n * q1
          = ((a * (S1 + n * q5) + b * (S2 + n * q6) + (m + n * q8) * t) + n * q4)
             + n * ((q1 + q2 + q3 + q7 * t) - (q8 * t + a * q5 + b * q6 + q4))
    OBVIOUS
  <2> QED BY <1>10, <2>1, <2>2, <2>3
<1>12. left = right + n * w1
  <2>1. left = ((q + D1 + D2) + n * q9) + n * w
    BY <1>8, <1>11
  <2>2. ((q + D1 + D2) + n * q9) + n * w
          = ((1 * q + D1 + D2) + n * q10) + n * ((w + q9) - q10)
    OBVIOUS
  <2> QED BY <1>9, <1>10, <2>1, <2>2
<1> QED BY <1>1, <1>12 DEF Same

\* The end of the rounds: one base of each kind, one scalar of each kind.
Ended(p, q, uu, L, R, xs, t, vg, vh, va, vb) ==
    /\ Traced(p, q, L, R, xs, t) /\ uu \in Point
    /\ GAt(vg, 1, xs) /\ HAt(vh, 1, xs, HPowers(y))
    /\ va \in [1..1 -> Int] /\ vb \in [1..1 -> Int]
    /\ p = Commitment(vg, vh, uu, va, vb)

\* The last instance in one coordinate.
LEMMA LastInstance ==
    ASSUME NEW t \in Nat, NEW p, NEW q, NEW uu, NEW L, NEW R, NEW xs,
           NEW vg, NEW vh, NEW va, NEW vb, Ended(p, q, uu, L, R, xs, t, vg, vh, va, vb)
    PROVE  /\ va[1] \in Int /\ vb[1] \in Int /\ vg[1] \in Point /\ vh[1] \in Point
           /\ p \in Point /\ uu \in Point
           /\ \E ip \in Int :
                 /\ Same(ip, va[1] * vb[1], Q)
                 /\ \A k \in 1..Dim :
                       Same(p[k], va[1] * vg[1][k] + vb[1] * vh[1][k] + ip * uu[k], Q)
<1>1. /\ vg \in [1..1 -> Point] /\ vh \in [1..1 -> Point] /\ uu \in Point
      /\ va \in [1..1 -> Int] /\ vb \in [1..1 -> Int]
      /\ p = Commitment(vg, vh, uu, va, vb)
  BY DEF Ended, GAt, HAt
<1>2. PICK n \in Nat : n = 1
  OBVIOUS
<1>3. 1 \in 1..n
  BY <1>2
<1>4. PICK g1 \in Point, h1 \in Point, a \in Int, b \in Int :
        g1 = vg[1] /\ h1 = vh[1] /\ a = va[1] /\ b = vb[1]
  BY <1>1, <1>2, <1>3
<1>5. PICK ip \in Int : /\ ip = BN_vec_inner_product(va, vb)
                        /\ Same(ip, SumTo(n, Products(va, vb)), Q)
  BY <1>1, <1>2, InnerProductIs
<1>6. SumTo(n, Products(va, vb)) = a * b
  <2>1. PICK f : f = Products(va, vb)
    OBVIOUS
  <2>2. f[1] = a * b /\ f[1] \in Int
    BY <1>1, <1>2, <1>3, <1>4, <2>1, ProductsInt
  <2>3. SumTo(1, f) = f[1]
    BY <2>2, SumSmall
  <2> QED BY <1>2, <2>1, <2>2, <2>3
<1>7. IsInstance(p, n, vg, vh, uu, va, vb, ip)
  BY <1>1, <1>2, <1>5 DEF IsInstance, Commitment
<1>8. /\ p \in Point
      /\ \A k \in 1..Dim :
            Same(p[k], Dot(n, va, vg, k) + Dot(n, vb, vh, k) + ip * uu[k], Q)
  BY <1>7, MulInstance
<1>9. ASSUME NEW k \in 1..Dim, NEW w, NEW A, NEW w1 \in Int, NEW A1 \in Point,
             w \in [1..n -> Int], A \in [1..n -> Point], w1 = w[1], A1 = A[1]
      PROVE  Dot(n, w, A, k) = w1 * A1[k]
  <2>1. PICK d \in [1..n -> Int] : d = Column(A, k) /\ d[1] = A[1][k]
    BY <1>3, <1>9, ColumnInt
  <2>2. PICK f : f = Products(w, d)
    OBVIOUS
  <2>3. f[1] = w[1] * d[1] /\ f[1] \in Int
    BY <1>3, <1>9, <2>2, ProductsInt
  <2>4. SumTo(1, f) = f[1]
    BY <2>3, SumSmall
  <2> QED BY <1>2, <1>9, <2>1, <2>2, <2>3, <2>4 DEF Dot
<1>10. \A k \in 1..Dim : /\ Dot(n, va, vg, k) = a * g1[k]
                         /\ Dot(n, vb, vh, k) = b * h1[k]
  <2> SUFFICES ASSUME NEW k \in 1..Dim
               PROVE  /\ Dot(n, va, vg, k) = a * g1[k]
                      /\ Dot(n, vb, vh, k) = b * h1[k]
    OBVIOUS
  <2>1. va \in [1..n -> Int] /\ vb \in [1..n -> Int]
        /\ vg \in [1..n -> Point] /\ vh \in [1..n -> Point]
    BY <1>1, <1>2
  <2>2. Dot(n, va, vg, k) = a * g1[k]
    BY <1>4, <1>9, <2>1
  <2>3. Dot(n, vb, vh, k) = b * h1[k]
    BY <1>4, <1>9, <2>1
  <2> QED BY <2>2, <2>3
<1> QED BY <1>1, <1>4, <1>5, <1>6, <1>8, <1>10

LEMMA VerifyHolds ==
    ASSUME y \in Challenges, NEW t \in Nat, NEW p, NEW q, NEW uu, NEW L, NEW R, NEW xs,
           NEW vg, NEW vh, NEW va, NEW vb, Ended(p, q, uu, L, R, xs, t, vg, vh, va, vb)
    PROVE  InnerProduct_Verify(GG, NewH(y), q, uu, xs, L, R, va[1], vb[1])
<1>1. PICK n \in Nat, nn \in Nat \ {0} : n = VECTOR_LEN /\ nn = n
  BY Lengths
<1>2. /\ p \in Point /\ q \in Point /\ uu \in Point
      /\ L \in [1..t -> Point] /\ R \in [1..t -> Point] /\ xs \in [1..t -> Challenges]
      /\ \A k \in 1..Dim :
            Same(p[k], q[k] + Dot(t, Squares(xs), L, k) + Dot(t, InverseSquares(xs), R, k), Q)
  BY DEF Ended, Traced
<1>3. PICK g1 \in Point, h1 \in Point, a \in Int, b \in Int, ip \in Int :
        /\ g1 = vg[1] /\ h1 = vh[1] /\ a = va[1] /\ b = vb[1]
        /\ Same(ip, a * b, Q)
        /\ \A k \in 1..Dim : Same(p[k], a * g1[k] + b * h1[k] + ip * uu[k], Q)
  <2>1. /\ va[1] \in Int /\ vb[1] \in Int /\ vg[1] \in Point /\ vh[1] \in Point
        /\ \E ip \in Int :
              /\ Same(ip, va[1] * vb[1], Q)
              /\ \A k \in 1..Dim :
                    Same(p[k], va[1] * vg[1][k] + vb[1] * vh[1][k] + ip * uu[k], Q)
    BY LastInstance
  <2>2. PICK g1 \in Point, h1 \in Point, a \in Int, b \in Int :
          g1 = vg[1] /\ h1 = vh[1] /\ a = va[1] /\ b = vb[1]
    BY <2>1
  <2>3. \E ip \in Int :
           /\ Same(ip, a * b, Q)
           /\ \A k \in 1..Dim : Same(p[k], a * g1[k] + b * h1[k] + ip * uu[k], Q)
    BY <2>1, <2>2
  <2> QED BY <2>2, <2>3
<1>4. PICK s \in [1..n -> Int], si \in [1..n -> Int] :
        s = compute_vec_ss(VECTOR_LEN, xs) /\ si = BN_vec_inverse(s)
  BY <1>1, <1>2, SignsAre
<1>5. PICK ng \in [1..n -> Point], nh \in [1..n -> Point] : ng = GG /\ nh = NewH(y)
  BY <1>1, GeneratorsArePoints, NewHPoints
<1>6. g1 = ECP_vec_mul(ng, s) /\ h1 = ECP_vec_mul(nh, si)
  <2>1. GAt(vg, 1, xs) /\ HAt(vh, 1, xs, HPowers(y))
    BY DEF Ended
  <2>2. vg[1] = ECP_vec_mul(GG, compute_vec_ss(VECTOR_LEN, xs))
    BY <1>2, <2>1, GEnd
  <2>3. vh[1] = ECP_vec_mul(NewH(y), BN_vec_inverse(compute_vec_ss(VECTOR_LEN, xs)))
    BY <1>2, <2>1, HEnd
  <2> QED BY <1>3, <1>4, <1>5, <2>2, <2>3
<1>7. \A k \in 1..Dim : /\ Same(g1[k], Dot(n, s, ng, k), Q)
                        /\ Same(h1[k], Dot(n, si, nh, k), Q)
  <2>1. Multiplies(g1, nn, ng, s) /\ Multiplies(h1, nn, nh, si)
    BY <1>1, <1>6 DEF Multiplies
  <2>2. \A k \in 1..Dim : Same(g1[k], Dot(nn, s, ng, k), Q)
    BY <2>1, MulDot
  <2>3. \A k \in 1..Dim : Same(h1[k], Dot(nn, si, nh, k), Q)
    BY <2>1, MulDot
  <2> QED BY <1>1, <2>2, <2>3
<1>8. PICK sa \in [1..n -> Int], sb \in [1..n -> Int], m \in Int, ab \in Int :
        /\ sa = BN_vec_scalar(s, a) /\ sb = BN_vec_scalar(si, b)
        /\ m = a * b /\ ab = m % Q /\ Same(ab, m, Q)
  <2>1. BN_vec_scalar(s, a) \in [1..n -> Int] /\ BN_vec_scalar(si, b) \in [1..n -> Int]
    BY ScalarInt
  <2>2. PICK m \in Int : m = a * b
    OBVIOUS
  <2> QED BY <2>1, <2>2, SameQ
<1>9. PICK left : left = ECP_vec_mul(ng \o nh \o <<uu>>, sa \o sb \o <<ab>>)
  OBVIOUS
<1>10. /\ left \in Point
       /\ \A k \in 1..Dim :
             /\ left[k] \in 0..(Q - 1)
             /\ Same(left[k], Dot(n, sa, ng, k) + Dot(n, sb, nh, k) + ab * uu[k], Q)
  <2>1. IsInstance(left, n, ng, nh, uu, sa, sb, ab)
    BY <1>2, <1>9 DEF IsInstance
  <2> QED BY <2>1, MulInstance
<1>11. PICK sq \in [1..t -> Int], iq \in [1..t -> Int] :
         sq = Squares(xs) /\ iq = InverseSquares(xs)
  BY <1>2, SquaresAre
<1>12. PICK right : right = ECP_vec_mul(<<q>> \o L \o R, <<1>> \o sq \o iq)
  OBVIOUS
<1>13. /\ right \in Point
       /\ \A k \in 1..Dim :
             /\ right[k] \in 0..(Q - 1)
             /\ Dot(t, sq, L, k) \in Int /\ Dot(t, iq, R, k) \in Int
             /\ Same(right[k], 1 * q[k] + Dot(t, sq, L, k) + Dot(t, iq, R, k), Q)
  <2>1. PICK o \in Int : o = 1
    OBVIOUS
  <2>2. IsCommitment(right, t, q, L, R, o, sq, iq)
    BY <1>2, <1>12, <2>1 DEF IsCommitment
  <2>3. /\ right \in Point
        /\ \A k \in 1..Dim :
              /\ right[k] \in 0..(Q - 1)
              /\ Dot(t, sq, L, k) \in Int /\ Dot(t, iq, R, k) \in Int
              /\ Same(right[k], o * q[k] + Dot(t, sq, L, k) + Dot(t, iq, R, k), Q)
    BY <2>2, CommitmentIs
  <2> QED BY <2>1, <2>3
<1>14. ASSUME NEW k \in 1..Dim PROVE Same(left[k], right[k], Q)
  <2>1. PICK lk \in Int, rk \in Int, pk \in Int, qk \in Int, gk \in Int, hk \in Int, tk \in Int :
          /\ lk = left[k] /\ rk = right[k] /\ pk = p[k] /\ qk = q[k]
          /\ gk = g1[k] /\ hk = h1[k] /\ tk = uu[k]
    BY <1>2, <1>10, <1>13 DEF Point
  <2>2. PICK S1 \in Int, T1 \in Int :
          S1 = Dot(n, s, ng, k) /\ T1 = Dot(n, sa, ng, k) /\ Same(T1, a * S1, Q)
    <3>1. /\ Dot(n, s, ng, k) \in Int /\ Dot(n, BN_vec_scalar(s, a), ng, k) \in Int
          /\ Same(Dot(n, BN_vec_scalar(s, a), ng, k), a * Dot(n, s, ng, k), Q)
      BY DotScaled
    <3> QED BY <1>8, <3>1
  <2>3. PICK S2 \in Int, T2 \in Int :
          S2 = Dot(n, si, nh, k) /\ T2 = Dot(n, sb, nh, k) /\ Same(T2, b * S2, Q)
    <3>1. /\ Dot(n, si, nh, k) \in Int /\ Dot(n, BN_vec_scalar(si, b), nh, k) \in Int
          /\ Same(Dot(n, BN_vec_scalar(si, b), nh, k), b * Dot(n, si, nh, k), Q)
      BY DotScaled
    <3> QED BY <1>8, <3>1
  <2>4. PICK D1 \in Int, D2 \in Int : D1 = Dot(t, sq, L, k) /\ D2 = Dot(t, iq, R, k)
    BY <1>13
  <2>5. Same(lk, T1 + T2 + ab * tk, Q) /\ Same(rk, 1 * qk + D1 + D2, Q)
    BY <1>10, <1>13, <2>1, <2>2, <2>3, <2>4
  <2>6. Same(pk, a * gk + b * hk + ip * tk, Q) /\ Same(pk, qk + D1 + D2, Q)
    BY <1>2, <1>3, <1>11, <2>1, <2>4
  <2>7. Same(gk, S1, Q) /\ Same(hk, S2, Q) /\ Same(ip, m, Q)
    BY <1>3, <1>7, <1>8, <2>1, <2>2, <2>3
  <2>8. EndNumbers(lk, rk, pk, qk, a, b, m, ab, ip, gk, hk, S1, S2, T1, T2, tk, D1, D2)
    BY <1>8, <2>2, <2>3, <2>5, <2>6, <2>7 DEF EndNumbers
  <2>9. Same(lk, rk, Q)
    BY <2>8, EndsSame
  <2> QED BY <2>1, <2>9
<1>15. left = right
  BY <1>10, <1>13, <1>14, PointsEqual
<1>16. Len(GG) = VECTOR_LEN
  BY <1>1, <1>5, Vector
<1> QED BY <1>3, <1>4, <1>5, <1>8, <1>9, <1>11, <1>12, <1>15, <1>16
        DEF InnerProduct_Verify, Squares, InverseSquares

-----------------------------------------------------------------------------
(* The invariant.                                                          *)

IsProof(pf) ==
    pf = [A |-> pf.A, S |-> pf.S, T1 |-> pf.T1, T2 |-> pf.T2,
          taux |-> pf.taux, mu |-> pf.mu, tx |-> pf.tx]

\* What the proof and the first instance hold once they are sent, mu aside.
Opening ==
    /\ Drawn /\ SentBits
    /\ \E tau1, tau2 \in Int : SentPolynomial(tau1, tau2)
    /\ u = ECP_vec_mul(<<U>>, <<e>>) /\ e \in Int
    /\ sent = Commitment(GG, NewH(y), u, LLAt(x), RRAt(x))

\* The value mu is sent with.
Mask == (alpha + rho * x) % Q

AcceptInv ==
    /\ BaseInv /\ IsProof(proof) /\ checks \in Nat
    /\ r \in [Agg -> Draws]
    /\ C = [i \in Agg |-> ECP_vec_mul(<<G, H>>, <<r[i], v[i]>>)]
    /\ phase # "verify" => checks = 0
    /\ phase # "start" => Drawn /\ SentBits
    /\ phase \in {"fold", "verify"} =>
          /\ Opening
          /\ \E t \in Nat : Traced(P, sent, vec_L, vec_R, vec_x, t)
          /\ proof.mu = IF checks % 2 = 0 THEN Mask ELSE (-Mask) % Q
    /\ Complete

LEMMA Negated ==
    ASSUME NEW m \in Int, m \in 0..(Q - 1)
    PROVE  (-((-m) % Q)) % Q = m
<1>1. Q \in Nat \ {0}
  BY FieldAssumption
<1>2. PICK d \in Int, f \in Int : d = -m /\ f = d % Q /\ Same(f, d, Q) /\ f \in 0..(Q - 1)
  <2>1. -m \in Int
    OBVIOUS
  <2> QED BY <2>1, SameQ
<1>3. PICK q \in Int, n \in Int : n = Q /\ f = d + n * q
  BY <1>1, <1>2 DEF Same
<1>4. -f = n * (-q) + m /\ -f \in Int /\ -q \in Int
  BY <1>2, <1>3
<1>5. PICK a \in Int, b \in Int : a = -f /\ b = -q /\ a = n * b + m
  BY <1>4
<1>6. a % n = m
  BY <1>1, <1>3, <1>5, DivUnique
<1> QED BY <1>2, <1>3, <1>5, <1>6

\* The verifier accepts what the prover sent.
LEMMA Accepts ==
    ASSUME AcceptInv, Bullet_Verify, checks % 2 = 0, InRange(v)
    PROVE  verdict' = "accept"
<1>1. phase = "verify"
  BY DEF Bullet_Verify
<1>2. /\ BaseInv /\ Opening /\ Drawn /\ SentBits /\ proof.mu = Mask
      /\ r \in [Agg -> Draws] /\ C = [i \in Agg |-> ECP_vec_mul(<<G, H>>, <<r[i], v[i]>>)]
  BY <1>1 DEF AcceptInv, Opening
<1>3. PICK tau1 \in Int, tau2 \in Int : SentPolynomial(tau1, tau2)
  BY <1>2 DEF Opening
<1>4. x \in Challenges /\ y \in Challenges
  BY <1>2, <1>3 DEF SentPolynomial, Drawn
<1>5. IsCommitted
  BY <1>2 DEF IsCommitted, Drawn
<1>6. PolynomialCheck
  BY <1>2, <1>3, <1>5, PolynomialHolds
<1>7. PICK n \in 1..VECTOR_LEN, t1 \in Nat : RoundsDone(n, t1)
  BY <1>1, <1>2 DEF BaseInv
<1>8. n = 1 /\ IsRound(1) /\ GAt(vec_g, 1, vec_x) /\ HAt(vec_h, 1, vec_x, HPowers(y))
  BY <1>1, <1>7 DEF RoundsDone
<1>9. /\ u \in Point /\ vec_a \in [1..1 -> Int] /\ vec_b \in [1..1 -> Int]
      /\ P = Commitment(vec_g, vec_h, u, vec_a, vec_b)
  BY <1>8 DEF IsRound
<1>10. PICK t \in Nat : Traced(P, sent, vec_L, vec_R, vec_x, t)
  BY <1>1 DEF AcceptInv
<1>11. Ended(P, sent, u, vec_L, vec_R, vec_x, t, vec_g, vec_h, vec_a, vec_b)
  BY <1>8, <1>9, <1>10 DEF Ended
<1>12. InnerProduct_Verify(GG, NewH(y), sent, u, vec_x, vec_L, vec_R, vec_a[1], vec_b[1])
  BY <1>4, <1>11, VerifyHolds
<1>13. VerifierP(u) = sent
  <2>1. proof.tx = BN_vec_inner_product(LLAt(x), RRAt(x))
    BY <1>3 DEF SentPolynomial
  <2>2. proof.mu = (alpha + rho * x) % Q
    BY <1>2 DEF Mask
  <2>3. VerifierP(u) = Commitment(GG, NewH(y), u, LLAt(x), RRAt(x))
    BY <1>2, <1>4, <1>9, <2>1, <2>2, SameInstance
  <2> QED BY <1>2, <2>3 DEF Opening
<1>14. u = ECP_vec_mul(<<U>>, <<e>>)
  BY <1>2 DEF Opening
<1> QED BY <1>6, <1>12, <1>13, <1>14 DEF Bullet_Verify

\* The rounds and the checks leave the opening alone.
LEMMA OpeningKept ==
    ASSUME Opening, UNCHANGED <<v, alpha, rho, sL, sR, y, z, x, e, r, sent, u>>,
           proof'.A = proof.A, proof'.S = proof.S, proof'.T1 = proof.T1,
           proof'.T2 = proof.T2, proof'.taux = proof.taux, proof'.tx = proof.tx
    PROVE  Opening' /\ Mask' = Mask /\ Drawn' /\ SentBits'
<1>1. /\ v' = v /\ alpha' = alpha /\ rho' = rho /\ sL' = sL /\ sR' = sR /\ y' = y
      /\ z' = z /\ x' = x /\ e' = e /\ r' = r /\ sent' = sent /\ u' = u
  OBVIOUS
<1>2. AL' = AL /\ AR' = AR
  BY <1>1 DEF AL, AR
<1>3. LL0' = LL0 /\ RR0' = RR0 /\ RR1' = RR1
  BY <1>1, <1>2 DEF LL0, RR0, RR1
<1>4. T1Coefficient' = T1Coefficient /\ T2Coefficient' = T2Coefficient
  BY <1>1, <1>3 DEF T1Coefficient, T2Coefficient
<1>5. LLAt(x)' = LLAt(x) /\ RRAt(x)' = RRAt(x)
  BY <1>1, <1>3 DEF LLAt, RRAt
<1>6. BlindPowers' = BlindPowers /\ Mask' = Mask
  BY <1>1 DEF BlindPowers, Mask
<1>7. Drawn' /\ SentBits'
  BY <1>1, <1>2 DEF Opening, Drawn, SentBits
<1>8. PICK tau1 \in Int, tau2 \in Int : SentPolynomial(tau1, tau2)
  BY DEF Opening
<1>9. SentPolynomial(tau1, tau2)'
  BY <1>1, <1>4, <1>5, <1>6, <1>8 DEF SentPolynomial
<1>10. /\ u' = ECP_vec_mul(<<U>>, <<e'>>) /\ e' \in Int
       /\ sent' = Commitment(GG, NewH(y'), u', LLAt(x)', RRAt(x)')
  BY <1>1, <1>5 DEF Opening
<1>11. Opening'
  BY <1>7, <1>9, <1>10 DEF Opening
<1> QED BY <1>6, <1>7, <1>11

LEMMA ChallengesInt == \A c \in Challenges : c \in Int
BY FieldAssumption

LEMMA AcceptInit == Init => AcceptInv
<1> SUFFICES ASSUME Init
             PROVE  AcceptInv
  OBVIOUS
<1>1. BaseInv
  BY BaseInit
<1>2. IsProof(proof)
  BY DEF Init, NoProof, IsProof
<1>3. /\ phase = "start" /\ checks = 0 /\ r \in [Agg -> Draws]
      /\ C = [i \in Agg |-> ECP_vec_mul(<<G, H>>, <<r[i], v[i]>>)]
  BY DEF Init
<1>4. Complete
  BY <1>3 DEF Complete
<1> QED BY <1>1, <1>2, <1>3, <1>4 DEF AcceptInv

\* What the witness and the commitments to it need.
LEMMA WitnessKept ==
    ASSUME AcceptInv, UNCHANGED <<v, r, C>>
    PROVE  /\ r' \in [Agg -> Draws]
           /\ C' = [i \in Agg |-> ECP_vec_mul(<<G, H>>, <<r'[i], v'[i]>>)]
<1>1. v' = v /\ r' = r /\ C' = C
  OBVIOUS
<1> QED BY <1>1 DEF AcceptInv

LEMMA AcceptCommitBits ==
    ASSUME AcceptInv, CommitBits
    PROVE  AcceptInv'
<1>1. BaseInv'
  BY BaseNext DEF AcceptInv, Next
<1>2. /\ phase = "start" /\ phase' = "polynomial" /\ checks' = checks /\ verdict' = verdict
      /\ v' = v /\ r' = r /\ C' = C
  BY DEF CommitBits
<1>3. PICK a \in Draws, p \in Draws, l \in Blinds, w \in Blinds,
           c \in Challenges, d \in Challenges :
        /\ alpha' = a /\ rho' = p /\ sL' = l /\ sR' = w /\ y' = c /\ z' = d
        /\ proof' = [proof EXCEPT
              !.A = ECP_vec_mul(<<H>> \o GG \o HH, <<a>> \o AL \o AR),
              !.S = ECP_vec_mul(<<H>> \o GG \o HH, <<p>> \o l \o w)]
  BY DEF CommitBits
<1>4. a \in Int /\ p \in Int
  BY BulletAssumption
<1>5. l \in [1..VECTOR_LEN -> Int] /\ w \in [1..VECTOR_LEN -> Int]
  <2>1. 0..(Q - 1) \subseteq Int
    BY FieldAssumption
  <2> QED BY <2>1, BulletAssumption
<1>6. AL' = AL /\ AR' = AR
  BY <1>2 DEF AL, AR
<1>7. PICK A1, S1 : /\ A1 = ECP_vec_mul(<<H>> \o GG \o HH, <<a>> \o AL \o AR)
                    /\ S1 = ECP_vec_mul(<<H>> \o GG \o HH, <<p>> \o l \o w)
  OBVIOUS
<1>8. proof' = [proof EXCEPT !.A = A1, !.S = S1]
  BY <1>3, <1>7
<1>9. IsProof(proof') /\ proof'.A = A1 /\ proof'.S = S1
  BY <1>8 DEF AcceptInv, IsProof
<1>10. v' \in [Agg -> Values]
  BY <1>2 DEF AcceptInv, BaseInv, FoldInv
<1>11. Drawn'
  BY <1>3, <1>5, <1>10 DEF Drawn, Agg
<1>12. SentBits'
  BY <1>3, <1>4, <1>6, <1>7, <1>9 DEF SentBits
<1>13. checks' = 0 /\ checks' \in Nat
  BY <1>2 DEF AcceptInv
<1>14. Complete'
  BY <1>13 DEF Complete
<1> QED BY <1>1, <1>2, <1>9, <1>11, <1>12, <1>13, <1>14, WitnessKept DEF AcceptInv

\* The phases in which a proof is being checked or about to be.
LEMMA AcceptAfter ==
    ASSUME AcceptInv, BaseInv', phase' \in {"fold", "verify"}, IsProof(proof'),
           UNCHANGED <<v, r, C>>, checks' \in Nat, phase' # "verify" => checks' = 0,
           Opening', \E t \in Nat : Traced(P, sent, vec_L, vec_R, vec_x, t)',
           proof'.mu = IF checks' % 2 = 0 THEN Mask' ELSE (-Mask') % Q, Complete'
    PROVE  AcceptInv'
<1>1. Drawn' /\ SentBits'
  BY DEF Opening
<1> QED BY <1>1, WitnessKept DEF AcceptInv

LEMMA AcceptFinish ==
    ASSUME AcceptInv, Finish
    PROVE  AcceptInv'
<1>1. BaseInv'
  BY BaseNext DEF AcceptInv, Next
<1>2. /\ phase = "fold" /\ phase' = "verify" /\ checks' = checks /\ verdict' = verdict
      /\ proof' = proof /\ sent' = sent /\ C' = C /\ x' = x /\ e' = e /\ y' = y /\ z' = z
      /\ UNCHANGED <<v, r, alpha, rho, sL, sR>>
      /\ UNCHANGED <<P, u, vec_L, vec_R, vec_x>>
  BY DEF Finish, secrets, ipVars
<1>3. Opening' /\ Mask' = Mask
  BY <1>2, OpeningKept DEF AcceptInv
<1>4. \E t \in Nat : Traced(P, sent, vec_L, vec_R, vec_x, t)'
  BY <1>2 DEF AcceptInv, Traced
<1>5. IsProof(proof') /\ checks' = 0 /\ checks' \in Nat
  BY <1>2 DEF AcceptInv
<1>6. proof'.mu = IF checks' % 2 = 0 THEN Mask' ELSE (-Mask') % Q
  BY <1>2, <1>3 DEF AcceptInv
<1>7. Complete'
  BY <1>5 DEF Complete
<1> QED BY <1>1, <1>2, <1>3, <1>4, <1>5, <1>6, <1>7, AcceptAfter

LEMMA AcceptVerify ==
    ASSUME AcceptInv, Bullet_Verify
    PROVE  AcceptInv'
<1>1. BaseInv'
  BY BaseNext DEF AcceptInv, Next
<1>2. /\ phase = "verify" /\ phase' = "verify" /\ checks' = checks + 1
      /\ proof' = [proof EXCEPT !.mu = VerifierMu]
      /\ sent' = sent /\ C' = C /\ x' = x /\ e' = e /\ y' = y /\ z' = z
      /\ UNCHANGED <<v, r, alpha, rho, sL, sR>>
      /\ UNCHANGED <<P, u, vec_L, vec_R, vec_x>>
  BY DEF Bullet_Verify, secrets, ipVars
<1>3. /\ IsProof(proof') /\ proof'.mu = (-proof.mu) % Q
      /\ proof'.A = proof.A /\ proof'.S = proof.S /\ proof'.T1 = proof.T1
      /\ proof'.T2 = proof.T2 /\ proof'.taux = proof.taux /\ proof'.tx = proof.tx
  BY <1>2 DEF AcceptInv, IsProof, VerifierMu
<1>4. Opening' /\ Mask' = Mask
  BY <1>2, <1>3, OpeningKept DEF AcceptInv
<1>5. \E t \in Nat : Traced(P, sent, vec_L, vec_R, vec_x, t)'
  BY <1>2 DEF AcceptInv, Traced
<1>6. PICK n \in Nat : n = checks /\ checks' = n + 1
  BY <1>2 DEF AcceptInv
<1>7. /\ checks' \in Nat
      /\ n % 2 = 0 => (n + 1) % 2 = 1
      /\ n % 2 # 0 => (n + 1) % 2 = 0
  BY <1>6
<1>8. Mask \in Int /\ Mask \in 0..(Q - 1)
  <2>1. Drawn /\ SentBits /\ \E tau1, tau2 \in Int : SentPolynomial(tau1, tau2)
    BY <1>2 DEF AcceptInv, Opening
  <2>2. PICK a \in Int, p \in Int, c \in Int : a = alpha /\ p = rho /\ c = x
    BY <2>1, ChallengesInt DEF SentBits, SentPolynomial
  <2>3. PICK s \in Int : s = a + p * c
    OBVIOUS
  <2> QED BY <2>2, <2>3, SameQ DEF Mask
<1>9. proof'.mu = IF checks' % 2 = 0 THEN Mask' ELSE (-Mask') % Q
  <2>1. proof.mu = IF n % 2 = 0 THEN Mask ELSE (-Mask) % Q
    BY <1>2, <1>6 DEF AcceptInv
  <2>2. CASE n % 2 = 0
    <3>1. checks' % 2 # 0
      BY <1>6, <1>7, <2>2
    <3> QED BY <1>3, <1>4, <2>1, <2>2, <3>1
  <2>3. CASE n % 2 # 0
    <3>1. checks' % 2 = 0
      BY <1>6, <1>7, <2>3
    <3> QED BY <1>3, <1>4, <1>8, <2>1, <2>3, <3>1, Negated
  <2> QED BY <2>2, <2>3
<1>10. Complete'
  <2> SUFFICES ASSUME InRange(v'), checks' % 2 = 1
               PROVE  verdict' = "accept"
    BY DEF Complete
  <2>1. checks % 2 = 0
    BY <1>6, <1>7
  <2>2. InRange(v)
    BY <1>2 DEF InRange
  <2> QED BY <2>1, <2>2, Accepts
<1> QED BY <1>1, <1>2, <1>3, <1>4, <1>5, <1>7, <1>9, <1>10, AcceptAfter

LEMMA AcceptStays ==
    ASSUME AcceptInv, UNCHANGED vars
    PROVE  AcceptInv'
<1>1. BaseInv'
  BY BaseNext DEF AcceptInv
<1>2. /\ phase' = phase /\ checks' = checks /\ verdict' = verdict
      /\ proof' = proof /\ sent' = sent /\ C' = C /\ x' = x /\ e' = e /\ y' = y /\ z' = z
      /\ UNCHANGED <<v, r, alpha, rho, sL, sR>>
      /\ UNCHANGED <<P, u, vec_L, vec_R, vec_x>>
  BY DEF vars, bulletVars, secrets, ipVars
<1>3. IsProof(proof') /\ checks' \in Nat /\ (phase' # "verify" => checks' = 0)
  BY <1>2 DEF AcceptInv
<1>4. Complete'
  BY <1>2 DEF AcceptInv, Complete, InRange
<1>5. AL' = AL /\ AR' = AR
  BY <1>2 DEF AL, AR
<1>6. phase' # "start" => Drawn' /\ SentBits'
  BY <1>2, <1>5 DEF AcceptInv, Drawn, SentBits
<1>7. CASE phase \in {"fold", "verify"}
  <2>1. Opening' /\ Mask' = Mask
    BY <1>2, <1>7, OpeningKept DEF AcceptInv
  <2>2. \E t \in Nat : Traced(P, sent, vec_L, vec_R, vec_x, t)'
    BY <1>2, <1>7 DEF AcceptInv, Traced
  <2>3. proof'.mu = IF checks' % 2 = 0 THEN Mask' ELSE (-Mask') % Q
    BY <1>2, <1>7, <2>1 DEF AcceptInv
  <2> QED BY <1>1, <1>2, <1>3, <1>4, <1>7, <2>1, <2>2, <2>3, AcceptAfter
<1>8. CASE phase \notin {"fold", "verify"}
  BY <1>1, <1>2, <1>3, <1>4, <1>6, <1>8, WitnessKept DEF AcceptInv
<1> QED BY <1>7, <1>8

LEMMA RoundPoints ==
    ASSUME NEW m \in Nat, NEW n \in Nat, NEW c, NEW g, NEW h, NEW a, NEW b, NEW p, NEW uu,
           NEW L, NEW R, NEW o, NEW p1, NEW g1, NEW h1, NEW a1, NEW b1,
           IsStep(n, m, c, o, g, h, p, uu, a, b, L, R, p1, g1, h1, a1, b1)
    PROVE  L \in Point /\ R \in Point
<1>1. /\ n = 2 * m
      /\ g \in [1..n -> Point] /\ h \in [1..n -> Point]
      /\ a \in [1..n -> Int] /\ b \in [1..n -> Int] /\ uu \in Point
      /\ L = ECP_vec_mul(Right(g) \o Left(h) \o <<uu>>,
               Left(a) \o Right(b) \o <<BN_vec_inner_product(Left(a), Right(b))>>)
      /\ R = ECP_vec_mul(Left(g) \o Right(h) \o <<uu>>,
               Right(a) \o Left(b) \o <<BN_vec_inner_product(Right(a), Left(b))>>)
  BY DEF IsStep
<1>2. PICK gL \in [1..m -> Point], gR \in [1..m -> Point] : gL = Left(g) /\ gR = Right(g)
  <2>1. Halved(g, n, m, Point)
    BY <1>1 DEF Halved
  <2> QED BY <2>1, Halves
<1>3. PICK hL \in [1..m -> Point], hR \in [1..m -> Point] : hL = Left(h) /\ hR = Right(h)
  <2>1. Halved(h, n, m, Point)
    BY <1>1 DEF Halved
  <2> QED BY <2>1, Halves
<1>4. PICK aL \in [1..m -> Int], aR \in [1..m -> Int] : aL = Left(a) /\ aR = Right(a)
  <2>1. AreHalves(a, Left(a), Right(a), n, m)
    BY <1>1, VectorHalves
  <2> QED BY <2>1 DEF AreHalves
<1>5. PICK bL \in [1..m -> Int], bR \in [1..m -> Int] : bL = Left(b) /\ bR = Right(b)
  <2>1. AreHalves(b, Left(b), Right(b), n, m)
    BY <1>1, VectorHalves
  <2> QED BY <2>1 DEF AreHalves
<1>6. PICK i3 \in Int, i4 \in Int :
        i3 = BN_vec_inner_product(aL, bR) /\ i4 = BN_vec_inner_product(aR, bL)
  BY InnerProductIs
<1>7. L \in Point
  <2>1. IsInstance(L, m, gR, hL, uu, aL, bR, i3)
    BY <1>1, <1>2, <1>3, <1>4, <1>5, <1>6 DEF IsInstance
  <2> QED BY <2>1, MulInstance
<1>8. R \in Point
  <2>1. IsInstance(R, m, gL, hR, uu, aR, bL, i4)
    BY <1>1, <1>2, <1>3, <1>4, <1>5, <1>6 DEF IsInstance
  <2> QED BY <2>1, MulInstance
<1> QED BY <1>7, <1>8

LEMMA TracedRound ==
    ASSUME BaseInv, Fold, NEW t \in Nat, Traced(P, sent, vec_L, vec_R, vec_x, t)
    PROVE  \E m \in Nat : Traced(P, sent, vec_L, vec_R, vec_x, m)'
<1>1. phase = "fold" /\ sent' = sent
  BY DEF Fold, bulletVars
<1>2. PICK n \in 1..VECTOR_LEN : IsRound(n)
  BY <1>1 DEF BaseInv, FoldInv
<1>3. PICK c \in Challenges : InnerProduct_Round(c)
  BY DEF Fold
<1>4. PICK k \in 1..VECTOR_LEN : n = 2 * k
  BY <1>2, <1>3, NextRound
<1>5. k \in Nat /\ n \in Nat
  OBVIOUS
<1>6. /\ vec_g \in [1..n -> Point] /\ vec_h \in [1..n -> Point]
      /\ vec_a \in [1..n -> Int] /\ vec_b \in [1..n -> Int]
      /\ P \in Point /\ u \in Point
      /\ P = Commitment(vec_g, vec_h, u, vec_a, vec_b)
  BY <1>2 DEF IsRound
<1>7. PICK L, R, o, p1, g1, h1, a1, b1 :
        /\ o = Inverse(c)
        /\ L = ECP_vec_mul(Right(vec_g) \o Left(vec_h) \o <<u>>,
                 Left(vec_a) \o Right(vec_b)
                   \o <<BN_vec_inner_product(Left(vec_a), Right(vec_b))>>)
        /\ R = ECP_vec_mul(Left(vec_g) \o Right(vec_h) \o <<u>>,
                 Right(vec_a) \o Left(vec_b)
                   \o <<BN_vec_inner_product(Right(vec_a), Left(vec_b))>>)
        /\ p1 = ECP_vec_mul(<<L, P, R>>, <<c * c, 1, o * o>>)
        /\ g1 = FoldG(vec_g, c) /\ h1 = FoldH(vec_h, c)
        /\ a1 = BN_vec_add(BN_vec_scalar(Left(vec_a), c), BN_vec_scalar(Right(vec_a), o))
        /\ b1 = BN_vec_add(BN_vec_scalar(Left(vec_b), o), BN_vec_scalar(Right(vec_b), c))
  OBVIOUS
<1>8. IsStep(n, k, c, o, vec_g, vec_h, P, u, vec_a, vec_b, L, R, p1, g1, h1, a1, b1)
  BY <1>4, <1>6, <1>7 DEF IsStep
<1>9. L \in Point /\ R \in Point
  BY <1>5, <1>8, RoundPoints
<1>10. /\ vec_L' = Append(vec_L, L) /\ vec_R' = Append(vec_R, R)
       /\ vec_x' = Append(vec_x, c) /\ P' = p1
  BY <1>3, <1>7 DEF InnerProduct_Round
<1>11. PICK m \in Nat : m = t + 1
  OBVIOUS
<1>12. TraceNext(P', vec_L', vec_R', vec_x', P, vec_L, vec_R, vec_x, L, R, c, o, m, t)
  BY <1>7, <1>9, <1>10, <1>11 DEF TraceNext
<1>13. Traced(P', sent, vec_L', vec_R', vec_x', m)
  BY <1>12, TraceStep
<1> QED BY <1>1, <1>13 DEF Traced

LEMMA AcceptFold ==
    ASSUME AcceptInv, Fold
    PROVE  AcceptInv'
<1>1. BaseInv'
  BY BaseNext DEF AcceptInv, Next
<1>2. /\ phase = "fold" /\ phase' = phase /\ checks' = checks /\ verdict' = verdict
      /\ proof' = proof /\ sent' = sent /\ C' = C /\ x' = x /\ e' = e /\ y' = y /\ z' = z
      /\ UNCHANGED <<v, r, alpha, rho, sL, sR>> /\ u' = u
  BY DEF Fold, bulletVars, secrets, InnerProduct_Round
<1>3. Opening' /\ Mask' = Mask
  BY <1>2, OpeningKept DEF AcceptInv
<1>4. PICK t \in Nat : Traced(P, sent, vec_L, vec_R, vec_x, t)
  BY <1>2 DEF AcceptInv
<1>5. \E m \in Nat : Traced(P, sent, vec_L, vec_R, vec_x, m)'
  BY <1>4, TracedRound DEF AcceptInv
<1>6. IsProof(proof') /\ checks' = 0 /\ checks' \in Nat
  BY <1>2 DEF AcceptInv
<1>7. proof'.mu = IF checks' % 2 = 0 THEN Mask' ELSE (-Mask') % Q
  BY <1>2, <1>3 DEF AcceptInv
<1>8. Complete'
  BY <1>6 DEF Complete
<1> QED BY <1>1, <1>2, <1>3, <1>5, <1>6, <1>7, <1>8, AcceptAfter

LEMMA AcceptCommitPolynomial ==
    ASSUME AcceptInv, CommitPolynomial
    PROVE  AcceptInv'
<1>1. BaseInv'
  BY BaseNext DEF AcceptInv, Next
<1>2. /\ phase = "polynomial" /\ phase' = "fold" /\ checks' = checks /\ verdict' = verdict
      /\ C' = C /\ y' = y /\ z' = z
      /\ v' = v /\ r' = r /\ alpha' = alpha /\ rho' = rho /\ sL' = sL /\ sR' = sR
  BY DEF CommitPolynomial, secrets
<1>a. PICK tau1 \in Draws, tau2 \in Draws, c \in Challenges, d \in Challenges :
        /\ x' = c /\ e' = d
        /\ proof' = [proof EXCEPT
              !.T1 = ECP_vec_mul(<<G, H>>, <<tau1, T1Coefficient>>),
              !.T2 = ECP_vec_mul(<<G, H>>, <<tau2, T2Coefficient>>),
              !.tx = BN_vec_inner_product(BN_vec_add(LL0, BN_vec_scalar(sL, c)),
                                          BN_vec_add(RR0, BN_vec_scalar(RR1, c))),
              !.taux = (tau1 * c + tau2 * c * c
                          + SumTo(AGG_NUM, [j \in Agg |-> Power(z, j + 1) * r[j]])) % Q,
              !.mu = (alpha + rho * c) % Q]
        /\ sent' = Commitment(GG, NewH(y), ECP_vec_mul(<<U>>, <<d>>),
                              BN_vec_add(LL0, BN_vec_scalar(sL, c)),
                              BN_vec_add(RR0, BN_vec_scalar(RR1, c)))
        /\ IPStart(GG, NewH(y),
                   Commitment(GG, NewH(y), ECP_vec_mul(<<U>>, <<d>>),
                              BN_vec_add(LL0, BN_vec_scalar(sL, c)),
                              BN_vec_add(RR0, BN_vec_scalar(RR1, c))),
                   ECP_vec_mul(<<U>>, <<d>>),
                   BN_vec_add(LL0, BN_vec_scalar(sL, c)),
                   BN_vec_add(RR0, BN_vec_scalar(RR1, c)))
  BY DEF CommitPolynomial
<1>3. PICK T1, T2, tx, taux, mu, p, uu :
        /\ T1 = ECP_vec_mul(<<G, H>>, <<tau1, T1Coefficient>>)
        /\ T2 = ECP_vec_mul(<<G, H>>, <<tau2, T2Coefficient>>)
        /\ tx = BN_vec_inner_product(LLAt(c), RRAt(c))
        /\ taux = (tau1 * c + tau2 * c * c + SumTo(AGG_NUM, BlindPowers)) % Q
        /\ mu = (alpha + rho * c) % Q
        /\ uu = ECP_vec_mul(<<U>>, <<d>>)
        /\ p = Commitment(GG, NewH(y), uu, LLAt(c), RRAt(c))
        /\ x' = c /\ e' = d /\ sent' = p
        /\ proof' = [proof EXCEPT !.T1 = T1, !.T2 = T2, !.tx = tx,
                                  !.taux = taux, !.mu = mu]
        /\ IPStart(GG, NewH(y), p, uu, LLAt(c), RRAt(c))
  BY <1>a DEF LLAt, RRAt, BlindPowers
<1>4. tau1 \in Int /\ tau2 \in Int /\ d \in Int
  BY BulletAssumption, ChallengesInt
<1>5. Drawn /\ SentBits
  BY <1>2 DEF AcceptInv
<1>6. /\ IsProof(proof') /\ proof'.A = proof.A /\ proof'.S = proof.S
      /\ proof'.T1 = T1 /\ proof'.T2 = T2 /\ proof'.tx = tx
      /\ proof'.taux = taux /\ proof'.mu = mu
  BY <1>3 DEF AcceptInv, IsProof
<1>7. AL' = AL /\ AR' = AR
  BY <1>2 DEF AL, AR
<1>8. LL0' = LL0 /\ RR0' = RR0 /\ RR1' = RR1
  BY <1>2, <1>7 DEF LL0, RR0, RR1
<1>9. T1Coefficient' = T1Coefficient /\ T2Coefficient' = T2Coefficient
  BY <1>2, <1>8 DEF T1Coefficient, T2Coefficient
<1>10. LLAt(x)' = LLAt(c) /\ RRAt(x)' = RRAt(c)
  BY <1>2, <1>3, <1>8 DEF LLAt, RRAt
<1>11. BlindPowers' = BlindPowers
  BY <1>2 DEF BlindPowers
<1>12. Drawn' /\ SentBits'
  BY <1>2, <1>5, <1>6, <1>7 DEF Drawn, SentBits
<1>13. SentPolynomial(tau1, tau2)'
  BY <1>3, <1>4, <1>6, <1>9, <1>10, <1>11 DEF SentPolynomial
<1>14. P' = p /\ u' = uu /\ vec_L' = <<>> /\ vec_R' = <<>> /\ vec_x' = <<>>
  BY <1>3 DEF IPStart
<1>15. Opening'
  <2>1. \E t1, t2 \in Int : SentPolynomial(t1, t2)'
    BY <1>4, <1>13
  <2>2. /\ u' = ECP_vec_mul(<<U>>, <<e'>>) /\ e' \in Int
        /\ sent' = Commitment(GG, NewH(y'), u', LLAt(x)', RRAt(x)')
    BY <1>2, <1>3, <1>4, <1>10, <1>14
  <2> QED BY <1>12, <2>1, <2>2 DEF Opening
<1>16. \E t \in Nat : Traced(P, sent, vec_L, vec_R, vec_x, t)'
  <2>1. P' \in Point
    <3>1. IsRound(VECTOR_LEN)'
      BY FirstRound DEF AcceptInv, BaseInv
    <3> QED BY <3>1 DEF IsRound
  <2>2. Traced(P', P', <<>>, <<>>, <<>>, 0)
    BY <2>1, TraceStart
  <2>3. Traced(P, sent, vec_L, vec_R, vec_x, 0)'
    BY <1>3, <1>14, <2>2 DEF Traced
  <2> QED BY <2>3
<1>17. Mask' = mu
  BY <1>2, <1>3 DEF Mask
<1>18. checks' = 0 /\ checks' \in Nat /\ checks' % 2 = 0
  BY <1>2 DEF AcceptInv
<1>19. Complete'
  BY <1>18 DEF Complete
<1> QED BY <1>1, <1>2, <1>6, <1>15, <1>16, <1>17, <1>18, <1>19, AcceptAfter

\* Proofs of values in the range are accepted the first time and every other
\* time after it, for every group, every range and number of aggregated
\* values, all randomness and all challenges: t(x) opens the two commitments
\* to its coefficients, the verifier rebuilds the prover's first instance,
\* and the rounds add up to its equation.  Bullet_Verify turns the sign of
\* proof.mu and leaves it turned (aggregate_bulletproof.hpp:620).
THEOREM HonestProofsAccepted == Spec => []Complete
<1>1. AcceptInv /\ [Next]_vars => AcceptInv'
  BY AcceptCommitBits, AcceptCommitPolynomial, AcceptFold, AcceptFinish, AcceptVerify,
     AcceptStays DEF Next
<1>2. Spec => []AcceptInv
  BY AcceptInit, <1>1, PTL DEF Spec
<1>3. AcceptInv => Complete
  BY DEF AcceptInv
<1> QED BY <1>2, <1>3, PTL

-----------------------------------------------------------------------------
(* What an accepted proof says: the bits that were proved leave nothing out  *)
(* of the values that the challenge z could tell.                           *)

Excess(w, c) == SumTo(AGG_NUM, [j \in Agg |-> Power(c, j + 1) * Above(w[j])])

LEMMA ExcessIs ==
    ASSUME v \in [Agg -> Values], z \in Challenges, y \in Challenges
    PROVE  /\ Excess(v, z) \in Int
           /\ Excess(v, z) = SumTo(AGG_NUM, RangePowers) - SumTo(AGG_NUM, LowPowers)
<1>1. PICK m \in Nat : m = AGG_NUM /\ Agg = 1..m
  BY AggLengths
<1>2. PICK f : f = [j \in Agg |-> Power(z, j + 1) * Above(v[j])]
  OBVIOUS
<1>3. PICK g, h : g = RangePowers /\ h = LowPowers
  OBVIOUS
<1>4. PICK o \in Int, w \in Int : o = 1 /\ w = -1
  OBVIOUS
<1>5. ASSUME NEW j \in 1..m
      PROVE  g[j] \in Int /\ h[j] \in Int /\ f[j] = o * g[j] + w * h[j]
  <2>1. PICK p \in Int, s \in Int, t \in Int :
          /\ p = Power(z, j + 1) /\ s = v[j] /\ t = Above(v[j])
          /\ g[j] = p * s /\ h[j] = p * (s - t)
    <3>1. /\ v[j] \in Nat /\ Power(z, j + 1) \in Int
          /\ RangePowers[j] = Power(z, j + 1) * v[j]
      BY <1>1, RangePowersInt
    <3>2. /\ Above(v[j]) \in Int
          /\ LowPowers[j] = Power(z, j + 1) * (v[j] - Above(v[j]))
      BY <1>1, LowPowersInt
    <3> QED BY <1>3, <3>1, <3>2
  <2>2. f[j] = p * t
    BY <1>1, <1>2, <2>1
  <2>3. p * t = p * s - p * (s - t)
    OBVIOUS
  <2> QED BY <1>4, <2>1, <2>2, <2>3
<1>6. SumTo(m, f) = o * SumTo(m, g) + w * SumTo(m, h)
  <2>1. Combines(m, f, o, g, w, h)
    BY <1>5 DEF Combines
  <2> QED BY <2>1, SumCombine
<1>7. PICK a \in Int, b \in Int : a = SumTo(m, g) /\ b = SumTo(m, h)
  BY <1>5, SumInt
<1>8. SumTo(m, f) = a - b
  BY <1>4, <1>6, <1>7
<1> QED BY <1>1, <1>2, <1>3, <1>7, <1>8 DEF Excess

\* Where the verifier accepts, the excess of the values is a multiple of the
\* order of the group at the challenge z.
AcceptedFits == verdict = "accept" => Excess(v, z) % Q = 0
FitInv == AcceptInv /\ (phase # "verify" => verdict = "none") /\ AcceptedFits

LEMMA FitVerify ==
    ASSUME FitInv, Bullet_Verify
    PROVE  FitInv'
<1>1. AcceptInv' /\ phase = "verify" /\ phase' = "verify" /\ v' = v /\ z' = z
  BY AcceptVerify DEF FitInv, Bullet_Verify, secrets
<1>2. ASSUME verdict' = "accept" PROVE Excess(v, z) % Q = 0
  <2>1. PolynomialCheck
    BY <1>2 DEF Bullet_Verify
  <2>2. /\ Opening /\ Drawn
        /\ r \in [Agg -> Draws] /\ C = [i \in Agg |-> ECP_vec_mul(<<G, H>>, <<r[i], v[i]>>)]
    BY <1>1 DEF FitInv, AcceptInv, Opening
  <2>3. PICK tau1 \in Int, tau2 \in Int : SentPolynomial(tau1, tau2)
    BY <2>2 DEF Opening
  <2>4. IsCommitted
    BY <2>2 DEF IsCommitted, Drawn
  <2>5. PICK a \in Int, b \in Int :
          /\ a = SumTo(AGG_NUM, RangePowers) /\ b = SumTo(AGG_NUM, LowPowers)
          /\ Same(a - b, 0, Q)
    BY <2>1, <2>2, <2>3, <2>4, PolynomialFits
  <2>6. PICK s \in Int : s = Excess(v, z) /\ s = a - b
    BY <2>2, <2>5, ExcessIs DEF Drawn
  <2>7. Q \in Nat \ {0} /\ Same(s, 0, Q)
    BY <2>5, <2>6, FieldAssumption
  <2>8. s % Q = 0 % Q /\ 0 % Q = 0
    <3>1. PICK o \in Int, n \in Nat \ {0} : o = 0 /\ n = Q
      BY <2>7
    <3>2. s % n = o % n
      BY <2>7, <3>1, SameMod
    <3>3. 0 % n = 0
      OBVIOUS
    <3> QED BY <3>1, <3>2, <3>3
  <2> QED BY <2>6, <2>8
<1> QED BY <1>1, <1>2 DEF FitInv, AcceptedFits

LEMMA FitNext ==
    ASSUME FitInv, [Next]_vars
    PROVE  FitInv'
<1>1. AcceptInv'
  BY AcceptCommitBits, AcceptCommitPolynomial, AcceptFold, AcceptFinish, AcceptVerify,
     AcceptStays DEF FitInv, Next
<1>2. CASE CommitBits \/ CommitPolynomial \/ Fold \/ Finish
  <2>1. phase # "verify" /\ verdict' = verdict
    BY <1>2 DEF CommitBits, CommitPolynomial, Fold, Finish, bulletVars
  <2>2. verdict' = "none"
    BY <2>1 DEF FitInv
  <2> QED BY <1>1, <2>2 DEF FitInv, AcceptedFits
<1>3. CASE Bullet_Verify
  BY <1>3, FitVerify
<1>4. CASE UNCHANGED vars
  BY <1>1, <1>4 DEF FitInv, AcceptedFits, vars, bulletVars, secrets, Excess
<1> QED BY <1>2, <1>3, <1>4 DEF Next

\* An accepted proof, of any values and at the first or any later check, leaves
\* an excess that the challenge z cannot tell from nothing.
THEOREM AcceptedProofsFit == Spec => []AcceptedFits
<1>1. Init => FitInv
  BY AcceptInit DEF Init, FitInv, AcceptedFits
<1>2. FitInv /\ [Next]_vars => FitInv'
  BY FitNext
<1>3. FitInv => AcceptedFits
  BY DEF FitInv
<1> QED BY <1>1, <1>2, <1>3, PTL DEF Spec

\* The challenges tell every list of values out of the range from one in it.
TellsApart ==
    \A w \in [Agg -> Values], c \in Challenges : Excess(w, c) % Q = 0 => InRange(w)

\* With such challenges no proof of a value out of the range is accepted.
THEOREM OutOfRangeRejected ==
    ASSUME TellsApart
    PROVE  Spec => []OnlyInRange
<1>1. Init => FitInv
  BY AcceptInit DEF Init, FitInv, AcceptedFits
<1>2. FitInv /\ [Next]_vars => FitInv'
  BY FitNext
<1>3. FitInv => OnlyInRange
  <2>1. ASSUME FitInv, verdict = "accept" PROVE InRange(v)
    <3>1. Drawn
      BY <2>1 DEF FitInv, AcceptInv, Opening
    <3>2. v \in [Agg -> Values] /\ z \in Challenges /\ Excess(v, z) % Q = 0
      BY <2>1, <3>1 DEF Drawn, FitInv, AcceptedFits
    <3> QED BY <3>2 DEF TellsApart
  <2> QED BY <2>1 DEF OnlyInRange
<1> QED BY <1>1, <1>2, <1>3, PTL DEF Spec

-----------------------------------------------------------------------------
(* A polynomial of as many roots as coefficients is nothing.                *)

\* The quotient of a by the root s, of degree less than n, and the rest.
Quotient(n, a, s, q) ==
    /\ q \in Polynomial
    /\ \A k \in Int : k < 1 \/ k > n => q[k] = 0
    /\ \A k \in 1..n : q[k] = a[k + 1] + s * q[k + 1]
Rest(a, s, q) == a[1] + s * q[1]

LEMMA QuotientExists ==
    ASSUME NEW n \in Nat, NEW a \in Polynomial, NEW s \in Int
    PROVE  \E q : Quotient(n, a, s, q)
<1>1. PICK F : F = [k \in 0..(n - 1) |-> [t \in Int |-> a[k + 2] + s * t]]
  OBVIOUS
<1>2. RecursiveDown(n, Int, 0, F)
  <2>1. ASSUME NEW k \in 0..(n - 1) PROVE F[k] \in [Int -> Int]
    <3>1. k + 2 \in Int
      OBVIOUS
    <3>2. a[k + 2] \in Int
      BY <3>1 DEF Polynomial
    <3> QED BY <1>1, <3>2
  <2>2. F \in [0..(n - 1) -> [Int -> Int]]
    BY <1>1, <2>1
  <2> QED BY <2>2 DEF RecursiveDown
<1>3. PICK p : FollowDown(n, Int, 0, F, p)
  BY <1>2, RecursionDown
<1>4. /\ p \in [0..n -> Int] /\ p[n] = 0
      /\ \A k \in 0..(n - 1) : p[k] = a[k + 2] + s * p[k + 1]
  <2>1. /\ p \in [0..n -> Int] /\ p[n] = 0
        /\ \A k \in 0..(n - 1) : p[k] = F[k][p[k + 1]]
    BY <1>3 DEF FollowDown
  <2>2. ASSUME NEW k \in 0..(n - 1) PROVE p[k] = a[k + 2] + s * p[k + 1]
    <3>1. k + 1 \in 0..n
      OBVIOUS
    <3>2. PICK t \in Int : t = p[k + 1]
      BY <2>1, <3>1
    <3> QED BY <1>1, <2>1, <3>2
  <2> QED BY <2>1, <2>2
<1>5. PICK q : q = [k \in Int |-> IF k < 1 \/ k > n THEN 0 ELSE p[k - 1]]
  OBVIOUS
<1>6. q \in Polynomial
  <2>1. ASSUME NEW k \in Int, ~(k < 1 \/ k > n) PROVE p[k - 1] \in Int
    <3>1. k - 1 \in 0..n
      BY <2>1
    <3> QED BY <1>4, <3>1
  <2> QED BY <1>5, <2>1 DEF Polynomial
<1>7. ASSUME NEW k \in 1..n PROVE q[k] = a[k + 1] + s * q[k + 1]
  <2>1. PICK j \in 0..(n - 1) : k = j + 1
    <3>1. k - 1 \in 0..(n - 1) /\ k = (k - 1) + 1
      OBVIOUS
    <3> QED BY <3>1
  <2>2. q[k] = p[j] /\ k + 1 = j + 2
    BY <1>5, <2>1
  <2>3. q[k + 1] = p[j + 1]
    <3>1. CASE j + 1 = n
      <4>1. q[k + 1] = 0
        BY <1>5, <2>1, <3>1
      <4> QED BY <1>4, <3>1, <4>1
    <3>2. CASE j + 1 # n
      <4>1. ~(k + 1 < 1 \/ k + 1 > n) /\ k + 1 \in Int /\ (k + 1) - 1 = j + 1
        BY <2>1, <3>2
      <4> QED BY <1>5, <4>1
    <3> QED BY <3>1, <3>2
  <2>4. p[j] = a[j + 2] + s * p[j + 1]
    BY <1>4
  <2> QED BY <2>2, <2>3, <2>4
<1> QED BY <1>5, <1>6, <1>7 DEF Quotient

\* The value of a polynomial is that of the root's factor and the quotient, and
\* the rest.
LEMMA Division ==
    ASSUME NEW n \in Nat, NEW a \in Polynomial, NEW s \in Int, NEW q,
           Quotient(n, a, s, q), NEW x0 \in Int
    PROVE  /\ ValueOf(n, q, x0) \in Int /\ Rest(a, s, q) \in Int
           /\ ValueOf(n + 1, a, x0) = (x0 - s) * ValueOf(n, q, x0) + Rest(a, s, q)
<1>1. q \in Polynomial /\ q[0] = 0 /\ q[n + 1] = 0
  BY DEF Quotient
<1>2. PICK o \in Int, t \in Int : o = 1 /\ t = -s
  OBVIOUS
<1>3. PICK c : c = Factor(o, t, q)
  OBVIOUS
<1>4. /\ c \in Polynomial
      /\ \A k \in Int : c[k] = t * q[k] + o * q[k - 1] /\ q[k] \in Int /\ q[k - 1] \in Int
  BY <1>1, <1>3, FactorIs
<1>5. PICK m \in Int : m = Rest(a, s, q) /\ m = a[1] + s * q[1]
  <2>1. a[1] \in Int /\ q[1] \in Int
    BY <1>1 DEF Polynomial
  <2> QED BY <2>1 DEF Rest
<1>6. PICK w \in Nat : w = n + 1
  OBVIOUS
<1>7. ASSUME NEW k \in 1..w
      PROVE  a[k] = c[k] + (IF k = 1 THEN m ELSE 0) /\ a[k] \in Int /\ c[k] \in Int
  <2>1. a[k] \in Int /\ c[k] \in Int
    BY <1>4 DEF Polynomial
  <2>2. CASE k = 1
    <3>1. c[1] = t * q[1] + o * q[0] /\ q[1] \in Int
      <4>1. 1 \in Int /\ 1 - 1 = 0
        OBVIOUS
      <4>2. c[1] = t * q[1] + o * q[1 - 1] /\ q[1] \in Int
        BY <1>4
      <4> QED BY <4>1, <4>2
    <3>2. PICK b \in Int, d \in Int : b = q[1] /\ d = a[1]
      BY <2>1, <2>2, <3>1
    <3>3. c[1] = -(s * b)
      BY <1>1, <1>2, <3>1, <3>2
    <3> QED BY <1>5, <2>1, <2>2, <3>2, <3>3
  <2>3. CASE k # 1
    <3>1. PICK j \in 1..n : k = j + 1
      <4>1. k - 1 \in 1..n /\ k = (k - 1) + 1
        BY <1>6, <2>3
      <4> QED BY <4>1
    <3>2. q[j] = a[k] + s * q[k]
      BY <3>1 DEF Quotient
    <3>3. c[k] = t * q[k] + o * q[j] /\ q[k] \in Int /\ q[j] \in Int
      <4>1. k \in Int /\ k - 1 = j
        BY <3>1
      <4> QED BY <1>4, <4>1
    <3>4. PICK b \in Int, d \in Int, f \in Int : b = q[k] /\ d = q[j] /\ f = a[k]
      BY <2>1, <3>3
    <3>5. c[k] = d - s * b /\ d = f + s * b
      BY <1>2, <3>2, <3>3, <3>4
    <3> QED BY <2>1, <2>3, <3>4, <3>5
  <2> QED BY <2>1, <2>2, <2>3
<1>8. PICK f, g, h : /\ f = Terms(a, x0) /\ g = Terms(c, x0)
                     /\ h = [k \in 1..w |-> IF k = 1 THEN m ELSE 0]
  OBVIOUS
<1>9. ASSUME NEW k \in 1..w
      PROVE  /\ g[k] \in Int /\ h[k] \in Int /\ f[k] = o * g[k] + o * h[k]
             /\ k # 1 => h[k] = 0
  <2>1. PICK p \in Int : p = Power(x0, k - 1) /\ f[k] = a[k] * p /\ g[k] = c[k] * p
    <3>1. /\ Terms(a, x0)[k] = a[k] * Power(x0, k - 1) /\ Power(x0, k - 1) \in Int
          /\ Terms(c, x0)[k] = c[k] * Power(x0, k - 1)
      <4>1. k \in Nat /\ k # 0
        OBVIOUS
      <4> QED BY <1>4, <4>1, TermIs
    <3> QED BY <1>8, <3>1
  <2>2. PICK b \in Int, d \in Int : b = a[k] /\ d = c[k]
    BY <1>7
  <2>3. CASE k = 1
    <3>1. p = 1
      <4>1. k - 1 = 0
        BY <2>3
      <4> QED BY <2>1, <4>1, PowerStep
    <3>2. b = d + m /\ f[k] = b /\ g[k] = d /\ h[k] = m
      <4>1. b = d + m
        BY <1>7, <2>2, <2>3
      <4>2. f[k] = b * p /\ g[k] = d * p
        BY <2>1, <2>2
      <4>3. h[k] = m
        BY <1>8, <2>3
      <4> QED BY <3>1, <4>1, <4>2, <4>3
    <3> QED BY <1>2, <2>3, <3>2
  <2>4. CASE k # 1
    <3>1. b = d + 0 /\ h[k] = 0
      BY <1>7, <1>8, <2>2, <2>4
    <3>2. f[k] = d * p /\ g[k] = d * p /\ d * p \in Int
      BY <2>1, <2>2, <3>1
    <3> QED BY <1>2, <3>1, <3>2
  <2> QED BY <2>3, <2>4
<1>10. SumTo(w, f) = o * SumTo(w, g) + o * SumTo(w, h)
  <2>1. Combines(w, f, o, g, o, h)
    BY <1>9 DEF Combines
  <2> QED BY <2>1, SumCombine
<1>11. SumTo(w, h) = m
  <2>1. PICK j \in 0..w : j = 1
    BY <1>6
  <2>2. \A k \in 1..w : h[k] \in Int /\ (k # j => h[k] = 0)
    BY <1>9, <2>1
  <2>3. SumTo(w, h) = IF j = 0 THEN 0 ELSE h[j]
    BY <2>2, SumSingle
  <2>4. h[1] = m
    BY <1>6, <1>8
  <2> QED BY <2>1, <2>3, <2>4
<1>12. ValueOf(n + 1, c, x0) = (o * x0 + t) * ValueOf(n, q, x0)
  BY <1>1, <1>3, ValueFactor
<1>13. PICK d \in Int, b \in Int : d = ValueOf(n, q, x0) /\ b = ValueOf(n + 1, c, x0)
  <2>1. ValueOf(n, q, x0) \in Int
    BY <1>1, ValueStep
  <2>2. n + 1 \in Nat
    OBVIOUS
  <2>3. ValueOf(n + 1, c, x0) \in Int
    BY <1>4, <2>2, ValueStep
  <2> QED BY <2>1, <2>3
<1>14. o * x0 + t = x0 - s
  BY <1>2
<1>15. ValueOf(n + 1, a, x0) = b + m
  <2>1. SumTo(w, f) = o * b + o * m
    BY <1>6, <1>8, <1>10, <1>11, <1>13 DEF ValueOf
  <2> QED BY <1>2, <1>6, <1>8, <2>1 DEF ValueOf
<1> QED BY <1>5, <1>12, <1>13, <1>14, <1>15

Different(n, f) ==
    /\ \A i \in 1..n : f[i] \in 1..(Q - 1)
    /\ \A i, j \in 1..n : i # j => f[i] # f[j]
Vanishes(n, a, f) == \A i \in 1..n : Same(ValueOf(n, a, f[i]), 0, Q)

\* A factor that is not a multiple of Q can be dropped.
LEMMA FactorDropped ==
    ASSUME NEW c \in Int, NEW b \in Int, ~Same(c, 0, Q), Same(c * b, 0, Q)
    PROVE  Same(b, 0, Q)
<1>1. Q \in Nat \ {0} /\ 0 \in Int
  BY FieldAssumption
<1>2. PICK e0 \in 0..(Q - 1) : e0 = c % Q /\ Same(e0, c, Q)
  BY <1>1, DivMod, SameRest
<1>3. e0 # 0
  <2>1. ASSUME e0 = 0 PROVE FALSE
    <3>1. e0 \in Int /\ Same(c, e0, Q)
      BY <1>1, <1>2, SameReverse
    <3> QED BY <2>1, <3>1
  <2> QED BY <2>1
<1>4. PICK w \in Int : (e0 * w) % Q = 1
  <2>1. e0 \in 1..(Q - 1)
    BY <1>1, <1>3
  <2>2. \E w \in 1..(Q - 1) : (e0 * w) % Q = 1
    BY <2>1, FieldAssumption
  <2> QED BY <1>1, <2>2
<1>5. PICK n \in Int : n = Q
  BY <1>1
<1>6. PICK q1 \in Int : e0 = c + n * q1
  BY <1>2, <1>5 DEF Same
<1>7. PICK q2 \in Int : e0 * w = n * q2 + 1
  <2>1. PICK d \in Int : d = e0 * w
    BY <1>2
  <2>2. d = Q * (d \div Q) + (d % Q) /\ d \div Q \in Int
    BY <1>1, <2>1, DivMod
  <2> QED BY <1>4, <1>5, <2>1, <2>2
<1>8. PICK q3 \in Int : c * b = 0 + n * q3
  BY <1>5 DEF Same
<1>9. b = 0 + n * (q3 * w + q1 * w * b - q2 * b)
  <2>1. (c + n * q1) * w = n * q2 + 1
    BY <1>6, <1>7
  <2>2. ((c + n * q1) * w) * b = (n * q2 + 1) * b
    BY <2>1
  <2>3. ((c + n * q1) * w) * b = (c * b) * w + n * (q1 * w * b)
    OBVIOUS
  <2>4. (c * b) * w = n * (q3 * w)
    BY <1>8
  <2>5. (n * q2 + 1) * b = n * (q2 * b) + b
    OBVIOUS
  <2>6. PICK e1 \in Int, e2 \in Int, e3 \in Int : e1 = q3 * w /\ e2 = q1 * w * b /\ e3 = q2 * b
    OBVIOUS
  <2>7. b = n * e1 + n * e2 - n * e3
    BY <2>2, <2>3, <2>4, <2>5, <2>6
  <2> QED BY <2>6, <2>7
<1>10. q3 * w + q1 * w * b - q2 * b \in Int
  OBVIOUS
<1> QED BY <1>5, <1>9, <1>10 DEF Same

LEMMA DifferentApart ==
    ASSUME NEW c \in 1..(Q - 1), NEW d \in 1..(Q - 1), c # d
    PROVE  ~Same(c - d, 0, Q)
<1>1. PICK n \in Nat : n = Q
  BY FieldAssumption
<1>2. ASSUME NEW q \in Int, c - d = 0 + n * q PROVE FALSE
  <2>1. c - d < n /\ d - c < n /\ c - d # 0
    BY <1>1
  <2>2. CASE q = 0
    BY <1>2, <2>1, <2>2
  <2>3. CASE q > 0
    <3>1. PICK k \in Nat : q = k + 1
      <4>1. q - 1 \in Nat /\ q = (q - 1) + 1
        BY <2>3
      <4> QED BY <4>1
    <3>2. n * q = n * k + n /\ n * k \in Nat
      BY <3>1
    <3> QED BY <1>2, <2>1, <3>2
  <2>4. CASE q < 0
    <3>1. PICK k \in Nat : q = -(k + 1)
      <4>1. -q - 1 \in Nat /\ q = -((-q - 1) + 1)
        BY <2>4
      <4> QED BY <4>1
    <3>2. n * q = -(n * k) - n /\ n * k \in Nat
      BY <3>1
    <3> QED BY <1>2, <2>1, <3>2
  <2> QED BY <2>2, <2>3, <2>4
<1> QED BY <1>1, <1>2 DEF Same

LEMMA RestVanishes ==
    ASSUME NEW n \in Nat, NEW a \in Polynomial, NEW f, NEW w \in Nat, w = n + 1,
           Different(w, f), Vanishes(w, a, f), NEW s \in Int, s = f[w],
           NEW q, Quotient(n, a, s, q)
    PROVE  Same(Rest(a, s, q), 0, Q) /\ Vanishes(n, q, f)
<1>1. w \in 1..w /\ f[w] \in 1..(Q - 1) /\ Q \in Nat \ {0} /\ 0 \in Int
  BY FieldAssumption DEF Different
<1>2. PICK m \in Int : m = Rest(a, s, q)
  BY Division
<1>3. ValueOf(w, a, s) = m
  <2>1. PICK d \in Int : d = ValueOf(n, q, s)
    BY Division
  <2>2. ValueOf(n + 1, a, s) = (s - s) * d + m
    BY <1>2, <2>1, Division
  <2>3. (s - s) * d = 0
    OBVIOUS
  <2> QED BY <2>2, <2>3
<1>4. Same(m, 0, Q)
  BY <1>1, <1>3 DEF Vanishes
<1>5. ASSUME NEW i \in 1..n PROVE Same(ValueOf(n, q, f[i]), 0, Q)
  <2>1. i \in 1..w /\ i # w
    OBVIOUS
  <2>2. PICK x0 \in Int : x0 = f[i] /\ x0 \in 1..(Q - 1) /\ x0 # s
    <3>1. f[i] \in 1..(Q - 1) /\ f[i] # f[w]
      BY <1>1, <2>1 DEF Different
    <3> QED BY <1>1, <3>1
  <2>3. PICK d \in Int : d = ValueOf(n, q, x0)
    BY Division
  <2>4. PICK c \in Int : c = x0 - s /\ ~Same(c, 0, Q)
    BY <1>1, <2>2, DifferentApart
  <2>5. ValueOf(w, a, x0) = c * d + m
    <3>1. ValueOf(n + 1, a, x0) = (x0 - s) * d + m
      BY <1>2, <2>3, Division
    <3> QED BY <2>4, <3>1
  <2>6. PICK b \in Int : b = c * d
    OBVIOUS
  <2>7. Same(b + m, 0, Q)
    BY <2>1, <2>2, <2>5, <2>6 DEF Vanishes
  <2>8. Same(b, 0, Q)
    <3>1. PICK t \in Int, o \in Int : t = b + m /\ o = 0
      OBVIOUS
    <3>2. Same(t - m, o - o, Q)
      BY <1>1, <1>4, <2>7, <3>1, SameSum
    <3>3. t - m = b /\ o - o = 0
      BY <3>1
    <3> QED BY <3>2, <3>3
  <2>9. Same(d, 0, Q)
    BY <2>4, <2>6, <2>8, FactorDropped
  <2> QED BY <2>2, <2>3, <2>9
<1> QED BY <1>2, <1>4, <1>5 DEF Vanishes

RootsAt(n) ==
    \A a \in Polynomial : \A f : Different(n, f) /\ Vanishes(n, a, f)
        => \A k \in 1..n : Same(a[k], 0, Q)

LEMMA RootsStep ==
    ASSUME NEW n \in Nat, RootsAt(n)
    PROVE  RootsAt(n + 1)
<1>1. PICK w \in Nat : w = n + 1
  OBVIOUS
<1>2. ASSUME NEW a \in Polynomial, NEW f, Different(w, f), Vanishes(w, a, f), NEW k \in 1..w
      PROVE  Same(a[k], 0, Q)
  <2>1. PICK s \in Int : s = f[w]
    <3>1. f[w] \in 1..(Q - 1) /\ Q \in Nat
      BY <1>1, <1>2, FieldAssumption DEF Different
    <3> QED BY <3>1
  <2>2. PICK q : Quotient(n, a, s, q)
    BY QuotientExists
  <2>3. Same(Rest(a, s, q), 0, Q) /\ Vanishes(n, q, f)
    BY <1>1, <1>2, <2>1, <2>2, RestVanishes
  <2>4. Different(n, f)
    <3>1. \A i \in 1..n : i \in 1..w
      BY <1>1
    <3> QED BY <1>2, <3>1 DEF Different
  <2>5. \A j \in 1..n : Same(q[j], 0, Q)
    BY <2>2, <2>3, <2>4 DEF RootsAt, Quotient
  <2>6. Q \in Nat \ {0} /\ q \in Polynomial /\ q[w] = 0 /\ q[0] = 0
    BY <1>1, <2>2, FieldAssumption DEF Quotient
  <2>7. PICK j \in Nat : k = j + 1
    <3>1. k - 1 \in Nat /\ k = (k - 1) + 1
      OBVIOUS
    <3> QED BY <3>1
  <2>8. PICK t \in Int : t = q[k] /\ Same(t, 0, Q)
    <3>1. q[k] \in Int
      BY <2>6 DEF Polynomial
    <3>2. CASE k = w
      <4>1. 0 \in Int /\ Same(0, 0, Q)
        BY <2>6, SameSelf
      <4> QED BY <2>6, <3>2, <4>1
    <3>3. CASE k # w
      <4>1. k \in 1..n
        BY <1>1, <3>3
      <4> QED BY <2>5, <3>1, <4>1
    <3> QED BY <3>2, <3>3
  <2>9. PICK b \in Int : a[k] = b - s * t /\ Same(b, 0, Q)
    <3>1. a[k] \in Int
      BY DEF Polynomial
    <3>2. CASE k = 1
      <4>1. PICK m \in Int : m = Rest(a, s, q) /\ Same(m, 0, Q)
        BY <2>2, <2>3, Division
      <4>2. m = a[k] + s * t
        BY <2>8, <3>2, <4>1 DEF Rest
      <4>3. a[k] = m - s * t
        BY <3>1, <4>2
      <4> QED BY <4>1, <4>3
    <3>3. CASE k # 1
      <4>1. j \in 1..n
        BY <1>1, <2>7, <3>3
      <4>2. q[j] = a[k] + s * t /\ Same(q[j], 0, Q)
        BY <2>2, <2>5, <2>7, <2>8, <4>1 DEF Quotient
      <4>3. PICK b \in Int : b = q[j]
        BY <2>6 DEF Polynomial
      <4>4. a[k] = b - s * t
        BY <3>1, <4>2, <4>3
      <4> QED BY <4>2, <4>3, <4>4
    <3> QED BY <3>2, <3>3
  <2>10. Same(t * s, 0, Q)
    <3>1. PICK o \in Int : o = 0
      OBVIOUS
    <3>2. Same(t * s, o * s, Q)
      BY <2>6, <2>8, <3>1, SameProduct
    <3>3. o * s = 0
      BY <3>1
    <3> QED BY <3>2, <3>3
  <2>11. PICK c \in Int, o \in Int : c = t * s /\ o = 0
    OBVIOUS
  <2>12. Same(b - c, o - o, Q)
    BY <2>6, <2>9, <2>10, <2>11, SameSum
  <2>13. b - c = a[k] /\ o - o = 0
    BY <2>9, <2>11
  <2> QED BY <2>12, <2>13
<1> QED BY <1>1, <1>2 DEF RootsAt

LEMMA Roots ==
    ASSUME NEW n \in Nat
    PROVE  RootsAt(n)
<1> DEFINE T == {k \in Nat : RootsAt(k)}
<1>1. 0 \in T
  BY DEF RootsAt
<1>2. ASSUME NEW k \in 0..(n - 1), k \in T PROVE k + 1 \in T
  <2>1. k \in Nat /\ RootsAt(k) /\ k + 1 \in Nat
    BY <1>2
  <2>2. RootsAt(k + 1)
    BY <2>1, RootsStep
  <2> QED BY <2>1, <2>2
<1>3. n \in T
  <2>1. n \in 0..n
    OBVIOUS
  <2> HIDE DEF T
  <2>2. \A k \in 0..n : k \in T
    BY <1>1, <1>2, UpTo
  <2> QED BY <2>1, <2>2
<1> QED BY <1>3

-----------------------------------------------------------------------------
(* The challenges that tell values out of the range.                        *)

\* The excess as a polynomial in the challenge.
LEMMA ExcessValue ==
    ASSUME NEW w \in [Agg -> Nat], NEW c \in Int, NEW a,
           a = [k \in Int |-> IF k \in Agg THEN Above(w[k]) ELSE 0]
    PROVE  /\ a \in Polynomial /\ ValueOf(AGG_NUM, a, c) \in Int
           /\ Excess(w, c) = (c * c) * ValueOf(AGG_NUM, a, c)
<1>1. PICK m \in Nat : m = AGG_NUM /\ Agg = 1..m
  BY AggLengths
<1>2. a \in Polynomial
  <2>1. ASSUME NEW k \in Agg PROVE Above(w[k]) \in Int
    <3>1. w[k] \in Nat
      OBVIOUS
    <3> QED BY <3>1, AboveIs
  <2> QED BY <2>1 DEF Polynomial
<1>3. PICK d \in Int : d = c * c
  OBVIOUS
<1>4. PICK f : f = [j \in Agg |-> Power(c, j + 1) * Above(w[j])]
  OBVIOUS
<1>5. PICK g : g = Terms(a, c)
  OBVIOUS
<1>6. ASSUME NEW j \in 1..m PROVE g[j] \in Int /\ f[j] = d * g[j]
  <2>1. PICK i \in Nat : j = i + 1
    <3>1. j - 1 \in Nat /\ j = (j - 1) + 1
      OBVIOUS
    <3> QED BY <3>1
  <2>2. PICK p \in Int : p = Power(c, i)
    BY PowerInt
  <2>3. Power(c, j + 1) = c * (c * p)
    <3>1. i + 1 \in Nat /\ j + 1 = (i + 1) + 1
      BY <2>1
    <3>2. Power(c, i + 1) = c * p /\ Power(c, (i + 1) + 1) = c * Power(c, i + 1)
      BY <2>2, <3>1, PowerStep
    <3> QED BY <3>1, <3>2
  <2>4. PICK b \in Int : b = a[j] /\ a[j] = Above(w[j])
    BY <1>1, <1>2 DEF Polynomial
  <2>5. g[j] = b * p
    <3>1. j \in Nat /\ j # 0 /\ j - 1 = i
      BY <2>1
    <3>2. Terms(a, c)[j] = a[j] * Power(c, j - 1)
      BY <1>2, <3>1, TermIs
    <3> QED BY <1>5, <2>2, <2>4, <3>1, <3>2
  <2>6. f[j] = (c * (c * p)) * b
    BY <1>1, <1>4, <2>3, <2>4
  <2>7. (c * (c * p)) * b = (c * c) * (b * p)
    OBVIOUS
  <2> QED BY <1>3, <2>5, <2>6, <2>7
<1>7. SumTo(m, f) = d * SumTo(m, g)
  BY <1>6, SumTimes
<1>8. ValueOf(m, a, c) \in Int
  BY <1>2, ValueStep
<1> QED BY <1>1, <1>2, <1>3, <1>4, <1>5, <1>7, <1>8 DEF Excess, ValueOf

\* Of values below the order of the group that are out of the range, no AGG_NUM
\* different challenges can all miss the excess: the verifier that draws z at
\* random is wrong for at most AGG_NUM - 1 of the challenges.
THEOREM FewUnluckyChallenges ==
    ASSUME NEW w \in [Agg -> 0..(Q - 1)], ~InRange(w),
           NEW f \in [Agg -> Challenges], \A i, j \in Agg : i # j => f[i] # f[j]
    PROVE  \E i \in Agg : Excess(w, f[i]) % Q # 0
<1>1. PICK m \in Nat : m = AGG_NUM /\ Agg = 1..m
  BY AggLengths
<1>2. PICK a : a = [k \in Int |-> IF k \in Agg THEN Above(w[k]) ELSE 0]
  OBVIOUS
<1>3. w \in [Agg -> Nat] /\ Q \in Nat \ {0} /\ Challenges \subseteq 1..(Q - 1)
  BY FieldAssumption
<1>4. a \in Polynomial
  <2>1. 0 \in Int
    OBVIOUS
  <2> QED BY <1>2, <1>3, <2>1, ExcessValue
<1>5. ASSUME \A i \in Agg : Excess(w, f[i]) % Q = 0 PROVE FALSE
  <2>1. ASSUME NEW i \in 1..m PROVE Same(ValueOf(m, a, f[i]), 0, Q)
    <3>1. PICK c \in Int : c = f[i] /\ c \in 1..(Q - 1) /\ i \in Agg
      <4>1. f[i] \in 1..(Q - 1) /\ i \in Agg
        BY <1>1, <1>3
      <4> QED BY <1>3, <4>1
    <3>2. PICK d \in Int : d = ValueOf(m, a, c) /\ Excess(w, c) = (c * c) * d
      <4>1. /\ ValueOf(AGG_NUM, a, c) \in Int
            /\ Excess(w, c) = (c * c) * ValueOf(AGG_NUM, a, c)
        BY <1>2, <1>3, ExcessValue
      <4> QED BY <1>1, <4>1
    <3>3. PICK s \in Int : s = Excess(w, c) /\ s % Q = 0 /\ s = (c * c) * d
      BY <1>5, <3>1, <3>2
    <3>4. Same(s, 0, Q)
      <4>1. PICK o \in Int, n \in Nat \ {0} : o = 0 /\ n = Q
        BY <1>3
      <4>2. o % n = 0
        BY <4>1
      <4>3. s % n = o % n
        BY <3>3, <4>1, <4>2
      <4> QED BY <4>1, <4>3, SameMod
    <3>5. ~Same(c, 0, Q)
      <4>1. PICK n \in Nat, o \in Int : n = Q /\ o = 0
        BY <1>3
      <4>2. ASSUME Same(c, o, n) PROVE FALSE
        <5>1. c \in 0..(n - 1) /\ n \in Nat \ {0}
          BY <1>3, <3>1, <4>1
        <5>2. c = o % n
          BY <4>2, <5>1, SameEqual
        <5>3. o % n = 0 /\ c # 0
          BY <3>1, <4>1, <5>1
        <5> QED BY <5>2, <5>3
      <4> QED BY <4>1, <4>2
    <3>6. PICK t \in Int : t = c * d
      OBVIOUS
    <3>7. s = c * t
      BY <3>3, <3>6
    <3>8. Same(t, 0, Q)
      BY <3>4, <3>5, <3>7, FactorDropped
    <3>9. Same(d, 0, Q)
      BY <3>5, <3>6, <3>8, FactorDropped
    <3> QED BY <3>1, <3>2, <3>9
  <2>2. Different(m, f) /\ Vanishes(m, a, f)
    BY <1>1, <1>3, <2>1 DEF Different, Vanishes
  <2>3. \A k \in 1..m : Same(a[k], 0, Q)
    BY <1>4, <2>2, Roots DEF RootsAt
  <2>4. ASSUME NEW k \in Agg PROVE w[k] < Power(2, RANGE_LEN)
    <3>1. PICK b \in Nat, n \in Nat \ {0} : b = w[k] /\ b \in 0..(n - 1) /\ n = Q
      BY <1>3
    <3>2. PICK h \in Nat : h = Above(b) /\ h <= b
      BY AboveIs
    <3>3. a[k] = h /\ Same(h, 0, n)
      BY <1>1, <1>2, <2>3, <3>1, <3>2
    <3>4. PICK o \in Int : o = 0 /\ o % n = 0
      OBVIOUS
    <3>5. h \in 0..(n - 1)
      BY <3>1, <3>2
    <3>6. h = o % n
      BY <3>3, <3>4, <3>5, SameEqual
    <3> QED BY <3>1, <3>2, <3>4, <3>6, AboveIs
  <2> QED BY <2>4 DEF InRange
<1> QED BY <1>5

\* A proof for one value below the order of the group, as the gadgets make it
\* (gadgets.hpp:46), is accepted only for a value in the range, whatever the
\* challenges.
THEOREM SingleOutOfRangeRejected ==
    ASSUME AGG_NUM = 1, Values \subseteq 0..(Q - 1)
    PROVE  Spec => []OnlyInRange
<1>1. TellsApart
  <2>1. ASSUME NEW w \in [Agg -> Values], NEW c \in Challenges, ~InRange(w)
        PROVE  Excess(w, c) % Q # 0
    <3>1. Agg = {1} /\ w \in [Agg -> 0..(Q - 1)]
      <4>1. Agg = 1..1
        BY DEF Agg
      <4>2. w \in [Agg -> 0..(Q - 1)]
        BY <2>1
      <4>3. Agg = {1}
        BY <4>1
      <4> QED BY <4>2, <4>3
    <3>2. PICK f : f = [i \in Agg |-> c]
      OBVIOUS
    <3>3. /\ f \in [Agg -> Challenges]
          /\ \A i, j \in Agg : i # j => f[i] # f[j]
      BY <3>1, <3>2
    <3>4. PICK i \in Agg : Excess(w, f[i]) % Q # 0
      BY <2>1, <3>1, <3>3, FewUnluckyChallenges
    <3> QED BY <3>2, <3>4
  <2> QED BY <2>1 DEF TellsApart
<1> QED BY <1>1, OutOfRangeRejected

=============================================================================
