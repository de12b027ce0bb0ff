------------------------------ MODULE TxTheorems ------------------------------
(***************************************************************************)
(* The sigma protocols and the signature convince and hide in any group of *)
(* prime order, for any statement and any prover; and the verifiers of the *)
(* five transactions and of the two gadgets accept what this program makes *)
(* exactly when the relation of LedgerMazeTx holds and, for a refresh, its *)
(* random numbers keep their value as scalars.                             *)
(***************************************************************************)
EXTENDS TxProofs, NumberTheorems

LEMMA OrderIn == Q \in Nat \ {0}
BY GroupAssumption

LEMMA RestIn ==
    ASSUME NEW a \in Int
    PROVE  a % Q \in Scalar /\ a % Q \in Int /\ Same(a % Q, a, Q)
<1>1. a % Q \in Scalar /\ a % Q \in Int
  BY OrderIn DEF Scalar
<1> QED BY <1>1, OrderIn, SameRest

\* A row of bases and its witness, with 0 in the place of a second one.
RowOf(row) == Len(row) \in {1, 2} /\ row \in [1..Len(row) -> Point]
Base(row, k) == IF k <= Len(row) THEN row[k] ELSE Infinity
Part(w, k) == IF k \in DOMAIN w THEN w[k] ELSE 0

\* The exponent a row stands for, before it is reduced.
Linear(a, b, w1, w2) == a * w1 + b * w2
RowAt(row, w, c) == Linear(Base(row, 1)[c], Base(row, 2)[c], Part(w, 1), Part(w, 2))

LEMMA BaseType ==
    ASSUME NEW row, RowOf(row), NEW k \in {1, 2}, NEW c \in {1, 2}
    PROVE  Base(row, k)[c] \in Int
<1>1. \A p \in Point : p[c] \in Int
  BY GroupAssumption DEF Point, Scalar
<1>2. Infinity \in Point
  BY GroupAssumption DEF Point, Scalar, Infinity
<1> QED BY <1>1, <1>2 DEF RowOf, Base

LEMMA CombineAt ==
    ASSUME NEW row, RowOf(row), NEW w \in [1..Len(row) -> Int]
    PROVE  /\ Combine(row, w) \in Point
           /\ Part(w, 1) \in Int /\ Part(w, 2) \in Int
           /\ \A c \in {1, 2} : /\ RowAt(row, w, c) \in Int
                                /\ Same(Combine(row, w)[c], RowAt(row, w, c), Q)
<1>1. Part(w, 1) \in Int /\ Part(w, 2) \in Int
  BY DEF Part
<1>2. \A c \in {1, 2} : Base(row, 1)[c] \in Int /\ Base(row, 2)[c] \in Int
  BY BaseType
<1>3. ASSUME NEW c \in {1, 2}
      PROVE  /\ RowAt(row, w, c) \in Int
             /\ Combine(row, w)[c] \in Scalar
             /\ Same(Combine(row, w)[c], RowAt(row, w, c), Q)
  <2>1. PICK a \in Int : a = Base(row, 1)[c]
    BY <1>2
  <2>2. PICK b \in Int : b = Base(row, 2)[c]
    BY <1>2
  <2>3. PICK w1 \in Int : w1 = Part(w, 1)
    BY <1>1
  <2>4. PICK w2 \in Int : w2 = Part(w, 2)
    BY <1>1
  <2>5. PICK m \in Int : m = a * w1
    OBVIOUS
  <2>6. PICK n \in Int : n = b * w2
    OBVIOUS
  <2>7. RowAt(row, w, c) = m + n
    BY <2>1, <2>2, <2>3, <2>4, <2>5, <2>6 DEF RowAt, Linear
  <2>8. CASE Len(row) = 1
    <3>1. n = 0
      BY <2>2, <2>6, <2>8, <2>4 DEF Base, Part
    <3>2. Combine(row, w)[c] = m % Q
      <4>1. w[1] = w1 /\ row[1][c] = a
        BY <2>1, <2>3, <2>8 DEF Base, Part
      <4>2. Combine(row, w)[c] = (row[1][c] * w[1]) % Q
        <5>1. Combine(row, w) = Times(row[1], w[1])
          BY <2>8 DEF Combine
        <5>2. \A p, e : Times(p, e)[c] = (p[c] * e) % Q
          BY DEF Times
        <5> QED BY <5>1, <5>2
      <4>3. (row[1][c] * w[1]) % Q = (a * w1) % Q
        BY <4>1
      <4> QED BY <4>2, <4>3, <2>5
    <3>3. Same(m % Q, m, Q) /\ m % Q \in Scalar
      BY RestIn
    <3>4. m + n = m
      BY <3>1
    <3> QED BY <2>7, <3>2, <3>3, <3>4
  <2>9. CASE Len(row) = 2
    <3>1. w[1] = w1 /\ w[2] = w2 /\ row[1][c] = a /\ row[2][c] = b
      BY <2>1, <2>2, <2>3, <2>4, <2>9 DEF Base, Part
    <3>2. PICK k \in Int, l \in Int : k = m % Q /\ l = n % Q
      BY RestIn
    <3>3. Same(k, m, Q) /\ Same(l, n, Q)
      BY <3>2, RestIn
    <3>4. Combine(row, w)[c] = (k + l) % Q
      <4>1. Combine(row, w) = Plus(Times(row[1], w[1]), Times(row[2], w[2]))
        BY <2>9 DEF Combine
      <4>2. \A p, e : Times(p, e)[c] = (p[c] * e) % Q
        BY DEF Times
      <4>3. \A p, q : Plus(p, q)[c] = (p[c] + q[c]) % Q
        BY DEF Plus
      <4>4. (row[1][c] * w[1]) % Q = k /\ (row[2][c] * w[2]) % Q = l
        <5>1. (row[1][c] * w[1]) % Q = (a * w1) % Q
          BY <3>1
        <5>2. (row[2][c] * w[2]) % Q = (b * w2) % Q
          BY <3>1
        <5> QED BY <5>1, <5>2, <2>5, <2>6, <3>2
      <4>5. Times(row[1], w[1])[c] = k /\ Times(row[2], w[2])[c] = l
        BY <4>2, <4>4
      <4> QED BY <4>1, <4>3, <4>5
    <3>5. Same(k + l, m + n, Q)
      BY <3>3, OrderIn, SameSum
    <3>6. PICK s \in Int : s = k + l
      OBVIOUS
    <3>7. Same(s % Q, s, Q) /\ s % Q \in Scalar /\ s % Q \in Int
      BY RestIn
    <3>8. PICK t \in Int : t = m + n
      OBVIOUS
    <3>9. Same(s % Q, t, Q)
      BY <3>5, <3>6, <3>7, <3>8, OrderIn, SameTrans
    <3> QED BY <2>7, <3>4, <3>6, <3>7, <3>8, <3>9
  <2> QED BY <2>8, <2>9 DEF RowOf
<1>4. Combine(row, w) = <<Combine(row, w)[1], Combine(row, w)[2]>>
  BY DEF Combine, Times, Plus
<1>5. Combine(row, w) \in Point
  BY <1>3, <1>4 DEF Point
<1> QED BY <1>1, <1>3, <1>5

-----------------------------------------------------------------------------
(* One equation of a statement, in the exponents of one generator. *)

\* Two answers z and y to the challenges e and f make the statement out.
LEMMA ExtractAt ==
    ASSUME NEW a \in Int, NEW b \in Int, NEW z1 \in Int, NEW z2 \in Int,
           NEW y1 \in Int, NEW y2 \in Int, NEW com \in Int, NEW stmt \in Int,
           NEW e \in Int, NEW f \in Int, NEW d \in Int,
           Same(Linear(a, b, z1, z2), com + stmt * e, Q),
           Same(Linear(a, b, y1, y2), com + stmt * f, Q),
           Same((e - f) * d, 1, Q)
    PROVE  Same(Linear(a, b, (z1 - y1) * d, (z2 - y2) * d), stmt, Q)
<1>1. PICK lz \in Int, ly \in Int :
          lz = Linear(a, b, z1, z2) /\ ly = Linear(a, b, y1, y2)
  BY DEF Linear
<1>2. PICK r \in Int, s \in Int : r = com + stmt * e /\ s = com + stmt * f
  OBVIOUS
<1>3. PICK k \in Int, l \in Int : k = lz - ly /\ l = r - s
  OBVIOUS
<1>4. Same(k, l, Q)
  BY <1>1, <1>2, <1>3, OrderIn, SameSum
<1>5. Same(k * d, l * d, Q)
  BY <1>4, OrderIn, SameProduct
<1>6. Linear(a, b, (z1 - y1) * d, (z2 - y2) * d) = k * d
  BY <1>1, <1>3 DEF Linear
<1>7. PICK u \in Int : u = (e - f) * d
  OBVIOUS
<1>8. l * d = u * stmt
  BY <1>2, <1>3, <1>7
<1>9. Same(u * stmt, stmt, Q)
  BY <1>7, OrderIn, SameUnit
<1>10. k * d \in Int /\ u * stmt \in Int
  OBVIOUS
<1> QED BY <1>5, <1>6, <1>8, <1>9, <1>10, OrderIn, SameTrans

\* The answer z to the challenge e, less e times a witness w, makes the first
\* message out.
LEMMA SimulateAt ==
    ASSUME NEW a \in Int, NEW b \in Int, NEW z1 \in Int, NEW z2 \in Int,
           NEW w1 \in Int, NEW w2 \in Int, NEW com \in Int, NEW stmt \in Int,
           NEW e \in Int,
           Same(Linear(a, b, z1, z2), com + stmt * e, Q),
           Same(Linear(a, b, w1, w2), stmt, Q)
    PROVE  Same(Linear(a, b, z1 - e * w1, z2 - e * w2), com, Q)
<1>1. PICK lz \in Int, lw \in Int :
          lz = Linear(a, b, z1, z2) /\ lw = Linear(a, b, w1, w2)
  BY DEF Linear
<1>2. PICK r \in Int : r = com + stmt * e
  OBVIOUS
<1>3. Same(lw * e, stmt * e, Q)
  BY <1>1, OrderIn, SameProduct
<1>4. PICK k \in Int, l \in Int : k = lw * e /\ l = stmt * e
  OBVIOUS
<1>5. Same(lz - k, r - l, Q)
  BY <1>1, <1>2, <1>3, <1>4, OrderIn, SameSum
<1>6. r - l = com
  BY <1>2, <1>4
<1>7. Linear(a, b, z1 - e * w1, z2 - e * w2) = lz - k
  BY <1>1, <1>4 DEF Linear
<1> QED BY <1>5, <1>6, <1>7

\* Coefficients may be replaced by ones that are the same.
LEMMA LinearSame ==
    ASSUME NEW a \in Int, NEW b \in Int, NEW w1 \in Int, NEW w2 \in Int,
           NEW v1 \in Int, NEW v2 \in Int, Same(w1, v1, Q), Same(w2, v2, Q)
    PROVE  Same(Linear(a, b, w1, w2), Linear(a, b, v1, v2), Q)
<1>1. Same(w1 * a, v1 * a, Q) /\ Same(w2 * b, v2 * b, Q)
  BY OrderIn, SameProduct
<1>2. PICK k1 \in Int, k2 \in Int, l1 \in Int, l2 \in Int :
          k1 = w1 * a /\ k2 = w2 * b /\ l1 = v1 * a /\ l2 = v2 * b
  OBVIOUS
<1>3. Same(k1 + k2, l1 + l2, Q)
  BY <1>1, <1>2, OrderIn, SameSum
<1>4. Linear(a, b, w1, w2) = k1 + k2 /\ Linear(a, b, v1, v2) = l1 + l2
  BY <1>2 DEF Linear
<1> QED BY <1>3, <1>4

-----------------------------------------------------------------------------
(* One equation of a statement. *)

LEMMA PointsEqual ==
    ASSUME NEW p \in Point, NEW q \in Point,
           \A c \in {1, 2} : Same(p[c], q[c], Q)
    PROVE  p = q
<1>1. \A c \in {1, 2} : p[c] \in Scalar /\ q[c] \in Scalar
  BY DEF Point
<1>2. ASSUME NEW c \in {1, 2} PROVE p[c] = q[c]
  <2>1. PICK a \in Scalar, b \in Scalar : a = p[c] /\ b = q[c]
    BY <1>1
  <2>2. b \in Int /\ a \in 0..(Q - 1) /\ b % Q = b
    BY OrderIn DEF Scalar
  <2> QED BY <2>1, <2>2, OrderIn, SameEqual
<1>3. p = <<p[1], p[2]>> /\ q = <<q[1], q[2]>>
  BY DEF Point
<1> QED BY <1>2, <1>3

LEMMA ShiftAt ==
    ASSUME NEW p \in Point, NEW q \in Point, NEW e \in Int, NEW c \in {1, 2}
    PROVE  /\ p[c] \in Int /\ q[c] \in Int
           /\ Plus(p, Times(q, e))[c] \in Int
           /\ Same(Plus(p, Times(q, e))[c], p[c] + q[c] * e, Q)
<1>1. PICK a \in Int, b \in Int : a = p[c] /\ b = q[c]
  BY OrderIn DEF Point, Scalar
<1>2. PICK m \in Int : m = b * e
  OBVIOUS
<1>3. PICK k \in Int : k = m % Q /\ Same(k, m, Q)
  BY RestIn
<1>4. PICK s \in Int, t \in Int : s = a + k /\ t = a + m
  OBVIOUS
<1>5. Same(a, a, Q)
  BY OrderIn, SameMod
<1>6. Same(s, t, Q)
  BY <1>3, <1>4, <1>5, OrderIn, SameSum
<1>7. Same(s % Q, s, Q) /\ s % Q \in Int
  BY RestIn
<1>8. Same(s % Q, t, Q)
  BY <1>6, <1>7, OrderIn, SameTrans
<1>9. Plus(p, Times(q, e))[c] = s % Q
  <2>1. \A u, v : Plus(u, v)[c] = (u[c] + v[c]) % Q
    BY DEF Plus
  <2>2. Times(q, e)[c] = (q[c] * e) % Q
    BY DEF Times
  <2>3. (q[c] * e) % Q = (b * e) % Q
    BY <1>1
  <2> QED BY <1>1, <1>2, <1>3, <1>4, <2>1, <2>2, <2>3
<1> QED BY <1>1, <1>2, <1>4, <1>7, <1>8, <1>9

\* The equation that Check and Phi state of a row, in one coordinate.
LEMMA CheckedAt ==
    ASSUME NEW row, RowOf(row), NEW z \in [1..Len(row) -> Scalar],
           NEW com \in Point, NEW stmt \in Point, NEW e \in Int,
           Combine(row, z) = Plus(com, Times(stmt, e)), NEW c \in {1, 2}
    PROVE  Same(RowAt(row, z, c), com[c] + stmt[c] * e, Q)
<1>1. z \in [1..Len(row) -> Int]
  BY OrderIn DEF Scalar
<1>2. PICK k \in Int : k = RowAt(row, z, c) /\ Same(Combine(row, z)[c], k, Q)
  BY <1>1, CombineAt
<1>3. PICK l \in Int : /\ l = com[c] + stmt[c] * e
                       /\ Same(Plus(com, Times(stmt, e))[c], l, Q)
  <2>1. com[c] \in Int /\ stmt[c] \in Int
    BY ShiftAt
  <2>2. com[c] + stmt[c] * e \in Int
    BY <2>1
  <2> QED BY <2>2, ShiftAt
<1>4. PICK m \in Int : m = Combine(row, z)[c]
  <2>1. Combine(row, z) \in Point
    BY <1>1, CombineAt
  <2>2. \A p \in Point : p[c] \in Int
    BY OrderIn DEF Point, Scalar
  <2> QED BY <2>1, <2>2
<1> QED BY <1>2, <1>3, <1>4, OrderIn, SameReverse, SameTrans

LEMMA InverseRight ==
    ASSUME NEW e \in Unit, NEW f \in Unit, e # f
    PROVE  /\ Inverse((e - f) % Q) \in Int
           /\ Same((e - f) * Inverse((e - f) % Q), 1, Q)
<1>1. PICK k \in Int, g \in Int : k = e - f /\ g = k % Q /\ Same(g, k, Q)
  <2>1. PICK k \in Int : k = e - f
    BY OrderIn DEF Unit
  <2> QED BY <2>1, RestIn
<1>2. g \in Unit
  <2>1. g \in 0..(Q - 1)
    BY <1>1, RestIn DEF Scalar
  <2>2. ASSUME g = 0 PROVE FALSE
    <3>1. PICK q \in Int : k = Q * q
      <4>1. PICK q \in Int : k = Q * q + (k % Q)
        BY OrderIn, DivMod
      <4>2. k % Q = 0
        BY <1>1, <2>2
      <4> QED BY <4>1, <4>2, OrderIn
    <3>2. -Q < k /\ k < Q /\ k # 0
      BY <1>1, OrderIn DEF Unit
    <3>3. q >= 1 \/ q <= -1 \/ q = 0
      OBVIOUS
    <3>4. q >= 1 => Q * q >= Q
      BY OrderIn
    <3>5. q <= -1 => Q * q <= -Q
      BY OrderIn
    <3> QED BY <3>1, <3>2, <3>3, <3>4, <3>5, OrderIn
  <2> QED BY <2>1, <2>2, OrderIn DEF Unit
<1>3. PICK d \in Unit : d = Inverse(g) /\ (g * d) % Q = 1
  <2>1. \E y \in Unit : (g * y) % Q = 1
    BY <1>2, GroupAssumption
  <2>2. g # 0
    BY <1>2, OrderIn DEF Unit
  <2> QED BY <2>1, <2>2 DEF Inverse
<1>4. d \in Int
  BY OrderIn DEF Unit
<1>5. PICK m \in Int, n \in Int, i \in Int : m = g * d /\ n = k * d /\ i = 1
  BY <1>4
<1>6. Same(m, n, Q)
  BY <1>1, <1>4, <1>5, OrderIn, SameProduct
<1>7. Same(m, i, Q)
  <2>1. m % Q = i % Q
    BY <1>3, <1>5, GroupAssumption
  <2> QED BY <2>1, OrderIn, SameMod
<1>8. Same(n, i, Q)
  BY <1>6, <1>7, OrderIn, SameReverse, SameTrans
<1> QED BY <1>1, <1>3, <1>4, <1>5, <1>8

LEMMA ExtractRow ==
    ASSUME NEW row, RowOf(row),
           NEW z \in [1..Len(row) -> Scalar], NEW y \in [1..Len(row) -> Scalar],
           NEW com \in Point, NEW stmt \in Point,
           NEW e \in Unit, NEW f \in Unit, e # f,
           Combine(row, z) = Plus(com, Times(stmt, e)),
           Combine(row, y) = Plus(com, Times(stmt, f))
    PROVE  Combine(row, Extracted(<<e, z>>, <<f, y>>)) = stmt
<1> DEFINE x == [n \in DOMAIN z |-> ((z[n] - y[n]) * Inverse((e - f) % Q)) % Q]
<1>1. PICK d \in Int : d = Inverse((e - f) % Q) /\ Same((e - f) * d, 1, Q)
  BY InverseRight
<1>2. e \in Int /\ f \in Int
  BY OrderIn DEF Unit
<1>3. z \in [1..Len(row) -> Int] /\ y \in [1..Len(row) -> Int]
  BY OrderIn DEF Scalar
<1>4. ASSUME NEW n \in 1..Len(row)
      PROVE  x[n] \in Int /\ Same(x[n], (z[n] - y[n]) * d, Q)
  <2>1. PICK k \in Int : k = (z[n] - y[n]) * d
    BY <1>3
  <2>2. x[n] = k % Q
    BY <1>1, <2>1
  <2> QED BY <2>1, <2>2, RestIn
<1>5. x \in [1..Len(row) -> Int]
  BY <1>4
<1> HIDE DEF x
<1>6. ASSUME NEW k \in {1, 2}
      PROVE  /\ Part(x, k) \in Int /\ Part(z, k) \in Int /\ Part(y, k) \in Int
             /\ (Part(z, k) - Part(y, k)) * d \in Int
             /\ Same(Part(x, k), (Part(z, k) - Part(y, k)) * d, Q)
  <2>1. CASE k \in 1..Len(row)
    <3>1. Part(x, k) = x[k] /\ Part(z, k) = z[k] /\ Part(y, k) = y[k]
      BY <1>3, <1>5, <2>1 DEF Part
    <3>2. z[k] \in Int /\ y[k] \in Int /\ x[k] \in Int
      BY <1>3, <1>5, <2>1
    <3>3. (z[k] - y[k]) * d \in Int
      BY <3>2
    <3> QED BY <1>4, <2>1, <3>1, <3>2, <3>3
  <2>2. CASE k \notin 1..Len(row)
    <3>1. Part(x, k) = 0 /\ Part(z, k) = 0 /\ Part(y, k) = 0
      BY <1>3, <1>5, <2>2 DEF Part
    <3>2. PICK o \in Int : o = 0
      OBVIOUS
    <3>3. (o - o) * d = o
      BY <3>2
    <3>4. Same(o, o, Q)
      BY OrderIn, SameMod
    <3> QED BY <3>1, <3>2, <3>3, <3>4
  <2> QED BY <2>1, <2>2
<1>7. ASSUME NEW c \in {1, 2} PROVE Same(Combine(row, x)[c], stmt[c], Q)
  <2>1. PICK a \in Int, b \in Int : a = Base(row, 1)[c] /\ b = Base(row, 2)[c]
    BY BaseType
  <2>2. PICK z1 \in Int, z2 \in Int, y1 \in Int, y2 \in Int :
            z1 = Part(z, 1) /\ z2 = Part(z, 2) /\ y1 = Part(y, 1) /\ y2 = Part(y, 2)
    BY <1>6
  <2>3. PICK x1 \in Int, x2 \in Int :
            /\ x1 = Part(x, 1) /\ x2 = Part(x, 2)
            /\ Same(x1, (z1 - y1) * d, Q) /\ Same(x2, (z2 - y2) * d, Q)
    BY <1>6, <2>2
  <2>4. PICK m \in Int, s \in Int : m = com[c] /\ s = stmt[c]
    BY ShiftAt
  <2>5. Same(Linear(a, b, z1, z2), m + s * e, Q)
    BY <1>2, <2>1, <2>2, <2>4, CheckedAt DEF RowAt
  <2>6. Same(Linear(a, b, y1, y2), m + s * f, Q)
    BY <1>2, <2>1, <2>2, <2>4, CheckedAt DEF RowAt
  <2>7. PICK v1 \in Int, v2 \in Int : v1 = (z1 - y1) * d /\ v2 = (z2 - y2) * d
    OBVIOUS
  <2>8. Same(Linear(a, b, v1, v2), s, Q)
    BY <1>1, <1>2, <2>5, <2>6, <2>7, ExtractAt
  <2>9. Same(Linear(a, b, x1, x2), Linear(a, b, v1, v2), Q)
    BY <2>3, <2>7, LinearSame
  <2>10. PICK k \in Int, l \in Int :
             k = Linear(a, b, x1, x2) /\ l = Linear(a, b, v1, v2)
    BY DEF Linear
  <2>11. Same(k, s, Q)
    BY <2>8, <2>9, <2>10, OrderIn, SameTrans
  <2>12. RowAt(row, x, c) = k
    BY <2>1, <2>3, <2>10 DEF RowAt
  <2>13. Same(Combine(row, x)[c], k, Q)
    BY <1>5, <2>12, CombineAt
  <2>14. PICK r \in Int : r = Combine(row, x)[c]
    BY <1>5, CombineAt, ShiftAt
  <2> QED BY <2>4, <2>11, <2>13, <2>14, OrderIn, SameTrans
<1>8. Combine(row, x) \in Point
  BY <1>5, CombineAt
<1>9. Extracted(<<e, z>>, <<f, y>>) = x
  BY DEF Extracted, x
<1> QED BY <1>7, <1>8, <1>9, PointsEqual

\* The randomness with which the answer to e is z.
Simulated(z, e, w) == [n \in DOMAIN w |-> (z[n] - e * w[n]) % Q]

LEMMA SimulateRow ==
    ASSUME NEW row, RowOf(row),
           NEW z \in [1..Len(row) -> Scalar], NEW w \in [1..Len(row) -> Scalar],
           NEW com \in Point, NEW stmt \in Point, NEW e \in Unit,
           Combine(row, z) = Plus(com, Times(stmt, e)), Combine(row, w) = stmt
    PROVE  Combine(row, Simulated(z, e, w)) = com
<1> DEFINE x == Simulated(z, e, w)
<1>1. e \in Int
  BY OrderIn DEF Unit
<1>2. z \in [1..Len(row) -> Int] /\ w \in [1..Len(row) -> Int]
  BY OrderIn DEF Scalar
<1>3. ASSUME NEW n \in 1..Len(row)
      PROVE  x[n] \in Int /\ Same(x[n], z[n] - e * w[n], Q)
  <2>1. PICK k \in Int : k = z[n] - e * w[n]
    BY <1>1, <1>2
  <2>2. x[n] = k % Q
    BY <2>1 DEF Simulated
  <2> QED BY <2>1, <2>2, RestIn
<1>4. x \in [1..Len(row) -> Int]
  BY <1>3 DEF Simulated
<1> HIDE DEF x
<1>5. ASSUME NEW k \in {1, 2}
      PROVE  /\ Part(x, k) \in Int /\ Part(z, k) \in Int /\ Part(w, k) \in Int
             /\ Part(z, k) - e * Part(w, k) \in Int
             /\ Same(Part(x, k), Part(z, k) - e * Part(w, k), Q)
  <2>1. CASE k \in 1..Len(row)
    <3>1. Part(x, k) = x[k] /\ Part(z, k) = z[k] /\ Part(w, k) = w[k]
      BY <1>2, <1>4, <2>1 DEF Part
    <3>2. z[k] \in Int /\ w[k] \in Int /\ x[k] \in Int
      BY <1>2, <1>4, <2>1
    <3>3. z[k] - e * w[k] \in Int
      BY <1>1, <3>2
    <3> QED BY <1>3, <2>1, <3>1, <3>2, <3>3
  <2>2. CASE k \notin 1..Len(row)
    <3>1. Part(x, k) = 0 /\ Part(z, k) = 0 /\ Part(w, k) = 0
      BY <1>2, <1>4, <2>2 DEF Part
    <3>2. PICK o \in Int : o = 0
      OBVIOUS
    <3>3. o - e * o = o
      BY <1>1, <3>2
    <3>4. Same(o, o, Q)
      BY OrderIn, SameMod
    <3> QED BY <3>1, <3>2, <3>3, <3>4
  <2> QED BY <2>1, <2>2
<1>6. ASSUME NEW c \in {1, 2} PROVE Same(Combine(row, x)[c], com[c], Q)
  <2>1. PICK a \in Int, b \in Int : a = Base(row, 1)[c] /\ b = Base(row, 2)[c]
    BY BaseType
  <2>2. PICK z1 \in Int, z2 \in Int, w1 \in Int, w2 \in Int :
            z1 = Part(z, 1) /\ z2 = Part(z, 2) /\ w1 = Part(w, 1) /\ w2 = Part(w, 2)
    BY <1>5
  <2>3. PICK x1 \in Int, x2 \in Int :
            /\ x1 = Part(x, 1) /\ x2 = Part(x, 2)
            /\ Same(x1, z1 - e * w1, Q) /\ Same(x2, z2 - e * w2, Q)
    BY <1>5, <2>2
  <2>4. PICK m \in Int, s \in Int : m = com[c] /\ s = stmt[c]
    BY ShiftAt
  <2>5. Same(Linear(a, b, z1, z2), m + s * e, Q)
    BY <1>1, <2>1, <2>2, <2>4, CheckedAt DEF RowAt
  <2>6. Same(Linear(a, b, w1, w2), s, Q)
    <3>1. PICK k \in Int : k = RowAt(row, w, c) /\ Same(Combine(row, w)[c], k, Q)
      BY <1>2, CombineAt
    <3>2. Same(k, s, Q)
      BY <2>4, <3>1, OrderIn, SameReverse
    <3> QED BY <2>1, <2>2, <3>1, <3>2 DEF RowAt
  <2>7. PICK v1 \in Int, v2 \in Int : v1 = z1 - e * w1 /\ v2 = z2 - e * w2
    BY <1>1
  <2>8. Same(Linear(a, b, v1, v2), m, Q)
    BY <1>1, <2>5, <2>6, <2>7, SimulateAt
  <2>9. Same(Linear(a, b, x1, x2), Linear(a, b, v1, v2), Q)
    BY <2>3, <2>7, LinearSame
  <2>10. PICK k \in Int, l \in Int :
             k = Linear(a, b, x1, x2) /\ l = Linear(a, b, v1, v2)
    BY DEF Linear
  <2>11. Same(k, m, Q)
    BY <2>8, <2>9, <2>10, OrderIn, SameTrans
  <2>12. RowAt(row, x, c) = k
    BY <2>1, <2>3, <2>10 DEF RowAt
  <2>13. Same(Combine(row, x)[c], k, Q)
    BY <1>4, <2>12, CombineAt
  <2>14. PICK r \in Int : r = Combine(row, x)[c]
    BY <1>4, CombineAt, ShiftAt
  <2> QED BY <2>4, <2>11, <2>13, <2>14, OrderIn, SameTrans
<1>7. Combine(row, x) \in Point
  BY <1>4, CombineAt
<1> QED BY <1>6, <1>7, PointsEqual DEF x

-----------------------------------------------------------------------------
(* A session with an arbitrary prover. *)

\* The bases of a protocol: rows of one length, of points.
BasesOf(b) ==
    /\ \A i \in DOMAIN b : RowOf(b[i]) /\ Len(b[i]) = Len(b[1])
    /\ 1 \in DOMAIN b

LEMMA AnyBasesOf == ASSUME NEW b \in AnyBases PROVE BasesOf(b)
<1>1. G \in Point /\ H \in Point /\ Infinity \in Point
  BY GroupAssumption DEF G, H, Infinity, Point, Scalar
<1>2. \A e \in Int : Times(G, e) \in Point
  <2>1. ASSUME NEW e \in Int PROVE Times(G, e) \in Point
    <3>1. (1 * e) % Q \in Scalar /\ (0 * e) % Q \in Scalar
      BY RestIn
    <3> QED BY <3>1 DEF Times, G, Point
  <2> QED BY <2>1
<1>3. PICK k1 \in Point, k2 \in Point : k1 = Times(G, 2) /\ k2 = Times(G, 3)
  BY <1>2
<1>4. \A p \in Point : RowOf(<<p>>) /\ Len(<<p>>) = 1
  BY DEF RowOf
<1>5. \A p, q \in Point : RowOf(<<p, q>>) /\ Len(<<p, q>>) = 2
  BY DEF RowOf
<1>6. CASE b = SignBases
  BY <1>1, <1>4, <1>6 DEF SignBases, BasesOf
<1>7. CASE b = DlogBases(G, k1)
  BY <1>1, <1>3, <1>4, <1>7 DEF DlogBases, BasesOf
<1>8. CASE b = KnowledgeBases(k1)
  BY <1>1, <1>3, <1>5, <1>8 DEF KnowledgeBases, BasesOf
<1>9. CASE b = EqualityBases(k1, k2)
  BY <1>1, <1>3, <1>5, <1>9 DEF EqualityBases, BasesOf
<1> QED BY <1>3, <1>6, <1>7, <1>8, <1>9 DEF AnyBases

\* The statement and the first message are points, and what was accepted are
\* answers to different challenges that satisfy the verifier's equations.
Bases == jobs[1].bases
Stmt == jobs[1].stmt
Com == proof[1].com
Talk ==
    /\ BasesOf(Bases)
    /\ Stmt \in [DOMAIN Bases -> Point] /\ Com \in [DOMAIN Bases -> Point]
    /\ accepted \subseteq Unit \X Witness(Bases)
    /\ \A p \in accepted : Check(Bases, Stmt, Com, p[1], p[2])
    /\ \A p, q \in accepted : p[1] = q[1] => p = q
TalkInv == IF phase = "any" THEN Talk ELSE accepted = {}

LEMMA TalkInit == Init => TalkInv
<1> SUFFICES ASSUME Init PROVE TalkInv
  OBVIOUS
<1>1. CASE HonestInit
  BY <1>1 DEF Init, HonestInit, TalkInv
<1>2. CASE AnyInit
  <2>1. PICK b \in AnyBases : \E stmt, com \in [DOMAIN b -> AnyPoints] :
            /\ jobs = <<Job("any", b, stmt, <<>>)>>
            /\ proof = <<[com |-> com, z |-> <<>>]>>
    BY <1>2 DEF AnyInit
  <2>2. PICK stmt \in [DOMAIN b -> AnyPoints], com \in [DOMAIN b -> AnyPoints] :
            /\ jobs = <<Job("any", b, stmt, <<>>)>>
            /\ proof = <<[com |-> com, z |-> <<>>]>>
    BY <2>1
  <2>3. Bases = b /\ Stmt = stmt /\ Com = com
    BY <2>2 DEF Bases, Stmt, Com, Job
  <2>4. stmt \in [DOMAIN b -> Point] /\ com \in [DOMAIN b -> Point]
    BY ChallengeAssumption
  <2>5. accepted = {} /\ phase = "any"
    BY <1>2 DEF Init, AnyInit
  <2> QED BY <2>3, <2>4, <2>5, AnyBasesOf DEF TalkInv, Talk
<1> QED BY <1>1, <1>2 DEF Init

LEMMA TalkStep == TalkInv /\ [Next]_vars => TalkInv'
<1> SUFFICES ASSUME TalkInv, [Next]_vars PROVE TalkInv'
  OBVIOUS
<1>1. ASSUME phase # "any", phase' # "any", UNCHANGED accepted PROVE TalkInv'
  BY <1>1 DEF TalkInv
<1>2. CASE Prove \/ ProveRange \/ ProveMember \/ TooLarge
  BY <1>1, <1>2 DEF Prove, ProveRange, ProveMember, Proved, TooLarge
<1>3. CASE Verify \/ VerifyRange \/ VerifyMember
  BY <1>1, <1>3 DEF Verify, VerifyRange, VerifyMember, Verified
<1>4. CASE Answer
  <2>1. PICK e \in Unit, z \in Witness(Bases) :
            /\ \A p \in accepted : p[1] # e
            /\ Check(Bases, Stmt, Com, e, z)
            /\ accepted' = accepted \cup {<<e, z>>}
    BY <1>4 DEF Answer, Bases, Stmt, Com
  <2>2. /\ UNCHANGED <<Bases, Stmt, Com, phase>> /\ phase = "any"
    BY <1>4 DEF Answer, Bases, Stmt, Com
  <2>3. Talk
    BY <2>2 DEF TalkInv
  <2>4. Talk'
    <3>1. /\ BasesOf(Bases)' /\ (Stmt \in [DOMAIN Bases -> Point])'
          /\ (Com \in [DOMAIN Bases -> Point])'
      BY <2>2, <2>3 DEF Talk
    <3>2. (accepted \subseteq Unit \X Witness(Bases))'
      BY <2>1, <2>2, <2>3 DEF Talk
    <3>3. \A p \in accepted' : Check(Bases, Stmt, Com, p[1], p[2])'
      BY <2>1, <2>2, <2>3 DEF Talk
    <3>4. \A p, q \in accepted' : p[1] = q[1] => p = q
      BY <2>1, <2>3 DEF Talk
    <3> QED BY <3>1, <3>2, <3>3, <3>4 DEF Talk
  <2> QED BY <2>2, <2>4 DEF TalkInv
<1>5. CASE UNCHANGED vars
  BY <1>5 DEF vars, TalkInv, Talk, Bases, Stmt, Com
<1> QED BY <1>2, <1>3, <1>4, <1>5 DEF Next

LEMMA TalkInvariant == Spec => []TalkInv
BY TalkInit, TalkStep, PTL DEF Spec

\* In a group of prime order, whoever answers two challenges to one first
\* message of a sigma protocol or of the signature, whatever the statement and
\* the message are, has a witness of all its equations.
THEOREM ProversKnow == Spec => []Sound
<1>1. TalkInv => Sound
  <2> SUFFICES ASSUME TalkInv, NEW p \in accepted, NEW q \in accepted, p # q
               PROVE  Phi(Bases, Extracted(p, q)) = Stmt
    BY DEF Sound, Bases, Stmt
  <2>1. Talk
    BY DEF TalkInv
  <2>2. PICK b, s, m : b = Bases /\ s = Stmt /\ m = Com
    OBVIOUS
  <2>3. /\ BasesOf(b) /\ s \in [DOMAIN b -> Point] /\ m \in [DOMAIN b -> Point]
        /\ p \in Unit \X Witness(b) /\ q \in Unit \X Witness(b)
        /\ Check(b, s, m, p[1], p[2]) /\ Check(b, s, m, q[1], q[2])
        /\ p[1] # q[1]
    BY <2>1, <2>2 DEF Talk
  <2>4. PICK e \in Unit, f \in Unit, z \in Witness(b), y \in Witness(b) :
            p = <<e, z>> /\ q = <<f, y>>
    BY <2>3
  <2>5. PICK x : x = Extracted(p, q)
    OBVIOUS
  <2>6. x = Extracted(<<e, z>>, <<f, y>>)
    BY <2>4, <2>5
  <2>7. ASSUME NEW i \in DOMAIN b PROVE Combine(b[i], x) = s[i]
    <3>1. /\ Combine(b[i], z) = Plus(m[i], Times(s[i], e))
          /\ Combine(b[i], y) = Plus(m[i], Times(s[i], f))
          /\ e # f
      BY <2>3, <2>4 DEF Check
    <3>2. /\ RowOf(b[i]) /\ s[i] \in Point /\ m[i] \in Point
          /\ z \in [1..Len(b[i]) -> Scalar] /\ y \in [1..Len(b[i]) -> Scalar]
      BY <2>3, <2>4 DEF BasesOf, Witness
    <3>3. PICK row \in {b[i]}, c \in {m[i]}, t \in {s[i]} : c \in Point /\ t \in Point
      BY <3>2
    <3> QED BY <2>6, <3>1, <3>2, <3>3, ExtractRow
  <2>8. Phi(b, x) = s
    BY <2>3, <2>7 DEF Phi
  <2> QED BY <2>2, <2>5, <2>8
<1> QED BY <1>1, TalkInvariant, PTL

\* In a group of prime order an accepted conversation about a true statement is
\* one that the prover of the code has with any of its witnesses, for exactly
\* one randomness: the conversation says nothing of the witness.
THEOREM ProversHide == Spec => []Simulatable
<1>1. TalkInv => Simulatable
  <2> SUFFICES ASSUME TalkInv, NEW p \in accepted, NEW w \in Witness(Bases),
                      Phi(Bases, w) = Stmt
               PROVE  \E a \in Witness(Bases) :
                         {v \in Witness(Bases) : /\ Phi(Bases, v) = Com
                                                 /\ Respond(v, p[1], w) = p[2]} = {a}
    BY DEF Simulatable, Bases, Stmt, Com
  <2>1. Talk
    BY DEF TalkInv
  <2>2. PICK b, s, m : b = Bases /\ s = Stmt /\ m = Com
    OBVIOUS
  <2>3. /\ BasesOf(b) /\ s \in [DOMAIN b -> Point] /\ m \in [DOMAIN b -> Point]
        /\ p \in Unit \X Witness(b) /\ Check(b, s, m, p[1], p[2])
        /\ w \in Witness(b) /\ Phi(b, w) = s
    BY <2>1, <2>2 DEF Talk
  <2>4. PICK e \in Unit, z \in Witness(b) : p = <<e, z>>
    BY <2>3
  <2>5. PICK x : x = Simulated(z, e, w)
    OBVIOUS
  <2>6. \A n \in DOMAIN w : z[n] \in Scalar /\ z[n] \in Int /\ w[n] \in Int /\ e \in Int
    BY <2>3, OrderIn DEF Witness, Scalar, Unit
  <2>7. x \in Witness(b)
    <3>1. ASSUME NEW n \in DOMAIN w PROVE (z[n] - e * w[n]) % Q \in Scalar
      <4>1. z[n] - e * w[n] \in Int
        BY <2>6
      <4> QED BY <4>1, RestIn
    <3> QED BY <2>3, <2>5, <3>1 DEF Witness, Simulated
  <2>8. Phi(b, x) = m
    <3>1. ASSUME NEW i \in DOMAIN b PROVE Combine(b[i], x) = m[i]
      <4>1. Combine(b[i], z) = Plus(m[i], Times(s[i], e))
        BY <2>3, <2>4 DEF Check
      <4>2. Combine(b[i], w) = s[i]
        BY <2>3 DEF Phi
      <4>3. /\ RowOf(b[i]) /\ s[i] \in Point /\ m[i] \in Point
            /\ z \in [1..Len(b[i]) -> Scalar] /\ w \in [1..Len(b[i]) -> Scalar]
        BY <2>3, <2>4 DEF BasesOf, Witness
      <4>4. PICK row \in {b[i]}, c \in {m[i]}, t \in {s[i]} :
                c \in Point /\ t \in Point
        BY <4>3
      <4> QED BY <2>5, <4>1, <4>2, <4>3, <4>4, SimulateRow
    <3> QED BY <2>3, <3>1 DEF Phi
  <2>9. ASSUME NEW v \in Witness(b) PROVE Respond(v, e, w) = z <=> v = x
    <3>1. ASSUME NEW n \in DOMAIN w
          PROVE  (v[n] + e * w[n]) % Q = z[n] <=> v[n] = (z[n] - e * w[n]) % Q
      <4>1. PICK h \in Scalar, t \in Scalar, k \in Int :
                h = v[n] /\ t = z[n] /\ k = e * w[n]
        BY <2>3, <2>6 DEF Witness
      <4>2. h \in 0..(Q - 1) /\ t \in 0..(Q - 1) /\ h \in Int /\ t \in Int
        BY OrderIn DEF Scalar
      <4>3. h % Q = h /\ t % Q = t
        BY <4>2, OrderIn
      <4>4. PICK i \in Int, j \in Int : i = h + k /\ j = t - k
        BY <4>2
      <4>5. Same(k, k, Q)
        BY OrderIn, SameMod
      <4>6. ASSUME i % Q = t PROVE h = j % Q
        <5>1. Same(i, t, Q)
          BY <4>2, <4>3, <4>6, OrderIn, SameMod
        <5>2. Same(i - k, t - k, Q)
          BY <4>2, <4>5, <5>1, OrderIn, SameSum
        <5>3. i - k = h
          BY <4>2, <4>4
        <5> QED BY <4>2, <4>3, <4>4, <5>2, <5>3, OrderIn, SameMod
      <4>7. ASSUME h = j % Q PROVE i % Q = t
        <5>1. Same(h, j, Q)
          BY <4>2, <4>3, <4>7, OrderIn, SameMod
        <5>2. Same(h + k, j + k, Q)
          BY <4>2, <4>5, <5>1, OrderIn, SameSum
        <5>3. j + k = t /\ h + k = i
          BY <4>2, <4>4
        <5> QED BY <4>2, <4>3, <4>4, <5>2, <5>3, OrderIn, SameMod
      <4> QED BY <4>1, <4>4, <4>6, <4>7
    <3>2. /\ v = [n \in DOMAIN w |-> v[n]] /\ z = [n \in DOMAIN w |-> z[n]]
      BY <2>3 DEF Witness
    <3> QED BY <2>5, <3>1, <3>2 DEF Respond, Simulated
  <2>10. {v \in Witness(b) : Phi(b, v) = m /\ Respond(v, e, w) = z} = {x}
    BY <2>7, <2>8, <2>9
  <2>11. p[1] = e /\ p[2] = z
    BY <2>4
  <2> QED BY <2>2, <2>7, <2>10, <2>11
<1> QED BY <1>1, TalkInvariant, PTL

-----------------------------------------------------------------------------
(* Points and scalars up to a multiple of Q.                                *)

LEMMA SameItself ==
    ASSUME NEW a \in Int
    PROVE  Same(a, a, Q)
<1>1. Q \in Int /\ a = a + Q * 0
  BY OrderIn
<1> QED BY <1>1 DEF Same

\* Numbers in the place of others they are the same as.
LEMMA SameBoth ==
    ASSUME NEW a \in Int, NEW b \in Int, NEW c \in Int, NEW d \in Int,
           Same(a, b, Q), Same(c, d, Q)
    PROVE  Same(a, c, Q) <=> Same(b, d, Q)
<1>1. Q \in Nat \ {0}
  BY OrderIn
<1>2. Same(b, a, Q) /\ Same(d, c, Q)
  BY <1>1, SameReverse
<1>3. ASSUME Same(a, c, Q) PROVE Same(b, d, Q)
  <2>1. Same(b, c, Q)
    BY <1>1, <1>2, <1>3, SameTrans
  <2> QED BY <1>1, <2>1, SameTrans
<1>4. ASSUME Same(b, d, Q) PROVE Same(a, c, Q)
  <2>1. Same(a, d, Q)
    BY <1>1, <1>4, SameTrans
  <2> QED BY <1>1, <1>2, <2>1, SameTrans
<1> QED BY <1>3, <1>4

LEMMA SameScalars ==
    ASSUME NEW a \in Scalar, NEW b \in Scalar
    PROVE  Same(a, b, Q) <=> a = b
<1>1. PICK n \in Nat \ {0} : n = Q /\ a \in 0..(n - 1) /\ b \in 0..(n - 1)
  BY OrderIn DEF Scalar
<1>2. a % n = a /\ b % n = b
  BY <1>1
<1>3. Same(a, b, n) <=> a % n = b % n
  <2>1. a \in Int /\ b \in Int
    BY <1>1
  <2> QED BY <1>1, <2>1, SameMod
<1> QED BY <1>1, <1>2, <1>3

LEMMA SameZero ==
    ASSUME NEW a \in Int
    PROVE  Same(a, 0, Q) <=> a % Q = 0
<1>1. PICK n \in Nat \ {0}, o \in Int : n = Q /\ o = 0
  BY OrderIn
<1>2. o % n = 0
  BY <1>1
<1>3. Same(a, o, n) <=> a % n = o % n
  BY <1>1, SameMod
<1> QED BY <1>1, <1>2, <1>3

\* A factor that is not a multiple of Q can be dropped.
LEMMA FactorDropped ==
    ASSUME NEW c \in Int, NEW b \in Int, ~Same(c, 0, Q), Same(c * b, 0, Q)
    PROVE  Same(b, 0, Q)
<1>1. Q \in Nat \ {0} /\ 0 \in Int
  BY OrderIn
<1>2. PICK e0 \in 0..(Q - 1) : e0 = c % Q /\ Same(e0, c, Q)
  BY <1>1, DivMod, SameRest
<1>3. e0 # 0
  BY <1>2, SameZero
<1>4. PICK w \in Int : (e0 * w) % Q = 1
  <2>1. e0 \in Unit
    BY <1>1, <1>3 DEF Unit
  <2>2. \E w \in Unit : (e0 * w) % Q = 1
    BY <2>1, GroupAssumption
  <2> QED BY <1>1, <2>2 DEF Unit
<1>5. PICK n \in Int : n = Q
  BY <1>1
<1>6. PICK q1 \in Int : e0 = c + n * q1
  BY <1>2, <1>5 DEF Same
<1>7. PICK q2 \in Int : e0 * w = n * q2 + 1
  <2>1. PICK d \in Int : d = e0 * w
    BY <1>2
  <2>2. d = Q * (d \div Q) + (d % Q) /\ d \div Q \in Int
    BY <1>1, <2>1, DivMod
  <2> QED BY <1>4, <1>5, <2>1, <2>2
<1>8. PICK q3 \in Int : c * b = 0 + n * q3
  BY <1>5 DEF Same
<1>9. b = 0 + n * (q3 * w + q1 * w * b - q2 * b)
  <2>1. (c + n * q1) * w = n * q2 + 1
    BY <1>6, <1>7
  <2>2. ((c + n * q1) * w) * b = (n * q2 + 1) * b
    BY <2>1
  <2>3. ((c + n * q1) * w) * b = (c * b) * w + n * (q1 * w * b)
    OBVIOUS
  <2>4. (c * b) * w = n * (q3 * w)
    BY <1>8
  <2>5. (n * q2 + 1) * b = n * (q2 * b) + b
    OBVIOUS
  <2>6. PICK e1 \in Int, e2 \in Int, e3 \in Int : e1 = q3 * w /\ e2 = q1 * w * b /\ e3 = q2 * b
    OBVIOUS
  <2>7. b = n * e1 + n * e2 - n * e3
    BY <2>2, <2>3, <2>4, <2>5, <2>6
  <2> QED BY <2>6, <2>7
<1>10. q3 * w + q1 * w * b - q2 * b \in Int
  OBVIOUS
<1> QED BY <1>5, <1>9, <1>10 DEF Same

\* Of two secrets that agree times a number, the number is 0 or the secrets
\* are the same.
LEMMA SecretsAgree ==
    ASSUME NEW a \in Int, NEW b \in Int, NEW r \in Int, Same(a * r, b * r, Q)
    PROVE  Same(r, 0, Q) \/ Same(a, b, Q)
<1>1. PICK n \in Int : n = Q
  BY OrderIn
<1>2. PICK q \in Int : a * r = b * r + n * q
  BY <1>1 DEF Same
<1>3. PICK c \in Int : c = a - b
  OBVIOUS
<1>4. r * c = 0 + n * q
  BY <1>2, <1>3
<1>5. Same(r * c, 0, Q)
  BY <1>1, <1>4 DEF Same
<1>6. Same(r, 0, Q) \/ Same(c, 0, Q)
  BY <1>5, FactorDropped
<1>7. ASSUME Same(c, 0, Q) PROVE Same(a, b, Q)
  <2>1. PICK k \in Int : c = 0 + n * k
    BY <1>1, <1>7 DEF Same
  <2>2. a = b + n * k
    BY <1>3, <2>1
  <2> QED BY <1>1, <2>2 DEF Same
<1> QED BY <1>6, <1>7

\* The point p is that of the exponents a and b.
IsAt(p, a, b) == p \in Point /\ a \in Int /\ b \in Int /\ Same(p[1], a, Q) /\ Same(p[2], b, Q)

LEMMA PointAt ==
    ASSUME NEW p \in Point
    PROVE  /\ p[1] \in Scalar /\ p[2] \in Scalar /\ p[1] \in Int /\ p[2] \in Int
           /\ IsAt(p, p[1], p[2])
<1>1. p[1] \in Scalar /\ p[2] \in Scalar /\ p[1] \in Int /\ p[2] \in Int
  BY OrderIn DEF Point, Scalar
<1> QED BY <1>1, SameItself DEF IsAt

LEMMA MakePoint ==
    ASSUME NEW a \in Int, NEW b \in Int
    PROVE  IsAt(<<a % Q, b % Q>>, a, b)
<1>1. a % Q \in Scalar /\ b % Q \in Scalar /\ Same(a % Q, a, Q) /\ Same(b % Q, b, Q)
  BY RestIn
<1>2. PICK f \in Scalar, g \in Scalar : f = a % Q /\ g = b % Q
  BY <1>1
<1>3. <<f, g>> \in Point /\ <<f, g>>[1] = f /\ <<f, g>>[2] = g
  BY DEF Point
<1> QED BY <1>1, <1>2, <1>3 DEF IsAt

\* The exponents of sums and multiples of points.
LEMMA SameProductAt ==
    ASSUME NEW a \in Int, NEW b \in Int, NEW c \in Int, NEW d \in Int,
           Same(a, b, Q), Same(c, d, Q)
    PROVE  Same((a * c) % Q, b * d, Q) /\ (a * c) % Q \in Scalar
<1>1. PICK m \in Int, n \in Int : m = a * c /\ n = b * d
  OBVIOUS
<1>2. Same(m, n, Q)
  BY <1>1, OrderIn, SameProducts
<1>3. m % Q \in Scalar /\ m % Q \in Int /\ Same(m % Q, m, Q)
  BY RestIn
<1>4. Same(m % Q, n, Q)
  BY <1>2, <1>3, OrderIn, SameTrans
<1> QED BY <1>1, <1>3, <1>4

LEMMA SameSumAt ==
    ASSUME NEW a \in Int, NEW b \in Int, NEW c \in Int, NEW d \in Int,
           Same(a, b, Q), Same(c, d, Q)
    PROVE  /\ Same((a + c) % Q, b + d, Q) /\ (a + c) % Q \in Scalar
           /\ Same((a - c) % Q, b - d, Q) /\ (a - c) % Q \in Scalar
<1>1. PICK m \in Int, n \in Int, k \in Int, l \in Int :
        m = a + c /\ n = b + d /\ k = a - c /\ l = b - d
  OBVIOUS
<1>2. Same(m, n, Q) /\ Same(k, l, Q)
  BY <1>1, OrderIn, SameSum
<1>3. /\ m % Q \in Scalar /\ m % Q \in Int /\ Same(m % Q, m, Q)
      /\ k % Q \in Scalar /\ k % Q \in Int /\ Same(k % Q, k, Q)
  BY RestIn
<1>4. Same(m % Q, n, Q) /\ Same(k % Q, l, Q)
  BY <1>2, <1>3, OrderIn, SameTrans
<1> QED BY <1>1, <1>3, <1>4

LEMMA TimesAt ==
    ASSUME NEW p, NEW a, NEW b, IsAt(p, a, b), NEW e \in Int, NEW f \in Int, Same(e, f, Q)
    PROVE  IsAt(Times(p, e), a * f, b * f)
<1>1. /\ p[1] \in Int /\ p[2] \in Int /\ a \in Int /\ b \in Int
      /\ Same(p[1], a, Q) /\ Same(p[2], b, Q)
  BY PointAt DEF IsAt
<1>2. PICK c \in Scalar, d \in Scalar :
        /\ c = (p[1] * e) % Q /\ d = (p[2] * e) % Q
        /\ Same(c, a * f, Q) /\ Same(d, b * f, Q)
  BY <1>1, SameProductAt
<1>3. <<c, d>> \in Point /\ <<c, d>>[1] = c /\ <<c, d>>[2] = d
  BY DEF Point
<1>4. a * f \in Int /\ b * f \in Int
  BY <1>1
<1> QED BY <1>2, <1>3, <1>4 DEF Times, IsAt

LEMMA PlusAt ==
    ASSUME NEW p, NEW a, NEW b, IsAt(p, a, b), NEW q, NEW c, NEW d, IsAt(q, c, d)
    PROVE  IsAt(Plus(p, q), a + c, b + d) /\ IsAt(Minus(p, q), a - c, b - d)
<1>1. /\ p[1] \in Int /\ p[2] \in Int /\ a \in Int /\ b \in Int
      /\ Same(p[1], a, Q) /\ Same(p[2], b, Q)
      /\ q[1] \in Int /\ q[2] \in Int /\ c \in Int /\ d \in Int
      /\ Same(q[1], c, Q) /\ Same(q[2], d, Q)
  BY PointAt DEF IsAt
<1>2. PICK f \in Scalar, g \in Scalar :
        /\ f = (p[1] + q[1]) % Q /\ g = (p[2] + q[2]) % Q
        /\ Same(f, a + c, Q) /\ Same(g, b + d, Q)
  BY <1>1, SameSumAt
<1>3. PICK h \in Scalar, k \in Scalar :
        /\ h = (p[1] - q[1]) % Q /\ k = (p[2] - q[2]) % Q
        /\ Same(h, a - c, Q) /\ Same(k, b - d, Q)
  BY <1>1, SameSumAt
<1>4. /\ <<f, g>> \in Point /\ <<f, g>>[1] = f /\ <<f, g>>[2] = g
      /\ <<h, k>> \in Point /\ <<h, k>>[1] = h /\ <<h, k>>[2] = k
  BY DEF Point
<1>5. a + c \in Int /\ b + d \in Int /\ a - c \in Int /\ b - d \in Int
  BY <1>1
<1> QED BY <1>2, <1>3, <1>4, <1>5 DEF Plus, Minus, IsAt

\* Points are equal where their exponents are.
LEMMA EqualAt ==
    ASSUME NEW p, NEW a, NEW b, IsAt(p, a, b), NEW q, NEW c, NEW d, IsAt(q, c, d)
    PROVE  p = q <=> Same(a, c, Q) /\ Same(b, d, Q)
<1>1. /\ p \in Point /\ q \in Point
      /\ p[1] \in Int /\ p[2] \in Int /\ a \in Int /\ b \in Int
      /\ Same(p[1], a, Q) /\ Same(p[2], b, Q)
      /\ q[1] \in Int /\ q[2] \in Int /\ c \in Int /\ d \in Int
      /\ Same(q[1], c, Q) /\ Same(q[2], d, Q)
  BY PointAt DEF IsAt
<1>2. Same(p[1], q[1], Q) <=> Same(a, c, Q)
  BY <1>1, SameBoth
<1>3. Same(p[2], q[2], Q) <=> Same(b, d, Q)
  BY <1>1, SameBoth
<1>4. ASSUME p = q PROVE Same(p[1], q[1], Q) /\ Same(p[2], q[2], Q)
  BY <1>1, <1>4, SameItself
<1>5. ASSUME Same(p[1], q[1], Q), Same(p[2], q[2], Q) PROVE p = q
  BY <1>1, <1>5, PointsEqual
<1> QED BY <1>2, <1>3, <1>4, <1>5

LEMMA GeneratorsAt == IsAt(G, 1, 0) /\ IsAt(H, 0, 1) /\ IsAt(Infinity, 0, 0)
<1>1. Q \in Nat /\ Q > 1
  BY GroupAssumption
<1>2. 0 \in Scalar /\ 1 \in Scalar
  BY <1>1 DEF Scalar
<1>3. G \in Point /\ H \in Point /\ Infinity \in Point
  BY <1>2 DEF G, H, Infinity, Point
<1>4. Same(1, 1, Q) /\ Same(0, 0, Q)
  BY SameItself
<1> QED BY <1>3, <1>4 DEF IsAt, G, H, Infinity

-----------------------------------------------------------------------------
(* The proofs of a transaction: each is of a statement that is a list of    *)
(* points, and its honest proof verifies when the statement holds.          *)

Kinds == {"sign", "dlog", "knowledge", "equality", "range", "member"}
JobOk(j) ==
    /\ j.kind \in Kinds
    /\ Len(j.wit) \in {1, 2} /\ j.wit \in [1..Len(j.wit) -> Int]
    /\ \A i \in DOMAIN j.bases : RowOf(j.bases[i]) /\ Len(j.bases[i]) = Len(j.wit)
    /\ j.stmt \in [DOMAIN j.bases -> Point]
    /\ j.kind = "range" => Len(j.wit) = 2
JobHolds(j) ==
    Phi(j.bases, j.wit) = j.stmt /\ (j.kind = "range" => InRange(j.wit[2]))

\* An answer made of randomness and witness passes a row's equation when the
\* witness satisfies it.
AnswerAt(a, b, r1, r2, w1, w2, e) ==
    Linear(a, b, r1 + e * w1, r2 + e * w2)
        = Linear(a, b, r1, r2) + Linear(a, b, w1, w2) * e
LEMMA AnswerLinear ==
    ASSUME NEW a \in Int, NEW b \in Int, NEW r1 \in Int, NEW r2 \in Int,
           NEW w1 \in Int, NEW w2 \in Int, NEW e \in Int
    PROVE  AnswerAt(a, b, r1, r2, w1, w2, e)
<1>1. a * (r1 + e * w1) = a * r1 + (a * w1) * e
  OBVIOUS
<1>2. b * (r2 + e * w2) = b * r2 + (b * w2) * e
  OBVIOUS
<1>3. PICK c1 \in Int, c2 \in Int, d1 \in Int, d2 \in Int :
        c1 = a * r1 /\ c2 = b * r2 /\ d1 = a * w1 /\ d2 = b * w2
  OBVIOUS
<1>4. (d1 + d2) * e = d1 * e + d2 * e
  BY <1>3
<1> QED BY <1>1, <1>2, <1>3, <1>4 DEF Linear, AnswerAt

LEMMA ChallengeDropped ==
    ASSUME NEW l \in Int, NEW s \in Int, NEW e \in Unit, NEW m \in Int
    PROVE  Same(m + l * e, m + s * e, Q) <=> Same(l, s, Q)
<1>1. e \in Int /\ Q \in Nat \ {0} /\ 0 \in Int
  BY OrderIn DEF Unit
<1>2. ASSUME Same(l, s, Q) PROVE Same(m + l * e, m + s * e, Q)
  <2>1. PICK c \in Int, d \in Int : c = l * e /\ d = s * e
    BY <1>1
  <2>2. Same(c, d, Q)
    BY <1>1, <1>2, <2>1, SameProduct
  <2>3. Same(m, m, Q)
    BY SameItself
  <2> QED BY <1>1, <2>1, <2>2, <2>3, SameSum
<1>3. ASSUME Same(m + l * e, m + s * e, Q) PROVE Same(l, s, Q)
  <2>1. PICK n \in Int : n = Q
    BY <1>1
  <2>2. PICK q \in Int : m + l * e = m + s * e + n * q
    BY <1>3, <2>1 DEF Same
  <2>3. PICK d \in Int : d = l - s
    OBVIOUS
  <2>4. e * d = 0 + n * q
    <3>1. e * d = l * e - s * e
      BY <1>1, <2>3
    <3>2. PICK c1 \in Int, c2 \in Int : c1 = l * e /\ c2 = s * e
      BY <1>1
    <3> QED BY <2>2, <3>1, <3>2
  <2>5. Same(e * d, 0, Q)
    BY <2>1, <2>4 DEF Same
  <2>6. ~Same(e, 0, Q)
    <3>1. PICK k \in Nat \ {0} : k = Q /\ e \in 1..(k - 1)
      BY <1>1 DEF Unit
    <3>2. e % k = e /\ e # 0
      BY <3>1
    <3> QED BY <1>1, <3>1, <3>2, SameZero
  <2>7. PICK k \in Int : d = 0 + n * k
    BY <1>1, <2>1, <2>5, <2>6, FactorDropped DEF Same
  <2>8. l = s + n * k
    BY <2>3, <2>7
  <2> QED BY <2>1, <2>8 DEF Same
<1> QED BY <1>2, <1>3

LEMMA RespondIs ==
    ASSUME NEW n \in {1, 2}, NEW a \in [1..n -> Int], NEW w \in [1..n -> Int], NEW e \in Int
    PROVE  /\ Respond(a, e, w) \in [1..n -> Int]
           /\ Part(a, 1) \in Int /\ Part(a, 2) \in Int
           /\ Part(w, 1) \in Int /\ Part(w, 2) \in Int
           /\ Part(Respond(a, e, w), 1) \in Int /\ Part(Respond(a, e, w), 2) \in Int
           /\ Same(Part(Respond(a, e, w), 1), Part(a, 1) + e * Part(w, 1), Q)
           /\ Same(Part(Respond(a, e, w), 2), Part(a, 2) + e * Part(w, 2), Q)
<1>1. PICK z : z = Respond(a, e, w)
  OBVIOUS
<1>2. ASSUME NEW i \in 1..n
      PROVE  /\ z[i] \in Int /\ Same(z[i], a[i] + e * w[i], Q)
             /\ a[i] \in Int /\ w[i] \in Int
  <2>1. PICK c \in Int : c = a[i] + e * w[i]
    OBVIOUS
  <2>2. z[i] = c % Q
    BY <1>1, <2>1 DEF Respond
  <2> QED BY <2>1, <2>2, RestIn
<1>3. z \in [1..n -> Int] /\ DOMAIN z = 1..n
  BY <1>1, <1>2 DEF Respond
<1>4. ASSUME NEW k \in {1, 2}
      PROVE  /\ Part(a, k) \in Int /\ Part(w, k) \in Int /\ Part(z, k) \in Int
             /\ Same(Part(z, k), Part(a, k) + e * Part(w, k), Q)
  <2>1. CASE k \in 1..n
    BY <1>2, <1>3, <2>1 DEF Part
  <2>2. CASE k \notin 1..n
    <3>1. Part(a, k) = 0 /\ Part(w, k) = 0 /\ Part(z, k) = 0
      BY <1>3, <2>2 DEF Part
    <3>2. PICK o \in Int : o = 0 /\ o = o + e * o
      OBVIOUS
    <3>3. Same(o, o + e * o, Q)
      BY <3>2, SameItself
    <3> QED BY <3>1, <3>2, <3>3
  <2> QED BY <2>1, <2>2
<1> QED BY <1>1, <1>3, <1>4

LEMMA AnswerRow ==
    ASSUME NEW row, RowOf(row), NEW a \in [1..Len(row) -> Int],
           NEW w \in [1..Len(row) -> Int], NEW e \in Unit, NEW stmt \in Point
    PROVE  Combine(row, Respond(a, e, w)) = Plus(Combine(row, a), Times(stmt, e))
             <=> Combine(row, w) = stmt
<1>1. e \in Int /\ Q \in Nat \ {0}
  BY OrderIn DEF Unit
<1>2. PICK n \in {1, 2} : n = Len(row)
  BY DEF RowOf
<1>3. PICK z : z = Respond(a, e, w)
  OBVIOUS
<1>4. z \in [1..Len(row) -> Int]
  BY <1>1, <1>2, <1>3, RespondIs
<1>5. PICK zp \in Point, ap \in Point, wp \in Point :
        zp = Combine(row, z) /\ ap = Combine(row, a) /\ wp = Combine(row, w)
  BY <1>4, CombineAt
<1>6. PICK rp : rp = Plus(ap, Times(stmt, e))
  OBVIOUS
<1>7. rp \in Point
  <2>1. IsAt(ap, ap[1], ap[2]) /\ IsAt(stmt, stmt[1], stmt[2]) /\ Same(e, e, Q)
    BY <1>1, PointAt, SameItself
  <2>2. IsAt(Times(stmt, e), stmt[1] * e, stmt[2] * e)
    BY <1>1, <2>1, TimesAt
  <2>3. IsAt(rp, ap[1] + stmt[1] * e, ap[2] + stmt[2] * e)
    BY <1>6, <2>1, <2>2, PlusAt
  <2> QED BY <2>3 DEF IsAt
<1>8. ASSUME NEW c \in {1, 2}
      PROVE  Same(zp[c], rp[c], Q) <=> Same(wp[c], stmt[c], Q)
  <2>1. PICK b1 \in Int, b2 \in Int : b1 = Base(row, 1)[c] /\ b2 = Base(row, 2)[c]
    BY BaseType
  <2>2. PICK a1 \in Int, a2 \in Int, w1 \in Int, w2 \in Int, z1 \in Int, z2 \in Int :
          /\ a1 = Part(a, 1) /\ a2 = Part(a, 2) /\ w1 = Part(w, 1) /\ w2 = Part(w, 2)
          /\ z1 = Part(z, 1) /\ z2 = Part(z, 2)
          /\ Same(z1, a1 + e * w1, Q) /\ Same(z2, a2 + e * w2, Q)
    <3>1. a \in [1..n -> Int] /\ w \in [1..n -> Int]
      BY <1>2
    <3>2. /\ Part(a, 1) \in Int /\ Part(a, 2) \in Int
          /\ Part(w, 1) \in Int /\ Part(w, 2) \in Int
          /\ Part(Respond(a, e, w), 1) \in Int /\ Part(Respond(a, e, w), 2) \in Int
          /\ Same(Part(Respond(a, e, w), 1), Part(a, 1) + e * Part(w, 1), Q)
          /\ Same(Part(Respond(a, e, w), 2), Part(a, 2) + e * Part(w, 2), Q)
      BY <1>1, <1>2, <3>1, RespondIs
    <3> QED BY <1>3, <3>2
  <2>3. PICK la \in Int, lw \in Int, lz \in Int, lr \in Int :
          /\ la = Linear(b1, b2, a1, a2) /\ lw = Linear(b1, b2, w1, w2)
          /\ lz = Linear(b1, b2, z1, z2)
          /\ lr = Linear(b1, b2, a1 + e * w1, a2 + e * w2)
    BY <1>1 DEF Linear
  <2>4. PICK za \in Int, aa \in Int, wa \in Int, ra \in Int, sa \in Int :
          /\ za = zp[c] /\ aa = ap[c] /\ wa = wp[c] /\ ra = rp[c] /\ sa = stmt[c]
    BY <1>1, <1>7, ShiftAt
  <2>5. Same(aa, la, Q) /\ Same(wa, lw, Q) /\ Same(za, lz, Q)
    <3>1. RowAt(row, a, c) = la /\ RowAt(row, w, c) = lw /\ RowAt(row, z, c) = lz
      BY <2>1, <2>2, <2>3 DEF RowAt
    <3>2. Same(ap[c], RowAt(row, a, c), Q) /\ Same(wp[c], RowAt(row, w, c), Q)
      BY <1>5, CombineAt
    <3>3. Same(zp[c], RowAt(row, z, c), Q)
      BY <1>4, <1>5, CombineAt
    <3> QED BY <2>4, <3>1, <3>2, <3>3
  <2>6. Same(lz, lr, Q)
    <3>1. PICK y1 \in Int, y2 \in Int : y1 = a1 + e * w1 /\ y2 = a2 + e * w2
      BY <1>1
    <3>2. Same(z1, y1, Q) /\ Same(z2, y2, Q)
      BY <2>2, <3>1
    <3> QED BY <2>3, <3>1, <3>2, LinearSame
  <2>7. lr = la + lw * e
    <3>1. AnswerAt(b1, b2, a1, a2, w1, w2, e)
      BY <1>1, <2>1, <2>2, AnswerLinear
    <3> QED BY <2>3, <3>1 DEF AnswerAt
  <2>8. Same(ra, aa + sa * e, Q)
    BY <1>1, <1>6, <2>4, ShiftAt
  <2>9. PICK t \in Int, k \in Int, l \in Int : t = aa + sa * e /\ k = la + sa * e /\ l = la + lw * e
    BY <1>1
  <2>10. Same(t, k, Q)
    <3>1. PICK h \in Int : h = sa * e
      BY <1>1
    <3>2. Same(h, h, Q)
      BY SameItself
    <3> QED BY <1>1, <2>5, <2>9, <3>1, <3>2, SameSum
  <2>11. Same(ra, k, Q)
    BY <1>1, <2>8, <2>9, <2>10, SameTrans
  <2>12. Same(za, l, Q)
    BY <1>1, <2>5, <2>6, <2>7, <2>9, SameTrans
  <2>13. Same(za, ra, Q) <=> Same(l, k, Q)
    BY <2>11, <2>12, SameBoth
  <2>14. Same(l, k, Q) <=> Same(lw, sa, Q)
    <3>1. Same(la + lw * e, la + sa * e, Q) <=> Same(lw, sa, Q)
      BY <2>3, <2>4, ChallengeDropped, Zenon
    <3> QED BY <2>9, <3>1
  <2>15. Same(wa, sa, Q) <=> Same(lw, sa, Q)
    BY <2>5, SameItself, SameBoth
  <2> QED BY <2>4, <2>13, <2>14, <2>15
<1>9. zp = rp <=> \A c \in {1, 2} : Same(zp[c], rp[c], Q)
  <2>1. \A c \in {1, 2} : zp[c] \in Int
    BY PointAt
  <2> QED BY <1>7, <2>1, PointsEqual, SameItself
<1>10. wp = stmt <=> \A c \in {1, 2} : Same(wp[c], stmt[c], Q)
  <2>1. \A c \in {1, 2} : wp[c] \in Int
    BY PointAt
  <2> QED BY <2>1, PointsEqual, SameItself
<1> QED BY <1>3, <1>5, <1>6, <1>8, <1>9, <1>10

LEMMA HonestAnswer ==
    ASSUME NEW j, JobOk(j), NEW a \in [1..Len(j.wit) -> Int], NEW e \in Unit
    PROVE  Check(j.bases, j.stmt, Phi(j.bases, a), e, Respond(a, e, j.wit))
             <=> Phi(j.bases, j.wit) = j.stmt
<1>1. ASSUME NEW i \in DOMAIN j.bases
      PROVE  Combine(j.bases[i], Respond(a, e, j.wit))
                 = Plus(Phi(j.bases, a)[i], Times(j.stmt[i], e))
               <=> Phi(j.bases, j.wit)[i] = j.stmt[i]
  <2>1. /\ RowOf(j.bases[i]) /\ a \in [1..Len(j.bases[i]) -> Int]
        /\ j.wit \in [1..Len(j.bases[i]) -> Int] /\ j.stmt[i] \in Point
    BY DEF JobOk
  <2>2. /\ Phi(j.bases, a)[i] = Combine(j.bases[i], a)
        /\ Phi(j.bases, j.wit)[i] = Combine(j.bases[i], j.wit)
    BY DEF Phi
  <2> QED BY <2>1, <2>2, AnswerRow
<1>2. Phi(j.bases, j.wit) = j.stmt
        <=> \A i \in DOMAIN j.bases : Phi(j.bases, j.wit)[i] = j.stmt[i]
  <2>1. j.stmt \in [DOMAIN j.bases -> Point]
    BY DEF JobOk
  <2> QED BY <2>1 DEF Phi
<1> QED BY <1>1, <1>2 DEF Check

-----------------------------------------------------------------------------
(* Which numbers each proof of a transaction is about.                     *)

LEMMA SameMoved ==
    ASSUME NEW a \in Int, NEW b \in Int, NEW k \in Int
    PROVE  /\ Same(a + k, b + k, Q) <=> Same(a, b, Q)
           /\ Same(a - k, b - k, Q) <=> Same(a, b, Q)
<1>1. PICK n \in Int : n = Q
  BY OrderIn
<1> QED BY <1>1 DEF Same

LEMMA SameTurned ==
    ASSUME NEW a \in Int, NEW b \in Int
    PROVE  Same(a, b, Q) <=> Same(b, a, Q)
BY OrderIn, SameReverse

\* The points of keys and ciphertexts.
LEMMA PkAt ==
    ASSUME NEW k, Secret(k) \in Int
    PROVE  IsAt(Pk(k), Secret(k), 0)
<1>1. 0 \in Int /\ Secret(k) \in Int
  OBVIOUS
<1>2. IsAt(<<Secret(k) % Q, 0 % Q>>, Secret(k), 0)
  BY <1>1, MakePoint
<1>3. 0 % Q = 0
  BY OrderIn
<1> QED BY <1>2, <1>3 DEF Pk

LEMMA YAt ==
    ASSUME NEW c, c.r \in Int, c.v \in Int
    PROVE  IsAt(Y(c), c.r, c.v)
BY MakePoint DEF Y

LEMMA XAt ==
    ASSUME NEW c, c.r \in Int, Secret(c.pk) \in Int
    PROVE  IsAt(X(c), Secret(c.pk) * c.r, 0)
<1>1. PICK o \in Int, s \in Int, r \in Int : o = 0 /\ s = Secret(c.pk) /\ r = c.r
  OBVIOUS
<1>2. IsAt(Pk(c.pk), s, o)
  BY <1>1, PkAt
<1>3. r % Q \in Int /\ Same(r % Q, r, Q)
  BY <1>1, RestIn
<1>4. IsAt(Times(Pk(c.pk), r % Q), s * r, o * r)
  BY <1>1, <1>2, <1>3, TimesAt
<1>5. o * r = 0
  BY <1>1
<1> QED BY <1>1, <1>4, <1>5 DEF X

LEMMA SOf ==
    ASSUME NEW a \in Int
    PROVE  S(a) \in Int /\ Same(S(a), a, Q)
BY RestIn DEF S

\* The rows of the statements.
LEMMA OneAt ==
    ASSUME NEW p, NEW a, NEW b, IsAt(p, a, b), NEW w \in Int, NEW m \in Int, Same(w, m, Q)
    PROVE  IsAt(Combine(<<p>>, <<w>>), a * m, b * m)
<1>1. Combine(<<p>>, <<w>>) = Times(p, w)
  BY DEF Combine
<1>2. IsAt(Times(p, w), a * m, b * m)
  BY TimesAt
<1> QED BY <1>1, <1>2

LEMMA TwoAt ==
    ASSUME NEW p, NEW a, NEW b, IsAt(p, a, b), NEW q, NEW c, NEW d, IsAt(q, c, d),
           NEW w \in Int, NEW m \in Int, Same(w, m, Q),
           NEW y \in Int, NEW n \in Int, Same(y, n, Q)
    PROVE  IsAt(Combine(<<p, q>>, <<w, y>>), a * m + c * n, b * m + d * n)
<1>1. Combine(<<p, q>>, <<w, y>>) = Plus(Times(p, w), Times(q, y))
  BY DEF Combine
<1>2. IsAt(Times(p, w), a * m, b * m) /\ IsAt(Times(q, y), c * n, d * n)
  BY TimesAt
<1>3. IsAt(Plus(Times(p, w), Times(q, y)), a * m + c * n, b * m + d * n)
  BY <1>2, PlusAt
<1> QED BY <1>1, <1>3

LEMMA KeyRowAt ==
    ASSUME NEW k, Secret(k) \in Int, NEW w \in Int, NEW m \in Int, Same(w, m, Q),
           NEW y \in Int
    PROVE  IsAt(Combine(<<Pk(k), Infinity>>, <<w, y>>), Secret(k) * m, 0)
<1>1. PICK o \in Int, s \in Int : o = 0 /\ s = Secret(k)
  OBVIOUS
<1>2. IsAt(Pk(k), s, o) /\ IsAt(Infinity, o, o)
  BY <1>1, PkAt, GeneratorsAt
<1>3. Same(y, y, Q)
  BY SameItself
<1>4. IsAt(Combine(<<Pk(k), Infinity>>, <<w, y>>), s * m + o * y, o * m + o * y)
  BY <1>1, <1>2, <1>3, TwoAt
<1>5. s * m + o * y = s * m /\ o * m + o * y = 0
  BY <1>1
<1> QED BY <1>1, <1>4, <1>5

LEMMA OpenRowAt ==
    ASSUME NEW w \in Int, NEW m \in Int, Same(w, m, Q),
           NEW y \in Int, NEW n \in Int, Same(y, n, Q)
    PROVE  IsAt(Combine(<<G, H>>, <<w, y>>), m, n)
<1>1. PICK o \in Int, i \in Int : o = 0 /\ i = 1
  OBVIOUS
<1>2. IsAt(G, i, o) /\ IsAt(H, o, i)
  BY <1>1, GeneratorsAt
<1>3. IsAt(Combine(<<G, H>>, <<w, y>>), i * m + o * n, o * m + i * n)
  BY <1>1, <1>2, TwoAt
<1>4. i * m + o * n = m /\ o * m + i * n = n
  BY <1>1
<1> QED BY <1>3, <1>4

LEMMA PhiOne ==
    ASSUME NEW a, NEW w, NEW p
    PROVE  Phi(<<a>>, w) = <<p>> <=> Combine(a, w) = p
<1>1. Phi(<<a>>, w) = <<Combine(a, w)>>
  BY DEF Phi
<1> QED BY <1>1
LEMMA PhiTwo ==
    ASSUME NEW a, NEW b, NEW w, NEW p, NEW q
    PROVE  Phi(<<a, b>>, w) = <<p, q>> <=> Combine(a, w) = p /\ Combine(b, w) = q
<1>1. Phi(<<a, b>>, w) = <<Combine(a, w), Combine(b, w)>>
  BY DEF Phi
<1> QED BY <1>1
LEMMA PhiThree ==
    ASSUME NEW a, NEW b, NEW c, NEW w, NEW p, NEW q, NEW r
    PROVE  Phi(<<a, b, c>>, w) = <<p, q, r>>
             <=> Combine(a, w) = p /\ Combine(b, w) = q /\ Combine(c, w) = r
<1>1. Phi(<<a, b, c>>, w) = <<Combine(a, w), Combine(b, w), Combine(c, w)>>
  BY DEF Phi
<1> QED BY <1>1

LEMMA RowsOk ==
    ASSUME NEW k \in Kinds, NEW b, NEW s, NEW w, NEW n \in {1, 2}, k = "range" => n = 2,
           Len(w) = n, w \in [1..n -> Int],
           \A i \in DOMAIN b : RowOf(b[i]) /\ Len(b[i]) = n, s \in [DOMAIN b -> Point]
    PROVE  JobOk(Job(k, b, s, w))
BY DEF JobOk, Job

LEMMA SingleRow == ASSUME NEW a \in Point PROVE RowOf(<<a>>) /\ Len(<<a>>) = 1
BY DEF RowOf
LEMMA PairRow ==
    ASSUME NEW a \in Point, NEW b \in Point PROVE RowOf(<<a, b>>) /\ Len(<<a, b>>) = 2
BY DEF RowOf

LEMMA SinglesOk ==
    ASSUME NEW k \in Kinds, k # "range", NEW w \in Int, NEW p \in Point, NEW q \in Point,
           NEW a \in Point, NEW b \in Point
    PROVE  /\ JobOk(Job(k, << <<a>> >>, <<p>>, <<w>>))
           /\ JobOk(Job(k, << <<a>>, <<b>> >>, <<p, q>>, <<w>>))
<1>1. Len(<<w>>) = 1 /\ <<w>> \in [1..1 -> Int]
  OBVIOUS
<1>2. PICK ra, rb : ra = <<a>> /\ rb = <<b>>
  OBVIOUS
<1>3. RowOf(ra) /\ Len(ra) = 1 /\ RowOf(rb) /\ Len(rb) = 1
  BY <1>2, SingleRow
<1>4. JobOk(Job(k, <<ra>>, <<p>>, <<w>>))
  <2>1. <<p>> \in [DOMAIN <<ra>> -> Point]
    OBVIOUS
  <2>2. \A i \in DOMAIN <<ra>> : RowOf(<<ra>>[i]) /\ Len(<<ra>>[i]) = 1
    BY <1>3
  <2> QED BY <1>1, <2>1, <2>2, RowsOk
<1>5. JobOk(Job(k, <<ra, rb>>, <<p, q>>, <<w>>))
  <2>1. <<p, q>> \in [DOMAIN <<ra, rb>> -> Point]
    OBVIOUS
  <2>2. \A i \in DOMAIN <<ra, rb>> : RowOf(<<ra, rb>>[i]) /\ Len(<<ra, rb>>[i]) = 1
    BY <1>3
  <2> QED BY <1>1, <2>1, <2>2, RowsOk
<1> QED BY <1>2, <1>4, <1>5

LEMMA PairsOk ==
    ASSUME NEW k \in Kinds, NEW w \in Int, NEW y \in Int,
           NEW p \in Point, NEW q \in Point, NEW r \in Point,
           NEW a \in Point, NEW b \in Point, NEW c \in Point, NEW d \in Point,
           NEW e \in Point, NEW f \in Point
    PROVE  /\ JobOk(Job(k, << <<a, b>> >>, <<p>>, <<w, y>>))
           /\ JobOk(Job(k, << <<a, b>>, <<c, d>> >>, <<p, q>>, <<w, y>>))
           /\ JobOk(Job(k, << <<a, b>>, <<c, d>>, <<e, f>> >>, <<p, q, r>>, <<w, y>>))
<1>1. Len(<<w, y>>) = 2 /\ <<w, y>> \in [1..2 -> Int]
  OBVIOUS
<1>2. PICK ra, rb, rc : ra = <<a, b>> /\ rb = <<c, d>> /\ rc = <<e, f>>
  OBVIOUS
<1>3. RowOf(ra) /\ Len(ra) = 2 /\ RowOf(rb) /\ Len(rb) = 2 /\ RowOf(rc) /\ Len(rc) = 2
  BY <1>2, PairRow
<1>4. JobOk(Job(k, <<ra>>, <<p>>, <<w, y>>))
  <2>1. <<p>> \in [DOMAIN <<ra>> -> Point]
    OBVIOUS
  <2>2. \A i \in DOMAIN <<ra>> : RowOf(<<ra>>[i]) /\ Len(<<ra>>[i]) = 2
    BY <1>3
  <2> QED BY <1>1, <2>1, <2>2, RowsOk
<1>5. JobOk(Job(k, <<ra, rb>>, <<p, q>>, <<w, y>>))
  <2>1. <<p, q>> \in [DOMAIN <<ra, rb>> -> Point]
    OBVIOUS
  <2>2. \A i \in DOMAIN <<ra, rb>> : RowOf(<<ra, rb>>[i]) /\ Len(<<ra, rb>>[i]) = 2
    BY <1>3
  <2> QED BY <1>1, <2>1, <2>2, RowsOk
<1>6. JobOk(Job(k, <<ra, rb, rc>>, <<p, q, r>>, <<w, y>>))
  <2>1. <<p, q, r>> \in [DOMAIN <<ra, rb, rc>> -> Point]
    OBVIOUS
  <2>2. \A i \in DOMAIN <<ra, rb, rc>> :
          RowOf(<<ra, rb, rc>>[i]) /\ Len(<<ra, rb, rc>>[i]) = 2
    BY <1>3
  <2> QED BY <1>1, <2>1, <2>2, RowsOk
<1> QED BY <1>2, <1>4, <1>5, <1>6

LEMMA KnowledgeHolds ==
    ASSUME NEW key, NEW c, NEW r \in Int, NEW v \in Int, Secret(key) \in Int,
           Secret(c.pk) \in Int, c.r \in Int, c.v \in Int
    PROVE  /\ JobOk(KnowledgeJob(key, c, r, v))
           /\ JobHolds(KnowledgeJob(key, c, r, v))
                <=> /\ Same(Secret(key) * r, Secret(c.pk) * c.r, Q)
                    /\ Same(r, c.r, Q) /\ Same(v, c.v, Q)
<1>1. /\ S(r) \in Int /\ Same(S(r), r, Q) /\ S(v) \in Int /\ Same(S(v), v, Q)
  BY SOf
<1>2. IsAt(Combine(<<Pk(key), Infinity>>, <<S(r), S(v)>>), Secret(key) * r, 0)
  BY <1>1, KeyRowAt
<1>3. IsAt(Combine(<<G, H>>, <<S(r), S(v)>>), r, v)
  BY <1>1, OpenRowAt
<1>4. IsAt(X(c), Secret(c.pk) * c.r, 0) /\ IsAt(Y(c), c.r, c.v)
  BY XAt, YAt
<1>5. Combine(<<Pk(key), Infinity>>, <<S(r), S(v)>>) = X(c)
        <=> Same(Secret(key) * r, Secret(c.pk) * c.r, Q)
  <2>1. Same(0, 0, Q)
    BY SameItself
  <2> QED BY <1>2, <1>4, <2>1, EqualAt
<1>6. Combine(<<G, H>>, <<S(r), S(v)>>) = Y(c) <=> Same(r, c.r, Q) /\ Same(v, c.v, Q)
  BY <1>3, <1>4, EqualAt
<1>7. Phi(KnowledgeBases(Pk(key)), <<S(r), S(v)>>) = <<X(c), Y(c)>>
        <=> /\ Combine(<<Pk(key), Infinity>>, <<S(r), S(v)>>) = X(c)
            /\ Combine(<<G, H>>, <<S(r), S(v)>>) = Y(c)
  BY PhiTwo DEF KnowledgeBases
<1>8. JobOk(KnowledgeJob(key, c, r, v))
  <2>1. Pk(key) \in Point /\ Infinity \in Point /\ G \in Point /\ H \in Point
    BY PkAt, GeneratorsAt DEF IsAt
  <2>2. X(c) \in Point /\ Y(c) \in Point
    BY <1>4 DEF IsAt
  <2>3. "knowledge" \in Kinds
    BY DEF Kinds
  <2> QED BY <1>1, <2>1, <2>2, <2>3, PairsOk DEF KnowledgeJob, KnowledgeBases
<1>9. JobHolds(KnowledgeJob(key, c, r, v))
        <=> Phi(KnowledgeBases(Pk(key)), <<S(r), S(v)>>) = <<X(c), Y(c)>>
  BY DEF JobHolds, KnowledgeJob, Job
<1> QED BY <1>5, <1>6, <1>7, <1>8, <1>9

LEMMA RangeHolds ==
    ASSUME NEW c, NEW r \in Int, NEW v \in Int, c.r \in Int, c.v \in Int
    PROVE  /\ JobOk(RangeJob(c, r, v))
           /\ JobHolds(RangeJob(c, r, v))
                <=> Same(r, c.r, Q) /\ Same(v, c.v, Q) /\ InRange(v)
<1>1. S(r) \in Int /\ Same(S(r), r, Q) /\ Same(v, v, Q)
  BY SOf, SameItself
<1>2. IsAt(Combine(<<G, H>>, <<S(r), v>>), r, v) /\ IsAt(Y(c), c.r, c.v)
  BY <1>1, OpenRowAt, YAt
<1>3. Combine(<<G, H>>, <<S(r), v>>) = Y(c) <=> Same(r, c.r, Q) /\ Same(v, c.v, Q)
  BY <1>2, EqualAt
<1>4. Phi(<< <<G, H>> >>, <<S(r), v>>) = <<Y(c)>> <=> Combine(<<G, H>>, <<S(r), v>>) = Y(c)
  BY PhiOne
<1>5. JobOk(RangeJob(c, r, v))
  <2>1. G \in Point /\ H \in Point /\ Y(c) \in Point /\ "range" \in Kinds
    BY <1>2, GeneratorsAt DEF IsAt, Kinds
  <2> QED BY <1>1, <2>1, PairsOk DEF RangeJob
<1>6. JobHolds(RangeJob(c, r, v))
        <=> Phi(<< <<G, H>> >>, <<S(r), v>>) = <<Y(c)>> /\ InRange(v)
  BY DEF JobHolds, RangeJob, Job
<1> QED BY <1>3, <1>4, <1>5, <1>6

LEMMA AdjustedHolds ==
    ASSUME NEW c, NEW d \in Int, c.r \in Int, c.v \in Int
    PROVE  /\ JobOk(Adjusted(RangeJob(c, c.r, c.v), d))
           /\ JobHolds(Adjusted(RangeJob(c, c.r, c.v), d)) <=> InRange(c.v + d)
<1>1. PICK p : p = Plus(Y(c), Times(H, S(d)))
  OBVIOUS
<1>2. PICK r \in Int, v \in Int : r = c.r /\ v = c.v
  OBVIOUS
<1>3. PICK j : j = Adjusted(RangeJob(c, c.r, c.v), d)
  OBVIOUS
<1>3a. /\ j.kind = "range" /\ j.bases = << <<G, H>> >> /\ j.stmt = <<p>>
       /\ j.wit = <<S(r), v + d>>
  <2>1. PICK i : i = [kind |-> "range", bases |-> << <<G, H>> >>, stmt |-> <<Y(c)>>,
                      wit |-> <<S(r), v>>]
    OBVIOUS
  <2>2. RangeJob(c, c.r, c.v) = i
    BY <1>2, <2>1 DEF RangeJob, Job
  <2>3. i.stmt[1] = Y(c) /\ [i.wit EXCEPT ![2] = @ + d] = <<S(r), v + d>>
    BY <2>1
  <2>4. j = [i EXCEPT !.stmt = <<p>>, !.wit[2] = @ + d]
    BY <1>1, <1>3, <2>2, <2>3 DEF Adjusted
  <2> QED BY <2>1, <2>3, <2>4
<1>4. IsAt(p, r, v + d)
  <2>1. PICK o \in Int, i \in Int : o = 0 /\ i = 1
    OBVIOUS
  <2>2. S(d) \in Int /\ Same(S(d), d, Q) /\ IsAt(H, o, i) /\ IsAt(Y(c), r, v)
    BY <1>2, <2>1, SOf, GeneratorsAt, YAt
  <2>3. IsAt(Times(H, S(d)), o * d, i * d)
    BY <2>2, TimesAt
  <2>4. IsAt(p, r + o * d, v + i * d)
    BY <1>1, <2>2, <2>3, PlusAt
  <2>5. r + o * d = r /\ v + i * d = v + d
    BY <2>1
  <2> QED BY <2>4, <2>5
<1>5. S(r) \in Int /\ Same(S(r), r, Q) /\ v + d \in Int /\ Same(v + d, v + d, Q)
  BY SOf, SameItself
<1>6. IsAt(Combine(<<G, H>>, <<S(r), v + d>>), r, v + d) /\ Same(r, r, Q)
  BY <1>5, OpenRowAt, SameItself
<1>7. Combine(<<G, H>>, <<S(r), v + d>>) = p
  BY <1>4, <1>5, <1>6, EqualAt
<1>8. Phi(<< <<G, H>> >>, <<S(r), v + d>>) = <<p>>
  BY <1>7, PhiOne
<1>9. JobOk(Job("range", << <<G, H>> >>, <<p>>, <<S(r), v + d>>))
  <2>1. G \in Point /\ H \in Point /\ p \in Point /\ "range" \in Kinds
    BY <1>4, GeneratorsAt DEF IsAt, Kinds
  <2> QED BY <1>5, <2>1, PairsOk
<1>10. JobHolds(Job("range", << <<G, H>> >>, <<p>>, <<S(r), v + d>>)) <=> InRange(v + d)
  BY <1>8 DEF JobHolds, Job
<1>11. /\ JobOk(j) <=> JobOk(Job("range", << <<G, H>> >>, <<p>>, <<S(r), v + d>>))
       /\ JobHolds(j) <=> JobHolds(Job("range", << <<G, H>> >>, <<p>>, <<S(r), v + d>>))
  BY <1>3a DEF JobOk, JobHolds, Job
<1> QED BY <1>2, <1>3, <1>9, <1>10, <1>11

LEMMA EqualityHolds ==
    ASSUME NEW key1, NEW key2, NEW v \in Int, NEW r \in Int,
           Secret(key1) \in Int, Secret(key2) \in Int
    PROVE  JobOk(EqualityJob(key1, key2, v, r)) /\ JobHolds(EqualityJob(key1, key2, v, r))
<1>1. /\ S(r) \in Int /\ Same(S(r), r, Q) /\ S(v) \in Int /\ Same(S(v), v, Q)
  BY SOf
<1>2. ASSUME NEW key, Secret(key) \in Int
      PROVE  Combine(<<Pk(key), Infinity>>, <<S(r), S(v)>>) = Times(Pk(key), S(r))
             /\ Times(Pk(key), S(r)) \in Point /\ Pk(key) \in Point
  <2>1. PICK o \in Int, s \in Int : o = 0 /\ s = Secret(key)
    BY <1>2
  <2>2. IsAt(Pk(key), s, o)
    BY <2>1, PkAt
  <2>3. IsAt(Times(Pk(key), S(r)), s * r, o * r)
    BY <1>1, <2>2, TimesAt
  <2>4. IsAt(Combine(<<Pk(key), Infinity>>, <<S(r), S(v)>>), s * r, o)
    BY <1>1, <2>1, KeyRowAt
  <2>5. o * r = o /\ Same(o, o, Q) /\ Same(s * r, s * r, Q)
    BY <2>1, SameItself
  <2>6. Combine(<<Pk(key), Infinity>>, <<S(r), S(v)>>) = Times(Pk(key), S(r))
    BY <2>3, <2>4, <2>5, EqualAt
  <2> QED BY <2>2, <2>3, <2>6 DEF IsAt
<1>3. Combine(<<G, H>>, <<S(r), S(v)>>) = <<S(r), S(v)>> /\ <<S(r), S(v)>> \in Point
  <2>1. IsAt(Combine(<<G, H>>, <<S(r), S(v)>>), r, v)
    BY <1>1, OpenRowAt
  <2>2. IsAt(<<S(r), S(v)>>, r, v)
    BY MakePoint DEF S
  <2>3. Same(r, r, Q) /\ Same(v, v, Q)
    BY SameItself
  <2> QED BY <2>1, <2>2, <2>3, EqualAt DEF IsAt
<1>4. Phi(EqualityBases(Pk(key1), Pk(key2)), <<S(r), S(v)>>)
        = <<Times(Pk(key1), S(r)), Times(Pk(key2), S(r)), <<S(r), S(v)>> >>
  <2>1. PICK p1, p2, x1, x2, y, w :
          /\ p1 = Pk(key1) /\ p2 = Pk(key2) /\ y = <<S(r), S(v)>> /\ w = <<S(r), S(v)>>
          /\ x1 = Times(Pk(key1), S(r)) /\ x2 = Times(Pk(key2), S(r))
    OBVIOUS
  <2>2. Combine(<<p1, Infinity>>, w) = x1 /\ Combine(<<p2, Infinity>>, w) = x2
        /\ Combine(<<G, H>>, w) = y
    BY <1>2, <1>3, <2>1
  <2>3. Phi(<< <<p1, Infinity>>, <<p2, Infinity>>, <<G, H>> >>, w) = <<x1, x2, y>>
    BY <2>2, PhiThree
  <2> QED BY <2>1, <2>3 DEF EqualityBases
<1>5. JobOk(EqualityJob(key1, key2, v, r))
  <2>1. Infinity \in Point /\ G \in Point /\ H \in Point /\ "equality" \in Kinds
    BY GeneratorsAt DEF IsAt, Kinds
  <2>2. /\ Pk(key1) \in Point /\ Pk(key2) \in Point
        /\ Times(Pk(key1), S(r)) \in Point /\ Times(Pk(key2), S(r)) \in Point
    BY <1>2
  <2> QED BY <1>1, <1>3, <2>1, <2>2, PairsOk DEF EqualityJob, EqualityBases
<1> QED BY <1>4, <1>5 DEF JobHolds, EqualityJob, Job

LEMMA SignHolds ==
    ASSUME NEW key, Secret(key) \in Int
    PROVE  JobOk(SignJob(key)) /\ JobHolds(SignJob(key))
<1>1. PICK o \in Int, i \in Int, s \in Int : o = 0 /\ i = 1 /\ s = Secret(key)
  OBVIOUS
<1>2. IsAt(G, i, o) /\ Same(s, s, Q) /\ Same(o, o, Q)
  BY <1>1, GeneratorsAt, SameItself
<1>3. IsAt(Combine(<<G>>, <<s>>), i * s, o * s)
  BY <1>2, OneAt
<1>4. i * s = s /\ o * s = o
  BY <1>1
<1>5. IsAt(Pk(key), s, o)
  BY <1>1, PkAt
<1>6. Combine(<<G>>, <<s>>) = Pk(key)
  BY <1>2, <1>3, <1>4, <1>5, EqualAt
<1>7. Phi(SignBases, <<s>>) = <<Pk(key)>>
  BY <1>6, PhiOne DEF SignBases
<1>8. JobOk(SignJob(key))
  <2>1. "sign" \in Kinds /\ "sign" # "range" /\ G \in Point /\ Pk(key) \in Point
    BY <1>2, <1>5 DEF IsAt, Kinds
  <2> QED BY <1>1, <2>1, SinglesOk DEF SignJob, SignBases
<1> QED BY <1>1, <1>7, <1>8 DEF JobHolds, SignJob, Job

LEMMA MemberHolds ==
    ASSUME NEW base, NEW a, NEW b, IsAt(base, a, b), NEW p, NEW c, NEW d, IsAt(p, c, d),
           NEW s \in Int
    PROVE  /\ JobOk(MemberJob(base, p, s))
           /\ JobHolds(MemberJob(base, p, s)) <=> Same(a * s, c, Q) /\ Same(b * s, d, Q)
<1>1. Same(s, s, Q)
  BY SameItself
<1>2. IsAt(Combine(<<base>>, <<s>>), a * s, b * s)
  BY <1>1, OneAt
<1>3. Combine(<<base>>, <<s>>) = p <=> Same(a * s, c, Q) /\ Same(b * s, d, Q)
  BY <1>2, EqualAt
<1>4. Phi(<< <<base>> >>, <<s>>) = <<p>> <=> Combine(<<base>>, <<s>>) = p
  BY PhiOne
<1>5. JobOk(MemberJob(base, p, s))
  <2>1. "member" \in Kinds /\ "member" # "range" /\ base \in Point /\ p \in Point
    BY DEF IsAt, Kinds
  <2> QED BY <2>1, SinglesOk DEF MemberJob
<1> QED BY <1>3, <1>4, <1>5 DEF JobHolds, MemberJob, Job

\* The change of an account's ciphertext: its old one has the randomness and
\* the amount that the account remembers, under a key with the account's secret.
LEMMA DeltaHolds ==
    ASSUME NEW a, NEW n, NEW r \in Int, NEW value \in Int,
           Secret(a.pk) \in Int, Secret(a.C.pk) \in Int,
           a.r \in Int, a.v \in Int, a.C.r \in Int, a.C.v \in Int,
           n.pk = a.pk, n.r = r, n.v = a.v + value
    PROVE  /\ JobOk(DeltaJob(a, n, r, value))
           /\ JobHolds(DeltaJob(a, n, r, value))
                <=> /\ Same(Secret(a.pk) * a.r, Secret(a.C.pk) * a.C.r, Q)
                    /\ Same(a.r, a.C.r, Q) /\ Same(a.v, a.C.v, Q)
<1>a. PICK o \in Int, i \in Int : o = 0 /\ i = 1
  OBVIOUS
<1>b. PICK s \in Int, t \in Int : s = Secret(a.pk) /\ t = Secret(a.C.pk)
  OBVIOUS
<1>c. PICK k \in Int, v \in Int : k = a.r /\ v = a.v
  OBVIOUS
<1>d. PICK l \in Int, w \in Int : l = a.C.r /\ w = a.C.v
  OBVIOUS
<1>1. /\ o = 0 /\ i = 1 /\ s = Secret(a.pk) /\ t = Secret(a.C.pk)
      /\ k = a.r /\ v = a.v /\ l = a.C.r /\ w = a.C.v
  BY <1>a, <1>b, <1>c, <1>d
<1>2. PICK dy, dx : /\ dy = Minus(Minus(Y(n), Y(a.C)), Times(H, S(value)))
                    /\ dx = Minus(X(n), X(a.C))
  OBVIOUS
<1>3. IsAt(dy, r - l, v - w)
  <2>1. IsAt(Y(n), r, v + value) /\ IsAt(Y(a.C), l, w)
    <3>1. n.r \in Int /\ n.v \in Int
      OBVIOUS
    <3>2. IsAt(Y(n), n.r, n.v) /\ IsAt(Y(a.C), a.C.r, a.C.v)
      BY <3>1, YAt
    <3> QED BY <1>1, <3>2
  <2>2. IsAt(Minus(Y(n), Y(a.C)), r - l, (v + value) - w)
    BY <2>1, PlusAt
  <2>3. IsAt(H, o, i) /\ S(value) \in Int /\ Same(S(value), value, Q)
    BY <1>1, GeneratorsAt, SOf
  <2>4. IsAt(Times(H, S(value)), o * value, i * value)
    BY <2>3, TimesAt
  <2>5. IsAt(dy, (r - l) - o * value, ((v + value) - w) - i * value)
    BY <1>2, <2>2, <2>4, PlusAt
  <2>6. (r - l) - o * value = r - l /\ ((v + value) - w) - i * value = v - w
    BY <1>1
  <2> QED BY <2>5, <2>6
<1>4. IsAt(dx, s * r - t * l, o)
  <2>1. IsAt(X(n), s * r, o) /\ IsAt(X(a.C), t * l, o)
    <3>1. n.r \in Int /\ Secret(n.pk) \in Int
      OBVIOUS
    <3>2. IsAt(X(n), Secret(n.pk) * n.r, 0) /\ IsAt(X(a.C), Secret(a.C.pk) * a.C.r, 0)
      BY <3>1, XAt
    <3> QED BY <1>1, <3>2
  <2>2. IsAt(dx, s * r - t * l, o - o)
    BY <1>2, <2>1, PlusAt
  <2> QED BY <1>1, <2>2
<1>5. PICK d \in Int : d = r - k
  OBVIOUS
<1>6. S(d) \in Int /\ Same(S(d), d, Q)
  BY SOf
<1>7. IsAt(Combine(<<G>>, <<S(d)>>), d, o) /\ G \in Point
  <2>1. IsAt(G, i, o)
    BY <1>1, GeneratorsAt
  <2>2. IsAt(Combine(<<G>>, <<S(d)>>), i * d, o * d)
    BY <1>6, <2>1, OneAt
  <2>3. i * d = d /\ o * d = o
    BY <1>1
  <2> QED BY <2>1, <2>2, <2>3 DEF IsAt
<1>8. IsAt(Combine(<<Pk(a.pk)>>, <<S(d)>>), s * d, o) /\ Pk(a.pk) \in Point
  <2>1. IsAt(Pk(a.pk), s, o)
    BY <1>1, PkAt
  <2>2. IsAt(Combine(<<Pk(a.pk)>>, <<S(d)>>), s * d, o * d)
    BY <1>6, <2>1, OneAt
  <2>3. o * d = o
    BY <1>1
  <2> QED BY <2>1, <2>2, <2>3 DEF IsAt
<1>9. Combine(<<G>>, <<S(d)>>) = dy <=> Same(k, l, Q) /\ Same(v, w, Q)
  <2>1. Combine(<<G>>, <<S(d)>>) = dy <=> Same(d, r - l, Q) /\ Same(o, v - w, Q)
    BY <1>3, <1>7, EqualAt
  <2>2. PICK q \in Int : q = Q
    BY OrderIn
  <2>3. Same(d, r - l, Q) <=> Same(l, k, Q)
    <3>1. ASSUME NEW z \in Int PROVE r - k = (r - l) + q * z <=> l = k + q * z
      OBVIOUS
    <3> QED BY <1>5, <2>2, <3>1 DEF Same
  <2>4. Same(o, v - w, Q) <=> Same(w, v, Q)
    <3>1. ASSUME NEW z \in Int PROVE 0 = (v - w) + q * z <=> w = v + q * z
      <4>1. PICK y \in Int : y = q * z
        OBVIOUS
      <4> QED BY <4>1
    <3> QED BY <1>1, <2>2, <3>1 DEF Same
  <2> QED BY <2>1, <2>3, <2>4, SameTurned
<1>10. Combine(<<Pk(a.pk)>>, <<S(d)>>) = dx <=> Same(s * k, t * l, Q)
  <2>1. Same(o, o, Q)
    BY SameItself
  <2>2. Combine(<<Pk(a.pk)>>, <<S(d)>>) = dx <=> Same(s * d, s * r - t * l, Q)
    BY <1>4, <1>8, <2>1, EqualAt
  <2>3. PICK e \in Int, f \in Int, g \in Int, q \in Int : e = s * r /\ f = s * k /\ g = t * l /\ q = Q
    BY OrderIn
  <2>4. s * d = e - f
    BY <1>5, <2>3
  <2>5. Same(e - f, e - g, Q) <=> Same(g, f, Q)
    <3>1. ASSUME NEW z \in Int PROVE e - f = (e - g) + q * z <=> g = f + q * z
      OBVIOUS
    <3> QED BY <2>3, <3>1 DEF Same
  <2> QED BY <2>2, <2>3, <2>4, <2>5, SameTurned
<1>11. Phi(DlogBases(G, Pk(a.pk)), <<S(d)>>) = <<dy, dx>>
         <=> Combine(<<G>>, <<S(d)>>) = dy /\ Combine(<<Pk(a.pk)>>, <<S(d)>>) = dx
  <2>1. Phi(<< <<G>>, <<Pk(a.pk)>> >>, <<S(d)>>) = <<dy, dx>>
          <=> Combine(<<G>>, <<S(d)>>) = dy /\ Combine(<<Pk(a.pk)>>, <<S(d)>>) = dx
    <3>1. PICK ra, rb, y : ra = <<G>> /\ rb = <<Pk(a.pk)>> /\ y = <<S(d)>>
      OBVIOUS
    <3>2. Phi(<<ra, rb>>, y) = <<dy, dx>> <=> Combine(ra, y) = dy /\ Combine(rb, y) = dx
      <4>1. Phi(<<ra, rb>>, y) = <<Combine(ra, y), Combine(rb, y)>>
        BY DEF Phi
      <4> QED BY <4>1
    <3> QED BY <3>1, <3>2
  <2> QED BY <2>1 DEF DlogBases
<1>12. DeltaJob(a, n, r, value) = Job("dlog", DlogBases(G, Pk(a.pk)), <<dy, dx>>, <<S(d)>>)
  BY <1>1, <1>2, <1>5 DEF DeltaJob
<1>13. JobOk(DeltaJob(a, n, r, value))
  <2>1. "dlog" \in Kinds /\ "dlog" # "range" /\ dy \in Point /\ dx \in Point
    BY <1>3, <1>4 DEF IsAt, Kinds
  <2>2. JobOk(Job("dlog", << <<G>>, <<Pk(a.pk)>> >>, <<dy, dx>>, <<S(d)>>))
    BY <1>6, <1>7, <1>8, <2>1, SinglesOk
  <2> QED BY <1>12, <2>2 DEF DlogBases
<1>14. JobHolds(DeltaJob(a, n, r, value)) <=> Phi(DlogBases(G, Pk(a.pk)), <<S(d)>>) = <<dy, dx>>
  BY <1>12 DEF JobHolds, Job
<1> QED BY <1>1, <1>9, <1>10, <1>11, <1>13, <1>14

\* Two encryptions of one amount differ by the secret key.
LEMMA RenewedHolds ==
    ASSUME NEW key, Secret(key) \in Int, NEW n, NEW c, n.pk = key, c.pk = key,
           n.r \in Int, c.r \in Int, n.v \in Int, n.v = c.v
    PROVE  LET j == Job("dlog", << <<G>>, <<Minus(Y(n), Y(c))>> >>,
                        <<Pk(key), Minus(X(n), X(c))>>, <<Secret(key)>>)
           IN  JobOk(j) /\ JobHolds(j)
<1>1. PICK o \in Int, i \in Int, s \in Int, k \in Int, l \in Int, v \in Int :
        o = 0 /\ i = 1 /\ s = Secret(key) /\ k = n.r /\ l = c.r /\ v = n.v
  OBVIOUS
<1>2. PICK dy, dx : dy = Minus(Y(n), Y(c)) /\ dx = Minus(X(n), X(c))
  OBVIOUS
<1>3. IsAt(dy, k - l, o)
  <2>1. IsAt(Y(n), k, v) /\ IsAt(Y(c), l, v)
    BY <1>1, YAt
  <2>2. IsAt(dy, k - l, v - v)
    BY <1>2, <2>1, PlusAt
  <2> QED BY <1>1, <2>2
<1>4. IsAt(dx, s * k - s * l, o)
  <2>1. IsAt(X(n), s * k, o) /\ IsAt(X(c), s * l, o)
    <3>1. Secret(n.pk) \in Int /\ Secret(c.pk) \in Int
      OBVIOUS
    <3>2. IsAt(X(n), Secret(n.pk) * n.r, 0) /\ IsAt(X(c), Secret(c.pk) * c.r, 0)
      BY <3>1, XAt
    <3> QED BY <1>1, <3>2
  <2>2. IsAt(dx, s * k - s * l, o - o)
    BY <1>2, <2>1, PlusAt
  <2> QED BY <1>1, <2>2
<1>5. Same(s, s, Q) /\ Same(o, o, Q) /\ IsAt(G, i, o) /\ IsAt(Pk(key), s, o)
  BY <1>1, SameItself, GeneratorsAt, PkAt
<1>6. Combine(<<G>>, <<s>>) = Pk(key)
  <2>1. IsAt(Combine(<<G>>, <<s>>), i * s, o * s)
    BY <1>5, OneAt
  <2>2. i * s = s /\ o * s = o
    BY <1>1
  <2> QED BY <1>5, <2>1, <2>2, EqualAt
<1>7. Combine(<<dy>>, <<s>>) = dx
  <2>1. IsAt(Combine(<<dy>>, <<s>>), (k - l) * s, o * s)
    BY <1>3, <1>5, OneAt
  <2>2. (k - l) * s = s * k - s * l /\ o * s = o
    BY <1>1
  <2>3. PICK d \in Int : d = s * k - s * l
    OBVIOUS
  <2>4. Same(d, d, Q)
    BY SameItself
  <2>5. IsAt(Combine(<<dy>>, <<s>>), d, o) /\ IsAt(dx, d, o)
    BY <1>4, <2>1, <2>2, <2>3
  <2> QED BY <1>5, <2>4, <2>5, EqualAt
<1>8. Phi(<< <<G>>, <<dy>> >>, <<s>>) = <<Pk(key), dx>>
  BY <1>6, <1>7, PhiTwo
<1>9. JobOk(Job("dlog", << <<G>>, <<dy>> >>, <<Pk(key), dx>>, <<s>>))
  <2>1. /\ "dlog" \in Kinds /\ "dlog" # "range" /\ dy \in Point /\ dx \in Point
        /\ G \in Point /\ Pk(key) \in Point
    BY <1>3, <1>4, <1>5 DEF IsAt, Kinds
  <2> QED BY <2>1, SinglesOk
<1> QED BY <1>1, <1>2, <1>8, <1>9 DEF JobHolds, Job

-----------------------------------------------------------------------------
(* The proofs of each transaction hold together exactly when its relation   *)
(* does.                                                                   *)

JobsOk(s) ==
    /\ Len(s) \in Nat \ {0} /\ DOMAIN s = 1..Len(s)
    /\ \A k \in DOMAIN s : JobOk(s[k])
AllHold(s) == \A k \in DOMAIN s : JobHolds(s[k])

LEMMA ThreeJobs ==
    ASSUME NEW i, NEW j, NEW k, JobOk(i), JobOk(j), JobOk(k)
    PROVE  /\ JobsOk(<<i, j, k>>)
           /\ AllHold(<<i, j, k>>) <=> JobHolds(i) /\ JobHolds(j) /\ JobHolds(k)
<1>1. PICK s : s = <<i, j, k>>
  OBVIOUS
<1>2. Len(s) = 3 /\ DOMAIN s = 1..3 /\ s[1] = i /\ s[2] = j /\ s[3] = k
  BY <1>1
<1>3. JobsOk(s)
  BY <1>2 DEF JobsOk
<1>4. AllHold(s) <=> JobHolds(i) /\ JobHolds(j) /\ JobHolds(k)
  BY <1>2 DEF AllHold
<1> QED BY <1>1, <1>3, <1>4

LEMMA TwoJobs ==
    ASSUME NEW i, NEW j, JobOk(i), JobOk(j)
    PROVE  JobsOk(<<i, j>>) /\ (AllHold(<<i, j>>) <=> JobHolds(i) /\ JobHolds(j))
<1>1. PICK s : s = <<i, j>>
  OBVIOUS
<1>2. Len(s) = 2 /\ DOMAIN s = 1..2 /\ s[1] = i /\ s[2] = j
  BY <1>1
<1>3. JobsOk(s)
  BY <1>2 DEF JobsOk
<1>4. AllHold(s) <=> JobHolds(i) /\ JobHolds(j)
  BY <1>2 DEF AllHold
<1> QED BY <1>1, <1>3, <1>4

LEMMA SixJobs ==
    ASSUME NEW i, NEW j, NEW k, NEW l, NEW m, NEW n,
           JobOk(i), JobOk(j), JobOk(k), JobOk(l), JobOk(m), JobOk(n)
    PROVE  /\ JobsOk(<<i, j, k, l, m, n>>)
           /\ AllHold(<<i, j, k, l, m, n>>)
                <=> /\ JobHolds(i) /\ JobHolds(j) /\ JobHolds(k)
                    /\ JobHolds(l) /\ JobHolds(m) /\ JobHolds(n)
<1>1. PICK s : s = <<i, j, k, l, m, n>>
  OBVIOUS
<1>2. /\ Len(s) = 6 /\ DOMAIN s = 1..6
      /\ s[1] = i /\ s[2] = j /\ s[3] = k /\ s[4] = l /\ s[5] = m /\ s[6] = n
  BY <1>1
<1>3. JobsOk(s)
  BY <1>2 DEF JobsOk
<1>4. AllHold(s) <=> /\ JobHolds(i) /\ JobHolds(j) /\ JobHolds(k)
                     /\ JobHolds(l) /\ JobHolds(m) /\ JobHolds(n)
  BY <1>2 DEF AllHold
<1> QED BY <1>1, <1>3, <1>4

LEMMA KeysAgree ==
    ASSUME NEW k, NEW l, Secret(k) \in Int, Secret(l) \in Int,
           S(Secret(k)) = S(Secret(l)) => k = l,
           NEW r \in Int, NEW q \in Int, Same(r, q, Q),
           Same(Secret(k) * r, Secret(l) * q, Q), k # l => ~Same(q, 0, Q)
    PROVE  k = l
<1>1. PICK a \in Int, b \in Int : a = Secret(k) /\ b = Secret(l)
  OBVIOUS
<1>2. Same(a * q, b * q, Q)
  <2>1. Same(a, a, Q) /\ Q \in Nat \ {0}
    BY SameItself, OrderIn
  <2>2. Same(a * r, a * q, Q)
    BY <2>1, SameProducts
  <2>3. PICK c \in Int, d \in Int, e \in Int : c = a * r /\ d = a * q /\ e = b * q
    OBVIOUS
  <2>4. Same(c, d, Q) /\ Same(c, e, Q)
    BY <1>1, <2>2, <2>3
  <2>5. Same(d, c, Q)
    BY <2>3, <2>4, SameTurned
  <2> QED BY <2>1, <2>3, <2>4, <2>5, SameTrans
<1>3. Same(q, 0, Q) \/ Same(a, b, Q)
  BY <1>2, SecretsAgree
<1>4. Same(a, b, Q) => a % Q = b % Q
  BY OrderIn, SameMod
<1> QED BY <1>1, <1>3, <1>4 DEF S

\* What the assumptions on sessions say of one.
LEMMA SessionKeys ==
    ASSUME NEW t \in Sessions, NEW k \in {t.key, t.a.pk, t.a.C.pk, t.c.C.pk},
           NEW l \in {t.key, t.a.pk, t.a.C.pk, t.c.C.pk}
    PROVE  Secret(k) \in Int /\ (S(Secret(k)) = S(Secret(l)) => k = l)
BY KeyAssumption
LEMMA SessionNumbers ==
    ASSUME NEW t \in Sessions
    PROVE  /\ t.a.v \in Nat /\ t.a.r \in Nat /\ t.a.C.v \in Nat /\ t.a.C.r \in Nat
           /\ t.c.transfer \in Nat /\ t.c.r \in Nat /\ t.c.C.v \in Nat /\ t.c.C.r \in Nat
           /\ t.x \in Nat /\ t.i \in Nat /\ t.small \in 0..MaxCoin /\ MaxCoin \in Nat
           /\ Fresh(t.i) \in Nat /\ Fresh2(t.i) \in Nat /\ Fresh2(t.sent) \in Nat
           /\ t.aux[1] \in Nat /\ t.aux[2] \in Nat /\ t.aux[2] < Power(Byte, BN_LEN)
<1>1. t \in SessionType
  BY SessionAssumption
<1>2. t.a \in Account /\ t.c \in Cheque /\ t.a.C \in CT /\ t.c.C \in CT
  BY <1>1 DEF SessionType, Account, Cheque
<1>3. t.x \in Nat /\ t.i \in Nat /\ t.sent \in Nat /\ t.small \in 0..MaxCoin
  BY <1>1 DEF SessionType
<1>8. t.aux[1] \in Nat /\ t.aux[2] \in Nat /\ t.aux[2] < Power(Byte, BN_LEN)
  <2>1. t.aux \in Nat \X (0..(Power(Byte, BN_LEN) - 1))
    BY <1>1 DEF SessionType
  <2>2. t.aux[1] \in Nat /\ t.aux[2] \in 0..(Power(Byte, BN_LEN) - 1)
    BY <2>1
  <2>3. Power(Byte, BN_LEN) \in Nat \ {0}
    BY WidthAssumption, PowerNat
  <2> QED BY <2>2, <2>3
<1>4. MaxCoin \in Nat
  BY BoundAssumption
<1>5. Fresh(t.i) \in Nat /\ Fresh2(t.i) \in Nat /\ Fresh2(t.sent) \in Nat
  BY <1>3 DEF Fresh, Fresh2
<1>6. t.a.v \in Nat /\ t.a.r \in Nat /\ t.c.transfer \in Nat /\ t.c.r \in Nat
  BY <1>2 DEF Account, Cheque
<1>7. t.a.C.v \in Nat /\ t.a.C.r \in Nat /\ t.c.C.v \in Nat /\ t.c.C.r \in Nat
  BY <1>2 DEF CT
<1> QED BY <1>3, <1>4, <1>5, <1>6, <1>7, <1>8
LEMMA NotZero == ASSUME NEW r \in Scalar, r # 0 PROVE ~Same(r, 0, Q)
BY OrderIn, SameScalars DEF Scalar

\* The openings of an account's or cheque's ciphertext.
LEMMA Opened ==
    ASSUME NEW k, NEW c, Secret(k) \in Int, Secret(c.pk) \in Int,
           S(Secret(k)) = S(Secret(c.pk)) => k = c.pk,
           NEW r \in Scalar, NEW v \in Scalar, c.r \in Scalar, c.v \in Scalar,
           c.pk # k => c.r # 0
    PROVE  (/\ Same(Secret(k) * r, Secret(c.pk) * c.r, Q)
            /\ Same(r, c.r, Q) /\ Same(v, c.v, Q))
             <=> c.pk = k /\ c.r = r /\ c.v = v
<1>1. r \in Int /\ v \in Int /\ c.r \in Int /\ c.v \in Int
  BY OrderIn DEF Scalar
<1>2. (Same(r, c.r, Q) <=> r = c.r) /\ (Same(v, c.v, Q) <=> v = c.v)
  BY SameScalars
<1>3. c.pk # k => ~Same(c.r, 0, Q)
  BY NotZero
<1>4. Same(Secret(k) * r, Secret(c.pk) * c.r, Q) /\ Same(r, c.r, Q) => k = c.pk
  <2>1. PICK l : l = c.pk
    OBVIOUS
  <2>a. PICK q \in Int : q = c.r
    BY <1>1
  <2>2. Same(Secret(k) * r, Secret(l) * q, Q) /\ Same(r, q, Q) => k = l
    BY <1>1, <1>3, <2>1, <2>a, KeysAgree
  <2> QED BY <2>1, <2>a, <2>2
<1>5. c.pk = k /\ c.r = r => Same(Secret(k) * r, Secret(c.pk) * c.r, Q)
  <2>1. PICK s \in Int : s = Secret(k) * r
    BY <1>1
  <2> QED BY <2>1, SameItself
<1> QED BY <1>2, <1>4, <1>5

\* The account and the ciphertext that a transaction leaves.
RenewedTo(n, k, v, r) ==
    n.v = v /\ n.r = r /\ n.C.pk = k /\ n.C.v = v /\ n.C.r = r
LEMMA RenewIs ==
    ASSUME NEW a \in Account, NEW pt, NEW v, NEW i
    PROVE  RenewedTo(Renew(a, pt, v, i), a.pk, v, Fresh(i))
BY DEF Renew, Account, Enc, RenewedTo

LEMMA SessionTypes ==
    ASSUME NEW t \in Sessions PROVE t.a \in Account /\ t.c \in Cheque
BY SessionAssumption DEF SessionType
LEMMA SessionScalars ==
    ASSUME NEW t \in Sessions
    PROVE  /\ t.a.v \in Scalar /\ t.a.r \in Scalar /\ t.a.C.v \in Scalar /\ t.a.C.r \in Scalar
           /\ t.c.transfer \in Scalar /\ t.c.r \in Scalar
           /\ t.c.C.v \in Scalar /\ t.c.C.r \in Scalar
           /\ t.a.C.pk # t.a.pk => t.a.C.r # 0
           /\ t.c.C.pk # t.a.pk => t.c.C.r # 0
           /\ t.type = "refresh" =>
                 S(Fresh2(t.sent)) # 0 /\ S(Fresh2(t.sent) - Fresh(t.i)) # 0
BY ScalarAssumption

\* The account's own ciphertext is the one the account remembers.
KeepsOpening(a) == a.C.pk = a.pk /\ a.C.r = a.r /\ a.C.v = a.v
LEMMA BalanceHolds ==
    ASSUME NEW t \in Sessions, NEW n, NEW r \in Int, NEW value \in Int,
           n.pk = t.a.pk, n.r = r, n.v = t.a.v + value
    PROVE  /\ JobOk(DeltaJob(t.a, n, r, value))
           /\ JobHolds(DeltaJob(t.a, n, r, value)) <=> KeepsOpening(t.a)
<1>1. PICK a : a = t.a
  OBVIOUS
<1>2. a.v \in Int /\ a.r \in Int /\ a.C.v \in Int /\ a.C.r \in Int
  BY <1>1, SessionNumbers
<1>3. /\ Secret(a.pk) \in Int /\ Secret(a.C.pk) \in Int
      /\ S(Secret(a.pk)) = S(Secret(a.C.pk)) => a.pk = a.C.pk
  BY <1>1, SessionKeys
<1>4. /\ JobOk(DeltaJob(a, n, r, value))
      /\ JobHolds(DeltaJob(a, n, r, value))
           <=> /\ Same(Secret(a.pk) * a.r, Secret(a.C.pk) * a.C.r, Q)
               /\ Same(a.r, a.C.r, Q) /\ Same(a.v, a.C.v, Q)
  BY <1>1, <1>2, <1>3, DeltaHolds
<1>5. (/\ Same(Secret(a.pk) * a.r, Secret(a.C.pk) * a.C.r, Q)
       /\ Same(a.r, a.C.r, Q) /\ Same(a.v, a.C.v, Q))
        <=> a.C.pk = a.pk /\ a.C.r = a.r /\ a.C.v = a.v
  <2>1. /\ a.v \in Scalar /\ a.r \in Scalar /\ a.C.v \in Scalar /\ a.C.r \in Scalar
        /\ a.C.pk # a.pk => a.C.r # 0
    BY <1>1, SessionScalars
  <2>2. PICK k, c, s, v : k = a.pk /\ c = a.C /\ s = a.r /\ v = a.v
    OBVIOUS
  <2> QED BY <1>3, <2>1, <2>2, Opened
<1> QED BY <1>1, <1>4, <1>5 DEF KeepsOpening

LEMMA MintFits ==
    ASSUME NEW t \in Sessions, t.type = "mint"
    PROVE  JobsOk(MintJobs(t)) /\ (AllHold(MintJobs(t)) <=> Relation(t))
<1>1. PICK a, x : a = t.a /\ x = t.x
  OBVIOUS
<1>2. PICK new : new = MintAccount(a, x, t.i)
  OBVIOUS
<1>3. /\ a.v \in Nat /\ a.r \in Nat /\ a.C.v \in Nat /\ a.C.r \in Nat
      /\ x \in Nat /\ Fresh(t.i) \in Nat
  BY <1>1, SessionNumbers
<1>4. RenewedTo(new, a.pk, a.v + x, Fresh(t.i))
  BY <1>1, <1>2, SessionTypes, RenewIs DEF MintAccount
<1>5. /\ new.v = a.v + x /\ new.C.pk = a.pk /\ new.C.v = a.v + x /\ new.C.r = new.r
      /\ new.r \in Int /\ new.v \in Int
  BY <1>3, <1>4 DEF RenewedTo
<1>6. Secret(a.pk) \in Int
  BY <1>1, SessionKeys
<1>7. /\ JobOk(DeltaJob(a, new.C, new.r, x))
      /\ JobHolds(DeltaJob(a, new.C, new.r, x)) <=> KeepsOpening(a)
  <2>1. PICK n, r, y : n = new.C /\ r = new.r /\ y = x
    OBVIOUS
  <2>2. y \in Int /\ n.v = a.v + y /\ n.pk = a.pk /\ n.r = r /\ r \in Int
    BY <1>3, <1>5, <2>1
  <2>3. JobOk(DeltaJob(a, n, r, y)) /\ (JobHolds(DeltaJob(a, n, r, y)) <=> KeepsOpening(a))
    BY <1>1, <2>2, BalanceHolds
  <2> QED BY <2>1, <2>3
<1>9. /\ JobOk(RangeJob(new.C, new.r, new.v))
      /\ JobHolds(RangeJob(new.C, new.r, new.v)) <=> InRange(new.v)
  <2>1. Same(new.r, new.r, Q) /\ Same(new.v, new.v, Q)
    BY <1>5, SameItself
  <2> QED BY <1>5, <2>1, RangeHolds
<1>10. JobOk(SignJob(a.pk)) /\ JobHolds(SignJob(a.pk))
  BY <1>6, SignHolds
<1>11. MintJobs(t) = <<DeltaJob(a, new.C, new.r, x), RangeJob(new.C, new.r, new.v), SignJob(a.pk)>>
  BY <1>1, <1>2 DEF MintJobs
<1>12. Relation(t) <=> VerifyMint(a, MintCtx(a, x, t.i))
  BY <1>1 DEF Relation
<1>13. MintCtx(a, x, t.i).rest = new.C /\ MintCtx(a, x, t.i).value = x
  BY <1>2 DEF MintCtx, NewCtx
<1>14. VerifyMint(a, MintCtx(a, x, t.i))
         <=> KeepsOpening(a) /\ InRange(new.v)
  BY <1>3, <1>5, <1>13 DEF VerifyMint, KeepsOpening
<1> QED BY <1>7, <1>9, <1>10, <1>11, <1>12, <1>14, ThreeJobs

LEMMA RedeemFits ==
    ASSUME NEW t \in Sessions, t.type = "redeem", Guard(t)
    PROVE  JobsOk(RedeemJobs(t)) /\ (AllHold(RedeemJobs(t)) <=> Relation(t))
<1>1. PICK a, x : a = t.a /\ x = t.x
  OBVIOUS
<1>2. PICK new : new = RedeemAccount(a, x, t.i)
  OBVIOUS
<1>3. /\ a.v \in Nat /\ a.r \in Nat /\ a.C.v \in Nat /\ a.C.r \in Nat
      /\ x \in Nat /\ Fresh(t.i) \in Nat /\ x <= a.v
  <2>1. x <= a.v
    BY <1>1 DEF Guard, RedeemGuard
  <2> QED BY <1>1, <2>1, SessionNumbers
<1>4. RenewedTo(new, a.pk, a.v - x, Fresh(t.i))
  BY <1>1, <1>2, SessionTypes, RenewIs DEF RedeemAccount
<1>5. /\ new.v = a.v - x /\ new.C.pk = a.pk /\ new.C.v = a.v - x /\ new.C.r = new.r
      /\ new.r \in Int /\ new.v \in Int
  BY <1>3, <1>4 DEF RenewedTo
<1>6. Secret(a.pk) \in Int
  BY <1>1, SessionKeys
<1>7. /\ JobOk(DeltaJob(a, new.C, new.r, -x))
      /\ JobHolds(DeltaJob(a, new.C, new.r, -x)) <=> KeepsOpening(a)
  <2>1. PICK n, r, y : n = new.C /\ r = new.r /\ y = -x
    OBVIOUS
  <2>2. y \in Int /\ n.v = a.v + y /\ n.pk = a.pk /\ n.r = r /\ r \in Int
    BY <1>3, <1>5, <2>1
  <2>3. JobOk(DeltaJob(a, n, r, y)) /\ (JobHolds(DeltaJob(a, n, r, y)) <=> KeepsOpening(a))
    BY <1>1, <2>2, BalanceHolds
  <2> QED BY <2>1, <2>3
<1>9. /\ JobOk(RangeJob(new.C, new.r, new.v))
      /\ JobHolds(RangeJob(new.C, new.r, new.v)) <=> InRange(new.v)
  <2>1. Same(new.r, new.r, Q) /\ Same(new.v, new.v, Q)
    BY <1>5, SameItself
  <2> QED BY <1>5, <2>1, RangeHolds
<1>10. JobOk(SignJob(a.pk)) /\ JobHolds(SignJob(a.pk))
  BY <1>6, SignHolds
<1>11. RedeemJobs(t) = <<DeltaJob(a, new.C, new.r, -x), RangeJob(new.C, new.r, new.v), SignJob(a.pk)>>
  BY <1>1, <1>2 DEF RedeemJobs
<1>12. Relation(t) <=> VerifyRedeem(a, RedeemCtx(a, x, t.i))
  BY <1>1 DEF Relation
<1>13. RedeemCtx(a, x, t.i).rest = new.C /\ RedeemCtx(a, x, t.i).value = x
  BY <1>2 DEF RedeemCtx, NewCtx
<1>14. VerifyRedeem(a, RedeemCtx(a, x, t.i))
         <=> KeepsOpening(a) /\ InRange(new.v)
  BY <1>3, <1>5, <1>13 DEF VerifyRedeem, KeepsOpening
<1> QED BY <1>7, <1>9, <1>10, <1>11, <1>12, <1>14, ThreeJobs

\* A ciphertext's proofs by whoever made it.
LEMMA OwnOpening ==
    ASSUME NEW c, Secret(c.pk) \in Int, c.r \in Int, c.v \in Int
    PROVE  /\ JobOk(KnowledgeJob(c.pk, c, c.r, c.v)) /\ JobHolds(KnowledgeJob(c.pk, c, c.r, c.v))
           /\ JobOk(RangeJob(c, c.r, c.v))
           /\ JobHolds(RangeJob(c, c.r, c.v)) <=> InRange(c.v)
<1>1. PICK k, r, v : k = c.pk /\ r = c.r /\ v = c.v
  OBVIOUS
<1>2. Same(r, r, Q) /\ Same(v, v, Q)
  BY <1>1, SameItself
<1>3. Same(Secret(k) * r, Secret(k) * r, Q)
  <2>1. PICK s \in Int : s = Secret(k) * r
    BY <1>1
  <2> QED BY <2>1, SameItself
<1>4. JobOk(KnowledgeJob(k, c, r, v)) /\ JobHolds(KnowledgeJob(k, c, r, v))
  BY <1>1, <1>2, <1>3, KnowledgeHolds
<1>5. JobOk(RangeJob(c, r, v)) /\ (JobHolds(RangeJob(c, r, v)) <=> InRange(v))
  BY <1>1, <1>2, RangeHolds
<1> QED BY <1>1, <1>4, <1>5

LEMMA SendFits ==
    ASSUME NEW t \in Sessions, t.type = "send", Guard(t)
    PROVE  JobsOk(SendJobs(t)) /\ (AllHold(SendJobs(t)) <=> Relation(t))
<1>1. PICK a, x, key : a = t.a /\ x = t.x /\ key = t.key
  OBVIOUS
<1>2. PICK new, c : new = SendAccount(a, x, t.i) /\ c = SendCtx(a, key, x, t.i).transfer
  OBVIOUS
<1>3. /\ a.v \in Nat /\ x \in Nat /\ x <= a.v
      /\ Fresh(t.i) \in Nat /\ Fresh2(t.i) \in Nat
  <2>1. x <= a.v
    BY <1>1 DEF Guard, SendGuard
  <2> QED BY <1>1, <2>1, SessionNumbers
<1>4. RenewedTo(new, a.pk, a.v - x, Fresh(t.i))
  BY <1>1, <1>2, SessionTypes, RenewIs DEF SendAccount
<1>5. /\ new.C.pk = a.pk /\ new.C.v = new.v /\ new.C.r = new.r
      /\ new.r \in Int /\ new.v \in Int
  BY <1>3, <1>4 DEF RenewedTo
<1>6. c.pk = key /\ c.v = x /\ c.r = Fresh2(t.i) /\ c.r \in Int /\ c.v \in Int
  BY <1>2, <1>3 DEF SendCtx, NewCtx, Enc
<1>7. Secret(a.pk) \in Int /\ Secret(key) \in Int
  BY <1>1, SessionKeys
<1>8. /\ JobOk(KnowledgeJob(a.pk, new.C, new.r, new.v))
      /\ JobHolds(KnowledgeJob(a.pk, new.C, new.r, new.v))
      /\ JobOk(RangeJob(new.C, new.r, new.v))
      /\ JobHolds(RangeJob(new.C, new.r, new.v)) <=> InRange(new.v)
  <2>1. PICK n : n = new.C
    OBVIOUS
  <2> QED BY <1>5, <1>7, <2>1, OwnOpening
<1>9. /\ JobOk(KnowledgeJob(key, c, c.r, x)) /\ JobHolds(KnowledgeJob(key, c, c.r, x))
      /\ JobOk(RangeJob(c, c.r, x))
      /\ JobHolds(RangeJob(c, c.r, x)) <=> InRange(x)
  BY <1>6, <1>7, OwnOpening
<1>10. JobOk(EqualityJob(a.pk, key, x, c.r)) /\ JobHolds(EqualityJob(a.pk, key, x, c.r))
  BY <1>6, <1>7, EqualityHolds
<1>11. JobOk(SignJob(a.pk)) /\ JobHolds(SignJob(a.pk))
  BY <1>7, SignHolds
<1>12. SendJobs(t) =
         <<KnowledgeJob(a.pk, new.C, new.r, new.v), RangeJob(new.C, new.r, new.v),
           KnowledgeJob(key, c, c.r, x), RangeJob(c, c.r, x),
           EqualityJob(a.pk, key, x, c.r), SignJob(a.pk)>>
  BY <1>1, <1>2 DEF SendJobs
<1>13. Relation(t) <=> VerifySend(SendCtx(a, key, x, t.i))
  BY <1>1 DEF Relation
<1>14. SendCtx(a, key, x, t.i).rest = new.C
  BY <1>2 DEF SendCtx, NewCtx
<1>15. VerifySend(SendCtx(a, key, x, t.i)) <=> InRange(new.v) /\ InRange(x)
  BY <1>2, <1>5, <1>6, <1>14 DEF VerifySend
<1> QED BY <1>8, <1>9, <1>10, <1>11, <1>12, <1>13, <1>15, SixJobs

LEMMA DepositFits ==
    ASSUME NEW t \in Sessions, t.type = "deposit"
    PROVE  JobsOk(DepositJobs(t)) /\ (AllHold(DepositJobs(t)) <=> Relation(t))
<1>1. PICK a, c, x : a = t.a /\ c = t.c /\ x = t.c.transfer
  OBVIOUS
<1>2. PICK new, d : new = DepositAccount(a, c, t.i) /\ d = c.C
  OBVIOUS
<1>3. /\ a.v \in Nat /\ x \in Int /\ x \in Nat /\ c.r \in Int /\ d.r \in Int /\ d.v \in Int
      /\ Fresh(t.i) \in Nat
  BY <1>1, <1>2, SessionNumbers
<1>4. RenewedTo(new, a.pk, a.v + x, Fresh(t.i))
  BY <1>1, <1>2, SessionTypes, RenewIs DEF DepositAccount
<1>5. /\ new.C.pk = a.pk /\ new.C.v = new.v /\ new.C.r = new.r /\ new.v = a.v + x
      /\ new.r \in Int /\ new.v \in Int
  BY <1>3, <1>4 DEF RenewedTo
<1>6. /\ Secret(a.pk) \in Int /\ Secret(d.pk) \in Int
      /\ S(Secret(a.pk)) = S(Secret(d.pk)) => a.pk = d.pk
  BY <1>1, <1>2, SessionKeys
<1>7. /\ JobOk(KnowledgeJob(a.pk, new.C, new.r, new.v))
      /\ JobHolds(KnowledgeJob(a.pk, new.C, new.r, new.v))
      /\ JobOk(RangeJob(new.C, new.r, new.v))
      /\ JobHolds(RangeJob(new.C, new.r, new.v)) <=> InRange(new.v)
  <2>1. PICK n : n = new.C
    OBVIOUS
  <2> QED BY <1>5, <1>6, <2>1, OwnOpening
<1>8. (/\ Same(Secret(a.pk) * c.r, Secret(d.pk) * d.r, Q)
       /\ Same(c.r, d.r, Q) /\ Same(x, d.v, Q))
        <=> d.pk = a.pk /\ d.r = c.r /\ d.v = x
  <2>1. /\ c.r \in Scalar /\ x \in Scalar /\ d.r \in Scalar /\ d.v \in Scalar
        /\ d.pk # a.pk => d.r # 0
    BY <1>1, <1>2, SessionScalars
  <2>2. PICK k, s : k = a.pk /\ s = c.r
    OBVIOUS
  <2> QED BY <1>6, <2>1, <2>2, Opened
<1>9. /\ JobOk(KnowledgeJob(a.pk, d, c.r, x))
      /\ JobHolds(KnowledgeJob(a.pk, d, c.r, x)) <=> d.pk = a.pk /\ d.r = c.r /\ d.v = x
  <2>1. PICK k, s : k = a.pk /\ s = c.r
    OBVIOUS
  <2>2. /\ JobOk(KnowledgeJob(k, d, s, x))
        /\ JobHolds(KnowledgeJob(k, d, s, x))
             <=> /\ Same(Secret(k) * s, Secret(d.pk) * d.r, Q)
                 /\ Same(s, d.r, Q) /\ Same(x, d.v, Q)
    BY <1>3, <1>6, <2>1, KnowledgeHolds
  <2> QED BY <1>8, <2>1, <2>2
<1>10. /\ JobOk(RangeJob(d, c.r, x))
       /\ JobHolds(RangeJob(d, c.r, x)) <=> Same(c.r, d.r, Q) /\ Same(x, d.v, Q) /\ InRange(x)
  BY <1>3, RangeHolds
<1>11. JobHolds(KnowledgeJob(a.pk, d, c.r, x))
         => (JobHolds(RangeJob(d, c.r, x)) <=> InRange(x))
  <2>1. Same(d.r, d.r, Q) /\ Same(d.v, d.v, Q)
    BY <1>3, SameItself
  <2> QED BY <1>9, <1>10, <2>1
<1>12. JobOk(EqualityJob(a.pk, a.pk, x, c.r)) /\ JobHolds(EqualityJob(a.pk, a.pk, x, c.r))
  BY <1>3, <1>6, EqualityHolds
<1>13. JobOk(SignJob(a.pk)) /\ JobHolds(SignJob(a.pk))
  BY <1>6, SignHolds
<1>14. DepositJobs(t) =
         <<KnowledgeJob(a.pk, new.C, new.r, new.v), RangeJob(new.C, new.r, new.v),
           KnowledgeJob(a.pk, d, c.r, x), RangeJob(d, c.r, x),
           EqualityJob(a.pk, a.pk, x, c.r), SignJob(a.pk)>>
  BY <1>1, <1>2 DEF DepositJobs
<1>15. Relation(t) <=> VerifyDeposit(a, c)
  BY <1>1 DEF Relation
<1>16. d = Enc(a.pk, x, c.r) <=> d.pk = a.pk /\ d.r = c.r /\ d.v = x
  <2>1. d \in CT
    BY <1>1, <1>2, SessionTypes DEF Cheque
  <2> QED BY <2>1 DEF CT, Enc
<1>17. VerifyDeposit(a, c)
         <=> InRange(new.v) /\ d.pk = a.pk /\ d.r = c.r /\ d.v = x /\ InRange(x)
  BY <1>1, <1>2, <1>5, <1>16 DEF VerifyDeposit
<1> QED BY <1>7, <1>9, <1>10, <1>11, <1>12, <1>13, <1>14, <1>15, <1>17, SixJobs

LEMMA Gadget1Fits ==
    ASSUME NEW t \in Sessions, t.type = "gadget1"
    PROVE  JobsOk(Gadget1Jobs(t)) /\ (AllHold(Gadget1Jobs(t)) <=> Relation(t))
<1>1. PICK c, d : c = Enc(t.key, t.x, Fresh2(t.i)) /\ d = MaxCoin - t.small
  OBVIOUS
<1>2. /\ c.pk = t.key /\ c.v = t.x /\ c.r = Fresh2(t.i) /\ t.x \in Nat /\ d \in Int
      /\ c.r \in Int /\ c.v \in Int /\ t.small \in Int /\ MaxCoin \in Int /\ t.small <= MaxCoin
  BY <1>1, SessionNumbers DEF Enc
<1>3. Secret(c.pk) \in Int
  BY <1>2, SessionKeys
<1>4. JobOk(KnowledgeJob(t.key, c, c.r, t.x)) /\ JobHolds(KnowledgeJob(t.key, c, c.r, t.x))
  BY <1>2, <1>3, OwnOpening
<1>5. /\ JobOk(Adjusted(RangeJob(c, c.r, t.x), d))
      /\ JobHolds(Adjusted(RangeJob(c, c.r, t.x), d)) <=> InRange(t.x + d)
  BY <1>2, AdjustedHolds
<1>6. InRange(t.x + d) <=> t.x < t.small
  BY <1>1, <1>2 DEF InRange
<1>7. Gadget1Jobs(t) = <<KnowledgeJob(t.key, c, c.r, t.x), Adjusted(RangeJob(c, c.r, t.x), d)>>
  BY <1>1 DEF Gadget1Jobs
<1>8. Relation(t) <=> t.x < t.small
  BY DEF Relation
<1> QED BY <1>4, <1>5, <1>6, <1>7, <1>8, TwoJobs

LEMMA Gadget2Fits ==
    ASSUME NEW t \in Sessions, t.type = "gadget2"
    PROVE  JobsOk(Gadget2Jobs(t)) /\ (AllHold(Gadget2Jobs(t)) <=> Relation(t))
<1>1. PICK c, new, d : /\ c = Enc(t.key, t.x, Fresh2(t.i)) /\ new = Enc(t.key, t.x, Fresh(t.i))
                       /\ d = MaxCoin - t.small
  OBVIOUS
<1>2. /\ c.pk = t.key /\ c.v = t.x /\ new.pk = t.key /\ new.v = t.x
      /\ c.r \in Int /\ new.r \in Int /\ new.v \in Int /\ t.x \in Nat /\ d \in Int
      /\ t.small \in Int /\ MaxCoin \in Int /\ t.small <= MaxCoin
  BY <1>1, SessionNumbers DEF Enc
<1>3. Secret(new.pk) \in Int
  BY <1>2, SessionKeys
<1>4. JobOk(KnowledgeJob(t.key, new, new.r, t.x)) /\ JobHolds(KnowledgeJob(t.key, new, new.r, t.x))
  BY <1>2, <1>3, OwnOpening
<1>5. /\ JobOk(Adjusted(RangeJob(new, new.r, t.x), d))
      /\ JobHolds(Adjusted(RangeJob(new, new.r, t.x), d)) <=> InRange(t.x + d)
  BY <1>2, AdjustedHolds
<1>6. InRange(t.x + d) <=> t.x < t.small
  BY <1>1, <1>2 DEF InRange
<1>7. PICK j : j = Job("dlog", << <<G>>, <<Minus(Y(new), Y(c))>> >>,
                       <<Pk(t.key), Minus(X(new), X(c))>>, <<Secret(t.key)>>)
  OBVIOUS
<1>8. JobOk(j) /\ JobHolds(j)
  BY <1>2, <1>3, <1>7, RenewedHolds
<1>9. Gadget2Jobs(t) = <<j, KnowledgeJob(t.key, new, new.r, t.x),
                         Adjusted(RangeJob(new, new.r, t.x), d)>>
  BY <1>1, <1>7 DEF Gadget2Jobs
<1>10. Relation(t) <=> t.x < t.small
  BY DEF Relation
<1> QED BY <1>4, <1>5, <1>6, <1>8, <1>9, <1>10, ThreeJobs

\* The bytes of a number, and the scalar made of them: it is the number exactly
\* when it has no leading zero byte, and else another one, if one at all.
LEMMA BytesOf ==
    ASSUME NEW n \in Nat, n < Power(Byte, BN_LEN)
    PROVE  NumBytes(n) \in 0..BN_LEN
<1>1. PICK P : P = [k \in 0..BN_LEN |-> Power(Byte, k)]
  OBVIOUS
<1>2. BN_LEN \in Nat /\ \A k \in 0..BN_LEN : P[k] = Power(Byte, k) /\ P[k] \in Nat
  <2>1. BN_LEN \in Nat /\ \A k \in 0..BN_LEN : Power(Byte, k) \in Nat
    BY WidthAssumption, PowerNat
  <2> QED BY <1>1, <2>1
<1>3. PICK T : T = {k \in 0..BN_LEN : n < P[k]}
  OBVIOUS
<1>4. T \in SUBSET Nat /\ BN_LEN \in T
  BY <1>2, <1>3
<1>5. PICK k \in T : \A j \in T : k <= j
  BY <1>4, LeastExists
<1>6. k \in 0..BN_LEN /\ n < P[k]
  BY <1>3
<1>7. \A j \in 0..(k - 1) : P[j] <= n
  <2>1. SUFFICES ASSUME NEW j \in 0..(k - 1) PROVE P[j] <= n
    OBVIOUS
  <2>2. j \in 0..BN_LEN /\ j < k
    BY <1>2, <1>6
  <2>3. ~(n < P[j])
    BY <1>3, <1>5, <1>6, <2>2
  <2> QED BY <1>2, <2>2, <2>3
<1>8. n < Power(Byte, k) /\ \A j \in 0..(k - 1) : Power(Byte, j) <= n
  <2>1. \A j \in 0..(k - 1) : j \in 0..BN_LEN
    BY <1>2, <1>6
  <2> QED BY <1>2, <1>6, <1>7, <2>1
<1> QED BY <1>6, <1>8 DEF NumBytes

LEMMA ScalarMade ==
    ASSUME NEW n \in Nat \ {0}, n < Power(Byte, BN_LEN)
    PROVE  /\ LedgerMaze_BIGNUMtoScalar(n) \in Nat \ {0}
           /\ LedgerMaze_BIGNUMtoScalar(n) = n <=> NumBytes(n) = BN_LEN
<1>1. PICK e : e = BN_LEN - NumBytes(n)
  OBVIOUS
<1>2. e \in Nat /\ (e = 0 <=> NumBytes(n) = BN_LEN)
  BY <1>1, BytesOf, WidthAssumption
<1>3. PICK p : p = Power(Byte, e)
  OBVIOUS
<1>4. LedgerMaze_BIGNUMtoScalar(n) = n * p
  BY <1>1, <1>3 DEF LedgerMaze_BIGNUMtoScalar
<1>5. CASE e = 0
  <2>1. p = 1
    BY <1>3, <1>5, PowerStep
  <2> QED BY <1>2, <1>4, <1>5, <2>1
<1>6. CASE e # 0
  <2>1. PICK m \in Nat : e = m + 1
    BY <1>2, <1>6
  <2>2. PICK q \in Nat \ {0} : q = Power(Byte, m)
    BY WidthAssumption, PowerNat
  <2>3. PICK b \in Nat \ {0, 1} : b = Byte
    BY WidthAssumption
  <2>4. p = b * q
    BY <1>3, <2>1, <2>2, <2>3, PowerStep
  <2>5. p \in Nat /\ p > 1
    <3>1. b * q >= 2 * q
      BY <2>3
    <3> QED BY <2>4, <3>1
  <2>6. n * p \in Nat /\ n * p >= n * 2
    BY <2>5
  <2> QED BY <1>2, <1>4, <1>6, <2>6
<1> QED BY <1>5, <1>6

LEMMA ScalarNat ==
    ASSUME NEW n \in Nat, n < Power(Byte, BN_LEN)
    PROVE  LedgerMaze_BIGNUMtoScalar(n) \in Nat
<1>1. BN_LEN - NumBytes(n) \in Nat
  BY BytesOf, WidthAssumption
<1>2. Power(Byte, BN_LEN - NumBytes(n)) \in Nat
  BY <1>1, WidthAssumption, PowerNat
<1> QED BY <1>2 DEF LedgerMaze_BIGNUMtoScalar

LEMMA ScalarBelow == \A n \in Scalar : n \in Nat /\ n < Power(Byte, BN_LEN)
<1>1. Power(Byte, BN_LEN) \in Nat /\ Q <= Power(Byte, BN_LEN)
  BY WidthAssumption, PowerNat
<1> QED BY <1>1, OrderIn DEF Scalar

\* Multiplying by an inverse undoes a multiplication.
LEMMA InverseIs ==
    ASSUME NEW r \in Int
    PROVE  /\ Inverse(S(r)) \in Int
           /\ S(r) # 0 => Same(r * Inverse(S(r)), 1, Q)
<1>1. PICK s \in Int : s = S(r) /\ Same(s, r, Q) /\ s \in Scalar
  BY SOf, RestIn DEF S
<1>2. Q \in Nat \ {0}
  BY OrderIn
<1>3. CASE s = 0
  BY <1>1, <1>3 DEF Inverse
<1>4. CASE s # 0
  <2>1. s \in Unit
    BY <1>1, <1>2, <1>4 DEF Scalar, Unit
  <2>2. \E y \in Unit : (s * y) % Q = 1
    BY <2>1, GroupAssumption
  <2>3. Inverse(s) \in Unit /\ (s * Inverse(s)) % Q = 1
    BY <1>4, <2>2 DEF Inverse
  <2>4. PICK i \in Int : i = Inverse(s)
    BY <2>3, <1>2 DEF Unit
  <2>5. PICK p \in Int, q \in Int, o \in Int : p = s * i /\ q = r * i /\ o = 1
    OBVIOUS
  <2>6. Same(p, o, Q)
    <3>1. p % Q = o /\ o % Q = o
      BY <2>3, <2>4, <2>5, GroupAssumption
    <3> QED BY <1>2, <3>1, SameMod
  <2>7. Same(p, q, Q)
    BY <1>1, <1>2, <2>5, SameProduct
  <2>8. Same(q, o, Q)
    <3>1. Same(q, p, Q)
      BY <2>7, SameTurned
    <3> QED BY <1>2, <2>6, <3>1, SameTrans
  <2> QED BY <1>1, <2>4, <2>5, <2>8
<1> QED BY <1>3, <1>4

\* The three one-out-of-N proofs of a refresh, between the ciphertext c of aux
\* and its encryption n of v with another randomness.  A witness s of the first
\* two shows what the difference of r and n's randomness would, for an r that s
\* is the difference of.
LEMMA FirstMember ==
    ASSUME NEW key, NEW c, NEW n, Secret(key) \in Int, Secret(c.pk) \in Int,
           c.r \in Int, n.r \in Int, n.pk = key, NEW r \in Int, NEW d, d = r - n.r
    PROVE  /\ JobOk(MemberJob(Pk(key), Minus(X(c), X(n)), d))
           /\ JobHolds(MemberJob(Pk(key), Minus(X(c), X(n)), d))
                <=> Same(Secret(key) * r, Secret(c.pk) * c.r, Q)
<1>1. PICK o \in Int, s \in Int : o = 0 /\ s = Secret(key)
  OBVIOUS
<1>2. PICK t \in Int, l \in Int, k \in Int : t = Secret(c.pk) /\ l = c.r /\ k = n.r
  OBVIOUS
<1>3. PICK p : p = Minus(X(c), X(n))
  OBVIOUS
<1>4. IsAt(p, t * l - s * k, o)
  <2>1. IsAt(X(c), t * l, o) /\ IsAt(X(n), s * k, o)
    <3>1. Secret(n.pk) = s /\ Secret(n.pk) \in Int
      BY <1>1
    <3>2. IsAt(X(c), Secret(c.pk) * c.r, 0) /\ IsAt(X(n), Secret(n.pk) * n.r, 0)
      BY <3>1, XAt
    <3> QED BY <1>1, <1>2, <3>1, <3>2
  <2>2. IsAt(p, t * l - s * k, o - o)
    BY <1>3, <2>1, PlusAt
  <2> QED BY <1>1, <2>2
<1>5. d \in Int /\ d = r - k
  BY <1>2
<1>6. IsAt(Pk(key), s, o)
  BY <1>1, PkAt
<1>7. /\ JobOk(MemberJob(Pk(key), p, d))
      /\ JobHolds(MemberJob(Pk(key), p, d))
           <=> Same(s * d, t * l - s * k, Q) /\ Same(o * d, o, Q)
  BY <1>4, <1>5, <1>6, MemberHolds
<1>8. Same(o * d, o, Q)
  <2>1. o * d = o
    BY <1>1, <1>5
  <2> QED BY <2>1, SameItself
<1>9. Same(s * d, t * l - s * k, Q) <=> Same(s * r, t * l, Q)
  <2>1. PICK e \in Int, f \in Int, g \in Int : e = s * r /\ f = s * k /\ g = t * l
    OBVIOUS
  <2>2. s * d = e - f
    <3>1. s * (r - k) = s * r - s * k
      OBVIOUS
    <3> QED BY <1>5, <2>1, <3>1
  <2>3. Same(e - f, g - f, Q) <=> Same(e, g, Q)
    BY SameMoved
  <2> QED BY <2>1, <2>2, <2>3
<1> QED BY <1>1, <1>2, <1>3, <1>7, <1>8, <1>9

LEMMA SecondMember ==
    ASSUME NEW c, NEW n, c.r \in Int, c.v \in Int, n.r \in Int, n.v \in Int, NEW r \in Int,
           NEW d, d = r - n.r
    PROVE  /\ JobOk(MemberJob(G, Minus(Y(c), Y(n)), d))
           /\ JobHolds(MemberJob(G, Minus(Y(c), Y(n)), d))
                <=> Same(r, c.r, Q) /\ Same(c.v, n.v, Q)
<1>1. PICK o \in Int, i \in Int : o = 0 /\ i = 1
  OBVIOUS
<1>2. PICK l \in Int, k \in Int, w \in Int, v \in Int : l = c.r /\ k = n.r /\ w = c.v /\ v = n.v
  OBVIOUS
<1>3. PICK p : p = Minus(Y(c), Y(n))
  OBVIOUS
<1>4. IsAt(p, l - k, w - v)
  <2>1. IsAt(Y(c), l, w) /\ IsAt(Y(n), k, v)
    BY <1>2, YAt
  <2> QED BY <1>3, <2>1, PlusAt
<1>5. d \in Int /\ d = r - k
  BY <1>2
<1>6. IsAt(G, i, o)
  BY <1>1, GeneratorsAt
<1>7. /\ JobOk(MemberJob(G, p, d))
      /\ JobHolds(MemberJob(G, p, d)) <=> Same(i * d, l - k, Q) /\ Same(o * d, w - v, Q)
  BY <1>4, <1>5, <1>6, MemberHolds
<1>8. Same(i * d, l - k, Q) <=> Same(r, l, Q)
  <2>1. i * d = r - k
    BY <1>1, <1>5
  <2>2. Same(r - k, l - k, Q) <=> Same(r, l, Q)
    BY SameMoved
  <2> QED BY <2>1, <2>2
<1>9. Same(o * d, w - v, Q) <=> Same(w, v, Q)
  <2>1. o * d = v - v
    BY <1>1, <1>5
  <2>2. Same(v - v, w - v, Q) <=> Same(v, w, Q)
    BY SameMoved
  <2> QED BY <2>1, <2>2, SameTurned
<1> QED BY <1>2, <1>3, <1>7, <1>8, <1>9

\* The third has a base of its own making and holds for any witness but 0.
LEMMA ThirdMember ==
    ASSUME NEW c, Secret(c.pk) \in Int, c.r \in Int, NEW r \in Int, NEW D,
           D = Minus(X(c), Times(H, S(-r))), NEW w \in Int
    PROVE  /\ JobOk(MemberJob(Times(D, Inverse(S(w))), D, w))
           /\ S(w) # 0 => JobHolds(MemberJob(Times(D, Inverse(S(w))), D, w))
<1>1. PICK o \in Int, i \in Int, m \in Int : o = 0 /\ i = 1 /\ m = -r
  OBVIOUS
<1>2. PICK t \in Int, l \in Int, e \in Int : t = Secret(c.pk) /\ l = c.r /\ e = t * l
  OBVIOUS
<1>3. IsAt(D, e, r)
  <2>1. IsAt(X(c), e, o)
    <3>1. IsAt(X(c), Secret(c.pk) * c.r, 0)
      BY XAt
    <3> QED BY <1>1, <1>2, <3>1
  <2>2. S(m) \in Int /\ Same(S(m), m, Q) /\ IsAt(H, o, i)
    BY <1>1, SOf, GeneratorsAt
  <2>3. IsAt(Times(H, S(m)), o * m, i * m)
    BY <2>2, TimesAt
  <2>4. IsAt(D, e - o * m, o - i * m)
    BY <1>1, <2>1, <2>3, PlusAt
  <2>5. e - o * m = e /\ o - i * m = r
    BY <1>1
  <2> QED BY <2>4, <2>5
<1>4. PICK y \in Int : y = Inverse(S(w)) /\ (S(w) # 0 => Same(w * y, 1, Q))
  BY InverseIs
<1>5. IsAt(Times(D, y), e * y, r * y)
  <2>1. Same(y, y, Q)
    BY SameItself
  <2> QED BY <1>3, <2>1, TimesAt
<1>6. /\ JobOk(MemberJob(Times(D, y), D, w))
      /\ JobHolds(MemberJob(Times(D, y), D, w))
           <=> Same((e * y) * w, e, Q) /\ Same((r * y) * w, r, Q)
  BY <1>3, <1>5, MemberHolds
<1>7. ASSUME NEW f \in Int, S(w) # 0 PROVE Same((f * y) * w, f, Q)
  <2>1. PICK u \in Int : u = w * y
    OBVIOUS
  <2>2. Same(u * f, f, Q)
    BY <1>4, <1>7, <2>1, OrderIn, SameUnit
  <2>3. (f * y) * w = u * f
    BY <2>1
  <2> QED BY <2>2, <2>3
<1> QED BY <1>4, <1>6, <1>7

\* That the numbers of the one-out-of-N proofs were small enough for scalars.
Converted(js) == \A k \in DOMAIN js : js[k].kind = "member" => js[k].wit[1] < Q

LEMMA RefreshFits ==
    ASSUME NEW t \in Sessions, t.type = "refresh"
    PROVE  /\ JobsOk(RefreshJobs(t))
           /\ Converted(RefreshJobs(t)) =>
                 (AllHold(RefreshJobs(t)) <=> Relation(t) /\ Converts(t))
<1>1. PICK k, x, f : k = t.a.pk /\ x = t.x /\ f = Fresh2(t.sent)
  OBVIOUS
<1>2. PICK c, v, r, n :
        c = Enc(t.key, x, f) /\ v = Aux(t)[1] /\ r = Aux(t)[2] /\ n = Enc(k, v, Fresh(t.i))
  OBVIOUS
<1>3. PICK D : D = Minus(X(c), Times(H, S(-r)))
  OBVIOUS
<1>4. /\ x \in Nat /\ f \in Nat /\ Fresh(t.i) \in Nat /\ v \in Nat
      /\ r \in Nat /\ r < Power(Byte, BN_LEN)
  <2>1. /\ x \in Nat /\ f \in Nat /\ Fresh(t.i) \in Nat /\ t.aux[1] \in Nat
        /\ t.aux[2] \in Nat /\ t.aux[2] < Power(Byte, BN_LEN)
    BY <1>1, SessionNumbers
  <2>2. S(f) \in Nat /\ S(f) < Power(Byte, BN_LEN)
    BY <2>1, RestIn, ScalarBelow DEF S
  <2> QED BY <1>1, <1>2, <2>1, <2>2 DEF Aux
<1>5. /\ c.pk = t.key /\ c.v = x /\ c.r = f /\ n.pk = k /\ n.v = v /\ n.r = Fresh(t.i)
      /\ c.r \in Int /\ c.v \in Int /\ n.r \in Int /\ n.v \in Int /\ r \in Int
  BY <1>2, <1>4 DEF Enc
<1>6. /\ Secret(k) \in Int /\ Secret(t.key) \in Int
      /\ S(Secret(k)) = S(Secret(t.key)) => k = t.key
  BY <1>1, SessionKeys
<1>7. PICK d, s, w : /\ d = S(r - n.r) /\ s = LedgerMaze_BIGNUMtoScalar(d)
                     /\ w = LedgerMaze_BIGNUMtoScalar(r)
  OBVIOUS
<1>8. d \in Scalar /\ d \in Nat /\ d < Power(Byte, BN_LEN) /\ Same(d, r - n.r, Q)
  BY <1>5, <1>7, RestIn, ScalarBelow DEF S
<1>9. s \in Nat /\ w \in Nat
  BY <1>4, <1>7, <1>8, ScalarNat
<1>10. PICK j1, j2, j3 : /\ j1 = MemberJob(Pk(k), Minus(X(c), X(n)), s)
                         /\ j2 = MemberJob(G, Minus(Y(c), Y(n)), s)
                         /\ j3 = MemberJob(Times(D, Inverse(S(w))), D, w)
  OBVIOUS
<1>11. PICK q \in Int : q = s + n.r
  BY <1>5, <1>9
<1>12. s = q - n.r
  BY <1>5, <1>9, <1>11
<1>13. JobOk(j1) /\ (JobHolds(j1) <=> Same(Secret(k) * q, Secret(c.pk) * c.r, Q))
  BY <1>5, <1>6, <1>10, <1>12, FirstMember
<1>14. JobOk(j2) /\ (JobHolds(j2) <=> Same(q, c.r, Q) /\ Same(c.v, n.v, Q))
  BY <1>5, <1>10, <1>12, SecondMember
<1>15. JobOk(j3) /\ (S(w) # 0 => JobHolds(j3))
  <2>1. Secret(c.pk) \in Int /\ c.r \in Int /\ r \in Int /\ w \in Int
    BY <1>5, <1>6, <1>9
  <2> QED BY <1>3, <1>10, <2>1, ThirdMember
<1>16. /\ JobOk(KnowledgeJob(k, n, n.r, v)) /\ JobHolds(KnowledgeJob(k, n, n.r, v))
       /\ JobOk(RangeJob(n, n.r, v))
       /\ JobHolds(RangeJob(n, n.r, v)) <=> InRange(v)
  BY <1>5, <1>6, OwnOpening
<1>17. JobOk(SignJob(k)) /\ JobHolds(SignJob(k))
  BY <1>6, SignHolds
<1>18. RefreshJobs(t) =
         <<j1, j2, j3, KnowledgeJob(k, n, n.r, v), RangeJob(n, n.r, v), SignJob(k)>>
  BY <1>1, <1>2, <1>3, <1>7, <1>10 DEF RefreshJobs
<1>19. Relation(t) <=> t.key = k /\ InRange(x)
  <2>1. PICK m : m = [NewCtx("send", 1, t.key) EXCEPT !.transfer = c, !.aux = c]
    OBVIOUS
  <2>2. m.transfer = c /\ m.aux = c
    BY <2>1 DEF NewCtx
  <2>3. Relation(t) <=> VerifyRefresh(t.a, m)
    BY <1>1, <1>2, <2>1 DEF Relation
  <2>4. c = Enc(k, x, f) <=> t.key = k
    BY <1>2, <1>5 DEF Enc
  <2> QED BY <1>1, <1>5, <2>2, <2>3, <2>4 DEF VerifyRefresh
<1>20. JobsOk(RefreshJobs(t))
  BY <1>13, <1>14, <1>15, <1>16, <1>17, <1>18, SixJobs
<1>21. AllHold(RefreshJobs(t)) <=> JobHolds(j1) /\ JobHolds(j2) /\ JobHolds(j3) /\ InRange(v)
  BY <1>13, <1>14, <1>15, <1>16, <1>17, <1>18, SixJobs
<1>22. Converted(RefreshJobs(t)) => s < Q /\ w < Q
  <2>1. /\ RefreshJobs(t)[2] = j2 /\ RefreshJobs(t)[3] = j3
        /\ 2 \in DOMAIN RefreshJobs(t) /\ 3 \in DOMAIN RefreshJobs(t)
    BY <1>18
  <2>2. j2.kind = "member" /\ j2.wit[1] = s /\ j3.kind = "member" /\ j3.wit[1] = w
    BY <1>10 DEF MemberJob, Job
  <2> QED BY <2>1, <2>2 DEF Converted
<1>23. CASE t.key = k
  <2>1. v = x /\ r = S(f)
    BY <1>1, <1>2, <1>23 DEF Aux
  <2>2. Same(r, f, Q) /\ Same(c.v, n.v, Q) /\ r # 0
    BY <1>1, <1>4, <1>5, <2>1, SOf, SameItself, SessionScalars
  <2>3. d # 0
    <3>1. PICK a \in Int, b \in Int : a = r - n.r /\ b = f - n.r
      BY <1>4, <1>5
    <3>2. Same(a, b, Q)
      <4>1. Same(r - n.r, f - n.r, Q) <=> Same(r, f, Q)
        BY <1>4, <1>5, SameMoved
      <4> QED BY <2>2, <3>1, <4>1
    <3>3. S(a) = S(b)
      BY <3>2, OrderIn, SameMod DEF S
    <3> QED BY <1>1, <1>5, <1>7, <3>1, <3>3, SessionScalars
  <2>4. (s = d <=> NumBytes(d) = BN_LEN) /\ w \in Nat \ {0}
    BY <1>4, <1>7, <1>8, <2>2, <2>3, ScalarMade
  <2>5. Converts(t) <=> NumBytes(d) = BN_LEN
    BY <1>2, <1>5, <1>7 DEF Converts
  <2>6. JobHolds(j2) <=> Same(s, d, Q)
    <3>1. PICK a \in Int, b \in Int : a = r - n.r /\ b = f - n.r
      BY <1>4, <1>5
    <3>2. Same(q, f, Q) <=> Same(s, b, Q)
      <4>1. Same(q - n.r, f - n.r, Q) <=> Same(q, f, Q)
        BY <1>4, <1>5, SameMoved
      <4> QED BY <1>12, <3>1, <4>1
    <3>3. Same(a, b, Q)
      <4>1. Same(r - n.r, f - n.r, Q) <=> Same(r, f, Q)
        BY <1>4, <1>5, SameMoved
      <4> QED BY <2>2, <3>1, <4>1
    <3>4. Same(d, b, Q)
      BY <1>8, <3>1, <3>3, OrderIn, SameTrans
    <3>5. Same(s, b, Q) <=> Same(s, d, Q)
      <4>1. Same(b, d, Q)
        BY <1>8, <3>4, SameTurned
      <4> QED BY <1>8, <1>9, <3>4, <4>1, OrderIn, SameTrans
    <3> QED BY <1>5, <1>14, <2>2, <3>2, <3>5
  <2>7. JobHolds(j2) => JobHolds(j1)
    <3>1. SUFFICES ASSUME Same(q, f, Q) PROVE Same(Secret(k) * q, Secret(k) * f, Q)
      BY <1>5, <1>13, <1>14, <1>23
    <3>2. PICK a \in Int, g \in Int : a = Secret(k) /\ g = f
      BY <1>4, <1>6
    <3>3. Same(q * a, g * a, Q)
      BY <3>1, <3>2, OrderIn, SameProduct
    <3>4. q * a = a * q /\ g * a = a * g
      OBVIOUS
    <3> QED BY <3>2, <3>3, <3>4
  <2>8. ASSUME s < Q, w < Q PROVE JobHolds(j3) /\ (Same(s, d, Q) <=> s = d)
    <3>1. s \in Scalar /\ w \in Scalar
      BY <1>9, <2>8, OrderIn DEF Scalar
    <3>2. S(w) # 0
      BY <2>4, <2>8, OrderIn DEF S
    <3> QED BY <1>8, <1>15, <3>1, <3>2, SameScalars
  <2> QED BY <1>19, <1>20, <1>21, <1>22, <1>23, <2>1, <2>4, <2>5, <2>6, <2>7, <2>8
<1>24. CASE t.key # k
  <2>1. ~(JobHolds(j1) /\ JobHolds(j2))
    <3>1. SUFFICES ASSUME JobHolds(j1), JobHolds(j2) PROVE FALSE
      OBVIOUS
    <3>2. PICK l, e : l = t.key /\ e = c.r
      OBVIOUS
    <3>3. /\ e \in Int /\ Secret(l) \in Int /\ Same(q, e, Q)
          /\ Same(Secret(k) * q, Secret(l) * e, Q)
          /\ S(Secret(k)) = S(Secret(l)) => k = l
      BY <1>5, <1>6, <1>13, <1>14, <3>1, <3>2
    <3>4. ~Same(e, 0, Q)
      <4>1. S(e) # 0
        BY <1>1, <1>5, <3>2, SessionScalars
      <4> QED BY <3>3, <4>1, SameZero DEF S
    <3>5. k = l
      BY <1>6, <3>3, <3>4, KeysAgree
    <3> QED BY <1>24, <3>2, <3>5
  <2> QED BY <1>19, <1>20, <1>21, <1>24, <2>1
<1> QED BY <1>23, <1>24

\* Every transaction and gadget.
LEMMA JobsFit ==
    ASSUME NEW t \in Sessions, Guard(t)
    PROVE  /\ JobsOk(Jobs(t))
           /\ Converted(Jobs(t)) => (AllHold(Jobs(t)) <=> Relation(t) /\ Converts(t))
<1>1. t.type \in TxType \cup {"gadget1", "gadget2"}
  BY SessionAssumption DEF SessionType
<1>2. t.type # "refresh" => Converts(t)
  BY DEF Converts
<1>3. CASE t.type = "mint"
  BY <1>2, <1>3, MintFits DEF Jobs
<1>4. CASE t.type = "redeem"
  BY <1>2, <1>4, RedeemFits DEF Jobs
<1>5. CASE t.type = "send"
  BY <1>2, <1>5, SendFits DEF Jobs
<1>6. CASE t.type = "refresh"
  BY <1>6, RefreshFits DEF Jobs
<1>7. CASE t.type = "deposit"
  BY <1>2, <1>7, DepositFits DEF Jobs
<1>8. CASE t.type = "gadget1"
  BY <1>2, <1>8, Gadget1Fits DEF Jobs
<1>9. CASE t.type = "gadget2"
  BY <1>2, <1>9, Gadget2Fits DEF Jobs
<1> QED BY <1>1, <1>3, <1>4, <1>5, <1>6, <1>7, <1>8, <1>9 DEF TxType

-----------------------------------------------------------------------------
(* What the prover has left when the verifier starts, and how far the       *)
(* verifier has come.                                                       *)

\* The proof p of the job j was made with the challenge that o holds for its
\* transcript T.
Shown(j, p, T, o) ==
    /\ j.kind \in Sigma =>
          /\ T \in DOMAIN o
          /\ \E a \in [1..Len(j.wit) -> Int] :
                p.com = Phi(j.bases, a) /\ p.z = Respond(a, o[T], j.wit)
    /\ j.kind = "range" => T \in DOMAIN o /\ p.com = <<o[T]>> /\ p.z = j.wit
    /\ j.kind = "member" => p.z = j.wit /\ j.wit[1] < Q

\* The string after a proof that started with s.
After(s, j, com) ==
    IF j.kind \in {"sign", "member"} THEN s ELSE Transcript(ProveStart(s), j, com)

\* st[k] is the string the proof k starts with.
Told(k, st) ==
    /\ Shown(jobs[k], proof[k],
             Transcript(ProveStart(st[k]), jobs[k], proof[k].com), oracle)
    /\ st[k + 1] = After(st[k], jobs[k], proof[k].com)
Chained == tx.type \in {"mint", "redeem", "gadget1", "gadget2"}
Strings(st) ==
    /\ st[1] = <<>>
    /\ \A k \in DOMAIN jobs : phase # "prove" \/ k < at => Told(k, st)
    /\ phase = "prove" \/ (phase = "verify" /\ Chained) => str = st[at]

Verdicts ==
    /\ phase = "prove" => verdict = "none"
    /\ phase = "verify" =>
          verdict = IF \A i \in 1..(at - 1) : JobHolds(jobs[Order[i]])
                    THEN "none" ELSE "reject"
    /\ phase = "done" => (verdict = "accept" <=> AllHold(jobs))

Honest ==
    /\ tx \in Sessions /\ Guard(tx) /\ jobs = Jobs(tx)
    /\ phase \in {"prove", "verify", "done"} /\ at \in 1..Len(jobs)
    /\ DOMAIN proof = DOMAIN jobs
    /\ \A T \in DOMAIN oracle : oracle[T] \in Challenges
HonestInv ==
    IF role = "honest" /\ phase # "down"
    THEN Honest /\ Verdicts /\ \E st : Strings(st)
    ELSE phase \in {"any", "down"}

LEMMA ChallengesIn == ASSUME NEW e \in Challenges PROVE e \in Unit /\ e \in Int
<1>1. e \in Unit
  BY ChallengeAssumption
<1> QED BY <1>1, OrderIn DEF Unit

LEMMA ShownStays ==
    ASSUME NEW j, NEW p, NEW T, NEW o, NEW q, Shown(j, p, T, o),
           \A t \in DOMAIN o : t \in DOMAIN q /\ q[t] = o[t]
    PROVE  Shown(j, p, T, q)
BY DEF Shown

\* The verifier's conditions, with the challenge of the prover.
LEMMA ShownChecks ==
    ASSUME NEW j, JobOk(j), NEW p, NEW T, NEW o, Shown(j, p, T, o), NEW e \in Challenges,
           j.kind # "member" => T \in DOMAIN o /\ o[T] = e
    PROVE  /\ j.kind \in Sigma =>
                 (Check(j.bases, j.stmt, p.com, e, p.z) <=> JobHolds(j))
           /\ j.kind = "range" =>
                 (/\ p.com = <<e>> /\ InRange(p.z[2]) /\ Phi(j.bases, p.z) = j.stmt)
                 <=> JobHolds(j)
           /\ j.kind = "member" => (Phi(j.bases, p.z) = j.stmt <=> JobHolds(j))
<1>1. CASE j.kind \in Sigma
  <2>1. j.kind # "range" /\ j.kind # "member"
    BY <1>1 DEF Sigma
  <2>2. PICK a \in [1..Len(j.wit) -> Int] :
          p.com = Phi(j.bases, a) /\ p.z = Respond(a, e, j.wit)
    BY <1>1, <2>1 DEF Shown
  <2>3. Check(j.bases, j.stmt, Phi(j.bases, a), e, Respond(a, e, j.wit))
          <=> Phi(j.bases, j.wit) = j.stmt
    BY ChallengesIn, HonestAnswer
  <2> QED BY <2>1, <2>2, <2>3 DEF JobHolds
<1>2. CASE j.kind = "range"
  <2>1. p.com = <<e>> /\ p.z = j.wit /\ j.kind \notin Sigma /\ j.kind # "member"
    BY <1>2 DEF Shown, Sigma
  <2> QED BY <1>2, <2>1 DEF JobHolds
<1>3. CASE j.kind = "member"
  <2>1. p.z = j.wit /\ j.kind \notin Sigma /\ j.kind # "range"
    BY <1>3 DEF Shown, Sigma
  <2> QED BY <1>3, <2>1 DEF JobHolds
<1> QED BY <1>1, <1>2, <1>3

LEMMA OrderIs ==
    ASSUME JobsOk(jobs), tx.type \in TxType \cup {"gadget1", "gadget2"}
    PROVE  /\ DOMAIN Order = DOMAIN jobs
           /\ \A i \in DOMAIN jobs : Order[i] \in DOMAIN jobs
           /\ \A k \in DOMAIN jobs : \E i \in DOMAIN jobs : Order[i] = k
           /\ Chained => \A i \in DOMAIN jobs : Order[i] = i
<1>1. PICK n \in Nat \ {0} : n = Len(jobs) /\ DOMAIN jobs = 1..n
  BY DEF JobsOk
<1>2. CASE tx.type \notin {"send", "refresh", "deposit"}
  <2>1. Order = [k \in DOMAIN jobs |-> k]
    BY <1>2 DEF Order
  <2> QED BY <2>1
<1>3. CASE tx.type \in {"send", "refresh", "deposit"}
  <2>1. PICK m \in Nat : m = n - 1
    BY <1>1
  <2>2. PICK f : f = [k \in 1..m |-> k]
    OBVIOUS
  <2>3. f \in Seq(Nat) /\ Len(f) = m
    BY <2>2
  <2>4. PICK h : h = <<n>> \o f
    OBVIOUS
  <2>5. Order = h
    BY <1>1, <1>3, <2>1, <2>2, <2>4 DEF Order
  <2>6. /\ DOMAIN h = 1..n /\ h[1] = n
        /\ \A i \in 2..n : h[i] = i - 1
    <3>1. <<n>> \in Seq(Nat) /\ Len(<<n>>) = 1
      BY <1>1
    <3>2. h \in Seq(Nat) /\ Len(h) = 1 + m
      BY <2>3, <2>4, <3>1
    <3>3. h[1] = n
      BY <2>3, <2>4, <3>1
    <3>4. ASSUME NEW i \in 2..n PROVE h[i] = i - 1
      <4>1. h[i] = f[i - 1]
        BY <2>1, <2>3, <2>4, <3>1
      <4> QED BY <2>1, <2>2, <4>1
    <3> QED BY <1>1, <2>1, <3>2, <3>3, <3>4
  <2>7. \A i \in 1..n : h[i] \in 1..n
    BY <1>1, <2>6
  <2>8. ASSUME NEW k \in 1..n PROVE \E i \in 1..n : h[i] = k
    <3>1. CASE k = n
      BY <1>1, <2>6, <3>1
    <3>2. CASE k # n
      <4>1. k + 1 \in 2..n /\ k + 1 \in 1..n /\ (k + 1) - 1 = k
        BY <1>1, <3>2
      <4>2. h[k + 1] = k
        BY <2>6, <4>1
      <4> QED BY <4>1, <4>2
    <3> QED BY <3>1, <3>2
  <2>9. ~Chained
    BY <1>3 DEF Chained
  <2> QED BY <1>1, <2>5, <2>6, <2>7, <2>8, <2>9
<1> QED BY <1>2, <1>3

LEMMA HashIs ==
    ASSUME NEW T, NEW e \in Challenges, Hash(T, e),
           \A t \in DOMAIN oracle : oracle[t] \in Challenges
    PROVE  /\ T \in DOMAIN oracle' /\ oracle'[T] = e
           /\ \A t \in DOMAIN oracle : t \in DOMAIN oracle' /\ oracle'[t] = oracle[t]
           /\ \A t \in DOMAIN oracle' : oracle'[t] \in Challenges
           /\ T \in DOMAIN oracle => e = oracle[T]
BY DEF Hash

LEMMA HonestStart == Init => HonestInv
<1>1. SUFFICES ASSUME Init PROVE HonestInv
  OBVIOUS
<1>2. CASE HonestInit
  <2>1. /\ role = "honest" /\ tx \in Sessions /\ Guard(tx) /\ jobs = Jobs(tx)
        /\ phase = "prove" /\ proof = [k \in DOMAIN jobs |-> NoProof]
        /\ at = 1 /\ str = <<>> /\ oracle = <<>> /\ verdict = "none"
    BY <1>1, <1>2 DEF Init, HonestInit
  <2>2. JobsOk(jobs)
    BY <2>1, JobsFit
  <2>3. at \in 1..Len(jobs) /\ DOMAIN jobs = 1..Len(jobs)
    BY <2>1, <2>2 DEF JobsOk
  <2>4. Honest
    BY <2>1, <2>3 DEF Honest
  <2>5. Verdicts
    BY <2>1 DEF Verdicts
  <2>6. Strings(<< <<>> >>)
    <3>1. \A k \in DOMAIN jobs : ~(phase # "prove" \/ k < at)
      BY <2>1, <2>3
    <3> QED BY <2>1, <3>1 DEF Strings
  <2> QED BY <2>1, <2>4, <2>5, <2>6 DEF HonestInv
<1>3. CASE AnyInit
  BY <1>3 DEF AnyInit, HonestInv
<1> QED BY <1>1, <1>2, <1>3 DEF Init

\* What a step of the prover or the verifier finds: the proof at work.
LEMMA AtWork ==
    ASSUME Honest
    PROVE  /\ JobsOk(jobs) /\ DOMAIN jobs = 1..Len(jobs) /\ Len(jobs) \in Nat \ {0}
           /\ at \in DOMAIN jobs /\ Order[at] \in DOMAIN jobs
           /\ JobOk(jobs[at]) /\ JobOk(jobs[Order[at]])
           /\ tx.type \in TxType \cup {"gadget1", "gadget2"}
           /\ Converted(jobs) => (AllHold(jobs) <=> Relation(tx) /\ Converts(tx))
<1>1. /\ JobsOk(jobs)
      /\ Converted(jobs) => (AllHold(jobs) <=> Relation(tx) /\ Converts(tx))
  BY JobsFit DEF Honest
<1>2. tx.type \in TxType \cup {"gadget1", "gadget2"}
  BY SessionAssumption DEF Honest, SessionType
<1>3. DOMAIN jobs = 1..Len(jobs) /\ Len(jobs) \in Nat \ {0} /\ at \in DOMAIN jobs
  BY <1>1 DEF JobsOk, Honest
<1>4. Order[at] \in DOMAIN jobs
  BY <1>1, <1>2, <1>3, OrderIs
<1> QED BY <1>1, <1>2, <1>3, <1>4 DEF JobsOk

\* A proof that has been made stays told.
LEMMA ToldStays ==
    ASSUME NEW k, NEW st, NEW su, Told(k, st), su[k] = st[k], su[k + 1] = st[k + 1],
           jobs' = jobs, tx' = tx, proof'[k] = proof[k],
           \A t \in DOMAIN oracle : t \in DOMAIN oracle' /\ oracle'[t] = oracle[t]
    PROVE  Told(k, su)'
<1>1. PICK T : T = Transcript(ProveStart(st[k]), jobs[k], proof[k].com)
  OBVIOUS
<1>2. Transcript(ProveStart(su[k]), jobs[k], proof[k].com)' = T
  BY <1>1 DEF Transcript, ProveStart
<1>3. After(su[k], jobs[k], proof[k].com)' = After(st[k], jobs[k], proof[k].com)
  BY DEF After, Transcript, ProveStart
<1>4. Shown(jobs[k], proof[k], T, oracle')
  BY <1>1, ShownStays DEF Told
<1> QED BY <1>2, <1>3, <1>4 DEF Told

\* The prover goes on to the next proof, or hands over to the verifier.
LEMMA ProvedStep ==
    ASSUME HonestInv, role = "honest", phase = "prove", NEW p, NEW t, Proved(p, t),
           \A s \in DOMAIN oracle : s \in DOMAIN oracle' /\ oracle'[s] = oracle[s],
           \A s \in DOMAIN oracle' : oracle'[s] \in Challenges,
           Shown(jobs[at], p, Transcript(ProveStart(str), jobs[at], p.com), oracle'),
           t = After(str, jobs[at], p.com)
    PROVE  HonestInv'
<1>1. Honest /\ Verdicts
  BY DEF HonestInv
<1>2. PICK st : Strings(st)
  BY DEF HonestInv
<1>3. PICK n \in Nat \ {0} : n = Len(jobs) /\ DOMAIN jobs = 1..n
  BY <1>1, AtWork
<1>4. PICK i \in 1..n : i = at
  BY <1>1, <1>3 DEF Honest
<1>5. /\ proof' = [proof EXCEPT ![i] = p]
      /\ at' = IF i = n THEN 1 ELSE i + 1
      /\ phase' = IF i = n THEN "verify" ELSE "prove"
      /\ str' = IF i = n THEN <<>> ELSE t
      /\ role' = role /\ tx' = tx /\ jobs' = jobs /\ verdict' = verdict
  BY <1>3, <1>4 DEF Proved
<1>6. DOMAIN proof = 1..n
  BY <1>1, <1>3 DEF Honest
<1>7. DOMAIN proof' = 1..n /\ proof'[i] = p /\ \A k \in 1..n : k # i => proof'[k] = proof[k]
  BY <1>5, <1>6
<1>8. Honest'
  <2>1. at' \in 1..n /\ phase' \in {"prove", "verify"}
    BY <1>3, <1>5
  <2> QED BY <1>1, <1>3, <1>5, <1>7, <2>1 DEF Honest
<1>9. Verdicts'
  <2>1. verdict' = "none"
    BY <1>1, <1>5 DEF Verdicts
  <2>2. phase' = "verify" => 1..(at' - 1) = {}
    BY <1>5
  <2>3. phase' # "done"
    BY <1>5
  <2> QED BY <2>1, <2>2, <2>3 DEF Verdicts
<1>10. PICK su : /\ su = [k \in 1..(n + 1) |-> IF k = i + 1 THEN t ELSE st[k]]
  OBVIOUS
<1>11. su[i] = st[i] /\ su[i + 1] = t /\ su[1] = <<>> /\ st[i] = str
       /\ \A k \in 1..i : su[k] = st[k]
  <2>1. st[1] = <<>> /\ st[i] = str
    BY <1>2, <1>4 DEF Strings
  <2>2. \A k \in 1..i : su[k] = st[k]
    BY <1>3, <1>10
  <2>3. su[i + 1] = t
    BY <1>3, <1>10
  <2> QED BY <1>3, <1>4, <2>1, <2>2, <2>3
<1>12. ASSUME NEW k \in 1..n, k < i PROVE Told(k, su)'
  <2>1. Told(k, st)
    BY <1>2, <1>3, <1>4, <1>12 DEF Strings
  <2>2. su[k] = st[k] /\ su[k + 1] = st[k + 1]
    BY <1>11, <1>12
  <2>3. proof'[k] = proof[k]
    BY <1>7, <1>12
  <2> QED BY <1>5, <2>1, <2>2, <2>3, ToldStays
<1>13. Told(i, su)'
  <2>1. PICK T : T = Transcript(ProveStart(str), jobs[i], p.com)
    OBVIOUS
  <2>2. Transcript(ProveStart(su[i]), jobs[i], proof[i].com)' = T
    BY <1>5, <1>7, <1>11, <2>1 DEF Transcript, ProveStart
  <2>3. After(su[i], jobs[i], proof[i].com)' = t
    <3>1. t = After(str, jobs[i], p.com)
      BY <1>4
    <3> QED BY <1>5, <1>7, <1>11, <3>1 DEF After, Transcript, ProveStart
  <2>4. Shown(jobs[i], p, T, oracle')
    BY <1>4, <2>1
  <2> QED BY <1>5, <1>7, <1>11, <2>2, <2>3, <2>4 DEF Told
<1>14. Strings(su)'
  <2>1. \A k \in 1..n : (phase' # "prove" \/ k < at') => k < i \/ k = i
    BY <1>3, <1>5
  <2>2. \A k \in 1..n : (phase' # "prove" \/ k < at') => Told(k, su)'
    BY <1>12, <1>13, <2>1
  <2>3. str' = su[at']
    BY <1>5, <1>11
  <2> QED BY <1>3, <1>5, <1>11, <2>2, <2>3 DEF Strings
<1> QED BY <1>5, <1>8, <1>9, <1>14 DEF HonestInv

LEMMA ProveStep == ASSUME HonestInv, role = "honest", Prove PROVE HonestInv'
<1>1. Honest
  BY DEF HonestInv, Prove
<1>2. PICK j : j = jobs[at]
  OBVIOUS
<1>3. JobOk(j) /\ j.kind \in Sigma /\ phase = "prove"
  BY <1>1, <1>2, AtWork DEF Prove
<1>4. PICK a \in Draws(Len(j.wit)), e \in Challenges :
        /\ Hash(Transcript(ProveStart(str), j, Phi(j.bases, a)), e)
        /\ Proved([com |-> Phi(j.bases, a), z |-> Respond(a, e, j.wit)],
                  IF j.kind = "sign" THEN str
                  ELSE Transcript(ProveStart(str), j, Phi(j.bases, a)))
  BY <1>2 DEF Prove
<1>5. PICK p, T : /\ p = [com |-> Phi(j.bases, a), z |-> Respond(a, e, j.wit)]
                  /\ T = Transcript(ProveStart(str), j, Phi(j.bases, a))
  OBVIOUS
<1>6. p.com = Phi(j.bases, a) /\ p.z = Respond(a, e, j.wit)
  BY <1>5
<1>7. /\ T \in DOMAIN oracle' /\ oracle'[T] = e
      /\ \A t \in DOMAIN oracle : t \in DOMAIN oracle' /\ oracle'[t] = oracle[t]
      /\ \A t \in DOMAIN oracle' : oracle'[t] \in Challenges
  BY <1>1, <1>4, <1>5, HashIs DEF Honest
<1>8. a \in [1..Len(j.wit) -> Int]
  <2>1. PICK n \in {1, 2} : n = Len(j.wit)
    BY <1>3 DEF JobOk
  <2>2. a \in [1..n -> Nat]
    BY <1>4, <2>1, DrawsAssumption
  <2> QED BY <2>1, <2>2
<1>9. j.kind # "range" /\ j.kind # "member"
  BY <1>3 DEF Sigma
<1>10. Shown(j, p, T, oracle')
  BY <1>6, <1>7, <1>8, <1>9 DEF Shown
<1>11. PICK t : t = IF j.kind = "sign" THEN str ELSE T
  OBVIOUS
<1>12. t = After(str, j, p.com)
  BY <1>5, <1>6, <1>9, <1>11 DEF After
<1>13. Proved(p, t)
  BY <1>4, <1>5, <1>11
<1>14. T = Transcript(ProveStart(str), j, p.com)
  BY <1>5, <1>6
<1> QED BY <1>2, <1>3, <1>7, <1>10, <1>12, <1>13, <1>14, ProvedStep

LEMMA ProveRangeStep == ASSUME HonestInv, role = "honest", ProveRange PROVE HonestInv'
<1>1. Honest
  BY DEF HonestInv, ProveRange
<1>2. PICK j : j = jobs[at]
  OBVIOUS
<1>3. j.kind = "range" /\ phase = "prove"
  BY <1>2 DEF ProveRange
<1>4. PICK e \in Challenges :
        /\ Hash(Transcript(ProveStart(str), j, <<>>), e)
        /\ Proved([com |-> <<e>>, z |-> j.wit], Transcript(ProveStart(str), j, <<>>))
  BY <1>2 DEF ProveRange
<1>5. PICK p, T : p = [com |-> <<e>>, z |-> j.wit] /\ T = Transcript(ProveStart(str), j, <<>>)
  OBVIOUS
<1>6. p.com = <<e>> /\ p.z = j.wit
  BY <1>5
<1>7. /\ T \in DOMAIN oracle' /\ oracle'[T] = e
      /\ \A t \in DOMAIN oracle : t \in DOMAIN oracle' /\ oracle'[t] = oracle[t]
      /\ \A t \in DOMAIN oracle' : oracle'[t] \in Challenges
  BY <1>1, <1>4, <1>5, HashIs DEF Honest
<1>8. Shown(j, p, T, oracle')
  BY <1>3, <1>6, <1>7 DEF Shown, Sigma
<1>9. T = Transcript(ProveStart(str), j, p.com)
  BY <1>3, <1>5 DEF Transcript
<1>10. T = After(str, j, p.com)
  BY <1>3, <1>9 DEF After
<1>11. Proved(p, T)
  BY <1>4, <1>5
<1> QED BY <1>2, <1>3, <1>7, <1>8, <1>9, <1>10, <1>11, ProvedStep

LEMMA ProveMemberStep == ASSUME HonestInv, role = "honest", ProveMember PROVE HonestInv'
<1>1. Honest
  BY DEF HonestInv, ProveMember
<1>2. PICK j : j = jobs[at]
  OBVIOUS
<1>3. PICK p : p = [com |-> <<>>, z |-> j.wit]
  OBVIOUS
<1>4. /\ j.kind = "member" /\ j.wit[1] < Q /\ phase = "prove"
      /\ Proved(p, str) /\ oracle' = oracle
  BY <1>2, <1>3 DEF ProveMember
<1>5. p.z = j.wit
  BY <1>3
<1>6. PICK T : T = Transcript(ProveStart(str), j, p.com)
  OBVIOUS
<1>7. Shown(j, p, T, oracle')
  BY <1>4, <1>5 DEF Shown, Sigma
<1>8. str = After(str, j, p.com)
  BY <1>4 DEF After
<1>9. /\ \A t \in DOMAIN oracle : t \in DOMAIN oracle' /\ oracle'[t] = oracle[t]
      /\ \A t \in DOMAIN oracle' : oracle'[t] \in Challenges
  BY <1>1, <1>4 DEF Honest
<1> QED BY <1>2, <1>4, <1>6, <1>7, <1>8, <1>9, ProvedStep

-----------------------------------------------------------------------------
\* The verifier hashes what the prover hashed.
LEMMA SameTranscript ==
    ASSUME Honest, phase = "verify", NEW st, Strings(st)
    PROVE  /\ Told(Order[at], st)
           /\ VerifyStart(str) = ProveStart(st[Order[at]])
           /\ Chained => Order[at] = at /\ st[at + 1] = After(str, job, given.com)
<1>1. /\ Order[at] \in DOMAIN jobs /\ at \in DOMAIN jobs /\ JobsOk(jobs)
      /\ tx.type \in TxType \cup {"gadget1", "gadget2"}
  BY AtWork
<1>2. Told(Order[at], st)
  BY <1>1 DEF Strings
<1>3. CASE Chained
  <2>1. Order[at] = at
    BY <1>1, <1>3, OrderIs
  <2>2. str = st[at]
    BY <1>3 DEF Strings
  <2>3. st[at + 1] = After(str, job, given.com)
    BY <1>2, <2>1, <2>2 DEF Told, job, given
  <2> QED BY <1>2, <1>3, <2>1, <2>2, <2>3 DEF VerifyStart, ProveStart
<1>4. CASE ~Chained
  BY <1>2, <1>4 DEF VerifyStart, ProveStart, Chained
<1> QED BY <1>3, <1>4

\* The verifier goes on to the next proof, or is done.
LEMMA VerifiedStep ==
    ASSUME HonestInv, role = "honest", phase = "verify", NEW ok, NEW t, Verified(ok, t),
           ok <=> JobHolds(job),
           \A s \in DOMAIN oracle : s \in DOMAIN oracle' /\ oracle'[s] = oracle[s],
           \A s \in DOMAIN oracle' : oracle'[s] \in Challenges,
           Chained => t = After(str, job, given.com)
    PROVE  HonestInv'
<1>1. Honest /\ Verdicts
  BY DEF HonestInv
<1>2. PICK st : Strings(st)
  BY DEF HonestInv
<1>3. PICK n \in Nat \ {0} : n = Len(jobs) /\ DOMAIN jobs = 1..n
  BY <1>1, AtWork
<1>4. PICK i \in 1..n : i = at
  BY <1>1, <1>3 DEF Honest
<1>5. PICK last : last = (i = n \/ (~ok /\ i = 1 /\ job.kind = "sign"))
  OBVIOUS
<1>6. /\ phase' = IF last THEN "done" ELSE "verify"
      /\ at' = IF last THEN 1 ELSE i + 1
      /\ str' = IF last THEN <<>> ELSE t
      /\ verdict' = IF ~ok \/ verdict = "reject" THEN "reject"
                    ELSE IF last THEN "accept" ELSE "none"
      /\ role' = role /\ tx' = tx /\ jobs' = jobs /\ proof' = proof
  BY <1>3, <1>4, <1>5 DEF Verified
<1>7. Order' = Order /\ (Chained' <=> Chained)
  BY <1>6 DEF Order, Chained
<1>8. Honest'
  <2>1. at' \in 1..n /\ phase' \in {"verify", "done"}
    <3>1. CASE last
      BY <1>3, <1>6, <3>1
    <3>2. CASE ~last
      <4>1. i # n
        BY <1>5, <3>2
      <4> QED BY <1>3, <1>4, <1>6, <3>2, <4>1
    <3> QED BY <3>1, <3>2
  <2> QED BY <1>1, <1>3, <1>6, <2>1 DEF Honest
<1>9. verdict = IF \A k \in 1..(i - 1) : JobHolds(jobs[Order[k]]) THEN "none" ELSE "reject"
  BY <1>1, <1>4 DEF Verdicts
<1>10. ok <=> JobHolds(jobs[Order[i]])
  BY <1>4 DEF job
<1>11. /\ \A k \in 1..n : Order[k] \in 1..n
       /\ \A k \in 1..n : \E l \in 1..n : Order[l] = k
  BY <1>1, <1>3, AtWork, OrderIs
<1>12. Verdicts'
  <2>1. CASE ~last
    <3>1. i # n /\ phase' = "verify" /\ at' = i + 1
      BY <1>5, <1>6, <2>1
    <3>2. verdict' = IF ~ok \/ verdict = "reject" THEN "reject" ELSE "none"
      BY <1>6, <2>1
    <3>3. (\A k \in 1..i : JobHolds(jobs[Order[k]]))
            <=> (\A k \in 1..(i - 1) : JobHolds(jobs[Order[k]])) /\ JobHolds(jobs[Order[i]])
      <4>1. \A k \in 1..i : k \in 1..(i - 1) \/ k = i
        OBVIOUS
      <4>2. i \in 1..i /\ \A k \in 1..(i - 1) : k \in 1..i
        OBVIOUS
      <4> QED BY <4>1, <4>2
    <3>4. verdict' = IF \A k \in 1..i : JobHolds(jobs[Order[k]]) THEN "none" ELSE "reject"
      BY <1>9, <1>10, <3>2, <3>3
    <3>5. (at' - 1) = i
      BY <3>1
    <3> QED BY <1>6, <1>7, <3>1, <3>4, <3>5 DEF Verdicts
  <2>2. CASE last
    <3>1. phase' = "done"
      BY <1>6, <2>2
    <3>2. verdict' = "accept" <=> ok /\ verdict # "reject"
      BY <1>6, <2>2
    <3>3. ok /\ verdict # "reject" <=> AllHold(jobs)
      <4>1. CASE ok /\ verdict # "reject"
        <5>1. i = n /\ \A k \in 1..(i - 1) : JobHolds(jobs[Order[k]])
          BY <1>5, <1>9, <2>2, <4>1
        <5>2. \A k \in 1..n : JobHolds(jobs[Order[k]])
          <6>1. \A k \in 1..n : k \in 1..(i - 1) \/ k = i
            BY <5>1
          <6> QED BY <1>10, <4>1, <5>1, <6>1
        <5>3. \A k \in 1..n : JobHolds(jobs[k])
          BY <1>11, <5>2
        <5> QED BY <1>3, <4>1, <5>3 DEF AllHold
      <4>2. CASE ~(ok /\ verdict # "reject")
        <5>1. \E k \in 1..n : ~JobHolds(jobs[Order[k]])
          BY <1>4, <1>9, <1>10, <4>2
        <5> QED BY <1>3, <1>11, <4>2, <5>1 DEF AllHold
      <4> QED BY <4>1, <4>2
    <3> QED BY <1>6, <3>1, <3>2, <3>3 DEF Verdicts
  <2> QED BY <2>1, <2>2
<1>13. Strings(st)'
  <2>1. ASSUME NEW k \in 1..n PROVE Told(k, st)'
    <3>1. Told(k, st)
      BY <1>2, <1>3 DEF Strings
    <3> QED BY <1>6, <3>1, ToldStays
  <2>2. phase' = "verify" /\ Chained' => str' = st[at']
    <3>1. SUFFICES ASSUME phase' = "verify", Chained PROVE str' = st[at']
      BY <1>7
    <3>2. str' = t /\ at' = i + 1
      BY <1>6, <3>1
    <3>3. st[i + 1] = After(str, job, given.com)
      BY <1>1, <1>2, <1>4, <3>1, SameTranscript
    <3> QED BY <3>1, <3>2, <3>3
  <2>3. st[1] = <<>> /\ phase' # "prove"
    BY <1>2, <1>6 DEF Strings
  <2> QED BY <1>3, <1>6, <2>1, <2>2, <2>3 DEF Strings
<1> QED BY <1>6, <1>8, <1>12, <1>13 DEF HonestInv

\* The challenge that the verifier hashes is the prover's.
LEMMA SameChallenge ==
    ASSUME Honest, phase = "verify", NEW st, Strings(st), job.kind # "member",
           NEW c, NEW e \in Challenges,
           Hash(Transcript(VerifyStart(str), job, c), e),
           c = given.com \/ job.kind = "range"
    PROVE  LET T == Transcript(ProveStart(st[Order[at]]), job, given.com)
           IN  /\ T \in DOMAIN oracle /\ oracle[T] = e
               /\ T = Transcript(VerifyStart(str), job, c)
               /\ Shown(job, given, T, oracle)
<1>1. PICK T : T = Transcript(ProveStart(st[Order[at]]), job, given.com)
  OBVIOUS
<1>2. VerifyStart(str) = ProveStart(st[Order[at]]) /\ Told(Order[at], st)
  BY SameTranscript
<1>3. T = Transcript(VerifyStart(str), job, c)
  BY <1>1, <1>2 DEF Transcript
<1>4. Shown(job, given, T, oracle)
  BY <1>1, <1>2 DEF Told, job, given
<1>5. job.kind \in Kinds
  BY AtWork DEF JobOk, job
<1>6. T \in DOMAIN oracle
  BY <1>4, <1>5 DEF Shown, Kinds, Sigma
<1>7. e = oracle[T]
  BY <1>3, <1>6, HashIs DEF Honest
<1> QED BY <1>1, <1>3, <1>4, <1>6, <1>7

LEMMA VerifyStep == ASSUME HonestInv, role = "honest", Verify PROVE HonestInv'
<1>1. Honest /\ phase = "verify" /\ job.kind \in Sigma
  <2>1. phase = "verify" /\ job.kind \in Sigma
    BY DEF Verify
  <2> QED BY <2>1 DEF HonestInv
<1>2. PICK st : Strings(st)
  BY <1>1 DEF HonestInv
<1>3. PICK e \in Challenges :
        /\ Hash(Transcript(VerifyStart(str), job, given.com), e)
        /\ Verified(Check(job.bases, job.stmt, given.com, e, given.z),
                    IF job.kind = "sign" THEN str
                    ELSE Transcript(VerifyStart(str), job, given.com))
  BY DEF Verify
<1>4. job.kind # "range" /\ job.kind # "member"
  BY <1>1 DEF Sigma
<1>5. PICK T, c : /\ T = Transcript(ProveStart(st[Order[at]]), job, given.com)
                  /\ c = given.com
  OBVIOUS
<1>6. /\ T \in DOMAIN oracle /\ oracle[T] = e
      /\ T = Transcript(VerifyStart(str), job, given.com)
      /\ Shown(job, given, T, oracle)
  BY <1>1, <1>2, <1>3, <1>4, <1>5, SameChallenge
<1>7. PICK ok : ok = Check(job.bases, job.stmt, given.com, e, given.z)
  OBVIOUS
<1>8. ok <=> JobHolds(job)
  <2>1. JobOk(job)
    BY <1>1, AtWork DEF job
  <2>2. PICK j, p : j = job /\ p = given
    OBVIOUS
  <2>3. Check(j.bases, j.stmt, p.com, e, p.z) <=> JobHolds(j)
    BY <1>1, <1>6, <2>1, <2>2, ShownChecks
  <2> QED BY <1>7, <2>2, <2>3
<1>9. PICK t : t = IF job.kind = "sign" THEN str ELSE T
  OBVIOUS
<1>10. Verified(ok, t)
  BY <1>3, <1>6, <1>7, <1>9
<1>11. Chained => t = After(str, job, given.com)
  <2>1. VerifyStart(str) = ProveStart(str)
    BY DEF VerifyStart, ProveStart
  <2> QED BY <1>4, <1>6, <1>9, <2>1 DEF After
<1>12. /\ \A s \in DOMAIN oracle : s \in DOMAIN oracle' /\ oracle'[s] = oracle[s]
       /\ \A s \in DOMAIN oracle' : oracle'[s] \in Challenges
  BY <1>1, <1>3, HashIs DEF Honest
<1> QED BY <1>1, <1>8, <1>10, <1>11, <1>12, VerifiedStep

LEMMA VerifyRangeStep == ASSUME HonestInv, role = "honest", VerifyRange PROVE HonestInv'
<1>1. Honest /\ phase = "verify" /\ job.kind = "range"
  <2>1. phase = "verify" /\ job.kind = "range"
    BY DEF VerifyRange
  <2> QED BY <2>1 DEF HonestInv
<1>2. PICK st : Strings(st)
  BY <1>1 DEF HonestInv
<1>3. PICK e \in Challenges :
        /\ Hash(Transcript(VerifyStart(str), job, <<>>), e)
        /\ Verified(/\ given.com = <<e>> /\ InRange(given.z[2])
                    /\ Phi(job.bases, given.z) = job.stmt,
                    Transcript(VerifyStart(str), job, <<>>))
  BY DEF VerifyRange
<1>4. PICK T, c : /\ T = Transcript(ProveStart(st[Order[at]]), job, given.com)
                  /\ c = <<>>
  OBVIOUS
<1>5. /\ T \in DOMAIN oracle /\ oracle[T] = e
      /\ T = Transcript(VerifyStart(str), job, <<>>)
      /\ Shown(job, given, T, oracle)
  BY <1>1, <1>2, <1>3, <1>4, SameChallenge
<1>6. PICK ok : ok = (/\ given.com = <<e>> /\ InRange(given.z[2])
                      /\ Phi(job.bases, given.z) = job.stmt)
  OBVIOUS
<1>7. ok <=> JobHolds(job)
  <2>1. JobOk(job)
    BY <1>1, AtWork DEF job
  <2>2. PICK j, p : j = job /\ p = given
    OBVIOUS
  <2>3. (/\ p.com = <<e>> /\ InRange(p.z[2]) /\ Phi(j.bases, p.z) = j.stmt) <=> JobHolds(j)
    BY <1>1, <1>5, <2>1, <2>2, ShownChecks
  <2> QED BY <1>6, <2>2, <2>3
<1>8. Verified(ok, T)
  BY <1>3, <1>5, <1>6
<1>9. Chained => T = After(str, job, given.com)
  <2>1. VerifyStart(str) = ProveStart(str)
    BY DEF VerifyStart, ProveStart
  <2>2. T = Transcript(VerifyStart(str), job, given.com)
    BY <1>1, <1>5 DEF Transcript
  <2> QED BY <1>1, <2>1, <2>2 DEF After
<1>10. /\ \A s \in DOMAIN oracle : s \in DOMAIN oracle' /\ oracle'[s] = oracle[s]
       /\ \A s \in DOMAIN oracle' : oracle'[s] \in Challenges
  BY <1>1, <1>3, HashIs DEF Honest
<1> QED BY <1>1, <1>7, <1>8, <1>9, <1>10, VerifiedStep

LEMMA VerifyMemberStep == ASSUME HonestInv, role = "honest", VerifyMember PROVE HonestInv'
<1>1. Honest /\ phase = "verify" /\ job.kind = "member" /\ oracle' = oracle
  <2>1. phase = "verify" /\ job.kind = "member" /\ oracle' = oracle
    BY DEF VerifyMember
  <2> QED BY <2>1 DEF HonestInv
<1>2. PICK st : Strings(st)
  BY <1>1 DEF HonestInv
<1>3. PICK ok : ok = (Phi(job.bases, given.z) = job.stmt)
  OBVIOUS
<1>4. Verified(ok, str)
  BY <1>3 DEF VerifyMember
<1>5. ok <=> JobHolds(job)
  <2>1. Told(Order[at], st)
    BY <1>1, <1>2, SameTranscript
  <2>2. given.z = job.wit
    BY <1>1, <2>1 DEF Told, Shown, job, given
  <2> QED BY <1>1, <1>3, <2>2 DEF JobHolds
<1>6. Chained => str = After(str, job, given.com)
  BY <1>1 DEF After
<1>7. /\ \A s \in DOMAIN oracle : s \in DOMAIN oracle' /\ oracle'[s] = oracle[s]
      /\ \A s \in DOMAIN oracle' : oracle'[s] \in Challenges
  BY <1>1 DEF Honest
<1> QED BY <1>1, <1>4, <1>5, <1>6, <1>7, VerifiedStep

LEMMA HonestStep == HonestInv /\ [Next]_vars => HonestInv'
<1>1. SUFFICES ASSUME HonestInv, [Next]_vars PROVE HonestInv'
  OBVIOUS
<1>2. CASE UNCHANGED vars
  <2>1. Honest /\ role = "honest" => Honest'
    BY <1>2 DEF vars, Honest
  <2>2. Verdicts => Verdicts'
    BY <1>2 DEF vars, Verdicts, Order
  <2>3. ASSUME NEW st, Strings(st) PROVE Strings(st)'
    BY <1>2, <2>3 DEF vars, Strings, Told, After, Transcript, ProveStart, Chained
  <2> QED BY <1>1, <1>2, <2>1, <2>2, <2>3 DEF HonestInv, vars
<1>3. CASE Next /\ role = "honest" /\ phase # "down"
  <2>1. CASE Prove
    BY <1>1, <1>3, <2>1, ProveStep
  <2>2. CASE ProveRange
    BY <1>1, <1>3, <2>2, ProveRangeStep
  <2>3. CASE ProveMember
    BY <1>1, <1>3, <2>3, ProveMemberStep
  <2>4. CASE Verify
    BY <1>1, <1>3, <2>4, VerifyStep
  <2>5. CASE VerifyRange
    BY <1>1, <1>3, <2>5, VerifyRangeStep
  <2>6. CASE VerifyMember
    BY <1>1, <1>3, <2>6, VerifyMemberStep
  <2>7. CASE TooLarge
    BY <2>7 DEF TooLarge, HonestInv
  <2>8. ~Answer
    BY <1>1, <1>3 DEF Answer, HonestInv, Honest
  <2> QED BY <1>3, <2>1, <2>2, <2>3, <2>4, <2>5, <2>6, <2>7, <2>8 DEF Next
<1>4. CASE Next /\ ~(role = "honest" /\ phase # "down")
  <2>1. phase \in {"any", "down"}
    BY <1>1, <1>4 DEF HonestInv
  <2>2. Answer
    BY <1>4, <2>1 DEF Next, Prove, ProveRange, ProveMember, TooLarge,
                      Verify, VerifyRange, VerifyMember
  <2>3. phase = "any" /\ phase' = phase /\ role' = role
    BY <2>2 DEF Answer
  <2> QED BY <1>4, <2>3 DEF HonestInv
<1> QED BY <1>1, <1>2, <1>3, <1>4

\* The prover's strings and challenges and the verifier's results so far are
\* as Strings and Verdicts say.
THEOREM SessionsFit == Spec => []HonestInv
BY HonestStart, HonestStep, PTL DEF Spec

\* VerifyMint, VerifyRedeem, VerifySendCheque, VerifyRefresh, VerifyDeposit and
\* the two gadgets' verifiers accept what this program made of any account,
\* cheque and amount exactly when its relation holds, whatever its randomness
\* and the challenges of the hash; of a refresh also the difference of its
\* random numbers must have no leading zero byte.
THEOREM VerifiersAcceptExactly == Spec => []AcceptsExactly
<1>1. HonestInv => AcceptsExactly
  <2>1. SUFFICES ASSUME HonestInv, phase = "done"
                 PROVE  verdict = "accept" <=> Relation(tx) /\ Converts(tx)
    BY DEF AcceptsExactly
  <2>2. Honest /\ Verdicts
    BY <2>1 DEF HonestInv
  <2>3. verdict = "accept" <=> AllHold(jobs)
    BY <2>1, <2>2 DEF Verdicts
  <2>4. PICK st : Strings(st)
    BY <2>1 DEF HonestInv
  <2>5. Converted(jobs)
    BY <2>1, <2>4 DEF Converted, Strings, Told, Shown
  <2> QED BY <2>2, <2>3, <2>5, AtWork
<1> QED BY <1>1, SessionsFit, PTL

=============================================================================
