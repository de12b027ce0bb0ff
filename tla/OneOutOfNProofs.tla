---------------------------- MODULE OneOutOfNProofs ----------------------------
(***************************************************************************)
(* The one-out-of-N proof, for every group order, every base and number of *)
(* digits, every size and place and all randomness: the shortcuts of the   *)
(* prover and of the verifier for the padded places are the sums they      *)
(* stand for, and the verdict is right.                                    *)
(*                                                                         *)
(* The places larger than N - 1 fall into blocks: those that share the     *)
(* digits of N - 1 above j and have a larger one at j.  In a block the     *)
(* lower digits are free, so that the polynomials of the places sum up to  *)
(* the factors above, times the factors of the larger digits, times X^j,   *)
(* for the factors of a row, summed up, are X.                             *)
(***************************************************************************)
EXTENDS OneOutOfN, NumberTheorems

-----------------------------------------------------------------------------
(* The polynomial of a place: B is the base, D the number of digits, and s  *)
(* and c give the factor s X + c of every digit at every position.         *)

LEMMA Order == Q \in Nat \ {0} /\ Q > 1
<1>1. Q \in Nat /\ Q > 1
  BY ProtocolAssumption, Zenon
<1> QED BY <1>1

Row(f, B, j) == [d \in 1..B |-> f[<<j, d - 1>>]]
\* What the cells of the prover are: bits with one 1 in each row, and numbers
\* that add up to 0 in each row.
Balanced(B, D, s, c) ==
    /\ B \in Nat \ {0} /\ D \in Nat
    /\ s \in [(0..(D - 1)) \X (0..(B - 1)) -> Int]
    /\ c \in [(0..(D - 1)) \X (0..(B - 1)) -> Int]
    /\ \A j \in 0..(D - 1) : /\ Same(SumTo(B, Row(s, B, j)), 1, Q)
                             /\ Same(SumTo(B, Row(c, B, j)), 0, Q)

Picked(f, B, D, i) == [j \in 0..(D - 1) |-> f[<<j, Digit(i, j, B)>>]]
\* The product of the factors of the digits of i, from each digit on.
Product(B, D, s, c, i) == Down(D, Picked(s, B, D, i), Picked(c, B, D, i))

LEMMA PickedIs ==
    ASSUME NEW B, NEW D, NEW s, NEW c, Balanced(B, D, s, c), NEW i \in Nat
    PROVE  /\ Picked(s, B, D, i) \in Coefficients(D)
           /\ Picked(c, B, D, i) \in Coefficients(D)
           /\ \A j \in 0..(D - 1) :
                /\ Digit(i, j, B) \in 0..(B - 1)
                /\ Picked(s, B, D, i)[j] = s[<<j, Digit(i, j, B)>>]
                /\ Picked(c, B, D, i)[j] = c[<<j, Digit(i, j, B)>>]
                /\ s[<<j, Digit(i, j, B)>>] \in Int /\ c[<<j, Digit(i, j, B)>>] \in Int
<1>1. B \in Nat \ {0} /\ D \in Nat
  BY DEF Balanced
<1>2. \A j \in 0..(D - 1) : Digit(i, j, B) \in 0..(B - 1)
  <2>1. \A j \in 0..(D - 1) : j \in Nat
    BY <1>1
  <2> QED BY <1>1, <2>1, PrefixIs
<1>3. \A j \in 0..(D - 1) : s[<<j, Digit(i, j, B)>>] \in Int /\ c[<<j, Digit(i, j, B)>>] \in Int
  BY <1>2 DEF Balanced
<1> QED BY <1>2, <1>3 DEF Picked, Coefficients

LEMMA ProductIs ==
    ASSUME NEW B, NEW D, NEW s, NEW c, Balanced(B, D, s, c), NEW i \in Nat
    PROVE  /\ \A j \in 0..D : Product(B, D, s, c, i)[j] \in Polynomial
           /\ Product(B, D, s, c, i)[D] = One
           /\ \A j \in 0..(D - 1) :
                Product(B, D, s, c, i)[j]
                  = Factor(s[<<j, Digit(i, j, B)>>], c[<<j, Digit(i, j, B)>>],
                           Product(B, D, s, c, i)[j + 1])
<1>1. D \in Nat
  BY DEF Balanced
<1>2. IsDown(D, Picked(s, B, D, i), Picked(c, B, D, i), Product(B, D, s, c, i))
  BY <1>1, PickedIs, DownIs DEF Product
<1> QED BY <1>2, PickedIs DEF IsDown

LEMMA ProductSame ==
    ASSUME NEW B, NEW D, NEW s, NEW c, Balanced(B, D, s, c),
           NEW i \in Nat, NEW k \in Nat, NEW t \in 0..D,
           Prefix(i, t, B) = Prefix(k, t, B)
    PROVE  Product(B, D, s, c, i)[t] = Product(B, D, s, c, k)[t]
<1>1. D \in Nat /\ B \in Nat \ {0} /\ t \in Nat
  BY DEF Balanced
<1>2. ASSUME NEW j \in t..(D - 1)
      PROVE  Digit(i, j, B) = Digit(k, j, B)
  <2>1. j \in t..D
    BY <1>1
  <2> QED BY <1>1, <2>1, SameDigits
<1>3. \A j \in t..(D - 1) : /\ Picked(s, B, D, i)[j] = Picked(s, B, D, k)[j]
                            /\ Picked(c, B, D, i)[j] = Picked(c, B, D, k)[j]
  <2>1. ASSUME NEW j \in t..(D - 1)
        PROVE  /\ Picked(s, B, D, i)[j] = Picked(s, B, D, k)[j]
               /\ Picked(c, B, D, i)[j] = Picked(c, B, D, k)[j]
    <3>1. j \in 0..(D - 1)
      BY <1>1
    <3> QED BY <1>2, <3>1 DEF Picked
  <2> QED BY <2>1
<1>4. /\ Picked(s, B, D, i) \in Coefficients(D) /\ Picked(c, B, D, i) \in Coefficients(D)
      /\ Picked(s, B, D, k) \in Coefficients(D) /\ Picked(c, B, D, k) \in Coefficients(D)
  BY PickedIs
<1> QED BY <1>1, <1>3, <1>4, DownSame DEF Product

\* The coefficients at k of the places one after the other, and their sums.
Column(B, D, s, c, k) == [i \in Nat |-> Product(B, D, s, c, i - 1)[0][k]]
Before(B, D, s, c, k, i) == SumTo(i, Column(B, D, s, c, k))

LEMMA BeforeIs ==
    ASSUME NEW B, NEW D, NEW s, NEW c, Balanced(B, D, s, c), NEW k \in Int, NEW i \in Nat
    PROVE  /\ Before(B, D, s, c, k, i) \in Int
           /\ Before(B, D, s, c, k, i + 1)
                = Before(B, D, s, c, k, i) + Product(B, D, s, c, i)[0][k]
           /\ Product(B, D, s, c, i)[0][k] \in Int
<1>1. ASSUME NEW h \in Nat
      PROVE  Product(B, D, s, c, h)[0][k] \in Int
  <2>1. D \in Nat /\ 0 \in 0..D
    BY DEF Balanced
  <2> QED BY <2>1, ProductIs DEF Polynomial
<1>2. \A h \in 1..i : Column(B, D, s, c, k)[h] \in Int
  <2>1. ASSUME NEW h \in 1..i PROVE Column(B, D, s, c, k)[h] \in Int
    <3>1. PICK d \in Nat : d = h - 1
      OBVIOUS
    <3>2. Column(B, D, s, c, k)[h] = Product(B, D, s, c, d)[0][k]
      BY <3>1 DEF Column
    <3> QED BY <1>1, <3>2
  <2> QED BY <2>1
<1>3. Column(B, D, s, c, k)[i + 1] = Product(B, D, s, c, i)[0][k]
  <2>1. i + 1 \in Nat /\ (i + 1) - 1 = i
    OBVIOUS
  <2> QED BY <2>1 DEF Column
<1> QED BY <1>1, <1>2, <1>3, SumInt, SumStep DEF Before

LEMMA RowInt ==
    ASSUME NEW B, NEW D, NEW s, NEW c, Balanced(B, D, s, c), NEW j \in 0..(D - 1)
    PROVE  \A d \in 1..B : /\ Row(s, B, j)[d] = s[<<j, d - 1>>] /\ Row(s, B, j)[d] \in Int
                           /\ Row(c, B, j)[d] = c[<<j, d - 1>>] /\ Row(c, B, j)[d] \in Int
                           /\ d - 1 \in 0..(B - 1)
<1>1. B \in Nat
  BY DEF Balanced
<1>2. \A d \in 1..B : d - 1 \in 0..(B - 1)
  BY <1>1
<1>3. \A d \in 1..B : s[<<j, d - 1>>] \in Int /\ c[<<j, d - 1>>] \in Int
  BY <1>2 DEF Balanced
<1> QED BY <1>2, <1>3 DEF Row

\* The factor of one digit, within the product.
LEMMA StartFactor ==
    ASSUME NEW B, NEW D, NEW s, NEW c, Balanced(B, D, s, c), NEW t \in 0..(D - 1),
           NEW u \in Nat, NEW e \in 0..(B - 1), NEW w \in Nat, Starts(w, u, e, t, B),
           NEW v \in Nat, Prefix(v, t + 1, B) = u
    PROVE  /\ Product(B, D, s, c, v)[t + 1] \in Polynomial
           /\ Product(B, D, s, c, w)[t]
                = Factor(s[<<t, e>>], c[<<t, e>>], Product(B, D, s, c, v)[t + 1])
<1>1. B \in Nat \ {0} /\ D \in Nat /\ t \in Nat /\ t + 1 \in 0..D
  BY DEF Balanced
<1>2. Digit(w, t, B) = e /\ Prefix(w, t + 1, B) = u
  BY <1>1, StartDigits
<1>3. Product(B, D, s, c, w)[t + 1] = Product(B, D, s, c, v)[t + 1]
  BY <1>1, <1>2, ProductSame
<1>4. Product(B, D, s, c, w)[t]
        = Factor(s[<<t, e>>], c[<<t, e>>], Product(B, D, s, c, w)[t + 1])
  BY <1>2, ProductIs
<1> QED BY <1>1, <1>3, <1>4, ProductIs

\* All lower digits together add up to a power of X.
BlockIs(B, D, s, c, k, t, u) ==
    Same(Before(B, D, s, c, k, (u + 1) * Power(B, t))
           - Before(B, D, s, c, k, u * Power(B, t)),
         Product(B, D, s, c, u * Power(B, t))[t][k - t], Q)

LEMMA BlockFirst ==
    ASSUME NEW B, NEW D, NEW s, NEW c, Balanced(B, D, s, c), NEW k \in Int, NEW u \in Nat
    PROVE  BlockIs(B, D, s, c, k, 0, u)
<1>0. Q \in Nat \ {0}
  BY Order
<1>1. Power(B, 0) = 1
  BY PowerStep
<1>2. (u + 1) * 1 = u + 1 /\ u * 1 = u /\ k - 0 = k
  OBVIOUS
<1>3. PICK b \in Int, d \in Int :
        b = Before(B, D, s, c, k, u) /\ d = Product(B, D, s, c, u)[0][k]
  BY BeforeIs
<1>4. Before(B, D, s, c, k, u + 1) = b + d
  BY <1>3, BeforeIs
<1>5. (b + d) - b = d + Q * 0
  BY <1>0
<1>6. Same((b + d) - b, d, Q)
  BY <1>5 DEF Same
<1> QED BY <1>1, <1>2, <1>3, <1>4, <1>6 DEF BlockIs

\* One digit's share of a block.
DigitBlock(B, D, s, c, k, t, u, e, v) ==
    Same(Before(B, D, s, c, k, (u * B + (e + 1)) * Power(B, t))
           - Before(B, D, s, c, k, (u * B + e) * Power(B, t)),
         c[<<t, e>>] * Product(B, D, s, c, v)[t + 1][k - t]
           + s[<<t, e>>] * Product(B, D, s, c, v)[t + 1][k - (t + 1)], Q)

LEMMA BlockDigit ==
    ASSUME NEW B, NEW D, NEW s, NEW c, Balanced(B, D, s, c), NEW k \in Int,
           NEW t \in 0..(D - 1), \A b \in Nat : BlockIs(B, D, s, c, k, t, b),
           NEW u \in Nat, NEW e \in 0..(B - 1), NEW v \in Nat,
           Prefix(v, t + 1, B) = u
    PROVE  DigitBlock(B, D, s, c, k, t, u, e, v)
<1>0. B \in Nat \ {0} /\ D \in Nat /\ t \in Nat
  BY DEF Balanced
<1>1. PICK p \in Nat \ {0} : p = Power(B, t)
  BY <1>0, PowerNat
<1>2. PICK b \in Nat : b = u * B + e
  <2>1. u * B \in Nat
    BY <1>0
  <2> QED BY <2>1
<1>3. PICK w \in Nat : w = b * p
  BY SMT
<1>4. Starts(w, u, e, t, B)
  BY <1>1, <1>2, <1>3 DEF Starts
<1> DEFINE Z == Product(B, D, s, c, v)[t + 1]
<1>5. /\ Z \in Polynomial
      /\ Product(B, D, s, c, w)[t] = Factor(s[<<t, e>>], c[<<t, e>>], Z)
  BY <1>4, StartFactor
<1>6. Product(B, D, s, c, w)[t][k - t] = c[<<t, e>>] * Z[k - t] + s[<<t, e>>] * Z[k - (t + 1)]
  <2>1. k - t \in Int /\ (k - t) - 1 = k - (t + 1)
    BY <1>0
  <2>2. Factor(s[<<t, e>>], c[<<t, e>>], Z)[k - t]
          = c[<<t, e>>] * Z[k - t] + s[<<t, e>>] * Z[(k - t) - 1]
    BY <2>1 DEF Factor
  <2> HIDE DEF Z
  <2> QED BY <1>5, <2>1, <2>2
<1>7. BlockIs(B, D, s, c, k, t, b)
  OBVIOUS
<1>8. (b + 1) * Power(B, t) = (u * B + (e + 1)) * Power(B, t) /\ b * Power(B, t) = w
      /\ w = (u * B + e) * Power(B, t)
  <2>1. b + 1 = u * B + (e + 1)
    <3>1. PICK i \in Int : i = u * B
      BY <1>0
    <3> QED BY <1>0, <1>2, <3>1
  <2> QED BY <1>1, <1>2, <1>3, <2>1
<1> QED BY <1>6, <1>7, <1>8 DEF BlockIs, DigitBlock

LEMMA BlockNext ==
    ASSUME NEW B, NEW D, NEW s, NEW c, Balanced(B, D, s, c), NEW k \in Int,
           NEW t \in 0..(D - 1), \A u \in Nat : BlockIs(B, D, s, c, k, t, u),
           NEW u \in Nat
    PROVE  BlockIs(B, D, s, c, k, t + 1, u)
<1>0. B \in Nat \ {0} /\ D \in Nat /\ t \in Nat /\ t + 1 \in Nat /\ Q \in Nat \ {0}
  BY Order DEF Balanced
<1>1. PICK p \in Nat \ {0} : p = Power(B, t)
  BY <1>0, PowerNat
<1>2. PICK M \in Nat : M = u * (B * p)
  <2>1. B * p \in Nat
    BY <1>0
  <2>2. \A g \in Nat : u * g \in Nat
    OBVIOUS
  <2> QED BY <2>1, <2>2
<1>3. Power(B, t + 1) = B * p /\ u * Power(B, t + 1) = M
  BY <1>0, <1>1, <1>2, PowerStep
<1>4. Prefix(M, t + 1, B) = u
  BY <1>0, <1>3, StartPrefix
<1> DEFINE Z == Product(B, D, s, c, M)[t + 1]
           S(i) == Before(B, D, s, c, k, i)
           g == [d \in 0..B |-> S((u * B + d) * p)]
           f == [d \in 1..B |-> S((u * B + d) * p) - S((u * B + (d - 1)) * p)]
<1>5. Z \in Polynomial
  <2>1. t + 1 \in 0..D
    BY <1>0
  <2> QED BY <2>1, ProductIs
<1>6. PICK z0 \in Int, z1 \in Int : z0 = Z[k - t] /\ z1 = Z[k - (t + 1)]
  <2>1. k - t \in Int /\ k - (t + 1) \in Int
    BY <1>0
  <2> QED BY <1>5, <2>1 DEF Polynomial
<1> DEFINE h == [d \in 1..B |-> z0 * Row(c, B, t)[d] + z1 * Row(s, B, t)[d]]
<1>7. \A d \in 0..B : (u * B + d) * p \in Nat /\ S((u * B + d) * p) \in Int
  <2>1. ASSUME NEW d \in 0..B PROVE (u * B + d) * p \in Nat
    <3>1. u * B \in Nat
      BY <1>0
    <3>2. PICK b \in Nat : b = u * B + d
      BY <3>1, <1>0
    <3>3. b * p \in Nat
      OBVIOUS
    <3> QED BY <3>2, <3>3
  <2> QED BY <2>1, BeforeIs
<1>8. Steps(B, f, g)
  <2>1. \A d \in 0..B : g[d] \in Int
    BY <1>7
  <2>2. \A d \in 1..B : d \in 0..B /\ d - 1 \in 0..B /\ 0 \in 0..B
    BY <1>0
  <2>3. 0 \in 0..B
    BY <1>0
  <2>4. \A d \in 1..B : f[d] = g[d] - g[d - 1]
    BY <2>2
  <2> HIDE DEF g, f
  <2> QED BY <2>1, <2>2, <2>3, <2>4 DEF Steps
<1>9. SumTo(B, f) = S((u + 1) * (B * p)) - S(M)
  <2>1. SumTo(B, f) = g[B] - g[0]
    BY <1>0, <1>8, Telescope
  <2>2. g[B] = S((u * B + B) * p) /\ g[0] = S((u * B + 0) * p)
    BY <1>0
  <2>3. (u * B + B) * p = (u + 1) * (B * p) /\ (u * B + 0) * p = u * (B * p)
    BY <1>0
  <2> QED BY <1>2, <2>1, <2>2, <2>3
<1>10. ASSUME NEW d \in 1..B
       PROVE  f[d] \in Int /\ h[d] \in Int /\ Same(f[d], h[d], Q)
  <2>1. PICK e \in 0..(B - 1) : e = d - 1
    BY <1>0
  <2>2. e + 1 = d /\ e \in 0..B /\ d \in 0..B
    BY <1>0, <2>1
  <2>3. PICK cc \in Int, ss \in Int : cc = c[<<t, e>>] /\ ss = s[<<t, e>>]
    BY DEF Balanced
  <2>4. DigitBlock(B, D, s, c, k, t, u, e, M)
    BY <1>4, BlockDigit
  <2>5. Same(S((u * B + d) * p) - S((u * B + e) * p), cc * z0 + ss * z1, Q)
    BY <1>1, <1>6, <2>2, <2>3, <2>4 DEF DigitBlock
  <2>6. f[d] = S((u * B + d) * p) - S((u * B + e) * p)
    BY <2>1
  <2>7. h[d] = cc * z0 + ss * z1
    <3>1. Row(c, B, t)[d] = cc /\ Row(s, B, t)[d] = ss
      BY <2>1, <2>3, RowInt
    <3>2. cc * z0 = z0 * cc /\ ss * z1 = z1 * ss
      OBVIOUS
    <3> QED BY <3>1, <3>2
  <2>8. S((u * B + d) * p) \in Int /\ S((u * B + e) * p) \in Int
    BY <1>7, <2>2
  <2>9. cc * z0 + ss * z1 \in Int
    OBVIOUS
  <2> HIDE DEF f, h, S
  <2> QED BY <2>5, <2>6, <2>7, <2>8, <2>9
<1>11. Same(SumTo(B, f), SumTo(B, h), Q) /\ SumTo(B, f) \in Int
  <2> HIDE DEF f, h
  <2> QED BY <1>0, <1>10, SumSame, SumInt
<1>12. SumTo(B, h) = z0 * SumTo(B, Row(c, B, t)) + z1 * SumTo(B, Row(s, B, t))
  <2>1. Combines(B, h, z0, Row(c, B, t), z1, Row(s, B, t))
    BY RowInt DEF Combines
  <2> HIDE DEF h
  <2> QED BY <1>0, <2>1, SumCombine
<1>13. Same(SumTo(B, h), z1, Q) /\ SumTo(B, h) \in Int
  <2>1. PICK b \in Int, d \in Int : b = SumTo(B, Row(c, B, t)) /\ d = SumTo(B, Row(s, B, t))
    BY <1>0, RowInt, SumInt
  <2>2. PICK i \in Int, j \in Int : b = 0 + Q * i /\ d = 1 + Q * j
    <3>1. Same(b, 0, Q) /\ Same(d, 1, Q)
      BY <2>1 DEF Balanced
    <3> QED BY <3>1 DEF Same
  <2>3. z0 * (0 + Q * i) + z1 * (1 + Q * j) = z1 + Q * (z0 * i + z1 * j)
    BY <1>0
  <2>4. z0 * i + z1 * j \in Int
    OBVIOUS
  <2>5. z0 * b + z1 * d \in Int
    OBVIOUS
  <2> HIDE DEF h
  <2> QED BY <1>12, <2>1, <2>2, <2>3, <2>4, <2>5 DEF Same
<1>14. Same(SumTo(B, f), z1, Q)
  <2> HIDE DEF f, h
  <2> QED BY <1>0, <1>11, <1>13, SameTrans
<1> HIDE DEF f, h, g
<1>15. Same(S((u + 1) * Power(B, t + 1)) - S(u * Power(B, t + 1)), Z[k - (t + 1)], Q)
  BY <1>3, <1>6, <1>9, <1>14
<1> QED BY <1>3, <1>15 DEF BlockIs

LEMMA Block ==
    ASSUME NEW B, NEW D, NEW s, NEW c, Balanced(B, D, s, c), NEW k \in Int, NEW t \in 0..D
    PROVE  \A u \in Nat : BlockIs(B, D, s, c, k, t, u)
<1> DEFINE T == {i \in 0..D : \A u \in Nat : BlockIs(B, D, s, c, k, i, u)}
<1>0. D \in Nat
  BY DEF Balanced
<1>1. 0 \in T
  BY <1>0, BlockFirst
<1>2. ASSUME NEW i \in 0..(D - 1), i \in T PROVE i + 1 \in T
  BY <1>0, <1>2, BlockNext
<1> HIDE DEF T
<1>3. t \in T
  BY <1>0, <1>1, <1>2, UpTo
<1> QED BY <1>3 DEF T

\* The factor of all digits above e in row j.
Beyond(f, B, j, e) == [i \in 1..(B - 1) |-> IF i > e THEN f[<<j, i>>] ELSE 0]
LargerProduct(B, D, s, c, i, j) ==
    Factor(SumTo(B - 1, Beyond(s, B, j, Digit(i, j, B))),
           SumTo(B - 1, Beyond(c, B, j, Digit(i, j, B))),
           Product(B, D, s, c, i)[j + 1])

LEMMA BeyondInt ==
    ASSUME NEW B, NEW D, NEW s, NEW c, Balanced(B, D, s, c), NEW j \in 0..(D - 1),
           NEW e \in Int
    PROVE  /\ \A i \in 1..(B - 1) : /\ Beyond(s, B, j, e)[i] \in Int
                                    /\ Beyond(c, B, j, e)[i] \in Int
           /\ SumTo(B - 1, Beyond(s, B, j, e)) \in Int
           /\ SumTo(B - 1, Beyond(c, B, j, e)) \in Int
<1>1. B - 1 \in Nat
  BY DEF Balanced
<1>2. \A i \in 1..(B - 1) : i \in 0..(B - 1)
  BY <1>1
<1>3. \A i \in 1..(B - 1) : s[<<j, i>>] \in Int /\ c[<<j, i>>] \in Int
  BY <1>2 DEF Balanced
<1>4. \A i \in 1..(B - 1) : /\ Beyond(s, B, j, e)[i] \in Int
                            /\ Beyond(c, B, j, e)[i] \in Int
  BY <1>3 DEF Beyond
<1> QED BY <1>1, <1>4, SumInt

LEMMA LargerIs ==
    ASSUME NEW B, NEW D, NEW s, NEW c, Balanced(B, D, s, c), NEW i \in Nat,
           NEW j \in 0..(D - 1)
    PROVE  /\ LargerProduct(B, D, s, c, i, j) \in Polynomial
           /\ Product(B, D, s, c, i)[j + 1] \in Polynomial
<1>1. B \in Nat \ {0} /\ D \in Nat /\ j \in Nat /\ j + 1 \in 0..D
  BY DEF Balanced
<1>2. PICK e \in Int : e = Digit(i, j, B)
  BY <1>1, PrefixIs
<1>3. Product(B, D, s, c, i)[j + 1] \in Polynomial
  BY <1>1, ProductIs
<1> QED BY <1>2, <1>3, BeyondInt, FactorIs DEF LargerProduct

\* Where the places end that have the digits of i from t on.
End(i, t, B) == (Prefix(i, t, B) + 1) * Power(B, t)
TailIs(B, D, s, c, k, i, t) ==
    Same(Before(B, D, s, c, k, End(i, t + 1, B)) - Before(B, D, s, c, k, End(i, t, B)),
         LargerProduct(B, D, s, c, i, t)[k - t], Q)

LEMMA EndNat ==
    ASSUME NEW B \in Nat \ {0}, NEW i \in Nat, NEW t \in Nat
    PROVE  End(i, t, B) \in Nat
<1>1. PICK p \in Nat, b \in Nat : p = Power(B, t) /\ b = Prefix(i, t, B) + 1
  <2>1. Power(B, t) \in Nat
    BY PowerNat
  <2>2. Prefix(i, t, B) \in Nat
    BY PrefixIs
  <2> QED BY <2>1, <2>2
<1>2. b * p \in Nat
  OBVIOUS
<1> QED BY <1>1, <1>2 DEF End

LEMMA TailStep ==
    ASSUME NEW B, NEW D, NEW s, NEW c, Balanced(B, D, s, c), NEW k \in Int,
           NEW I \in Nat, NEW t \in 0..(D - 1)
    PROVE  TailIs(B, D, s, c, k, I, t)
<1>0. B \in Nat \ {0} /\ D \in Nat /\ t \in Nat /\ t + 1 \in Nat /\ Q \in Nat \ {0}
      /\ B - 1 \in Nat
  BY Order DEF Balanced
<1>1. PICK p \in Nat \ {0} : p = Power(B, t)
  BY <1>0, PowerNat
<1>2. PICK u \in Nat, e \in 0..(B - 1) : u = Prefix(I, t + 1, B) /\ e = Digit(I, t, B)
  <2>1. Prefix(I, t + 1, B) \in Nat /\ Digit(I, t, B) \in 0..(B - 1)
    BY <1>0, PrefixIs
  <2> QED BY <2>1
<1> DEFINE Z == Product(B, D, s, c, I)[t + 1]
           S(i) == Before(B, D, s, c, k, i)
           A(i) == (u * B + i) * p
           g == [i \in 0..(B - 1) |-> IF i > e THEN S(A(i + 1)) ELSE S(A(e + 1))]
           f == [i \in 1..(B - 1) |-> IF i > e THEN S(A(i + 1)) - S(A(i)) ELSE 0]
<1>3. Power(B, t + 1) = B * p
  BY <1>0, <1>1, PowerStep
<1>4. End(I, t, B) = A(e + 1) /\ End(I, t + 1, B) = A(B)
  <2>1. Prefix(I, t, B) = B * u + e
    BY <1>0, <1>2, PrefixStep
  <2>2. ((B * u + e) + 1) * p = (u * B + (e + 1)) * p /\ (u + 1) * (B * p) = (u * B + B) * p
    BY <1>0
  <2> QED BY <1>1, <1>2, <1>3, <2>1, <2>2 DEF End
<1>5. \A i \in 0..B : A(i) \in Nat /\ S(A(i)) \in Int
  <2>1. ASSUME NEW i \in 0..B PROVE A(i) \in Nat
    <3>1. u * B \in Nat
      BY <1>0
    <3>2. PICK b \in Nat : b = u * B + i
      BY <3>1, <1>0
    <3>3. b * p \in Nat
      OBVIOUS
    <3> QED BY <3>2, <3>3
  <2> QED BY <2>1, BeforeIs
<1>6. PICK z0 \in Int, z1 \in Int : z0 = Z[k - t] /\ z1 = Z[k - (t + 1)]
  <2>1. k - t \in Int /\ k - (t + 1) \in Int
    BY <1>0
  <2> QED BY <2>1, LargerIs DEF Polynomial
<1> DEFINE h == [i \in 1..(B - 1) |-> z0 * Beyond(c, B, t, e)[i] + z1 * Beyond(s, B, t, e)[i]]
<1> HIDE DEF S, A
<1>7. Steps(B - 1, f, g)
  <2>1. \A i \in 0..(B - 1) : g[i] \in Int
    <3>1. \A i \in 0..(B - 1) : i + 1 \in 0..B
      BY <1>0
    <3>2. e + 1 \in 0..B
      BY <1>0
    <3> QED BY <1>5, <3>1, <3>2
  <2>2. 0 \in 0..(B - 1)
    BY <1>0
  <2>3. ASSUME NEW i \in 1..(B - 1) PROVE i \in 0..(B - 1) /\ f[i] = g[i] - g[i - 1]
    <3>1. i \in 0..(B - 1) /\ i - 1 \in 0..(B - 1) /\ i + 1 \in 0..B /\ (i - 1) + 1 = i
          /\ i \in 0..B /\ e + 1 \in 0..B
      BY <1>0
    <3>2. CASE i > e /\ i - 1 > e
      BY <3>1, <3>2
    <3>3. CASE i > e /\ ~(i - 1 > e)
      <4>1. i = e + 1
        BY <3>3, <3>1
      <4>2. g[i] = S(A(i + 1)) /\ g[i - 1] = S(A(e + 1)) /\ f[i] = S(A(i + 1)) - S(A(i))
        BY <3>1, <3>3
      <4> HIDE DEF f, g
      <4> QED BY <4>1, <4>2
    <3>4. CASE ~(i > e)
      <4>1. ~(i - 1 > e)
        BY <3>4, <3>1
      <4>2. g[i] = S(A(e + 1)) /\ g[i - 1] = S(A(e + 1)) /\ f[i] = 0
        BY <3>1, <3>4, <4>1
      <4>3. S(A(e + 1)) \in Int
        BY <1>5, <3>1
      <4> HIDE DEF f, g
      <4> QED BY <3>1, <4>2, <4>3
    <3> QED BY <3>2, <3>3, <3>4
  <2> HIDE DEF f, g
  <2> QED BY <2>1, <2>2, <2>3 DEF Steps
<1>8. SumTo(B - 1, f) = S(A(B)) - S(A(e + 1))
  <2>1. SumTo(B - 1, f) = g[B - 1] - g[0]
    <3> HIDE DEF f, g
    <3> QED BY <1>0, <1>7, Telescope
  <2>2. g[0] = S(A(e + 1))
    BY <1>0
  <2>3. g[B - 1] = S(A(B))
    <3>1. B - 1 \in 0..(B - 1) /\ (B - 1) + 1 = B
      BY <1>0
    <3>2. CASE B - 1 > e
      BY <3>1, <3>2
    <3>3. CASE ~(B - 1 > e)
      <4>1. e + 1 = B
        BY <1>0, <3>3
      <4> QED BY <3>1, <3>3, <4>1
    <3> QED BY <3>2, <3>3
  <2> QED BY <2>1, <2>2, <2>3
<1>9. ASSUME NEW i \in 1..(B - 1)
      PROVE  f[i] \in Int /\ h[i] \in Int /\ Same(f[i], h[i], Q)
  <2>1. i \in 0..(B - 1) /\ i \in 0..B /\ i + 1 \in 0..B
    BY <1>0
  <2>2. PICK cc \in Int, ss \in Int : cc = c[<<t, i>>] /\ ss = s[<<t, i>>]
    BY <2>1 DEF Balanced
  <2>3. CASE i > e
    <3>1. f[i] = S(A(i + 1)) - S(A(i)) /\ f[i] \in Int
      BY <1>5, <2>1, <2>3
    <3>2. h[i] = z0 * cc + z1 * ss
      <4>1. Beyond(c, B, t, e)[i] = cc /\ Beyond(s, B, t, e)[i] = ss
        BY <2>2, <2>3 DEF Beyond
      <4> QED BY <4>1
    <3>3. DigitBlock(B, D, s, c, k, t, u, i, I)
      <4>1. t \in 0..D
        BY <1>0
      <4>2. \A b \in Nat : BlockIs(B, D, s, c, k, t, b)
        BY <4>1, Block
      <4> QED BY <1>2, <2>1, <4>2, BlockDigit
    <3>4. Same(S(A(i + 1)) - S(A(i)), cc * z0 + ss * z1, Q)
      BY <1>1, <1>6, <2>2, <3>3 DEF DigitBlock, S, A
    <3>5. cc * z0 + ss * z1 = z0 * cc + z1 * ss /\ z0 * cc + z1 * ss \in Int
      OBVIOUS
    <3> HIDE DEF f, h
    <3> QED BY <3>1, <3>2, <3>4, <3>5
  <2>4. CASE ~(i > e)
    <3>1. f[i] = 0
      BY <2>4
    <3>2. h[i] = z0 * 0 + z1 * 0
      <4>1. Beyond(c, B, t, e)[i] = 0 /\ Beyond(s, B, t, e)[i] = 0
        BY <2>4 DEF Beyond
      <4> QED BY <4>1
    <3>3. z0 * 0 + z1 * 0 = 0 /\ 0 = 0 + Q * 0
      BY <1>0
    <3>4. Same(0, 0, Q)
      BY <3>3 DEF Same
    <3> HIDE DEF f, h
    <3> QED BY <3>1, <3>2, <3>3, <3>4
  <2> QED BY <2>3, <2>4
<1>10. Same(SumTo(B - 1, f), SumTo(B - 1, h), Q)
  <2> HIDE DEF f, h
  <2> QED BY <1>0, <1>9, SumSame
<1>11. SumTo(B - 1, h) =
        z0 * SumTo(B - 1, Beyond(c, B, t, e)) + z1 * SumTo(B - 1, Beyond(s, B, t, e))
  <2>1. Combines(B - 1, h, z0, Beyond(c, B, t, e), z1, Beyond(s, B, t, e))
    BY BeyondInt DEF Combines
  <2> HIDE DEF h
  <2> QED BY <1>0, <2>1, SumCombine
<1>12. LargerProduct(B, D, s, c, I, t)[k - t] = SumTo(B - 1, h)
  <2>1. PICK b \in Int, d \in Int :
          b = SumTo(B - 1, Beyond(s, B, t, e)) /\ d = SumTo(B - 1, Beyond(c, B, t, e))
    BY BeyondInt
  <2>2. k - t \in Int /\ (k - t) - 1 = k - (t + 1)
    BY <1>0
  <2>3. Factor(b, d, Z)[k - t] = d * Z[k - t] + b * Z[(k - t) - 1]
    BY <2>2 DEF Factor
  <2>4. d * z0 + b * z1 = z0 * d + z1 * b
    OBVIOUS
  <2> HIDE DEF h
  <2> QED BY <1>2, <1>6, <1>11, <2>1, <2>2, <2>3, <2>4 DEF LargerProduct
<1> HIDE DEF f, g, h
<1> QED BY <1>4, <1>8, <1>10, <1>12 DEF TailIs, S

\* All places from I on.
LargerAt(B, D, s, c, i, k) ==
    [j \in 1..D |-> LargerProduct(B, D, s, c, i, j - 1)[k - (j - 1)]]

LEMMA TailSum ==
    ASSUME NEW B, NEW D, NEW s, NEW c, Balanced(B, D, s, c), NEW k \in Int,
           NEW I \in 0..(Power(B, D) - 1)
    PROVE  /\ I \in Nat /\ Power(B, D) \in Nat
           /\ \A j \in 1..D : LargerAt(B, D, s, c, I, k)[j] \in Int
           /\ Same(Before(B, D, s, c, k, Power(B, D)) - Before(B, D, s, c, k, I),
                   Product(B, D, s, c, I)[0][k] + SumTo(D, LargerAt(B, D, s, c, I, k)), Q)
<1>0. B \in Nat \ {0} /\ D \in Nat /\ Q \in Nat \ {0}
  BY Order DEF Balanced
<1>1. Power(B, D) \in Nat \ {0} /\ I \in Nat
  BY <1>0, PowerNat
<1> DEFINE g == [j \in 0..D |-> Before(B, D, s, c, k, End(I, j, B))]
           f == [j \in 1..D |-> g[j] - g[j - 1]]
           h == LargerAt(B, D, s, c, I, k)
<1>2. ASSUME NEW j \in 0..D PROVE g[j] \in Int
  <2>1. j \in Nat
    BY <1>0
  <2>2. End(I, j, B) \in Nat
    BY <1>0, <1>1, <2>1, EndNat
  <2>3. Before(B, D, s, c, k, End(I, j, B)) \in Int
    BY <2>2, BeforeIs
  <2> QED BY <2>3
<1>3. ASSUME NEW j \in 1..D
      PROVE  f[j] \in Int /\ h[j] \in Int /\ Same(f[j], h[j], Q)
  <2>1. PICK t \in 0..(D - 1) : t = j - 1
    BY <1>0
  <2>2. t + 1 = j /\ t \in 0..D /\ j \in 0..D /\ k - t \in Int
    BY <1>0, <2>1
  <2>3. TailIs(B, D, s, c, k, I, t)
    BY <1>1, TailStep
  <2>4. h[j] = LargerProduct(B, D, s, c, I, t)[k - t]
    BY <2>1 DEF LargerAt
  <2>5. h[j] \in Int
    <3>1. LargerProduct(B, D, s, c, I, t) \in Polynomial
      BY <1>1, LargerIs
    <3> HIDE DEF h
    <3> QED BY <2>2, <2>4, <3>1 DEF Polynomial
  <2>6. f[j] = Before(B, D, s, c, k, End(I, t + 1, B)) - Before(B, D, s, c, k, End(I, t, B))
    BY <2>1, <2>2
  <2>7. f[j] \in Int
    <3>1. f[j] = g[j] - g[t]
      BY <2>1
    <3> HIDE DEF f, g
    <3> QED BY <1>2, <2>2, <3>1
  <2> HIDE DEF f, h
  <2> QED BY <2>3, <2>4, <2>5, <2>6, <2>7 DEF TailIs
<1>4. SumTo(D, f) = g[D] - g[0]
  <2>1. 0 \in 0..D /\ \A j \in 1..D : j \in 0..D
    BY <1>0
  <2>2. \A j \in 1..D : f[j] = g[j] - g[j - 1]
    OBVIOUS
  <2> HIDE DEF f, g
  <2>3. Steps(D, f, g)
    BY <1>2, <2>1, <2>2 DEF Steps
  <2> QED BY <1>0, <2>3, Telescope
<1>5. Same(SumTo(D, f), SumTo(D, h), Q) /\ SumTo(D, f) \in Int /\ SumTo(D, h) \in Int
  <2> HIDE DEF f, h
  <2> QED BY <1>0, <1>3, SumSame, SumInt
<1>6. g[D] = Before(B, D, s, c, k, Power(B, D))
  <2>1. PICK z \in Nat : z = 0
    OBVIOUS
  <2>2. I = Power(B, D) * z + I
    BY <1>1, <2>1
  <2>3. Prefix(I, D, B) = z
    BY <1>0, <1>1, <2>2, PrefixUnique
  <2>4. (0 + 1) * Power(B, D) = Power(B, D)
    BY <1>1
  <2>5. End(I, D, B) = Power(B, D)
    BY <2>1, <2>3, <2>4 DEF End
  <2>6. D \in 0..D
    BY <1>0
  <2> QED BY <2>5, <2>6
<1>7. PICK b \in Int, d \in Int, w \in Int :
        b = Before(B, D, s, c, k, I) /\ d = Product(B, D, s, c, I)[0][k]
          /\ w = Before(B, D, s, c, k, Power(B, D))
  BY <1>1, BeforeIs
<1>8. g[0] = b + d
  <2>1. Prefix(I, 0, B) = I /\ Power(B, 0) = 1
    <3>1. Prefix(I, 0, B) = I
      <4>1. 0 \in Nat
        OBVIOUS
      <4> QED BY <1>0, <1>1, <4>1, PrefixStep
    <3> QED BY <3>1, PowerStep
  <2>2. (I + 1) * 1 = I + 1
    BY <1>1
  <2>3. End(I, 0, B) = I + 1
    BY <2>1, <2>2 DEF End
  <2>4. Before(B, D, s, c, k, I + 1) = b + d
    BY <1>1, <1>7, BeforeIs
  <2>5. 0 \in 0..D
    BY <1>0
  <2> QED BY <2>3, <2>4, <2>5
<1>9. PICK v \in Int : v = SumTo(D, h)
  BY <1>5
<1>10. Same(w - (b + d), v, Q)
  <2> HIDE DEF f, g, h
  <2> QED BY <1>4, <1>5, <1>6, <1>7, <1>8, <1>9
<1>11. Same(w - b, d + v, Q)
  <2>1. PICK i \in Int : w - (b + d) = v + Q * i
    BY <1>10 DEF Same
  <2>2. PICK y \in Int : y = Q * i
    BY <1>0
  <2>3. w - b = (d + v) + y
    BY <2>1, <2>2
  <2> QED BY <2>2, <2>3 DEF Same
<1>12. \A j \in 1..D : LargerAt(B, D, s, c, I, k)[j] \in Int
  BY <1>3
<1> HIDE DEF h
<1> QED BY <1>1, <1>7, <1>9, <1>11, <1>12 DEF h

-----------------------------------------------------------------------------
(* The prover's lists of coefficients are these polynomials.               *)

\* List is the L coefficients of poly modulo Q.
Matches(list, L, poly) ==
    /\ list \in [1..L -> Int] /\ poly \in Polynomial
    /\ \A k \in Int : IF k \in 1..L THEN Same(list[k], poly[k], Q) ELSE poly[k] = 0

LEMMA ListLength ==
    ASSUME NEW L \in Nat, NEW list \in [1..L -> Int]
    PROVE  Len(list) = L
<1>1. list \in Seq(Int)
  OBVIOUS
<1> QED BY <1>1

LEMMA RestQ ==
    ASSUME NEW b \in Int
    PROVE  Same(b % Q, b, Q) /\ b % Q \in Int /\ b % Q \in 0..(Q - 1)
<1>1. b % Q \in 0..(Q - 1)
  BY Order, DivMod
<1> QED BY <1>1, Order, SameRest

LEMMA NewFactor ==
    ASSUME NEW e \in Int, NEW b \in Int, NEW L \in Nat, NEW c, NEW d, Matches(c, L, d)
    PROVE  Matches(new_factor(e, b, c), L + 1, Factor(e, b, d))
<1>0. c \in [1..L -> Int] /\ Len(c) = L /\ d \in Polynomial
  BY ListLength DEF Matches
<1> DEFINE f == new_factor(e, b, c)
<1>1. f = [i \in 1..(L + 1) |->
             ((IF i <= L THEN b * c[i] ELSE 0) + (IF i > 1 THEN e * c[i - 1] ELSE 0)) % Q]
  BY <1>0 DEF new_factor
<1> HIDE DEF f
<1>2. ASSUME NEW k \in 1..(L + 1)
      PROVE  f[k] \in Int /\ Same(f[k], Factor(e, b, d)[k], Q)
  <2>1. PICK s \in Int, t \in Int :
          /\ s = IF k <= L THEN c[k] ELSE 0
          /\ t = IF k > 1 THEN c[k - 1] ELSE 0
    <3>1. k <= L => k \in 1..L
      OBVIOUS
    <3>2. k > 1 => k - 1 \in 1..L
      OBVIOUS
    <3> QED BY <1>0, <3>1, <3>2
  <2>2. f[k] = (b * s + e * t) % Q
    <3>1. f[k] = ((IF k <= L THEN b * c[k] ELSE 0) + (IF k > 1 THEN e * c[k - 1] ELSE 0)) % Q
      BY <1>1
    <3>2. b * s = IF k <= L THEN b * c[k] ELSE 0
      BY <2>1
    <3>3. e * t = IF k > 1 THEN e * c[k - 1] ELSE 0
      BY <2>1
    <3> QED BY <3>1, <3>2, <3>3
  <2>3. PICK g \in Int, h \in Int : g = d[k] /\ h = d[k - 1]
    BY <1>0 DEF Polynomial
  <2>4. Same(s, g, Q) /\ Same(t, h, Q)
    <3>1. Same(0, 0, Q)
      <4>1. 0 = 0 + Q * 0
        BY Order
      <4> QED BY <4>1 DEF Same
    <3>2. Same(s, g, Q)
      <4>1. CASE k <= L
        <5>1. k \in 1..L
          BY <4>1
        <5> QED BY <2>1, <2>3, <4>1, <5>1 DEF Matches
      <4>2. CASE ~(k <= L)
        <5>1. ~(k \in 1..L)
          BY <4>2
        <5> QED BY <2>1, <2>3, <3>1, <4>2, <5>1 DEF Matches
      <4> QED BY <4>1, <4>2
    <3>3. Same(t, h, Q)
      <4>0. k - 1 \in Int
        OBVIOUS
      <4>1. CASE k > 1
        <5>1. k - 1 \in 1..L
          BY <4>1
        <5> QED BY <2>1, <2>3, <4>0, <4>1, <5>1 DEF Matches
      <4>2. CASE ~(k > 1)
        <5>1. ~(k - 1 \in 1..L)
          BY <4>2
        <5> QED BY <2>1, <2>3, <3>1, <4>0, <4>2, <5>1 DEF Matches
      <4> QED BY <4>1, <4>2
    <3> QED BY <3>2, <3>3
  <2>5. Same(s * b, g * b, Q) /\ Same(t * e, h * e, Q)
    BY <2>4, Order, SameProduct
  <2>6. PICK sb \in Int, gb \in Int, te \in Int, he \in Int :
          sb = s * b /\ gb = g * b /\ te = t * e /\ he = h * e
    OBVIOUS
  <2>7. Same(sb + te, gb + he, Q)
    BY <2>5, <2>6, Order, SameSum
  <2>8. b * s + e * t = sb + te /\ b * g + e * h = gb + he
    BY <2>6
  <2>9. Factor(e, b, d)[k] = gb + he
    BY <2>3, <2>8 DEF Factor
  <2>10. Same((sb + te) % Q, sb + te, Q) /\ (sb + te) % Q \in Int
    BY RestQ
  <2>11. Same((sb + te) % Q, gb + he, Q)
    BY <2>7, <2>10, Order, SameTrans
  <2> QED BY <2>2, <2>8, <2>9, <2>10, <2>11
<1>3. ASSUME NEW k \in Int, k \notin 1..(L + 1)
      PROVE  Factor(e, b, d)[k] = 0
  <2>1. k \notin 1..L /\ k - 1 \notin 1..L /\ k - 1 \in Int
    BY <1>3
  <2>2. d[k] = 0 /\ d[k - 1] = 0
    BY <2>1 DEF Matches
  <2>3. b * 0 + e * 0 = 0
    OBVIOUS
  <2> QED BY <2>2, <2>3 DEF Factor
<1>4. f \in [1..(L + 1) -> Int]
  <2>1. DOMAIN f = 1..(L + 1) /\ f = [i \in 1..(L + 1) |-> f[i]]
    BY <1>1
  <2> QED BY <1>2, <2>1
<1>5. Factor(e, b, d) \in Polynomial
  BY <1>0, FactorIs
<1> QED BY <1>2, <1>3, <1>4, <1>5 DEF Matches, f

\* The lists that recursion yields.
Lists == UNION {[1..L -> Int] : L \in Nat}

LEMMA ListFactor ==
    ASSUME NEW e \in Int, NEW b \in Int, NEW c \in Lists
    PROVE  new_factor(e, b, c) \in Lists
<1>1. PICK L \in Nat : c \in [1..L -> Int]
  BY DEF Lists
<1>2. Len(c) = L
  BY <1>1, ListLength
<1> DEFINE f == new_factor(e, b, c)
           g == [i \in 1..(L + 1) |->
             ((IF i <= L THEN b * c[i] ELSE 0) + (IF i > 1 THEN e * c[i - 1] ELSE 0))]
<1>3. f = [i \in 1..(L + 1) |-> g[i] % Q]
  BY <1>2 DEF new_factor
<1>4. ASSUME NEW i \in 1..(L + 1) PROVE g[i] \in Int
  <2>1. i <= L => c[i] \in Int
    BY <1>1
  <2>2. i > 1 => c[i - 1] \in Int
    <3>1. i > 1 => i - 1 \in 1..L
      OBVIOUS
    <3> QED BY <1>1, <3>1
  <2> QED BY <2>1, <2>2
<1> HIDE DEF f, g
<1>5. \A i \in 1..(L + 1) : g[i] % Q \in Int
  BY <1>4, RestQ
<1>6. f \in [1..(L + 1) -> Int] /\ L + 1 \in Nat
  BY <1>3, <1>5
<1> QED BY <1>6 DEF Lists, f

LEMMA FirstList == <<1>> \in Lists /\ Matches(<<1>>, 1, One)
<1>1. <<1>> \in [1..1 -> Int] /\ 1 \in Nat
  OBVIOUS
<1>2. Same(1, 1, Q)
  <2>1. 1 = 1 + Q * 0
    BY Order
  <2> QED BY <2>1 DEF Same
<1>3. One \in Polynomial
  BY DEF One, Polynomial
<1>4. \A k \in Int : IF k \in 1..1 THEN Same(<<1>>[k], One[k], Q) ELSE One[k] = 0
  BY <1>2 DEF One
<1> QED BY <1>1, <1>3, <1>4 DEF Lists, Matches

IsPlace(s, c, i, p) ==
    p = [j \in 0..m |->
            IF j = 0 THEN <<1>>
            ELSE new_factor(s[<<j - 1, convert_to_nal(i)[j - 1]>>],
                            c[<<j - 1, convert_to_nal(i)[j - 1]>>], p[j - 1])]

LEMMA DigitsAre ==
    ASSUME NEW i
    PROVE  \A j \in Digits : convert_to_nal(i)[j] = Digit(i, j, n)
BY DEF convert_to_nal, Digit, Prefix

LEMMA PlaceIs ==
    ASSUME NEW s, NEW c, Balanced(n, m, s, c), NEW i \in Nat
    PROVE  Matches(PlacePolynomial(s, c, i), m + 1, Product(n, m, s, c, i)[0])
<1>0. m \in Nat /\ n \in Nat \ {0}
  BY DEF Balanced
<1> DEFINE E == Picked(s, n, m, i)
           F == Picked(c, n, m, i)
<1>1. E \in Coefficients(m) /\ F \in Coefficients(m)
  BY PickedIs
<1>2. \A j \in 1..m : /\ s[<<j - 1, convert_to_nal(i)[j - 1]>>] = E[j - 1]
                      /\ c[<<j - 1, convert_to_nal(i)[j - 1]>>] = F[j - 1]
                      /\ E[j - 1] \in Int /\ F[j - 1] \in Int
  <2>1. \A j \in 1..m : j - 1 \in 0..(m - 1) /\ j - 1 \in Digits
    BY <1>0 DEF Digits
  <2>2. \A j \in 1..m : convert_to_nal(i)[j - 1] = Digit(i, j - 1, n)
    BY <2>1, DigitsAre
  <2> QED BY <2>1, <2>2, PickedIs
<1> HIDE DEF E, F
<1> DEFINE S == [j \in 1..m |-> [p \in Lists |-> new_factor(E[j - 1], F[j - 1], p)]]
<1>3. Recursive(m, Lists, <<1>>, S)
  BY <1>2, ListFactor, FirstList DEF Recursive
<1>4. \A j \in 1..m : \A p \in Lists : S[j][p] = new_factor(E[j - 1], F[j - 1], p)
  OBVIOUS
<1> HIDE DEF S
<1>5. PICK q : Follow(m, Lists, <<1>>, S, q)
  BY <1>0, <1>3, Recursion
<1>6. IsPlace(s, c, i, q)
  <2>1. q = [j \in 0..m |-> q[j]]
    BY <1>5 DEF Follow
  <2>2. ASSUME NEW j \in 0..m
        PROVE  q[j] = IF j = 0 THEN <<1>>
                      ELSE new_factor(s[<<j - 1, convert_to_nal(i)[j - 1]>>],
                            c[<<j - 1, convert_to_nal(i)[j - 1]>>], q[j - 1])
    <3>1. CASE j = 0
      BY <1>5, <3>1 DEF Follow
    <3>2. CASE j # 0
      <4>1. j \in 1..m /\ j - 1 \in 0..m
        BY <1>0, <3>2
      <4>2. q[j] = S[j][q[j - 1]] /\ q[j - 1] \in Lists
        BY <1>5, <4>1 DEF Follow
      <4>3. q[j] = new_factor(E[j - 1], F[j - 1], q[j - 1])
        BY <1>4, <4>1, <4>2
      <4> QED BY <1>2, <3>2, <4>1, <4>3
    <3> QED BY <3>1, <3>2
  <2>3. [j \in 0..m |-> q[j]]
          = [j \in 0..m |-> IF j = 0 THEN <<1>>
                      ELSE new_factor(s[<<j - 1, convert_to_nal(i)[j - 1]>>],
                            c[<<j - 1, convert_to_nal(i)[j - 1]>>], q[j - 1])]
    BY <2>2
  <2> QED BY <2>1, <2>3 DEF IsPlace
<1>7. PICK p : IsPlace(s, c, i, p) /\ PlacePolynomial(s, c, i) = p[m]
  <2>1. PlacePolynomial(s, c, i) = (CHOOSE p : IsPlace(s, c, i, p))[m]
    BY DEF PlacePolynomial, IsPlace
  <2> QED BY <1>6, <2>1
<1> DEFINE w == Up(m, E, F, One)
<1>8. IsUp(m, E, F, One, w)
  <2>1. One \in Polynomial
    BY FirstList DEF Matches
  <2> QED BY <1>0, <1>1, <2>1, UpIs
<1> HIDE DEF w
<1> DEFINE T == {j \in 0..m : Matches(p[j], j + 1, w[j])}
<1>9. 0 \in T
  <2>1. p[0] = <<1>> /\ w[0] = One /\ 0 + 1 = 1 /\ 0 \in 0..m
    BY <1>0, <1>7, <1>8 DEF IsPlace, IsUp
  <2> QED BY <2>1, FirstList
<1>10. ASSUME NEW j \in 0..(m - 1), j \in T PROVE j + 1 \in T
  <2>1. PICK d \in 1..m : d = j + 1
    BY <1>0
  <2>2. d - 1 = j /\ d \in 0..m /\ j \in Nat /\ d # 0
    BY <1>0, <2>1
  <2>3. p[d] = new_factor(E[j], F[j], p[j])
    <3>1. p[d] = new_factor(s[<<d - 1, convert_to_nal(i)[d - 1]>>],
                            c[<<d - 1, convert_to_nal(i)[d - 1]>>], p[d - 1])
      BY <1>7, <2>2 DEF IsPlace
    <3> QED BY <1>2, <2>2, <3>1
  <2>4. w[d] = Factor(E[j], F[j], w[j])
    BY <1>8, <2>1 DEF IsUp
  <2>5. E[j] \in Int /\ F[j] \in Int
    BY <1>2, <2>2
  <2>6. Matches(p[j], j + 1, w[j]) /\ j + 1 \in Nat
    BY <1>10, <2>2
  <2>7. Matches(new_factor(E[j], F[j], p[j]), (j + 1) + 1, Factor(E[j], F[j], w[j]))
    BY <2>5, <2>6, NewFactor
  <2>8. (j + 1) + 1 = d + 1
    BY <2>1
  <2> QED BY <2>1, <2>2, <2>3, <2>4, <2>7, <2>8
<1> HIDE DEF T
<1>11. m \in T
  <2>1. m \in 0..m
    BY <1>0
  <2> QED BY <1>0, <1>9, <1>10, <2>1, UpTo
<1>12. Matches(p[m], m + 1, w[m])
  BY <1>11 DEF T
<1>13. w[m] = Product(n, m, s, c, i)[0]
  BY <1>0, <1>1, UpDown DEF w, Product, E, F
<1> QED BY <1>7, <1>12, <1>13

\* The bits of the digits of L.
Bits(B, D, L, s) ==
    \A j \in 0..(D - 1), d \in 0..(B - 1) :
        s[<<j, d>>] = IF d = Digit(L, j, B) THEN 1 ELSE 0

LEMMA BitsBeyond ==
    ASSUME NEW B, NEW D, NEW s, NEW c, Balanced(B, D, s, c), NEW L \in Nat,
           Bits(B, D, L, s), NEW j \in 0..(D - 1), NEW e \in Nat
    PROVE  SumTo(B - 1, Beyond(s, B, j, e)) = IF Digit(L, j, B) > e THEN 1 ELSE 0
<1>1. B \in Nat \ {0} /\ D \in Nat /\ B - 1 \in Nat /\ j \in Nat
  BY DEF Balanced
<1>2. PICK d \in 0..(B - 1) : d = Digit(L, j, B)
  BY <1>1, PrefixIs
<1> DEFINE f == Beyond(s, B, j, e)
<1>3. ASSUME NEW i \in 1..(B - 1)
      PROVE  f[i] = IF i > e /\ i = d THEN 1 ELSE 0
  <2>1. i \in 0..(B - 1)
    BY <1>1
  <2>2. s[<<j, i>>] = IF i = d THEN 1 ELSE 0
    BY <1>2, <2>1 DEF Bits
  <2> QED BY <2>2 DEF Beyond
<1>4. \A i \in 1..(B - 1) : f[i] \in Int /\ (i # d => f[i] = 0)
  BY <1>3
<1> HIDE DEF f
<1>5. SumTo(B - 1, f) = IF d = 0 THEN 0 ELSE f[d]
  BY <1>1, <1>4, SumSingle
<1>6. d # 0 => f[d] = IF d > e THEN 1 ELSE 0
  <2>1. d # 0 => d \in 1..(B - 1)
    BY <1>1
  <2> QED BY <1>3, <2>1
<1>7. SumTo(B - 1, f) = IF d > e THEN 1 ELSE 0
  BY <1>5, <1>6
<1> QED BY <1>2, <1>7 DEF f

IsAbove(s, c, p) ==
    p = [j \in 0..m |->
            IF j = m THEN <<1>>
            ELSE new_factor(s[<<j, convert_to_nal(N - 1)[j]>>],
                            c[<<j, convert_to_nal(N - 1)[j]>>], p[j + 1])]

LEMMA AboveIs ==
    ASSUME NEW s, NEW c, Balanced(n, m, s, c), N - 1 \in Nat
    PROVE  \A j \in 0..m :
             Matches(Above(s, c)[j], m - j + 1, Product(n, m, s, c, N - 1)[j])
<1>0. m \in Nat /\ n \in Nat \ {0}
  BY DEF Balanced
<1> DEFINE i == N - 1
           E == Picked(s, n, m, i)
           F == Picked(c, n, m, i)
           w == Product(n, m, s, c, i)
<1>2. \A j \in 0..(m - 1) : /\ s[<<j, convert_to_nal(i)[j]>>] = E[j]
                            /\ c[<<j, convert_to_nal(i)[j]>>] = F[j]
                            /\ E[j] \in Int /\ F[j] \in Int
  <2>1. \A j \in 0..(m - 1) : convert_to_nal(i)[j] = Digit(i, j, n)
    BY DigitsAre DEF Digits
  <2> QED BY <2>1, PickedIs
<1>3. IsDown(m, E, F, w)
  BY <1>0, PickedIs, DownIs DEF Product
<1> HIDE DEF E, F, w, i
<1> DEFINE S == [j \in 0..(m - 1) |-> [p \in Lists |-> new_factor(E[j], F[j], p)]]
<1>4. RecursiveDown(m, Lists, <<1>>, S)
  BY <1>2, ListFactor, FirstList DEF RecursiveDown
<1>5. \A j \in 0..(m - 1) : \A p \in Lists : S[j][p] = new_factor(E[j], F[j], p)
  OBVIOUS
<1> HIDE DEF S
<1>6. PICK q : FollowDown(m, Lists, <<1>>, S, q)
  BY <1>0, <1>4, RecursionDown
<1>7. IsAbove(s, c, q)
  <2>1. q = [j \in 0..m |-> q[j]]
    BY <1>6 DEF FollowDown
  <2>2. ASSUME NEW j \in 0..m
        PROVE  q[j] = IF j = m THEN <<1>>
                      ELSE new_factor(s[<<j, convert_to_nal(i)[j]>>],
                            c[<<j, convert_to_nal(i)[j]>>], q[j + 1])
    <3>1. CASE j = m
      BY <1>6, <3>1 DEF FollowDown
    <3>2. CASE j # m
      <4>1. j \in 0..(m - 1) /\ j + 1 \in 0..m
        BY <1>0, <3>2
      <4>2. q[j] = S[j][q[j + 1]] /\ q[j + 1] \in Lists
        BY <1>6, <4>1 DEF FollowDown
      <4>3. q[j] = new_factor(E[j], F[j], q[j + 1])
        BY <1>5, <4>1, <4>2
      <4> QED BY <1>2, <3>2, <4>1, <4>3
    <3> QED BY <3>1, <3>2
  <2>3. [j \in 0..m |-> q[j]]
          = [j \in 0..m |-> IF j = m THEN <<1>>
                      ELSE new_factor(s[<<j, convert_to_nal(i)[j]>>],
                            c[<<j, convert_to_nal(i)[j]>>], q[j + 1])]
    BY <2>2
  <2> QED BY <2>1, <2>3 DEF IsAbove, i
<1>8. PICK p : IsAbove(s, c, p) /\ Above(s, c) = p
  <2>1. Above(s, c) = CHOOSE p : IsAbove(s, c, p)
    BY DEF Above, IsAbove
  <2> QED BY <1>7, <2>1
<1> DEFINE T == {j \in 0..m : Matches(p[m - j], j + 1, w[m - j])}
<1>9. 0 \in T
  <2>1. m - 0 = m /\ 0 \in 0..m /\ m \in 0..m /\ 0 + 1 = 1
    BY <1>0
  <2>2. p[m] = <<1>> /\ w[m] = One
    BY <1>3, <1>8, <2>1 DEF IsAbove, IsDown
  <2> QED BY <2>1, <2>2, FirstList
<1>10. ASSUME NEW j \in 0..(m - 1), j \in T PROVE j + 1 \in T
  <2>1. PICK d \in 0..(m - 1) : d = m - (j + 1)
    BY <1>0
  <2>2. d + 1 = m - j /\ d \in 0..m /\ d # m /\ j + 1 \in 0..m /\ j + 1 \in Nat /\ d + 1 \in 0..m
    BY <1>0, <2>1
  <2>3. p[d] = new_factor(E[d], F[d], p[d + 1])
    <3>1. p[d] = new_factor(s[<<d, convert_to_nal(i)[d]>>],
                            c[<<d, convert_to_nal(i)[d]>>], p[d + 1])
      BY <1>8, <2>2 DEF IsAbove, i
    <3> QED BY <1>2, <3>1
  <2>4. w[d] = Factor(E[d], F[d], w[d + 1])
    BY <1>3 DEF IsDown
  <2>5. Matches(p[d + 1], j + 1, w[d + 1])
    BY <1>10, <2>2
  <2>6. Matches(p[d], (j + 1) + 1, w[d])
    BY <1>2, <2>2, <2>3, <2>4, <2>5, NewFactor
  <2> QED BY <2>1, <2>2, <2>6
<1> HIDE DEF T
<1>11. \A j \in 0..m : j \in T
  BY <1>0, <1>9, <1>10, UpTo
<1>12. ASSUME NEW j \in 0..m
       PROVE  Matches(p[j], m - j + 1, w[j])
  <2>1. PICK d \in 0..m : d = m - j
    BY <1>0
  <2>2. m - d = j /\ d \in T
    BY <1>0, <1>11, <2>1
  <2>3. Matches(p[m - d], d + 1, w[m - d])
    BY <2>2 DEF T
  <2> QED BY <2>1, <2>2, <2>3
<1> QED BY <1>8, <1>12 DEF w, i

LEMMA LargerListIs ==
    ASSUME NEW s, NEW c, Balanced(n, m, s, c), N - 1 \in Nat, l \in Nat,
           Bits(n, m, l, s), NEW j \in 0..(m - 1)
    PROVE  Matches(Larger(s, c)[j], m - j + 1, LargerProduct(n, m, s, c, N - 1, j))
<1>0. m \in Nat /\ n \in Nat \ {0} /\ j \in Nat /\ j + 1 \in 0..m
  BY DEF Balanced
<1>1. PICK d \in Nat : d = Digit(N - 1, j, n)
  <2>1. Digit(N - 1, j, n) \in 0..(n - 1)
    BY <1>0, PrefixIs
  <2> QED BY <1>0, <2>1
<1>2. convert_to_nal(N - 1)[j] = d /\ convert_to_nal(l)[j] = Digit(l, j, n)
  BY <1>1, DigitsAre DEF Digits
<1>3. PICK b \in Int : b = SumTo(n - 1, Beyond(c, n, j, d))
  BY BeyondInt
<1>4. PICK e \in Int : e = SumTo(n - 1, Beyond(s, n, j, d))
  BY BeyondInt
<1>5. e = IF convert_to_nal(l)[j] > convert_to_nal(N - 1)[j] THEN 1 ELSE 0
  BY <1>2, <1>4, BitsBeyond
<1>6. SumTo(n - 1, [i \in 1..(n - 1) |->
                         IF i > convert_to_nal(N - 1)[j] THEN c[<<j, i>>] ELSE 0]) = b
  BY <1>2, <1>3 DEF Beyond
<1>7. Larger(s, c)[j] = new_factor(e, b, Above(s, c)[j + 1])
  <2>1. j \in Digits
    BY DEF Digits
  <2> QED BY <1>5, <1>6, <2>1 DEF Larger
<1>8. Matches(Above(s, c)[j + 1], m - (j + 1) + 1, Product(n, m, s, c, N - 1)[j + 1])
  BY <1>0, AboveIs
<1>9. PICK L \in Nat : L = m - (j + 1) + 1 /\ L + 1 = m - j + 1
  <2>1. m - (j + 1) + 1 \in Nat /\ (m - (j + 1) + 1) + 1 = m - j + 1
    BY <1>0
  <2> QED BY <2>1
<1>10. Matches(Larger(s, c)[j], L + 1, Factor(e, b, Product(n, m, s, c, N - 1)[j + 1]))
  BY <1>7, <1>8, <1>9, NewFactor
<1>11. Factor(e, b, Product(n, m, s, c, N - 1)[j + 1]) = LargerProduct(n, m, s, c, N - 1, j)
  BY <1>1, <1>3, <1>4 DEF LargerProduct
<1> QED BY <1>9, <1>10, <1>11

LEMMA PaddedIs ==
    ASSUME NEW s, NEW c, Balanced(n, m, s, c), N - 1 \in Nat, l \in Nat,
           Bits(n, m, l, s), NEW k \in 1..m
    PROVE  /\ PaddedPolynomial(s, c)[k] \in 0..(Q - 1)
           /\ Same(PaddedPolynomial(s, c)[k],
                   Product(n, m, s, c, N - 1)[0][k]
                     + SumTo(m, LargerAt(n, m, s, c, N - 1, k)), Q)
<1>0. m \in Nat /\ n \in Nat \ {0} /\ k \in Int /\ k \in 1..(m + 1)
  BY DEF Balanced
<1>1. PICK z \in Int, g \in Int :
        /\ z = Above(s, c)[0][k] /\ g = Product(n, m, s, c, N - 1)[0][k] /\ Same(z, g, Q)
  <2>1. Matches(Above(s, c)[0], m - 0 + 1, Product(n, m, s, c, N - 1)[0])
    <3>1. 0 \in 0..m
      BY <1>0
    <3> QED BY <3>1, AboveIs
  <2>2. k \in 1..(m - 0 + 1)
    BY <1>0
  <2> QED BY <1>0, <2>1, <2>2 DEF Matches, Polynomial
<1> DEFINE f == [j \in 1..m |->
                   IF k >= j /\ k <= m THEN Larger(s, c)[j - 1][k - j + 1] ELSE 0]
           h == LargerAt(n, m, s, c, N - 1, k)
<1>2. ASSUME NEW j \in 1..m
      PROVE  f[j] \in Int /\ h[j] \in Int /\ Same(f[j], h[j], Q)
  <2>1. PICK t \in 0..(m - 1) : t = j - 1
    BY <1>0
  <2>2. Matches(Larger(s, c)[t], m - t + 1, LargerProduct(n, m, s, c, N - 1, t))
    BY LargerListIs
  <2>3. PICK i \in Int : i = k - j + 1 /\ i = k - (j - 1)
    <3>1. k - j + 1 \in Int /\ k - j + 1 = k - (j - 1)
      OBVIOUS
    <3> QED BY <3>1
  <2>4. h[j] = LargerProduct(n, m, s, c, N - 1, t)[i]
    BY <2>1, <2>3 DEF LargerAt
  <2>5. h[j] \in Int
    BY <2>2, <2>4 DEF Matches, Polynomial
  <2>6. CASE k >= j
    <3>1. i \in 1..(m - t + 1)
      BY <1>0, <2>1, <2>3, <2>6
    <3>2. k <= m
      BY <1>0
    <3>3. f[j] = Larger(s, c)[t][i]
      BY <2>1, <2>3, <2>6, <3>2
    <3> HIDE DEF f, h
    <3> QED BY <2>2, <2>4, <2>5, <3>1, <3>3 DEF Matches
  <2>7. CASE ~(k >= j)
    <3>1. i \notin 1..(m - t + 1)
      BY <1>0, <2>3, <2>7
    <3>2. h[j] = 0
      BY <2>2, <2>4, <3>1 DEF Matches
    <3>3. f[j] = 0
      BY <2>7
    <3>4. Same(0, 0, Q)
      <4>1. 0 = 0 + Q * 0
        BY Order
      <4> QED BY <4>1 DEF Same
    <3> HIDE DEF f, h
    <3> QED BY <3>2, <3>3, <3>4
  <2> QED BY <2>6, <2>7
<1>3. PICK y \in Int, v \in Int : y = SumTo(m, f) /\ v = SumTo(m, h) /\ Same(y, v, Q)
  <2> HIDE DEF f, h
  <2>1. SumTo(m, f) \in Int /\ SumTo(m, h) \in Int /\ Same(SumTo(m, f), SumTo(m, h), Q)
    BY <1>0, <1>2, Order, SumSame, SumInt
  <2> QED BY <2>1
<1>4. PaddedPolynomial(s, c)[k] = (z + y) % Q
  BY <1>0, <1>1, <1>3 DEF PaddedPolynomial
<1>5. Same(z + y, g + v, Q)
  BY <1>1, <1>3, Order, SameSum
<1>6. Same((z + y) % Q, z + y, Q) /\ (z + y) % Q \in Int /\ (z + y) % Q \in 0..(Q - 1)
  BY RestQ
<1>7. Same((z + y) % Q, g + v, Q)
  BY <1>5, <1>6, Order, SameTrans
<1> QED BY <1>1, <1>3, <1>4, <1>6, <1>7 DEF h

-----------------------------------------------------------------------------
(* The invariant: what was drawn, and the coefficients that were made of it. *)

Drawn(B, D, L, s, c) == Balanced(B, D, s, c) /\ Bits(B, D, L, s)
Coefs(B, D, M, s, c, P) ==
    /\ \A i \in 1..(M - 1) : Matches(P[i], D + 1, Product(B, D, s, c, i - 1)[0])
    /\ \A k \in 1..D :
          /\ P[M][k] \in 0..(Q - 1)
          /\ Same(P[M][k], Product(B, D, s, c, M - 1)[0][k]
                             + SumTo(D, LargerAt(B, D, s, c, M - 1, k)), Q)

InstanceInv ==
    /\ n \in Nat \ {0, 1} /\ m \in Nat \ {0}
    /\ N \in 1..Power(n, m) /\ l \in 0..(Power(n, m) - 1)
    /\ r \in Int /\ exponent \in Int /\ value \in {0, 1}
    /\ Rows(n) \subseteq [1..(n - 1) -> Int] /\ Rhos(m) \subseteq [1..m -> Int]
DrawnInv ==
    phase # "start" => Drawn(n, m, l, sigma, a) /\ Coefs(n, m, N, sigma, a, P_i_k)

\* What the instance says of the numbers.
LEMMA InstanceIs ==
    ASSUME InstanceInv
    PROVE  /\ n \in Nat /\ n \in Nat \ {0} /\ n - 1 \in Nat /\ m \in Nat /\ N \in Nat
           /\ N - 1 \in Nat /\ l \in Nat /\ Power(n, m) \in Nat
           /\ N - 1 \in 0..(Power(n, m) - 1)
           /\ N - 1 + (Power(n, m) - N + 1) = Power(n, m)
           /\ Power(n, m) - N + 1 \in Nat
<1>1. n \in Nat \ {0} /\ m \in Nat
  BY DEF InstanceInv
<1>2. PICK p \in Nat \ {0} : p = Power(n, m)
  BY <1>1, PowerNat
<1>3. N \in 1..p /\ l \in 0..(p - 1)
  BY <1>2 DEF InstanceInv
<1>4. n - 1 \in Nat
  BY <1>1
<1>5. N \in Nat /\ N - 1 \in Nat /\ l \in Nat /\ N - 1 \in 0..(p - 1)
      /\ N - 1 + (p - N + 1) = p /\ p - N + 1 \in Nat
  BY <1>3
<1> QED BY <1>1, <1>2, <1>4, <1>5

LEMMA FillRow ==
    ASSUME NEW B \in Nat \ {0}, NEW f, \A d \in 1..B : f[d] \in Int,
           NEW g, \A i \in 1..(B - 1) : g[i] \in Int, Follows(1, B - 1, f, g),
           f[1] = (-SumTo(B - 1, g)) % Q
    PROVE  Same(SumTo(B, f), 0, Q)
<1>1. B - 1 \in Nat /\ 1 + (B - 1) = B /\ 1 \in 1..B
  OBVIOUS
<1>2. PICK z \in Int : z = SumTo(B - 1, g)
  BY <1>1, SumInt
<1>3. SumTo(1, f) = f[1]
  BY <1>1, SumSmall
<1>4. SumTo(1 + (B - 1), f) = SumTo(1, f) + SumTo(B - 1, g)
  <2>1. \A i \in 1..(1 + (B - 1)) : f[i] \in Int
    BY <1>1
  <2> QED BY <1>1, <2>1, SumConcat
<1>5. SumTo(B, f) = ((-z) % Q) + z
  BY <1>1, <1>2, <1>3, <1>4
<1>6. -z \in Int
  OBVIOUS
<1>7. PICK w \in Int : w = (-z) % Q /\ Same(w, -z, Q)
  BY <1>6, RestQ
<1>8. PICK i \in Int : w = -z + Q * i
  BY <1>7 DEF Same
<1>9. PICK y \in Int : y = Q * i
  BY Order
<1>10. w + z = 0 + y
  BY <1>8, <1>9
<1> QED BY <1>5, <1>7, <1>9, <1>10 DEF Same

LEMMA BitsRow ==
    ASSUME NEW B \in Nat \ {0}, NEW e \in 0..(B - 1), NEW f,
           \A d \in 1..B : f[d] = IF d - 1 = e THEN 1 ELSE 0
    PROVE  Same(SumTo(B, f), 1, Q)
<1>1. PICK j \in 0..B : j = e + 1 /\ j # 0 /\ j \in 1..B /\ j - 1 = e
  <2>1. e + 1 \in 0..B /\ e + 1 # 0 /\ e + 1 \in 1..B /\ (e + 1) - 1 = e
    OBVIOUS
  <2> QED BY <2>1
<1>2. \A d \in 1..B : f[d] \in Int /\ (d # j => f[d] = 0)
  <2>1. \A d \in 1..B : d - 1 = e => d = j
    BY <1>1
  <2> QED BY <2>1
<1>3. SumTo(B, f) = IF j = 0 THEN 0 ELSE f[j]
  <2>1. B \in Nat
    OBVIOUS
  <2> QED BY <1>2, <2>1, SumSingle
<1>4. SumTo(B, f) = 1
  BY <1>1, <1>3
<1>5. 1 = 1 + Q * 0
  BY Order
<1> QED BY <1>4, <1>5 DEF Same

LEMMA CommitDraws ==
    ASSUME InstanceInv, NEW rows \in [Digits -> Rows(n)]
    PROVE  Drawn(n, m, l, convert_to_sigma(l), Fill(rows))
<1>0. n \in Nat \ {0} /\ n \in Nat /\ n - 1 \in Nat /\ m \in Nat /\ l \in Nat
  BY InstanceIs
<1>1. \A j \in 0..(m - 1) : rows[j] \in [1..(n - 1) -> Int]
  BY DEF InstanceInv, Digits
<1> DEFINE s == convert_to_sigma(l)
           c == Fill(rows)
<1>2. \A j \in 0..(m - 1) : convert_to_nal(l)[j] = Digit(l, j, n) /\ Digit(l, j, n) \in 0..(n - 1)
  <2>1. \A j \in 0..(m - 1) : convert_to_nal(l)[j] = Digit(l, j, n)
    BY DigitsAre DEF Digits
  <2>2. \A j \in 0..(m - 1) : j \in Nat
    BY <1>0
  <2> QED BY <1>0, <2>1, <2>2, PrefixIs
<1>3. \A j \in 0..(m - 1), d \in 0..(n - 1) :
         s[<<j, d>>] = IF d = Digit(l, j, n) THEN 1 ELSE 0
  BY <1>2 DEF convert_to_sigma, Cells, Digits
<1>4. s \in [(0..(m - 1)) \X (0..(n - 1)) -> Int]
  BY DEF convert_to_sigma, Cells, Digits
<1>5. \A j \in 0..(m - 1) : SumTo(n - 1, rows[j]) \in Int /\ -SumTo(n - 1, rows[j]) \in Int
  <2>1. ASSUME NEW j \in 0..(m - 1) PROVE SumTo(n - 1, rows[j]) \in Int
    <3>1. \A i \in 1..(n - 1) : rows[j][i] \in Int
      BY <1>1
    <3> QED BY <1>0, <3>1, SumInt
  <2> QED BY <2>1
<1>6. \A j \in 0..(m - 1), d \in 0..(n - 1) :
         /\ c[<<j, d>>] = IF d = 0 THEN (-SumTo(n - 1, rows[j])) % Q ELSE rows[j][d]
         /\ c[<<j, d>>] \in Int
  <2>1. ASSUME NEW j \in 0..(m - 1), NEW d \in 0..(n - 1)
        PROVE  /\ c[<<j, d>>] = IF d = 0 THEN (-SumTo(n - 1, rows[j])) % Q ELSE rows[j][d]
               /\ c[<<j, d>>] \in Int
    <3>1. c[<<j, d>>] = IF d = 0 THEN (-SumTo(n - 1, rows[j])) % Q ELSE rows[j][d]
      BY DEF Fill, Cells, Digits
    <3>2. (-SumTo(n - 1, rows[j])) % Q \in Int
      BY <1>5, RestQ
    <3>3. d # 0 => rows[j][d] \in Int
      <4>1. d # 0 => d \in 1..(n - 1)
        BY <1>0
      <4> QED BY <1>1, <4>1
    <3> QED BY <3>1, <3>2, <3>3
  <2> QED BY <2>1
<1>7. c \in [(0..(m - 1)) \X (0..(n - 1)) -> Int]
  <2>1. c = [p \in (0..(m - 1)) \X (0..(n - 1)) |-> c[p]]
    BY DEF Fill, Cells, Digits
  <2> HIDE DEF c
  <2>2. \A p \in (0..(m - 1)) \X (0..(n - 1)) : c[p] \in Int
    BY <1>6
  <2> QED BY <2>1, <2>2
<1> HIDE DEF s, c
<1>8. ASSUME NEW j \in 0..(m - 1)
      PROVE  Same(SumTo(n, Row(s, n, j)), 1, Q) /\ Same(SumTo(n, Row(c, n, j)), 0, Q)
  <2>1. \A d \in 1..n : d - 1 \in 0..(n - 1)
    BY <1>0
  <2>2. \A d \in 1..n : Row(s, n, j)[d] = IF d - 1 = Digit(l, j, n) THEN 1 ELSE 0
    BY <1>3, <2>1 DEF Row
  <2>3. Same(SumTo(n, Row(s, n, j)), 1, Q)
    BY <1>0, <1>2, <2>2, BitsRow
  <2>4. \A d \in 1..n : Row(c, n, j)[d] = c[<<j, d - 1>>] /\ Row(c, n, j)[d] \in Int
    BY <1>6, <2>1 DEF Row
  <2>5. Row(c, n, j)[1] = (-SumTo(n - 1, rows[j])) % Q
    <3>1. 1 \in 1..n /\ 1 - 1 = 0 /\ 0 \in 0..(n - 1)
      BY <1>0
    <3>2. Row(c, n, j)[1] = c[<<j, 0>>]
      BY <2>4, <3>1
    <3> QED BY <1>6, <3>1, <3>2
  <2>6. Follows(1, n - 1, Row(c, n, j), rows[j])
    <3>1. ASSUME NEW i \in 1..(n - 1) PROVE rows[j][i] = Row(c, n, j)[1 + i]
      <4>1. 1 + i \in 1..n /\ (1 + i) - 1 = i /\ i \in 0..(n - 1) /\ i # 0
        BY <1>0
      <4>2. Row(c, n, j)[1 + i] = c[<<j, i>>]
        BY <2>4, <4>1
      <4> QED BY <1>6, <4>1, <4>2
    <3> QED BY <3>1 DEF Follows
  <2>7. \A i \in 1..(n - 1) : rows[j][i] \in Int
    BY <1>1
  <2>8. Same(SumTo(n, Row(c, n, j)), 0, Q)
    BY <1>0, <2>4, <2>5, <2>6, <2>7, FillRow
  <2> QED BY <2>3, <2>8
<1> QED BY <1>0, <1>3, <1>4, <1>7, <1>8 DEF Drawn, Balanced, Bits, s, c

\* The coefficients that the prover computes.
LEMMA CommitCoefs ==
    ASSUME InstanceInv, NEW s, NEW c, Drawn(n, m, l, s, c), NEW P,
           P = [i \in 1..N |-> IF i < N THEN PlacePolynomial(s, c, i - 1)
                               ELSE PaddedPolynomial(s, c)]
    PROVE  Coefs(n, m, N, s, c, P)
<1>0. N \in Nat /\ N - 1 \in Nat /\ l \in Nat /\ N \in 1..N /\ Balanced(n, m, s, c)
      /\ Bits(n, m, l, s)
  BY InstanceIs DEF Drawn, InstanceInv
<1>1. ASSUME NEW i \in 1..(N - 1)
      PROVE  Matches(P[i], m + 1, Product(n, m, s, c, i - 1)[0])
  <2>1. i \in 1..N /\ i < N /\ i - 1 \in Nat
    BY <1>0
  <2> QED BY <1>0, <2>1, PlaceIs
<1>2. P[N] = PaddedPolynomial(s, c)
  BY <1>0
<1> QED BY <1>0, <1>1, <1>2, PaddedIs DEF Coefs

\* After commit the cells of every row sum up to 0 and exactly one bit of it is
\* 1, and the prover's lists hold the polynomials made of them.
THEOREM DrawnAlways == Spec => [](InstanceInv /\ DrawnInv)
<1>1. Init => InstanceInv /\ DrawnInv
  <2> SUFFICES ASSUME Init PROVE InstanceInv /\ DrawnInv
    OBVIOUS
  <2>1. PICK p \in Shapes : n = p[1] /\ m = p[2]
    BY DEF Init
  <2>2. n \in Nat \ {0, 1} /\ m \in Nat \ {0}
    BY <2>1, ProtocolAssumption
  <2>3. /\ Sizes(n, m) \subseteq 1..Power(n, m)
        /\ Rows(n) \subseteq [1..(n - 1) -> Int] /\ Rhos(m) \subseteq [1..m -> Int]
    BY <2>1, ProtocolAssumption
  <2> QED BY <2>2, <2>3 DEF Init, InstanceInv, DrawnInv
<1>2. InstanceInv /\ DrawnInv /\ [Next]_vars => InstanceInv' /\ DrawnInv'
  <2> SUFFICES ASSUME InstanceInv, DrawnInv, [Next]_vars
               PROVE  InstanceInv' /\ DrawnInv'
    OBVIOUS
  <2>1. InstanceInv'
    <3>1. UNCHANGED instance
      BY DEF Next, Commit, Respond, Verify, vars
    <3> QED BY <3>1 DEF InstanceInv, instance
  <2>2. CASE Commit
    <3>1. PICK rows \in [Digits -> Rows(n)] :
            /\ sigma' = convert_to_sigma(l) /\ a' = Fill(rows)
            /\ P_i_k' = [i \in 1..N |->
                  IF i < N THEN PlacePolynomial(convert_to_sigma(l), Fill(rows), i - 1)
                  ELSE PaddedPolynomial(convert_to_sigma(l), Fill(rows))]
      BY <2>2 DEF Commit
    <3>2. n' = n /\ m' = m /\ N' = N /\ l' = l
      BY <2>2 DEF Commit, instance
    <3>3. Drawn(n, m, l, sigma', a')
      BY <3>1, CommitDraws
    <3>4. Coefs(n, m, N, sigma', a', P_i_k')
      BY <3>1, <3>3, CommitCoefs
    <3> QED BY <2>1, <3>2, <3>3, <3>4 DEF DrawnInv
  <2>3. CASE Respond \/ Verify \/ UNCHANGED vars
    <3>1. /\ n' = n /\ m' = m /\ N' = N /\ l' = l /\ sigma' = sigma /\ a' = a
          /\ P_i_k' = P_i_k
          /\ phase' # "start" => phase # "start"
      BY <2>3 DEF Respond, Verify, vars, instance
    <3> QED BY <2>1, <3>1 DEF DrawnInv
  <2> QED BY <2>1, <2>2, <2>3 DEF Next
<1> QED BY <1>1, <1>2, PTL DEF Spec

\* The shortcut of SigmaPlusProver::proof for the last commitment is the sum of
\* the polynomials of the places N - 1 .. n^m - 1, for every N and every base.
THEOREM PaddingAlwaysRight == Spec => []PaddingRight
<1>1. InstanceInv /\ DrawnInv => PaddingRight
  <2> SUFFICES ASSUME InstanceInv, DrawnInv, phase # "start", NEW k \in 1..m
               PROVE  P_i_k[N][k] =
                        SumTo(Power(n, m) - N + 1,
                              [i \in 1..(Power(n, m) - N + 1) |->
                                 PlacePolynomial(sigma, a, N - 2 + i)[k]]) % Q
    BY DEF PaddingRight
  <2>0. /\ m \in Nat /\ N \in Nat /\ N - 1 \in Nat /\ Power(n, m) \in Nat
        /\ N - 1 \in 0..(Power(n, m) - 1) /\ k \in Int
        /\ N - 1 + (Power(n, m) - N + 1) = Power(n, m)
        /\ Power(n, m) - N + 1 \in Nat
    BY InstanceIs
  <2>1. /\ Balanced(n, m, sigma, a) /\ Coefs(n, m, N, sigma, a, P_i_k)
    BY DEF DrawnInv, Drawn
  <2> DEFINE F == [i \in 1..(Power(n, m) - N + 1) |-> PlacePolynomial(sigma, a, N - 2 + i)[k]]
             H == [i \in 1..(Power(n, m) - N + 1) |-> Column(n, m, sigma, a, k)[N - 1 + i]]
  <2>2. PICK W \in Nat : W = Power(n, m) - N + 1
    BY <2>0
  <2>3. ASSUME NEW i \in 1..W
        PROVE  F[i] \in Int /\ H[i] \in Int /\ Same(F[i], H[i], Q)
    <3>1. PICK j \in Nat : j = N - 2 + i /\ N - 1 + i = j + 1
      <4>1. N - 2 + i \in Nat /\ N - 1 + i = (N - 2 + i) + 1
        BY <2>0
      <4> QED BY <4>1
    <3>2. F[i] = PlacePolynomial(sigma, a, j)[k]
      BY <2>2, <3>1
    <3>3. H[i] = Product(n, m, sigma, a, j)[0][k]
      <4>1. j + 1 \in Nat /\ (j + 1) - 1 = j
        BY <3>1
      <4>2. Column(n, m, sigma, a, k)[j + 1] = Product(n, m, sigma, a, (j + 1) - 1)[0][k]
        BY <4>1 DEF Column
      <4> QED BY <2>2, <3>1, <4>1, <4>2
    <3>4. Matches(PlacePolynomial(sigma, a, j), m + 1, Product(n, m, sigma, a, j)[0])
      BY <2>1, PlaceIs
    <3>5. k \in 1..(m + 1)
      BY <2>0
    <3> HIDE DEF F, H
    <3> QED BY <2>0, <3>2, <3>3, <3>4, <3>5 DEF Matches, Polynomial
  <2>4. PICK b \in Int, w \in Int, d \in Int, v \in Int :
          /\ b = Before(n, m, sigma, a, k, N - 1)
          /\ w = Before(n, m, sigma, a, k, Power(n, m))
          /\ d = SumTo(W, F) /\ v = SumTo(W, H) /\ Same(d, v, Q)
    <3>1. /\ Before(n, m, sigma, a, k, N - 1) \in Int
          /\ Before(n, m, sigma, a, k, Power(n, m)) \in Int
      BY <2>0, <2>1, BeforeIs
    <3> HIDE DEF F, H
    <3>2. Same(SumTo(W, F), SumTo(W, H), Q) /\ SumTo(W, F) \in Int /\ SumTo(W, H) \in Int
      BY <2>3, Order, SumSame, SumInt
    <3> QED BY <3>1, <3>2
  <2>5. w = b + v
    <3>1. Follows(N - 1, W, Column(n, m, sigma, a, k), H)
      BY <2>2 DEF Follows
    <3>2. \A i \in 1..(N - 1 + W) : Column(n, m, sigma, a, k)[i] \in Int
      <4>1. ASSUME NEW i \in 1..(N - 1 + W) PROVE Column(n, m, sigma, a, k)[i] \in Int
        <5>1. i \in Nat /\ i - 1 \in Nat
          BY <2>0
        <5>2. Column(n, m, sigma, a, k)[i] = Product(n, m, sigma, a, i - 1)[0][k]
          BY <5>1 DEF Column
        <5> QED BY <2>0, <2>1, <5>1, <5>2, BeforeIs
      <4> QED BY <4>1
    <3> HIDE DEF H
    <3>3. SumTo(N - 1 + W, Column(n, m, sigma, a, k))
            = SumTo(N - 1, Column(n, m, sigma, a, k)) + SumTo(W, H)
      BY <2>0, <3>1, <3>2, SumConcat
    <3>4. N - 1 + W = Power(n, m)
      BY <2>0, <2>2
    <3> QED BY <2>4, <3>3, <3>4 DEF Before
  <2>6. PICK e \in Int :
          /\ e = Product(n, m, sigma, a, N - 1)[0][k]
                   + SumTo(m, LargerAt(n, m, sigma, a, N - 1, k))
          /\ Same(w - b, e, Q)
    <3>1. \A j \in 1..m : LargerAt(n, m, sigma, a, N - 1, k)[j] \in Int
      BY <2>0, <2>1, TailSum
    <3>2. SumTo(m, LargerAt(n, m, sigma, a, N - 1, k)) \in Int
      BY <2>0, <3>1, SumInt
    <3>3. Product(n, m, sigma, a, N - 1)[0][k] \in Int
      BY <2>0, <2>1, BeforeIs
    <3>4. Same(w - b, Product(n, m, sigma, a, N - 1)[0][k]
                   + SumTo(m, LargerAt(n, m, sigma, a, N - 1, k)), Q)
      BY <2>0, <2>1, <2>4, TailSum
    <3> QED BY <3>2, <3>3, <3>4
  <2>7. PICK z \in 0..(Q - 1) : z = P_i_k[N][k] /\ Same(z, e, Q)
    BY <2>1, <2>6 DEF Coefs
  <2>8. w - b = v
    BY <2>5
  <2>9. Same(e, v, Q) /\ Same(v, d, Q)
    BY <2>4, <2>6, <2>8, Order, SameReverse
  <2>10. z \in Int
    BY Order
  <2>11. Same(z, d, Q)
    BY <2>7, <2>9, <2>10, Order, SameTrans
  <2>12. z = d % Q
    BY <2>11, Order, SameEqual
  <2> QED BY <2>2, <2>4, <2>7, <2>12
<1> QED BY <1>1, DrawnAlways, PTL

-----------------------------------------------------------------------------
(* The verifier's powers are values of the same polynomials.               *)

Evaluates(B, D, s, c, X, f) ==
    /\ X \in Int
    /\ \A j \in 0..(D - 1), d \in 0..(B - 1) :
          /\ f[<<j, d>>] \in Int
          /\ Same(f[<<j, d>>], s[<<j, d>>] * X + c[<<j, d>>], Q)

IsPowerAt(f, i, p) ==
    p = [j \in 0..m |->
            IF j = 0 THEN 1
            ELSE (p[j - 1] * f[<<j - 1, convert_to_nal(i)[j - 1]>>]) % Q]

LEMMA OneValue ==
    ASSUME NEW X \in Int
    PROVE  ValueOf(1, One, X) = 1 /\ Same(1, 1, Q)
<1>1. One \in Polynomial /\ One[1] = 1
  BY DEF One, Polynomial
<1>2. 0 \in Nat /\ 0 + 1 = 1
  OBVIOUS
<1>3. ValueOf(1, One, X) = ValueOf(0, One, X) + One[1] * Power(X, 0)
  BY <1>1, <1>2, ValueStep
<1>4. ValueOf(0, One, X) = 0 /\ Power(X, 0) = 1
  BY <1>1, <1>2, ValueStep, PowerStep
<1>5. 1 = 1 + Q * 0
  BY Order
<1> QED BY <1>1, <1>3, <1>4, <1>5 DEF Same

LEMMA PowerAtIs ==
    ASSUME NEW s, NEW c, Balanced(n, m, s, c), NEW X, NEW f, Evaluates(n, m, s, c, X, f),
           NEW i \in Nat
    PROVE  /\ PowerAt(f, i) \in Int
           /\ m # 0 => PowerAt(f, i) \in 0..(Q - 1)
           /\ Same(PowerAt(f, i), ValueOf(m + 1, Product(n, m, s, c, i)[0], X), Q)
<1>0. m \in Nat /\ n \in Nat \ {0} /\ X \in Int /\ Q \in Nat \ {0}
  BY Order DEF Balanced, Evaluates
<1> DEFINE E == Picked(s, n, m, i)
           F == Picked(c, n, m, i)
           G == Picked(f, n, m, i)
<1>1. E \in Coefficients(m) /\ F \in Coefficients(m)
  BY PickedIs
<1>2. \A j \in 0..(m - 1) : /\ f[<<j, convert_to_nal(i)[j]>>] = G[j]
                            /\ E[j] \in Int /\ F[j] \in Int /\ G[j] \in Int
                            /\ Same(G[j], E[j] * X + F[j], Q)
  <2>1. \A j \in 0..(m - 1) : convert_to_nal(i)[j] = Digit(i, j, n)
    BY DigitsAre DEF Digits
  <2>2. ASSUME NEW j \in 0..(m - 1)
        PROVE  /\ G[j] = f[<<j, Digit(i, j, n)>>] /\ G[j] \in Int
               /\ Same(G[j], E[j] * X + F[j], Q)
    <3>1. PICK d \in 0..(n - 1) : d = Digit(i, j, n)
      BY PickedIs
    <3>2. E[j] = s[<<j, d>>] /\ F[j] = c[<<j, d>>] /\ G[j] = f[<<j, d>>]
      BY <3>1 DEF Picked
    <3> HIDE DEF E, F, G
    <3> QED BY <3>1, <3>2 DEF Evaluates
  <2> QED BY <2>1, <2>2, PickedIs
<1> HIDE DEF E, F, G
<1> DEFINE S == [j \in 1..m |-> [v \in Int |-> (v * G[j - 1]) % Q]]
<1>3. Recursive(m, Int, 1, S)
  <2>1. ASSUME NEW j \in 1..m, NEW v \in Int PROVE (v * G[j - 1]) % Q \in Int
    <3>1. j - 1 \in 0..(m - 1)
      BY <1>0
    <3>2. PICK g \in Int : g = G[j - 1]
      BY <1>2, <3>1
    <3>3. v * g \in Int
      OBVIOUS
    <3> QED BY <3>2, <3>3, RestQ
  <2> QED BY <2>1 DEF Recursive
<1>4. \A j \in 1..m : \A v \in Int : S[j][v] = (v * G[j - 1]) % Q
  OBVIOUS
<1> HIDE DEF S
<1>5. PICK q : Follow(m, Int, 1, S, q)
  BY <1>0, <1>3, Recursion
<1>6. IsPowerAt(f, i, q)
  <2>1. q = [j \in 0..m |-> q[j]]
    BY <1>5 DEF Follow
  <2>2. ASSUME NEW j \in 0..m
        PROVE  q[j] = IF j = 0 THEN 1
                      ELSE (q[j - 1] * f[<<j - 1, convert_to_nal(i)[j - 1]>>]) % Q
    <3>1. CASE j = 0
      BY <1>5, <3>1 DEF Follow
    <3>2. CASE j # 0
      <4>1. j \in 1..m /\ j - 1 \in 0..m /\ j - 1 \in 0..(m - 1)
        BY <1>0, <3>2
      <4>2. q[j] = S[j][q[j - 1]] /\ q[j - 1] \in Int
        BY <1>5, <4>1 DEF Follow
      <4>3. q[j] = (q[j - 1] * G[j - 1]) % Q
        BY <1>4, <4>1, <4>2
      <4> QED BY <1>2, <3>2, <4>1, <4>3
    <3> QED BY <3>1, <3>2
  <2>3. [j \in 0..m |-> q[j]]
          = [j \in 0..m |-> IF j = 0 THEN 1
                      ELSE (q[j - 1] * f[<<j - 1, convert_to_nal(i)[j - 1]>>]) % Q]
    BY <2>2
  <2> QED BY <2>1, <2>3 DEF IsPowerAt
<1>7. PICK p : IsPowerAt(f, i, p) /\ PowerAt(f, i) = p[m]
  <2>1. PowerAt(f, i) = (CHOOSE p : IsPowerAt(f, i, p))[m]
    BY DEF PowerAt, IsPowerAt
  <2> QED BY <1>6, <2>1
<1> DEFINE w == Up(m, E, F, One)
<1>8. IsUp(m, E, F, One, w)
  <2>1. One \in Polynomial
    BY FirstList DEF Matches
  <2> QED BY <1>0, <1>1, <2>1, UpIs
<1> HIDE DEF w
<1> DEFINE T == {j \in 0..m : p[j] \in Int /\ Same(p[j], ValueOf(j + 1, w[j], X), Q)}
<1>9. 0 \in T
  <2>1. p[0] = 1 /\ w[0] = One /\ 0 + 1 = 1 /\ 0 \in 0..m
    BY <1>0, <1>7, <1>8 DEF IsPowerAt, IsUp
  <2> QED BY <1>0, <2>1, OneValue
<1>10. ASSUME NEW j \in 0..(m - 1), j \in T PROVE j + 1 \in T
  <2>1. PICK d \in 1..m : d = j + 1
    BY <1>0
  <2>2. d - 1 = j /\ d \in 0..m /\ j \in 0..m /\ j \in Nat /\ d # 0
    BY <1>0, <2>1
  <2>3. p[d] = (p[j] * G[j]) % Q
    <3>1. p[d] = (p[d - 1] * f[<<d - 1, convert_to_nal(i)[d - 1]>>]) % Q
      BY <1>7, <2>2 DEF IsPowerAt
    <3> QED BY <1>2, <2>2, <3>1
  <2>4. w[d] = Factor(E[j], F[j], w[j]) /\ w[j] \in Polynomial
    BY <1>8, <2>1, <2>2 DEF IsUp
  <2>5. w[j][0] = 0 /\ w[j][(j + 1) + 1] = 0
    <3>1. 0 \in Int /\ 0 < 1 /\ (j + 1) + 1 \in Int /\ (j + 1) + 1 > j + 1
      BY <2>2
    <3> QED BY <1>0, <1>1, <1>8, <2>2, <3>1, UpDegree
  <2>6. PICK v \in Int, g \in Int, e \in Int, b \in Int, L \in Nat :
          /\ v = p[j] /\ g = G[j] /\ e = E[j] /\ b = F[j] /\ L = j + 1
          /\ Same(v, ValueOf(L, w[j], X), Q) /\ Same(g, e * X + b, Q)
    <3>1. j + 1 \in Nat
      BY <2>2
    <3> QED BY <1>2, <1>10, <3>1
  <2>7. Same((v * g) % Q, ValueOf(L + 1, Factor(e, b, w[j]), X), Q) /\ (v * g) % Q \in Int
    BY <1>0, <2>4, <2>5, <2>6, ValueTimes
  <2> QED BY <2>1, <2>2, <2>3, <2>4, <2>6, <2>7
<1> HIDE DEF T
<1>11. m \in T
  <2>1. m \in 0..m
    BY <1>0
  <2> QED BY <1>0, <1>9, <1>10, <2>1, UpTo
<1>12. p[m] \in Int /\ Same(p[m], ValueOf(m + 1, w[m], X), Q)
  BY <1>11 DEF T
<1>13. w[m] = Product(n, m, s, c, i)[0]
  BY <1>0, <1>1, UpDown DEF w, Product, E, F
<1>14. m # 0 => p[m] \in 0..(Q - 1)
  <2> SUFFICES ASSUME m # 0 PROVE p[m] \in 0..(Q - 1)
    OBVIOUS
  <2>1. m \in 0..m /\ m - 1 \in 0..(m - 1) /\ m - 1 \in 0..m /\ m - 1 \in Nat
    BY <1>0
  <2>2. p[m] = (p[m - 1] * G[m - 1]) % Q
    <3>1. p[m] = (p[m - 1] * f[<<m - 1, convert_to_nal(i)[m - 1]>>]) % Q
      BY <1>7, <2>1 DEF IsPowerAt
    <3> QED BY <1>2, <2>1, <3>1
  <2>3. m - 1 \in T
    BY <1>0, <1>9, <1>10, <2>1, UpTo
  <2>4. PICK y \in Int, g \in Int : y = p[m - 1] /\ g = G[m - 1]
    BY <1>2, <2>1, <2>3 DEF T
  <2>5. y * g \in Int
    OBVIOUS
  <2> QED BY <2>2, <2>4, <2>5, RestQ
<1> QED BY <1>7, <1>12, <1>13, <1>14

IsAbovePower(f, p) ==
    p = [j \in 0..m |->
            IF j = m THEN 1
            ELSE (p[j + 1] * f[<<j, convert_to_nal(N - 1)[j]>>]) % Q]

LEMMA ProductDegree ==
    ASSUME NEW B, NEW D, NEW s, NEW c, Balanced(B, D, s, c), NEW i \in Nat, NEW j \in 0..D
    PROVE  /\ Product(B, D, s, c, i)[j] \in Polynomial
           /\ \A k \in Int : k < 1 \/ k > D - j + 1 => Product(B, D, s, c, i)[j][k] = 0
<1>1. D \in Nat
  BY DEF Balanced
<1> QED BY <1>1, ProductIs, PickedIs, DownDegree DEF Product

LEMMA AbovePowerIs ==
    ASSUME NEW s, NEW c, Balanced(n, m, s, c), NEW X, NEW f, Evaluates(n, m, s, c, X, f),
           N - 1 \in Nat
    PROVE  \A j \in 0..m :
             /\ AbovePower(f)[j] \in Int
             /\ Same(AbovePower(f)[j], ValueOf(m - j + 1, Product(n, m, s, c, N - 1)[j], X), Q)
<1>0. m \in Nat /\ n \in Nat \ {0} /\ X \in Int /\ Q \in Nat \ {0}
  BY Order DEF Balanced, Evaluates
<1> DEFINE i == N - 1
           E == Picked(s, n, m, i)
           F == Picked(c, n, m, i)
           G == Picked(f, n, m, i)
           w == Product(n, m, s, c, i)
<1>2. \A j \in 0..(m - 1) : /\ f[<<j, convert_to_nal(i)[j]>>] = G[j]
                            /\ E[j] \in Int /\ F[j] \in Int /\ G[j] \in Int
                            /\ Same(G[j], E[j] * X + F[j], Q)
  <2>1. \A j \in 0..(m - 1) : convert_to_nal(i)[j] = Digit(i, j, n)
    BY DigitsAre DEF Digits
  <2>2. ASSUME NEW j \in 0..(m - 1)
        PROVE  /\ G[j] = f[<<j, Digit(i, j, n)>>] /\ G[j] \in Int
               /\ Same(G[j], E[j] * X + F[j], Q)
    <3>1. PICK d \in 0..(n - 1) : d = Digit(i, j, n)
      BY PickedIs
    <3>2. E[j] = s[<<j, d>>] /\ F[j] = c[<<j, d>>] /\ G[j] = f[<<j, d>>]
      BY <3>1 DEF Picked
    <3> HIDE DEF E, F, G
    <3> QED BY <3>1, <3>2 DEF Evaluates
  <2> QED BY <2>1, <2>2, PickedIs
<1>3. IsDown(m, E, F, w)
  BY <1>0, PickedIs, DownIs DEF Product
<1>4. ASSUME NEW j \in 0..m
      PROVE  /\ w[j] \in Polynomial
             /\ \A k \in Int : k < 1 \/ k > m - j + 1 => w[j][k] = 0
  BY ProductDegree
<1> HIDE DEF E, F, G, w, i
<1> DEFINE S == [j \in 0..(m - 1) |-> [v \in Int |-> (v * G[j]) % Q]]
<1>5. RecursiveDown(m, Int, 1, S)
  <2>1. ASSUME NEW j \in 0..(m - 1), NEW v \in Int PROVE (v * G[j]) % Q \in Int
    <3>2. PICK g \in Int : g = G[j]
      BY <1>2
    <3>3. v * g \in Int
      OBVIOUS
    <3> QED BY <3>2, <3>3, RestQ
  <2> QED BY <2>1 DEF RecursiveDown
<1>6. \A j \in 0..(m - 1) : \A v \in Int : S[j][v] = (v * G[j]) % Q
  OBVIOUS
<1> HIDE DEF S
<1>7. PICK q : FollowDown(m, Int, 1, S, q)
  BY <1>0, <1>5, RecursionDown
<1>8. IsAbovePower(f, q)
  <2>1. q = [j \in 0..m |-> q[j]]
    BY <1>7 DEF FollowDown
  <2>2. ASSUME NEW j \in 0..m
        PROVE  q[j] = IF j = m THEN 1
                      ELSE (q[j + 1] * f[<<j, convert_to_nal(i)[j]>>]) % Q
    <3>1. CASE j = m
      BY <1>7, <3>1 DEF FollowDown
    <3>2. CASE j # m
      <4>1. j \in 0..(m - 1) /\ j + 1 \in 0..m
        BY <1>0, <3>2
      <4>2. q[j] = S[j][q[j + 1]] /\ q[j + 1] \in Int
        BY <1>7, <4>1 DEF FollowDown
      <4>3. q[j] = (q[j + 1] * G[j]) % Q
        BY <1>6, <4>1, <4>2
      <4> QED BY <1>2, <3>2, <4>1, <4>3
    <3> QED BY <3>1, <3>2
  <2>3. [j \in 0..m |-> q[j]]
          = [j \in 0..m |-> IF j = m THEN 1
                      ELSE (q[j + 1] * f[<<j, convert_to_nal(i)[j]>>]) % Q]
    BY <2>2
  <2> QED BY <2>1, <2>3 DEF IsAbovePower, i
<1>9. PICK p : IsAbovePower(f, p) /\ AbovePower(f) = p
  <2>1. AbovePower(f) = CHOOSE p : IsAbovePower(f, p)
    BY DEF AbovePower, IsAbovePower
  <2> QED BY <1>8, <2>1
<1> DEFINE T == {j \in 0..m : p[m - j] \in Int /\ Same(p[m - j], ValueOf(j + 1, w[m - j], X), Q)}
<1>10. 0 \in T
  <2>1. m - 0 = m /\ 0 \in 0..m /\ m \in 0..m /\ 0 + 1 = 1
    BY <1>0
  <2>2. p[m] = 1 /\ w[m] = One
    BY <1>3, <1>9, <2>1 DEF IsAbovePower, IsDown
  <2> QED BY <1>0, <2>1, <2>2, OneValue
<1>11. ASSUME NEW j \in 0..(m - 1), j \in T PROVE j + 1 \in T
  <2>1. PICK d \in 0..(m - 1) : d = m - (j + 1)
    BY <1>0
  <2>2. d + 1 = m - j /\ d \in 0..m /\ d # m /\ j + 1 \in 0..m /\ j + 1 \in Nat /\ d + 1 \in 0..m
        /\ m - (d + 1) + 1 = j + 1
    BY <1>0, <2>1
  <2>3. p[d] = (p[d + 1] * G[d]) % Q
    <3>1. p[d] = (p[d + 1] * f[<<d, convert_to_nal(i)[d]>>]) % Q
      BY <1>9, <2>2 DEF IsAbovePower, i
    <3> QED BY <1>2, <3>1
  <2>4. w[d] = Factor(E[d], F[d], w[d + 1]) /\ w[d + 1] \in Polynomial
    BY <1>3, <2>2 DEF IsDown
  <2>5. w[d + 1][0] = 0 /\ w[d + 1][(j + 1) + 1] = 0
    <3>1. 0 \in Int /\ 0 < 1 /\ (j + 1) + 1 \in Int /\ (j + 1) + 1 > m - (d + 1) + 1
      BY <2>2
    <3> QED BY <1>4, <2>2, <3>1
  <2>6. PICK v \in Int, g \in Int, e \in Int, b \in Int, L \in Nat :
          /\ v = p[d + 1] /\ g = G[d] /\ e = E[d] /\ b = F[d] /\ L = j + 1
          /\ Same(v, ValueOf(L, w[d + 1], X), Q) /\ Same(g, e * X + b, Q)
    BY <1>2, <1>11, <2>2
  <2>7. Same((v * g) % Q, ValueOf(L + 1, Factor(e, b, w[d + 1]), X), Q) /\ (v * g) % Q \in Int
    BY <1>0, <2>4, <2>5, <2>6, ValueTimes
  <2> QED BY <2>1, <2>2, <2>3, <2>4, <2>6, <2>7
<1> HIDE DEF T
<1>12. \A j \in 0..m : j \in T
  BY <1>0, <1>10, <1>11, UpTo
<1>13. ASSUME NEW j \in 0..m
       PROVE  p[j] \in Int /\ Same(p[j], ValueOf(m - j + 1, w[j], X), Q)
  <2>1. PICK d \in 0..m : d = m - j
    BY <1>0
  <2>2. m - d = j /\ d \in T
    BY <1>0, <1>12, <2>1
  <2>3. p[m - d] \in Int /\ Same(p[m - d], ValueOf(d + 1, w[m - d], X), Q)
    BY <2>2 DEF T
  <2> QED BY <2>1, <2>2, <2>3
<1> QED BY <1>9, <1>13 DEF w, i

LEMMA LargerPowerIs ==
    ASSUME NEW s, NEW c, Balanced(n, m, s, c), NEW X, NEW f, Evaluates(n, m, s, c, X, f),
           N - 1 \in Nat, NEW j \in 0..(m - 1)
    PROVE  /\ LargerPower(f)[j] \in Int
           /\ Same(AbovePower(f)[j + 1] * LargerPower(f)[j],
                   ValueOf(m - j + 1, LargerProduct(n, m, s, c, N - 1, j), X), Q)
<1>0. /\ m \in Nat /\ n \in Nat \ {0} /\ n - 1 \in Nat /\ X \in Int /\ Q \in Nat \ {0}
      /\ j \in Nat /\ j + 1 \in 0..m /\ j \in Digits
  BY Order DEF Balanced, Evaluates, Digits
<1>1. PICK d \in Nat : d = Digit(N - 1, j, n)
  <2>1. Digit(N - 1, j, n) \in 0..(n - 1)
    BY <1>0, PrefixIs
  <2> QED BY <1>0, <2>1
<1>2. PICK e \in Int, b \in Int :
        e = SumTo(n - 1, Beyond(s, n, j, d)) /\ b = SumTo(n - 1, Beyond(c, n, j, d))
  BY BeyondInt
<1> DEFINE g == Beyond(f, n, j, d)
           h == [i \in 1..(n - 1) |-> X * Beyond(s, n, j, d)[i] + 1 * Beyond(c, n, j, d)[i]]
<1>3. ASSUME NEW i \in 1..(n - 1)
      PROVE  g[i] \in Int /\ h[i] \in Int /\ Same(g[i], h[i], Q)
  <2>1. i \in 0..(n - 1)
    BY <1>0
  <2>2. PICK ss \in Int, cc \in Int, ff \in Int :
          /\ ss = s[<<j, i>>] /\ cc = c[<<j, i>>] /\ ff = f[<<j, i>>]
          /\ Same(ff, ss * X + cc, Q)
    BY <2>1 DEF Balanced, Evaluates
  <2>3. CASE i > d
    <3>1. g[i] = ff /\ h[i] = X * ss + 1 * cc
      BY <2>2, <2>3 DEF Beyond
    <3>2. X * ss + 1 * cc = ss * X + cc /\ ss * X + cc \in Int
      BY <1>0
    <3> HIDE DEF g, h
    <3> QED BY <2>2, <3>1, <3>2
  <2>4. CASE ~(i > d)
    <3>1. g[i] = 0 /\ h[i] = X * 0 + 1 * 0
      BY <2>4 DEF Beyond
    <3>2. X * 0 + 1 * 0 = 0 /\ 0 = 0 + Q * 0
      BY <1>0
    <3>3. Same(0, 0, Q)
      BY <3>2 DEF Same
    <3> HIDE DEF g, h
    <3> QED BY <3>1, <3>2, <3>3
  <2> QED BY <2>3, <2>4
<1>4. PICK y \in Int : y = SumTo(n - 1, g) /\ Same(y, SumTo(n - 1, h), Q)
  <2> HIDE DEF g, h
  <2>1. SumTo(n - 1, g) \in Int /\ Same(SumTo(n - 1, g), SumTo(n - 1, h), Q)
    BY <1>0, <1>3, SumSame, SumInt
  <2> QED BY <2>1
<1>5. SumTo(n - 1, h) = X * e + 1 * b
  <2>1. Combines(n - 1, h, X, Beyond(s, n, j, d), 1, Beyond(c, n, j, d))
    BY BeyondInt DEF Combines
  <2>2. 1 \in Int
    OBVIOUS
  <2> HIDE DEF h
  <2> QED BY <1>0, <1>2, <2>1, <2>2, SumCombine
<1>6. Same(y, e * X + b, Q)
  <2>1. X * e + 1 * b = e * X + b
    BY <1>0
  <2> HIDE DEF h
  <2> QED BY <1>4, <1>5, <2>1
<1>7. LargerPower(f)[j] = y
  <2>1. convert_to_nal(N - 1)[j] = d
    BY <1>0, <1>1, DigitsAre
  <2>2. LargerPower(f)[j] = SumTo(n - 1, [i \in 1..(n - 1) |->
                             IF i > convert_to_nal(N - 1)[j] THEN f[<<j, i>>] ELSE 0])
    BY <1>0 DEF LargerPower
  <2> QED BY <1>4, <2>1, <2>2 DEF Beyond
<1> DEFINE Z == Product(n, m, s, c, N - 1)[j + 1]
<1>8. PICK L \in Nat : L = m - (j + 1) + 1 /\ L + 1 = m - j + 1
  <2>1. m - (j + 1) + 1 \in Nat /\ (m - (j + 1) + 1) + 1 = m - j + 1
    BY <1>0
  <2> QED BY <2>1
<1>9. Z \in Polynomial /\ Z[0] = 0 /\ Z[L + 1] = 0
  <2>1. 0 \in Int /\ 0 < 1 /\ L + 1 \in Int /\ L + 1 > m - (j + 1) + 1
    BY <1>8
  <2> QED BY <1>0, <2>1, ProductDegree
<1>10. PICK v \in Int : v = AbovePower(f)[j + 1] /\ Same(v, ValueOf(L, Z, X), Q)
  BY <1>0, <1>8, AbovePowerIs
<1>11. LargerProduct(n, m, s, c, N - 1, j) = Factor(e, b, Z)
  BY <1>1, <1>2 DEF LargerProduct
<1> HIDE DEF Z
<1>12. Same(v * y, ValueOf(L + 1, Factor(e, b, Z), X), Q)
  BY <1>0, <1>6, <1>9, <1>10, ValueTimes
<1> QED BY <1>7, <1>8, <1>10, <1>11, <1>12

\* The highest coefficients.
LEMMA ProductTop ==
    ASSUME NEW B, NEW D, NEW s, NEW c, Balanced(B, D, s, c),
           NEW L \in 0..(Power(B, D) - 1), Bits(B, D, L, s),
           NEW I \in 0..(Power(B, D) - 1), NEW j \in 0..D
    PROVE  Product(B, D, s, c, I)[j][D - j + 1]
             = IF Prefix(L, j, B) = Prefix(I, j, B) THEN 1 ELSE 0
<1>0. B \in Nat \ {0} /\ D \in Nat /\ j \in Nat
  BY DEF Balanced
<1>1. Power(B, D) \in Nat /\ I \in Nat /\ L \in Nat
  BY <1>0, PowerNat
<1> DEFINE E == Picked(s, B, D, I)
<1>2. ASSUME NEW t \in 0..(D - 1)
      PROVE  E[t] = IF Digit(I, t, B) = Digit(L, t, B) THEN 1 ELSE 0
  <2>1. Digit(I, t, B) \in 0..(B - 1) /\ E[t] = s[<<t, Digit(I, t, B)>>]
    BY <1>1, PickedIs
  <2> QED BY <2>1 DEF Bits
<1>3. E \in [0..(D - 1) -> {0, 1}]
  <2>1. E = [t \in 0..(D - 1) |-> E[t]]
    BY DEF Picked
  <2> HIDE DEF E
  <2> QED BY <1>2, <2>1
<1>4. Picked(c, B, D, I) \in Coefficients(D)
  BY <1>1, PickedIs
<1> HIDE DEF E
<1>5. Down(D, E, Picked(c, B, D, I))[j][D - j + 1] = IF AllOnes(D, E, j) THEN 1 ELSE 0
  BY <1>0, <1>3, <1>4, DownTop
<1>6. AllOnes(D, E, j) <=> \A t \in j..(D - 1) : Digit(L, t, B) = Digit(I, t, B)
  <2>1. \A t \in j..(D - 1) : t \in 0..(D - 1)
    BY <1>0
  <2> QED BY <1>2, <2>1 DEF AllOnes
<1>7. (\A t \in j..(D - 1) : Digit(L, t, B) = Digit(I, t, B))
        => Prefix(L, j, B) = Prefix(I, j, B)
  BY <1>0, SamePrefix
<1>8. Prefix(L, j, B) = Prefix(I, j, B)
        => \A t \in j..(D - 1) : Digit(L, t, B) = Digit(I, t, B)
  <2> SUFFICES ASSUME Prefix(L, j, B) = Prefix(I, j, B), NEW t \in j..(D - 1)
               PROVE  Digit(L, t, B) = Digit(I, t, B)
    OBVIOUS
  <2>1. t \in j..D
    BY <1>0
  <2> QED BY <1>0, <1>1, <2>1, SameDigits
<1> QED BY <1>5, <1>6, <1>7, <1>8 DEF Product, E

LEMMA LargerTop ==
    ASSUME NEW B, NEW D, NEW s, NEW c, Balanced(B, D, s, c),
           NEW L \in 0..(Power(B, D) - 1), Bits(B, D, L, s),
           NEW I \in 0..(Power(B, D) - 1), NEW j \in 0..(D - 1)
    PROVE  /\ LargerProduct(B, D, s, c, I, j) \in Polynomial
           /\ \A k \in Int : k < 1 => LargerProduct(B, D, s, c, I, j)[k] = 0
           /\ LargerProduct(B, D, s, c, I, j)[D - j + 1]
                = IF Exceeds(L, I, j, B) THEN 1 ELSE 0
<1>0. B \in Nat \ {0} /\ D \in Nat /\ j \in Nat /\ j + 1 \in 0..D
  BY DEF Balanced
<1>1. Power(B, D) \in Nat /\ I \in Nat /\ L \in Nat
  BY <1>0, PowerNat
<1>2. PICK d \in Nat : d = Digit(I, j, B)
  <2>1. Digit(I, j, B) \in 0..(B - 1)
    BY <1>0, <1>1, PrefixIs
  <2> QED BY <1>0, <2>1
<1>3. PICK e \in Int, b \in Int :
        e = SumTo(B - 1, Beyond(s, B, j, d)) /\ b = SumTo(B - 1, Beyond(c, B, j, d))
  BY BeyondInt
<1>4. e = IF Digit(L, j, B) > d THEN 1 ELSE 0
  BY <1>1, <1>3, BitsBeyond
<1> DEFINE Z == Product(B, D, s, c, I)[j + 1]
<1>5. Z \in Polynomial /\ \A k \in Int : k < 1 \/ k > D - (j + 1) + 1 => Z[k] = 0
  BY <1>0, <1>1, ProductDegree
<1>6. Z[D - (j + 1) + 1] = IF Prefix(L, j + 1, B) = Prefix(I, j + 1, B) THEN 1 ELSE 0
  BY <1>0, ProductTop
<1>7. LargerProduct(B, D, s, c, I, j) = Factor(e, b, Z)
  BY <1>2, <1>3 DEF LargerProduct
<1> HIDE DEF Z
<1>8. /\ Factor(e, b, Z) \in Polynomial
      /\ \A k \in Int : Factor(e, b, Z)[k] = b * Z[k] + e * Z[k - 1]
  BY <1>5, FactorIs
<1>9. b * 0 + e * 0 = 0
  OBVIOUS
<1>10. ASSUME NEW k \in Int, k < 1 PROVE Factor(e, b, Z)[k] = 0
  <2>1. k - 1 \in Int /\ k - 1 < 1
    BY <1>10
  <2>2. Z[k] = 0 /\ Z[k - 1] = 0
    BY <1>5, <1>10, <2>1
  <2> QED BY <1>8, <1>9, <2>2
<1>11. Factor(e, b, Z)[D - j + 1] = IF Exceeds(L, I, j, B) THEN 1 ELSE 0
  <2>1. PICK k \in Int : k = D - j + 1 /\ k - 1 = D - (j + 1) + 1 /\ k > D - (j + 1) + 1
    <3>1. D - j + 1 \in Int /\ (D - j + 1) - 1 = D - (j + 1) + 1 /\ D - j + 1 > D - (j + 1) + 1
      BY <1>0
    <3> QED BY <3>1
  <2>2. Factor(e, b, Z)[k] = b * 0 + e * Z[k - 1]
    BY <1>5, <1>8, <2>1
  <2>3. PICK z \in {0, 1} :
          z = Z[k - 1] /\ z = IF Prefix(L, j + 1, B) = Prefix(I, j + 1, B) THEN 1 ELSE 0
    BY <1>6, <2>1
  <2>4. b * 0 + e * z = IF e = 1 /\ z = 1 THEN 1 ELSE 0
    <3>1. e \in {0, 1}
      BY <1>4
    <3>2. b * 0 + 0 * 0 = 0 /\ b * 0 + 1 * 0 = 0 /\ b * 0 + 0 * 1 = 0 /\ b * 0 + 1 * 1 = 1
      OBVIOUS
    <3> QED BY <2>3, <3>1, <3>2
  <2>5. (e = 1 /\ z = 1) <=> Exceeds(L, I, j, B)
    BY <1>2, <1>4, <2>3 DEF Exceeds
  <2> QED BY <2>1, <2>2, <2>3, <2>4, <2>5
<1> QED BY <1>7, <1>8, <1>10, <1>11

\* The sums of the polynomials' values.
LargerValues(B, D, s, c, I, X) ==
    [j \in 1..D |-> Power(X, j - 1)
                      * ValueOf(D - (j - 1) + 1, LargerProduct(B, D, s, c, I, j - 1), X)]

LEMMA PaddedValue ==
    ASSUME NEW B, NEW D, NEW s, NEW c, Balanced(B, D, s, c),
           NEW L \in 0..(Power(B, D) - 1), Bits(B, D, L, s),
           NEW I \in 0..(Power(B, D) - 1), NEW X \in Int, NEW G,
           \A k \in 1..D : /\ G[k] \in Int
                           /\ Same(G[k], Product(B, D, s, c, I)[0][k]
                                           + SumTo(D, LargerAt(B, D, s, c, I, k)), Q)
    PROVE  /\ \A j \in 1..D : LargerValues(B, D, s, c, I, X)[j] \in Int
           /\ Same(SumTo(D, [k \in 1..D |-> G[k] * Power(X, k - 1)])
                     + (IF L >= I THEN Power(X, D) ELSE 0),
                   ValueOf(D + 1, Product(B, D, s, c, I)[0], X)
                     + SumTo(D, LargerValues(B, D, s, c, I, X)), Q)
<1>0. B \in Nat \ {0} /\ D \in Nat /\ Q \in Nat \ {0} /\ 0 \in 0..D
  BY Order DEF Balanced
<1>1. Power(B, D) \in Nat /\ I \in Nat /\ L \in Nat
  BY <1>0, PowerNat
<1> DEFINE R(t) == LargerProduct(B, D, s, c, I, t)
           W == Product(B, D, s, c, I)[0]
           M == [q \in Nat \X Nat |-> R(q[2] - 1)[q[1] - (q[2] - 1)] * Power(X, q[1] - 1)]
           H == LargerValues(B, D, s, c, I, X)
           ex == [j \in 1..D |-> IF Exceeds(L, I, j - 1, B) THEN 1 ELSE 0]
           g == [k \in 1..D |-> G[k] * Power(X, k - 1)]
           h == [k \in 1..D |-> 1 * Terms(W, X)[k] + 1 * RowSums(D, M)[k]]
<1>2. PICK p \in Int : p = Power(X, D)
  BY <1>0, PowerInt
<1>3. W \in Polynomial
  BY <1>0, <1>1, ProductDegree
<1>4. \A k \in 1..D, j \in 1..D :
         M[<<k, j>>] = R(j - 1)[k - (j - 1)] * Power(X, k - 1)
  OBVIOUS
<1>5. ASSUME NEW j \in 1..D
      PROVE  /\ R(j - 1) \in Polynomial
             /\ \A k \in Int : k < 1 => R(j - 1)[k] = 0
             /\ R(j - 1)[D - (j - 1) + 1] = ex[j]
  <2>1. PICK t \in 0..(D - 1) : t = j - 1
    BY <1>0
  <2>2. ex[j] = IF Exceeds(L, I, t, B) THEN 1 ELSE 0
    BY <2>1
  <2> HIDE DEF ex
  <2> QED BY <2>1, <2>2, LargerTop
<1>6. \A j \in 1..D : ex[j] \in {0, 1} /\ ex[j] \in Int
  OBVIOUS
<1>7. \A j \in 1..D :
         H[j] = Power(X, j - 1) * ValueOf(D - (j - 1) + 1, R(j - 1), X)
  BY DEF LargerValues
<1>8. SumTo(D, ex) = IF L > I THEN 1 ELSE 0
  BY <1>0, LargerDigit
<1>9. W[D + 1] = IF L = I THEN 1 ELSE 0
  <2>1. Prefix(L, 0, B) = L /\ Prefix(I, 0, B) = I
    <3>1. 0 \in Nat
      OBVIOUS
    <3> QED BY <1>0, <1>1, <3>1, PrefixStep
  <2>2. D - 0 + 1 = D + 1
    BY <1>0
  <2>3. W[D - 0 + 1] = IF Prefix(L, 0, B) = Prefix(I, 0, B) THEN 1 ELSE 0
    BY <1>0, ProductTop
  <2> QED BY <2>1, <2>2, <2>3
<1> HIDE DEF R, W, M, H, ex
<1>10. Matrix(D, D, M)
  <2>1. ASSUME NEW k \in 1..D, NEW j \in 1..D PROVE M[<<k, j>>] \in Int
    <3>1. k - 1 \in Nat /\ k - (j - 1) \in Int
      BY <1>0
    <3>2. PICK b \in Int, d \in Int : b = R(j - 1)[k - (j - 1)] /\ d = Power(X, k - 1)
      BY <1>5, <3>1, PowerInt DEF Polynomial
    <3>3. b * d \in Int
      OBVIOUS
    <3> QED BY <1>4, <3>2, <3>3
  <2> QED BY <2>1 DEF Matrix
<1>11. ASSUME NEW k \in 1..D
       PROVE  g[k] \in Int /\ h[k] \in Int /\ Same(g[k], h[k], Q)
  <2>1. k - 1 \in Nat /\ k \in Nat /\ k # 0 /\ k \in Int
    BY <1>0
  <2>2. PICK y \in Int, w \in Int : y = Power(X, k - 1) /\ w = W[k]
    BY <1>3, <2>1, PowerInt DEF Polynomial
  <2> DEFINE f == [j \in Nat |-> M[<<k, j>>]]
             u == LargerAt(B, D, s, c, I, k)
  <2>3. \A j \in 1..D : u[j] \in Int
    BY TailSum
  <2>4. ASSUME NEW j \in 1..D PROVE f[j] = y * u[j] + 0 * u[j]
    <3>1. PICK b \in Int : b = u[j]
      BY <2>3
    <3>2. b = R(j - 1)[k - (j - 1)]
      BY <3>1 DEF LargerAt, R
    <3>3. f[j] = b * y
      BY <1>4, <2>2, <3>2
    <3>4. b * y = y * b + 0 * b
      OBVIOUS
    <3> HIDE DEF f, u
    <3> QED BY <3>1, <3>3, <3>4
  <2>5. RowSums(D, M)[k] = SumTo(D, f)
    BY <2>1 DEF RowSums
  <2>6. SumTo(D, f) = y * SumTo(D, u) + 0 * SumTo(D, u)
    <3> HIDE DEF f, u
    <3>1. Combines(D, f, y, u, 0, u)
      BY <2>3, <2>4 DEF Combines
    <3>2. 0 \in Int
      OBVIOUS
    <3> QED BY <1>0, <3>1, <3>2, SumCombine
  <2>7. PICK z \in Int : z = SumTo(D, u)
    <3> HIDE DEF u
    <3> QED BY <1>0, <2>3, SumInt
  <2>8. h[k] = (w + z) * y
    <3>1. Terms(W, X)[k] = w * y
      BY <1>3, <2>1, <2>2, TermIs
    <3>2. RowSums(D, M)[k] = y * z + 0 * z
      BY <2>5, <2>6, <2>7
    <3>3. h[k] = 1 * (w * y) + 1 * (y * z + 0 * z)
      BY <3>1, <3>2
    <3>4. 1 * (w * y) + 1 * (y * z + 0 * z) = (w + z) * y
      OBVIOUS
    <3> QED BY <3>3, <3>4
  <2>9. PICK q \in Int : q = G[k] /\ Same(q, w + z, Q)
    BY <2>2, <2>7 DEF W
  <2>10. g[k] = q * y
    BY <2>2, <2>9
  <2>11. w + z \in Int /\ q * y \in Int /\ (w + z) * y \in Int
    OBVIOUS
  <2>12. Same(q * y, (w + z) * y, Q)
    BY <1>0, <2>9, <2>11, SameProduct
  <2> HIDE DEF g, h
  <2> QED BY <2>8, <2>10, <2>11, <2>12
<1>12. PICK v \in Int, t \in Int, o \in Int :
         v = ValueOf(D, W, X) /\ t = SumTo(D, H) /\ o = SumTo(D, ex)
         /\ \A j \in 1..D : H[j] \in Int
  <2>1. ASSUME NEW j \in 1..D PROVE H[j] \in Int
    <3>1. j - 1 \in Nat /\ D - (j - 1) + 1 \in Nat
      BY <1>0
    <3>2. PICK b \in Int, d \in Int :
            b = Power(X, j - 1) /\ d = ValueOf(D - (j - 1) + 1, R(j - 1), X)
      BY <1>5, <3>1, PowerInt, ValueStep
    <3>3. b * d \in Int
      OBVIOUS
    <3> QED BY <1>7, <3>2, <3>3
  <2>2. SumTo(D, H) \in Int /\ SumTo(D, ex) \in Int
    BY <1>0, <1>6, <2>1, SumInt
  <2> QED BY <1>0, <1>3, <2>1, <2>2, ValueStep
<1>13. ASSUME NEW j \in 1..D
       PROVE  ColumnSums(D, M)[j] = 1 * H[j] + (-p) * ex[j]
  <2>1. PICK t1 \in Nat : t1 = j - 1
    BY <1>0
  <2>2. PICK K \in Nat : K = D - t1 /\ t1 + K = D /\ K + 1 = D - t1 + 1
    <3>1. D - t1 \in Nat /\ t1 + (D - t1) = D
      BY <1>0, <2>1
    <3> QED BY <3>1
  <2>3. PICK b \in Int, d \in Int, z \in Int, y \in Int :
          /\ b = Power(X, t1) /\ d = Power(X, K) /\ z = ValueOf(K, R(t1), X) /\ y = ex[j]
    BY <1>5, <1>6, <2>1, <2>2, PowerInt, ValueStep
  <2>4. p = b * d
    BY <1>2, <2>2, <2>3, PowerSum
  <2> DEFINE f == [k \in Nat |-> M[<<k, j>>]]
  <2>5. ColumnSums(D, M)[j] = SumTo(D, f)
    <3>1. j \in Nat
      OBVIOUS
    <3> QED BY <3>1 DEF ColumnSums
  <2>6. Shifted(f, t1, K, R(t1), X)
    <3>1. ASSUME NEW k \in 1..D PROVE f[k] = R(t1)[k - t1] * Power(X, k - 1)
      BY <1>4, <2>1
    <3> HIDE DEF f
    <3> QED BY <2>2, <3>1 DEF Shifted
  <2>7. SumTo(D, f) = b * z
    <3> HIDE DEF f
    <3> QED BY <1>5, <2>1, <2>2, <2>3, <2>6, ValueShift
  <2>8. ValueOf(K + 1, R(t1), X) = z + y * d
    <3>1. R(t1)[K + 1] = y
      BY <1>5, <2>1, <2>2, <2>3
    <3> QED BY <1>5, <2>1, <2>2, <2>3, <3>1, ValueStep
  <2>9. H[j] = b * (z + y * d)
    BY <1>7, <2>1, <2>2, <2>3, <2>8
  <2>10. b * z = 1 * (b * (z + y * d)) + (-(b * d)) * y
    OBVIOUS
  <2> HIDE DEF f
  <2> QED BY <2>3, <2>4, <2>5, <2>7, <2>9, <2>10
<1>14. SumTo(D, ColumnSums(D, M)) = 1 * t + (-p) * o
  <2>1. Combines(D, ColumnSums(D, M), 1, H, -p, ex)
    BY <1>6, <1>12, <1>13 DEF Combines
  <2>2. 1 \in Int /\ -p \in Int
    OBVIOUS
  <2> QED BY <1>0, <1>12, <2>1, <2>2, SumCombine
<1>15. SumTo(D, h) = 1 * v + 1 * SumTo(D, ColumnSums(D, M))
  <2>1. \A k \in 1..D : Terms(W, X)[k] \in Int
    <3>1. \A k \in 1..D : k \in Nat /\ k # 0
      OBVIOUS
    <3> QED BY <1>3, <3>1, TermIs
  <2>2. Combines(D, h, 1, Terms(W, X), 1, RowSums(D, M))
    BY <1>0, <1>10, <2>1, SumsInt DEF Combines
  <2>3. 1 \in Int
    OBVIOUS
  <2> HIDE DEF h
  <2>4. SumTo(D, h) = 1 * SumTo(D, Terms(W, X)) + 1 * SumTo(D, RowSums(D, M))
    BY <1>0, <2>2, <2>3, SumCombine
  <2> QED BY <1>0, <1>10, <1>12, <2>4, Exchange DEF ValueOf
<1>16. SumTo(D, h) = v + t - p * o
  <2>1. 1 * v + 1 * (1 * t + (-p) * o) = v + t - p * o
    OBVIOUS
  <2> HIDE DEF h
  <2> QED BY <1>14, <1>15, <2>1
<1>17. ValueOf(D + 1, W, X) = v + (IF L = I THEN p ELSE 0)
  <2>1. ValueOf(D + 1, W, X) = v + W[D + 1] * p
    BY <1>0, <1>2, <1>3, <1>12, ValueStep
  <2>2. 1 * p = p /\ 0 * p = 0
    OBVIOUS
  <2> QED BY <1>9, <2>1, <2>2
<1>18. (v + t - p * o) + (IF L >= I THEN p ELSE 0) = (v + (IF L = I THEN p ELSE 0)) + t
  <2>1. CASE L > I
    <3>1. o = 1
      BY <1>8, <1>12, <2>1
    <3>2. L >= I /\ L # I
      BY <1>1, <2>1
    <3>3. (v + t - p * 1) + p = (v + 0) + t
      OBVIOUS
    <3> QED BY <3>1, <3>2, <3>3
  <2>2. CASE ~(L > I)
    <3>1. o = 0
      BY <1>8, <1>12, <2>2
    <3>2. L >= I <=> L = I
      BY <1>1, <2>2
    <3>3. (v + t - p * 0) + p = (v + p) + t /\ (v + t - p * 0) + 0 = (v + 0) + t
      OBVIOUS
    <3> QED BY <3>1, <3>2, <3>3
  <2> QED BY <2>1, <2>2
<1>19. PICK i \in Int, y \in Int : i = SumTo(D, g) /\ y = SumTo(D, h) /\ Same(i, y, Q)
  <2> HIDE DEF g, h
  <2>1. SumTo(D, g) \in Int /\ SumTo(D, h) \in Int /\ Same(SumTo(D, g), SumTo(D, h), Q)
    BY <1>0, <1>11, SumSame, SumInt
  <2> QED BY <2>1
<1>20. PICK z \in Int : z = (IF L >= I THEN p ELSE 0) /\ Same(z, z, Q)
  <2>1. PICK z \in Int : z = (IF L >= I THEN p ELSE 0)
    OBVIOUS
  <2>2. z = z + Q * 0
    BY <1>0
  <2> QED BY <2>1, <2>2 DEF Same
<1>21. Same(i + z, y + z, Q)
  BY <1>0, <1>19, <1>20, SameSum
<1>22. y + z = ValueOf(D + 1, W, X) + t
  <2> HIDE DEF h
  <2> QED BY <1>16, <1>17, <1>18, <1>19, <1>20
<1>23. Same(SumTo(D, g) + (IF L >= I THEN Power(X, D) ELSE 0), ValueOf(D + 1, W, X) + t, Q)
  <2> HIDE DEF g, h
  <2> QED BY <1>2, <1>19, <1>20, <1>21, <1>22
<1> QED BY <1>12, <1>23 DEF W, H

LEMMA PaddedPowerIs ==
    ASSUME NEW s, NEW c, Balanced(n, m, s, c), NEW f, Evaluates(n, m, s, c, x, f),
           N - 1 \in Nat, \A j \in 1..m : LargerValues(n, m, s, c, N - 1, x)[j] \in Int
    PROVE  /\ PaddedPower(f) \in 0..(Q - 1)
           /\ Same(PaddedPower(f),
                   ValueOf(m + 1, Product(n, m, s, c, N - 1)[0], x)
                     + SumTo(m, LargerValues(n, m, s, c, N - 1, x)), Q)
<1>0. m \in Nat /\ x \in Int /\ Q \in Nat \ {0} /\ 0 \in 0..m /\ m - 0 + 1 = m + 1
  BY Order DEF Balanced, Evaluates
<1> DEFINE W == Product(n, m, s, c, N - 1)[0]
           H == LargerValues(n, m, s, c, N - 1, x)
           g == [j \in 1..m |-> LargerPower(f)[j - 1] * Power(x, j - 1) * AbovePower(f)[j]]
<1>1. PICK y \in Int, v \in Int :
        y = AbovePower(f)[0] /\ v = ValueOf(m + 1, W, x) /\ Same(y, v, Q)
  <2>1. W \in Polynomial /\ m + 1 \in Nat
    BY <1>0, ProductDegree
  <2>2. AbovePower(f)[0] \in Int /\ Same(AbovePower(f)[0], ValueOf(m - 0 + 1, W, x), Q)
    BY <1>0, AbovePowerIs
  <2> QED BY <1>0, <2>1, <2>2, ValueStep
<1>2. ASSUME NEW j \in 1..m
      PROVE  g[j] \in Int /\ H[j] \in Int /\ Same(g[j], H[j], Q)
  <2>1. PICK t \in 0..(m - 1) : t = j - 1
    BY <1>0
  <2>2. t + 1 = j /\ t \in Nat /\ j \in 0..m /\ m - t + 1 \in Nat
    BY <1>0, <2>1
  <2>3. PICK b \in Int, d \in Int, p \in Int, e \in Int :
          /\ b = LargerPower(f)[t] /\ d = AbovePower(f)[j] /\ p = Power(x, t)
          /\ e = ValueOf(m - t + 1, LargerProduct(n, m, s, c, N - 1, t), x)
          /\ Same(d * b, e, Q)
    <3>1. LargerPower(f)[t] \in Int
      BY LargerPowerIs
    <3>2. Same(AbovePower(f)[t + 1] * LargerPower(f)[t],
               ValueOf(m - t + 1, LargerProduct(n, m, s, c, N - 1, t), x), Q)
      BY LargerPowerIs
    <3>3. AbovePower(f)[j] \in Int
      BY <2>2, AbovePowerIs
    <3>4. Power(x, t) \in Int
      BY <1>0, <2>2, PowerInt
    <3>5. ValueOf(m - t + 1, LargerProduct(n, m, s, c, N - 1, t), x) \in Int
      BY <1>0, <2>2, LargerIs, ValueStep
    <3> QED BY <2>2, <3>1, <3>2, <3>3, <3>4, <3>5
  <2>4. g[j] = b * p * d
    BY <2>1, <2>3
  <2>5. H[j] = p * e
    BY <2>1, <2>3 DEF LargerValues
  <2>6. b * p * d = (d * b) * p /\ p * e = e * p /\ d * b \in Int /\ (d * b) * p \in Int
        /\ e * p \in Int
    OBVIOUS
  <2>7. Same((d * b) * p, e * p, Q)
    BY <1>0, <2>3, <2>6, SameProduct
  <2> HIDE DEF g, H
  <2> QED BY <2>4, <2>5, <2>6, <2>7
<1>3. PICK z \in Int, w \in Int : z = SumTo(m, g) /\ w = SumTo(m, H) /\ Same(z, w, Q)
  <2> HIDE DEF g, H
  <2>1. SumTo(m, g) \in Int /\ SumTo(m, H) \in Int /\ Same(SumTo(m, g), SumTo(m, H), Q)
    BY <1>0, <1>2, SumSame, SumInt
  <2> QED BY <2>1
<1>4. PaddedPower(f) = (y + z) % Q
  BY <1>1, <1>3 DEF PaddedPower
<1>5. Same(y + z, v + w, Q)
  BY <1>0, <1>1, <1>3, SameSum
<1>6. Same((y + z) % Q, y + z, Q) /\ (y + z) % Q \in Int /\ (y + z) % Q \in 0..(Q - 1)
  BY RestQ
<1>7. Same((y + z) % Q, v + w, Q)
  BY <1>0, <1>5, <1>6, SameTrans
<1> QED BY <1>1, <1>3, <1>4, <1>6, <1>7 DEF W, H

\* The verifier's column 0.
LEMMA FullIs ==
    ASSUME Balanced(n, m, sigma, a), n - 1 \in Nat, x \in Int,
           proof.f = [p \in {q \in Cells : q[2] > 0} |-> (sigma[p] * x + a[p]) % Q]
    PROVE  Evaluates(n, m, sigma, a, x, FullF)
<1>0. n \in Nat \ {0} /\ m \in Nat /\ Q \in Nat \ {0} /\ 1 + (n - 1) = n /\ 1 \in 1..n
  BY Order DEF Balanced
<1>1. ASSUME NEW j \in 0..(m - 1), NEW d \in 0..(n - 1)
      PROVE  /\ <<j, d>> \in Cells /\ sigma[<<j, d>>] \in Int /\ a[<<j, d>>] \in Int
             /\ sigma[<<j, d>>] * x + a[<<j, d>>] \in Int
  <2>1. PICK b \in Int, e \in Int : b = sigma[<<j, d>>] /\ e = a[<<j, d>>]
    BY DEF Balanced
  <2>2. b * x + e \in Int
    BY <1>0
  <2> QED BY <2>1, <2>2 DEF Cells, Digits
<1>2. ASSUME NEW j \in 0..(m - 1), NEW d \in 1..(n - 1)
      PROVE  /\ proof.f[<<j, d>>] \in Int
             /\ Same(proof.f[<<j, d>>], sigma[<<j, d>>] * x + a[<<j, d>>], Q)
             /\ FullF[<<j, d>>] = proof.f[<<j, d>>]
  <2>1. d \in 0..(n - 1) /\ d > 0
    BY <1>0
  <2>2. PICK z \in Int : z = sigma[<<j, d>>] * x + a[<<j, d>>]
    BY <1>1, <2>1
  <2>3. <<j, d>> \in {q \in Cells : q[2] > 0} /\ <<j, d>> \in Cells
    BY <1>1, <2>1
  <2>4. proof.f[<<j, d>>] = z % Q
    BY <2>2, <2>3
  <2>5. Same(z % Q, z, Q) /\ z % Q \in Int
    BY RestQ
  <2>6. FullF[<<j, d>>] = proof.f[<<j, d>>]
    BY <2>1, <2>3 DEF FullF
  <2> QED BY <2>2, <2>4, <2>5, <2>6
<1>3. ASSUME NEW j \in 0..(m - 1)
      PROVE  /\ FullF[<<j, 0>>] \in Int
             /\ Same(FullF[<<j, 0>>], sigma[<<j, 0>>] * x + a[<<j, 0>>], Q)
  <2> DEFINE g == [i \in 1..(n - 1) |-> proof.f[<<j, i>>]]
             u == [i \in 1..n |-> x * Row(sigma, n, j)[i] + 1 * Row(a, n, j)[i]]
             v == [i \in 1..(n - 1) |-> u[1 + i]]
  <2>1. ASSUME NEW d \in 0..(n - 1)
        PROVE  u[d + 1] = sigma[<<j, d>>] * x + a[<<j, d>>] /\ u[d + 1] \in Int
    <3>1. d + 1 \in 1..n /\ (d + 1) - 1 = d
      BY <1>0
    <3>2. PICK b \in Int, e \in Int : b = sigma[<<j, d>>] /\ e = a[<<j, d>>]
      BY <1>1
    <3>3. Row(sigma, n, j)[d + 1] = b /\ Row(a, n, j)[d + 1] = e
      BY <3>1, <3>2 DEF Row
    <3>4. u[d + 1] = x * b + 1 * e
      BY <3>1, <3>3
    <3>5. x * b + 1 * e = b * x + e /\ b * x + e \in Int
      BY <1>0
    <3> HIDE DEF u
    <3> QED BY <3>2, <3>4, <3>5
  <2>2. ASSUME NEW i \in 1..(n - 1)
        PROVE  g[i] \in Int /\ v[i] \in Int /\ Same(g[i], v[i], Q)
    <3>1. i \in 0..(n - 1) /\ 1 + i = i + 1
      BY <1>0
    <3>2. v[i] = u[i + 1] /\ g[i] = proof.f[<<j, i>>]
      BY <3>1
    <3> HIDE DEF g, v, u
    <3> QED BY <1>2, <2>1, <3>1, <3>2
  <2>3. PICK y \in Int, z \in Int :
          y = SumTo(n - 1, g) /\ z = SumTo(n - 1, v) /\ Same(y, z, Q)
    <3> HIDE DEF g, v
    <3>1. SumTo(n - 1, g) \in Int /\ SumTo(n - 1, v) \in Int
          /\ Same(SumTo(n - 1, g), SumTo(n - 1, v), Q)
      BY <1>0, <2>2, SumSame, SumInt
    <3> QED BY <3>1
  <2>4. \A i \in 1..n : u[i] \in Int
    <3>1. ASSUME NEW i \in 1..n PROVE u[i] \in Int
      <4>1. PICK d \in 0..(n - 1) : d + 1 = i
        <5>1. i - 1 \in 0..(n - 1) /\ (i - 1) + 1 = i
          BY <1>0
        <5> QED BY <5>1
      <4> HIDE DEF u
      <4> QED BY <2>1, <4>1
    <3> QED BY <3>1
  <2>5. PICK w \in Int : w = u[1] /\ w = sigma[<<j, 0>>] * x + a[<<j, 0>>]
    <3>1. 0 \in 0..(n - 1) /\ 0 + 1 = 1
      BY <1>0
    <3> HIDE DEF u
    <3> QED BY <2>1, <3>1
  <2>6. SumTo(n, u) = w + z
    <3>1. Follows(1, n - 1, u, v)
      BY DEF Follows
    <3> HIDE DEF u, v
    <3>2. SumTo(1 + (n - 1), u) = SumTo(1, u) + SumTo(n - 1, v)
      <4>1. \A i \in 1..(1 + (n - 1)) : u[i] \in Int
        BY <1>0, <2>4
      <4>2. 1 \in Nat
        OBVIOUS
      <4> QED BY <1>0, <3>1, <4>1, <4>2, SumConcat
    <3>3. SumTo(1, u) = u[1]
      BY <2>5, SumSmall
    <3> QED BY <1>0, <2>3, <2>5, <3>2, <3>3
  <2>7. SumTo(n, u) = x * SumTo(n, Row(sigma, n, j)) + 1 * SumTo(n, Row(a, n, j))
    <3>1. Combines(n, u, x, Row(sigma, n, j), 1, Row(a, n, j))
      BY RowInt DEF Combines
    <3>2. 1 \in Int /\ n \in Nat
      BY <1>0
    <3> HIDE DEF u
    <3> QED BY <3>1, <3>2, SumCombine
  <2>8. PICK b \in Int, d \in Int :
          b = SumTo(n, Row(sigma, n, j)) /\ d = SumTo(n, Row(a, n, j))
    BY <1>0, RowInt, SumInt
  <2>9. PICK i \in Int, k \in Int : b = 1 + Q * i /\ d = 0 + Q * k
    <3>1. Same(b, 1, Q) /\ Same(d, 0, Q)
      BY <2>8 DEF Balanced
    <3> QED BY <3>1 DEF Same
  <2>10. w + z = x * b + 1 * d
    <3> HIDE DEF u
    <3> QED BY <2>6, <2>7, <2>8
  <2>11. PICK o \in Int : o = x * i + k
    BY <1>0
  <2>12. x - z = w + Q * (-o)
    <3>1. PICK e \in Int, ee \in Int : e = Q * i /\ ee = Q * k
      BY <1>0
    <3>2. x * b = x + x * e
      BY <2>9, <3>1
    <3>3. PICK xe \in Int : xe = x * e
      BY <3>1
    <3>4. x * i \in Int
      BY <1>0
    <3>5. PICK xi \in Int : xi = x * i
      BY <3>4
    <3>6. Q * (-o) = -(xe + ee)
      <4>1. xe = Q * xi
        BY <1>0, <3>1, <3>3, <3>5
      <4>2. o = xi + k
        BY <2>11, <3>5
      <4>3. Q * (-(xi + k)) = -(Q * xi + Q * k)
        BY <1>0
      <4> QED BY <3>1, <4>1, <4>2, <4>3
    <3>7. w + z = x + xe + ee
      BY <2>9, <2>10, <3>1, <3>2, <3>3
    <3> QED BY <3>6, <3>7
  <2>13. Same(x - z, w, Q)
    <3>1. -o \in Int
      OBVIOUS
    <3> QED BY <2>12, <3>1 DEF Same
  <2>14. Same(x - y, x - z, Q)
    <3>1. Same(x, x, Q)
      <4>1. x = x + Q * 0
        BY <1>0
      <4> QED BY <4>1 DEF Same
    <3> QED BY <1>0, <2>3, <3>1, SameSum
  <2>15. PICK k1 \in Int, k2 \in Int : k1 = x - y /\ k2 = x - z
    OBVIOUS
  <2>16. Same(k1 % Q, k1, Q) /\ k1 % Q \in Int
    BY RestQ
  <2>17. Same(k1 % Q, w, Q)
    <3>1. Same(k1, w, Q)
      BY <1>0, <2>13, <2>14, <2>15, SameTrans
    <3> QED BY <1>0, <2>16, <3>1, SameTrans
  <2>18. FullF[<<j, 0>>] = k1 % Q
    <3>1. <<j, 0>> \in Cells /\ ~(0 > 0)
      <4>1. 0 \in 0..(n - 1)
        BY <1>0
      <4> QED BY <1>1, <4>1
    <3>2. FullF[<<j, 0>>]
            = (x - SumTo(n - 1, [i1 \in 1..(n - 1) |-> proof.f[<<j, i1>>]])) % Q
      BY <3>1 DEF FullF
    <3> QED BY <2>3, <2>15, <3>2
  <2> QED BY <2>5, <2>16, <2>17, <2>18
<1>4. ASSUME NEW j \in 0..(m - 1), NEW d \in 0..(n - 1)
      PROVE  /\ FullF[<<j, d>>] \in Int
             /\ Same(FullF[<<j, d>>], sigma[<<j, d>>] * x + a[<<j, d>>], Q)
  <2>1. CASE d = 0
    BY <1>3, <2>1
  <2>2. CASE d # 0
    <3>1. d \in 1..(n - 1)
      BY <1>0, <2>2
    <3> QED BY <1>2, <3>1
  <2> QED BY <2>1, <2>2
<1> QED BY <1>4 DEF Evaluates

\* The values of the places' polynomials, from the lowest coefficients and
\* the highest.
LEMMA PlaceValue ==
    ASSUME NEW B, NEW D, NEW s, NEW c, Balanced(B, D, s, c),
           NEW L \in 0..(Power(B, D) - 1), Bits(B, D, L, s),
           NEW I \in 0..(Power(B, D) - 1), NEW X \in Int, NEW G,
           Matches(G, D + 1, Product(B, D, s, c, I)[0])
    PROVE  Same(SumTo(D, [k \in 1..D |-> G[k] * Power(X, k - 1)])
                  + (IF L = I THEN Power(X, D) ELSE 0),
                ValueOf(D + 1, Product(B, D, s, c, I)[0], X), Q)
<1>0. B \in Nat \ {0} /\ D \in Nat /\ Q \in Nat \ {0} /\ 0 \in 0..D
  BY Order DEF Balanced
<1>1. Power(B, D) \in Nat /\ I \in Nat /\ L \in Nat
  BY <1>0, PowerNat
<1> DEFINE W == Product(B, D, s, c, I)[0]
           g == [k \in 1..D |-> G[k] * Power(X, k - 1)]
<1>2. PICK p \in Int : p = Power(X, D)
  BY <1>0, PowerInt
<1>3. W \in Polynomial
  BY <1>0, <1>1, ProductDegree
<1>4. W[D + 1] = IF L = I THEN 1 ELSE 0
  <2>1. Prefix(L, 0, B) = L /\ Prefix(I, 0, B) = I
    <3>1. 0 \in Nat
      OBVIOUS
    <3> QED BY <1>0, <1>1, <3>1, PrefixStep
  <2>2. D - 0 + 1 = D + 1
    BY <1>0
  <2>3. W[D - 0 + 1] = IF Prefix(L, 0, B) = Prefix(I, 0, B) THEN 1 ELSE 0
    BY <1>0, ProductTop
  <2> QED BY <2>1, <2>2, <2>3
<1>5. ASSUME NEW k \in 1..D
      PROVE  g[k] \in Int /\ Terms(W, X)[k] \in Int /\ Same(g[k], Terms(W, X)[k], Q)
  <2>1. k \in Nat /\ k # 0 /\ k \in 1..(D + 1) /\ k \in Int
    BY <1>0
  <2>2. PICK b \in Int, d \in Int, y \in Int :
          b = G[k] /\ d = W[k] /\ y = Power(X, k - 1) /\ Same(b, d, Q)
    <3>1. Power(X, k - 1) \in Int /\ W[k] \in Int
      BY <1>3, <2>1, TermIs
    <3>2. G[k] \in Int /\ Same(G[k], W[k], Q)
      BY <2>1 DEF Matches
    <3> QED BY <3>1, <3>2
  <2>3. Terms(W, X)[k] = d * y
    BY <1>3, <2>1, <2>2, TermIs
  <2>4. Same(b * y, d * y, Q)
    BY <1>0, <2>2, SameProduct
  <2>5. b * y \in Int /\ d * y \in Int
    OBVIOUS
  <2> QED BY <2>2, <2>3, <2>4, <2>5
<1> HIDE DEF W
<1>6. PICK y \in Int, v \in Int : y = SumTo(D, g) /\ v = ValueOf(D, W, X) /\ Same(y, v, Q)
  <2> HIDE DEF g
  <2>1. SumTo(D, g) \in Int /\ Same(SumTo(D, g), SumTo(D, Terms(W, X)), Q)
    BY <1>0, <1>5, SumSame, SumInt
  <2> QED BY <1>0, <1>3, <2>1, ValueStep DEF ValueOf
<1>7. PICK z \in Int : z = (IF L = I THEN p ELSE 0) /\ Same(z, z, Q)
  <2>1. PICK z \in Int : z = (IF L = I THEN p ELSE 0)
    OBVIOUS
  <2>2. z = z + Q * 0
    BY <1>0
  <2> QED BY <2>1, <2>2 DEF Same
<1>8. ValueOf(D + 1, W, X) = v + z
  <2>1. ValueOf(D + 1, W, X) = v + W[D + 1] * p
    BY <1>0, <1>2, <1>3, <1>6, ValueStep
  <2>2. 1 * p = p /\ 0 * p = 0
    OBVIOUS
  <2> QED BY <1>4, <1>7, <2>1, <2>2
<1>9. Same(y + z, v + z, Q)
  BY <1>0, <1>6, <1>7, SameSum
<1>10. Same(SumTo(D, g) + (IF L = I THEN Power(X, D) ELSE 0), ValueOf(D + 1, W, X), Q)
  <2> HIDE DEF g
  <2> QED BY <1>2, <1>6, <1>7, <1>8, <1>9
<1> QED BY <1>10 DEF W

LEMMA LowestInt ==
    ASSUME NEW P, NEW i, NEW X \in Int, NEW D \in Nat, \A k \in 1..D : P[i][k] \in Int
    PROVE  Lowest(P, i, X, D) \in Int
<1> DEFINE g == [k \in 1..D |-> P[i][k] * Power(X, k - 1)]
<1>1. ASSUME NEW k \in 1..D PROVE g[k] \in Int
  <2>1. k - 1 \in Nat
    OBVIOUS
  <2>2. PICK b \in Int, d \in Int : b = P[i][k] /\ d = Power(X, k - 1)
    BY <2>1, PowerInt
  <2>3. b * d \in Int
    OBVIOUS
  <2> QED BY <2>2, <2>3
<1> HIDE DEF g
<1>2. SumTo(D, g) \in Int
  BY <1>1, SumInt
<1> QED BY <1>2 DEF Lowest, g

LEMMA CoefsInt ==
    ASSUME NEW B, NEW D \in Nat, NEW M \in Nat, NEW s, NEW c, NEW P,
           Coefs(B, D, M, s, c, P), NEW i \in 1..M
    PROVE  \A k \in 1..D : P[i][k] \in Int
<1>1. CASE i = M
  BY <1>1, Order DEF Coefs
<1>2. CASE i # M
  <2>1. i \in 1..(M - 1)
    BY <1>2
  <2>2. \A k \in 1..D : k \in 1..(D + 1)
    OBVIOUS
  <2> QED BY <2>1, <2>2 DEF Coefs, Matches
<1> QED BY <1>1, <1>2

LEMMA SidesAre ==
    ASSUME InstanceInv, Drawn(n, m, l, sigma, a), Coefs(n, m, N, sigma, a, P_i_k), x \in Int,
           Evaluates(n, m, sigma, a, x, FullF), NEW i \in 1..N
    PROVE  /\ f_i_[i] \in 0..(Q - 1)
           /\ Lowest(P_i_k, i, x, m) \in Int /\ Power(x, m) \in Int
           /\ Same(f_i_[i], Lowest(P_i_k, i, x, m)
                              + (IF i - 1 = Place THEN Power(x, m) ELSE 0), Q)
<1>0. /\ n \in Nat \ {0} /\ m \in Nat /\ m # 0 /\ N \in Nat /\ N - 1 \in Nat /\ l \in Nat
      /\ Power(n, m) \in Nat /\ N - 1 \in 0..(Power(n, m) - 1) /\ l \in 0..(Power(n, m) - 1)
      /\ Balanced(n, m, sigma, a) /\ Bits(n, m, l, sigma) /\ Q \in Nat \ {0}
  BY InstanceIs, Order DEF InstanceInv, Drawn
<1>1. PICK p \in Int, y \in Int : p = Power(x, m) /\ y = Lowest(P_i_k, i, x, m)
  <2>1. \A k \in 1..m : P_i_k[i][k] \in Int
    BY <1>0, CoefsInt
  <2> QED BY <1>0, <2>1, PowerInt, LowestInt
<1> DEFINE top == IF i - 1 = Place THEN p ELSE 0
<1>2. PICK z \in Int : z = top
  OBVIOUS
<1>3. CASE i < N
  <2>1. PICK I \in 0..(Power(n, m) - 1) : I = i - 1 /\ I \in Nat
    <3>1. i - 1 \in Nat /\ i - 1 \in 0..(Power(n, m) - 1)
      BY <1>0, <1>3
    <3> QED BY <3>1
  <2>2. f_i_[i] = PowerAt(FullF, I)
    BY <1>3, <2>1 DEF f_i_
  <2>3. PICK v \in Int, w \in Int :
          /\ v = PowerAt(FullF, I) /\ w = ValueOf(m + 1, Product(n, m, sigma, a, I)[0], x)
          /\ Same(v, w, Q) /\ v \in 0..(Q - 1)
    <3>1. /\ PowerAt(FullF, I) \in Int /\ PowerAt(FullF, I) \in 0..(Q - 1)
          /\ Same(PowerAt(FullF, I), ValueOf(m + 1, Product(n, m, sigma, a, I)[0], x), Q)
      BY <1>0, <2>1, PowerAtIs
    <3>2. Product(n, m, sigma, a, I)[0] \in Polynomial
      <4>1. 0 \in 0..m
        BY <1>0
      <4> QED BY <1>0, <2>1, <4>1, ProductDegree
    <3>3. m + 1 \in Nat
      BY <1>0
    <3> QED BY <3>1, <3>2, <3>3, ValueStep
  <2>4. Matches(P_i_k[i], m + 1, Product(n, m, sigma, a, I)[0])
    <3>1. i \in 1..(N - 1)
      BY <1>0, <1>3
    <3> QED BY <2>1, <3>1 DEF Coefs
  <2>5. Same(y + (IF l = I THEN p ELSE 0), w, Q)
    BY <1>0, <1>1, <2>3, <2>4, PlaceValue DEF Lowest
  <2>6. l = I <=> i - 1 = Place
    BY <1>0, <1>3, <2>1 DEF Place
  <2>7. Same(y + z, w, Q) /\ y + z \in Int
    BY <1>2, <2>5, <2>6
  <2>8. Same(w, y + z, Q)
    BY <1>0, <2>3, <2>7, SameReverse
  <2>9. Same(v, y + z, Q)
    BY <1>0, <2>3, <2>7, <2>8, SameTrans
  <2> QED BY <1>1, <1>2, <2>2, <2>3, <2>9
<1>4. CASE ~(i < N)
  <2>1. i = N /\ N \in 1..N
    BY <1>0, <1>4
  <2>2. f_i_[i] = PaddedPower(FullF)
    BY <1>4, <2>1 DEF f_i_
  <2>3. \A k \in 1..m :
          /\ P_i_k[i][k] \in Int
          /\ Same(P_i_k[i][k], Product(n, m, sigma, a, N - 1)[0][k]
                                 + SumTo(m, LargerAt(n, m, sigma, a, N - 1, k)), Q)
    BY <1>0, <2>1, CoefsInt DEF Coefs
  <2>4. /\ \A j \in 1..m : LargerValues(n, m, sigma, a, N - 1, x)[j] \in Int
        /\ Same(y + (IF l >= N - 1 THEN p ELSE 0),
                ValueOf(m + 1, Product(n, m, sigma, a, N - 1)[0], x)
                  + SumTo(m, LargerValues(n, m, sigma, a, N - 1, x)), Q)
    BY <1>0, <1>1, <2>3, PaddedValue DEF Lowest
  <2>5. PICK w \in Int :
          /\ w = ValueOf(m + 1, Product(n, m, sigma, a, N - 1)[0], x)
                  + SumTo(m, LargerValues(n, m, sigma, a, N - 1, x))
    <3>1. SumTo(m, LargerValues(n, m, sigma, a, N - 1, x)) \in Int
      BY <1>0, <2>4, SumInt
    <3>2. Product(n, m, sigma, a, N - 1)[0] \in Polynomial
      <4>1. 0 \in 0..m
        BY <1>0
      <4> QED BY <1>0, <4>1, ProductDegree
    <3>3. m + 1 \in Nat
      BY <1>0
    <3> QED BY <3>1, <3>2, <3>3, ValueStep
  <2>6. PICK v \in Int : v = PaddedPower(FullF) /\ v \in 0..(Q - 1) /\ Same(v, w, Q)
    <3>1. PaddedPower(FullF) \in 0..(Q - 1) /\ Same(PaddedPower(FullF), w, Q)
      BY <1>0, <2>4, <2>5, PaddedPowerIs
    <3> QED BY <1>0, <3>1
  <2>7. l >= N - 1 <=> i - 1 = Place
    BY <1>0, <2>1 DEF Place
  <2>8. Same(y + z, w, Q) /\ y + z \in Int
    BY <1>2, <2>4, <2>5, <2>7
  <2>9. Same(w, y + z, Q)
    BY <1>0, <2>5, <2>8, SameReverse
  <2>10. Same(v, y + z, Q)
    BY <1>0, <2>6, <2>8, <2>9, SameTrans
  <2> QED BY <1>1, <1>2, <2>2, <2>6, <2>10
<1> QED BY <1>3, <1>4

-----------------------------------------------------------------------------
(* Points.                                                                 *)

G0 == <<"g", 0, 0>>
H0 == <<"h", 0, 0>>

LEMMA GeneratorIs ==
    ASSUME NEW y \in Generators
    PROVE  \/ y = G0
           \/ \E j \in Digits, d \in 0..(n - 1) : y = <<"h", j, d>>
           \/ \E i \in Places : y = <<"c", i, 0>>
BY DEF Generators, Cells, G0

LEMMA CellsAre ==
    ASSUME NEW e, NEW w
    PROVE  /\ CommitCells(e, w)[G0] = w % Q
           /\ \A j \in Digits, d \in 0..(n - 1) :
                CommitCells(e, w)[<<"h", j, d>>] = e[<<j, d>>] % Q
           /\ \A i \in Places : CommitCells(e, w)[<<"c", i, 0>>] = 0
<1>1. /\ G0 \in Generators
      /\ \A j \in Digits, d \in 0..(n - 1) : <<"h", j, d>> \in Generators
      /\ \A i \in Places : <<"c", i, 0>> \in Generators
  <2>1. \A j \in Digits, d \in 0..(n - 1) : <<"h", j, d>> \in Generators
    <3>1. ASSUME NEW j \in Digits, NEW d \in 0..(n - 1) PROVE <<"h", j, d>> \in Generators
      <4>1. <<j, d>> \in Cells /\ <<j, d>>[1] = j /\ <<j, d>>[2] = d
        BY DEF Cells
      <4> QED BY <4>1 DEF Generators
    <3> QED BY <3>1
  <2> QED BY <2>1 DEF Generators, G0
<1>2. CommitCells(e, w)[G0] = w % Q
  BY <1>1 DEF CommitCells, G0
<1>3. \A j \in Digits, d \in 0..(n - 1) :
        CommitCells(e, w)[<<"h", j, d>>] = e[<<j, d>>] % Q
  BY <1>1 DEF CommitCells
<1>4. \A i \in Places : CommitCells(e, w)[<<"c", i, 0>>] = 0
  BY <1>1 DEF CommitCells
<1> QED BY <1>2, <1>3, <1>4

LEMMA RestLinear ==
    ASSUME NEW u \in Int, NEW X \in Int, NEW v \in Int, NEW w \in Int,
           Same(u * X + v, w, Q)
    PROVE  ((((u % Q) * X) % Q) + (v % Q)) % Q = w % Q
<1>0. Q \in Nat \ {0}
  BY Order
<1>1. PICK u1 \in Int, v1 \in Int :
        u1 = u % Q /\ v1 = v % Q /\ Same(u1, u, Q) /\ Same(v1, v, Q)
  BY RestQ
<1>2. PICK y \in Int, z \in Int : y = u1 * X /\ z = u * X /\ Same(y, z, Q)
  <2>1. u1 * X \in Int /\ u * X \in Int
    OBVIOUS
  <2> QED BY <1>0, <1>1, <2>1, SameProduct
<1>3. PICK y1 \in Int : y1 = y % Q /\ Same(y1, y, Q)
  BY RestQ
<1>4. Same(y1, z, Q)
  BY <1>0, <1>2, <1>3, SameTrans
<1>5. Same(y1 + v1, z + v, Q)
  BY <1>0, <1>1, <1>4, SameSum
<1>6. PICK t \in Int, o \in Int : t = y1 + v1 /\ o = z + v
  OBVIOUS
<1>7. Same(t, w, Q)
  <2>1. Same(o, w, Q) /\ Same(t, o, Q)
    BY <1>2, <1>5, <1>6
  <2> QED BY <1>0, <2>1, SameTrans
<1>8. t % Q = w % Q
  BY <1>0, <1>7, SameMod
<1> QED BY <1>1, <1>2, <1>3, <1>6, <1>8

Linear(e1, e2, e3, X) ==
    \A j \in Digits, d \in 0..(n - 1) :
        /\ e1[<<j, d>>] \in Int /\ e2[<<j, d>>] \in Int /\ e3[<<j, d>>] \in Int
        /\ Same(e1[<<j, d>>] * X + e2[<<j, d>>], e3[<<j, d>>], Q)

LEMMA CommitLinear ==
    ASSUME NEW e1, NEW e2, NEW e3, NEW X \in Int, Linear(e1, e2, e3, X),
           NEW r1 \in Int, NEW r2 \in Int, NEW r3 \in Int, Same(r1 * X + r2, r3, Q)
    PROVE  Plus(Times(CommitCells(e1, r1), X), CommitCells(e2, r2)) = CommitCells(e3, r3)
<1> DEFINE p1 == CommitCells(e1, r1)
           p2 == CommitCells(e2, r2)
           p3 == CommitCells(e3, r3)
           L == Plus(Times(p1, X), p2)
<1>1. L = [y \in Generators |-> (((p1[y] * X) % Q) + p2[y]) % Q]
  BY DEF Plus, Times
<1>2. p3 = [y \in Generators |-> p3[y]]
  BY DEF CommitCells
<1>3. ASSUME NEW y \in Generators
      PROVE  (((p1[y] * X) % Q) + p2[y]) % Q = p3[y]
  <2>1. CASE y = G0
    <3>1. p1[y] = r1 % Q /\ p2[y] = r2 % Q /\ p3[y] = r3 % Q
      BY <2>1, CellsAre
    <3> HIDE DEF p1, p2, p3
    <3> QED BY <3>1, RestLinear
  <2>2. CASE \E j \in Digits, d \in 0..(n - 1) : y = <<"h", j, d>>
    <3>1. PICK j \in Digits, d \in 0..(n - 1) : y = <<"h", j, d>>
      BY <2>2
    <3>2. /\ p1[y] = e1[<<j, d>>] % Q /\ p2[y] = e2[<<j, d>>] % Q
          /\ p3[y] = e3[<<j, d>>] % Q
      BY <3>1, CellsAre
    <3>3. PICK u \in Int, v \in Int, w \in Int :
            u = e1[<<j, d>>] /\ v = e2[<<j, d>>] /\ w = e3[<<j, d>>] /\ Same(u * X + v, w, Q)
      BY DEF Linear
    <3> HIDE DEF p1, p2, p3
    <3> QED BY <3>2, <3>3, RestLinear
  <2>3. CASE \E i \in Places : y = <<"c", i, 0>>
    <3>1. p1[y] = 0 /\ p2[y] = 0 /\ p3[y] = 0
      BY <2>3, CellsAre
    <3>2. 0 \in 0..(Q - 1) /\ 0 = Q * 0 + 0 /\ Q \in Nat \ {0}
      BY Order
    <3>3. 0 % Q = 0
      BY <3>2, DivUnique
    <3>4. 0 * X = 0 /\ 0 + 0 = 0
      OBVIOUS
    <3> HIDE DEF p1, p2, p3
    <3> QED BY <3>1, <3>3, <3>4
  <2> QED BY <2>1, <2>2, <2>3, GeneratorIs
<1> HIDE DEF p1, p2, p3, L
<1>4. [y \in Generators |-> (((p1[y] * X) % Q) + p2[y]) % Q] = [y \in Generators |-> p3[y]]
  BY <1>3
<1>5. L = p3
  BY <1>1, <1>2, <1>4
<1> QED BY <1>5 DEF L, p1, p2, p3

-----------------------------------------------------------------------------
(* The proof that the verifier gets.                                       *)

Fields == {"A", "B", "C", "D", "Gk", "f", "ZA", "ZC", "z"}
\* Points of the same instance are the same.
LEMMA SamePoints ==
    ASSUME n' = n, m' = m, N' = N, l' = l, r' = r, exponent' = exponent, value' = value
    PROVE  /\ Cells' = Cells /\ Generators' = Generators /\ commits' = commits
<1>1. Cells' = Cells /\ Places' = Places /\ Place' = Place
  BY DEF Cells, Digits, Places, Place
<1>2. Generators' = Generators
  BY <1>1 DEF Generators
<1>3. CommitZero(exponent)' = CommitZero(exponent)
  BY <1>2 DEF CommitZero
<1>4. commits' = commits
  BY <1>1, <1>2, <1>3 DEF commits
<1> QED BY <1>1, <1>2, <1>4

Committed(s, c, b, p, P) ==
    /\ b \in [1..4 -> Int] /\ p \in [1..m -> Int]
    /\ DOMAIN proof = Fields
    /\ proof.A = CommitCells(c, b[1])
    /\ proof.B = CommitCells(s, b[2])
    /\ proof.C = CommitCells([q \in Cells |-> (c[q] * (1 - 2 * s[q])) % Q], b[3])
    /\ proof.D = CommitCells([q \in Cells |-> (-(c[q] * c[q])) % Q], b[4])
    /\ proof.Gk = [k \in 1..m |->
         Plus(MultiExponent(commits, [i \in 1..N |-> P[i][k]]), CommitZero(p[k]))]
Responded(s, c, b, X) ==
    /\ X \in Challenges
    /\ proof.f = [p \in {q \in Cells : q[2] > 0} |-> (s[p] * X + c[p]) % Q]
    /\ proof.ZA = (b[2] * X + b[1]) % Q
    /\ proof.ZC = (b[3] * X + b[4]) % Q
    /\ proof.z = Final(X)
ProofInv ==
    /\ phase \in {"start", "respond", "verify", "done"}
    /\ DOMAIN proof = Fields
    /\ phase # "start" => Committed(sigma, a, blind, Pk, P_i_k)
    /\ phase \in {"verify", "done"} => Responded(sigma, a, blind, x)
    /\ phase # "done" => verdict = "none"

LEMMA ProofInitial == Init => ProofInv
BY DEF Init, ProofInv, NoProof, Fields

LEMMA CommittedSame ==
    ASSUME n' = n, m' = m, N' = N, l' = l, r' = r, exponent' = exponent, value' = value,
           sigma' = sigma, a' = a, blind' = blind, Pk' = Pk, P_i_k' = P_i_k,
           DOMAIN proof' = Fields,
           proof'.A = proof.A, proof'.B = proof.B, proof'.C = proof.C, proof'.D = proof.D,
           proof'.Gk = proof.Gk, Committed(sigma, a, blind, Pk, P_i_k)
    PROVE  Committed(sigma, a, blind, Pk, P_i_k)'
<1>1. Cells' = Cells /\ Generators' = Generators /\ commits' = commits
  BY SamePoints
<1>2. CommitCells(a, blind[1])' = CommitCells(a, blind[1])
      /\ CommitCells(sigma, blind[2])' = CommitCells(sigma, blind[2])
  BY <1>1 DEF CommitCells
<1>3. CommitCells([q \in Cells |-> (a[q] * (1 - 2 * sigma[q])) % Q], blind[3])'
        = CommitCells([q \in Cells |-> (a[q] * (1 - 2 * sigma[q])) % Q], blind[3])
  BY <1>1 DEF CommitCells
<1>4. CommitCells([q \in Cells |-> (-(a[q] * a[q])) % Q], blind[4])'
        = CommitCells([q \in Cells |-> (-(a[q] * a[q])) % Q], blind[4])
  BY <1>1 DEF CommitCells
<1>5. [k \in 1..m |->
         Plus(MultiExponent(commits, [i \in 1..N |-> P_i_k[i][k]]), CommitZero(Pk[k]))]'
        = [k \in 1..m |->
         Plus(MultiExponent(commits, [i \in 1..N |-> P_i_k[i][k]]), CommitZero(Pk[k]))]
  BY <1>1 DEF Plus, MultiExponent, CommitZero
<1> QED BY <1>2, <1>3, <1>4, <1>5 DEF Committed

LEMMA CommitStep ==
    ASSUME InstanceInv, ProofInv, Commit
    PROVE  ProofInv'
<1>0. n' = n /\ m' = m /\ N' = N /\ l' = l /\ r' = r /\ exponent' = exponent
      /\ value' = value
  BY DEF Commit, instance
<1>1. Cells' = Cells /\ Generators' = Generators /\ commits' = commits
  BY <1>0, SamePoints
<1>2. PICK rows \in [Digits -> Rows(n)], b \in Blinds, p \in Rhos(m) :
        LET s == convert_to_sigma(l)
            cells == Fill(rows)
            polynomials ==
                [i \in 1..N |-> IF i < N THEN PlacePolynomial(s, cells, i - 1)
                                ELSE PaddedPolynomial(s, cells)]
            A == CommitCells(cells, b[1])
            C == CommitCells([q \in Cells |-> (cells[q] * (1 - 2 * s[q])) % Q], b[3])
            D == CommitCells([q \in Cells |-> (-(cells[q] * cells[q])) % Q], b[4])
        IN  /\ Infinity \notin {A, C, D}
            /\ sigma' = s /\ a' = cells /\ blind' = b /\ Pk' = p
            /\ P_i_k' = polynomials
            /\ proof' = [proof EXCEPT
                  !.A = A, !.B = CommitCells(s, b[2]), !.C = C, !.D = D,
                  !.Gk = [k \in 1..m |->
                        Plus(MultiExponent(commits, [i \in 1..N |-> polynomials[i][k]]),
                             CommitZero(p[k]))]]
  BY DEF Commit
<1>3. b \in [1..4 -> Int] /\ p \in [1..m -> Int]
  <2>1. Blinds \subseteq [1..4 -> Int]
    BY ProtocolAssumption
  <2> QED BY <2>1 DEF InstanceInv
<1> DEFINE s == convert_to_sigma(l)
           c == Fill(rows)
           P == [i \in 1..N |-> IF i < N THEN PlacePolynomial(s, c, i - 1)
                                ELSE PaddedPolynomial(s, c)]
<1>4. /\ sigma' = s /\ a' = c /\ blind' = b /\ Pk' = p /\ P_i_k' = P
      /\ proof' = [proof EXCEPT
            !.A = CommitCells(c, b[1]), !.B = CommitCells(s, b[2]),
            !.C = CommitCells([q \in Cells |-> (c[q] * (1 - 2 * s[q])) % Q], b[3]),
            !.D = CommitCells([q \in Cells |-> (-(c[q] * c[q])) % Q], b[4]),
            !.Gk = [k \in 1..m |->
                        Plus(MultiExponent(commits, [i \in 1..N |-> P[i][k]]),
                             CommitZero(p[k]))]]
  BY <1>2
<1> HIDE DEF s, c, P
<1>5. /\ DOMAIN proof' = Fields
      /\ proof'.A = CommitCells(c, b[1])
      /\ proof'.B = CommitCells(s, b[2])
      /\ proof'.C = CommitCells([q \in Cells |-> (c[q] * (1 - 2 * s[q])) % Q], b[3])
      /\ proof'.D = CommitCells([q \in Cells |-> (-(c[q] * c[q])) % Q], b[4])
      /\ proof'.Gk = [k \in 1..m |->
            Plus(MultiExponent(commits, [i \in 1..N |-> P[i][k]]), CommitZero(p[k]))]
  BY <1>4 DEF ProofInv, Fields
<1>6. CommitCells(a, blind[1])' = CommitCells(c, b[1])
      /\ CommitCells(sigma, blind[2])' = CommitCells(s, b[2])
  BY <1>1, <1>4 DEF CommitCells
<1>7. CommitCells([q \in Cells |-> (a[q] * (1 - 2 * sigma[q])) % Q], blind[3])'
        = CommitCells([q \in Cells |-> (c[q] * (1 - 2 * s[q])) % Q], b[3])
  BY <1>1, <1>4 DEF CommitCells
<1>8. CommitCells([q \in Cells |-> (-(a[q] * a[q])) % Q], blind[4])'
        = CommitCells([q \in Cells |-> (-(c[q] * c[q])) % Q], b[4])
  BY <1>1, <1>4 DEF CommitCells
<1>9. [k \in 1..m |->
         Plus(MultiExponent(commits, [i \in 1..N |-> P_i_k[i][k]]), CommitZero(Pk[k]))]'
        = [k \in 1..m |->
         Plus(MultiExponent(commits, [i \in 1..N |-> P[i][k]]), CommitZero(p[k]))]
  BY <1>0, <1>1, <1>4 DEF Plus, MultiExponent, CommitZero
<1>10. Committed(sigma, a, blind, Pk, P_i_k)'
  BY <1>0, <1>3, <1>4, <1>5, <1>6, <1>7, <1>8, <1>9 DEF Committed
<1>11. phase' = "respond" /\ verdict' = verdict /\ phase = "start"
  BY DEF Commit
<1> QED BY <1>5, <1>10, <1>11 DEF ProofInv

LEMMA ProofStep ==
    ASSUME InstanceInv, ProofInv, [Next]_vars
    PROVE  ProofInv'
<1>0. n' = n /\ m' = m /\ N' = N /\ l' = l /\ r' = r /\ exponent' = exponent
      /\ value' = value
  BY DEF Next, Commit, Respond, Verify, vars, instance
<1>1. Cells' = Cells /\ Generators' = Generators /\ commits' = commits
  BY <1>0, SamePoints
<1>2. CASE Commit
  BY <1>2, CommitStep
<1>3. CASE Respond
  <2>1. PICK c \in Challenges :
          /\ x' = c
          /\ proof' = [proof EXCEPT
                !.f = [p \in {q \in Cells : q[2] > 0} |-> (sigma[p] * c + a[p]) % Q],
                !.ZA = (blind[2] * c + blind[1]) % Q,
                !.ZC = (blind[3] * c + blind[4]) % Q,
                !.z = Final(c)]
    BY <1>3 DEF Respond
  <2>2. /\ phase' = "verify" /\ phase = "respond" /\ verdict' = verdict
        /\ sigma' = sigma /\ a' = a /\ blind' = blind /\ Pk' = Pk /\ P_i_k' = P_i_k
    BY <1>3 DEF Respond
  <2>3. /\ DOMAIN proof' = Fields
        /\ proof'.A = proof.A /\ proof'.B = proof.B /\ proof'.C = proof.C
        /\ proof'.D = proof.D /\ proof'.Gk = proof.Gk
        /\ proof'.f = [p \in {q \in Cells : q[2] > 0} |-> (sigma[p] * c + a[p]) % Q]
        /\ proof'.ZA = (blind[2] * c + blind[1]) % Q
        /\ proof'.ZC = (blind[3] * c + blind[4]) % Q
        /\ proof'.z = Final(c)
    BY <2>1 DEF ProofInv, Fields
  <2>4. Committed(sigma, a, blind, Pk, P_i_k)
    BY <2>2 DEF ProofInv
  <2>5. Committed(sigma, a, blind, Pk, P_i_k)'
    BY <1>0, <2>2, <2>3, <2>4, CommittedSame
  <2>6. Final(x)' = Final(c)
    BY <1>0, <2>1, <2>2 DEF Final
  <2>7. Responded(sigma, a, blind, x)'
    BY <1>1, <2>1, <2>2, <2>3, <2>6 DEF Responded
  <2> QED BY <2>2, <2>3, <2>5, <2>7 DEF ProofInv
<1>4. CASE Verify \/ UNCHANGED vars
  <2>1. /\ sigma' = sigma /\ a' = a /\ blind' = blind /\ Pk' = Pk /\ P_i_k' = P_i_k
        /\ proof' = proof /\ x' = x
        /\ \/ phase = "verify" /\ phase' = "done"
           \/ phase' = phase /\ verdict' = verdict
    BY <1>4 DEF Verify, vars
  <2>2. phase # "start" => Committed(sigma, a, blind, Pk, P_i_k)'
    <3> SUFFICES ASSUME phase # "start" PROVE Committed(sigma, a, blind, Pk, P_i_k)'
      OBVIOUS
    <3>1. DOMAIN proof = Fields /\ Committed(sigma, a, blind, Pk, P_i_k)
      BY DEF ProofInv
    <3> QED BY <1>0, <2>1, <3>1, CommittedSame
  <2>3. phase \in {"verify", "done"} => Responded(sigma, a, blind, x)'
    <3>1. Final(x)' = Final(x)
      BY <1>0, <2>1 DEF Final
    <3> QED BY <1>1, <2>1, <3>1 DEF ProofInv, Responded
  <2> QED BY <2>1, <2>2, <2>3 DEF ProofInv
<1> QED BY <1>2, <1>3, <1>4 DEF Next

-----------------------------------------------------------------------------
(* What the verifier checks.                                               *)

Answered == phase \in {"verify", "done"}

LEMMA AnsweredIs ==
    ASSUME InstanceInv, DrawnInv, ProofInv, Answered
    PROVE  /\ n \in Nat \ {0} /\ n - 1 \in Nat /\ m \in Nat \ {0} /\ m \in Nat
           /\ N \in Nat /\ N \in 1..N /\ x \in Int /\ Q \in Nat \ {0}
           /\ Drawn(n, m, l, sigma, a) /\ Coefs(n, m, N, sigma, a, P_i_k)
           /\ Balanced(n, m, sigma, a) /\ Bits(n, m, l, sigma)
           /\ Committed(sigma, a, blind, Pk, P_i_k) /\ Responded(sigma, a, blind, x)
           /\ Evaluates(n, m, sigma, a, x, FullF)
<1>1. phase # "start"
  BY DEF Answered
<1>2. /\ n \in Nat \ {0} /\ n - 1 \in Nat /\ m \in Nat \ {0} /\ m \in Nat
      /\ N \in Nat /\ N \in 1..N /\ Q \in Nat \ {0}
  BY InstanceIs, Order DEF InstanceInv
<1>3. /\ Drawn(n, m, l, sigma, a) /\ Coefs(n, m, N, sigma, a, P_i_k)
      /\ Balanced(n, m, sigma, a) /\ Bits(n, m, l, sigma)
  BY <1>1 DEF DrawnInv, Drawn
<1>4. Committed(sigma, a, blind, Pk, P_i_k) /\ Responded(sigma, a, blind, x)
  BY <1>1 DEF ProofInv, Answered
<1>5. x \in Int
  BY <1>4, ProtocolAssumption, Order DEF Responded
<1>6. Evaluates(n, m, sigma, a, x, FullF)
  BY <1>2, <1>3, <1>4, <1>5, FullIs DEF Responded
<1> QED BY <1>2, <1>3, <1>4, <1>5, <1>6

LEMMA CellInt ==
    ASSUME InstanceInv, DrawnInv, ProofInv, Answered, NEW j \in Digits, NEW d \in 0..(n - 1)
    PROVE  /\ <<j, d>> \in Cells /\ sigma[<<j, d>>] \in {0, 1} /\ sigma[<<j, d>>] \in Int
           /\ a[<<j, d>>] \in Int /\ FullF[<<j, d>>] \in Int
           /\ Same(sigma[<<j, d>>] * x + a[<<j, d>>], FullF[<<j, d>>], Q)
<1>1. j \in 0..(m - 1) /\ <<j, d>> \in Cells
  BY DEF Digits, Cells
<1>2. a[<<j, d>>] \in Int
  BY <1>1, AnsweredIs DEF Balanced
<1>3. sigma[<<j, d>>] \in {0, 1}
  BY <1>1, AnsweredIs DEF Bits
<1>4. /\ FullF[<<j, d>>] \in Int
      /\ Same(FullF[<<j, d>>], sigma[<<j, d>>] * x + a[<<j, d>>], Q)
  BY <1>1, AnsweredIs DEF Evaluates
<1>5. PICK e \in Int, f \in Int : e = sigma[<<j, d>>] * x + a[<<j, d>>] /\ f = FullF[<<j, d>>]
  <2>1. PICK s \in Int, c \in Int : s = sigma[<<j, d>>] /\ c = a[<<j, d>>]
    BY <1>2, <1>3
  <2>2. s * x + c \in Int
    BY AnsweredIs
  <2> QED BY <1>4, <2>1, <2>2
<1>6. Same(e, f, Q)
  BY <1>4, <1>5, AnsweredIs, SameReverse
<1> QED BY <1>1, <1>2, <1>3, <1>4, <1>5, <1>6

LEMMA RestSame ==
    ASSUME NEW b \in Int, NEW d \in Int, b = d
    PROVE  Same(b, d % Q, Q) /\ d % Q \in Int
<1>1. Same(d % Q, d, Q) /\ d % Q \in Int
  BY RestQ
<1>2. Same(d, d % Q, Q)
  BY <1>1, Order, SameReverse
<1> QED BY <1>1, <1>2

LEMMA R1Always ==
    ASSUME InstanceInv, DrawnInv, ProofInv, Answered
    PROVE  R1Verify
<1>0. /\ x \in Int /\ Q \in Nat \ {0}
      /\ Committed(sigma, a, blind, Pk, P_i_k) /\ Responded(sigma, a, blind, x)
  BY AnsweredIs
<1>1. PICK b1 \in Int, b2 \in Int, b3 \in Int, b4 \in Int :
        b1 = blind[1] /\ b2 = blind[2] /\ b3 = blind[3] /\ b4 = blind[4]
  BY <1>0 DEF Committed
<1>2. PICK y1 \in Int, y2 \in Int : y1 = b2 * x + b1 /\ y2 = b3 * x + b4
  BY <1>0
<1>3. PICK za \in Int, zc \in Int :
        /\ za = proof.ZA /\ zc = proof.ZC /\ Same(b2 * x + b1, za, Q)
        /\ Same(b3 * x + b4, zc, Q)
  <2>1. proof.ZA = y1 % Q /\ proof.ZC = y2 % Q
    BY <1>0, <1>1, <1>2 DEF Responded
  <2> QED BY <1>2, <2>1, RestSame
<1>4. Plus(Times(proof.B, x), proof.A) = CommitCells(FullF, proof.ZA)
  <2>1. Linear(sigma, a, FullF, x)
    BY CellInt DEF Linear
  <2>2. proof.A = CommitCells(a, b1) /\ proof.B = CommitCells(sigma, b2)
    BY <1>0, <1>1 DEF Committed
  <2> QED BY <1>0, <1>3, <2>1, <2>2, CommitLinear
<1> DEFINE e1 == [q \in Cells |-> (a[q] * (1 - 2 * sigma[q])) % Q]
           e2 == [q \in Cells |-> (-(a[q] * a[q])) % Q]
           e3 == [p \in Cells |-> (FullF[p] * (x - FullF[p])) % Q]
<1>5. Linear(e1, e2, e3, x)
  <2>1. ASSUME NEW j \in Digits, NEW d \in 0..(n - 1)
        PROVE  /\ e1[<<j, d>>] \in Int /\ e2[<<j, d>>] \in Int /\ e3[<<j, d>>] \in Int
               /\ Same(e1[<<j, d>>] * x + e2[<<j, d>>], e3[<<j, d>>], Q)
    <3>1. PICK s \in {0, 1}, c \in Int, f \in Int :
            /\ s = sigma[<<j, d>>] /\ c = a[<<j, d>>] /\ f = FullF[<<j, d>>]
            /\ Same(s * x + c, f, Q) /\ <<j, d>> \in Cells
      BY CellInt
    <3>2. PICK g1 \in Int, g2 \in Int, g3 \in Int, u \in Int, xu \in Int :
            /\ g1 = c * (1 - 2 * s) /\ g2 = -(c * c) /\ g3 = f * (x - f)
            /\ u = s * x + c /\ xu = x - u
      <4>1. /\ c * (1 - 2 * s) \in Int /\ -(c * c) \in Int /\ f * (x - f) \in Int
            /\ s * x + c \in Int /\ x - (s * x + c) \in Int
        BY <1>0
      <4> QED BY <4>1
    <3>3. e1[<<j, d>>] = g1 % Q /\ e2[<<j, d>>] = g2 % Q /\ e3[<<j, d>>] = g3 % Q
      BY <3>1, <3>2
    <3>4. PICK h1 \in Int, h2 \in Int, h3 \in Int :
            /\ h1 = g1 % Q /\ h2 = g2 % Q /\ h3 = g3 % Q
            /\ Same(h1, g1, Q) /\ Same(h2, g2, Q) /\ Same(g3, h3, Q)
      BY RestQ, RestSame
    <3>5. g1 * x + g2 = u * xu
      <4>1. CASE s = 0
        <5>1. g1 = c /\ u = c
          <6>1. c * (1 - 2 * 0) = c /\ 0 * x + c = c
            BY <1>0
          <6> QED BY <3>2, <4>1, <6>1
        <5>2. c * x + (-(c * c)) = c * (x - c)
          BY <1>0
        <5> QED BY <3>2, <5>1, <5>2
      <4>2. CASE s = 1
        <5>1. g1 = -c /\ u = x + c /\ xu = -c
          <6>1. c * (1 - 2 * 1) = -c /\ 1 * x + c = x + c /\ x - (x + c) = -c
            BY <1>0
          <6> QED BY <3>2, <4>2, <6>1
        <5>2. (-c) * x + (-(c * c)) = (x + c) * (-c)
          BY <1>0
        <5> QED BY <3>2, <5>1, <5>2
      <4> QED BY <4>1, <4>2
    <3>6. Same(u * xu, g3, Q)
      <4>1. Same(u, f, Q)
        BY <3>1, <3>2
      <4>2. Same(x, x, Q)
        <5>1. x = x + Q * 0
          BY <1>0
        <5> QED BY <5>1 DEF Same
      <4>3. PICK w \in Int : w = x - f
        BY <1>0
      <4>4. Same(xu, w, Q)
        BY <1>0, <3>2, <4>1, <4>2, <4>3, SameSum
      <4>5. Same(u * xu, f * w, Q)
        BY <1>0, <4>1, <4>4, SameProducts
      <4> QED BY <3>2, <4>3, <4>5
    <3>7. PICK k1 \in Int, k2 \in Int : k1 = h1 * x /\ k2 = g1 * x /\ Same(k1, k2, Q)
      <4>1. h1 * x \in Int /\ g1 * x \in Int
        BY <1>0
      <4> QED BY <1>0, <3>4, <4>1, SameProduct
    <3>8. PICK t1 \in Int, t2 \in Int : t1 = k1 + h2 /\ t2 = k2 + g2 /\ Same(t1, t2, Q)
      <4>1. k1 + h2 \in Int /\ k2 + g2 \in Int
        OBVIOUS
      <4> QED BY <1>0, <3>4, <3>7, <4>1, SameSum
    <3>9. Same(t2, g3, Q)
      BY <3>5, <3>6, <3>7, <3>8
    <3>10. Same(t1, h3, Q)
      <4>1. Same(t1, g3, Q)
        BY <1>0, <3>8, <3>9, SameTrans
      <4> QED BY <1>0, <3>4, <4>1, SameTrans
    <3> HIDE DEF e1, e2, e3
    <3> QED BY <3>3, <3>4, <3>7, <3>8, <3>10
  <2> QED BY <2>1 DEF Linear
<1>6. Plus(Times(proof.C, x), proof.D) = CommitCells(e3, proof.ZC)
  <2>1. proof.C = CommitCells(e1, b3) /\ proof.D = CommitCells(e2, b4)
    BY <1>0, <1>1 DEF Committed
  <2> HIDE DEF e1, e2, e3
  <2> QED BY <1>0, <1>3, <1>5, <2>1, CommitLinear
<1> QED BY <1>4, <1>6 DEF R1Verify

LEMMA SameItself ==
    ASSUME NEW b \in Int
    PROVE  Same(b, b, Q)
<1>1. b = b + Q * 0
  BY Order
<1> QED BY <1>1 DEF Same

LEMMA PointLength ==
    ASSUME NEW L \in Nat, NEW S, NEW p \in [1..L -> S]
    PROVE  Len(p) = L
<1>1. p \in Seq(S)
  OBVIOUS
<1> QED BY <1>1

LEMMA ZeroIs ==
    ASSUME NEW e, NEW y \in Generators
    PROVE  CommitZero(e)[y] = IF y = H0 THEN e % Q ELSE 0
BY DEF CommitZero, H0

LEMMA CommitsAre ==
    ASSUME InstanceInv
    PROVE  /\ Place + 1 \in 1..N /\ (\A i \in 1..N : i = Place + 1 <=> i - 1 = Place)
           /\ Len(commits) = N
           /\ \A i \in 1..N, y \in Generators : commits[i][y] \in Int
           /\ \A y \in Generators :
                commits[Place + 1][y]
                  = IF y = G0 THEN value ELSE IF y = H0 THEN exponent % Q ELSE 0
<1>0. N \in Nat /\ N - 1 \in Nat /\ l \in Nat /\ N \in 1..N /\ value \in Int /\ exponent % Q \in Int
  <2>1. N \in Nat /\ N - 1 \in Nat /\ l \in Nat /\ N \in 1..N
    BY InstanceIs DEF InstanceInv
  <2>2. exponent % Q \in Int
    BY RestQ DEF InstanceInv
  <2> QED BY <2>1, <2>2 DEF InstanceInv
<1>1. Place \in Nat /\ Place + 1 \in 1..N /\ (Place + 1) - 1 = Place
  BY <1>0 DEF Place
<1> DEFINE C(i) == IF i - 1 = Place
                   THEN [CommitZero(exponent) EXCEPT ![<<"g", 0, 0>>] = value]
                   ELSE [k \in Generators |-> IF k = <<"c", i - 1, 0>> THEN 1 ELSE 0]
<1>2. commits = [i \in 1..N |-> C(i)]
  BY DEF commits
<1>3. \A y \in Generators :
        [CommitZero(exponent) EXCEPT ![<<"g", 0, 0>>] = value][y]
          = IF y = G0 THEN value ELSE IF y = H0 THEN exponent % Q ELSE 0
  BY DEF CommitZero, G0, H0
<1>4. [CommitZero(exponent) EXCEPT ![<<"g", 0, 0>>] = value] \in [Generators -> Int]
  <2> DEFINE p == [CommitZero(exponent) EXCEPT ![<<"g", 0, 0>>] = value]
  <2>1. p = [y \in Generators |-> p[y]]
    BY DEF CommitZero
  <2>2. \A y \in Generators : p[y] \in Int
    BY <1>0, <1>3
  <2> HIDE DEF p
  <2>3. p \in [Generators -> Int]
    BY <2>1, <2>2
  <2> QED BY <2>3 DEF p
<1>5. ASSUME NEW i \in 1..N PROVE C(i) \in [Generators -> Int]
  BY <1>4
<1>6. commits[Place + 1] = [CommitZero(exponent) EXCEPT ![<<"g", 0, 0>>] = value]
  BY <1>1, <1>2
<1> HIDE DEF C
<1>7. commits \in [1..N -> [Generators -> Int]]
  BY <1>2, <1>5
<1>8. Len(commits) = N
  BY <1>0, <1>7, PointLength
<1>9. \A i \in 1..N, y \in Generators : commits[i][y] \in Int
  BY <1>7
<1>10. \A i \in 1..N : i = Place + 1 <=> i - 1 = Place
  BY <1>1
<1> QED BY <1>1, <1>3, <1>6, <1>8, <1>9, <1>10

MinusPowers == [k \in 1..m |-> (-(Power(x, k - 1))) % Q]
ZeroPart(y) == [k \in 1..m |-> CommitZero(Pk[k])[y]]
GkPart(y) == [k \in 1..m |-> proof.Gk[k][y]]
CommitsPart(y) == [i \in 1..N |-> commits[i][y]]
Left == Plus(MultiExponent(commits, f_i_), MultiExponent(proof.Gk, MinusPowers))

LEMMA ZeroPartInt ==
    ASSUME InstanceInv, DrawnInv, ProofInv, Answered, NEW y \in Generators
    PROVE  \A k \in 1..m : /\ Pk[k] \in Int
                           /\ ZeroPart(y)[k] = IF y = H0 THEN Pk[k] % Q ELSE 0
                           /\ ZeroPart(y)[k] \in Int
<1>1. ASSUME NEW k \in 1..m
      PROVE  /\ Pk[k] \in Int /\ ZeroPart(y)[k] = IF y = H0 THEN Pk[k] % Q ELSE 0
             /\ ZeroPart(y)[k] \in Int
  <2>1. Pk[k] \in Int
    BY AnsweredIs DEF Committed
  <2>2. ZeroPart(y)[k] = IF y = H0 THEN Pk[k] % Q ELSE 0
    BY ZeroIs DEF ZeroPart
  <2>3. Pk[k] % Q \in Int
    BY <2>1, RestQ
  <2> QED BY <2>1, <2>2, <2>3
<1> QED BY <1>1

LEMMA PartWeighs ==
    ASSUME InstanceInv, DrawnInv, ProofInv, Answered, NEW y \in Generators
    PROVE  Weighs(N, m, CommitsPart(y), f_i_, P_i_k, x, Place + 1, Power(x, m),
                  GkPart(y), ZeroPart(y), MinusPowers, Q)
<1>0. /\ m \in Nat /\ N \in Nat /\ x \in Int /\ Q \in Nat \ {0}
      /\ Drawn(n, m, l, sigma, a) /\ Coefs(n, m, N, sigma, a, P_i_k)
      /\ Committed(sigma, a, blind, Pk, P_i_k)
      /\ Evaluates(n, m, sigma, a, x, FullF)
  BY AnsweredIs
<1>1. ASSUME NEW i \in 1..N
      PROVE  /\ CommitsPart(y)[i] \in Int /\ f_i_[i] \in Int
             /\ \A k \in 1..m : P_i_k[i][k] \in Int
             /\ Same(f_i_[i], Lowest(P_i_k, i, x, m)
                                + (IF i = Place + 1 THEN Power(x, m) ELSE 0), Q)
  <2>1. CommitsPart(y)[i] \in Int
    BY CommitsAre DEF CommitsPart
  <2>2. /\ f_i_[i] \in 0..(Q - 1)
        /\ Same(f_i_[i], Lowest(P_i_k, i, x, m)
                           + (IF i - 1 = Place THEN Power(x, m) ELSE 0), Q)
    BY <1>0, SidesAre
  <2>3. i = Place + 1 <=> i - 1 = Place
    BY CommitsAre
  <2>4. f_i_[i] \in Int
    BY <1>0, <2>2
  <2>5. \A k \in 1..m : P_i_k[i][k] \in Int
    BY <1>0, CoefsInt
  <2> QED BY <2>1, <2>2, <2>3, <2>4, <2>5
<1>2. ASSUME NEW k \in 1..m
      PROVE  /\ GkPart(y)[k] \in Int /\ ZeroPart(y)[k] \in Int /\ MinusPowers[k] \in Int
             /\ Same(GkPart(y)[k], Weighted(N, CommitsPart(y), P_i_k, k) + ZeroPart(y)[k], Q)
             /\ Same(MinusPowers[k], -Power(x, k - 1), Q)
  <2>1. PICK z \in Int : z = ZeroPart(y)[k]
    BY ZeroPartInt
  <2> DEFINE g == [i \in 1..N |-> CommitsPart(y)[i] * P_i_k[i][k]]
             h == [i \in 1..Len(commits) |-> commits[i][y] * [d \in 1..N |-> P_i_k[d][k]][i]]
  <2>2. ASSUME NEW i \in 1..N PROVE g[i] \in Int /\ h[i] = g[i]
    <3>1. PICK b \in Int, d \in Int : b = CommitsPart(y)[i] /\ d = P_i_k[i][k]
      BY <1>1
    <3>2. b * d \in Int
      OBVIOUS
    <3>3. g[i] = b * d
      BY <3>1
    <3>4. h[i] = g[i]
      <4>1. i \in 1..Len(commits)
        BY CommitsAre
      <4> QED BY <4>1 DEF CommitsPart
    <3> HIDE DEF g, h
    <3> QED BY <3>2, <3>3, <3>4
  <2>3. PICK v \in Int : v = SumTo(N, g) /\ v = SumTo(N, h)
    <3> HIDE DEF g, h
    <3>1. SumTo(N, g) \in Int /\ SumTo(N, h) = SumTo(N, g)
      BY <1>0, <2>2, SumInt, SumEqual
    <3> QED BY <3>1
  <2>4. MultiExponent(commits, [d \in 1..N |-> P_i_k[d][k]])[y] = v % Q
    <3>1. MultiExponent(commits, [d \in 1..N |-> P_i_k[d][k]])[y] = SumTo(Len(commits), h) % Q
      BY DEF MultiExponent
    <3> HIDE DEF h
    <3> QED BY <2>3, <3>1, CommitsAre
  <2>5. PICK v1 \in Int : v1 = v % Q /\ Same(v1, v, Q)
    BY RestQ
  <2>6. GkPart(y)[k] = (v1 + z) % Q
    <3>1. proof.Gk[k] = Plus(MultiExponent(commits, [d \in 1..N |-> P_i_k[d][k]]),
                             CommitZero(Pk[k]))
      BY <1>0 DEF Committed
    <3>2. proof.Gk[k][y] = (MultiExponent(commits, [d \in 1..N |-> P_i_k[d][k]])[y]
                              + CommitZero(Pk[k])[y]) % Q
      BY <3>1 DEF Plus
    <3>3. CommitZero(Pk[k])[y] = z
      BY <2>1 DEF ZeroPart
    <3> QED BY <2>4, <2>5, <3>2, <3>3 DEF GkPart
  <2>7. Same(v1 + z, v + z, Q)
    BY <1>0, <2>5, SameItself, SameSum
  <2>8. PICK w \in Int, o \in Int, u \in Int :
          w = v1 + z /\ o = v + z /\ u = w % Q /\ Same(u, w, Q) /\ Same(w, o, Q)
    <3>1. v1 + z \in Int /\ v + z \in Int
      OBVIOUS
    <3> QED BY <2>7, <3>1, RestQ
  <2>9. Same(u, o, Q)
    BY <1>0, <2>8, SameTrans
  <2>10. PICK e \in Int : e = -(Power(x, k - 1))
    <3>1. k - 1 \in Nat
      OBVIOUS
    <3>2. PICK p \in Int : p = Power(x, k - 1)
      BY <1>0, <3>1, PowerInt
    <3>3. -p \in Int
      OBVIOUS
    <3> QED BY <3>2, <3>3
  <2>11. MinusPowers[k] = e % Q
    BY <2>10 DEF MinusPowers
  <2>12. Same(e % Q, e, Q) /\ e % Q \in Int
    BY RestQ
  <2>13. Weighted(N, CommitsPart(y), P_i_k, k) = v
    BY <2>3 DEF Weighted
  <2> HIDE DEF g, h
  <2> QED BY <2>1, <2>6, <2>8, <2>9, <2>10, <2>11, <2>12, <2>13
<1> QED BY <1>1, <1>2 DEF Weighs

LEMMA LeftIs ==
    ASSUME InstanceInv, DrawnInv, ProofInv, Answered, NEW y \in Generators
    PROVE  /\ Difference(m, commits[Place + 1][y], Power(x, m), ZeroPart(y), x) \in Int
           /\ Left[y]
                = Difference(m, commits[Place + 1][y], Power(x, m), ZeroPart(y), x) % Q
<1>0. /\ m \in Nat /\ N \in Nat /\ x \in Int /\ Q \in Nat \ {0} /\ Place + 1 \in 1..N
      /\ Committed(sigma, a, blind, Pk, P_i_k) /\ Len(commits) = N
  BY AnsweredIs, CommitsAre
<1>1. PICK p \in Int : p = Power(x, m)
  BY <1>0, PowerInt
<1> DEFINE C == CommitsPart(y)
           G == GkPart(y)
           E == MinusPowers
           f1 == [i \in 1..N |-> C[i] * f_i_[i]]
           f2 == [k \in 1..m |-> G[k] * E[k]]
<1>2. Weighs(N, m, C, f_i_, P_i_k, x, Place + 1, p, G, ZeroPart(y), E, Q)
  BY <1>1, PartWeighs
<1>3. PICK s1 \in Int, s2 \in Int : s1 = SumTo(N, f1) /\ s2 = SumTo(m, f2)
  <2>1. ASSUME NEW i \in 1..N PROVE f1[i] \in Int
    <3>1. PICK b \in Int, d \in Int : b = C[i] /\ d = f_i_[i]
      BY <1>2 DEF Weighs
    <3>2. b * d \in Int
      OBVIOUS
    <3> QED BY <3>1, <3>2
  <2>2. ASSUME NEW k \in 1..m PROVE f2[k] \in Int
    <3>1. PICK b \in Int, d \in Int : b = G[k] /\ d = E[k]
      BY <1>2 DEF Weighs
    <3>2. b * d \in Int
      OBVIOUS
    <3> QED BY <3>1, <3>2
  <2> HIDE DEF f1, f2
  <2> QED BY <1>0, <2>1, <2>2, SumInt
<1>9. PICK t1 \in Int, t2 \in Int :
        t1 = s1 % Q /\ t2 = s2 % Q /\ Same(t1, s1, Q) /\ Same(t2, s2, Q)
  BY RestQ
<1>4. MultiExponent(commits, f_i_)[y] = t1
  <2> DEFINE h == [i \in 1..Len(commits) |-> commits[i][y] * f_i_[i]]
  <2>1. MultiExponent(commits, f_i_)[y] = SumTo(Len(commits), h) % Q
    BY DEF MultiExponent
  <2>2. \A i \in 1..N : h[i] = f1[i]
    BY <1>0 DEF CommitsPart
  <2> HIDE DEF h, f1
  <2>3. SumTo(N, h) = SumTo(N, f1)
    BY <1>0, <2>2, SumEqual
  <2> QED BY <1>0, <1>3, <1>9, <2>1, <2>3
<1>5. MultiExponent(proof.Gk, MinusPowers)[y] = t2
  <2> DEFINE h == [i \in 1..Len(proof.Gk) |-> proof.Gk[i][y] * MinusPowers[i]]
  <2>1. MultiExponent(proof.Gk, MinusPowers)[y] = SumTo(Len(proof.Gk), h) % Q
    BY DEF MultiExponent
  <2>2. Len(proof.Gk) = m
    <3>1. proof.Gk \in [1..m -> {proof.Gk[k] : k \in 1..m}]
      BY <1>0 DEF Committed
    <3> QED BY <1>0, <3>1, PointLength
  <2>3. \A i \in 1..m : h[i] = f2[i]
    BY <2>2 DEF GkPart
  <2> HIDE DEF h, f2
  <2>4. SumTo(m, h) = SumTo(m, f2)
    BY <1>0, <2>3, SumEqual
  <2> QED BY <1>3, <1>9, <2>1, <2>2, <2>4
<1>6. Left[y] = (t1 + t2) % Q
  <2>1. Left[y] = (MultiExponent(commits, f_i_)[y]
                     + MultiExponent(proof.Gk, MinusPowers)[y]) % Q
    BY DEF Left, Plus
  <2> HIDE DEF f1, f2, C, G, E
  <2> QED BY <1>4, <1>5, <2>1
<1>7. PICK w \in Int : w = Difference(m, C[Place + 1], p, ZeroPart(y), x)
  <2> DEFINE h == [k \in 1..m |-> ZeroPart(y)[k] * Power(x, k - 1)]
  <2>1. ASSUME NEW k \in 1..m PROVE h[k] \in Int
    <3>1. k - 1 \in Nat
      OBVIOUS
    <3>2. PICK b \in Int, d \in Int : b = ZeroPart(y)[k] /\ d = Power(x, k - 1)
      BY <1>0, <3>1, ZeroPartInt, PowerInt
    <3>3. b * d \in Int
      OBVIOUS
    <3> QED BY <3>2, <3>3
  <2>2. PICK b \in Int, d \in Int : b = SumTo(m, h) /\ d = C[Place + 1]
    <3>1. C[Place + 1] \in Int
      BY <1>0, <1>2 DEF Weighs
    <3> HIDE DEF h
    <3>2. SumTo(m, h) \in Int
      BY <1>0, <2>1, SumInt
    <3> QED BY <3>1, <3>2
  <2>3. d * p - b \in Int
    OBVIOUS
  <2> QED BY <2>2, <2>3 DEF Difference
<1>8. Same(s1 + s2, w, Q)
  <2>1. Same(Both(N, m, C, f_i_, G, E), Difference(m, C[Place + 1], p, ZeroPart(y), x), Q)
    <3> HIDE DEF C, G, E
    <3> QED BY <1>0, <1>2, BothSame
  <2>2. Both(N, m, C, f_i_, G, E) = s1 + s2
    BY <1>3 DEF Both
  <2> HIDE DEF C, G, E
  <2> QED BY <1>7, <2>1, <2>2
<1>10. PICK o \in Int, u \in Int : o = t1 + t2 /\ u = s1 + s2 /\ Same(o, u, Q)
  <2>1. t1 + t2 \in Int /\ s1 + s2 \in Int
    OBVIOUS
  <2> QED BY <1>0, <1>9, <2>1, SameSum
<1>11. Same(o, w, Q)
  <2>1. Same(u, w, Q)
    BY <1>8, <1>10
  <2> QED BY <1>0, <1>10, <2>1, SameTrans
<1>12. o % Q = w % Q
  BY <1>0, <1>11, SameMod
<1>13. C[Place + 1] = commits[Place + 1][y]
  BY <1>0 DEF CommitsPart
<1> HIDE DEF C, G, E, f1, f2
<1>14. Left[y] = w % Q
  BY <1>6, <1>10, <1>12
<1>15. w = Difference(m, commits[Place + 1][y], Power(x, m), ZeroPart(y), x)
  BY <1>1, <1>7, <1>13
<1> QED BY <1>14, <1>15

LEMMA LeftElsewhere ==
    ASSUME InstanceInv, DrawnInv, ProofInv, Answered, NEW y \in Generators, y # H0
    PROVE  Left[y] = (IF y = G0 THEN value * Power(x, m) ELSE 0) % Q
<1>0. m \in Nat /\ x \in Int /\ value \in Int
  BY AnsweredIs DEF InstanceInv
<1>1. PICK p \in Int : p = Power(x, m)
  BY <1>0, PowerInt
<1> DEFINE h == [k \in 1..m |-> ZeroPart(y)[k] * Power(x, k - 1)]
<1>2. ASSUME NEW k \in 1..m PROVE h[k] = 0
  <2>1. k - 1 \in Nat
    OBVIOUS
  <2>2. PICK d \in Int : d = Power(x, k - 1)
    BY <1>0, <2>1, PowerInt
  <2>3. ZeroPart(y)[k] = 0
    BY ZeroPartInt
  <2>4. h[k] = 0 * d
    BY <2>2, <2>3
  <2> QED BY <2>4
<1>3. SumTo(m, h) = 0
  <2>1. \A k \in 1..m : h[k] \in Int /\ (k # 0 => h[k] = 0)
    BY <1>2
  <2>2. 0 \in 0..m
    BY <1>0
  <2> HIDE DEF h
  <2> QED BY <1>0, <2>1, <2>2, SumSingle
<1>4. commits[Place + 1][y] = IF y = G0 THEN value ELSE 0
  BY CommitsAre
<1>5. PICK c \in Int, w \in Int :
        c = commits[Place + 1][y] /\ w = IF y = G0 THEN value * p ELSE 0
  <2>1. value * p \in Int
    BY <1>0
  <2> QED BY <1>0, <1>4, <2>1
<1>6. c * p - 0 = w
  <2>1. 0 * p = 0 /\ value * p \in Int
    BY <1>0
  <2> QED BY <1>4, <1>5, <2>1
<1>7. Difference(m, commits[Place + 1][y], Power(x, m), ZeroPart(y), x) = w
  <2>1. Difference(m, c, p, ZeroPart(y), x) = c * p - SumTo(m, h)
    BY DEF Difference
  <2> HIDE DEF h
  <2> QED BY <1>1, <1>3, <1>5, <1>6, <2>1
<1>8. Left[y] = w % Q
  BY <1>7, LeftIs
<1> QED BY <1>1, <1>5, <1>8

LEMMA ZeroRest == 0 % Q = 0
<1>1. 0 \in 0..(Q - 1) /\ 0 = Q * 0 + 0 /\ Q \in Nat \ {0}
  BY Order
<1> QED BY <1>1, DivUnique

\* The rests of one and of zero, for a modulus above one.
LEMMA UnitRests ==
    ASSUME NEW q \in Nat \ {0}, q > 1, NEW y \in Int
    PROVE  /\ y % q = 1 => Same(y, 1, q)
           /\ ~(Same(y, 1, q) /\ Same(y, 0, q))
<1>1. PICK o \in Int : o = 1
  OBVIOUS
<1>2. PICK z \in Int : z = 0
  OBVIOUS
<1>3. o % q = 1
  <2>1. o \in 0..(q - 1) /\ o = q * 0 + o
    BY <1>1
  <2>2. o = o % q
    BY <1>1, <2>1, DivUnique
  <2> QED BY <1>1, <2>2
<1>4. z % q = 0
  <2>1. z \in 0..(q - 1) /\ z = q * 0 + z
    BY <1>2
  <2>2. z = z % q
    BY <1>2, <2>1, DivUnique
  <2> QED BY <1>2, <2>2
<1>5. Same(y, o, q) <=> y % q = o % q
  BY SameMod
<1>6. Same(y, z, q) <=> y % q = z % q
  BY SameMod
<1>7. y % q = 1 => Same(y, o, q)
  BY <1>3, <1>5
<1>8. ~(Same(y, o, q) /\ Same(y, z, q))
  BY <1>3, <1>4, <1>5, <1>6
<1> QED BY <1>1, <1>2, <1>7, <1>8

\* A power of the challenge can be cancelled.
LEMMA PowerCancels ==
    ASSUME Q \in Nat \ {0}, x \in Challenges, x \in Int, m \in Nat,
           NEW p \in Int, p = Power(x, m),
           NEW c \in Int, NEW d \in Int, Same(c * p, d * p, Q)
    PROVE  Same(c, d, Q)
<1>1. PICK w \in Int : (x * w) % Q = 1
  <2>1. PICK w \in 1..(Q - 1) : (x * w) % Q = 1
    BY ProtocolAssumption
  <2>2. w \in Int
    BY <2>1
  <2> QED BY <2>1, <2>2
<1>2. Same(x * w, 1, Q)
  <2>1. PICK y \in Int : y = x * w
    OBVIOUS
  <2>2. y % Q = 1 /\ Q > 1
    BY <1>1, <2>1, Order
  <2>3. Same(y, 1, Q)
    BY <2>2, UnitRests
  <2> QED BY <2>1, <2>3
<1>3. PICK v \in Int : v = Power(w, m)
  BY PowerInt
<1>4. PICK o \in Int : o = p * v /\ Same(o, 1, Q)
  BY <1>2, <1>3, UnitPower
<1>5. ASSUME NEW e \in Int PROVE Same((e * p) * v, e, Q)
  <2>1. (e * p) * v = o * e
    BY <1>4
  <2>2. Same(o * e, e, Q)
    BY <1>4, SameUnit
  <2> QED BY <2>1, <2>2
<1>6. PICK f \in Int, g \in Int : f = (c * p) * v /\ g = (d * p) * v
  OBVIOUS
<1>7. Same(f, g, Q)
  <2>1. PICK f1 \in Int, g1 \in Int : f1 = c * p /\ g1 = d * p
    OBVIOUS
  <2>2. Same(f1 * v, g1 * v, Q)
    BY <2>1, SameProduct
  <2> QED BY <1>6, <2>1, <2>2
<1>8. Same(f, c, Q) /\ Same(g, d, Q)
  BY <1>5, <1>6
<1>9. Same(c, f, Q)
  BY <1>8, SameReverse
<1> QED BY <1>7, <1>8, <1>9, SameTrans

\* In the direction of h[0] the sum is the response exactly when the prover was
\* given the commitment's exponent.
LEMMA LeftZero ==
    ASSUME InstanceInv, DrawnInv, ProofInv, Answered, H0 \in Generators
    PROVE  Left[H0] = CommitZero(proof.z)[H0] <=> exponent % Q = r % Q
<1>0. /\ m \in Nat /\ x \in Int /\ Q \in Nat \ {0} /\ Responded(sigma, a, blind, x)
      /\ r \in Int /\ exponent \in Int
  BY AnsweredIs DEF InstanceInv
<1>1. PICK p \in Int : p = Power(x, m)
  BY <1>0, PowerInt
<1> DEFINE h == [k \in 1..m |-> ZeroPart(H0)[k] * Power(x, k - 1)]
           g == [k \in 1..m |-> Pk[k] * Power(x, k - 1)]
<1>2. ASSUME NEW k \in 1..m PROVE h[k] \in Int /\ g[k] \in Int /\ Same(h[k], g[k], Q)
  <2>1. k - 1 \in Nat
    OBVIOUS
  <2>2. PICK d \in Int, b \in Int : d = Power(x, k - 1) /\ b = Pk[k]
    BY <1>0, <2>1, PowerInt, ZeroPartInt
  <2>3. PICK b1 \in Int : b1 = b % Q /\ Same(b1, b, Q)
    BY RestQ
  <2>4. ZeroPart(H0)[k] = b1
    BY <2>2, <2>3, ZeroPartInt
  <2>5. h[k] = b1 * d /\ g[k] = b * d
    BY <2>2, <2>4
  <2>6. b1 * d \in Int /\ b * d \in Int
    OBVIOUS
  <2>7. Same(b1 * d, b * d, Q)
    BY <1>0, <2>3, <2>6, SameProduct
  <2> HIDE DEF h, g
  <2> QED BY <2>5, <2>6, <2>7
<1>3. PICK s \in Int, t \in Int : s = SumTo(m, h) /\ t = SumTo(m, g) /\ Same(s, t, Q)
  <2> HIDE DEF h, g
  <2>1. SumTo(m, h) \in Int /\ SumTo(m, g) \in Int /\ Same(SumTo(m, h), SumTo(m, g), Q)
    BY <1>0, <1>2, SumSame, SumInt
  <2> QED BY <2>1
<1>4. PICK c \in Int : c = exponent % Q /\ Same(c, exponent, Q)
  BY <1>0, RestQ
<1>5. commits[Place + 1][H0] = c
  <2>1. H0 # G0
    BY DEF H0, G0
  <2> QED BY <1>4, <2>1, CommitsAre
<1>6. PICK u \in Int, v \in Int, u1 \in Int, v1 \in Int :
        u = c * p /\ v = r * p /\ u1 = u - s /\ v1 = v - t
  <2>1. c * p \in Int /\ r * p \in Int
    BY <1>0
  <2>2. c * p - s \in Int /\ r * p - t \in Int
    BY <2>1
  <2> QED BY <2>1, <2>2
<1>7. Same(u1, v1, Q) <=> Same(u, v, Q)
  <2>1. u = u1 + s /\ v = v1 + t
    BY <1>6
  <2>2. Same(u1, v1, Q) => Same(u1 + s, v1 + t, Q)
    BY <1>0, <1>3, SameSum
  <2>3. Same(u, v, Q) => Same(u - s, v - t, Q)
    BY <1>0, <1>3, SameSum
  <2> QED BY <1>6, <2>1, <2>2, <2>3
<1>8. Same(u, v, Q) <=> Same(c, r, Q)
  <2>1. x \in Challenges
    BY <1>0 DEF Responded
  <2>2. Same(c, r, Q) => Same(c * p, r * p, Q)
    BY <1>0, SameProduct
  <2>3. Same(c * p, r * p, Q) => Same(c, r, Q)
    BY <1>0, <1>1, <2>1, PowerCancels
  <2> QED BY <1>6, <2>2, <2>3
<1>9. Same(c, r, Q) <=> exponent % Q = r % Q
  <2>1. c % Q = exponent % Q
    BY <1>0, <1>4, SameMod
  <2>2. Same(c, r, Q) <=> c % Q = r % Q
    BY <1>0, SameMod
  <2> QED BY <2>1, <2>2
<1>10. Left[H0] = u1 % Q
  <2>1. Difference(m, c, p, ZeroPart(H0), x) = u1
    <3>1. Difference(m, c, p, ZeroPart(H0), x) = c * p - SumTo(m, h)
      BY DEF Difference
    <3> HIDE DEF h
    <3> QED BY <1>3, <1>6, <3>1
  <2> QED BY <1>1, <1>5, <2>1, LeftIs
<1>11. PICK z \in Int : z = v1 % Q /\ Same(z, v1, Q)
  BY RestQ
<1>12. proof.z = z
  <2>1. Final(x) = (r * p - SumTo(m, g)) % Q
    BY <1>1 DEF Final
  <2>2. r * p - SumTo(m, g) = v1
    <3> HIDE DEF g
    <3> QED BY <1>3, <1>6
  <2> HIDE DEF g
  <2> QED BY <1>0, <1>11, <2>1, <2>2 DEF Responded
<1>13. z % Q = v1 % Q
  BY <1>0, <1>11, SameMod
<1>14. CommitZero(proof.z)[H0] = z % Q
  BY <1>12, ZeroIs
<1>15. u1 % Q = v1 % Q <=> Same(u1, v1, Q)
  BY <1>0, SameMod
<1> QED BY <1>7, <1>8, <1>9, <1>10, <1>13, <1>14, <1>15

\* The check of the sums passes for exactly the commitments h[0]^r.
LEMMA SumCheckIff ==
    ASSUME InstanceInv, DrawnInv, ProofInv, Answered
    PROVE  SumCheck <=> Opens
<1>0. /\ m \in Nat /\ x \in Int /\ Q \in Nat \ {0} /\ value \in {0, 1}
      /\ Responded(sigma, a, blind, x)
  BY AnsweredIs DEF InstanceInv
<1>1. SumCheck <=> Left = CommitZero(proof.z)
  BY DEF SumCheck, Left, MinusPowers
<1>2. PICK p \in Int : p = Power(x, m)
  BY <1>0, PowerInt
<1>3. ASSUME Opens PROVE Left = CommitZero(proof.z)
  <2>1. ASSUME NEW y \in Generators PROVE Left[y] = CommitZero(proof.z)[y]
    <3>1. CASE y = H0
      BY <1>3, <3>1, LeftZero DEF Opens
    <3>2. CASE y # H0
      <4>1. Left[y] = (IF y = G0 THEN 0 * p ELSE 0) % Q
        BY <1>2, <1>3, <3>2, LeftElsewhere DEF Opens
      <4>2. 0 * p = 0
        OBVIOUS
      <4>3. Left[y] = 0
        BY <4>1, <4>2, ZeroRest
      <4> QED BY <3>2, <4>3, ZeroIs
    <3> QED BY <3>1, <3>2
  <2>2. Left = [y \in Generators |-> Left[y]]
    BY DEF Left, Plus
  <2>3. CommitZero(proof.z) = [y \in Generators |-> CommitZero(proof.z)[y]]
    BY DEF CommitZero
  <2>4. [y \in Generators |-> Left[y]] = [y \in Generators |-> CommitZero(proof.z)[y]]
    BY <2>1
  <2> QED BY <2>2, <2>3, <2>4
<1>4. ASSUME Left = CommitZero(proof.z) PROVE Opens
  <2>1. G0 \in Generators /\ G0 # H0 /\ H0 \in Generators
    <3>1. 0 \in Digits /\ 0 \in 0..(n - 1)
      BY DEF InstanceInv, Digits
    <3>2. PICK q : q = <<0, 0>>
      OBVIOUS
    <3>3. q \in Cells /\ H0 = <<"h", q[1], q[2]>>
      BY <3>1, <3>2 DEF Cells, H0
    <3> QED BY <3>3 DEF Generators, G0, H0
  <2>2. exponent % Q = r % Q
    BY <1>4, <2>1, LeftZero
  <2>3. Left[G0] = 0
    BY <1>4, <2>1, ZeroIs
  <2>4. Left[G0] = (value * p) % Q
    BY <1>2, <2>1, LeftElsewhere
  <2>5. PICK c \in Int, o \in Int : c = value /\ o = 0
    BY <1>0
  <2>6. Same(c * p, o * p, Q)
    <3>1. PICK y \in Int : y = c * p
      BY <2>5
    <3>2. y % Q = o % Q /\ o * p = o
      BY <2>3, <2>4, <2>5, <3>1, ZeroRest
    <3> QED BY <1>0, <2>5, <3>1, <3>2, SameMod
  <2>7. Same(c, o, Q)
    BY <1>0, <1>2, <2>6, PowerCancels DEF Responded
  <2>8. value # 1
    <3>1. 1 % Q = 1 \/ Q = 1
      BY <1>0
    <3>2. Q > 1
      BY Order
    <3>3. c % Q = o % Q
      BY <1>0, <2>7, SameMod
    <3> QED BY <2>5, <3>1, <3>2, <3>3, ZeroRest
  <2> QED BY <1>0, <2>2, <2>8 DEF Opens
<1> QED BY <1>1, <1>3, <1>4

\* The proof that the prover has sent so far consists of commitments to what it
\* has drawn and of answers to the challenge.
THEOREM ProofAlways == Spec => [](InstanceInv /\ DrawnInv /\ ProofInv)
<1>1. Init => ProofInv
  BY ProofInitial
<1>2. InstanceInv /\ ProofInv /\ [Next]_vars => ProofInv'
  BY ProofStep
<1> QED BY <1>1, <1>2, DrawnAlways, PTL DEF Spec

\* The powers that SigmaPlusVerifier computes from the f, with a shortcut of its
\* own, are the values of the prover's polynomials at the challenge.
THEOREM SidesAlwaysAgree == Spec => []SidesAgree
<1>1. InstanceInv /\ DrawnInv /\ ProofInv => SidesAgree
  <2> SUFFICES ASSUME InstanceInv, DrawnInv, ProofInv, phase \in {"verify", "done"},
                      NEW i \in 1..N
               PROVE  f_i_[i] = (SumTo(m, [k \in 1..m |-> P_i_k[i][k] * Power(x, k - 1)])
                         + (IF i - 1 = Place THEN Power(x, m) ELSE 0)) % Q
    BY DEF SidesAgree
  <2>1. Answered
    BY DEF Answered
  <2>2. /\ f_i_[i] \in 0..(Q - 1)
        /\ Lowest(P_i_k, i, x, m) \in Int /\ Power(x, m) \in Int
        /\ Same(f_i_[i], Lowest(P_i_k, i, x, m)
                              + (IF i - 1 = Place THEN Power(x, m) ELSE 0), Q)
    BY <2>1, AnsweredIs, SidesAre
  <2>3. PICK z \in Int :
          z = Lowest(P_i_k, i, x, m) + (IF i - 1 = Place THEN Power(x, m) ELSE 0)
    BY <2>2
  <2>4. f_i_[i] = z % Q
    BY <2>2, <2>3, Order, SameEqual
  <2> QED BY <2>3, <2>4 DEF Lowest
<1> QED BY <1>1, ProofAlways, PTL

\* A well-formed proof for h[0]^r is accepted; one for another commitment is
\* not, be it of another value or with another exponent.
LEMMA VerdictStep ==
    ASSUME InstanceInv, DrawnInv, ProofInv, Complete, OnlyMembers, [Next]_vars
    PROVE  Complete' /\ OnlyMembers'
<1>0. n' = n /\ m' = m /\ N' = N /\ l' = l /\ r' = r /\ exponent' = exponent
      /\ value' = value
  BY DEF Next, Commit, Respond, Verify, vars, instance
<1>1. Cells' = Cells /\ Generators' = Generators /\ commits' = commits
  BY <1>0, SamePoints
<1>2. proof' = proof /\ x' = x => (WellFormed' <=> WellFormed)
  <2>1. Infinity' = Infinity
    BY <1>1 DEF Infinity
  <2> SUFFICES ASSUME proof' = proof, x' = x
               PROVE  WellFormed' <=> WellFormed
    OBVIOUS
  <2> QED BY <1>0, <2>1 DEF WellFormed
<1>3. CASE Commit \/ Respond
  <2>1. phase' # "done" /\ verdict' = "none"
    BY <1>3 DEF Commit, Respond, ProofInv
  <2> QED BY <2>1 DEF Complete, OnlyMembers
<1>4. CASE Verify
  <2>1. phase = "verify" /\ phase' = "done" /\ proof' = proof /\ x' = x
        /\ verdict' = IF WellFormed /\ R1Verify /\ SumCheck THEN "accept" ELSE "reject"
    BY <1>4 DEF Verify
  <2>2. R1Verify /\ (SumCheck <=> Opens) /\ (Opens' <=> Opens)
    BY <1>0, <2>1, R1Always, SumCheckIff DEF Answered, Opens
  <2>3. Opens' /\ WellFormed' => verdict' = "accept"
    BY <1>2, <2>1, <2>2
  <2>4. verdict' = "accept" => Opens'
    BY <2>1, <2>2
  <2> QED BY <2>3, <2>4 DEF Complete, OnlyMembers
<1>5. CASE UNCHANGED vars
  <2>1. phase' = phase /\ verdict' = verdict /\ proof' = proof /\ x' = x
    BY <1>5 DEF vars
  <2>2. Opens' <=> Opens
    BY <1>0 DEF Opens
  <2> QED BY <1>2, <2>1, <2>2 DEF Complete, OnlyMembers
<1> QED BY <1>3, <1>4, <1>5 DEF Next

\* The verifier accepts the prover's proof, if it is well formed, for exactly the
\* commitments h[0]^r, whatever their place.
THEOREM VerdictRight == Spec => [](Complete /\ OnlyMembers)
<1>1. Init => Complete /\ OnlyMembers
  BY DEF Init, Complete, OnlyMembers
<1>2. InstanceInv /\ DrawnInv /\ ProofInv /\ Complete /\ OnlyMembers /\ [Next]_vars
        => Complete' /\ OnlyMembers'
  BY VerdictStep
<1> QED BY <1>1, <1>2, ProofAlways, PTL DEF Spec

\* A well-formed proof for a commitment h[0]^r, also at a place past the end, is
\* accepted.
THEOREM CompleteAlways == Spec => []Complete
<1> QED BY VerdictRight, PTL

\* A commitment to another value than 0, or with another exponent than the
\* prover was given, is never accepted from this prover.
THEOREM OnlyMembersAlways == Spec => []OnlyMembers
<1> QED BY VerdictRight, PTL

=============================================================================
