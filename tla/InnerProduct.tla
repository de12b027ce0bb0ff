----------------------------- MODULE InnerProduct -----------------------------
(***************************************************************************)
(* The inner product argument (bulletproofs/innerproduct_proof.hpp): the    *)
(* prover halves bases and witness once per round; the verifier, who knows  *)
(* only L and R of each round and the last two scalars, computes all rounds *)
(* at once from the vector s.                                               *)
(*                                                                         *)
(* A point is the vector of its exponents over generators nobody knows a    *)
(* relation between.  Every challenge is a unit: the hash is 0 with a       *)
(* probability the argument neglects.                                       *)
(***************************************************************************)
EXTENDS Arithmetic, Sequences

CONSTANTS Q,            \* order of the group, a prime
          VECTOR_LEN,   \* a power of two
          Challenges    \* bound: challenges the hash gives, all units

ASSUME FieldAssumption ==
    /\ Q \in Nat /\ Q > 1
    /\ \A c \in 1..(Q - 1) : \E w \in 1..(Q - 1) : (c * w) % Q = 1
    /\ Challenges \subseteq 1..(Q - 1)

ASSUME LengthAssumption ==
    /\ VECTOR_LEN \in Nat \ {0}
    /\ \A d \in 2..VECTOR_LEN : VECTOR_LEN % d = 0 => d % 2 = 0

Inverse(x) == CHOOSE y \in 1..(Q - 1) : (x * y) % Q = 1

VARIABLES vec_g, vec_h, P, u,    \* parameters and instance of this round
          vec_a, vec_b,          \* witness of this round
          vec_L, vec_R,          \* the proof so far
          vec_x                  \* the challenges so far

ipVars == <<vec_g, vec_h, P, u, vec_a, vec_b, vec_L, vec_R, vec_x>>

-----------------------------------------------------------------------------
(* Vectors of scalars, and points. *)

BN_vec_inner_product(a, b) == SumTo(Len(a), [i \in 1..Len(a) |-> a[i] * b[i]]) % Q
BN_vec_add(a, b) == [i \in 1..Len(a) |-> (a[i] + b[i]) % Q]
BN_vec_sub(a, b) == [i \in 1..Len(a) |-> (a[i] - b[i]) % Q]
BN_vec_product(a, b) == [i \in 1..Len(a) |-> (a[i] * b[i]) % Q]
BN_vec_scalar(a, c) == [i \in 1..Len(a) |-> (a[i] * c) % Q]
BN_vec_inverse(a) == [i \in 1..Len(a) |-> Inverse(a[i])]
\* 1, c, c^2, ...
BN_vec_gen_power(n, c) ==
    LET p[k \in 1..n] == IF k = 1 THEN 1 ELSE (c * p[k - 1]) % Q IN p

\* ECP_vec_mul: the sum of a[i] * A[i].
ECP_vec_mul(A, a) ==
    [k \in DOMAIN A[1] |-> SumTo(Len(A), [i \in 1..Len(A) |-> a[i] * A[i][k]]) % Q]
ECP_vec_product(A, a) == [i \in 1..Len(A) |-> ECP_vec_mul(<<A[i]>>, <<a[i]>>)]
ECP_vec_scalar(A, c) == [i \in 1..Len(A) |-> ECP_vec_mul(<<A[i]>>, <<c>>)]
ECP_vec_add(A, B) == [i \in 1..Len(A) |-> ECP_vec_mul(<<A[i], B[i]>>, <<1, 1>>)]

\* BN_vec_assign and ECP_vec_assign.
Left(s) == SubSeq(s, 1, Len(s) \div 2)
Right(s) == SubSeq(s, Len(s) \div 2 + 1, Len(s))

-----------------------------------------------------------------------------
(* The prover. *)

\* P = g^a h^b u^<a,b>.
Commitment(g, h, uu, a, b) ==
    ECP_vec_mul(g \o h \o <<uu>>, a \o b \o <<BN_vec_inner_product(a, b)>>)

IPStart(g, h, p, uu, a, b) ==
    /\ vec_g' = g /\ vec_h' = h /\ P' = p /\ u' = uu
    /\ vec_a' = a /\ vec_b' = b
    /\ vec_L' = <<>> /\ vec_R' = <<>> /\ vec_x' = <<>>

\* Mutants of the folding: the bases h the same way as g; the witness b too.
FoldHLikeG(h, x) ==
    ECP_vec_add(ECP_vec_scalar(Left(h), Inverse(x)), ECP_vec_scalar(Right(h), x))
FoldGSwapped(g, x) ==
    ECP_vec_add(ECP_vec_scalar(Left(g), x), ECP_vec_scalar(Right(g), Inverse(x)))

FoldG(g, x) ==
    ECP_vec_add(ECP_vec_scalar(Left(g), Inverse(x)), ECP_vec_scalar(Right(g), x))
FoldH(h, x) ==
    ECP_vec_add(ECP_vec_scalar(Left(h), x), ECP_vec_scalar(Right(h), Inverse(x)))

\* One level of the recursion.
InnerProduct_Round(x) ==
    LET aL == Left(vec_a) aR == Right(vec_a) bL == Left(vec_b) bR == Right(vec_b)
        L == ECP_vec_mul(Right(vec_g) \o Left(vec_h) \o <<u>>,
                         aL \o bR \o <<BN_vec_inner_product(aL, bR)>>)
        R == ECP_vec_mul(Left(vec_g) \o Right(vec_h) \o <<u>>,
                         aR \o bL \o <<BN_vec_inner_product(aR, bL)>>)
        y == Inverse(x)
    IN /\ Len(vec_a) > 1
       /\ vec_L' = Append(vec_L, L) /\ vec_R' = Append(vec_R, R)
       /\ vec_x' = Append(vec_x, x)
       /\ vec_g' = FoldG(vec_g, x) /\ vec_h' = FoldH(vec_h, x)
       /\ P' = ECP_vec_mul(<<L, P, R>>, <<x * x, 1, y * y>>)
       /\ vec_a' = BN_vec_add(BN_vec_scalar(aL, x), BN_vec_scalar(aR, y))
       /\ vec_b' = BN_vec_add(BN_vec_scalar(bL, y), BN_vec_scalar(bR, x))
       /\ UNCHANGED u

-----------------------------------------------------------------------------
(* The verifier. *)

\* Bit j of num, counted from the most significant of m bits.
int_parse_binary(num, j, m) == (num \div Power(2, m - 1 - j)) % 2

\* Mutant: the bits counted from the other end.
compute_vec_ssReversed(n, x) ==
    LET m == Len(x)
    IN [i \in 1..n |->
          LET s[j \in 0..m] ==
                IF j = 0 THEN 1
                ELSE IF int_parse_binary(i - 1, m - j, m) = 1
                     THEN (s[j - 1] * x[j]) % Q
                     ELSE (s[j - 1] * Inverse(x[j])) % Q
          IN s[m]]

compute_vec_ss(n, x) ==
    LET m == Len(x)
    IN [i \in 1..n |->
          LET s[j \in 0..m] ==
                IF j = 0 THEN 1
                ELSE IF int_parse_binary(i - 1, j - 1, m) = 1
                     THEN (s[j - 1] * x[j]) % Q
                     ELSE (s[j - 1] * Inverse(x[j])) % Q
          IN s[m]]

\* The equation on top of page 17 of the paper, from the first instance, the
\* challenges xs and the proof.
InnerProduct_Verify(g, h, p, uu, xs, L, R, a, b) ==
    LET s == compute_vec_ss(Len(g), xs)
        left == ECP_vec_mul(g \o h \o <<uu>>,
                            BN_vec_scalar(s, a)
                              \o BN_vec_scalar(BN_vec_inverse(s), b)
                              \o <<(a * b) % Q>>)
        squares == [i \in 1..Len(xs) |-> (xs[i] * xs[i]) % Q]
    IN left = ECP_vec_mul(<<p>> \o L \o R,
                          <<1>> \o squares \o BN_vec_inverse(squares))

=============================================================================
