----------------------------- MODULE SigmaProofs -----------------------------
(***************************************************************************)
(* The sigma protocols of depends/nizk and the signature of                *)
(* twisted_elgamal.hpp.  Each shows a witness w with stmt = Phi(bases, w):  *)
(* bases is a matrix of points with one row per equation and one column    *)
(* per secret, and stmt has one point per equation.                        *)
(*                                                                         *)
(*   dlog       g1^w = h1, g2^w = h2                                       *)
(*   knowledge  pk^r = X, g^r h^v = Y                                      *)
(*   equality   pk1^r = X1, pk2^r = X2, g^r h^v = Y                        *)
(*   sign       g^sk = pk                                                  *)
(*                                                                         *)
(* A point is the pair of its exponents over g and h, between which nobody *)
(* knows a relation (h is the hash of g).                                  *)
(***************************************************************************)
EXTENDS Integers, Sequences

CONSTANT Q   \* order of the group, a prime

Scalar == 0..(Q - 1)
Unit == 1..(Q - 1)
Point == Scalar \X Scalar

ASSUME GroupAssumption ==
    /\ Q \in Nat /\ Q > 1
    /\ \A e \in Unit : \E y \in Unit : (e * y) % Q = 1

G == <<1, 0>>
H == <<0, 1>>
Infinity == <<0, 0>>

\* BN_mod_inverse, and 0 for 0 as secp256k1 has it.
Inverse(e) == IF e = 0 THEN 0 ELSE CHOOSE y \in Unit : (e * y) % Q = 1

Times(p, e) == <<(p[1] * e) % Q, (p[2] * e) % Q>>
Plus(p, q) == <<(p[1] + q[1]) % Q, (p[2] + q[2]) % Q>>
Minus(p, q) == <<(p[1] - q[1]) % Q, (p[2] - q[2]) % Q>>
Combine(row, w) ==
    IF Len(row) = 1 THEN Times(row[1], w[1])
    ELSE Plus(Times(row[1], w[1]), Times(row[2], w[2]))

Phi(bases, w) == [i \in DOMAIN bases |-> Combine(bases[i], w)]
Witness(bases) == [1..Len(bases[1]) -> Scalar]

\* The statements of the protocols.
DlogBases(g1, g2) == << <<g1>>, <<g2>> >>
KnowledgeBases(pk) == << <<pk, Infinity>>, <<G, H>> >>
EqualityBases(pk1, pk2) == << <<pk1, Infinity>>, <<pk2, Infinity>>, <<G, H>> >>
SignBases == << <<G>> >>

-----------------------------------------------------------------------------
\* Mutant: without the secret.
RespondBare(a, e, w) == a

\* The prover's answer to the challenge e, from the randomness a of its first
\* message Phi(bases, a).
Respond(a, e, w) == [i \in DOMAIN w |-> (a[i] + e * w[i]) % Q]

\* Mutant: only the first equation.
CheckFirst(bases, stmt, com, e, z) ==
    Combine(bases[1], z) = Plus(com[1], Times(stmt[1], e))

\* The verifier's conditions, one per equation.
Check(bases, stmt, com, e, z) ==
    \A i \in DOMAIN bases :
        Combine(bases[i], z) = Plus(com[i], Times(stmt[i], e))

=============================================================================
