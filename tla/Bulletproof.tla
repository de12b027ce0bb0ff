----------------------------- MODULE Bulletproof -----------------------------
(***************************************************************************)
(* The aggregated range proof (bulletproofs/aggregate_bulletproof.hpp): an  *)
(* honest prover shows that each C[i] = g^r[i] h^v[i] has 0 <= v[i] <       *)
(* 2^RANGE_LEN, and a verifier checks the same proof object several times.  *)
(* The prover's witness may be out of range: its low bits are proved.       *)
(*                                                                         *)
(* Prover and verifier hash the same transcript as long as they put the     *)
(* same points into it; where they do not, the verifier's challenge is any. *)
(***************************************************************************)
EXTENDS InnerProduct

CONSTANTS RANGE_LEN, AGG_NUM,  \* VECTOR_LEN = RANGE_LEN * AGG_NUM
          Values, Draws,       \* bounds: witnesses, and randomness drawn
          Blinds,              \* bound: blinding vectors drawn
          MaxChecks            \* bound: verifications of one proof

ASSUME BulletAssumption ==
    /\ RANGE_LEN \in Nat \ {0} /\ AGG_NUM \in Nat \ {0}
    /\ VECTOR_LEN = RANGE_LEN * AGG_NUM
    /\ Values \subseteq Nat /\ Draws \subseteq Nat
    /\ Blinds \subseteq [1..VECTOR_LEN -> 0..(Q - 1)]

VARIABLES phase,
          v, r, C,                    \* witness and instance
          alpha, rho, sL, sR, y, z,   \* randomness and first challenges
          x, e,                       \* later challenges
          proof,                      \* A, S, T1, T2, taux, mu, tx
          sent,                       \* the instance the inner product shows
          checks, verdict

secrets == <<v, r, alpha, rho, sL, sR>>
bulletVars == <<phase, secrets, C, y, z, x, e, proof, sent, checks, verdict>>
vars == <<ipVars, bulletVars>>

-----------------------------------------------------------------------------
(* Generators g, h, u, g[i] and h[i] as unit vectors. *)

Dim == 3 + 2 * VECTOR_LEN
Generator(k) == [j \in 1..Dim |-> IF j = k THEN 1 ELSE 0]
G == Generator(1)
H == Generator(2)
U == Generator(3)
GG == [i \in 1..VECTOR_LEN |-> Generator(3 + i)]
HH == [i \in 1..VECTOR_LEN |-> Generator(3 + VECTOR_LEN + i)]
NoPoint == [j \in 1..Dim |-> 0]

Ones == [i \in 1..VECTOR_LEN |-> 1]
Agg == 1..AGG_NUM

\* z^(j+1) in the place of every commitment j, repeated over its bits with
\* the powers of two: the sum the loops over AGG_NUM add to a vector.
\* Mutant: every commitment gets the same power.
ZTwosSame(zz) ==
    [i \in 1..VECTOR_LEN |-> (Power(zz, 2) * Power(2, (i - 1) % RANGE_LEN)) % Q]
ZTwos(zz) ==
    [i \in 1..VECTOR_LEN |->
        (Power(zz, (i - 1) \div RANGE_LEN + 2) * Power(2, (i - 1) % RANGE_LEN)) % Q]

\* BN_parse_binary of the witness: bits beyond RANGE_LEN are not looked at.
Bits(w) == [i \in 1..VECTOR_LEN |->
              (w[(i - 1) \div RANGE_LEN + 1] \div Power(2, (i - 1) % RANGE_LEN)) % 2]

\* The bases h[i]^(y^-i) of the inner product.
NewH(yy) == ECP_vec_product(HH, BN_vec_gen_power(VECTOR_LEN, Inverse(yy)))

-----------------------------------------------------------------------------
(* The prover. *)

NoProof == [A |-> NoPoint, S |-> NoPoint, T1 |-> NoPoint, T2 |-> NoPoint,
            taux |-> 0, mu |-> 0, tx |-> 0]

Init ==
    /\ phase = "start"
    /\ v \in [Agg -> Values] /\ r \in [Agg -> Draws]
    /\ C = [i \in Agg |-> ECP_vec_mul(<<G, H>>, <<r[i], v[i]>>)]
    /\ alpha = 0 /\ rho = 0 /\ sL = <<>> /\ sR = <<>>
    /\ y = 1 /\ z = 1 /\ x = 1 /\ e = 1
    /\ proof = NoProof /\ sent = NoPoint /\ checks = 0 /\ verdict = "none"
    /\ vec_g = <<>> /\ vec_h = <<>> /\ P = NoPoint /\ u = NoPoint
    /\ vec_a = <<>> /\ vec_b = <<>> /\ vec_L = <<>> /\ vec_R = <<>> /\ vec_x = <<>>

AL == Bits(v)
AR == BN_vec_sub(AL, Ones)

\* Commit to the bits and to the blinding vectors (Eq 44, 47, 49, 50).
CommitBits ==
    /\ phase = "start"
    /\ \E a, p \in Draws, l, w \in Blinds, c, d \in Challenges :
          /\ alpha' = a /\ rho' = p /\ sL' = l /\ sR' = w /\ y' = c /\ z' = d
          /\ proof' = [proof EXCEPT
                !.A = ECP_vec_mul(<<H>> \o GG \o HH, <<a>> \o AL \o AR),
                !.S = ECP_vec_mul(<<H>> \o GG \o HH, <<p>> \o l \o w)]
    /\ phase' = "polynomial"
    /\ UNCHANGED <<ipVars, v, r, C, x, e, sent, checks, verdict>>

\* The vector polynomials l(X) = ll0 + ll1 X and r(X) = rr0 + rr1 X.
LL0 == BN_vec_sub(AL, BN_vec_scalar(Ones, z))
RR0 == BN_vec_add(BN_vec_product(BN_vec_gen_power(VECTOR_LEN, y),
                                 BN_vec_add(AR, BN_vec_scalar(Ones, z))),
                  ZTwos(z))
RR1 == BN_vec_product(BN_vec_gen_power(VECTOR_LEN, y), sR)
T1Coefficient == (BN_vec_inner_product(sL, RR0) + BN_vec_inner_product(LL0, RR1)) % Q
T2Coefficient == BN_vec_inner_product(sL, RR1)

\* Commit to t(X), evaluate at the challenge and start the inner product
\* argument (Eq 53 to 62).
CommitPolynomial ==
    /\ phase = "polynomial"
    /\ \E tau1, tau2 \in Draws, c, d \in Challenges :
          LET llx == BN_vec_add(LL0, BN_vec_scalar(sL, c))
              rrx == BN_vec_add(RR0, BN_vec_scalar(RR1, c))
              uu == ECP_vec_mul(<<U>>, <<d>>)
              zr == SumTo(AGG_NUM, [j \in Agg |-> Power(z, j + 1) * r[j]])
              p == Commitment(GG, NewH(y), uu, llx, rrx)
          IN /\ x' = c /\ e' = d
             /\ proof' = [proof EXCEPT
                   !.T1 = ECP_vec_mul(<<G, H>>, <<tau1, T1Coefficient>>),
                   !.T2 = ECP_vec_mul(<<G, H>>, <<tau2, T2Coefficient>>),
                   !.tx = BN_vec_inner_product(llx, rrx),
                   !.taux = (tau1 * c + tau2 * c * c + zr) % Q,
                   !.mu = (alpha + rho * c) % Q]
             /\ IPStart(GG, NewH(y), p, uu, llx, rrx)
             /\ sent' = p
    /\ phase' = "fold"
    /\ UNCHANGED <<secrets, C, y, z, checks, verdict>>

Fold ==
    /\ phase = "fold"
    /\ \E c \in Challenges : InnerProduct_Round(c)
    /\ UNCHANGED bulletVars

\* The last level of the recursion sends the two scalars that are left.
Finish ==
    /\ phase = "fold" /\ Len(vec_a) = 1 /\ phase' = "verify"
    /\ UNCHANGED <<ipVars, secrets, C, y, z, x, e, proof, sent, checks, verdict>>

-----------------------------------------------------------------------------
(* The verifier. *)

\* (z - z^2) <1, y^nm> - sum z^(j+2) <1, 2^n>.  Mutant: z^(j+1).
DeltaShort ==
    ((z - z * z) * SumTo(VECTOR_LEN, BN_vec_gen_power(VECTOR_LEN, y))
       - SumTo(AGG_NUM, [j \in Agg |-> Power(z, j + 1)]) * (Power(2, RANGE_LEN) - 1)) % Q
Delta ==
    ((z - z * z) * SumTo(VECTOR_LEN, BN_vec_gen_power(VECTOR_LEN, y))
       - SumTo(AGG_NUM, [j \in Agg |-> Power(z, j + 2)]) * (Power(2, RANGE_LEN) - 1)) % Q

\* Eq (72).
PolynomialCheckSkipped == TRUE   \* mutant
PolynomialCheck ==
    ECP_vec_mul(<<G, H>>, <<proof.taux, proof.tx>>)
      = ECP_vec_mul(C \o <<H, proof.T1, proof.T2>>,
                    [j \in Agg |-> Power(z, j + 1)] \o <<Delta, x, x * x>>)

\* The instance of the inner product, from the commitments and minus mu.
\* Mutant: mu is not turned.
VerifierMuUnturned == proof.mu
VerifierMu == (-proof.mu) % Q
VerifierP(uu) ==
    ECP_vec_mul(<<proof.A, proof.S>> \o GG \o NewH(y) \o <<H, uu>>,
                <<1, x>> \o BN_vec_scalar(Ones, (-z) % Q)
                  \o BN_vec_add(BN_vec_scalar(BN_vec_gen_power(VECTOR_LEN, y), z),
                                ZTwos(z))
                  \o <<VerifierMu, proof.tx>>)

\* The verifier negates mu in the proof itself.
Bullet_Verify ==
    /\ phase = "verify" /\ checks < MaxChecks
    /\ \E xs \in [1..Len(vec_x) -> Challenges] :
          LET uu == ECP_vec_mul(<<U>>, <<e>>)
              p == VerifierP(uu)
          IN /\ p = sent => xs = vec_x
             /\ verdict' =
                  IF /\ PolynomialCheck
                     /\ InnerProduct_Verify(GG, NewH(y), p, uu, xs, vec_L, vec_R,
                                            vec_a[1], vec_b[1])
                  THEN "accept" ELSE "reject"
    /\ proof' = [proof EXCEPT !.mu = VerifierMu]
    /\ checks' = checks + 1
    /\ UNCHANGED <<ipVars, phase, secrets, C, y, z, x, e, sent>>

Next == CommitBits \/ CommitPolynomial \/ Fold \/ Finish \/ Bullet_Verify

Spec == Init /\ [][Next]_vars

-----------------------------------------------------------------------------
\* Every level of InnerProduct_Prove hands the next one an instance of which
\* it has the witness, after any number of rounds with any challenges.
RoundsKeepRelation ==
    phase \in {"fold", "verify"} =>
        P = Commitment(vec_g, vec_h, u, vec_a, vec_b)

\* The vector s of the verifier (compute_vec_ss) is what the prover's rounds
\* do to the bases: both arrive at the same two points.
BasesAgree ==
    phase = "verify" =>
        LET s == compute_vec_ss(VECTOR_LEN, vec_x)
        IN /\ vec_g[1] = ECP_vec_mul(GG, s)
           /\ vec_h[1] = ECP_vec_mul(NewH(y), BN_vec_inverse(s))

InRange(w) == \A i \in Agg : w[i] < Power(2, RANGE_LEN)

\* Proofs of values in the range are accepted the first time and every other
\* time after it: Bullet_Verify turns the sign of proof.mu and leaves it
\* turned (aggregate_bulletproof.hpp:620), so that only each second
\* verification of one proof sees what the prover sent.
Complete == InRange(v) /\ checks % 2 = 1 => verdict = "accept"

\* A value out of the range cannot be shown: its proof is that of its low
\* bits and does not fit the commitment, whenever it is verified.
OnlyInRange == verdict = "accept" => InRange(v)

=============================================================================
