------------------------------ MODULE OneOutOfN ------------------------------
(***************************************************************************)
(* The one-out-of-N proof of a refresh (depends/oneoutofnproofs/src): one   *)
(* of N commitments, whose place l nobody learns, is h[0]^r.  The places    *)
(* are written with m digits in base n; all the places from N - 1 to        *)
(* n^m - 1 stand for the last commitment, and both sides add up their       *)
(* polynomials with a shortcut instead of one by one.                       *)
(*                                                                         *)
(* A point is a function from independent generators to its exponents.      *)
(***************************************************************************)
EXTENDS Arithmetic, Sequences

CONSTANTS Q,            \* order of the group, a prime
          Shapes,       \* bounds: pairs <<n, m>>
          Sizes(_, _),  \*   N for a shape
          Rows(_),      \*   randomness of a row, its cells 1 .. n - 1
          Blinds,       \*   <<rA, rB, rC, rD>>
          Rhos(_),      \*   Pk, for each of the m points Gk
          Challenges    \*   what the hash gives, all units

ASSUME ProtocolAssumption ==
    /\ Q \in Nat /\ Q > 1
    /\ Challenges \subseteq 1..(Q - 1)
    /\ \A c \in Challenges : \E w \in 1..(Q - 1) : (c * w) % Q = 1
    /\ Shapes \subseteq (Nat \ {0, 1}) \X (Nat \ {0})
    /\ \A s \in Shapes :
          /\ Sizes(s[1], s[2]) \subseteq 1..Power(s[1], s[2])
          /\ Rows(s[1]) \subseteq [1..(s[1] - 1) -> Int]
          /\ Rhos(s[2]) \subseteq [1..s[2] -> Int]
    /\ Blinds \subseteq [1..4 -> Int]

VARIABLES phase,
          n, m, N, l,            \* the instance
          exponent, value,       \* of its commitment h[0]^exponent g^value
          r,                     \* the exponent the prover was given
          sigma, a, blind, Pk,   \* digits of l as bits; the prover's randomness
          P_i_k,                 \* coefficients of the N polynomials
          x,                     \* the challenge
          proof,                 \* A, B, C, D, Gk and f, ZA, ZC, z
          verdict

instance == <<n, m, N, l, exponent, value, r>>
vars == <<phase, instance, sigma, a, blind, Pk, P_i_k, x, proof, verdict>>

Digits == 0..(m - 1)
Cells == Digits \X (0..(n - 1))
Places == 0..(N - 1)

-----------------------------------------------------------------------------
(* Points. *)

Generators == {<<"g", 0, 0>>} \cup {<<"h", p[1], p[2]>> : p \in Cells}
                \cup {<<"c", i, 0>> : i \in Places}
Infinity == [k \in Generators |-> 0]
Times(p, e) == [k \in Generators |-> (p[k] * e) % Q]
Plus(p, q) == [k \in Generators |-> (p[k] + q[k]) % Q]
\* The product of s[i] to the e[i].
MultiExponent(s, e) ==
    [k \in Generators |-> SumTo(Len(s), [i \in 1..Len(s) |-> s[i][k] * e[i]]) % Q]

\* commit: g^rr times the h[j, i]^exp[j, i], and its form with h[0] alone.
CommitCells(exp, rr) ==
    [k \in Generators |-> CASE k[1] = "g" -> rr % Q
                            [] k[1] = "h" -> exp[<<k[2], k[3]>>] % Q
                            [] OTHER -> 0]
CommitZero(e) == [k \in Generators |-> IF k = <<"h", 0, 0>> THEN e % Q ELSE 0]

\* The place whose commitment stands for l.
Place == IF l < N THEN l ELSE N - 1
commits ==
    [i \in 1..N |-> IF i - 1 = Place
                    THEN [CommitZero(exponent) EXCEPT ![<<"g", 0, 0>>] = value]
                    ELSE [k \in Generators |-> IF k = <<"c", i - 1, 0>> THEN 1 ELSE 0]]

-----------------------------------------------------------------------------
(* Digits and polynomials; the coefficient of X^k is at position k + 1. *)

convert_to_nal(num) == [j \in Digits |-> (num \div Power(n, j)) % n]
convert_to_sigma(num) ==
    [p \in Cells |-> IF p[2] = convert_to_nal(num)[p[1]] THEN 1 ELSE 0]

\* coefficients * (ee X + aa).  Mutant: the constant stays as it is.
new_factorStale(ee, aa, c) ==
    [i \in 1..(Len(c) + 1) |->
        ((IF i = 1 THEN c[1] ELSE IF i <= Len(c) THEN aa * c[i] ELSE 0)
           + (IF i > 1 THEN ee * c[i - 1] ELSE 0)) % Q]
new_factor(ee, aa, c) ==
    [i \in 1..(Len(c) + 1) |->
        ((IF i <= Len(c) THEN aa * c[i] ELSE 0)
           + (IF i > 1 THEN ee * c[i - 1] ELSE 0)) % Q]

\* The polynomial of one place, a factor per digit.
PlacePolynomial(s, cells, i) ==
    LET I == convert_to_nal(i)
        product[j \in 0..m] ==
            IF j = 0 THEN <<1>>
            ELSE new_factor(s[<<j - 1, I[j - 1]>>], cells[<<j - 1, I[j - 1]>>],
                            product[j - 1])
    IN product[m]

\* above[j]: the factors of the digits of N - 1 from j on.  larger[j]: those
\* above j, times the sum of the factors of all digits larger at j.
Above(s, cells) ==
    LET I == convert_to_nal(N - 1)
        above[j \in 0..m] ==
            IF j = m THEN <<1>>
            ELSE new_factor(s[<<j, I[j]>>], cells[<<j, I[j]>>], above[j + 1])
    IN above
Larger(s, cells) ==
    LET I == convert_to_nal(N - 1)
    IN [j \in Digits |->
          new_factor(IF convert_to_nal(l)[j] > I[j] THEN 1 ELSE 0,
                     SumTo(n - 1, [i \in 1..(n - 1) |->
                         IF i > I[j] THEN cells[<<j, i>>] ELSE 0]),
                     Above(s, cells)[j + 1])]

\* That of the last commitment: of N - 1, and then, for each digit j, of all
\* places with a larger digit there and the same ones above it, whose lower
\* digits add up to X^j.  The highest coefficient is left alone.
\* Mutant: without X^j.
PaddedPolynomialUnshifted(s, cells) ==
    [k \in 1..(m + 1) |->
        (Above(s, cells)[0][k] + SumTo(m, [j \in 1..m |->
            IF k <= m - j + 1 THEN Larger(s, cells)[j - 1][k] ELSE 0])) % Q]
PaddedPolynomial(s, cells) ==
    [k \in 1..(m + 1) |->
        (Above(s, cells)[0][k] + SumTo(m, [j \in 1..m |->
            IF k >= j /\ k <= m THEN Larger(s, cells)[j - 1][k - j + 1] ELSE 0])) % Q]

-----------------------------------------------------------------------------
(* The prover. *)

NoProof == [A |-> <<>>, B |-> <<>>, C |-> <<>>, D |-> <<>>, Gk |-> <<>>,
            f |-> <<>>, ZA |-> 0, ZC |-> 0, z |-> 0]

Init ==
    /\ phase = "start"
    /\ \E s \in Shapes : n = s[1] /\ m = s[2]
    /\ N \in Sizes(n, m) /\ l \in 0..(Power(n, m) - 1)
    /\ exponent = 2 /\ value \in {0, 1} /\ r \in {2, 4}
    /\ sigma = <<>> /\ a = <<>> /\ blind = <<>> /\ Pk = <<>> /\ P_i_k = <<>>
    /\ x = 1 /\ proof = NoProof /\ verdict = "none"

\* The cells of a: those of column 0 make every row's sum 0.
Fill(rows) ==
    [p \in Cells |-> IF p[2] = 0 THEN (-SumTo(n - 1, rows[p[1]])) % Q
                     ELSE rows[p[1]][p[2]]]

\* Commit to the digits, to the squares of the cells and to the polynomials;
\* a point A, C or D that is the identity is drawn again.
Commit ==
    /\ phase = "start"
    /\ \E rows \in [Digits -> Rows(n)], b \in Blinds, p \in Rhos(m) :
          LET s == convert_to_sigma(l)
              cells == Fill(rows)
              polynomials ==
                  [i \in 1..N |-> IF i < N THEN PlacePolynomial(s, cells, i - 1)
                                  ELSE PaddedPolynomial(s, cells)]
              A == CommitCells(cells, b[1])
              C == CommitCells([q \in Cells |-> (cells[q] * (1 - 2 * s[q])) % Q], b[3])
              D == CommitCells([q \in Cells |-> (-(cells[q] * cells[q])) % Q], b[4])
          IN /\ Infinity \notin {A, C, D}
             /\ sigma' = s /\ a' = cells /\ blind' = b /\ Pk' = p
             /\ P_i_k' = polynomials
             /\ proof' = [proof EXCEPT
                    !.A = A, !.B = CommitCells(s, b[2]), !.C = C, !.D = D,
                    !.Gk = [k \in 1..m |->
                        Plus(MultiExponent(commits, [i \in 1..N |-> polynomials[i][k]]),
                             CommitZero(p[k]))]]
    /\ phase' = "respond"
    /\ UNCHANGED <<instance, x, verdict>>

\* Mutant: the polynomials' randomness is added.
FinalAdded(c) ==
    (r * Power(c, m) + SumTo(m, [k \in 1..m |-> Pk[k] * Power(c, k - 1)])) % Q
Final(c) ==
    (r * Power(c, m) - SumTo(m, [k \in 1..m |-> Pk[k] * Power(c, k - 1)])) % Q

\* generate_final_response, and z.
Respond ==
    /\ phase = "respond"
    /\ \E c \in Challenges :
          /\ x' = c
          /\ proof' = [proof EXCEPT
                !.f = [p \in {q \in Cells : q[2] > 0} |-> (sigma[p] * c + a[p]) % Q],
                !.ZA = (blind[2] * c + blind[1]) % Q,
                !.ZC = (blind[3] * c + blind[4]) % Q,
                !.z = Final(c)]
    /\ phase' = "verify"
    /\ UNCHANGED <<instance, sigma, a, blind, Pk, P_i_k, verdict>>

-----------------------------------------------------------------------------
(* The verifier, who hashes the same points to the same challenge. *)

\* All cells of f: column 0 makes every row's sum x.
FullF ==
    [p \in Cells |->
        IF p[2] > 0 THEN proof.f[p]
        ELSE (x - SumTo(n - 1, [i \in 1..(n - 1) |-> proof.f[<<p[1], i>>]])) % Q]

\* Proofs with a point at infinity or a zero, or with an f that is the
\* challenge, are refused; a prover runs into one with negligible probability.
WellFormed ==
    /\ Infinity \notin {proof.A, proof.B, proof.C, proof.D}
    /\ \A p \in DOMAIN proof.f : proof.f[p] \notin {0, x}
    /\ 0 \notin {proof.ZA, proof.ZC, proof.z}
    /\ \A k \in 1..m : proof.Gk[k] # Infinity

\* The f are those of a sequence of bits with one 1 per row.
R1Verify ==
    /\ Plus(Times(proof.B, x), proof.A) = CommitCells(FullF, proof.ZA)
    /\ Plus(Times(proof.C, x), proof.D) =
         CommitCells([p \in Cells |-> (FullF[p] * (x - FullF[p])) % Q], proof.ZC)

\* The value of each place's polynomial at x, and the shortcut for the last
\* one.  Mutant: without the powers of x.
PowerAt(f, i) ==
    LET I == convert_to_nal(i)
        product[j \in 0..m] ==
            IF j = 0 THEN 1 ELSE (product[j - 1] * f[<<j - 1, I[j - 1]>>]) % Q
    IN product[m]
LargerPower(f) ==
    LET I == convert_to_nal(N - 1)
    IN [j \in Digits |-> SumTo(n - 1, [i \in 1..(n - 1) |->
                             IF i > I[j] THEN f[<<j, i>>] ELSE 0])]
AbovePower(f) ==
    LET I == convert_to_nal(N - 1)
        above[j \in 0..m] == IF j = m THEN 1 ELSE (above[j + 1] * f[<<j, I[j]>>]) % Q
    IN above
PaddedPowerFlat(f) ==
    (AbovePower(f)[0] + SumTo(m, [j \in 1..m |->
        LargerPower(f)[j - 1] * AbovePower(f)[j]])) % Q
PaddedPower(f) ==
    (AbovePower(f)[0] + SumTo(m, [j \in 1..m |->
        LargerPower(f)[j - 1] * Power(x, j - 1) * AbovePower(f)[j]])) % Q
f_i_ == [i \in 1..N |-> IF i < N THEN PowerAt(FullF, i - 1) ELSE PaddedPower(FullF)]

SumCheckSkipped == TRUE   \* mutant
SumCheck ==
    Plus(MultiExponent(commits, f_i_),
         MultiExponent(proof.Gk, [k \in 1..m |-> (-(Power(x, k - 1))) % Q]))
      = CommitZero(proof.z)

Verify ==
    /\ phase = "verify"
    /\ verdict' = IF WellFormed /\ R1Verify /\ SumCheck THEN "accept" ELSE "reject"
    /\ phase' = "done"
    /\ UNCHANGED <<instance, sigma, a, blind, Pk, P_i_k, x, proof>>

Next == Commit \/ Respond \/ Verify

Spec == Init /\ [][Next]_vars

-----------------------------------------------------------------------------
\* The shortcut of the prover (the comment on top of it in sigmaplus_prover.hpp)
\* is the sum of the polynomials of the places N - 1 .. n^m - 1, in every
\* coefficient that the points Gk are made of.
PaddingRight ==
    phase # "start" =>
        \A k \in 1..m :
            P_i_k[N][k] =
              SumTo(Power(n, m) - N + 1,
                    [i \in 1..(Power(n, m) - N + 1) |->
                        PlacePolynomial(sigma, a, N - 2 + i)[k]]) % Q

\* The verifier's powers, with a shortcut of their own, are the prover's
\* polynomials at the challenge, whose highest coefficient, never computed by
\* the prover's shortcut, is 1 at the place of l and 0 elsewhere.
SidesAgree ==
    phase \in {"verify", "done"} =>
        \A i \in 1..N :
            f_i_[i] = (SumTo(m, [k \in 1..m |-> P_i_k[i][k] * Power(x, k - 1)])
                         + (IF i - 1 = Place THEN Power(x, m) ELSE 0)) % Q

\* Whether the commitment is h[0]^r for the r that the prover was given.
Opens == value = 0 /\ exponent % Q = r % Q

\* Whatever the place, the size and the digits: a proof with a well-formed
\* final response for a commitment h[0]^r is accepted, also from a place past
\* the end, which stands for the last one (test one_out_of_n_padding).
Complete == phase = "done" /\ Opens /\ WellFormed => verdict = "accept"

\* A proof for a commitment that is not of that form (test
\* prove_coin_not_in_set), or that was made with another exponent, is not.
OnlyMembers == verdict = "accept" => Opens

=============================================================================
