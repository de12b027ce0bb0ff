------------------------------- MODULE TxProofs -------------------------------
(***************************************************************************)
(* How the transactions of LedgerMaze.hpp are proved and verified: each is  *)
(* a list of proofs of statements about the points of its ciphertexts, made *)
(* and checked one after another with challenges hashed from a transcript.  *)
(* LedgerMazeTx says of each transaction when its verifier accepts; here it *)
(* is shown to be what the verifiers compute.  The two gadgets, which prove *)
(* that a ciphertext encrypts a number below a smaller power of two, are    *)
(* lists of the same kind.                                                 *)
(*                                                                         *)
(* The hash is a random oracle: a transcript asked for the first time gets *)
(* any challenge, the same transcript the same one.  The range and the     *)
(* one-out-of-N proofs are taken as their relations (modules Bulletproof   *)
(* and OneOutOfN).  A session may also be that of an arbitrary prover of   *)
(* one statement, who is asked again about one first message.              *)
(***************************************************************************)
EXTENDS LedgerMazeTx, SigmaProofs, Arithmetic, FiniteSets

CONSTANTS Secret(_),    \* the secret key of a key pair
          Byte,         \* the values of a byte, 256
          BN_LEN,       \* the bytes of a scalar, 32
          Sessions,     \* bounds: the transactions, see SessionType
          Draws(_),     \*   the prover's randomness, for 1 or 2 secrets
          Challenges,   \*   what the hash gives, never 0
          AnyPoints     \*   of statements and messages of an arbitrary prover

ASSUME ChallengeAssumption ==
    /\ Challenges \subseteq Unit
    /\ Infinity \in AnyPoints /\ AnyPoints \subseteq Point

ASSUME WidthAssumption ==
    Byte \in Nat \ {0, 1} /\ BN_LEN \in Nat \ {0} /\ Q <= Power(Byte, BN_LEN)

VARIABLES role,     \* "honest" or "any"
          tx,       \* the transaction
          jobs,     \* its proofs, in the order they are made
          phase,    \* "down" once an exception has ended the program
          at,
          str,      \* transcript_str of the side at work
          oracle,   \* challenge of each transcript hashed so far
          proof,    \* of each job, once made
          verdict,
          accepted  \* any: challenges and answers accepted for proof[1].com

vars == <<role, tx, jobs, phase, at, str, oracle, proof, verdict, accepted>>

-----------------------------------------------------------------------------
(* The points of a transaction. *)

Pk(key) == <<Secret(key) % Q, 0>>
X(c) == Times(Pk(c.pk), c.r % Q)
Y(c) == <<c.r % Q, c.v % Q>>
S(n) == n % Q

Job(kind, bases, stmt, wit) ==
    [kind |-> kind, bases |-> bases, stmt |-> stmt, wit |-> wit]
KnowledgeJob(key, c, r, v) ==
    Job("knowledge", KnowledgeBases(Pk(key)), <<X(c), Y(c)>>, <<S(r), S(v)>>)
\* The witness' amount is not reduced: the range proof looks at its bits.
RangeJob(c, r, v) == Job("range", << <<G, H>> >>, <<Y(c)>>, <<S(r), v>>)
EqualityJob(key1, key2, v, r) ==
    Job("equality", EqualityBases(Pk(key1), Pk(key2)),
        <<Times(Pk(key1), S(r)), Times(Pk(key2), S(r)), <<S(r), S(v)>> >>,
        <<S(r), S(v)>>)
MemberJob(base, point, s) == Job("member", << <<base>> >>, <<point>>, <<s>>)
SignJob(key) == Job("sign", SignBases, <<Pk(key)>>, <<Secret(key)>>)

\* That the new ciphertext n of a differs from the old one by value coins.
DeltaJob(a, n, r, value) ==
    Job("dlog", DlogBases(G, Pk(a.pk)),
        <<Minus(Minus(Y(n), Y(a.C)), Times(H, S(value))), Minus(X(n), X(a.C))>>,
        <<S(r - a.r)>>)

MintJobs(t) ==
    LET new == MintAccount(t.a, t.x, t.i)
    IN <<DeltaJob(t.a, new.C, new.r, t.x), RangeJob(new.C, new.r, new.v),
         SignJob(t.a.pk)>>
RedeemJobs(t) ==
    LET new == RedeemAccount(t.a, t.x, t.i)
    IN <<DeltaJob(t.a, new.C, new.r, -t.x), RangeJob(new.C, new.r, new.v),
         SignJob(t.a.pk)>>
SendJobs(t) ==
    LET new == SendAccount(t.a, t.x, t.i)
        c == SendCtx(t.a, t.key, t.x, t.i).transfer
    IN <<KnowledgeJob(t.a.pk, new.C, new.r, new.v), RangeJob(new.C, new.r, new.v),
         KnowledgeJob(t.key, c, c.r, t.x), RangeJob(c, c.r, t.x),
         EqualityJob(t.a.pk, t.key, t.x, c.r), SignJob(t.a.pk)>>

\* How a number becomes the scalar of a one-out-of-N proof: its bytes, without
\* leading zeroes, are put at the start of a buffer of zeroes, which is read as
\* BN_LEN bytes.  A number that needs fewer comes out multiplied.
NumBytes(n) ==
    CHOOSE k \in 0..BN_LEN :
        n < Power(Byte, k) /\ \A j \in 0..(k - 1) : Power(Byte, j) <= n
LedgerMaze_BIGNUMtoScalar(n) == n * Power(Byte, BN_LEN - NumBytes(n))

\* aux is what the receiver decrypts: its contents under the right key.
Aux(t) == IF t.a.pk = t.key THEN <<t.x, S(Fresh2(t.sent))>> ELSE t.aux
\* The base of the third proof is computed from its point and its witness.
RefreshJobs(t) ==
    LET c == Enc(t.key, t.x, Fresh2(t.sent))
        v == Aux(t)[1]
        r == Aux(t)[2]
        n == Enc(t.a.pk, v, Fresh(t.i))
        D == Minus(X(c), Times(H, S(-r)))
        r_1 == LedgerMaze_BIGNUMtoScalar(S(r - n.r))
        r_2 == LedgerMaze_BIGNUMtoScalar(r)
    IN <<MemberJob(Pk(t.a.pk), Minus(X(c), X(n)), r_1),
         MemberJob(G, Minus(Y(c), Y(n)), r_1),
         MemberJob(Times(D, Inverse(S(r_2))), D, r_2),
         KnowledgeJob(t.a.pk, n, n.r, v), RangeJob(n, n.r, v), SignJob(t.a.pk)>>
DepositJobs(t) ==
    LET new == DepositAccount(t.a, t.c, t.i)
    IN <<KnowledgeJob(t.a.pk, new.C, new.r, new.v), RangeJob(new.C, new.r, new.v),
         KnowledgeJob(t.a.pk, t.c.C, t.c.r, t.c.transfer),
         RangeJob(t.c.C, t.c.r, t.c.transfer),
         EqualityJob(t.a.pk, t.a.pk, t.c.transfer, t.c.r), SignJob(t.a.pk)>>

\* The two gadgets of depends/gadgets prove that a ciphertext encrypts less
\* than t.small, a smaller power of two than MaxCoin: by its opening, and by
\* the secret key, with the ciphertext encrypted anew.
Adjusted(j, diff) ==
    [j EXCEPT !.stmt = <<Plus(j.stmt[1], Times(H, S(diff)))>>, !.wit[2] = @ + diff]
Gadget1Jobs(t) ==
    LET c == Enc(t.key, t.x, Fresh2(t.i))
    IN <<KnowledgeJob(t.key, c, c.r, t.x),
         Adjusted(RangeJob(c, c.r, t.x), MaxCoin - t.small)>>
Gadget2Jobs(t) ==
    LET c == Enc(t.key, t.x, Fresh2(t.i))
        new == Enc(t.key, t.x, Fresh(t.i))
    IN <<Job("dlog", << <<G>>, <<Minus(Y(new), Y(c))>> >>,
             <<Pk(t.key), Minus(X(new), X(c))>>, <<Secret(t.key)>>),
         KnowledgeJob(t.key, new, new.r, t.x),
         Adjusted(RangeJob(new, new.r, t.x), MaxCoin - t.small)>>

Jobs(t) ==
    CASE t.type = "mint" -> MintJobs(t)
      [] t.type = "redeem" -> RedeemJobs(t)
      [] t.type = "send" -> SendJobs(t)
      [] t.type = "refresh" -> RefreshJobs(t)
      [] t.type = "deposit" -> DepositJobs(t)
      [] t.type = "gadget1" -> Gadget1Jobs(t)
      [] t.type = "gadget2" -> Gadget2Jobs(t)

\* What is signed.  A redeem signs an empty number: the call that hashes its
\* memo is commented out on both sides.
Memo(t) ==
    CASE t.type = "mint" -> MintCtx(t.a, t.x, t.i)
      [] t.type = "redeem" -> 0
      [] t.type = "send" -> SendCtx(t.a, t.key, t.x, t.i)
      [] t.type = "refresh" -> RefreshCtx(t.a, Aux(t)[1], Aux(t)[2], t.i)
      [] t.type = "deposit" -> DepositCtx(t.a, t.c, t.i)

\* A session of the bounds' set: a guarded transaction of a, with what it
\* reads: amount, number, key of the receiver (of a send), of aux (of a
\* refresh) or of the ciphertext (of a gadget, with its bound), the number of
\* the send that is refreshed, the garbage a wrong key decrypts aux to, and the
\* cheque.
Guard(t) ==
    CASE t.type = "mint" -> MintGuard(t.a, t.x)
      [] t.type = "redeem" -> RedeemGuard(t.a, t.x)
      [] t.type = "send" -> SendGuard(t.a, t.x)
      [] OTHER -> TRUE

SessionType ==
    [type : TxType \cup {"gadget1", "gadget2"}, a : Account, i : Nat, x : Nat,
     key : Key, sent : Nat, aux : Nat \X (0..(Power(Byte, BN_LEN) - 1)),
     c : Cheque, small : 0..MaxCoin]

ASSUME DrawsAssumption == \A n \in {1, 2} : Draws(n) \subseteq [1..n -> Nat]
ASSUME SessionAssumption == Sessions \subseteq SessionType

\* Different keys have different secrets.
ASSUME KeyAssumption ==
    \A t \in Sessions :
        \A k, l \in {t.key, t.a.pk, t.a.C.pk, t.c.C.pk} :
            Secret(k) \in Nat /\ (S(Secret(k)) = S(Secret(l)) => k = l)

\* The numbers of accounts and cheques are scalars: the order of the group has
\* 256 bits, their amounts 32.  The randomness of a ciphertext under another's
\* key is not 0, and a refresh does not draw the number of its send again: a draw
\* gives either with a negligible probability.
ASSUME ScalarAssumption ==
    \A t \in Sessions :
        /\ {t.a.v, t.a.r, t.a.C.v, t.a.C.r} \subseteq Scalar
        /\ {t.c.transfer, t.c.r, t.c.C.v, t.c.C.r} \subseteq Scalar
        /\ t.a.C.pk # t.a.pk => t.a.C.r # 0
        /\ t.c.C.pk # t.a.pk => t.c.C.r # 0
        /\ t.type = "refresh" =>
              S(Fresh2(t.sent)) # 0 /\ S(Fresh2(t.sent) - Fresh(t.i)) # 0

-----------------------------------------------------------------------------
NoProof == [com |-> <<>>, z |-> <<>>]

HonestInit ==
    /\ role = "honest" /\ tx \in Sessions /\ Guard(tx) /\ jobs = Jobs(tx)
    /\ phase = "prove" /\ proof = [k \in DOMAIN jobs |-> NoProof]

AnyBases ==
    LET k1 == Times(G, 2) k2 == Times(G, 3)
    IN {SignBases, DlogBases(G, k1), KnowledgeBases(k1), EqualityBases(k1, k2)}
AnyInit ==
    /\ role = "any" /\ tx = <<>>
    /\ \E b \in AnyBases :
          \E stmt, com \in [DOMAIN b -> AnyPoints] :
             /\ jobs = <<Job("any", b, stmt, <<>>)>>
             /\ proof = <<[com |-> com, z |-> <<>>]>>
    /\ phase = "any"

Init ==
    /\ HonestInit \/ AnyInit
    /\ at = 1 /\ str = <<>> /\ oracle = <<>> /\ verdict = "none" /\ accepted = {}

\* Hash_String_to_BN.
Hash(t, e) ==
    /\ IF t \in DOMAIN oracle THEN e = oracle[t] ELSE e \in Challenges
    /\ oracle' = [s \in DOMAIN oracle \cup {t} |-> IF s = t THEN e ELSE oracle[s]]

\* The transcript handed to a proof: mint, redeem and the gadgets pass one
\* string on from proof to proof, the others empty it before each.
ProveStart(s) ==
    IF tx.type \in {"mint", "redeem", "gadget1", "gadget2"} THEN s ELSE <<>>
VerifyStartEmpty(s) == <<>>   \* mutant
VerifyStart(s) ==
    IF tx.type \in {"mint", "redeem", "gadget1", "gadget2"} THEN s ELSE <<>>

\* What a proof hashes: the statement and its first message.  A signature
\* hashes the memo with its first message, and no transcript.
Transcript(s, j, com) ==
    CASE j.kind = "sign" -> <<Memo(tx), com>>
      [] j.kind = "range" -> s \o <<j.stmt>>
      [] OTHER -> s \o <<j.bases, j.stmt, com>>

-----------------------------------------------------------------------------
(* The prover. *)

Proved(p, t) ==
    /\ proof' = [proof EXCEPT ![at] = p]
    /\ at' = IF at = Len(jobs) THEN 1 ELSE at + 1
    /\ phase' = IF at = Len(jobs) THEN "verify" ELSE "prove"
    /\ str' = IF at = Len(jobs) THEN <<>> ELSE t
    /\ UNCHANGED <<role, tx, jobs, verdict, accepted>>

Sigma == {"sign", "dlog", "knowledge", "equality"}

Prove ==
    /\ phase = "prove" /\ jobs[at].kind \in Sigma
    /\ \E a \in Draws(Len(jobs[at].wit)), e \in Challenges :
          LET com == Phi(jobs[at].bases, a)
              t == Transcript(ProveStart(str), jobs[at], com)
          IN /\ Hash(t, e)
             /\ Proved([com |-> com, z |-> Respond(a, e, jobs[at].wit)],
                       IF jobs[at].kind = "sign" THEN str ELSE t)

\* The commitments of a range proof are made with its challenges.
ProveRange ==
    /\ phase = "prove" /\ jobs[at].kind = "range"
    /\ \E e \in Challenges :
          LET t == Transcript(ProveStart(str), jobs[at], <<>>)
          IN /\ Hash(t, e)
             /\ Proved([com |-> <<e>>, z |-> jobs[at].wit], t)

\* A one-out-of-N proof hashes its own messages only.
ProveMember ==
    /\ phase = "prove" /\ jobs[at].kind = "member" /\ jobs[at].wit[1] < Q
    /\ Proved([com |-> <<>>, z |-> jobs[at].wit], str) /\ UNCHANGED oracle

\* The constructor of a scalar throws what nobody catches.
TooLarge ==
    /\ phase = "prove" /\ jobs[at].kind = "member" /\ jobs[at].wit[1] >= Q
    /\ phase' = "down"
    /\ UNCHANGED <<role, tx, jobs, at, str, oracle, proof, verdict, accepted>>

-----------------------------------------------------------------------------
(* The verifier: the signature of a mint or redeem is checked last and that *)
(* of the others first; the results are put together at the end, but for a  *)
(* wrong signature that is checked first.                                  *)

Order ==
    IF tx.type \notin {"send", "refresh", "deposit"} THEN [k \in DOMAIN jobs |-> k]
    ELSE <<Len(jobs)>> \o [k \in 1..(Len(jobs) - 1) |-> k]
job == jobs[Order[at]]
given == proof[Order[at]]

Verified(ok, t) ==
    /\ LET last == at = Len(jobs) \/ (~ok /\ at = 1 /\ job.kind = "sign")
       IN /\ phase' = IF last THEN "done" ELSE "verify"
          /\ at' = IF last THEN 1 ELSE at + 1
          /\ str' = IF last THEN <<>> ELSE t
          /\ verdict' = IF ~ok \/ verdict = "reject" THEN "reject"
                        ELSE IF last THEN "accept" ELSE "none"
    /\ UNCHANGED <<role, tx, jobs, proof, accepted>>

Verify ==
    /\ phase = "verify" /\ job.kind \in Sigma
    /\ \E e \in Challenges :
          LET t == Transcript(VerifyStart(str), job, given.com)
          IN /\ Hash(t, e)
             /\ Verified(Check(job.bases, job.stmt, given.com, e, given.z),
                         IF job.kind = "sign" THEN str ELSE t)

VerifyRange ==
    /\ phase = "verify" /\ job.kind = "range"
    /\ \E e \in Challenges :
          LET t == Transcript(VerifyStart(str), job, <<>>)
          IN /\ Hash(t, e)
             /\ Verified(/\ given.com = <<e>> /\ InRange(given.z[2])
                         /\ Phi(job.bases, given.z) = job.stmt, t)

VerifyMember ==
    /\ phase = "verify" /\ job.kind = "member"
    /\ Verified(Phi(job.bases, given.z) = job.stmt, str) /\ UNCHANGED oracle

-----------------------------------------------------------------------------
\* An arbitrary prover answers two challenges to one first message, in a way
\* that the verifier's conditions accept.
Answer ==
    /\ phase = "any" /\ Cardinality(accepted) < 2
    /\ \E e \in Unit, z \in Witness(jobs[1].bases) :
          /\ \A p \in accepted : p[1] # e
          /\ Check(jobs[1].bases, jobs[1].stmt, proof[1].com, e, z)
          /\ accepted' = accepted \cup {<<e, z>>}
    /\ UNCHANGED <<role, tx, jobs, phase, at, str, oracle, proof, verdict>>

Next ==
    \/ Prove \/ ProveRange \/ ProveMember \/ TooLarge
    \/ Verify \/ VerifyRange \/ VerifyMember
    \/ Answer

Spec == Init /\ [][Next]_vars

-----------------------------------------------------------------------------
Relation(t) ==
    CASE t.type = "mint" -> VerifyMint(t.a, MintCtx(t.a, t.x, t.i))
      [] t.type = "redeem" -> VerifyRedeem(t.a, RedeemCtx(t.a, t.x, t.i))
      [] t.type = "send" -> VerifySend(SendCtx(t.a, t.key, t.x, t.i))
      [] t.type = "refresh" ->
            VerifyRefresh(t.a,
                [NewCtx("send", 1, t.key) EXCEPT
                    !.transfer = Enc(t.key, t.x, Fresh2(t.sent)),
                    !.aux = Enc(t.key, t.x, Fresh2(t.sent))])
      [] t.type = "deposit" -> VerifyDeposit(t.a, t.c)
      [] OTHER -> t.x < t.small

\* That the difference of a refresh's random numbers, the witness of its first
\* two proofs, has no leading zero byte and so keeps its value as a scalar.
Converts(t) ==
    t.type = "refresh" => NumBytes(S(Aux(t)[2] - Fresh(t.i))) = BN_LEN

\* The verifiers accept a transaction made by this program exactly when the
\* relation that LedgerMazeTx takes for it holds and, for a refresh, the
\* difference of the random numbers fills its scalar; and a gadget exactly when
\* the plaintext is below its bound: the equations, the order in which both
\* sides hash them and the transcripts they carry along fit.
AcceptsExactly ==
    phase = "done" => (verdict = "accept" <=> Relation(tx) /\ Converts(tx))

\* What the comment at the first conversion of a refresh says ("get r-r_new mod
\* order"), and the verifier expects: the prover knows the difference, whatever
\* its bytes, so that a refresh with the right key is accepted.
DifferenceProved ==
    phase = "done" /\ tx.type = "refresh" /\ Relation(tx) => verdict = "accept"

\* Two accepted answers to one first message give a witness of all the
\* equations: whoever convinces the verifiers of nizk_*.hpp and the one of
\* the signature knows the secrets.
Extracted(p, q) ==
    [n \in DOMAIN p[2] |-> ((p[2][n] - q[2][n]) * Inverse((p[1] - q[1]) % Q)) % Q]
Sound ==
    \A p, q \in accepted :
        p # q => Phi(jobs[1].bases, Extracted(p, q)) = jobs[1].stmt

\* An accepted conversation about a true statement is one the provers of
\* nizk_*.hpp have with any witness, for one choice of their randomness: it
\* says nothing of which witness it was.
Simulatable ==
    \A p \in accepted : \A w \in Witness(jobs[1].bases) :
        Phi(jobs[1].bases, w) = jobs[1].stmt =>
            \E a \in Witness(jobs[1].bases) :
                {b \in Witness(jobs[1].bases) :
                    /\ Phi(jobs[1].bases, b) = proof[1].com
                    /\ Respond(b, p[1], w) = p[2]} = {a}

=============================================================================
