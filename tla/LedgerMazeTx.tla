---------------------------- MODULE LedgerMazeTx ----------------------------
(***************************************************************************)
(* The five confidential transactions of LedgerMaze.hpp as functions of the *)
(* account they read: what each computes and when the verifier accepts it.  *)
(*                                                                         *)
(* A twisted ElGamal ciphertext is the term of what it encrypts, under     *)
(* which key and with which randomness.  A proof is the relation it shows: *)
(* no proof verifies when it fails, and an honest one verifies when it     *)
(* holds, save for a refresh whose randomness the code cannot convert      *)
(* (TxProofs): a refresh for which VerifyRefresh holds may be refused.     *)
(***************************************************************************)
EXTENDS Naturals

CONSTANTS Users,      \* the ids the clients use
          Nobody,     \* owner of a key that no account file holds
          MaxCoin,    \* BN_MAXIMUM_COINS = 2^RANGE_LEN
          MaxTx       \* bound: transaction files (.ctx, .cheque) ever named

ASSUME NobodyAssumption == Nobody \notin Users
ASSUME BoundAssumption == MaxCoin \in Nat \ {0} /\ MaxTx \in Nat \ {0}

Tx == 1..MaxTx

\* A public key: its owner, and the number of the key pair.  Reading a
\* missing account file leaves a key without a secret key.
Key == (Users \cup {Nobody}) \X Nat
NoKey == <<Nobody, 0>>

CT == [pk : Key, v : Nat, r : Nat]
Enc(pk, v, r) == [pk |-> pk, v |-> v, r |-> r]
NoCT == Enc(NoKey, 0, 0)

\* The randomness a transaction draws: Fresh for the new balance or the new
\* cheque, Fresh2 for the cheque of a send.  Fresh(0) is Hash(identity).
Fresh(i) == 2 * i
Fresh2(i) == 2 * i + 1

Account == [pk : Key, pt : Nat, sn : Nat, v : Nat, r : Nat, C : CT]
Cheque == [C : CT, pk : Key, r : Nat, transfer : Nat]
TxType == {"mint", "redeem", "send", "refresh", "deposit"}
Ctx == [type : TxType, sn : Nat, pk1 : Key, value : Nat, tag : Nat,
        rest : CT, transfer : CT, aux : CT]

NewCtx(type, sn, pk1) ==
    [type |-> type, sn |-> sn, pk1 |-> pk1, value |-> 0, tag |-> 0,
     rest |-> NoCT, transfer |-> NoCT, aux |-> NoCT]

\* The range proof commits to the low RANGE_LEN bits of its witness.
InRange(v) == 0 <= v /\ v < MaxCoin

CreateAccount(pk, pt) ==
    [pk |-> pk, pt |-> pt, sn |-> 1, v |-> 0, r |-> Fresh(0),
     C |-> Enc(pk, 0, Fresh(0))]

\* Mutants of Renew: the sequence number stays; the randomness of the new
\* ciphertext is not kept with it.
RenewSameSn(a, pt, v, i) ==
    [a EXCEPT !.pt = pt, !.v = v, !.r = Fresh(i), !.C = Enc(a.pk, v, Fresh(i))]
RenewOldRandomness(a, pt, v, i) ==
    [a EXCEPT !.pt = pt, !.v = v, !.sn = @ + 1, !.C = Enc(a.pk, v, Fresh(i))]

\* The account after a transaction that leaves it v encrypted coins, made
\* with the randomness of transaction i: a new ciphertext and the next sn.
Renew(a, pt, v, i) ==
    [a EXCEPT !.pt = pt, !.v = v, !.sn = @ + 1, !.r = Fresh(i),
              !.C = Enc(a.pk, v, Fresh(i))]

-----------------------------------------------------------------------------
\* Mutants of mint: more than the public balance; the public balance stays.
MintGuardUnfunded(a, x) == x # 0
MintAccountUnpaid(a, x, i) == Renew(a, a.pt, a.v + x, i)

\* Mint moves x coins from the public balance into the encrypted one.
MintGuard(a, x) == x # 0 /\ x <= a.pt
MintAccount(a, x, i) == Renew(a, a.pt - x, a.v + x, i)
MintCtx(a, x, i) ==
    [NewCtx("mint", a.sn + 1, a.pk) EXCEPT
        !.value = x, !.rest = MintAccount(a, x, i).C]
VerifyMint(a, t) ==
    /\ t.rest.v = a.C.v + t.value /\ t.rest.pk = a.C.pk /\ a.r = a.C.r
    /\ InRange(t.rest.v)

\* Redeem moves x coins back.
RedeemGuard(a, x) == x # 0 /\ x <= a.v
RedeemAccount(a, x, i) == Renew(a, a.pt + x, a.v - x, i)
RedeemCtx(a, x, i) ==
    [NewCtx("redeem", a.sn + 1, a.pk) EXCEPT
        !.value = x, !.rest = RedeemAccount(a, x, i).C]
VerifyRedeem(a, t) ==
    /\ a.C.v = t.rest.v + t.value /\ t.rest.pk = a.C.pk /\ a.r = a.C.r
    /\ InRange(t.rest.v)

\* SendCheque takes x coins out of the encrypted balance into a cheque under
\* the receiver's key; aux tells the receiver the amount and the randomness.
SendGuard(a, x) == x # 0 /\ x <= a.v
SendAccount(a, x, i) == Renew(a, a.pt, a.v - x, i)
SendCtx(a, pkR, x, i) ==
    [NewCtx("send", a.sn + 1, a.pk) EXCEPT
        !.rest = SendAccount(a, x, i).C,
        !.transfer = Enc(pkR, x, Fresh2(i)),
        !.aux = Enc(pkR, x, Fresh2(i))]
VerifySend(t) == InRange(t.rest.v) /\ InRange(t.transfer.v)

\* RefreshCheque re-encrypts the cheque of the send transaction t for its
\* receiver a, who must hold the key aux is encrypted under.
RefreshedCheque(a, v, i) ==
    [C |-> Enc(a.pk, v, Fresh(i)), pk |-> a.pk, r |-> Fresh(i), transfer |-> v]
RefreshCtx(a, v, r, i) ==
    [NewCtx("refresh", 0, a.pk) EXCEPT
        !.transfer = Enc(a.pk, v, Fresh(i)), !.tag = r]
VerifyRefreshAnyKey(a, t) == InRange(t.aux.v)  \* mutant: no 1-out-of-n proof
VerifyRefresh(a, t) ==
    /\ t.aux.pk = a.pk
    /\ t.transfer = Enc(a.pk, t.aux.v, t.aux.r)
    /\ InRange(t.aux.v)

\* Depositcheque adds a cheque to the encrypted balance of a; the proofs tie
\* the cheque's ciphertext to the depositor's key and to its opening.
DepositAccount(a, c, i) == Renew(a, a.pt, a.v + c.transfer, i)
DepositCtx(a, c, i) ==
    [NewCtx("deposit", a.sn + 1, a.pk) EXCEPT
        !.rest = DepositAccount(a, c, i).C, !.transfer = c.C]
VerifyDeposit(a, c) ==
    /\ InRange(a.v + c.transfer)
    /\ c.C = Enc(a.pk, c.transfer, c.r)
    /\ InRange(c.transfer)

=============================================================================
