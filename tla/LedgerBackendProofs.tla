------------------------- MODULE LedgerBackendProofs -------------------------
(***************************************************************************)
(* Theorems of the backend for every set of users, amounts and bounds:     *)
(* the types of all state, that one send yields one cheque, that account   *)
(* files open their ciphertexts, that sequence numbers are not reused,     *)
(* that rows have their files and that credits have been paid for.         *)
(***************************************************************************)
EXTENDS LedgerBackend, TLAPS

\* The functions of LedgerMaze.hpp yield well-formed accounts and records.
LEMMA EncType == \A pk \in Key, v, r \in Nat : Enc(pk, v, r) \in CT
  BY DEF Enc, CT

LEMMA NoType == NoKey \in Key /\ NoCT \in CT
  BY EncType DEF NoKey, Key, NoCT

LEMMA FreshType == \A i \in Nat : Fresh(i) \in Nat /\ Fresh2(i) \in Nat
  BY DEF Fresh, Fresh2

LEMMA CreateType ==
    \A pk \in Key, pt \in Nat : CreateAccount(pk, pt) \in Account
  BY EncType, FreshType DEF CreateAccount, Account

LEMMA RenewType ==
    \A a \in Account, pt, v, i \in Nat : Renew(a, pt, v, i) \in Account
<1> SUFFICES ASSUME NEW a \in Account, NEW pt \in Nat, NEW v \in Nat,
                    NEW i \in Nat
             PROVE  Renew(a, pt, v, i) \in Account
  OBVIOUS
<1>1. a.pk \in Key /\ a.sn + 1 \in Nat
  BY DEF Account
<1>2. Enc(a.pk, v, Fresh(i)) \in CT /\ Fresh(i) \in Nat
  BY <1>1, EncType, FreshType
<1> QED
  BY <1>1, <1>2 DEF Renew, Account

LEMMA ChequeType ==
    \A a \in Account, v, i \in Nat : RefreshedCheque(a, v, i) \in Cheque
  BY EncType, FreshType DEF RefreshedCheque, Cheque, Account

LEMMA NewCtxType ==
    \A type \in TxType, sn \in Nat, pk \in Key : NewCtx(type, sn, pk) \in Ctx
  BY NoType DEF NewCtx, Ctx

LEMMA MintType ==
    \A a \in Account, x, i \in Nat : MintGuard(a, x) =>
        MintAccount(a, x, i) \in Account /\ MintCtx(a, x, i) \in Ctx
<1> SUFFICES ASSUME NEW a \in Account, NEW x \in Nat, NEW i \in Nat,
                    MintGuard(a, x)
             PROVE  MintAccount(a, x, i) \in Account /\ MintCtx(a, x, i) \in Ctx
  OBVIOUS
<1>1. a.pt - x \in Nat /\ a.v + x \in Nat /\ a.sn + 1 \in Nat /\ a.pk \in Key
  BY DEF MintGuard, Account
<1>2. MintAccount(a, x, i) \in Account
  BY <1>1, RenewType DEF MintAccount
<1>3. MintAccount(a, x, i).C \in CT
  BY <1>2 DEF Account
<1>4. NewCtx("mint", a.sn + 1, a.pk) \in Ctx
  BY <1>1, NewCtxType DEF TxType
<1> QED
  BY <1>2, <1>3, <1>4 DEF MintCtx, Ctx

LEMMA RedeemType ==
    \A a \in Account, x, i \in Nat : RedeemGuard(a, x) =>
        RedeemAccount(a, x, i) \in Account /\ RedeemCtx(a, x, i) \in Ctx
<1> SUFFICES ASSUME NEW a \in Account, NEW x \in Nat, NEW i \in Nat,
                    RedeemGuard(a, x)
             PROVE  /\ RedeemAccount(a, x, i) \in Account
                    /\ RedeemCtx(a, x, i) \in Ctx
  OBVIOUS
<1>1. a.pt + x \in Nat /\ a.v - x \in Nat /\ a.sn + 1 \in Nat /\ a.pk \in Key
  BY DEF RedeemGuard, Account
<1>2. RedeemAccount(a, x, i) \in Account
  BY <1>1, RenewType DEF RedeemAccount
<1>3. RedeemAccount(a, x, i).C \in CT
  BY <1>2 DEF Account
<1>4. NewCtx("redeem", a.sn + 1, a.pk) \in Ctx
  BY <1>1, NewCtxType DEF TxType
<1> QED
  BY <1>2, <1>3, <1>4 DEF RedeemCtx, Ctx

LEMMA SendType ==
    \A a \in Account, pk \in Key, x, i \in Nat : SendGuard(a, x) =>
        SendAccount(a, x, i) \in Account /\ SendCtx(a, pk, x, i) \in Ctx
<1> SUFFICES ASSUME NEW a \in Account, NEW pk \in Key, NEW x \in Nat,
                    NEW i \in Nat, SendGuard(a, x)
             PROVE  /\ SendAccount(a, x, i) \in Account
                    /\ SendCtx(a, pk, x, i) \in Ctx
  OBVIOUS
<1>1. a.pt \in Nat /\ a.v - x \in Nat /\ a.sn + 1 \in Nat /\ a.pk \in Key
  BY DEF SendGuard, Account
<1>2. SendAccount(a, x, i) \in Account
  BY <1>1, RenewType DEF SendAccount
<1>3. SendAccount(a, x, i).C \in CT
  BY <1>2 DEF Account
<1>4. NewCtx("send", a.sn + 1, a.pk) \in Ctx
  BY <1>1, NewCtxType DEF TxType
<1>5. Enc(pk, x, Fresh2(i)) \in CT
  BY EncType, FreshType
<1> QED
  BY <1>2, <1>3, <1>4, <1>5 DEF SendCtx, Ctx

LEMMA RefreshType ==
    \A a \in Account, v, r, i \in Nat : RefreshCtx(a, v, r, i) \in Ctx
<1> SUFFICES ASSUME NEW a \in Account, NEW v \in Nat, NEW r \in Nat, NEW i \in Nat
             PROVE  RefreshCtx(a, v, r, i) \in Ctx
  OBVIOUS
<1>1. a.pk \in Key
  BY DEF Account
<1>2. NewCtx("refresh", 0, a.pk) \in Ctx
  BY <1>1, NewCtxType DEF TxType
<1>3. Enc(a.pk, v, Fresh(i)) \in CT
  BY <1>1, EncType, FreshType
<1> QED
  BY <1>2, <1>3 DEF RefreshCtx, Ctx

LEMMA DepositType ==
    \A a \in Account, c \in Cheque, i \in Nat :
        DepositAccount(a, c, i) \in Account /\ DepositCtx(a, c, i) \in Ctx
<1> SUFFICES ASSUME NEW a \in Account, NEW c \in Cheque, NEW i \in Nat
             PROVE  /\ DepositAccount(a, c, i) \in Account
                    /\ DepositCtx(a, c, i) \in Ctx
  OBVIOUS
<1>1. a.pt \in Nat /\ a.v + c.transfer \in Nat /\ a.sn + 1 \in Nat /\ a.pk \in Key
  BY DEF Account, Cheque
<1>2. DepositAccount(a, c, i) \in Account
  BY <1>1, RenewType DEF DepositAccount
<1>3. DepositAccount(a, c, i).C \in CT /\ c.C \in CT
  BY <1>2 DEF Account, Cheque
<1>4. NewCtx("deposit", a.sn + 1, a.pk) \in Ctx
  BY <1>1, NewCtxType DEF TxType
<1> QED
  BY <1>2, <1>3, <1>4 DEF DepositCtx, Ctx

LEMMA NoneType ==
    /\ NoAccount \in Account /\ NoCheque \in Cheque
    /\ NoCtx \in Ctx /\ NoJob \in Job
<1>1. NoAccount \in Account
  BY NoType, CreateType DEF NoAccount
<1>2. NoCheque \in Cheque
  BY <1>1, ChequeType DEF NoCheque
<1>3. NoCtx \in Ctx
  BY NoType, NewCtxType DEF NoCtx, TxType
<1>4. 0 \in 0..MaxTx
  BY BoundAssumption
<1> QED
  BY <1>1, <1>2, <1>3, <1>4 DEF NoJob, NewJob, Job, Ops

-----------------------------------------------------------------------------
(* Every step of the server keeps the types. *)

LEMMA RefuseTyped ==
    ASSUME TypeOK, NEW u \in Users, NEW op \in Ops, NEW ok \in BOOLEAN,
           op = "refresh" => ~ok, Refuse(op, u, ok)
    PROVE  TypeOK'
<1>1. job' = NewJob(op, u, 0, 0, NoAccount, NoCtx, NoCheque, ok) /\ pc' = "reply"
  BY DEF Refuse, Start
<1>2. job' \in Job /\ job'.u = u /\ job'.ok = ok /\ job'.op = op
  BY <1>1, NoneType, BoundAssumption DEF NewJob, Job
<1> QED
  BY <1>1, <1>2
  DEF Refuse, TypeOK, files, tables, counters, history, PCs

LEMMA TransactTyped ==
    ASSUME TypeOK, NEW u \in Users, NEW op \in Ops \ {"refresh", "create"},
           NEW h \in 0..MaxTx, NEW a \in Account, NEW t \in Ctx,
           Transact(op, u, h, a, t)
    PROVE  TypeOK'
<1>1. job' = NewJob(op, u, h, nextTx, a, t, NoCheque, TRUE)
      /\ pc' = "acct_open" /\ nextTx <= MaxTx /\ nextTx' = nextTx + 1
  BY DEF Transact, Start
<1>2. nextTx \in Tx /\ nextTx \in 0..MaxTx
  BY <1>1, BoundAssumption DEF TypeOK, Tx
<1>3. job' \in Job /\ job'.u = u /\ job'.id = nextTx /\ job'.op = op
  BY <1>1, <1>2, NoneType DEF NewJob, Job
<1>4. nextTx' \in Nat \ {0}
  BY <1>1 DEF TypeOK
<1> QED
  BY <1>1, <1>2, <1>3, <1>4
  DEF Transact, TypeOK, files, tables, history, PCs

LEMMA StartRefreshTyped ==
    ASSUME TypeOK, NEW u \in Users, NEW h \in Tx, NEW src \in 0..MaxTx,
           NEW v \in Nat, NEW r \in Nat, StartRefresh(u, h, src, v, r)
    PROVE  TypeOK'
<1> DEFINE q == RefreshedCheque(acct[u], v, nextTx)
           t == RefreshCtx(acct[u], v, r, nextTx)
<1>1. job' = NewJob("refresh", u, h, nextTx, NoAccount, t, q, TRUE)
      /\ pc' = "cheque_open" /\ nextTx <= MaxTx /\ nextTx' = nextTx + 1
      /\ origin' = [origin EXCEPT ![nextTx] = src]
  BY DEF StartRefresh, Start
<1>2. nextTx \in Tx /\ nextTx \in 0..MaxTx /\ h \in 0..MaxTx
      /\ nextTx' \in Nat \ {0}
  BY <1>1, BoundAssumption DEF TypeOK, Tx
<1>3. q \in Cheque /\ t \in Ctx
  BY ChequeType, RefreshType DEF TypeOK
<1>4. job' \in Job /\ job'.u = u /\ job'.id = nextTx /\ job'.op = "refresh"
  <2> HIDE DEF q, t
  <2> QED
    BY <1>1, <1>2, <1>3, NoneType DEF NewJob, Job, Ops
<1>5. origin' \in [Tx -> 0..MaxTx]
  BY <1>1 DEF TypeOK
<1> QED
  BY <1>1, <1>2, <1>4, <1>5
  DEF StartRefresh, TypeOK, files, tables, PCs

LEMMA CreateTyped ==
    ASSUME TypeOK, NEW u \in Users, NEW x \in Nat, BackendCreateAccount(u, x)
    PROVE  TypeOK'
<1>1. CASE x > MaxInit /\ Refuse("create", u, FALSE)
  BY <1>1, RefuseTyped DEF Ops
<1>2. CASE ~(x > MaxInit /\ Refuse("create", u, FALSE))
  <2> DEFINE a == CreateAccount(<<u, nextKey>>, x)
  <2>1. job' = NewJob("create", u, 0, 0, a, NoCtx, NoCheque, TRUE)
        /\ pc' = "acct_open" /\ nextKey' = nextKey + 1
    BY <1>2 DEF BackendCreateAccount, Start
  <2>2. a \in Account
    BY CreateType DEF TypeOK, Key
  <2>3. job' \in Job /\ job'.u = u /\ job'.op = "create" /\ nextKey' \in Nat
    <3> HIDE DEF a
    <3> QED
      BY <2>1, <2>2, NoneType, BoundAssumption DEF NewJob, Job, Ops, TypeOK
  <2> QED
    BY <1>2, <2>1, <2>3
    DEF BackendCreateAccount, TypeOK, files, tables, history, PCs
<1> QED
  BY <1>1, <1>2

LEMMA KeyOfType == TypeOK => \A u \in Users : KeyOf(u) \in Key
  BY NoType DEF TypeOK, KeyOf, Account

LEMMA HandleTyped ==
    ASSUME TypeOK, Handle
    PROVE  TypeOK'
<1> USE DEF Ops
<1>0. Amounts \subseteq Nat
  BY BackendAssumption
<1>1. ASSUME NEW u \in Users, NEW x \in Amounts, BackendCreateAccount(u, x)
      PROVE  TypeOK'
  BY <1>0, <1>1, CreateTyped
<1>2. ASSUME NEW u \in Users, NEW x \in Amounts, BackendMint(u, x)
      PROVE  TypeOK'
  <2>1. acct[u] \in Account /\ x \in Nat /\ nextTx \in Nat /\ 0 \in 0..MaxTx
    BY <1>0, BoundAssumption DEF TypeOK
  <2>2. CASE MintGuard(acct[u], x)
    <3>1. MintAccount(acct[u], x, nextTx) \in Account
          /\ MintCtx(acct[u], x, nextTx) \in Ctx
      BY <2>1, <2>2, MintType
    <3> QED
      BY <1>2, <2>1, <3>1, RefuseTyped, TransactTyped DEF BackendMint
  <2>3. CASE ~MintGuard(acct[u], x)
    BY <1>2, <2>3, RefuseTyped DEF BackendMint
  <2> QED
    BY <2>2, <2>3
<1>3. ASSUME NEW u \in Users, NEW x \in Amounts, BackendRedeem(u, x)
      PROVE  TypeOK'
  <2>1. acct[u] \in Account /\ x \in Nat /\ nextTx \in Nat /\ 0 \in 0..MaxTx
    BY <1>0, BoundAssumption DEF TypeOK
  <2>2. CASE RedeemGuard(acct[u], x)
    <3>1. RedeemAccount(acct[u], x, nextTx) \in Account
          /\ RedeemCtx(acct[u], x, nextTx) \in Ctx
      BY <2>1, <2>2, RedeemType
    <3> QED
      BY <1>3, <2>1, <3>1, RefuseTyped, TransactTyped DEF BackendRedeem
  <2>3. CASE ~RedeemGuard(acct[u], x)
    BY <1>3, <2>3, RefuseTyped DEF BackendRedeem
  <2> QED
    BY <2>2, <2>3
<1>4. ASSUME NEW u \in Users, NEW w \in Users, NEW x \in Amounts,
             BackendSendCheque(u, w, x)
      PROVE  TypeOK'
  <2>1. acct[u] \in Account /\ x \in Nat /\ nextTx \in Nat /\ 0 \in 0..MaxTx
        /\ KeyOf(w) \in Key
    BY <1>0, BoundAssumption, KeyOfType DEF TypeOK
  <2>2. CASE SendGuard(acct[u], x)
    <3>1. SendAccount(acct[u], x, nextTx) \in Account
          /\ SendCtx(acct[u], KeyOf(w), x, nextTx) \in Ctx
      BY <2>1, <2>2, SendType
    <3> QED
      BY <1>4, <2>1, <3>1, RefuseTyped, TransactTyped DEF BackendSendCheque
  <2>3. CASE ~SendGuard(acct[u], x)
    BY <1>4, <2>3, RefuseTyped DEF BackendSendCheque
  <2> QED
    BY <2>2, <2>3
<1>5. ASSUME NEW u \in Users, NEW h \in Tx, BackendRefreshCheque(u, h)
      PROVE  TypeOK'
  <2>1. h \in 0..MaxTx /\ 0 \in 0..MaxTx
    BY BoundAssumption DEF Tx
  <2>2. ctx[h].aux.v \in Nat /\ ctx[h].aux.r \in Nat
    BY DEF TypeOK, Ctx, CT
  <2> QED
    BY <1>5, <2>1, <2>2, RefuseTyped, StartRefreshTyped DEF BackendRefreshCheque
<1>6. ASSUME NEW u \in Users, NEW h \in Tx, BackendDepositCheque(u, h)
      PROVE  TypeOK'
  <2>1. h \in 0..MaxTx /\ acct[u] \in Account /\ cheque[h] \in Cheque
        /\ nextTx \in Nat
    BY BoundAssumption DEF Tx, TypeOK
  <2>2. RefreshedCheque(acct[u], 0, 0) \in Cheque
    BY <2>1, ChequeType
  <2>3. \A c \in Cheque : DepositAccount(acct[u], c, nextTx) \in Account
                          /\ DepositCtx(acct[u], c, nextTx) \in Ctx
    BY <2>1, DepositType
  <2> QED
    BY <1>6, <2>1, <2>2, <2>3, RefuseTyped, TransactTyped
    DEF BackendDepositCheque
<1> QED
  BY <1>1, <1>2, <1>3, <1>4, <1>5, <1>6 DEF Handle

LEMMA ContinueTyped ==
    ASSUME TypeOK, Continue \/ Crash \/ Restart
    PROVE  TypeOK'
<1> USE DEF files, tables, counters, history, PCs, FileSt
<1>1. CASE OpenAccount
  BY <1>1 DEF OpenAccount, TypeOK
<1>2. CASE WriteAccount
  <2>1. job.acct \in Account /\ job.u \in Users /\ job \in Job
    BY <1>2 DEF WriteAccount, TypeOK, Job
  <2>2. acct' \in [Users -> Account] /\ acctSt' \in [Users -> FileSt]
    BY <1>2, <2>1 DEF WriteAccount, TypeOK
  <2>3. job' = [job EXCEPT !.done = TRUE] /\ pc' = AfterAccount
        /\ pc = "acct_write"
    BY <1>2 DEF WriteAccount
  <2>4. job' \in Job /\ job'.u = job.u /\ job'.id = job.id /\ job'.op = job.op
        /\ job'.ok = job.ok
    BY <2>1, <2>3 DEF Job
  <2>5. credited' \in [Tx -> Nat]
    <3>1. credited \in [Tx -> Nat]
      BY DEF TypeOK
    <3>2. \/ credited' = credited
          \/ credited' = [credited EXCEPT ![job.h] = @ + 1]
      BY <1>2 DEF WriteAccount
    <3> QED
      BY <3>1, <3>2
  <2>6. supply' \in Int
    <3>1. job.acct.pt \in Nat /\ acct[job.u].pt \in Nat /\ acct[job.u].v \in Nat
      BY <2>1 DEF TypeOK, Account
    <3> QED
      BY <1>2, <3>1 DEF WriteAccount, TypeOK
  <2>7. /\ pc' \in {"acct_row", "ctx_open"}
        /\ pc' = "ctx_open" => job'.id \in Tx
    BY <2>3, <2>4 DEF AfterAccount, TypeOK
  <2>8. UNCHANGED <<ctxSt, ctx, chequeSt, cheque, acctRows, ctRows, known,
                    nextTx, nextKey, crashes, origin>>
    BY <1>2 DEF WriteAccount
  <2> QED
    BY <2>1, <2>2, <2>4, <2>5, <2>6, <2>7, <2>8 DEF TypeOK
<1>3. CASE InsertAccountRow
  <2>1. job.acct.pk \in Key
    BY DEF TypeOK, Job, Account
  <2> QED
    BY <1>3, <2>1 DEF InsertAccountRow, TypeOK
<1>4. CASE OpenCheque
  BY <1>4 DEF OpenCheque, TypeOK
<1>5. CASE WriteCheque
  <2>1. job.cheque \in Cheque
    BY DEF TypeOK, Job
  <2> QED
    BY <1>5, <2>1 DEF WriteCheque, TypeOK
<1>6. CASE RemoveCtx
  BY <1>6 DEF RemoveCtx, TypeOK
<1>7. CASE OpenCtx
  BY <1>7 DEF OpenCtx, TypeOK
<1>8. CASE WriteCtx
  <2>1. job.ctx \in Ctx /\ job \in Job
    BY DEF TypeOK, Job
  <2>2. job' \in Job /\ job'.u = job.u /\ job'.id = job.id /\ job'.op = job.op
        /\ job'.ok = job.ok
    BY <1>8, <2>1 DEF WriteCtx, Job
  <2> QED
    BY <1>8, <2>1, <2>2 DEF WriteCtx, TypeOK
<1>9. CASE InsertCtRow
  <2>1. job.ctx \in Ctx /\ job.id \in Tx
    BY <1>9 DEF InsertCtRow, TypeOK, Job
  <2> DEFINE row == [sn |-> job.ctx.sn, type |-> job.ctx.type, id |-> job.id,
                     receiver |-> IF job.ctx.type = "send"
                                  THEN job.ctx.transfer.pk ELSE NoKey,
                     sender |-> job.ctx.pk1]
  <2>2. row \in CtRow
    BY <2>1, NoType DEF Ctx, CT, CtRow
  <2>3. ctRows' \subseteq CtRow
    BY <1>9, <2>2 DEF InsertCtRow, TypeOK
  <2>4. pc' \in {"cheque_remove", "reply"}
    BY <1>9 DEF InsertCtRow, AfterRow
  <2> QED
    BY <1>9, <2>1, <2>3, <2>4 DEF InsertCtRow, TypeOK
<1>10. CASE RemoveCheque
  BY <1>10 DEF RemoveCheque, TypeOK
<1>11. CASE Reply
  <2>1. job' \in Job /\ job'.op = "none" /\ pc' = "idle"
    BY <1>11, NoneType DEF Reply, NoJob, NewJob
  <2>2. known' \in [Users -> SUBSET Tx]
    BY <1>11 DEF Reply, TypeOK
  <2> QED
    BY <1>11, <2>1, <2>2 DEF Reply, TypeOK
<1>12. CASE Crash
  <2>1. job' \in Job /\ job'.op = "none" /\ pc' = "down"
    BY <1>12, NoneType DEF Crash, NoJob, NewJob
  <2> QED
    BY <1>12, <2>1 DEF Crash, TypeOK
<1>13. CASE Restart
  BY <1>13 DEF Restart, TypeOK
<1> QED
  BY <1>1, <1>2, <1>3, <1>4, <1>5, <1>6, <1>7, <1>8, <1>9, <1>10, <1>11,
     <1>12, <1>13 DEF Continue

LEMMA InitTyped == Init => TypeOK
<1> SUFFICES ASSUME Init PROVE TypeOK
  OBVIOUS
<1>1. 0 \in 0..MaxTx
  BY BoundAssumption
<1>2. job = NoJob /\ job.op = "none" /\ pc = "idle"
  BY DEF Init, NoJob, NewJob
<1> QED
  BY <1>1, <1>2, NoneType DEF Init, TypeOK, FileSt, PCs

\* The types hold in every reachable state, for all users, amounts and
\* bounds: in particular no handler leaves a negative balance behind, and
\* every write of a handler has an account and a file to go to.
THEOREM TypeCorrect == Spec => []TypeOK
<1>1. TypeOK /\ [Next]_vars => TypeOK'
  <2> SUFFICES ASSUME TypeOK, [Next]_vars PROVE TypeOK'
    OBVIOUS
  <2>1. CASE Handle
    BY <2>1, HandleTyped
  <2>2. CASE Continue \/ Crash \/ Restart
    BY <2>2, ContinueTyped
  <2>3. CASE UNCHANGED vars
    BY <2>3 DEF vars, files, tables, counters, history, TypeOK
  <2> QED
    BY <2>1, <2>2, <2>3 DEF Next
<1> QED
  BY InitTyped, <1>1, PTL DEF Spec

-----------------------------------------------------------------------------
(* One send, one cheque: KnownChequeUnique. *)

Busy == pc \notin {"idle", "down"}

\* Hashes are new: nothing has the name a handler will draw next, and a
\* cheque comes from a send that was recorded before it.
FreshIds ==
    /\ \A t \in Tx : t >= nextTx =>
          /\ ctxSt[t] = "none" /\ origin[t] = 0
          /\ \A u \in Users : t \notin known[u]
    /\ job.id < nextTx
    /\ Busy /\ job.id # 0 => job.id = nextTx - 1
    /\ \A t \in Tx : origin[t] < t

\* A send whose cheque a client knows has no readable .ctx file any more.
SpentSends ==
    \A u \in Users : \A c \in known[u] :
        origin[c] # 0 => ctxSt[origin[c]] # "ok"

\* While a refresh is running no client knows a cheque of the same send, and
\* once it is past the removal the file cannot be refreshed again.
RefreshAlone ==
    Busy /\ job.op = "refresh" /\ job.ok /\ origin[job.id] # 0 =>
        /\ origin[job.id] = job.h
        /\ \A u \in Users : \A c \in known[u] : origin[c] # job.h
        /\ pc \notin {"cheque_open", "cheque_write", "ctx_remove"}
              => ctxSt[job.h] # "ok"

OneCheque ==
    \A u, w \in Users : \A c \in known[u], d \in known[w] :
        origin[c] = origin[d] /\ origin[c] # 0 => c = d

ChequeInv ==
    /\ FreshIds
    /\ ~RemoveFails => SpentSends /\ RefreshAlone /\ OneCheque

-----------------------------------------------------------------------------
Early == {"cheque_open", "cheque_write", "ctx_remove"}

LEMMA IdNat == TypeOK => job.id \in Nat /\ job.id \in 0..MaxTx /\ nextTx \in Nat
  BY BoundAssumption DEF TypeOK, Job

\* A running job's file is not the origin of any cheque.
LEMMA IdNoOrigin ==
    ASSUME TypeOK, FreshIds, Busy, job.id # 0
    PROVE  \A t \in Tx : origin[t] # job.id
<1> SUFFICES ASSUME NEW t \in Tx, origin[t] = job.id PROVE FALSE
  OBVIOUS
<1>1. t \in Nat /\ nextTx \in Nat /\ job.id = nextTx - 1 /\ origin[t] < t
  BY DEF FreshIds, TypeOK, Tx
<1>2. t >= nextTx
  BY <1>1
<1> QED
  BY <1>2 DEF FreshIds

\* Steps that touch no transaction file, name and client.
LEMMA QuietStep ==
    ASSUME ChequeInv, Busy, Busy',
           UNCHANGED <<ctxSt, origin, known, nextTx>>,
           job'.id = job.id, job'.h = job.h, job'.op = job.op, job'.ok = job.ok,
           pc' \notin Early => pc \notin Early
    PROVE  ChequeInv'
<1>1. FreshIds'
  BY DEF ChequeInv, FreshIds
<1>2. SpentSends => SpentSends'
  BY DEF SpentSends
<1>3. RefreshAlone => RefreshAlone'
  BY DEF RefreshAlone, Early
<1>4. OneCheque => OneCheque'
  BY DEF OneCheque
<1> QED
  BY <1>1, <1>2, <1>3, <1>4 DEF ChequeInv

\* Steps that end with a job that names no file.
LEMMA EmptyJob ==
    ASSUME TypeOK, ChequeInv, UNCHANGED <<ctxSt, origin, known, nextTx>>,
           job'.id = 0, job'.op = "refresh" => ~job'.ok
    PROVE  ChequeInv'
<1>1. nextTx \in Nat \ {0}
  BY DEF TypeOK
<1>2. FreshIds'
  BY <1>1 DEF ChequeInv, FreshIds
<1>3. SpentSends => SpentSends'
  BY DEF SpentSends
<1>4. RefreshAlone'
  BY DEF RefreshAlone
<1>5. OneCheque => OneCheque'
  BY DEF OneCheque
<1> QED
  BY <1>2, <1>3, <1>4, <1>5 DEF ChequeInv

LEMMA RefuseCheque ==
    ASSUME TypeOK, ChequeInv, NEW u, NEW op, NEW ok, op = "refresh" => ~ok,
           Refuse(op, u, ok)
    PROVE  ChequeInv'
<1>1. job'.id = 0 /\ job'.op = op /\ job'.ok = ok
  BY DEF Refuse, Start, NewJob
<1>2. UNCHANGED <<ctxSt, origin, known, nextTx>>
  BY DEF Refuse, files, counters, history
<1> QED
  BY <1>1, <1>2, EmptyJob

LEMMA TransactCheque ==
    ASSUME TypeOK, ChequeInv, NEW u, NEW op, op # "refresh", NEW h, NEW a,
           NEW t, Transact(op, u, h, a, t)
    PROVE  ChequeInv'
<1>1. job'.id = nextTx /\ job'.op = op /\ nextTx' = nextTx + 1
      /\ UNCHANGED <<ctxSt, origin, known>>
  BY DEF Transact, Start, NewJob, files, history
<1>2. nextTx \in Nat
  BY DEF TypeOK
<1>3. FreshIds'
  <2>1. \A c \in Tx : c >= nextTx' => c >= nextTx
    BY <1>1, <1>2 DEF Tx
  <2> QED
    BY <1>1, <1>2, <2>1 DEF ChequeInv, FreshIds
<1>4. SpentSends => SpentSends'
  BY <1>1 DEF SpentSends
<1>5. RefreshAlone'
  BY <1>1 DEF RefreshAlone
<1>6. OneCheque => OneCheque'
  BY <1>1 DEF OneCheque
<1> QED
  BY <1>3, <1>4, <1>5, <1>6 DEF ChequeInv

\* A refresh starts: of a readable file, which no client's cheque comes
\* from, or of nothing.
LEMMA StartRefreshCheque ==
    ASSUME TypeOK, ChequeInv, NEW u \in Users, NEW h \in Tx, NEW src, NEW v,
           NEW r, src = 0 \/ (src = h /\ ctxSt[h] = "ok"),
           StartRefresh(u, h, src, v, r)
    PROVE  ChequeInv'
<1>1. /\ job'.id = nextTx /\ job'.h = h /\ job'.op = "refresh"
      /\ nextTx <= MaxTx /\ nextTx' = nextTx + 1 /\ pc' = "cheque_open"
      /\ origin' = [origin EXCEPT ![nextTx] = src]
      /\ UNCHANGED <<ctxSt, known>>
  BY DEF StartRefresh, Start, NewJob, files
<1>2. nextTx \in Tx /\ nextTx \in Nat \ {0}
  BY <1>1, BoundAssumption DEF TypeOK, Tx
<1>3. src < nextTx
  <2>1. CASE src = 0
    BY <2>1, <1>2
  <2>2. CASE src = h /\ ctxSt[h] = "ok"
    <3>1. ~(h >= nextTx)
      BY <2>2 DEF ChequeInv, FreshIds
    <3> QED
      BY <2>2, <3>1, <1>2 DEF Tx
  <2> QED
    BY <2>1, <2>2
<1>4. origin'[nextTx] = src /\ \A c \in Tx \ {nextTx} : origin'[c] = origin[c]
  BY <1>1, <1>2 DEF TypeOK
<1>5. \A w \in Users : nextTx \notin known[w] /\ known[w] \subseteq Tx
  BY <1>2 DEF ChequeInv, FreshIds, TypeOK
<1>6. FreshIds'
  <2>1. \A c \in Tx : c >= nextTx' => c >= nextTx /\ c # nextTx
    BY <1>1, <1>2 DEF Tx
  <2>2. \A c \in Tx : c >= nextTx' =>
          /\ ctxSt'[c] = "none" /\ origin'[c] = 0
          /\ \A w \in Users : c \notin known'[w]
    BY <1>1, <1>4, <2>1 DEF ChequeInv, FreshIds
  <2>3. \A c \in Tx : origin'[c] < c
    BY <1>3, <1>4 DEF ChequeInv, FreshIds
  <2> QED
    BY <1>1, <1>2, <2>2, <2>3 DEF FreshIds
<1>7. SpentSends => SpentSends'
  BY <1>1, <1>4, <1>5 DEF SpentSends
<1>8. SpentSends => RefreshAlone'
  <2> SUFFICES ASSUME SpentSends, origin'[job'.id] # 0 PROVE RefreshAlone'
    BY DEF RefreshAlone
  <2>1. src = h /\ ctxSt[h] = "ok" /\ h # 0
    BY <1>1, <1>4 DEF Tx
  <2>2. \A w \in Users : \A c \in known'[w] : origin'[c] # h
    BY <2>1, <1>1, <1>4, <1>5 DEF SpentSends
  <2> QED
    BY <1>1, <1>4, <2>1, <2>2 DEF RefreshAlone
<1>9. OneCheque => OneCheque'
  BY <1>1, <1>4, <1>5 DEF OneCheque
<1> QED
  BY <1>6, <1>7, <1>8, <1>9 DEF ChequeInv

LEMMA HandleCheque ==
    ASSUME TypeOK, ChequeInv, Handle
    PROVE  ChequeInv'
<1>1. ASSUME NEW u \in Users, NEW x \in Amounts, BackendCreateAccount(u, x)
      PROVE  ChequeInv'
  <2>1. CASE Refuse("create", u, FALSE)
    BY <2>1, RefuseCheque
  <2>2. CASE ~Refuse("create", u, FALSE)
    <3>1. job'.id = 0 /\ job'.op = "create"
      <4>1. job' = NewJob("create", u, 0, 0, CreateAccount(<<u, nextKey>>, x),
                          NoCtx, NoCheque, TRUE)
        BY <1>1, <2>2 DEF BackendCreateAccount, Start
      <4> QED
        BY <4>1 DEF NewJob
    <3>2. UNCHANGED <<ctxSt, origin, known, nextTx>>
      BY <1>1, <2>2 DEF BackendCreateAccount, files, history
    <3> QED
      BY <3>1, <3>2, EmptyJob
  <2> QED
    BY <2>1, <2>2
<1>2. ASSUME NEW u \in Users, NEW x \in Amounts, BackendMint(u, x)
      PROVE  ChequeInv'
  BY <1>2, RefuseCheque, TransactCheque DEF BackendMint
<1>3. ASSUME NEW u \in Users, NEW x \in Amounts, BackendRedeem(u, x)
      PROVE  ChequeInv'
  BY <1>3, RefuseCheque, TransactCheque DEF BackendRedeem
<1>4. ASSUME NEW u \in Users, NEW w \in Users, NEW x \in Amounts,
             BackendSendCheque(u, w, x)
      PROVE  ChequeInv'
  BY <1>4, RefuseCheque, TransactCheque DEF BackendSendCheque
<1>5. ASSUME NEW u \in Users, NEW h \in Tx, BackendRefreshCheque(u, h)
      PROVE  ChequeInv'
  BY <1>5, RefuseCheque, StartRefreshCheque DEF BackendRefreshCheque
<1>6. ASSUME NEW u \in Users, NEW h \in Tx, BackendDepositCheque(u, h)
      PROVE  ChequeInv'
  BY <1>6, RefuseCheque, TransactCheque DEF BackendDepositCheque
<1> QED
  BY <1>1, <1>2, <1>3, <1>4, <1>5, <1>6 DEF Handle

\* The steps that write or remove a transaction file, and the answer.
LEMMA RemoveCtxCheque ==
    ASSUME TypeOK, ChequeInv, RemoveCtx
    PROVE  ChequeInv'
<1>1. /\ pc = "ctx_remove" /\ pc' = "ctx_open"
      /\ UNCHANGED <<job, origin, known, nextTx>>
      /\ \A t \in Tx : ctxSt'[t] # "ok" \/ ctxSt'[t] = ctxSt[t]
      /\ \A t \in Tx : ctxSt[t] = "none" => ctxSt'[t] = "none"
      /\ ~RemoveFails => \A t \in Tx : t = job.h => ctxSt'[t] = "none"
  BY DEF RemoveCtx, TypeOK, counters, history
<1>2. FreshIds'
  BY <1>1 DEF ChequeInv, FreshIds, Busy
<1>3. \A t \in Tx : origin[t] # 0 => origin[t] \in Tx
  BY BoundAssumption DEF TypeOK, Tx
<1>4. SpentSends => SpentSends'
  BY <1>1, <1>3 DEF SpentSends, TypeOK
<1>5. ~RemoveFails /\ RefreshAlone => RefreshAlone'
  <2> SUFFICES ASSUME ~RemoveFails, RefreshAlone, job.op = "refresh", job.ok,
                      origin[job.id] # 0
               PROVE  RefreshAlone'
    BY <1>1 DEF RefreshAlone
  <2>1. origin[job.id] = job.h /\ job.id \in Tx /\ Busy
    BY <1>1 DEF RefreshAlone, Busy, TypeOK
  <2>2. ctxSt'[job.h] = "none"
    BY <1>1, <1>3, <2>1
  <2> QED
    BY <1>1, <2>1, <2>2 DEF RefreshAlone
<1>6. OneCheque => OneCheque'
  BY <1>1 DEF OneCheque
<1> QED
  BY <1>2, <1>4, <1>5, <1>6 DEF ChequeInv

LEMMA CtxFileCheque ==
    ASSUME TypeOK, ChequeInv, OpenCtx \/ WriteCtx
    PROVE  ChequeInv'
<1>1. /\ pc \in {"ctx_open", "ctx_write"} /\ pc' \in {"ctx_write", "ct_row"}
      /\ job'.id = job.id /\ job'.h = job.h /\ job'.op = job.op
      /\ job'.ok = job.ok
      /\ UNCHANGED <<origin, known, nextTx>>
      /\ \A t \in Tx : t # job.id => ctxSt'[t] = ctxSt[t]
      /\ Busy /\ Busy' /\ job.id \in Tx /\ job.id # 0
  <2>1. job \in Job
    BY DEF TypeOK
  <2>2. CASE OpenCtx
    BY <2>2 DEF OpenCtx, TypeOK, counters, history, Busy, Tx
  <2>3. CASE WriteCtx
    <3>1. /\ job'.id = job.id /\ job'.h = job.h /\ job'.op = job.op
          /\ job'.ok = job.ok
      BY <2>1, <2>3 DEF WriteCtx, Job
    <3> QED
      BY <2>3, <3>1 DEF WriteCtx, TypeOK, counters, history, Busy, Tx
  <2> QED
    BY <2>2, <2>3
<1>2. job.id = nextTx - 1 /\ nextTx \in Nat /\ job.id \in Nat
  BY <1>1, IdNat DEF ChequeInv, FreshIds
<1>3. FreshIds'
  <2>1. \A t \in Tx : t >= nextTx => t # job.id
    BY <1>2 DEF Tx
  <2> QED
    BY <1>1, <2>1 DEF ChequeInv, FreshIds
<1>4. \A t \in Tx : /\ origin[t] # job.id
                    /\ origin[t] # 0 => origin[t] \in Tx
  <2>1. \A t \in Tx : origin[t] # job.id
    BY <1>1, IdNoOrigin DEF ChequeInv
  <2>2. \A t \in Tx : origin[t] # 0 => origin[t] \in Tx
    BY BoundAssumption DEF TypeOK, Tx
  <2> QED
    BY <2>1, <2>2
<1>5. SpentSends => SpentSends'
  BY <1>1, <1>4 DEF SpentSends, TypeOK
<1>6. RefreshAlone => RefreshAlone'
  <2> SUFFICES ASSUME RefreshAlone, job.op = "refresh", job.ok,
                      origin[job.id] # 0
               PROVE  RefreshAlone'
    BY <1>1 DEF RefreshAlone
  <2>1. /\ origin[job.id] = job.h /\ ctxSt[job.h] # "ok"
        /\ \A u \in Users : \A c \in known[u] : origin[c] # job.h
    BY <1>1 DEF RefreshAlone
  <2>2. ctxSt'[job.h] # "ok"
    BY <1>1, <1>4, <2>1
  <2> QED
    BY <1>1, <2>1, <2>2 DEF RefreshAlone
<1>7. OneCheque => OneCheque'
  BY <1>1 DEF OneCheque
<1> QED
  BY <1>3, <1>5, <1>6, <1>7 DEF ChequeInv

LEMMA ReplyCheque ==
    ASSUME TypeOK, ChequeInv, Reply
    PROVE  ChequeInv'
<1>1. /\ pc = "reply" /\ pc' = "idle" /\ job' = NoJob
      /\ UNCHANGED <<ctxSt, origin, nextTx>> /\ Busy
  BY DEF Reply, files, counters, history, Busy
<1>2. CASE UNCHANGED known
  BY <1>1, <1>2, EmptyJob DEF NoJob, NewJob
<1>3. CASE /\ job.op = "refresh" /\ job.ok
           /\ known' = [known EXCEPT ![job.u] = @ \cup {job.id}]
  <2>1. job.id \in Tx /\ job.id \in Nat /\ nextTx \in Nat \ {0}
    BY <1>3, IdNat DEF TypeOK
  <2>2. \A u \in Users : \A c \in known'[u] : c \in known[u] \/ c = job.id
    BY <1>3 DEF TypeOK
  <2>3. job.id < nextTx
    BY DEF ChequeInv, FreshIds
  <2>4. FreshIds'
    <3>1. \A t \in Tx : t >= nextTx => t # job.id
      BY <2>1, <2>3 DEF Tx
    <3>2. job'.id = 0
      BY <1>1 DEF NoJob, NewJob
    <3> QED
      BY <1>1, <2>1, <2>2, <3>1, <3>2 DEF ChequeInv, FreshIds
  <2>5. RefreshAlone /\ SpentSends => SpentSends'
    BY <1>1, <1>3, <2>2 DEF RefreshAlone, SpentSends
  <2>6. RefreshAlone'
    BY <1>1 DEF RefreshAlone, Busy
  <2>7. RefreshAlone /\ OneCheque => OneCheque'
    <3> SUFFICES ASSUME RefreshAlone, OneCheque,
                        NEW u \in Users, NEW w \in Users,
                        NEW c \in known'[u], NEW d \in known'[w],
                        origin[c] = origin[d], origin[c] # 0
                 PROVE  c = d
      BY <1>1 DEF OneCheque
    <3>1. CASE c = job.id /\ d \in known[w]
      BY <1>1, <1>3, <3>1 DEF RefreshAlone
    <3>2. CASE d = job.id /\ c \in known[u]
      BY <1>1, <1>3, <3>2 DEF RefreshAlone
    <3>3. CASE c \in known[u] /\ d \in known[w]
      BY <3>3 DEF OneCheque
    <3> QED
      BY <2>2, <3>1, <3>2, <3>3
  <2> QED
    BY <2>4, <2>5, <2>6, <2>7 DEF ChequeInv
<1> QED
  BY <1>2, <1>3 DEF Reply

\* The writes that leave the transaction files alone.
LEMMA OtherWriteCheque ==
    ASSUME TypeOK, ChequeInv,
           \/ OpenAccount \/ WriteAccount \/ InsertAccountRow \/ OpenCheque
           \/ WriteCheque \/ InsertCtRow \/ RemoveCheque
    PROVE  ChequeInv'
<1>1. UNCHANGED <<ctxSt, origin, known, nextTx>>
  BY DEF OpenAccount, WriteAccount, InsertAccountRow, OpenCheque,
         WriteCheque, InsertCtRow, RemoveCheque, files, counters, history
<1>2. Busy /\ Busy' /\ (pc' \notin Early => pc \notin Early)
  BY DEF OpenAccount, WriteAccount, InsertAccountRow, OpenCheque,
         WriteCheque, InsertCtRow, RemoveCheque, AfterAccount, AfterRow,
         Busy, Early
<1>3. job' = job \/ job' = [job EXCEPT !.done = TRUE]
  BY DEF OpenAccount, WriteAccount, InsertAccountRow, OpenCheque,
         WriteCheque, InsertCtRow, RemoveCheque
<1>4. job'.id = job.id /\ job'.h = job.h /\ job'.op = job.op /\ job'.ok = job.ok
  <2>1. job \in Job
    BY DEF TypeOK
  <2> QED
    BY <1>3, <2>1 DEF Job
<1> QED
  BY <1>1, <1>2, <1>4, QuietStep

LEMMA CrashCheque ==
    ASSUME TypeOK, ChequeInv, Crash \/ Restart
    PROVE  ChequeInv'
<1>1. CASE Crash
  <2>1. job' = NoJob /\ UNCHANGED <<ctxSt, origin, known, nextTx>>
    BY <1>1 DEF Crash, files, history
  <2> QED
    BY <2>1, EmptyJob DEF NoJob, NewJob
<1>2. CASE Restart
  <2>1. /\ UNCHANGED <<ctxSt, origin, known, nextTx, job>> /\ ~Busy /\ ~Busy'
    BY <1>2 DEF Restart, files, counters, history, Busy
  <2> QED
    BY <2>1
    DEF ChequeInv, FreshIds, SpentSends, RefreshAlone, OneCheque
<1> QED
  BY <1>1, <1>2

LEMMA ChequeInvariant == Spec => []ChequeInv
<1>1. Init => ChequeInv
  <2> SUFFICES ASSUME Init PROVE ChequeInv
    OBVIOUS
  <2>1. job.id = 0 /\ nextTx = 1 /\ ~Busy
    BY DEF Init, NoJob, NewJob, Busy
  <2>2. FreshIds
    BY <2>1 DEF FreshIds, Init, Tx
  <2> QED
    BY <2>1, <2>2
    DEF ChequeInv, SpentSends, RefreshAlone, OneCheque, Init
<1>2. TypeOK /\ ChequeInv /\ [Next]_vars => ChequeInv'
  <2> SUFFICES ASSUME TypeOK, ChequeInv, [Next]_vars PROVE ChequeInv'
    OBVIOUS
  <2>1. CASE Handle
    BY <2>1, HandleCheque
  <2>2. CASE Continue
    BY <2>2, RemoveCtxCheque, CtxFileCheque, ReplyCheque, OtherWriteCheque
    DEF Continue
  <2>3. CASE Crash \/ Restart
    BY <2>3, CrashCheque
  <2>4. CASE UNCHANGED vars
    BY <2>4
    DEF vars, files, counters, history, ChequeInv, FreshIds, SpentSends,
        RefreshAlone, OneCheque, Busy
  <2> QED
    BY <2>1, <2>2, <2>3, <2>4 DEF Next
<1> QED
  BY <1>1, <1>2, TypeCorrect, PTL DEF Spec

\* Clients never hold two cheques of one send transaction, however often
\* they refresh it, whatever they see of the list, and wherever the server
\* dies, provided that remove() works.
THEOREM OneChequePerSend == Spec => []KnownChequeUnique
<1>1. TypeOK /\ ChequeInv => KnownChequeUnique
  <2> SUFFICES ASSUME TypeOK, ChequeInv, ~RemoveFails, NEW c \in Tx, NEW d \in Tx,
                      Clients(c) # {}, Clients(d) # {},
                      origin[c] = origin[d], origin[c] # 0
               PROVE  c = d
    BY DEF KnownChequeUnique
  <2>1. PICK u \in Users : c \in known[u]
    BY DEF Clients
  <2>2. PICK w \in Users : d \in known[w]
    BY DEF Clients
  <2> QED
    BY <2>1, <2>2 DEF ChequeInv, OneCheque
<1> QED
  BY <1>1, TypeCorrect, ChequeInvariant, PTL

-----------------------------------------------------------------------------
(* Account files and recorded transactions: AccountsOpen and SnUnique.     *)

Opens(a) == a.C = Enc(a.pk, a.v, a.r) /\ a.v < MaxCoin

\* A recorded transaction that has a sequence number.
Logged(t) == ctxSt[t] = "ok" /\ ctx[t].type # "refresh"

\* Two account files never hold the same key.
KeysOwned ==
    \A u \in Users : acctSt[u] = "ok" =>
        acct[u].pk[1] = u /\ acct[u].pk[2] < nextKey

\* An account is at least as far as the transactions recorded for its key.
NumbersBelow ==
    \A t \in Tx : Logged(t) =>
        /\ ctx[t].pk1[2] < nextKey
        /\ \A u \in Users : acctSt[u] = "ok" /\ acct[u].pk = ctx[t].pk1 =>
              ctx[t].sn <= acct[u].sn

\* The account a handler is about to write.
AccountJob ==
    pc \in {"acct_open", "acct_write"} =>
        /\ Opens(job.acct)
        /\ job.acct.pk[1] = job.u /\ job.acct.pk[2] < nextKey
        /\ \A t \in Tx : Logged(t) /\ ctx[t].pk1 = job.acct.pk =>
              ctx[t].sn <= job.acct.sn

\* The transaction a handler is about to record has the number of the account
\* it wrote, which no recorded transaction of the key has.
CtxJob ==
    /\ job.op # "create" /\ job.op # "refresh"
         /\ pc \in {"acct_open", "acct_write", "ctx_open", "ctx_write"} =>
            /\ job.ctx.pk1 = job.acct.pk /\ job.ctx.sn = job.acct.sn
            /\ job.acct.pk[1] = job.u /\ job.acct.pk[2] < nextKey
            /\ \A t \in Tx : Logged(t) /\ ctx[t].pk1 = job.ctx.pk1 =>
                  ctx[t].sn < job.ctx.sn
            /\ pc \in {"ctx_open", "ctx_write"} =>
                  acctSt[job.u] = "ok" /\ acct[job.u] = job.acct
    /\ job.op = "refresh"
         /\ pc \in {"cheque_open", "cheque_write", "ctx_remove", "ctx_open",
                    "ctx_write"} =>
            job.ctx.type = "refresh"
    /\ job.op = "create" => pc \notin {"ctx_open", "ctx_write"}
    /\ pc \in {"acct_open", "acct_write"} => job.op # "refresh"
    /\ pc \in {"cheque_open", "cheque_write", "ctx_remove"} =>
          job.op = "refresh"

AccountInv ==
    /\ AccountsOpen /\ SnUnique
    /\ KeysOwned /\ NumbersBelow /\ AccountJob /\ CtxJob

-----------------------------------------------------------------------------
(* What the functions of LedgerMaze.hpp do with key, number and opening. *)

LEMMA RenewFields ==
    ASSUME NEW a \in Account, NEW pt, NEW v, NEW i
    PROVE  LET b == Renew(a, pt, v, i)
           IN b.pk = a.pk /\ b.sn = a.sn + 1 /\ b.v = v
              /\ (v < MaxCoin => Opens(b))
  BY DEF Renew, Account, Opens

LEMMA MintFields ==
    ASSUME NEW a \in Account, NEW x \in Nat, NEW i \in Nat, MintGuard(a, x),
           VerifyMint(a, MintCtx(a, x, i)), Opens(a)
    PROVE  LET b == MintAccount(a, x, i)  t == MintCtx(a, x, i)
           IN b.pk = a.pk /\ b.sn = a.sn + 1 /\ Opens(b)
              /\ t.pk1 = a.pk /\ t.sn = a.sn + 1
<1>1. MintAccount(a, x, i) = Renew(a, a.pt - x, a.v + x, i)
  BY DEF MintAccount
<1>2. MintCtx(a, x, i) \in Ctx /\ MintCtx(a, x, i).rest = MintAccount(a, x, i).C
      /\ MintCtx(a, x, i).pk1 = a.pk /\ MintCtx(a, x, i).sn = a.sn + 1
  BY MintType DEF MintCtx, NewCtx
<1>3. MintAccount(a, x, i).C.v = a.v + x
  BY <1>1 DEF Renew, Account, Enc
<1>4. a.v + x < MaxCoin
  BY <1>2, <1>3 DEF VerifyMint, InRange
<1> QED
  BY <1>1, <1>2, <1>4, RenewFields

LEMMA RedeemFields ==
    ASSUME NEW a \in Account, NEW x \in Nat, NEW i \in Nat, RedeemGuard(a, x),
           Opens(a)
    PROVE  LET b == RedeemAccount(a, x, i)  t == RedeemCtx(a, x, i)
           IN b.pk = a.pk /\ b.sn = a.sn + 1 /\ Opens(b)
              /\ t.pk1 = a.pk /\ t.sn = a.sn + 1
<1>1. RedeemAccount(a, x, i) = Renew(a, a.pt + x, a.v - x, i)
  BY DEF RedeemAccount
<1>2. RedeemCtx(a, x, i).pk1 = a.pk /\ RedeemCtx(a, x, i).sn = a.sn + 1
  BY DEF RedeemCtx, NewCtx
<1>3. a.v - x < MaxCoin
  BY BoundAssumption DEF Opens, Account
<1> QED
  BY <1>1, <1>2, <1>3, RenewFields

LEMMA SendFields ==
    ASSUME NEW a \in Account, NEW pk, NEW x \in Nat, NEW i \in Nat,
           SendGuard(a, x), Opens(a)
    PROVE  LET b == SendAccount(a, x, i)  t == SendCtx(a, pk, x, i)
           IN b.pk = a.pk /\ b.sn = a.sn + 1 /\ Opens(b)
              /\ t.pk1 = a.pk /\ t.sn = a.sn + 1
<1>1. SendAccount(a, x, i) = Renew(a, a.pt, a.v - x, i)
  BY DEF SendAccount
<1>2. SendCtx(a, pk, x, i).pk1 = a.pk /\ SendCtx(a, pk, x, i).sn = a.sn + 1
  BY DEF SendCtx, NewCtx
<1>3. a.v - x < MaxCoin
  BY BoundAssumption DEF Opens, Account
<1> QED
  BY <1>1, <1>2, <1>3, RenewFields

LEMMA DepositFields ==
    ASSUME NEW a \in Account, NEW c, NEW i \in Nat, a.v + c.transfer < MaxCoin
    PROVE  LET b == DepositAccount(a, c, i)  t == DepositCtx(a, c, i)
           IN b.pk = a.pk /\ b.sn = a.sn + 1 /\ Opens(b)
              /\ t.pk1 = a.pk /\ t.sn = a.sn + 1
<1>1. DepositAccount(a, c, i) = Renew(a, a.pt, a.v + c.transfer, i)
  BY DEF DepositAccount
<1>2. DepositCtx(a, c, i).pk1 = a.pk /\ DepositCtx(a, c, i).sn = a.sn + 1
  BY DEF DepositCtx, NewCtx
<1> QED
  BY <1>1, <1>2, RenewFields

-----------------------------------------------------------------------------
(* A handler up to its first write. *)

\* Account and transaction files stay; keys may be drawn.
LEMMA SameFiles ==
    ASSUME TypeOK, AccountInv, UNCHANGED <<acctSt, acct, ctxSt, ctx>>,
           nextKey' >= nextKey, nextKey' \in Nat
    PROVE  /\ AccountsOpen' /\ SnUnique' /\ KeysOwned' /\ NumbersBelow'
           /\ \A t : Logged(t)' <=> Logged(t)
<1>1. \A t : Logged(t)' <=> Logged(t)
  BY DEF Logged
<1>2. nextKey \in Nat
  BY DEF TypeOK
<1>3. AccountsOpen' /\ SnUnique'
  BY DEF AccountInv, AccountsOpen, SnUnique
<1>4. KeysOwned'
  <2>1. \A u \in Users : acct[u].pk[2] \in Nat
    BY DEF TypeOK, Account, Key
  <2> QED
    BY <1>2, <2>1 DEF AccountInv, KeysOwned
<1>5. NumbersBelow'
  <2>1. \A t \in Tx : ctx[t].pk1[2] \in Nat
    BY DEF TypeOK, Ctx, Key
  <2>2. \A t \in Tx : Logged(t)' => ctx'[t].pk1[2] < nextKey'
    BY <1>1, <1>2, <2>1 DEF AccountInv, NumbersBelow
  <2> QED
    BY <1>1, <2>2 DEF AccountInv, NumbersBelow
<1> QED
  BY <1>1, <1>3, <1>4, <1>5

LEMMA RefuseAccount ==
    ASSUME TypeOK, AccountInv, NEW op, NEW u, NEW ok, Refuse(op, u, ok)
    PROVE  AccountInv'
<1>1. pc' = "reply" /\ UNCHANGED <<acctSt, acct, ctxSt, ctx, nextKey>>
  BY DEF Refuse, Start, files, counters
<1>2. nextKey' >= nextKey /\ nextKey' \in Nat
  BY <1>1 DEF TypeOK
<1>3. AccountJob' /\ CtxJob'
  BY <1>1 DEF AccountJob, CtxJob
<1> QED
  BY <1>1, <1>2, <1>3, SameFiles DEF AccountInv

LEMMA TransactAccount ==
    ASSUME TypeOK, AccountInv, NEW u \in Users, Readable(u), NEW h,
           NEW op \in {"mint", "redeem", "send", "deposit"}, NEW a, NEW t,
           a.pk = acct[u].pk, a.sn = acct[u].sn + 1, Opens(a),
           t.pk1 = acct[u].pk, t.sn = acct[u].sn + 1,
           Transact(op, u, h, a, t)
    PROVE  AccountInv'
<1>1. /\ pc' = "acct_open" /\ job'.op = op /\ job'.u = u /\ job'.acct = a
      /\ job'.ctx = t /\ UNCHANGED <<acctSt, acct, ctxSt, ctx, nextKey>>
  BY DEF Transact, Start, NewJob, files
<1>2. nextKey' >= nextKey /\ nextKey' \in Nat
  BY <1>1 DEF TypeOK
<1>3. /\ AccountsOpen' /\ SnUnique' /\ KeysOwned' /\ NumbersBelow'
      /\ \A s : Logged(s)' <=> Logged(s)
  BY <1>1, <1>2, SameFiles
<1>4. a.pk[1] = u /\ a.pk[2] < nextKey
  BY DEF Readable, AccountInv, KeysOwned
<1>5. acct[u].sn \in Nat /\ \A s \in Tx : ctx[s].sn \in Nat
  BY DEF TypeOK, Account, Ctx
<1>6. \A s \in Tx : Logged(s) /\ ctx[s].pk1 = acct[u].pk => ctx[s].sn <= acct[u].sn
  BY DEF Readable, AccountInv, NumbersBelow
<1>7. \A s \in Tx : Logged(s) /\ ctx[s].pk1 = acct[u].pk =>
          ctx[s].sn < acct[u].sn + 1 /\ ctx[s].sn <= acct[u].sn + 1
  BY <1>5, <1>6
<1>8. AccountJob'
  BY <1>1, <1>3, <1>4, <1>7 DEF AccountJob, Opens
<1>9. CtxJob'
  BY <1>1, <1>3, <1>4, <1>7 DEF CtxJob
<1> QED
  BY <1>3, <1>8, <1>9 DEF AccountInv

LEMMA StartRefreshAccount ==
    ASSUME TypeOK, AccountInv, NEW u, NEW h, NEW src, NEW v, NEW r,
           StartRefresh(u, h, src, v, r)
    PROVE  AccountInv'
<1>1. /\ pc' = "cheque_open" /\ job'.op = "refresh"
      /\ job'.ctx = RefreshCtx(acct[u], v, r, nextTx)
      /\ UNCHANGED <<acctSt, acct, ctxSt, ctx, nextKey>>
  BY DEF StartRefresh, Start, NewJob, files
<1>2. nextKey' >= nextKey /\ nextKey' \in Nat
  BY <1>1 DEF TypeOK
<1>3. job'.ctx.type = "refresh"
  BY <1>1 DEF RefreshCtx, NewCtx
<1>4. AccountJob' /\ CtxJob'
  BY <1>1, <1>3 DEF AccountJob, CtxJob
<1> QED
  BY <1>1, <1>2, <1>4, SameFiles DEF AccountInv

LEMMA CreateAccountStep ==
    ASSUME TypeOK, AccountInv, NEW u \in Users, NEW x,
           BackendCreateAccount(u, x)
    PROVE  AccountInv'
<1>1. CASE Refuse("create", u, FALSE)
  BY <1>1, RefuseAccount
<1>2. CASE ~Refuse("create", u, FALSE)
  <2> DEFINE a == CreateAccount(<<u, nextKey>>, x)
  <2>1. /\ job' = NewJob("create", u, 0, 0, a, NoCtx, NoCheque, TRUE)
        /\ pc' = "acct_open" /\ nextKey' = nextKey + 1
        /\ UNCHANGED <<acctSt, acct, ctxSt, ctx>>
    BY <1>2 DEF BackendCreateAccount, Start, files
  <2>2. job'.op = "create" /\ job'.u = u /\ job'.acct = a
    <3> HIDE DEF a
    <3> QED
      BY <2>1 DEF NewJob
  <2>3. a.pk = <<u, nextKey>> /\ Opens(a)
    BY BoundAssumption DEF CreateAccount, Opens
  <2>4. nextKey \in Nat /\ nextKey' \in Nat /\ nextKey' > nextKey
    BY <2>1 DEF TypeOK
  <2>5. /\ AccountsOpen' /\ SnUnique' /\ KeysOwned' /\ NumbersBelow'
        /\ \A s : Logged(s)' <=> Logged(s)
    BY <2>1, <2>4, SameFiles
  <2>6. \A s \in Tx : Logged(s) => ctx[s].pk1 # <<u, nextKey>>
    BY <2>4 DEF AccountInv, NumbersBelow
  <2>7. AccountJob'
    <3>1. job'.acct.pk = <<u, nextKey>> /\ Opens(job'.acct)
      BY <2>2, <2>3
    <3>2. Opens(job.acct)'
      BY <3>1 DEF Opens
    <3>3. \A s \in Tx : Logged(s)' => ctx'[s].pk1 # job'.acct.pk
      BY <2>1, <2>5, <2>6, <3>1
    <3> HIDE DEF a
    <3> QED
      BY <2>2, <2>4, <3>1, <3>2, <3>3 DEF AccountJob
  <2>8. CtxJob'
    BY <2>1, <2>2 DEF CtxJob
  <2> QED
    BY <2>5, <2>7, <2>8 DEF AccountInv
<1> QED
  BY <1>1, <1>2

LEMMA HandleAccount ==
    ASSUME TypeOK, AccountInv, Handle
    PROVE  AccountInv'
<1>0. /\ Amounts \subseteq Nat /\ nextTx \in Nat
      /\ \A u \in Users : acct[u] \in Account
                           /\ (Readable(u) => Opens(acct[u]))
  BY BackendAssumption DEF TypeOK, Readable, AccountInv, AccountsOpen, Opens
<1>1. ASSUME NEW u \in Users, NEW x \in Amounts, BackendCreateAccount(u, x)
      PROVE  AccountInv'
  BY <1>1, CreateAccountStep
<1>2. ASSUME NEW u \in Users, NEW x \in Amounts, BackendMint(u, x)
      PROVE  AccountInv'
  <2>1. CASE \E op, ok : Refuse(op, u, ok)
    BY <2>1, RefuseAccount
  <2>2. CASE ~\E op, ok : Refuse(op, u, ok)
    <3>1. /\ Readable(u) /\ MintGuard(acct[u], x)
          /\ VerifyMint(acct[u], MintCtx(acct[u], x, nextTx))
          /\ Transact("mint", u, 0, MintAccount(acct[u], x, nextTx),
                      MintCtx(acct[u], x, nextTx))
      BY <1>2, <2>2 DEF BackendMint
    <3> QED
      BY <1>0, <3>1, MintFields, TransactAccount
  <2> QED
    BY <2>1, <2>2
<1>3. ASSUME NEW u \in Users, NEW x \in Amounts, BackendRedeem(u, x)
      PROVE  AccountInv'
  <2>1. CASE \E op, ok : Refuse(op, u, ok)
    BY <2>1, RefuseAccount
  <2>2. CASE ~\E op, ok : Refuse(op, u, ok)
    <3>1. /\ Readable(u) /\ RedeemGuard(acct[u], x)
          /\ Transact("redeem", u, 0, RedeemAccount(acct[u], x, nextTx),
                      RedeemCtx(acct[u], x, nextTx))
      BY <1>3, <2>2 DEF BackendRedeem
    <3> QED
      BY <1>0, <3>1, RedeemFields, TransactAccount
  <2> QED
    BY <2>1, <2>2
<1>4. ASSUME NEW u \in Users, NEW w \in Users, NEW x \in Amounts,
             BackendSendCheque(u, w, x)
      PROVE  AccountInv'
  <2>1. CASE \E op, ok : Refuse(op, u, ok)
    BY <2>1, RefuseAccount
  <2>2. CASE ~\E op, ok : Refuse(op, u, ok)
    <3>1. /\ Readable(u) /\ SendGuard(acct[u], x)
          /\ Transact("send", u, 0, SendAccount(acct[u], x, nextTx),
                      SendCtx(acct[u], KeyOf(w), x, nextTx))
      BY <1>4, <2>2 DEF BackendSendCheque
    <3> QED
      BY <1>0, <3>1, SendFields, TransactAccount
  <2> QED
    BY <2>1, <2>2
<1>5. ASSUME NEW u \in Users, NEW h \in Tx, BackendRefreshCheque(u, h)
      PROVE  AccountInv'
  BY <1>5, RefuseAccount, StartRefreshAccount DEF BackendRefreshCheque
<1>6. ASSUME NEW u \in Users, NEW h \in Tx, BackendDepositCheque(u, h)
      PROVE  AccountInv'
  <2>1. CASE \E op, ok : Refuse(op, u, ok)
    BY <2>1, RefuseAccount
  <2>2. CASE ~\E op, ok : Refuse(op, u, ok)
    <3>1. PICK c \in {cheque[h], RefreshedCheque(acct[u], 0, 0)} :
            /\ Readable(u)
            /\ c = cheque[h] => VerifyDeposit(acct[u], c)
                 \/ c = RefreshedCheque(acct[u], 0, 0)
            /\ Transact("deposit", u, h, DepositAccount(acct[u], c, nextTx),
                        DepositCtx(acct[u], c, nextTx))
      BY <1>6, <2>2 DEF BackendDepositCheque
    <3>2. acct[u].v + c.transfer < MaxCoin
      <4>1. CASE VerifyDeposit(acct[u], c)
        BY <4>1 DEF VerifyDeposit, InRange
      <4>2. CASE c = RefreshedCheque(acct[u], 0, 0)
        BY <1>0, <3>1, <4>2 DEF RefreshedCheque, Opens, Account
      <4> QED
        BY <3>1, <4>1, <4>2
    <3> QED
      BY <1>0, <3>1, <3>2, DepositFields, TransactAccount
  <2> QED
    BY <2>1, <2>2
<1> QED
  BY <1>1, <1>2, <1>3, <1>4, <1>5, <1>6 DEF Handle

-----------------------------------------------------------------------------
(* The writes. *)

\* A step that makes no transaction file complete and no account file new.
LEMMA LoggedShrinks ==
    ASSUME TypeOK, AccountInv, UNCHANGED <<acct, ctx, nextKey>>,
           \A u \in Users : acctSt'[u] = "ok" => acctSt[u] = "ok",
           \A t \in Tx : ctxSt'[t] = "ok" => ctxSt[t] = "ok"
    PROVE  /\ AccountsOpen' /\ SnUnique' /\ KeysOwned' /\ NumbersBelow'
           /\ \A t \in Tx : Logged(t)' => Logged(t)
<1>1. \A t \in Tx : Logged(t)' => Logged(t)
  BY DEF Logged
<1>2. AccountsOpen' /\ SnUnique'
  BY DEF AccountInv, AccountsOpen, SnUnique
<1>3. KeysOwned'
  BY DEF AccountInv, KeysOwned
<1>4. NumbersBelow'
  BY <1>1 DEF AccountInv, NumbersBelow
<1> QED
  BY <1>1, <1>2, <1>3, <1>4

LEMMA OpenAccountStep ==
    ASSUME TypeOK, AccountInv, OpenAccount
    PROVE  AccountInv'
<1>1. /\ pc = "acct_open" /\ pc' = "acct_write"
      /\ UNCHANGED <<job, acct, ctx, ctxSt, nextKey>>
      /\ \A u \in Users : acctSt'[u] = "ok" => acctSt[u] = "ok"
  BY DEF OpenAccount, TypeOK, counters
<1>2. /\ AccountsOpen' /\ SnUnique' /\ KeysOwned' /\ NumbersBelow'
      /\ \A t \in Tx : Logged(t)' => Logged(t)
  BY <1>1, LoggedShrinks
<1>3. AccountJob'
  BY <1>1, <1>2 DEF AccountInv, AccountJob, Opens
<1>4. CtxJob'
  BY <1>1, <1>2 DEF AccountInv, CtxJob
<1> QED
  BY <1>2, <1>3, <1>4 DEF AccountInv

\* The new account is ahead of what is recorded for its key, and the key is
\* no other account's.
LEMMA WriteAccountStep ==
    ASSUME TypeOK, AccountInv, WriteAccount
    PROVE  AccountInv'
<1> DEFINE u == job.u
<1>1. /\ pc = "acct_write" /\ pc' = AfterAccount
      /\ acctSt' = [acctSt EXCEPT ![u] = "ok"]
      /\ acct' = [acct EXCEPT ![u] = job.acct]
      /\ job' = [job EXCEPT !.done = TRUE]
      /\ UNCHANGED <<ctxSt, ctx, nextKey>>
  BY DEF WriteAccount, counters
<1>2. u \in Users /\ job \in Job
  BY <1>1 DEF TypeOK
<1>3. /\ acctSt'[u] = "ok" /\ acct'[u] = job.acct
      /\ \A w \in Users : w # u => acctSt'[w] = acctSt[w] /\ acct'[w] = acct[w]
  BY <1>1, <1>2 DEF TypeOK
<1>4. /\ job'.op = job.op /\ job'.u = u /\ job'.acct = job.acct
      /\ job'.ctx = job.ctx
  BY <1>1, <1>2 DEF Job
<1>5. \A t : Logged(t)' <=> Logged(t)
  BY <1>1 DEF Logged
<1>6. /\ Opens(job.acct) /\ job.acct.pk[1] = u /\ job.acct.pk[2] < nextKey
      /\ \A t \in Tx : Logged(t) /\ ctx[t].pk1 = job.acct.pk =>
            ctx[t].sn <= job.acct.sn
  BY <1>1 DEF AccountInv, AccountJob
<1> HIDE DEF u
<1>7. AccountsOpen'
  BY <1>3, <1>6 DEF AccountInv, AccountsOpen, Opens
<1>8. SnUnique'
  BY <1>1 DEF AccountInv, SnUnique
<1>9. KeysOwned'
  BY <1>1, <1>3, <1>6 DEF AccountInv, KeysOwned
<1>10. NumbersBelow'
  BY <1>1, <1>3, <1>5, <1>6 DEF AccountInv, NumbersBelow
<1>11. pc' \in {"acct_row", "ctx_open"} /\ (job.op = "create" => pc' = "acct_row")
  BY <1>1 DEF AfterAccount
<1>12. AccountJob'
  BY <1>11 DEF AccountJob
<1>13. CtxJob'
  <2>1. CASE job.op = "refresh"
    BY <1>1, <1>4, <1>11, <2>1 DEF AccountInv, AccountJob, CtxJob
  <2>2. CASE job.op = "create"
    BY <1>4, <1>11, <2>2 DEF CtxJob
  <2>3. CASE job.op # "refresh" /\ job.op # "create"
    BY <1>1, <1>3, <1>4, <1>5, <1>11, <2>3 DEF AccountInv, CtxJob
  <2> QED
    BY <2>1, <2>2, <2>3
<1> QED
  BY <1>7, <1>8, <1>9, <1>10, <1>12, <1>13 DEF AccountInv

LEMMA WriteCtxStep ==
    ASSUME TypeOK, AccountInv, WriteCtx
    PROVE  AccountInv'
<1>1. /\ pc = "ctx_write" /\ pc' = "ct_row"
      /\ ctxSt' = [ctxSt EXCEPT ![job.id] = "ok"]
      /\ ctx' = [ctx EXCEPT ![job.id] = job.ctx]
      /\ job' = [job EXCEPT !.done = TRUE]
      /\ UNCHANGED <<acctSt, acct, nextKey>>
  BY DEF WriteCtx, counters
<1>2. job.id \in Tx /\ job \in Job /\ job.u \in Users
  BY <1>1 DEF TypeOK
<1>3. /\ ctxSt'[job.id] = "ok" /\ ctx'[job.id] = job.ctx
      /\ \A t \in Tx : t # job.id => ctxSt'[t] = ctxSt[t] /\ ctx'[t] = ctx[t]
  BY <1>1, <1>2 DEF TypeOK
<1>4. \A t \in Tx : t # job.id => (Logged(t)' <=> Logged(t))
  BY <1>3 DEF Logged
<1>5. job.ctx.type # "refresh" =>
        /\ job.ctx.pk1 = job.acct.pk /\ job.ctx.sn = job.acct.sn
        /\ job.acct.pk[1] = job.u /\ job.acct.pk[2] < nextKey
        /\ \A t \in Tx : Logged(t) /\ ctx[t].pk1 = job.ctx.pk1 =>
              ctx[t].sn < job.ctx.sn
        /\ acctSt[job.u] = "ok" /\ acct[job.u] = job.acct
  BY <1>1 DEF AccountInv, CtxJob
<1>6. AccountsOpen' /\ KeysOwned'
  BY <1>1 DEF AccountInv, AccountsOpen, KeysOwned
<1>7. NumbersBelow'
  <2> SUFFICES ASSUME NEW t \in Tx, Logged(t)'
               PROVE  /\ ctx'[t].pk1[2] < nextKey
                      /\ \A w \in Users : acctSt[w] = "ok" /\ acct[w].pk = ctx'[t].pk1
                            => ctx'[t].sn <= acct[w].sn
    BY <1>1 DEF NumbersBelow
  <2>1. CASE t # job.id
    BY <1>3, <1>4, <2>1 DEF AccountInv, NumbersBelow
  <2>2. CASE t = job.id
    <3>1. ctx'[t] = job.ctx /\ job.ctx.type # "refresh"
      BY <1>3, <2>2 DEF Logged
    <3>2. \A w \in Users : acctSt[w] = "ok" /\ acct[w].pk = job.ctx.pk1 => w = job.u
      BY <1>5, <3>1 DEF AccountInv, KeysOwned
    <3>3. job.acct.sn \in Nat
      BY <1>2 DEF Job, Account
    <3> QED
      BY <1>5, <3>1, <3>2, <3>3
  <2> QED
    BY <2>1, <2>2
<1>8. SnUnique'
  <2>1. \A t \in Tx : ctx[t].sn \in Nat
    BY DEF TypeOK, Ctx
  <2>2. job.ctx.sn \in Nat
    BY <1>2 DEF Job, Ctx
  <2> SUFFICES ASSUME NEW s \in Tx, NEW t \in Tx, Logged(s)', Logged(t)',
                      ctx'[s].pk1 = ctx'[t].pk1, ctx'[s].sn = ctx'[t].sn
               PROVE  s = t
    BY DEF SnUnique, Logged
  <2>3. CASE s # job.id /\ t # job.id
    BY <1>3, <1>4, <2>3 DEF AccountInv, SnUnique, Logged
  <2>4. CASE s = job.id /\ t # job.id
    <3>1. job.ctx.type # "refresh" /\ Logged(t)
      BY <1>3, <1>4, <2>4 DEF Logged
    <3> QED
      BY <1>3, <1>5, <2>1, <2>2, <2>4, <3>1
  <2>5. CASE t = job.id /\ s # job.id
    <3>1. job.ctx.type # "refresh" /\ Logged(s)
      BY <1>3, <1>4, <2>5 DEF Logged
    <3> QED
      BY <1>3, <1>5, <2>1, <2>2, <2>5, <3>1
  <2> QED
    BY <2>3, <2>4, <2>5
<1>9. AccountJob' /\ CtxJob'
  BY <1>1 DEF AccountJob, CtxJob
<1> QED
  BY <1>6, <1>7, <1>8, <1>9 DEF AccountInv

\* Every other step leaves accounts alone and completes no .ctx file.
LEMMA OtherAccount ==
    ASSUME TypeOK, AccountInv,
           \/ InsertAccountRow \/ OpenCheque \/ WriteCheque \/ RemoveCtx
           \/ OpenCtx \/ InsertCtRow \/ RemoveCheque \/ Reply
           \/ Crash \/ Restart
    PROVE  AccountInv'
<1> USE DEF InsertAccountRow, OpenCheque, WriteCheque, RemoveCtx, OpenCtx,
            InsertCtRow, RemoveCheque, Reply, Crash, Restart, files, counters
<1>1. UNCHANGED <<acctSt, acct, ctx, nextKey>>
  OBVIOUS
<1>2. \A t \in Tx : ctxSt'[t] = "ok" => ctxSt[t] = "ok"
  BY DEF TypeOK
<1>3. /\ AccountsOpen' /\ SnUnique' /\ KeysOwned' /\ NumbersBelow'
      /\ \A t \in Tx : Logged(t)' => Logged(t)
  BY <1>1, <1>2, LoggedShrinks
<1>4. pc' \notin {"acct_open", "acct_write"}
  BY DEF AfterRow
<1>5. AccountJob'
  BY <1>4 DEF AccountJob
<1>6. CASE pc' \in {"idle", "down", "acct_row", "ct_row", "cheque_remove",
                    "reply"}
  <2>1. CtxJob'
    BY <1>6 DEF CtxJob
  <2> QED
    BY <1>3, <1>5, <2>1 DEF AccountInv
<1>7. CASE pc' \in {"cheque_write", "ctx_remove", "ctx_open", "ctx_write"}
  <2>1. /\ UNCHANGED job
        /\ \/ /\ pc \in {"cheque_open", "cheque_write", "ctx_remove"}
              /\ pc' \in {"cheque_write", "ctx_remove", "ctx_open"}
           \/ pc = "ctx_open" /\ pc' = "ctx_write"
    BY <1>7 DEF AfterRow
  <2>3. CASE job.op # "refresh"
    <3>1. pc = "ctx_open" /\ pc' = "ctx_write" /\ job.op # "create"
      BY <2>1, <2>3 DEF AccountInv, CtxJob
    <3>2. /\ job.ctx.pk1 = job.acct.pk /\ job.ctx.sn = job.acct.sn
          /\ job.acct.pk[1] = job.u /\ job.acct.pk[2] < nextKey
          /\ \A t \in Tx : Logged(t) /\ ctx[t].pk1 = job.ctx.pk1 =>
                ctx[t].sn < job.ctx.sn
          /\ acctSt[job.u] = "ok" /\ acct[job.u] = job.acct
      BY <2>3, <3>1 DEF AccountInv, CtxJob
    <3>3. CtxJob'
      BY <1>1, <1>3, <2>1, <2>3, <3>1, <3>2 DEF CtxJob
    <3> QED
      BY <1>3, <1>5, <3>3 DEF AccountInv
  <2>4. job.op = "refresh" => CtxJob'
    BY <1>7, <2>1 DEF AccountInv, CtxJob
  <2> QED
    BY <1>3, <1>5, <2>3, <2>4 DEF AccountInv
<1>8. pc' \in PCs /\ pc' # "cheque_open"
  BY DEF AfterRow, PCs
<1> QED
  BY <1>4, <1>6, <1>7, <1>8 DEF PCs

LEMMA AccountInvariant == Spec => []AccountInv
<1>1. Init => AccountInv
  <2> SUFFICES ASSUME Init PROVE AccountInv
    OBVIOUS
  <2>1. pc = "idle" /\ \A t \in Tx : ~Logged(t)
    BY DEF Init, Logged
  <2>2. \A u \in Users : acctSt[u] = "none"
    BY DEF Init
  <2>3. \A t \in Tx : ctxSt[t] = "none"
    BY DEF Init
  <2>4. AccountsOpen /\ SnUnique
    BY <2>2, <2>3 DEF AccountsOpen, SnUnique
  <2>5. KeysOwned /\ NumbersBelow /\ AccountJob /\ CtxJob
    BY <2>1, <2>2 DEF KeysOwned, NumbersBelow, AccountJob, CtxJob
  <2> QED
    BY <2>4, <2>5 DEF AccountInv
<1>2. TypeOK /\ AccountInv /\ [Next]_vars => AccountInv'
  <2> SUFFICES ASSUME TypeOK, AccountInv, [Next]_vars PROVE AccountInv'
    OBVIOUS
  <2>1. CASE Handle
    BY <2>1, HandleAccount
  <2>2. CASE Continue \/ Crash \/ Restart
    BY <2>2, OpenAccountStep, WriteAccountStep, WriteCtxStep, OtherAccount
    DEF Continue
  <2>3. CASE UNCHANGED vars
    BY <2>3
    DEF vars, files, counters, AccountInv, AccountsOpen, SnUnique, KeysOwned,
        NumbersBelow, AccountJob, CtxJob, Logged, Opens
  <2> QED
    BY <2>1, <2>2, <2>3 DEF Next
<1> QED
  BY <1>1, <1>2, TypeCorrect, PTL DEF Spec

\* An account file that can be read opens its own ciphertext and is in the
\* range of the proofs, whatever was written, refused or cut off before.
THEOREM AccountsAlwaysOpen == Spec => []AccountsOpen
  BY AccountInvariant, PTL DEF AccountInv

\* No two recorded transactions of a key carry the same number, for any number
\* of crashes between the account file and the .ctx file, and of retries.
THEOREM NumbersUnique == Spec => []SnUnique
  BY AccountInvariant, PTL DEF AccountInv

-----------------------------------------------------------------------------
(* Rows, transaction files and cheque files: RowsBacked, CreditsBounded     *)
(* and CreditsPaid.                                                         *)

BeforeRow == Early \cup {"acct_open", "acct_write", "ctx_open", "ctx_write",
                         "ct_row"}

\* A deposit of the cheque c has written the account and not yet removed c.
Crediting(c) ==
    /\ job.op = "deposit" /\ job.h = c
    /\ pc \in {"ctx_open", "ctx_write", "ct_row", "cheque_remove"}

\* No cheque has a name to come, and no row the name of the running handler's
\* transaction before it inserts it.
NamesFresh ==
    /\ \A t \in Tx : t >= nextTx => chequeSt[t] = "none" /\ credited[t] = 0
    /\ \A row \in ctRows : /\ row.id < nextTx
                           /\ pc \in BeforeRow => row.id # job.id

\* A refresh, until it has removed the .ctx file: its cheque is new, and is of
\* a listed send, or the send's file was gone when it was read.
RefreshJob ==
    /\ pc \in {"cheque_open", "cheque_write"} =>
          chequeSt[job.id] # "ok" /\ credited[job.id] = 0
    /\ pc = "ctx_remove" => chequeSt[job.id] = "ok"
    /\ pc \in Early =>
          /\ job.op = "refresh"
          /\ \E row \in ctRows : row.id = job.h /\ row.type = "send"
          /\ \/ origin[job.id] = job.h
             \/ origin[job.id] = 0 /\ ctxSt[job.h] # "ok"

\* The row a handler inserts is of the file it has written.
RowJob == pc = "ct_row" => ctxSt[job.id] = "ok" /\ ctx[job.id] = job.ctx

\* A cheque is removed after it was credited.
DepositJob ==
    /\ pc = "cheque_remove" => job.op = "deposit"
    /\ pc \in {"acct_open", "acct_write"} => job.op # "refresh"
    /\ \A c \in Tx : Crediting(c) /\ chequeSt[c] = "ok" => credited[c] > 0

\* A cheque that can be deposited was credited once per crash at most.
CreditsSpent ==
    ~RemoveFails =>
        \A c \in Tx :
            /\ credited[c] <= 1 + crashes
            /\ chequeSt[c] = "ok" /\ ~Crediting(c) => credited[c] <= crashes

FileInv ==
    /\ RowsBacked /\ NamesFresh /\ RefreshJob /\ RowJob /\ DepositJob
    /\ CreditsSpent

-----------------------------------------------------------------------------
Backer(c) == chequeSt[c] = "ok" \/ credited[c] > 0

\* Rows stay backed when their files and the cheques of their sends stay.
LEMMA RowsFrame ==
    ASSUME RowsBacked, ctRows' = ctRows,
           \A row \in ctRows : ctxSt'[row.id] = ctxSt[row.id]
                               /\ ctx'[row.id] = ctx[row.id],
           \A c \in Tx : Backer(c) => origin'[c] = origin[c] /\ Backer(c)'
    PROVE  RowsBacked'
<1> SUFFICES ASSUME NEW row \in ctRows
             PROVE  /\ ctx[row.id].type = row.type /\ ctx[row.id].sn = row.sn
                    /\ \/ ctxSt[row.id] = "ok"
                       \/ /\ ctxSt[row.id] = "none" /\ row.type = "send"
                          /\ \E c \in Tx : origin'[c] = row.id /\ Backer(c)'
  BY DEF RowsBacked, Backer
<1>1. /\ ctx[row.id].type = row.type /\ ctx[row.id].sn = row.sn
      /\ \/ ctxSt[row.id] = "ok"
         \/ /\ ctxSt[row.id] = "none" /\ row.type = "send"
            /\ \E c \in Tx : origin[c] = row.id /\ Backer(c)
  BY DEF RowsBacked, Backer
<1> QED
  BY <1>1

LEMMA RowIds == TypeOK => \A row \in ctRows : row.id \in Tx
  BY DEF TypeOK, CtRow

\* The first part of a handler: it has written nothing yet.
LEMMA StartFile ==
    ASSUME TypeOK, FileInv, pc = "idle",
           UNCHANGED <<chequeSt, ctxSt, ctx, ctRows, credited, crashes>>,
           nextTx' \in {nextTx, nextTx + 1}, pc' \in {"acct_open", "reply"},
           pc' = "acct_open" => job'.op # "refresh" /\ job'.id \in {0, nextTx},
           origin' = origin
    PROVE  FileInv'
<1>1. nextTx \in Nat \ {0} /\ nextTx' \in Nat /\ nextTx' >= nextTx
  BY DEF TypeOK
<1>2. RowsBacked'
  BY RowsFrame DEF FileInv, Backer
<1>3. NamesFresh'
  <2>1. \A t \in Tx : t >= nextTx' => t >= nextTx
    BY <1>1 DEF Tx
  <2>2. \A row \in ctRows : /\ row.id \in Nat \ {0} /\ row.id < nextTx
                            /\ row.id < nextTx'
    BY <1>1, RowIds DEF FileInv, NamesFresh, Tx
  <2>3. \A row \in ctRows : pc' = "acct_open" => row.id # job'.id
    BY <1>1, <2>2
  <2> QED
    BY <2>1, <2>2, <2>3 DEF FileInv, NamesFresh, BeforeRow, Early
<1>4. RefreshJob' /\ RowJob' /\ DepositJob'
  BY DEF RefreshJob, RowJob, DepositJob, Early, Crediting
<1>5. CreditsSpent'
  BY DEF FileInv, CreditsSpent, Crediting
<1> QED
  BY <1>2, <1>3, <1>4, <1>5 DEF FileInv

LEMMA RefuseFile ==
    ASSUME TypeOK, FileInv, pc = "idle", NEW op, NEW u, NEW ok,
           Refuse(op, u, ok)
    PROVE  FileInv'
<1>1. /\ pc' = "reply" /\ nextTx' = nextTx /\ origin' = origin
      /\ UNCHANGED <<chequeSt, ctxSt, ctx, ctRows, credited, crashes>>
  BY DEF Refuse, Start, files, tables, counters, history
<1> QED
  BY <1>1, StartFile

LEMMA TransactFile ==
    ASSUME TypeOK, FileInv, pc = "idle", NEW op, op # "refresh", NEW u, NEW h,
           NEW a, NEW t, Transact(op, u, h, a, t)
    PROVE  FileInv'
<1>1. /\ pc' = "acct_open" /\ nextTx' = nextTx + 1 /\ origin' = origin
      /\ UNCHANGED <<chequeSt, ctxSt, ctx, ctRows, credited, crashes>>
      /\ job'.op = op /\ job'.id = nextTx
  BY DEF Transact, Start, NewJob, files, tables, history
<1> QED
  BY <1>1, StartFile

LEMMA StartRefreshFile ==
    ASSUME TypeOK, FileInv, pc = "idle", NEW u \in Users, NEW h \in Tx,
           Listed(u, h), NEW src, NEW v, NEW r,
           src = h \/ (src = 0 /\ ctxSt[h] # "ok"),
           StartRefresh(u, h, src, v, r)
    PROVE  FileInv'
<1>1. /\ pc' = "cheque_open" /\ nextTx <= MaxTx /\ nextTx' = nextTx + 1
      /\ UNCHANGED <<chequeSt, ctxSt, ctx, ctRows, credited, crashes>>
      /\ job'.op = "refresh" /\ job'.id = nextTx /\ job'.h = h
      /\ origin' = [origin EXCEPT ![nextTx] = src]
  BY DEF StartRefresh, Start, NewJob, files, tables
<1>2. nextTx \in Tx /\ nextTx \in Nat \ {0}
  BY <1>1, BoundAssumption DEF TypeOK, Tx
<1>3. origin'[nextTx] = src /\ \A c \in Tx \ {nextTx} : origin'[c] = origin[c]
  BY <1>1, <1>2 DEF TypeOK
<1>4. chequeSt[nextTx] = "none" /\ credited[nextTx] = 0
  BY <1>2 DEF FileInv, NamesFresh
<1>5. RowsBacked'
  <2>1. \A c \in Tx : Backer(c) => c # nextTx
    BY <1>4 DEF Backer
  <2>2. \A c \in Tx : Backer(c) => origin'[c] = origin[c] /\ Backer(c)'
    BY <1>1, <1>3, <2>1 DEF Backer
  <2> QED
    BY <1>1, <2>2, RowsFrame DEF FileInv
<1>6. NamesFresh'
  <2>1. \A t \in Tx : t >= nextTx' => t >= nextTx
    BY <1>1, <1>2 DEF Tx
  <2>2. \A row \in ctRows : /\ row.id \in Nat \ {0} /\ row.id < nextTx
                            /\ row.id < nextTx' /\ row.id # job'.id
    BY <1>1, <1>2, RowIds DEF FileInv, NamesFresh, Tx
  <2> QED
    BY <1>1, <2>1, <2>2 DEF FileInv, NamesFresh
<1>7. RefreshJob'
  <2>1. \E row \in ctRows : row.id = h /\ row.type = "send"
    BY DEF Listed
  <2> QED
    BY <1>1, <1>3, <1>4, <2>1 DEF RefreshJob
<1>8. RowJob' /\ DepositJob'
  BY <1>1 DEF RowJob, DepositJob, Crediting
<1>9. CreditsSpent'
  BY <1>1 DEF FileInv, CreditsSpent, Crediting
<1> QED
  BY <1>5, <1>6, <1>7, <1>8, <1>9 DEF FileInv

LEMMA HandleFile ==
    ASSUME TypeOK, FileInv, Handle
    PROVE  FileInv'
<1>1. ASSUME NEW u \in Users, NEW x \in Amounts, BackendCreateAccount(u, x)
      PROVE  FileInv'
  <2>1. CASE Refuse("create", u, FALSE)
    BY <1>1, <2>1, RefuseFile DEF BackendCreateAccount
  <2>2. CASE ~Refuse("create", u, FALSE)
    <3>1. job' = NewJob("create", u, 0, 0, CreateAccount(<<u, nextKey>>, x),
                        NoCtx, NoCheque, TRUE)
      BY <1>1, <2>2 DEF BackendCreateAccount, Start
    <3>2. job'.op = "create" /\ job'.id = 0
      BY <3>1 DEF NewJob
    <3>3. /\ pc = "idle" /\ pc' = "acct_open" /\ UNCHANGED <<nextTx, origin>>
          /\ UNCHANGED <<chequeSt, ctxSt, ctx, ctRows, credited, crashes>>
      BY <1>1, <2>2 DEF BackendCreateAccount, Start, files, tables, history
    <3> QED
      BY <3>2, <3>3, StartFile
  <2> QED
    BY <2>1, <2>2
<1>2. ASSUME NEW u \in Users, NEW x \in Amounts, BackendMint(u, x)
      PROVE  FileInv'
  BY <1>2, RefuseFile, TransactFile DEF BackendMint
<1>3. ASSUME NEW u \in Users, NEW x \in Amounts, BackendRedeem(u, x)
      PROVE  FileInv'
  BY <1>3, RefuseFile, TransactFile DEF BackendRedeem
<1>4. ASSUME NEW u \in Users, NEW w \in Users, NEW x \in Amounts,
             BackendSendCheque(u, w, x)
      PROVE  FileInv'
  BY <1>4, RefuseFile, TransactFile DEF BackendSendCheque
<1>5. ASSUME NEW u \in Users, NEW h \in Tx, BackendRefreshCheque(u, h)
      PROVE  FileInv'
  BY <1>5, RefuseFile, StartRefreshFile DEF BackendRefreshCheque
<1>6. ASSUME NEW u \in Users, NEW h \in Tx, BackendDepositCheque(u, h)
      PROVE  FileInv'
  BY <1>6, RefuseFile, TransactFile DEF BackendDepositCheque
<1> QED
  BY <1>1, <1>2, <1>3, <1>4, <1>5, <1>6 DEF Handle

-----------------------------------------------------------------------------
(* The writes. *)

LEMMA DoneFields ==
    ASSUME TypeOK, job' = job \/ job' = [job EXCEPT !.done = TRUE]
    PROVE  /\ job'.op = job.op /\ job'.u = job.u /\ job'.h = job.h
           /\ job'.id = job.id /\ job'.acct = job.acct /\ job'.ctx = job.ctx
           /\ job'.cheque = job.cheque
  BY DEF TypeOK, Job

LEMMA QuietFile ==
    ASSUME TypeOK, FileInv, OpenAccount \/ InsertAccountRow
    PROVE  FileInv'
<1>1. /\ UNCHANGED <<chequeSt, ctxSt, ctx, ctRows, credited, crashes, origin,
                     nextTx, job>>
      /\ \/ pc = "acct_open" /\ pc' = "acct_write"
         \/ pc = "acct_row" /\ pc' = "reply"
  BY DEF OpenAccount, InsertAccountRow, files, tables, counters, history
<1>2. RowsBacked'
  BY <1>1, RowsFrame DEF FileInv, Backer
<1>3. NamesFresh'
  BY <1>1 DEF FileInv, NamesFresh, BeforeRow, Early
<1>4. RefreshJob' /\ RowJob' /\ DepositJob'
  BY <1>1 DEF FileInv, RefreshJob, RowJob, DepositJob, Early, Crediting
<1>5. CreditsSpent'
  BY <1>1 DEF FileInv, CreditsSpent, Crediting
<1> QED
  BY <1>2, <1>3, <1>4, <1>5 DEF FileInv

\* A deposit credits a cheque that was not being credited.
LEMMA WriteAccountFile ==
    ASSUME TypeOK, FileInv, WriteAccount
    PROVE  FileInv'
<1>1. /\ UNCHANGED <<chequeSt, ctxSt, ctx, ctRows, crashes, origin, nextTx>>
      /\ pc = "acct_write" /\ pc' \in {"acct_row", "ctx_open"}
      /\ job' = [job EXCEPT !.done = TRUE]
      /\ credited' = IF job.op = "deposit" /\ chequeSt[job.h] = "ok"
                     THEN [credited EXCEPT ![job.h] = @ + 1] ELSE credited
      /\ job.op = "deposit" => pc' = "ctx_open"
  BY DEF WriteAccount, AfterAccount, files, tables, counters, history
<1>2. job'.op = job.op /\ job'.h = job.h /\ job'.id = job.id
  BY <1>1, DoneFields
<1>3. credited \in [Tx -> Nat] /\ crashes \in Nat /\ nextTx \in Nat
  BY DEF TypeOK
<1>4. \A c \in Tx :
        credited'[c] = IF Crediting(c)' /\ chequeSt[c] = "ok"
                       THEN credited[c] + 1 ELSE credited[c]
  <2>1. \A c \in Tx : Crediting(c)' <=> job.op = "deposit" /\ job.h = c
    BY <1>1, <1>2 DEF Crediting
  <2>2. CASE job.op = "deposit" /\ chequeSt[job.h] = "ok"
    <3>1. credited' = [credited EXCEPT ![job.h] = @ + 1]
      BY <1>1, <2>2
    <3> QED
      BY <1>3, <2>1, <2>2, <3>1
  <2>3. CASE ~(job.op = "deposit" /\ chequeSt[job.h] = "ok")
    BY <1>1, <2>1, <2>3
  <2> QED
    BY <2>2, <2>3
<1>5. RowsBacked'
  <2>1. \A c \in Tx : Backer(c) => Backer(c)'
    BY <1>1, <1>3, <1>4 DEF Backer
  <2> QED
    BY <1>1, <2>1, RowsFrame DEF FileInv
<1>6. NamesFresh'
  <2>1. \A t \in Tx : t >= nextTx => chequeSt[t] = "none" /\ credited'[t] = 0
    BY <1>4 DEF FileInv, NamesFresh
  <2> QED
    BY <1>1, <1>2, <2>1 DEF FileInv, NamesFresh, BeforeRow
<1>7. RefreshJob' /\ RowJob'
  BY <1>1 DEF RefreshJob, RowJob, Early
<1>8. DepositJob'
  <2>1. \A c \in Tx : Crediting(c)' /\ chequeSt[c] = "ok" => credited'[c] > 0
    BY <1>3, <1>4
  <2> QED
    BY <1>1, <2>1 DEF DepositJob
<1>9. CreditsSpent'
  <2> SUFFICES ASSUME ~RemoveFails, NEW c \in Tx
               PROVE  /\ credited'[c] <= 1 + crashes
                      /\ chequeSt[c] = "ok" /\ ~Crediting(c)' =>
                            credited'[c] <= crashes
    BY <1>1 DEF CreditsSpent
  <2>1. ~Crediting(c) /\ credited[c] \in Nat
    BY <1>1, <1>3 DEF Crediting
  <2>2. /\ credited[c] <= 1 + crashes
        /\ chequeSt[c] = "ok" => credited[c] <= crashes
    BY <2>1 DEF FileInv, CreditsSpent
  <2> QED
    BY <1>3, <1>4, <2>1, <2>2
<1> QED
  BY <1>5, <1>6, <1>7, <1>8, <1>9 DEF FileInv

\* The cheque file is of a new name: no row rests on it yet.
LEMMA ChequeFileStep ==
    ASSUME TypeOK, FileInv, FreshIds, OpenCheque \/ WriteCheque
    PROVE  FileInv'
<1>1. /\ UNCHANGED <<ctxSt, ctx, ctRows, credited, crashes, origin, nextTx,
                     job>>
      /\ \/ /\ pc = "cheque_open" /\ pc' = "cheque_write"
            /\ chequeSt' = [chequeSt EXCEPT ![job.id] = "torn"]
         \/ /\ pc = "cheque_write" /\ pc' = "ctx_remove"
            /\ chequeSt' = [chequeSt EXCEPT ![job.id] = "ok"]
  BY DEF OpenCheque, WriteCheque, files, tables, counters, history
<1>2. job.id \in Tx /\ job.id < nextTx
  BY <1>1 DEF TypeOK, FreshIds
<1>3. /\ \A c \in Tx : c # job.id => chequeSt'[c] = chequeSt[c]
      /\ chequeSt'[job.id] = IF pc = "cheque_write" THEN "ok" ELSE "torn"
  BY <1>1, <1>2 DEF TypeOK
<1>4. chequeSt[job.id] # "ok" /\ credited[job.id] = 0 /\ job.op = "refresh"
  BY <1>1 DEF FileInv, RefreshJob, Early
<1>5. RowsBacked'
  <2>1. \A c \in Tx : Backer(c) => c # job.id
    BY <1>4 DEF Backer
  <2>2. \A c \in Tx : Backer(c) => Backer(c)'
    BY <1>1, <1>3, <2>1 DEF Backer
  <2> QED
    BY <1>1, <2>2, RowsFrame DEF FileInv
<1>6. NamesFresh'
  <2>1. \A t \in Tx : t >= nextTx => t # job.id
    BY <1>2 DEF TypeOK, Tx
  <2>2. \A t \in Tx : t >= nextTx => chequeSt'[t] = "none"
    BY <1>3, <2>1 DEF FileInv, NamesFresh
  <2> QED
    BY <1>1, <2>2 DEF FileInv, NamesFresh, BeforeRow, Early
<1>7. RefreshJob'
  BY <1>1, <1>3, <1>4 DEF FileInv, RefreshJob, Early
<1>8. RowJob' /\ DepositJob'
  BY <1>1 DEF RowJob, DepositJob, Crediting
<1>9. CreditsSpent'
  <2>1. \A c \in Tx : ~Crediting(c) /\ ~Crediting(c)'
    BY <1>1 DEF Crediting
  <2>2. 0 <= crashes
    BY DEF TypeOK
  <2> QED
    BY <1>1, <1>3, <1>4, <2>1, <2>2 DEF FileInv, CreditsSpent
<1> QED
  BY <1>5, <1>6, <1>7, <1>8, <1>9 DEF FileInv

\* The removed file's send has a cheque, which was written before.
LEMMA RemoveCtxFile ==
    ASSUME TypeOK, FileInv, RemoveCtx
    PROVE  FileInv'
<1>1. /\ UNCHANGED <<ctx, ctRows, credited, crashes, origin, nextTx, job,
                     chequeSt>>
      /\ pc = "ctx_remove" /\ pc' = "ctx_open"
      /\ ctxSt' = [ctxSt EXCEPT ![job.h] = "none"] \/ ctxSt' = ctxSt
  BY DEF RemoveCtx, files, tables, counters, history
<1>2. /\ job.op = "refresh" /\ job.id \in Tx /\ chequeSt[job.id] = "ok"
      /\ \/ origin[job.id] = job.h
         \/ origin[job.id] = 0 /\ ctxSt[job.h] # "ok"
  BY <1>1 DEF FileInv, RefreshJob, TypeOK, Early
<1>3. PICK sent \in ctRows : sent.id = job.h /\ sent.type = "send"
  BY <1>1 DEF FileInv, RefreshJob, Early
<1>4. job.h \in Tx
  BY <1>3, RowIds
<1>5. /\ \A t \in Tx : t # job.h => ctxSt'[t] = ctxSt[t]
      /\ ctxSt'[job.h] = "none" \/ ctxSt'[job.h] = ctxSt[job.h]
  BY <1>1, <1>4 DEF TypeOK
<1>6. RowsBacked'
  <2> SUFFICES ASSUME NEW row \in ctRows
               PROVE  /\ ctx[row.id].type = row.type /\ ctx[row.id].sn = row.sn
                      /\ \/ ctxSt'[row.id] = "ok"
                         \/ /\ ctxSt'[row.id] = "none" /\ row.type = "send"
                            /\ \E c \in Tx : origin[c] = row.id /\ Backer(c)
    BY <1>1 DEF RowsBacked, Backer
  <2>1. /\ ctx[row.id].type = row.type /\ ctx[row.id].sn = row.sn
        /\ \/ ctxSt[row.id] = "ok"
           \/ /\ ctxSt[row.id] = "none" /\ row.type = "send"
              /\ \E c \in Tx : origin[c] = row.id /\ Backer(c)
    BY DEF FileInv, RowsBacked, Backer
  <2>2. CASE ctxSt'[row.id] = ctxSt[row.id]
    BY <2>1, <2>2
  <2>3. CASE ctxSt'[row.id] # ctxSt[row.id]
    <3>1. row.id = job.h /\ ctxSt'[row.id] = "none" /\ ctxSt[row.id] = "ok"
      BY <1>5, <2>1, <2>3, RowIds
    <3>2. row.type = "send"
      BY <1>3, <2>1, <3>1 DEF FileInv, RowsBacked
    <3>3. origin[job.id] = row.id /\ Backer(job.id)
      BY <1>2, <3>1 DEF Backer
    <3> QED
      BY <1>2, <2>1, <3>1, <3>2, <3>3
  <2> QED
    BY <2>2, <2>3
<1>7. NamesFresh'
  BY <1>1 DEF FileInv, NamesFresh, BeforeRow, Early
<1>8. RefreshJob' /\ RowJob'
  BY <1>1 DEF RefreshJob, RowJob, Early
<1>9. DepositJob' /\ CreditsSpent'
  <2>1. \A c \in Tx : ~Crediting(c) /\ ~Crediting(c)'
    BY <1>1, <1>2 DEF Crediting
  <2> QED
    BY <1>1, <2>1 DEF FileInv, DepositJob, CreditsSpent
<1> QED
  BY <1>6, <1>7, <1>8, <1>9 DEF FileInv

\* The handler's own transaction file: no row has its name yet.
LEMMA CtxFileStep ==
    ASSUME TypeOK, FileInv, OpenCtx \/ WriteCtx
    PROVE  FileInv'
<1>1. /\ UNCHANGED <<ctRows, credited, crashes, origin, nextTx, chequeSt>>
      /\ job' = job \/ job' = [job EXCEPT !.done = TRUE]
      /\ \/ /\ pc = "ctx_open" /\ pc' = "ctx_write" /\ ctx' = ctx
            /\ ctxSt' = [ctxSt EXCEPT ![job.id] = "torn"]
         \/ /\ pc = "ctx_write" /\ pc' = "ct_row"
            /\ ctx' = [ctx EXCEPT ![job.id] = job.ctx]
            /\ ctxSt' = [ctxSt EXCEPT ![job.id] = "ok"]
  BY DEF OpenCtx, WriteCtx, files, tables, counters, history
<1>2. /\ job'.op = job.op /\ job'.h = job.h /\ job'.id = job.id
      /\ job'.ctx = job.ctx
  BY <1>1, DoneFields
<1>3. job.id \in Tx
  BY <1>1 DEF TypeOK
<1>4. \A t \in Tx : t # job.id => ctxSt'[t] = ctxSt[t] /\ ctx'[t] = ctx[t]
  BY <1>1, <1>3 DEF TypeOK
<1>5. \A row \in ctRows : row.id # job.id /\ row.id \in Tx
  BY <1>1, RowIds DEF FileInv, NamesFresh, BeforeRow
<1>6. RowsBacked'
  BY <1>1, <1>4, <1>5, RowsFrame DEF FileInv, Backer
<1>7. NamesFresh'
  BY <1>1, <1>2, <1>5 DEF FileInv, NamesFresh
<1>8. RefreshJob'
  BY <1>1 DEF RefreshJob, Early
<1>9. RowJob'
  BY <1>1, <1>2, <1>3 DEF RowJob, TypeOK
<1>10. DepositJob' /\ CreditsSpent'
  <2>1. \A c \in Tx : Crediting(c)' <=> Crediting(c)
    BY <1>1, <1>2 DEF Crediting
  <2> QED
    BY <1>1, <2>1 DEF FileInv, DepositJob, CreditsSpent
<1> QED
  BY <1>6, <1>7, <1>8, <1>9, <1>10 DEF FileInv

LEMMA InsertFile ==
    ASSUME TypeOK, FileInv, FreshIds, InsertCtRow
    PROVE  FileInv'
<1>1. /\ UNCHANGED <<ctxSt, ctx, credited, crashes, origin, nextTx, chequeSt,
                     job>>
      /\ pc = "ct_row" /\ pc' = AfterRow
      /\ \A row \in ctRows' : row \in ctRows \/ /\ row.id = job.id
                                                /\ row.sn = job.ctx.sn
                                                /\ row.type = job.ctx.type
  BY DEF InsertCtRow, files, counters, history
<1>2. job.id < nextTx /\ ctxSt[job.id] = "ok" /\ ctx[job.id] = job.ctx
  BY <1>1 DEF FreshIds, FileInv, RowJob
<1>3. /\ pc' \in {"cheque_remove", "reply"}
      /\ pc' = "cheque_remove" <=> job.op = "deposit"
  BY <1>1 DEF AfterRow
<1>4. RowsBacked'
  BY <1>1, <1>2 DEF FileInv, RowsBacked
<1>5. NamesFresh'
  BY <1>1, <1>2, <1>3 DEF FileInv, NamesFresh, BeforeRow, Early
<1>6. RefreshJob' /\ RowJob'
  BY <1>3 DEF RefreshJob, RowJob, Early
<1>7. DepositJob' /\ CreditsSpent'
  <2>1. \A c \in Tx : Crediting(c)' <=> Crediting(c)
    BY <1>1, <1>3 DEF Crediting
  <2> QED
    BY <1>1, <1>3, <2>1 DEF FileInv, DepositJob, CreditsSpent
<1> QED
  BY <1>4, <1>5, <1>6, <1>7 DEF FileInv

\* The removed cheque was credited.
LEMMA RemoveChequeFile ==
    ASSUME TypeOK, FileInv, RemoveCheque
    PROVE  FileInv'
<1>1. /\ UNCHANGED <<ctxSt, ctx, ctRows, credited, crashes, origin, nextTx, job>>
      /\ pc = "cheque_remove" /\ pc' = "reply"
      /\ \/ chequeSt' = [chequeSt EXCEPT ![job.h] = "none"]
         \/ RemoveFails /\ chequeSt' = chequeSt
  BY DEF RemoveCheque, files, tables, counters, history
<1>2. job.op = "deposit"
  BY <1>1 DEF FileInv, DepositJob
<1>3. \A c \in Tx : /\ chequeSt'[c] = chequeSt[c] \/ chequeSt'[c] = "none"
                    /\ c # job.h => chequeSt'[c] = chequeSt[c]
                    /\ c = job.h /\ ~RemoveFails => chequeSt'[c] = "none"
  BY <1>1 DEF TypeOK
<1>4. \A c \in Tx : /\ Crediting(c) <=> c = job.h
                    /\ ~Crediting(c)'
  BY <1>1, <1>2 DEF Crediting
<1>5. RowsBacked'
  <2>1. \A c \in Tx : Backer(c) => Backer(c)'
    BY <1>1, <1>3, <1>4 DEF FileInv, DepositJob, Backer
  <2> QED
    BY <1>1, <2>1, RowsFrame DEF FileInv
<1>6. NamesFresh'
  BY <1>1, <1>3 DEF FileInv, NamesFresh, BeforeRow, Early
<1>7. RefreshJob' /\ RowJob' /\ DepositJob'
  BY <1>1, <1>4 DEF RefreshJob, RowJob, DepositJob, Early
<1>8. CreditsSpent'
  BY <1>1, <1>3, <1>4 DEF FileInv, CreditsSpent
<1> QED
  BY <1>5, <1>6, <1>7, <1>8 DEF FileInv

LEMMA EndFile ==
    ASSUME TypeOK, FileInv, Reply \/ Crash \/ Restart
    PROVE  FileInv'
<1>1. /\ UNCHANGED <<ctxSt, ctx, ctRows, credited, origin, nextTx, chequeSt>>
      /\ pc' \in {"idle", "down"} /\ crashes' \in {crashes, crashes + 1}
      /\ crashes' = crashes => pc \in {"reply", "down"}
  <2>1. crashes \in Nat
    BY DEF TypeOK
  <2> QED
    BY <2>1 DEF Reply, Crash, Restart, files, tables, counters, history
<1>2. RowsBacked'
  BY <1>1, RowsFrame DEF FileInv, Backer
<1>3. NamesFresh'
  BY <1>1 DEF FileInv, NamesFresh, BeforeRow, Early
<1>4. RefreshJob' /\ RowJob' /\ DepositJob'
  BY <1>1 DEF RefreshJob, RowJob, DepositJob, Early, Crediting
<1>5. CreditsSpent'
  <2> SUFFICES ASSUME ~RemoveFails, NEW c \in Tx
               PROVE  /\ credited[c] <= 1 + crashes'
                      /\ chequeSt[c] = "ok" => credited[c] <= crashes'
    BY <1>1 DEF CreditsSpent
  <2>1. credited[c] \in Nat /\ crashes \in Nat
    BY DEF TypeOK
  <2>2. /\ credited[c] <= 1 + crashes
        /\ chequeSt[c] = "ok" /\ ~Crediting(c) => credited[c] <= crashes
    BY DEF FileInv, CreditsSpent
  <2>3. crashes' = crashes => ~Crediting(c)
    BY <1>1 DEF Crediting
  <2> QED
    BY <1>1, <2>1, <2>2, <2>3
<1> QED
  BY <1>2, <1>3, <1>4, <1>5 DEF FileInv

LEMMA FileInvariant == Spec => []FileInv
<1>1. Init => FileInv
  <2> SUFFICES ASSUME Init PROVE FileInv
    OBVIOUS
  <2>1. /\ pc = "idle" /\ ctRows = {} /\ crashes = 0
        /\ \A c \in Tx : chequeSt[c] = "none" /\ credited[c] = 0
    BY DEF Init
  <2> QED
    BY <2>1
    DEF FileInv, RowsBacked, NamesFresh, RefreshJob, RowJob, DepositJob,
        CreditsSpent, Crediting, BeforeRow, Early
<1>2. TypeOK /\ ChequeInv /\ FileInv /\ [Next]_vars => FileInv'
  <2> SUFFICES ASSUME TypeOK, ChequeInv, FileInv, [Next]_vars PROVE FileInv'
    OBVIOUS
  <2>1. FreshIds
    BY DEF ChequeInv
  <2>2. CASE Handle
    BY <2>2, HandleFile
  <2>3. CASE Continue \/ Crash \/ Restart
    BY <2>1, <2>3, QuietFile, WriteAccountFile, ChequeFileStep, RemoveCtxFile,
       CtxFileStep, InsertFile, RemoveChequeFile, EndFile DEF Continue
  <2>4. CASE UNCHANGED vars
    BY <2>4
    DEF vars, files, tables, counters, history, FileInv, RowsBacked, NamesFresh,
        RefreshJob, RowJob, DepositJob, CreditsSpent, Crediting
  <2> QED
    BY <2>2, <2>3, <2>4 DEF Next
<1> QED
  BY <1>1, <1>2, TypeCorrect, ChequeInvariant, PTL DEF Spec

\* Every row has its .ctx file, or a cheque of its send, or a credit, wherever
\* the server dies and whether or not INSERT and remove() fail.
THEOREM RowsAlwaysBacked == Spec => []RowsBacked
  BY FileInvariant, PTL DEF FileInv

\* One cheque is credited at most once more than the server has crashed.
THEOREM CreditsAlwaysBounded == Spec => []CreditsBounded
<1>1. FileInv => CreditsBounded
  BY DEF FileInv, CreditsSpent, CreditsBounded
<1> QED
  BY <1>1, FileInvariant, PTL

-----------------------------------------------------------------------------
(* Every credit has been paid for: CreditsPaid. *)

\* The cheque q, named c, is worth the send it comes from, under its key.
ChequePaid(c, q) ==
    /\ origin[c] = 0 => q.transfer = 0
    /\ origin[c] # 0 =>
          LET t == ctx[origin[c]]
          IN /\ origin[c] \in Tx /\ t.type = "send"
             /\ t.transfer.v = q.transfer /\ t.transfer.pk = q.C.pk

ChequesPaid == \A c \in Tx : chequeSt[c] = "ok" => ChequePaid(c, cheque[c])

RefreshPaid ==
    pc \in {"cheque_open", "cheque_write"} => ChequePaid(job.id, job.cheque)

KeysDrawn == \A u \in Users : acct[u].pk[2] < nextKey

\* What a handler is about to write for account u: a new key, no more coins
\* than before or coins from the public balance, or the worth of a cheque.
NewKeyJob == job.op = "create" /\ job.acct.pk # acct[job.u].pk
NoCreditJob ==
    job.acct.pt # acct[job.u].pt \/ job.acct.v <= acct[job.u].v
ChequeJob ==
    /\ job.op = "deposit" /\ job.h \in Tx /\ chequeSt[job.h] = "ok"
    /\ job.acct.v = acct[job.u].v + cheque[job.h].transfer
    /\ cheque[job.h].C.pk = acct[job.u].pk
WritePaid ==
    pc \in {"acct_open", "acct_write"} => NewKeyJob \/ NoCreditJob \/ ChequeJob

PaidInv == ChequesPaid /\ RefreshPaid /\ KeysDrawn /\ WritePaid

-----------------------------------------------------------------------------
LEMMA RenewBalance ==
    ASSUME TypeOK, NEW u \in Users, NEW pt, NEW v, NEW i
    PROVE  Renew(acct[u], pt, v, i).pt = pt /\ Renew(acct[u], pt, v, i).v = v
  BY DEF Renew, TypeOK, Account

\* Requests that start no refresh.
LEMMA StartPaid ==
    ASSUME TypeOK, PaidInv, pc = "idle",
           UNCHANGED <<acct, ctx, chequeSt, cheque, origin>>,
           nextKey' \in Nat, nextKey' >= nextKey,
           pc' = "reply" \/ (pc' = "acct_open" /\ WritePaid')
    PROVE  PaidInv'
<1>1. ChequesPaid'
  BY DEF PaidInv, ChequesPaid, ChequePaid
<1>2. RefreshPaid'
  BY DEF RefreshPaid
<1>3. KeysDrawn'
  <2>1. \A u \in Users : acct[u].pk[2] \in Nat
    BY DEF TypeOK, Account, Key
  <2> QED
    BY <2>1 DEF PaidInv, KeysDrawn, TypeOK
<1>4. WritePaid'
  BY DEF WritePaid
<1> QED
  BY <1>1, <1>2, <1>3, <1>4 DEF PaidInv

LEMMA RefusePaid ==
    ASSUME TypeOK, PaidInv, pc = "idle", NEW op, NEW u, NEW ok,
           Refuse(op, u, ok)
    PROVE  PaidInv'
<1>1. /\ pc' = "reply" /\ nextKey' = nextKey
      /\ UNCHANGED <<acct, ctx, chequeSt, cheque, origin>>
  BY DEF Refuse, Start, files, counters, history
<1>2. nextKey' \in Nat /\ nextKey' >= nextKey
  BY <1>1 DEF TypeOK
<1> QED
  BY <1>1, <1>2, StartPaid

\* A transaction that gives the account no coins, or those of a cheque.
LEMMA TransactPaid ==
    ASSUME TypeOK, PaidInv, pc = "idle", NEW op, NEW u, NEW h \in Tx \cup {0},
           NEW a, NEW t, Transact(op, u, h, a, t),
           \/ a.pt # acct[u].pt \/ a.v <= acct[u].v
           \/ /\ op = "deposit" /\ h \in Tx /\ chequeSt[h] = "ok"
              /\ a.v = acct[u].v + cheque[h].transfer
              /\ cheque[h].C.pk = acct[u].pk
    PROVE  PaidInv'
<1>1. /\ pc' = "acct_open" /\ nextKey' = nextKey
      /\ UNCHANGED <<acct, ctx, chequeSt, cheque, origin>>
      /\ job'.op = op /\ job'.u = u /\ job'.h = h /\ job'.acct = a
  BY DEF Transact, Start, NewJob, files, history
<1>2. nextKey' \in Nat /\ nextKey' >= nextKey
  BY <1>1 DEF TypeOK
<1>3. NoCreditJob' \/ ChequeJob'
  BY <1>1 DEF NoCreditJob, ChequeJob
<1> QED
  BY <1>1, <1>2, <1>3, StartPaid DEF WritePaid

\* The cheque a refresh will write is worth the send it has read, which is
\* listed as a send and verified, or nothing.
LEMMA StartRefreshPaid ==
    ASSUME TypeOK, PaidInv, FileInv, pc = "idle", NEW u \in Users,
           NEW h \in Tx, Listed(u, h), NEW src, NEW v, NEW r,
           \/ src = 0 /\ v = 0
           \/ src = h /\ VerifyRefresh(acct[u], ctx[h]) /\ v = ctx[h].aux.v,
           StartRefresh(u, h, src, v, r)
    PROVE  PaidInv'
<1> DEFINE q == RefreshedCheque(acct[u], v, nextTx)
<1>1. /\ pc' = "cheque_open" /\ nextTx <= MaxTx
      /\ UNCHANGED <<acct, ctx, chequeSt, cheque, nextKey>>
      /\ job'.id = nextTx /\ job'.cheque = q
      /\ origin' = [origin EXCEPT ![nextTx] = src]
  <2> DEFINE t == RefreshCtx(acct[u], v, r, nextTx)
  <2>1. job' = NewJob("refresh", u, h, nextTx, NoAccount, t, q, TRUE)
    BY DEF StartRefresh, Start
  <2> HIDE DEF q, t
  <2>2. job'.id = nextTx /\ job'.cheque = q
    BY <2>1 DEF NewJob
  <2> QED
    BY <2>2 DEF StartRefresh, Start, files
<1>2. nextTx \in Tx
  BY <1>1, BoundAssumption DEF TypeOK, Tx
<1>3. origin'[nextTx] = src /\ \A c \in Tx \ {nextTx} : origin'[c] = origin[c]
  BY <1>1, <1>2 DEF TypeOK
<1>4. q.transfer = v /\ q.C.pk = acct[u].pk
  BY DEF RefreshedCheque, Enc
<1>5. ChequesPaid'
  <2>1. nextTx \in Nat /\ nextTx >= nextTx
    BY DEF TypeOK
  <2>2. chequeSt[nextTx] = "none"
    BY <1>2, <2>1 DEF FileInv, NamesFresh
  <2>3. \A c \in Tx : chequeSt[c] = "ok" => origin'[c] = origin[c]
    BY <1>3, <2>2
  <2> QED
    BY <1>1, <2>3 DEF PaidInv, ChequesPaid, ChequePaid
<1>6. /\ src = 0 => q.transfer = 0
      /\ src # 0 => /\ src \in Tx /\ ctx[src].type = "send"
                   /\ ctx[src].transfer.v = q.transfer
                   /\ ctx[src].transfer.pk = q.C.pk
  <2>1. CASE src = 0 /\ v = 0
    BY <1>4, <2>1
  <2>2. CASE src = h /\ VerifyRefresh(acct[u], ctx[h]) /\ v = ctx[h].aux.v
    <3>1. ctx[h].type = "send"
      BY DEF Listed, FileInv, RowsBacked
    <3>2. ctx[h].transfer.v = v /\ ctx[h].transfer.pk = acct[u].pk
      BY <2>2 DEF VerifyRefresh, Enc
    <3>3. src # 0
      BY <2>2 DEF Tx
    <3> HIDE DEF q
    <3> QED
      BY <1>4, <2>2, <3>1, <3>2, <3>3
  <2> QED
    BY <2>1, <2>2
<1>7. RefreshPaid'
  <2> HIDE DEF q
  <2> QED
    BY <1>1, <1>3, <1>6 DEF RefreshPaid, ChequePaid
<1>8. KeysDrawn' /\ WritePaid'
  BY <1>1 DEF PaidInv, KeysDrawn, WritePaid
<1> QED
  BY <1>5, <1>7, <1>8 DEF PaidInv

LEMMA CreatePaid ==
    ASSUME TypeOK, PaidInv, NEW u \in Users, NEW x, BackendCreateAccount(u, x)
    PROVE  PaidInv'
<1>0. pc = "idle"
  BY DEF BackendCreateAccount
<1>1. CASE Refuse("create", u, FALSE)
  BY <1>0, <1>1, RefusePaid
<1>2. CASE ~Refuse("create", u, FALSE)
  <2> DEFINE a == CreateAccount(<<u, nextKey>>, x)
  <2>1. /\ job' = NewJob("create", u, 0, 0, a, NoCtx, NoCheque, TRUE)
        /\ pc' = "acct_open" /\ nextKey' = nextKey + 1
        /\ UNCHANGED <<acct, ctx, chequeSt, cheque, origin>>
    BY <1>2 DEF BackendCreateAccount, Start, files, history
  <2>2. job'.op = "create" /\ job'.u = u /\ job'.acct = a
    <3> HIDE DEF a
    <3> QED
      BY <2>1 DEF NewJob
  <2>3. nextKey \in Nat /\ nextKey' \in Nat /\ nextKey' >= nextKey
    BY <2>1 DEF TypeOK
  <2>4. a.pk = <<u, nextKey>> /\ acct[u].pk[2] \in Nat /\ acct[u].pk[2] < nextKey
    BY DEF CreateAccount, PaidInv, KeysDrawn, TypeOK, Account, Key
  <2>5. a.pk # acct[u].pk
    BY <2>3, <2>4
  <2>6. NewKeyJob'
    <3> HIDE DEF a
    <3> QED
      BY <2>1, <2>2, <2>5 DEF NewKeyJob
  <2> QED
    BY <1>0, <2>1, <2>3, <2>6, StartPaid DEF WritePaid
<1> QED
  BY <1>1, <1>2

LEMMA HandlePaid ==
    ASSUME TypeOK, PaidInv, FileInv, Handle
    PROVE  PaidInv'
<1>0. /\ Amounts \subseteq Nat /\ nextTx \in Nat
      /\ \A u \in Users : acct[u].v \in Nat /\ acct[u].pt \in Nat
  BY BackendAssumption DEF TypeOK, Account
<1>1. ASSUME NEW u \in Users, NEW x \in Amounts, BackendCreateAccount(u, x)
      PROVE  PaidInv'
  BY <1>1, CreatePaid
<1>2. ASSUME NEW u \in Users, NEW x \in Amounts, BackendMint(u, x)
      PROVE  PaidInv'
  <2>1. MintGuard(acct[u], x) => MintAccount(acct[u], x, nextTx).pt # acct[u].pt
    BY <1>0, RenewBalance DEF MintAccount, MintGuard
  <2>2. pc = "idle" /\ 0 \in Tx \cup {0}
    BY <1>2 DEF BackendMint
  <2> QED
    BY <1>2, <2>1, <2>2, RefusePaid, TransactPaid DEF BackendMint
<1>3. ASSUME NEW u \in Users, NEW x \in Amounts, BackendRedeem(u, x)
      PROVE  PaidInv'
  <2>1. RedeemGuard(acct[u], x) => RedeemAccount(acct[u], x, nextTx).v <= acct[u].v
    BY <1>0, RenewBalance DEF RedeemAccount, RedeemGuard
  <2>2. pc = "idle" /\ 0 \in Tx \cup {0}
    BY <1>3 DEF BackendRedeem
  <2> QED
    BY <1>3, <2>1, <2>2, RefusePaid, TransactPaid DEF BackendRedeem
<1>4. ASSUME NEW u \in Users, NEW w \in Users, NEW x \in Amounts,
             BackendSendCheque(u, w, x)
      PROVE  PaidInv'
  <2>1. SendGuard(acct[u], x) => SendAccount(acct[u], x, nextTx).v <= acct[u].v
    BY <1>0, RenewBalance DEF SendAccount, SendGuard
  <2>2. pc = "idle" /\ 0 \in Tx \cup {0}
    BY <1>4 DEF BackendSendCheque
  <2> QED
    BY <1>4, <2>1, <2>2, RefusePaid, TransactPaid DEF BackendSendCheque
<1>5. ASSUME NEW u \in Users, NEW h \in Tx, BackendRefreshCheque(u, h)
      PROVE  PaidInv'
  <2>1. pc = "idle" /\ Listed(u, h)
    BY <1>5 DEF BackendRefreshCheque
  <2> QED
    BY <1>5, <2>1, RefusePaid, StartRefreshPaid DEF BackendRefreshCheque
<1>6. ASSUME NEW u \in Users, NEW h \in Tx, BackendDepositCheque(u, h)
      PROVE  PaidInv'
  <2> DEFINE zero == RefreshedCheque(acct[u], 0, 0)
  <2>1. pc = "idle" /\ h \in Tx \cup {0}
    BY <1>6 DEF BackendDepositCheque
  <2>2. CASE \E op, ok : Refuse(op, u, ok)
    BY <2>1, <2>2, RefusePaid
  <2>3. CASE /\ chequeSt[h] = "ok" /\ VerifyDeposit(acct[u], cheque[h])
             /\ Transact("deposit", u, h,
                         DepositAccount(acct[u], cheque[h], nextTx),
                         DepositCtx(acct[u], cheque[h], nextTx))
    <3>1. cheque[h].C.pk = acct[u].pk
      BY <2>3 DEF VerifyDeposit, Enc
    <3>2. DepositAccount(acct[u], cheque[h], nextTx).v
            = acct[u].v + cheque[h].transfer
      BY RenewBalance DEF DepositAccount
    <3> QED
      BY <2>1, <2>3, <3>1, <3>2, TransactPaid
  <2>4. CASE Transact("deposit", u, h, DepositAccount(acct[u], zero, nextTx),
                      DepositCtx(acct[u], zero, nextTx))
    <3>1. DepositAccount(acct[u], zero, nextTx).v <= acct[u].v
      <4>1. zero.transfer = 0
        BY DEF RefreshedCheque
      <4>2. DepositAccount(acct[u], zero, nextTx).v = acct[u].v + zero.transfer
        BY RenewBalance DEF DepositAccount
      <4> HIDE DEF zero
      <4> QED
        BY <1>0, <4>1, <4>2
    <3> HIDE DEF zero
    <3> QED
      BY <2>1, <2>4, <3>1, TransactPaid
  <2> QED
    BY <1>6, <2>2, <2>3, <2>4 DEF BackendDepositCheque
<1> QED
  BY <1>1, <1>2, <1>3, <1>4, <1>5, <1>6 DEF Handle

-----------------------------------------------------------------------------
(* The writes. *)

\* Cheques stay good when no new one is complete and their sends stay.
LEMMA ChequesFrame ==
    ASSUME TypeOK, PaidInv, origin' = origin,
           \A c \in Tx : chequeSt'[c] = "ok" =>
                            chequeSt[c] = "ok" /\ cheque'[c] = cheque[c],
           \A c \in Tx : origin[c] # 0 => ctx'[origin[c]] = ctx[origin[c]]
    PROVE  ChequesPaid'
  BY DEF PaidInv, ChequesPaid, ChequePaid

LEMMA WriteAccountPaid ==
    ASSUME TypeOK, PaidInv, AccountInv, WriteAccount
    PROVE  PaidInv'
<1>1. /\ UNCHANGED <<ctx, chequeSt, cheque, origin, nextKey>>
      /\ pc = "acct_write" /\ pc' \in {"acct_row", "ctx_open"}
      /\ acct' = [acct EXCEPT ![job.u] = job.acct]
  BY DEF WriteAccount, AfterAccount, counters
<1>2. ChequesPaid'
  BY <1>1, ChequesFrame
<1>3. KeysDrawn'
  <2>1. job.acct.pk[2] < nextKey
    BY <1>1 DEF AccountInv, AccountJob
  <2> QED
    BY <1>1, <2>1 DEF TypeOK, PaidInv, KeysDrawn
<1>4. RefreshPaid' /\ WritePaid'
  BY <1>1 DEF RefreshPaid, WritePaid
<1> QED
  BY <1>2, <1>3, <1>4 DEF PaidInv

LEMMA ChequeFilePaid ==
    ASSUME TypeOK, PaidInv, OpenCheque \/ WriteCheque
    PROVE  PaidInv'
<1>1. /\ UNCHANGED <<acct, ctx, origin, nextKey, job>>
      /\ \/ /\ pc = "cheque_open" /\ pc' = "cheque_write"
            /\ chequeSt' = [chequeSt EXCEPT ![job.id] = "torn"]
            /\ cheque' = cheque
         \/ /\ pc = "cheque_write" /\ pc' = "ctx_remove"
            /\ cheque' = [cheque EXCEPT ![job.id] = job.cheque]
            /\ chequeSt' = [chequeSt EXCEPT ![job.id] = "ok"]
  BY DEF OpenCheque, WriteCheque, counters, history
<1>2. job.id \in Tx /\ ChequePaid(job.id, job.cheque)
  BY <1>1 DEF TypeOK, PaidInv, RefreshPaid
<1>3. \A c \in Tx : c # job.id =>
        chequeSt'[c] = chequeSt[c] /\ cheque'[c] = cheque[c]
  BY <1>1, <1>2 DEF TypeOK
<1>4. \/ chequeSt'[job.id] = "torn"
      \/ cheque'[job.id] = job.cheque
  BY <1>1, <1>2 DEF TypeOK
<1>5. ChequesPaid'
  <2> SUFFICES ASSUME NEW c \in Tx, chequeSt'[c] = "ok"
               PROVE  ChequePaid(c, cheque[c])'
    BY DEF ChequesPaid
  <2>1. CASE c # job.id
    BY <1>1, <1>3, <2>1 DEF PaidInv, ChequesPaid, ChequePaid
  <2>2. CASE c = job.id
    BY <1>1, <1>2, <1>4, <2>2 DEF ChequePaid
  <2> QED
    BY <2>1, <2>2
<1>6. RefreshPaid'
  BY <1>1, <1>2 DEF RefreshPaid, ChequePaid
<1>7. KeysDrawn' /\ WritePaid'
  BY <1>1 DEF PaidInv, KeysDrawn, WritePaid
<1> QED
  BY <1>5, <1>6, <1>7 DEF PaidInv

\* The transaction file that is written is no cheque's send.
LEMMA WriteCtxPaid ==
    ASSUME TypeOK, PaidInv, FreshIds, WriteCtx
    PROVE  PaidInv'
<1>1. /\ UNCHANGED <<acct, chequeSt, cheque, origin, nextKey>>
      /\ pc = "ctx_write" /\ pc' = "ct_row"
      /\ ctx' = [ctx EXCEPT ![job.id] = job.ctx]
  BY DEF WriteCtx, counters, history
<1>2. job.id \in Tx /\ job.id # 0 /\ Busy
  BY <1>1 DEF TypeOK, Busy, Tx
<1>3. \A c \in Tx : origin[c] # job.id
  BY <1>2, IdNoOrigin
<1>4. ChequesPaid'
  <2>1. \A c \in Tx : ctx'[origin[c]] = ctx[origin[c]]
    BY <1>1, <1>3 DEF TypeOK
  <2> QED
    BY <1>1, <2>1, ChequesFrame
<1>5. RefreshPaid' /\ KeysDrawn' /\ WritePaid'
  BY <1>1 DEF PaidInv, RefreshPaid, KeysDrawn, WritePaid
<1> QED
  BY <1>4, <1>5 DEF PaidInv

\* Every other step writes no account, no send and no cheque.
LEMMA OtherPaid ==
    ASSUME TypeOK, PaidInv,
           \/ OpenAccount \/ InsertAccountRow \/ RemoveCtx \/ OpenCtx
           \/ InsertCtRow \/ RemoveCheque \/ Reply \/ Crash \/ Restart
    PROVE  PaidInv'
<1> USE DEF OpenAccount, InsertAccountRow, RemoveCtx, OpenCtx, InsertCtRow,
            RemoveCheque, Reply, Crash, Restart, files, counters, history
<1>1. UNCHANGED <<acct, ctx, cheque, origin, nextKey>>
  OBVIOUS
<1>2. \A c \in Tx : chequeSt'[c] = "ok" => chequeSt[c] = "ok"
  BY DEF TypeOK
<1>3. ChequesPaid'
  BY <1>1, <1>2, ChequesFrame
<1>4. /\ pc' \notin {"cheque_open", "cheque_write", "acct_open"}
      /\ pc' = "acct_write" =>
            pc = "acct_open" /\ UNCHANGED <<job, chequeSt>>
  BY DEF AfterRow
<1>5. RefreshPaid' /\ KeysDrawn'
  BY <1>1, <1>4 DEF PaidInv, RefreshPaid, KeysDrawn
<1>6. WritePaid'
  BY <1>1, <1>4 DEF PaidInv, WritePaid, NewKeyJob, NoCreditJob, ChequeJob
<1> QED
  BY <1>3, <1>5, <1>6 DEF PaidInv

LEMMA PaidInvariant == Spec => []PaidInv
<1>1. Init => PaidInv
  <2> SUFFICES ASSUME Init PROVE PaidInv
    OBVIOUS
  <2>1. /\ pc = "idle" /\ nextKey = 1
        /\ \A c \in Tx : chequeSt[c] = "none"
        /\ \A u \in Users : acct[u].pk[2] = 0
    BY DEF Init, NoAccount, CreateAccount, NoKey
  <2> QED
    BY <2>1 DEF PaidInv, ChequesPaid, RefreshPaid, KeysDrawn, WritePaid
<1>2. TypeOK /\ ChequeInv /\ AccountInv /\ FileInv /\ PaidInv /\ [Next]_vars
        => PaidInv'
  <2> SUFFICES ASSUME TypeOK, ChequeInv, AccountInv, FileInv, PaidInv,
                      [Next]_vars
               PROVE  PaidInv'
    OBVIOUS
  <2>1. FreshIds
    BY DEF ChequeInv
  <2>2. CASE Handle
    BY <2>2, HandlePaid
  <2>3. CASE Continue \/ Crash \/ Restart
    BY <2>1, <2>3, WriteAccountPaid, ChequeFilePaid, WriteCtxPaid, OtherPaid
    DEF Continue
  <2>4. CASE UNCHANGED vars
    BY <2>4
    DEF vars, files, counters, history, PaidInv, ChequesPaid, ChequePaid,
        RefreshPaid, KeysDrawn, WritePaid, NewKeyJob, NoCreditJob, ChequeJob
  <2> QED
    BY <2>2, <2>3, <2>4 DEF Next
<1> QED
  BY <1>1, <1>2, TypeCorrect, ChequeInvariant, AccountInvariant, FileInvariant,
     PTL DEF Spec

-----------------------------------------------------------------------------
\* Only the write of an account file changes an account.
LEMMA AccountsStay ==
    ASSUME Next, ~WriteAccount
    PROVE  acct' = acct
<1>1. CASE Handle
  <2>1. ASSUME NEW op, NEW u, NEW ok, Refuse(op, u, ok)  PROVE acct' = acct
    BY <2>1 DEF Refuse, files
  <2>2. ASSUME NEW op, NEW u, NEW h, NEW a, NEW t, Transact(op, u, h, a, t)
        PROVE  acct' = acct
    BY <2>2 DEF Transact, files
  <2>3. ASSUME NEW u, NEW h, NEW src, NEW v, NEW r, StartRefresh(u, h, src, v, r)
        PROVE  acct' = acct
    BY <2>3 DEF StartRefresh, files
  <2>4. ASSUME NEW u \in Users, NEW x \in Amounts, BackendCreateAccount(u, x)
        PROVE  acct' = acct
    BY <2>1, <2>4 DEF BackendCreateAccount, files
  <2>5. ASSUME NEW u \in Users, NEW x \in Amounts,
               \/ BackendMint(u, x) \/ BackendRedeem(u, x)
               \/ \E w \in Users : BackendSendCheque(u, w, x)
        PROVE  acct' = acct
    BY <2>1, <2>2, <2>5 DEF BackendMint, BackendRedeem, BackendSendCheque
  <2>6. ASSUME NEW u \in Users, NEW h \in Tx,
               BackendRefreshCheque(u, h) \/ BackendDepositCheque(u, h)
        PROVE  acct' = acct
    BY <2>1, <2>2, <2>3, <2>6 DEF BackendRefreshCheque, BackendDepositCheque
  <2> QED
    BY <1>1, <2>4, <2>5, <2>6 DEF Handle
<1>2. CASE ~Handle
  BY <1>2
  DEF Next, Continue, OpenAccount, InsertAccountRow, OpenCheque, WriteCheque,
      RemoveCtx, OpenCtx, WriteCtx, InsertCtRow, RemoveCheque, Reply, Crash,
      Restart, files
<1> QED
  BY <1>1, <1>2

\* A deposit is the one write that raises an encrypted balance and leaves key
\* and public balance alone; a cheque of no send is worth nothing.
LEMMA WritePays ==
    ASSUME TypeOK, PaidInv, AccountInv, WriteAccount, NEW u \in Users,
           acct'[u].pk = acct[u].pk, acct'[u].pt = acct[u].pt,
           acct'[u].v > acct[u].v
    PROVE  CreditPaid(u)
<1>1. /\ pc = "acct_write" /\ acct' = [acct EXCEPT ![job.u] = job.acct]
      /\ credited' = IF job.op = "deposit" /\ chequeSt[job.h] = "ok"
                     THEN [credited EXCEPT ![job.h] = @ + 1] ELSE credited
  BY DEF WriteAccount
<1>2. \A w \in Users : acct[w].v \in Nat /\ acct[w].pt \in Nat
  BY DEF TypeOK, Account
<1>3. u = job.u /\ acct'[u] = job.acct
  BY <1>1, <1>2 DEF TypeOK
<1>4. job.acct.v \in Nat
  BY DEF TypeOK, Job, Account
<1>5. ChequeJob
  BY <1>1, <1>2, <1>3, <1>4 DEF PaidInv, WritePaid, NewKeyJob, NoCreditJob
<1> DEFINE c == job.h
           h == origin[c]
<1>6. /\ c \in Tx /\ chequeSt[c] = "ok" /\ job.op = "deposit"
      /\ acct'[u].v = acct[u].v + cheque[c].transfer
      /\ cheque[c].C.pk = acct[u].pk /\ cheque[c].transfer \in Nat
  BY <1>3, <1>5 DEF ChequeJob, TypeOK, Cheque
<1>7. ChequePaid(c, cheque[c])
  BY <1>6 DEF PaidInv, ChequesPaid
<1>8. /\ h \in Tx /\ ctx[h].type = "send"
      /\ ctx[h].transfer.v = cheque[c].transfer
      /\ ctx[h].transfer.pk = acct[u].pk
  <2>1. h # 0
    BY <1>2, <1>6, <1>7 DEF ChequePaid
  <2> QED
    BY <1>6, <1>7, <2>1 DEF ChequePaid
<1>9. /\ credited'[c] = credited[c] + 1
      /\ \A d \in Tx \ {c} : credited'[d] = credited[d]
  BY <1>1, <1>6 DEF TypeOK
<1>10. ctx[h].transfer.v = acct'[u].v - acct[u].v
  BY <1>2, <1>6, <1>8
<1> QED
  BY <1>6, <1>8, <1>9, <1>10 DEF CreditPaid

\* An encrypted balance grows, other than by mint, only by what a recorded
\* send has paid, whatever crashes, repeated requests and stale lists come.
THEOREM CreditsAlwaysPaid == Spec => CreditsPaid
<1>1. TypeOK /\ AccountInv /\ PaidInv /\ [Next]_vars =>
        [\A u \in Users :
            (acct'[u].pk = acct[u].pk /\ acct'[u].pt = acct[u].pt
                /\ acct'[u].v > acct[u].v) => CreditPaid(u)]_vars
  <2> SUFFICES ASSUME TypeOK, AccountInv, PaidInv, Next, NEW u \in Users,
                      acct'[u].pk = acct[u].pk, acct'[u].pt = acct[u].pt,
                      acct'[u].v > acct[u].v
               PROVE  CreditPaid(u)
    OBVIOUS
  <2>1. acct[u].v \in Nat
    BY DEF TypeOK, Account
  <2>2. WriteAccount
    BY <2>1, AccountsStay
  <2> QED
    BY <2>2, WritePays
<1> QED
  BY <1>1, TypeCorrect, AccountInvariant, PaidInvariant, PTL
  DEF Spec, CreditsPaid

=============================================================================
