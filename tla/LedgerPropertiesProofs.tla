------------------------ MODULE LedgerPropertiesProofs ------------------------
(***************************************************************************)
(* The backend implements the abstract ledger, the recorded transactions   *)
(* agree with the accounts, no coin is made or lost, and what the queries  *)
(* answer is right, for every set of users, amounts and bounds.            *)
(***************************************************************************)
EXTENDS LedgerBackendProofs, LedgerProperties, BackendQueries,
        FiniteSetTheorems, NumberTheorems

InAccount == pc \in {"acct_open", "acct_write"}
InCtx == pc \in {"ctx_open", "ctx_write"}

Numbered == {"mint", "redeem", "send", "deposit"}

\* Keys are drawn within their bound, and no account file, not even one that
\* is being replaced, holds more coins than the proofs can show.
Bounds ==
    /\ nextKey <= MaxKeys + 1
    /\ \A u \in Users : acct[u].v < MaxCoin

\* The transaction t of type op turns the account a into b: coins move between
\* its balances, into the transfer of t, or out of the cheque h.
Moves(op, a, b, t, h) ==
    /\ op \in Numbered /\ b.pk = a.pk /\ b.sn = a.sn + 1
    /\ op \in {"mint", "redeem"} => b.pt + b.v = a.pt + a.v
    /\ op \in {"send", "deposit"} => b.pt = a.pt
    /\ op = "mint" => b.v > a.v
    /\ op \in {"redeem", "send"} => b.v < a.v
    /\ op = "send" => t.transfer.v = a.v - b.v /\ t.transfer.pk[2] <= MaxKeys
    /\ op = "deposit" => h \in Tx
    /\ op = "deposit" /\ chequeSt[h] = "ok" =>
          b.v = a.v + cheque[h].transfer /\ cheque[h].C.pk = a.pk
    /\ op = "deposit" /\ chequeSt[h] # "ok" => b.v = a.v

\* A new account has the youngest key.
Opening(b) ==
    /\ b.v = 0 /\ b.sn = 1 /\ b.pt <= MaxInit /\ b.pk[2] <= MaxKeys
    /\ \A w \in Users : b.pk[2] > acct[w].pk[2]

\* The transaction t of type op records the account b.
Shows(op, b, t) ==
    t.type = op /\ t.pk1 = b.pk /\ t.sn = b.sn /\ t.rest = b.C

\* What a handler is about to write, against what the file held.
WriteJob ==
    InAccount =>
        \/ job.op = "create" /\ Opening(job.acct)
        \/ Moves(job.op, acct[job.u], job.acct, job.ctx, job.h)

\* A handler's own transaction file is not there before it writes it, and
\* records the account of the request; a refresh whose cheque comes from a
\* send keeps that send's file until the cheque is written.
FileJob ==
    /\ (InAccount \/ InCtx \/ pc = "ct_row") /\ job.op \in Numbered =>
          Shows(job.op, job.acct, job.ctx)
    /\ InCtx \/ pc = "ct_row" => job.op \in Numbered \cup {"refresh"}
    /\ (InAccount \/ InCtx \/ pc \in Early) /\ job.id # 0 =>
          ctxSt[job.id] # "ok"
    /\ pc \in Early /\ origin[job.id] # 0 => ctxSt[job.h] = "ok"
    /\ pc = "ctx_remove" => credited[job.id] = 0

\* A cheque that can still be credited is the only place its coins are in.
Live(c) == chequeSt[c] = "ok" /\ credited[c] = 0

OnePlace ==
    Calm => \A c, d \in Tx : Live(c) /\ Live(d) /\ origin[c] = origin[d]
                             /\ origin[c] # 0 => c = d
SendGone ==
    Calm => \A c \in Tx : Live(c) /\ origin[c] # 0 =>
                ctxSt[origin[c]] # "ok" \/ (pc = "ctx_remove" /\ job.id = c)

MapInv == Bounds /\ WriteJob /\ FileJob /\ OnePlace /\ SendGone

-----------------------------------------------------------------------------
(* Rows and accounts. *)

Steady == crashes = 0 /\ ~SqlFails

\* The account of u is written and its transaction not yet in the table.
Recording(u) ==
    /\ job.u = u /\ job.op \in Numbered
    /\ pc \in {"ctx_open", "ctx_write", "ct_row"}

\* What a handler has written is in its account file; a refresh has no number.
RecordJob ==
    /\ (InCtx \/ pc = "ct_row") /\ job.op \in Numbered =>
          acctSt[job.u] = "ok" /\ acct[job.u] = job.acct
    /\ pc \in BeforeRow /\ job.op = "refresh" =>
          job.ctx.sn = 0 /\ job.ctx.pk1[2] < nextKey
    /\ pc = "acct_row" => acctSt[job.u] = "ok" /\ acct[job.u] = job.acct

RowKeys == \A row \in ctRows : row.sender[2] < nextKey

LastShown(u) ==
    \A row \in ctRows : row.sender = acct[u].pk /\ row.sn = acct[u].sn
                        => ctx[row.id].rest = acct[u].C

AccountRecord(u) ==
    /\ acct[u].sn >= 1 /\ (Recording(u) => acct[u].sn >= 2)
    /\ Numbers(acct[u].pk)
         = 2..(IF Recording(u) THEN acct[u].sn - 1 ELSE acct[u].sn)
    /\ LastShown(u)
    /\ acct[u].pk \in acctRows \/ (pc = "acct_row" /\ job.u = u)

NextRecord ==
    InAccount =>
        /\ job.acct.sn >= 1
        /\ job.op = "create" => Numbers(job.acct.pk) = 2..job.acct.sn
        /\ job.op # "create" => /\ job.acct.sn >= 2
                                /\ Numbers(job.acct.pk) = 2..(job.acct.sn - 1)
                                /\ job.acct.pk \in acctRows

RecordInv ==
    /\ RecordJob /\ RowKeys
    /\ Steady => /\ \A u \in Users : acctSt[u] = "ok" => AccountRecord(u)
                 /\ NextRecord

-----------------------------------------------------------------------------
(* What a request starts. *)

LEMMA RenewAll ==
    ASSUME NEW a \in Account, NEW pt, NEW v, NEW i
    PROVE  LET b == Renew(a, pt, v, i)
           IN b.pk = a.pk /\ b.sn = a.sn + 1 /\ b.pt = pt /\ b.v = v
  BY DEF Renew, Account

LEMMA MintMoves ==
    ASSUME NEW a \in Account, NEW x \in Nat, NEW i \in Nat, MintGuard(a, x)
    PROVE  LET b == MintAccount(a, x, i)  t == MintCtx(a, x, i)
           IN Moves("mint", a, b, t, 0) /\ Shows("mint", b, t)
<1> DEFINE b == MintAccount(a, x, i)
           t == MintCtx(a, x, i)
<1>1. /\ b.pk = a.pk /\ b.sn = a.sn + 1 /\ b.pt = a.pt - x /\ b.v = a.v + x
  BY RenewAll DEF MintAccount
<1>2. t.type = "mint" /\ t.pk1 = a.pk /\ t.sn = a.sn + 1 /\ t.rest = b.C
  BY DEF MintCtx, NewCtx
<1>3. a.pt \in Nat /\ a.v \in Nat /\ x > 0
  BY DEF Account, MintGuard
<1> HIDE DEF b, t
<1>4. b.pt + b.v = a.pt + a.v /\ b.v > a.v
  BY <1>1, <1>3
<1> QED
  BY <1>1, <1>2, <1>4 DEF Moves, Shows, Numbered, b, t

LEMMA RedeemMoves ==
    ASSUME NEW a \in Account, NEW x \in Nat, NEW i \in Nat, RedeemGuard(a, x)
    PROVE  LET b == RedeemAccount(a, x, i)  t == RedeemCtx(a, x, i)
           IN Moves("redeem", a, b, t, 0) /\ Shows("redeem", b, t)
<1> DEFINE b == RedeemAccount(a, x, i)
           t == RedeemCtx(a, x, i)
<1>1. /\ b.pk = a.pk /\ b.sn = a.sn + 1 /\ b.pt = a.pt + x /\ b.v = a.v - x
  BY RenewAll DEF RedeemAccount
<1>2. t.type = "redeem" /\ t.pk1 = a.pk /\ t.sn = a.sn + 1 /\ t.rest = b.C
  BY DEF RedeemCtx, NewCtx
<1>3. a.pt \in Nat /\ a.v \in Nat /\ x > 0
  BY DEF Account, RedeemGuard
<1> HIDE DEF b, t
<1>4. b.pt + b.v = a.pt + a.v /\ b.v < a.v
  BY <1>1, <1>3
<1> QED
  BY <1>1, <1>2, <1>4 DEF Moves, Shows, Numbered, b, t

LEMMA SendMoves ==
    ASSUME NEW a \in Account, NEW pk, pk[2] <= MaxKeys, NEW x \in Nat,
           NEW i \in Nat, SendGuard(a, x)
    PROVE  LET b == SendAccount(a, x, i)  t == SendCtx(a, pk, x, i)
           IN Moves("send", a, b, t, 0) /\ Shows("send", b, t)
<1> DEFINE b == SendAccount(a, x, i)
           t == SendCtx(a, pk, x, i)
<1>1. /\ b.pk = a.pk /\ b.sn = a.sn + 1 /\ b.pt = a.pt /\ b.v = a.v - x
  BY RenewAll DEF SendAccount
<1>2. /\ t.type = "send" /\ t.pk1 = a.pk /\ t.sn = a.sn + 1 /\ t.rest = b.C
      /\ t.transfer.v = x /\ t.transfer.pk = pk
  BY DEF SendCtx, NewCtx, Enc
<1>3. a.v \in Nat /\ x > 0
  BY DEF Account, SendGuard
<1> HIDE DEF b, t
<1>4. b.v < a.v /\ x = a.v - b.v
  BY <1>1, <1>3
<1> QED
  BY <1>1, <1>2, <1>4 DEF Moves, Shows, Numbered, b, t

LEMMA DepositMoves ==
    ASSUME NEW a \in Account, NEW h \in Tx, NEW i \in Nat, NEW q,
           \/ chequeSt[h] = "ok" /\ q = cheque[h] /\ VerifyDeposit(a, q)
           \/ chequeSt[h] # "ok" /\ q.transfer = 0
    PROVE  LET b == DepositAccount(a, q, i)  t == DepositCtx(a, q, i)
           IN Moves("deposit", a, b, t, h) /\ Shows("deposit", b, t)
<1> DEFINE b == DepositAccount(a, q, i)
           t == DepositCtx(a, q, i)
<1>1. /\ b.pk = a.pk /\ b.sn = a.sn + 1 /\ b.pt = a.pt
      /\ b.v = a.v + q.transfer
  BY RenewAll DEF DepositAccount
<1>2. t.type = "deposit" /\ t.pk1 = a.pk /\ t.sn = a.sn + 1 /\ t.rest = b.C
  BY DEF DepositCtx, NewCtx
<1>3. chequeSt[h] = "ok" => q = cheque[h] /\ q.C.pk = a.pk
  BY DEF VerifyDeposit, Enc
<1>4. chequeSt[h] # "ok" => b.v = a.v
  BY <1>1 DEF Account
<1> HIDE DEF b, t
<1> QED
  BY <1>1, <1>2, <1>3, <1>4 DEF Moves, Shows, Numbered, b, t

\* A request is refused, opens an account, changes one as its transaction
\* says, or refreshes a cheque of a complete file or of nothing.
LEMMA HandleCases ==
    ASSUME TypeOK, PaidInv, Bounds, Handle
    PROVE  /\ pc = "idle"
           /\ \/ \E op, u, ok : Refuse(op, u, ok)
              \/ \E u \in Users, x \in Nat :
                    /\ BackendCreateAccount(u, x)
                    /\ ~Refuse("create", u, FALSE)
              \/ \E op, h, a, t : \E u \in Users :
                    /\ Readable(u) /\ Transact(op, u, h, a, t)
                    /\ Moves(op, acct[u], a, t, h) /\ Shows(op, a, t)
              \/ \E u \in Users, h \in Tx : \E src, v, r :
                    /\ src = 0 \/ (src = h /\ ctxSt[h] = "ok")
                    /\ StartRefresh(u, h, src, v, r)
<1> DEFINE Goal == /\ pc = "idle"
                   /\ \/ \E op, u, ok : Refuse(op, u, ok)
                      \/ \E u \in Users, x \in Nat :
                            /\ BackendCreateAccount(u, x)
                            /\ ~Refuse("create", u, FALSE)
                      \/ \E op, h, a, t : \E u \in Users :
                            /\ Readable(u) /\ Transact(op, u, h, a, t)
                            /\ Moves(op, acct[u], a, t, h) /\ Shows(op, a, t)
                      \/ \E u \in Users, h \in Tx : \E src, v, r :
                            /\ src = 0 \/ (src = h /\ ctxSt[h] = "ok")
                            /\ StartRefresh(u, h, src, v, r)
<1>0. /\ Amounts \subseteq Nat /\ nextTx \in Nat
      /\ \A u \in Users : acct[u] \in Account
  BY BackendAssumption DEF TypeOK
<1>1. ASSUME NEW u \in Users, NEW x \in Amounts, BackendCreateAccount(u, x)
      PROVE  Goal
  BY <1>0, <1>1 DEF BackendCreateAccount
<1>2. ASSUME NEW u \in Users, NEW x \in Amounts, BackendMint(u, x)
      PROVE  Goal
  <2>1. MintGuard(acct[u], x) =>
          /\ Moves("mint", acct[u], MintAccount(acct[u], x, nextTx),
                   MintCtx(acct[u], x, nextTx), 0)
          /\ Shows("mint", MintAccount(acct[u], x, nextTx),
                   MintCtx(acct[u], x, nextTx))
    BY <1>0, MintMoves
  <2> QED
    BY <1>2, <2>1 DEF BackendMint
<1>3. ASSUME NEW u \in Users, NEW x \in Amounts, BackendRedeem(u, x)
      PROVE  Goal
  <2>1. RedeemGuard(acct[u], x) =>
          /\ Moves("redeem", acct[u], RedeemAccount(acct[u], x, nextTx),
                   RedeemCtx(acct[u], x, nextTx), 0)
          /\ Shows("redeem", RedeemAccount(acct[u], x, nextTx),
                   RedeemCtx(acct[u], x, nextTx))
    BY <1>0, RedeemMoves
  <2> QED
    BY <1>3, <2>1 DEF BackendRedeem
<1>4. ASSUME NEW u \in Users, NEW w \in Users, NEW x \in Amounts,
             BackendSendCheque(u, w, x)
      PROVE  Goal
  <2>1. KeyOf(w)[2] <= MaxKeys
    <3>1. acct[w].pk[2] \in Nat /\ acct[w].pk[2] < nextKey /\ nextKey \in Nat
      BY DEF TypeOK, Account, Key, PaidInv, KeysDrawn
    <3>2. MaxKeys \in Nat
      BY BackendAssumption
    <3> QED
      BY <3>1, <3>2 DEF Bounds, KeyOf, NoKey
  <2>2. SendGuard(acct[u], x) =>
          /\ Moves("send", acct[u], SendAccount(acct[u], x, nextTx),
                   SendCtx(acct[u], KeyOf(w), x, nextTx), 0)
          /\ Shows("send", SendAccount(acct[u], x, nextTx),
                   SendCtx(acct[u], KeyOf(w), x, nextTx))
    BY <1>0, <2>1, SendMoves
  <2> QED
    BY <1>4, <2>2 DEF BackendSendCheque
<1>5. ASSUME NEW u \in Users, NEW h \in Tx, BackendRefreshCheque(u, h)
      PROVE  Goal
  BY <1>5 DEF BackendRefreshCheque
<1>6. ASSUME NEW u \in Users, NEW h \in Tx, BackendDepositCheque(u, h)
      PROVE  Goal
  <2> DEFINE zero == RefreshedCheque(acct[u], 0, 0)
  <2>1. pc = "idle"
    BY <1>6 DEF BackendDepositCheque
  <2>2. PICK q \in {cheque[h], zero} :
          \/ \E op, ok : Refuse(op, u, ok)
          \/ /\ Readable(u)
             /\ \/ chequeSt[h] = "ok" /\ q = cheque[h]
                     /\ VerifyDeposit(acct[u], q)
                \/ chequeSt[h] # "ok" /\ q = zero
             /\ Transact("deposit", u, h, DepositAccount(acct[u], q, nextTx),
                         DepositCtx(acct[u], q, nextTx))
    BY <1>6 DEF BackendDepositCheque
  <2>3. zero.transfer = 0
    BY DEF RefreshedCheque
  <2>4. CASE \E op, ok : Refuse(op, u, ok)
    BY <2>1, <2>4
  <2>5. CASE ~\E op, ok : Refuse(op, u, ok)
    <3>1. /\ Moves("deposit", acct[u], DepositAccount(acct[u], q, nextTx),
                   DepositCtx(acct[u], q, nextTx), h)
          /\ Shows("deposit", DepositAccount(acct[u], q, nextTx),
                   DepositCtx(acct[u], q, nextTx))
      BY <1>0, <2>2, <2>3, <2>5, DepositMoves
    <3> QED
      BY <2>1, <2>2, <2>5, <3>1
  <2> QED
    BY <2>4, <2>5
<1> QED
  BY <1>1, <1>2, <1>3, <1>4, <1>5, <1>6 DEF Handle

-----------------------------------------------------------------------------
(* Every step keeps MapInv. *)

\* Coins stay in one place while no cheque becomes good and no send file of a
\* cheque comes back.
LEMMA PlaceFrame ==
    ASSUME OnePlace, SendGone,
           Calm' => Calm /\ pc # "ctx_remove",
           \A c \in Tx : Live(c)' => Live(c) /\ origin'[c] = origin[c],
           \A c \in Tx : origin[c] # 0 /\ ctxSt[origin[c]] # "ok" =>
                            ctxSt'[origin[c]] # "ok"
    PROVE  OnePlace' /\ SendGone'
<1>1. OnePlace'
  BY DEF OnePlace
<1>2. SendGone'
  BY DEF SendGone
<1> QED
  BY <1>1, <1>2

LEMMA RefuseMap ==
    ASSUME TypeOK, MapInv, pc = "idle", NEW op, NEW u, NEW ok,
           Refuse(op, u, ok)
    PROVE  MapInv'
<1>1. /\ pc' = "reply"
      /\ UNCHANGED <<acct, ctxSt, chequeSt, credited, origin, nextKey, crashes>>
  BY DEF Refuse, Start, files, counters, history
<1>2. Bounds' /\ WriteJob' /\ FileJob'
  BY <1>1 DEF MapInv, Bounds, WriteJob, FileJob, InAccount, InCtx, Early
<1>3. OnePlace' /\ SendGone'
  BY <1>1, PlaceFrame DEF MapInv, Calm, Live
<1> QED
  BY <1>2, <1>3 DEF MapInv

LEMMA CreateMap ==
    ASSUME TypeOK, PaidInv, MapInv, NEW u \in Users, NEW x \in Nat,
           BackendCreateAccount(u, x), ~Refuse("create", u, FALSE)
    PROVE  MapInv'
<1> DEFINE b == CreateAccount(<<u, nextKey>>, x)
<1>1. /\ job' = NewJob("create", u, 0, 0, b, NoCtx, NoCheque, TRUE)
      /\ pc = "idle" /\ pc' = "acct_open" /\ x <= MaxInit /\ nextKey <= MaxKeys
      /\ nextKey' = nextKey + 1
      /\ UNCHANGED <<acct, ctxSt, chequeSt, credited, origin, crashes>>
  BY DEF BackendCreateAccount, Start, files, history
<1>2. b.pk = <<u, nextKey>> /\ b.v = 0 /\ b.sn = 1 /\ b.pt = x
  BY DEF CreateAccount
<1> HIDE DEF b
<1>3. job'.op = "create" /\ job'.acct = b /\ job'.id = 0
  BY <1>1 DEF NewJob
<1>4. nextKey \in Nat /\ MaxKeys \in Nat /\ \A w \in Users : nextKey > acct[w].pk[2]
  <2>1. \A w \in Users : acct[w].pk[2] \in Nat
    BY DEF TypeOK, Account, Key
  <2> QED
    BY <2>1, BackendAssumption DEF TypeOK, PaidInv, KeysDrawn
<1>5. Bounds'
  BY <1>1, <1>4 DEF MapInv, Bounds
<1>6. WriteJob'
  <2>1. b.pk[2] = nextKey
    BY <1>2
  <2>2. Opening(b)
    BY <1>1, <1>2, <1>4, <2>1 DEF Opening
  <2>3. Opening(job.acct)'
    BY <1>1, <1>3, <2>2 DEF Opening
  <2> QED
    BY <1>3, <2>3 DEF WriteJob
<1>7. FileJob'
  BY <1>1, <1>3 DEF FileJob, InAccount, InCtx, Early, Numbered
<1>8. OnePlace' /\ SendGone'
  BY <1>1, PlaceFrame DEF MapInv, Calm, Live
<1> QED
  BY <1>5, <1>6, <1>7, <1>8 DEF MapInv

LEMMA TransactMap ==
    ASSUME TypeOK, FreshIds, MapInv, pc = "idle", NEW op, NEW h, NEW a, NEW t,
           NEW u \in Users, Transact(op, u, h, a, t),
           Moves(op, acct[u], a, t, h), Shows(op, a, t)
    PROVE  MapInv'
<1>1. /\ pc' = "acct_open" /\ nextTx <= MaxTx
      /\ job'.op = op /\ job'.u = u /\ job'.h = h /\ job'.id = nextTx
      /\ job'.acct = a /\ job'.ctx = t
      /\ UNCHANGED <<acct, ctxSt, chequeSt, cheque, credited, origin, nextKey,
                     crashes>>
  BY DEF Transact, Start, NewJob, files, history
<1>2. nextTx \in Tx /\ nextTx >= nextTx
  BY <1>1, BoundAssumption DEF TypeOK, Tx
<1>3. ctxSt[nextTx] = "none"
  BY <1>2 DEF FreshIds
<1>4. Bounds'
  BY <1>1 DEF MapInv, Bounds
<1>5. WriteJob'
  BY <1>1 DEF WriteJob, Moves
<1>6. FileJob'
  BY <1>1, <1>3 DEF FileJob, InAccount, InCtx, Early, Shows
<1>7. OnePlace' /\ SendGone'
  BY <1>1, PlaceFrame DEF MapInv, Calm, Live
<1> QED
  BY <1>4, <1>5, <1>6, <1>7 DEF MapInv

LEMMA StartRefreshMap ==
    ASSUME TypeOK, FreshIds, FileInv, MapInv, pc = "idle", NEW u \in Users,
           NEW h \in Tx, NEW src, NEW v, NEW r,
           src = 0 \/ (src = h /\ ctxSt[h] = "ok"),
           StartRefresh(u, h, src, v, r)
    PROVE  MapInv'
<1>1. /\ pc' = "cheque_open" /\ nextTx <= MaxTx
      /\ job'.op = "refresh" /\ job'.h = h /\ job'.id = nextTx
      /\ origin' = [origin EXCEPT ![nextTx] = src]
      /\ UNCHANGED <<acct, ctxSt, chequeSt, credited, nextKey, crashes>>
  BY DEF StartRefresh, Start, NewJob, files
<1>2. nextTx \in Tx /\ nextTx >= nextTx
  BY <1>1, BoundAssumption DEF TypeOK, Tx
<1>3. ctxSt[nextTx] = "none" /\ chequeSt[nextTx] = "none"
  BY <1>2 DEF FreshIds, FileInv, NamesFresh
<1>4. origin'[nextTx] = src /\ \A c \in Tx \ {nextTx} : origin'[c] = origin[c]
  BY <1>1, <1>2 DEF TypeOK
<1>5. Bounds' /\ WriteJob'
  BY <1>1 DEF MapInv, Bounds, WriteJob, InAccount
<1>6. FileJob'
  BY <1>1, <1>3, <1>4 DEF FileJob, InAccount, InCtx, Early
<1>7. OnePlace' /\ SendGone'
  <2>1. \A c \in Tx : Live(c)' => c # nextTx
    BY <1>1, <1>3 DEF Live
  <2>2. \A c \in Tx : Live(c)' => Live(c) /\ origin'[c] = origin[c]
    BY <1>1, <1>4, <2>1 DEF Live
  <2> QED
    BY <1>1, <2>2, PlaceFrame DEF MapInv, Calm
<1> QED
  BY <1>5, <1>6, <1>7 DEF MapInv

LEMMA HandleMap ==
    ASSUME TypeOK, FreshIds, FileInv, PaidInv, MapInv, Handle
    PROVE  MapInv'
<1>1. Bounds
  BY DEF MapInv
<1> QED
  BY <1>1, HandleCases, RefuseMap, CreateMap, TransactMap, StartRefreshMap

\* Steps after which the handler writes none of these files any more.
LEMMA QuietMap ==
    ASSUME TypeOK, MapInv,
           \/ InsertAccountRow \/ InsertCtRow \/ RemoveCheque \/ Reply
           \/ Crash \/ Restart
    PROVE  MapInv'
<1> USE DEF InsertAccountRow, InsertCtRow, RemoveCheque, Reply, Crash, Restart,
            files, counters, history
<1>1. /\ UNCHANGED <<acct, ctxSt, credited, origin, nextKey>>
      /\ pc' \in {"reply", "cheque_remove", "idle", "down"}
  BY DEF AfterRow
<1>2. Bounds' /\ WriteJob' /\ FileJob'
  BY <1>1 DEF MapInv, Bounds, WriteJob, FileJob, InAccount, InCtx, Early
<1>3. \A c \in Tx : Live(c)' => Live(c) /\ origin'[c] = origin[c]
  BY DEF TypeOK, Live
<1>4. Calm' => Calm /\ pc # "ctx_remove"
  BY DEF TypeOK, Calm
<1>5. OnePlace' /\ SendGone'
  BY <1>1, <1>3, <1>4, PlaceFrame DEF MapInv
<1> QED
  BY <1>2, <1>5 DEF MapInv

LEMMA OpenAccountMap ==
    ASSUME TypeOK, MapInv, OpenAccount
    PROVE  MapInv'
<1>1. /\ UNCHANGED <<acct, ctxSt, chequeSt, cheque, credited, origin, nextKey,
                     crashes, job>>
      /\ pc = "acct_open" /\ pc' = "acct_write"
  BY DEF OpenAccount, counters, history
<1>2. Bounds' /\ FileJob'
  BY <1>1 DEF MapInv, Bounds, FileJob, InAccount, InCtx, Early, Shows
<1>3. WriteJob'
  BY <1>1 DEF MapInv, WriteJob, InAccount, Moves, Opening
<1>4. OnePlace' /\ SendGone'
  BY <1>1, PlaceFrame DEF MapInv, Calm, Live
<1> QED
  BY <1>2, <1>3, <1>4 DEF MapInv

LEMMA WriteAccountMap ==
    ASSUME TypeOK, AccountInv, MapInv, WriteAccount
    PROVE  MapInv'
<1>1. /\ UNCHANGED <<ctxSt, chequeSt, origin, nextKey, crashes>>
      /\ pc = "acct_write" /\ pc' = AfterAccount
      /\ acct' = [acct EXCEPT ![job.u] = job.acct]
      /\ job' = [job EXCEPT !.done = TRUE]
      /\ credited' = IF job.op = "deposit" /\ chequeSt[job.h] = "ok"
                     THEN [credited EXCEPT ![job.h] = @ + 1] ELSE credited
  BY DEF WriteAccount, counters
<1>2. /\ job'.op = job.op /\ job'.id = job.id /\ job'.acct = job.acct
      /\ job'.ctx = job.ctx
  BY <1>1, DoneFields
<1>3. /\ pc' \in {"acct_row", "ctx_open"}
      /\ pc' = "ctx_open" => job.op # "create"
  BY <1>1 DEF AfterAccount
<1>4. Bounds'
  <2>1. job.acct.v < MaxCoin
    BY <1>1 DEF AccountInv, AccountJob, Opens
  <2> QED
    BY <1>1, <2>1 DEF MapInv, Bounds, TypeOK
<1>5. WriteJob'
  BY <1>3 DEF WriteJob, InAccount
<1>6. FileJob'
  <2>1. pc' = "ctx_open" => job.op \in Numbered
    BY <1>1, <1>3 DEF MapInv, WriteJob, InAccount, Moves
  <2> QED
    BY <1>1, <1>2, <1>3, <2>1 DEF MapInv, FileJob, InAccount, InCtx, Early, Shows
<1>7. \A c \in Tx : Live(c)' => Live(c) /\ origin'[c] = origin[c]
  <2>1. \A c \in Tx : credited[c] \in Nat
    BY DEF TypeOK
  <2>2. \A c \in Tx : credited'[c] \in {credited[c], credited[c] + 1}
    BY <1>1 DEF TypeOK
  <2> QED
    BY <1>1, <2>1, <2>2 DEF Live
<1>8. OnePlace' /\ SendGone'
  BY <1>1, <1>7, PlaceFrame DEF MapInv, Calm
<1> QED
  BY <1>4, <1>5, <1>6, <1>8 DEF MapInv

LEMMA OpenChequeMap ==
    ASSUME TypeOK, MapInv, OpenCheque
    PROVE  MapInv'
<1>1. /\ UNCHANGED <<acct, ctxSt, credited, origin, nextKey, crashes, job>>
      /\ pc = "cheque_open" /\ pc' = "cheque_write"
      /\ chequeSt' = [chequeSt EXCEPT ![job.id] = "torn"]
  BY DEF OpenCheque, counters, history
<1>2. Bounds' /\ WriteJob' /\ FileJob'
  BY <1>1 DEF MapInv, Bounds, WriteJob, FileJob, InAccount, InCtx, Early
<1>3. \A c \in Tx : Live(c)' => Live(c) /\ origin'[c] = origin[c]
  BY <1>1 DEF TypeOK, Live
<1>4. OnePlace' /\ SendGone'
  BY <1>1, <1>3, PlaceFrame DEF MapInv, Calm
<1> QED
  BY <1>2, <1>4 DEF MapInv

\* The coins of the send whose file is there go to one cheque more, and the
\* file is removed next.
LEMMA WriteChequeMap ==
    ASSUME TypeOK, FileInv, MapInv, WriteCheque
    PROVE  MapInv'
<1>1. /\ UNCHANGED <<acct, ctxSt, credited, origin, nextKey, crashes, job>>
      /\ pc = "cheque_write" /\ pc' = "ctx_remove"
      /\ chequeSt' = [chequeSt EXCEPT ![job.id] = "ok"]
  BY DEF WriteCheque, counters, history
<1>2. /\ job.id \in Tx /\ credited[job.id] = 0
      /\ origin[job.id] # 0 =>
            origin[job.id] = job.h /\ ctxSt[job.h] = "ok"
  BY <1>1 DEF TypeOK, FileInv, RefreshJob, MapInv, FileJob, Early
<1>3. Bounds' /\ WriteJob' /\ FileJob'
  BY <1>1, <1>2 DEF MapInv, Bounds, WriteJob, FileJob, InAccount, InCtx, Early
<1>4. \A c \in Tx : Live(c)' => c = job.id \/ Live(c)
  BY <1>1 DEF TypeOK, Live
<1>5. \A c \in Tx : Calm /\ Live(c) /\ origin[c] # 0 => ctxSt[origin[c]] # "ok"
  BY <1>1 DEF MapInv, SendGone
<1>6. Calm' => Calm
  BY <1>1 DEF Calm
<1>7. OnePlace'
  <2> SUFFICES ASSUME Calm, NEW c \in Tx, NEW d \in Tx, Live(c)', Live(d)',
                      origin[c] = origin[d], origin[c] # 0
               PROVE  c = d
    BY <1>1, <1>6 DEF OnePlace
  <2>1. CASE Live(c) /\ Live(d)
    BY <2>1 DEF MapInv, OnePlace
  <2>2. CASE c = job.id /\ d # job.id
    BY <1>2, <1>4, <1>5, <2>2
  <2>3. CASE d = job.id /\ c # job.id
    BY <1>2, <1>4, <1>5, <2>3
  <2> QED
    BY <1>4, <2>1, <2>2, <2>3
<1>8. SendGone'
  BY <1>1, <1>4, <1>5, <1>6 DEF SendGone
<1> QED
  BY <1>3, <1>7, <1>8 DEF MapInv

LEMMA RemoveCtxMap ==
    ASSUME TypeOK, FileInv, MapInv, RemoveCtx
    PROVE  MapInv'
<1>1. /\ UNCHANGED <<acct, chequeSt, credited, origin, nextKey, crashes, job>>
      /\ pc = "ctx_remove" /\ pc' = "ctx_open"
      /\ \/ ctxSt' = [ctxSt EXCEPT ![job.h] = "none"]
         \/ RemoveFails /\ ctxSt' = ctxSt
  BY DEF RemoveCtx, counters, history
<1>2. \A t \in Tx : ctxSt'[t] = "ok" => ctxSt[t] = "ok"
  BY <1>1 DEF TypeOK
<1>3. /\ job.op = "refresh" /\ job.id \in Tx
      /\ origin[job.id] # 0 => origin[job.id] = job.h
  BY <1>1 DEF TypeOK, FileInv, RefreshJob, Early
<1>4. Bounds' /\ WriteJob'
  BY <1>1 DEF MapInv, Bounds, WriteJob, InAccount
<1>5. FileJob'
  BY <1>1, <1>2, <1>3 DEF MapInv, FileJob, InAccount, InCtx, Early, Numbered
<1>6. Calm' => Calm /\ \A t \in Tx : t = job.h => ctxSt'[t] = "none"
  BY <1>1 DEF Calm, TypeOK
<1>7. OnePlace'
  BY <1>1, <1>6 DEF MapInv, OnePlace, Live
<1>8. SendGone'
  <2> SUFFICES ASSUME Calm', NEW c \in Tx, Live(c), origin[c] # 0
               PROVE  ctxSt'[origin[c]] # "ok"
    BY <1>1 DEF SendGone, Live
  <2>1. origin[c] \in Tx
    BY BoundAssumption DEF TypeOK, Tx
  <2>2. CASE c = job.id
    BY <1>3, <1>6, <2>1, <2>2
  <2>3. CASE c # job.id
    BY <1>2, <1>6, <2>1, <2>3 DEF MapInv, SendGone
  <2> QED
    BY <2>2, <2>3
<1> QED
  BY <1>4, <1>5, <1>7, <1>8 DEF MapInv

\* The transaction file that is written is no cheque's send.
LEMMA CtxMap ==
    ASSUME TypeOK, FreshIds, MapInv, OpenCtx \/ WriteCtx
    PROVE  MapInv'
<1>1. /\ UNCHANGED <<acct, chequeSt, credited, origin, nextKey, crashes>>
      /\ job' = job \/ job' = [job EXCEPT !.done = TRUE]
      /\ \/ /\ pc = "ctx_open" /\ pc' = "ctx_write"
            /\ ctxSt' = [ctxSt EXCEPT ![job.id] = "torn"]
         \/ /\ pc = "ctx_write" /\ pc' = "ct_row"
            /\ ctxSt' = [ctxSt EXCEPT ![job.id] = "ok"]
  BY DEF OpenCtx, WriteCtx, counters, history
<1>2. /\ job'.op = job.op /\ job'.id = job.id /\ job'.acct = job.acct
      /\ job'.ctx = job.ctx
  BY <1>1, DoneFields
<1>3. job.id \in Tx /\ job.id # 0 /\ Busy
  BY <1>1 DEF TypeOK, Busy, Tx
<1>4. /\ \A t \in Tx : t # job.id => ctxSt'[t] = ctxSt[t]
      /\ pc' = "ctx_write" => ctxSt'[job.id] = "torn"
  BY <1>1, <1>3 DEF TypeOK
<1>5. \A c \in Tx : origin[c] # job.id /\ (origin[c] # 0 => origin[c] \in Tx)
  <2>1. \A c \in Tx : origin[c] # job.id
    BY <1>3, IdNoOrigin
  <2>2. \A c \in Tx : origin[c] # 0 => origin[c] \in Tx
    BY BoundAssumption DEF TypeOK, Tx
  <2> QED
    BY <2>1, <2>2
<1>6. Bounds' /\ WriteJob'
  BY <1>1 DEF MapInv, Bounds, WriteJob, InAccount
<1>7. FileJob'
  BY <1>1, <1>2, <1>3, <1>4
  DEF MapInv, FileJob, InAccount, InCtx, Early, Shows
<1>8. OnePlace' /\ SendGone'
  BY <1>1, <1>4, <1>5, PlaceFrame DEF MapInv, Calm, Live
<1> QED
  BY <1>6, <1>7, <1>8 DEF MapInv

\* The invariants the ledger and its records rest on.
BaseInv == TypeOK /\ ChequeInv /\ AccountInv /\ FileInv /\ PaidInv

LEMMA BaseInvariant == Spec => []BaseInv
  BY TypeCorrect, ChequeInvariant, AccountInvariant, FileInvariant,
     PaidInvariant, PTL DEF BaseInv

LEMMA MapInvariant == Spec => []MapInv
<1>1. Init => MapInv
  <2> SUFFICES ASSUME Init PROVE MapInv
    OBVIOUS
  <2>1. /\ pc = "idle" /\ nextKey = 1
        /\ \A c \in Tx : chequeSt[c] = "none"
        /\ \A u \in Users : acct[u].v = 0
    BY DEF Init, NoAccount, CreateAccount
  <2>2. 1 <= MaxKeys + 1 /\ 0 < MaxCoin
    BY BackendAssumption, BoundAssumption
  <2> QED
    BY <2>1, <2>2
    DEF MapInv, Bounds, WriteJob, FileJob, OnePlace, SendGone, Live, InAccount,
        InCtx, Early
<1>2. BaseInv /\ MapInv /\ [Next]_vars => MapInv'
  <2> SUFFICES ASSUME BaseInv, MapInv, [Next]_vars PROVE MapInv'
    OBVIOUS
  <2>1. TypeOK /\ FreshIds /\ AccountInv /\ FileInv /\ PaidInv
    BY DEF BaseInv, ChequeInv
  <2>2. CASE Handle
    BY <2>1, <2>2, HandleMap
  <2>3. CASE Continue \/ Crash \/ Restart
    BY <2>1, <2>3, QuietMap, OpenAccountMap, WriteAccountMap, OpenChequeMap,
       WriteChequeMap, RemoveCtxMap, CtxMap DEF Continue
  <2>4. CASE UNCHANGED vars
    BY <2>4
    DEF vars, files, tables, counters, history, MapInv, Bounds, WriteJob,
        FileJob, OnePlace, SendGone, Live, InAccount, InCtx, Calm, Opening,
        Moves, Shows
  <2> QED
    BY <2>2, <2>3, <2>4 DEF Next
<1> QED
  BY <1>1, <1>2, BaseInvariant, PTL DEF Spec

-----------------------------------------------------------------------------
(* The refinement: the steps that change nothing of the abstract ledger. *)

Accounts == [u \in Users |-> AbstractAccount(u)]
Entry(h) == [id |-> h, to |-> Transfer(h).pk, amount |-> Transfer(h).v]
Entries == {Entry(h) : h \in Pending}

LEMMA LedgerSame ==
    ASSUME Accounts' = Accounts, Pending' = Pending,
           \A h \in Pending : Transfer(h)' = Transfer(h)
    PROVE  UNCHANGED L!ledger
<1>1. Entries' = Entries
  BY DEF Entries, Entry
<1> QED
  BY <1>1 DEF L!ledger, Accounts, Entries, Entry

\* No account, no transaction file and no cheque that can be credited.
LEMMA QuietLedger ==
    ASSUME UNCHANGED <<acct, ctxSt, ctx>>, ~InCtx, ~InCtx',
           \A c \in Tx : /\ Live(c)' <=> Live(c)
                         /\ Live(c) => origin'[c] = origin[c]
    PROVE  UNCHANGED L!ledger
<1>1. Accounts' = Accounts
  BY DEF Accounts, AbstractAccount
<1>2. InFlight = {} /\ InFlight' = {}
  BY DEF InFlight, InCtx
<1>3. Sent' = Sent
  BY DEF Sent
<1>4. Refreshed' = Refreshed
  <2>1. {origin'[c] : c \in {d \in Tx : Live(d)'}}
          = {origin[c] : c \in {d \in Tx : Live(d)}}
    OBVIOUS
  <2> QED
    BY <2>1 DEF Refreshed, Live
<1>5. Pending' = Pending
  BY <1>2, <1>3, <1>4 DEF Pending
<1>6. \A h : Transfer(h)' = Transfer(h)
  BY <1>2 DEF Transfer
<1> QED
  BY <1>1, <1>5, <1>6, LedgerSame

LEMMA HandleLedger ==
    ASSUME BaseInv, MapInv, Handle
    PROVE  UNCHANGED L!ledger
<1>1. TypeOK /\ PaidInv /\ Bounds /\ FileInv
  BY DEF BaseInv, MapInv
<1>2. /\ UNCHANGED <<acct, ctxSt, ctx, chequeSt, credited>>
      /\ pc = "idle" /\ pc' \in {"reply", "acct_open", "cheque_open"}
      /\ \/ origin' = origin
         \/ nextTx <= MaxTx /\ \E src : origin' = [origin EXCEPT ![nextTx] = src]
  <2>1. ASSUME NEW op, NEW u, NEW ok, Refuse(op, u, ok)
        PROVE  /\ UNCHANGED <<acct, ctxSt, ctx, chequeSt, credited, origin>>
               /\ pc' = "reply"
    BY <2>1 DEF Refuse, Start, files, history
  <2>2. ASSUME NEW op, NEW u, NEW h, NEW a, NEW t, Transact(op, u, h, a, t)
        PROVE  /\ UNCHANGED <<acct, ctxSt, ctx, chequeSt, credited, origin>>
               /\ pc' = "acct_open"
    BY <2>2 DEF Transact, Start, files, history
  <2>3. ASSUME NEW u, NEW h, NEW src, NEW v, NEW r, StartRefresh(u, h, src, v, r)
        PROVE  /\ UNCHANGED <<acct, ctxSt, ctx, chequeSt, credited>>
               /\ pc' = "cheque_open" /\ nextTx <= MaxTx
               /\ origin' = [origin EXCEPT ![nextTx] = src]
    BY <2>3 DEF StartRefresh, Start, files
  <2>4. ASSUME NEW u, NEW x, BackendCreateAccount(u, x),
               ~Refuse("create", u, FALSE)
        PROVE  /\ UNCHANGED <<acct, ctxSt, ctx, chequeSt, credited, origin>>
               /\ pc' = "acct_open"
    BY <2>4 DEF BackendCreateAccount, Start, files, history
  <2> QED
    BY <1>1, <2>1, <2>2, <2>3, <2>4, HandleCases
<1>3. \A c \in Tx : c = nextTx => chequeSt[c] = "none"
  <2>1. nextTx \in Nat
    BY <1>1 DEF TypeOK
  <2> QED
    BY <1>1, <2>1 DEF FileInv, NamesFresh
<1>4. \A c \in Tx : /\ Live(c)' <=> Live(c)
                    /\ Live(c) => origin'[c] = origin[c]
  BY <1>1, <1>2, <1>3 DEF Live, TypeOK
<1> QED
  BY <1>2, <1>4, QuietLedger DEF InCtx

LEMMA OtherLedger ==
    ASSUME BaseInv, MapInv,
           \/ OpenAccount \/ InsertAccountRow \/ OpenCheque \/ InsertCtRow
           \/ RemoveCheque \/ Reply \/ Restart
    PROVE  UNCHANGED L!ledger
<1> USE DEF OpenAccount, InsertAccountRow, OpenCheque, InsertCtRow,
            RemoveCheque, Reply, Restart, files, history
<1>0. TypeOK /\ FileInv
  BY DEF BaseInv
<1>1. UNCHANGED <<acct, ctxSt, ctx, credited, origin>> /\ ~InCtx /\ ~InCtx'
  BY DEF InCtx, AfterRow
<1>2. \A c \in Tx : Live(c)' <=> Live(c)
  <2>1. CASE OpenCheque
    <3>1. chequeSt[job.id] # "ok"
      BY <1>0, <2>1 DEF FileInv, RefreshJob
    <3> QED
      BY <1>0, <1>1, <2>1, <3>1 DEF TypeOK, Live
  <2>2. CASE RemoveCheque
    <3>1. \A c \in Tx : c = job.h => ~Live(c)
      BY <1>0, <2>2 DEF FileInv, DepositJob, Crediting, Live, TypeOK
    <3> QED
      BY <1>0, <1>1, <2>2, <3>1 DEF TypeOK, Live
  <2>3. CASE ~OpenCheque /\ ~RemoveCheque
    <3>1. chequeSt' = chequeSt
      BY <2>3
    <3> QED
      BY <1>1, <3>1 DEF Live
  <2> QED
    BY <2>1, <2>2, <2>3
<1> QED
  BY <1>1, <1>2, QuietLedger

\* The send's coins are where they were: its file stands beside its cheque.
LEMMA WriteChequeLedger ==
    ASSUME BaseInv, MapInv, WriteCheque
    PROVE  UNCHANGED L!ledger
<1>1. /\ UNCHANGED <<acct, ctxSt, ctx, credited, origin, job>>
      /\ pc = "cheque_write" /\ pc' = "ctx_remove"
      /\ chequeSt' = [chequeSt EXCEPT ![job.id] = "ok"]
      /\ TypeOK /\ FileInv
  BY DEF WriteCheque, history, BaseInv
<1>2. /\ job.id \in Tx /\ credited[job.id] = 0
      /\ origin[job.id] # 0 => origin[job.id] = job.h /\ ctxSt[job.h] = "ok"
  BY <1>1 DEF TypeOK, FileInv, RefreshJob, MapInv, FileJob, Early
<1>3. origin[job.id] # 0 => job.h \in Sent
  <2> SUFFICES ASSUME origin[job.id] # 0 PROVE job.h \in Sent
    OBVIOUS
  <2>1. PICK row \in ctRows : row.id = job.h /\ row.type = "send"
    BY <1>1 DEF FileInv, RefreshJob, Early
  <2>2. job.h \in Tx /\ ctx[job.h].type = "send"
    BY <1>1, <2>1, RowIds DEF FileInv, RowsBacked
  <2> QED
    BY <1>2, <2>2 DEF Sent
<1>4. \A c \in Tx : Live(c)' <=> Live(c) \/ c = job.id
  BY <1>1, <1>2 DEF TypeOK, Live
<1>5. Sent' = Sent /\ InFlight' = {} /\ InFlight = {}
  BY <1>1 DEF Sent, InFlight
<1>6. Pending' = Pending
  <2>1. \A h : h \in Refreshed' <=>
                  h \in Refreshed \/ (h = origin[job.id] /\ h # 0)
    BY <1>1, <1>2, <1>4 DEF Refreshed, Live
  <2>2. \A h : h \in Pending' <=> h \in Pending
    BY <1>2, <1>3, <1>5, <2>1 DEF Pending
  <2> QED
    BY <2>2 DEF Pending
<1>7. \A h : Transfer(h)' = Transfer(h)
  BY <1>1, <1>5 DEF Transfer
<1>8. Accounts' = Accounts
  BY <1>1 DEF Accounts, AbstractAccount
<1> QED
  BY <1>6, <1>7, <1>8, LedgerSame

\* The removed send file has a cheque.
LEMMA RemoveCtxLedger ==
    ASSUME BaseInv, MapInv, RemoveCtx
    PROVE  UNCHANGED L!ledger
<1>1. /\ UNCHANGED <<acct, ctx, chequeSt, credited, origin, job>>
      /\ pc = "ctx_remove" /\ pc' = "ctx_open"
      /\ ctxSt' = [ctxSt EXCEPT ![job.h] = "none"] \/ ctxSt' = ctxSt
      /\ TypeOK /\ FileInv
  BY DEF RemoveCtx, history, BaseInv
<1>2. /\ job.op = "refresh" /\ job.id \in Tx /\ Live(job.id)
      /\ origin[job.id] = job.h \/ ctxSt[job.h] # "ok"
  BY <1>1 DEF TypeOK, FileInv, RefreshJob, MapInv, FileJob, Early, Live
<1>3. InFlight' = {} /\ InFlight = {}
  BY <1>1, <1>2 DEF InFlight
<1>4. Refreshed' = Refreshed
  BY <1>1 DEF Refreshed
<1>5. \A h : h \in Sent' => h \in Sent
  BY <1>1 DEF Sent, TypeOK
<1>6. \A h : h \in Sent /\ h \notin Sent' => h \in Refreshed
  <2> SUFFICES ASSUME NEW h \in Sent, h \notin Sent' PROVE h \in Refreshed
    OBVIOUS
  <2>1. h \in Tx /\ ctxSt[h] = "ok" /\ h = job.h
    BY <1>1 DEF Sent, TypeOK
  <2>2. origin[job.id] = h /\ h # 0
    BY <1>2, <2>1 DEF Tx
  <2> QED
    BY <1>2, <2>2 DEF Refreshed, Live
<1>7. Pending' = Pending
  BY <1>3, <1>4, <1>5, <1>6 DEF Pending
<1>8. \A h : Transfer(h)' = Transfer(h)
  BY <1>1, <1>3 DEF Transfer
<1>9. Accounts' = Accounts
  BY <1>1 DEF Accounts, AbstractAccount
<1> QED
  BY <1>7, <1>8, <1>9, LedgerSame

\* A transaction file takes the transfer over from the handler.
LEMMA CtxLedger ==
    ASSUME BaseInv, MapInv, OpenCtx \/ WriteCtx
    PROVE  UNCHANGED L!ledger
<1>1. /\ UNCHANGED <<acct, chequeSt, credited, origin>>
      /\ job' = job \/ job' = [job EXCEPT !.done = TRUE]
      /\ \/ /\ pc = "ctx_open" /\ pc' = "ctx_write" /\ ctx' = ctx
            /\ ctxSt' = [ctxSt EXCEPT ![job.id] = "torn"]
         \/ /\ pc = "ctx_write" /\ pc' = "ct_row"
            /\ ctxSt' = [ctxSt EXCEPT ![job.id] = "ok"]
            /\ ctx' = [ctx EXCEPT ![job.id] = job.ctx]
      /\ TypeOK /\ FreshIds
  BY DEF OpenCtx, WriteCtx, counters, history, BaseInv, ChequeInv
<1>2. job'.op = job.op /\ job'.id = job.id /\ job'.ctx = job.ctx
  BY <1>1, DoneFields
<1>3. job.id \in Tx /\ job.id # 0 /\ Busy /\ ctxSt[job.id] # "ok"
  BY <1>1 DEF TypeOK, Busy, Tx, MapInv, FileJob, InCtx
<1>4. \A t \in Tx : t # job.id => ctxSt'[t] = ctxSt[t] /\ ctx'[t] = ctx[t]
  BY <1>1, <1>3 DEF TypeOK
<1>5. /\ Refreshed' = Refreshed /\ job.id \notin Refreshed
      /\ job.id \notin Sent /\ Refreshed \subseteq Tx
  <2>1. \A c \in Tx : origin[c] # job.id /\ origin[c] \in 0..MaxTx
    BY <1>1, <1>3, IdNoOrigin DEF TypeOK
  <2>2. Refreshed' = Refreshed
    BY <1>1 DEF Refreshed
  <2>3. job.id \notin Refreshed /\ Refreshed \subseteq Tx
    BY <2>1, BoundAssumption DEF Refreshed, Tx
  <2> QED
    BY <1>3, <2>2, <2>3 DEF Sent
<1>6. \A h \in Tx : h # job.id => (h \in Sent' <=> h \in Sent)
  BY <1>4 DEF Sent
<1>7. Accounts' = Accounts
  BY <1>1 DEF Accounts, AbstractAccount
<1>8. CASE pc = "ctx_open"
  <2>1. job.id \notin Sent' /\ InFlight' = InFlight
    BY <1>1, <1>2, <1>3, <1>8 DEF Sent, InFlight, TypeOK
  <2>2. Sent' = Sent
    BY <1>3, <1>5, <1>6, <2>1 DEF Sent
  <2>3. \A h : Transfer(h)' = Transfer(h)
    BY <1>1, <1>2, <1>8, <2>1 DEF Transfer
  <2> QED
    BY <1>5, <1>7, <2>1, <2>2, <2>3, LedgerSame DEF Pending
<1>9. CASE pc = "ctx_write"
  <2>1. /\ InFlight' = {} /\ ctxSt'[job.id] = "ok" /\ ctx'[job.id] = job.ctx
        /\ InFlight = IF job.op = "send" THEN {job.id} ELSE {}
    BY <1>1, <1>3, <1>9 DEF InFlight, TypeOK
  <2>2. job.ctx.type = "send" <=> job.op = "send"
    <3>1. job.op \in Numbered => job.ctx.type = job.op
      BY <1>9 DEF MapInv, FileJob, InCtx, Shows
    <3>2. job.op = "refresh" => job.ctx.type = "refresh"
      BY <1>9 DEF BaseInv, AccountInv, CtxJob
    <3>3. job.op \in Numbered \cup {"refresh"}
      BY <1>9 DEF MapInv, FileJob, InCtx
    <3> QED
      BY <3>1, <3>2, <3>3
  <2>3. job.id \in Sent' <=> job.op = "send"
    BY <1>3, <2>1, <2>2 DEF Sent
  <2>4. Pending' = Pending
    <3>1. \A h \in Tx : h \in Pending' <=> h \in Pending
      BY <1>5, <1>6, <2>1, <2>3 DEF Pending
    <3>2. Pending \subseteq Tx /\ Pending' \subseteq Tx
      BY <1>3, <1>5, <2>1 DEF Pending, Sent
    <3> QED
      BY <3>1, <3>2
  <2>5. \A h \in Pending : Transfer(h)' = Transfer(h)
    <3> SUFFICES ASSUME NEW h \in Pending PROVE Transfer(h)' = Transfer(h)
      OBVIOUS
    <3>1. h \in Tx /\ Transfer(h)' = ctx'[h].transfer
      BY <1>3, <1>5, <2>1 DEF Pending, Sent, Transfer
    <3>2. CASE h = job.id
      <4>1. h \in InFlight
        BY <1>5, <3>2 DEF Pending
      <4> QED
        BY <2>1, <3>1, <3>2, <4>1 DEF Transfer
    <3>3. CASE h # job.id
      <4>1. h \notin InFlight
        BY <2>1, <3>3
      <4> QED
        BY <1>4, <3>1, <3>3, <4>1 DEF Transfer
    <3> QED
      BY <3>2, <3>3
  <2> QED
    BY <1>7, <2>4, <2>5, LedgerSame
<1> QED
  BY <1>1, <1>8, <1>9

-----------------------------------------------------------------------------
(* The refinement: the write of an account file is the transaction. *)

\* What every such write does, and what stays.
LEMMA WriteAccountFacts ==
    ASSUME BaseInv, MapInv, WriteAccount
    PROVE  /\ TypeOK /\ FreshIds /\ job.u \in Users /\ pc = "acct_write"
           /\ UNCHANGED <<ctxSt, ctx, chequeSt, origin>>
           /\ Accounts' = [Accounts EXCEPT ![job.u] =
                              [key |-> job.acct.pk[2], public |-> job.acct.pt,
                               hidden |-> job.acct.v]]
           /\ job.acct \in Account /\ acct[job.u] \in Account
           /\ Opens(job.acct) /\ job.acct.pk[1] = job.u /\ acct[job.u].v < MaxCoin
           /\ InFlight = {} /\ Sent' = Sent
           /\ \A h : h \notin InFlight' => Transfer(h)' = Transfer(h)
<1>1. /\ TypeOK /\ FreshIds /\ pc = "acct_write"
      /\ UNCHANGED <<ctxSt, ctx, chequeSt, origin>>
      /\ acct' = [acct EXCEPT ![job.u] = job.acct]
  BY DEF WriteAccount, BaseInv, ChequeInv
<1>2. job.u \in Users /\ job.acct \in Account /\ acct[job.u] \in Account
  BY <1>1 DEF TypeOK, Job
<1>3. Accounts' = [Accounts EXCEPT ![job.u] =
                      [key |-> job.acct.pk[2], public |-> job.acct.pt,
                       hidden |-> job.acct.v]]
  BY <1>1, <1>2 DEF Accounts, AbstractAccount, TypeOK
<1>4. Opens(job.acct) /\ job.acct.pk[1] = job.u /\ acct[job.u].v < MaxCoin
  BY <1>1, <1>2 DEF BaseInv, AccountInv, AccountJob, MapInv, Bounds
<1>5. InFlight = {} /\ Sent' = Sent
  BY <1>1 DEF InFlight, Sent
<1>6. \A h : h \notin InFlight' => Transfer(h)' = Transfer(h)
  BY <1>1, <1>5 DEF Transfer
<1> QED
  BY <1>1, <1>2, <1>3, <1>4, <1>5, <1>6

\* The write changes the set of transfers by a handler's own transfer at most.
LEMMA SamePending ==
    ASSUME BaseInv, MapInv, WriteAccount, job.op # "send",
           \A c \in Tx : Live(c)' /\ origin[c] # 0 <=> Live(c) /\ origin[c] # 0
    PROVE  Pending' = Pending /\ Entries' = Entries
<1>1. /\ InFlight = {} /\ InFlight' = {} /\ Sent' = Sent /\ origin' = origin
      /\ \A h : Transfer(h)' = Transfer(h)
  <2>1. job' = [job EXCEPT !.done = TRUE] /\ TypeOK
    BY DEF WriteAccount, BaseInv
  <2>2. job'.op = job.op
    BY <2>1, DoneFields
  <2>3. InFlight' = {}
    BY <2>2 DEF InFlight
  <2> QED
    BY <2>3, WriteAccountFacts
<1>2. \A h : h \in Refreshed' <=> h \in Refreshed
  BY <1>1 DEF Refreshed, Live
<1>3. Refreshed' = Refreshed
  BY <1>2 DEF Refreshed
<1>4. Pending' = Pending
  BY <1>1, <1>3 DEF Pending
<1> QED
  BY <1>1, <1>4 DEF Entries, Entry

LEMMA LiveStays ==
    ASSUME WriteAccount, ~(job.op = "deposit" /\ chequeSt[job.h] = "ok")
    PROVE  \A c \in Tx : Live(c)' <=> Live(c)
  BY DEF WriteAccount, Live

LEMMA OpenLedger ==
    ASSUME BaseInv, MapInv, WriteAccount, job.op = "create"
    PROVE  L!Next
<1> DEFINE u == job.u
           k == job.acct.pk
<1>1. /\ job.acct.v = 0 /\ job.acct.pt <= MaxInit /\ k[2] <= MaxKeys
      /\ \A w \in Users : k[2] > acct[w].pk[2]
  BY WriteAccountFacts DEF MapInv, WriteJob, InAccount, Opening, Moves, Numbered
<1>2. job.acct.pt \in 0..MaxInit /\ k \in (Users \cup {Nobody}) \X (0..MaxKeys)
  <2>1. job.acct.pt \in Nat /\ k \in Key /\ MaxInit \in Nat /\ MaxKeys \in Nat
    BY WriteAccountFacts, BackendAssumption DEF Account
  <2> QED
    BY <1>1, <2>1 DEF Key
<1>3. Accounts' = [Accounts EXCEPT ![u] =
                      [key |-> k[2], public |-> job.acct.pt, hidden |-> 0]]
  BY <1>1, WriteAccountFacts
<1>4. Pending' = Pending /\ Entries' = Entries
  BY LiveStays, SamePending
<1>5. \A w \in Users : k[2] > Accounts[w].key
  BY <1>1 DEF Accounts, AbstractAccount
<1>6. u \in Users
  BY WriteAccountFacts
<1> HIDE DEF u, k
<1>7. L!Open(u, job.acct.pt, k[2])
  BY <1>1, <1>3, <1>4, <1>5 DEF L!Open, Accounts, Entries, Entry
<1> QED
  BY <1>2, <1>6, <1>7 DEF L!Next

\* Mint, redeem, send and deposit, on the accounts of the abstract ledger.
LEMMA MoveFacts ==
    ASSUME BaseInv, MapInv, WriteAccount, job.op \in Numbered
    PROVE  /\ Moves(job.op, acct[job.u], job.acct, job.ctx, job.h)
           /\ Accounts[job.u] = [key |-> acct[job.u].pk[2],
                                 public |-> acct[job.u].pt,
                                 hidden |-> acct[job.u].v]
           /\ job.acct.pk = acct[job.u].pk
           /\ job.acct.pt \in Nat /\ job.acct.v \in Nat /\ job.acct.v < MaxCoin
           /\ acct[job.u].pt \in Nat /\ acct[job.u].v \in Nat
           /\ acct[job.u].v < MaxCoin /\ MaxCoin \in Nat
<1>1. Moves(job.op, acct[job.u], job.acct, job.ctx, job.h)
  BY WriteAccountFacts DEF MapInv, WriteJob, InAccount, Numbered
<1>2. job.acct \in Account /\ acct[job.u] \in Account /\ job.u \in Users
      /\ job.acct.v < MaxCoin /\ acct[job.u].v < MaxCoin
  BY WriteAccountFacts DEF Opens
<1> QED
  BY <1>1, <1>2, BoundAssumption DEF Moves, Accounts, AbstractAccount, Account

LEMMA MintLedger ==
    ASSUME BaseInv, MapInv, WriteAccount, job.op = "mint"
    PROVE  L!Next
<1> DEFINE u == job.u
           a == acct[u]
           x == job.acct.v - a.v
<1>1. /\ job.acct.v > a.v /\ job.acct.pt + job.acct.v = a.pt + a.v
      /\ job.acct.pk = a.pk /\ job.acct.pt \in Nat /\ job.acct.v \in Nat
      /\ a.pt \in Nat /\ a.v \in Nat /\ job.acct.v < MaxCoin /\ MaxCoin \in Nat
      /\ Accounts[u] = [key |-> a.pk[2], public |-> a.pt, hidden |-> a.v]
      /\ u \in Users
  BY MoveFacts, WriteAccountFacts DEF Moves, Numbered
<1>2. x \in 1..MaxCoin /\ x <= a.pt /\ job.acct.pt = a.pt - x
      /\ job.acct.v = a.v + x
  BY <1>1
<1>3. Accounts' = [Accounts EXCEPT ![u] =
                      [key |-> a.pk[2], public |-> a.pt - x, hidden |-> a.v + x]]
  BY <1>1, <1>2, WriteAccountFacts
<1>4. Pending' = Pending /\ Entries' = Entries
  BY LiveStays, SamePending
<1> DEFINE b == Accounts[u]
<1> HIDE DEF x, a, u
<1>5. /\ x > 0 /\ x <= b.public /\ b.hidden + x < MaxCoin
      /\ Accounts' = [Accounts EXCEPT ![u] =
                          [key |-> b.key, public |-> b.public - x,
                           hidden |-> b.hidden + x]]
  <2>1. b.key = a.pk[2] /\ b.public = a.pt /\ b.hidden = a.v
    BY <1>1
  <2> HIDE DEF b
  <2> QED
    BY <1>1, <1>2, <1>3, <2>1
<1>6. L!Mint(u, x)
  BY <1>4, <1>5 DEF L!Mint, L!Balance, Accounts, Entries, Entry
<1> QED
  BY <1>1, <1>2, <1>6 DEF L!Next

LEMMA RedeemLedger ==
    ASSUME BaseInv, MapInv, WriteAccount, job.op = "redeem"
    PROVE  L!Next
<1> DEFINE u == job.u
           a == acct[u]
           x == a.v - job.acct.v
           b == Accounts[u]
<1>1. /\ job.acct.v < a.v /\ job.acct.pt + job.acct.v = a.pt + a.v
      /\ job.acct.pk = a.pk /\ job.acct.pt \in Nat /\ job.acct.v \in Nat
      /\ a.pt \in Nat /\ a.v \in Nat /\ a.v < MaxCoin /\ MaxCoin \in Nat
      /\ Accounts[u] = [key |-> a.pk[2], public |-> a.pt, hidden |-> a.v]
      /\ u \in Users
  BY MoveFacts, WriteAccountFacts DEF Moves, Numbered
<1>2. x \in 1..MaxCoin /\ x <= a.v /\ job.acct.pt = a.pt + x
      /\ job.acct.v = a.v - x
  BY <1>1
<1>3. Accounts' = [Accounts EXCEPT ![u] =
                      [key |-> a.pk[2], public |-> a.pt + x, hidden |-> a.v - x]]
  BY <1>1, <1>2, WriteAccountFacts
<1>4. Pending' = Pending /\ Entries' = Entries
  BY LiveStays, SamePending
<1> HIDE DEF x, a, u
<1>5. /\ x > 0 /\ x <= b.hidden
      /\ Accounts' = [Accounts EXCEPT ![u] =
                          [key |-> b.key, public |-> b.public + x,
                           hidden |-> b.hidden - x]]
  <2>1. b.key = a.pk[2] /\ b.public = a.pt /\ b.hidden = a.v
    BY <1>1
  <2> HIDE DEF b
  <2> QED
    BY <1>1, <1>2, <1>3, <2>1
<1>6. L!Redeem(u, x)
  BY <1>4, <1>5 DEF L!Redeem, L!Balance, Accounts, Entries, Entry
<1> QED
  BY <1>1, <1>2, <1>6 DEF L!Next

\* The new transfer is in the handler's hands and nowhere else.
LEMMA SendPending ==
    ASSUME BaseInv, MapInv, WriteAccount, job.op = "send"
    PROVE  /\ job.id \in Tx /\ job.id \notin Pending
           /\ Entries' = Entries \cup {[id |-> job.id,
                                        to |-> job.ctx.transfer.pk,
                                        amount |-> job.ctx.transfer.v]}
<1>1. /\ TypeOK /\ FreshIds /\ pc = "acct_write" /\ pc' = "ctx_open"
      /\ job' = [job EXCEPT !.done = TRUE]
  BY DEF WriteAccount, AfterAccount, BaseInv, ChequeInv
<1>2. job'.op = job.op /\ job'.id = job.id /\ job'.ctx = job.ctx
  BY <1>1, DoneFields
<1>3. job.id \in Tx /\ job.id # 0 /\ ctxSt[job.id] # "ok" /\ Busy
  BY <1>1 DEF TypeOK, Tx, MapInv, FileJob, InAccount, Busy
<1>4. InFlight = {} /\ InFlight' = {job.id} /\ Sent' = Sent
  BY <1>1, <1>2, WriteAccountFacts DEF InFlight
<1>5. Refreshed' = Refreshed
  <2>1. origin' = origin /\ \A c \in Tx : Live(c)' <=> Live(c)
    BY WriteAccountFacts, LiveStays
  <2> QED
    BY <2>1 DEF Refreshed, Live
<1>6. job.id \notin Pending
  <2>1. \A c \in Tx : origin[c] # job.id
    BY <1>1, <1>3, IdNoOrigin
  <2> QED
    BY <1>3, <1>4, <2>1 DEF Pending, Sent, Refreshed
<1>7. Pending' = Pending \cup {job.id}
  BY <1>4, <1>5 DEF Pending
<1>8. \A h : h = job.id => Transfer(h)' = job.ctx.transfer
  BY <1>2, <1>4 DEF Transfer
<1>9. \A h \in Pending : Transfer(h)' = Transfer(h)
  BY <1>4, <1>6, WriteAccountFacts
<1> DEFINE e == [id |-> job.id, to |-> job.ctx.transfer.pk,
                 amount |-> job.ctx.transfer.v]
<1>10. \A h \in Pending : Entry(h)' = Entry(h)
  BY <1>9 DEF Entry
<1>11. \A h : h = job.id => Entry(h)' = e
  <2>1. \A h : h = job.id => Transfer(h)' = job.ctx.transfer
    BY <1>8
  <2> QED
    BY <2>1 DEF Entry
<1> HIDE DEF e
<1>12. Entries' = Entries \cup {e}
  <2>1. Entries' = {Entry(h)' : h \in Pending'}
    BY DEF Entries
  <2> QED
    BY <1>7, <1>10, <1>11, <2>1 DEF Entries
<1> QED
  BY <1>3, <1>6, <1>12 DEF e

LEMMA SendLedger ==
    ASSUME BaseInv, MapInv, WriteAccount, job.op = "send"
    PROVE  L!Next
<1> DEFINE u == job.u
           a == acct[u]
           x == a.v - job.acct.v
           b == Accounts[u]
           to == job.ctx.transfer.pk
           id == job.id
<1>1. /\ job.acct.v < a.v /\ job.acct.pt = a.pt
      /\ job.acct.pk = a.pk /\ job.acct.pt \in Nat /\ job.acct.v \in Nat
      /\ a.pt \in Nat /\ a.v \in Nat /\ a.v < MaxCoin /\ MaxCoin \in Nat
      /\ Accounts[u] = [key |-> a.pk[2], public |-> a.pt, hidden |-> a.v]
      /\ job.ctx.transfer.v = a.v - job.acct.v /\ to[2] <= MaxKeys
      /\ u \in Users
  BY MoveFacts, WriteAccountFacts DEF Moves, Numbered
<1>2. x \in 1..MaxCoin /\ x <= a.v /\ job.acct.v = a.v - x
  BY <1>1
<1>3. Accounts' = [Accounts EXCEPT ![u] =
                      [key |-> a.pk[2], public |-> a.pt, hidden |-> a.v - x]]
  BY <1>1, <1>2, WriteAccountFacts
<1>4. to \in (Users \cup {Nobody}) \X (0..MaxKeys)
  <2>1. to \in Key
    BY WriteAccountFacts DEF TypeOK, Job, Ctx, CT
  <2> QED
    BY <1>1, <2>1, BackendAssumption DEF Key
<1>5. /\ id \in Tx /\ \A p \in Entries : p.id # id
      /\ Entries' = Entries \cup {[id |-> id, to |-> to, amount |-> x]}
  BY <1>1, SendPending DEF Entries, Entry
<1> HIDE DEF x, a, u, to, id
<1>6. /\ x > 0 /\ x <= b.hidden
      /\ Accounts' = [Accounts EXCEPT ![u] =
                          [key |-> b.key, public |-> b.public,
                           hidden |-> b.hidden - x]]
  <2>1. b.key = a.pk[2] /\ b.public = a.pt /\ b.hidden = a.v
    BY <1>1
  <2> HIDE DEF b
  <2> QED
    BY <1>1, <1>2, <1>3, <2>1
<1>7. PICK w \in Users, y \in 1..MaxCoin,
           k \in (Users \cup {Nobody}) \X (0..MaxKeys), i \in Tx :
             w = u /\ y = x /\ k = to /\ i = id
  BY <1>1, <1>2, <1>4, <1>5
<1>8. L!Send(w, k, y, i)
  BY <1>5, <1>6, <1>7 DEF L!Send, L!Balance, Accounts, Entries, Entry
<1> QED
  BY <1>8 DEF L!Next

\* A deposit of nothing, or of a cheque no send stands behind, changes nothing.
LEMMA WorthlessLedger ==
    ASSUME BaseInv, MapInv, WriteAccount, job.op = "deposit",
           chequeSt[job.h] # "ok" \/ origin[job.h] = 0
    PROVE  UNCHANGED L!ledger
<1>1. /\ Moves("deposit", acct[job.u], job.acct, job.ctx, job.h)
      /\ Accounts[job.u] = [key |-> acct[job.u].pk[2],
                            public |-> acct[job.u].pt,
                            hidden |-> acct[job.u].v]
      /\ job.u \in Users /\ acct[job.u].v \in Nat
  BY MoveFacts, WriteAccountFacts DEF Numbered
<1>2. job.acct.v = acct[job.u].v /\ job.acct.pt = acct[job.u].pt
      /\ job.acct.pk = acct[job.u].pk /\ job.h \in Tx
  <2>1. chequeSt[job.h] = "ok" => cheque[job.h].transfer = 0
    BY <1>1 DEF Moves, BaseInv, PaidInv, ChequesPaid, ChequePaid
  <2> QED
    BY <1>1, <2>1 DEF Moves
<1>3. Accounts' = Accounts
  <2>1. Accounts' = [Accounts EXCEPT ![job.u] = Accounts[job.u]]
    BY <1>1, <1>2, WriteAccountFacts
  <2> QED
    BY <2>1 DEF Accounts
<1>4. \A c \in Tx : Live(c)' /\ origin[c] # 0 <=> Live(c) /\ origin[c] # 0
  BY <1>2 DEF WriteAccount, Live, BaseInv, TypeOK
<1>5. Pending' = Pending /\ Entries' = Entries
  BY <1>4, SamePending
<1> QED
  BY <1>3, <1>5 DEF L!ledger, Accounts, Entries, Entry

\* A deposit of a cheque some send has paid takes the transfer out.
LEMMA CreditPending ==
    ASSUME BaseInv, MapInv, WriteAccount, Calm, job.op = "deposit",
           job.h \in Tx, chequeSt[job.h] = "ok",
           NEW o, o = origin[job.h], o # 0
    PROVE  /\ o \in Pending
           /\ Entries' = Entries \ {Entry(o)}
           /\ Transfer(o) = ctx[o].transfer
<1> DEFINE c == job.h
<1>1. /\ TypeOK /\ FileInv /\ OnePlace /\ SendGone /\ pc = "acct_write"
      /\ credited' = [credited EXCEPT ![c] = @ + 1]
      /\ InFlight = {} /\ Sent' = Sent /\ origin' = origin /\ chequeSt' = chequeSt
  BY WriteAccountFacts DEF WriteAccount, BaseInv, MapInv
<1>2. credited[c] = 0 /\ Live(c)
  <2>1. credited[c] \in Nat /\ ~Crediting(c)
    BY <1>1 DEF TypeOK, Crediting
  <2>2. credited[c] <= 0
    BY <1>1, <2>1 DEF FileInv, CreditsSpent, Calm
  <2> QED
    BY <2>1, <2>2 DEF Live
<1>3. \A d \in Tx : Live(d)' <=> Live(d) /\ d # c
  BY <1>1, <1>2 DEF TypeOK, Live
<1>4. o \in Refreshed /\ \A h : h \in Refreshed' <=> h \in Refreshed /\ h # o
  BY <1>1, <1>2, <1>3 DEF OnePlace, Refreshed, Live
<1>5. o \notin Sent /\ InFlight' = {}
  <2>1. ctxSt[o] # "ok"
    BY <1>1, <1>2 DEF SendGone
  <2>2. job' = [job EXCEPT !.done = TRUE]
    BY DEF WriteAccount
  <2>3. job'.op = "deposit"
    BY <1>1, <2>2, DoneFields
  <2> QED
    BY <2>1, <2>3 DEF Sent, InFlight
<1>6. Pending' = Pending \ {o} /\ o \in Pending
  BY <1>1, <1>4, <1>5 DEF Pending
<1>7. \A h : Entry(h)' = Entry(h)
  BY <1>5, WriteAccountFacts DEF Entry
<1>8. \A h : Entry(h).id = h
  BY DEF Entry
<1>9. Transfer(o) = ctx[o].transfer
  BY <1>1 DEF Transfer
<1> HIDE DEF c
<1>10. Entries' = Entries \ {Entry(o)}
  <2>1. Entries' = {Entry(h) : h \in Pending'}
    BY <1>7 DEF Entries
  <2> QED
    BY <1>6, <1>8, <2>1 DEF Entries
<1> QED
  BY <1>6, <1>9, <1>10

LEMMA CreditLedger ==
    ASSUME BaseInv, MapInv, WriteAccount, Calm, job.op = "deposit",
           chequeSt[job.h] = "ok", origin[job.h] # 0
    PROVE  L!Next
<1> DEFINE u == job.u
           a == acct[u]
           b == Accounts[u]
<1>0. PICK o : o = origin[job.h]
  OBVIOUS
<1> DEFINE x == ctx[o].transfer.v
<1>1. /\ job.h \in Tx /\ job.acct.pt = a.pt /\ job.acct.pk = a.pk
      /\ job.acct.v = a.v + cheque[job.h].transfer
      /\ cheque[job.h].C.pk = a.pk /\ job.acct.v < MaxCoin
      /\ Accounts[u] = [key |-> a.pk[2], public |-> a.pt, hidden |-> a.v]
      /\ u \in Users
  BY MoveFacts, WriteAccountFacts DEF Moves, Numbered
<1>2. x = cheque[job.h].transfer /\ ctx[o].transfer.pk = a.pk
  BY <1>0, <1>1 DEF BaseInv, PaidInv, ChequesPaid, ChequePaid
<1>3. a.pk = <<u, a.pk[2]>>
  <2>1. a.pk \in Key /\ a.pk[1] = u
    BY <1>1, WriteAccountFacts DEF Account
  <2> QED
    BY <2>1 DEF Key
<1>4. Accounts' = [Accounts EXCEPT ![u] =
                      [key |-> a.pk[2], public |-> a.pt, hidden |-> a.v + x]]
  BY <1>1, <1>2, WriteAccountFacts
<1>5. /\ Entry(o) \in Entries /\ Entries' = Entries \ {Entry(o)}
      /\ Entry(o).to = a.pk /\ Entry(o).amount = x
  BY <1>0, <1>1, <1>2, CreditPending DEF Entries, Entry
<1>6. a.v + x < MaxCoin
  BY <1>1, <1>2
<1> HIDE DEF x, a, u
<1>7. PICK w \in Users, p \in Entries : w = u /\ p = Entry(o)
  BY <1>1, <1>5
<1>8. /\ p \in Entries /\ Entries' = Entries \ {p}
      /\ p.to = <<w, b.key>> /\ b.hidden + p.amount < MaxCoin
      /\ Accounts' = [Accounts EXCEPT ![w] =
                          [key |-> b.key, public |-> b.public,
                           hidden |-> b.hidden + p.amount]]
  <2>1. b.key = a.pk[2] /\ b.public = a.pt /\ b.hidden = a.v
    BY <1>1
  <2> HIDE DEF b
  <2> QED
    BY <1>3, <1>4, <1>5, <1>6, <1>7, <2>1
<1>9. L!Credit(w, p)
  BY <1>7, <1>8 DEF L!Credit, L!Balance, Accounts, Entries, Entry
<1> QED
  BY <1>9 DEF L!Next, Entries, Entry

LEMMA WriteAccountLedger ==
    ASSUME BaseInv, MapInv, WriteAccount, Calm
    PROVE  [L!Next]_(L!ledger)
<1>1. job.op = "create" \/ job.op \in Numbered
  BY WriteAccountFacts DEF MapInv, WriteJob, InAccount, Moves
<1> QED
  BY <1>1, OpenLedger, MintLedger, RedeemLedger, SendLedger, CreditLedger,
     WorthlessLedger DEF Numbered

LEMMA InitLedger == Init => L!Init
<1> SUFFICES ASSUME Init PROVE L!Init
  OBVIOUS
<1>1. Accounts = [u \in Users |-> [key |-> 0, public |-> 0, hidden |-> 0]]
  BY DEF Init, Accounts, AbstractAccount, NoAccount, CreateAccount, NoKey
<1>2. Entries = {}
  <2>1. Pending = {}
    BY DEF Init, Pending, InFlight, Sent, Refreshed
  <2> QED
    BY <2>1 DEF Entries
<1> QED
  BY <1>1, <1>2 DEF L!Init, Accounts, Entries, Entry

\* Before the first crash no other step changes the abstract ledger.
LEMMA LedgerStays ==
    ASSUME BaseInv, MapInv, [Next]_vars, Calm', ~WriteAccount
    PROVE  UNCHANGED L!ledger
<1>1. CASE Handle
  BY <1>1, HandleLedger
<1>2. CASE Continue
  BY <1>2, OtherLedger, WriteChequeLedger, RemoveCtxLedger, CtxLedger
  DEF Continue
<1>3. CASE Crash
  <2>1. crashes \in Nat /\ crashes' = crashes + 1
    BY <1>3 DEF Crash, BaseInv, TypeOK
  <2> QED
    BY <2>1 DEF Calm
<1>4. CASE Restart
  BY <1>4, OtherLedger
<1>5. CASE UNCHANGED vars
  <2>1. Accounts' = Accounts /\ Pending' = Pending
        /\ \A h : Transfer(h)' = Transfer(h)
    BY <1>5
    DEF vars, files, counters, history, Accounts, AbstractAccount, Pending,
        InFlight, Sent, Refreshed, Transfer
  <2> QED
    BY <2>1, LedgerSame
<1> QED
  BY <1>1, <1>2, <1>3, <1>4, <1>5 DEF Next

\* And a write of an account file is one of its transactions.
LEMMA StepLedger ==
    ASSUME BaseInv, MapInv, [Next]_vars, Calm'
    PROVE  [L!Next]_(L!ledger)
<1>1. CASE WriteAccount
  <2>1. Calm
    BY <1>1 DEF WriteAccount, counters, Calm
  <2> QED
    BY <1>1, <2>1, WriteAccountLedger
<1>2. CASE ~WriteAccount
  BY <1>2, LedgerStays
<1> QED
  BY <1>1, <1>2

\* Of every run, the part before the first crash is a run of the abstract
\* ledger: no step of a handler makes, loses, misdirects or doubles a transfer.
THEOREM LedgerUntilCrash == Spec => [][Calm' => [L!Next]_(L!ledger)]_vars
<1>1. BaseInv /\ MapInv /\ [Next]_vars
        => [Calm' => [L!Next]_(L!ledger)]_vars
  BY StepLedger
<1> QED
  BY <1>1, BaseInvariant, MapInvariant, PTL DEF Spec

\* When the server never dies and remove() does not fail, the backend
\* implements the abstract ledger.
THEOREM BackendImplementsLedger == Spec /\ []Calm => ImplementsLedger
<1>1. BaseInv /\ MapInv /\ [Next]_vars /\ Calm' => [L!Next]_(L!ledger)
  BY StepLedger
<1> QED
  BY <1>1, BaseInvariant, MapInvariant, InitLedger, PTL
  DEF Spec, ImplementsLedger, L!Spec

\* The bounds of the run: no crash, and remove() succeeds.
THEOREM QuietServerImplementsLedger ==
    ASSUME MaxCrashes = 0, ~RemoveFails
    PROVE  Spec => ImplementsLedger
<1>1. Init => Calm
  BY DEF Init, Calm
<1>2. Calm /\ [Next]_vars => Calm'
  <2> SUFFICES ASSUME Calm, [Next]_vars PROVE crashes' = crashes
    BY DEF Calm
  <2>1. CASE Handle
    <3>1. ASSUME NEW op, NEW u, NEW ok, Refuse(op, u, ok)
          PROVE  crashes' = crashes
      BY <3>1 DEF Refuse, counters
    <3>2. ASSUME NEW op, NEW u, NEW h, NEW a, NEW t, Transact(op, u, h, a, t)
          PROVE  crashes' = crashes
      BY <3>2 DEF Transact
    <3>3. ASSUME NEW u, NEW h, NEW s, NEW v, NEW r, StartRefresh(u, h, s, v, r)
          PROVE  crashes' = crashes
      BY <3>3 DEF StartRefresh
    <3> QED
      BY <2>1, <3>1, <3>2, <3>3
      DEF Handle, BackendCreateAccount, BackendMint, BackendRedeem,
          BackendSendCheque, BackendRefreshCheque, BackendDepositCheque
  <2>2. CASE Crash
    BY <2>2 DEF Crash, Calm
  <2>3. CASE Continue \/ Restart \/ UNCHANGED vars
    BY <2>3
    DEF vars, counters, Continue, OpenAccount, WriteAccount, InsertAccountRow,
        OpenCheque, WriteCheque, RemoveCtx, OpenCtx, WriteCtx, InsertCtRow,
        RemoveCheque, Reply, Restart
  <2> QED
    BY <2>1, <2>2, <2>3 DEF Next
<1> QED
  BY <1>1, <1>2, BackendImplementsLedger, PTL DEF Spec

-----------------------------------------------------------------------------
(* Every step keeps RecordInv. *)

\* Accounts, rows and the files of rows stay, and no account comes back.
LEMMA RecordFrame ==
    ASSUME BaseInv, RecordInv, UNCHANGED <<acct, acctRows, ctRows>>,
           nextKey' \in Nat, nextKey' >= nextKey, Steady' => Steady,
           pc # "acct_row",
           \A row \in ctRows : ctx'[row.id] = ctx[row.id],
           \A u \in Users : /\ acctSt'[u] = "ok" => acctSt[u] = "ok"
                            /\ Recording(u)' <=> Recording(u)
    PROVE  /\ RowKeys'
           /\ Steady' => \A u \in Users : acctSt'[u] = "ok" => AccountRecord(u)'
<1>1. RowKeys'
  <2>1. \A row \in ctRows : row.sender[2] \in Nat
    BY DEF BaseInv, TypeOK, CtRow, Key
  <2>2. nextKey \in Nat
    BY DEF BaseInv, TypeOK
  <2> QED
    BY <2>1, <2>2 DEF RecordInv, RowKeys
<1>2. ASSUME Steady', NEW u \in Users, acctSt'[u] = "ok"
      PROVE  AccountRecord(u)'
  <2>1. AccountRecord(u)
    BY <1>2 DEF RecordInv
  <2>2. \A pk : Numbers(pk)' = Numbers(pk)
    BY DEF Numbers
  <2>3. LastShown(u)'
    BY <2>1 DEF AccountRecord, LastShown
  <2> QED
    BY <2>1, <2>2, <2>3 DEF AccountRecord
<1> QED
  BY <1>1, <1>2

LEMMA RefuseRecord ==
    ASSUME BaseInv, RecordInv, pc = "idle", NEW op, NEW u, NEW ok,
           Refuse(op, u, ok)
    PROVE  RecordInv'
<1>1. /\ pc' = "reply" /\ nextKey \in Nat
      /\ UNCHANGED <<acctSt, acct, ctx, acctRows, ctRows, nextKey, crashes>>
  BY DEF Refuse, Start, files, tables, counters, BaseInv, TypeOK
<1>2. \A w \in Users : ~Recording(w) /\ ~Recording(w)'
  BY <1>1 DEF Recording
<1>3. /\ RowKeys'
      /\ Steady' => \A w \in Users : acctSt'[w] = "ok" => AccountRecord(w)'
  BY <1>1, <1>2, RecordFrame DEF Steady
<1>4. RecordJob' /\ NextRecord'
  BY <1>1 DEF RecordJob, NextRecord, InCtx, InAccount, BeforeRow, Early
<1> QED
  BY <1>3, <1>4 DEF RecordInv

LEMMA CreateRecord ==
    ASSUME BaseInv, RecordInv, NEW u \in Users, NEW x \in Nat,
           BackendCreateAccount(u, x), ~Refuse("create", u, FALSE)
    PROVE  RecordInv'
<1> DEFINE b == CreateAccount(<<u, nextKey>>, x)
<1>1. /\ job' = NewJob("create", u, 0, 0, b, NoCtx, NoCheque, TRUE)
      /\ pc = "idle" /\ pc' = "acct_open" /\ nextKey \in Nat
      /\ nextKey' = nextKey + 1
      /\ UNCHANGED <<acctSt, acct, ctx, acctRows, ctRows, crashes>>
  BY DEF BackendCreateAccount, Start, files, tables, BaseInv, TypeOK
<1>2. job'.op = "create" /\ job'.acct.pk = <<u, nextKey>> /\ job'.acct.sn = 1
  BY <1>1 DEF NewJob, CreateAccount
<1>3. \A w \in Users : ~Recording(w) /\ ~Recording(w)'
  BY <1>1 DEF Recording
<1>4. /\ RowKeys'
      /\ Steady' => \A w \in Users : acctSt'[w] = "ok" => AccountRecord(w)'
  BY <1>1, <1>3, RecordFrame DEF Steady
<1>5. RecordJob'
  BY <1>1, <1>2 DEF RecordJob, InCtx, BeforeRow, Early
<1>6. NextRecord'
  <2>1. \A row \in ctRows : row.sender # <<u, nextKey>>
    BY <1>1 DEF RecordInv, RowKeys
  <2>2. Numbers(job.acct.pk)' = {}
    BY <1>1, <1>2, <2>1 DEF Numbers
  <2> QED
    BY <1>2, <2>2 DEF NextRecord
<1> QED
  BY <1>4, <1>5, <1>6 DEF RecordInv

LEMMA TransactRecord ==
    ASSUME BaseInv, RecordInv, pc = "idle", NEW op, NEW u \in Users, NEW h,
           NEW a, NEW t, Readable(u), Transact(op, u, h, a, t),
           Moves(op, acct[u], a, t, h)
    PROVE  RecordInv'
<1>1. /\ job' = NewJob(op, u, h, nextTx, a, t, NoCheque, TRUE)
      /\ pc' = "acct_open" /\ nextKey \in Nat
      /\ UNCHANGED <<acctSt, acct, ctx, acctRows, ctRows, nextKey, crashes>>
  BY DEF Transact, Start, files, tables, BaseInv, TypeOK
<1>2. job'.op = op /\ job'.acct = a /\ op \notin {"create", "refresh"}
      /\ a.pk = acct[u].pk /\ a.sn = acct[u].sn + 1
  BY <1>1 DEF NewJob, Moves, Numbered
<1>3. \A w \in Users : ~Recording(w) /\ ~Recording(w)'
  BY <1>1 DEF Recording
<1>4. /\ RowKeys'
      /\ Steady' => \A w \in Users : acctSt'[w] = "ok" => AccountRecord(w)'
  BY <1>1, <1>3, RecordFrame DEF Steady
<1>5. RecordJob'
  BY <1>1, <1>2 DEF RecordJob, InCtx, BeforeRow, Early
<1>6. Steady' => NextRecord'
  <2> SUFFICES ASSUME Steady PROVE NextRecord'
    BY <1>1 DEF Steady
  <2>1. AccountRecord(u) /\ acct[u].sn \in Nat
    BY DEF RecordInv, Readable, BaseInv, TypeOK, Account
  <2>2. /\ acct[u].sn >= 1 /\ Numbers(acct[u].pk) = 2..acct[u].sn
        /\ acct[u].pk \in acctRows
    BY <1>3, <2>1 DEF AccountRecord
  <2>3. Numbers(job.acct.pk)' = Numbers(acct[u].pk)
    BY <1>1, <1>2 DEF Numbers
  <2>4. a.sn - 1 = acct[u].sn /\ a.sn >= 2 /\ a.sn >= 1
    BY <1>2, <2>1, <2>2
  <2>5. Numbers(job.acct.pk)' = 2..(a.sn - 1) /\ a.pk \in acctRows
    BY <1>2, <2>2, <2>3, <2>4
  <2> HIDE DEF Numbers
  <2> QED
    BY <1>1, <1>2, <2>4, <2>5 DEF NextRecord
<1> QED
  BY <1>4, <1>5, <1>6 DEF RecordInv

LEMMA StartRefreshRecord ==
    ASSUME BaseInv, RecordInv, pc = "idle", NEW u \in Users, NEW h, NEW src,
           NEW v, NEW r, StartRefresh(u, h, src, v, r)
    PROVE  RecordInv'
<1>1. /\ job' = NewJob("refresh", u, h, nextTx, NoAccount,
                       RefreshCtx(acct[u], v, r, nextTx),
                       RefreshedCheque(acct[u], v, nextTx), TRUE)
      /\ pc' = "cheque_open" /\ nextKey \in Nat
      /\ UNCHANGED <<acctSt, acct, ctx, acctRows, ctRows, nextKey, crashes>>
  BY DEF StartRefresh, Start, files, tables, BaseInv, TypeOK
<1>2. job'.ctx.sn = 0 /\ job'.ctx.pk1 = acct[u].pk
  BY <1>1 DEF NewJob, RefreshCtx, NewCtx
<1>3. \A w \in Users : ~Recording(w) /\ ~Recording(w)'
  BY <1>1 DEF Recording
<1>4. /\ RowKeys'
      /\ Steady' => \A w \in Users : acctSt'[w] = "ok" => AccountRecord(w)'
  BY <1>1, <1>3, RecordFrame DEF Steady
<1>5. RecordJob' /\ NextRecord'
  <2>1. acct[u].pk[2] < nextKey
    BY DEF BaseInv, PaidInv, KeysDrawn
  <2> QED
    BY <1>1, <1>2, <2>1 DEF RecordJob, NextRecord, InCtx, InAccount
<1> QED
  BY <1>4, <1>5 DEF RecordInv

LEMMA HandleRecord ==
    ASSUME BaseInv, MapInv, RecordInv, Handle
    PROVE  RecordInv'
<1>1. TypeOK /\ PaidInv /\ Bounds
  BY DEF BaseInv, MapInv
<1> QED
  BY <1>1, HandleCases, RefuseRecord, CreateRecord, TransactRecord,
     StartRefreshRecord

\* The steps of a handler that change no account, row or file of a row.
LEMMA QuietRecord ==
    ASSUME BaseInv, MapInv, RecordInv,
           \/ OpenAccount \/ OpenCheque \/ WriteCheque \/ RemoveCtx
           \/ OpenCtx \/ WriteCtx \/ RemoveCheque \/ Reply \/ Restart
    PROVE  RecordInv'
<1> USE DEF OpenAccount, OpenCheque, WriteCheque, RemoveCtx, OpenCtx, WriteCtx,
            RemoveCheque, Reply, Restart, files, tables, counters
<1>1. UNCHANGED <<acct, acctRows, ctRows, nextKey, crashes>> /\ nextKey \in Nat
      /\ pc # "acct_row" /\ pc' # "acct_row"
  BY DEF BaseInv, TypeOK
<1>2. \A u \in Users : acctSt'[u] = "ok" => acctSt[u] = "ok"
  BY DEF BaseInv, TypeOK
<1>3. pc' # "idle" => /\ job'.op = job.op /\ job'.u = job.u
                      /\ job'.acct = job.acct /\ job'.ctx = job.ctx
  <2>1. CASE WriteCtx
    BY <2>1 DEF BaseInv, TypeOK, Job
  <2>2. CASE ~WriteCtx
    BY <2>2
  <2> QED
    BY <2>1, <2>2
<1>4. pc \in Early => job.op = "refresh"
  BY DEF BaseInv, FileInv, RefreshJob
<1>5. \A row \in ctRows : ctx'[row.id] = ctx[row.id]
  <2>1. CASE WriteCtx
    <3>1. \A row \in ctRows : row.id # job.id
      BY <2>1 DEF BaseInv, FileInv, NamesFresh, BeforeRow
    <3> QED
      BY <2>1, <3>1 DEF BaseInv, TypeOK
  <2>2. CASE ~WriteCtx
    <3>1. ctx' = ctx
      BY <2>2
    <3> QED
      BY <3>1
  <2> QED
    BY <2>1, <2>2
<1>6. RecordJob' /\ (Steady' => NextRecord')
  <2>1. CASE OpenAccount
    <3>1. /\ InAccount /\ job' = job /\ pc = "acct_open" /\ pc' = "acct_write"
          /\ \A pk : Numbers(pk)' = Numbers(pk)
      BY <1>1, <2>1 DEF InAccount, Numbers
    <3>2. RecordJob'
      BY <1>1, <3>1 DEF RecordInv, RecordJob, InCtx, BeforeRow
    <3>3. Steady' => NextRecord'
      BY <1>1, <3>1 DEF RecordInv, NextRecord, Steady
    <3> QED
      BY <3>2, <3>3
  <2>2. CASE ~OpenAccount
    <3>1. acctSt' = acctSt /\ pc' \notin {"acct_open", "acct_write"}
          /\ (pc' \in BeforeRow => pc \in BeforeRow)
      BY <2>2 DEF BeforeRow, Early
    <3>2. InCtx' \/ pc' = "ct_row" => InCtx \/ pc \in Early
      BY <2>2 DEF InCtx, Early
    <3>3. pc' # "idle" \/ (~InCtx' /\ pc' \notin BeforeRow)
      BY DEF InCtx, BeforeRow, Early
    <3>4. RecordJob'
      BY <1>1, <1>3, <1>4, <3>1, <3>2, <3>3
      DEF RecordInv, RecordJob, Numbered
    <3> QED
      BY <3>1, <3>4 DEF NextRecord, InAccount
  <2> QED
    BY <2>1, <2>2
<1>7. \A u \in Users : Recording(u)' <=> Recording(u)
  BY <1>3, <1>4 DEF Recording, Early, Numbered
<1> QED
  BY <1>1, <1>2, <1>5, <1>6, <1>7, RecordFrame DEF RecordInv, Steady

LEMMA CrashRecord ==
    ASSUME BaseInv, RecordInv, Crash
    PROVE  RecordInv'
<1>1. pc' = "down" /\ ~Steady' /\ UNCHANGED <<ctRows, nextKey>>
  BY DEF Crash, Steady, tables, BaseInv, TypeOK
<1> QED
  BY <1>1 DEF RecordInv, RecordJob, RowKeys, InCtx, BeforeRow, Early

\* The written account has no row for its number yet.
LEMMA WriteAccountRecord ==
    ASSUME BaseInv, MapInv, RecordInv, WriteAccount
    PROVE  RecordInv'
<1>1. /\ pc = "acct_write" /\ pc' = AfterAccount /\ nextKey \in Nat
      /\ acctSt' = [acctSt EXCEPT ![job.u] = "ok"]
      /\ acct' = [acct EXCEPT ![job.u] = job.acct]
      /\ job' = [job EXCEPT !.done = TRUE] /\ job \in Job /\ job.u \in Users
      /\ UNCHANGED <<ctx, acctRows, ctRows, nextKey, crashes>>
      /\ acctSt \in [Users -> FileSt] /\ acct \in [Users -> Account]
  BY DEF WriteAccount, tables, counters, BaseInv, TypeOK
<1>2. /\ job'.op = job.op /\ job'.u = job.u /\ job'.acct = job.acct
      /\ job.acct.sn \in Nat
      /\ acct'[job.u] = job.acct /\ acctSt'[job.u] = "ok"
  BY <1>1 DEF Job, Account
<1>3. \/ job.op = "create" /\ pc' = "acct_row"
      \/ job.op \in Numbered /\ pc' = "ctx_open"
  <2>1. job.op = "create" \/ job.op \in Numbered
    BY <1>1 DEF MapInv, WriteJob, InAccount, Moves
  <2> QED
    BY <1>1, <2>1 DEF AfterAccount, Numbered
<1>4. RecordJob' /\ NextRecord'
  BY <1>1, <1>2, <1>3
  DEF RecordJob, NextRecord, InCtx, InAccount, BeforeRow, Early, Numbered
<1>5. RowKeys'
  BY <1>1 DEF RecordInv, RowKeys
<1>6. ASSUME Steady', NEW w \in Users, acctSt'[w] = "ok", w # job.u
      PROVE  AccountRecord(w)'
  <2>1. AccountRecord(w) /\ acct'[w] = acct[w] /\ ~Recording(w) /\ ~Recording(w)'
    BY <1>1, <1>2, <1>6 DEF RecordInv, Steady, Recording
  <2>2. \A pk : Numbers(pk)' = Numbers(pk)
    BY <1>1 DEF Numbers
  <2>3. LastShown(w)'
    BY <1>1, <2>1 DEF AccountRecord, LastShown
  <2> QED
    BY <1>1, <2>1, <2>2, <2>3 DEF AccountRecord
<1>7. ASSUME Steady' PROVE AccountRecord(job.u)'
  <2> DEFINE b == job.acct
  <2>1. /\ b.sn >= 1
        /\ job.op = "create" => Numbers(b.pk) = 2..b.sn
        /\ job.op # "create" => /\ b.sn >= 2 /\ Numbers(b.pk) = 2..(b.sn - 1)
                                /\ b.pk \in acctRows
    BY <1>1, <1>7 DEF RecordInv, NextRecord, InAccount, Steady
  <2>2. /\ Recording(job.u)' <=> job.op # "create"
        /\ job.op = "create" => b.sn = 1
    BY <1>1, <1>2, <1>3 DEF Recording, Numbered, MapInv, WriteJob, InAccount,
                            Moves, Opening
  <2>3. b.sn \notin Numbers(b.pk)
    BY <1>2, <2>1, <2>2
  <2>4. \A row \in ctRows : ~(row.sender = b.pk /\ row.sn = b.sn)
    BY <2>1, <2>3, <1>2 DEF Numbers
  <2> HIDE DEF b
  <2>5. acct'[job.u] = b
    BY <1>2 DEF b
  <2>6. LastShown(job.u)'
    BY <1>1, <1>2, <2>4, <2>5 DEF LastShown
  <2>7. Numbers(b.pk)' = Numbers(b.pk)
    BY <1>1, <1>2 DEF Numbers, b
  <2>8. Numbers(acct[job.u].pk)'
           = 2..(IF Recording(job.u)' THEN b.sn - 1 ELSE b.sn)
    <3>1. Numbers(acct[job.u].pk)' = Numbers(b.pk)
      BY <1>1, <1>2, <2>5 DEF Numbers
    <3> QED
      BY <2>1, <2>2, <3>1
  <2>9. b.pk \in acctRows' \/ pc' = "acct_row"
    BY <1>1, <1>3, <2>1 DEF Numbered
  <2> QED
    BY <1>2, <2>1, <2>2, <2>5, <2>6, <2>8, <2>9 DEF AccountRecord
<1>8. Steady' => \A w \in Users : acctSt'[w] = "ok" => AccountRecord(w)'
  <2> SUFFICES ASSUME Steady', NEW w \in Users, acctSt'[w] = "ok"
               PROVE  AccountRecord(w)'
    OBVIOUS
  <2>1. CASE w = job.u
    <3>1. w = job'.u
      BY <1>2, <2>1
    <3> QED
      BY <1>2, <1>7, <2>1, <3>1
  <2> QED
    BY <1>6, <2>1
<1> QED
  BY <1>4, <1>5, <1>8 DEF RecordInv

LEMMA InsertAccountRecord ==
    ASSUME BaseInv, RecordInv, InsertAccountRow
    PROVE  RecordInv'
<1>1. /\ pc = "acct_row" /\ pc' = "reply" /\ job' = job /\ nextKey' = nextKey
      /\ acctRows' = acctRows \cup {job.acct.pk} \/ (SqlFails /\ acctRows' = acctRows)
      /\ UNCHANGED <<acctSt, acct, ctx, ctRows, crashes>>
  BY DEF InsertAccountRow, files, counters
<1>2. RecordJob' /\ NextRecord' /\ RowKeys'
  BY <1>1 DEF RecordInv, RecordJob, NextRecord, RowKeys, InCtx, InAccount,
              BeforeRow, Early
<1>3. ASSUME Steady', NEW w \in Users, acctSt'[w] = "ok"
      PROVE  AccountRecord(w)'
  <2>1. /\ AccountRecord(w) /\ acct[job.u] = job.acct
        /\ ~Recording(w) /\ ~Recording(w)'
        /\ acctRows' = acctRows \cup {job.acct.pk}
    BY <1>1, <1>3 DEF RecordInv, RecordJob, Steady, Recording
  <2>2. \A pk : Numbers(pk)' = Numbers(pk)
    BY <1>1 DEF Numbers
  <2>3. LastShown(w)'
    BY <1>1, <2>1 DEF AccountRecord, LastShown
  <2>4. acct[w].pk \in acctRows'
    BY <2>1 DEF AccountRecord
  <2> QED
    BY <1>1, <2>1, <2>2, <2>3, <2>4 DEF AccountRecord
<1> QED
  BY <1>2, <1>3 DEF RecordInv

\* A refresh adds a row without a number; any other handler adds the row of
\* the number its account file has reached.
LEMMA InsertCtRecord ==
    ASSUME BaseInv, MapInv, RecordInv, InsertCtRow
    PROVE  RecordInv'
<1> DEFINE row0 == [sn |-> job.ctx.sn, type |-> job.ctx.type, id |-> job.id,
                    receiver |-> IF job.ctx.type = "send"
                                 THEN job.ctx.transfer.pk ELSE NoKey,
                    sender |-> job.ctx.pk1]
<1>1. /\ pc = "ct_row" /\ pc' \in {"reply", "cheque_remove"} /\ job' = job
      /\ ctRows' = ctRows \cup {row0} \/ (SqlFails /\ ctRows' = ctRows)
      /\ UNCHANGED <<acctSt, acct, ctx, acctRows, nextKey, crashes>>
  BY DEF InsertCtRow, AfterRow, files, counters
<1>2. /\ job.op \in Numbered \cup {"refresh"}
      /\ job.op = "refresh" => job.ctx.sn = 0 /\ job.ctx.pk1[2] < nextKey
      /\ job.op \in Numbered =>
            /\ Shows(job.op, job.acct, job.ctx)
            /\ job.acct = acct[job.u] /\ acctSt[job.u] = "ok"
  BY <1>1 DEF MapInv, FileJob, RecordInv, RecordJob, BeforeRow
<1>3. /\ row0.sn = job.ctx.sn /\ row0.sender = job.ctx.pk1 /\ row0.id = job.id
      /\ job.u \in Users /\ ctx[job.id] = job.ctx
  BY <1>1 DEF BaseInv, TypeOK, FileInv, RowJob
<1> HIDE DEF row0
<1>4. RecordJob' /\ NextRecord'
  BY <1>1 DEF RecordInv, RecordJob, NextRecord, InCtx, InAccount, BeforeRow,
              Early
<1>5. RowKeys'
  <2>1. row0.sender[2] < nextKey
    BY <1>2, <1>3 DEF Shows, BaseInv, PaidInv, KeysDrawn
  <2> QED
    BY <1>1, <2>1 DEF RecordInv, RowKeys
<1>6. ASSUME Steady', NEW w \in Users, acctSt'[w] = "ok"
      PROVE  AccountRecord(w)'
  <2>1. /\ AccountRecord(w) /\ ctRows' = ctRows \cup {row0} /\ ~Recording(w)'
        /\ acct[w].sn \in Nat /\ acct[w].pk \in acctRows
    BY <1>1, <1>6 DEF RecordInv, Steady, Recording, AccountRecord, BaseInv,
                      TypeOK, Account
  <2>2. CASE job.op = "refresh"
    <3>1. \A pk : Numbers(pk)' = Numbers(pk)
      BY <1>2, <1>3, <2>1, <2>2 DEF Numbers
    <3>2. ~Recording(w)
      BY <2>2 DEF Recording, Numbered
    <3>3. LastShown(w)'
      BY <1>1, <1>2, <1>3, <2>1, <2>2 DEF AccountRecord, LastShown
    <3> QED
      BY <1>1, <2>1, <3>1, <3>2, <3>3 DEF AccountRecord
  <2>3. CASE job.op \in Numbered /\ w # job.u
    <3>1. row0.sender # acct[w].pk /\ ~Recording(w)
      BY <1>2, <1>3, <1>1, <1>6, <2>3
      DEF Shows, Recording, BaseInv, AccountInv, KeysOwned
    <3>2. Numbers(acct[w].pk)' = Numbers(acct[w].pk)
      BY <1>1, <2>1, <3>1 DEF Numbers
    <3>3. LastShown(w)'
      BY <1>1, <2>1, <3>1 DEF AccountRecord, LastShown
    <3> QED
      BY <1>1, <2>1, <3>1, <3>2, <3>3 DEF AccountRecord
  <2>4. CASE job.op \in Numbered /\ w = job.u
    <3> DEFINE b == acct[w]
    <3>1. /\ row0.sender = b.pk /\ row0.sn = b.sn /\ ctx[row0.id].rest = b.C
          /\ Recording(w)
      BY <1>1, <1>2, <1>3, <2>4 DEF Shows, Recording
    <3>2. b.sn >= 2 /\ Numbers(b.pk) = 2..(b.sn - 1)
      BY <2>1, <3>1 DEF AccountRecord
    <3>3. acct'[w] = b /\ ctx' = ctx
      BY <1>1
    <3>4. LastShown(w)'
      <4>1. \A row \in ctRows : ~(row.sender = b.pk /\ row.sn = b.sn)
        <5>1. b.sn \notin Numbers(b.pk) /\ b.sn > 0
          BY <2>1, <3>2
        <5> QED
          BY <5>1 DEF Numbers
      <4> HIDE DEF b
      <4> QED
        BY <2>1, <3>1, <3>3, <4>1 DEF LastShown
    <3>5. Numbers(acct[w].pk)' = 2..b.sn
      <4>1. Numbers(acct[w].pk)' = Numbers(b.pk) \cup {b.sn}
        <5> HIDE DEF b
        <5>1. b.sn > 0
          BY <2>1, <3>2 DEF b
        <5> QED
          BY <2>1, <3>1, <3>3, <5>1 DEF Numbers
      <4>2. 2..b.sn = (2..(b.sn - 1)) \cup {b.sn}
        BY <2>1, <3>2
      <4> QED
        BY <3>2, <4>1, <4>2
    <3> QED
      BY <1>1, <2>1, <3>2, <3>4, <3>5 DEF AccountRecord
  <2> QED
    BY <1>2, <2>2, <2>3, <2>4
<1> QED
  BY <1>4, <1>5, <1>6 DEF RecordInv

LEMMA RecordInvariant == Spec => []RecordInv
<1>1. Init => RecordInv
  BY DEF Init, RecordInv, RecordJob, RowKeys, NextRecord, InCtx, InAccount,
         BeforeRow, Early
<1>2. BaseInv /\ MapInv /\ RecordInv /\ [Next]_vars => RecordInv'
  <2> SUFFICES ASSUME BaseInv, MapInv, RecordInv, [Next]_vars PROVE RecordInv'
    OBVIOUS
  <2>1. CASE Next
    BY <2>1, HandleRecord, QuietRecord, CrashRecord, WriteAccountRecord,
       InsertAccountRecord, InsertCtRecord DEF Next, Continue
  <2>2. CASE UNCHANGED vars
    BY <2>2
    DEF vars, files, tables, counters, RecordInv, RecordJob, RowKeys,
        NextRecord, InCtx, InAccount, Steady, AccountRecord, LastShown,
        Recording, Numbers
  <2> QED
    BY <2>1, <2>2
<1> QED
  BY <1>1, <1>2, BaseInvariant, MapInvariant, PTL DEF Spec

\* Between two requests, until the first crash, every account has a row in the
\* table, its transactions are numbered without a gap, and the last one shows
\* the ciphertext of the account file.
THEOREM RecordsAgree == Spec => []AccountsRecorded
<1>1. RecordInv => AccountsRecorded
  <2> SUFFICES ASSUME RecordInv, Steady, pc = "idle", NEW u \in Users,
                      acctSt[u] = "ok"
               PROVE  /\ acct[u].pk \in acctRows
                      /\ Numbers(acct[u].pk) = 2..acct[u].sn
                      /\ LastShown(u)
    BY DEF AccountsRecorded, Calm, Steady, LastShown
  <2>1. AccountRecord(u) /\ ~Recording(u)
    BY DEF RecordInv, Recording
  <2> QED
    BY <2>1 DEF AccountRecord
<1> QED
  BY <1>1, RecordInvariant, PTL

-----------------------------------------------------------------------------
(* Sums over finite sets. *)

LEMMA SmallestSubset ==
    ASSUME NEW S, IsFiniteSet(S), NEW T \in SUBSET SUBSET S, T # {}
    PROVE  \E a \in T : \A b \in T : Cardinality(a) <= Cardinality(b)
<1> DEFINE N == {Cardinality(a) : a \in T}
<1>1. N \in SUBSET Nat /\ N # {}
  BY FS_Subset, FS_CardinalityType
<1>2. PICK n \in N : \A m \in N : n <= m
  BY <1>1, LeastExists
<1> QED
  BY <1>2

Chosen(s) == CHOOSE x \in s : TRUE

LEMMA ChosenIn == \A s : s # {} => Chosen(s) \in s
  BY DEF Chosen

\* F[s] is the sum of g over s, for every part s of S.
IsSetSum(F, g, S) ==
    \A s \in SUBSET S :
        F[s] = IF s = {} THEN 0 ELSE g[Chosen(s)] + F[s \ {Chosen(s)}]

\* Without an element a finite set is a smaller part of S.
LEMMA Smaller ==
    ASSUME NEW S, IsFiniteSet(S), NEW s \in SUBSET S, NEW x \in s
    PROVE  /\ s \ {x} \in SUBSET S
           /\ Cardinality(s) \in Nat /\ Cardinality(s \ {x}) \in Nat
           /\ Cardinality(s \ {x}) < Cardinality(s)
<1>1. IsFiniteSet(s) /\ Cardinality(s) \in Nat
  BY FS_Subset, FS_CardinalityType
<1>2. Cardinality(s \ {x}) = Cardinality(s) - 1
      /\ Cardinality(s \ {x}) \in Nat
  BY <1>1, FS_RemoveElement, FS_CardinalityType
<1> QED
  BY <1>1, <1>2

\* The same as an equation, which determines F.
SumEquation(F, g, S) ==
    F = [s \in SUBSET S |-> IF s = {} THEN 0
                            ELSE g[Chosen(s)] + F[s \ {Chosen(s)}]]

LEMMA SetSumExists ==
    ASSUME NEW S, IsFiniteSet(S), NEW g
    PROVE  \E F : SumEquation(F, g, S)
<1> DEFINE D(n) == {s \in SUBSET S : Cardinality(s) <= n}
           Body(F, s) == IF s = {} THEN 0
                         ELSE g[Chosen(s)] + F[s \ {Chosen(s)}]
           Good(n) == \E F : F = [s \in D(n) |-> Body(F, s)]
<1>1. Good(0)
  <2>1. \A s \in D(0) : s = {}
    <3> SUFFICES ASSUME NEW s \in D(0), s # {} PROVE FALSE
      OBVIOUS
    <3>1. PICK x \in s : TRUE
      OBVIOUS
    <3>2. s \in SUBSET S /\ Cardinality(s) <= 0
      OBVIOUS
    <3>3. /\ Cardinality(s) \in Nat /\ Cardinality(s \ {x}) \in Nat
          /\ Cardinality(s \ {x}) < Cardinality(s)
      BY <3>2, Smaller
    <3> QED
      BY <3>2, <3>3
  <2>2. [s \in D(0) |-> 0] = [s \in D(0) |-> Body([r \in D(0) |-> 0], s)]
    BY <2>1
  <2> QED
    BY <2>2
<1>2. ASSUME NEW n \in Nat, Good(n)
      PROVE  Good(n + 1)
  <2>1. PICK F : F = [s \in D(n) |-> Body(F, s)]
    BY <1>2
  <2> DEFINE G == [s \in D(n + 1) |-> IF s \in D(n) THEN F[s] ELSE Body(F, s)]
  <2>2. \A s \in D(n + 1) : s # {} => s \ {Chosen(s)} \in D(n)
    <3> SUFFICES ASSUME NEW s \in D(n + 1), s # {}
                 PROVE  s \ {Chosen(s)} \in D(n)
      OBVIOUS
    <3>1. Chosen(s) \in s /\ s \in SUBSET S
      BY ChosenIn
    <3> QED
      BY <3>1, Smaller
  <2>3. \A s \in D(n) : s \in D(n + 1) /\ F[s] = Body(F, s)
    <3> SUFFICES ASSUME NEW s \in D(n)
                 PROVE  s \in D(n + 1) /\ F[s] = Body(F, s)
      OBVIOUS
    <3>1. s \in SUBSET S /\ Cardinality(s) \in Nat /\ Cardinality(s) <= n
      BY FS_Subset, FS_CardinalityType
    <3>2. F[s] = Body(F, s)
      <4> HIDE DEF D, Body
      <4> QED
        BY <2>1
    <3>3. s \in D(n + 1)
      BY <3>1
    <3> QED
      BY <3>2, <3>3
  <2>4. \A s \in D(n + 1) : G[s] = Body(F, s)
    BY <2>3
  <2>5. \A s \in D(n + 1) : s # {} =>
           G[s \ {Chosen(s)}] = F[s \ {Chosen(s)}]
    <3> HIDE DEF D
    <3> QED
      BY <2>2, <2>3
  <2>6. \A s \in D(n + 1) : G[s] = Body(G, s)
    <3> HIDE DEF D, G
    <3> QED
      BY <2>4, <2>5
  <2> HIDE DEF D, Body
  <2>7. G = [s \in D(n + 1) |-> Body(G, s)]
    <3>1. G = [s \in D(n + 1) |-> G[s]]
      OBVIOUS
    <3> HIDE DEF G
    <3> QED
      BY <2>6, <3>1
  <2> QED
    BY <2>7
<1> HIDE DEF Good
<1>3. \A n \in Nat : Good(n)
  <2> SUFFICES ASSUME {n \in Nat : ~Good(n)} # {} PROVE FALSE
    OBVIOUS
  <2>1. PICK n \in Nat : ~Good(n) /\ \A m \in Nat : ~Good(m) => n <= m
    BY LeastExists
  <2>2. n - 1 \in Nat /\ n - 1 + 1 = n
    BY <1>1, <2>1
  <2> QED
    BY <1>2, <2>1, <2>2
<1>4. D(Cardinality(S)) = SUBSET S /\ Cardinality(S) \in Nat
  BY FS_Subset, FS_CardinalityType
<1> QED
  BY <1>3, <1>4 DEF Good, SumEquation

LEMMA SetSumInt ==
    ASSUME NEW S, IsFiniteSet(S), NEW g, \A x \in S : g[x] \in Int,
           NEW F, IsSetSum(F, g, S), NEW s \in SUBSET S
    PROVE  F[s] \in Int
<1> DEFINE T == {t \in SUBSET S : F[t] \notin Int}
<1> SUFFICES ASSUME T # {} PROVE FALSE
  OBVIOUS
<1>1. PICK t \in T : \A b \in T : Cardinality(t) <= Cardinality(b)
  BY SmallestSubset
<1>2. t # {} /\ Chosen(t) \in t
  BY <1>1, ChosenIn DEF IsSetSum
<1>3. /\ t \ {Chosen(t)} \in SUBSET S
      /\ Cardinality(t) \in Nat /\ Cardinality(t \ {Chosen(t)}) \in Nat
      /\ Cardinality(t \ {Chosen(t)}) < Cardinality(t)
  BY <1>1, <1>2, Smaller
<1>4. F[t \ {Chosen(t)}] \in Int
  BY <1>1, <1>3
<1>5. F[t] = g[Chosen(t)] + F[t \ {Chosen(t)}] /\ g[Chosen(t)] \in Int
  BY <1>1, <1>2 DEF IsSetSum
<1>6. F[t] \in Int
  BY <1>4, <1>5
<1> QED
  BY <1>1, <1>6

\* The order in which the elements are added does not matter.
LEMMA SetSumSplit ==
    ASSUME NEW S, IsFiniteSet(S), NEW g, \A x \in S : g[x] \in Int,
           NEW F, IsSetSum(F, g, S), NEW s \in SUBSET S, NEW x \in s
    PROVE  F[s] = g[x] + F[s \ {x}]
<1> DEFINE T == {t \in SUBSET S : \E z \in t : F[t] # g[z] + F[t \ {z}]}
<1> SUFFICES ASSUME T # {} PROVE FALSE
  OBVIOUS
<1>1. PICK t \in T : \A b \in T : Cardinality(t) <= Cardinality(b)
  BY SmallestSubset
<1>2. PICK z \in t : F[t] # g[z] + F[t \ {z}]
  BY <1>1
<1> DEFINE y == Chosen(t)
<1>3. t \in SUBSET S /\ y \in t /\ F[t] = g[y] + F[t \ {y}]
  BY <1>1, <1>2, ChosenIn DEF IsSetSum
<1> HIDE DEF y
<1>4. y # z
  BY <1>2, <1>3
<1>5. /\ t \ {y} \in SUBSET S /\ t \ {z} \in SUBSET S
      /\ Cardinality(t) \in Nat
      /\ Cardinality(t \ {y}) \in Nat /\ Cardinality(t \ {z}) \in Nat
      /\ Cardinality(t \ {y}) < Cardinality(t)
      /\ Cardinality(t \ {z}) < Cardinality(t)
  BY <1>3, Smaller
<1>6. t \ {y} \notin T /\ t \ {z} \notin T
  <2> HIDE DEF T
  <2> QED
    BY <1>1, <1>5
<1>7. /\ F[t \ {y}] = g[z] + F[(t \ {y}) \ {z}]
      /\ F[t \ {z}] = g[y] + F[(t \ {z}) \ {y}]
  BY <1>3, <1>4, <1>5, <1>6
<1>8. (t \ {y}) \ {z} = (t \ {z}) \ {y}
  OBVIOUS
<1>9. F[(t \ {y}) \ {z}] \in Int /\ g[y] \in Int /\ g[z] \in Int
  <2>1. (t \ {y}) \ {z} \in SUBSET S
    BY <1>3
  <2> QED
    BY <1>3, <2>1, SetSumInt
<1>10. F[t] = g[y] + (g[z] + F[(t \ {y}) \ {z}])
  BY <1>3, <1>7
<1>11. F[t] # g[z] + (g[y] + F[(t \ {y}) \ {z}])
  BY <1>2, <1>7, <1>8
<1> QED
  BY <1>9, <1>10, <1>11

\* Sums depend on the summands only.
LEMMA SetSumSame ==
    ASSUME NEW S, NEW g, NEW F, IsSetSum(F, g, S),
           NEW U, NEW k, NEW G, IsSetSum(G, k, U),
           NEW s, IsFiniteSet(s), s \subseteq S, s \subseteq U,
           \A x \in s : g[x] = k[x]
    PROVE  F[s] = G[s]
<1> DEFINE T == {t \in SUBSET s : F[t] # G[t]}
<1> SUFFICES ASSUME T # {} PROVE FALSE
  OBVIOUS
<1>1. PICK t \in T : \A b \in T : Cardinality(t) <= Cardinality(b)
  BY SmallestSubset
<1>2. t \in SUBSET S /\ t \in SUBSET U
  BY <1>1
<1>3. t # {} /\ Chosen(t) \in t
  BY <1>1, <1>2, ChosenIn DEF IsSetSum
<1>4. /\ t \ {Chosen(t)} \in SUBSET s
      /\ Cardinality(t) \in Nat /\ Cardinality(t \ {Chosen(t)}) \in Nat
      /\ Cardinality(t \ {Chosen(t)}) < Cardinality(t)
  BY <1>1, <1>3, Smaller
<1>5. F[t \ {Chosen(t)}] = G[t \ {Chosen(t)}]
  BY <1>1, <1>4
<1> QED
  BY <1>1, <1>2, <1>3, <1>5 DEF IsSetSum

LEMMA SetSumChange ==
    ASSUME NEW S, IsFiniteSet(S),
           NEW g, \A x \in S : g[x] \in Int, NEW F, IsSetSum(F, g, S),
           NEW k, \A x \in S : k[x] \in Int, NEW G, IsSetSum(G, k, S),
           NEW u \in S, \A x \in S : x # u => k[x] = g[x]
    PROVE  G[S] = F[S] - g[u] + k[u]
<1>1. F[S] = g[u] + F[S \ {u}] /\ G[S] = k[u] + G[S \ {u}]
  BY SetSumSplit
<1>2. G[S \ {u}] = F[S \ {u}] /\ F[S \ {u}] \in Int
  <2>1. IsFiniteSet(S \ {u}) /\ S \ {u} \in SUBSET S
    BY FS_Subset
  <2>2. \A x \in S \ {u} : k[x] = g[x]
    OBVIOUS
  <2> QED
    BY <2>1, <2>2, SetSumSame, SetSumInt
<1> QED
  BY <1>1, <1>2

\* U is S with the new element x.
Grown(S, x, U) == x \notin S /\ U = S \cup {x}

LEMMA SetSumGrow ==
    ASSUME NEW S, IsFiniteSet(S), NEW g, NEW F, IsSetSum(F, g, S),
           NEW U, NEW x, Grown(S, x, U), NEW k, NEW G,
           IsSetSum(G, k, U), \A z \in U : k[z] \in Int,
           \A z \in S : k[z] = g[z]
    PROVE  G[U] = k[x] + F[S] /\ F[S] \in Int
<1>1. IsFiniteSet(U) /\ U \ {x} = S /\ x \in U /\ U \in SUBSET U
  BY FS_AddElement DEF Grown
<1>2. G[U] = k[x] + G[S]
  BY <1>1, SetSumSplit
<1>3. G[S] = F[S]
  BY <1>1, SetSumSame
<1>4. \A z \in S : g[z] \in Int
  BY DEF Grown
<1> QED
  BY <1>2, <1>3, <1>4, SetSumInt

-----------------------------------------------------------------------------
(* The coins in the accounts and in the transfers. *)

Balances == [u \in Users |-> AmountIn(u)]
Transfers == [h \in Pending |-> Transfer(h).v]
HeldCoins == MapThenSumSet(AmountIn, Users)
SentCoins == MapThenSumSet(LAMBDA h : Transfer(h).v, Pending)

LEMMA BalanceSum ==
    IsFiniteSet(Users) =>
        \E F : IsSetSum(F, Balances, Users) /\ HeldCoins = F[Users]
<1> SUFFICES ASSUME IsFiniteSet(Users)
             PROVE  \E F : IsSetSum(F, Balances, Users) /\ HeldCoins = F[Users]
  OBVIOUS
<1> DEFINE P(F) == F = [s \in SUBSET Users |->
                          IF s = {} THEN 0
                          ELSE AmountIn(CHOOSE x \in s : TRUE)
                                 + F[s \ {CHOOSE x \in s : TRUE}]]
           H == CHOOSE F : P(F)
<1>1. PICK F : SumEquation(F, Balances, Users)
  <2>1. PICK g : g = Balances
    OBVIOUS
  <2> QED
    BY <2>1, SetSumExists
<1>2. \A s \in SUBSET Users : s # {} =>
          Balances[Chosen(s)] = AmountIn(CHOOSE x \in s : TRUE)
  BY ChosenIn DEF Balances, Chosen
<1>3. P(F)
  BY <1>1, <1>2 DEF Chosen, SumEquation
<1> HIDE DEF P
<1>4. P(H)
  BY <1>3
<1>5. HeldCoins = H[Users]
  BY DEF HeldCoins, MapThenSumSet, MapThenFoldSet, P, H
<1> HIDE DEF H
<1>6. IsSetSum(H, Balances, Users)
  BY <1>2, <1>4 DEF IsSetSum, P, Chosen
<1> QED
  BY <1>5, <1>6

LEMMA TransferSum ==
    IsFiniteSet(Pending) =>
        \E F : IsSetSum(F, Transfers, Pending) /\ SentCoins = F[Pending]
<1> SUFFICES ASSUME IsFiniteSet(Pending)
             PROVE  \E F : IsSetSum(F, Transfers, Pending) /\ SentCoins = F[Pending]
  OBVIOUS
<1> DEFINE P(F) == F = [s \in SUBSET Pending |->
                          IF s = {} THEN 0
                          ELSE Transfer(CHOOSE x \in s : TRUE).v
                                 + F[s \ {CHOOSE x \in s : TRUE}]]
           H == CHOOSE F : P(F)
<1>1. PICK F : SumEquation(F, Transfers, Pending)
  <2>1. PICK g, S : g = Transfers /\ S = Pending
    OBVIOUS
  <2>2. \E F : SumEquation(F, g, S)
    BY <2>1, SetSumExists
  <2> QED
    BY <2>1, <2>2
<1>2. \A s \in SUBSET Pending : s # {} =>
          Transfers[Chosen(s)] = Transfer(CHOOSE x \in s : TRUE).v
  BY ChosenIn DEF Transfers, Chosen
<1>3. P(F)
  BY <1>1, <1>2 DEF Chosen, SumEquation
<1> HIDE DEF P
<1>4. P(H)
  BY <1>3
<1>5. SentCoins = H[Pending]
  BY DEF SentCoins, MapThenSumSet, MapThenFoldSet, P, H
<1> HIDE DEF H
<1>6. IsSetSum(H, Transfers, Pending)
  BY <1>2, <1>4 DEF IsSetSum, P, Chosen
<1> QED
  BY <1>5, <1>6

\* The transfers are finitely many, of amounts of the type.
LEMMA SumTypes ==
    TypeOK /\ FreshIds =>
        /\ IsFiniteSet(Pending)
        /\ \A u \in Users : Balances[u] \in Int
        /\ \A h \in Pending : Transfers[h] \in Int
<1> SUFFICES ASSUME TypeOK, FreshIds
             PROVE  /\ IsFiniteSet(Pending)
                    /\ \A u \in Users : Balances[u] \in Int
                    /\ \A h \in Pending : Transfers[h] \in Int
  OBVIOUS
<1>1. Pending \subseteq 0..MaxTx
  <2>1. InFlight \subseteq 0..MaxTx
    BY DEF InFlight, TypeOK, Job
  <2>2. Sent \subseteq 0..MaxTx /\ Refreshed \subseteq 0..MaxTx
    BY BoundAssumption DEF Sent, Refreshed, Tx, TypeOK
  <2> QED
    BY <2>1, <2>2 DEF Pending
<1>2. IsFiniteSet(Pending)
  <2>1. IsFiniteSet(0..MaxTx)
    BY FS_Interval, BoundAssumption
  <2> QED
    BY <1>1, <2>1, FS_Subset
<1>3. \A u \in Users : acct[u].pt \in Nat /\ acct[u].v \in Nat
  BY DEF TypeOK, Account
<1>4. \A h \in Pending : Transfer(h).v \in Nat
  <2>1. job.ctx.transfer.v \in Nat /\ \A h \in Tx : ctx[h].transfer.v \in Nat
    BY DEF TypeOK, Job, Ctx, CT
  <2>2. \A h \in Refreshed : h \in Tx
    BY BoundAssumption DEF Refreshed, TypeOK, Tx
  <2> QED
    BY <2>1, <2>2 DEF Pending, Sent, Transfer
<1> QED
  BY <1>2, <1>3, <1>4 DEF Balances, AmountIn, Transfers

LEMMA PendingIds ==
    /\ Pending = {e.id : e \in Entries}
    /\ \A e \in Entries : Transfers[e.id] = e.amount
    /\ \A e, f \in Entries : e.id = f.id => e = f
<1>1. \A h : Entry(h).id = h /\ Entry(h).amount = Transfer(h).v
  BY DEF Entry
<1>2. \A h \in Pending : Entry(h) \in Entries
  BY DEF Entries
<1>3. \A e \in Entries : \E h \in Pending : e = Entry(h)
  BY DEF Entries
<1>4. \A h \in Pending : Transfers[h] = Transfer(h).v
  BY DEF Transfers
<1>5. \A x : x \in Pending <=> x \in {e.id : e \in Entries}
  <2>1. \A x : x \in {e.id : e \in Entries} <=> \E e \in Entries : x = e.id
    OBVIOUS
  <2> QED
    BY <1>1, <1>2, <1>3, <2>1
<1>6. \A e \in Entries : Transfers[e.id] = e.amount
  BY <1>1, <1>3, <1>4
<1>7. \A e, f \in Entries : e.id = f.id => e = f
  BY <1>1, <1>3
<1> QED
  BY <1>5, <1>6, <1>7

\* What the steps below know of the two sums.
HeldSum == \E g, F : /\ g = Balances /\ IsSetSum(F, g, Users)
                     /\ HeldCoins = F[Users]
                     /\ \A u \in Users : g[u] \in Int
\* F sums up the amounts of the transfers E, whose ids are S.
EntrySum(E, S, g, F) ==
    /\ IsFiniteSet(S) /\ IsSetSum(F, g, S)
    /\ \A h \in S : g[h] \in Int
    /\ S = {e.id : e \in E}
    /\ \A e \in E : g[e.id] = e.amount
    /\ \A e, f \in E : e.id = f.id => e = f
SentSum == \E E, S, g, F : /\ E = Entries /\ S = Pending /\ SentCoins = F[S]
                           /\ EntrySum(E, S, g, F)

LEMMA SumsExist == IsFiniteSet(Users) /\ TypeOK /\ FreshIds => HeldSum /\ SentSum
<1> SUFFICES ASSUME IsFiniteSet(Users), TypeOK, FreshIds
             PROVE  HeldSum /\ SentSum
  OBVIOUS
<1>1. HeldSum
  <2>1. PICK F : IsSetSum(F, Balances, Users) /\ HeldCoins = F[Users]
    BY BalanceSum
  <2>2. PICK g : g = Balances
    OBVIOUS
  <2>3. IsSetSum(F, g, Users)
    BY <2>1, <2>2 DEF IsSetSum
  <2>4. \A u \in Users : g[u] \in Int
    BY <2>2, SumTypes
  <2> QED
    BY <2>1, <2>2, <2>3, <2>4 DEF HeldSum
<1>2. SentSum
  <2>1. IsFiniteSet(Pending) /\ \A h \in Pending : Transfers[h] \in Int
    BY SumTypes
  <2>2. PICK F : IsSetSum(F, Transfers, Pending) /\ SentCoins = F[Pending]
    BY <2>1, TransferSum
  <2>3. PICK E, S, g : E = Entries /\ S = Pending /\ g = Transfers
    OBVIOUS
  <2>4. IsSetSum(F, g, S)
    BY <2>2, <2>3 DEF IsSetSum
  <2>5. IsFiniteSet(S)
    BY <2>1, <2>3
  <2>6. /\ S = {e.id : e \in E}
        /\ \A e \in E : g[e.id] = e.amount
        /\ \A e, f \in E : e.id = f.id => e = f
    BY <2>3, PendingIds
  <2>7. EntrySum(E, S, g, F)
    BY <2>1, <2>3, <2>4, <2>5, <2>6 DEF EntrySum
  <2> QED
    BY <2>2, <2>3, <2>7 DEF SentSum
<1> QED
  BY <1>1, <1>2

LEMMA HeldSame ==
    ASSUME IsFiniteSet(Users), HeldSum, HeldSum', Balances' = Balances
    PROVE  HeldCoins' = HeldCoins /\ HeldCoins \in Int
<1>1. PICK g, F : /\ g = Balances /\ IsSetSum(F, g, Users)
                  /\ HeldCoins = F[Users] /\ \A u \in Users : g[u] \in Int
  BY DEF HeldSum
<1>2. PICK k, G : /\ k = Balances' /\ IsSetSum(G, k, Users)
                  /\ HeldCoins' = G[Users]
  BY DEF HeldSum
<1>3. F[Users] = G[Users]
  BY <1>1, <1>2, SetSumSame
<1>4. F[Users] \in Int
  BY <1>1, SetSumInt
<1> QED
  BY <1>1, <1>2, <1>3, <1>4

LEMMA HeldChange ==
    ASSUME IsFiniteSet(Users), HeldSum, HeldSum', NEW u \in Users,
           \A w \in Users : w # u => Balances'[w] = Balances[w]
    PROVE  /\ HeldCoins' = HeldCoins - Balances[u] + Balances'[u]
           /\ HeldCoins \in Int
           /\ Balances[u] \in Int /\ Balances'[u] \in Int
<1>1. PICK g, F : /\ g = Balances /\ IsSetSum(F, g, Users)
                  /\ HeldCoins = F[Users] /\ \A w \in Users : g[w] \in Int
  BY DEF HeldSum
<1>2. PICK k, G : /\ k = Balances' /\ IsSetSum(G, k, Users)
                  /\ HeldCoins' = G[Users] /\ \A w \in Users : k[w] \in Int
  BY DEF HeldSum
<1>3. \A w \in Users : w # u => k[w] = g[w]
  BY <1>1, <1>2
<1>4. G[Users] = F[Users] - g[u] + k[u]
  BY <1>1, <1>2, <1>3, SetSumChange
<1>5. F[Users] \in Int
  BY <1>1, SetSumInt
<1> QED
  BY <1>1, <1>2, <1>4, <1>5

LEMMA SentSame ==
    ASSUME SentSum, SentSum', Entries' = Entries
    PROVE  SentCoins' = SentCoins /\ SentCoins \in Int
<1>1. PICK E, S, g, F : /\ E = Entries /\ S = Pending /\ SentCoins = F[S]
                        /\ EntrySum(E, S, g, F)
  BY DEF SentSum
<1>2. PICK D, U, k, G : /\ D = Entries' /\ U = Pending' /\ SentCoins' = G[U]
                        /\ EntrySum(D, U, k, G)
  BY DEF SentSum
<1>3. D = E
  BY <1>1, <1>2
<1>4. U = S /\ \A h \in S : g[h] = k[h]
  BY <1>1, <1>2, <1>3 DEF EntrySum
<1>5. F[S] = G[S]
  BY <1>1, <1>2, <1>4, SetSumSame DEF EntrySum
<1>6. F[S] \in Int
  BY <1>1, SetSumInt DEF EntrySum
<1> QED
  BY <1>1, <1>2, <1>4, <1>5, <1>6

LEMMA SentGrow ==
    ASSUME SentSum, SentSum', NEW p, p.id \notin Pending,
           Entries' = Entries \cup {p}
    PROVE  /\ SentCoins' = SentCoins + p.amount
           /\ SentCoins \in Int /\ p.amount \in Int
<1>1. PICK E, S, g, F : /\ E = Entries /\ S = Pending /\ SentCoins = F[S]
                        /\ EntrySum(E, S, g, F)
  BY DEF SentSum
<1>2. PICK D, U, k, G : /\ D = Entries' /\ U = Pending' /\ SentCoins' = G[U]
                        /\ EntrySum(D, U, k, G)
  BY DEF SentSum
<1>3. D = E \cup {p} /\ p.id \notin S
  BY <1>1, <1>2
<1>4. /\ U = S \cup {p.id} /\ k[p.id] = p.amount
      /\ \A h \in S : k[h] = g[h]
  <2>1. /\ S = {e.id : e \in E} /\ \A e \in E : g[e.id] = e.amount
        /\ U = {e.id : e \in D} /\ \A e \in D : k[e.id] = e.amount
    BY <1>1, <1>2 DEF EntrySum
  <2>2. U = S \cup {p.id}
    <3>1. \A h : h \in U <=> h \in S \cup {p.id}
      BY <1>3, <2>1
    <3> QED
      BY <3>1
  <2>3. \A h \in S : \E e \in E : h = e.id
    BY <2>1
  <2>4. \A h \in S : k[h] = g[h]
    BY <1>3, <2>1, <2>3
  <2> QED
    BY <1>3, <2>1, <2>2, <2>4
<1>5. G[U] = k[p.id] + F[S] /\ F[S] \in Int
  <2>1. /\ IsFiniteSet(S) /\ IsSetSum(F, g, S) /\ IsSetSum(G, k, U)
        /\ \A h \in U : k[h] \in Int
    BY <1>1, <1>2 DEF EntrySum
  <2>2. PICK x : x = p.id
    OBVIOUS
  <2>3. Grown(S, x, U)
    BY <1>3, <1>4, <2>2 DEF Grown
  <2>4. G[U] = k[x] + F[S] /\ F[S] \in Int
    BY <1>4, <2>1, <2>3, SetSumGrow
  <2> QED
    BY <2>2, <2>4
<1>6. k[p.id] \in Int
  BY <1>2, <1>4 DEF EntrySum
<1> QED
  BY <1>1, <1>2, <1>4, <1>5, <1>6

LEMMA SentShrink ==
    ASSUME SentSum, SentSum', NEW p, p \in Entries, Entries' = Entries \ {p}
    PROVE  /\ SentCoins = SentCoins' + p.amount
           /\ SentCoins' \in Int /\ p.amount \in Int
<1>1. PICK E, S, g, F : /\ E = Entries /\ S = Pending /\ SentCoins = F[S]
                        /\ EntrySum(E, S, g, F)
  BY DEF SentSum
<1>2. PICK D, U, k, G : /\ D = Entries' /\ U = Pending' /\ SentCoins' = G[U]
                        /\ EntrySum(D, U, k, G)
  BY DEF SentSum
<1>3. D = E \ {p} /\ p \in E
  BY <1>1, <1>2
<1>4. /\ S = U \cup {p.id} /\ p.id \notin U /\ g[p.id] = p.amount
      /\ \A h \in U : k[h] = g[h]
  <2>1. /\ S = {e.id : e \in E} /\ \A e \in E : g[e.id] = e.amount
        /\ U = {e.id : e \in D} /\ \A e \in D : k[e.id] = e.amount
        /\ \A e, f \in E : e.id = f.id => e = f
    BY <1>1, <1>2 DEF EntrySum
  <2>2. \A h \in U : \E e \in D : h = e.id
    BY <2>1
  <2>3. p.id \notin U
    BY <1>3, <2>1, <2>2
  <2>4. S = U \cup {p.id}
    <3>1. \A h : h \in S <=> h \in U \cup {p.id}
      BY <1>3, <2>1
    <3> QED
      BY <3>1
  <2>5. \A h \in U : k[h] = g[h]
    BY <1>3, <2>1, <2>2
  <2> QED
    BY <1>3, <2>1, <2>3, <2>4, <2>5
<1>5. F[S] = g[p.id] + G[U] /\ G[U] \in Int
  <2>1. /\ IsFiniteSet(U) /\ IsSetSum(F, g, S) /\ IsSetSum(G, k, U)
        /\ \A h \in S : g[h] \in Int
    BY <1>1, <1>2 DEF EntrySum
  <2>2. PICK x : x = p.id
    OBVIOUS
  <2>3. Grown(U, x, S)
    BY <1>4, <2>2 DEF Grown
  <2>4. \A h \in U : g[h] = k[h]
    BY <1>4
  <2>5. F[S] = g[x] + G[U] /\ G[U] \in Int
    BY <2>1, <2>3, <2>4, SetSumGrow
  <2> QED
    BY <2>2, <2>5
<1>6. g[p.id] \in Int
  BY <1>1, <1>4 DEF EntrySum
<1> QED
  BY <1>1, <1>2, <1>4, <1>5, <1>6

-----------------------------------------------------------------------------
(* Every coin is in one place. *)

Sums == HeldSum /\ SentSum
Coins == HeldCoins + SentCoins
Conserved == Coins = supply

LEMMA ConservationIs == Conservation <=> (Calm => Conserved)
  BY DEF Conservation, Conserved, Coins, HeldCoins, SentCoins

\* A step that changes nothing of the abstract ledger.
LEMMA LedgerConserved ==
    ASSUME IsFiniteSet(Users), Sums, Sums', Conserved,
           Accounts' = Accounts, Entries' = Entries, supply' = supply
    PROVE  Conserved'
<1>1. Balances' = Balances
  BY DEF Accounts, AbstractAccount, Balances, AmountIn
<1>2. HeldCoins' = HeldCoins /\ SentCoins' = SentCoins
  BY <1>1, HeldSame, SentSame DEF Sums
<1> QED
  BY <1>2 DEF Conserved, Coins

\* A write of an account file, on the sums.
LEMMA WriteCoins ==
    ASSUME IsFiniteSet(Users), Sums, Sums', BaseInv, MapInv, WriteAccount
    PROVE  /\ HeldCoins' = HeldCoins - (acct[job.u].pt + acct[job.u].v)
                                     + (job.acct.pt + job.acct.v)
           /\ HeldCoins \in Int
           /\ acct[job.u].pt \in Nat /\ acct[job.u].v \in Nat
           /\ job.acct.pt \in Nat /\ job.acct.v \in Nat
<1>1. PICK u : u = job.u
  OBVIOUS
<1>2. u \in Users /\ job.acct \in Account /\ acct[u] \in Account
  BY <1>1, WriteAccountFacts
<1>3. acct' = [acct EXCEPT ![u] = job.acct] /\ acct \in [Users -> Account]
  BY <1>1 DEF WriteAccount, BaseInv, TypeOK
<1>4. \A w \in Users : w # u => Balances'[w] = Balances[w]
  BY <1>2, <1>3 DEF Balances, AmountIn
<1>5. /\ Balances[u] = acct[u].pt + acct[u].v
      /\ Balances'[u] = job.acct.pt + job.acct.v
  BY <1>2, <1>3 DEF Balances, AmountIn
<1>6. /\ HeldCoins' = HeldCoins - Balances[u] + Balances'[u]
      /\ HeldCoins \in Int
  BY <1>2, <1>4, HeldChange DEF Sums
<1>7. /\ acct[u].pt \in Nat /\ acct[u].v \in Nat
      /\ job.acct.pt \in Nat /\ job.acct.v \in Nat
  BY <1>2 DEF Account
<1> QED
  BY <1>1, <1>5, <1>6, <1>7

LEMMA OpenConserved ==
    ASSUME IsFiniteSet(Users), Sums, Sums', BaseInv, MapInv, WriteAccount,
           job.op = "create", Conserved
    PROVE  Conserved'
<1>1. job.acct.v = 0
  BY WriteAccountFacts DEF MapInv, WriteJob, InAccount, Opening, Moves, Numbered
<1>2. supply' = (supply + job.acct.pt) - (acct[job.u].pt + acct[job.u].v)
  BY DEF WriteAccount
<1>3. SentCoins' = SentCoins /\ SentCoins \in Int
  BY LiveStays, SamePending, SentSame DEF Sums
<1> QED
  BY <1>1, <1>2, <1>3, WriteCoins DEF Conserved, Coins

\* Mint and redeem, and a deposit of nothing.
LEMMA MoveConserved ==
    ASSUME IsFiniteSet(Users), Sums, Sums', BaseInv, MapInv, WriteAccount,
           Conserved, job.op # "create", Entries' = Entries,
           job.acct.pt + job.acct.v = acct[job.u].pt + acct[job.u].v
    PROVE  Conserved'
<1>1. supply' = supply
  BY DEF WriteAccount
<1>2. SentCoins' = SentCoins /\ SentCoins \in Int
  BY SentSame DEF Sums
<1> QED
  BY <1>1, <1>2, WriteCoins DEF Conserved, Coins

LEMMA SendConserved ==
    ASSUME IsFiniteSet(Users), Sums, Sums', BaseInv, MapInv, WriteAccount,
           Conserved, job.op = "send"
    PROVE  Conserved'
<1>1. /\ job.acct.pt = acct[job.u].pt /\ job.acct.v < acct[job.u].v
      /\ job.ctx.transfer.v = acct[job.u].v - job.acct.v
  BY MoveFacts DEF Moves, Numbered
<1>2. supply' = supply
  BY DEF WriteAccount
<1>3. PICK p : p = [id |-> job.id, to |-> job.ctx.transfer.pk,
                    amount |-> job.ctx.transfer.v]
  OBVIOUS
<1>4. p.id = job.id /\ p.amount = job.ctx.transfer.v
  BY <1>3
<1>5. p.id \notin Pending /\ Entries' = Entries \cup {p}
  BY <1>3, <1>4, SendPending
<1>6. SentCoins' = SentCoins + p.amount /\ SentCoins \in Int
  BY <1>5, SentGrow DEF Sums
<1> QED
  BY <1>1, <1>2, <1>4, <1>6, WriteCoins DEF Conserved, Coins

LEMMA CreditConserved ==
    ASSUME IsFiniteSet(Users), Sums, Sums', BaseInv, MapInv, WriteAccount, Calm,
           Conserved, job.op = "deposit", chequeSt[job.h] = "ok",
           origin[job.h] # 0
    PROVE  Conserved'
<1>1. PICK o : o = origin[job.h]
  OBVIOUS
<1>2. /\ job.h \in Tx /\ job.acct.pt = acct[job.u].pt
      /\ job.acct.v = acct[job.u].v + cheque[job.h].transfer
      /\ cheque[job.h].C.pk = acct[job.u].pk
  BY MoveFacts DEF Moves, Numbered
<1>3. ctx[o].transfer.v = cheque[job.h].transfer
  BY <1>1, <1>2 DEF BaseInv, PaidInv, ChequesPaid, ChequePaid
<1>4. /\ o \in Pending /\ Entries' = Entries \ {Entry(o)}
      /\ Transfer(o) = ctx[o].transfer
  BY <1>1, <1>2, CreditPending
<1>5. PICK p : p = Entry(o)
  OBVIOUS
<1>6. p \in Entries /\ p.amount = ctx[o].transfer.v /\ Entries' = Entries \ {p}
  BY <1>4, <1>5 DEF Entries, Entry
<1>7. SentCoins = SentCoins' + p.amount /\ SentCoins' \in Int
      /\ p.amount \in Int
  BY <1>6, SentShrink DEF Sums
<1>8. supply' = supply
  BY <1>2 DEF WriteAccount
<1> QED
  BY <1>2, <1>3, <1>6, <1>7, <1>8, WriteCoins DEF Conserved, Coins

LEMMA WriteAccountConserved ==
    ASSUME IsFiniteSet(Users), Sums, Sums', BaseInv, MapInv, WriteAccount, Calm,
           Conserved
    PROVE  Conserved'
<1>1. job.op = "create" \/ job.op \in Numbered
  BY WriteAccountFacts DEF MapInv, WriteJob, InAccount, Moves
<1>2. CASE job.op \in {"mint", "redeem"}
  <2>1. job.acct.pt + job.acct.v = acct[job.u].pt + acct[job.u].v
    BY <1>2, MoveFacts DEF Moves, Numbered
  <2>2. Entries' = Entries
    BY <1>2, LiveStays, SamePending
  <2> QED
    BY <1>2, <2>1, <2>2, MoveConserved
<1>3. CASE job.op = "deposit" /\ (chequeSt[job.h] # "ok" \/ origin[job.h] = 0)
  <2>1. Accounts' = Accounts /\ Entries' = Entries
    BY <1>3, WorthlessLedger DEF L!ledger, Accounts, Entries, Entry
  <2>2. supply' = supply
    BY <1>3 DEF WriteAccount
  <2> QED
    BY <2>1, <2>2, LedgerConserved
<1> QED
  BY <1>1, <1>2, <1>3, OpenConserved, SendConserved, CreditConserved
  DEF Numbered

\* Only an account file that is replaced changes the coins issued, and only
\* a crash counts as one.
LEMMA SupplyStays ==
    ASSUME [Next]_vars
    PROVE  /\ ~WriteAccount => supply' = supply
           /\ crashes' = crashes \/ Crash
<1>1. CASE Handle
  <2>1. PICK u \in Users :
           \/ \E x \in Amounts : \/ BackendCreateAccount(u, x)
                                \/ BackendMint(u, x) \/ BackendRedeem(u, x)
                                \/ \E w \in Users : BackendSendCheque(u, w, x)
           \/ \E h \in Tx : BackendRefreshCheque(u, h) \/ BackendDepositCheque(u, h)
    BY <1>1 DEF Handle
  <2>2. \A op, ok : Refuse(op, u, ok) => supply' = supply /\ crashes' = crashes
    BY DEF Refuse, counters, history
  <2>3. \A op, h, a, t : Transact(op, u, h, a, t)
                          => supply' = supply /\ crashes' = crashes
    BY DEF Transact, history
  <2>4. \A h, src, v, r : StartRefresh(u, h, src, v, r)
                          => supply' = supply /\ crashes' = crashes
    BY DEF StartRefresh
  <2>5. \A x : BackendCreateAccount(u, x)
               => supply' = supply /\ crashes' = crashes
    BY <2>2 DEF BackendCreateAccount, history
  <2>6. \A x : BackendMint(u, x) => supply' = supply /\ crashes' = crashes
    BY <2>2, <2>3 DEF BackendMint
  <2>7. \A x : BackendRedeem(u, x) => supply' = supply /\ crashes' = crashes
    BY <2>2, <2>3 DEF BackendRedeem
  <2>8. \A w, x : BackendSendCheque(u, w, x)
                  => supply' = supply /\ crashes' = crashes
    BY <2>2, <2>3 DEF BackendSendCheque
  <2>9. \A h : BackendRefreshCheque(u, h) => supply' = supply /\ crashes' = crashes
    BY <2>2, <2>4 DEF BackendRefreshCheque
  <2>10. \A h : BackendDepositCheque(u, h) => supply' = supply /\ crashes' = crashes
    BY <2>2, <2>3 DEF BackendDepositCheque
  <2> QED
    BY <2>1, <2>5, <2>6, <2>7, <2>8, <2>9, <2>10
<1>2. CASE Continue \/ Crash \/ Restart
  BY <1>2 DEF Continue, counters, history, OpenAccount, WriteAccount,
     InsertAccountRow, OpenCheque, WriteCheque, RemoveCtx, OpenCtx, WriteCtx,
     InsertCtRow, RemoveCheque, Reply, Crash, Restart
<1>3. CASE UNCHANGED vars
  BY <1>3 DEF vars, counters, history
<1> QED
  BY <1>1, <1>2, <1>3 DEF Next

LEMMA StepConserved ==
    ASSUME IsFiniteSet(Users), Sums, Sums', BaseInv, MapInv, [Next]_vars,
           Conservation
    PROVE  Conservation'
<1> SUFFICES ASSUME Calm' PROVE Conserved'
  BY DEF Conservation, Conserved, Coins, HeldCoins, SentCoins
<1>1. Calm
  <2>1. crashes' = crashes \/ Crash
    BY SupplyStays
  <2>2. crashes \in Nat
    BY DEF BaseInv, TypeOK
  <2> QED
    BY <2>1, <2>2 DEF Crash, Calm
<1>2. Conserved
  BY <1>1, ConservationIs
<1>3. CASE WriteAccount
  BY <1>1, <1>2, <1>3, WriteAccountConserved
<1>4. CASE ~WriteAccount
  <2>1. Accounts' = Accounts /\ Entries' = Entries
    BY <1>4, LedgerStays DEF L!ledger, Accounts, Entries, Entry
  <2>2. supply' = supply
    BY <1>4, SupplyStays
  <2> QED
    BY <1>2, <2>1, <2>2, LedgerConserved
<1> QED
  BY <1>3, <1>4

LEMMA SetSumZero ==
    ASSUME NEW S, IsFiniteSet(S), NEW g, \A x \in S : g[x] = 0,
           NEW F, IsSetSum(F, g, S)
    PROVE  F[S] = 0
<1> DEFINE T == {t \in SUBSET S : F[t] # 0}
<1> SUFFICES ASSUME T # {} PROVE FALSE
  OBVIOUS
<1>1. PICK t \in T : \A b \in T : Cardinality(t) <= Cardinality(b)
  BY SmallestSubset
<1>2. t # {} /\ Chosen(t) \in t
  BY <1>1, ChosenIn DEF IsSetSum
<1>3. /\ t \ {Chosen(t)} \in SUBSET S
      /\ Cardinality(t) \in Nat /\ Cardinality(t \ {Chosen(t)}) \in Nat
      /\ Cardinality(t \ {Chosen(t)}) < Cardinality(t)
  BY <1>1, <1>2, Smaller
<1>4. F[t \ {Chosen(t)}] = 0
  BY <1>1, <1>3
<1>5. F[t] = g[Chosen(t)] + F[t \ {Chosen(t)}] /\ g[Chosen(t)] = 0
  BY <1>1, <1>2 DEF IsSetSum
<1> QED
  BY <1>1, <1>4, <1>5

LEMMA InitConserved ==
    ASSUME IsFiniteSet(Users), Sums, Init
    PROVE  Conservation
<1>1. HeldCoins = 0
  <2>1. \A u \in Users : Balances[u] = 0
    <3>1. NoAccount.pt = 0 /\ NoAccount.v = 0
      BY DEF NoAccount, CreateAccount
    <3>2. \A u \in Users : acct[u] = NoAccount
      BY DEF Init
    <3>3. \A u \in Users : acct[u].pt = 0 /\ acct[u].v = 0
      BY <3>1, <3>2
    <3>4. \A u \in Users : Balances[u] = acct[u].pt + acct[u].v
      BY DEF Balances, AmountIn
    <3>5. \A u \in Users : acct[u].pt + acct[u].v = 0
      <4> SUFFICES ASSUME NEW u \in Users PROVE acct[u].pt + acct[u].v = 0
        OBVIOUS
      <4>1. PICK x \in Int, y \in Int :
               x = acct[u].pt /\ y = acct[u].v /\ x = 0 /\ y = 0
        BY <3>3
      <4> QED
        BY <4>1
    <3> QED
      BY <3>4, <3>5
  <2>2. PICK g, F : g = Balances /\ IsSetSum(F, g, Users) /\ HeldCoins = F[Users]
    BY DEF Sums, HeldSum
  <2>3. \A u \in Users : g[u] = 0
    BY <2>1, <2>2
  <2> QED
    BY <2>2, <2>3, SetSumZero
<1>2. SentCoins = 0
  <2>1. Pending = {}
    BY DEF Init, Pending, InFlight, Sent, Refreshed
  <2>2. PICK S, g, F : S = {} /\ SentCoins = F[S] /\ IsSetSum(F, g, S)
    BY <2>1 DEF Sums, SentSum, EntrySum
  <2> QED
    BY <2>2 DEF IsSetSum
<1>3. supply = 0
  BY DEF Init
<1> QED
  BY <1>1, <1>2, <1>3, ConservationIs DEF Conserved, Coins

\* Every coin that was issued to an account that still exists is in that
\* account's balances or in one transfer that is not yet credited, at every
\* step of every handler, for every finite set of users.
THEOREM CoinsConserved ==
    ASSUME IsFiniteSet(Users)
    PROVE  Spec => []Conservation
<1>1. BaseInv => Sums
  BY SumsExist DEF Sums, BaseInv, ChequeInv
<1>2. Init /\ Sums => Conservation
  BY InitConserved
<1>3. /\ Sums /\ Sums' /\ BaseInv /\ MapInv /\ [Next]_vars /\ Conservation
      => Conservation'
  BY StepConserved
<1> QED
  BY <1>1, <1>2, <1>3, BaseInvariant, MapInvariant, PTL DEF Spec

-----------------------------------------------------------------------------
(* The queries read only, so that what the handlers keep is kept. *)

LEMMA QueryStep == [QueryNext]_queryVars => [Next]_vars
  BY DEF QueryNext, queryVars, Query, BackendRequestTrans, BackendRequestAllTrans,
         BackendRequestAccts, BackendAccountLogin, Next

LEMMA QueriesRead == QuerySpec => Spec
<1>1. QueryInit => Init
  BY DEF QueryInit
<1> QED
  BY <1>1, QueryStep, PTL DEF QuerySpec, Spec

\* Until the first crash and with a table that takes every row, each complete
\* transaction file has its row, or is the one whose row is next.
FilesListed ==
    Steady =>
        \A h \in Tx : ctxSt[h] = "ok" =>
            \/ pc = "ct_row" /\ job.id = h
            \/ \E row \in ctRows :
                  /\ row.id = h /\ row.type = ctx[h].type
                  /\ row.type = "send" => row.receiver = ctx[h].transfer.pk

\* Every row of the account table was inserted after its file was complete,
\* and only a crash leaves a file empty after the handler that emptied it.
RowsHaveFiles ==
    /\ \A k \in acctRows : k[1] \in Users /\ acctSt[k[1]] # "none"
    /\ crashes = 0 => \A u \in Users : acctSt[u] = "torn"
                                       => pc = "acct_write" /\ job.u = u

ReadInv == FilesListed /\ RowsHaveFiles

\* What the two tables can lose: a transaction file that was complete, or the
\* contents of one.
LEMMA ListedFrame ==
    ASSUME FilesListed, Steady' => Steady, ctRows \subseteq ctRows',
           pc # "ct_row",
           \A h \in Tx : ctxSt'[h] = "ok" => ctxSt[h] = "ok" /\ ctx'[h] = ctx[h]
    PROVE  FilesListed'
  BY DEF FilesListed

LEMMA InsertListed ==
    ASSUME BaseInv, FilesListed, InsertCtRow
    PROVE  FilesListed'
<1>1. /\ pc = "ct_row" /\ pc' # "ct_row"
      /\ UNCHANGED <<ctxSt, ctx, crashes>>
      /\ \/ ctRows' = ctRows \cup
               {[sn |-> job.ctx.sn, type |-> job.ctx.type, id |-> job.id,
                 receiver |-> IF job.ctx.type = "send"
                              THEN job.ctx.transfer.pk ELSE NoKey,
                 sender |-> job.ctx.pk1]}
         \/ SqlFails
  BY DEF InsertCtRow, AfterRow, files, counters
<1>2. ctx[job.id] = job.ctx
  BY <1>1 DEF BaseInv, FileInv, RowJob
<1>3. CASE SqlFails
  BY <1>3 DEF FilesListed, Steady
<1>4. CASE ~SqlFails
  <2> SUFFICES ASSUME Steady', NEW h \in Tx, ctxSt[h] = "ok"
               PROVE  \E row \in ctRows' :
                        /\ row.id = h /\ row.type = ctx[h].type
                        /\ row.type = "send" => row.receiver = ctx[h].transfer.pk
    BY <1>1 DEF FilesListed
  <2>1. Steady
    BY <1>1 DEF Steady
  <2>2. CASE job.id = h
    <3>1. PICK row : row = [sn |-> job.ctx.sn, type |-> job.ctx.type,
                            id |-> job.id,
                            receiver |-> IF job.ctx.type = "send"
                                         THEN job.ctx.transfer.pk ELSE NoKey,
                            sender |-> job.ctx.pk1]
      OBVIOUS
    <3>2. /\ row \in ctRows' /\ row.id = job.id /\ row.type = job.ctx.type
          /\ row.type = "send" => row.receiver = job.ctx.transfer.pk
      BY <1>1, <1>4, <3>1
    <3> QED
      BY <1>2, <2>2, <3>2
  <2>3. CASE job.id # h
    BY <1>1, <1>4, <2>1, <2>3 DEF FilesListed
  <2> QED
    BY <2>2, <2>3
<1> QED
  BY <1>3, <1>4

LEMMA WriteListed ==
    ASSUME BaseInv, FilesListed, WriteCtx
    PROVE  FilesListed'
<1>1. /\ pc = "ctx_write" /\ pc' = "ct_row"
      /\ job' = [job EXCEPT !.done = TRUE]
      /\ ctxSt' = [ctxSt EXCEPT ![job.id] = "ok"]
      /\ ctx' = [ctx EXCEPT ![job.id] = job.ctx]
      /\ UNCHANGED <<ctRows, crashes>> /\ TypeOK
  BY DEF WriteCtx, tables, counters, BaseInv
<1>2. job'.id = job.id
  BY <1>1, DoneFields
<1>3. \A h \in Tx : h # job.id => ctxSt'[h] = ctxSt[h] /\ ctx'[h] = ctx[h]
  BY <1>1 DEF TypeOK
<1> QED
  BY <1>1, <1>2, <1>3 DEF FilesListed, Steady

\* A request has started: it has read its files and written none.
LEMMA HandleReads ==
    ASSUME BaseInv, Handle
    PROVE  /\ UNCHANGED <<acctSt, ctxSt, ctx, acctRows, ctRows, crashes>>
           /\ pc = "idle" /\ pc' \in {"reply", "acct_open", "cheque_open"}
<1>1. PICK u \in Users :
         \/ \E x \in Amounts : \/ BackendCreateAccount(u, x)
                              \/ BackendMint(u, x) \/ BackendRedeem(u, x)
                              \/ \E w \in Users : BackendSendCheque(u, w, x)
         \/ \E h \in Tx : BackendRefreshCheque(u, h) \/ BackendDepositCheque(u, h)
  BY DEF Handle
<1> DEFINE Reads ==
      /\ UNCHANGED <<acctSt, ctxSt, ctx, acctRows, ctRows, crashes>>
      /\ pc' \in {"reply", "acct_open", "cheque_open"}
<1>2. \A op, ok : Refuse(op, u, ok) => Reads
  BY DEF Refuse, Start, files, tables, counters
<1>3. \A op, h, a, t : Transact(op, u, h, a, t) => Reads
  BY DEF Transact, Start, files, tables
<1>4. \A h, src, v, r : StartRefresh(u, h, src, v, r) => Reads
  BY DEF StartRefresh, Start, files, tables
<1>5. \A x : BackendCreateAccount(u, x) => Reads /\ pc = "idle"
  BY <1>2 DEF BackendCreateAccount, Start, files, tables
<1> HIDE DEF Reads
<1>6. \A x : BackendMint(u, x) => Reads /\ pc = "idle"
  BY <1>2, <1>3 DEF BackendMint
<1>7. \A x : BackendRedeem(u, x) => Reads /\ pc = "idle"
  BY <1>2, <1>3 DEF BackendRedeem
<1>8. \A w, x : BackendSendCheque(u, w, x) => Reads /\ pc = "idle"
  BY <1>2, <1>3 DEF BackendSendCheque
<1>9. \A h : BackendRefreshCheque(u, h) => Reads /\ pc = "idle"
  BY <1>2, <1>4 DEF BackendRefreshCheque
<1>10. \A h : BackendDepositCheque(u, h) => Reads /\ pc = "idle"
  BY <1>2, <1>3 DEF BackendDepositCheque
<1> QED
  BY <1>1, <1>5, <1>6, <1>7, <1>8, <1>9, <1>10 DEF Reads

LEMMA OtherListed ==
    ASSUME BaseInv, FilesListed,
           \/ Handle \/ Restart \/ OpenAccount \/ WriteAccount \/ InsertAccountRow
           \/ OpenCheque \/ WriteCheque \/ RemoveCtx \/ OpenCtx \/ RemoveCheque
           \/ Reply
    PROVE  FilesListed'
<1>1. pc # "ct_row" /\ ctRows' = ctRows /\ ctx' = ctx /\ crashes' = crashes
  BY HandleReads DEF Restart, OpenAccount, WriteAccount, InsertAccountRow, OpenCheque,
     WriteCheque, RemoveCtx, OpenCtx, RemoveCheque, Reply, files, tables, counters
<1>2. \/ ctxSt' = ctxSt
      \/ \E h \in 0..MaxTx, st \in {"none", "torn"} : ctxSt' = [ctxSt EXCEPT ![h] = st]
  <2>1. job.h \in 0..MaxTx /\ job.id \in 0..MaxTx
    BY DEF BaseInv, TypeOK, Job
  <2> QED
    BY <2>1, HandleReads DEF Restart, OpenAccount, WriteAccount, InsertAccountRow,
       OpenCheque, WriteCheque, RemoveCtx, OpenCtx, RemoveCheque, Reply, files
<1>3. \A h \in Tx : ctxSt'[h] = "ok" => ctxSt[h] = "ok" /\ ctx'[h] = ctx[h]
  BY <1>1, <1>2 DEF BaseInv, TypeOK
<1> QED
  BY <1>1, <1>3, ListedFrame DEF Steady

LEMMA CrashLater ==
    ASSUME BaseInv, Crash
    PROVE  crashes' # 0
  BY DEF Crash, BaseInv, TypeOK

LEMMA StepListed ==
    ASSUME BaseInv, FilesListed, [Next]_vars
    PROVE  FilesListed'
<1>1. CASE Crash
  BY <1>1, CrashLater DEF FilesListed, Steady
<1>2. CASE UNCHANGED vars
  BY <1>2 DEF vars, files, tables, counters, FilesListed, Steady
<1> QED
  BY <1>1, <1>2, OtherListed, InsertListed, WriteListed DEF Next, Continue

\* A row of the account table is of the file the handler has just written.
LEMMA AccountFileRow ==
    ASSUME BaseInv, RecordInv, pc = "acct_row"
    PROVE  job.acct.pk[1] = job.u /\ job.u \in Users /\ acctSt[job.u] = "ok"
  BY DEF BaseInv, TypeOK, AccountInv, KeysOwned, RecordInv, RecordJob

LEMMA OpenAccountRows ==
    ASSUME BaseInv, RowsHaveFiles, OpenAccount \/ WriteAccount
    PROVE  RowsHaveFiles'
<1>1. /\ acctRows' = acctRows /\ crashes' = crashes /\ TypeOK /\ job.u \in Users
      /\ \/ /\ pc = "acct_open" /\ pc' = "acct_write" /\ job' = job
            /\ acctSt' = [acctSt EXCEPT ![job.u] = "torn"]
         \/ /\ pc = "acct_write"
            /\ acctSt' = [acctSt EXCEPT ![job.u] = "ok"]
  BY DEF OpenAccount, WriteAccount, tables, counters, BaseInv, TypeOK
<1> QED
  BY <1>1 DEF RowsHaveFiles, TypeOK

LEMMA OtherAccountRows ==
    ASSUME BaseInv, RecordInv, RowsHaveFiles,
           \/ Handle \/ Restart \/ InsertAccountRow \/ OpenCheque \/ WriteCheque
           \/ RemoveCtx \/ OpenCtx \/ WriteCtx \/ InsertCtRow \/ RemoveCheque
           \/ Reply
    PROVE  RowsHaveFiles'
<1>1. acctSt' = acctSt /\ crashes' = crashes /\ pc # "acct_write"
  BY HandleReads DEF Restart, InsertAccountRow, OpenCheque, WriteCheque, RemoveCtx,
     OpenCtx, WriteCtx, InsertCtRow, RemoveCheque, Reply, files, counters
<1>2. acctRows' = acctRows
      \/ (pc = "acct_row" /\ acctRows' = acctRows \cup {job.acct.pk})
  BY HandleReads DEF Restart, InsertAccountRow, OpenCheque, WriteCheque, RemoveCtx,
     OpenCtx, WriteCtx, InsertCtRow, RemoveCheque, Reply, tables
<1> QED
  BY <1>1, <1>2, AccountFileRow DEF RowsHaveFiles

LEMMA StepAccountRows ==
    ASSUME BaseInv, RecordInv, RowsHaveFiles, [Next]_vars
    PROVE  RowsHaveFiles'
<1>1. CASE Crash
  BY <1>1, CrashLater DEF Crash, RowsHaveFiles, files, tables
<1>2. CASE UNCHANGED vars
  BY <1>2 DEF vars, files, tables, counters, RowsHaveFiles
<1> QED
  BY <1>1, <1>2, OpenAccountRows, OtherAccountRows DEF Next, Continue

LEMMA ReadInvariant == Spec => []ReadInv
<1>1. Init => ReadInv
  BY DEF Init, ReadInv, FilesListed, RowsHaveFiles
<1>2. BaseInv /\ RecordInv /\ ReadInv /\ [Next]_vars => ReadInv'
  BY StepListed, StepAccountRows DEF ReadInv
<1> QED
  BY <1>1, <1>2, BaseInvariant, RecordInvariant, PTL DEF Spec

-----------------------------------------------------------------------------
(* The rows of an answer. *)

LEMMA FunctionSeq ==
    ASSUME NEW S, NEW n \in Nat, NEW f \in [1..n -> S]
    PROVE  f \in Seq(S) /\ Len(f) = n
  OBVIOUS

\* Some order of a finite set of rows has each of them in one place.
LEMMA InOrder ==
    ASSUME NEW S, IsFiniteSet(S), NEW ids \in SetToSeqs(S)
    PROVE  /\ Len(ids) = Cardinality(S) /\ Len(ids) \in Nat
           /\ \A i \in 1..Len(ids) : ids[i] \in S
           /\ \A x \in S : \E i \in 1..Len(ids) : ids[i] = x
<1>1. /\ ids \in [1..Cardinality(S) -> S]
      /\ \A i, j \in 1..Cardinality(S) : i # j => ids[i] # ids[j]
  BY DEF SetToSeqs
<1>2. Cardinality(S) \in Nat
  BY FS_CardinalityType
<1>3. Len(ids) = Cardinality(S)
  BY <1>1, <1>2, FunctionSeq
<1>4. ASSUME NEW x \in S, \A i \in 1..Cardinality(S) : ids[i] # x
      PROVE  FALSE
  <2>1. IsFiniteSet(S \ {x}) /\ Cardinality(S \ {x}) = Cardinality(S) - 1
    BY FS_RemoveElement
  <2>2. /\ IsFiniteSet(1..Cardinality(S))
        /\ Cardinality(1..Cardinality(S)) = Cardinality(S)
    BY <1>2, FS_Interval
  <2>3. PICK D, T : D = 1..Cardinality(S) /\ T = S \ {x}
    OBVIOUS
  <2>4. ids \in [D -> T]
    BY <1>1, <1>4, <2>3
  <2>5. /\ IsFiniteSet(D) /\ IsFiniteSet(T)
        /\ Cardinality(T) < Cardinality(D)
    BY <1>2, <2>1, <2>2, <2>3
  <2>6. \E i, j \in D : i # j /\ ids[i] = ids[j]
    BY <2>4, <2>5, FS_PigeonHole
  <2> QED
    BY <1>1, <2>3, <2>6
<1> QED
  BY <1>1, <1>2, <1>3, <1>4

\* The object that RequestTrans fills, after each row: st are the states of
\* the transaction files.
Filled(st, h, before) ==
    CASE st[h] = "none" -> before
      [] st[h] = "torn" -> 0
      [] st[h] = "ok"   -> h
ShownBy(f, st, ids, n) ==
    f = [i \in 0..n |-> IF i = 0 THEN 0 ELSE Filled(st, ids[i], f[i - 1])]

LEMMA ShownExists ==
    ASSUME NEW st, NEW ids, NEW n \in Nat
    PROVE  \E f : ShownBy(f, st, ids, n)
<1> DEFINE Good(m) == \E f : ShownBy(f, st, ids, m)
<1>1. Good(0)
  <2>1. ShownBy([i \in 0..0 |-> 0], st, ids, 0)
    BY DEF ShownBy
  <2> QED
    BY <2>1
<1>2. ASSUME NEW m \in Nat, Good(m)
      PROVE  Good(m + 1)
  <2>1. PICK f : ShownBy(f, st, ids, m)
    BY <1>2
  <2> DEFINE g == [i \in 0..(m + 1) |->
                      IF i \in 0..m THEN f[i] ELSE Filled(st, ids[i], f[i - 1])]
  <2>2. \A i \in 0..(m + 1) :
           g[i] = IF i = 0 THEN 0 ELSE Filled(st, ids[i], g[i - 1])
    <3> SUFFICES ASSUME NEW i \in 0..(m + 1)
                 PROVE  g[i] = IF i = 0 THEN 0 ELSE Filled(st, ids[i], g[i - 1])
      OBVIOUS
    <3>1. CASE i \in 0..m
      <4>1. f[i] = IF i = 0 THEN 0 ELSE Filled(st, ids[i], f[i - 1])
        BY <2>1, <3>1 DEF ShownBy
      <4>2. i # 0 => i - 1 \in 0..m
        BY <3>1
      <4> QED
        BY <3>1, <4>1, <4>2
    <3>2. CASE i = m + 1
      <4>1. i # 0 /\ i \notin 0..m /\ i - 1 \in 0..m
        BY <3>2
      <4> QED
        BY <3>2, <4>1
    <3> QED
      BY <3>1, <3>2
  <2>3. g = [i \in 0..(m + 1) |-> g[i]]
    OBVIOUS
  <2> HIDE DEF g
  <2>4. ShownBy(g, st, ids, m + 1)
    BY <2>2, <2>3 DEF ShownBy
  <2> QED
    BY <2>4
<1> HIDE DEF Good
<1>3. \A m \in Nat : Good(m)
  <2> SUFFICES ASSUME {m \in Nat : ~Good(m)} # {} PROVE FALSE
    OBVIOUS
  <2>1. PICK m \in Nat : ~Good(m) /\ \A k \in Nat : ~Good(k) => m <= k
    BY LeastExists
  <2>2. m - 1 \in Nat /\ m - 1 + 1 = m
    BY <1>1, <2>1
  <2> QED
    BY <1>2, <2>1, <2>2
<1> QED
  BY <1>3 DEF Good

\* The rows of RequestTrans: what the object shows after each.
LEMMA TransShown ==
    ASSUME NEW ids, NEW n \in Nat, Len(ids) = n
    PROVE  \E f : /\ ShownBy(f, ctxSt, ids, n)
                  /\ TransRows(ids)
                       = [i \in 1..n |-> [id |-> ids[i], shown |-> f[i]]]
<1> DEFINE P(f) == f = [i \in 0..Len(ids) |->
                          IF i = 0 THEN 0 ELSE Fill(ids[i], f[i - 1])]
           H == CHOOSE f : P(f)
<1>1. PICK st : st = ctxSt
  OBVIOUS
<1>2. PICK f : ShownBy(f, st, ids, n)
  BY ShownExists
<1>3. \A h, b : Fill(h, b) = Filled(st, h, b)
  BY <1>1 DEF Fill, Filled
<1>4. \A g : P(g) <=> ShownBy(g, st, ids, n)
  BY <1>3 DEF ShownBy
<1>5. TransRows(ids) = [i \in 1..Len(ids) |-> [id |-> ids[i], shown |-> H[i]]]
  BY DEF TransRows
<1> HIDE DEF P
<1>6. P(H)
  BY <1>2, <1>4
<1> HIDE DEF H
<1>7. ShownBy(H, st, ids, n)
  BY <1>4, <1>6
<1>8. ShownBy(H, ctxSt, ids, n)
  BY <1>1, <1>7 DEF ShownBy
<1> QED
  BY <1>5, <1>8

\* A row whose file is complete shows its own contents, whatever the object
\* showed before it; and each transaction that was selected has a row.
LEMMA TransRowsTrue ==
    ASSUME NEW S, IsFiniteSet(S), NEW ids \in SetToSeqs(S),
           NEW rows, rows = TransRows(ids)
    PROVE  /\ \A i \in 1..Len(rows) :
                 /\ rows[i].id \in S
                 /\ ctxSt[rows[i].id] = "ok" => rows[i].shown = rows[i].id
           /\ \A x \in S : \E i \in 1..Len(rows) : rows[i].id = x
<1>1. PICK n \in Nat : n = Len(ids)
  BY InOrder
<1>2. PICK f : /\ ShownBy(f, ctxSt, ids, n)
               /\ rows = [i \in 1..n |-> [id |-> ids[i], shown |-> f[i]]]
  BY <1>1, TransShown
<1>3. PICK st : st = ctxSt
  OBVIOUS
<1>4. \A i \in 1..n : f[i] = Filled(st, ids[i], f[i - 1])
  BY <1>2, <1>3 DEF ShownBy
<1>5. \A i \in 1..n : st[ids[i]] = "ok" => f[i] = ids[i]
  BY <1>4 DEF Filled
<1>6. Len(rows) = n
  <2> DEFINE R == {[id |-> ids[i], shown |-> f[i]] : i \in 1..n}
  <2>1. rows \in [1..n -> R]
    BY <1>2
  <2> QED
    BY <2>1, FunctionSeq
<1>7. \A i \in 1..n : rows[i].id = ids[i] /\ rows[i].shown = f[i]
  BY <1>2
<1>8. /\ \A i \in 1..n : ids[i] \in S
      /\ \A x \in S : \E i \in 1..n : ids[i] = x
  BY <1>1, InOrder
<1> QED
  BY <1>3, <1>5, <1>6, <1>7, <1>8

\* The history makes an object for each row.
LEMMA AllRowsTrue ==
    ASSUME NEW S, IsFiniteSet(S), NEW ids \in SetToSeqs(S),
           NEW rows, rows = AllRows(ids), \A h \in S : ctxSt[h] \in FileSt
    PROVE  \A i \in 1..Len(rows) : rows[i].shown \in {0, rows[i].id}
<1>1. PICK n \in Nat : n = Len(ids) /\ \A i \in 1..n : ids[i] \in S
  BY InOrder
<1>2. PICK f : f = [i \in 1..n |-> Fill(ids[i], 0)]
  OBVIOUS
<1>3. \A i \in 1..n : f[i] \in {0, ids[i]}
  BY <1>1, <1>2 DEF Fill, FileSt
<1>4. rows = [i \in 1..n |-> [id |-> ids[i], shown |-> f[i]]]
  BY <1>1, <1>2 DEF AllRows
<1>5. Len(rows) = n
  <2> DEFINE R == {[id |-> ids[i], shown |-> f[i]] : i \in 1..n}
  <2>1. rows \in [1..n -> R]
    BY <1>4
  <2> QED
    BY <2>1, FunctionSeq
<1> QED
  BY <1>3, <1>4, <1>5

LEMMA SelectedFinite ==
    ASSUME TypeOK, NEW pk
    PROVE  /\ SelectCtSend(pk) \subseteq Tx /\ IsFiniteSet(SelectCtSend(pk))
           /\ SelectCt(pk) \subseteq Tx /\ IsFiniteSet(SelectCt(pk))
<1>1. SelectCtSend(pk) \subseteq Tx /\ SelectCt(pk) \subseteq Tx
  BY RowIds DEF SelectCtSend, SelectCt
<1>2. IsFiniteSet(Tx)
  BY FS_Interval, BoundAssumption DEF Tx
<1> QED
  BY <1>1, <1>2, FS_Subset

\* A query leaves the backend as it is and a step of the backend takes the
\* answer away.
LEMMA Answers ==
    ASSUME [QueryNext]_queryVars
    PROVE  \/ UNCHANGED <<vars, answer>>
           \/ answer' = NoAnswer
           \/ /\ UNCHANGED vars /\ pc = "idle"
              /\ \E u \in Users :
                    \/ BackendRequestTrans(u) \/ BackendRequestAllTrans(u)
                    \/ BackendRequestAccts(u)
                    \/ \E pass \in 1..MaxKeys : /\ BackendAccountLogin(u, pass)
                                                /\ answer' # NoAnswer
  BY DEF QueryNext, queryVars, Query, BackendRequestTrans, BackendRequestAllTrans,
         BackendRequestAccts, BackendAccountLogin

-----------------------------------------------------------------------------
(* The properties of the answers. *)

LEMMA NoAnswerFields == NoAnswer.query = "none"
  BY DEF NoAnswer, NewAnswer

\* The reply of a query about the account u.
LEMMA AnswerFields ==
    ASSUME NEW q, NEW u, NEW rows, NEW ok, NEW a, a = NewAnswer(q, u, rows, ok)
    PROVE  a.query = q /\ a.u = u /\ a.rows = rows /\ a.ok = ok
  BY DEF NewAnswer

\* A list of RequestTrans has all the rows its SELECT found, or none because
\* it failed.
LEMMA TransAnswer ==
    ASSUME NEW u, BackendRequestTrans(u)
    PROVE  /\ answer'.query = "trans" /\ answer'.u = u
           /\ \/ \E ids \in SetToSeqs(SelectCtSend(KeyOf(u))) :
                    answer'.rows = TransRows(ids)
              \/ ~answer'.ok /\ answer'.rows = <<>>
<1>1. \/ \E ids \in SetToSeqs(SelectCtSend(KeyOf(u))) :
            answer' = NewAnswer("trans", u, TransRows(ids), TRUE)
      \/ answer' = NewAnswer("trans", u, <<>>, FALSE)
  BY DEF BackendRequestTrans, Rows
<1>2. PICK a : a = answer'
  OBVIOUS
<1>3. CASE a = NewAnswer("trans", u, <<>>, FALSE)
  BY <1>2, <1>3 DEF NewAnswer
<1>4. CASE \E ids \in SetToSeqs(SelectCtSend(KeyOf(u))) :
              a = NewAnswer("trans", u, TransRows(ids), TRUE)
  <2>1. PICK ids \in SetToSeqs(SelectCtSend(KeyOf(u))) :
           a = NewAnswer("trans", u, TransRows(ids), TRUE)
    BY <1>4
  <2>2. PICK rows : rows = TransRows(ids)
    OBVIOUS
  <2> QED
    BY <1>2, <2>1, <2>2 DEF NewAnswer
<1> QED
  BY <1>1, <1>2, <1>3, <1>4

LEMMA AllAnswer ==
    ASSUME NEW u, BackendRequestAllTrans(u)
    PROVE  /\ answer'.query = "all"
           /\ \/ \E ids \in SetToSeqs(SelectCt(KeyOf(u))) :
                    answer'.rows = AllRows(ids)
              \/ answer'.rows = <<>>
<1>1. \/ \E ids \in SetToSeqs(SelectCt(KeyOf(u))) :
            answer' = NewAnswer("all", u, AllRows(ids), TRUE)
      \/ answer' = NewAnswer("all", u, <<>>, FALSE)
  BY DEF BackendRequestAllTrans, Rows
<1>2. PICK a : a = answer'
  OBVIOUS
<1>3. CASE a = NewAnswer("all", u, <<>>, FALSE)
  BY <1>2, <1>3 DEF NewAnswer
<1>4. CASE \E ids \in SetToSeqs(SelectCt(KeyOf(u))) :
              a = NewAnswer("all", u, AllRows(ids), TRUE)
  <2>1. PICK ids \in SetToSeqs(SelectCt(KeyOf(u))) :
           a = NewAnswer("all", u, AllRows(ids), TRUE)
    BY <1>4
  <2>2. PICK rows : rows = AllRows(ids)
    OBVIOUS
  <2> QED
    BY <1>2, <2>1, <2>2 DEF NewAnswer
<1> QED
  BY <1>1, <1>2, <1>3, <1>4

LEMMA OtherAnswers ==
    ASSUME NEW u, NEW pass,
           BackendRequestAccts(u) \/ BackendAccountLogin(u, pass)
    PROVE  answer'.query \in {"acct", "login", "none"}
<1>1. \/ \E ok : \/ answer' = NewAnswer("acct", u, <<>>, ok)
                 \/ answer' = NewAnswer("login", u, <<>>, ok)
      \/ answer' = NoAnswer
  BY DEF BackendRequestAccts, BackendAccountLogin
<1> QED
  BY <1>1, AnswerFields, NoAnswerFields

\* The last answer, after a step, when it is a list: the tables and files are
\* those it was read from.
LEMMA ListAnswer ==
    ASSUME [QueryNext]_queryVars, answer'.query \in {"trans", "all"},
           ~UNCHANGED <<vars, answer>>
    PROVE  /\ UNCHANGED vars /\ pc = "idle"
           /\ \E u \in Users :
                 \/ answer'.query = "trans" /\ BackendRequestTrans(u)
                 \/ answer'.query = "all" /\ BackendRequestAllTrans(u)
  BY Answers, TransAnswer, AllAnswer, OtherAnswers, NoAnswerFields

\* What can still be refreshed is shown as it is, for every order in which
\* the table returns the rows.
THEOREM RefreshableShown == QuerySpec => []RefreshableRowsTrue
<1>1. QueryInit => RefreshableRowsTrue
  BY NoAnswerFields DEF QueryInit, RefreshableRowsTrue
<1>2. BaseInv /\ RefreshableRowsTrue /\ [QueryNext]_queryVars
        => RefreshableRowsTrue'
  <2> SUFFICES ASSUME BaseInv, RefreshableRowsTrue, [QueryNext]_queryVars,
                      answer'.query = "trans"
               PROVE  \A i \in 1..Len(answer'.rows) :
                         ctxSt'[answer'.rows[i].id] = "ok"
                           => answer'.rows[i].shown = answer'.rows[i].id
    BY DEF RefreshableRowsTrue
  <2>1. CASE UNCHANGED <<vars, answer>>
    BY <2>1 DEF vars, files, RefreshableRowsTrue
  <2>2. CASE ~UNCHANGED <<vars, answer>>
    <3>1. PICK u \in Users : UNCHANGED vars /\ BackendRequestTrans(u)
      BY <2>2, ListAnswer
    <3>2. ctxSt' = ctxSt
      BY <3>1 DEF vars, files
    <3>3. PICK S, rows : S = SelectCtSend(KeyOf(u)) /\ rows = answer'.rows
      OBVIOUS
    <3>4. IsFiniteSet(S)
      BY <3>3, SelectedFinite DEF BaseInv
    <3>5. CASE rows = <<>>
      BY <3>3, <3>5
    <3>6. CASE \E ids \in SetToSeqs(S) : rows = TransRows(ids)
      <4>1. \A i \in 1..Len(rows) :
               ctxSt[rows[i].id] = "ok" => rows[i].shown = rows[i].id
        BY <3>4, <3>6, TransRowsTrue
      <4> QED
        BY <3>2, <3>3, <4>1
    <3> QED
      BY <3>1, <3>3, <3>5, <3>6, TransAnswer
  <2> QED
    BY <2>1, <2>2
<1> QED
  BY <1>1, <1>2, QueriesRead, BaseInvariant, PTL DEF QuerySpec

\* No row of a history shows the contents of another transaction.
THEOREM HistoryShown == QuerySpec => []HistoryRowsTrue
<1>1. QueryInit => HistoryRowsTrue
  BY NoAnswerFields DEF QueryInit, HistoryRowsTrue
<1>2. BaseInv /\ HistoryRowsTrue /\ [QueryNext]_queryVars => HistoryRowsTrue'
  <2> SUFFICES ASSUME BaseInv, HistoryRowsTrue, [QueryNext]_queryVars,
                      answer'.query = "all"
               PROVE  \A i \in 1..Len(answer'.rows) :
                         answer'.rows[i].shown \in {0, answer'.rows[i].id}
    BY DEF HistoryRowsTrue
  <2>1. CASE UNCHANGED <<vars, answer>>
    BY <2>1 DEF HistoryRowsTrue
  <2>2. CASE ~UNCHANGED <<vars, answer>>
    <3>1. PICK u \in Users : BackendRequestAllTrans(u)
      BY <2>2, ListAnswer
    <3>2. PICK S, rows : S = SelectCt(KeyOf(u)) /\ rows = answer'.rows
      OBVIOUS
    <3>3. IsFiniteSet(S) /\ S \subseteq Tx /\ \A h \in S : ctxSt[h] \in FileSt
      BY <3>2, SelectedFinite DEF BaseInv, TypeOK
    <3>4. CASE rows = <<>>
      BY <3>2, <3>4
    <3>5. CASE \E ids \in SetToSeqs(S) : rows = AllRows(ids)
      <4>1. \A i \in 1..Len(rows) : rows[i].shown \in {0, rows[i].id}
        BY <3>3, <3>5, AllRowsTrue
      <4> QED
        BY <3>2, <4>1
    <3> QED
      BY <3>1, <3>2, <3>4, <3>5, AllAnswer
  <2> QED
    BY <2>1, <2>2
<1> QED
  BY <1>1, <1>2, QueriesRead, BaseInvariant, PTL DEF QuerySpec

\* Every send that a receiver could refresh is in its list, and a row that
\* cannot be refreshed any more has left a cheque.
THEOREM ListComplete == QuerySpec => []RefreshableListed
<1>1. QueryInit => RefreshableListed
  BY NoAnswerFields DEF QueryInit, RefreshableListed
<1>2. /\ BaseInv /\ ReadInv /\ RefreshableListed /\ [QueryNext]_queryVars
      => RefreshableListed'
  <2> SUFFICES ASSUME BaseInv, ReadInv, RefreshableListed,
                      [QueryNext]_queryVars
               PROVE  RefreshableListed'
    OBVIOUS
  <2>1. CASE UNCHANGED <<vars, answer>>
    BY <2>1 DEF vars, files, counters, history, RefreshableListed, KeyOf, Readable
  <2>2. CASE /\ ~UNCHANGED <<vars, answer>>
             /\ answer'.query = "trans" /\ answer'.ok
    <3>1. PICK u \in Users :
             UNCHANGED vars /\ BackendRequestTrans(u) /\ pc = "idle"
      BY <2>2, ListAnswer
    <3>2. /\ UNCHANGED <<ctxSt, ctx, ctRows, origin, crashes>>
          /\ KeyOf(u)' = KeyOf(u)
      BY <3>1 DEF vars, files, tables, history, counters, KeyOf, Readable
    <3>3. PICK S, rows, pk : /\ pk = KeyOf(u) /\ S = SelectCtSend(pk)
                             /\ rows = answer'.rows
      OBVIOUS
    <3>4. IsFiniteSet(S)
      BY <3>3, SelectedFinite DEF BaseInv
    <3>5. PICK ids \in SetToSeqs(S) : rows = TransRows(ids)
      BY <2>2, <3>1, <3>3, TransAnswer
    <3>6. /\ \A i \in 1..Len(rows) : rows[i].id \in S
          /\ \A x \in S : \E i \in 1..Len(rows) : rows[i].id = x
      BY <3>4, <3>5, TransRowsTrue
    <3>7. \A h \in Tx :
             /\ ctxSt[h] = "ok" /\ ctx[h].type = "send"
             /\ ctx[h].transfer.pk = pk /\ Steady
             => h \in S
      BY <3>1, <3>3 DEF ReadInv, FilesListed, SelectCtSend
    <3>8. \A h \in S : ctxSt[h] = "ok" \/ \E c \in Tx : origin[c] = h
      BY <3>3 DEF BaseInv, FileInv, RowsBacked, SelectCtSend
    <3>9. answer'.u = u
      BY <3>1, TransAnswer
    <3>10. \A h \in Tx :
              /\ ctxSt'[h] = "ok" /\ ctx'[h].type = "send"
              /\ ctx'[h].transfer.pk = KeyOf(u)'
              /\ crashes' = 0 /\ ~SqlFails
              => \E i \in 1..Len(answer'.rows) : answer'.rows[i].id = h
      BY <3>2, <3>3, <3>6, <3>7 DEF Steady
    <3>11. \A i \in 1..Len(answer'.rows) :
              ctxSt'[answer'.rows[i].id] = "ok"
                \/ \E c \in Tx : origin'[c] = answer'.rows[i].id
      BY <3>2, <3>3, <3>6, <3>8
    <3> QED
      BY <3>9, <3>10, <3>11 DEF RefreshableListed, KeyOf, Readable
  <2> QED
    BY <2>1, <2>2 DEF RefreshableListed
<1> QED
  BY <1>1, <1>2, QueriesRead, BaseInvariant, ReadInvariant, PTL DEF QuerySpec

\* An accepted login finds an account file, and before the first crash a
\* complete one.
THEOREM LoginSound == QuerySpec => []LoginFindsAccount
<1>1. QueryInit => LoginFindsAccount
  BY NoAnswerFields DEF QueryInit, LoginFindsAccount
<1>2. /\ BaseInv /\ ReadInv /\ LoginFindsAccount /\ [QueryNext]_queryVars
      => LoginFindsAccount'
  <2> SUFFICES ASSUME BaseInv, ReadInv, LoginFindsAccount,
                      [QueryNext]_queryVars
               PROVE  LoginFindsAccount'
    OBVIOUS
  <2>1. CASE UNCHANGED <<vars, answer>>
    BY <2>1 DEF vars, files, counters, LoginFindsAccount
  <2>2. CASE /\ ~UNCHANGED <<vars, answer>>
             /\ answer'.query = "login" /\ answer'.ok
    <3>1. PICK u \in Users, pass \in 1..MaxKeys :
             /\ UNCHANGED vars /\ pc = "idle" /\ BackendAccountLogin(u, pass)
             /\ answer' # NoAnswer
      <4>1. \A u : BackendRequestAccts(u) => answer'.query = "acct"
        BY DEF BackendRequestAccts, NewAnswer
      <4> QED
        BY <2>2, <4>1, Answers, TransAnswer, AllAnswer, NoAnswerFields
    <3>2. \/ \E k \in acctRows : /\ k[1] = u
                                 /\ answer' = NewAnswer("login", u, <<>>, k[2] = pass)
          \/ answer' = NewAnswer("login", u, <<>>, FALSE)
      BY <3>1 DEF BackendAccountLogin
    <3>3. answer'.u = u /\ \E k \in acctRows : k[1] = u
      <4>1. answer' # NewAnswer("login", u, <<>>, FALSE)
        BY <2>2 DEF NewAnswer
      <4> QED
        BY <3>2, <4>1 DEF NewAnswer
    <3>4. /\ acctSt[u] # "none" /\ acctSt[u] \in FileSt
          /\ crashes = 0 => acctSt[u] # "torn"
      BY <3>1, <3>3 DEF ReadInv, RowsHaveFiles, BaseInv, TypeOK
    <3>5. acctSt' = acctSt /\ crashes' = crashes
      BY <3>1 DEF vars, files, counters
    <3> QED
      BY <3>3, <3>4, <3>5 DEF LoginFindsAccount, FileSt
  <2> QED
    BY <2>1, <2>2 DEF LoginFindsAccount
<1> QED
  BY <1>1, <1>2, QueriesRead, BaseInvariant, ReadInvariant, PTL DEF QuerySpec

=============================================================================
