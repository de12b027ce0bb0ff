---------------------------- MODULE LedgerBackend ----------------------------
(***************************************************************************)
(* The HTTP backend of LedgerMaze (backend/backend.hpp): one event loop    *)
(* that runs one handler at a time, account, transaction and cheque files, *)
(* and the two SQL tables.                                                 *)
(*                                                                         *)
(* A handler reads its files, computes and verifies in one step (nothing   *)
(* else runs meanwhile), then performs its writes one by one: only a crash *)
(* of the process can separate them.  Opening a file for writing empties   *)
(* it; its bytes reach it when it is closed.                               *)
(***************************************************************************)
EXTENDS LedgerMazeTx, Integers

CONSTANTS MaxInit,     \* bn_10000: the largest initial public balance
          Amounts,     \* amounts the clients enter
          MaxKeys,     \* bound: key pairs generated
          MaxCrashes,  \* bound: crashes of the server process
          SqlFails,    \* whether an INSERT may fail (its result is ignored)
          RemoveFails  \* whether remove() of a file may fail (only printed)

ASSUME BackendAssumption ==
    /\ MaxInit \in Nat /\ Amounts \subseteq Nat
    /\ MaxKeys \in Nat /\ MaxCrashes \in Nat
    /\ SqlFails \in BOOLEAN /\ RemoveFails \in BOOLEAN

VARIABLES
    acctSt, acct,      \* account files: state and last complete contents
    ctxSt, ctx,        \* <hash>.ctx files
    chequeSt, cheque,  \* <hash>.cheque files
    acctRows,          \* table account: keys of the rows
    ctRows,            \* table confidential_transaction
    pc, job,           \* the running handler: next write, and its local data
    known,             \* cheque hashes each client received in a reply
    nextTx, nextKey, crashes,
    origin,            \* history: the send transaction a cheque came from
    credited,          \* history: how often a cheque was credited
    supply             \* history: coins issued to the accounts that exist

files == <<acctSt, acct, ctxSt, ctx, chequeSt, cheque>>
tables == <<acctRows, ctRows>>
counters == <<nextTx, nextKey, crashes>>
history == <<origin, credited, supply>>
vars == <<files, tables, pc, job, known, counters, history>>

FileSt == {"none", "torn", "ok"}
Ops == {"none", "create", "mint", "redeem", "send", "refresh", "deposit"}
PCs == {"idle", "down", "acct_open", "acct_write", "acct_row",
        "cheque_open", "cheque_write", "ctx_remove",
        "ctx_open", "ctx_write", "ct_row", "cheque_remove", "reply"}

NoAccount == CreateAccount(NoKey, 0)
NoCheque == RefreshedCheque(NoAccount, 0, 0)
NoCtx == NewCtx("mint", 0, NoKey)

\* What a handler keeps between its steps: the account it changes and its
\* new contents, the file it was asked about (h), the hash it names its new
\* files by (id), their contents, and what it answers (ok).
Job == [op : Ops, u : Users \cup {Nobody}, h : 0..MaxTx, id : 0..MaxTx,
        acct : Account, ctx : Ctx, cheque : Cheque, ok : BOOLEAN,
        done : BOOLEAN]
NewJob(op, u, h, id, a, t, c, ok) ==
    [op |-> op, u |-> u, h |-> h, id |-> id, acct |-> a, ctx |-> t,
     cheque |-> c, ok |-> ok, done |-> FALSE]
NoJob == NewJob("none", Nobody, 0, 0, NoAccount, NoCtx, NoCheque, FALSE)

CtRow == [sn : Nat, type : TxType, id : Tx, receiver : Key, sender : Key]

\* The handlers' own data stay within their types: no refused or accepted
\* amount leaves an account with a negative balance, and a handler that is
\* about to write knows the account and the file it writes.
TypeOK ==
    /\ acctSt \in [Users -> FileSt] /\ acct \in [Users -> Account]
    /\ ctxSt \in [Tx -> FileSt] /\ ctx \in [Tx -> Ctx]
    /\ chequeSt \in [Tx -> FileSt] /\ cheque \in [Tx -> Cheque]
    /\ acctRows \subseteq Key /\ ctRows \subseteq CtRow
    /\ pc \in PCs /\ job \in Job
    /\ known \in [Users -> SUBSET Tx]
    /\ nextTx \in Nat \ {0} /\ nextKey \in Nat /\ crashes \in Nat
    /\ origin \in [Tx -> 0..MaxTx] /\ credited \in [Tx -> Nat]
    /\ supply \in Int
    /\ pc \notin {"idle", "down"} => job.u \in Users
    /\ pc \in {"cheque_open", "cheque_write", "ctx_remove", "ctx_open",
              "ctx_write", "ct_row", "cheque_remove"} => job.id \in Tx
    /\ job.op = "refresh" /\ job.ok => job.id \in Tx
    /\ pc \in {"acct_open", "acct_write"} /\ job.op # "create" => job.id \in Tx

Init ==
    /\ acctSt = [u \in Users |-> "none"] /\ acct = [u \in Users |-> NoAccount]
    /\ ctxSt = [t \in Tx |-> "none"] /\ ctx = [t \in Tx |-> NoCtx]
    /\ chequeSt = [t \in Tx |-> "none"] /\ cheque = [t \in Tx |-> NoCheque]
    /\ acctRows = {} /\ ctRows = {}
    /\ pc = "idle" /\ job = NoJob
    /\ known = [u \in Users |-> {}]
    /\ nextTx = 1 /\ nextKey = 1 /\ crashes = 0
    /\ origin = [t \in Tx |-> 0] /\ credited = [t \in Tx |-> 0]
    /\ supply = 0

-----------------------------------------------------------------------------
(* The handlers: what they read, compute and verify, up to the first write. *)

\* The handler goes on at label l with its local data j.
Start(l, j) == pc' = l /\ job' = j

\* The handler writes nothing and answers; ok says whether with success.
Refuse(op, u, ok) ==
    /\ Start("reply", NewJob(op, u, 0, 0, NoAccount, NoCtx, NoCheque, ok))
    /\ UNCHANGED <<files, tables, known, counters, history>>

\* A handler that changes account u and records transaction t for it.
Transact(op, u, h, a, t) ==
    /\ nextTx <= MaxTx
    /\ Start("acct_open", NewJob(op, u, h, nextTx, a, t, NoCheque, TRUE))
    /\ nextTx' = nextTx + 1
    /\ UNCHANGED <<files, tables, known, nextKey, crashes, history>>

\* An account file that can be read.  Of any other the handler gets what its
\* memory held: taken to be an opening that does not fit the ciphertext, so
\* that the request is refused.  What else it may hold (zeroes) is left out.
Readable(u) == acctSt[u] = "ok"

\* The key a handler reads for the receiver of a cheque.
KeyOf(u) == IF Readable(u) THEN acct[u].pk ELSE NoKey

BackendCreateAccount(u, x) ==
    /\ pc = "idle"
    /\ \/ /\ x > MaxInit
          /\ Refuse("create", u, FALSE)
       \/ /\ x <= MaxInit /\ nextKey <= MaxKeys
          /\ Start("acct_open",
                   NewJob("create", u, 0, 0, CreateAccount(<<u, nextKey>>, x),
                          NoCtx, NoCheque, TRUE))
          /\ nextKey' = nextKey + 1
          /\ UNCHANGED <<files, tables, known, nextTx, crashes, history>>

\* V_mint, V_redeem and V_send have no initial value: when the amount is
\* refused the reply is chosen by whatever they hold.
BackendMint(u, x) ==
    /\ pc = "idle"
    /\ \/ /\ ~Readable(u) \/ ~MintGuard(acct[u], x)
          /\ \E ok \in BOOLEAN : Refuse("mint", u, ok)
       \/ /\ Readable(u) /\ MintGuard(acct[u], x)
          /\ LET t == MintCtx(acct[u], x, nextTx)
             IN IF VerifyMint(acct[u], t)
                THEN Transact("mint", u, 0, MintAccount(acct[u], x, nextTx), t)
                ELSE Refuse("mint", u, FALSE)

BackendRedeem(u, x) ==
    /\ pc = "idle"
    /\ \/ /\ ~Readable(u) \/ ~RedeemGuard(acct[u], x)
          /\ \E ok \in BOOLEAN : Refuse("redeem", u, ok)
       \/ /\ Readable(u) /\ RedeemGuard(acct[u], x)
          /\ LET t == RedeemCtx(acct[u], x, nextTx)
             IN IF VerifyRedeem(acct[u], t)
                THEN Transact("redeem", u, 0, RedeemAccount(acct[u], x, nextTx), t)
                ELSE Refuse("redeem", u, FALSE)

\* The receiver's account file is read without a test that it exists.
BackendSendCheque(u, w, x) ==
    /\ pc = "idle"
    /\ \/ /\ ~Readable(u) \/ ~SendGuard(acct[u], x)
          /\ \E ok \in BOOLEAN : Refuse("send", u, ok)
       \/ /\ Readable(u) /\ SendGuard(acct[u], x)
          /\ LET t == SendCtx(acct[u], KeyOf(w), x, nextTx)
             IN IF VerifySend(t)
                THEN Transact("send", u, 0, SendAccount(acct[u], x, nextTx), t)
                ELSE Refuse("send", u, FALSE)

\* A client refreshes a transaction its list has shown: a row of type send
\* for a key it has or had.  The list may be stale.  When the .ctx file is
\* gone or empty, aux decodes to nothing or to amount 0 and randomness 0.
Listed(u, h) ==
    \E row \in ctRows : /\ row.id = h /\ row.type = "send"
                        /\ row.receiver[1] = u

\* Mutant: the cheque is made out for twice the amount.
StartRefreshDoubled(u, h, src, v, r) ==
    /\ nextTx <= MaxTx
    /\ Start("cheque_open",
             NewJob("refresh", u, h, nextTx, NoAccount,
                    RefreshCtx(acct[u], v, r, nextTx),
                    RefreshedCheque(acct[u], v + v, nextTx), TRUE))
    /\ nextTx' = nextTx + 1
    /\ origin' = [origin EXCEPT ![nextTx] = src]
    /\ UNCHANGED <<files, tables, known, nextKey, crashes, credited, supply>>

\* From here on a refresh cannot refuse: src is the send it refreshes, if any.
StartRefresh(u, h, src, v, r) ==
    /\ nextTx <= MaxTx
    /\ Start("cheque_open",
             NewJob("refresh", u, h, nextTx, NoAccount,
                    RefreshCtx(acct[u], v, r, nextTx),
                    RefreshedCheque(acct[u], v, nextTx), TRUE))
    /\ nextTx' = nextTx + 1
    /\ origin' = [origin EXCEPT ![nextTx] = src]
    /\ UNCHANGED <<files, tables, known, nextKey, crashes, credited, supply>>

\* A refresh can always be refused: whether the proofs of a good one verify
\* depends on the randomness drawn (LedgerMaze_BIGNUMtoScalar in TxProofs).
BackendRefreshCheque(u, h) ==
    /\ pc = "idle" /\ Listed(u, h)
    /\ \/ /\ Readable(u) /\ ctxSt[h] = "ok" /\ VerifyRefresh(acct[u], ctx[h])
          /\ StartRefresh(u, h, h, ctx[h].aux.v, ctx[h].aux.r)
       \/ /\ Readable(u) /\ ctxSt[h] # "ok"
          /\ StartRefresh(u, h, 0, 0, 0)
       \/ Refuse("refresh", u, FALSE)

\* A missing .cheque file is read as garbage (nothing verifies) or as zeroes.
BackendDepositCheque(u, h) ==
    /\ pc = "idle" /\ h \in known[u]
    /\ LET a == acct[u]
           zero == RefreshedCheque(a, 0, 0)
       IN \/ /\ Readable(u) /\ chequeSt[h] = "ok" /\ VerifyDeposit(a, cheque[h])
             /\ Transact("deposit", u, h, DepositAccount(a, cheque[h], nextTx),
                         DepositCtx(a, cheque[h], nextTx))
          \/ /\ Readable(u) /\ chequeSt[h] # "ok"
             /\ Transact("deposit", u, h, DepositAccount(a, zero, nextTx),
                         DepositCtx(a, zero, nextTx))
          \/ /\ ~(/\ Readable(u) /\ chequeSt[h] = "ok"
                  /\ VerifyDeposit(a, cheque[h]))
             /\ Refuse("deposit", u, FALSE)

-----------------------------------------------------------------------------
(* The writes, in the order the handlers make them. *)

\* LedgerMaze_Account_serialize: open empties the file, close fills it.
OpenAccount ==
    /\ pc = "acct_open"
    /\ acctSt' = [acctSt EXCEPT ![job.u] = "torn"]
    /\ pc' = "acct_write"
    /\ UNCHANGED <<acct, ctxSt, ctx, chequeSt, cheque, tables, job, known,
                   counters, history>>

AfterAccountUnrecorded ==   \* mutant: the transaction is not recorded
    IF job.op = "create" THEN "acct_row" ELSE "reply"
AfterAccount == IF job.op = "create" THEN "acct_row" ELSE "ctx_open"

WriteAccount ==
    /\ pc = "acct_write"
    /\ acctSt' = [acctSt EXCEPT ![job.u] = "ok"]
    /\ acct' = [acct EXCEPT ![job.u] = job.acct]
    /\ pc' = AfterAccount
    /\ job' = [job EXCEPT !.done = TRUE]
    /\ credited' = IF job.op = "deposit" /\ chequeSt[job.h] = "ok"
                   THEN [credited EXCEPT ![job.h] = @ + 1] ELSE credited
    /\ supply' = IF job.op = "create"
                 THEN (supply + job.acct.pt)
                      - (acct[job.u].pt + acct[job.u].v)
                 ELSE supply
    /\ UNCHANGED <<ctxSt, ctx, chequeSt, cheque, tables, known, counters, origin>>

InsertAccountRow ==
    /\ pc = "acct_row"
    /\ \/ acctRows' = acctRows \cup {job.acct.pk}
       \/ SqlFails /\ UNCHANGED acctRows
    /\ pc' = "reply"
    /\ UNCHANGED <<files, ctRows, job, known, counters, history>>

\* LedgerMaze_cheque_serialize.  Mutant: the bytes are never written.
OpenChequeOnly ==
    /\ pc = "cheque_open"
    /\ chequeSt' = [chequeSt EXCEPT ![job.id] = "torn"]
    /\ pc' = "ctx_remove"
    /\ UNCHANGED <<acctSt, acct, ctxSt, ctx, cheque, tables, job, known,
                   counters, history>>

OpenCheque ==
    /\ pc = "cheque_open"
    /\ chequeSt' = [chequeSt EXCEPT ![job.id] = "torn"]
    /\ pc' = "cheque_write"
    /\ UNCHANGED <<acctSt, acct, ctxSt, ctx, cheque, tables, job, known,
                   counters, history>>

WriteCheque ==
    /\ pc = "cheque_write"
    /\ chequeSt' = [chequeSt EXCEPT ![job.id] = "ok"]
    /\ cheque' = [cheque EXCEPT ![job.id] = job.cheque]
    /\ pc' = "ctx_remove"
    /\ UNCHANGED <<acctSt, acct, ctxSt, ctx, tables, job, known, counters, history>>

RemoveCtxForgotten ==   \* mutant: the refreshed .ctx file stays
    /\ pc = "ctx_remove" /\ pc' = "ctx_open"
    /\ UNCHANGED <<files, tables, job, known, counters, history>>

\* The refreshed .ctx file goes; a failure is printed and the handler goes on.
RemoveCtx ==
    /\ pc = "ctx_remove"
    /\ \/ ctxSt' = [ctxSt EXCEPT ![job.h] = "none"]
       \/ RemoveFails /\ UNCHANGED ctxSt
    /\ pc' = "ctx_open"
    /\ UNCHANGED <<acctSt, acct, ctx, chequeSt, cheque, tables, job, known,
                   counters, history>>

\* LedgerMaze_CT_serialize.
OpenCtx ==
    /\ pc = "ctx_open"
    /\ ctxSt' = [ctxSt EXCEPT ![job.id] = "torn"]
    /\ pc' = "ctx_write"
    /\ UNCHANGED <<acctSt, acct, ctx, chequeSt, cheque, tables, job, known,
                   counters, history>>

WriteCtx ==
    /\ pc = "ctx_write"
    /\ ctxSt' = [ctxSt EXCEPT ![job.id] = "ok"]
    /\ ctx' = [ctx EXCEPT ![job.id] = job.ctx]
    /\ pc' = "ct_row"
    /\ job' = [job EXCEPT !.done = TRUE]
    /\ UNCHANGED <<acctSt, acct, chequeSt, cheque, tables, known, counters, history>>

\* SQL_insert_CT: only a send names its receiver.
AfterRow == IF job.op = "deposit" THEN "cheque_remove" ELSE "reply"

InsertCtRow ==
    /\ pc = "ct_row"
    /\ \/ ctRows' = ctRows \cup
              {[sn |-> job.ctx.sn, type |-> job.ctx.type, id |-> job.id,
                receiver |-> IF job.ctx.type = "send"
                             THEN job.ctx.transfer.pk ELSE NoKey,
                sender |-> job.ctx.pk1]}
       \/ SqlFails /\ UNCHANGED ctRows
    /\ pc' = AfterRow
    /\ UNCHANGED <<files, acctRows, job, known, counters, history>>

RemoveChequeForgotten ==   \* mutant: the deposited cheque stays
    /\ pc = "cheque_remove" /\ pc' = "reply"
    /\ UNCHANGED <<files, tables, job, known, counters, history>>

RemoveCheque ==
    /\ pc = "cheque_remove"
    /\ \/ chequeSt' = [chequeSt EXCEPT ![job.h] = "none"]
       \/ RemoveFails /\ UNCHANGED chequeSt
    /\ pc' = "reply"
    /\ UNCHANGED <<acctSt, acct, ctxSt, ctx, cheque, tables, job, known,
                   counters, history>>

\* evhttp_send_reply.  A refresh answers with the cheque's hash.  The client
\* may be gone (it closed the page, or the 5 second timeout closed it).
Reply ==
    /\ pc = "reply"
    /\ pc' = "idle" /\ job' = NoJob
    /\ \/ /\ job.op = "refresh" /\ job.ok
          /\ known' = [known EXCEPT ![job.u] = @ \cup {job.id}]
       \/ UNCHANGED known
    /\ UNCHANGED <<files, tables, counters, history>>

\* The process dies and everything it held in memory is gone.
Crash ==
    /\ pc # "down" /\ crashes < MaxCrashes
    /\ pc' = "down" /\ job' = NoJob /\ crashes' = crashes + 1
    /\ UNCHANGED <<files, tables, known, nextTx, nextKey, history>>

Restart ==
    /\ pc = "down"
    /\ pc' = "idle"
    /\ UNCHANGED <<files, tables, job, known, counters, history>>

-----------------------------------------------------------------------------
Handle ==
    \E u \in Users :
        \/ \E x \in Amounts : \/ BackendCreateAccount(u, x)
                              \/ BackendMint(u, x) \/ BackendRedeem(u, x)
                              \/ \E w \in Users : BackendSendCheque(u, w, x)
        \/ \E h \in Tx : BackendRefreshCheque(u, h) \/ BackendDepositCheque(u, h)

Continue ==
    \/ OpenAccount \/ WriteAccount \/ InsertAccountRow
    \/ OpenCheque \/ WriteCheque \/ RemoveCtx
    \/ OpenCtx \/ WriteCtx \/ InsertCtRow \/ RemoveCheque \/ Reply

Next == Handle \/ Continue \/ Crash \/ Restart

Spec == Init /\ [][Next]_vars

\* The event loop runs a handler to its end; nothing makes a client act.
FairSpec == Spec /\ WF_vars(Continue)

-----------------------------------------------------------------------------
(* Safety. *)

Clients(c) == {u \in Users : c \in known[u]}

\* RefreshCheque removes the .ctx file before it answers (backend.hpp:825),
\* so one send transaction yields at most one cheque that a client can
\* deposit, whatever crashes, stale lists or repeated requests come between.
KnownChequeUnique ==
    ~RemoveFails =>
        \A c, d \in Tx :
            /\ Clients(c) # {} /\ Clients(d) # {}
            /\ origin[c] = origin[d] /\ origin[c] # 0
            => c = d

\* The account file is written before the .ctx file (382/392, 664/671): no
\* two recorded transactions of one key carry the same sequence number, even
\* when the server died between the two writes and the client tried again.
SnUnique ==
    \A s, t \in Tx :
        /\ ctxSt[s] = "ok" /\ ctxSt[t] = "ok"
        /\ ctx[s].type # "refresh" /\ ctx[t].type # "refresh"
        /\ ctx[s].pk1 = ctx[t].pk1 /\ ctx[s].sn = ctx[t].sn
        => s = t

\* The table follows the files: a row's .ctx file is complete, or it was a
\* send whose cheque was written before the file was removed (816/825), so
\* that the coins sent are in a cheque file or have been credited.
RowsBacked ==
    \A row \in ctRows :
        /\ ctx[row.id].type = row.type /\ ctx[row.id].sn = row.sn
        /\ \/ ctxSt[row.id] = "ok"
           \/ /\ ctxSt[row.id] = "none" /\ row.type = "send"
              /\ \E c \in Tx : /\ origin[c] = row.id
                               /\ chequeSt[c] = "ok" \/ credited[c] > 0

\* Deposit writes the account (933) and only then removes the cheque (949):
\* a crash in between leaves a cheque that can be deposited again.  One
\* cheque is credited at most once more than the server has crashed.
CreditsBounded ==
    ~RemoveFails => \A c \in Tx : credited[c] <= 1 + crashes

\* A crash may lose coins or credit a cheque again, but an account file that
\* can be read always opens its own ciphertext, and lies in the range that
\* the next transaction's proof can show.
AccountsOpen ==
    \A u \in Users :
        acctSt[u] = "ok" =>
            acct[u].C = Enc(acct[u].pk, acct[u].v, acct[u].r)
                /\ acct[u].v < MaxCoin

\* Coins come into an encrypted balance, other than by mint, only in the
\* amount and under the key of a send that its sender's file has paid for.
CreditPaid(u) ==
    LET paid == acct'[u].v - acct[u].v
    IN \E c, h \in Tx :
          /\ credited'[c] = credited[c] + 1 /\ origin[c] = h
          /\ ctx[h].type = "send" /\ ctx[h].transfer.pk = acct[u].pk
          /\ ctx[h].transfer.v = paid
          /\ \A d \in Tx \ {c} : credited'[d] = credited[d]

CreditsPaid ==
    [][\A u \in Users :
          (acct'[u].pk = acct[u].pk /\ acct'[u].pt = acct[u].pt
              /\ acct'[u].v > acct[u].v) => CreditPaid(u)]_vars

\* A refused request changes nothing: what a handler's answer calls a success
\* was written.  (A comment, backend.hpp:419, says the reply is false after
\* "mint value error".)
SuccessTruthful == pc = "reply" /\ job.ok => job.done

-----------------------------------------------------------------------------
(* Liveness. *)

\* A transaction whose account file is being written ends up recorded in
\* the table and the loop is free again, unless the server dies.
Recorded ==
    \A t \in Tx :
        (pc = "acct_write" /\ job.id = t) ~>
            \/ pc = "idle" /\ \E row \in ctRows : row.id = t
            \/ pc = "down"

=============================================================================
