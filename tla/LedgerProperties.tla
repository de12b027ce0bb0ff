-------------------------- MODULE LedgerProperties --------------------------
(***************************************************************************)
(* What the backend keeps over all its files: the sum of the coins, the    *)
(* agreement of accounts and recorded transactions, and the abstract       *)
(* ledger it implements as long as the server does not die in a handler.   *)
(***************************************************************************)
EXTENDS LedgerBackend, FiniteSetsExt

Calm == crashes = 0 /\ ~RemoveFails

AmountIn(u) == acct[u].pt + acct[u].v

\* Sends whose receiver has not been credited: the .ctx file is there, or is
\* about to be written, or a cheque was made of it.
InFlight == IF job.op = "send" /\ pc \in {"ctx_open", "ctx_write"}
            THEN {job.id} ELSE {}
Sent == {h \in Tx : ctxSt[h] = "ok" /\ ctx[h].type = "send"}
Refreshed == {origin[c] : c \in {d \in Tx : /\ chequeSt[d] = "ok"
                                            /\ credited[d] = 0}} \ {0}
Pending == InFlight \cup Sent \cup Refreshed
Transfer(h) == IF h \in InFlight THEN job.ctx.transfer ELSE ctx[h].transfer

\* Every coin issued to an account that still exists is in a public or an
\* encrypted balance or in exactly one transfer: no order of mint, redeem,
\* send, refresh and deposit, at any step of a handler, makes or loses one.
Conservation ==
    Calm => MapThenSumSet(AmountIn, Users)
              + MapThenSumSet(LAMBDA h : Transfer(h).v, Pending) = supply

\* Between two requests the recorded transactions of every account are
\* numbered 2 .. sn without a gap (a refreshed send has left its number to
\* its row), and the last one recorded shows the account's ciphertext.
Numbers(pk) == {row.sn : row \in {r \in ctRows : r.sender = pk /\ r.sn > 0}}

AccountsRecorded ==
    Calm /\ ~SqlFails /\ pc = "idle" =>
        \A u \in Users :
            acctSt[u] = "ok" =>
                /\ acct[u].pk \in acctRows
                /\ Numbers(acct[u].pk) = 2..acct[u].sn
                /\ \A row \in ctRows :
                      row.sender = acct[u].pk /\ row.sn = acct[u].sn
                      => ctx[row.id].rest = acct[u].C

-----------------------------------------------------------------------------
\* The abstract ledger under the refinement mapping.
AbstractAccount(u) ==
    [key |-> acct[u].pk[2], public |-> acct[u].pt, hidden |-> acct[u].v]

L == INSTANCE Ledger WITH
        Keys <- (Users \cup {Nobody}) \X (0..MaxKeys), Ids <- Tx,
        accounts <- [u \in Users |-> AbstractAccount(u)],
        pending <- {[id |-> h, to |-> Transfer(h).pk, amount |-> Transfer(h).v]
                        : h \in Pending}

\* Without crashes every step of every handler is one transaction of the
\* abstract ledger or changes nothing in it.
ImplementsLedger == L!Spec

=============================================================================
