---------------------------- MODULE BackendQueries ----------------------------
(***************************************************************************)
(* The requests that only read (backend.hpp: AccountLogin, RequestTrans,    *)
(* RequestAllTrans, RequestAccts) over the files and tables of the backend. *)
(*                                                                         *)
(* A list is read from the table and its rows are filled from the .ctx     *)
(* files: the two do not agree once a transaction was refreshed.  A row is *)
(* shown by the hash of the transaction whose contents fill it; 0 stands   *)
(* for an object that no file was read into.                               *)
(***************************************************************************)
EXTENDS LedgerBackend, SequencesExt

CONSTANT SelectFails   \* whether a SELECT may fail

VARIABLE answer      \* the last reply of a query, until the next step

queryVars == <<vars, answer>>

NewAnswer(q, u, rows, ok) == [query |-> q, u |-> u, rows |-> rows, ok |-> ok]
NoAnswer == NewAnswer("none", Nobody, <<>>, FALSE)

-----------------------------------------------------------------------------
(* The two SELECTs on transactions.  SQL leaves the order of rows open. *)

\* Mutant: the rows of what the account sent.
SelectCtSendSender(pk) == {row.id : row \in {r \in ctRows : /\ r.type = "send"
                                                            /\ r.sender = pk}}

SelectCtSend(pk) == {row.id : row \in {r \in ctRows : /\ r.type = "send"
                                                      /\ r.receiver = pk}}

SelectCt(pk) ==
    {row.id : row \in {r \in ctRows : \/ r.sender = pk
                                      \/ r.type = "send" /\ r.receiver = pk}}

\* LedgerMaze_CT_deserialize into an object that shows "before": a missing
\* file leaves it alone, an empty one fills it with whatever the stack holds.
FillNever(h, before) ==   \* mutant: only a new object is filled
    IF before # 0 THEN before ELSE IF ctxSt[h] = "ok" THEN h ELSE 0
Fill(h, before) ==
    CASE ctxSt[h] = "none" -> before
      [] ctxSt[h] = "torn" -> 0
      [] ctxSt[h] = "ok"   -> h

\* RequestTrans fills one object again and again.
TransRows(ids) ==
    LET shown[i \in 0..Len(ids)] ==
            IF i = 0 THEN 0 ELSE Fill(ids[i], shown[i - 1])
    IN [i \in 1..Len(ids) |-> [id |-> ids[i], shown |-> shown[i]]]

\* RequestAllTrans makes a new object for each row; for the last row it uses
\* the one made before the loop.
AllRowsReused(ids) == TransRows(ids)   \* mutant: one object for all rows
AllRows(ids) ==
    [i \in 1..Len(ids) |-> [id |-> ids[i], shown |-> Fill(ids[i], 0)]]

\* A reply with the rows ids.  A SELECT that fails leaves the count at 0.
Rows(q, u, S, Fn(_)) ==
    \/ \E ids \in SetToSeqs(S) :
          answer' = NewAnswer(q, u, Fn(ids), TRUE)
    \/ SelectFails /\ answer' = NewAnswer(q, u, <<>>, FALSE)

BackendRequestTrans(u) ==
    /\ pc = "idle" /\ UNCHANGED vars
    /\ Rows("trans", u, SelectCtSend(KeyOf(u)), TransRows)

BackendRequestAllTrans(u) ==
    /\ pc = "idle" /\ UNCHANGED vars
    /\ Rows("all", u, SelectCt(KeyOf(u)), AllRows)

\* SQL_ifacctexsit_byid: any result set, an empty one too, counts as a user.
\* Only a SELECT that fails is answered "there is no user".
AcctExists(u) == TRUE

BackendRequestAccts(u) ==
    /\ pc = "idle" /\ UNCHANGED vars
    /\ \/ answer' = NewAnswer("acct", u, <<>>, AcctExists(u))
       \/ SelectFails /\ answer' = NewAnswer("acct", u, <<>>, FALSE)

\* SQL_select_acct compares the password with the first row of the id, and
\* an id may have several; every account is registered with a password of
\* its own, the number of its key.  A result without rows is dereferenced
\* (sqlpaser.hpp:142), which is the end of the process.
BackendAccountLoginNoRow(u, pass) ==   \* mutant: no row, no objection
    /\ pc = "idle" /\ UNCHANGED vars
    /\ LET rows == {k \in acctRows : k[1] = u}
       IN answer' = NewAnswer("login", u, <<>>, \A k \in rows : k[2] = pass)

BackendAccountLogin(u, pass) ==
    /\ pc = "idle"
    /\ LET rows == {k \in acctRows : k[1] = u}
       IN \/ /\ \E k \in rows : answer' = NewAnswer("login", u, <<>>, k[2] = pass)
             /\ UNCHANGED vars
          \/ /\ SelectFails /\ answer' = NewAnswer("login", u, <<>>, FALSE)
             /\ UNCHANGED vars
          \/ /\ rows = {}
             /\ Crash /\ answer' = NoAnswer

QueryInit == Init /\ answer = NoAnswer

Query ==
    \E u \in Users :
        \/ BackendRequestTrans(u) \/ BackendRequestAllTrans(u)
        \/ BackendRequestAccts(u)
        \/ \E pass \in 1..MaxKeys : BackendAccountLogin(u, pass)

QueryNext == \/ Next /\ answer' = NoAnswer
             \/ Query

QuerySpec == QueryInit /\ [][QueryNext]_queryVars

-----------------------------------------------------------------------------
(* Safety.  An answer is judged in the state it was given in: a step of the *)
(* backend takes it away.                                                   *)

\* What can still be refreshed is shown as it is: a row of RequestTrans whose
\* .ctx file is complete shows its own contents, although earlier rows whose
\* file is gone (refreshed sends stay in the table) share its object.
RefreshableRowsTrue ==
    answer.query = "trans" =>
        \A i \in 1..Len(answer.rows) :
            ctxSt[answer.rows[i].id] = "ok"
                => answer.rows[i].shown = answer.rows[i].id

\* The history of an account (RequestAllTrans) never shows one transaction's
\* contents in the row of another; a row whose file is gone shows none.
HistoryRowsTrue ==
    answer.query = "all" =>
        \A i \in 1..Len(answer.rows) :
            answer.rows[i].shown \in {0, answer.rows[i].id}

\* Every send that its receiver could refresh is in the receiver's list,
\* between any two handlers and also after other sends were refreshed; and a
\* row that can no longer be refreshed has left its coins in a cheque.
RefreshableListed ==
    answer.query = "trans" /\ answer.ok =>
        /\ \A h \in Tx :
              /\ ctxSt[h] = "ok" /\ ctx[h].type = "send"
              /\ ctx[h].transfer.pk = KeyOf(answer.u)
              /\ crashes = 0 /\ ~SqlFails
              => \E i \in 1..Len(answer.rows) : answer.rows[i].id = h
        /\ \A i \in 1..Len(answer.rows) :
              ctxSt[answer.rows[i].id] = "ok"
                  \/ \E c \in Tx : origin[c] = answer.rows[i].id

\* A login that is accepted finds an account: the file was complete before
\* the row of the account existed, and only a crash in a later handler can
\* have emptied it.
LoginFindsAccount ==
    answer.query = "login" /\ answer.ok =>
        /\ acctSt[answer.u] # "none"
        /\ crashes = 0 => acctSt[answer.u] = "ok"

=============================================================================
