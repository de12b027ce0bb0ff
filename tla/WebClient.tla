------------------------------ MODULE WebClient ------------------------------
(***************************************************************************)
(* The wallet pages of the web client (views/wallet/accountInfo.vue and     *)
(* creditInfo.vue) of one user: what the pages hold while requests are in   *)
(* flight.  A request is served in one step (LedgerBackend shows what the   *)
(* handler does in between); requests run on connections of their own, so   *)
(* they are served, and their replies arrive, in any order, or are lost.    *)
(* A page that is left takes its data with it: its replies come to nothing. *)
(***************************************************************************)
EXTENDS Naturals, FiniteSets

CONSTANTS MaxReq,     \* bound: requests sent
          MaxFlight,  \* bound: requests in flight at the same time
          MaxSends,   \* bound: cheques sent to the user
          MaxCoin,    \* 2^RANGE_LEN
          Initial     \* the public balance the user starts with

VARIABLES
    pt, v,         \* server: public and encrypted balance
    rows, ctxs,    \* server: sends in the table, and with a .ctx file
    cheques,       \* server: cheques that were refreshed and not deposited
    net, sent,     \* requests and replies in flight; requests sent so far
    page, inst,    \* the page shown, and the number of its instance
    info, ctFlag, shown,   \* accountInfo: last reply, eye, ct_balance
    listData, loading,     \* creditInfo: list and its spinner
    checkForm, checkFormVisible,  \* creditInfo: the only cheque dialog
    mishaps        \* history: what stood between the user and an answer:
                   \* "traffic", two requests at once or a lost connection;
                   \* "dialog", a page left with its dialog open, a dialog
                   \* closed, a deposit refused

server == <<pt, v, rows, ctxs, cheques>>
accountPage == <<info, ctFlag, shown>>
creditPage == <<listData, loading, checkForm, checkFormVisible>>
clientVars == <<server, net, sent, page, inst, accountPage, creditPage, mishaps>>

Send == 1..MaxSends
NoInfo == [pt |-> 0, v |-> 0]
NoCheque == 0

Cipher(x) == [form |-> "cipher", v |-> x]
Plain(x) == [form |-> "plain", v |-> x]

-----------------------------------------------------------------------------
(* Requests. *)

\* A message is a request, then its reply, or lost.
Request(k, kind, i, arg) ==
    [n |-> k, inst |-> i, kind |-> kind, arg |-> arg, phase |-> "request",
     ok |-> FALSE, info |-> NoInfo, list |-> {}]

\* A request goes out while the messages "others" are still in flight.
Post(kind, i, arg, others) ==
    /\ sent < MaxReq /\ sent' = sent + 1
    /\ Cardinality(others) < MaxFlight
    /\ net' = others \cup {Request(sent + 1, kind, i, arg)}

Noted(others) == IF others = {} THEN {} ELSE {"traffic"}

\* A new instance of the page: created() fetches what the page shows.
OpenAccount ==
    /\ page' = "account" /\ inst' = inst + 1
    /\ info' = NoInfo /\ ctFlag' = TRUE /\ shown' = Cipher(0)
    /\ Post("acct", inst + 1, 0, net)
    /\ mishaps' = mishaps \cup Noted(net)
                    \cup (IF checkFormVisible THEN {"dialog"} ELSE {})
    /\ listData' = {} /\ loading' = FALSE
    /\ checkForm' = NoCheque /\ checkFormVisible' = FALSE
    /\ UNCHANGED server

OpenCredit ==
    /\ page' = "credit" /\ inst' = inst + 1
    /\ listData' = {} /\ loading' = TRUE
    /\ checkForm' = NoCheque /\ checkFormVisible' = FALSE
    /\ Post("trans", inst + 1, 0, net)
    /\ mishaps' = mishaps \cup Noted(net)
                    \cup (IF checkFormVisible THEN {"dialog"} ELSE {})
    /\ UNCHANGED <<server, accountPage>>

\* submitMint and submitRedeem move one coin.
Submit(kind) ==
    /\ page = "account" /\ kind \in {"mint", "redeem"}
    /\ Post(kind, inst, 0, net)
    /\ mishaps' = mishaps \cup Noted(net)
    /\ UNCHANGED <<server, page, inst, accountPage, creditPage>>

\* The eye next to the encrypted balance.
ChangeValue ==
    /\ page = "account"
    /\ ctFlag' = ~ctFlag
    /\ shown' = IF ~ctFlag THEN Cipher(info.v) ELSE Plain(info.v)
    /\ UNCHANGED <<server, net, sent, page, inst, info, creditPage, mishaps>>

LoadCredits ==
    /\ page = "credit"
    /\ loading' = TRUE
    /\ Post("trans", inst, 0, net)
    /\ mishaps' = mishaps \cup Noted(net)
    /\ UNCHANGED <<server, page, inst, accountPage, listData, checkForm,
                   checkFormVisible>>

HandleCheck(h) ==
    /\ page = "credit" /\ h \in listData
    /\ Post("refresh", inst, h, net)
    /\ mishaps' = mishaps \cup Noted(net)
                    \cup (IF checkFormVisible THEN {"traffic"} ELSE {})
    /\ UNCHANGED <<server, page, inst, accountPage, creditPage>>

HandleReceive ==
    /\ page = "credit" /\ checkFormVisible
    /\ Post("deposit", inst, checkForm, net)
    /\ mishaps' = mishaps \cup Noted(net)
    /\ UNCHANGED <<server, page, inst, accountPage, creditPage>>

CloseDialog ==
    /\ checkFormVisible /\ checkFormVisible' = FALSE
    /\ mishaps' = mishaps \cup {"dialog"}
    /\ UNCHANGED <<server, net, sent, page, inst, accountPage, listData,
                   loading, checkForm>>

-----------------------------------------------------------------------------
(* The server. *)

\* Somebody sends the user one coin.
Incoming ==
    /\ Cardinality(rows) < MaxSends
    /\ LET h == Cardinality(rows) + 1
       IN rows' = rows \cup {h} /\ ctxs' = ctxs \cup {h}
    /\ UNCHANGED <<pt, v, cheques, net, sent, page, inst, accountPage,
                   creditPage, mishaps>>

Answered(m, ok) ==
    net' = (net \ {m}) \cup
        {[m EXCEPT !.phase = "reply", !.ok = ok,
                   !.info = IF m.kind = "acct" THEN [pt |-> pt, v |-> v] ELSE @,
                   !.list = IF m.kind = "trans" THEN rows ELSE @]}

ServeAcct(m) ==
    m.kind = "acct" /\ Answered(m, TRUE) /\ UNCHANGED server

ServeMint(m) ==
    /\ m.kind = "mint"
    /\ IF pt > 0 /\ v + 1 < MaxCoin
       THEN /\ pt' = pt - 1 /\ v' = v + 1
            /\ Answered(m, TRUE) /\ UNCHANGED <<rows, ctxs, cheques>>
       ELSE Answered(m, FALSE) /\ UNCHANGED server

ServeRedeem(m) ==
    /\ m.kind = "redeem"
    /\ IF v > 0
       THEN /\ pt' = pt + 1 /\ v' = v - 1
            /\ Answered(m, TRUE) /\ UNCHANGED <<rows, ctxs, cheques>>
       ELSE Answered(m, FALSE) /\ UNCHANGED server

ServeTrans(m) == m.kind = "trans" /\ Answered(m, TRUE) /\ UNCHANGED server

\* As in LedgerBackend, a good refresh can be refused too.
ServeRefresh(m) ==
    /\ m.kind = "refresh"
    /\ \/ /\ m.arg \in ctxs
          /\ ctxs' = ctxs \ {m.arg} /\ cheques' = cheques \cup {m.arg}
          /\ Answered(m, TRUE) /\ UNCHANGED <<pt, v, rows>>
       \/ Answered(m, FALSE) /\ UNCHANGED server

ServeDeposit(m) ==
    /\ m.kind = "deposit"
    /\ IF m.arg \in cheques /\ v + 1 < MaxCoin
       THEN /\ v' = v + 1 /\ cheques' = cheques \ {m.arg}
            /\ Answered(m, TRUE) /\ UNCHANGED <<pt, rows, ctxs>>
       ELSE Answered(m, FALSE) /\ UNCHANGED server

Serve ==
    \E m \in net :
        /\ m.phase = "request"
        /\ \/ ServeAcct(m) \/ ServeMint(m) \/ ServeRedeem(m)
           \/ ServeTrans(m) \/ ServeRefresh(m) \/ ServeDeposit(m)
        /\ UNCHANGED <<sent, page, inst, accountPage, creditPage, mishaps>>

\* The connection breaks, before or after the request was served.
Lose ==
    \E m \in net :
        /\ m.phase # "lost"
        /\ net' = (net \ {m}) \cup {[m EXCEPT !.phase = "lost"]}
        /\ mishaps' = mishaps \cup {"traffic"}
        /\ UNCHANGED <<server, sent, page, inst, accountPage, creditPage>>

-----------------------------------------------------------------------------
(* Replies: the then and catch of each request. *)

Mine(m) == m.phase = "reply" /\ m.inst = inst

\* getInfo: the balances, and the ciphertext into what is shown.
GetInfo(m) ==
    /\ Mine(m) /\ m.kind = "acct"
    /\ info' = m.info /\ shown' = Cipher(m.info.v)
    /\ net' = net \ {m}
    /\ UNCHANGED <<server, sent, page, inst, ctFlag, creditPage, mishaps>>

TransferDoneSilently(m) ==   \* mutant: the balances are not fetched again
    /\ Mine(m) /\ m.kind \in {"mint", "redeem"}
    /\ net' = net \ {m}
    /\ UNCHANGED <<server, sent, page, inst, accountPage, creditPage, mishaps>>

\* submitMint, submitRedeem: success fetches the balances again.
TransferDone(m) ==
    /\ Mine(m) /\ m.kind \in {"mint", "redeem"}
    /\ IF m.ok THEN /\ Post("acct", inst, 0, net \ {m})
                    /\ mishaps' = mishaps \cup Noted(net \ {m})
               ELSE net' = net \ {m} /\ UNCHANGED <<sent, mishaps>>
    /\ UNCHANGED <<server, page, inst, accountPage, creditPage>>

\* getdata: the list is the reply that came last.
GetData(m) ==
    /\ Mine(m) /\ m.kind = "trans"
    /\ listData' = m.list /\ loading' = FALSE
    /\ net' = net \ {m}
    /\ UNCHANGED <<server, sent, page, inst, accountPage, checkForm,
                   checkFormVisible, mishaps>>

CheckDoneUnseen(m) ==   \* mutant: the dialog does not open
    /\ Mine(m) /\ m.kind = "refresh"
    /\ checkForm' = m.arg /\ net' = net \ {m}
    /\ UNCHANGED <<server, sent, page, inst, accountPage, listData, loading,
                   checkFormVisible, mishaps>>

\* handleCheck: success puts the cheque into the one dialog there is.
CheckDone(m) ==
    /\ Mine(m) /\ m.kind = "refresh"
    /\ IF m.ok THEN checkForm' = m.arg /\ checkFormVisible' = TRUE
               ELSE UNCHANGED <<checkForm, checkFormVisible>>
    /\ net' = net \ {m}
    /\ UNCHANGED <<server, sent, page, inst, accountPage, listData, loading,
                   mishaps>>

\* handleReceive: any reply closes the dialog; success loads the list again.
ReceiveDone(m) ==
    /\ Mine(m) /\ m.kind = "deposit"
    /\ checkFormVisible' = FALSE
    /\ IF m.ok THEN /\ loading' = TRUE /\ Post("trans", inst, 0, net \ {m})
                    /\ mishaps' = mishaps \cup Noted(net \ {m})
               ELSE /\ loading' = FALSE /\ net' = net \ {m}
                    /\ mishaps' = mishaps \cup {"dialog"} /\ UNCHANGED sent
    /\ UNCHANGED <<server, page, inst, accountPage, listData, checkForm>>

FailureSpinning(m) ==   \* mutant: an error leaves the spinner on
    /\ m.phase = "lost" \/ m.inst # inst
    /\ net' = net \ {m}
    /\ UNCHANGED <<server, sent, page, inst, accountPage, creditPage, mishaps>>

\* The catch of every request shows a message and stops the spinner; what
\* comes for a page that was left comes to nothing.
Failure(m) ==
    /\ m.phase = "lost" \/ (m.phase = "reply" /\ m.inst # inst)
    /\ loading' = (loading /\ m.inst # inst)
    /\ net' = net \ {m}
    /\ UNCHANGED <<server, sent, page, inst, accountPage, listData, checkForm,
                   checkFormVisible, mishaps>>

Deliver ==
    \E m \in net : \/ GetInfo(m) \/ TransferDone(m) \/ GetData(m)
                   \/ CheckDone(m) \/ ReceiveDone(m) \/ Failure(m)

User ==
    \/ OpenAccount \/ OpenCredit
    \/ \E kind \in {"mint", "redeem"} : Submit(kind)
    \/ ChangeValue \/ LoadCredits
    \/ \E h \in Send : HandleCheck(h)
    \/ HandleReceive \/ CloseDialog

Init ==
    /\ pt = Initial /\ v = 0 /\ rows = {} /\ ctxs = {} /\ cheques = {}
    /\ sent = 1 /\ net = {Request(1, "acct", 1, 0)}
    /\ page = "account" /\ inst = 1
    /\ info = NoInfo /\ ctFlag = TRUE /\ shown = Cipher(0)
    /\ listData = {} /\ loading = FALSE
    /\ checkForm = NoCheque /\ checkFormVisible = FALSE
    /\ mishaps = {}

Next == User \/ Incoming \/ Serve \/ Lose \/ Deliver

\* The server answers or the connection breaks, and the browser runs the
\* callback; nothing makes the user click.
Spec == Init /\ [][Next]_clientVars /\ WF_clientVars(Serve) /\ WF_clientVars(Deliver)

-----------------------------------------------------------------------------
(* Safety. *)

\* A user who waits for each answer sees, when nothing is in flight, the
\* balances the server holds: transfers of this page, deposits of the other
\* page and the page changes between them included.
ShownCurrent ==
    page = "account" /\ net = {} /\ "traffic" \notin mishaps
        => info = [pt |-> pt, v |-> v] /\ shown.v = v

\* The server's cheque has no other handle than the dialog.  It is there, or
\* on its way there, unless the user asked for two things at once, lost an
\* answer, left the page, closed the dialog, or had a deposit refused.
ChequeInReach ==
    mishaps = {} =>
        \A c \in cheques :
            \/ checkFormVisible /\ checkForm = c
            \/ \E m \in net : m.kind = "refresh" /\ m.arg = c

-----------------------------------------------------------------------------
(* Liveness. *)

\* The spinner stops: by the list, by an error or with the page.
LoadingEnds == loading ~> ~loading

=============================================================================
