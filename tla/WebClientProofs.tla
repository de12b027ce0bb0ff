---------------------------- MODULE WebClientProofs ----------------------------
(***************************************************************************)
(* What the wallet pages show and keep as long as the user waits for each  *)
(* answer, for every number of requests, sends and coins.                  *)
(***************************************************************************)
EXTENDS WebClient, TLAPS

Quiet == "traffic" \notin mishaps

\* The requests a page sends.
Kinds(p) == IF p = "account" THEN {"acct", "mint", "redeem"}
            ELSE {"trans", "refresh", "deposit"}

Fields == {"n", "inst", "kind", "arg", "phase", "ok", "info", "list"}
Messages == \A m \in net : DOMAIN m = Fields /\ m.ok \in BOOLEAN

\* A user who waits has one message in flight, of the page that is shown.
Alone ==
    Quiet =>
        /\ \A m, n \in net : m = n
        /\ \A m \in net : /\ m.phase \in {"request", "reply"} /\ m.inst = inst
                          /\ m.kind \in Kinds(page)

\* The account page shows the server's balances, or a reply that brings them
\* is on its way or will be asked for.
Current == info = [pt |-> pt, v |-> v] /\ shown.v = v

Brings(m) == \/ m.kind = "acct"
             \/ m.kind \in {"mint", "redeem"} /\ m.phase = "reply" /\ m.ok

UpToDate(m) == m.kind = "acct" /\ m.phase = "reply" => m.info = [pt |-> pt, v |-> v]

BalanceShown ==
    Quiet /\ page = "account" =>
        /\ Current \/ \E m \in net : Brings(m)
        /\ \A m \in net : UpToDate(m)

\* The one cheque there is is in the dialog or in the reply that opens it,
\* and the answer to a deposit is about the cheque in the dialog.
InDialog(c) == checkFormVisible /\ checkForm = c
InReply(c) == \E m \in net : /\ m.kind = "refresh" /\ m.arg = c
                             /\ m.phase = "reply" /\ m.ok

ChequeHeld ==
    mishaps = {} =>
        /\ \A c \in cheques : InDialog(c) \/ InReply(c)
        /\ \A m \in net :
              /\ m.kind = "refresh" => ~checkFormVisible
              /\ m.kind = "deposit" => InDialog(m.arg)
              /\ m.kind = "deposit" /\ m.phase = "reply" /\ m.ok
                   => m.arg \notin cheques

ClientInv == Messages /\ Alone /\ BalanceShown /\ ChequeHeld

-----------------------------------------------------------------------------
(* Messages. *)

\* A user who still waits for every answer sends with nothing in flight.
LEMMA PostAlone ==
    ASSUME Messages, NEW kind, NEW i, NEW arg, NEW others, others \subseteq net,
           Post(kind, i, arg, others)
    PROVE  /\ Messages'
           /\ \E r : /\ net' = others \cup {r} /\ r.phase = "request"
                     /\ r.kind = kind /\ r.inst = i /\ r.arg = arg
<1>1. PICK r : r = Request(sent + 1, kind, i, arg)
  OBVIOUS
<1>2. /\ DOMAIN r = Fields /\ r.ok = FALSE /\ r.phase = "request"
      /\ r.kind = kind /\ r.inst = i /\ r.arg = arg
  BY <1>1 DEF Request, Fields
<1>3. net' = others \cup {r}
  BY <1>1 DEF Post
<1>4. Messages'
  BY <1>2, <1>3 DEF Messages
<1> QED
  BY <1>2, <1>3, <1>4

\* The reply to a request.
LEMMA Reply ==
    ASSUME Messages, NEW m \in net, NEW ok \in BOOLEAN, Answered(m, ok)
    PROVE  /\ Messages'
           /\ \E r : /\ net' = (net \ {m}) \cup {r} /\ r.phase = "reply"
                     /\ r.kind = m.kind /\ r.inst = m.inst /\ r.arg = m.arg
                     /\ r.ok = ok
                     /\ m.kind = "acct" => r.info = [pt |-> pt, v |-> v]
<1>1. PICK x, y : /\ x = IF m.kind = "acct" THEN [pt |-> pt, v |-> v] ELSE m.info
                  /\ y = IF m.kind = "trans" THEN rows ELSE m.list
  OBVIOUS
<1>2. PICK r : r = [m EXCEPT !.phase = "reply", !.ok = ok, !.info = x, !.list = y]
  OBVIOUS
<1>3. DOMAIN m = Fields
  BY DEF Messages
<1>4. /\ DOMAIN r = Fields /\ r.phase = "reply" /\ r.ok = ok /\ r.info = x
      /\ r.kind = m.kind /\ r.inst = m.inst /\ r.arg = m.arg
  BY <1>2, <1>3 DEF Fields
<1>5. net' = (net \ {m}) \cup {r}
  BY <1>1, <1>2, <1>3 DEF Answered, Fields
<1>6. Messages'
  BY <1>4, <1>5 DEF Messages
<1> QED
  BY <1>1, <1>4, <1>5, <1>6

-----------------------------------------------------------------------------
(* What the user does. *)

\* Nothing is in flight when a user who waits for answers asks for more.
LEMMA NotedEmpty ==
    ASSUME NEW others, "traffic" \notin Noted(others)
    PROVE  others = {}
  BY DEF Noted

\* A new page: its first request is the only message.
LEMMA OpenPage ==
    ASSUME ClientInv, OpenAccount \/ OpenCredit
    PROVE  ClientInv'
<1>1. PICK kind : /\ Post(kind, inst + 1, 0, net) /\ inst' = inst + 1
                  /\ \/ page' = "account" /\ kind = "acct"
                     \/ page' = "credit" /\ kind = "trans"
  BY DEF OpenAccount, OpenCredit
<1>2. /\ mishaps' = mishaps \cup Noted(net)
                      \cup (IF checkFormVisible THEN {"dialog"} ELSE {})
      /\ cheques' = cheques /\ checkFormVisible' = FALSE
  BY DEF OpenAccount, OpenCredit, server
<1>3. PICK r : /\ Messages' /\ net' = net \cup {r} /\ r.phase = "request"
               /\ r.kind = kind /\ r.inst = inst + 1
  BY <1>1, PostAlone DEF ClientInv
<1>4. Quiet' => net = {} /\ net' = {r}
  BY <1>2, <1>3, NotedEmpty DEF Quiet
<1>5. Alone'
  BY <1>1, <1>3, <1>4 DEF Alone, Kinds
<1>6. BalanceShown'
  BY <1>1, <1>3, <1>4 DEF BalanceShown, Brings, UpToDate
<1>7. ChequeHeld'
  <2> SUFFICES ASSUME mishaps' = {} PROVE ChequeHeld'
    BY DEF ChequeHeld
  <2>1. mishaps = {} /\ ~checkFormVisible /\ net' = {r} /\ net = {}
    BY <1>2, <1>4 DEF Quiet
  <2>2. cheques = {}
    BY <2>1 DEF ClientInv, ChequeHeld, InDialog, InReply
  <2>3. r.kind \notin {"refresh", "deposit"}
    BY <1>1, <1>3
  <2> QED
    BY <1>2, <2>1, <2>2, <2>3 DEF ChequeHeld
<1> QED
  BY <1>3, <1>5, <1>6, <1>7 DEF ClientInv

\* A request from the page that is shown.
LEMMA PagePost ==
    ASSUME ClientInv, NEW kind, NEW arg, Post(kind, inst, arg, net),
           kind \in Kinds(page), "traffic" \notin mishaps' => "traffic" \notin Noted(net),
           mishaps \subseteq mishaps',
           UNCHANGED <<server, page, inst, accountPage, checkForm, checkFormVisible>>,
           kind = "refresh" /\ mishaps' = {} => ~checkFormVisible,
           kind = "deposit" => InDialog(arg)
    PROVE  ClientInv'
<1>1. PICK r : /\ Messages' /\ net' = net \cup {r} /\ r.phase = "request"
               /\ r.kind = kind /\ r.inst = inst /\ r.arg = arg
  BY PostAlone DEF ClientInv
<1>2. Quiet' => Quiet /\ net = {} /\ net' = {r}
  BY <1>1, NotedEmpty DEF Quiet
<1>3. Alone'
  BY <1>1, <1>2 DEF Alone
<1>4. BalanceShown'
  <2> SUFFICES ASSUME Quiet', page' = "account" PROVE Current'
    BY <1>1, <1>2 DEF BalanceShown, UpToDate
  <2>1. Current
    BY <1>2 DEF ClientInv, BalanceShown
  <2> QED
    BY <2>1 DEF Current, server, accountPage
<1>5. ChequeHeld'
  <2> SUFFICES ASSUME mishaps' = {} PROVE ChequeHeld'
    BY DEF ChequeHeld
  <2>1. mishaps = {} /\ net' = {r} /\ net = {}
    BY <1>2 DEF Quiet
  <2>2. \A c \in cheques : InDialog(c)
    BY <2>1 DEF ClientInv, ChequeHeld, InReply
  <2>3. \A c : InDialog(c)' <=> InDialog(c)
    BY DEF InDialog
  <2> QED
    BY <1>1, <2>1, <2>2, <2>3 DEF ChequeHeld, server
<1> QED
  BY <1>1, <1>3, <1>4, <1>5 DEF ClientInv

LEMMA Click ==
    ASSUME ClientInv,
           \/ \E kind \in {"mint", "redeem"} : Submit(kind)
           \/ LoadCredits \/ HandleReceive
           \/ \E h \in Send : HandleCheck(h)
    PROVE  ClientInv'
<1>1. CASE \E kind \in {"mint", "redeem"} : Submit(kind)
  <2>1. PICK kind \in {"mint", "redeem"} : Submit(kind)
    BY <1>1
  <2> QED
    BY <2>1, PagePost DEF Submit, Kinds, creditPage
<1>2. CASE LoadCredits
  BY <1>2, PagePost DEF LoadCredits, Kinds
<1>3. CASE HandleReceive
  BY <1>3, PagePost DEF HandleReceive, Kinds, creditPage, InDialog
<1>4. CASE \E h \in Send : HandleCheck(h)
  <2>1. PICK h \in Send : HandleCheck(h)
    BY <1>4
  <2> QED
    BY <2>1, PagePost DEF HandleCheck, Kinds, creditPage
<1> QED
  BY <1>1, <1>2, <1>3, <1>4

\* What the user does without a request.
LEMMA Look ==
    ASSUME ClientInv, ChangeValue \/ CloseDialog \/ Incoming
    PROVE  ClientInv'
<1>1. /\ net' = net /\ page' = page /\ inst' = inst /\ info' = info
      /\ pt' = pt /\ v' = v /\ cheques' = cheques /\ mishaps \subseteq mishaps'
      /\ \/ mishaps' # {}
         \/ UNCHANGED <<checkForm, checkFormVisible>>
      /\ shown' = shown \/ shown' \in {Cipher(info.v), Plain(info.v)}
  BY DEF ChangeValue, CloseDialog, Incoming, server, accountPage, creditPage
<1>2. Messages' /\ Alone'
  BY <1>1 DEF ClientInv, Messages, Alone, Quiet
<1>3. Current => Current'
  <2>1. Cipher(info.v).v = info.v /\ Plain(info.v).v = info.v
    BY DEF Cipher, Plain
  <2>2. shown' = shown \/ shown'.v = info.v
    BY <1>1, <2>1
  <2>3. Current => info.v = v
    BY DEF Current
  <2> QED
    BY <1>1, <2>2, <2>3 DEF Current
<1>4. BalanceShown'
  BY <1>1, <1>3 DEF ClientInv, BalanceShown, Brings, UpToDate, Quiet
<1>5. ChequeHeld'
  BY <1>1 DEF ClientInv, ChequeHeld, InDialog, InReply
<1> QED
  BY <1>2, <1>4, <1>5 DEF ClientInv

-----------------------------------------------------------------------------
(* What the server and the network do. *)

LEMMA ServeStep ==
    ASSUME ClientInv, Serve
    PROVE  ClientInv'
<1>1. PICK m \in net :
         /\ m.phase = "request"
         /\ \/ ServeAcct(m) \/ ServeMint(m) \/ ServeRedeem(m)
            \/ ServeTrans(m) \/ ServeRefresh(m) \/ ServeDeposit(m)
         /\ UNCHANGED <<sent, page, inst, accountPage, creditPage, mishaps>>
  BY DEF Serve
<1>2. PICK ok \in BOOLEAN :
         /\ Answered(m, ok)
         /\ (pt' = pt /\ v' = v)
              \/ (m.kind \in {"mint", "redeem"} /\ ok) \/ m.kind = "deposit"
         /\ m.kind = "refresh" => cheques' \subseteq cheques \cup {m.arg}
         /\ m.kind = "refresh" /\ ~ok => cheques' = cheques
         /\ m.kind = "deposit" => cheques' \subseteq cheques
         /\ m.kind = "deposit" /\ ok => m.arg \notin cheques'
         /\ m.kind \notin {"refresh", "deposit"} => cheques' = cheques
  BY <1>1 DEF ServeAcct, ServeMint, ServeRedeem, ServeTrans, ServeRefresh,
     ServeDeposit, server
<1>3. PICK r : /\ Messages' /\ net' = (net \ {m}) \cup {r} /\ r.phase = "reply"
               /\ r.kind = m.kind /\ r.inst = m.inst /\ r.arg = m.arg
               /\ r.ok = ok
               /\ m.kind = "acct" => r.info = [pt |-> pt, v |-> v]
  BY <1>2, Reply DEF ClientInv
<1>4. Quiet' => Quiet /\ net = {m} /\ net' = {r} /\ m.kind \in Kinds(page)
  BY <1>1, <1>3 DEF ClientInv, Alone, Quiet
<1>5. Alone'
  BY <1>1, <1>3, <1>4 DEF ClientInv, Alone
<1>6. BalanceShown'
  <2> SUFFICES ASSUME Quiet', page' = "account"
               PROVE  (Current' \/ Brings(r)) /\ UpToDate(r)'
    BY <1>4 DEF BalanceShown, Brings
  <2>1. m.kind \in {"acct", "mint", "redeem"}
    BY <1>1, <1>4 DEF Kinds
  <2>2. CASE m.kind = "acct"
    BY <1>2, <1>3, <2>2 DEF Brings, UpToDate
  <2>3. CASE m.kind \in {"mint", "redeem"} /\ ok
    BY <1>3, <2>3 DEF Brings, UpToDate
  <2>4. CASE m.kind \in {"mint", "redeem"} /\ ~ok
    <3>1. Current
      BY <1>1, <1>4, <2>4 DEF ClientInv, BalanceShown, Brings
    <3> QED
      BY <1>1, <1>2, <1>3, <2>4, <3>1 DEF Current, accountPage, UpToDate
  <2> QED
    BY <2>1, <2>2, <2>3, <2>4
<1>7. ChequeHeld'
  <2> SUFFICES ASSUME mishaps' = {} PROVE ChequeHeld'
    BY DEF ChequeHeld
  <2>1. mishaps = {} /\ net = {m} /\ net' = {r} /\ m.phase = "request"
    BY <1>1, <1>4 DEF Quiet
  <2>2. /\ \A c \in cheques : InDialog(c)
        /\ m.kind = "refresh" => ~checkFormVisible
        /\ m.kind = "deposit" => InDialog(m.arg)
    BY <2>1 DEF ClientInv, ChequeHeld, InReply
  <2>3. \A c : InDialog(c)' <=> InDialog(c)
    BY <1>1 DEF InDialog, creditPage
  <2>4. checkFormVisible' = checkFormVisible
    BY <1>1 DEF creditPage
  <2>5. \A c \in cheques' : InDialog(c) \/ InReply(c)'
    BY <1>2, <1>3, <2>1, <2>2 DEF InDialog, InReply
  <2> QED
    BY <1>2, <1>3, <2>1, <2>2, <2>3, <2>4, <2>5 DEF ChequeHeld
<1> QED
  BY <1>3, <1>5, <1>6, <1>7 DEF ClientInv

LEMMA LoseStep ==
    ASSUME ClientInv, Lose
    PROVE  ClientInv'
<1>1. PICK m \in net : net' = (net \ {m}) \cup {[m EXCEPT !.phase = "lost"]}
                       /\ "traffic" \in mishaps'
  BY DEF Lose
<1>2. Messages'
  <2>1. DOMAIN m = Fields /\ m.ok \in BOOLEAN
    BY DEF ClientInv, Messages
  <2>2. DOMAIN [m EXCEPT !.phase = "lost"] = Fields
        /\ [m EXCEPT !.phase = "lost"].ok = m.ok
    BY <2>1 DEF Fields
  <2> QED
    BY <1>1, <2>1, <2>2 DEF ClientInv, Messages
<1>3. ~Quiet' /\ mishaps' # {}
  BY <1>1 DEF Quiet
<1> QED
  BY <1>2, <1>3 DEF ClientInv, Alone, BalanceShown, ChequeHeld

-----------------------------------------------------------------------------
(* Replies. *)

\* The reply that is handled, and what is left in flight.
LEMMA Handled ==
    ASSUME ClientInv, NEW m \in net, Mine(m)
    PROVE  /\ m.phase = "reply"
           /\ Quiet => net = {m} /\ net \ {m} = {} /\ m.kind \in Kinds(page)
           /\ net \ {m} \subseteq net
  BY DEF ClientInv, Alone, Mine

\* The messages that are left keep the invariant's first part.
LEMMA Taken ==
    ASSUME ClientInv, NEW m \in net, net' = net \ {m},
           UNCHANGED <<page, inst>>, mishaps \subseteq mishaps'
    PROVE  Messages' /\ Alone'
  BY DEF ClientInv, Messages, Alone, Quiet

LEMMA GetInfoStep ==
    ASSUME ClientInv, NEW m \in net, GetInfo(m)
    PROVE  ClientInv'
<1>1. /\ Mine(m) /\ m.kind = "acct" /\ net' = net \ {m}
      /\ info' = m.info /\ shown' = Cipher(m.info.v)
      /\ UNCHANGED <<pt, v, cheques, page, inst, checkForm, checkFormVisible,
                     mishaps>>
  BY DEF GetInfo, server, creditPage
<1>2. BalanceShown'
  <2> SUFFICES ASSUME Quiet', page' = "account" PROVE Current' /\ net' = {}
    BY DEF BalanceShown
  <2>1. Quiet /\ net \ {m} = {} /\ m.phase = "reply"
    BY <1>1, Handled DEF Quiet
  <2>2. m.info = [pt |-> pt, v |-> v]
    BY <1>1, <2>1 DEF ClientInv, BalanceShown, UpToDate
  <2> QED
    BY <1>1, <2>1, <2>2 DEF Current, Cipher
<1>3. ChequeHeld'
  BY <1>1 DEF ClientInv, ChequeHeld, InDialog, InReply
<1> QED
  BY <1>1, <1>2, <1>3, Taken DEF ClientInv

LEMMA TransferDoneStep ==
    ASSUME ClientInv, NEW m \in net, TransferDone(m)
    PROVE  ClientInv'
<1>1. /\ Mine(m) /\ m.kind \in {"mint", "redeem"}
      /\ UNCHANGED <<pt, v, cheques, page, inst, info, shown, checkForm,
                     checkFormVisible>>
  BY DEF TransferDone, server, accountPage, creditPage
<1>2. CASE m.ok
  <2>1. /\ Post("acct", inst, 0, net \ {m})
        /\ mishaps' = mishaps \cup Noted(net \ {m})
    BY <1>2 DEF TransferDone
  <2>2. PICK r : /\ Messages' /\ net' = (net \ {m}) \cup {r}
                 /\ r.phase = "request" /\ r.kind = "acct" /\ r.inst = inst
    BY <2>1, PostAlone DEF ClientInv
  <2>3. Quiet' => Quiet /\ net = {m} /\ net' = {r} /\ m.kind \in Kinds(page)
    BY <1>1, <2>1, <2>2, Handled DEF Quiet
  <2>4. Alone'
    BY <1>1, <2>2, <2>3 DEF Alone, Kinds
  <2>5. BalanceShown'
    BY <2>2, <2>3 DEF BalanceShown, Brings, UpToDate
  <2>6. ChequeHeld'
    <3> SUFFICES ASSUME mishaps' = {} PROVE ChequeHeld'
      BY DEF ChequeHeld
    <3>1. mishaps = {} /\ net = {m} /\ net' = {r}
      BY <2>1, <2>3 DEF Quiet
    <3> QED
      BY <1>1, <2>2, <3>1 DEF ClientInv, ChequeHeld, InDialog, InReply
  <2> QED
    BY <2>2, <2>4, <2>5, <2>6 DEF ClientInv
<1>3. CASE ~m.ok
  <2>1. net' = net \ {m} /\ mishaps' = mishaps
    BY <1>3 DEF TransferDone
  <2>2. BalanceShown'
    <3> SUFFICES ASSUME Quiet', page' = "account" PROVE Current' /\ net' = {}
      BY DEF BalanceShown
    <3>1. Quiet /\ net = {m} /\ net' = {}
      BY <1>1, <2>1, Handled DEF Quiet
    <3>2. Current
      BY <1>1, <1>3, <3>1 DEF ClientInv, BalanceShown, Brings
    <3> QED
      BY <1>1, <3>1, <3>2 DEF Current
  <2>3. ChequeHeld'
    BY <1>1, <2>1 DEF ClientInv, ChequeHeld, InDialog, InReply
  <2> QED
    BY <1>1, <2>1, <2>2, <2>3, Taken DEF ClientInv
<1> QED
  BY <1>2, <1>3

\* On the credit page no balance is shown.
LEMMA CreditBalance ==
    ASSUME ClientInv, NEW m \in net, Mine(m), page' = page,
           mishaps \subseteq mishaps', m.kind \in {"trans", "refresh", "deposit"}
    PROVE  BalanceShown'
<1>1. Quiet' => page # "account"
  BY Handled DEF Quiet, Kinds
<1> QED
  BY <1>1 DEF BalanceShown

LEMMA GetDataStep ==
    ASSUME ClientInv, NEW m \in net, GetData(m)
    PROVE  ClientInv'
<1>1. /\ Mine(m) /\ m.kind = "trans" /\ net' = net \ {m}
      /\ UNCHANGED <<cheques, page, inst, checkForm, checkFormVisible, mishaps>>
  BY DEF GetData, server
<1>2. ChequeHeld'
  BY <1>1 DEF ClientInv, ChequeHeld, InDialog, InReply
<1> QED
  BY <1>1, <1>2, Taken, CreditBalance DEF ClientInv

\* The dialog opens for the one cheque there is.
LEMMA CheckDoneStep ==
    ASSUME ClientInv, NEW m \in net, CheckDone(m)
    PROVE  ClientInv'
<1>1. /\ Mine(m) /\ m.kind = "refresh" /\ net' = net \ {m}
      /\ UNCHANGED <<cheques, page, inst, mishaps>>
      /\ IF m.ok THEN checkForm' = m.arg /\ checkFormVisible' = TRUE
                 ELSE UNCHANGED <<checkForm, checkFormVisible>>
  BY DEF CheckDone, server
<1>2. ChequeHeld'
  <2> SUFFICES ASSUME mishaps' = {} PROVE ChequeHeld'
    BY DEF ChequeHeld
  <2>1. mishaps = {} /\ net = {m} /\ net' = {}
    BY <1>1, Handled DEF Quiet
  <2>2. ~checkFormVisible /\ \A c \in cheques : m.arg = c /\ m.ok
    BY <1>1, <2>1 DEF ClientInv, ChequeHeld, InDialog, InReply
  <2> QED
    BY <1>1, <2>1, <2>2 DEF ChequeHeld, InDialog
<1> QED
  BY <1>1, <1>2, Taken, CreditBalance DEF ClientInv

\* The dialog closes when the cheque in it is gone, or the deposit of it was
\* refused.
LEMMA ReceiveDoneStep ==
    ASSUME ClientInv, NEW m \in net, ReceiveDone(m)
    PROVE  ClientInv'
<1>1. /\ Mine(m) /\ m.kind = "deposit" /\ checkFormVisible' = FALSE
      /\ UNCHANGED <<cheques, page, inst, checkForm>>
  BY DEF ReceiveDone, server
<1>2. CASE m.ok
  <2>1. /\ Post("trans", inst, 0, net \ {m})
        /\ mishaps' = mishaps \cup Noted(net \ {m})
    BY <1>2 DEF ReceiveDone
  <2>2. PICK r : /\ Messages' /\ net' = (net \ {m}) \cup {r}
                 /\ r.phase = "request" /\ r.kind = "trans" /\ r.inst = inst
    BY <2>1, PostAlone DEF ClientInv
  <2>3. /\ m.phase = "reply"
        /\ Quiet' => Quiet /\ net = {m} /\ net' = {r} /\ m.kind \in Kinds(page)
    BY <1>1, <2>1, <2>2, Handled DEF Quiet
  <2>4. Alone'
    BY <1>1, <2>2, <2>3 DEF Alone, Kinds
  <2>5. ChequeHeld'
    <3> SUFFICES ASSUME mishaps' = {} PROVE ChequeHeld'
      BY DEF ChequeHeld
    <3>1. mishaps = {} /\ net = {m} /\ net' = {r}
      BY <2>1, <2>3 DEF Quiet
    <3>2. InDialog(m.arg) /\ m.arg \notin cheques
      BY <1>1, <1>2, <2>3, <3>1 DEF ClientInv, ChequeHeld
    <3>3. \A c \in cheques : InDialog(c)
      BY <1>1, <3>1 DEF ClientInv, ChequeHeld, InReply
    <3>4. cheques = {}
      BY <3>2, <3>3 DEF InDialog
    <3> QED
      BY <1>1, <2>2, <3>1, <3>4 DEF ChequeHeld
  <2>6. BalanceShown'
    BY <1>1, <2>1, CreditBalance
  <2> QED
    BY <2>2, <2>4, <2>5, <2>6 DEF ClientInv
<1>3. CASE ~m.ok
  <2>1. net' = net \ {m} /\ mishaps' = mishaps \cup {"dialog"}
    BY <1>3 DEF ReceiveDone
  <2>2. ChequeHeld'
    BY <2>1 DEF ChequeHeld
  <2> QED
    BY <1>1, <2>1, <2>2, Taken, CreditBalance DEF ClientInv
<1> QED
  BY <1>2, <1>3

\* Nobody who waits for each answer and gets it sees a failure.
LEMMA FailureStep ==
    ASSUME ClientInv, NEW m \in net, Failure(m)
    PROVE  ClientInv'
<1>1. /\ m.phase = "lost" \/ m.inst # inst
      /\ net' = net \ {m} /\ UNCHANGED <<page, inst, mishaps>>
  BY DEF Failure
<1>2. ~Quiet /\ ~Quiet' /\ mishaps' # {}
  BY <1>1 DEF ClientInv, Alone, Quiet
<1> QED
  BY <1>1, <1>2, Taken DEF ClientInv, BalanceShown, ChequeHeld

-----------------------------------------------------------------------------
LEMMA ClientInvariant == Init /\ [][Next]_clientVars => []ClientInv
<1>1. Init => ClientInv
  <2> SUFFICES ASSUME Init PROVE ClientInv
    OBVIOUS
  <2>1. PICK r : r = Request(1, "acct", 1, 0)
    OBVIOUS
  <2>2. /\ DOMAIN r = Fields /\ r.ok = FALSE /\ r.phase = "request"
        /\ r.kind = "acct" /\ r.inst = 1
    BY <2>1 DEF Request, Fields
  <2>3. /\ net = {r} /\ page = "account" /\ inst = 1 /\ cheques = {}
        /\ checkFormVisible = FALSE
    BY <2>1 DEF Init
  <2> QED
    BY <2>2, <2>3 DEF ClientInv, Messages, Alone, Kinds, BalanceShown, Brings,
       UpToDate, ChequeHeld
<1>2. ClientInv /\ [Next]_clientVars => ClientInv'
  <2> SUFFICES ASSUME ClientInv, [Next]_clientVars PROVE ClientInv'
    OBVIOUS
  <2>1. CASE User
    BY <2>1, OpenPage, Click, Look DEF User
  <2>2. CASE Deliver
    BY <2>2, GetInfoStep, TransferDoneStep, GetDataStep, CheckDoneStep,
       ReceiveDoneStep, FailureStep DEF Deliver
  <2>3. CASE UNCHANGED clientVars
    BY <2>3 DEF clientVars, server, accountPage, creditPage, ClientInv, Messages,
       Alone, Quiet, BalanceShown, Current, Brings, UpToDate, ChequeHeld,
       InDialog, InReply
  <2> QED
    BY <2>1, <2>2, <2>3, Look, ServeStep, LoseStep DEF Next
<1> QED
  BY <1>1, <1>2, PTL

\* A user who waits for each answer and loses none sees the balances the
\* server holds, whatever was minted, redeemed or deposited and on whichever
\* page.
THEOREM BalancesShown == Spec => []ShownCurrent
<1>1. ClientInv => ShownCurrent
  BY DEF ClientInv, BalanceShown, Quiet, Current, ShownCurrent
<1> QED
  BY <1>1, ClientInvariant, PTL DEF Spec

\* A cheque that the server keeps for such a user is in the dialog, or in
\* the reply that opens it, until it is deposited.
THEOREM ChequesReached == Spec => []ChequeInReach
<1>1. ClientInv => ChequeInReach
  BY DEF ClientInv, ChequeHeld, InDialog, InReply, ChequeInReach
<1> QED
  BY <1>1, ClientInvariant, PTL DEF Spec

=============================================================================
