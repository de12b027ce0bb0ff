------------------------------ MODULE MCTxProofs ------------------------------
EXTENDS TxProofs

Own == <<"u", 2>>
Old == <<"u", 1>>     \* the key of an account that was created again
Other == <<"v", 1>>
MCSecret(key) == CASE key = Own -> 3 [] key = Old -> 2 [] key = Other -> 5 [] OTHER -> 1

New == CreateAccount(Own, 2)
Accounts == {New} \cup {Renew(New, 2, v, 1) : v \in {1, MaxCoin - 1}}
Cheques == {[C |-> Enc(key, v, Fresh(3)), pk |-> key, r |-> Fresh(3), transfer |-> v] :
                key \in {Own, Old}, v \in {1, 2}}
             \cup {RefreshedCheque(New, 0, 0)}

Session(type, a, x, key, aux, c) ==
    [type |-> type, a |-> a, i |-> 2, x |-> x, key |-> key, sent |-> 2, aux |-> aux,
     c |-> c, small |-> 2]
Zero == RefreshedCheque(New, 0, 0)

\* Numbers below 16 have two bytes of base 4.  With the new cheque's randomness
\* 18 the refreshes of the sends 2, 4, 6 and 7 have the differences 1, 5, 2 and
\* 4 modulo 7, of which 1 becomes 4 and 2 becomes 8, too large, and the second
\* has the randomness 2, too large as well.
Refresh(x, key, aux, sent) ==
    [Session("refresh", New, x, key, aux, Zero) EXCEPT !.i = 9, !.sent = sent]
MCSessions ==
    {Session(type, a, x, Own, <<0, 0>>, Zero) :
        type \in {"mint", "redeem"}, a \in Accounts, x \in {1, 2}}
      \cup {Session("send", a, x, key, <<0, 0>>, Zero) :
                a \in Accounts, x \in {1, 3}, key \in {Own, Other}}
      \cup {Refresh(x, key, aux, sent) :
                x \in {1, 3}, key \in {Own, Old}, sent \in {2, 4, 6, 7},
                aux \in {<<0, 0>>, <<1, 5>>, <<6, 2>>, <<1, 9>>}}
      \cup {Session(type, New, x, Own, <<0, 0>>, Zero) :
                type \in {"gadget1", "gadget2"}, x \in 0..MaxCoin}
      \cup {Session("deposit", a, 0, Own, <<0, 0>>, c) : a \in Accounts, c \in Cheques}

MCDraws(n) == IF n = 1 THEN {<<1>>, <<3>>} ELSE {<<1, 4>>, <<2, 0>>}
MCAnyPoints == {Infinity, G, H, Plus(Times(G, 2), H)}

=============================================================================
