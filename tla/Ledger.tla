------------------------------- MODULE Ledger -------------------------------
(***************************************************************************)
(* What LedgerMaze promises its users: public and hidden balances, and     *)
(* transfers that are paid for when they are made and credited once, to    *)
(* the key they were made out to.                                          *)
(***************************************************************************)
EXTENDS Naturals

CONSTANTS Users, MaxCoin, MaxInit,
          Keys,    \* the keys a transfer can name, <<owner, number>>
          Ids      \* the ids of transfers

VARIABLES accounts, pending

ledger == <<accounts, pending>>

Init ==
    /\ accounts = [u \in Users |-> [key |-> 0, public |-> 0, hidden |-> 0]]
    /\ pending = {}

\* An id may be taken again: the new account has a new key.
Open(u, x, k) ==
    /\ x <= MaxInit
    /\ \A w \in Users : k > accounts[w].key
    /\ accounts' = [accounts EXCEPT
                       ![u] = [key |-> k, public |-> x, hidden |-> 0]]
    /\ UNCHANGED pending

\* The balances of u become public and hidden.
Balance(u, public, hidden) ==
    accounts' = [accounts EXCEPT ![u] = [key |-> accounts[u].key,
                                         public |-> public, hidden |-> hidden]]

Mint(u, x) ==
    /\ x > 0 /\ x <= accounts[u].public
    /\ accounts[u].hidden + x < MaxCoin
    /\ Balance(u, accounts[u].public - x, accounts[u].hidden + x)
    /\ UNCHANGED pending

Redeem(u, x) ==
    /\ x > 0 /\ x <= accounts[u].hidden
    /\ Balance(u, accounts[u].public + x, accounts[u].hidden - x)
    /\ UNCHANGED pending

\* The transfer is out of the sender's hands at once.
Send(u, to, x, id) ==
    /\ x > 0 /\ x <= accounts[u].hidden
    /\ \A p \in pending : p.id # id
    /\ Balance(u, accounts[u].public, accounts[u].hidden - x)
    /\ pending' = pending \cup {[id |-> id, to |-> to, amount |-> x]}

\* A transfer is credited to the key it names, and then it is gone.
Credit(u, p) ==
    /\ p \in pending
    /\ p.to = <<u, accounts[u].key>>
    /\ accounts[u].hidden + p.amount < MaxCoin
    /\ Balance(u, accounts[u].public, accounts[u].hidden + p.amount)
    /\ pending' = pending \ {p}

Next ==
    \E u \in Users :
        \/ \E x \in 0..MaxInit, k \in Keys : Open(u, x, k[2])
        \/ \E x \in 1..MaxCoin : Mint(u, x) \/ Redeem(u, x)
        \/ \E x \in 1..MaxCoin, to \in Keys, id \in Ids : Send(u, to, x, id)
        \/ \E p \in pending : Credit(u, p)

Spec == Init /\ [][Next]_ledger

=============================================================================
