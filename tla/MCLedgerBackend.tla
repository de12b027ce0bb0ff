--------------------------- MODULE MCLedgerBackend ---------------------------
EXTENDS LedgerProperties, TLC

CONSTANTS alice, bob

MCUsers == {alice, bob}

\* No property and no action chooses between the users.
Symmetry == Permutations(MCUsers)

MCSelf == {alice}

AmountsOne == {0, 1}
AmountsSmall == {0, 1, 2}
AmountsWide == {0, 1, 2, 3}

=============================================================================
