--------------------------- MODULE MCBackendQueries ---------------------------
EXTENDS BackendQueries

CONSTANTS alice, bob

MCUsers == {alice, bob}

Symmetry == Permutations(MCUsers)

MCSelf == {alice}

AmountsOne == {1}
AmountsTwo == {1, 2}

=============================================================================
