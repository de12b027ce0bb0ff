---------------------------- MODULE MCBulletproof ----------------------------
EXTENDS Bulletproof

\* Two blinding vectors without a symmetry between their halves.
MCBlinds == {<<1, 0, 3, 2>>, <<0, 4, 1, 1>>}

=============================================================================
