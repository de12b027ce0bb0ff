----------------------------- MODULE MCOneOutOfN -----------------------------
EXTENDS OneOutOfN

MCShapes == {<<2, 3>>, <<3, 2>>}
MCSizes(k, d) == 1..(Power(k, d))
MCRows(k) == IF k = 2 THEN {<<1>>, <<3>>} ELSE {<<1, 3>>, <<4, 2>>}
MCBlinds == {<<1, 2, 3, 4>>}
MCRhos(d) == IF d = 2 THEN {<<1, 3>>, <<4, 0>>} ELSE {<<1, 3, 2>>, <<4, 0, 1>>}

=============================================================================
