------------------------------ MODULE Arithmetic ------------------------------
(***************************************************************************)
(* Sums and powers, as recursive functions.                                *)
(***************************************************************************)
EXTENDS Integers

\* The sum of f[1] .. f[n].
SumTo(n, f) ==
    LET s[k \in 0..n] == IF k = 0 THEN 0 ELSE s[k - 1] + f[k] IN s[n]
\* b to the n.
Power(b, n) ==
    LET p[k \in 0..n] == IF k = 0 THEN 1 ELSE b * p[k - 1] IN p[n]

=============================================================================
