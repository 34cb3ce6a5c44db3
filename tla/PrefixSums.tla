------------------------------ MODULE PrefixSums ------------------------------
(***************************************************************************)
(* The running totals of the code (sum over receipts, over an attempt      *)
(* plan, over accounting events).                                          *)
(***************************************************************************)
EXTENDS Naturals

\* f[1] + ... + f[n].
SumTo(f, n) ==
    LET sum[i \in 0..n] == IF i = 0 THEN 0 ELSE sum[i - 1] + f[i]
    IN  sum[n]

=============================================================================
