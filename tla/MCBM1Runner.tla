---------------------------- MODULE MCBM1Runner ----------------------------
(* Instances of BM1Runner for TLC. *)
EXTENDS BM1Runner, TLC

CONSTANTS p1, p2

TwoProcesses == {p1, p2}
OneProcess == {p1}
ProcessSymmetry == Permutations(TwoProcesses)

\* Two attempts that fit the ceiling of 10 together.
AffordablePlan == {<<6, 4>>}
\* ... and two that do not.
TwoPlans == AffordablePlan \cup {<<6, 5>>}

=============================================================================
