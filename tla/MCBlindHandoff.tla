--------------------------- MODULE MCBlindHandoff ---------------------------
(* Instances of BlindHandoff for TLC. *)
EXTENDS BlindHandoff, TLC

CONSTANTS p1, p2, s1, s2

TwoProcesses == {p1, p2}
TwoSessions == {s1, s2}
HandoffSymmetry == Permutations(TwoProcesses) \cup Permutations(TwoSessions)

=============================================================================
