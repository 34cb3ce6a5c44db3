-------------------------- MODULE MCJudgmentReplay --------------------------
(* Instances of JudgmentReplay for TLC. *)
EXTENDS JudgmentReplay, TLC

CONSTANTS i1, i2

TwoInvocations == {i1, i2}
ReplaySymmetry == Permutations(TwoInvocations)

=============================================================================
