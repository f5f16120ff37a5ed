----------------------------- MODULE MCStageI -----------------------------
(***************************************************************************)
(* Instances of StageI for TLC.                                            *)
(***************************************************************************)
EXTENDS StageI, TLC

FirstWord == {0}
EachLine  == {0, 3}

WaySymmetry == Permutations(Ways)

=============================================================================
