------------------------------ MODULE MCStageX ------------------------------
(***************************************************************************)
(* The two halves of stage EX for TLC: the control of the pipeline, in     *)
(* which a multiplication takes any time and gives a result that has a     *)
(* name, and the unit that takes that time to compute it.  The initial     *)
(* state says which half runs; the other keeps its initial state.          *)
(***************************************************************************)
EXTENDS MCPipeline, MultDiv

VARIABLE part

MCInit ==
  /\ Init
  /\ UnitInit
  /\ \/ part = "control"
     \/ part = "unit" /\ program = CHOOSE p \in Programs : TRUE

MCNext ==
  /\ UNCHANGED part
  /\ \/ part = "control" /\ Next /\ UNCHANGED unit
     \/ part = "unit" /\ UnitNext /\ UNCHANGED vars

MCSpec == MCInit /\ [][MCNext]_<<part, vars, unit>>

=============================================================================
