------------------------ MODULE MCInstructionCaches -------------------------
(***************************************************************************)
(* The instruction caches of the processor and of the simulator for TLC.   *)
(* Both promise what InstructionMemory says.  The initial state says which *)
(* one runs; the other keeps its initial state.                            *)
(***************************************************************************)
EXTENDS MCStageI, SimICache

VARIABLE part

MCInit ==
  /\ Init
  /\ ICacheInit
  /\ part \in {"stage_I", "icache_fetch"}

MCNext ==
  /\ UNCHANGED part
  /\ \/ part = "stage_I" /\ Next /\ UNCHANGED icache
     \/ part = "icache_fetch" /\ ICacheNext /\ UNCHANGED vars

MCSpec == MCInit /\ [][MCNext]_<<part, vars, icache>>

\* Two words of one line of memory and one of another.
WrittenWords == {<<1, 0, 0>>, <<1, 0, 1>>, <<2, 0, 1>>}

=============================================================================
