----------------------------- MODULE MCPipeline -----------------------------
(***************************************************************************)
(* Instances of Pipeline for TLC.  A program is any sequence over a small  *)
(* set of instructions in which no delay slot holds a control transfer.    *)
(***************************************************************************)
EXTENDS Pipeline

I(op, rs, rt, rd, target) ==
  [op |-> op, rs |-> rs, rt |-> rt, rd |-> rd, target |-> target]

ProgramsOver(is) ==
  {p \in [Code -> is] :
     \A a \in Code : HasDelaySlot(p[a]) => ~HasDelaySlot(p[Plus(a, 1)])}

CONSTANTS r1, r2

\* Loads, stores, their users and branches.
MemoryInstructions ==
  { I("addiu", r1, R0, r2, 0), I("addiu", r2, R0, r1, 0), I("lw", r1, R0, r1, 0),
    I("sw", r2, r1, R0, 0), I("beq", R0, r1, R0, 0), I("beq", r1, r2, R0, 3) }

\* HI and LO, in and out of delay slots, and behind loads that miss.
HiLoInstructions ==
  { I("addiu", r1, R0, r1, 0), I("mult", r1, R0, R0, 0), I("mthi", r1, R0, R0, 0),
    I("mfhi", R0, R0, r1, 0), I("jal", R0, R0, r1, 2), I("lw", R0, R0, r2, 0) }

\* Instructions that flush what is behind them, and jumps to registers.
SerialInstructions ==
  { I("jal", R0, R0, r1, 2), I("synci", R0, R0, R0, 0), I("break", R0, R0, R0, 0),
    I("sw", R0, r1, R0, 0), I("jalr", r1, R0, r2, 0), I("lw", R0, R0, r1, 0) }

MCPrograms ==
  UNION {ProgramsOver(is) :
           is \in {MemoryInstructions, HiLoInstructions, SerialInstructions}}

(* The programs are among those that the proofs are about.                 *)
ASSUME MCProgramsWellFormed == \A p \in MCPrograms : WellFormed(p)

MCRacePrograms == ProgramsOver(MemoryInstructions)

=============================================================================
