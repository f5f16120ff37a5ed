---------------------------- MODULE Instructions ----------------------------
(***************************************************************************)
(* Instructions, of the kinds that the pipeline treats differently, and    *)
(* what they compute.  Code addresses and data values are both             *)
(* 0 .. Size-1 and wrap around as the 32-bit ones do.                      *)
(***************************************************************************)
EXTENDS Naturals

CONSTANTS
  Size,      \* of the code and of the range of values
  Regs,      \* the general registers but register 0
  R0,        \* register 0: reads 0, and is the absence of an operand
  Handler,   \* address of the exception handler of BREAK
  Programs   \* the programs to consider

Code == 0 .. Size - 1
Val  == 0 .. Size - 1
Reg  == Regs \cup {R0}

ControlTransfers == {"beq", "jal", "jalr"}
HiLoOps == {"mult", "mthi", "mfhi"}
Ops == {"addiu", "lw", "sw", "break", "synci"} \cup HiLoOps \cup ControlTransfers

\* rd is the register written, and target that of a control transfer.
Instr == [op : Ops, rs : Reg, rt : Reg, rd : Reg, target : Code]

Plus(a, k) == (a + k) % Size

ASSUME InstructionsAssumption ==
  /\ Size \in Nat \ {0, 1}
  /\ R0 \notin Regs
  /\ Handler \in Code
  /\ Programs \subseteq [Code -> Instr]

HasDelaySlot(i) == i.op \in ControlTransfers

\* Results, from the operands s and t.
Link(a)     == Plus(a, 2)
AddImm(s)   == Plus(s, 1)
Takes(i, s, t) == i.op \in {"jal", "jalr"} \/ (i.op = "beq" /\ s = t)
Target(i, s)   == IF i.op = "jalr" THEN s ELSE i.target

(* Programs that keep to the rules of the architecture: no transfer is in  *)
(* a delay slot, only some instructions have a result, and jumping to a    *)
(* register does not overwrite it, as it may be executed twice.            *)
WellFormed(p) ==
  \A a \in Code :
    /\ HasDelaySlot(p[a]) => ~HasDelaySlot(p[Plus(a, 1)])
    /\ p[a].rd # R0 => p[a].op \in {"addiu", "lw", "mfhi", "jal", "jalr"}
    /\ p[a].op = "jalr" /\ p[a].rs # R0 => p[a].rs # p[a].rd

=============================================================================
