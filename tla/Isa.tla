-------------------------------- MODULE Isa --------------------------------
(***************************************************************************)
(* The processor as the instruction set simulator sees it: each step       *)
(* executes one instruction completely.  The program counter is a pair, so *)
(* that the instruction behind a control transfer (its delay slot) is      *)
(* executed before the transfer takes effect.  The data memory, whose      *)
(* caching is the subject of SequentialMemory, is one word.                *)
(***************************************************************************)
EXTENDS Instructions

VARIABLES program, pc, pc_next, r, hi, mem

vars == <<program, pc, pc_next, r, hi, mem>>

Get(x) == IF x = R0 THEN 0 ELSE r[x]

Set(x, v) == r' = IF x = R0 THEN r ELSE [r EXCEPT ![x] = v]

Init ==
  /\ program \in Programs
  /\ pc = 0
  /\ pc_next = 1
  /\ r = [x \in Regs |-> 0]
  /\ hi = 0
  /\ mem = 0

Execute(i) ==
  LET s == Get(i.rs)
      t == Get(i.rt)
  IN
  /\ Set(i.rd, CASE i.op = "addiu" -> AddImm(s)
                 [] i.op = "lw" -> mem
                 [] i.op = "mfhi" -> hi
                 [] OTHER -> Plus(pc_next, 1))
  /\ hi' = IF i.op \in {"mult", "mthi"} THEN s ELSE hi
  /\ mem' = IF i.op = "sw" THEN t ELSE mem
  /\ pc' = IF i.op = "break" THEN Handler ELSE pc_next
  /\ pc_next' = IF Takes(i, s, t) THEN Target(i, s) ELSE Plus(pc', 1)
  /\ UNCHANGED program

Next == Execute(program[pc])

Spec == Init /\ [][Next]_vars

=============================================================================
