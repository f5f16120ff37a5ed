-------------------------- MODULE SequentialMemory --------------------------
(***************************************************************************)
(* What a program may assume of loads and stores: they happen one at a     *)
(* time, in program order, and a load returns the last value stored in     *)
(* each byte of its word.  This is the memory of the instruction set       *)
(* simulator that the hardware is compared with, commit by commit          *)
(* (shared/yarisim/run_simple.c).                                          *)
(*                                                                         *)
(* visible is the memory as the program sees it, done the instruction that *)
(* completed last with its result, or None.                                *)
(***************************************************************************)
EXTENDS Naturals

CONSTANTS Addr, Lanes, Program, None

VARIABLES visible, done

vars == <<visible, done>>

Init ==
  /\ visible = [a \in Addr |-> [l \in Lanes |-> FALSE]]
  /\ done = None

Load(i) ==
  /\ i.op = "load"
  /\ done' = [i |-> i, res |-> visible[i.a]]
  /\ UNCHANGED visible

Store(i) ==
  /\ i.op = "store"
  /\ done' = [i |-> i, res |-> None]
  /\ visible' = [visible EXCEPT ![i.a] =
                   [l \in Lanes |-> IF l \in DOMAIN i.w THEN i.w[l] ELSE @[l]]]

\* Uncached instructions do not involve this memory.
Uncached(i) ==
  /\ i.op \in {"uload", "ustore"}
  /\ done' # None /\ done'.i = i
  /\ UNCHANGED visible

Bubble ==
  /\ done' = None
  /\ UNCHANGED visible

Next == Bubble \/ \E i \in Program : Load(i) \/ Store(i) \/ Uncached(i)

Spec == Init /\ [][Next]_vars
=============================================================================
