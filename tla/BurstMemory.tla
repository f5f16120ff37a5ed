---------------------------- MODULE BurstMemory ----------------------------
(***************************************************************************)
(* What a memory controller promises the processor.  In a cycle in which   *)
(* it is ready it takes a request: a write takes effect at once, and the   *)
(* words of a read are returned in the order of their addresses, one at a  *)
(* time, after those of earlier reads, under the id of who asked.          *)
(***************************************************************************)
EXTENDS MemoryPort

VARIABLES
  mem,    \* the words in memory
  owed,   \* answers that are still to come
  answer, \* mem_readdataid and mem_readdata, or None
  reset   \* the controller was in reset in the cycle before

vars == <<mem, owed, answer, reset>>

Init ==
  /\ mem = Content
  /\ owed = <<>>
  /\ answer = None
  /\ reset = FALSE

Burst(id, a) == [i \in 1 .. burst_length |-> [id |-> id, data |-> mem[a + i - 1]]]

Answer(more) ==
  LET all == owed \o more
  IN  \/ answer' = None /\ owed' = all
      \/ all # <<>> /\ answer' = Head(all) /\ owed' = Tail(all)

Read(id, a) == Answer(Burst(id, a)) /\ UNCHANGED mem

Store(a, w) == mem' = Write(mem, a, w) /\ Answer(<<>>)

Wait == Answer(<<>>) /\ UNCHANGED mem

\* A reset forgets the reads, not the memory.
Reset == owed' = <<>> /\ answer' = None /\ UNCHANGED mem

Next ==
  \/ reset' /\ Reset
  \/ /\ ~reset'
     /\ \/ \E id \in Ids, a \in Lines : Read(id, a)
        \/ \E a \in Stored, w \in Written : Store(a, w)
        \/ Wait

Spec == Init /\ [][Next]_vars

=============================================================================
