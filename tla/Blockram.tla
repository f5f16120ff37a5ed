------------------------------ MODULE Blockram ------------------------------
(***************************************************************************)
(* soclib/blockram.v: the controller of on-chip memory, and the memory of  *)
(* the simulated system.  Clock is a cycle of the clock in which req is on *)
(* the port; while the controller is busy it does not look at it.          *)
(***************************************************************************)
EXTENDS MemoryPort

VARIABLES
  ram, rddata,  \* dpram: its words, and the word that was looked up
  cnt, read_address, mem_readdataid

vars == <<ram, rddata, cnt, read_address, mem_readdataid>>

TypeOK ==
  /\ DOMAIN ram = Addr
  /\ cnt \in 0 .. 2 * burst_length - 1
  /\ read_address \in Addr
  /\ mem_readdataid \in Ids \cup {0}

mem_waitrequest_Early == cnt \notin {0, 2 * burst_length - 1}

mem_waitrequest == ~Negative(cnt, burst_bits)

Init ==
  /\ ram = Content
  /\ rddata = Content[0]
  /\ cnt = 2 * burst_length - 1
  /\ read_address = 0
  /\ mem_readdataid = 0

\* The burst goes on: one more word is looked up.
Continue ==
  /\ mem_waitrequest
  /\ rddata' = ram[read_address]
  /\ cnt' = Down(cnt, burst_bits)
  /\ read_address' = (read_address + 1) % Words
  /\ UNCHANGED <<ram, mem_readdataid>>

Read(id, a) ==
  /\ ~mem_waitrequest
  /\ rddata' = ram[a]
  /\ read_address' = (a + 1) % Words
  /\ mem_readdataid' = id
  /\ cnt' = (burst_length - 2) % (2 * burst_length)
  /\ UNCHANGED ram

Store(a, w) ==
  /\ ~mem_waitrequest
  /\ ram' = Write(ram, a, w)
  /\ rddata' = ram[a]
  /\ mem_readdataid' = 0
  /\ UNCHANGED <<cnt, read_address>>

\* What is looked up for no one is not used.
Idle ==
  /\ ~mem_waitrequest
  /\ mem_readdataid' = 0
  /\ UNCHANGED <<ram, rddata, cnt, read_address>>

Clock(req) ==
  \/ Continue
  \/ req.op = "read" /\ Read(req.id, req.a)
  \/ req.op = "write" /\ Store(req.a, req.w)
  \/ req.op = "none" /\ Idle

Next == \E req \in Requests : Clock(req)

Spec == Init /\ [][Next]_vars

----------------------------------------------------------------------------
Left == IF mem_waitrequest THEN cnt + 1 ELSE 0

Memory == INSTANCE BurstMemory WITH
  mem    <- ram,
  owed   <- [i \in 1 .. Left |-> [id |-> mem_readdataid,
                                  data |-> ram[(read_address + i - 1) % Words]]],
  answer <- IF mem_readdataid = 0 THEN None ELSE [id |-> mem_readdataid, data |-> rddata],
  reset  <- FALSE

(* A burst has as many words as the processor waits for, in order and      *)
(* under the id of who asked, and a write is not lost on a busy controller *)
(* (blockram.v:74).                                                        *)
Bursts == Memory!Spec

=============================================================================
