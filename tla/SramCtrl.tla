------------------------------ MODULE SramCtrl ------------------------------
(***************************************************************************)
(* soclib/sram_ctrl.v with an asynchronous SRAM on its pins, as wide as a  *)
(* word.  A cycle has two halves: sram_we_n follows int_we_n in the middle *)
(* of it, all else changes at its end.  While sram_we_n is low in either   *)
(* half the SRAM writes what is then on its pins.                          *)
(***************************************************************************)
EXTENDS MemoryPort

VARIABLES
  need_wait,  \* a parameter of the module, which does not change
  sram,       \* what the SRAM holds
  state, cnt, pendingid, mem_readdata, mem_readdataid,
  sram_a, sram_be, sram_oe, sram_dout, sram_dout_en,
  int_we, sram_we

\* be, oe and we are the complements of the pins, which are active low;
\* sram_be is the set of lanes enabled.  sram_cs_n is low from the first cycle.
pins == <<sram_a, sram_be, sram_oe, sram_dout, sram_dout_en, int_we>>
vars == <<need_wait, sram, state, cnt, pendingid, mem_readdata, mem_readdataid, pins, sram_we>>

TypeOK ==
  /\ need_wait \in BOOLEAN
  /\ DOMAIN sram = Addr
  /\ state \in {"S_IDLE", "S_READWAIT", "S_WRITE1", "S_WRITE2"}
  /\ cnt \in 0 .. 2 * burst_length - 1
  /\ pendingid \in Ids \cup {0}
  /\ mem_readdataid \in Ids \cup {0}
  /\ sram_a \in Addr
  /\ sram_be \subseteq Lanes
  /\ {sram_oe, sram_dout_en, int_we, sram_we} \subseteq BOOLEAN

Bursting        == ~Negative(cnt, burst_bits)
mem_waitrequest == state # "S_IDLE" \/ Bursting

Init ==
  /\ need_wait \in BOOLEAN
  /\ sram = Content
  /\ state = "S_IDLE"
  /\ cnt = 2 * burst_length - 1
  /\ pendingid = 0
  /\ mem_readdata = None /\ mem_readdataid = 0
  /\ sram_a = 0 /\ sram_be = {} /\ sram_oe = FALSE
  /\ sram_dout = None /\ sram_dout_en = FALSE
  /\ int_we = FALSE /\ sram_we = FALSE

----------------------------------------------------------------------------
(* The SRAM: the data pins have the word of whoever drives them alone.     *)

sram_d ==
  IF sram_dout_en /\ ~sram_oe THEN sram_dout
  ELSE IF sram_oe /\ ~sram_dout_en THEN sram[sram_a]
  ELSE None

Merged(old) == [l \in Lanes |-> IF l \notin sram_be THEN old[l]
                                ELSE IF sram_d = None THEN None ELSE sram_d[l]]

Stable == IF int_we \/ sram_we THEN [sram EXCEPT ![sram_a] = Merged(@)] ELSE sram

Chip == sram' = Stable /\ sram_we' = int_we

----------------------------------------------------------------------------
Paused == IF need_wait THEN "S_READWAIT" ELSE "S_IDLE"

Continue ==
  /\ state = "S_IDLE" /\ Bursting
  /\ cnt' = Down(cnt, burst_bits)
  /\ sram_a' = (sram_a + 1) % Words
  /\ mem_readdata' = sram_d
  /\ mem_readdataid' = pendingid
  /\ state' = Paused
  /\ sram_dout_en' = FALSE
  /\ UNCHANGED <<pendingid, sram_be, sram_oe, sram_dout, int_we>>

Read(id, a) ==
  /\ ~mem_waitrequest
  /\ pendingid' = id
  /\ sram_a' = a
  /\ sram_oe' = TRUE
  /\ sram_be' = Lanes
  /\ int_we' = FALSE
  /\ sram_dout_en' = FALSE
  /\ cnt' = burst_length - 1
  /\ state' = Paused
  /\ mem_readdataid' = 0
  /\ UNCHANGED <<mem_readdata, sram_dout>>

Store(a, w) ==
  /\ ~mem_waitrequest
  /\ sram_a' = a
  /\ sram_dout_en' = TRUE
  /\ sram_dout' \in {d \in [Lanes -> Values] : \A l \in DOMAIN w : d[l] = w[l]}
  /\ sram_be' = DOMAIN w
  /\ sram_oe' = FALSE
  /\ int_we' = TRUE
  /\ state' = "S_WRITE1"
  /\ mem_readdataid' = 0
  /\ UNCHANGED <<cnt, pendingid, mem_readdata>>

Idle ==
  /\ ~mem_waitrequest
  /\ sram_oe' = FALSE
  /\ sram_dout_en' = FALSE
  /\ int_we' = FALSE
  /\ mem_readdataid' = 0
  /\ UNCHANGED <<state, cnt, pendingid, mem_readdata, sram_a, sram_be, sram_dout>>

ReadWait ==
  /\ state = "S_READWAIT"
  /\ state' = "S_IDLE"
  /\ sram_dout_en' = FALSE
  /\ UNCHANGED int_we

Write1_Releases ==
  /\ state = "S_WRITE1"
  /\ sram_dout_en' = FALSE
  /\ int_we' = need_wait
  /\ state' = IF need_wait THEN "S_WRITE2" ELSE "S_IDLE"

Write1 ==
  /\ state = "S_WRITE1"
  /\ sram_dout_en' = TRUE
  /\ int_we' = need_wait
  /\ state' = IF need_wait THEN "S_WRITE2" ELSE "S_IDLE"

Write2 ==
  /\ state = "S_WRITE2"
  /\ sram_dout_en' = TRUE
  /\ int_we' = FALSE
  /\ state' = "S_IDLE"

Pass ==
  /\ ReadWait \/ Write1 \/ Write2
  /\ mem_readdataid' = 0
  /\ UNCHANGED <<cnt, pendingid, mem_readdata, sram_a, sram_be, sram_oe, sram_dout>>

Clock(req) ==
  /\ \/ Continue
     \/ Pass
     \/ req.op = "read" /\ Read(req.id, req.a)
     \/ req.op = "write" /\ Store(req.a, req.w)
     \/ req.op = "none" /\ Idle
  /\ Chip
  /\ UNCHANGED need_wait

Next == \E req \in Requests : Clock(req)

Spec == Init /\ [][Next]_vars

----------------------------------------------------------------------------
Left == IF Bursting THEN cnt + 1 ELSE 0

Memory == INSTANCE BurstMemory WITH
  mem    <- Stable,
  owed   <- [i \in 1 .. Left |-> [id |-> pendingid, data |-> sram[(sram_a + i - 1) % Words]]],
  answer <- IF mem_readdataid = 0 THEN None ELSE [id |-> mem_readdataid, data |-> mem_readdata],
  reset  <- FALSE

(* The SRAM sees each write under one address, whole and only in the lanes *)
(* asked for, although the write strobe ends half a cycle after the        *)
(* controller takes the next request; bursts have their words in order.    *)
Bursts == Memory!Spec

=============================================================================
