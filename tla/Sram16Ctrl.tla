----------------------------- MODULE Sram16Ctrl -----------------------------
(***************************************************************************)
(* BeMicro/rtl/sram16_ctrl.v with an asynchronous SRAM of half words on    *)
(* its pins.  A word is two accesses, the low half first, and every access *)
(* is followed by cycles in which the controller only waits.  The two      *)
(* halves of a cycle are as in SramCtrl.                                   *)
(***************************************************************************)
EXTENDS MemoryPort

CONSTANT wait_cycles  \* up to 16

VARIABLES
  sram,  \* what the SRAM holds
  state, cnt, waitcnt, pendingid, mem_readdata, mem_readdataid,
  sram_a, sram_be, sram_oe, sram_dout, sram_dout_en,
  writedata_hi, be_hi,
  int_we, sram_we

pins == <<sram_a, sram_be, sram_oe, sram_dout, sram_dout_en, int_we>>
vars == <<sram, state, cnt, waitcnt, pendingid, mem_readdata, mem_readdataid,
          writedata_hi, be_hi, pins, sram_we>>

CNTSIGN  == burst_bits + 2
WAITSIGN == 4
Half     == 0 .. 2 * Words - 1

TypeOK ==
  /\ DOMAIN sram = Half
  /\ state \in {"S_IDLE", "S_WRITE1", "S_WRITE2", "S_WRITE3"}
  /\ cnt \in 0 .. 2^(CNTSIGN + 1) - 1
  /\ waitcnt \in 0 .. 2^(WAITSIGN + 1) - 1
  /\ pendingid \in Ids \cup {0}
  /\ mem_readdataid \in Ids \cup {0}
  /\ sram_a \in Half
  /\ {sram_be, be_hi, sram_oe, sram_dout_en, int_we, sram_we} \subseteq BOOLEAN

Waiting         == ~Negative(waitcnt, WAITSIGN)
Bursting        == ~Negative(cnt, CNTSIGN)
mem_waitrequest == state # "S_IDLE" \/ Bursting \/ Waiting

Init ==
  /\ sram = [h \in Half |-> Content[h \div 2][h % 2]]
  /\ state = "S_IDLE"
  /\ cnt = 2^(CNTSIGN + 1) - 1
  /\ waitcnt = 2^(WAITSIGN + 1) - 1
  /\ pendingid = 0
  /\ mem_readdata = [l \in Lanes |-> None] /\ mem_readdataid = 0
  /\ sram_a = 0 /\ sram_be = FALSE /\ sram_oe = FALSE
  /\ sram_dout = None /\ sram_dout_en = FALSE
  /\ writedata_hi = None /\ be_hi = FALSE
  /\ int_we = FALSE /\ sram_we = FALSE

----------------------------------------------------------------------------
sram_d ==
  IF sram_dout_en /\ ~sram_oe THEN sram_dout
  ELSE IF sram_oe /\ ~sram_dout_en THEN sram[sram_a]
  ELSE None

Stable == IF (int_we \/ sram_we) /\ sram_be THEN [sram EXCEPT ![sram_a] = sram_d] ELSE sram

Chip == sram' = Stable /\ sram_we' = int_we

----------------------------------------------------------------------------
Pause == waitcnt' = wait_cycles - 1

Count ==
  /\ Waiting
  /\ waitcnt' = Down(waitcnt, WAITSIGN)
  /\ mem_readdataid' = 0
  /\ UNCHANGED <<state, cnt, pendingid, mem_readdata, writedata_hi, be_hi, pins>>

At(label) == state = label /\ ~Waiting

\* Only a complete word is announced.
Continue ==
  /\ At("S_IDLE") /\ Bursting
  /\ Pause
  /\ cnt' = Down(cnt, CNTSIGN)
  /\ sram_a' = (sram_a + 1) % (2 * Words)
  /\ mem_readdata' = [l \in Lanes |-> IF l = High THEN sram_d ELSE mem_readdata[High]]
  /\ mem_readdataid' = IF sram_a % 2 = 1 THEN pendingid ELSE 0
  /\ UNCHANGED <<state, pendingid, writedata_hi, be_hi, sram_be, sram_oe, sram_dout,
                 sram_dout_en, int_we>>

Read(id, a) ==
  /\ ~mem_waitrequest
  /\ Pause
  /\ pendingid' = id
  /\ sram_a' = 2 * a
  /\ sram_oe' = TRUE
  /\ sram_be' = TRUE
  /\ int_we' = FALSE
  /\ sram_dout_en' = FALSE
  /\ cnt' = 2 * burst_length - 1
  /\ mem_readdataid' = 0
  /\ UNCHANGED <<state, mem_readdata, writedata_hi, be_hi, sram_dout>>

\* The data of a lane that is not enabled is on the port as well.
Store(a, w) ==
  /\ ~mem_waitrequest
  /\ Pause
  /\ sram_a' = 2 * a
  /\ sram_dout_en' = TRUE
  /\ sram_dout' \in IF Low \in DOMAIN w THEN {w[Low]} ELSE Values
  /\ writedata_hi' \in IF High \in DOMAIN w THEN {w[High]} ELSE Values
  /\ sram_be' = (Low \in DOMAIN w)
  /\ be_hi' = (High \in DOMAIN w)
  /\ sram_oe' = FALSE
  /\ int_we' = TRUE
  /\ state' = "S_WRITE1"
  /\ mem_readdataid' = 0
  /\ UNCHANGED <<cnt, pendingid, mem_readdata>>

Idle ==
  /\ ~mem_waitrequest
  /\ sram_oe' = FALSE
  /\ sram_dout_en' = FALSE
  /\ int_we' = FALSE
  /\ mem_readdataid' = 0
  /\ UNCHANGED <<state, cnt, waitcnt, pendingid, mem_readdata, writedata_hi, be_hi,
                 sram_a, sram_be, sram_dout>>

EndHalf_Strobes ==
  /\ \/ At("S_WRITE1") /\ state' = "S_WRITE2"
     \/ At("S_WRITE3") /\ state' = "S_IDLE"
  /\ UNCHANGED <<int_we, waitcnt, sram_a, sram_be, sram_dout>>

EndHalf ==
  /\ \/ At("S_WRITE1") /\ state' = "S_WRITE2"
     \/ At("S_WRITE3") /\ state' = "S_IDLE"
  /\ int_we' = FALSE
  /\ UNCHANGED <<waitcnt, sram_a, sram_be, sram_dout>>

SecondHalf ==
  /\ At("S_WRITE2")
  /\ Pause
  /\ sram_a' = 2 * (sram_a \div 2) + 1
  /\ sram_dout' = writedata_hi
  /\ sram_be' = be_hi
  /\ int_we' = TRUE
  /\ state' = "S_WRITE3"

Writing ==
  /\ EndHalf \/ SecondHalf
  /\ mem_readdataid' = 0
  /\ UNCHANGED <<cnt, pendingid, mem_readdata, writedata_hi, be_hi, sram_oe, sram_dout_en>>

Clock(req) ==
  /\ \/ Count
     \/ Continue
     \/ Writing
     \/ req.op = "read" /\ Read(req.id, req.a)
     \/ req.op = "write" /\ Store(req.a, req.w)
     \/ req.op = "none" /\ Idle
  /\ Chip

Next == \E req \in Requests : Clock(req)

Spec == Init /\ [][Next]_vars

----------------------------------------------------------------------------
\* The high half of a write is still to come.
HalfWay == state \in {"S_WRITE1", "S_WRITE2"} /\ be_hi

WordAt(a) ==
  [l \in Lanes |-> IF HalfWay /\ l = High /\ a = sram_a \div 2
                   THEN writedata_hi ELSE Stable[2 * a + l]]

Left == IF Bursting THEN (cnt + 2) \div 2 ELSE 0

Memory == INSTANCE BurstMemory WITH
  mem    <- [a \in Addr |-> WordAt(a)],
  owed   <- [i \in 1 .. Left |-> [id |-> pendingid,
                                  data |-> WordAt((sram_a \div 2 + i - 1) % Words)]],
  answer <- IF mem_readdataid = 0 THEN None ELSE [id |-> mem_readdataid, data |-> mem_readdata],
  reset  <- FALSE

(* A word that is read or written in two halves is still one word to the   *)
(* processor, and the write strobe never sees the next address.            *)
Bursts == Memory!Spec

=============================================================================
