----------------------------- MODULE SsramCtrl -----------------------------
(***************************************************************************)
(* DE2-70/rtl/ssram_ctrl.v with a pipelined synchronous SRAM and a Flash   *)
(* memory on its pins.  Reads of the SRAM overlap: the controller is ready *)
(* for the next while the words of the last are still on their way, and    *)
(* their ids move along with them.                                         *)
(***************************************************************************)
EXTENDS MemoryPort

CONSTANTS
  FlashDelay,  \* initial flash_delay: (tACC + tCYCLE - 1) / tCYCLE - 1
  ResetCycles  \* a reset lasts this long, or longer

VARIABLES
  ssram, flash,             \* what the SRAM and the Flash hold
  chip_a, chip_q,           \* the SRAM's address and output registers
  state, cnt,
  pendingid, pendingid2, readdataid, mem_readdataid, mem_readdata,
  sram_a, sram_adsc, sram_adv, sram_be, sram_oe, sram_we, sram_dout, sram_dout_en,
  flash_id, flash_address, flash_delay, flash_data,
  rst                       \* cycles of reset so far, up to ResetCycles

ids  == <<pendingid2, readdataid, mem_readdataid>>
pins == <<sram_a, sram_adsc, sram_adv, sram_be, sram_oe, sram_we, sram_dout, sram_dout_en>>
wait == <<flash_id, flash_address, flash_delay, flash_data>>
vars == <<ssram, flash, chip_a, chip_q, state, cnt, pendingid, ids, mem_readdata, pins, wait, rst>>

FLASH_DELAY_MSB == 7

TypeOK ==
  /\ DOMAIN ssram = Addr
  /\ chip_a \in Addr
  /\ state \in {"S_IDLE", "S_READ_BURST", "S_READ_FLASH"}
  /\ cnt \in 0 .. 2 * burst_length - 1
  /\ {pendingid, pendingid2, readdataid, mem_readdataid, flash_id} \subseteq Ids \cup {0}
  /\ sram_a \in Addr
  /\ {sram_adsc, sram_adv, sram_oe, sram_we, sram_dout_en} \subseteq BOOLEAN
  /\ sram_be \subseteq Lanes
  /\ flash_address \in 0 .. 2 * Words - 1
  /\ flash_delay \in 0 .. 2^(FLASH_DELAY_MSB + 1) - 1
  /\ rst \in 0 .. ResetCycles

Init ==
  /\ ssram = Content
  /\ flash = [h \in 2 * FlashFrom .. 2 * Words - 1 |-> Content[h \div 2][1 - (h % 2)]]
  /\ chip_a = 0 /\ chip_q = None
  /\ state = "S_IDLE" /\ cnt = 0
  /\ pendingid = 0 /\ pendingid2 = 0 /\ readdataid = 0
  /\ mem_readdataid = 0 /\ mem_readdata = None
  /\ sram_a = 0 /\ sram_adsc = FALSE /\ sram_adv = FALSE /\ sram_be = {}
  /\ sram_oe = FALSE /\ sram_we = FALSE /\ sram_dout = None /\ sram_dout_en = FALSE
  /\ flash_id = 0 /\ flash_address = 0 /\ flash_delay = 0
  /\ flash_data = None
  /\ rst = 0

----------------------------------------------------------------------------
(* The SRAM: at the end of a cycle it takes an address (ADSC), or advances *)
(* it within the burst (ADV); the word at the address it had goes to the   *)
(* output.  A write takes the data that is on the pins with the address.   *)

Advanced(a) == burst_length * (a \div burst_length) + ((a + 1) % burst_length)

NextA == IF sram_adsc THEN sram_a ELSE IF sram_adv THEN Advanced(chip_a) ELSE chip_a

sram_dq ==
  IF sram_dout_en /\ ~sram_oe THEN sram_dout
  ELSE IF sram_oe /\ ~sram_dout_en THEN chip_q
  ELSE None

Stable ==
  IF sram_adsc /\ sram_we
    THEN [ssram EXCEPT ![sram_a] = [l \in Lanes |->
            IF l \notin sram_be THEN @[l] ELSE IF sram_dq = None THEN None ELSE sram_dq[l]]]
    ELSE ssram

Chip ==
  /\ ssram' = Stable
  /\ chip_a' = NextA
  /\ chip_q' = ssram[chip_a]
  /\ UNCHANGED flash

----------------------------------------------------------------------------
mem_waitrequest_Ready(writing) == state # "S_IDLE"

mem_waitrequest(writing) == state # "S_IDLE" \/ (writing /\ pendingid2 # 0)

MoveIds_Always(reset) == readdataid' = pendingid2 /\ pendingid2' = pendingid

\* The ids move along with the words, unless the controller is in reset.
MoveIds(reset) ==
  IF reset
    THEN readdataid' = 0 /\ pendingid2' = 0
    ELSE readdataid' = pendingid2 /\ pendingid2' = pendingid

Returned(reset) ==
  IF reset
    THEN mem_readdataid' = 0 /\ UNCHANGED mem_readdata
    ELSE mem_readdataid' = readdataid /\ mem_readdata' = sram_dq

NoStrobe == sram_adsc' = FALSE /\ sram_be' = {} /\ sram_we' = FALSE /\ sram_adv' = FALSE

ReadFlash(id, a) ==
  /\ state = "S_IDLE" /\ a >= FlashFrom
  /\ flash_address' = 2 * a
  /\ flash_delay' = FlashDelay
  /\ flash_id' = id
  /\ pendingid' = 0
  /\ state' = "S_READ_FLASH"
  /\ NoStrobe
  /\ UNCHANGED <<cnt, flash_data, sram_a, sram_oe, sram_dout, sram_dout_en>>

Read(id, a) ==
  /\ state = "S_IDLE" /\ a < FlashFrom
  /\ sram_a' = a
  /\ sram_adsc' = TRUE
  /\ sram_dout_en' = FALSE
  /\ sram_oe' = TRUE
  /\ pendingid' = id
  /\ cnt' = (burst_length - 3) % (2 * burst_length)
  /\ state' = "S_READ_BURST"
  /\ sram_be' = {} /\ sram_we' = FALSE /\ sram_adv' = FALSE
  /\ UNCHANGED <<wait, sram_dout>>

\* All words that have been read must have left the data pins.
Store(a, w) ==
  /\ ~mem_waitrequest(TRUE)
  /\ sram_a' = a
  /\ sram_adsc' = TRUE
  /\ sram_dout_en' = TRUE
  /\ sram_dout' \in {d \in [Lanes -> Values] : \A l \in DOMAIN w : d[l] = w[l]}
  /\ sram_be' = DOMAIN w
  /\ sram_we' = TRUE
  /\ sram_oe' = FALSE
  /\ sram_adv' = FALSE
  /\ pendingid' = 0
  /\ UNCHANGED <<state, cnt, wait>>

Idle_KeepsId ==
  /\ state = "S_IDLE"
  /\ sram_dout_en' = FALSE
  /\ NoStrobe
  /\ UNCHANGED <<pendingid, state, cnt, wait, sram_a, sram_oe, sram_dout>>

Idle ==
  /\ state = "S_IDLE"
  /\ pendingid' = 0
  /\ sram_dout_en' = FALSE
  /\ NoStrobe
  /\ UNCHANGED <<state, cnt, wait, sram_a, sram_oe, sram_dout>>

ReadBurst(reset) ==
  /\ state = "S_READ_BURST"
  /\ sram_adv' = TRUE
  /\ sram_dout_en' = FALSE
  /\ cnt' = Down(cnt, burst_bits)
  /\ state' = IF Negative(cnt, burst_bits) \/ reset THEN "S_IDLE" ELSE state
  /\ sram_adsc' = FALSE /\ sram_be' = {} /\ sram_we' = FALSE
  /\ UNCHANGED <<pendingid, wait, sram_a, sram_oe, sram_dout>>

FlashWait(reset) ==
  /\ state = "S_READ_FLASH" /\ ~Negative(flash_delay, FLASH_DELAY_MSB)
  /\ flash_delay' = Down(flash_delay, FLASH_DELAY_MSB)
  /\ state' = IF reset THEN "S_IDLE" ELSE state
  /\ NoStrobe
  /\ UNCHANGED <<cnt, pendingid, flash_id, flash_address, flash_data, sram_a, sram_oe,
                 sram_dout, sram_dout_en>>

\* Two half words make a word, the high one first.
FlashRead(reset) ==
  /\ state = "S_READ_FLASH" /\ Negative(flash_delay, FLASH_DELAY_MSB)
  /\ flash_data' = flash[flash_address]
  /\ mem_readdata' = [l \in Lanes |-> IF l = High THEN flash_data ELSE flash[flash_address]]
  /\ flash_address' = (flash_address + 1) % (2 * Words)
  /\ mem_readdataid' = IF flash_address % 2 = 1 THEN flash_id ELSE 0
  /\ flash_delay' = FlashDelay
  /\ state' = IF (flash_address % (2 * burst_length) = 2 * burst_length - 1) \/ reset
                THEN "S_IDLE" ELSE state
  /\ NoStrobe
  /\ UNCHANGED <<cnt, pendingid, flash_id, sram_a, sram_oe, sram_dout, sram_dout_en>>

Clock(req, reset) ==
  /\ \/ /\ \/ req.op = "read" /\ (ReadFlash(req.id, req.a) \/ Read(req.id, req.a))
           \/ req.op = "write" /\ (Store(req.a, req.w) \/ (pendingid2 # 0 /\ Idle))
           \/ req.op = "none" /\ Idle
           \/ ReadBurst(reset)
           \/ FlashWait(reset)
        /\ Returned(reset)
     \/ FlashRead(reset)
  /\ MoveIds(reset)
  /\ Chip
  /\ rst' = IF ~reset THEN 0 ELSE IF rst < ResetCycles THEN rst + 1 ELSE rst

\* No one asks while in reset, and a reset is not shorter than ResetCycles.
MayLeaveReset == rst \in {0, ResetCycles}

Next ==
  \/ MayLeaveReset /\ \E req \in Requests : Clock(req, FALSE)
  \/ Clock(NoRequest, TRUE)

Spec == Init /\ [][Next]_vars

----------------------------------------------------------------------------
Owed(id, n, word(_)) ==
  [i \in 1 .. IF id = 0 THEN 0 ELSE n |-> [id |-> id, data |-> word(i)]]

Bursting == IF state = "S_READ_BURST"
              THEN (cnt + 3) % (2 * burst_length) ELSE 1

FlashWord(a) == [l \in Lanes |-> flash[2 * a + 1 - l]]

\* Words in the output register, behind it, and those not yet looked up.
InPipeline ==
  LET fetched(i) == chip_q
      behind(i)  == ssram[chip_a]
      later(i)   == Stable[burst_length * (NextA \div burst_length) + ((NextA + i - 1) % burst_length)]
      slow(i)    == FlashWord(flash_address \div 2 + i - 1)
  IN  Owed(readdataid, 1, fetched) \o Owed(pendingid2, 1, behind)
        \o Owed(pendingid, Bursting, later)
        \o Owed(IF state = "S_READ_FLASH" THEN flash_id ELSE 0,
                (2 * burst_length + 1 - (flash_address % (2 * burst_length))) \div 2, slow)

Memory == INSTANCE BurstMemory WITH
  mem    <- [a \in Addr |-> IF a < FlashFrom THEN Stable[a] ELSE FlashWord(a)],
  owed   <- IF rst > 0 THEN <<>> ELSE InPipeline,
  answer <- IF mem_readdataid = 0 \/ rst > 0 THEN None
              ELSE [id |-> mem_readdataid, data |-> mem_readdata],
  reset  <- rst > 0

(* Reads that overlap in the pipeline of the SRAM are answered in order,   *)
(* those from the Flash do not overtake them, a write waits until they     *)
(* have left the data pins, and after a reset nothing comes of what was    *)
(* read before (ssram_ctrl.v:118, 184).                                    *)
Bursts == Memory!Spec

=============================================================================
