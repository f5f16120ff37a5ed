------------------------------- MODULE Video -------------------------------
(***************************************************************************)
(* The memory of the DE2-70 board under its three users: toplevel.v gives  *)
(* the port to the frame buffer reader of video.v before the processor,    *)
(* whose stages ME and IF share it as one (yari.v), and ssram_ctrl.v is at *)
(* the other end.  The words that the reader gets wait in a FIFO for the   *)
(* beam.                                                                   *)
(*                                                                         *)
(* Addresses tell the SRAM from the Flash, and are otherwise followed in   *)
(* the reader only.  The beam shows a word at most every WordTime cycles,  *)
(* FB_SIZE of them in a frame; then comes the vertical sync.               *)
(***************************************************************************)
EXTENDS MemoryPort

CONSTANTS
  FlashDelay, ResetCycles,
  FB_BEGIN, FB_SIZE,
  AddressMod,  \* addresses wrap here
  Threshold,   \* 32: the weight of fifo_used[5]
  FifoSize,    \* 128
  WordTime, Porch, SyncCycles

ID_YARI == 1
ID_FB   == 3

\* cnt of ssram_ctrl.v starts out three words before the end of a burst, and
\* may start below zero once.  The frame buffer is in the SRAM.  The FIFO has
\* room beyond the threshold for two bursts and what is in the pipeline.
ASSUME VideoAssumption ==
  /\ burst_length >= 2
  /\ FlashFrom > 0
  /\ FlashDelay \in 1 .. 127 /\ ResetCycles \in Nat \ {0, 1}
  /\ {ID_YARI, ID_FB} \subseteq Ids
  /\ FB_SIZE \in Nat /\ FB_SIZE % burst_length = 0
  /\ AddressMod \in Nat \ {0} /\ FB_BEGIN \in 0 .. AddressMod - 1
  /\ Threshold \in Nat /\ FifoSize = 4 * Threshold
  /\ 2 * burst_length + 4 <= Threshold
  /\ {WordTime, Porch, SyncCycles} \subseteq Nat \ {0}

VARIABLES
  ssram, flash, chip_a, chip_q, state, cnt,
  pendingid, pendingid2, readdataid, mem_readdataid, mem_readdata,
  sram_a, sram_adsc, sram_adv, sram_be, sram_oe, sram_we, sram_dout, sram_dout_en,
  flash_id, flash_address, flash_delay, flash_data, rst,
  fb_read, fb_address, next, vsync, vsync_,
  used,          \* words in the FIFO
  shown, timer,  \* words of this frame that were shown; cycles since the last event
  request,       \* of the processor
  due,           \* words that the processor has yet to get
  passed         \* bursts of the reader since the processor has been waiting

ctrl == <<ssram, flash, chip_a, chip_q, state, cnt, pendingid, pendingid2, readdataid,
          mem_readdataid, mem_readdata, sram_a, sram_adsc, sram_adv, sram_be, sram_oe,
          sram_we, sram_dout, sram_dout_en, flash_id, flash_address, flash_delay,
          flash_data, rst>>
pump == <<fb_read, fb_address, next, vsync_>>
beam == <<vsync, shown, timer>>
yari == <<request, due, passed>>
vars == <<ctrl, pump, used, beam, yari>>

Ctrl == INSTANCE SsramCtrl

LongestTime == CHOOSE t \in {WordTime, Porch, SyncCycles} :
                 \A u \in {WordTime, Porch, SyncCycles} : u <= t

YariRequests ==
  {NoRequest, [op |-> "write", a |-> 0, w |-> <<>>]}
    \cup [op : {"read"}, id : {ID_YARI}, a : {0, FlashFrom} \cap Addr]

TypeOK ==
  /\ Ctrl!TypeOK
  /\ {fb_read, vsync, vsync_} \subseteq BOOLEAN
  /\ {fb_address, next} \subseteq 0 .. AddressMod - 1
  /\ used \in 0 .. FifoSize
  /\ shown \in 0 .. FB_SIZE
  /\ timer \in 0 .. LongestTime
  /\ request \in YariRequests
  /\ due \in 0 .. 2 * burst_length
  /\ passed \in 0 .. FifoSize

\* In the first vertical sync, whose beginning the reader has seen.
InitUsers ==
  /\ fb_read = FALSE /\ fb_address = 0 /\ next = FB_BEGIN
  /\ vsync = TRUE /\ vsync_ = TRUE
  /\ used = 0
  /\ shown = FB_SIZE /\ timer = 0
  /\ request = NoRequest
  /\ due = 0
  /\ passed = 0

Init == Ctrl!Init /\ InitUsers

----------------------------------------------------------------------------
(* toplevel.v                                                              *)

mem_request_Swapped ==
  IF request.op # "none" THEN request
  ELSE IF fb_read THEN [op |-> "read", id |-> ID_FB, a |-> 0]
  ELSE NoRequest

mem_request ==
  IF fb_read THEN [op |-> "read", id |-> ID_FB, a |-> 0] ELSE request

fb_waitrequest   == Ctrl!mem_waitrequest(mem_request.op = "write")
yari_waitrequest == fb_waitrequest \/ fb_read

----------------------------------------------------------------------------
(* video.v                                                                 *)

fifo_full      == used = FifoSize
fifo_used_5_High == (used \div (2 * Threshold)) % 2 = 1
fifo_used_5    == (used \div Threshold) % 2 = 1

Restart ==
  /\ vsync /\ ~vsync_
  /\ next' = FB_BEGIN
  /\ fb_read' = FALSE
  /\ UNCHANGED fb_address

Fetch ==
  /\ ~vsync /\ ~fifo_full /\ ~fifo_used_5
  /\ fb_read' = TRUE
  /\ fb_address' = next
  /\ next' = (next + 4) % AddressMod

Rest ==
  /\ \/ vsync /\ vsync_
     \/ ~vsync /\ (fifo_full \/ fifo_used_5)
  /\ fb_read' = FALSE
  /\ UNCHANGED <<fb_address, next>>

Pump ==
  /\ \/ ~fb_waitrequest /\ (Restart \/ Fetch \/ Rest)
     \/ fb_waitrequest /\ UNCHANGED <<fb_read, fb_address, next>>
  /\ vsync_' = vsync

\* The FIFO is cleared as long as vsync is up.
Fifo(taken) ==
  LET arrived == IF mem_readdataid = ID_FB /\ ~fifo_full THEN 1 ELSE 0
  IN  used' = IF vsync THEN 0 ELSE used + arrived - taken

----------------------------------------------------------------------------
(* The beam.  Between two words, and between lines, it may take its time.  *)

Tick == timer' = IF timer < LongestTime THEN timer + 1 ELSE timer

BeamAtWord ==
  ~vsync /\ shown < FB_SIZE /\ timer >= (IF shown = 0 THEN Porch ELSE WordTime)

Show ==
  /\ BeamAtWord
  /\ Fifo(IF used = 0 THEN 0 ELSE 1)
  /\ shown' = shown + 1
  /\ timer' = 1
  /\ UNCHANGED vsync

Blank == Fifo(0) /\ Tick /\ UNCHANGED <<vsync, shown>>

BeginSync ==
  /\ ~vsync /\ shown = FB_SIZE /\ timer >= Porch
  /\ Fifo(0)
  /\ vsync' = TRUE
  /\ timer' = 1
  /\ UNCHANGED shown

EndSync ==
  /\ vsync /\ timer >= SyncCycles
  /\ Fifo(0)
  /\ vsync' = FALSE
  /\ shown' = 0
  /\ timer' = 1

Beam == Show \/ Blank \/ BeginSync \/ EndSync

----------------------------------------------------------------------------
(* The processor holds a request until it is taken, or until one of ME     *)
(* goes before that of IF.  Each of these stages reads again only when all *)
(* words of its last read have come, so two reads may be under way.        *)

Taken == request.op # "none" /\ ~yari_waitrequest

Arrived == mem_readdataid = ID_YARI

MayAsk == {r \in YariRequests : r.op = "read" => due' <= burst_length}

Yari ==
  /\ due' = due + (IF Taken /\ request.op = "read" THEN burst_length ELSE 0)
               - (IF Arrived THEN 1 ELSE 0)
  /\ IF request.op = "none" \/ Taken
       THEN request' \in MayAsk
       ELSE request' = request \/ (request.op = "read" /\ request' \in MayAsk \ {NoRequest})
  /\ passed' = IF request.op = "none" \/ Taken THEN 0
               ELSE IF fb_read /\ ~fb_waitrequest THEN passed + 1 ELSE passed

Clock ==
  /\ Ctrl!Clock(mem_request, FALSE)
  /\ Pump
  /\ Beam
  /\ Yari

Spec == Init /\ [][Clock]_vars

----------------------------------------------------------------------------
(* The words that are still on their way when the reader stops find room   *)
(* before the bit that stops it, fifo_used[5], is zero again               *)
(* (video.v:139).                                                          *)
FifoHasRoom == used < 2 * Threshold

(* The beam never finds the FIFO empty, whatever the processor reads,      *)
(* while the reader goes before it (toplevel.v:224, video.v:199).          *)
NeverRed == BeamAtWord => used > 0

(* A word goes to the processor only if it asked for one: the wait signals *)
(* that each user sees agree with whose request the controller has taken   *)
(* (toplevel.v:226-234).                                                   *)
WordsAreDue == Arrived => due > 0

(* Although the reader goes first and asks again at once, the processor    *)
(* never waits for more than twice the bursts that bring an empty FIFO to  *)
(* the threshold.                                                          *)
YariGetsItsTurn == passed * burst_length <= 2 * Threshold

(* The reader reads the frame buffer, and as far beyond its end as the     *)
(* FIFO reaches: "Pixel pump (really: very simply master that issues reads *)
(* to the frame buffer)" (video.v:131).                                    *)
ReadsTheFrameBuffer ==
  fb_read => fb_address \in FB_BEGIN .. FB_BEGIN + FB_SIZE + 2 * Threshold - 1

=============================================================================
