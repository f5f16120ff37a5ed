# YARI in TLA+

YARI is a soft-core processor (MIPS-I instructions, in order, one memory
pipeline) with its instruction set simulator, its board support and a serial
monitor. This directory holds TLA+ models of its own logic, the TLC
configurations that check them and proofs of the main results. `PROJECT.json`
maps every definition to the lines it models.

## 1. Inventory

| Part | Source | State | Operations | Hard behaviour |
|---|---|---|---|---|
| Stage IF, instruction cache | `yari-core/stage_I.v` | fetch pc pipeline, tags and data of 4 ways, fill engine, pending synci | fetch, fill, synci invalidate, restart, kill | a restart or a synci during a fill or a lookup; fills that bypass the store buffer |
| Stage DE | `stage_D.v` | instruction register, register file, replay mux | decode, forward, delay-slot bubble, load-use restart | restarts while EX or ME restart too |
| Stage EX | `stage_X.v` | operands, HI/LO, multiplier, divider, synci request | ALU, branch restarts, mult/div hazards | HI/LO written before ME can kill; restart into a delay slot |
| Stage ME, data cache | `stage_M.v` | tags and data of 4 ways, store buffer, fill engine, uncached port, restart flags | load, store, uncached load/store, fill, drain | everything at once: one flag (`m_restart`) with many owners |
| Arbiter | `yari.v:356-384` | none | DC before IC on one memory port | starvation, answers told apart by id |
| Memory controllers | `soclib/blockram.v`, `sram_ctrl.v`, `BeMicro/rtl/sram16_ctrl.v`, `DE2-70/rtl/ssram_ctrl.v` | burst counter, pending ids | 4-word read bursts, single masked writes | pipelined ids, turnaround, reset in a burst |
| Peripheral bus | `soclib/pipeconnect.v` | pending read of the demultiplexer | route requests, merge answers | HOLD, read/write exclusion, invariants #1-#4 of its comment |
| Serial port | `soclib/rs232*.v` | shift registers, data and tag registers | send, receive | overrun, busy flag, sampling |
| Monitor | `firmware/tinymon.c` | ring buffer, command state | receive, d85 decode, load, run | ring buffer overflow, a busy transmitter |
| Video DMA | `DE2-70/rtl/video.v` | fetch address, FIFO, beam | read bursts, vsync | FIFO limits, vsync against outstanding reads |
| Simulator | `yarisim/run_simple.c` | registers, I$, memory | one instruction per turn, compare commits | stale I$, delay slots, overflow test |

Parts interact by wires sampled at the same clock edge (the pipeline stages),
by request/answer ports (`dmem_*`, `imem_*`, `mem_*` with ids, the peripheral
`REQ`/`RES`), and by the commit trace that the simulator reads.

What makes each correct: ME - loads and stores look like a memory without caches
(`SequentialMemory`), nothing is lost when the pipeline is restarted, every
restart ends; IF - an instruction fetched is the one in memory as of the last
synci; pipeline - each instruction commits once, in program order, with the
delay slot of a branch; memory - each request is answered once, in order, to
the port that asked; serial - bytes arrive in order and none is invented.

## 2. Plan

1. `StageM`, `SequentialMemory` (done): the data cache and store buffer, the
   largest source of concurrency in the core. Proofs in `StageM_proofs`.
2. `Instructions`, `Isa`, `Pipeline` (done): IF, DE, EX and ME as sources of restarts
   and flushes; the abstract specification is the simulator's main loop. Shows what
   `restart_pc`'s priority (`yari.v:161-163`) loses. Proofs in `Pipeline_proofs`.
3. `InstructionMemory`, `StageI` (done): the instruction cache with synci, against a
   memory and a store buffer that drains late; the abstract specification is what
   `icache_fetch` and `synci` of `run_simple.c` leave a program to rely on. Proofs in
   `StageI_proofs`.
4. `MemoryPort`, `BurstMemory`, `Blockram`, `SramCtrl`, `Sram16Ctrl`, `SsramCtrl`,
   `Video` (done): the memory controllers, each refining one abstract burst memory, and
   the DE2-70's memory with all its users. Proofs in `Memory_proofs`.
5. `MultDiv` (done): the iterative machines of EX against the products and quotients that
   the simulator computes. Proofs in `MultDiv_proofs`.
6. `Ascii`, `Tinymon`, `Dump`, `Loader`, `SerialInput`, `ByteStream` (done): the monitor,
   the program that talks to it, and the serial port between them. Proofs in
   `Tinymon_proofs` and `SerialInput_proofs`.
7. `SimICache` (done): the simulator's own instruction cache, shown to implement the
   `InstructionMemory` of the processor's. Proofs in `SimICache_proofs`.

What could follow: IF and ME composed over one memory.

## 3. The models

### The model of stage ME

`StageM.tla`. One step is one rising clock edge, `Clock(wait, rdv, hold)`, whose
arguments are the input wires `dmem_waitrequest`, `dmem_readdatavalid` and
`HOLD`. All registers change together, so `Clock` is a conjunction; each
conjunct owns a group of registers and contains every assignment to them in
the order of the `always` block (a later assignment wins):

| Conjunct | Registers | Source |
|---|---|---|
| `Restart` | `m_restart`, `one_shot_restart` | 533-535, 571, 586-589, 629, 653-656, 686, 722, 735 |
| `Retire` | `m` (`m_valid`, `m_instr`, `m_res`) | 531-547, 572, 587, 611, 630, 654, 687 |
| `StoreBuffer` | `store_buffer`, `wp`, `rp`, `x_last_store_address` | 519, 581-600, 755 |
| `MemoryPort` | `dmem` | 744-770 |
| `Fill` | `outstanding_cache_miss`, `fill_cache`, `fill` | 684-703, 716-727, 766 |
| `TagRam`, `DataRam` | `tag_ram`, `dc_ram` | 392-507 |
| `Peripherals` | `peripherals_req`, `got_uncached_data`, ... | 523-577, 607-634, 729-736 |

`x` is the instruction in EX/ME after the flush (`x_valid & ~flush_X`), with the
tags and data words read for it one cycle before (`x_tag`, `dc_q`): the memories
return old data when read and written in one cycle (`simpledpram.v`, `dpram.v`).

External parts: `Memory` is any controller - it takes a request or makes it wait,
and sends the words of a line in order after any delay; some controllers accept the next
request during the last words of a burst, so `wait` is free. `Device` is a
receive register that moves on when read. `Front` is the rest of the pipeline:
nothing valid while `m_restart` is up and in the two cycles behind it, then the
restarted instruction after any delay.

Abstractions: a byte lane holds one bit; the replacement LFSR is a free choice
of the way; performance counters, `$display` and the fields only they use are
left out, as is the combinational rotation of bytes. A load is whole words;
its extraction happens behind this stage.

Parameters beside sizes: `LoadBehindStore = "hits"` restricts programs to those
in which a load right behind a store to the same word hits the cache, which is what the comment
at `stage_M.v:663` takes for granted; `"any"` does not. `SlowPeripherals` lets the peripheral assert HOLD; no board does.

### The model of the pipeline

`Pipeline.tla`. One step is one rising clock edge. An instruction in a stage is
known by its address (`d`, `x`, `m`; `None` where the valid bit is 0), as the
program, one of `Programs`, does not change. `DE` and `EX` are the instructions
that the next stage takes, after the flush.

| Conjunct | Registers | Source |
|---|---|---|
| `Fetch` | `i_pc`, `i_npc`, `i2_valid`, `state` | `stage_I.v` 229-368 |
| `Decode` | `d`, operands read, `d_restart`, `d_restart_pc`, `d_load_use_hazard`, `d_flush_X` | `stage_D.v` 85-334 |
| `Execute` | `x`, forwarded operands, `x_restart`, `x_restart_pc`, `x_flush_D`, `x_synci`, HI | `stage_X.v` 232-574 |
| `Access`, `RestartME` | `m`, `m_res`, `mem`, `m_restart`, `one_shot_restart` | `stage_M.v` 518-742 |
| `WriteBack` | `regs`, `w_wbr`, `w_res` | `stage_D.v` 115-141 |

The rest of the state is history: `pc`, `pc_next` and `hi` follow the instructions
that retire, `x_target` remembers where a transfer in EX goes, `quiet` counts
cycles. None of it influences the registers.

`Isa.tla` is the main loop of `run_simple.c`: one instruction per step, a pair of
program counters for the delay slot. `RetiresInOrder` maps its registers to the
register file with the result in ME written (`r`), its memory to `mem`, its
program counters and HI to the history.

External, hence inputs of `Clock`: whether a fetch hits (`hit`), whether a fill or a
synci lookup is over (`resume`), whether ME must restart what it has
(`hazard`: once, for one cycle; wait, until data has arrived) and whether that data
arrives (`over`), when the multiplier is done (`finish`), and the ALU's output for an
instruction that has none (`junk`). `StageM` justifies what is assumed of them: a
restart that waits lasts at least two cycles (`awaited`), only a store, or a load behind
a store, is restarted for one cycle. A load that is both
(`StageM_lost`) is left out here, as in `StageM` with `LoadBehindStore = "hits"`.

Abstractions: addresses and values are numbers modulo `Size`; the ALU is one
addition; `beq`, `jal`, `jalr` stand for all branches and jumps; `mult` for the four
multi-cycle operations, with HI its operand, and LO goes as HI; the data memory is
one word. No delay slot holds a control transfer (MIPS leaves it undefined).
`jalr` whose result is its own operand is not in the programs: it cannot be executed
twice, which restarting a delay slot needs; the MIPS manual forbids it for that
reason.

`OneShotRaces = FALSE` leaves out the one coincidence that loses instructions: a
restart of ME that lasts one cycle with one of DE. `Pipeline_race` has it, and finds
the lost instruction; the refinement is proved without it. It is also what `StageM`'s `Front` takes for granted: that the
restarted instruction comes next.

### The model of the fetch stage

`StageI.tla`. One step is one rising clock edge. `Clock` is again a conjunction, by
the registers that each conjunct owns:

| Conjunct | Registers | Source |
|---|---|---|
| `Fetch` | `i_pc`, `i_npc`, `i1_valid`, `i2_valid`, `state`, `fill_wi`, `fill_set` | `stage_I.v` 229-360 |
| `PendingSynci` | `pending_synci`, `_a`, `_pc` (a record, or `None`) | 232-236, 316 |
| `ReadRequest` | `imem_read` (`imem_address` is the line of `i_pc`) | 238-241, 278-281 |
| `TagRam` | `tag_ram`, `ic_ram`, what they returned (`tag_q`, `ic_q`), `tag_write` | 175-221, 307-309, 337-340 |
| `IssueStores` | `store_buffer`, `dmem` | `stage_M.v` 581-600, 744-761 |
| `imem_waitrequest` | the arbiter | `yari.v` 367-384 |

`Fetch` has one operator per state of the machine; its `"running"` has three
(`Synchronising`, `Running`, `Missing`).

External: `Memory` takes a store or a read when it is idle and is then busy for some
cycles, up to `BusyCycles`; a read is answered by the words the line had when the
read was taken, after any delay, and the end of a read keeps it busy as a write does.
`Behind` is the rest of the pipeline: what has been delivered acts for three cycles (DE, EX,
ME: `window`) and may restart the fetch, store a word or execute SYNCI there; a
restart of ME lasts as long as ME likes. A SYNCI that ME restarts (`m_restart` is up in the
same cycle) is executed again, so it promises nothing (`Effective`).

The abstract specification `InstructionMemory` says what a program that writes
code may rely on: a fetch returns a word which the address holds or has held since
the last SYNCI of its line. `CodeIsSynchronised` maps its `code` to the memory with the
stores on their way (`Newest`), and `fetched` to `i_pc` and `i_instr`.

Abstractions: a word is its address and one of two versions, so a word in the wrong
place is noticed; addresses wrap at the end of the memory; the LFSR is a free choice
of the way; what the memories return in a cycle in which nothing looks at it is
not kept. The model begins behind the boot restart; `kill` is up only before. Fills of
the data cache and the video port, which delay stores even more, are not on the
port.

### The model of the multiplier and divider

`MultDiv.tla`. One step is one rising clock edge; the registers `mult_*` of `stage_X.v`
are `mul_*`, as `Pipeline`'s `mult_busy` and `mult_hi` are abstractions of them. While the unit is busy
DE's instruction of the unit is refused, which `Pipeline` models as a restart.

| Action | Code (`stage_X.v`) |
|---|---|
| `StartMult`, `StartDiv`, `MoveTo` | MULT[U] 444-493, DIV[U] 396-442, MTHI/MTLO 367-394 |
| `AddBit`, `Sign`, `EndMult` | the radix-2 multiplier, 285-300 |
| `DivBit` (`Divide`), `EndDiv` | the divider, 311-325 |

`Divide` is a conjunct of each other action too, since the divider shifts whenever its counter is
not negative, asked or not (after power-up it shifts once). The 33-bit difference `div_diff` is
modelled with its width (`Fits`). `asked` is history. The reference is the simulator: `Signed`,
`As` are its casts (`run_simple.c:514-541`). A division by zero, "technically undefined" there, is
run but nothing is said about its result.

### The models of the memory

`MemoryPort.tla` has what all controllers share: burst length, words, requests. `BurstMemory.tla`
is the abstract specification: a ready controller takes a request, a write takes effect at once, a read owes the words
of its burst under the id of who asked, and answers come one at a time, in order, after any delay.

| Module | Controller | What is in it beside the state machine |
|---|---|---|
| `Blockram` | `blockram.v` | the registered read of the block RAM |
| `SramCtrl` | `sram_ctrl.v` | an asynchronous SRAM whose write strobe follows half a cycle late: it writes what its pins have in both halves, and an unstable pin is an unknown word |
| `Sram16Ctrl` | `sram16_ctrl.v` | the same with 16-bit halves and wait states |
| `SsramCtrl` | `ssram_ctrl.v` | the pipelined SRAM with its burst counter, the Flash that answers past the pipeline, and reset |

Each has `Memory == INSTANCE BurstMemory WITH ...`; what a controller still owes is worked out from its
counter and its pipeline of ids.

`Video.tla` puts the three users of the DE2-70's memory around `SsramCtrl`: the frame
buffer reader of `video.v` (`Restart`, `Fetch`, `Rest`), its FIFO and the beam that empties it, and the processor,
which asks for lines of the SRAM or of the Flash, or writes, whenever it likes; the arbiter of `toplevel.v:224-234`
gives the reader precedence. The beam shows a word at most every `WordTime` cycles, then comes a porch and the
vertical sync.

What the modules assume of their constants is what the code has: a burst is of two words or more, since
`ssram_ctrl.v` starts `cnt` three words before the end and it may be negative once; `flash_delay` starts with a positive
number that leaves its top bit zero (4 on the DE2-70); `sram16_ctrl.v` waits one cycle or more (`wait_cycles = 1 + ...`);
a reset is of two cycles or more, see the hazards; the threshold of the FIFO is at least two bursts and the four
places of the pipeline (32, and 4 words per burst). That 2^(n+2) is 4 times 2^n, and in `MultDiv` that
2^(n+1) is twice 2^n, is among the assumptions only because the provers do not compute powers of a variable.

### The models of the serial line

`Tinymon.tla` is `main()` of the monitor with `get_hexnum`, `d85` and `get_base85_word`, a
character or less per step. Characters are small numbers (`Ascii`) in the order of their codes, words and sums
have any modulus. `Dump.tla` is what `yarisim -t` prints for a program, as a function from
programs to texts. `Loader.tla` composes the two: the text goes over a line that may change one character (`Flaw` says
into what), possibly behind something that somebody has typed, and nobody waits for an answer.

`SerialInput.tla` is one level down: each step of the processor is one access to the port, and `serial_in`,
`serial_out` and `check_serial_input` are cut at their accesses. The receiver holds one byte and
counts those it got; the line brings a byte at most every `ByteTime` steps. `window` is how far the
other side sends ahead. The abstract specification is `ByteStream`: bytes are taken in the order in which they
arrived, unless the ring buffer has overrun, which forgets all that waited.

### The model of the simulator's instruction cache

`SimICache.tla` has an action for each outcome of `icache_fetch` (`Hit`, `Miss`) and one for `synci`;
programs store anywhere in between. `latest` is the history that `InstructionMemory` needs.
Tag 0 means an invalid line, and there is no memory at tag 0, which `run_simple.c:305-306` assumes.

## 4. Runs

Three runs have two or more parts that share no state: the initial state says which one moves
(`part` in `MCStageX`, `MCInstructionCaches`, `MCTinymon` and `MCMemory`), so that one run answers the
question for all of them.

| Run | Shows | Bounds |
|---|---|---|
| `StageM_bytes` | the inductive invariant `CoreInv` (also the base of the proofs), cache coherence with the refused-store and fill exceptions spelled out, restarts have an owner, no killed instruction is forgotten, store-buffer slots, refinement of `SequentialMemory` | 1 set, 2 ways, 2 tags, 2-word lines, 2 byte lanes, 3 slots (2 stores); loads of every word, byte and word stores to one word, a byte store to a word of the other line |
| `StageM_io` | uncached loads read the device once; liveness | 1 way, 2-word lines, 4 slots, device sequence mod 3 |
| `StageM_lost` (violation) | with a delayed refetch a load that hits a store and misses is lost | as `bytes`, byte stores anywhere, 2 slots |
| `StageM_hold` (violation) | with HOLD a refused uncached store is restarted for ever | as `io` |
| `Pipeline_order` | in-order retirement (refinement of `Isa`), delay slots, HI and LO, restarts that agree, restarts that end; exact products and quotients, and a unit that gets on | 4 instructions, 2 registers, all programs over three sets of 6 instructions; words of 3 bits, operands 0, 1, 3, 4 (the least number), 6 |
| `Pipeline_race` (violation) | the priority of `restart_pc` loses an older instruction | the first of the sets |
| `StageI_synci` | SYNCI works although fills do not wait for the store buffer (refinement of `InstructionMemory`), no line in two ways, fills in step, fetches in order; the simulator's cache refines it too | 1 set, 2 ways, 2 tags, 2-word lines, stores to one word, `BusyCycles` 5; simulator: 2 ways, 1 line, 2 words, 3 tags |
| `StageI_slow` (violation) | with slow writes a stale line survives a SYNCI | as `synci` with one way, `BusyCycles` 9 |
| `Tinymon_load` | only what was sent is started, clean texts are accepted, garbled ones end in the error state, an error latches; the ring buffer is a `ByteStream` and drops nothing that fits | words mod 64 of 2 digits, sums mod 16, 2 sections, one flaw in a number or block; ring of 4, tag mod 6, 3 steps to a byte |
| `Tinymon_block` (violation) | a line "c" in the block behind a bad X line clears the error | as `load`, other words |
| `Memory_bursts` | four controllers implement `BurstMemory`; FIFO never overflows nor runs dry, the processor gets the words it asked for, in time | bursts of 2, 8 words of which 4 are Flash; FIFO 64, frame of 32 words |
| `Video_vsync` (violation) | a busy memory at the vertical sync sends the reader behind the frame buffer | no Flash, frame of 16 |

Why the bounds are enough: two tags in one set force replacement of a line
by another and both ways are reachable; different sets do not interact except
through the store buffer and the single fill, whose addresses are compared in
full. The pointers of the store buffer wrap with 3 and 4 slots; a store meets a full buffer in each.
Fill words interleave with drains. The proofs hold for all sizes.

The pipeline holds at most four instructions between fetch and
write-back, so with four addresses each is at a different one, and programs wrap around, so
that every instruction is met by every stage in every context. Two registers and
register 0 distinguish the operand forwarded from the one that is not. `SettleBound` = 6
is tight (5 fails): a restart in ME, a fetch, and the stages. `Settles` is a safety
property that bounds the time to the next retirement, instead of liveness under
fairness. Three bits give `MultDiv` all combinations of signs, the least number with and without a
partner of its own size, dividends smaller and larger than the divisor and remainders of both signs.

`BusyCycles` = 5 of `StageI_synci` is tight: 6 violates `CodeIsSynchronised`. A store must
be on the port before the read behind it: from the store's own cycle to the read of a miss
behind its SYNCI there are that many cycles. Of the controllers in the tree,
`blockram.v` and the SSRAM controller accept a request in each cycle, `sram_ctrl.v` is busy for two
cycles; `sram16_ctrl.v` of BeMicro at 50 MHz for nine (`StageI_slow`): its two halves
wait three cycles each for 55 ns, and a write goes through three more states. One slot of store buffer is enough for a
store that is not on the port; stores go to one word, as the line of another is read
and written in the same way; the two restart targets are one word in each line, so
that lines replace each other. Lines, tags and sets are symmetric in the code;
two of each show a line that is mistaken for another. In the simulator's cache lines do not interact
(one is enough), and with three tags for two ways the one that `next_way` points to varies.

`Tinymon_load`: two digits are the first and the last, which `d85` treats apart; a word of 6 bits with
25 base-85 pairs out of range keeps its overflow test; two sections follow each other with an X line each.
`Flaw` = `NumbersAndBlocks` is part of the claim: a command letter or a separator that is lost may start a
program (the format has no defence against it). `BufSize` 4 with windows of 3 (fits) and 5
(overruns) reaches both sides of the limit. `ByteTime` 3 is tight: with 2 the receiver is overrun, since
`serial_out` looks at it once in three accesses. The source has 1024, 256 and, the serial line at 115200 or 230400 bit/s, many cycles for each byte.

`Memory_bursts`: bursts of four words, as on the board, have a first, a last and words between; the counter's sign bit
and the FIFO's weights are scaled with it. The timing constants are tight. The FIFO must last for 2 * 24 + 7 = 55 cycles,
two Flash bursts in a row, a burst of the SRAM and the arbiter's register: with `WordTime` 3 (or `Threshold` 13) the display
runs dry, with a `Porch` of 54 it starts on an empty FIFO, with `Threshold` 8 the FIFO overflows, with `WordTime` 2 the
processor starves, and with `ResetCycles` 1 words of a read before the reset are answered behind it.
The board does not keep the first of these bounds. Its memory clock is 50 MHz (`toplevel.v:63`), the dot clock 65 MHz
(`pll.v`) and a word four pixels: a word lasts 3.08 cycles, the 32 below the threshold 98. A Flash read has a `FlashDelay`
of 4, so that the sum is 2 * 48 + 7 = 103: with these numbers (`WordTime` 3, `FlashDelay` 4, `Threshold` 32, `FifoSize` 128,
`FB_SIZE` 256, `Porch` 160) TLC finds a behaviour in which two Flash reads in a row, just as the FIFO falls below the
threshold, leave the display with an empty FIFO. No comment promises otherwise, and no run states it.
A manual reset (`SW17`) in the middle of a fill drops its words, and IF or ME, which are not reset, wait for them for ever; hence `SsramBursts` and not the stages is what is checked across a reset.

Fairness (`FairSpec` of `StageM`): the memory eventually takes a request and sends a word it
owes (every controller's state machine returns to idle by counting), a
peripheral that holds lets go, and the restarted instruction is eventually
fetched (the fetch needs only the memory and the end of flushes). No fairness
on which instruction comes. `Settles`, `UnitProgresses` and `YariGetsItsTurn` bound a number of steps and need none.

## 5. Proofs

`StageM_proofs.tla`, for every value of the constants:

* `BaseInv` = `TypeOK`, `StoreBufferSlots`, `FillInStep` is inductive by itself, whatever the
  program: `TypeCorrect`, `StoreBufferCorrect`, `FillCorrect`. `StoreBufferSlots`
  is needed for the type of `dmem` (an issued slot holds a store), and
  `TypeOK` for the arithmetic of the pointers.
* With `LoadBehindStore = "hits"`, `LineInv` = `HazardsExclusive`, `QuietFill`,
  `OneHot` is inductive on top of it. `QuietFill` is the strengthening: while a
  fill or a peripheral read is under way the pipeline in front of ME is empty
  and the line being filled is in no way, hence when its tag is written no second way
  gets it (`OneHotCorrect`), and no instruction can be in ME when `m_restart` is
  cleared (`NothingLostCorrect`). `CoreCorrect` sums them up.
* On top of that, `OneRead` says where the answer of an uncached load is: requested, arriving or
  kept, in one place only, and the pending flag is up exactly then. With it `UncachedOnce` is
  inductive (`UncachedOnceCorrect`), and, without HOLD, so is `RestartEnds` (`RestartEndsCorrect`).
* Still with `LoadBehindStore = "hits"`, stage ME implements `SequentialMemory` (`SequentialCorrect`, a
  refinement: loads and stores retire as if there were no cache, no buffer and no delay). The mapping sends the
  abstract memory to `Visible`. `VisibleStep`: a clock edge changes it by the store that ME takes and by nothing
  else, because draining a slot, putting it on the port and writing it keep the youngest store to a byte the same
  (`Newest`, which exists by the well-foundedness of the naturals). `CacheInv` is `CacheCoherent`
  (`CacheCoherentCorrect`) with what makes it inductive: the words a fill has written are those of the line it fetches
  (`Filled`), which needs that nothing is on the port while the memory sends (`PortQuiet`); a refused store, which has
  written the cache already, is the next instruction (`Replays`), and not while a line is filled (`FillReplay`); the outputs
  of the data memories are current for a load unless it is right behind a store to its word (`ReadsCache`).

`Pipeline_proofs.tla`, for every size, program and timing. For both values of
`OneShotRaces`:

* `TypeOK` is inductive (`PipelineTypeCorrect`), one lemma per stage; the arithmetic of
  wrapping addresses is in `PlusType`.
* `DelaySlotInv` (`DelaySlotCorrect`): that a transfer in EX has its slot in DE rests on
  the fetch being one ahead of DE (`FetchBehindDecode`), which rests on its being
  consecutive (`ConsecutiveFetch`) and on DE restarting the fetch when it keeps
  an instruction (`KeptInstruction`).
* `RestartsAgree` (`RestartsAgreeCorrect`) follows from those in one step.

With `OneShotRaces = FALSE`, for programs that keep to the rules of the architecture (`WellFormed` in
`Instructions`: no transfer in a delay slot, `jalr` does not overwrite its operand; `MCPipeline` assumes
it of the programs of the runs), the pipeline implements the instruction set: `RetiresInOrderCorrect` is a
refinement of `Isa`. Its invariant, `Commits`, is inductive and has these parts:

* `RestartInv`: what each restart leaves in the stages, and that a restart of ME outlives one of DE (here, and only
  here, `OneShotRaces` is needed: DE goes first in `restart_pc`).
* `OrderInv`: the instruction in EX is the next to retire, or a transfer that has retired and whose slot has been
  restarted (`InSlotOf`, which remembers its target and its result); the one in DE follows the one in EX; with DE empty, the
  address that IF delivers next (`Stream`, whatever of restart, `i_pc` or `i_npc` decides it) does. One lemma for each case
  of a step: `OrderRestarting`, `OrderHazard`, `OrderEmpty`, `OrderTaken`.
* `OperandInv`: what has been read and what can still be forwarded give the register file as it
  is when everything in front has retired. That `UsesLoad` does not look at the value of a store or at the `rt` of a load is made
  good by `x_rt_fwd`.
* `HiInv`: HI is ahead of what has retired only where the next instruction, or the one behind a load or store,
  writes it again (`Rewrites`). So a killed MULT does no harm (`HiIsCommittedCorrect`).

`OnlyTransfersReplayCorrect` follows from `OrderInv`. Without the rule about `jalr` the proof fails where a transfer retires
and its target is to stay what it was; without the rule on `OneShotRaces`, where `Pipeline_race` has its
counterexample.

`SettlesCorrect`, also with `OneShotRaces = FALSE` but for every program: `Distance` counts the cycles to the
next retirement, if all is well, from the contents of EX and DE, the state of the fetch (`ToFetch`) and what is left
of a restart in ME (`ToRestart`). With EX empty each undisturbed step lowers it (lemma `Nearer`), and it is never more than 6,
so `quiet + Distance <= 6` is inductive. It needs that ME waits for something that comes (`WaitInv`), without `OneShotRaces`,
and that nothing is kept in DE while DE keeps an instruction (`KeptInstruction`). The assumption `SettleBound >= 6` is met by the runs, with 6.

`MultDiv_proofs.tla`, for every width and all operands:

* `UnitTypeOK` with the fact that the two machines exclude each other is inductive (`UnitTypeCorrect`).
* `Multiplied`: what has been summed, plus `mul_a * mul_b`, is the product of the magnitudes until the sign has
  been set, and the shifted `mul_a` does not lose a bit that is still needed. Hence `ProductsCorrect`.
* `Divided`: the dividend is what has been found of the quotient times the divisor, shifted back, plus the remainder
  and the bits not yet brought down, with rest and quotient side by side in one register (`BitShifted`, `BitDivided`); when the
  bits are used up, `SignsSet` gives both their signs, which the least number, its own negative, does not spoil.
  Hence `QuotientsCorrect`, for all divisors but zero.
* `ProgressCorrect`: a step of either machine lowers `Left`.

`StageI_proofs.tla`, for every geometry and program and, but for the last theorem, every memory, however slow:

* `IInv` is inductive. `OneHot` alone is not: that a fill creates no second copy needs
  that the line being filled is in no way, which needs that the lookup that
  missed saw the tags as they are (`LookupCurrent`). `FetchesInOrder` needs to know where
  the fetch goes on in every state (`StreamInv`), and that a lookup that does not
  miss delivers an instruction, which is `OneHot` again (lemma `HitIsValid`). `Armed`
  says why the fetch is never switched off for good.
* `OneHotCorrect` and `FetchesInOrderCorrect` follow; `FillInStepCorrect` from `FillInv`,
  which adds the types of the store path; `TypeCorrect` with `MemoryType`.
* `CodeIsSynchronisedCorrect`, with the assumption `BusyCycles <= 5`: each step of IF and the store path
  is one of `InstructionMemory` (a refinement). What a way holds, a burst carries or a fill has written
  may be fetched, unless its line is about to be made invalid by the pending SYNCI (`Good`, `Exempt`). A
  burst is read without a look into the store buffer; that it is not too old is the point of the proof: memory is behind
  a SYNCI only while a store is on the port, which keeps the read waiting, or while the store buffer
  still waits for the memory (`Draining`). `Draining` counts the cycles down through the states between the SYNCI
  and the next miss, 4, 3, 2, 1, 0; with 6 cycles the step from `running` to `lookup` cannot be proved. The proof
  also needs that only stores of the program change the newest version of a word (`NewestStep`), and that the
  lookup of the SYNCI reads the tags of its line, which it does not when ME restarts meanwhile; but then the
  SYNCI has no effect either.

`SimICache_proofs.tla`, for every size: a word in a valid line is in `latest` of its address, because SYNCI leaves no
copy of the line behind. Hence each step of the cache is one of `InstructionMemory`
(`FetchesAllowedCorrect`, a refinement).

`Memory_proofs.tla`, for every size of memory, length of bursts and content: each of the four controllers implements
`BurstMemory`. The mapping is the one of the modules; each refinement has an inductive invariant:

* `BlockramRefines`: while a burst is under way it is for someone, and what is left of it lies within
  the memory (`BlockInv`); then what the counter and the address say is still to come is what
  the abstract memory owes, less one word in each step (`UpcomingStep`).
* `AsyncSramRefines`: by `SramInv`, while the strobe of a write is out, or follows, the controller drives the data pins and
  no burst is under way; so the word that the chip ends up with is the one that the abstract memory has had
  since the request, and no one reads before it is there.
* `HalfWordsRefine`: `Sram16Inv` adds the halves: a write begins at an even address, a burst ends behind an odd one, and in
  between the register has the half that was read first.
* `PipelinedSramRefines`: what is owed is the concatenation of four places: output register, behind it, the burst, the Flash.
  `PipelineMoves` is the heart: when the words move up one place and the ids beside them do, the first word leaves as the answer
  and the rest is what is owed next, whatever is empty. `SsramInv` supplies what that needs: a burst goes on within its line
  (`LineAtNext`), no write takes the data pins while a word is on its way to them, the Flash takes
  longer than the pipeline to become empty, so its words do not overtake (`FlashInv`). After a reset the
  ids are zero, because it lasts two cycles.

Under its users, the same `SsramInv` counts words. `OnTheWay(id)` is how many are on their way to a
master, and `Accounts` says that it loses the word at the port and gains a burst exactly when the controller takes a read
of this master. Hence

* `WordsWereAsked`: `due`, which the processor counts by its own wait signal, is `OnTheWay`; that needs that
  the signal agrees with what the controller does (`BurstTaken`).
* `FifoNeverOverflows`, whatever the timing of the beam: the words that the FIFO has, that are on their way to it and that
  are being asked for (`Claimed`) are at most the threshold, two bursts and three, because a request is
  made only when the controller is ready, and then at most four words are on their way.
* `BeamNeverStarves`, if `BeamFed` holds of the rates: with `FlashTime` for the time of two bursts of the Flash, the words below the
  threshold, and the time between the sync and a frame's first word, last for `FlashTime` + 7 cycles, and a word for three. The invariant `InTimeInv` compares two times: the
  cycles until the beam may look for a word that is not yet in the FIFO (`Slack`) and those until the reader's next word is
  there, for each state of reader, arbiter and controller (`Until`). The first is never the smaller one: the beam takes a
  word's time with each word (`BeamTakes`), and a word comes when `Until` says so (`WordComes`).
* `YariNeverWaitsLong`, if `TurnRates` holds: while the processor waits, the bursts that went before it and the words missing
  to twice the threshold stay in balance (`TurnInv`): once it is let on the reader gets a word a cycle, while the beam takes at
  most one in `WordTime`, so it reaches the level at which it stops within `TurnBound` bursts. That level must be reached: with
  a slower memory the reader never stops, and the processor never comes.
* `TypesCorrect`, with the same rates: the widths of the burst counters, the bursts that are due (`DueInv`) and
  those that go before the processor.

Both conditions are inequalities between constants. The run's values satisfy them (64 and 60 against 55; for `TurnRates`,
80 against 84). The board's satisfy `TurnRates` (108 against 120) but not `BeamFed` (section 4).

`Tinymon_proofs.tla`, for every word size and every input: types (`TypeCorrect`), and
`ErrorLatchesCorrect`, which needs that a block is read only by a monitor that is not in error (`OutOfBlock`).

`SerialInput_proofs.tla`, under `SerialAssumption` and with `ByteTime` at least 3 (three accesses of the processor
per byte):

* `SerialTypeCorrect`, types, and `NothingDroppedCorrect`. The invariant `InTime` bounds, for each
  point of the calls, how long a byte can have waited in the receiver: at most one is unread, and it is read before the next comes.
* `SerialRefines`: the port and the routines refine `ByteStream`. Before an overrun `OnTime`, the part of `InTime` that does
  not need the window, shows that no byte arrives between the reads of tag and data. After one the notice is printed
  without a look at the receiver; `Late` counts the bytes and the time since the last poll, and gives at most five
  unread bytes, when `ByteTime` is 3. So the tag, which must tell six numbers apart (`Tags >= 6`; it has 256), does not come round to the
  one that was read last, and only the newest byte is lost or doubled. What is in the ring is a sequence: `HeldPush` and `HeldPop`
  are the lemmas about its pointers.

`Tinymon_proofs` applies both to the runs (`SerialDropsNothing`, `SerialIsAStream`): `MCTinymon` instantiates `SerialInput` with
its theorems.

The assumptions are the named ASSUMEs of the modules (sizes are positive, `None` is no value of a type) and the
ones stated in the theorems.

Only model-checked: of the monitor, what
depends on the texts (`StartsWhatWasSent`, `CleanTextAccepted`, `EndsAsItShould`: what `dump_tinymon`
prints is a recursion over numbers and programs);
where the reader reads, which the code violates; and liveness, which the prover does not handle.

## 6. Not modelled

* Of the tree's 1.4 million lines all but some ten thousand are third-party or ported software (newlib, cacao,
  phoneME, SDL, the gdb stub), demos and tests. They run on the processor and have no part in it; no module is about them.
* Combinational functions of 32-bit words (ALU, branch conditions, byte rotation and extraction, the
  multiplexers of `pipeconnect.v`): there is no state for a model to explore.
* The bit level of the serial port (`rs232in.v`, `rs232out.v`): their sampling is abstracted to the time of a byte.
* `peri_ctrl.v`, `bus_ctrl.v`, `dc_ctrl.v`, `dummy_master.v`: no top level instantiates them.
* Of the simulator, exceptions (its ADD traps where the processor does not; the test at `run_simple.c:565` looks at a register
  number), system calls, statistics, and the comparison of commits with the processor's.
* Performance counters and `$display`; commands of the monitor that are compiled out.
* IF and ME over one memory: each is modelled with the other as a source of delay, because their product is out of
  TLC's reach; what each relies on (a request is answered once, in order, by id) is checked of the controllers.
