------------------------------ MODULE Pipeline ------------------------------
(***************************************************************************)
(* The control of the YARI pipeline: how instructions move through IF, DE, *)
(* EX and ME, how a hazard restarts the fetch and flushes the stages, how  *)
(* results are forwarded, and how HI is written ahead of time.             *)
(*                                                                         *)
(* One step is one rising clock edge.  An instruction in a stage is known  *)
(* by its address, as the program does not change; d, x and m are None     *)
(* where the valid bit of the stage is 0.  The caches are external: when a *)
(* fetch hits and when the instruction in ME must be restarted are inputs  *)
(* of a step, and so is the time the multiplier takes.                     *)
(***************************************************************************)
EXTENDS Instructions

CONSTANTS
  None,         \* no instruction, no address
  OneShotRaces, \* may ME raise a restart of one cycle in the cycle in which DE
                \* raises one?
  SettleBound   \* cycles after which an undisturbed pipeline has retired

ASSUME PipelineAssumption ==
  /\ None \notin Nat
  /\ OneShotRaces \in BOOLEAN
  /\ SettleBound \in Nat

VARIABLES
  program, mem,                            \* external: code and data memory
  i_pc, i_npc, i2_valid, state,                                 \* IF
  d, d_pc, rs_reg_val, rt_reg_val,
  d_load_use_hazard, d_restart, d_restart_pc, d_flush_X,        \* DE
  x, x_op1_val, x_rt_val, x_has_delay_slot, x_is_delay_slot,
  x_restart, x_restart_pc, x_flush_D, x_synci,
  mult_busy, mult_a, mult_hi,                                   \* EX
  m, m_res, m_restart, m_restart_pc, one_shot_restart, awaited, \* ME
  w_wbr, w_res, regs,                                           \* WB
  x_target,            \* history: where the transfer in x goes, if it is taken
  pc, pc_next, hi,     \* history: how far instructions have been retired
  quiet                \* history: undisturbed cycles in which nothing retired

ifVars == <<i_pc, i_npc, i2_valid, state>>
deVars == <<d, d_pc, rs_reg_val, rt_reg_val,
            d_load_use_hazard, d_restart, d_restart_pc, d_flush_X>>
exVars == <<x, x_op1_val, x_rt_val, x_has_delay_slot, x_is_delay_slot,
            x_restart, x_restart_pc, x_flush_D, x_synci, x_target>>
hiVars == <<mult_busy, mult_a, mult_hi>>
meVars == <<m, m_res, m_restart, m_restart_pc, one_shot_restart, awaited>>
wbVars == <<w_wbr, w_res, regs>>
vars == <<program, mem, ifVars, deVars, exVars, hiVars, meVars, wbVars,
          pc, pc_next, hi, quiet>>

Minus1(a, flag) == IF flag THEN Plus(a, Size - 1) ELSE a

Op(stage) == IF stage = None THEN "none" ELSE program[stage].op
Rd(stage) == IF stage = None THEN R0 ELSE program[stage].rd

----------------------------------------------------------------------------
(* Restarts and flushes.                                                   *)

restart == d_restart \/ x_restart \/ m_restart

\* Mutation: EX goes before DE.
restart_pc_XoverD == IF m_restart THEN m_restart_pc
                     ELSE IF x_restart THEN x_restart_pc ELSE d_restart_pc

restart_pc == IF d_restart THEN d_restart_pc
              ELSE IF m_restart THEN m_restart_pc ELSE x_restart_pc

\* Mutation: a hazard of EX does not kill what is behind it.
flush_D_NotX == m_restart

flush_D == m_restart \/ x_flush_D

flush_X == m_restart \/ d_flush_X

DE == IF flush_D THEN None ELSE d   \* the instruction that EX takes
EX == IF flush_X THEN None ELSE x   \* the instruction that ME takes

----------------------------------------------------------------------------
(* IF: a stream of consecutive instructions, with bubbles while a line is  *)
(* filled.  While a line is looked up for synci a restart is not honoured. *)

fetchaddress == IF restart THEN restart_pc ELSE i_npc

Fetch(hit, resume) ==
  \/ /\ state = "running"
     /\ ~x_synci
     /\ hit \/ ~i2_valid
     /\ i_pc' = fetchaddress
     /\ i_npc' = Plus(fetchaddress, 1)
     /\ i2_valid' = TRUE
     /\ UNCHANGED state
  \/ /\ state = "running"
     /\ ~x_synci
     /\ ~hit /\ i2_valid
     /\ i_npc' = IF restart THEN restart_pc ELSE i_pc
     /\ i2_valid' = FALSE
     /\ state' = "filling"
     /\ UNCHANGED i_pc
  \/ /\ x_synci
     /\ i_npc' = restart_pc
     /\ i2_valid' = FALSE
     /\ state' = "lookup"
     /\ UNCHANGED i_pc
  \/ /\ state = "lookup" /\ ~x_synci
     /\ state' = IF resume THEN "filling" ELSE "lookup"
     /\ UNCHANGED <<i_pc, i_npc, i2_valid>>
  \/ /\ state = "filling" /\ ~x_synci
     /\ i_npc' = IF restart THEN restart_pc ELSE i_npc
     /\ state' = IF resume THEN "running" ELSE "filling"
     /\ UNCHANGED <<i_pc, i2_valid>>

----------------------------------------------------------------------------
(* DE: after a load-use hazard the instruction is decoded a second time,   *)
(* in place of one from IF.                                                *)

i_valid_muxed(hit) == (state = "running" /\ i2_valid /\ hit /\ ~restart) \/ d_load_use_hazard
i_pc_muxed == IF d_load_use_hazard THEN d_pc ELSE i_pc

\* Mutation: the delay slot may come later.
DelaySlotBubble_Never(hit) == FALSE

DelaySlotBubble(hit) ==
  DE # None /\ HasDelaySlot(program[DE]) /\ ~i_valid_muxed(hit)

\* Mutation: only the first operand is compared.
UsesLoad_RsOnly(i, l) == l.rd # R0 /\ i.rs = l.rd

UsesLoad(i, l) ==
  l.rd # R0 /\ (i.rs = l.rd \/ (i.rt = l.rd /\ i.op \notin {"lw", "sw"}))

LoadUse(hit) ==
  i_valid_muxed(hit) /\ Op(d) = "lw" /\ UsesLoad(program[i_pc_muxed], program[d])

\* Mutations: the restart repeats the instruction that DE keeps; only the
\* delay slot is fetched again.
RestartDE_Again(hit) == IF DelaySlotBubble(hit) THEN d ELSE i_pc_muxed
RestartDE_Slot(hit)  == Plus(IF DelaySlotBubble(hit) THEN d ELSE i_pc_muxed, 1)

RestartDE(hit) == IF DelaySlotBubble(hit) THEN d ELSE Plus(i_pc_muxed, 1)

RegVal(n) == IF n = R0 THEN 0 ELSE regs[n]

Decode(hit) ==
  LET v == i_valid_muxed(hit)
      i == program[i_pc_muxed]
  IN
  /\ d' = IF v /\ ~LoadUse(hit) THEN i_pc_muxed ELSE None
  /\ d_pc' = IF v THEN i_pc_muxed ELSE None
  /\ d_load_use_hazard' = LoadUse(hit)
  /\ d_restart' = (DelaySlotBubble(hit) \/ LoadUse(hit))
  /\ d_restart_pc' = IF d_restart' THEN RestartDE(hit) ELSE None
  /\ d_flush_X' = DelaySlotBubble(hit)
  /\ rs_reg_val' = IF v THEN RegVal(i.rs) ELSE 0
  /\ rt_reg_val' = IF v THEN RegVal(i.rt) ELSE 0

----------------------------------------------------------------------------
(* EX.  junk is what the ALU makes of the operands of a load.              *)

x_res(junk) == CASE Op(x) = "addiu" -> AddImm(x_op1_val)
                 [] Op(x) = "mfhi"  -> mult_hi
                 [] Op(x) \in {"jal", "jalr"} -> Link(x)
                 [] OTHER -> junk

\* Mutation: the oldest result wins.
Forward_Oldest(n, old, junk) ==
  IF n = R0 THEN old
  ELSE IF n = w_wbr THEN w_res
  ELSE IF n = Rd(m) THEN m_res
  ELSE IF n = Rd(EX) THEN x_res(junk)
  ELSE old

Forward(n, old, junk) ==
  IF n = R0 THEN old
  ELSE IF n = Rd(EX) THEN x_res(junk)
  ELSE IF n = Rd(m) THEN m_res
  ELSE IF n = w_wbr THEN w_res
  ELSE old

\* Mutation: HI and LO are used while they are computed.
MultHazard_Never == FALSE

MultHazard == DE # None /\ program[DE].op \in HiLoOps /\ mult_busy

\* Mutation: an instruction in a delay slot is restarted without its branch.
HazardRestart_Alone == d

HazardRestart == Minus1(d, x_has_delay_slot)

Execute(junk, finish) ==
  LET i  == program[DE]
      s  == Forward(i.rs, rs_reg_val, junk)
      t  == Forward(i.rt, rt_reg_val, junk)
      taken  == DE # None /\ Takes(i, s, t)
      serial == DE # None /\ i.op \in {"break", "synci"}
  IN
  /\ x' = IF MultHazard THEN None ELSE DE
  /\ x_op1_val' = IF DE = None THEN 0 ELSE s
  /\ x_rt_val' = IF DE = None THEN 0 ELSE t
  /\ x_has_delay_slot' = (DE # None /\ HasDelaySlot(i))
  /\ x_is_delay_slot' = (x_has_delay_slot /\ x # None)
  /\ x_restart' = (MultHazard \/ taken \/ serial)
  /\ x_restart_pc' = IF MultHazard THEN HazardRestart
                     ELSE IF taken THEN Target(i, s)
                     ELSE IF ~serial THEN None
                     ELSE IF i.op = "break" THEN Handler
                     ELSE IF x_restart THEN restart_pc ELSE Plus(d, 1)
  /\ x_flush_D' = (MultHazard \/ serial)
  /\ x_synci' = (serial /\ i.op = "synci")
  /\ x_target' = IF taken THEN Target(i, s) ELSE None
  /\ LET start == DE # None /\ i.op = "mult" /\ ~mult_busy
         put   == DE # None /\ i.op = "mthi" /\ ~mult_busy
     IN /\ mult_busy' = (start \/ (mult_busy /\ ~finish))
        /\ mult_a' = IF start THEN s ELSE IF mult_busy /\ ~finish THEN mult_a ELSE 0
        /\ mult_hi' = IF start THEN 0
                      ELSE IF put THEN s
                      ELSE IF mult_busy /\ finish THEN mult_a ELSE mult_hi

----------------------------------------------------------------------------
(* ME: hazard is "once" for a restart that lasts one cycle (store buffer   *)
(* full, load behind a store to the same word), "wait" for one that lasts  *)
(* until data has arrived (cache miss, peripheral), else "none".           *)

\* Mutation: a store takes the value that a load in front of it replaces.
x_rt_fwd_Never == x_rt_val

x_rt_fwd ==
  IF Op(m) = "lw" /\ Rd(m) # R0 /\ Rd(m) = program[x].rt THEN m_res ELSE x_rt_val

\* Mutation: the address before the first one is not the last one.
MemoryRestart_NoWrap == IF x_is_delay_slot THEN x - 1 ELSE x

MemoryRestart == Minus1(x, x_is_delay_slot)

Retires(hazard) == EX # None /\ hazard = "none"

Access(hazard, junk) ==
  /\ m' = IF Retires(hazard) THEN EX ELSE None
  /\ m_res' = IF ~Retires(hazard) \/ Rd(x) = R0 THEN 0
              ELSE IF Op(x) = "lw" THEN mem ELSE x_res(junk)
  /\ mem' = IF Retires(hazard) /\ Op(x) = "sw" THEN x_rt_fwd ELSE mem

\* Mutation: the flag is not looked at.
StillWaits_NoOneShot(over) == m_restart /\ ~over

StillWaits(over) == m_restart /\ ~one_shot_restart /\ ~over

RestartME(hazard, over) ==
  /\ m_restart' = (hazard # "none" \/ StillWaits(over))
  /\ m_restart_pc' = IF hazard # "none" THEN MemoryRestart
                     ELSE IF m_restart' THEN m_restart_pc ELSE None
  /\ one_shot_restart' = (hazard = "once")
  /\ awaited' = IF hazard = "wait" THEN "soon"
                ELSE IF awaited = "nothing" \/ over THEN "nothing" ELSE "now"

WriteBack ==
  /\ w_wbr' = Rd(m)
  /\ w_res' = m_res
  /\ regs' = IF Rd(m) = R0 THEN regs ELSE [regs EXCEPT ![Rd(m)] = m_res]

\* History: the address pair behind the instruction that retires.
Progress(hazard) ==
  IF Retires(hazard)
    THEN /\ pc' = IF Op(x) = "break" THEN Handler
                  ELSE IF x_is_delay_slot THEN pc_next ELSE Plus(x, 1)
         /\ pc_next' = IF x_target # None THEN x_target ELSE Plus(pc', 1)
         /\ hi' = IF Op(x) \in {"mult", "mthi"} THEN x_op1_val ELSE hi
    ELSE UNCHANGED <<pc, pc_next, hi>>

----------------------------------------------------------------------------
(* External: the data cache, and the values the inputs may have.  Data     *)
(* takes at least two cycles to arrive (awaited, external).                *)

Hazards ==
  CASE Op(EX) = "lw" -> {"none", "wait"} \cup (IF Op(m) = "sw" THEN {"once"} ELSE {})
    [] Op(EX) = "sw" -> {"none", "once"}
    [] OTHER -> {"none"}

Races(hit, hazard) == hazard = "once" /\ (DelaySlotBubble(hit) \/ LoadUse(hit))

Hits    == IF state = "running" /\ i2_valid THEN BOOLEAN ELSE {FALSE}
Resumes == IF state # "running" THEN BOOLEAN ELSE {FALSE}
Overs   == IF awaited = "now" THEN BOOLEAN ELSE {FALSE}
Finish  == IF mult_busy THEN BOOLEAN ELSE {FALSE}
Junk    == IF Op(EX) = "lw" THEN Val ELSE {0}

\* Nothing disturbs the pipeline: caches hit and what was waited for arrives.
Undisturbed(hit, resume, hazard, over, finish) ==
  /\ hit \/ Hits = {FALSE}
  /\ resume \/ Resumes = {FALSE}
  /\ over \/ Overs = {FALSE}
  /\ finish \/ Finish = {FALSE}
  /\ hazard = "none"

Settling(hit, resume, hazard, over, finish) ==
  quiet' = IF m' = None /\ Undisturbed(hit, resume, hazard, over, finish)
             THEN IF quiet > SettleBound THEN quiet ELSE quiet + 1
             ELSE 0

Clock(hit, resume, hazard, over, finish, junk) ==
  /\ OneShotRaces \/ ~Races(hit, hazard)
  /\ Fetch(hit, resume)
  /\ Decode(hit)
  /\ Execute(junk, finish)
  /\ Access(hazard, junk)
  /\ RestartME(hazard, over)
  /\ WriteBack
  /\ Progress(hazard)
  /\ Settling(hit, resume, hazard, over, finish)
  /\ UNCHANGED program

\* The state after the boot pulse, which is a one-shot restart.
Init ==
  /\ program \in Programs
  /\ mem = 0
  /\ i_pc = 0 /\ i_npc = 0 /\ i2_valid = FALSE /\ state = "running"
  /\ d = None /\ d_pc = None /\ rs_reg_val = 0 /\ rt_reg_val = 0
  /\ d_load_use_hazard = FALSE
  /\ d_restart = FALSE /\ d_restart_pc = None /\ d_flush_X = FALSE
  /\ x = None /\ x_op1_val = 0 /\ x_rt_val = 0 /\ x_target = None
  /\ x_has_delay_slot = FALSE /\ x_is_delay_slot = FALSE
  /\ x_restart = FALSE /\ x_restart_pc = None /\ x_flush_D = FALSE /\ x_synci = FALSE
  /\ mult_busy = FALSE /\ mult_a = 0 /\ mult_hi = 0
  /\ m = None /\ m_res = 0
  /\ m_restart = TRUE /\ m_restart_pc = 0 /\ one_shot_restart = TRUE
  /\ awaited = "nothing"
  /\ w_wbr = R0 /\ w_res = 0 /\ regs = [n \in Regs |-> 0]
  /\ pc = 0 /\ pc_next = 1 /\ hi = 0 /\ quiet = 0

Next ==
  \E hit \in Hits, resume \in Resumes, hazard \in Hazards,
     over \in Overs, finish \in Finish, junk \in Junk :
    Clock(hit, resume, hazard, over, finish, junk)

Spec == Init /\ [][Next]_vars

----------------------------------------------------------------------------
(* Properties.                                                             *)

Slot == Code \cup {None}

FetchTypeOK ==
  /\ i_pc \in Code /\ i_npc \in Code /\ i2_valid \in BOOLEAN
  /\ state \in {"running", "filling", "lookup"}

DecodeTypeOK ==
  /\ d \in Slot /\ d_pc \in Slot
  /\ d # None => d_pc = d
  /\ rs_reg_val \in Val /\ rt_reg_val \in Val
  /\ d_load_use_hazard \in BOOLEAN /\ d_flush_X \in BOOLEAN
  /\ d_restart \in BOOLEAN
  /\ d_restart => d_restart_pc \in Code
  /\ d_load_use_hazard => d_pc \in Code

ExecuteTypeOK ==
  /\ x \in Slot /\ x_op1_val \in Val /\ x_rt_val \in Val /\ x_target \in Slot
  /\ x_has_delay_slot \in BOOLEAN /\ x_is_delay_slot \in BOOLEAN
  /\ x_flush_D \in BOOLEAN
  /\ x_restart \in BOOLEAN /\ x_synci \in BOOLEAN
  /\ x_restart => x_restart_pc \in Code
  /\ x_synci => x_restart
  /\ mult_busy \in BOOLEAN /\ mult_a \in Val /\ mult_hi \in Val

MemoryTypeOK ==
  /\ m \in Slot /\ m_res \in Val /\ mem \in Val
  /\ m_restart \in BOOLEAN /\ one_shot_restart \in BOOLEAN
  /\ m_restart => m_restart_pc \in Code
  /\ awaited \in {"nothing", "soon", "now"}
  /\ w_wbr \in Reg /\ w_res \in Val /\ regs \in [Regs -> Val]

TypeOK ==
  /\ program \in [Code -> Instr]
  /\ FetchTypeOK
  /\ DecodeTypeOK
  /\ ExecuteTypeOK
  /\ MemoryTypeOK
  /\ pc \in Code /\ pc_next \in Code /\ hi \in Val
  /\ quiet \in 0 .. SettleBound + 1

(* The delay slot of a control transfer is right behind it: while a        *)
(* transfer is in EX and not killed, its slot is in DE.                    *)
SlotFollows ==
  EX # None /\ HasDelaySlot(program[EX]) => d = Plus(x, 1)

\* Why: IF is one ahead of DE, also behind an instruction that DE kept.
ConsecutiveFetch ==
  /\ i2_valid => state = "running"
  /\ i2_valid => i_npc = Plus(i_pc, 1)

KeptInstruction ==
  d_load_use_hazard => d = None /\ d_restart /\ d_restart_pc = Plus(d_pc, 1)

FetchBehindDecode ==
  d # None /\ i2_valid /\ ~restart => i_pc = Plus(d, 1)

(* The stages follow each other without a gap: SlotFollows with what it    *)
(* rests on.                                                               *)
DelaySlotInv ==
  /\ SlotFollows
  /\ ConsecutiveFetch
  /\ KeptInstruction
  /\ FetchBehindDecode

(* HI and LO are written in EX, where ME can still kill the instruction    *)
(* that did.  Nevertheless an MFHI that reaches ME reads what the last     *)
(* instruction that retired wrote there.                                   *)
HiIsCommitted == Op(EX) = "mfhi" => ~mult_busy /\ mult_hi = hi

(* The restarts of EX and DE that coincide come from the same instruction, *)
(* a control transfer that has not got its delay slot: it is killed and    *)
(* fetched again, and its target is forgotten.                             *)
RestartsAgree ==
  d_restart /\ x_restart => d_flush_X /\ d_restart_pc = x

(* An instruction retires twice only if it is a control transfer whose     *)
(* delay slot has been restarted.                                          *)
OnlyTransfersReplay ==
  [][m' # None => m' = pc \/ (HasDelaySlot(program[m']) /\ pc = Plus(m', 1))]_vars

(* No sequence of restarts repeats itself: once nothing disturbs the       *)
(* pipeline any more, an instruction retires within SettleBound cycles.    *)
Settles == quiet <= SettleBound

(* The registers, with the result that is about to be written.             *)
r == IF Rd(m) = R0 THEN regs ELSE [regs EXCEPT ![Rd(m)] = m_res]

Arch == INSTANCE Isa WITH r <- r

(* Instructions retire in program order, each with the result that the     *)
(* simulator computes.                                                     *)
RetiresInOrder == Arch!Spec

=============================================================================
