--------------------------- MODULE Pipeline_proofs ---------------------------
(***************************************************************************)
(* Proofs about Pipeline, for every size, program and behaviour of the     *)
(* caches: type correctness, that a control transfer in EX always has its  *)
(* delay slot right behind it, that the pipeline implements the            *)
(* instruction set: it refines Isa, and that it does not restart for ever. *)
(***************************************************************************)
EXTENDS Pipeline, TLAPS

(* Addresses and values wrap around.                                       *)
LEMMA PlusType ==
  ASSUME NEW a \in Nat, NEW k \in Nat
  PROVE  Plus(a, k) \in Code
<1>1. a + k \in Nat
  OBVIOUS
<1>2. Size \in Nat \ {0}
  BY InstructionsAssumption
<1>3. (a + k) % Size \in 0 .. Size - 1
  BY <1>1, <1>2
<1> QED
  BY <1>3 DEF Plus, Code

LEMMA Constants ==
  /\ Code \subseteq Nat
  /\ Val = Code
  /\ 0 \in Val
  /\ Size - 1 \in Nat
  /\ None \notin Code
BY InstructionsAssumption, PipelineAssumption DEF Code, Val

(* Stepping back over a control transfer.                                  *)
LEMMA Minus1Type ==
  ASSUME NEW a \in Code, NEW flag
  PROVE  Minus1(a, flag) \in Code
BY PlusType, Constants DEF Minus1

(* What the operators on instructions return.                              *)
LEMMA InstrFields ==
  ASSUME NEW i \in Instr
  PROVE  /\ i.rs \in Reg /\ i.rt \in Reg /\ i.rd \in Reg
         /\ i.target \in Code
         /\ \A s \in Val : Target(i, s) \in Code
BY Constants DEF Instr, Target

(* The wires of a step.                                                    *)
LEMMA Inputs ==
  /\ \A b \in Hits : b \in BOOLEAN
  /\ \A b \in Resumes : b \in BOOLEAN
  /\ \A b \in Overs : b \in BOOLEAN
  /\ \A b \in Finish : b \in BOOLEAN
  /\ \A j \in Junk : j \in Val
BY Constants DEF Hits, Resumes, Overs, Finish, Junk

(* What restarts and flushes leave.                                        *)
LEMMA Wires ==
  ASSUME TypeOK
  PROVE  /\ restart => restart_pc \in Code
         /\ restart \in BOOLEAN
         /\ fetchaddress \in Code
         /\ DE \in Slot
         /\ DE # None => DE = d
         /\ EX \in Slot
         /\ EX # None => EX = x
BY DEF TypeOK, FetchTypeOK, DecodeTypeOK, ExecuteTypeOK, MemoryTypeOK, restart,
       restart_pc, fetchaddress, DE, EX, flush_D, flush_X, Slot

LEMMA FetchType ==
  ASSUME TypeOK, NEW hit \in BOOLEAN, NEW resume \in BOOLEAN, Fetch(hit, resume)
  PROVE  FetchTypeOK'
<1>1. /\ FetchTypeOK
      /\ x_synci => restart
  BY DEF TypeOK, ExecuteTypeOK, restart
<1>2. Plus(fetchaddress, 1) \in Code
  BY Wires, PlusType, Constants
<1> QED
  BY <1>1, <1>2, Wires DEF FetchTypeOK, Fetch

LEMMA DecodeType ==
  ASSUME TypeOK, NEW hit \in BOOLEAN, Decode(hit)
  PROVE  DecodeTypeOK'
<1>1. i_valid_muxed(hit) \in BOOLEAN
  BY DEF TypeOK, FetchTypeOK, DecodeTypeOK, i_valid_muxed
<1>2. i_pc_muxed \in Code
  BY DEF TypeOK, FetchTypeOK, DecodeTypeOK, i_pc_muxed
<1>3. /\ program[i_pc_muxed].rs \in Reg
      /\ program[i_pc_muxed].rt \in Reg
  BY <1>2, InstrFields DEF TypeOK
<1>4. \A n \in Reg : RegVal(n) \in Val
  BY Constants DEF RegVal, Reg, TypeOK, MemoryTypeOK
<1>5. DelaySlotBubble(hit) => d \in Code
  BY Wires DEF DelaySlotBubble, Slot
<1>6. DelaySlotBubble(hit) \/ LoadUse(hit) => RestartDE(hit) \in Code
  BY <1>2, <1>5, PlusType, Constants DEF RestartDE
<1>7. LoadUse(hit) => i_valid_muxed(hit)
  BY DEF LoadUse
<1>8. /\ rs_reg_val' \in Val /\ rt_reg_val' \in Val
  BY <1>3, <1>4, Constants DEF Decode
<1>9. /\ d' \in Slot /\ d_pc' \in Slot
      /\ d' # None => d_pc' = d'
      /\ d_load_use_hazard' => d_pc' \in Code
  BY <1>1, <1>2, <1>7 DEF Decode, Slot
<1>10. /\ d_load_use_hazard' \in BOOLEAN /\ d_flush_X' \in BOOLEAN
       /\ d_restart' \in BOOLEAN
  BY DEF Decode, DelaySlotBubble, LoadUse
<1>11. d_restart' => d_restart_pc' \in Code
  BY <1>6 DEF Decode
<1> QED
  BY <1>8, <1>9, <1>10, <1>11 DEF DecodeTypeOK

LEMMA ResultType ==
  ASSUME TypeOK, NEW junk \in Val, Op(x) # "none"
  PROVE  x_res(junk) \in Val
<1>1. x \in Code
  BY DEF Op, TypeOK, ExecuteTypeOK, Slot
<1>2. Link(x) \in Val /\ AddImm(x_op1_val) \in Val
  BY <1>1, PlusType, Constants DEF Link, AddImm, TypeOK, ExecuteTypeOK
<1>3. mult_hi \in Val
  BY DEF TypeOK, ExecuteTypeOK
<1> QED
  BY <1>2, <1>3 DEF x_res

LEMMA ForwardType ==
  ASSUME TypeOK, NEW junk \in Val, NEW n \in Reg, NEW old \in Val
  PROVE  Forward(n, old, junk) \in Val
<1>1. n # R0 /\ n = Rd(EX) => x_res(junk) \in Val
  <2>1. SUFFICES ASSUME n # R0, n = Rd(EX)
                 PROVE  Op(x) # "none"
    BY ResultType
  <2>2. EX # None /\ EX = x /\ x \in Code
    BY <2>1, Wires DEF Rd, Slot
  <2>3. program[x].op \in Ops
    BY <2>2 DEF TypeOK, Instr
  <2> QED
    BY <2>2, <2>3 DEF Op, Ops, HiLoOps, ControlTransfers
<1> QED
  BY <1>1 DEF Forward, TypeOK, MemoryTypeOK

LEMMA ExecuteType ==
  ASSUME TypeOK, NEW junk \in Val, NEW finish \in BOOLEAN, Execute(junk, finish)
  PROVE  ExecuteTypeOK'
<1> DEFINE i == program[DE]
           s == Forward(i.rs, rs_reg_val, junk)
           t == Forward(i.rt, rt_reg_val, junk)
<1>1. CASE DE = None
  <2>1. /\ x' = None /\ x_op1_val' = 0 /\ x_rt_val' = 0 /\ x_target' = None
        /\ x_has_delay_slot' = FALSE /\ x_restart' = FALSE /\ x_flush_D' = FALSE
        /\ x_synci' = FALSE
        /\ x_is_delay_slot' \in BOOLEAN
    BY <1>1 DEF Execute, MultHazard
  <2>2. mult_busy' \in BOOLEAN /\ mult_a' \in Val /\ mult_hi' \in Val
    BY <1>1, Constants DEF Execute, TypeOK, ExecuteTypeOK
  <2> QED
    BY <2>1, <2>2, Constants DEF ExecuteTypeOK, Slot
<1>2. CASE DE # None
  <2>1. DE \in Code /\ DE = d
    BY <1>2, Wires DEF Slot
  <2>2. i \in Instr
    BY <2>1 DEF TypeOK
  <2>3. s \in Val /\ t \in Val
    BY <2>2, InstrFields, ForwardType DEF TypeOK, DecodeTypeOK
  <2>4. /\ Target(i, s) \in Code
        /\ Plus(d, 1) \in Code
        /\ HazardRestart \in Code
    <3>1. d \in Code /\ d \in Nat
      BY <2>1, Constants
    <3> QED
      BY <2>2, <2>3, <3>1, InstrFields, PlusType, Minus1Type DEF HazardRestart
  <2> HIDE DEF i, s, t
  <2>5. /\ x' \in Slot /\ x_op1_val' \in Val /\ x_rt_val' \in Val
        /\ x_target' \in Slot
        /\ x_has_delay_slot' \in BOOLEAN /\ x_is_delay_slot' \in BOOLEAN
    BY <1>2, <2>1, <2>3, <2>4 DEF Execute, Slot, i, s, t, HasDelaySlot
  <2>6. x_flush_D' \in BOOLEAN /\ x_restart' \in BOOLEAN /\ x_synci' \in BOOLEAN
    BY <1>2 DEF Execute, MultHazard, Takes
  <2>7. x_synci' => x_restart'
    BY DEF Execute
  <2>8. x_restart' => x_restart_pc' \in Code
    <3>1. x_restart => restart_pc \in Code
      BY Wires DEF restart
    <3>2. Handler \in Code
      BY InstructionsAssumption
    <3>3. SUFFICES ASSUME x_restart' PROVE x_restart_pc' \in Code
      OBVIOUS
    <3>4. CASE MultHazard
      BY <3>4, <2>4 DEF Execute
    <3>5. CASE ~MultHazard /\ Takes(i, s, t)
      <4>1. i.op \notin {"break", "synci"}
        BY <3>5 DEF Takes
      <4>2. x_restart_pc' = Target(i, s)
        BY <1>2, <3>5, <4>1 DEF Execute, i, s, t
      <4> QED
        BY <4>2, <2>4
    <3>6. CASE ~MultHazard /\ ~Takes(i, s, t)
      <4>1. i.op \in {"break", "synci"}
        BY <1>2, <3>3, <3>6 DEF Execute, i, s, t
      <4>2. CASE i.op = "break"
        <5>1. x_restart_pc' = Handler
          BY <1>2, <3>6, <4>2 DEF Execute, i, s, t
        <5> QED
          BY <5>1, <3>2
      <4>3. CASE i.op = "synci"
        <5>1. x_restart_pc' = IF x_restart THEN restart_pc ELSE Plus(d, 1)
          BY <1>2, <3>6, <4>3 DEF Execute, i, s, t
        <5> QED
          BY <5>1, <3>1, <2>4
      <4> QED
        BY <4>1, <4>2, <4>3
    <3> QED
      BY <3>4, <3>5, <3>6
  <2>9. mult_busy' \in BOOLEAN /\ mult_a' \in Val /\ mult_hi' \in Val
    <3>1. mult_busy \in BOOLEAN /\ mult_a \in Val /\ mult_hi \in Val
      BY DEF TypeOK, ExecuteTypeOK
    <3>2. mult_busy' \in BOOLEAN /\ mult_a' \in Val
      BY <1>2, <2>3, <3>1, Constants DEF Execute, i, s
    <3>3. mult_hi' \in Val
      BY <1>2, <2>3, <3>1, Constants DEF Execute, i, s
    <3> QED
      BY <3>2, <3>3
  <2> QED
    BY <2>5, <2>6, <2>7, <2>8, <2>9 DEF ExecuteTypeOK
<1> QED
  BY <1>1, <1>2

LEMMA RetiringType ==
  ASSUME TypeOK, NEW hazard, Retires(hazard)
  PROVE  /\ EX = x /\ x \in Code
         /\ program[x] \in Instr
         /\ Op(x) # "none"
<1>1. EX = x /\ x \in Code
  BY Wires DEF Retires, Slot
<1>2. program[x] \in Instr
  BY <1>1 DEF TypeOK
<1>3. Op(x) = program[x].op
  BY <1>1, Constants DEF Op
<1> QED
  BY <1>1, <1>2, <1>3 DEF Instr, Ops, HiLoOps, ControlTransfers

LEMMA MemoryType ==
  ASSUME TypeOK, NEW junk \in Val, NEW hazard \in Hazards, NEW over \in BOOLEAN,
         Access(hazard, junk), RestartME(hazard, over), WriteBack
  PROVE  MemoryTypeOK'
<1>1. MemoryTypeOK
  BY DEF TypeOK
<1>2. m' \in Slot
  BY RetiringType DEF Access, Slot
<1>3. m_res' \in Val
  <2>1. CASE ~Retires(hazard)
    BY <2>1, Constants DEF Access
  <2>2. CASE Retires(hazard) /\ Op(x) = "lw"
    BY <2>2, <1>1, Constants DEF Access, MemoryTypeOK
  <2>3. CASE Retires(hazard) /\ Op(x) # "lw"
    <3>1. x_res(junk) \in Val
      BY <2>3, RetiringType, ResultType
    <3> QED
      BY <2>3, <3>1, Constants DEF Access
  <2> QED
    BY <2>1, <2>2, <2>3
<1>4. mem' \in Val
  BY <1>1 DEF Access, x_rt_fwd, MemoryTypeOK, TypeOK, ExecuteTypeOK
<1>5. /\ m_restart' \in BOOLEAN /\ one_shot_restart' \in BOOLEAN
      /\ awaited' \in {"nothing", "soon", "now"}
  BY DEF RestartME, StillWaits
<1>6. m_restart' => m_restart_pc' \in Code
  <2>1. CASE hazard # "none"
    <3>1. EX # None
      BY <2>1 DEF Hazards, Op
    <3>2. x \in Code
      BY <3>1, Wires DEF Slot
    <3> QED
      BY <2>1, <3>2, Minus1Type DEF RestartME, MemoryRestart
  <2>2. CASE hazard = "none"
    BY <2>2, <1>1 DEF RestartME, StillWaits, MemoryTypeOK
  <2> QED
    BY <2>1, <2>2
<1>7. Rd(m) \in Reg
  BY <1>1, InstrFields DEF Rd, Reg, MemoryTypeOK, Slot, TypeOK
<1>8. w_wbr' \in Reg /\ w_res' \in Val
  BY <1>1, <1>7 DEF WriteBack, MemoryTypeOK
<1>9. regs' \in [Regs -> Val]
  <2>1. Rd(m) # R0 => Rd(m) \in Regs
    BY <1>7 DEF Reg
  <2> QED
    BY <2>1, <1>1 DEF WriteBack, MemoryTypeOK
<1> QED
  BY <1>2, <1>3, <1>4, <1>5, <1>6, <1>8, <1>9 DEF MemoryTypeOK

LEMMA ProgressType ==
  ASSUME TypeOK, NEW hazard, Progress(hazard)
  PROVE  pc' \in Code /\ pc_next' \in Code /\ hi' \in Val
<1>1. CASE ~Retires(hazard)
  BY <1>1 DEF Progress, TypeOK
<1>2. CASE Retires(hazard)
  <2>1. x \in Code /\ x \in Nat
    BY <1>2, RetiringType, Constants
  <2>2. /\ Plus(x, 1) \in Code
        /\ Handler \in Code
    BY <2>1, PlusType, InstructionsAssumption
  <2>3. pc' \in Code
    BY <1>2, <2>2 DEF Progress, TypeOK
  <2>4. Plus(pc', 1) \in Code
    BY <2>3, PlusType, Constants
  <2>5. pc_next' \in Code
    BY <1>2, <2>4 DEF Progress, TypeOK, ExecuteTypeOK, Slot
  <2>6. hi' \in Val
    BY <1>2 DEF Progress, TypeOK, ExecuteTypeOK
  <2> QED
    BY <2>3, <2>5, <2>6
<1> QED
  BY <1>1, <1>2

----------------------------------------------------------------------------

LEMMA InitType == Init => TypeOK
<1>1. 0 \in Code /\ 1 \in Code
  BY InstructionsAssumption DEF Code
<1>2. SUFFICES ASSUME Init PROVE TypeOK
  OBVIOUS
<1>3. program \in [Code -> Instr]
  BY <1>2, InstructionsAssumption DEF Init
<1>4. FetchTypeOK
  BY <1>1, <1>2 DEF Init, FetchTypeOK
<1>5. DecodeTypeOK
  BY <1>2, Constants DEF Init, DecodeTypeOK, Slot
<1>6. ExecuteTypeOK
  BY <1>2, Constants DEF Init, ExecuteTypeOK, Slot
<1>7. MemoryTypeOK
  BY <1>1, <1>2, Constants DEF Init, MemoryTypeOK, Slot, Reg
<1>8. quiet \in 0 .. SettleBound + 1
  BY <1>2, PipelineAssumption DEF Init
<1>9. pc \in Code /\ pc_next \in Code /\ hi \in Val
  BY <1>1, <1>2, Constants DEF Init
<1> QED
  BY <1>3, <1>4, <1>5, <1>6, <1>7, <1>8, <1>9 DEF TypeOK

LEMMA NextType == TypeOK /\ [Next]_vars => TypeOK'
<1>1. SUFFICES ASSUME TypeOK, [Next]_vars PROVE TypeOK'
  OBVIOUS
<1>2. CASE Next
  <2>1. PICK hit \in Hits, resume \in Resumes, hazard \in Hazards,
             over \in Overs, finish \in Finish, junk \in Junk :
               Clock(hit, resume, hazard, over, finish, junk)
    BY <1>2 DEF Next
  <2>2. /\ hit \in BOOLEAN /\ resume \in BOOLEAN /\ over \in BOOLEAN
        /\ finish \in BOOLEAN /\ junk \in Val
    BY Inputs
  <2>3. FetchTypeOK'
    BY <1>1, <2>1, <2>2, FetchType DEF Clock
  <2>4. DecodeTypeOK'
    BY <1>1, <2>1, <2>2, DecodeType DEF Clock
  <2>5. ExecuteTypeOK'
    BY <1>1, <2>1, <2>2, ExecuteType DEF Clock
  <2>6. MemoryTypeOK'
    BY <1>1, <2>1, <2>2, MemoryType DEF Clock
  <2>7. pc' \in Code /\ pc_next' \in Code /\ hi' \in Val
    BY <1>1, <2>1, ProgressType DEF Clock
  <2>8. quiet' \in 0 .. SettleBound + 1
    BY <1>1, <2>1, PipelineAssumption DEF Clock, Settling, TypeOK
  <2>9. program' \in [Code -> Instr]
    BY <1>1, <2>1 DEF Clock, TypeOK
  <2> QED
    BY <2>3, <2>4, <2>5, <2>6, <2>7, <2>8, <2>9 DEF TypeOK
<1>3. CASE UNCHANGED vars
  BY <1>1, <1>3
  DEF vars, ifVars, deVars, exVars, hiVars, meVars, wbVars, TypeOK,
      FetchTypeOK, DecodeTypeOK, ExecuteTypeOK, MemoryTypeOK
<1> QED
  BY <1>1, <1>2, <1>3

(* The registers of the pipeline keep to their types: in particular every  *)
(* restart has an address, and every stage an instruction.                 *)
THEOREM PipelineTypeCorrect == Spec => []TypeOK
BY InitType, NextType, PTL DEF Spec

----------------------------------------------------------------------------

LEMMA InitSlots == Init => DelaySlotInv
BY Constants
DEF Init, DelaySlotInv, SlotFollows, ConsecutiveFetch, KeptInstruction,
    FetchBehindDecode, EX

(* The instruction that DE takes next is the one behind the one it holds.  *)
LEMMA TakenInOrder ==
  ASSUME TypeOK, DelaySlotInv, NEW hit \in BOOLEAN, d # None, i_valid_muxed(hit)
  PROVE  i_pc_muxed = Plus(d, 1)
<1>1. ~d_load_use_hazard
  BY DEF DelaySlotInv, KeptInstruction
<1>2. i2_valid /\ ~restart /\ i_pc_muxed = i_pc
  BY <1>1 DEF i_valid_muxed, i_pc_muxed
<1> QED
  BY <1>2 DEF DelaySlotInv, FetchBehindDecode

LEMMA NextSlots ==
  ASSUME TypeOK, DelaySlotInv, Next
  PROVE  DelaySlotInv'
<1>1. PICK hit \in BOOLEAN, resume \in BOOLEAN, hazard \in Hazards,
           over \in BOOLEAN, finish \in BOOLEAN, junk \in Val :
             Clock(hit, resume, hazard, over, finish, junk)
  BY Inputs DEF Next
<1>2. /\ Fetch(hit, resume)
      /\ Decode(hit)
      /\ Execute(junk, finish)
      /\ program' = program
  BY <1>1 DEF Clock
<1>3. SlotFollows'
  <2>1. SUFFICES ASSUME EX' # None, HasDelaySlot(program'[EX'])
                 PROVE  d' = Plus(x', 1)
    BY DEF SlotFollows
  <2>2. EX' = x' /\ x' # None /\ ~d_flush_X'
    BY <2>1 DEF EX, flush_X
  <2>3. x' = DE /\ DE # None /\ DE = d
    BY <1>2, <2>2, Wires DEF Execute
  <2>4. HasDelaySlot(program[DE])
    BY <1>2, <2>1, <2>2, <2>3
  <2>5. i_valid_muxed(hit)
    BY <1>2, <2>2, <2>3, <2>4 DEF Decode, DelaySlotBubble
  <2>6. ~LoadUse(hit)
    BY <2>3, <2>4 DEF LoadUse, Op, HasDelaySlot, ControlTransfers
  <2>7. d' = i_pc_muxed
    BY <1>2, <2>5, <2>6 DEF Decode
  <2> QED
    BY <2>3, <2>5, <2>7, TakenInOrder
<1>4. ConsecutiveFetch'
  BY <1>2 DEF Fetch, DelaySlotInv, ConsecutiveFetch
<1>5. KeptInstruction'
  <2>1. SUFFICES ASSUME LoadUse(hit)
                 PROVE  d' = None /\ d_restart' /\ d_restart_pc' = Plus(d_pc', 1)
    BY <1>2 DEF KeptInstruction, Decode
  <2>2. ~DelaySlotBubble(hit)
    BY <2>1 DEF LoadUse, DelaySlotBubble
  <2>3. i_valid_muxed(hit)
    BY <2>1 DEF LoadUse
  <2> QED
    BY <1>2, <2>1, <2>2, <2>3 DEF Decode, RestartDE
<1>6. FetchBehindDecode'
  <2>1. SUFFICES ASSUME d' # None, i2_valid', ~restart'
                 PROVE  i_pc' = Plus(d', 1)
    BY DEF FetchBehindDecode
  <2>2. i_valid_muxed(hit) /\ d' = i_pc_muxed
    BY <1>2, <2>1 DEF Decode
  <2>3. i_pc' = fetchaddress
    BY <1>2, <2>1 DEF Fetch, DelaySlotInv, ConsecutiveFetch
  <2>4. CASE d_load_use_hazard
    BY <2>2, <2>3, <2>4
    DEF DelaySlotInv, KeptInstruction, fetchaddress, restart, restart_pc, i_pc_muxed
  <2>5. CASE ~d_load_use_hazard
    <3>1. i2_valid /\ ~restart /\ i_pc_muxed = i_pc
      BY <2>2, <2>5 DEF i_valid_muxed, i_pc_muxed
    <3> QED
      BY <2>2, <2>3, <3>1 DEF fetchaddress, DelaySlotInv, ConsecutiveFetch
  <2> QED
    BY <2>4, <2>5
<1> QED
  BY <1>3, <1>4, <1>5, <1>6 DEF DelaySlotInv

(* A control transfer that ME will retire has its delay slot right behind  *)
(* it, whatever the caches do: what stage_D.v promises to the stages after *)
(* it when it restarts a transfer with a bubble behind it.                 *)
THEOREM DelaySlotCorrect == Spec => []DelaySlotInv
<1>1. DelaySlotInv /\ UNCHANGED vars => DelaySlotInv'
  BY DEF vars, ifVars, deVars, exVars, hiVars, meVars, wbVars, DelaySlotInv,
         SlotFollows, ConsecutiveFetch, KeptInstruction, FetchBehindDecode,
         restart, EX, flush_X
<1>2. TypeOK /\ DelaySlotInv /\ [Next]_vars => DelaySlotInv'
  BY <1>1, NextSlots
<1> QED
  BY <1>2, InitSlots, PipelineTypeCorrect, PTL DEF Spec

----------------------------------------------------------------------------

LEMMA NextRestarts ==
  ASSUME TypeOK, Next
  PROVE  RestartsAgree'
<1>1. PICK hit \in BOOLEAN, finish \in BOOLEAN, junk \in Val :
             Decode(hit) /\ Execute(junk, finish)
  BY Inputs DEF Next, Clock
<1>2. SUFFICES ASSUME d_restart', x_restart'
               PROVE  d_flush_X' /\ d_restart_pc' = x'
  BY DEF RestartsAgree
<1>3. DE # None /\ DE = d
  BY <1>1, <1>2, Wires DEF Execute, MultHazard
<1>4. Op(d) # "lw"
  <2>1. SUFFICES ASSUME program[d].op = "lw" PROVE FALSE
    BY <1>3 DEF Op
  <2> QED
    BY <1>1, <1>2, <1>3, <2>1 DEF Execute, MultHazard, HiLoOps, Takes
<1>5. DelaySlotBubble(hit)
  BY <1>1, <1>2, <1>4 DEF Decode, LoadUse
<1>6. ~MultHazard
  BY <1>5 DEF MultHazard, DelaySlotBubble, HasDelaySlot, ControlTransfers, HiLoOps
<1> QED
  BY <1>1, <1>2, <1>3, <1>5, <1>6 DEF Decode, Execute, RestartDE

(* DE and EX never restart for different reasons in one cycle: the order   *)
(* between the two in restart_pc is immaterial but for a bubble in a delay *)
(* slot, where DE is right to win.                                         *)
THEOREM RestartsAgreeCorrect == Spec => []RestartsAgree
<1>1. Init => RestartsAgree
  BY DEF Init, RestartsAgree
<1>2. RestartsAgree /\ UNCHANGED vars => RestartsAgree'
  BY DEF RestartsAgree, vars, deVars, exVars
<1>3. TypeOK /\ RestartsAgree /\ [Next]_vars => RestartsAgree'
  BY <1>2, NextRestarts
<1> QED
  BY <1>1, <1>3, PipelineTypeCorrect, PTL DEF Spec

----------------------------------------------------------------------------
(* The registers as the instructions see them, and as execution sees them. *)
Value(file, n) == IF n = R0 THEN 0 ELSE file[n]

Get(n) == Value(r, n)

(* Where the transfer at address a goes, decided by the registers as they  *)
(* are when all that is in front of it has retired.                        *)
Outcome(a) ==
  LET i == program[a]
      s == Get(i.rs)
  IN IF Takes(i, s, Get(i.rt)) THEN Target(i, s) ELSE Plus(a, 2)

(* The transfer at a has retired, its delay slot is next.                  *)
InSlotOf(a) ==
  /\ HasDelaySlot(program[a])
  /\ pc = Plus(a, 1)
  /\ pc_next = Outcome(a)
  /\ program[a].rd # R0 => r[program[a].rd] = Link(a)

(* Execution may go on at a: nothing is passed over, and what is repeated  *)
(* is a transfer.                                                          *)
Continues(a) ==
  \/ a = pc /\ pc_next = Plus(pc, 1)
  \/ InSlotOf(a)

(* The address pair behind the instruction in EX, if there is one.         *)
behind == IF Op(x) = "break" THEN Handler
          ELSE IF x_is_delay_slot THEN pc_next ELSE Plus(x, 1)
behind_next == IF x_target # None THEN x_target ELSE Plus(behind, 1)

(* The instruction at a may follow the one in EX.                          *)
Follows(a) == IF EX # None THEN a = behind ELSE Continues(a)

(* The address that IF delivers next.                                      *)
Head == IF i2_valid THEN i_pc ELSE i_npc
Stream == IF restart /\ state # "lookup" THEN restart_pc ELSE Head

(* The restarts, and what they leave in the stages.                        *)
RestartInv ==
  /\ d_restart => d = None
  /\ d_flush_X => d_restart /\ x # None /\ HasDelaySlot(program[x])
  /\ x_has_delay_slot = (x # None /\ HasDelaySlot(program[x]))
  /\ x_target # None => x_restart /\ ~x_flush_D /\ x_restart_pc = x_target
  /\ x_restart /\ ~x_flush_D => x # None /\ x_target # None /\ HasDelaySlot(program[x])
  /\ x_flush_D => x_restart /\ (x # None => program[x].op \in {"break", "synci"})
  /\ x_synci => x # None /\ program[x].op = "synci"
  /\ state = "lookup" => d = None /\ x = None /\ ~d_restart /\ ~x_restart
  /\ d_load_use_hazard => ~x_restart
  /\ ~m_restart \/ one_shot_restart => awaited = "nothing"
  /\ m_restart /\ (one_shot_restart \/ awaited # "soon") => ~d_restart

(* Operands: what has not been forwarded yet, and what has.                *)
OperandInv ==
  /\ w_wbr # R0 => regs[w_wbr] = w_res
  /\ d # None =>
       /\ IF program[d].rs = R0 THEN rs_reg_val = 0
          ELSE program[d].rs # w_wbr => rs_reg_val = regs[program[d].rs]
       /\ IF program[d].rt = R0 THEN rt_reg_val = 0
          ELSE program[d].rt # w_wbr => rt_reg_val = regs[program[d].rt]
  /\ d # None /\ Op(EX) = "lw" => ~UsesLoad(program[d], program[x])
  /\ EX # None =>
       LET i == program[x]
       IN /\ x_op1_val = Get(i.rs)
          /\ x_rt_fwd = Get(i.rt)
          /\ x_target = IF Takes(i, Get(i.rs), Get(i.rt)) THEN Target(i, Get(i.rs)) ELSE None

(* The instructions in the stages are the next ones to retire.             *)
OrderInv ==
  /\ EX # None => IF x_is_delay_slot THEN x = pc /\ InSlotOf(Minus1(x, TRUE))
                  ELSE Continues(x)
  /\ DE # None => /\ Follows(d)
                  /\ state # "lookup"
                  /\ ~x_restart => Stream = Plus(d, 1)
  /\ DE = None /\ ~(m_restart /\ d_restart) =>
       Follows(IF d_load_use_hazard THEN d_pc ELSE Stream)
  /\ m_restart => Continues(m_restart_pc)

(* HI, as it will be when the multiplication has ended.                    *)
unit_hi == IF mult_busy THEN mult_a ELSE mult_hi

Writer(a) == program[a].op \in {"mult", "mthi"}

(* HI is ahead of the instructions that have retired only if one that      *)
(* writes it is executed again before anything reads it.                   *)
Rewrites(a, b) == Writer(a) \/ (program[a].op \in {"lw", "sw"} /\ Writer(b))

HiInv ==
  /\ Op(x) \in {"mfhi", "mthi"} => ~mult_busy
  /\ IF EX = None THEN unit_hi = hi \/ Rewrites(pc, pc_next)
     ELSE \/ unit_hi = IF Writer(x) THEN x_op1_val ELSE hi
          \/ program[x].op \in {"lw", "sw"} /\ Writer(behind)
          \/ HasDelaySlot(program[x]) /\ Rewrites(behind, behind_next)


----------------------------------------------------------------------------
(* Addresses in a row.                                                     *)
LEMMA PlusRow ==
  ASSUME NEW a \in Code
  PROVE  /\ Plus(a, 1) \in Code
         /\ Plus(a, 2) \in Code
         /\ Plus(a, Size - 1) \in Code
         /\ Plus(a, 1) # a
         /\ Plus(Plus(a, 1), 1) = Plus(a, 2)
         /\ Plus(Plus(a, 1), Size - 1) = a
         /\ Plus(Plus(a, Size - 1), 1) = a
<1>1. a \in Nat /\ a < Size /\ Size \in Nat /\ Size > 1
  BY InstructionsAssumption DEF Code
<1>2. \A n \in Nat : n < Size => n % Size = n
  BY <1>1
<1>3. \A n \in Nat : n >= Size /\ n < Size + Size => n % Size = n - Size
  BY <1>1
<1>4. /\ Plus(a, 1) = IF a + 1 < Size THEN a + 1 ELSE 0
      /\ Plus(a, Size - 1) = IF a = 0 THEN Size - 1 ELSE a - 1
      /\ Plus(a, 2) = IF a + 2 < Size THEN a + 2 ELSE a + 2 - Size
  BY <1>1, <1>2, <1>3 DEF Plus
<1>5. Plus(a, 1) \in Code /\ Plus(a, 2) \in Code /\ Plus(a, Size - 1) \in Code
  BY <1>1, <1>4 DEF Code
<1>6. \A b \in Code : /\ Plus(b, 1) = IF b + 1 < Size THEN b + 1 ELSE 0
                      /\ Plus(b, Size - 1) = IF b = 0 THEN Size - 1 ELSE b - 1
  <2>1. SUFFICES ASSUME NEW b \in Code
                 PROVE  /\ Plus(b, 1) = IF b + 1 < Size THEN b + 1 ELSE 0
                        /\ Plus(b, Size - 1) = IF b = 0 THEN Size - 1 ELSE b - 1
    OBVIOUS
  <2>2. b \in Nat /\ b < Size
    BY <1>1 DEF Code
  <2> QED
    BY <1>1, <1>2, <1>3, <2>2 DEF Plus
<1>7. Plus(a, 1) # a
  BY <1>1, <1>4
<1>8. Plus(Plus(a, 1), 1) = Plus(a, 2)
  BY <1>1, <1>4, <1>5, <1>6
<1>9. Plus(Plus(a, 1), Size - 1) = a
  BY <1>1, <1>4, <1>5, <1>6
<1>10. Plus(Plus(a, Size - 1), 1) = a
  BY <1>1, <1>4, <1>5, <1>6
<1> QED
  BY <1>5, <1>7, <1>8, <1>9, <1>10

(* What the instruction in ME leaves in the registers.                     *)
LEMMA RegistersType == ASSUME TypeOK PROVE r \in [Regs -> Val]
<1>1. Rd(m) # R0 => Rd(m) \in Regs
  BY InstrFields DEF Rd, Reg, TypeOK, MemoryTypeOK, Slot
<1> QED
  BY <1>1 DEF r, TypeOK, MemoryTypeOK

LEMMA RegistersStep ==
  ASSUME TypeOK, NEW hazard, NEW junk, Access(hazard, junk), WriteBack,
         program' = program
  PROVE  /\ ~Retires(hazard) => r' = r
         /\ Retires(hazard) => r' = IF Rd(x) = R0 THEN r ELSE [r EXCEPT ![Rd(x)] = m_res']
<1>1. regs' = r
  BY DEF WriteBack, r
<1>2. Rd(m)' = IF Retires(hazard) THEN Rd(x) ELSE R0
  <2>1. Retires(hazard) => EX = x /\ x # None
    BY RetiringType, Constants
  <2> QED
    BY <2>1 DEF Access, Rd
<1> QED
  BY <1>1, <1>2 DEF r

(* IF: an address is not lost, and passed over only when it is delivered.  *)
Delivers(hit) == state = "running" /\ i2_valid /\ hit /\ ~restart

LEMMA HeadStep ==
  ASSUME TypeOK, DelaySlotInv, RestartInv, NEW hit \in BOOLEAN, NEW resume \in BOOLEAN,
         Fetch(hit, resume)
  PROVE  Head' = IF Delivers(hit) THEN Plus(Stream, 1) ELSE Stream
<1>1. x_synci => restart /\ state # "lookup"
  BY DEF TypeOK, ExecuteTypeOK, RestartInv, restart
<1>2. /\ i2_valid => state = "running" /\ i_npc = Plus(i_pc, 1)
      /\ i2_valid \in BOOLEAN
  BY DEF DelaySlotInv, ConsecutiveFetch, TypeOK, FetchTypeOK
<1>3. CASE state = "running" /\ ~x_synci /\ (hit \/ ~i2_valid)
  BY <1>2, <1>3 DEF Fetch, Head, Stream, Delivers, fetchaddress
<1>4. CASE state = "running" /\ ~x_synci /\ ~hit /\ i2_valid
  BY <1>2, <1>4 DEF Fetch, Head, Stream, Delivers, fetchaddress
<1>5. CASE x_synci
  BY <1>1, <1>2, <1>5 DEF Fetch, Head, Stream, Delivers
<1>6. CASE state = "lookup" /\ ~x_synci
  BY <1>2, <1>6 DEF Fetch, Head, Stream, Delivers
<1>7. CASE state = "filling" /\ ~x_synci
  BY <1>2, <1>7 DEF Fetch, Head, Stream, Delivers
<1> QED
  BY <1>3, <1>4, <1>5, <1>6, <1>7 DEF TypeOK, FetchTypeOK

----------------------------------------------------------------------------
LEMMA HazardType ==
  ASSUME TypeOK, NEW hazard \in Hazards, hazard # "none"
  PROVE  /\ EX # None /\ EX = x /\ ~m_restart
         /\ Op(EX) \in {"lw", "sw"} /\ program[x].op \in {"lw", "sw"}
BY Wires DEF Hazards, Op, EX, flush_X

LEMMA RestartStep ==
  ASSUME ~OneShotRaces, TypeOK, DelaySlotInv, RestartInv,
         NEW hit \in BOOLEAN, NEW resume \in BOOLEAN, NEW hazard \in Hazards,
         NEW over \in BOOLEAN, NEW finish \in BOOLEAN, NEW junk \in Val,
         Clock(hit, resume, hazard, over, finish, junk)
  PROVE  RestartInv'
<1>1. /\ Fetch(hit, resume) /\ Decode(hit) /\ Execute(junk, finish)
      /\ RestartME(hazard, over) /\ program' = program /\ ~Races(hit, hazard)
  BY DEF Clock
<1>2. DE # None => DE = d /\ DE \in Code /\ program[DE] \in Instr
  BY Wires DEF Slot, TypeOK
<1>3. d_load_use_hazard => d = None /\ d_restart /\ ~x_restart
  BY DEF DelaySlotInv, KeptInstruction, RestartInv
<1>4. d_restart' => d' = None
  BY <1>1 DEF Decode, DelaySlotBubble
<1>5. d_flush_X' => d_restart' /\ x' # None /\ HasDelaySlot(program'[x'])
  BY <1>1 DEF Decode, DelaySlotBubble, Execute, MultHazard, HasDelaySlot,
              ControlTransfers, HiLoOps
<1>6. x_has_delay_slot' = (x' # None /\ HasDelaySlot(program'[x']))
  BY <1>1 DEF Execute, MultHazard, HasDelaySlot, ControlTransfers, HiLoOps
<1>7. LoadUse(hit) => i_valid_muxed(hit) /\ Op(d) = "lw" /\ d # None
  BY DEF LoadUse, Op
<1>8. DE # None =>
        \A s, t : Takes(program[DE], s, t) =>
           program[DE].op \in ControlTransfers
  BY DEF Takes, ControlTransfers
<1>9. x_target' # None => x_restart' /\ ~x_flush_D' /\ x_restart_pc' = x_target'
  BY <1>1, <1>8 DEF Execute, MultHazard, ControlTransfers, HiLoOps
<1>10. x_restart' /\ ~x_flush_D' => x' # None /\ x_target' # None /\ HasDelaySlot(program'[x'])
  <2> DEFINE s == Forward(program[DE].rs, rs_reg_val, junk)
  <2>1. DE # None => s \in Val
    BY <1>2, InstrFields, ForwardType DEF TypeOK, DecodeTypeOK
  <2>2. DE # None => Target(program[DE], s) \in Code
    BY <1>2, <2>1, InstrFields
  <2> QED
    BY <1>1, <1>8, <2>2, Constants DEF Execute, HasDelaySlot
<1>11. x_flush_D' => x_restart' /\ (x' # None => program'[x'].op \in {"break", "synci"})
  BY <1>1 DEF Execute
<1>12. x_synci' => x' # None /\ program'[x'].op = "synci"
  BY <1>1 DEF Execute, MultHazard, HiLoOps
<1>13. state' = "lookup" => d' = None /\ x' = None /\ ~d_restart' /\ ~x_restart'
  <2>1. SUFFICES ASSUME state' = "lookup"
                 PROVE  d' = None /\ x' = None /\ ~d_restart' /\ ~x_restart'
    OBVIOUS
  <2>2. DE = None /\ ~i_valid_muxed(hit)
    <3>1. CASE x_synci
      <4>1. x_restart /\ x_flush_D
        BY <3>1 DEF TypeOK, ExecuteTypeOK, RestartInv, HasDelaySlot, ControlTransfers
      <4> QED
        BY <4>1, <1>3 DEF DE, flush_D, i_valid_muxed, restart
    <3>2. CASE ~x_synci
      <4>1. state = "lookup"
        BY <1>1, <2>1, <3>2 DEF Fetch, TypeOK, FetchTypeOK
      <4> QED
        BY <4>1, <1>3 DEF RestartInv, DE, i_valid_muxed
    <3> QED
      BY <3>1, <3>2
  <2> QED
    BY <1>1, <2>2 DEF Decode, Execute, DelaySlotBubble, LoadUse, MultHazard
<1>14. d_load_use_hazard' => ~x_restart'
  <2>1. SUFFICES ASSUME LoadUse(hit) PROVE ~x_restart'
    BY <1>1 DEF Decode
  <2>2. DE # None => program[DE].op = "lw"
    BY <1>2, <1>7, <2>1 DEF Op
  <2> QED
    BY <1>1, <1>8, <2>2 DEF Execute, MultHazard, ControlTransfers, HiLoOps
<1>15. m_restart => /\ DE = None
                    /\ ~DelaySlotBubble(hit) /\ ~LoadUse(hit) /\ hazard = "none"
  BY <1>3, <1>7, HazardType DEF DE, flush_D, DelaySlotBubble, i_valid_muxed, restart
<1>16. ~m_restart' \/ one_shot_restart' => awaited' = "nothing"
  BY <1>1, HazardType DEF RestartME, StillWaits, RestartInv
<1>17. m_restart' /\ (one_shot_restart' \/ awaited' # "soon") => ~d_restart'
  <2>1. CASE hazard = "none"
    BY <1>1, <1>15, <2>1 DEF RestartME, StillWaits, Decode
  <2>2. CASE hazard = "once"
    BY <1>1, <2>2 DEF Races, Decode
  <2>3. CASE hazard = "wait"
    BY <1>1, <2>3 DEF RestartME
  <2> QED
    BY <2>1, <2>2, <2>3 DEF Hazards
<1> QED
  BY <1>4, <1>5, <1>6, <1>9, <1>10, <1>11, <1>12, <1>13, <1>14, <1>16, <1>17
  DEF RestartInv

----------------------------------------------------------------------------
(* Operands.                                                               *)
LEMMA TakenStep ==
  ASSUME TypeOK, RestartInv,
         NEW hit, NEW resume, NEW hazard, NEW over, NEW finish, NEW junk,
         Clock(hit, resume, hazard, over, finish, junk), EX' # None
  PROVE  /\ EX' = x' /\ x' = DE /\ DE = d /\ d \in Code /\ program[d] \in Instr
         /\ ~MultHazard /\ hazard = "none" /\ ~m_restart' /\ ~m_restart
         /\ EX = x /\ ~d_flush_X' /\ ~DelaySlotBubble(hit)
<1>1. /\ Execute(junk, finish) /\ RestartME(hazard, over) /\ Decode(hit)
  BY DEF Clock
<1>2. EX' = x' /\ ~m_restart' /\ ~d_flush_X'
  BY DEF EX, flush_X
<1>3. x' = DE /\ ~MultHazard /\ hazard = "none" /\ ~DelaySlotBubble(hit)
  BY <1>1, <1>2 DEF Execute, RestartME, Decode
<1>4. DE = d /\ d # None /\ ~m_restart
  BY <1>2, <1>3 DEF DE, flush_D
<1>5. EX = x
  BY <1>4 DEF RestartInv, EX, flush_X
<1>6. d \in Code /\ program[d] \in Instr
  BY <1>4 DEF TypeOK, DecodeTypeOK, Slot
<1> QED
  BY <1>2, <1>3, <1>4, <1>5, <1>6

LEMMA Forwarded ==
  ASSUME TypeOK, OperandInv, NEW n \in Reg, NEW old \in Val, NEW junk \in Val,
         Access("none", junk), WriteBack, program' = program,
         IF n = R0 THEN old = 0 ELSE n # w_wbr => old = regs[n],
         ~(Op(EX) = "lw" /\ n = Rd(EX) /\ n # R0)
  PROVE  Forward(n, old, junk) = Value(r', n)
<1>1. CASE n = R0
  BY <1>1 DEF Forward, Value
<1>2. CASE n # R0
  <2>1. n \in Regs
    BY <1>2 DEF Reg
  <2>2. regs \in [Regs -> Val]
    BY DEF TypeOK, MemoryTypeOK
  <2>3. r[n] = IF n = Rd(m) THEN m_res ELSE IF n = w_wbr THEN w_res ELSE old
    BY <1>2, <2>1, <2>2 DEF r, OperandInv
  <2>4. CASE EX = None
    <3>1. r' = r
      BY <2>4, RegistersStep DEF Retires
    <3>2. Rd(EX) = R0
      BY <2>4 DEF Rd
    <3> QED
      BY <1>2, <2>3, <3>1, <3>2 DEF Forward, Value
  <2>5. CASE EX # None
    <3>1. Retires("none") /\ EX = x /\ Rd(EX) = Rd(x)
      BY <2>5, Wires DEF Retires
    <3>2. r' = IF Rd(x) = R0 THEN r ELSE [r EXCEPT ![Rd(x)] = m_res']
      BY <3>1, RegistersStep
    <3>3. r \in [Regs -> Val]
      BY RegistersType
    <3>4. n = Rd(x) => m_res' = x_res(junk)
      BY <1>2, <3>1 DEF Access
    <3>5. Value(r', n) = IF n = Rd(x) THEN m_res' ELSE r[n]
      BY <1>2, <2>1, <3>2, <3>3 DEF Value
    <3> QED
      BY <1>2, <2>3, <3>1, <3>4, <3>5 DEF Forward
  <2> QED
    BY <2>4, <2>5
<1> QED
  BY <1>1, <1>2

LEMMA OperandStep ==
  ASSUME TypeOK, RestartInv, OperandInv,
         NEW hit \in BOOLEAN, NEW resume \in BOOLEAN, NEW hazard \in Hazards,
         NEW over \in BOOLEAN, NEW finish \in BOOLEAN, NEW junk \in Val,
         Clock(hit, resume, hazard, over, finish, junk)
  PROVE  OperandInv'
<1>1. /\ Decode(hit) /\ Execute(junk, finish) /\ Access(hazard, junk)
      /\ WriteBack /\ program' = program
  BY DEF Clock
<1>2. w_wbr' # R0 => regs'[w_wbr'] = w_res'
  <2>1. SUFFICES ASSUME w_wbr' # R0 PROVE regs'[w_wbr'] = w_res'
    OBVIOUS
  <2>2. Rd(m) # R0 /\ Rd(m) \in Reg
    BY <1>1, <2>1, InstrFields DEF WriteBack, Rd, TypeOK, MemoryTypeOK, Slot
  <2> QED
    BY <1>1, <2>2 DEF WriteBack, TypeOK, MemoryTypeOK, Reg
<1>3. ASSUME d' # None
      PROVE  /\ IF program[d'].rs = R0 THEN rs_reg_val' = 0
                ELSE program[d'].rs # w_wbr' => rs_reg_val' = regs'[program[d'].rs]
             /\ IF program[d'].rt = R0 THEN rt_reg_val' = 0
                ELSE program[d'].rt # w_wbr' => rt_reg_val' = regs'[program[d'].rt]
  <2>1. i_valid_muxed(hit) /\ d' = i_pc_muxed /\ d' \in Code
    BY <1>1, <1>3 DEF Decode, i_pc_muxed, TypeOK, FetchTypeOK, DecodeTypeOK
  <2>2. rs_reg_val' = RegVal(program[d'].rs) /\ rt_reg_val' = RegVal(program[d'].rt)
    BY <1>1, <2>1 DEF Decode
  <2>3. \A n \in Reg : n # R0 /\ n # w_wbr' => RegVal(n) = regs'[n]
    BY <1>1 DEF WriteBack, RegVal, TypeOK, MemoryTypeOK, Reg
  <2>4. program[d'].rs \in Reg /\ program[d'].rt \in Reg
    BY <2>1, InstrFields DEF TypeOK
  <2> QED
    BY <2>2, <2>3, <2>4 DEF RegVal
<1>4. d' # None /\ Op(EX)' = "lw" => ~UsesLoad(program[d'], program[x'])
  <2>1. SUFFICES ASSUME d' # None, EX' # None, program'[EX'].op = "lw"
                 PROVE  ~UsesLoad(program[d'], program[x'])
    BY DEF Op
  <2>2. EX' = d /\ x' = d
    BY <2>1, TakenStep
  <2>3. Op(d) = "lw"
    BY <1>1, <2>1, <2>2 DEF Op
  <2>4. i_valid_muxed(hit) /\ d' = i_pc_muxed /\ ~LoadUse(hit)
    BY <1>1, <2>1 DEF Decode
  <2> QED
    BY <2>2, <2>3, <2>4 DEF LoadUse
<1>5. ASSUME EX' # None
      PROVE  /\ x_op1_val' = Value(r', program[x'].rs)
             /\ x_rt_fwd' = Value(r', program[x'].rt)
             /\ x_target' = IF Takes(program[x'], Value(r', program[x'].rs),
                                                  Value(r', program[x'].rt))
                              THEN Target(program[x'], Value(r', program[x'].rs)) ELSE None
  <2> DEFINE i == program[d]
             s == Forward(i.rs, rs_reg_val, junk)
             t == Forward(i.rt, rt_reg_val, junk)
  <2>1. /\ x' = d /\ DE = d /\ d \in Code /\ d # None /\ i \in Instr
        /\ ~MultHazard /\ hazard = "none" /\ EX = x
    BY <1>5, TakenStep, Constants
  <2>2. i.rs \in Reg /\ i.rt \in Reg
    BY <2>1, InstrFields
  <2>3. Op(EX) = "lw" => Rd(EX) = program[x].rd /\ EX # None
    BY <2>1 DEF Op, Rd
  <2>4. s = Value(r', i.rs)
    <3>1. ~(Op(EX) = "lw" /\ i.rs = Rd(EX) /\ i.rs # R0)
      BY <2>1, <2>3 DEF OperandInv, UsesLoad
    <3> QED
      BY <1>1, <2>1, <2>2, <3>1, Forwarded DEF OperandInv, TypeOK, DecodeTypeOK
  <2>5. ~(Op(EX) = "lw" /\ i.rt = Rd(EX) /\ i.rt # R0) => t = Value(r', i.rt)
    BY <1>1, <2>1, <2>2, Forwarded DEF OperandInv, TypeOK, DecodeTypeOK
  <2>6. i.op \notin {"lw", "sw"} => t = Value(r', i.rt)
    BY <2>1, <2>3, <2>5 DEF OperandInv, UsesLoad
  <2>7. x_op1_val' = s /\ x_rt_val' = t /\ x_target' = IF Takes(i, s, t) THEN Target(i, s) ELSE None
    BY <1>1, <2>1 DEF Execute
  <2> HIDE DEF s, t
  <2>8. Takes(i, s, t) <=> Takes(i, Value(r', i.rs), Value(r', i.rt))
    BY <2>4, <2>6 DEF Takes
  <2>9. x_rt_fwd' = Value(r', i.rt)
    <3>1. x_rt_fwd' = IF Op(m)' = "lw" /\ Rd(m)' # R0 /\ Rd(m)' = i.rt THEN m_res' ELSE t
      BY <1>1, <2>1, <2>7 DEF x_rt_fwd
    <3>2. r' = IF Rd(m)' = R0 THEN regs' ELSE [regs' EXCEPT ![Rd(m)'] = m_res']
      BY DEF r
    <3>3. CASE Op(m)' = "lw" /\ Rd(m)' # R0 /\ Rd(m)' = i.rt
      <4>1. regs' \in [Regs -> Val]
        BY <1>1, MemoryType DEF MemoryTypeOK, Clock
      <4> QED
        BY <2>2, <3>1, <3>2, <3>3, <4>1 DEF Value, Reg
    <3>4. CASE ~(Op(m)' = "lw" /\ Rd(m)' # R0 /\ Rd(m)' = i.rt)
      <4>1. SUFFICES ASSUME Op(EX) = "lw", i.rt = Rd(EX), i.rt # R0 PROVE FALSE
        BY <2>5, <3>1, <3>4
      <4>2. m' = EX /\ EX # None
        BY <1>1, <2>1, <4>1, <2>3 DEF Access, Retires
      <4>3. Op(m)' = "lw" /\ Rd(m)' = Rd(EX)
        BY <1>1, <4>1, <4>2 DEF Op, Rd
      <4> QED
        BY <3>4, <4>1, <4>3
    <3> QED
      BY <3>3, <3>4
  <2> QED
    BY <2>1, <2>4, <2>7, <2>8, <2>9
<1> QED
  BY <1>1, <1>2, <1>3, <1>4, <1>5 DEF OperandInv, Get

----------------------------------------------------------------------------
(* The order of the instructions.                                          *)
Inv == TypeOK /\ DelaySlotInv /\ RestartsAgree /\ RestartInv /\ OperandInv /\ OrderInv

(* A step in which nothing retires changes nothing that execution sees.    *)
LEMMA ContinuesStay ==
  ASSUME TypeOK, NEW hit, NEW resume, NEW hazard, NEW over, NEW finish, NEW junk,
         Clock(hit, resume, hazard, over, finish, junk), ~Retires(hazard)
  PROVE  /\ pc' = pc /\ pc_next' = pc_next /\ r' = r /\ hi' = hi
         /\ \A a : InSlotOf(a) => InSlotOf(a)'
         /\ \A a : Continues(a) => Continues(a)'
<1>1. program' = program /\ pc' = pc /\ pc_next' = pc_next /\ r' = r /\ hi' = hi
  BY RegistersStep DEF Clock, Progress
<1>2. \A a : InSlotOf(a) => InSlotOf(a)'
  BY <1>1 DEF InSlotOf, Outcome, Get, Value
<1> QED
  BY <1>1, <1>2 DEF Continues

(* What retires moves on to the address pair behind it.                    *)
LEMMA BehindStep ==
  ASSUME TypeOK, NEW hit, NEW resume, NEW hazard, NEW over, NEW finish, NEW junk,
         Clock(hit, resume, hazard, over, finish, junk), Retires(hazard)
  PROVE  pc' = behind /\ pc_next' = behind_next
BY DEF Clock, Progress, behind, behind_next

LEMMA ContinuesNext ==
  ASSUME Inv, NEW hit, NEW resume, NEW hazard, NEW over, NEW finish, NEW junk,
         Clock(hit, resume, hazard, over, finish, junk), Retires(hazard),
         ~HasDelaySlot(program[x])
  PROVE  \A a : a = behind => Continues(a)'
<1>1. x_target = None
  BY DEF Inv, RestartInv
<1> QED
  BY <1>1, BehindStep DEF Inv, Continues, behind_next

(* A transfer is not itself in a delay slot.                               *)
LEMMA TransferInOrder ==
  ASSUME Inv, WellFormed(program), EX # None, HasDelaySlot(program[x])
  PROVE  /\ ~x_is_delay_slot /\ behind = Plus(x, 1)
         /\ behind_next = IF x_target # None THEN x_target ELSE Plus(x, 2)
<1>1. EX = x /\ x \in Code
  BY Wires DEF Inv, Slot
<1>2. ~x_is_delay_slot
  <2>1. SUFFICES ASSUME InSlotOf(Minus1(x, TRUE)) PROVE FALSE
    BY DEF Inv, OrderInv
  <2>2. Plus(Minus1(x, TRUE), 1) = x /\ Minus1(x, TRUE) \in Code
    BY <1>1, PlusRow DEF Minus1
  <2> QED
    BY <2>1, <2>2 DEF InSlotOf, WellFormed
<1>3. Op(x) # "break"
  BY <1>1, Constants DEF Op, HasDelaySlot, ControlTransfers
<1> QED
  BY <1>1, <1>2, <1>3, PlusRow DEF behind, behind_next

LEMMA SlotNext ==
  ASSUME Inv, WellFormed(program),
         NEW hit, NEW resume, NEW hazard, NEW over, NEW finish, NEW junk,
         Clock(hit, resume, hazard, over, finish, junk), Retires(hazard),
         HasDelaySlot(program[x])
  PROVE  \A a : a = x => InSlotOf(a)'
<1>1. SUFFICES ASSUME NEW a, a = x PROVE InSlotOf(a)'
  OBVIOUS
<1>2. EX # None /\ EX = x /\ x \in Code /\ program[x] \in Instr
  BY RetiringType DEF Inv, Retires
<1> DEFINE i == program[x]
<1>3. pc' = Plus(x, 1) /\ pc_next' = IF x_target # None THEN x_target ELSE Plus(x, 2)
  BY <1>2, TransferInOrder, BehindStep DEF Inv
<1>4. i.op \in {"jal", "jalr"} \/ (i.op = "beq" /\ i.rd = R0)
  BY <1>2 DEF HasDelaySlot, ControlTransfers, WellFormed
<1>5. r' = IF i.rd = R0 THEN r ELSE [r EXCEPT ![i.rd] = Link(x)]
  <2>1. r' = IF Rd(x) = R0 THEN r ELSE [r EXCEPT ![Rd(x)] = m_res']
    BY RegistersStep DEF Inv, Clock
  <2>2. Rd(x) = i.rd /\ Op(x) = i.op
    BY <1>2, Constants DEF Rd, Op
  <2>3. i.rd # R0 => m_res' = Link(x)
    BY <1>4, <2>2 DEF Clock, Access, x_res
  <2> QED
    BY <2>1, <2>2, <2>3
<1>6. r \in [Regs -> Val] /\ i.rs \in Reg /\ i.rt \in Reg /\ i.rd \in Reg
  BY <1>2, RegistersType, InstrFields DEF Inv
<1>7. i.op \in {"beq", "jalr"} => Value(r', i.rs) = Get(i.rs)
  BY <1>2, <1>4, <1>5, <1>6 DEF WellFormed, Value, Get, Reg
<1>8. i.op = "beq" => Value(r', i.rt) = Get(i.rt)
  BY <1>4, <1>5 DEF Value, Get
<1>9. pc_next' = IF Takes(i, Value(r', i.rs), Value(r', i.rt))
                   THEN Target(i, Value(r', i.rs)) ELSE Plus(x, 2)
  <2>1. x_target = IF Takes(i, Get(i.rs), Get(i.rt)) THEN Target(i, Get(i.rs)) ELSE None
    BY <1>2 DEF Inv, OperandInv
  <2>2. Takes(i, Get(i.rs), Get(i.rt)) = Takes(i, Value(r', i.rs), Value(r', i.rt))
    BY <1>4, <1>7, <1>8 DEF Takes
  <2>3. Target(i, Get(i.rs)) = Target(i, Value(r', i.rs))
    BY <1>7 DEF Target
  <2>4. Target(i, Get(i.rs)) \in Code
    <3>1. Get(i.rs) \in Val
      BY <1>6, Constants DEF Get, Value, Reg
    <3> QED
      BY <1>2, <3>1, InstrFields
  <2> QED
    BY <1>3, <2>1, <2>2, <2>3, <2>4, Constants
<1>10. i.rd # R0 => r'[i.rd] = Link(x)
  BY <1>5, <1>6 DEF Reg
<1>11. program' = program
  BY DEF Clock
<1> QED
  BY <1>1, <1>2, <1>3, <1>9, <1>10, <1>11 DEF InSlotOf, Outcome, Get

(* While ME restarts the fetch, nothing is in the stages that could retire.*)
LEMMA OrderRestarting ==
  ASSUME Inv, m_restart,
         NEW hit \in BOOLEAN, NEW resume \in BOOLEAN, NEW hazard \in Hazards,
         NEW over \in Overs, NEW finish \in BOOLEAN, NEW junk \in Val,
         Clock(hit, resume, hazard, over, finish, junk)
  PROVE  OrderInv'
<1>1. /\ Fetch(hit, resume) /\ Decode(hit) /\ Execute(junk, finish)
      /\ RestartME(hazard, over)
  BY DEF Clock
<1>2. EX = None /\ DE = None /\ hazard = "none"
  BY HazardType DEF EX, DE, flush_X, flush_D, Inv
<1>3. \A a : Continues(a) => Continues(a)'
  BY <1>2, ContinuesStay DEF Retires, Inv
<1>4. d_load_use_hazard => d = None /\ d_restart /\ ~x_restart
  BY DEF Inv, DelaySlotInv, KeptInstruction, RestartInv
<1>5. ~i_valid_muxed(hit) \/ d_load_use_hazard
  BY DEF i_valid_muxed, restart
<1>6. ~d_restart' /\ ~d_load_use_hazard'
  BY <1>1, <1>2, <1>4, <1>5 DEF Decode, DelaySlotBubble, LoadUse, Op
<1>7. EX' = None /\ ~x_restart'
  BY <1>1, <1>2 DEF Execute, EX, MultHazard
<1>8. Continues(m_restart_pc)
  BY DEF Inv, OrderInv
<1>9. ~d_restart => Continues(Stream)
  BY <1>2, <1>4 DEF Inv, OrderInv, Follows
<1>10. Head' = Stream
  BY <1>1, HeadStep DEF Inv, Delivers, restart
<1>11. CASE m_restart'
  <2>1. m_restart_pc' = m_restart_pc /\ DE' = None
    BY <1>1, <1>2, <1>11 DEF RestartME, DE, flush_D
  <2>2. state' = "lookup" => ~d_restart
    <3>1. x_synci => ~d_restart
      BY DEF Inv, RestartsAgree, RestartInv, TypeOK, ExecuteTypeOK, HasDelaySlot,
             ControlTransfers
    <3>2. state = "lookup" => ~d_restart
      BY DEF Inv, RestartInv
    <3> QED
      BY <1>1, <3>1, <3>2 DEF Fetch
  <2>3. restart' /\ restart_pc' = m_restart_pc
    BY <1>6, <1>11, <2>1 DEF restart, restart_pc
  <2>4. Stream' = IF state' # "lookup" THEN m_restart_pc ELSE Stream
    BY <1>10, <2>3 DEF Stream
  <2>5. Continues(m_restart_pc)'
    BY <1>3, <1>8, <2>1
  <2>6. Continues(Stream)'
    BY <1>3, <1>8, <1>9, <2>2, <2>4
  <2> QED
    BY <1>6, <1>7, <2>1, <2>5, <2>6 DEF OrderInv, Follows
<1>12. CASE ~m_restart'
  <2>1. ~d_restart
    BY <1>1, <1>2, <1>12 DEF RestartME, StillWaits, Inv, RestartInv, Overs
  <2>2. d' = None /\ ~restart' /\ DE' = None
    BY <1>1, <1>4, <1>5, <1>6, <1>7, <1>12, <2>1 DEF Decode, restart, DE
  <2>3. Stream' = Stream
    BY <1>10, <2>2 DEF Stream
  <2>4. Continues(Stream)'
    BY <1>3, <1>9, <2>1, <2>3
  <2> QED
    BY <1>6, <1>7, <1>12, <2>2, <2>4 DEF OrderInv, Follows
<1> QED
  BY <1>11, <1>12

(* ME restarts the instruction in EX, with the transfer in front of it if  *)
(* it is in a delay slot.                                                  *)
LEMMA OrderHazard ==
  ASSUME ~OneShotRaces, Inv, RestartInv',
         NEW hit \in BOOLEAN, NEW resume \in BOOLEAN, NEW hazard \in Hazards,
         NEW over \in BOOLEAN, NEW finish \in BOOLEAN, NEW junk \in Val,
         Clock(hit, resume, hazard, over, finish, junk), hazard # "none"
  PROVE  OrderInv'
<1>1. /\ Fetch(hit, resume) /\ Decode(hit) /\ Execute(junk, finish)
      /\ RestartME(hazard, over)
  BY DEF Clock
<1>2. EX # None /\ EX = x /\ ~m_restart /\ program[x].op \in {"lw", "sw"} /\ x \in Code
  BY HazardType, Wires DEF Inv, Slot
<1>3. m_restart' /\ m_restart_pc' = MemoryRestart /\ EX' = None /\ DE' = None
  BY <1>1, <1>2 DEF RestartME, EX, DE, flush_X, flush_D
<1>4. Continues(MemoryRestart)
  BY <1>2 DEF Inv, OrderInv, MemoryRestart, Minus1, Continues
<1>5. Continues(m_restart_pc)'
  BY <1>3, <1>4, ContinuesStay DEF Retires, Inv
<1>6. state' # "lookup"
  BY <1>1, <1>2, Constants DEF Fetch, Inv, RestartInv, TypeOK, FetchTypeOK
<1>7. ~d_restart' => ~d_load_use_hazard' /\ Stream' = m_restart_pc'
  BY <1>1, <1>3, <1>6 DEF Decode, Stream, restart, restart_pc
<1>8. ~d_restart' => Continues(Stream)'
  BY <1>5, <1>7
<1> QED
  BY <1>3, <1>5, <1>7, <1>8 DEF OrderInv, Follows

(* DE is empty.                                                            *)
LEMMA OrderEmpty ==
  ASSUME Inv, ~m_restart, DE = None,
         NEW hit \in BOOLEAN, NEW resume \in BOOLEAN, NEW hazard \in Hazards,
         NEW over \in BOOLEAN, NEW finish \in BOOLEAN, NEW junk \in Val,
         Clock(hit, resume, hazard, over, finish, junk), hazard = "none"
  PROVE  OrderInv'
<1>1. /\ Fetch(hit, resume) /\ Decode(hit) /\ Execute(junk, finish)
      /\ RestartME(hazard, over)
  BY DEF Clock
<1> DEFINE v == IF d_load_use_hazard THEN d_pc ELSE Stream
<1>2. d_load_use_hazard => /\ d = None /\ d_restart /\ ~x_restart
                           /\ d_restart_pc = Plus(d_pc, 1) /\ state # "lookup"
  BY DEF Inv, DelaySlotInv, KeptInstruction, RestartInv
<1>3. Follows(v)
  BY DEF Inv, OrderInv
<1>4. EX # None => ~HasDelaySlot(program[x])
  <2>1. SUFFICES ASSUME EX # None, HasDelaySlot(program[x]) PROVE FALSE
    OBVIOUS
  <2>2. EX = x /\ x \in Code
    BY <2>1, Wires DEF Inv, Slot
  <2>3. d = Plus(x, 1) /\ d # None
    BY <2>1, <2>2, PlusRow, Constants DEF Inv, DelaySlotInv, SlotFollows
  <2>4. x_flush_D
    BY <2>3 DEF DE, flush_D
  <2> QED
    BY <2>1, <2>2, <2>4, Constants DEF Inv, RestartInv, HasDelaySlot, ControlTransfers
<1>5. \A a : a = v => Continues(a)'
  <2>1. CASE EX # None
    BY <1>3, <1>4, <2>1, ContinuesNext DEF Follows, Retires
  <2>2. CASE EX = None
    BY <1>3, <2>2, ContinuesStay DEF Follows, Retires, Inv
  <2> QED
    BY <2>1, <2>2
<1>6. EX' = None /\ ~x_restart' /\ ~m_restart' /\ ~x_flush_D'
  BY <1>1 DEF Execute, RestartME, StillWaits, MultHazard, EX
<1>7. DE' = d'
  BY <1>6 DEF DE, flush_D
<1>8. d_restart' <=> d_load_use_hazard'
  BY <1>1 DEF Decode, DelaySlotBubble
<1>9. Head' = IF Delivers(hit) THEN Plus(Stream, 1) ELSE Stream
  BY <1>1, HeadStep DEF Inv
<1>10. CASE i_valid_muxed(hit)
  <2>1. i_pc_muxed = v
    BY <1>10 DEF i_valid_muxed, i_pc_muxed, Stream, Head
  <2>2. Head' = Plus(v, 1) /\ state' # "lookup"
    <3>1. CASE d_load_use_hazard
      <4>1. Stream = Plus(v, 1) /\ ~Delivers(hit)
        BY <1>2, <3>1 DEF Stream, restart, restart_pc, Delivers
      <4>2. ~x_synci
        BY <1>2, <3>1 DEF Inv, TypeOK, ExecuteTypeOK
      <4> QED
        BY <1>1, <1>2, <1>9, <3>1, <4>1, <4>2 DEF Fetch
    <3>2. CASE ~d_load_use_hazard
      <4>1. Delivers(hit)
        BY <1>10, <3>2 DEF i_valid_muxed, Delivers
      <4>2. ~x_synci
        BY <4>1 DEF Delivers, restart, Inv, TypeOK, ExecuteTypeOK
      <4> QED
        BY <1>1, <1>9, <3>2, <4>1, <4>2 DEF Fetch, Delivers
    <3> QED
      BY <3>1, <3>2
  <2>3. CASE LoadUse(hit)
    <3>1. d' = None /\ d_load_use_hazard' /\ d_pc' = v
      BY <1>1, <1>10, <2>1, <2>3 DEF Decode
    <3>2. Continues(d_pc)'
      BY <1>5, <3>1
    <3> QED
      BY <1>6, <1>7, <3>1, <3>2 DEF OrderInv, Follows
  <2>4. CASE ~LoadUse(hit)
    <3>1. d' = v /\ ~d_load_use_hazard' /\ ~d_restart'
      BY <1>1, <1>8, <1>10, <2>1, <2>4 DEF Decode
    <3>2. Continues(d)'
      BY <1>5, <3>1
    <3>3. (Stream = Plus(d, 1))'
      BY <1>6, <2>2, <3>1 DEF Stream, restart
    <3>4. d' # None
      <4>1. i_pc_muxed \in Code
        BY DEF i_pc_muxed, Inv, TypeOK, FetchTypeOK, DecodeTypeOK
      <4> QED
        BY <2>1, <3>1, <4>1, Constants
    <3> QED
      BY <1>6, <1>7, <2>2, <3>1, <3>2, <3>3, <3>4 DEF OrderInv, Follows
  <2> QED
    BY <2>3, <2>4
<1>11. CASE ~i_valid_muxed(hit)
  <2>1. d' = None /\ ~d_load_use_hazard' /\ ~d_restart' /\ v = Stream
    BY <1>1, <1>8, <1>11 DEF Decode, LoadUse, i_valid_muxed
  <2>2. ~Delivers(hit)
    BY <1>11 DEF Delivers, i_valid_muxed
  <2>3. Stream' = v
    BY <1>6, <1>9, <2>1, <2>2 DEF Stream, restart
  <2>4. Continues(Stream)'
    BY <1>5, <2>3
  <2> QED
    BY <1>6, <1>7, <2>1, <2>4 DEF OrderInv, Follows
<1> QED
  BY <1>10, <1>11

(* DE holds an instruction, which EX takes.                                *)
LEMMA OrderTaken ==
  ASSUME Inv, RestartInv', WellFormed(program), DE # None,
         NEW hit \in BOOLEAN, NEW resume \in BOOLEAN, NEW hazard \in Hazards,
         NEW over \in BOOLEAN, NEW finish \in BOOLEAN, NEW junk \in Val,
         Clock(hit, resume, hazard, over, finish, junk), hazard = "none"
  PROVE  OrderInv'
<1> DEFINE i == program[d]
<1>1. /\ Fetch(hit, resume) /\ Decode(hit) /\ Execute(junk, finish)
      /\ RestartME(hazard, over) /\ program' = program
  BY DEF Clock
<1>2. /\ DE = d /\ d # None /\ d \in Code /\ i \in Instr
      /\ ~m_restart /\ ~x_flush_D
  BY Wires DEF DE, flush_D, Inv, TypeOK, Slot
<1>3. ~d_restart /\ ~d_load_use_hazard /\ ~d_flush_X /\ EX = x
  BY <1>2 DEF Inv, RestartInv, DelaySlotInv, KeptInstruction, EX, flush_X
<1>4. state # "lookup" /\ Follows(d) /\ (~x_restart => Stream = Plus(d, 1))
  BY <1>2 DEF Inv, OrderInv
<1>5. ~x_synci
  BY <1>2 DEF Inv, RestartInv, HasDelaySlot, ControlTransfers, TypeOK, ExecuteTypeOK
<1>6. state' # "lookup"
  BY <1>1, <1>4, <1>5 DEF Fetch
<1>7. ~m_restart'
  BY <1>1, <1>2 DEF RestartME, StillWaits
<1>8. (restart <=> x_restart) /\ (x_restart => restart_pc = x_restart_pc)
  BY <1>2, <1>3 DEF restart, restart_pc
<1>9. x_restart => x # None /\ x_target # None /\ x_restart_pc = x_target /\ HasDelaySlot(program[x])
  BY <1>2 DEF Inv, RestartInv
<1>10. x # None /\ HasDelaySlot(program[x]) =>
         /\ ~HasDelaySlot(i) /\ d = Plus(x, 1)
         /\ \A a : a = x => InSlotOf(a)'
         /\ pc' = d /\ pc_next' = IF x_target # None THEN x_target ELSE Plus(d, 1)
  <2>1. SUFFICES ASSUME x # None, HasDelaySlot(program[x])
                 PROVE  /\ ~HasDelaySlot(i) /\ d = Plus(x, 1)
                        /\ \A a : a = x => InSlotOf(a)'
                        /\ pc' = d /\ pc_next' = IF x_target # None THEN x_target ELSE Plus(d, 1)
    OBVIOUS
  <2>2. Retires(hazard) /\ x \in Code
    BY <1>3, <2>1 DEF Retires, Inv, TypeOK, ExecuteTypeOK, Slot
  <2>3. d = Plus(x, 1)
    BY <1>3, <2>1 DEF Inv, DelaySlotInv, SlotFollows
  <2>4. ~HasDelaySlot(i)
    BY <2>1, <2>2, <2>3 DEF WellFormed
  <2>5. behind = d /\ behind_next = IF x_target # None THEN x_target ELSE Plus(d, 1)
    BY <1>3, <2>1, <2>2, <2>3, TransferInOrder, PlusRow
  <2> QED
    BY <2>1, <2>2, <2>3, <2>4, <2>5, SlotNext, BehindStep DEF Inv
<1>11. ~(x # None /\ HasDelaySlot(program[x])) => \A a : a = d => Continues(a)'
  <2>1. CASE x = None
    BY <1>3, <1>4, <2>1, ContinuesStay DEF Follows, Retires, Inv
  <2>2. CASE x # None /\ ~HasDelaySlot(program[x])
    BY <1>3, <1>4, <2>2, ContinuesNext DEF Follows, Retires
  <2> QED
    BY <2>1, <2>2
<1>12. x_has_delay_slot <=> x # None /\ HasDelaySlot(program[x])
  BY DEF Inv, RestartInv
<1>13. CASE MultHazard
  <2>1. /\ x' = None /\ EX' = None /\ x_restart' /\ DE' = None
        /\ x_restart_pc' = HazardRestart
    BY <1>1, <1>13 DEF Execute, EX, DE, flush_D
  <2>2. ~d_restart' /\ ~d_load_use_hazard'
    BY <1>1, <1>2, <1>13 DEF Decode, DelaySlotBubble, LoadUse, MultHazard, Op,
                              HasDelaySlot, ControlTransfers, HiLoOps
  <2>3. Stream' = HazardRestart
    BY <1>6, <1>7, <2>1, <2>2 DEF Stream, restart, restart_pc
  <2>4. \A a : a = HazardRestart => Continues(a)'
    <3>1. CASE x_has_delay_slot
      <4>1. x \in Code /\ d = Plus(x, 1)
        BY <1>10, <1>12, <3>1 DEF Inv, TypeOK, ExecuteTypeOK, Slot
      <4>2. HazardRestart = x
        BY <3>1, <4>1, PlusRow DEF HazardRestart, Minus1
      <4> QED
        BY <1>10, <1>12, <3>1, <4>2 DEF Continues
    <3>2. CASE ~x_has_delay_slot
      BY <1>11, <1>12, <3>2 DEF HazardRestart, Minus1
    <3> QED
      BY <3>1, <3>2
  <2>5. Continues(Stream)'
    BY <2>3, <2>4
  <2> QED
    BY <1>7, <2>1, <2>2, <2>5 DEF OrderInv, Follows
<1>14. CASE ~MultHazard /\ DelaySlotBubble(hit)
  <2>1. d_restart' /\ d_flush_X' /\ d_restart_pc' = d /\ d' = None
    BY <1>1, <1>14 DEF Decode, DelaySlotBubble, RestartDE
  <2>2. ~d_load_use_hazard'
    BY <1>1, <1>14 DEF Decode, DelaySlotBubble, LoadUse
  <2>3. EX' = None /\ DE' = None /\ Stream' = d
    BY <1>6, <2>1 DEF EX, DE, flush_X, Stream, restart, restart_pc
  <2>4. HasDelaySlot(i)
    BY <1>2, <1>14 DEF DelaySlotBubble
  <2>5. Continues(Stream)'
    BY <1>10, <1>11, <2>3, <2>4
  <2> QED
    BY <1>7, <2>2, <2>3, <2>5 DEF OrderInv, Follows
<1>15. CASE ~MultHazard /\ ~DelaySlotBubble(hit)
  <2>1. x' = d /\ EX' = d /\ x_is_delay_slot' = x_has_delay_slot
    BY <1>1, <1>2, <1>7, <1>12, <1>15 DEF Execute, Decode, EX, flush_X
  <2>2. Op(x)' = i.op
    BY <1>1, <1>2, <2>1 DEF Op
  <2>3. behind' = IF i.op = "break" THEN Handler
                  ELSE IF x_has_delay_slot /\ x_target # None THEN x_target
                  ELSE Plus(d, 1)
    BY <1>10, <1>12, <2>1, <2>2 DEF behind
  <2>4. EX' # None => IF x_is_delay_slot' THEN x' = pc' /\ InSlotOf(Minus1(x, TRUE))'
                      ELSE Continues(x)'
    <3>1. CASE x_has_delay_slot
      <4>1. x \in Code /\ d = Plus(x, 1)
        BY <1>10, <1>12, <3>1 DEF Inv, TypeOK, ExecuteTypeOK, Slot
      <4>2. Minus1(x, TRUE)' = x
        BY <2>1, <4>1, PlusRow DEF Minus1
      <4>3. InSlotOf(Minus1(x, TRUE))'
        BY <1>10, <1>12, <3>1, <4>2
      <4> QED
        BY <1>10, <1>12, <2>1, <3>1, <4>3
    <3>2. CASE ~x_has_delay_slot
      BY <1>11, <1>12, <2>1, <3>2
    <3> QED
      BY <3>1, <3>2
  <2>5. d_restart' <=> d_load_use_hazard'
    BY <1>1, <1>15 DEF Decode
  <2>6. Head' = IF Delivers(hit) THEN Plus(Stream, 1) ELSE Stream
    BY <1>1, HeadStep DEF Inv
  <2>7. CASE x_flush_D'
    <3>1. i.op \in {"break", "synci"} /\ x_restart' /\ DE' = None
      BY <1>1, <1>2, <1>15, <2>7 DEF Execute, DE, flush_D
    <3>2. ~d_restart' /\ ~d_load_use_hazard'
      BY <1>1, <1>2, <1>15, <2>5, <3>1 DEF Decode, LoadUse, Op
    <3>3. \A s, t : ~Takes(i, s, t)
      BY <3>1 DEF Takes
    <3>4. x_restart_pc' = IF i.op = "break" THEN Handler
                          ELSE IF x_restart THEN x_target ELSE Plus(d, 1)
      BY <1>1, <1>2, <1>8, <1>9, <1>15, <3>1, <3>3 DEF Execute
    <3>5. Stream' = behind'
      <4>1. x_restart <=> x_has_delay_slot /\ x_target # None
        BY <1>9, <1>12 DEF Inv, RestartInv
      <4>2. Stream' = x_restart_pc'
        BY <1>6, <1>7, <3>1, <3>2 DEF Stream, restart, restart_pc
      <4> QED
        BY <2>3, <3>4, <4>1, <4>2
    <3> QED
      BY <1>2, <1>7, <2>1, <2>4, <3>1, <3>2, <3>5 DEF OrderInv, Follows
  <2>8. CASE ~x_flush_D'
    <3>1. DE' = d' /\ i.op # "break"
      BY <1>1, <1>2, <1>7, <1>15, <2>8 DEF Execute, DE, flush_D
    <3>2. CASE i_valid_muxed(hit)
      <4>1. Delivers(hit) /\ i_pc_muxed = Stream
        BY <1>3, <3>2 DEF i_valid_muxed, Delivers, i_pc_muxed, Stream, Head
      <4>2. ~x_restart /\ Stream = Plus(d, 1) /\ x_target = None
        BY <1>4, <1>8, <4>1 DEF Delivers, Inv, RestartInv
      <4>3. behind' = Stream /\ Stream \in Code
        BY <1>2, <2>3, <3>1, <4>2, PlusRow
      <4>4. CASE LoadUse(hit)
        <5>1. d' = None /\ d_load_use_hazard' /\ d_pc' = Stream
          BY <1>1, <3>2, <4>1, <4>4 DEF Decode
        <5>2. Follows(d_pc)'
          BY <1>2, <2>1, <4>3, <5>1 DEF Follows
        <5> QED
          BY <1>7, <2>4, <3>1, <5>1, <5>2 DEF OrderInv
      <4>5. CASE ~LoadUse(hit)
        <5>1. d' = Stream /\ d' # None /\ ~d_load_use_hazard' /\ ~d_restart'
          BY <1>1, <2>5, <3>2, <4>1, <4>3, <4>5, Constants DEF Decode
        <5>2. Follows(d)'
          BY <1>2, <2>1, <4>3, <5>1 DEF Follows
        <5>3. ~x_restart' => (Stream = Plus(d, 1))'
          BY <1>7, <2>6, <4>1, <5>1 DEF Stream, restart
        <5> QED
          BY <1>6, <1>7, <2>4, <3>1, <5>1, <5>2, <5>3 DEF OrderInv
      <4> QED
        BY <4>4, <4>5
    <3>3. CASE ~i_valid_muxed(hit)
      <4>1. d' = None /\ ~d_load_use_hazard' /\ ~d_restart' /\ ~HasDelaySlot(i)
        BY <1>1, <1>2, <1>15, <3>3 DEF Decode, LoadUse, DelaySlotBubble
      <4>2. ~x_restart'
        BY <1>1, <2>1, <2>8, <4>1 DEF RestartInv
      <4>3. Stream' = Stream
        BY <1>7, <2>6, <3>3, <4>1, <4>2 DEF Stream, restart, Delivers, i_valid_muxed
      <4>4. x_restart => Stream = x_target
        BY <1>4, <1>8, <1>9 DEF Stream
      <4>5. x_restart <=> x_has_delay_slot /\ x_target # None
        BY <1>9, <1>12 DEF Inv, RestartInv
      <4>6. Stream' = behind'
        BY <1>4, <2>3, <3>1, <4>3, <4>4, <4>5
      <4> QED
        BY <1>2, <1>7, <2>1, <2>4, <3>1, <4>1, <4>6 DEF OrderInv, Follows
    <3> QED
      BY <3>2, <3>3
  <2> QED
    BY <2>7, <2>8
<1> QED
  BY <1>13, <1>14, <1>15

LEMMA OrderStep ==
  ASSUME ~OneShotRaces, Inv, RestartInv', WellFormed(program),
         NEW hit \in BOOLEAN, NEW resume \in BOOLEAN, NEW hazard \in Hazards,
         NEW over \in Overs, NEW finish \in BOOLEAN, NEW junk \in Val,
         Clock(hit, resume, hazard, over, finish, junk)
  PROVE  OrderInv'
<1>1. over \in BOOLEAN
  BY Inputs
<1>2. CASE m_restart
  BY <1>2, OrderRestarting
<1>3. CASE hazard # "none"
  BY <1>1, <1>3, OrderHazard
<1>4. CASE ~m_restart /\ hazard = "none"
  BY <1>1, <1>4, OrderEmpty, OrderTaken
<1> QED
  BY <1>2, <1>3, <1>4

----------------------------------------------------------------------------
(* HI.                                                                     *)
LEMMA HiStep ==
  ASSUME Inv, HiInv, TypeOK', RestartInv', OperandInv', OrderInv',
         NEW hit \in BOOLEAN, NEW resume \in BOOLEAN, NEW hazard \in Hazards,
         NEW over \in BOOLEAN, NEW finish \in BOOLEAN, NEW junk \in Val,
         Clock(hit, resume, hazard, over, finish, junk)
  PROVE  HiInv'
<1>1. /\ Decode(hit) /\ Execute(junk, finish) /\ RestartME(hazard, over)
      /\ program' = program
  BY DEF Clock
<1>2. DE # None => DE = d /\ d \in Code /\ ~m_restart /\ EX = x
  BY Wires DEF DE, EX, flush_D, flush_X, Inv, TypeOK, Slot, RestartInv
<1> DEFINE writes == DE # None /\ Writer(d) /\ ~mult_busy
<1>3. unit_hi' = IF writes THEN x_op1_val' ELSE unit_hi
  BY <1>1, <1>2 DEF Execute, unit_hi, Writer
<1>4. Op(x)' \in {"mfhi", "mthi"} => ~mult_busy'
  <2>1. SUFFICES ASSUME Op(x)' \in {"mfhi", "mthi"} PROVE ~mult_busy'
    OBVIOUS
  <2>2. x' = DE /\ DE # None /\ program[DE].op \in {"mfhi", "mthi"} /\ ~MultHazard
    BY <1>1, <2>1 DEF Execute, Op
  <2>3. ~mult_busy
    BY <2>2 DEF MultHazard, HiLoOps
  <2> QED
    BY <1>1, <2>2, <2>3 DEF Execute
<1>5. CASE hazard # "none"
  <2>1. EX # None /\ EX = x /\ program[x].op \in {"lw", "sw"} /\ EX' = None /\ x \in Code
    BY <1>1, <1>5, HazardType, Wires DEF Inv, RestartME, EX, flush_X, Slot
  <2>2. pc' = pc /\ pc_next' = pc_next /\ hi' = hi
    BY <1>5, ContinuesStay DEF Retires, Inv
  <2>3. x = pc /\ behind = pc_next
    <3>1. ~HasDelaySlot(program[x]) /\ Op(x) # "break"
      BY <2>1, Constants DEF HasDelaySlot, ControlTransfers, Op
    <3> QED
      BY <2>1, <3>1 DEF Inv, OrderInv, Continues, InSlotOf, behind
  <2>4. unit_hi = hi \/ Writer(behind)
    BY <2>1, Constants DEF HiInv, HasDelaySlot, ControlTransfers, Writer
  <2>5. writes => Writer(behind)
    BY <1>2, <2>1 DEF Inv, OrderInv, Follows
  <2>6. unit_hi' = hi' \/ Rewrites(pc, pc_next)'
    BY <1>1, <1>3, <2>1, <2>2, <2>3, <2>4, <2>5 DEF Rewrites, Writer
  <2> QED
    BY <1>4, <2>1, <2>6 DEF HiInv
<1>6. CASE hazard = "none"
  <2>1. /\ pc' = IF EX # None THEN behind ELSE pc
        /\ pc_next' = IF EX # None THEN behind_next ELSE pc_next
    BY <1>6, BehindStep, ContinuesStay DEF Retires, Inv
  <2>2. hi' = IF EX # None /\ Writer(x) THEN x_op1_val ELSE hi
    <3>1. EX # None => EX = x /\ Op(x) = program[x].op
      BY Wires, Constants DEF Op, Inv
    <3> QED
      BY <1>6, <3>1 DEF Clock, Progress, Retires, Writer
  <2>3. unit_hi = hi' \/ Rewrites(pc', pc_next')
    BY <2>1, <2>2 DEF HiInv, Rewrites
  <2>4. CASE EX' = None
    <3>1. ~writes
      <4>1. SUFFICES ASSUME writes PROVE FALSE
        OBVIOUS
      <4>2. x' = d /\ ~m_restart'
        BY <1>1, <1>2, <1>6, <4>1 DEF Execute, MultHazard, RestartME, StillWaits
      <4>3. d_flush_X'
        BY <1>2, <2>4, <4>1, <4>2, Constants DEF EX, flush_X
      <4> QED
        BY <1>1, <1>2, <4>1, <4>3
        DEF Decode, DelaySlotBubble, HasDelaySlot, ControlTransfers, Writer
    <3> QED
      BY <1>1, <1>3, <1>4, <2>3, <2>4, <3>1 DEF HiInv, Rewrites, Writer
  <2>5. CASE EX' # None
    <3>1. /\ EX' = d /\ x' = d /\ DE = d /\ d # None /\ d \in Code /\ ~MultHazard
      BY <2>5, TakenStep, Constants DEF Inv
    <3>2. CASE Writer(d)
      <4>1. ~mult_busy
        BY <3>1, <3>2 DEF MultHazard, Writer, HiLoOps
      <4> QED
        BY <1>1, <1>3, <1>4, <2>5, <3>1, <3>2, <4>1 DEF HiInv, Writer
    <3>3. CASE ~Writer(d) /\ unit_hi = hi'
      BY <1>1, <1>3, <1>4, <2>5, <3>1, <3>3 DEF HiInv, Writer
    <3>4. CASE ~Writer(d) /\ unit_hi # hi'
      <4>1. Rewrites(pc', pc_next')
        BY <2>3, <3>4
      <4>2. CASE d = pc'
        <5>1. program[d].op \in {"lw", "sw"} /\ Writer(pc_next')
          BY <3>4, <4>1, <4>2 DEF Rewrites
        <5>2. behind' = pc_next'
          <6>1. Op(x)' # "break" /\ ~HasDelaySlot(program[d])
            BY <1>1, <3>1, <5>1 DEF Op, HasDelaySlot, ControlTransfers
          <6> QED
            BY <1>1, <2>5, <3>1, <4>2, <6>1
            DEF OrderInv, Continues, InSlotOf, behind
        <5> QED
          BY <1>1, <1>4, <2>5, <3>1, <5>1, <5>2 DEF HiInv, Writer
      <4>3. CASE d # pc'
        <5>1. /\ ~x_is_delay_slot' /\ HasDelaySlot(program[d])
              /\ pc' = Plus(d, 1) /\ pc_next' = Outcome(x)'
          BY <1>1, <2>5, <3>1, <4>3 DEF OrderInv, Continues, InSlotOf
        <5>2. behind' = pc'
          BY <1>1, <3>1, <5>1 DEF behind, Op, HasDelaySlot, ControlTransfers
        <5>3. behind_next' = pc_next'
          <6>1. pc_next' \in Code /\ pc_next' # None
            BY Constants DEF TypeOK
          <6>2. Plus(pc', 1) = Plus(d, 2)
            BY <3>1, <5>1, PlusRow
          <6> QED
            BY <1>1, <2>5, <3>1, <5>1, <5>2, <6>1, <6>2
            DEF behind_next, OperandInv, Outcome
        <5> QED
          BY <1>1, <1>4, <2>5, <3>1, <4>1, <5>1, <5>2, <5>3 DEF HiInv, Rewrites, Writer
      <4> QED
        BY <4>2, <4>3
    <3> QED
      BY <3>2, <3>3, <3>4
  <2> QED
    BY <2>4, <2>5
<1> QED
  BY <1>5, <1>6

----------------------------------------------------------------------------
(* All of it together.                                                     *)
Commits == Inv /\ HiInv /\ program \in Programs

AllWellFormed == \A p \in Programs : WellFormed(p)

LEMMA InitCommits == ASSUME Init PROVE Commits
<1>1. Plus(0, 1) = 1
  BY InstructionsAssumption DEF Plus
<1>2. EX = None /\ DE = None
  BY DEF Init, EX, DE, flush_X, flush_D
<1>3. Op(EX) = "none" /\ Op(x) = "none"
  BY <1>2 DEF Init, Op
<1>4. RestartInv /\ RestartsAgree
  BY DEF Init, RestartInv, RestartsAgree
<1>5. OperandInv
  BY <1>2, <1>3 DEF Init, OperandInv
<1>6. OrderInv
  <2>1. Continues(0)
    BY <1>1 DEF Init, Continues
  <2>2. Stream = 0
    BY DEF Init, Stream, restart, restart_pc
  <2> QED
    BY <1>2, <2>1, <2>2 DEF Init, OrderInv, Follows
<1>7. HiInv
  BY <1>2, <1>3 DEF Init, HiInv, unit_hi
<1> QED
  BY <1>4, <1>5, <1>6, <1>7, InitType, InitSlots DEF Commits, Inv, Init

LEMMA NextCommits ==
  ASSUME ~OneShotRaces, AllWellFormed, Commits, Next
  PROVE  Commits'
<1>1. PICK hit \in BOOLEAN, resume \in BOOLEAN, hazard \in Hazards,
           over \in Overs, finish \in BOOLEAN, junk \in Val :
             Clock(hit, resume, hazard, over, finish, junk)
  BY Inputs DEF Next
<1>2. over \in BOOLEAN
  BY Inputs
<1>3. WellFormed(program) /\ Inv /\ HiInv
  BY DEF Commits, AllWellFormed
<1>4. TypeOK' /\ DelaySlotInv' /\ RestartsAgree'
  BY <1>3, NextType, NextSlots, NextRestarts DEF Inv
<1>5. RestartInv'
  BY <1>1, <1>2, <1>3, RestartStep DEF Inv
<1>6. OperandInv'
  BY <1>1, <1>2, <1>3, OperandStep DEF Inv
<1>7. OrderInv'
  BY <1>1, <1>3, <1>5, OrderStep
<1>8. HiInv'
  BY <1>1, <1>2, <1>3, <1>4, <1>5, <1>6, <1>7, HiStep
<1>9. program' \in Programs
  BY <1>1 DEF Clock, Commits
<1> QED
  BY <1>4, <1>5, <1>6, <1>7, <1>8, <1>9 DEF Commits, Inv

LEMMA StutterCommits == ASSUME Commits, UNCHANGED vars PROVE Commits'
<1> USE DEF vars, ifVars, deVars, exVars, hiVars, meVars, wbVars
<1>1. UNCHANGED <<r, restart, restart_pc, EX, DE, Head, Op(m), Rd(m), Op(x)>>
  BY DEF r, restart, restart_pc, EX, DE, flush_X, flush_D, Head, Op, Rd
<1>2. TypeOK' /\ DelaySlotInv' /\ RestartsAgree' /\ program' \in Programs
  BY <1>1, NextType
  DEF Commits, Inv, DelaySlotInv, SlotFollows, ConsecutiveFetch, KeptInstruction,
      FetchBehindDecode, RestartsAgree
<1>3. RestartInv'
  BY DEF Commits, Inv, RestartInv
<1>4. \A a : InSlotOf(a) => InSlotOf(a)'
  BY <1>1 DEF InSlotOf, Outcome, Get, Value
<1>5. \A a : Continues(a) => Continues(a)'
  BY <1>1, <1>4 DEF Continues
<1>6. UNCHANGED <<behind, behind_next, Stream, unit_hi, x_rt_fwd, Op(EX)>>
  BY <1>1 DEF behind, behind_next, Stream, unit_hi, x_rt_fwd, Op
<1>7. \A a : Follows(a) => Follows(a)'
  BY <1>1, <1>5, <1>6 DEF Follows
<1>8. OperandInv'
  BY <1>1, <1>6 DEF Commits, Inv, OperandInv, Get
<1>9. OrderInv'
  BY <1>1, <1>4, <1>5, <1>6, <1>7 DEF Commits, Inv, OrderInv, Minus1
<1>10. HiInv'
  BY <1>1, <1>6 DEF Commits, HiInv, Rewrites, Writer
<1> QED
  BY <1>2, <1>3, <1>8, <1>9, <1>10 DEF Commits, Inv

LEMMA CommitsHolds ==
  ASSUME ~OneShotRaces, AllWellFormed
  PROVE  Spec => []Commits
<1>1. Init => Commits
  BY InitCommits
<1>2. Commits /\ [Next]_vars => Commits'
  BY NextCommits, StutterCommits
<1> QED
  BY <1>1, <1>2, PTL DEF Spec

(* MFHI reads what the last instruction that retired has left in HI, for   *)
(* every program that keeps to the rules: HI may be written by an          *)
(* instruction that ME kills, but that is executed again before the MFHI.  *)
LEMMA HiRead == ASSUME Commits PROVE HiIsCommitted
<1>1. SUFFICES ASSUME Op(EX) = "mfhi" PROVE ~mult_busy /\ mult_hi = hi
  BY DEF HiIsCommitted
<1>2. EX # None /\ EX = x /\ Op(x) = "mfhi" /\ program[x].op = "mfhi"
  BY <1>1, Wires DEF Op, Commits, Inv
<1> QED
  BY <1>2 DEF Commits, HiInv, Writer, HasDelaySlot, ControlTransfers, unit_hi

THEOREM HiIsCommittedCorrect ==
  ASSUME ~OneShotRaces, AllWellFormed
  PROVE  Spec => []HiIsCommitted
BY CommitsHolds, HiRead, PTL

(* What retires is what the simulator executes next, with the same result, *)
(* or the transfer in front of it, with no effect.                         *)
LEMMA RetiresNext ==
  ASSUME Commits, AllWellFormed,
         NEW hit, NEW resume, NEW hazard, NEW over, NEW finish, NEW junk,
         Clock(hit, resume, hazard, over, finish, junk), Retires(hazard), x = pc
  PROVE  Arch!Next
<1> DEFINE i == program[pc]
<1>1. /\ EX = x /\ EX # None /\ x \in Code /\ i \in Instr /\ Op(x) = i.op /\ Rd(x) = i.rd
  BY RetiringType, Constants DEF Commits, Inv, Retires, Op, Rd
<1>2. /\ i.rd # R0 => i.op \in {"addiu", "lw", "mfhi", "jal", "jalr"}
      /\ Inv
  BY <1>1 DEF AllWellFormed, WellFormed, Commits
<1>3. Arch!Get(i.rs) = x_op1_val /\ Arch!Get(i.rt) = x_rt_fwd
  BY <1>1, <1>2 DEF Inv, OperandInv, Get, Value, Arch!Get
<1>4. x_target = IF Takes(i, Arch!Get(i.rs), Arch!Get(i.rt))
                   THEN Target(i, Arch!Get(i.rs)) ELSE None
  BY <1>1, <1>2 DEF Inv, OperandInv, Get, Value, Arch!Get
<1>5. pc_next = Plus(pc, 1) \/ x_is_delay_slot
  BY <1>1, <1>2, PlusRow DEF Inv, OrderInv, Continues, InSlotOf
<1>6. pc' = IF i.op = "break" THEN Handler ELSE pc_next
  BY <1>1, <1>2, <1>5, BehindStep DEF Inv, behind
<1>7. pc_next' = IF Takes(i, Arch!Get(i.rs), Arch!Get(i.rt))
                   THEN Target(i, Arch!Get(i.rs)) ELSE Plus(pc', 1)
  <2>1. pc_next' = IF x_target # None THEN x_target ELSE Plus(pc', 1)
    BY <1>2, BehindStep DEF Inv, behind_next
  <2>2. Target(i, Arch!Get(i.rs)) # None
    BY <1>1, <1>2, <1>3, InstrFields, Constants DEF Inv, TypeOK, ExecuteTypeOK
  <2> QED
    BY <1>4, <2>1, <2>2
<1>8. hi' = IF i.op \in {"mult", "mthi"} THEN x_op1_val ELSE hi
  BY <1>1 DEF Clock, Progress
<1>9. mem' = IF i.op = "sw" THEN x_rt_fwd ELSE mem
  BY <1>1 DEF Clock, Access
<1>10. i.rd # R0 => m_res' = CASE i.op = "addiu" -> AddImm(x_op1_val)
                               [] i.op = "lw" -> mem
                               [] i.op = "mfhi" -> hi
                               [] OTHER -> Plus(pc_next, 1)
  <2>1. SUFFICES ASSUME i.rd # R0
                 PROVE  m_res' = CASE i.op = "addiu" -> AddImm(x_op1_val)
                                   [] i.op = "lw" -> mem
                                   [] i.op = "mfhi" -> hi
                                   [] OTHER -> Plus(pc_next, 1)
    OBVIOUS
  <2>2. m_res' = IF i.op = "lw" THEN mem ELSE x_res(junk)
    BY <1>1, <2>1 DEF Clock, Access
  <2>3. i.op = "mfhi" => mult_hi = hi
    BY <1>1, HiRead DEF HiIsCommitted
  <2>4. i.op \in {"jal", "jalr"} => Link(x) = Plus(pc_next, 1)
    <3>1. SUFFICES ASSUME i.op \in {"jal", "jalr"} PROVE Link(x) = Plus(pc_next, 1)
      OBVIOUS
    <3>2. ~x_is_delay_slot
      BY <1>1, <1>2, <3>1, TransferInOrder
      DEF Commits, AllWellFormed, HasDelaySlot, ControlTransfers
    <3> QED
      BY <1>1, <1>5, <3>2, PlusRow DEF Link
  <2> QED
    BY <1>1, <1>2, <2>1, <2>2, <2>3, <2>4 DEF x_res
<1>11. r' = IF i.rd = R0 THEN r ELSE [r EXCEPT ![i.rd] = m_res']
  BY <1>1, <1>2, RegistersStep DEF Inv, Clock
<1>12. program' = program
  BY DEF Clock
<1>13. \A a, k, s, t :
         /\ Arch!Plus(a, k) = Plus(a, k) /\ Arch!AddImm(s) = AddImm(s)
         /\ Arch!Takes(i, s, t) = Takes(i, s, t) /\ Arch!Target(i, s) = Target(i, s)
  BY DEF Arch!Plus, Plus, Arch!AddImm, AddImm, Arch!Takes, Takes, Arch!Target, Target
<1>14. Arch!Set(i.rd, CASE i.op = "addiu" -> Arch!AddImm(Arch!Get(i.rs))
                        [] i.op = "lw" -> mem
                        [] i.op = "mfhi" -> hi
                        [] OTHER -> Arch!Plus(pc_next, 1))
  BY <1>3, <1>10, <1>11, <1>13 DEF Arch!Set
<1> QED
  BY <1>3, <1>6, <1>7, <1>8, <1>9, <1>12, <1>13, <1>14 DEF Arch!Next, Arch!Execute

LEMMA RetiresAgain ==
  ASSUME Commits, AllWellFormed,
         NEW hit, NEW resume, NEW hazard, NEW over, NEW finish, NEW junk,
         Clock(hit, resume, hazard, over, finish, junk), Retires(hazard), InSlotOf(x)
  PROVE  UNCHANGED Arch!vars
<1> DEFINE i == program[x]
<1>1. /\ EX = x /\ EX # None /\ x \in Code /\ i \in Instr /\ Op(x) = i.op /\ Rd(x) = i.rd
  BY RetiringType, Constants DEF Commits, Inv, Retires, Op, Rd
<1>2. Inv /\ WellFormed(program) /\ i.op \in {"beq", "jal", "jalr"}
  BY DEF Commits, AllWellFormed, InSlotOf, HasDelaySlot, ControlTransfers
<1>3. behind = pc /\ behind_next = pc_next
  <2>1. behind = pc /\ behind_next = IF x_target # None THEN x_target ELSE Plus(x, 2)
    BY <1>1, <1>2, TransferInOrder DEF InSlotOf
  <2>2. pc_next # None
    BY <1>2, Constants DEF Inv, TypeOK
  <2> QED
    BY <1>1, <1>2, <2>1, <2>2 DEF Inv, OperandInv, InSlotOf, Outcome
<1>4. r' = r
  <2>1. r' = IF i.rd = R0 THEN r ELSE [r EXCEPT ![i.rd] = m_res']
    BY <1>1, <1>2, RegistersStep DEF Inv, Clock
  <2>2. i.rd # R0 => i.op \in {"jal", "jalr"}
    BY <1>1, <1>2 DEF WellFormed
  <2>3. i.rd # R0 => m_res' = r[i.rd]
    BY <1>1, <2>2 DEF Clock, Access, x_res, InSlotOf
  <2>4. r \in [Regs -> Val]
    BY <1>2, RegistersType DEF Inv
  <2> QED
    BY <2>1, <2>3, <2>4
<1>5. program' = program /\ hi' = hi /\ mem' = mem
  BY <1>1, <1>2 DEF Clock, Progress, Access
<1> QED
  BY <1>2, <1>3, <1>4, <1>5, BehindStep DEF Arch!vars, Inv

LEMMA StepsInOrder ==
  ASSUME Commits, AllWellFormed, Next
  PROVE  Arch!Next \/ UNCHANGED Arch!vars
<1>1. PICK hit, resume, hazard, over, finish, junk :
             Clock(hit, resume, hazard, over, finish, junk)
  BY DEF Next
<1>2. CASE Retires(hazard)
  <2>1. x = pc \/ InSlotOf(x)
    BY <1>2 DEF Commits, Inv, OrderInv, Continues, Retires
  <2> QED
    BY <1>1, <1>2, <2>1, RetiresNext, RetiresAgain
<1>3. CASE ~Retires(hazard)
  <2>1. program' = program /\ mem' = mem
    BY <1>1, <1>3 DEF Clock, Access
  <2> QED
    BY <1>1, <1>3, <2>1, ContinuesStay DEF Arch!vars, Commits, Inv
<1> QED
  BY <1>2, <1>3

(* The pipeline is the processor of the instruction set: whatever the      *)
(* caches do and however often instructions are flushed and fetched again, *)
(* they retire in the order of the program, each with the result that the  *)
(* simulator computes.                                                     *)
THEOREM RetiresInOrderCorrect ==
  ASSUME ~OneShotRaces, AllWellFormed
  PROVE  Spec => RetiresInOrder
<1>1. Init => Arch!Init
  BY DEF Init, Arch!Init, r, Rd
<1>2. Commits /\ [Next]_vars => [Arch!Next]_(Arch!vars)
  <2>1. UNCHANGED vars => UNCHANGED Arch!vars
    BY DEF vars, ifVars, deVars, exVars, hiVars, meVars, wbVars, Arch!vars, r, Rd
  <2> QED
    BY <2>1, StepsInOrder
<1> QED
  BY <1>1, <1>2, CommitsHolds, PTL DEF Spec, RetiresInOrder, Arch!Spec

(* Nothing but a transfer whose delay slot was restarted retires twice.    *)
THEOREM OnlyTransfersReplayCorrect ==
  ASSUME ~OneShotRaces, AllWellFormed
  PROVE  Spec => OnlyTransfersReplay
<1>1. ASSUME Commits, Next, m' # None
      PROVE  m' = pc \/ (HasDelaySlot(program[m']) /\ pc = Plus(m', 1))
  <2>1. PICK hit, resume, hazard, over, finish, junk :
             Clock(hit, resume, hazard, over, finish, junk)
    BY <1>1 DEF Next
  <2>2. Retires(hazard) /\ m' = EX /\ EX # None /\ EX = x
    BY <1>1, <2>1, Wires DEF Clock, Access, Retires, Commits, Inv
  <2> QED
    BY <1>1, <2>2 DEF Commits, Inv, OrderInv, Continues, InSlotOf
<1>2. Commits /\ [Next]_vars =>
        [m' # None => m' = pc \/ (HasDelaySlot(program[m']) /\ pc = Plus(m', 1))]_vars
  BY <1>1
<1> QED
  BY <1>2, CommitsHolds, PTL DEF Spec, OnlyTransfersReplay

----------------------------------------------------------------------------
(* How long nothing retires.                                               *)

(* Cycles until IF has an instruction for DE, if all is well.              *)
ToFetch ==
  CASE x_synci -> 4
    [] ~x_synci /\ state = "lookup" -> 3
    [] ~x_synci /\ state = "filling" -> 2
    [] ~x_synci /\ state = "running" /\ (~i2_valid \/ restart) -> 1
    [] OTHER -> 0

(* Cycles for which ME still restarts.                                     *)
ToRestart == IF ~m_restart THEN 0 ELSE IF awaited = "soon" THEN 2 ELSE 1

(* The instruction in DE goes on to ME.                                    *)
Passes ==
  ~MultHazard /\ ~(HasDelaySlot(program[DE]) /\ (state # "running" \/ ~i2_valid \/ restart))

(* Cycles for which nothing retires, if all is well.                       *)
Distance ==
  IF EX # None THEN 0
  ELSE IF DE # None THEN (IF Passes THEN 1 ELSE 5)
  ELSE 2 + (IF ToFetch >= ToRestart THEN ToFetch ELSE ToRestart)

(* What ME waits for is on its way, and an instruction that DE has kept is *)
(* behind a load in EX.                                                    *)
WaitInv ==
  /\ m_restart /\ ~one_shot_restart => awaited # "nothing"
  /\ d_load_use_hazard => x # None /\ ~d_flush_X

SettleInv ==
  /\ TypeOK /\ DelaySlotInv /\ RestartInv /\ WaitInv
  /\ quiet + Distance <= 6

LEMMA DistanceBound ==
  ASSUME TypeOK
  PROVE  ToFetch \in 0 .. 4 /\ ToRestart \in 0 .. 2 /\ Distance \in 0 .. 6
<1>1. ToFetch \in 0 .. 4
  BY DEF ToFetch
<1>2. ToRestart \in 0 .. 2
  BY DEF ToRestart
<1> QED
  BY <1>1, <1>2 DEF Distance

LEMMA WaitStep ==
  ASSUME TypeOK, DelaySlotInv, RestartInv, WaitInv,
         NEW hit \in BOOLEAN, NEW resume \in BOOLEAN, NEW hazard \in Hazards,
         NEW over \in BOOLEAN, NEW finish \in BOOLEAN, NEW junk \in Val,
         Clock(hit, resume, hazard, over, finish, junk)
  PROVE  WaitInv'
<1>1. /\ Decode(hit) /\ Execute(junk, finish) /\ RestartME(hazard, over)
  BY DEF Clock
<1>2. m_restart' /\ ~one_shot_restart' => awaited' # "nothing"
  BY <1>1, HazardType DEF RestartME, StillWaits, WaitInv, Hazards
<1>3. ASSUME LoadUse(hit) PROVE x' # None /\ ~d_flush_X'
  <2>1. i_valid_muxed(hit) /\ Op(d) = "lw" /\ d # None /\ program[d].op = "lw"
    BY <1>3 DEF LoadUse, Op
  <2>2. ~d_load_use_hazard
    BY <2>1 DEF DelaySlotInv, KeptInstruction
  <2>3. DE = d
    BY <2>1, <2>2 DEF i_valid_muxed, restart, DE, flush_D, RestartInv
  <2>4. ~MultHazard /\ ~DelaySlotBubble(hit)
    BY <2>1, <2>3 DEF MultHazard, HiLoOps, DelaySlotBubble
  <2> QED
    BY <1>1, <2>1, <2>3, <2>4 DEF Execute, Decode
<1> QED
  BY <1>1, <1>2, <1>3 DEF WaitInv, Decode

(* With nothing in EX and nothing to disturb them, the stages come nearer  *)
(* to the next instruction that retires.                                   *)
LEMMA Nearer ==
  ASSUME TypeOK, DelaySlotInv, RestartInv, WaitInv, TypeOK',
         NEW hit \in Hits, NEW resume \in Resumes, NEW hazard \in Hazards,
         NEW over \in Overs, NEW finish \in Finish, NEW junk \in Junk,
         Clock(hit, resume, hazard, over, finish, junk),
         Undisturbed(hit, resume, hazard, over, finish), m' = None
  PROVE  Distance' < Distance
<1>1. /\ Fetch(hit, resume) /\ Decode(hit) /\ Execute(junk, finish)
      /\ RestartME(hazard, over) /\ program' = program /\ hazard = "none"
  BY DEF Clock, Undisturbed
<1>2. EX = None
  BY <1>1 DEF Clock, Access, Retires
<1>3. /\ hit <=> state = "running" /\ i2_valid
      /\ state # "running" => resume
      /\ over <=> awaited = "now"
      /\ mult_busy => finish
  BY DEF Undisturbed, Hits, Resumes, Overs, Finish
<1>4. DE # None => DE = d /\ ~m_restart /\ ~x_flush_D /\ ~x_synci
  BY DEF DE, flush_D, RestartInv, TypeOK, ExecuteTypeOK, HasDelaySlot, ControlTransfers
<1>5. m_restart' <=> m_restart /\ awaited = "soon"
  BY <1>1, <1>3 DEF RestartME, StillWaits, WaitInv, RestartInv, TypeOK, MemoryTypeOK
<1>6. m_restart' => awaited' = "now"
  BY <1>1, <1>3, <1>5 DEF RestartME
<1>7. CASE DE # None /\ Passes
  <2>1. i_valid_muxed(hit) \/ ~HasDelaySlot(program[DE])
    BY <1>3, <1>7 DEF Passes, i_valid_muxed
  <2>2. x' # None /\ ~d_flush_X' /\ ~m_restart'
    BY <1>1, <1>4, <1>5, <1>7, <2>1 DEF Passes, Execute, Decode, DelaySlotBubble
  <2>3. EX' # None
    BY <2>2 DEF EX, flush_X
  <2> QED
    BY <1>2, <1>7, <2>3 DEF Distance
<1>8. CASE DE # None /\ ~Passes
  <2>1. ~d_load_use_hazard
    BY <1>4, <1>8 DEF DelaySlotInv, KeptInstruction
  <2>2. MultHazard \/ DelaySlotBubble(hit)
    BY <1>3, <1>8, <2>1 DEF Passes, DelaySlotBubble, i_valid_muxed
  <2>3. EX' = None
    BY <1>1, <2>2 DEF Execute, Decode, EX, flush_X
  <2>4. DE' = None
    <3>1. CASE MultHazard
      BY <1>1, <3>1 DEF Execute, DE, flush_D
    <3>2. CASE DelaySlotBubble(hit)
      BY <1>1, <3>2 DEF Decode, DelaySlotBubble, DE
    <3> QED
      BY <2>2, <3>1, <3>2
  <2>5. ~x_synci'
    BY <1>1, <2>2 DEF Execute, MultHazard, HiLoOps, DelaySlotBubble, HasDelaySlot, ControlTransfers
  <2>6. state' # "lookup"
    BY <1>1, <1>3, <1>4, <1>8 DEF Fetch
  <2>7. ToFetch' \in 0 .. 2
    BY <2>5, <2>6 DEF ToFetch
  <2>8. ToRestart' \in 0 .. 2
    BY DEF ToRestart
  <2>9. Distance = 5
    BY <1>2, <1>8 DEF Distance
  <2>10. Distance' = 2 + (IF ToFetch' >= ToRestart' THEN ToFetch' ELSE ToRestart')
    BY <2>3, <2>4 DEF Distance
  <2>11. ASSUME NEW fetch \in 0 .. 2, NEW wait \in 0 .. 2
         PROVE  2 + (IF fetch >= wait THEN fetch ELSE wait) < 5
    OBVIOUS
  <2>12. 2 + (IF ToFetch' >= ToRestart' THEN ToFetch' ELSE ToRestart') < 5
    BY <2>7, <2>8, <2>11
  <2> QED
    BY <2>9, <2>10, <2>12
<1>9. CASE DE = None
  <2>1. EX' = None /\ ~x_restart' /\ ~x_flush_D' /\ ~x_synci' /\ ~d_flush_X'
    BY <1>1, <1>9 DEF Execute, EX, MultHazard, Decode, DelaySlotBubble
  <2>2. ~LoadUse(hit)
    <3>1. SUFFICES ASSUME i_valid_muxed(hit), d # None PROVE FALSE
      BY DEF LoadUse, Op
    <3>2. ~d_load_use_hazard
      BY <3>1 DEF DelaySlotInv, KeptInstruction
    <3> QED
      BY <1>9, <3>1, <3>2 DEF i_valid_muxed, restart, DE, flush_D, RestartInv
  <2>3. ~d_restart'
    BY <1>1, <1>9, <2>2 DEF Decode, DelaySlotBubble
  <2>4. restart' <=> m_restart'
    BY <2>1, <2>3 DEF restart
  <2>5. d_load_use_hazard => m_restart /\ awaited = "soon"
    BY <1>2 DEF WaitInv, EX, flush_X, DelaySlotInv, KeptInstruction, RestartInv
  <2>6. ToFetch = 0 /\ ToRestart = 0 <=> state = "running" /\ i2_valid /\ ~restart /\ ~x_synci
    BY DEF ToFetch, ToRestart, restart, TypeOK, FetchTypeOK
  <2>7. CASE state = "running" /\ i2_valid /\ ~restart /\ ~x_synci
    <3>1. i_valid_muxed(hit) /\ i_pc_muxed # None
      BY <1>3, <2>7, Constants DEF i_valid_muxed, i_pc_muxed, TypeOK, FetchTypeOK, DecodeTypeOK
    <3>2. d' # None /\ ~m_restart'
      BY <1>1, <1>5, <2>2, <2>7, <3>1 DEF Decode, restart
    <3>3. DE' # None
      BY <2>1, <3>2 DEF DE, flush_D
    <3>4. ~mult_busy'
      BY <1>1, <1>3, <1>9 DEF Execute
    <3>5. state' = "running" /\ i2_valid' /\ ~restart'
      BY <1>1, <1>3, <2>4, <2>7, <3>2 DEF Fetch
    <3>6. Passes'
      BY <3>4, <3>5 DEF Passes, MultHazard
    <3>7. Distance' = 1
      BY <2>1, <3>3, <3>6 DEF Distance
    <3>8. Distance = 2
      BY <1>2, <1>9, <2>6, <2>7 DEF Distance
    <3> QED
      BY <3>7, <3>8
  <2>8. CASE ~(state = "running" /\ i2_valid /\ ~restart /\ ~x_synci)
    <3>1. DE' = None
      <4>1. CASE m_restart'
        BY <4>1 DEF DE, flush_D
      <4>2. CASE ~m_restart'
        <5>1. ~d_load_use_hazard
          BY <1>5, <2>5, <4>2
        <5>2. ~i_valid_muxed(hit)
          BY <1>3, <2>8, <5>1 DEF i_valid_muxed, restart, TypeOK, ExecuteTypeOK
        <5>3. d' = None
          BY <1>1, <5>2 DEF Decode
        <5> QED
          BY <5>3 DEF DE
      <4> QED
        BY <4>1, <4>2
    <3>2. ToRestart' = 0 \/ ToRestart' = ToRestart - 1
      BY <1>5, <1>6 DEF ToRestart
    <3>3. ToFetch' <= ToFetch - 1 \/ (ToFetch' = 1 /\ ToRestart' = 1 /\ ToRestart = 2)
      <4>1. CASE x_synci
        BY <1>1, <2>1, <4>1 DEF Fetch, ToFetch
      <4>2. CASE ~x_synci /\ state = "lookup"
        BY <1>1, <1>3, <2>1, <4>2 DEF Fetch, ToFetch
      <4>3. CASE ~x_synci /\ state = "filling"
        BY <1>1, <1>3, <2>1, <4>3 DEF Fetch, ToFetch, DelaySlotInv, ConsecutiveFetch
      <4>4. CASE ~x_synci /\ state = "running"
        <5>1. state' = "running" /\ i2_valid'
          BY <1>1, <1>3, <4>4 DEF Fetch
        <5>2. ToFetch = 1
          BY <2>8, <4>4 DEF ToFetch
        <5>3. CASE ~m_restart'
          BY <2>1, <2>4, <5>1, <5>2, <5>3 DEF ToFetch
        <5>4. CASE m_restart'
          <6>1. ToRestart = 2 /\ ToRestart' = 1
            BY <1>5, <1>6, <5>4 DEF ToRestart
          <6>2. ToFetch' = 1
            BY <2>1, <2>4, <5>1, <5>4 DEF ToFetch
          <6> QED
            BY <6>1, <6>2
        <5> QED
          BY <5>3, <5>4
      <4> QED
        BY <4>1, <4>2, <4>3, <4>4 DEF TypeOK, FetchTypeOK
    <3>4. /\ ToFetch \in 0 .. 4 /\ ToRestart \in 0 .. 2 /\ ToFetch' \in 0 .. 4 /\ ToRestart' \in 0 .. 2
          /\ ~(ToFetch = 0 /\ ToRestart = 0)
      <4>1. ToFetch' \in 0 .. 4
        BY DEF ToFetch
      <4>2. ToRestart' \in 0 .. 2
        BY DEF ToRestart
      <4> QED
        BY <2>6, <2>8, <4>1, <4>2, DistanceBound
    <3>5. Distance = 2 + (IF ToFetch >= ToRestart THEN ToFetch ELSE ToRestart)
      BY <1>2, <1>9 DEF Distance
    <3>6. Distance' = 2 + (IF ToFetch' >= ToRestart' THEN ToFetch' ELSE ToRestart')
      BY <2>1, <3>1 DEF Distance
    <3>7. ToFetch >= 1
      BY <2>8 DEF ToFetch, TypeOK, FetchTypeOK
    <3>8. ASSUME NEW fetch \in 0 .. 4, NEW wait \in 0 .. 2, NEW fetch2 \in 0 .. 4, NEW wait2 \in 0 .. 2,
                 fetch >= 1, wait2 = 0 \/ wait2 = wait - 1,
                 fetch2 <= fetch - 1 \/ (fetch2 = 1 /\ wait2 = 1 /\ wait = 2)
          PROVE  2 + (IF fetch2 >= wait2 THEN fetch2 ELSE wait2) < 2 + (IF fetch >= wait THEN fetch ELSE wait)
      BY <3>8
    <3>9. 2 + (IF ToFetch' >= ToRestart' THEN ToFetch' ELSE ToRestart')
            < 2 + (IF ToFetch >= ToRestart THEN ToFetch ELSE ToRestart)
      BY <3>2, <3>3, <3>4, <3>7, <3>8
    <3> QED
      BY <3>5, <3>6, <3>9
  <2> QED
    BY <2>7, <2>8
<1> QED
  BY <1>7, <1>8, <1>9

LEMMA SettleStep ==
  ASSUME ~OneShotRaces, SettleBound >= 6, SettleInv, [Next]_vars
  PROVE  SettleInv'
<1>1. TypeOK' /\ DelaySlotInv'
  <2>1. TypeOK'
    BY NextType DEF SettleInv
  <2>2. CASE Next
    BY <2>1, <2>2, NextSlots DEF SettleInv
  <2>3. CASE UNCHANGED vars
    BY <2>1, <2>3 DEF SettleInv, vars, ifVars, deVars, exVars, hiVars, meVars, wbVars, DelaySlotInv,
       SlotFollows, ConsecutiveFetch, KeptInstruction, FetchBehindDecode, restart, EX, flush_X
  <2> QED
    BY <2>1, <2>2, <2>3
<1>2. CASE Next
  <2>1. PICK hit \in Hits, resume \in Resumes, hazard \in Hazards,
             over \in Overs, finish \in Finish, junk \in Junk :
               Clock(hit, resume, hazard, over, finish, junk)
    BY <1>2 DEF Next
  <2>2. RestartInv' /\ WaitInv'
    BY <2>1, Inputs, RestartStep, WaitStep DEF SettleInv
  <2>3. quiet' + Distance' <= 6
    <3>1. Distance' \in 0 .. 6
      <4>1. (TypeOK => Distance \in 0 .. 6)'
        BY DistanceBound, PTL
      <4> QED
        BY <1>1, <4>1
    <3>2. Distance \in 0 .. 6 /\ quiet \in Nat /\ SettleBound \in Nat
      BY DistanceBound, PipelineAssumption DEF SettleInv, TypeOK
    <3>3. CASE m' = None /\ Undisturbed(hit, resume, hazard, over, finish)
      <4>1. Distance' < Distance
        BY <1>1, <2>1, <3>3, Nearer DEF SettleInv
      <4>2. quiet' = quiet + 1 \/ quiet' = quiet
        BY <2>1, <3>3 DEF Clock, Settling
      <4> QED
        BY <3>1, <3>2, <4>1, <4>2 DEF SettleInv
    <3>4. CASE ~(m' = None /\ Undisturbed(hit, resume, hazard, over, finish))
      <4>1. quiet' = 0
        BY <2>1, <3>4 DEF Clock, Settling
      <4>2. ASSUME NEW q, NEW distance \in 0 .. 6, q = 0 PROVE q + distance <= 6
        BY <4>2
      <4> QED
        BY <3>1, <4>1, <4>2
    <3> QED
      BY <3>3, <3>4
  <2> QED
    BY <1>1, <2>2, <2>3 DEF SettleInv
<1>3. CASE UNCHANGED vars
  <2>1. Distance' = Distance /\ quiet' = quiet
    BY <1>3 DEF vars, ifVars, deVars, exVars, hiVars, meVars, Distance, ToFetch, ToRestart, Passes,
       MultHazard, EX, DE, flush_D, flush_X, restart
  <2>2. RestartInv' /\ WaitInv'
    BY <1>3 DEF SettleInv, vars, ifVars, deVars, exVars, meVars, RestartInv, WaitInv
  <2> QED
    BY <1>1, <2>1, <2>2 DEF SettleInv
<1> QED
  BY <1>2, <1>3

(* Six cycles after the last disturbance an instruction has retired, for   *)
(* every program: no restart calls for the one in front of it again.       *)
THEOREM SettlesCorrect ==
  ASSUME ~OneShotRaces, SettleBound >= 6
  PROVE  Spec => []Settles
<1>1. Init => SettleInv
  <2> SUFFICES ASSUME Init PROVE SettleInv
    OBVIOUS
  <2>1. TypeOK /\ DelaySlotInv
    BY InitType, InitSlots
  <2>2. RestartInv /\ WaitInv
    BY DEF Init, RestartInv, WaitInv
  <2>3. Distance \in 0 .. 6 /\ quiet = 0
    BY <2>1, DistanceBound DEF Init
  <2> QED
    BY <2>1, <2>2, <2>3 DEF SettleInv
<1>2. SettleInv /\ [Next]_vars => SettleInv'
  BY SettleStep
<1>3. SettleInv => Settles
  BY DistanceBound, PipelineAssumption DEF SettleInv, Settles, TypeOK
<1> QED
  BY <1>1, <1>2, <1>3, PTL DEF Spec

=============================================================================
