---------------------------- MODULE StageI_proofs ----------------------------
(***************************************************************************)
(* Proofs about StageI, for every geometry of the cache, every program and *)
(* every timing of the memory: no line is in two ways, no instruction is   *)
(* passed over or repeated, and a fill takes just the words of its line.   *)
(* If the memory is never busy for more than 5 cycles at a time, IF and    *)
(* the path of stores implement InstructionMemory.                         *)
(***************************************************************************)
EXTENDS StageI, FiniteSetTheorems, WellFoundedInduction, TLAPS

Bound == Words * Sets * Tags

LEMMA Constants ==
  /\ Words * Sets \in Nat \ {0}
  /\ Bound \in Nat \ {0}
  /\ Addr = 0 .. Bound - 1
  /\ 0 \in Addr
<1>1. \A a, b \in Nat \ {0} : a * b \in Nat \ {0}
  OBVIOUS
<1>2. Words \in Nat \ {0} /\ Sets \in Nat \ {0} /\ Tags \in Nat \ {0}
  BY StageIAssumption
<1>3. Words * Sets \in Nat \ {0}
  BY <1>1, <1>2
<1>4. Bound \in Nat \ {0}
  BY <1>1, <1>2, <1>3 DEF Bound
<1> QED
  BY <1>3, <1>4 DEF Addr, Bound

LEMMA SuccType == ASSUME NEW a \in Addr PROVE Succ(a) \in Addr
<1>1. a + 1 \in Nat /\ Bound \in Nat \ {0}
  BY Constants
<1>2. (a + 1) % Bound \in 0 .. Bound - 1
  BY <1>1
<1> QED
  BY <1>2, Constants DEF Succ, Bound

LEMMA IndexType == ASSUME NEW a \in Addr PROVE Csi(a) \in 0 .. Sets - 1
<1>1. a \in Nat /\ Words \in Nat \ {0} /\ Sets \in Nat \ {0}
  BY Constants, StageIAssumption
<1>2. a \div Words \in Nat
  BY <1>1
<1>3. (a \div Words) % Sets \in 0 .. Sets - 1
  BY <1>1, <1>2
<1> QED
  BY <1>3 DEF Csi

LEMMA TagType == ASSUME NEW a \in Addr PROVE Chk(a) \in 0 .. Tags - 1
<1> DEFINE n == Words * Sets
           q == a \div n
<1>1. a \in Nat /\ n \in Nat \ {0} /\ Tags \in Nat /\ a < n * Tags
  BY Constants, StageIAssumption DEF Bound
<1>2. \A k \in Nat \ {0} : a \div k \in Nat /\ k * (a \div k) <= a
  BY <1>1
<1>3. q \in Nat /\ n * q <= a
  BY <1>1, <1>2
<1> HIDE DEF n, q
<1>4. \A x, y \in Nat : n * x < n * y => x < y
  <2>1. \A k, x, y \in Nat : x >= y => k * x >= k * y
    OBVIOUS
  <2>2. \A x \in Nat : n * x \in Nat
    BY <1>1
  <2> QED
    BY <1>1, <2>1, <2>2
<1>5. n * q \in Nat /\ n * Tags \in Nat
  BY <1>1, <1>3
<1>6. n * q < n * Tags
  BY <1>1, <1>3, <1>5
<1>7. q < Tags
  BY <1>1, <1>3, <1>4, <1>6
<1> QED
  BY <1>1, <1>3, <1>7 DEF Chk, n, q

----------------------------------------------------------------------------
(* The types that the proofs need.                                         *)

FetchType ==
  /\ i_pc \in Addr /\ i_npc \in Addr
  /\ i1_valid \in BOOLEAN /\ i2_valid \in BOOLEAN
  /\ state \in {"running", "lookup", "invalidate", "filling", "pre_running"}
  /\ fill_set \in Ways
  /\ pending_synci = None \/ pending_synci \in [a : Addr, pc : Addr]
  /\ tag_write = None \/ tag_write \in [ena : SUBSET Ways, csi : Nat, data : Nat]
  /\ m_restart \in Addr \cup {None}
  /\ window \in Nat

(* What was looked up is what the tags still are, a tag is written only    *)
(* while nothing is looked up, and the line that is filled is in no way.   *)
LookupCurrent ==
  /\ i2_valid => /\ state = "running"
                 /\ \A w \in Ways : tag_q[w] = tag_ram[w][Csi(i_pc)]
  /\ tag_write # None => state = "pre_running"
  /\ state = "filling" => \A w \in Ways : tag_ram[w][Csi(i_pc)] # Chk(i_pc)

(* Where the fetch goes on.  While a SYNCI is pending nothing has been     *)
(* fetched behind it, so only ME can restart, and to the same address.     *)
StreamInv ==
  /\ pending_synci = None =>
       IF i2_valid THEN i_pc = expected /\ i_npc = Succ(i_pc)
       ELSE state \in {"running", "filling", "pre_running"} /\ i_npc = expected
  /\ pending_synci # None =>
       /\ pending_synci.pc = expected /\ ~i2_valid /\ window = 0
       /\ m_restart # None => m_restart = expected

(* The fetch is switched off by SYNCI only, and until the boot restart.    *)
Armed ==
  /\ ~i1_valid => \/ state \in {"lookup", "invalidate"}
                  \/ state = "running" /\ m_restart # None
  /\ i2_valid => i1_valid

(* The inductive invariant.                                                *)
IInv == FetchType /\ LookupCurrent /\ OneHot /\ StreamInv /\ Armed

(* The choices of the environment in one step.                             *)
Inputs(wait, rdv, cycles, way, jump, synci, store, next_m_restart) ==
  /\ wait \in Waits /\ rdv \in Rdvs /\ jump \in Jumps
  /\ cycles \in Cycles(wait, rdv) /\ way \in FillWays(rdv) /\ synci \in Syncis(jump)
  /\ store \in Stores(synci) /\ next_m_restart \in MRestarts(synci)

(* What the stages behind IF may do.                                       *)
LEMMA Wires ==
  ASSUME FetchType,
         NEW jump \in Jumps, NEW synci \in Syncis(jump), NEW nm \in MRestarts(synci)
  PROVE  /\ restart_pc(jump) \in Addr \cup {None}
         /\ restart_pc(jump) # None => m_restart # None \/ window > 0
         /\ synci # None => synci \in Addr /\ restart_pc(jump) \in Addr /\ window > 0
         /\ nm \in Addr \cup {None}
         /\ window = 0 => nm \in {None, m_restart}
         /\ m_restart # None => nm \in {None, m_restart}
         /\ synci # None /\ m_restart = None => nm = None
         /\ Fetchaddress(restart_pc(jump)) \in Addr
<1>1. Targets \subseteq Addr /\ Addr \subseteq Nat /\ None \notin Nat
  BY StageIAssumption, Constants
<1>2. jump = None \/ (jump \in Addr /\ m_restart = None /\ window > 0)
  BY <1>1 DEF Jumps
<1>3. /\ restart_pc(jump) \in Addr \cup {None}
      /\ restart_pc(jump) # None => m_restart # None \/ window > 0
      /\ Fetchaddress(restart_pc(jump)) \in Addr
  BY <1>2 DEF FetchType, restart_pc, Fetchaddress
<1>4. synci # None => synci \in Addr /\ restart_pc(jump) \in Addr /\ window > 0
  BY <1>1, <1>3 DEF Syncis
<1>5. nm = None \/ (m_restart # None /\ nm = m_restart)
               \/ (m_restart = None /\ synci = None /\ window > 0 /\ nm \in Addr)
  BY <1>1 DEF MRestarts
<1>6. /\ nm \in Addr \cup {None}
      /\ window = 0 => nm \in {None, m_restart}
      /\ m_restart # None => nm \in {None, m_restart}
      /\ synci # None /\ m_restart = None => nm = None
  BY <1>5 DEF FetchType
<1> QED
  BY <1>3, <1>4, <1>6

----------------------------------------------------------------------------
(* What follows from the invariant in the present state.                   *)

LEMMA Present ==
  ASSUME IInv
  PROVE  /\ state \in {"lookup", "invalidate"} => pending_synci # None
         /\ state # "running" => ~i2_valid
         /\ state # "pre_running" => tag_write = None
         /\ i2_valid => state = "running"
BY DEF IInv, FetchType, LookupCurrent, StreamInv

(* A lookup that does not miss delivers an instruction.                    *)
LEMMA HitIsValid ==
  ASSUME IInv, i2_valid
  PROVE  i_valid <=> hits_2 # {}
<1>1. CASE hits_2 = {}
  <2>1. Cardinality(hits_2) = 0
    BY <1>1, FS_EmptySet
  <2> QED
    BY <1>1, <2>1 DEF i_valid
<1>2. CASE hits_2 # {}
  <2>1. PICK w \in Ways : w \in hits_2
    BY <1>2 DEF hits_2
  <2>2. ASSUME NEW v \in hits_2 PROVE v = w
    <3>1. v \in Ways /\ tag_q[v] = Chk(i_pc) /\ tag_q[w] = Chk(i_pc)
      BY <2>1, <2>2 DEF hits_2
    <3>2. tag_q[v] = tag_ram[v][Csi(i_pc)] /\ tag_q[w] = tag_ram[w][Csi(i_pc)]
      BY <2>1, <3>1 DEF IInv, LookupCurrent
    <3>3. tag_write = None
      BY Present
    <3>4. Holds(v, Csi(i_pc), Chk(i_pc)) /\ Holds(w, Csi(i_pc), Chk(i_pc))
      BY <3>1, <3>2, <3>3 DEF Holds
    <3>5. Csi(i_pc) \in 0 .. Sets - 1 /\ Chk(i_pc) \in 0 .. Tags - 1
      BY IndexType, TagType DEF IInv, FetchType
    <3> QED
      BY <2>1, <3>1, <3>4, <3>5 DEF IInv, OneHot
  <2>3. hits_2 = {w}
    BY <2>1, <2>2
  <2>4. Cardinality(hits_2) = 1
    BY <2>3, FS_Singleton
  <2> QED
    BY <1>2, <2>4 DEF i_valid
<1> QED
  BY <1>1, <1>2

----------------------------------------------------------------------------
(* One step preserves each part of the invariant.                          *)

LEMMA TypeStep ==
  ASSUME IInv,
         NEW wait, NEW rdv, NEW cycles, NEW way, NEW jump, NEW synci, NEW store, NEW nm,
         Inputs(wait, rdv, cycles, way, jump, synci, store, nm),
         Clock(wait, rdv, cycles, way, jump, synci, store, nm)
  PROVE  FetchType'
<1> DEFINE restart == restart_pc(jump)
<1>1. /\ restart \in Addr \cup {None} /\ nm \in Addr \cup {None}
      /\ synci # None => synci \in Addr /\ restart \in Addr
      /\ Fetchaddress(restart) \in Addr
  BY Wires DEF Inputs, IInv
<1>2. FetchType /\ None \notin Addr
  BY StageIAssumption, Constants DEF IInv
<1>3. Fetch(restart, synci, rdv, way)
  BY DEF Clock
<1>4. way \in Ways
  BY <1>2 DEF Inputs, FillWays, FetchType
<1>5. pending_synci' = None \/ pending_synci' \in [a : Addr, pc : Addr]
  <2>1. PendingSynci(restart, synci)
    BY DEF Clock
  <2> HIDE DEF restart
  <2> QED
    BY <2>1, <1>1, <1>2 DEF PendingSynci, SynciArrives, FetchType
<1>6. state = "invalidate" => pending_synci \in [a : Addr, pc : Addr]
  BY <1>2, Present DEF FetchType
<1>7. tag_write' = None \/ tag_write' \in [ena : SUBSET Ways, csi : Nat, data : Nat]
  <2>1. tag_write' = TagWrite(rdv)
    BY DEF Clock, TagRam
  <2>2. i_pc \in Addr /\ fill_set \in Ways /\ tag_illegal \in Nat /\ hits_2 \in SUBSET Ways
    BY <1>2, StageIAssumption DEF FetchType, tag_illegal, hits_2
  <2>3. \A a \in Addr : Csi(a) \in Nat /\ Chk(a) \in Nat
    BY IndexType, TagType
  <2>4. state = "invalidate" => Csi(pending_synci.a) \in Nat
    BY <1>6, <2>3
  <2>5. {fill_set} \in SUBSET Ways
    BY <2>2
  <2> QED
    BY <2>1, <2>2, <2>3, <2>4, <2>5 DEF TagWrite
<1>8. m_restart' \in Addr \cup {None} /\ window' \in Nat
  BY <1>1, <1>2 DEF Clock, Behind, FetchType
<1>9. /\ i_pc' \in Addr /\ i_npc' \in Addr
      /\ state' \in {"running", "lookup", "invalidate", "filling", "pre_running"}
  <2>1. CASE state = "running"
    <3>1. pending_synci # None => pending_synci.a \in Addr
      BY <1>2 DEF FetchType
    <3>2. CASE Synchronising(restart, synci) /\ (synci # None \/ pending_synci # None)
      <4> HIDE DEF restart
      <4> QED
        BY <1>1, <1>2, <3>1, <3>2 DEF Synchronising, FetchType
    <3>3. CASE Missing(restart)
      <4> HIDE DEF restart
      <4> QED
        BY <1>1, <1>2, <3>3 DEF Missing, FetchType
    <3>4. CASE Running(restart)
      <4> HIDE DEF restart
      <4> QED
        BY <1>1, <1>2, <2>1, <3>4, SuccType DEF Running, FetchType
    <3> QED
      BY <1>3, <2>1, <3>2, <3>3, <3>4 DEF Fetch, SynciArrives
  <2>2. CASE state = "lookup" /\ Lookup
    BY <1>2, <2>2 DEF Lookup, FetchType
  <2>3. CASE state = "invalidate" /\ Invalidate
    BY <1>2, <1>6, <2>3 DEF Invalidate, FetchType
  <2>4. CASE state = "filling" /\ Filling(restart, rdv, way)
    <3> HIDE DEF restart
    <3> QED
      BY <1>1, <1>2, <2>4 DEF Filling, FetchType
  <2>5. CASE state = "pre_running" /\ PreRunning(restart)
    <3> HIDE DEF restart
    <3> QED
      BY <1>1, <1>2, <2>5 DEF PreRunning, FetchType
  <2> QED
    BY <1>3, <2>1, <2>2, <2>3, <2>4, <2>5 DEF Fetch
<1>10. i1_valid' \in BOOLEAN /\ i2_valid' \in BOOLEAN /\ fill_set' \in Ways
  <2> HIDE DEF restart
  <2> QED
    BY <1>2, <1>3, <1>4 DEF Fetch, Synchronising, Running, Missing, Lookup, Invalidate,
       Filling, PreRunning, FetchType
<1> QED
  BY <1>5, <1>7, <1>8, <1>9, <1>10 DEF FetchType

LEMMA TagsStep ==
  ASSUME IInv,
         NEW wait, NEW rdv, NEW cycles, NEW way, NEW jump, NEW synci, NEW store, NEW nm,
         Inputs(wait, rdv, cycles, way, jump, synci, store, nm),
         Clock(wait, rdv, cycles, way, jump, synci, store, nm)
  PROVE  OneHot'
<1>1. /\ tag_write' = TagWrite(rdv)
      /\ tag_ram' = [w \in Ways |-> [s \in 0 .. Sets - 1 |->
           IF tag_write # None /\ w \in tag_write.ena /\ s = tag_write.csi
             THEN tag_write.data ELSE tag_ram[w][s]]]
  BY DEF Clock, TagRam
<1>2. ASSUME NEW w \in Ways, NEW s \in 0 .. Sets - 1, NEW t
      PROVE  t = tag_ram'[w][s] <=> Holds(w, s, t)
  BY <1>1 DEF Holds
<1> SUFFICES ASSUME NEW s \in 0 .. Sets - 1, NEW t \in 0 .. Tags - 1,
                    NEW v \in Ways, NEW w \in Ways,
                    Holds(v, s, t)', Holds(w, s, t)'
             PROVE  v = w
  BY DEF OneHot
<1>3. Holds(v, s, t) /\ Holds(w, s, t) => v = w
  BY DEF IInv, OneHot
<1>4. CASE tag_write' = None
  BY <1>2, <1>3, <1>4 DEF Holds
<1>5. CASE state = "invalidate"
  <2>1. tag_write' # None => t # tag_write'.data
    BY <1>1, <1>5, StageIAssumption DEF TagWrite, tag_illegal
  <2>2. t = tag_ram'[v][s] /\ t = tag_ram'[w][s]
    BY <2>1 DEF Holds
  <2> QED
    BY <1>2, <1>3, <2>2
<1>6. CASE state = "filling" /\ LastWord(rdv)
  <2>1. tag_write' = [ena |-> {fill_set}, csi |-> Csi(i_pc), data |-> Chk(i_pc)]
    BY <1>1, <1>6 DEF TagWrite
  <2>2. \A u \in Ways : ~Holds(u, Csi(i_pc), Chk(i_pc))
    BY <1>6, Present DEF IInv, LookupCurrent, Holds
  <2>3. CASE s = Csi(i_pc) /\ t = Chk(i_pc)
    <3>1. ASSUME NEW u \in Ways, Holds(u, s, t)'
          PROVE  u = fill_set
      BY <1>2, <2>1, <2>2, <2>3, <3>1 DEF Holds
    <3> QED
      BY <3>1
  <2>4. CASE ~(s = Csi(i_pc) /\ t = Chk(i_pc))
    <3>1. ASSUME NEW u \in Ways, Holds(u, s, t)'
          PROVE  Holds(u, s, t)
      BY <1>2, <1>4, <2>1, <2>4, <3>1 DEF Holds
    <3> QED
      BY <3>1, <1>3
  <2> QED
    BY <2>3, <2>4
<1>7. state = "invalidate" \/ (state = "filling" /\ LastWord(rdv)) \/ tag_write' = None
  BY <1>1 DEF TagWrite
<1> QED
  BY <1>4, <1>5, <1>6, <1>7

LEMMA LookupStep ==
  ASSUME IInv,
         NEW wait, NEW rdv, NEW cycles, NEW way, NEW jump, NEW synci, NEW store, NEW nm,
         Inputs(wait, rdv, cycles, way, jump, synci, store, nm),
         Clock(wait, rdv, cycles, way, jump, synci, store, nm)
  PROVE  LookupCurrent'
<1> DEFINE restart == restart_pc(jump)
<1>1. /\ tag_write' = TagWrite(rdv)
      /\ tag_q' = [w \in Ways |-> IF Looked THEN tag_ram[w][Csi(Fetchaddress(restart))]
                                           ELSE tag_illegal]
      /\ Fetch(restart, synci, rdv, way)
  BY DEF Clock, TagRam
<1>2. i_pc \in Addr /\ Fetchaddress(restart) \in Addr
  BY Wires DEF IInv, FetchType, Inputs
<1>3. ASSUME state # "pre_running", NEW a \in Addr, NEW w \in Ways
      PROVE  tag_ram'[w][Csi(a)] = tag_ram[w][Csi(a)]
  <2>1. tag_write = None /\ Csi(a) \in 0 .. Sets - 1
    BY <1>3, Present, IndexType
  <2> QED
    BY <2>1 DEF Clock, TagRam
<1>4. state' = "filling" \/ i2_valid' => state # "pre_running"
  BY <1>1, Present DEF Fetch, PreRunning
<1> HIDE DEF restart
<1>5. i2_valid' => state = "running" /\ Running(restart)
  BY <1>1, Present DEF Fetch, Synchronising, Missing, Lookup, Invalidate, Filling, PreRunning
<1>6. ASSUME i2_valid'
      PROVE  state' = "running" /\ \A w \in Ways : tag_q'[w] = tag_ram'[w][Csi(i_pc')]
  <2>1. Looked /\ i_pc' = Fetchaddress(restart) /\ state' = "running"
    BY <1>5, <1>6 DEF Looked, Running
  <2> QED
    BY <1>1, <1>2, <1>3, <1>4, <1>6, <2>1
<1>7. tag_write' # None => state' = "pre_running"
  BY <1>1 DEF TagWrite, Fetch, Filling, Invalidate, Lookup, PreRunning
<1>8. ASSUME state' = "filling"
      PROVE  \A w \in Ways : tag_ram'[w][Csi(i_pc')] # Chk(i_pc')
  <2>1. i_pc' = i_pc /\ (state = "filling" \/ (state = "running" /\ Misses))
    BY <1>1, <1>8 DEF Fetch, Synchronising, Running, Missing, Lookup, Invalidate, Filling,
       PreRunning
  <2>2. \A w \in Ways : tag_ram[w][Csi(i_pc)] # Chk(i_pc)
    BY <2>1 DEF IInv, LookupCurrent, Misses, hits_2
  <2> QED
    BY <1>2, <1>3, <1>4, <1>8, <2>1, <2>2
<1> QED
  BY <1>6, <1>7, <1>8 DEF LookupCurrent

LEMMA ArmedStep ==
  ASSUME IInv,
         NEW wait, NEW rdv, NEW cycles, NEW way, NEW jump, NEW synci, NEW store, NEW nm,
         Inputs(wait, rdv, cycles, way, jump, synci, store, nm),
         Clock(wait, rdv, cycles, way, jump, synci, store, nm)
  PROVE  Armed'
<1> DEFINE restart == restart_pc(jump)
<1>1. Fetch(restart, synci, rdv, way)
  BY DEF Clock
<1>2. m_restart # None => restart # None
  BY DEF restart_pc
<1>3. /\ i1_valid \in BOOLEAN /\ i2_valid \in BOOLEAN /\ Armed
      /\ state # "running" => ~i2_valid
  BY Present DEF IInv, FetchType
<1> HIDE DEF restart
<1>4. CASE state = "running" /\ Synchronising(restart, synci)
  BY <1>4 DEF Synchronising, Armed
<1>5. CASE state = "running" /\ Misses /\ Missing(restart)
  BY <1>3, <1>5 DEF Missing, Misses, Armed
<1>6. CASE state = "running" /\ Running(restart)
  BY <1>2, <1>3, <1>6 DEF Running, Armed
<1>7. CASE state = "lookup" /\ Lookup
  BY <1>3, <1>7 DEF Lookup, Armed
<1>8. CASE state = "invalidate" /\ Invalidate
  BY <1>3, <1>8 DEF Invalidate, Armed
<1>9. CASE state \in {"filling", "pre_running"} /\ UNCHANGED <<i1_valid, i2_valid>>
  BY <1>3, <1>9 DEF Armed
<1> QED
  BY <1>1, <1>4, <1>5, <1>6, <1>7, <1>8, <1>9 DEF Fetch, Filling, PreRunning

(* While a SYNCI is pending.                                               *)
LEMMA PendingStep ==
  ASSUME IInv,
         NEW wait, NEW rdv, NEW cycles, NEW way, NEW jump, NEW synci, NEW store, NEW nm,
         Inputs(wait, rdv, cycles, way, jump, synci, store, nm),
         Clock(wait, rdv, cycles, way, jump, synci, store, nm)
  PROVE  pending_synci' # None =>
           /\ pending_synci'.pc = expected' /\ ~i2_valid' /\ window' = 0
           /\ m_restart' # None => m_restart' = expected'
<1> DEFINE restart == restart_pc(jump)
<1>1. /\ restart # None => m_restart # None \/ window > 0
      /\ synci # None => synci \in Addr /\ restart \in Addr /\ window > 0
      /\ window = 0 => nm \in {None, m_restart}
      /\ m_restart # None => nm \in {None, m_restart}
      /\ synci # None /\ m_restart = None => nm = None
  BY Wires DEF Inputs, IInv
<1>2. /\ Fetch(restart, synci, rdv, way) /\ PendingSynci(restart, synci)
      /\ Behind(jump, synci, nm)
  BY DEF Clock
<1>3. /\ m_restart' = nm
      /\ expected' = IF restart # None THEN restart
                     ELSE IF i_valid THEN Succ(i_pc) ELSE expected
  BY <1>2 DEF Behind
<1>4. m_restart # None => restart = m_restart
  BY DEF restart_pc
<1>5. /\ state # "running" => ~i2_valid
      /\ i_valid => i2_valid
      /\ pending_synci # None =>
           /\ pending_synci.pc = expected /\ ~i2_valid /\ window = 0
           /\ m_restart # None => m_restart = expected
  BY Present DEF IInv, StreamInv, i_valid
<1>6. None \notin Addr
  BY StageIAssumption, Constants
<1>7. ASSUME synci # None \/ pending_synci # None
      PROVE  ~i2_valid'
  <2> HIDE DEF restart
  <2> QED
    BY <1>2, <1>5, <1>7 DEF Fetch, Synchronising, Lookup, Invalidate, Filling, PreRunning,
       SynciArrives
<1>8. CASE synci # None /\ state # "invalidate"
  <2>1. pending_synci' = [a |-> synci, pc |-> restart]
    BY <1>2, <1>8 DEF PendingSynci, SynciArrives
  <2>2. window' = 0
    BY <1>2, <1>8 DEF Behind
  <2>3. restart # None
    BY <1>1, <1>6, <1>8
  <2> HIDE DEF restart
  <2> QED
    BY <1>1, <1>3, <1>4, <1>7, <1>8, <2>1, <2>2, <2>3
<1>9. CASE synci = None /\ pending_synci # None /\ state # "invalidate"
  <2>1. pending_synci' = pending_synci
    BY <1>2, <1>9 DEF PendingSynci, SynciArrives
  <2>2. window = 0 /\ ~i2_valid /\ ~i_valid
    BY <1>5, <1>9
  <2>3. window' = 0
    BY <1>2, <1>9, <2>2 DEF Behind, Delivered
  <2>4. restart # None => restart = expected
    BY <1>1, <1>4, <1>5, <1>9, <2>2
  <2> HIDE DEF restart
  <2> QED
    BY <1>1, <1>3, <1>5, <1>7, <1>9, <2>1, <2>2, <2>3, <2>4
<1>10. CASE state = "invalidate" \/ (synci = None /\ pending_synci = None)
  BY <1>2, <1>10 DEF PendingSynci, SynciArrives
<1> QED
  BY <1>8, <1>9, <1>10

LEMMA StreamStep ==
  ASSUME IInv,
         NEW wait, NEW rdv, NEW cycles, NEW way, NEW jump, NEW synci, NEW store, NEW nm,
         Inputs(wait, rdv, cycles, way, jump, synci, store, nm),
         Clock(wait, rdv, cycles, way, jump, synci, store, nm)
  PROVE  StreamInv'
<1> DEFINE restart == restart_pc(jump)
<1>1. /\ Fetch(restart, synci, rdv, way) /\ PendingSynci(restart, synci)
      /\ expected' = IF restart # None THEN restart
                     ELSE IF i_valid THEN Succ(i_pc) ELSE expected
  BY DEF Clock, Behind
<1>2. m_restart # None => restart # None
  BY DEF restart_pc
<1>3. pending_synci = None =>
        IF i2_valid THEN i_pc = expected /\ i_npc = Succ(i_pc)
        ELSE state \in {"running", "filling", "pre_running"} /\ i_npc = expected
  BY DEF IInv, StreamInv
<1>4. /\ state # "running" => ~i2_valid
      /\ state \in {"lookup", "invalidate"} => pending_synci # None
      /\ i2_valid => (i_valid <=> hits_2 # {})
      /\ i_valid => i2_valid
      /\ i1_valid \in BOOLEAN /\ i2_valid \in BOOLEAN
  BY Present, HitIsValid DEF IInv, FetchType, i_valid
<1>5. pending_synci # None =>
        pending_synci.pc = expected /\ ~i2_valid /\ window = 0
          /\ (m_restart # None => m_restart = expected)
  BY DEF IInv, StreamInv
<1>6. SUFFICES ASSUME pending_synci' = None
               PROVE  IF i2_valid' THEN i_pc' = expected' /\ i_npc' = Succ(i_pc')
                      ELSE /\ state' \in {"running", "filling", "pre_running"}
                           /\ i_npc' = expected'
  BY PendingStep DEF StreamInv
<1>7. CASE state = "invalidate"
  <2>1. restart # None => restart = expected
    <3>1. window = 0 /\ (m_restart # None => m_restart = expected)
      BY <1>4, <1>5, <1>7
    <3> QED
      BY <3>1, Wires DEF Inputs, IInv, restart_pc
  <2> HIDE DEF restart
  <2> QED
    BY <1>1, <1>4, <1>5, <1>7, <2>1 DEF Fetch, Invalidate
<1>8. CASE state # "invalidate"
  <2>1. synci = None /\ pending_synci = None
    <3>1. pending_synci' = IF synci # None THEN [a |-> synci, pc |-> restart]
                           ELSE pending_synci
      BY <1>1, <1>8 DEF PendingSynci, SynciArrives
    <3>2. synci # None => synci \in Addr /\ restart \in Addr
      BY Wires DEF Inputs, IInv
    <3> HIDE DEF restart
    <3>3. ASSUME synci # None
          PROVE  [a |-> synci, pc |-> restart] \in [a : Nat, pc : Nat]
      BY <3>2, <3>3, Constants
    <3> QED
      BY <1>6, <3>1, <3>3, StageIAssumption
  <2> HIDE DEF restart
  <2>2. CASE state = "running" /\ Misses /\ Missing(restart)
    BY <1>1, <1>3, <1>4, <2>1, <2>2 DEF Missing, Misses
  <2>3. CASE state = "running" /\ ~Misses /\ Running(restart)
    <3>1. i2_valid'
      BY <1>2, <1>4, <2>3 DEF Running, IInv, Armed
    <3>2. restart = None => i_npc = expected'
      BY <1>1, <1>3, <1>4, <2>1, <2>3 DEF Misses
    <3> QED
      BY <1>1, <2>3, <3>1, <3>2 DEF Running, Fetchaddress
  <2>4. CASE state \in {"filling", "pre_running"}
    BY <1>1, <1>3, <1>4, <2>1, <2>4 DEF Fetch, Filling, PreRunning, Fetchaddress
  <2> QED
    BY <1>1, <1>4, <2>1, <2>2, <2>3, <2>4 DEF Fetch, SynciArrives
<1> QED
  BY <1>7, <1>8

----------------------------------------------------------------------------
(* The invariant holds at the start and is kept by every step.             *)

LEMMA InitIInv == ASSUME Init PROVE IInv
<1>1. 0 \in Addr /\ None \notin Nat /\ tag_illegal = Tags /\ Tags \in Nat
  BY Constants, StageIAssumption DEF tag_illegal
<1>2. FetchType
  BY <1>1 DEF Init, FetchType
<1>3. LookupCurrent /\ StreamInv /\ Armed
  BY <1>1 DEF Init, LookupCurrent, StreamInv, Armed
<1>4. OneHot
  <2> SUFFICES ASSUME NEW s \in 0 .. Sets - 1, NEW t \in 0 .. Tags - 1, NEW v \in Ways
               PROVE  ~Holds(v, s, t)
    BY DEF OneHot
  <2> QED
    BY <1>1 DEF Init, Holds
<1> QED
  BY <1>2, <1>3, <1>4 DEF IInv

LEMMA NextIInv == ASSUME IInv, Next PROVE IInv'
<1>1. PICK wait \in Waits, rdv \in Rdvs, jump \in Jumps :
        \E cycles \in Cycles(wait, rdv), way \in FillWays(rdv), synci \in Syncis(jump) :
          \E store \in Stores(synci), nm \in MRestarts(synci) :
            Clock(wait, rdv, cycles, way, jump, synci, store, nm)
  BY DEF Next
<1>2. PICK cycles \in Cycles(wait, rdv), way \in FillWays(rdv), synci \in Syncis(jump) :
        \E store \in Stores(synci), nm \in MRestarts(synci) :
          Clock(wait, rdv, cycles, way, jump, synci, store, nm)
  BY <1>1
<1>3. PICK store \in Stores(synci), nm \in MRestarts(synci) :
        Clock(wait, rdv, cycles, way, jump, synci, store, nm)
  BY <1>2
<1>4. Inputs(wait, rdv, cycles, way, jump, synci, store, nm)
  BY <1>1, <1>2, <1>3 DEF Inputs
<1> QED
  BY <1>3, <1>4, TypeStep, TagsStep, LookupStep, StreamStep, ArmedStep DEF IInv

LEMMA StutterIInv == ASSUME IInv, UNCHANGED vars PROVE IInv'
BY DEF IInv, FetchType, LookupCurrent, OneHot, Holds, StreamInv, Armed,
       vars, fetchVars, cacheVars, memVars

THEOREM IInvHolds == Spec => []IInv
<1>1. IInv /\ [Next]_vars => IInv'
  BY NextIInv, StutterIInv
<1> QED
  BY InitIInv, <1>1, PTL DEF Spec

(* No line is ever in two ways of the instruction cache, so that at most   *)
(* one way of stage_I's hits_2 is selected.                                *)
THEOREM OneHotCorrect == Spec => []OneHot
<1>1. IInv => OneHot
  BY DEF IInv
<1> QED
  BY <1>1, IInvHolds, PTL

(* Whatever stage_I fills or synchronises meanwhile, the instructions it   *)
(* emits follow each other from the target of the last restart on.         *)
THEOREM FetchesInOrderCorrect == Spec => []FetchesInOrder
<1>1. IInv => FetchesInOrder
  BY DEF IInv, StreamInv, FetchesInOrder, i_valid
<1> QED
  BY <1>1, IInvHolds, PTL

----------------------------------------------------------------------------
(* The words of a fill.  Their addresses are within the memory.            *)

LEMMA LineType ==
  ASSUME NEW a \in Addr, NEW i \in 1 .. Words
  PROVE  (a \div Words) * Words + i - 1 \in Addr
<1> DEFINE q == a \div Words
           k == Sets * Tags
<1>1. \A x, y, z \in Nat : (x * y) * z = x * (y * z)
  OBVIOUS
<1>2. \A x, y \in Nat \ {0} : x * y \in Nat \ {0}
  OBVIOUS
<1>3. Words \in Nat \ {0} /\ k \in Nat \ {0} /\ Bound = Words * k
  BY <1>1, <1>2, StageIAssumption DEF Bound
<1>4. a \in Nat /\ a < Words * k
  BY <1>3, Constants
<1>5. \A n \in Nat \ {0} : a \div n \in Nat /\ n * (a \div n) <= a
  BY <1>4
<1>6. q \in Nat /\ Words * q <= a
  BY <1>3, <1>5
<1> HIDE DEF q, k
<1>7. q + 1 <= k
  <2>1. \A n, x, y \in Nat : x >= y => n * x >= n * y
    OBVIOUS
  <2>2. Words * q \in Nat /\ Words * k \in Nat
    BY <1>2, <1>3, <1>6, <2>1
  <2>3. Words * q < Words * k
    BY <1>4, <1>6, <2>2
  <2>4. q < k
    BY <1>3, <1>6, <2>1, <2>3, <2>2
  <2> QED
    BY <2>4, <1>3, <1>6
<1>8. Words * q + Words <= Words * k
  <2>1. \A n, x, y \in Nat : x + 1 <= y => n * x + n <= n * y
    OBVIOUS
  <2> QED
    BY <1>3, <1>6, <1>7, <2>1
<1>9. Words * q \in Nat /\ q * Words = Words * q
  BY <1>3, <1>6
<1>10. q * Words + i - 1 \in 0 .. Words * k - 1
  <2>1. i \in Nat /\ 1 <= i /\ i <= Words
    BY <1>3
  <2>2. Words * k \in Nat
    BY <1>2, <1>3
  <2> HIDE DEF q, k
  <2> QED
    BY <1>3, <1>8, <1>9, <2>1, <2>2
<1> QED
  BY <1>3, <1>10, Constants DEF q

(* The stores on their way, typed.                                         *)
StoreType ==
  /\ store_buffer \in Seq(Stored \X {0, 1})
  /\ dmem \in Request
  /\ mem \in [Addr -> Word]

(* FillInStep with the types that it needs to be inductive.                *)
FillInv ==
  /\ StoreType
  /\ fill_wi \in 0 .. Words - 1 /\ imem_read \in BOOLEAN
  /\ burst \in Seq(Word)
  /\ FillInStep

LEMMA StoreStep ==
  ASSUME IInv, FillInv,
         NEW wait, NEW rdv, NEW cycles, NEW way, NEW jump, NEW synci, NEW store, NEW nm,
         Inputs(wait, rdv, cycles, way, jump, synci, store, nm),
         Clock(wait, rdv, cycles, way, jump, synci, store, nm)
  PROVE  StoreType'
<1> DEFINE S == Stored \X {0, 1}
<1>1. S \subseteq Word /\ \A r \in S : r[1] \in Addr
  BY StageIAssumption DEF Word
<1>2. store = None \/ store \in S
  BY DEF Inputs, Stores
<1>3. /\ store_buffer \in Seq(S) /\ (dmem = None \/ dmem \in S)
      /\ mem \in [Addr -> Word]
  BY DEF FillInv, StoreType, Request
<1>4. IssueStores(wait, store) /\ Memory(wait, rdv, cycles)
  BY DEF Clock
<1>5. mem' \in [Addr -> Word]
  BY <1>1, <1>3, <1>4 DEF Memory
<1> HIDE DEF S
<1>6. store_buffer # <<>> => Head(store_buffer) \in S /\ Tail(store_buffer) \in Seq(S)
  BY <1>3
<1>7. dmem' = None \/ dmem' \in S
  BY <1>3, <1>4, <1>6 DEF IssueStores
<1>8. store_buffer' \in Seq(S)
  <2>1. PICK sb \in Seq(S) : store_buffer' = IF store = None THEN sb ELSE Append(sb, store)
    BY <1>3, <1>4, <1>6 DEF IssueStores
  <2> QED
    BY <1>2, <2>1
<1> QED
  BY <1>5, <1>7, <1>8 DEF StoreType, Request, S

LEMMA FillStep ==
  ASSUME IInv, FillInv,
         NEW wait, NEW rdv, NEW cycles, NEW way, NEW jump, NEW synci, NEW store, NEW nm,
         Inputs(wait, rdv, cycles, way, jump, synci, store, nm),
         Clock(wait, rdv, cycles, way, jump, synci, store, nm)
  PROVE  FillInv'
<1> DEFINE restart == restart_pc(jump)
           line == [i \in 1 .. Words |-> mem[(i_pc \div Words) * Words + i - 1]]
           accepted == imem_read /\ ~imem_waitrequest(wait)
<1>1. /\ Fetch(restart, synci, rdv, way)
      /\ burst' = IF accepted THEN line ELSE IF rdv THEN Tail(burst) ELSE burst
      /\ imem_read' = ((Misses /\ synci = None /\ pending_synci = None)
                         \/ (imem_read /\ ~accepted))
  BY DEF Clock, Memory, ReadRequest, SynciArrives
<1>2. line \in Seq(Word) /\ Len(line) = Words
  <2>1. \A i \in 1 .. Words : mem[(i_pc \div Words) * Words + i - 1] \in Word
    BY LineType DEF IInv, FetchType, FillInv, StoreType
  <2>2. Words \in Nat
    BY StageIAssumption
  <2> QED
    BY <2>1, <2>2
<1>3. /\ fill_wi \in 0 .. Words - 1 /\ imem_read \in BOOLEAN /\ burst \in Seq(Word)
      /\ FillInStep /\ rdv \in BOOLEAN /\ (rdv => burst # <<>>)
      /\ Words \in Nat \ {0}
  BY StageIAssumption DEF FillInv, Inputs, Rdvs
<1>4. burst # <<>> => Tail(burst) \in Seq(Word) /\ Len(Tail(burst)) = Len(burst) - 1
  BY <1>3
<1> HIDE DEF restart, line, accepted
<1>5. burst' \in Seq(Word)
  BY <1>1, <1>2, <1>3, <1>4
<1>6. CASE state = "filling"
  <2>1. /\ fill_wi' = IF rdv THEN (fill_wi + 1) % Words ELSE fill_wi
        /\ state' = IF LastWord(rdv) THEN "pre_running" ELSE "filling"
        /\ imem_read' = (imem_read /\ ~accepted)
    BY <1>1, <1>6 DEF Fetch, Filling, Misses
  <2>2. FillInStep'
    <3>1. CASE imem_read
      <4>1. burst = <<>> /\ fill_wi = 0 /\ ~rdv
        BY <1>3, <1>6, <3>1 DEF FillInStep
      <4>2. fill_wi' = 0 /\ state' = "filling"
        BY <2>1, <4>1 DEF LastWord
      <4>3. CASE accepted
        <5>1. ~imem_read' /\ burst' = line
          BY <1>1, <2>1, <4>3
        <5> QED
          BY <1>2, <1>3, <4>2, <5>1 DEF FillInStep
      <4>4. CASE ~accepted
        <5>1. imem_read' /\ burst' = <<>>
          BY <1>1, <2>1, <3>1, <4>1, <4>4
        <5> QED
          BY <4>2, <5>1 DEF FillInStep
      <4> QED
        BY <4>3, <4>4
    <3>2. CASE ~imem_read
      <4>1. Len(burst) = Words - fill_wi /\ ~imem_read' /\ ~accepted
        BY <1>3, <1>6, <2>1, <3>2 DEF FillInStep, accepted
      <4>2. CASE rdv
        <5>1. burst' = Tail(burst) /\ Len(burst') = Words - fill_wi - 1
          BY <1>1, <1>3, <1>4, <4>1, <4>2
        <5>2. CASE fill_wi = Words - 1
          <6>1. Len(burst') = 0
            BY <1>3, <5>1, <5>2
          <6>2. burst' = <<>>
            BY <1>5, <6>1
          <6> QED
            BY <2>1, <4>1, <4>2, <5>2, <6>2 DEF FillInStep, LastWord
        <5>3. CASE fill_wi # Words - 1
          <6>1. (fill_wi + 1) % Words = fill_wi + 1
            BY <1>3, <5>3
          <6> QED
            BY <1>3, <2>1, <4>1, <4>2, <5>1, <5>3, <6>1 DEF FillInStep, LastWord
        <5> QED
          BY <5>2, <5>3
      <4>3. CASE ~rdv
        BY <1>1, <2>1, <4>1, <4>3 DEF FillInStep, LastWord
      <4> QED
        BY <4>2, <4>3
    <3> QED
      BY <1>3, <3>1, <3>2
  <2>3. fill_wi' \in 0 .. Words - 1
    BY <1>3, <2>1
  <2>4. imem_read' \in BOOLEAN
    BY <1>3, <2>1
  <2> QED
    BY <1>5, <2>2, <2>3, <2>4, StoreStep DEF FillInv
<1>7. CASE state # "filling"
  <2>1. ~imem_read /\ burst = <<>> /\ ~rdv /\ burst' = <<>>
    BY <1>1, <1>3, <1>7 DEF FillInStep, accepted
  <2>2. imem_read' = (Misses /\ synci = None /\ pending_synci = None)
    BY <1>1, <2>1
  <2>3. state' = "filling" <=> imem_read'
    BY <1>1, <1>7, <2>2 DEF Fetch, SynciArrives, Misses, Synchronising, Running, Missing,
       Lookup, Invalidate, PreRunning
  <2>4. fill_wi' = IF state' = "filling" THEN 0 ELSE fill_wi
    BY <1>1, <1>7, <2>1 DEF Fetch, SynciArrives, Misses, Synchronising, Running, Missing,
       Lookup, Invalidate, PreRunning
  <2>5. FillInStep'
    BY <2>1, <2>3, <2>4 DEF FillInStep
  <2>6. fill_wi' \in 0 .. Words - 1 /\ imem_read' \in BOOLEAN
    BY <1>3, <2>2, <2>4
  <2> QED
    BY <1>5, <2>5, <2>6, StoreStep DEF FillInv
<1> QED
  BY <1>6, <1>7

LEMMA InitFill == ASSUME Init PROVE FillInv
<1>1. mem \in [Addr -> Word]
  BY DEF Init, Word
<1>2. StoreType
  BY <1>1 DEF Init, StoreType, Request
<1>3. fill_wi \in 0 .. Words - 1 /\ imem_read \in BOOLEAN /\ burst \in Seq(Word)
  <2>1. fill_wi = 0 /\ imem_read = FALSE /\ burst = <<>>
    BY DEF Init
  <2>2. Words \in Nat \ {0}
    BY StageIAssumption
  <2>3. fill_wi \in 0 .. Words - 1
    BY <2>1, <2>2
  <2>4. <<>> \in Seq(Word)
    OBVIOUS
  <2> QED
    BY <2>1, <2>3, <2>4
<1>4. FillInStep
  BY DEF Init, FillInStep
<1> QED
  BY <1>2, <1>3, <1>4 DEF FillInv

LEMMA NextFill == ASSUME IInv, FillInv, Next PROVE FillInv'
<1>1. PICK wait \in Waits, rdv \in Rdvs, jump \in Jumps :
        \E cycles \in Cycles(wait, rdv), way \in FillWays(rdv), synci \in Syncis(jump) :
          \E store \in Stores(synci), nm \in MRestarts(synci) :
            Clock(wait, rdv, cycles, way, jump, synci, store, nm)
  BY DEF Next
<1>2. PICK cycles \in Cycles(wait, rdv), way \in FillWays(rdv), synci \in Syncis(jump) :
        \E store \in Stores(synci), nm \in MRestarts(synci) :
          Clock(wait, rdv, cycles, way, jump, synci, store, nm)
  BY <1>1
<1>3. PICK store \in Stores(synci), nm \in MRestarts(synci) :
        Clock(wait, rdv, cycles, way, jump, synci, store, nm)
  BY <1>2
<1>4. Inputs(wait, rdv, cycles, way, jump, synci, store, nm)
  BY <1>1, <1>2, <1>3 DEF Inputs
<1> QED
  BY <1>3, <1>4, FillStep

LEMMA FillInvHolds == Spec => []FillInv
<1>1. IInv /\ FillInv /\ [Next]_vars => FillInv'
  <2>1. ASSUME FillInv, UNCHANGED vars PROVE FillInv'
    BY <2>1 DEF FillInv, StoreType, Request, FillInStep, vars, fetchVars, memVars
  <2> QED
    BY <2>1, NextFill
<1> QED
  BY InitFill, <1>1, IInvHolds, PTL DEF Spec

(* The read request of stage_I, the burst that answers it and the count of *)
(* words never get out of step, however long the memory waits.             *)
THEOREM FillInStepCorrect == Spec => []FillInStep
<1>1. FillInv => FillInStep
  BY DEF FillInv
<1> QED
  BY <1>1, FillInvHolds, PTL

----------------------------------------------------------------------------
(* Addresses.  The set, the tag and the word within the line determine an  *)
(* address, and the set and the tag its line.                              *)

LEMMA DivMod ==
  ASSUME NEW a \in Nat, NEW n \in Nat \ {0}
  PROVE  /\ a \div n \in Nat
         /\ a % n \in 0 .. n - 1
         /\ a = n * (a \div n) + (a % n)
<1> DEFINE q == a \div n
           r == a % n
<1>1. n > 0
  OBVIOUS
<1>2. q \in Nat /\ r \in 0 .. n - 1
  BY <1>1
<1>3. r = a - n * q
  BY <1>1
<1> HIDE DEF q, r
<1>4. n * q \in Nat
  BY <1>2
<1>5. a = n * q + r
  BY <1>2, <1>3, <1>4
<1> QED
  BY <1>2, <1>5 DEF q, r

LEMMA Times == ASSUME NEW a \in Nat, NEW b \in Nat PROVE a * b \in Nat
  OBVIOUS

LEMMA DivUnique ==
  ASSUME NEW n \in Nat \ {0}, NEW p \in Nat, NEW q \in Nat,
         NEW r \in 0 .. n - 1, NEW t \in 0 .. n - 1, n * p + r = n * q + t
  PROVE  p = q
<1>1. \A x, y \in Nat : x < y => n * x + n <= n * y
  <2>1. \A x, y \in Nat : x + 1 <= y => n * (x + 1) <= n * y
    OBVIOUS
  <2>2. \A x \in Nat : n * (x + 1) = n * x + n
    OBVIOUS
  <2> QED
    BY <2>1, <2>2
<1>2. n * p \in Nat /\ n * q \in Nat
  OBVIOUS
<1>3. ~(p < q) /\ ~(q < p)
  BY <1>1, <1>2
<1> QED
  BY <1>3

LEMMA DivDiv ==
  ASSUME NEW a \in Nat, NEW w \in Nat \ {0}, NEW s \in Nat \ {0}
  PROVE  a \div (w * s) = (a \div w) \div s
<1> DEFINE q == a \div w
           p == q \div s
           r == q % s
           t == a % w
<1>1. w * s \in Nat \ {0}
  OBVIOUS
<1>2. q \in Nat /\ t \in 0 .. w - 1 /\ a = w * q + t
  BY DivMod
<1> HIDE DEF q, t
<1>3. p \in Nat /\ r \in 0 .. s - 1 /\ q = s * p + r
  BY <1>2, DivMod
<1> HIDE DEF p, r
<1>4. w * (s * p + r) = (w * s) * p + w * r
  BY <1>3
<1>5. w * r \in Nat /\ w * r + w <= w * s
  <2>1. r \in Nat /\ r + 1 <= s
    BY <1>3
  <2>2. \A x, y \in Nat : x <= y => w * x <= w * y
    OBVIOUS
  <2>3. w * (r + 1) <= w * s
    BY <2>1, <2>2
  <2>4. w * (r + 1) = w * r + w
    BY <2>1
  <2>5. w * r \in Nat /\ w * s \in Nat
    BY <2>1, <1>1, Times
  <2> QED
    BY <2>3, <2>4, <2>5
<1>6. w * r + t \in 0 .. (w * s) - 1
  BY <1>1, <1>2, <1>5
<1>7. a = (w * s) * p + (w * r + t)
  <2>1. (w * s) * p \in Nat
    BY <1>1, <1>3, Times
  <2> QED
    BY <1>2, <1>3, <1>4, <1>5, <2>1
<1>8. /\ a \div (w * s) \in Nat /\ a % (w * s) \in 0 .. (w * s) - 1
      /\ a = (w * s) * (a \div (w * s)) + (a % (w * s))
  BY <1>1, DivMod
<1>9. a \div (w * s) = p
  <2> DEFINE n == w * s
             u == w * r + t
             k == a \div n
             v == a % n
  <2>1. /\ n \in Nat \ {0} /\ u \in 0 .. n - 1
        /\ k \in Nat /\ v \in 0 .. n - 1 /\ a = n * k + v
    BY <1>1, <1>6, <1>8
  <2>2. a = n * p + u
    BY <1>7
  <2> HIDE DEF n, u, k, v
  <2>3. n * p + u = n * k + v
    BY <2>1, <2>2
  <2>4. p = k
    BY <1>3, <2>1, <2>3, DivUnique
  <2> QED
    BY <2>4 DEF n, k
<1> QED
  BY <1>9 DEF p, q

LEMMA AddressParts ==
  ASSUME NEW a \in Addr
  PROVE  /\ Wdx(a) \in 0 .. Words - 1
         /\ Csi(a) \in 0 .. Sets - 1
         /\ Chk(a) \in 0 .. Tags - 1
         /\ a = (a \div Words) * Words + Wdx(a)
         /\ a \div Words = Sets * Chk(a) + Csi(a)
<1> DEFINE q == a \div Words
<1>1. a \in Nat /\ Words \in Nat \ {0} /\ Sets \in Nat \ {0}
  BY Constants, StageIAssumption
<1>2. q \in Nat /\ Wdx(a) \in 0 .. Words - 1 /\ a = Words * q + Wdx(a)
  BY <1>1, DivMod DEF Wdx
<1>3. Chk(a) = q \div Sets /\ Csi(a) = q % Sets
  BY <1>1, DivDiv DEF Chk, Csi
<1> HIDE DEF q
<1>4. q = Sets * Chk(a) + Csi(a)
  <2>1. q = Sets * (q \div Sets) + (q % Sets)
    BY <1>1, <1>2, DivMod
  <2> QED
    BY <1>3, <2>1
<1>5. a = q * Words + Wdx(a)
  BY <1>1, <1>2
<1> QED
  BY <1>2, <1>4, <1>5, IndexType, TagType DEF q

LEMMA SameLine ==
  ASSUME NEW a \in Addr, NEW b \in Addr
  PROVE  a \in LineOf(b) <=> Csi(a) = Csi(b) /\ Chk(a) = Chk(b)
<1>1. ASSUME a \in LineOf(b) PROVE Csi(a) = Csi(b) /\ Chk(a) = Chk(b)
  <2>1. a \div Words = b \div Words
    BY <1>1 DEF LineOf
  <2>2. a \in Nat /\ b \in Nat /\ Words \in Nat \ {0} /\ Sets \in Nat \ {0}
    BY Constants, StageIAssumption
  <2>3. Chk(a) = (a \div Words) \div Sets /\ Chk(b) = (b \div Words) \div Sets
    BY <2>2, DivDiv DEF Chk
  <2> QED
    BY <2>1, <2>3 DEF Csi
<1>2. ASSUME Csi(a) = Csi(b), Chk(a) = Chk(b) PROVE a \in LineOf(b)
  BY <1>2, AddressParts DEF LineOf
<1> QED
  BY <1>1, <1>2

----------------------------------------------------------------------------
(* The newest version of a word: the last store of the queue that writes   *)
(* it, else the store on the port, else what the memory holds.             *)
NewestOf(s, d, m, a) ==
  LET queued == {i \in DOMAIN s : s[i][1] = a}
  IN IF queued # {} THEN s[CHOOSE i \in queued : \A j \in queued : j <= i]
     ELSE IF d # None /\ d[1] = a THEN d
     ELSE m[a]

Requests == Stored \X {0, 1}

IsLast(s, a, i) == i \in DOMAIN s /\ s[i][1] = a /\ \A j \in DOMAIN s : s[j][1] = a => j <= i

Unwritten(s, a) == \A j \in DOMAIN s : s[j][1] # a

LEMMA NatOrder ==
  \E R : /\ IsWellFoundedOn(R, Nat)
         /\ \A s, t \in Nat : t < s => <<t, s>> \in R
<1> DEFINE R == OpToRel(<, Nat)
<1>1. IsWellFoundedOn(R, Nat)
  BY NatLessThanWellFounded, Zenon
<1>2. \A s, t \in Nat : t < s => <<t, s>> \in R
  BY Zenon DEF OpToRel
<1> HIDE DEF R
<1> QED
  BY <1>1, <1>2, Zenon

LEMMA Greatest ==
  ASSUME NEW n \in Nat, NEW S \in SUBSET (1 .. n), S # {}
  PROVE  \E s \in S : \A t \in S : t <= s
<1> DEFINE T == {n - s : s \in S}
<1>1. PICK R : /\ IsWellFoundedOn(R, Nat)
               /\ \A s, t \in Nat : t < s => <<t, s>> \in R
  BY NatOrder, Zenon
<1>2. T \subseteq Nat /\ T # {}
  <2>1. \A s \in S : n - s \in Nat
    OBVIOUS
  <2> QED
    BY <2>1
<1>3. \A s \in S : n - s \in T
  OBVIOUS
<1>4. \A x \in T : \E s \in S : x = n - s
  OBVIOUS
<1> HIDE DEF T
<1>5. PICK x \in T : \A y \in T : ~ (<<y, x>> \in R)
  BY <1>1, <1>2, WFMin, Zenon
<1>6. PICK s \in S : x = n - s
  BY <1>4
<1>7. ASSUME NEW t \in S PROVE t <= s
  <2>1. n - t \in T /\ n - t \in Nat /\ n - s \in Nat
    BY <1>3
  <2>2. ~ (n - t < n - s)
    BY <1>1, <1>5, <1>6, <2>1
  <2> QED
    BY <2>2
<1> QED
  BY <1>7

LEMMA NewestLast ==
  ASSUME NEW s \in Seq(Requests), NEW d, NEW m, NEW a, NEW i, IsLast(s, a, i)
  PROVE  NewestOf(s, d, m, a) = s[i]
<1> DEFINE queued == {k \in DOMAIN s : s[k][1] = a}
           Last(k) == \A j \in queued : j <= k
<1>1. i \in queued /\ Last(i) /\ queued \subseteq Nat
  BY DEF IsLast
<1>2. \A k \in queued : Last(k) => k = i
  <2> SUFFICES ASSUME NEW k \in queued, Last(k) PROVE k = i
    OBVIOUS
  <2>1. i <= k /\ k <= i /\ i \in Nat /\ k \in Nat
    BY <1>1
  <2> QED
    BY <2>1
<1> HIDE DEF queued, Last
<1>3. (CHOOSE k \in queued : Last(k)) = i
  BY <1>1, <1>2
<1> QED
  BY <1>1, <1>3 DEF NewestOf, queued, Last

LEMMA NewestUnwritten ==
  ASSUME NEW s, NEW d, NEW m, NEW a, Unwritten(s, a)
  PROVE  NewestOf(s, d, m, a) = IF d # None /\ d[1] = a THEN d ELSE m[a]
BY DEF NewestOf, Unwritten

LEMMA LastExists ==
  ASSUME NEW s \in Seq(Requests), NEW a, ~Unwritten(s, a)
  PROVE  \E i : IsLast(s, a, i)
<1> DEFINE queued == {k \in DOMAIN s : s[k][1] = a}
<1>1. Len(s) \in Nat /\ queued \in SUBSET (1 .. Len(s)) /\ queued # {}
  BY DEF Unwritten
<1> HIDE DEF queued
<1>2. \E i \in queued : \A j \in queued : j <= i
  BY <1>1, Greatest
<1> QED
  BY <1>2 DEF queued, IsLast

LEMMA NewestAppend ==
  ASSUME NEW s \in Seq(Requests), NEW d, NEW m, NEW a, NEW r \in Requests
  PROVE  NewestOf(Append(s, r), d, m, a) = IF r[1] = a THEN r ELSE NewestOf(s, d, m, a)
<1> DEFINE t == Append(s, r)
           n == Len(s)
<1>1. /\ t \in Seq(Requests) /\ DOMAIN t = 1 .. n + 1 /\ n \in Nat /\ DOMAIN s = 1 .. n
      /\ t[n + 1] = r /\ \A i \in 1 .. n : t[i] = s[i]
  OBVIOUS
<1> HIDE DEF t, n
<1>2. CASE r[1] = a
  <2>1. IsLast(t, a, n + 1)
    BY <1>1, <1>2 DEF IsLast
  <2>2. NewestOf(t, d, m, a) = t[n + 1]
    BY <1>1, <2>1, NewestLast
  <2> QED
    BY <1>1, <1>2, <2>2 DEF t
<1>3. CASE r[1] # a /\ ~Unwritten(s, a)
  <2>1. PICK i : IsLast(s, a, i)
    BY <1>3, LastExists
  <2>2. NewestOf(s, d, m, a) = s[i]
    BY <2>1, NewestLast
  <2>3. IsLast(t, a, i) /\ t[i] = s[i]
    BY <1>1, <1>3, <2>1 DEF IsLast
  <2>4. NewestOf(t, d, m, a) = t[i]
    BY <1>1, <2>3, NewestLast
  <2> QED
    BY <1>3, <2>2, <2>3, <2>4 DEF t
<1>4. CASE r[1] # a /\ Unwritten(s, a)
  <2>1. Unwritten(t, a)
    BY <1>1, <1>4 DEF Unwritten
  <2>2. /\ NewestOf(t, d, m, a) = IF d # None /\ d[1] = a THEN d ELSE m[a]
        /\ NewestOf(s, d, m, a) = IF d # None /\ d[1] = a THEN d ELSE m[a]
    BY <1>4, <2>1, NewestUnwritten
  <2> QED
    BY <1>4, <2>2 DEF t
<1> QED
  BY <1>2, <1>3, <1>4

(* The next store goes on the port as the one there is written.            *)
LEMMA NewestIssue ==
  ASSUME NEW s \in Seq(Requests), s # <<>>, NEW d, d = None \/ d[1] \in Addr,
         NEW m \in [Addr -> Word], NEW a \in Addr
  PROVE  NewestOf(Tail(s), Head(s), IF d # None THEN [m EXCEPT ![d[1]] = d] ELSE m, a)
           = NewestOf(s, d, m, a)
<1> DEFINE t == Tail(s)
           h == Head(s)
           n == Len(t)
           m2 == IF d # None THEN [m EXCEPT ![d[1]] = d] ELSE m
<1>1. /\ t \in Seq(Requests) /\ DOMAIN t = 1 .. n /\ n \in Nat /\ DOMAIN s = 1 .. n + 1
      /\ s[1] = h /\ \A i \in 1 .. n : t[i] = s[i + 1]
      /\ h \in Requests
  OBVIOUS
<1>2. m2[a] = IF d # None /\ d[1] = a THEN d ELSE m[a]
  OBVIOUS
<1>3. None \notin Requests
  <2>1. Stored \subseteq Nat /\ None \notin Nat \X {0, 1}
    BY StageIAssumption, Constants
  <2>2. Stored \X {0, 1} \subseteq Nat \X {0, 1}
    BY <2>1
  <2> QED
    BY <2>1, <2>2 DEF Requests
<1>4. ASSUME NEW j \in DOMAIN s, j # 1
      PROVE  j - 1 \in DOMAIN t /\ t[j - 1] = s[j]
  <2>1. j - 1 \in 1 .. n /\ (j - 1) + 1 = j
    BY <1>1, <1>4
  <2> QED
    BY <1>1, <2>1
<1> HIDE DEF t, h, n, m2
<1>5. CASE ~Unwritten(t, a)
  <2>1. PICK i : IsLast(t, a, i)
    BY <1>1, <1>5, LastExists
  <2>2. NewestOf(t, h, m2, a) = t[i]
    BY <1>1, <2>1, NewestLast
  <2>3. i \in 1 .. n /\ t[i][1] = a /\ \A j \in 1 .. n : t[j][1] = a => j <= i
    BY <1>1, <2>1 DEF IsLast
  <2>4. i + 1 \in DOMAIN s /\ s[i + 1] = t[i]
    BY <1>1, <2>3
  <2>5. ASSUME NEW j \in DOMAIN s, s[j][1] = a PROVE j <= i + 1
    <3>1. j = 1 => j <= i + 1
      BY <1>1, <2>3
    <3>2. CASE j # 1
      <4>1. j - 1 \in 1 .. n /\ t[j - 1][1] = a
        BY <1>1, <1>4, <2>5, <3>2
      <4>2. j - 1 <= i
        BY <2>3, <4>1
      <4> QED
        BY <1>1, <2>3, <4>2
    <3> QED
      BY <3>1, <3>2
  <2>6. IsLast(s, a, i + 1)
    BY <2>3, <2>4, <2>5 DEF IsLast
  <2>7. NewestOf(s, d, m, a) = s[i + 1]
    BY <2>6, NewestLast
  <2> QED
    BY <2>2, <2>4, <2>7 DEF t, h, m2
<1>6. CASE Unwritten(t, a)
  <2>1. NewestOf(t, h, m2, a) = IF h[1] = a THEN h ELSE m2[a]
    BY <1>1, <1>3, <1>6, NewestUnwritten
  <2>2. ASSUME NEW j \in DOMAIN s, j # 1 PROVE s[j][1] # a
    BY <1>4, <1>6, <2>2 DEF Unwritten
  <2>3. CASE h[1] = a
    <3>1. IsLast(s, a, 1)
      BY <1>1, <2>2, <2>3 DEF IsLast
    <3>2. NewestOf(s, d, m, a) = s[1]
      BY <3>1, NewestLast
    <3> QED
      BY <1>1, <2>1, <2>3, <3>2 DEF t, h, m2
  <2>4. CASE h[1] # a
    <3>1. Unwritten(s, a)
      BY <1>1, <2>2, <2>4 DEF Unwritten
    <3>2. NewestOf(s, d, m, a) = IF d # None /\ d[1] = a THEN d ELSE m[a]
      BY <3>1, NewestUnwritten
    <3> QED
      BY <1>2, <2>1, <2>4, <3>2 DEF t, h, m2
  <2> QED
    BY <2>3, <2>4
<1> QED
  BY <1>5, <1>6

LEMMA NewestIsOf == \A a \in Addr : Newest(a) = NewestOf(store_buffer, dmem, mem, a)
BY DEF Newest, NewestOf

LEMMA NewestType ==
  ASSUME StoreType, NEW a \in Addr
  PROVE  Newest(a) \in Word
<1>1. /\ store_buffer \in Seq(Requests) /\ Requests \subseteq Word
      /\ dmem # None => dmem \in Word
      /\ mem[a] \in Word
  BY StageIAssumption DEF StoreType, Request, Requests, Word
<1>2. Newest(a) = NewestOf(store_buffer, dmem, mem, a)
  BY NewestIsOf
<1>3. CASE Unwritten(store_buffer, a)
  BY <1>1, <1>2, <1>3, NewestUnwritten
<1>4. CASE ~Unwritten(store_buffer, a)
  <2>1. PICK i : IsLast(store_buffer, a, i)
    BY <1>1, <1>4, LastExists
  <2>2. NewestOf(store_buffer, dmem, mem, a) = store_buffer[i]
    BY <1>1, <2>1, NewestLast
  <2>3. i \in DOMAIN store_buffer
    BY <2>1 DEF IsLast
  <2> QED
    BY <1>1, <1>2, <2>2, <2>3
<1> QED
  BY <1>3, <1>4

(* Only a store of the program changes the newest version of a word.       *)
LEMMA NewestStep ==
  ASSUME StoreType,
         NEW wait, NEW rdv, NEW cycles, NEW way, NEW jump, NEW synci, NEW store, NEW nm,
         Inputs(wait, rdv, cycles, way, jump, synci, store, nm),
         Clock(wait, rdv, cycles, way, jump, synci, store, nm),
         NEW a \in Addr
  PROVE  Newest(a)' = IF store # None /\ store[1] = a THEN store ELSE Newest(a)
<1> DEFINE sb == IF wait \/ store_buffer = <<>> THEN store_buffer ELSE Tail(store_buffer)
<1>1. /\ dmem' = IF wait THEN dmem
                 ELSE IF store_buffer = <<>> THEN None ELSE Head(store_buffer)
      /\ store_buffer' = IF store = None THEN sb ELSE Append(sb, store)
      /\ mem' = IF dmem # None /\ ~wait THEN [mem EXCEPT ![dmem[1]] = dmem] ELSE mem
  BY DEF Clock, IssueStores, Memory
<1>2. /\ store_buffer \in Seq(Requests) /\ mem \in [Addr -> Word]
      /\ dmem = None \/ dmem[1] \in Addr
      /\ store = None \/ store \in Requests
      /\ sb \in Seq(Requests)
      /\ Newest(a) = NewestOf(store_buffer, dmem, mem, a)
      /\ Newest(a)' = NewestOf(store_buffer', dmem', mem', a)
  <2>1. store_buffer \in Seq(Requests) /\ mem \in [Addr -> Word]
    BY DEF StoreType, Requests
  <2>2. dmem = None \/ dmem[1] \in Addr
    BY StageIAssumption DEF StoreType, Request
  <2>3. store = None \/ store \in Requests
    BY DEF Inputs, Stores, Requests
  <2>4. sb \in Seq(Requests)
    BY <2>1
  <2>5. /\ Newest(a) = NewestOf(store_buffer, dmem, mem, a)
        /\ Newest(a)' = NewestOf(store_buffer', dmem', mem', a)
    BY DEF Newest, NewestOf
  <2> QED
    BY <2>1, <2>2, <2>3, <2>4, <2>5
<1> HIDE DEF sb
<1>3. NewestOf(sb, dmem', mem', a) = NewestOf(store_buffer, dmem, mem, a)
  <2>1. CASE wait
    BY <1>1, <2>1 DEF sb
  <2>2. CASE ~wait /\ store_buffer # <<>>
    <3> DEFINE m2 == IF dmem # None THEN [mem EXCEPT ![dmem[1]] = dmem] ELSE mem
    <3>1. mem' = m2 /\ dmem' = Head(store_buffer) /\ sb = Tail(store_buffer)
      BY <1>1, <2>2 DEF sb
    <3>2. NewestOf(Tail(store_buffer), Head(store_buffer), m2, a)
            = NewestOf(store_buffer, dmem, mem, a)
      BY <1>2, <2>2, NewestIssue
    <3> QED
      BY <3>1, <3>2
  <2>3. CASE ~wait /\ store_buffer = <<>>
    <3>1. sb = <<>> /\ dmem' = None /\ Unwritten(<<>>, a)
      BY <1>1, <2>3 DEF sb, Unwritten
    <3>2. NewestOf(sb, dmem', mem', a) = mem'[a]
      BY <3>1, NewestUnwritten
    <3>3. NewestOf(store_buffer, dmem, mem, a)
            = IF dmem # None /\ dmem[1] = a THEN dmem ELSE mem[a]
      BY <2>3, <3>1, NewestUnwritten
    <3>4. mem'[a] = IF dmem # None /\ dmem[1] = a THEN dmem ELSE mem[a]
      BY <1>1, <1>2, <2>3
    <3> QED
      BY <3>2, <3>3, <3>4
  <2> QED
    BY <2>1, <2>2, <2>3
<1>4. CASE store = None
  BY <1>1, <1>2, <1>3, <1>4
<1>5. CASE store # None
  <2>1. store_buffer' = Append(sb, store) /\ store \in Requests
    BY <1>1, <1>2, <1>5
  <2>2. NewestOf(Append(sb, store), dmem', mem', a)
          = IF store[1] = a THEN store ELSE NewestOf(sb, dmem', mem', a)
    BY <1>2, <2>1, NewestAppend
  <2> QED
    BY <1>2, <1>3, <1>5, <2>1, <2>2
<1> QED
  BY <1>4, <1>5

----------------------------------------------------------------------------
(* The types of the memories and of the history, which the other types and *)
(* the invariant above leave out of TypeOK.                                *)
MemoryType ==
  /\ tag_ram \in [Ways -> [0 .. Sets - 1 -> Tag]]
  /\ ic_ram \in [Ways -> [0 .. Sets - 1 -> [0 .. Words - 1 -> Word]]]
  /\ tag_q \in [Ways -> Tag] /\ ic_q \in [Ways -> Word]
  /\ tag_write = None \/ tag_write \in [ena : SUBSET Ways, csi : 0 .. Sets - 1, data : Tag]
  /\ Len(store_buffer) <= SbSize
  /\ busy \in 0 .. BusyCycles
  /\ window \in 0 .. 3
  /\ visible \in [Addr -> SUBSET Word] /\ expected \in Addr

LEMMA TypeOKParts == IInv /\ FillInv /\ MemoryType => TypeOK
<1> SUFFICES ASSUME IInv, FillInv, MemoryType PROVE TypeOK
  OBVIOUS
<1>1. Len(burst) <= Words
  <2>1. fill_wi \in Nat /\ Words \in Nat
    BY StageIAssumption DEF FillInv
  <2>2. burst = <<>> \/ Len(burst) = Words - fill_wi
    BY DEF FillInv, FillInStep
  <2>3. burst = <<>> => Len(burst) = 0
    OBVIOUS
  <2> QED
    BY <2>1, <2>2, <2>3
<1> QED
  BY <1>1 DEF IInv, FetchType, FillInv, StoreType, MemoryType, TypeOK

LEMMA TagTypes ==
  ASSUME NEW a \in Addr
  PROVE  Csi(a) \in 0 .. Sets - 1 /\ Wdx(a) \in 0 .. Words - 1 /\ Chk(a) \in Tag
<1>1. Tags \in Nat
  BY StageIAssumption
<1> QED
  BY <1>1, AddressParts DEF Tag

LEMMA MemoryTypeStep ==
  ASSUME IInv, FillInv, MemoryType,
         NEW wait, NEW rdv, NEW cycles, NEW way, NEW jump, NEW synci, NEW store, NEW nm,
         Inputs(wait, rdv, cycles, way, jump, synci, store, nm),
         Clock(wait, rdv, cycles, way, jump, synci, store, nm)
  PROVE  MemoryType'
<1> DEFINE restart == restart_pc(jump)
           f == Fetchaddress(restart)
<1>1. /\ tag_illegal \in Tag /\ 0 \in Addr /\ <<0, 0>> \in Word
      /\ BusyCycles \in Nat /\ SbSize \in Nat \ {0}
  BY Constants, StageIAssumption DEF tag_illegal, Tag, Word
<1>2. f \in Addr /\ (restart = None \/ restart \in Addr) /\ FetchType
  BY Wires DEF IInv, Inputs
<1>3. Csi(f) \in 0 .. Sets - 1 /\ Wdx(f) \in 0 .. Words - 1
  BY <1>2, TagTypes
<1>4. /\ tag_write' = TagWrite(rdv)
      /\ tag_ram' = [w \in Ways |-> [s \in 0 .. Sets - 1 |->
           IF tag_write # None /\ w \in tag_write.ena /\ s = tag_write.csi
             THEN tag_write.data ELSE tag_ram[w][s]]]
      /\ tag_q' = [w \in Ways |-> IF Looked THEN tag_ram[w][Csi(f)] ELSE tag_illegal]
      /\ ic_ram' = IF state = "filling" /\ rdv
                     THEN [ic_ram EXCEPT ![fill_set][Csi(i_pc)][fill_wi] = Head(burst)]
                     ELSE ic_ram
      /\ ic_q' = [w \in Ways |-> IF i2_valid' THEN ic_ram[w][Csi(f)][Wdx(f)] ELSE <<0, 0>>]
  BY DEF Clock, TagRam
<1> HIDE DEF f, restart
<1>5. tag_ram' \in [Ways -> [0 .. Sets - 1 -> Tag]]
  BY <1>4 DEF MemoryType
<1>6. tag_q' \in [Ways -> Tag]
  <2>1. \A w \in Ways : tag_ram[w][Csi(f)] \in Tag
    BY <1>3 DEF MemoryType
  <2> QED
    BY <1>1, <1>4, <2>1
<1>14. ic_q' \in [Ways -> Word]
  <2>1. \A w \in Ways : ic_ram[w] \in [0 .. Sets - 1 -> [0 .. Words - 1 -> Word]]
    BY DEF MemoryType
  <2>2. \A w \in Ways : ic_ram[w][Csi(f)][Wdx(f)] \in Word
    BY <1>3, <2>1
  <2> QED
    BY <1>1, <1>4, <2>2
<1>7. ic_ram' \in [Ways -> [0 .. Sets - 1 -> [0 .. Words - 1 -> Word]]]
  <2>1. CASE state = "filling" /\ rdv
    <3>1. burst # <<>> /\ burst \in Seq(Word)
      BY <2>1 DEF Inputs, Rdvs, FillInv
    <3>2. Head(burst) \in Word
      BY <3>1
    <3> QED
      BY <1>4, <2>1, <3>2 DEF MemoryType
  <2>2. CASE ~(state = "filling" /\ rdv)
    BY <1>4, <2>2 DEF MemoryType
  <2> QED
    BY <2>1, <2>2
<1>8. tag_write' = None \/ tag_write' \in [ena : SUBSET Ways, csi : 0 .. Sets - 1, data : Tag]
  <2>1. CASE state = "invalidate"
    <3>1. pending_synci.a \in Addr
      BY <1>2, <2>1, Present DEF FetchType
    <3>2. Csi(pending_synci.a) \in 0 .. Sets - 1 /\ hits_2 \in SUBSET Ways
      BY <3>1, TagTypes DEF hits_2
    <3> QED
      BY <1>1, <1>4, <2>1, <3>2 DEF TagWrite
  <2>2. CASE state = "filling" /\ LastWord(rdv)
    <3>1. Csi(i_pc) \in 0 .. Sets - 1 /\ Chk(i_pc) \in Tag /\ {fill_set} \in SUBSET Ways
      BY <1>2, TagTypes DEF FetchType
    <3>2. tag_write' = [ena |-> {fill_set}, csi |-> Csi(i_pc), data |-> Chk(i_pc)]
      BY <1>4, <2>2 DEF TagWrite
    <3> QED
      BY <3>1, <3>2
  <2> QED
    BY <1>4, <2>1, <2>2 DEF TagWrite
<1>9. Len(store_buffer') <= SbSize
  <2> DEFINE sb == IF wait \/ store_buffer = <<>> THEN store_buffer ELSE Tail(store_buffer)
  <2>1. store_buffer' = IF store = None THEN sb ELSE Append(sb, store)
    BY DEF Clock, IssueStores
  <2>2. store_buffer \in Seq(Stored \X {0, 1}) /\ Len(store_buffer) <= SbSize
    BY DEF FillInv, StoreType, MemoryType
  <2>3. sb \in Seq(Stored \X {0, 1}) /\ Len(sb) <= Len(store_buffer)
    BY <2>2
  <2>4. store # None => store \in Stored \X {0, 1} /\ Len(store_buffer) < SbSize
    BY DEF Inputs, Stores
  <2> HIDE DEF sb
  <2>5. store # None => Len(Append(sb, store)) = Len(sb) + 1
    BY <2>3, <2>4
  <2> QED
    BY <1>1, <2>1, <2>2, <2>3, <2>4, <2>5
<1>10. busy' \in 0 .. BusyCycles
  <2>1. cycles \in 0 .. BusyCycles
    BY <1>1 DEF Inputs, Cycles
  <2>2. busy \in 0 .. BusyCycles
    BY DEF MemoryType
  <2>3. busy' \in {cycles, busy - 1, 0} /\ (busy' = busy - 1 => busy > 0 \/ busy' = cycles)
    BY <2>2 DEF Clock, Memory
  <2> QED
    BY <1>1, <2>1, <2>2, <2>3
<1>11. window' \in 0 .. 3
  BY DEF Clock, Behind, MemoryType
<1>12. expected' \in Addr
  <2>1. expected' = IF restart # None THEN restart
                    ELSE IF i_valid THEN Succ(i_pc) ELSE expected
    BY DEF Clock, Behind, restart
  <2>2. Succ(i_pc) \in Addr /\ expected \in Addr
    BY <1>2, SuccType DEF FetchType, MemoryType
  <2> QED
    BY <1>2, <2>1, <2>2
<1>13. visible' \in [Addr -> SUBSET Word]
  <2>1. \A a \in Addr : Newest(a) \in Word
    BY NewestType DEF FillInv
  <2>2. store = None \/ store \in Word
    BY StageIAssumption DEF Inputs, Stores, Word
  <2>3. visible' = [a \in Addr |->
          IF Effective(synci) /\ a \in LineOf(synci) THEN {Newest(a)}
          ELSE IF store # None /\ store[1] = a THEN visible[a] \cup {store}
          ELSE visible[a]]
    BY DEF Clock, Visible
  <2>4. visible \in [Addr -> SUBSET Word]
    BY DEF MemoryType
  <2> QED
    BY <2>1, <2>2, <2>3, <2>4
<1> QED
  BY <1>5, <1>6, <1>7, <1>8, <1>9, <1>10, <1>11, <1>12, <1>13, <1>14 DEF MemoryType

LEMMA InitMemoryType == ASSUME Init PROVE MemoryType
<1>1. /\ tag_illegal \in Tag /\ 0 \in Addr /\ <<0, 0>> \in Word
      /\ BusyCycles \in Nat /\ SbSize \in Nat /\ Len(<<>>) = 0
  BY Constants, StageIAssumption DEF tag_illegal, Tag, Word
<1>2. \A a \in Addr : <<a, 0>> \in Word
  BY DEF Word
<1>3. tag_ram \in [Ways -> [0 .. Sets - 1 -> Tag]] /\ tag_q \in [Ways -> Tag]
  BY <1>1 DEF Init
<1>4. /\ ic_ram \in [Ways -> [0 .. Sets - 1 -> [0 .. Words - 1 -> Word]]]
      /\ ic_q \in [Ways -> Word]
  BY <1>1 DEF Init
<1>5. Len(store_buffer) <= SbSize /\ busy \in 0 .. BusyCycles /\ window \in 0 .. 3
  BY <1>1 DEF Init
<1>6. visible \in [Addr -> SUBSET Word] /\ expected \in Addr
  BY <1>1, <1>2 DEF Init
<1> QED
  BY <1>3, <1>4, <1>5, <1>6 DEF Init, MemoryType

LEMMA NextInputs ==
  ASSUME Next
  PROVE  \E wait, rdv, cycles, way, jump, synci, store, nm :
           /\ Inputs(wait, rdv, cycles, way, jump, synci, store, nm)
           /\ Clock(wait, rdv, cycles, way, jump, synci, store, nm)
<1>1. PICK wait \in Waits, rdv \in Rdvs, jump \in Jumps :
        \E cycles \in Cycles(wait, rdv), way \in FillWays(rdv), synci \in Syncis(jump) :
          \E store \in Stores(synci), nm \in MRestarts(synci) :
            Clock(wait, rdv, cycles, way, jump, synci, store, nm)
  BY DEF Next
<1>2. PICK cycles \in Cycles(wait, rdv), way \in FillWays(rdv), synci \in Syncis(jump) :
        \E store \in Stores(synci), nm \in MRestarts(synci) :
          Clock(wait, rdv, cycles, way, jump, synci, store, nm)
  BY <1>1
<1>3. PICK store \in Stores(synci), nm \in MRestarts(synci) :
        Clock(wait, rdv, cycles, way, jump, synci, store, nm)
  BY <1>2
<1>4. Inputs(wait, rdv, cycles, way, jump, synci, store, nm)
  BY <1>1, <1>2, <1>3 DEF Inputs
<1> QED
  BY <1>3, <1>4

LEMMA NextMemoryType == ASSUME IInv, FillInv, MemoryType, [Next]_vars PROVE MemoryType'
<1>1. CASE Next
  <2>1. PICK wait, rdv, cycles, way, jump, synci, store, nm :
          /\ Inputs(wait, rdv, cycles, way, jump, synci, store, nm)
          /\ Clock(wait, rdv, cycles, way, jump, synci, store, nm)
    BY <1>1, NextInputs
  <2> QED
    BY <2>1, MemoryTypeStep
<1>2. CASE UNCHANGED vars
  BY <1>2 DEF MemoryType, vars, fetchVars, cacheVars, memVars
<1> QED
  BY <1>1, <1>2

LEMMA MemoryTypeHolds == Spec => []MemoryType
<1>1. IInv /\ FillInv /\ MemoryType /\ [Next]_vars => MemoryType'
  BY NextMemoryType
<1> QED
  BY InitMemoryType, <1>1, IInvHolds, FillInvHolds, PTL DEF Spec

(* Every register of stage_I, the queue of stores and the history keep     *)
(* their types, whatever the stages behind IF and the memory do.           *)
THEOREM TypeCorrect == Spec => []TypeOK
BY TypeOKParts, IInvHolds, FillInvHolds, MemoryTypeHolds, PTL

----------------------------------------------------------------------------
(* What the cache, a fill and the memory hold may be fetched, or is of the *)
(* line that the pending SYNCI will make invalid.                          *)
Exempt(a) ==
  /\ pending_synci # None /\ m_restart = None
  /\ a \in LineOf(pending_synci.a)
  /\ state = "lookup" => i_npc = pending_synci.a
  /\ state = "invalidate" =>
       /\ i_pc = pending_synci.a
       /\ \A w \in Ways : tag_q[w] = tag_ram[w][Csi(pending_synci.a)]

Good(a, x) == x \in visible[a] \/ Exempt(a)

\* The words of the way that is being filled are no longer of its old line.
Replaced(w, s) == state = "filling" /\ w = fill_set /\ s = Csi(i_pc)

(* The newest version of a word may always be fetched.                     *)
NewestVisible == \A a \in Addr : Newest(a) \in visible[a]

(* After a SYNCI the stores before it leave the store buffer before a miss *)
(* can ask for the line, if the memory is not busy for more than 5 cycles. *)
Draining ==
  /\ store_buffer # <<>>
  /\ window = 0
  /\ state = "filling" => pending_synci # None
  /\ state = "lookup" => busy <= 4
  /\ state = "invalidate" => busy <= 3
  /\ state = "pre_running" /\ pending_synci = None => busy <= 2
  /\ state = "running" /\ pending_synci = None => busy <= IF i2_valid THEN 0 ELSE 1

StaleOnlyWhileDraining ==
  \A a \in Addr :
    \/ mem[a] \in visible[a]
    \/ dmem # None
    \/ Draining /\ (pending_synci # None => Exempt(a))

CachedIsGood ==
  \A a \in Addr, w \in Ways :
    Holds(w, Csi(a), Chk(a)) /\ ~Replaced(w, Csi(a)) =>
      Good(a, ic_ram[w][Csi(a)][Wdx(a)])

FilledIsGood ==
  state = "filling" =>
    \A a \in LineOf(i_pc) :
      IF Wdx(a) < fill_wi THEN Good(a, ic_ram[fill_set][Csi(a)][Wdx(a)])
      ELSE ~imem_read => Good(a, burst[Wdx(a) - fill_wi + 1])

ReadIsVisible == i2_valid => \A w \in hits_2 : ic_q[w] \in visible[i_pc]

CodeInv ==
  NewestVisible /\ StaleOnlyWhileDraining /\ CachedIsGood /\ FilledIsGood /\ ReadIsVisible

TypeInv == IInv /\ FillInv /\ MemoryType

(* What accompanies a SYNCI and a pending one.                             *)
LEMMA SynciInputs ==
  ASSUME IInv,
         NEW wait, NEW rdv, NEW cycles, NEW way, NEW jump, NEW synci, NEW store, NEW nm,
         Inputs(wait, rdv, cycles, way, jump, synci, store, nm),
         Clock(wait, rdv, cycles, way, jump, synci, store, nm)
  PROVE  /\ synci # None => /\ synci \in Addr /\ pending_synci = None /\ store = None
                            /\ window > 0
                            /\ state \in {"running", "filling", "pre_running"}
                            /\ pending_synci'.a = synci /\ pending_synci' # None
                            /\ (m_restart = None => m_restart' = None)
         /\ window = 0 => synci = None
         /\ pending_synci # None => window = 0 /\ synci = None
         /\ window = 0 /\ m_restart = None => restart_pc(jump) = None /\ m_restart' = None
         /\ synci = None /\ state # "invalidate" => pending_synci' = pending_synci
         /\ m_restart' = nm
<1>1. FetchType /\ (pending_synci # None => window = 0)
  BY DEF IInv, StreamInv
<1>2. synci # None => synci \in Addr /\ restart_pc(jump) \in Addr /\ window > 0
  BY <1>1, Wires DEF Inputs
<1>3. /\ window = 0 => nm \in {None, m_restart}
      /\ synci # None /\ m_restart = None => nm = None
      /\ m_restart' = nm
  BY <1>1, Wires DEF Inputs, Clock, Behind
<1>4. window = 0 => synci = None
  BY <1>2
<1>5. synci # None => pending_synci = None
  BY <1>1, <1>4
<1>6. synci # None => state \in {"running", "filling", "pre_running"}
  BY <1>1, <1>5, Present DEF FetchType
<1>7. synci # None => pending_synci' = [a |-> synci, pc |-> restart_pc(jump)]
  BY <1>6 DEF Clock, PendingSynci, SynciArrives
<1>8. synci # None => pending_synci' # None
  <2> SUFFICES ASSUME synci # None PROVE [a |-> synci, pc |-> restart_pc(jump)] # None
    BY <1>7
  <2>1. [a |-> synci, pc |-> restart_pc(jump)] \in [a : Nat, pc : Nat]
    BY <1>2, Constants
  <2> QED
    BY <2>1, StageIAssumption
<1>9. window = 0 /\ m_restart = None => restart_pc(jump) = None
  <2> SUFFICES ASSUME window = 0, m_restart = None PROVE jump = None
    BY DEF restart_pc
  <2> QED
    BY DEF Inputs, Jumps
<1>10. synci = None /\ state # "invalidate" => pending_synci' = pending_synci
  BY DEF Clock, PendingSynci, SynciArrives
<1>11. synci # None => store = None
  BY DEF Inputs, Stores
<1>12. synci # None => pending_synci'.a = synci
  BY <1>7
<1> QED
  BY <1>1, <1>2, <1>3, <1>4, <1>5, <1>6, <1>8, <1>9, <1>10, <1>11, <1>12

LEMMA VisibleStep ==
  ASSUME TypeInv, NEW a \in Addr,
         NEW wait, NEW rdv, NEW cycles, NEW way, NEW jump, NEW synci, NEW store, NEW nm,
         Inputs(wait, rdv, cycles, way, jump, synci, store, nm),
         Clock(wait, rdv, cycles, way, jump, synci, store, nm)
  PROVE  IF Effective(synci) /\ a \in LineOf(synci)
           THEN visible'[a] = {Newest(a)}
           ELSE /\ visible'[a] = visible[a] \cup (IF store # None /\ store[1] = a
                                                  THEN {store} ELSE {})
                /\ visible[a] \subseteq visible'[a]
BY DEF Clock, Visible

(* A line that is going to be made invalid is, in the end.                 *)
LEMMA ExemptStep ==
  ASSUME IInv, NEW a \in Addr, Exempt(a), state # "invalidate",
         NEW wait, NEW rdv, NEW cycles, NEW way, NEW jump, NEW synci, NEW store, NEW nm,
         Inputs(wait, rdv, cycles, way, jump, synci, store, nm),
         Clock(wait, rdv, cycles, way, jump, synci, store, nm)
  PROVE  Exempt(a)'
<1> DEFINE restart == restart_pc(jump)
<1>1. /\ pending_synci # None /\ m_restart = None /\ synci = None
      /\ pending_synci' = pending_synci /\ m_restart' = None /\ restart = None
      /\ Fetch(restart, synci, rdv, way)
  BY SynciInputs DEF Exempt, Clock
<1> HIDE DEF restart
<1>2. state' = "lookup" => i_npc' = pending_synci'.a
  BY <1>1 DEF Fetch, Synchronising, Running, Missing, Lookup, Invalidate, Filling,
     PreRunning, SynciArrives
<1>3. ASSUME state' = "invalidate"
      PROVE  /\ i_pc' = pending_synci'.a
             /\ \A w \in Ways : tag_q'[w] = tag_ram'[w][Csi(pending_synci'.a)]
  <2>1. state = "lookup" /\ Lookup
    BY <1>1, <1>3 DEF Fetch, Synchronising, Running, Missing, Lookup, Invalidate, Filling,
       PreRunning, SynciArrives
  <2>2. i_npc = pending_synci.a /\ i_pc' = i_npc /\ i_npc \in Addr
    BY <2>1 DEF Exempt, Lookup, IInv, FetchType
  <2>3. tag_write = None /\ Looked /\ Fetchaddress(restart) = i_npc
    BY <1>1, <1>3, <2>1, Present DEF Looked, Fetchaddress
  <2>4. Csi(i_npc) \in 0 .. Sets - 1
    BY <2>2, IndexType
  <2>5. \A w \in Ways : tag_q'[w] = tag_ram[w][Csi(i_npc)]
    BY <2>3 DEF Clock, TagRam, restart
  <2>6. \A w \in Ways : tag_ram'[w][Csi(i_npc)] = tag_ram[w][Csi(i_npc)]
    BY <2>3, <2>4 DEF Clock, TagRam
  <2> QED
    BY <1>1, <2>2, <2>5, <2>6
<1> QED
  BY <1>1, <1>2, <1>3 DEF Exempt

LEMMA ExemptStarts ==
  ASSUME IInv, NEW a \in Addr,
         NEW wait, NEW rdv, NEW cycles, NEW way, NEW jump, NEW synci, NEW store, NEW nm,
         Inputs(wait, rdv, cycles, way, jump, synci, store, nm),
         Clock(wait, rdv, cycles, way, jump, synci, store, nm),
         Effective(synci), a \in LineOf(synci)
  PROVE  Exempt(a)'
<1>1. /\ synci # None /\ m_restart' = None /\ pending_synci' # None
      /\ pending_synci'.a = synci /\ state \in {"running", "filling", "pre_running"}
      /\ Fetch(restart_pc(jump), synci, rdv, way)
  BY SynciInputs DEF Effective, Clock
<1>2. /\ state' = "lookup" => i_npc' = synci
      /\ state' # "invalidate"
  BY <1>1 DEF Fetch, Synchronising, Filling, PreRunning, SynciArrives
<1>3. a \in LineOf(pending_synci'.a)
  BY <1>1
<1> QED
  BY <1>1, <1>2, <1>3 DEF Exempt, LineOf

LEMMA GoodStep ==
  ASSUME TypeInv, NEW a \in Addr, NEW x, Good(a, x), state # "invalidate",
         NEW wait, NEW rdv, NEW cycles, NEW way, NEW jump, NEW synci, NEW store, NEW nm,
         Inputs(wait, rdv, cycles, way, jump, synci, store, nm),
         Clock(wait, rdv, cycles, way, jump, synci, store, nm)
  PROVE  x \in visible'[a] \/ Exempt(a)'
<1>1. CASE Exempt(a)
  BY <1>1, ExemptStep DEF TypeInv
<1>2. CASE Effective(synci) /\ a \in LineOf(synci)
  BY <1>2, ExemptStarts DEF TypeInv
<1>3. CASE ~Exempt(a) /\ ~(Effective(synci) /\ a \in LineOf(synci))
  <2>1. visible[a] \subseteq visible'[a]
    BY <1>3, VisibleStep
  <2> QED
    BY <1>3, <2>1 DEF Good
<1> QED
  BY <1>1, <1>2, <1>3

LEMMA NewestVisibleStep ==
  ASSUME TypeInv, NewestVisible,
         NEW wait, NEW rdv, NEW cycles, NEW way, NEW jump, NEW synci, NEW store, NEW nm,
         Inputs(wait, rdv, cycles, way, jump, synci, store, nm),
         Clock(wait, rdv, cycles, way, jump, synci, store, nm)
  PROVE  NewestVisible'
<1> SUFFICES ASSUME NEW a \in Addr PROVE Newest(a)' \in visible'[a]
  BY DEF NewestVisible
<1>1. Newest(a)' = IF store # None /\ store[1] = a THEN store ELSE Newest(a)
  BY NewestStep DEF TypeInv, FillInv
<1>2. Newest(a) \in visible[a]
  BY DEF NewestVisible
<1>3. CASE Effective(synci) /\ a \in LineOf(synci)
  <2>1. store = None
    BY <1>3, SynciInputs DEF TypeInv, Effective
  <2>2. visible'[a] = {Newest(a)}
    BY <1>3, VisibleStep
  <2> QED
    BY <1>1, <2>1, <2>2
<1>4. CASE ~(Effective(synci) /\ a \in LineOf(synci))
  <2>1. visible'[a] = visible[a] \cup (IF store # None /\ store[1] = a THEN {store} ELSE {})
    BY <1>4, VisibleStep
  <2> QED
    BY <1>1, <1>2, <2>1
<1> QED
  BY <1>3, <1>4

(* A store waits for no longer than the draining allows.                   *)
LEMMA DrainingStep ==
  ASSUME TypeInv, BusyCycles <= 5, Draining, store_buffer' # <<>>,
         NEW wait, NEW rdv, NEW cycles, NEW way, NEW jump, NEW synci, NEW store, NEW nm,
         Inputs(wait, rdv, cycles, way, jump, synci, store, nm),
         Clock(wait, rdv, cycles, way, jump, synci, store, nm),
         wait # FALSE, dmem = None
  PROVE  Draining'
<1> DEFINE restart == restart_pc(jump)
<1>1. /\ synci = None
      /\ state # "invalidate" => pending_synci' = pending_synci
      /\ Fetch(restart, synci, rdv, way)
  <2>1. Fetch(restart, synci, rdv, way)
    BY DEF Clock
  <2>2. IInv /\ window = 0
    BY DEF TypeInv, Draining
  <2>3. synci = None /\ (state # "invalidate" => pending_synci' = pending_synci)
    BY <2>2, SynciInputs
  <2> QED
    BY <2>1, <2>3
<1>2. /\ busy \in Nat /\ busy <= 5 /\ IInv
      /\ i1_valid \in BOOLEAN /\ i2_valid \in BOOLEAN
      /\ state \in {"running", "lookup", "invalidate", "filling", "pre_running"}
  <2>1. busy \in 0 .. BusyCycles /\ BusyCycles \in Nat
    BY StageIAssumption DEF TypeInv, MemoryType
  <2> QED
    BY <2>1 DEF TypeInv, IInv, FetchType
<1>3. state # "filling" => burst = <<>> /\ ~rdv
  BY DEF TypeInv, FillInv, FillInStep, Inputs, Rdvs
<1>4. state # "filling" => busy > 0 /\ busy' = busy - 1
  <2> SUFFICES ASSUME state # "filling" PROVE busy > 0 /\ busy' = busy - 1
    OBVIOUS
  <2>1. busy > 0
    BY <1>3 DEF Inputs, Waits
  <2>2. busy' = IF busy > 0 THEN busy - 1 ELSE 0
    BY <1>3 DEF Clock, Memory
  <2> QED
    BY <2>1, <2>2
<1>5. ~(state = "running" /\ pending_synci = None /\ i2_valid)
  BY <1>2, <1>4 DEF Draining
<1>6. window' = 0
  <2>1. ~i_valid
    BY <1>2, <1>5, Present DEF Draining, i_valid, IInv, StreamInv
  <2> QED
    BY <2>1 DEF Clock, Behind, Delivered, Draining
<1>7. /\ state = "lookup" => busy <= 4
      /\ state = "invalidate" => busy <= 3
      /\ state = "pre_running" /\ pending_synci = None => busy <= 2
      /\ state = "running" /\ pending_synci = None => busy <= 1
      /\ state = "filling" => pending_synci # None
  BY <1>2 DEF Draining
<1> HIDE DEF restart
<1>8. CASE state = "running" /\ pending_synci # None
  <2>1. state' = "lookup"
    BY <1>1, <1>8 DEF Fetch, SynciArrives, Synchronising
  <2> QED
    BY <1>2, <1>4, <1>6, <1>8, <2>1 DEF Draining
<1>9. CASE state = "running" /\ pending_synci = None
  <2>1. ~i2_valid /\ ~Misses
    BY <1>2, <1>5, <1>9 DEF Misses
  <2>2. Running(restart)
    BY <1>1, <1>9, <2>1 DEF Fetch, SynciArrives
  <2>3. state' = "running"
    BY <1>9, <2>2 DEF Running
  <2>4. busy' <= 0
    BY <1>2, <1>4, <1>7, <1>9
  <2>5. busy' <= IF i2_valid' THEN 0 ELSE 1
    BY <1>2, <1>4, <1>9, <2>4
  <2> QED
    BY <1>6, <2>3, <2>5 DEF Draining
<1>10. CASE state = "lookup"
  <2>1. state' = "invalidate" /\ busy' <= 3
    BY <1>1, <1>2, <1>4, <1>7, <1>10 DEF Fetch, Lookup
  <2> QED
    BY <1>6, <2>1 DEF Draining
<1>11. CASE state = "invalidate"
  <2>1. state' = "pre_running" /\ busy' <= 2
    BY <1>1, <1>2, <1>4, <1>7, <1>11 DEF Fetch, Invalidate
  <2> QED
    BY <1>6, <2>1 DEF Draining
<1>12. CASE state = "filling"
  <2>1. state' \in {"filling", "pre_running"} /\ pending_synci' # None
    BY <1>1, <1>7, <1>12 DEF Fetch, Filling
  <2> QED
    BY <1>6, <2>1 DEF Draining
<1>13. CASE state = "pre_running"
  <2>1. state' = "running" /\ pending_synci' = pending_synci
    BY <1>1, <1>13 DEF Fetch, PreRunning
  <2>2. pending_synci' = None => busy' <= 1
    BY <1>2, <1>4, <1>7, <1>13, <2>1
  <2>3. i2_valid' = i2_valid /\ ~i2_valid
    BY <1>1, <1>2, <1>13, Present DEF Fetch, PreRunning
  <2> QED
    BY <1>6, <2>1, <2>2, <2>3 DEF Draining
<1> QED
  BY <1>2, <1>8, <1>9, <1>10, <1>11, <1>12, <1>13

LEMMA DrainingStarts ==
  ASSUME TypeInv, BusyCycles <= 5, store_buffer' # <<>>,
         NEW wait, NEW rdv, NEW cycles, NEW way, NEW jump, NEW synci, NEW store, NEW nm,
         Inputs(wait, rdv, cycles, way, jump, synci, store, nm),
         Clock(wait, rdv, cycles, way, jump, synci, store, nm),
         wait # FALSE, dmem = None, synci # None
  PROVE  Draining'
<1> DEFINE restart == restart_pc(jump)
<1>1. /\ state \in {"running", "filling", "pre_running"} /\ pending_synci' # None
      /\ Fetch(restart, synci, rdv, way)
  <2>1. Fetch(restart, synci, rdv, way)
    BY DEF Clock
  <2>2. IInv
    BY DEF TypeInv
  <2>3. state \in {"running", "filling", "pre_running"} /\ pending_synci' # None
    BY <2>2, SynciInputs
  <2> QED
    BY <2>1, <2>3
<1>2. window' = 0
  BY DEF Clock, Behind
<1> HIDE DEF restart
<1>3. CASE state = "running"
  <2>1. state' = "lookup"
    BY <1>1, <1>3 DEF Fetch, SynciArrives, Synchronising
  <2>2. burst = <<>> /\ ~rdv
    BY <1>3 DEF TypeInv, FillInv, FillInStep, Inputs, Rdvs
  <2>3. busy > 0
    BY <2>2 DEF Inputs, Waits
  <2>4. busy' = IF busy > 0 THEN busy - 1 ELSE 0
    BY <2>2 DEF Clock, Memory
  <2>5. busy \in 0 .. BusyCycles /\ BusyCycles \in Nat
    BY StageIAssumption DEF TypeInv, MemoryType
  <2>6. busy' <= 4
    BY <2>3, <2>4, <2>5
  <2> QED
    BY <1>2, <2>1, <2>6 DEF Draining
<1>4. CASE state \in {"filling", "pre_running"}
  <2>1. state' \in {"filling", "pre_running", "running"}
    BY <1>1, <1>4 DEF Fetch, Filling, PreRunning
  <2> QED
    BY <1>1, <1>2, <2>1 DEF Draining
<1> QED
  BY <1>1, <1>3, <1>4

LEMMA StaleStep ==
  ASSUME TypeInv, BusyCycles <= 5, NewestVisible, StaleOnlyWhileDraining,
         NEW wait, NEW rdv, NEW cycles, NEW way, NEW jump, NEW synci, NEW store, NEW nm,
         Inputs(wait, rdv, cycles, way, jump, synci, store, nm),
         Clock(wait, rdv, cycles, way, jump, synci, store, nm)
  PROVE  StaleOnlyWhileDraining'
<1> SUFFICES ASSUME NEW a \in Addr, mem'[a] \notin visible'[a], dmem' = None
             PROVE  Draining' /\ (pending_synci' # None => Exempt(a)')
  BY DEF StaleOnlyWhileDraining
<1>1. /\ dmem' = IF wait THEN dmem
                 ELSE IF store_buffer = <<>> THEN None ELSE Head(store_buffer)
      /\ mem' = IF dmem # None /\ ~wait THEN [mem EXCEPT ![dmem[1]] = dmem] ELSE mem
      /\ store_buffer' = LET sb == IF wait \/ store_buffer = <<>> THEN store_buffer
                                                                 ELSE Tail(store_buffer)
                         IN IF store = None THEN sb ELSE Append(sb, store)
  BY DEF Clock, IssueStores, Memory
<1>2. /\ store_buffer \in Seq(Requests) /\ None \notin Requests
      /\ mem \in [Addr -> Word] /\ (dmem = None \/ dmem[1] \in Addr)
      /\ store = None \/ store \in Requests
  <2>1. Stored \subseteq Nat /\ None \notin Nat \X {0, 1}
    BY StageIAssumption, Constants
  <2>2. None \notin Requests
    <3>1. Stored \X {0, 1} \subseteq Nat \X {0, 1}
      BY <2>1
    <3> QED
      BY <2>1, <3>1 DEF Requests
  <2>3. store = None \/ store \in Requests
    BY DEF Inputs, Stores, Requests
  <2>4. dmem = None \/ dmem[1] \in Addr
    BY StageIAssumption DEF TypeInv, FillInv, StoreType, Request
  <2> QED
    BY <2>2, <2>3, <2>4 DEF TypeInv, FillInv, StoreType, Requests
<1>3. Newest(a) \in visible[a] /\ Newest(a) \in visible'[a]
  <2>1. Newest(a) \in visible[a]
    BY DEF NewestVisible
  <2> QED
    BY <2>1, VisibleStep
\* A word with no store on the way is up to date.
<1>4. wait # FALSE /\ dmem = None
  <2>0. wait \in BOOLEAN
    BY DEF Inputs, Waits
  <2>1. ASSUME ~wait PROVE FALSE
    <3>1. store_buffer = <<>>
      <4>1. store_buffer # <<>> => Head(store_buffer) \in Requests
        BY <1>2
      <4> QED
        BY <1>1, <1>2, <2>1, <4>1
    <3>2. Unwritten(store_buffer, a)
      BY <3>1 DEF Unwritten
    <3>3. Newest(a) = IF dmem # None /\ dmem[1] = a THEN dmem ELSE mem[a]
      BY <3>2, NewestUnwritten, NewestIsOf
    <3>4. mem'[a] = IF dmem # None /\ dmem[1] = a THEN dmem ELSE mem[a]
      BY <1>1, <1>2, <2>1
    <3> QED
      BY <1>3, <3>3, <3>4
  <2> QED
    BY <1>1, <2>0, <2>1
<1>5. mem' = mem
  BY <1>1, <1>4
<1>6. store_buffer # <<>>
  <2> SUFFICES ASSUME store_buffer = <<>> PROVE FALSE
    OBVIOUS
  <2>1. Unwritten(store_buffer, a)
    BY DEF Unwritten
  <2>2. Newest(a) = mem[a]
    BY <1>4, <2>1, NewestUnwritten, NewestIsOf
  <2> QED
    BY <1>3, <1>5, <2>2
<1>7. store_buffer' # <<>>
  <2>1. \/ store_buffer' = store_buffer
        \/ store \in Requests /\ store_buffer' = Append(store_buffer, store)
    BY <1>1, <1>2, <1>4
  <2> QED
    BY <1>2, <1>6, <2>1
<1>8. CASE mem[a] \notin visible[a]
  <2>1. Draining /\ (pending_synci # None => Exempt(a))
    BY <1>4, <1>8 DEF StaleOnlyWhileDraining
  <2>2. Draining'
    BY <1>4, <1>7, <2>1, DrainingStep
  <2>3. synci = None
    BY <2>1, SynciInputs DEF Draining, TypeInv
  <2>4. ASSUME pending_synci' # None PROVE Exempt(a)'
    <3>1. state # "invalidate"
      BY <2>4 DEF Clock, PendingSynci
    <3>2. pending_synci # None
      BY <2>3, <2>4, <3>1, SynciInputs DEF TypeInv
    <3> QED
      BY <2>1, <3>1, <3>2, ExemptStep DEF TypeInv
  <2> QED
    BY <2>2, <2>4
<1>9. CASE mem[a] \in visible[a]
  <2>1. Effective(synci) /\ a \in LineOf(synci)
    BY <1>5, <1>9, VisibleStep
  <2>2. Exempt(a)'
    BY <2>1, ExemptStarts DEF TypeInv
  <2>3. Draining'
    BY <1>4, <1>7, <2>1, DrainingStarts DEF Effective
  <2> QED
    BY <2>2, <2>3
<1> QED
  BY <1>8, <1>9

LEMMA TagAfter ==
  ASSUME NEW wait, NEW rdv, NEW cycles, NEW way, NEW jump, NEW synci, NEW store, NEW nm,
         Clock(wait, rdv, cycles, way, jump, synci, store, nm),
         NEW w \in Ways, NEW s \in 0 .. Sets - 1, NEW t
  PROVE  /\ tag_write' = TagWrite(rdv)
         /\ Holds(w, s, t)' = IF tag_write' # None /\ w \in tag_write'.ena /\ s = tag_write'.csi
                                THEN t = tag_write'.data ELSE Holds(w, s, t)
<1>1. tag_ram'[w][s] = IF tag_write # None /\ w \in tag_write.ena /\ s = tag_write.csi
                         THEN tag_write.data ELSE tag_ram[w][s]
  BY DEF Clock, TagRam
<1>2. tag_write' = TagWrite(rdv)
  BY DEF Clock, TagRam
<1>3. (t = tag_ram'[w][s]) = Holds(w, s, t)
  BY <1>1 DEF Holds
<1> QED
  BY <1>2, <1>3 DEF Holds

(* The words of the lines that are not being filled are left alone, and    *)
(* one word of the one that is may be written.                             *)
LEMMA WordsAfter ==
  ASSUME TypeInv,
         NEW wait, NEW rdv, NEW cycles, NEW way, NEW jump, NEW synci, NEW store, NEW nm,
         Inputs(wait, rdv, cycles, way, jump, synci, store, nm),
         Clock(wait, rdv, cycles, way, jump, synci, store, nm),
         NEW w \in Ways, NEW s \in 0 .. Sets - 1, NEW i \in 0 .. Words - 1
  PROVE  ic_ram'[w][s][i] =
           IF Replaced(w, s) /\ rdv /\ i = fill_wi THEN Head(burst) ELSE ic_ram[w][s][i]
<1>1. ic_ram' = IF state = "filling" /\ rdv
                  THEN [ic_ram EXCEPT ![fill_set][Csi(i_pc)][fill_wi] = Head(burst)]
                  ELSE ic_ram
  BY DEF Clock, TagRam
<1>2. ic_ram \in [Ways -> [0 .. Sets - 1 -> [0 .. Words - 1 -> Word]]]
  BY DEF TypeInv, MemoryType
<1>3. CASE state = "filling" /\ rdv
  <2> DEFINE h == Head(burst)
             c == Csi(i_pc)
  <2>1. ic_ram' = [ic_ram EXCEPT ![fill_set][c][fill_wi] = h]
    BY <1>1, <1>3
  <2> HIDE DEF h, c
  <2>2. ic_ram[w] \in [0 .. Sets - 1 -> [0 .. Words - 1 -> Word]]
    BY <1>2
  <2>3. ic_ram[w][s] \in [0 .. Words - 1 -> Word]
    BY <2>2
  <2>4. ic_ram'[w] = IF w = fill_set THEN [ic_ram[w] EXCEPT ![c][fill_wi] = h] ELSE ic_ram[w]
    BY <1>2, <2>1
  <2>5. ic_ram'[w][s] = IF w = fill_set /\ s = c THEN [ic_ram[w][s] EXCEPT ![fill_wi] = h]
                        ELSE ic_ram[w][s]
    BY <2>2, <2>4
  <2>6. ic_ram'[w][s][i] = IF w = fill_set /\ s = c /\ i = fill_wi THEN h
                           ELSE ic_ram[w][s][i]
    BY <2>3, <2>5
  <2> QED
    BY <1>3, <2>6 DEF Replaced, h, c
<1>4. CASE ~(state = "filling" /\ rdv)
  BY <1>1, <1>4 DEF Replaced
<1> QED
  BY <1>3, <1>4

(* The words of a burst and those already written are good after the step. *)
LEMMA FilledAfter ==
  ASSUME TypeInv, FilledIsGood, state = "filling",
         NEW wait, NEW rdv, NEW cycles, NEW way, NEW jump, NEW synci, NEW store, NEW nm,
         Inputs(wait, rdv, cycles, way, jump, synci, store, nm),
         Clock(wait, rdv, cycles, way, jump, synci, store, nm),
         NEW a \in LineOf(i_pc),
         Wdx(a) < fill_wi \/ (rdv /\ Wdx(a) = fill_wi)
  PROVE  ic_ram'[fill_set][Csi(a)][Wdx(a)] \in visible'[a] \/ Exempt(a)'
<1>1. /\ a \in Addr /\ i_pc \in Addr /\ fill_set \in Ways
      /\ Wdx(a) \in 0 .. Words - 1 /\ Csi(a) \in 0 .. Sets - 1 /\ Csi(a) = Csi(i_pc)
      /\ fill_wi \in 0 .. Words - 1 /\ Words \in Nat
  <2>1. a \in Addr /\ i_pc \in Addr /\ fill_set \in Ways
    BY DEF LineOf, TypeInv, IInv, FetchType
  <2>2. Wdx(a) \in 0 .. Words - 1 /\ Csi(a) \in 0 .. Sets - 1
    BY <2>1, TagTypes
  <2>3. Csi(a) = Csi(i_pc)
    BY <2>1, SameLine
  <2>4. fill_wi \in 0 .. Words - 1 /\ Words \in Nat
    BY StageIAssumption DEF TypeInv, FillInv
  <2> QED
    BY <2>1, <2>2, <2>3, <2>4
<1>2. Replaced(fill_set, Csi(a))
  BY <1>1 DEF Replaced
<1>3. CASE Wdx(a) < fill_wi
  <2>1. Good(a, ic_ram[fill_set][Csi(a)][Wdx(a)])
    BY <1>3 DEF FilledIsGood
  <2>2. ic_ram'[fill_set][Csi(a)][Wdx(a)] = ic_ram[fill_set][Csi(a)][Wdx(a)]
    <3>1. Wdx(a) # fill_wi
      BY <1>1, <1>3
    <3> QED
      BY <1>1, <3>1, WordsAfter
  <2> QED
    BY <1>1, <2>1, <2>2, GoodStep
<1>4. CASE rdv /\ Wdx(a) = fill_wi
  <2>1. burst # <<>> /\ burst \in Seq(Word)
    BY <1>4 DEF Inputs, Rdvs, TypeInv, FillInv
  <2>2. ~imem_read
    BY <2>1 DEF TypeInv, FillInv, FillInStep
  <2>3. ~(Wdx(a) < fill_wi) /\ Wdx(a) - fill_wi + 1 = 1
    BY <1>1, <1>4
  <2>4. Good(a, burst[Wdx(a) - fill_wi + 1])
    BY <2>2, <2>3 DEF FilledIsGood
  <2>5. Good(a, Head(burst))
    BY <2>1, <2>3, <2>4
  <2>6. ic_ram'[fill_set][Csi(a)][Wdx(a)] = Head(burst)
    BY <1>1, <1>2, <1>4, WordsAfter
  <2> QED
    BY <1>1, <2>5, <2>6, GoodStep
<1> QED
  BY <1>3, <1>4

LEMMA CachedStep ==
  ASSUME TypeInv, CachedIsGood, FilledIsGood,
         NEW wait, NEW rdv, NEW cycles, NEW way, NEW jump, NEW synci, NEW store, NEW nm,
         Inputs(wait, rdv, cycles, way, jump, synci, store, nm),
         Clock(wait, rdv, cycles, way, jump, synci, store, nm)
  PROVE  CachedIsGood'
<1> SUFFICES ASSUME NEW a \in Addr, NEW w \in Ways,
                    Holds(w, Csi(a), Chk(a))', ~Replaced(w, Csi(a))'
             PROVE  ic_ram'[w][Csi(a)][Wdx(a)] \in visible'[a] \/ Exempt(a)'
  BY DEF CachedIsGood, Good
<1> DEFINE s == Csi(a)
           t == Chk(a)
           i == Wdx(a)
<1>1. s \in 0 .. Sets - 1 /\ t \in 0 .. Tags - 1 /\ i \in 0 .. Words - 1
  BY AddressParts
<1>2. /\ tag_write' = TagWrite(rdv)
      /\ IF tag_write' # None /\ w \in tag_write'.ena /\ s = tag_write'.csi
           THEN t = tag_write'.data ELSE Holds(w, s, t)
  BY <1>1, TagAfter
<1>3. ic_ram'[w][s][i] =
        IF Replaced(w, s) /\ rdv /\ i = fill_wi THEN Head(burst) ELSE ic_ram[w][s][i]
  BY <1>1, WordsAfter
<1>4. Holds(w, s, t) /\ ~Replaced(w, s) => Good(a, ic_ram[w][s][i])
  BY DEF CachedIsGood
<1> HIDE DEF s, t, i
<1>5. CASE state = "invalidate"
  <2>1. tag_write' = [ena |-> hits_2, csi |-> Csi(pending_synci.a), data |-> tag_illegal]
    BY <1>2, <1>5 DEF TagWrite
  <2>2. t # tag_illegal
    BY <1>1, StageIAssumption DEF tag_illegal
  <2>3. pending_synci \in [a : Addr, pc : Addr] /\ tag_write = None
    BY <1>5, Present DEF TypeInv, IInv, FetchType
  <2>4. ~(w \in hits_2 /\ s = Csi(pending_synci.a)) /\ Holds(w, s, t)
    <3>1. tag_write' # None
      <4>1. tag_write' \in [ena : SUBSET Ways, csi : Nat, data : Nat]
        <5>1. Csi(pending_synci.a) \in 0 .. Sets - 1 /\ Tags \in Nat /\ hits_2 \in SUBSET Ways
          BY <2>3, IndexType, StageIAssumption DEF hits_2
        <5> QED
          BY <2>1, <5>1 DEF tag_illegal
      <4> QED
        BY <4>1, StageIAssumption
    <3>2. tag_write'.ena = hits_2 /\ tag_write'.csi = Csi(pending_synci.a)
          /\ tag_write'.data = tag_illegal
      BY <2>1
    <3> QED
      BY <1>2, <2>2, <3>1, <3>2
  <2>5. Good(a, ic_ram[w][s][i]) /\ ~Replaced(w, s)
    BY <1>4, <1>5, <2>4 DEF Replaced
  <2>6. ~Exempt(a)
    <3> SUFFICES ASSUME Exempt(a) PROVE FALSE
      OBVIOUS
    <3>1. a \in LineOf(pending_synci.a) /\ i_pc = pending_synci.a
          /\ tag_q[w] = tag_ram[w][Csi(pending_synci.a)]
      BY <1>5 DEF Exempt
    <3>2. s = Csi(pending_synci.a) /\ t = Chk(pending_synci.a)
      BY <2>3, <3>1, SameLine DEF s, t
    <3>3. t = tag_ram[w][s]
      BY <2>3, <2>4 DEF Holds
    <3>4. w \in hits_2
      BY <3>1, <3>2, <3>3 DEF hits_2
    <3> QED
      BY <2>4, <3>2, <3>4
  <2>7. ~Effective(synci)
    BY <1>5, SynciInputs DEF Effective, TypeInv
  <2>8. visible[a] \subseteq visible'[a]
    BY <2>7, VisibleStep
  <2>9. ic_ram[w][s][i] \in visible'[a]
    BY <2>5, <2>6, <2>8 DEF Good
  <2> QED
    BY <1>3, <2>5, <2>9 DEF s, i
<1>6. CASE state = "filling" /\ LastWord(rdv)
  <2>1. /\ i_pc \in Addr /\ fill_set \in Ways
        /\ fill_wi = Words - 1 /\ rdv /\ Words \in Nat
    BY <1>6, StageIAssumption DEF LastWord, TypeInv, IInv, FetchType
  <2>2. tag_write' = [ena |-> {fill_set}, csi |-> Csi(i_pc), data |-> Chk(i_pc)]
    BY <1>2, <1>6 DEF TagWrite
  <2>3. tag_write' # None
    <3>1. Csi(i_pc) \in Nat /\ Chk(i_pc) \in Nat
      BY <2>1, IndexType, TagType
    <3>2. tag_write' \in [ena : SUBSET Ways, csi : Nat, data : Nat]
      BY <2>1, <2>2, <3>1
    <3> QED
      BY <3>2, StageIAssumption
  <2>4. /\ tag_write'.ena = {fill_set} /\ tag_write'.csi = Csi(i_pc)
        /\ tag_write'.data = Chk(i_pc)
    BY <2>2
  <2>5. CASE Replaced(w, s)
    <3>1. w = fill_set /\ s = Csi(i_pc) /\ t = Chk(i_pc)
      BY <1>2, <2>3, <2>4, <2>5 DEF Replaced
    <3>2. a \in LineOf(i_pc)
      BY <2>1, <3>1, SameLine DEF s, t
    <3>3. Wdx(a) < fill_wi \/ (rdv /\ Wdx(a) = fill_wi)
      BY <1>1, <2>1 DEF i
    <3>4. ic_ram'[fill_set][Csi(a)][Wdx(a)] \in visible'[a] \/ Exempt(a)'
      BY <1>6, <3>2, <3>3, FilledAfter
    <3> QED
      BY <3>1, <3>4
  <2>6. CASE ~Replaced(w, s)
    <3>1. Holds(w, s, t)
      BY <1>2, <1>6, <2>3, <2>4, <2>6 DEF Replaced
    <3>2. Good(a, ic_ram[w][s][i])
      BY <1>4, <2>6, <3>1
    <3>3. ic_ram[w][s][i] \in visible'[a] \/ Exempt(a)'
      BY <1>6, <3>2, GoodStep
    <3> QED
      BY <1>3, <2>6, <3>3 DEF s, i
  <2> QED
    BY <2>5, <2>6
<1>7. CASE state # "invalidate" /\ ~(state = "filling" /\ LastWord(rdv))
  <2>1. tag_write' = None
    BY <1>2, <1>7 DEF TagWrite
  <2>2. Holds(w, s, t)
    BY <1>2, <2>1
  <2>3. ~Replaced(w, s)
    <3>1. CASE state = "filling"
      <4>1. Filling(restart_pc(jump), rdv, way)
        BY <3>1 DEF Clock, Fetch
      <4>2. state' = "filling" /\ fill_set' = fill_set /\ i_pc' = i_pc
        BY <1>7, <3>1, <4>1 DEF Filling
      <4>3. ~(state' = "filling" /\ w = fill_set' /\ s = Csi(i_pc'))
        BY DEF Replaced, s
      <4> QED
        BY <4>2, <4>3 DEF Replaced
    <3> QED
      BY <3>1 DEF Replaced
  <2>4. Good(a, ic_ram[w][s][i])
    BY <1>4, <2>2, <2>3
  <2>5. ic_ram[w][s][i] \in visible'[a] \/ Exempt(a)'
    BY <1>7, <2>4, GoodStep
  <2> QED
    BY <1>3, <2>3, <2>5 DEF s, i
<1> QED
  BY <1>5, <1>6, <1>7

(* A burst is read while no store of the line is still on its way, unless  *)
(* a SYNCI of the line is pending.                                         *)
LEMMA FilledStep ==
  ASSUME TypeInv, StaleOnlyWhileDraining, FilledIsGood,
         NEW wait, NEW rdv, NEW cycles, NEW way, NEW jump, NEW synci, NEW store, NEW nm,
         Inputs(wait, rdv, cycles, way, jump, synci, store, nm),
         Clock(wait, rdv, cycles, way, jump, synci, store, nm)
  PROVE  FilledIsGood'
<1> DEFINE line == [i \in 1 .. Words |-> mem[(i_pc \div Words) * Words + i - 1]]
           accepted == imem_read /\ ~imem_waitrequest(wait)
<1>1. /\ Fetch(restart_pc(jump), synci, rdv, way)
      /\ burst' = IF accepted THEN line ELSE IF rdv THEN Tail(burst) ELSE burst
      /\ imem_read' = ((Misses /\ synci = None /\ pending_synci = None)
                         \/ (imem_read /\ ~accepted))
  BY DEF Clock, Memory, ReadRequest, SynciArrives
<1>2. /\ Words \in Nat /\ fill_wi \in 0 .. Words - 1 /\ burst \in Seq(Word)
      /\ imem_read \in BOOLEAN /\ FillInStep /\ i_pc \in Addr
      /\ rdv \in BOOLEAN /\ (rdv => burst # <<>>)
  BY StageIAssumption DEF TypeInv, FillInv, IInv, FetchType, Inputs, Rdvs
<1>3. \A a \in LineOf(i_pc') : a \in Addr /\ Wdx(a) \in 0 .. Words - 1
  BY TagTypes DEF LineOf
<1> SUFFICES ASSUME state' = "filling", NEW a \in LineOf(i_pc')
             PROVE  IF Wdx(a) < fill_wi'
                      THEN ic_ram'[fill_set'][Csi(a)][Wdx(a)] \in visible'[a] \/ Exempt(a)'
                      ELSE ~imem_read' =>
                             burst'[Wdx(a) - fill_wi' + 1] \in visible'[a] \/ Exempt(a)'
  BY DEF FilledIsGood, Good
<1> DEFINE i == Wdx(a)
<1>4. a \in Addr /\ i \in 0 .. Words - 1
  BY <1>3
<1> HIDE DEF line, accepted, i
<1>5. CASE state # "filling"
  <2>1. fill_wi' = 0 /\ imem_read'
    BY <1>1, <1>5 DEF Fetch, SynciArrives, Misses, Synchronising, Running, Missing,
       Lookup, Invalidate, PreRunning
  <2>2. ~(i < fill_wi')
    BY <1>4, <2>1
  <2> QED
    BY <2>1, <2>2 DEF i
<1>6. CASE state = "filling"
  <2>1. Filling(restart_pc(jump), rdv, way) /\ ~LastWord(rdv)
    BY <1>1, <1>6 DEF Fetch, Filling
  <2>2. /\ i_pc' = i_pc /\ fill_set' = fill_set
        /\ fill_wi' = IF rdv THEN (fill_wi + 1) % Words ELSE fill_wi
        /\ imem_read' = (imem_read /\ ~accepted)
    BY <1>1, <1>6, <2>1 DEF Filling, Misses
  <2>3. a \in LineOf(i_pc)
    BY <2>2
  <2>4. ASSUME NEW x, Good(a, x)
        PROVE  x \in visible'[a] \/ Exempt(a)'
    BY <1>4, <1>6, <2>4, GoodStep
  <2>5. CASE imem_read
    <3>1. burst = <<>> /\ fill_wi = 0 /\ ~rdv /\ fill_wi' = 0 /\ ~(i < fill_wi')
      BY <1>2, <1>4, <1>6, <2>2, <2>5 DEF FillInStep
    <3>2. CASE accepted
      <4>1. mem[a] \in visible[a] \/ Exempt(a)
        <5>1. dmem = None
          BY <3>2 DEF accepted, imem_waitrequest
        <5> QED
          BY <1>4, <1>6, <5>1 DEF StaleOnlyWhileDraining, Draining
      <4>2. burst' = line
        BY <1>1, <3>2
      <4>3. line[i - fill_wi' + 1] = mem[a]
        <5>1. i - fill_wi' + 1 = i + 1 /\ i + 1 \in 1 .. Words
          BY <1>2, <1>4, <3>1
        <5>2. line[i + 1] = mem[(i_pc \div Words) * Words + (i + 1) - 1]
          BY <5>1 DEF line
        <5>3. a \div Words = i_pc \div Words
          BY <2>3 DEF LineOf
        <5>4. a = (a \div Words) * Words + i
          BY <1>4, AddressParts DEF i
        <5> DEFINE base == (i_pc \div Words) * Words
        <5>5. a = base + i
          BY <5>3, <5>4
        <5>6. base \in Nat
          <6>1. i_pc \in Nat /\ Words \in Nat \ {0}
            BY <1>2, Constants, StageIAssumption
          <6>2. i_pc \div Words \in Nat
            BY <6>1
          <6> QED
            BY <6>1, <6>2, Times
        <5>7. line[i + 1] = mem[base + (i + 1) - 1]
          BY <5>2
        <5> HIDE DEF base
        <5>8. base + (i + 1) - 1 = a
          BY <1>2, <1>4, <5>5, <5>6
        <5> QED
          BY <5>1, <5>7, <5>8
      <4>4. mem[a] \in visible'[a] \/ Exempt(a)'
        BY <2>4, <4>1 DEF Good
      <4> QED
        BY <3>1, <4>2, <4>3, <4>4 DEF i
    <3>3. CASE ~accepted
      BY <2>2, <2>5, <3>1, <3>3 DEF i
    <3> QED
      BY <3>2, <3>3
  <2>6. CASE ~imem_read
    <3>1. /\ Len(burst) = Words - fill_wi
          /\ burst' = IF rdv THEN Tail(burst) ELSE burst
          /\ ~imem_read'
      BY <1>1, <1>2, <1>6, <2>2, <2>6 DEF FillInStep, accepted
    <3>2. fill_wi' = IF rdv THEN fill_wi + 1 ELSE fill_wi
      <4>1. rdv => fill_wi # Words - 1
        BY <2>1 DEF LastWord
      <4>2. fill_wi # Words - 1 => (fill_wi + 1) % Words = fill_wi + 1
        BY <1>2
      <4> QED
        BY <2>2, <4>1, <4>2
    <3>3. CASE i < fill_wi'
      <4>1. Wdx(a) < fill_wi \/ (rdv /\ Wdx(a) = fill_wi)
        BY <1>2, <1>4, <3>2, <3>3 DEF i
      <4>2. ic_ram'[fill_set][Csi(a)][Wdx(a)] \in visible'[a] \/ Exempt(a)'
        BY <1>6, <2>3, <4>1, FilledAfter
      <4> QED
        BY <2>2, <3>3, <4>2 DEF i
    <3>4. CASE ~(i < fill_wi')
      <4>1. ~(i < fill_wi)
        BY <1>2, <1>4, <3>2, <3>4
      <4>2. Good(a, burst[i - fill_wi + 1])
        BY <1>6, <2>3, <2>6, <4>1 DEF FilledIsGood, i
      <4>3. burst'[i - fill_wi' + 1] = burst[i - fill_wi + 1]
        <5>1. CASE rdv
          <6> DEFINE k == i - fill_wi
          <6>1. k \in 1 .. Len(burst) - 1 /\ i - fill_wi' + 1 = k
            BY <1>2, <1>4, <3>1, <3>2, <3>4, <5>1
          <6>2. burst' = Tail(burst) /\ burst # <<>>
            BY <1>2, <3>1, <5>1
          <6> HIDE DEF k
          <6>3. Tail(burst)[k] = burst[k + 1]
            BY <1>2, <6>1, <6>2
          <6> QED
            BY <6>1, <6>2, <6>3 DEF k
        <5>2. CASE ~rdv
          BY <3>1, <3>2, <5>2
        <5> QED
          BY <5>1, <5>2
      <4>4. burst[i - fill_wi + 1] \in visible'[a] \/ Exempt(a)'
        BY <2>4, <4>2
      <4> QED
        BY <3>4, <4>3, <4>4 DEF i
    <3> QED
      BY <3>3, <3>4
  <2> QED
    BY <1>2, <2>5, <2>6
<1> QED
  BY <1>5, <1>6

(* A lookup goes on only while no SYNCI is pending, so that what a way     *)
(* holds may be fetched.                                                   *)
LEMMA ReadStep ==
  ASSUME TypeInv, CachedIsGood,
         NEW wait, NEW rdv, NEW cycles, NEW way, NEW jump, NEW synci, NEW store, NEW nm,
         Inputs(wait, rdv, cycles, way, jump, synci, store, nm),
         Clock(wait, rdv, cycles, way, jump, synci, store, nm)
  PROVE  ReadIsVisible'
<1> DEFINE restart == restart_pc(jump)
           f == Fetchaddress(restart)
<1> SUFFICES ASSUME i2_valid', NEW w \in Ways, tag_q'[w] = Chk(i_pc')
             PROVE  ic_q'[w] \in visible'[i_pc']
  BY DEF ReadIsVisible, hits_2
<1>1. Fetch(restart, synci, rdv, way)
  BY DEF Clock
<1>2. f \in Addr
  BY Wires DEF Inputs, TypeInv, IInv
<1>3. /\ tag_q'[w] = tag_ram[w][Csi(f)]
      /\ ic_q'[w] = ic_ram[w][Csi(f)][Wdx(f)]
  BY DEF Clock, TagRam, Looked
<1>4. state = "running" /\ tag_write = None /\ synci = None /\ pending_synci = None
      /\ i_pc' = f
  <2>1. IInv
    BY DEF TypeInv
  <2> HIDE DEF restart
  <2>2. state = "running" /\ synci = None /\ pending_synci = None /\ Running(restart)
    BY <1>1, <2>1, Present DEF Fetch, SynciArrives, Synchronising, Missing, Lookup,
       Invalidate, Filling, PreRunning
  <2>3. tag_write = None
    BY <2>1, <2>2, Present
  <2> QED
    BY <2>2, <2>3 DEF Running
<1> HIDE DEF restart, f
<1>5. Holds(w, Csi(f), Chk(f)) /\ ~Replaced(w, Csi(f))
  BY <1>3, <1>4 DEF Holds, Replaced
<1>6. ic_ram[w][Csi(f)][Wdx(f)] \in visible[f]
  BY <1>2, <1>4, <1>5 DEF CachedIsGood, Good, Exempt
<1>7. visible[f] \subseteq visible'[f]
  BY <1>2, <1>4, VisibleStep DEF Effective
<1> QED
  BY <1>3, <1>4, <1>6, <1>7

LEMMA NextCodeInv ==
  ASSUME BusyCycles <= 5, TypeInv, CodeInv, [Next]_vars
  PROVE  CodeInv'
<1>1. CASE Next
  <2>1. PICK wait, rdv, cycles, way, jump, synci, store, nm :
          /\ Inputs(wait, rdv, cycles, way, jump, synci, store, nm)
          /\ Clock(wait, rdv, cycles, way, jump, synci, store, nm)
    BY <1>1, NextInputs
  <2>2. NewestVisible'
    BY <2>1, NewestVisibleStep DEF CodeInv
  <2>3. StaleOnlyWhileDraining'
    BY <2>1, StaleStep DEF CodeInv
  <2>4. CachedIsGood'
    BY <2>1, CachedStep DEF CodeInv
  <2>5. FilledIsGood'
    BY <2>1, FilledStep DEF CodeInv
  <2>6. ReadIsVisible'
    BY <2>1, ReadStep DEF CodeInv
  <2> QED
    BY <2>2, <2>3, <2>4, <2>5, <2>6 DEF CodeInv
<1>2. CASE UNCHANGED vars
  <2>1. \A a \in Addr : Newest(a)' = Newest(a) /\ (Exempt(a)' <=> Exempt(a))
    BY <1>2 DEF Newest, Exempt, LineOf, vars, fetchVars, cacheVars, memVars
  <2>2. NewestVisible'
    BY <1>2, <2>1 DEF CodeInv, NewestVisible, vars
  <2>3. StaleOnlyWhileDraining'
    BY <1>2, <2>1 DEF CodeInv, StaleOnlyWhileDraining, Draining, vars, fetchVars, memVars
  <2>4. CachedIsGood'
    BY <1>2, <2>1 DEF CodeInv, CachedIsGood, Good, Holds, Replaced, vars, fetchVars, cacheVars
  <2>5. FilledIsGood'
    BY <1>2, <2>1 DEF CodeInv, FilledIsGood, Good, LineOf, vars, fetchVars, cacheVars, memVars
  <2>6. ReadIsVisible'
    BY <1>2 DEF CodeInv, ReadIsVisible, hits_2, vars, fetchVars, cacheVars
  <2> QED
    BY <2>2, <2>3, <2>4, <2>5, <2>6 DEF CodeInv
<1> QED
  BY <1>1, <1>2

LEMMA InitCodeInv == ASSUME Init PROVE CodeInv
<1>1. \A a \in Addr : Newest(a) = mem[a] /\ mem[a] \in visible[a]
  BY DEF Init, Newest
<1>2. \A a \in Addr, w \in Ways : ~Holds(w, Csi(a), Chk(a))
  <2> SUFFICES ASSUME NEW a \in Addr, NEW w \in Ways PROVE ~Holds(w, Csi(a), Chk(a))
    OBVIOUS
  <2>1. Csi(a) \in 0 .. Sets - 1 /\ Chk(a) \in 0 .. Tags - 1 /\ Tags \in Nat
    BY IndexType, TagType, StageIAssumption
  <2>2. tag_ram[w][Csi(a)] = Tags /\ tag_write = None
    BY <2>1 DEF Init, tag_illegal
  <2> QED
    BY <2>1, <2>2 DEF Holds
<1>3. CachedIsGood
  BY <1>2 DEF CachedIsGood
<1>4. FilledIsGood /\ ReadIsVisible
  BY DEF Init, FilledIsGood, ReadIsVisible
<1> QED
  BY <1>1, <1>3, <1>4 DEF CodeInv, NewestVisible, StaleOnlyWhileDraining

LEMMA CodeInvHolds == ASSUME BusyCycles <= 5 PROVE Spec => [](TypeInv /\ CodeInv)
<1>1. Init => TypeInv /\ CodeInv
  BY InitIInv, InitFill, InitMemoryType, InitCodeInv DEF TypeInv
<1>2. TypeInv /\ CodeInv /\ [Next]_vars => CodeInv'
  BY NextCodeInv
<1> QED
  BY <1>1, <1>2, IInvHolds, FillInvHolds, MemoryTypeHolds, PTL DEF Spec, TypeInv

(* What is emitted is a word of the address that may be fetched.           *)
FetchedIsVisible == Fetched = None \/ \E a \in Addr : \E x \in visible[a] : Fetched = <<a, x>>

LEMMA EmitsVisible == TypeInv /\ ReadIsVisible => FetchedIsVisible
<1> SUFFICES ASSUME TypeInv, ReadIsVisible PROVE FetchedIsVisible
  OBVIOUS
<1>1. CASE i_valid
  <2>1. i2_valid /\ i_pc \in Addr
    BY <1>1 DEF i_valid, TypeInv, IInv, FetchType
  <2>2. \E w \in hits_2 : TRUE
    BY <1>1, <2>1, HitIsValid DEF TypeInv
  <2>3. PICK w \in hits_2 : i_instr = ic_q[w]
    BY <2>2 DEF i_instr
  <2>4. i_instr \in visible[i_pc]
    BY <2>1, <2>3 DEF ReadIsVisible
  <2> QED
    BY <1>1, <2>1, <2>4 DEF Fetched, FetchedIsVisible
<1>2. CASE ~i_valid
  BY <1>2 DEF Fetched, FetchedIsVisible
<1> QED
  BY <1>1, <1>2

LEMMA CodeStep ==
  ASSUME TypeInv, TypeInv', ReadIsVisible',
         NEW wait, NEW rdv, NEW cycles, NEW way, NEW jump, NEW synci, NEW store, NEW nm,
         Inputs(wait, rdv, cycles, way, jump, synci, store, nm),
         Clock(wait, rdv, cycles, way, jump, synci, store, nm)
  PROVE  Promised!Next
<1> DEFINE code == [a \in Addr |-> Newest(a)]
<1>1. Promised!Fetch
  <2>1. FetchedIsVisible'
    BY EmitsVisible, PTL
  <2> QED
    BY <2>1 DEF Promised!Fetch, FetchedIsVisible
<1>2. code' = [a \in Addr |-> IF store # None /\ store[1] = a THEN store ELSE Newest(a)]
  <2>1. \A a \in Addr : Newest(a)' = IF store # None /\ store[1] = a THEN store ELSE Newest(a)
    BY NewestStep DEF TypeInv, FillInv
  <2> QED
    BY <2>1
<1>3. visible' = [a \in Addr |->
        IF Effective(synci) /\ a \in LineOf(synci) THEN {Newest(a)}
        ELSE IF store # None /\ store[1] = a THEN visible[a] \cup {store}
        ELSE visible[a]]
  BY DEF Clock, Visible
<1>4. visible \in [Addr -> SUBSET Word]
  BY DEF TypeInv, MemoryType
<1>5. CASE store # None
  <2>1. store \in Word /\ store[1] \in Addr
    BY <1>5, StageIAssumption DEF Inputs, Stores, Word
  <2>2. ~Effective(synci)
    BY <1>5, SynciInputs DEF Effective, TypeInv
  <2>3. code' = [code EXCEPT ![store[1]] = store]
    BY <1>2, <1>5, <2>1
  <2>4. visible' = [visible EXCEPT ![store[1]] = @ \cup {store}]
    BY <1>3, <1>4, <1>5, <2>1, <2>2
  <2>5. Promised!Store(store[1], store)
    BY <2>3, <2>4 DEF Promised!Store
  <2> QED
    BY <1>1, <2>1, <2>5 DEF Promised!Next
<1>6. CASE store = None /\ Effective(synci)
  <2>1. code' = code
    BY <1>2, <1>6
  <2>2. visible' = [a \in Addr |-> IF a \in LineOf(synci) THEN {code[a]} ELSE visible[a]]
    BY <1>3, <1>6
  <2>3. Promised!Synci(LineOf(synci))
    BY <2>1, <2>2 DEF Promised!Synci
  <2>4. LineOf(synci) \in Lines
    BY <1>6, SynciInputs DEF Effective, TypeInv, Lines
  <2> QED
    BY <1>1, <2>3, <2>4 DEF Promised!Next
<1>7. CASE store = None /\ ~Effective(synci)
  <2>1. code' = code
    BY <1>2, <1>7
  <2>2. visible' = visible
    BY <1>3, <1>4, <1>7
  <2> QED
    BY <1>1, <2>1, <2>2 DEF Promised!Next
<1> QED
  BY <1>5, <1>6, <1>7

LEMMA CodeNext ==
  ASSUME TypeInv, TypeInv', ReadIsVisible', [Next]_vars
  PROVE  [Promised!Next]_(Promised!vars)
<1>1. CASE Next
  <2>1. PICK wait, rdv, cycles, way, jump, synci, store, nm :
          /\ Inputs(wait, rdv, cycles, way, jump, synci, store, nm)
          /\ Clock(wait, rdv, cycles, way, jump, synci, store, nm)
    BY <1>1, NextInputs
  <2> QED
    BY <2>1, CodeStep
<1>2. CASE UNCHANGED vars
  <2>1. \A a \in Addr : Newest(a)' = Newest(a)
    BY <1>2 DEF Newest, vars, memVars
  <2>2. Fetched' = Fetched
    BY <1>2 DEF Fetched, i_valid, i_instr, hits_2, vars, fetchVars, cacheVars
  <2>3. visible' = visible
    BY <1>2 DEF vars
  <2>4. UNCHANGED Promised!vars
    BY <2>1, <2>2, <2>3 DEF Promised!vars
  <2> QED
    BY <2>4
<1> QED
  BY <1>1, <1>2

LEMMA CodeInit == ASSUME Init PROVE Promised!Init
<1>1. \A a \in Addr : Newest(a) = <<a, 0>> /\ <<a, 0>> \in Word
  BY DEF Init, Newest, Word
<1>2. [a \in Addr |-> Newest(a)] \in [Addr -> Word]
  BY <1>1
<1>3. visible = [a \in Addr |-> {[b \in Addr |-> Newest(b)][a]}]
  BY <1>1 DEF Init
<1>4. Fetched = None
  BY DEF Init, Fetched, i_valid
<1> QED
  BY <1>2, <1>3, <1>4 DEF Promised!Init

(* IF and the path of stores implement InstructionMemory: once SYNCI has   *)
(* synchronised a line, stage_I emits no word of it that is older, for     *)
(* every geometry of the cache and every program, provided that the memory *)
(* is never busy for more than 5 cycles.                                   *)
THEOREM CodeIsSynchronisedCorrect == ASSUME BusyCycles <= 5 PROVE Spec => CodeIsSynchronised
<1>1. Init => Promised!Init
  BY CodeInit
<1>2. /\ TypeInv /\ CodeInv /\ (TypeInv /\ CodeInv)' /\ [Next]_vars
      => [Promised!Next]_(Promised!vars)
  BY CodeNext DEF CodeInv
<1> QED
  BY <1>1, <1>2, CodeInvHolds, PTL DEF Spec, CodeIsSynchronised, Promised!Spec

=============================================================================
