---------------------------- MODULE StageM_proofs ----------------------------
(***************************************************************************)
(* Proofs about stage ME, for every number of ways, lines, words, lanes    *)
(* and store buffer slots.                                                 *)
(***************************************************************************)
EXTENDS StageM, TLAPS, WellFoundedInduction

LEMMA ModRange == ASSUME NEW n \in Nat, n # 0, NEW k \in Nat
                  PROVE  k % n \in 0 .. n - 1
  OBVIOUS

LEMMA ModSucc == ASSUME NEW n \in Nat, n # 0, NEW k \in 0 .. n - 1
                 PROVE  (k + 1) % n = IF k = n - 1 THEN 0 ELSE k + 1
  OBVIOUS

LEMMA SbSuccValue ==
  ASSUME NEW p \in 0 .. SbSize - 1
  PROVE  /\ SbSucc(p) = IF p = SbSize - 1 THEN 0 ELSE p + 1
         /\ SbSucc(p) \in 0 .. SbSize - 1
  <1>1. SbSize \in Nat /\ SbSize # 0
    BY ConstantsAssumption
  <1>2. (p + 1) % SbSize = IF p = SbSize - 1 THEN 0 ELSE p + 1
    BY <1>1, ModSucc
  <1> QED BY <1>1, <1>2 DEF SbSucc

LEMMA MergeType == ASSUME NEW w \in StoreData, NEW old \in Word
                   PROVE  Merge(w, old) \in Word
  BY DEF Merge, StoreData, Word

LEMMA NoDataType == NoData \in StoreData
  <1>1. NoData \in [{} -> BOOLEAN]
    BY DEF NoData
  <1>2. {} \in SUBSET Lanes
    OBVIOUS
  <1> QED BY <1>1, <1>2 DEF StoreData

\* The fields of an instruction that enters ME.
LEMMA InstrFields ==
  ASSUME NEW i \in Instr
  PROVE  /\ i.op \in {"load", "store", "uload", "ustore"}
         /\ i.op \in {"load", "store"} => i.a \in Addr /\ i.w \in StoreData
         /\ i.op \in {"uload", "ustore"} => i.a \in IoAddr
  BY NoDataType DEF Instr

LEMMA TypeInit == Init => TypeOK
  <1> SUFFICES ASSUME Init PROVE TypeOK
    OBVIOUS
  <1> USE ConstantsAssumption DEF Init, TypeOK
  <1>1. [l \in Lanes |-> FALSE] \in Word
    BY DEF Word
  <1>2. /\ x \in Program \cup {None}
        /\ x_tag \in [Ways -> Tags \cup {None}]
        /\ dc_q \in [Ways -> Word]
        /\ x_last_store_address \in Addr \cup {None}
        /\ m \in Retired \cup {None}
        /\ m_restart \in BOOLEAN /\ one_shot_restart \in BOOLEAN
        /\ refill \in BOOLEAN /\ replay \in Program \cup {None}
    BY <1>1
  <1>3. /\ tag_ram \in [Csis -> [Ways -> Tags \cup {None}]]
        /\ dc_ram \in [Ways -> [[csi : Csis, wi : Wi] -> Word]]
        /\ mem \in [Addr -> Word]
    BY <1>1
  <1>4. /\ store_buffer \in [0 .. SbSize - 1 -> StoreEntry \cup {None}]
        /\ store_buffer_wp \in 0 .. SbSize - 1
        /\ store_buffer_rp \in 0 .. SbSize - 1
    OBVIOUS
  <1>5. /\ outstanding_cache_miss \in BOOLEAN /\ fill_cache \in BOOLEAN
        /\ dmem \in Request \cup {None}
        /\ burst \in Addr \cup {None}
    OBVIOUS
  <1>7. fill \in [chk : Tags, csi : Csis, set : Ways, wi : Wi]
    <2>1. 0 \in Wi
      BY DEF Wi
    <2>2. PICK t \in Tags, c \in Csis, w \in Ways :
            fill = [chk |-> t, csi |-> c, set |-> w, wi |-> 0]
      BY Zenon
    <2> QED BY ONLY <2>1, <2>2
  <1>6. /\ peripherals_req \in [R : BOOLEAN, W : BOOLEAN, A : IoAddr]
        /\ peripherals_readdatavalid \in BOOLEAN
        /\ got_uncached_data \in BOOLEAN /\ uncached_load_pending \in BOOLEAN
        /\ uncached_data \in 0 .. DevSize - 1
        /\ dev \in 0 .. DevSize - 1 /\ io_seen \in 0 .. DevSize - 1
    <2>1. PICK a \in IoAddr : peripherals_req = [R |-> FALSE, W |-> FALSE, A |-> a]
      BY Zenon
    <2>2. peripherals_req \in [R : BOOLEAN, W : BOOLEAN, A : IoAddr]
      <3> DEFINE req == [R |-> FALSE, W |-> FALSE, A |-> a]
      <3>1. req \in [R : BOOLEAN, W : BOOLEAN, A : IoAddr]
        OBVIOUS
      <3> QED BY <2>1, <3>1, Zenon
    <2>3. 0 \in 0 .. DevSize - 1
      OBVIOUS
    <2> QED BY <2>2, <2>3, Zenon
  <1> QED BY <1>2, <1>3, <1>4, <1>5, <1>6, <1>7

\* What a clock edge takes its inputs from.
LEMMA Inputs ==
  ASSUME TypeOK, NEW wait \in WaitRequest, NEW rdv \in ReadDataValid, NEW hold \in Hold
  PROVE  /\ wait \in BOOLEAN /\ rdv \in BOOLEAN /\ hold \in BOOLEAN
         /\ burst = None => rdv = FALSE
         /\ ReadData \in Word
  BY DEF WaitRequest, ReadDataValid, Hold, ReadData, TypeOK, Word

LEMMA TypeNext == TypeOK /\ StoreBufferSlots /\ FillInStep /\ [Next]_vars => TypeOK'
  <1> SUFFICES ASSUME TypeOK, StoreBufferSlots, FillInStep, [Next]_vars PROVE TypeOK'
    OBVIOUS
  <1>1. CASE UNCHANGED vars
    BY <1>1 DEF TypeOK, vars, xVars, mVars, cacheVars, sbVars, fillVars, memVars, ioVars
  <1>2. ASSUME NEW wait \in WaitRequest, NEW rdv \in ReadDataValid, NEW hold \in Hold,
               Clock(wait, rdv, hold)
        PROVE  TypeOK'
    <2> USE ConstantsAssumption
    <2>0. /\ wait \in BOOLEAN /\ rdv \in BOOLEAN /\ hold \in BOOLEAN
          /\ burst = None => rdv = FALSE
          /\ ReadData \in Word
      BY Inputs, <1>2
    <2>i. /\ x # None => x \in Program /\ x \in Instr
          /\ Is("load") \/ Is("store") => x.a \in Addr /\ x.w \in StoreData
          /\ Is("uload") \/ Is("ustore") => x.a \in IoAddr
      BY InstrFields DEF TypeOK, Is
    <2>1. m_restart' \in BOOLEAN /\ one_shot_restart' \in BOOLEAN
      BY <1>2 DEF Clock, Restart, RestartOver, TypeOK, Restarts
    <2>2. m' \in Retired \cup {None}
      <3>1. x_lw_res \in Word
        BY DEF x_lw_res, Word
      <3> QED BY <1>2, <2>i, <3>1 DEF Clock, Retire, Result, Retired
    <2>3. /\ store_buffer' \in [0 .. SbSize - 1 -> StoreEntry \cup {None}]
          /\ store_buffer_wp' \in 0 .. SbSize - 1
          /\ store_buffer_rp' \in 0 .. SbSize - 1
          /\ x_last_store_address' \in Addr \cup {None}
      <3>1. /\ SbSucc(store_buffer_wp) \in 0 .. SbSize - 1
            /\ SbSucc(store_buffer_rp) \in 0 .. SbSize - 1
        BY SbSuccValue DEF TypeOK
      <3>2. StoreTaken => [a |-> x.a, w |-> x.w] \in StoreEntry
        BY <2>i DEF StoreTaken, StoreEntry
      <3> QED BY <1>2, <2>i, <3>1, <3>2 DEF Clock, StoreBuffer, Drains, TypeOK, StoreTaken
    <2>4. dmem' \in Request \cup {None}
      <3>1. [chk |-> fill.chk, csi |-> fill.csi, wi |-> 0] \in Addr
        BY DEF TypeOK, Addr, Wi
      <3>2. NoData \in StoreData
        BY NoDataType
      <3>3. store_buffer_rp # store_buffer_wp => store_buffer[store_buffer_rp] \in StoreEntry
        BY DEF TypeOK, StoreBufferSlots, Pending
      <3>4. CASE wait
        BY <1>2, <3>4 DEF Clock, MemoryPort, Drains, TypeOK, IssueFill
      <3>5. CASE ~wait /\ store_buffer_rp # store_buffer_wp
        BY <1>2, <3>3, <3>5 DEF Clock, MemoryPort, Drains, Request, StoreEntry, IssueFill
      <3>6. CASE ~wait /\ store_buffer_rp = store_buffer_wp
        BY <1>2, <3>1, <3>2, <3>6 DEF Clock, MemoryPort, Drains, Request, IssueFill
      <3> QED BY <2>0, <3>4, <3>5, <3>6
    <2>5. /\ outstanding_cache_miss' \in BOOLEAN /\ fill_cache' \in BOOLEAN
          /\ fill' \in [chk : Tags, csi : Csis, set : Ways, wi : Wi]
      <3>1. fill.wi \in 0 .. LastWord
        BY DEF TypeOK, Wi
      <3>2. (fill.wi + 1) % (LastWord + 1) \in 0 .. (LastWord + 1) - 1
        BY <3>1, ModRange
      <3>3. StartFill => x.a.chk \in Tags /\ x.a.csi \in Csis
        BY <2>i DEF StartFill, LoadMiss, Addr
      <3>4. outstanding_cache_miss' \in BOOLEAN /\ fill_cache' \in BOOLEAN
        BY <1>2, <2>0 DEF Clock, Fill, TypeOK
      <3>5. PICK set \in IF StartFill THEN Ways ELSE {fill.set} :
              fill' = [chk |-> IF StartFill THEN x.a.chk ELSE fill.chk,
                       csi |-> IF StartFill THEN x.a.csi ELSE fill.csi,
                       set |-> set,
                       wi  |-> CASE rdv -> (fill.wi + 1) % (LastWord + 1)
                                 [] ~rdv /\ StartFill -> 0
                                 [] OTHER -> fill.wi]
        BY <1>2 DEF Clock, Fill
      <3>6. set \in Ways
        BY <3>5 DEF TypeOK
      <3>7. fill'.wi \in 0 .. LastWord
        BY <2>0, <3>1, <3>2, <3>5
      <3>8. fill' = [chk |-> fill'.chk, csi |-> fill'.csi, set |-> set, wi |-> fill'.wi]
        BY <3>5
      <3>9. fill'.chk \in Tags /\ fill'.csi \in Csis
        BY <3>3, <3>5 DEF TypeOK
      <3> QED BY <3>4, <3>6, <3>7, <3>8, <3>9 DEF Wi
    <2>6. tag_ram' \in [Csis -> [Ways -> Tags \cup {None}]]
      BY <1>2 DEF Clock, TagRam, TagWrite, TypeOK
    <2>7. dc_ram' \in [Ways -> [[csi : Csis, wi : Wi] -> Word]]
      <3> DEFINE loc == IF outstanding_cache_miss
                          THEN [csi |-> fill.csi, wi |-> fill.wi]
                          ELSE [csi |-> x.a.csi, wi |-> x.a.wi]
                 New(old) == IF outstanding_cache_miss THEN ReadData ELSE Merge(x.w, old)
      <3>1. PICK set \in IF Is("store") /\ ~x_miss THEN x_hits ELSE {None} :
              LET wren == {w \in Ways : (rdv /\ fill.set = w) \/ set = w}
              IN dc_ram' = IF wren = {} THEN dc_ram
                           ELSE [w \in Ways |-> IF w \in wren
                                                  THEN [dc_ram[w] EXCEPT ![loc] = New(@)]
                                                  ELSE dc_ram[w]]
        BY <1>2, Zenon DEF Clock, DataRam
      <3> HIDE DEF loc, New
      <3>2. dc_ram \in [Ways -> [[csi : Csis, wi : Wi] -> Word]]
        BY DEF TypeOK
      <3>3. ASSUME NEW w \in Ways, (rdv /\ fill.set = w) \/ set = w
            PROVE  [dc_ram[w] EXCEPT ![loc] = New(@)] \in [[csi : Csis, wi : Wi] -> Word]
        <4>1. set # None => Is("store")
          BY <3>1 DEF x_hits
        <4>2. outstanding_cache_miss \/ Is("store")
          BY <2>0, <3>3, <4>1, ConstantsAssumption DEF FillInStep
        <4>3. ASSUME NEW old \in Word PROVE New(old) \in Word
          BY <2>0, <2>i, <4>2, MergeType DEF New
        <4> QED BY <3>2, <4>3
      <3> QED BY <3>1, <3>2, <3>3
    <2>8. /\ peripherals_req' \in [R : BOOLEAN, W : BOOLEAN, A : IoAddr]
          /\ peripherals_readdatavalid' \in BOOLEAN
          /\ got_uncached_data' \in BOOLEAN /\ uncached_load_pending' \in BOOLEAN
          /\ uncached_data' \in 0 .. DevSize - 1
      BY <1>2, <2>0, <2>i DEF Clock, Peripherals, UncachedRead, TypeOK, UncachedLoadWaits, UncachedStoreTaken
    <2>9. /\ mem' \in [Addr -> Word]
          /\ burst' \in Addr \cup {None}
      <3>1. mem' \in [Addr -> Word]
        <4>1. CASE ~wait /\ dmem # None /\ dmem.write
          <5>1. dmem.a \in Addr /\ dmem.w \in StoreData /\ mem \in [Addr -> Word]
            BY <4>1 DEF TypeOK, Request
          <5>2. Merge(dmem.w, mem[dmem.a]) \in Word
            BY <5>1, MergeType
          <5> QED BY <1>2, <4>1, <5>1, <5>2 DEF Clock, Memory
        <4>2. CASE ~(~wait /\ dmem # None /\ dmem.write)
          BY <1>2, <4>2 DEF Clock, Memory, TypeOK
        <4> QED BY <4>1, <4>2
      <3>2. CASE ~wait /\ dmem # None /\ ~dmem.write
        BY <1>2, <2>0, <3>1, <3>2 DEF Clock, Memory, TypeOK, Request
      <3>3. CASE ~(~wait /\ dmem # None /\ ~dmem.write) /\ rdv
        <4>1. burst \in Addr /\ burst.wi \in 0 .. LastWord
          BY <2>0, <3>3 DEF TypeOK, Addr, Wi
        <4>2. burst.wi < LastWord => [burst EXCEPT !.wi = @ + 1] \in Addr
          BY <4>1 DEF Addr, Wi
        <4> QED BY <1>2, <3>1, <3>3, <4>1, <4>2 DEF Clock, Memory
      <3>4. CASE ~(~wait /\ dmem # None /\ ~dmem.write) /\ ~rdv
        BY <1>2, <3>1, <3>4 DEF Clock, Memory, TypeOK
      <3> QED BY <2>0, <3>2, <3>3, <3>4
    <2>10. dev' \in 0 .. DevSize - 1 /\ io_seen' \in 0 .. DevSize - 1
      <3>1. (dev + 1) % DevSize \in 0 .. DevSize - 1
        BY ModRange DEF TypeOK
      <3> QED BY <1>2, <3>1 DEF Clock, Device, TypeOK
    <2>11. /\ x' \in Program \cup {None}
           /\ x_tag' \in [Ways -> Tags \cup {None}]
           /\ dc_q' \in [Ways -> Word]
           /\ refill' \in BOOLEAN
           /\ replay' \in Program \cup {None}
      <3>1. x' \in Program \cup {None} /\ replay' \in Program \cup {None} /\ refill' \in BOOLEAN
        BY <1>2 DEF Clock, Front, Flushed, TypeOK
      <3>2. x' # None /\ x'.op \in {"load", "store"} =>
              [csi |-> x'.a.csi, wi |-> x'.a.wi] \in [csi : Csis, wi : Wi] /\ x'.a.csi \in Csis
        BY <3>1, InstrFields DEF Addr
      <3>3. x_tag' \in [Ways -> Tags \cup {None}]
        BY <1>2, <3>2 DEF Clock, Front, Flushed, TypeOK
      <3>4. dc_q' \in [Ways -> Word]
        <4>1. [l \in Lanes |-> FALSE] \in Word
          BY DEF Word
        <4>2. dc_ram \in [Ways -> [[csi : Csis, wi : Wi] -> Word]]
          BY DEF TypeOK
        <4>3. dc_q' = [w \in Ways |-> IF x' # None /\ x'.op = "load"
                                       THEN dc_ram[w][[csi |-> x'.a.csi, wi |-> x'.a.wi]]
                                       ELSE [l \in Lanes |-> FALSE]]
          BY <1>2, Zenon DEF Clock, Front, Flushed
        <4> QED BY <3>2, <4>1, <4>2, <4>3
      <3> QED BY <3>1, <3>3, <3>4
    <2> QED BY <2>1, <2>2, <2>3, <2>4, <2>5, <2>6, <2>7, <2>8, <2>9, <2>10, <2>11 DEF TypeOK
  <1> QED BY <1>1, <1>2 DEF Next

(***************************************************************************)
(* The store buffer: Pending gains wp when a store is taken, loses rp when *)
(* one is issued, and taking never makes the two pointers meet.            *)
(***************************************************************************)
LEMMA SlotsNext == TypeOK /\ StoreBufferSlots /\ [Next]_vars => StoreBufferSlots'
  <1> SUFFICES ASSUME TypeOK, StoreBufferSlots, [Next]_vars PROVE StoreBufferSlots'
    OBVIOUS
  <1>1. CASE UNCHANGED vars
    BY <1>1 DEF StoreBufferSlots, Pending, vars, sbVars
  <1>2. ASSUME NEW wait \in WaitRequest, NEW rdv \in ReadDataValid, NEW hold \in Hold,
               Clock(wait, rdv, hold)
        PROVE  StoreBufferSlots'
    <2> USE ConstantsAssumption
    <2> DEFINE drain == ~wait /\ store_buffer_rp # store_buffer_wp
    <2>1. /\ store_buffer_wp \in 0 .. SbSize - 1
          /\ store_buffer_rp \in 0 .. SbSize - 1
          /\ DOMAIN store_buffer = 0 .. SbSize - 1
      BY DEF TypeOK
    <2>2. /\ SbSucc(store_buffer_wp) = IF store_buffer_wp = SbSize - 1 THEN 0 ELSE store_buffer_wp + 1
          /\ SbSucc(store_buffer_rp) = IF store_buffer_rp = SbSize - 1 THEN 0 ELSE store_buffer_rp + 1
      BY <2>1, SbSuccValue
    <2>3. /\ store_buffer_wp' = IF StoreTaken THEN SbSucc(store_buffer_wp) ELSE store_buffer_wp
          /\ store_buffer_rp' = IF drain THEN SbSucc(store_buffer_rp) ELSE store_buffer_rp
      BY <1>2 DEF Clock, StoreBuffer, Drains
    <2>4. StoreTaken => SbSucc(store_buffer_wp) # store_buffer_rp
      BY DEF StoreTaken, StoreBufferFull
    <2>5. StoreTaken => [a |-> x.a, w |-> x.w] # None
      BY InstrFields DEF StoreTaken, Is, TypeOK, StoreEntry
    <2>6. ASSUME NEW s \in 0 .. SbSize - 1
          PROVE  s \in Pending' <=> store_buffer'[s] # None
      <3>1. s \in Pending <=> store_buffer[s] # None
        BY DEF StoreBufferSlots
      <3>2. store_buffer'[s] = CASE StoreTaken /\ s = store_buffer_wp -> [a |-> x.a, w |-> x.w]
                                 [] drain /\ s = store_buffer_rp      -> None
                                 [] OTHER                             -> store_buffer[s]
        BY <1>2, <2>1 DEF Clock, StoreBuffer, Drains
      <3>3. store_buffer'[s] # None <=>
              \/ StoreTaken /\ s = store_buffer_wp
              \/ store_buffer[s] # None /\ ~(drain /\ s = store_buffer_rp)
        <4>1. ~(drain /\ store_buffer_rp = store_buffer_wp)
          OBVIOUS
        <4> HIDE DEF drain
        <4> QED BY <2>5, <3>2, <4>1
      <3> HIDE DEF drain
      <3>4. s \in Pending' <=>
              \/ StoreTaken /\ s = store_buffer_wp
              \/ s \in Pending /\ ~(drain /\ s = store_buffer_rp)
        <4>1. drain => store_buffer_rp # store_buffer_wp
          BY DEF drain
        <4> QED BY <2>1, <2>2, <2>3, <2>4, <4>1 DEF Pending
      <3> QED BY <3>1, <3>3, <3>4
    <2> QED BY <2>6 DEF StoreBufferSlots
  <1> QED BY <1>1, <1>2 DEF Next

LEMMA SlotsInit == Init => StoreBufferSlots
  BY ConstantsAssumption DEF Init, StoreBufferSlots, Pending

(***************************************************************************)
(* The fill engine goes round fill_cache, dmem, burst.                     *)
(***************************************************************************)
LEMMA FillInit == Init => FillInStep
  BY DEF Init, FillInStep

LEMMA FillNext == TypeOK /\ StoreBufferSlots /\ FillInStep /\ [Next]_vars => FillInStep'
  <1> SUFFICES ASSUME TypeOK, StoreBufferSlots, FillInStep, [Next]_vars PROVE FillInStep'
    OBVIOUS
  <1> DEFINE reading == dmem # None /\ ~dmem.write
  <1>1. CASE UNCHANGED vars
    BY <1>1 DEF FillInStep, LineOf, vars, fillVars, memVars
  <1>2. ASSUME NEW wait \in WaitRequest, NEW rdv \in ReadDataValid, NEW hold \in Hold,
               Clock(wait, rdv, hold)
        PROVE  FillInStep'
    <2> USE ConstantsAssumption
    <2>0. /\ wait \in BOOLEAN /\ rdv \in BOOLEAN /\ hold \in BOOLEAN
          /\ burst = None => rdv = FALSE
      BY Inputs, <1>2
    <2>1. /\ outstanding_cache_miss' = (~FillDone(rdv) /\ (outstanding_cache_miss \/ LoadMiss))
          /\ fill_cache' = (~IssueFill(wait) /\ (fill_cache \/ StartFill))
          /\ StartFill => ~outstanding_cache_miss /\ LoadMiss
          /\ LoadMiss => StartFill \/ outstanding_cache_miss
      BY <1>2 DEF Clock, Fill, StartFill
    <2>2. /\ fill'.chk = IF StartFill THEN x.a.chk ELSE fill.chk
          /\ fill'.csi = IF StartFill THEN x.a.csi ELSE fill.csi
          /\ fill'.wi = CASE rdv -> (fill.wi + 1) % (LastWord + 1)
                          [] ~rdv /\ StartFill -> 0
                          [] OTHER -> fill.wi
      BY <1>2 DEF Clock, Fill
    <2>3. reading' <=> IF wait THEN reading ELSE IssueFill(wait)
      <3>1. store_buffer_rp # store_buffer_wp => store_buffer[store_buffer_rp] # None
        BY DEF TypeOK, StoreBufferSlots, Pending
      <3>2. /\ [chk |-> fill.chk, csi |-> fill.csi, wi |-> 0] \in Addr
            /\ NoData \in StoreData
        BY NoDataType DEF TypeOK, Addr, Wi
      <3>3. [write |-> FALSE, a |-> [chk |-> fill.chk, csi |-> fill.csi, wi |-> 0],
             w |-> NoData] # None
        <4>1. [write |-> FALSE, a |-> [chk |-> fill.chk, csi |-> fill.csi, wi |-> 0],
               w |-> NoData] \in Request
          BY <3>2 DEF Request
        <4> QED BY <4>1
      <3>4. CASE wait
        BY <1>2, <3>4 DEF Clock, MemoryPort, Drains, IssueFill
      <3>5. CASE ~wait /\ store_buffer_rp # store_buffer_wp
        <4>1. dmem'.write = TRUE
          BY <1>2, <3>5 DEF Clock, MemoryPort, Drains, IssueFill
        <4> QED BY <3>5, <4>1 DEF IssueFill
      <3>6. CASE IssueFill(wait)
        <4>1. dmem' = [write |-> FALSE, a |-> [chk |-> fill.chk, csi |-> fill.csi, wi |-> 0],
                       w |-> NoData]
          BY <1>2, <3>6 DEF Clock, MemoryPort, Drains, IssueFill
        <4> QED BY <3>3, <3>6, <4>1 DEF IssueFill
      <3>7. CASE ~wait /\ store_buffer_rp = store_buffer_wp /\ ~IssueFill(wait)
        BY <1>2, <3>7 DEF Clock, MemoryPort, Drains
      <3> QED BY <2>0, <3>4, <3>5, <3>6, <3>7 DEF IssueFill
    <2>4. IssueFill(wait) => dmem'.a = [chk |-> fill.chk, csi |-> fill.csi, wi |-> 0]
      BY <1>2 DEF Clock, MemoryPort, Drains, IssueFill
    <2>5. wait => dmem' = dmem
      BY <1>2 DEF Clock, MemoryPort, Drains, IssueFill
    <2>6. burst' = IF ~wait /\ reading THEN dmem.a
                   ELSE IF ~rdv THEN burst
                   ELSE IF burst.wi = LastWord THEN None
                   ELSE [burst EXCEPT !.wi = @ + 1]
      BY <1>2 DEF Clock, Memory
    <2>7. /\ fill.wi \in 0 .. LastWord
          /\ burst # None => burst \in Addr /\ burst.wi \in 0 .. LastWord
      BY DEF TypeOK, Addr, Wi
    <2>8. outstanding_cache_miss <=> (fill_cache \/ reading \/ burst # None)
      BY DEF FillInStep
    <2>9. CASE ~outstanding_cache_miss
      <3>1. /\ rdv = FALSE /\ ~fill_cache /\ ~reading /\ burst = None
        BY <2>0, <2>8, <2>9
      <3>2. ~IssueFill(wait) /\ ~FillDone(rdv) /\ burst' = None /\ ~reading'
        BY <2>0, <2>3, <2>6, <3>1 DEF IssueFill, FillDone
      <3>3. outstanding_cache_miss' = StartFill /\ fill_cache' = StartFill
        BY <2>1, <2>9, <3>1, <3>2 DEF StartFill, LoadMiss
      <3>4. StartFill => fill'.wi = 0
        BY <2>2, <3>1
      <3> QED BY <3>2, <3>3, <3>4 DEF FillInStep
    <2>10. CASE outstanding_cache_miss
      <3>1. ~StartFill /\ LineOf(fill') = LineOf(fill)
        BY <2>1, <2>2, <2>10 DEF LineOf
      <3>2. CASE fill_cache
        <4>1. ~reading /\ burst = None /\ rdv = FALSE /\ fill.wi = 0
          BY <2>0, <3>2 DEF FillInStep
        <4>2. burst' = None /\ ~FillDone(rdv) /\ fill'.wi = 0
          BY <2>2, <2>6, <3>1, <4>1 DEF FillDone
        <4>3. outstanding_cache_miss' /\ (fill_cache' <=> ~IssueFill(wait)) /\ (reading' <=> IssueFill(wait))
          BY <2>1, <2>3, <2>10, <3>1, <3>2, <4>1, <4>2 DEF IssueFill
        <4>4. reading' => LineOf(dmem'.a) = LineOf(fill') /\ dmem'.a.wi = 0
          BY <2>4, <3>1, <4>3 DEF LineOf
        <4> QED BY <4>2, <4>3, <4>4 DEF FillInStep
      <3>3. CASE reading
        <4>1. ~fill_cache /\ burst = None /\ rdv = FALSE /\ fill.wi = 0
              /\ LineOf(dmem.a) = LineOf(fill) /\ dmem.a.wi = 0
          BY <2>0, <3>3 DEF FillInStep
        <4>2. ~IssueFill(wait) /\ ~FillDone(rdv) /\ fill'.wi = 0
          BY <2>2, <3>1, <4>1 DEF FillDone, IssueFill
        <4>3. outstanding_cache_miss' /\ ~fill_cache' /\ (reading' <=> wait)
          BY <2>0, <2>1, <2>3, <2>10, <3>1, <3>3, <4>1, <4>2
        <4>4. burst' = IF wait THEN None ELSE dmem.a
          BY <2>0, <2>6, <3>3, <4>1
        <4>5. dmem.a \in Addr
          BY <3>3 DEF TypeOK, Request
        <4>6. wait => dmem' = dmem
          BY <2>5
        <4> QED BY <2>0, <3>1, <4>1, <4>2, <4>3, <4>4, <4>5, <4>6 DEF FillInStep, LineOf
      <3>4. CASE burst # None
        <4>1. ~fill_cache /\ ~reading
              /\ LineOf(burst) = LineOf(fill) /\ burst.wi = fill.wi
          BY <2>0, <3>4 DEF FillInStep
        <4>2. ~IssueFill(wait) /\ ~reading' /\ ~fill_cache'
          BY <2>1, <2>3, <3>1, <4>1 DEF IssueFill
        <4>3. CASE ~rdv
          BY <2>1, <2>2, <2>6, <2>10, <3>1, <3>4, <4>1, <4>2, <4>3 DEF FillInStep, FillDone
        <4>4. CASE rdv /\ fill.wi = LastWord
          <5>1. /\ ~(~wait /\ reading) /\ ~(rdv /\ burst.wi < LastWord)
                /\ rdv /\ burst.wi = LastWord
            BY <2>7, <3>4, <4>1, <4>4
          <5>2. burst' = None
            BY <2>6, <5>1, Zenon
          <5>3. ~outstanding_cache_miss'
            BY <2>1, <4>4 DEF FillDone
          <5> QED BY <4>2, <5>2, <5>3 DEF FillInStep
        <4>5. CASE rdv /\ fill.wi # LastWord
          <5>a. /\ ~(~wait /\ reading)
                /\ rdv /\ burst.wi < LastWord /\ burst.wi # LastWord
            BY <2>7, <3>4, <4>1, <4>5
          <5>b. burst' = [burst EXCEPT !.wi = @ + 1]
            BY <2>6, <5>a, Zenon
          <5>1. burst' = [burst EXCEPT !.wi = @ + 1] /\ outstanding_cache_miss'
            BY <2>1, <2>10, <4>5, <5>b DEF FillDone
          <5>2. fill'.wi = fill.wi + 1
            <6>1. fill'.wi = (fill.wi + 1) % (LastWord + 1)
              BY <2>2, <4>5
            <6>2. LastWord + 1 \in Nat /\ LastWord + 1 # 0 /\ fill.wi \in 0 .. (LastWord + 1) - 1
              BY <2>7
            <6> QED BY <2>7, <4>5, <6>1, <6>2, ModSucc
          <5>3. burst'.wi = burst.wi + 1 /\ LineOf(burst') = LineOf(burst) /\ burst' # None
            BY <2>7, <3>4, <4>1, <4>5, <5>1 DEF LineOf, Addr, Wi
          <5> QED BY <3>1, <4>1, <4>2, <5>1, <5>2, <5>3 DEF FillInStep
        <4> QED BY <2>0, <4>3, <4>4, <4>5
      <3> QED BY <2>8, <2>10, <3>2, <3>3, <3>4
    <2> QED BY <2>9, <2>10 DEF TypeOK
  <1> QED BY <1>1, <1>2 DEF Next

BaseInv == TypeOK /\ StoreBufferSlots /\ FillInStep

LEMMA BaseCorrect == Spec => []BaseInv
  <1>1. Init => BaseInv
    BY TypeInit, SlotsInit, FillInit DEF BaseInv
  <1>2. BaseInv /\ [Next]_vars => BaseInv'
    BY TypeNext, SlotsNext, FillNext DEF BaseInv
  <1> QED BY <1>1, <1>2, PTL DEF Spec

\* The registers never leave their types.
THEOREM TypeCorrect == Spec => []TypeOK
  BY BaseCorrect, PTL DEF BaseInv

\* No store in the buffer is overwritten, and none is issued that is not there.
THEOREM StoreBufferCorrect == Spec => []StoreBufferSlots
  BY BaseCorrect, PTL DEF BaseInv

\* The miss flag, the memory port and the memory agree on the fill in progress.
THEOREM FillCorrect == Spec => []FillInStep
  BY BaseCorrect, PTL DEF BaseInv

----------------------------------------------------------------------------
(***************************************************************************)
(* From here on, programs in which a load right behind a store to its word *)
(* hits the cache, as the comment at stage_M.v:663 takes for granted.      *)
(***************************************************************************)
LineInv == HazardsExclusive /\ QuietFill /\ OneHot

\* While an instruction is in ME nothing is being filled or read for another.
LEMMA Alone ==
  ASSUME BaseInv, QuietFill, x # None
  PROVE  /\ ~m_restart /\ ~outstanding_cache_miss /\ burst = None
         /\ ~peripherals_req.R /\ ~peripherals_readdatavalid
  BY DEF BaseInv, FillInStep, QuietFill

LEMMA LineNext ==
  ASSUME LoadBehindStore = "hits", BaseInv, LineInv, [Next]_vars
  PROVE  LineInv'
  <1>1. CASE UNCHANGED vars
    BY <1>1 DEF LineInv, HazardsExclusive, LoadHitStore, LoadMiss, x_miss, x_hits, Is, QuietFill,
                OneHot, vars, xVars, mVars, cacheVars, sbVars, fillVars, memVars, ioVars
  <1>2. ASSUME NEW wait \in WaitRequest, NEW rdv \in ReadDataValid, NEW hold \in Hold,
               Clock(wait, rdv, hold)
        PROVE  LineInv'
    <2> USE ConstantsAssumption
    <2>0. /\ wait \in BOOLEAN /\ rdv \in BOOLEAN /\ hold \in BOOLEAN
          /\ burst = None => rdv = FALSE
      BY Inputs, <1>2 DEF BaseInv
    <2>1. /\ x # None => ~m_restart /\ ~outstanding_cache_miss /\ burst = None /\ rdv = FALSE
                         /\ ~peripherals_req.R /\ ~peripherals_readdatavalid
          /\ ~outstanding_cache_miss => burst = None /\ rdv = FALSE
      BY <2>0, Alone DEF LineInv, BaseInv, FillInStep
    <2>2. /\ m_restart' = IF FillDone(rdv) \/ peripherals_readdatavalid
                            THEN FALSE
                            ELSE Restarts(hold) \/ (m_restart /\ ~one_shot_restart)
          /\ one_shot_restart' = (StoreRefused \/ LoadHitStore)
      BY <1>2 DEF Clock, Restart, RestartOver
    <2>3. /\ outstanding_cache_miss' = (~FillDone(rdv) /\ (outstanding_cache_miss \/ LoadMiss))
          /\ fill'.chk = IF StartFill THEN x.a.chk ELSE fill.chk
          /\ fill'.csi = IF StartFill THEN x.a.csi ELSE fill.csi
      BY <1>2 DEF Clock, Fill
    <2>4. tag_ram' = IF FillDone(rdv)
                       THEN [tag_ram EXCEPT ![fill.csi][fill.set] = fill.chk]
                       ELSE tag_ram
      BY <1>2 DEF Clock, TagRam, TagWrite
    <2>5. tag_ram \in [Csis -> [Ways -> Tags \cup {None}]] /\ fill.csi \in Csis
          /\ fill.set \in Ways /\ fill.chk \in Tags
      BY DEF BaseInv, TypeOK
    <2>6. x' # None => /\ ~m_restart' /\ ~m_restart /\ ~outstanding_cache_miss /\ tag_ram' = tag_ram
                       /\ \A w \in Ways : x'.op \in {"load", "store"} =>
                                            x_tag'[w] = tag_ram[x'.a.csi][w]
      <3>1. x' # None => ~m_restart' /\ ~m_restart
        BY <1>2 DEF Clock, Front, Flushed
      <3>2. \A w \in Ways : x' # None /\ x'.op \in {"load", "store"} =>
                             x_tag'[w] = tag_ram[x'.a.csi][w]
        BY <1>2 DEF Clock, Front, Flushed
      <3>3. ~m_restart => ~outstanding_cache_miss
        BY DEF LineInv, QuietFill
      <3> QED BY <2>1, <2>4, <3>1, <3>2, <3>3 DEF FillDone
    <2>7. HazardsExclusive'
      <3> SUFFICES ASSUME LoadHitStore' PROVE ~LoadMiss'
        BY DEF HazardsExclusive
      <3>1. x' # None /\ x'.op = "load" /\ x'.a = x_last_store_address'
        BY DEF LoadHitStore, Is
      <3>2. StoreTaken /\ x'.a = x.a
        <4>1. x' \in Instr /\ x'.a \in Addr
          <5>1. x' \in Program
            BY <1>2, <3>1 DEF Clock, Front, Flushed, BaseInv, TypeOK
          <5> QED BY <3>1, <5>1, InstrFields
        <4>2. x_last_store_address' = IF StoreTaken THEN x.a ELSE None
          BY <1>2 DEF Clock, StoreBuffer, Drains
        <4> QED BY <3>1, <4>1, <4>2
      <3>3. Behind(x')
        BY <3>1, <3>2 DEF Behind
      <3>4. Admitted(x')
        <4>1. ~m_restart' /\ x # None
          BY <2>6, <3>1, <3>2 DEF StoreTaken, Is
        <4>2. x' \in {None} \cup {i \in Program : Admitted(i)}
          BY <1>2, <3>1, <4>1 DEF Clock, Front, Flushed
        <4> QED BY <3>1, <4>2
      <3>5. PICK w \in Ways : tag_ram[x'.a.csi][w] = x'.a.chk
        BY <3>3, <3>4 DEF Admitted
      <3>6. x_tag'[w] = x'.a.chk
        BY <2>6, <3>1, <3>5
      <3> QED BY <3>6 DEF LoadMiss, x_miss, x_hits
    <2>8. QuietFill'
      <3>1. x' # None => ~m_restart'
        BY <2>6
      <3>2. (dmem' # None /\ ~dmem'.write) \/ burst' # None => store_buffer_rp' = store_buffer_wp'
        <4>1. SUFFICES ASSUME (dmem' # None /\ ~dmem'.write) \/ burst' # None
                       PROVE  store_buffer_rp' = store_buffer_wp'
          OBVIOUS
        <4>2. outstanding_cache_miss /\ store_buffer_rp = store_buffer_wp
          <5>1. CASE burst # None \/ (dmem # None /\ ~dmem.write)
            BY <5>1 DEF LineInv, QuietFill, BaseInv, FillInStep
          <5>2. CASE ~(burst # None \/ (dmem # None /\ ~dmem.write))
            <6>a. burst' = IF ~wait /\ dmem # None /\ ~dmem.write THEN dmem.a
                           ELSE IF ~rdv THEN burst
                           ELSE IF burst.wi = LastWord THEN None
                           ELSE [burst EXCEPT !.wi = @ + 1]
              BY <1>2 DEF Clock, Memory
            <6>0. burst = None
              BY <5>2, Zenon
            <6>b. burst = None /\ ~rdv
              BY <2>0, <6>0
            <6>c. ~(~wait /\ dmem # None /\ ~dmem.write)
              BY <5>2, Zenon
            <6>1. burst' = None
              BY <6>a, <6>b, <6>c, Zenon
            <6>2. dmem' # None /\ ~dmem'.write
              BY <4>1, <6>1
            <6>3. CASE wait
              <7>1. dmem' = dmem
                BY <1>2, <6>3 DEF Clock, MemoryPort, Drains, IssueFill
              <7> QED BY <5>2, <6>2, <7>1, Zenon
            <6>4. CASE ~wait /\ store_buffer_rp # store_buffer_wp
              <7>1. dmem' = [write |-> TRUE,
                             a |-> store_buffer[store_buffer_rp].a,
                             w |-> store_buffer[store_buffer_rp].w]
                BY <1>2, <6>4 DEF Clock, MemoryPort, Drains, IssueFill
              <7> QED BY <6>2, <7>1
            <6>5. CASE ~wait /\ store_buffer_rp = store_buffer_wp
              <7>1. IssueFill(wait)
                BY <1>2, <6>2, <6>5 DEF Clock, MemoryPort, Drains
              <7> QED BY <7>1 DEF IssueFill, BaseInv, FillInStep
            <6> QED BY <2>0, <6>3, <6>4, <6>5
          <5> QED BY <5>1, <5>2
        <4>3. x = None
          BY <2>1, <4>2
        <4> QED BY <1>2, <4>2, <4>3 DEF Clock, StoreBuffer, Drains, StoreTaken, Is
      <3>3. outstanding_cache_miss' =>
              /\ m_restart' /\ ~one_shot_restart'
              /\ \A w \in Ways : tag_ram'[fill'.csi][w] # fill'.chk
        <4>1. CASE outstanding_cache_miss /\ ~FillDone(rdv)
          <5>1. x = None /\ m_restart /\ ~one_shot_restart /\ ~peripherals_readdatavalid
            BY <2>1, <4>1 DEF LineInv, QuietFill
          <5>2. m_restart' /\ ~one_shot_restart'
            BY <2>2, <4>1, <5>1 DEF StoreRefused, LoadHitStore, Is
          <5>3. fill'.csi = fill.csi /\ fill'.chk = fill.chk /\ tag_ram' = tag_ram
            BY <2>3, <2>4, <4>1 DEF StartFill
          <5> QED BY <4>1, <5>2, <5>3 DEF LineInv, QuietFill
        <4>2. CASE ~outstanding_cache_miss /\ LoadMiss
          <5>1. x # None /\ x.op = "load" /\ ~FillDone(rdv) /\ ~peripherals_readdatavalid
            BY <2>1, <4>2 DEF LoadMiss, Is, FillDone
          <5>2. m_restart'
            BY <2>2, <4>2, <5>1 DEF Restarts
          <5>3. ~one_shot_restart'
            BY <2>2, <4>2, <5>1 DEF StoreRefused, Is, LineInv, HazardsExclusive
          <5>4. fill'.csi = x.a.csi /\ fill'.chk = x.a.chk /\ tag_ram' = tag_ram
            BY <2>3, <2>4, <4>2, <5>1 DEF StartFill
          <5>5. ASSUME NEW w \in Ways PROVE tag_ram[x.a.csi][w] # x.a.chk
            BY <4>2, <5>1 DEF LoadMiss, x_miss, x_hits, LineInv, QuietFill, Is
          <5> QED BY <5>2, <5>3, <5>4, <5>5
        <4> QED BY <2>3, <4>1, <4>2
      <3>4. Is("load")' \/ Is("store")' => \A w \in Ways : x_tag'[w] = tag_ram'[x'.a.csi][w]
        BY <2>6 DEF Is
      <3>5. /\ peripherals_req'.R = ((UncachedLoadWaits /\ ~uncached_load_pending) \/ (peripherals_req.R /\ hold))
            /\ peripherals_readdatavalid' = (peripherals_req.R /\ ~hold)
        BY <1>2 DEF Clock, Peripherals, UncachedRead
      <3>6. peripherals_req'.R \/ peripherals_readdatavalid' =>
              m_restart' /\ ~one_shot_restart' /\ ~outstanding_cache_miss'
        <4>1. CASE UncachedLoadWaits
          <5>1. x # None /\ x.op = "uload"
            BY <4>1 DEF UncachedLoadWaits, Is
          <5>2. ~FillDone(rdv) /\ ~peripherals_readdatavalid /\ ~outstanding_cache_miss
            BY <2>1, <5>1 DEF FillDone
          <5>3. m_restart'
            BY <2>2, <4>1, <5>2 DEF Restarts
          <5> QED BY <2>2, <2>3, <5>1, <5>2, <5>3 DEF StoreRefused, LoadHitStore, LoadMiss, Is
        <4>2. CASE peripherals_req.R
          <5>1. /\ m_restart /\ ~one_shot_restart /\ ~outstanding_cache_miss
                /\ ~peripherals_readdatavalid /\ x = None
            BY <2>1, <4>2 DEF LineInv, QuietFill
          <5>2. ~FillDone(rdv)
            BY <2>1, <5>1 DEF FillDone
          <5> QED BY <2>2, <2>3, <5>1, <5>2 DEF StoreRefused, LoadHitStore, LoadMiss, Is
        <4> QED BY <3>5, <4>1, <4>2
      <3>7. ~(peripherals_req'.R /\ peripherals_readdatavalid')
        BY <2>0, <2>1, <3>5 DEF UncachedLoadWaits, Is
      <3> QED BY <3>1, <3>2, <3>3, <3>4, <3>6, <3>7 DEF QuietFill
    <2>9. OneHot'
      <3>1. CASE FillDone(rdv)
        <4>1. \A w \in Ways : tag_ram[fill.csi][w] # fill.chk
          BY <2>0, <2>1, <3>1 DEF LineInv, QuietFill, FillDone
        <4>2. ASSUME NEW c \in Csis, NEW w \in Ways
              PROVE  tag_ram'[c][w] = IF c = fill.csi /\ w = fill.set THEN fill.chk ELSE tag_ram[c][w]
          BY <2>4, <2>5, <3>1
        <4> QED BY <4>1, <4>2 DEF LineInv, OneHot
      <3>2. CASE ~FillDone(rdv)
        BY <2>4, <3>2 DEF LineInv, OneHot
      <3> QED BY <3>1, <3>2
    <2> QED BY <2>7, <2>8, <2>9 DEF LineInv
  <1> QED BY <1>1, <1>2 DEF Next

LEMMA LineInit == Init => LineInv
  BY ConstantsAssumption DEF Init, LineInv, HazardsExclusive, LoadHitStore, Is, QuietFill, OneHot

LEMMA LineCorrect == ASSUME LoadBehindStore = "hits" PROVE Spec => []LineInv
  <1>1. BaseInv /\ LineInv /\ [Next]_vars => LineInv'
    BY LineNext
  <1> QED BY <1>1, LineInit, BaseCorrect, PTL DEF Spec

(***************************************************************************)
(* A line is never in two ways of the cache, whichever way each fill takes,*)
(* so the late select of x_lw_res is one-hot.                              *)
(***************************************************************************)
THEOREM OneHotCorrect == ASSUME LoadBehindStore = "hits" PROVE Spec => []OneHot
  BY LineCorrect, PTL DEF LineInv

(***************************************************************************)
(* No instruction that stage ME kills is forgotten: the pipeline is        *)
(* restarted at it.                                                        *)
(***************************************************************************)
THEOREM NothingLostCorrect == ASSUME LoadBehindStore = "hits" PROVE Spec => NothingLost
  <1>1. ASSUME BaseInv, LineInv, [Next]_vars
        PROVE  [x # None /\ m' = None => m_restart']_vars
    <2>1. SUFFICES ASSUME NEW wait \in WaitRequest, NEW rdv \in ReadDataValid, NEW hold \in Hold,
                          Clock(wait, rdv, hold), x # None, m' = None
                   PROVE  m_restart'
      BY <1>1 DEF Next
    <2>2. ~peripherals_readdatavalid /\ rdv = FALSE
      BY <1>1, <2>1, Alone, Inputs DEF LineInv, BaseInv
    <2>3. Restarts(hold)
      <3>1. SUFFICES ASSUME ~Restarts(hold) PROVE m' \in Retired
        BY <2>1, ConstantsAssumption
      <3>2. x_lw_res \in Word /\ x \in Program
        BY <1>1, <2>1 DEF x_lw_res, Word, BaseInv, TypeOK
      <3>3. m' = [i |-> x, res |-> Result] /\ Result \in Word \cup {None}
        BY <2>1, <3>1, <3>2 DEF Clock, Retire, Result
      <3> QED BY <3>2, <3>3 DEF Retired
    <2> QED BY <2>1, <2>2, <2>3 DEF Clock, Restart, RestartOver, FillDone
  <1>2. BaseInv /\ LineInv /\ [Next]_vars => [x # None /\ m' = None => m_restart']_vars
    BY <1>1
  <1> QED BY <1>2, BaseCorrect, LineCorrect, PTL DEF Spec, NothingLost

(***************************************************************************)
(* What the rest of the design takes for granted of the cache: the fill    *)
(* registers, the memory port and the memory are in step, the pipeline is  *)
(* quiet while a line is filled, and hits are one-hot.                     *)
(***************************************************************************)
THEOREM CoreCorrect == ASSUME LoadBehindStore = "hits" PROVE Spec => []CoreInv
  BY BaseCorrect, LineCorrect, PTL DEF BaseInv, LineInv, CoreInv

----------------------------------------------------------------------------
(***************************************************************************)
(* The uncached load.  Its read is in one place at a time: requested,      *)
(* answered, or waiting for the load to come round again; the pending flag *)
(* is up exactly while it is in one of them.                               *)
(***************************************************************************)
OneRead ==
  /\ uncached_load_pending <=>
       (peripherals_req.R \/ peripherals_readdatavalid \/ got_uncached_data)
  /\ ~(peripherals_req.R /\ got_uncached_data)
  /\ ~(peripherals_readdatavalid /\ got_uncached_data)
  /\ got_uncached_data => uncached_data = dev

LEMMA OneReadInit == Init => OneRead /\ UncachedOnce /\ RestartEnds
  BY DEF Init, OneRead, UncachedOnce, RestartEnds

\* What a clock edge does to the uncached load.
LEMMA ReadStep ==
  ASSUME BaseInv, LineInv, NEW wait \in WaitRequest, NEW rdv \in ReadDataValid,
         NEW hold \in Hold, Clock(wait, rdv, hold)
  PROVE  /\ hold \in BOOLEAN /\ rdv \in BOOLEAN
         /\ peripherals_req.R \in BOOLEAN
         /\ Is("uload") => ~peripherals_req.R /\ ~peripherals_readdatavalid
         /\ ~(peripherals_req.R /\ peripherals_readdatavalid)
         /\ peripherals_req'.R = ((UncachedLoadWaits /\ ~uncached_load_pending)
                                    \/ (peripherals_req.R /\ hold))
         /\ peripherals_readdatavalid' = (peripherals_req.R /\ ~hold)
         /\ got_uncached_data' = (peripherals_readdatavalid \/ (got_uncached_data /\ ~Is("uload")))
         /\ uncached_load_pending' = IF Is("uload") THEN ~got_uncached_data
                                                    ELSE uncached_load_pending
         /\ uncached_data' = IF peripherals_readdatavalid THEN dev ELSE uncached_data
         /\ dev' = IF peripherals_req.R /\ ~hold THEN (dev + 1) % DevSize ELSE dev
         /\ io_seen' = IF Is("uload") /\ got_uncached_data THEN uncached_data ELSE io_seen
  <1>1. hold \in BOOLEAN /\ rdv \in BOOLEAN /\ peripherals_req.R \in BOOLEAN
    BY Inputs DEF BaseInv, TypeOK
  <1>2. Is("uload") => ~peripherals_req.R /\ ~peripherals_readdatavalid
    BY Alone DEF LineInv, Is
  <1>3. ~(peripherals_req.R /\ peripherals_readdatavalid)
    BY DEF LineInv, QuietFill
  <1>4. Peripherals(hold) /\ Device(hold)
    BY DEF Clock
  <1> QED BY <1>1, <1>2, <1>3, <1>4 DEF Peripherals, Device, UncachedRead, UncachedLoadDone

LEMMA OneReadNext ==
  ASSUME BaseInv, LineInv, OneRead, UncachedOnce, [Next]_vars
  PROVE  OneRead' /\ UncachedOnce'
  <1>1. CASE UNCHANGED vars
    BY <1>1 DEF OneRead, UncachedOnce, vars, ioVars
  <1>2. ASSUME NEW wait \in WaitRequest, NEW rdv \in ReadDataValid, NEW hold \in Hold,
               Clock(wait, rdv, hold)
        PROVE  OneRead' /\ UncachedOnce'
    <2>1. OneRead'
      BY <1>2, ReadStep DEF OneRead, UncachedLoadWaits, BaseInv, TypeOK
    <2>2. CASE peripherals_req.R /\ ~hold
      <3>1. ~peripherals_readdatavalid /\ ~got_uncached_data
        BY <1>2, <2>2, ReadStep DEF OneRead
      <3>2. dev = io_seen /\ io_seen' = io_seen
        BY <1>2, <3>1, ReadStep DEF UncachedOnce
      <3> QED BY <1>2, <2>1, <2>2, <3>2, ReadStep DEF UncachedOnce
    <2>3. CASE ~(peripherals_req.R /\ ~hold)
      <3>1. ~peripherals_readdatavalid' /\ dev' = dev
        BY <1>2, <2>3, ReadStep
      <3>2. CASE Is("uload") /\ got_uncached_data
        <4>1. io_seen' = dev /\ ~got_uncached_data'
          BY <1>2, <3>2, ReadStep DEF OneRead
        <4> QED BY <2>1, <3>1, <4>1 DEF UncachedOnce
      <3>3. CASE ~(Is("uload") /\ got_uncached_data)
        <4>1. /\ io_seen' = io_seen
              /\ got_uncached_data' <=> peripherals_readdatavalid \/ got_uncached_data
          BY <1>2, <3>3, ReadStep
        <4>2. CASE peripherals_readdatavalid \/ got_uncached_data
          <5>1. got_uncached_data' /\ dev = (io_seen + 1) % DevSize
            BY <4>1, <4>2 DEF UncachedOnce
          <5> QED BY <2>1, <3>1, <4>1, <5>1 DEF UncachedOnce
        <4>3. CASE ~(peripherals_readdatavalid \/ got_uncached_data)
          <5>1. ~got_uncached_data' /\ dev = io_seen
            BY <4>1, <4>3 DEF UncachedOnce
          <5> QED BY <2>1, <3>1, <4>1, <5>1 DEF UncachedOnce
        <4> QED BY <4>2, <4>3
      <3> QED BY <3>2, <3>3
    <2> QED BY <2>1, <2>2, <2>3
  <1> QED BY <1>1, <1>2 DEF Next

LEMMA OneReadCorrect ==
  ASSUME LoadBehindStore = "hits" PROVE Spec => [](OneRead /\ UncachedOnce)
  <1>1. BaseInv /\ LineInv /\ (OneRead /\ UncachedOnce) /\ [Next]_vars => (OneRead /\ UncachedOnce)'
    BY OneReadNext
  <1> QED BY <1>1, OneReadInit, BaseCorrect, LineCorrect, PTL DEF Spec

(***************************************************************************)
(* Each uncached load that retires has read the peripheral once, whatever  *)
(* delays the peripheral and the refetch of the load take.                 *)
(***************************************************************************)
THEOREM UncachedOnceCorrect == ASSUME LoadBehindStore = "hits" PROVE Spec => []UncachedOnce
  BY OneReadCorrect, PTL

LEMMA RestartEndsNext ==
  ASSUME ~SlowPeripherals, BaseInv, LineInv, OneRead, RestartEnds, [Next]_vars
  PROVE  RestartEnds'
  <1>1. CASE UNCHANGED vars
    BY <1>1 DEF RestartEnds, vars, ioVars, mVars, fillVars
  <1>2. ASSUME NEW wait \in WaitRequest, NEW rdv \in ReadDataValid, NEW hold \in Hold,
               Clock(wait, rdv, hold)
        PROVE  RestartEnds'
    <2>1. SUFFICES ASSUME m_restart' PROVE RestartEnds'
      BY DEF RestartEnds
    <2>2. hold = FALSE
      BY DEF Hold
    <2>3. /\ m_restart' = IF FillDone(rdv) \/ peripherals_readdatavalid
                            THEN FALSE
                            ELSE Restarts(hold) \/ (m_restart /\ ~one_shot_restart)
          /\ one_shot_restart' = (StoreRefused \/ LoadHitStore)
          /\ outstanding_cache_miss' = (~FillDone(rdv) /\ (outstanding_cache_miss \/ LoadMiss))
      BY <1>2 DEF Clock, Restart, RestartOver, Fill
    <2>4. ~FillDone(rdv) /\ ~peripherals_readdatavalid
      BY <2>1, <2>3
    <2>5. CASE StoreRefused \/ LoadHitStore
      BY <2>3, <2>5 DEF RestartEnds
    <2>6. CASE LoadMiss \/ outstanding_cache_miss
      BY <2>3, <2>4, <2>6 DEF RestartEnds
    <2>7. CASE UncachedLoadWaits
      <3>1. ~uncached_load_pending
        BY <1>2, <2>7, ReadStep DEF OneRead, UncachedLoadWaits
      <3> QED BY <1>2, <2>7, <3>1, ReadStep DEF RestartEnds, UncachedLoadWaits
    <2>8. CASE m_restart /\ ~one_shot_restart /\ ~outstanding_cache_miss
      <3>1. uncached_load_pending /\ peripherals_req.R
        BY <2>4, <2>8 DEF RestartEnds
      <3>2. peripherals_readdatavalid' /\ uncached_load_pending'
        BY <1>2, <2>2, <3>1, ReadStep
      <3> QED BY <3>2 DEF RestartEnds
    <2> QED BY <2>1, <2>2, <2>3, <2>4, <2>5, <2>6, <2>7, <2>8 DEF Restarts, UncachedStoreRefused
  <1> QED BY <1>1, <1>2 DEF Next

(***************************************************************************)
(* A restart that is up has something under way that takes it down, as     *)
(* long as the peripherals do not hold (no board's do).  With HOLD the     *)
(* statement is false: see the run StageM_hold.                            *)
(***************************************************************************)
THEOREM RestartEndsCorrect ==
  ASSUME LoadBehindStore = "hits", ~SlowPeripherals
  PROVE  Spec => []RestartEnds
  <1>1. BaseInv /\ LineInv /\ (OneRead /\ UncachedOnce) /\ RestartEnds /\ [Next]_vars => RestartEnds'
    BY RestartEndsNext
  <1> QED BY <1>1, OneReadInit, BaseCorrect, LineCorrect, OneReadCorrect, PTL DEF Spec

----------------------------------------------------------------------------
(***************************************************************************)
(* The memory the program sees.  First the youngest of the stores to a     *)
(* byte: it exists, because the natural numbers are well founded.          *)
(***************************************************************************)
LEMMA NatOrder ==
  \E R : /\ IsWellFoundedOn(R, Nat)
         /\ \A s, t \in Nat : t < s => <<t, s>> \in R
  <1> DEFINE R == OpToRel(<, Nat)
  <1>1. IsWellFoundedOn(R, Nat)
    BY NatLessThanWellFounded, Zenon
  <1>2. \A s, t \in Nat : t < s => <<t, s>> \in R
    BY Zenon DEF OpToRel
  <1> HIDE DEF R
  <1> QED BY <1>1, <1>2, Zenon

LEMMA Smallest ==
  ASSUME NEW S \in SUBSET Nat, S # {}
  PROVE  \E s \in S : \A t \in S : s <= t
  <1>1. PICK R : /\ IsWellFoundedOn(R, Nat)
                 /\ \A s, t \in Nat : t < s => <<t, s>> \in R
    BY NatOrder, Zenon
  <1>2. PICK s \in S : \A t \in S : ~ (<<t, s>> \in R)
    BY <1>1, WFMin, Zenon
  <1>3. \A t \in S : ~ (t < s) /\ t \in Nat
    BY <1>1, <1>2
  <1> QED BY <1>2, <1>3

\* The age of a slot is its distance from the oldest.
LEMMA AgeValue ==
  ASSUME TypeOK, NEW s \in 0 .. SbSize - 1
  PROVE  /\ Age(s) = IF store_buffer_rp <= s THEN s - store_buffer_rp
                                             ELSE s + SbSize - store_buffer_rp
         /\ Age(s) \in 0 .. SbSize - 1
  <1>1. SbSize \in Nat \ {0} /\ store_buffer_rp \in 0 .. SbSize - 1
    BY ConstantsAssumption DEF TypeOK
  <1>2. CASE store_buffer_rp <= s
    <2>1. s + SbSize - store_buffer_rp = (s - store_buffer_rp) + SbSize
          /\ s - store_buffer_rp \in 0 .. SbSize - 1
      BY <1>1, <1>2
    <2>2. ASSUME NEW n \in Nat \ {0}, NEW k \in 0 .. n - 1 PROVE (k + n) % n = k
      BY <2>2
    <2> QED BY <1>1, <1>2, <2>1, <2>2 DEF Age
  <1>3. CASE ~(store_buffer_rp <= s)
    <2>1. s + SbSize - store_buffer_rp \in 0 .. SbSize - 1
      BY <1>1, <1>3
    <2>2. ASSUME NEW n \in Nat \ {0}, NEW k \in 0 .. n - 1 PROVE k % n = k
      BY <2>2
    <2> QED BY <1>1, <1>3, <2>1, <2>2 DEF Age
  <1> QED BY <1>2, <1>3

\* Slot s holds a store to byte l of word a; it is the youngest that does.
Holds(s, a, l) == s \in Pending /\ store_buffer[s].a = a /\ l \in DOMAIN store_buffer[s].w

Newest(s, a, l) ==
  /\ Holds(s, a, l)
  /\ \A t \in 0 .. SbSize - 1 : Holds(t, a, l) => Age(t) <= Age(s)

\* The store on the memory port writes byte l of word a.
OnPort(a, l) == dmem # None /\ dmem.write /\ dmem.a = a /\ l \in DOMAIN dmem.w

\* What Visible is, byte by byte.
VisibleIs ==
  /\ Visible \in [Addr -> Word]
  /\ \A a \in Addr, l \in Lanes :
       /\ \A s \in 0 .. SbSize - 1 : Newest(s, a, l) => Visible[a][l] = store_buffer[s].w[l]
       /\ \/ \E s \in 0 .. SbSize - 1 : Newest(s, a, l)
          \/ /\ \A s \in 0 .. SbSize - 1 : ~Holds(s, a, l)
             /\ Visible[a][l] = IF OnPort(a, l) THEN dmem.w[l] ELSE mem[a][l]

LEMMA NewestExists ==
  ASSUME TypeOK, NEW a, NEW l, NEW r \in 0 .. SbSize - 1, Holds(r, a, l)
  PROVE  \E s \in 0 .. SbSize - 1 : Newest(s, a, l)
  <1> DEFINE S == {s \in 0 .. SbSize - 1 : Holds(s, a, l)}
             Back(s) == SbSize - 1 - Age(s)
             B == {Back(s) : s \in S}
  <1>0. SbSize \in Nat /\ \A s \in S : s \in 0 .. SbSize - 1
    BY ConstantsAssumption
  <1>1. \A s \in S : Age(s) \in 0 .. SbSize - 1
    BY <1>0, AgeValue
  <1>2. B \in SUBSET Nat /\ B # {}
    <2>1. \A s \in S : Back(s) \in Nat
      BY <1>0, <1>1
    <2>2. r \in S
      OBVIOUS
    <2> HIDE DEF Back, S
    <2> QED BY <2>1, <2>2
  <1> HIDE DEF B
  <1>3. PICK b \in B : \A c \in B : b <= c
    BY <1>2, Smallest
  <1>4. PICK s \in S : b = Back(s)
    BY <1>3 DEF B
  <1>5. \A t \in S : Back(s) <= Back(t)
    BY <1>3, <1>4 DEF B
  <1>6. \A t \in S : Age(t) <= Age(s)
    BY <1>0, <1>1, <1>4, <1>5
  <1> QED BY <1>6 DEF Newest

LEMMA VisibleValue == TypeOK /\ StoreBufferSlots => VisibleIs
  <1> SUFFICES ASSUME TypeOK, StoreBufferSlots PROVE VisibleIs
    OBVIOUS
  <1>1. ASSUME NEW a \in Addr, NEW l \in Lanes
        PROVE  /\ \A s \in 0 .. SbSize - 1 : Newest(s, a, l) => Youngest(InFlight(a, l)) = s
               /\ InFlight(a, l) = {s \in 0 .. SbSize - 1 : Holds(s, a, l)}
    <2>1. InFlight(a, l) = {s \in 0 .. SbSize - 1 : Holds(s, a, l)}
      BY DEF InFlight, Holds, Pending
    <2>2. ASSUME NEW s \in 0 .. SbSize - 1, Newest(s, a, l)
          PROVE  Youngest(InFlight(a, l)) = s
      <3> DEFINE Y(t) == t \in InFlight(a, l) /\ \A u \in InFlight(a, l) : Age(u) <= Age(t)
      <3>1. Y(s)
        BY <2>1, <2>2 DEF Newest
      <3>2. ASSUME NEW t, Y(t) PROVE t = s
        <4>1. t \in 0 .. SbSize - 1 /\ Age(t) <= Age(s) /\ Age(s) <= Age(t)
          BY <2>1, <3>1, <3>2
        <4>2. SbSize \in Nat /\ store_buffer_rp \in 0 .. SbSize - 1
          BY ConstantsAssumption DEF TypeOK
        <4> QED BY <4>1, <4>2, AgeValue
      <3>3. Y(Youngest(InFlight(a, l)))
        BY <3>1, Zenon DEF Youngest
      <3> QED BY <3>2, <3>3
    <2> QED BY <2>1, <2>2
  <1>2. ASSUME NEW a \in Addr, NEW l \in Lanes
        PROVE  /\ \A s \in 0 .. SbSize - 1 : Newest(s, a, l) =>
                    Visible[a][l] = store_buffer[s].w[l] /\ store_buffer[s].w[l] \in BOOLEAN
               /\ \/ \E s \in 0 .. SbSize - 1 : Newest(s, a, l)
                  \/ /\ \A s \in 0 .. SbSize - 1 : ~Holds(s, a, l)
                     /\ Visible[a][l] = IF OnPort(a, l) THEN dmem.w[l] ELSE mem[a][l]
                     /\ Visible[a][l] \in BOOLEAN
    <2>1. Visible[a][l] = IF InFlight(a, l) # {}
                            THEN store_buffer[Youngest(InFlight(a, l))].w[l]
                          ELSE IF OnPort(a, l) THEN dmem.w[l] ELSE mem[a][l]
      BY Zenon DEF Visible, OnPort
    <2>2. ASSUME NEW s \in 0 .. SbSize - 1, Newest(s, a, l)
          PROVE  Visible[a][l] = store_buffer[s].w[l] /\ store_buffer[s].w[l] \in BOOLEAN
      <3>1. InFlight(a, l) # {} /\ Youngest(InFlight(a, l)) = s
        BY <1>1, <2>2 DEF Newest
      <3>2. store_buffer[s] \in StoreEntry /\ l \in DOMAIN store_buffer[s].w
        BY <2>2 DEF Newest, Holds, TypeOK, StoreBufferSlots
      <3>3. store_buffer[s].w \in StoreData
        BY <3>2 DEF StoreEntry
      <3>4. store_buffer[s].w[l] \in BOOLEAN
        BY <3>2, <3>3 DEF StoreData
      <3> QED BY <2>1, <3>1, <3>4
    <2>3. CASE \E s \in 0 .. SbSize - 1 : Holds(s, a, l)
      BY <2>2, <2>3, NewestExists
    <2>4. CASE \A s \in 0 .. SbSize - 1 : ~Holds(s, a, l)
      <3>1. InFlight(a, l) = {}
        BY <1>1, <2>4
      <3>2. OnPort(a, l) => dmem.w[l] \in BOOLEAN
        <4>1. OnPort(a, l) => dmem.w \in StoreData /\ l \in DOMAIN dmem.w
          BY DEF TypeOK, Request, OnPort
        <4> QED BY <4>1 DEF StoreData
      <3>3. mem[a][l] \in BOOLEAN
        BY DEF TypeOK, Word
      <3> QED BY <2>1, <2>2, <2>4, <3>1, <3>2, <3>3
    <2> QED BY <2>2, <2>3, <2>4
  <1>3. Visible \in [Addr -> Word]
    <2>1. \A a \in Addr, l \in Lanes : Visible[a][l] \in BOOLEAN
      BY <1>2
    <2>2. Visible = [a \in Addr |-> [l \in Lanes |-> Visible[a][l]]]
      BY Zenon DEF Visible
    <2> QED BY <2>1, <2>2 DEF Word
  <1> QED BY <1>2, <1>3 DEF VisibleIs

LEMMA VisibleValueNext == TypeOK' /\ StoreBufferSlots' => VisibleIs'
  BY VisibleValue, PTL

LEMMA AgeValueNext ==
  TypeOK' => (\A s \in 0 .. SbSize - 1 :
                Age(s) = IF store_buffer_rp <= s THEN s - store_buffer_rp
                                                 ELSE s + SbSize - store_buffer_rp)'
  <1>1. TypeOK => \A s \in 0 .. SbSize - 1 :
          Age(s) = IF store_buffer_rp <= s THEN s - store_buffer_rp
                                           ELSE s + SbSize - store_buffer_rp
    BY AgeValue
  <1> QED BY <1>1, PTL

(***************************************************************************)
(* What a clock edge does to the slots: the store taken comes in as the    *)
(* youngest, the oldest goes out, and the others keep their order.         *)
(***************************************************************************)
LEMMA SlotStep ==
  ASSUME TypeOK, StoreBufferSlots, TypeOK', StoreBufferSlots',
         NEW wait \in WaitRequest, NEW rdv \in ReadDataValid, NEW hold \in Hold,
         Clock(wait, rdv, hold), NEW s \in 0 .. SbSize - 1
  PROVE  /\ s \in Pending' <=> \/ StoreTaken /\ s = store_buffer_wp
                               \/ s \in Pending /\ ~(Drains(wait) /\ s = store_buffer_rp)
         /\ store_buffer'[s] = CASE StoreTaken /\ s = store_buffer_wp -> [a |-> x.a, w |-> x.w]
                                 [] Drains(wait) /\ s = store_buffer_rp -> None
                                 [] OTHER -> store_buffer[s]
         /\ store_buffer_wp \notin Pending
         /\ Drains(wait) => store_buffer_rp \in Pending /\ store_buffer_rp # store_buffer_wp
         /\ s \in Pending /\ Drains(wait) =>
              IF s = store_buffer_rp THEN Age(s) = 0 ELSE Age(s)' = Age(s) - 1 /\ Age(s) > 0
         /\ s \in Pending /\ ~Drains(wait) => Age(s)' = Age(s)
         /\ s \in Pending' /\ StoreTaken =>
              \A r \in 0 .. SbSize - 1 : r = store_buffer_wp => Age(s)' <= Age(r)'
  <1> USE ConstantsAssumption
  <1>1. /\ store_buffer_wp \in 0 .. SbSize - 1
        /\ store_buffer_rp \in 0 .. SbSize - 1
        /\ DOMAIN store_buffer = 0 .. SbSize - 1
        /\ SbSize \in Nat \ {0, 1}
    BY DEF TypeOK
  <1>2. /\ SbSucc(store_buffer_wp) = IF store_buffer_wp = SbSize - 1 THEN 0 ELSE store_buffer_wp + 1
        /\ SbSucc(store_buffer_rp) = IF store_buffer_rp = SbSize - 1 THEN 0 ELSE store_buffer_rp + 1
    BY <1>1, SbSuccValue
  <1>3. /\ store_buffer_wp' = IF StoreTaken THEN SbSucc(store_buffer_wp) ELSE store_buffer_wp
        /\ store_buffer_rp' = IF Drains(wait) THEN SbSucc(store_buffer_rp) ELSE store_buffer_rp
        /\ store_buffer'[s] = CASE StoreTaken /\ s = store_buffer_wp -> [a |-> x.a, w |-> x.w]
                                [] Drains(wait) /\ s = store_buffer_rp -> None
                                [] OTHER -> store_buffer[s]
    BY <1>1 DEF Clock, StoreBuffer
  <1>4. StoreTaken => SbSucc(store_buffer_wp) # store_buffer_rp
    BY DEF StoreTaken, StoreBufferFull
  <1>5. Drains(wait) => store_buffer_rp # store_buffer_wp
    BY DEF Drains
  <1>6. /\ s \in Pending' <=> \/ StoreTaken /\ s = store_buffer_wp
                              \/ s \in Pending /\ ~(Drains(wait) /\ s = store_buffer_rp)
        /\ store_buffer_wp \notin Pending
        /\ Drains(wait) => store_buffer_rp \in Pending
    BY <1>1, <1>2, <1>3, <1>4, <1>5 DEF Pending
  <1>7. \A r \in 0 .. SbSize - 1 :
          /\ Age(r) = IF store_buffer_rp <= r THEN r - store_buffer_rp
                                              ELSE r + SbSize - store_buffer_rp
          /\ Age(r)' = IF store_buffer_rp' <= r THEN r - store_buffer_rp'
                                                ELSE r + SbSize - store_buffer_rp'
    BY AgeValue, AgeValueNext
  <1>8. s \in Pending /\ Drains(wait) =>
          IF s = store_buffer_rp THEN Age(s) = 0 ELSE Age(s)' = Age(s) - 1 /\ Age(s) > 0
    <2>1. /\ Age(s) = IF store_buffer_rp <= s THEN s - store_buffer_rp
                                              ELSE s + SbSize - store_buffer_rp
          /\ Age(s)' = IF store_buffer_rp' <= s THEN s - store_buffer_rp'
                                                ELSE s + SbSize - store_buffer_rp'
      BY <1>7
    <2>2. Drains(wait) => store_buffer_rp' = IF store_buffer_rp = SbSize - 1 THEN 0
                                                                   ELSE store_buffer_rp + 1
      BY <1>2, <1>3
    <2> QED BY <1>1, <2>1, <2>2
  <1>9. s \in Pending /\ ~Drains(wait) => Age(s)' = Age(s)
    BY <1>1, <1>3, <1>7
  <1>10. ASSUME s \in Pending', StoreTaken, NEW r \in 0 .. SbSize - 1, r = store_buffer_wp
         PROVE  Age(s)' <= Age(r)'
    <2> DEFINE rp == store_buffer_rp'
    <2>2. rp \in 0 .. SbSize - 1 /\ store_buffer_wp' = SbSucc(r)
      BY <1>3, <1>10 DEF TypeOK
    <2>3. IF rp <= store_buffer_wp' THEN rp <= s /\ s < store_buffer_wp'
                                    ELSE rp <= s \/ s < store_buffer_wp'
      BY <1>10 DEF Pending
    <2>4. /\ Age(s)' = IF rp <= s THEN s - rp ELSE s + SbSize - rp
          /\ Age(r)' = IF rp <= r THEN r - rp ELSE r + SbSize - rp
      BY <1>7
    <2>5. SbSucc(r) = IF r = SbSize - 1 THEN 0 ELSE r + 1
      BY <1>2, <1>10
    <2> HIDE DEF rp
    <2> QED BY <1>1, <2>2, <2>3, <2>4, <2>5
  <1> QED BY <1>3, <1>5, <1>6, <1>8, <1>9, <1>10

LEMMA HoldsStep ==
  ASSUME TypeOK, StoreBufferSlots, TypeOK', StoreBufferSlots',
         NEW wait \in WaitRequest, NEW rdv \in ReadDataValid, NEW hold \in Hold,
         Clock(wait, rdv, hold), NEW s \in 0 .. SbSize - 1, NEW a, NEW l
  PROVE  /\ Holds(s, a, l)' <=>
              \/ StoreTaken /\ s = store_buffer_wp /\ x.a = a /\ l \in DOMAIN x.w
              \/ Holds(s, a, l) /\ ~(Drains(wait) /\ s = store_buffer_rp)
         /\ Holds(s, a, l) => s # store_buffer_wp
         /\ Holds(s, a, l) /\ ~(Drains(wait) /\ s = store_buffer_rp) =>
              store_buffer'[s] = store_buffer[s]
         /\ StoreTaken /\ s = store_buffer_wp => store_buffer'[s] = [a |-> x.a, w |-> x.w]
  <1>1. /\ s \in Pending' <=> \/ StoreTaken /\ s = store_buffer_wp
                              \/ s \in Pending /\ ~(Drains(wait) /\ s = store_buffer_rp)
        /\ store_buffer_wp \notin Pending
    BY SlotStep
  <1>2. /\ StoreTaken /\ s = store_buffer_wp => store_buffer'[s] = [a |-> x.a, w |-> x.w]
        /\ ~(StoreTaken /\ s = store_buffer_wp) /\ ~(Drains(wait) /\ s = store_buffer_rp) =>
             store_buffer'[s] = store_buffer[s]
    BY SlotStep
  <1>3. Holds(s, a, l)' <=> s \in Pending' /\ store_buffer'[s].a = a /\ l \in DOMAIN store_buffer'[s].w
    BY DEF Holds
  <1>4. Holds(s, a, l) => s # store_buffer_wp
    BY <1>1 DEF Holds
  <1>5. CASE StoreTaken /\ s = store_buffer_wp
    <2>1. store_buffer'[s].a = x.a /\ store_buffer'[s].w = x.w
      BY <1>2, <1>5
    <2> QED BY <1>1, <1>2, <1>3, <1>4, <1>5, <2>1
  <1>6. CASE ~(StoreTaken /\ s = store_buffer_wp)
    BY <1>1, <1>2, <1>3, <1>4, <1>6 DEF Holds
  <1> QED BY <1>5, <1>6

(***************************************************************************)
(* What a clock edge does to the memory the program sees: it takes the     *)
(* store that ME takes.  Issuing a store to the memory port and writing it *)
(* to the memory change nothing.                                           *)
(***************************************************************************)
LEMMA ByteStep ==
  ASSUME TypeOK, StoreBufferSlots, TypeOK', StoreBufferSlots',
         NEW wait \in WaitRequest, NEW rdv \in ReadDataValid, NEW hold \in Hold,
         Clock(wait, rdv, hold), NEW a \in Addr, NEW l \in Lanes
  PROVE  Visible'[a][l] = IF StoreTaken /\ x.a = a /\ l \in DOMAIN x.w
                            THEN x.w[l] ELSE Visible[a][l]
  <1> DEFINE taken == StoreTaken /\ x.a = a /\ l \in DOMAIN x.w
             Out(s) == Drains(wait) /\ s = store_buffer_rp
  <1>1. store_buffer_wp \in 0 .. SbSize - 1 /\ store_buffer_rp \in 0 .. SbSize - 1
    BY DEF TypeOK
  <1>2. \A s \in 0 .. SbSize - 1 :
          /\ Holds(s, a, l)' <=> (taken /\ s = store_buffer_wp) \/ (Holds(s, a, l) /\ ~Out(s))
          /\ Holds(s, a, l) => s # store_buffer_wp /\ s \in Pending
          /\ Holds(s, a, l) /\ ~Out(s) => store_buffer'[s] = store_buffer[s]
          /\ StoreTaken /\ s = store_buffer_wp => store_buffer'[s] = [a |-> x.a, w |-> x.w]
    BY HoldsStep DEF Holds
  <1>3. \A s \in 0 .. SbSize - 1 :
          /\ s \in Pending /\ Out(s) => Age(s) = 0
          /\ s \in Pending /\ ~Out(s) /\ Drains(wait) => Age(s)' = Age(s) - 1 /\ Age(s) > 0
          /\ s \in Pending /\ ~Drains(wait) => Age(s)' = Age(s)
          /\ s \in Pending' /\ StoreTaken =>
               \A r \in 0 .. SbSize - 1 : r = store_buffer_wp => Age(s)' <= Age(r)'
    BY SlotStep
  <1>4. \A s \in 0 .. SbSize - 1 : Age(s) \in 0 .. SbSize - 1
    BY AgeValue
  <1>5. VisibleIs /\ VisibleIs'
    BY VisibleValue, VisibleValueNext
  <1>6. \A s \in 0 .. SbSize - 1 : Newest(s, a, l)' => Visible'[a][l] = store_buffer'[s].w[l]
    BY <1>5 DEF VisibleIs
  <1>7. \A s \in 0 .. SbSize - 1 : Newest(s, a, l) => Visible[a][l] = store_buffer[s].w[l]
    BY <1>5 DEF VisibleIs
  <1>8. CASE taken
    <2>1. PICK s \in 0 .. SbSize - 1 : s = store_buffer_wp
      BY <1>1
    <2>2. Holds(s, a, l)' /\ store_buffer'[s].w = x.w
      BY <1>2, <1>8, <2>1
    <2>3. \A t \in 0 .. SbSize - 1 : Holds(t, a, l)' => Age(t)' <= Age(s)'
      BY <1>3, <1>8, <2>1 DEF Holds
    <2>4. Newest(s, a, l)'
      BY <2>2, <2>3 DEF Newest
    <2> QED BY <1>6, <1>8, <2>2, <2>4
  <1>9. CASE ~taken /\ \E s \in 0 .. SbSize - 1 : Holds(s, a, l) /\ ~Out(s)
    <2>1. PICK s \in 0 .. SbSize - 1 : Newest(s, a, l)
      BY <1>9, NewestExists
    <2>2. Holds(s, a, l) /\ \A t \in 0 .. SbSize - 1 : Holds(t, a, l) => Age(t) <= Age(s)
      BY <2>1 DEF Newest
    <2>3. ~Out(s)
      <3>1. SUFFICES ASSUME Out(s) PROVE FALSE
        OBVIOUS
      <3>2. PICK t \in 0 .. SbSize - 1 : Holds(t, a, l) /\ ~Out(t)
        BY <1>9
      <3>3. Age(t) > 0 /\ Age(s) = 0 /\ Age(t) <= Age(s)
        BY <1>2, <1>3, <2>2, <3>1, <3>2
      <3> QED BY <1>4, <3>3
    <2>4. Holds(s, a, l)' /\ store_buffer'[s] = store_buffer[s]
      BY <1>2, <2>2, <2>3
    <2>5. ASSUME NEW t \in 0 .. SbSize - 1, Holds(t, a, l)' PROVE Age(t)' <= Age(s)'
      <3>1. Holds(t, a, l) /\ ~Out(t)
        BY <1>2, <1>9, <2>5
      <3>2. Age(t) <= Age(s) /\ t \in Pending /\ s \in Pending
        BY <1>2, <2>2, <3>1
      <3>3. IF Drains(wait) THEN Age(t)' = Age(t) - 1 /\ Age(s)' = Age(s) - 1
                            ELSE Age(t)' = Age(t) /\ Age(s)' = Age(s)
        BY <1>3, <2>3, <3>1, <3>2
      <3> QED BY <1>4, <3>2, <3>3
    <2>6. Newest(s, a, l)'
      BY <2>4, <2>5 DEF Newest
    <2> QED BY <1>6, <1>7, <1>9, <2>1, <2>4, <2>6
  <1>10. CASE ~taken /\ \A s \in 0 .. SbSize - 1 : Holds(s, a, l) => Out(s)
    <2>1. \A s \in 0 .. SbSize - 1 : ~Holds(s, a, l)'
      BY <1>2, <1>10
    <2>2. Visible'[a][l] = IF OnPort(a, l)' THEN dmem'.w[l] ELSE mem'[a][l]
      BY <1>5, <2>1 DEF VisibleIs, Newest
    <2>3. /\ wait \in BOOLEAN
          /\ wait => dmem' = dmem /\ mem' = mem
          /\ Drains(wait) => dmem' = [write |-> TRUE,
                                      a |-> store_buffer[store_buffer_rp].a,
                                      w |-> store_buffer[store_buffer_rp].w]
          /\ ~wait /\ ~Drains(wait) => dmem' = None \/ ~dmem'.write
          /\ ~wait /\ dmem # None /\ dmem.write => mem' = [mem EXCEPT ![dmem.a] = Merge(dmem.w, @)]
          /\ ~(~wait /\ dmem # None /\ dmem.write) => mem' = mem
      <3>1. wait \in BOOLEAN
        BY Inputs
      <3>2. wait => dmem' = dmem
        BY DEF Clock, MemoryPort, Drains, IssueFill
      <3>3. Drains(wait) => dmem' = [write |-> TRUE,
                                     a |-> store_buffer[store_buffer_rp].a,
                                     w |-> store_buffer[store_buffer_rp].w]
        BY <3>1 DEF Clock, MemoryPort, Drains, IssueFill
      <3>4. ~wait /\ ~Drains(wait) => dmem' = None \/ ~dmem'.write
        BY DEF Clock, MemoryPort
      <3> QED BY <3>1, <3>2, <3>3, <3>4 DEF Clock, Memory
    <2> DEFINE rp == store_buffer_rp
    <2>4. Drains(wait) => dmem' # None
      <3>1. Drains(wait) => rp \in Pending
        BY <1>1, SlotStep
      <3>2. Drains(wait) => store_buffer[rp] \in StoreEntry
        BY <3>1, <1>1 DEF TypeOK, StoreBufferSlots
      <3>3. ASSUME Drains(wait) PROVE dmem' \in Request
        <4>1. store_buffer[rp].a \in Addr /\ store_buffer[rp].w \in StoreData
          BY <3>2, <3>3 DEF StoreEntry
        <4>2. dmem' = [write |-> TRUE, a |-> store_buffer[rp].a, w |-> store_buffer[rp].w]
          BY <2>3, <3>3
        <4> HIDE DEF rp
        <4> QED BY <4>1, <4>2 DEF Request
      <3> QED BY <3>3, ConstantsAssumption
    <2>5. CASE \E s \in 0 .. SbSize - 1 : Holds(s, a, l)
      <3>1. Holds(rp, a, l) /\ Drains(wait)
        BY <1>10, <2>5
      <3>2. Newest(rp, a, l)
        BY <1>1, <1>2, <1>3, <1>4, <1>10, <3>1 DEF Newest
      <3>3. OnPort(a, l)' /\ dmem'.w = store_buffer[rp].w
        BY <2>3, <2>4, <3>1 DEF OnPort, Holds
      <3> QED BY <1>1, <1>7, <1>10, <2>2, <3>2, <3>3
    <2>6. CASE \A s \in 0 .. SbSize - 1 : ~Holds(s, a, l)
      <3>1. Visible[a][l] = IF OnPort(a, l) THEN dmem.w[l] ELSE mem[a][l]
        BY <1>5, <2>6 DEF VisibleIs, Newest
      <3>2. CASE wait
        BY <1>10, <2>2, <2>3, <3>1, <3>2 DEF OnPort
      <3>3. CASE ~wait
        <4>1. ~OnPort(a, l)'
          <5>1. Drains(wait) => rp \in Pending /\ ~Holds(rp, a, l)
            BY <1>1, <2>6, SlotStep
          <5> QED BY <2>3, <3>3, <5>1 DEF OnPort, Holds
        <4>2. mem'[a][l] = IF OnPort(a, l) THEN dmem.w[l] ELSE mem[a][l]
          <5>1. mem \in [Addr -> Word]
            BY DEF TypeOK
          <5>2. CASE dmem # None /\ dmem.write
            <6>1. mem'[a] = IF a = dmem.a THEN Merge(dmem.w, mem[a]) ELSE mem[a]
              BY <2>3, <3>3, <5>1, <5>2
            <6> QED BY <5>2, <6>1 DEF OnPort, Merge
          <5>3. CASE ~(dmem # None /\ dmem.write)
            BY <2>3, <5>3 DEF OnPort
          <5> QED BY <5>2, <5>3
        <4> QED BY <1>10, <2>2, <3>1, <4>1, <4>2
      <3> QED BY <2>3, <3>2, <3>3
    <2> QED BY <2>5, <2>6
  <1> QED BY <1>8, <1>9, <1>10

LEMMA VisibleStep ==
  ASSUME BaseInv, BaseInv',
         NEW wait \in WaitRequest, NEW rdv \in ReadDataValid, NEW hold \in Hold,
         Clock(wait, rdv, hold)
  PROVE  Visible' = IF StoreTaken THEN [Visible EXCEPT ![x.a] = Merge(x.w, @)] ELSE Visible
  <1>1. Visible \in [Addr -> Word] /\ Visible' \in [Addr -> Word]
    BY VisibleValue, VisibleValueNext DEF BaseInv, VisibleIs
  <1>2. \A a \in Addr, l \in Lanes :
          Visible'[a][l] = IF StoreTaken /\ x.a = a /\ l \in DOMAIN x.w
                             THEN x.w[l] ELSE Visible[a][l]
    BY ByteStep DEF BaseInv
  <1> DEFINE V == IF StoreTaken THEN [Visible EXCEPT ![x.a] = Merge(x.w, @)] ELSE Visible
  <1>3. StoreTaken => x.a \in Addr /\ x.w \in StoreData
    BY InstrFields, ConstantsAssumption DEF StoreTaken, Is, BaseInv, TypeOK
  <1>4. V \in [Addr -> Word]
    BY <1>1, <1>3, MergeType
  <1>5. \A a \in Addr, l \in Lanes : V[a][l] = Visible'[a][l]
    BY <1>1, <1>2, <1>3 DEF Merge
  <1> HIDE DEF V
  <1>6. \A a \in Addr : V[a] = Visible'[a]
    BY <1>1, <1>4, <1>5 DEF Word
  <1>7. V = Visible'
    BY <1>1, <1>4, <1>6
  <1> QED BY <1>7 DEF V

----------------------------------------------------------------------------
(***************************************************************************)
(* The inductive invariant behind CacheCoherent.  An instruction in ME is  *)
(* the one that was restarted, if one was; a fill is not for a store, and  *)
(* has replaced the words before fill_wi by what the program sees of the   *)
(* line it fetches, with nothing on the memory port while the memory sends;*)
(* and the data memories' outputs are still good for a load, except behind *)
(* a store to its word.                                                    *)
(***************************************************************************)
Replays == x # None => replay \in {None, x}

FillReplay == outstanding_cache_miss => replay = None \/ replay.op # "store"

PortQuiet == burst # None => dmem = None

Filled ==
  outstanding_cache_miss =>
    \A i \in Wi : i < fill.wi =>
      dc_ram[fill.set][[csi |-> fill.csi, wi |-> i]]
        = Visible[[chk |-> fill.chk, csi |-> fill.csi, wi |-> i]]

ReadsCache ==
  Is("load") /\ x.a # x_last_store_address =>
    \A w \in x_hits : dc_q[w] = dc_ram[w][[csi |-> x.a.csi, wi |-> x.a.wi]]

CacheInv == Replays /\ FillReplay /\ PortQuiet /\ Filled /\ ReadsCache /\ CacheCoherent

\* The ways that hit hold the tag, and there is at most one.
LEMMA Hits ==
  ASSUME BaseInv, LineInv, Is("load") \/ Is("store")
  PROVE  /\ x.a \in Addr /\ x.w \in StoreData
         /\ \A w \in Ways : w \in x_hits <=> tag_ram[x.a.csi][w] = x.a.chk
         /\ \A v, w \in x_hits : v = w
  <1>1. x \in Instr /\ x.op \in {"load", "store"}
    BY ConstantsAssumption DEF BaseInv, TypeOK, Is
  <1>2. x.a \in Addr /\ x.w \in StoreData
    BY <1>1, InstrFields
  <1>3. \A w \in Ways : w \in x_hits <=> tag_ram[x.a.csi][w] = x.a.chk
    BY DEF x_hits, LineInv, QuietFill
  <1>4. x.a.csi \in Csis /\ x.a.chk # None
    BY <1>2, ConstantsAssumption DEF Addr
  <1>5. \A v, w \in x_hits : v = w
    <2>1. \A v \in x_hits : v \in Ways
      BY DEF x_hits
    <2> QED BY <1>3, <1>4, <2>1 DEF LineInv, OneHot
  <1> QED BY <1>2, <1>3, <1>5

\* What a clock edge writes to the data memories: a word of the line that is
\* being filled, or the store in ME where it hits.
LEMMA DataStep ==
  ASSUME BaseInv, LineInv,
         NEW wait \in WaitRequest, NEW rdv \in ReadDataValid, NEW hold \in Hold,
         Clock(wait, rdv, hold), NEW w \in Ways, NEW d \in [csi : Csis, wi : Wi]
  PROVE  dc_ram'[w][d] =
           IF rdv /\ w = fill.set /\ d = [csi |-> fill.csi, wi |-> fill.wi] THEN mem[burst]
           ELSE IF Is("store") /\ w \in x_hits /\ d = [csi |-> x.a.csi, wi |-> x.a.wi]
                  THEN Merge(x.w, dc_ram[w][d])
           ELSE dc_ram[w][d]
  <1> DEFINE loc == IF outstanding_cache_miss
                      THEN [csi |-> fill.csi, wi |-> fill.wi]
                      ELSE [csi |-> x.a.csi, wi |-> x.a.wi]
             New(old) == IF outstanding_cache_miss THEN ReadData ELSE Merge(x.w, old)
  <1>1. PICK set \in IF Is("store") /\ ~x_miss THEN x_hits ELSE {None} :
          LET wren == {v \in Ways : (rdv /\ fill.set = v) \/ set = v}
          IN dc_ram' = IF wren = {} THEN dc_ram
                       ELSE [v \in Ways |-> IF v \in wren
                                              THEN [dc_ram[v] EXCEPT ![loc] = New(@)]
                                              ELSE dc_ram[v]]
    BY Zenon DEF Clock, DataRam
  <1> HIDE DEF loc, New
  <1>2. dc_ram \in [Ways -> [[csi : Csis, wi : Wi] -> Word]]
    BY DEF BaseInv, TypeOK
  <1>3. dc_ram'[w] = IF (rdv /\ fill.set = w) \/ set = w
                       THEN [dc_ram[w] EXCEPT ![loc] = New(@)] ELSE dc_ram[w]
    BY <1>1, <1>2
  <1>4. dc_ram'[w][d] = IF ((rdv /\ fill.set = w) \/ set = w) /\ d = loc
                          THEN New(dc_ram[w][d]) ELSE dc_ram[w][d]
    BY <1>2, <1>3
  <1>5. rdv \in BOOLEAN /\ (burst = None => rdv = FALSE)
    BY Inputs DEF BaseInv
  <1>6. CASE rdv
    <2>1. burst # None /\ outstanding_cache_miss /\ x = None
      BY <1>5, <1>6, Alone DEF BaseInv, FillInStep, LineInv
    <2>2. set = None /\ ~Is("store")
      BY <1>1, <2>1 DEF Is
    <2>3. set # w
      BY <2>2, ConstantsAssumption
    <2>4. loc = [csi |-> fill.csi, wi |-> fill.wi] /\ New(dc_ram[w][d]) = mem[burst]
      BY <2>1 DEF loc, New, ReadData
    <2> QED BY <1>4, <1>6, <2>2, <2>3, <2>4
  <1>7. CASE ~rdv /\ Is("store")
    <2>1. ~outstanding_cache_miss
      BY <1>7, Alone DEF LineInv, Is
    <2>2. loc = [csi |-> x.a.csi, wi |-> x.a.wi] /\ New(dc_ram[w][d]) = Merge(x.w, dc_ram[w][d])
      BY <2>1 DEF loc, New
    <2>3. set = w <=> w \in x_hits
      BY <1>1, <1>7, Hits, ConstantsAssumption DEF x_miss
    <2> QED BY <1>4, <1>7, <2>2, <2>3
  <1>8. CASE ~rdv /\ ~Is("store")
    <2>1. set # w
      BY <1>1, <1>8, ConstantsAssumption
    <2> QED BY <1>4, <1>8, <2>1
  <1> QED BY <1>5, <1>6, <1>7, <1>8

LEMMA CacheInit == Init => CacheInv
  BY ConstantsAssumption DEF Init, CacheInv, Replays, FillReplay, PortQuiet, Filled, ReadsCache,
                             CacheCoherent, Is

\* What a clock edge does to the fill and to the front of the pipeline.
LEMMA FillStep ==
  ASSUME BaseInv, LineInv,
         NEW wait \in WaitRequest, NEW rdv \in ReadDataValid, NEW hold \in Hold,
         Clock(wait, rdv, hold)
  PROVE  /\ rdv \in BOOLEAN
         /\ rdv => burst # None
         /\ outstanding_cache_miss =>
              /\ x = None /\ ~StoreTaken /\ ~StartFill
              /\ outstanding_cache_miss' = ~FillDone(rdv)
              /\ replay' = replay
              /\ fill'.chk = fill.chk /\ fill'.csi = fill.csi /\ fill'.set = fill.set
              /\ fill'.wi = IF ~rdv THEN fill.wi ELSE IF fill.wi = LastWord THEN 0 ELSE fill.wi + 1
         /\ ~outstanding_cache_miss =>
              /\ rdv = FALSE /\ burst = None
              /\ outstanding_cache_miss' = LoadMiss
              /\ LoadMiss => fill'.wi = 0
         /\ tag_ram' = IF FillDone(rdv)
                         THEN [tag_ram EXCEPT ![fill.csi][fill.set] = fill.chk]
                         ELSE tag_ram
  <1>1. rdv \in BOOLEAN /\ (burst = None => rdv = FALSE)
    BY Inputs DEF BaseInv
  <1>2. PICK set \in IF StartFill THEN Ways ELSE {fill.set} :
          fill' = [chk |-> IF StartFill THEN x.a.chk ELSE fill.chk,
                   csi |-> IF StartFill THEN x.a.csi ELSE fill.csi,
                   set |-> set,
                   wi  |-> CASE rdv -> (fill.wi + 1) % (LastWord + 1)
                             [] ~rdv /\ StartFill -> 0
                             [] OTHER -> fill.wi]
    BY DEF Clock, Fill
  <1>3. outstanding_cache_miss' = (~FillDone(rdv) /\ (outstanding_cache_miss \/ LoadMiss))
    BY DEF Clock, Fill
  <1>4. CASE outstanding_cache_miss
    <2>1. x = None /\ ~StoreTaken /\ ~StartFill /\ ~LoadMiss
      BY <1>4, Alone DEF LineInv, StoreTaken, StartFill, LoadMiss, Is
    <2>2. outstanding_cache_miss' = ~FillDone(rdv)
      BY <1>3, <1>4, <2>1
    <2>3. replay' = replay
      BY <2>1 DEF Clock, Front, Restarts, StoreRefused, LoadHitStore, LoadMiss,
                  UncachedStoreRefused, UncachedLoadWaits, Is
    <2>4. fill'.wi = IF ~rdv THEN fill.wi ELSE IF fill.wi = LastWord THEN 0 ELSE fill.wi + 1
      <3>1. LastWord + 1 \in Nat /\ LastWord + 1 # 0 /\ fill.wi \in 0 .. (LastWord + 1) - 1
        BY ConstantsAssumption DEF BaseInv, TypeOK, Wi
      <3>2. (fill.wi + 1) % (LastWord + 1) = IF fill.wi = (LastWord + 1) - 1 THEN 0 ELSE fill.wi + 1
        BY <3>1, ModSucc
      <3>3. fill'.wi = CASE rdv -> (fill.wi + 1) % (LastWord + 1)
                         [] ~rdv /\ StartFill -> 0
                         [] OTHER -> fill.wi
        BY <1>2
      <3>4. (LastWord + 1) - 1 = LastWord
        BY ConstantsAssumption
      <3> QED BY <1>1, <2>1, <3>2, <3>3, <3>4
    <2>5. fill'.chk = fill.chk /\ fill'.csi = fill.csi /\ fill'.set = fill.set
      BY <1>2, <2>1
    <2> QED BY <1>1, <1>4, <2>1, <2>2, <2>3, <2>4, <2>5 DEF Clock, TagRam, TagWrite
  <1>5. CASE ~outstanding_cache_miss
    <2>1. rdv = FALSE /\ burst = None
      BY <1>1, <1>5 DEF BaseInv, FillInStep
    <2>2. outstanding_cache_miss' = LoadMiss
      BY <1>3, <1>5, <2>1 DEF FillDone, LoadMiss, x_miss, Is
    <2>3. LoadMiss => fill'.wi = 0
      BY <1>2, <1>5, <2>1 DEF StartFill
    <2> QED BY <1>1, <1>5, <2>1, <2>2, <2>3 DEF Clock, TagRam, TagWrite
  <1> QED BY <1>4, <1>5

\* An instruction that restarts comes again; another one does not.
LEMMA ReplayStep ==
  ASSUME BaseInv, LineInv, x # None,
         NEW wait \in WaitRequest, NEW rdv \in ReadDataValid, NEW hold \in Hold,
         Clock(wait, rdv, hold)
  PROVE  /\ replay' = IF Restarts(hold) THEN x ELSE None
         /\ Restarts(hold) => m_restart'
  <1>1. ~peripherals_readdatavalid /\ ~FillDone(rdv)
    BY Alone, Inputs DEF LineInv, BaseInv, FillDone
  <1>2. Restarts(hold) => m_restart'
    BY <1>1 DEF Clock, Restart, RestartOver
  <1> QED BY <1>2 DEF Clock, Front

LEMMA FrontInvNext ==
  ASSUME BaseInv, LineInv, Replays, FillReplay, PortQuiet, ReadsCache,
         NEW wait \in WaitRequest, NEW rdv \in ReadDataValid, NEW hold \in Hold,
         Clock(wait, rdv, hold)
  PROVE  Replays' /\ FillReplay' /\ PortQuiet'
  <1>1. Replays'
    BY DEF Replays, Clock, Front
  <1>2. FillReplay'
    <2>1. CASE outstanding_cache_miss
      BY <2>1, FillStep DEF FillReplay
    <2>2. CASE ~outstanding_cache_miss /\ LoadMiss
      <3>1. x # None /\ x.op = "load" /\ Restarts(hold)
        BY <2>2 DEF LoadMiss, Is, Restarts
      <3> QED BY <3>1, ReplayStep DEF FillReplay
    <2>3. CASE ~outstanding_cache_miss /\ ~LoadMiss
      BY <2>3, FillStep DEF FillReplay
    <2> QED BY <2>1, <2>2, <2>3
  <1>3. PortQuiet'
    <2>1. SUFFICES ASSUME burst' # None PROVE dmem' = None
      BY DEF PortQuiet
    <2>2. burst # None \/ (~wait /\ dmem # None /\ ~dmem.write)
      BY <2>1, FillStep DEF Clock, Memory
    <2>3. store_buffer_rp = store_buffer_wp /\ ~fill_cache
      BY <2>2 DEF BaseInv, FillInStep, LineInv, QuietFill
    <2>4. dmem' = IF wait THEN dmem ELSE None
      BY <2>3 DEF Clock, MemoryPort, Drains, IssueFill
    <2> QED BY <2>2, <2>4 DEF PortQuiet
  <1> QED BY <1>1, <1>2, <1>3

LEMMA ReadsNext ==
  ASSUME BaseInv, LineInv,
         NEW wait \in WaitRequest, NEW rdv \in ReadDataValid, NEW hold \in Hold,
         Clock(wait, rdv, hold), BaseInv', LineInv'
  PROVE  ReadsCache'
  <1>1. SUFFICES ASSUME Is("load")', x'.a # x_last_store_address', NEW w \in Ways,
                        x_tag'[w] = x'.a.chk
                 PROVE  dc_q'[w] = dc_ram'[w][[csi |-> x'.a.csi, wi |-> x'.a.wi]]
    BY DEF ReadsCache, x_hits
  <1> DEFINE d == [csi |-> x'.a.csi, wi |-> x'.a.wi]
  <1>2. x' # None /\ x'.op = "load"
    BY <1>1 DEF Is
  <1>3. x'.a \in Addr
    <2>1. x' \in Instr
      BY <1>2, ConstantsAssumption DEF BaseInv, TypeOK
    <2> QED BY <1>2, <2>1, InstrFields
  <1>4. d \in [csi : Csis, wi : Wi]
    BY <1>3 DEF Addr
  <1>5. dc_q'[w] = dc_ram[w][d] /\ x_tag'[w] = tag_ram[x'.a.csi][w]
    BY <1>2 DEF Clock, Front, Flushed
  <1>6. ~m_restart /\ ~m_restart'
    BY <1>2 DEF Clock, Front, Flushed
  <1>7. ~outstanding_cache_miss /\ rdv = FALSE
    BY <1>6, FillStep DEF LineInv, QuietFill
  <1>8. CASE Is("store") /\ w \in x_hits /\ d = [csi |-> x.a.csi, wi |-> x.a.wi]
    <2>1. x.a \in Addr /\ tag_ram[x.a.csi][w] = x.a.chk
      BY <1>8, Hits
    <2>2. x'.a.csi = x.a.csi /\ x'.a.wi = x.a.wi
      BY <1>8
    <2>3. x'.a = x.a
      <3>1. x'.a.chk = x.a.chk
        BY <1>1, <1>5, <2>1, <2>2
      <3> QED BY <1>3, <2>1, <2>2, <3>1 DEF Addr
    <2>4. ~Restarts(hold)
      BY <1>6, <1>8, ReplayStep DEF Is
    <2>5. StoreTaken
      BY <1>8, <2>4 DEF Restarts, StoreRefused, StoreTaken
    <2>6. x_last_store_address' = x.a
      BY <2>5 DEF Clock, StoreBuffer
    <2> QED BY <1>1, <2>3, <2>6
  <1>9. CASE ~(Is("store") /\ w \in x_hits /\ d = [csi |-> x.a.csi, wi |-> x.a.wi])
    <2> HIDE DEF d
    <2>1. dc_ram'[w][d] = dc_ram[w][d]
      BY <1>4, <1>7, <1>9, DataStep
    <2> QED BY <1>5, <2>1 DEF d
  <1> QED BY <1>8, <1>9

\* A store that retires or is refused is what the program sees from now on, or
\* what it will see when it comes again; nothing else changes that.
LEMMA SeenStep ==
  ASSUME BaseInv, LineInv, CacheInv, BaseInv',
         NEW wait \in WaitRequest, NEW rdv \in ReadDataValid, NEW hold \in Hold,
         Clock(wait, rdv, hold), NEW a \in Addr
  PROVE  Refused(a, Visible[a])' =
           IF Is("store") /\ x.a = a THEN Merge(x.w, Refused(a, Visible[a]))
                                     ELSE Refused(a, Visible[a])
  <1>1. Visible' = IF StoreTaken THEN [Visible EXCEPT ![x.a] = Merge(x.w, @)] ELSE Visible
    BY VisibleStep
  <1>2. Visible \in [Addr -> Word]
    BY VisibleValue DEF BaseInv, VisibleIs
  <1> DEFINE seen == Visible'[a]
  <1>3. Refused(a, Visible[a])' = IF replay' # None /\ replay'.op = "store" /\ replay'.a = a
                                    THEN Merge(replay'.w, seen) ELSE seen
    BY DEF Refused
  <1>4. CASE Is("store")
    <2>1. x # None /\ x.op = "store" /\ replay \in {None, x} /\ x.a \in Addr /\ x.w \in StoreData
      BY <1>4, Hits DEF CacheInv, Replays, Is
    <2>2. Restarts(hold) <=> StoreRefused
      BY <2>1 DEF Restarts, LoadHitStore, LoadMiss, UncachedStoreRefused, UncachedLoadWaits, Is
    <2>3. replay' = IF StoreRefused THEN x ELSE None
      BY <2>1, <2>2, ReplayStep
    <2>4. seen = IF ~StoreRefused /\ a = x.a THEN Merge(x.w, Visible[a]) ELSE Visible[a]
      BY <1>1, <1>2, <1>4, <2>1 DEF StoreTaken, StoreRefused
    <2>5. \A old : Merge(x.w, Merge(x.w, old)) = Merge(x.w, old)
      BY DEF Merge
    <2>6. Refused(a, Visible[a]) = IF replay = x /\ x.a = a THEN Merge(x.w, Visible[a]) ELSE Visible[a]
      BY <2>1 DEF Refused
    <2> HIDE DEF seen
    <2> QED BY <1>3, <1>4, <2>1, <2>3, <2>4, <2>5, <2>6
  <1>5. CASE ~Is("store")
    <2>1. seen = Visible[a]
      BY <1>1, <1>5 DEF StoreTaken
    <2>2. CASE x = None
      <3>1. replay' = replay
        BY <2>2 DEF Clock, Front, Restarts, StoreRefused, LoadHitStore, LoadMiss,
                    UncachedStoreRefused, UncachedLoadWaits, Is
      <3> QED BY <1>3, <1>5, <2>1, <3>1 DEF Refused
    <2>3. CASE x # None
      <3>1. replay \in {None, x} /\ replay' \in {None, x} /\ x.op # "store"
        BY <1>5, <2>3, ReplayStep DEF CacheInv, Replays, Is
      <3> QED BY <1>3, <1>5, <2>1, <3>1 DEF Refused
    <2> QED BY <2>2, <2>3
  <1> QED BY <1>4, <1>5

\* The word the memory sends is the one the program sees: nothing is on its way
\* to the memory while it sends.
LEMMA SendsVisible ==
  ASSUME BaseInv, LineInv, CacheInv, burst # None
  PROVE  /\ burst = [chk |-> fill.chk, csi |-> fill.csi, wi |-> fill.wi]
         /\ burst \in Addr
         /\ mem[burst] = Visible[burst]
  <1>1. /\ burst \in Addr /\ LineOf(burst) = LineOf(fill) /\ burst.wi = fill.wi
        /\ dmem = None /\ store_buffer_rp = store_buffer_wp
    BY DEF BaseInv, FillInStep, TypeOK, LineInv, QuietFill, CacheInv, PortQuiet
  <1>2. burst = [chk |-> fill.chk, csi |-> fill.csi, wi |-> fill.wi]
    BY <1>1 DEF Addr, LineOf
  <1>3. \A s \in 0 .. SbSize - 1 : s \notin Pending
    BY <1>1, ConstantsAssumption DEF BaseInv, TypeOK, Pending
  <1>4. VisibleIs
    BY VisibleValue DEF BaseInv
  <1>5. \A l \in Lanes : Visible[burst][l] = mem[burst][l]
    BY <1>1, <1>3, <1>4 DEF VisibleIs, Newest, Holds, OnPort
  <1>6. Visible[burst] \in Word /\ mem[burst] \in Word
    BY <1>1, <1>4 DEF VisibleIs, BaseInv, TypeOK
  <1>7. Visible[burst] = mem[burst]
    BY <1>5, <1>6 DEF Word
  <1> QED BY <1>1, <1>2, <1>7

LEMMA FilledNext ==
  ASSUME BaseInv, LineInv, CacheInv, BaseInv',
         NEW wait \in WaitRequest, NEW rdv \in ReadDataValid, NEW hold \in Hold,
         Clock(wait, rdv, hold)
  PROVE  Filled'
  <1>1. SUFFICES ASSUME outstanding_cache_miss', NEW i \in Wi, i < fill'.wi
                 PROVE  dc_ram'[fill'.set][[csi |-> fill'.csi, wi |-> i]]
                          = Visible'[[chk |-> fill'.chk, csi |-> fill'.csi, wi |-> i]]
    BY DEF Filled
  <1>2. outstanding_cache_miss
    <2>1. SUFFICES ASSUME ~outstanding_cache_miss PROVE FALSE
      BY DEF BaseInv, TypeOK
    <2>2. fill'.wi = 0
      BY <1>1, <2>1, FillStep
    <2> QED BY <1>1, <2>2 DEF Wi
  <1>3. /\ ~Is("store") /\ ~StoreTaken
        /\ fill'.chk = fill.chk /\ fill'.csi = fill.csi /\ fill'.set = fill.set
        /\ fill'.wi = IF ~rdv THEN fill.wi ELSE IF fill.wi = LastWord THEN 0 ELSE fill.wi + 1
        /\ rdv \in BOOLEAN /\ (rdv => burst # None)
    BY <1>2, FillStep DEF Is
  <1>4. Visible' = Visible
    BY <1>3, VisibleStep
  <1>5. /\ fill.set \in Ways /\ [csi |-> fill.csi, wi |-> i] \in [csi : Csis, wi : Wi]
        /\ fill.wi \in Wi
    BY DEF BaseInv, TypeOK
  <1>6. dc_ram'[fill.set][[csi |-> fill.csi, wi |-> i]] =
          IF rdv /\ i = fill.wi THEN mem[burst] ELSE dc_ram[fill.set][[csi |-> fill.csi, wi |-> i]]
    <2> DEFINE d == [csi |-> fill.csi, wi |-> i]
    <2>1. d = [csi |-> fill.csi, wi |-> fill.wi] <=> i = fill.wi
      OBVIOUS
    <2>2. d \in [csi : Csis, wi : Wi]
      BY <1>5
    <2> HIDE DEF d
    <2>3. dc_ram'[fill.set][d] = IF rdv /\ d = [csi |-> fill.csi, wi |-> fill.wi]
                                   THEN mem[burst] ELSE dc_ram[fill.set][d]
      BY <1>3, <1>5, <2>2, DataStep
    <2> QED BY <2>1, <2>3 DEF d
  <1>7. CASE rdv /\ i = fill.wi
    BY <1>3, <1>4, <1>6, <1>7, SendsVisible
  <1>8. CASE ~(rdv /\ i = fill.wi)
    <2>1. i < fill.wi
      BY <1>1, <1>3, <1>5, <1>8, ConstantsAssumption DEF Wi
    <2> QED BY <1>2, <1>3, <1>4, <1>6, <1>8, <2>1 DEF CacheInv, Filled
  <1> QED BY <1>7, <1>8

LEMMA CoherentNext ==
  ASSUME BaseInv, LineInv, CacheInv, BaseInv',
         NEW wait \in WaitRequest, NEW rdv \in ReadDataValid, NEW hold \in Hold,
         Clock(wait, rdv, hold)
  PROVE  CacheCoherent'
  <1>1. SUFFICES ASSUME NEW c \in Csis, NEW w \in Ways, NEW i \in Wi,
                        tag_ram'[c][w] # None, ~Replaced(c, w, i)',
                        NEW a, a = [chk |-> tag_ram'[c][w], csi |-> c, wi |-> i]
                 PROVE  dc_ram'[w][[csi |-> c, wi |-> i]] = Refused(a, Visible[a])'
    BY DEF CacheCoherent
  <1> DEFINE d == [csi |-> c, wi |-> i]
  <1>2. a \in Addr /\ a.chk = tag_ram'[c][w] /\ a.csi = c /\ a.wi = i
    BY <1>1 DEF Addr, BaseInv, TypeOK
  <1>3. /\ d \in [csi : Csis, wi : Wi]
        /\ d = [csi |-> fill.csi, wi |-> fill.wi] <=> c = fill.csi /\ i = fill.wi
        /\ d = [csi |-> x.a.csi, wi |-> x.a.wi] <=> c = x.a.csi /\ i = x.a.wi
    OBVIOUS
  <1> HIDE DEF d
  <1>4. dc_ram'[w][d] =
          IF rdv /\ w = fill.set /\ c = fill.csi /\ i = fill.wi THEN mem[burst]
          ELSE IF Is("store") /\ w \in x_hits /\ c = x.a.csi /\ i = x.a.wi
                 THEN Merge(x.w, dc_ram[w][d])
          ELSE dc_ram[w][d]
    BY <1>3, DataStep
  <1>5. tag_ram[c][w] # None /\ ~Replaced(c, w, i) /\ a.chk = tag_ram[c][w] =>
          dc_ram[w][d] = Refused(a, Visible[a])
    <2>1. SUFFICES ASSUME tag_ram[c][w] # None, ~Replaced(c, w, i), a.chk = tag_ram[c][w]
                   PROVE  dc_ram[w][d] = Refused(a, Visible[a])
      OBVIOUS
    <2>2. a = [chk |-> tag_ram[c][w], csi |-> c, wi |-> i]
      BY <1>1, <1>2, <2>1
    <2> QED BY <2>1, <2>2 DEF CacheInv, CacheCoherent, d
  <1>6. Refused(a, Visible[a])' =
          IF Is("store") /\ x.a = a THEN Merge(x.w, Refused(a, Visible[a]))
                                    ELSE Refused(a, Visible[a])
    BY <1>2, SeenStep
  <1>7. fill.csi \in Csis /\ fill.set \in Ways /\ fill.wi \in Wi
        /\ tag_ram \in [Csis -> [Ways -> Tags \cup {None}]]
    BY DEF BaseInv, TypeOK
  <1>8. CASE outstanding_cache_miss /\ ~FillDone(rdv)
    <2>1. ~Is("store") /\ tag_ram' = tag_ram /\ rdv \in BOOLEAN
      BY <1>8, FillStep DEF Is
    <2>2. ~Replaced(c, w, i) /\ ~(rdv /\ w = fill.set /\ c = fill.csi /\ i = fill.wi)
      <3>1. /\ outstanding_cache_miss' /\ fill'.csi = fill.csi /\ fill'.set = fill.set
            /\ fill'.wi = IF ~rdv THEN fill.wi ELSE IF fill.wi = LastWord THEN 0 ELSE fill.wi + 1
        BY <1>8, FillStep
      <3>2. rdv => fill.wi # LastWord
        BY <1>8 DEF FillDone
      <3> QED BY <1>1, <1>7, <2>1, <3>1, <3>2 DEF Replaced, Wi
    <2> QED BY <1>1, <1>2, <1>4, <1>5, <1>6, <2>1, <2>2 DEF d
  <1>9. CASE outstanding_cache_miss /\ FillDone(rdv)
    <2>1. ~Is("store") /\ rdv /\ fill.wi = LastWord /\ burst # None
      BY <1>9, FillStep DEF Is, FillDone
    <2>2. tag_ram' = [tag_ram EXCEPT ![fill.csi][fill.set] = fill.chk]
      BY <1>9, FillStep
    <2>3. CASE c = fill.csi /\ w = fill.set
      <3>1. a.chk = fill.chk
        BY <1>2, <1>7, <2>2, <2>3
      <3>2. a = [chk |-> fill.chk, csi |-> fill.csi, wi |-> i]
        BY <1>1, <1>2, <2>3, <3>1
      <3>3. Refused(a, Visible[a]) = Visible[a]
        BY <1>9 DEF CacheInv, FillReplay, Refused
      <3>4. CASE i = LastWord
        BY <1>4, <1>6, <2>1, <2>3, <3>2, <3>3, <3>4, SendsVisible DEF d
      <3>5. CASE i # LastWord
        <4>1. i < fill.wi
          BY <2>1, <3>5, ConstantsAssumption DEF Wi
        <4>2. dc_ram[w][d] = Visible[a]
          BY <1>9, <2>3, <3>2, <4>1 DEF CacheInv, Filled, d
        <4> QED BY <1>4, <1>6, <2>1, <3>3, <3>5, <4>2 DEF d
      <3> QED BY <3>4, <3>5
    <2>4. CASE ~(c = fill.csi /\ w = fill.set)
      <3>1. tag_ram'[c][w] = tag_ram[c][w] /\ ~Replaced(c, w, i)
        BY <1>7, <2>2, <2>4 DEF Replaced
      <3> QED BY <1>1, <1>2, <1>4, <1>5, <1>6, <2>1, <2>4, <3>1 DEF d
    <2> QED BY <2>3, <2>4
  <1>10. CASE ~outstanding_cache_miss
    <2>1. rdv = FALSE /\ tag_ram' = tag_ram /\ ~Replaced(c, w, i)
      BY <1>10, FillStep DEF FillDone, Replaced
    <2>2. dc_ram[w][d] = Refused(a, Visible[a])
      BY <1>1, <1>2, <1>5, <2>1
    <2>3. CASE Is("store")
      <3>1. /\ x.a \in Addr
            /\ w \in x_hits <=> tag_ram[x.a.csi][w] = x.a.chk
        BY <2>3, Hits
      <3>2. x.a = a <=> w \in x_hits /\ c = x.a.csi /\ i = x.a.wi
        <4>1. x.a = a <=> x.a.chk = a.chk /\ x.a.csi = c /\ x.a.wi = i
          BY <1>2, <3>1 DEF Addr
        <4> QED BY <1>2, <2>1, <3>1, <4>1
      <3> QED BY <1>4, <1>6, <2>1, <2>2, <2>3, <3>2 DEF d
    <2>4. CASE ~Is("store")
      BY <1>4, <1>6, <2>1, <2>2, <2>4 DEF d
    <2> QED BY <2>3, <2>4
  <1> QED BY <1>8, <1>9, <1>10

LEMMA VisibleUnchanged == UNCHANGED vars => Visible' = Visible
  BY DEF vars, sbVars, memVars, Visible, InFlight, Pending, Youngest, Age

LEMMA CacheNext ==
  ASSUME BaseInv, LineInv, CacheInv, BaseInv', LineInv', [Next]_vars
  PROVE  CacheInv'
  <1>1. CASE UNCHANGED vars
    <2>1. Visible' = Visible
      BY <1>1, VisibleUnchanged
    <2>2. /\ x' = x /\ replay' = replay /\ outstanding_cache_miss' = outstanding_cache_miss
          /\ burst' = burst /\ dmem' = dmem /\ fill' = fill /\ dc_ram' = dc_ram /\ dc_q' = dc_q
          /\ tag_ram' = tag_ram /\ x_tag' = x_tag
          /\ x_last_store_address' = x_last_store_address
      BY <1>1 DEF vars, xVars, cacheVars, fillVars, memVars
    <2>3. Replays' /\ FillReplay' /\ PortQuiet' /\ ReadsCache'
      BY <2>2 DEF CacheInv, Replays, FillReplay, PortQuiet, ReadsCache, x_hits, Is
    <2>4. Filled'
      BY <2>1, <2>2 DEF CacheInv, Filled
    <2>5. CacheCoherent'
      BY <2>1, <2>2 DEF CacheInv, CacheCoherent, Refused, Replaced
    <2> QED BY <2>3, <2>4, <2>5 DEF CacheInv
  <1>2. ASSUME NEW wait \in WaitRequest, NEW rdv \in ReadDataValid, NEW hold \in Hold,
               Clock(wait, rdv, hold)
        PROVE  CacheInv'
    BY <1>2, FrontInvNext, ReadsNext, FilledNext, CoherentNext DEF CacheInv
  <1> QED BY <1>1, <1>2 DEF Next

LEMMA CacheCorrect == ASSUME LoadBehindStore = "hits" PROVE Spec => []CacheInv
  <1>1. BaseInv /\ LineInv /\ CacheInv /\ BaseInv' /\ LineInv' /\ [Next]_vars => CacheInv'
    BY CacheNext
  <1> QED BY <1>1, CacheInit, BaseCorrect, LineCorrect, PTL DEF Spec

(***************************************************************************)
(* The data cache is coherent with the memory the program sees: the words  *)
(* under a tag are the last ones stored, whether those stores are in the   *)
(* buffer, on the memory port or in the memory.                            *)
(***************************************************************************)
THEOREM CacheCoherentCorrect ==
  ASSUME LoadBehindStore = "hits" PROVE Spec => []CacheCoherent
  BY CacheCorrect, PTL DEF CacheInv

\* A load that hits, and does not follow a store to its word, reads what the
\* program sees.
LEMMA LoadedValue ==
  ASSUME BaseInv, LineInv, CacheInv, Is("load"), ~x_miss, ~LoadHitStore
  PROVE  x.a \in Addr /\ x_lw_res = Visible[x.a]
  <1>1. /\ x.a \in Addr
        /\ \A w \in Ways : w \in x_hits <=> tag_ram[x.a.csi][w] = x.a.chk
        /\ \A v, w \in x_hits : v = w
    BY Hits
  <1>2. PICK w \in x_hits : TRUE
    BY DEF x_miss
  <1>3. w \in Ways /\ tag_ram[x.a.csi][w] = x.a.chk
    BY <1>1, <1>2 DEF x_hits
  <1>4. x.a \in Addr /\ x.a.csi \in Csis /\ x.a.wi \in Wi /\ x.a.chk # None
    BY <1>1, ConstantsAssumption DEF Addr
  <1>5. ~outstanding_cache_miss
    BY Alone DEF LineInv, Is
  <1>6. dc_ram[w][[csi |-> x.a.csi, wi |-> x.a.wi]] = Refused(x.a, Visible[x.a])
    <2>1. x.a = [chk |-> tag_ram[x.a.csi][w], csi |-> x.a.csi, wi |-> x.a.wi]
      BY <1>3, <1>4 DEF Addr
    <2>2. ~Replaced(x.a.csi, w, x.a.wi)
      BY <1>5 DEF Replaced
    <2>3. ASSUME NEW c \in Csis, NEW i \in Wi, c = x.a.csi, i = x.a.wi
          PROVE  dc_ram[w][[csi |-> c, wi |-> i]]
                   = Refused([chk |-> tag_ram[c][w], csi |-> c, wi |-> i],
                             Visible[[chk |-> tag_ram[c][w], csi |-> c, wi |-> i]])
      BY <1>3, <1>4, <2>2, <2>3 DEF CacheInv, CacheCoherent
    <2> QED BY <1>4, <2>1, <2>3
  <1>7. Refused(x.a, Visible[x.a]) = Visible[x.a]
    BY DEF CacheInv, Replays, Refused, Is
  <1>8. dc_q[w] = Visible[x.a]
    BY <1>2, <1>6, <1>7 DEF CacheInv, ReadsCache, LoadHitStore
  <1>9. Visible[x.a] \in Word
    BY <1>4, VisibleValue DEF BaseInv, VisibleIs
  <1>10. \A l \in Lanes : (\E v \in x_hits : dc_q[v][l]) <=> dc_q[w][l]
    BY <1>1, <1>2
  <1>11. \A l \in Lanes : x_lw_res[l] = Visible[x.a][l]
    BY <1>8, <1>9, <1>10 DEF x_lw_res, Word
  <1>12. x_lw_res \in Word
    BY DEF x_lw_res, Word
  <1> QED BY <1>4, <1>9, <1>11, <1>12 DEF Word

LEMMA SequentialNext ==
  ASSUME BaseInv, LineInv, CacheInv, BaseInv', [Next]_vars
  PROVE  [Sequential!Next]_(Sequential!vars)
  <1>1. CASE UNCHANGED vars
    <2>1. Visible' = Visible /\ m' = m
      BY <1>1, VisibleUnchanged DEF vars, mVars
    <2> QED BY <2>1 DEF Sequential!vars
  <1>2. ASSUME NEW wait \in WaitRequest, NEW rdv \in ReadDataValid, NEW hold \in Hold,
               Clock(wait, rdv, hold)
        PROVE  Sequential!Next
    <2>1. Visible' = IF StoreTaken THEN [Visible EXCEPT ![x.a] = Merge(x.w, @)] ELSE Visible
      BY <1>2, VisibleStep
    <2>2. m' = IF x = None \/ Restarts(hold) THEN None ELSE [i |-> x, res |-> Result]
      BY <1>2 DEF Clock, Retire
    <2>3. CASE x = None \/ Restarts(hold)
      <3>1. ~StoreTaken
        BY <2>3 DEF StoreTaken, Restarts, StoreRefused, LoadHitStore, LoadMiss,
                    UncachedStoreRefused, UncachedLoadWaits, Is
      <3> QED BY <2>1, <2>2, <2>3, <3>1 DEF Sequential!Next, Sequential!Bubble
    <2>4. CASE x # None /\ ~Restarts(hold)
      <3>1. x \in Program /\ x \in Instr /\ x.op \in {"load", "store", "uload", "ustore"}
        BY <2>4, InstrFields, ConstantsAssumption DEF BaseInv, TypeOK
      <3>2. m' = [i |-> x, res |-> Result]
        BY <2>2, <2>4
      <3>3. CASE Is("load")
        <4>1. ~x_miss /\ ~LoadHitStore /\ ~StoreTaken
          BY <2>4, <3>3 DEF Restarts, LoadMiss, StoreTaken, Is
        <4>2. Result = Visible[x.a]
          BY <3>3, <4>1, LoadedValue DEF Result
        <4>3. Sequential!Load(x)
          BY <2>1, <3>2, <3>3, <4>1, <4>2 DEF Sequential!Load, Is
        <4> QED BY <3>1, <4>3 DEF Sequential!Next
      <3>4. CASE Is("store")
        <4>1. StoreTaken /\ ~Is("load")
          BY <2>4, <3>4 DEF Restarts, StoreRefused, StoreTaken, Is
        <4>2. Result = None
          BY <4>1 DEF Result
        <4>3. Sequential!Store(x)
          BY <2>1, <3>2, <3>4, <4>1, <4>2 DEF Sequential!Store, Is, Merge
        <4> QED BY <3>1, <4>3 DEF Sequential!Next
      <3>5. CASE x.op \in {"uload", "ustore"}
        <4>1. ~StoreTaken
          BY <3>5 DEF StoreTaken, Is
        <4>2. m' # None /\ m'.i = x
          <5>1. Result = None
            BY <3>5 DEF Result, Is
          <5>2. [i |-> x, res |-> Result] \in Retired
            BY <3>1, <5>1 DEF Retired
          <5> QED BY <3>2, <5>2, ConstantsAssumption
        <4>3. Sequential!Uncached(x)
          BY <2>1, <3>5, <4>1, <4>2 DEF Sequential!Uncached
        <4> QED BY <3>1, <4>3 DEF Sequential!Next
      <3> QED BY <2>4, <3>1, <3>3, <3>4, <3>5 DEF Is
    <2> QED BY <2>3, <2>4
  <1> QED BY <1>1, <1>2 DEF Next

LEMMA SequentialInit == Init => Sequential!Init
  <1> SUFFICES ASSUME Init PROVE Sequential!Init
    OBVIOUS
  <1>1. TypeOK /\ StoreBufferSlots
    BY TypeInit, SlotsInit
  <1>2. VisibleIs
    BY <1>1, VisibleValue
  <1>3. \A s \in 0 .. SbSize - 1 : s \notin Pending
    BY ConstantsAssumption DEF Init, Pending
  <1>4. \A a \in Addr, l \in Lanes : Visible[a][l] = FALSE
    BY <1>2, <1>3 DEF VisibleIs, Newest, Holds, OnPort, Init
  <1>5. Visible = [a \in Addr |-> [l \in Lanes |-> FALSE]]
    BY <1>2, <1>4 DEF VisibleIs, Word
  <1> QED BY <1>5 DEF Sequential!Init, Init

(***************************************************************************)
(* Stage ME implements a memory without caches and buffers: what retires   *)
(* from it are loads and stores that happen one at a time, in program      *)
(* order, for every cache, store buffer, memory latency and program that   *)
(* meets the claim of stage_M.v:663.                                       *)
(***************************************************************************)
THEOREM SequentialCorrect == ASSUME LoadBehindStore = "hits" PROVE Spec => SequentialSpec
  <1>1. BaseInv /\ LineInv /\ CacheInv /\ BaseInv' /\ [Next]_vars
          => [Sequential!Next]_(Sequential!vars)
    BY SequentialNext
  <1> QED BY <1>1, SequentialInit, BaseCorrect, LineCorrect, CacheCorrect, PTL
          DEF Spec, SequentialSpec, Sequential!Spec
=============================================================================
