------------------------------- MODULE StageM -------------------------------
(***************************************************************************)
(* Pipeline stage ME of the YARI core: the write-through data cache, the   *)
(* store buffer, the cache fill engine, the uncached (peripheral) port and *)
(* the restarts by which the stage stalls the pipeline.                    *)
(*                                                                         *)
(* One step is one rising clock edge.  Registers are variables, wires are  *)
(* state functions, and the registers one group of statements assigns are  *)
(* updated by one conjunct of Clock.  A later assignment of the always     *)
(* block overrides an earlier one, which is the order of the conditions in *)
(* the definitions below.                                                  *)
(*                                                                         *)
(* The memory, the peripheral and the front of the pipeline, which answer  *)
(* this stage, are the least constrained ones the rest of the design       *)
(* allows; they are the last part of the module.                           *)
(***************************************************************************)
EXTENDS Naturals, FiniteSets

CONSTANTS
  Ways,             \* the ways of the cache (4 in the source)
  Csis,             \* cache set indices, x_csi
  Tags,             \* address tags of cachable memory, x_chk
  LastWord,         \* a line has words 0 .. LastWord (3 in the source)
  Lanes,            \* the byte lanes of a word; one bit stands for a byte
  SbSize,           \* slots of the store buffer (8 in the source)
  IoAddr,           \* addresses at and above FF00_0000, uncached
  Program,          \* the memory instructions that programs are made of
  None,             \* no instruction, no request, no address
  DevSize,          \* modulus of the peripheral's sequence number
  SlowPeripherals,  \* may the peripheral assert HOLD?
  LoadBehindStore   \* "hits", "any": may a load right behind a store to the
                    \* same word miss the cache?

Word == [Lanes -> BOOLEAN]
Wi   == 0 .. LastWord
Addr == [chk : Tags, csi : Csis, wi : Wi]
Line == [chk : Tags, csi : Csis]

\* The data of a store: a value for each byte lane that it enables.
StoreData == UNION {[be -> BOOLEAN] : be \in SUBSET Lanes}

NoData == [l \in {} |-> FALSE]

Instr == [op : {"load"},   a : Addr,   w : {NoData}] \cup
         [op : {"store"},  a : Addr,   w : StoreData] \cup
         [op : {"uload"},  a : IoAddr, w : {NoData}] \cup
         [op : {"ustore"}, a : IoAddr, w : {NoData}]

StoreEntry == [a : Addr, w : StoreData]
Request    == [write : BOOLEAN, a : Addr, w : StoreData]
Retired    == [i : Program, res : Word \cup {None}]

ASSUME ConstantsAssumption ==
  /\ LastWord \in Nat
  /\ SbSize \in Nat \ {0, 1}
  /\ DevSize \in Nat \ {0, 1}
  /\ Ways # {}
  /\ None \notin Tags
  /\ None \notin Ways
  /\ None \notin Addr
  /\ None \notin Instr
  /\ None \notin StoreEntry
  /\ None \notin Request
  /\ None \notin Retired
  /\ Program \subseteq Instr
  /\ SlowPeripherals \in BOOLEAN
  /\ LoadBehindStore \in {"hits", "any"}

VARIABLES
  x,                      \* instruction in EX/ME, None when invalid or flushed
  x_tag, dc_q,            \* tag and data memory outputs for x, per way
  x_last_store_address,
  m,                      \* instruction and result in ME/WB, None when invalid
  m_restart, one_shot_restart,
  tag_ram, dc_ram,
  store_buffer, store_buffer_wp, store_buffer_rp,
  outstanding_cache_miss, fill_cache,
  fill,                   \* fill_chk, fill_csi, fill_set, fill_wi
  dmem,                   \* the request on the memory port
  peripherals_req, peripherals_readdatavalid,
  got_uncached_data, uncached_load_pending, uncached_data,
  mem, burst,             \* external: memory, and the line it is sending
  dev, io_seen,           \* external: last value read from the peripheral,
                          \* and (history) last value a load delivered
  refill, replay          \* the front of the pipeline after a restart

cacheVars == <<tag_ram, dc_ram>>
sbVars    == <<store_buffer, store_buffer_wp, store_buffer_rp>>
fillVars  == <<outstanding_cache_miss, fill_cache, fill>>
ioVars    == <<peripherals_req, peripherals_readdatavalid, got_uncached_data,
               uncached_load_pending, uncached_data, dev, io_seen>>
xVars     == <<x, x_tag, dc_q, x_last_store_address, refill, replay>>
mVars     == <<m, m_restart, one_shot_restart>>
memVars   == <<dmem, mem, burst>>
vars == <<xVars, mVars, cacheVars, sbVars, fillVars, memVars, ioVars>>

Merge(w, old) == [l \in Lanes |-> IF l \in DOMAIN w THEN w[l] ELSE old[l]]

LineOf(a) == [chk |-> a.chk, csi |-> a.csi]

----------------------------------------------------------------------------
(* What stage ME finds out about the instruction in x.                     *)

Is(op) == x # None /\ x.op = op

x_hits == {w \in Ways : x_tag[w] = x.a.chk}
x_miss == x_hits = {}

\* The late select ORs the ways that hit.
x_lw_res == [l \in Lanes |-> \E w \in x_hits : dc_q[w][l]]

SbSucc(p) == (p + 1) % SbSize

\* Mutations: the test is missing; it holds one slot too early.
StoreBufferFull_Never == FALSE
StoreBufferFull_Early == SbSucc(SbSucc(store_buffer_wp)) = store_buffer_rp

StoreBufferFull == SbSucc(store_buffer_wp) = store_buffer_rp
StoreTaken      == Is("store") /\ ~StoreBufferFull
StoreRefused    == Is("store") /\ StoreBufferFull

\* Mutation: a load reads the data memory while the store before it writes.
LoadHitStore_Never == FALSE

LoadHitStore == Is("load") /\ x.a = x_last_store_address
LoadMiss     == Is("load") /\ x_miss
StartFill    == LoadMiss /\ ~outstanding_cache_miss

UncachedStoreTaken(hold)   == Is("ustore") /\ ~hold
UncachedStoreRefused(hold) == Is("ustore") /\ hold
UncachedLoadDone           == Is("uload") /\ got_uncached_data
UncachedLoadWaits          == Is("uload") /\ ~got_uncached_data

\* The instruction in x is killed and the pipeline restarted at it.
Restarts(hold) ==
  \/ StoreRefused
  \/ LoadHitStore
  \/ LoadMiss
  \/ UncachedStoreRefused(hold)
  \/ UncachedLoadWaits

\* rdv is dmem_readdatavalid: this cycle delivers the last word of the line.
FillDone(rdv) == rdv /\ fill.wi = LastWord

----------------------------------------------------------------------------
(* The registers of stage ME.                                              *)

\* Mutations: the first word of a line ends the restart; the last one does not.
RestartOver_Early(rdv)  == rdv \/ peripherals_readdatavalid
RestartOver_NoFill(rdv) == peripherals_readdatavalid

RestartOver(rdv) == FillDone(rdv) \/ peripherals_readdatavalid

Restart(rdv, hold) ==
  /\ m_restart' = IF RestartOver(rdv)
                    THEN FALSE
                    ELSE Restarts(hold) \/ (m_restart /\ ~one_shot_restart)
  /\ one_shot_restart' = (StoreRefused \/ LoadHitStore)

\* m_res of a cached load; what an uncached load delivers is in io_seen.
Result == IF Is("load") THEN x_lw_res ELSE None

Retire(hold) ==
  m' = IF x = None \/ Restarts(hold) THEN None ELSE [i |-> x, res |-> Result]

\* Mutation: the last store waits for another one.
Drains_KeepOne(wait) == ~wait /\ store_buffer_wp \notin {store_buffer_rp, SbSucc(store_buffer_rp)}

Drains(wait) == ~wait /\ store_buffer_rp # store_buffer_wp

StoreBuffer(wait) ==
  /\ store_buffer' =
       [s \in DOMAIN store_buffer |->
          CASE StoreTaken /\ s = store_buffer_wp -> [a |-> x.a, w |-> x.w]
            [] Drains(wait) /\ s = store_buffer_rp      -> None
            [] OTHER                             -> store_buffer[s]]
  /\ store_buffer_wp' = IF StoreTaken THEN SbSucc(store_buffer_wp)
                                      ELSE store_buffer_wp
  /\ store_buffer_rp' = IF Drains(wait) THEN SbSucc(store_buffer_rp)
                                        ELSE store_buffer_rp
  /\ x_last_store_address' = IF StoreTaken THEN x.a ELSE None

\* The memory port: the oldest store first, a fill once the buffer is empty.
IssueFill(wait) == ~wait /\ store_buffer_rp = store_buffer_wp /\ fill_cache

MemoryPort(wait) ==
  dmem' = CASE wait -> dmem
            [] Drains(wait) ->
                 [write |-> TRUE,
                  a |-> store_buffer[store_buffer_rp].a,
                  w |-> store_buffer[store_buffer_rp].w]
            [] IssueFill(wait) ->
                 [write |-> FALSE,
                  a |-> [chk |-> fill.chk, csi |-> fill.csi, wi |-> 0],
                  w |-> NoData]
            [] OTHER -> None

Fill(wait, rdv) ==
  /\ outstanding_cache_miss' = (~FillDone(rdv) /\ (outstanding_cache_miss \/ LoadMiss))
  /\ fill_cache' = (~IssueFill(wait) /\ (fill_cache \/ StartFill))
  /\ \E set \in IF StartFill THEN Ways ELSE {fill.set} :
       fill' = [chk |-> IF StartFill THEN x.a.chk ELSE fill.chk,
                csi |-> IF StartFill THEN x.a.csi ELSE fill.csi,
                set |-> set,
                wi  |-> CASE rdv -> (fill.wi + 1) % (LastWord + 1)
                          [] ~rdv /\ StartFill -> 0
                          [] OTHER -> fill.wi]

\* Mutation: the tag is written with the first word of the line.
TagWrite_Early(rdv) == rdv

TagWrite(rdv) == FillDone(rdv)

TagRam(rdv) ==
  tag_ram' = IF TagWrite(rdv)
               THEN [tag_ram EXCEPT ![fill.csi][fill.set] = fill.chk]
               ELSE tag_ram

(***************************************************************************)
(* Port b of the data memories: the fill has the address and data inputs   *)
(* while a miss is outstanding, but the write enables are not exclusive.   *)
(* rdata is dmem_readdata.  x_set is undefined when two ways hit.          *)
(***************************************************************************)
DataRam(rdv, rdata) ==
  \E set \in IF Is("store") /\ ~x_miss THEN x_hits ELSE {None} :
    LET wren == {w \in Ways : (rdv /\ fill.set = w) \/ set = w}
        loc  == IF outstanding_cache_miss
                  THEN [csi |-> fill.csi, wi |-> fill.wi]
                  ELSE [csi |-> x.a.csi, wi |-> x.a.wi]
        New(old) == IF outstanding_cache_miss THEN rdata ELSE Merge(x.w, old)
    IN dc_ram' = IF wren = {} THEN dc_ram
                 ELSE [w \in Ways |-> IF w \in wren
                                        THEN [dc_ram[w] EXCEPT ![loc] = New(@)]
                                        ELSE dc_ram[w]]

\* Mutation: the load that comes back for the value asks for another.
UncachedRead_Again == Is("uload")

UncachedRead == UncachedLoadWaits /\ ~uncached_load_pending

Peripherals(hold) ==
  /\ peripherals_req' =
       [R |-> UncachedRead \/ (peripherals_req.R /\ hold),
        W |-> UncachedStoreTaken(hold) \/ (peripherals_req.W /\ hold),
        A |-> IF UncachedLoadWaits \/ UncachedStoreTaken(hold)
                THEN x.a ELSE peripherals_req.A]
  /\ peripherals_readdatavalid' = (peripherals_req.R /\ ~hold)
  /\ got_uncached_data' = (peripherals_readdatavalid \/ (got_uncached_data /\ ~Is("uload")))
  /\ uncached_load_pending' = IF Is("uload") THEN ~got_uncached_data
                                             ELSE uncached_load_pending
  /\ uncached_data' = IF peripherals_readdatavalid THEN dev ELSE uncached_data

----------------------------------------------------------------------------
(* External: the memory answers a read with the words of the line, in      *)
(* order, each after any number of cycles.  Some controllers take the next *)
(* request while the last words of a line are still on their way.          *)
(* The peripheral answers the read it takes, at the next edge, with the    *)
(* next number of a sequence, as a receive register that reading empties.  *)

WaitRequest   == BOOLEAN
ReadDataValid == IF burst = None THEN {FALSE} ELSE BOOLEAN
Hold == IF SlowPeripherals /\ (peripherals_req.R \/ peripherals_req.W)
          THEN BOOLEAN ELSE {FALSE}

ReadData == IF burst = None THEN [l \in Lanes |-> FALSE] ELSE mem[burst]

Memory(wait, rdv) ==
  /\ mem' = IF ~wait /\ dmem # None /\ dmem.write
              THEN [mem EXCEPT ![dmem.a] = Merge(dmem.w, @)]
              ELSE mem
  /\ burst' = IF ~wait /\ dmem # None /\ ~dmem.write THEN dmem.a
              ELSE IF ~rdv THEN burst
              ELSE IF burst.wi = LastWord THEN None
              ELSE [burst EXCEPT !.wi = @ + 1]

Device(hold) ==
  /\ dev' = IF peripherals_req.R /\ ~hold THEN (dev + 1) % DevSize ELSE dev
  /\ io_seen' = IF UncachedLoadDone THEN uncached_data ELSE io_seen

(***************************************************************************)
(* The front of the pipeline.  While m_restart is up nothing valid enters  *)
(* ME (flush_D, flush_X), and after it the restarted instruction needs two *)
(* more cycles through IF and DE.  It is the next one to arrive (a branch  *)
(* replayed because the instruction is in its delay slot has no effect in  *)
(* this stage), after any delay, as its fetch may miss the I$.             *)
(***************************************************************************)
Behind(i) == \* does i, entering now, load the word stored just before?
  i.op = "load" /\ StoreTaken /\ i.a = x.a

Admitted(i) ==
  LoadBehindStore = "any" \/ ~Behind(i) \/ \E w \in Ways : tag_ram[i.a.csi][w] = i.a.chk

\* Mutation: m_restart does not flush what is behind the killed instruction.
Flushed_Never == FALSE

Flushed == m_restart' \/ m_restart \/ refill

Front(rdv, hold) ==
  LET killed == Restarts(hold) /\ m_restart'
      next   == IF killed THEN x ELSE IF x # None THEN None ELSE replay
  IN
  /\ replay' = next
  /\ refill' = m_restart
  /\ \/ /\ Flushed
        /\ x' = None
     \/ /\ ~Flushed
        /\ x' \in IF next # None
                    THEN {next, None}
                    ELSE {None} \cup {i \in Program : Admitted(i)}
  /\ x_tag' = [w \in Ways |-> IF x' # None /\ x'.op \in {"load", "store"}
                                THEN tag_ram[x'.a.csi][w] ELSE None]
  /\ dc_q'  = [w \in Ways |-> IF x' # None /\ x'.op = "load"
                                THEN dc_ram[w][[csi |-> x'.a.csi, wi |-> x'.a.wi]]
                                ELSE [l \in Lanes |-> FALSE]]

----------------------------------------------------------------------------

\* The state after the boot pulse, which is a one-shot restart.
Init ==
  /\ x = None
  /\ x_tag = [w \in Ways |-> None]
  /\ dc_q = [w \in Ways |-> [l \in Lanes |-> FALSE]]
  /\ x_last_store_address = None
  /\ m = None
  /\ m_restart = TRUE
  /\ one_shot_restart = TRUE
  /\ tag_ram = [c \in Csis |-> [w \in Ways |-> None]]
  /\ dc_ram = [w \in Ways |-> [d \in [csi : Csis, wi : Wi] |-> [l \in Lanes |-> FALSE]]]
  /\ store_buffer = [s \in 0 .. SbSize - 1 |-> None]
  /\ store_buffer_wp = 0
  /\ store_buffer_rp = 0
  /\ outstanding_cache_miss = FALSE
  /\ fill_cache = FALSE
  /\ \E t \in Tags, c \in Csis, w \in Ways :
       fill = [chk |-> t, csi |-> c, set |-> w, wi |-> 0]
  /\ dmem = None
  /\ \E a \in IoAddr : peripherals_req = [R |-> FALSE, W |-> FALSE, A |-> a]
  /\ peripherals_readdatavalid = FALSE
  /\ got_uncached_data = FALSE
  /\ uncached_load_pending = FALSE
  /\ uncached_data = 0
  /\ mem = [a \in Addr |-> [l \in Lanes |-> FALSE]]
  /\ burst = None
  /\ dev = 0
  /\ io_seen = 0
  /\ refill = FALSE
  /\ replay = None

Clock(wait, rdv, hold) ==
  /\ Restart(rdv, hold)
  /\ Retire(hold)
  /\ StoreBuffer(wait)
  /\ MemoryPort(wait)
  /\ Fill(wait, rdv)
  /\ TagRam(rdv)
  /\ DataRam(rdv, ReadData)
  /\ Peripherals(hold)
  /\ Memory(wait, rdv)
  /\ Device(hold)
  /\ Front(rdv, hold)

Next == \E wait \in WaitRequest, rdv \in ReadDataValid, hold \in Hold :
          Clock(wait, rdv, hold)

Spec == Init /\ [][Next]_vars

(***************************************************************************)
(* The memory takes requests and sends the words it owes (every controller *)
(* returns to its idle state), a peripheral that holds lets go, and the    *)
(* restarted instruction is eventually fetched.                            *)
(***************************************************************************)
MemoryTakes   == \E hold \in Hold : burst = None /\ Clock(FALSE, FALSE, hold)
MemorySends   == \E wait \in WaitRequest, hold \in Hold : burst # None /\ Clock(wait, TRUE, hold)
PeripheralTakes ==
  \E wait \in WaitRequest, rdv \in ReadDataValid :
    (peripherals_req.R \/ peripherals_req.W) /\ Clock(wait, rdv, FALSE)
Refetch       == replay # None /\ x' = replay /\ Next

FairSpec == /\ Spec
            /\ WF_vars(MemoryTakes)
            /\ WF_vars(MemorySends)
            /\ WF_vars(PeripheralTakes)
            /\ WF_vars(Refetch)
----------------------------------------------------------------------------
(* Properties.                                                             *)

\* The registers hold values of their widths.
TypeOK ==
  /\ x \in Program \cup {None}
  /\ x_tag \in [Ways -> Tags \cup {None}]
  /\ dc_q \in [Ways -> Word]
  /\ x_last_store_address \in Addr \cup {None}
  /\ m \in Retired \cup {None}
  /\ m_restart \in BOOLEAN /\ one_shot_restart \in BOOLEAN
  /\ tag_ram \in [Csis -> [Ways -> Tags \cup {None}]]
  /\ dc_ram \in [Ways -> [[csi : Csis, wi : Wi] -> Word]]
  /\ store_buffer \in [0 .. SbSize - 1 -> StoreEntry \cup {None}]
  /\ store_buffer_wp \in 0 .. SbSize - 1
  /\ store_buffer_rp \in 0 .. SbSize - 1
  /\ outstanding_cache_miss \in BOOLEAN /\ fill_cache \in BOOLEAN
  /\ fill \in [chk : Tags, csi : Csis, set : Ways, wi : Wi]
  /\ dmem \in Request \cup {None}
  /\ peripherals_req \in [R : BOOLEAN, W : BOOLEAN, A : IoAddr]
  /\ peripherals_readdatavalid \in BOOLEAN
  /\ got_uncached_data \in BOOLEAN /\ uncached_load_pending \in BOOLEAN
  /\ uncached_data \in 0 .. DevSize - 1
  /\ mem \in [Addr -> Word]
  /\ burst \in Addr \cup {None}
  /\ dev \in 0 .. DevSize - 1 /\ io_seen \in 0 .. DevSize - 1
  /\ refill \in BOOLEAN
  /\ replay \in Program \cup {None}

\* The slots of the store buffer that the two pointers say are in use.
Pending == {s \in 0 .. SbSize - 1 :
              IF store_buffer_rp <= store_buffer_wp
                THEN store_buffer_rp <= s /\ s < store_buffer_wp
                ELSE store_buffer_rp <= s \/ s < store_buffer_wp}

(***************************************************************************)
(* The store buffer never overwrites a store that has not been issued and  *)
(* never issues a slot that holds none: the full test (store_buffer_wp_1)  *)
(* and the restart of the refused store keep wp from running over rp.      *)
(***************************************************************************)
StoreBufferSlots ==
  \A s \in 0 .. SbSize - 1 : s \in Pending <=> store_buffer[s] # None

(***************************************************************************)
(* A line is in at most one way.  x_set and the AND-OR select of x_lw_res  *)
(* rely on it ("Yes this is one-hot"), although the way to fill is random. *)
(***************************************************************************)
OneHot ==
  \A c \in Csis : \A v, w \in Ways :
    v # w /\ tag_ram[c][v] # None => tag_ram[c][v] # tag_ram[c][w]

(***************************************************************************)
(* A miss is outstanding exactly while its fill is waiting to be issued,   *)
(* is on the memory port or is being answered, and only one of the three;  *)
(* the counter of the fill is the word the memory sends.                   *)
(***************************************************************************)
FillInStep ==
  LET reading == dmem # None /\ ~dmem.write IN
  /\ outstanding_cache_miss <=> (fill_cache \/ reading \/ burst # None)
  /\ ~(fill_cache /\ reading) /\ ~(fill_cache /\ burst # None) /\ ~(reading /\ burst # None)
  /\ (fill_cache \/ reading) => fill.wi = 0
  /\ reading => LineOf(dmem.a) = LineOf(fill) /\ dmem.a.wi = 0
  /\ burst # None => LineOf(burst) = LineOf(fill) /\ burst.wi = fill.wi

(***************************************************************************)
(* "We don't need an else here as the two conditions cannot happen         *)
(* simultaneously" (stage_M.v:663): a load of the word stored just before  *)
(* never misses the cache.                                                 *)
(***************************************************************************)
HazardsExclusive == ~(LoadHitStore /\ LoadMiss)

(***************************************************************************)
(* The inductive invariant behind OneHot and NothingLost, for programs     *)
(* that meet the claim of HazardsExclusive: the pipeline is empty in front *)
(* of ME while a line is filled or a peripheral read, so that nothing sees *)
(* the cache change under it, and the line being filled is in no way.      *)
(***************************************************************************)
QuietFill ==
  /\ x # None => ~m_restart
  /\ (dmem # None /\ ~dmem.write) \/ burst # None => store_buffer_rp = store_buffer_wp
  /\ outstanding_cache_miss => m_restart /\ ~one_shot_restart
  /\ outstanding_cache_miss => \A w \in Ways : tag_ram[fill.csi][w] # fill.chk
  /\ Is("load") \/ Is("store") => \A w \in Ways : x_tag[w] = tag_ram[x.a.csi][w]
  /\ peripherals_req.R \/ peripherals_readdatavalid =>
       m_restart /\ ~one_shot_restart /\ ~outstanding_cache_miss
  /\ ~(peripherals_req.R /\ peripherals_readdatavalid)

\* All of the above: what the rest of the design takes for granted of this stage.
CoreInv == TypeOK /\ FillInStep /\ HazardsExclusive /\ QuietFill /\ OneHot

(***************************************************************************)
(* m_restart has no owner: several conditions raise and clear it.  Whenever*)
(* it is up something is under way that will take it down again.           *)
(***************************************************************************)
RestartEnds ==
  m_restart => \/ one_shot_restart
               \/ outstanding_cache_miss
               \/ uncached_load_pending /\ (peripherals_req.R \/ peripherals_readdatavalid)

(***************************************************************************)
(* An instruction that ME kills is an instruction the pipeline restarts:   *)
(* the end of a fill or of an uncached load never takes m_restart from an  *)
(* instruction that raises it in that very cycle.                          *)
(***************************************************************************)
NothingLost == [][x # None /\ m' = None => m_restart']_vars

(***************************************************************************)
(* Liveness of the restarts: an instruction that was restarted is not      *)
(* restarted for ever, whether it waits for a slot of the store buffer, a  *)
(* line of the cache or a peripheral.                                      *)
(***************************************************************************)
RestartedRetires == replay # None ~> replay = None

\* A buffered store does not wait for ever behind the stores after it.
StoresIssue == \A s \in 0 .. SbSize - 1 :
                 store_buffer[s] # None ~> store_buffer[s] = None

(***************************************************************************)
(* Reading a peripheral may have an effect (it empties a receive           *)
(* register), and an uncached load goes through the pipeline at least      *)
(* twice.  Each load that retires has read the peripheral once, and no     *)
(* value read is dropped or delivered twice.                               *)
(***************************************************************************)
UncachedOnce ==
  dev = IF peripherals_readdatavalid \/ got_uncached_data
          THEN (io_seen + 1) % DevSize ELSE io_seen

----------------------------------------------------------------------------
(***************************************************************************)
(* The memory the program sees: main memory under the store on the memory  *)
(* port and the stores in the buffer, the oldest first.                    *)
(***************************************************************************)
Age(s) == (s + SbSize - store_buffer_rp) % SbSize

InFlight(a, l) == {s \in Pending : store_buffer[s].a = a /\ l \in DOMAIN store_buffer[s].w}

Youngest(S) == CHOOSE s \in S : \A t \in S : Age(t) <= Age(s)

Visible ==
  [a \in Addr |-> [l \in Lanes |->
     IF InFlight(a, l) # {}
       THEN store_buffer[Youngest(InFlight(a, l))].w[l]
     ELSE IF dmem # None /\ dmem.write /\ dmem.a = a /\ l \in DOMAIN dmem.w
       THEN dmem.w[l]
     ELSE mem[a][l]]]

(***************************************************************************)
(* What the cache holds under a tag is what the program sees, except for   *)
(* the words that the fill in progress has replaced under the old tag, and *)
(* for a store that was refused for want of a slot: it has written the     *)
(* cache by then, and is the next instruction to arrive.                   *)
(***************************************************************************)
Refused(a, word) ==
  IF replay # None /\ replay.op = "store" /\ replay.a = a
    THEN Merge(replay.w, word) ELSE word

Replaced(c, w, i) ==
  outstanding_cache_miss /\ fill.csi = c /\ fill.set = w /\ i < fill.wi

CacheCoherent ==
  \A c \in Csis : \A w \in Ways : \A i \in Wi :
    tag_ram[c][w] # None /\ ~Replaced(c, w, i) =>
      LET a == [chk |-> tag_ram[c][w], csi |-> c, wi |-> i]
      IN dc_ram[w][[csi |-> c, wi |-> i]] = Refused(a, Visible[a])

Sequential == INSTANCE SequentialMemory WITH visible <- Visible, done <- m

(***************************************************************************)
(* Loads and stores that retire from ME are those of a memory without      *)
(* caches and buffers.                                                     *)
(***************************************************************************)
SequentialSpec == Sequential!Spec
=============================================================================
