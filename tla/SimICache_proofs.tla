-------------------------- MODULE SimICache_proofs --------------------------
(***************************************************************************)
(* The simulator's instruction cache promises what the processor's does,   *)
(* for every size of it and wherever there is memory.                      *)
(***************************************************************************)
EXTENDS SimICache, TLAPS

Way == 0 .. WayCount - 1

(* A word in the cache is one that its address has held since the last     *)
(* SYNCI of its line, because SYNCI leaves no copy of the line behind; and *)
(* so is the word in memory.                                               *)
Inv ==
  /\ memory \in [Place -> Instruction]
  /\ latest \in [Place -> SUBSET Instruction]
  /\ icache_tag \in [Way -> [CacheLines -> MemoryTags \cup {0}]]
  /\ icache_data \in [Way -> [CacheLines -> [LineWords -> Instruction \cup {Nothing}]]]
  /\ next_way \in Way
  /\ \A a \in Place : memory[a] \in latest[a]
  /\ \A w \in Way, l \in CacheLines, i \in LineWords :
       icache_tag[w][l] # 0 => icache_data[w][l][i] \in latest[<<icache_tag[w][l], l, i>>]

LEMMA Places ==
  /\ 0 \notin MemoryTags
  /\ \A a \in Place, v \in {0, 1} : <<a, v>> \in Instruction
  /\ \A t \in MemoryTags, l \in CacheLines, i \in LineWords : <<t, l, i>> \in Place
  /\ Written \subseteq Place
  /\ WayCount \in Nat \ {0}
  BY ICacheAssumption DEF Place, Instruction

LEMMA InitInv == ICacheInit => Inv
<1> SUFFICES ASSUME ICacheInit PROVE Inv
  OBVIOUS
<1>1. next_way \in Way
  BY Places DEF ICacheInit, Way
<1> QED
  BY <1>1, Places DEF ICacheInit, Inv, Way

LEMMA InitAllowed == ICacheInit => Allowed!Init
  BY Places DEF ICacheInit, Allowed!Init

LEMMA FetchStep ==
  ASSUME Inv, NEW tag \in MemoryTags, NEW line \in CacheLines, NEW word \in LineWords,
         icache_fetch(tag, line, word)
  PROVE  Inv' /\ Allowed!Next
<1> DEFINE a == <<tag, line, word>>
<1>1. a \in Place /\ memory[a] \in latest[a]
  BY Places DEF Inv
<1>2. UNCHANGED <<memory, latest>>
  BY DEF icache_fetch, Hit, Miss
<1>3. CASE Hit(tag, line, word)
  <2>1. PICK way \in hits(tag, line) : loaded' = <<a, icache_data[way][line][word]>>
    BY <1>3 DEF Hit
  <2>2. icache_data[way][line][word] \in latest[a]
    BY <2>1, Places DEF hits, Inv, Way
  <2>3. Inv'
    BY <1>3 DEF Hit, Inv
  <2> QED
    BY <1>1, <1>2, <2>1, <2>2, <2>3 DEF Allowed!Next, Allowed!Fetch
<1>4. CASE Miss(tag, line, word)
  <2>1. Allowed!Next
    BY <1>1, <1>2, <1>4 DEF Miss, Allowed!Next, Allowed!Fetch
  <2>2. next_way' \in Way
    BY <1>4, Places DEF Miss, Inv, Way
  <2>3. /\ icache_tag' \in [Way -> [CacheLines -> MemoryTags \cup {0}]]
        /\ icache_data' \in [Way -> [CacheLines -> [LineWords -> Instruction \cup {Nothing}]]]
    BY <1>4, Places DEF Miss, Inv
  <2>4. ASSUME NEW w \in Way, NEW l \in CacheLines, NEW i \in LineWords, icache_tag'[w][l] # 0
        PROVE  icache_data'[w][l][i] \in latest'[<<icache_tag'[w][l], l, i>>]
    <3>1. CASE w = next_way /\ l = line
      <4>1. icache_tag'[w][l] = tag /\ icache_data'[w][l][i] = memory[<<tag, line, i>>]
        BY <1>4, <3>1, Places DEF Miss, Inv
      <4> QED
        BY <1>2, <3>1, <4>1, Places DEF Inv
    <3>2. CASE ~(w = next_way /\ l = line)
      <4>1. icache_tag'[w][l] = icache_tag[w][l] /\ icache_data'[w][l] = icache_data[w][l]
        BY <1>4, <3>2 DEF Miss, Inv
      <4> QED
        BY <1>2, <2>4, <4>1 DEF Inv
    <3> QED
      BY <3>1, <3>2
  <2> QED
    BY <1>2, <2>1, <2>2, <2>3, <2>4 DEF Inv
<1> QED
  BY <1>3, <1>4 DEF icache_fetch

LEMMA SynciStep ==
  ASSUME Inv, NEW tag \in MemoryTags, NEW line \in CacheLines, synci(tag, line)
  PROVE  Inv' /\ Allowed!Next
<1>1. Allowed!Next
  <2>1. Allowed!Synci(LineAt(tag, line)) /\ loaded' = Nothing
    BY DEF synci, Allowed!Synci
  <2> QED
    BY <2>1 DEF Allowed!Next, Allowed!Fetch
<1>2. /\ memory' \in [Place -> Instruction] /\ latest' \in [Place -> SUBSET Instruction]
      /\ \A a \in Place : memory'[a] \in latest'[a]
  BY DEF synci, Inv
<1>3. icache_tag' \in [Way -> [CacheLines -> MemoryTags \cup {0}]]
  BY DEF synci, Inv, Way
<1>4. ASSUME NEW w \in Way, NEW l \in CacheLines, NEW i \in LineWords, icache_tag'[w][l] # 0
      PROVE  icache_data'[w][l][i] \in latest'[<<icache_tag'[w][l], l, i>>]
  <2>1. icache_tag'[w][l] = icache_tag[w][l] /\ ~(l = line /\ icache_tag[w][l] = tag)
    BY <1>4 DEF synci, Invalidated, hits, Inv, Way
  <2>2. icache_tag[w][l] \in MemoryTags
    BY <1>4, <2>1 DEF Inv
  <2>3. <<icache_tag[w][l], l, i>> \in Place \ LineAt(tag, line)
    BY <2>1, <2>2, Places DEF LineAt
  <2>4. latest'[<<icache_tag[w][l], l, i>>] = latest[<<icache_tag[w][l], l, i>>]
    BY <2>3 DEF synci
  <2> QED
    BY <1>4, <2>1, <2>4 DEF Inv, synci
<1> QED
  BY <1>1, <1>2, <1>3, <1>4 DEF Inv, synci

LEMMA StoreStep ==
  ASSUME Inv, NEW a \in Written, NEW v \in {0, 1}, store(a, v)
  PROVE  Inv' /\ Allowed!Next
<1>1. a \in Place /\ <<a, v>> \in Instruction
  BY Places
<1>2. Allowed!Next
  <2>1. Allowed!Store(a, <<a, v>>) /\ loaded' = Nothing
    BY DEF store, Allowed!Store
  <2> QED
    BY <1>1, <2>1 DEF Allowed!Next, Allowed!Fetch
<1>3. /\ memory' \in [Place -> Instruction] /\ latest' \in [Place -> SUBSET Instruction]
      /\ \A b \in Place : memory'[b] \in latest'[b] /\ latest[b] \subseteq latest'[b]
  BY <1>1 DEF store, Inv
<1>4. ASSUME NEW w \in Way, NEW l \in CacheLines, NEW i \in LineWords, icache_tag[w][l] # 0
      PROVE  icache_data[w][l][i] \in latest'[<<icache_tag[w][l], l, i>>]
  <2>1. <<icache_tag[w][l], l, i>> \in Place
    BY <1>4, Places DEF Inv
  <2> QED
    BY <1>3, <1>4, <2>1 DEF Inv
<1> QED
  BY <1>2, <1>3, <1>4 DEF Inv, store

LEMMA NextInv == Inv /\ [ICacheNext]_icache => Inv' /\ [Allowed!Next]_(Allowed!vars)
<1>1. ASSUME Inv, ICacheNext PROVE Inv' /\ Allowed!Next
  BY <1>1, FetchStep, SynciStep, StoreStep DEF ICacheNext
<1>2. ASSUME Inv, UNCHANGED icache PROVE Inv' /\ UNCHANGED Allowed!vars
  BY <1>2 DEF icache, Inv, Allowed!vars
<1> QED
  BY <1>1, <1>2

(* Whatever the size of the simulator's instruction cache, and whatever a  *)
(* program stores and synchronises, it executes words that their addresses *)
(* have held since the last SYNCI: the simulator implements the contract   *)
(* of the processor's fetch stage.                                         *)
THEOREM FetchesAllowedCorrect == ICacheSpec => FetchesAllowed
  BY InitInv, InitAllowed, NextInv, PTL DEF ICacheSpec, FetchesAllowed, Allowed!Spec

=============================================================================
