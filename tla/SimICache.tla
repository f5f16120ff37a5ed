----------------------------- MODULE SimICache -----------------------------
(***************************************************************************)
(* The instruction cache of the simulator (run_simple.c).  A store changes *)
(* memory only, so the cache is stale until SYNCI, as in the processor.    *)
(* Programs are free: any sequence of fetches, stores and SYNCIs.          *)
(***************************************************************************)
EXTENDS Integers

CONSTANTS
  WayCount,     \* 2^IC_SET_INDEX_BITS
  CacheLines,   \* the line indexes of a way
  LineWords,    \* the word indexes of a line
  MemoryTags,   \* the tags of addresses at which there is memory
  Written,      \* the addresses to which programs store
  Nothing       \* no fetch, no word

(* Tag 0 means invalid, "which means that physical memory cannot be at 0 + *)
(* I$ size" (run_simple.c:305-306), one way of it to be exact.             *)
ASSUME ICacheAssumption ==
  /\ WayCount \in Nat \ {0}
  /\ MemoryTags \subseteq Nat \ {0}
  /\ Written \subseteq MemoryTags \X CacheLines \X LineWords

VARIABLES
  memory, icache_data, icache_tag, next_way,
  latest,  \* history: the words an address has held since the SYNCI of its line
  loaded   \* the address last fetched and the instruction, or Nothing

icache == <<memory, icache_data, icache_tag, next_way, latest, loaded>>

Place == MemoryTags \X CacheLines \X LineWords

\* A word is known by where it belongs and by one of two versions of it.
Instruction == Place \X {0, 1}

LineAt(tag, line) == {tag} \X {line} \X LineWords

ICacheInit ==
  /\ memory = [a \in Place |-> <<a, 0>>]
  /\ icache_data = [w \in 0 .. WayCount - 1 |->
                      [l \in CacheLines |-> [i \in LineWords |-> Nothing]]]
  /\ icache_tag = [w \in 0 .. WayCount - 1 |-> [l \in CacheLines |-> 0]]
  /\ next_way = 0
  /\ latest = [a \in Place |-> {<<a, 0>>}]
  /\ loaded = Nothing

hits(tag, line) == {w \in 0 .. WayCount - 1 : icache_tag[w][line] = tag}

Hit(tag, line, word) ==
  \E way \in hits(tag, line) :
    /\ \A w \in hits(tag, line) : way <= w
    /\ loaded' = <<<<tag, line, word>>, icache_data[way][line][word]>>
    /\ UNCHANGED <<memory, icache_data, icache_tag, next_way, latest>>

Miss(tag, line, word) ==
  /\ hits(tag, line) = {}
  /\ next_way' = (next_way + 1) % WayCount
  /\ icache_data' = [icache_data EXCEPT ![next_way][line] =
                       [i \in LineWords |-> memory[<<tag, line, i>>]]]
  /\ icache_tag' = [icache_tag EXCEPT ![next_way][line] = tag]
  /\ loaded' = <<<<tag, line, word>>, memory[<<tag, line, word>>]>>
  /\ UNCHANGED <<memory, latest>>

icache_fetch(tag, line, word) == Hit(tag, line, word) \/ Miss(tag, line, word)

\* Mutation: only the way that is filled next is looked at.
Invalidated_NextWay(tag, line) == hits(tag, line) \cap {next_way}

Invalidated(tag, line) == hits(tag, line)

synci(tag, line) ==
  /\ icache_tag' = [w \in 0 .. WayCount - 1 |->
                      IF w \in Invalidated(tag, line)
                        THEN [icache_tag[w] EXCEPT ![line] = 0] ELSE icache_tag[w]]
  /\ latest' = [a \in Place |-> IF a \in LineAt(tag, line) THEN {memory[a]} ELSE latest[a]]
  /\ loaded' = Nothing
  /\ UNCHANGED <<memory, icache_data, next_way>>

store(a, v) ==
  /\ memory' = [memory EXCEPT ![a] = <<a, v>>]
  /\ latest' = [latest EXCEPT ![a] = @ \cup {<<a, v>>}]
  /\ loaded' = Nothing
  /\ UNCHANGED <<icache_data, icache_tag, next_way>>

ICacheNext ==
  \/ \E tag \in MemoryTags, line \in CacheLines :
       \/ synci(tag, line)
       \/ \E word \in LineWords : icache_fetch(tag, line, word)
  \/ \E a \in Written, v \in {0, 1} : store(a, v)

ICacheSpec == ICacheInit /\ [][ICacheNext]_icache

----------------------------------------------------------------------------
(* Properties.                                                             *)

Allowed == INSTANCE InstructionMemory
             WITH Addr <- Place, Word <- Instruction,
                  Lines <- {LineAt(t, l) : t \in MemoryTags, l \in CacheLines},
                  code <- memory, visible <- latest, fetched <- loaded, None <- Nothing

(* What the simulator executes are words that the address holds, or has    *)
(* held since the last SYNCI of its line, whatever is replaced meanwhile   *)
(* (run_simple.c:262-308): programs that run on the simulator rely on no   *)
(* more than what the fetch stage of the processor promises.               *)
FetchesAllowed == Allowed!Spec

=============================================================================
