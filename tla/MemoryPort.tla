----------------------------- MODULE MemoryPort -----------------------------
(***************************************************************************)
(* The port between the processor and a memory controller (the mem_ wires  *)
(* of yari.v): what a master may ask for, in terms of words that are       *)
(* functions from lanes to values.                                         *)
(***************************************************************************)
EXTENDS Integers, Sequences, TLC

CONSTANTS
  burst_bits,  \* a read is answered by 2^burst_bits words
  Words,       \* size of the memory
  FlashFrom,   \* words from here on are Flash, which is not written
  Stored,      \* words that are written
  Values,      \* what a lane may be written with
  Ids,         \* mem_id of the masters; 0 is none
  None

ASSUME PortAssumption ==
  /\ burst_bits \in Nat /\ 2^burst_bits \in Nat \ {0}
  /\ 2^(burst_bits + 2) = 4 * 2^burst_bits /\ 2^(burst_bits + 3) = 8 * 2^burst_bits
  /\ Words \in Nat \ {0} /\ Words % 2^burst_bits = 0
  /\ FlashFrom \in 0 .. Words /\ FlashFrom % 2^burst_bits = 0
  /\ Stored \subseteq 0 .. FlashFrom - 1
  /\ 0 \notin Ids
  /\ None \notin [{0, 1} -> Values]

burst_length == 2^burst_bits

Addr  == 0 .. Words - 1
Lines == {a \in Addr : a % burst_length = 0}

\* A lane is 16 bits: what sram16_ctrl handles at a time.
Low   == 0
High  == 1
Lanes == {Low, High}

\* mem_writedata with mem_writedatamask: the lanes that are written.
Written == UNION {[S -> Values] : S \in SUBSET Lanes}

NoRequest == [op |-> "none"]
Requests  == [op : {"read"}, id : Ids, a : Lines]
               \cup [op : {"write"}, a : Stored, w : Written]
               \cup {NoRequest}

Write(ram, a, w) ==
  [ram EXCEPT ![a] = [l \in Lanes |-> IF l \in DOMAIN w THEN w[l] ELSE @[l]]]

\* Every lane of every word starts out different from all others.
Content == [a \in Addr |-> [l \in Lanes |-> 2 * a + l]]

\* A counter that counts down through 0 to -1, in width + 1 bits; the
\* hardware looks at the top bit to see that it is negative.
Down_Wide(n, width) == n - 1
Down(n, width)    == (n - 1) % (2 * 2^width)
Negative(n, width) == n >= 2^width
=============================================================================
