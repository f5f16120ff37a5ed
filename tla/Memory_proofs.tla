--------------------------- MODULE Memory_proofs ---------------------------
(***************************************************************************)
(* The memory controllers implement the memory that the processor relies   *)
(* on, and the port of the DE2-70 gives no one more words than asked for,  *)
(* for every size of memory and every length of bursts.                    *)
(***************************************************************************)
EXTENDS MCMemory, SequenceTheorems, TLAPS

----------------------------------------------------------------------------
(* Numbers.                                                                *)

LEMMA BurstLength ==
  /\ burst_length \in Nat \ {0, 1}
  /\ Words \in Nat \ {0}
  /\ Words % burst_length = 0
  /\ 0 \notin Ids
<1>1. burst_length \in Nat \ {0}
  BY PortAssumption DEF burst_length
<1> QED
  BY <1>1, PortAssumption, VideoAssumption DEF burst_length

LEMMA ModSmall ==
  ASSUME NEW n \in Int, NEW m \in Nat \ {0}
  PROVE  /\ n % m \in 0 .. m - 1
         /\ n \in 0 .. m - 1 => n % m = n
         /\ n = -1 => n % m = m - 1
  OBVIOUS

\* A line lies within memory.
LEMMA LineFits ==
  ASSUME NEW a \in Lines
  PROVE  /\ a \in Addr /\ a \in Nat
         /\ a + burst_length <= Words
<1> DEFINE B == burst_length
           k == a \div B
           m == Words \div B
<1>1. B \in Nat \ {0} /\ a \in Nat /\ a < Words /\ a % B = 0 /\ Words \in Nat /\ Words % B = 0
  BY BurstLength DEF Lines, Addr
<1> HIDE DEF B
<1>2. k \in Int /\ a = B * k
  BY <1>1
<1>3. m \in Int /\ Words = B * m
  BY <1>1
<1> HIDE DEF k, m
<1>4. k < m
  BY <1>1, <1>2, <1>3
<1>5. B * (k + 1) <= B * m
  BY <1>1, <1>2, <1>3, <1>4
<1>6. B * (k + 1) = B * k + B
  BY <1>1, <1>2
<1> QED
  BY <1>1, <1>2, <1>3, <1>5, <1>6 DEF B, Lines

LEMMA NextAddress ==
  ASSUME NEW a \in Addr
  PROVE  /\ (a + 1) % Words \in Addr
         /\ a + 1 < Words => (a + 1) % Words = a + 1
<1>1. a + 1 \in Int /\ Words \in Nat \ {0} /\ a + 1 >= 0
  BY BurstLength DEF Addr
<1>2. (a + 1) % Words \in 0 .. Words - 1
  BY <1>1, ModSmall
<1>3. a + 1 < Words => a + 1 \in 0 .. Words - 1
  BY <1>1
<1> QED
  BY <1>1, <1>2, <1>3, ModSmall DEF Addr

\* A counter of a burst, in burst_bits + 1 bits, counts down to below zero.
LEMMA Countdown ==
  ASSUME NEW n \in 0 .. 2 * burst_length - 1
  PROVE  /\ Negative(n, burst_bits) <=> n >= burst_length
         /\ Down(n, burst_bits) = IF n = 0 THEN 2 * burst_length - 1 ELSE n - 1
<1> DEFINE C == 2 * burst_length
<1>1. C \in Nat \ {0} /\ n \in 0 .. C - 1
  BY BurstLength
<1>2. (Negative(n, burst_bits) <=> n >= burst_length) /\ Down(n, burst_bits) = (n - 1) % C
  BY DEF Negative, Down, burst_length
<1> HIDE DEF C
<1>3. n - 1 \in Int /\ (n = 0 => n - 1 = -1) /\ (n # 0 => n - 1 \in 0 .. C - 1)
  BY <1>1
<1>4. (n - 1) % C = IF n = 0 THEN C - 1 ELSE n - 1
  BY <1>1, <1>3, ModSmall
<1> QED
  BY <1>2, <1>4 DEF C

----------------------------------------------------------------------------
(* Sequences of answers.                                                   *)

LEMMA FunctionSeq ==
  ASSUME NEW S, NEW n \in Nat, NEW f \in [1 .. n -> S]
  PROVE  /\ f \in Seq(S)
         /\ Len(f) = n
         /\ f \o <<>> = f
         /\ <<>> \o f = f
<1>1. f \in Seq(S) /\ Len(f) = n
  OBVIOUS
<1> QED
  BY <1>1, ConcatEmptySeq

LEMMA FunctionHeadTail ==
  ASSUME NEW S, NEW n \in Nat \ {0}, NEW f \in [1 .. n -> S],
         NEW g \in [1 .. n - 1 -> S], \A i \in 1 .. n - 1 : g[i] = f[i + 1]
  PROVE  /\ f # <<>>
         /\ Head(f) = f[1]
         /\ Tail(f) = g
<1>1. f \in Seq(S) /\ Len(f) = n /\ g \in Seq(S) /\ Len(g) = n - 1
  BY FunctionSeq
<1>2. f # <<>>
  BY <1>1
<1>3. Tail(f) \in Seq(S) /\ Len(Tail(f)) = n - 1 /\ \A i \in 1 .. n - 1 : Tail(f)[i] = f[i + 1]
  BY <1>1, <1>2, HeadTailProperties
<1>4. Tail(f) = g
  BY <1>1, <1>3, SeqEqual
<1> QED
  BY <1>1, <1>2, <1>4

LEMMA NothingMore == <<>> \o <<>> = <<>>
  BY ConcatEmptySeq, EmptySeq

\* The n words of memory m from a on, for id.
Upcoming(id, n, m, a) == [i \in 1 .. n |-> [id |-> id, data |-> m[(a + i - 1) % Words]]]

Splits(s, first, others) == s # <<>> /\ first = Head(s) /\ others = Tail(s)

LEMMA UpcomingNone ==
  ASSUME NEW id, NEW m, NEW a
  PROVE  Upcoming(id, 0, m, a) = <<>>
<1>1. Upcoming(id, 0, m, a) \in [1 .. 0 -> {}]
  BY DEF Upcoming
<1> QED
  BY <1>1, FunctionSeq, EmptySeq

LEMMA UpcomingConcat ==
  ASSUME NEW id, NEW n \in Nat, NEW m, NEW a
  PROVE  Upcoming(id, n, m, a) \o <<>> = Upcoming(id, n, m, a) /\ <<>> \o Upcoming(id, n, m, a) = Upcoming(id, n, m, a)
<1> DEFINE f == Upcoming(id, n, m, a)
           S == {f[i] : i \in 1 .. n}
<1>1. f \in [1 .. n -> S]
  BY DEF Upcoming
<1> HIDE DEF f, S
<1>2. f \o <<>> = f /\ <<>> \o f = f
  BY <1>1, FunctionSeq
<1> QED
  BY <1>2 DEF f

\* Its first word, and the rest of it.
LEMMA UpcomingStep ==
  ASSUME NEW id, NEW n \in Nat \ {0}, NEW m, NEW a \in Nat, NEW b, NEW k, a + n <= Words,
         k = n - 1, n # 1 => b = a + 1
  PROVE  Splits(Upcoming(id, n, m, a), [id |-> id, data |-> m[a]], Upcoming(id, k, m, b))
<1> DEFINE f == Upcoming(id, n, m, a)
           g == Upcoming(id, n - 1, m, b)
           S == {f[i] : i \in 1 .. n}
<1>1. a \in Nat /\ Words \in Nat \ {0}
  BY BurstLength
<1>2. ASSUME NEW i \in 1 .. n - 1
      PROVE  i + 1 \in 1 .. n /\ g[i] = f[i + 1]
  <2>1. i + 1 \in 1 .. n /\ b + i - 1 = a + (i + 1) - 1
    BY <1>1
  <2> QED
    BY <2>1 DEF Upcoming
<1>3. f \in [1 .. n -> S] /\ g \in [1 .. n - 1 -> S]
  <2>1. f \in [1 .. n -> S]
    BY DEF Upcoming
  <2>2. ASSUME NEW i \in 1 .. n - 1 PROVE g[i] \in S
    BY <1>2
  <2>3. g = [i \in 1 .. n - 1 |-> g[i]]
    BY DEF Upcoming
  <2> HIDE DEF f, g, S
  <2> QED
    BY <2>1, <2>2, <2>3
<1>4. f # <<>> /\ Head(f) = f[1] /\ Tail(f) = g
  <2> HIDE DEF f, g, S
  <2> QED
    BY <1>2, <1>3, FunctionHeadTail
<1>5. f[1] = [id |-> id, data |-> m[a]]
  <2>1. a + 1 - 1 = a /\ a \in Int /\ a \in 0 .. Words - 1
    BY <1>1
  <2>2. a % Words = a
    BY <1>1, <2>1, ModSmall
  <2>3. 1 \in 1 .. n
    OBVIOUS
  <2>4. f[1] = [id |-> id, data |-> m[(a + 1 - 1) % Words]]
    BY <2>3 DEF Upcoming
  <2> QED
    BY <2>1, <2>2, <2>4
<1> QED
  BY <1>4, <1>5 DEF Splits

\* The words of a line do not wrap around.
LEMMA UpcomingLine ==
  ASSUME NEW id, NEW m, NEW a \in Lines
  PROVE  [i \in 1 .. burst_length |-> [id |-> id, data |-> m[a + i - 1]]] = Upcoming(id, burst_length, m, a)
<1>1. a \in Nat /\ a + burst_length <= Words
  BY LineFits
<1>2. ASSUME NEW i \in 1 .. burst_length PROVE (a + i - 1) % Words = a + i - 1
  <2> DEFINE x == a + i - 1
  <2>1. x \in 0 .. Words - 1 /\ x \in Int
    BY <1>1, BurstLength
  <2> HIDE DEF x
  <2>2. x % Words = x
    BY <2>1, BurstLength, ModSmall
  <2> QED
    BY <2>2 DEF x
<1> QED
  BY <1>2 DEF Upcoming

LEMMA RequestHas ==
  ASSUME NEW req \in Requests
  PROVE  /\ req.op = "read" => req.id \in Ids /\ req.a \in Lines
         /\ req.op = "write" => req.a \in Stored /\ req.w \in Written
  BY DEF Requests, NoRequest

LEMMA WriteShape ==
  ASSUME NEW m, NEW S, m = [x \in S |-> m[x]], NEW a, NEW w
  PROVE  Write(m, a, w) = [x \in S |-> Write(m, a, w)[x]]
<1>1. ASSUME NEW v PROVE [m EXCEPT ![a] = v] = [x \in S |-> [m EXCEPT ![a] = v][x]]
  OBVIOUS
<1> QED
  BY <1>1, Zenon DEF Write

----------------------------------------------------------------------------
(* blockram.v.                                                             *)

\* While a burst is under way it is for someone, and what is left of it
\* lies within memory.
BlockInv ==
  /\ ram = [x \in Addr |-> ram[x]]
  /\ cnt \in 0 .. 2 * burst_length - 1
  /\ read_address \in Addr
  /\ mem_readdataid \in Ids \cup {0}
  /\ Block!mem_waitrequest => mem_readdataid # 0 /\ read_address + cnt < Words

LEMMA BlockConstants ==
  /\ Block!burst_length = burst_length
  /\ Block!Addr = Addr
  /\ Block!Content = Content
  /\ Block!Requests = Requests
  BY DEF Block!burst_length, burst_length, Block!Addr, Addr, Block!Content, Content, Block!Lanes,
    Lanes, Block!Low, Low, Block!High, High, Block!Requests, Requests, Block!Lines, Lines,
    Block!Written, Written, Block!NoRequest, NoRequest

LEMMA BlockCounter ==
  ASSUME cnt \in 0 .. 2 * burst_length - 1
  PROVE  /\ Block!mem_waitrequest <=> cnt < burst_length
         /\ Block!Down(cnt, burst_bits) = IF cnt = 0 THEN 2 * burst_length - 1 ELSE cnt - 1
         /\ (Block!burst_length - 2) % (2 * Block!burst_length) = burst_length - 2
         /\ Block!Left = IF cnt < burst_length THEN cnt + 1 ELSE 0
<1>1. Block!mem_waitrequest <=> ~Negative(cnt, burst_bits)
  BY DEF Block!mem_waitrequest, Block!Negative, Negative
<1>2. Block!mem_waitrequest <=> cnt < burst_length
  BY <1>1, Countdown, BurstLength
<1>3. Block!Down(cnt, burst_bits) = Down(cnt, burst_bits)
  BY DEF Block!Down, Down
<1>4. (burst_length - 2) % (2 * burst_length) = burst_length - 2
  <2> DEFINE C == 2 * burst_length
             x == burst_length - 2
  <2>1. C \in Nat \ {0} /\ x \in 0 .. C - 1 /\ x \in Int
    BY BurstLength
  <2> HIDE DEF C, x
  <2>2. x % C = x
    BY <2>1, ModSmall
  <2> QED
    BY <2>2 DEF C, x
<1> QED
  BY <1>2, <1>3, <1>4, Countdown, BlockConstants DEF Block!Left

LEMMA BlockCounterNext ==
  ASSUME cnt' \in 0 .. 2 * burst_length - 1
  PROVE  /\ Block!mem_waitrequest' <=> cnt' < burst_length
         /\ Block!Left' = IF cnt' < burst_length THEN cnt' + 1 ELSE 0
<1>1. Block!mem_waitrequest' <=> ~Negative(cnt', burst_bits)
  BY DEF Block!mem_waitrequest, Block!Negative, Negative
<1>2. Block!mem_waitrequest' <=> cnt' < burst_length
  BY <1>1, Countdown, BurstLength
<1> QED
  BY <1>2 DEF Block!Left

LEMMA BlockInit == Block!Init => BlockInv /\ Block!Left = 0
<1> SUFFICES ASSUME Block!Init PROVE BlockInv /\ Block!Left = 0
  OBVIOUS
<1>1. ram = [x \in Addr |-> ram[x]]
  BY BlockConstants DEF Block!Init, Content
<1>2. cnt = 2 * burst_length - 1
  BY BlockConstants DEF Block!Init
<1>3. cnt \in 0 .. 2 * burst_length - 1 /\ ~(cnt < burst_length)
  BY <1>2, BurstLength
<1>4. read_address \in Addr /\ mem_readdataid = 0
  BY BurstLength DEF Block!Init, Addr
<1> QED
  BY <1>1, <1>3, <1>4, BlockCounter DEF BlockInv

\* How far a step takes a burst.
LEMMA BlockContinue ==
  ASSUME BlockInv, Block!Continue
  PROVE  /\ BlockInv'
         /\ Block!Left \in Nat \ {0} /\ Block!Left' = Block!Left - 1
         /\ read_address \in Nat /\ read_address + Block!Left <= Words
         /\ Block!Left # 1 => read_address' = read_address + 1
         /\ mem_readdataid # 0
<1>1. cnt \in Nat /\ cnt < burst_length /\ read_address + cnt < Words /\ mem_readdataid # 0
  BY BlockCounter DEF Block!Continue, BlockInv
<1>2. cnt' = IF cnt = 0 THEN 2 * burst_length - 1 ELSE cnt - 1
  BY BlockCounter DEF Block!Continue, BlockInv
<1>3. cnt' \in 0 .. 2 * burst_length - 1 /\ (cnt' < burst_length <=> cnt # 0)
  BY <1>1, <1>2, BurstLength
<1>4. (Block!mem_waitrequest' <=> cnt' < burst_length) /\ Block!Left' = IF cnt' < burst_length THEN cnt' + 1 ELSE 0
  BY <1>3, BlockCounterNext
<1>5. read_address \in Addr /\ read_address \in Nat
  BY DEF BlockInv, Addr
<1>6. read_address' \in Addr /\ (cnt # 0 => read_address' = read_address + 1)
  BY <1>1, <1>5, BurstLength, NextAddress DEF Block!Continue
<1>7. Block!Left = cnt + 1
  BY <1>1, BlockCounter DEF BlockInv
<1>8. BlockInv'
  BY <1>1, <1>2, <1>3, <1>4, <1>5, <1>6 DEF Block!Continue, BlockInv
<1> QED
  BY <1>1, <1>2, <1>3, <1>4, <1>5, <1>6, <1>7, <1>8, BurstLength

LEMMA BlockRead ==
  ASSUME BlockInv, NEW id \in Ids, NEW a \in Lines, Block!Read(id, a)
  PROVE  /\ BlockInv'
         /\ Block!Left = 0 /\ Block!Left' = burst_length - 1
         /\ read_address' = a + 1
<1>1. ~(cnt < burst_length) /\ cnt' = burst_length - 2 /\ Block!Left = 0
  BY BlockCounter DEF Block!Read, BlockInv
<1>2. cnt' \in 0 .. 2 * burst_length - 1 /\ cnt' < burst_length
  BY <1>1, BurstLength
<1>3. Block!mem_waitrequest' /\ Block!Left' = cnt' + 1
  BY <1>2, BlockCounterNext
<1>4. a \in Nat /\ a \in Addr /\ a + burst_length <= Words
  BY LineFits
<1>5. read_address' = a + 1 /\ a + 1 \in Addr
  BY <1>4, BurstLength, NextAddress DEF Block!Read
<1>6. BlockInv'
  BY <1>1, <1>2, <1>4, <1>5, BurstLength DEF Block!Read, BlockInv
<1> QED
  BY <1>1, <1>3, <1>5, <1>6, BurstLength

LEMMA BlockPass ==
  ASSUME BlockInv, Block!Idle \/ \E a \in Stored, w \in Written : Block!Store(a, w)
  PROVE  /\ BlockInv'
         /\ Block!Left = 0 /\ Block!Left' = 0
<1>1. ~(cnt < burst_length) /\ cnt' = cnt /\ Block!Left = 0 /\ mem_readdataid' = 0
      /\ read_address' = read_address
  BY BlockCounter DEF Block!Idle, Block!Store, BlockInv
<1>2. cnt' \in 0 .. 2 * burst_length - 1
  BY <1>1 DEF BlockInv
<1>3. ~Block!mem_waitrequest' /\ Block!Left' = 0
  BY <1>1, <1>2, BlockCounterNext
<1>4. ram' = [x \in Addr |-> ram'[x]]
  <2>1. CASE Block!Idle
    BY <2>1 DEF Block!Idle, BlockInv
  <2>2. ASSUME NEW a, NEW w, Block!Store(a, w) PROVE ram' = [x \in Addr |-> ram'[x]]
    <3>1. ram' = Write(ram, a, w)
      BY <2>2, Zenon DEF Block!Store, Block!Write, Write, Block!Lanes, Lanes, Block!Low, Low, Block!High, High
    <3> QED
      BY <3>1, WriteShape DEF BlockInv
  <2> QED
    BY <2>1, <2>2
<1> QED
  BY <1>1, <1>2, <1>3, <1>4 DEF BlockInv

BlockOwed == Upcoming(mem_readdataid, Block!Left, ram, read_address)

BlockGiven == IF mem_readdataid = 0 THEN None ELSE [id |-> mem_readdataid, data |-> rddata]

LEMMA BlockRefines == BlockInv /\ Block!Next => BlockInv' /\ Block!Memory!Next
<1> SUFFICES ASSUME BlockInv, Block!Next PROVE BlockInv' /\ Block!Memory!Next
  OBVIOUS
<1> USE DEF BlockOwed, BlockGiven
<1>1. CASE Block!Continue
  <2> USE <1>1
  <2>1. Block!Left \in Nat \ {0} /\ Block!Left' = Block!Left - 1 /\ read_address \in Nat
        /\ read_address + Block!Left <= Words /\ (Block!Left # 1 => read_address' = read_address + 1)
        /\ mem_readdataid # 0 /\ BlockInv'
    BY BlockContinue
  <2>2. Splits(BlockOwed, [id |-> mem_readdataid, data |-> ram[read_address]],
               Upcoming(mem_readdataid, Block!Left', ram, read_address'))
    BY <2>1, UpcomingStep
  <2>3. Splits(BlockOwed, BlockGiven', BlockOwed')
    BY <2>1, <2>2 DEF Block!Continue
  <2>4. BlockOwed \o <<>> = BlockOwed
    BY <2>1, UpcomingConcat
  <2>5. Block!Memory!Wait
    BY <2>3, <2>4, Zenon DEF Block!Memory!Wait, Block!Memory!Answer, Block!Continue, Splits, Upcoming
  <2> QED
    BY <2>1, <2>5, Zenon DEF Block!Memory!Next
<1>2. ASSUME NEW id \in Ids, NEW a \in Lines, Block!Read(id, a)
      PROVE  BlockInv' /\ Block!Memory!Next
  <2> DEFINE b == Upcoming(id, burst_length, ram, a)
  <2>1. Block!Left = 0 /\ Block!Left' = burst_length - 1 /\ read_address' = a + 1 /\ BlockInv'
    BY <1>2, BlockRead
  <2>2. burst_length \in Nat \ {0} /\ a \in Nat /\ a + burst_length <= Words /\ id # 0
    BY BurstLength, LineFits
  <2>3. Splits(b, [id |-> id, data |-> ram[a]], Upcoming(id, Block!Left', ram, read_address'))
    BY <2>1, <2>2, UpcomingStep
  <2>4. Splits(b, BlockGiven', BlockOwed')
    BY <1>2, <2>2, <2>3 DEF Block!Read
  <2>5. BlockOwed = <<>> /\ <<>> \o b = b
    BY <2>1, <2>2, UpcomingNone, UpcomingConcat
  <2>6. b = Block!Memory!Burst(id, a)
    BY UpcomingLine DEF Block!Memory!Burst, Block!Memory!burst_length, burst_length
  <2>7. Block!Memory!Read(id, a)
    BY <1>2, <2>4, <2>5, <2>6, Zenon DEF Block!Memory!Read, Block!Memory!Answer, Block!Read, Splits, Upcoming
  <2>8. a \in Block!Memory!Lines
    BY DEF Lines, Block!Memory!Lines, Addr, Block!Memory!Addr, burst_length, Block!Memory!burst_length
  <2> QED
    BY <2>1, <2>7, <2>8, Zenon DEF Block!Memory!Next
<1>3. ASSUME Block!Idle \/ \E a \in Stored, w \in Written : Block!Store(a, w)
      PROVE  BlockInv' /\ BlockOwed = <<>> /\ BlockOwed' = <<>> /\ BlockGiven' = None
  <2>1. BlockInv' /\ Block!Left = 0 /\ Block!Left' = 0
    BY <1>3, BlockPass
  <2>2. BlockOwed = <<>> /\ BlockOwed' = <<>>
    BY <2>1, UpcomingNone
  <2>3. mem_readdataid' = 0
    BY <1>3 DEF Block!Idle, Block!Store
  <2> QED
    BY <2>1, <2>2, <2>3
<1>4. ASSUME NEW a \in Stored, NEW w \in Written, Block!Store(a, w)
      PROVE  BlockInv' /\ Block!Memory!Next
  <2>1. BlockInv' /\ BlockOwed = <<>> /\ BlockOwed' = <<>> /\ BlockGiven' = None
    BY <1>3, <1>4
  <2>2. Block!Memory!Store(a, w)
    BY <1>4, <2>1, NothingMore, Zenon DEF Block!Memory!Store, Block!Memory!Answer, Block!Memory!Write,
      Block!Write, Block!Store, Upcoming, Block!Memory!Lanes, Block!Lanes, Block!Memory!Low, Block!Low,
      Block!Memory!High, Block!High
  <2>3. w \in Block!Memory!Written
    BY Zenon DEF Written, Block!Memory!Written, Lanes, Block!Memory!Lanes, Low, Block!Memory!Low,
      High, Block!Memory!High
  <2> QED
    BY <2>1, <2>2, <2>3, Zenon DEF Block!Memory!Next
<1>5. CASE Block!Idle
  <2>1. BlockInv' /\ BlockOwed = <<>> /\ BlockOwed' = <<>> /\ BlockGiven' = None
    BY <1>3, <1>5
  <2>2. Block!Memory!Wait
    BY <1>5, <2>1, NothingMore, Zenon DEF Block!Memory!Wait, Block!Memory!Answer, Block!Idle, Upcoming
  <2> QED
    BY <2>1, <2>2, Zenon DEF Block!Memory!Next
<1>6. ASSUME NEW req \in Requests, Block!Clock(req) PROVE BlockInv' /\ Block!Memory!Next
  BY <1>1, <1>2, <1>4, <1>5, <1>6, RequestHas, Zenon DEF Block!Clock
<1> QED
  BY <1>6, BlockConstants DEF Block!Next

LEMMA BlockStarts == Block!Init => BlockInv /\ Block!Memory!Init
<1> SUFFICES ASSUME Block!Init PROVE BlockInv /\ Block!Memory!Init
  OBVIOUS
<1> USE DEF BlockOwed, BlockGiven
<1>1. BlockInv /\ BlockOwed = <<>>
  BY BlockInit, UpcomingNone
<1>2. Block!Content = Block!Memory!Content
  BY DEF Block!Content, Block!Memory!Content, Block!Addr, Block!Memory!Addr, Block!Lanes,
    Block!Memory!Lanes, Block!Low, Block!Memory!Low, Block!High, Block!Memory!High
<1> QED
  BY <1>1, <1>2, Zenon DEF Block!Init, Block!Memory!Init, Upcoming

LEMMA BlockStays == UNCHANGED <<ram, rddata, cnt, read_address, mem_readdataid>> => UNCHANGED Block!Memory!vars
  BY DEF Block!Memory!vars, Block!Left, Block!mem_waitrequest

----------------------------------------------------------------------------
(* sram_ctrl.v.                                                            *)

\* The write strobe is as long as the controller is in its write states and
\* half a cycle longer: until then the controller drives the data pins, and
\* no burst is under way.
SramInv ==
  /\ need_wait \in BOOLEAN
  /\ sram = [x \in Addr |-> sram[x]]
  /\ state \in {"S_IDLE", "S_READWAIT", "S_WRITE1", "S_WRITE2"}
  /\ cnt \in 0 .. 2 * burst_length - 1
  /\ pendingid \in Ids \cup {0}
  /\ mem_readdataid \in Ids \cup {0}
  /\ sram_a \in Addr
  /\ sram_be \subseteq Lanes
  /\ {sram_oe, sram_dout_en, int_we, sram_we} \subseteq BOOLEAN
  /\ int_we <=> state \in {"S_WRITE1", "S_WRITE2"}
  /\ int_we \/ sram_we =>
       sram_dout_en /\ ~sram_oe /\ sram_dout \in [Lanes -> Values] /\ ~Sram!Bursting
  /\ Sram!Bursting =>
       pendingid # 0 /\ sram_a + cnt < Words /\ sram_oe /\ ~sram_dout_en

LEMMA SramConstants ==
  /\ Sram!burst_length = burst_length
  /\ Sram!Addr = Addr
  /\ Sram!Content = Content
  /\ Sram!Requests = Requests
  /\ Sram!Lanes = Lanes
  BY DEF Sram!burst_length, burst_length, Sram!Addr, Addr, Sram!Content, Content, Sram!Lanes,
    Lanes, Sram!Low, Low, Sram!High, High, Sram!Requests, Requests, Sram!Lines, Lines,
    Sram!Written, Written, Sram!NoRequest, NoRequest

LEMMA SramCounter ==
  ASSUME cnt \in 0 .. 2 * burst_length - 1
  PROVE  /\ Sram!Bursting <=> cnt < burst_length
         /\ Sram!Down(cnt, burst_bits) = IF cnt = 0 THEN 2 * burst_length - 1 ELSE cnt - 1
         /\ Sram!Left = IF cnt < burst_length THEN cnt + 1 ELSE 0
<1>1. Sram!Bursting <=> ~Negative(cnt, burst_bits)
  BY DEF Sram!Bursting, Sram!Negative, Negative
<1>2. Sram!Bursting <=> cnt < burst_length
  BY <1>1, Countdown, BurstLength
<1>3. Sram!Down(cnt, burst_bits) = Down(cnt, burst_bits)
  BY DEF Sram!Down, Down
<1> QED
  BY <1>2, <1>3, Countdown DEF Sram!Left

LEMMA SramCounterNext ==
  ASSUME cnt' \in 0 .. 2 * burst_length - 1
  PROVE  /\ Sram!Bursting' <=> cnt' < burst_length
         /\ Sram!Left' = IF cnt' < burst_length THEN cnt' + 1 ELSE 0
<1>1. Sram!Bursting' <=> ~Negative(cnt', burst_bits)
  BY DEF Sram!Bursting, Sram!Negative, Negative
<1>2. Sram!Bursting' <=> cnt' < burst_length
  BY <1>1, Countdown, BurstLength
<1> QED
  BY <1>2 DEF Sram!Left

LEMMA SramInit == Sram!Init => SramInv /\ Sram!Left = 0 /\ Sram!Stable = Content
<1> SUFFICES ASSUME Sram!Init PROVE SramInv /\ Sram!Left = 0 /\ Sram!Stable = Content
  OBVIOUS
<1>1. sram = Content /\ cnt = 2 * burst_length - 1
  BY SramConstants DEF Sram!Init
<1>2. sram = [x \in Addr |-> sram[x]]
  BY <1>1 DEF Content
<1>3. cnt \in 0 .. 2 * burst_length - 1 /\ ~(cnt < burst_length)
  BY <1>1, BurstLength
<1>4. sram_a \in Addr
  BY BurstLength DEF Sram!Init, Addr
<1>5. Sram!Stable = Content
  BY <1>1 DEF Sram!Init, Sram!Stable
<1> QED
  BY <1>2, <1>3, <1>4, <1>5, SramCounter DEF Sram!Init, SramInv

\* What the chip holds once it has taken what is on its pins.
LEMMA SramStable ==
  ASSUME SramInv
  PROVE  /\ Sram!Stable = [x \in Addr |-> Sram!Stable[x]]
         /\ ~int_we /\ ~sram_we => Sram!Stable = sram
         /\ int_we \/ sram_we =>
              Sram!Stable = [sram EXCEPT ![sram_a] = [l \in Lanes |-> IF l \in sram_be THEN sram_dout[l] ELSE @[l]]]
<1>1. CASE ~int_we /\ ~sram_we
  BY <1>1 DEF Sram!Stable, SramInv
<1>2. CASE int_we \/ sram_we
  <2>1. sram_dout_en /\ ~sram_oe /\ sram_dout # None
    BY <1>2, PortAssumption DEF SramInv, Lanes, Low, High
  <2>2. Sram!sram_d = sram_dout
    BY <2>1 DEF Sram!sram_d
  <2>3. ASSUME NEW old
        PROVE  Sram!Merged(old) = [l \in Lanes |-> IF l \in sram_be THEN sram_dout[l] ELSE old[l]]
    BY <2>1, <2>2, SramConstants DEF Sram!Merged
  <2>4. Sram!Stable = [sram EXCEPT ![sram_a] = Sram!Merged(sram[sram_a])]
    BY <1>2 DEF Sram!Stable
  <2>5. Sram!Stable = [sram EXCEPT ![sram_a] = [l \in Lanes |-> IF l \in sram_be THEN sram_dout[l] ELSE sram[sram_a][l]]]
    BY <2>3, <2>4
  <2>6. Sram!Stable = [x \in Addr |-> Sram!Stable[x]]
    BY <2>5 DEF SramInv
  <2> QED
    BY <1>2, <2>5, <2>6
<1> QED
  BY <1>1, <1>2

\* The invariant, and how far a step takes a burst.
LEMMA SramContinue ==
  ASSUME SramInv, Sram!Continue, Sram!Chip, UNCHANGED need_wait
  PROVE  /\ SramInv'
         /\ Sram!Left \in Nat \ {0} /\ Sram!Left' = Sram!Left - 1
         /\ sram_a \in Nat /\ sram_a + Sram!Left <= Words
         /\ Sram!Left # 1 => sram_a' = sram_a + 1
         /\ pendingid # 0 /\ mem_readdata' = sram[sram_a]
         /\ ~int_we /\ ~sram_we /\ ~int_we' /\ ~sram_we' /\ sram' = sram
<1>1. cnt \in Nat /\ cnt < burst_length /\ sram_a + cnt < Words /\ pendingid # 0 /\ sram_oe
      /\ ~sram_dout_en /\ state = "S_IDLE" /\ ~int_we /\ ~sram_we /\ Sram!Left = cnt + 1
  BY SramCounter DEF Sram!Continue, SramInv
<1>2. cnt' = IF cnt = 0 THEN 2 * burst_length - 1 ELSE cnt - 1
  BY SramCounter DEF Sram!Continue, SramInv
<1>3. cnt' \in 0 .. 2 * burst_length - 1 /\ (cnt' < burst_length <=> cnt # 0)
  BY <1>1, <1>2, BurstLength
<1>4. (Sram!Bursting' <=> cnt' < burst_length) /\ Sram!Left' = IF cnt' < burst_length THEN cnt' + 1 ELSE 0
  BY <1>3, SramCounterNext
<1>5. sram_a \in Addr /\ sram_a \in Nat
  BY DEF SramInv, Addr
<1>6. sram_a' \in Addr /\ (cnt # 0 => sram_a' = sram_a + 1)
  BY <1>1, <1>5, BurstLength, NextAddress DEF Sram!Continue
<1>7. sram' = sram /\ ~sram_we'
  BY <1>1, SramStable DEF Sram!Chip
<1>8. state' \in {"S_IDLE", "S_READWAIT"}
  BY DEF Sram!Continue, Sram!Paused
<1>9. mem_readdata' = sram[sram_a]
  BY <1>1 DEF Sram!Continue, Sram!sram_d
<1>10. SramInv'
  <2>1. {sram_oe', sram_dout_en', int_we', sram_we'} \subseteq BOOLEAN /\ sram_be' \subseteq Lanes /\ need_wait' \in BOOLEAN
    BY DEF SramInv, Sram!Continue, Sram!Chip
  <2>2. sram' = [x \in Addr |-> sram'[x]]
    BY <1>7 DEF SramInv
  <2>3. Sram!Bursting' => pendingid' # 0 /\ sram_a' + cnt' < Words /\ sram_oe' /\ ~sram_dout_en'
    BY <1>1, <1>2, <1>4, <1>3, <1>5, <1>6 DEF Sram!Continue
  <2>4. ~int_we' /\ ~sram_we' /\ ~(state' \in {"S_WRITE1", "S_WRITE2"})
    BY <1>1, <1>7, <1>8 DEF Sram!Continue
  <2>5. pendingid' \in Ids \cup {0} /\ mem_readdataid' \in Ids \cup {0}
    BY DEF Sram!Continue, SramInv
  <2>6. state' \in {"S_IDLE", "S_READWAIT", "S_WRITE1", "S_WRITE2"}
    BY <1>8
  <2> QED
    BY <2>1, <2>2, <2>3, <2>4, <2>5, <2>6, <1>3, <1>6 DEF SramInv
<1> QED
  BY <1>1, <1>2, <1>3, <1>4, <1>5, <1>6, <1>7, <1>9, <1>10, BurstLength DEF Sram!Continue

LEMMA SramRead ==
  ASSUME SramInv, NEW id \in Ids, NEW a \in Lines, Sram!Read(id, a), Sram!Chip, UNCHANGED need_wait
  PROVE  /\ SramInv'
         /\ Sram!Left = 0 /\ Sram!Left' = burst_length /\ sram_a' = a /\ pendingid' = id
         /\ sram' = Sram!Stable /\ ~int_we' /\ ~sram_we'
<1>1. ~Sram!Bursting /\ state = "S_IDLE" /\ ~int_we /\ Sram!Left = 0 /\ ~sram_we'
  BY SramCounter DEF Sram!Read, Sram!mem_waitrequest, SramInv, Sram!Chip
<1>2. cnt' = burst_length - 1
  BY SramConstants DEF Sram!Read
<1>3. cnt' \in 0 .. 2 * burst_length - 1 /\ cnt' < burst_length
  BY <1>2, BurstLength
<1>4. Sram!Bursting' /\ Sram!Left' = burst_length
  BY <1>2, <1>3, SramCounterNext, BurstLength
<1>5. a \in Nat /\ a \in Addr /\ a + burst_length <= Words
  BY LineFits
<1>6. sram' = [x \in Addr |-> sram'[x]]
  BY SramStable DEF Sram!Chip
<1>7. state' \in {"S_IDLE", "S_READWAIT"}
  BY DEF Sram!Read, Sram!Paused
<1>8. SramInv'
  <2>1. {sram_oe', sram_dout_en', int_we', sram_we'} \subseteq BOOLEAN /\ sram_be' \subseteq Lanes /\ need_wait' \in BOOLEAN
    BY SramConstants DEF SramInv, Sram!Read, Sram!Chip
  <2>3. Sram!Bursting' => pendingid' # 0 /\ sram_a' + cnt' < Words /\ sram_oe' /\ ~sram_dout_en'
    BY <1>2, <1>5, BurstLength DEF Sram!Read
  <2>4. ~int_we' /\ ~sram_we' /\ ~(state' \in {"S_WRITE1", "S_WRITE2"})
    BY <1>1, <1>7 DEF Sram!Read
  <2>5. pendingid' \in Ids \cup {0} /\ mem_readdataid' \in Ids \cup {0} /\ sram_a' \in Addr
    BY <1>5 DEF Sram!Read
  <2>6. state' \in {"S_IDLE", "S_READWAIT", "S_WRITE1", "S_WRITE2"}
    BY <1>7
  <2> QED
    BY <2>1, <2>3, <2>4, <2>5, <2>6, <1>3, <1>6 DEF SramInv
<1> QED
  BY <1>1, <1>4, <1>8 DEF Sram!Read, Sram!Chip

LEMMA SramStore ==
  ASSUME SramInv, NEW a \in Stored, NEW w \in Written, Sram!Store(a, w), Sram!Chip, UNCHANGED need_wait
  PROVE  /\ SramInv'
         /\ Sram!Left = 0 /\ Sram!Left' = 0
         /\ Sram!Stable' = Write(Sram!Stable, a, w)
<1>1. ~Sram!Bursting /\ state = "S_IDLE" /\ ~int_we /\ Sram!Left = 0 /\ cnt' = cnt
  BY SramCounter DEF Sram!Store, Sram!mem_waitrequest, SramInv, Sram!Chip
<1>2. ~Sram!Bursting' /\ Sram!Left' = 0
  BY <1>1 DEF Sram!Bursting, Sram!Left
<1>3. DOMAIN w \subseteq Lanes
  BY DEF Written
<1>4. a \in Addr
  BY PortAssumption DEF Addr
<1>5. sram_dout' \in [Lanes -> Values] /\ \A l \in DOMAIN w : sram_dout'[l] = w[l]
  BY SramConstants DEF Sram!Store
<1>6. sram' = [x \in Addr |-> sram'[x]] /\ sram' = Sram!Stable
  BY SramStable DEF Sram!Chip
<1>7. SramInv'
  BY <1>1, <1>2, <1>3, <1>4, <1>5, <1>6 DEF SramInv, Sram!Store, Sram!Chip
<1>8. Sram!Stable' = [sram' EXCEPT ![sram_a'] = [l \in Lanes |-> IF l \in sram_be' THEN sram_dout'[l] ELSE @[l]]]
  <2>1. (SramInv => (int_we \/ sram_we =>
            Sram!Stable = [sram EXCEPT ![sram_a] = [l \in Lanes |-> IF l \in sram_be THEN sram_dout[l] ELSE @[l]]]))'
    BY SramStable, PTL
  <2>2. int_we'
    BY DEF Sram!Store
  <2> QED
    BY <1>7, <2>1, <2>2
<1>9. Sram!Stable' = [Sram!Stable EXCEPT ![a] = [l \in Lanes |-> IF l \in DOMAIN w THEN w[l] ELSE @[l]]]
  <2>1. sram_a' = a /\ sram_be' = DOMAIN w
    BY DEF Sram!Store
  <2>2. [l \in Lanes |-> IF l \in DOMAIN w THEN sram_dout'[l] ELSE Sram!Stable[a][l]]
          = [l \in Lanes |-> IF l \in DOMAIN w THEN w[l] ELSE Sram!Stable[a][l]]
    BY <1>5
  <2> QED
    BY <1>6, <1>8, <2>1, <2>2
<1> QED
  BY <1>1, <1>2, <1>7, <1>9 DEF Write

\* A step that answers no one.
LEMMA SramPass ==
  ASSUME SramInv, Sram!Pass \/ Sram!Idle, Sram!Chip, UNCHANGED need_wait
  PROVE  /\ SramInv'
         /\ Sram!Left' = Sram!Left /\ Sram!Left \in Nat
         /\ UNCHANGED <<pendingid, sram_a>> /\ mem_readdataid' = 0
         /\ Sram!Left # 0 => sram' = sram
         /\ Sram!Stable' = Sram!Stable
<1>1. UNCHANGED <<cnt, pendingid, sram_a, sram_be, sram_dout>> /\ mem_readdataid' = 0
  BY DEF Sram!Pass, Sram!Idle
<1>2. (Sram!Bursting' <=> Sram!Bursting) /\ Sram!Left' = Sram!Left
  BY <1>1 DEF Sram!Bursting, Sram!Left
<1>3. (Sram!Bursting => Sram!Left # 0) /\ (~Sram!Bursting => Sram!Left = 0) /\ Sram!Left \in Nat
  BY SramCounter, BurstLength DEF SramInv, Sram!Left
<1>4. sram' = [x \in Addr |-> sram'[x]] /\ sram' = Sram!Stable /\ sram_we' = int_we
  BY SramStable DEF Sram!Chip
<1>5. CASE Sram!Write1 \/ Sram!Write2
  <2>1. int_we /\ sram_dout_en /\ ~sram_oe /\ sram_dout \in [Lanes -> Values] /\ ~Sram!Bursting
    BY <1>5 DEF SramInv, Sram!Write1, Sram!Write2
  <2>2. sram_dout_en' = TRUE /\ sram_oe' = sram_oe /\ sram_we' = int_we
    <3>1. ~Sram!Idle
      BY <1>5 DEF Sram!Write1, Sram!Write2, Sram!Idle, Sram!mem_waitrequest
    <3>2. sram_oe' = sram_oe
      BY <3>1 DEF Sram!Pass
    <3>3. sram_dout_en' = TRUE
      BY <1>5 DEF Sram!Write1, Sram!Write2
    <3> QED
      BY <1>4, <3>2, <3>3
  <2>3. int_we' \in BOOLEAN /\ (int_we' <=> state' \in {"S_WRITE1", "S_WRITE2"})
        /\ state' \in {"S_IDLE", "S_READWAIT", "S_WRITE1", "S_WRITE2"}
    <3>1. CASE int_we' = TRUE /\ state' = "S_WRITE2"
      BY <3>1
    <3>2. CASE int_we' = FALSE /\ state' = "S_IDLE"
      BY <3>2
    <3>3. need_wait = TRUE \/ need_wait = FALSE
      BY DEF SramInv
    <3> QED
      BY <1>5, <3>1, <3>2, <3>3 DEF Sram!Write1, Sram!Write2
  <2>4. SramInv'
    <3>1. {sram_oe', sram_dout_en', sram_we'} \subseteq BOOLEAN /\ need_wait' \in BOOLEAN
      BY <2>2 DEF SramInv
    <3>2. sram_dout_en' /\ ~sram_oe' /\ sram_dout' \in [Lanes -> Values] /\ ~Sram!Bursting'
      BY <1>1, <1>2, <2>1, <2>2
    <3> QED
      BY <1>1, <1>4, <2>3, <3>1, <3>2 DEF SramInv
  <2>5. Sram!Stable' = [sram' EXCEPT ![sram_a'] = [l \in Lanes |-> IF l \in sram_be' THEN sram_dout'[l] ELSE @[l]]]
    <3>1. (SramInv => (int_we \/ sram_we =>
            Sram!Stable = [sram EXCEPT ![sram_a] = [l \in Lanes |-> IF l \in sram_be THEN sram_dout[l] ELSE @[l]]]))'
      BY SramStable, PTL
    <3> QED
      BY <2>1, <2>2, <2>4, <3>1
  <2>6. Sram!Stable = [sram EXCEPT ![sram_a] = [l \in Lanes |-> IF l \in sram_be THEN sram_dout[l] ELSE @[l]]]
    BY <2>1, SramStable
  <2>7. Sram!Stable' = Sram!Stable
    <3>1. sram = [x \in Addr |-> sram[x]] /\ sram_a \in Addr
      BY DEF SramInv
    <3>2. Sram!Stable[sram_a] = [l \in Lanes |-> IF l \in sram_be THEN sram_dout[l] ELSE sram[sram_a][l]]
      BY <2>6, <3>1
    <3>3. [l \in Lanes |-> IF l \in sram_be THEN sram_dout[l] ELSE Sram!Stable[sram_a][l]] = Sram!Stable[sram_a]
      BY <3>2
    <3>4. Sram!Stable' = [Sram!Stable EXCEPT ![sram_a] = Sram!Stable[sram_a]]
      BY <1>1, <1>4, <2>5, <3>3
    <3>5. Sram!Stable = [x \in Addr |-> Sram!Stable[x]]
      BY SramStable
    <3> QED
      BY <3>4, <3>5
  <2> QED
    BY <1>1, <1>2, <1>3, <2>1, <2>4, <2>7
<1>6. CASE Sram!ReadWait \/ Sram!Idle
  <2>1. ~int_we /\ ~int_we' /\ ~sram_we'
    BY <1>4, <1>6 DEF SramInv, Sram!ReadWait, Sram!Idle, Sram!mem_waitrequest
  <2>2. Sram!Bursting => sram_oe' /\ ~sram_dout_en' /\ ~sram_we
    BY <1>6 DEF SramInv, Sram!Pass, Sram!ReadWait, Sram!Idle, Sram!mem_waitrequest, Sram!Write1, Sram!Write2
  <2>3. {sram_oe', sram_dout_en', int_we', sram_we'} \subseteq BOOLEAN
    BY <1>4, <1>6, <2>1 DEF SramInv, Sram!Pass, Sram!ReadWait, Sram!Idle, Sram!Write1, Sram!Write2
  <2>4. state' = "S_IDLE"
    BY <1>6 DEF Sram!ReadWait, Sram!Idle, Sram!mem_waitrequest
  <2>5. SramInv'
    BY <1>1, <1>2, <1>4, <2>1, <2>2, <2>3, <2>4 DEF SramInv
  <2>6. Sram!Stable' = sram'
    BY <2>1 DEF Sram!Stable
  <2>7. Sram!Bursting => sram' = sram
    BY <1>4, <2>1, <2>2, SramStable
  <2> QED
    BY <1>1, <1>2, <1>3, <1>4, <2>5, <2>6, <2>7
<1> QED
  BY <1>5, <1>6 DEF Sram!Pass

SramOwed == Upcoming(pendingid, Sram!Left, sram, sram_a)

SramGiven == IF mem_readdataid = 0 THEN None ELSE [id |-> mem_readdataid, data |-> mem_readdata]

LEMMA SramClock ==
  ASSUME SramInv, NEW req \in Requests, Sram!Clock(req)
  PROVE  SramInv' /\ Sram!Memory!Next
<1> USE DEF SramOwed, SramGiven
<1>0. Sram!Chip /\ UNCHANGED need_wait /\ sram' = Sram!Stable
  BY DEF Sram!Clock, Sram!Chip
<1>1. CASE Sram!Continue
  <2>1. SramInv' /\ Sram!Left \in Nat \ {0} /\ Sram!Left' = Sram!Left - 1 /\ sram_a \in Nat
        /\ sram_a + Sram!Left <= Words /\ (Sram!Left # 1 => sram_a' = sram_a + 1)
        /\ pendingid # 0 /\ mem_readdata' = sram[sram_a]
        /\ ~int_we /\ ~sram_we /\ ~int_we' /\ ~sram_we' /\ sram' = sram
    BY <1>0, <1>1, SramContinue
  <2>2. Splits(SramOwed, [id |-> pendingid, data |-> sram[sram_a]],
               Upcoming(pendingid, Sram!Left', sram, sram_a'))
    BY <2>1, UpcomingStep
  <2>3. Splits(SramOwed, SramGiven', SramOwed')
    BY <1>1, <2>1, <2>2 DEF Sram!Continue
  <2>4. SramOwed \o <<>> = SramOwed
    BY <2>1, UpcomingConcat
  <2>5. Sram!Stable' = Sram!Stable
    BY <2>1 DEF Sram!Stable
  <2>6. Sram!Memory!Wait
    BY <2>3, <2>4, <2>5, Zenon DEF Sram!Memory!Wait, Sram!Memory!Answer, Splits, Upcoming
  <2> QED
    BY <2>1, <2>6, Zenon DEF Sram!Memory!Next
<1>2. ASSUME Sram!Pass \/ Sram!Idle
      PROVE  SramInv' /\ Sram!Memory!Next
  <2>1. SramInv' /\ Sram!Left' = Sram!Left /\ Sram!Left \in Nat
        /\ UNCHANGED <<pendingid, sram_a>> /\ mem_readdataid' = 0
        /\ (Sram!Left # 0 => sram' = sram) /\ Sram!Stable' = Sram!Stable
    BY <1>0, <1>2, SramPass
  <2>2. SramOwed' = SramOwed
    <3>1. CASE Sram!Left # 0
      BY <2>1, <3>1
    <3>2. CASE Sram!Left = 0
      <4>1. Upcoming(pendingid, 0, sram, sram_a) = <<>> /\ Upcoming(pendingid', 0, sram', sram_a') = <<>>
        BY UpcomingNone
      <4> QED
        BY <2>1, <3>2, <4>1
    <3> QED
      BY <3>1, <3>2
  <2>3. SramOwed \o <<>> = SramOwed /\ SramGiven' = None
    BY <2>1, UpcomingConcat
  <2>4. Sram!Memory!Wait
    BY <2>1, <2>2, <2>3, Zenon DEF Sram!Memory!Wait, Sram!Memory!Answer, Upcoming
  <2> QED
    BY <2>1, <2>4, Zenon DEF Sram!Memory!Next
<1>3. ASSUME NEW id \in Ids, NEW a \in Lines, Sram!Read(id, a)
      PROVE  SramInv' /\ Sram!Memory!Next
  <2> DEFINE b == Upcoming(id, burst_length, Sram!Stable, a)
  <2>1. SramInv' /\ Sram!Left = 0 /\ Sram!Left' = burst_length /\ sram_a' = a /\ pendingid' = id
         /\ sram' = Sram!Stable /\ ~int_we' /\ ~sram_we'
    BY <1>0, <1>3, SramRead
  <2>2. burst_length \in Nat /\ mem_readdataid' = 0
    BY <1>3, BurstLength DEF Sram!Read
  <2>3. SramOwed' = b /\ SramGiven' = None
    BY <2>1, <2>2
  <2>4. SramOwed = <<>> /\ <<>> \o b = b
    BY <2>1, <2>2, UpcomingNone, UpcomingConcat
  <2>5. b = Sram!Memory!Burst(id, a)
    BY UpcomingLine DEF Sram!Memory!Burst, Sram!Memory!burst_length, burst_length
  <2>6. Sram!Stable' = Sram!Stable
    BY <2>1 DEF Sram!Stable
  <2>7. Sram!Memory!Read(id, a)
    BY <2>3, <2>4, <2>5, <2>6, Zenon DEF Sram!Memory!Read, Sram!Memory!Answer, Upcoming
  <2>8. a \in Sram!Memory!Lines
    BY DEF Lines, Sram!Memory!Lines, Addr, Sram!Memory!Addr, burst_length, Sram!Memory!burst_length
  <2> QED
    BY <2>1, <2>7, <2>8, Zenon DEF Sram!Memory!Next
<1>4. ASSUME NEW a \in Stored, NEW w \in Written, Sram!Store(a, w)
      PROVE  SramInv' /\ Sram!Memory!Next
  <2>1. SramInv' /\ Sram!Left = 0 /\ Sram!Left' = 0 /\ Sram!Stable' = Write(Sram!Stable, a, w)
    BY <1>0, <1>4, SramStore
  <2>2. SramOwed = <<>> /\ SramOwed' = <<>> /\ SramGiven' = None
    BY <1>4, <2>1, UpcomingNone DEF Sram!Store
  <2>3. Sram!Memory!Store(a, w)
    BY <2>1, <2>2, NothingMore, Zenon DEF Sram!Memory!Store, Sram!Memory!Answer, Sram!Memory!Write,
      Write, Upcoming, Sram!Memory!Lanes, Lanes, Sram!Memory!Low, Low, Sram!Memory!High, High
  <2>4. w \in Sram!Memory!Written
    BY Zenon DEF Written, Sram!Memory!Written, Lanes, Sram!Memory!Lanes, Low, Sram!Memory!Low,
      High, Sram!Memory!High
  <2> QED
    BY <2>1, <2>3, <2>4, Zenon DEF Sram!Memory!Next
<1> QED
  BY <1>1, <1>2, <1>3, <1>4, RequestHas, Zenon DEF Sram!Clock

LEMMA SramRefines == SramInv /\ Sram!Next => SramInv' /\ Sram!Memory!Next
  BY SramClock, SramConstants DEF Sram!Next

LEMMA SramStarts == Sram!Init => SramInv /\ Sram!Memory!Init
<1> SUFFICES ASSUME Sram!Init PROVE SramInv /\ Sram!Memory!Init
  OBVIOUS
<1> USE DEF SramOwed, SramGiven
<1>1. SramInv /\ SramOwed = <<>> /\ Sram!Stable = Content
  BY SramInit, UpcomingNone
<1>2. Content = Sram!Memory!Content
  BY DEF Content, Sram!Memory!Content, Addr, Sram!Memory!Addr, Lanes,
    Sram!Memory!Lanes, Low, Sram!Memory!Low, High, Sram!Memory!High
<1> QED
  BY <1>1, <1>2, Zenon DEF Sram!Init, Sram!Memory!Init, Upcoming

LEMMA SramStays ==
  UNCHANGED <<part, async, need_wait, common, cnt, mem_readdataid>> => UNCHANGED Sram!Memory!vars
  BY DEF Sram!Memory!vars, Sram!Left, Sram!Bursting, Sram!Stable, Sram!Merged, Sram!sram_d, async, common

----------------------------------------------------------------------------
(* sram16_ctrl.v.                                                          *)

\* The strobe is as in sram_ctrl.v.  A burst is at the low half of a word
\* when an odd number of halves is to come after it, and at the high half
\* the low one is in mem_readdata already.
Sram16Inv ==
  /\ sram = [h \in 0 .. 2 * Words - 1 |-> sram[h]]
  /\ state \in {"S_IDLE", "S_WRITE1", "S_WRITE2", "S_WRITE3"}
  /\ cnt \in 0 .. 8 * burst_length - 1
  /\ waitcnt \in 0 .. 31
  /\ pendingid \in Ids \cup {0}
  /\ mem_readdataid \in Ids \cup {0}
  /\ sram_a \in 0 .. 2 * Words - 1
  /\ {sram_be, be_hi, sram_oe, sram_dout_en, int_we, sram_we} \subseteq BOOLEAN
  /\ int_we <=> state \in {"S_WRITE1", "S_WRITE3"}
  /\ state \in {"S_WRITE1", "S_WRITE2"} => sram_a % 2 = 0
  /\ int_we \/ sram_we \/ state # "S_IDLE" => sram_dout_en /\ ~sram_oe /\ ~Sram16!Bursting
  /\ Sram16!Bursting =>
       /\ pendingid # 0 /\ sram_oe /\ ~sram_dout_en
       /\ cnt < 2 * burst_length /\ sram_a + cnt < 2 * Words /\ (sram_a + cnt) % 2 = 1
       /\ sram_a % 2 = 1 => mem_readdata[High] = sram[sram_a - 1]

LEMMA Sram16Constants ==
  /\ Sram16!burst_length = burst_length
  /\ Sram16!Addr = Addr
  /\ Sram16!Half = 0 .. 2 * Words - 1
  /\ Sram16!Content = Content
  /\ Sram16!Requests = Requests
  /\ Sram16!Lanes = {0, 1} /\ Lanes = {0, 1}
  /\ Sram16!Low = 0 /\ Sram16!High = 1 /\ High = 1 /\ Low = 0
  BY DEF Sram16!burst_length, burst_length, Sram16!Addr, Addr, Sram16!Content, Content, Sram16!Lanes,
    Lanes, Sram16!Low, Low, Sram16!High, High, Sram16!Requests, Requests, Sram16!Lines, Lines,
    Sram16!Written, Written, Sram16!NoRequest, NoRequest, Sram16!Half

LEMMA Sram16Widths ==
  /\ 2^Sram16!CNTSIGN = 4 * burst_length
  /\ 2^(Sram16!CNTSIGN + 1) = 8 * burst_length
  /\ 2^Sram16!WAITSIGN = 16 /\ 2^(Sram16!WAITSIGN + 1) = 32
<1>1. 2^4 = 16 /\ 2^5 = 32
  OBVIOUS
<1>2. (burst_bits + 2) + 1 = burst_bits + 3 /\ 4 + 1 = 5
  BY PortAssumption
<1> QED
  BY <1>1, <1>2, PortAssumption DEF Sram16!CNTSIGN, Sram16!WAITSIGN, burst_length

LEMMA Sram16Counter ==
  ASSUME cnt \in 0 .. 8 * burst_length - 1
  PROVE  /\ Sram16!Bursting <=> cnt < 4 * burst_length
         /\ Sram16!Down(cnt, Sram16!CNTSIGN) = IF cnt = 0 THEN 8 * burst_length - 1 ELSE cnt - 1
<1> DEFINE C == 2 * (4 * burst_length)
<1>1. C \in Nat \ {0} /\ cnt \in 0 .. C - 1 /\ C = 8 * burst_length
  BY BurstLength
<1>2. (Sram16!Bursting <=> ~(cnt >= 4 * burst_length)) /\ Sram16!Down(cnt, Sram16!CNTSIGN) = (cnt - 1) % C
  BY Sram16Widths DEF Sram16!Bursting, Sram16!Negative, Sram16!Down
<1> HIDE DEF C
<1>3. cnt - 1 \in Int /\ (cnt = 0 => cnt - 1 = -1) /\ (cnt # 0 => cnt - 1 \in 0 .. C - 1)
  BY <1>1
<1>4. (cnt - 1) % C = IF cnt = 0 THEN C - 1 ELSE cnt - 1
  <2> DEFINE x == cnt - 1
  <2>1. x \in Int /\ (cnt = 0 => x = -1) /\ (cnt # 0 => x \in 0 .. C - 1)
    BY <1>3
  <2>0. C \in Nat \ {0}
    BY <1>1
  <2> HIDE DEF x
  <2>2. x % C = IF cnt = 0 THEN C - 1 ELSE x
    BY <2>0, <2>1, ModSmall
  <2> QED
    BY <2>2 DEF x
<1> QED
  BY <1>1, <1>2, <1>4, BurstLength

LEMMA Sram16CounterNext ==
  ASSUME cnt' \in 0 .. 8 * burst_length - 1
  PROVE  Sram16!Bursting' <=> cnt' < 4 * burst_length
<1>1. Sram16!Bursting' <=> ~(cnt' >= 4 * burst_length)
  BY Sram16Widths DEF Sram16!Bursting, Sram16!Negative
<1> QED
  BY <1>1, BurstLength

LEMMA Sram16Waits ==
  ASSUME waitcnt \in 0 .. 31
  PROVE  Sram16!Waiting => Sram16!Down(waitcnt, Sram16!WAITSIGN) \in 0 .. 31
<1>1. Sram16!Down(waitcnt, Sram16!WAITSIGN) = (waitcnt - 1) % 32
  BY Sram16Widths DEF Sram16!Down
<1>2. (waitcnt - 1) % 32 \in 0 .. 31
  OBVIOUS
<1> QED
  BY <1>1, <1>2

LEMMA Sram16Pause == Sram16!Pause => waitcnt' \in 0 .. 31
  BY WaitAssumption DEF Sram16!Pause

\* What the chip holds once it has taken what is on its pins.
LEMMA Sram16Stable ==
  ASSUME Sram16Inv
  PROVE  /\ Sram16!Stable = [h \in 0 .. 2 * Words - 1 |-> Sram16!Stable[h]]
         /\ ~int_we /\ ~sram_we => Sram16!Stable = sram
         /\ int_we \/ sram_we =>
              Sram16!Stable = IF sram_be THEN [sram EXCEPT ![sram_a] = sram_dout] ELSE sram
<1>1. CASE ~int_we /\ ~sram_we
  BY <1>1 DEF Sram16!Stable, Sram16Inv
<1>2. CASE int_we \/ sram_we
  <2>1. Sram16!sram_d = sram_dout
    BY <1>2 DEF Sram16Inv, Sram16!sram_d
  <2>2. Sram16!Stable = IF sram_be THEN [sram EXCEPT ![sram_a] = sram_dout] ELSE sram
    BY <1>2, <2>1 DEF Sram16!Stable
  <2>3. Sram16!Stable = [h \in 0 .. 2 * Words - 1 |-> Sram16!Stable[h]]
    BY <2>2 DEF Sram16Inv
  <2> QED
    BY <1>2, <2>2, <2>3
<1> QED
  BY <1>1, <1>2

\* A write goes on with the same pins for as long as the strobe lasts.
LEMMA Sram16Held ==
  ASSUME Sram16Inv, Sram16!Chip, int_we' => int_we,
         int_we => UNCHANGED <<sram_a, sram_be, sram_dout, sram_dout_en, sram_oe>>
  PROVE  Sram16!Stable' = Sram16!Stable
<1>1. sram' = Sram16!Stable /\ sram_we' = int_we
  BY DEF Sram16!Chip
<1>2. CASE ~int_we
  BY <1>1, <1>2 DEF Sram16!Stable
<1>3. CASE int_we
  <2>1. Sram16!sram_d = sram_dout /\ Sram16!sram_d' = sram_dout
    BY <1>3 DEF Sram16Inv, Sram16!sram_d
  <2>2. Sram16!Stable = IF sram_be THEN [sram EXCEPT ![sram_a] = sram_dout] ELSE sram
    BY <1>3, <2>1 DEF Sram16!Stable
  <2>3. Sram16!Stable' = IF sram_be THEN [sram' EXCEPT ![sram_a] = sram_dout] ELSE sram'
    BY <1>1, <1>3, <2>1 DEF Sram16!Stable
  <2>4. sram = [h \in 0 .. 2 * Words - 1 |-> sram[h]] /\ sram_a \in 0 .. 2 * Words - 1
    BY DEF Sram16Inv
  <2> QED
    BY <1>1, <2>2, <2>3, <2>4
<1> QED
  BY <1>2, <1>3

----------------------------------------------------------------------------
(* Words of two halves.                                                    *)

LEMMA Halves ==
  ASSUME NEW h \in 0 .. 2 * Words - 1
  PROVE  /\ h \div 2 \in Addr /\ h % 2 \in {0, 1} /\ h = 2 * (h \div 2) + (h % 2)
         /\ h % 2 = 1 => h - 1 = 2 * (h \div 2)
         /\ h % 2 = 0 => (h + 1) % 2 = 1 /\ (h + 1) \div 2 = h \div 2 /\ h + 1 \in 0 .. 2 * Words - 1
         /\ h % 2 = 1 => (h + 1) % 2 = 0 /\ (h + 1) \div 2 = (h \div 2) + 1
  BY BurstLength DEF Addr

LEMMA HalvesOf ==
  ASSUME NEW a \in Addr
  PROVE  /\ 2 * a \in 0 .. 2 * Words - 1 /\ 2 * a + 1 \in 0 .. 2 * Words - 1
         /\ (2 * a) % 2 = 0 /\ (2 * a) \div 2 = a
         /\ (2 * a + 1) \div 2 = a
  BY BurstLength DEF Addr

Sram16Mem == [a \in Addr |-> Sram16!WordAt(a)]

LEMMA Sram16Word ==
  ASSUME NEW a \in Addr
  PROVE  /\ Sram16!WordAt(a)[0] = Sram16!Stable[2 * a]
         /\ Sram16!WordAt(a)[1] =
              IF Sram16!HalfWay /\ a = sram_a \div 2 THEN writedata_hi ELSE Sram16!Stable[2 * a + 1]
         /\ Sram16!WordAt(a) = [l \in {0, 1} |-> Sram16!WordAt(a)[l]]
  BY Sram16Constants DEF Sram16!WordAt, Addr

LEMMA Sram16WordNext ==
  ASSUME NEW a \in Addr
  PROVE  /\ Sram16!WordAt(a)'[0] = Sram16!Stable'[2 * a]
         /\ Sram16!WordAt(a)'[1] =
              IF Sram16!HalfWay' /\ a = sram_a' \div 2 THEN writedata_hi' ELSE Sram16!Stable'[2 * a + 1]
         /\ Sram16!WordAt(a)' = [l \in {0, 1} |-> Sram16!WordAt(a)'[l]]
  BY Sram16Constants DEF Sram16!WordAt, Addr

LEMMA Sram16SameMem ==
  ASSUME Sram16!Stable' = Sram16!Stable,
         Sram16!HalfWay' <=> Sram16!HalfWay,
         Sram16!HalfWay => UNCHANGED <<sram_a, writedata_hi>>
  PROVE  Sram16Mem' = Sram16Mem
<1>1. ASSUME NEW a \in Addr PROVE Sram16!WordAt(a)' = Sram16!WordAt(a)
  BY Sram16Word, Sram16WordNext
<1> QED
  BY <1>1 DEF Sram16Mem

LEMMA Sram16LeftIs ==
  ASSUME Sram16Inv
  PROVE  /\ Sram16!Bursting => Sram16!Left = (cnt + 2) \div 2 /\ Sram16!Left \in Nat \ {0}
                                 /\ (sram_a \div 2) + Sram16!Left <= Words
         /\ ~Sram16!Bursting => Sram16!Left = 0
<1>1. CASE Sram16!Bursting
  <2>1. Sram16!Left = (cnt + 2) \div 2
    BY <1>1 DEF Sram16!Left
  <2>2. cnt \in Nat /\ sram_a \in Nat /\ Words \in Nat /\ sram_a + cnt < 2 * Words /\ (sram_a + cnt) % 2 = 1
    BY <1>1, BurstLength DEF Sram16Inv
  <2> QED
    BY <1>1, <2>1, <2>2
<1>2. CASE ~Sram16!Bursting
  BY <1>2 DEF Sram16!Left
<1> QED
  BY <1>1, <1>2

\* The strobe as it is, the pins as they are.
LEMMA Sram16Count ==
  ASSUME Sram16Inv, Sram16!Count, Sram16!Chip
  PROVE  /\ Sram16Inv' /\ Sram16Mem' = Sram16Mem
         /\ Sram16!Left' = Sram16!Left /\ mem_readdataid' = 0
         /\ UNCHANGED <<pendingid, sram_a>>
<1>1. UNCHANGED <<state, cnt, pendingid, mem_readdata, writedata_hi, be_hi, sram_a, sram_be, sram_oe,
                  sram_dout, sram_dout_en, int_we>> /\ mem_readdataid' = 0
  BY DEF Sram16!Count, Sram16!pins
<1>2. (Sram16!Bursting' <=> Sram16!Bursting) /\ Sram16!Left' = Sram16!Left
  BY <1>1 DEF Sram16!Bursting, Sram16!Left
<1>3. waitcnt' \in 0 .. 31
  BY Sram16Waits DEF Sram16!Count, Sram16Inv
<1>4. Sram16!Stable' = Sram16!Stable
  BY <1>1, Sram16Held
<1>5. Sram16Mem' = Sram16Mem
  BY <1>1, <1>4, Sram16SameMem DEF Sram16!HalfWay
<1>6. sram' = Sram16!Stable /\ sram_we' = int_we
  BY DEF Sram16!Chip
<1>7. Sram16!Bursting => sram' = sram
  BY <1>6, Sram16Stable DEF Sram16Inv
<1>8. sram' = [h \in 0 .. 2 * Words - 1 |-> sram'[h]]
  BY <1>6, Sram16Stable
<1>9. Sram16Inv'
  <2>1. {sram_be', be_hi', sram_oe', sram_dout_en', int_we', sram_we'} \subseteq BOOLEAN
    BY <1>1, <1>6 DEF Sram16Inv
  <2>2. int_we' \/ sram_we' \/ state' # "S_IDLE" => sram_dout_en' /\ ~sram_oe' /\ ~Sram16!Bursting'
    BY <1>1, <1>2, <1>6 DEF Sram16Inv
  <2> QED
    BY <1>1, <1>2, <1>3, <1>7, <1>8, <2>1, <2>2 DEF Sram16Inv
<1> QED
  BY <1>1, <1>2, <1>5, <1>9

LEMMA Sram16Idle ==
  ASSUME Sram16Inv, Sram16!Idle, Sram16!Chip
  PROVE  /\ Sram16Inv' /\ Sram16Mem' = Sram16Mem
         /\ Sram16!Left = 0 /\ Sram16!Left' = 0 /\ mem_readdataid' = 0
<1>1. ~Sram16!Bursting /\ state = "S_IDLE" /\ ~int_we /\ int_we' = FALSE
  BY DEF Sram16!Idle, Sram16!mem_waitrequest, Sram16Inv
<1>2. ~Sram16!Bursting' /\ Sram16!Left = 0 /\ Sram16!Left' = 0
  BY <1>1 DEF Sram16!Idle, Sram16!Bursting, Sram16!Left
<1>3. Sram16!Stable' = Sram16!Stable
  BY <1>1, Sram16Held
<1>4. Sram16Mem' = Sram16Mem
  BY <1>1, <1>3, Sram16SameMem DEF Sram16!HalfWay, Sram16!Idle
<1>5. sram' = Sram16!Stable /\ sram_we' = int_we
  BY DEF Sram16!Chip
<1>6. sram' = [h \in 0 .. 2 * Words - 1 |-> sram'[h]]
  BY <1>5, Sram16Stable
<1>7. {sram_be', be_hi', sram_oe', sram_dout_en', int_we', sram_we'} \subseteq BOOLEAN
  BY <1>5 DEF Sram16Inv, Sram16!Idle
<1>8. Sram16Inv'
  BY <1>1, <1>2, <1>5, <1>6, <1>7 DEF Sram16Inv, Sram16!Idle
<1> QED
  BY <1>2, <1>4, <1>8 DEF Sram16!Idle

LEMMA Sram16EndHalf ==
  ASSUME Sram16Inv, Sram16!EndHalf, Sram16!Writing, Sram16!Chip
  PROVE  /\ Sram16Inv' /\ Sram16Mem' = Sram16Mem
         /\ Sram16!Left = 0 /\ Sram16!Left' = 0 /\ mem_readdataid' = 0
<1>1. /\ int_we /\ sram_dout_en /\ ~sram_oe /\ ~Sram16!Bursting /\ int_we' = FALSE
      /\ \/ state = "S_WRITE1" /\ state' = "S_WRITE2"
         \/ state = "S_WRITE3" /\ state' = "S_IDLE"
  BY DEF Sram16!EndHalf, Sram16!At, Sram16Inv
<1>2. /\ UNCHANGED <<waitcnt, sram_a, sram_be, sram_dout, cnt, pendingid, mem_readdata, writedata_hi,
                     be_hi, sram_oe, sram_dout_en>>
      /\ mem_readdataid' = 0
  BY DEF Sram16!EndHalf, Sram16!Writing
<1>3. ~Sram16!Bursting' /\ Sram16!Left = 0 /\ Sram16!Left' = 0
  BY <1>1, <1>2 DEF Sram16!Bursting, Sram16!Left
<1>4. Sram16!Stable' = Sram16!Stable
  BY <1>1, <1>2, Sram16Held
<1>5. Sram16Mem' = Sram16Mem
  BY <1>1, <1>2, <1>4, Sram16SameMem DEF Sram16!HalfWay
<1>6. sram' = Sram16!Stable /\ sram_we' = int_we
  BY DEF Sram16!Chip
<1>7. sram' = [h \in 0 .. 2 * Words - 1 |-> sram'[h]]
  BY <1>6, Sram16Stable
<1>8. {sram_be', be_hi', sram_oe', sram_dout_en', int_we', sram_we'} \subseteq BOOLEAN
  BY <1>1, <1>2, <1>6 DEF Sram16Inv
<1>9. Sram16Inv'
  BY <1>1, <1>2, <1>3, <1>7, <1>8 DEF Sram16Inv
<1> QED
  BY <1>2, <1>3, <1>5, <1>9

\* The high half is written where it is announced for.
LEMMA Sram16SecondHalf ==
  ASSUME Sram16Inv, Sram16!SecondHalf, Sram16!Writing, Sram16!Chip
  PROVE  /\ Sram16Inv' /\ Sram16Mem' = Sram16Mem
         /\ Sram16!Left = 0 /\ Sram16!Left' = 0 /\ mem_readdataid' = 0
<1> DEFINE a == sram_a \div 2
<1>1. /\ ~int_we /\ sram_dout_en /\ ~sram_oe /\ ~Sram16!Bursting /\ int_we' = TRUE
      /\ state = "S_WRITE2" /\ state' = "S_WRITE3" /\ sram_a % 2 = 0
      /\ sram_dout' = writedata_hi /\ sram_be' = be_hi /\ sram_a' = 2 * a + 1
  BY DEF Sram16!SecondHalf, Sram16!At, Sram16Inv
<1>2. /\ UNCHANGED <<cnt, pendingid, mem_readdata, writedata_hi, be_hi, sram_oe, sram_dout_en>>
      /\ mem_readdataid' = 0
  BY DEF Sram16!SecondHalf, Sram16!Writing
<1>3. ~Sram16!Bursting' /\ Sram16!Left = 0 /\ Sram16!Left' = 0
  BY <1>1, <1>2 DEF Sram16!Bursting, Sram16!Left
<1>4. a \in Addr /\ sram_a' \in 0 .. 2 * Words - 1
  <2>1. a \in Addr
    BY Halves DEF Sram16Inv
  <2> QED
    BY <1>1, <2>1, HalvesOf
<1>5. waitcnt' \in 0 .. 31
  BY Sram16Pause DEF Sram16!SecondHalf
<1>6. sram' = Sram16!Stable /\ sram_we' = int_we
  BY DEF Sram16!Chip
<1>7. sram' = [h \in 0 .. 2 * Words - 1 |-> sram'[h]]
  BY <1>6, Sram16Stable
<1>8. {sram_be', be_hi', sram_oe', sram_dout_en', int_we', sram_we'} \subseteq BOOLEAN
  BY <1>1, <1>2, <1>6 DEF Sram16Inv
<1>9. Sram16Inv'
  BY <1>1, <1>2, <1>3, <1>4, <1>5, <1>7, <1>8 DEF Sram16Inv
<1>10. Sram16!Stable' = IF be_hi THEN [Sram16!Stable EXCEPT ![2 * a + 1] = writedata_hi] ELSE Sram16!Stable
  <2>1. Sram16!sram_d' = sram_dout'
    BY <1>1, <1>2 DEF Sram16!sram_d
  <2> QED
    BY <1>1, <1>6, <2>1 DEF Sram16!Stable
<1>11. ASSUME NEW x \in Addr PROVE Sram16!WordAt(x)' = Sram16!WordAt(x)
  <2> HIDE DEF a
  <2>1. 2 * x # 2 * a + 1 /\ (2 * x + 1 = 2 * a + 1 <=> x = a)
        /\ 2 * x \in 0 .. 2 * Words - 1 /\ 2 * x + 1 \in 0 .. 2 * Words - 1
    BY <1>4, HalvesOf DEF Addr
  <2>2. Sram16!Stable = [h \in 0 .. 2 * Words - 1 |-> Sram16!Stable[h]]
    BY Sram16Stable
  <2>3. Sram16!Stable'[2 * x] = Sram16!Stable[2 * x]
    BY <1>10, <2>1, <2>2
  <2>4. Sram16!Stable'[2 * x + 1] = IF be_hi /\ x = a THEN writedata_hi ELSE Sram16!Stable[2 * x + 1]
    BY <1>10, <2>1, <2>2
  <2>5. (Sram16!HalfWay <=> be_hi) /\ ~Sram16!HalfWay'
    BY <1>1 DEF Sram16!HalfWay
  <2>6. Sram16!WordAt(x)[1] = IF be_hi /\ x = a THEN writedata_hi ELSE Sram16!Stable[2 * x + 1]
    BY <2>5, Sram16Word DEF a
  <2>7. Sram16!WordAt(x)'[1] = Sram16!Stable'[2 * x + 1]
    BY <2>5, Sram16WordNext
  <2>8. Sram16!WordAt(x)'[0] = Sram16!WordAt(x)[0]
    BY <2>3, Sram16Word, Sram16WordNext
  <2> QED
    BY <2>4, <2>6, <2>7, <2>8, Sram16Word, Sram16WordNext
<1> QED
  BY <1>2, <1>3, <1>9, <1>11 DEF Sram16Mem

LEMMA Sram16Read ==
  ASSUME Sram16Inv, NEW id \in Ids, NEW a \in Lines, Sram16!Read(id, a), Sram16!Chip
  PROVE  /\ Sram16Inv' /\ Sram16Mem' = Sram16Mem
         /\ Sram16!Left = 0 /\ Sram16!Left' = burst_length /\ mem_readdataid' = 0
         /\ pendingid' = id /\ sram_a' \div 2 = a
<1>1. ~Sram16!Bursting /\ state = "S_IDLE" /\ ~int_we /\ int_we' = FALSE
  BY DEF Sram16!Read, Sram16!mem_waitrequest, Sram16Inv
<1>2. a \in Nat /\ a \in Addr /\ a + burst_length <= Words
  BY LineFits
<1>3. cnt' = 2 * burst_length - 1 /\ sram_a' = 2 * a /\ pendingid' = id /\ sram_oe' = TRUE
      /\ sram_dout_en' = FALSE /\ sram_be' = TRUE /\ mem_readdataid' = 0
      /\ UNCHANGED <<state, mem_readdata, writedata_hi, be_hi, sram_dout>>
  BY Sram16Constants DEF Sram16!Read
<1>4. cnt' \in 0 .. 8 * burst_length - 1 /\ cnt' < 4 * burst_length
  BY <1>3, BurstLength
<1>5. Sram16!Bursting'
  BY <1>4, Sram16CounterNext
<1>6. Sram16!Left = 0 /\ Sram16!Left' = burst_length
  <2>1. Sram16!Left' = (cnt' + 2) \div 2
    BY <1>5 DEF Sram16!Left
  <2> QED
    BY <1>1, <1>3, <2>1, BurstLength DEF Sram16!Left
<1>7. sram_a' \in 0 .. 2 * Words - 1 /\ sram_a' % 2 = 0 /\ sram_a' \div 2 = a
  BY <1>2, <1>3, HalvesOf
<1>8. Sram16!Stable' = Sram16!Stable
  BY <1>1, Sram16Held
<1>9. Sram16Mem' = Sram16Mem
  BY <1>1, <1>3, <1>8, Sram16SameMem DEF Sram16!HalfWay
<1>10. sram' = Sram16!Stable /\ sram_we' = int_we
  BY DEF Sram16!Chip
<1>11. sram' = [h \in 0 .. 2 * Words - 1 |-> sram'[h]]
  BY <1>10, Sram16Stable
<1>12. {sram_be', be_hi', sram_oe', sram_dout_en', int_we', sram_we'} \subseteq BOOLEAN
  BY <1>1, <1>3, <1>10 DEF Sram16Inv
<1>13. waitcnt' \in 0 .. 31
  BY Sram16Pause DEF Sram16!Read
<1>14. cnt' < 2 * burst_length /\ sram_a' + cnt' < 2 * Words /\ (sram_a' + cnt') % 2 = 1
  BY <1>2, <1>3, BurstLength
<1>15. Sram16Inv'
  <2>1. pendingid' \in Ids \cup {0} /\ pendingid' # 0 /\ mem_readdataid' \in Ids \cup {0}
    BY <1>3, BurstLength
  <2>2. ~int_we' /\ ~sram_we' /\ state' = "S_IDLE"
    BY <1>1, <1>3, <1>10
  <2> QED
    BY <1>3, <1>4, <1>7, <1>11, <1>12, <1>13, <1>14, <2>1, <2>2 DEF Sram16Inv
<1> QED
  BY <1>3, <1>6, <1>7, <1>9, <1>15

LEMMA Sram16Store ==
  ASSUME Sram16Inv, NEW a \in Stored, NEW w \in Written, Sram16!Store(a, w), Sram16!Chip
  PROVE  /\ Sram16Inv' /\ Sram16Mem' = Write(Sram16Mem, a, w)
         /\ Sram16!Left = 0 /\ Sram16!Left' = 0 /\ mem_readdataid' = 0
<1>1. ~Sram16!Bursting /\ state = "S_IDLE" /\ ~int_we /\ int_we' = TRUE /\ state' = "S_WRITE1"
  BY DEF Sram16!Store, Sram16!mem_waitrequest, Sram16Inv
<1>2. a \in Addr
  BY PortAssumption DEF Addr
<1>3. sram_a' = 2 * a /\ sram_oe' = FALSE /\ sram_dout_en' = TRUE /\ mem_readdataid' = 0
      /\ UNCHANGED <<cnt, pendingid, mem_readdata>>
  BY DEF Sram16!Store
<1>4. sram_be' = (0 \in DOMAIN w) /\ be_hi' = (1 \in DOMAIN w)
      /\ (0 \in DOMAIN w => sram_dout' = w[0]) /\ (1 \in DOMAIN w => writedata_hi' = w[1])
  BY Sram16Constants DEF Sram16!Store
<1>5. ~Sram16!Bursting' /\ Sram16!Left = 0 /\ Sram16!Left' = 0
  BY <1>1, <1>3 DEF Sram16!Bursting, Sram16!Left
<1>6. sram' = Sram16!Stable /\ sram_we' = int_we
  BY DEF Sram16!Chip
<1>7. sram' = [h \in 0 .. 2 * Words - 1 |-> sram'[h]]
  BY <1>6, Sram16Stable
<1>8. {sram_be', be_hi', sram_oe', sram_dout_en', int_we', sram_we'} \subseteq BOOLEAN
  <2>1. sram_be' \in BOOLEAN /\ be_hi' \in BOOLEAN
    <3>1. (0 \in DOMAIN w) \in BOOLEAN /\ (1 \in DOMAIN w) \in BOOLEAN
      OBVIOUS
    <3> QED
      BY <1>4, <3>1
  <2>2. sram_oe' \in BOOLEAN /\ sram_dout_en' \in BOOLEAN /\ int_we' \in BOOLEAN /\ sram_we' \in BOOLEAN
    BY <1>1, <1>3, <1>6 DEF Sram16Inv
  <2> QED
    BY <2>1, <2>2
<1>9. waitcnt' \in 0 .. 31
  BY Sram16Pause DEF Sram16!Store
<1>10. sram_a' \in 0 .. 2 * Words - 1 /\ sram_a' % 2 = 0 /\ sram_a' \div 2 = a
  BY <1>2, <1>3, HalvesOf
<1>11. Sram16Inv'
  BY <1>1, <1>3, <1>5, <1>7, <1>8, <1>9, <1>10 DEF Sram16Inv
<1>12. Sram16!Stable' = IF 0 \in DOMAIN w THEN [Sram16!Stable EXCEPT ![2 * a] = w[0]] ELSE Sram16!Stable
  <2>1. Sram16!sram_d' = sram_dout'
    BY <1>3 DEF Sram16!sram_d
  <2> QED
    BY <1>1, <1>3, <1>4, <1>6, <2>1 DEF Sram16!Stable
<1>13. ASSUME NEW x \in Addr
       PROVE  Sram16!WordAt(x)' = IF x = a THEN [l \in Lanes |-> IF l \in DOMAIN w THEN w[l] ELSE Sram16!WordAt(a)[l]]
                                  ELSE Sram16!WordAt(x)
  <2>1. 2 * x + 1 # 2 * a /\ (2 * x = 2 * a <=> x = a)
        /\ 2 * x \in 0 .. 2 * Words - 1 /\ 2 * x + 1 \in 0 .. 2 * Words - 1
    BY <1>2, HalvesOf DEF Addr
  <2>2. Sram16!Stable = [h \in 0 .. 2 * Words - 1 |-> Sram16!Stable[h]]
    BY Sram16Stable
  <2>3. Sram16!Stable'[2 * x] = IF 0 \in DOMAIN w /\ x = a THEN w[0] ELSE Sram16!Stable[2 * x]
    BY <1>12, <2>1, <2>2
  <2>4. Sram16!Stable'[2 * x + 1] = Sram16!Stable[2 * x + 1]
    BY <1>12, <2>1, <2>2
  <2>5. ~Sram16!HalfWay /\ (Sram16!HalfWay' <=> 1 \in DOMAIN w)
    BY <1>1, <1>4 DEF Sram16!HalfWay
  <2>6. Sram16!WordAt(x)[1] = Sram16!Stable[2 * x + 1] /\ Sram16!WordAt(x)[0] = Sram16!Stable[2 * x]
    BY <2>5, Sram16Word
  <2>7. Sram16!WordAt(x)'[1] = IF 1 \in DOMAIN w /\ x = a THEN w[1] ELSE Sram16!Stable[2 * x + 1]
    BY <1>4, <1>10, <2>4, <2>5, Sram16WordNext
  <2>8. Sram16!WordAt(x)'[0] = IF 0 \in DOMAIN w /\ x = a THEN w[0] ELSE Sram16!Stable[2 * x]
    BY <2>3, Sram16WordNext
  <2>9. Sram16!WordAt(x)' = [l \in {0, 1} |-> Sram16!WordAt(x)'[l]]
        /\ Sram16!WordAt(x) = [l \in {0, 1} |-> Sram16!WordAt(x)[l]]
    BY Sram16Word, Sram16WordNext
  <2>10. CASE x = a
    <3>1. ASSUME NEW l \in {0, 1}
          PROVE  Sram16!WordAt(x)'[l] = IF l \in DOMAIN w THEN w[l] ELSE Sram16!WordAt(a)[l]
      BY <2>6, <2>7, <2>8, <2>10
    <3> QED
      BY <2>9, <2>10, <3>1, Sram16Constants
  <2>11. CASE x # a
    BY <2>6, <2>7, <2>8, <2>9, <2>11
  <2> QED
    BY <2>10, <2>11
<1>14. Sram16Mem' = Write(Sram16Mem, a, w)
  <2>1. Sram16Mem' = [x \in Addr |-> Sram16!WordAt(x)'] /\ Sram16Mem = [x \in Addr |-> Sram16!WordAt(x)]
    BY DEF Sram16Mem
  <2>2. Write(Sram16Mem, a, w)
          = [x \in Addr |-> IF x = a THEN [l \in Lanes |-> IF l \in DOMAIN w THEN w[l] ELSE Sram16Mem[a][l]]
                            ELSE Sram16Mem[x]]
    BY <1>2, <2>1 DEF Write
  <2> QED
    BY <1>2, <1>13, <2>1, <2>2
<1> QED
  BY <1>3, <1>5, <1>11, <1>14

\* The low half waits in mem_readdata for the high half.
LEMMA Sram16Continue ==
  ASSUME Sram16Inv, Sram16!Continue, Sram16!Chip
  PROVE  /\ Sram16Inv' /\ Sram16Mem' = Sram16Mem /\ UNCHANGED pendingid
         /\ pendingid # 0 /\ Sram16!Left \in Nat \ {0}
         /\ sram_a \div 2 \in Nat /\ (sram_a \div 2) + Sram16!Left <= Words
         /\ \/ /\ mem_readdataid' = 0 /\ Sram16!Left' = Sram16!Left
               /\ sram_a' \div 2 = sram_a \div 2
            \/ /\ mem_readdataid' = pendingid
               /\ Sram16!Left' = Sram16!Left - 1
               /\ Sram16!Left # 1 => sram_a' \div 2 = (sram_a \div 2) + 1
               /\ mem_readdata' = Sram16Mem[sram_a \div 2]
<1> DEFINE a == sram_a \div 2
<1>1. /\ Sram16!Bursting /\ state = "S_IDLE" /\ ~int_we /\ ~sram_we /\ pendingid # 0 /\ sram_oe /\ ~sram_dout_en
      /\ cnt < 2 * burst_length /\ sram_a + cnt < 2 * Words /\ (sram_a + cnt) % 2 = 1
      /\ (sram_a % 2 = 1 => mem_readdata[1] = sram[sram_a - 1])
      /\ cnt \in Nat /\ sram_a \in 0 .. 2 * Words - 1 /\ sram_a \in Nat
  BY Sram16Constants DEF Sram16!Continue, Sram16!At, Sram16Inv
<1>2. cnt' = IF cnt = 0 THEN 8 * burst_length - 1 ELSE cnt - 1
  BY Sram16Counter DEF Sram16!Continue, Sram16Inv
<1>3. cnt' \in 0 .. 8 * burst_length - 1 /\ (cnt' < 4 * burst_length <=> cnt # 0)
  BY <1>1, <1>2, BurstLength
<1>4. Sram16!Bursting' <=> cnt # 0
  BY <1>3, Sram16CounterNext
<1>5. sram_a' = (sram_a + 1) % (2 * Words) /\ int_we' = int_we
      /\ mem_readdata' = [l \in {0, 1} |-> IF l = 1 THEN sram[sram_a] ELSE mem_readdata[1]]
      /\ mem_readdataid' = (IF sram_a % 2 = 1 THEN pendingid ELSE 0)
      /\ UNCHANGED <<state, pendingid, writedata_hi, be_hi, sram_be, sram_oe, sram_dout, sram_dout_en>>
  <2>1. Sram16!sram_d = sram[sram_a]
    BY <1>1 DEF Sram16!sram_d
  <2> QED
    BY <2>1, Sram16Constants DEF Sram16!Continue
<1>6. sram_a' \in 0 .. 2 * Words - 1 /\ (cnt # 0 => sram_a' = sram_a + 1)
  <2> DEFINE W == 2 * Words
             x == sram_a + 1
  <2>1. W \in Nat \ {0} /\ x \in Int /\ (cnt # 0 => x \in 0 .. W - 1)
    BY <1>1, BurstLength
  <2> HIDE DEF W, x
  <2>2. x % W \in 0 .. W - 1 /\ (cnt # 0 => x % W = x)
    BY <2>1, ModSmall
  <2> QED
    BY <1>5, <2>2 DEF W, x
<1>7. sram' = sram /\ sram_we' = int_we /\ sram = Sram16!Stable
  BY <1>1, Sram16Stable DEF Sram16!Chip
<1>8. Sram16!Stable' = Sram16!Stable
  BY <1>1, <1>5, Sram16Held
<1>9. Sram16Mem' = Sram16Mem
  BY <1>1, <1>5, <1>8, Sram16SameMem DEF Sram16!HalfWay
<1>10. waitcnt' \in 0 .. 31
  BY Sram16Pause DEF Sram16!Continue
<1>11. Sram16Inv'
  <2>1. {sram_be', be_hi', sram_oe', sram_dout_en', int_we', sram_we'} \subseteq BOOLEAN
    BY <1>5, <1>7 DEF Sram16Inv
  <2>2. pendingid' \in Ids \cup {0} /\ mem_readdataid' \in Ids \cup {0}
    BY <1>5 DEF Sram16Inv
  <2>3. Sram16!Bursting' =>
       /\ pendingid' # 0 /\ sram_oe' /\ ~sram_dout_en'
       /\ cnt' < 2 * burst_length /\ sram_a' + cnt' < 2 * Words /\ (sram_a' + cnt') % 2 = 1
    <3>1. Sram16!Bursting' => sram_a' + cnt' = sram_a + cnt /\ cnt' < cnt /\ cnt' \in Int
      BY <1>1, <1>2, <1>4, <1>6
    <3> QED
      BY <1>1, <1>5, <3>1, BurstLength
  <2>4. Sram16!Bursting' => mem_readdata'[1] = sram'[sram_a' - 1]
    <3>1. Sram16!Bursting' => sram_a' - 1 = sram_a
      BY <1>1, <1>4, <1>6
    <3>2. mem_readdata'[1] = sram[sram_a]
      BY <1>5
    <3> QED
      BY <1>7, <3>1, <3>2
  <2>5. ~int_we' /\ ~sram_we' /\ state' = "S_IDLE"
    BY <1>1, <1>5, <1>7
  <2> QED
    BY <1>3, <1>6, <1>7, <1>10, <2>1, <2>2, <2>3, <2>4, <2>5, Sram16Constants DEF Sram16Inv
<1>12. Sram16!Left = (cnt + 2) \div 2 /\ Sram16!Left' = (IF cnt # 0 THEN (cnt' + 2) \div 2 ELSE 0)
  BY <1>1, <1>4 DEF Sram16!Left
<1>13. Sram16!Left \in Nat \ {0} /\ a + Sram16!Left <= Words /\ a \in Nat /\ a \in Addr
  BY <1>1, Halves, Sram16LeftIs DEF Addr
<1>14. CASE sram_a % 2 = 0
  <2>1. cnt # 0 /\ cnt % 2 = 1 /\ cnt' = cnt - 1
    BY <1>1, <1>2, <1>14
  <2>2. Sram16!Left' = Sram16!Left
    BY <1>1, <1>12, <2>1
  <2>3. sram_a' \div 2 = sram_a \div 2
    BY <1>1, <1>6, <1>14, <2>1, Halves
  <2>4. mem_readdataid' = 0
    BY <1>5, <1>14
  <2> QED
    BY <1>1, <1>5, <1>9, <1>11, <1>13, <2>2, <2>3, <2>4
<1>15. CASE sram_a % 2 = 1
  <2>1. cnt % 2 = 0 /\ (cnt # 0 => cnt' = cnt - 1)
    BY <1>1, <1>2, <1>15
  <2>2. Sram16!Left' = Sram16!Left - 1 /\ (Sram16!Left # 1 => cnt # 0)
    BY <1>1, <1>12, <2>1
  <2>3. Sram16!Left # 1 => sram_a' \div 2 = (sram_a \div 2) + 1
    BY <1>1, <1>6, <1>15, <2>2, Halves
  <2>4. mem_readdata' = Sram16!WordAt(a)
    <3>1. sram_a = 2 * a + 1 /\ sram_a - 1 = 2 * a
      BY <1>1, <1>15, Halves
    <3>2. ~Sram16!HalfWay
      BY <1>1 DEF Sram16!HalfWay
    <3> HIDE DEF a
    <3>3. Sram16!WordAt(a)[0] = mem_readdata[1] /\ Sram16!WordAt(a)[1] = sram[sram_a]
      BY <1>1, <1>7, <1>13, <1>15, <3>1, <3>2, Sram16Word
    <3>4. Sram16!WordAt(a) = [l \in {0, 1} |-> Sram16!WordAt(a)[l]]
      BY <1>13, Sram16Word
    <3> QED
      BY <1>5, <3>3, <3>4
  <2>5. mem_readdata' = Sram16Mem[a]
    BY <1>13, <2>4 DEF Sram16Mem
  <2>6. mem_readdataid' = pendingid
    BY <1>5, <1>15
  <2> QED
    BY <1>1, <1>5, <1>9, <1>11, <1>13, <2>2, <2>3, <2>5, <2>6
<1> QED
  BY <1>1, <1>14, <1>15

Sram16Owed ==
  [i \in 1 .. Sram16!Left |-> [id |-> pendingid,
                               data |-> Sram16!WordAt((sram_a \div 2 + i - 1) % Words)]]

Sram16Given == IF mem_readdataid = 0 THEN None ELSE [id |-> mem_readdataid, data |-> mem_readdata]

LEMMA Sram16OwedIs ==
  ASSUME Sram16Inv
  PROVE  Sram16Owed = Upcoming(pendingid, Sram16!Left, Sram16Mem, sram_a \div 2)
<1>1. sram_a \div 2 \in Nat /\ Words \in Nat \ {0}
  BY BurstLength DEF Sram16Inv
<1>2. ASSUME NEW i \in 1 .. Sram16!Left
      PROVE  Sram16Mem[(sram_a \div 2 + i - 1) % Words] = Sram16!WordAt((sram_a \div 2 + i - 1) % Words)
  <2> DEFINE x == sram_a \div 2 + i - 1
  <2>1. x \in Int
    BY <1>1
  <2> HIDE DEF x
  <2>2. x % Words \in Addr
    BY <1>1, <2>1, ModSmall DEF Addr
  <2>3. Sram16Mem[x % Words] = Sram16!WordAt(x % Words)
    BY <2>2 DEF Sram16Mem
  <2> QED
    BY <2>3 DEF x
<1> QED
  BY <1>2 DEF Sram16Owed, Upcoming

LEMMA Sram16Clock ==
  ASSUME Sram16Inv, NEW req \in Requests, Sram16!Clock(req)
  PROVE  Sram16Inv' /\ Sram16!Memory!Next
<1> DEFINE owed == Upcoming(pendingid, Sram16!Left, Sram16Mem, sram_a \div 2)
<1>0. Sram16!Chip /\ Sram16Owed = owed
  BY Sram16OwedIs DEF Sram16!Clock
<1>1. Sram16Inv' => Sram16Owed' = owed'
  <2>1. (Sram16Inv => Sram16Owed = owed)'
    BY Sram16OwedIs, PTL
  <2> QED
    BY <2>1
<1>2. ASSUME Sram16Inv', Sram16Mem' = Sram16Mem, Sram16Owed' = Sram16Owed,
             Sram16Owed \o <<>> = Sram16Owed, mem_readdataid' = 0
      PROVE  Sram16!Memory!Next
  <2>1. Sram16Given' = None
    BY <1>2 DEF Sram16Given
  <2>2. Sram16!Memory!Wait
    BY <1>2, <2>1, Zenon DEF Sram16!Memory!Wait, Sram16!Memory!Answer, Sram16Mem, Addr, Sram16!Addr,
      Sram16Owed, Sram16Given
  <2> QED
    BY <2>2, Zenon DEF Sram16!Memory!Next
<1>3. CASE Sram16!Continue
  <2>1. /\ Sram16Inv' /\ Sram16Mem' = Sram16Mem /\ UNCHANGED pendingid
        /\ pendingid # 0 /\ Sram16!Left \in Nat \ {0}
        /\ sram_a \div 2 \in Nat /\ (sram_a \div 2) + Sram16!Left <= Words
        /\ \/ /\ mem_readdataid' = 0 /\ Sram16!Left' = Sram16!Left
              /\ sram_a' \div 2 = sram_a \div 2
           \/ /\ mem_readdataid' = pendingid
              /\ Sram16!Left' = Sram16!Left - 1
              /\ Sram16!Left # 1 => sram_a' \div 2 = (sram_a \div 2) + 1
              /\ mem_readdata' = Sram16Mem[sram_a \div 2]
    BY <1>0, <1>3, Sram16Continue
  <2>2. owed \o <<>> = owed
    BY <2>1, UpcomingConcat
  <2>3. CASE mem_readdataid' = 0 /\ Sram16!Left' = Sram16!Left /\ sram_a' \div 2 = sram_a \div 2
    BY <1>0, <1>1, <1>2, <2>1, <2>2, <2>3
  <2>4. CASE /\ mem_readdataid' = pendingid
             /\ Sram16!Left' = Sram16!Left - 1
             /\ Sram16!Left # 1 => sram_a' \div 2 = (sram_a \div 2) + 1
             /\ mem_readdata' = Sram16Mem[sram_a \div 2]
    <3>1. Splits(owed, [id |-> pendingid, data |-> Sram16Mem[sram_a \div 2]],
                 Upcoming(pendingid, Sram16!Left', Sram16Mem, sram_a' \div 2))
      BY <2>1, <2>4, UpcomingStep
    <3>2. Sram16Given' = [id |-> pendingid, data |-> Sram16Mem[sram_a \div 2]]
      BY <2>1, <2>4 DEF Sram16Given
    <3>3. owed' = Upcoming(pendingid, Sram16!Left', Sram16Mem, sram_a' \div 2)
      BY <2>1
    <3>4. Splits(Sram16Owed, Sram16Given', Sram16Owed') /\ Sram16Owed \o <<>> = Sram16Owed
      BY <1>0, <1>1, <2>1, <2>2, <3>1, <3>2, <3>3
    <3>5. Sram16!Memory!Wait
      BY <2>1, <3>4, Zenon DEF Sram16!Memory!Wait, Sram16!Memory!Answer, Splits, Sram16Mem, Addr,
        Sram16!Addr, Sram16Owed, Sram16Given
    <3> QED
      BY <2>1, <3>5, Zenon DEF Sram16!Memory!Next
  <2> QED
    BY <2>1, <2>3, <2>4
<1>4. CASE Sram16!Count
  <2>1. /\ Sram16Inv' /\ Sram16Mem' = Sram16Mem
        /\ Sram16!Left' = Sram16!Left /\ mem_readdataid' = 0 /\ UNCHANGED <<pendingid, sram_a>>
    BY <1>0, <1>4, Sram16Count
  <2>2. Sram16!Left \in Nat
    BY Sram16LeftIs
  <2>3. owed' = owed /\ owed \o <<>> = owed
    BY <2>1, <2>2, UpcomingConcat
  <2> QED
    BY <1>0, <1>1, <1>2, <2>1, <2>3
<1>5. ASSUME Sram16Inv', Sram16!Left = 0, Sram16!Left' = 0
      PROVE  Sram16Owed = <<>> /\ Sram16Owed' = <<>>
  <2>1. Upcoming(pendingid, 0, Sram16Mem, sram_a \div 2) = <<>>
        /\ Upcoming(pendingid', 0, Sram16Mem', sram_a' \div 2) = <<>>
    BY UpcomingNone
  <2> QED
    BY <1>0, <1>1, <1>5, <2>1
<1>6. CASE Sram16!Writing \/ Sram16!Idle
  <2>1. /\ Sram16Inv' /\ Sram16Mem' = Sram16Mem
        /\ Sram16!Left = 0 /\ Sram16!Left' = 0 /\ mem_readdataid' = 0
    BY <1>0, <1>6, Sram16EndHalf, Sram16SecondHalf, Sram16Idle DEF Sram16!Writing
  <2> QED
    BY <1>2, <1>5, <2>1, NothingMore
<1>7. ASSUME NEW id \in Ids, NEW a \in Lines, Sram16!Read(id, a)
      PROVE  Sram16Inv' /\ Sram16!Memory!Next
  <2> DEFINE b == Upcoming(id, burst_length, Sram16Mem, a)
  <2>1. /\ Sram16Inv' /\ Sram16Mem' = Sram16Mem
        /\ Sram16!Left = 0 /\ Sram16!Left' = burst_length /\ mem_readdataid' = 0
        /\ pendingid' = id /\ sram_a' \div 2 = a
    BY <1>0, <1>7, Sram16Read
  <2>2. owed' = b /\ Sram16Given' = None /\ burst_length \in Nat
    BY <2>1, BurstLength DEF Sram16Given
  <2>3. Upcoming(pendingid, 0, Sram16Mem, sram_a \div 2) = <<>> /\ <<>> \o b = b
    BY <2>2, UpcomingNone, UpcomingConcat
  <2>4. Sram16Owed = <<>> /\ Sram16Owed' = b
    BY <1>0, <1>1, <2>1, <2>2, <2>3
  <2>5. b = [i \in 1 .. burst_length |-> [id |-> id, data |-> Sram16Mem[a + i - 1]]]
    BY UpcomingLine
  <2>6. b = Sram16!Memory!Burst(id, a)
    BY <2>5, Zenon DEF Sram16!Memory!Burst, Sram16!Memory!burst_length, burst_length, Sram16Mem, Addr,
      Sram16!Addr
  <2>7. Sram16!Memory!Read(id, a)
    BY <2>1, <2>2, <2>3, <2>4, <2>6, Zenon DEF Sram16!Memory!Read, Sram16!Memory!Answer, Sram16Mem, Addr,
      Sram16!Addr, Sram16Owed, Sram16Given
  <2>8. a \in Sram16!Memory!Lines
    BY DEF Lines, Sram16!Memory!Lines, Addr, Sram16!Memory!Addr, burst_length, Sram16!Memory!burst_length
  <2> QED
    BY <2>1, <2>7, <2>8, Zenon DEF Sram16!Memory!Next
<1>8. ASSUME NEW a \in Stored, NEW w \in Written, Sram16!Store(a, w)
      PROVE  Sram16Inv' /\ Sram16!Memory!Next
  <2>1. /\ Sram16Inv' /\ Sram16Mem' = Write(Sram16Mem, a, w)
        /\ Sram16!Left = 0 /\ Sram16!Left' = 0 /\ mem_readdataid' = 0
    BY <1>0, <1>8, Sram16Store
  <2>2. Sram16Owed = <<>> /\ Sram16Owed' = <<>> /\ Sram16Given' = None
    BY <1>5, <2>1 DEF Sram16Given
  <2>3. Sram16!Memory!Store(a, w)
    BY <2>1, <2>2, NothingMore, Zenon DEF Sram16!Memory!Store, Sram16!Memory!Answer, Sram16!Memory!Write,
      Write, Sram16!Memory!Lanes, Lanes, Sram16!Memory!Low, Low, Sram16!Memory!High, High,
      Sram16Mem, Addr, Sram16!Addr, Sram16Owed, Sram16Given
  <2>4. w \in Sram16!Memory!Written
    BY Zenon DEF Written, Sram16!Memory!Written, Lanes, Sram16!Memory!Lanes, Low, Sram16!Memory!Low,
      High, Sram16!Memory!High
  <2> QED
    BY <2>1, <2>3, <2>4, Zenon DEF Sram16!Memory!Next
<1>9. Sram16Inv' /\ Sram16!Memory!Next
  <2>1. (Sram16!Continue \/ Sram16!Count \/ Sram16!Writing \/ Sram16!Idle) => Sram16Inv'
    BY <1>0, Sram16Continue, Sram16Count, Sram16EndHalf, Sram16SecondHalf, Sram16Idle DEF Sram16!Writing
  <2> QED
    BY <1>3, <1>4, <1>6, <1>7, <1>8, <2>1, RequestHas, Zenon DEF Sram16!Clock
<1> QED
  BY <1>9

LEMMA Sram16Refines == Sram16Inv /\ Sram16!Next => Sram16Inv' /\ Sram16!Memory!Next
  BY Sram16Clock, Sram16Constants DEF Sram16!Next

LEMMA Sram16Starts == Sram16!Init => Sram16Inv /\ Sram16!Memory!Init
<1> SUFFICES ASSUME Sram16!Init PROVE Sram16Inv /\ Sram16!Memory!Init
  OBVIOUS
<1>1. cnt = 8 * burst_length - 1 /\ waitcnt = 31
  BY Sram16Widths DEF Sram16!Init
<1>2. cnt \in 0 .. 8 * burst_length - 1 /\ ~(cnt < 4 * burst_length)
  BY <1>1, BurstLength
<1>3. ~Sram16!Bursting
  BY <1>2, Sram16Counter
<1>4. sram = [h \in 0 .. 2 * Words - 1 |-> Content[h \div 2][h % 2]]
  BY Sram16Constants DEF Sram16!Init
<1>5. sram = [h \in 0 .. 2 * Words - 1 |-> sram[h]]
  BY <1>4
<1>6. Sram16Inv
  <2>1. 0 \in 0 .. 2 * Words - 1
    BY BurstLength
  <2>2. state = "S_IDLE" /\ pendingid = 0 /\ mem_readdataid = 0 /\ sram_a = 0 /\ int_we = FALSE
        /\ sram_we = FALSE /\ sram_be = FALSE /\ be_hi = FALSE /\ sram_oe = FALSE /\ sram_dout_en = FALSE
    BY DEF Sram16!Init
  <2>3. {sram_be, be_hi, sram_oe, sram_dout_en, int_we, sram_we} \subseteq BOOLEAN
    BY <2>2
  <2>4. ~(int_we \/ sram_we \/ state # "S_IDLE") /\ (int_we <=> state \in {"S_WRITE1", "S_WRITE3"})
    BY <2>2
  <2>5. waitcnt \in 0 .. 31
    BY <1>1
  <2> QED
    BY <1>2, <1>3, <1>5, <2>1, <2>2, <2>3, <2>4, <2>5 DEF Sram16Inv
<1>7. Sram16!Left = 0 /\ ~Sram16!HalfWay /\ Sram16!Stable = sram
  BY <1>3 DEF Sram16!Init, Sram16!Left, Sram16!HalfWay, Sram16!Stable
<1>8. Sram16Owed = <<>> /\ Sram16Given = None
  BY <1>6, <1>7, Sram16OwedIs, UpcomingNone DEF Sram16Given, Sram16!Init
<1>9. Sram16Mem = Content
  <2>1. ASSUME NEW a \in Addr PROVE Sram16!WordAt(a) = Content[a]
    <3>1. 2 * a \in 0 .. 2 * Words - 1 /\ 2 * a + 1 \in 0 .. 2 * Words - 1
          /\ (2 * a) \div 2 = a /\ (2 * a) % 2 = 0 /\ (2 * a + 1) \div 2 = a /\ (2 * a + 1) % 2 = 1
      BY BurstLength DEF Addr
    <3>2. sram[2 * a] = Content[a][0] /\ sram[2 * a + 1] = Content[a][1]
      <4>1. sram[2 * a] = Content[(2 * a) \div 2][(2 * a) % 2]
        BY <1>4, <3>1
      <4>2. sram[2 * a + 1] = Content[(2 * a + 1) \div 2][(2 * a + 1) % 2]
        BY <1>4, <3>1
      <4> QED
        BY <3>1, <4>1, <4>2
    <3>4. Sram16!WordAt(a)[0] = Content[a][0] /\ Sram16!WordAt(a)[1] = Content[a][1]
      BY <1>7, <3>2, Sram16Word
    <3>3. Content[a] = [l \in {0, 1} |-> Content[a][l]]
      BY Sram16Constants DEF Content
    <3> QED
      BY <3>3, <3>4, Sram16Word
  <2> QED
    BY <2>1 DEF Sram16Mem, Content
<1>10. Content = Sram16!Memory!Content
  BY DEF Content, Sram16!Memory!Content, Addr, Sram16!Memory!Addr, Lanes,
    Sram16!Memory!Lanes, Low, Sram16!Memory!Low, High, Sram16!Memory!High
<1> QED
  BY <1>6, <1>8, <1>9, <1>10, Zenon DEF Sram16!Memory!Init, Sram16Mem, Sram16Owed, Sram16Given, Addr, Sram16!Addr

LEMMA Sram16Stays ==
  UNCHANGED <<part, async, halves, common, cnt, mem_readdataid>> => UNCHANGED Sram16!Memory!vars
  BY DEF Sram16!Memory!vars, Sram16!Left, Sram16!Bursting, Sram16!WordAt, Sram16!HalfWay, Sram16!Stable,
    Sram16!sram_d, async, halves, common

----------------------------------------------------------------------------
(* ssram_ctrl.v: its answers are in a pipeline.                            *)

IsSeq(q) == \E S : q \in Seq(S)

LEMMA FunctionIsSeq ==
  ASSUME NEW n \in Nat, NEW q, q = [i \in 1 .. n |-> q[i]]
  PROVE  IsSeq(q)
<1> DEFINE S == {q[i] : i \in 1 .. n}
<1>1. q \in [1 .. n -> S]
  OBVIOUS
<1> HIDE DEF S
<1>2. q \in Seq(S)
  BY <1>1, FunctionSeq
<1> QED
  BY <1>2 DEF IsSeq

LEMMA Wider == ASSUME NEW S, NEW T, NEW q \in Seq(S) PROVE q \in Seq(S \cup T) /\ q \in Seq(T \cup S)
  OBVIOUS

LEMMA ConcatIsSeq == ASSUME NEW p, NEW q, IsSeq(p), IsSeq(q) PROVE IsSeq(p \o q)
<1>1. PICK S : p \in Seq(S)
  BY DEF IsSeq
<1>2. PICK T : q \in Seq(T)
  BY DEF IsSeq
<1> DEFINE U == S \cup T
<1>3. p \in Seq(U) /\ q \in Seq(U)
  BY <1>1, <1>2, Wider
<1> HIDE DEF U
<1>4. p \o q \in Seq(U)
  BY <1>3, ConcatProperties
<1> QED
  BY <1>4 DEF IsSeq

LEMMA EmptyIsSeq == IsSeq(<<>>)
<1>1. <<>> \in Seq({})
  OBVIOUS
<1> QED
  BY <1>1 DEF IsSeq

LEMMA ConcatNothing == ASSUME NEW q, IsSeq(q) PROVE q \o <<>> = q /\ <<>> \o q = q
  BY ConcatEmptySeq DEF IsSeq

Joined(p, q) == p \o q

LEMMA ConcatMoves ==
  ASSUME NEW p, NEW q, NEW r, IsSeq(p), IsSeq(q), IsSeq(r)
  PROVE  Joined(Joined(p, q), r) = Joined(p, Joined(q, r))
<1>1. PICK S : p \in Seq(S)
  BY DEF IsSeq
<1>2. PICK T : q \in Seq(T)
  BY DEF IsSeq
<1>3. PICK V : r \in Seq(V)
  BY DEF IsSeq
<1> DEFINE U == (S \cup T) \cup V
<1>4. p \in Seq(U) /\ q \in Seq(U) /\ r \in Seq(U)
  BY <1>1, <1>2, <1>3, Wider
<1> HIDE DEF U
<1> QED
  BY <1>4, ConcatAssociative DEF Joined

\* At most one answer; the first of a sequence of answers.
One(id, v) == [i \in 1 .. IF id = 0 THEN 0 ELSE 1 |-> [id |-> id, data |-> v]]

LEMMA OneSplits ==
  ASSUME NEW id, NEW v, NEW q, IsSeq(q)
  PROVE  /\ IsSeq(One(id, v))
         /\ id = 0 => One(id, v) = <<>> /\ One(id, v) \o q = q
         /\ id # 0 => Splits(One(id, v) \o q, [id |-> id, data |-> v], q)
<1>1. CASE id = 0
  <2>1. One(id, v) \in [1 .. 0 -> {}]
    BY <1>1 DEF One
  <2>2. One(id, v) = <<>>
    BY <2>1, FunctionSeq, EmptySeq
  <2> QED
    BY <1>1, <2>2, EmptyIsSeq, ConcatNothing
<1>2. CASE id # 0
  <2> DEFINE x == [id |-> id, data |-> v]
  <2>1. One(id, v) = [i \in 1 .. 1 |-> x]
    BY <1>2 DEF One
  <2> HIDE DEF x
  <2>2. PICK S : q \in Seq(S)
    BY DEF IsSeq
  <2> DEFINE T == S \cup {x}
             p == One(id, v)
             s == p \o q
  <2>3. q \in Seq(T)
    BY <2>2, Wider
  <2>4. x \in T
    OBVIOUS
  <2>5. p \in Seq(T) /\ Len(p) = 1 /\ p[1] = x
    <3>1. p \in [1 .. 1 -> T]
      BY <2>1, <2>4
    <3>2. p \in Seq(T) /\ Len(p) = 1
      <4> HIDE DEF p, T
      <4> QED
        BY <3>1, FunctionSeq
    <3> QED
      BY <2>1, <3>2
  <2> HIDE DEF T, p
  <2>6. s \in Seq(T) /\ Len(s) = 1 + Len(q) /\ \A i \in 1 .. 1 + Len(q) : s[i] = IF i <= 1 THEN p[i] ELSE q[i - 1]
    <3>1. s \in Seq(T) /\ Len(s) = Len(p) + Len(q)
          /\ \A i \in 1 .. Len(p) + Len(q) : s[i] = IF i <= Len(p) THEN p[i] ELSE q[i - Len(p)]
      BY <2>3, <2>5, ConcatProperties, Zenon
    <3> HIDE DEF s
    <3> QED
      BY <2>5, <3>1
  <2>7. Len(q) \in Nat
    BY <2>3
  <2> HIDE DEF s
  <2>8. s # <<>> /\ Head(s) = x
    BY <2>5, <2>6, <2>7
  <2>9. Tail(s) \in Seq(T) /\ Len(Tail(s)) = Len(q) /\ \A i \in 1 .. Len(q) : Tail(s)[i] = q[i]
    <3>1. Tail(s) \in Seq(T) /\ Len(Tail(s)) = Len(s) - 1 /\ \A i \in 1 .. Len(Tail(s)) : Tail(s)[i] = s[i + 1]
      BY <2>6, <2>8, HeadTailProperties
    <3>2. Len(Tail(s)) = Len(q)
      BY <2>6, <2>7, <3>1
    <3>3. ASSUME NEW i \in 1 .. Len(q) PROVE Tail(s)[i] = q[i]
      <4>1. i + 1 \in 1 .. 1 + Len(q) /\ ~(i + 1 <= 1) /\ (i + 1) - 1 = i
        BY <2>7
      <4> QED
        BY <2>6, <3>1, <3>2, <4>1
    <3> QED
      BY <3>1, <3>2, <3>3
  <2>10. Tail(s) = q
    BY <2>3, <2>9, SeqEqual
  <2>11. IsSeq(p)
    BY <2>5 DEF IsSeq
  <2> QED
    BY <1>2, <2>8, <2>10, <2>11 DEF Splits, s, p, x
<1> QED
  BY <1>1, <1>2

\* The pipeline moves by one: what was behind its first place is there, and
\* what comes later has been joined by what is asked for.
LEMMA PipelineMoves ==
  ASSUME NEW q1, NEW q2, NEW q3, NEW q4, NEW r2, NEW r3, NEW r4, NEW more,
         IsSeq(q1), IsSeq(q2), IsSeq(q3), IsSeq(q4), IsSeq(r2), IsSeq(r3), IsSeq(r4), IsSeq(more),
         Joined(Joined(q3, q4), more) = Joined(Joined(r2, r3), r4)
  PROVE  Joined(Joined(Joined(Joined(q1, q2), q3), q4), more)
           = Joined(q1, Joined(Joined(Joined(q2, r2), r3), r4))
<1>1. \A p, q : IsSeq(p) /\ IsSeq(q) => IsSeq(Joined(p, q))
  BY ConcatIsSeq DEF Joined
<1>2. Joined(Joined(Joined(q1, q2), q3), q4) = Joined(q1, Joined(q2, Joined(q3, q4)))
  BY <1>1, ConcatMoves
<1>3. Joined(Joined(q1, Joined(q2, Joined(q3, q4))), more) = Joined(q1, Joined(q2, Joined(Joined(q3, q4), more)))
  BY <1>1, ConcatMoves
<1>4. Joined(Joined(Joined(q2, r2), r3), r4) = Joined(q2, Joined(Joined(r2, r3), r4))
  BY <1>1, ConcatMoves
<1> QED
  BY <1>2, <1>3, <1>4

----------------------------------------------------------------------------
(* The SRAM's own address counter stays within a line.                     *)

LineAt(a, i) == burst_length * (a \div burst_length) + ((a + i - 1) % burst_length)

\* The n words of memory m from a on, within its line, for id.
Coming(id, n, m, a) == [i \in 1 .. n |-> [id |-> id, data |-> m[LineAt(a, i)]]]

LEMMA DivMod ==
  ASSUME NEW a \in Nat, NEW n \in Nat \ {0}
  PROVE  /\ a \div n \in Nat
         /\ a % n \in 0 .. n - 1
         /\ a = n * (a \div n) + (a % n)
<1> DEFINE q == a \div n
           r == a % n
<1>1. n > 0
  OBVIOUS
<1>2. q \in Nat /\ r \in 0 .. n - 1
  BY <1>1
<1>3. r = a - n * q
  BY <1>1
<1> HIDE DEF q, r
<1>4. n * q \in Nat
  BY <1>2
<1>5. a = n * q + r
  BY <1>2, <1>3, <1>4
<1> QED
  BY <1>2, <1>5 DEF q, r

LEMMA DivUnique ==
  ASSUME NEW n \in Nat \ {0}, NEW p \in Nat, NEW q \in Nat,
         NEW r \in 0 .. n - 1, NEW t \in 0 .. n - 1, n * p + r = n * q + t
  PROVE  p = q /\ r = t
<1>1. \A x, y \in Nat : x < y => n * x + n <= n * y
  <2>1. \A x, y \in Nat : x + 1 <= y => n * (x + 1) <= n * y
    OBVIOUS
  <2>2. \A x \in Nat : n * (x + 1) = n * x + n
    OBVIOUS
  <2> QED
    BY <2>1, <2>2
<1>2. n * p \in Nat /\ n * q \in Nat
  OBVIOUS
<1>3. ~(p < q) /\ ~(q < p)
  BY <1>1, <1>2
<1>4. p = q
  BY <1>3
<1> HIDE <1>1
<1> QED
  BY <1>2, <1>4

\* Quotient and remainder of what has that form.
LEMMA DivModOf ==
  ASSUME NEW n \in Nat \ {0}, NEW p \in Nat, NEW r \in 0 .. n - 1
  PROVE  /\ n * p + r \in Nat
         /\ (n * p + r) \div n = p
         /\ (n * p + r) % n = r
<1>1. n * p + r \in Nat
  <2>1. n * p \in Nat
    OBVIOUS
  <2> QED
    BY <2>1
<1> DEFINE a == n * p + r
<1>2. a \div n \in Nat /\ a % n \in 0 .. n - 1 /\ a = n * (a \div n) + (a % n)
  BY <1>1, DivMod
<1>3. p = a \div n /\ r = a % n
  <2> DEFINE q == a \div n
             t == a % n
  <2>1. n * p + r = n * q + t /\ q \in Nat /\ t \in 0 .. n - 1
    BY <1>2
  <2> HIDE DEF q, t
  <2>2. p = q /\ r = t
    BY <2>1, DivUnique
  <2> QED
    BY <2>2 DEF q, t
<1> QED
  BY <1>1, <1>3

LEMMA LineAtFirst == ASSUME NEW a \in Nat PROVE LineAt(a, 1) = a
<1>1. a + 1 - 1 = a
  OBVIOUS
<1> QED
  BY <1>1, BurstLength, DivMod DEF LineAt

LEMMA ModPlus ==
  ASSUME NEW n \in Nat \ {0}, NEW p \in Nat, NEW x \in Nat
  PROVE  (n * p + x) % n = x % n
<1> DEFINE q == x \div n
           r == x % n
<1>1. q \in Nat /\ r \in 0 .. n - 1 /\ x = n * q + r
  BY DivMod
<1> HIDE DEF q, r
<1>2. n * p + x = n * (p + q) + r
  BY <1>1
<1>3. p + q \in Nat
  BY <1>1
<1>4. (n * (p + q) + r) % n = r
  BY <1>1, <1>3, DivModOf
<1> QED
  BY <1>2, <1>4 DEF r

Ahead(a) == burst_length * (a \div burst_length) + ((a + 1) % burst_length)

LEMMA LineAtNext ==
  ASSUME NEW a \in Addr
  PROVE  /\ Ahead(a) \in Addr
         /\ \A i \in Nat \ {0} : LineAt(Ahead(a), i) = LineAt(a, i + 1)
<1> DEFINE B == burst_length
           k == a \div B
           r == a % B
           s == (a + 1) % B
           b == B * k + s
<1>1. B \in Nat \ {0, 1} /\ a \in Nat /\ a + 1 \in Nat /\ Words \in Nat /\ a < Words
  BY BurstLength DEF Addr
<1> HIDE DEF B
<1>2. k \in Nat /\ r \in 0 .. B - 1 /\ a = B * k + r
  BY <1>1, DivMod
<1>3. s \in 0 .. B - 1
  BY <1>1, DivMod
<1> HIDE DEF k, r, s
<1>4. b \in Nat /\ b \div B = k /\ b % B = s
  BY <1>1, <1>2, <1>3, DivModOf
<1>5. s = (r + 1) % B
  <2>1. a + 1 = B * k + (r + 1) /\ r + 1 \in Nat
    BY <1>1, <1>2
  <2> QED
    BY <1>1, <1>2, <2>1, ModPlus DEF s
<1>6. \/ s = r + 1
      \/ r + 1 = B /\ s = 0
  <2>1. r + 1 \in Int /\ B \in Nat \ {0}
    BY <1>1, <1>2
  <2>2. CASE r + 1 \in 0 .. B - 1
    BY <1>5, <2>1, <2>2, ModSmall
  <2>3. CASE r + 1 = B
    <3>1. 1 \in Nat /\ 0 \in 0 .. B - 1 /\ B * 1 + 0 = B
      BY <1>1
    <3>2. (B * 1 + 0) % B = 0
      BY <2>1, <3>1, DivModOf
    <3> QED
      BY <1>5, <2>3, <3>1, <3>2
  <2> QED
    BY <1>1, <1>2, <2>2, <2>3
<1>7. b \in Addr
  <2>1. B * k \in Nat /\ B * k <= a
    BY <1>1, <1>2
  <2>2. (B * k + 0) % B = 0 /\ B * k + 0 = B * k
    BY <1>1, <1>2, <2>1, DivModOf
  <2>3. B * k \in Lines
    BY <1>1, <2>1, <2>2 DEF Lines, Addr, B
  <2> DEFINE z == B * k
  <2>4. z + B <= Words /\ z \in Nat
    BY <2>1, <2>3, LineFits DEF B
  <2>5. b = z + s
    OBVIOUS
  <2> HIDE DEF z, b
  <2>6. b \in 0 .. Words - 1
    BY <1>1, <1>3, <2>4, <2>5
  <2> QED
    BY <2>6 DEF Addr
<1>8. ASSUME NEW i \in Nat \ {0}
      PROVE  LineAt(b, i) = LineAt(a, i + 1)
  <2> HIDE DEF b
  <2>0. LineAt(b, i) = B * (b \div B) + ((b + i - 1) % B)
        /\ LineAt(a, i + 1) = B * (a \div B) + ((a + (i + 1) - 1) % B)
    BY DEF LineAt, B
  <2> DEFINE x == s + i - 1
             y == r + i
  <2>1. x \in Nat /\ y \in Nat
    BY <1>2, <1>3
  <2>2. b + i - 1 = B * k + x /\ a + (i + 1) - 1 = B * k + y
    <3> DEFINE z == B * k
    <3>1. z \in Nat /\ b = z + s /\ a = z + r /\ r \in Nat /\ s \in Nat
      BY <1>1, <1>2, <1>3 DEF b
    <3> HIDE DEF z
    <3>2. b + i - 1 = z + x /\ a + (i + 1) - 1 = z + y
      BY <3>1
    <3> QED
      BY <3>2 DEF z
  <2>3. x % B = y % B
    <3>1. CASE s = r + 1
      BY <1>2, <3>1
    <3>2. CASE r + 1 = B /\ s = 0
      <4>1. y = B * 1 + x
        BY <1>1, <1>2, <3>2
      <4> HIDE DEF x, y
      <4> QED
        BY <1>1, <2>1, <4>1, ModPlus
    <3> QED
      BY <1>6, <3>1, <3>2
  <2> HIDE DEF x, y
  <2>4. (B * k + x) % B = x % B /\ (B * k + y) % B = y % B
    BY <1>1, <1>2, <2>1, ModPlus
  <2>5. a \div B = k
    BY DEF k
  <2> QED
    BY <1>4, <2>0, <2>2, <2>3, <2>4, <2>5
<1>9. b = Ahead(a)
  BY DEF b, B, k, s, Ahead
<1> QED
  BY <1>7, <1>8, <1>9

LEMMA LineAtLine ==
  ASSUME NEW a \in Lines, NEW i \in 1 .. burst_length
  PROVE  LineAt(a, i) = a + i - 1
<1> DEFINE B == burst_length
           k == a \div B
           x == i - 1
<1>1. B \in Nat \ {0, 1} /\ a \in Nat /\ a % B = 0 /\ x \in 0 .. B - 1 /\ x \in Nat
  BY BurstLength, LineFits DEF Lines
<1>0. LineAt(a, i) = B * k + ((a + i - 1) % B)
  BY DEF LineAt
<1> HIDE DEF B
<1>2. k \in Nat /\ a = B * k + 0
  BY <1>1, DivMod
<1> HIDE DEF k
<1> DEFINE z == B * k
<1>3. z = a
  BY <1>1, <1>2
<1>4. a + i - 1 = B * k + x
  <2> HIDE DEF z
  <2>1. a + i - 1 = z + x
    BY <1>1, <1>3
  <2> QED
    BY <2>1 DEF z
<1>5. (B * k + x) % B = x
  <2> HIDE DEF x
  <2> QED
    BY <1>1, <1>2, DivModOf
<1> QED
  BY <1>0, <1>3, <1>4, <1>5

\* A line is either in the SRAM or in the Flash.
LEMMA LineInSram ==
  ASSUME NEW a \in Lines, a < FlashFrom
  PROVE  a + burst_length <= FlashFrom
<1> DEFINE B == burst_length
           k == a \div B
           m == FlashFrom \div B
<1>1. B \in Nat \ {0} /\ a \in Nat /\ a % B = 0 /\ FlashFrom \in Nat /\ FlashFrom % B = 0
  BY BurstLength, PortAssumption, LineFits DEF Lines, burst_length
<1> HIDE DEF B
<1>2. k \in Int /\ a = B * k
  BY <1>1
<1>3. m \in Int /\ FlashFrom = B * m
  BY <1>1
<1> HIDE DEF k, m
<1>4. k < m
  BY <1>1, <1>2, <1>3
<1>5. B * (k + 1) <= B * m
  BY <1>1, <1>2, <1>3, <1>4
<1>6. B * (k + 1) = B * k + B
  BY <1>1, <1>2
<1> QED
  BY <1>1, <1>2, <1>3, <1>5, <1>6 DEF B

\* The first of several words, and the rest of them.
LEMMA ComingStep ==
  ASSUME NEW id, id # 0, NEW n \in Nat \ {0}, NEW k, k = n - 1, NEW m, NEW a \in Addr, NEW b,
         k # 0 => b = Ahead(a)
  PROVE  /\ Coming(id, n, m, a) = Joined(One(id, m[a]), Coming(id, k, m, b))
         /\ IsSeq(Coming(id, n, m, a)) /\ IsSeq(Coming(id, k, m, b))
<1> DEFINE f == Coming(id, n, m, a)
           g == Coming(id, n - 1, m, b)
           x == [id |-> id, data |-> m[a]]
           e == One(id, m[a])
           S == {f[i] : i \in 1 .. n}
<1>1. a \in Nat
  BY BurstLength DEF Addr
<1>2. f = [i \in 1 .. n |-> f[i]] /\ g = [i \in 1 .. n - 1 |-> g[i]] /\ n - 1 \in Nat
  BY DEF Coming
<1>3. e = [i \in 1 .. 1 |-> x]
  BY DEF One
<1>4. 1 \in 1 .. n /\ f[1] = x
  <2>1. LineAt(a, 1) = a
    BY <1>1, LineAtFirst
  <2> QED
    BY <2>1 DEF Coming
<1>5. ASSUME NEW i \in 1 .. n - 1 PROVE i + 1 \in 1 .. n /\ g[i] = f[i + 1]
  <2>1. i + 1 \in 1 .. n /\ i \in Nat \ {0} /\ k # 0
    OBVIOUS
  <2>2. LineAt(b, i) = LineAt(a, i + 1)
    BY <2>1, LineAtNext
  <2> QED
    BY <2>1, <2>2 DEF Coming
<1> HIDE DEF f, g, e, x
<1>6. f \in [1 .. n -> S]
  BY <1>2
<1>7. g \in [1 .. n - 1 -> S] /\ e \in [1 .. 1 -> S]
  <2>1. ASSUME NEW i \in 1 .. n - 1 PROVE g[i] \in S
    BY <1>5
  <2>2. x \in S
    BY <1>4
  <2> HIDE DEF S
  <2> QED
    BY <1>2, <1>3, <2>1, <2>2
<1> HIDE DEF S
<1>8. f \in Seq(S) /\ Len(f) = n /\ g \in Seq(S) /\ Len(g) = n - 1 /\ e \in Seq(S) /\ Len(e) = 1
  <2>1. f \in Seq(S) /\ Len(f) = n
    BY <1>6, FunctionSeq
  <2>2. g \in Seq(S) /\ Len(g) = n - 1
    BY <1>2, <1>7, FunctionSeq
  <2>3. e \in Seq(S) /\ Len(e) = 1
    BY <1>7, FunctionSeq
  <2> QED
    BY <2>1, <2>2, <2>3
<1>9. e \o g \in Seq(S) /\ Len(e \o g) = Len(e) + Len(g)
      /\ \A i \in 1 .. Len(e) + Len(g) : (e \o g)[i] = IF i <= Len(e) THEN e[i] ELSE g[i - Len(e)]
  BY <1>8, ConcatProperties
<1> DEFINE h == e \o g
<1>10. h \in Seq(S) /\ Len(h) = n
  BY <1>8, <1>9
<1>11. ASSUME NEW i \in 1 .. n PROVE h[i] = f[i]
  <2>1. h[i] = IF i <= 1 THEN e[i] ELSE g[i - 1]
    BY <1>8, <1>9
  <2>2. CASE i = 1
    BY <1>3, <1>4, <2>1, <2>2
  <2>3. CASE i # 1
    <3>1. i - 1 \in 1 .. n - 1 /\ (i - 1) + 1 = i /\ ~(i <= 1)
      BY <2>3
    <3>2. g[i - 1] = f[(i - 1) + 1]
      BY <1>5, <3>1
    <3> QED
      BY <2>1, <3>1, <3>2
  <2> QED
    BY <2>2, <2>3
<1>12. h = f
  <2> HIDE DEF h
  <2> QED
    BY <1>8, <1>10, <1>11, SeqEqual
<1>13. IsSeq(f) /\ IsSeq(g)
  BY <1>8 DEF IsSeq
<1> QED
  BY <1>12, <1>13 DEF f, g, e, h, Joined

LEMMA ComingOne ==
  ASSUME NEW id, id # 0, NEW m, NEW a \in Addr
  PROVE  Coming(id, 1, m, a) = One(id, m[a])
<1>1. a \in Nat
  BY BurstLength DEF Addr
<1>2. LineAt(a, 1) = a
  BY <1>1, LineAtFirst
<1>3. \A i \in 1 .. 1 : i = 1
  OBVIOUS
<1> QED
  BY <1>2, <1>3 DEF Coming, One

LEMMA ComingLine ==
  ASSUME NEW id, NEW m, NEW a \in Lines
  PROVE  Coming(id, burst_length, m, a) = [i \in 1 .. burst_length |-> [id |-> id, data |-> m[a + i - 1]]]
  BY LineAtLine DEF Coming

LEMMA ComingIsSeq ==
  ASSUME NEW id, NEW n \in Nat, NEW m, NEW a
  PROVE  IsSeq(Coming(id, n, m, a)) /\ (n = 0 => Coming(id, n, m, a) = <<>>)
<1> DEFINE q == Coming(id, n, m, a)
<1>1. q = [i \in 1 .. n |-> q[i]]
  BY DEF Coming
<1> HIDE DEF q
<1>2. IsSeq(q)
  BY <1>1, FunctionIsSeq
<1>3. n = 0 => q = <<>>
  <2>1. n = 0 => q \in [1 .. 0 -> {}]
    BY <1>1
  <2> QED
    BY <2>1, FunctionSeq, EmptySeq
<1> QED
  BY <1>2, <1>3 DEF q

----------------------------------------------------------------------------
\* The pipeline is empty before the Flash has its first word.
FlashInv ==
  state = "S_READ_FLASH" =>
    /\ rst = 0 /\ pendingid = 0 /\ flash_id \in Ids
    /\ pendingid2 # 0 => flash_delay \in 1 .. 127
    /\ readdataid # 0 => flash_delay \in 0 .. 127
    /\ flash_address % 2 = 1 => flash_data = flash[flash_address - 1]

SsramTypes ==
  /\ ssram = [x \in Addr |-> ssram[x]]
  /\ state \in {"S_IDLE", "S_READ_BURST", "S_READ_FLASH"}
  /\ cnt \in 0 .. 2 * burst_length - 1
  /\ {pendingid, pendingid2, readdataid, mem_readdataid} \subseteq Ids \cup {0}
  /\ chip_a \in Addr /\ sram_a \in Addr
  /\ sram_be \subseteq Lanes
  /\ sram_adsc \in BOOLEAN /\ sram_adv \in BOOLEAN /\ sram_oe \in BOOLEAN
  /\ sram_we \in BOOLEAN /\ sram_dout_en \in BOOLEAN
  /\ flash_address \in 0 .. 2 * Words - 1
  /\ flash_delay \in 0 .. 255
  /\ rst \in 0 .. ResetCycles

\* No answer is on its way while the data pins are driven or while reset
\* lasts; a burst of the SRAM keeps the pipeline going until its last word is
\* in it.
SsramInv ==
  /\ SsramTypes
  /\ sram_we => sram_adsc /\ sram_dout_en /\ ~sram_oe /\ sram_dout \in [Lanes -> Values]
  /\ pendingid # 0 \/ pendingid2 # 0 \/ readdataid # 0 => sram_oe /\ ~sram_dout_en
  /\ state = "S_READ_BURST" =>
       pendingid # 0 /\ rst = 0 /\ (cnt <= burst_length - 3 \/ cnt = 2 * burst_length - 1)
  /\ state = "S_IDLE" /\ pendingid # 0 /\ rst = 0 => pendingid2 # 0
  /\ FlashInv
  /\ rst > 0 => state = "S_IDLE" /\ readdataid = 0 /\ pendingid2 = 0
  /\ rst > 1 => pendingid = 0

LEMMA SsramConstants ==
  /\ Ctrl!burst_length = burst_length
  /\ Ctrl!Addr = Addr
  /\ Ctrl!Content = Content
  /\ Ctrl!Requests = Requests
  /\ Ctrl!NoRequest = NoRequest
  /\ Ctrl!Lanes = Lanes
  BY DEF Ctrl!burst_length, burst_length, Ctrl!Addr, Addr, Ctrl!Content, Content, Ctrl!Lanes,
    Lanes, Ctrl!Low, Low, Ctrl!High, High, Ctrl!Requests, Requests, Ctrl!Lines, Lines,
    Ctrl!Written, Written, Ctrl!NoRequest, NoRequest

LEMMA SsramCounter ==
  ASSUME NEW n \in 0 .. 2 * burst_length - 1
  PROVE  /\ Ctrl!Negative(n, burst_bits) <=> n >= burst_length
         /\ Ctrl!Down(n, burst_bits) = IF n = 0 THEN 2 * burst_length - 1 ELSE n - 1
         /\ Ctrl!Down(n, burst_bits) \in 0 .. 2 * burst_length - 1
<1>1. (Ctrl!Negative(n, burst_bits) <=> Negative(n, burst_bits)) /\ Ctrl!Down(n, burst_bits) = Down(n, burst_bits)
  BY DEF Ctrl!Negative, Negative, Ctrl!Down, Down
<1> QED
  BY <1>1, Countdown, BurstLength

LEMMA FlashCounter ==
  ASSUME NEW n \in 0 .. 255
  PROVE  /\ Ctrl!Negative(n, Ctrl!FLASH_DELAY_MSB) <=> n >= 128
         /\ Ctrl!Down(n, Ctrl!FLASH_DELAY_MSB) = IF n = 0 THEN 255 ELSE n - 1
<1>1. 2^7 = 128
  OBVIOUS
<1> QED
  BY <1>1 DEF Ctrl!Negative, Ctrl!Down, Ctrl!FLASH_DELAY_MSB

\* The words of a burst that are still to be looked up.
LEMMA BurstingIs ==
  ASSUME NEW n \in 0 .. 2 * burst_length - 1, n <= burst_length - 3 \/ n = 2 * burst_length - 1
  PROVE  (n + 3) % (2 * burst_length) = IF n = 2 * burst_length - 1 THEN 2 ELSE n + 3
<1> DEFINE C == 2 * burst_length
<1>1. C \in Nat \ {0} /\ n \in Nat /\ 2 \in 0 .. C - 1
  BY BurstLength
<1>2. CASE n = C - 1
  <2>1. n + 3 = C * 1 + 2
    BY <1>1, <1>2
  <2> HIDE DEF C
  <2>2. (C * 1 + 2) % C = 2
    BY <1>1, DivModOf
  <2>3. (n + 3) % C = 2
    BY <2>1, <2>2
  <2> QED
    BY <1>2, <2>3 DEF C
<1>3. CASE n # C - 1
  <2>1. n + 3 \in 0 .. C - 1 /\ n + 3 \in Int
    BY <1>1, <1>3, BurstLength
  <2> HIDE DEF C
  <2>2. (n + 3) % C = n + 3
    BY <1>1, <2>1, ModSmall
  <2> QED
    BY <1>3, <2>2 DEF C
<1> QED
  BY <1>2, <1>3

\* cnt of the first cycle of a burst.
LEMMA BurstBegins ==
  /\ (burst_length - 3) % (2 * burst_length) \in 0 .. 2 * burst_length - 1
  /\ (burst_length - 3) % (2 * burst_length) =
       IF burst_length = 2 THEN 2 * burst_length - 1 ELSE burst_length - 3
<1> DEFINE C == 2 * burst_length
           x == burst_length - 3
<1>1. C \in Nat \ {0} /\ x \in Int /\ (x = -1 \/ x \in 0 .. C - 1) /\ (x = -1 <=> burst_length = 2)
      /\ burst_length \in Nat
  BY BurstLength
<1>2. x = burst_length - 3
  OBVIOUS
<1> HIDE DEF C, x
<1>3. x % C = IF x = -1 THEN C - 1 ELSE x
  BY <1>1, ModSmall
<1>4. x % C \in 0 .. C - 1
  BY <1>1, ModSmall
<1> QED
  BY <1>1, <1>2, <1>3, <1>4 DEF C, x

\* Words of the Flash from a on.
Slow(id, n, a) ==
  [i \in 1 .. IF id = 0 THEN 0 ELSE n |-> [id |-> id, data |-> Ctrl!FlashWord(a + i - 1)]]

Place1 == One(readdataid, chip_q)
Place2 == One(pendingid2, ssram[chip_a])
Place3 == Coming(pendingid, IF pendingid = 0 THEN 0 ELSE Ctrl!Bursting, Ctrl!Stable, Ctrl!NextA)
Place4 == Slow(IF state = "S_READ_FLASH" THEN flash_id ELSE 0,
               (2 * burst_length + 1 - (flash_address % (2 * burst_length))) \div 2,
               flash_address \div 2)

LEMMA PipelineIs == Ctrl!InPipeline = ((Place1 \o Place2) \o Place3) \o Place4
  BY SsramConstants DEF Ctrl!InPipeline, Ctrl!Owed, Place1, Place2, Place3, Place4, One, Coming, Slow, LineAt

LEMMA PipelineNext == Ctrl!InPipeline' = ((Place1' \o Place2') \o Place3') \o Place4'
<1>1. (Ctrl!InPipeline = ((Place1 \o Place2) \o Place3) \o Place4)'
  BY PipelineIs, PTL
<1> QED
  BY <1>1

SsramGiven == IF mem_readdataid = 0 \/ rst > 0 THEN None ELSE [id |-> mem_readdataid, data |-> mem_readdata]

SsramOwed == IF rst > 0 THEN <<>> ELSE Ctrl!InPipeline

SsramMem == [a \in Addr |-> IF a < FlashFrom THEN Ctrl!Stable[a] ELSE Ctrl!FlashWord(a)]

\* What the chip holds once it has taken what is on its pins.
LEMMA SsramStable ==
  ASSUME SsramInv
  PROVE  /\ Ctrl!Stable = [x \in Addr |-> Ctrl!Stable[x]]
         /\ ~sram_we => Ctrl!Stable = ssram
         /\ sram_we => Ctrl!Stable = [ssram EXCEPT ![sram_a] = [l \in Lanes |-> IF l \in sram_be THEN sram_dout[l] ELSE @[l]]]
<1>1. CASE ~sram_we
  BY <1>1 DEF Ctrl!Stable, SsramInv, SsramTypes
<1>2. CASE sram_we
  <2>1. sram_adsc /\ sram_dout_en /\ ~sram_oe /\ sram_dout # None
    BY <1>2, PortAssumption DEF SsramInv, SsramTypes, Lanes, Low, High
  <2>2. Ctrl!sram_dq = sram_dout
    BY <2>1 DEF Ctrl!sram_dq
  <2>3. Ctrl!Stable = [ssram EXCEPT ![sram_a] = [l \in Lanes |-> IF l \in sram_be THEN sram_dout[l] ELSE ssram[sram_a][l]]]
    <3>1. \A l : (IF l \notin sram_be THEN ssram[sram_a][l] ELSE IF Ctrl!sram_dq = None THEN None ELSE Ctrl!sram_dq[l])
                  = IF l \in sram_be THEN sram_dout[l] ELSE ssram[sram_a][l]
      BY <2>1, <2>2
    <3>2. Ctrl!Stable = [ssram EXCEPT ![sram_a] = [l \in Lanes |-> IF l \notin sram_be THEN ssram[sram_a][l] ELSE IF Ctrl!sram_dq = None THEN None ELSE Ctrl!sram_dq[l]]]
      BY <1>2, <2>1, SsramConstants DEF Ctrl!Stable
    <3> QED
      BY <3>1, <3>2
  <2>4. Ctrl!Stable = [x \in Addr |-> Ctrl!Stable[x]]
    BY <2>3 DEF SsramInv, SsramTypes
  <2> QED
    BY <1>2, <2>3, <2>4
<1> QED
  BY <1>1, <1>2

LEMMA SsramNextA ==
  ASSUME SsramInv
  PROVE  /\ Ctrl!NextA \in Addr
         /\ ~sram_adsc /\ sram_adv => Ctrl!NextA = Ahead(chip_a)
         /\ sram_adsc => Ctrl!NextA = sram_a
<1>1. Ctrl!Advanced(chip_a) = Ahead(chip_a)
  BY SsramConstants DEF Ctrl!Advanced, Ahead
<1>2. chip_a \in Addr /\ sram_a \in Addr
  BY DEF SsramInv, SsramTypes
<1>3. Ahead(chip_a) \in Addr
  BY <1>2, LineAtNext
<1> QED
  BY <1>1, <1>2, <1>3 DEF Ctrl!NextA

----------------------------------------------------------------------------
(* A step with any of the requests.                                        *)

\* What happens in every cycle.
Always(reset) ==
  /\ Ctrl!Chip
  /\ Ctrl!MoveIds(reset)
  /\ rst' = IF ~reset THEN 0 ELSE IF rst < ResetCycles THEN rst + 1 ELSE rst
  /\ ~reset => rst \in {0, ResetCycles}

LEMMA SsramAlways ==
  ASSUME SsramInv, NEW reset \in BOOLEAN, Always(reset)
  PROVE  /\ ssram' = Ctrl!Stable /\ ssram' = [x \in Addr |-> ssram'[x]]
         /\ chip_a' = Ctrl!NextA /\ chip_a' \in Addr
         /\ flash' = flash
         /\ rst' \in 0 .. ResetCycles /\ (rst' > 0 <=> reset) /\ (rst' > 1 => rst > 0)
         /\ reset => readdataid' = 0 /\ pendingid2' = 0
         /\ ~reset => readdataid' = pendingid2 /\ pendingid2' = pendingid
         /\ {readdataid', pendingid2'} \subseteq Ids \cup {0}
         /\ ~reset /\ rst > 0 => pendingid = 0
<1>1. ResetCycles \in Nat \ {0, 1} /\ rst \in 0 .. ResetCycles
  BY VideoAssumption DEF SsramInv, SsramTypes
<1>2. {pendingid, pendingid2, readdataid} \subseteq Ids \cup {0} /\ (rst > 1 => pendingid = 0)
  BY DEF SsramInv, SsramTypes
<1>3. ssram' = Ctrl!Stable /\ chip_a' = Ctrl!NextA /\ flash' = flash
  BY DEF Always, Ctrl!Chip
<1>4. ssram' = [x \in Addr |-> ssram'[x]] /\ chip_a' \in Addr
  BY <1>3, SsramStable, SsramNextA
<1>5. rst' = IF ~reset THEN 0 ELSE IF rst < ResetCycles THEN rst + 1 ELSE rst
  BY DEF Always
<1>6. rst' \in 0 .. ResetCycles /\ (rst' > 0 <=> reset) /\ (rst' > 1 => rst > 0)
  BY <1>1, <1>5
<1>7. /\ reset => readdataid' = 0 /\ pendingid2' = 0
      /\ ~reset => readdataid' = pendingid2 /\ pendingid2' = pendingid
  BY DEF Always, Ctrl!MoveIds
<1>8. ~reset /\ rst > 0 => pendingid = 0
  BY <1>1, <1>2 DEF Always
<1> QED
  BY <1>2, <1>3, <1>4, <1>6, <1>7, <1>8

LEMMA ReturnedId ==
  ASSUME SsramInv, NEW reset \in BOOLEAN, Ctrl!Returned(reset)
  PROVE  mem_readdataid' \in Ids \cup {0}
  BY DEF Ctrl!Returned, SsramInv, SsramTypes

\* An idle cycle.
LEMMA IdleKeeps ==
  ASSUME SsramInv, NEW reset \in BOOLEAN, Always(reset), Ctrl!Idle, Ctrl!Returned(reset)
  PROVE  SsramInv'
<1>1. UNCHANGED <<state, cnt, flash_id, flash_address, flash_delay, flash_data, sram_a, sram_oe, sram_dout>>
      /\ state = "S_IDLE" /\ pendingid' = 0 /\ sram_dout_en' = FALSE /\ sram_adsc' = FALSE
      /\ sram_be' = {} /\ sram_we' = FALSE /\ sram_adv' = FALSE
  BY DEF Ctrl!Idle, Ctrl!NoStrobe, Ctrl!wait
<1>2. readdataid' # 0 \/ pendingid2' # 0 => sram_oe'
  BY <1>1, SsramAlways DEF SsramInv, SsramTypes
<1>3. FlashInv'
  BY <1>1 DEF FlashInv
<1>20. SsramTypes'
  BY <1>1, <1>2, <1>3, SsramAlways, ReturnedId DEF SsramInv, SsramTypes
<1> QED
  BY <1>1, <1>2, <1>3, <1>20, SsramAlways DEF SsramInv

LEMMA ReadBurstKeeps ==
  ASSUME SsramInv, NEW reset \in BOOLEAN, Always(reset), Ctrl!ReadBurst(reset), Ctrl!Returned(reset)
  PROVE  SsramInv'
<1>1. UNCHANGED <<pendingid, flash_id, flash_address, flash_delay, flash_data, sram_a, sram_oe, sram_dout>>
      /\ state = "S_READ_BURST" /\ sram_dout_en' = FALSE /\ sram_adsc' = FALSE
      /\ sram_be' = {} /\ sram_we' = FALSE /\ sram_adv' = TRUE
  BY DEF Ctrl!ReadBurst, Ctrl!wait
<1>2. pendingid # 0 /\ sram_oe /\ rst = 0 /\ cnt \in 0 .. 2 * burst_length - 1
      /\ (cnt <= burst_length - 3 \/ cnt = 2 * burst_length - 1)
  BY <1>1 DEF SsramInv, SsramTypes, FlashInv
<1>3. cnt' = (IF cnt = 0 THEN 2 * burst_length - 1 ELSE cnt - 1) /\ cnt' \in 0 .. 2 * burst_length - 1
      /\ state' = IF cnt >= burst_length \/ reset THEN "S_IDLE" ELSE "S_READ_BURST"
  BY <1>1, <1>2, SsramCounter DEF Ctrl!ReadBurst
<1>4. state' = "S_READ_BURST" => ~reset /\ (cnt' <= burst_length - 3 \/ cnt' = 2 * burst_length - 1)
  BY <1>2, <1>3, BurstLength
<1>5. rst' \in {0, 1}
  BY <1>2, SsramAlways, VideoAssumption
<1>6. FlashInv'
  BY <1>1, <1>3 DEF FlashInv
<1>7. cnt' \in 0 .. 2 * burst_length - 1 /\ state' \in {"S_IDLE", "S_READ_BURST"} /\ (reset => state' = "S_IDLE")
  BY <1>3
<1>20. SsramTypes'
  BY <1>1, <1>2, <1>4, <1>5, <1>6, <1>7, SsramAlways, ReturnedId DEF SsramInv, SsramTypes
<1> QED
  BY <1>1, <1>2, <1>4, <1>5, <1>6, <1>7, <1>20, SsramAlways DEF SsramInv

LEMMA ReadKeeps ==
  ASSUME SsramInv, Always(FALSE), NEW id \in Ids, NEW a \in Lines, Ctrl!Read(id, a), Ctrl!Returned(FALSE)
  PROVE  SsramInv'
<1>1. UNCHANGED <<flash_id, flash_address, flash_delay, flash_data, sram_dout>>
      /\ sram_a' = a /\ sram_adsc' = TRUE /\ sram_dout_en' = FALSE /\ sram_oe' = TRUE
      /\ pendingid' = id /\ state' = "S_READ_BURST"
      /\ sram_be' = {} /\ sram_we' = FALSE /\ sram_adv' = FALSE
  BY SsramConstants DEF Ctrl!Read, Ctrl!wait
<1>2. id # 0 /\ a \in Addr
  BY BurstLength, LineFits
<1>3. cnt' \in 0 .. 2 * burst_length - 1 /\ (cnt' <= burst_length - 3 \/ cnt' = 2 * burst_length - 1)
  <2>1. cnt' = (burst_length - 3) % (2 * burst_length)
    BY SsramConstants DEF Ctrl!Read
  <2> QED
    BY <2>1, BurstBegins, BurstLength
<1>4. rst' = 0
  BY DEF Always
<1>5. FlashInv'
  BY <1>1 DEF FlashInv
<1>20. SsramTypes'
  BY <1>1, <1>2, <1>3, <1>4, <1>5, SsramAlways, ReturnedId DEF SsramInv, SsramTypes
<1> QED
  BY <1>1, <1>2, <1>3, <1>4, <1>5, <1>20, SsramAlways DEF SsramInv

LEMMA ReadFlashKeeps ==
  ASSUME SsramInv, Always(FALSE), NEW id \in Ids, NEW a \in Lines, Ctrl!ReadFlash(id, a), Ctrl!Returned(FALSE)
  PROVE  SsramInv'
<1>1. UNCHANGED <<cnt, flash_data, sram_a, sram_oe, sram_dout, sram_dout_en>>
      /\ flash_delay' = FlashDelay /\ flash_id' = id
      /\ pendingid' = 0 /\ state' = "S_READ_FLASH" /\ state = "S_IDLE"
      /\ sram_be' = {} /\ sram_we' = FALSE /\ sram_adv' = FALSE /\ sram_adsc' = FALSE
  BY DEF Ctrl!ReadFlash, Ctrl!NoStrobe
<1>2. id # 0 /\ a \in 0 .. Words - 1 /\ Words \in Nat
  BY BurstLength, LineFits DEF Addr
<1>3. flash_address' = 2 * a
  BY DEF Ctrl!ReadFlash
<1>7. flash_address' \in 0 .. 2 * Words - 1
  BY <1>2, <1>3
<1>4. rst' = 0 /\ flash_delay' \in 1 .. 127
  BY <1>1, VideoAssumption DEF Always
<1>5. readdataid' # 0 \/ pendingid2' # 0 => sram_oe' /\ ~sram_dout_en'
  BY <1>1, SsramAlways DEF SsramInv, SsramTypes
<1>6. FlashInv'
  <2>1. flash_address' % 2 = 0
    BY <1>2, <1>3
  <2> QED
    BY <1>1, <1>2, <1>4, <2>1, SsramAlways DEF FlashInv
<1>8. flash_delay' \in 0 .. 255
  BY <1>4
<1>20. SsramTypes'
  BY <1>1, <1>2, <1>5, <1>7, <1>8, SsramAlways, ReturnedId DEF SsramInv, SsramTypes
<1> QED
  BY <1>1, <1>2, <1>4, <1>5, <1>6, <1>7, <1>20, SsramAlways DEF SsramInv

LEMMA StoreKeeps ==
  ASSUME SsramInv, Always(FALSE), NEW a \in Addr, NEW w, DOMAIN w \subseteq Lanes,
         Ctrl!Store(a, w), Ctrl!Returned(FALSE)
  PROVE  /\ SsramInv'
         /\ state = "S_IDLE" /\ state' = "S_IDLE" /\ pendingid2 = 0 /\ pendingid = 0 /\ pendingid' = 0
<1>1. UNCHANGED <<state, cnt, flash_id, flash_address, flash_delay, flash_data>>
      /\ sram_a' = a /\ sram_adsc' = TRUE /\ sram_dout_en' = TRUE /\ sram_oe' = FALSE
      /\ sram_dout' \in [Lanes -> Values]
      /\ pendingid' = 0 /\ sram_be' = DOMAIN w /\ sram_we' = TRUE /\ sram_adv' = FALSE
      /\ state = "S_IDLE" /\ pendingid2 = 0
  BY SsramConstants DEF Ctrl!Store, Ctrl!wait, Ctrl!mem_waitrequest
<1>3. pendingid = 0
  <2>1. rst > 0 => pendingid = 0
    BY SsramAlways
  <2>2. rst \in Nat
    BY VideoAssumption DEF SsramInv, SsramTypes
  <2> QED
    BY <1>1, <2>1, <2>2 DEF SsramInv, SsramTypes
<1>4. rst' = 0
  BY DEF Always
<1>5. FlashInv'
  BY <1>1 DEF FlashInv
<1>20. SsramTypes'
  BY <1>1, <1>3, <1>4, <1>5, SsramAlways, ReturnedId DEF SsramInv, SsramTypes
<1> QED
  BY <1>1, <1>3, <1>4, <1>5, <1>20, SsramAlways DEF SsramInv

LEMMA FlashWaitKeeps ==
  ASSUME SsramInv, NEW reset \in BOOLEAN, Always(reset), Ctrl!FlashWait(reset), Ctrl!Returned(reset)
  PROVE  SsramInv'
<1>1. UNCHANGED <<cnt, pendingid, flash_id, flash_address, flash_data, sram_a, sram_oe, sram_dout, sram_dout_en>>
      /\ sram_be' = {} /\ sram_we' = FALSE /\ sram_adv' = FALSE /\ sram_adsc' = FALSE
      /\ state = "S_READ_FLASH" /\ state' = IF reset THEN "S_IDLE" ELSE "S_READ_FLASH"
  BY DEF Ctrl!FlashWait, Ctrl!NoStrobe
<1>2. rst = 0 /\ pendingid = 0 /\ flash_id \in Ids
       /\ (pendingid2 # 0 => flash_delay \in 1 .. 127)
       /\ (flash_address % 2 = 1 => flash_data = flash[flash_address - 1])
       /\ flash_delay \in 0 .. 255
  BY <1>1 DEF SsramInv, SsramTypes, FlashInv
<1>3. flash_delay < 128 /\ flash_delay' = IF flash_delay = 0 THEN 255 ELSE flash_delay - 1
  BY <1>2, FlashCounter DEF Ctrl!FlashWait
<1>4. flash_delay' \in 0 .. 255 /\ (pendingid2 # 0 => flash_delay' \in 0 .. 127)
  BY <1>2, <1>3
<1>5. rst' \in {0, 1}
  BY <1>2, SsramAlways, VideoAssumption
<1>6. readdataid' # 0 \/ pendingid2' # 0 => sram_oe' /\ ~sram_dout_en'
  BY <1>1, SsramAlways DEF SsramInv, SsramTypes
<1>7. FlashInv'
  BY <1>1, <1>2, <1>3, <1>4, SsramAlways DEF FlashInv
<1>8. flash_delay' \in 0 .. 255
  BY <1>4
<1>20. SsramTypes'
  BY <1>1, <1>2, <1>5, <1>7, <1>8, SsramAlways, ReturnedId DEF SsramInv, SsramTypes
<1> QED
  BY <1>1, <1>2, <1>4, <1>5, <1>6, <1>7, <1>20, SsramAlways DEF SsramInv

LEMMA FlashReadKeeps ==
  ASSUME SsramInv, NEW reset \in BOOLEAN, Always(reset), Ctrl!FlashRead(reset)
  PROVE  /\ SsramInv'
         /\ pendingid = 0 /\ pendingid2 = 0 /\ readdataid = 0 /\ rst = 0 /\ flash_id \in Ids
         /\ flash_address \in 0 .. 2 * Words - 1
<1>1. UNCHANGED <<cnt, pendingid, flash_id, sram_a, sram_oe, sram_dout, sram_dout_en>>
      /\ sram_be' = {} /\ sram_we' = FALSE /\ sram_adv' = FALSE /\ sram_adsc' = FALSE
      /\ state = "S_READ_FLASH" /\ state' \in {"S_IDLE", "S_READ_FLASH"} /\ (reset => state' = "S_IDLE")
      /\ flash_data' = flash[flash_address]
      /\ flash_delay' = FlashDelay
  BY DEF Ctrl!FlashRead, Ctrl!NoStrobe
<1>2. rst = 0 /\ pendingid = 0 /\ flash_id \in Ids
       /\ (pendingid2 # 0 => flash_delay \in 1 .. 127)
       /\ (readdataid # 0 => flash_delay \in 0 .. 127)
       /\ flash_delay \in 0 .. 255 /\ flash_address \in 0 .. 2 * Words - 1
  BY <1>1 DEF SsramInv, SsramTypes, FlashInv
<1>3. flash_delay >= 128
  BY <1>2, FlashCounter DEF Ctrl!FlashRead
<1>4. pendingid2 = 0 /\ readdataid = 0
  BY <1>2, <1>3
<1>5. rst' \in {0, 1}
  BY <1>2, SsramAlways, VideoAssumption
<1>6. flash_address' \in 0 .. 2 * Words - 1
      /\ (flash_address' % 2 = 1 => flash_address' = flash_address + 1)
  <2> DEFINE C == 2 * Words
             x == flash_address + 1
  <2>1. C \in Nat \ {0} /\ x \in Int /\ (x \in 0 .. C - 1 \/ x = C * 1 + 0) /\ 0 \in 0 .. C - 1
    BY <1>2, BurstLength
  <2> HIDE DEF C, x
  <2>2. x % C \in 0 .. C - 1 /\ (x \in 0 .. C - 1 => x % C = x) /\ (x = C * 1 + 0 => x % C = 0)
    <3>1. (C * 1 + 0) % C = 0
      BY <2>1, DivModOf
    <3>2. x % C \in 0 .. C - 1 /\ (x \in 0 .. C - 1 => x % C = x)
      BY <2>1, ModSmall
    <3> QED
      BY <3>1, <3>2
  <2>3. flash_address' = x % C
    BY DEF Ctrl!FlashRead, x, C
  <2>4. flash_address' % 2 = 1 => flash_address' # 0
    OBVIOUS
  <2> QED
    BY <2>1, <2>2, <2>3, <2>4 DEF C, x
<1>7. flash_address' % 2 = 1 => flash_data' = flash'[flash_address' - 1]
  BY <1>1, <1>2, <1>6, SsramAlways
<1>8. mem_readdataid' \in Ids \cup {0} /\ flash_delay' \in 1 .. 127
  BY <1>1, <1>2, VideoAssumption DEF Ctrl!FlashRead
<1>9. readdataid' = 0 /\ pendingid2' = 0
  BY <1>2, <1>4, SsramAlways
<1>10. FlashInv'
  BY <1>1, <1>2, <1>4, <1>7, <1>8, <1>9, SsramAlways DEF FlashInv
<1>11. flash_address' \in 0 .. 2 * Words - 1
  BY <1>6
<1>12. flash_delay' \in 0 .. 255 /\ mem_readdataid' \in Ids \cup {0}
  BY <1>8
<1>20. SsramTypes'
  BY <1>1, <1>2, <1>9, <1>11, <1>12, SsramAlways DEF SsramInv, SsramTypes
<1> QED
  BY <1>1, <1>2, <1>4, <1>5, <1>8, <1>9, <1>10, <1>11, <1>20, SsramAlways DEF SsramInv

----------------------------------------------------------------------------
(* The places of the pipeline, before and after a step.                    *)

LEMMA SlowIsSeq ==
  ASSUME NEW id, NEW n \in Nat, NEW a
  PROVE  IsSeq(Slow(id, n, a)) /\ (id = 0 => Slow(id, n, a) = <<>>)
<1> DEFINE q == Slow(id, n, a)
           k == IF id = 0 THEN 0 ELSE n
<1>1. q = [i \in 1 .. k |-> q[i]] /\ k \in Nat
  BY DEF Slow
<1> HIDE DEF q
<1>2. IsSeq(q)
  BY <1>1, FunctionIsSeq
<1>3. id = 0 => q = <<>>
  <2>1. id = 0 => q \in [1 .. 0 -> {}]
    BY <1>1
  <2> QED
    BY <2>1, FunctionSeq, EmptySeq
<1> QED
  BY <1>2, <1>3 DEF q

\* Half words of the Flash that are left, rounded up to words.
FlashLeft == (2 * burst_length + 1 - (flash_address % (2 * burst_length))) \div 2

LEMMA FlashLeftIs ==
  ASSUME NEW f \in Nat
  PROVE  (2 * burst_length + 1 - (f % (2 * burst_length))) \div 2 \in Nat \ {0}
<1> DEFINE C == 2 * burst_length
           r == f % C
<1>1. C \in Nat \ {0}
  BY BurstLength
<1> HIDE DEF C
<1>2. r \in 0 .. C - 1
  BY <1>1, DivMod
<1> HIDE DEF r
<1>3. (C + 1 - r) \div 2 \in Nat \ {0}
  BY <1>1, <1>2
<1> QED
  BY <1>3 DEF C, r

LEMMA BurstingCount ==
  ASSUME SsramInv
  PROVE  /\ Ctrl!Bursting \in Nat \ {0}
         /\ state # "S_READ_BURST" => Ctrl!Bursting = 1
         /\ state = "S_READ_BURST" => Ctrl!Bursting = IF cnt = 2 * burst_length - 1 THEN 2 ELSE cnt + 3
<1>1. CASE state # "S_READ_BURST"
  BY <1>1 DEF Ctrl!Bursting
<1>2. CASE state = "S_READ_BURST"
  <2>1. cnt \in 0 .. 2 * burst_length - 1 /\ (cnt <= burst_length - 3 \/ cnt = 2 * burst_length - 1)
    BY <1>2 DEF SsramInv, SsramTypes
  <2>2. Ctrl!Bursting = (cnt + 3) % (2 * burst_length)
    BY <1>2, SsramConstants DEF Ctrl!Bursting
  <2>3. Ctrl!Bursting = IF cnt = 2 * burst_length - 1 THEN 2 ELSE cnt + 3
    BY <2>1, <2>2, BurstingIs
  <2> QED
    BY <1>2, <2>1, <2>3, BurstLength
<1> QED
  BY <1>1, <1>2

LEMMA Places ==
  ASSUME SsramInv
  PROVE  /\ IsSeq(Place1) /\ IsSeq(Place2) /\ IsSeq(Place3) /\ IsSeq(Place4)
         /\ readdataid = 0 => Place1 = <<>>
         /\ pendingid2 = 0 => Place2 = <<>>
         /\ pendingid = 0 => Place3 = <<>>
         /\ state # "S_READ_FLASH" => Place4 = <<>>
<1>1. IsSeq(Place1) /\ IsSeq(Place2) /\ (readdataid = 0 => Place1 = <<>>) /\ (pendingid2 = 0 => Place2 = <<>>)
  BY OneSplits, EmptyIsSeq DEF Place1, Place2
<1>2. IsSeq(Place3) /\ (pendingid = 0 => Place3 = <<>>)
  <2> DEFINE n == IF pendingid = 0 THEN 0 ELSE Ctrl!Bursting
  <2>1. n \in Nat /\ (pendingid = 0 => n = 0)
    BY BurstingCount
  <2>2. Place3 = Coming(pendingid, n, Ctrl!Stable, Ctrl!NextA)
    BY DEF Place3
  <2> HIDE DEF n
  <2> QED
    BY <2>1, <2>2, ComingIsSeq
<1>3. IsSeq(Place4) /\ (state # "S_READ_FLASH" => Place4 = <<>>)
  <2>1. FlashLeft \in Nat
    <3>1. flash_address \in Nat
      BY DEF SsramInv, SsramTypes
    <3> QED
      BY <3>1, FlashLeftIs DEF FlashLeft
  <2>2. Place4 = Slow(IF state = "S_READ_FLASH" THEN flash_id ELSE 0, FlashLeft, flash_address \div 2)
    BY DEF Place4, FlashLeft
  <2> QED
    BY <2>1, <2>2, SlowIsSeq
<1> QED
  BY <1>1, <1>2, <1>3

LEMMA PlacesNext == (SsramInv =>
         /\ IsSeq(Place1) /\ IsSeq(Place2) /\ IsSeq(Place3) /\ IsSeq(Place4)
         /\ readdataid = 0 => Place1 = <<>>
         /\ pendingid2 = 0 => Place2 = <<>>
         /\ pendingid = 0 => Place3 = <<>>
         /\ state # "S_READ_FLASH" => Place4 = <<>>)'
  BY Places, PTL

\* Outside of writes nothing happens to the SRAM.
LEMMA SsramQuiet ==
  ASSUME SsramInv, NEW reset \in BOOLEAN, Always(reset), sram_we' = FALSE
  PROVE  /\ Ctrl!Stable' = Ctrl!Stable
         /\ SsramMem' = SsramMem
<1>1. Ctrl!Stable' = ssram'
  BY DEF Ctrl!Stable
<1>2. Ctrl!Stable' = Ctrl!Stable /\ flash' = flash
  BY <1>1, SsramAlways
<1> QED
  BY <1>2 DEF SsramMem, Ctrl!FlashWord

LEMMA OwedIsSeq == ASSUME SsramInv PROVE IsSeq(SsramOwed)
<1>1. IsSeq(Place1) /\ IsSeq(Place2) /\ IsSeq(Place3) /\ IsSeq(Place4)
  BY Places
<1>2. IsSeq(Place1 \o Place2)
  BY <1>1, ConcatIsSeq
<1>3. IsSeq((Place1 \o Place2) \o Place3)
  BY <1>1, <1>2, ConcatIsSeq
<1>4. IsSeq(((Place1 \o Place2) \o Place3) \o Place4)
  BY <1>1, <1>3, ConcatIsSeq
<1> QED
  BY <1>4, PipelineIs, EmptyIsSeq DEF SsramOwed

LEMMA SsramAnswers ==
  ASSUME SsramInv, SsramInv', Always(FALSE), Ctrl!Returned(FALSE), NEW more, IsSeq(more),
         (Place3 \o Place4) \o more = (Place2' \o Place3') \o Place4'
  PROVE  \/ SsramGiven' = None /\ SsramOwed' = SsramOwed \o more
         \/ Splits(SsramOwed \o more, SsramGiven', SsramOwed')
<1>1. rst' = 0
  BY DEF Always
<1>2. SsramOwed' = ((Place1' \o Place2') \o Place3') \o Place4'
  BY <1>1, PipelineNext DEF SsramOwed
<1>3. SsramOwed = ((Place1 \o Place2) \o Place3) \o Place4
  <2>1. CASE rst = 0
    BY <2>1, PipelineIs DEF SsramOwed
  <2>2. CASE rst # 0
    <3>1. rst > 0 /\ readdataid = 0 /\ pendingid2 = 0 /\ pendingid = 0 /\ state = "S_IDLE"
      <4>1. rst > 0
        BY <2>2, VideoAssumption DEF SsramInv, SsramTypes
      <4>2. pendingid = 0
        BY <4>1, SsramAlways
      <4> QED
        BY <4>1, <4>2 DEF SsramInv
    <3>2. Place1 = <<>> /\ Place2 = <<>> /\ Place3 = <<>> /\ Place4 = <<>>
      BY <3>1, Places
    <3> QED
      BY <3>1, <3>2, NothingMore DEF SsramOwed
  <2> QED
    BY <2>1, <2>2
<1>4. Place1' = Place2
  <2>1. readdataid' = pendingid2 /\ chip_q' = ssram[chip_a]
    BY SsramAlways DEF Always, Ctrl!Chip
  <2> QED
    BY <2>1 DEF Place1, Place2
<1>5. IsSeq(Place1) /\ IsSeq(Place2) /\ IsSeq(Place3) /\ IsSeq(Place4)
  BY Places
<1>6. IsSeq(Place1') /\ IsSeq(Place2') /\ IsSeq(Place3') /\ IsSeq(Place4')
  BY PlacesNext
<1>7. SsramOwed \o more = Place1 \o SsramOwed'
  <2>1. Joined(Joined(Place3, Place4), more) = Joined(Joined(Place2', Place3'), Place4')
    BY DEF Joined
  <2>2. Joined(Joined(Joined(Joined(Place1, Place2), Place3), Place4), more)
          = Joined(Place1, Joined(Joined(Joined(Place2, Place2'), Place3'), Place4'))
    BY <1>5, <1>6, <2>1, PipelineMoves
  <2> QED
    BY <1>2, <1>3, <1>4, <2>2 DEF Joined
<1>8. IsSeq(SsramOwed')
  <2>1. IsSeq(Place1' \o Place2')
    BY <1>6, ConcatIsSeq
  <2>2. IsSeq((Place1' \o Place2') \o Place3')
    BY <1>6, <2>1, ConcatIsSeq
  <2> QED
    BY <1>2, <1>6, <2>2, ConcatIsSeq
<1>9. mem_readdataid' = readdataid /\ mem_readdata' = Ctrl!sram_dq
  BY DEF Ctrl!Returned
<1>10. CASE readdataid = 0
  <2>1. Place1 \o SsramOwed' = SsramOwed'
    BY <1>8, <1>10, OneSplits DEF Place1
  <2> QED
    BY <1>7, <1>9, <1>10, <2>1 DEF SsramGiven
<1>11. CASE readdataid # 0
  <2>1. mem_readdata' = chip_q
    BY <1>9, <1>11 DEF Ctrl!sram_dq, SsramInv
  <2>2. SsramGiven' = [id |-> readdataid, data |-> chip_q]
    BY <1>1, <1>9, <1>11, <2>1 DEF SsramGiven
  <2>3. Splits(Place1 \o SsramOwed', [id |-> readdataid, data |-> chip_q], SsramOwed')
    BY <1>8, <1>11, OneSplits DEF Place1
  <2> QED
    BY <1>7, <2>2, <2>3
<1> QED
  BY <1>10, <1>11

\* Of a request that was taken before, the last word is looked up.
LEMMA LastWord ==
  ASSUME SsramInv, Always(FALSE), state = "S_IDLE"
  PROVE  Place2' = Place3
<1>1. Place2' = One(pendingid, Ctrl!Stable[Ctrl!NextA])
  BY SsramAlways DEF Place2
<1>2. CASE pendingid = 0
  BY <1>1, <1>2, Places, OneSplits, EmptyIsSeq
<1>3. CASE pendingid # 0
  <2>1. Place3 = Coming(pendingid, 1, Ctrl!Stable, Ctrl!NextA)
    BY <1>3, BurstingCount DEF Place3
  <2>2. Ctrl!NextA \in Addr
    BY SsramNextA
  <2> QED
    BY <1>1, <1>3, <2>1, <2>2, ComingOne
<1> QED
  BY <1>2, <1>3

LEMMA IdleAnswers ==
  ASSUME SsramInv, Always(FALSE), Ctrl!Idle, Ctrl!Returned(FALSE)
  PROVE  (Place3 \o Place4) \o <<>> = (Place2' \o Place3') \o Place4'
<1>1. SsramInv'
  BY IdleKeeps
<1>2. state = "S_IDLE" /\ state' = "S_IDLE" /\ pendingid' = 0
  BY DEF Ctrl!Idle
<1>3. Place2' = Place3
  BY <1>2, LastWord
<1>4. Place4 = <<>> /\ Place3' = <<>> /\ Place4' = <<>> /\ IsSeq(Place3)
  BY <1>1, <1>2, Places, PlacesNext
<1> QED
  BY <1>3, <1>4, ConcatNothing

LEMMA FlashWaitAnswers ==
  ASSUME SsramInv, Always(FALSE), Ctrl!FlashWait(FALSE), Ctrl!Returned(FALSE)
  PROVE  (Place3 \o Place4) \o <<>> = (Place2' \o Place3') \o Place4'
<1>1. SsramInv'
  BY FlashWaitKeeps
<1>2. UNCHANGED <<pendingid, flash_id, flash_address>> /\ state = "S_READ_FLASH" /\ state' = "S_READ_FLASH"
      /\ flash' = flash
  BY SsramAlways DEF Ctrl!FlashWait
<1>3. pendingid = 0 /\ pendingid2' = 0 /\ pendingid' = 0
  BY <1>2, SsramAlways DEF SsramInv, FlashInv
<1>4. Place3 = <<>> /\ Place2' = <<>> /\ Place3' = <<>> /\ IsSeq(Place4)
  BY <1>1, <1>3, Places, PlacesNext
<1>5. Place4' = Place4
  BY <1>2 DEF Place4, Slow, Ctrl!FlashWord
<1> QED
  BY <1>4, <1>5, ConcatNothing, NothingMore

\* A burst of the SRAM goes on, and one begins.
LEMMA ReadBurstCounts ==
  ASSUME SsramInv, Always(FALSE), Ctrl!ReadBurst(FALSE), Ctrl!Returned(FALSE)
  PROVE  Ctrl!Bursting \in Nat \ {0} /\ Ctrl!Bursting' = Ctrl!Bursting - 1
<1>1. SsramInv'
  BY ReadBurstKeeps
<1>2. state = "S_READ_BURST"
  BY DEF Ctrl!ReadBurst
<1>3. cnt \in 0 .. 2 * burst_length - 1 /\ (cnt <= burst_length - 3 \/ cnt = 2 * burst_length - 1)
  BY <1>2 DEF SsramInv, SsramTypes
<1>4. cnt' = (IF cnt = 0 THEN 2 * burst_length - 1 ELSE cnt - 1)
      /\ state' = IF cnt >= burst_length THEN "S_IDLE" ELSE "S_READ_BURST"
  BY <1>2, <1>3, SsramCounter DEF Ctrl!ReadBurst
<1>5. Ctrl!Bursting = (IF cnt = 2 * burst_length - 1 THEN 2 ELSE cnt + 3)
  BY <1>2, BurstingCount
<1>6. /\ state' # "S_READ_BURST" => Ctrl!Bursting' = 1
      /\ state' = "S_READ_BURST" => Ctrl!Bursting' = IF cnt' = 2 * burst_length - 1 THEN 2 ELSE cnt' + 3
  <2>1. (SsramInv =>
          /\ state # "S_READ_BURST" => Ctrl!Bursting = 1
          /\ state = "S_READ_BURST" => Ctrl!Bursting = IF cnt = 2 * burst_length - 1 THEN 2 ELSE cnt + 3)'
    BY BurstingCount, PTL
  <2> QED
    BY <1>1, <2>1
<1>7. Ctrl!Bursting \in Nat \ {0} /\ Ctrl!Bursting' = Ctrl!Bursting - 1
  <2>1. CASE cnt = 2 * burst_length - 1
    BY <1>3, <1>4, <1>5, <1>6, <2>1, BurstLength
  <2>2. CASE cnt <= burst_length - 3
    BY <1>3, <1>4, <1>5, <1>6, <2>2, BurstLength
  <2> QED
    BY <1>3, <2>1, <2>2
<1> QED
  BY <1>7

LEMMA ReadCounts ==
  ASSUME SsramInv, Always(FALSE), NEW id \in Ids, NEW a \in Lines, Ctrl!Read(id, a), Ctrl!Returned(FALSE)
  PROVE  Ctrl!Bursting' = burst_length
<1>1. SsramInv'
  BY ReadKeeps
<1>2. state' = "S_READ_BURST" /\ cnt' = (burst_length - 3) % (2 * burst_length)
  BY SsramConstants DEF Ctrl!Read
<1>3. burst_length \in Nat \ {0, 1}
  BY BurstLength
<1>4. (SsramInv => (state = "S_READ_BURST" => Ctrl!Bursting = IF cnt = 2 * burst_length - 1 THEN 2 ELSE cnt + 3))'
  BY BurstingCount, PTL
<1>5. cnt' = IF burst_length = 2 THEN 2 * burst_length - 1 ELSE burst_length - 3
  BY <1>2, BurstBegins
<1> QED
  BY <1>1, <1>2, <1>3, <1>4, <1>5

LEMMA ReadBurstAnswers ==
  ASSUME SsramInv, Always(FALSE), Ctrl!ReadBurst(FALSE), Ctrl!Returned(FALSE)
  PROVE  (Place3 \o Place4) \o <<>> = (Place2' \o Place3') \o Place4'
<1>1. SsramInv'
  BY ReadBurstKeeps
<1>2. state = "S_READ_BURST" /\ sram_adsc' = FALSE /\ sram_adv' = TRUE /\ sram_we' = FALSE /\ pendingid' = pendingid
  BY DEF Ctrl!ReadBurst
<1>3. pendingid # 0 /\ cnt \in 0 .. 2 * burst_length - 1
      /\ (cnt <= burst_length - 3 \/ cnt = 2 * burst_length - 1)
  BY <1>2 DEF SsramInv, SsramTypes
<1>4. state' # "S_READ_FLASH"
  BY <1>2 DEF Ctrl!ReadBurst
<1>7. Ctrl!Bursting \in Nat \ {0} /\ Ctrl!Bursting' = Ctrl!Bursting - 1
  BY ReadBurstCounts
<1>8. Ctrl!NextA \in Addr /\ Ctrl!NextA' = Ahead(Ctrl!NextA) /\ Ctrl!Stable' = Ctrl!Stable
  <2>1. chip_a' = Ctrl!NextA /\ Ctrl!NextA \in Addr
    BY SsramAlways
  <2>2. (SsramInv => (~sram_adsc /\ sram_adv => Ctrl!NextA = Ahead(chip_a)))'
    BY SsramNextA, PTL
  <2>3. Ahead(chip_a)' = Ahead(chip_a')
    BY DEF Ahead
  <2>4. Ctrl!Stable' = Ctrl!Stable
    BY <1>2, SsramQuiet
  <2> QED
    BY <1>1, <1>2, <2>1, <2>2, <2>3, <2>4
<1>9. Place3 = Coming(pendingid, Ctrl!Bursting, Ctrl!Stable, Ctrl!NextA)
      /\ Place3' = Coming(pendingid, Ctrl!Bursting', Ctrl!Stable, Ctrl!NextA')
  BY <1>2, <1>3, <1>8 DEF Place3
<1>10. Place2' = One(pendingid, Ctrl!Stable[Ctrl!NextA])
  BY SsramAlways DEF Place2
<1>11. Place3 = Place2' \o Place3'
  <2> DEFINE n == Ctrl!Bursting
             k == Ctrl!Bursting'
             b == Ctrl!NextA'
  <2>1. Place3 = Coming(pendingid, n, Ctrl!Stable, Ctrl!NextA) /\ Place3' = Coming(pendingid, k, Ctrl!Stable, b)
        /\ n \in Nat \ {0} /\ k = n - 1 /\ b = Ahead(Ctrl!NextA) /\ Ctrl!NextA \in Addr
    BY <1>7, <1>8, <1>9
  <2> HIDE DEF n, k, b
  <2>2. Place3 = Joined(One(pendingid, Ctrl!Stable[Ctrl!NextA]), Place3')
    BY <1>3, <2>1, ComingStep
  <2> QED
    BY <1>10, <2>2 DEF Joined
<1>12. Place4 = <<>> /\ Place4' = <<>> /\ IsSeq(Place3)
  BY <1>1, <1>2, <1>4, Places, PlacesNext
<1> QED
  BY <1>11, <1>12, ConcatNothing

\* The words that a read is owed.
Asked(id, a) == [i \in 1 .. burst_length |-> [id |-> id, data |-> SsramMem[a + i - 1]]]

LEMMA ReadAnswers ==
  ASSUME SsramInv, Always(FALSE), NEW id \in Ids, NEW a \in Lines, Ctrl!Read(id, a), Ctrl!Returned(FALSE)
  PROVE  /\ (Place3 \o Place4) \o Asked(id, a) = (Place2' \o Place3') \o Place4'
         /\ IsSeq(Asked(id, a))
<1>1. SsramInv'
  BY ReadKeeps
<1>2. state = "S_IDLE" /\ a < FlashFrom /\ sram_a' = a /\ sram_adsc' = TRUE /\ sram_we' = FALSE
      /\ pendingid' = id /\ state' = "S_READ_BURST"
  BY DEF Ctrl!Read
<1>3. id # 0 /\ burst_length \in Nat \ {0, 1}
  BY BurstLength
<1>4. Place2' = Place3
  BY <1>2, LastWord
<1>5. Place4 = <<>> /\ Place4' = <<>> /\ IsSeq(Place3)
  BY <1>1, <1>2, Places, PlacesNext
<1>6. Ctrl!Stable' = Ctrl!Stable /\ Ctrl!NextA' = a
  <2>1. Ctrl!NextA' = sram_a'
    BY <1>2 DEF Ctrl!NextA
  <2> QED
    BY <1>2, <2>1, SsramQuiet
<1>7. Ctrl!Bursting' = burst_length
  BY ReadCounts
<1>8. Place3' = Coming(id, burst_length, Ctrl!Stable, a)
  BY <1>2, <1>3, <1>6, <1>7 DEF Place3
<1>9. Coming(id, burst_length, Ctrl!Stable, a) = Asked(id, a)
  <2>1. Coming(id, burst_length, Ctrl!Stable, a) = [i \in 1 .. burst_length |-> [id |-> id, data |-> Ctrl!Stable[a + i - 1]]]
    BY ComingLine
  <2>2. ASSUME NEW i \in 1 .. burst_length PROVE SsramMem[a + i - 1] = Ctrl!Stable[a + i - 1]
    <3>1. a \in Nat /\ a + burst_length <= Words /\ a + burst_length <= FlashFrom /\ Words \in Nat /\ FlashFrom \in Nat
      BY <1>2, LineFits, LineInSram, BurstLength, PortAssumption
    <3>2. a + i - 1 \in Addr /\ a + i - 1 < FlashFrom
      BY <1>3, <3>1 DEF Addr
    <3> QED
      BY <3>2 DEF SsramMem
  <2> QED
    BY <2>1, <2>2 DEF Asked
<1>10. IsSeq(Asked(id, a))
  BY <1>1, <1>8, <1>9, PlacesNext
<1>11. IsSeq(Place3 \o Asked(id, a))
  BY <1>5, <1>10, ConcatIsSeq
<1> QED
  BY <1>4, <1>5, <1>8, <1>9, <1>10, <1>11, ConcatNothing

\* A line of the Flash has as many words as any other.
LEMMA FlashCounts ==
  ASSUME NEW a \in Lines, flash_address' = 2 * a
  PROVE  FlashLeft' = burst_length
<1> DEFINE B == burst_length
           C == 2 * burst_length
           k == a \div B
<1>1. a % B = 0 /\ a \in Nat /\ B \in Nat \ {0} /\ C \in Nat \ {0} /\ C = 2 * B
  BY BurstLength, LineFits DEF Lines
<1>2. FlashLeft' = (C + 1 - (flash_address' % C)) \div 2
  BY DEF FlashLeft
<1> HIDE DEF B, C
<1>3. k \in Nat /\ a = B * k + 0
  BY <1>1, DivMod
<1> HIDE DEF k
<1>4. 2 * a = C * k + 0
  <2> DEFINE z == B * k
  <2>1. C * k = 2 * z /\ a = z + 0 /\ z \in Nat
    BY <1>1, <1>3
  <2> HIDE DEF z
  <2> QED
    BY <2>1
<1>5. (C * k + 0) % C = 0
  <2>1. 0 \in 0 .. C - 1
    BY <1>1
  <2> QED
    BY <1>1, <1>3, <2>1, DivModOf
<1>6. flash_address' % C = 0
  BY <1>4, <1>5
<1>7. (C + 1 - 0) \div 2 = B
  BY <1>1
<1> QED
  BY <1>2, <1>6, <1>7 DEF B

LEMMA ReadFlashAnswers ==
  ASSUME SsramInv, Always(FALSE), NEW id \in Ids, NEW a \in Lines, Ctrl!ReadFlash(id, a), Ctrl!Returned(FALSE)
  PROVE  /\ (Place3 \o Place4) \o Asked(id, a) = (Place2' \o Place3') \o Place4'
         /\ IsSeq(Asked(id, a))
<1>1. SsramInv'
  BY ReadFlashKeeps
<1>2. state = "S_IDLE" /\ a >= FlashFrom /\ pendingid' = 0 /\ state' = "S_READ_FLASH"
      /\ flash_id' = id /\ flash_address' = 2 * a /\ flash' = flash
  BY SsramAlways DEF Ctrl!ReadFlash
<1>3. id # 0 /\ burst_length \in Nat \ {0, 1}
  BY BurstLength
<1>4. Place2' = Place3
  BY <1>2, LastWord
<1>5. Place4 = <<>> /\ Place3' = <<>> /\ IsSeq(Place3) /\ IsSeq(Place4')
  BY <1>1, <1>2, Places, PlacesNext
<1>6. a \in Nat /\ a + burst_length <= Words /\ Words \in Nat /\ FlashFrom \in Nat
  BY LineFits, BurstLength, PortAssumption
<1>7. FlashLeft' = burst_length
  BY <1>2, FlashCounts
<1>8. Place4' = Asked(id, a)
  <2>1. flash_address' \div 2 = a
    BY <1>2, <1>6
  <2>2. ASSUME NEW i \in 1 .. burst_length PROVE SsramMem[a + i - 1] = Ctrl!FlashWord(a + i - 1)'
    <3>1. a + i - 1 \in Addr /\ ~(a + i - 1 < FlashFrom)
      BY <1>2, <1>3, <1>6 DEF Addr
    <3> QED
      BY <1>2, <3>1 DEF SsramMem, Ctrl!FlashWord
  <2>3. Place4' = [i \in 1 .. FlashLeft' |-> [id |-> id, data |-> Ctrl!FlashWord((flash_address \div 2) + i - 1)']]
    BY <1>2, <1>3 DEF Place4, Slow, FlashLeft, Ctrl!FlashWord
  <2>4. \A i \in 1 .. burst_length : Ctrl!FlashWord((flash_address \div 2) + i - 1)' = SsramMem[a + i - 1]
    BY <2>1, <2>2 DEF Ctrl!FlashWord
  <2> QED
    BY <1>7, <2>3, <2>4 DEF Asked
<1> QED
  BY <1>4, <1>5, <1>8, ConcatNothing

LEMMA StoreAnswers ==
  ASSUME SsramInv, Always(FALSE), NEW a \in Stored, NEW w \in Written, Ctrl!Store(a, w), Ctrl!Returned(FALSE)
  PROVE  /\ (Place3 \o Place4) \o <<>> = (Place2' \o Place3') \o Place4'
         /\ SsramMem' = Write(SsramMem, a, w)
<1>1. SsramInv' /\ state = "S_IDLE" /\ state' = "S_IDLE" /\ pendingid2 = 0 /\ pendingid = 0 /\ pendingid' = 0
  <2>1. a \in Addr /\ DOMAIN w \subseteq Lanes
    BY PortAssumption DEF Addr, Written
  <2> QED
    BY <2>1, StoreKeeps
<1>2. pendingid2' = 0
  BY <1>1, SsramAlways
<1>3. Place3 = <<>> /\ Place4 = <<>> /\ Place2' = <<>> /\ Place3' = <<>> /\ Place4' = <<>>
  BY <1>1, <1>2, Places, PlacesNext
<1>4. sram_a' = a /\ sram_be' = DOMAIN w /\ sram_we' = TRUE /\ \A l \in DOMAIN w : sram_dout'[l] = w[l]
  BY DEF Ctrl!Store
<1>5. ssram' = Ctrl!Stable /\ flash' = flash
  BY SsramAlways
<1>6. Ctrl!Stable' = [ssram' EXCEPT ![sram_a'] = [l \in Lanes |-> IF l \in sram_be' THEN sram_dout'[l] ELSE @[l]]]
  <2>1. (SsramInv => (sram_we =>
            Ctrl!Stable = [ssram EXCEPT ![sram_a] = [l \in Lanes |-> IF l \in sram_be THEN sram_dout[l] ELSE @[l]]]))'
    BY SsramStable, PTL
  <2> QED
    BY <1>1, <1>4, <2>1
<1>7. Ctrl!Stable' = [Ctrl!Stable EXCEPT ![a] = [l \in Lanes |-> IF l \in DOMAIN w THEN w[l] ELSE @[l]]]
  <2>1. [l \in Lanes |-> IF l \in DOMAIN w THEN sram_dout'[l] ELSE Ctrl!Stable[a][l]]
          = [l \in Lanes |-> IF l \in DOMAIN w THEN w[l] ELSE Ctrl!Stable[a][l]]
    BY <1>4
  <2> QED
    BY <1>4, <1>5, <1>6, <2>1
<1>8. a \in Addr /\ a < FlashFrom
  BY PortAssumption DEF Addr
<1>9. SsramMem' = Write(SsramMem, a, w)
  <2> DEFINE v == [l \in Lanes |-> IF l \in DOMAIN w THEN w[l] ELSE Ctrl!Stable[a][l]]
             m == Ctrl!Stable
             n == [x \in Addr |-> IF x < FlashFrom THEN m[x] ELSE Ctrl!FlashWord(x)]
  <2>1. m = [x \in Addr |-> m[x]] /\ Ctrl!Stable' = [m EXCEPT ![a] = v]
    BY <1>7, SsramStable
  <2>2. SsramMem = n /\ SsramMem[a] = m[a]
    BY <1>8 DEF SsramMem
  <2>3. Write(SsramMem, a, w) = [n EXCEPT ![a] = v]
    BY <2>2 DEF Write
  <2>4. SsramMem' = [x \in Addr |-> IF x < FlashFrom THEN Ctrl!Stable'[x] ELSE Ctrl!FlashWord(x)]
    BY <1>5 DEF SsramMem, Ctrl!FlashWord
  <2> HIDE DEF v, m
  <2>5. ASSUME NEW x \in Addr
        PROVE  (IF x < FlashFrom THEN Ctrl!Stable'[x] ELSE Ctrl!FlashWord(x)) = [n EXCEPT ![a] = v][x]
    BY <1>8, <2>1
  <2>6. [n EXCEPT ![a] = v] = [x \in Addr |-> [n EXCEPT ![a] = v][x]]
    OBVIOUS
  <2> QED
    BY <2>3, <2>4, <2>5, <2>6
<1> QED
  BY <1>3, <1>9, NothingMore

LEMMA SlowStep ==
  ASSUME NEW id, id # 0, NEW n \in Nat \ {0}, NEW a \in Nat, NEW b, NEW k, k = n - 1, k # 0 => b = a + 1
  PROVE  Splits(Slow(id, n, a), [id |-> id, data |-> Ctrl!FlashWord(a)], Slow(id, k, b))
<1> DEFINE f == Slow(id, n, a)
           g == Slow(id, n - 1, b)
           S == {f[i] : i \in 1 .. n}
<1>1. f = [i \in 1 .. n |-> f[i]] /\ g = [i \in 1 .. n - 1 |-> g[i]]
  BY DEF Slow
<1>2. ASSUME NEW i \in 1 .. n - 1
      PROVE  i + 1 \in 1 .. n /\ g[i] = f[i + 1]
  <2>1. i + 1 \in 1 .. n /\ b + i - 1 = a + (i + 1) - 1
    OBVIOUS
  <2> QED
    BY <2>1 DEF Slow
<1>3. f[1] = [id |-> id, data |-> Ctrl!FlashWord(a)]
  <2>1. a + 1 - 1 = a /\ 1 \in 1 .. n
    OBVIOUS
  <2> QED
    BY <2>1 DEF Slow
<1> HIDE DEF f, g
<1>4. f \in [1 .. n -> S] /\ g \in [1 .. n - 1 -> S]
  <2>1. f \in [1 .. n -> S]
    BY <1>1
  <2>2. ASSUME NEW i \in 1 .. n - 1 PROVE g[i] \in S
    BY <1>2
  <2> HIDE DEF S
  <2> QED
    BY <1>1, <2>1, <2>2
<1> HIDE DEF S
<1>5. f # <<>> /\ Head(f) = f[1] /\ Tail(f) = g
  BY <1>2, <1>4, FunctionHeadTail
<1> QED
  BY <1>3, <1>5 DEF Splits, f, g

\* An address in the Flash, and the next one.
LEMMA FlashAddress ==
  ASSUME NEW f \in 0 .. 2 * Words - 1
  PROVE  LET left(g) == (2 * burst_length + 1 - (g % (2 * burst_length))) \div 2
             next_f  == (f + 1) % (2 * Words)
         IN  /\ f % 2 # 1 =>
                  /\ f % (2 * burst_length) # 2 * burst_length - 1
                  /\ left(next_f) = left(f) /\ next_f \div 2 = f \div 2
             /\ f % 2 = 1 /\ f % (2 * burst_length) = 2 * burst_length - 1 => left(f) = 1
             /\ f % 2 = 1 /\ f % (2 * burst_length) # 2 * burst_length - 1 =>
                  left(next_f) = left(f) - 1 /\ next_f \div 2 = (f \div 2) + 1
<1> DEFINE B == burst_length
           C == 2 * B
           W == 2 * Words
           r == f % C
           k == f \div C
           m == Words \div B
           n == (f + 1) % W
<1>1. B \in Nat \ {0} /\ f \in Nat /\ Words \in Nat \ {0} /\ Words % B = 0
  BY BurstLength
<1>2. C \in Nat \ {0} /\ C = 2 * B /\ W \in Nat \ {0} /\ W = 2 * Words
  BY <1>1
<1> HIDE DEF B
<1>3. m \in Nat /\ Words = B * m + 0
  BY <1>1, DivMod
<1> HIDE DEF C, W
<1>4. k \in Nat /\ r \in 0 .. C - 1 /\ f = C * k + r
  <2>1. f \in Nat /\ C \in Nat \ {0}
    BY <1>1, <1>2
  <2> QED
    BY <2>1, DivMod
<1> HIDE DEF k, r, m
<1>5. f % 2 = r % 2
  <2> DEFINE z == B * k
  <2>1. z \in Nat /\ C * k = 2 * z
    BY <1>1, <1>2, <1>4
  <2> HIDE DEF z
  <2>2. f = 2 * z + r /\ r \in Nat
    BY <1>4, <2>1
  <2> QED
    BY <2>1, <2>2
\* After the last half word but one of memory comes the last.
<1>6. r # C - 1 => f + 1 < W /\ n = f + 1
  <2> SUFFICES ASSUME r # C - 1 PROVE f + 1 < W /\ n = f + 1
    OBVIOUS
  <2>1. W = C * m
    <3> DEFINE z == B * m
    <3>1. z \in Nat /\ C * m = 2 * z /\ Words = z + 0
      BY <1>1, <1>2, <1>3
    <3> HIDE DEF z
    <3> QED
      BY <1>2, <3>1
  <2>2. k < m
    <3>1. CASE m <= k
      <4>1. C * m <= C * k
        BY <1>2, <1>3, <1>4, <3>1
      <4> DEFINE x == C * m
                 y == C * k
      <4>2. x \in Nat /\ y \in Nat /\ x <= y /\ f = y + r /\ W = x /\ f < W /\ r >= 0
        BY <1>2, <1>3, <1>4, <2>1, <4>1
      <4> HIDE DEF x, y
      <4> QED
        BY <1>1, <1>4, <4>2
    <3> QED
      BY <1>3, <1>4, <3>1
  <2>3. C * (k + 1) <= C * m
    BY <1>2, <1>3, <1>4, <2>2
  <2>4. f + 1 < W
    <3> DEFINE x == C * m
               y == C * k
    <3>1. x \in Nat /\ y \in Nat /\ C * (k + 1) = y + C /\ f = y + r /\ W = x
      BY <1>2, <1>3, <1>4, <2>1
    <3>2. y + C <= x
      BY <2>3, <3>1
    <3> HIDE DEF x, y
    <3> QED
      BY <1>1, <1>2, <1>4, <3>1, <3>2
  <2>5. f + 1 \in 0 .. W - 1 /\ f + 1 \in Int
    BY <1>1, <1>2, <2>4
  <2> QED
    BY <1>2, <2>4, <2>5, ModSmall
<1>7. r # C - 1 => n % C = r + 1
  <2> SUFFICES ASSUME r # C - 1 PROVE (f + 1) % C = r + 1
    BY <1>6
  <2>1. r + 1 \in 0 .. C - 1
    BY <1>2, <1>4
  <2>2. f + 1 = C * k + (r + 1)
    <3> DEFINE y == C * k
    <3>1. y \in Nat /\ f = y + r
      BY <1>2, <1>4
    <3> HIDE DEF y
    <3>2. f + 1 = y + (r + 1)
      BY <1>4, <3>1
    <3> QED
      BY <3>2 DEF y
  <2>3. (C * k + (r + 1)) % C = r + 1
    BY <1>2, <1>4, <2>1, DivModOf
  <2> QED
    BY <2>2, <2>3
<1> HIDE DEF n
<1>8. f % 2 # 1 =>
        /\ r # C - 1
        /\ (C + 1 - (n % C)) \div 2 = (C + 1 - r) \div 2 /\ n \div 2 = f \div 2
  <2> SUFFICES ASSUME f % 2 # 1
               PROVE  /\ r # C - 1
                      /\ (C + 1 - (n % C)) \div 2 = (C + 1 - r) \div 2 /\ n \div 2 = f \div 2
    OBVIOUS
  <2>1. r % 2 = 0
    BY <1>4, <1>5
  <2>2. r # C - 1
    BY <1>1, <1>2, <1>4, <2>1
  <2>3. n % C = r + 1 /\ n = f + 1
    BY <1>6, <1>7, <2>2
  <2>4. (C + 1 - (r + 1)) \div 2 = (C + 1 - r) \div 2
    BY <1>1, <1>2, <1>4, <2>1
  <2>5. (f + 1) \div 2 = f \div 2
    BY <1>1
  <2> QED
    BY <2>2, <2>3, <2>4, <2>5
<1>9. r = C - 1 => (C + 1 - r) \div 2 = 1
  BY <1>2, <1>4
<1>10. f % 2 = 1 /\ r # C - 1 =>
         (C + 1 - (n % C)) \div 2 = ((C + 1 - r) \div 2) - 1 /\ n \div 2 = (f \div 2) + 1
  <2> SUFFICES ASSUME f % 2 = 1, r # C - 1
               PROVE  (C + 1 - (n % C)) \div 2 = ((C + 1 - r) \div 2) - 1 /\ n \div 2 = (f \div 2) + 1
    OBVIOUS
  <2>1. r % 2 = 1 /\ n % C = r + 1 /\ n = f + 1
    BY <1>5, <1>6, <1>7
  <2>2. (C + 1 - (r + 1)) \div 2 = ((C + 1 - r) \div 2) - 1
    BY <1>1, <1>2, <1>4, <2>1
  <2>3. (f + 1) \div 2 = (f \div 2) + 1
    BY <1>1
  <2> QED
    BY <2>1, <2>2, <2>3
<1> QED
  BY <1>8, <1>9, <1>10 DEF C, B, r, n, W

LEMMA FlashReadAnswers ==
  ASSUME SsramInv, Always(FALSE), Ctrl!FlashRead(FALSE)
  PROVE  \/ SsramGiven' = None /\ SsramOwed' = SsramOwed
         \/ Splits(SsramOwed, SsramGiven', SsramOwed')
<1>1. SsramInv' /\ pendingid = 0 /\ pendingid2 = 0 /\ readdataid = 0 /\ rst = 0 /\ flash_id \in Ids
      /\ flash_address \in 0 .. 2 * Words - 1 /\ flash_id # 0
  BY FlashReadKeeps, BurstLength
<1>2. pendingid' = 0 /\ pendingid2' = 0 /\ readdataid' = 0 /\ rst' = 0 /\ flash_id' = flash_id /\ flash' = flash
      /\ flash_address' = (flash_address + 1) % (2 * Words)
      /\ state = "S_READ_FLASH"
  BY <1>1, SsramAlways DEF Ctrl!FlashRead, Always
<1>3. Place1 = <<>> /\ Place2 = <<>> /\ Place3 = <<>> /\ IsSeq(Place4)
      /\ Place1' = <<>> /\ Place2' = <<>> /\ Place3' = <<>> /\ IsSeq(Place4')
  BY <1>1, <1>2, Places, PlacesNext
<1>4. SsramOwed = Place4 /\ SsramOwed' = Place4'
  BY <1>1, <1>2, <1>3, NothingMore, ConcatNothing, PipelineIs, PipelineNext DEF SsramOwed
<1>5. Place4 = Slow(flash_id, FlashLeft, flash_address \div 2)
  BY <1>2 DEF Place4, FlashLeft
<1>6. state' = "S_READ_FLASH" => Place4' = Slow(flash_id, FlashLeft', flash_address' \div 2)
  BY <1>2 DEF Place4, FlashLeft, Slow, Ctrl!FlashWord
<1>7. FlashLeft \in Nat \ {0} /\ flash_address \div 2 \in Nat
  BY <1>1, FlashLeftIs DEF FlashLeft
<1>8. state' = IF flash_address % (2 * burst_length) = 2 * burst_length - 1 THEN "S_IDLE" ELSE "S_READ_FLASH"
  BY <1>2, SsramConstants DEF Ctrl!FlashRead
<1>9. mem_readdataid' = IF flash_address % 2 = 1 THEN flash_id ELSE 0
  BY DEF Ctrl!FlashRead
<1>10. CASE flash_address % 2 # 1
  <2>1. flash_address % (2 * burst_length) # 2 * burst_length - 1
        /\ FlashLeft' = FlashLeft /\ flash_address' \div 2 = flash_address \div 2
    BY <1>1, <1>2, <1>10, FlashAddress DEF FlashLeft
  <2>2. SsramOwed' = SsramOwed
    BY <1>4, <1>5, <1>6, <1>8, <2>1
  <2> QED
    BY <1>9, <1>10, <2>2 DEF SsramGiven
<1>11. CASE flash_address % 2 = 1
  <2> DEFINE a == flash_address \div 2
             k == FlashLeft - 1
             b == flash_address' \div 2
  <2>1. SsramGiven' = [id |-> flash_id, data |-> Ctrl!FlashWord(a)]
    <3>1. mem_readdata' = [l \in Lanes |-> IF l = High THEN flash_data ELSE flash[flash_address]]
      BY SsramConstants DEF Ctrl!FlashRead, Ctrl!High, High
    <3>2. flash_data = flash[flash_address - 1]
      BY <1>2, <1>11 DEF SsramInv, FlashInv
    <3>3. a \in Nat /\ 2 * a + 1 = flash_address
      BY <1>1, <1>11
    <3>4. Ctrl!FlashWord(a) = [l \in Lanes |-> flash[2 * a + 1 - l]]
      BY SsramConstants DEF Ctrl!FlashWord
    <3> HIDE DEF a
    <3>5. \A l \in Lanes : (IF l = High THEN flash_data ELSE flash[flash_address]) = flash[2 * a + 1 - l]
      <4>1. 2 * a + 1 - 0 = flash_address /\ 2 * a + 1 - 1 = flash_address - 1
        BY <1>1, <3>3
      <4> QED
        BY <3>2, <4>1 DEF Lanes, Low, High
    <3>6. mem_readdata' = Ctrl!FlashWord(a)
      BY <3>1, <3>4, <3>5
    <3> QED
      BY <1>1, <1>2, <1>9, <1>11, <3>6 DEF SsramGiven
  <2>2. k # 0 => flash_address % (2 * burst_length) # 2 * burst_length - 1
    BY <1>1, <1>11, FlashAddress DEF FlashLeft
  <2>3. flash_address % (2 * burst_length) # 2 * burst_length - 1 => FlashLeft' = k /\ b = a + 1
    BY <1>1, <1>2, <1>11, FlashAddress DEF FlashLeft
  <2>4. k = FlashLeft - 1 /\ k \in Nat
    BY <1>7
  <2> HIDE DEF a, k, b
  <2>5. Splits(Slow(flash_id, FlashLeft, a), [id |-> flash_id, data |-> Ctrl!FlashWord(a)], Slow(flash_id, k, b))
    BY <1>1, <1>7, <2>2, <2>3, <2>4, SlowStep DEF a
  <2>6. Place4' = Slow(flash_id, k, b)
    <3>1. CASE flash_address % (2 * burst_length) # 2 * burst_length - 1
      BY <1>6, <1>8, <2>3, <3>1 DEF b
    <3>2. CASE flash_address % (2 * burst_length) = 2 * burst_length - 1
      <4>1. k = 0 /\ state' = "S_IDLE"
        BY <1>8, <2>2, <3>2
      <4>2. Place4' = <<>>
        BY <1>1, <4>1, PlacesNext
      <4>3. Slow(flash_id, 0, b) \in [1 .. 0 -> {}]
        BY <1>1 DEF Slow
      <4>4. Slow(flash_id, 0, b) = <<>>
        BY <4>3, FunctionSeq, EmptySeq
      <4> QED
        BY <4>1, <4>2, <4>4
    <3> QED
      BY <3>1, <3>2
  <2> QED
    BY <1>4, <1>5, <2>1, <2>5, <2>6 DEF a
<1> QED
  BY <1>10, <1>11

\* A step of the controller keeps the invariant, whoever asks.
LEMMA SsramKeeps ==
  ASSUME SsramInv, NEW reset \in BOOLEAN, Always(reset), NEW req,
         req.op = "read" => req.id \in Ids /\ req.a \in Lines,
         req.op = "write" => req.a \in Addr /\ DOMAIN req.w \subseteq Lanes,
         reset => req.op = "none",
         Ctrl!Clock(req, reset)
  PROVE  SsramInv'
<1>1. CASE Ctrl!FlashRead(reset)
  BY <1>1, FlashReadKeeps
<1>2. CASE Ctrl!Returned(reset) /\ (Ctrl!Idle \/ Ctrl!ReadBurst(reset) \/ Ctrl!FlashWait(reset))
  BY <1>2, IdleKeeps, ReadBurstKeeps, FlashWaitKeeps
<1>3. CASE Ctrl!Returned(reset) /\ req.op = "read" /\ (Ctrl!ReadFlash(req.id, req.a) \/ Ctrl!Read(req.id, req.a))
  <2>1. reset = FALSE
    BY <1>3
  <2> QED
    BY <1>3, <2>1, ReadKeeps, ReadFlashKeeps
<1>4. CASE Ctrl!Returned(reset) /\ req.op = "write" /\ Ctrl!Store(req.a, req.w)
  <2>1. reset = FALSE
    BY <1>4
  <2> QED
    BY <1>4, <2>1, StoreKeeps
<1> QED
  BY <1>1, <1>2, <1>3, <1>4 DEF Ctrl!Clock

LEMMA SsramClock ==
  ASSUME SsramInv, NEW req \in Requests, Ctrl!MayLeaveReset, Ctrl!Clock(req, FALSE)
  PROVE  SsramInv' /\ Ctrl!Memory!Next
<1> USE DEF SsramOwed, SsramGiven, SsramMem
<1>1. Always(FALSE)
  BY DEF Always, Ctrl!Clock, Ctrl!MayLeaveReset
<1>2. ~(rst' > 0)
  BY <1>1 DEF Always
<1>3. ASSUME NEW id \in Ids, NEW a \in Lines, Ctrl!ReadFlash(id, a) \/ Ctrl!Read(id, a), Ctrl!Returned(FALSE)
      PROVE  SsramInv' /\ Ctrl!Memory!Next
  <2>1. SsramInv'
    BY <1>1, <1>3, ReadKeeps, ReadFlashKeeps
  <2>2. IsSeq(Asked(id, a)) /\ (Place3 \o Place4) \o Asked(id, a) = (Place2' \o Place3') \o Place4'
    BY <1>1, <1>3, ReadAnswers, ReadFlashAnswers
  <2>3. \/ SsramGiven' = None /\ SsramOwed' = SsramOwed \o Asked(id, a)
        \/ Splits(SsramOwed \o Asked(id, a), SsramGiven', SsramOwed')
    BY <1>1, <1>3, <2>1, <2>2, SsramAnswers
  <2>4. SsramMem' = SsramMem
    <3>1. sram_we' = FALSE
      BY <1>3 DEF Ctrl!Read, Ctrl!ReadFlash, Ctrl!NoStrobe
    <3> QED
      BY <1>1, <3>1, SsramQuiet
  <2>5. Asked(id, a) = Ctrl!Memory!Burst(id, a)
    BY SsramConstants, Zenon DEF Asked, Ctrl!Memory!Burst, Ctrl!Memory!burst_length, burst_length
  <2>6. Ctrl!Memory!Read(id, a)
    BY <2>3, <2>4, <2>5, Zenon DEF Ctrl!Memory!Read, Ctrl!Memory!Answer, Splits, Ctrl!Addr, Addr
  <2>7. a \in Ctrl!Memory!Lines
    BY DEF Lines, Ctrl!Memory!Lines, Addr, Ctrl!Memory!Addr, burst_length, Ctrl!Memory!burst_length
  <2> QED
    BY <1>2, <2>1, <2>6, <2>7, Zenon DEF Ctrl!Memory!Next
<1>4. ASSUME NEW a \in Stored, NEW w \in Written, Ctrl!Store(a, w), Ctrl!Returned(FALSE)
      PROVE  SsramInv' /\ Ctrl!Memory!Next
  <2>1. SsramInv'
    <3>1. a \in Addr /\ DOMAIN w \subseteq Lanes
      BY PortAssumption DEF Addr, Written
    <3> QED
      BY <1>1, <1>4, <3>1, StoreKeeps
  <2>2. (Place3 \o Place4) \o <<>> = (Place2' \o Place3') \o Place4' /\ SsramMem' = Write(SsramMem, a, w)
    BY <1>1, <1>4, StoreAnswers
  <2>3. \/ SsramGiven' = None /\ SsramOwed' = SsramOwed \o <<>>
        \/ Splits(SsramOwed \o <<>>, SsramGiven', SsramOwed')
    BY <1>1, <1>4, <2>1, <2>2, EmptyIsSeq, SsramAnswers
  <2>4. Ctrl!Memory!Store(a, w)
    BY <2>2, <2>3, Zenon DEF Ctrl!Memory!Store, Ctrl!Memory!Answer, Splits, Ctrl!Memory!Write,
      Write, Ctrl!Addr, Addr, Ctrl!Memory!Lanes, Lanes, Ctrl!Memory!Low, Low, Ctrl!Memory!High, High
  <2>5. w \in Ctrl!Memory!Written
    BY Zenon DEF Written, Ctrl!Memory!Written, Lanes, Ctrl!Memory!Lanes, Low, Ctrl!Memory!Low,
      High, Ctrl!Memory!High
  <2> QED
    BY <1>2, <2>1, <2>4, <2>5, Zenon DEF Ctrl!Memory!Next
<1>5. ASSUME Ctrl!Idle \/ Ctrl!ReadBurst(FALSE) \/ Ctrl!FlashWait(FALSE), Ctrl!Returned(FALSE)
      PROVE  SsramInv' /\ Ctrl!Memory!Next
  <2>1. SsramInv'
    BY <1>1, <1>5, IdleKeeps, ReadBurstKeeps, FlashWaitKeeps
  <2>2. (Place3 \o Place4) \o <<>> = (Place2' \o Place3') \o Place4'
    BY <1>1, <1>5, IdleAnswers, ReadBurstAnswers, FlashWaitAnswers
  <2>3. \/ SsramGiven' = None /\ SsramOwed' = SsramOwed \o <<>>
        \/ Splits(SsramOwed \o <<>>, SsramGiven', SsramOwed')
    BY <1>1, <1>5, <2>1, <2>2, EmptyIsSeq, SsramAnswers
  <2>4. SsramMem' = SsramMem
    <3>1. sram_we' = FALSE
      BY <1>5 DEF Ctrl!Idle, Ctrl!ReadBurst, Ctrl!FlashWait, Ctrl!NoStrobe
    <3> QED
      BY <1>1, <3>1, SsramQuiet
  <2>5. Ctrl!Memory!Wait
    BY <2>3, <2>4, Zenon DEF Ctrl!Memory!Wait, Ctrl!Memory!Answer, Splits, Ctrl!Addr, Addr
  <2> QED
    BY <1>2, <2>1, <2>5, Zenon DEF Ctrl!Memory!Next
<1>6. CASE Ctrl!FlashRead(FALSE)
  <2>1. SsramInv'
    BY <1>1, <1>6, FlashReadKeeps
  <2>2. (SsramGiven' = None /\ SsramOwed' = SsramOwed) \/ Splits(SsramOwed, SsramGiven', SsramOwed')
    BY <1>1, <1>6, FlashReadAnswers
  <2>3. SsramMem' = SsramMem
    <3>1. sram_we' = FALSE
      BY <1>6 DEF Ctrl!FlashRead, Ctrl!NoStrobe
    <3> QED
      BY <1>1, <3>1, SsramQuiet
  <2>4. SsramOwed \o <<>> = SsramOwed
    BY OwedIsSeq, ConcatNothing
  <2>5. Ctrl!Memory!Wait
    BY <2>2, <2>3, <2>4, Zenon DEF Ctrl!Memory!Wait, Ctrl!Memory!Answer, Splits, Ctrl!Addr, Addr
  <2> QED
    BY <1>2, <2>1, <2>5, Zenon DEF Ctrl!Memory!Next
<1> QED
  BY <1>3, <1>4, <1>5, <1>6, RequestHas, Zenon DEF Ctrl!Clock

\* A reset forgets the reads that are under way.
LEMMA SsramReset ==
  ASSUME SsramInv, Ctrl!Clock(NoRequest, TRUE)
  PROVE  SsramInv' /\ Ctrl!Memory!Next
<1> USE DEF SsramOwed, SsramGiven, SsramMem
<1>1. Always(TRUE)
  BY DEF Always, Ctrl!Clock
<1>2. rst' > 0
  BY <1>1, SsramAlways
<1>3. NoRequest.op = "none"
  BY DEF NoRequest
<1>4. SsramInv'
  BY <1>1, <1>3, SsramKeeps, Zenon
<1>5. SsramOwed' = <<>> /\ SsramGiven' = None
  BY <1>2
<1>6. SsramMem' = SsramMem
  <2>1. sram_we' = FALSE
    BY <1>3 DEF Ctrl!Clock, Ctrl!Idle, Ctrl!ReadBurst, Ctrl!FlashWait, Ctrl!FlashRead, Ctrl!NoStrobe
  <2> QED
    BY <1>1, <2>1, SsramQuiet
<1>7. Ctrl!Memory!Reset
  BY <1>5, <1>6, Zenon DEF Ctrl!Memory!Reset, Ctrl!Addr, Addr
<1> QED
  BY <1>2, <1>4, <1>7, Zenon DEF Ctrl!Memory!Next

LEMMA SsramRefines == SsramInv /\ Ctrl!Next => SsramInv' /\ Ctrl!Memory!Next
<1>1. Ctrl!Requests = Requests /\ Ctrl!NoRequest = NoRequest
  BY SsramConstants
<1> QED
  BY <1>1, SsramClock, SsramReset, Zenon DEF Ctrl!Next

LEMMA SsramStarts == Ctrl!Init => SsramInv /\ Ctrl!Memory!Init
<1> SUFFICES ASSUME Ctrl!Init PROVE SsramInv /\ Ctrl!Memory!Init
  OBVIOUS
<1> USE DEF SsramOwed, SsramGiven, SsramMem
<1>1. ssram = Content /\ Ctrl!Stable = Content
  BY SsramConstants DEF Ctrl!Init, Ctrl!Stable
<1>2. SsramTypes
  <2>1. 0 \in Addr /\ 0 \in 0 .. 2 * burst_length - 1 /\ 0 \in 0 .. 2 * Words - 1 /\ 0 \in 0 .. ResetCycles
    BY BurstLength, VideoAssumption DEF Addr
  <2>2. ssram = [x \in Addr |-> ssram[x]]
    BY <1>1 DEF Content
  <2>3. 0 \in 0 .. 255
    OBVIOUS
  <2> QED
    BY <2>1, <2>2, <2>3 DEF Ctrl!Init, SsramTypes
<1>3. SsramInv
  BY <1>2 DEF Ctrl!Init, SsramInv, FlashInv
<1>4. SsramOwed = <<>>
  <2>1. Place1 = <<>> /\ Place2 = <<>> /\ Place3 = <<>> /\ Place4 = <<>>
    BY <1>3, Places DEF Ctrl!Init
  <2> QED
    BY <2>1, PipelineIs, NothingMore
<1>5. SsramMem = Content
  <2>1. ASSUME NEW a \in Addr, ~(a < FlashFrom) PROVE Ctrl!FlashWord(a) = Content[a]
    <3>1. a \in Nat /\ a >= FlashFrom /\ FlashFrom \in Nat /\ a <= Words - 1 /\ Words \in Nat
      BY <2>1, BurstLength, PortAssumption DEF Addr
    <3>2. ASSUME NEW l \in Lanes
          PROVE  flash[2 * a + 1 - l] = Content[a][l]
      <4>1. l = 0 \/ l = 1
        BY DEF Lanes, Low, High
      <4>2. 2 * a + 1 - l \in 2 * FlashFrom .. 2 * Words - 1 /\ (2 * a + 1 - l) \div 2 = a
            /\ 1 - ((2 * a + 1 - l) % 2) = l
        BY <3>1, <4>1
      <4>3. flash[2 * a + 1 - l] = Content[(2 * a + 1 - l) \div 2][1 - ((2 * a + 1 - l) % 2)]
        BY <4>2, SsramConstants DEF Ctrl!Init
      <4> QED
        BY <4>2, <4>3
    <3>3. Content[a] = [l \in Lanes |-> Content[a][l]]
      BY <2>1 DEF Content
    <3>4. Ctrl!FlashWord(a) = [l \in Lanes |-> flash[2 * a + 1 - l]]
      BY SsramConstants DEF Ctrl!FlashWord
    <3> QED
      BY <3>2, <3>3, <3>4
  <2>2. Content = [a \in Addr |-> Content[a]]
    BY DEF Content
  <2> QED
    BY <1>1, <2>1, <2>2
<1>6. Content = Ctrl!Memory!Content
  BY DEF Content, Ctrl!Memory!Content, Addr, Ctrl!Memory!Addr, Lanes,
    Ctrl!Memory!Lanes, Low, Ctrl!Memory!Low, High, Ctrl!Memory!High
<1>7. SsramGiven = None /\ (rst > 0) = FALSE
  BY DEF Ctrl!Init
<1> QED
  BY <1>3, <1>4, <1>5, <1>6, <1>7, Zenon DEF Ctrl!Memory!Init, Ctrl!Addr, Addr

LEMMA SsramStays == UNCHANGED Ctrl!vars => UNCHANGED Ctrl!Memory!vars
  BY DEF Ctrl!vars, Ctrl!ids, Ctrl!pins, Ctrl!wait, Ctrl!Memory!vars, Ctrl!InPipeline, Ctrl!Owed, Ctrl!Bursting,
    Ctrl!Stable, Ctrl!NextA, Ctrl!Advanced, Ctrl!FlashWord, Ctrl!sram_dq

----------------------------------------------------------------------------
(* The controllers side by side.                                           *)

\* Of blockram.v: a write takes effect at once, and a read is answered by the
\* words of its line, in order, each as it was when the read was taken.
THEOREM BlockramRefines == MCSpec => BlockramBursts
<1> DEFINE Inv == part = "blockram" => BlockInv
<1>1. MCInit => Inv /\ (part = "blockram" => Block!Memory!Init)
  BY BlockStarts DEF MCInit
<1>2. Inv /\ [MCNext]_all => Inv' /\ [part = "blockram" => Block!Memory!Next]_(Block!Memory!vars)
  <2> SUFFICES ASSUME Inv, [MCNext]_all
               PROVE  Inv' /\ [part = "blockram" => Block!Memory!Next]_(Block!Memory!vars)
    OBVIOUS
  <2>1. part' = part
    BY DEF MCNext, all
  <2>2. CASE part # "blockram"
    BY <2>1, <2>2
  <2>3. CASE part = "blockram" /\ Block!Next
    BY <2>1, <2>3, BlockRefines
  <2>4. CASE part = "blockram" /\ UNCHANGED all
    <3>1. UNCHANGED <<ram, rddata, cnt, read_address, mem_readdataid>>
      BY <2>4 DEF all, block, vars, ctrl
    <3>2. Inv'
      BY <2>4, <3>1 DEF BlockInv, Block!mem_waitrequest
    <3> QED
      BY <3>1, <3>2, BlockStays
  <2> QED
    BY <2>2, <2>3, <2>4 DEF MCNext
<1> QED
  BY <1>1, <1>2, PTL DEF MCSpec, BlockramBursts

\* The same of sram_ctrl.v, whether or not the SRAM needs a wait state: the
\* write strobe outlasts the request, but no read sees the word without it.
THEOREM AsyncSramRefines == MCSpec => SramBursts
<1> DEFINE Inv == part = "sram" => SramInv
<1>1. MCInit => Inv /\ (part = "sram" => Sram!Memory!Init)
  BY SramStarts DEF MCInit
<1>2. Inv /\ [MCNext]_all => Inv' /\ [part = "sram" => Sram!Memory!Next]_(Sram!Memory!vars)
  <2> SUFFICES ASSUME Inv, [MCNext]_all
               PROVE  Inv' /\ [part = "sram" => Sram!Memory!Next]_(Sram!Memory!vars)
    OBVIOUS
  <2>1. part' = part
    BY DEF MCNext, all
  <2>2. CASE part # "sram"
    BY <2>1, <2>2
  <2>3. CASE part = "sram" /\ Sram!Next
    BY <2>1, <2>3, SramRefines
  <2>4. CASE part = "sram" /\ UNCHANGED all
    <3>1. UNCHANGED <<part, async, need_wait, common, cnt, mem_readdataid>>
      BY <2>4 DEF all, vars, ctrl, common
    <3>2. Inv'
      BY <2>4, <3>1 DEF SramInv, Sram!Bursting, async, common
    <3> QED
      BY <3>1, <3>2, SramStays
  <2> QED
    BY <2>2, <2>3, <2>4 DEF MCNext
<1> QED
  BY <1>1, <1>2, PTL DEF MCSpec, SramBursts

\* The same of sram16_ctrl.v, which fetches and stores a word in two halves.
THEOREM HalfWordsRefine == MCSpec => Sram16Bursts
<1> DEFINE Inv == part = "sram16" => Sram16Inv
<1>1. MCInit => Inv /\ (part = "sram16" => Sram16!Memory!Init)
  BY Sram16Starts DEF MCInit
<1>2. Inv /\ [MCNext]_all => Inv' /\ [part = "sram16" => Sram16!Memory!Next]_(Sram16!Memory!vars)
  <2> SUFFICES ASSUME Inv, [MCNext]_all
               PROVE  Inv' /\ [part = "sram16" => Sram16!Memory!Next]_(Sram16!Memory!vars)
    OBVIOUS
  <2>1. part' = part
    BY DEF MCNext, all
  <2>2. CASE part # "sram16"
    BY <2>1, <2>2
  <2>3. CASE part = "sram16" /\ Sram16!Next
    BY <2>1, <2>3, Sram16Refines
  <2>4. CASE part = "sram16" /\ UNCHANGED all
    <3>1. UNCHANGED <<part, async, halves, common, cnt, mem_readdataid>>
      BY <2>4 DEF all, vars, ctrl, common
    <3>2. Inv'
      BY <2>4, <3>1 DEF Sram16Inv, Sram16!Bursting, async, halves, common
    <3> QED
      BY <3>1, <3>2, Sram16Stays
  <2> QED
    BY <2>2, <2>3, <2>4 DEF MCNext
<1> QED
  BY <1>1, <1>2, PTL DEF MCSpec, Sram16Bursts

\* The same of ssram_ctrl.v, whose reads overlap in the pipeline of the SRAM
\* and in which the Flash is read too: answers come in the order of the
\* requests, and none of them after a reset.
THEOREM PipelinedSramRefines == MCSpec => SsramBursts
<1> DEFINE Inv == part = "ssram" => SsramInv
<1>1. MCInit => Inv /\ (part = "ssram" => Ctrl!Memory!Init)
  BY SsramStarts DEF MCInit
<1>2. Inv /\ [MCNext]_all => Inv' /\ [part = "ssram" => Ctrl!Memory!Next]_(Ctrl!Memory!vars)
  <2> SUFFICES ASSUME Inv, [MCNext]_all
               PROVE  Inv' /\ [part = "ssram" => Ctrl!Memory!Next]_(Ctrl!Memory!vars)
    OBVIOUS
  <2>1. part' = part
    BY DEF MCNext, all
  <2>2. CASE part # "ssram"
    BY <2>1, <2>2
  <2>3. CASE part = "ssram" /\ Ctrl!Next
    BY <2>1, <2>3, SsramRefines
  <2>4. CASE part = "ssram" /\ UNCHANGED all
    <3>1. UNCHANGED Ctrl!vars
      BY <2>4 DEF all, vars, ctrl, Ctrl!vars, Ctrl!ids, Ctrl!pins, Ctrl!wait
    <3>2. Inv'
      BY <2>4, <3>1 DEF SsramInv, SsramTypes, FlashInv, Ctrl!vars, Ctrl!ids, Ctrl!pins, Ctrl!wait
    <3> QED
      BY <3>1, <3>2, SsramStays
  <2> QED
    BY <2>2, <2>3, <2>4 DEF MCNext
<1> QED
  BY <1>1, <1>2, PTL DEF MCSpec, SsramBursts

----------------------------------------------------------------------------
(* Who is owed how many words.                                             *)

\* The words that are on their way to id, the one at the port included.
OnTheWay(id) ==
  (IF mem_readdataid = id THEN 1 ELSE 0)
    + (IF readdataid = id THEN 1 ELSE 0)
    + (IF pendingid2 = id THEN 1 ELSE 0)
    + (IF pendingid = id THEN Ctrl!Bursting ELSE 0)
    + (IF state = "S_READ_FLASH" /\ flash_id = id THEN FlashLeft ELSE 0)

LEMMA OnTheWayNat ==
  ASSUME SsramInv, NEW id
  PROVE  /\ OnTheWay(id) \in Nat
         /\ mem_readdataid = id => OnTheWay(id) > 0
         /\ state = "S_IDLE" => OnTheWay(id) <= 4
<1>1. FlashLeft \in Nat
  <2>1. flash_address \in Nat
    BY DEF SsramInv, SsramTypes
  <2> QED
    BY <2>1, FlashLeftIs DEF FlashLeft
<1>2. Ctrl!Bursting \in Nat /\ (state = "S_IDLE" => Ctrl!Bursting = 1)
  BY BurstingCount
<1> QED
  BY <1>1, <1>2 DEF OnTheWay

\* In each cycle the word at the port comes off, and a burst comes to it if a
\* read is taken.
LEMMA Accounts ==
  ASSUME SsramInv, rst = 0, NEW req,
         req.op = "read" => req.id \in Ids /\ req.a \in Lines,
         req.op = "write" => req.a \in Addr /\ DOMAIN req.w \subseteq Lanes,
         Ctrl!Clock(req, FALSE), NEW id \in Ids
  PROVE  /\ SsramInv' /\ rst' = 0
         /\ OnTheWay(id)' = OnTheWay(id) - (IF mem_readdataid = id THEN 1 ELSE 0)
              + (IF state = "S_IDLE" /\ req.op = "read" /\ req.id = id THEN burst_length ELSE 0)
<1>1. Always(FALSE) /\ rst' = 0 /\ burst_length \in Nat \ {0} /\ id # 0
  BY BurstLength DEF Always, Ctrl!Clock
<1>2. SsramInv'
  BY <1>1, SsramKeeps
<1>3. readdataid' = pendingid2 /\ pendingid2' = pendingid
  BY <1>1, SsramAlways
<1>4. FlashLeft \in Nat \ {0} /\ Ctrl!Bursting \in Nat \ {0} /\ (state # "S_READ_BURST" => Ctrl!Bursting = 1)
  <2>1. flash_address \in Nat
    BY DEF SsramInv, SsramTypes
  <2> QED
    BY <2>1, FlashLeftIs, BurstingCount DEF FlashLeft
<1> DEFINE More == IF state = "S_IDLE" /\ req.op = "read" /\ req.id = id THEN burst_length ELSE 0
<1>5. ASSUME mem_readdataid' = readdataid,
             (IF pendingid = id THEN 1 ELSE 0)
               + (IF pendingid' = id THEN Ctrl!Bursting' ELSE 0)
               + (IF state' = "S_READ_FLASH" /\ flash_id' = id THEN FlashLeft' ELSE 0)
             = (IF pendingid = id THEN Ctrl!Bursting ELSE 0)
               + (IF state = "S_READ_FLASH" /\ flash_id = id THEN FlashLeft ELSE 0)
               + More,
             Ctrl!Bursting' \in Nat, FlashLeft' \in Nat
      PROVE  OnTheWay(id)' = OnTheWay(id) - (IF mem_readdataid = id THEN 1 ELSE 0) + More
  <2> DEFINE x == (IF pendingid' = id THEN Ctrl!Bursting' ELSE 0)
             y == (IF state' = "S_READ_FLASH" /\ flash_id' = id THEN FlashLeft' ELSE 0)
             u == (IF pendingid = id THEN Ctrl!Bursting ELSE 0)
             v == (IF state = "S_READ_FLASH" /\ flash_id = id THEN FlashLeft ELSE 0)
             q == IF pendingid = id THEN 1 ELSE 0
             r == IF pendingid2 = id THEN 1 ELSE 0
             s == IF readdataid = id THEN 1 ELSE 0
             m == IF mem_readdataid = id THEN 1 ELSE 0
  <2>1. x \in Nat /\ y \in Nat /\ u \in Nat /\ v \in Nat /\ q \in Nat /\ r \in Nat /\ s \in Nat
        /\ m \in Nat /\ More \in Nat
    BY <1>1, <1>4, <1>5
  <2>2. q + x + y = u + v + More
    BY <1>5
  <2>3. OnTheWay(id)' = s + r + q + x + y
    BY <1>3, <1>5 DEF OnTheWay
  <2>4. OnTheWay(id) = m + s + r + u + v
    BY DEF OnTheWay
  <2> HIDE DEF x, y, u, v, q, r, s, m, More
  <2>5. OnTheWay(id)' = OnTheWay(id) - m + More
    BY <2>1, <2>2, <2>3, <2>4
  <2> QED
    BY <2>5 DEF m
<1>6. Ctrl!Bursting' \in Nat \ {0} /\ FlashLeft' \in Nat \ {0} /\ (state' # "S_READ_BURST" => Ctrl!Bursting' = 1)
  <2>1. flash_address' \in Nat
    BY <1>2 DEF SsramInv, SsramTypes
  <2>2. (SsramInv => Ctrl!Bursting \in Nat \ {0} /\ (state # "S_READ_BURST" => Ctrl!Bursting = 1))'
    BY BurstingCount, PTL
  <2>3. FlashLeft' = (2 * burst_length + 1 - (flash_address' % (2 * burst_length))) \div 2
    BY DEF FlashLeft
  <2> QED
    BY <1>2, <2>1, <2>2, <2>3, FlashLeftIs
<1>7. CASE Ctrl!Idle /\ Ctrl!Returned(FALSE) /\ req.op # "read"
  <2>1. pendingid' = 0 /\ state' = "S_IDLE" /\ state = "S_IDLE" /\ mem_readdataid' = readdataid /\ More = 0
    BY <1>7 DEF Ctrl!Idle, Ctrl!Returned
  <2> QED
    BY <1>1, <1>2, <1>4, <1>5, <1>6, <2>1
<1>8. CASE Ctrl!ReadBurst(FALSE) /\ Ctrl!Returned(FALSE)
  <2>1. pendingid' = pendingid /\ state = "S_READ_BURST" /\ state' # "S_READ_FLASH" /\ mem_readdataid' = readdataid
        /\ More = 0
    BY <1>8 DEF Ctrl!ReadBurst, Ctrl!Returned
  <2>2. Ctrl!Bursting' = Ctrl!Bursting - 1
    BY <1>1, <1>8, ReadBurstCounts
  <2> QED
    BY <1>1, <1>2, <1>4, <1>5, <1>6, <2>1, <2>2
<1>9. CASE Ctrl!FlashWait(FALSE) /\ Ctrl!Returned(FALSE)
  <2>1. UNCHANGED <<pendingid, flash_id, flash_address>> /\ state = "S_READ_FLASH" /\ state' = "S_READ_FLASH"
        /\ mem_readdataid' = readdataid /\ More = 0
    BY <1>9 DEF Ctrl!FlashWait, Ctrl!Returned
  <2>2. pendingid = 0 /\ FlashLeft' = FlashLeft
    BY <2>1 DEF SsramInv, FlashInv, FlashLeft
  <2> QED
    BY <1>1, <1>2, <1>4, <1>5, <1>6, <2>1, <2>2
<1>10. CASE req.op = "read" /\ Ctrl!Read(req.id, req.a) /\ Ctrl!Returned(FALSE)
  <2>1. pendingid' = req.id /\ state = "S_IDLE" /\ state' = "S_READ_BURST" /\ mem_readdataid' = readdataid
    BY <1>10 DEF Ctrl!Read, Ctrl!Returned
  <2>2. Ctrl!Bursting' = burst_length
    BY <1>1, <1>10, ReadCounts
  <2>3. More = IF req.id = id THEN burst_length ELSE 0
    BY <1>10, <2>1
  <2> QED
    BY <1>1, <1>2, <1>4, <1>5, <1>6, <2>1, <2>2, <2>3
<1>11. CASE req.op = "read" /\ Ctrl!ReadFlash(req.id, req.a) /\ Ctrl!Returned(FALSE)
  <2>1. pendingid' = 0 /\ flash_id' = req.id /\ state = "S_IDLE" /\ state' = "S_READ_FLASH"
        /\ mem_readdataid' = readdataid /\ flash_address' = 2 * req.a
    BY <1>11 DEF Ctrl!ReadFlash, Ctrl!Returned
  <2>2. FlashLeft' = burst_length
    BY <1>11, <2>1, FlashCounts
  <2>3. More = IF req.id = id THEN burst_length ELSE 0
    BY <1>11, <2>1
  <2> QED
    BY <1>1, <1>2, <1>4, <1>5, <1>6, <2>1, <2>2, <2>3
<1>12. CASE req.op = "write" /\ Ctrl!Store(req.a, req.w) /\ Ctrl!Returned(FALSE)
  <2>1. pendingid' = 0 /\ state' = "S_IDLE" /\ state = "S_IDLE" /\ mem_readdataid' = readdataid /\ More = 0
        /\ pendingid = 0
    BY <1>1, <1>12, StoreKeeps DEF Ctrl!Returned
  <2> QED
    BY <1>1, <1>2, <1>4, <1>5, <1>6, <2>1
<1>13. CASE Ctrl!FlashRead(FALSE)
  <2>1. pendingid = 0 /\ pendingid2 = 0 /\ readdataid = 0 /\ flash_id \in Ids /\ flash_address \in 0 .. 2 * Words - 1
    BY <1>1, <1>13, FlashReadKeeps
  <2>2. pendingid' = 0 /\ flash_id' = flash_id /\ state = "S_READ_FLASH"
        /\ mem_readdataid' = (IF flash_address % 2 = 1 THEN flash_id ELSE 0)
        /\ flash_address' = (flash_address + 1) % (2 * Words)
        /\ state' = IF flash_address % (2 * burst_length) = 2 * burst_length - 1 THEN "S_IDLE" ELSE "S_READ_FLASH"
    BY <1>13, <2>1, SsramConstants DEF Ctrl!FlashRead
  <2>3. More = 0
    BY <2>2
  <2>4. (IF mem_readdataid' = id THEN 1 ELSE 0) + (IF state' = "S_READ_FLASH" /\ flash_id' = id THEN FlashLeft' ELSE 0)
          = IF flash_id = id THEN FlashLeft ELSE 0
    <3>1. CASE flash_address % 2 # 1
      <4>1. FlashLeft' = FlashLeft /\ state' = "S_READ_FLASH"
        BY <2>1, <2>2, <3>1, FlashAddress DEF FlashLeft
      <4> QED
        BY <1>1, <1>4, <2>2, <3>1, <4>1
    <3>2. CASE flash_address % 2 = 1 /\ state' = "S_IDLE"
      <4>1. FlashLeft = 1
        BY <2>1, <2>2, <3>2, FlashAddress DEF FlashLeft
      <4> QED
        BY <2>2, <3>2, <4>1
    <3>3. CASE flash_address % 2 = 1 /\ state' = "S_READ_FLASH"
      <4>1. FlashLeft' = FlashLeft - 1
        BY <2>1, <2>2, <3>3, FlashAddress DEF FlashLeft
      <4> QED
        BY <1>4, <2>2, <3>3, <4>1
    <3> QED
      BY <2>2, <3>1, <3>2, <3>3
  <2>5. OnTheWay(id)' = IF flash_id = id THEN FlashLeft ELSE 0
    <3>1. readdataid' # id /\ pendingid2' # id /\ pendingid' # id
      BY <1>1, <1>3, <2>1, <2>2
    <3> DEFINE a == IF mem_readdataid' = id THEN 1 ELSE 0
               b == IF state' = "S_READ_FLASH" /\ flash_id' = id THEN FlashLeft' ELSE 0
    <3>2. OnTheWay(id)' = a + 0 + 0 + 0 + b
      BY <3>1 DEF OnTheWay
    <3>3. a \in Nat /\ b \in Nat
      BY <1>6
    <3> HIDE DEF a, b
    <3>4. OnTheWay(id)' = a + b
      BY <3>2, <3>3
    <3> QED
      BY <2>4, <3>4 DEF a, b
  <2>6. OnTheWay(id) = (IF mem_readdataid = id THEN 1 ELSE 0) + (IF flash_id = id THEN FlashLeft ELSE 0)
    <3>1. readdataid # id /\ pendingid2 # id /\ pendingid # id
      BY <1>1, <2>1
    <3> QED
      BY <1>4, <2>2, <3>1 DEF OnTheWay
  <2>7. OnTheWay(id)' = OnTheWay(id) - (IF mem_readdataid = id THEN 1 ELSE 0) + More
    BY <1>4, <2>3, <2>5, <2>6
  <2> QED
    BY <1>1, <1>2, <2>7
<1> HIDE DEF More
<1>14. Ctrl!Clock(req, FALSE) =>
         \/ Ctrl!Idle /\ Ctrl!Returned(FALSE) /\ req.op # "read"
         \/ Ctrl!ReadBurst(FALSE) /\ Ctrl!Returned(FALSE)
         \/ Ctrl!FlashWait(FALSE) /\ Ctrl!Returned(FALSE)
         \/ req.op = "read" /\ Ctrl!Read(req.id, req.a) /\ Ctrl!Returned(FALSE)
         \/ req.op = "read" /\ Ctrl!ReadFlash(req.id, req.a) /\ Ctrl!Returned(FALSE)
         \/ req.op = "write" /\ Ctrl!Store(req.a, req.w) /\ Ctrl!Returned(FALSE)
         \/ Ctrl!FlashRead(FALSE)
  BY DEF Ctrl!Clock
<1> QED
  BY <1>7, <1>8, <1>9, <1>10, <1>11, <1>12, <1>13, <1>14 DEF More

----------------------------------------------------------------------------
(* The memory under its users.                                             *)

\* The words that the reader of the frame buffer has in the FIFO, has asked
\* for, or asks for.
Claimed == used + OnTheWay(ID_FB) + (IF fb_read THEN burst_length ELSE 0)

VideoInv ==
  /\ SsramInv /\ rst = 0
  /\ request \in YariRequests
  /\ fb_read \in BOOLEAN
  /\ used \in Nat
  /\ due = OnTheWay(ID_YARI)
  /\ Claimed <= Threshold + 3 + 2 * burst_length

LEMMA VideoConstants ==
  /\ burst_length \in Nat \ {0, 1}
  /\ Threshold \in Nat \ {0}
  /\ 2 * burst_length + 4 <= Threshold
  /\ ID_YARI \in Ids /\ ID_FB \in Ids /\ ID_YARI # ID_FB
BY BurstLength, VideoAssumption DEF ID_YARI, ID_FB

\* What the processor asks for, and what the reader does, the controller
\* expects.
LEMMA FairRequest ==
  ASSUME request \in YariRequests, fb_read \in BOOLEAN
  PROVE  /\ mem_request.op = "read" => mem_request.id \in Ids /\ mem_request.a \in Lines
         /\ mem_request.op = "write" => mem_request.a \in Addr /\ DOMAIN mem_request.w \subseteq Lanes
<1>1. 0 \in Addr /\ 0 \in Lines
  <2>1. 0 % burst_length = 0
    BY BurstLength, ModSmall
  <2> QED
    BY <2>1, BurstLength DEF Addr, Lines
<1>2. FlashFrom \in Addr => FlashFrom \in Lines
  BY PortAssumption DEF Lines, burst_length
<1>3. CASE fb_read
  BY <1>1, <1>3, VideoConstants DEF mem_request
<1>4. CASE ~fb_read
  <2>1. mem_request = request
    BY <1>4 DEF mem_request
  <2>2. CASE request \in [op : {"read"}, id : {ID_YARI}, a : {0, FlashFrom} \cap Addr]
    BY <1>1, <1>2, <2>1, <2>2, VideoConstants
  <2>3. CASE request = [op |-> "write", a |-> 0, w |-> <<>>]
    <3>1. DOMAIN request.w = {}
      BY <2>3
    <3> QED
      BY <1>1, <2>1, <2>3, <3>1
  <2>4. CASE request = NoRequest
    BY <2>1, <2>4 DEF NoRequest
  <2> QED
    BY <2>2, <2>3, <2>4 DEF YariRequests
<1> QED
  BY <1>3, <1>4

\* Only what the controller takes is a burst for its master.
LEMMA BurstTaken ==
  ASSUME request \in YariRequests, fb_read \in BOOLEAN
  PROVE  /\ state = "S_IDLE" /\ mem_request.op = "read" /\ mem_request.id = ID_YARI
              <=> Taken /\ request.op = "read"
         /\ state = "S_IDLE" /\ mem_request.op = "read" /\ mem_request.id = ID_FB
              <=> fb_read /\ ~fb_waitrequest
<1>1. CASE fb_read
  <2>1. mem_request.op = "read" /\ mem_request.id = ID_FB
    BY <1>1 DEF mem_request
  <2> QED
    BY <1>1, <2>1, VideoConstants DEF fb_waitrequest, yari_waitrequest, Taken, Ctrl!mem_waitrequest
<1>2. CASE ~fb_read
  <2>1. mem_request = request
    BY <1>2 DEF mem_request
  <2>2. request.op = "read" => request.id = ID_YARI
    BY DEF YariRequests, NoRequest
  <2>3. request.op = "read" => (Taken <=> state = "S_IDLE")
    BY <1>2, <2>1 DEF fb_waitrequest, yari_waitrequest, Taken, Ctrl!mem_waitrequest
  <2> QED
    BY <1>2, <2>1, <2>2, <2>3, VideoConstants
<1> QED
  BY <1>1, <1>2

\* The counts of the words that the two masters are owed.
LEMMA MastersOwed ==
  ASSUME VideoInv, Clock
  PROVE  /\ SsramInv' /\ rst' = 0
         /\ OnTheWay(ID_YARI)' = OnTheWay(ID_YARI) - (IF Arrived THEN 1 ELSE 0)
              + (IF Taken /\ request.op = "read" THEN burst_length ELSE 0)
         /\ OnTheWay(ID_FB)' = OnTheWay(ID_FB) - (IF mem_readdataid = ID_FB THEN 1 ELSE 0)
              + (IF fb_read /\ ~fb_waitrequest THEN burst_length ELSE 0)
<1>1. SsramInv /\ rst = 0 /\ request \in YariRequests /\ fb_read \in BOOLEAN
  BY DEF VideoInv
<1>2. Ctrl!Clock(mem_request, FALSE)
  BY DEF Clock
<1>3. ASSUME NEW id \in Ids
      PROVE  /\ SsramInv' /\ rst' = 0
             /\ OnTheWay(id)' = OnTheWay(id) - (IF mem_readdataid = id THEN 1 ELSE 0)
                  + (IF state = "S_IDLE" /\ mem_request.op = "read" /\ mem_request.id = id
                       THEN burst_length ELSE 0)
  BY <1>1, <1>2, FairRequest, Accounts
<1>4. OnTheWay(ID_YARI)' = OnTheWay(ID_YARI) - (IF mem_readdataid = ID_YARI THEN 1 ELSE 0)
        + (IF state = "S_IDLE" /\ mem_request.op = "read" /\ mem_request.id = ID_YARI
             THEN burst_length ELSE 0)
  BY <1>3, VideoConstants
<1>5. OnTheWay(ID_FB)' = OnTheWay(ID_FB) - (IF mem_readdataid = ID_FB THEN 1 ELSE 0)
        + (IF state = "S_IDLE" /\ mem_request.op = "read" /\ mem_request.id = ID_FB
             THEN burst_length ELSE 0)
  BY <1>3, VideoConstants
<1>6. SsramInv' /\ rst' = 0
  BY <1>3, VideoConstants
<1>7. OnTheWay(ID_YARI)' = OnTheWay(ID_YARI) - (IF Arrived THEN 1 ELSE 0)
        + (IF Taken /\ request.op = "read" THEN burst_length ELSE 0)
  <2>1. CASE Taken /\ request.op = "read"
    <3>1. state = "S_IDLE" /\ mem_request.op = "read" /\ mem_request.id = ID_YARI
      BY <1>1, <2>1, BurstTaken
    <3> QED
      BY <1>4, <2>1, <3>1 DEF Arrived
  <2>2. CASE ~(Taken /\ request.op = "read")
    <3>1. ~(state = "S_IDLE" /\ mem_request.op = "read" /\ mem_request.id = ID_YARI)
      BY <1>1, <2>2, BurstTaken
    <3> QED
      BY <1>4, <2>2, <3>1 DEF Arrived
  <2> QED
    BY <2>1, <2>2
<1>8. OnTheWay(ID_FB)' = OnTheWay(ID_FB) - (IF mem_readdataid = ID_FB THEN 1 ELSE 0)
        + (IF fb_read /\ ~fb_waitrequest THEN burst_length ELSE 0)
  <2>1. CASE fb_read /\ ~fb_waitrequest
    <3>1. state = "S_IDLE" /\ mem_request.op = "read" /\ mem_request.id = ID_FB
      BY <1>1, <2>1, BurstTaken
    <3> QED
      BY <1>5, <2>1, <3>1
  <2>2. CASE ~(fb_read /\ ~fb_waitrequest)
    <3>1. ~(state = "S_IDLE" /\ mem_request.op = "read" /\ mem_request.id = ID_FB)
      BY <1>1, <2>2, BurstTaken
    <3> QED
      BY <1>5, <2>2, <3>1
  <2> QED
    BY <2>1, <2>2
<1> QED
  BY <1>6, <1>7, <1>8

\* The FIFO takes no more than comes, and gives no more than it has.
LEMMA FifoTakes ==
  ASSUME used \in Nat, Beam
  PROVE  /\ used' \in Nat
         /\ used' <= used + (IF mem_readdataid = ID_FB THEN 1 ELSE 0)
<1>1. Fifo(0) \/ (used > 0 /\ Fifo(1))
  BY DEF Beam, Show, Blank, BeginSync, EndSync
<1> QED
  BY <1>1 DEF Fifo

\* The reader asks for a burst only when the controller is ready, so that few
\* words are on their way, and the FIFO is not beyond the threshold.
LEMMA ReaderAsks ==
  ASSUME VideoInv, Pump
  PROVE  /\ fb_read' \in BOOLEAN
         /\ fb_read' => \/ fb_read /\ fb_waitrequest
                        \/ ~fb_waitrequest /\ state = "S_IDLE" /\ used < Threshold
<1>1. fb_read' \in BOOLEAN
  BY DEF Pump, Restart, Fetch, Rest, VideoInv
<1>2. ASSUME fb_read', ~(fb_read /\ fb_waitrequest)
      PROVE  ~fb_waitrequest /\ state = "S_IDLE" /\ used < Threshold
  <2>1. ~fb_waitrequest /\ Fetch
    BY <1>2 DEF Pump, Restart, Rest
  <2>2. state = "S_IDLE"
    BY <2>1 DEF fb_waitrequest, Ctrl!mem_waitrequest
  <2>3. OnTheWay(ID_FB) \in Nat
    BY OnTheWayNat DEF VideoInv
  <2>4. used \in Nat /\ used < 2 * Threshold
    BY <2>3, VideoConstants DEF VideoInv, Claimed
  <2>5. (used \div Threshold) % 2 # 1
    BY <2>1 DEF Fetch, fifo_used_5
  <2>6. ASSUME used >= Threshold PROVE FALSE
    <3> DEFINE r == used - Threshold
    <3>1. r \in 0 .. Threshold - 1 /\ used = Threshold * 1 + r
      BY <2>4, <2>6, VideoConstants
    <3>2. used \div Threshold = 1
      BY <2>4, <3>1, VideoConstants
    <3> QED
      BY <2>5, <3>2
  <2> QED
    BY <2>1, <2>2, <2>4, <2>6, VideoConstants
<1> QED
  BY <1>1, <1>2

LEMMA ClaimedKept ==
  ASSUME VideoInv, Clock
  PROVE  /\ fb_read' \in BOOLEAN /\ used' \in Nat
         /\ Claimed' <= Threshold + 3 + 2 * burst_length
<1>1. fb_read' \in BOOLEAN
  BY ReaderAsks DEF Clock
<1>2. used \in Nat /\ used' \in Nat /\ used' <= used + (IF mem_readdataid = ID_FB THEN 1 ELSE 0)
  BY FifoTakes DEF Clock, VideoInv
<1>3. ASSUME NEW T \in Nat, NEW B \in Nat, NEW u \in Nat, NEW o \in Nat, NEW m \in {0, 1},
             NEW v \in Nat, v <= u + m, NEW q \in {0, B}, NEW p, p = o - m + q,
             NEW r \in {0, B}, NEW s \in {0, B}, u + o + r <= T + 3 + 2 * B,
             s + q <= r \/ (o <= 4 /\ u < T)
      PROVE  v + p + s <= T + 3 + 2 * B
  BY <1>3
<1> DEFINE m == IF mem_readdataid = ID_FB THEN 1 ELSE 0
           q == IF fb_read /\ ~fb_waitrequest THEN burst_length ELSE 0
           r == IF fb_read THEN burst_length ELSE 0
           s == IF fb_read' THEN burst_length ELSE 0
<1>4. OnTheWay(ID_FB)' = OnTheWay(ID_FB) - m + q
  BY MastersOwed
<1>5. OnTheWay(ID_FB) \in Nat /\ (state = "S_IDLE" => OnTheWay(ID_FB) <= 4)
  BY OnTheWayNat DEF VideoInv
<1>6. m \in {0, 1} /\ q \in {0, burst_length} /\ r \in {0, burst_length} /\ s \in {0, burst_length}
  OBVIOUS
<1>7. used + OnTheWay(ID_FB) + r <= Threshold + 3 + 2 * burst_length
  BY DEF VideoInv, Claimed
<1>8. s + q <= r \/ (OnTheWay(ID_FB) <= 4 /\ used < Threshold)
  BY <1>1, <1>5, VideoConstants, ReaderAsks DEF Clock, VideoInv
<1>9. used' <= used + m
  BY <1>2
<1> HIDE DEF m, q, r, s
<1>10. used' + OnTheWay(ID_FB)' + s <= Threshold + 3 + 2 * burst_length
  <2>1. Threshold \in Nat /\ burst_length \in Nat
    BY VideoConstants
  <2> QED
    BY <1>2, <1>3, <1>4, <1>5, <1>6, <1>7, <1>8, <1>9, <2>1
<1> QED
  BY <1>1, <1>2, <1>10 DEF Claimed, s

LEMMA VideoKeeps == VideoInv /\ Clock => VideoInv'
<1> SUFFICES ASSUME VideoInv, Clock PROVE VideoInv'
  OBVIOUS
<1>1. request' \in YariRequests
  BY DEF Clock, Yari, MayAsk, VideoInv
<1>2. due' = OnTheWay(ID_YARI)'
  <2>1. due = OnTheWay(ID_YARI) /\ due \in Nat
    BY OnTheWayNat DEF VideoInv
  <2>2. due' = due + (IF Taken /\ request.op = "read" THEN burst_length ELSE 0)
                 - (IF Arrived THEN 1 ELSE 0)
    BY DEF Clock, Yari
  <2> QED
    BY <2>1, <2>2, MastersOwed, VideoConstants
<1> QED
  BY <1>1, <1>2, MastersOwed, ClaimedKept DEF VideoInv

LEMMA VideoStarts == Ctrl!Init /\ InitUsers => VideoInv
<1> SUFFICES ASSUME Ctrl!Init, InitUsers PROVE VideoInv
  OBVIOUS
<1>1. SsramInv /\ rst = 0
  BY SsramStarts DEF Ctrl!Init
<1>2. ASSUME NEW id \in Ids PROVE OnTheWay(id) = 0
  <2>1. id # 0
    BY BurstLength
  <2> QED
    BY <2>1 DEF OnTheWay, Ctrl!Init
<1>3. Claimed = 0
  BY <1>2, VideoConstants DEF Claimed, InitUsers
<1>4. due = 0 /\ OnTheWay(ID_YARI) = 0 /\ used = 0 /\ fb_read = FALSE
  BY <1>2, VideoConstants DEF InitUsers
<1>5. request \in YariRequests
  BY DEF InitUsers, YariRequests
<1>6. Claimed <= Threshold + 3 + 2 * burst_length
  BY <1>3, VideoConstants
<1> QED
  BY <1>1, <1>4, <1>5, <1>6 DEF VideoInv

\* The invariant of the whole.
UsersInv ==
  /\ part = "video" => VideoInv
  /\ part # "video" => used = 0

LEMMA UsersKept == MCSpec => []UsersInv
<1>1. MCInit => UsersInv
  BY VideoStarts DEF MCInit, UsersInv, InitUsers
<1>2. UsersInv /\ [MCNext]_all => UsersInv'
  <2> SUFFICES ASSUME UsersInv, [MCNext]_all PROVE UsersInv'
    OBVIOUS
  <2>1. part' = part
    BY DEF MCNext, all
  <2>2. CASE part = "video" /\ Clock
    BY <2>1, <2>2, VideoKeeps DEF UsersInv
  <2>3. CASE part = "video" /\ UNCHANGED all
    <3>1. UNCHANGED <<state, cnt, pendingid, pendingid2, readdataid, mem_readdataid, sram_a, sram_adsc,
                      sram_adv, sram_be, sram_oe, sram_we, sram_dout, sram_dout_en, flash_id,
                      flash_address, flash_delay, flash_data, rst, ssram, flash, chip_a, chip_q,
                      mem_readdata>>
      BY <2>3 DEF all, vars, ctrl
    <3>2. UNCHANGED <<request, fb_read, used, due>>
      BY <2>3 DEF all, vars, pump, yari
    <3>3. SsramInv' <=> SsramInv
      BY <3>1 DEF SsramInv, SsramTypes, FlashInv
    <3>4. OnTheWay(ID_YARI)' = OnTheWay(ID_YARI) /\ OnTheWay(ID_FB)' = OnTheWay(ID_FB)
      BY <3>1 DEF OnTheWay, FlashLeft, Ctrl!Bursting
    <3>5. Claimed' = Claimed
      BY <3>2, <3>4 DEF Claimed
    <3> QED
      BY <2>1, <2>3, <3>1, <3>2, <3>3, <3>4, <3>5 DEF UsersInv, VideoInv
  <2>4. CASE part # "video"
    <3>1. used' = used
      BY <2>4 DEF MCNext, all, users, vars
    <3> QED
      BY <2>1, <2>4, <3>1 DEF UsersInv
  <2> QED
    BY <2>2, <2>3, <2>4 DEF MCNext
<1> QED
  BY <1>1, <1>2, PTL DEF MCSpec

\* Each word that comes to the processor was asked for by it: the requests
\* that it takes for accepted are those that the controller accepted.
THEOREM WordsWereAsked == MCSpec => []YariAsked
<1>1. UsersInv => YariAsked
  BY OnTheWayNat DEF UsersInv, VideoInv, YariAsked, WordsAreDue, Arrived
<1> QED
  BY <1>1, UsersKept, PTL

\* What the reader has asked for finds room below twice the threshold, where
\* the bit that stops the reader would be zero again.
THEOREM FifoNeverOverflows == MCSpec => []FifoHasRoom
<1>1. UsersInv => FifoHasRoom
  <2> SUFFICES ASSUME UsersInv PROVE FifoHasRoom
    OBVIOUS
  <2>1. CASE part = "video"
    <3>1. OnTheWay(ID_FB) \in Nat
      BY <2>1, OnTheWayNat DEF UsersInv, VideoInv
    <3> QED
      BY <2>1, <3>1, VideoConstants DEF UsersInv, VideoInv, Claimed, FifoHasRoom
  <2>2. CASE part # "video"
    BY <2>2, VideoConstants DEF UsersInv, FifoHasRoom
  <2> QED
    BY <2>1, <2>2
<1> QED
  BY <1>1, UsersKept, PTL

----------------------------------------------------------------------------
(* The time that the users wait for each other.                            *)

\* Cycles for a half word of the Flash.
HalfWordTime == FlashDelay + 2

\* For all half words of a burst.
FlashTime == 2 * burst_length * HalfWordTime

\* The cycles for which the controller takes no request.
Busy ==
  CASE state = "S_READ_BURST" -> IF cnt >= burst_length THEN 1 ELSE cnt + 2
    [] state = "S_READ_FLASH" ->
         (2 * burst_length - 1 - (flash_address % (2 * burst_length))) * HalfWordTime
           + (IF flash_delay >= 128 THEN 1 ELSE flash_delay + 2)
    [] OTHER -> 0

\* And then no write, until the pipeline is empty.
Drain ==
  IF state = "S_READ_FLASH" THEN 0
  ELSE IF state = "S_READ_BURST" \/ pendingid # 0 THEN 2
  ELSE IF pendingid2 # 0 THEN 1
  ELSE 0

\* The Flash is waited for as long as it needs; 255 is -1.
DelayInv == state = "S_READ_FLASH" => flash_delay \in 0 .. FlashDelay \cup {255}

\* What is known of the constants.
LEMMA RateConstants ==
  /\ FlashDelay \in 1 .. 127 /\ HalfWordTime \in Nat /\ HalfWordTime >= 3
  /\ FlashTime \in Nat /\ FlashTime >= 6 * burst_length
  /\ burst_length \in Nat /\ burst_length >= 2
  /\ FlashFrom \in Nat \ {0}
<1>1. FlashDelay \in 1 .. 127 /\ FlashFrom \in Nat \ {0}
  BY VideoAssumption, PortAssumption
<1>2. HalfWordTime \in Nat /\ HalfWordTime >= 3
  BY <1>1 DEF HalfWordTime
<1>3. burst_length \in Nat /\ burst_length >= 2
  BY VideoConstants
<1>4. \A b \in Nat : 2 * b * HalfWordTime \in Nat /\ 2 * b * HalfWordTime >= 6 * b
  <2> TAKE b \in Nat
  <2>1. PICK x \in Nat : HalfWordTime = 3 + x
    <3>1. HalfWordTime - 3 \in Nat /\ HalfWordTime = 3 + (HalfWordTime - 3)
      BY <1>2
    <3> QED
      BY <3>1
  <2>2. 2 * b * HalfWordTime = 6 * b + 2 * (b * x)
    BY <2>1
  <2>3. b * x \in Nat
    BY <2>1
  <2> QED
    BY <2>2, <2>3
<1> QED
  BY <1>1, <1>2, <1>3, <1>4 DEF FlashTime

\* The next half word of a burst.
LEMMA HalfWordNext ==
  ASSUME NEW f \in 0 .. 2 * Words - 1, f % (2 * burst_length) # 2 * burst_length - 1
  PROVE  ((f + 1) % (2 * Words)) % (2 * burst_length) = (f % (2 * burst_length)) + 1
<1> DEFINE C == 2 * burst_length
           q == f \div C
           r == f % C
           m == Words \div burst_length
<1>1. C \in Nat \ {0} /\ f \in Nat
  BY BurstLength
<1>2. 2 * Words = C * m /\ m \in Nat
  <2>1. Words = burst_length * m + (Words % burst_length) /\ m \in Nat
    BY BurstLength, DivMod
  <2>2. Words = burst_length * m
    BY <2>1, BurstLength
  <2> HIDE DEF m
  <2> QED
    BY <2>1, <2>2, BurstLength
<1> HIDE DEF C, m
<1>3. q \in Nat /\ r \in 0 .. C - 1 /\ f = C * q + r
  BY <1>1, DivMod
<1> HIDE DEF q, r
<1>4. r + 1 \in 0 .. C - 1
  BY <1>1, <1>3 DEF r, C
<1>5. q < m
  <2>1. ASSUME q >= m PROVE FALSE
    <3>1. C * q >= C * m
      BY <1>1, <1>2, <1>3, <2>1
    <3> QED
      BY <1>1, <1>2, <1>3, <3>1
  <2> QED
    BY <1>2, <1>3, <2>1
<1>6. C * q + C <= C * m
  <2>1. C * (q + 1) <= C * m
    BY <1>1, <1>2, <1>3, <1>5
  <2> QED
    BY <1>1, <1>3, <2>1
<1>7. f + 1 = C * q + (r + 1) /\ f + 1 \in 0 .. 2 * Words - 1
  <2>1. C * q \in Nat /\ C * m \in Nat
    BY <1>1, <1>2, <1>3
  <2> QED
    BY <1>1, <1>2, <1>3, <1>4, <1>6, <2>1
<1>8. (f + 1) % (2 * Words) = f + 1
  <2> DEFINE W == 2 * Words
             g == f + 1
  <2>1. g \in Int /\ W \in Nat \ {0} /\ g \in 0 .. W - 1
    BY <1>1, <1>7, BurstLength
  <2> HIDE DEF W, g
  <2>2. g % W = g
    BY <2>1, ModSmall
  <2> QED
    BY <2>2 DEF W, g
<1>9. (C * q + (r + 1)) % C = r + 1
  BY <1>1, <1>3, <1>4, DivModOf
<1> QED
  BY <1>7, <1>8, <1>9 DEF r, C

\* No request waits for longer than a burst of the Flash.
LEMMA BusyRange ==
  ASSUME SsramInv, DelayInv
  PROVE  /\ Busy \in Nat /\ Busy + Drain <= FlashTime
         /\ Drain \in 0 .. 2
         /\ state = "S_IDLE" <=> Busy = 0
         /\ state = "S_READ_BURST" => Busy <= burst_length - 1
<1>1. state \in {"S_IDLE", "S_READ_BURST", "S_READ_FLASH"} /\ flash_address \in 0 .. 2 * Words - 1
  BY DEF SsramInv, SsramTypes
<1>2. Drain \in 0 .. 2
  BY DEF Drain
<1>3. CASE state = "S_READ_BURST"
  <2>1. cnt \in 0 .. 2 * burst_length - 1 /\ (cnt <= burst_length - 3 \/ cnt = 2 * burst_length - 1)
    BY <1>3 DEF SsramInv, SsramTypes
  <2>2. Busy = IF cnt >= burst_length THEN 1 ELSE cnt + 2
    BY <1>3 DEF Busy
  <2> QED
    BY <1>2, <1>3, <2>1, <2>2, RateConstants
<1>4. CASE state = "S_READ_FLASH"
  <2> DEFINE C == 2 * burst_length
             r == flash_address % C
             w == IF flash_delay >= 128 THEN 1 ELSE flash_delay + 2
  <2>1. Busy = (C - 1 - r) * HalfWordTime + w /\ Drain = 0
    BY <1>4 DEF Busy, Drain
  <2>2. w \in 1 .. HalfWordTime
    BY <1>4, RateConstants DEF DelayInv, HalfWordTime
  <2>3. r \in 0 .. C - 1 /\ C \in Nat \ {0}
    <3>1. C \in Nat \ {0} /\ flash_address \in Int
      BY <1>1, RateConstants, BurstLength
    <3> HIDE DEF C
    <3> QED
      BY <3>1, ModSmall
  <2>4. FlashTime = C * HalfWordTime
    BY DEF FlashTime
  <2> HIDE DEF C, r, w
  <2>5. PICK j \in Nat : j = C - 1 - r
    BY <2>3
  <2>6. (C - 1 - r) * HalfWordTime \in Nat /\ (C - 1 - r) * HalfWordTime + HalfWordTime <= C * HalfWordTime
    <3>1. j * HalfWordTime \in Nat /\ (j + 1) * HalfWordTime = j * HalfWordTime + HalfWordTime
      BY RateConstants
    <3>2. C * HalfWordTime = (j + 1) * HalfWordTime + r * HalfWordTime /\ r * HalfWordTime \in Nat
      <4>1. C = (j + 1) + r /\ r \in Nat /\ HalfWordTime \in Nat
        BY <2>3, <2>5, RateConstants
      <4> QED
        BY <4>1
    <3> QED
      BY <2>5, <3>1, <3>2, RateConstants
  <2> QED
    BY <1>2, <1>4, <2>1, <2>2, <2>4, <2>6, RateConstants
<1>5. CASE state = "S_IDLE"
  <2>1. Busy = 0
    BY <1>5 DEF Busy
  <2> QED
    BY <1>2, <1>5, <2>1, RateConstants
<1> QED
  BY <1>1, <1>3, <1>4, <1>5

\* Each cycle is one less to wait, and who is taken when the wait is over
\* makes the others wait again.
LEMMA BusyCounts ==
  ASSUME SsramInv, DelayInv, rst = 0, NEW req,
         req.op = "read" => req.id \in Ids /\ req.a \in Lines,
         req.op = "write" => req.a \in Addr /\ DOMAIN req.w \subseteq Lanes,
         Ctrl!Clock(req, FALSE)
  PROVE  /\ DelayInv'
         /\ state # "S_IDLE" => Busy' = Busy - 1 /\ pendingid' = pendingid /\ state' \in {state, "S_IDLE"}
         /\ state = "S_IDLE" =>
              \/ req.op = "read" /\ req.a < FlashFrom /\ pendingid' = req.id /\ state' = "S_READ_BURST"
                   /\ Busy' = burst_length - 1
              \/ req.op = "read" /\ req.a >= FlashFrom /\ pendingid' = 0 /\ state' = "S_READ_FLASH"
              \/ req.op # "read" /\ pendingid' = 0 /\ state' = "S_IDLE"
<1>1. Always(FALSE) /\ SsramTypes
  BY DEF Always, Ctrl!Clock, SsramInv
<1>2. SsramInv'
  BY <1>1, SsramKeeps
<1>3. CASE Ctrl!Idle /\ req.op # "read"
  BY <1>3 DEF Ctrl!Idle, DelayInv
<1>4. CASE Ctrl!ReadBurst(FALSE)
  <2>1. /\ pendingid' = pendingid /\ state = "S_READ_BURST"
        /\ cnt' = Ctrl!Down(cnt, burst_bits)
        /\ state' = IF Ctrl!Negative(cnt, burst_bits) THEN "S_IDLE" ELSE state
    BY <1>4 DEF Ctrl!ReadBurst
  <2>2. cnt \in 0 .. 2 * burst_length - 1 /\ (cnt <= burst_length - 3 \/ cnt = 2 * burst_length - 1)
    BY <1>1, <2>1 DEF SsramInv, SsramTypes
  <2>3. /\ cnt' = IF cnt = 0 THEN 2 * burst_length - 1 ELSE cnt - 1
        /\ state' = IF cnt >= burst_length THEN "S_IDLE" ELSE "S_READ_BURST"
    BY <2>1, <2>2, SsramCounter
  <2>4. Busy = IF cnt >= burst_length THEN 1 ELSE cnt + 2
    BY <2>1 DEF Busy
  <2>5. Busy' = IF cnt >= burst_length THEN 0 ELSE IF cnt' >= burst_length THEN 1 ELSE cnt' + 2
    BY <2>3 DEF Busy
  <2>6. Busy' = Busy - 1
    BY <2>2, <2>3, <2>4, <2>5, RateConstants
  <2> QED
    BY <2>1, <2>3, <2>6 DEF DelayInv
<1>5. CASE Ctrl!FlashWait(FALSE)
  <2>1. /\ UNCHANGED <<pendingid, flash_address>> /\ state = "S_READ_FLASH" /\ state' = "S_READ_FLASH"
        /\ ~Ctrl!Negative(flash_delay, Ctrl!FLASH_DELAY_MSB)
        /\ flash_delay' = Ctrl!Down(flash_delay, Ctrl!FLASH_DELAY_MSB)
    BY <1>5 DEF Ctrl!FlashWait
  <2>2. flash_delay \in 0 .. 255 /\ flash_delay \in 0 .. FlashDelay \cup {255}
    BY <1>1, <2>1 DEF SsramTypes, DelayInv
  <2>3. flash_delay < 128 /\ flash_delay' = IF flash_delay = 0 THEN 255 ELSE flash_delay - 1
    BY <2>1, <2>2, FlashCounter
  <2>4. flash_delay' \in 0 .. FlashDelay \cup {255}
    BY <2>2, <2>3, RateConstants
  <2> DEFINE w == IF flash_delay >= 128 THEN 1 ELSE flash_delay + 2
             v == IF flash_delay' >= 128 THEN 1 ELSE flash_delay' + 2
             x == (2 * burst_length - 1 - (flash_address % (2 * burst_length))) * HalfWordTime
  <2>5. v = w - 1
    BY <2>2, <2>3
  <2>6. Busy = x + w /\ Busy' = x + v
    BY <2>1 DEF Busy, HalfWordTime
  <2>7. w \in Nat
    BY <2>2
  <2>8. Busy \in Nat
    BY BusyRange
  <2> HIDE DEF x, v, w
  <2>9. x \in Int
    <3> DEFINE C == 2 * burst_length
               r == flash_address % C
    <3>1. C \in Nat \ {0} /\ flash_address \in Int
      BY <1>1, RateConstants, BurstLength DEF SsramTypes
    <3> HIDE DEF C
    <3>2. r \in 0 .. C - 1
      BY <3>1, ModSmall
    <3> HIDE DEF r
    <3>3. (C - 1 - r) * HalfWordTime \in Int
      BY <3>1, <3>2, RateConstants
    <3> QED
      BY <3>3 DEF C, r, x
  <2>10. Busy' = Busy - 1
    BY <2>5, <2>6, <2>7, <2>9
  <2> QED
    BY <2>1, <2>4, <2>10 DEF DelayInv
<1>6. CASE req.op = "read" /\ Ctrl!Read(req.id, req.a)
  <2>1. /\ pendingid' = req.id /\ state = "S_IDLE" /\ state' = "S_READ_BURST" /\ req.a < FlashFrom
        /\ cnt' = (burst_length - 3) % (2 * burst_length)
    BY <1>6, SsramConstants DEF Ctrl!Read
  <2>2. Busy' = IF cnt' >= burst_length THEN 1 ELSE cnt' + 2
    BY <2>1 DEF Busy
  <2>3. Busy' = burst_length - 1
    BY <2>1, <2>2, BurstBegins, RateConstants
  <2> QED
    BY <1>6, <2>1, <2>3 DEF DelayInv
<1>7. CASE req.op = "read" /\ Ctrl!ReadFlash(req.id, req.a)
  <2>1. pendingid' = 0 /\ state = "S_IDLE" /\ state' = "S_READ_FLASH" /\ req.a >= FlashFrom
        /\ flash_delay' = FlashDelay
    BY <1>7 DEF Ctrl!ReadFlash
  <2>2. DelayInv'
    BY <2>1, RateConstants DEF DelayInv
  <2> QED
    BY <1>7, <2>1, <2>2
<1>8. CASE req.op = "write" /\ Ctrl!Store(req.a, req.w)
  <2>1. pendingid' = 0 /\ state' = state /\ state = "S_IDLE"
    BY <1>8 DEF Ctrl!Store, Ctrl!mem_waitrequest
  <2> QED
    BY <1>8, <2>1 DEF DelayInv
<1>9. CASE Ctrl!FlashRead(FALSE)
  <2> DEFINE C == 2 * burst_length
             r == flash_address % C
  <2>1. /\ state = "S_READ_FLASH" /\ pendingid' = pendingid
        /\ Ctrl!Negative(flash_delay, Ctrl!FLASH_DELAY_MSB)
        /\ flash_address' = (flash_address + 1) % (2 * Words)
        /\ flash_delay' = FlashDelay
        /\ state' = IF r = C - 1 THEN "S_IDLE" ELSE "S_READ_FLASH"
    BY <1>9, SsramConstants DEF Ctrl!FlashRead
  <2>2. flash_delay \in 0 .. 255 /\ flash_address \in 0 .. 2 * Words - 1
    BY <1>1 DEF SsramTypes
  <2>3. flash_delay >= 128
    BY <2>1, <2>2, FlashCounter
  <2>4. Busy = (C - 1 - r) * HalfWordTime + 1
    BY <2>1, <2>3 DEF Busy
  <2>5. C \in Nat \ {0} /\ r \in 0 .. C - 1
    <3>1. C \in Nat \ {0} /\ flash_address \in Int
      BY <2>2, RateConstants, BurstLength
    <3> HIDE DEF C
    <3> QED
      BY <3>1, ModSmall
  <2>6. CASE r = C - 1
    <3>1. Busy' = 0
      BY <2>1, <2>6 DEF Busy
    <3>2. (C - 1 - r) * HalfWordTime = 0
      <4>1. C - 1 - r = 0
        BY <2>5, <2>6
      <4> QED
        BY <4>1, RateConstants
    <3>3. Busy = 1
      BY <2>4, <3>2
    <3> QED
      BY <2>1, <2>6, <3>1, <3>3 DEF DelayInv
  <2>7. CASE r # C - 1
    <3>1. flash_address' % C = r + 1
      BY <2>1, <2>2, <2>7, HalfWordNext
    <3>2. Busy' = (C - 1 - (flash_address' % C)) * HalfWordTime + (IF flash_delay' >= 128 THEN 1 ELSE flash_delay' + 2)
      BY <2>1, <2>7 DEF Busy, HalfWordTime
    <3>3. Busy' = (C - 1 - (r + 1)) * HalfWordTime + HalfWordTime
      BY <2>1, <3>1, <3>2, RateConstants DEF HalfWordTime
    <3> HIDE DEF C, r
    <3>4. PICK j \in Nat : j = C - 1 - (r + 1)
      BY <2>5, <2>7
    <3>5. C - 1 - r = j + 1
      BY <2>5, <3>4
    <3>6. (j + 1) * HalfWordTime = j * HalfWordTime + HalfWordTime /\ j * HalfWordTime \in Nat
      BY RateConstants
    <3>7. Busy' = Busy - 1
      BY <2>4, <3>3, <3>4, <3>5, <3>6, RateConstants
    <3> QED
      BY <2>1, <2>7, <3>7, RateConstants DEF DelayInv
  <2> QED
    BY <2>6, <2>7
<1>10. Ctrl!Clock(req, FALSE) =>
         \/ Ctrl!Idle /\ req.op # "read"
         \/ Ctrl!ReadBurst(FALSE)
         \/ Ctrl!FlashWait(FALSE)
         \/ req.op = "read" /\ Ctrl!Read(req.id, req.a)
         \/ req.op = "read" /\ Ctrl!ReadFlash(req.id, req.a)
         \/ req.op = "write" /\ Ctrl!Store(req.a, req.w)
         \/ Ctrl!FlashRead(FALSE)
  BY DEF Ctrl!Clock
<1> QED
  BY <1>3, <1>4, <1>5, <1>6, <1>7, <1>8, <1>9, <1>10

\* Cycles until the next word that the reader has asked for, or is about to
\* ask for, is in the FIFO.
NextWord ==
  IF mem_readdataid = ID_FB THEN 1
  ELSE IF readdataid = ID_FB THEN 2
  ELSE IF pendingid2 = ID_FB THEN 3
  ELSE 4

\* When the reader does not ask, the processor may go first once more.
Until ==
  IF ~fb_read THEN Busy + Drain + FlashTime + 6
  ELSE IF pendingid = ID_FB THEN NextWord
  ELSE Busy + 5

\* Cycles until the beam may look for a word that is not yet in the FIFO.
Interval == IF shown = 0 THEN Porch ELSE WordTime
Slack    == WordTime * used + (IF timer < Interval THEN Interval - timer ELSE 0)

\* The types of the beam.
BeamTypes ==
  /\ vsync \in BOOLEAN /\ vsync_ \in BOOLEAN
  /\ shown \in 0 .. FB_SIZE
  /\ timer \in 0 .. LongestTime

\* The words of the FIFO, from the threshold down, and those before the first
\* word of a frame, are shown no sooner than two bursts of the Flash and one
\* of the SRAM have been read.
BeamFed ==
  /\ WordTime >= 3
  /\ WordTime * Threshold >= 2 * FlashTime + 7
  /\ Porch >= 2 * FlashTime + 7

\* The next word comes before the beam may look for it.
InTimeInv ==
  /\ DelayInv
  /\ ~vsync /\ shown < FB_SIZE => Slack >= Until

\* The timer counts as far as any of the times it is compared with.
LEMMA LongestTimeIs ==
  /\ WordTime \in Nat \ {0} /\ Porch \in Nat \ {0} /\ SyncCycles \in Nat \ {0}
  /\ LongestTime \in Nat \ {0} /\ WordTime <= LongestTime /\ Porch <= LongestTime /\ SyncCycles <= LongestTime
<1> DEFINE S == {WordTime, Porch, SyncCycles}
           IsLongest(t) == t \in S /\ \A u \in S : u <= t
<1>1. WordTime \in Nat \ {0} /\ Porch \in Nat \ {0} /\ SyncCycles \in Nat \ {0}
  BY VideoAssumption
<1>2. \E t : IsLongest(t)
  <2>1. IsLongest(WordTime) \/ IsLongest(Porch) \/ IsLongest(SyncCycles)
    BY <1>1
  <2> QED
    BY <2>1
<1>3. LongestTime = CHOOSE t : IsLongest(t)
  BY DEF LongestTime
<1>4. IsLongest(LongestTime)
  BY <1>2, <1>3
<1> QED
  BY <1>1, <1>4

\* The beam keeps to its frame.
LEMMA BeamTypesKept ==
  ASSUME BeamTypes, Pump, Beam
  PROVE  BeamTypes'
<1>1. vsync' \in BOOLEAN /\ vsync_' \in BOOLEAN
  BY DEF BeamTypes, Pump, Beam, Show, Blank, BeginSync, EndSync
<1>2. FB_SIZE \in Nat /\ LongestTime \in Nat \ {0}
  BY VideoAssumption, LongestTimeIs
<1>3. shown' \in 0 .. FB_SIZE /\ timer' \in 0 .. LongestTime
  <2>1. CASE Show
    BY <1>2, <2>1 DEF Show, BeamAtWord, BeamTypes
  <2>2. CASE Blank
    BY <1>2, <2>2 DEF Blank, Tick, BeamTypes
  <2>3. CASE BeginSync
    BY <1>2, <2>3 DEF BeginSync, BeamTypes
  <2>4. CASE EndSync
    BY <1>2, <2>4 DEF EndSync, BeamTypes
  <2> QED
    BY <2>1, <2>2, <2>3, <2>4 DEF Beam
<1> QED
  BY <1>1, <1>3 DEF BeamTypes

\* The fill level in products.
LEMMA Words1 ==
  ASSUME NEW u \in Nat, NEW W \in Nat
  PROVE  W * (u + 1) = W * u + W /\ W * u \in Nat /\ (u > 0 => W * (u - 1) = W * u - W)
  OBVIOUS

\* What stops the reader.
LEMMA EnoughIs ==
  ASSUME VideoInv
  PROVE  /\ ~fifo_full
         /\ fifo_used_5 <=> used >= Threshold
<1>1. OnTheWay(ID_FB) \in Nat
  BY OnTheWayNat DEF VideoInv
<1>2. used \in Nat /\ used < 2 * Threshold /\ Threshold \in Nat \ {0}
  BY <1>1, VideoConstants DEF VideoInv, Claimed
<1>3. ~fifo_full
  BY <1>2, VideoAssumption DEF fifo_full
<1>4. CASE used >= Threshold
  <2> DEFINE r == used - Threshold
  <2>1. r \in 0 .. Threshold - 1 /\ used = Threshold * 1 + r
    BY <1>2, <1>4
  <2>2. used \div Threshold = 1
    BY <1>2, <2>1
  <2> QED
    BY <1>3, <1>4, <2>2 DEF fifo_used_5
<1>5. CASE used < Threshold
  <2>1. used \div Threshold = 0
    BY <1>2, <1>5
  <2> QED
    BY <1>2, <1>3, <1>5, <2>1 DEF fifo_used_5
<1> QED
  BY <1>2, <1>4, <1>5

\* In a cycle the beam takes one from the slack, and a word that comes gives
\* it the time of a word.
LEMMA BeamTakes ==
  ASSUME VideoInv, BeamTypes, Beam, BeamAtWord => used > 0,
         ~vsync', shown' < FB_SIZE
  PROVE  /\ Slack' \in Nat
         /\ \/ vsync /\ Slack' >= Porch - 1
            \/ /\ ~vsync /\ shown < FB_SIZE
               /\ Slack' >= Slack - 1 + (IF mem_readdataid = ID_FB THEN WordTime ELSE 0)
<1> DEFINE m == IF mem_readdataid = ID_FB THEN 1 ELSE 0
           late(n, s) == LET i == IF s = 0 THEN Porch ELSE WordTime
                         IN  IF n < i THEN i - n ELSE 0
<1>1. used \in Nat /\ shown \in 0 .. FB_SIZE /\ timer \in Nat /\ FB_SIZE \in Nat
  BY VideoAssumption, LongestTimeIs DEF BeamTypes, VideoInv
<1>2. WordTime \in Nat \ {0} /\ Porch \in Nat \ {0} /\ LongestTime \in Nat \ {0}
      /\ WordTime <= LongestTime /\ Porch <= LongestTime
  BY LongestTimeIs
<1>3. ~fifo_full
  BY EnoughIs
<1>4. Slack = WordTime * used + late(timer, shown) /\ Slack' = WordTime * used' + late(timer', shown')
  BY DEF Slack, Interval
<1>5. WordTime * used \in Nat /\ WordTime * (used + 1) = WordTime * used + WordTime
      /\ (used > 0 => WordTime * (used - 1) = WordTime * used - WordTime)
  BY <1>1, <1>2, Words1
<1>6. \A n, s \in Nat : late(n, s) \in Nat
  BY <1>2
<1>7. CASE EndSync
  <2>1. used' = 0 /\ timer' = 1 /\ shown' = 0 /\ vsync
    BY <1>7 DEF EndSync, Fifo
  <2>2. late(timer', shown') = Porch - 1
    BY <1>2, <2>1
  <2>3. Slack' = WordTime * 0 + (Porch - 1)
    BY <1>4, <2>1, <2>2
  <2> QED
    BY <1>2, <2>1, <2>3
<1>8. CASE Show
  <2>1. timer >= (IF shown = 0 THEN Porch ELSE WordTime) /\ ~vsync /\ shown < FB_SIZE /\ used > 0
        /\ timer' = 1 /\ shown' = shown + 1
    BY <1>8 DEF Show, BeamAtWord
  <2>2. used' = used + m - 1
    BY <1>3, <1>8, <2>1 DEF Show, Fifo
  <2>3. late(timer, shown) = 0 /\ late(timer', shown') = WordTime - 1
    BY <1>1, <1>2, <2>1
  <2>4. WordTime * used' = WordTime * used - WordTime + (IF m = 1 THEN WordTime ELSE 0)
    BY <1>1, <1>2, <1>5, <2>1, <2>2
  <2> HIDE DEF late
  <2>5. Slack' = Slack - 1 + (IF m = 1 THEN WordTime ELSE 0)
    BY <1>2, <1>4, <1>5, <2>3, <2>4
  <2>6. used' \in Nat /\ WordTime * used' \in Nat
    BY <1>1, <1>2, <2>1, <2>2
  <2> QED
    BY <1>2, <1>4, <2>1, <2>3, <2>5, <2>6
<1>9. CASE Blank
  <2>1. ~vsync /\ shown' = shown /\ shown < FB_SIZE /\ timer' = IF timer < LongestTime THEN timer + 1 ELSE timer
    BY <1>9 DEF Blank, Tick
  <2>2. used' = used + m
    BY <1>3, <1>1, <1>9, <2>1 DEF Blank, Fifo
  <2>3. late(timer', shown') >= late(timer, shown) - 1 /\ late(timer', shown') \in Nat /\ late(timer, shown) \in Nat
    BY <1>1, <1>2, <2>1
  <2>4. WordTime * used' = WordTime * used + (IF m = 1 THEN WordTime ELSE 0)
    BY <1>1, <1>2, <1>5, <2>2
  <2> HIDE DEF late
  <2>5. Slack' \in Nat /\ Slack' >= Slack - 1 + (IF m = 1 THEN WordTime ELSE 0)
    BY <1>2, <1>4, <1>5, <2>3, <2>4
  <2> QED
    BY <2>1, <2>5
<1>10. CASE BeginSync
  BY <1>10 DEF BeginSync
<1> QED
  BY <1>7, <1>8, <1>9, <1>10 DEF Beam

\* In a cycle without a word the next one comes nearer, unless the reader
\* has just stopped because the FIFO has enough.
Nearer ==
  \/ Until' <= Until - 1
  \/ mem_readdataid = ID_FB /\ Until' <= 3
  \/ used >= Threshold

\* Nor does the reader ever wait for longer than two bursts of the Flash, and
\* the one of the SRAM that is its own.
LEMMA WordComes ==
  ASSUME VideoInv, DelayInv, Clock
  PROVE  /\ DelayInv'
         /\ Until' \in Nat /\ Until' <= 2 * FlashTime + 6
         /\ ~vsync => Nearer
<1>1. SsramInv /\ rst = 0 /\ request \in YariRequests /\ fb_read \in BOOLEAN /\ used \in Nat
      /\ Ctrl!Clock(mem_request, FALSE) /\ Pump
  BY DEF VideoInv, Clock
<1>2. SsramInv' /\ fb_read' \in BOOLEAN
  BY MastersOwed, ClaimedKept
<1>3. /\ DelayInv'
      /\ state # "S_IDLE" => Busy' = Busy - 1 /\ pendingid' = pendingid
      /\ state = "S_IDLE" =>
           \/ mem_request.op = "read" /\ mem_request.a < FlashFrom /\ pendingid' = mem_request.id
                /\ state' = "S_READ_BURST" /\ Busy' = burst_length - 1
           \/ mem_request.op = "read" /\ mem_request.a >= FlashFrom /\ pendingid' = 0 /\ state' = "S_READ_FLASH"
           \/ mem_request.op # "read" /\ pendingid' = 0 /\ state' = "S_IDLE"
  BY <1>1, FairRequest, BusyCounts
<1>4. /\ Busy \in Nat /\ Busy + Drain <= FlashTime /\ Drain \in 0 .. 2 /\ (state = "S_IDLE" <=> Busy = 0)
      /\ Busy' \in Nat /\ Busy' + Drain' <= FlashTime /\ Drain' \in 0 .. 2 /\ (state' = "S_IDLE" <=> Busy' = 0)
  <2>1. (SsramInv /\ DelayInv =>
           Busy \in Nat /\ Busy + Drain <= FlashTime /\ Drain \in 0 .. 2 /\ (state = "S_IDLE" <=> Busy = 0))'
    BY BusyRange, PTL
  <2> QED
    BY <1>1, <1>2, <1>3, <2>1, BusyRange
<1>5. /\ pendingid2' = pendingid /\ readdataid' = pendingid2
      /\ state # "S_READ_FLASH" => mem_readdataid' = readdataid
  BY <1>1 DEF Ctrl!Clock, Ctrl!MoveIds, Ctrl!Returned, Ctrl!FlashRead
<1>6. FlashTime \in Nat /\ burst_length \in Nat /\ FlashTime >= 6 * burst_length /\ 2 <= burst_length /\ FlashFrom \in Nat \ {0}
  BY RateConstants
<1>7. state = "S_READ_FLASH" => pendingid = 0
  BY <1>1 DEF SsramInv, FlashInv
<1>8. ID_FB # 0 /\ ID_FB # ID_YARI /\ ID_FB \in Ids
  BY VideoConstants DEF ID_FB
<1>9. NextWord \in 1 .. 4 /\ NextWord' \in 1 .. 4 /\ (pendingid = ID_FB => NextWord' <= 3)
  BY <1>5 DEF NextWord
<1>10. Busy' \in Nat /\ Drain' \in Nat /\ Busy' + Drain' <= FlashTime /\ FlashTime \in Nat /\ FlashTime >= 12
  <2>1. FlashTime >= 12
    BY <1>6
  <2>2. Busy' \in Nat
    BY <1>4
  <2>3. Drain' \in Nat
    BY <1>4
  <2>4. Busy' + Drain' <= FlashTime
    BY <1>4
  <2>5. FlashTime \in Nat
    BY <1>6
  <2> QED
    BY <2>1, <2>2, <2>3, <2>4, <2>5
<1>11. ASSUME NEW b \in Nat, NEW d \in Nat, NEW f \in Nat, f >= 12, b + d <= f
       PROVE  /\ b + d + f + 6 \in Nat /\ b + d + f + 6 <= 2 * f + 6
              /\ b + 5 \in Nat /\ b + 5 <= 2 * f + 6
  BY <1>11
<1>12. Until' \in Nat /\ Until' <= 2 * FlashTime + 6
  <2>1. Until' = IF ~fb_read' THEN Busy' + Drain' + FlashTime + 6
                 ELSE IF pendingid' = ID_FB THEN NextWord'
                 ELSE Busy' + 5
    BY DEF Until
  <2>2. CASE ~fb_read'
    <3>1. Until' = Busy' + Drain' + FlashTime + 6
      BY <2>1, <2>2
    <3> QED
      BY <1>10, <1>11, <3>1
  <2>3. CASE fb_read' /\ pendingid' = ID_FB
    BY <1>6, <1>9, <2>1, <2>3
  <2>4. CASE fb_read' /\ pendingid' # ID_FB
    <3>1. Until' = Busy' + 5
      BY <2>1, <2>4
    <3> QED
      BY <1>10, <1>11, <3>1
  <2> QED
    BY <1>2, <2>2, <2>3, <2>4
<1> SUFFICES ASSUME ~vsync PROVE Nearer
  BY <1>3, <1>12
<1>13. pendingid = ID_FB /\ pendingid' = ID_FB =>
         NextWord' <= NextWord - 1 \/ (mem_readdataid = ID_FB /\ NextWord' <= 3)
  <2> SUFFICES ASSUME pendingid = ID_FB PROVE NextWord' <= NextWord - 1 \/ (mem_readdataid = ID_FB /\ NextWord' <= 3)
    OBVIOUS
  <2>1. mem_readdataid' = readdataid
    BY <1>1, <1>5, <1>7, <1>8
  <2> QED
    BY <1>5, <1>9, <2>1 DEF NextWord
<1>14. Rest => used >= Threshold
  BY EnoughIs DEF Rest
<1>15. ~fb_waitrequest => Fetch \/ Rest
  BY <1>1 DEF Pump, Restart
<1>16. fb_waitrequest => fb_read' = fb_read
  BY <1>1 DEF Pump
<1>17. CASE fb_read /\ state = "S_IDLE"
  <2>1. mem_request.op = "read" /\ mem_request.a = 0 /\ mem_request.id = ID_FB
    BY <1>17 DEF mem_request
  <2>2. pendingid' = ID_FB
    BY <1>3, <1>6, <1>17, <2>1
  <2>3. ~fb_waitrequest
    BY <1>17, <2>1 DEF fb_waitrequest, Ctrl!mem_waitrequest
  <2>4. CASE Fetch
    <3>1. Until' = NextWord'
      BY <2>2, <2>4 DEF Fetch, Until
    <3>2. Until = IF pendingid = ID_FB THEN NextWord ELSE 5
      BY <1>4, <1>17 DEF Until
    <3>3. CASE pendingid = ID_FB
      BY <1>13, <2>2, <3>1, <3>2, <3>3 DEF Nearer
    <3>4. CASE pendingid # ID_FB
      BY <1>9, <3>1, <3>2, <3>4 DEF Nearer
    <3> QED
      BY <3>3, <3>4
  <2> QED
    BY <1>14, <1>15, <2>3, <2>4 DEF Nearer
<1>18. CASE fb_read /\ state # "S_IDLE"
  <2>1. fb_read' /\ pendingid' = pendingid /\ Busy' = Busy - 1
    BY <1>3, <1>16, <1>18 DEF fb_waitrequest, Ctrl!mem_waitrequest
  <2>2. Until = (IF pendingid = ID_FB THEN NextWord ELSE Busy + 5)
        /\ Until' = (IF pendingid = ID_FB THEN NextWord' ELSE Busy + 4)
    BY <1>4, <1>18, <2>1 DEF Until
  <2>3. CASE pendingid = ID_FB
    BY <1>13, <2>1, <2>2, <2>3 DEF Nearer
  <2>4. CASE pendingid # ID_FB
    BY <1>4, <2>2, <2>4 DEF Nearer
  <2> QED
    BY <2>3, <2>4
<1>19. CASE ~fb_read
  <2>1. Until = Busy + Drain + FlashTime + 6 /\ mem_request = request
    BY <1>19 DEF Until, mem_request
  <2>2. ~fb_read' => Until' = Busy' + Drain' + FlashTime + 6
    BY DEF Until
  <2>3. CASE state # "S_IDLE"
    <3>1. ~fb_read' /\ pendingid' = pendingid /\ Busy' = Busy - 1
      BY <1>3, <1>16, <1>19, <2>3 DEF fb_waitrequest, Ctrl!mem_waitrequest
    <3>2. state = "S_READ_FLASH" => Drain' = 0
      BY <1>2, <1>5, <1>7, <3>1 DEF Drain, SsramInv, SsramTypes
    <3>3. state = "S_READ_BURST" => Drain = 2
      BY DEF Drain
    <3>4. Drain' <= Drain
      BY <1>1, <1>4, <2>3, <3>2, <3>3 DEF SsramInv, SsramTypes
    <3>5. PICK b \in Nat : b = Busy
      BY <1>4
    <3>6. PICK d \in Nat : d = Drain
      BY <1>4
    <3>7. PICK e \in Nat : e = Drain'
      BY <1>10
    <3>8. Until = b + d + FlashTime + 6
      BY <2>1, <3>5, <3>6
    <3>9. Until' = (b - 1) + e + FlashTime + 6
      <4>1. Busy' = b - 1
        BY <3>1, <3>5
      <4> QED
        BY <2>2, <3>1, <3>7, <4>1
    <3>10. e <= d
      BY <3>4, <3>6, <3>7
    <3>11. Until' <= Until - 1
      BY <1>6, <3>8, <3>9, <3>10
    <3> QED
      BY <3>11 DEF Nearer
  <2>4. CASE state = "S_IDLE" /\ fb_waitrequest
    <3>1. request.op = "write" /\ pendingid2 # 0 /\ ~fb_read'
      BY <1>16, <1>19, <2>1, <2>4 DEF fb_waitrequest, Ctrl!mem_waitrequest
    <3>2. pendingid' = 0 /\ state' = "S_IDLE"
      BY <1>3, <2>1, <2>4, <3>1
    <3>3. Drain = (IF pendingid # 0 THEN 2 ELSE 1) /\ Drain' = (IF pendingid # 0 THEN 1 ELSE 0)
      BY <1>5, <2>4, <3>1, <3>2 DEF Drain
    <3>4. Busy = 0 /\ Busy' = 0
      BY <1>4, <2>4, <3>2
    <3> QED
      BY <1>6, <2>1, <2>2, <3>1, <3>3, <3>4 DEF Nearer
  <2>5. CASE state = "S_IDLE" /\ ~fb_waitrequest /\ Fetch
    <3>1. pendingid' # ID_FB
      <4>1. request.op = "read" => request.id = ID_YARI
        BY <1>1 DEF YariRequests, NoRequest
      <4> QED
        BY <1>3, <1>8, <2>1, <2>5, <4>1
    <3>2. Until' = Busy' + 5
      BY <2>5, <3>1 DEF Fetch, Until
    <3>3. PICK b \in Nat : b = Busy'
      BY <1>10
    <3>4. PICK e \in Nat : e = Drain'
      BY <1>10
    <3>5. b <= FlashTime
      <4>1. Busy' + Drain' <= FlashTime
        BY <1>10
      <4>2. b + e <= FlashTime
        BY <3>3, <3>4, <4>1, Zenon
      <4> QED
        BY <1>6, <4>2
    <3>6. Busy = 0 /\ Drain \in Nat
      BY <1>4, <2>5
    <3>7. Until' = b + 5 /\ Until = Drain + FlashTime + 6
      BY <2>1, <3>2, <3>3, <3>6, <1>6
    <3>8. Until' <= Until - 1
      BY <1>6, <3>5, <3>6, <3>7
    <3> QED
      BY <3>8 DEF Nearer
  <2> QED
    BY <1>14, <1>15, <2>3, <2>4, <2>5 DEF Nearer
<1> QED
  BY <1>1, <1>17, <1>18, <1>19

\* A word that is not yet in the FIFO takes a cycle.
LEMMA UntilIs ==
  ASSUME VideoInv, DelayInv
  PROVE  Until \in Nat \ {0}
<1>1. Busy \in Nat /\ Drain \in 0 .. 2 /\ FlashTime \in Nat
  BY BusyRange, RateConstants DEF VideoInv
<1>2. NextWord \in 1 .. 4
  BY DEF NextWord
<1> QED
  BY <1>1, <1>2 DEF Until

\* The slack is at least the time for which the words in the FIFO last.
LEMMA SlackIs ==
  ASSUME VideoInv, BeamTypes
  PROVE  Slack \in Nat /\ Slack >= WordTime * used /\ (timer >= Interval => Slack = WordTime * used)
<1>1. used \in Nat /\ timer \in Nat /\ WordTime \in Nat /\ Porch \in Nat
  BY LongestTimeIs DEF VideoInv, BeamTypes
<1>2. WordTime * used \in Nat
  BY <1>1, Words1
<1>3. Interval \in Nat
  BY <1>1 DEF Interval
<1> QED
  BY <1>1, <1>2, <1>3 DEF Slack

\* The beam looks for a word when the slack is that of the words in the FIFO.
LEMMA BeamFinds ==
  ASSUME VideoInv, BeamTypes, InTimeInv
  PROVE  BeamAtWord => used > 0
<1> SUFFICES ASSUME BeamAtWord, used = 0 PROVE FALSE
  BY DEF VideoInv
<1>1. Slack >= Until /\ timer >= Interval
  BY DEF InTimeInv, BeamAtWord, Interval
<1>2. Slack = WordTime * 0
  BY <1>1, SlackIs
<1> QED
  BY <1>1, <1>2, UntilIs, LongestTimeIs DEF InTimeInv

\* The next word stays nearer than the time when the beam may look for it.
LEMMA InTimeKept ==
  ASSUME BeamFed, VideoInv, BeamTypes, InTimeInv, Clock
  PROVE  BeamTypes' /\ InTimeInv'
<1>1. DelayInv /\ Beam /\ Pump
  BY DEF InTimeInv, Clock
<1>2. BeamTypes' /\ DelayInv'
  BY <1>1, BeamTypesKept, WordComes
<1> SUFFICES ASSUME ~vsync', shown' < FB_SIZE PROVE Slack' >= Until'
  BY <1>2 DEF InTimeInv
<1>3. PICK s \in Nat : s = Slack'
  BY <1>1, BeamTakes, BeamFinds
<1>4. PICK u \in Nat : u = Until'
  BY <1>1, WordComes
<1> SUFFICES s >= u
  BY <1>3, <1>4, Zenon
<1>5. FlashTime \in Nat /\ WordTime \in Nat /\ Porch \in Nat /\ Threshold \in Nat
  BY RateConstants, LongestTimeIs, VideoConstants
<1>6. u <= 2 * FlashTime + 6
  BY <1>1, <1>4, WordComes
<1>7. Slack \in Nat /\ Slack >= WordTime * used /\ Until \in Nat \ {0}
  BY <1>1, SlackIs, UntilIs
<1>8. \/ vsync /\ s >= Porch - 1
      \/ ~vsync /\ shown < FB_SIZE /\ s >= Slack - 1 + (IF mem_readdataid = ID_FB THEN WordTime ELSE 0)
  BY <1>1, <1>3, BeamTakes, BeamFinds
<1>9. CASE vsync
  BY <1>5, <1>6, <1>8, <1>9 DEF BeamFed
<1>10. CASE ~vsync
  <2>1. /\ s >= Slack - 1 + (IF mem_readdataid = ID_FB THEN WordTime ELSE 0)
        /\ Slack >= Until
    BY <1>8, <1>10 DEF InTimeInv
  <2>2. \/ u <= Until - 1
        \/ mem_readdataid = ID_FB /\ u <= 3
        \/ used >= Threshold
    BY <1>1, <1>4, <1>10, WordComes DEF Nearer
  <2>3. CASE u <= Until - 1
    BY <1>5, <1>7, <2>1, <2>3
  <2>4. CASE mem_readdataid = ID_FB /\ u <= 3
    BY <1>5, <1>7, <2>1, <2>4 DEF BeamFed
  <2>5. CASE used >= Threshold
    <3>1. WordTime * used >= WordTime * Threshold
      <4>1. used \in Nat
        BY DEF VideoInv
      <4> QED
        BY <1>5, <2>5, <4>1
    <3>2. Slack >= 2 * FlashTime + 7
      <4>1. PICK p \in Nat : p = WordTime * Threshold
        BY <1>5
      <4>2. PICK q \in Nat : q = WordTime * used
        BY <1>5 DEF VideoInv
      <4> QED
        BY <1>5, <1>7, <3>1, <4>1, <4>2 DEF BeamFed
    <3> QED
      BY <1>5, <1>6, <1>7, <2>1, <3>2
  <2> QED
    BY <2>2, <2>3, <2>4, <2>5
<1> QED
  BY <1>8, <1>9, <1>10

\* At first, in the vertical sync, the beam looks for nothing.
LEMMA InTimeStarts == Ctrl!Init /\ InitUsers => BeamTypes /\ InTimeInv
<1> SUFFICES ASSUME Ctrl!Init, InitUsers PROVE BeamTypes /\ InTimeInv
  OBVIOUS
<1>1. FB_SIZE \in Nat /\ LongestTime \in Nat
  BY VideoAssumption, LongestTimeIs
<1> QED
  BY <1>1 DEF Ctrl!Init, InitUsers, BeamTypes, InTimeInv, DelayInv

\* Until the whole steps, and in the other parts the beam rests.
RatesInv ==
  /\ part = "video" => BeamTypes /\ InTimeInv
  /\ part # "video" => vsync = TRUE /\ shown = FB_SIZE

\* So it is in all behaviors.
LEMMA RatesKept == ASSUME BeamFed PROVE MCSpec => []RatesInv
<1>1. MCInit => RatesInv
  BY InTimeStarts DEF MCInit, RatesInv, InitUsers
<1>2. UsersInv /\ RatesInv /\ [MCNext]_all => RatesInv'
  <2> SUFFICES ASSUME UsersInv, RatesInv, [MCNext]_all PROVE RatesInv'
    OBVIOUS
  <2>1. part' = part
    BY DEF MCNext, all
  <2>2. CASE part = "video" /\ Clock
    BY <2>1, <2>2, InTimeKept DEF UsersInv, RatesInv
  <2>3. CASE part = "video" /\ UNCHANGED all
    <3>1. UNCHANGED <<state, cnt, pendingid, pendingid2, readdataid, mem_readdataid, flash_address, flash_delay>>
      BY <2>3 DEF all, vars, ctrl
    <3>2. UNCHANGED <<fb_read, used, vsync, vsync_, shown, timer>>
      BY <2>3 DEF all, vars, pump, beam
    <3>3. BeamTypes' <=> BeamTypes
      BY <3>2 DEF BeamTypes
    <3>4. Slack' = Slack /\ Until' = Until
      BY <3>1, <3>2 DEF Slack, Interval, Until, Busy, Drain, NextWord
    <3>5. InTimeInv' <=> InTimeInv
      BY <3>1, <3>2, <3>4 DEF InTimeInv, DelayInv
    <3> QED
      BY <2>1, <2>3, <3>3, <3>5 DEF RatesInv
  <2>4. CASE part # "video"
    <3>1. vsync' = vsync /\ shown' = shown
      BY <2>4 DEF MCNext, all, users, vars, beam
    <3> QED
      BY <2>1, <2>4, <3>1 DEF RatesInv
  <2> QED
    BY <2>2, <2>3, <2>4 DEF MCNext
<1> QED
  BY <1>1, <1>2, UsersKept, PTL DEF MCSpec

\* The beam never finds the FIFO empty, whatever the processor asks for, if the
\* words below the threshold, and the time before the first word of a frame,
\* last for two bursts of the Flash and one of the SRAM: the reader goes before
\* the processor, but waits for the burst that the controller has taken, and
\* the cycle in which it stops may let in one more.
THEOREM BeamNeverStarves == BeamFed => (MCSpec => []NeverRed)
<1> SUFFICES ASSUME BeamFed PROVE MCSpec => []NeverRed
  OBVIOUS
<1>1. UsersInv /\ RatesInv => NeverRed
  <2>1. CASE part = "video"
    BY <2>1, BeamFinds DEF UsersInv, RatesInv, NeverRed
  <2>2. CASE part # "video"
    BY <2>2 DEF RatesInv, NeverRed, BeamAtWord
  <2> QED
    BY <2>1, <2>2
<1> QED
  BY <1>1, UsersKept, RatesKept, PTL

----------------------------------------------------------------------------
(* How often the reader goes before the processor.                         *)

\* A burst of the SRAM is shorter than a vertical sync; and while the reader
\* takes words at one a cycle, the beam does not take so many that the FIFO
\* stays below the threshold until twice that many have come.
TurnRates ==
  /\ burst_length <= SyncCycles
  /\ WordTime <= Porch
  /\ (2 * Threshold) % burst_length = 0
  /\ WordTime * (Threshold + 4) <= (WordTime - 1) * (2 * Threshold - burst_length)

\* Cycles since the last word, no longer than one may last.
SinceWord == IF timer < WordTime THEN timer ELSE WordTime

\* Of the words that were asked for while the processor waits, those that the
\* beam has taken.
BeamTook == passed * burst_length - used - OnTheWay(ID_FB)

\* From the second burst on the reader gets a word in each cycle, in which
\* the beam takes at most one in WordTime.
TurnInv ==
  /\ passed \in Nat
  /\ passed * burst_length <= 2 * Threshold
  /\ fb_read => (passed + 1) * burst_length <= 2 * Threshold
  /\ fb_read /\ passed > 0 =>
       /\ state # "S_READ_FLASH" /\ pendingid = ID_FB
       /\ ~vsync => WordTime * BeamTook + SinceWord <= passed * burst_length - Busy + WordTime - 1
       /\ vsync => timer + Busy <= burst_length

\* In a cycle the beam takes no word, or the first in WordTime cycles.
LEMMA BeamShows ==
  ASSUME VideoInv, BeamTypes, Beam, WordTime <= Porch, ~vsync, ~vsync'
  PROVE  /\ SinceWord' \in Nat /\ SinceWord' <= WordTime
         /\ \/ /\ used' = used + (IF mem_readdataid = ID_FB THEN 1 ELSE 0)
               /\ SinceWord' <= SinceWord + 1
            \/ /\ used > 0
               /\ used' = used + (IF mem_readdataid = ID_FB THEN 1 ELSE 0) - 1
               /\ SinceWord = WordTime /\ SinceWord' = 1
<1>1. used \in Nat /\ shown \in Nat /\ timer \in Nat
  BY VideoAssumption, LongestTimeIs DEF BeamTypes, VideoInv
<1>2. WordTime \in Nat \ {0} /\ Porch \in Nat \ {0} /\ LongestTime \in Nat \ {0}
  BY LongestTimeIs
<1>3. ~fifo_full
  BY EnoughIs
<1>4. CASE Show
  <2>1. timer >= (IF shown = 0 THEN Porch ELSE WordTime) /\ timer' = 1
    BY <1>4 DEF Show, BeamAtWord
  <2>2. used' = used + (IF mem_readdataid = ID_FB THEN 1 ELSE 0) - (IF used = 0 THEN 0 ELSE 1)
    BY <1>3, <1>4 DEF Show, Fifo
  <2>3. SinceWord = WordTime /\ SinceWord' = 1
    BY <1>1, <1>2, <2>1 DEF SinceWord
  <2> QED
    BY <1>1, <1>2, <2>2, <2>3
<1>5. CASE Blank
  <2>1. timer' = IF timer < LongestTime THEN timer + 1 ELSE timer
    BY <1>5 DEF Blank, Tick
  <2>2. used' = used + (IF mem_readdataid = ID_FB THEN 1 ELSE 0)
    BY <1>1, <1>3, <1>5 DEF Blank, Fifo
  <2>3. SinceWord' \in Nat /\ SinceWord' <= WordTime /\ SinceWord' <= SinceWord + 1
    BY <1>1, <1>2, <2>1 DEF SinceWord
  <2> QED
    BY <2>2, <2>3
<1> QED
  BY <1>4, <1>5 DEF Beam, BeginSync, EndSync

\* Where the reader goes on.
LEMMA TurnBound ==
  ASSUME TurnRates, NEW n \in Nat, NEW u \in Nat, NEW o \in Nat, NEW s \in Nat,
         u < Threshold, o <= 4,
         WordTime * (n * burst_length - u - o) + s <= n * burst_length + WordTime - 1
  PROVE  (n + 2) * burst_length <= 2 * Threshold
<1>1. Threshold \in Nat /\ burst_length \in Nat \ {0} /\ WordTime \in Nat \ {0} /\ 2 * burst_length + 4 <= Threshold
  BY VideoConstants, LongestTimeIs
<1>2. PICK k \in Nat : 2 * Threshold = burst_length * k
  <2> DEFINE T == 2 * Threshold
             k == T \div burst_length
  <2>1. T \in Nat /\ (T % burst_length) = 0
    BY <1>1 DEF TurnRates
  <2> HIDE DEF T
  <2>2. T = burst_length * k + (T % burst_length) /\ k \in Nat
    BY <1>1, <2>1, DivMod
  <2> HIDE DEF k
  <2>3. T = burst_length * k
    BY <1>1, <2>1, <2>2
  <2> QED
    BY <2>2, <2>3 DEF T
<1>3. PICK p \in Nat : p = n * burst_length
  BY <1>1
<1>4. PICK w \in Nat : w = WordTime - 1
  BY <1>1
<1>5. w * p < w * (2 * Threshold - burst_length)
  <2>1. WordTime * (p - u - o) >= WordTime * (p - (Threshold + 3))
    <3>1. PICK x \in Int : x = p - u - o
      BY <1>1
    <3>2. PICK d \in Nat : x = p - (Threshold + 3) + d
      <4>1. x - (p - (Threshold + 3)) \in Nat
        BY <1>1, <3>1
      <4> QED
        BY <1>1, <3>1, <4>1
    <3>3. WordTime * x = WordTime * (p - (Threshold + 3)) + WordTime * d /\ WordTime * d \in Nat
      BY <1>1, <3>2
    <3>4. WordTime * (p - (Threshold + 3)) \in Int
      BY <1>1
    <3> QED
      BY <3>1, <3>3, <3>4
  <2>2. WordTime * (p - (Threshold + 3)) <= p + WordTime - 1
    <3>1. WordTime * (p - u - o) + s <= p + WordTime - 1
      BY <1>3
    <3>2. WordTime * (p - u - o) \in Int /\ WordTime * (p - (Threshold + 3)) \in Int
      BY <1>1
    <3> QED
      BY <1>1, <2>1, <3>1, <3>2
  <2>3. WordTime * (p - (Threshold + 3)) = w * p + p - WordTime * (Threshold + 4) + WordTime
    <3>1. WordTime * p = w * p + p
      BY <1>1, <1>4
    <3> QED
      BY <1>1, <1>4, <3>1
  <2>4. w * p \in Nat /\ WordTime * (Threshold + 4) \in Nat
    BY <1>1, <1>4
  <2>5. w * p < WordTime * (Threshold + 4)
    BY <1>1, <2>2, <2>3, <2>4
  <2>6. WordTime * (Threshold + 4) <= w * (2 * Threshold - burst_length)
    BY <1>4 DEF TurnRates
  <2>7. w * (2 * Threshold - burst_length) \in Int
    BY <1>1, <1>4
  <2> QED
    BY <2>4, <2>5, <2>6, <2>7
<1>6. p < 2 * Threshold - burst_length
  <2> SUFFICES ASSUME p >= 2 * Threshold - burst_length PROVE FALSE
    BY <1>1
  <2>1. PICK t \in Nat : t = 2 * Threshold - burst_length
    <3>1. 2 * Threshold - burst_length \in Nat
      BY ONLY <1>1
    <3> QED
      BY <3>1
  <2>2. PICK d \in Nat : p = t + d
    <3>1. p - t \in Nat
      BY <1>1, <2>1
    <3> QED
      BY <2>1, <3>1
  <2>3. w * p = w * t + w * d /\ w * d \in Nat /\ w * t \in Nat
    BY <1>4, <2>1, <2>2
  <2> QED
    BY <1>5, <2>1, <2>3
<1>7. burst_length * (n + 1) < burst_length * k
  <2>1. burst_length * (n + 1) = p + burst_length
    BY <1>1, <1>3
  <2> QED
    BY <1>1, <1>2, <1>6, <2>1
<1>8. n + 1 < k
  <2> SUFFICES ASSUME n + 1 >= k PROVE FALSE
    BY <1>2
  <2>1. burst_length * (n + 1) >= burst_length * k
    BY <1>1, <1>2
  <2>2. burst_length * (n + 1) \in Nat /\ burst_length * k \in Nat
    BY <1>1, <1>2
  <2> QED
    BY <1>7, <2>1, <2>2
<1>9. (n + 2) * burst_length <= burst_length * k
  BY <1>1, <1>2, <1>8
<1> QED
  BY <1>2, <1>9

\* What the controller takes while the processor waits for the reader.
LEMMA ReaderTakes ==
  ASSUME VideoInv, DelayInv, Clock, fb_read
  PROVE  /\ fb_waitrequest <=> state # "S_IDLE"
         /\ state = "S_IDLE" =>
              pendingid' = ID_FB /\ state' = "S_READ_BURST" /\ Busy' = burst_length - 1
         /\ state # "S_IDLE" =>
              Busy' = Busy - 1 /\ pendingid' = pendingid /\ state' \in {state, "S_IDLE"}
<1>1. mem_request.op = "read" /\ mem_request.a = 0 /\ mem_request.id = ID_FB
  BY DEF mem_request
<1>2. fb_waitrequest <=> state # "S_IDLE"
  BY <1>1 DEF fb_waitrequest, Ctrl!mem_waitrequest
<1>3. SsramInv /\ rst = 0 /\ request \in YariRequests /\ Ctrl!Clock(mem_request, FALSE)
  BY DEF VideoInv, Clock
<1>4. /\ mem_request.op = "read" => mem_request.id \in Ids /\ mem_request.a \in Lines
      /\ mem_request.op = "write" => mem_request.a \in Addr /\ DOMAIN mem_request.w \subseteq Lanes
  <2>1. fb_read \in BOOLEAN
    BY DEF VideoInv
  <2> QED
    BY <1>3, <2>1, FairRequest
<1>5. /\ state = "S_IDLE" =>
           \/ pendingid' = ID_FB /\ state' = "S_READ_BURST" /\ Busy' = burst_length - 1
           \/ 0 >= FlashFrom
      /\ state # "S_IDLE" =>
           Busy' = Busy - 1 /\ pendingid' = pendingid /\ state' \in {state, "S_IDLE"}
  BY <1>1, <1>3, <1>4, BusyCounts
<1> QED
  BY <1>2, <1>5, RateConstants

\* The beam does not take more than one word in WordTime cycles.
LEMMA TookCounts ==
  ASSUME NEW W \in Nat \ {0}, NEW x \in Int, NEW y \in Int, NEW s \in Nat, NEW t \in Nat, NEW r \in Int,
         W * x + s <= r, t <= W,
         (y = x /\ t <= s + 1) \/ (y = x + 1 /\ s = W /\ t = 1)
  PROVE  W * y + t <= r + 1
<1>1. PICK p \in Int : p = W * x
  OBVIOUS
<1>2. CASE y = x /\ t <= s + 1
  BY <1>1, <1>2
<1>3. CASE y = x + 1 /\ s = W /\ t = 1
  <2>1. W * y = p + W
    BY <1>1, <1>3
  <2>2. p + s <= r
    BY <1>1
  <2> QED
    BY <1>1, <1>3, <2>1, <2>2
<1> QED
  BY <1>2, <1>3

\* While the reader goes on it gets a word in each cycle, and so it comes to
\* the threshold before it has gone first too often.
LEMMA TurnKept ==
  ASSUME TurnRates, VideoInv, BeamTypes, DelayInv, TurnInv, Clock
  PROVE  TurnInv'
<1>1. Beam /\ Pump /\ SsramInv /\ Threshold \in Nat /\ burst_length \in Nat /\ 2 <= burst_length
      /\ 2 * burst_length + 4 <= Threshold /\ passed \in Nat
  BY RateConstants, VideoConstants DEF Clock, VideoInv, TurnInv
<1>2. passed' = IF request.op = "none" \/ Taken THEN 0
                ELSE IF fb_read /\ ~fb_waitrequest THEN passed + 1 ELSE passed
  BY DEF Clock, Yari
<1>3. CASE passed' = 0
  <2>1. (passed' + 1) * burst_length = burst_length /\ passed' * burst_length = 0
    BY <1>1, <1>3
  <2> QED
    BY <1>1, <1>3, <2>1 DEF TurnInv
<1>4. CASE ~fb_read /\ passed' # 0
  <2>1. fb_waitrequest /\ passed' = passed
    BY <1>2, <1>4 DEF Taken, yari_waitrequest
  <2>2. ~fb_read'
    BY <1>1, <1>4, <2>1 DEF Pump
  <2> QED
    BY <2>1, <2>2 DEF TurnInv
<1>5. ASSUME fb_read, passed' # 0
      PROVE  TurnInv'
  <2>1. passed' = passed + (IF fb_waitrequest THEN 0 ELSE 1)
    BY <1>1, <1>2, <1>5
  <2>2. /\ fb_waitrequest <=> state # "S_IDLE"
        /\ state = "S_IDLE" =>
             pendingid' = ID_FB /\ state' = "S_READ_BURST" /\ Busy' = burst_length - 1
        /\ state # "S_IDLE" =>
             Busy' = Busy - 1 /\ pendingid' = pendingid /\ state' \in {state, "S_IDLE"}
    BY <1>5, ReaderTakes DEF Clock
  <2>3. PICK p \in Nat : p = passed * burst_length
    BY <1>1
  <2>4. p + burst_length <= 2 * Threshold
    <3>1. (passed + 1) * burst_length = p + burst_length
      BY <1>1, <2>3
    <3> QED
      BY <1>5, <3>1 DEF TurnInv
  <2>5. /\ OnTheWay(ID_FB) \in Nat /\ used \in Nat
        /\ state = "S_IDLE" => OnTheWay(ID_FB) <= 4
    BY OnTheWayNat DEF VideoInv
  <2>6. OnTheWay(ID_FB)' = OnTheWay(ID_FB) - (IF mem_readdataid = ID_FB THEN 1 ELSE 0)
          + (IF fb_waitrequest THEN 0 ELSE burst_length)
    BY <1>5, MastersOwed
  <2>7. PICK o \in Int : o = OnTheWay(ID_FB)'
    BY <1>1, <2>5, <2>6
  <2>8. timer \in Nat /\ WordTime \in Nat \ {0} /\ SinceWord \in Nat /\ SinceWord <= WordTime
    BY LongestTimeIs DEF BeamTypes, SinceWord
  <2>9. passed > 0 => state # "S_READ_FLASH" /\ pendingid = ID_FB
    BY <1>5 DEF TurnInv
  <2>10. Busy \in Nat /\ (state = "S_IDLE" <=> Busy = 0) /\ (state = "S_READ_BURST" => Busy <= burst_length - 1)
    BY <1>1, BusyRange
  <2>11. ASSUME ~vsync, ~vsync', passed > 0
         PROVE  WordTime * BeamTook' + SinceWord' <= passed' * burst_length - Busy' + WordTime - 1
    <3> DEFINE m == IF mem_readdataid = ID_FB THEN 1 ELSE 0
    <3>1. PICK t \in Nat : t = SinceWord' /\ t <= WordTime
      BY <1>1, <2>11, BeamShows DEF TurnRates
    <3>2. PICK q \in Nat : q = (IF fb_waitrequest THEN 0 ELSE burst_length)
      BY <1>1
    <3>3. passed' * burst_length = p + q
      BY <1>1, <2>1, <2>3, <3>2
    <3>4. PICK v \in Int : v = used'
      BY <1>1, <2>5, <2>11, BeamShows DEF TurnRates
    <3>5. PICK y \in Int : y = p + q - v - o
      OBVIOUS
    <3>6. y = BeamTook'
      BY <2>7, <3>3, <3>4, <3>5 DEF BeamTook
    <3>7. PICK x \in Int : x = p - used - OnTheWay(ID_FB)
      BY <2>5
    <3>8. BeamTook = x
      BY <2>3, <3>7 DEF BeamTook
    <3>9. \/ v = used + m /\ t <= SinceWord + 1
          \/ v = used + m - 1 /\ SinceWord = WordTime /\ t = 1
      BY <1>1, <2>11, <3>1, <3>4, BeamShows DEF TurnRates
    <3>10. o = OnTheWay(ID_FB) - m + q
      BY <2>6, <2>7, <3>2
    <3>11. (y = x /\ t <= SinceWord + 1) \/ (y = x + 1 /\ SinceWord = WordTime /\ t = 1)
      BY <1>1, <2>5, <3>4, <3>5, <3>7, <3>9, <3>10
    <3>12. PICK r \in Int : r = p - Busy + WordTime - 1
      BY <2>8, <2>10
    <3>13. WordTime * x + SinceWord <= r
      BY <1>5, <2>3, <2>11, <3>8, <3>12 DEF TurnInv
    <3>14. WordTime * y + t <= r + 1
      BY <2>8, <3>1, <3>11, <3>13, TookCounts
    <3>15. PICK b \in Int : b = Busy'
      BY <1>1, <2>2, <2>10
    <3>16. r + 1 = (p + q) - b + WordTime - 1
      <4>1. CASE fb_waitrequest
        <5>1. b = Busy - 1 /\ q = 0
          BY <2>2, <3>2, <3>15, <4>1
        <5> QED
          BY <2>8, <2>10, <3>12, <5>1
      <4>2. CASE ~fb_waitrequest
        <5>1. b = burst_length - 1 /\ q = burst_length /\ Busy = 0
          BY <2>2, <2>10, <3>2, <3>15, <4>2
        <5> QED
          BY <1>1, <2>8, <3>12, <5>1
      <4> QED
        BY <4>1, <4>2
    <3>17. WordTime * y + t <= (p + q) - b + WordTime - 1
      BY <3>14, <3>16
    <3> QED
      <4>1. WordTime * BeamTook' + t <= (p + q) - b + WordTime - 1
        BY <3>6, <3>17, Zenon
      <4>2. WordTime * BeamTook' + SinceWord' <= (p + q) - b + WordTime - 1
        BY <3>1, <4>1, Zenon
      <4>3. WordTime * BeamTook' + SinceWord' <= passed' * burst_length - b + WordTime - 1
        BY <3>3, <4>2, Zenon
      <4> QED
        BY <3>15, <4>3, Zenon
  <2>12. ASSUME vsync', passed > 0 \/ state = "S_IDLE", state # "S_IDLE" \/ ~vsync, fb_read'
         PROVE  timer' + Busy' <= burst_length
    <3>1. PICK b \in Nat : b = Busy' /\ b <= burst_length - 1 /\ (state # "S_IDLE" => b = Busy - 1)
      <4>1. CASE state = "S_IDLE"
        BY <1>1, <2>2, <4>1
      <4>2. CASE state # "S_IDLE"
        <5>1. state = "S_READ_BURST"
          BY <1>1, <2>9, <2>12, <4>2 DEF SsramInv, SsramTypes
        <5> QED
          BY <1>1, <2>2, <2>10, <4>2, <5>1
      <4> QED
        BY <4>1, <4>2
    <3>2. b <= burst_length - 1 /\ (state # "S_IDLE" => b = Busy - 1)
      BY <3>1
    <3>3. CASE ~vsync
      <4>1. timer' = 1
        BY <1>1, <2>12, <3>3 DEF Beam, Show, Blank, BeginSync, EndSync
      <4>2. 1 + b <= burst_length
        BY <1>1, <3>2
      <4> QED
        BY <3>1, <4>1, <4>2, Zenon
    <3>4. CASE vsync
      <4>1. timer' = IF timer < LongestTime THEN timer + 1 ELSE timer
        BY <1>1, <2>12, <3>4 DEF Beam, Show, BeamAtWord, Blank, Tick, BeginSync, EndSync
      <4>2. timer + Busy <= burst_length /\ b = Busy - 1
        BY <1>5, <2>12, <3>1, <3>4 DEF TurnInv
      <4>3. PICK n \in Nat : n = timer' /\ n <= timer + 1
        BY <2>8, <4>1, LongestTimeIs
      <4>4. n <= timer + 1
        BY <4>3
      <4>5. n + b <= burst_length
        BY <1>1, <2>8, <2>10, <4>2, <4>4
      <4> QED
        BY <3>1, <4>3, <4>5, Zenon
    <3> QED
      BY <3>3, <3>4 DEF BeamTypes
  <2>13. CASE fb_waitrequest
    <3>1. fb_read' = fb_read /\ state # "S_IDLE" /\ passed' = passed /\ passed > 0
      BY <1>1, <1>5, <2>1, <2>2, <2>13 DEF Pump
    <3>2. state' # "S_READ_FLASH" /\ pendingid' = ID_FB
      BY <2>2, <2>9, <3>1
    <3>3. ~(vsync /\ ~vsync')
      <4> SUFFICES ASSUME vsync, ~vsync' PROVE FALSE
        OBVIOUS
      <4>1. timer >= SyncCycles
        BY <1>1 DEF Beam, Show, BeamAtWord, Blank, BeginSync, EndSync
      <4>2. timer + Busy <= burst_length /\ Busy > 0
        BY <1>5, <2>10, <3>1 DEF TurnInv
      <4> QED
        BY <1>1, <2>8, <2>10, <4>1, <4>2, LongestTimeIs DEF TurnRates
    <3> QED
      BY <1>5, <2>11, <2>12, <3>1, <3>2, <3>3 DEF TurnInv
  <2>14. CASE ~fb_waitrequest
    <3>1. state = "S_IDLE" /\ passed' = passed + 1 /\ pendingid' = ID_FB /\ state' = "S_READ_BURST"
      BY <2>1, <2>2, <2>14
    <3>2. passed' \in Nat /\ passed' * burst_length <= 2 * Threshold
      BY <1>1, <1>5, <3>1 DEF TurnInv
    <3>3. fb_read' => ~vsync /\ used < Threshold
      <4> SUFFICES ASSUME fb_read' PROVE ~vsync /\ used < Threshold
        OBVIOUS
      <4>1. ~vsync
        BY <1>1, <2>14 DEF Pump, Restart, Rest, Fetch
      <4>2. used < Threshold
        BY <1>1, <2>14, ReaderAsks
      <4> QED
        BY <4>1, <4>2
    <3>4. fb_read' => (passed' + 1) * burst_length <= 2 * Threshold
      <4> SUFFICES ASSUME fb_read' PROVE (passed + 2) * burst_length <= 2 * Threshold
        BY <1>1, <3>1
      <4>1. CASE passed = 0
        BY <1>1, <4>1
      <4>2. CASE passed > 0
        <5>1. WordTime * BeamTook + SinceWord <= passed * burst_length + WordTime - 1
          <6>1. WordTime * BeamTook + SinceWord <= passed * burst_length - Busy + WordTime - 1 /\ Busy = 0
            BY <1>5, <2>10, <3>1, <3>3, <4>2 DEF TurnInv
          <6>2. p - 0 + WordTime - 1 = p + WordTime - 1
            BY <2>8
          <6> QED
            BY <2>3, <6>1, <6>2
        <5> QED
          BY <1>1, <2>5, <2>8, <3>1, <3>3, <5>1, TurnBound DEF BeamTook
      <4> QED
        BY <1>1, <4>1, <4>2
    <3>5. ASSUME fb_read', ~vsync', passed = 0
          PROVE  WordTime * BeamTook' + SinceWord' <= passed' * burst_length - Busy' + WordTime - 1
      <4> DEFINE m == IF mem_readdataid = ID_FB THEN 1 ELSE 0
      <4>1. PICK t \in Nat : t = SinceWord' /\ t <= WordTime
        BY <1>1, <3>3, <3>5, BeamShows DEF TurnRates
      <4>2. passed' * burst_length = burst_length /\ Busy' = burst_length - 1
        BY <1>1, <2>2, <3>1, <3>5
      <4>3. PICK v \in Int : v = used'
        BY <1>1, <2>5, <3>3, <3>5, BeamShows DEF TurnRates
      <4>4. v = used + m \/ (v = used + m - 1 /\ used > 0)
        BY <1>1, <3>3, <3>5, <4>3, BeamShows DEF TurnRates
      <4>5. o = OnTheWay(ID_FB) - m + burst_length
        BY <2>6, <2>7, <2>14
      <4>6. PICK y \in Int : y = burst_length - v - o
        BY <1>1
      <4>7. y = BeamTook'
        BY <2>7, <4>2, <4>3, <4>6 DEF BeamTook
      <4>8. y <= 0
        BY <1>1, <2>5, <4>4, <4>5, <4>6
      <4>9. WordTime * y <= 0
        <5>1. PICK z \in Nat : y = -z
          <6>1. -y \in Nat /\ y = -(-y)
            BY <4>8
          <6> QED
            BY <6>1
        <5>2. WordTime * y = -(WordTime * z) /\ WordTime * z \in Nat
          BY <2>8, <5>1
        <5> QED
          BY <5>2
      <4>10. WordTime * y + t <= burst_length - (burst_length - 1) + WordTime - 1
        <5>1. PICK z \in Int : z = WordTime * y
          BY <2>8
        <5>2. t <= WordTime
          BY <4>1
        <5> QED
          BY <1>1, <2>8, <4>9, <5>1, <5>2
      <4>11. WordTime * BeamTook' + SinceWord' <= burst_length - (burst_length - 1) + WordTime - 1
        BY <4>1, <4>7, <4>10, Zenon
      <4> QED
        BY <4>2, <4>11, Zenon
    <3> QED
      BY <1>1, <1>5, <2>11, <2>12, <3>1, <3>2, <3>3, <3>4, <3>5 DEF TurnInv
  <2> QED
    BY <2>13, <2>14
<1> QED
  BY <1>3, <1>4, <1>5 DEF VideoInv

\* Of the whole.
TurnsInv ==
  /\ part = "video" => BeamTypes /\ DelayInv /\ TurnInv
  /\ part # "video" => passed = 0

\* So it is in all behaviors.
LEMMA TurnsKept == ASSUME TurnRates PROVE MCSpec => []TurnsInv
<1>1. MCInit => TurnsInv
  <2> SUFFICES ASSUME MCInit PROVE TurnsInv
    OBVIOUS
  <2>1. InitUsers /\ (part = "video" => Ctrl!Init)
    BY DEF MCInit
  <2>2. part = "video" => BeamTypes /\ DelayInv
    BY <2>1, InTimeStarts DEF InTimeInv
  <2>3. passed = 0 /\ ~fb_read
    BY <2>1 DEF InitUsers
  <2>4. TurnInv
    BY <2>3, VideoConstants DEF TurnInv
  <2> QED
    BY <2>2, <2>3, <2>4 DEF TurnsInv
<1>2. UsersInv /\ TurnsInv /\ [MCNext]_all => TurnsInv'
  <2> SUFFICES ASSUME UsersInv, TurnsInv, [MCNext]_all PROVE TurnsInv'
    OBVIOUS
  <2>1. part' = part
    BY DEF MCNext, all
  <2>2. CASE part = "video" /\ Clock
    <3>1. VideoInv /\ BeamTypes /\ DelayInv /\ TurnInv
      BY <2>2 DEF UsersInv, TurnsInv
    <3>2. BeamTypes'
      BY <2>2, <3>1, BeamTypesKept DEF Clock
    <3> QED
      BY <2>1, <2>2, <3>1, <3>2, WordComes, TurnKept DEF TurnsInv
  <2>3. CASE part = "video" /\ UNCHANGED all
    <3>1. UNCHANGED <<state, cnt, pendingid, pendingid2, readdataid, mem_readdataid, flash_id,
                      flash_address, flash_delay>>
      BY <2>3 DEF all, vars, ctrl
    <3>2. UNCHANGED <<fb_read, used, vsync, vsync_, shown, timer, passed>>
      BY <2>3 DEF all, vars, pump, beam, yari
    <3>3. BeamTypes' <=> BeamTypes
      BY <3>2 DEF BeamTypes
    <3>4. BeamTook' = BeamTook /\ SinceWord' = SinceWord /\ Busy' = Busy
      BY <3>1, <3>2 DEF BeamTook, SinceWord, Busy, OnTheWay, Ctrl!Bursting, FlashLeft
    <3>5. (TurnInv' <=> TurnInv) /\ (DelayInv' <=> DelayInv)
      BY <3>1, <3>2, <3>4 DEF TurnInv, DelayInv
    <3> QED
      BY <2>1, <2>3, <3>3, <3>5 DEF TurnsInv
  <2>4. CASE part # "video"
    <3>1. passed' = passed
      BY <2>4 DEF MCNext, all, users, vars, yari
    <3> QED
      BY <2>1, <2>4, <3>1 DEF TurnsInv
  <2> QED
    BY <2>2, <2>3, <2>4 DEF MCNext
<1> QED
  BY <1>1, <1>2, UsersKept, PTL DEF MCSpec

\* The reader does not go before a waiting processor more often than fills
\* the FIFO to twice the threshold, at rates at which it comes to the threshold
\* at all.
THEOREM YariNeverWaitsLong == TurnRates => (MCSpec => []YariGetsItsTurn)
<1> SUFFICES ASSUME TurnRates PROVE MCSpec => []YariGetsItsTurn
  OBVIOUS
<1>1. TurnsInv => YariGetsItsTurn
  <2>1. 0 * burst_length <= 2 * Threshold
    BY VideoConstants
  <2> QED
    BY <2>1 DEF TurnsInv, TurnInv, YariGetsItsTurn
<1> QED
  BY <1>1, TurnsKept, PTL

----------------------------------------------------------------------------
(* Types.                                                                  *)

ReaderTypes == {fb_address, next} \subseteq 0 .. AddressMod - 1

\* The processor has at most two reads under way, and asks for the second
\* when the words of one of them are all that it has yet to get.
DueInv ==
  /\ due <= 2 * burst_length
  /\ request.op = "read" => due <= burst_length

\* The controller notes only the ids of its masters.
LEMMA FlashIdKept ==
  ASSUME flash_id \in Ids \cup {0}, NEW req, NEW reset,
         req.op = "read" => req.id \in Ids,
         Ctrl!Clock(req, reset)
  PROVE  flash_id' \in Ids \cup {0}
BY DEF Ctrl!Clock, Ctrl!ReadFlash, Ctrl!Read, Ctrl!Store, Ctrl!Idle, Ctrl!ReadBurst, Ctrl!FlashWait,
       Ctrl!FlashRead, Ctrl!wait

\* The reader's addresses wrap.
LEMMA ReaderTypesKept ==
  ASSUME ReaderTypes, Pump
  PROVE  ReaderTypes'
<1>1. AddressMod \in Nat \ {0} /\ FB_BEGIN \in 0 .. AddressMod - 1
  BY VideoAssumption
<1>2. next \in Nat /\ (next + 4) % AddressMod \in 0 .. AddressMod - 1
  BY <1>1 DEF ReaderTypes
<1> QED
  BY <1>1, <1>2 DEF ReaderTypes, Pump, Restart, Fetch, Rest

\* A request that is waiting does not let more than two bursts be due.
LEMMA DueKept ==
  ASSUME VideoInv, DueInv, Clock
  PROVE  DueInv'
<1>1. due \in Nat /\ burst_length \in Nat
  BY OnTheWayNat, VideoConstants DEF VideoInv
<1>2. due' = due + (IF Taken /\ request.op = "read" THEN burst_length ELSE 0) - (IF Arrived THEN 1 ELSE 0)
  BY DEF Clock, Yari
<1>3. PICK q \in Nat : q = IF Taken /\ request.op = "read" THEN burst_length ELSE 0
  BY <1>1
<1>4. PICK m \in Nat : m = IF Arrived THEN 1 ELSE 0
  OBVIOUS
<1>5. due' = due + q - m
  BY <1>2, <1>3, <1>4
<1>6. due + q - m \in Int
  BY <1>1
<1>7. PICK d \in Int : d = due'
  BY <1>5, <1>6
<1>8. d = due + q - m
  BY <1>7, <1>5
<1>9. d <= 2 * burst_length
  BY <1>1, <1>3, <1>8 DEF DueInv
<1>10. \/ request' \in MayAsk
       \/ request' = request /\ ~Taken
  BY DEF Clock, Yari
<1>11. request' \in MayAsk => (request'.op = "read" => d <= burst_length)
  BY <1>7 DEF MayAsk
<1>12. ~Taken => d <= due
  BY <1>1, <1>3, <1>8
<1>13. request' = request /\ ~Taken => (request'.op = "read" => d <= burst_length)
  BY <1>1, <1>12 DEF DueInv
<1> QED
  BY <1>7, <1>9, <1>10, <1>11, <1>13 DEF DueInv

\* Of the whole: each part has the invariant of its own theorem.
TypesInv ==
  /\ part \in {"blockram", "sram", "sram16", "ssram", "video"}
  /\ part = "blockram" => BlockInv
  /\ part = "sram" => SramInv
  /\ part = "sram16" => Sram16Inv
  /\ part = "ssram" => SsramInv
  /\ part \in {"ssram", "video"} => flash_id \in Ids \cup {0}
  /\ part = "video" => ReaderTypes /\ DueInv

\* Each part keeps the types that its own invariant says.
LEMMA TypesKept == MCSpec => []TypesInv
<1>1. MCInit => TypesInv
  <2> SUFFICES ASSUME MCInit PROVE TypesInv
    OBVIOUS
  <2>1. ReaderTypes
    BY VideoAssumption DEF MCInit, InitUsers, ReaderTypes
  <2>2. DueInv
    BY VideoConstants DEF MCInit, InitUsers, DueInv, NoRequest
  <2>3. part \in {"ssram", "video"} => flash_id \in Ids \cup {0}
    BY DEF MCInit, Ctrl!Init
  <2> QED
    BY <2>1, <2>2, <2>3, BlockStarts, SramStarts, Sram16Starts, SsramStarts DEF MCInit, TypesInv
<1>2. UsersInv /\ TypesInv /\ [MCNext]_all => TypesInv'
  <2> SUFFICES ASSUME UsersInv, TypesInv, [MCNext]_all PROVE TypesInv'
    OBVIOUS
  <2>1. part' = part
    BY DEF MCNext, all
  <2>2. CASE part = "blockram" /\ Block!Next
    BY <2>1, <2>2, BlockRefines DEF TypesInv
  <2>3. CASE part = "sram" /\ Sram!Next
    BY <2>1, <2>3, SramRefines DEF TypesInv
  <2>4. CASE part = "sram16" /\ Sram16!Next
    BY <2>1, <2>4, Sram16Refines DEF TypesInv
  <2>5. CASE part = "ssram" /\ Ctrl!Next
    <3>1. flash_id' \in Ids \cup {0}
      <4>1. \A req \in Requests : req.op = "read" => req.id \in Ids
        BY RequestHas
      <4>2. NoRequest.op # "read"
        BY DEF NoRequest
      <4>3. PICK req, reset : Ctrl!Clock(req, reset) /\ (req.op = "read" => req.id \in Ids)
        BY <2>5, <4>1, <4>2, SsramConstants DEF Ctrl!Next
      <4>4. flash_id \in Ids \cup {0}
        BY <2>5 DEF TypesInv
      <4> QED
        BY <4>3, <4>4, FlashIdKept
    <3> QED
      BY <2>1, <2>5, <3>1, SsramRefines DEF TypesInv
  <2>6. CASE part = "video" /\ Clock
    <3>1. VideoInv /\ ReaderTypes /\ DueInv /\ flash_id \in Ids \cup {0}
      BY <2>6 DEF UsersInv, TypesInv
    <3>2. flash_id' \in Ids \cup {0}
      <4>1. mem_request.op = "read" => mem_request.id \in Ids
        BY <3>1, FairRequest DEF VideoInv
      <4> QED
        BY <2>6, <3>1, <4>1, FlashIdKept DEF Clock
    <3>3. ReaderTypes' /\ DueInv'
      BY <2>6, <3>1, ReaderTypesKept, DueKept DEF Clock
    <3> QED
      BY <2>1, <2>6, <3>2, <3>3 DEF TypesInv
  <2>7. CASE UNCHANGED all
    <3>1. BlockInv' <=> BlockInv
      BY <2>7 DEF all, block, vars, ctrl, BlockInv, Block!mem_waitrequest
    <3>2. SramInv' <=> SramInv
      BY <2>7 DEF all, vars, ctrl, async, SramInv, Sram!Bursting
    <3>3. Sram16Inv' <=> Sram16Inv
      BY <2>7 DEF all, vars, ctrl, async, halves, Sram16Inv, Sram16!Bursting
    <3>4. SsramInv' <=> SsramInv
      BY <2>7 DEF all, vars, ctrl, SsramInv, SsramTypes, FlashInv
    <3>5. UNCHANGED <<flash_id, fb_address, next, due, request>>
      BY <2>7 DEF all, vars, ctrl, pump, yari
    <3>6. (ReaderTypes' <=> ReaderTypes) /\ (DueInv' <=> DueInv)
      BY <3>5 DEF ReaderTypes, DueInv
    <3> QED
      BY <2>1, <3>1, <3>2, <3>3, <3>4, <3>5, <3>6 DEF TypesInv
  <2> QED
    BY <2>2, <2>3, <2>4, <2>5, <2>6, <2>7 DEF MCNext
<1> QED
  BY <1>1, <1>2, UsersKept, PTL DEF MCSpec

\* Every variable of the part that runs has its type: no counter of the
\* controllers leaves its width, no more than two bursts are due, and under
\* these rates the count of the bursts that went before the processor stays
\* small.
THEOREM TypesCorrect == TurnRates => (MCSpec => []MCTypeOK)
<1> SUFFICES ASSUME TurnRates PROVE MCSpec => []MCTypeOK
  OBVIOUS
<1>1. BlockInv => Block!TypeOK
  BY BlockConstants DEF BlockInv, Block!TypeOK
<1>2. SramInv => Sram!TypeOK
  BY SramConstants DEF SramInv, Sram!TypeOK
<1>3. Sram16Inv => Sram16!TypeOK
  <2> SUFFICES ASSUME Sram16Inv PROVE Sram16!TypeOK
    OBVIOUS
  <2>1. DOMAIN sram = Sram16!Half /\ sram_a \in Sram16!Half
    BY Sram16Constants DEF Sram16Inv
  <2>2. cnt \in 0 .. 2^(Sram16!CNTSIGN + 1) - 1 /\ waitcnt \in 0 .. 2^(Sram16!WAITSIGN + 1) - 1
    <3>1. 2^(Sram16!CNTSIGN + 1) - 1 = 8 * burst_length - 1 /\ 2^(Sram16!WAITSIGN + 1) - 1 = 31
      BY Sram16Widths
    <3> QED
      BY <3>1, Zenon DEF Sram16Inv
  <2> QED
    BY <2>1, <2>2, Zenon DEF Sram16Inv, Sram16!TypeOK
<1>4. SsramInv /\ flash_id \in Ids \cup {0} => Ctrl!TypeOK
  BY SsramConstants DEF SsramInv, SsramTypes, Ctrl!TypeOK, Ctrl!FLASH_DELAY_MSB
<1>5. ASSUME VideoInv, BeamTypes, TurnInv, ReaderTypes, DueInv, flash_id \in Ids \cup {0}
      PROVE  TypeOK
  <2>1. Ctrl!TypeOK
    BY <1>4, <1>5 DEF VideoInv
  <2>2. FifoSize = 4 * Threshold /\ Threshold \in Nat /\ burst_length \in Nat \ {0}
    BY VideoAssumption, VideoConstants
  <2>3. used \in 0 .. FifoSize
    BY <1>5, <2>2, OnTheWayNat, VideoConstants DEF VideoInv, Claimed
  <2>4. passed \in 0 .. FifoSize
    <3>1. passed <= passed * burst_length /\ passed \in Nat /\ passed * burst_length \in Nat
      BY <1>5, <2>2 DEF TurnInv
    <3> QED
      BY <1>5, <2>2, <3>1 DEF TurnInv
  <2>5. due \in 0 .. 2 * burst_length
    BY <1>5, <2>2, OnTheWayNat DEF VideoInv, DueInv
  <2> QED
    BY <1>5, <2>1, <2>3, <2>4, <2>5 DEF TypeOK, VideoInv, BeamTypes, ReaderTypes
<1>6. UsersInv /\ TurnsInv /\ TypesInv => MCTypeOK
  BY <1>1, <1>2, <1>3, <1>4, <1>5 DEF UsersInv, TurnsInv, TypesInv, MCTypeOK
<1> QED
  BY <1>6, UsersKept, TurnsKept, TypesKept, PTL

=============================================================================
