------------------------------- MODULE StageI -------------------------------
(***************************************************************************)
(* The fetch stage of YARI with its instruction cache, the path of stores  *)
(* from ME to the memory, and the arbiter between the two.                 *)
(*                                                                         *)
(* One step is one rising clock edge.  The stages behind IF are external:  *)
(* they restart the fetch, store words of code and execute SYNCI.          *)
(***************************************************************************)
EXTENDS Naturals, Sequences, FiniteSets

CONSTANTS
  Words,       \* words to a line
  Sets,        \* lines to a way
  Tags,        \* number of tags
  Ways,
  Stored,      \* the addresses that the program may write
  SbSize,      \* stores that the store buffer holds
  BusyCycles,  \* for how many cycles a write, or the end of a read, may keep
               \* the memory busy
  Targets,     \* the addresses to which restarts and SYNCI go
  None

Addr == 0 .. Words * Sets * Tags - 1

ASSUME StageIAssumption ==
  /\ Words \in Nat \ {0} /\ Sets \in Nat \ {0} /\ Tags \in Nat \ {0}
  /\ SbSize \in Nat \ {0}
  /\ BusyCycles \in Nat
  /\ Stored \subseteq Addr /\ Targets \subseteq Addr
  /\ None \notin Nat
  /\ None \notin [a : Nat, pc : Nat] /\ None \notin Nat \X {0, 1}
  /\ None \notin [ena : SUBSET Ways, csi : Nat, data : Nat]
  /\ IsFiniteSet(Ways) /\ Ways # {}

\* Mutation: addresses do not wrap around.
Succ_NoWrap(a) == a + 1

Succ(a) == (a + 1) % (Words * Sets * Tags)

Wdx(a) == a % Words
Csi(a) == (a \div Words) % Sets
Chk(a) == a \div (Words * Sets)

tag_illegal == Tags

LineOf(a) == {b \in Addr : b \div Words = a \div Words}

(* A word is known by where it belongs and by one of two versions of it.   *)
Word == Addr \X {0, 1}

VARIABLES
  i_pc, i_npc, i1_valid, i2_valid, state, fill_wi, fill_set, imem_read,
  pending_synci,         \* with pending_synci_a and pending_synci_pc, or None
  tag_ram, ic_ram, tag_q, ic_q,
  tag_write,             \* tag_write_ena, tag_wraddress and tag_write_data
  store_buffer, dmem,    \* ME: stores waiting, and the one on the port
  mem, busy, burst,      \* external: memory, and what it is busy with
  m_restart, window,     \* external: ME's restart; cycles in which instructions
                         \* that have been fetched may still act
  visible, expected      \* history: words that may be fetched; the next address

cacheVars == <<tag_ram, ic_ram, tag_q, ic_q, tag_write>>
fetchVars == <<i_pc, i_npc, i1_valid, i2_valid, state, fill_wi, fill_set, imem_read,
               pending_synci>>
memVars   == <<store_buffer, dmem, mem, busy, burst>>
vars == <<fetchVars, cacheVars, memVars, m_restart, window, visible, expected>>

----------------------------------------------------------------------------
(* The lookup: tags and words read at the last edge against i_pc.          *)

hits_2 == {w \in Ways : tag_q[w] = Chk(i_pc)}

i_valid == i2_valid /\ Cardinality(hits_2) = 1

i_instr == ic_q[CHOOSE w \in hits_2 : TRUE]

\* Mutation: a lookup that nobody asked for may miss.
Misses_Unasked == state = "running" /\ hits_2 = {}

Misses == state = "running" /\ i2_valid /\ hits_2 = {}

----------------------------------------------------------------------------
(* The memory port: stores of ME go before fills of IF.                    *)

imem_waitrequest(wait) == wait \/ dmem # None

\* ME's part: the next store is put on the port when the memory is not busy.
IssueStores(wait, store) ==
  LET sb == IF wait \/ store_buffer = <<>> THEN store_buffer ELSE Tail(store_buffer)
  IN
  /\ dmem' = IF wait THEN dmem
             ELSE IF store_buffer = <<>> THEN None ELSE Head(store_buffer)
  /\ store_buffer' = IF store = None THEN sb ELSE Append(sb, store)

\* External: the controller.  It reads the words of a line when it accepts
\* the request, as no write overtakes a read.
Memory(wait, rdv, cycles) ==
  /\ mem' = IF dmem # None /\ ~wait THEN [mem EXCEPT ![dmem[1]] = dmem] ELSE mem
  /\ busy' = IF (dmem # None /\ ~wait) \/ (rdv /\ Len(burst) = 1) THEN cycles
             ELSE IF busy > 0 THEN busy - 1 ELSE 0
  /\ burst' = IF imem_read /\ ~imem_waitrequest(wait)
                THEN [i \in 1 .. Words |-> mem[(i_pc \div Words) * Words + i - 1]]
                ELSE IF rdv THEN Tail(burst) ELSE burst

----------------------------------------------------------------------------
(* The state machine of IF.                                                *)

\* Mutation: a SYNCI that arrives while a line is filled is forgotten.
SynciArrives_Running(synci) == synci # None /\ state = "running"

SynciArrives(synci) == synci # None

Fetchaddress(restart) == IF restart # None THEN restart ELSE i_npc

\* Mutation: the last word but one ends the fill.
LastWord_Early(rdv) == rdv /\ fill_wi + 2 >= Words

LastWord(rdv) == rdv /\ fill_wi = Words - 1

Synchronising(restart, synci) ==
  /\ i_npc' = IF synci # None THEN synci ELSE pending_synci.a
  /\ i1_valid' = FALSE
  /\ i2_valid' = FALSE
  /\ state' = "lookup"
  /\ UNCHANGED <<i_pc, fill_wi, fill_set>>

Running(restart) ==
  /\ i_pc' = Fetchaddress(restart)
  /\ i_npc' = Succ(Fetchaddress(restart))
  /\ i2_valid' = (i1_valid \/ restart # None)
  /\ i1_valid' = (i1_valid \/ restart # None)
  /\ UNCHANGED <<state, fill_wi, fill_set>>

\* Mutation: a restart in the cycle of a miss is forgotten.
Missing_Deaf(restart) ==
  /\ i_npc' = i_pc
  /\ i2_valid' = FALSE
  /\ fill_wi' = 0
  /\ state' = "filling"
  /\ UNCHANGED <<i_pc, i1_valid, fill_set>>

Missing(restart) ==
  /\ i_npc' = IF restart # None THEN restart ELSE i_pc
  /\ i2_valid' = FALSE
  /\ fill_wi' = 0
  /\ state' = "filling"
  /\ UNCHANGED <<i_pc, i1_valid, fill_set>>

Lookup ==
  /\ i_pc' = i_npc
  /\ state' = "invalidate"
  /\ UNCHANGED <<i_npc, i1_valid, i2_valid, fill_wi, fill_set>>

Invalidate ==
  /\ i_npc' = pending_synci.pc
  /\ i1_valid' = TRUE
  /\ state' = "pre_running"
  /\ UNCHANGED <<i_pc, i2_valid, fill_wi, fill_set>>

Filling(restart, rdv, way) ==
  /\ i_npc' = Fetchaddress(restart)
  /\ fill_wi' = IF rdv THEN (fill_wi + 1) % Words ELSE fill_wi
  /\ state' = IF LastWord(rdv) THEN "pre_running" ELSE "filling"
  /\ fill_set' = IF LastWord(rdv) THEN way ELSE fill_set
  /\ UNCHANGED <<i_pc, i1_valid, i2_valid>>

PreRunning(restart) ==
  /\ i_npc' = Fetchaddress(restart)
  /\ state' = "running"
  /\ UNCHANGED <<i_pc, i1_valid, i2_valid, fill_wi, fill_set>>

Fetch(restart, synci, rdv, way) ==
  IF state = "running"
    THEN IF SynciArrives(synci) \/ pending_synci # None THEN Synchronising(restart, synci)
         ELSE IF Misses THEN Missing(restart) ELSE Running(restart)
    ELSE \/ state = "lookup" /\ Lookup
         \/ state = "invalidate" /\ Invalidate
         \/ state = "filling" /\ Filling(restart, rdv, way)
         \/ state = "pre_running" /\ PreRunning(restart)

PendingSynci(restart, synci) ==
  pending_synci' = IF state = "invalidate" THEN None
                   ELSE IF SynciArrives(synci) THEN [a |-> synci, pc |-> restart]
                   ELSE pending_synci

ReadRequest(wait, synci) ==
  imem_read' = \/ Misses /\ ~SynciArrives(synci) /\ pending_synci = None
               \/ imem_read /\ imem_waitrequest(wait)

----------------------------------------------------------------------------
(* Tags and words.  The memories return old data when read and written at  *)
(* once, and tags are written one cycle after that is decided.  What they  *)
(* return when nothing looks at it is not kept.                            *)

TagWrite(rdv) ==
  IF state = "invalidate"
    THEN [ena |-> hits_2, csi |-> Csi(pending_synci.a), data |-> tag_illegal]
  ELSE IF state = "filling" /\ LastWord(rdv)
    THEN [ena |-> {fill_set}, csi |-> Csi(i_pc), data |-> Chk(i_pc)]
  ELSE None

Looked == i2_valid' \/ state' = "invalidate"

TagRam(restart, rdv) ==
  LET a == Fetchaddress(restart) IN
  /\ tag_write' = TagWrite(rdv)
  /\ tag_ram' = [w \in Ways |-> [s \in 0 .. Sets - 1 |->
       IF tag_write # None /\ w \in tag_write.ena /\ s = tag_write.csi
         THEN tag_write.data ELSE tag_ram[w][s]]]
  /\ tag_q' = [w \in Ways |-> IF Looked THEN tag_ram[w][Csi(a)] ELSE tag_illegal]
  /\ ic_ram' = IF state = "filling" /\ rdv
                 THEN [ic_ram EXCEPT ![fill_set][Csi(i_pc)][fill_wi] = Head(burst)]
                 ELSE ic_ram
  /\ ic_q' = [w \in Ways |-> IF i2_valid' THEN ic_ram[w][Csi(a)][Wdx(a)] ELSE <<0, 0>>]

----------------------------------------------------------------------------
(* External: the stages behind IF.  What was fetched acts for three cycles *)
(* (DE, EX, ME); SYNCI and a restart of ME leave none of it.  A restart    *)
(* that DE or EX raise lasts one cycle (jump), one that ME raises any time *)
(* (m_restart).  SYNCI is effective unless ME restarts what is in front of *)
(* it.                                                                     *)

restart_pc(jump) == IF m_restart # None THEN m_restart ELSE jump

Effective(synci) == synci # None /\ m_restart = None

Delivered(restart) == i_valid /\ restart = None

Behind(jump, synci, next_m_restart) ==
  LET restart == restart_pc(jump) IN
  /\ m_restart' = next_m_restart
  /\ window' = IF synci # None \/ m_restart # None THEN 0
               ELSE IF Delivered(restart) THEN 3
               ELSE IF window > 0 THEN window - 1 ELSE 0
  /\ expected' = IF restart # None THEN restart
                 ELSE IF i_valid THEN Succ(i_pc) ELSE expected

Newest(a) ==
  LET queued == {i \in DOMAIN store_buffer : store_buffer[i][1] = a}
  IN IF queued # {} THEN store_buffer[CHOOSE i \in queued : \A j \in queued : j <= i]
     ELSE IF dmem # None /\ dmem[1] = a THEN dmem
     ELSE mem[a]

Visible(store, synci) ==
  visible' = [a \in Addr |->
    IF Effective(synci) /\ a \in LineOf(synci) THEN {Newest(a)}
    ELSE IF store # None /\ store[1] = a THEN visible[a] \cup {store}
    ELSE visible[a]]

Waits    == IF busy > 0 THEN {TRUE} ELSE IF burst # <<>> THEN BOOLEAN ELSE {FALSE}
Rdvs     == IF burst # <<>> THEN BOOLEAN ELSE {FALSE}
Jumps    == {None} \cup (IF m_restart = None /\ window > 0 THEN Targets ELSE {})
Syncis(jump) ==
  {None} \cup (IF window > 0 /\ restart_pc(jump) # None THEN Targets ELSE {})
Stores(synci) ==
  {None} \cup (IF /\ synci = None /\ m_restart = None /\ window > 0
                  /\ Len(store_buffer) < SbSize
                 THEN Stored \X {0, 1} ELSE {})
MRestarts(synci) ==
  {None} \cup (IF m_restart # None THEN {m_restart}
               ELSE IF synci = None /\ window > 0 THEN Targets ELSE {})

Clock(wait, rdv, cycles, way, jump, synci, store, next_m_restart) ==
  LET restart == restart_pc(jump) IN
  /\ Fetch(restart, synci, rdv, way)
  /\ PendingSynci(restart, synci)
  /\ ReadRequest(wait, synci)
  /\ TagRam(restart, rdv)
  /\ IssueStores(wait, store)
  /\ Memory(wait, rdv, cycles)
  /\ Behind(jump, synci, next_m_restart)
  /\ Visible(store, synci)

\* The state after the boot pulse, which is a restart by ME.
Init ==
  /\ i_pc = 0 /\ i_npc = 0 /\ i1_valid = FALSE /\ i2_valid = FALSE
  /\ state = "running" /\ fill_wi = 0 /\ fill_set \in Ways /\ imem_read = FALSE
  /\ pending_synci = None
  /\ tag_ram = [w \in Ways |-> [s \in 0 .. Sets - 1 |-> tag_illegal]]
  /\ ic_ram = [w \in Ways |-> [s \in 0 .. Sets - 1 |-> [i \in 0 .. Words - 1 |-> <<0, 0>>]]]
  /\ tag_q = [w \in Ways |-> tag_illegal]
  /\ ic_q = [w \in Ways |-> <<0, 0>>]
  /\ tag_write = None
  /\ store_buffer = <<>> /\ dmem = None
  /\ mem = [a \in Addr |-> <<a, 0>>] /\ busy = 0 /\ burst = <<>>
  /\ m_restart = 0 /\ window = 0
  /\ visible = [a \in Addr |-> {<<a, 0>>}]
  /\ expected = 0

Cycles(wait, rdv) ==
  IF (dmem # None /\ ~wait) \/ (rdv /\ Len(burst) = 1) THEN 0 .. BusyCycles ELSE {0}
FillWays(rdv) == IF state = "filling" /\ LastWord(rdv) THEN Ways ELSE {fill_set}

Next ==
  \E wait \in Waits, rdv \in Rdvs, jump \in Jumps :
    \E cycles \in Cycles(wait, rdv), way \in FillWays(rdv), synci \in Syncis(jump) :
      \E store \in Stores(synci), next_m_restart \in MRestarts(synci) :
        Clock(wait, rdv, cycles, way, jump, synci, store, next_m_restart)

Spec == Init /\ [][Next]_vars

----------------------------------------------------------------------------
(* Properties.                                                             *)

Tag == 0 .. Tags
Request == {None} \cup (Stored \X {0, 1})
Lines == {LineOf(a) : a \in Addr}

(* Every register of IF, the store path and the history keeps its type.     *)
TypeOK ==
  /\ i_pc \in Addr /\ i_npc \in Addr /\ i1_valid \in BOOLEAN /\ i2_valid \in BOOLEAN
  /\ state \in {"running", "lookup", "invalidate", "filling", "pre_running"}
  /\ fill_wi \in 0 .. Words - 1 /\ fill_set \in Ways /\ imem_read \in BOOLEAN
  /\ pending_synci = None \/ pending_synci \in [a : Addr, pc : Addr]
  /\ tag_ram \in [Ways -> [0 .. Sets - 1 -> Tag]]
  /\ ic_ram \in [Ways -> [0 .. Sets - 1 -> [0 .. Words - 1 -> Word]]]
  /\ tag_q \in [Ways -> Tag] /\ ic_q \in [Ways -> Word]
  /\ tag_write = None \/ tag_write \in [ena : SUBSET Ways, csi : 0 .. Sets - 1, data : Tag]
  /\ store_buffer \in Seq(Stored \X {0, 1}) /\ Len(store_buffer) <= SbSize
  /\ dmem \in Request
  /\ mem \in [Addr -> Word] /\ busy \in 0 .. BusyCycles
  /\ burst \in Seq(Word) /\ Len(burst) <= Words
  /\ m_restart \in Addr \cup {None} /\ window \in 0 .. 3
  /\ visible \in [Addr -> SUBSET Word] /\ expected \in Addr

(* No line is in two ways: then no way would be selected, and as that is   *)
(* not a miss either the instruction would be passed over.                 *)
Holds(w, s, t) ==
  IF tag_write # None /\ w \in tag_write.ena /\ s = tag_write.csi
    THEN t = tag_write.data ELSE t = tag_ram[w][s]

OneHot ==
  \A s \in 0 .. Sets - 1, t \in 0 .. Tags - 1, v, w \in Ways :
    Holds(v, s, t) /\ Holds(w, s, t) => v = w

(* While a line is filled its words are asked for or on their way, as many *)
(* as are missing, and else none: IF neither waits for ever nor takes the  *)
(* words of another line.                                                  *)
FillInStep ==
  IF state = "filling"
    THEN IF imem_read THEN burst = <<>> /\ fill_wi = 0
         ELSE Len(burst) = Words - fill_wi
    ELSE ~imem_read /\ burst = <<>>

(* The instructions that IF emits follow each other, from the target of    *)
(* the last restart on: none is passed over or repeated, whatever was      *)
(* filled or synchronised meanwhile.                                       *)
FetchesInOrder == i_valid => i_pc = expected

Fetched == IF i_valid THEN <<i_pc, i_instr>> ELSE None

Promised == INSTANCE InstructionMemory
              WITH code <- [a \in Addr |-> Newest(a)], fetched <- Fetched

(* The instructions emitted are words that the address holds or has held   *)
(* since the last SYNCI of its line.                                       *)
CodeIsSynchronised == Promised!Spec

=============================================================================
