------------------------------ MODULE MCMemory ------------------------------
(***************************************************************************)
(* Instances of the memory controllers, and of the memory of the DE2-70    *)
(* under its users, for TLC.  The initial state says which part runs; the  *)
(* variables that are not its own are None, or as Video has them at first. *)
(***************************************************************************)
EXTENDS Video

CONSTANT wait_cycles

ASSUME WaitAssumption == wait_cycles \in 1 .. 16

VARIABLES
  part,
  ram, rddata, read_address,                    \* Blockram
  sram, int_we, need_wait,                      \* SramCtrl
  waitcnt, writedata_hi, be_hi                  \* Sram16Ctrl, with sram and int_we

block  == <<ram, rddata, read_address>>
async  == <<sram, int_we>>
halves == <<waitcnt, writedata_hi, be_hi>>
common == <<state, pendingid, mem_readdata, sram_a, sram_be, sram_oe, sram_dout,
            sram_dout_en, sram_we>>
sync   == <<ssram, flash, chip_a, chip_q, pendingid2, readdataid, sram_adsc, sram_adv,
            flash_id, flash_address, flash_delay, flash_data, rst>>
users  == <<pump, used, beam, yari>>
all    == <<part, block, async, need_wait, halves, vars>>

Block  == INSTANCE Blockram
Sram   == INSTANCE SramCtrl
Sram16 == INSTANCE Sram16Ctrl

NoBlock  == ram = None /\ rddata = None /\ read_address = None
NoAsync  == sram = None /\ int_we = None
NoHalves == waitcnt = None /\ writedata_hi = None /\ be_hi = None
NoCommon ==
  /\ state = None /\ pendingid = None /\ mem_readdata = None
  /\ sram_a = None /\ sram_be = None /\ sram_oe = None /\ sram_we = None
  /\ sram_dout = None /\ sram_dout_en = None
NoSync ==
  /\ ssram = None /\ flash = None /\ chip_a = None /\ chip_q = None
  /\ pendingid2 = None /\ readdataid = None /\ sram_adsc = None /\ sram_adv = None
  /\ flash_id = None /\ flash_address = None /\ flash_delay = None /\ flash_data = None
  /\ rst = None

MCInit ==
  /\ InitUsers
  /\ \/ part = "blockram" /\ Block!Init /\ NoAsync /\ need_wait = None /\ NoHalves /\ NoCommon /\ NoSync
     \/ part = "sram" /\ Sram!Init /\ NoBlock /\ NoHalves /\ NoSync
     \/ part = "sram16" /\ Sram16!Init /\ need_wait = None /\ NoBlock /\ NoSync
     \/ part \in {"ssram", "video"} /\ Ctrl!Init /\ NoBlock /\ NoAsync /\ need_wait = None /\ NoHalves

MCNext ==
  /\ UNCHANGED part
  /\ \/ /\ part = "blockram" /\ Block!Next
        /\ UNCHANGED <<async, need_wait, halves, common, sync, users>>
     \/ part = "sram" /\ Sram!Next /\ UNCHANGED <<block, halves, sync, users>>
     \/ part = "sram16" /\ Sram16!Next /\ UNCHANGED <<block, need_wait, sync, users>>
     \/ /\ \/ part = "ssram" /\ Ctrl!Next /\ UNCHANGED users
           \/ part = "video" /\ Clock
        /\ UNCHANGED <<block, async, need_wait, halves>>

MCSpec == MCInit /\ [][MCNext]_all

(* Every variable has its type.                                            *)
MCTypeOK ==
  CASE part = "blockram"  -> Block!TypeOK
    [] part = "sram"      -> Sram!TypeOK
    [] part = "sram16"    -> Sram16!TypeOK
    [] part = "ssram"     -> Ctrl!TypeOK
    [] part = "video"     -> TypeOK

(* The processor of the whole system asked for each word that it gets.     *)
YariAsked == part = "video" => WordsAreDue

(* Bursts of each of the modules, while it runs: the controller implements *)
(* the memory of BurstMemory.                                              *)
BlockramBursts ==
  /\ part = "blockram" => Block!Memory!Init
  /\ [][part = "blockram" => Block!Memory!Next]_(Block!Memory!vars)

(* As above, for sram_ctrl.v with and without need_wait.                   *)
SramBursts ==
  /\ part = "sram" => Sram!Memory!Init
  /\ [][part = "sram" => Sram!Memory!Next]_(Sram!Memory!vars)

(* As above, for the half words of sram16_ctrl.v.                          *)
Sram16Bursts ==
  /\ part = "sram16" => Sram16!Memory!Init
  /\ [][part = "sram16" => Sram16!Memory!Next]_(Sram16!Memory!vars)

(* As above, for the pipelined ssram_ctrl.v, the Flash and reset.          *)
SsramBursts ==
  /\ part = "ssram" => Ctrl!Memory!Init
  /\ [][part = "ssram" => Ctrl!Memory!Next]_(Ctrl!Memory!vars)

=============================================================================
