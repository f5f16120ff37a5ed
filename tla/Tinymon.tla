------------------------------ MODULE Tinymon ------------------------------
(***************************************************************************)
(* The monitor in the boot ROM, tinymon.c: the loop of main() that reads   *)
(* command lines                                                           *)
(*                                                                         *)
(*     <cmd> <hex8> ' ' <hex2> '\n'                                        *)
(*                                                                         *)
(* and blocks of words in base 85, and loads and starts programs.  A step  *)
(* takes one character from serial_in or handles the one that it took.     *)
(* Banners, echoes and progress are left out; of the output only the       *)
(* answers '.' and '<code>' are kept.                                      *)
(***************************************************************************)
EXTENDS Ascii

CONSTANT None

VARIABLES
  pc,        \* where main() is
  want,      \* main() is in serial_in
  c, d,      \* the global c; the c of d85
  cmd, arg, chk,
  good_chk, chk_ext,
  in_error,
  addr, end, \* load address; end of the block
  sum,       \* the chk of the block
  w, nd,     \* word being decoded, and its digits so far
  mem,       \* what the monitor has stored
  answer,    \* last answer
  ran        \* argument of the last 'e'

line   == <<cmd, arg, chk, good_chk, chk_ext>>
block  == <<end, sum, w, nd>>
result == <<mem, answer, ran>>
monitor == <<pc, want, c, d, line, in_error, addr, block, result>>

Word    == 0 .. WordMod - 1
Cell(a) == a \div WordBytes
Cells   == {Cell(a) : a \in Word}

InBlock == {"data", "sum"}
Labels  == {"command", "gap", "arg", "sep", "check", "end", "do", "next", "verify", "skip"}
             \cup InBlock
Codes   == {"1", "2", "7", "8"}

TypeOK ==
  /\ pc \in Labels
  /\ want \in BOOLEAN
  /\ c \in Char
  /\ d \in Char
  /\ cmd \in Commands
  /\ arg \in Word
  /\ chk \in 0 .. ChkMod - 1
  /\ good_chk \in 0 .. ChkMod - 1
  /\ chk_ext \in 0 .. ChkMod - 1
  /\ in_error \in BOOLEAN
  /\ addr \in Word
  /\ end \in Word
  /\ sum \in Word
  /\ w \in Word
  /\ nd \in 0 .. Digits - 1
  /\ mem \in [Cells -> Word \cup {None}]
  /\ answer \in Codes \cup {".", "none"}
  /\ ran \in Word \cup {None}

Init ==
  /\ pc = "command"
  /\ want = TRUE
  /\ c = LF /\ d = LF
  /\ cmd = LetterC /\ arg = 0 /\ chk = 0 /\ good_chk = 0 /\ chk_ext = 0
  /\ in_error = FALSE
  /\ addr = 0 /\ end = 0 /\ sum = 0 /\ w = 0 /\ nd = 0
  /\ mem = [a \in Cells |-> None]
  /\ answer = "none"
  /\ ran = None

----------------------------------------------------------------------------
(* A character arrives for main() or, within a block, for d85.             *)

SerialIn(ch) ==
  /\ want
  /\ want' = FALSE
  /\ IF pc \in InBlock
       THEN d' = ch /\ UNCHANGED c
       ELSE c' = Lowercase(ch) /\ UNCHANGED d
  /\ UNCHANGED <<pc, line, in_error, addr, block, result>>

Has(label) == pc = label /\ ~want

\* Take the next character, and go on at label with it.
Read(label) == pc' = label /\ want' = TRUE

\* Go on at label with the character at hand.
Goto(label) == pc' = label /\ UNCHANGED want

\* The line has been dealt with: wait for the next command.
Answer(a) == answer' = a /\ Read("command")

Error_NoLatch(code) == answer' = code /\ UNCHANGED in_error /\ Goto("skip")

\* error: says what is wrong and skips the rest of the line.
Error(code) == answer' = code /\ in_error' = TRUE /\ Goto("skip")

----------------------------------------------------------------------------
(* The command line.                                                       *)

SkipCruft ==
  /\ Has("command")
  /\ c \notin Commands
  /\ Read("command")
  /\ UNCHANGED <<c, d, line, in_error, addr, block, result>>

TakeCommand ==
  /\ Has("command")
  /\ c \in Commands
  /\ cmd' = c
  /\ chk' = c % ChkMod
  /\ arg' = 0
  /\ Read("gap")
  /\ UNCHANGED <<c, d, good_chk, chk_ext, in_error, addr, block, result>>

SkipBlanks ==
  /\ \E label \in {"gap", "sep", "end"} : Has(label) /\ Read(label)
  /\ c = Space
  /\ UNCHANGED <<c, d, line, in_error, addr, block, result>>

BeginArgument ==
  /\ Has("gap")
  /\ c # Space
  /\ Goto("arg")
  /\ UNCHANGED <<c, d, line, in_error, addr, block, result>>

\* get_hexnum, for the argument and for the checksum.
Shifted(n) == n * HexBase + HexValue(c)

ArgumentDigit ==
  /\ Has("arg")
  /\ c \in HexDigits
  /\ arg' = Shifted(arg) % WordMod
  /\ chk' = (chk + c) % ChkMod
  /\ Read("arg")
  /\ UNCHANGED <<c, d, cmd, good_chk, chk_ext, in_error, addr, block, result>>

EndArgument ==
  /\ Has("arg")
  /\ c \notin HexDigits
  /\ Goto("sep")
  /\ UNCHANGED <<c, d, line, in_error, addr, block, result>>

\* A line without a checksum comes from a person at a terminal.
NoChecksum ==
  /\ Has("sep")
  /\ c = LF
  /\ Goto("do")
  /\ UNCHANGED <<c, d, line, in_error, addr, block, result>>

BeginChecksum ==
  /\ Has("sep")
  /\ c \notin {Space, LF}
  /\ good_chk' = chk
  /\ chk_ext' = 0
  /\ Goto("check")
  /\ UNCHANGED <<c, d, cmd, arg, chk, in_error, addr, block, result>>

ChecksumDigit ==
  /\ Has("check")
  /\ c \in HexDigits
  /\ chk_ext' = Shifted(chk_ext) % ChkMod
  /\ chk' = (chk + c) % ChkMod
  /\ Read("check")
  /\ UNCHANGED <<c, d, cmd, arg, good_chk, in_error, addr, block, result>>

EndChecksum ==
  /\ Has("check")
  /\ c \notin HexDigits
  /\ IF good_chk # chk_ext
       THEN Error("1")
       ELSE Goto("end") /\ UNCHANGED <<in_error, answer>>
  /\ UNCHANGED <<c, d, line, addr, block, mem, ran>>

EndOfLine ==
  /\ Has("end")
  /\ c # Space
  /\ IF c # LF
       THEN Error("2")
       ELSE Goto("do") /\ UNCHANGED <<in_error, answer>>
  /\ UNCHANGED <<c, d, line, addr, block, mem, ran>>

SkipLine ==
  /\ Has("skip")
  /\ IF c # LF THEN Read("skip") ELSE Read("command")
  /\ UNCHANGED <<c, d, line, in_error, addr, block, result>>

----------------------------------------------------------------------------
(* The commands.  In the error state all but 'c' and 't' are passed over;  *)
(* 'w' and 't' are compiled out, and only answered.                        *)

Ignored_NotLoads == in_error /\ cmd \notin {LetterC, LetterT, LetterL}
Ignored == in_error /\ cmd \notin {LetterC, LetterT}

Do(command) == Has("do") /\ cmd = command /\ ~Ignored

Ignore ==
  /\ Has("do")
  /\ Ignored
  /\ Read("command")
  /\ UNCHANGED <<c, d, line, in_error, addr, block, result>>

Clear ==
  /\ Do(LetterC)
  /\ in_error' = FALSE
  /\ Answer(".")
  /\ UNCHANGED <<c, d, line, addr, block, mem, ran>>

SetAddress ==
  /\ Do(LetterL)
  /\ addr' = arg
  /\ Answer(".")
  /\ UNCHANGED <<c, d, line, in_error, block, mem, ran>>

ReadWord ==
  /\ Do(LetterR)
  /\ addr' = (addr + WordBytes) % WordMod
  /\ Answer(".")
  /\ UNCHANGED <<c, d, line, in_error, block, mem, ran>>

Nothing ==
  /\ Do(LetterW) \/ Do(LetterT)
  /\ Answer(".")
  /\ UNCHANGED <<c, d, line, in_error, addr, block, mem, ran>>

\* The program runs; should it return, main() starts again.
Execute ==
  /\ Do(LetterE)
  /\ ran' = arg
  /\ addr' = 0
  /\ in_error' = FALSE
  /\ Read("command")
  /\ UNCHANGED <<c, d, line, block, mem, answer>>

BeginBlock ==
  /\ Do(LetterX)
  /\ end' = (addr + WordBytes * arg) % WordMod
  /\ sum' = 0
  /\ Goto("next")
  /\ UNCHANGED <<c, d, line, in_error, addr, w, nd, result>>

----------------------------------------------------------------------------
(* A block: words, and then the word that makes their sum zero.            *)

NextWord_KeepsWord ==
  /\ Has("next")
  /\ nd' = 0
  /\ Read(IF addr # end THEN "data" ELSE "sum")
  /\ UNCHANGED <<c, d, line, in_error, addr, end, sum, w, result>>

NextWord ==
  /\ Has("next")
  /\ w' = 0
  /\ nd' = 0
  /\ Read(IF addr # end THEN "data" ELSE "sum")
  /\ UNCHANGED <<c, d, line, in_error, addr, end, sum, result>>

SkipWhite ==
  /\ \E label \in InBlock : Has(label) /\ Read(label)
  /\ d <= Space
  /\ UNCHANGED <<c, d, line, in_error, addr, block, result>>

\* d85: the next value, and whether the digit is refused.
Decoded == (w * Base + d - FirstDigit) % WordMod
Refused == d < FirstDigit \/ LastDigit < d \/ Decoded < w

DigitOK(label) == Has(label) /\ d > Space /\ ~Refused

Digit ==
  /\ \E label \in InBlock : DigitOK(label) /\ Read(label)
  /\ nd < Digits - 1
  /\ w' = Decoded
  /\ nd' = nd + 1
  /\ UNCHANGED <<c, d, line, in_error, addr, end, sum, result>>

StoreWord ==
  /\ DigitOK("data")
  /\ nd = Digits - 1
  /\ w' = Decoded
  /\ sum' = (sum + Decoded) % WordMod
  /\ mem' = [mem EXCEPT ![Cell(addr)] = Decoded]
  /\ addr' = (addr + WordBytes) % WordMod
  /\ Goto("next")
  /\ UNCHANGED <<c, d, line, in_error, end, nd, answer, ran>>

SumWord ==
  /\ DigitOK("sum")
  /\ nd = Digits - 1
  /\ w' = Decoded
  /\ Goto("verify")
  /\ UNCHANGED <<c, d, line, in_error, addr, end, sum, nd, result>>

BadData ==
  /\ Has("data") /\ d > Space /\ Refused
  /\ w' = 0
  /\ Error("8")
  /\ UNCHANGED <<c, d, line, addr, end, sum, nd, mem, ran>>

BadSum_Silent ==
  /\ Has("sum") /\ d > Space /\ Refused
  /\ w' = 0
  /\ Goto("verify")
  /\ UNCHANGED <<c, d, line, in_error, addr, end, sum, nd, result>>

\* In the last word the error is not looked at: the word is 0 and compared.
BadSum ==
  /\ Has("sum") /\ d > Space /\ Refused
  /\ in_error' = TRUE
  /\ w' = 0
  /\ Goto("verify")
  /\ UNCHANGED <<c, d, line, addr, end, sum, nd, result>>

Verify ==
  /\ Has("verify")
  /\ IF w # (-sum) % WordMod
       THEN Error("7")
       ELSE Answer(".") /\ UNCHANGED in_error
  /\ UNCHANGED <<c, d, line, addr, block, mem, ran>>

----------------------------------------------------------------------------
Parse ==
  \/ SkipCruft \/ TakeCommand \/ SkipBlanks
  \/ BeginArgument \/ ArgumentDigit \/ EndArgument
  \/ NoChecksum \/ BeginChecksum \/ ChecksumDigit \/ EndChecksum
  \/ EndOfLine \/ SkipLine

Perform ==
  Ignore \/ Clear \/ SetAddress \/ ReadWord \/ Nothing \/ BeginBlock

Block ==
  NextWord \/ SkipWhite \/ Digit \/ StoreWord \/ SumWord \/ BadData \/ BadSum \/ Verify

Main == Parse \/ Perform \/ Block \/ Execute

Next == Main \/ \E ch \in Char : SerialIn(ch)

Spec == Init /\ [][Next]_monitor

----------------------------------------------------------------------------
(* In the error state the monitor stores nothing, keeps its address and    *)
(* starts nothing, and only a clear command ends that state: "If a         *)
(* mismatch is detected all input is ignored until a clear command is      *)
(* seen" (tinymon.c:248).                                                  *)
ErrorLatches ==
  [][in_error => /\ UNCHANGED <<mem, addr, ran>>
                 /\ ~in_error' => cmd = LetterC /\ pc = "do"]_monitor

=============================================================================
