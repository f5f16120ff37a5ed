--------------------------- MODULE Tinymon_proofs ---------------------------
(***************************************************************************)
(* The variables of the monitor keep to their types, and its error state   *)
(* latches, whatever arrives and for every size of words and checksums.    *)
(* What SerialInput_proofs proves of the serial line holds in the runs.    *)
(***************************************************************************)
EXTENDS MCTinymon, TLAPS

USE DEF monitor, line, block, result

----------------------------------------------------------------------------
(* Characters and numbers.                                                 *)

LEMMA CharFacts ==
  /\ Char = 0 .. 15
  /\ Commands \subseteq Char
  /\ HexDigits \subseteq Char
  /\ \A ch \in Char : Lowercase(ch) \in Char
<1>1. Char = 0 .. 15
  BY DEF Char, LF, Tilde
<1>2. Commands \subseteq Char
  BY <1>1 DEF Commands, LetterC, LetterL, LetterW, LetterR, LetterE, LetterT, LetterX
<1>3. HexDigits \subseteq Char
  BY <1>1 DEF HexDigits, HexDigit, Zero, One, LetterC, LetterE
<1>4. \A ch \in Char : Lowercase(ch) \in Char
  BY <1>1 DEF Lowercase, CR, LF, BigL, LetterL
<1> QED
  BY <1>1, <1>2, <1>3, <1>4

LEMMA HexValueType ==
  ASSUME NEW ch \in HexDigits
  PROVE  HexValue(ch) \in 0 .. 3
<1>1. \E v \in 0 .. 3 : HexDigit[v] = ch
  BY DEF HexDigits, HexDigit
<1> QED
  BY <1>1 DEF HexValue, HexDigit

LEMMA ModType ==
  ASSUME NEW n \in Int, NEW m \in Nat \ {0}
  PROVE  n % m \in 0 .. m - 1
  OBVIOUS

LEMMA WordFacts ==
  /\ 0 \in Word
  /\ \A n \in Int : n % WordMod \in Word
  /\ Word \subseteq Int
  BY NumbersAssumption, ModType DEF Word

LEMMA ChkFacts ==
  /\ 0 \in 0 .. ChkMod - 1
  /\ \A n \in Int : n % ChkMod \in 0 .. ChkMod - 1
  /\ 0 .. ChkMod - 1 \subseteq Int
  BY NumbersAssumption, ModType

LEMMA DigitsFacts ==
  /\ 0 \in 0 .. Digits - 1
  /\ \A n \in 0 .. Digits - 1 : n < Digits - 1 => n + 1 \in 0 .. Digits - 1
  BY NumbersAssumption

LEMMA ShiftedType ==
  ASSUME NEW n \in Int, c \in HexDigits
  PROVE  Shifted(n) \in Int
<1>1. HexValue(c) \in Int
  BY HexValueType
<1> QED
  BY <1>1 DEF Shifted, HexBase

LEMMA DecodedType ==
  ASSUME w \in Word, d \in Char
  PROVE  Decoded \in Word
<1>1. w * Base + d - FirstDigit \in Int
  BY WordFacts, CharFacts DEF Base, LastDigit, FirstDigit, LetterX, Paren
<1> QED
  BY <1>1, WordFacts DEF Decoded

----------------------------------------------------------------------------
(* Types, in three parts.                                                  *)

TextOK ==
  /\ pc \in Labels
  /\ want \in BOOLEAN
  /\ c \in Char
  /\ d \in Char
  /\ cmd \in Commands
  /\ in_error \in BOOLEAN
  /\ answer \in Codes \cup {".", "none"}

LineOK ==
  /\ arg \in Word
  /\ chk \in 0 .. ChkMod - 1
  /\ good_chk \in 0 .. ChkMod - 1
  /\ chk_ext \in 0 .. ChkMod - 1
  /\ addr \in Word
  /\ ran \in Word \cup {None}

BlockOK ==
  /\ end \in Word
  /\ sum \in Word
  /\ w \in Word
  /\ nd \in 0 .. Digits - 1
  /\ mem \in [Cells -> Word \cup {None}]

LEMMA TypeParts == TypeOK <=> TextOK /\ LineOK /\ BlockOK
  BY DEF TypeOK, TextOK, LineOK, BlockOK

LEMMA TypeInit == Init => TypeOK
<1> SUFFICES ASSUME Init PROVE TypeOK
  OBVIOUS
<1> USE DEF Init
<1>1. TextOK
  <2>1. LF \in Char
    BY CharFacts DEF LF
  <2>2. LetterC \in Commands
    BY DEF Commands
  <2> QED
    BY <2>1, <2>2 DEF TextOK, Labels, InBlock, Codes
<1>2. LineOK
  BY WordFacts, ChkFacts DEF LineOK
<1>3. BlockOK
  BY WordFacts, DigitsFacts DEF BlockOK
<1> QED
  BY <1>1, <1>2, <1>3, TypeParts

LEMMA TextStep == TypeOK /\ Next => TextOK'
<1> SUFFICES ASSUME TextOK, Next PROVE TextOK'
  BY TypeParts
<1> USE DEF TextOK, Labels, InBlock, Codes, Has, Read, Goto, Answer, Error, Do, DigitOK
<1>1. ASSUME NEW ch \in Char, SerialIn(ch) PROVE TextOK'
  BY <1>1, CharFacts DEF SerialIn
<1>2. CASE Parse
  BY <1>2, CharFacts DEF Parse, SkipCruft, TakeCommand, SkipBlanks, BeginArgument, ArgumentDigit,
    EndArgument, NoChecksum, BeginChecksum, ChecksumDigit, EndChecksum, EndOfLine, SkipLine
<1>3. CASE Perform
  BY <1>3 DEF Perform, Ignore, Clear, SetAddress, ReadWord, Nothing, BeginBlock
<1>4. CASE Block
  BY <1>4 DEF Block, NextWord, SkipWhite, Digit, StoreWord, SumWord, BadData, BadSum, Verify
<1>5. CASE Execute
  BY <1>5 DEF Execute
<1> QED
  BY <1>1, <1>2, <1>3, <1>4, <1>5 DEF Next, Main

LEMMA LineStep == TypeOK /\ Next => LineOK'
<1> SUFFICES ASSUME TextOK, LineOK, Next PROVE LineOK'
  BY TypeParts
<1> USE DEF LineOK, Read, Goto, Answer, Error
<1>1. ASSUME NEW ch \in Char, SerialIn(ch) PROVE LineOK'
  BY <1>1 DEF SerialIn
<1>2. CASE ArgumentDigit
  <2>1. Shifted(arg) \in Int
    BY <1>2, ShiftedType, WordFacts DEF ArgumentDigit
  <2>2. chk + c \in Int
    BY ChkFacts, CharFacts DEF TextOK
  <2> QED
    BY <1>2, <2>1, <2>2, WordFacts, ChkFacts DEF ArgumentDigit
<1>3. CASE ChecksumDigit
  <2>1. Shifted(chk_ext) \in Int
    BY <1>3, ShiftedType, ChkFacts DEF ChecksumDigit
  <2>2. chk + c \in Int
    BY ChkFacts, CharFacts DEF TextOK
  <2> QED
    BY <1>3, <2>1, <2>2, ChkFacts DEF ChecksumDigit
<1>4. CASE TakeCommand
  <2>1. c \in Int
    BY CharFacts DEF TextOK
  <2> QED
    BY <1>4, <2>1, WordFacts, ChkFacts DEF TakeCommand
<1>5. CASE BeginChecksum
  BY <1>5, ChkFacts DEF BeginChecksum
<1>6. CASE SkipCruft \/ SkipBlanks \/ BeginArgument \/ EndArgument \/ NoChecksum \/ EndChecksum
             \/ EndOfLine \/ SkipLine
  BY <1>6 DEF SkipCruft, SkipBlanks, BeginArgument, EndArgument, NoChecksum, EndChecksum,
    EndOfLine, SkipLine
<1>7. CASE ReadWord \/ StoreWord
  <2>1. addr + WordBytes \in Int
    BY WordFacts, NumbersAssumption
  <2> QED
    BY <1>7, <2>1, WordFacts DEF ReadWord, StoreWord
<1>8. CASE Ignore \/ Clear \/ SetAddress \/ Nothing \/ BeginBlock \/ Execute
  BY <1>8, WordFacts DEF Ignore, Clear, SetAddress, Nothing, BeginBlock, Execute
<1>9. CASE NextWord \/ SkipWhite \/ Digit \/ SumWord \/ BadData \/ BadSum \/ Verify
  BY <1>9 DEF NextWord, SkipWhite, Digit, SumWord, BadData, BadSum, Verify
<1> QED
  BY <1>1, <1>2, <1>3, <1>4, <1>5, <1>6, <1>7, <1>8, <1>9 DEF Next, Main, Parse, Perform, Block

LEMMA BlockStep == TypeOK /\ Next => BlockOK'
<1> SUFFICES ASSUME TextOK, LineOK, BlockOK, Next PROVE BlockOK'
  BY TypeParts
<1> USE DEF BlockOK, Read, Goto, Answer, Error
<1>1. ASSUME NEW ch \in Char, SerialIn(ch) PROVE BlockOK'
  BY <1>1 DEF SerialIn
<1>2. CASE Parse
  BY <1>2 DEF Parse, SkipCruft, TakeCommand, SkipBlanks, BeginArgument, ArgumentDigit,
    EndArgument, NoChecksum, BeginChecksum, ChecksumDigit, EndChecksum, EndOfLine, SkipLine
<1>3. CASE BeginBlock
  <2>1. addr + WordBytes * arg \in Int
    BY WordFacts, NumbersAssumption DEF LineOK
  <2> QED
    BY <1>3, <2>1, WordFacts DEF BeginBlock
<1>4. CASE Ignore \/ Clear \/ SetAddress \/ ReadWord \/ Nothing \/ Execute
  BY <1>4 DEF Ignore, Clear, SetAddress, ReadWord, Nothing, Execute
<1>5. CASE NextWord
  BY <1>5, WordFacts, DigitsFacts DEF NextWord
<1>6. CASE SkipWhite
  BY <1>6 DEF SkipWhite
<1>7. CASE Digit
  BY <1>7, DecodedType, DigitsFacts DEF Digit, TextOK
<1>8. CASE StoreWord
  <2>1. Decoded \in Word
    BY DecodedType DEF TextOK
  <2>2. (sum + Decoded) % WordMod \in Word
    BY <2>1, WordFacts
  <2>3. mem' \in [Cells -> Word \cup {None}]
    BY <1>8, <2>1 DEF StoreWord
  <2> QED
    BY <1>8, <2>1, <2>2, <2>3 DEF StoreWord
<1>9. CASE SumWord
  BY <1>9, DecodedType DEF SumWord, TextOK
<1>10. CASE BadData \/ BadSum \/ Verify
  BY <1>10, WordFacts DEF BadData, BadSum, Verify
<1> QED
  BY <1>1, <1>2, <1>3, <1>4, <1>5, <1>6, <1>7, <1>8, <1>9, <1>10 DEF Next, Main, Perform, Block

(* The variables of main(), get_hexnum and d85 keep to their types: words  *)
(* and checksums wrap, and no label is reached but those of the code.      *)
THEOREM TypeCorrect == Spec => []TypeOK
<1>1. TypeOK /\ UNCHANGED monitor => TypeOK'
  BY DEF TypeOK
<1>2. TextOK' /\ LineOK' /\ BlockOK' => TypeOK'
  BY DEF TypeOK, TextOK, LineOK, BlockOK
<1>3. TypeOK /\ [Next]_monitor => TypeOK'
  BY <1>1, <1>2, TextStep, LineStep, BlockStep
<1> QED
  BY TypeInit, <1>3, PTL DEF Spec

----------------------------------------------------------------------------
(* After an error main() is not in a block, but for the comparison of the  *)
(* sum after its last word.                                                *)
OutOfBlock == in_error => pc \notin {"next", "data", "sum"}

Latched ==
  in_error => /\ UNCHANGED <<mem, addr, ran>>
              /\ ~in_error' => cmd = LetterC /\ pc = "do"

LEMMA Letters ==
  /\ {LetterL, LetterW, LetterR, LetterE, LetterX} \cap {LetterC, LetterT} = {}
  /\ LetterC # LetterT
  BY DEF LetterC, LetterE, LetterL, LetterR, LetterT, LetterW, LetterX

LEMMA OutOfBlockStep == OutOfBlock /\ (Main \/ \E ch : SerialIn(ch)) => OutOfBlock' /\ Latched
<1> SUFFICES ASSUME OutOfBlock, Main \/ \E ch : SerialIn(ch) PROVE OutOfBlock' /\ Latched
  OBVIOUS
<1> USE DEF OutOfBlock, Latched, Has, Read, Goto, Answer, Error, Do, DigitOK, Ignored, InBlock
<1>1. ASSUME NEW ch, SerialIn(ch) PROVE OutOfBlock' /\ Latched
  BY <1>1 DEF SerialIn
<1>2. CASE Parse
  BY <1>2 DEF Parse, SkipCruft, TakeCommand, SkipBlanks, BeginArgument, ArgumentDigit,
    EndArgument, NoChecksum, BeginChecksum, ChecksumDigit, EndChecksum, EndOfLine, SkipLine
<1>3. CASE Ignore \/ Clear
  BY <1>3 DEF Ignore, Clear
<1>5. ASSUME NEW command \in {LetterL, LetterW, LetterR, LetterE, LetterX}, Do(command)
      PROVE  ~in_error
  BY <1>5, Letters DEF Ignored, Do
<1>6. CASE SetAddress
  <2>1. ~in_error /\ ~in_error'
    BY <1>6, <1>5 DEF SetAddress
  <2> QED
    BY <2>1
<1>7. CASE ReadWord
  <2>1. ~in_error /\ ~in_error'
    BY <1>7, <1>5 DEF ReadWord
  <2> QED
    BY <2>1
<1>8. CASE Nothing
  BY <1>8 DEF Nothing
<1>9. CASE BeginBlock
  <2>1. ~in_error /\ ~in_error'
    BY <1>9, <1>5 DEF BeginBlock
  <2> QED
    BY <2>1
<1>10. CASE Execute
  <2>1. ~in_error /\ ~in_error'
    BY <1>10, <1>5 DEF Execute
  <2> QED
    BY <2>1
<1>4. CASE Block
  BY <1>4 DEF Block, NextWord, SkipWhite, Digit, StoreWord, SumWord, BadData, BadSum, Verify
<1> QED
  BY <1>1, <1>2, <1>3, <1>4, <1>6, <1>7, <1>8, <1>9, <1>10 DEF Main, Perform

(* After an error the monitor stores, moves and starts nothing, and only a *)
(* clear command ends that (tinymon.c:248-249), for every word size,       *)
(* checksum width and input, and whatever programs the runs load.          *)
THEOREM ErrorLatchesCorrect == (Spec => ErrorLatches) /\ (MCSpec => ErrorLatches)
<1>1. Init => OutOfBlock
  BY DEF Init, OutOfBlock
<1>2. OutOfBlock /\ UNCHANGED monitor => OutOfBlock'
  BY DEF OutOfBlock
<1>3. OutOfBlock /\ (Main \/ (\E ch : SerialIn(ch)) \/ UNCHANGED monitor)
        => OutOfBlock' /\ [in_error => /\ UNCHANGED <<mem, addr, ran>>
                                       /\ ~in_error' => cmd = LetterC /\ pc = "do"]_monitor
  BY <1>2, OutOfBlockStep DEF Latched
<1>4. Next => Main \/ \E ch : SerialIn(ch)
  BY DEF Next
<1>5. MCNext => Main \/ (\E ch : SerialIn(ch)) \/ UNCHANGED monitor
  BY DEF MCNext, LoaderNext, Deliver, Garble, Run, Work, Over, Main, vars
<1>6. MCInit => Init
  BY DEF MCInit, LoaderInit
<1>7. Spec => ErrorLatches
  BY <1>1, <1>3, <1>4, PTL DEF Spec, ErrorLatches
<1>8. MCSpec => ErrorLatches
  <2>1. UNCHANGED <<part, vars, port>> => UNCHANGED monitor
    BY DEF vars
  <2> QED
    BY <1>1, <1>3, <1>5, <1>6, <2>1, PTL DEF MCSpec, ErrorLatches
<1> QED
  BY <1>7, <1>8

----------------------------------------------------------------------------
(* The serial line of the runs.                                            *)

LEMMA SerialSteps == MCSpec => Serial!Spec
<1>1. MCInit => Serial!Init
  BY DEF MCInit
<1>2. [MCNext]_<<part, vars, port>> => [Serial!Next]_(Serial!vars)
  BY DEF MCNext, port, Serial!vars, Serial!device, Serial!ring, Serial!call
<1> QED
  BY <1>1, <1>2, PTL DEF MCSpec, Serial!Spec

(* A sender that is never more than BUF_SIZE - 1 bytes ahead of the        *)
(* monitor loses none (tinymon.c:47).                                      *)
THEOREM SerialDropsNothing ==
  ASSUME ByteTime >= 3
  PROVE  MCSpec => []SerialNothingDropped
<1>1. Serial!Spec => []Serial!NothingDropped
  BY Serial!NothingDroppedCorrect, SerialConstants
<1> QED
  BY <1>1, SerialSteps, PTL DEF SerialNothingDropped

(* serial_in delivers the bytes of the line, each once and in order, but   *)
(* for an overrun, after which it catches up: Serial implements            *)
(* ByteStream.                                                             *)
THEOREM SerialIsAStream ==
  ASSUME ByteTime >= 3, Tags >= 6
  PROVE  MCSpec => SerialStream
<1>1. Serial!StreamAssumption
  BY SerialConstants DEF Serial!StreamAssumption
<1>2. Serial!Spec => Serial!StreamSpec
  BY <1>1, Serial!SerialRefines
<1> QED
  BY <1>2, SerialSteps, PTL DEF SerialStream

=============================================================================
