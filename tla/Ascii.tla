------------------------------- MODULE Ascii -------------------------------
(***************************************************************************)
(* The characters and the number formats on which the monitor (tinymon.c)  *)
(* and the sender of its input (yarisim -t, support.c) must agree.         *)
(*                                                                         *)
(* The character set keeps the order of ASCII and one character of each    *)
(* kind that the code tells apart: the two line ends, the blank, a         *)
(* printable character below '(', the hexadecimal digits 0 1 c e, the      *)
(* letters of the commands (two of which are hexadecimal digits), a        *)
(* capital, and one character above '|'.                                   *)
(***************************************************************************)
EXTENDS Integers

CONSTANTS
  WordMod,    \* 2^32 in the source: words, addresses and arguments
  WordBytes,  \* 4: bytes in a word
  ChkMod,     \* 256: unsigned char, the checksum of a command line
  Digits      \* 5: base-85 digits in a word

ASSUME NumbersAssumption ==
  /\ WordMod \in Nat \ {0}
  /\ WordBytes \in Nat \ {0}
  /\ ChkMod \in Nat \ {0}
  /\ Digits \in Nat \ {0}

LF    == 0
CR    == 1
Space == 2
Quote == 3
Paren == 4
Zero  == 5
One   == 6
BigL  == 7
LetterC == 8
LetterE == 9
LetterL == 10
LetterR == 11
LetterT == 12
LetterW == 13
LetterX == 14
Tilde == 15
Char  == LF .. Tilde

Commands == {LetterC, LetterL, LetterW, LetterR, LetterE, LetterT, LetterX}

\* Base-85 digits are the characters from '(' to '|'.
FirstDigit == Paren
LastDigit  == LetterX
Base       == LastDigit - FirstDigit + 1

\* Hexadecimal digits, by their value.
HexDigit == [v \in 0 .. 3 |-> IF v = 0 THEN Zero ELSE IF v = 1 THEN One
                              ELSE IF v = 2 THEN LetterC ELSE LetterE]
HexBase  == 4
HexDigits == {HexDigit[v] : v \in DOMAIN HexDigit}
HexValue(ch) == CHOOSE v \in DOMAIN HexDigit : HexDigit[v] = ch

\* serial_in_lowercase: a carriage return is a line end, capitals are small.
Lowercase(ch) == IF ch = CR THEN LF ELSE IF ch = BigL THEN LetterL ELSE ch

=============================================================================
