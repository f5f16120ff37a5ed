------------------------------- MODULE Dump -------------------------------
(***************************************************************************)
(* What yarisim -t prints for the monitor to load a program: dump_tinymon  *)
(* of support.c.  A program is its sections, each with a start address, a  *)
(* size in bytes and the words that memory holds there, and its entry.     *)
(*                                                                         *)
(* Every character carries the part of the text that it belongs to; the    *)
(* line that may garble it looks at this, the monitor does not.            *)
(***************************************************************************)
EXTENDS Ascii, SequencesExt

CONSTANT
  LineWords  \* 16: words in a line of a block

Parts == {"typed", "letter", "arg", "sep", "chk", "eol", "block"}

Marked(part, chars) == [i \in DOMAIN chars |-> [ch |-> chars[i], part |-> part]]

\* The digits of n in a base, without leading zeros, but for 0 itself.
Numeral(n, base) ==
  LET digits[k \in 0 .. n] == IF k < base THEN <<k>> ELSE Append(digits[k \div base], k % base)
  IN  digits[n]

Padded(digits, len) == [i \in 1 .. len - Len(digits) |-> 0] \o digits

InHex(digits) == [i \in DOMAIN digits |-> HexDigit[digits[i]]]

SumOf(chars) == FoldSeq(+, 0, chars)

\* tinymon_cmd
Command(cmd, val) ==
  LET digits == InHex(Numeral(val, HexBase))
      chk    == (cmd + SumOf(digits)) % ChkMod
  IN  Marked("letter", <<cmd>>) \o Marked("arg", digits) \o Marked("sep", <<Space>>)
        \o Marked("chk", InHex(Padded(Numeral(chk, HexBase), 2)))
        \o Marked("eol", <<CR, LF>>)

\* tinymon_encode_word_base85
EncodeWord(w) ==
  LET digits == Padded(Numeral(w, Base), Digits)
  IN  Marked("block", [i \in 1 .. Digits |-> digits[i] + FirstDigit])

\* The words that the loop of dump_tinymon visits: a started word counts.
WordsSent(section) == (section.size + WordBytes - 1) \div WordBytes

\* b counts from 1 and is cleared when it exceeds 16: a line has 17 words.
LineBreak(i) ==
  IF i % (LineWords + 1) = 0 THEN Marked("eol", <<LF>>) ELSE <<>>

SendSection(section) ==
  LET n   == WordsSent(section)
      chk == SumOf([i \in 1 .. n |-> section.words[i]]) % WordMod
  IN  Command(LetterL, section.start)
        \o Command(LetterX, section.size \div WordBytes)
        \o FlattenSeq([i \in 1 .. n |-> EncodeWord(section.words[i]) \o LineBreak(i)])
        \o EncodeWord((-chk) % WordMod)
        \o Marked("eol", <<LF>>)

\* dump_tinymon
DumpTinymon(program) ==
  Command(LetterC, 0)
    \o FlattenSeq([k \in DOMAIN program.sections |-> SendSection(program.sections[k])])
    \o Command(LetterE, program.entry)

=============================================================================
