------------------------------ MODULE Loader ------------------------------
(***************************************************************************)
(* A program on its way into memory: the text that yarisim -t prints goes  *)
(* over the serial line, which may garble one character of it, to the      *)
(* monitor.  Nobody waits for an answer.  Somebody may have typed commands *)
(* before.                                                                 *)
(***************************************************************************)
EXTENDS Tinymon, Dump

CONSTANTS
  Programs,  \* programs to load, with what is typed before
  Flaw(_)    \* what may arrive in place of a character: sequences of characters

VARIABLES
  program,   \* the program that is loaded
  input,     \* the text that is still to come
  garbled    \* part of the text that was hit, or None

sender == <<program, input, garbled>>
vars   == <<monitor, sender>>

LoaderTypeOK ==
  /\ TypeOK
  /\ input \in Seq([ch : Char, part : Parts])
  /\ garbled \in Parts \cup {None}

LoaderInit ==
  /\ Init
  /\ program \in Programs
  /\ input = Marked("typed", program.typed) \o DumpTinymon(program)
  /\ garbled = None

----------------------------------------------------------------------------
Deliver ==
  /\ input # <<>>
  /\ SerialIn(Head(input).ch)
  /\ input' = Tail(input)
  /\ UNCHANGED <<program, garbled>>

\* One character is changed, lost, or arrives twice.
Garble ==
  /\ input # <<>>
  /\ garbled = None
  /\ \E new \in Flaw(Head(input)) \ {<<Head(input).ch>>} :
       input' = Marked(Head(input).part, new) \o Tail(input)
  /\ garbled' = Head(input).part
  /\ UNCHANGED <<monitor, program>>

\* Before the program runs, nothing that has been received is thrown away;
\* afterwards init_serial forgets whatever has arrived.
Run ==
  /\ Execute
  /\ \E n \in 0 .. Len(input) : input' = SubSeq(input, n + 1, Len(input))
  /\ UNCHANGED <<program, garbled>>

Work == (Parse \/ Perform \/ Block) /\ UNCHANGED sender

\* The text is over, and main() waits for more.
Over == input = <<>> /\ want /\ UNCHANGED vars

LoaderNext == Deliver \/ Garble \/ Run \/ Work \/ Over

LoaderSpec == LoaderInit /\ [][LoaderNext]_vars

----------------------------------------------------------------------------
Holds(section) ==
  \A i \in 1 .. WordsSent(section) :
    mem[Cell(section.start + WordBytes * (i - 1))] = section.words[i]

Loaded == \A k \in DOMAIN program.sections : Holds(program.sections[k])

(* A program is started only when all of it is in memory as it was sent,   *)
(* and at its entry, also when one character of a block or of the numbers  *)
(* in a command line was garbled: main() goes on to read lines after an    *)
(* error, and the commands that still follow must not take effect.         *)
StartsWhatWasSent == [][Run => Loaded /\ arg = program.entry]_vars

(* What arrives as it was sent is accepted: the formats of dump_tinymon    *)
(* and main() agree (support.c:778, tinymon.c:243).                        *)
CleanTextAccepted == garbled = None => ~in_error

(* A text that arrives as it was sent ends in a running program, and one   *)
(* that does not in the error state: nothing that was garbled is loaded    *)
(* in silence.                                                             *)
EndsAsItShould ==
  input = <<>> /\ want => IF garbled = None THEN ran # None ELSE in_error

=============================================================================
