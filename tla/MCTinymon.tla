----------------------------- MODULE MCTinymon -----------------------------
(***************************************************************************)
(* Instances of Loader and of SerialInput for TLC.  They share no state:   *)
(* the initial state says which of the two moves.                          *)
(***************************************************************************)
EXTENDS Loader

CONSTANTS a, nl, BufSize, Tags, ByteTime, Windows

VARIABLES
  part,
  rs232in_cnt, rs232in_data, since, busy, last_serial_tag, serial_buffer, wp, rp,
  tag, serial_pc, text, checks, serial_ch, window, behind

port == <<rs232in_cnt, rs232in_data, since, busy, last_serial_tag, serial_buffer, wp, rp,
          tag, serial_pc, text, checks, serial_ch, window, behind>>

\* With its theorems, which Tinymon_proofs applies to the runs.
Serial == INSTANCE SerialInput_proofs WITH
  Byte <- {a, nl}, NewLine <- nl, Return <- a, pc <- serial_pc, ch <- serial_ch

ASSUME SerialConstants == Serial!SerialAssumption

MCInit ==
  /\ LoaderInit
  /\ Serial!Init
  /\ \/ part = "loader" /\ rs232in_data = a /\ window = BufSize - 1
     \/ part = "serial" /\ program = CHOOSE p \in Programs : TRUE

MCNext ==
  \/ part = "loader" /\ LoaderNext /\ UNCHANGED <<part, port>>
  \/ part = "serial" /\ Serial!Next /\ UNCHANGED <<part, vars>>

MCSpec == MCInit /\ [][MCNext]_<<part, vars, port>>

(* The ring buffer and its polling implement the byte stream.              *)
SerialStream == Serial!StreamSpec

(* BUF_SIZE - 1 bytes ahead are never too many.                            *)
SerialNothingDropped == Serial!NothingDropped

----------------------------------------------------------------------------
Section(start, size, words) == [start |-> start, size |-> size, words |-> words]

\* Lines without checksums: "r ", "L0 ", "t", an empty one, and "w 1".
Typed == <<LetterR, Space, LF, BigL, Zero, Space, LF, LetterT, LF, CR, LetterW, Space, One, LF>>

Pairs(S, T) ==
  {[typed |-> t,
    sections |-> <<Section(0, 2 * WordBytes, <<u, v>>), Section(12, WordBytes, <<25>>)>>,
    entry |-> e] : u \in S, v \in S, e \in {0, 13}, t \in T}

\* The digits of these words, and of the sums of two, are no clear command.
WholeWords == Pairs({0, 1, 25, 33, 63}, {<<>>}) \cup Pairs({1}, {Typed})

\* A section that ends within a word, and blocks with a line that reads "c".
PartWords == {[typed |-> <<>>, sections |-> <<Section(0, 2 * WordBytes - 1, <<1, 33>>)>>, entry |-> 0]}
ClearLike == Pairs({0, 4}, {<<>>})

\* A digit becomes another digit or, in a block, any printable character.
NumbersAndBlocks(at) ==
  {<<ch>> : ch \in IF at.part = "block" THEN Char \ {LF, CR, Space}
                   ELSE IF at.part \in {"arg", "chk"} THEN HexDigits
                   ELSE {}}

Clean(at) == {}

=============================================================================
