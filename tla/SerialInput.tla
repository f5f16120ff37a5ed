---------------------------- MODULE SerialInput ----------------------------
(***************************************************************************)
(* The serial port as the monitor uses it: the receive registers and the   *)
(* transmitter of rs232.v, and the routines of tinymon.c that poll them,   *)
(* keep the received bytes in a ring buffer, and print.                    *)
(*                                                                         *)
(* The processor and the line run side by side.  A step of the processor   *)
(* is one access to the port; the line delivers a byte at most every       *)
(* ByteTime steps, and sending a byte takes as long.                       *)
(***************************************************************************)
EXTENDS Integers, Sequences

CONSTANTS
  Byte,
  NewLine,   \* '\n'
  Return,    \* '\r'
  BufSize,   \* BUF_SIZE
  Tags,      \* 256: the counter of received bytes is 8 bits wide
  ByteTime,
  Windows    \* how many bytes the other side sends ahead of the monitor

SerialAssumption ==
  /\ BufSize \in Nat /\ BufSize > 1
  /\ Tags \in Nat /\ Tags > 1
  /\ ByteTime \in Nat
  /\ Windows \subseteq Nat
  /\ NewLine \in Byte /\ Return \in Byte

VARIABLES
  rs232in_cnt, rs232in_data, \* receiver
  since,                     \* steps since a byte arrived, up to ByteTime
  busy,                      \* steps until the transmitter is free
  last_serial_tag, serial_buffer, wp, rp,
  tag,                       \* as check_serial_input has read it
  pc, text, checks,          \* call in progress; what it prints; its polls
  ch,                        \* last byte that serial_in has returned
  window,                    \* one of Windows
  behind                     \* from an overrun until the tag read is current

device == <<rs232in_cnt, rs232in_data, since>>
ring   == <<last_serial_tag, serial_buffer, wp, rp>>
call   == <<pc, text, checks>>
vars   == <<device, busy, ring, tag, call, ch, window, behind>>

Slot  == 0 .. BufSize - 1
Inc(s) == (s + 1) % BufSize

Notice == <<"<", "#", ">">>  \* printed when the buffer overflows

Held == [i \in 1 .. (wp - rp + BufSize) % BufSize |->
           serial_buffer[(rp + i - 1) % BufSize]]

TypeOK ==
  /\ rs232in_cnt \in 0 .. Tags - 1
  /\ rs232in_data \in Byte
  /\ since \in 0 .. ByteTime
  /\ busy \in 0 .. ByteTime
  /\ last_serial_tag \in 0 .. Tags - 1
  /\ serial_buffer \in [Slot -> Byte]
  /\ wp \in Slot
  /\ rp \in Slot
  /\ tag \in 0 .. Tags - 1
  /\ pc \in {"run", "tag", "data", "overrun", "return"}
  /\ checks \in 0 .. 3
  /\ ch \in Byte
  /\ window \in Windows
  /\ behind \in BOOLEAN

Init ==
  /\ rs232in_cnt = 0
  /\ rs232in_data \in Byte
  /\ since = ByteTime
  /\ busy = 0
  /\ last_serial_tag = 0
  /\ serial_buffer \in [Slot -> {rs232in_data}]
  /\ wp = 1 /\ rp = 1
  /\ tag = 0
  /\ pc = "run" /\ text = <<>> /\ checks = 0
  /\ ch = rs232in_data
  /\ window \in Windows
  /\ behind = FALSE

----------------------------------------------------------------------------
(* The line.                                                               *)

Unread == (rs232in_cnt - last_serial_tag + Tags) % Tags

Arrive(b) ==
  /\ since = ByteTime
  /\ Len(Held) + Unread < window
  /\ rs232in_data' = b
  /\ rs232in_cnt' = (rs232in_cnt + 1) % Tags
  /\ since' = 0
  /\ UNCHANGED <<busy, ring, tag, call, ch, window, behind>>

\* A step of the processor takes time.
Elapse == since' = IF since < ByteTime THEN since + 1 ELSE since

Idle == busy' = IF busy > 0 THEN busy - 1 ELSE 0

\* SER_OUT: only while the transmitter is free.
SerOut == busy = 0 /\ busy' = ByteTime

----------------------------------------------------------------------------
(* check_serial_input                                                      *)

ReadTag ==
  /\ pc = "tag"
  /\ tag' = rs232in_cnt
  /\ IF rs232in_cnt # last_serial_tag
       THEN pc' = "data" /\ UNCHANGED behind
       ELSE pc' = "return" /\ behind' = FALSE
  /\ Elapse /\ Idle
  /\ UNCHANGED <<rs232in_cnt, rs232in_data, ring, text, checks, ch, window>>

ReadData_FullEarly ==
  /\ pc = "data"
  /\ serial_buffer' = [serial_buffer EXCEPT ![wp] = rs232in_data]
  /\ wp' = Inc(wp)
  /\ last_serial_tag' = tag
  /\ IF Inc(wp') = rp
       THEN pc' = "overrun" /\ text' = Notice \o text /\ behind' = TRUE
       ELSE pc' = "return" /\ UNCHANGED text /\ behind' = (behind /\ tag # rs232in_cnt)
  /\ Elapse /\ Idle
  /\ UNCHANGED <<rs232in_cnt, rs232in_data, rp, tag, checks, ch, window>>

ReadData ==
  /\ pc = "data"
  /\ serial_buffer' = [serial_buffer EXCEPT ![wp] = rs232in_data]
  /\ wp' = Inc(wp)
  /\ last_serial_tag' = tag
  /\ IF wp' = rp
       THEN pc' = "overrun" /\ text' = Notice \o text /\ behind' = TRUE
       ELSE pc' = "return" /\ UNCHANGED text /\ behind' = (behind /\ tag # rs232in_cnt)
  /\ Elapse /\ Idle
  /\ UNCHANGED <<rs232in_cnt, rs232in_data, rp, tag, checks, ch, window>>

\* The notice is printed without a look at the receiver.
WaitNotice ==
  /\ pc = "overrun"
  /\ busy > 0
  /\ Elapse /\ Idle
  /\ UNCHANGED <<rs232in_cnt, rs232in_data, ring, tag, call, ch, window, behind>>

PrintNotice ==
  /\ pc = "overrun"
  /\ SerOut
  /\ text' = Tail(text)
  /\ pc' = IF Head(text) = ">" THEN "return" ELSE "overrun"
  /\ Elapse
  /\ UNCHANGED <<rs232in_cnt, rs232in_data, ring, tag, checks, ch, window, behind>>

----------------------------------------------------------------------------
(* serial_in has no text to print, serial_out does.                        *)

Call(chars, n) ==
  /\ pc = "run"
  /\ pc' = "tag"
  /\ text' = chars
  /\ checks' = n
  /\ UNCHANGED <<device, busy, ring, tag, ch, window, behind>>

CallIn == Call(<<>>, 1)

\* serial_out('\n') checks once, and prints '\r' first.
CallOut(c) ==
  IF c = NewLine THEN Call(<<Return, NewLine>>, 3) ELSE Call(<<c>>, 2)

CheckAgain ==
  /\ pc = "return"
  /\ checks > 1
  /\ checks' = checks - 1
  /\ pc' = "tag"
  /\ UNCHANGED <<device, busy, ring, tag, text, ch, window, behind>>

\* do check_serial_input(); while (wp == rp)
KeepWaiting ==
  /\ pc = "return" /\ checks = 1 /\ text = <<>>
  /\ wp = rp
  /\ pc' = "tag"
  /\ UNCHANGED <<device, busy, ring, tag, text, checks, ch, window, behind>>

TakeByte ==
  /\ pc = "return" /\ checks = 1 /\ text = <<>>
  /\ wp # rp
  /\ ch' = serial_buffer[rp]
  /\ rp' = Inc(rp)
  /\ pc' = "run"
  /\ UNCHANGED <<device, busy, last_serial_tag, serial_buffer, wp, tag, text, checks, window, behind>>

WaitToPrint_Deaf ==
  /\ pc = "return" /\ checks = 1 /\ text # <<>>
  /\ busy > 0
  /\ Elapse /\ Idle
  /\ UNCHANGED <<rs232in_cnt, rs232in_data, ring, tag, call, ch, window, behind>>

\* while (SER_OUTBUSY()) check_serial_input()
WaitToPrint ==
  /\ pc = "return" /\ checks = 1 /\ text # <<>>
  /\ busy > 0
  /\ pc' = "tag"
  /\ Elapse /\ Idle
  /\ UNCHANGED <<rs232in_cnt, rs232in_data, ring, tag, text, checks, ch, window, behind>>

PrintChar ==
  /\ pc = "return" /\ checks = 1 /\ text # <<>>
  /\ SerOut
  /\ text' = Tail(text)
  /\ pc' = IF Len(text) = 1 THEN "run" ELSE "tag"
  /\ Elapse
  /\ UNCHANGED <<rs232in_cnt, rs232in_data, ring, tag, checks, ch, window, behind>>

\* restart: in main(), and its init_serial.
Restart ==
  /\ pc = "run"
  /\ last_serial_tag' = rs232in_cnt
  /\ wp' = 1 /\ rp' = 1
  /\ behind' = FALSE
  /\ Elapse /\ Idle
  /\ UNCHANGED <<rs232in_cnt, rs232in_data, serial_buffer, tag, call, ch, window>>

----------------------------------------------------------------------------
Poll == ReadTag \/ ReadData \/ WaitNotice \/ PrintNotice \/ CheckAgain

Input == CallIn \/ KeepWaiting \/ TakeByte

Output == (\E c \in Byte : CallOut(c)) \/ WaitToPrint \/ PrintChar

Processor == Poll \/ Input \/ Output \/ Restart

Next == Processor \/ \E b \in Byte : Arrive(b)

Spec == Init /\ [][Next]_vars

----------------------------------------------------------------------------
(* What serial_in will see of the receiver: nothing, the byte in it, or,   *)
(* when a byte arrived between the reads of tag and data, that byte twice. *)
Pending ==
  IF pc = "data"
    THEN IF tag = rs232in_cnt THEN <<rs232in_data>> ELSE <<rs232in_data, rs232in_data>>
  ELSE IF rs232in_cnt # last_serial_tag THEN <<rs232in_data>>
  ELSE <<>>

Stream == INSTANCE ByteStream WITH
  Cap <- BufSize - 1, waiting <- Held \o Pending, taken <- ch, behind <- behind

(* The ring buffer and its polling implement the byte stream.              *)
StreamSpec == Stream!Spec

(* As long as the other side sends no more than BUF_SIZE - 1 bytes ahead,  *)
(* nothing is dropped.                                                     *)
NothingDropped == window < BufSize => ~behind

=============================================================================
