------------------------ MODULE SerialInput_proofs -------------------------
(***************************************************************************)
(* The variables of the serial input keep to their types; a sender that    *)
(* keeps within the ring buffer loses nothing, and ring buffer, polling    *)
(* and receiver implement the byte stream, for every size of the buffer    *)
(* and width of the tag, if a byte takes at least three accesses of the    *)
(* processor to the port.                                                  *)
(***************************************************************************)
EXTENDS SerialInput, SequenceTheorems, TLAPS

USE DEF device, ring, call

----------------------------------------------------------------------------
(* Numbers.                                                                *)

LEMMA ModCases ==
  ASSUME NEW m \in Nat \ {0}, NEW n \in 0 .. 2 * m - 1
  PROVE  n % m = IF n < m THEN n ELSE n - m
<1>1. n < m => n % m = n
  OBVIOUS
<1>2. n >= m => n % m = n - m
  OBVIOUS
<1> QED
  BY <1>1, <1>2

LEMMA NextIndex ==
  ASSUME NEW m \in Nat \ {0}, NEW s \in 0 .. m - 1
  PROVE  (s + 1) % m = IF s = m - 1 THEN 0 ELSE s + 1
<1> DEFINE n == s + 1
<1>1. n \in 0 .. 2 * m - 1
  OBVIOUS
<1>2. n < m <=> s # m - 1
  OBVIOUS
<1>3. n - m = 0 <=> s = m - 1
  OBVIOUS
<1> HIDE DEF n
<1>4. n % m = IF n < m THEN n ELSE n - m
  BY <1>1, ModCases
<1> QED
  BY <1>2, <1>3, <1>4 DEF n

LEMMA Distance ==
  ASSUME NEW m \in Nat \ {0}, NEW s \in 0 .. m - 1, NEW t \in 0 .. m - 1
  PROVE  (s - t + m) % m = IF s >= t THEN s - t ELSE s - t + m
<1> DEFINE n == s - t + m
<1>1. n \in 0 .. 2 * m - 1
  OBVIOUS
<1>2. (n < m <=> ~(s >= t)) /\ n - m = s - t
  OBVIOUS
<1> HIDE DEF n
<1>3. n % m = IF n < m THEN n ELSE n - m
  BY <1>1, ModCases
<1> QED
  BY <1>2, <1>3 DEF n

----------------------------------------------------------------------------
(* Types.                                                                  *)

LEMMA TypeInit == ASSUME SerialAssumption PROVE Init => TypeOK
<1> SUFFICES ASSUME Init PROVE TypeOK
  OBVIOUS
<1>1. 0 \in 0 .. Tags - 1 /\ 1 \in Slot /\ 0 \in 0 .. ByteTime /\ ByteTime \in 0 .. ByteTime
      /\ 0 \in 0 .. 3
  BY DEF SerialAssumption, Slot
<1>2. rs232in_data \in Byte /\ serial_buffer \in [Slot -> Byte] /\ ch \in Byte /\ window \in Windows
  BY DEF Init
<1>3. /\ rs232in_cnt = 0 /\ since = ByteTime /\ busy = 0 /\ last_serial_tag = 0 /\ wp = 1 /\ rp = 1
      /\ tag = 0 /\ pc = "run" /\ checks = 0 /\ behind = FALSE
  BY DEF Init
<1> QED
  BY <1>1, <1>2, <1>3, Zenon DEF TypeOK

LEMMA TypeStep == ASSUME SerialAssumption PROVE TypeOK /\ [Next]_vars => TypeOK'
<1> SUFFICES ASSUME TypeOK, [Next]_vars PROVE TypeOK'
  OBVIOUS
<1> USE DEF TypeOK
<1>1. /\ BufSize \in Nat \ {0} /\ Tags \in Nat \ {0} /\ ByteTime \in Nat
      /\ 0 \in Slot /\ 1 \in Slot /\ 0 \in 0 .. Tags - 1
  BY DEF SerialAssumption, Slot
<1>2. /\ \A s \in Slot : Inc(s) \in Slot
      /\ (rs232in_cnt + 1) % Tags \in 0 .. Tags - 1
  BY <1>1, NextIndex DEF Inc, Slot
<1>3. CASE UNCHANGED vars
  BY <1>3 DEF vars
<1>4. Elapse => since' \in 0 .. ByteTime
  BY <1>1 DEF Elapse
<1>5. Idle \/ SerOut => busy' \in 0 .. ByteTime
  BY <1>1 DEF Idle, SerOut
<1>6. CASE Poll
  <2>1. CASE ReadTag
    BY <1>4, <1>5, <2>1 DEF ReadTag
  <2>2. CASE ReadData
    BY <1>2, <1>4, <1>5, <2>2 DEF ReadData
  <2>3. CASE WaitNotice
    BY <1>4, <1>5, <2>3 DEF WaitNotice
  <2>4. CASE PrintNotice
    BY <1>4, <1>5, <2>4 DEF PrintNotice
  <2>5. CASE CheckAgain
    BY <2>5 DEF CheckAgain
  <2> QED
    BY <1>6, <2>1, <2>2, <2>3, <2>4, <2>5 DEF Poll
<1>7. CASE Input
  <2>1. CASE CallIn
    BY <2>1 DEF CallIn, Call
  <2>2. CASE KeepWaiting
    BY <2>2 DEF KeepWaiting
  <2>3. CASE TakeByte
    BY <1>2, <2>3 DEF TakeByte
  <2> QED
    BY <1>7, <2>1, <2>2, <2>3 DEF Input
<1>8. CASE Output
  <2>1. ASSUME NEW x \in Byte, CallOut(x) PROVE TypeOK'
    BY <2>1 DEF CallOut, Call
  <2>2. CASE WaitToPrint
    BY <1>4, <1>5, <2>2 DEF WaitToPrint
  <2>3. CASE PrintChar
    BY <1>4, <1>5, <2>3 DEF PrintChar
  <2> QED
    BY <1>8, <2>1, <2>2, <2>3 DEF Output
<1>9. CASE Restart
  BY <1>1, <1>4, <1>5, <1>9 DEF Restart
<1>10. ASSUME NEW b \in Byte, Arrive(b) PROVE TypeOK'
  BY <1>1, <1>2, <1>10 DEF Arrive
<1> QED
  BY <1>3, <1>6, <1>7, <1>8, <1>9, <1>10 DEF Next, Processor

(* The registers of the port, the ring buffer and the call in progress     *)
(* keep to their types, for every buffer, tag and time of a byte.          *)
THEOREM SerialTypeCorrect == ASSUME SerialAssumption PROVE Spec => []TypeOK
  BY TypeInit, TypeStep, PTL DEF Spec

----------------------------------------------------------------------------
(* At most one byte is unread, and since it came the processor has taken   *)
(* no more steps than it takes from a poll that just missed it to the read *)
(* of its data; so no second byte comes while one is unread.               *)
Slack == IF pc = "return" THEN 0 ELSE IF pc = "data" THEN 2 ELSE 1

Current == rs232in_cnt = last_serial_tag

OnTime ==
  /\ pc # "overrun"
  /\ Current \/ (rs232in_cnt = (last_serial_tag + 1) % Tags /\ since <= Slack)
  /\ pc = "data" => ~Current /\ tag = rs232in_cnt

InTime ==
  /\ ~behind
  /\ OnTime
  /\ Len(Held) + (IF Current THEN 0 ELSE 1) <= window

IInv == window < BufSize => InTime

LEMMA HeldFacts ==
  ASSUME SerialAssumption, TypeOK
  PROVE  Len(Held) = IF wp >= rp THEN wp - rp ELSE wp - rp + BufSize
<1> DEFINE n == (wp - rp + BufSize) % BufSize
<1>1. n = IF wp >= rp THEN wp - rp ELSE wp - rp + BufSize
  <2>1. BufSize \in Nat \ {0} /\ wp \in 0 .. BufSize - 1 /\ rp \in 0 .. BufSize - 1
    BY DEF SerialAssumption, TypeOK, Slot
  <2> QED
    BY <2>1, Distance
<1>2. n \in Nat
  BY <1>1 DEF SerialAssumption, TypeOK, Slot
<1> HIDE DEF n
<1>3. Held = [i \in 1 .. n |-> serial_buffer[(rp + i - 1) % BufSize]]
  BY DEF Held, n
<1>4. Len(Held) = n
  BY <1>2, <1>3
<1> QED
  BY <1>1, <1>4

LEMMA UnreadFacts ==
  ASSUME SerialAssumption, TypeOK, Current \/ rs232in_cnt = (last_serial_tag + 1) % Tags
  PROVE  /\ Unread = IF Current THEN 0 ELSE 1
         /\ ~Current => rs232in_cnt = (last_serial_tag + 1) % Tags
         /\ (rs232in_cnt + 1) % Tags # rs232in_cnt
<1>1. Tags \in Nat /\ Tags > 1 /\ last_serial_tag \in 0 .. Tags - 1 /\ rs232in_cnt \in 0 .. Tags - 1
  BY DEF SerialAssumption, TypeOK
<1>2. (last_serial_tag + 1) % Tags = IF last_serial_tag = Tags - 1 THEN 0 ELSE last_serial_tag + 1
  BY <1>1, NextIndex
<1>3. (rs232in_cnt + 1) % Tags = IF rs232in_cnt = Tags - 1 THEN 0 ELSE rs232in_cnt + 1
  BY <1>1, NextIndex
<1>4. Unread = IF rs232in_cnt >= last_serial_tag THEN rs232in_cnt - last_serial_tag
               ELSE rs232in_cnt - last_serial_tag + Tags
  BY <1>1, Distance DEF Unread
<1> QED
  BY <1>1, <1>2, <1>3, <1>4 DEF Current

LEMMA IncFacts ==
  ASSUME SerialAssumption, NEW s \in Slot
  PROVE  Inc(s) \in Slot /\ Inc(s) = IF s = BufSize - 1 THEN 0 ELSE s + 1
<1>1. BufSize \in Nat \ {0} /\ s \in 0 .. BufSize - 1
  BY DEF SerialAssumption, Slot
<1>2. Inc(s) = IF s = BufSize - 1 THEN 0 ELSE s + 1
  BY <1>1, NextIndex DEF Inc
<1> QED
  BY <1>1, <1>2 DEF Slot

LEMMA InTimeStep ==
  ASSUME SerialAssumption, ByteTime >= 3, window < BufSize, TypeOK, InTime, [Next]_vars
  PROVE  InTime' /\ window' = window
<1> DEFINE Waiting == Len(Held)
<1>1. /\ BufSize \in Nat /\ BufSize > 1 /\ ByteTime \in Nat /\ ByteTime >= 3
      /\ window \in Nat /\ since \in 0 .. ByteTime
      /\ wp \in Slot /\ rp \in Slot /\ wp \in 0 .. BufSize - 1 /\ rp \in 0 .. BufSize - 1
  BY DEF SerialAssumption, TypeOK, Slot
<1>2. Waiting = IF wp >= rp THEN wp - rp ELSE wp - rp + BufSize
  BY HeldFacts
<1>3. UNCHANGED <<wp, rp, serial_buffer>> => Waiting' = Waiting
  BY DEF Held
<1>4. Current \/ (~Current /\ rs232in_cnt = (last_serial_tag + 1) % Tags /\ since <= Slack)
  BY DEF InTime, OnTime
<1>5. Elapse => since' <= since + 1
  BY <1>1 DEF Elapse
<1>6. Waiting' = IF wp' >= rp' THEN wp' - rp' ELSE wp' - rp' + BufSize
  <2>1. TypeOK'
    BY TypeStep
  <2>2. (TypeOK => Len(Held) = IF wp >= rp THEN wp - rp ELSE wp - rp + BufSize)'
    BY HeldFacts, PTL
  <2> QED
    BY <2>1, <2>2
<1> HIDE DEF Waiting
<1> USE DEF InTime, OnTime, Slack, Current
<1>7. CASE UNCHANGED vars
  BY <1>3, <1>7 DEF vars, Waiting
<1>8. CASE ReadTag
  <2>1. /\ pc = "tag" /\ tag' = rs232in_cnt /\ since' <= since + 1
        /\ UNCHANGED <<rs232in_cnt, last_serial_tag, wp, rp, serial_buffer, window>>
        /\ pc' = IF Current THEN "return" ELSE "data"
    BY <1>5, <1>8 DEF ReadTag
  <2>2. Waiting' = Waiting /\ ~behind'
    BY <1>3, <1>8, <2>1 DEF ReadTag
  <2>3. ~Current => since' <= 2
    <3>1. ~Current => since <= 1
      BY <1>4, <2>1
    <3>2. since' = IF since < ByteTime THEN since + 1 ELSE since
      BY <1>8 DEF ReadTag, Elapse
    <3> QED
      BY <1>1, <3>1, <3>2
  <2> QED
    BY <2>1, <2>2, <2>3 DEF Waiting
<1>9. CASE ReadData
  <2>1. Waiting + 1 <= window /\ Waiting + 1 < BufSize /\ since <= 2
    BY <1>1, <1>2, <1>9 DEF ReadData, Waiting
  <2>2. wp' = (IF wp = BufSize - 1 THEN 0 ELSE wp + 1) /\ rp' = rp
    BY <1>1, <1>9, IncFacts DEF ReadData
  <2>3. wp' # rp' /\ Waiting' = Waiting + 1
    BY <1>1, <1>2, <1>6, <2>1, <2>2
  <2>4. last_serial_tag' = tag /\ rs232in_cnt' = tag /\ tag = rs232in_cnt
    BY <1>9 DEF ReadData
  <2>5. pc' = "return" /\ ~behind' /\ window' = window
    BY <1>9, <2>2, <2>3, <2>4 DEF ReadData
  <2> QED
    BY <2>1, <2>3, <2>4, <2>5 DEF Waiting
<1>10. CASE WaitNotice \/ PrintNotice
  BY <1>10 DEF WaitNotice, PrintNotice
<1>11. CASE CheckAgain
  BY <1>1, <1>3, <1>4, <1>11 DEF CheckAgain, Waiting
<1>12. ASSUME NEW chars, NEW n, Call(chars, n) PROVE InTime' /\ window' = window
  BY <1>1, <1>3, <1>4, <1>12 DEF Call, Waiting
<1>13. CASE KeepWaiting
  BY <1>1, <1>3, <1>4, <1>13 DEF KeepWaiting, Waiting
<1>14. CASE TakeByte
  <2>1. rp' = (IF rp = BufSize - 1 THEN 0 ELSE rp + 1) /\ wp' = wp /\ wp # rp
    BY <1>1, <1>14, IncFacts DEF TakeByte
  <2>2. Waiting' = Waiting - 1 /\ Waiting \in Nat
    BY <1>1, <1>2, <1>6, <2>1
  <2> QED
    BY <1>1, <1>4, <1>14, <2>2 DEF TakeByte, Waiting
<1>15. CASE WaitToPrint
  BY <1>1, <1>3, <1>4, <1>5, <1>15 DEF WaitToPrint, Waiting
<1>16. CASE PrintChar
  BY <1>1, <1>3, <1>4, <1>5, <1>16 DEF PrintChar, Waiting
<1>17. CASE Restart
  <2>1. Waiting' = 0
    BY <1>1, <1>6, <1>17 DEF Restart
  <2> QED
    BY <1>1, <1>17, <2>1 DEF Restart, Waiting
<1>18. ASSUME NEW b \in Byte, Arrive(b) PROVE InTime' /\ window' = window
  <2>1. Current
    BY <1>1, <1>4, <1>18 DEF Arrive
  <2>2. Waiting < window
    BY <2>1, <1>18, UnreadFacts, <1>1, <1>2 DEF Arrive, Waiting
  <2>3. pc # "data" /\ ~behind
    BY <2>1
  <2>4. Waiting' = Waiting
    BY <1>3, <1>18 DEF Arrive
  <2>5. rs232in_cnt' = (last_serial_tag' + 1) % Tags /\ since' = 0
    BY <1>18, <2>1 DEF Arrive
  <2> QED
    BY <1>1, <1>2, <1>18, <2>1, <2>2, <2>3, <2>4, <2>5, UnreadFacts DEF Arrive, Waiting
<1> QED
  BY <1>7, <1>8, <1>9, <1>10, <1>11, <1>12, <1>13, <1>14, <1>15, <1>16, <1>17, <1>18
  DEF Next, Processor, Poll, Input, Output, CallIn, CallOut

(* A sender that is never more than BUF_SIZE - 1 bytes ahead loses none:   *)
(* the ring buffer does not overflow (tinymon.c:47), whatever its size and *)
(* the width of the tag, and however reading and printing alternate.       *)
THEOREM NothingDroppedCorrect ==
  ASSUME SerialAssumption, ByteTime >= 3
  PROVE  Spec => []NothingDropped
<1>1. Init => TypeOK /\ IInv
  <2> SUFFICES ASSUME Init PROVE TypeOK /\ IInv
    OBVIOUS
  <2>1. TypeOK
    BY TypeInit
  <2>2. Len(Held) = 0
    BY <2>1, HeldFacts DEF Init
  <2>3. InTime
    BY <2>1, <2>2 DEF Init, InTime, OnTime, Current, TypeOK, SerialAssumption
  <2> QED
    BY <2>1, <2>3 DEF IInv
<1>2. TypeOK /\ IInv /\ [Next]_vars => TypeOK' /\ IInv'
  <2> SUFFICES ASSUME TypeOK, IInv, [Next]_vars PROVE TypeOK' /\ IInv'
    OBVIOUS
  <2>1. TypeOK'
    BY TypeStep
  <2>2. window' = window
    BY DEF Next, Processor, Poll, Input, Output, CallIn, CallOut, Call, ReadTag, ReadData, WaitNotice,
      PrintNotice, CheckAgain, KeepWaiting, TakeByte, WaitToPrint, PrintChar, Restart, Arrive, vars
  <2>3. window < BufSize => InTime'
    BY InTimeStep DEF IInv
  <2> QED
    BY <2>1, <2>2, <2>3 DEF IInv
<1>3. IInv => NothingDropped
  BY DEF IInv, InTime, NothingDropped
<1> QED
  BY <1>1, <1>2, <1>3, PTL DEF Spec

----------------------------------------------------------------------------
(* The stream of bytes.                                                    *)

(* After an overrun: u bytes have come since the last poll, and the next   *)
(* poll is in time steps at most.  The notice takes three bytes' time.     *)
Late(u, time) ==
  /\ rs232in_cnt = (last_serial_tag + u) % Tags
  /\ u * ByteTime + since + time <= 4 * ByteTime + 3

NoticeFrom(n) == IF n = 3 THEN Notice ELSE IF n = 2 THEN <<"#", ">">> ELSE <<">">>

NoticeTime(n) == busy + 2 + (IF n = 3 THEN 2 * ByteTime + 2 ELSE IF n = 2 THEN ByteTime + 1 ELSE 0)

Catching ==
  /\ pc = "data" => \/ tag = rs232in_cnt
                    \/ rs232in_cnt = (tag + 1) % Tags /\ since = 0
  /\ pc = "overrun" => \E n \in 1 .. 3, u \in 0 .. 5, rest \in Seq(Byte) :
                         text = NoticeFrom(n) \o rest /\ Late(u, NoticeTime(n))
  /\ pc \notin {"data", "overrun"} => \E u \in 0 .. 5 : Late(u, IF pc = "return" THEN 1 ELSE 0)

StreamInv ==
  /\ TypeOK
  /\ pc # "overrun" => text \in Seq(Byte)
  /\ pc = "data" => busy < ByteTime
  /\ IF behind THEN Catching ELSE OnTime

StreamAssumption == SerialAssumption /\ ByteTime >= 3 /\ Tags >= 6

LEMMA TextStep ==
  ASSUME StreamAssumption, StreamInv, [Next]_vars
  PROVE  /\ pc' # "overrun" => text' \in Seq(Byte)
         /\ pc' = "data" => busy' < ByteTime
<1> USE DEF StreamInv
<1>1. /\ ByteTime \in Nat /\ ByteTime >= 3 /\ busy \in 0 .. ByteTime
      /\ NewLine \in Byte /\ Return \in Byte
  BY DEF StreamAssumption, SerialAssumption, TypeOK
<1>2. CASE UNCHANGED vars
  BY <1>2 DEF vars
<1>3. CASE ReadTag
  <2>1. busy' < ByteTime
    BY <1>1, <1>3 DEF ReadTag, Idle
  <2> QED
    BY <1>3, <2>1 DEF ReadTag
<1>4. CASE ReadData
  BY <1>4 DEF ReadData
<1>5. CASE WaitNotice
  BY <1>5 DEF WaitNotice
<1>6. CASE PrintNotice
  <2>1. SUFFICES ASSUME pc' = "return" PROVE text' \in Seq(Byte)
    BY <1>6 DEF PrintNotice
  <2>2. behind
    BY <1>6 DEF PrintNotice, OnTime
  <2>3. PICK n \in 1 .. 3, rest \in Seq(Byte) : text = NoticeFrom(n) \o rest
    BY <1>6, <2>2 DEF PrintNotice, Catching
  <2>4. Head(text) = ">"
    BY <1>6, <2>1 DEF PrintNotice
  <2>5. text = <<">">> \o rest
    BY <2>3, <2>4 DEF NoticeFrom, Notice
  <2>6. Tail(text) = rest
    BY <2>5
  <2> QED
    BY <1>6, <2>6 DEF PrintNotice
<1>7. CASE CheckAgain
  BY <1>7 DEF CheckAgain
<1>8. CASE CallIn
  BY <1>8, EmptySeq DEF CallIn, Call
<1>9. ASSUME NEW b \in Byte, CallOut(b) PROVE text' \in Seq(Byte) /\ pc' = "tag"
  <2>1. <<Return, NewLine>> \in Seq(Byte) /\ <<b>> \in Seq(Byte)
    BY <1>1
  <2> QED
    BY <1>9, <2>1 DEF CallOut, Call
<1>10. CASE KeepWaiting
  BY <1>10 DEF KeepWaiting
<1>11. CASE TakeByte
  BY <1>11 DEF TakeByte
<1>12. CASE WaitToPrint
  BY <1>12 DEF WaitToPrint
<1>13. CASE PrintChar
  BY <1>13, HeadTailProperties DEF PrintChar
<1>14. CASE Restart
  BY <1>14 DEF Restart
<1>15. ASSUME NEW b \in Byte, Arrive(b) PROVE UNCHANGED <<pc, text, busy>>
  BY <1>15 DEF Arrive
<1> QED
  BY <1>2, <1>3, <1>4, <1>5, <1>6, <1>7, <1>8, <1>9, <1>10, <1>11, <1>12, <1>13, <1>14, <1>15
  DEF Next, Processor, Poll, Input, Output

LEMMA OnTimeStep ==
  ASSUME StreamAssumption, StreamInv, ~behind, [Next]_vars, ~behind'
  PROVE  OnTime'
<1> USE DEF OnTime, Slack, Current
<1>1. /\ ByteTime \in Nat /\ ByteTime >= 3 /\ since \in 0 .. ByteTime
      /\ SerialAssumption /\ TypeOK /\ OnTime
  BY DEF StreamAssumption, SerialAssumption, TypeOK, StreamInv
<1>2. Elapse => since' <= since + 1
  BY <1>1 DEF Elapse
<1>3. CASE UNCHANGED vars
  BY <1>1, <1>3 DEF vars
<1>4. CASE ReadTag
  <2>1. ~Current => since <= 1
    BY <1>1, <1>4 DEF ReadTag
  <2>2. ~Current => since' <= 2
    BY <1>1, <1>2, <1>4, <2>1 DEF ReadTag, Elapse
  <2> QED
    BY <1>1, <1>4, <2>2 DEF ReadTag
<1>5. CASE ReadData
  BY <1>1, <1>5 DEF ReadData
<1>6. CASE WaitNotice \/ PrintNotice
  BY <1>1, <1>6 DEF WaitNotice, PrintNotice
<1>7. CASE CheckAgain \/ KeepWaiting \/ TakeByte
  BY <1>1, <1>7 DEF CheckAgain, KeepWaiting, TakeByte
<1>8. ASSUME NEW chars, NEW n, Call(chars, n) PROVE OnTime'
  BY <1>1, <1>8 DEF Call
<1>9. CASE WaitToPrint
  BY <1>1, <1>2, <1>9 DEF WaitToPrint
<1>10. CASE PrintChar
  BY <1>1, <1>2, <1>10 DEF PrintChar
<1>11. CASE Restart
  BY <1>1, <1>11 DEF Restart
<1>12. ASSUME NEW b \in Byte, Arrive(b) PROVE OnTime'
  <2>1. Current
    BY <1>1, <1>12 DEF Arrive
  <2>2. (rs232in_cnt + 1) % Tags # rs232in_cnt
    BY <1>1, UnreadFacts
  <2> QED
    BY <1>1, <1>12, <2>1, <2>2 DEF Arrive
<1> QED
  BY <1>3, <1>4, <1>5, <1>6, <1>7, <1>8, <1>9, <1>10, <1>11, <1>12
  DEF Next, Processor, Poll, Input, Output, CallIn, CallOut

LEMMA Ticks ==
  ASSUME NEW u \in 0 .. 5, NEW t \in Nat
  PROVE  /\ u * t \in Nat
         /\ (u + 1) * t = u * t + t
         /\ u = 0 => u * t = 0
         /\ u = 1 => u * t = t
         /\ u = 5 => u * t = 5 * t
  OBVIOUS

LEMMA Bounded ==
  ASSUME NEW k \in Nat, NEW s \in Nat, NEW s2 \in Nat, NEW t \in Int, NEW t2 \in Int, NEW b \in Int,
         k + s + t <= b, s2 + t2 <= s + t
  PROVE  k + s2 + t2 <= b
  OBVIOUS

LEMMA OneLess ==
  ASSUME NEW s \in Nat, NEW s2 \in Nat, s2 <= s + 1, NEW t \in Int
  PROVE  s2 + (t - 1) <= s + t /\ s2 + 1 <= s + 2
  OBVIOUS

LEMMA LaterTag ==
  ASSUME NEW m \in Nat \ {0}, NEW n \in 0 .. m - 1, NEW u \in 0 .. 5, NEW k \in 0 .. m - 1,
         k = (n + u) % m
  PROVE  (k + 1) % m = (n + (u + 1)) % m
  OBVIOUS

LEMMA CatchingStep ==
  ASSUME StreamAssumption, StreamInv, TypeOK', [Next]_vars, behind'
  PROVE  Catching'
<1>1. /\ ByteTime \in Nat /\ ByteTime >= 3 /\ since \in 0 .. ByteTime /\ busy \in 0 .. ByteTime
      /\ Tags \in Nat \ {0} /\ Tags >= 6 /\ SerialAssumption /\ TypeOK
      /\ rs232in_cnt \in 0 .. Tags - 1 /\ last_serial_tag \in 0 .. Tags - 1 /\ tag \in 0 .. Tags - 1
  BY DEF StreamAssumption, SerialAssumption, TypeOK, StreamInv
<1>2. Elapse => since' \in Nat /\ since' <= since + 1
  BY <1>1 DEF Elapse
<1>3. ASSUME NEW u \in 0 .. 5, NEW time \in Int, NEW time2 \in Int, Late(u, time), since' \in Nat,
             UNCHANGED <<rs232in_cnt, last_serial_tag>>, since' + time2 <= since + time
      PROVE  /\ rs232in_cnt' = (last_serial_tag' + u) % Tags
             /\ u * ByteTime + since' + time2 <= 4 * ByteTime + 3
  <2>1. u * ByteTime \in Nat /\ 4 * ByteTime + 3 \in Int /\ since \in Nat
    BY <1>1, Ticks
  <2>2. u * ByteTime + since + time <= 4 * ByteTime + 3
    BY <1>3 DEF Late
  <2>3. u * ByteTime + since' + time2 <= 4 * ByteTime + 3
    BY <1>3, <2>1, <2>2, Bounded
  <2> QED
    BY <1>3, <2>3 DEF Late
<1>4. NoticeTime(1) = busy + 2 /\ NoticeTime(2) = busy + ByteTime + 3 /\ NoticeTime(3) = busy + 2 * ByteTime + 4
  BY <1>1 DEF NoticeTime
<1>5. CASE UNCHANGED vars
  <2>1. behind /\ Catching
    BY <1>5 DEF vars, StreamInv
  <2> QED
    BY <1>5, <2>1 DEF vars, Catching, Late, NoticeTime
<1>6. CASE ReadTag
  BY <1>6 DEF ReadTag, Catching
<1>7. CASE ReadData
  <2>1. \E u \in 0 .. 1 : rs232in_cnt = (tag + u) % Tags /\ u * ByteTime + since' <= ByteTime + 1
    <3>1. tag = rs232in_cnt \/ (rs232in_cnt = (tag + 1) % Tags /\ since = 0)
      BY <1>7 DEF ReadData, StreamInv, Catching, OnTime
    <3>2. CASE tag = rs232in_cnt
      <4>1. rs232in_cnt = (tag + 0) % Tags
        BY <1>1, <3>2
      <4>2. 0 * ByteTime + since' <= ByteTime + 1
        BY <1>1, <1>7 DEF ReadData, Elapse
      <4> QED
        BY <4>1, <4>2
    <3>3. CASE rs232in_cnt = (tag + 1) % Tags /\ since = 0
      <4>1. 1 * ByteTime + since' <= ByteTime + 1
        BY <1>1, <1>7, <3>3 DEF ReadData, Elapse
      <4> QED
        BY <3>3, <4>1
    <3> QED
      BY <3>1, <3>2, <3>3
  <2>2. PICK u \in 0 .. 1 : rs232in_cnt = (tag + u) % Tags /\ u * ByteTime + since' <= ByteTime + 1
    BY <2>1
  <2>3. u * ByteTime \in Nat /\ since' \in Nat /\ u \in 0 .. 5
    BY <1>1, <1>2, <1>7, Ticks DEF ReadData
  <2>7. ASSUME NEW time \in Nat, time <= 3 * ByteTime + 2
        PROVE  u * ByteTime + since' + time <= 4 * ByteTime + 3
    <3>1. ASSUME NEW k \in Nat, NEW s \in Nat, k + s <= ByteTime + 1
          PROVE  k + s + time <= 4 * ByteTime + 3
      BY <1>1, <2>7, <3>1
    <3> QED
      BY <2>2, <2>3, <3>1
  <2>4. rs232in_cnt' = (last_serial_tag' + u) % Tags
    BY <1>7, <2>2 DEF ReadData
  <2>5. CASE pc' = "overrun"
    <3>1. text' = NoticeFrom(3) \o text /\ text \in Seq(Byte)
      BY <1>7, <2>5 DEF ReadData, NoticeFrom, StreamInv
    <3>2. busy' + 2 <= ByteTime
      <4>1. busy < ByteTime
        BY <1>7 DEF ReadData, StreamInv
      <4> QED
        BY <1>1, <1>7, <4>1 DEF ReadData, Idle
    <3>3. busy' \in Nat
      BY <1>1, <1>7 DEF ReadData, Idle
    <3>4. u * ByteTime + since' + (busy' + 2 + (2 * ByteTime + 2)) <= 4 * ByteTime + 3
      <4>1. ASSUME NEW k \in Nat, k + 2 <= ByteTime
            PROVE  k + 2 + (2 * ByteTime + 2) \in Nat /\ k + 2 + (2 * ByteTime + 2) <= 3 * ByteTime + 2
        BY <1>1, <4>1
      <4> QED
        BY <2>7, <3>2, <3>3, <4>1
    <3>5. Late(u, NoticeTime(3))'
      BY <2>4, <3>4 DEF Late, NoticeTime
    <3>6. \E n \in 1 .. 3, k \in 0 .. 5, rest \in Seq(Byte) :
            text' = NoticeFrom(n) \o rest /\ Late(k, NoticeTime(n))'
      <4>1. 3 \in 1 .. 3 /\ u \in 0 .. 5 /\ text \in Seq(Byte)
        BY <2>3, <3>1
      <4>2. text' = NoticeFrom(3) \o text /\ Late(u, NoticeTime(3))'
        BY <3>1, <3>5
      <4> QED
        BY <4>1, <4>2, Zenon
    <3> QED
      BY <2>5, <3>6 DEF Catching, NoticeFrom, Notice
  <2>6. CASE pc' = "return"
    <3>1. u * ByteTime + since' + 1 <= 4 * ByteTime + 3
      BY <1>1, <2>7
    <3>2. Late(u, 1)'
      BY <2>4, <3>1 DEF Late
    <3> QED
      BY <2>3, <2>6, <3>2 DEF Catching
  <2> QED
    BY <1>7, <2>5, <2>6 DEF ReadData
<1>8. CASE pc = "overrun" /\ (WaitNotice \/ PrintNotice)
  <2>1. PICK n \in 1 .. 3, u \in 0 .. 5, rest \in Seq(Byte) :
          text = NoticeFrom(n) \o rest /\ Late(u, NoticeTime(n))
    BY <1>8 DEF StreamInv, OnTime, Catching
  <2>2. since' \in Nat /\ since' <= since + 1 /\ UNCHANGED <<rs232in_cnt, last_serial_tag>>
    BY <1>2, <1>8 DEF WaitNotice, PrintNotice
  <2>3. CASE WaitNotice
    <3>1. NoticeTime(n)' = NoticeTime(n) - 1 /\ NoticeTime(n) \in Int
      BY <1>1, <2>3 DEF WaitNotice, Idle, NoticeTime
    <3> DEFINE t == NoticeTime(n)
    <3> DEFINE t2 == NoticeTime(n)'
    <3>2. t2 \in Int /\ since' + t2 <= since + t
      BY <1>1, <2>2, <3>1
    <3> HIDE DEF t, t2
    <3>3. rs232in_cnt' = (last_serial_tag' + u) % Tags
      BY <2>1, <2>2 DEF Late
    <3>4. u * ByteTime + since + t <= 4 * ByteTime + 3 /\ u * ByteTime \in Nat /\ t \in Int
      BY <1>1, <2>1, <3>1, Ticks DEF Late, t
    <3>5. u * ByteTime + since' + t2 <= 4 * ByteTime + 3
      <4>1. 4 * ByteTime + 3 \in Int /\ since \in Nat
        BY <1>1
      <4> QED
        BY <2>2, <3>2, <3>4, <4>1, Bounded
    <3>6. Late(u, NoticeTime(n))'
      BY <3>3, <3>5 DEF Late, t2
    <3>7. pc' = "overrun" /\ text' = NoticeFrom(n) \o rest
      BY <2>1, <2>3 DEF WaitNotice
    <3> QED
      BY <3>6, <3>7 DEF Catching
  <2>4. CASE PrintNotice
    <3>1. busy = 0 /\ busy' = ByteTime
      BY <2>4 DEF PrintNotice, SerOut
    <3>2. rs232in_cnt' = (last_serial_tag' + u) % Tags
      BY <2>1, <2>2 DEF Late
    <3>3. u * ByteTime \in Nat
      BY <1>1, Ticks
    <3>4. CASE n = 1
      <4>1. Head(text) = ">"
        BY <2>1, <3>4 DEF NoticeFrom
      <4>2. pc' = "return"
        BY <2>4, <4>1 DEF PrintNotice
      <4>3. u * ByteTime + since + (busy + 2) <= 4 * ByteTime + 3
        BY <1>4, <2>1, <3>4 DEF Late
      <4>4. u * ByteTime + since' + 1 <= 4 * ByteTime + 3
        <5>1. 4 * ByteTime + 3 \in Int /\ since \in Nat /\ busy + 2 = 2
          BY <1>1, <3>1
        <5>2. since' + 1 <= since + 2
          BY <2>2, <5>1, OneLess
        <5> QED
          BY <2>2, <3>3, <4>3, <5>1, <5>2, Bounded
      <4>5. Late(u, 1)'
        BY <3>2, <4>4 DEF Late
      <4> QED
        BY <4>2, <4>5 DEF Catching
    <3>5. CASE n \in 2 .. 3
      <4>1. Head(text) # ">" /\ Tail(text) = NoticeFrom(n - 1) \o rest
        BY <2>1, <3>5 DEF NoticeFrom, Notice
      <4>2. pc' = "overrun" /\ text' = NoticeFrom(n - 1) \o rest
        BY <2>4, <4>1 DEF PrintNotice
      <4>3. NoticeTime(n - 1)' + 1 = NoticeTime(n) /\ NoticeTime(n) \in Int
        BY <1>1, <3>1, <3>5 DEF NoticeTime
      <4> DEFINE t == NoticeTime(n)
      <4> DEFINE t2 == NoticeTime(n - 1)'
      <4>4. u * ByteTime + since + t <= 4 * ByteTime + 3 /\ t \in Int /\ t2 = t - 1
        <5>1. NoticeTime(n - 1)' \in Int
          BY <1>1, <3>1, <3>5 DEF NoticeTime
        <5> QED
          BY <2>1, <4>3, <5>1 DEF Late
      <4> HIDE DEF t, t2
      <4>5. u * ByteTime + since' + t2 <= 4 * ByteTime + 3
        <5>1. t2 \in Int /\ 4 * ByteTime + 3 \in Int /\ since \in Nat
          BY <1>1, <4>4
        <5>2. since' + t2 <= since + t
          BY <2>2, <4>4, <5>1, OneLess
        <5> QED
          BY <2>2, <3>3, <4>4, <5>1, <5>2, Bounded
      <4>6. Late(u, NoticeTime(n - 1))'
        BY <3>2, <4>5 DEF Late, t2
      <4>7. n - 1 \in 1 .. 3
        BY <3>5
      <4> QED
        BY <4>2, <4>6, <4>7 DEF Catching
    <3> QED
      BY <3>4, <3>5
  <2> QED
    BY <1>8, <2>3, <2>4
<1>9. CASE behind /\ pc \notin {"data", "overrun"}
           /\ (CheckAgain \/ KeepWaiting \/ TakeByte \/ (\E chars, n : Call(chars, n)) \/ WaitToPrint \/ PrintChar)
  <2>1. PICK u \in 0 .. 5 : Late(u, IF pc = "return" THEN 1 ELSE 0)
    BY <1>9 DEF StreamInv, Catching
  <2>2. pc' \in {"run", "tag"} /\ UNCHANGED <<rs232in_cnt, last_serial_tag>>
    BY <1>9 DEF CheckAgain, KeepWaiting, TakeByte, Call, WaitToPrint, PrintChar
  <2>3. since' \in Nat /\ since' + 0 <= since + (IF pc = "return" THEN 1 ELSE 0)
    BY <1>1, <1>2, <1>9 DEF CheckAgain, KeepWaiting, TakeByte, Call, WaitToPrint, PrintChar
  <2>4. Late(u, 0)'
    BY <1>3, <2>1, <2>2, <2>3 DEF Late
  <2> QED
    BY <2>2, <2>4 DEF Catching
<1>10. CASE Restart
  BY <1>10 DEF Restart
<1>11. ASSUME NEW b \in Byte, Arrive(b) PROVE Catching'
  <2>1. behind /\ Catching /\ since = ByteTime /\ since' = 0 /\ rs232in_cnt' = (rs232in_cnt + 1) % Tags
        /\ UNCHANGED <<pc, text, tag, busy, last_serial_tag>>
    BY <1>11 DEF Arrive, StreamInv
  <2>2. ASSUME NEW u \in 0 .. 5, NEW time \in Nat, Late(u, time)
        PROVE  u + 1 \in 0 .. 5 /\ Late(u + 1, time)'
    <3>1. u # 5
      BY <1>1, <2>1, <2>2, Ticks DEF Late
    <3>2. rs232in_cnt' = (last_serial_tag' + (u + 1)) % Tags
      BY <1>1, <2>1, <2>2, LaterTag DEF Late
    <3>3. (u + 1) * ByteTime = u * ByteTime + ByteTime /\ u * ByteTime \in Nat
      BY <1>1, Ticks
    <3>4. (u + 1) * ByteTime + since' + time <= 4 * ByteTime + 3
      BY <1>1, <2>1, <2>2, <3>3 DEF Late
    <3> QED
      BY <3>1, <3>2, <3>4 DEF Late
  <2>3. CASE pc = "data"
    BY <1>1, <2>1, <2>3 DEF Catching
  <2>4. CASE pc = "overrun"
    <3>1. PICK n \in 1 .. 3, u \in 0 .. 5, rest \in Seq(Byte) :
            text = NoticeFrom(n) \o rest /\ Late(u, NoticeTime(n))
      BY <2>1, <2>4 DEF Catching
    <3>2. NoticeTime(n) \in Nat
      BY <1>1 DEF NoticeTime
    <3>3. u + 1 \in 0 .. 5 /\ Late(u + 1, NoticeTime(n))'
      <4> DEFINE t == NoticeTime(n)
      <4>1. NoticeTime(n)' = t
        BY <2>1 DEF NoticeTime
      <4> QED
        BY <2>2, <3>1, <3>2, <4>1 DEF Late
    <3> QED
      BY <2>1, <2>4, <3>1, <3>3 DEF Catching
  <2>5. CASE pc \notin {"data", "overrun"}
    <3>1. PICK u \in 0 .. 5 : Late(u, IF pc = "return" THEN 1 ELSE 0)
      BY <2>1, <2>5 DEF Catching
    <3>2. u + 1 \in 0 .. 5 /\ Late(u + 1, IF pc = "return" THEN 1 ELSE 0)'
      BY <2>1, <2>2, <3>1 DEF Late
    <3> QED
      BY <2>1, <2>5, <3>2 DEF Catching
  <2> QED
    BY <2>3, <2>4, <2>5
<1>12. CheckAgain \/ KeepWaiting \/ TakeByte \/ (\E chars, n : Call(chars, n)) \/ WaitToPrint \/ PrintChar
         => behind /\ pc \notin {"data", "overrun"}
  BY DEF CheckAgain, KeepWaiting, TakeByte, Call, WaitToPrint, PrintChar
<1>13. WaitNotice \/ PrintNotice => pc = "overrun"
  BY DEF WaitNotice, PrintNotice
<1> QED
  BY <1>5, <1>6, <1>7, <1>8, <1>9, <1>10, <1>11, <1>12, <1>13
  DEF Next, Processor, Poll, Input, Output, CallIn, CallOut

LEMMA InvStep ==
  ASSUME StreamAssumption, StreamInv, [Next]_vars
  PROVE  StreamInv'
<1>1. TypeOK'
  BY TypeStep DEF StreamAssumption, StreamInv
<1>2. CASE behind'
  BY <1>1, <1>2, TextStep, CatchingStep DEF StreamInv
<1>3. CASE ~behind' /\ ~behind
  BY <1>1, <1>3, TextStep, OnTimeStep DEF StreamInv
<1>4. CASE ~behind' /\ behind
  <2>1. OnTime'
    <3>1. ReadTag \/ ReadData \/ Restart
      BY <1>4 DEF Next, Processor, Poll, Input, Output, CallIn, CallOut, Call, WaitNotice, PrintNotice,
        CheckAgain, KeepWaiting, TakeByte, WaitToPrint, PrintChar, Arrive, vars
    <3>2. CASE ReadTag
      BY <1>4, <3>2 DEF ReadTag, OnTime, Current
    <3>3. CASE ReadData
      BY <1>4, <3>3 DEF ReadData, OnTime, Current
    <3>4. CASE Restart
      BY <3>4 DEF Restart, OnTime, Current
    <3> QED
      BY <3>1, <3>2, <3>3, <3>4
  <2> QED
    BY <1>1, <1>4, <2>1, TextStep DEF StreamInv
<1> QED
  BY <1>1, <1>2, <1>3, <1>4 DEF TypeOK

----------------------------------------------------------------------------
(* The bytes in the ring.                                                  *)

At(i) == IF rp + i - 1 < BufSize THEN rp + i - 1 ELSE rp + i - 1 - BufSize

Count == IF wp >= rp THEN wp - rp ELSE wp - rp + BufSize

LEMMA IndexAt ==
  ASSUME NEW m \in Nat \ {0}, NEW s \in 0 .. m - 1, NEW i \in 1 .. m
  PROVE  (s + i - 1) % m = IF s + i - 1 < m THEN s + i - 1 ELSE s + i - 1 - m
<1> DEFINE n == s + i - 1
<1>1. n \in 0 .. 2 * m - 1
  OBVIOUS
<1> HIDE DEF n
<1>2. n % m = IF n < m THEN n ELSE n - m
  BY <1>1, ModCases
<1> QED
  BY <1>2 DEF n

LEMMA HeldSeq ==
  ASSUME SerialAssumption, TypeOK
  PROVE  /\ Held \in Seq(Byte)
         /\ Len(Held) = Count
         /\ Count \in 0 .. BufSize - 1
         /\ \A i \in 1 .. Count : At(i) \in Slot /\ Held[i] = serial_buffer[At(i)]
<1>1. /\ BufSize \in Nat \ {0} /\ wp \in 0 .. BufSize - 1 /\ rp \in 0 .. BufSize - 1
      /\ serial_buffer \in [Slot -> Byte]
  BY DEF SerialAssumption, TypeOK, Slot
<1>2. Count \in 0 .. BufSize - 1
  BY <1>1 DEF Count
<1>3. (wp - rp + BufSize) % BufSize = Count
  BY <1>1, Distance DEF Count
<1>4. ASSUME NEW i \in 1 .. Count
      PROVE  (rp + i - 1) % BufSize = At(i) /\ At(i) \in Slot
  <2>1. rp + i - 1 \in 0 .. 2 * BufSize - 1
    BY <1>1, <1>2, <1>4
  <2>2. (rp + i - 1) % BufSize = At(i)
    BY <1>1, <1>2, <1>4, IndexAt DEF At
  <2>3. At(i) \in Slot
    BY <1>1, <2>1 DEF At, Slot
  <2> QED
    BY <2>2, <2>3
<1>5. Held = [i \in 1 .. Count |-> serial_buffer[(rp + i - 1) % BufSize]]
  BY <1>3 DEF Held
<1>6. \A i \in 1 .. Count : Held[i] = serial_buffer[At(i)] /\ Held[i] \in Byte
  BY <1>1, <1>4, <1>5
<1>7. Held \in [1 .. Count -> Byte]
  BY <1>5, <1>6
<1>8. Held \in Seq(Byte) /\ Len(Held) = Count
  BY <1>2, <1>7
<1> QED
  BY <1>2, <1>4, <1>6, <1>8

LEMMA PendingSeq ==
  ASSUME TypeOK
  PROVE  /\ Pending \in {<<>>, <<rs232in_data>>, <<rs232in_data, rs232in_data>>}
         /\ Pending \in Seq(Byte)
         /\ rs232in_data \in Byte
<1>1. rs232in_data \in Byte
  BY DEF TypeOK
<1>2. /\ <<>> \in Seq(Byte)
      /\ <<rs232in_data>> \in Seq(Byte)
      /\ <<rs232in_data, rs232in_data>> \in Seq(Byte)
  BY <1>1
<1> QED
  BY <1>1, <1>2 DEF Pending

\* check_serial_input puts the byte behind those that wait.
LEMMA HeldPush ==
  ASSUME SerialAssumption, TypeOK, TypeOK', Inc(wp) # rp, wp' = Inc(wp), rp' = rp,
         serial_buffer' = [serial_buffer EXCEPT ![wp] = rs232in_data]
  PROVE  Held' = Append(Held, rs232in_data)
<1>1. /\ BufSize \in Nat /\ BufSize > 1 /\ wp \in 0 .. BufSize - 1 /\ rp \in 0 .. BufSize - 1
      /\ serial_buffer \in [Slot -> Byte] /\ rs232in_data \in Byte /\ wp \in Slot
  BY DEF SerialAssumption, TypeOK, Slot
<1>2. wp' = IF wp = BufSize - 1 THEN 0 ELSE wp + 1
  BY <1>1, IncFacts
<1>3. Count' = Count + 1
  BY <1>1, <1>2 DEF Count
<1>4. /\ Held \in Seq(Byte) /\ Len(Held) = Count /\ Count \in 0 .. BufSize - 1
      /\ \A i \in 1 .. Count : At(i) \in Slot /\ Held[i] = serial_buffer[At(i)]
  BY HeldSeq
<1>5. /\ Held' \in Seq(Byte) /\ Len(Held') = Count'
      /\ \A i \in 1 .. Count' : At(i)' \in Slot /\ Held'[i] = serial_buffer'[At(i)']
  <2>1. (SerialAssumption /\ TypeOK =>
           /\ Held \in Seq(Byte) /\ Len(Held) = Count
           /\ \A i \in 1 .. Count : At(i) \in Slot /\ Held[i] = serial_buffer[At(i)])'
    BY HeldSeq, PTL
  <2> QED
    BY <2>1
<1>6. \A i : At(i)' = At(i)
  BY DEF At
<1>7. \A i \in 1 .. Count : At(i) # wp
  BY <1>1 DEF At, Count
<1>8. At(Count + 1) = wp
  BY <1>1, <1>2 DEF At, Count
<1>9. \A i \in 1 .. Count : Held'[i] = Held[i]
  BY <1>1, <1>3, <1>4, <1>5, <1>6, <1>7
<1>10. Held'[Count + 1] = rs232in_data
  BY <1>1, <1>3, <1>4, <1>5, <1>6, <1>8
<1>11. /\ Append(Held, rs232in_data) \in Seq(Byte)
       /\ Len(Append(Held, rs232in_data)) = Count + 1
       /\ \A i \in 1 .. Count : Append(Held, rs232in_data)[i] = Held[i]
       /\ Append(Held, rs232in_data)[Count + 1] = rs232in_data
  BY <1>1, <1>4, AppendProperties
<1>12. \A i \in 1 .. Len(Held') : Held'[i] = Append(Held, rs232in_data)[i]
  BY <1>3, <1>4, <1>5, <1>9, <1>10, <1>11
<1>13. Len(Held') = Len(Append(Held, rs232in_data))
  BY <1>3, <1>5, <1>11
<1> QED
  BY <1>5, <1>11, <1>12, <1>13, SeqEqual

LEMMA HeldPop ==
  ASSUME SerialAssumption, TypeOK, TypeOK', wp # rp, rp' = Inc(rp), UNCHANGED <<wp, serial_buffer>>
  PROVE  Held # <<>> /\ Head(Held) = serial_buffer[rp] /\ Held' = Tail(Held)
<1>1. /\ BufSize \in Nat /\ BufSize > 1 /\ wp \in 0 .. BufSize - 1 /\ rp \in 0 .. BufSize - 1 /\ rp \in Slot
  BY DEF SerialAssumption, TypeOK, Slot
<1>2. rp' = IF rp = BufSize - 1 THEN 0 ELSE rp + 1
  BY <1>1, IncFacts
<1>3. Count' = Count - 1 /\ Count > 0
  BY <1>1, <1>2 DEF Count
<1>4. /\ Held \in Seq(Byte) /\ Len(Held) = Count /\ Count \in 0 .. BufSize - 1
      /\ \A i \in 1 .. Count : At(i) \in Slot /\ Held[i] = serial_buffer[At(i)]
  BY HeldSeq
<1>5. /\ Held' \in Seq(Byte) /\ Len(Held') = Count'
      /\ \A i \in 1 .. Count' : Held'[i] = serial_buffer[At(i)']
  <2>1. (SerialAssumption /\ TypeOK =>
           /\ Held \in Seq(Byte) /\ Len(Held) = Count
           /\ \A i \in 1 .. Count : At(i) \in Slot /\ Held[i] = serial_buffer[At(i)])'
    BY HeldSeq, PTL
  <2> QED
    BY <2>1
<1>6. \A i \in 1 .. Count - 1 : At(i)' = At(i + 1)
  BY <1>1, <1>2, <1>4 DEF At
<1>7. At(1) = rp
  BY <1>1 DEF At
<1>8. Held # <<>> /\ Head(Held) = serial_buffer[rp]
  BY <1>3, <1>4, <1>7
<1>9. Tail(Held) \in Seq(Byte) /\ Len(Tail(Held)) = Count - 1 /\ \A i \in 1 .. Count - 1 : Tail(Held)[i] = Held[i + 1]
  BY <1>4, <1>8, HeadTailProperties
<1>10. \A i \in 1 .. Len(Held') : Held'[i] = Tail(Held)[i]
  BY <1>3, <1>4, <1>5, <1>6, <1>9
<1>11. Held' = Tail(Held)
  BY <1>3, <1>5, <1>9, <1>10, SeqEqual
<1> QED
  BY <1>8, <1>11

LEMMA HeldEmpty ==
  ASSUME SerialAssumption, TypeOK, wp = rp
  PROVE  Held = <<>>
<1>1. Count = 0
  BY DEF Count, TypeOK, Slot, SerialAssumption
<1> QED
  BY <1>1, HeldSeq, EmptySeq

LEMMA HeldEmptied ==
  ASSUME SerialAssumption, TypeOK', wp' = rp'
  PROVE  Held' = <<>>
<1>1. (SerialAssumption /\ TypeOK => Held \in Seq(Byte) /\ Len(Held) = Count)'
  BY HeldSeq, PTL
<1>2. wp' \in Int /\ rp' \in Int
  BY DEF TypeOK, Slot, SerialAssumption
<1>3. wp' >= rp' /\ wp' - rp' = 0
  <2>1. \A m, n \in Int : m = n => m >= n /\ m - n = 0
    OBVIOUS
  <2> QED
    BY <1>2, <2>1, Zenon
<1>4. Count' = 0
  BY <1>3 DEF Count
<1> QED
  BY <1>1, <1>4, EmptySeq

LEMMA HeldFull ==
  ASSUME SerialAssumption, TypeOK, Inc(wp) = rp
  PROVE  Len(Held) = BufSize - 1
<1>1. /\ BufSize \in Nat /\ BufSize > 1 /\ wp \in 0 .. BufSize - 1 /\ rp \in 0 .. BufSize - 1 /\ wp \in Slot
  BY DEF SerialAssumption, TypeOK, Slot
<1>2. rp = IF wp = BufSize - 1 THEN 0 ELSE wp + 1
  BY <1>1, IncFacts
<1>3. Count = BufSize - 1
  BY <1>1, <1>2 DEF Count
<1> QED
  BY <1>3, HeldSeq

----------------------------------------------------------------------------
(* Each step of the port and the routines is one of the stream.            *)

LEMMA HeadTailConcat ==
  ASSUME NEW S, NEW s \in Seq(S), NEW t \in Seq(S), s # <<>>
  PROVE  s \o t # <<>> /\ Head(s \o t) = Head(s) /\ Tail(s \o t) = Tail(s) \o t
<1>1. s \o t \in Seq(S) /\ Len(s \o t) = Len(s) + Len(t)
      /\ \A i \in 1 .. Len(s) + Len(t) : (s \o t)[i] = IF i <= Len(s) THEN s[i] ELSE t[i - Len(s)]
  BY ConcatProperties
<1>2. Len(s) \in Nat \ {0} /\ Len(t) \in Nat
  BY EmptySeq, LenProperties
<1>3. s \o t # <<>>
  BY <1>1, <1>2, EmptySeq
<1>4. Head(s \o t) = Head(s)
  BY <1>1, <1>2, <1>3
<1>5. /\ Tail(s) \in Seq(S) /\ Len(Tail(s)) = Len(s) - 1
      /\ \A i \in 1 .. Len(s) - 1 : Tail(s)[i] = s[i + 1]
  BY HeadTailProperties
<1>6. /\ Tail(s \o t) \in Seq(S) /\ Len(Tail(s \o t)) = Len(s) + Len(t) - 1
      /\ \A i \in 1 .. Len(s) + Len(t) - 1 : Tail(s \o t)[i] = (s \o t)[i + 1]
  BY <1>1, <1>3, HeadTailProperties
<1>7. /\ Tail(s) \o t \in Seq(S) /\ Len(Tail(s) \o t) = Len(s) - 1 + Len(t)
      /\ \A i \in 1 .. Len(s) - 1 + Len(t) :
           (Tail(s) \o t)[i] = IF i <= Len(s) - 1 THEN Tail(s)[i] ELSE t[i - (Len(s) - 1)]
  BY <1>5, ConcatProperties
<1>8. \A i \in 1 .. Len(s) + Len(t) - 1 : Tail(s \o t)[i] = (Tail(s) \o t)[i]
  <2> SUFFICES ASSUME NEW i \in 1 .. Len(s) + Len(t) - 1 PROVE Tail(s \o t)[i] = (Tail(s) \o t)[i]
    OBVIOUS
  <2>1. Tail(s \o t)[i] = IF i + 1 <= Len(s) THEN s[i + 1] ELSE t[i + 1 - Len(s)]
    BY <1>1, <1>2, <1>6
  <2>2. (Tail(s) \o t)[i] = IF i <= Len(s) - 1 THEN s[i + 1] ELSE t[i - (Len(s) - 1)]
    BY <1>2, <1>5, <1>7
  <2> QED
    BY <1>2, <2>1, <2>2
<1>9. Tail(s \o t) = Tail(s) \o t
  BY <1>2, <1>6, <1>7, <1>8, SeqEqual
<1> QED
  BY <1>3, <1>4, <1>9

LEMMA Twice ==
  ASSUME NEW S, NEW s \in Seq(S), NEW x \in S
  PROVE  /\ Append(s, x) = s \o <<x>>
         /\ Append(s, x) \o <<>> = s \o <<x>>
         /\ Append(s, x) \o <<x>> = s \o <<x, x>>
         /\ SubSeq(s \o <<x>>, 1, Len(s)) = s
         /\ Len(s \o <<x>>) = Len(s) + 1
         /\ Len(s \o <<x, x>>) = Len(s) + 2
         /\ SubSeq(s \o <<x>>, Len(s) + 2, Len(s) + 1) = <<>>
         /\ SubSeq(s \o <<x, x>>, Len(s) + 2, Len(s) + 2) = <<x>>
<1>1. <<x>> \in Seq(S) /\ <<x, x>> \in Seq(S) /\ <<x>> \o <<x>> = <<x, x>> /\ Len(<<x>>) = 1 /\ Len(<<x, x>>) = 2
  <2>1. /\ <<x>> \in Seq(S) /\ Len(<<x>>) = 1 /\ <<x>>[1] = x
        /\ <<x, x>> \in Seq(S) /\ Len(<<x, x>>) = 2 /\ <<x, x>>[1] = x /\ <<x, x>>[2] = x
    OBVIOUS
  <2> DEFINE one == <<x>>
  <2> DEFINE two == <<x, x>>
  <2> HIDE DEF one, two
  <2>2. one \in Seq(S) /\ Len(one) = 1 /\ one[1] = x /\ two \in Seq(S) /\ Len(two) = 2 /\ two[1] = x /\ two[2] = x
    BY <2>1 DEF one, two
  <2>3. /\ one \o one \in Seq(S) /\ Len(one \o one) = 2
        /\ \A i \in 1 .. 2 : (one \o one)[i] = IF i <= 1 THEN one[i] ELSE one[i - 1]
    <3>1. /\ one \o one \in Seq(S) /\ Len(one \o one) = Len(one) + Len(one)
          /\ \A i \in 1 .. Len(one) + Len(one) :
               (one \o one)[i] = IF i <= Len(one) THEN one[i] ELSE one[i - Len(one)]
      BY <2>2, ConcatProperties, Zenon
    <3>2. Len(one) + Len(one) = 2
      BY <2>2
    <3> QED
      BY <2>2, <3>1, <3>2
  <2>4. \A i \in 1 .. 2 : (one \o one)[i] = two[i]
    BY <2>2, <2>3
  <2>5. one \o one = two
    BY <2>2, <2>3, <2>4, SeqEqual
  <2> QED
    BY <2>1, <2>5 DEF one, two
<1>2. Append(s, x) = s \o <<x>> /\ Append(s, x) \in Seq(S)
  BY AppendIsConcat, AppendProperties
<1>3. Append(s, x) \o <<>> = s \o <<x>>
  BY <1>2, ConcatEmptySeq
<1>4. Append(s, x) \o <<x>> = s \o <<x, x>>
  BY <1>1, <1>2, ConcatAssociative
<1>5. Len(s) \in Nat /\ Len(s \o <<x>>) = Len(s) + 1 /\ Len(s \o <<x, x>>) = Len(s) + 2
  BY <1>1, LenProperties, ConcatProperties
<1>6. SubSeq(s \o <<x>>, 1, Len(s)) = s
  <2>1. CASE s = <<>>
    BY <1>1, <1>5, <2>1, EmptySeq, SubSeqEmpty
  <2>2. CASE s # <<>>
    <3>1. Len(s) \in 1 .. Len(s) /\ 1 \in 1 .. Len(s)
      BY <2>2, EmptySeq
    <3>2. SubSeq(s \o <<x>>, 1, Len(s)) = SubSeq(s, 1, Len(s))
      BY <1>1, <3>1, SubSeqOfConcat1
    <3> QED
      BY <3>2, SubSeqFull
  <2> QED
    BY <2>1, <2>2
<1>7. SubSeq(s \o <<x>>, Len(s) + 2, Len(s) + 1) = <<>>
  BY <1>5, SubSeqEmpty
<1>8. SubSeq(s \o <<x, x>>, Len(s) + 2, Len(s) + 2) = <<x>>
  <2>1. Len(s) + 2 \in Len(s) + 1 .. Len(s) + Len(<<x, x>>)
    BY <1>1, <1>5
  <2>2. SubSeq(s \o <<x, x>>, Len(s) + 2, Len(s) + 2)
          = SubSeq(<<x, x>>, Len(s) + 2 - Len(s), Len(s) + 2 - Len(s))
    BY <1>1, <2>1, SubSeqOfConcat2
  <2>3. Len(s) + 2 - Len(s) = 2
    BY <1>5
  <2>4. SubSeq(<<x, x>>, 2, 2) = <<x>>
    <3>1. <<x, x>>[2] = x /\ <<x>>[1] = x
      OBVIOUS
    <3>2. /\ SubSeq(<<x, x>>, 2, 2) \in Seq(S) /\ Len(SubSeq(<<x, x>>, 2, 2)) = 1
          /\ SubSeq(<<x, x>>, 2, 2)[1] = <<x, x>>[2]
      <4> DEFINE two == <<x, x>>
      <4> HIDE DEF two
      <4>1. two[2] \in S
        BY <3>1 DEF two
      <4>2. \A i \in 2 .. 2 : two[i] \in S
        BY <4>1
      <4>3. /\ SubSeq(two, 2, 2) \in Seq(S) /\ Len(SubSeq(two, 2, 2)) = 1
            /\ \A i \in 1 .. 1 : SubSeq(two, 2, 2)[i] = two[2 + i - 1]
        BY <4>2, SubSeqProperties
      <4> QED
        BY <4>3 DEF two
    <3> QED
      <4> DEFINE one == <<x>>
      <4> DEFINE sub == SubSeq(<<x, x>>, 2, 2)
      <4> HIDE DEF one, sub
      <4>1. /\ one \in Seq(S) /\ Len(one) = 1 /\ one[1] = x
            /\ sub \in Seq(S) /\ Len(sub) = 1 /\ sub[1] = x
        BY <1>1, <3>1, <3>2 DEF one, sub
      <4>2. sub = one
        BY <4>1, SeqEqual
      <4> QED
        BY <4>2 DEF one, sub
  <2> QED
    BY <2>2, <2>3, <2>4
<1> QED
  BY <1>2, <1>3, <1>4, <1>5, <1>6, <1>7, <1>8

LEMMA NotSixth ==
  ASSUME StreamAssumption, TypeOK, NEW u \in 0 .. 5, NEW time \in Nat, Late(u, time), since = ByteTime
  PROVE  (rs232in_cnt + 1) % Tags # last_serial_tag
<1>1. /\ ByteTime \in Nat /\ ByteTime >= 3 /\ Tags \in Nat \ {0} /\ Tags >= 6
      /\ rs232in_cnt \in 0 .. Tags - 1 /\ last_serial_tag \in 0 .. Tags - 1
  BY DEF StreamAssumption, SerialAssumption, TypeOK
<1>2. u # 5
  BY <1>1, Ticks DEF Late
<1>3. (rs232in_cnt + 1) % Tags = (last_serial_tag + (u + 1)) % Tags
  BY <1>1, LaterTag DEF Late
<1>4. ASSUME NEW n \in 0 .. Tags - 1, NEW k \in 1 .. 5 PROVE (n + k) % Tags # n
  BY <1>1, <1>4
<1> QED
  BY <1>1, <1>2, <1>3, <1>4

LEMMA StreamStep ==
  ASSUME StreamAssumption, StreamInv, [Next]_vars
  PROVE  [Stream!Next]_(Stream!stream)
<1> DEFINE W == Held \o Pending
<1> DEFINE b0 == rs232in_data
<1>1. /\ SerialAssumption /\ TypeOK /\ TypeOK'
      /\ ByteTime \in Nat /\ ByteTime >= 3 /\ BufSize \in Nat /\ BufSize > 1
  BY TypeStep DEF StreamAssumption, SerialAssumption, StreamInv
<1>2. /\ Held \in Seq(Byte) /\ Pending \in Seq(Byte) /\ rs232in_data \in Byte
      /\ Len(Held) \in Nat
  BY <1>1, HeldSeq, PendingSeq, LenProperties
<1>3. UNCHANGED <<wp, rp, serial_buffer>> => Held' = Held
  BY DEF Held
<1>4. Held \o <<>> = Held /\ <<>> \o <<>> = <<>> /\ \A s \in Seq(Byte) : <<>> \o s = s
  BY <1>2, ConcatEmptySeq, EmptySeq
<1>5. ASSUME Held' = Held, Pending' = Pending, ch' = ch, behind' = behind
      PROVE  [Stream!Next]_(Stream!stream)
  BY <1>5 DEF Stream!stream
<1>6. CASE UNCHANGED vars
  BY <1>3, <1>5, <1>6 DEF vars, Pending
<1>7. CASE ReadTag
  <2>1. Held' = Held /\ Pending' = Pending /\ ch' = ch
    BY <1>3, <1>7 DEF ReadTag, Pending
  <2>2. behind' = behind \/ (behind /\ behind' = FALSE)
    BY <1>1, <1>7 DEF ReadTag, TypeOK
  <2> QED
    BY <1>5, <2>1, <2>2 DEF Stream!Next, Stream!CatchUp
<1>8. CASE WaitNotice \/ PrintNotice
  <2>1. pc = "overrun" /\ pc' \in {"overrun", "return"}
        /\ UNCHANGED <<rs232in_cnt, rs232in_data, last_serial_tag, wp, rp, serial_buffer, ch, behind>>
    BY <1>8 DEF WaitNotice, PrintNotice
  <2> QED
    BY <1>3, <1>5, <2>1 DEF Pending
<1>9. CASE CheckAgain \/ KeepWaiting \/ (\E chars, n : Call(chars, n)) \/ WaitToPrint \/ PrintChar
  <2>1. pc \in {"return", "run"} /\ pc' \in {"tag", "run"}
        /\ UNCHANGED <<rs232in_cnt, rs232in_data, last_serial_tag, wp, rp, serial_buffer, ch, behind>>
    BY <1>9 DEF CheckAgain, KeepWaiting, Call, WaitToPrint, PrintChar
  <2> QED
    BY <1>3, <1>5, <2>1 DEF Pending
<1>10. CASE TakeByte
  <2>1. Pending' = Pending /\ ch' = serial_buffer[rp] /\ behind' = behind
    BY <1>10 DEF TakeByte, Pending
  <2>2. Held # <<>> /\ Head(Held) = serial_buffer[rp] /\ Held' = Tail(Held)
    BY <1>1, <1>10, HeldPop DEF TakeByte
  <2>3. W # <<>> /\ Head(W) = ch' /\ Tail(W) = Held' \o Pending'
    BY <1>2, <2>1, <2>2, HeadTailConcat
  <2> QED
    BY <2>1, <2>3 DEF Stream!Next, Stream!Take
<1>11. CASE Restart
  <2>1. wp' = rp' /\ pc' = "run" /\ rs232in_cnt' = last_serial_tag' /\ ch' = ch /\ behind' = FALSE
    BY <1>11 DEF Restart
  <2>2. Held' = <<>>
    BY <1>1, <2>1, HeldEmptied
  <2>3. Pending' = <<>>
    BY <2>1 DEF Pending
  <2> QED
    BY <1>4, <2>1, <2>2, <2>3 DEF Stream!Next, Stream!Restart
<1>12. CASE ReadData
  <2>1. /\ pc = "data" /\ wp' = Inc(wp) /\ rp' = rp /\ last_serial_tag' = tag
        /\ UNCHANGED <<rs232in_cnt, rs232in_data, tag, ch>>
        /\ serial_buffer' = [serial_buffer EXCEPT ![wp] = rs232in_data]
    BY <1>12 DEF ReadData
  <2>2. Pending = IF tag = rs232in_cnt THEN <<b0>> ELSE <<b0, b0>>
    BY <2>1 DEF Pending
  <2>3. pc' # "data"
    BY <1>12 DEF ReadData
  <2>4. Pending' = IF tag = rs232in_cnt THEN <<>> ELSE <<b0>>
    BY <2>1, <2>3 DEF Pending
  <2>5. tag # rs232in_cnt => behind
    BY <2>1 DEF StreamInv, OnTime
  <2>6. CASE wp' # rp
    <3>1. Held' = Append(Held, b0)
      BY <1>1, <2>1, <2>6, HeldPush
    <3>2. Held' \o Pending' = W
      BY <1>2, <2>2, <2>4, <3>1, Twice
    <3>3. behind' = (behind /\ tag # rs232in_cnt)
      BY <1>12, <2>6 DEF ReadData
    <3>4. CASE behind' = behind
      BY <2>1, <3>2, <3>4 DEF Stream!stream
    <3>5. CASE behind' # behind
      <4>1. behind /\ behind' = FALSE
        BY <1>1, <3>3, <3>5 DEF TypeOK
      <4> QED
        BY <2>1, <3>2, <4>1 DEF Stream!Next, Stream!CatchUp
    <3> QED
      BY <3>4, <3>5
  <2>7. CASE wp' = rp
    <3>1. behind' = TRUE
      BY <1>12, <2>7 DEF ReadData
    <3>2. Len(Held) = BufSize - 1
      BY <1>1, <2>1, <2>7, HeldFull
    <3>3. Held' = <<>>
      BY <1>1, <2>1, <2>7, HeldEmptied
    <3>4. Held' \o Pending' = Pending'
      BY <1>2, <1>4, <2>4, <3>3, EmptySeq
    <3>5. Len(W) > BufSize - 1 /\ SubSeq(W, BufSize - 1 + 2, Len(W)) = Pending'
      <4>1. Len(Held) + 2 = BufSize - 1 + 2
        BY <3>2
      <4>2. CASE tag = rs232in_cnt
        <5>1. W = Held \o <<b0>> /\ Pending' = <<>>
          BY <2>2, <2>4, <4>2
        <5>2. Len(W) = Len(Held) + 1
          BY <1>2, <5>1, Twice
        <5>3. SubSeq(W, Len(Held) + 2, Len(Held) + 1) = <<>>
          BY <1>2, <5>1, Twice
        <5>4. Len(W) > BufSize - 1
          BY <1>1, <3>2, <5>2
        <5> QED
          BY <4>1, <5>1, <5>2, <5>3, <5>4
      <4>3. CASE tag # rs232in_cnt
        <5>1. W = Held \o <<b0, b0>> /\ Pending' = <<b0>>
          BY <2>2, <2>4, <4>3
        <5>2. Len(W) = Len(Held) + 2
          BY <1>2, <5>1, Twice
        <5>3. SubSeq(W, Len(Held) + 2, Len(Held) + 2) = <<b0>>
          <6>1. SubSeq(Held \o <<b0, b0>>, Len(Held) + 2, Len(Held) + 2) = <<b0>>
            BY <1>2, Twice
          <6> QED
            BY <5>1, <6>1
        <5>4. Len(W) > BufSize - 1
          BY <1>1, <3>2, <5>2
        <5> QED
          BY <4>1, <5>1, <5>2, <5>3, <5>4
      <4> QED
        BY <4>2, <4>3
    <3> QED
      BY <2>1, <3>1, <3>4, <3>5 DEF Stream!Next, Stream!Overrun
  <2> QED
    BY <2>6, <2>7
<1>13. ASSUME NEW b \in Byte, Arrive(b) PROVE Stream!Next
  <2>1. /\ since = ByteTime /\ rs232in_data' = b /\ rs232in_cnt' = (rs232in_cnt + 1) % Tags
        /\ UNCHANGED <<wp, rp, serial_buffer, last_serial_tag, tag, pc, ch, behind>>
    BY <1>13 DEF Arrive
  <2>2. Held' = Held
    BY <1>3, <2>1
  <2>3. (rs232in_cnt + 1) % Tags # rs232in_cnt
    <3>1. ASSUME NEW n \in 0 .. Tags - 1 PROVE (n + 1) % Tags # n
      BY <3>1 DEF StreamAssumption, SerialAssumption
    <3> QED
      BY <1>1, <3>1 DEF TypeOK
  <2>4. [i \in 1 .. 1 |-> b] = <<b>> /\ [i \in 1 .. 2 |-> b] = <<b, b>>
    OBVIOUS
  <2>5. CASE ~behind
    <3>1. OnTime /\ Slack \in 0 .. 2
      BY <2>5 DEF StreamInv, Slack
    <3>2. Current
      BY <1>1, <2>1, <3>1 DEF OnTime
    <3>3. pc # "data"
      BY <3>1, <3>2 DEF OnTime
    <3>4. Pending = <<>> /\ Pending' = <<b>>
      BY <2>1, <2>3, <3>2, <3>3 DEF Pending, Current
    <3>5. Held' \o Pending' = Append(W, b)
      BY <1>2, <1>4, <2>2, <3>4, Twice
    <3> QED
      BY <2>1, <2>5, <3>5 DEF Stream!Next, Stream!Arrive
  <2>6. CASE behind
    <3>1. Catching
      BY <2>6 DEF StreamInv
    <3>2. CASE pc = "data"
      <4>1. tag = rs232in_cnt
        BY <1>1, <2>1, <3>1, <3>2 DEF Catching
      <4>2. Pending = <<b0>> /\ Pending' = <<b, b>>
        BY <2>1, <2>3, <3>2, <4>1 DEF Pending
      <4>3. SubSeq(W, 1, Len(W) - 1) = Held
        <5>1. Len(Held \o <<b0>>) = Len(Held) + 1 /\ SubSeq(Held \o <<b0>>, 1, Len(Held)) = Held
          BY <1>2, Twice
        <5>2. Len(W) - 1 = Len(Held)
          BY <1>2, <4>2, <5>1
        <5> QED
          BY <4>2, <5>1, <5>2
      <4>4. Held' \o Pending' = SubSeq(W, 1, Len(W) - 1) \o [i \in 1 .. 2 |-> b]
        BY <2>2, <2>4, <4>2, <4>3
      <4> QED
        BY <2>1, <2>6, <4>4 DEF Stream!Next, Stream!Slip
    <3>3. CASE pc # "data"
      <4>1. (rs232in_cnt + 1) % Tags # last_serial_tag
        <5>1. CASE pc = "overrun"
          <6>1. PICK n \in 1 .. 3, u \in 0 .. 5 : Late(u, NoticeTime(n))
            BY <3>1, <5>1 DEF Catching
          <6>2. NoticeTime(n) \in Nat
            BY <1>1 DEF NoticeTime, TypeOK
          <6> QED
            BY <1>1, <2>1, <6>1, <6>2, NotSixth
        <5>2. CASE pc # "overrun"
          <6>1. PICK u \in 0 .. 5 : Late(u, IF pc = "return" THEN 1 ELSE 0)
            BY <3>1, <3>3, <5>2 DEF Catching
          <6> QED
            BY <1>1, <2>1, <6>1, NotSixth
        <5> QED
          BY <5>1, <5>2
      <4>2. Pending' = <<b>>
        BY <2>1, <3>3, <4>1 DEF Pending
      <4>3. CASE Pending = <<>>
        <5>1. Held' \o Pending' = W \o [i \in 1 .. 1 |-> b]
          BY <1>4, <2>2, <2>4, <4>2, <4>3
        <5> QED
          BY <2>1, <2>6, <5>1 DEF Stream!Next, Stream!Slip
      <4>4. CASE Pending = <<b0>>
        <5>1. SubSeq(W, 1, Len(W) - 1) = Held
          <6>1. Len(Held \o <<b0>>) = Len(Held) + 1 /\ SubSeq(Held \o <<b0>>, 1, Len(Held)) = Held
            BY <1>2, Twice
          <6>2. Len(W) - 1 = Len(Held)
            BY <1>2, <4>4, <6>1
          <6> QED
            BY <4>4, <6>1, <6>2
        <5>2. Held' \o Pending' = SubSeq(W, 1, Len(W) - 1) \o [i \in 1 .. 1 |-> b]
          BY <2>2, <2>4, <4>2, <5>1
        <5> QED
          BY <2>1, <2>6, <5>2 DEF Stream!Next, Stream!Slip
      <4> QED
        BY <3>3, <4>3, <4>4 DEF Pending
    <3> QED
      BY <3>2, <3>3
  <2> QED
    BY <1>1, <2>5, <2>6 DEF TypeOK
<1> QED
  BY <1>6, <1>7, <1>8, <1>9, <1>10, <1>11, <1>12, <1>13
  DEF Next, Processor, Poll, Input, Output, CallIn, CallOut

(* The ring buffer, its polling and the receiver implement the byte        *)
(* stream, whatever is printed meanwhile and however often the buffer      *)
(* overruns.                                                               *)
THEOREM SerialRefines == ASSUME StreamAssumption PROVE Spec => StreamSpec
<1>1. Init => StreamInv
  <2> SUFFICES ASSUME Init PROVE StreamInv
    OBVIOUS
  <2>1. TypeOK
    BY TypeInit DEF StreamAssumption
  <2>2. pc = "run" /\ text = <<>> /\ ~behind /\ Current
    BY DEF Init, Current
  <2> QED
    BY <2>1, <2>2, EmptySeq DEF StreamInv, OnTime
<1>2. StreamInv /\ [Next]_vars => StreamInv'
  BY InvStep
<1>3. Init => Stream!Init
  <2> SUFFICES ASSUME Init PROVE Stream!Init
    OBVIOUS
  <2>1. SerialAssumption /\ TypeOK
    BY TypeInit DEF StreamAssumption
  <2>2. Held = <<>> /\ Pending = <<>>
    BY <2>1, HeldEmpty DEF Init, Pending
  <2>3. Held \o Pending = <<>>
    BY <2>2, ConcatEmptySeq, EmptySeq
  <2> QED
    BY <2>1, <2>3 DEF Init, Stream!Init, TypeOK
<1>4. StreamInv /\ [Next]_vars => [Stream!Next]_(Stream!stream)
  BY StreamStep
<1> QED
  BY <1>1, <1>2, <1>3, <1>4, PTL DEF Spec, StreamSpec, Stream!Spec

=============================================================================
