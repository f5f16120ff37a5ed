----------------------------- MODULE ByteStream -----------------------------
(***************************************************************************)
(* What serial_in promises the monitor: the bytes of the line, each once   *)
(* and in order, as long as no more than Cap of them are waiting.  When    *)
(* one more arrives all that were waiting are dropped together, and until  *)
(* the monitor has caught up with the line the newest byte may be lost or  *)
(* arrive twice.                                                           *)
(***************************************************************************)
EXTENDS Integers, Sequences

CONSTANTS
  Byte,
  Cap       \* BUF_SIZE - 1

VARIABLES
  waiting,  \* bytes that have arrived and have not been taken
  taken,    \* last byte that was taken
  behind    \* the monitor has yet to catch up with the line

stream == <<waiting, taken, behind>>

Init ==
  /\ waiting = <<>>
  /\ taken \in Byte
  /\ behind = FALSE

Arrive(b) ==
  /\ ~behind
  /\ waiting' = Append(waiting, b)
  /\ UNCHANGED <<taken, behind>>

Take ==
  /\ waiting # <<>>
  /\ taken' = Head(waiting)
  /\ waiting' = Tail(waiting)
  /\ UNCHANGED behind

Overrun ==
  /\ Len(waiting) > Cap
  /\ waiting' = SubSeq(waiting, Cap + 2, Len(waiting))
  /\ behind' = TRUE
  /\ UNCHANGED taken

\* While behind, the newest byte may be overwritten, or be read for it twice.
Slip(b) ==
  /\ behind
  /\ \E kept \in {waiting, SubSeq(waiting, 1, Len(waiting) - 1)}, n \in {1, 2} :
       waiting' = kept \o [i \in 1 .. n |-> b]
  /\ UNCHANGED <<taken, behind>>

CatchUp ==
  /\ behind
  /\ behind' = FALSE
  /\ UNCHANGED <<waiting, taken>>

\* init_serial: what has arrived so far is forgotten.
Restart ==
  /\ waiting' = <<>>
  /\ behind' = FALSE
  /\ UNCHANGED taken

Next ==
  \/ \E b \in Byte : Arrive(b) \/ Slip(b)
  \/ Take \/ Overrun \/ CatchUp \/ Restart

Spec == Init /\ [][Next]_stream

=============================================================================
