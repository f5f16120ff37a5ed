------------------------- MODULE InstructionMemory -------------------------
(***************************************************************************)
(* What a program that writes code may rely on.  A store changes the code  *)
(* at once, but a fetch may still see what was there before, until the     *)
(* line is synchronised (SYNCI): later fetches see what is there then, or  *)
(* what is stored later.                                                   *)
(***************************************************************************)
CONSTANTS Addr, Word, Lines, None

VARIABLES
  code,     \* the words in memory, as stores have left them
  visible,  \* the words a fetch may return
  fetched   \* the last address fetched and the word returned, or None

vars == <<code, visible, fetched>>

Init ==
  /\ code \in [Addr -> Word]
  /\ visible = [a \in Addr |-> {code[a]}]
  /\ fetched = None

Store(a, w) ==
  /\ code' = [code EXCEPT ![a] = w]
  /\ visible' = [visible EXCEPT ![a] = @ \cup {w}]

Synci(line) ==
  /\ visible' = [a \in Addr |-> IF a \in line THEN {code[a]} ELSE visible[a]]
  /\ UNCHANGED code

Fetch ==
  \/ fetched' = None
  \/ \E a \in Addr : \E w \in visible'[a] : fetched' = <<a, w>>

Next ==
  /\ \/ \E a \in Addr, w \in Word : Store(a, w)
     \/ \E line \in Lines : Synci(line)
     \/ UNCHANGED <<code, visible>>
  /\ Fetch

Spec == Init /\ [][Next]_vars

=============================================================================
