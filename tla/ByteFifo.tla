------------------------------ MODULE ByteFifo ------------------------------
(***************************************************************************)
(* What the MIDI In path promises: the bytes that arrive on the jack are   *)
(* handed to the translator once each and in the order they arrived.       *)
(* UartRx, the ring shared by the UART interrupt and the main loop, is     *)
(* shown to implement this specification.                                  *)
(***************************************************************************)
EXTENDS Sequences

CONSTANTS Byte,   \* what one UART frame can carry
          Zero    \* the byte that stands for none yet, a member of Byte

VARIABLES q,      \* bytes received and not yet handed over, oldest first
          out     \* the byte handed over last

vars == <<q, out>>

Init == q = <<>> /\ out = Zero

Put(b) == q' = Append(q, b) /\ UNCHANGED out

Get == q # <<>> /\ out' = Head(q) /\ q' = Tail(q)

Next == (\E b \in Byte : Put(b)) \/ Get

Spec == Init /\ [][Next]_vars
=============================================================================
