----------------------------- MODULE PacketLink -----------------------------
(***************************************************************************)
(* What host mode promises for an IN endpoint of the attached instrument:  *)
(* a link that takes its packets one by one, holds a few of them and gives *)
(* each to the out jack once, in the order they were taken.  Only pulling  *)
(* the cable empties it.  HostTransfer, where a bus that loses packets, an *)
(* interrupt handler and the main loop share the work, is shown to         *)
(* implement this specification for every endpoint.                        *)
(***************************************************************************)
EXTENDS Naturals, Sequences

CONSTANTS Ids,    \* the instrument numbers its packets modulo Ids
          Room    \* packets the link holds

VARIABLES attached, \* an instrument is there
          way,      \* the packets on their way, oldest first
          due,      \* the packet it takes next
          heard     \* the packet it gives next

vars == <<attached, way, due, heard>>

Follow(p) == (p + 1) % Ids

\* Nothing is under way and both ends begin with the first packet.
Fresh(a, w, d, h) == a \in BOOLEAN /\ w = <<>> /\ d = 0 /\ h = 0

Init == Fresh(attached, way, due, heard)

Take ==
  /\ attached /\ Len(way) < Room
  /\ way' = Append(way, due) /\ due' = Follow(due)
  /\ UNCHANGED <<attached, heard>>

Give ==
  /\ attached /\ way # <<>> /\ Head(way) = heard
  /\ way' = Tail(way) /\ heard' = Follow(heard)
  /\ UNCHANGED <<attached, due>>

Plug == attached' # attached /\ Fresh(attached', way', due', heard')

Next == Take \/ Give \/ Plug

Spec == Init /\ [][Next]_vars
=============================================================================
