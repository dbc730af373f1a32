----------------------------- MODULE MCModeScan -----------------------------
(***************************************************************************)
(* ModeScan for TLC: the only constant is the time of an enumeration, three*)
(* of the five ticks of a round (a tick may pass before main has started  *)
(* the stack, and the last one ends the round).                            *)
(***************************************************************************)
EXTENDS ModeScan
=============================================================================
