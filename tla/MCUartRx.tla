------------------------------ MODULE MCUartRx ------------------------------
(***************************************************************************)
(* UartRx for TLC: a ring of 4 slots with a count of 8 values (2 laps, as  *)
(* 256 is 4 laps of 64), two byte values, a hardware FIFO of 2.            *)
(***************************************************************************)
EXTENDS UartRx
=============================================================================
