------------------------------ MODULE MCInJack ------------------------------
(***************************************************************************)
(* InJack for TLC: status bytes of a two-byte and two three-byte messages  *)
(* on different channels, two data bytes.                                  *)
(***************************************************************************)
EXTENDS InJack
=============================================================================
