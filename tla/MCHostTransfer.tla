--------------------------- MODULE MCHostTransfer ---------------------------
(***************************************************************************)
(* HostTransfer for TLC: instruments with one IN endpoint, of either type, *)
(* and instruments with two, both bulk or one of each.                     *)
(***************************************************************************)
EXTENDS HostTransfer

OneEndpoint == {<<"bulk">>, <<"interrupt">>}
TwoEndpoints == {<<"bulk", "bulk">>, <<"bulk", "interrupt">>}
=============================================================================
