------------------------------ MODULE MCOutJack ------------------------------
(***************************************************************************)
(* OutJack for TLC: USB packets of up to two events, a ring of 4 events    *)
(* whose byte count wraps after two laps.                                  *)
(***************************************************************************)
EXTENDS OutJack

P(c, x, y, z) == EventPacket(c, <<x, y, z>>)

\* Note on, on two channels, a song position, and the closing packet of a SysEx,
\* whose first byte is a data byte.
MixedEvents == {P(9, 144, 1, 2), P(9, 145, 1, 0), P(3, 242, 1, 0), P(7, 3, 4, 247)}

\* A SysEx of five bytes: 240 1 2, then 3 4 247.
SysExEvents == {P(4, 240, 1, 2), P(7, 3, 4, 247)}
=============================================================================
