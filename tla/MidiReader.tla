----------------------------- MODULE MidiReader -----------------------------
(***************************************************************************)
(* The reference reading of a MIDI byte stream: how the USB MIDI class     *)
(* (Table 4-1, the code index numbers that inc/midi_jack.h lists) cuts it  *)
(* into 32-bit event packets.  It is written from the two standards and    *)
(* shares nothing with the firmware; InJack compares the packets the       *)
(* firmware makes with the ones due here.                                  *)
(*                                                                         *)
(* The state of the reader is a record: msg, the bytes of the message in   *)
(* progress; run, the running status (0: none); sx, inside a SysEx; due,   *)
(* the packet the last byte completed or NoPacket; fresh, the message      *)
(* brought its own status byte.                                            *)
(***************************************************************************)
EXTENDS Integers, Sequences

IsStatus(b)   == b >= 128
IsChannel(b)  == b \in 128 .. 239
IsRealTime(b) == b >= 248
HighNibble(b) == b \div 16

SysExStart  == 240
QuarterFrame == 241
SongPosition == 242
SongSelect   == 243
TuneRequest  == 246
SysExEnd    == 247

\* Number of data bytes that follow a status byte.
DataBytes(s) ==
  CASE HighNibble(s) \in {8, 9, 10, 11, 14} \/ s = SongPosition -> 2
    [] HighNibble(s) \in {12, 13} \/ s \in {QuarterFrame, SongSelect} -> 1
    [] OTHER -> 0

NoPacket == [i \in 0 .. 3 |-> 0]

\* An event packet: code index number, then up to three bytes, padded with 0.
EventPacket(cin, m) ==
  [i \in 0 .. 3 |-> IF i = 0 THEN cin ELSE IF i <= Len(m) THEN m[i] ELSE 0]

\* The code index number of a complete message other than SysEx.
CodeIndex(s) ==
  CASE IsChannel(s) -> HighNibble(s)
    [] s = SongPosition -> 3
    [] s \in {QuarterFrame, SongSelect} -> 2
    [] OTHER -> 5

Reader0 == [msg |-> <<>>, run |-> 0, sx |-> FALSE, due |-> NoPacket, fresh |-> FALSE]

FeedRealTime(r, b) == [r EXCEPT !.due = EventPacket(15, <<b>>)]

FeedStatus(r, b) ==
  [msg   |-> IF DataBytes(b) > 0 \/ b = SysExStart THEN <<b>> ELSE <<>>,
   run   |-> IF IsChannel(b) THEN b ELSE 0,
   sx    |-> b = SysExStart,
   due   |-> IF b = SysExEnd /\ r.sx
             THEN EventPacket(5 + Len(r.msg), Append(r.msg, b))
             ELSE IF b = TuneRequest THEN EventPacket(5, <<b>>) ELSE NoPacket,
   fresh |-> TRUE]

FeedData(r, b) ==
  LET start   == IF r.msg # <<>> \/ r.sx \/ r.run = 0 THEN r.msg ELSE <<r.run>>
      m       == Append(start, b)
      full    == IF r.sx THEN Len(m) = 3
                 ELSE start # <<>> /\ Len(m) = 1 + DataBytes(start[1])
  IN  [msg   |-> IF full \/ (start = <<>> /\ ~r.sx) THEN <<>> ELSE m,
       run   |-> r.run,
       sx    |-> r.sx,
       due   |-> IF full THEN EventPacket(IF r.sx THEN 4 ELSE CodeIndex(m[1]), m)
                 ELSE NoPacket,
       fresh |-> r.fresh /\ r.msg # <<>>]

Feed(r, b) ==
  IF IsRealTime(b) THEN FeedRealTime(r, b)
  ELSE IF IsStatus(b) THEN FeedStatus(r, b) ELSE FeedData(r, b)
=============================================================================
