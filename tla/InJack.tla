------------------------------- MODULE InJack -------------------------------
(***************************************************************************)
(* MIDI_InJackTasks of src/midi_jack.c, the translation of the MIDI byte   *)
(* stream into 32-bit USB MIDI event packets, and the part of              *)
(* APP_DeviceAudioMIDITasks that takes the packets away.                   *)
(*                                                                         *)
(* One call of MIDI_InJackTasks looks at the head byte of the ring (UartRx *)
(* and ByteFifo say what that ring delivers; here it is rx, one byte or    *)
(* none).  A call may leave the byte where it is: on the first data byte   *)
(* of a running-status message it only re-processes the status it saved.   *)
(*                                                                         *)
(* At the other end of the cable is a sender, with as many of the liberties*)
(* of MIDI as Features grants it.                                          *)
(*                                                                         *)
(* As in UartRx, a definition that nothing uses is a mutant of the one     *)
(* that follows it.                                                        *)
(***************************************************************************)
EXTENDS MidiReader

CONSTANTS
  Channel,    \* the channel status bytes the sender uses
  Data,       \* the data bytes it uses
  Features    \* what it does beyond whole channel messages; see below

\* "running"  : leaves out a repeated status byte
\* "common"   : sends system common messages
\* "sysex"    : sends whole system exclusive messages
\* "realtime" : sends a timing clock, between or inside messages
\* "abort"    : breaks off a SysEx with the status byte of the next message
\* "stray"    : sends data bytes nobody expects, as after a lost status byte
Legal       == {"running", "common", "sysex"}
AllFeatures == Legal \cup {"realtime", "abort", "stray"}

ASSUME InputAssumption ==
  /\ Channel \subseteq 128 .. 239
  /\ Data \subseteq 0 .. 127
  /\ Features \subseteq AllFeatures

VARIABLES
  rx,         \* the byte at the head of the ring, or None
  need,       \* sender: data bytes it still owes
  run,        \* sender: status byte it may leave out (0: none)
  inSysEx,    \* sender: a SysEx is open
  state,      \* MIDIRxCommandState: "status" (wait for status) or "bytes"
  rrs,        \* RxRunningStatusByte
  expected,   \* ExpectedDataBytes, an int8_t
  wi,         \* WriteIndex, an int8_t
  sysex,      \* SysExCommandPending
  pkt,        \* UARTTranslatedToUSB as its four bytes
  xlat,       \* UARTmidiPacketTranslated
  reader,     \* history: the reference reading of the bytes consumed
  strayed     \* history: the sender has taken a liberty that is not Legal

senderVars == <<need, run, inSysEx>>
jackVars   == <<state, rrs, expected, wi, sysex, pkt, xlat>>
vars       == <<rx, senderVars, jackVars, reader, strayed>>

None == -1
Clock == 248

\* The value of i in an int8_t (Wide: in a wider type).
Int8Wide(i) == i
Int8(i)     == ((i + 128) % 256) - 128

Init ==
  /\ rx = None
  /\ need = 0 /\ run = 0 /\ inSysEx = FALSE
  /\ state = "status" /\ rrs = 0 /\ expected = 0 /\ wi = 0
  /\ sysex = FALSE /\ pkt = NoPacket /\ xlat = FALSE
  /\ reader = Reader0 /\ strayed = FALSE

-----------------------------------------------------------------------------
(* The sender.                                                             *)

\* Byte b by virtue of a feature that is not Legal (odd), or of one that is.
Send(b, odd) ==
  /\ rx = None
  /\ rx' = b
  /\ strayed' = (strayed \/ odd)
  /\ UNCHANGED <<jackVars, reader>>

Idle == need = 0 /\ ~inSysEx

SendChannel(s) ==
  /\ Idle \/ ("abort" \in Features /\ inSysEx)
  /\ Send(s, inSysEx)
  /\ need' = DataBytes(s) /\ run' = s /\ inSysEx' = FALSE

SendData(d) ==
  /\ need > 0
  /\ Send(d, FALSE)
  /\ need' = need - 1 /\ UNCHANGED <<run, inSysEx>>

SendRunning(d) ==
  /\ "running" \in Features /\ Idle /\ run # 0
  /\ Send(d, FALSE)
  /\ need' = DataBytes(run) - 1 /\ UNCHANGED <<run, inSysEx>>

SendCommon(s) ==
  /\ "common" \in Features /\ Idle
  /\ Send(s, FALSE)
  /\ need' = DataBytes(s) /\ run' = 0 /\ UNCHANGED inSysEx

SendSysEx(b) ==
  /\ "sysex" \in Features /\ need = 0
  /\ IF inSysEx THEN b # SysExStart ELSE b = SysExStart
  /\ Send(b, FALSE)
  /\ inSysEx' = (b # SysExEnd) /\ run' = 0 /\ UNCHANGED need

SendClock ==
  /\ "realtime" \in Features
  /\ Send(Clock, TRUE)
  /\ UNCHANGED senderVars

SendStray(d) ==
  /\ "stray" \in Features /\ Idle /\ run = 0
  /\ Send(d, TRUE)
  /\ UNCHANGED senderVars

Sender ==
  \/ \E s \in Channel : SendChannel(s)
  \/ \E d \in Data : SendData(d) \/ SendRunning(d) \/ SendStray(d)
  \/ \E s \in {QuarterFrame, SongPosition, SongSelect, TuneRequest} : SendCommon(s)
  \/ \E b \in Data \cup {SysExStart, SysExEnd} : SendSysEx(b)
  \/ SendClock

-----------------------------------------------------------------------------
(* MIDI_InJackTasks.                                                       *)

\* CodeIndexNumber is the low nibble of the packet's first byte.
SetCin(p, cin) == [p EXCEPT ![0] = 16 * HighNibble(@) + cin]

\* A write through (int8_t*)&UARTTranslatedToUSB + i.  Outside the packet it
\* hits whatever variable the linker put there.
Poke(p, i, b) == IF i \in 0 .. 3 THEN [p EXCEPT ![i] = b] ELSE p

\* The head byte leaves the ring.  Nobody reads along once the sender has
\* strayed.
ConsumeByte ==
  /\ rx' = None
  /\ reader' = IF strayed THEN Reader0 ELSE Feed(reader, rx)
KeepByte == UNCHANGED <<rx, reader>>

\* The packet is ready for the USB side, the parser waits for the next status.
Translated == xlat' = TRUE /\ state' = "status" /\ expected' = 0

\* The parser waits for n data bytes (0: not before a status byte has come).
AwaitNothing(n) == state' = "status" /\ expected' = n /\ UNCHANGED xlat

Await(n) == state' = "bytes" /\ expected' = n /\ UNCHANGED xlat

\* ExpectedDataBytes of a system message; the default case of the switch is 0.
SystemBytes(s) ==
  CASE s = SongPosition -> 2
    [] s \in {QuarterFrame, SongSelect} -> 1
    [] OTHER -> 0

\* The code index numbers of the common messages are the ordinals of the
\* enumeration MIDI_CIN_N, which count the data bytes.
SystemCin ==
  [s \in {TuneRequest, QuarterFrame, SongSelect, SongPosition} |-> SystemBytes(s)]

\* ExpectedDataBytes of a channel message.
ChannelBytesAlwaysTwo(s) == 2

ChannelBytes(s) == IF HighNibble(s) \in {12, 13} THEN 1 ELSE 2

\* Where the write index goes after a SysEx byte at w (a comparison of unsigned
\* numbers: a negative index is left alone).
SysExIndex(w) == IF w = 3 THEN 1 ELSE IF w \in 0 .. 2 THEN w + 1 ELSE w

\* case MIDI_STATUS_SYSEX_START.  255 does not fit an int8_t: it is stored as -1.
ParseSysExStart(s, p, w) ==
  /\ s = SysExStart
  /\ pkt' = SetCin([p EXCEPT ![1] = s], 4)
  /\ Await(Int8(255))
  /\ sysex' = TRUE /\ wi' = w /\ rrs' = s

\* case MIDI_STATUS_SYSEX_END.
ParseSysExEnd(s, p, w) ==
  /\ s = SysExEnd
  /\ LET p1 == [p EXCEPT ![1] = s]
     IN  pkt' = IF w \in 1 .. 3 THEN SetCin(p1, 4 + w) ELSE p1
  /\ Translated
  /\ sysex' = FALSE /\ wi' = 2 /\ rrs' = s

\* The other system messages.  An unknown or real-time status sets no code
\* index number and is complete at once.
ParseSystem(s, p, w) ==
  /\ s >= 240 /\ s \notin {SysExStart, SysExEnd}
  /\ LET p1 == [p EXCEPT ![1] = s]
     IN  pkt' = IF s \in DOMAIN SystemCin THEN SetCin(p1, SystemCin[s]) ELSE p1
  /\ IF SystemBytes(s) = 0 THEN Translated ELSE Await(SystemBytes(s))
  /\ wi' = w /\ rrs' = s /\ UNCHANGED sysex

\* A channel message.  The channel is stripped from the saved status.
ParseChannelKeepingIndex(s, p) ==
  /\ IsChannel(s)
  /\ pkt' = SetCin([p EXCEPT ![1] = s], HighNibble(s))
  /\ Await(ChannelBytes(s))
  /\ wi' = wi /\ rrs' = 16 * HighNibble(s) /\ UNCHANGED sysex

ParseChannel(s, p) ==
  /\ IsChannel(s)
  /\ pkt' = SetCin([p EXCEPT ![1] = s], HighNibble(s))
  /\ Await(ChannelBytes(s))
  /\ wi' = 2 /\ rrs' = 16 * HighNibble(s) /\ UNCHANGED sysex

\* No status byte has ever been received.
ParseNothing(s, p, w) ==
  /\ ~IsStatus(s)
  /\ Await(0)
  /\ pkt' = p /\ wi' = w /\ rrs' = s /\ UNCHANGED sysex

\* The branch taken in STATE_WAIT_STATUS_BYTE, for status s, the packet as it
\* stands and the write index as it stands.
ParseStatus(s, p, w) ==
  \/ ParseSysExStart(s, p, w) \/ ParseSysExEnd(s, p, w)
  \/ ParseSystem(s, p, w) \/ ParseChannel(s, p) \/ ParseNothing(s, p, w)

\* A status byte clears the packet and the write index, except the one that
\* closes a SysEx.
ClearedByAll(s) == TRUE

ClearedBy(s) == s # SysExEnd

\* The head is a status byte: consume it and process it in the same call.
InJackStatus ==
  /\ rx # None /\ IsStatus(rx)
  /\ ConsumeByte
  /\ IF ClearedBy(rx) THEN ParseStatus(rx, NoPacket, 2) ELSE ParseStatus(rx, pkt, wi)
  /\ UNCHANGED <<senderVars, strayed>>

\* A data byte where a status was awaited: running status.  Only the saved
\* status is processed, the byte stays.
InJackRunning ==
  /\ rx # None /\ ~IsStatus(rx) /\ state = "status"
  /\ KeepByte
  /\ ParseStatus(rrs, pkt, wi)
  /\ UNCHANGED <<senderVars, strayed>>

\* A data byte of a SysEx.
InJackSysExData ==
  /\ rx # None /\ ~IsStatus(rx) /\ state = "bytes" /\ sysex
  /\ ConsumeByte
  /\ LET p == Poke(pkt, wi, rx)
     IN  pkt' = IF wi = 3 THEN SetCin(p, 4) ELSE p
  /\ xlat' = (xlat \/ wi = 3)
  /\ wi' = SysExIndex(wi)
  /\ UNCHANGED <<state, rrs, expected, sysex, senderVars, strayed>>

\* A data byte of any other message.
InJackData ==
  /\ rx # None /\ ~IsStatus(rx) /\ state = "bytes" /\ ~sysex
  /\ ConsumeByte
  /\ pkt' = Poke(pkt, wi, rx)
  /\ IF expected = 0
     THEN UNCHANGED <<state, expected, wi, xlat>>
     ELSE /\ wi' = Int8(wi + 1)
          /\ IF expected = 1 THEN Translated
             ELSE expected' = Int8(expected - 1) /\ UNCHANGED <<state, xlat>>
  /\ UNCHANGED <<rrs, sysex, senderVars, strayed>>

\* APP_DeviceAudioMIDITasks calls MIDI_InJackTasks and, in the same pass, hands
\* a finished packet to the USB stack.
MIDI_InJackTasks ==
  /\ ~xlat
  /\ InJackStatus \/ InJackRunning \/ InJackSysExData \/ InJackData

TakePacket ==
  /\ xlat
  /\ xlat' = FALSE
  /\ reader' = [reader EXCEPT !.due = NoPacket]
  /\ UNCHANGED <<rx, senderVars, strayed, state, rrs, expected, wi, sysex, pkt>>

Next == Sender \/ MIDI_InJackTasks \/ TakePacket

Spec == Init /\ [][Next]_vars

\* The main loop runs for ever and calls both over and over.
LiveSpec == Spec /\ WF_vars(MIDI_InJackTasks) /\ WF_vars(TakePacket)

-----------------------------------------------------------------------------
(* Properties.                                                             *)

TypeOK ==
  /\ rx \in 0 .. 255 \cup {None}
  /\ need \in 0 .. 2 /\ run \in Channel \cup {0} /\ inSysEx \in BOOLEAN
  /\ state \in {"status", "bytes"}
  /\ rrs \in 0 .. 255
  /\ expected \in -1 .. 2
  /\ wi \in -128 .. 127
  /\ sysex \in BOOLEAN
  /\ pkt \in [0 .. 3 -> 0 .. 255]
  /\ xlat \in BOOLEAN /\ strayed \in BOOLEAN

DueChannel == reader.due[0] \in 8 .. 14
DueSysEx   == reader.due[0] = 4
Agree(I)   == \A i \in I : pkt[i] = reader.due[i]

\* A packet is handed to USB exactly when the byte consumed last completed
\* one: none is missed, none is made up.
PacketPerMessage == ~strayed => (xlat <=> reader.due # NoPacket)

\* A message becomes the packet due for it.  When the status byte of a channel
\* message was left out, all but the channel number is right; the code index
\* number is right for channel messages only (SystemCin).
MessageExact ==
  xlat /\ ~strayed /\ rrs \notin {SysExStart, SysExEnd} =>
    /\ reader.fresh => Agree({1, 2, 3})
    /\ DueChannel => Agree({0, 2, 3}) /\ HighNibble(pkt[1]) = HighNibble(reader.due[1])

\* Inside a SysEx three consecutive bytes make one packet, whatever was in it.
\* The closing packet has the code index number of the number of bytes left,
\* although other messages share the write index it is computed from.
SysExExact ==
  xlat /\ ~strayed =>
    /\ DueSysEx => Agree(0 .. 3)
    /\ rrs = SysExEnd => Agree({0})

\* A data byte is only ever written to one of the four bytes of the packet
\* (midi_jack.c:107 and 165: WriteIndex points into the packet), as long as
\* nobody sends data bytes after the end of a system common message.
WritesInPacket ==
  ~strayed /\ rx # None /\ ~IsStatus(rx) /\ state = "bytes" => wi \in 0 .. 3

\* Every byte of a legal stream is eventually taken out of the ring: the call
\* that keeps a running-status byte is followed by one that consumes it.
LegalConsumed == (rx # None) ~> (rx = None \/ strayed)

\* Calls of MIDI_InJackTasks it takes until the head byte has left the ring.
CallsToGo ==
  IF rx = None THEN 0 ELSE IF IsStatus(rx) \/ state = "bytes" THEN 1 ELSE 2

\* Two calls are always enough in a legal stream: every call brings the head byte
\* nearer to its end, and nothing that happens in between puts it back.
CallsCount ==
  [][~strayed => /\ MIDI_InJackTasks => CallsToGo' < CallsToGo
                 /\ TakePacket => CallsToGo' = CallsToGo]_vars

\* A data byte for a status that is complete without one: the saved status is
\* processed again and the byte stays.
Wedged ==
  /\ rx # None /\ ~IsStatus(rx) /\ state = "status"
  /\ rrs >= 240 /\ rrs # SysExStart /\ SystemBytes(rrs) = 0

\* There is no way out of that: the byte stays for ever, no later status byte is
\* ever seen behind it, and every call hands another packet to USB.
WedgedForGood ==
  [][Wedged => Wedged' /\ rx' = rx /\ (MIDI_InJackTasks => xlat')]_vars

\* A SysEx broken off by another status byte stays pending, whatever follows, until a
\* SysEx end comes: no channel message reaches USB in the meantime, as all packets
\* made of its data bytes have the code index number of a SysEx (midi_jack.c:144).
SwallowedByPending ==
  [][sysex => \/ sysex' /\ (~xlat /\ xlat' /\ IsChannel(rrs') => pkt'[0] % 16 = 4)
              \/ ~sysex' /\ rrs' = SysExEnd]_vars

\* midi_jack.c:130-132: "Then on the next iteration we will actually consume
\* the newest ReceivedByte".  False of the code after a real-time status, which
\* is taken for the running status and is complete at once, again and again.
ByteConsumed == (rx # None) ~> (rx = None)
=============================================================================
