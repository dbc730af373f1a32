--------------------------- MODULE InJack_proofs ---------------------------
(***************************************************************************)
(* Proofs about InJack for any status and data bytes and any features of   *)
(* the sender: as long as the sender is legal the translator and the       *)
(* reference reader go together, byte by byte.                             *)
(***************************************************************************)
EXTENDS InJack, SequenceTheorems, TLAPS

-----------------------------------------------------------------------------
(* The invariants.                                                         *)

Byte   == 0 .. 255
Common == {QuarterFrame, SongPosition, SongSelect}

\* The status bytes of the messages that have data bytes.
Opening == 128 .. 239 \cup Common

\* Inside a SysEx the write index counts the bytes the reader has, and the packet has
\* those bytes.
SysExOpen ==
  /\ reader.sx /\ reader.run = 0
  /\ state = "bytes" /\ sysex /\ rrs = SysExStart
  /\ \/ reader.msg = <<>> /\ wi = 1
     \/ reader.msg = <<pkt[1]>> /\ wi = 2
     \/ reader.msg = <<pkt[1], pkt[2]>> /\ wi = 3

\* The packet of a message of status s, which may have lost its channel.
Opened(s) ==
  /\ IF IsChannel(s)
     THEN reader.run = s /\ rrs = 16 * HighNibble(s) /\ pkt[0] = HighNibble(s)
     ELSE reader.run = 0 /\ rrs = s /\ reader.fresh
  /\ HighNibble(pkt[1]) = HighNibble(s)
  /\ DataBytes(s) = 1 => pkt[3] = 0

\* Inside such a message they do the same.
MessageOpen(s) ==
  /\ ~reader.sx /\ state = "bytes" /\ ~sysex
  /\ \/ reader.msg = <<s>> /\ wi = 2 /\ expected = DataBytes(s)
     \/ reader.msg = <<s, pkt[2]>> /\ wi = 3 /\ expected = 1 /\ DataBytes(s) = 2
  /\ Opened(s)
  /\ reader.fresh => pkt[1] = s

\* Between messages the translator waits for a status byte, or it has put the running
\* status s into the packet and is about to consume the first data byte.
Resumed(s) ==
  /\ rx \in 0 .. 127 /\ expected = DataBytes(s) /\ wi = 2
  /\ pkt[0] = HighNibble(s) /\ HighNibble(pkt[1]) = HighNibble(s)

Between ==
  /\ ~reader.sx /\ reader.msg = <<>> /\ ~sysex
  /\ \/ reader.run = 0 /\ state = "status"
     \/ /\ reader.run \in 128 .. 239 /\ rrs = 16 * HighNibble(reader.run)
        /\ state = "status" \/ Resumed(reader.run)
        /\ DataBytes(reader.run) = 1 => pkt[3] = 0

JackInv == pkt[0] \in 0 .. 15 /\ (SysExOpen \/ Between \/ \E s \in Opening : MessageOpen(s))

\* Where the sender is when the reader has read everything.
Level ==
  /\ inSysEx <=> reader.sx
  /\ need = IF reader.sx \/ reader.msg = <<>> THEN 0 ELSE expected
  /\ run = reader.run

\* The byte on its way, and where the sender is after it.
Ahead ==
  \/ /\ ~reader.sx /\ reader.msg = <<>> /\ need = DataBytes(rx) /\ ~inSysEx
     /\ \/ IsChannel(rx) /\ run = rx
        \/ rx \in Common \cup {TuneRequest} /\ run = 0
  \/ /\ rx = SysExStart /\ ~reader.sx /\ reader.msg = <<>>
     /\ need = 0 /\ run = 0 /\ inSysEx
  \/ /\ rx \in 0 .. 127 \cup {SysExEnd} /\ reader.sx
     /\ need = 0 /\ run = 0 /\ (inSysEx <=> rx # SysExEnd)
  \/ /\ rx \in 0 .. 127 /\ ~reader.sx /\ ~inSysEx /\ run = reader.run
     /\ IF reader.msg # <<>> THEN need = expected - 1
        ELSE reader.run # 0 /\ need = DataBytes(reader.run) - 1

SenderInv == IF rx = None THEN Level ELSE Ahead

\* The reader is a record of five fields.
Whole ==
  reader = [msg |-> reader.msg, run |-> reader.run, sx |-> reader.sx,
            due |-> reader.due, fresh |-> reader.fresh]

Exact == PacketPerMessage /\ MessageExact /\ SysExExact

IInv == ~strayed => Whole /\ SenderInv /\ JackInv /\ Exact

-----------------------------------------------------------------------------
(* Bytes and packets.                                                      *)

LEMMA Nibbles ==
  /\ \A b \in 0 .. 255 : HighNibble(b) \in 0 .. 15
  /\ \A b \in 128 .. 239 : HighNibble(b) \in 8 .. 14
  /\ \A b \in 240 .. 255 : HighNibble(b) = 15
  /\ \A h \in 0 .. 15, c \in 0 .. 15 : HighNibble(16 * h + c) = h /\ 16 * h + c \in 0 .. 255
  /\ \A h \in 0 .. 15 : HighNibble(16 * h) = h /\ 16 * h \in 0 .. 255
  BY DEF HighNibble

LEMMA DataBytesOf ==
  /\ \A s \in 0 .. 255 : DataBytes(s) \in 0 .. 2
  /\ \A s \in 128 .. 239 : DataBytes(s) \in 1 .. 2 /\ DataBytes(s) = ChannelBytes(s)
  /\ DataBytes(SongPosition) = 2 /\ DataBytes(QuarterFrame) = 1 /\ DataBytes(SongSelect) = 1
  /\ DataBytes(TuneRequest) = 0 /\ DataBytes(SysExStart) = 0 /\ DataBytes(SysExEnd) = 0
<1>1. \A s \in 0 .. 255 : DataBytes(s) \in 0 .. 2
  BY DEF DataBytes
<1>2. ASSUME NEW s \in 128 .. 239 PROVE DataBytes(s) \in 1 .. 2 /\ DataBytes(s) = ChannelBytes(s)
  <2>1. HighNibble(s) \in 8 .. 14 /\ s # SongPosition /\ s \notin {QuarterFrame, SongSelect}
    BY Nibbles DEF SongPosition, QuarterFrame, SongSelect
  <2>2. CASE HighNibble(s) \in {12, 13}
    BY <2>1, <2>2 DEF DataBytes, ChannelBytes
  <2>3. CASE HighNibble(s) \in {8, 9, 10, 11, 14}
    BY <2>1, <2>3 DEF DataBytes, ChannelBytes
  <2> QED BY <2>1, <2>2, <2>3
<1>3. \A s \in 240 .. 247 : HighNibble(s) = 15
  BY Nibbles
<1>4. /\ DataBytes(SongPosition) = 2 /\ DataBytes(QuarterFrame) = 1 /\ DataBytes(SongSelect) = 1
      /\ DataBytes(TuneRequest) = 0 /\ DataBytes(SysExStart) = 0 /\ DataBytes(SysExEnd) = 0
  BY <1>3 DEF DataBytes, SongPosition, QuarterFrame, SongSelect, TuneRequest, SysExStart, SysExEnd
<1> QED BY <1>1, <1>2, <1>4

LEMMA OpeningData ==
  ASSUME NEW s \in Opening PROVE s \in Byte /\ DataBytes(s) \in 1 .. 2
  BY DataBytesOf DEF Opening, Common, Byte, QuarterFrame, SongPosition, SongSelect

LEMMA SystemCinIs ==
  /\ DOMAIN SystemCin = Common \cup {TuneRequest}
  /\ \A s \in DOMAIN SystemCin : SystemCin[s] \in 0 .. 2
  BY DEF SystemCin, SystemBytes, Common, TuneRequest, QuarterFrame, SongSelect, SongPosition

Packet == [0 .. 3 -> 0 .. 255]

LEMMA NoPacketType == NoPacket \in Packet
  BY DEF Packet, NoPacket

LEMMA SetCinType == ASSUME NEW p \in Packet, NEW c \in 0 .. 15 PROVE SetCin(p, c) \in Packet
<1>1. p[0] \in 0 .. 255
  BY DEF Packet
<1>2. 16 * HighNibble(p[0]) + c \in 0 .. 255
  BY <1>1, Nibbles
<1> QED BY <1>2 DEF Packet, SetCin

LEMMA PokeType ==
  ASSUME NEW p \in Packet, NEW b \in 0 .. 255, NEW i \in -128 .. 127 PROVE Poke(p, i, b) \in Packet
  BY DEF Packet, Poke

LEMMA Int8Type ==
  /\ \A i \in Int : Int8(i) \in -128 .. 127
  /\ \A i \in -128 .. 127 : Int8(i) = i
  /\ Int8(255) = -1
  BY DEF Int8

-----------------------------------------------------------------------------
(* Types.                                                                  *)

\* TypeOK in parts.
SenderTypes == rx \in 0 .. 255 \cup {None} /\ need \in 0 .. 2 /\ run \in Channel \cup {0}
JackTypes ==
  /\ state \in {"status", "bytes"} /\ rrs \in 0 .. 255
  /\ expected \in -1 .. 2 /\ wi \in -128 .. 127
Flags == inSysEx \in BOOLEAN /\ strayed \in BOOLEAN
JackFlags == sysex \in BOOLEAN /\ xlat \in BOOLEAN

\* Only a SysEx waits for -1 bytes.
SysExWaits == expected = -1 => sysex

JackInv0 == JackTypes /\ JackFlags /\ pkt \in Packet /\ SysExWaits

TypeInv == SenderTypes /\ Flags /\ JackInv0

LEMMA TypeParts == TypeInv => TypeOK
  BY DEF TypeInv, TypeOK, SenderTypes, JackTypes, Flags, JackFlags, JackInv0, Packet

LEMMA TypeInit == Init => TypeInv
<1> SUFFICES ASSUME Init PROVE TypeInv
  OBVIOUS
<1>1. SenderTypes /\ JackTypes /\ SysExWaits
  BY DEF Init, SenderTypes, JackTypes, SysExWaits, None
<1>2. Flags /\ JackFlags
  BY DEF Init, Flags, JackFlags
<1>3. pkt \in Packet
  BY NoPacketType DEF Init
<1> QED BY <1>1, <1>2, <1>3 DEF TypeInv, JackInv0

LEMMA SenderTypesStep == TypeInv /\ Sender => TypeInv'
<1> SUFFICES ASSUME TypeInv, Sender PROVE TypeInv'
  OBVIOUS
<1>1. JackInv0' /\ strayed' \in BOOLEAN
  <2>1. UNCHANGED jackVars /\ \E odd \in BOOLEAN : strayed' = (strayed \/ odd)
    BY DEF Sender, SendChannel, SendData, SendRunning, SendStray, SendCommon, SendSysEx, SendClock,
           Send, TypeInv, Flags
  <2> QED BY <2>1 DEF TypeInv, JackInv0, JackTypes, JackFlags, SysExWaits, jackVars
<1>2. inSysEx' \in BOOLEAN
  BY DEF Sender, SendChannel, SendData, SendRunning, SendStray, SendCommon, SendSysEx, SendClock,
         senderVars, TypeInv, Flags
<1>3. SenderTypes'
  <2> USE InputAssumption DEF TypeInv, SenderTypes, Send, senderVars
  <2>1. ASSUME NEW s \in Channel, SendChannel(s) PROVE SenderTypes'
    <3>1. DataBytes(s) \in 0 .. 2
      BY DataBytesOf
    <3> QED BY <2>1, <3>1 DEF SendChannel
  <2>2. ASSUME NEW d \in Data, SendData(d) PROVE SenderTypes'
    BY <2>2 DEF SendData
  <2>3. ASSUME NEW d \in Data, SendRunning(d) PROVE SenderTypes'
    BY <2>3, DataBytesOf DEF SendRunning
  <2>4. ASSUME NEW d \in Data, SendStray(d) PROVE SenderTypes'
    BY <2>4 DEF SendStray
  <2>5. ASSUME NEW s \in {QuarterFrame, SongPosition, SongSelect, TuneRequest}, SendCommon(s)
        PROVE  SenderTypes'
    BY <2>5, DataBytesOf DEF SendCommon, QuarterFrame, SongPosition, SongSelect, TuneRequest
  <2>6. ASSUME NEW b \in Data \cup {SysExStart, SysExEnd}, SendSysEx(b) PROVE SenderTypes'
    BY <2>6 DEF SendSysEx, SysExStart, SysExEnd
  <2>7. CASE SendClock
    BY <2>7 DEF SendClock, Clock
  <2> QED BY <2>1, <2>2, <2>3, <2>4, <2>5, <2>6, <2>7 DEF Sender
<1> QED BY <1>1, <1>2, <1>3 DEF TypeInv, Flags

\* What a status byte does to the translator, for any packet and write index.
LEMMA ParseTypes ==
  ASSUME JackInv0, NEW s \in 0 .. 255, NEW p \in Packet, NEW w \in -128 .. 127,
         ParseStatus(s, p, w)
  PROVE  JackInv0'
<1>1. [p EXCEPT ![1] = s] \in Packet
  BY DEF Packet
<1>2. CASE ParseSysExStart(s, p, w)
  <2>1. pkt' \in Packet
    BY <1>1, <1>2, SetCinType DEF ParseSysExStart
  <2> QED BY <1>2, <2>1, Int8Type DEF ParseSysExStart, Await, JackInv0, JackTypes, JackFlags, SysExWaits
<1>3. CASE ParseSysExEnd(s, p, w)
  <2>1. pkt' \in Packet
    BY <1>1, <1>3, SetCinType DEF ParseSysExEnd
  <2>2. JackTypes' /\ expected' # -1
    BY <1>3 DEF ParseSysExEnd, Translated, JackTypes
  <2>3. JackFlags'
    BY <1>3 DEF ParseSysExEnd, Translated, JackFlags
  <2> QED BY <2>1, <2>2, <2>3 DEF JackInv0, SysExWaits
<1>4. CASE ParseSystem(s, p, w)
  <2>1. pkt' \in Packet
    BY <1>1, <1>4, SetCinType, SystemCinIs DEF ParseSystem
  <2>2. SystemBytes(s) \in 0 .. 2
    BY DEF SystemBytes
  <2>3. JackTypes' /\ expected' # -1
    BY <1>4, <2>2 DEF ParseSystem, Translated, Await, JackInv0, JackTypes
  <2>4. JackFlags'
    BY <1>4 DEF ParseSystem, Translated, Await, JackInv0, JackFlags
  <2> QED BY <2>1, <2>3, <2>4 DEF JackInv0, SysExWaits
<1>5. CASE ParseChannel(s, p)
  <2>1. HighNibble(s) \in 8 .. 14
    BY <1>5, Nibbles DEF ParseChannel, IsChannel
  <2>2. ChannelBytes(s) \in 1 .. 2 /\ 16 * HighNibble(s) \in 0 .. 255
    BY <2>1 DEF ChannelBytes
  <2>3. pkt' \in Packet
    BY <1>1, <1>5, <2>1, SetCinType DEF ParseChannel
  <2> QED BY <1>5, <2>2, <2>3 DEF ParseChannel, Await, JackInv0, JackTypes, JackFlags, SysExWaits
<1>6. CASE ParseNothing(s, p, w)
  BY <1>6 DEF ParseNothing, Await, JackInv0, JackTypes, JackFlags, SysExWaits
<1> QED BY <1>2, <1>3, <1>4, <1>5, <1>6 DEF ParseStatus

LEMMA TypeStep == TypeInv /\ [Next]_vars => TypeInv'
<1> SUFFICES ASSUME TypeInv, [Next]_vars PROVE TypeInv'
  OBVIOUS
<1>0. JackInv0 /\ pkt \in Packet /\ wi \in -128 .. 127
  BY DEF TypeInv, JackInv0, JackTypes
<1>1. ASSUME JackInv0', rx' = rx \/ rx' = None, UNCHANGED <<need, run, inSysEx, strayed>>
      PROVE  TypeInv'
  BY <1>1 DEF TypeInv, SenderTypes, Flags
<1>2. rx # None => rx \in 0 .. 255
  BY DEF TypeInv, SenderTypes
<1>3. CASE InJackStatus
  <2>1. rx \in 0 .. 255 /\ (ParseStatus(rx, NoPacket, 2) \/ ParseStatus(rx, pkt, wi))
    BY <1>2, <1>3 DEF InJackStatus
  <2>2. ASSUME ParseStatus(rx, NoPacket, 2) PROVE JackInv0'
    <3>1. PICK w \in -128 .. 127 : w = 2
      OBVIOUS
    <3> QED BY <1>0, <2>1, <2>2, <3>1, NoPacketType, ParseTypes
  <2>3. ASSUME ParseStatus(rx, pkt, wi) PROVE JackInv0'
    BY <1>0, <2>1, <2>3, ParseTypes
  <2>4. JackInv0'
    BY <2>1, <2>2, <2>3
  <2> QED BY <1>1, <1>3, <2>4 DEF InJackStatus, ConsumeByte, senderVars
<1>4. CASE InJackRunning
  <2>1. JackInv0'
    BY <1>0, <1>4, ParseTypes DEF InJackRunning, JackInv0, JackTypes
  <2> QED BY <1>1, <1>4, <2>1 DEF InJackRunning, KeepByte, senderVars
<1>5. CASE InJackSysExData
  <2>1. pkt' \in Packet
    <3>1. Poke(pkt, wi, rx) \in Packet
      BY <1>0, <1>2, <1>5, PokeType DEF InJackSysExData
    <3>2. SetCin(Poke(pkt, wi, rx), 4) \in Packet
      BY <3>1, SetCinType
    <3> QED BY <1>5, <3>1, <3>2 DEF InJackSysExData
  <2>2. wi' \in -128 .. 127 /\ UNCHANGED <<state, rrs, expected, sysex>>
    BY <1>0, <1>5 DEF InJackSysExData, SysExIndex
  <2>3. xlat' \in BOOLEAN
    BY <1>0, <1>5 DEF InJackSysExData, JackInv0, JackFlags
  <2>4. JackInv0'
    BY <1>0, <2>1, <2>2, <2>3 DEF JackInv0, JackTypes, JackFlags, SysExWaits
  <2> QED BY <1>1, <1>5, <2>4 DEF InJackSysExData, ConsumeByte, senderVars
<1>6. CASE InJackData
  <2>1. pkt' \in Packet
    BY <1>0, <1>2, <1>6, PokeType DEF InJackData
  <2>2. expected \in 0 .. 2 /\ Int8(wi + 1) \in -128 .. 127
    BY <1>0, <1>6, Int8Type DEF InJackData, JackInv0, JackTypes, SysExWaits
  <2>3. expected' \in 0 .. 2 /\ wi' \in -128 .. 127 /\ state' \in {"status", "bytes"}
    BY <1>0, <1>6, <2>2, Int8Type DEF InJackData, Translated, JackInv0, JackTypes
  <2>4. xlat' \in BOOLEAN /\ UNCHANGED <<rrs, sysex>>
    BY <1>0, <1>6 DEF InJackData, Translated, JackInv0, JackFlags
  <2>5. JackInv0'
    BY <1>0, <2>1, <2>3, <2>4 DEF JackInv0, JackTypes, JackFlags, SysExWaits
  <2> QED BY <1>1, <1>6, <2>5 DEF InJackData, ConsumeByte, senderVars
<1>7. CASE TakePacket
  <2>1. JackInv0'
    BY <1>0, <1>7 DEF TakePacket, JackInv0, JackTypes, JackFlags, SysExWaits
  <2> QED BY <1>1, <1>7, <2>1 DEF TakePacket, senderVars
<1>8. CASE UNCHANGED vars
  <2>1. JackInv0'
    BY <1>0, <1>8 DEF vars, jackVars, JackInv0, JackTypes, JackFlags, SysExWaits
  <2> QED BY <1>1, <1>8, <2>1 DEF vars, senderVars
<1> QED BY <1>3, <1>4, <1>5, <1>6, <1>7, <1>8, SenderTypesStep DEF Next, MIDI_InJackTasks

LEMMA TypeCorrect == Spec => []TypeInv
  BY TypeInit, TypeStep, PTL DEF Spec

\* Type correctness whatever the sender does: the int8_t counters stay in range, and
\* a packet is four bytes.
THEOREM TypesHold == Spec => []TypeOK
  BY TypeCorrect, TypeParts, PTL

-----------------------------------------------------------------------------
(* The reader.                                                             *)

\* Appending to short sequences.
LEMMA AppendMakes ==
  ASSUME NEW m \in Seq(Byte), NEW b \in Byte, NEW e \in Seq(Byte), NEW n \in Nat,
         Len(m) = n, Len(e) = n + 1, e[n + 1] = b, \A i \in 1 .. n : e[i] = m[i]
  PROVE  Append(m, b) = e
<1>1. PICK q \in Seq(Byte) : q = Append(m, b)
  BY AppendProperties
<1>2. Len(q) = n + 1 /\ q[n + 1] = b /\ \A i \in 1 .. n : q[i] = m[i]
  BY <1>1, AppendProperties
<1>3. \A i \in 1 .. n + 1 : i = n + 1 \/ i \in 1 .. n
  OBVIOUS
<1>4. \A i \in 1 .. n + 1 : q[i] = e[i]
  BY <1>2, <1>3
<1> QED BY <1>1, <1>2, <1>4, SeqEqual

LEMMA Tuples ==
  ASSUME NEW a \in Byte, NEW b \in Byte, NEW c \in Byte
  PROVE  /\ Len(<<>>) = 0 /\ Len(<<a>>) = 1 /\ Len(<<a, b>>) = 2 /\ Len(<<a, b, c>>) = 3
         /\ <<a>> # <<>> /\ <<a, b>> # <<>>
         /\ Append(<<>>, a) = <<a>> /\ Append(<<a>>, b) = <<a, b>>
         /\ Append(<<a, b>>, c) = <<a, b, c>>
<1>1. <<>> \in Seq(Byte) /\ <<a>> \in Seq(Byte) /\ <<a, b>> \in Seq(Byte) /\ <<a, b, c>> \in Seq(Byte)
  OBVIOUS
<1>2. Len(<<>>) = 0 /\ Len(<<a>>) = 1 /\ Len(<<a, b>>) = 2 /\ Len(<<a, b, c>>) = 3
  OBVIOUS
<1>3. <<a>> # <<>> /\ <<a, b>> # <<>>
  OBVIOUS
<1>4. Append(<<>>, a) = <<a>>
  OBVIOUS
<1>5. Append(<<a>>, b) = <<a, b>>
  <2>1. <<a, b>>[1 + 1] = b /\ \A i \in 1 .. 1 : <<a, b>>[i] = <<a>>[i]
    OBVIOUS
  <2>2. PICK m \in Seq(Byte), e \in Seq(Byte) : m = <<a>> /\ e = <<a, b>>
    BY <1>1
  <2>3. PICK n \in Nat : n = 1
    OBVIOUS
  <2>4. Len(m) = n /\ Len(e) = n + 1
    BY <1>2, <2>2, <2>3
  <2>5. e[n + 1] = b /\ \A i \in 1 .. n : e[i] = m[i]
    BY <2>1, <2>2, <2>3
  <2>6. Append(m, b) = e
    BY <2>4, <2>5, AppendMakes
  <2> QED BY <2>2, <2>6
<1>6. Append(<<a, b>>, c) = <<a, b, c>>
  <2>1. <<a, b, c>>[2 + 1] = c /\ \A i \in 1 .. 2 : <<a, b, c>>[i] = <<a, b>>[i]
    OBVIOUS
  <2>2. PICK m \in Seq(Byte), e \in Seq(Byte) : m = <<a, b>> /\ e = <<a, b, c>>
    BY <1>1
  <2>3. PICK n \in Nat : n = 2
    OBVIOUS
  <2>4. Len(m) = n /\ Len(e) = n + 1
    BY <1>2, <2>2, <2>3
  <2>5. e[n + 1] = c /\ \A i \in 1 .. n : e[i] = m[i]
    BY <2>1, <2>2, <2>3
  <2>6. Append(m, c) = e
    BY <2>4, <2>5, AppendMakes
  <2> QED BY <2>2, <2>6
<1> QED BY <1>2, <1>3, <1>4, <1>5, <1>6

\* The packet of three bytes.
Bytes(c, x, y, z) == [i \in 0 .. 3 |-> IF i = 0 THEN c ELSE IF i = 1 THEN x ELSE IF i = 2 THEN y ELSE z]

LEMMA Packets ==
  ASSUME NEW h \in 1 .. 15, NEW a \in Byte, NEW b \in Byte, NEW c \in Byte
  PROVE  /\ EventPacket(h, <<a>>) = Bytes(h, a, 0, 0)
         /\ EventPacket(h, <<a, b>>) = Bytes(h, a, b, 0)
         /\ EventPacket(h, <<a, b, c>>) = Bytes(h, a, b, c)
<1>1. EventPacket(h, <<a>>) = Bytes(h, a, 0, 0)
  BY DEF EventPacket, Bytes
<1>2. EventPacket(h, <<a, b>>) = Bytes(h, a, b, 0)
  BY DEF EventPacket, Bytes
<1>3. EventPacket(h, <<a, b, c>>) = Bytes(h, a, b, c)
  BY DEF EventPacket, Bytes
<1> QED BY <1>1, <1>2, <1>3

LEMMA BytesOf ==
  ASSUME NEW h \in Int, NEW a, NEW b, NEW c
  PROVE /\ Bytes(h, a, b, c)[0] = h
        /\ Bytes(h, a, b, c)[1] = a
        /\ Bytes(h, a, b, c)[2] = b
        /\ Bytes(h, a, b, c)[3] = c
        /\ h # 0 => Bytes(h, a, b, c) # NoPacket
  BY DEF Bytes, NoPacket
\* A byte that is not a real-time message.
LEMMA FeedIs ==
  /\ \A r, b : b \in 128 .. 247 => Feed(r, b) = FeedStatus(r, b)
  /\ \A r, b : b \in 0 .. 127 => Feed(r, b) = FeedData(r, b)
  BY DEF Feed, IsRealTime, IsStatus

LEMMA StatusFields ==
  ASSUME NEW r, NEW b
  PROVE
   /\ FeedStatus(r, b).msg = IF DataBytes(b) > 0 \/ b = SysExStart THEN <<b>> ELSE <<>>
   /\ FeedStatus(r, b).run = IF IsChannel(b) THEN b ELSE 0
   /\ FeedStatus(r, b).sx <=> (b = SysExStart)
   /\ FeedStatus(r, b).due = IF b = SysExEnd /\ r.sx
             THEN EventPacket(5 + Len(r.msg), Append(r.msg, b))
             ELSE IF b = TuneRequest THEN EventPacket(5, <<b>>) ELSE NoPacket
   /\ FeedStatus(r, b).fresh
  BY DEF FeedStatus


Start(r) == IF r.msg = <<>> THEN <<r.run>> ELSE r.msg

LEMMA SysExFields ==
  ASSUME NEW r, NEW b, r.sx
  PROVE  /\ Len(Append(r.msg, b)) # 3 =>
              FeedData(r, b).msg = Append(r.msg, b) /\ FeedData(r, b).due = NoPacket
         /\ Len(Append(r.msg, b)) = 3 =>
              /\ FeedData(r, b).msg = <<>>
              /\ FeedData(r, b).due = EventPacket(4, Append(r.msg, b))
  BY DEF FeedData

LEMMA MessageFields ==
  ASSUME NEW r, NEW b, ~r.sx, r.msg # <<>> \/ r.run # 0
  PROVE  LET m == Append(Start(r), b)
             full == Start(r) # <<>> /\ Len(m) = 1 + DataBytes(Start(r)[1])
         IN
         /\ ~full => FeedData(r, b).msg = (IF Start(r) = <<>> THEN <<>> ELSE m) /\ FeedData(r, b).due = NoPacket
         /\ full =>
              /\ FeedData(r, b).msg = <<>>
              /\ FeedData(r, b).due = EventPacket(CodeIndex(m[1]), m)
  BY DEF FeedData, Start

LEMMA OtherFields ==
  ASSUME NEW r, NEW b
  PROVE  /\ FeedData(r, b).run = r.run
         /\ FeedData(r, b).sx <=> r.sx
         /\ FeedData(r, b).fresh <=> r.fresh /\ r.msg # <<>>
  BY DEF FeedData

LEMMA DataByteSysEx ==
  ASSUME NEW r, NEW a \in Byte, NEW c \in Byte, NEW b \in Byte, r.sx
  PROVE  /\ r.msg = <<>> => FeedData(r, b).msg = <<b>> /\ FeedData(r, b).due = NoPacket
         /\ r.msg = <<a>> => FeedData(r, b).msg = <<a, b>> /\ FeedData(r, b).due = NoPacket
         /\ r.msg = <<a, c>> => FeedData(r, b).msg = <<>> /\ FeedData(r, b).due = EventPacket(4, <<a, c, b>>)
<1>0. PICK m0, m1, m2, m3 : m0 = <<>> /\ m1 = <<b>> /\ m2 = <<a, b>> /\ m3 = <<a, c, b>>
  OBVIOUS
<1>4. Len(m1) # 3 /\ Len(m2) # 3 /\ Len(m3) = 3
  BY <1>0, Tuples
<1>1. ASSUME r.msg = <<>> PROVE FeedData(r, b).msg = <<b>> /\ FeedData(r, b).due = NoPacket
  <2>1. Append(r.msg, b) = m1
    BY <1>0, <1>1, Tuples
  <2>2. FeedData(r, b).msg = m1 /\ FeedData(r, b).due = NoPacket
    BY <1>4, <2>1, SysExFields
  <2> QED BY <1>0, <2>2
<1>2. ASSUME r.msg = <<a>> PROVE FeedData(r, b).msg = <<a, b>> /\ FeedData(r, b).due = NoPacket
  <2>1. Append(r.msg, b) = m2
    <3>1. Append(<<a>>, b) = <<a, b>>
      BY Tuples
    <3> QED BY <1>0, <1>2, <3>1
  <2>2. FeedData(r, b).msg = m2 /\ FeedData(r, b).due = NoPacket
    BY <1>4, <2>1, SysExFields
  <2> QED BY <1>0, <2>2
<1>3. ASSUME r.msg = <<a, c>>
      PROVE  FeedData(r, b).msg = <<>> /\ FeedData(r, b).due = EventPacket(4, <<a, c, b>>)
  <2>1. Append(r.msg, b) = m3
    <3>1. Append(<<a, c>>, b) = <<a, c, b>>
      BY Tuples
    <3> QED BY <1>0, <1>3, <3>1
  <2>2. FeedData(r, b).msg = <<>> /\ FeedData(r, b).due = EventPacket(4, m3)
    BY <1>4, <2>1, SysExFields
  <2> QED BY <1>0, <2>2
<1> QED BY <1>1, <1>2, <1>3

LEMMA DataByteFirst ==
  ASSUME NEW r, NEW s \in Byte, NEW b \in Byte, ~r.sx, NEW d \in 1 .. 2, DataBytes(s) = d,
         r.msg = <<s>> \/ (r.msg = <<>> /\ r.run = s /\ s # 0)
  PROVE  /\ d = 2 => FeedData(r, b).msg = <<s, b>> /\ FeedData(r, b).due = NoPacket
         /\ d = 1 => /\ FeedData(r, b).msg = <<>>
                     /\ FeedData(r, b).due = EventPacket(CodeIndex(s), <<s, b>>)
<1>0. PICK t, m : t = <<s>> /\ m = <<s, b>>
  OBVIOUS
<1>1. t[1] = s /\ m[1] = s /\ t # <<>>
  BY <1>0
<1>2. Append(t, b) = m /\ Len(m) = 2
  BY <1>0, Tuples
<1>3. Start(r) = t /\ (r.msg # <<>> \/ r.run # 0)
  <2>1. CASE r.msg = <<s>>
    <3>1. r.msg = t
      BY <1>0, <2>1
    <3> QED BY <1>1, <3>1 DEF Start
  <2>2. CASE r.msg = <<>> /\ r.run = s /\ s # 0
    BY <1>0, <2>2 DEF Start
  <2> QED BY <2>1, <2>2
<1>4. DataBytes(Start(r)[1]) = d /\ Append(Start(r), b) = m /\ Start(r) # <<>>
  BY <1>1, <1>2, <1>3
<1>5. CASE d = 1
  <2>1. Len(m) = 1 + d
    BY <1>2, <1>5
  <2>2. FeedData(r, b).msg = <<>> /\ FeedData(r, b).due = EventPacket(CodeIndex(m[1]), m)
    BY <1>3, <1>4, <2>1, MessageFields
  <2> QED BY <1>0, <1>1, <1>5, <2>2
<1>6. CASE d = 2
  <2>1. Len(m) # 1 + d
    BY <1>2, <1>6
  <2>2. FeedData(r, b).msg = m /\ FeedData(r, b).due = NoPacket
    BY <1>3, <1>4, <2>1, MessageFields
  <2> QED BY <1>0, <1>1, <1>6, <2>2
<1> QED BY <1>5, <1>6

LEMMA DataByteLast ==
  ASSUME NEW r, NEW s \in Byte, NEW a \in Byte, NEW b \in Byte, ~r.sx,
         NEW d \in 1 .. 2, DataBytes(s) = d, d = 2, r.msg = <<s, a>>
  PROVE  /\ FeedData(r, b).msg = <<>>
         /\ FeedData(r, b).due = EventPacket(CodeIndex(s), <<s, a, b>>)
<1>0. PICK t, m : t = <<s, a>> /\ m = <<s, a, b>>
  OBVIOUS
<1>1. t[1] = s /\ m[1] = s /\ t # <<>>
  BY <1>0
<1>2. Append(<<s, a>>, b) = <<s, a, b>> /\ Len(<<s, a, b>>) = 3
  BY Tuples
<1>3. Start(r) = t /\ r.msg # <<>>
  BY <1>0, <1>1 DEF Start
<1>4. DataBytes(Start(r)[1]) = d /\ Append(Start(r), b) = m /\ Start(r) # <<>>
  BY <1>0, <1>1, <1>2, <1>3
<1>5. Len(m) = 1 + d
  BY <1>0, <1>2
<1>6. FeedData(r, b).msg = <<>> /\ FeedData(r, b).due = EventPacket(CodeIndex(m[1]), m)
  BY <1>3, <1>4, <1>5, MessageFields
<1> QED BY <1>0, <1>1, <1>6

-----------------------------------------------------------------------------
(* Exactness.                                                              *)

\* What a status byte and a data byte make of a packet.
Put(p, s, c) == SetCin([p EXCEPT ![1] = s], c)

LEMMA StatusPacket ==
  ASSUME NEW p \in Packet, p[0] \in 0 .. 15, NEW s \in Byte, NEW c \in 0 .. 15
  PROVE  /\ Put(p, s, c)[0] = c /\ Put(p, s, c)[1] = s
         /\ Put(p, s, c)[2] = p[2] /\ Put(p, s, c)[3] = p[3]
<1>0. PICK q : q = Put(p, s, c)
  OBVIOUS
<1>1. HighNibble(p[0]) = 0
  BY DEF HighNibble
<1>2. 16 * HighNibble(p[0]) + c = c
  BY <1>1
<1>3. PICK t \in Packet : t = [p EXCEPT ![1] = s]
  BY DEF Packet, Byte
<1>4. t[0] = p[0] /\ t[1] = s /\ t[2] = p[2] /\ t[3] = p[3]
  BY <1>3 DEF Packet
<1>5. q = [t EXCEPT ![0] = c]
  BY <1>0, <1>2, <1>3, <1>4 DEF SetCin, Put
<1>6. DOMAIN t = 0 .. 3
  BY DEF Packet
<1>7. q[0] = c
  BY <1>5, <1>6
<1>8. q[1] = t[1] /\ q[2] = t[2] /\ q[3] = t[3]
  <2>1. \A i \in DOMAIN t : i # 0 => q[i] = t[i]
    BY <1>5
  <2> QED BY <1>6, <2>1
<1> QED BY <1>0, <1>4, <1>7, <1>8, Zenon

LEMMA DataPacket ==
  ASSUME NEW p \in Packet, NEW b, NEW i \in 1 .. 3
  PROVE  /\ Poke(p, i, b) = [p EXCEPT ![i] = b]
         /\ Poke(p, i, b)[i] = b
         /\ \A j \in 0 .. 3 : j # i => Poke(p, i, b)[j] = p[j]
  BY DEF Poke, Packet

LEMMA ExactNone == ASSUME ~xlat', reader'.due = NoPacket PROVE Exact'
  BY DEF Exact, PacketPerMessage, MessageExact, SysExExact

LEMMA ExactMade ==
  ASSUME xlat', NEW h \in 1 .. 15, NEW x, NEW y, NEW z, reader'.due = Bytes(h, x, y, z),
         rrs' \notin {SysExStart, SysExEnd} =>
           /\ reader'.fresh => pkt'[1] = x /\ pkt'[2] = y /\ pkt'[3] = z
           /\ h \in 8 .. 14 => /\ pkt'[0] = h /\ pkt'[2] = y /\ pkt'[3] = z
                               /\ HighNibble(pkt'[1]) = HighNibble(x),
         h = 4 => pkt'[0] = h /\ pkt'[1] = x /\ pkt'[2] = y /\ pkt'[3] = z,
         rrs' = SysExEnd => pkt'[0] = h
  PROVE  Exact'
<1>1. /\ reader'.due[0] = h /\ reader'.due[1] = x /\ reader'.due[2] = y /\ reader'.due[3] = z
      /\ reader'.due # NoPacket
  BY BytesOf
<1>2. PacketPerMessage'
  BY <1>1 DEF PacketPerMessage
<1>3. MessageExact'
  BY <1>1 DEF MessageExact, Agree, DueChannel
<1>4. SysExExact'
  <2>1. \A i \in 0 .. 3 : i = 0 \/ i = 1 \/ i = 2 \/ i = 3
    OBVIOUS
  <2>2. DueSysEx' => Agree(0 .. 3)'
    BY <1>1, <2>1 DEF Agree, DueSysEx
  <2>3. rrs' = SysExEnd => Agree({0})'
    BY <1>1 DEF Agree
  <2> QED BY <2>2, <2>3 DEF SysExExact
<1> QED BY <1>2, <1>3, <1>4 DEF Exact

-----------------------------------------------------------------------------
(* The sender.                                                             *)

\* Between messages the sender is between messages.
LEMMA IdleBetween ==
  ASSUME JackInv, Level, Idle PROVE ~reader.sx /\ reader.msg = <<>>
<1>1. ~reader.sx
  BY DEF Level, Idle
<1>2. ASSUME NEW s \in Opening, MessageOpen(s) PROVE FALSE
  <2>1. DataBytes(s) \in 1 .. 2 /\ s \in Byte
    BY OpeningData
  <2>2. expected # 0
    BY <1>2, <2>1 DEF MessageOpen
  <2>3. reader.msg # <<>>
    <3>1. \A a, b : <<a>> # <<>> /\ <<a, b>> # <<>>
      OBVIOUS
    <3> QED BY <1>2, <3>1, Zenon DEF MessageOpen
  <2> QED BY <1>1, <2>2, <2>3 DEF Level, Idle
<1> QED BY <1>1, <1>2 DEF JackInv, SysExOpen, Between

LEMMA SenderStep == ASSUME TypeInv, IInv, Sender PROVE IInv'
<1> SUFFICES ASSUME ~strayed' PROVE (Whole /\ SenderInv /\ JackInv /\ Exact)'
  BY DEF IInv
<1>1. /\ rx = None /\ UNCHANGED <<jackVars, reader>>
      /\ \E b, odd : rx' = b /\ strayed' = (strayed \/ odd)
  BY DEF Sender, SendChannel, SendData, SendRunning, SendStray, SendCommon, SendSysEx, SendClock,
         Send
<1>2. Whole /\ Level /\ JackInv /\ Exact
  <2>1. ~strayed
    BY <1>1 DEF TypeInv, Flags
  <2> QED BY <1>1, <2>1 DEF IInv, SenderInv
<1>3. Whole'
  BY <1>1, <1>2 DEF Whole
<1>4. Exact'
  BY <1>1, <1>2 DEF Exact, PacketPerMessage, MessageExact, SysExExact, Agree, DueChannel, DueSysEx,
                    jackVars
<1>5. JackInv'
  <2>1. SysExOpen => SysExOpen'
    BY <1>1 DEF SysExOpen, jackVars
  <2>2. ASSUME NEW s \in Opening, MessageOpen(s) PROVE MessageOpen(s)'
    BY <1>1, <2>2 DEF MessageOpen, Opened, jackVars
  <2>3. Between => Between'
    BY <1>1 DEF Between, Resumed, None, jackVars
  <2> QED BY <1>1, <1>2, <2>1, <2>2, <2>3 DEF JackInv, jackVars
<1>6. ASSUME rx' # None, Ahead' PROVE SenderInv'
  BY <1>6 DEF SenderInv
<1>7. ASSUME NEW s \in Channel, SendChannel(s) PROVE Ahead' /\ rx' # None
  <2>1. ~inSysEx /\ need = 0
    BY <1>7 DEF SendChannel, Send, Idle
  <2>2. ~reader.sx /\ reader.msg = <<>>
    BY <1>2, <2>1, IdleBetween DEF Idle
  <2>3. s \in 128 .. 239
    BY InputAssumption
  <2>4. rx' = s /\ need' = DataBytes(s) /\ run' = s /\ ~inSysEx' /\ reader' = reader
    BY <1>1, <1>7 DEF SendChannel, Send
  <2> QED BY <2>2, <2>3, <2>4 DEF Ahead, IsChannel, None
<1>8. ASSUME NEW d \in Data, SendData(d) PROVE Ahead' /\ rx' # None
  <2>1. d \in 0 .. 127
    BY InputAssumption
  <2>2. rx' = d /\ need' = need - 1 /\ run' = run /\ inSysEx' = inSysEx /\ need > 0
    BY <1>8 DEF SendData, Send
  <2>3. ~reader.sx /\ reader.msg # <<>> /\ need = expected /\ run = reader.run /\ ~inSysEx
    BY <1>2, <2>2 DEF Level
  <2>4. reader' = reader /\ expected' = expected
    BY <1>1 DEF jackVars
  <2> QED BY <2>1, <2>2, <2>3, <2>4 DEF Ahead, None
<1>9. ASSUME NEW d \in Data, SendRunning(d) PROVE Ahead' /\ rx' # None
  <2>1. d \in 0 .. 127
    BY InputAssumption
  <2>2. rx' = d /\ need' = DataBytes(run) - 1 /\ run' = run /\ inSysEx' = inSysEx /\ run # 0 /\ Idle
    BY <1>9 DEF SendRunning, Send
  <2>3. ~reader.sx /\ reader.msg = <<>>
    BY <1>2, <2>2, IdleBetween
  <2>4. run = reader.run /\ ~inSysEx /\ reader' = reader
    BY <1>1, <1>2, <2>2 DEF Level, Idle
  <2> QED BY <2>1, <2>2, <2>3, <2>4 DEF Ahead, None
<1>10. ASSUME NEW s \in {QuarterFrame, SongPosition, SongSelect, TuneRequest}, SendCommon(s)
       PROVE  Ahead' /\ rx' # None
  <2>1. rx' = s /\ need' = DataBytes(s) /\ run' = 0 /\ inSysEx' = inSysEx /\ Idle
    BY <1>10 DEF SendCommon, Send
  <2>2. ~reader.sx /\ reader.msg = <<>> /\ ~inSysEx /\ reader' = reader
    BY <1>1, <1>2, <2>1, IdleBetween DEF Idle
  <2>3. s # None
    BY DEF None, QuarterFrame, SongPosition, SongSelect, TuneRequest
  <2> QED BY <2>1, <2>2, <2>3 DEF Ahead, Common
<1>11. ASSUME NEW b \in Data \cup {SysExStart, SysExEnd}, SendSysEx(b) PROVE Ahead' /\ rx' # None
  <2>1. /\ rx' = b /\ (inSysEx' <=> b # SysExEnd) /\ run' = 0 /\ need' = need /\ need = 0
        /\ IF inSysEx THEN b # SysExStart ELSE b = SysExStart
    BY <1>11 DEF SendSysEx, Send
  <2>2. reader' = reader /\ (inSysEx <=> reader.sx)
    BY <1>1, <1>2 DEF Level
  <2>3. CASE inSysEx
    <3>1. b \in 0 .. 127 \cup {SysExEnd}
      BY <2>1, <2>3, InputAssumption
    <3> QED BY <2>1, <2>2, <2>3, <3>1 DEF Ahead, None, SysExEnd
  <2>4. CASE ~inSysEx
    <3>1. ~reader.sx /\ reader.msg = <<>>
      BY <1>2, <2>1, <2>4, IdleBetween DEF Idle
    <3> QED BY <2>1, <2>2, <2>4, <3>1 DEF Ahead, None, SysExEnd, SysExStart
  <2> QED BY <2>3, <2>4
<1>12. ~SendClock /\ \A d \in Data : ~SendStray(d)
  BY DEF SendClock, SendStray, Send
<1> QED BY <1>3, <1>4, <1>5, <1>6, <1>7, <1>8, <1>9, <1>10, <1>11, <1>12 DEF Sender

LEMMA TakeStep == ASSUME TypeInv, IInv, TakePacket PROVE IInv'
<1> SUFFICES ASSUME ~strayed' PROVE (Whole /\ SenderInv /\ JackInv /\ Exact)'
  BY DEF IInv
<1>1. /\ ~xlat' /\ reader' = [reader EXCEPT !.due = NoPacket]
      /\ UNCHANGED <<rx, need, run, inSysEx, strayed, state, rrs, expected, wi, sysex, pkt>>
  BY DEF TakePacket, senderVars
<1>2. Whole /\ SenderInv /\ JackInv
  BY <1>1 DEF IInv
<1>3. /\ reader'.msg = reader.msg /\ reader'.run = reader.run /\ (reader'.sx <=> reader.sx)
      /\ (reader'.fresh <=> reader.fresh)
  BY <1>1, <1>2 DEF Whole
<1>4. Whole' /\ reader'.due = NoPacket
  BY <1>1, <1>2 DEF Whole
<1>5. Exact'
  BY <1>1, <1>4, ExactNone
<1>6. SenderInv'
  BY <1>1, <1>2, <1>3 DEF SenderInv, Level, Ahead
<1>7. JackInv'
  <2>1. SysExOpen => SysExOpen'
    BY <1>1, <1>3 DEF SysExOpen
  <2>2. ASSUME NEW s \in Opening, MessageOpen(s) PROVE MessageOpen(s)'
    BY <1>1, <1>3, <2>2 DEF MessageOpen, Opened
  <2>3. Between => Between'
    BY <1>1, <1>3 DEF Between, Resumed
  <2> QED BY <1>1, <1>2, <2>1, <2>2, <2>3 DEF JackInv
<1> QED BY <1>4, <1>5, <1>6, <1>7

-----------------------------------------------------------------------------
(* The translator: status bytes.                                           *)

LEMMA WholeStep ==
  ASSUME NEW b, reader' = FeedStatus(reader, b) \/ reader' = FeedData(reader, b) PROVE Whole'
<1>1. CASE reader' = FeedStatus(reader, b)
  BY <1>1 DEF Whole, FeedStatus
<1>2. CASE reader' = FeedData(reader, b)
  <2>1. PICK m, ru, sx, du, fr :
          reader' = [msg |-> m, run |-> ru, sx |-> sx, due |-> du, fresh |-> fr]
    BY <1>2, Zenon DEF FeedData
  <2> QED BY <2>1 DEF Whole
<1> QED BY <1>1, <1>2

\* The packet a status byte opens.
LEMMA OpenedPacket ==
  ASSUME NEW s \in Byte, NEW c \in 0 .. 15
  PROVE  /\ Put(NoPacket, s, c)[0] = c /\ Put(NoPacket, s, c)[1] = s
         /\ Put(NoPacket, s, c)[2] = 0 /\ Put(NoPacket, s, c)[3] = 0
<1>1. PICK p \in Packet : p = NoPacket
  BY NoPacketType
<1>2. p[0] \in 0 .. 15 /\ p[2] = 0 /\ p[3] = 0
  BY <1>1 DEF NoPacket
<1>3. /\ Put(p, s, c)[0] = c /\ Put(p, s, c)[1] = s
      /\ Put(p, s, c)[2] = p[2] /\ Put(p, s, c)[3] = p[3]
  BY <1>2, StatusPacket
<1> QED BY <1>1, <1>2, <1>3

\* Which branch of the switch a status byte takes.
LEMMA WhichParse ==
  ASSUME NEW s \in Byte, NEW p, NEW w, ParseStatus(s, p, w)
  PROVE  /\ s \in 128 .. 239 => ParseChannel(s, p)
         /\ s \in Common \cup {TuneRequest} => ParseSystem(s, p, w)
         /\ s = SysExStart => ParseSysExStart(s, p, w)
         /\ s = SysExEnd => ParseSysExEnd(s, p, w)
  BY DEF ParseStatus, ParseSysExStart, ParseSysExEnd, ParseSystem, ParseChannel, ParseNothing,
         IsChannel, IsStatus, Common, QuarterFrame, SongPosition, SongSelect, TuneRequest,
         SysExStart, SysExEnd, Byte

LEMMA SystemBytesOf ==
  /\ \A s \in Common : SystemBytes(s) = DataBytes(s) /\ s \in DOMAIN SystemCin
  /\ SystemBytes(TuneRequest) = 0 /\ TuneRequest \in DOMAIN SystemCin /\ SystemCin[TuneRequest] = 0
<1>1. \A s \in Common : SystemBytes(s) = DataBytes(s)
  BY DataBytesOf DEF SystemBytes, Common, QuarterFrame, SongPosition, SongSelect
<1>2. SystemBytes(TuneRequest) = 0
  BY DEF SystemBytes, TuneRequest, QuarterFrame, SongPosition, SongSelect
<1> QED BY <1>1, <1>2, SystemCinIs DEF SystemCin

LEMMA StatusStep == ASSUME TypeInv, IInv, ~xlat, InJackStatus PROVE IInv'
<1> SUFFICES ASSUME ~strayed' PROVE (Whole /\ SenderInv /\ JackInv /\ Exact)'
  BY DEF IInv
<1>1. /\ ~strayed /\ rx \in 128 .. 255 /\ rx' = None /\ reader' = Feed(reader, rx)
      /\ UNCHANGED <<need, run, inSysEx>>
      /\ IF rx # SysExEnd THEN ParseStatus(rx, NoPacket, 2) ELSE ParseStatus(rx, pkt, wi)
  BY DEF InJackStatus, ConsumeByte, ClearedBy, senderVars, TypeInv, SenderTypes, IsStatus
<1>2. Ahead /\ JackInv /\ pkt \in Packet
  BY <1>1 DEF IInv, SenderInv, None, TypeInv, JackInv0
<1>3. /\ rx \in 128 .. 247 /\ rx \in Byte
      /\ reader' = FeedStatus(reader, rx)
  <2>1. rx \in 128 .. 247
    BY <1>1, <1>2 DEF Ahead, IsChannel, Common, QuarterFrame, SongPosition, SongSelect, TuneRequest,
                      SysExStart, SysExEnd
  <2> QED BY <1>1, <2>1, FeedIs DEF Byte
<1>4. Whole'
  BY <1>3, WholeStep
<1>5. /\ reader'.msg = IF DataBytes(rx) > 0 \/ rx = SysExStart THEN <<rx>> ELSE <<>>
      /\ reader'.run = IF IsChannel(rx) THEN rx ELSE 0
      /\ (reader'.sx <=> rx = SysExStart) /\ reader'.fresh
  BY <1>3, StatusFields
<1>6. rx # SysExEnd => reader'.due = IF rx = TuneRequest THEN EventPacket(5, <<rx>>) ELSE NoPacket
  BY <1>3, StatusFields
<1>7. SUFFICES Level' /\ JackInv' /\ Exact'
  BY <1>1, <1>4 DEF SenderInv
<1>8. NoPacket \in Packet /\ NoPacket[0] = 0 /\ NoPacket[1] = 0 /\ NoPacket[2] = 0 /\ NoPacket[3] = 0
  BY NoPacketType DEF NoPacket
<1>9. CASE rx \in 128 .. 239
  <2>1. PICK s \in 128 .. 239 : s = rx
    BY <1>9
  <2>2. /\ ~reader.sx /\ reader.msg = <<>> /\ need = DataBytes(s) /\ ~inSysEx /\ run = s
        /\ s \in Opening /\ IsChannel(s) /\ s # TuneRequest /\ s # SysExStart /\ s # SysExEnd
    BY <1>2, <2>1 DEF Ahead, IsChannel, Common, QuarterFrame, SongPosition, SongSelect, TuneRequest,
                      SysExStart, SysExEnd, Opening
  <2>3. ParseChannel(s, NoPacket)
    BY <1>1, <1>3, <2>1, <2>2, WhichParse
  <2>4. /\ DataBytes(s) \in 1 .. 2 /\ ChannelBytes(s) = DataBytes(s)
        /\ HighNibble(s) \in 8 .. 14 /\ HighNibble(s) \in 0 .. 15
    BY DataBytesOf, Nibbles
  <2>5. /\ state' = "bytes" /\ expected' = DataBytes(s) /\ xlat' = xlat /\ wi' = 2
        /\ rrs' = 16 * HighNibble(s) /\ sysex' = sysex
        /\ pkt' = SetCin([NoPacket EXCEPT ![1] = s], HighNibble(s))
    BY <2>3, <2>4 DEF ParseChannel, Await
  <2>6. pkt'[0] = HighNibble(s) /\ pkt'[1] = s /\ pkt'[2] = 0 /\ pkt'[3] = 0
    <3>1. PICK c \in 0 .. 15 : c = HighNibble(s)
      BY <2>4
    <3>2. s \in Byte /\ pkt' = Put(NoPacket, s, c)
      BY <1>3, <2>1, <2>5, <3>1 DEF Put
    <3>3. pkt'[0] = c /\ pkt'[1] = s /\ pkt'[2] = 0 /\ pkt'[3] = 0
      BY <3>2, OpenedPacket
    <3> QED BY <3>1, <3>3
  <2>7. /\ reader'.msg = <<s>> /\ reader'.run = s /\ ~reader'.sx /\ reader'.due = NoPacket
    BY <1>5, <1>6, <2>1, <2>2, <2>4
  <2>8. ~sysex
    BY <1>2, <2>2 DEF JackInv, SysExOpen, Between, MessageOpen
  <2>9. MessageOpen(s)'
    BY <2>2, <2>5, <2>6, <2>7, <2>8 DEF MessageOpen, Opened
  <2>10. JackInv'
    BY <2>2, <2>4, <2>6, <2>9 DEF JackInv
  <2>11. Exact'
    BY <2>5, <2>7, ExactNone
  <2>12. Level'
    <3>1. reader'.msg # <<>>
      BY <2>7
    <3> QED BY <1>1, <2>2, <2>5, <2>7, <3>1 DEF Level
  <2> QED BY <2>10, <2>11, <2>12
<1>10. CASE rx \in Common
  <2>1. PICK s \in Common : s = rx
    BY <1>10
  <2>2. /\ ~reader.sx /\ reader.msg = <<>> /\ need = DataBytes(s) /\ ~inSysEx /\ run = 0
        /\ s \in Opening /\ ~IsChannel(s) /\ s # TuneRequest /\ s # SysExStart /\ s # SysExEnd
    BY <1>2, <2>1 DEF Ahead, IsChannel, Common, QuarterFrame, SongPosition, SongSelect, TuneRequest,
                      SysExStart, SysExEnd, Opening
  <2>3. ParseSystem(s, NoPacket, 2)
    <3>1. ParseStatus(s, NoPacket, 2) /\ s \in Byte
      BY <1>1, <1>3, <2>1, <2>2
    <3> QED BY <3>1, WhichParse
  <2>4. /\ DataBytes(s) \in 1 .. 2 /\ SystemBytes(s) = DataBytes(s)
        /\ s \in DOMAIN SystemCin /\ SystemCin[s] \in 0 .. 15
    <3>1. SystemCin[s] \in 0 .. 2
      BY SystemBytesOf, SystemCinIs
    <3> QED BY <2>2, <3>1, OpeningData, SystemBytesOf
  <2>5. /\ state' = "bytes" /\ expected' = DataBytes(s) /\ xlat' = xlat /\ wi' = 2
        /\ rrs' = s /\ sysex' = sysex
        /\ pkt' = SetCin([NoPacket EXCEPT ![1] = s], SystemCin[s])
    BY <2>3, <2>4 DEF ParseSystem, Await
  <2>6. pkt'[0] = SystemCin[s] /\ pkt'[1] = s /\ pkt'[2] = 0 /\ pkt'[3] = 0
    <3>1. PICK c \in 0 .. 15 : c = SystemCin[s]
      BY <2>4
    <3>2. s \in Byte /\ pkt' = Put(NoPacket, s, c)
      BY <1>3, <2>1, <2>5, <3>1 DEF Put
    <3>3. pkt'[0] = c /\ pkt'[1] = s /\ pkt'[2] = 0 /\ pkt'[3] = 0
      BY <3>2, OpenedPacket
    <3> QED BY <3>1, <3>3
  <2>7. /\ reader'.msg = <<s>> /\ reader'.run = 0 /\ ~reader'.sx /\ reader'.due = NoPacket
        /\ reader'.fresh
    BY <1>5, <1>6, <2>1, <2>2, <2>4
  <2>8. ~sysex
    BY <1>2, <2>2 DEF JackInv, SysExOpen, Between, MessageOpen
  <2>9. MessageOpen(s)'
    BY <2>2, <2>5, <2>6, <2>7, <2>8 DEF MessageOpen, Opened
  <2>10. JackInv'
    BY <2>2, <2>4, <2>6, <2>9 DEF JackInv
  <2>11. Exact'
    BY <2>5, <2>7, ExactNone
  <2>12. Level'
    <3>1. reader'.msg # <<>>
      BY <2>7
    <3> QED BY <1>1, <2>2, <2>5, <2>7, <3>1 DEF Level
  <2> QED BY <2>10, <2>11, <2>12
<1>11. CASE rx = TuneRequest
  <2>1. rx = 246 /\ ~IsChannel(rx) /\ rx # SysExStart /\ rx # SysExEnd
    BY <1>11 DEF TuneRequest, IsChannel, SysExStart, SysExEnd
  <2>2. DataBytes(rx) = 0
    BY <1>11, DataBytesOf
  <2>3. ~reader.sx /\ reader.msg = <<>> /\ need = 0 /\ ~inSysEx /\ run = 0
    BY <1>2, <2>1, <2>2 DEF Ahead, IsChannel, SysExStart, SysExEnd
  <2>4. ParseSystem(rx, NoPacket, 2)
    BY <1>1, <1>3, <1>11, <2>1, WhichParse
  <2>5. /\ state' = "status" /\ xlat' = TRUE /\ rrs' = rx /\ sysex' = sysex
        /\ pkt' = SetCin([NoPacket EXCEPT ![1] = rx], 0)
    BY <1>11, <2>4, SystemBytesOf DEF ParseSystem, Translated
  <2>6. pkt'[0] = 0 /\ pkt'[1] = rx /\ pkt'[2] = 0 /\ pkt'[3] = 0
    <3>1. PICK c \in 0 .. 15 : c = 0
      OBVIOUS
    <3>2. pkt'[0] = c /\ pkt'[1] = rx /\ pkt'[2] = 0 /\ pkt'[3] = 0
      BY <1>3, <2>5, <3>1, OpenedPacket DEF Put
    <3> QED BY <3>1, <3>2
  <2>7. reader'.msg = <<>> /\ reader'.run = 0 /\ ~reader'.sx
    BY <1>5, <2>1, <2>2
  <2>8. ~sysex
    BY <1>2, <2>3 DEF JackInv, SysExOpen, Between, MessageOpen
  <2>9. JackInv'
    BY <2>5, <2>6, <2>7, <2>8 DEF JackInv, Between
  <2>10. Level'
    BY <1>1, <2>3, <2>7 DEF Level
  <2>11. Exact'
    <3>1. PICK h \in 1 .. 15 : h = 5
      OBVIOUS
    <3>2. reader'.due = Bytes(h, rx, 0, 0)
      <4>1. PICK a \in Byte : a = rx
        BY <1>3
      <4>2. reader'.due = EventPacket(h, <<a>>)
        BY <1>6, <1>11, <2>1, <3>1, <4>1
      <4> QED BY <4>1, <4>2, Packets
    <3>3. h \notin 8 .. 14 /\ h # 4 /\ rrs' # SysExEnd /\ xlat'
      BY <2>1, <2>5, <3>1
    <3> QED BY <2>6, <3>2, <3>3, ExactMade
  <2> QED BY <2>9, <2>10, <2>11
<1>12. CASE rx = SysExStart
  <2>1. rx = 240 /\ ~IsChannel(rx) /\ rx # TuneRequest /\ rx # SysExEnd /\ rx \notin Common
    BY <1>12 DEF TuneRequest, IsChannel, SysExStart, SysExEnd, Common, QuarterFrame, SongPosition,
                 SongSelect
  <2>3. ~reader.sx /\ reader.msg = <<>> /\ need = 0 /\ inSysEx /\ run = 0
    BY <1>2, <1>12, <2>1 DEF Ahead
  <2>4. ParseSysExStart(rx, NoPacket, 2)
    BY <1>1, <1>3, <1>12, <2>1, WhichParse
  <2>5. /\ state' = "bytes" /\ xlat' = xlat /\ rrs' = rx /\ sysex' /\ wi' = 2
        /\ pkt' = SetCin([NoPacket EXCEPT ![1] = rx], 4)
    BY <2>4 DEF ParseSysExStart, Await
  <2>6. pkt'[0] = 4 /\ pkt'[1] = rx
    <3>1. PICK c \in 0 .. 15 : c = 4
      OBVIOUS
    <3>2. pkt'[0] = c /\ pkt'[1] = rx
      BY <1>3, <2>5, <3>1, OpenedPacket DEF Put
    <3> QED BY <3>1, <3>2
  <2>7. /\ reader'.msg = <<rx>> /\ reader'.run = 0 /\ reader'.sx /\ reader'.due = NoPacket
    BY <1>5, <1>6, <1>12, <2>1
  <2>8. SysExOpen'
    BY <1>12, <2>5, <2>6, <2>7 DEF SysExOpen
  <2>9. JackInv'
    BY <2>6, <2>8 DEF JackInv
  <2>10. Level'
    BY <1>1, <2>3, <2>7 DEF Level
  <2>11. Exact'
    BY <2>5, <2>7, ExactNone
  <2> QED BY <2>9, <2>10, <2>11
<1>13. CASE rx = SysExEnd
  <2>1. rx = 247 /\ ~IsChannel(rx) /\ rx # TuneRequest /\ rx # SysExStart /\ rx \notin Common
        /\ rx \notin 0 .. 127
    BY <1>13 DEF TuneRequest, IsChannel, SysExStart, SysExEnd, Common, QuarterFrame, SongPosition,
                 SongSelect
  <2>2. DataBytes(rx) = 0
    BY <1>13, DataBytesOf
  <2>3. reader.sx /\ need = 0 /\ ~inSysEx /\ run = 0
    BY <1>2, <1>13, <2>1 DEF Ahead
  <2>4. SysExOpen
    BY <1>2, <2>3 DEF JackInv, Between, MessageOpen
  <2>5. ParseSysExEnd(rx, pkt, wi)
    BY <1>1, <1>3, <1>13, WhichParse
  <2>6. wi \in 1 .. 3
    BY <2>4 DEF SysExOpen
  <2>7. /\ state' = "status" /\ xlat' /\ rrs' = rx /\ ~sysex'
        /\ pkt' = SetCin([pkt EXCEPT ![1] = rx], 4 + wi)
    BY <2>5, <2>6 DEF ParseSysExEnd, Translated
  <2>8. 4 + wi \in 0 .. 15
    BY <2>6
  <2>9. pkt'[0] = 4 + wi
    <3>1. PICK c \in 0 .. 15 : c = 4 + wi
      BY <2>8
    <3>2. pkt \in Packet /\ pkt[0] \in 0 .. 15
      BY <1>2 DEF JackInv
    <3>3. rx \in Byte /\ pkt' = Put(pkt, rx, c)
      BY <1>3, <2>7, <3>1 DEF Put
    <3>4. pkt'[0] = c
      BY <3>2, <3>3, StatusPacket
    <3> QED BY <3>1, <3>4
  <2>10. reader'.msg = <<>> /\ reader'.run = 0 /\ ~reader'.sx
    BY <1>5, <2>1, <2>2
  <2>11. JackInv'
    <3>1. pkt'[0] \in 0 .. 15
      BY <2>8, <2>9
    <3> QED BY <2>7, <2>10, <3>1 DEF JackInv, Between
  <2>12. Level'
    BY <1>1, <2>3, <2>10 DEF Level
  <2>13. \E x, y, z : reader'.due = Bytes(4 + wi, x, y, z)
    <3>1. reader'.due = EventPacket(5 + Len(reader.msg), Append(reader.msg, rx))
      BY <1>3, <1>13, <2>3, StatusFields
    <3>2. PICK a \in Byte, b \in Byte, e \in Byte : a = pkt[1] /\ b = pkt[2] /\ e = rx
      <4>1. pkt[1] \in Byte /\ pkt[2] \in Byte
        BY <1>2 DEF Packet, Byte
      <4> QED BY <1>3, <4>1
    <3>3. PICK h \in 1 .. 15 : h = 4 + wi
      BY <2>6
    <3>4. CASE reader.msg = <<>> /\ wi = 1
      <4>1. Append(<<>>, e) = <<e>> /\ Len(<<>>) = 0
        BY Tuples
      <4>2. 5 + 0 = h
        BY <3>3, <3>4
      <4>3. reader'.due = EventPacket(h, <<e>>)
        BY <3>1, <3>2, <3>4, <4>1, <4>2
      <4>4. reader'.due = Bytes(h, e, 0, 0)
        BY <4>3, Packets
      <4> QED BY <3>3, <4>4
    <3>5. CASE reader.msg = <<a>> /\ wi = 2
      <4>1. Append(<<a>>, e) = <<a, e>> /\ Len(<<a>>) = 1
        BY Tuples
      <4>2. 5 + 1 = h
        BY <3>3, <3>5
      <4>3. reader'.due = EventPacket(h, <<a, e>>)
        BY <3>1, <3>2, <3>5, <4>1, <4>2
      <4>4. reader'.due = Bytes(h, a, e, 0)
        BY <4>3, Packets
      <4> QED BY <3>3, <4>4
    <3>6. CASE reader.msg = <<a, b>> /\ wi = 3
      <4>1. Append(<<a, b>>, e) = <<a, b, e>> /\ Len(<<a, b>>) = 2
        BY Tuples
      <4>2. 5 + 2 = h
        BY <3>3, <3>6
      <4>3. reader'.due = EventPacket(h, <<a, b, e>>)
        BY <3>1, <3>2, <3>6, <4>1, <4>2
      <4>4. reader'.due = Bytes(h, a, b, e)
        BY <4>3, Packets
      <4> QED BY <3>3, <4>4
    <3> QED BY <2>4, <3>2, <3>4, <3>5, <3>6 DEF SysExOpen
  <2>14. Exact'
    <3>1. PICK h \in 1 .. 15 : h = 4 + wi
      BY <2>6
    <3>2. PICK x, y, z : reader'.due = Bytes(h, x, y, z)
      BY <2>13, <3>1
    <3>3. h # 4 /\ rrs' = SysExEnd /\ xlat' /\ pkt'[0] = h
      BY <1>13, <2>6, <2>7, <2>9, <3>1
    <3> QED BY <3>2, <3>3, ExactMade
  <2> QED BY <2>11, <2>12, <2>14
<1> QED
  <2>1. rx \in 128 .. 239 \cup Common \cup {TuneRequest, SysExStart, SysExEnd}
    BY <1>1, <1>2 DEF Ahead, IsChannel
  <2> QED BY <1>9, <1>10, <1>11, <1>12, <1>13, <2>1

-----------------------------------------------------------------------------
(* The translator: data bytes.                                             *)

LEMMA RunningStep == ASSUME TypeInv, IInv, ~xlat, InJackRunning PROVE IInv'
<1> SUFFICES ASSUME ~strayed' PROVE (Whole /\ SenderInv /\ JackInv /\ Exact)'
  BY DEF IInv
<1>1. /\ ~strayed /\ rx \in 0 .. 127 /\ rx # None /\ state = "status"
      /\ UNCHANGED <<rx, reader, need, run, inSysEx>> /\ ParseStatus(rrs, pkt, wi)
  BY DEF InJackRunning, KeepByte, senderVars, TypeInv, SenderTypes, IsStatus
<1>2. Whole /\ Ahead /\ JackInv /\ PacketPerMessage /\ pkt \in Packet
  BY <1>1 DEF IInv, SenderInv, Exact, TypeInv, JackInv0
<1>3. Between
  BY <1>1, <1>2 DEF JackInv, SysExOpen, MessageOpen
<1>4. ~reader.sx /\ reader.msg = <<>> /\ ~sysex /\ reader.due = NoPacket
  BY <1>1, <1>2, <1>3 DEF Between, PacketPerMessage
<1>5. reader.run # 0
  BY <1>1, <1>2, <1>4 DEF Ahead, IsChannel, Common, QuarterFrame, SongPosition, SongSelect,
                          TuneRequest, SysExStart, SysExEnd
<1>6. PICK s \in 128 .. 239 : s = reader.run
  BY <1>3, <1>5 DEF Between
<1>7. rrs = 16 * HighNibble(s) /\ (DataBytes(s) = 1 => pkt[3] = 0)
  BY <1>3, <1>5, <1>6 DEF Between
<1>8. PICK h \in 8 .. 14 : h = HighNibble(s)
  BY Nibbles
<1>9. PICK t \in 128 .. 239 : t = rrs /\ t \in Byte /\ HighNibble(t) = h
  <2>1. 16 * h \in 128 .. 239 /\ 16 * h \in Byte
    BY DEF Byte
  <2>2. HighNibble(16 * h) = h
    BY Nibbles
  <2> QED BY <1>7, <1>8, <2>1, <2>2
<1>10. ParseChannel(t, pkt)
  BY <1>1, <1>9, WhichParse
<1>11. ChannelBytes(t) = DataBytes(s)
  <2>1. ChannelBytes(t) = ChannelBytes(s)
    BY <1>8, <1>9 DEF ChannelBytes
  <2> QED BY <2>1, DataBytesOf
<1>12. PICK c \in 0 .. 15 : c = h
  OBVIOUS
<1>13. /\ state' = "bytes" /\ expected' = DataBytes(s) /\ xlat' = xlat /\ wi' = 2
       /\ rrs' = 16 * h /\ sysex' = sysex /\ pkt' = Put(pkt, t, c)
  BY <1>9, <1>10, <1>11, <1>12 DEF ParseChannel, Await, Put
<1>14. pkt[0] \in 0 .. 15
  BY <1>2 DEF JackInv
<1>15. pkt'[0] = c /\ pkt'[1] = t /\ pkt'[3] = pkt[3]
  BY <1>2, <1>9, <1>13, <1>14, StatusPacket
<1>16. Resumed(s)'
  BY <1>1, <1>8, <1>9, <1>12, <1>13, <1>15 DEF Resumed
<1>17. JackInv'
  <2>1. Between'
    BY <1>1, <1>4, <1>6, <1>7, <1>8, <1>13, <1>15, <1>16 DEF Between
  <2> QED BY <1>15, <2>1 DEF JackInv
<1>18. SenderInv'
  <2>1. Ahead'
    BY <1>1, <1>2, <1>4 DEF Ahead
  <2> QED BY <1>1, <2>1 DEF SenderInv
<1>19. Exact'
  BY <1>1, <1>4, <1>13, ExactNone
<1>20. Whole'
  BY <1>1, <1>2 DEF Whole
<1> QED BY <1>17, <1>18, <1>19, <1>20

LEMMA SysExDataStep == ASSUME TypeInv, IInv, ~xlat, InJackSysExData PROVE IInv'
<1> SUFFICES ASSUME ~strayed' PROVE (Whole /\ SenderInv /\ JackInv /\ Exact)'
  BY DEF IInv
<1>1. /\ ~strayed /\ rx \in 0 .. 127 /\ rx # None /\ rx' = None
      /\ state = "bytes" /\ sysex /\ reader' = Feed(reader, rx)
      /\ UNCHANGED <<need, run, inSysEx, state, rrs, sysex>>
  BY DEF InJackSysExData, ConsumeByte, senderVars, TypeInv, SenderTypes, IsStatus
<1>2. Ahead /\ JackInv /\ pkt \in Packet
  BY <1>1 DEF IInv, SenderInv, TypeInv, JackInv0
<1>3. SysExOpen /\ pkt[0] \in 0 .. 15
  BY <1>1, <1>2 DEF JackInv, Between, MessageOpen
<1>4. reader.sx /\ reader.run = 0 /\ rrs = SysExStart
  BY <1>3 DEF SysExOpen
<1>5. need = 0 /\ run = 0 /\ inSysEx
  BY <1>1, <1>2, <1>4 DEF Ahead, SysExEnd
<1>6. PICK b \in Byte : b = rx
  BY <1>1 DEF Byte
<1>7. reader' = FeedData(reader, b)
  BY <1>1, <1>6, FeedIs
<1>8. Whole'
  BY <1>7, WholeStep
<1>9. reader'.run = 0 /\ reader'.sx
  BY <1>4, <1>7, OtherFields
<1>10. Level'
  BY <1>1, <1>5, <1>9 DEF Level
<1>11. PICK a \in Byte, e \in Byte : a = pkt[1] /\ e = pkt[2]
  <2>1. pkt[1] \in Byte /\ pkt[2] \in Byte
    BY <1>2 DEF Packet, Byte
  <2> QED BY <2>1
<1>12. SUFFICES JackInv' /\ Exact'
  BY <1>1, <1>8, <1>10 DEF SenderInv
<1>13. \A i \in 1 .. 3 : /\ Poke(pkt, i, b)[i] = b
                         /\ \A j \in 0 .. 3 : j # i => Poke(pkt, i, b)[j] = pkt[j]
  BY <1>2, DataPacket
<1>14. ASSUME NEW i \in 1 .. 2, wi = i
       PROVE  /\ pkt'[0] = pkt[0] /\ pkt'[i] = b /\ (i = 2 => pkt'[1] = a)
              /\ wi' = i + 1 /\ (xlat' <=> xlat)
  <2>1. pkt' = Poke(pkt, i, b)
    BY <1>6, <1>14 DEF InJackSysExData
  <2>2. wi' = i + 1
    BY <1>14 DEF InJackSysExData, SysExIndex
  <2>3. xlat' <=> xlat
    <3>1. wi # 3
      BY <1>14
    <3>2. xlat' = (xlat \/ wi = 3)
      BY Zenon DEF InJackSysExData
    <3> QED BY <3>1, <3>2, Zenon
  <2> QED BY <1>11, <1>13, <2>1, <2>2, <2>3
<1>18. /\ reader.msg = <<>> => reader'.msg = <<b>> /\ reader'.due = NoPacket
       /\ reader.msg = <<a>> => reader'.msg = <<a, b>> /\ reader'.due = NoPacket
       /\ reader.msg = <<a, e>> =>
            reader'.msg = <<>> /\ reader'.due = EventPacket(4, <<a, e, b>>)
  <2>1. PICK r : r = reader
    OBVIOUS
  <2>2. /\ r.msg = <<>> => FeedData(r, b).msg = <<b>> /\ FeedData(r, b).due = NoPacket
        /\ r.msg = <<a>> => FeedData(r, b).msg = <<a, b>> /\ FeedData(r, b).due = NoPacket
        /\ r.msg = <<a, e>> =>
             FeedData(r, b).msg = <<>> /\ FeedData(r, b).due = EventPacket(4, <<a, e, b>>)
    <3>1. r.sx
      BY <1>4, <2>1
    <3>2. r.msg = <<>> => FeedData(r, b).msg = <<b>> /\ FeedData(r, b).due = NoPacket
      BY <3>1, DataByteSysEx
    <3>3. r.msg = <<a>> => FeedData(r, b).msg = <<a, b>> /\ FeedData(r, b).due = NoPacket
      BY <3>1, DataByteSysEx
    <3>4. r.msg = <<a, e>> =>
            FeedData(r, b).msg = <<>> /\ FeedData(r, b).due = EventPacket(4, <<a, e, b>>)
      BY <3>1, DataByteSysEx
    <3> QED BY <3>2, <3>3, <3>4
  <2> QED BY <1>7, <2>1, <2>2
<1>15. CASE reader.msg = <<>> /\ wi = 1
  <2>1. reader'.msg = <<b>> /\ reader'.due = NoPacket
    BY <1>15, <1>18
  <2>2. pkt'[0] = pkt[0] /\ pkt'[1] = b /\ wi' = 2 /\ (xlat' <=> xlat)
    BY <1>14, <1>15
  <2>3. SysExOpen'
    BY <1>1, <1>4, <1>9, <2>1, <2>2 DEF SysExOpen
  <2> QED BY <1>3, <2>1, <2>2, <2>3, ExactNone DEF JackInv
<1>16. CASE reader.msg = <<a>> /\ wi = 2
  <2>1. reader'.msg = <<a, b>> /\ reader'.due = NoPacket
    BY <1>16, <1>18
  <2>2. pkt'[0] = pkt[0] /\ pkt'[1] = a /\ pkt'[2] = b /\ wi' = 3 /\ (xlat' <=> xlat)
    BY <1>14, <1>16
  <2>3. SysExOpen'
    BY <1>1, <1>4, <1>9, <2>1, <2>2 DEF SysExOpen
  <2> QED BY <1>3, <2>1, <2>2, <2>3, ExactNone DEF JackInv
<1>17. CASE reader.msg = <<a, e>> /\ wi = 3
  <2>1. reader'.msg = <<>> /\ reader'.due = EventPacket(4, <<a, e, b>>)
    BY <1>17, <1>18
  <2>2. pkt' = SetCin(Poke(pkt, 3, b), 4) /\ wi' = 1 /\ xlat'
    BY <1>6, <1>17 DEF InJackSysExData, SysExIndex
  <2>3. pkt'[0] = 4 /\ pkt'[1] = a /\ pkt'[2] = e /\ pkt'[3] = b
    <3>1. PICK p \in Packet : p = Poke(pkt, 3, b)
      <4>1. PICK i \in -128 .. 127 : i = 3
        OBVIOUS
      <4>2. b \in 0 .. 255
        BY DEF Byte
      <4>3. Poke(pkt, i, b) \in Packet
        BY <1>2, <4>2, PokeType
      <4>4. Poke(pkt, 3, b) \in Packet
        BY <4>1, <4>3
      <4> QED BY <4>4
    <3>2. p[0] = pkt[0] /\ p[1] = a /\ p[2] = e /\ p[3] = b
      BY <1>11, <1>13, <3>1
    <3>3. HighNibble(p[0]) = 0
      BY <1>3, <3>2 DEF HighNibble
    <3>4. pkt' = [p EXCEPT ![0] = 4]
      BY <2>2, <3>1, <3>3 DEF SetCin
    <3> QED BY <3>2, <3>4 DEF Packet
  <2>4. SysExOpen'
    BY <1>1, <1>4, <1>9, <2>1, <2>2 DEF SysExOpen
  <2>5. JackInv'
    BY <2>3, <2>4 DEF JackInv
  <2>6. Exact'
    <3>1. PICK h \in 1 .. 15 : h = 4
      OBVIOUS
    <3>2. reader'.due = Bytes(h, a, e, b)
      BY <2>1, <3>1, Packets
    <3>3. rrs' = SysExStart /\ rrs' # SysExEnd
      BY <1>1, <1>4 DEF SysExStart, SysExEnd
    <3> QED BY <2>2, <2>3, <3>1, <3>2, <3>3, ExactMade
  <2> QED BY <2>5, <2>6
<1> QED BY <1>3, <1>11, <1>15, <1>16, <1>17 DEF SysExOpen

LEMMA CodeIndexOf ==
  ASSUME NEW s \in Opening
  PROVE  /\ CodeIndex(s) \in 1 .. 15 /\ CodeIndex(s) # 4
         /\ IsChannel(s) => CodeIndex(s) = HighNibble(s)
         /\ ~IsChannel(s) => CodeIndex(s) \notin 8 .. 14
<1>1. CASE IsChannel(s)
  <2>1. HighNibble(s) \in 8 .. 14
    BY <1>1, Nibbles DEF IsChannel
  <2>2. CodeIndex(s) = HighNibble(s)
    BY <1>1 DEF CodeIndex, IsChannel, SongPosition, QuarterFrame, SongSelect
  <2> QED BY <1>1, <2>1, <2>2
<1>2. CASE ~IsChannel(s)
  <2>1. s \in Common
    BY <1>2 DEF Opening, IsChannel
  <2> QED BY <1>2, <2>1 DEF CodeIndex, Common, QuarterFrame, SongPosition, SongSelect
<1> QED BY <1>1, <1>2

\* The last data byte of the message of status s: a becomes the second and e the third
\* byte of the packet.
LEMMA LastData ==
  ASSUME pkt \in Packet, NEW s \in Opening, NEW a, NEW e, Opened(s), ~sysex, UNCHANGED <<rrs, sysex>>,
         state' = "status", xlat',
         pkt'[0] = pkt[0], pkt'[1] = pkt[1], pkt'[2] = a, pkt'[3] = e,
         reader'.msg = <<>>, reader'.run = reader.run, ~reader'.sx,
         reader'.due = Bytes(CodeIndex(s), s, a, e),
         reader'.fresh => pkt[1] = s, DataBytes(s) = 1 => e = 0,
         pkt[0] \in 0 .. 15
  PROVE  JackInv' /\ Exact'
<1>1. CodeIndex(s) \in 1 .. 15 /\ CodeIndex(s) # 4
  BY CodeIndexOf
<1>2. rrs \notin {SysExStart, SysExEnd}
  <2>1. CASE IsChannel(s)
    <3>1. HighNibble(s) \in 8 .. 14
      BY <2>1, Nibbles DEF IsChannel
    <3> QED BY <2>1, <3>1 DEF Opened, SysExStart, SysExEnd
  <2>2. CASE ~IsChannel(s)
    BY <2>2 DEF Opened, Opening, IsChannel, Common, QuarterFrame, SongPosition, SongSelect,
                SysExStart, SysExEnd
  <2> QED BY <2>1, <2>2
<1>3. CodeIndex(s) \in 8 .. 14 => pkt[0] = CodeIndex(s) /\ HighNibble(pkt[1]) = HighNibble(s)
  BY CodeIndexOf DEF Opened
<1>4. Exact'
  <2>1. PICK h \in 1 .. 15 : h = CodeIndex(s)
    BY <1>1
  <2>2. reader'.due = Bytes(h, s, a, e) /\ h # 4
    BY <1>1, <2>1
  <2>3. h \in 8 .. 14 => pkt'[0] = h /\ HighNibble(pkt'[1]) = HighNibble(s)
    BY <1>3, <2>1
  <2>4. rrs' # SysExEnd
    BY <1>2
  <2> QED BY <2>2, <2>3, <2>4, ExactMade
<1>5. Between'
  <2>1. CASE IsChannel(s)
    BY <2>1 DEF Between, Opened, IsChannel
  <2>2. CASE ~IsChannel(s)
    BY <2>2 DEF Between, Opened
  <2> QED BY <2>1, <2>2
<1> QED BY <1>4, <1>5 DEF JackInv

\* The status byte has been read and no data byte, or the running status stands for it.
Begun(s) == reader.msg = <<s>> \/ (reader.msg = <<>> /\ reader.run = s)

LEMMA DataStep == ASSUME TypeInv, IInv, ~xlat, InJackData PROVE IInv'
<1> SUFFICES ASSUME ~strayed' PROVE (Whole /\ SenderInv /\ JackInv /\ Exact)'
  BY DEF IInv
<1>1. /\ ~strayed /\ rx \in 0 .. 127 /\ rx # None /\ rx' = None
      /\ state = "bytes" /\ ~sysex /\ reader' = Feed(reader, rx)
      /\ UNCHANGED <<need, run, inSysEx, rrs, sysex>>
  BY DEF InJackData, ConsumeByte, senderVars, TypeInv, SenderTypes, IsStatus
<1>2. Ahead /\ JackInv /\ pkt \in Packet
  BY <1>1 DEF IInv, SenderInv, TypeInv, JackInv0
<1>3. pkt[0] \in 0 .. 15 /\ (Between \/ \E s \in Opening : MessageOpen(s))
  BY <1>1, <1>2 DEF JackInv, SysExOpen
<1>4. ~reader.sx
  BY <1>3 DEF Between, MessageOpen
<1>5. /\ ~inSysEx /\ run = reader.run
      /\ IF reader.msg # <<>> THEN need = expected - 1
         ELSE reader.run # 0 /\ need = DataBytes(reader.run) - 1
  BY <1>1, <1>2, <1>4 DEF Ahead, IsChannel, Common, QuarterFrame, SongPosition, SongSelect,
                          TuneRequest, SysExStart, SysExEnd
<1>6. PICK b \in Byte : b = rx
  BY <1>1 DEF Byte
<1>7. reader' = FeedData(reader, b)
  BY <1>1, <1>6, FeedIs
<1>8. Whole'
  BY <1>7, WholeStep
<1>9. reader'.run = reader.run /\ ~reader'.sx /\ (reader'.fresh <=> reader.fresh /\ reader.msg # <<>>)
  BY <1>4, <1>7, OtherFields
<1>10. SUFFICES Level' /\ JackInv' /\ Exact'
  BY <1>1, <1>8 DEF SenderInv
<1>11. \A i \in 2 .. 3 : /\ Poke(pkt, i, b)[i] = b
                         /\ \A j \in 0 .. 3 : j # i => Poke(pkt, i, b)[j] = pkt[j]
  BY <1>2, DataPacket
<1>12. ASSUME NEW i \in 2 .. 3, wi = i
       PROVE  pkt'[i] = b /\ \A j \in 0 .. 3 : j # i => pkt'[j] = pkt[j]
  <2>1. pkt' = Poke(pkt, i, b)
    BY <1>6, <1>12 DEF InJackData
  <2> QED BY <1>11, <2>1
<1>13. expected = 1 => state' = "status" /\ xlat'
  BY DEF InJackData, Translated
<1>14. expected = 2 /\ wi = 2 => state' = "bytes" /\ expected' = 1 /\ wi' = 3 /\ (xlat' <=> xlat)
  BY <1>1, Int8Type DEF InJackData
<1>15. ASSUME NEW s \in Opening, Begun(s), wi = 2, expected = DataBytes(s), Opened(s),
              need = expected - 1, reader.msg # <<>> /\ reader.fresh => pkt[1] = s
       PROVE  Level' /\ JackInv' /\ Exact'
  <2>1. PICK d \in 1 .. 2 : d = DataBytes(s) /\ s \in Byte
    BY OpeningData
  <2>2. /\ pkt'[0] = pkt[0] /\ pkt'[1] = pkt[1] /\ pkt'[2] = b /\ pkt'[3] = pkt[3]
    <3>1. PICK i \in 2 .. 3 : i = 2
      OBVIOUS
    <3>2. pkt'[i] = b /\ \A j \in 0 .. 3 : j # i => pkt'[j] = pkt[j]
      BY <1>12, <1>15, <3>1
    <3> QED BY <3>1, <3>2
  <2>3. s # 0
    BY DEF Opening, Common, QuarterFrame, SongPosition, SongSelect
  <2>4. /\ d = 2 => reader'.msg = <<s, b>> /\ reader'.due = NoPacket
        /\ d = 1 => reader'.msg = <<>> /\ reader'.due = EventPacket(CodeIndex(s), <<s, b>>)
    <3>1. PICK r : r = reader
      OBVIOUS
    <3>2. ~r.sx /\ (r.msg = <<s>> \/ (r.msg = <<>> /\ r.run = s /\ s # 0))
      <4>1. reader.msg = <<s>> \/ (reader.msg = <<>> /\ reader.run = s)
        BY <1>15 DEF Begun
      <4> QED BY <1>4, <2>3, <3>1, <4>1
    <3>3. d = 2 => FeedData(r, b).msg = <<s, b>> /\ FeedData(r, b).due = NoPacket
      BY <2>1, <3>2, DataByteFirst
    <3>4. d = 1 => /\ FeedData(r, b).msg = <<>>
                   /\ FeedData(r, b).due = EventPacket(CodeIndex(s), <<s, b>>)
      BY <2>1, <3>2, DataByteFirst
    <3> QED BY <1>7, <3>1, <3>3, <3>4
  <2>5. reader'.fresh => pkt[1] = s
    BY <1>9, <1>15
  <2>6. CASE d = 1
    <3>1. state' = "status" /\ xlat' /\ need = 0
      BY <1>13, <1>15, <2>1, <2>6
    <3>2. reader'.due = Bytes(CodeIndex(s), s, b, 0)
      <4>1. PICK h \in 1 .. 15 : h = CodeIndex(s)
        BY CodeIndexOf
      <4>2. EventPacket(h, <<s, b>>) = Bytes(h, s, b, 0)
        BY <2>1, Packets
      <4> QED BY <2>4, <2>6, <4>1, <4>2
    <3>3. pkt[3] = 0
      BY <1>15, <2>1, <2>6 DEF Opened
    <3>4. JackInv' /\ Exact'
      BY <1>1, <1>2, <1>3, <1>9, <1>15, <2>2, <2>4, <2>5, <2>6, <3>1, <3>2, <3>3, LastData
    <3>5. Level'
      BY <1>1, <1>5, <1>9, <2>4, <2>6, <3>1 DEF Level
    <3> QED BY <3>4, <3>5
  <2>7. CASE d = 2
    <3>1. state' = "bytes" /\ expected' = 1 /\ wi' = 3 /\ ~xlat' /\ need = 1
      BY <1>14, <1>15, <2>1, <2>7
    <3>2. Opened(s)'
      <4>1. IsChannel(s) \/ reader'.fresh
        <5>1. ASSUME ~IsChannel(s) PROVE reader.fresh /\ reader.msg # <<>>
          <6>1. reader.run = 0 /\ reader.fresh
            BY <1>15, <5>1 DEF Opened
          <6>2. \A a : <<a>> # <<>>
            OBVIOUS
          <6>3. reader.run # s
            BY <2>3, <6>1
          <6> QED BY <1>15, <6>1, <6>2, <6>3, Zenon DEF Begun
        <5> QED BY <1>9, <5>1
      <4> QED BY <1>1, <1>9, <1>15, <2>1, <2>2, <2>7, <4>1 DEF Opened
    <3>3. MessageOpen(s)'
      BY <1>1, <1>9, <2>1, <2>2, <2>4, <2>5, <2>7, <3>1, <3>2 DEF MessageOpen
    <3>4. JackInv'
      BY <1>3, <2>2, <3>3 DEF JackInv
    <3>5. reader'.msg # <<>>
      <4>1. \A a, c : <<a, c>> # <<>>
        OBVIOUS
      <4> QED BY <2>4, <2>7, <4>1, Zenon
    <3>6. Level'
      BY <1>1, <1>5, <1>9, <3>1, <3>5 DEF Level
    <3> QED BY <2>4, <2>7, <3>1, <3>4, <3>6, ExactNone
  <2> QED BY <2>6, <2>7
<1>16. ASSUME NEW s \in Opening, reader.msg = <<s, pkt[2]>>, wi = 3, expected = 1, DataBytes(s) = 2,
              Opened(s), reader.fresh => pkt[1] = s, need = expected - 1
       PROVE  Level' /\ JackInv' /\ Exact'
  <2>1. PICK a \in Byte : a = pkt[2]
    BY <1>2 DEF Packet, Byte
  <2>2. /\ pkt'[0] = pkt[0] /\ pkt'[1] = pkt[1] /\ pkt'[2] = a /\ pkt'[3] = b
    <3>1. PICK i \in 2 .. 3 : i = 3
      OBVIOUS
    <3>2. pkt'[i] = b /\ \A j \in 0 .. 3 : j # i => pkt'[j] = pkt[j]
      BY <1>12, <1>16, <3>1
    <3> QED BY <2>1, <3>1, <3>2
  <2>3. reader'.msg = <<>> /\ reader'.due = EventPacket(CodeIndex(s), <<s, a, b>>)
    <3>1. PICK r : r = reader
      OBVIOUS
    <3>2. PICK d \in 1 .. 2 : d = 2
      OBVIOUS
    <3>3. ~r.sx /\ r.msg = <<s, a>> /\ DataBytes(s) = d /\ s \in Byte
      BY <1>4, <1>16, <2>1, <3>1, <3>2, OpeningData
    <3>4. /\ FeedData(r, b).msg = <<>>
          /\ FeedData(r, b).due = EventPacket(CodeIndex(s), <<s, a, b>>)
      BY <3>2, <3>3, DataByteLast
    <3> QED BY <1>7, <3>1, <3>4
  <2>4. reader'.due = Bytes(CodeIndex(s), s, a, b)
    <3>1. PICK h \in 1 .. 15 : h = CodeIndex(s)
      BY CodeIndexOf
    <3>2. EventPacket(h, <<s, a, b>>) = Bytes(h, s, a, b)
      BY OpeningData, Packets
    <3> QED BY <2>3, <3>1, <3>2
  <2>5. state' = "status" /\ xlat' /\ need = 0
    BY <1>13, <1>16
  <2>6. JackInv' /\ Exact'
    BY <1>1, <1>2, <1>3, <1>9, <1>16, <2>2, <2>3, <2>4, <2>5, LastData
  <2>7. Level'
    BY <1>1, <1>5, <1>9, <2>3, <2>5 DEF Level
  <2> QED BY <2>6, <2>7
<1>17. CASE Between
  <2>1. reader.msg = <<>> /\ reader.run \in 128 .. 239 /\ Resumed(reader.run)
        /\ rrs = 16 * HighNibble(reader.run) /\ (DataBytes(reader.run) = 1 => pkt[3] = 0)
    BY <1>1, <1>5, <1>17 DEF Between
  <2>2. PICK s \in Opening : s = reader.run /\ IsChannel(s)
    BY <2>1 DEF Opening, IsChannel
  <2>3. wi = 2 /\ expected = DataBytes(s) /\ Opened(s)
    BY <2>1, <2>2 DEF Resumed, Opened
  <2>4. need = expected - 1
    BY <1>5, <2>1, <2>2, <2>3
  <2> QED BY <1>15, <2>1, <2>2, <2>3, <2>4 DEF Begun
<1>18. ASSUME NEW s \in Opening, MessageOpen(s) PROVE Level' /\ JackInv' /\ Exact'
  <2>1. reader.msg # <<>>
    <3>1. \A a, c : <<a>> # <<>> /\ <<a, c>> # <<>>
      OBVIOUS
    <3> QED BY <1>18, <3>1, Zenon DEF MessageOpen
  <2>2. need = expected - 1
    BY <1>5, <2>1
  <2>3. Opened(s) /\ (reader.fresh => pkt[1] = s)
    BY <1>18 DEF MessageOpen
  <2>4. CASE reader.msg = <<s>> /\ wi = 2 /\ expected = DataBytes(s)
    <3>1. Begun(s)
      BY <2>4, Zenon DEF Begun
    <3>2. wi = 2 /\ expected = DataBytes(s)
      BY <2>4
    <3> QED BY <1>15, <2>2, <2>3, <3>1, <3>2
  <2>5. CASE reader.msg = <<s, pkt[2]>> /\ wi = 3 /\ expected = 1 /\ DataBytes(s) = 2
    BY <1>16, <2>2, <2>3, <2>5
  <2> QED BY <1>18, <2>4, <2>5 DEF MessageOpen
<1> QED BY <1>3, <1>17, <1>18

-----------------------------------------------------------------------------
(* The theorems.                                                           *)

LEMMA InvInit == Init => IInv
<1> SUFFICES ASSUME Init PROVE Whole /\ Level /\ JackInv /\ Exact /\ rx = None
  BY DEF IInv, SenderInv
<1>1. /\ rx = None /\ reader = Reader0 /\ need = 0 /\ run = 0 /\ ~inSysEx /\ ~sysex /\ ~xlat
      /\ state = "status" /\ pkt = NoPacket
  BY DEF Init
<1>2. /\ reader.msg = <<>> /\ reader.run = 0 /\ ~reader.sx /\ reader.due = NoPacket
      /\ ~reader.fresh
  BY <1>1 DEF Reader0
<1>3. Whole
  BY <1>1 DEF Whole, Reader0
<1>4. Level
  BY <1>1, <1>2 DEF Level
<1>5. JackInv
  BY <1>1, <1>2 DEF JackInv, Between, NoPacket
<1>6. Exact
  BY <1>1, <1>2 DEF Exact, PacketPerMessage, MessageExact, SysExExact
<1> QED BY <1>1, <1>3, <1>4, <1>5, <1>6

LEMMA InvStep == TypeInv /\ IInv /\ [Next]_vars => IInv'
<1> SUFFICES ASSUME TypeInv, IInv, [Next]_vars PROVE IInv'
  OBVIOUS
<1>1. CASE MIDI_InJackTasks
  BY <1>1, StatusStep, RunningStep, SysExDataStep, DataStep DEF MIDI_InJackTasks
<1>2. CASE UNCHANGED vars
  <2>1. /\ UNCHANGED <<rx, need, run, inSysEx, reader, strayed>>
        /\ UNCHANGED <<state, rrs, expected, wi, sysex, pkt, xlat>>
    BY <1>2 DEF vars, senderVars, jackVars
  <2>2. Whole => Whole'
    BY <2>1 DEF Whole
  <2>3. SenderInv => SenderInv'
    BY <2>1 DEF SenderInv, Level, Ahead
  <2>4. JackInv => JackInv'
    BY <2>1 DEF JackInv, SysExOpen, Between, Resumed, MessageOpen, Opened
  <2>5. Exact => Exact'
    BY <2>1 DEF Exact, PacketPerMessage, MessageExact, SysExExact, Agree, DueChannel, DueSysEx
  <2> QED BY <2>1, <2>2, <2>3, <2>4, <2>5 DEF IInv
<1> QED BY <1>1, <1>2, SenderStep, TakeStep DEF Next

LEMMA InvHolds == Spec => [](TypeInv /\ IInv)
  BY TypeInit, TypeStep, InvInit, InvStep, PTL DEF Spec

\* A packet goes out exactly when a message is complete, for every legal stream.
THEOREM NoPacketMissed == Spec => []PacketPerMessage
<1>1. TypeInv /\ IInv => PacketPerMessage
  BY DEF IInv, Exact, PacketPerMessage
<1> QED BY <1>1, InvHolds, PTL

\* The packet carries the bytes of the message; only the channel of a message whose
\* status byte was left out is lost.
THEOREM MessagesExact == Spec => []MessageExact
<1>1. TypeInv /\ IInv => MessageExact
  BY DEF IInv, Exact, MessageExact
<1> QED BY <1>1, InvHolds, PTL

\* A SysEx is cut into packets of three bytes, and the last one says how many it has.
THEOREM SysExCutExactly == Spec => []SysExExact
<1>1. TypeInv /\ IInv => SysExExact
  BY DEF IInv, Exact, SysExExact
<1> QED BY <1>1, InvHolds, PTL

\* The write index points into the packet whenever a data byte is written through it.
THEOREM WritesStayInPacket == Spec => []WritesInPacket
<1> SUFFICES ASSUME TypeInv, IInv, ~strayed, rx # None, ~IsStatus(rx), state = "bytes"
             PROVE  wi \in 0 .. 3
  BY InvHolds, PTL DEF WritesInPacket
<1>1. JackInv
  BY DEF IInv
<1> QED BY <1>1 DEF JackInv, SysExOpen, Between, Resumed, MessageOpen

-----------------------------------------------------------------------------
(* How long a byte stays.                                                  *)

LEMMA CallsType == CallsToGo \in 0 .. 2
  BY DEF CallsToGo

\* A call that keeps the byte has brought the parser to where the next one takes it.
LEMMA RunningAdvances ==
  ASSUME TypeInv, IInv, ~strayed, ~xlat, InJackRunning
  PROVE  CallsToGo = 2 /\ CallsToGo' = 1
<1>1. /\ rx \in 0 .. 127 /\ rx # None /\ ~IsStatus(rx) /\ state = "status"
      /\ rx' = rx /\ UNCHANGED <<reader, strayed>> /\ ParseStatus(rrs, pkt, wi)
  BY DEF InJackRunning, KeepByte, TypeInv, SenderTypes, IsStatus
<1>2. Ahead /\ JackInv /\ PacketPerMessage
  BY <1>1 DEF IInv, SenderInv, Exact
<1>3. Between
  BY <1>1, <1>2 DEF JackInv, SysExOpen, MessageOpen
<1>4. ~reader.sx /\ reader.msg = <<>>
  BY <1>3 DEF Between
<1>5. reader.run # 0
  <2>1. rx \in 0 .. 127 /\ Ahead /\ ~reader.sx /\ reader.msg = <<>>
    BY <1>1, <1>2, <1>4
  <2> QED BY <2>1 DEF Ahead, IsChannel, Common, QuarterFrame, SongPosition, SongSelect,
                      TuneRequest, SysExStart, SysExEnd
<1>6. PICK s \in 128 .. 239 : s = reader.run
  BY <1>3, <1>5 DEF Between
<1>7. rrs = 16 * HighNibble(s)
  BY <1>3, <1>5, <1>6 DEF Between
<1>8. PICK h \in 8 .. 14 : h = HighNibble(s)
  BY Nibbles
<1>9. rrs \in 128 .. 239 /\ rrs \in Byte
  BY <1>7, <1>8 DEF Byte
<1>10. ParseChannel(rrs, pkt)
  BY <1>1, <1>9, WhichParse
<1>11. state' = "bytes"
  BY <1>10 DEF ParseChannel, Await
<1>12. IsStatus(rx)' <=> IsStatus(rx)
  BY <1>1 DEF IsStatus
<1> QED BY <1>1, <1>11, <1>12 DEF CallsToGo

\* A call takes the head byte of a legal stream, or the next one will.
THEOREM TwoCallsPerByte == Spec => CallsCount
<1>1. ASSUME TypeInv, IInv, ~strayed, MIDI_InJackTasks PROVE CallsToGo' < CallsToGo
  <2>1. CASE InJackRunning
    <3>1. ~xlat
      BY <1>1 DEF MIDI_InJackTasks
    <3>2. CallsToGo = 2 /\ CallsToGo' = 1
      BY <1>1, <2>1, <3>1, RunningAdvances
    <3> QED BY <3>2
  <2>2. CASE InJackStatus \/ InJackSysExData \/ InJackData
    <3>1. rx # None /\ rx' = None
      BY <2>2 DEF InJackStatus, InJackSysExData, InJackData, ConsumeByte
    <3>2. CallsToGo' = 0 /\ CallsToGo \in 1 .. 2
      BY <3>1 DEF CallsToGo
    <3> QED BY <3>2
  <2> QED BY <1>1, <2>1, <2>2 DEF MIDI_InJackTasks
<1>2. TakePacket => CallsToGo' = CallsToGo
  BY DEF TakePacket, CallsToGo, IsStatus
<1>3. TypeInv /\ IInv /\ [Next]_vars =>
        (~strayed => /\ MIDI_InJackTasks => CallsToGo' < CallsToGo
                     /\ TakePacket => CallsToGo' = CallsToGo)
  BY <1>1, <1>2
<1> QED BY <1>3, InvHolds, PTL DEF Spec, CallsCount

\* Once it waits behind a status that has no data bytes the head byte blocks the ring.
THEOREM BlockedForGood == Spec => WedgedForGood
<1>1. ASSUME TypeInv, Wedged, MIDI_InJackTasks PROVE Wedged' /\ rx' = rx /\ xlat'
  <2>1. InJackRunning
    BY <1>1 DEF MIDI_InJackTasks, Wedged, InJackStatus, InJackSysExData, InJackData
  <2>2. rx' = rx /\ ParseStatus(rrs, pkt, wi)
    BY <2>1 DEF InJackRunning, KeepByte
  <2>3. PICK s \in Byte : s = rrs /\ s >= 240 /\ s # SysExStart /\ SystemBytes(s) = 0
    BY <1>1 DEF Wedged, TypeInv, JackInv0, JackTypes, Byte
  <2>4. CASE s = SysExEnd
    <3>1. ParseSysExEnd(s, pkt, wi)
      BY <2>2, <2>3, <2>4, WhichParse
    <3> QED BY <1>1, <2>2, <2>3, <3>1 DEF ParseSysExEnd, Translated, Wedged, IsStatus
  <2>5. CASE s # SysExEnd
    <3>1. ParseSystem(s, pkt, wi)
      BY <2>2, <2>3, <2>5
         DEF ParseStatus, ParseSysExStart, ParseSysExEnd, ParseChannel, ParseNothing, IsChannel,
             IsStatus, Byte
    <3> QED BY <1>1, <2>2, <2>3, <3>1 DEF ParseSystem, Translated, Wedged, IsStatus
  <2> QED BY <2>4, <2>5
<1>2. Wedged => ~Sender
  BY DEF Wedged, Sender, SendChannel, SendData, SendRunning, SendStray, SendCommon, SendSysEx,
         SendClock, Send
<1>3. ASSUME Wedged, TakePacket \/ UNCHANGED vars PROVE Wedged' /\ rx' = rx
  <2>1. UNCHANGED <<rx, state, rrs>>
    BY <1>3 DEF TakePacket, vars, jackVars
  <2> QED BY <1>3, <2>1 DEF Wedged, IsStatus
<1>4. TypeInv /\ [Next]_vars => (Wedged => Wedged' /\ rx' = rx /\ (MIDI_InJackTasks => xlat'))
  BY <1>1, <1>2, <1>3 DEF Next
<1> QED BY <1>4, InvHolds, PTL DEF Spec, WedgedForGood

\* The code index number SetCin leaves in a packet.
LEMMA CinSet ==
  ASSUME NEW p \in Packet, NEW c \in 0 .. 15
  PROVE  SetCin(p, c)[0] % 16 = c
<1>1. PICK h \in Int : h = HighNibble(p[0])
  BY DEF HighNibble, Packet, Byte
<1>2. SetCin(p, c)[0] = 16 * h + c
  BY <1>1 DEF SetCin, Packet
<1>3. (16 * h + c) % 16 = c
  OBVIOUS
<1> QED BY <1>2, <1>3

\* A pending SysEx takes the data of every message that follows it.
THEOREM PendingSwallows == Spec => SwallowedByPending
<1> DEFINE Swallowed ==
             \/ sysex' /\ (~xlat /\ xlat' /\ IsChannel(rrs') => pkt'[0] % 16 = 4)
             \/ ~sysex' /\ rrs' = SysExEnd
<1>1. ASSUME NEW s, NEW p, NEW w, TypeInv, sysex, ~xlat, ParseStatus(s, p, w)
      PROVE  Swallowed
  <2>1. CASE ParseSysExStart(s, p, w) \/ ParseChannel(s, p) \/ ParseNothing(s, p, w)
    BY <1>1, <2>1 DEF ParseSysExStart, ParseChannel, ParseNothing, Await
  <2>2. CASE ParseSysExEnd(s, p, w)
    BY <2>2 DEF ParseSysExEnd
  <2>3. CASE ParseSystem(s, p, w)
    <3>1. sysex' = sysex /\ ~IsChannel(rrs')
      BY <2>3 DEF ParseSystem, IsChannel
    <3> QED BY <1>1, <3>1
  <2> QED BY <1>1, <2>1, <2>2, <2>3 DEF ParseStatus
<1>2. ASSUME TypeInv, sysex, MIDI_InJackTasks PROVE Swallowed
  <2>1. CASE InJackStatus
    BY <1>1, <1>2, <2>1 DEF InJackStatus, MIDI_InJackTasks
  <2>2. CASE InJackRunning
    BY <1>1, <1>2, <2>2 DEF InJackRunning, MIDI_InJackTasks
  <2>3. CASE InJackSysExData
    <3>1. Poke(pkt, wi, rx) \in Packet
      <4>1. pkt \in Packet /\ wi \in -128 .. 127 /\ rx \in 0 .. 255
        BY <1>2, <2>3 DEF TypeInv, SenderTypes, JackInv0, JackTypes, InJackSysExData
      <4> QED BY <4>1, PokeType
    <3>2. /\ sysex' = sysex /\ xlat' = (xlat \/ wi = 3)
          /\ pkt' = IF wi = 3 THEN SetCin(Poke(pkt, wi, rx), 4) ELSE Poke(pkt, wi, rx)
      BY <2>3 DEF InJackSysExData
    <3>3. wi = 3 => pkt'[0] % 16 = 4
      BY <3>1, <3>2, CinSet
    <3> QED BY <1>2, <3>2, <3>3
  <2>4. CASE InJackData
    BY <1>2, <2>4 DEF InJackData
  <2> QED BY <1>2, <2>1, <2>2, <2>3, <2>4 DEF MIDI_InJackTasks
<1>3. ASSUME Sender \/ TakePacket \/ UNCHANGED vars, sysex PROVE Swallowed
  <2>1. CASE Sender \/ UNCHANGED vars
    <3>1. UNCHANGED jackVars
      BY <2>1
         DEF Sender, SendChannel, SendData, SendRunning, SendStray, SendCommon, SendSysEx,
             SendClock, Send, vars
    <3> QED BY <1>3, <3>1 DEF jackVars
  <2>2. CASE TakePacket
    BY <1>3, <2>2 DEF TakePacket
  <2> QED BY <1>3, <2>1, <2>2
<1>4. TypeInv /\ [Next]_vars => (sysex => Swallowed)
  BY <1>2, <1>3 DEF Next
<1> QED BY <1>4, InvHolds, PTL DEF Spec, SwallowedByPending

=============================================================================
