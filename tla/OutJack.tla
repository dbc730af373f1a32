------------------------------- MODULE OutJack -------------------------------
(***************************************************************************)
(* MIDI_Host_OutJackTasks of src/app_host_midi_basic.c: in host mode the   *)
(* event packets of the attached instrument are copied to MIDIOutTxBuffer, *)
(* a ring of bytes, and leave it through the UART, one step per call.      *)
(*                                                                         *)
(* A call first copies the USB packet that has come in, all of it and      *)
(* whether or not there is room, and then, if the transmitter is idle,     *)
(* works on the byte at the read pointer.  The position of the pointer     *)
(* within its group of four says what the byte is.                         *)
(*                                                                         *)
(* On the other end of the cable a MIDI receiver (MidiReader) listens.     *)
(*                                                                         *)
(* As in UartRx, a definition that nothing uses is a mutant of the one     *)
(* that follows it.                                                        *)
(***************************************************************************)
EXTENDS MidiReader, FiniteSets

CONSTANTS
  Event,    \* the event packets the instrument sends, functions 0 .. 3 -> byte
  Batch,    \* event packets that fit into one USB packet
  N,        \* MIDI_UART_BUFFER_SIZE
  W         \* number of values of the uint8_t MIDIOutByteCount

ASSUME EventAssumption == \A e \in Event : e \in [0 .. 3 -> 0 .. 255] /\ e # NoPacket
ASSUME SizeAssumption ==
  /\ Batch \in Nat \ {0}
  /\ N \in Nat \ {0} /\ W \in Nat \ {0}
  /\ \E k \in 1 .. N : N = 4 * k
  /\ \E m \in 1 .. W : W = m * N
ASSUME BatchFits == 4 * Batch <= N

VARIABLES
  usb,      \* the USB packet that has come in and was not copied: its events
  ring,     \* MIDIOutTxBuffer
  rd,       \* pTxBufReadLocation as an index
  wr,       \* pTxBufWriteLocation as an index of bytes
  count,    \* MIDIOutByteCount
  trs,      \* TxRunningStatusByte
  trmt,     \* the UART's transmitter is empty
  reader,   \* history: what the receiver has made of the bytes
  owed,     \* history: events copied that the receiver has not heard
  spoiled,  \* history: the ring was overrun (its content is then arbitrary)
  odd       \* history: not all events copied were three-byte messages, or the
            \* status byte of one was left out that no receiver remembers

ringVars == <<ring, rd, wr, count>>
vars     == <<usb, ringVars, trs, trmt, reader, owed, spoiled, odd>>

Slot == 0 .. N - 1

\* Sequences of one to Batch events.
UsbPacket == UNION {[1 .. k -> Event] : k \in 1 .. Batch}

Init ==
  /\ usb = <<>>
  /\ ring = [i \in Slot |-> 0] /\ rd = 0 /\ wr = 0 /\ count = 0
  /\ trs = 0 /\ trmt = TRUE
  /\ reader = Reader0 /\ owed = <<>> /\ spoiled = FALSE /\ odd = FALSE

-----------------------------------------------------------------------------
(* The instrument and the UART.                                            *)

\* An IN transfer is complete.  The next one is only started after the copy.
Arrive(p) ==
  /\ usb = <<>>
  /\ usb' = p
  /\ UNCHANGED <<ringVars, trs, trmt, reader, owed, spoiled, odd>>

\* The last byte has left the transmitter.
Shifted ==
  /\ ~trmt
  /\ trmt' = TRUE
  /\ UNCHANGED <<usb, ringVars, trs, reader, owed, spoiled, odd>>

-----------------------------------------------------------------------------
(* The ring after the copy of the waiting USB packet.                      *)

\* A system common or channel message that fills its packet.
ThreeByte(e) == e[0] \in {3, 8, 9, 10, 11, 14}

Copied == 4 * Len(usb)

\* The byte the copy puts at slot i, if it reaches it.
Offset(i) == (i - wr) % N
CopyRing  ==
  [i \in Slot |-> IF Offset(i) < Copied THEN usb[1 + Offset(i) \div 4][Offset(i) % 4]
                  ELSE ring[i]]

\* The write pointer after the copy, without and with the wrap-around test.
CopyWrNoWrap == wr + Copied
CopyWr       == (wr + Copied) % N

CopyCount == (count + Copied) % W

\* The receiver's account: what is due to it, and what has become of it when it
\* has heard packet p.  It is closed for good when something else is heard or
\* when the code throws events away, and nobody keeps it once the ring has been
\* overrun or a message of another length has come.
Closed == <<NoPacket>>
Debt   == IF owed = Closed THEN Closed ELSE owed \o usb
Pay(p) ==
  IF p = NoPacket \/ Debt = Closed THEN Debt
  ELSE IF Debt # <<>> /\ Head(Debt) = p THEN Tail(Debt) ELSE Closed

Account(r) ==
  IF spoiled' \/ odd' THEN reader' = Reader0 /\ owed' = Closed
  ELSE reader' = [r EXCEPT !.due = NoPacket] /\ owed' = Pay(r.due)

Hear(b)     == Account(Feed(reader, b))
HearNothing == Account(reader)

-----------------------------------------------------------------------------
(* One call of MIDI_Host_OutJackTasks.                                     *)

CanSend == CopyCount # 0 /\ trmt

\* The status byte to be sent is the one sent last.
RepeatedCommand(b) == HighNibble(b) = HighNibble(trs)
Repeated(b)        == b = trs

\* It is left out, although only a channel message sets a running status.
SystemLeftOut ==
  /\ CanSend /\ rd % 4 = 1
  /\ Repeated(CopyRing[rd]) /\ ~IsChannel(CopyRing[rd])

CopyPart ==
  /\ usb' = <<>>
  /\ ring' = CopyRing
  /\ spoiled' = (spoiled \/ count + Copied > N)
  /\ odd' = (odd \/ SystemLeftOut \/ \E i \in 1 .. Len(usb) : ~ThreeByte(usb[i]))

\* Nothing to send, or the transmitter is busy.
SendNothing ==
  /\ CopyCount = 0 \/ ~trmt
  /\ wr' = CopyWr /\ count' = CopyCount
  /\ HearNothing
  /\ UNCHANGED <<rd, trs, trmt>>

\* The byte at the read pointer is taken out and not sent.
Gobble ==
  /\ rd' = (rd + 1) % N
  /\ count' = (CopyCount - 1) % W
  /\ wr' = CopyWr
  /\ HearNothing
  /\ UNCHANGED trmt

\* The byte at the read pointer is sent.
Transmit ==
  /\ rd' = (rd + 1) % N
  /\ count' = (CopyCount - 1) % W
  /\ wr' = CopyWr
  /\ trmt' = FALSE
  /\ Hear(CopyRing[rd])

\* case 0, and the next byte is a status byte: skip the code index number.
SendCin ==
  /\ CanSend /\ rd % 4 = 0
  /\ IsStatus(CopyRing[(rd + 1) % N])
  /\ Gobble
  /\ UNCHANGED trs

\* case 0, and it is not: flush the ring.
FlushReadSideOnly ==
  /\ CanSend /\ rd % 4 = 0
  /\ ~IsStatus(CopyRing[(rd + 1) % N])
  /\ rd' = 0 /\ wr' = CopyWr /\ count' = 0
  /\ reader' = Reader0 /\ owed' = Closed
  /\ UNCHANGED <<trs, trmt>>

Flush ==
  /\ CanSend /\ rd % 4 = 0
  /\ ~IsStatus(CopyRing[(rd + 1) % N])
  /\ rd' = 0 /\ wr' = 0 /\ count' = 0
  /\ reader' = Reader0 /\ owed' = Closed
  /\ UNCHANGED <<trs, trmt>>

\* case 1: the status byte, left out when it is the one sent last.
SendStatus ==
  /\ CanSend /\ rd % 4 = 1
  /\ LET b == CopyRing[rd]
     IN  \/ Repeated(b) /\ Gobble /\ UNCHANGED trs
         \/ ~Repeated(b) /\ Transmit /\ trs' = IF b < 248 THEN b ELSE trs

\* case 2, case 3: a data byte, or the padding of a shorter message.
SendRest ==
  /\ CanSend /\ rd % 4 \in {2, 3}
  /\ Transmit
  /\ UNCHANGED trs

MIDI_Host_OutJackTasks ==
  CopyPart /\ (SendNothing \/ SendCin \/ Flush \/ SendStatus \/ SendRest)

Next == (\E p \in UsbPacket : Arrive(p)) \/ Shifted \/ MIDI_Host_OutJackTasks

Spec == Init /\ [][Next]_vars

-----------------------------------------------------------------------------
(* Properties.                                                             *)

TypeOK ==
  /\ usb \in UsbPacket \cup {<<>>}
  /\ ring \in [Slot -> 0 .. 255]
  /\ rd \in Slot /\ wr \in Slot /\ count \in 0 .. W - 1
  /\ trs \in 0 .. 255 /\ trmt \in BOOLEAN
  /\ spoiled \in BOOLEAN /\ odd \in BOOLEAN

\* Pointers and count agree, and packets always start at a multiple of four:
\* overruns and flushes never make the code take a data byte for a code index
\* number (app_host_midi_basic.c:468-473).
GroupsAligned == (rd + count) % N = wr /\ wr % 4 = 0

\* The receiver has heard the events of the instrument, and nothing else, in
\* order; when the ring is empty it has heard all of them.
Heard == owed # Closed /\ (count = 0 /\ usb = <<>> => owed = <<>>)

\* Three-byte messages are heard exactly, although repeated status bytes are
\* left out: the byte TxRunningStatusByte leaves out is the one the receiver
\* remembers.  The exception is a song position sent twice in a row: its status is
\* left out too, and the receiver, which remembers none, hears nothing.
HeardExactly == ~spoiled /\ ~odd => Heard

\* app_host_midi_basic.c:487-490: the byte after the code index number is a
\* status byte, "It always should be, unless the host sends an illegal MIDI data
\* packet".  False of the code: the second packet of a SysEx is legal and starts
\* with a data byte, and the ring is flushed.
NeverFlushed == [][MIDI_Host_OutJackTasks /\ ~spoiled' => (rd' - rd) % N \in {0, 1}]_vars
=============================================================================
