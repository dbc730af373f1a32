------------------------------ MODULE DeviceApp ------------------------------
(***************************************************************************)
(* The main loop once the converter has been configured as a USB device:   *)
(* forever USBDeviceTasks, then APP_DeviceAudioMIDITasks, which            *)
(*                                                                         *)
(*  - lets MIDI_InJackTasks look at one byte of the receive ring and hands *)
(*    a finished packet to endpoint 1 IN, zero-copy, without asking        *)
(*    whether the previous hand-over has been sent (the handle it gets is  *)
(*    never read, and left out here);                                      *)
(*  - when the host has filled the OUT buffer, plays all its bytes on the  *)
(*    UART before it returns (sendMessage waits for the transmitter),      *)
(*    clears the buffer and re-arms the endpoint.                          *)
(*                                                                         *)
(* The host may reset the bus or select a configuration at any time.  A    *)
(* suspended bus is a host that neither fetches nor sends: the application *)
(* goes on, as its test of USBIsDeviceSuspended() reads the USUSPEND bit,  *)
(* which the firmware never sets.  Endpoint 0 is not modelled except for    *)
(* the two requests below; a host that halts endpoint 1 (SET_FEATURE or    *)
(* CLEAR_FEATURE of ENDPOINT_HALT, for which the stack moves its pointer   *)
(* and drops pending packets) is outside this model.                       *)
(*                                                                         *)
(* InJack says what the packets are; here a packet is the number of its    *)
(* message and how many of its bytes are in place.  UartRx says what the   *)
(* ring does; here it is the number of bytes in it.  Time is counted in    *)
(* UART frames (320 us), the same for both directions of the cable.        *)
(*                                                                         *)
(* As in UartRx, a definition that nothing uses is a mutant of the one     *)
(* that follows it.                                                        *)
(***************************************************************************)
EXTENDS Integers

CONSTANTS
  N,            \* MIDI_UART_BUFFER_SIZE, slots of the receive ring
  OutSlots,     \* messages the OUT buffer has room for (16)
  Cins,         \* code index numbers the host uses
  MsgBytes,     \* bytes of a message with its status byte
  Ids,          \* messages are numbered 0 .. Ids - 1, round and round
  Passes        \* passes of the main loop within a frame, when it never waits

ASSUME CountAssumption ==
  /\ N \in Nat \ {0} /\ OutSlots \in Nat \ {0} /\ MsgBytes \in Nat \ {0, 1}
  /\ Ids \in Nat \ {0} /\ Passes \in Nat \ {0}
ASSUME CinAssumption == Cins \subseteq 2 .. 15

VARIABLES
  pc,         \* where the loop is: "usb", "in", "out", "play" or "send"
  configured, \* USBGetDeviceState() is CONFIGURED_STATE
  ring,       \* bytes in the receive ring; N + 1: it has been overrun
  buf,        \* UARTTranslatedToUSB: message and number of its bytes in place
  bd,         \* the even and odd IN buffer descriptor: message or Free
  nextBd,     \* pBDTEntryIn[1]: the descriptor the next hand-over takes
  sieBd,      \* the descriptor the USB hardware looks at
  wire,       \* the packet the host fetched last: its message, was it whole
  dropped,    \* history: a pending packet was dropped since that fetch
  taken,      \* history: a hand-over took a descriptor that was still pending
  outArmed,   \* the OUT descriptor belongs to the hardware
  out,        \* ReceivedDataBuffer: a code index number per message, Zero: none
  new,        \* history: messages of the OUT packet received last
  stale,      \* history: a packet was received and never played
  at,         \* pTxBufReadLocation as the number of a message
  left,       \* bytes of that message still to be sent
  txBusy,     \* the UART transmitter is shifting (TRMT = 0)
  passed,     \* passes since the last frame boundary, up to Passes
  considerate \* host and sender send when it does no harm (HostFill, Frame, Deconfigure)

inVars   == <<buf, bd, nextBd, sieBd, wire, dropped, taken>>
outVars  == <<outArmed, out, new, stale, at, left>>
vars     == <<pc, configured, ring, inVars, outVars, txBusy, passed, considerate>>

Free == -1
Zero == 0
Bds  == {0, 1}
OutSlot == 1 .. OutSlots
Message == 0 .. Ids - 1
Whole(m) == [msg |-> m, n |-> MsgBytes]
Empty    == [s \in OutSlot |-> Zero]
Cleared  == [i \in Bds |-> Free]

\* APP_DeviceAudioMIDIInitialize has run, for the first time.  (What else it
\* sets belongs to a translator of its own that is commented out.)
Init ==
  /\ pc = "usb" /\ configured = TRUE
  /\ ring = 0
  /\ buf = Whole(Ids - 1)
  /\ bd = Cleared
  /\ nextBd = 0 /\ sieBd = 0
  /\ wire = [msg |-> Ids - 1, whole |-> TRUE] /\ dropped = FALSE /\ taken = FALSE
  /\ outArmed = TRUE /\ out = Empty /\ new = 0 /\ stale = FALSE /\ at = 1 /\ left = 0
  /\ txBusy = FALSE
  /\ passed = 0
  /\ considerate \in BOOLEAN

-----------------------------------------------------------------------------
(* USBDeviceTasks.                                                         *)

USBDeviceTasks ==
  /\ pc = "usb"
  /\ pc' = "in"
  /\ UNCHANGED <<configured, ring, inVars, outVars, txBusy, passed, considerate>>

\* Descriptors and ping-pong pointers after a new configuration.
ClearEvenOnly    == bd' = [bd EXCEPT ![0] = Free]
ClearDescriptors == bd' = Cleared

ResetHardwareOnly == UNCHANGED nextBd /\ sieBd' = 0
ResetPingPong     == nextBd' = 0 /\ sieBd' = 0

\* Packets under way in either direction are lost, for good or to be played
\* with a later one; the receive ring and the half translated packet stay.
Interrupted ==
  /\ pc = "usb"
  /\ pc' = "in"
  /\ dropped' = (dropped \/ \E i \in Bds : bd[i] # Free)
  /\ stale' = (stale \/ out # Empty)
  /\ UNCHANGED <<ring, buf, wire, out, at, left, txBusy, passed, considerate>>

\* The host selects the configuration (again): USBStdSetCfgHandler clears all
\* descriptors and resets both ping-pong pointers, APP_DeviceAudioMIDIInitialize
\* arms the OUT endpoint, whose buffer it does not clear.
SetConfiguration ==
  /\ Interrupted
  /\ configured' = TRUE
  /\ ClearDescriptors /\ ResetPingPong
  /\ taken' = FALSE
  /\ outArmed' = TRUE /\ new' = 0

\* USBDeviceInit, which a bus reset calls, and the part of USBStdSetCfgHandler
\* that does not depend on the configuration: nothing is armed any more.  (A bus
\* reset also sets the stack's pointers to NULL.  The model keeps them: nobody uses
\* them before the next configuration sets them.)
Disarm ==
  /\ ClearDescriptors /\ sieBd' = 0
  /\ outArmed' = FALSE

\* The host resets the bus, or selects configuration 0 (ADDRESS_STATE): the
\* application is not called any more.  A considerate host waits until what has
\* been played is translated.
Deconfigure ==
  /\ Interrupted
  /\ considerate => ring = 0
  /\ configured' = FALSE
  /\ Disarm
  /\ UNCHANGED <<nextBd, taken, new>>

-----------------------------------------------------------------------------
(* APP_DeviceAudioMIDITasks.                                               *)

\* One pass of the loop ends.
EndPass == pc' = "usb" /\ passed' = IF passed < Passes THEN passed + 1 ELSE passed

\* Not configured: nothing to do.
Return ==
  /\ pc = "in" /\ ~configured
  /\ EndPass
  /\ UNCHANGED <<configured, ring, inVars, outVars, txBusy, considerate>>

\* USBTransferOnePacket for endpoint 1 IN: take the descriptor the pointer
\* stands on, give it to the hardware, move the pointer to the other one.  The
\* hand-over does not look at who owns the descriptor.
USBTxOnePacketNoSwap(m) ==
  /\ bd' = [bd EXCEPT ![nextBd] = m]
  /\ taken' = (taken \/ bd[nextBd] # Free) /\ dropped' = (dropped \/ bd[nextBd] # Free)
  /\ nextBd' = nextBd + 1

USBTxOnePacket(m) ==
  /\ bd' = [bd EXCEPT ![nextBd] = m]
  /\ taken' = (taken \/ bd[nextBd] # Free) /\ dropped' = (dropped \/ bd[nextBd] # Free)
  /\ nextBd' = 1 - nextBd

\* MIDI_InJackTasks writes byte n of message m and, if that was the last one,
\* APP_DeviceAudioMIDITasks hands the packet over.
TranslateEarly(m, n) ==
  /\ buf' = [msg |-> m, n |-> n]
  /\ IF n + 1 = MsgBytes THEN USBTxOnePacket(m) ELSE UNCHANGED <<bd, taken, dropped, nextBd>>

Translate(m, n) ==
  /\ buf' = [msg |-> m, n |-> n]
  /\ IF n = MsgBytes THEN USBTxOnePacket(m) ELSE UNCHANGED <<bd, taken, dropped, nextBd>>

\* What the next call of MIDI_InJackTasks writes.
NextByte ==
  IF buf.n = MsgBytes THEN [msg |-> (buf.msg + 1) % Ids, n |-> 1]
  ELSE [buf EXCEPT !.n = @ + 1]

\* The byte looked at leaves the ring (of an overrun ring nothing is said).
TakeNothing == UNCHANGED ring
TakeByte    == ring' = IF ring > N THEN ring ELSE ring - 1

InJack ==
  /\ pc = "in" /\ configured
  /\ pc' = "out"
  /\ \/ ring = 0 /\ UNCHANGED <<ring, inVars>>
     \/ /\ ring > 0
        /\ Translate(NextByte.msg, NextByte.n)
        /\ \/ TakeByte
           \/ buf.n = MsgBytes /\ UNCHANGED ring      \* running status: the byte stays
        /\ UNCHANGED <<sieBd, wire>>
  /\ UNCHANGED <<configured, outVars, txBusy, passed, considerate>>

\* USBHandleBusy(USBRxHandle): nothing from the host, the pass is over.
OutBusy ==
  /\ pc = "out" /\ outArmed
  /\ EndPass
  /\ UNCHANGED <<configured, ring, inVars, outVars, txBusy, considerate>>

\* MIDI_Device_OutJackTasks goes over all slots of the buffer, those of messages
\* the host did not send included.
OutReady ==
  /\ pc = "out" /\ ~outArmed
  /\ pc' = "play"
  /\ UNCHANGED <<configured, ring, inVars, outVars, txBusy, passed, considerate>>

\* The switch over the code index number: how many bytes are sent.  Numbers 0
\* and 1 are skipped.
Length(cin) ==
  CASE cin \in {2, 6, 12, 13} -> 2
    [] cin \in {5, 15}        -> 1
    [] cin \in 0 .. 1         -> 0
    [] OTHER                  -> 3

PlayMessage ==
  /\ pc = "play" /\ at <= OutSlots
  /\ pc' = "send" /\ left' = Length(out[at])
  /\ UNCHANGED <<configured, ring, inVars, outArmed, out, new, stale, at, txBusy, passed,
                 considerate>>

\* sendMessage: wait for TRMT, then write the next byte ...
SendByte ==
  /\ pc = "send" /\ left > 0 /\ ~txBusy
  /\ left' = left - 1
  /\ txBusy' = TRUE
  /\ UNCHANGED <<pc, configured, ring, inVars, outArmed, out, new, stale, at, passed, considerate>>

\* ... and on to the next message.
MessageSent ==
  /\ pc = "send" /\ left = 0
  /\ pc' = "play" /\ at' = at + 1
  /\ UNCHANGED <<configured, ring, inVars, outArmed, out, new, stale, left, txBusy, passed,
                 considerate>>

\* All slots have been played: clear the buffer and re-arm the endpoint.
ClearNothing == UNCHANGED out
ClearBuffer  == out' = Empty

RxOnePacket ==
  /\ pc = "play" /\ at > OutSlots /\ at' = 1
  /\ ClearBuffer /\ new' = 0 /\ stale' = FALSE
  /\ outArmed' = TRUE
  /\ EndPass
  /\ UNCHANGED <<configured, ring, inVars, left, txBusy, considerate>>

APP_DeviceAudioMIDITasks ==
  Return \/ InJack \/ OutBusy \/ OutReady \/ PlayMessage \/ SendByte \/ MessageSent \/ RxOnePacket

MainLoop == USBDeviceTasks \/ APP_DeviceAudioMIDITasks

-----------------------------------------------------------------------------
(* The host, the UART and time.                                            *)

\* An IN token: the hardware sends what UARTTranslatedToUSB holds now.
HostFetch ==
  /\ bd[sieBd] # Free
  /\ wire' = [msg |-> bd[sieBd], whole |-> buf = Whole(bd[sieBd])]
  /\ bd' = [bd EXCEPT ![sieBd] = Free]
  /\ sieBd' = 1 - sieBd
  /\ dropped' = taken
  /\ UNCHANGED <<pc, configured, ring, buf, nextBd, taken, outVars, txBusy, passed, considerate>>

\* An OUT token: the hardware fills the first k messages of ReceivedDataBuffer.
\* A considerate host sends when the receive ring is empty.
HostFill(k, p) ==
  /\ outArmed
  /\ considerate => ring = 0
  /\ outArmed' = FALSE
  /\ out' = [s \in OutSlot |-> IF s <= k THEN p[s] ELSE out[s]]
  /\ new' = k
  /\ UNCHANGED <<pc, configured, ring, inVars, stale, at, left, txBusy, passed, considerate>>

\* A frame passes: a byte may have come in, the byte going out is out.  The
\* loop is fast: it has made its passes since the last frame, unless it waits
\* for the transmitter.  A considerate sender plays to a configured device only.
Frame(received) ==
  /\ passed = Passes \/ (pc = "send" /\ left > 0 /\ txBusy)
  /\ received /\ considerate => configured
  /\ ring' = IF received /\ ring <= N THEN ring + 1 ELSE ring
  /\ txBusy' = FALSE
  /\ passed' = 0
  /\ UNCHANGED <<pc, configured, inVars, outVars, considerate>>

Environment ==
  \/ HostFetch
  \/ \E k \in 0 .. OutSlots : \E p \in [1 .. k -> Cins] : HostFill(k, p)
  \/ \E received \in BOOLEAN : Frame(received)

Next == MainLoop \/ SetConfiguration \/ Deconfigure \/ Environment

Spec == Init /\ [][Next]_vars

\* The processor and the clock never stop; nothing is asked of the host.  The loop
\* is in pc = "usb" again and again, so a configured device that is not configured
\* anew still calls USBDeviceTasks.
LiveSpec ==
  /\ Spec
  /\ WF_vars(MainLoop)
  /\ WF_vars(\E received \in BOOLEAN : Frame(received))

-----------------------------------------------------------------------------
(* Properties.                                                             *)

TypeOK ==
  /\ pc \in {"usb", "in", "out", "play", "send"} /\ configured \in BOOLEAN
  /\ ring \in 0 .. N + 1
  /\ buf \in [msg : Message, n : 1 .. MsgBytes]
  /\ bd \in [Bds -> Message \cup {Free}]
  /\ nextBd \in Bds /\ sieBd \in Bds
  /\ dropped \in BOOLEAN /\ taken \in BOOLEAN
  /\ wire \in [msg : Message, whole : BOOLEAN]
  /\ outArmed \in BOOLEAN
  /\ out \in [OutSlot -> Cins \cup {Zero}]
  /\ new \in 0 .. OutSlots /\ stale \in BOOLEAN
  /\ at \in 1 .. OutSlots + 1 /\ left \in 0 .. 3
  /\ txBusy \in BOOLEAN
  /\ passed \in 0 .. Passes
  /\ considerate \in BOOLEAN

\* The receive ring never overflows, although the loop translates one byte per
\* pass and stands still while it plays an OUT packet.
NoOverrun == considerate => ring <= N

Pending == {i \in Bds : bd[i] # Free}

\* The translator is up to date: a byte waits for it and no packet for the host, or
\* the packets that wait are the one in the buffer, whole.
UpToDate ==
  \/ ring <= 1 /\ Pending = {}
  \/ ring = 0 /\ \A i \in Pending : buf = Whole(bd[i])

\* A byte comes in while another, or a packet, still waits.
CameEarly == ring' > ring /\ (ring > 0 \/ Pending # {})

\* The zero-copy hand-over is safe as long as the host is faster than the cable: a
\* loop that is up to date remains so, whatever the host does (fetch, send, reset,
\* configure) and however the bytes are cut into calls, until a byte comes in
\* early; what is fetched meanwhile is the whole packet of the message handed
\* over.  After a byte that came in early, in particular while an OUT packet is
\* played, nothing is promised: the loop does not ask for USBHandleBusy and
\* translates the next message into the packet that waits.
WireExact ==
  [][UpToDate /\ ~CameEarly => UpToDate' /\ (HostFetch => wire'.whole)]_vars

\* The descriptor pointer of the stack and the hardware's stay in step: with
\* nothing pending they stand on the same descriptor, otherwise the hardware
\* waits on one while the next packet goes into the other.  They lose step when a
\* third packet is handed over while two are pending (StepByOvertaking).
PingPongInStep == configured /\ ~taken /\ bd = Cleared => nextBd = sieBd

\* The pointers in general: on the same descriptor with none or both pending.
InStep == nextBd = sieBd <=> (bd[0] = Free <=> bd[1] = Free)

\* Every hand-over to a descriptor that is still pending changes the step, lost or
\* found, and of what is modelled nothing else does but a new configuration: fetches
\* and resets in any order never repair what one hand-over too many has done, a
\* second one does.  (SET_FEATURE and CLEAR_FEATURE of ENDPOINT_HALT on endpoint 1
\* also set the stack's pointer to where the hardware stands; they belong to endpoint
\* 0, which is not modelled.)
StepByOvertaking ==
  [][~Deconfigure =>
       IF SetConfiguration THEN InStep'
       ELSE (InStep' <=> InStep) <=> (nextBd' = nextBd \/ bd[nextBd] = Free)]_vars

\* The host fetches every message once and in the order they were played,
\* except those that were pending when it selected the configuration again or
\* whose descriptor was taken from them.  (Those a halt of endpoint 1 drops are not
\* modelled, see StepByOvertaking.)
FetchedInOrder ==
  [][wire' # wire /\ ~dropped => wire'.msg = (wire.msg + 1) % Ids]_vars

\* A message is played once: after a short OUT packet the slots the host did not
\* fill are empty.  The exception is a packet the host sent just before it
\* selected the configuration again: it is still in the buffer and is played with
\* the next one.
NothingStale ==
  pc = "play" /\ ~stale => \A s \in OutSlot : s > new => out[s] = Zero

\* However long an OUT packet takes, the loop catches up with the input.
CatchesUp == considerate => []<>(ring = 0 \/ ~configured)
=============================================================================
