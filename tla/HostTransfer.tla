---------------------------- MODULE HostTransfer ----------------------------
(***************************************************************************)
(* Host mode, transfers: how event packets of the attached instrument get  *)
(* from its IN endpoints to the out jack.  Three parties share the state:  *)
(*                                                                         *)
(*  - the loop of main.c: USBHostTasks takes events from usbEventQueue and *)
(*    calls the MIDI client, then APP_HostMIDIBasicTasks copies what has   *)
(*    come in to the out jack (its ring is OutJack's subject) and steps    *)
(*    the transfer state of every endpoint;                                *)
(*  - the USB interrupt, which completes or retries the transaction under  *)
(*    way and looks for the next token to send.  It comes between any two  *)
(*    steps of the loop and is not interrupted by them;                    *)
(*  - the instrument, on a bus that may lose either packet of an exchange. *)
(*                                                                         *)
(* Only IN endpoints have transfers: the code that fills the buffers of    *)
(* OUT endpoints is commented out (midi_jack.c:306-340).  An interrupt or  *)
(* bulk IN transfer asks for one USB packet, so that one packet ends it.   *)
(*                                                                         *)
(* As in UartRx, a definition that nothing uses is a mutant of the one     *)
(* that follows it.                                                        *)
(***************************************************************************)
EXTENDS Naturals, Sequences, FiniteSets

CONSTANTS
  N,          \* IN endpoints of an instrument
  Kinds,      \* the instruments: functions, endpoint -> its transfer type
  Slots,      \* MIDI_USB_BUFFER_SIZE, the USB packets an endpoint's buffer holds
  Depth,      \* USB_EVENT_QUEUE_DEPTH
  Retries,    \* USB_TRANSACTION_RETRY_ATTEMPTS
  Interval,   \* wInterval of interrupt endpoints
  Ids,        \* the instrument numbers its packets modulo Ids
  Quota       \* transactions that fit into a frame, at least

ASSUME KindsAssumption ==
  /\ N \in Nat \ {0}
  /\ Kinds # {} /\ Kinds \subseteq [1 .. N -> {"bulk", "interrupt"}]
ASSUME SizeAssumption ==
  /\ Slots \in Nat \ {0, 1} /\ Ids \in Nat \ {0, 1}
  /\ Depth \in Nat \ {0} /\ Retries \in Nat \ {0} /\ Interval \in Nat \ {0}
  /\ Quota \in Nat
\* USB_EVENT_QUEUE_DEPTH is 4; an instrument has one or two IN endpoints.
ASSUME QueueAssumption == N <= Depth

VARIABLES
  attached,   \* usbHostState is STATE_RUNNING and midiState DEVICE_READY
  unplugged,  \* usbOverrideHostState is STATE_DETACHED
  queue,      \* usbEventQueue
  \* USB_ENDPOINT_INFO of the host layer:
  kind,       \* bmAttributes.bfTransferType
  xfer,       \* transferState: "idle", "data", "complete" or "error"
  complete,   \* status.bfTransferComplete
  failed,     \* status.bfError or status.bfStalled
  errors,     \* status.bfErrorCount, as far as Retries
  nakd,       \* status.bfLastTransferNAKd
  interval,   \* wIntervalCount
  toggle,     \* status.bfNextDATA01
  \* usbBusInfo and the interrupt handler:
  current,    \* pCurrentEndpoint
  token,      \* bfTokenAlreadyWritten
  intDone,    \* bfInterruptTransfersDone
  bulkDone,   \* bfBulkTransfersDone
  last,       \* lastBulkTransaction
  isr,        \* where _USB_FindNextToken is: "off", "interrupt" or "bulk"
  spent,      \* transactions of this frame, as far as Quota
  \* client and application:
  busy,       \* MIDI_ENDPOINT_DATA.busy
  phase,      \* TransferState: "read" (RX_DATA) or "wait" (RX_DATA_WAIT)
  buf,        \* the endpoint's buffer, a USB packet per slot
  wr, rd,     \* pBufWriteLocation and pBufReadLocation as slots
  pc, at,     \* where the loop is, and at which endpoint
  \* the instrument, and what the out jack has been given:
  next,       \* the packet it has to send
  devToggle,  \* its data toggle
  heard,      \* history: the packet the out jack expects
  garbled     \* history: it was given another one

hcdVars    == <<kind, xfer, complete, failed, errors, nakd, interval, toggle>>
busVars    == <<current, token, intDone, bulkDone, last, isr, spent>>
appVars    == <<busy, phase, buf, wr, rd>>
mainVars   == <<pc, at>>
deviceVars == <<next, devToggle>>
jackVars   == <<heard, garbled>>
vars == <<attached, unplugged, queue, hcdVars, busVars, appVars, mainVars, deviceVars, jackVars>>

Endpoint == 1 .. N
Slot     == 0 .. Slots - 1
Packet   == 0 .. Ids - 1
Empty    == Ids            \* a slot that was cleared by memset
Event    == [event : {"transfer", "bus error"}, endpoint : Endpoint]

All(v)    == [e \in Endpoint |-> v]
After(s)  == (s + 1) % Slots
Follow(p) == (p + 1) % Ids

Init ==
  /\ attached = FALSE /\ unplugged = FALSE /\ queue = <<>>
  /\ kind \in Kinds /\ xfer = All("idle") /\ complete = All(TRUE) /\ failed = All(FALSE)
  /\ errors = All(0) /\ nakd = All(FALSE) /\ interval = All(Interval) /\ toggle = All(0)
  /\ current = 1 /\ token = FALSE /\ intDone = FALSE /\ bulkDone = FALSE /\ last = 0
  /\ isr = "off" /\ spent = 0
  /\ busy = All(FALSE) /\ phase = All("read")
  /\ buf = All([s \in Slot |-> Empty]) /\ wr = All(0) /\ rd = All(0)
  /\ pc = "events" /\ at = 1
  /\ next = All(0) /\ devToggle = All(0) /\ heard = All(0) /\ garbled = FALSE

-----------------------------------------------------------------------------
(* USBHostTasks, in the loop of main.c.                                    *)

\* Look at the oldest event and call the client: USBHostMIDIEventHandler clears
\* the busy flag on EVENT_TRANSFER and does nothing on EVENT_BUS_ERROR.
NotifyClients ==
  /\ pc = "events" /\ queue # <<>>
  /\ busy' = [busy EXCEPT ![Head(queue).endpoint] =
                @ /\ Head(queue).event # "transfer"]
  /\ pc' = "remove"
  /\ UNCHANGED <<attached, unplugged, queue, hcdVars, busVars, phase, buf, wr, rd, at,
                 deviceVars, jackVars>>

\* U1IE is 0 meanwhile, so that the interrupt does not add an event.
RemoveAllEvents ==
  /\ pc = "remove"
  /\ queue' = <<>>
  /\ pc' = "events"
  /\ UNCHANGED <<attached, unplugged, hcdVars, busVars, appVars, at, deviceVars, jackVars>>

RemoveEvent ==
  /\ pc = "remove"
  /\ queue' = Tail(queue)
  /\ pc' = "events"
  /\ UNCHANGED <<attached, unplugged, hcdVars, busVars, appVars, at, deviceVars, jackVars>>

\* USBHostMIDIInit, the application's EVENT_MIDI_ATTACH and, before them, the
\* new USB_ENDPOINT_INFO nodes; on the other side the instrument begins anew.
Restart ==
  /\ unplugged' = FALSE /\ queue' = <<>>
  /\ xfer' = All("idle") /\ complete' = All(TRUE) /\ failed' = All(FALSE)
  /\ errors' = All(0) /\ nakd' = All(FALSE) /\ interval' = All(Interval) /\ toggle' = All(0)
  /\ current' = 1 /\ token' = FALSE /\ intDone' = FALSE /\ bulkDone' = FALSE /\ last' = 0
  /\ isr' = "off" /\ spent' = 0
  /\ busy' = All(FALSE) /\ phase' = All("read")
  /\ buf' = All([s \in Slot |-> Empty]) /\ wr' = All(0) /\ rd' = All(0)
  /\ next' = All(0) /\ devToggle' = All(0) /\ heard' = All(0)
  /\ at' = 1 /\ UNCHANGED garbled

\* usbOverrideHostState is taken over: USBHostShutdown powers the module down and
\* notifies the client, which frees the device and reports EVENT_MIDI_DETACH; the
\* application frees its buffers and main.c:185 resets the processor.
Shutdown ==
  /\ pc = "events" /\ queue = <<>> /\ unplugged
  /\ attached' = FALSE
  /\ Restart
  /\ UNCHANGED <<pc, kind>>

\* An instrument has been enumerated and configured.
Attach ==
  /\ pc = "events" /\ ~attached
  /\ attached' = TRUE /\ pc' = "jack"
  /\ kind' \in Kinds
  /\ Restart

Running ==
  /\ pc = "events" /\ queue = <<>> /\ ~unplugged /\ attached
  /\ pc' = "jack"
  /\ UNCHANGED <<attached, unplugged, queue, hcdVars, busVars, appVars, at, deviceVars, jackVars>>

USBHostTasks == NotifyClients \/ RemoveEvent \/ Shutdown \/ Attach \/ Running

-----------------------------------------------------------------------------
(* APP_HostMIDIBasicTasks.                                                 *)

\* The read pointer's next slot.
NextReadForgotten(s) == s

NextRead(s) == After(s)

\* MIDI_Host_OutJackTasks: every endpoint whose pointers differ gives the packet
\* at its read pointer to the out jack; a cleared slot is skipped.
MIDI_Host_OutJackTasks ==
  LET unread(e) == rd[e] # wr[e]
      packet(e) == buf[e][rd[e]]
      given(e)  == unread(e) /\ packet(e) # Empty
  IN  /\ pc = "jack"
      /\ rd' = [e \in Endpoint |-> IF unread(e) THEN NextRead(rd[e]) ELSE rd[e]]
      /\ heard' = [e \in Endpoint |-> IF given(e) THEN Follow(packet(e)) ELSE heard[e]]
      /\ garbled' = (garbled \/ \E e \in Endpoint : given(e) /\ packet(e) # heard[e])
      /\ pc' = "app"
      /\ UNCHANGED <<attached, unplugged, queue, hcdVars, busVars, busy, phase, buf, wr, at,
                     deviceVars>>

\* The next endpoint, or the next pass of the loop.
AdvanceTooFar ==
  /\ pc' = IF at > N THEN "events" ELSE "app"
  /\ at' = IF at > N THEN 1 ELSE at + 1

Advance ==
  /\ pc' = IF at = N THEN "events" ELSE "app"
  /\ at' = IF at = N THEN 1 ELSE at + 1

\* What USBHostRead asks of an endpoint.
Readable(e) == kind[e] # "control" /\ ~failed[e] /\ complete[e]

\* _USB_InitRead: the transfer is under way as soon as bfTransferComplete is
\* cleared, which is the last thing done.
InitRead(e) ==
  /\ xfer' = [xfer EXCEPT ![e] = "data"]
  /\ complete' = [complete EXCEPT ![e] = FALSE]
  /\ errors' = [errors EXCEPT ![e] = 0]
  /\ nakd' = [nakd EXCEPT ![e] = FALSE]

\* RX_DATA: clear the slot, start the read.  USBHostMIDIRead sets the busy flag
\* when USBHostRead has returned, a step later.
ReadData ==
  /\ pc = "app" /\ phase[at] = "read"
  /\ buf' = [buf EXCEPT ![at][wr[at]] = Empty]
  /\ IF Readable(at)
     THEN InitRead(at) /\ pc' = "busy" /\ UNCHANGED at
     ELSE Advance /\ UNCHANGED <<xfer, complete, errors, nakd>>
  /\ UNCHANGED <<attached, unplugged, queue, kind, failed, interval, toggle, busVars, busy, phase,
                 wr, rd, deviceVars, jackVars>>

SetBusy ==
  /\ pc = "busy"
  /\ busy' = [busy EXCEPT ![at] = TRUE]
  /\ phase' = [phase EXCEPT ![at] = "wait"]
  /\ Advance
  /\ UNCHANGED <<attached, unplugged, queue, hcdVars, busVars, buf, wr, rd, deviceVars, jackVars>>

\* RX_DATA_WAIT: when the transfer is over, on to the next slot.
WaitData ==
  /\ pc = "app" /\ phase[at] = "wait"
  /\ IF busy[at]
     THEN UNCHANGED <<phase, wr>>
     ELSE /\ phase' = [phase EXCEPT ![at] = "read"]
          /\ wr' = [wr EXCEPT ![at] = After(@)]
  /\ Advance
  /\ UNCHANGED <<attached, unplugged, queue, hcdVars, busVars, busy, buf, rd, deviceVars, jackVars>>

APP_HostMIDIBasicTasks == MIDI_Host_OutJackTasks \/ ReadData \/ SetBusy \/ WaitData

\* The loop runs when no interrupt handler does.
MainLoop == isr = "off" /\ (USBHostTasks \/ APP_HostMIDIBasicTasks)

-----------------------------------------------------------------------------
(* USB_HostInterruptHandler.                                               *)

\* The frame or the transaction is over: look for the next token, unless one is
\* already written.
Find == isr' = "interrupt"

\* The transaction under way has failed: n times bfErrorCount++.
CountError(e, n) ==
  /\ IF errors[e] + n >= Retries
     THEN /\ errors' = [errors EXCEPT ![e] = Retries]
          /\ failed' = [failed EXCEPT ![e] = TRUE]
          /\ xfer' = [xfer EXCEPT ![e] = "error"]
     ELSE /\ errors' = [errors EXCEPT ![e] = @ + n]
          /\ UNCHANGED <<failed, xfer>>

Answered ==
  /\ token /\ isr = "off" /\ attached
  /\ token' = FALSE
  /\ spent' = IF spent < Quota THEN spent + 1 ELSE spent
  /\ UNCHANGED <<attached, unplugged, queue, kind, complete, interval, current, intDone, bulkDone,
                 last, busy, phase, wr, rd, pc, at, jackVars>>

\* NAK: an interrupt IN transfer ends with what it has (nothing), a bulk transfer
\* is tried again in the next frame.
Nak(e) ==
  /\ Answered /\ ~unplugged /\ Find
  /\ nakd' = [nakd EXCEPT ![e] = TRUE]
  /\ xfer' = IF kind[e] = "interrupt" THEN [xfer EXCEPT ![e] = "complete"] ELSE xfer
  /\ UNCHANGED <<failed, errors, toggle, buf, deviceVars>>

Stall(e) ==
  /\ Answered /\ ~unplugged /\ Find
  /\ failed' = [failed EXCEPT ![e] = TRUE]
  /\ xfer' = [xfer EXCEPT ![e] = "error"]
  /\ UNCHANGED <<errors, nakd, toggle, buf, deviceVars>>

\* The instrument's half of an exchange: it sends its packet and, if the
\* acknowledgement reaches it, is done with that packet.
DeviceSent(e, acked) ==
  IF acked
  THEN /\ next' = [next EXCEPT ![e] = Follow(@)]
       /\ devToggle' = [devToggle EXCEPT ![e] = 1 - @]
  ELSE UNCHANGED deviceVars

\* A data packet with the expected toggle: it is in the buffer, the transfer ends.
ReceiveNoToggle(e) ==
  /\ buf' = [buf EXCEPT ![e][wr[e]] = next[e]]
  /\ xfer' = [xfer EXCEPT ![e] = "complete"]
  /\ UNCHANGED <<toggle, failed, errors>>

Receive(e) ==
  /\ buf' = [buf EXCEPT ![e][wr[e]] = next[e]]
  /\ toggle' = [toggle EXCEPT ![e] = 1 - @]
  /\ xfer' = [xfer EXCEPT ![e] = "complete"]
  /\ UNCHANGED <<failed, errors>>

\* The wrong toggle: the module acknowledges the packet, drops it and reports
\* PID 0x0F, which counts as an error (see the NOTE in the code).
Data(e, acked) ==
  /\ Answered /\ ~unplugged /\ Find
  /\ IF devToggle[e] = toggle[e]
     THEN Receive(e)
     ELSE CountError(e, 1) /\ UNCHANGED <<toggle, buf>>
  /\ DeviceSent(e, acked)
  /\ UNCHANGED nakd

\* No answer, or one with an illegal PID, in a completed transaction.  When the
\* error interrupt comes with it, that is served first and the completion in a
\* second pass of the handler: the error counts twice.
BadPid(e) ==
  /\ Answered /\ Find
  /\ \E n \in 1 .. 2 : CountError(e, n)
  /\ UNCHANGED <<nakd, toggle, buf, deviceVars>>

\* The error interrupt (UERRIF) alone: it does not look for the next token.
BusError(e) ==
  /\ Answered /\ UNCHANGED isr
  /\ CountError(e, 1)
  /\ UNCHANGED <<nakd, toggle, buf, deviceVars>>

Transaction ==
  \/ Nak(current) \/ Stall(current) \/ BadPid(current) \/ BusError(current)
  \/ \E acked \in BOOLEAN : Data(current, acked)

\* Endpoints that were NAKed are asked again in a new frame.
KeepNaks == UNCHANGED nakd

ForgetNaks == nakd' = All(FALSE)

\* Start of frame.  A frame has room for Quota transactions.
StartOfFrame ==
  /\ isr = "off" /\ attached
  /\ token => spent = Quota
  /\ interval' = [e \in Endpoint |->
       IF kind[e] = "interrupt" /\ interval[e] # 0 THEN interval[e] - 1 ELSE interval[e]]
  /\ ForgetNaks
  /\ intDone' = FALSE /\ bulkDone' = FALSE /\ last' = 0 /\ spent' = 0
  /\ isr' = IF token THEN "off" ELSE "interrupt"
  /\ UNCHANGED <<attached, unplugged, queue, kind, xfer, complete, failed, errors, toggle,
                 current, token, appVars, mainVars, deviceVars, jackVars>>

\* The detach interrupt.
Detach ==
  /\ isr = "off" /\ attached /\ ~unplugged
  /\ unplugged' = TRUE
  /\ UNCHANGED <<attached, queue, hcdVars, busVars, appVars, mainVars, deviceVars, jackVars>>

-----------------------------------------------------------------------------
(* _USB_FindNextToken, one endpoint per step.  Endpoints are in the list in *)
(* reverse order, as every new one is put in front.                        *)

\* The endpoint that _USB_FindServiceEndpoint reaches as the k-th of S.
Rank(S, e) == Cardinality({f \in S : f >= e})

\* _USB_SetBDT and _USB_SendToken.
SendToken(e) ==
  /\ token' = TRUE
  /\ isr' = "off"
  /\ UNCHANGED <<kind, xfer, complete, queue>>

\* TSUBSTATE_..._COMPLETE and TSUBSTATE_ERROR: the transfer is over and an event
\* is queued, if there is room; if not, the endpoint's attributes are overwritten
\* with USB_EVENT_QUEUE_FULL (8, whose transfer type is control).
FinishIn(e, depth, done) ==
  /\ xfer' = [xfer EXCEPT ![e] = "idle"]
  /\ complete' = [complete EXCEPT ![e] = done]
  /\ IF Len(queue) < depth
     THEN /\ queue' = Append(queue,
                        [event    |-> IF xfer[e] = "error" THEN "bus error" ELSE "transfer",
                         endpoint |-> e])
          /\ UNCHANGED kind
     ELSE kind' = [kind EXCEPT ![e] = "control"] /\ UNCHANGED queue
  /\ UNCHANGED token

FinishShort(e) == FinishIn(e, Depth - 1, TRUE)

FinishUnmarked(e) == FinishIn(e, Depth, xfer[e] # "error")

Finish(e) == FinishIn(e, Depth, TRUE)

\* Interrupt endpoints with a transfer whose interval is over.
InterruptDue == {e \in Endpoint : kind[e] = "interrupt" /\ ~complete[e] /\ interval[e] = 0}

\* Endpoints without a transfer that are passed on the way to e begin a new
\* interval when theirs is over.
NewInterval(e) ==
  [f \in Endpoint |->
     IF kind[f] = "interrupt" /\ complete[f] /\ interval[f] = 0 /\ f > e
     THEN Interval ELSE interval[f]]

FindInterrupt ==
  /\ isr = "interrupt" /\ ~intDone
  /\ \E e \in InterruptDue :
       /\ Rank(InterruptDue, e) = 1
       /\ current' = e
       /\ IF xfer[e] = "data"
          THEN SendToken(e) /\ interval' = NewInterval(e)
          ELSE Finish(e) /\ UNCHANGED isr /\ interval' = [NewInterval(e) EXCEPT ![e] = Interval]
  /\ UNCHANGED <<attached, unplugged, failed, errors, nakd, toggle, intDone, bulkDone, last, spent,
                 appVars, mainVars, deviceVars, jackVars>>

NoInterrupt ==
  /\ isr = "interrupt"
  /\ intDone \/ InterruptDue = {}
  /\ intDone' = TRUE
  /\ interval' = IF intDone THEN interval ELSE NewInterval(0)
  /\ isr' = "bulk"
  /\ UNCHANGED <<attached, unplugged, queue, kind, xfer, complete, failed, errors, nakd, toggle,
                 current, token, bulkDone, last, spent, appVars, mainVars, deviceVars, jackVars>>

\* Bulk endpoints with a transfer that were not NAKed in this frame.
BulkDue == {e \in Endpoint : kind[e] = "bulk" /\ ~complete[e] /\ ~nakd[e]}

\* The turn of a bulk endpoint: the one after the last served, the first after
\* all have been.
MyTurn(e) == Rank(BulkDue, e) = IF last < Cardinality(BulkDue) THEN last + 1 ELSE 1

FindBulk ==
  /\ isr = "bulk" /\ ~bulkDone
  /\ \E e \in BulkDue :
       /\ MyTurn(e)
       /\ current' = e
       /\ IF xfer[e] = "data"
          THEN SendToken(e) /\ last' = Rank(BulkDue, e)
          ELSE Finish(e) /\ last' = 0 /\ UNCHANGED isr
  /\ UNCHANGED <<attached, unplugged, failed, errors, nakd, interval, toggle, intDone, bulkDone,
                 spent, appVars, mainVars, deviceVars, jackVars>>

NoBulk ==
  /\ isr = "bulk"
  /\ bulkDone \/ BulkDue = {}
  /\ bulkDone' = TRUE
  /\ isr' = "off"
  /\ UNCHANGED <<attached, unplugged, queue, hcdVars, current, token, intDone, last, spent,
                 appVars, mainVars, deviceVars, jackVars>>

FindNextToken == FindInterrupt \/ NoInterrupt \/ FindBulk \/ NoBulk

Next == MainLoop \/ Transaction \/ StartOfFrame \/ Detach \/ FindNextToken

Spec == Init /\ [][Next]_vars

\* The processor does not stop, neither does the frame clock, and every token is
\* answered or times out.  Interrupts hold the loop up but do not stop it.
LiveSpec ==
  /\ Spec
  /\ SF_vars(MainLoop)
  /\ WF_vars(FindNextToken)
  /\ WF_vars(Transaction)
  /\ WF_vars(StartOfFrame)

-----------------------------------------------------------------------------
(* Properties.                                                             *)

EventTypes ==
  /\ attached \in BOOLEAN /\ unplugged \in BOOLEAN
  /\ queue \in Seq(Event) /\ Len(queue) <= Depth

HcdTypes ==
  /\ kind \in [Endpoint -> {"bulk", "interrupt", "control"}]
  /\ xfer \in [Endpoint -> {"idle", "data", "complete", "error"}]
  /\ complete \in [Endpoint -> BOOLEAN] /\ failed \in [Endpoint -> BOOLEAN]
  /\ errors \in [Endpoint -> 0 .. Retries]
  /\ nakd \in [Endpoint -> BOOLEAN]
  /\ interval \in [Endpoint -> 0 .. Interval]
  /\ toggle \in [Endpoint -> 0 .. 1]

BusTypes ==
  /\ current \in Endpoint /\ token \in BOOLEAN
  /\ intDone \in BOOLEAN /\ bulkDone \in BOOLEAN
  /\ last \in 0 .. N
  /\ isr \in {"off", "interrupt", "bulk"}
  /\ spent \in 0 .. Quota

AppTypes ==
  /\ busy \in [Endpoint -> BOOLEAN] /\ phase \in [Endpoint -> {"read", "wait"}]
  /\ buf \in [Endpoint -> [Slot -> Packet \cup {Empty}]]
  /\ wr \in [Endpoint -> Slot] /\ rd \in [Endpoint -> Slot]

MainTypes == pc \in {"events", "remove", "jack", "app", "busy"} /\ at \in Endpoint

PacketTypes ==
  /\ next \in [Endpoint -> Packet] /\ devToggle \in [Endpoint -> 0 .. 1]
  /\ heard \in [Endpoint -> Packet] /\ garbled \in BOOLEAN

\* Every variable has its type; in particular the event queue is never longer than
\* USB_EVENT_QUEUE_DEPTH and the loop never looks at an endpoint that is not there.
TypeOK == EventTypes /\ HcdTypes /\ BusTypes /\ AppTypes /\ MainTypes /\ PacketTypes

\* An event of endpoint e is in the queue.
Queued(e) == \E i \in 1 .. Len(queue) : queue[i].endpoint = e

\* However the interrupt and the loop interleave, an endpoint has at most one
\* event in the queue, and while it has, no transfer is under way: the next read
\* waits until the event has been seen.  Hence a queue with a place for every
\* endpoint never loses an event.
OneEventEach ==
  \A i \in 1 .. Len(queue) :
    /\ complete[queue[i].endpoint]
    /\ \A j \in 1 .. Len(queue) : queue[j].endpoint = queue[i].endpoint => i = j

\* An endpoint the application waits for has a transfer under way or an event in
\* the queue: nothing is ever lost between interrupt and loop.  The exception is
\* an endpoint that has failed.  usb_host_midi.c:552 says that busy means "The
\* device is receiving data", but EVENT_BUS_ERROR does not clear busy and nobody
\* clears the error: the endpoint is dead until the instrument is plugged in anew.
WaitExplained ==
  \A e \in Endpoint :
    phase[e] = "wait" /\ busy[e] => ~complete[e] \/ Queued(e) \/ failed[e]

\* The slot a transfer writes to is never one the out jack has yet to read: the
\* loop copies a packet before it starts the read after the next.
SlotFree ==
  \A e \in Endpoint : wr[e] = rd[e] \/ wr[e] = After(rd[e])

\* An endpoint that is waited for and has failed, with nothing in the queue but
\* the event that says so.
Dead(e) ==
  /\ phase[e] = "wait" /\ busy[e] /\ complete[e] /\ failed[e]
  /\ \A i \in 1 .. Len(queue) : queue[i].endpoint = e => queue[i].event = "bus error"

\* Nothing the loop, the interrupt or the instrument does brings such an endpoint
\* back; only pulling the cable does.
DeadForGood ==
  [][\A e \in Endpoint : Dead(e) /\ attached /\ ~unplugged => Dead(e)']_vars

\* _USB_FindNextToken, left with an endpoint to be served, finds exactly one: the
\* turns of the bulk endpoints neither pass the end of the list nor coincide,
\* although endpoints leave the round (NAK, transfer done) and join it in between.
OneFound ==
  /\ isr = "interrupt" /\ ~intDone /\ InterruptDue # {} =>
       \E e \in InterruptDue :
         \A f \in InterruptDue : Rank(InterruptDue, f) = 1 <=> f = e
  /\ isr = "bulk" /\ ~bulkDone /\ BulkDue # {} =>
       \E e \in BulkDue : \A f \in BulkDue : MyTurn(f) <=> f = e

\* Steps the handler has left at most: the transfers it may still end, and one for
\* each of the two passes over the list.
Unfinished == {e \in Endpoint : ~complete[e]}
StepsLeft  ==
  IF isr = "off" THEN 0
  ELSE Cardinality(Unfinished) + IF isr = "bulk" THEN 1 ELSE 2

\* The search for the next token ends after N + 2 steps, whatever it finds: the
\* while loop of the handler (usb_host.c) cannot hold the main loop up for ever.
SearchEnds == [][isr # "off" => StepsLeft' < StepsLeft /\ StepsLeft <= N + 2]_vars

\* On a bus that may lose a packet or its acknowledgement the out jack is given
\* every packet of the instrument once and in order, as long as it is attached.
InOrder == ~garbled

-----------------------------------------------------------------------------
(* Refinement: every endpoint has a link of its own to the out jack.       *)

\* The transfer of e reads, or has read, into the slot at the write pointer.
Live(e) == phase[e] = "wait" \/ (pc = "busy" /\ at = e)

\* Packets on their way to the out jack: in the slot that waits to be read, and in
\* the slot of the transfer.
First(e)  == IF rd[e] # wr[e] THEN buf[e][rd[e]] ELSE Empty
Second(e) == IF Live(e) THEN buf[e][wr[e]] ELSE Empty

\* The packet the host takes for a new one: when the toggles differ it has the
\* instrument's packet and the acknowledgement was lost.
Expected(e) == IF toggle[e] = devToggle[e] THEN next[e] ELSE Follow(next[e])

InSlot(p) == IF p = Empty THEN <<>> ELSE <<p>>
Way(e)    == InSlot(First(e)) \o InSlot(Second(e))

Link(e) == INSTANCE PacketLink
             WITH way <- Way(e), due <- Expected(e), heard <- heard[e], Room <- 2

\* Every endpoint keeps the promise of PacketLink, with two packets under way at
\* most, one in each of two slots: more slots than two buy nothing.
LinksKept ==
  /\ \A e \in Endpoint : Link(e)!Init
  /\ [][\A e \in Endpoint : Link(e)!Next \/ UNCHANGED Link(e)!vars]_vars

\* Packets the instrument is done with and the out jack has not been given.  When
\* the last acknowledgement was lost the jack is one ahead of the instrument.
Behind(e) == LET n == (Ids + next[e] - heard[e]) % Ids IN IF n = Ids - 1 THEN 0 ELSE n

\* A packet the instrument is done with reaches the out jack, whatever happens on
\* the bus after that, unless the cable is pulled.
EachHeard ==
  \A e \in Endpoint, p \in Packet :
    (next[e] = p /\ Behind(e) > 0) ~> (heard[e] = p \/ unplugged)

\* Every read is served: whatever the other endpoints do and however often this
\* one answers NAK, again and again it gets a token or has nothing to ask for.
Served ==
  \A e \in Endpoint : []<>((token /\ current = e) \/ complete[e])
=============================================================================
