# Formal model of the MIDI converter

The firmware in `src/src/USB_Device_Host_MIDI.X` turns a PIC24FJ64GB002 into a
converter between a MIDI cable (UART2, 31250 baud) and USB MIDI. It decides by
itself whether it is a USB device (connected to a PC) or a USB host (connected
to an instrument with a USB port). These modules model its own logic, check it
with TLC on small instances and prove some of it with TLAPS. Paths below are
relative to `src/src/USB_Device_Host_MIDI.X/src` unless they say otherwise;
`usb/` is that of the same project.

## 1. Inventory

### Components, their state and their operations

| Component | State | Operations | Model |
|---|---|---|---|
| MIDI In ring (`midi_jack.c`, `system.c`) | 64 slots, read and write pointer, 8-bit count, U2RXIF, the UART's FIFO | interrupt handler, set-up, one-byte consumption | `UartRx` |
| MIDI In translator (`midi_jack.c`) | parser state, saved status, expected bytes, write index, SysEx flag, packet | `MIDI_InJackTasks` | `InJack` |
| Device application (`app_device_midi_basic.c`) | transfer handles, OUT buffer, play position | `APP_DeviceAudioMIDITasks`, `APP_DeviceAudioMIDIInitialize`, `MIDI_Device_OutJackTasks`, `sendMessage` | `DeviceApp` |
| USB device stack (`usb/src/usb_device.c`) | state, buffer descriptors, ping-pong pointers | tasks, transfer, standard requests | `DeviceApp` (descriptors, reset, configuration) |
| Host out jack (`app_host_midi_basic.c`) | ring of 64 bytes, pointers, 8-bit count, last status | `MIDI_Host_OutJackTasks` | `OutJack` |
| Host transfer loop (`app_host_midi_basic.c`) | transfer state per endpoint, rings of USB packets | `APP_HostMIDIBasicTasks`, event handler | `HostTransfer` (IN endpoints) |
| Role scan, main loop (`main.c`, `system.c`, `timer.c`) | `scan_state`, divider, timer enable, `usb_host_attached` | `main`, `_T2Interrupt`, event handler | `ModeScan` |
| MIDI host client (`usb/src/usb_host_midi.c`) | endpoint table, busy flags | init, read, write, event handler | `HostTransfer` (busy flags, read, event handler), `HostEnum` (outcome of init) |
| USB host stack, transfers (`usb/src/usb_host.c`) | endpoint lists, event queue | tasks, interrupt handler, token scheduler | `HostTransfer` (IN transfers, events, detach) |
| USB host stack, enumeration (`usb/src/usb_host.c`) | state, override state, interrupt enables, tries, address, descriptor lists | `USBHostInit`, `USBHostTasks`, the attach, detach and timer interrupts | `HostEnum` |
| LEDs (`leds.c`, `app_led_usb_status.c`) | two blink states | state machines on Timers 3 and 4 | not modelled |
| Buttons, `system_device.c`, `system_host.c` | none of interest | | not modelled |
| Boot loader (`ezbl_integration`, `src/src/ezbl-v2.11`) | vendor code, library, examples | | not modelled |
| Board (`src/geda`, `src/docs` pictures) | hardware | | not modelled |

### Interaction

```
 MIDI In -> UART2 FIFO -> [interrupt] -> ring -> translator -> packet -+-> endpoint 1 IN (device)
                                                                       +-> nothing       (host)
 MIDI Out <- sendMessage   <- OUT buffer <- endpoint 1 OUT                              (device)
 MIDI Out <- out jack ring <- USB packets <- IN endpoints of the instrument             (host)
 Timer 2 -> scan_state -> main -> device stack or host stack -> main stays in one of them
```

There is one thread, `main`, and interrupts: UART2 receive, Timers 2 to 4, and
USB (used by the host stack; the device stack is polled). What they share is
the receive ring, `scan_state`, the LED states and the host stack's queue and
endpoint states. Nothing is persisted. The hard parts are the interrupt at any
point of main, the zero-copy hand-over of a packet to the USB hardware, the
busy-waiting transmission that keeps main away from everything else, the state
the parser carries from message to message, and the role search with a partner
that takes its time.

### What makes each component correct

* Ring: bytes come out once each and in order; nothing main or the interrupt
  does leaves count and pointers in disagreement; no byte is forgotten in the UART.
* Translator: one packet per message, the right one; writes stay in the packet;
  the input is consumed.
* Device application: the ring never overruns, the host fetches exactly the
  packets handed over, in order, and whole as long as it is faster than the cable; a re-configuration keeps software
  and hardware in step.
* Out jack: the receiver on the cable hears what the instrument sent.
* Host transfers: every packet of the instrument reaches the out jack once and
  in order, on a bus that loses packets and acknowledgements; nothing is lost
  between the interrupt and the loop; no endpoint starves.
* Enumeration: no attach and no detach is lost between interrupt and state
  machine; a device gets all its tries; the application is told only of a device
  that is configured, and forgets one that has gone.
* Role scan: the tasks polled are those of the stack initialised; the role found
  is kept; a partner that stays is found.

`PROJECT.json` lists the hazards at their lines with the property that covers each.

## 2. Modules

| Module | Content |
|---|---|
| `ByteFifo` | abstract specification of the MIDI In path: an unbounded queue |
| `UartRx` | ring, UART interrupt and main, one memory access of consequence per action |
| `MidiReader` | reference reading of a MIDI byte stream, written from the standards' tables |
| `InJack` | `MIDI_InJackTasks` with a MIDI sender |
| `DeviceApp` | main loop of a device, host, buffer descriptors, time in UART frames |
| `OutJack` | `MIDI_Host_OutJackTasks` with an instrument and a MIDI receiver (`MidiReader`) |
| `PacketLink` | abstract specification of the path of one IN endpoint's packets: a link that holds two |
| `HostTransfer` | host mode: loop, event queue, USB interrupt and token scheduler with an instrument of N IN endpoints |
| `Enumeration` | abstract specification of the host stack's promise about an attached device |
| `HostEnum` | `USBHostTasks` from detached to running and holding, the interrupts that drive it, and the device |
| `ModeScan` | `main`, Timer 2 and the partner |
| `ModArithmetic` | lemmas on `%` for the rings |
| `..._proofs` | the proofs about the module of that name |
| `MC...` | the instances TLC checks |

A definition that nothing uses stands just before the one it is a slip of
(`NextSlotLate` before `NextSlot`): put in its place it makes a property fail,
and shows that the property depends on that line of the code.

**UartRx.** `Arrive` is the UART; `IsrEnter`, `IsrStore`, `IsrDone`, `IsrReturn`
are the handler (`midi_jack.c:72-85`): entry, one turn of the `while`, its end,
the clearing of U2RXIF. `InitCount`, `InitRd`, `InitWr` are the three assignments of
`MIDI_Jack_Initialize`; before them the pointers are `Null` and a stored byte
goes outside the ring, which the model does not follow. `Fetch`, `Decrement`
and `Wrap` are the three steps of a consumption, the same in all three places
of `MIDI_InJackTasks` that have one (at lines 147 and 170 the byte is read
first, as in `Fetch`). `++` and `--` on the count are single PIC24
instructions. The history variable `torn` says that a byte was stored between
`InitCount` and `InitWr`. The UART's overrun flag (OERR, never cleared) is left
out: `Arrive` needs room in the hardware FIFO. `paced` grants main the time it
needs: a sender that does not send while the ring and the hardware FIFO together
hold as much as the ring has slots. It is chosen once, so that one run checks
`RingAligned` for every sender and `ByteFifo` for a paced one.

**InJack.** One action per branch: `InJackStatus`, `InJackRunning`,
`InJackSysExData`, `InJackData`; the `Parse...` operators are the branches of
the second `switch`. The ring is reduced to its head byte, which is what a call
looks at. `wi`, `expected` are `int8_t`. Writes outside the packet hit an
unknown variable and are left out (`Poke`); `WritesInPacket` says when there
are none. The sender follows the MIDI standard except in what `Features`
grants it; `strayed` records the first liberty that is not legal, and the
statements about packets hold up to there.

**DeviceApp.** A pass of the loop is `USBDeviceTasks`, `InJack`, then `OutBusy`
or `OutReady`, `PlayMessage` and `SendByte` for every slot of the buffer, and
`RxOnePacket`. A message has a number; `buf` is
the message the four bytes hold and how many of them are in place, `bd` the two
descriptors of endpoint 1 IN, `nextBd` the software's pointer, `sieBd` the
hardware's. `HostFetch` sends what `buf` holds at that moment, as the hardware
does. `SetConfiguration` and `Deconfigure` are everything SET_CONFIGURATION and
a bus reset change here; they are served in `USBDeviceTasks`. The other request of
endpoint 0 that touches these descriptors, SET_FEATURE or CLEAR_FEATURE of
ENDPOINT_HALT on endpoint 1, is not modelled (section 5). `Length` is the
switch over the code index number in `MIDI_Device_OutJackTasks`. A frame
takes 320 us, in which a loop that does not wait makes thousands of passes;
the model asks for `Passes` of them.
`considerate`, chosen once, restricts host and sender, never the program: the host
fills the OUT buffer (or resets the bus) only when the receive ring is empty, and the
sender plays to a configured device. Only `NoOverrun` and `CatchesUp` need it.
It is a strong assumption, as a host cannot see the ring: it leaves out OUT
packets that follow one another without a pause while the cable brings input. Between two
of them the loop translates one byte and stands still for up to 48 frames, so
that the ring does overrun.
`WireExact` holds for every host: a loop that is up to date (`UpToDate`: at most a
byte, or a whole packet, waits) hands over whole packets and remains up to date until
a byte comes in while something still waits (`CameEarly`).
Three histories say how far: `taken`, a descriptor was handed over that was still
pending; `dropped`, a pending packet was lost; `stale`, a received OUT packet
was not played before the next configuration.

**OutJack.** `Arrive` is a completed IN transfer; the next is not started
before the copy, since `APP_HostMIDIBasicTasks` calls the out jack before its
loop over the endpoints. One call is `CopyPart` with one of `SendNothing`,
`SendCin`, `Flush`, `SendStatus`, `SendRest`. `reader` is the MIDI receiver;
`owed` the events it has not heard yet, closed with a special value when it
heard something else. `odd` is set by an event that does not fill its packet and by
a status byte left out that no receiver remembers (`SystemLeftOut`).

**HostTransfer.** Main is `USBHostTasks` (the event loop of `usb_host.c:1258-1280`
as `NotifyClients` and `RemoveEvent`, then the override state) and
`APP_HostMIDIBasicTasks` (out jack, then one step per endpoint; a read is
`ReadData` and `SetBusy`, because the interrupt may complete the transfer
between the two). The interrupt handler is `Transaction` (what the instrument
answers, `usb_host.c:5647-6021`), `StartOfFrame` and `Detach`; after the first two it
runs `_USB_FindNextToken`, one endpoint per step, with main held. `MyTurn` is the
round robin of the bulk endpoints, `InterruptDue` and `NewInterval` the polling
intervals. The instrument numbers its packets, sends one again when the
acknowledgement is lost (`DeviceSent`), and toggles its data PID; `heard` is the number
the out jack expects, `garbled` says that it was given another. Abstractions:
a transfer is one USB packet (the buffer is what fits in one), empty packets
are left out; an error interrupt that comes with a completed transaction, which
the handler serves in two passes, is one step (`BadPid` counts it twice, as the
code does); U1IE and the control endpoint are left out, so that enumeration is
the one step `Attach`; endpoints are listed in the reverse order of the descriptors.
A transfer that fails `Retries` times, or is stalled, leaves its endpoint `failed`.

**HostEnum.** `sub` and `n` are the substate and subsubstate of `usbHostState`
(the substates of the states that follow one another are one sequence, `Order`).
One action is one `case` of `USBHostTasks`; `Send`, `Await...` and the
`...Complete` actions are the four steps every control request goes through. Where an interrupt between
two statements matters a case is cut: `TurnOnPower`/`EnableAttach` (the state
goes on before ATTACHIE is set), `HoldMask`/`HoldInit`, `Override`/`ClearOverride`,
and `EventMask`/`EventRemove`, which is the save and restore of U1IE around the
queue. `CheckAttempts` is `_USB_CheckCommandAndEnumerationAttempts`. A control
transfer is one step, answered (`Answer`), failed without having
reached the device or after SET_CONFIGURATION was obeyed (`Fault`), or
acknowledged in vain (`LostAcknowledgement`). The device listens to address
`devAddr`, which a bus reset sets back to 0, while `addr` is what the host believes.
`ScanTick` and `RoleRound` are the role scan that ends the
host's round in the middle of it all; `ResetProcessor` is the application's answer to
EVENT_MIDI_DETACH. `since` says what has become of the device that was there
when the settling delay began. One device, one MIDI interface; the contents of descriptors
are what the decisions read: hub, number of configurations, which of them have MIDI.

**ModeScan.** One action per step of `main` that reads or writes shared state,
so that `Tick` can come between them; the C `switch` without `break` is the
arrow from `whileDevice` to `initHost`. `Tick` is the Timer 2 interrupt with
`change_scan_state_flag`. Enumeration is the partner's `progress`; it starts
anew with every `StartStack` and every `Plug`. `Reset` is `asm("RESET")` on
EVENT_MIDI_DETACH. The host stack's retries and errors are inside `progress`.

## 3. Runs

| Run | Checks | Bounds, and why they are enough |
|---|---|---|
| `UartRx_ring` | alignment in every interleaving; for a paced sender the ring implements `ByteFifo`; a stranded byte is recovered | 4 slots, count of 8 values (two laps), 2 byte values (enough to see a swap or a loss), UART FIFO of 2; more bytes than slots and than count values arrive |
| `InJack_stream` | translation of every stream | one status per class (2 or 1 data bytes) on different channels, 2 data values; all system statuses with a meaning; streams of any length |
| `DeviceApp_loop` | what takes descriptor pointers out of step, and order, for every host; packets fetched whole until a byte comes in early; no overrun with a considerate host | ring of 4 for an OUT packet of 2 messages of 2 bytes (with 3 it overruns; the firmware has 64 for 48), 3 message numbers (one more than descriptors), 3 passes per frame |
| `OutJack_mixed` | what is heard; alignment | ring of 2 full USB packets, count of 2 laps; two channels, a running status, a song position (once, or repeated), a packet that starts with a data byte; the receiver is followed up to the first overrun or `odd` event |
| `HostTransfer_one` | each packet heard, once and in order; every endpoint implements `PacketLink` | one endpoint of either type; ring of 4, 4 packet numbers (two laps of the toggle), 2 errors to a failure, so that one is retried; queue of 1 |
| `HostTransfer_two` | events, waiting, starvation | two bulk, or a bulk and an interrupt endpoint; ring and packet numbers 2 (order is the other run's subject); 1 error to a failure; queue of 2, one place per endpoint as `QueueAssumption` asks; 2 transactions per frame, so that the round robin goes on within a frame |
| `HostEnum_any` | attach and detach, configurations, tries, the refinement of `Enumeration`, an instrument is found and forgotten | an instrument whose second configuration is MIDI and a slow hub, plugged in and out at will; faults at one request before the address, at SET_ADDRESS and at SET_CONFIGURATION; 2 tries of each kind and 4 faults, their product, so that both loops are exhausted; failing allocations; one round of the role scan that cuts an enumeration short (those that end while nothing is under way are not limited) |
| `ModeScan_roles` | tasks, attach flag, search | enumeration of 3 ticks of the 5 of a round, the most for which `NotPassedBy` holds |

Each of these passes. `NotPassedBy` states what the search needs: an
enumeration that ends within a role's 1.25 s minus the tick on either side. With
4 ticks TLC finds a partner that is passed by.

Four runs show where the program does not do what its comments or documentation
say; `PROJECT.json` quotes the lines.

| Run | Shows |
|---|---|
| `InJack_clock` | after a MIDI clock, running-status data is never consumed: each call makes another clock packet |
| `OutJack_sysex` | a legal SysEx flushes the out ring |
| `ModeScan_switch` | a converter configured once never becomes a host |
| `HostEnum_retry` | a device that has got its address is not enumerated again after a failed request: the host resets the device but goes on asking at the old address (3 tries of each kind, as in the firmware) |

### Fairness

`UartRx.LiveSpec` and `InJack.LiveSpec`: main never blocks and calls its tasks
for ever; the handler runs when its flag is set. `UartRx.LiveSpec` also asks
that the sender goes on sending: without it a stranded byte stays where it is.
`DeviceApp.LiveSpec`: the processor and the clock do not stop; nothing is assumed of the
host's polling, of the sender, or of OUT traffic.
`HostTransfer.LiveSpec`: the interrupt handler ends, the frame clock does
not stop and every token is answered or times out (the module's hardware does
that); main is strongly fair, because interrupts take it time but not all of it:
between two of them the processor executes main. Nothing is assumed of the
instrument, which may answer NAK or nothing for ever. `HostEnum.Spec`: main, the interrupt handler and Timer 2 go on; nobody has to plug
anything. That an instrument is found asks that it stays and, from `MaxFaults`, that its faults end.
`ModeScan.Spec`: processor and clock; nobody has to plug anything.

### Known divergences that no run states

* Code index numbers of system common messages are the ordinals of
  `MIDI_CIN_N` (0, 1, 2), not 5, 2, 3 (`midi_jack.c:34-39`, `midi_jack.h:13-22`).
* SYSEX_END is stored in byte 1 of its packet, over a data byte
  (`midi_jack.c:201`), with a code index number that counts it as the last.
* A SysEx broken off by a status byte leaves `SysExCommandPending` set; data of
  the following messages is packed as SysEx until a SysEx end comes (`SwallowedByPending`).
* A running-status message is moved to channel 1: line 264 saves the status
  without its channel, `midi_jack.c:127-131` sets out to process "the previous
  RxRunningStatusByte". `MessageExact` states what is left: all but the channel.
* Data bytes after the end of a system common message move `WriteIndex` out of
  the packet (`midi_jack.c:170`).
* The out jack sends the padding of two-byte messages (`app_host_midi_basic.c:518`).
* The out jack keeps every status byte below 0xF8 as running status
  (`app_host_midi_basic.c:505-513`), a receiver only those of channel messages: a song
  position sent twice in a row loses its second status byte, and its data with it.
  `HeardExactly` holds up to such a byte.
* In host mode the translator's packets go nowhere (`midi_jack.c:306-341` is
  commented out).
* The receive interrupt is on (`system.c:179`) before `MIDI_Jack_Initialize` assigns
  count and pointers one after the other (`midi_jack.c:60-62`): a byte in
  between leaves them apart for good. `RingAligned` is stated up to such a byte.
* `USBIsDeviceSuspended()` reads U1PWRC.USUSPEND (`usb/inc/usb_device.h:1263`), which
  nobody sets: the test at `app_device_midi_basic.c:164-170` never holds, and the
  application goes on handing over packets on a suspended bus. After three, five,
  ... hand-overs that nobody fetched the stack's descriptor pointer and the
  hardware's stand on different descriptors, and each packet is sent only after the
  next one has been played, until the device is configured anew or another hand-over
  takes a pending descriptor. `StepByOvertaking` states this; `FetchedInOrder`
  holds up to the first descriptor taken.
* An OUT packet received just before the host selects the configuration again is
  played together with the next one: `APP_DeviceAudioMIDIInitialize` arms the
  endpoint and does not clear its buffer (`stale`).
* In host mode the real-time flag is set where the comment says it is cleared
  (`app_host_midi_basic.c:211`), and `midiState` is READY before the endpoint buffers
  are allocated (`app_host_midi_basic.c:321`), unchecked.
* A detach is lost in two windows: before the settling delay DETACHIF is
  cleared (`usb/src/usb_host.c:1464`), and on entry of the holding state (2388).
  `DetachNotLost` is stated outside them; the role scan heals both
  (`FindsDevice`, `ForgetsDevice`).
* `app_device_midi_basic.c:175` hands a packet over without the test of
  `USBHandleBusy` that `usb/src/usb_device.c:961-963` requires. A packet is overwritten
  if the host has not fetched it within a frame of the cable; and after an OUT
  packet, when several bytes wait in the ring and the loop translates one in each pass,
  faster than a host fetches. `WireExact` says that only a byte that comes in early leads
  there, and promises nothing after it until the loop is up to date again.
* EVENT_BUS_ERROR is ignored (`usb/src/usb_host_midi.c:354`) and nobody calls
  `USBHostClearEndpointErrors`: an endpoint that has failed or stalled once is not read
  again until the instrument is plugged in anew. `WaitExplained` names the exception,
  `DeadForGood` states it.
* `usb/src/usb_host.c:68-71` speaks of the tries of a transaction; `bfErrorCount`
  counts those of a transfer, a NAK between two of them does not reset it.
* One OUT packet keeps the loop busy for up to 15 ms (48 frames); `main.c:82`
  asks for USBDeviceTasks every 1.8 ms.

## 4. Proofs

`UartRx_proofs` proves, for every ring size N, every count range W that is a
multiple of N, every depth of the UART's FIFO and every set of bytes:

* `TypeCorrect`, `TypesHold`: every reachable state is well typed.
  The inductive invariant `TypeInv` adds to `TypeOK` what main's position says of
  the pointers (`PointersOK`: the write pointer is set once main polls, the read
  pointer is in the ring when main fetches), without which `Fetch` could leave
  the ring, and `CleanSetUp`: the count is 0 during an untorn set-up, which
  alignment needs at its start.
* `RingStaysAligned`: `RingAligned` is inductive relative to `TypeInv`.
  Only three steps move anything: `IsrStore` advances count and write pointer
  together (`AlignStore`), `Fetch` moves the pointer and what the count stands
  for (`HeldPred`), `InitWr` starts aligned. The wrap of the count is harmless
  because W is a multiple of N (`WrapAssumption`), which is where
  `ModArithmetic.ModLaps` is used.
* `RingIsFifo`: for a paced sender `UartRx` implements `ByteFifo` (`FifoSpec`), if
  N < W: otherwise a full ring would count as empty. The abstract queue is
  `Queue`, the slots from the read pointer on and then the hardware FIFO.
  A store leaves it alone (`QueueStore`: the slot written is none of those that wait, which
  is alignment and `ModDistinct`), a fetch takes its head (`QueueGet`), and `PacedInv` says
  that there is always room.
* `TornRingStaysTorn` (`ApartForGood`): a set-up torn by a byte leaves pointers and count
  a number of slots apart, and that number is a constant of the motion: every step that
  keeps `RingAligned` keeps it, by the same arithmetic. Nothing but a reset heals it.

`InJack_proofs` proves, for every set of channel statuses and data bytes and for
streams of any length, all five invariants of the run: `TypesHold`,
`NoPacketMissed`, `MessagesExact`, `SysExCutExactly`, `WritesStayInPacket`. The
invariant `IInv` says, of a sender that has stayed within the standard (`~strayed`), that reader and translator go together. Between
calls there are three situations: inside a SysEx (`SysExOpen`: the flag is set, and write
index and packet hold what is left over from the multiple of three), inside a
message (`MessageOpen`: the write index is one more than the bytes read, the
saved status belongs to the message, the bytes so far are in the packet), and between
messages (`Between`: a data byte that comes now resumes the saved status,
`Resumed`). `Level` and `Ahead` say where the sender is while its byte waits. Each branch of
the parser moves from one situation to another as the reference reader does.
Two theorems say how long a byte stays at the head of the ring. `TwoCallsPerByte`
(`CallsCount`): in a legal stream every call lowers `CallsToGo`, which is at most 2. The call that
does not consume is the one for running status; it leaves the parser where the next
one does (`RunningAdvances`), because `Between` makes the saved status a channel's.
`BlockedForGood` (`WedgedForGood`): the situation the run `InJack_clock` ends in has no way out. `PendingSwallows` (`SwallowedByPending`) holds for
every stream, legal or not: nothing but a SysEx end ends a SysEx, and a channel message that
breaks one off is packed as SysEx.

`DeviceApp_proofs` proves, for every size of ring, buffer and messages:

* `PingPongStaysInStep` and `MessagesFetchedInOrder`. `BdInv` lists the
  ways two descriptors, two pointers and the messages in them can stand to
  each other: none, one or both pending, and in which order; it is lost
  with the first descriptor that is taken and found again with the next configuration.
* `StepLostByOvertaking` (`StepByOvertaking`) needs no such history: a hand-over to a free
  descriptor and a fetch each move one pointer and free or fill one descriptor, which
  keeps `InStep`; a hand-over to a pending one moves the pointer alone, which changes it.
* `PacketsFetchedWhole` (`WireExact`), for every host: the translator turns the one byte that
  waits into a part of the message with nothing pending, or into a packet that is alone and
  whole in the buffer (`UpToDateInJack`); every other step but an early byte frees descriptors
  or leaves them alone (`UpToDateStep`).
* `NothingPlayedTwice`: the slots beyond the packet received last are empty (`SlotsEmpty`).
* `RingNeverOverrun`: under the assumption `Roomy`, that the ring has a slot for
  each byte of the largest OUT packet. A frame brings at most one byte and sends at
  most one; a packet is begun with an empty ring; so the ring holds at most as
  much as has been played (`RoomInv`), and the bound is the largest packet: 48 bytes of 64.

`OutJack_proofs` proves, for every ring that holds a whole number of groups and every
set of event packets, `TypesHold` and `GroupsStayAligned`. Read
pointer plus count stays congruent to the write pointer modulo the ring's size: a
copy adds its length to both sides, a byte sent moves pointer and count against
each other, a count that wraps loses a multiple of the ring's size, and a flush
sets all three to 0. Copies and the ring come in groups of four.
`ThreeByteMessagesHeard` proves `HeardExactly` for a ring smaller than the count's
range (64 of 256; a full ring would otherwise count as an empty one) and an instrument
whose three-byte events are what USB MIDI prescribes (`LegalEvents`). Its invariant `Exact` is
`Agree`: the events due are in the ring, from the group the read pointer is in
(`Holds`), the count is what is left of them, and the receiver has the first of them up to the
byte at the read pointer, with its running status and the firmware's in step (`Listens`).
A copy appends to what is due (`CopyAppends`); the byte that completes an event takes
it off the ring and off the account together (`HearsEvent`, `NextGroup`).

`ModeScan_proofs` proves, for every duration of an enumeration:

* `RolesSafe`: the type invariant, `TasksOfStack` and `AttachNotStale` (each also
  as a theorem of its own). The
  invariant `Inv` adds that the timer is off in the two final loops and in the
  step before the host's, which is also what `RoleKept` needs.
* `RoleIsKept`: the action property `RoleKept`, in the final loops `scan_state` no longer
  changes, from the same invariant.
* `NobodyPassedBy`: `NotPassedBy`, for an enumeration of at most `Hold` = 3 ticks. The
  invariant `RoundInv` says that main is never late for a round: while it turns from one
  stack to the other (`Turning`, `Starting`) at most one tick passes, because a tick comes after a
  poll and main polls at most once more. So a stack is started with at least four of five
  ticks before it, the last of which ends the round; `OnTime` carries this to the
  poll that sees the end of the enumeration.

`HostTransfer_proofs` proves, for every number of endpoints, every mix of bulk and
interrupt endpoints and all sizes:

* `TypesHold`: the type invariant, with `EventPresent` (the loop removes only an event
  that is there) as its strengthening.
* `NoEventTwice` and `NoWaitForNothing`: `OneEventEach` and `WaitExplained`. Neither is
  inductive. `EventInv` adds what the states of client and application say of a
  transfer: before a read nothing of the last one is left (`ReadIdle`), once the
  client has seen the event only its removal is to come (`SeenIdle`), between
  the start of a read and the busy flag the transfer is under way, queued or
  failed (`Starting`), the event to remove has been acted upon (`HeadSeen`), a bus error
  means a failed endpoint (`ErrorsFailed`). Most steps leave all of it alone
  (`Quiet`). A transfer that ends finds room in the queue (`Room`, by the pigeonhole
  principle), which is where `QueueAssumption`, no more endpoints than places, is used:
  the firmware has 4 places and serves instruments of one or two IN endpoints;
  with more it could lose an event.
* `SlotsStayFree` and `PacketsInOrder`: `SlotFree` and `InOrder`. `OrderInv` reads
  the path of a packet as one chain: the packets in the slots between the two
  pointers, the one under way or in the event, and the one the instrument sends next are
  numbered consecutively, and the data toggle says whether the packet on the
  wire is that next one or its repetition. A transaction, a lost
  acknowledgement, a hand-over and a copy each keep the chain.
* `LinksImplemented` and `LinkRefined`: for every endpoint `HostTransfer` implements
  `PacketLink` (`LinksKept`; `Link(e)!Spec`). What is on the way (`Way`) is read off the chain:
  the packet in the slot at the read pointer, then the one of the running or finished transfer.
  The instrument's packet is taken at the transaction that delivers it, whether or not its
  acknowledgement arrives (`DataLink`), and given by the copy of the out jack (`JackLink`);
  every other step is a stutter, and pulling the cable is `Plug`. It follows that no
  endpoint ever has more than two packets under way, whatever the size of its ring.
* `OneIsFound` (`OneFound`): when `_USB_FindNextToken` has endpoints to serve, it finds one
  and only one. The turns it compares are ranks in the list; that the ranks of the endpoints left
  are 1, 2, ... without gaps (`RankOneToOne`, `RankOnto`) is a matter of counting.
* `SearchIsBounded` (`SearchEnds`): each step of that search lowers `StepsLeft`, which is at most
  N + 2, so the interrupt handler does not hold main for ever.
* `DeadStaysDead` (`DeadForGood`): an endpoint that has failed and is waited for hears of nothing
  but its failure, which the client ignores; only pulling the cable brings it back.

`HostEnum_proofs` proves, for all devices and all numbers of tries and faults:

* `TypesHold`, and the four invariants of the run: `AttachesFound`, `DetachesSeen`,
  `ConfigurationsRead`, `TriesAllUsed`. Their strengthenings are parts of `IInv`:
  `AttachInv` and `DetachInv` say, for every place main can be at, which interrupts
  are on, in U1IE and in the copy of it that will be written back; `ListInv` what the list of
  configurations holds at each request; `CountInv` that every failed
  request is a fault of the device, counted in both numbers of tries.
* `PromiseKept`: `HostEnum` implements `Enumeration` (`KeepsPromise`). Under the refinement
  mapping every step is one of `ENext` or a stutter. The hard step is `Run`, which needs
  that a device that is still there has obeyed SET_CONFIGURATION: `ReadyInv` follows address
  and configuration from the request to its completion, `DetachInv`
  covers the device that has gone, or has been replaced, in between.

* `EnumerationIsFinite` (`EnumerationShrinks`): every step of an enumeration that is not
  ended leaves a smaller `ToGo` in the lexicographic order: a repeated request costs one of
  `cmdTries`, a repeated enumeration one of `enumTries`, a configuration read one of `count`, and
  otherwise the place in `Order` or the step of the state goes on. It holds whatever is plugged
  in and out meanwhile. `CheckAttempts` without its count would violate it.

The assumptions are the named ASSUMEs of the modules and those a theorem states
itself. Every safety property of the passing runs is proved.

What stays with TLC is liveness under fairness, which this prover does not reach. The
measures above are its safety half, for all values of the constants: what remains
is that main and the interrupts take the steps that lower them.

| Checked by TLC only | Its proved safety half |
|---|---|
| `InJack.LegalConsumed` | `TwoCallsPerByte`: two calls are enough |
| `ModeScan.FindsPartner` | `NobodyPassedBy`: who waits is found in the round |
| `HostEnum.FindsDevice`, `ForgetsDevice` | `EnumerationIsFinite`, and `AttachesFound`, `DetachesSeen`: no interrupt is lost |
| `HostTransfer.EachHeard` | `LinksImplemented`: what was taken can only be given, in order |
| `HostTransfer.Served` | `OneIsFound`, `SearchIsBounded`, `NoWaitForNothing` |
| `UartRx.StrandedRecovered`, `DeviceApp.CatchesUp` | none of their own |

## 5. Not modelled

* Endpoint 0 of the device stack, descriptors and strings: the vendor's code, of
  which the application sees only the configured state. This includes SET_FEATURE
  and CLEAR_FEATURE of ENDPOINT_HALT on endpoint 1 (`usb/src/usb_device.c:2782-2951`),
  which set the stack's pointer to the hardware's (2826) and drop packets that are
  pending (2857-2898): `StepByOvertaking` and `FetchedInOrder` are about hosts that do
  not halt the endpoint. That the loop stays
  away from it for up to 15 ms while it plays is a matter of the host's patience.
* The descriptor walk of `USBHostMIDIInit` and `_USB_ParseConfigurationDescriptor`: their
  outcome is a choice in `HostEnum` and a constant of `HostTransfer`. Known of the
  code: the `uint8_t index` of `usb_host_midi.c:123` never reaches a
  `wTotalLength` above 255, and line 4932 of `usb/src/usb_host.c` uses
  `newEndpointInfo` after a failed `malloc`.
* OUT endpoints in host mode: the code that would fill them is commented out
  (`midi_jack.c:306-340`), so that they have nothing to send.
* LEDs and buttons: nothing reads their state.
* Boot loader, its library and its examples under `src/src/ezbl-v2.11`, a copy of the
  vendor's distribution: the greater part of the repository's lines, none of them
  the converter's own logic.

## 6. Plan

1. The descriptor walk of `USBHostMIDIInit` as a recursive function on bounded descriptors.
2. What else the translator does after a sender has left the standard (`strayed`): from
   which status byte on the packets are right again, with a theorem.
3. Measures for the two liveness properties that have none.
4. Writes of the host stack, should the commented-out code of `midi_jack.c` be revived.
