------------------------------ MODULE ModeScan ------------------------------
(***************************************************************************)
(* How the converter finds out what it is connected to: main() of          *)
(* src/main.c and the Timer 2 interrupt.                                   *)
(*                                                                         *)
(* Without knowing its partner the converter is a USB host and a USB       *)
(* device in turn.  The interrupt changes scan_state every fifth tick of   *)
(* 250 ms; main initialises the stack of that role and polls it.  When a   *)
(* partner has answered, main stops the timer and enters a loop it leaves  *)
(* only by a processor reset.  The interrupt may come between any two      *)
(* steps of main.                                                          *)
(*                                                                         *)
(* The partner is a PC or a MIDI instrument; both may be plugged in and    *)
(* out at any time.  Its enumeration takes up to EnumTicks ticks, and begins *)
(* anew with every initialisation.                                         *)
(*                                                                         *)
(* As in UartRx, a definition that nothing uses is a mutant of the one     *)
(* that follows it.                                                        *)
(***************************************************************************)
EXTENDS Integers

CONSTANT EnumTicks    \* ticks an enumeration takes at most

ASSUME EnumAssumption == EnumTicks \in Nat \ {0}

VARIABLES
  pc,         \* where main is
  scan,       \* scan_state
  divider,    \* the interrupt's static divider
  t2,         \* Timer 2 and its interrupt are on
  stack,      \* the USB stack initialised last
  attached,   \* usb_host_attached
  plug,       \* what is at the other end of the cable
  progress,   \* of the enumeration, complete at EnumTicks
  passed      \* main has polled a stack since the last tick

mainVars    == <<pc, scan, stack, attached>>
timerVars   == <<divider, t2>>
partnerVars == <<plug, progress>>
vars        == <<mainVars, timerVars, partnerVars, passed>>

Loops == {"device", "host"}
Steps ==
  {"switch", "initDevice", "whileDevice", "deviceTasks", "stopTimerDevice", "initHost",
   "whileHost", "hostTasks", "ifAttached", "stopTimerHost", "keepHost"} \cup Loops

Init ==
  /\ pc = "switch" /\ scan = "HOST" /\ stack = "none" /\ attached = FALSE
  /\ divider = 0 /\ t2 = TRUE
  /\ plug \in {"nothing", "pc", "midi"} /\ progress = 0
  /\ passed = FALSE

-----------------------------------------------------------------------------
(* The Timer 2 interrupt and the partner.                                  *)

\* Ticks that only count, and the role after the one that does not.
HoldShort == 2
Hold      == 3

OtherFallsThrough == "DEVICE"
Other == IF scan = "HOST" THEN "DEVICE" ELSE "HOST"

change_scan_state_flag_NoReset ==
  \/ divider <= Hold /\ divider' = divider + 1 /\ UNCHANGED scan
  \/ divider > Hold /\ divider' = divider + 1 /\ scan' = Other

change_scan_state_flag ==
  \/ divider <= Hold /\ divider' = divider + 1 /\ UNCHANGED scan
  \/ divider > Hold /\ divider' = 0 /\ scan' = Other

\* The stack the partner can talk to.
Matches == <<plug, stack>> \in {<<"pc", "device">>, <<"midi", "host">>}

\* The enumeration is complete: the next poll of that stack sees it.
Enumerated == Matches /\ progress = EnumTicks

\* 250 ms pass.  In that time main polls a stack at least once.
Tick ==
  /\ passed
  /\ IF t2 THEN change_scan_state_flag ELSE UNCHANGED <<divider, scan>>
  /\ \/ Matches /\ progress' \in progress + 1 .. EnumTicks
     \/ (~Matches \/ progress = EnumTicks) /\ UNCHANGED progress
  /\ passed' = FALSE
  /\ UNCHANGED <<pc, stack, attached, t2, plug>>

Plug(p) ==
  /\ plug # p /\ "nothing" \in {plug, p}
  /\ plug' = p /\ progress' = 0
  /\ UNCHANGED <<mainVars, timerVars, passed>>

-----------------------------------------------------------------------------
(* main.                                                                   *)

Goto(l) ==
  /\ pc' = l
  /\ passed' = (passed \/ pc \in {"deviceTasks", "hostTasks"} \cup Loops)

Switch ==
  /\ pc = "switch"
  /\ Goto(IF scan = "DEVICE" THEN "initDevice" ELSE "initHost")
  /\ UNCHANGED <<scan, stack, attached, timerVars, partnerVars>>

\* A stack starts from nothing: the partner has to begin anew.
StartStack(s) == stack' = s /\ progress' = 0

\* USBDeviceInit and USBDeviceAttach.
InitDevice ==
  /\ pc = "initDevice"
  /\ StartStack("device")
  /\ Goto("whileDevice")
  /\ UNCHANGED <<scan, attached, timerVars, plug>>

\* There is no break between the two cases: the device case falls into the
\* host case.
WhileDeviceNoInit ==
  /\ pc = "whileDevice"
  /\ Goto(IF scan = "DEVICE" THEN "deviceTasks" ELSE "whileHost")
  /\ UNCHANGED <<scan, stack, attached, timerVars, partnerVars>>

WhileDevice ==
  /\ pc = "whileDevice"
  /\ Goto(IF scan = "DEVICE" THEN "deviceTasks" ELSE "initHost")
  /\ UNCHANGED <<scan, stack, attached, timerVars, partnerVars>>

\* USBDeviceTasks and the test for CONFIGURED_STATE.
DeviceTasks ==
  /\ pc = "deviceTasks"
  /\ Goto(IF Enumerated THEN "stopTimerDevice" ELSE "whileDevice")
  /\ UNCHANGED <<scan, stack, attached, timerVars, partnerVars>>

disableTimer2(next) ==
  /\ t2' = FALSE
  /\ Goto(next)
  /\ UNCHANGED <<scan, stack, attached, divider, partnerVars>>

StopTimerDevice == pc = "stopTimerDevice" /\ disableTimer2("device")

\* The loop of a configured device, seen from outside.  Its test for
\* DETACHED_STATE never succeeds: without USE_USB_BUS_SENSE_IO the stack takes
\* the bus for powered for ever, and the state it is in between USBDeviceInit
\* and the end of the next USBDeviceTasks is never seen here.
DeviceLoop ==
  /\ pc = "device"
  /\ Goto("device")
  /\ UNCHANGED <<scan, stack, attached, timerVars, partnerVars>>

\* USBHostInit and APP_HostMIDIBasicInitialize.
InitHost ==
  /\ pc = "initHost"
  /\ StartStack("host")
  /\ Goto("whileHost")
  /\ UNCHANGED <<scan, attached, timerVars, plug>>

WhileHost ==
  /\ pc = "whileHost"
  /\ Goto(IF scan = "HOST" THEN "hostTasks" ELSE "switch")
  /\ UNCHANGED <<scan, stack, attached, timerVars, partnerVars>>

\* USBHostTasks; EVENT_MIDI_ATTACH sets usb_host_attached.
HostTasks ==
  /\ pc = "hostTasks"
  /\ attached' = (attached \/ Enumerated)
  /\ Goto("ifAttached")
  /\ UNCHANGED <<scan, stack, timerVars, partnerVars>>

IfAttachedAndHost ==
  /\ pc = "ifAttached"
  /\ Goto(IF attached /\ scan = "HOST" THEN "stopTimerHost" ELSE "whileHost")
  /\ UNCHANGED <<scan, stack, attached, timerVars, partnerVars>>

IfAttached ==
  /\ pc = "ifAttached"
  /\ Goto(IF attached THEN "stopTimerHost" ELSE "whileHost")
  /\ UNCHANGED <<scan, stack, attached, timerVars, partnerVars>>

StopTimerHost == pc = "stopTimerHost" /\ disableTimer2("keepHost")

\* scan_state = SCAN_STATE_HOST, "to make sure that it was not redefined by the
\* timer".
KeepHost ==
  /\ pc = "keepHost"
  /\ scan' = "HOST"
  /\ Goto("host")
  /\ UNCHANGED <<stack, attached, timerVars, partnerVars>>

HostLoop ==
  /\ pc = "host" /\ Enumerated
  /\ Goto("host")
  /\ UNCHANGED <<scan, stack, attached, timerVars, partnerVars>>

\* EVENT_MIDI_DETACH: asm("RESET").
Reset ==
  /\ pc = "host" /\ ~Enumerated
  /\ pc' = "switch" /\ scan' = "HOST" /\ stack' = "none" /\ attached' = FALSE
  /\ divider' = 0 /\ t2' = TRUE
  /\ progress' = 0 /\ passed' = FALSE
  /\ UNCHANGED plug

Main ==
  \/ Switch \/ InitDevice \/ WhileDevice \/ DeviceTasks \/ StopTimerDevice \/ DeviceLoop
  \/ InitHost \/ WhileHost \/ HostTasks \/ IfAttached \/ StopTimerHost \/ KeepHost
  \/ HostLoop \/ Reset

Next == Main \/ Tick \/ \E p \in {"nothing", "pc", "midi"} : Plug(p)

\* The processor and the clock run.  Nobody has to plug anything.
Spec == Init /\ [][Next]_vars /\ WF_vars(Main) /\ WF_vars(Tick)

-----------------------------------------------------------------------------
(* Properties.                                                             *)

TypeOK ==
  /\ pc \in Steps
  /\ scan \in {"HOST", "DEVICE"} /\ divider \in 0 .. Hold + 1 /\ t2 \in BOOLEAN
  /\ stack \in {"none", "device", "host"} /\ attached \in BOOLEAN
  /\ plug \in {"nothing", "pc", "midi"} /\ progress \in 0 .. EnumTicks
  /\ passed \in BOOLEAN

\* The tasks that are polled belong to the stack that was initialised last, at
\* whatever moment the interrupt changes scan_state and although the device
\* case falls into the host case.
TasksOfStack ==
  /\ pc \in {"whileDevice", "deviceTasks", "stopTimerDevice", "device"} => stack = "device"
  /\ pc \in {"whileHost", "hostTasks", "ifAttached", "stopTimerHost", "keepHost", "host"}
       => stack = "host"

\* usb_host_attached is never cleared.  It is harmless because main never
\* leaves the host case once it is set: a later host round would otherwise take
\* the old partner for the new one.
AttachNotStale == attached => pc \in {"ifAttached", "stopTimerHost", "keepHost", "host"}

\* Once main is in one of the two final loops the interrupt does not change
\* the role any more.
RoleKept == [][(pc \in Loops /\ pc' = pc) => scan' = scan]_vars

\* Main has found a partner and is on its way to one of the final loops, or there.
Found == attached \/ pc \in {"stopTimerDevice", "device"}

\* The partner's stack is being polled in its own role, the enumeration lags at most
\* one tick behind the timer, and no poll has missed its end.
OnTime ==
  /\ t2 /\ Matches
  /\ pc \in {"whileDevice", "deviceTasks", "whileHost", "hostTasks", "ifAttached"}
  /\ <<stack, scan>> \in {<<"device", "DEVICE">>, <<"host", "HOST">>}
  /\ progress = EnumTicks \/ divider <= progress + 1
  /\ passed => progress < EnumTicks

\* The search passes nobody by: wherever the interrupt falls, a partner that is there
\* when its stack is started is on time, from there only the cable leads away from
\* its being found in the same round, and main goes back to the search by nothing
\* but the reset.
NotPassedBy ==
  [][/\ (InitDevice \/ InitHost) /\ Matches' => OnTime'
     /\ OnTime /\ plug' = plug => OnTime' \/ Found'
     /\ Found => Found' \/ Reset]_vars

\* A PC that stays connected is found, whatever was connected before.
FindsPc == <>[](plug = "pc") => <>[](pc = "device")

\* An instrument that stays connected is found, unless the converter is
\* already a configured device.
FindsInstrument == <>[](plug = "midi") => <>[](pc \in Loops)

\* Whatever the timer does to the search, it ends with a partner that stays.
FindsPartner == FindsPc /\ FindsInstrument

\* README.md: "connection to a keyboard equipped with USB MIDI port will force
\* it to switch to USB host mode".  False of the code: a converter that was
\* configured by a PC stays a device when the cable goes over to a keyboard.
SwitchesToHost == <>[](plug = "midi") => <>[](pc = "host")
=============================================================================
