------------------------------ MODULE HostEnum ------------------------------
(***************************************************************************)
(* The enumeration of an attached device by the USB host stack: the state  *)
(* machine of USBHostTasks (usb_host.c), the parts of the interrupt        *)
(* handler that drive it, and a device that may be plugged in and out and  *)
(* may leave requests unanswered.                                          *)
(*                                                                         *)
(* usbHostState is a substate and the number of its subsubstate.  The      *)
(* substates of DETACHED to RUNNING follow one another, so "next state" and*)
(* "next substate" are both the successor in Order.  One step is one case  *)
(* of USBHostTasks, cut into smaller ones where an interrupt in between    *)
(* makes a difference.  A control transfer is one step of the interrupt    *)
(* handler: its tokens and their retries are not looked at.                *)
(*                                                                         *)
(* InitializeHost also sets back what is not read before it is written     *)
(* again, so that states that do not differ are equal.                     *)
(*                                                                         *)
(* A definition that nothing uses is a mutant of the one that follows it.  *)
(***************************************************************************)
EXTENDS Integers, Sequences, FiniteSets

CONSTANTS
  Devices,        \* what can be plugged in
  CommandTries,   \* USB_NUM_COMMAND_TRIES
  EnumTries,      \* USB_NUM_ENUMERATION_TRIES
  OutOfMemory,    \* an allocation may fail
  Faulty,         \* the requests a device may leave unanswered
  MaxFaults,      \* how often it does so while it stays plugged in
  MaxCuts         \* how many enumerations the role scan may cut short

NoDevice == [low |-> FALSE, hub |-> FALSE, configs |-> 0, midi |-> {}]

Commands ==
  {"GET_DEVICE_DESCRIPTOR_SIZE", "GET_DEVICE_DESCRIPTOR", "SET_DEVICE_ADDRESS",
   "GET_CONFIG_DESCRIPTOR_SIZE", "GET_CONFIG_DESCRIPTOR", "SET_CONFIGURATION"}

ASSUME EnumConstants ==
  /\ CommandTries \in Nat \ {0} /\ EnumTries \in Nat \ {0}
  /\ OutOfMemory \in BOOLEAN
  /\ Faulty \subseteq Commands
  /\ MaxFaults \in Nat /\ MaxCuts \in Nat
  /\ \A d \in Devices :
       /\ d.low \in BOOLEAN /\ d.hub \in BOOLEAN
       /\ d.configs \in Nat /\ d.midi \subseteq 1 .. d.configs
  /\ NoDevice \notin Devices

VARIABLES
  pc,         \* where main is in USBHostTasks
  sub, n,     \* usbHostState: the substate, the subsubstate
  override,   \* usbOverrideHostState
  usb1ie,     \* _USB1IE, the enable bit of the whole interrupt
  u1ie,       \* U1IE: the interrupts of the module that are on
  saved,      \* interrupt_mask
  timer,      \* T1MSECIE: the delay in numTimerInterrupts is running
  detachIF,   \* U1IR.DETACHIF
  ep0,        \* the control transfer on endpoint 0
  events,     \* usbEventQueue is not empty
  cmdTries, enumTries,
  addr,       \* deviceAddressAndSpeed, without the speed
  deviceAddress,  \* usbDeviceInfo.deviceAddress is set
  desc,       \* *pDeviceDescriptor
  list,       \* pConfigurationDescriptorList
  count,      \* countConfigurations
  chosen,     \* currentConfiguration
  interfaces, \* pInterfaceList is not empty
  client,     \* devices[0].deviceAddress of the MIDI client is set
  attached,   \* usb_host_attached
  errorCode,
  leave,      \* scan_state is no longer HOST
  plug, devAddr, devConfig,         \* the device, its address and configuration
  faults, cuts, since               \* history: see Fault, ScanTick and StartSettling

busVars  == <<plug, devAddr, devConfig>>
hwVars   == <<usb1ie, u1ie, timer, detachIF>>
tryVars  == <<cmdTries, enumTries>>
infoVars == <<addr, deviceAddress, desc, list, count, chosen, interfaces, errorCode>>
appVars  == <<client, attached, leave>>
history  == <<faults, cuts, since>>
vars == <<pc, sub, n, override, saved, ep0, events, hwVars, tryVars, infoVars, appVars,
          busVars, history>>

Order ==
  <<"INITIALIZE", "WAIT_FOR_POWER", "TURN_ON_POWER", "WAIT_FOR_DEVICE", "SETTLE",
    "RESET_DEVICE", "GET_DEVICE_DESCRIPTOR_SIZE", "GET_DEVICE_DESCRIPTOR",
    "VALIDATE_VID_PID", "SET_DEVICE_ADDRESS", "INIT_CONFIGURATION",
    "GET_CONFIG_DESCRIPTOR_SIZE", "GET_CONFIG_DESCRIPTOR", "SELECT_CONFIGURATION",
    "APPLICATION_CONFIGURATION", "SET_CONFIGURATION", "NORMAL_RUN">>
Substates == {Order[i] : i \in 1 .. 17} \cup {"HOLD_INIT", "HOLD"}
Detached  == {"INITIALIZE", "WAIT_FOR_POWER", "TURN_ON_POWER", "WAIT_FOR_DEVICE"}
Holding   == {"HOLD_INIT", "HOLD"}

Successor(s) == Order[(CHOOSE i \in 1 .. 16 : Order[i] = s) + 1]

Init ==
  /\ pc = "tasks" /\ sub = "INITIALIZE" /\ n = 0 /\ override = "NO_STATE"
  /\ usb1ie = FALSE /\ u1ie = {} /\ saved = {} /\ timer = FALSE /\ detachIF = FALSE
  /\ ep0 = "idle" /\ events = FALSE
  /\ cmdTries = 0 /\ enumTries = 0
  /\ addr = 0 /\ deviceAddress = FALSE /\ desc = NoDevice /\ list = <<>> /\ count = 0
  /\ chosen = 0 /\ interfaces = FALSE /\ errorCode = "NONE"
  /\ client = FALSE /\ attached = FALSE /\ leave = FALSE
  /\ plug \in Devices \cup {NoDevice} /\ devAddr = 0 /\ devConfig = 0
  /\ faults = 0 /\ cuts = 0 /\ since = "absent"

-----------------------------------------------------------------------------
(* usbHostState.                                                           *)

State(s, k)        == sub' = s /\ n' = k
SetNextSubState    == State(Successor(sub), 0)
SetNextSubSubState == State(sub, n + 1)
SetHoldState(e)    == State("HOLD_INIT", 0) /\ errorCode' = e

InitErrorCounters == cmdTries' = CommandTries

CheckAttemptsOneMore ==
  /\ cmdTries' = cmdTries - 1
  /\ IF cmdTries' >= 0
     THEN State(sub, 0) /\ UNCHANGED <<enumTries, errorCode>>
     ELSE /\ enumTries' = enumTries - 1
          /\ IF enumTries' # 0
             THEN State("RESET_DEVICE", 0) /\ UNCHANGED errorCode
             ELSE SetHoldState("CANNOT_ENUMERATE")

CheckAttemptsForEver ==
  /\ cmdTries' = cmdTries - 1
  /\ IF cmdTries' # 0
     THEN State(sub, 0) /\ UNCHANGED <<enumTries, errorCode>>
     ELSE State("RESET_DEVICE", 0) /\ UNCHANGED <<enumTries, errorCode>>

\* _USB_CheckCommandAndEnumerationAttempts.
CheckAttempts ==
  /\ cmdTries' = cmdTries - 1
  /\ IF cmdTries' # 0
     THEN State(sub, 0) /\ UNCHANGED <<enumTries, errorCode>>
     ELSE /\ enumTries' = enumTries - 1
          /\ IF enumTries' # 0
             THEN State("RESET_DEVICE", 0) /\ UNCHANGED errorCode
             ELSE SetHoldState("CANNOT_ENUMERATE")

-----------------------------------------------------------------------------
(* The interrupt handler and the device.                                   *)

Interrupt(i) == usb1ie /\ i \in u1ie

\* A delay is over.
IsrTimer ==
  /\ usb1ie /\ timer /\ timer' = FALSE
  /\ IF sub \notin Detached THEN SetNextSubSubState ELSE UNCHANGED <<sub, n>>
  /\ UNCHANGED <<pc, override, usb1ie, u1ie, saved, detachIF, ep0, events, tryVars, infoVars,
                 appVars, busVars, history>>

\* ATTACHIF stays set as long as something pulls up a data line.
IsrAttach ==
  /\ Interrupt("ATTACH") /\ plug # NoDevice
  /\ u1ie' = u1ie \ {"ATTACH"}
  /\ override' = IF sub = "WAIT_FOR_DEVICE" THEN "ATTACHED" ELSE override
  /\ UNCHANGED <<pc, sub, n, usb1ie, saved, timer, detachIF, ep0, events, tryVars, infoVars,
                 appVars, busVars, history>>

IsrDetach ==
  /\ Interrupt("DETACH") /\ detachIF
  /\ detachIF' = FALSE
  /\ u1ie' = u1ie \ {"DETACH"}
  /\ override' = "DETACHED"
  /\ UNCHANGED <<pc, sub, n, usb1ie, saved, timer, ep0, events, tryVars, infoVars, appVars,
                 busVars, history>>

\* The transfer on endpoint 0, a request without data or a control read with its
\* setup, data and status stages, ends with an event for USBHostTasks.
Finish(result) ==
  /\ Interrupt("TOKENS") /\ ep0 = "busy"
  /\ ep0' = result /\ events' = TRUE
  /\ UNCHANGED <<pc, sub, n, override, saved, hwVars, tryVars, addr, deviceAddress, count,
                 chosen, interfaces, errorCode, appVars, plug, cuts, since>>

Reaches == plug # NoDevice /\ devAddr = addr
Asks(c) == sub = c /\ n = 1

\* What a device does with a request it receives.
Obeyed ==
  /\ devAddr' = IF Asks("SET_DEVICE_ADDRESS") THEN 1 ELSE devAddr
  /\ devConfig' = IF Asks("SET_CONFIGURATION") THEN chosen ELSE devConfig

\* The answer is in the buffer the host gave for it.
Answer ==
  /\ Reaches /\ Finish("ok") /\ Obeyed
  /\ desc' = IF Asks("GET_DEVICE_DESCRIPTOR_SIZE") \/ Asks("GET_DEVICE_DESCRIPTOR")
             THEN plug ELSE desc
  /\ list' = IF Asks("GET_CONFIG_DESCRIPTOR") /\ list # <<>>
             THEN [list EXCEPT ![1].full = TRUE, ![1].midi = list[1].num \in plug.midi]
             ELSE list
  /\ UNCHANGED faults

NoAnswer == ~Reaches /\ Finish("failed") /\ UNCHANGED <<desc, list, devAddr, devConfig, faults>>

\* Too many NAKs, a stall or disturbed packets: the host gives the transfer up,
\* before the device has heard of it or, as SET_CONFIGURATION is obeyed before
\* the status stage, after that.
Fault ==
  /\ Reaches /\ sub \in Faulty /\ faults < MaxFaults
  /\ faults' = faults + 1
  /\ Finish("failed")
  /\ \/ UNCHANGED devConfig
     \/ Asks("SET_CONFIGURATION") /\ devConfig' = chosen
  /\ UNCHANGED <<desc, list, devAddr>>

\* The host's acknowledgement that ends SET_ADDRESS is lost: the device keeps
\* its address.
LostAcknowledgement ==
  /\ Reaches /\ Asks("SET_DEVICE_ADDRESS") /\ sub \in Faulty /\ faults < MaxFaults
  /\ faults' = faults + 1
  /\ Finish("ok")
  /\ UNCHANGED <<desc, list, devAddr, devConfig>>

Transfer == Answer \/ NoAnswer \/ Fault \/ LostAcknowledgement

Plug(d) ==
  /\ plug = NoDevice /\ plug' = d /\ devAddr' = 0 /\ devConfig' = 0
  /\ faults' = 0
  /\ UNCHANGED <<pc, sub, n, override, saved, ep0, events, hwVars, tryVars, infoVars, appVars,
                 cuts, since>>

Unplug ==
  /\ plug # NoDevice /\ plug' = NoDevice /\ devAddr' = 0 /\ devConfig' = 0
  /\ detachIF' = TRUE /\ since' = "gone" /\ faults' = 0
  /\ UNCHANGED <<pc, sub, n, override, saved, ep0, events, usb1ie, u1ie, timer, tryVars,
                 infoVars, appVars, cuts>>

\* The host has nothing to do: no device, or one it holds.
Idle == sub = "HOLD" \/ (sub = "WAIT_FOR_DEVICE" /\ plug = NoDevice)

\* Timer 2 ends the host's round.  A round is longer than an enumeration, so it
\* cuts one short only now and then: MaxCuts times.
ScanTick ==
  /\ ~leave /\ ~attached /\ leave' = TRUE
  /\ \/ Idle /\ UNCHANGED cuts
     \/ ~Idle /\ cuts < MaxCuts /\ cuts' = cuts + 1
  /\ UNCHANGED <<pc, sub, n, override, saved, ep0, events, hwVars, tryVars, infoVars, client,
                 attached, busVars, faults, since>>

-----------------------------------------------------------------------------
(* USBHostTasks up to the switch.                                          *)

\* _USB_FreeMemory and the rest of USBHostInit.
HostInit ==
  /\ State("INITIALIZE", 0) /\ override' = "NO_STATE"
  /\ addr' = 0 /\ deviceAddress' = FALSE
  /\ desc' = NoDevice /\ list' = <<>> /\ interfaces' = FALSE
  /\ events' = FALSE

\* main has left the host's loop, been a device for a while, and is back.
\* USBDeviceInit switches the interrupt off.
RoleRound ==
  /\ pc = "tasks" /\ leave /\ ~attached
  /\ leave' = FALSE
  /\ usb1ie' = FALSE /\ u1ie' = {}
  /\ HostInit
  /\ UNCHANGED <<pc, saved, timer, detachIF, ep0, tryVars, count, chosen, errorCode,
                 client, attached, busVars, history>>

Enter == pc = "tasks" /\ (leave => attached)

\* The queue is emptied with the interrupts off.  U1IE is read first.
EventMask ==
  /\ Enter /\ events /\ saved' = u1ie /\ pc' = "remove"
  /\ UNCHANGED <<sub, n, override, ep0, events, hwVars, tryVars, infoVars, appVars, busVars,
                 history>>

EventRemove ==
  /\ pc = "remove" /\ events' = FALSE /\ u1ie' = saved /\ saved' = {} /\ pc' = "tasks"
  /\ UNCHANGED <<sub, n, override, ep0, usb1ie, timer, detachIF, tryVars, infoVars, appVars,
                 busVars, history>>

Override ==
  /\ Enter /\ ~events
  /\ IF override = "NO_STATE"
     THEN pc' = "switch" /\ UNCHANGED <<sub, n>>
     ELSE /\ pc' = "clear"
          /\ State(IF override = "ATTACHED" THEN "SETTLE" ELSE "INITIALIZE", 0)
  /\ UNCHANGED <<override, saved, ep0, events, hwVars, tryVars, infoVars, appVars, busVars,
                 history>>

ClearOverride ==
  /\ pc = "clear" /\ override' = "NO_STATE" /\ pc' = "switch"
  /\ UNCHANGED <<sub, n, saved, ep0, events, hwVars, tryVars, infoVars, appVars, busVars,
                 history>>

-----------------------------------------------------------------------------
(* STATE_DETACHED.                                                         *)

Case(s, k) == pc = "switch" /\ sub = s /\ n = k /\ pc' = "tasks"

Calm == UNCHANGED <<saved, events, leave, busVars, faults, cuts>>

SetTriesOnce == enumTries' = IF enumTries = 0 THEN EnumTries ELSE enumTries
SetTries     == enumTries' = EnumTries

\* EVENT_DETACH reaches the MIDI client if USBHostMIDIInit has bound it to the
\* address; EVENT_MIDI_DETACH then resets the processor.
DetachResets == deviceAddress /\ interfaces /\ client

InitializeHost ==
  /\ Case("INITIALIZE", 0) /\ ~DetachResets
  /\ SetNextSubState
  /\ override' = "NO_STATE" /\ events' = FALSE
  /\ addr' = 0 /\ deviceAddress' = FALSE
  /\ desc' = NoDevice /\ list' = <<>> /\ interfaces' = FALSE
  /\ chosen' = 0 /\ SetTries /\ ep0' = "idle"
  /\ u1ie' = {} /\ detachIF' = FALSE /\ timer' = FALSE
  /\ cmdTries' = 0 /\ count' = 0 /\ errorCode' = "NONE"   \* the values nobody reads any more
  /\ UNCHANGED <<saved, usb1ie, appVars, busVars, history>>

ResetProcessor ==
  /\ Case("INITIALIZE", 0) /\ DetachResets
  /\ State("INITIALIZE", 0) /\ override' = "NO_STATE"
  /\ usb1ie' = FALSE /\ u1ie' = {} /\ saved' = {} /\ timer' = FALSE /\ detachIF' = FALSE
  /\ ep0' = "idle" /\ events' = FALSE /\ cmdTries' = 0 /\ enumTries' = 0
  /\ addr' = 0 /\ deviceAddress' = FALSE /\ desc' = NoDevice /\ list' = <<>> /\ count' = 0
  /\ chosen' = 0 /\ interfaces' = FALSE /\ errorCode' = "NONE"
  /\ client' = FALSE /\ attached' = FALSE /\ leave' = FALSE
  /\ UNCHANGED <<busVars, history>>

\* bPowerGoodPort0 is set by USBHostInit and the application grants the power.
WaitForPower ==
  /\ Case("WAIT_FOR_POWER", 0) /\ SetNextSubState
  /\ Calm /\ UNCHANGED <<override, ep0, hwVars, tryVars, infoVars, client, attached, since>>

EnableThenNext(k) ==
  \/ k = 1 /\ u1ie' = u1ie \cup {"ATTACH"} /\ UNCHANGED <<sub, n>>
  \/ k = 2 /\ SetNextSubState /\ UNCHANGED u1ie

\* The state goes on before ATTACHIE is set.
NextThenEnable(k) ==
  \/ k = 1 /\ SetNextSubState /\ UNCHANGED u1ie
  \/ k = 2 /\ u1ie' = u1ie \cup {"ATTACH"} /\ UNCHANGED <<sub, n>>

TurnOnPower ==
  /\ pc = "switch" /\ sub = "TURN_ON_POWER" /\ pc' = "attachIE"
  /\ usb1ie' = TRUE /\ NextThenEnable(1)
  /\ UNCHANGED <<override, saved, ep0, events, timer, detachIF, tryVars, infoVars, appVars,
                 busVars, history>>

EnableAttach ==
  /\ pc = "attachIE" /\ NextThenEnable(2) /\ pc' = "tasks"
  /\ UNCHANGED <<override, saved, ep0, events, usb1ie, timer, detachIF, tryVars, infoVars,
                 appVars, busVars, history>>

\* States in which a call of USBHostTasks changes nothing: the delays, a request
\* on its way, and the two in which the host waits for an interrupt.
Waiting ==
  \/ sub \in {"WAIT_FOR_DEVICE", "NORMAL_RUN", "HOLD"}
  \/ sub = "SETTLE" /\ n = 1
  \/ sub = "RESET_DEVICE" /\ n \in {1, 3}
  \/ sub \in Commands /\ n = 1 /\ ep0 = "busy"

Wait ==
  /\ pc = "switch" /\ Waiting /\ pc' = "tasks"
  /\ UNCHANGED <<sub, n, override, saved, ep0, events, hwVars, tryVars, infoVars, appVars,
                 busVars, history>>

-----------------------------------------------------------------------------
(* STATE_ATTACHED.                                                         *)

\* A detach seen before this is forgotten.
StartSettling ==
  /\ Case("SETTLE", 0) /\ SetNextSubSubState
  /\ detachIF' = FALSE /\ u1ie' = u1ie \cup {"DETACH"} /\ timer' = TRUE
  /\ since' = IF plug = NoDevice THEN "absent" ELSE "there"
  /\ Calm /\ UNCHANGED <<override, ep0, usb1ie, tryVars, infoVars, client, attached>>

SettlingDone ==
  /\ Case("SETTLE", 2) /\ SetNextSubState
  /\ Calm /\ UNCHANGED <<override, ep0, hwVars, tryVars, infoVars, client, attached, since>>

NoMemory(s, k) ==
  /\ OutOfMemory /\ Case(s, k) /\ SetHoldState("OUT_OF_MEMORY")
  /\ Calm
  /\ UNCHANGED <<override, ep0, hwVars, tryVars, addr, deviceAddress, desc, list, count, chosen,
                 interfaces, client, attached, since>>

\* The device takes the reset; the host goes back to address 0 only if the
\* device is a slow one.
SetReset ==
  /\ Case("RESET_DEVICE", 0) /\ SetNextSubSubState
  /\ chosen' = 0 /\ InitErrorCounters
  /\ addr' = IF plug.low THEN 0 ELSE addr
  /\ timer' = TRUE
  /\ devAddr' = 0 /\ devConfig' = 0
  /\ UNCHANGED <<override, saved, events, ep0, usb1ie, u1ie, detachIF, enumTries, deviceAddress,
                 desc, list, count, interfaces, errorCode, appVars, plug, history>>

ResetRecovery ==
  /\ Case("RESET_DEVICE", 2) /\ SetNextSubSubState /\ timer' = TRUE
  /\ Calm /\ UNCHANGED <<override, ep0, usb1ie, u1ie, detachIF, tryVars, infoVars, client,
                         attached, since>>

EnumInterruptsNoDetach == {"TOKENS"}
EnumInterrupts         == {"TOKENS", "DETACH"}

ResetComplete ==
  /\ Case("RESET_DEVICE", 4) /\ SetNextSubState
  /\ u1ie' = EnumInterrupts
  /\ Calm /\ UNCHANGED <<override, ep0, usb1ie, timer, detachIF, tryVars, infoVars, client,
                         attached, since>>

ValidateVidPid ==
  /\ Case("VALIDATE_VID_PID", 0) /\ SetNextSubState
  /\ Calm /\ UNCHANGED <<override, ep0, hwVars, tryVars, infoVars, client, attached, since>>

-----------------------------------------------------------------------------
(* The six requests: sent, awaited, evaluated.                             *)

Send ==
  /\ sub \in Commands /\ Case(sub, 0) /\ SetNextSubSubState
  /\ ep0' = "busy"
  /\ deviceAddress' = (deviceAddress \/ sub = "SET_DEVICE_ADDRESS")
  /\ desc' = IF sub = "GET_DEVICE_DESCRIPTOR_SIZE" THEN NoDevice ELSE desc
  /\ Calm
  /\ UNCHANGED <<override, hwVars, tryVars, addr, list, count, chosen, interfaces,
                 errorCode, client, attached, since>>

Unsupported == sub = "GET_DEVICE_DESCRIPTOR_SIZE" /\ desc.hub

Answered == ep0 = "ok"

AwaitedOk ==
  /\ sub \in Commands /\ Case(sub, 1) /\ Answered
  /\ IF Unsupported THEN SetHoldState("UNSUPPORTED_HUB")
                    ELSE SetNextSubSubState /\ UNCHANGED errorCode
  /\ Calm
  /\ UNCHANGED <<override, ep0, hwVars, tryVars, addr, deviceAddress, desc, list, count, chosen,
                 interfaces, client, attached, since>>

AwaitedFailed ==
  /\ sub \in Commands /\ Case(sub, 1) /\ ep0 = "failed"
  /\ CheckAttempts
  /\ Calm
  /\ UNCHANGED <<override, ep0, hwVars, addr, deviceAddress, desc, list, count, chosen,
                 interfaces, client, attached, since>>

Completed(s) ==
  /\ Case(s, 2) /\ InitErrorCounters
  /\ Calm /\ UNCHANGED <<override, ep0, hwVars, enumTries, deviceAddress, desc, chosen,
                         interfaces, errorCode, client, attached, since>>

DeviceDescriptorComplete ==
  /\ Completed("GET_DEVICE_DESCRIPTOR_SIZE") \/ Completed("GET_DEVICE_DESCRIPTOR")
  /\ SetNextSubState
  /\ UNCHANGED <<addr, list, count>>

AddressComplete ==
  /\ Completed("SET_DEVICE_ADDRESS") /\ SetNextSubState
  /\ addr' = 1
  /\ UNCHANGED <<list, count>>

-----------------------------------------------------------------------------
(* STATE_CONFIGURING.                                                      *)

InitConfiguration ==
  /\ Case("INIT_CONFIGURATION", 0)
  /\ count' = desc.configs /\ list' = <<>>
  /\ IF count' = 0 THEN SetHoldState("CLIENT_INIT_ERROR")
                   ELSE SetNextSubState /\ UNCHANGED errorCode
  /\ Calm
  /\ UNCHANGED <<override, ep0, hwVars, tryVars, addr, deviceAddress, desc, chosen, interfaces,
                 client, attached, since>>

\* The new descriptor goes to the front of the list.
ConfigSizeComplete ==
  /\ Completed("GET_CONFIG_DESCRIPTOR_SIZE") /\ SetNextSubState
  /\ list' = <<[num |-> count, full |-> FALSE, midi |-> FALSE]>> \o list
  /\ UNCHANGED <<addr, count>>

MoreConfigsOneShort == count' > 1
MoreConfigs         == count' # 0

ConfigComplete ==
  /\ Completed("GET_CONFIG_DESCRIPTOR")
  /\ count' = count - 1
  /\ IF MoreConfigs THEN State("GET_CONFIG_DESCRIPTOR_SIZE", 0) ELSE SetNextSubState
  /\ UNCHANGED <<addr, list>>

\* _USB_ParseConfigurationDescriptor succeeds for a configuration with a MIDI
\* interface, if the memory lasts.  The first one in the list is taken.
SelectConfiguration ==
  /\ Case("SELECT_CONFIGURATION", 0)
  /\ \E k \in 0 .. Len(list) :
       /\ \A i \in 1 .. Len(list) : i < k \/ k = 0 => ~list[i].midi \/ OutOfMemory
       /\ IF k = 0
          THEN /\ SetHoldState("UNSUPPORTED_DEVICE")
               /\ chosen' = chosen /\ interfaces' = FALSE
          ELSE /\ list[k].midi /\ SetNextSubSubState
               /\ chosen' = list[k].num /\ interfaces' = TRUE
               /\ UNCHANGED errorCode
  /\ Calm
  /\ UNCHANGED <<override, ep0, hwVars, tryVars, addr, deviceAddress, desc, list, count, client,
                 attached, since>>

\* Without USB_SUPPORT_OTG every configuration counts as configured for OTG,
\* and the application asks for no delay.
SkipOtg ==
  /\ Case("SELECT_CONFIGURATION", 1) \/ Case("APPLICATION_CONFIGURATION", 0)
  /\ SetNextSubState
  /\ Calm /\ UNCHANGED <<override, ep0, hwVars, tryVars, infoVars, client, attached, since>>

ConfigurationSet ==
  /\ Completed("SET_CONFIGURATION") /\ SetNextSubSubState
  /\ UNCHANGED <<addr, list, count>>

\* RUNNING, then USBHostMIDIInit: it binds the client and, unless it fails,
\* tells the application with EVENT_MIDI_ATTACH.
InitOutcomeToldFirst ==
  /\ attached' = TRUE
  /\ \/ SetNextSubState /\ UNCHANGED errorCode
     \/ OutOfMemory /\ SetHoldState("CLIENT_INIT_ERROR")

InitOutcome ==
  \/ attached' = TRUE /\ SetNextSubState /\ UNCHANGED errorCode
  \/ OutOfMemory /\ SetHoldState("CLIENT_INIT_ERROR") /\ UNCHANGED attached

InitClientDrivers ==
  /\ Case("SET_CONFIGURATION", 3)
  /\ client' = TRUE /\ InitOutcome
  /\ Calm
  /\ UNCHANGED <<override, ep0, hwVars, tryVars, addr, deviceAddress, desc, list, count, chosen,
                 interfaces, since>>

-----------------------------------------------------------------------------
(* STATE_HOLDING.                                                          *)

HoldMask ==
  /\ pc = "switch" /\ sub = "HOLD_INIT" /\ u1ie' = {} /\ pc' = "holdClear"
  /\ UNCHANGED <<sub, n, override, saved, ep0, events, usb1ie, timer, detachIF, tryVars,
                 infoVars, appVars, busVars, history>>

\* U1IR and the timer's enable bit are cleared before DETACHIE is set.  (The
\* subsubstate STATE_HOLDING is left with lies outside its mask; the case for it
\* is the default, which does nothing either.)
HoldInit ==
  /\ pc = "holdClear" /\ pc' = "tasks"
  /\ detachIF' = FALSE /\ timer' = FALSE /\ u1ie' = {"DETACH"}
  /\ State("HOLD", 0)
  /\ UNCHANGED <<override, saved, ep0, events, usb1ie, tryVars, infoVars, appVars, busVars,
                 history>>

-----------------------------------------------------------------------------
Isr  == IsrTimer \/ IsrAttach \/ IsrDetach \/ Transfer

Tasks ==
  \/ EventMask \/ EventRemove \/ Override \/ ClearOverride \/ Wait
  \/ InitializeHost \/ ResetProcessor \/ WaitForPower \/ TurnOnPower \/ EnableAttach
  \/ StartSettling \/ SettlingDone \/ SetReset \/ ResetRecovery \/ ResetComplete
  \/ ValidateVidPid \/ Send \/ AwaitedOk \/ AwaitedFailed
  \/ DeviceDescriptorComplete \/ AddressComplete
  \/ InitConfiguration \/ ConfigSizeComplete \/ ConfigComplete \/ SelectConfiguration
  \/ SkipOtg \/ ConfigurationSet \/ InitClientDrivers
  \/ HoldMask \/ HoldInit
  \/ NoMemory("RESET_DEVICE", 0) \/ NoMemory("GET_DEVICE_DESCRIPTOR_SIZE", 2)
  \/ NoMemory("GET_CONFIG_DESCRIPTOR_SIZE", 2)

Main == Tasks \/ RoleRound

Next == Main \/ Isr \/ ScanTick \/ Unplug \/ \E d \in Devices : Plug(d)

\* Main and the interrupts run and Timer 2 ticks; nobody has to plug anything.
Spec == Init /\ [][Next]_vars /\ WF_vars(Main) /\ WF_vars(Isr) /\ WF_vars(ScanTick)

-----------------------------------------------------------------------------
(* Properties.                                                             *)

Interrupts == {"ATTACH", "DETACH", "TOKENS"}

TypeOK ==
  /\ pc \in {"tasks", "remove", "clear", "switch", "attachIE", "holdClear"}
  /\ sub \in Substates /\ n \in 0 .. 4
  /\ override \in {"NO_STATE", "ATTACHED", "DETACHED"}
  /\ usb1ie \in BOOLEAN /\ u1ie \subseteq Interrupts /\ saved \subseteq Interrupts
  /\ timer \in BOOLEAN /\ detachIF \in BOOLEAN
  /\ ep0 \in {"idle", "busy", "ok", "failed"} /\ events \in BOOLEAN
  /\ cmdTries \in 0 .. CommandTries /\ enumTries \in 0 .. EnumTries
  /\ addr \in {0, 1} /\ deviceAddress \in BOOLEAN
  /\ desc \in Devices \cup {NoDevice}
  /\ list \in Seq([num : Nat, full : BOOLEAN, midi : BOOLEAN])
  /\ count \in Nat /\ chosen \in Nat /\ interfaces \in BOOLEAN
  /\ client \in BOOLEAN /\ attached \in BOOLEAN /\ leave \in BOOLEAN
  /\ errorCode \in {"NONE", "CANNOT_ENUMERATE", "UNSUPPORTED_HUB", "UNSUPPORTED_DEVICE",
                    "CLIENT_INIT_ERROR", "OUT_OF_MEMORY"}
  /\ plug \in Devices \cup {NoDevice} /\ devAddr \in {0, 1} /\ devConfig \in Nat
  /\ faults \in 0 .. MaxFaults /\ cuts \in 0 .. MaxCuts /\ since \in {"absent", "there", "gone"}

DetachPending == override = "DETACHED" \/ detachIF

\* The host is never waiting for a device with the attach interrupt off: an
\* instrument plugged in at whatever moment is found.  It is off whenever the
\* interrupt comes while the state machine is not there yet.
AttachNotLost ==
  sub = "WAIT_FOR_DEVICE" /\ pc # "attachIE" => Interrupt("ATTACH") \/ override = "ATTACHED"

\* From the settling delay until the device is given up its removal is noticed,
\* even if the same or another one is plugged in again at once, and although
\* U1IE is saved and restored around the event queue.
DetachNotLost ==
  since = "gone" /\ sub \notin Detached \cup Holding /\ ~(sub = "SETTLE" /\ n = 0) =>
    override = "DETACHED" \/ (detachIF /\ Interrupt("DETACH"))

\* The configuration is chosen among all of the device's configurations, each
\* read to its end, whatever had to be repeated in between.
AllConfigsRead ==
  sub = "SELECT_CONFIGURATION" /\ n = 0 =>
    /\ Len(list) = desc.configs
    /\ \A i \in 1 .. Len(list) : list[i].num = i /\ list[i].full

GivenUp   == sub \in Holding /\ errorCode = "CANNOT_ENUMERATE" /\ since = "there"
TriesUsed == faults >= CommandTries * EnumTries

\* A full speed device that stays and has never been given its address is held as
\* not enumerable only after it has left CommandTries requests unanswered in each
\* of EnumTries enumerations (usb_host.c:2810-2844).
GivenUpLate == GivenUp /\ addr = 0 /\ ~plug.low => TriesUsed

\* usb_host.c:2793-2795: "If the command fails and there are more enumeration
\* attempts, we reset and try to enumerate again", so that no device that stays is
\* held before it has had all its tries.  False of the code once the device has been
\* addressed: after the reset the host goes on asking at the old address.
TriesGranted == GivenUp => TriesUsed

\* Once the application knows of a device, the role scan has stopped, and only
\* the reset on its removal starts it again: that must come.
ForgetsDevice == <>[](plug = NoDevice) => <>[]~attached

\* An instrument that stays, and is at fault a bounded number of times, is found,
\* unless the memory does not last, again and again.
FindsDevice ==
  \A d \in Devices : d.midi # {} /\ ~d.hub =>
    (<>[](plug = d) => <>[]attached \/ []<>(sub = "HOLD" /\ errorCode # "CANNOT_ENUMERATE"))

Phase ==
  CASE sub \in Detached                      -> "absent"
    [] sub \in Holding                       -> "held"
    [] sub = "NORMAL_RUN"                    -> "running"
    [] OTHER                                 -> "enumerating"

\* What is left of an enumeration, the weightiest part first: the enumerations it
\* may be begun anew, the part of the sequence (before, while and after the
\* configurations are read), the configurations to read, the place in Order, the
\* tries of a request and the steps of the state.
Reading  == sub \in {"GET_CONFIG_DESCRIPTOR_SIZE", "GET_CONFIG_DESCRIPTOR"}
Place(s) == CHOOSE i \in 1 .. 17 : Order[i] = s
ToGo ==
  <<enumTries,
    IF Reading THEN 1 ELSE IF Place(sub) < Place("SELECT_CONFIGURATION") THEN 2 ELSE 0,
    IF Reading THEN count ELSE 0,
    17 - Place(sub),
    IF sub \in Commands /\ n < 3 THEN cmdTries ELSE 0,
    4 - n>>

Less(a, b) == \E i \in 1 .. 6 : a[i] < b[i] /\ \A j \in 1 .. i - 1 : a[j] = b[j]
Finite     == \A i \in 1 .. 6 : ToGo[i] \in Nat

\* The tries of requests, the enumerations and the loop over the configurations are
\* nested so that no enumeration goes round for ever, even if the device is replaced
\* by another one meanwhile: it ends in NORMAL_RUN or STATE_HOLDING, or is cut short.
EnumerationShrinks ==
  [][Phase = "enumerating" /\ Phase' = "enumerating" =>
       /\ Finite
       /\ IF <<sub, n>>' = <<sub, n>> THEN ToGo' = ToGo ELSE Less(ToGo', ToGo)]_vars

Abstract ==
  INSTANCE Enumeration WITH
    phase <- Phase, tries <- enumTries, told <- attached,
    ready <- plug = NoDevice \/ DetachPending
                    \/ (devAddr = addr /\ devConfig = chosen /\ chosen \in plug.midi)

\* The state machine keeps the promise of Enumeration.
KeepsPromise == Abstract!ESpec
=============================================================================
