-------------------------- MODULE HostEnum_proofs --------------------------
(***************************************************************************)
(* Proofs about HostEnum for any devices, numbers of tries and faults:     *)
(* its invariants, and that it implements Enumeration.                     *)
(*                                                                         *)
(* The lemma that a part of the invariant is kept has one step per action; *)
(* where few actions touch the part, the others are taken together.        *)
(***************************************************************************)
EXTENDS HostEnum, SequenceTheorems, TLAPS

-----------------------------------------------------------------------------
(* The invariants.                                                         *)

\* The subsubstates of a substate.
LastStep(s) ==
  CASE s = "RESET_DEVICE"             -> 4
    [] s = "SET_CONFIGURATION"        -> 3
    [] s \in (Commands \cup {"SETTLE"}) \ {"SET_CONFIGURATION"} -> 2
    [] s = "SELECT_CONFIGURATION"     -> 1
    [] OTHER                          -> 0

\* Where main can be in which state, and when the two interrupts that change the
\* state can come.
PlaceInv ==
  /\ n \in 0 .. LastStep(sub)
  /\ pc = "attachIE" => sub = "WAIT_FOR_DEVICE"
  /\ pc = "holdClear" => sub = "HOLD_INIT"
  /\ pc = "clear" => sub \in {"INITIALIZE", "SETTLE"} /\ n = 0
  /\ pc # "remove" => saved = {}
  /\ override = "ATTACHED" => sub = "WAIT_FOR_DEVICE" \/ (pc = "clear" /\ sub = "SETTLE")
  /\ timer => \/ sub = "INITIALIZE"
              \/ sub = "SETTLE" /\ n = 1
              \/ sub = "RESET_DEVICE" /\ n \in {1, 3}

Before     == Detached \ {"INITIALIZE"}
Addressing == sub \notin Detached \cup Holding \cup {"SETTLE"} /\ ~(sub = "RESET_DEVICE" /\ n = 0)

TryInv ==
  /\ sub \in Before \cup {"SETTLE"} => enumTries = EnumTries
  /\ sub \notin {"INITIALIZE"} \cup Holding => enumTries >= 1
  /\ Addressing => cmdTries >= 1
  /\ sub \in {"GET_CONFIG_DESCRIPTOR_SIZE", "GET_CONFIG_DESCRIPTOR"} => count >= 1

\* The list of configurations while it is being read: it ends with the last one.
ListInv ==
  /\ sub = "GET_CONFIG_DESCRIPTOR_SIZE" =>
       /\ Len(list) + count = desc.configs
       /\ \A i \in 1 .. Len(list) : list[i].num = count + i /\ list[i].full
  /\ sub = "GET_CONFIG_DESCRIPTOR" =>
       /\ Len(list) >= 1 /\ Len(list) + count = desc.configs + 1
       /\ \A i \in 1 .. Len(list) : list[i].num = count + i - 1 /\ (i > 1 => list[i].full)
       /\ n = 2 \/ (n = 1 /\ ep0 = "ok") => list[1].full
  /\ sub = "SELECT_CONFIGURATION" =>
       /\ Len(list) = desc.configs
       /\ \A i \in 1 .. Len(list) : list[i].num = i /\ list[i].full

\* The interrupt is on and nobody is waited for with the attach interrupt off,
\* not even after U1IE has been restored.
AttachInv ==
  /\ sub \notin Detached \ {"WAIT_FOR_DEVICE"} => usb1ie
  /\ sub \in Before => "DETACH" \notin u1ie \cup saved
  /\ sub = "WAIT_FOR_DEVICE" /\ pc # "attachIE" =>
       override = "ATTACHED" \/ ("ATTACH" \in u1ie /\ (pc = "remove" => "ATTACH" \in saved))

\* The host has taken notice of a device.
Noticed == sub \notin Detached \cup Holding /\ ~(sub = "SETTLE" /\ n = 0)

DetachInv ==
  Noticed =>
    \/ override = "DETACHED"
    \/ /\ "DETACH" \in u1ie /\ (pc = "remove" => "DETACH" \in saved)
       /\ since = "gone" => detachIF

\* Substates after the device has been asked to take an address, and after a
\* configuration has been selected.
Selected == {"APPLICATION_CONFIGURATION", "SET_CONFIGURATION", "NORMAL_RUN"}
Addressed ==
  {"INIT_CONFIGURATION", "GET_CONFIG_DESCRIPTOR_SIZE", "GET_CONFIG_DESCRIPTOR",
   "SELECT_CONFIGURATION"} \cup Selected

\* What the application knows of a device holds until the reset.
ToldInv ==
  /\ attached => sub \in {"NORMAL_RUN", "INITIALIZE"} /\ deviceAddress /\ interfaces /\ client
  /\ sub \in Addressed \/ (sub = "SET_DEVICE_ADDRESS" /\ n >= 1) => deviceAddress
  /\ sub \in Selected \/ (sub = "SELECT_CONFIGURATION" /\ n = 1) => interfaces

\* Only configurations of the device that is plugged in are taken for MIDI, and
\* one of these is chosen and then set.
ReadyInv ==
  /\ sub \in Before \cup {"SETTLE"} => list = <<>>
  /\ Noticed /\ since # "gone" =>
       /\ \A i \in 1 .. Len(list) : list[i].midi => list[i].num \in plug.midi
       /\ sub \in Selected \/ (sub = "SELECT_CONFIGURATION" /\ n = 1) => chosen \in plug.midi
       /\ sub = "SET_CONFIGURATION" /\ (n \in {2, 3} \/ (n = 1 /\ ep0 = "ok")) =>
            devAddr = addr /\ devConfig = chosen

\* A device that stays answers at address 0 until it has been given another one,
\* but for the requests it is at fault with: their number is that of the tries
\* used up.
There    == since = "there" /\ addr = 0 /\ ~plug.low
Used     == CommandTries * (EnumTries - enumTries)
Failed   == IF sub \in Commands /\ n = 1 /\ ep0 = "failed" THEN 1 ELSE 0

CountInv ==
  /\ since = "there" => plug # NoDevice
  /\ ep0 = "busy" => sub = "INITIALIZE" \/ (sub \in Commands /\ n = 1)
  /\ There /\ Addressing =>
       /\ faults >= Used + (CommandTries - cmdTries) + Failed
       /\ devAddr # 0 => sub = "SET_DEVICE_ADDRESS" /\ (n = 2 \/ (n = 1 /\ ep0 = "ok"))
  /\ There /\ sub = "RESET_DEVICE" => faults >= Used
  /\ There /\ sub \in Holding /\ errorCode = "CANNOT_ENUMERATE" =>
       faults >= CommandTries * EnumTries


-----------------------------------------------------------------------------
(* The substates and their order.                                          *)

LEMMA OrderDistinct == \A i, j \in 1 .. 17 : Order[i] = Order[j] => i = j
  BY DEF Order

LEMMA SuccessorOf == \A i \in 1 .. 16 : Successor(Order[i]) = Order[i + 1]
<1> SUFFICES ASSUME NEW i \in 1 .. 16 PROVE Successor(Order[i]) = Order[i + 1]
  OBVIOUS
<1>1. (CHOOSE j \in 1 .. 16 : Order[j] = Order[i]) = i
  BY OrderDistinct
<1> QED BY <1>1 DEF Successor

\* The next substate of each one that has one.
LEMMA Successors ==
  /\ Successor("INITIALIZE") = "WAIT_FOR_POWER"
  /\ Successor("WAIT_FOR_POWER") = "TURN_ON_POWER"
  /\ Successor("TURN_ON_POWER") = "WAIT_FOR_DEVICE"
  /\ Successor("WAIT_FOR_DEVICE") = "SETTLE"
  /\ Successor("SETTLE") = "RESET_DEVICE"
  /\ Successor("RESET_DEVICE") = "GET_DEVICE_DESCRIPTOR_SIZE"
  /\ Successor("GET_DEVICE_DESCRIPTOR_SIZE") = "GET_DEVICE_DESCRIPTOR"
  /\ Successor("GET_DEVICE_DESCRIPTOR") = "VALIDATE_VID_PID"
  /\ Successor("VALIDATE_VID_PID") = "SET_DEVICE_ADDRESS"
  /\ Successor("SET_DEVICE_ADDRESS") = "INIT_CONFIGURATION"
  /\ Successor("INIT_CONFIGURATION") = "GET_CONFIG_DESCRIPTOR_SIZE"
  /\ Successor("GET_CONFIG_DESCRIPTOR_SIZE") = "GET_CONFIG_DESCRIPTOR"
  /\ Successor("GET_CONFIG_DESCRIPTOR") = "SELECT_CONFIGURATION"
  /\ Successor("SELECT_CONFIGURATION") = "APPLICATION_CONFIGURATION"
  /\ Successor("APPLICATION_CONFIGURATION") = "SET_CONFIGURATION"
  /\ Successor("SET_CONFIGURATION") = "NORMAL_RUN"
<1>1. Successor("INITIALIZE") = "WAIT_FOR_POWER"
  BY SuccessorOf, 1 \in 1 .. 16 DEF Order
<1>2. Successor("WAIT_FOR_POWER") = "TURN_ON_POWER"
  BY SuccessorOf, 2 \in 1 .. 16 DEF Order
<1>3. Successor("TURN_ON_POWER") = "WAIT_FOR_DEVICE"
  BY SuccessorOf, 3 \in 1 .. 16 DEF Order
<1>4. Successor("WAIT_FOR_DEVICE") = "SETTLE"
  BY SuccessorOf, 4 \in 1 .. 16 DEF Order
<1>5. Successor("SETTLE") = "RESET_DEVICE"
  BY SuccessorOf, 5 \in 1 .. 16 DEF Order
<1>6. Successor("RESET_DEVICE") = "GET_DEVICE_DESCRIPTOR_SIZE"
  BY SuccessorOf, 6 \in 1 .. 16 DEF Order
<1>7. Successor("GET_DEVICE_DESCRIPTOR_SIZE") = "GET_DEVICE_DESCRIPTOR"
  BY SuccessorOf, 7 \in 1 .. 16 DEF Order
<1>8. Successor("GET_DEVICE_DESCRIPTOR") = "VALIDATE_VID_PID"
  BY SuccessorOf, 8 \in 1 .. 16 DEF Order
<1>9. Successor("VALIDATE_VID_PID") = "SET_DEVICE_ADDRESS"
  BY SuccessorOf, 9 \in 1 .. 16 DEF Order
<1>10. Successor("SET_DEVICE_ADDRESS") = "INIT_CONFIGURATION"
  BY SuccessorOf, 10 \in 1 .. 16 DEF Order
<1>11. Successor("INIT_CONFIGURATION") = "GET_CONFIG_DESCRIPTOR_SIZE"
  BY SuccessorOf, 11 \in 1 .. 16 DEF Order
<1>12. Successor("GET_CONFIG_DESCRIPTOR_SIZE") = "GET_CONFIG_DESCRIPTOR"
  BY SuccessorOf, 12 \in 1 .. 16 DEF Order
<1>13. Successor("GET_CONFIG_DESCRIPTOR") = "SELECT_CONFIGURATION"
  BY SuccessorOf, 13 \in 1 .. 16 DEF Order
<1>14. Successor("SELECT_CONFIGURATION") = "APPLICATION_CONFIGURATION"
  BY SuccessorOf, 14 \in 1 .. 16 DEF Order
<1>15. Successor("APPLICATION_CONFIGURATION") = "SET_CONFIGURATION"
  BY SuccessorOf, 15 \in 1 .. 16 DEF Order
<1>16. Successor("SET_CONFIGURATION") = "NORMAL_RUN"
  BY SuccessorOf, 16 \in 1 .. 16 DEF Order
<1> QED BY <1>1, <1>2, <1>3, <1>4, <1>5, <1>6, <1>7, <1>8, <1>9, <1>10, <1>11, <1>12,
           <1>13, <1>14, <1>15, <1>16

-----------------------------------------------------------------------------
(* Types, the place of main and the tries left.                            *)

LEMMA SubstatesAre ==
  Substates =
   {"INITIALIZE", "WAIT_FOR_POWER", "TURN_ON_POWER", "WAIT_FOR_DEVICE", "SETTLE",
    "RESET_DEVICE", "GET_DEVICE_DESCRIPTOR_SIZE", "GET_DEVICE_DESCRIPTOR",
    "VALIDATE_VID_PID", "SET_DEVICE_ADDRESS", "INIT_CONFIGURATION",
    "GET_CONFIG_DESCRIPTOR_SIZE", "GET_CONFIG_DESCRIPTOR", "SELECT_CONFIGURATION",
    "APPLICATION_CONFIGURATION", "SET_CONFIGURATION", "NORMAL_RUN", "HOLD_INIT", "HOLD"}
  BY DEF Substates, Order

LEMMA LastSteps ==
  /\ LastStep("RESET_DEVICE") = 4 /\ LastStep("SET_CONFIGURATION") = 3
  /\ LastStep("SELECT_CONFIGURATION") = 1
  /\ \A s \in Commands \cup {"SETTLE"} : LastStep(s) \in 2 .. 3
  /\ \A s \in Substates : LastStep(s) \in 0 .. 4
  BY DEF LastStep, Commands

\* TypeOK in parts: values, flags, masks and the list.
Values ==
  /\ pc \in {"tasks", "remove", "clear", "switch", "attachIE", "holdClear"}
  /\ sub \in Substates /\ n \in 0 .. 4
  /\ override \in {"NO_STATE", "ATTACHED", "DETACHED"}
  /\ ep0 \in {"idle", "busy", "ok", "failed"}
  /\ cmdTries \in 0 .. CommandTries /\ enumTries \in 0 .. EnumTries
  /\ addr \in {0, 1} /\ count \in Nat /\ chosen \in Nat
  /\ errorCode \in {"NONE", "CANNOT_ENUMERATE", "UNSUPPORTED_HUB", "UNSUPPORTED_DEVICE",
                    "CLIENT_INIT_ERROR", "OUT_OF_MEMORY"}
  /\ devAddr \in {0, 1} /\ devConfig \in Nat
  /\ faults \in 0 .. MaxFaults /\ cuts \in 0 .. MaxCuts /\ since \in {"absent", "there", "gone"}
Flags ==
  /\ usb1ie \in BOOLEAN /\ timer \in BOOLEAN /\ detachIF \in BOOLEAN /\ events \in BOOLEAN
  /\ deviceAddress \in BOOLEAN /\ interfaces \in BOOLEAN
  /\ client \in BOOLEAN /\ attached \in BOOLEAN /\ leave \in BOOLEAN
Partners == desc \in Devices \cup {NoDevice} /\ plug \in Devices \cup {NoDevice}
Masks    == u1ie \subseteq Interrupts /\ saved \subseteq Interrupts
Config   == [num : Nat, full : BOOLEAN, midi : BOOLEAN]
Listed   == list \in Seq(Config)

LEMMA TypeParts == TypeOK <=> Values /\ Flags /\ Partners /\ Masks /\ Listed
  BY DEF TypeOK, Values, Flags, Partners, Masks, Listed, Config

LEMMA Elements ==
  Listed => /\ \A i \in 1 .. Len(list) : list[i] \in Config
            /\ list # <<>> => 1 \in 1 .. Len(list)
  BY EmptySeq, ElementOfSeq, LenProperties DEF Listed

\* The number of configurations is a natural number, also without a device.
LEMMA DescType == Partners => desc.configs \in Nat
  BY EnumConstants DEF Partners, NoDevice

Base == Values /\ Flags /\ Partners /\ Masks /\ Listed /\ PlaceInv /\ TryInv

LEMMA BaseInit == Init => Base
<1> SUFFICES ASSUME Init PROVE Base
  OBVIOUS
<1> USE EnumConstants DEF Init
<1>1. Values
  BY SubstatesAre DEF Values
<1>2. Flags /\ Partners /\ Masks
  BY DEF Flags, Partners, Masks
<1>5. Listed
  BY DEF Listed
<1>3. PlaceInv
  BY LastSteps, SubstatesAre DEF PlaceInv
<1>4. TryInv
  BY DEF TryInv, Before, Addressing, Detached, Holding
<1> QED BY <1>1, <1>2, <1>3, <1>4, <1>5 DEF Base

LEMMA MasksStep == Base /\ [Next]_vars => Masks'
<1> SUFFICES ASSUME Base, [Next]_vars PROVE Masks'
  OBVIOUS
<1> USE DEF
        Base, Masks, Interrupts, State, SetNextSubState, SetNextSubSubState,
        SetHoldState, InitErrorCounters, Case, Calm, busVars, hwVars, tryVars, infoVars,
        appVars, history
<1>1. CASE EventMask
  BY <1>1 DEF EventMask, Enter
<1>2. CASE EventRemove
  BY <1>2 DEF EventRemove
<1>3. CASE InitializeHost
  BY <1>3 DEF InitializeHost, DetachResets, SetTries
<1>4. CASE ResetProcessor
  BY <1>4 DEF ResetProcessor, DetachResets
<1>5. CASE EnableAttach
  BY <1>5 DEF EnableAttach, NextThenEnable
<1>6. CASE TurnOnPower
  BY <1>6 DEF TurnOnPower, NextThenEnable
<1>7. CASE StartSettling
  BY <1>7 DEF StartSettling
<1>8. CASE ResetComplete
  BY <1>8 DEF ResetComplete, EnumInterrupts
<1>9. CASE HoldMask
  BY <1>9 DEF HoldMask
<1>10. CASE HoldInit
  BY <1>10 DEF HoldInit
<1>11. CASE RoleRound
  BY <1>11 DEF RoleRound, HostInit
<1>12. CASE IsrAttach
  BY <1>12 DEF IsrAttach, Interrupt
<1>13. CASE IsrDetach
  BY <1>13 DEF IsrDetach, Interrupt
<1>14. ASSUME NEW d \in Devices, Plug(d) PROVE Masks'
  BY <1>14 DEF Plug
<1>15. CASE \/ Override \/ ClearOverride \/ Wait \/ WaitForPower
          \/ SettlingDone \/ SetReset \/ ResetRecovery \/ ValidateVidPid
  BY <1>15 DEF
     Override, ClearOverride, Wait, WaitForPower, SettlingDone, SetReset, ResetRecovery,
     ValidateVidPid, Enter, Waiting
<1>16. CASE \/ Send \/ AwaitedOk \/ AwaitedFailed \/ DeviceDescriptorComplete
          \/ AddressComplete \/ InitConfiguration \/ ConfigSizeComplete \/ ConfigComplete
  BY <1>16 DEF
     Send, AwaitedOk, AwaitedFailed, DeviceDescriptorComplete, AddressComplete,
     InitConfiguration, ConfigSizeComplete, ConfigComplete, Answered, Unsupported,
     CheckAttempts, Completed, MoreConfigs
<1>17. CASE \/ SelectConfiguration \/ SkipOtg \/ ConfigurationSet \/ InitClientDrivers
          \/ NoMemory("RESET_DEVICE", 0)
          \/ NoMemory("GET_DEVICE_DESCRIPTOR_SIZE", 2)
          \/ NoMemory("GET_CONFIG_DESCRIPTOR_SIZE", 2)
          \/ IsrTimer
  BY <1>17 DEF
     SelectConfiguration, SkipOtg, ConfigurationSet, InitClientDrivers, NoMemory,
     IsrTimer, Completed, InitOutcome
<1>18. CASE \/ Answer \/ NoAnswer \/ Fault \/ LostAcknowledgement
          \/ ScanTick \/ Unplug
  BY <1>18 DEF
     Answer, NoAnswer, Fault, LostAcknowledgement, ScanTick, Unplug, Reaches, Finish,
     Obeyed, Asks, Idle, Interrupt
<1>19. CASE UNCHANGED vars
  BY <1>19 DEF vars
<1>20. CASE Tasks
  BY <1>20,
     <1>1, <1>2, <1>3, <1>4, <1>5, <1>6, <1>7, <1>8, <1>9, <1>10, <1>15, <1>16, <1>17 DEF Tasks
<1>21. CASE Isr
  BY <1>21,
     <1>12, <1>13, <1>17, <1>18 DEF Isr, Transfer
<1> QED BY <1>11, <1>14, <1>18, <1>19, <1>20, <1>21 DEF Next, Main

LEMMA PartnersStep == Base /\ [Next]_vars => Partners'
<1> SUFFICES ASSUME Base, [Next]_vars PROVE Partners'
  OBVIOUS
<1> USE DEF
        Base, Partners, State, SetNextSubState, SetNextSubSubState, SetHoldState,
        InitErrorCounters, Case, Calm, busVars, hwVars, tryVars, infoVars, appVars,
        history
<1>1. CASE InitializeHost
  BY <1>1 DEF InitializeHost, DetachResets, SetTries
<1>2. CASE ResetProcessor
  BY <1>2 DEF ResetProcessor, DetachResets
<1>3. CASE RoleRound
  BY <1>3 DEF RoleRound, HostInit
<1>4. CASE Send
  BY <1>4 DEF Send
<1>5. CASE Answer
  BY <1>5 DEF Answer, Reaches, Finish, Obeyed, Asks, Interrupt
<1>6. ASSUME NEW d \in Devices, Plug(d) PROVE Partners'
  BY <1>6 DEF Plug
<1>7. CASE Unplug
  BY <1>7 DEF Unplug
<1>8. CASE \/ EventMask \/ EventRemove \/ Override \/ ClearOverride
          \/ Wait \/ WaitForPower \/ TurnOnPower \/ EnableAttach
  BY <1>8 DEF
     EventMask, EventRemove, Override, ClearOverride, Wait, WaitForPower, TurnOnPower,
     EnableAttach, Enter, Waiting, NextThenEnable
<1>9. CASE \/ StartSettling \/ SettlingDone \/ SetReset \/ ResetRecovery
          \/ ResetComplete \/ ValidateVidPid \/ AwaitedOk \/ AwaitedFailed
  BY <1>9 DEF
     StartSettling, SettlingDone, SetReset, ResetRecovery, ResetComplete,
     ValidateVidPid, AwaitedOk, AwaitedFailed, EnumInterrupts, Answered, Unsupported,
     CheckAttempts
<1>10. CASE \/ DeviceDescriptorComplete \/ AddressComplete \/ InitConfiguration \/ ConfigSizeComplete
          \/ ConfigComplete \/ SelectConfiguration \/ SkipOtg \/ ConfigurationSet
  BY <1>10 DEF
     DeviceDescriptorComplete, AddressComplete, InitConfiguration, ConfigSizeComplete,
     ConfigComplete, SelectConfiguration, SkipOtg, ConfigurationSet, Completed,
     MoreConfigs
<1>11. CASE \/ InitClientDrivers
          \/ HoldMask
          \/ HoldInit
          \/ NoMemory("RESET_DEVICE", 0)
          \/ NoMemory("GET_DEVICE_DESCRIPTOR_SIZE", 2)
          \/ NoMemory("GET_CONFIG_DESCRIPTOR_SIZE", 2)
          \/ IsrTimer
          \/ IsrAttach
  BY <1>11 DEF
     InitClientDrivers, HoldMask, HoldInit, NoMemory, IsrTimer, IsrAttach, InitOutcome,
     Interrupt
<1>12. CASE \/ IsrDetach \/ NoAnswer \/ Fault \/ LostAcknowledgement
          \/ ScanTick
  BY <1>12 DEF
     IsrDetach, NoAnswer, Fault, LostAcknowledgement, ScanTick, Interrupt, Reaches,
     Finish, Asks, Idle
<1>13. CASE UNCHANGED vars
  BY <1>13 DEF vars
<1>14. CASE Tasks
  BY <1>14,
     <1>1, <1>2, <1>4, <1>8, <1>9, <1>10, <1>11 DEF Tasks
<1>15. CASE Isr
  BY <1>15,
     <1>5, <1>11, <1>12 DEF Isr, Transfer
<1> QED BY <1>3, <1>6, <1>7, <1>12, <1>13, <1>14, <1>15 DEF Next, Main

LEMMA ListedStep == Base /\ [Next]_vars => Listed'
<1> SUFFICES ASSUME Base, [Next]_vars PROVE Listed'
  OBVIOUS
<1> USE DEF
        Base, Listed, State, SetNextSubState, SetNextSubSubState, SetHoldState,
        InitErrorCounters, Case, Calm, busVars, hwVars, tryVars, infoVars, appVars,
        history
<1>1. CASE InitializeHost
  BY <1>1 DEF InitializeHost, DetachResets, SetTries
<1>2. CASE ResetProcessor
  BY <1>2 DEF ResetProcessor, DetachResets
<1>3. CASE RoleRound
  BY <1>3 DEF RoleRound, HostInit
<1>4. CASE Answer
  <2>1. CASE list # <<>> /\ Asks("GET_CONFIG_DESCRIPTOR")
    <3>1. list[1] \in Config /\ 1 \in 1 .. Len(list)
      BY <2>1, Elements
    <3>2. PICK c \in Config : list' = [list EXCEPT ![1] = c]
      <4>1. [list[1] EXCEPT !.full = TRUE, !.midi = list[1].num \in plug.midi] \in Config
        <5>1. list[1].num \in Nat /\ (list[1].num \in plug.midi) \in BOOLEAN
          BY <3>1 DEF Config
        <5> QED BY <3>1, <5>1 DEF Config
      <4>2. list' = [list EXCEPT
                ![1] = [list[1] EXCEPT !.full = TRUE, !.midi = list[1].num \in plug.midi]]
        BY <1>4, <2>1 DEF Answer
      <4> QED BY <4>1, <4>2
    <3> QED BY <3>1, <3>2, ExceptSeq DEF Config
  <2>2. CASE ~(list # <<>> /\ Asks("GET_CONFIG_DESCRIPTOR"))
    BY <1>4, <2>2 DEF Answer
  <2> QED BY <2>1, <2>2
<1>5. CASE InitConfiguration
  BY <1>5 DEF InitConfiguration
<1>6. CASE ConfigSizeComplete
  <2>1. [num |-> count, full |-> FALSE, midi |-> FALSE] \in Config
    BY DEF Config, Values
  <2>2. <<[num |-> count, full |-> FALSE, midi |-> FALSE]>> \in Seq(Config)
    BY <2>1
  <2> QED BY <1>6, <2>2, ConcatProperties DEF ConfigSizeComplete, Config
<1>7. ASSUME NEW d \in Devices, Plug(d) PROVE Listed'
  BY <1>7 DEF Plug
<1>8. CASE \/ EventMask \/ EventRemove \/ Override \/ ClearOverride
          \/ Wait \/ WaitForPower \/ TurnOnPower \/ EnableAttach
  BY <1>8 DEF
     EventMask, EventRemove, Override, ClearOverride, Wait, WaitForPower, TurnOnPower,
     EnableAttach, Enter, Waiting, NextThenEnable
<1>9. CASE \/ StartSettling \/ SettlingDone \/ SetReset \/ ResetRecovery
          \/ ResetComplete \/ ValidateVidPid \/ Send \/ AwaitedOk
  BY <1>9 DEF
     StartSettling, SettlingDone, SetReset, ResetRecovery, ResetComplete,
     ValidateVidPid, Send, AwaitedOk, EnumInterrupts, Answered, Unsupported
<1>10. CASE \/ AwaitedFailed \/ DeviceDescriptorComplete \/ AddressComplete \/ ConfigComplete
          \/ SelectConfiguration \/ SkipOtg \/ ConfigurationSet \/ InitClientDrivers
  BY <1>10 DEF
     AwaitedFailed, DeviceDescriptorComplete, AddressComplete, ConfigComplete,
     SelectConfiguration, SkipOtg, ConfigurationSet, InitClientDrivers, CheckAttempts,
     Completed, MoreConfigs, InitOutcome
<1>11. CASE \/ HoldMask
          \/ HoldInit
          \/ NoMemory("RESET_DEVICE", 0)
          \/ NoMemory("GET_DEVICE_DESCRIPTOR_SIZE", 2)
          \/ NoMemory("GET_CONFIG_DESCRIPTOR_SIZE", 2)
          \/ IsrTimer
          \/ IsrAttach
          \/ IsrDetach
  BY <1>11 DEF
     HoldMask, HoldInit, NoMemory, IsrTimer, IsrAttach, IsrDetach, Interrupt
<1>12. CASE \/ NoAnswer \/ Fault \/ LostAcknowledgement \/ ScanTick
          \/ Unplug
  BY <1>12 DEF
     NoAnswer, Fault, LostAcknowledgement, ScanTick, Unplug, Reaches, Finish, Asks,
     Idle, Interrupt
<1>13. CASE UNCHANGED vars
  BY <1>13 DEF vars
<1>14. CASE Tasks
  BY <1>14,
     <1>1, <1>2, <1>5, <1>6, <1>8, <1>9, <1>10, <1>11 DEF Tasks
<1>15. CASE Isr
  BY <1>15,
     <1>4, <1>11, <1>12 DEF Isr, Transfer
<1> QED BY <1>3, <1>7, <1>12, <1>13, <1>14, <1>15 DEF Next, Main

LEMMA FlagsStep == Base /\ [Next]_vars => Flags'
<1> SUFFICES ASSUME Base, [Next]_vars PROVE Flags'
  OBVIOUS
<1> USE DEF
        Base, Flags, State, SetNextSubState, SetNextSubSubState, SetHoldState,
        InitErrorCounters, Case, Calm, busVars, hwVars, tryVars, infoVars, appVars,
        history
<1>1. CASE RoleRound
  BY <1>1 DEF RoleRound, HostInit
<1>2. CASE TurnOnPower
  BY <1>2 DEF TurnOnPower, NextThenEnable
<1>3. CASE StartSettling
  BY <1>3 DEF StartSettling
<1>4. CASE SetReset
  BY <1>4 DEF SetReset
<1>5. CASE ResetRecovery
  BY <1>5 DEF ResetRecovery
<1>6. CASE HoldInit
  BY <1>6 DEF HoldInit
<1>7. CASE IsrTimer
  BY <1>7 DEF IsrTimer
<1>8. CASE IsrDetach
  BY <1>8 DEF IsrDetach, Interrupt
<1>9. CASE Unplug
  BY <1>9 DEF Unplug
<1>10. CASE InitializeHost
  BY <1>10 DEF InitializeHost, DetachResets, SetTries
<1>11. CASE ResetProcessor
  BY <1>11 DEF ResetProcessor, DetachResets
<1>12. CASE EventRemove
  BY <1>12 DEF EventRemove
<1>13. CASE Answer
  BY <1>13 DEF Answer, Reaches, Finish, Obeyed, Asks, Interrupt
<1>14. CASE NoAnswer
  BY <1>14 DEF NoAnswer, Reaches, Finish, Interrupt
<1>15. CASE Fault
  BY <1>15 DEF Fault, Reaches, Finish, Asks, Interrupt
<1>16. CASE LostAcknowledgement
  BY <1>16 DEF LostAcknowledgement, Reaches, Asks, Finish, Interrupt
<1>17. CASE Send
  BY <1>17 DEF Send
<1>18. CASE SelectConfiguration
  BY <1>18 DEF SelectConfiguration
<1>19. CASE InitClientDrivers
  BY <1>19 DEF InitClientDrivers, InitOutcome
<1>20. CASE ScanTick
  BY <1>20 DEF ScanTick, Idle
<1>21. ASSUME NEW d \in Devices, Plug(d) PROVE Flags'
  BY <1>21 DEF Plug
<1>22. CASE \/ EventMask \/ Override \/ ClearOverride \/ Wait
          \/ WaitForPower \/ EnableAttach \/ SettlingDone \/ ResetComplete
  BY <1>22 DEF
     EventMask, Override, ClearOverride, Wait, WaitForPower, EnableAttach, SettlingDone,
     ResetComplete, Enter, Waiting, NextThenEnable, EnumInterrupts
<1>23. CASE \/ ValidateVidPid \/ AwaitedOk \/ AwaitedFailed \/ DeviceDescriptorComplete
          \/ AddressComplete \/ InitConfiguration \/ ConfigSizeComplete \/ ConfigComplete
  BY <1>23 DEF
     ValidateVidPid, AwaitedOk, AwaitedFailed, DeviceDescriptorComplete,
     AddressComplete, InitConfiguration, ConfigSizeComplete, ConfigComplete, Answered,
     Unsupported, CheckAttempts, Completed, MoreConfigs
<1>24. CASE \/ SkipOtg
          \/ ConfigurationSet
          \/ HoldMask
          \/ NoMemory("RESET_DEVICE", 0)
          \/ NoMemory("GET_DEVICE_DESCRIPTOR_SIZE", 2)
          \/ NoMemory("GET_CONFIG_DESCRIPTOR_SIZE", 2)
          \/ IsrAttach
  BY <1>24 DEF
     SkipOtg, ConfigurationSet, HoldMask, NoMemory, IsrAttach, Completed, Interrupt
<1>25. CASE UNCHANGED vars
  BY <1>25 DEF vars
<1>26. CASE Tasks
  BY <1>26,
     <1>2, <1>3, <1>4, <1>5, <1>6, <1>10, <1>11, <1>12, <1>17, <1>18, <1>19, <1>22,
     <1>23, <1>24 DEF Tasks
<1>27. CASE Isr
  BY <1>27,
     <1>7, <1>8, <1>13, <1>14, <1>15, <1>16, <1>24 DEF Isr, Transfer
<1> QED BY <1>1, <1>9, <1>20, <1>21, <1>25, <1>26, <1>27 DEF Next, Main

LEMMA PlaceStep == Base /\ [Next]_vars => PlaceInv'
<1> SUFFICES ASSUME Base, [Next]_vars PROVE PlaceInv'
  OBVIOUS
<1> USE LastSteps, SubstatesAre, Successors
    DEF
        Base, Values, PlaceInv, Detached, Commands, State, SetNextSubState,
        SetNextSubSubState, SetHoldState, InitErrorCounters, Case, Calm, busVars,
        hwVars, tryVars, infoVars, appVars, history
<1>1. CASE EventMask
  BY <1>1 DEF EventMask, Enter
<1>2. CASE EventRemove
  BY <1>2 DEF EventRemove
<1>3. CASE Override
  BY <1>3 DEF Override, Enter
<1>4. CASE ClearOverride
  BY <1>4 DEF ClearOverride
<1>5. CASE Wait
  BY <1>5 DEF Wait, Waiting
<1>6. CASE InitializeHost
  BY <1>6 DEF InitializeHost, DetachResets, SetTries
<1>7. CASE ResetProcessor
  BY <1>7 DEF ResetProcessor, DetachResets
<1>8. CASE WaitForPower
  BY <1>8 DEF WaitForPower
<1>9. CASE TurnOnPower
  BY <1>9 DEF TurnOnPower, NextThenEnable
<1>10. CASE EnableAttach
  BY <1>10 DEF EnableAttach, NextThenEnable
<1>11. CASE StartSettling
  BY <1>11 DEF StartSettling
<1>12. CASE SettlingDone
  BY <1>12 DEF SettlingDone
<1>13. CASE SetReset
  BY <1>13 DEF SetReset
<1>14. CASE ResetRecovery
  BY <1>14 DEF ResetRecovery
<1>15. CASE ResetComplete
  BY <1>15 DEF ResetComplete, EnumInterrupts
<1>16. CASE ValidateVidPid
  BY <1>16 DEF ValidateVidPid
<1>17. CASE Send
  BY <1>17 DEF Send
<1>18. CASE AwaitedOk
  BY <1>18 DEF AwaitedOk, Answered, Unsupported
<1>19. CASE AwaitedFailed
  BY <1>19 DEF AwaitedFailed, CheckAttempts
<1>20. CASE DeviceDescriptorComplete
  BY <1>20 DEF DeviceDescriptorComplete, Completed
<1>21. CASE AddressComplete
  BY <1>21 DEF AddressComplete, Completed
<1>22. CASE InitConfiguration
  BY <1>22 DEF InitConfiguration
<1>23. CASE ConfigSizeComplete
  BY <1>23 DEF ConfigSizeComplete, Completed
<1>24. CASE ConfigComplete
  BY <1>24 DEF ConfigComplete, Completed, MoreConfigs
<1>25. CASE SelectConfiguration
  BY <1>25 DEF SelectConfiguration
<1>26. CASE SkipOtg
  BY <1>26 DEF SkipOtg
<1>27. CASE ConfigurationSet
  BY <1>27 DEF ConfigurationSet, Completed
<1>28. CASE InitClientDrivers
  BY <1>28 DEF InitClientDrivers, InitOutcome
<1>29. CASE HoldMask
  BY <1>29 DEF HoldMask
<1>30. CASE HoldInit
  BY <1>30 DEF HoldInit
<1>31. CASE NoMemory("RESET_DEVICE", 0)
  BY <1>31 DEF NoMemory
<1>32. CASE NoMemory("GET_DEVICE_DESCRIPTOR_SIZE", 2)
  BY <1>32 DEF NoMemory
<1>33. CASE NoMemory("GET_CONFIG_DESCRIPTOR_SIZE", 2)
  BY <1>33 DEF NoMemory
<1>34. ASSUME NEW d \in Devices, Plug(d) PROVE PlaceInv'
  BY <1>34 DEF Plug
<1>35. CASE RoleRound
  BY <1>35 DEF RoleRound, HostInit
<1>36. CASE IsrTimer
  BY <1>36 DEF IsrTimer
<1>37. CASE IsrAttach
  BY <1>37 DEF IsrAttach, Interrupt
<1>38. CASE IsrDetach
  BY <1>38 DEF IsrDetach, Interrupt
<1>39. CASE Answer
  BY <1>39 DEF Answer, Reaches, Finish, Obeyed, Asks, Interrupt
<1>40. CASE NoAnswer
  BY <1>40 DEF NoAnswer, Reaches, Finish, Interrupt
<1>41. CASE Fault
  BY <1>41 DEF Fault, Reaches, Finish, Asks, Interrupt
<1>42. CASE LostAcknowledgement
  BY <1>42 DEF LostAcknowledgement, Reaches, Asks, Finish, Interrupt
<1>43. CASE ScanTick
  BY <1>43 DEF ScanTick, Idle
<1>44. CASE Unplug
  BY <1>44 DEF Unplug
<1>45. CASE UNCHANGED vars
  BY <1>45 DEF vars
<1>46. CASE Tasks
  BY <1>46,
     <1>1, <1>2, <1>3, <1>4, <1>5, <1>6, <1>7, <1>8, <1>9, <1>10, <1>11, <1>12, <1>13,
     <1>14, <1>15, <1>16, <1>17, <1>18, <1>19, <1>20, <1>21, <1>22, <1>23, <1>24, <1>25,
     <1>26, <1>27, <1>28, <1>29, <1>30, <1>31, <1>32, <1>33 DEF Tasks
<1>47. CASE Isr
  BY <1>47,
     <1>36, <1>37, <1>38, <1>39, <1>40, <1>41, <1>42 DEF Isr, Transfer
<1> QED BY <1>34, <1>35, <1>43, <1>44, <1>45, <1>46, <1>47 DEF Next, Main

LEMMA TryStep == Base /\ [Next]_vars => TryInv'
<1> SUFFICES ASSUME Base, [Next]_vars PROVE TryInv'
  OBVIOUS
<1> USE EnumConstants, SubstatesAre, Successors, DescType
    DEF
        Base, Values, PlaceInv, TryInv, Before, Addressing, Detached, Holding, Commands,
        State, SetNextSubState, SetNextSubSubState, SetHoldState, InitErrorCounters,
        Case, Calm, busVars, hwVars, tryVars, infoVars, appVars, history
<1>1. CASE EventMask
  BY <1>1 DEF EventMask, Enter
<1>2. CASE EventRemove
  BY <1>2 DEF EventRemove
<1>3. CASE Override
  BY <1>3 DEF Override, Enter
<1>4. CASE ClearOverride
  BY <1>4 DEF ClearOverride
<1>5. CASE Wait
  BY <1>5 DEF Wait, Waiting
<1>6. CASE InitializeHost
  BY <1>6 DEF InitializeHost, DetachResets, SetTries
<1>7. CASE ResetProcessor
  BY <1>7 DEF ResetProcessor, DetachResets
<1>8. CASE WaitForPower
  BY <1>8 DEF WaitForPower
<1>9. CASE TurnOnPower
  BY <1>9 DEF TurnOnPower, NextThenEnable
<1>10. CASE EnableAttach
  BY <1>10 DEF EnableAttach, NextThenEnable
<1>11. CASE StartSettling
  BY <1>11 DEF StartSettling
<1>12. CASE SettlingDone
  BY <1>12 DEF SettlingDone
<1>13. CASE SetReset
  BY <1>13 DEF SetReset
<1>14. CASE ResetRecovery
  BY <1>14 DEF ResetRecovery
<1>15. CASE ResetComplete
  BY <1>15 DEF ResetComplete, EnumInterrupts
<1>16. CASE ValidateVidPid
  BY <1>16 DEF ValidateVidPid
<1>17. CASE Send
  BY <1>17 DEF Send
<1>18. CASE AwaitedOk
  BY <1>18 DEF AwaitedOk, Answered, Unsupported
<1>19. CASE AwaitedFailed
  BY <1>19 DEF AwaitedFailed, CheckAttempts
<1>20. CASE DeviceDescriptorComplete
  BY <1>20 DEF DeviceDescriptorComplete, Completed
<1>21. CASE AddressComplete
  BY <1>21 DEF AddressComplete, Completed
<1>22. CASE InitConfiguration
  BY <1>22 DEF InitConfiguration
<1>23. CASE ConfigSizeComplete
  BY <1>23 DEF ConfigSizeComplete, Completed
<1>24. CASE ConfigComplete
  BY <1>24 DEF ConfigComplete, Completed, MoreConfigs
<1>25. CASE SelectConfiguration
  BY <1>25 DEF SelectConfiguration
<1>26. CASE SkipOtg
  BY <1>26 DEF SkipOtg
<1>27. CASE ConfigurationSet
  BY <1>27 DEF ConfigurationSet, Completed
<1>28. CASE InitClientDrivers
  BY <1>28 DEF InitClientDrivers, InitOutcome
<1>29. CASE HoldMask
  BY <1>29 DEF HoldMask
<1>30. CASE HoldInit
  BY <1>30 DEF HoldInit
<1>31. CASE NoMemory("RESET_DEVICE", 0)
  BY <1>31 DEF NoMemory
<1>32. CASE NoMemory("GET_DEVICE_DESCRIPTOR_SIZE", 2)
  BY <1>32 DEF NoMemory
<1>33. CASE NoMemory("GET_CONFIG_DESCRIPTOR_SIZE", 2)
  BY <1>33 DEF NoMemory
<1>34. ASSUME NEW d \in Devices, Plug(d) PROVE TryInv'
  BY <1>34 DEF Plug
<1>35. CASE RoleRound
  BY <1>35 DEF RoleRound, HostInit
<1>36. CASE IsrTimer
  BY <1>36 DEF IsrTimer
<1>37. CASE IsrAttach
  BY <1>37 DEF IsrAttach, Interrupt
<1>38. CASE IsrDetach
  BY <1>38 DEF IsrDetach, Interrupt
<1>39. CASE Answer
  BY <1>39 DEF Answer, Reaches, Finish, Obeyed, Asks, Interrupt
<1>40. CASE NoAnswer
  BY <1>40 DEF NoAnswer, Reaches, Finish, Interrupt
<1>41. CASE Fault
  BY <1>41 DEF Fault, Reaches, Finish, Asks, Interrupt
<1>42. CASE LostAcknowledgement
  BY <1>42 DEF LostAcknowledgement, Reaches, Asks, Finish, Interrupt
<1>43. CASE ScanTick
  BY <1>43 DEF ScanTick, Idle
<1>44. CASE Unplug
  BY <1>44 DEF Unplug
<1>45. CASE UNCHANGED vars
  BY <1>45 DEF vars
<1>46. CASE Tasks
  BY <1>46,
     <1>1, <1>2, <1>3, <1>4, <1>5, <1>6, <1>7, <1>8, <1>9, <1>10, <1>11, <1>12, <1>13,
     <1>14, <1>15, <1>16, <1>17, <1>18, <1>19, <1>20, <1>21, <1>22, <1>23, <1>24, <1>25,
     <1>26, <1>27, <1>28, <1>29, <1>30, <1>31, <1>32, <1>33 DEF Tasks
<1>47. CASE Isr
  BY <1>47,
     <1>36, <1>37, <1>38, <1>39, <1>40, <1>41, <1>42 DEF Isr, Transfer
<1> QED BY <1>34, <1>35, <1>43, <1>44, <1>45, <1>46, <1>47 DEF Next, Main

LEMMA ValuesStep == Base /\ [Next]_vars => Values'
<1> SUFFICES ASSUME Base, [Next]_vars PROVE Values'
  OBVIOUS
<1> USE EnumConstants, SubstatesAre, Successors, LastSteps, DescType
    DEF
        Base, Values, Listed, PlaceInv, TryInv, Addressing, Detached, Holding, Commands,
        State, SetNextSubState, SetNextSubSubState, SetHoldState, InitErrorCounters,
        Case, Calm, busVars, hwVars, tryVars, infoVars, appVars, history
<1>1. CASE EventMask
  BY <1>1 DEF EventMask, Enter
<1>2. CASE EventRemove
  BY <1>2 DEF EventRemove
<1>3. CASE Override
  BY <1>3 DEF Override, Enter
<1>4. CASE ClearOverride
  BY <1>4 DEF ClearOverride
<1>5. CASE Wait
  BY <1>5 DEF Wait, Waiting
<1>6. CASE InitializeHost
  BY <1>6 DEF InitializeHost, DetachResets, SetTries
<1>7. CASE ResetProcessor
  BY <1>7 DEF ResetProcessor, DetachResets
<1>8. CASE WaitForPower
  BY <1>8 DEF WaitForPower
<1>9. CASE TurnOnPower
  BY <1>9 DEF TurnOnPower, NextThenEnable
<1>10. CASE EnableAttach
  BY <1>10 DEF EnableAttach, NextThenEnable
<1>11. CASE StartSettling
  BY <1>11 DEF StartSettling
<1>12. CASE SettlingDone
  BY <1>12 DEF SettlingDone
<1>13. CASE SetReset
  BY <1>13 DEF SetReset
<1>14. CASE ResetRecovery
  BY <1>14 DEF ResetRecovery
<1>15. CASE ResetComplete
  BY <1>15 DEF ResetComplete, EnumInterrupts
<1>16. CASE ValidateVidPid
  BY <1>16 DEF ValidateVidPid
<1>17. CASE Send
  BY <1>17 DEF Send
<1>18. CASE AwaitedOk
  BY <1>18 DEF AwaitedOk, Answered, Unsupported
<1>19. CASE AwaitedFailed
  BY <1>19 DEF AwaitedFailed, CheckAttempts
<1>20. CASE DeviceDescriptorComplete
  <2>1. CASE Completed("GET_DEVICE_DESCRIPTOR_SIZE")
    BY <1>20, <2>1 DEF DeviceDescriptorComplete, Completed
  <2>2. CASE Completed("GET_DEVICE_DESCRIPTOR")
    BY <1>20, <2>2 DEF DeviceDescriptorComplete, Completed
  <2> QED BY <1>20, <2>1, <2>2 DEF DeviceDescriptorComplete
<1>21. CASE AddressComplete
  BY <1>21 DEF AddressComplete, Completed
<1>22. CASE InitConfiguration
  BY <1>22 DEF InitConfiguration
<1>23. CASE ConfigSizeComplete
  BY <1>23 DEF ConfigSizeComplete, Completed
<1>24. CASE ConfigComplete
  BY <1>24 DEF ConfigComplete, Completed, MoreConfigs
<1>25. CASE SelectConfiguration
  <2>1. \A i \in 1 .. Len(list) : list[i].num \in Nat
    BY Elements DEF Config
  <2>2. chosen' \in Nat
    BY <1>25, <2>1 DEF SelectConfiguration
  <2>3. sub' \in {sub, "HOLD_INIT"} /\ n' \in {0, 1}
    BY <1>25 DEF SelectConfiguration
  <2>4. errorCode' \in {errorCode, "UNSUPPORTED_DEVICE"}
    BY <1>25 DEF SelectConfiguration
  <2> QED BY <1>25, <2>2, <2>3, <2>4 DEF SelectConfiguration
<1>26. CASE SkipOtg
  BY <1>26 DEF SkipOtg
<1>27. CASE ConfigurationSet
  BY <1>27 DEF ConfigurationSet, Completed
<1>28. CASE InitClientDrivers
  BY <1>28 DEF InitClientDrivers, InitOutcome
<1>29. CASE HoldMask
  BY <1>29 DEF HoldMask
<1>30. CASE HoldInit
  BY <1>30 DEF HoldInit
<1>31. CASE NoMemory("RESET_DEVICE", 0)
  BY <1>31 DEF NoMemory
<1>32. CASE NoMemory("GET_DEVICE_DESCRIPTOR_SIZE", 2)
  BY <1>32 DEF NoMemory
<1>33. CASE NoMemory("GET_CONFIG_DESCRIPTOR_SIZE", 2)
  BY <1>33 DEF NoMemory
<1>34. ASSUME NEW d \in Devices, Plug(d) PROVE Values'
  BY <1>34 DEF Plug
<1>35. CASE RoleRound
  BY <1>35 DEF RoleRound, HostInit
<1>36. CASE IsrTimer
  BY <1>36 DEF IsrTimer
<1>37. CASE IsrAttach
  BY <1>37 DEF IsrAttach, Interrupt
<1>38. CASE IsrDetach
  BY <1>38 DEF IsrDetach, Interrupt
<1>39. CASE Answer
  BY <1>39 DEF Answer, Reaches, Finish, Obeyed, Asks, Interrupt
<1>40. CASE NoAnswer
  BY <1>40 DEF NoAnswer, Reaches, Finish, Interrupt
<1>41. CASE Fault
  BY <1>41 DEF Fault, Reaches, Finish, Asks, Interrupt
<1>42. CASE LostAcknowledgement
  BY <1>42 DEF LostAcknowledgement, Reaches, Asks, Finish, Interrupt
<1>43. CASE ScanTick
  BY <1>43 DEF ScanTick, Idle
<1>44. CASE Unplug
  BY <1>44 DEF Unplug
<1>45. CASE UNCHANGED vars
  BY <1>45 DEF vars
<1>46. CASE Tasks
  BY <1>46,
     <1>1, <1>2, <1>3, <1>4, <1>5, <1>6, <1>7, <1>8, <1>9, <1>10, <1>11, <1>12, <1>13,
     <1>14, <1>15, <1>16, <1>17, <1>18, <1>19, <1>20, <1>21, <1>22, <1>23, <1>24, <1>25,
     <1>26, <1>27, <1>28, <1>29, <1>30, <1>31, <1>32, <1>33 DEF Tasks
<1>47. CASE Isr
  BY <1>47,
     <1>36, <1>37, <1>38, <1>39, <1>40, <1>41, <1>42 DEF Isr, Transfer
<1> QED BY <1>34, <1>35, <1>43, <1>44, <1>45, <1>46, <1>47 DEF Next, Main

LEMMA BaseStep == Base /\ [Next]_vars => Base'
  BY ValuesStep, FlagsStep, PartnersStep, MasksStep, ListedStep, PlaceStep, TryStep DEF Base

-----------------------------------------------------------------------------
(* Interrupts.                                                             *)

LEMMA AttachStep == Base /\ AttachInv /\ [Next]_vars => AttachInv'
<1> SUFFICES ASSUME Base, AttachInv, [Next]_vars PROVE AttachInv'
  OBVIOUS
<1> USE Successors, SubstatesAre
    DEF
        Base, Values, PlaceInv, AttachInv, Before, Detached, Commands, State,
        SetNextSubState, SetNextSubSubState, SetHoldState, InitErrorCounters, Case,
        Calm, busVars, hwVars, tryVars, infoVars, appVars, history
<1>1. CASE EventMask
  BY <1>1 DEF EventMask, Enter
<1>2. CASE EventRemove
  BY <1>2 DEF EventRemove
<1>3. CASE Override
  BY <1>3 DEF Override, Enter
<1>4. CASE ClearOverride
  BY <1>4 DEF ClearOverride
<1>5. CASE Wait
  BY <1>5 DEF Wait, Waiting
<1>6. CASE InitializeHost
  BY <1>6 DEF InitializeHost, DetachResets, SetTries
<1>7. CASE ResetProcessor
  BY <1>7 DEF ResetProcessor, DetachResets
<1>8. CASE WaitForPower
  BY <1>8 DEF WaitForPower
<1>9. CASE TurnOnPower
  BY <1>9 DEF TurnOnPower, NextThenEnable
<1>10. CASE EnableAttach
  BY <1>10 DEF EnableAttach, NextThenEnable
<1>11. CASE StartSettling
  BY <1>11 DEF StartSettling
<1>12. CASE SettlingDone
  BY <1>12 DEF SettlingDone
<1>13. CASE SetReset
  BY <1>13 DEF SetReset
<1>14. CASE ResetRecovery
  BY <1>14 DEF ResetRecovery
<1>15. CASE ResetComplete
  BY <1>15 DEF ResetComplete, EnumInterrupts
<1>16. CASE ValidateVidPid
  BY <1>16 DEF ValidateVidPid
<1>17. CASE Send
  BY <1>17 DEF Send
<1>18. CASE AwaitedOk
  BY <1>18 DEF AwaitedOk, Answered, Unsupported
<1>19. CASE AwaitedFailed
  BY <1>19 DEF AwaitedFailed, CheckAttempts
<1>20. CASE DeviceDescriptorComplete
  BY <1>20 DEF DeviceDescriptorComplete, Completed
<1>21. CASE AddressComplete
  BY <1>21 DEF AddressComplete, Completed
<1>22. CASE InitConfiguration
  BY <1>22 DEF InitConfiguration
<1>23. CASE ConfigSizeComplete
  BY <1>23 DEF ConfigSizeComplete, Completed
<1>24. CASE ConfigComplete
  BY <1>24 DEF ConfigComplete, Completed, MoreConfigs
<1>25. CASE SelectConfiguration
  BY <1>25 DEF SelectConfiguration
<1>26. CASE SkipOtg
  BY <1>26 DEF SkipOtg
<1>27. CASE ConfigurationSet
  BY <1>27 DEF ConfigurationSet, Completed
<1>28. CASE InitClientDrivers
  BY <1>28 DEF InitClientDrivers, InitOutcome
<1>29. CASE HoldMask
  BY <1>29 DEF HoldMask
<1>30. CASE HoldInit
  BY <1>30 DEF HoldInit
<1>31. CASE NoMemory("RESET_DEVICE", 0)
  BY <1>31 DEF NoMemory
<1>32. CASE NoMemory("GET_DEVICE_DESCRIPTOR_SIZE", 2)
  BY <1>32 DEF NoMemory
<1>33. CASE NoMemory("GET_CONFIG_DESCRIPTOR_SIZE", 2)
  BY <1>33 DEF NoMemory
<1>34. ASSUME NEW d \in Devices, Plug(d) PROVE AttachInv'
  BY <1>34 DEF Plug
<1>35. CASE RoleRound
  BY <1>35 DEF RoleRound, HostInit
<1>36. CASE IsrTimer
  BY <1>36 DEF IsrTimer
<1>37. CASE IsrAttach
  BY <1>37 DEF IsrAttach, Interrupt
<1>38. CASE IsrDetach
  BY <1>38 DEF IsrDetach, Interrupt
<1>39. CASE Answer
  BY <1>39 DEF Answer, Reaches, Finish, Obeyed, Asks, Interrupt
<1>40. CASE NoAnswer
  BY <1>40 DEF NoAnswer, Reaches, Finish, Interrupt
<1>41. CASE Fault
  BY <1>41 DEF Fault, Reaches, Finish, Asks, Interrupt
<1>42. CASE LostAcknowledgement
  BY <1>42 DEF LostAcknowledgement, Reaches, Asks, Finish, Interrupt
<1>43. CASE ScanTick
  BY <1>43 DEF ScanTick, Idle
<1>44. CASE Unplug
  BY <1>44 DEF Unplug
<1>45. CASE UNCHANGED vars
  BY <1>45 DEF vars
<1>46. CASE Tasks
  BY <1>46,
     <1>1, <1>2, <1>3, <1>4, <1>5, <1>6, <1>7, <1>8, <1>9, <1>10, <1>11, <1>12, <1>13,
     <1>14, <1>15, <1>16, <1>17, <1>18, <1>19, <1>20, <1>21, <1>22, <1>23, <1>24, <1>25,
     <1>26, <1>27, <1>28, <1>29, <1>30, <1>31, <1>32, <1>33 DEF Tasks
<1>47. CASE Isr
  BY <1>47,
     <1>36, <1>37, <1>38, <1>39, <1>40, <1>41, <1>42 DEF Isr, Transfer
<1> QED BY <1>34, <1>35, <1>43, <1>44, <1>45, <1>46, <1>47 DEF Next, Main

LEMMA DetachStep == Base /\ AttachInv /\ DetachInv /\ [Next]_vars => DetachInv'
<1> SUFFICES ASSUME Base, AttachInv, DetachInv, [Next]_vars PROVE DetachInv'
  OBVIOUS
<1> USE Successors, SubstatesAre
    DEF
        Base, Values, PlaceInv, AttachInv, DetachInv, Noticed, Detached, Holding,
        Commands, State, SetNextSubState, SetNextSubSubState, SetHoldState,
        InitErrorCounters, Case, Calm, busVars, hwVars, tryVars, infoVars, appVars,
        history
<1>1. CASE EventMask
  BY <1>1 DEF EventMask, Enter
<1>2. CASE EventRemove
  BY <1>2 DEF EventRemove
<1>3. CASE Override
  BY <1>3 DEF Override, Enter
<1>4. CASE ClearOverride
  BY <1>4 DEF ClearOverride
<1>5. CASE Wait
  BY <1>5 DEF Wait, Waiting
<1>6. CASE InitializeHost
  BY <1>6 DEF InitializeHost, DetachResets, SetTries
<1>7. CASE ResetProcessor
  BY <1>7 DEF ResetProcessor, DetachResets
<1>8. CASE WaitForPower
  BY <1>8 DEF WaitForPower
<1>9. CASE TurnOnPower
  BY <1>9 DEF TurnOnPower, NextThenEnable
<1>10. CASE EnableAttach
  BY <1>10 DEF EnableAttach, NextThenEnable
<1>11. CASE StartSettling
  BY <1>11 DEF StartSettling
<1>12. CASE SettlingDone
  BY <1>12 DEF SettlingDone
<1>13. CASE SetReset
  BY <1>13 DEF SetReset
<1>14. CASE ResetRecovery
  BY <1>14 DEF ResetRecovery
<1>15. CASE ResetComplete
  BY <1>15 DEF ResetComplete, EnumInterrupts
<1>16. CASE ValidateVidPid
  BY <1>16 DEF ValidateVidPid
<1>17. CASE Send
  BY <1>17 DEF Send
<1>18. CASE AwaitedOk
  BY <1>18 DEF AwaitedOk, Answered, Unsupported
<1>19. CASE AwaitedFailed
  BY <1>19 DEF AwaitedFailed, CheckAttempts
<1>20. CASE DeviceDescriptorComplete
  BY <1>20 DEF DeviceDescriptorComplete, Completed
<1>21. CASE AddressComplete
  BY <1>21 DEF AddressComplete, Completed
<1>22. CASE InitConfiguration
  BY <1>22 DEF InitConfiguration
<1>23. CASE ConfigSizeComplete
  BY <1>23 DEF ConfigSizeComplete, Completed
<1>24. CASE ConfigComplete
  BY <1>24 DEF ConfigComplete, Completed, MoreConfigs
<1>25. CASE SelectConfiguration
  BY <1>25 DEF SelectConfiguration
<1>26. CASE SkipOtg
  BY <1>26 DEF SkipOtg
<1>27. CASE ConfigurationSet
  BY <1>27 DEF ConfigurationSet, Completed
<1>28. CASE InitClientDrivers
  BY <1>28 DEF InitClientDrivers, InitOutcome
<1>29. CASE HoldMask
  BY <1>29 DEF HoldMask
<1>30. CASE HoldInit
  BY <1>30 DEF HoldInit
<1>31. CASE NoMemory("RESET_DEVICE", 0)
  BY <1>31 DEF NoMemory
<1>32. CASE NoMemory("GET_DEVICE_DESCRIPTOR_SIZE", 2)
  BY <1>32 DEF NoMemory
<1>33. CASE NoMemory("GET_CONFIG_DESCRIPTOR_SIZE", 2)
  BY <1>33 DEF NoMemory
<1>34. ASSUME NEW d \in Devices, Plug(d) PROVE DetachInv'
  BY <1>34 DEF Plug
<1>35. CASE RoleRound
  BY <1>35 DEF RoleRound, HostInit
<1>36. CASE IsrTimer
  BY <1>36 DEF IsrTimer
<1>37. CASE IsrAttach
  BY <1>37 DEF IsrAttach, Interrupt
<1>38. CASE IsrDetach
  BY <1>38 DEF IsrDetach, Interrupt
<1>39. CASE Answer
  BY <1>39 DEF Answer, Reaches, Finish, Obeyed, Asks, Interrupt
<1>40. CASE NoAnswer
  BY <1>40 DEF NoAnswer, Reaches, Finish, Interrupt
<1>41. CASE Fault
  BY <1>41 DEF Fault, Reaches, Finish, Asks, Interrupt
<1>42. CASE LostAcknowledgement
  BY <1>42 DEF LostAcknowledgement, Reaches, Asks, Finish, Interrupt
<1>43. CASE ScanTick
  BY <1>43 DEF ScanTick, Idle
<1>44. CASE Unplug
  BY <1>44 DEF Unplug
<1>45. CASE UNCHANGED vars
  BY <1>45 DEF vars
<1>46. CASE Tasks
  BY <1>46,
     <1>1, <1>2, <1>3, <1>4, <1>5, <1>6, <1>7, <1>8, <1>9, <1>10, <1>11, <1>12, <1>13,
     <1>14, <1>15, <1>16, <1>17, <1>18, <1>19, <1>20, <1>21, <1>22, <1>23, <1>24, <1>25,
     <1>26, <1>27, <1>28, <1>29, <1>30, <1>31, <1>32, <1>33 DEF Tasks
<1>47. CASE Isr
  BY <1>47,
     <1>36, <1>37, <1>38, <1>39, <1>40, <1>41, <1>42 DEF Isr, Transfer
<1> QED BY <1>34, <1>35, <1>43, <1>44, <1>45, <1>46, <1>47 DEF Next, Main

-----------------------------------------------------------------------------
(* What the application knows.                                             *)

LEMMA ToldStep == Base /\ ToldInv /\ [Next]_vars => ToldInv'
<1> SUFFICES ASSUME Base, ToldInv, [Next]_vars PROVE ToldInv'
  OBVIOUS
<1> USE Successors, SubstatesAre
    DEF
        Base, Values, PlaceInv, ToldInv, Addressed, Selected, Detached, Commands, State,
        SetNextSubState, SetNextSubSubState, SetHoldState, InitErrorCounters, Case,
        Calm, busVars, hwVars, tryVars, infoVars, appVars, history
<1>1. CASE EventMask
  BY <1>1 DEF EventMask, Enter
<1>2. CASE EventRemove
  BY <1>2 DEF EventRemove
<1>3. CASE Override
  BY <1>3 DEF Override, Enter
<1>4. CASE ClearOverride
  BY <1>4 DEF ClearOverride
<1>5. CASE Wait
  BY <1>5 DEF Wait, Waiting
<1>6. CASE InitializeHost
  BY <1>6 DEF InitializeHost, DetachResets, SetTries
<1>7. CASE ResetProcessor
  BY <1>7 DEF ResetProcessor, DetachResets
<1>8. CASE WaitForPower
  BY <1>8 DEF WaitForPower
<1>9. CASE TurnOnPower
  BY <1>9 DEF TurnOnPower, NextThenEnable
<1>10. CASE EnableAttach
  BY <1>10 DEF EnableAttach, NextThenEnable
<1>11. CASE StartSettling
  BY <1>11 DEF StartSettling
<1>12. CASE SettlingDone
  BY <1>12 DEF SettlingDone
<1>13. CASE SetReset
  BY <1>13 DEF SetReset
<1>14. CASE ResetRecovery
  BY <1>14 DEF ResetRecovery
<1>15. CASE ResetComplete
  BY <1>15 DEF ResetComplete, EnumInterrupts
<1>16. CASE ValidateVidPid
  BY <1>16 DEF ValidateVidPid
<1>17. CASE Send
  BY <1>17 DEF Send
<1>18. CASE AwaitedOk
  BY <1>18 DEF AwaitedOk, Answered, Unsupported
<1>19. CASE AwaitedFailed
  BY <1>19 DEF AwaitedFailed, CheckAttempts
<1>20. CASE DeviceDescriptorComplete
  BY <1>20 DEF DeviceDescriptorComplete, Completed
<1>21. CASE AddressComplete
  BY <1>21 DEF AddressComplete, Completed
<1>22. CASE InitConfiguration
  BY <1>22 DEF InitConfiguration
<1>23. CASE ConfigSizeComplete
  BY <1>23 DEF ConfigSizeComplete, Completed
<1>24. CASE ConfigComplete
  BY <1>24 DEF ConfigComplete, Completed, MoreConfigs
<1>25. CASE SelectConfiguration
  BY <1>25 DEF SelectConfiguration
<1>26. CASE SkipOtg
  BY <1>26 DEF SkipOtg
<1>27. CASE ConfigurationSet
  BY <1>27 DEF ConfigurationSet, Completed
<1>28. CASE InitClientDrivers
  BY <1>28 DEF InitClientDrivers, InitOutcome
<1>29. CASE HoldMask
  BY <1>29 DEF HoldMask
<1>30. CASE HoldInit
  BY <1>30 DEF HoldInit
<1>31. CASE NoMemory("RESET_DEVICE", 0)
  BY <1>31 DEF NoMemory
<1>32. CASE NoMemory("GET_DEVICE_DESCRIPTOR_SIZE", 2)
  BY <1>32 DEF NoMemory
<1>33. CASE NoMemory("GET_CONFIG_DESCRIPTOR_SIZE", 2)
  BY <1>33 DEF NoMemory
<1>34. ASSUME NEW d \in Devices, Plug(d) PROVE ToldInv'
  BY <1>34 DEF Plug
<1>35. CASE RoleRound
  BY <1>35 DEF RoleRound, HostInit
<1>36. CASE IsrTimer
  BY <1>36 DEF IsrTimer
<1>37. CASE IsrAttach
  BY <1>37 DEF IsrAttach, Interrupt
<1>38. CASE IsrDetach
  BY <1>38 DEF IsrDetach, Interrupt
<1>39. CASE Answer
  BY <1>39 DEF Answer, Reaches, Finish, Obeyed, Asks, Interrupt
<1>40. CASE NoAnswer
  BY <1>40 DEF NoAnswer, Reaches, Finish, Interrupt
<1>41. CASE Fault
  BY <1>41 DEF Fault, Reaches, Finish, Asks, Interrupt
<1>42. CASE LostAcknowledgement
  BY <1>42 DEF LostAcknowledgement, Reaches, Asks, Finish, Interrupt
<1>43. CASE ScanTick
  BY <1>43 DEF ScanTick, Idle
<1>44. CASE Unplug
  BY <1>44 DEF Unplug
<1>45. CASE UNCHANGED vars
  BY <1>45 DEF vars
<1>46. CASE Tasks
  BY <1>46,
     <1>1, <1>2, <1>3, <1>4, <1>5, <1>6, <1>7, <1>8, <1>9, <1>10, <1>11, <1>12, <1>13,
     <1>14, <1>15, <1>16, <1>17, <1>18, <1>19, <1>20, <1>21, <1>22, <1>23, <1>24, <1>25,
     <1>26, <1>27, <1>28, <1>29, <1>30, <1>31, <1>32, <1>33 DEF Tasks
<1>47. CASE Isr
  BY <1>47,
     <1>36, <1>37, <1>38, <1>39, <1>40, <1>41, <1>42 DEF Isr, Transfer
<1> QED BY <1>34, <1>35, <1>43, <1>44, <1>45, <1>46, <1>47 DEF Next, Main

-----------------------------------------------------------------------------
(* The list of configurations.                                             *)

LEMMA ListStep == Base /\ ListInv /\ [Next]_vars => ListInv'
<1> SUFFICES ASSUME Base, ListInv, [Next]_vars PROVE ListInv'
  OBVIOUS
<1> USE Successors, SubstatesAre, DescType, Elements
    DEF
        Base, Values, PlaceInv, TryInv, ListInv, Commands, Detached, State,
        SetNextSubState, SetNextSubSubState, SetHoldState, InitErrorCounters, Case,
        Calm, busVars, hwVars, tryVars, infoVars, appVars, history
<1>1. CASE EventMask
  BY <1>1 DEF EventMask, Enter
<1>2. CASE EventRemove
  BY <1>2 DEF EventRemove
<1>3. CASE Override
  BY <1>3 DEF Override, Enter
<1>4. CASE ClearOverride
  BY <1>4 DEF ClearOverride
<1>5. CASE Wait
  BY <1>5 DEF Wait, Waiting
<1>6. CASE InitializeHost
  BY <1>6 DEF InitializeHost, DetachResets, SetTries
<1>7. CASE ResetProcessor
  BY <1>7 DEF ResetProcessor, DetachResets
<1>8. CASE WaitForPower
  BY <1>8 DEF WaitForPower
<1>9. CASE TurnOnPower
  BY <1>9 DEF TurnOnPower, NextThenEnable
<1>10. CASE EnableAttach
  BY <1>10 DEF EnableAttach, NextThenEnable
<1>11. CASE StartSettling
  BY <1>11 DEF StartSettling
<1>12. CASE SettlingDone
  BY <1>12 DEF SettlingDone
<1>13. CASE SetReset
  BY <1>13 DEF SetReset
<1>14. CASE ResetRecovery
  BY <1>14 DEF ResetRecovery
<1>15. CASE ResetComplete
  BY <1>15 DEF ResetComplete, EnumInterrupts
<1>16. CASE ValidateVidPid
  BY <1>16 DEF ValidateVidPid
<1>17. CASE Send
  BY <1>17 DEF Send
<1>18. CASE AwaitedOk
  BY <1>18 DEF AwaitedOk, Answered, Unsupported
<1>19. CASE AwaitedFailed
  BY <1>19 DEF AwaitedFailed, CheckAttempts
<1>20. CASE DeviceDescriptorComplete
  BY <1>20 DEF DeviceDescriptorComplete, Completed
<1>21. CASE AddressComplete
  BY <1>21 DEF AddressComplete, Completed
<1>22. CASE InitConfiguration
  BY <1>22 DEF InitConfiguration
<1>23. CASE ConfigSizeComplete
  BY <1>23 DEF ConfigSizeComplete, Completed
<1>24. CASE ConfigComplete
  <2>1. /\ sub = "GET_CONFIG_DESCRIPTOR" /\ n = 2 /\ count' = count - 1
        /\ UNCHANGED <<list, desc>>
        /\ sub' = IF count' # 0 THEN "GET_CONFIG_DESCRIPTOR_SIZE" ELSE "SELECT_CONFIGURATION"
    BY <1>24 DEF ConfigComplete, Completed, MoreConfigs
  <2>2. ASSUME NEW i \in 1 .. Len(list) PROVE list[i].full /\ list[i].num = count + i - 1
    <3>1. i = 1 \/ i > 1
      OBVIOUS
    <3> QED BY <2>1, <3>1
  <2>3. count \in Nat /\ Len(list) \in Nat /\ desc.configs \in Nat
    BY LenProperties, DescType DEF Listed
  <2>4. Len(list) + count' = desc.configs
    BY <2>1, <2>3, SMTT(30)
  <2>5. ASSUME NEW i \in 1 .. Len(list) PROVE list[i].num = count' + i
    BY <2>1, <2>2, <2>3
  <2>6. CASE count' = 0
    BY <2>1, <2>2, <2>3, <2>4, <2>6, <2>5
  <2>7. CASE count' # 0
    BY <2>1, <2>2, <2>3, <2>4, <2>7, <2>5
  <2> QED BY <2>6, <2>7
<1>25. CASE SelectConfiguration
  BY <1>25 DEF SelectConfiguration
<1>26. CASE SkipOtg
  BY <1>26 DEF SkipOtg
<1>27. CASE ConfigurationSet
  BY <1>27 DEF ConfigurationSet, Completed
<1>28. CASE InitClientDrivers
  BY <1>28 DEF InitClientDrivers, InitOutcome
<1>29. CASE HoldMask
  BY <1>29 DEF HoldMask
<1>30. CASE HoldInit
  BY <1>30 DEF HoldInit
<1>31. CASE NoMemory("RESET_DEVICE", 0)
  BY <1>31 DEF NoMemory
<1>32. CASE NoMemory("GET_DEVICE_DESCRIPTOR_SIZE", 2)
  BY <1>32 DEF NoMemory
<1>33. CASE NoMemory("GET_CONFIG_DESCRIPTOR_SIZE", 2)
  BY <1>33 DEF NoMemory
<1>34. ASSUME NEW d \in Devices, Plug(d) PROVE ListInv'
  BY <1>34 DEF Plug
<1>35. CASE RoleRound
  BY <1>35 DEF RoleRound, HostInit
<1>36. CASE IsrTimer
  BY <1>36 DEF IsrTimer
<1>37. CASE IsrAttach
  BY <1>37 DEF IsrAttach, Interrupt
<1>38. CASE IsrDetach
  BY <1>38 DEF IsrDetach, Interrupt
<1>39. CASE Answer
  <2>1. CASE sub = "GET_CONFIG_DESCRIPTOR" /\ n = 1
    <3>1. list # <<>> /\ 1 \in 1 .. Len(list)
      BY <2>1, EmptySeq, Elements DEF Listed
    <3>2. /\ list' = [list EXCEPT ![1].full = TRUE, ![1].midi = list[1].num \in plug.midi]
          /\ UNCHANGED <<sub, n, count, desc>>
      BY <1>39, <2>1, <3>1 DEF Answer, Finish, Asks
    <3>3. Len(list') = Len(list) /\ \A i \in 2 .. Len(list) : list'[i] = list[i]
      BY <3>1, <3>2, LenProperties DEF Listed
    <3>4. list'[1].full /\ list'[1].num = list[1].num
      BY <3>1, <3>2, Elements DEF Config
    <3> QED BY <2>1, <3>2, <3>3, <3>4
  <2>2. CASE ~(sub = "GET_CONFIG_DESCRIPTOR" /\ n = 1)
    BY <1>39, <2>2 DEF Answer, Finish, Asks
  <2> QED BY <2>1, <2>2
<1>40. CASE NoAnswer
  BY <1>40 DEF NoAnswer, Reaches, Finish, Interrupt
<1>41. CASE Fault
  BY <1>41 DEF Fault, Reaches, Finish, Asks, Interrupt
<1>42. CASE LostAcknowledgement
  BY <1>42 DEF LostAcknowledgement, Reaches, Asks, Finish, Interrupt
<1>43. CASE ScanTick
  BY <1>43 DEF ScanTick, Idle
<1>44. CASE Unplug
  BY <1>44 DEF Unplug
<1>45. CASE UNCHANGED vars
  BY <1>45 DEF vars
<1>46. CASE Tasks
  BY <1>46,
     <1>1, <1>2, <1>3, <1>4, <1>5, <1>6, <1>7, <1>8, <1>9, <1>10, <1>11, <1>12, <1>13,
     <1>14, <1>15, <1>16, <1>17, <1>18, <1>19, <1>20, <1>21, <1>22, <1>23, <1>24, <1>25,
     <1>26, <1>27, <1>28, <1>29, <1>30, <1>31, <1>32, <1>33 DEF Tasks
<1>47. CASE Isr
  BY <1>47,
     <1>36, <1>37, <1>38, <1>39, <1>40, <1>41, <1>42 DEF Isr, Transfer
<1> QED BY <1>34, <1>35, <1>43, <1>44, <1>45, <1>46, <1>47 DEF Next, Main

-----------------------------------------------------------------------------
(* The configuration.                                                      *)

LEMMA ReadyStep == Base /\ ReadyInv /\ [Next]_vars => ReadyInv'
<1> SUFFICES ASSUME Base, ReadyInv, [Next]_vars PROVE ReadyInv'
  OBVIOUS
<1> USE Successors, SubstatesAre, Elements
    DEF
        Base, Values, PlaceInv, ReadyInv, Noticed, Before, Selected, Commands, Detached,
        Holding, NoDevice, State, SetNextSubState, SetNextSubSubState, SetHoldState,
        InitErrorCounters, Case, Calm, busVars, hwVars, tryVars, infoVars, appVars,
        history
<1>1. CASE EventMask
  BY <1>1 DEF EventMask, Enter
<1>2. CASE EventRemove
  BY <1>2 DEF EventRemove
<1>3. CASE Override
  BY <1>3 DEF Override, Enter
<1>4. CASE ClearOverride
  BY <1>4 DEF ClearOverride
<1>5. CASE Wait
  BY <1>5 DEF Wait, Waiting
<1>6. CASE InitializeHost
  BY <1>6 DEF InitializeHost, DetachResets, SetTries
<1>7. CASE ResetProcessor
  BY <1>7 DEF ResetProcessor, DetachResets
<1>8. CASE WaitForPower
  BY <1>8 DEF WaitForPower
<1>9. CASE TurnOnPower
  BY <1>9 DEF TurnOnPower, NextThenEnable
<1>10. CASE EnableAttach
  BY <1>10 DEF EnableAttach, NextThenEnable
<1>11. CASE StartSettling
  BY <1>11 DEF StartSettling
<1>12. CASE SettlingDone
  BY <1>12 DEF SettlingDone
<1>13. CASE SetReset
  BY <1>13 DEF SetReset
<1>14. CASE ResetRecovery
  BY <1>14 DEF ResetRecovery
<1>15. CASE ResetComplete
  BY <1>15 DEF ResetComplete, EnumInterrupts
<1>16. CASE ValidateVidPid
  BY <1>16 DEF ValidateVidPid
<1>17. CASE Send
  BY <1>17 DEF Send
<1>18. CASE AwaitedOk
  BY <1>18 DEF AwaitedOk, Answered, Unsupported
<1>19. CASE AwaitedFailed
  BY <1>19 DEF AwaitedFailed, CheckAttempts
<1>20. CASE DeviceDescriptorComplete
  BY <1>20 DEF DeviceDescriptorComplete, Completed
<1>21. CASE AddressComplete
  BY <1>21 DEF AddressComplete, Completed
<1>22. CASE InitConfiguration
  BY <1>22 DEF InitConfiguration
<1>23. CASE ConfigSizeComplete
  BY <1>23 DEF ConfigSizeComplete, Completed
<1>24. CASE ConfigComplete
  BY <1>24 DEF ConfigComplete, Completed, MoreConfigs
<1>25. CASE SelectConfiguration
  BY <1>25 DEF SelectConfiguration
<1>26. CASE SkipOtg
  BY <1>26 DEF SkipOtg
<1>27. CASE ConfigurationSet
  BY <1>27 DEF ConfigurationSet, Completed
<1>28. CASE InitClientDrivers
  BY <1>28 DEF InitClientDrivers, InitOutcome
<1>29. CASE HoldMask
  BY <1>29 DEF HoldMask
<1>30. CASE HoldInit
  BY <1>30 DEF HoldInit
<1>31. CASE NoMemory("RESET_DEVICE", 0)
  BY <1>31 DEF NoMemory
<1>32. CASE NoMemory("GET_DEVICE_DESCRIPTOR_SIZE", 2)
  BY <1>32 DEF NoMemory
<1>33. CASE NoMemory("GET_CONFIG_DESCRIPTOR_SIZE", 2)
  BY <1>33 DEF NoMemory
<1>34. ASSUME NEW d \in Devices, Plug(d) PROVE ReadyInv'
  BY <1>34 DEF Plug
<1>35. CASE RoleRound
  BY <1>35 DEF RoleRound, HostInit
<1>36. CASE IsrTimer
  BY <1>36 DEF IsrTimer
<1>37. CASE IsrAttach
  BY <1>37 DEF IsrAttach, Interrupt
<1>38. CASE IsrDetach
  BY <1>38 DEF IsrDetach, Interrupt
<1>39. CASE Answer
  <2>1. /\ ep0 = "busy" /\ ep0' = "ok" /\ devAddr = addr
        /\ UNCHANGED <<sub, n, addr, chosen, plug, since>>
    BY <1>39 DEF Answer, Finish, Reaches
  <2>2. /\ devAddr' = IF sub = "SET_DEVICE_ADDRESS" /\ n = 1 THEN 1 ELSE devAddr
        /\ devConfig' = IF sub = "SET_CONFIGURATION" /\ n = 1 THEN chosen ELSE devConfig
    BY <1>39 DEF Answer, Obeyed, Asks
  <2>3. CASE sub = "GET_CONFIG_DESCRIPTOR" /\ n = 1 /\ list # <<>>
    <3>1. list' = [list EXCEPT ![1].full = TRUE, ![1].midi = list[1].num \in plug.midi]
      BY <1>39, <2>3 DEF Answer, Asks
    <3>2. Len(list') = Len(list) /\ \A i \in 2 .. Len(list) : list'[i] = list[i]
      BY <2>3, <3>1, LenProperties DEF Listed
    <3>3. list'[1].num = list[1].num /\ (list'[1].midi <=> list[1].num \in plug.midi)
      BY <2>3, <3>1, Elements, SMTT(30) DEF Config
    <3> QED BY <2>1, <2>3, <3>2, <3>3
  <2>4. CASE ~(sub = "GET_CONFIG_DESCRIPTOR" /\ n = 1 /\ list # <<>>)
    <3>1. list' = list
      BY <1>39, <2>4 DEF Answer, Asks
    <3> QED BY <2>1, <2>2, <3>1
  <2> QED BY <2>3, <2>4
<1>40. CASE NoAnswer
  BY <1>40 DEF NoAnswer, Reaches, Finish, Interrupt
<1>41. CASE Fault
  BY <1>41 DEF Fault, Reaches, Finish, Asks, Interrupt
<1>42. CASE LostAcknowledgement
  BY <1>42 DEF LostAcknowledgement, Reaches, Asks, Finish, Interrupt
<1>43. CASE ScanTick
  BY <1>43 DEF ScanTick, Idle
<1>44. CASE Unplug
  BY <1>44 DEF Unplug
<1>45. CASE UNCHANGED vars
  BY <1>45 DEF vars
<1>46. CASE Tasks
  BY <1>46,
     <1>1, <1>2, <1>3, <1>4, <1>5, <1>6, <1>7, <1>8, <1>9, <1>10, <1>11, <1>12, <1>13,
     <1>14, <1>15, <1>16, <1>17, <1>18, <1>19, <1>20, <1>21, <1>22, <1>23, <1>24, <1>25,
     <1>26, <1>27, <1>28, <1>29, <1>30, <1>31, <1>32, <1>33 DEF Tasks
<1>47. CASE Isr
  BY <1>47,
     <1>36, <1>37, <1>38, <1>39, <1>40, <1>41, <1>42 DEF Isr, Transfer
<1> QED BY <1>34, <1>35, <1>43, <1>44, <1>45, <1>46, <1>47 DEF Next, Main

-----------------------------------------------------------------------------
(* The tries.                                                              *)

LEMMA CountStep == Base /\ CountInv /\ [Next]_vars => CountInv'
<1> SUFFICES ASSUME Base, CountInv, [Next]_vars PROVE CountInv'
  OBVIOUS
<1> USE EnumConstants, Successors, SubstatesAre
    DEF
        Base, Values, PlaceInv, TryInv, CountInv, There, Used, Failed, Addressing,
        Commands, Detached, Holding, NoDevice, State, SetNextSubState,
        SetNextSubSubState, SetHoldState, InitErrorCounters, Case, Calm, busVars,
        hwVars, tryVars, infoVars, appVars, history
<1>1. CASE EventMask
  BY <1>1 DEF EventMask, Enter
<1>2. CASE EventRemove
  BY <1>2 DEF EventRemove
<1>3. CASE Override
  BY <1>3 DEF Override, Enter
<1>4. CASE ClearOverride
  BY <1>4 DEF ClearOverride
<1>5. CASE Wait
  BY <1>5 DEF Wait, Waiting
<1>6. CASE InitializeHost
  BY <1>6 DEF InitializeHost, DetachResets, SetTries
<1>7. CASE ResetProcessor
  BY <1>7 DEF ResetProcessor, DetachResets
<1>8. CASE WaitForPower
  BY <1>8 DEF WaitForPower
<1>9. CASE TurnOnPower
  BY <1>9 DEF TurnOnPower, NextThenEnable
<1>10. CASE EnableAttach
  BY <1>10 DEF EnableAttach, NextThenEnable
<1>11. CASE StartSettling
  BY <1>11 DEF StartSettling
<1>12. CASE SettlingDone
  BY <1>12 DEF SettlingDone
<1>13. CASE SetReset
  BY <1>13 DEF SetReset
<1>14. CASE ResetRecovery
  BY <1>14 DEF ResetRecovery
<1>15. CASE ResetComplete
  BY <1>15 DEF ResetComplete, EnumInterrupts
<1>16. CASE ValidateVidPid
  BY <1>16 DEF ValidateVidPid
<1>17. CASE Send
  BY <1>17 DEF Send
<1>18. CASE AwaitedOk
  BY <1>18 DEF AwaitedOk, Answered, Unsupported
<1>19. CASE AwaitedFailed
  BY <1>19 DEF AwaitedFailed, CheckAttempts
<1>20. CASE DeviceDescriptorComplete
  BY <1>20 DEF DeviceDescriptorComplete, Completed
<1>21. CASE AddressComplete
  BY <1>21 DEF AddressComplete, Completed
<1>22. CASE InitConfiguration
  BY <1>22 DEF InitConfiguration
<1>23. CASE ConfigSizeComplete
  BY <1>23 DEF ConfigSizeComplete, Completed
<1>24. CASE ConfigComplete
  BY <1>24 DEF ConfigComplete, Completed, MoreConfigs
<1>25. CASE SelectConfiguration
  BY <1>25 DEF SelectConfiguration
<1>26. CASE SkipOtg
  BY <1>26 DEF SkipOtg
<1>27. CASE ConfigurationSet
  BY <1>27 DEF ConfigurationSet, Completed
<1>28. CASE InitClientDrivers
  BY <1>28 DEF InitClientDrivers, InitOutcome
<1>29. CASE HoldMask
  BY <1>29 DEF HoldMask
<1>30. CASE HoldInit
  BY <1>30 DEF HoldInit
<1>31. CASE NoMemory("RESET_DEVICE", 0)
  BY <1>31 DEF NoMemory
<1>32. CASE NoMemory("GET_DEVICE_DESCRIPTOR_SIZE", 2)
  BY <1>32 DEF NoMemory
<1>33. CASE NoMemory("GET_CONFIG_DESCRIPTOR_SIZE", 2)
  BY <1>33 DEF NoMemory
<1>34. ASSUME NEW d \in Devices, Plug(d) PROVE CountInv'
  BY <1>34 DEF Plug
<1>35. CASE RoleRound
  BY <1>35 DEF RoleRound, HostInit
<1>36. CASE IsrTimer
  BY <1>36 DEF IsrTimer
<1>37. CASE IsrAttach
  BY <1>37 DEF IsrAttach, Interrupt
<1>38. CASE IsrDetach
  BY <1>38 DEF IsrDetach, Interrupt
<1>39. CASE Answer
  BY <1>39 DEF Answer, Reaches, Finish, Obeyed, Asks, Interrupt
<1>40. CASE NoAnswer
  BY <1>40 DEF NoAnswer, Reaches, Finish, Interrupt
<1>41. CASE Fault
  BY <1>41 DEF Fault, Reaches, Finish, Asks, Interrupt
<1>42. CASE LostAcknowledgement
  BY <1>42 DEF LostAcknowledgement, Reaches, Asks, Finish, Interrupt
<1>43. CASE ScanTick
  BY <1>43 DEF ScanTick, Idle
<1>44. CASE Unplug
  BY <1>44 DEF Unplug
<1>45. CASE UNCHANGED vars
  BY <1>45 DEF vars
<1>46. CASE Tasks
  BY <1>46,
     <1>1, <1>2, <1>3, <1>4, <1>5, <1>6, <1>7, <1>8, <1>9, <1>10, <1>11, <1>12, <1>13,
     <1>14, <1>15, <1>16, <1>17, <1>18, <1>19, <1>20, <1>21, <1>22, <1>23, <1>24, <1>25,
     <1>26, <1>27, <1>28, <1>29, <1>30, <1>31, <1>32, <1>33 DEF Tasks
<1>47. CASE Isr
  BY <1>47,
     <1>36, <1>37, <1>38, <1>39, <1>40, <1>41, <1>42 DEF Isr, Transfer
<1> QED BY <1>34, <1>35, <1>43, <1>44, <1>45, <1>46, <1>47 DEF Next, Main

-----------------------------------------------------------------------------
(* The theorems.                                                           *)

IInv == Base /\ ListInv /\ AttachInv /\ DetachInv /\ ToldInv /\ ReadyInv /\ CountInv

LEMMA IInvInit == Init => IInv
<1> SUFFICES ASSUME Init PROVE IInv
  OBVIOUS
<1>1. Base
  BY BaseInit
<1>2. ListInv /\ AttachInv /\ DetachInv
  BY DEF Init, ListInv, AttachInv, DetachInv, Noticed, Detached, Before
<1>3. ToldInv /\ ReadyInv /\ CountInv
  BY DEF Init, ToldInv, Addressed, Selected, ReadyInv, CountInv, Noticed, Detached, Holding, Before,
         Addressing, Commands
<1> QED BY <1>1, <1>2, <1>3 DEF IInv

LEMMA IInvCorrect == Spec => []IInv
<1>1. IInv /\ [Next]_vars => IInv'
  BY BaseStep, ListStep, AttachStep, DetachStep, ToldStep, ReadyStep, CountStep DEF IInv
<1> QED BY <1>1, IInvInit, PTL DEF Spec

\* Type correctness for any devices that can be plugged in and any numbers of tries.
THEOREM TypesHold == Spec => []TypeOK
<1>1. IInv => TypeOK
  BY TypeParts DEF IInv, Base
<1> QED BY <1>1, IInvCorrect, PTL

\* Whenever the attach interrupt comes, and although U1IE is restored to an older
\* value: the host never waits for a device that it cannot be told of.
THEOREM AttachesFound == Spec => []AttachNotLost
<1>1. IInv => AttachNotLost
  BY DEF IInv, AttachInv, AttachNotLost, Interrupt, Detached
<1> QED BY <1>1, IInvCorrect, PTL

\* From the settling delay on a removal is noticed, however quickly something else
\* is plugged in.
THEOREM DetachesSeen == Spec => []DetachNotLost
<1>1. IInv => DetachNotLost
  BY DEF IInv, AttachInv, DetachInv, DetachNotLost, Noticed, Interrupt, Detached
<1> QED BY <1>1, IInvCorrect, PTL

\* Whatever had to be repeated, the choice is made among all the configurations.
THEOREM ConfigurationsRead == Spec => []AllConfigsRead
<1>1. IInv => AllConfigsRead
  BY DEF IInv, ListInv, AllConfigsRead
<1> QED BY <1>1, IInvCorrect, PTL

\* A device that stays and has no address yet is given up only after the product of
\* the two numbers of tries, whatever these are.
THEOREM TriesAllUsed == Spec => []GivenUpLate
<1>1. IInv => GivenUpLate
  BY DEF IInv, CountInv, GivenUpLate, GivenUp, TriesUsed, There
<1> QED BY <1>1, IInvCorrect, PTL

-----------------------------------------------------------------------------
(* HostEnum implements Enumeration.                                        *)

LEMMA PromiseInit == Init => Abstract!EInit
<1> SUFFICES ASSUME Init PROVE Abstract!EInit
  OBVIOUS
<1>1. Phase = "absent"
  BY DEF Init, Phase, Detached, Holding
<1>2. enumTries \in 0 .. EnumTries
  BY EnumConstants DEF Init
<1>3. attached = FALSE
  BY DEF Init
<1> QED BY <1>1, <1>2, <1>3, Zenon DEF Abstract!EInit

LEMMA PromiseStep == IInv /\ [Next]_vars => [Abstract!ENext]_(Abstract!evars)
<1> SUFFICES ASSUME IInv, [Next]_vars PROVE [Abstract!ENext]_(Abstract!evars)
  OBVIOUS
<1> USE EnumConstants, Successors, SubstatesAre
    DEF
        IInv, Base, Values, PlaceInv, TryInv, Phase, Before, Addressing, Commands,
        Detached, Holding, Abstract!ENext, Abstract!Prepare, Abstract!Attach,
        Abstract!Retry, Abstract!Run, Abstract!GiveUp, Abstract!Lose, Abstract!Partner,
        Abstract!evars, State, SetNextSubState, SetNextSubSubState, SetHoldState,
        InitErrorCounters, Case, Calm, busVars, hwVars, tryVars, infoVars, appVars,
        history
<1>1. CASE EventMask
  BY <1>1 DEF EventMask, Enter
<1>2. CASE EventRemove
  BY <1>2 DEF EventRemove
<1>3. CASE Override
  BY <1>3 DEF Override, Enter
<1>4. CASE ClearOverride
  BY <1>4 DEF ClearOverride
<1>5. CASE Wait
  BY <1>5 DEF Wait, Waiting
<1>6. CASE InitializeHost
  <2>1. attached = FALSE
    BY <1>6 DEF InitializeHost, DetachResets, ToldInv, Flags
  <2>2. enumTries' = EnumTries /\ attached' = attached
    BY <1>6 DEF InitializeHost, SetTries
  <2>3. Phase = "absent" /\ Phase' = "absent"
    BY <1>6 DEF InitializeHost
  <2> QED BY <2>1, <2>2, <2>3
<1>7. CASE ResetProcessor
  BY <1>7 DEF ResetProcessor, DetachResets
<1>8. CASE WaitForPower
  BY <1>8 DEF WaitForPower
<1>9. CASE TurnOnPower
  BY <1>9 DEF TurnOnPower, NextThenEnable
<1>10. CASE EnableAttach
  BY <1>10 DEF EnableAttach, NextThenEnable
<1>11. CASE StartSettling
  BY <1>11 DEF StartSettling
<1>12. CASE SettlingDone
  BY <1>12 DEF SettlingDone
<1>13. CASE SetReset
  BY <1>13 DEF SetReset
<1>14. CASE ResetRecovery
  BY <1>14 DEF ResetRecovery
<1>15. CASE ResetComplete
  BY <1>15 DEF ResetComplete, EnumInterrupts
<1>16. CASE ValidateVidPid
  BY <1>16 DEF ValidateVidPid
<1>17. CASE Send
  BY <1>17 DEF Send
<1>18. CASE AwaitedOk
  BY <1>18 DEF AwaitedOk, Answered, Unsupported
<1>19. CASE AwaitedFailed
  BY <1>19 DEF AwaitedFailed, CheckAttempts
<1>20. CASE DeviceDescriptorComplete
  BY <1>20 DEF DeviceDescriptorComplete, Completed
<1>21. CASE AddressComplete
  BY <1>21 DEF AddressComplete, Completed
<1>22. CASE InitConfiguration
  BY <1>22 DEF InitConfiguration
<1>23. CASE ConfigSizeComplete
  BY <1>23 DEF ConfigSizeComplete, Completed
<1>24. CASE ConfigComplete
  BY <1>24 DEF ConfigComplete, Completed, MoreConfigs
<1>25. CASE SelectConfiguration
  BY <1>25 DEF SelectConfiguration
<1>26. CASE SkipOtg
  BY <1>26 DEF SkipOtg
<1>27. CASE ConfigurationSet
  BY <1>27 DEF ConfigurationSet, Completed
<1>28. CASE InitClientDrivers
  <2>1. Phase = "enumerating" /\ enumTries' = enumTries
    BY <1>28 DEF InitClientDrivers
  <2>2. CASE attached' = TRUE /\ SetNextSubState
    <3>1. Phase' = "running"
      BY <1>28, <2>2 DEF InitClientDrivers
    <3>2. plug = NoDevice \/ DetachPending
            \/ (devAddr = addr /\ devConfig = chosen /\ chosen \in plug.midi)
      <4>1. sub = "SET_CONFIGURATION" /\ n = 3
        BY <1>28 DEF InitClientDrivers
      <4> QED BY <4>1 DEF DetachInv, ReadyInv, DetachPending, Noticed, Selected
    <3> QED BY <2>1, <2>2, <3>1, <3>2
  <2>3. CASE SetHoldState("CLIENT_INIT_ERROR") /\ UNCHANGED attached
    <3>1. Phase' = "held"
      BY <2>3
    <3> QED BY <2>1, <2>3, <3>1
  <2> QED BY <1>28, <2>2, <2>3 DEF InitClientDrivers, InitOutcome
<1>29. CASE HoldMask
  BY <1>29 DEF HoldMask
<1>30. CASE HoldInit
  BY <1>30 DEF HoldInit
<1>31. CASE NoMemory("RESET_DEVICE", 0)
  BY <1>31 DEF NoMemory
<1>32. CASE NoMemory("GET_DEVICE_DESCRIPTOR_SIZE", 2)
  BY <1>32 DEF NoMemory
<1>33. CASE NoMemory("GET_CONFIG_DESCRIPTOR_SIZE", 2)
  BY <1>33 DEF NoMemory
<1>34. ASSUME NEW d \in Devices, Plug(d) PROVE [Abstract!ENext]_(Abstract!evars)
  BY <1>34 DEF Plug
<1>35. CASE RoleRound
  BY <1>35 DEF RoleRound, HostInit
<1>36. CASE IsrTimer
  BY <1>36 DEF IsrTimer
<1>37. CASE IsrAttach
  BY <1>37 DEF IsrAttach, Interrupt
<1>38. CASE IsrDetach
  BY <1>38 DEF IsrDetach, Interrupt
<1>39. CASE Answer
  BY <1>39 DEF Answer, Reaches, Finish, Obeyed, Asks, Interrupt
<1>40. CASE NoAnswer
  BY <1>40 DEF NoAnswer, Reaches, Finish, Interrupt
<1>41. CASE Fault
  BY <1>41 DEF Fault, Reaches, Finish, Asks, Interrupt
<1>42. CASE LostAcknowledgement
  BY <1>42 DEF LostAcknowledgement, Reaches, Asks, Finish, Interrupt
<1>43. CASE ScanTick
  BY <1>43 DEF ScanTick, Idle
<1>44. CASE Unplug
  BY <1>44 DEF Unplug
<1>45. CASE UNCHANGED vars
  BY <1>45 DEF vars
<1>46. CASE Tasks
  BY <1>46,
     <1>1, <1>2, <1>3, <1>4, <1>5, <1>6, <1>7, <1>8, <1>9, <1>10, <1>11, <1>12, <1>13,
     <1>14, <1>15, <1>16, <1>17, <1>18, <1>19, <1>20, <1>21, <1>22, <1>23, <1>24, <1>25,
     <1>26, <1>27, <1>28, <1>29, <1>30, <1>31, <1>32, <1>33 DEF Tasks
<1>47. CASE Isr
  BY <1>47,
     <1>36, <1>37, <1>38, <1>39, <1>40, <1>41, <1>42 DEF Isr, Transfer
<1> QED BY <1>34, <1>35, <1>43, <1>44, <1>45, <1>46, <1>47 DEF Next, Main


\* The state machine of USBHostTasks keeps the promise of Enumeration: whatever
\* interrupts, faults, removals and role scans come in between, the application is
\* told of a device only when that device, if it is still there, has the
\* configuration chosen for it, and is reset before it is told of another.
THEOREM PromiseKept == Spec => KeepsPromise
  BY PromiseInit, PromiseStep, IInvCorrect, PTL DEF Spec, KeepsPromise, Abstract!ESpec

-----------------------------------------------------------------------------
(* An enumeration does not go round for ever.                              *)

LEMMA PlaceOf == \A i \in 1 .. 17 : Place(Order[i]) = i
<1> SUFFICES ASSUME NEW i \in 1 .. 17 PROVE Place(Order[i]) = i
  OBVIOUS
<1>1. (CHOOSE j \in 1 .. 17 : Order[j] = Order[i]) = i
  BY OrderDistinct
<1> QED BY <1>1 DEF Place

LEMMA Places ==
  /\ Place("SETTLE") = 5
  /\ Place("RESET_DEVICE") = 6
  /\ Place("GET_DEVICE_DESCRIPTOR_SIZE") = 7
  /\ Place("GET_DEVICE_DESCRIPTOR") = 8
  /\ Place("VALIDATE_VID_PID") = 9
  /\ Place("SET_DEVICE_ADDRESS") = 10
  /\ Place("INIT_CONFIGURATION") = 11
  /\ Place("GET_CONFIG_DESCRIPTOR_SIZE") = 12
  /\ Place("GET_CONFIG_DESCRIPTOR") = 13
  /\ Place("SELECT_CONFIGURATION") = 14
  /\ Place("APPLICATION_CONFIGURATION") = 15
  /\ Place("SET_CONFIGURATION") = 16
<1>1. Place("SETTLE") = 5
  BY PlaceOf, 5 \in 1 .. 17 DEF Order
<1>2. Place("RESET_DEVICE") = 6
  BY PlaceOf, 6 \in 1 .. 17 DEF Order
<1>3. Place("GET_DEVICE_DESCRIPTOR_SIZE") = 7
  BY PlaceOf, 7 \in 1 .. 17 DEF Order
<1>4. Place("GET_DEVICE_DESCRIPTOR") = 8
  BY PlaceOf, 8 \in 1 .. 17 DEF Order
<1>5. Place("VALIDATE_VID_PID") = 9
  BY PlaceOf, 9 \in 1 .. 17 DEF Order
<1>6. Place("SET_DEVICE_ADDRESS") = 10
  BY PlaceOf, 10 \in 1 .. 17 DEF Order
<1>7. Place("INIT_CONFIGURATION") = 11
  BY PlaceOf, 11 \in 1 .. 17 DEF Order
<1>8. Place("GET_CONFIG_DESCRIPTOR_SIZE") = 12
  BY PlaceOf, 12 \in 1 .. 17 DEF Order
<1>9. Place("GET_CONFIG_DESCRIPTOR") = 13
  BY PlaceOf, 13 \in 1 .. 17 DEF Order
<1>10. Place("SELECT_CONFIGURATION") = 14
  BY PlaceOf, 14 \in 1 .. 17 DEF Order
<1>11. Place("APPLICATION_CONFIGURATION") = 15
  BY PlaceOf, 15 \in 1 .. 17 DEF Order
<1>12. Place("SET_CONFIGURATION") = 16
  BY PlaceOf, 16 \in 1 .. 17 DEF Order
<1> QED BY <1>1, <1>2, <1>3, <1>4, <1>5, <1>6, <1>7, <1>8, <1>9, <1>10, <1>11, <1>12

\* The order of the tuples is lexicographic.
LEMMA LessIs ==
  ASSUME NEW a, NEW b,
         \/ a[1] < b[1]
         \/ /\ a[1] = b[1]
            /\ \/ a[2] < b[2]
               \/ /\ a[2] = b[2]
                  /\ \/ a[3] < b[3]
                     \/ /\ a[3] = b[3]
                        /\ \/ a[4] < b[4]
                           \/ /\ a[4] = b[4]
                              /\ a[5] < b[5] \/ (a[5] = b[5] /\ a[6] < b[6])
  PROVE  Less(a, b)
<1>1. PICK i \in 1 .. 6 : a[i] < b[i] /\ \A j \in 1 .. 6 : j < i => a[j] = b[j]
  OBVIOUS
<1>2. \A j \in 1 .. i - 1 : a[j] = b[j]
  BY <1>1
<1> QED BY <1>1, <1>2 DEF Less

\* The parts of ToGo by name.
Part     == IF Reading THEN 1 ELSE IF Place(sub) < Place("SELECT_CONFIGURATION") THEN 2 ELSE 0
Unread   == IF Reading THEN count ELSE 0
Ahead    == 17 - Place(sub)
Attempts == IF sub \in Commands /\ n < 3 THEN cmdTries ELSE 0
Steps    == 4 - n

Shrinks ==
  \/ enumTries' < enumTries
  \/ /\ enumTries' = enumTries
     /\ \/ Part' < Part
        \/ /\ Part' = Part
           /\ \/ Unread' < Unread
              \/ /\ Unread' = Unread
                 /\ \/ Ahead' < Ahead
                    \/ /\ Ahead' = Ahead
                       /\ \/ Attempts' < Attempts
                          \/ Attempts' = Attempts /\ Steps' < Steps

Shrinking ==
  Phase = "enumerating" /\ Phase' = "enumerating" =>
    IF sub' = sub /\ n' = n THEN UNCHANGED <<enumTries, cmdTries, count>> ELSE Shrinks

LEMMA ShrinkStep == Base /\ [Next]_vars => Shrinking
<1> SUFFICES ASSUME Base, [Next]_vars PROVE Shrinking
  OBVIOUS
<1> USE EnumConstants, SubstatesAre, Successors, Places, DescType
    DEF
        Base, Values, PlaceInv, TryInv, Addressing, Detached, Holding, Commands,
        Shrinking, Shrinks, Part, Unread, Ahead, Attempts, Steps, Reading, Phase,
        State, SetNextSubState, SetNextSubSubState, SetHoldState, InitErrorCounters,
        Case, Calm, busVars, hwVars, tryVars, infoVars, appVars, history
<1>1. CASE EventMask
  BY <1>1 DEF EventMask, Enter
<1>2. CASE EventRemove
  BY <1>2 DEF EventRemove
<1>3. CASE Override
  BY <1>3 DEF Override, Enter
<1>4. CASE ClearOverride
  BY <1>4 DEF ClearOverride
<1>5. CASE Wait
  BY <1>5 DEF Wait, Waiting
<1>6. CASE InitializeHost
  BY <1>6 DEF InitializeHost, DetachResets, SetTries
<1>7. CASE ResetProcessor
  BY <1>7 DEF ResetProcessor, DetachResets
<1>8. CASE WaitForPower
  BY <1>8 DEF WaitForPower
<1>9. CASE TurnOnPower
  BY <1>9 DEF TurnOnPower, NextThenEnable
<1>10. CASE EnableAttach
  BY <1>10 DEF EnableAttach, NextThenEnable
<1>11. CASE StartSettling
  BY <1>11 DEF StartSettling
<1>12. CASE SettlingDone
  BY <1>12 DEF SettlingDone
<1>13. CASE SetReset
  BY <1>13 DEF SetReset
<1>14. CASE ResetRecovery
  BY <1>14 DEF ResetRecovery
<1>15. CASE ResetComplete
  BY <1>15 DEF ResetComplete, EnumInterrupts
<1>16. CASE ValidateVidPid
  BY <1>16 DEF ValidateVidPid
<1>17. CASE Send
  BY <1>17 DEF Send
<1>18. CASE AwaitedOk
  BY <1>18 DEF AwaitedOk, Answered, Unsupported
<1>19. CASE AwaitedFailed
  BY <1>19 DEF AwaitedFailed, CheckAttempts
<1>20. CASE DeviceDescriptorComplete
  BY <1>20 DEF DeviceDescriptorComplete, Completed
<1>21. CASE AddressComplete
  BY <1>21 DEF AddressComplete, Completed
<1>22. CASE InitConfiguration
  <2>1. sub = "INIT_CONFIGURATION" /\ enumTries' = enumTries
    BY <1>22 DEF InitConfiguration
  <2>2. sub' = "HOLD_INIT" \/ sub' = "GET_CONFIG_DESCRIPTOR_SIZE"
    BY <1>22 DEF InitConfiguration
  <2>3. Part = 2
    BY <2>1
  <2>4. sub' = "GET_CONFIG_DESCRIPTOR_SIZE" => Part' = 1
    OBVIOUS
  <2> QED BY <2>1, <2>2, <2>3, <2>4
<1>23. CASE ConfigSizeComplete
  BY <1>23 DEF ConfigSizeComplete, Completed
<1>24. CASE ConfigComplete
  BY <1>24 DEF ConfigComplete, Completed, MoreConfigs
<1>25. CASE SelectConfiguration
  <2>1. sub = "SELECT_CONFIGURATION" /\ n = 0 /\ UNCHANGED <<enumTries, count, cmdTries>>
    BY <1>25 DEF SelectConfiguration
  <2>2. sub' = "HOLD_INIT" \/ (sub' = sub /\ n' = 1)
    BY <1>25 DEF SelectConfiguration
  <2> QED BY <2>1, <2>2
<1>26. CASE SkipOtg
  BY <1>26 DEF SkipOtg
<1>27. CASE ConfigurationSet
  BY <1>27 DEF ConfigurationSet, Completed
<1>28. CASE InitClientDrivers
  BY <1>28 DEF InitClientDrivers, InitOutcome
<1>29. CASE HoldMask
  BY <1>29 DEF HoldMask
<1>30. CASE HoldInit
  BY <1>30 DEF HoldInit
<1>31. CASE NoMemory("RESET_DEVICE", 0)
  BY <1>31 DEF NoMemory
<1>32. CASE NoMemory("GET_DEVICE_DESCRIPTOR_SIZE", 2)
  BY <1>32 DEF NoMemory
<1>33. CASE NoMemory("GET_CONFIG_DESCRIPTOR_SIZE", 2)
  BY <1>33 DEF NoMemory
<1>34. ASSUME NEW d \in Devices, Plug(d) PROVE Shrinking
  BY <1>34 DEF Plug
<1>35. CASE RoleRound
  BY <1>35 DEF RoleRound, HostInit
<1>36. CASE IsrTimer
  BY <1>36 DEF IsrTimer
<1>37. CASE IsrAttach
  BY <1>37 DEF IsrAttach, Interrupt
<1>38. CASE IsrDetach
  BY <1>38 DEF IsrDetach, Interrupt
<1>39. CASE Answer
  BY <1>39 DEF Answer, Reaches, Finish, Obeyed, Asks, Interrupt
<1>40. CASE NoAnswer
  BY <1>40 DEF NoAnswer, Reaches, Finish, Interrupt
<1>41. CASE Fault
  BY <1>41 DEF Fault, Reaches, Finish, Asks, Interrupt
<1>42. CASE LostAcknowledgement
  BY <1>42 DEF LostAcknowledgement, Reaches, Asks, Finish, Interrupt
<1>43. CASE ScanTick
  BY <1>43 DEF ScanTick, Idle
<1>44. CASE Unplug
  BY <1>44 DEF Unplug
<1>45. CASE UNCHANGED vars
  BY <1>45 DEF vars
<1>46. CASE Tasks
  BY <1>46,
     <1>1, <1>2, <1>3, <1>4, <1>5, <1>6, <1>7, <1>8, <1>9, <1>10, <1>11, <1>12, <1>13,
     <1>14, <1>15, <1>16, <1>17, <1>18, <1>19, <1>20, <1>21, <1>22, <1>23, <1>24, <1>25,
     <1>26, <1>27, <1>28, <1>29, <1>30, <1>31, <1>32, <1>33 DEF Tasks
<1>47. CASE Isr
  BY <1>47,
     <1>36, <1>37, <1>38, <1>39, <1>40, <1>41, <1>42 DEF Isr, Transfer
<1> QED BY <1>34, <1>35, <1>43, <1>44, <1>45, <1>46, <1>47 DEF Next, Main

\* EnumerationShrinks: whatever fails, is repeated, unplugged or replaced, every step
\* of the sequence comes nearer to its end.
THEOREM EnumerationIsFinite == Spec => EnumerationShrinks
<1>1. Base /\ [Next]_vars =>
        (Phase = "enumerating" /\ Phase' = "enumerating" =>
           /\ Finite
           /\ IF <<sub, n>>' = <<sub, n>> THEN ToGo' = ToGo ELSE Less(ToGo', ToGo))
  <2> SUFFICES ASSUME Base, Shrinking, Phase = "enumerating", Phase' = "enumerating"
               PROVE  /\ Finite
                      /\ IF <<sub, n>>' = <<sub, n>> THEN ToGo' = ToGo ELSE Less(ToGo', ToGo)
    BY ShrinkStep
  <2>1. ToGo = <<enumTries, Part, Unread, Ahead, Attempts, Steps>>
    BY DEF ToGo, Part, Unread, Ahead, Attempts, Steps
  <2>2. ToGo' = <<enumTries', Part', Unread', Ahead', Attempts', Steps'>>
    BY DEF ToGo, Part, Unread, Ahead, Attempts, Steps
  <2>3. ASSUME sub' = sub, n' = n PROVE ToGo' = ToGo
    BY <2>3 DEF Shrinking, ToGo, Reading
  <2>4. ASSUME Shrinks PROVE Less(ToGo', ToGo)
    <3>1. /\ ToGo[1] = enumTries /\ ToGo[2] = Part /\ ToGo[3] = Unread
          /\ ToGo[4] = Ahead /\ ToGo[5] = Attempts /\ ToGo[6] = Steps
      BY <2>1
    <3>2. /\ ToGo'[1] = enumTries' /\ ToGo'[2] = Part' /\ ToGo'[3] = Unread'
          /\ ToGo'[4] = Ahead' /\ ToGo'[5] = Attempts' /\ ToGo'[6] = Steps'
      BY <2>2
    <3> QED BY <2>4, <3>1, <3>2, LessIs DEF Shrinks
  <2>5. Finite
    <3>1. enumTries \in Nat /\ Part \in Nat /\ Unread \in Nat /\ Attempts \in Nat /\ Steps \in Nat
      BY EnumConstants DEF Base, Values, Part, Unread, Attempts, Steps
    <3>2. Ahead \in Nat
      BY SubstatesAre, Places DEF Base, Values, Ahead, Phase, Detached, Holding
    <3> QED BY <2>1, <3>1, <3>2 DEF Finite
  <2> QED BY <2>3, <2>4, <2>5 DEF Shrinking
<1>2. Spec => []Base
  BY BaseInit, BaseStep, PTL DEF Spec
<1> QED BY <1>1, <1>2, PTL DEF Spec, EnumerationShrinks
=============================================================================
