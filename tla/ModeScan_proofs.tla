--------------------------- MODULE ModeScan_proofs ---------------------------
(***************************************************************************)
(* Proofs about ModeScan, for every duration of an enumeration.            *)
(***************************************************************************)
EXTENDS ModeScan, TLAPS

\* Once main has stopped the timer it stays stopped until the reset.
TimerOff == pc \in {"keepHost"} \cup Loops => ~t2

Inv == TypeOK /\ TasksOfStack /\ AttachNotStale /\ TimerOff

LEMMA InvInit == Init => Inv
<1> SUFFICES ASSUME Init PROVE Inv
  OBVIOUS
<1>1. 0 \in 0 .. EnumTicks /\ 0 \in 0 .. Hold + 1
  BY EnumAssumption, SMT DEF Hold
<1>2. TypeOK
  BY <1>1, Zenon DEF Init, TypeOK, Steps
<1>3. TasksOfStack /\ TimerOff
  BY DEF Init, TasksOfStack, TimerOff, Loops
<1>4. AttachNotStale
  BY Zenon DEF Init, AttachNotStale
<1> QED BY <1>2, <1>3, <1>4 DEF Inv

\* The steps that only move main: a jump that keeps to the stack.
LEMMA InvGoto ==
  ASSUME Inv,
         NEW l \in Steps, Goto(l),
         UNCHANGED <<scan, stack, attached, timerVars, partnerVars>>,
         l \in {"whileDevice", "deviceTasks", "stopTimerDevice", "device"} => stack = "device",
         l \in {"whileHost", "hostTasks", "ifAttached", "stopTimerHost", "keepHost", "host"}
           => stack = "host",
         attached => l \in {"ifAttached", "stopTimerHost", "keepHost", "host"},
         l \in {"keepHost"} \cup Loops => ~t2
  PROVE  Inv'
<1> USE DEF Inv, timerVars, partnerVars
<1>1. passed' \in BOOLEAN /\ pc' = l
  BY DEF Goto, TypeOK
<1>2. TypeOK'
  BY <1>1 DEF TypeOK
<1>3. TasksOfStack'
  BY <1>1 DEF TasksOfStack
<1>4. AttachNotStale' /\ TimerOff'
  BY <1>1 DEF AttachNotStale, TimerOff
<1> QED BY <1>2, <1>3, <1>4

\* Every step of main, of the timer and of the partner keeps it.
LEMMA InvStep == Inv /\ [Next]_vars => Inv'
<1> SUFFICES ASSUME Inv, [Next]_vars PROVE Inv'
  OBVIOUS
<1>0. EnumTicks \in Nat \ {0}
  BY EnumAssumption
<1> USE DEF Inv
<1>1. CASE Switch
  BY <1>1, InvGoto DEF Switch, TasksOfStack, AttachNotStale, Steps, Loops
<1>2. CASE InitDevice
  BY <1>0, <1>2
     DEF InitDevice, StartStack, Goto, timerVars, TypeOK, TasksOfStack, AttachNotStale,
         TimerOff, Steps, Loops
<1>3. CASE WhileDevice
  BY <1>3, InvGoto DEF WhileDevice, TasksOfStack, AttachNotStale, Steps, Loops
<1>4. CASE DeviceTasks
  BY <1>4, InvGoto DEF DeviceTasks, TasksOfStack, AttachNotStale, Steps, Loops
<1>5. CASE StopTimerDevice
  BY <1>5
     DEF StopTimerDevice, disableTimer2, Goto, partnerVars, TypeOK, TasksOfStack,
         AttachNotStale, TimerOff, Steps, Loops
<1>6. CASE DeviceLoop
  BY <1>6, InvGoto DEF DeviceLoop, TasksOfStack, AttachNotStale, TimerOff, Steps, Loops
<1>7. CASE InitHost
  BY <1>0, <1>7
     DEF InitHost, StartStack, Goto, timerVars, TypeOK, TasksOfStack, AttachNotStale,
         TimerOff, Steps, Loops
<1>8. CASE WhileHost
  BY <1>8, InvGoto DEF WhileHost, TasksOfStack, AttachNotStale, Steps, Loops
<1>9. CASE HostTasks
  BY <1>9
     DEF HostTasks, Goto, timerVars, partnerVars, TypeOK, TasksOfStack, AttachNotStale,
         TimerOff, Steps, Loops
<1>10. CASE IfAttached
  BY <1>10, InvGoto DEF IfAttached, TypeOK, TasksOfStack, AttachNotStale, Steps, Loops
<1>11. CASE StopTimerHost
  BY <1>11
     DEF StopTimerHost, disableTimer2, Goto, partnerVars, TypeOK, TasksOfStack,
         AttachNotStale, TimerOff, Steps, Loops
<1>12. CASE KeepHost
  BY <1>12
     DEF KeepHost, Goto, timerVars, partnerVars, TypeOK, TasksOfStack, AttachNotStale,
         TimerOff, Steps, Loops
<1>13. CASE HostLoop
  BY <1>13, InvGoto DEF HostLoop, TasksOfStack, AttachNotStale, TimerOff, Steps, Loops
<1>14. CASE Reset
  <2>1. 0 \in 0 .. EnumTicks /\ 0 \in 0 .. Hold + 1
    BY <1>0, SMT DEF Hold
  <2>2. TypeOK'
    BY <1>14, <2>1, Zenon DEF Reset, TypeOK, Steps
  <2>3. TasksOfStack' /\ TimerOff'
    BY <1>14 DEF Reset, TasksOfStack, TimerOff, Loops
  <2>4. AttachNotStale'
    BY <1>14, Zenon DEF Reset, AttachNotStale
  <2> QED BY <2>2, <2>3, <2>4
<1>15. CASE Tick
  <2>1. progress' \in 0 .. EnumTicks
    BY <1>0, <1>15 DEF Tick, TypeOK
  <2>2. divider' \in 0 .. Hold + 1 /\ scan' \in {"HOST", "DEVICE"}
    BY <1>15 DEF Tick, change_scan_state_flag, Other, Hold, TypeOK
  <2> QED
    BY <1>15, <2>1, <2>2 DEF Tick, TypeOK, TasksOfStack, AttachNotStale, TimerOff
<1>16. ASSUME NEW p \in {"nothing", "pc", "midi"}, Plug(p) PROVE Inv'
  BY <1>0, <1>16
     DEF Plug, mainVars, timerVars, TypeOK, TasksOfStack, AttachNotStale, TimerOff
<1>17. CASE UNCHANGED vars
  BY <1>17
     DEF vars, mainVars, timerVars, partnerVars, TypeOK, TasksOfStack, AttachNotStale,
         TimerOff
<1> QED
  BY <1>1, <1>2, <1>3, <1>4, <1>5, <1>6, <1>7, <1>8, <1>9, <1>10, <1>11, <1>12, <1>13,
     <1>14, <1>15, <1>16, <1>17
     DEF Next, Main

\* The invariant holds whatever the timer and the partner do.
THEOREM InvHolds == Spec => []Inv
  BY InvInit, InvStep, PTL DEF Spec

\* At whatever step of main the interrupt changes the role, main polls the
\* stack it has initialised, and a partner is never taken for attached that was
\* attached in an earlier round.
THEOREM RolesSafe == Spec => [](TypeOK /\ TasksOfStack /\ AttachNotStale)
<1>1. Inv => TypeOK /\ TasksOfStack /\ AttachNotStale
  BY DEF Inv
<1> QED
  BY <1>1, InvHolds, PTL

\* The two of them the runs check, on their own.
THEOREM TypesHold == Spec => []TypeOK
  BY RolesSafe, PTL

\* isMidiDeviceAttached never comes from a round that is over.
THEOREM AttachStaysFresh == Spec => []AttachNotStale
  BY RolesSafe, PTL

\* The timer cannot change the role once main is in one of its final loops.
THEOREM RoleIsKept == Spec => RoleKept
<1>1. Inv /\ [Next]_vars => [(pc \in Loops /\ pc' = pc) => scan' = scan]_vars
  <2> SUFFICES ASSUME Inv, Next, pc \in Loops, pc' = pc PROVE scan' = scan
    BY DEF vars, mainVars
  <2>1. ~t2
    BY DEF Inv, TimerOff
  <2>2. CASE Main
    BY <2>2
       DEF Main, Switch, InitDevice, WhileDevice, DeviceTasks, StopTimerDevice, DeviceLoop,
           InitHost, WhileHost, HostTasks, IfAttached, StopTimerHost, KeepHost, HostLoop,
           Reset, disableTimer2, Loops
  <2>3. CASE Tick
    BY <2>1, <2>3 DEF Tick
  <2>4. ASSUME NEW p \in {"nothing", "pc", "midi"}, Plug(p) PROVE scan' = scan
    BY <2>4 DEF Plug, mainVars
  <2> QED
    BY <2>2, <2>3, <2>4 DEF Next
<1> QED
  BY <1>1, InvHolds, PTL DEF Spec, RoleKept

-----------------------------------------------------------------------------
(* The search passes nobody by.                                            *)

\* The role has just changed; at most one tick has passed since, and main has not
\* polled after it.
Early == divider = 0 \/ (divider = 1 /\ ~passed)

\* Where main is when the role is another than that of the stack it polls.
Turning ==
  /\ pc \in {"whileDevice", "deviceTasks"} /\ scan # "DEVICE" => Early
  /\ pc \in {"whileHost", "hostTasks", "ifAttached"} /\ scan # "HOST" => Early
  /\ pc = "deviceTasks" /\ scan # "DEVICE" => divider = 0 /\ ~passed
  /\ pc = "hostTasks" /\ scan # "HOST" => divider = 0 /\ ~passed

\* A stack is started early in the round of its role.
Starting ==
  /\ pc = "initDevice" => scan = "DEVICE"
  /\ pc = "initHost" => scan = "HOST"
  /\ pc \in {"switch", "initDevice", "initHost"} => Early

\* Only the two ways into the final loops stop the timer.
TimerOn == pc \notin {"keepHost"} \cup Loops => t2

RoundInv == Turning /\ Starting /\ TimerOn

LEMMA RoundInit == Init => RoundInv
BY DEF Init, RoundInv, Turning, Starting, TimerOn, Early, Loops

\* A tick comes only after a poll, so none comes twice while main is on its way from
\* one stack to the other.
LEMMA RoundTick == ASSUME Inv, RoundInv, Tick PROVE RoundInv'
<1>1. passed /\ ~passed' /\ pc' = pc /\ t2' = t2
  BY DEF Tick
<1>2. divider \in 0 .. Hold + 1 /\ scan \in {"HOST", "DEVICE"}
  BY DEF Inv, TypeOK
<1>3. CASE UNCHANGED <<divider, scan>>
  BY <1>1, <1>3 DEF RoundInv, Turning, Starting, TimerOn, Early
<1>4. CASE divider <= Hold /\ divider' = divider + 1 /\ scan' = scan
  BY <1>1, <1>2, <1>4 DEF RoundInv, Turning, Starting, TimerOn, Early
<1>5. CASE divider > Hold /\ divider' = 0
  <2>1. ~Early
    BY <1>2, <1>5 DEF Early, Hold
  <2>2. pc \notin {"switch", "initDevice", "initHost"}
    BY <2>1 DEF RoundInv, Starting
  <2>3. Early'
    BY <1>5 DEF Early
  <2> QED
    BY <1>1, <1>5, <2>2, <2>3 DEF RoundInv, Turning, Starting, TimerOn
<1> QED
  BY <1>3, <1>4, <1>5 DEF Tick, change_scan_state_flag

LEMMA RoundMain == ASSUME Inv, RoundInv, Main PROVE RoundInv'
<1> USE DEF RoundInv, Turning, Starting, TimerOn, Early, Goto, timerVars, Loops
<1>0. pc \in Steps /\ scan \in {"HOST", "DEVICE"}
  BY DEF Inv, TypeOK
<1>1. CASE Switch
  BY <1>0, <1>1 DEF Switch
<1>2. CASE InitDevice
  BY <1>2 DEF InitDevice
<1>3. CASE WhileDevice
  BY <1>0, <1>3 DEF WhileDevice
<1>4. CASE DeviceTasks
  BY <1>4 DEF DeviceTasks
<1>5. CASE StopTimerDevice
  BY <1>5 DEF StopTimerDevice, disableTimer2
<1>6. CASE DeviceLoop
  BY <1>6 DEF DeviceLoop
<1>7. CASE InitHost
  BY <1>7 DEF InitHost
<1>8. CASE WhileHost
  BY <1>0, <1>8 DEF WhileHost
<1>9. CASE HostTasks
  BY <1>9 DEF HostTasks
<1>10. CASE IfAttached
  BY <1>10 DEF IfAttached
<1>11. CASE StopTimerHost
  BY <1>11 DEF StopTimerHost, disableTimer2
<1>12. CASE KeepHost
  BY <1>12 DEF KeepHost
<1>13. CASE HostLoop
  BY <1>13 DEF HostLoop
<1>14. CASE Reset
  BY <1>14 DEF Reset
<1> QED
  BY <1>1, <1>2, <1>3, <1>4, <1>5, <1>6, <1>7, <1>8, <1>9, <1>10, <1>11, <1>12, <1>13,
     <1>14 DEF Main

LEMMA RoundStep == Inv /\ RoundInv /\ [Next]_vars => RoundInv'
<1> SUFFICES ASSUME Inv, RoundInv, [Next]_vars PROVE RoundInv'
  OBVIOUS
<1>1. ASSUME NEW p \in {"nothing", "pc", "midi"}, Plug(p) PROVE RoundInv'
  BY <1>1 DEF Plug, mainVars, timerVars, RoundInv, Turning, Starting, TimerOn, Early
<1>2. CASE UNCHANGED vars
  BY <1>2
     DEF vars, mainVars, timerVars, RoundInv, Turning, Starting, TimerOn, Early
<1> QED
  BY <1>1, <1>2, RoundMain, RoundTick DEF Next

\* A stack that is started for a partner that is there has the round before it.
LEMMA StartOnTime ==
  ASSUME Inv, RoundInv, InitDevice \/ InitHost, Matches'
  PROVE  OnTime'
<1> USE DEF StartStack, Goto, timerVars, Loops
<1>1. t2 /\ t2' = t2 /\ divider' = divider /\ scan' = scan
  BY DEF RoundInv, TimerOn, InitDevice, InitHost
<1>2. progress' = 0 /\ EnumTicks \in Nat \ {0}
  BY EnumAssumption DEF InitDevice, InitHost
<1>3. Early
  BY DEF RoundInv, Starting, InitDevice, InitHost
<1>4. divider' <= progress' + 1 /\ progress' < EnumTicks
  BY <1>1, <1>2, <1>3 DEF Early
<1>5. <<stack, scan>>' \in {<<"device", "DEVICE">>, <<"host", "HOST">>}
  BY <1>1 DEF RoundInv, Starting, InitDevice, InitHost
<1>6. pc' \in {"whileDevice", "whileHost"}
  BY DEF InitDevice, InitHost
<1> QED
  BY <1>1, <1>4, <1>5, <1>6 DEF OnTime

\* The timer's count and the enumeration advance together.
LEMMA Sums ==
  ASSUME NEW d \in Int, NEW p \in Int, NEW q \in Int, d <= p + 1, p + 1 <= q
  PROVE  d + 1 <= q + 1
OBVIOUS

\* A tick in between: a poll came before it, so the enumeration was not complete, and
\* the round is not over as long as it may take.
LEMMA TickOnTime ==
  ASSUME EnumTicks <= Hold, Inv, OnTime, Tick
  PROVE  OnTime'
<1>1. passed /\ ~passed' /\ pc' = pc /\ t2' = t2 /\ stack' = stack /\ plug' = plug
  BY DEF Tick
<1>2. /\ progress \in 0 .. EnumTicks /\ divider \in 0 .. Hold + 1
      /\ EnumTicks \in Nat /\ progress < EnumTicks /\ Hold = 3
  BY <1>1, EnumAssumption DEF Inv, TypeOK, OnTime, Hold
<1>3. divider <= progress + 1
  BY <1>2 DEF OnTime
<1>4. divider' = divider + 1 /\ scan' = scan
  BY <1>2, <1>3 DEF OnTime, Tick, change_scan_state_flag
<1>5. progress' \in progress + 1 .. EnumTicks
  BY <1>2 DEF OnTime, Tick
<1>6. divider' <= progress' + 1
  <2>1. /\ divider \in Int /\ progress \in Int
        /\ progress' \in Int /\ progress + 1 <= progress'
    BY <1>2, <1>5
  <2>2. divider' \in Int /\ divider' = divider + 1
    BY <1>4, <2>1
  <2> QED
    BY <1>3, <2>1, <2>2, Sums
<1>7. Matches'
  BY <1>1 DEF OnTime, Matches
<1> QED
  BY <1>1, <1>4, <1>6, <1>7 DEF OnTime

\* A step of main polls on, or finds what it polls for.
LEMMA MainOnTime ==
  ASSUME Inv, OnTime, Main
  PROVE  OnTime' \/ Found'
<1>1. /\ pc \in {"whileDevice", "deviceTasks"} => stack = "device"
      /\ pc \in {"whileHost", "hostTasks", "ifAttached"} => stack = "host"
  BY DEF Inv, TasksOfStack
<1>2. progress \in 0 .. EnumTicks /\ EnumTicks \in Nat
  BY EnumAssumption DEF Inv, TypeOK
<1>3. Enumerated \/ progress < EnumTicks
  BY <1>2 DEF OnTime, Enumerated
<1> USE DEF OnTime, Found, Goto, timerVars, partnerVars, Matches, Loops
<1>4. CASE WhileDevice
  BY <1>1, <1>4 DEF WhileDevice
<1>5. CASE DeviceTasks
  BY <1>1, <1>3, <1>5 DEF DeviceTasks
<1>6. CASE WhileHost
  BY <1>1, <1>6 DEF WhileHost
<1>7. CASE HostTasks
  BY <1>1, <1>3, <1>7 DEF HostTasks
<1>8. CASE IfAttached
  BY <1>1, <1>8 DEF IfAttached
<1> QED
  BY <1>4, <1>5, <1>6, <1>7, <1>8
     DEF Main, Switch, InitDevice, StopTimerDevice, DeviceLoop, InitHost, StopTimerHost,
         KeepHost, HostLoop, Reset

\* Main keeps what it has found.
LEMMA FoundKept == ASSUME Inv, Found, Next PROVE Found' \/ Reset
<1>1. attached => pc \in {"ifAttached", "stopTimerHost", "keepHost", "host"}
  BY DEF Inv, AttachNotStale
<1>2. CASE Main
  BY <1>1, <1>2
     DEF Found, Goto, disableTimer2, Main, Switch, InitDevice, WhileDevice, DeviceTasks,
         StopTimerDevice, DeviceLoop, InitHost, WhileHost, HostTasks, IfAttached,
         StopTimerHost, KeepHost, HostLoop
<1>3. CASE Tick
  BY <1>3 DEF Found, Tick
<1>4. ASSUME NEW p \in {"nothing", "pc", "midi"}, Plug(p) PROVE Found'
  BY <1>4 DEF Found, Plug, mainVars
<1> QED
  BY <1>2, <1>3, <1>4 DEF Next

\* An enumeration of no more ticks than the interrupt counts before it changes the
\* role is not cut short: the bound is exact (one more and TLC finds a partner
\* that is passed by).
THEOREM NobodyPassedBy == ASSUME EnumTicks <= Hold PROVE Spec => NotPassedBy
<1>1. Inv /\ RoundInv /\ [Next]_vars =>
        [/\ (InitDevice \/ InitHost) /\ Matches' => OnTime'
         /\ OnTime /\ plug' = plug => OnTime' \/ Found'
         /\ Found => Found' \/ Reset]_vars
  <2> SUFFICES ASSUME Inv, RoundInv, Next
               PROVE  /\ (InitDevice \/ InitHost) /\ Matches' => OnTime'
                      /\ OnTime /\ plug' = plug => OnTime' \/ Found'
                      /\ Found => Found' \/ Reset
    OBVIOUS
  <2>1. ASSUME OnTime, plug' = plug PROVE OnTime' \/ Found'
    <3>1. ASSUME NEW p \in {"nothing", "pc", "midi"}, Plug(p) PROVE FALSE
      BY <2>1, <3>1 DEF Plug
    <3> QED
      BY <2>1, <3>1, TickOnTime, MainOnTime DEF Next
  <2> QED
    BY <2>1, StartOnTime, FoundKept
<1>2. Spec => [](Inv /\ RoundInv)
  <2>1. Init => Inv /\ RoundInv
    BY InvInit, RoundInit
  <2>2. (Inv /\ RoundInv) /\ [Next]_vars => (Inv /\ RoundInv)'
    BY InvStep, RoundStep
  <2> QED
    BY <2>1, <2>2, PTL DEF Spec
<1> QED
  BY <1>1, <1>2, PTL DEF Spec, NotPassedBy
=============================================================================
