------------------------ MODULE HostTransfer_proofs ------------------------
(***************************************************************************)
(* Proofs about HostTransfer, for every number of endpoints, every mix of  *)
(* transfer types and all sizes of buffer, queue and frame.                *)
(***************************************************************************)
EXTENDS HostTransfer, FiniteSetTheorems, SequenceTheorems, TLAPS

-----------------------------------------------------------------------------
(* Type correctness.                                                       *)

\* The event loop removes an event it has looked at.
EventPresent == pc = "remove" => queue # <<>>

TypeInv == TypeOK /\ EventPresent

LEMMA AfterType == \A s \in Slot : After(s) \in Slot
  BY SizeAssumption DEF Slot, After

LEMMA FollowType == \A p \in Packet : Follow(p) \in Packet
  BY SizeAssumption DEF Packet, Follow

\* A rank counts endpoints.
LEMMA RankType ==
  ASSUME NEW S \in SUBSET Endpoint, NEW e \in Endpoint
  PROVE  Rank(S, e) \in 0 .. N
<1> DEFINE T == {f \in S : f >= e}
<1>1. IsFiniteSet(Endpoint) /\ Cardinality(Endpoint) = N
  BY KindsAssumption, FS_Interval DEF Endpoint
<1>2. T \in SUBSET Endpoint
  OBVIOUS
<1>3. IsFiniteSet(T) /\ Cardinality(T) <= N
  BY <1>1, <1>2, FS_Subset
<1>4. Cardinality(T) \in Nat
  BY <1>3, FS_CardinalityType
<1> QED BY <1>3, <1>4, KindsAssumption DEF Rank

LEMMA Sizes ==
  /\ N \in Nat \ {0} /\ 1 \in Endpoint
  /\ 0 \in Slot /\ 0 \in Packet /\ 0 \in 0 .. N /\ 0 \in 0 .. Quota /\ 0 \in 0 .. 1
  /\ 0 \in 0 .. Retries /\ Retries \in 0 .. Retries /\ Interval \in 0 .. Interval
  /\ Interval \in Nat \ {0} /\ Retries \in Nat \ {0} /\ Depth \in Nat \ {0} /\ Quota \in Nat
  /\ Kinds \subseteq [Endpoint -> {"bulk", "interrupt", "control"}]
<1>1. Kinds \subseteq [Endpoint -> {"bulk", "interrupt"}]
  BY KindsAssumption DEF Endpoint
<1> QED BY <1>1, KindsAssumption, SizeAssumption DEF Endpoint, Slot, Packet

LEMMA NoEvents == <<>> \in Seq(Event) /\ Len(<<>>) <= Depth
  BY SizeAssumption

LEMMA TypeInvInit == Init => TypeInv
<1> SUFFICES ASSUME Init PROVE TypeInv
  OBVIOUS
<1> USE Sizes DEF Init, All
<1>1. EventTypes
  BY NoEvents DEF EventTypes
<1>2. HcdTypes
  BY DEF HcdTypes
<1>3. BusTypes
  BY DEF BusTypes
<1>4. AppTypes
  BY DEF AppTypes
<1>5. MainTypes /\ PacketTypes /\ EventPresent
  BY DEF MainTypes, PacketTypes, EventPresent
<1> QED BY <1>1, <1>2, <1>3, <1>4, <1>5 DEF TypeInv, TypeOK

\* Everything but the connection and main's place begins anew.
LEMMA RestartTypes ==
  ASSUME TypeInv, Restart, kind' \in Kinds \/ kind' = kind, attached' \in BOOLEAN,
         pc' \in {"events", "jack"}
  PROVE  TypeInv'
<1> USE Sizes DEF All, Restart, TypeInv, TypeOK
<1>1. EventTypes'
  BY NoEvents DEF EventTypes
<1>2. HcdTypes'
  BY DEF HcdTypes
<1>3. BusTypes'
  BY DEF BusTypes
<1>4. AppTypes'
  BY DEF AppTypes
<1>5. MainTypes' /\ PacketTypes' /\ EventPresent'
  BY DEF MainTypes, PacketTypes, EventPresent
<1> QED BY <1>1, <1>2, <1>3, <1>4, <1>5

LEMMA TasksTypes == TypeInv /\ USBHostTasks => TypeInv'
<1> SUFFICES ASSUME TypeInv, USBHostTasks PROVE TypeInv'
  OBVIOUS
<1> USE DEF TypeInv, TypeOK
<1>1. CASE NotifyClients
  <2>1. EventTypes' /\ HcdTypes' /\ PacketTypes'
    BY <1>1 DEF NotifyClients, EventTypes, HcdTypes, PacketTypes, hcdVars, deviceVars, jackVars
  <2>2. AppTypes'
    BY <1>1 DEF NotifyClients, AppTypes
  <2>3. MainTypes' /\ EventPresent'
    BY <1>1 DEF NotifyClients, MainTypes, EventPresent
  <2>4. BusTypes'
    BY <1>1 DEF NotifyClients, BusTypes, busVars
  <2> QED BY <2>1, <2>2, <2>3, <2>4
<1>2. CASE RemoveEvent
  <2>1. queue # <<>> /\ queue \in Seq(Event) /\ Len(queue) <= Depth
    BY <1>2 DEF RemoveEvent, EventTypes, EventPresent
  <2>2. Tail(queue) \in Seq(Event) /\ Len(Tail(queue)) <= Depth
    BY <2>1, Sizes
  <2>3. EventTypes' /\ MainTypes' /\ EventPresent'
    BY <1>2, <2>2 DEF RemoveEvent, EventTypes, MainTypes, EventPresent
  <2>4. HcdTypes' /\ BusTypes' /\ AppTypes' /\ PacketTypes'
    BY <1>2 DEF RemoveEvent, HcdTypes, BusTypes, AppTypes, PacketTypes, hcdVars, busVars,
       appVars, deviceVars, jackVars
  <2> QED BY <2>3, <2>4
<1>3. CASE Shutdown
  BY <1>3, RestartTypes DEF Shutdown
<1>4. CASE Attach
  BY <1>4, RestartTypes DEF Attach
<1>5. CASE Running
  <2>1. EventTypes' /\ MainTypes' /\ EventPresent'
    BY <1>5 DEF Running, EventTypes, MainTypes, EventPresent
  <2>2. HcdTypes' /\ BusTypes' /\ AppTypes' /\ PacketTypes'
    BY <1>5 DEF Running, HcdTypes, BusTypes, AppTypes, PacketTypes, hcdVars, busVars,
       appVars, deviceVars, jackVars
  <2> QED BY <2>1, <2>2
<1> QED BY <1>1, <1>2, <1>3, <1>4, <1>5 DEF USBHostTasks

\* The next endpoint is one of the instrument's.
LEMMA AdvanceTypes == MainTypes /\ Advance => MainTypes' /\ pc' # "remove"
  BY Sizes DEF MainTypes, Advance, Endpoint

LEMMA AppStepTypes == TypeInv /\ APP_HostMIDIBasicTasks => TypeInv'
<1> SUFFICES ASSUME TypeInv, APP_HostMIDIBasicTasks PROVE TypeInv'
  OBVIOUS
<1> USE DEF TypeInv, TypeOK
<1>1. CASE MIDI_Host_OutJackTasks
  <2>1. EventTypes' /\ HcdTypes' /\ BusTypes' /\ MainTypes' /\ EventPresent'
    BY <1>1 DEF MIDI_Host_OutJackTasks, EventTypes, HcdTypes, BusTypes, MainTypes, EventPresent,
       hcdVars, busVars
  <2>2. rd' \in [Endpoint -> Slot]
    BY <1>1, AfterType DEF MIDI_Host_OutJackTasks, AppTypes, NextRead
  <2>3. AppTypes'
    BY <1>1, <2>2 DEF MIDI_Host_OutJackTasks, AppTypes
  <2>4. \A e \in Endpoint : buf[e][rd[e]] \in Packet \cup {Empty}
    BY DEF AppTypes
  <2>5. heard' \in [Endpoint -> Packet]
    BY <1>1, <2>4, FollowType DEF MIDI_Host_OutJackTasks, PacketTypes
  <2>6. garbled' \in BOOLEAN /\ UNCHANGED deviceVars
    BY <1>1 DEF MIDI_Host_OutJackTasks, PacketTypes
  <2> QED BY <2>1, <2>3, <2>5, <2>6 DEF PacketTypes, deviceVars
<1>2. CASE ReadData
  <2>1. EventTypes' /\ BusTypes' /\ PacketTypes'
    BY <1>2 DEF ReadData, EventTypes, BusTypes, PacketTypes, busVars, deviceVars, jackVars
  <2>2. HcdTypes'
    <3>1. UNCHANGED <<kind, failed, interval, toggle>>
      BY <1>2 DEF ReadData
    <3>2. /\ xfer' \in [Endpoint -> {"idle", "data", "complete", "error"}]
          /\ complete' \in [Endpoint -> BOOLEAN] /\ nakd' \in [Endpoint -> BOOLEAN]
      BY <1>2 DEF ReadData, InitRead, HcdTypes
    <3>3. errors' \in [Endpoint -> 0 .. Retries]
      BY <1>2, Sizes DEF ReadData, InitRead, HcdTypes
    <3> HIDE DEF TypeInv, TypeOK
    <3>4. HcdTypes
      BY DEF TypeInv, TypeOK
    <3> QED BY <3>1, <3>2, <3>3, <3>4 DEF HcdTypes
  <2>3. buf' \in [Endpoint -> [Slot -> Packet \cup {Empty}]]
    BY <1>2 DEF ReadData, AppTypes
  <2>4. AppTypes'
    BY <1>2, <2>3 DEF ReadData, AppTypes
  <2>5. MainTypes' /\ EventPresent'
    BY <1>2, AdvanceTypes DEF ReadData, MainTypes, EventPresent
  <2> QED BY <2>1, <2>2, <2>4, <2>5
<1>3. CASE SetBusy
  <2>1. EventTypes' /\ HcdTypes' /\ BusTypes' /\ PacketTypes'
    BY <1>3 DEF SetBusy, EventTypes, HcdTypes, BusTypes, PacketTypes, hcdVars, busVars,
       deviceVars, jackVars
  <2>2. AppTypes'
    BY <1>3 DEF SetBusy, AppTypes
  <2>3. MainTypes' /\ EventPresent'
    BY <1>3, AdvanceTypes DEF SetBusy, EventPresent
  <2> QED BY <2>1, <2>2, <2>3
<1>4. CASE WaitData
  <2>1. EventTypes' /\ HcdTypes' /\ BusTypes' /\ PacketTypes'
    BY <1>4 DEF WaitData, EventTypes, HcdTypes, BusTypes, PacketTypes, hcdVars, busVars,
       deviceVars, jackVars
  <2>2. After(wr[at]) \in Slot
    BY AfterType DEF AppTypes, MainTypes
  <2>3. AppTypes'
    BY <1>4, <2>2 DEF WaitData, AppTypes
  <2>4. MainTypes' /\ EventPresent'
    BY <1>4, AdvanceTypes DEF WaitData, EventPresent
  <2> QED BY <2>1, <2>3, <2>4
<1> QED BY <1>1, <1>2, <1>3, <1>4 DEF APP_HostMIDIBasicTasks

-----------------------------------------------------------------------------
(* Type correctness: the interrupt handler.                                *)

\* An answer leaves loop, queue and application alone.
LEMMA AnsweredTypes ==
  ASSUME TypeInv, Answered, isr' \in {"off", "interrupt", "bulk"}
  PROVE  /\ EventTypes' /\ BusTypes' /\ MainTypes' /\ EventPresent'
         /\ UNCHANGED <<kind, complete, interval, busy, phase, wr, rd, heard, garbled>>
<1> USE DEF TypeInv, TypeOK, Answered
<1>1. spent' \in 0 .. Quota
  BY Sizes DEF BusTypes
<1>2. BusTypes'
  BY <1>1 DEF BusTypes
<1>3. EventTypes' /\ MainTypes' /\ EventPresent'
  BY DEF EventTypes, MainTypes, EventPresent
<1> QED BY <1>2, <1>3 DEF jackVars

LEMMA CountErrorTypes ==
  ASSUME TypeInv, NEW e \in Endpoint, NEW n \in 1 .. 2, CountError(e, n)
  PROVE  /\ errors' \in [Endpoint -> 0 .. Retries]
         /\ failed' \in [Endpoint -> BOOLEAN]
         /\ xfer' \in [Endpoint -> {"idle", "data", "complete", "error"}]
<1> USE DEF TypeInv, TypeOK, CountError, HcdTypes
<1>1. CASE errors[e] + n >= Retries
  <2>1. /\ errors' = [errors EXCEPT ![e] = Retries]
        /\ failed' = [failed EXCEPT ![e] = TRUE]
        /\ xfer' = [xfer EXCEPT ![e] = "error"]
    BY <1>1
  <2>2. errors' \in [Endpoint -> 0 .. Retries]
    BY <2>1, Sizes
  <2> QED BY <2>1, <2>2
<1>2. CASE ~(errors[e] + n >= Retries)
  <2>1. errors[e] + n \in 0 .. Retries
    BY <1>2, Sizes
  <2> QED BY <1>2, <2>1
<1> QED BY <1>1, <1>2

LEMMA TransactionTypes == TypeInv /\ Transaction => TypeInv'
<1> SUFFICES ASSUME TypeInv, Transaction PROVE TypeInv'
  OBVIOUS
<1> DEFINE e == current
<1>0. e \in Endpoint
  BY DEF TypeInv, TypeOK, BusTypes
<1> HIDE DEF e
<1> USE DEF TypeInv, TypeOK
<1>1. CASE Nak(e)
  <2>1. Answered /\ isr' \in {"off", "interrupt", "bulk"}
    BY <1>1 DEF Nak, Find
  <2>2. HcdTypes'
    BY <1>1, <2>1, AnsweredTypes DEF Nak, HcdTypes
  <2>3. AppTypes' /\ PacketTypes'
    BY <1>1, <2>1, AnsweredTypes DEF Nak, AppTypes, PacketTypes, deviceVars
  <2> QED BY <2>1, <2>2, <2>3, AnsweredTypes
<1>2. CASE Stall(e)
  <2>1. Answered /\ isr' \in {"off", "interrupt", "bulk"}
    BY <1>2 DEF Stall, Find
  <2>2. HcdTypes'
    BY <1>2, <2>1, AnsweredTypes DEF Stall, HcdTypes
  <2>3. AppTypes' /\ PacketTypes'
    BY <1>2, <2>1, AnsweredTypes DEF Stall, AppTypes, PacketTypes, deviceVars
  <2> QED BY <2>1, <2>2, <2>3, AnsweredTypes
<1>3. CASE BadPid(e)
  <2>1. Answered /\ isr' \in {"off", "interrupt", "bulk"}
    BY <1>3 DEF BadPid, Find
  <2>2. PICK n \in 1 .. 2 : CountError(e, n)
    BY <1>3 DEF BadPid
  <2>3. HcdTypes'
    BY <1>0, <1>3, <2>1, <2>2, AnsweredTypes, CountErrorTypes DEF BadPid, HcdTypes
  <2>4. AppTypes' /\ PacketTypes'
    BY <1>3, <2>1, AnsweredTypes DEF BadPid, AppTypes, PacketTypes, deviceVars
  <2> QED BY <2>1, <2>3, <2>4, AnsweredTypes
<1>4. CASE BusError(e)
  <2>1. Answered /\ isr' \in {"off", "interrupt", "bulk"}
    BY <1>4 DEF BusError, BusTypes
  <2>2. CountError(e, 1) /\ 1 \in 1 .. 2
    BY <1>4 DEF BusError
  <2>3. HcdTypes'
    BY <1>0, <1>4, <2>1, <2>2, AnsweredTypes, CountErrorTypes DEF BusError, HcdTypes
  <2>4. AppTypes' /\ PacketTypes'
    BY <1>4, <2>1, AnsweredTypes DEF BusError, AppTypes, PacketTypes, deviceVars
  <2> QED BY <2>1, <2>3, <2>4, AnsweredTypes
<1>5. ASSUME NEW acked \in BOOLEAN, Data(e, acked) PROVE TypeInv'
  <2>1. Answered /\ isr' \in {"off", "interrupt", "bulk"}
    BY <1>5 DEF Data, Find
  <2>2. ASSUME devToggle[e] = toggle[e] PROVE HcdTypes' /\ AppTypes'
    <3>1. Receive(e)
      BY <1>5, <2>2 DEF Data
    <3>2. 1 - toggle[e] \in 0 .. 1
      BY <1>0 DEF HcdTypes
    <3>3. HcdTypes'
      BY <1>5, <2>1, <3>1, <3>2, AnsweredTypes DEF Data, Receive, HcdTypes
    <3>4. next[e] \in Packet /\ wr[e] \in Slot
      BY <1>0 DEF AppTypes, PacketTypes
    <3>5. buf' \in [Endpoint -> [Slot -> Packet \cup {Empty}]]
      BY <3>1, <3>4 DEF Receive, AppTypes
    <3>6. busy' = busy /\ phase' = phase /\ wr' = wr /\ rd' = rd
      BY <2>1, AnsweredTypes
    <3>7. AppTypes'
      BY <3>5, <3>6 DEF AppTypes
    <3> QED BY <3>3, <3>7
  <2>3. ASSUME devToggle[e] # toggle[e] PROVE HcdTypes' /\ AppTypes'
    <3>1. CountError(e, 1) /\ UNCHANGED <<toggle, buf, nakd>> /\ 1 \in 1 .. 2
      BY <1>5, <2>3 DEF Data
    <3>2. HcdTypes'
      BY <1>0, <2>1, <3>1, AnsweredTypes, CountErrorTypes DEF HcdTypes
    <3>3. busy' = busy /\ phase' = phase /\ wr' = wr /\ rd' = rd
      BY <2>1, AnsweredTypes
    <3>4. AppTypes'
      BY <3>1, <3>3 DEF AppTypes
    <3> QED BY <3>2, <3>4
  <2>4. PacketTypes'
    <3>1. 1 - devToggle[e] \in 0 .. 1 /\ Follow(next[e]) \in Packet
      BY <1>0, FollowType DEF PacketTypes
    <3>2. next' \in [Endpoint -> Packet] /\ devToggle' \in [Endpoint -> 0 .. 1]
      BY <1>5, <3>1 DEF Data, DeviceSent, PacketTypes, deviceVars
    <3> QED BY <2>1, <3>2, AnsweredTypes DEF PacketTypes
  <2> QED BY <2>1, <2>2, <2>3, <2>4, AnsweredTypes
<1> QED BY <1>1, <1>2, <1>3, <1>4, <1>5 DEF Transaction, e

LEMMA FrameTypes == TypeInv /\ (StartOfFrame \/ Detach) => TypeInv'
<1> SUFFICES ASSUME TypeInv, StartOfFrame \/ Detach PROVE TypeInv'
  OBVIOUS
<1> USE DEF TypeInv, TypeOK
<1>1. CASE StartOfFrame
  <2>1. \A n \in 0 .. Interval : n # 0 => n - 1 \in 0 .. Interval
    BY Sizes
  <2>2. interval' \in [Endpoint -> 0 .. Interval]
    BY <1>1, <2>1 DEF StartOfFrame, HcdTypes
  <2>3. nakd' \in [Endpoint -> BOOLEAN]
    BY <1>1 DEF StartOfFrame, ForgetNaks, All
  <2>4. HcdTypes'
    BY <1>1, <2>2, <2>3 DEF StartOfFrame, HcdTypes
  <2>5. BusTypes'
    BY <1>1, Sizes DEF StartOfFrame, BusTypes
  <2>6. EventTypes' /\ AppTypes' /\ MainTypes' /\ PacketTypes' /\ EventPresent'
    BY <1>1 DEF StartOfFrame, EventTypes, AppTypes, MainTypes, PacketTypes, EventPresent, appVars,
       mainVars, deviceVars, jackVars
  <2> QED BY <2>4, <2>5, <2>6
<1>2. CASE Detach
  <2>1. EventTypes' /\ AppTypes' /\ MainTypes' /\ PacketTypes' /\ EventPresent'
    BY <1>2 DEF Detach, EventTypes, AppTypes, MainTypes, PacketTypes, EventPresent, appVars,
       mainVars, deviceVars, jackVars
  <2>2. HcdTypes' /\ BusTypes'
    BY <1>2 DEF Detach, HcdTypes, BusTypes, hcdVars, busVars
  <2> QED BY <2>1, <2>2
<1> QED BY <1>1, <1>2

LEMMA AppendTypes ==
  ASSUME NEW S, NEW q \in Seq(S), NEW x \in S
  PROVE  /\ Append(q, x) \in Seq(S)
         /\ Len(Append(q, x)) = Len(q) + 1
         /\ Append(q, x) # <<>> /\ Len(q) \in Nat
  BY AppendProperties

\* The end of a transfer: at most one event more, and none in a full queue.
LEMMA FinishTypes ==
  ASSUME TypeInv, NEW e \in Endpoint, Finish(e)
  PROVE  /\ queue' \in Seq(Event) /\ Len(queue') <= Depth
         /\ (queue # <<>> => queue' # <<>>)
         /\ kind' \in [Endpoint -> {"bulk", "interrupt", "control"}]
         /\ xfer' \in [Endpoint -> {"idle", "data", "complete", "error"}]
         /\ complete' \in [Endpoint -> BOOLEAN]
         /\ UNCHANGED token
<1> USE DEF TypeInv, TypeOK, Finish, FinishIn
<1>1. /\ xfer' \in [Endpoint -> {"idle", "data", "complete", "error"}]
      /\ complete' \in [Endpoint -> BOOLEAN] /\ UNCHANGED token
  BY DEF HcdTypes
<1>2. CASE Len(queue) < Depth
  <2> DEFINE event == [event |-> IF xfer[e] = "error" THEN "bus error" ELSE "transfer",
                       endpoint |-> e]
  <2>1. event \in Event
    BY DEF Event
  <2>2. queue' = Append(queue, event) /\ UNCHANGED kind
    BY <1>2
  <2> HIDE DEF event
  <2>3. queue \in Seq(Event)
    BY DEF EventTypes
  <2>4. queue' \in Seq(Event) /\ Len(queue') = Len(queue) + 1 /\ queue' # <<>>
        /\ Len(queue) \in Nat
    BY <2>1, <2>2, <2>3, AppendTypes
  <2>5. Len(queue') <= Depth
    <3> HIDE DEF Finish, FinishIn, TypeInv, TypeOK
    <3> QED BY <1>2, <2>4, Sizes
  <2> QED BY <1>1, <2>2, <2>4, <2>5 DEF HcdTypes
<1>3. CASE ~(Len(queue) < Depth)
  <2>1. UNCHANGED queue /\ kind' = [kind EXCEPT ![e] = "control"]
    BY <1>3
  <2>2. kind' \in [Endpoint -> {"bulk", "interrupt", "control"}]
    BY <2>1 DEF HcdTypes
  <2> QED BY <1>1, <2>1, <2>2 DEF EventTypes
<1> QED BY <1>2, <1>3

LEMMA NewIntervalType ==
  ASSUME TypeInv, NEW e PROVE NewInterval(e) \in [Endpoint -> 0 .. Interval]
  BY Sizes DEF TypeInv, TypeOK, HcdTypes, NewInterval

LEMMA FindTypes == TypeInv /\ FindNextToken => TypeInv'
<1> SUFFICES ASSUME TypeInv, FindNextToken PROVE TypeInv'
  OBVIOUS
<1> USE DEF TypeInv, TypeOK
<1>1. CASE FindInterrupt
  <2>1. PICK e \in InterruptDue :
          /\ current' = e
          /\ IF xfer[e] = "data"
             THEN SendToken(e) /\ interval' = NewInterval(e)
             ELSE Finish(e) /\ UNCHANGED isr /\ interval' = [NewInterval(e) EXCEPT ![e] = Interval]
    BY <1>1 DEF FindInterrupt
  <2>2. e \in Endpoint
    BY DEF InterruptDue
  <2>3. /\ UNCHANGED <<attached, unplugged, failed, errors, nakd, toggle, intDone, bulkDone, last, spent>>
        /\ UNCHANGED <<appVars, mainVars, deviceVars, jackVars>>
    BY <1>1 DEF FindInterrupt
  <2>4. interval' \in [Endpoint -> 0 .. Interval]
    BY <2>1, NewIntervalType, Sizes
  <2>5. /\ queue' \in Seq(Event) /\ Len(queue') <= Depth
        /\ (queue # <<>> => queue' # <<>>)
        /\ kind' \in [Endpoint -> {"bulk", "interrupt", "control"}]
        /\ xfer' \in [Endpoint -> {"idle", "data", "complete", "error"}]
        /\ complete' \in [Endpoint -> BOOLEAN]
        /\ token' \in BOOLEAN /\ isr' \in {"off", "interrupt", "bulk"}
    <3>1. CASE xfer[e] = "data"
      BY <2>1, <3>1 DEF SendToken, EventTypes, HcdTypes, BusTypes
    <3>2. CASE xfer[e] # "data"
      BY <2>1, <2>2, <3>2, FinishTypes DEF BusTypes
    <3> QED BY <3>1, <3>2
  <2>6. EventTypes' /\ AppTypes' /\ MainTypes' /\ PacketTypes' /\ EventPresent'
    BY <2>3, <2>5 DEF EventTypes, AppTypes, MainTypes, PacketTypes, EventPresent, appVars,
       mainVars, deviceVars, jackVars
  <2>7. HcdTypes' /\ BusTypes'
    BY <2>1, <2>2, <2>3, <2>4, <2>5 DEF HcdTypes, BusTypes
  <2> QED BY <2>6, <2>7
<1>2. CASE NoInterrupt
  <2>1. EventTypes' /\ AppTypes' /\ MainTypes' /\ PacketTypes' /\ EventPresent'
    BY <1>2 DEF NoInterrupt, EventTypes, AppTypes, MainTypes, PacketTypes, EventPresent, appVars,
       mainVars, deviceVars, jackVars
  <2>2. HcdTypes' /\ BusTypes'
    BY <1>2, NewIntervalType DEF NoInterrupt, HcdTypes, BusTypes
  <2> QED BY <2>1, <2>2
<1>3. CASE FindBulk
  <2>1. PICK e \in BulkDue :
          /\ current' = e
          /\ IF xfer[e] = "data"
             THEN SendToken(e) /\ last' = Rank(BulkDue, e)
             ELSE Finish(e) /\ last' = 0 /\ UNCHANGED isr
    BY <1>3 DEF FindBulk
  <2>2. e \in Endpoint /\ BulkDue \in SUBSET Endpoint
    BY DEF BulkDue
  <2>3. /\ UNCHANGED <<attached, unplugged, failed, errors, nakd, interval, toggle, intDone, bulkDone, spent>>
        /\ UNCHANGED <<appVars, mainVars, deviceVars, jackVars>>
    BY <1>3 DEF FindBulk
  <2>4. last' \in 0 .. N
    BY <2>1, <2>2, RankType, Sizes
  <2>5. /\ queue' \in Seq(Event) /\ Len(queue') <= Depth
        /\ (queue # <<>> => queue' # <<>>)
        /\ kind' \in [Endpoint -> {"bulk", "interrupt", "control"}]
        /\ xfer' \in [Endpoint -> {"idle", "data", "complete", "error"}]
        /\ complete' \in [Endpoint -> BOOLEAN]
        /\ token' \in BOOLEAN /\ isr' \in {"off", "interrupt", "bulk"}
    <3>1. CASE xfer[e] = "data"
      BY <2>1, <3>1 DEF SendToken, EventTypes, HcdTypes, BusTypes
    <3>2. CASE xfer[e] # "data"
      BY <2>1, <2>2, <3>2, FinishTypes DEF BusTypes
    <3> QED BY <3>1, <3>2
  <2>6. EventTypes' /\ AppTypes' /\ MainTypes' /\ PacketTypes' /\ EventPresent'
    BY <2>3, <2>5 DEF EventTypes, AppTypes, MainTypes, PacketTypes, EventPresent, appVars,
       mainVars, deviceVars, jackVars
  <2>7. HcdTypes' /\ BusTypes'
    BY <2>1, <2>2, <2>3, <2>4, <2>5 DEF HcdTypes, BusTypes
  <2> QED BY <2>6, <2>7
<1>4. CASE NoBulk
  <2>1. EventTypes' /\ AppTypes' /\ MainTypes' /\ PacketTypes' /\ EventPresent'
    BY <1>4 DEF NoBulk, EventTypes, AppTypes, MainTypes, PacketTypes, EventPresent, appVars,
       mainVars, deviceVars, jackVars
  <2>2. HcdTypes' /\ BusTypes'
    BY <1>4 DEF NoBulk, HcdTypes, BusTypes, hcdVars
  <2> QED BY <2>1, <2>2
<1> QED BY <1>1, <1>2, <1>3, <1>4 DEF FindNextToken

LEMMA TypeInvStep == TypeInv /\ [Next]_vars => TypeInv'
<1> SUFFICES ASSUME TypeInv, [Next]_vars PROVE TypeInv'
  OBVIOUS
<1>1. CASE MainLoop
  BY <1>1, TasksTypes, AppStepTypes DEF MainLoop
<1>2. CASE Transaction
  BY <1>2, TransactionTypes
<1>3. CASE StartOfFrame \/ Detach
  BY <1>3, FrameTypes
<1>4. CASE FindNextToken
  BY <1>4, FindTypes
<1>5. CASE UNCHANGED vars
  BY <1>5 DEF vars, hcdVars, busVars, appVars, mainVars, deviceVars, jackVars, TypeInv, TypeOK,
     EventTypes, HcdTypes, BusTypes, AppTypes, MainTypes, PacketTypes, EventPresent
<1> QED BY <1>1, <1>2, <1>3, <1>4, <1>5 DEF Next

\* TypeOK cannot be proved on its own: that removing an event leaves a queue needs
\* to know that there is one.
LEMMA TypeCorrect == Spec => []TypeInv
  BY TypeInvInit, TypeInvStep, PTL DEF Spec

\* Every reachable state is well typed, whatever the instrument and the bus do: the
\* event queue never outgrows USB_EVENT_QUEUE_DEPTH, main never leaves the table of
\* endpoints, and both pointers of an endpoint's buffer stay on its slots.
THEOREM TypesHold == Spec => []TypeOK
  BY TypeCorrect, PTL DEF TypeInv

-----------------------------------------------------------------------------
(* Events: none is lost, and nobody waits for nothing.                     *)

\* The application is about to read from e: nothing of an earlier transfer is left.
ReadIdle ==
  \A e \in Endpoint :
    phase[e] = "read" /\ ~(pc = "busy" /\ at = e) => complete[e] /\ ~Queued(e)

\* The client has seen the event of e; it is still the first of the queue at most.
SeenIdle ==
  \A e \in Endpoint :
    phase[e] = "wait" /\ ~busy[e] =>
      /\ complete[e]
      /\ \A i \in 1 .. Len(queue) : queue[i].endpoint = e => i = 1 /\ pc = "remove"

\* Between the start of a read and the busy flag.
Starting ==
  pc = "busy" => phase[at] = "read" /\ (~complete[at] \/ Queued(at) \/ failed[at])

\* The event to remove has been acted upon.
HeadSeen ==
  pc = "remove" => Head(queue).event = "bus error" \/ ~busy[Head(queue).endpoint]

\* A bus error means a failed endpoint.
ErrorsFailed ==
  /\ \A e \in Endpoint : xfer[e] = "error" => failed[e]
  /\ \A i \in 1 .. Len(queue) : queue[i].event = "bus error" => failed[queue[i].endpoint]

EventInv ==
  /\ OneEventEach /\ WaitExplained
  /\ ReadIdle /\ SeenIdle /\ Starting /\ HeadSeen /\ ErrorsFailed

\* Events are about the instrument's endpoints.
LEMMA OwnerType ==
  ASSUME TypeInv
  PROVE  /\ queue \in Seq(Event) /\ Len(queue) \in Nat /\ at \in Endpoint
         /\ \A i \in 1 .. Len(queue) : queue[i] \in Event /\ queue[i].endpoint \in Endpoint
<1>1. queue \in Seq(Event) /\ at \in Endpoint
  BY DEF TypeInv, TypeOK, MainTypes, EventTypes
<1>2. \A i \in 1 .. Len(queue) : queue[i] \in Event
  BY <1>1, ElementOfSeq
<1>3. \A v \in Event : v.endpoint \in Endpoint
  BY DEF Event
<1> QED BY <1>1, <1>2, <1>3

LEMMA EventInvInit == Init => EventInv
<1> SUFFICES ASSUME Init PROVE EventInv
  OBVIOUS
<1>1. queue = <<>> /\ 1 .. Len(queue) = {}
  BY DEF Init
<1>2. OneEventEach /\ WaitExplained
  BY <1>1 DEF Init, All, OneEventEach, WaitExplained
<1>3. ReadIdle /\ SeenIdle
  BY <1>1 DEF Init, All, ReadIdle, SeenIdle, Queued
<1>4. Starting /\ HeadSeen /\ ErrorsFailed
  BY <1>1 DEF Init, All, Starting, HeadSeen, ErrorsFailed
<1> QED BY <1>2, <1>3, <1>4 DEF EventInv

\* After a restart there is neither an event nor a transfer.
LEMMA RestartEvents ==
  ASSUME Restart, pc' \in {"events", "jack"} PROVE EventInv'
<1>1. queue' = <<>> /\ 1 .. Len(queue') = {}
  BY DEF Restart
<1>2. OneEventEach' /\ WaitExplained'
  BY <1>1 DEF Restart, All, OneEventEach, WaitExplained
<1>3. ReadIdle' /\ SeenIdle'
  BY <1>1 DEF Restart, All, ReadIdle, SeenIdle, Queued
<1>4. Starting' /\ HeadSeen' /\ ErrorsFailed'
  BY <1>1 DEF Restart, All, Starting, HeadSeen, ErrorsFailed
<1> QED BY <1>2, <1>3, <1>4 DEF EventInv

\* Most steps start no transfer, end none and touch neither queue nor busy flag;
\* they may find an endpoint failed.
LEMMA Quiet ==
  ASSUME TypeInv, EventInv,
         queue' = queue, complete' = complete, phase' = phase, busy' = busy,
         (pc' = pc /\ at' = at) \/ (pc \notin {"remove", "busy"} /\ pc' \notin {"remove", "busy"}),
         \A e \in Endpoint : failed[e] => failed'[e],
         \A e \in Endpoint : xfer'[e] = "error" => failed'[e]
  PROVE  EventInv'
<1> USE DEF EventInv
<1>1. at \in Endpoint /\ \A i \in 1 .. Len(queue) : queue[i].endpoint \in Endpoint
  BY OwnerType
<1>2. OneEventEach'
  BY DEF OneEventEach
<1>3. WaitExplained'
  BY DEF WaitExplained, Queued
<1>4. ReadIdle'
  BY DEF ReadIdle, Queued
<1>5. SeenIdle'
  BY DEF SeenIdle
<1>6. Starting'
  BY <1>1 DEF Starting, Queued
<1>7. HeadSeen'
  BY DEF HeadSeen
<1>8. ErrorsFailed'
  BY <1>1 DEF ErrorsFailed
<1> QED BY <1>2, <1>3, <1>4, <1>5, <1>6, <1>7, <1>8

\* There are n places in a sequence of length n.
LEMMA CountOfPlaces == \A n \in Nat : IsFiniteSet(1 .. n) /\ Cardinality(1 .. n) = n
<1> SUFFICES ASSUME NEW n \in Nat PROVE IsFiniteSet(1 .. n) /\ Cardinality(1 .. n) = n
  OBVIOUS
<1>1. 1 \in Int /\ n \in Int
  OBVIOUS
<1>2. /\ IsFiniteSet(1 .. n)
      /\ Cardinality(1 .. n) = IF 1 > n THEN 0 ELSE n - 1 + 1
  BY ONLY <1>1, FS_Interval
<1> QED BY <1>2

\* With one event per endpoint and none for e there is room for that of e.
LEMMA Room ==
  ASSUME TypeInv, OneEventEach, NEW e \in Endpoint, ~complete[e]
  PROVE  Len(queue) < Depth
<1> DEFINE Places == 1 .. Len(queue)
           Others == Endpoint \ {e}
           owner  == [i \in Places |-> queue[i].endpoint]
<1>1. Len(queue) \in Nat /\ N \in Nat /\ Depth \in Nat /\ N <= Depth
  BY Sizes, QueueAssumption DEF TypeInv, TypeOK, EventTypes
<1>2. IsFiniteSet(Places) /\ Cardinality(Places) = Len(queue)
  BY <1>1, CountOfPlaces
<1>3. IsFiniteSet(Others) /\ Cardinality(Others) = N - 1
  <2>1. IsFiniteSet(Endpoint) /\ Cardinality(Endpoint) = N
    BY Sizes, CountOfPlaces DEF Endpoint
  <2> QED BY <2>1, FS_RemoveElement
<1>4. \A i \in Places : queue[i].endpoint \in Others
  BY OwnerType DEF OneEventEach
<1>5. owner \in [Places -> Others]
  BY <1>4
<1>6. ~ \E i, j \in Places : i # j /\ owner[i] = owner[j]
  BY DEF OneEventEach
<1>7. ~(N - 1 < Len(queue))
  <2> HIDE DEF Places, Others, owner
  <2> QED BY <1>2, <1>3, <1>5, <1>6, FS_PigeonHole
<1> QED BY <1>1, <1>7

\* The interrupt ends the transfer of e and queues its event.
LEMMA FinishEvents ==
  ASSUME TypeInv, EventInv, NEW e \in Endpoint, ~complete[e], xfer[e] # "data", Finish(e),
         UNCHANGED <<phase, busy, pc, at, failed>>
  PROVE  EventInv'
<1> DEFINE event == [event    |-> IF xfer[e] = "error" THEN "bus error" ELSE "transfer",
                     endpoint |-> e]
<1>1. Len(queue) < Depth
  BY Room DEF EventInv
<1>2. /\ queue' = Append(queue, event)
      /\ complete' = [complete EXCEPT ![e] = TRUE]
      /\ xfer' = [xfer EXCEPT ![e] = "idle"]
  BY <1>1 DEF Finish, FinishIn
<1>3. event \in Event
  BY DEF Event
<1>4. event.endpoint = e /\ (event.event = "bus error" => xfer[e] = "error")
  OBVIOUS
<1> HIDE DEF event
<1>5. /\ \A i \in 1 .. Len(queue') :
            i \in 1 .. Len(queue) \/ (queue'[i] = event /\ i = Len(queue) + 1)
      /\ \A i \in 1 .. Len(queue) : i \in 1 .. Len(queue') /\ queue'[i] = queue[i]
      /\ Len(queue) + 1 \in 1 .. Len(queue') /\ queue'[Len(queue) + 1] = event
  <2>1. /\ Len(queue') = Len(queue) + 1 /\ Len(queue) \in Nat
        /\ queue'[Len(queue) + 1] = event
        /\ \A i \in 1 .. Len(queue) : queue'[i] = queue[i]
    BY <1>2, <1>3, OwnerType, AppendProperties
  <2> QED BY <2>1
<1>6. /\ complete \in [Endpoint -> BOOLEAN] /\ at \in Endpoint
      /\ xfer \in [Endpoint -> {"idle", "data", "complete", "error"}]
  BY DEF TypeInv, TypeOK, HcdTypes, MainTypes
<1>7. /\ complete'[e] /\ xfer'[e] = "idle"
      /\ \A f \in Endpoint \ {e} : complete'[f] = complete[f] /\ xfer'[f] = xfer[f]
  BY <1>2, <1>6
<1>8. \A i \in 1 .. Len(queue) : queue[i].endpoint \in Endpoint \ {e}
  BY OwnerType DEF EventInv, OneEventEach
<1>9. /\ Queued(e)'
       /\ \A f \in Endpoint \ {e} : Queued(f)' <=> Queued(f)
  BY <1>4, <1>5 DEF Queued
<1>10. OneEventEach'
  <2> SUFFICES ASSUME NEW i \in 1 .. Len(queue')
               PROVE  /\ complete'[queue'[i].endpoint]
                      /\ \A j \in 1 .. Len(queue') :
                           queue'[j].endpoint = queue'[i].endpoint => i = j
    BY DEF OneEventEach
  <2>1. \A j \in 1 .. Len(queue) :
          /\ complete[queue[j].endpoint]
          /\ \A k \in 1 .. Len(queue) : queue[k].endpoint = queue[j].endpoint => j = k
    BY DEF EventInv, OneEventEach
  <2>2. CASE i \in 1 .. Len(queue)
    <3>1. queue'[i] = queue[i] /\ queue[i].endpoint \in Endpoint \ {e}
      BY <1>5, <1>8, <2>2
    <3>2. complete'[queue'[i].endpoint]
      BY <1>7, <2>1, <2>2, <3>1
    <3>3. ASSUME NEW j \in 1 .. Len(queue'), queue'[j].endpoint = queue'[i].endpoint
          PROVE  i = j
      <4>1. j \in 1 .. Len(queue) /\ queue'[j] = queue[j]
        BY <1>4, <1>5, <3>1, <3>3
      <4> QED BY <2>1, <2>2, <3>1, <3>3, <4>1
    <3> QED BY <3>2, <3>3
  <2>3. CASE queue'[i] = event /\ i = Len(queue) + 1
    BY <1>4, <1>5, <1>7, <1>8, <2>3
  <2> QED BY <1>5, <2>2, <2>3
<1>11. WaitExplained'
  BY <1>7, <1>9 DEF EventInv, WaitExplained
<1>12. ReadIdle'
  BY <1>7, <1>9 DEF EventInv, ReadIdle
<1>13. SeenIdle'
  <2> SUFFICES ASSUME NEW f \in Endpoint, phase[f] = "wait", ~busy[f]
               PROVE  /\ complete'[f]
                      /\ \A i \in 1 .. Len(queue') :
                           queue'[i].endpoint = f => i = 1 /\ pc = "remove"
    BY DEF SeenIdle
  <2>1. /\ complete[f] /\ f # e
        /\ \A i \in 1 .. Len(queue) : queue[i].endpoint = f => i = 1 /\ pc = "remove"
    BY DEF EventInv, SeenIdle
  <2> QED BY <1>4, <1>5, <1>7, <2>1
<1>14. Starting'
  BY <1>6, <1>7, <1>9 DEF EventInv, Starting
<1>15. HeadSeen'
  <2> SUFFICES ASSUME pc = "remove" PROVE Head(queue') = Head(queue)
    BY DEF EventInv, HeadSeen
  <2>1. queue # <<>>
    BY DEF TypeInv, EventPresent
  <2> QED BY <1>2, <2>1, OwnerType, HeadTailAppend
<1>16. ErrorsFailed'
  <2>1. \A f \in Endpoint : xfer'[f] = "error" => failed'[f]
    BY <1>7 DEF EventInv, ErrorsFailed
  <2>2. ASSUME NEW i \in 1 .. Len(queue'), queue'[i].event = "bus error"
        PROVE  failed'[queue'[i].endpoint]
    <3>1. CASE i \in 1 .. Len(queue)
      BY <1>5, <2>2, <3>1 DEF EventInv, ErrorsFailed
    <3>2. CASE queue'[i] = event
      BY <1>4, <2>2, <3>2 DEF EventInv, ErrorsFailed
    <3> QED BY <1>5, <3>1, <3>2
  <2> QED BY <2>1, <2>2 DEF ErrorsFailed
<1> QED BY <1>10, <1>11, <1>12, <1>13, <1>14, <1>15, <1>16 DEF EventInv

LEMMA FindEvents == TypeInv /\ EventInv /\ FindNextToken => EventInv'
<1> SUFFICES ASSUME TypeInv, EventInv, FindNextToken PROVE EventInv'
  OBVIOUS
<1>1. \A e \in Endpoint : xfer[e] = "error" => failed[e]
  BY DEF EventInv, ErrorsFailed
<1>2. CASE NoInterrupt
  BY <1>1, <1>2, Quiet DEF NoInterrupt, appVars, mainVars
<1>3. CASE NoBulk
  BY <1>1, <1>3, Quiet DEF NoBulk, appVars, mainVars, hcdVars
<1>4. CASE FindInterrupt
  <2>1. PICK e \in InterruptDue : IF xfer[e] = "data" THEN SendToken(e) ELSE Finish(e)
    BY <1>4 DEF FindInterrupt
  <2>2. UNCHANGED <<phase, busy, pc, at, failed>>
    BY <1>4 DEF FindInterrupt, appVars, mainVars
  <2>3. CASE xfer[e] = "data"
    BY <1>1, <2>1, <2>2, <2>3, Quiet DEF SendToken
  <2>4. CASE xfer[e] # "data"
    BY <2>1, <2>2, <2>4, FinishEvents DEF InterruptDue
  <2> QED BY <2>3, <2>4
<1>5. CASE FindBulk
  <2>1. PICK e \in BulkDue : IF xfer[e] = "data" THEN SendToken(e) ELSE Finish(e)
    BY <1>5 DEF FindBulk
  <2>2. UNCHANGED <<phase, busy, pc, at, failed>>
    BY <1>5 DEF FindBulk, appVars, mainVars
  <2>3. CASE xfer[e] = "data"
    BY <1>1, <2>1, <2>2, <2>3, Quiet DEF SendToken
  <2>4. CASE xfer[e] # "data"
    BY <2>1, <2>2, <2>4, FinishEvents DEF BulkDue
  <2> QED BY <2>3, <2>4
<1> QED BY <1>2, <1>3, <1>4, <1>5 DEF FindNextToken

\* What an answer may do to the transfers: an endpoint in error is a failed one.
LEMMA TransactionEvents == TypeInv /\ EventInv /\ Transaction => EventInv'
<1> SUFFICES ASSUME TypeInv, EventInv, Transaction PROVE EventInv'
  OBVIOUS
<1>1. \A e \in Endpoint : xfer[e] = "error" => failed[e]
  BY DEF EventInv, ErrorsFailed
<1>2. UNCHANGED <<queue, complete, phase, busy, pc, at>>
  BY DEF Transaction, Nak, Stall, BadPid, BusError, Data, Answered
<1>3. /\ failed \in [Endpoint -> BOOLEAN] /\ current \in Endpoint
      /\ xfer \in [Endpoint -> {"idle", "data", "complete", "error"}]
  BY DEF TypeInv, TypeOK, HcdTypes, BusTypes
<1> DEFINE Only == /\ \A e \in Endpoint : failed[e] => failed'[e]
                   /\ \A e \in Endpoint : xfer'[e] = "error" => failed'[e]
<1>4. ASSUME NEW n, CountError(current, n) PROVE Only
  BY <1>1, <1>3, <1>4 DEF CountError
<1>5. CASE Nak(current)
  <2>1. Only
    BY <1>1, <1>3, <1>5 DEF Nak
  <2> QED BY <1>2, <2>1, Quiet
<1>6. CASE Stall(current)
  <2>1. Only
    BY <1>1, <1>3, <1>6 DEF Stall
  <2> QED BY <1>2, <2>1, Quiet
<1>7. CASE BadPid(current) \/ BusError(current)
  <2>1. Only
    BY <1>4, <1>7 DEF BadPid, BusError
  <2> QED BY <1>2, <2>1, Quiet
<1>8. ASSUME NEW acked \in BOOLEAN, Data(current, acked) PROVE EventInv'
  <2>1. ASSUME Receive(current) PROVE Only
    BY <1>1, <1>3, <2>1 DEF Receive
  <2>2. Only
    BY <1>4, <1>8, <2>1 DEF Data
  <2> QED BY <1>2, <2>2, Quiet
<1> QED BY <1>5, <1>6, <1>7, <1>8 DEF Transaction

\* The client sees the event of an endpoint that waits, or that has failed.
LEMMA NotifyEvents == TypeInv /\ EventInv /\ NotifyClients => EventInv'
<1> SUFFICES ASSUME TypeInv, EventInv, NotifyClients PROVE EventInv'
  OBVIOUS
<1> DEFINE e == queue[1].endpoint
<1>1. /\ pc = "events" /\ pc' = "remove" /\ 1 \in 1 .. Len(queue)
      /\ UNCHANGED <<queue, complete, failed, xfer, phase, at>>
      /\ Head(queue) = queue[1] /\ Head(queue') = queue'[1]
      /\ busy' = [busy EXCEPT ![e] = @ /\ queue[1].event # "transfer"]
  <2>1. /\ pc = "events" /\ pc' = "remove" /\ queue # <<>>
        /\ UNCHANGED <<queue, complete, failed, xfer, phase, at>>
        /\ busy' = [busy EXCEPT ![Head(queue).endpoint] = @ /\ Head(queue).event # "transfer"]
    BY DEF NotifyClients, hcdVars
  <2>2. queue \in Seq(Event) /\ Len(queue) \in Nat
    BY OwnerType
  <2>3. 1 \in 1 .. Len(queue) /\ Head(queue) = queue[1]
    BY <2>1, <2>2
  <2>4. busy' = [busy EXCEPT ![e] = @ /\ queue[1].event # "transfer"]
    BY <2>1, <2>3
  <2>5. Head(queue') = queue'[1]
    BY <2>1, <2>3
  <2> HIDE DEF e
  <2> QED BY <2>1, <2>3, <2>4, <2>5
<1>2. e \in Endpoint /\ complete[e] /\ queue[1].event \in {"transfer", "bus error"}
  BY <1>1, OwnerType DEF EventInv, OneEventEach, Event
<1>3. \A f \in Endpoint : busy'[f] = (busy[f] /\ (f = e => queue[1].event # "transfer"))
  BY <1>1, <1>2 DEF TypeInv, TypeOK, AppTypes
<1>4. \A i \in 1 .. Len(queue) : queue[i].endpoint = e => i = 1
  BY <1>1 DEF EventInv, OneEventEach
<1> HIDE DEF e
<1>5. OneEventEach' /\ ErrorsFailed' /\ Starting'
  BY <1>1 DEF EventInv, OneEventEach, ErrorsFailed, Starting
<1>6. WaitExplained'
  BY <1>1, <1>3 DEF EventInv, WaitExplained, Queued
<1>7. ReadIdle'
  BY <1>1 DEF EventInv, ReadIdle, Queued
<1>8. SeenIdle'
  <2> SUFFICES ASSUME NEW f \in Endpoint, phase'[f] = "wait", ~busy'[f]
               PROVE  /\ complete'[f]
                      /\ \A i \in 1 .. Len(queue') :
                           queue'[i].endpoint = f => i = 1 /\ pc' = "remove"
    BY DEF SeenIdle
  <2>1. CASE f = e
    BY <1>1, <1>2, <1>4, <2>1
  <2>2. CASE f # e
    <3>1. phase[f] = "wait" /\ ~busy[f]
      BY <1>1, <1>3, <2>2
    <3> QED BY <1>1, <3>1 DEF EventInv, SeenIdle
  <2> QED BY <2>1, <2>2
<1>9. HeadSeen'
  BY <1>1, <1>2, <1>3 DEF HeadSeen, e
<1> QED BY <1>5, <1>6, <1>7, <1>8, <1>9 DEF EventInv

\* It takes away an event that was seen: its endpoint no longer waits, or has failed.
LEMMA RemoveEvents == TypeInv /\ EventInv /\ RemoveEvent => EventInv'
<1> SUFFICES ASSUME TypeInv, EventInv, RemoveEvent PROVE EventInv'
  OBVIOUS
<1>1. /\ pc = "remove" /\ pc' = "events" /\ queue # <<>> /\ queue' = Tail(queue)
      /\ UNCHANGED <<complete, failed, xfer, phase, busy, at>>
  BY DEF RemoveEvent, hcdVars, appVars, TypeInv, EventPresent
<1>2. /\ Head(queue) = queue[1] /\ 1 \in 1 .. Len(queue)
      /\ \A i \in 1 .. Len(queue') : i + 1 \in 1 .. Len(queue) /\ i + 1 # 1 /\ queue'[i] = queue[i + 1]
      /\ \A i \in 1 .. Len(queue) : i = 1 \/ (i - 1 \in 1 .. Len(queue') /\ queue'[i - 1] = queue[i])
  <2>1. /\ queue \in Seq(Event) /\ Len(queue) \in Nat /\ Len(queue') = Len(queue) - 1
        /\ \A i \in 1 .. Len(queue') : queue'[i] = queue[i + 1]
    BY <1>1, OwnerType, HeadTailProperties
  <2>2. Len(queue) # 0
    BY <1>1, <2>1
  <2> QED BY <2>1, <2>2
<1>3. \A f \in Endpoint : Queued(f)' => Queued(f)
  BY <1>2 DEF Queued
<1>4. \A f \in Endpoint : Queued(f) /\ f # queue[1].endpoint => Queued(f)'
  BY <1>2 DEF Queued
<1>5. queue[1].event = "bus error" \/ ~busy[queue[1].endpoint]
  BY <1>1, <1>2 DEF EventInv, HeadSeen
<1>6. queue[1].event = "bus error" => failed[queue[1].endpoint]
  BY <1>2 DEF EventInv, ErrorsFailed
<1>7. OneEventEach'
  <2>1. ASSUME NEW i \in 1 .. Len(queue'), NEW j \in 1 .. Len(queue'),
               queue'[j].endpoint = queue'[i].endpoint
        PROVE  i = j
    <3>1. i + 1 = j + 1
      BY SMTT(30), <1>2, <2>1 DEF EventInv, OneEventEach
    <3> QED BY <3>1
  <2> QED BY <1>1, <1>2, <2>1 DEF EventInv, OneEventEach
<1>8. WaitExplained'
  BY <1>1, <1>4, <1>5, <1>6 DEF EventInv, WaitExplained
<1>9. ReadIdle' /\ Starting' /\ HeadSeen'
  BY <1>1, <1>3 DEF EventInv, ReadIdle, Starting, HeadSeen
<1>10. SeenIdle'
  BY <1>1, <1>2 DEF EventInv, SeenIdle
<1>11. ErrorsFailed'
  <2>1. ASSUME NEW i \in 1 .. Len(queue'), queue'[i].event = "bus error"
        PROVE  failed[queue'[i].endpoint]
    <3>1. queue'[i] = queue[i + 1] /\ i + 1 \in 1 .. Len(queue)
      BY <1>2
    <3> QED BY <2>1, <3>1 DEF EventInv, ErrorsFailed
  <2> QED BY <1>1, <2>1 DEF EventInv, ErrorsFailed
<1> QED BY <1>7, <1>8, <1>9, <1>10, <1>11 DEF EventInv

LEMMA TasksEvents == TypeInv /\ EventInv /\ USBHostTasks => EventInv'
<1> SUFFICES ASSUME TypeInv, EventInv, USBHostTasks PROVE EventInv'
  OBVIOUS
<1>1. CASE Shutdown
  BY <1>1, RestartEvents DEF Shutdown
<1>2. CASE Attach
  BY <1>2, RestartEvents DEF Attach
<1>3. CASE Running
  BY <1>3, Quiet DEF Running, hcdVars, appVars, EventInv, ErrorsFailed
<1> QED BY <1>1, <1>2, <1>3, NotifyEvents, RemoveEvents DEF USBHostTasks

\* The application starts a read only where nothing of the last one is left, and
\* goes on to the next only when the client has seen the end of this one.
LEMMA AppStepEvents == TypeInv /\ EventInv /\ APP_HostMIDIBasicTasks => EventInv'
<1> SUFFICES ASSUME TypeInv, EventInv, APP_HostMIDIBasicTasks PROVE EventInv'
  OBVIOUS
<1>0. /\ at \in Endpoint /\ busy \in [Endpoint -> BOOLEAN] /\ complete \in [Endpoint -> BOOLEAN]
      /\ phase \in [Endpoint -> {"read", "wait"}]
      /\ xfer \in [Endpoint -> {"idle", "data", "complete", "error"}]
  BY DEF TypeInv, TypeOK, MainTypes, AppTypes, HcdTypes
<1>5. \A e \in Endpoint : xfer[e] = "error" => failed[e]
  BY DEF EventInv, ErrorsFailed
<1>1. CASE MIDI_Host_OutJackTasks
  BY <1>1, <1>5, Quiet DEF MIDI_Host_OutJackTasks, hcdVars
<1>2. CASE ReadData
  <2>1. CASE Readable(at)
    <3>1. /\ pc = "app" /\ pc' = "busy" /\ phase[at] = "read"
          /\ UNCHANGED <<queue, failed, phase, busy, at>>
          /\ complete' = [complete EXCEPT ![at] = FALSE] /\ xfer' = [xfer EXCEPT ![at] = "data"]
      BY <1>2, <2>1 DEF ReadData, InitRead
    <3>2. /\ ~complete'[at] /\ xfer'[at] = "data"
          /\ \A f \in Endpoint \ {at} : complete'[f] = complete[f] /\ xfer'[f] = xfer[f]
      BY <1>0, <3>1
    <3>3. \A i \in 1 .. Len(queue) : queue[i].endpoint \in Endpoint \ {at}
      BY <1>0, <3>1, OwnerType DEF EventInv, ReadIdle, Queued
    <3>4. OneEventEach'
      BY <3>1, <3>2, <3>3 DEF EventInv, OneEventEach
    <3>5. WaitExplained'
      BY <1>0, <3>1, <3>2 DEF EventInv, WaitExplained, Queued
    <3>6. ReadIdle' /\ SeenIdle'
      BY <1>0, <3>1, <3>2 DEF EventInv, ReadIdle, SeenIdle, Queued
    <3>7. Starting' /\ HeadSeen'
      BY <3>1, <3>2 DEF Starting, HeadSeen
    <3>8. ErrorsFailed'
      BY <3>1, <3>2, <3>3 DEF EventInv, ErrorsFailed
    <3> QED BY <3>4, <3>5, <3>6, <3>7, <3>8 DEF EventInv
  <2>2. CASE ~Readable(at)
    <3>1. /\ UNCHANGED <<queue, complete, failed, xfer, phase, busy>>
          /\ pc = "app" /\ pc' \in {"events", "app"} /\ phase[at] = "read"
      BY <1>2, <2>2 DEF ReadData, Advance
    <3> QED BY <1>5, <3>1, Quiet
  <2> QED BY <2>1, <2>2
<1>3. CASE SetBusy
  <2>1. /\ pc = "busy" /\ pc' \in {"events", "app"}
        /\ UNCHANGED <<queue, complete, failed, xfer>>
        /\ busy' = [busy EXCEPT ![at] = TRUE] /\ phase' = [phase EXCEPT ![at] = "wait"]
    BY <1>3 DEF SetBusy, Advance, hcdVars
  <2>2. /\ busy'[at] /\ phase'[at] = "wait"
        /\ \A f \in Endpoint \ {at} : busy'[f] = busy[f] /\ phase'[f] = phase[f]
    BY <1>0, <2>1
  <2>3. ~complete[at] \/ Queued(at) \/ failed[at]
    BY <2>1 DEF EventInv, Starting
  <2>4. OneEventEach' /\ ErrorsFailed'
    BY <2>1 DEF EventInv, OneEventEach, ErrorsFailed
  <2>5. WaitExplained'
    BY <2>1, <2>2, <2>3 DEF EventInv, WaitExplained, Queued
  <2>6. ReadIdle' /\ SeenIdle'
    BY <1>0, <2>1, <2>2 DEF EventInv, ReadIdle, SeenIdle, Queued
  <2>7. Starting' /\ HeadSeen'
    BY <2>1 DEF Starting, HeadSeen
  <2> QED BY <2>4, <2>5, <2>6, <2>7 DEF EventInv
<1>4. CASE WaitData
  <2>1. CASE busy[at]
    <3>1. /\ UNCHANGED <<queue, complete, failed, xfer, phase, busy>>
          /\ pc = "app" /\ pc' \in {"events", "app"}
      BY <1>4, <2>1 DEF WaitData, Advance, hcdVars
    <3> QED BY <1>5, <3>1, Quiet
  <2>2. CASE ~busy[at]
    <3>1. /\ UNCHANGED <<queue, complete, failed, xfer, busy>>
          /\ pc = "app" /\ pc' \in {"events", "app"} /\ phase[at] = "wait"
          /\ phase' = [phase EXCEPT ![at] = "read"]
      BY <1>4, <2>2 DEF WaitData, Advance, hcdVars
    <3>2. /\ phase'[at] = "read" /\ \A f \in Endpoint \ {at} : phase'[f] = phase[f]
      BY <1>0, <3>1
    <3>3. complete[at] /\ ~Queued(at)
      BY <1>0, <2>2, <3>1 DEF EventInv, SeenIdle, Queued
    <3>4. OneEventEach' /\ ErrorsFailed'
      BY <3>1 DEF EventInv, OneEventEach, ErrorsFailed
    <3>5. WaitExplained' /\ SeenIdle'
      BY <3>1, <3>2 DEF EventInv, WaitExplained, SeenIdle, Queued
    <3>6. ReadIdle'
      BY <3>1, <3>2, <3>3 DEF EventInv, ReadIdle, Queued
    <3>7. Starting' /\ HeadSeen'
      BY <3>1 DEF Starting, HeadSeen
    <3> QED BY <3>4, <3>5, <3>6, <3>7 DEF EventInv
  <2> QED BY <2>1, <2>2
<1> QED BY <1>1, <1>2, <1>3, <1>4 DEF APP_HostMIDIBasicTasks

LEMMA EventInvStep == TypeInv /\ EventInv /\ [Next]_vars => EventInv'
<1> SUFFICES ASSUME TypeInv, EventInv, [Next]_vars PROVE EventInv'
  OBVIOUS
<1>1. \A e \in Endpoint : xfer[e] = "error" => failed[e]
  BY DEF EventInv, ErrorsFailed
<1>2. CASE MainLoop
  BY <1>2, TasksEvents, AppStepEvents DEF MainLoop
<1>3. CASE StartOfFrame \/ Detach
  BY <1>1, <1>3, Quiet DEF StartOfFrame, Detach, appVars, mainVars, hcdVars
<1>4. CASE UNCHANGED vars
  BY <1>1, <1>4, Quiet DEF vars, appVars, mainVars, hcdVars
<1> QED BY <1>2, <1>3, <1>4, TransactionEvents, FindEvents DEF Next

LEMMA EventsCorrect == Spec => []EventInv
<1>1. Init => TypeInv /\ EventInv
  BY TypeInvInit, EventInvInit
<1>2. TypeInv /\ EventInv /\ [Next]_vars => (TypeInv /\ EventInv)'
  BY TypeInvStep, EventInvStep
<1> QED BY <1>1, <1>2, PTL DEF Spec

\* However interrupt and loop interleave and whatever the bus does, an endpoint has
\* at most one event in the queue and no transfer under way while it has.
THEOREM NoEventTwice == Spec => []OneEventEach
  BY EventsCorrect, PTL DEF EventInv

\* Nothing is lost between interrupt and loop: an endpoint the application waits for
\* has a transfer under way, or its event in the queue, or has failed.
THEOREM NoWaitForNothing == Spec => []WaitExplained
  BY EventsCorrect, PTL DEF EventInv

-----------------------------------------------------------------------------
(* Packets: none is lost, doubled or out of order.                         *)

\* The packet expected after p when h was: a slot may be empty.
Passed(h, p) == IF p = Empty THEN h ELSE Follow(h)

\* From the jack (which expects h) over slots p and q to the instrument nothing is
\* missing, doubled or out of order.
Chain(h, p, q, x) ==
  /\ p \in {Empty, h}
  /\ q \in {Empty, Passed(h, p)}
  /\ x = Passed(Passed(h, p), q)

InChain(e) == Chain(heard[e], First(e), Second(e), Expected(e))

\* Within a pass the endpoints not yet served have nothing to be copied.
PassInv ==
  IF pc \in {"app", "busy"} THEN \A e \in Endpoint : e >= at => wr[e] = rd[e] ELSE at = 1

\* A token is out for a transfer whose slot is still empty.
TokenInv ==
  /\ token => xfer[current] = "data"
  /\ isr # "off" => ~token
  /\ \A e \in Endpoint :
       xfer[e] = "data" => Live(e) /\ buf[e][wr[e]] = Empty /\ ~complete[e]

OrderInv == InOrder /\ SlotFree /\ PassInv /\ TokenInv /\ \A e \in Endpoint : InChain(e)

\* What the types say of the state of endpoint e.
LEMMA SlotTypes ==
  ASSUME TypeInv
  PROVE  /\ buf \in [Endpoint -> [Slot -> Packet \cup {Empty}]]
         /\ wr \in [Endpoint -> Slot] /\ rd \in [Endpoint -> Slot]
         /\ phase \in [Endpoint -> {"read", "wait"}]
         /\ next \in [Endpoint -> Packet] /\ heard \in [Endpoint -> Packet]
         /\ toggle \in [Endpoint -> 0 .. 1] /\ devToggle \in [Endpoint -> 0 .. 1]
         /\ xfer \in [Endpoint -> {"idle", "data", "complete", "error"}]
         /\ complete \in [Endpoint -> BOOLEAN]
         /\ at \in Endpoint /\ current \in Endpoint
  BY DEF TypeInv, TypeOK, HcdTypes, BusTypes, AppTypes, MainTypes, PacketTypes

LEMMA EmptyNoPacket == Empty \notin Packet
  BY SizeAssumption DEF Empty, Packet

LEMMA AfterOther == \A s \in Slot : After(s) # s
  BY SizeAssumption DEF Slot, After

LEMMA OrderInvInit == Init => OrderInv
<1> SUFFICES ASSUME Init PROVE OrderInv
  OBVIOUS
<1>1. InOrder /\ SlotFree /\ PassInv
  BY DEF Init, All, InOrder, SlotFree, PassInv
<1>2. TokenInv
  BY DEF Init, All, TokenInv
<1>3. \A e \in Endpoint : InChain(e)
  BY DEF Init, All, InChain, Chain, First, Second, Live, Expected, Passed
<1> QED BY <1>1, <1>2, <1>3 DEF OrderInv

\* After a restart nothing is under way; what the jack has been given remains.
LEMMA RestartOrder ==
  ASSUME OrderInv, Restart, pc' \in {"events", "jack"}
  PROVE  OrderInv'
<1>1. InOrder' /\ SlotFree' /\ PassInv'
  BY DEF Restart, All, OrderInv, InOrder, SlotFree, PassInv
<1>2. TokenInv'
  BY DEF Restart, All, TokenInv
<1>3. \A e \in Endpoint : InChain(e)'
  BY DEF Restart, All, InChain, Chain, First, Second, Live, Expected, Passed
<1> QED BY <1>1, <1>2, <1>3 DEF OrderInv

\* Steps that move no packet, start no transfer and keep main in its place or
\* between the passes.
LEMMA QuietOrder ==
  ASSUME TypeInv, OrderInv,
         UNCHANGED <<buf, wr, rd, phase, toggle, next, devToggle, heard, garbled, at>>,
         pc' = pc \/ (pc \in {"events", "remove", "jack"} /\ pc' \in {"events", "remove", "jack"}),
         token' => xfer'[current'] = "data",
         isr' # "off" => ~token',
         \A e \in Endpoint : xfer'[e] = "data" => xfer[e] = "data" /\ complete'[e] = complete[e]
  PROVE  OrderInv'
<1>0. \A e \in Endpoint : Live(e)' <=> Live(e)
  BY DEF Live
<1>1. InOrder' /\ SlotFree' /\ PassInv'
  BY DEF OrderInv, InOrder, SlotFree, PassInv
<1>2. TokenInv'
  BY <1>0 DEF OrderInv, TokenInv
<1>3. \A e \in Endpoint : InChain(e)'
  BY <1>0 DEF OrderInv, InChain, First, Second, Expected
<1> QED BY <1>1, <1>2, <1>3 DEF OrderInv

LEMMA TasksOrder == TypeInv /\ OrderInv /\ USBHostTasks /\ isr = "off" => OrderInv'
<1> SUFFICES ASSUME TypeInv, OrderInv, USBHostTasks, isr = "off" PROVE OrderInv'
  OBVIOUS
<1>1. CASE NotifyClients
  BY <1>1, QuietOrder
     DEF NotifyClients, hcdVars, busVars, deviceVars, jackVars, OrderInv, TokenInv
<1>2. CASE RemoveEvent
  BY <1>2, QuietOrder
     DEF RemoveEvent, hcdVars, busVars, appVars, deviceVars, jackVars, OrderInv, TokenInv
<1>3. CASE Running
  BY <1>3, QuietOrder
     DEF Running, hcdVars, busVars, appVars, deviceVars, jackVars, OrderInv, TokenInv
<1>4. CASE Shutdown
  BY <1>4, RestartOrder DEF Shutdown
<1>5. CASE Attach
  BY <1>5, RestartOrder DEF Attach
<1> QED BY <1>1, <1>2, <1>3, <1>4, <1>5 DEF USBHostTasks

\* The out jack takes the waiting packet of every endpoint: it is the one expected.
LEMMA JackOrder == TypeInv /\ OrderInv /\ MIDI_Host_OutJackTasks => OrderInv'
<1> SUFFICES ASSUME TypeInv, OrderInv, MIDI_Host_OutJackTasks PROVE OrderInv'
  OBVIOUS
<1> USE SlotTypes
<1>1. /\ pc = "jack" /\ pc' = "app" /\ at = 1
      /\ UNCHANGED <<hcdVars, busVars, phase, buf, wr, at, deviceVars>>
  BY DEF MIDI_Host_OutJackTasks, OrderInv, PassInv
<1>2. rd' = wr
  <2>1. rd' = [e \in Endpoint |-> IF rd[e] # wr[e] THEN After(rd[e]) ELSE rd[e]]
    BY DEF MIDI_Host_OutJackTasks, NextRead
  <2>2. \A e \in Endpoint : rd'[e] = wr[e]
    BY <2>1 DEF OrderInv, SlotFree
  <2> QED BY <2>1, <2>2
<1>3. \A e \in Endpoint : heard'[e] = Passed(heard[e], First(e))
  <2>1. heard' = [e \in Endpoint |->
                    IF rd[e] # wr[e] /\ buf[e][rd[e]] # Empty THEN Follow(buf[e][rd[e]]) ELSE heard[e]]
    BY DEF MIDI_Host_OutJackTasks
  <2>2. \A e \in Endpoint : First(e) \in {Empty, heard[e]}
    BY DEF OrderInv, InChain, Chain
  <2>3. \A e \in Endpoint : heard[e] # Empty
    BY EmptyNoPacket
  <2> QED BY <2>1, <2>2, <2>3 DEF First, Passed
<1>4. InOrder'
  <2>1. \A e \in Endpoint : rd[e] # wr[e] /\ buf[e][rd[e]] # Empty => buf[e][rd[e]] = heard[e]
    BY DEF OrderInv, InChain, Chain, First
  <2> QED BY <2>1 DEF MIDI_Host_OutJackTasks, OrderInv, InOrder
<1>5. \A e \in Endpoint : Live(e)' <=> Live(e)
  BY <1>1 DEF Live
<1>6. TokenInv'
  BY <1>1, <1>5 DEF OrderInv, TokenInv, hcdVars, busVars
<1>7. SlotFree' /\ PassInv'
  BY <1>1, <1>2 DEF SlotFree, PassInv
<1>8. ASSUME NEW e \in Endpoint PROVE InChain(e)'
  <2>1. Chain(heard[e], First(e), Second(e), Expected(e))
    BY DEF OrderInv, InChain
  <2>2. First(e)' = Empty
    BY <1>1, <1>2 DEF First
  <2>3. Second(e)' = Second(e) /\ Expected(e)' = Expected(e)
    BY <1>1, <1>5 DEF Second, Expected, hcdVars, deviceVars
  <2>4. heard'[e] = Passed(heard[e], First(e))
    BY <1>3
  <2>5. Chain(heard'[e], Empty, Second(e), Expected(e))
    BY <2>1, <2>4 DEF Chain, Passed
  <2> QED BY <2>2, <2>3, <2>5 DEF InChain
<1> QED BY <1>4, <1>6, <1>7, <1>8 DEF OrderInv

\* Where Advance leads to the endpoints after this one are still to be served.
LEMMA AdvanceOrder ==
  ASSUME TypeInv, Advance, pc \in {"app", "busy"}, \A e \in Endpoint : e >= at => wr[e] = rd[e],
         \A e \in Endpoint : e # at => wr'[e] = wr[e] /\ rd'[e] = rd[e]
  PROVE  PassInv'
<1>1. at \in Endpoint /\ N \in Nat
  BY SlotTypes, Sizes
<1> QED BY <1>1 DEF Advance, PassInv, Endpoint

LEMMA ReadOrder == TypeInv /\ EventInv /\ OrderInv /\ ReadData => OrderInv'
<1> SUFFICES ASSUME TypeInv, OrderInv, ReadData PROVE OrderInv'
  OBVIOUS
<1> USE SlotTypes
<1>1. /\ pc = "app" /\ phase[at] = "read" /\ at \in Endpoint
      /\ buf' = [buf EXCEPT ![at][wr[at]] = Empty]
      /\ UNCHANGED <<toggle, busVars, phase, wr, rd, deviceVars, jackVars>>
  BY DEF ReadData
<1>2. wr[at] = rd[at] /\ \A e \in Endpoint : e >= at => wr[e] = rd[e]
  BY <1>1 DEF OrderInv, PassInv, Endpoint
<1>3. InOrder' /\ SlotFree'
  BY <1>1 DEF OrderInv, InOrder, SlotFree, jackVars
<1>4. \A e \in Endpoint : e # at => buf'[e] = buf[e]
  BY <1>1
<1>5. buf'[at][wr[at]] = Empty
  BY <1>1
<1>6. ~Live(at)
  BY <1>1 DEF Live
<1>7. \A e \in Endpoint : e # at => (Live(e)' <=> Live(e))
  <2>1. pc' = "busy" => at' = at
    BY <1>1 DEF ReadData, Advance
  <2> QED BY <1>1, <2>1 DEF Live
<1>8. ASSUME NEW e \in Endpoint PROVE InChain(e)'
  <2>1. Chain(heard[e], First(e), Second(e), Expected(e))
    BY DEF OrderInv, InChain
  <2>2. heard'[e] = heard[e] /\ Expected(e)' = Expected(e)
    BY <1>1 DEF Expected, deviceVars, jackVars
  <2>3. First(e)' = First(e)
    BY <1>1, <1>2, <1>4 DEF First
  <2>4. Second(e)' = Second(e)
    <3>1. CASE e = at
      BY <1>1, <1>5, <1>6, <3>1 DEF Second
    <3>2. CASE e # at
      BY <1>1, <1>4, <1>7, <3>2 DEF Second
    <3> QED BY <3>1, <3>2
  <2> QED BY <2>1, <2>2, <2>3, <2>4 DEF InChain
<1>9. CASE Readable(at)
  <2>1. /\ InitRead(at) /\ pc' = "busy" /\ at' = at
    BY <1>9 DEF ReadData
  <2>2. PassInv'
    BY <1>1, <1>2, <2>1 DEF PassInv
  <2>3. TokenInv'
    <3>1. token' => xfer'[current'] = "data"
      BY <1>1, <2>1 DEF InitRead, OrderInv, TokenInv, busVars
    <3>2. isr' # "off" => ~token'
      BY <1>1 DEF OrderInv, TokenInv, busVars
    <3>3. ASSUME NEW e \in Endpoint, xfer'[e] = "data"
          PROVE  Live(e)' /\ buf'[e][wr'[e]] = Empty /\ ~complete'[e]
      <4>1. CASE e = at
        BY <1>1, <1>5, <2>1, <4>1 DEF InitRead, Live
      <4>2. CASE e # at
        BY <1>1, <1>4, <1>7, <2>1, <3>3, <4>2 DEF InitRead, OrderInv, TokenInv
      <4> QED BY <4>1, <4>2
    <3> QED BY <3>1, <3>2, <3>3 DEF TokenInv
  <2> QED BY <1>3, <1>8, <2>2, <2>3 DEF OrderInv
<1>10. CASE ~Readable(at)
  <2>1. Advance /\ UNCHANGED <<xfer, complete>>
    BY <1>10 DEF ReadData
  <2>2. PassInv'
    BY <1>1, <1>2, <2>1, AdvanceOrder
  <2>3. TokenInv'
    <3>1. (token' => xfer'[current'] = "data") /\ (isr' # "off" => ~token')
      BY <1>1, <2>1 DEF OrderInv, TokenInv, busVars
    <3>2. ASSUME NEW e \in Endpoint, xfer'[e] = "data"
          PROVE  Live(e)' /\ buf'[e][wr'[e]] = Empty /\ ~complete'[e]
      <4>1. Live(e) /\ buf[e][wr[e]] = Empty /\ ~complete[e]
        BY <2>1, <3>2 DEF OrderInv, TokenInv
      <4>2. e # at
        BY <1>6, <4>1
      <4> QED BY <1>1, <1>4, <1>7, <2>1, <4>1, <4>2
    <3> QED BY <3>1, <3>2 DEF TokenInv
  <2> QED BY <1>3, <1>8, <2>2, <2>3 DEF OrderInv
<1> QED BY <1>9, <1>10

LEMMA BusyOrder == TypeInv /\ OrderInv /\ SetBusy => OrderInv'
<1> SUFFICES ASSUME TypeInv, OrderInv, SetBusy PROVE OrderInv'
  OBVIOUS
<1> USE SlotTypes
<1>1. /\ pc = "busy" /\ at \in Endpoint /\ phase' = [phase EXCEPT ![at] = "wait"] /\ Advance
      /\ UNCHANGED <<hcdVars, busVars, buf, wr, rd, deviceVars, jackVars>>
  BY DEF SetBusy
<1>2. \A e \in Endpoint : Live(e)' <=> Live(e)
  BY <1>1 DEF Live, Advance
<1>3. PassInv'
  BY <1>1, AdvanceOrder DEF OrderInv, PassInv
<1>4. InOrder' /\ SlotFree'
  BY <1>1 DEF OrderInv, InOrder, SlotFree, jackVars
<1>5. TokenInv'
  BY <1>1, <1>2 DEF OrderInv, TokenInv, hcdVars, busVars
<1>6. \A e \in Endpoint : InChain(e)'
  BY <1>1, <1>2 DEF OrderInv, InChain, First, Second, Expected, hcdVars, deviceVars, jackVars
<1> QED BY <1>3, <1>4, <1>5, <1>6 DEF OrderInv

\* The slot that was read into becomes the slot that waits for the jack.
LEMMA WaitOrder == TypeInv /\ EventInv /\ OrderInv /\ WaitData => OrderInv'
<1> SUFFICES ASSUME TypeInv, EventInv, OrderInv, WaitData PROVE OrderInv'
  OBVIOUS
<1> USE SlotTypes
<1>1. /\ pc = "app" /\ phase[at] = "wait" /\ at \in Endpoint /\ Advance
      /\ UNCHANGED <<hcdVars, busVars, busy, buf, rd, deviceVars, jackVars>>
  BY DEF WaitData
<1>2. \A e \in Endpoint : e >= at => wr[e] = rd[e]
  BY <1>1 DEF OrderInv, PassInv
<1>3. wr[at] = rd[at]
  BY <1>1, <1>2 DEF Endpoint
<1>4. InOrder' /\ pc' # "busy"
  BY <1>1 DEF OrderInv, InOrder, jackVars, Advance
<1>5. CASE busy[at]
  <2>1. UNCHANGED <<phase, wr>>
    BY <1>5 DEF WaitData
  <2>2. \A e \in Endpoint : Live(e)' <=> Live(e)
    BY <1>1, <1>4, <2>1 DEF Live
  <2>3. PassInv'
    BY <1>1, <1>2, <2>1, AdvanceOrder
  <2>4. SlotFree' /\ TokenInv'
    BY <1>1, <2>1, <2>2 DEF OrderInv, SlotFree, TokenInv, hcdVars, busVars
  <2>5. \A e \in Endpoint : InChain(e)'
    BY <1>1, <2>1, <2>2 DEF OrderInv, InChain, First, Second, Expected, hcdVars, deviceVars, jackVars
  <2> QED BY <1>4, <2>3, <2>4, <2>5 DEF OrderInv
<1>6. CASE ~busy[at]
  <2>1. /\ phase' = [phase EXCEPT ![at] = "read"]
        /\ wr' = [wr EXCEPT ![at] = After(wr[at])]
    BY <1>6 DEF WaitData
  <2>2. wr'[at] = After(rd[at]) /\ wr'[at] # rd[at] /\ phase'[at] = "read" /\ Live(at)
    BY <1>1, <1>3, <2>1, AfterOther DEF Live
  <2>3. \A e \in Endpoint : e # at => wr'[e] = wr[e] /\ (Live(e)' <=> Live(e))
    BY <1>1, <1>4, <2>1 DEF Live
  <2>4. PassInv'
    BY <1>1, <1>2, <2>3, AdvanceOrder
  <2>5. SlotFree'
    BY <1>1, <2>2, <2>3 DEF OrderInv, SlotFree
  <2>6. TokenInv'
    <3>1. complete[at]
      BY <1>1, <1>6 DEF EventInv, SeenIdle
    <3>2. xfer[at] # "data"
      BY <1>1, <3>1 DEF OrderInv, TokenInv
    <3> QED BY <1>1, <2>3, <3>2 DEF OrderInv, TokenInv, hcdVars, busVars
  <2>7. ASSUME NEW e \in Endpoint PROVE InChain(e)'
    <3>1. Chain(heard[e], First(e), Second(e), Expected(e))
      BY DEF OrderInv, InChain
    <3>2. heard'[e] = heard[e] /\ Expected(e)' = Expected(e)
      BY <1>1 DEF Expected, hcdVars, deviceVars, jackVars
    <3>3. CASE e = at
      <4>1. First(e) = Empty /\ First(e)' = Second(e) /\ Second(e)' = Empty
        BY <1>1, <1>3, <1>4, <2>2, <3>3 DEF First, Second, Live
      <4>2. Chain(heard[e], Second(e), Empty, Expected(e))
        BY <3>1, <4>1 DEF Chain, Passed
      <4> QED BY <3>2, <4>1, <4>2 DEF InChain
    <3>4. CASE e # at
      <4>1. First(e)' = First(e) /\ Second(e)' = Second(e)
        BY <1>1, <2>3, <3>4 DEF First, Second
      <4> QED BY <3>1, <3>2, <4>1 DEF InChain
    <3> QED BY <3>3, <3>4
  <2> QED BY <1>4, <2>4, <2>5, <2>6, <2>7 DEF OrderInv
<1> QED BY <1>5, <1>6

LEMMA CountErrorOrder ==
  ASSUME TypeInv, NEW e \in Endpoint, NEW n \in 1 .. 2, CountError(e, n)
  PROVE  \A f \in Endpoint : xfer'[f] = "data" => xfer[f] = "data"
  BY SlotTypes DEF CountError

\* A transaction: the packet and its acknowledgement may be lost.
LEMMA DataOrder ==
  ASSUME TypeInv, OrderInv, NEW acked \in BOOLEAN, Data(current, acked)
  PROVE  OrderInv'
<1> USE SlotTypes
<1>0. PICK c \in Endpoint : c = current
  BY DEF Data, Answered
<1>1. /\ token /\ ~token'
      /\ UNCHANGED <<complete, current, phase, wr, rd, pc, at, jackVars>>
      /\ DeviceSent(c, acked)
  BY <1>0 DEF Data, Answered
<1>2. Live(c) /\ buf[c][wr[c]] = Empty /\ Second(c) = Empty
  BY <1>0, <1>1 DEF OrderInv, TokenInv, Second
<1>3. \A e \in Endpoint : Live(e)' <=> Live(e)
  BY <1>1 DEF Live
<1>4. InOrder' /\ SlotFree' /\ PassInv'
  BY <1>1 DEF OrderInv, InOrder, SlotFree, PassInv, jackVars
<1>5. /\ \A e \in Endpoint : e # c => next'[e] = next[e] /\ devToggle'[e] = devToggle[e]
      /\ acked => next'[c] = Follow(next[c]) /\ devToggle'[c] = 1 - devToggle[c]
      /\ ~acked => next'[c] = next[c] /\ devToggle'[c] = devToggle[c]
  BY <1>1 DEF DeviceSent, deviceVars
<1>6. \A e \in Endpoint : e # c => buf'[e] = buf[e] /\ toggle'[e] = toggle[e]
  BY <1>0 DEF Data, Receive
<1>7. \A e \in Endpoint : xfer'[e] = "data" => (xfer[e] = "data" /\ e # c) \/ buf' = buf
  <2>1. CASE devToggle[c] = toggle[c]
    BY <1>0, <2>1 DEF Data, Receive
  <2>2. CASE devToggle[c] # toggle[c]
    BY <1>0, <2>2 DEF Data
  <2> QED BY <2>1, <2>2
<1>8. \A e \in Endpoint : xfer'[e] = "data" => xfer[e] = "data"
  BY <1>0, <1>1, CountErrorOrder DEF Data, Receive
<1>9. TokenInv'
  BY <1>1, <1>3, <1>6, <1>7, <1>8 DEF OrderInv, TokenInv
<1>10. ASSUME NEW e \in Endpoint, e # c PROVE InChain(e)'
  <2>1. First(e)' = First(e) /\ Second(e)' = Second(e) /\ Expected(e)' = Expected(e) /\ heard' = heard
    BY <1>1, <1>3, <1>5, <1>6, <1>10 DEF First, Second, Expected, jackVars
  <2> QED BY <2>1 DEF OrderInv, InChain
<1>11. InChain(c)'
  <2>1. Chain(heard[c], First(c), Empty, Expected(c))
    BY <1>1, <1>2 DEF OrderInv, InChain
  <2>2. heard' = heard /\ next[c] \in Packet /\ next[c] # Empty
    BY <1>1, EmptyNoPacket DEF jackVars
  <2>3. CASE devToggle[c] = toggle[c]
    <3>1. buf' = [buf EXCEPT ![c][wr[c]] = next[c]] /\ toggle'[c] = 1 - toggle[c]
      BY <1>0, <1>1, <2>3 DEF Data, Receive
    <3>2. First(c)' = First(c)
      BY <1>1, <3>1 DEF First
    <3>3. Second(c)' = next[c]
      BY <1>1, <1>2, <1>3, <3>1 DEF Second
    <3>4. Expected(c) = next[c] /\ Expected(c)' = Follow(next[c])
      BY <1>1, <1>5, <2>3, <3>1 DEF Expected
    <3>5. Chain(heard[c], First(c), next[c], Follow(next[c]))
      BY <2>1, <2>2, <3>4 DEF Chain, Passed
    <3> QED BY <2>2, <3>2, <3>3, <3>4, <3>5 DEF InChain
  <2>4. CASE devToggle[c] # toggle[c]
    <3>1. UNCHANGED <<toggle, buf>>
      BY <1>0, <2>4 DEF Data
    <3>2. First(c)' = First(c) /\ Second(c)' = Empty
      BY <1>1, <1>2, <1>3, <3>1 DEF First, Second
    <3>3. Expected(c) = Follow(next[c])
      BY <2>4 DEF Expected
    <3>4. Expected(c)' = Follow(next[c])
      <4>1. CASE acked
        <5>1. devToggle'[c] = toggle'[c]
          BY <1>5, <2>4, <3>1, <4>1
        <5> QED BY <1>5, <4>1, <5>1 DEF Expected
      <4>2. CASE ~acked
        BY <1>5, <2>4, <3>1, <4>2 DEF Expected
      <4> QED BY <4>1, <4>2
    <3> QED BY <2>1, <2>2, <3>2, <3>3, <3>4 DEF InChain
  <2> QED BY <2>3, <2>4
<1> QED BY <1>4, <1>9, <1>10, <1>11 DEF OrderInv

LEMMA TransactionOrder == TypeInv /\ OrderInv /\ Transaction => OrderInv'
<1> SUFFICES ASSUME TypeInv, OrderInv, Transaction PROVE OrderInv'
  OBVIOUS
<1> USE SlotTypes
<1>1. ASSUME Answered, UNCHANGED <<buf, toggle, deviceVars>>,
             \A e \in Endpoint : xfer'[e] = "data" => xfer[e] = "data"
      PROVE  OrderInv'
  BY <1>1, QuietOrder DEF Answered, deviceVars, jackVars
<1>2. CASE Nak(current)
  BY <1>1, <1>2 DEF Nak
<1>3. CASE Stall(current)
  BY <1>1, <1>3 DEF Stall
<1>4. CASE BadPid(current)
  BY <1>1, <1>4, CountErrorOrder DEF BadPid
<1>5. CASE BusError(current)
  BY <1>1, <1>5, CountErrorOrder DEF BusError
<1>6. ASSUME NEW acked \in BOOLEAN, Data(current, acked) PROVE OrderInv'
  BY <1>6, DataOrder
<1> QED BY <1>2, <1>3, <1>4, <1>5, <1>6 DEF Transaction

LEMMA FindOrder == TypeInv /\ OrderInv /\ FindNextToken => OrderInv'
<1> SUFFICES ASSUME TypeInv, OrderInv, FindNextToken PROVE OrderInv'
  OBVIOUS
<1> USE SlotTypes
<1>0. isr # "off" /\ ~token /\ UNCHANGED <<toggle, appVars, mainVars, deviceVars, jackVars>>
  BY DEF FindNextToken, FindInterrupt, NoInterrupt, FindBulk, NoBulk, OrderInv, TokenInv, hcdVars
<1>1. ASSUME token' => xfer'[current'] = "data", isr' # "off" => ~token',
             \A e \in Endpoint : xfer'[e] = "data" => xfer[e] = "data" /\ complete'[e] = complete[e]
      PROVE  OrderInv'
  BY <1>0, <1>1, QuietOrder DEF appVars, mainVars, deviceVars, jackVars
<1>2. ASSUME NEW e \in Endpoint, current' = e, xfer[e] = "data", SendToken(e) PROVE OrderInv'
  BY <1>1, <1>2 DEF SendToken
<1>3. ASSUME NEW e \in Endpoint, Finish(e) PROVE OrderInv'
  BY <1>0, <1>1, <1>3 DEF Finish, FinishIn
<1>4. CASE NoInterrupt \/ NoBulk
  BY <1>0, <1>1, <1>4 DEF NoInterrupt, NoBulk, hcdVars
<1>5. CASE FindInterrupt
  BY <1>2, <1>3, <1>5 DEF FindInterrupt, InterruptDue
<1>6. CASE FindBulk
  BY <1>2, <1>3, <1>6 DEF FindBulk, BulkDue
<1> QED BY <1>4, <1>5, <1>6 DEF FindNextToken

LEMMA OrderInvStep == TypeInv /\ EventInv /\ OrderInv /\ [Next]_vars => OrderInv'
<1> SUFFICES ASSUME TypeInv, EventInv, OrderInv, [Next]_vars PROVE OrderInv'
  OBVIOUS
<1>1. CASE MainLoop
  BY <1>1, TasksOrder, JackOrder, ReadOrder, BusyOrder, WaitOrder
     DEF MainLoop, APP_HostMIDIBasicTasks
<1>2. CASE StartOfFrame
  BY <1>2, QuietOrder
     DEF StartOfFrame, appVars, mainVars, deviceVars, jackVars, OrderInv, TokenInv
<1>3. CASE Detach
  BY <1>3, QuietOrder
     DEF Detach, hcdVars, busVars, appVars, mainVars, deviceVars, jackVars, OrderInv, TokenInv
<1>4. CASE UNCHANGED vars
  BY <1>4, QuietOrder
     DEF vars, hcdVars, busVars, appVars, mainVars, deviceVars, jackVars, OrderInv, TokenInv
<1> QED BY <1>1, <1>2, <1>3, <1>4, TransactionOrder, FindOrder DEF Next

LEMMA OrderCorrect == Spec => []OrderInv
<1>1. Init => TypeInv /\ EventInv /\ OrderInv
  BY TypeInvInit, EventInvInit, OrderInvInit
<1>2. TypeInv /\ EventInv /\ OrderInv /\ [Next]_vars => (TypeInv /\ EventInv /\ OrderInv)'
  BY TypeInvStep, EventInvStep, OrderInvStep
<1> QED BY <1>1, <1>2, PTL DEF Spec

\* A read never overwrites a packet the out jack has yet to copy, with any number of
\* endpoints and slots.
THEOREM SlotsStayFree == Spec => []SlotFree
  BY OrderCorrect, PTL DEF OrderInv

\* Packets, acknowledgements and tokens may be lost, answered by NAK or interrupted
\* by a detach at any moment: the out jack is given every packet once and in order.
THEOREM PacketsInOrder == Spec => []InOrder
  BY OrderCorrect, PTL DEF OrderInv

-----------------------------------------------------------------------------
(* Refinement: a link per endpoint.                                        *)

\* The loop serves the application only while an instrument is attached, and only
\* an attached one can be pulled out.
PlugInv == (pc \in {"jack", "app", "busy"} => attached) /\ (unplugged => attached)

LEMMA PlugInvInit == Init => PlugInv
  BY DEF Init, PlugInv

LEMMA PlugInvStep == TypeInv /\ PlugInv /\ [Next]_vars => PlugInv'
<1> SUFFICES ASSUME PlugInv, [Next]_vars PROVE PlugInv'
  OBVIOUS
<1>1. CASE USBHostTasks
  <2>1. CASE NotifyClients \/ RemoveEvent \/ Running
    BY <2>1 DEF NotifyClients, RemoveEvent, Running, PlugInv
  <2>2. CASE Shutdown \/ Attach
    <3>1. ~unplugged' /\ pc' \in {"events", "jack"} /\ (pc' = "jack" => attached')
      BY <2>2 DEF Shutdown, Attach, Restart
    <3> QED BY <3>1 DEF PlugInv
  <2> QED BY <1>1, <2>1, <2>2 DEF USBHostTasks
<1>2. CASE APP_HostMIDIBasicTasks
  <2>1. pc \in {"jack", "app", "busy"} /\ UNCHANGED <<attached, unplugged>>
    BY <1>2 DEF APP_HostMIDIBasicTasks, MIDI_Host_OutJackTasks, ReadData, SetBusy, WaitData
  <2> QED BY <2>1 DEF PlugInv
<1>3. CASE Transaction
  BY <1>3 DEF Transaction, Nak, Stall, BadPid, BusError, Data, Answered, PlugInv
<1>4. CASE StartOfFrame \/ Detach
  BY <1>4 DEF StartOfFrame, Detach, mainVars, PlugInv
<1>5. CASE FindNextToken
  BY <1>5 DEF FindNextToken, FindInterrupt, NoInterrupt, FindBulk, NoBulk, mainVars, PlugInv
<1>6. CASE UNCHANGED vars
  BY <1>6 DEF vars, mainVars, PlugInv
<1> QED BY <1>1, <1>2, <1>3, <1>4, <1>5, <1>6 DEF Next, MainLoop

LinkInv == TypeInv /\ EventInv /\ OrderInv /\ PlugInv

LEMMA LinkInvHolds == Spec => []LinkInv
<1>1. Init => LinkInv
  BY TypeInvInit, EventInvInit, OrderInvInit, PlugInvInit DEF LinkInv
<1>2. LinkInv /\ [Next]_vars => LinkInv'
  BY TypeInvStep, EventInvStep, OrderInvStep, PlugInvStep DEF LinkInv
<1> QED BY <1>1, <1>2, PTL DEF Spec

\* A sequence of two.
LEMMA PairIs ==
  ASSUME NEW S, NEW a \in S, NEW b \in S
  PROVE  Append(<<a>>, b) = <<a, b>> /\ <<a>> \o <<b>> = <<a, b>>
<1>1. /\ <<a>> \in Seq(S) /\ Len(<<a>>) = 1 /\ <<a>>[1] = a
      /\ <<a, b>> \in Seq(S) /\ Len(<<a, b>>) = 2 /\ <<a, b>>[1] = a /\ <<a, b>>[2] = b
  OBVIOUS
<1>2. PICK s \in Seq(S), t \in Seq(S) :
        s = <<a>> /\ Len(s) = 1 /\ s[1] = a /\ t = <<a, b>> /\ Len(t) = 2 /\ t[1] = a /\ t[2] = b
  BY <1>1
<1>3. PICK u \in Seq(S) : u = Append(s, b)
  BY AppendProperties
<1>4. Len(u) = 2 /\ u[1] = a /\ u[2] = b
  BY <1>2, <1>3, AppendProperties
<1>5. u = t
  BY <1>2, <1>4, SeqEqual
<1>6. s \o <<b>> = Append(s, b)
  BY AppendIsConcat
<1> QED BY <1>2, <1>3, <1>5, <1>6

\* What is on its way, slot by slot.
LEMMA WayIs ==
  ASSUME NEW e \in Endpoint
  PROVE  /\ First(e) = Empty /\ Second(e) = Empty => Way(e) = <<>>
         /\ First(e) # Empty /\ Second(e) = Empty => Way(e) = <<First(e)>>
         /\ First(e) = Empty /\ Second(e) # Empty => Way(e) = <<Second(e)>>
         /\ First(e) # Empty /\ Second(e) # Empty => Way(e) = <<First(e), Second(e)>>
<1>1. <<First(e)>> \o <<Second(e)>> = <<First(e), Second(e)>>
  <2>1. First(e) \in {First(e), Second(e)} /\ Second(e) \in {First(e), Second(e)}
    OBVIOUS
  <2> QED BY <2>1, PairIs
<1>2. First(e) = Empty /\ Second(e) = Empty => Way(e) = <<>>
  BY DEF Way, InSlot
<1>3. First(e) # Empty /\ Second(e) = Empty => Way(e) = <<First(e)>>
  BY DEF Way, InSlot
<1>4. First(e) = Empty /\ Second(e) # Empty => Way(e) = <<Second(e)>>
  BY DEF Way, InSlot
<1>5. First(e) # Empty /\ Second(e) # Empty => Way(e) = <<First(e)>> \o <<Second(e)>>
  BY DEF Way, InSlot
<1> QED BY <1>1, <1>2, <1>3, <1>4, <1>5

LinkStep(e) == Link(e)!Next \/ UNCHANGED Link(e)!vars

\* Steps that move no packet of e.
LEMMA LinkSame ==
  ASSUME NEW e \in Endpoint, First(e)' = First(e), Second(e)' = Second(e),
         Expected(e)' = Expected(e), heard'[e] = heard[e], attached' = attached
  PROVE  LinkStep(e)
<1>1. Way(e)' = Way(e)
  BY DEF Way, InSlot, Empty
<1> QED BY <1>1 DEF LinkStep, Link!vars

\* Nor do those that leave slots, toggles, packets and the place of main alone.
LEMMA LinkQuiet ==
  ASSUME NEW e \in Endpoint,
         UNCHANGED <<attached, buf, wr, rd, phase, toggle, next, devToggle, heard, at>>,
         pc' = pc \/ (pc # "busy" /\ pc' # "busy")
  PROVE  LinkStep(e)
<1>1. Live(e)' <=> Live(e)
  BY DEF Live
<1> QED BY <1>1, LinkSame DEF First, Second, Expected

\* The instrument is plugged in or taken away.
LEMMA LinkRestart ==
  ASSUME NEW e \in Endpoint, Restart, pc' # "busy", attached \in BOOLEAN,
         attached' \in BOOLEAN, attached' # attached
  PROVE  LinkStep(e)
<1>1. First(e)' = Empty /\ Second(e)' = Empty
  BY DEF Restart, All, First, Second, Live, Empty
<1>2. Way(e)' = <<>>
  BY <1>1 DEF Way, InSlot, Empty
<1>3. Expected(e)' = 0 /\ heard'[e] = 0
  BY DEF Restart, All, Expected
<1> QED BY <1>2, <1>3 DEF LinkStep, Link!Next, Link!Plug, Link!Fresh

LEMMA TasksLink == LinkInv /\ USBHostTasks => \A e \in Endpoint : LinkStep(e)
<1> SUFFICES ASSUME LinkInv, USBHostTasks, NEW e \in Endpoint PROVE LinkStep(e)
  OBVIOUS
<1>0. TypeInv
  BY DEF LinkInv
<1>1. CASE NotifyClients
  BY <1>1, LinkQuiet DEF NotifyClients, hcdVars, deviceVars, jackVars
<1>2. CASE RemoveEvent
  BY <1>2, LinkQuiet DEF RemoveEvent, hcdVars, appVars, deviceVars, jackVars
<1>3. CASE Running
  BY <1>3, LinkQuiet DEF Running, hcdVars, appVars, deviceVars, jackVars
<1>4. CASE Shutdown
  BY <1>4, LinkRestart DEF Shutdown, LinkInv, PlugInv
<1>5. CASE Attach
  <2>1. Restart /\ pc' # "busy" /\ attached = FALSE /\ attached' = TRUE
    BY <1>5, <1>0 DEF Attach, TypeInv, TypeOK, EventTypes
  <2> QED BY <2>1, LinkRestart
<1> QED BY <1>1, <1>2, <1>3, <1>4, <1>5 DEF USBHostTasks

\* The out jack is given the packet it expects, or finds an empty slot.
LEMMA JackLink == LinkInv /\ MIDI_Host_OutJackTasks => \A e \in Endpoint : LinkStep(e)
<1> SUFFICES ASSUME LinkInv, MIDI_Host_OutJackTasks, NEW e \in Endpoint PROVE LinkStep(e)
  OBVIOUS
<1>0. TypeInv /\ OrderInv
  BY DEF LinkInv
<1> USE SlotTypes, <1>0
<1>1. /\ pc = "jack" /\ pc' = "app" /\ attached
      /\ UNCHANGED <<attached, hcdVars, phase, buf, wr, at, deviceVars>>
  BY DEF MIDI_Host_OutJackTasks, LinkInv, PlugInv
<1>2. rd'[e] = wr[e]
  <2>1. rd'[e] = IF rd[e] # wr[e] THEN After(rd[e]) ELSE rd[e]
    BY DEF MIDI_Host_OutJackTasks, NextRead
  <2> QED BY <2>1 DEF OrderInv, SlotFree
<1>3. Live(e)' <=> Live(e)
  BY <1>1 DEF Live
<1>4. First(e)' = Empty /\ Second(e)' = Second(e) /\ Expected(e)' = Expected(e)
  BY <1>1, <1>2, <1>3 DEF First, Second, Expected, hcdVars, deviceVars, Empty
<1>5. heard'[e] = IF First(e) # Empty THEN Follow(First(e)) ELSE heard[e]
  BY DEF MIDI_Host_OutJackTasks, First
<1>6. First(e) \in {Empty, heard[e]}
  BY DEF OrderInv, InChain, Chain
<1>7. CASE First(e) = Empty
  BY <1>1, <1>4, <1>5, <1>7, LinkSame
<1>8. CASE First(e) # Empty
  <2>1. First(e) = heard[e] /\ heard'[e] = Follow(heard[e])
    BY <1>5, <1>6, <1>8
  <2>2. Way(e) # <<>> /\ Head(Way(e)) = heard[e] /\ Tail(Way(e)) = Way(e)'
    <3>1. CASE Second(e) = Empty
      <4>1. Way(e) = <<First(e)>>
        BY <1>8, <3>1, WayIs
      <4>2. Way(e)' = <<>>
        BY <1>4, <3>1 DEF Way, InSlot, Empty
      <4> QED BY <2>1, <4>1, <4>2
    <3>2. CASE Second(e) # Empty
      <4>1. Way(e) = <<First(e), Second(e)>>
        BY <1>8, <3>2, WayIs
      <4>2. Way(e)' = <<Second(e)>>
        BY <1>4, <3>2 DEF Way, InSlot, Empty
      <4> QED BY <2>1, <4>1, <4>2
    <3> QED BY <3>1, <3>2
  <2> QED
    BY <1>1, <1>4, <2>1, <2>2 DEF LinkStep, Link!Next, Link!Give, Link!Follow, Follow
<1> QED BY <1>7, <1>8

LEMMA ReadLink == LinkInv /\ ReadData => \A e \in Endpoint : LinkStep(e)
<1> SUFFICES ASSUME LinkInv, ReadData, NEW e \in Endpoint PROVE LinkStep(e)
  OBVIOUS
<1>0. TypeInv /\ OrderInv
  BY DEF LinkInv
<1> USE SlotTypes, <1>0
<1>1. /\ pc = "app" /\ phase[at] = "read" /\ at \in Endpoint
      /\ buf' = [buf EXCEPT ![at][wr[at]] = Empty]
      /\ UNCHANGED <<attached, toggle, phase, wr, rd, deviceVars, jackVars>>
      /\ pc' = "busy" => at' = at
  BY DEF ReadData, Advance
<1>2. wr[at] = rd[at]
  BY <1>1 DEF OrderInv, PassInv, Endpoint
<1>3. First(e)' = First(e)
  BY <1>1, <1>2 DEF First, Empty
<1>4. Second(e)' = Second(e)
  <2>1. CASE e = at
    BY <1>1, <2>1 DEF Second, Live, Empty
  <2>2. CASE e # at
    <3>1. buf'[e] = buf[e] /\ (Live(e)' <=> Live(e))
      BY <1>1, <2>2 DEF Live
    <3> QED BY <1>1, <3>1 DEF Second, Empty
  <2> QED BY <2>1, <2>2
<1> QED BY <1>1, <1>3, <1>4, LinkSame DEF Expected, deviceVars, jackVars

LEMMA BusyLink == LinkInv /\ SetBusy => \A e \in Endpoint : LinkStep(e)
<1> SUFFICES ASSUME LinkInv, SetBusy, NEW e \in Endpoint PROVE LinkStep(e)
  OBVIOUS
<1>0. TypeInv
  BY DEF LinkInv
<1>1. /\ pc = "busy" /\ at \in Endpoint /\ phase' = [phase EXCEPT ![at] = "wait"] /\ Advance
      /\ phase \in [Endpoint -> {"read", "wait"}]
      /\ UNCHANGED <<attached, hcdVars, buf, wr, rd, deviceVars, jackVars>>
  BY <1>0, SlotTypes DEF SetBusy
<1>2. Live(e)' <=> Live(e)
  BY <1>1 DEF Live, Advance
<1> QED
  BY <1>1, <1>2, LinkSame DEF First, Second, Expected, Empty, hcdVars, deviceVars, jackVars

\* The packet moves from the slot of the transfer to the one that waits.
LEMMA WaitLink == LinkInv /\ WaitData => \A e \in Endpoint : LinkStep(e)
<1> SUFFICES ASSUME LinkInv, WaitData, NEW e \in Endpoint PROVE LinkStep(e)
  OBVIOUS
<1>0. TypeInv /\ OrderInv
  BY DEF LinkInv
<1> USE SlotTypes, <1>0
<1>1. /\ pc = "app" /\ pc' # "busy" /\ phase[at] = "wait" /\ at \in Endpoint
      /\ UNCHANGED <<attached, hcdVars, buf, rd, deviceVars, jackVars>>
  BY DEF WaitData, Advance
<1>2. wr[at] = rd[at]
  BY <1>1 DEF OrderInv, PassInv, Endpoint
<1>3. CASE e = at /\ ~busy[at]
  <2>1. phase'[e] = "read" /\ wr'[e] = After(rd[e]) /\ wr'[e] # rd[e] /\ rd[e] = wr[e] /\ Live(e)
    BY <1>1, <1>2, <1>3, AfterOther DEF WaitData, Live
  <2>2. First(e) = Empty /\ First(e)' = Second(e) /\ Second(e)' = Empty
    BY <1>1, <2>1 DEF First, Second, Live, Empty
  <2>3. Way(e)' = Way(e)
    <3>1. CASE Second(e) = Empty
      BY <2>2, <3>1 DEF Way, InSlot, Empty
    <3>2. CASE Second(e) # Empty
      <4>1. Way(e) = <<Second(e)>>
        BY <2>2, <3>2, WayIs
      <4>2. Way(e)' = <<Second(e)>>
        BY <2>2, <3>2 DEF Way, InSlot, Empty
      <4> QED BY <4>1, <4>2
    <3> QED BY <3>1, <3>2
  <2>4. Expected(e)' = Expected(e) /\ heard'[e] = heard[e]
    BY <1>1 DEF Expected, hcdVars, deviceVars, jackVars
  <2> QED BY <1>1, <2>3, <2>4 DEF LinkStep, Link!vars
<1>4. CASE e # at \/ busy[at]
  <2>1. phase'[e] = phase[e] /\ wr'[e] = wr[e]
    BY <1>1, <1>4 DEF WaitData
  <2>2. Live(e)' <=> Live(e)
    BY <1>1, <2>1 DEF Live
  <2> QED
    BY <1>1, <2>1, <2>2, LinkSame
       DEF First, Second, Expected, Empty, hcdVars, deviceVars, jackVars
<1> QED BY <1>3, <1>4

\* A data packet with the right toggle is taken, into an empty slot, whether or not
\* its acknowledgement arrives; one with the wrong toggle was taken before.
LEMMA DataLink ==
  ASSUME LinkInv, NEW acked \in BOOLEAN, Data(current, acked), NEW e \in Endpoint
  PROVE  LinkStep(e)
<1>0. TypeInv /\ OrderInv
  BY DEF LinkInv
<1> USE SlotTypes, <1>0
<1>1. /\ token /\ attached
      /\ UNCHANGED <<attached, phase, wr, rd, pc, at, jackVars>>
      /\ DeviceSent(current, acked)
  BY DEF Data, Answered
<1>2. Live(e)' <=> Live(e)
  BY <1>1 DEF Live
<1>3. CASE e # current
  <2>1. next'[e] = next[e] /\ devToggle'[e] = devToggle[e]
    BY <1>1, <1>3 DEF DeviceSent, deviceVars
  <2>2. buf'[e] = buf[e] /\ toggle'[e] = toggle[e]
    BY <1>3 DEF Data, Receive
  <2> QED BY <1>1, <1>2, <2>1, <2>2, LinkSame DEF First, Second, Expected, Empty, jackVars
<1>4. CASE e = current
  <2>1. Live(e) /\ buf[e][wr[e]] = Empty /\ Second(e) = Empty
    BY <1>1, <1>4 DEF OrderInv, TokenInv, Second
  <2>2. /\ acked => next'[e] = Follow(next[e]) /\ devToggle'[e] = 1 - devToggle[e]
        /\ ~acked => next'[e] = next[e] /\ devToggle'[e] = devToggle[e]
        /\ heard'[e] = heard[e]
    BY <1>1, <1>4 DEF DeviceSent, deviceVars, jackVars
  <2>3. CASE devToggle[e] = toggle[e]
    <3>1. buf' = [buf EXCEPT ![e][wr[e]] = next[e]] /\ toggle'[e] = 1 - toggle[e]
      BY <1>4, <2>3 DEF Data, Receive
    <3>2. First(e)' = First(e)
      BY <1>1, <3>1 DEF First, Empty
    <3>3. Second(e)' = next[e] /\ next[e] # Empty
      BY <1>1, <1>2, <2>1, <3>1, EmptyNoPacket DEF Second
    <3>4. Expected(e) = next[e] /\ Expected(e)' = Follow(next[e])
      BY <2>2, <2>3, <3>1 DEF Expected, Follow
    <3>5. Len(Way(e)) < 2 /\ Way(e)' = Append(Way(e), next[e])
      <4>1. CASE First(e) = Empty
        <5>1. Way(e) = <<>>
          BY <2>1, <4>1, WayIs
        <5>2. Way(e)' = <<next[e]>>
          BY <3>2, <3>3, <4>1 DEF Way, InSlot, Empty
        <5> QED BY <5>1, <5>2
      <4>2. CASE First(e) # Empty
        <5>1. Way(e) = <<First(e)>>
          BY <2>1, <4>2, WayIs
        <5>2. Way(e)' = <<First(e)>> \o <<next[e]>>
          BY <3>2, <3>3, <4>2 DEF Way, InSlot, Empty
        <5>3. First(e) \in {First(e), next[e]} /\ next[e] \in {First(e), next[e]}
          OBVIOUS
        <5>4. Append(<<First(e)>>, next[e]) = <<First(e)>> \o <<next[e]>>
          BY <5>3, PairIs
        <5> QED BY <5>1, <5>2, <5>4
      <4> QED BY <4>1, <4>2
    <3> QED
      BY <1>1, <2>2, <3>4, <3>5 DEF LinkStep, Link!Next, Link!Take, Link!Follow, Follow
  <2>4. CASE devToggle[e] # toggle[e]
    <3>1. UNCHANGED <<toggle, buf>>
      BY <1>4, <2>4 DEF Data
    <3>2. First(e)' = First(e) /\ Second(e)' = Second(e)
      BY <1>1, <1>2, <3>1 DEF First, Second, Empty
    <3>3. Expected(e)' = Expected(e)
      <4>1. CASE acked
        <5>1. devToggle'[e] = toggle'[e]
          BY <2>2, <2>4, <3>1, <4>1
        <5> QED BY <2>2, <2>4, <4>1, <5>1 DEF Expected
      <4>2. CASE ~acked
        BY <2>2, <2>4, <3>1, <4>2 DEF Expected, Follow
      <4> QED BY <4>1, <4>2
    <3> QED BY <1>1, <2>2, <3>2, <3>3, LinkSame
  <2> QED BY <2>3, <2>4
<1> QED BY <1>3, <1>4

LEMMA TransactionLink == LinkInv /\ Transaction => \A e \in Endpoint : LinkStep(e)
<1> SUFFICES ASSUME LinkInv, Transaction, NEW e \in Endpoint PROVE LinkStep(e)
  OBVIOUS
<1>1. CASE Nak(current) \/ Stall(current) \/ BadPid(current) \/ BusError(current)
  BY <1>1, LinkQuiet DEF Nak, Stall, BadPid, BusError, Answered, deviceVars, jackVars
<1> QED BY <1>1, DataLink DEF Transaction

LEMMA LinkNext == LinkInv /\ [Next]_vars => \A e \in Endpoint : LinkStep(e)
<1> SUFFICES ASSUME LinkInv, [Next]_vars, NEW e \in Endpoint PROVE LinkStep(e)
  OBVIOUS
<1>1. CASE MainLoop
  BY <1>1, TasksLink, JackLink, ReadLink, BusyLink, WaitLink
     DEF MainLoop, APP_HostMIDIBasicTasks
<1>2. CASE StartOfFrame \/ Detach
  BY <1>2, LinkQuiet
     DEF StartOfFrame, Detach, hcdVars, appVars, mainVars, deviceVars, jackVars
<1>3. CASE FindNextToken
  BY <1>3, LinkQuiet
     DEF FindNextToken, FindInterrupt, NoInterrupt, FindBulk, NoBulk, hcdVars, appVars, mainVars,
         deviceVars, jackVars
<1>4. CASE UNCHANGED vars
  BY <1>4, LinkQuiet DEF vars, hcdVars, appVars, mainVars, deviceVars, jackVars
<1> QED BY <1>1, <1>2, <1>3, <1>4, TransactionLink DEF Next

LEMMA LinkInit == Init => \A e \in Endpoint : Link(e)!Init
<1> SUFFICES ASSUME Init, NEW e \in Endpoint PROVE Link(e)!Init
  OBVIOUS
<1>1. First(e) = Empty /\ Second(e) = Empty
  BY DEF Init, All, First, Second, Live
<1>2. Way(e) = <<>>
  BY <1>1, WayIs
<1> QED BY <1>2 DEF Init, All, Expected, Link!Init, Link!Fresh

\* Host mode implements PacketLink at every endpoint: whatever is lost on the bus,
\* whenever the interrupt comes and however the endpoints share the bus, every packet
\* taken from the instrument is given to the out jack once and in order, or the cable
\* was pulled.
THEOREM LinksImplemented == Spec => LinksKept
<1>1. Init => \A e \in Endpoint : Link(e)!Init
  BY LinkInit
<1>2. LinkInv /\ [Next]_vars =>
        \A e \in Endpoint : Link(e)!Next \/ UNCHANGED Link(e)!vars
  BY LinkNext DEF LinkStep
<1> QED BY <1>1, <1>2, LinkInvHolds, PTL DEF Spec, LinksKept

\* The same as the implementation of one specification by another.
THEOREM LinkRefined == ASSUME NEW e \in Endpoint PROVE Spec => Link(e)!Spec
<1>1. Init => Link(e)!Init
  BY LinkInit
<1>2. LinkInv /\ [Next]_vars => [Link(e)!Next]_(Link(e)!vars)
  BY LinkNext DEF LinkStep
<1> QED BY <1>1, <1>2, LinkInvHolds, PTL DEF Spec, Link!Spec

-----------------------------------------------------------------------------
(* The search for the next token: exactly one endpoint is found, in at     *)
(* most N + 2 steps.                                                       *)

LEMMA EndpointsFinite ==
  ASSUME NEW S \in SUBSET Endpoint
  PROVE  IsFiniteSet(S) /\ Cardinality(S) \in 0 .. N
<1>1. IsFiniteSet(Endpoint) /\ Cardinality(Endpoint) = N
  BY Sizes, CountOfPlaces DEF Endpoint
<1>2. IsFiniteSet(S) /\ Cardinality(S) <= N
  BY <1>1, FS_Subset
<1> QED BY <1>2, FS_CardinalityType, Sizes

\* Endpoints are ranked from the last to the first.
LEMMA RankFalls ==
  ASSUME NEW S \in SUBSET Endpoint, NEW e \in S, NEW f \in S, e < f
  PROVE  Rank(S, f) < Rank(S, e)
<1> DEFINE From(x) == {g \in S : g >= x}
<1>1. From(e) \in SUBSET Endpoint /\ From(f) \in SUBSET Endpoint
  OBVIOUS
<1>2. e \in Nat /\ f \in Nat
  BY DEF Endpoint
<1>3. From(f) \in SUBSET From(e) /\ e \in From(e) /\ e \notin From(f)
  <2>1. \A g \in S : g \in Nat
    BY DEF Endpoint
  <2>2. \A g \in S : g >= f => g >= e
    BY <1>2, <2>1
  <2>3. e >= e /\ ~(e >= f)
    BY <1>2
  <2> QED BY <2>2, <2>3
<1>4. /\ IsFiniteSet(From(e))
      /\ Cardinality(From(e)) \in Nat /\ Cardinality(From(f)) \in Nat
  BY <1>1, EndpointsFinite, Sizes
<1>5. /\ Cardinality(From(f)) <= Cardinality(From(e))
      /\ Cardinality(From(f)) # Cardinality(From(e))
  <2> HIDE DEF From
  <2> QED BY <1>3, <1>4, FS_Subset
<1> QED BY <1>4, <1>5 DEF Rank

LEMMA RankRange ==
  ASSUME NEW S \in SUBSET Endpoint, NEW e \in S
  PROVE  Rank(S, e) \in 1 .. Cardinality(S)
<1> DEFINE T == {g \in S : g >= e}
<1>1. T \in SUBSET S /\ T \in SUBSET Endpoint /\ e \in T
  <2>1. e >= e
    BY DEF Endpoint
  <2> QED BY <2>1
<1> HIDE DEF T
<1>2. IsFiniteSet(S) /\ Cardinality(S) \in Nat
  BY EndpointsFinite, Sizes
<1>3. IsFiniteSet(T) /\ Cardinality(T) \in Nat
  BY <1>1, EndpointsFinite, Sizes
<1>4. Cardinality(T) <= Cardinality(S)
  BY <1>1, <1>2, FS_Subset
<1>5. Cardinality(T) # 0
  BY <1>1, <1>3, FS_EmptySet
<1> QED BY <1>2, <1>3, <1>4, <1>5 DEF Rank, T

\* Different endpoints have different ranks.
LEMMA RankOneToOne ==
  ASSUME NEW S \in SUBSET Endpoint, NEW e \in S, NEW f \in S, Rank(S, e) = Rank(S, f)
  PROVE  e = f
<1>1. e \in Nat /\ f \in Nat
  BY DEF Endpoint
<1>2. Rank(S, e) \in Int
  BY RankRange, EndpointsFinite
<1>3. ~(e < f) /\ ~(f < e)
  BY <1>2, RankFalls
<1> QED BY <1>1, <1>3

\* Every rank is somebody's: no turn passes over the end of the list.
LEMMA RankOnto ==
  ASSUME NEW S \in SUBSET Endpoint, NEW k \in 1 .. Cardinality(S)
  PROVE  \E e \in S : Rank(S, e) = k
<1> DEFINE Ranks == 1 .. Cardinality(S)
           rank  == [e \in S |-> Rank(S, e)]
<1>1. IsFiniteSet(S) /\ Cardinality(S) \in Nat
  BY EndpointsFinite, Sizes
<1>2. IsFiniteSet(Ranks) /\ Cardinality(Ranks) = Cardinality(S)
  BY <1>1, CountOfPlaces
<1>3. rank \in Injection(S, Ranks)
  <2>1. rank \in [S -> Ranks]
    BY RankRange
  <2>2. \A e, f \in S : rank[e] = rank[f] => e = f
    BY RankOneToOne
  <2> QED BY <2>1, <2>2 DEF Injection, IsInjective
<1>4. rank \in Surjection(S, Ranks)
  <2> HIDE DEF rank, Ranks
  <2> QED BY <1>2, <1>3, FS_Injection
<1> QED BY <1>4 DEF Surjection

\* A rank that is there belongs to exactly one.
LEMMA OneOfRank ==
  ASSUME NEW S \in SUBSET Endpoint, NEW k \in 1 .. Cardinality(S)
  PROVE  \E e \in S : \A f \in S : Rank(S, f) = k <=> f = e
BY RankOnto, RankOneToOne

\* OneFound: an endpoint to be served is found and it is the only one.
THEOREM OneIsFound == Spec => []OneFound
<1>1. TypeInv => OneFound
  <2> SUFFICES ASSUME TypeInv PROVE OneFound
    OBVIOUS
  <2>1. InterruptDue \in SUBSET Endpoint /\ BulkDue \in SUBSET Endpoint /\ last \in 0 .. N
    BY DEF InterruptDue, BulkDue, TypeInv, TypeOK, BusTypes
  <2>2. \A S \in SUBSET Endpoint : S # {} => Cardinality(S) \in Nat /\ 1 \in 1 .. Cardinality(S)
    <3> TAKE S \in SUBSET Endpoint
    <3> HAVE S # {}
    <3>1. IsFiniteSet(S) /\ Cardinality(S) \in Nat /\ Cardinality(S) # 0
      BY EndpointsFinite, FS_EmptySet, Sizes
    <3> QED BY <3>1
  <2>3. ASSUME InterruptDue # {}
        PROVE  \E e \in InterruptDue :
                 \A f \in InterruptDue : Rank(InterruptDue, f) = 1 <=> f = e
    BY <2>1, <2>2, <2>3, OneOfRank
  <2>4. ASSUME BulkDue # {}
        PROVE  \E e \in BulkDue : \A f \in BulkDue : MyTurn(f) <=> f = e
    <3> DEFINE k == IF last < Cardinality(BulkDue) THEN last + 1 ELSE 1
    <3>1. Cardinality(BulkDue) \in Nat /\ 1 \in 1 .. Cardinality(BulkDue) /\ last \in Nat
      BY <2>1, <2>2, <2>4, Sizes
    <3>2. k \in 1 .. Cardinality(BulkDue)
      BY <3>1
    <3> HIDE DEF k
    <3>3. \E e \in BulkDue : \A f \in BulkDue : Rank(BulkDue, f) = k <=> f = e
      BY <2>1, <3>2, OneOfRank
    <3> QED BY <3>3 DEF k, MyTurn
  <2> QED BY <2>3, <2>4 DEF OneFound
<1> QED BY <1>1, TypeCorrect, PTL

LEMMA StepsNat ==
  ASSUME TypeInv
  PROVE  StepsLeft \in Nat /\ StepsLeft <= N + 2 /\ (isr = "off" <=> StepsLeft = 0)
<1>1. Cardinality(Unfinished) \in 0 .. N
  <2>1. Unfinished \in SUBSET Endpoint
    BY DEF Unfinished
  <2> QED BY <2>1, EndpointsFinite
<1>2. isr \in {"off", "interrupt", "bulk"}
  BY DEF TypeInv, TypeOK, BusTypes
<1> QED BY <1>1, <1>2, Sizes DEF StepsLeft

\* A transfer that ends is one less to end.
LEMMA FinishCounts ==
  ASSUME TypeInv, NEW e \in Endpoint, ~complete[e], Finish(e), isr # "off", UNCHANGED isr
  PROVE  StepsLeft' < StepsLeft
<1>1. Unfinished \in SUBSET Endpoint /\ e \in Unfinished
  BY DEF Unfinished
<1>2. Unfinished' = Unfinished \ {e}
  <2>1. complete \in [Endpoint -> BOOLEAN]
    BY DEF TypeInv, TypeOK, HcdTypes
  <2>2. complete' = [complete EXCEPT ![e] = TRUE]
    <3>1. FinishIn(e, Depth, TRUE)
      BY DEF Finish
    <3>2. /\ xfer' = [xfer EXCEPT ![e] = "idle"]
          /\ complete' = [complete EXCEPT ![e] = TRUE]
      BY ONLY <3>1, Zenon DEF FinishIn
    <3> QED BY <3>2
  <2>3. \A f \in Endpoint : ~complete'[f] <=> ~complete[f] /\ f # e
    BY <2>1, <2>2
  <2> QED BY <2>3 DEF Unfinished
<1>3. IsFiniteSet(Unfinished) /\ Cardinality(Unfinished) \in Nat
  BY <1>1, EndpointsFinite, Sizes
<1>4. Cardinality(Unfinished') = Cardinality(Unfinished) - 1
  BY <1>1, <1>2, <1>3, FS_RemoveElement
<1> QED BY <1>3, <1>4 DEF StepsLeft

LEMMA SearchStep == TypeInv /\ isr # "off" /\ Next => StepsLeft' < StepsLeft
<1> SUFFICES ASSUME TypeInv, isr # "off", Next PROVE StepsLeft' < StepsLeft
  OBVIOUS
<1>1. FindNextToken
  BY DEF Next, MainLoop, Transaction, Nak, Stall, BadPid, BusError, Data, Answered,
         StartOfFrame, Detach
<1>2. StepsLeft \in Nat /\ StepsLeft # 0
  BY StepsNat
<1>3. ASSUME isr' = "off" PROVE StepsLeft' < StepsLeft
  BY <1>2, <1>3 DEF StepsLeft
<1>4. CASE FindInterrupt
  <2>1. PICK e \in InterruptDue :
          \/ SendToken(e)
          \/ Finish(e) /\ UNCHANGED isr
    BY <1>4 DEF FindInterrupt
  <2>2. e \in Endpoint /\ ~complete[e]
    BY DEF InterruptDue
  <2> QED BY <1>3, <2>1, <2>2, FinishCounts DEF SendToken
<1>5. CASE NoInterrupt
  <2>1. isr = "interrupt" /\ isr' = "bulk" /\ Unfinished' = Unfinished
    BY <1>5 DEF NoInterrupt, Unfinished
  <2>2. Cardinality(Unfinished) \in 0 .. N
    BY EndpointsFinite DEF Unfinished
  <2> QED BY <2>1, <2>2, Sizes DEF StepsLeft
<1>6. CASE FindBulk
  <2>1. PICK e \in BulkDue :
          \/ SendToken(e)
          \/ Finish(e) /\ UNCHANGED isr
    BY <1>6 DEF FindBulk
  <2>2. e \in Endpoint /\ ~complete[e]
    BY DEF BulkDue
  <2> QED BY <1>3, <2>1, <2>2, FinishCounts DEF SendToken
<1>7. CASE NoBulk
  BY <1>3, <1>7 DEF NoBulk
<1> QED BY <1>1, <1>4, <1>5, <1>6, <1>7 DEF FindNextToken

\* SearchEnds: the handler's loop ends after N + 2 rounds, whatever it finds.
THEOREM SearchIsBounded == Spec => SearchEnds
<1>1. TypeInv /\ [Next]_vars =>
        [isr # "off" => StepsLeft' < StepsLeft /\ StepsLeft <= N + 2]_vars
  BY SearchStep, StepsNat
<1> QED BY <1>1, TypeCorrect, PTL DEF Spec, SearchEnds

-----------------------------------------------------------------------------
(* A failed endpoint that is waited for stays so.                          *)

\* An event that says nothing to whoever waits for e, unless that it has failed.
NoNews(v, e) == v.endpoint = e => v.event = "bus error"

Lost(e)   == phase[e] = "wait" /\ busy[e] /\ complete[e] /\ failed[e]
Silent(e) == \A i \in 1 .. Len(queue) : NoNews(queue[i], e)

LEMMA DeadIs ==
  ASSUME NEW e \in Endpoint
  PROVE  (Dead(e) <=> Lost(e) /\ Silent(e)) /\ (Dead(e)' <=> Lost(e)' /\ Silent(e)')
BY Zenon DEF Dead, Lost, Silent, NoNews

\* Steps that neither start a transfer nor end one, nor touch the queue.
LEMMA DeadQuiet ==
  ASSUME NEW e \in Endpoint, Dead(e), UNCHANGED <<queue, complete, phase, busy>>,
         failed[e] => failed'[e]
  PROVE  Dead(e)'
<1>1. Lost(e) /\ Silent(e)
  BY DeadIs
<1>2. Lost(e)' /\ Silent(e)'
  BY <1>1 DEF Lost, Silent
<1> QED BY <1>2, DeadIs

LEMMA CountErrorKeeps ==
  ASSUME TypeInv, NEW e \in Endpoint, NEW f \in Endpoint, NEW n \in 1 .. 2, CountError(f, n),
         failed[e]
  PROVE  failed'[e]
<1>1. failed' = failed \/ failed' = [failed EXCEPT ![f] = TRUE]
  BY DEF CountError
<1>2. failed \in [Endpoint -> BOOLEAN]
  BY DEF TypeInv, TypeOK, HcdTypes
<1> QED BY <1>1, <1>2

LEMMA TransactionDead ==
  ASSUME TypeInv, NEW e \in Endpoint, Dead(e), Transaction
  PROVE  Dead(e)'
<1>0. current \in Endpoint /\ failed \in [Endpoint -> BOOLEAN] /\ failed[e]
  BY DeadIs DEF TypeInv, TypeOK, BusTypes, HcdTypes, Lost
<1>1. UNCHANGED <<queue, complete, phase, busy>>
  BY DEF Transaction, Nak, Stall, BadPid, BusError, Data, Answered
<1>2. failed'[e]
  <2>1. CASE Nak(current)
    BY <1>0, <2>1 DEF Nak
  <2>2. CASE Stall(current)
    BY <1>0, <2>2 DEF Stall
  <2>3. CASE BadPid(current)
    BY <1>0, <2>3, CountErrorKeeps DEF BadPid
  <2>4. CASE BusError(current)
    BY <1>0, <2>4, CountErrorKeeps DEF BusError
  <2>5. ASSUME NEW acked \in BOOLEAN, Data(current, acked) PROVE failed'[e]
    <3>1. CASE devToggle[current] = toggle[current]
      BY <1>0, <2>5, <3>1 DEF Data, Receive
    <3>2. CASE devToggle[current] # toggle[current]
      BY <1>0, <2>5, <3>2, CountErrorKeeps DEF Data
    <3> QED BY <3>1, <3>2
  <2> QED BY <2>1, <2>2, <2>3, <2>4, <2>5 DEF Transaction
<1> QED BY <1>1, <1>2, DeadQuiet

\* The transfer of another endpoint ends.
LEMMA FinishDead ==
  ASSUME TypeInv, NEW e \in Endpoint, Dead(e), NEW f \in Endpoint, f # e, Finish(f),
         UNCHANGED <<phase, busy, failed>>
  PROVE  Dead(e)'
<1> DEFINE event == [event    |-> IF xfer[f] = "error" THEN "bus error" ELSE "transfer",
                     endpoint |-> f]
<1>1. FinishIn(f, Depth, TRUE)
  BY DEF Finish
<1>2. /\ xfer' = [xfer EXCEPT ![f] = "idle"]
      /\ complete' = [complete EXCEPT ![f] = TRUE]
  BY ONLY <1>1, Zenon DEF FinishIn
<1>3. queue' = Append(queue, event) \/ queue' = queue
  BY ONLY <1>1, Zenon DEF FinishIn
<1>4. event.endpoint = f /\ event \in Event
  BY DEF Event
<1>5. NoNews(event, e)
  BY <1>4, Zenon DEF NoNews
<1> HIDE DEF event
<1>6. complete \in [Endpoint -> BOOLEAN] /\ queue \in Seq(Event)
  BY DEF TypeInv, TypeOK, HcdTypes, EventTypes
<1>7. \A i \in 1 .. Len(queue) : NoNews(queue[i], e)
  BY DeadIs DEF Silent
<1>8. \A i \in 1 .. Len(queue') : NoNews(queue'[i], e)
  <2>1. CASE queue' = queue
    BY <1>7, <2>1
  <2>2. CASE queue' = Append(queue, event)
    <3>1. /\ Len(queue') = Len(queue) + 1 /\ Len(queue) \in Nat
          /\ \A i \in 1 .. Len(queue) : queue'[i] = queue[i]
          /\ queue'[Len(queue) + 1] = event
      BY <1>4, <1>6, <2>2, AppendProperties
    <3> QED BY <1>5, <1>7, <3>1
  <2> QED BY <1>3, <2>1, <2>2
<1>9. phase'[e] = "wait" /\ busy'[e] /\ complete'[e] /\ failed'[e]
  BY <1>2, <1>6, DeadIs DEF Lost
<1> QED BY <1>8, <1>9, DeadIs DEF Lost, Silent

LEMMA FindDead ==
  ASSUME TypeInv, NEW e \in Endpoint, Dead(e), FindNextToken
  PROVE  Dead(e)'
<1>0. complete[e]
  BY DeadIs DEF Lost
<1>1. UNCHANGED <<phase, busy, failed>>
  BY DEF FindNextToken, FindInterrupt, NoInterrupt, FindBulk, NoBulk, hcdVars, appVars
<1>2. CASE FindInterrupt
  <2>1. PICK f \in InterruptDue : SendToken(f) \/ Finish(f)
    BY <1>2 DEF FindInterrupt
  <2>2. f \in Endpoint /\ f # e
    BY <1>0 DEF InterruptDue
  <2> QED BY <1>1, <2>1, <2>2, FinishDead, DeadQuiet DEF SendToken
<1>3. CASE FindBulk
  <2>1. PICK f \in BulkDue : SendToken(f) \/ Finish(f)
    BY <1>3 DEF FindBulk
  <2>2. f \in Endpoint /\ f # e
    BY <1>0 DEF BulkDue
  <2> QED BY <1>1, <2>1, <2>2, FinishDead, DeadQuiet DEF SendToken
<1>4. CASE NoInterrupt \/ NoBulk
  BY <1>4, DeadQuiet DEF NoInterrupt, NoBulk, hcdVars, appVars
<1> QED BY <1>2, <1>3, <1>4 DEF FindNextToken

LEMMA TasksDead ==
  ASSUME TypeInv, NEW e \in Endpoint, Dead(e), USBHostTasks, attached, ~unplugged
  PROVE  Dead(e)'
<1>1. CASE NotifyClients
  <2>1. queue # <<>> /\ queue \in Seq(Event)
    BY <1>1 DEF NotifyClients, TypeInv, TypeOK, EventTypes
  <2>2. NoNews(Head(queue), e)
    <3>1. Head(queue) = queue[1] /\ 1 \in 1 .. Len(queue)
      BY <2>1
    <3> QED BY <3>1, DeadIs DEF Silent
  <2>3. busy \in [Endpoint -> BOOLEAN] /\ busy[e]
    BY DeadIs DEF TypeInv, TypeOK, AppTypes, Lost
  <2>4. busy' = [busy EXCEPT ![Head(queue).endpoint] = @ /\ Head(queue).event # "transfer"]
    BY <1>1 DEF NotifyClients
  <2>5. Head(queue).endpoint = e => Head(queue).event # "transfer"
    BY <2>2, Zenon DEF NoNews
  <2>6. busy'[e]
    BY <2>3, <2>4, <2>5
  <2>7. UNCHANGED <<queue, complete, phase, failed>>
    BY <1>1 DEF NotifyClients, hcdVars
  <2> QED BY <2>6, <2>7, DeadIs DEF Lost, Silent
<1>2. CASE RemoveEvent
  <2>1. queue # <<>> /\ queue \in Seq(Event) /\ queue' = Tail(queue)
    BY <1>2 DEF RemoveEvent, TypeInv, TypeOK, EventTypes, EventPresent
  <2>2. \A i \in 1 .. Len(queue') : i + 1 \in 1 .. Len(queue) /\ queue'[i] = queue[i + 1]
    BY <2>1
  <2>3. \A i \in 1 .. Len(queue') : NoNews(queue'[i], e)
    BY <2>2, DeadIs DEF Silent
  <2>4. UNCHANGED <<complete, phase, failed, busy>>
    BY <1>2 DEF RemoveEvent, hcdVars, appVars
  <2> QED BY <2>3, <2>4, DeadIs DEF Lost, Silent
<1>3. CASE Running
  BY <1>3, DeadQuiet DEF Running, hcdVars, appVars
<1> QED BY <1>1, <1>2, <1>3 DEF USBHostTasks, Shutdown, Attach

LEMMA AppDead ==
  ASSUME TypeInv, NEW e \in Endpoint, Dead(e), APP_HostMIDIBasicTasks
  PROVE  Dead(e)'
<1>0. /\ at \in Endpoint /\ phase[e] = "wait" /\ busy[e] /\ complete[e] /\ failed[e]
      /\ complete \in [Endpoint -> BOOLEAN] /\ busy \in [Endpoint -> BOOLEAN]
      /\ phase \in [Endpoint -> {"read", "wait"}]
  BY DeadIs DEF Lost, TypeInv, TypeOK, MainTypes, HcdTypes, AppTypes
<1>1. UNCHANGED <<queue, failed>>
  BY DEF APP_HostMIDIBasicTasks, MIDI_Host_OutJackTasks, ReadData, SetBusy, WaitData, hcdVars
<1>2. CASE MIDI_Host_OutJackTasks
  BY <1>2, DeadQuiet DEF MIDI_Host_OutJackTasks, hcdVars
<1>3. CASE ReadData
  <2>1. at # e /\ UNCHANGED <<phase, busy>>
    BY <1>0, <1>3 DEF ReadData
  <2>2. complete' = [complete EXCEPT ![at] = FALSE] \/ complete' = complete
    BY <1>3 DEF ReadData, InitRead
  <2>3. complete'[e]
    BY <1>0, <2>1, <2>2
  <2> QED BY <1>0, <1>1, <2>1, <2>3, DeadIs DEF Lost, Silent
<1>4. CASE SetBusy
  <2>1. busy'[e] /\ phase'[e] = "wait" /\ complete' = complete
    BY <1>0, <1>4 DEF SetBusy, hcdVars
  <2> QED BY <1>0, <1>1, <2>1, DeadIs DEF Lost, Silent
<1>5. CASE WaitData
  <2>1. phase'[e] = "wait" /\ UNCHANGED <<busy, complete>>
    BY <1>0, <1>5 DEF WaitData, hcdVars
  <2> QED BY <1>0, <1>1, <2>1, DeadIs DEF Lost, Silent
<1> QED BY <1>2, <1>3, <1>4, <1>5 DEF APP_HostMIDIBasicTasks

\* DeadForGood: only pulling the cable brings the endpoint back.
THEOREM DeadStaysDead == Spec => DeadForGood
<1>1. TypeInv /\ [Next]_vars =>
        \A e \in Endpoint : Dead(e) /\ attached /\ ~unplugged => Dead(e)'
  <2> SUFFICES ASSUME TypeInv, [Next]_vars, NEW e \in Endpoint, Dead(e), attached, ~unplugged
               PROVE  Dead(e)'
    OBVIOUS
  <2>1. CASE MainLoop
    BY <2>1, TasksDead, AppDead DEF MainLoop
  <2>2. CASE StartOfFrame \/ Detach \/ UNCHANGED vars
    BY <2>2, DeadQuiet DEF StartOfFrame, Detach, vars, hcdVars, appVars
  <2> QED BY <2>1, <2>2, TransactionDead, FindDead DEF Next
<1> QED BY <1>1, TypeCorrect, PTL DEF Spec, DeadForGood
=============================================================================
