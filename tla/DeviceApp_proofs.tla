--------------------------- MODULE DeviceApp_proofs ---------------------------
(***************************************************************************)
(* Proofs about DeviceApp, for every size of the ring and of the OUT       *)
(* buffer and any number of messages.                                      *)
(***************************************************************************)
EXTENDS DeviceApp, TLAPS

-----------------------------------------------------------------------------
(* Type correctness, with what the loop's position says of the OUT side.   *)

Playing == pc \in {"play", "send"}

PlayOK ==
  /\ pc = "send" => at <= OutSlots
  /\ pc # "send" => left = 0
  /\ ~Playing => at = 1
  /\ Playing => ~outArmed
  /\ pc \notin {"usb", "in"} => configured
  /\ outArmed => configured /\ new = 0

TypeInv == TypeOK /\ PlayOK

\* The three parts of TypeOK.
InType ==
  /\ buf \in [msg : Message, n : 1 .. MsgBytes]
  /\ bd \in [Bds -> Message \cup {Free}]
  /\ nextBd \in Bds /\ sieBd \in Bds
  /\ dropped \in BOOLEAN /\ taken \in BOOLEAN
  /\ wire \in [msg : Message, whole : BOOLEAN]

OutType ==
  /\ outArmed \in BOOLEAN
  /\ out \in [OutSlot -> Cins \cup {Zero}]
  /\ new \in 0 .. OutSlots /\ stale \in BOOLEAN
  /\ at \in 1 .. OutSlots + 1 /\ left \in 0 .. 3

LoopType ==
  /\ pc \in {"usb", "in", "out", "play", "send"} /\ configured \in BOOLEAN
  /\ ring \in 0 .. N + 1
  /\ txBusy \in BOOLEAN
  /\ passed \in 0 .. Passes
  /\ considerate \in BOOLEAN

LEMMA TypeParts == TypeOK <=> InType /\ OutType /\ LoopType
  BY DEF TypeOK, InType, OutType, LoopType

LEMMA InTypeKept == InType /\ UNCHANGED inVars => InType'
  BY DEF InType, inVars

LEMMA OutTypeKept == OutType /\ UNCHANGED outVars => OutType'
  BY DEF OutType, outVars

LEMMA LengthBound == \A c \in 0 .. 15 : Length(c) \in 0 .. 3
  BY DEF Length

LEMMA FollowType == \A m \in Message : (m + 1) % Ids \in Message
  BY CountAssumption DEF Message

LEMMA NextByteType ==
  ASSUME TypeOK
  PROVE  NextByte \in [msg : Message, n : 1 .. MsgBytes]
<1>1. CASE buf.n = MsgBytes
  BY <1>1, FollowType, CountAssumption DEF NextByte, TypeOK
<1>2. CASE buf.n # MsgBytes
  BY <1>2, CountAssumption DEF NextByte, TypeOK
<1> QED BY <1>1, <1>2

LEMMA TypeInvInit == Init => TypeInv
<1> SUFFICES ASSUME Init PROVE TypeInv
  OBVIOUS
<1>0. /\ N \in Nat /\ OutSlots \in Nat \ {0} /\ Ids \in Nat \ {0} /\ Passes \in Nat \ {0}
      /\ MsgBytes \in Nat \ {0, 1}
  BY CountAssumption
<1>1. InType
  <2>1. Ids - 1 \in Message /\ MsgBytes \in 1 .. MsgBytes
    BY <1>0 DEF Message
  <2>2. bd \in [Bds -> Message \cup {Free}]
    BY DEF Init, Cleared
  <2> QED BY <2>1, <2>2 DEF Init, InType, Whole, Bds
<1>2. OutType
  <2>1. out \in [OutSlot -> Cins \cup {Zero}]
    BY DEF Init, Empty
  <2>2. outArmed \in BOOLEAN /\ stale \in BOOLEAN
    BY DEF Init
  <2>3. new \in 0 .. OutSlots /\ at \in 1 .. OutSlots + 1 /\ left \in 0 .. 3
    BY <1>0 DEF Init
  <2> QED BY <2>1, <2>2, <2>3 DEF OutType
<1>3. LoopType
  <2>1. txBusy \in BOOLEAN /\ considerate \in BOOLEAN /\ configured \in BOOLEAN
    BY DEF Init
  <2>2. ring \in 0 .. N + 1 /\ passed \in 0 .. Passes
    BY <1>0 DEF Init
  <2>3. pc \in {"usb", "in", "out", "play", "send"}
    BY DEF Init
  <2> QED BY <2>1, <2>2, <2>3 DEF LoopType
<1>4. PlayOK
  BY DEF Init, PlayOK, Playing
<1> QED BY <1>1, <1>2, <1>3, <1>4, TypeParts DEF TypeInv

LEMMA TypeInvStep == TypeInv /\ [Next]_vars => TypeInv'
<1> SUFFICES ASSUME TypeInv, [Next]_vars PROVE TypeInv'
  OBVIOUS
<1>0. /\ N \in Nat /\ OutSlots \in Nat \ {0} /\ Ids \in Nat \ {0} /\ Passes \in Nat \ {0}
      /\ MsgBytes \in Nat \ {0, 1}
  BY CountAssumption
<1>a. Cleared \in [Bds -> Message \cup {Free}] /\ Empty \in [OutSlot -> Cins \cup {Zero}]
  BY DEF Cleared, Empty
<1>b. InType /\ OutType /\ LoopType /\ PlayOK /\ TypeOK
  BY TypeParts DEF TypeInv
<1>c. SUFFICES InType' /\ OutType' /\ LoopType' /\ PlayOK'
  BY TypeParts, PTL DEF TypeInv
<1> USE <1>0, <1>b
<1>1. CASE USBDeviceTasks
  BY <1>1, InTypeKept, OutTypeKept DEF USBDeviceTasks, LoopType, PlayOK, Playing, outVars
<1>2. CASE SetConfiguration
  <2>1. InType'
    BY <1>2, <1>a
       DEF SetConfiguration, Interrupted, ClearDescriptors, ResetPingPong, Bds, InType
  <2>2. OutType'
    BY <1>2 DEF SetConfiguration, Interrupted, OutType
  <2>3. LoopType' /\ PlayOK'
    BY <1>2 DEF SetConfiguration, Interrupted, LoopType, PlayOK, Playing
  <2> QED BY <2>1, <2>2, <2>3
<1>3. CASE Deconfigure
  <2>1. InType'
    BY <1>3, <1>a DEF Deconfigure, Disarm, Interrupted, ClearDescriptors, Bds, InType
  <2>2. OutType'
    BY <1>3 DEF Deconfigure, Disarm, Interrupted, OutType
  <2>3. LoopType' /\ PlayOK'
    BY <1>3 DEF Deconfigure, Disarm, Interrupted, LoopType, PlayOK, Playing
  <2> QED BY <2>1, <2>2, <2>3
<1>4. CASE Return
  BY <1>4, InTypeKept, OutTypeKept DEF Return, EndPass, LoopType, PlayOK, Playing, outVars
<1>5. CASE InJack
  <2>1. CASE ring = 0 /\ UNCHANGED <<ring, inVars>>
    BY <1>5, <2>1, InTypeKept, OutTypeKept DEF InJack, outVars, LoopType, PlayOK, Playing
  <2>2. CASE ring > 0 /\ Translate(NextByte.msg, NextByte.n) /\ UNCHANGED <<sieBd, wire>>
    <3>1. NextByte.msg \in Message /\ NextByte.n \in 1 .. MsgBytes
      BY NextByteType
    <3>2. buf' \in [msg : Message, n : 1 .. MsgBytes]
      BY <2>2, <3>1 DEF Translate
    <3>3. ASSUME NextByte.n = MsgBytes PROVE InType'
      <4>1. USBTxOnePacket(NextByte.msg)
        BY <2>2, <3>3 DEF Translate
      <4>2. bd' \in [Bds -> Message \cup {Free}]
        BY <3>1, <4>1 DEF USBTxOnePacket, InType
      <4>3. nextBd' \in Bds /\ taken' \in BOOLEAN /\ dropped' \in BOOLEAN
        BY <4>1 DEF USBTxOnePacket, InType, Bds
      <4>4. sieBd' \in Bds /\ wire' \in [msg : Message, whole : BOOLEAN]
        BY <2>2 DEF InType
      <4> QED BY <3>2, <4>2, <4>3, <4>4 DEF InType
    <3>4. ASSUME NextByte.n # MsgBytes PROVE InType'
      <4>1. UNCHANGED <<bd, nextBd, sieBd, wire, dropped, taken>>
        BY <2>2, <3>4 DEF Translate
      <4> QED BY <3>2, <4>1 DEF InType
    <3>5. InType'
      BY <3>3, <3>4
    <3>6. OutType' /\ PlayOK'
      BY <1>5, OutTypeKept DEF InJack, outVars, PlayOK, Playing
    <3>7. LoopType'
      BY <1>5, <2>2 DEF InJack, TakeByte, LoopType
    <3> QED BY <3>5, <3>6, <3>7
  <2> QED BY <1>5, <2>1, <2>2 DEF InJack
<1>6. CASE OutBusy
  BY <1>6, InTypeKept, OutTypeKept DEF OutBusy, EndPass, LoopType, PlayOK, Playing, outVars
<1>7. CASE OutReady
  <2>1. configured
    BY <1>7 DEF OutReady, PlayOK
  <2> QED BY <1>7, <2>1, InTypeKept, OutTypeKept DEF OutReady, LoopType, PlayOK, Playing, outVars
<1>8. CASE PlayMessage
  <2>1. at \in OutSlot
    BY <1>8 DEF PlayMessage, OutSlot, OutType
  <2>2. out[at] \in 0 .. 15
    <3>1. out[at] \in Cins \cup {Zero}
      BY <2>1 DEF OutType
    <3>2. 0 \in 0 .. 15 /\ \A c \in 2 .. 15 : c \in 0 .. 15
      OBVIOUS
    <3> QED BY <3>1, <3>2, CinAssumption DEF Zero
  <2>3. left' \in 0 .. 3
    BY <1>8, <2>2, LengthBound DEF PlayMessage
  <2> QED BY <1>8, <2>3, InTypeKept DEF PlayMessage, OutType, LoopType, PlayOK, Playing
<1>9. CASE SendByte
  BY <1>9, InTypeKept DEF SendByte, OutType, LoopType, PlayOK, Playing
<1>10. CASE MessageSent
  BY <1>10, InTypeKept DEF MessageSent, OutType, LoopType, PlayOK, Playing
<1>11. CASE RxOnePacket
  <2>1. OutType'
    <3>1. out' \in [OutSlot -> Cins \cup {Zero}]
      BY <1>11, <1>a DEF RxOnePacket, ClearBuffer
    <3>2. outArmed' \in BOOLEAN /\ stale' \in BOOLEAN
      BY <1>11 DEF RxOnePacket
    <3>3. new' \in 0 .. OutSlots /\ at' \in 1 .. OutSlots + 1 /\ left' \in 0 .. 3
      BY <1>11 DEF RxOnePacket, OutType
    <3> QED BY <3>1, <3>2, <3>3 DEF OutType
  <2>2. LoopType' /\ PlayOK'
    BY <1>11 DEF RxOnePacket, EndPass, LoopType, PlayOK, Playing
  <2> QED BY <1>11, <2>1, <2>2, InTypeKept DEF RxOnePacket
<1>12. CASE HostFetch
  <2>1. bd[sieBd] \in Message
    BY <1>12 DEF HostFetch, InType
  <2>2. sieBd' \in Bds /\ bd' \in [Bds -> Message \cup {Free}]
    BY <1>12 DEF HostFetch, InType, Bds
  <2>3. wire' \in [msg : Message, whole : BOOLEAN]
    BY <1>12, <2>1 DEF HostFetch
  <2>4. InType'
    BY <1>12, <2>2, <2>3 DEF HostFetch, InType
  <2> QED BY <1>12, <2>4, OutTypeKept DEF HostFetch, LoopType, PlayOK, Playing, outVars
<1>13. ASSUME NEW k \in 0 .. OutSlots, NEW p \in [1 .. k -> Cins], HostFill(k, p)
       PROVE  InType' /\ OutType' /\ LoopType' /\ PlayOK'
  <2>1. out' \in [OutSlot -> Cins \cup {Zero}]
    BY <1>13 DEF HostFill, OutSlot, OutType
  <2>2. OutType'
    BY <1>13, <2>1 DEF HostFill, OutType
  <2>3. PlayOK' /\ LoopType'
    BY <1>13 DEF HostFill, LoopType, PlayOK, Playing
  <2> QED BY <1>13, <2>2, <2>3, InTypeKept DEF HostFill
<1>14. ASSUME NEW received \in BOOLEAN, Frame(received)
       PROVE  InType' /\ OutType' /\ LoopType' /\ PlayOK'
  <2>1. LoopType'
    <3>1. ring' \in 0 .. N + 1 /\ passed' \in 0 .. Passes
      BY <1>14 DEF Frame, LoopType
    <3>2. txBusy' \in BOOLEAN /\ considerate' \in BOOLEAN /\ configured' \in BOOLEAN
      BY <1>14 DEF Frame, LoopType
    <3>3. pc' \in {"usb", "in", "out", "play", "send"}
      BY <1>14 DEF Frame, LoopType
    <3> QED BY <3>1, <3>2, <3>3 DEF LoopType
  <2>2. PlayOK'
    BY <1>14 DEF Frame, PlayOK, Playing, outVars
  <2> QED BY <1>14, <2>1, <2>2, InTypeKept, OutTypeKept DEF Frame
<1>15. CASE UNCHANGED vars
  BY <1>15, InTypeKept, OutTypeKept DEF vars, LoopType, PlayOK, Playing, outVars
<1> QED
  BY <1>1, <1>2, <1>3, <1>4, <1>5, <1>6, <1>7, <1>8, <1>9, <1>10, <1>11, <1>12, <1>13, <1>14, <1>15
     DEF Next, MainLoop, APP_DeviceAudioMIDITasks, Environment

\* Every variable keeps its type; in particular the loop never plays beyond the end
\* of the OUT buffer.
THEOREM TypesHold == Spec => []TypeOK
<1>1. Spec => []TypeInv
  BY TypeInvInit, TypeInvStep, PTL DEF Spec
<1> QED BY <1>1, PTL DEF TypeInv

-----------------------------------------------------------------------------
(* The descriptors of endpoint 1 IN.                                       *)

Follow(m) == (m + 1) % Ids

\* The message translated last, or the one before it if that is unfinished.
CurrentIn(b, m) == IF b.n = MsgBytes THEN b.msg = m ELSE b.msg = Follow(m)
Current(m)      == CurrentIn(buf, m)

NonePending == bd[sieBd] = Free /\ bd[1 - sieBd] = Free
OnePending  == bd[sieBd] # Free /\ bd[1 - sieBd] = Free
BothPending == bd[sieBd] # Free /\ bd[1 - sieBd] # Free

\* Where the next hand-over goes and what is pending, unless a descriptor was taken.
PingPong ==
  \/ NonePending /\ nextBd = sieBd
  \/ OnePending /\ nextBd = 1 - sieBd /\ Current(bd[sieBd])
  \/ /\ BothPending /\ nextBd = sieBd
     /\ bd[1 - sieBd] = Follow(bd[sieBd]) /\ Current(bd[1 - sieBd])

\* The packet to be fetched next is the one after the packet fetched last.
NextFetched ==
  IF bd[sieBd] = Free THEN NonePending /\ Current(wire.msg) ELSE bd[sieBd] = Follow(wire.msg)

BdInv ==
  /\ ~configured => NonePending
  /\ taken => dropped
  /\ configured /\ ~taken => PingPong
  /\ ~dropped => NextFetched

LEMMA BdInvInit == Init => BdInv
<1> SUFFICES ASSUME Init PROVE BdInv
  OBVIOUS
<1>1. NonePending /\ bd[sieBd] = Free /\ configured /\ ~taken /\ nextBd = sieBd
  BY DEF Init, Cleared, NonePending, Bds
<1>2. Current(wire.msg)
  BY DEF Init, Current, CurrentIn, Whole
<1> QED BY <1>1, <1>2 DEF BdInv, PingPong, NextFetched

LEMMA BdInvKept ==
  ASSUME BdInv, UNCHANGED <<configured, inVars>>
  PROVE  BdInv'
<1> QED
  BY DEF BdInv, inVars, PingPong, NextFetched, NonePending, OnePending, BothPending, Current

LEMMA BdInvInJack ==
  ASSUME TypeOK, BdInv, InJack
  PROVE  BdInv'
<1> DEFINE sie == sieBd
           oth == 1 - sieBd
<1>0. sie \in Bds /\ oth \in Bds /\ sie # oth /\ 1 - oth = sie /\ nextBd \in {sie, oth} /\ configured
      /\ configured' /\ sieBd' = sieBd
  BY DEF TypeOK, Bds, InJack, inVars
<1>1. CASE UNCHANGED inVars
  BY <1>1, BdInvKept DEF InJack
<1>2. ASSUME Translate(NextByte.msg, NextByte.n), UNCHANGED <<sieBd, wire>> PROVE BdInv'
  <2>m. MsgBytes \in Nat \ {0, 1}
    BY CountAssumption
  <2>1. NextByte.n = IF buf.n = MsgBytes THEN 1 ELSE buf.n + 1
    BY DEF NextByte, TypeOK
  <2>2. NextByte.msg = IF buf.n = MsgBytes THEN Follow(buf.msg) ELSE buf.msg
    BY DEF NextByte, TypeOK, Follow
  <2>3. buf' = [msg |-> NextByte.msg, n |-> NextByte.n]
    BY <1>2 DEF Translate
  <2>4. NextByte.msg \in Message
    BY NextByteType
  \* A message is begun, or continued: what was current remains so.
  <2>5. ASSUME NextByte.n # MsgBytes PROVE BdInv'
    <3>1. UNCHANGED <<bd, taken, dropped, nextBd>>
      BY <1>2, <2>5 DEF Translate
    <3>2. \A m : Current(m) => CurrentIn(buf', m)
      <4> SUFFICES ASSUME NEW m, Current(m) PROVE buf'.msg = Follow(m) /\ buf'.n # MsgBytes
        BY DEF CurrentIn
      <4> QED BY <2>1, <2>2, <2>3, <2>5 DEF Current, CurrentIn
    <3>3. Current(bd[sie]) => CurrentIn(buf', bd'[sie])
      BY <3>1, <3>2
    <3>4. Current(bd[oth]) => CurrentIn(buf', bd'[oth])
      BY <3>1, <3>2
    <3>5. Current(wire.msg) => CurrentIn(buf', wire'.msg)
      BY <1>2, <3>2
    <3>6. configured /\ ~taken => PingPong'
      BY <1>0, <3>1, <3>3, <3>4 DEF BdInv, Current, PingPong, NonePending, OnePending, BothPending
    <3>7. ~dropped => NextFetched'
      BY <1>0, <1>2, <3>1, <3>5 DEF BdInv, NextFetched, NonePending, Current
    <3> QED BY <1>0, <3>1, <3>6, <3>7 DEF BdInv
  \* A message is finished and handed over: the new packet is the current one.
  <2>6. ASSUME NextByte.n = MsgBytes PROVE BdInv'
    <3> DEFINE m == NextByte.msg
    <3>1. USBTxOnePacket(m)
      BY <1>2, <2>6 DEF Translate
    <3>2. buf.n # MsgBytes /\ m = buf.msg /\ m # Free
      BY <2>1, <2>2, <2>4, <2>6, <2>m DEF Message, Free
    <3>3. \A c : Current(c) => m = Follow(c)
      BY <3>2 DEF Current, CurrentIn
    <3>4. CurrentIn(buf', m)
      BY <2>3, <2>6 DEF CurrentIn
    <3>5. /\ bd' = [bd EXCEPT ![nextBd] = m] /\ nextBd' = 1 - nextBd
          /\ taken' = (taken \/ bd[nextBd] # Free) /\ dropped' = (dropped \/ bd[nextBd] # Free)
      BY <3>1 DEF USBTxOnePacket
    <3>6. bd \in [Bds -> Message \cup {Free}]
      BY DEF TypeOK
    <3>7. configured' /\ ~taken' => PingPong'
      <4> SUFFICES ASSUME ~taken' PROVE PingPong'
        OBVIOUS
      <4>1. ~taken /\ bd[nextBd] = Free /\ PingPong
        BY <1>0, <3>5 DEF BdInv
      <4>2. CASE NonePending /\ nextBd = sie
        <5>1. bd'[sie] = m /\ bd'[oth] = Free /\ nextBd' = oth
          BY <1>0, <3>5, <3>6, <4>2 DEF NonePending
        <5> QED BY <1>0, <3>2, <3>4, <5>1 DEF PingPong, OnePending, Current
      <4>3. CASE OnePending /\ nextBd = oth /\ Current(bd[sie])
        <5>1. bd'[oth] = m /\ bd'[sie] = bd[sie] /\ nextBd' = sie
          BY <1>0, <3>5, <3>6, <4>3 DEF OnePending
        <5>2. m = Follow(bd[sie])
          BY <3>3, <4>3
        <5> QED BY <1>0, <3>2, <3>4, <4>3, <5>1, <5>2
                DEF PingPong, OnePending, BothPending, Current, Follow
      <4> QED BY <4>1, <4>2, <4>3 DEF PingPong, BothPending
    <3>8. ~dropped' => NextFetched'
      <4> SUFFICES ASSUME ~dropped' PROVE NextFetched'
        OBVIOUS
      <4>1. ~dropped /\ ~taken /\ bd[nextBd] = Free /\ PingPong /\ NextFetched
        BY <1>0, <3>5 DEF BdInv
      <4>2. CASE NonePending /\ nextBd = sie
        <5>1. bd'[sie] = m
          BY <1>0, <3>5, <3>6, <4>2
        <5>2. m = Follow(wire.msg)
          BY <3>3, <4>1, <4>2 DEF NextFetched, NonePending
        <5> QED BY <1>0, <1>2, <3>2, <5>1, <5>2 DEF NextFetched, Follow
      <4>3. CASE OnePending /\ nextBd = oth
        <5>1. bd'[sie] = bd[sie] /\ bd[sie] # Free
          BY <1>0, <3>5, <3>6, <4>3 DEF OnePending
        <5> QED BY <1>0, <1>2, <4>1, <5>1 DEF NextFetched, Follow
      <4> QED BY <4>1, <4>2, <4>3 DEF PingPong, BothPending
    <3> QED BY <1>0, <3>5, <3>7, <3>8 DEF BdInv
  <2> QED BY <2>5, <2>6
<1> QED BY <1>1, <1>2 DEF InJack

LEMMA BdInvFetch ==
  ASSUME TypeOK, BdInv, HostFetch
  PROVE  BdInv'
<1> DEFINE sie == sieBd
           oth == 1 - sieBd
<1>0. sie \in Bds /\ oth \in Bds /\ sie # oth /\ 1 - oth = sie /\ nextBd \in {sie, oth}
  BY DEF TypeOK, Bds
<1>1. configured /\ configured' /\ UNCHANGED <<buf, nextBd, taken>>
  BY DEF HostFetch, BdInv, NonePending
<1>2. bd'[sie] = Free /\ bd'[oth] = bd[oth] /\ sieBd' = oth /\ wire'.msg = bd[sie] /\ dropped' = taken
  BY <1>0 DEF HostFetch, TypeOK
<1>3. bd[sie] # Free
  BY DEF HostFetch
<1>4. ASSUME ~taken PROVE PingPong' /\ NextFetched'
  <2>1. PingPong
    BY <1>1, <1>4 DEF BdInv
  <2>2. CASE OnePending /\ nextBd = oth /\ Current(bd[sie])
    <3>1. NonePending' /\ CurrentIn(buf', wire'.msg)
      BY <1>0, <1>1, <1>2, <2>2 DEF NonePending, OnePending, Current
    <3> QED BY <1>0, <1>1, <1>2, <2>2, <3>1 DEF PingPong, NextFetched, NonePending, Current
  <2>3. CASE BothPending /\ nextBd = sie /\ bd[oth] = Follow(bd[sie]) /\ Current(bd[oth])
    <3>1. OnePending' /\ CurrentIn(buf', bd'[oth])
      BY <1>0, <1>1, <1>2, <2>3 DEF BothPending, OnePending, Current
    <3> QED BY <1>0, <1>1, <1>2, <2>3, <3>1 DEF PingPong, NextFetched, OnePending, Current, Follow
  <2> QED BY <1>3, <2>1, <2>2, <2>3 DEF PingPong, NonePending
<1> QED BY <1>1, <1>2, <1>4 DEF BdInv

LEMMA BdInvStep == TypeInv /\ BdInv /\ [Next]_vars => BdInv'
<1> SUFFICES ASSUME TypeInv, BdInv, [Next]_vars PROVE BdInv'
  OBVIOUS
<1>0. TypeOK
  BY DEF TypeInv
<1>1. CASE USBDeviceTasks
  BY <1>1, BdInvKept DEF USBDeviceTasks
<1>2. ASSUME Interrupted, ClearDescriptors, sieBd' = 0, taken' => dropped',
             configured' => ~taken' /\ nextBd' = 0
      PROVE  BdInv'
  <2>1. NonePending'
    BY <1>2 DEF ClearDescriptors, Cleared, NonePending, Bds
  <2>2. ASSUME ~dropped' PROVE NextFetched'
    <3>1. ~dropped /\ bd[sieBd] = Free
      BY <1>0, <1>2, <2>2 DEF Interrupted, TypeOK
    <3>2. Current(wire.msg) /\ UNCHANGED <<buf, wire>>
      BY <1>2, <3>1 DEF BdInv, NextFetched, Interrupted
    <3> QED BY <2>1, <3>2 DEF NextFetched, NonePending, Current
  <2> QED BY <1>2, <2>1, <2>2 DEF BdInv, PingPong
<1>3. CASE SetConfiguration
  BY <1>2, <1>3 DEF SetConfiguration, ResetPingPong
<1>4. CASE Deconfigure
  BY <1>2, <1>4 DEF Deconfigure, Disarm, Interrupted, BdInv
<1>5. CASE Return \/ OutBusy \/ OutReady \/ PlayMessage \/ SendByte \/ MessageSent \/ RxOnePacket
  BY <1>5, BdInvKept
     DEF Return, OutBusy, OutReady, PlayMessage, SendByte, MessageSent, RxOnePacket
<1>6. CASE InJack
  BY <1>0, <1>6, BdInvInJack
<1>7. CASE HostFetch
  BY <1>0, <1>7, BdInvFetch
<1>8. ASSUME NEW k \in 0 .. OutSlots, NEW p \in [1 .. k -> Cins], HostFill(k, p) PROVE BdInv'
  BY <1>8, BdInvKept DEF HostFill
<1>9. ASSUME NEW received \in BOOLEAN, Frame(received) PROVE BdInv'
  BY <1>9, BdInvKept DEF Frame
<1>10. CASE UNCHANGED vars
  BY <1>10, BdInvKept DEF vars
<1> QED
  BY <1>1, <1>3, <1>4, <1>5, <1>6, <1>7, <1>8, <1>9, <1>10
     DEF Next, MainLoop, APP_DeviceAudioMIDITasks, Environment

LEMMA BdInvAlways == Spec => [](TypeInv /\ BdInv)
  BY TypeInvInit, TypeInvStep, BdInvInit, BdInvStep, PTL DEF Spec

\* While no descriptor has been taken from a pending packet, the stack's pointer and
\* the hardware's agree where they must.
THEOREM PingPongStaysInStep == Spec => []PingPongInStep
<1>1. TypeInv /\ BdInv => PingPongInStep
  <2> SUFFICES ASSUME TypeInv, BdInv, configured, ~taken, bd = Cleared PROVE nextBd = sieBd
    BY DEF PingPongInStep
  <2>1. bd[sieBd] = Free
    BY DEF TypeInv, TypeOK, Cleared
  <2> QED BY <2>1 DEF BdInv, PingPong, OnePending, BothPending
<1> QED BY <1>1, BdInvAlways, PTL

\* Steps that leave the descriptors and their pointers alone leave the step alone.
LEMMA StepKept ==
  ASSUME UNCHANGED <<bd, nextBd, sieBd>>
  PROVE  (InStep' <=> InStep) /\ nextBd' = nextBd
BY DEF InStep

\* The two ways to move them: of the descriptors it matters who is free.
LEMMA StepMoves ==
  ASSUME NEW b \in [Bds -> BOOLEAN], NEW n \in Bds, NEW s \in Bds
  PROVE  LET step(c, m, t) == m = t <=> (c[0] <=> c[1])
         IN  /\ ~b[s] => (step([b EXCEPT ![s] = TRUE], n, 1 - s) <=> step(b, n, s))
             /\ (step([b EXCEPT ![n] = FALSE], 1 - n, s) <=> step(b, n, s)) <=> b[n]
BY DEF Bds

\* StepByOvertaking: in every reachable state, of any host.
THEOREM StepLostByOvertaking == Spec => StepByOvertaking
<1> DEFINE free == [i \in Bds |-> bd[i] = Free]
           step(c, m, t) == m = t <=> (c[0] <=> c[1])
           Kept == (InStep' <=> InStep) <=> (nextBd' = nextBd \/ bd[nextBd] = Free)
<1>1. ASSUME TypeInv, [Next]_vars, ~Deconfigure
      PROVE  IF SetConfiguration THEN InStep' ELSE Kept
  <2>0. /\ nextBd \in Bds /\ sieBd \in Bds /\ bd \in [Bds -> Message \cup {Free}]
        /\ Free \notin Message /\ buf.msg \in Message /\ Ids \in Nat \ {0}
    BY <1>1, CountAssumption DEF TypeInv, TypeOK, Free, Message
  <2>1. ASSUME SetConfiguration PROVE InStep'
    BY <2>1 DEF SetConfiguration, ClearDescriptors, Cleared, ResetPingPong, InStep, Bds
  <2>2. ASSUME UNCHANGED <<bd, nextBd, sieBd>> PROVE Kept
    BY <2>2, StepKept
  <2>3. free \in [Bds -> BOOLEAN] /\ (InStep <=> step(free, nextBd, sieBd))
    BY <2>0 DEF InStep, Bds
  <2>4. ASSUME HostFetch PROVE Kept
    <3>1. bd' = [bd EXCEPT ![sieBd] = Free] /\ sieBd' = 1 - sieBd /\ nextBd' = nextBd
          /\ bd[sieBd] # Free
      BY <2>4 DEF HostFetch
    <3>2. InStep' <=> step([free EXCEPT ![sieBd] = TRUE], nextBd, 1 - sieBd)
      BY <2>0, <3>1 DEF InStep, Bds
    <3>3. ~free[sieBd]
      BY <2>0, <3>1
    <3> HIDE DEF free
    <3>4. step([free EXCEPT ![sieBd] = TRUE], nextBd, 1 - sieBd) <=> step(free, nextBd, sieBd)
      BY <2>0, <2>3, <3>3, StepMoves
    <3> QED BY <2>3, <3>1, <3>2, <3>4
  <2>5. ASSUME NEW m \in Message, USBTxOnePacket(m), UNCHANGED sieBd PROVE Kept
    <3>1. bd' = [bd EXCEPT ![nextBd] = m] /\ nextBd' = 1 - nextBd /\ sieBd' = sieBd
      BY <2>5 DEF USBTxOnePacket
    <3>2. InStep' <=> step([free EXCEPT ![nextBd] = FALSE], 1 - nextBd, sieBd)
      BY <2>0, <3>1 DEF InStep, Bds
    <3>3. free[nextBd] <=> bd[nextBd] = Free
      BY <2>0
    <3>4. nextBd' # nextBd
      BY <2>0, <3>1 DEF Bds
    <3> HIDE DEF free
    <3>5. (step([free EXCEPT ![nextBd] = FALSE], 1 - nextBd, sieBd) <=> step(free, nextBd, sieBd))
             <=> free[nextBd]
      BY <2>0, <2>3, StepMoves
    <3> QED BY <2>3, <3>2, <3>3, <3>4, <3>5
  <2>6. ASSUME InJack PROVE Kept
    <3>1. NextByte.msg \in Message
      BY <1>1, NextByteType DEF TypeInv
    <3>2. CASE UNCHANGED inVars
      BY <2>2, <3>2 DEF inVars
    <3>3. CASE Translate(NextByte.msg, NextByte.n) /\ UNCHANGED sieBd
      BY <2>2, <2>5, <3>1, <3>3 DEF Translate
    <3> QED BY <2>6, <3>2, <3>3 DEF InJack
  <2>7. HostFetch \/ InJack \/ SetConfiguration \/ UNCHANGED <<bd, nextBd, sieBd>>
    BY <1>1 DEF Next, MainLoop, APP_DeviceAudioMIDITasks, Environment, USBDeviceTasks,
         Return, OutBusy, OutReady, PlayMessage, SendByte, MessageSent, RxOnePacket, HostFill,
         Frame, vars, inVars
  <2>8. SetConfiguration \/ Kept
    BY <2>2, <2>4, <2>6, <2>7
  <2> HIDE DEF Kept
  <2> QED BY <2>1, <2>8
<1>2. TypeInv /\ [Next]_vars =>
        (~Deconfigure => IF SetConfiguration THEN InStep' ELSE Kept)
  BY <1>1
<1>3. Spec => []TypeInv
  BY TypeInvInit, TypeInvStep, PTL DEF Spec
<1> QED BY <1>2, <1>3, PTL DEF Spec, StepByOvertaking

\* The host fetches the messages in the order they were played, none twice and none
\* left out, unless a pending one was dropped; whatever the order of hand-overs,
\* fetches and new configurations.
THEOREM MessagesFetchedInOrder == Spec => FetchedInOrder
<1>1. TypeInv /\ BdInv /\ [Next]_vars => [wire' # wire /\ ~dropped => wire'.msg = (wire.msg + 1) % Ids]_vars
  <2> SUFFICES ASSUME TypeInv, BdInv, [Next]_vars, wire' # wire, ~dropped
               PROVE  wire'.msg = (wire.msg + 1) % Ids
    OBVIOUS
  <2>1. HostFetch
    BY DEF Next, MainLoop, APP_DeviceAudioMIDITasks, Environment, USBDeviceTasks, SetConfiguration,
           Deconfigure, Interrupted, Return, InJack, OutBusy, OutReady, PlayMessage, SendByte,
           MessageSent, RxOnePacket, HostFill, Frame, vars, inVars
  <2>2. bd[sieBd] = Follow(wire.msg) /\ wire'.msg = bd[sieBd]
    BY <2>1 DEF HostFetch, BdInv, NextFetched
  <2> QED BY <2>2 DEF Follow
<1> QED BY <1>1, BdInvAlways, PTL DEF Spec, FetchedInOrder

-----------------------------------------------------------------------------
(* What the host reads, and what the device plays.                         *)

\* Steps that leave ring, buffer and descriptors alone leave it up to date.
LEMMA UpToDateKept == UpToDate /\ UNCHANGED <<ring, buf, bd>> => UpToDate'
  BY DEF UpToDate, Pending

\* The translator: from the byte that waits to the next part of the message, or to a
\* packet that is the only one that waits and is in the buffer.
LEMMA UpToDateInJack ==
  ASSUME TypeInv, UpToDate, InJack
  PROVE  UpToDate'
<1>0. /\ N \in Nat \ {0} /\ MsgBytes \in Nat \ {0, 1} /\ ring \in 0 .. N + 1
      /\ bd \in [Bds -> Message \cup {Free}]
  BY CountAssumption DEF TypeInv, TypeOK
<1>1. CASE ring = 0
  BY <1>1, UpToDateKept DEF InJack, inVars
<1>2. CASE ring > 0
  <2>1. ring = 1 /\ \A i \in Bds : bd[i] = Free
    BY <1>0, <1>2 DEF UpToDate, Pending
  <2>2. Translate(NextByte.msg, NextByte.n) /\ (TakeByte \/ (buf.n = MsgBytes /\ ring' = ring))
    BY <1>2 DEF InJack
  <2>3. CASE NextByte.n = MsgBytes
    <3>1. buf.n # MsgBytes
      BY <1>0, <2>3 DEF NextByte
    <3>2. ring' = 0
      BY <1>0, <2>1, <2>2, <3>1 DEF TakeByte
    <3>3. bd' = [bd EXCEPT ![nextBd] = NextByte.msg] /\ buf' = Whole(NextByte.msg)
      BY <2>2, <2>3 DEF Translate, USBTxOnePacket, Whole
    <3>4. \A i \in Pending' : buf' = Whole(bd'[i])
      BY <1>0, <2>1, <3>3 DEF Pending
    <3> QED BY <3>2, <3>4 DEF UpToDate
  <2>4. CASE NextByte.n # MsgBytes
    <3>1. bd' = bd
      BY <2>2, <2>4 DEF Translate
    <3>2. ring' <= 1
      BY <1>0, <2>1, <2>2 DEF TakeByte
    <3>3. Pending' = {}
      BY <2>1, <3>1 DEF Pending
    <3> QED BY <3>2, <3>3 DEF UpToDate
  <2> QED BY <2>3, <2>4
<1> QED BY <1>0, <1>1, <1>2

\* Every other step frees descriptors or leaves them alone.
LEMMA UpToDateStep ==
  ASSUME TypeInv, UpToDate, ~CameEarly, [Next]_vars
  PROVE  UpToDate'
<1>0. ring \in Nat /\ N \in Nat /\ bd \in [Bds -> Message \cup {Free}]
  BY CountAssumption DEF TypeInv, TypeOK
<1>1. CASE SetConfiguration \/ Deconfigure
  <2>1. Pending' = {} /\ ring' = ring
    BY <1>1 DEF SetConfiguration, Deconfigure, Disarm, Interrupted, ClearDescriptors, Cleared, Pending
  <2> QED BY <1>0, <2>1 DEF UpToDate
<1>2. CASE HostFetch
  <2>1. UNCHANGED <<ring, buf>> /\ bd' = [bd EXCEPT ![sieBd] = Free]
    BY <1>2 DEF HostFetch
  <2>2. Pending' \subseteq Pending /\ \A i \in Pending' : bd'[i] = bd[i]
    BY <1>0, <2>1 DEF Pending
  <2> QED BY <2>1, <2>2 DEF UpToDate
<1>3. ASSUME NEW received \in BOOLEAN, Frame(received) PROVE UpToDate'
  <2>1. UNCHANGED <<buf, bd>> /\ ring' \in {ring, ring + 1}
    BY <1>3 DEF Frame, inVars
  <2>2. CASE ring' = ring
    BY <2>1, <2>2, UpToDateKept
  <2>3. CASE ring' = ring + 1
    <3>1. ring = 0 /\ Pending = {}
      BY <1>0, <2>3 DEF CameEarly
    <3> QED BY <2>1, <2>3, <3>1 DEF UpToDate, Pending
  <2> QED BY <2>1, <2>2, <2>3
<1>4. CASE \/ USBDeviceTasks \/ Return \/ OutBusy \/ OutReady \/ PlayMessage \/ SendByte
           \/ MessageSent \/ RxOnePacket
  BY <1>4, UpToDateKept
     DEF USBDeviceTasks, Return, OutBusy, OutReady, PlayMessage, SendByte, MessageSent, RxOnePacket,
         inVars
<1>5. ASSUME NEW k \in 0 .. OutSlots, NEW p \in [1 .. k -> Cins], HostFill(k, p) PROVE UpToDate'
  BY <1>5, UpToDateKept DEF HostFill, inVars
<1>6. CASE UNCHANGED vars
  BY <1>6, UpToDateKept DEF vars, inVars
<1> QED
  BY <1>1, <1>2, <1>3, <1>4, <1>5, <1>6, UpToDateInJack
     DEF Next, MainLoop, APP_DeviceAudioMIDITasks, Environment

\* Of any host: the four bytes handed over without a copy are still those of the
\* message when the host fetches them, until a byte comes in while the packet, or
\* another byte, waits.
THEOREM PacketsFetchedWhole == Spec => WireExact
<1>1. ASSUME TypeInv, UpToDate, HostFetch PROVE wire'.whole
  <2>1. sieBd \in Pending
    BY <1>1 DEF HostFetch, Pending, TypeInv, TypeOK
  <2>2. buf = Whole(bd[sieBd])
    BY <1>1, <2>1 DEF UpToDate
  <2> QED BY <1>1, <2>2 DEF HostFetch
<1>2. TypeInv /\ [Next]_vars =>
        [UpToDate /\ ~CameEarly => UpToDate' /\ (HostFetch => wire'.whole)]_vars
  BY <1>1, UpToDateStep
<1>3. Spec => []TypeInv
  BY TypeInvInit, TypeInvStep, PTL DEF Spec
<1> QED BY <1>2, <1>3, PTL DEF Spec, WireExact

\* In whatever place the loop is, what the host did not send is not in the buffer.
SlotsEmpty == ~stale => \A s \in OutSlot : s > new => out[s] = Zero

LEMMA SlotsEmptyStep == TypeInv /\ SlotsEmpty /\ [Next]_vars => SlotsEmpty'
<1> SUFFICES ASSUME TypeInv, SlotsEmpty, [Next]_vars PROVE SlotsEmpty'
  OBVIOUS
<1>1. CASE SetConfiguration \/ Deconfigure
  BY <1>1 DEF SetConfiguration, Deconfigure, Disarm, Interrupted, SlotsEmpty, Empty
<1>2. CASE RxOnePacket
  BY <1>2 DEF RxOnePacket, ClearBuffer, SlotsEmpty, Empty
<1>3. ASSUME NEW k \in 0 .. OutSlots, NEW p \in [1 .. k -> Cins], HostFill(k, p) PROVE SlotsEmpty'
  <2>1. new = 0 /\ \A s \in OutSlot : s > 0
    BY <1>3 DEF HostFill, TypeInv, PlayOK, OutSlot
  <2>2. \A s \in OutSlot : s > k => out'[s] = out[s]
    BY <1>3, CountAssumption DEF HostFill, OutSlot
  <2> QED BY <1>3, <2>1, <2>2 DEF HostFill, SlotsEmpty
<1>4. CASE UNCHANGED <<out, new, stale>>
  BY <1>4 DEF SlotsEmpty
<1> QED
  BY <1>1, <1>2, <1>3, <1>4
     DEF Next, MainLoop, APP_DeviceAudioMIDITasks, Environment, USBDeviceTasks, Return, InJack, OutBusy,
         OutReady, PlayMessage, SendByte, MessageSent, HostFetch, Frame, vars, outVars

\* A short OUT packet does not play the end of the one before it again.
THEOREM NothingPlayedTwice == Spec => []NothingStale
<1>1. Init => SlotsEmpty
  BY DEF Init, SlotsEmpty, Empty
<1>2. SlotsEmpty => NothingStale
  BY DEF SlotsEmpty, NothingStale
<1> QED BY <1>1, <1>2, TypeInvInit, TypeInvStep, SlotsEmptyStep, PTL DEF Spec

-----------------------------------------------------------------------------
(* The receive ring.                                                       *)

\* A whole OUT packet takes no more frames than the ring has slots, and the loop
\* makes at least three passes within a frame when it does not wait.
Roomy == N >= 3 * OutSlots /\ Passes >= 3

\* Frames until the OUT packet has been played, at most.
Ahead == left + 3 * (OutSlots - at) + (IF pc = "play" THEN 3 ELSE 0)

\* The ring is full only where a pass will take a byte before the next frame: the
\* first pass may leave it there (running status), the second does not.
IdleRoom ==
  ring = N =>
    IF pc = "out" THEN passed = 0 \/ (passed = 1 /\ buf.n # MsgBytes)
    ELSE passed <= 1 \/ (passed = 2 /\ buf.n # MsgBytes)

\* From the moment the OUT packet has been received at most one byte comes in.
FilledRoom == ring <= 1 /\ (ring = 1 => ~txBusy /\ passed = 0)

\* While the packet is played one byte comes in per frame, and one goes out.
PlayRoom ==
  /\ ring >= 1 => passed = 0
  /\ ring + Ahead <= N + 1
  /\ txBusy \/ passed = Passes => ring + Ahead <= N

RoomInv ==
  /\ ring <= N
  /\ ~configured => ring = 0
  /\ ~Playing /\ outArmed => IdleRoom
  /\ ~Playing /\ ~outArmed /\ configured => FilledRoom
  /\ Playing => PlayRoom

LEMMA RoomInvStep == Roomy /\ considerate /\ TypeInv /\ RoomInv /\ [Next]_vars => RoomInv'
<1> SUFFICES ASSUME Roomy, considerate, TypeInv, RoomInv, [Next]_vars PROVE RoomInv'
  OBVIOUS
<1>0. /\ N \in Nat /\ OutSlots \in Nat \ {0} /\ Passes \in Nat \ {0} /\ MsgBytes \in Nat \ {0, 1}
      /\ N >= 3 * OutSlots /\ N >= 3 /\ Passes >= 3
  BY CountAssumption DEF Roomy
<1>a. OutType /\ LoopType /\ PlayOK /\ TypeOK
  BY TypeParts DEF TypeInv
<1>b. ring \in 0 .. N + 1 /\ passed \in 0 .. Passes /\ at \in 1 .. OutSlots + 1 /\ left \in 0 .. 3
  BY <1>a DEF OutType, LoopType
<1> USE <1>0, <1>b
<1>1. CASE USBDeviceTasks
  BY <1>1 DEF USBDeviceTasks, RoomInv, Playing, IdleRoom, FilledRoom, inVars, outVars
<1>2. CASE SetConfiguration
  <2>1. pc = "usb" /\ pc' = "in" /\ configured' /\ outArmed' /\ UNCHANGED <<ring, buf, passed>>
    BY <1>2 DEF SetConfiguration, Interrupted
  <2>2. IdleRoom'
    <3>1. CASE outArmed
      BY <2>1, <3>1 DEF RoomInv, Playing, IdleRoom
    <3>2. CASE ~outArmed
      BY <2>1, <3>2 DEF RoomInv, Playing, FilledRoom, IdleRoom
    <3> QED BY <3>1, <3>2
  <2> QED BY <2>1, <2>2 DEF RoomInv, Playing
<1>3. CASE Deconfigure
  BY <1>3 DEF Deconfigure, Disarm, Interrupted, RoomInv, Playing
<1>4. CASE Return
  <2>1. ~outArmed /\ ~configured /\ ring = 0
    BY <1>4, <1>a DEF Return, PlayOK, RoomInv
  <2> QED BY <1>4, <2>1 DEF Return, EndPass, outVars, RoomInv, Playing
<1>5. CASE InJack
  <2>1. /\ pc = "in" /\ pc' = "out" /\ configured /\ configured'
        /\ UNCHANGED <<outArmed, passed, txBusy>>
    BY <1>5 DEF InJack, outVars
  <2>2. CASE ring = 0
    <3>1. ring' = 0
      BY <1>5, <2>2 DEF InJack
    <3> QED BY <2>1, <3>1 DEF RoomInv, Playing, IdleRoom, FilledRoom
  <2>3. CASE ring > 0
    <3>1. \/ ring' = ring - 1
          \/ buf.n = MsgBytes /\ buf'.n # MsgBytes /\ ring' = ring
      BY <1>5, <2>3 DEF InJack, TakeByte, Translate, NextByte, RoomInv
    <3>2. ~outArmed => FilledRoom'
      BY <2>1, <3>1 DEF RoomInv, Playing, FilledRoom
    <3>3. outArmed => IdleRoom'
      BY <2>1, <3>1 DEF RoomInv, Playing, IdleRoom
    <3> QED BY <2>1, <3>1, <3>2, <3>3 DEF RoomInv, Playing
  <2> QED BY <2>2, <2>3
<1>6. CASE OutBusy
  BY <1>6 DEF OutBusy, EndPass, RoomInv, Playing, IdleRoom, inVars, outVars
<1>7. CASE OutReady
  <2>1. at = 1 /\ left = 0 /\ configured /\ FilledRoom
    BY <1>7, <1>a DEF OutReady, PlayOK, Playing, RoomInv
  <2>2. pc' = "play" /\ UNCHANGED <<ring, at, left, txBusy, passed, outArmed, configured>>
    BY <1>7 DEF OutReady, outVars
  <2>3. Ahead' = 3 * OutSlots
    BY <2>1, <2>2 DEF Ahead
  <2>4. PlayRoom'
    BY <2>1, <2>2, <2>3 DEF FilledRoom, PlayRoom
  <2> QED BY <2>1, <2>2, <2>4 DEF RoomInv, FilledRoom, Playing
<1>8. CASE PlayMessage
  <2>1. at \in OutSlot
    BY <1>8 DEF PlayMessage, OutSlot
  <2>2. out[at] \in 0 .. 15
    <3>1. out[at] \in Cins \cup {Zero}
      BY <1>a, <2>1 DEF OutType
    <3>2. 0 \in 0 .. 15 /\ \A c \in 2 .. 15 : c \in 0 .. 15
      OBVIOUS
    <3> QED BY <3>1, <3>2, CinAssumption DEF Zero
  <2>3. left' \in 0 .. 3 /\ left = 0
    BY <1>8, <1>a, <2>2, LengthBound DEF PlayMessage, PlayOK
  <2>4. pc = "play" /\ pc' = "send" /\ UNCHANGED <<configured, ring, outArmed, at, txBusy, passed>>
    BY <1>8 DEF PlayMessage
  <2>5. PICK k \in Int : k = 3 * (OutSlots - at)
    OBVIOUS
  <2>6. /\ ring >= 1 => passed = 0
        /\ ring + k + 3 <= N + 1
        /\ txBusy \/ passed = Passes => ring + k + 3 <= N
    BY <2>3, <2>4, <2>5 DEF Ahead, RoomInv, PlayRoom, Playing
  <2>7. Ahead' = left' + k
    BY <2>3, <2>4, <2>5 DEF Ahead
  <2>8. \A l \in 0 .. 3 : /\ ring + (l + k) <= N + 1
                          /\ txBusy \/ passed = Passes => ring + (l + k) <= N
    BY <2>5, <2>6
  <2>9. /\ ring + (left' + k) <= N + 1
        /\ txBusy \/ passed = Passes => ring + (left' + k) <= N
    BY <2>3, <2>8
  <2>10. PlayRoom'
    BY <2>4, <2>6, <2>7, <2>9 DEF PlayRoom
  <2> QED BY <1>a, <2>4, <2>10 DEF RoomInv, Playing, PlayOK
<1>9. CASE SendByte
  <2>1. /\ pc = "send" /\ left' = left - 1 /\ left' \in 0 .. 3
        /\ UNCHANGED <<pc, configured, ring, outArmed, at, passed>>
    BY <1>9 DEF SendByte
  <2>2. Ahead' \in Int /\ Ahead \in Int /\ Ahead' = Ahead - 1
    BY <2>1 DEF Ahead
  <2>3. PlayRoom'
    BY <2>1, <2>2 DEF RoomInv, PlayRoom, Playing
  <2> QED BY <1>a, <2>1, <2>3 DEF RoomInv, Playing, PlayOK
<1>10. CASE MessageSent
  <2>1. /\ pc = "send" /\ pc' = "play" /\ left = 0 /\ at' = at + 1
        /\ UNCHANGED <<configured, ring, outArmed, left, txBusy, passed>>
    BY <1>10 DEF MessageSent
  <2>2. Ahead' \in Int /\ Ahead \in Int /\ Ahead' = Ahead
    BY <2>1 DEF Ahead
  <2>3. PlayRoom'
    BY <2>1, <2>2 DEF RoomInv, PlayRoom, Playing
  <2> QED BY <1>a, <2>1, <2>3 DEF RoomInv, Playing, PlayOK
<1>11. CASE RxOnePacket
  <2>1. /\ pc = "play" /\ pc' = "usb" /\ outArmed' /\ configured
        /\ passed' = IF passed < Passes THEN passed + 1 ELSE passed
        /\ UNCHANGED <<configured, ring>>
    BY <1>11, <1>a DEF RxOnePacket, EndPass, PlayOK
  <2>2. ring >= 1 => passed' = 1
    BY <2>1 DEF RoomInv, PlayRoom, Playing
  <2> QED BY <2>1, <2>2 DEF RoomInv, IdleRoom, Playing
<1>12. CASE HostFetch
  BY <1>12 DEF HostFetch, RoomInv, Playing, IdleRoom, FilledRoom, PlayRoom, Ahead, outVars
<1>13. ASSUME NEW k \in 0 .. OutSlots, NEW p \in [1 .. k -> Cins], HostFill(k, p) PROVE RoomInv'
  <2>1. outArmed /\ ring = 0 /\ UNCHANGED <<pc, ring, configured>> /\ ~Playing
    BY <1>13, <1>a DEF HostFill, PlayOK
  <2> QED BY <1>13, <2>1 DEF HostFill, RoomInv, Playing, FilledRoom
<1>14. ASSUME NEW received \in BOOLEAN, Frame(received) PROVE RoomInv'
  <2>1. /\ passed' = 0 /\ ~txBusy' /\ (ring' = ring \/ ring' = ring + 1)
        /\ UNCHANGED <<pc, configured, buf, outArmed, at, left>>
    BY <1>14 DEF Frame, inVars, outVars, RoomInv
  <2>2. passed = Passes \/ (pc = "send" /\ left > 0 /\ txBusy)
    BY <1>14 DEF Frame
  <2>3. ~configured => ring' = 0
    BY <1>14 DEF Frame, RoomInv
  <2>4. ASSUME Playing PROVE PlayRoom' /\ ring' <= N
    <3>1. PICK a \in Int : a = Ahead
      BY DEF Ahead
    <3>2. a = Ahead'
      BY <2>1, <3>1 DEF Ahead
    <3>a. ring + a <= N
      BY <2>2, <2>4, <3>1 DEF RoomInv, PlayRoom
    <3>3. PlayRoom'
      <4>1. ring' + a <= N + 1 /\ passed' # Passes
        BY <2>1, <3>1, <3>a
      <4> QED BY <2>1, <3>2, <4>1 DEF PlayRoom
    <3>4. CASE pc = "send" /\ left > 0
      <4>1. a >= 1
        BY <1>a, <3>1, <3>4 DEF Ahead, PlayOK
      <4> QED BY <2>1, <3>1, <3>3, <3>a, <4>1
    <3>5. CASE passed = Passes
      BY <2>1, <2>4, <3>3, <3>5 DEF RoomInv, PlayRoom
    <3> QED BY <2>2, <3>4, <3>5
  <2>5. ASSUME ~Playing, ~outArmed, configured PROVE FilledRoom' /\ ring' <= N
    BY <2>1, <2>2, <2>5 DEF RoomInv, FilledRoom, Playing
  <2>6. ASSUME ~Playing, outArmed PROVE IdleRoom' /\ ring' <= N
    BY <2>1, <2>2, <2>6 DEF RoomInv, IdleRoom, Playing
  <2>7. ~configured => ring' <= N
    BY <2>3
  <2> QED BY <2>1, <2>3, <2>4, <2>5, <2>6, <2>7 DEF RoomInv, Playing
<1>15. CASE UNCHANGED vars
  BY <1>15 DEF vars, RoomInv, Playing, IdleRoom, FilledRoom, PlayRoom, Ahead, inVars, outVars
<1> QED
  BY <1>1, <1>2, <1>3, <1>4, <1>5, <1>6, <1>7, <1>8, <1>9, <1>10, <1>11, <1>12, <1>13, <1>14, <1>15
     DEF Next, MainLoop, APP_DeviceAudioMIDITasks, Environment

LEMMA ConsiderateKept == [Next]_vars => considerate' = considerate
  BY DEF Next, MainLoop, APP_DeviceAudioMIDITasks, Environment, USBDeviceTasks, SetConfiguration,
         Deconfigure, Interrupted, Return, InJack, OutBusy, OutReady, PlayMessage, SendByte,
         MessageSent, RxOnePacket, HostFetch, HostFill, Frame, vars

\* One byte per frame comes in, and the loop stands still while it plays an OUT
\* packet: a ring with a slot for each byte of the largest packet is large enough.
THEOREM RingNeverOverrun == ASSUME Roomy PROVE Spec => []NoOverrun
<1> DEFINE Room == considerate => RoomInv
<1>1. Init => Room
  BY CountAssumption DEF Init, RoomInv, Playing, IdleRoom
<1>2. TypeInv /\ Room /\ [Next]_vars => Room'
  BY RoomInvStep, ConsiderateKept, Roomy
<1>3. Room => NoOverrun
  BY DEF RoomInv, NoOverrun
<1> QED BY <1>1, <1>2, <1>3, TypeInvInit, TypeInvStep, PTL DEF Spec
=============================================================================
