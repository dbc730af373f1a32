---------------------------- MODULE OutJack_proofs ----------------------------
(***************************************************************************)
(* Proofs about OutJack, for every set of events, every number of them in  *)
(* a USB packet, every ring size that is a multiple of four and every      *)
(* count width that is a multiple of the ring size.                        *)
(***************************************************************************)
EXTENDS OutJack, ModArithmetic, SequenceTheorems

LEMMA Sizes ==
  /\ N \in Nat \ {0} /\ W \in Nat \ {0} /\ Batch \in Nat \ {0}
  /\ \E k \in Nat : N = 4 * k
  /\ \E m \in Nat : W = m * N
  BY SizeAssumption

-----------------------------------------------------------------------------
(* Type correctness.                                                       *)

\* A USB packet is a sequence of events.
LEMMA UsbPacketSeq ==
  ASSUME TypeOK
  PROVE  /\ Len(usb) \in Nat
         /\ \A i \in 1 .. Len(usb) : usb[i] \in [0 .. 3 -> 0 .. 255]
<1>1. CASE usb = <<>>
  BY <1>1
<1>2. ASSUME NEW k \in 1 .. Batch, usb \in [1 .. k -> Event]
      PROVE  Len(usb) = k /\ \A i \in 1 .. k : usb[i] \in Event
  BY <1>2, Sizes
<1>3. CASE usb \in UsbPacket
  <2>1. PICK k \in 1 .. Batch : usb \in [1 .. k -> Event]
    BY <1>3 DEF UsbPacket
  <2>2. Len(usb) = k /\ \A i \in 1 .. k : usb[i] \in Event
    BY <1>2, <2>1
  <2>3. k \in Nat
    BY <2>1, Sizes
  <2> QED BY <2>2, <2>3, EventAssumption
<1> QED BY <1>1, <1>3 DEF TypeOK

LEMMA CopyRingType == TypeOK => CopyRing \in [Slot -> 0 .. 255]
<1> SUFFICES ASSUME TypeOK, NEW i \in Slot
             PROVE  (IF Offset(i) < Copied THEN usb[1 + Offset(i) \div 4][Offset(i) % 4] ELSE ring[i])
                      \in 0 .. 255
  BY DEF CopyRing
<1>1. ring[i] \in 0 .. 255
  BY DEF TypeOK
<1>2. ASSUME Offset(i) < Copied PROVE usb[1 + Offset(i) \div 4][Offset(i) % 4] \in 0 .. 255
  <2>1. Offset(i) \in Nat
    <3>1. i - wr \in Int
      BY Sizes DEF TypeOK, Slot
    <3> QED BY <3>1, Sizes, SMT DEF Offset
  <2>2. Len(usb) \in Nat /\ \A j \in 1 .. Len(usb) : usb[j] \in [0 .. 3 -> 0 .. 255]
    BY UsbPacketSeq
  <2> DEFINE o == Offset(i)
  <2>3. o \in Nat /\ o < 4 * Len(usb)
    BY <1>2, <2>1 DEF Copied
  <2> HIDE DEF o
  <2>4. 1 + o \div 4 \in 1 .. Len(usb) /\ o % 4 \in 0 .. 3
    BY <2>2, <2>3, SMT
  <2>5. usb[1 + o \div 4][o % 4] \in 0 .. 255
    BY <2>2, <2>4
  <2> QED BY <2>5 DEF o
<1> QED BY <1>1, <1>2

\* What the copy makes of the pointers and of the count.
LEMMA CopyTypes ==
  ASSUME TypeOK
  PROVE  Copied \in Nat /\ CopyWr \in Slot /\ CopyCount \in 0 .. W - 1
<1>1. wr \in Nat /\ count \in Nat /\ Len(usb) \in Nat
  <2>1. Len(usb) \in Nat
    BY UsbPacketSeq
  <2>2. wr \in Nat /\ count \in Nat
    BY Sizes DEF TypeOK, Slot
  <2> QED BY <2>1, <2>2
<1>2. Copied \in Nat
  BY <1>1 DEF Copied
<1>3. wr + Copied \in Nat /\ count + Copied \in Nat
  BY <1>1, <1>2
<1> QED BY <1>2, <1>3, Sizes, DivMod DEF CopyWr, CopyCount, Slot

\* The read pointer and the count after the byte at the read pointer is taken out.
LEMMA TakenTypes ==
  ASSUME TypeOK, CanSend
  PROVE  (rd + 1) % N \in Slot /\ (CopyCount - 1) % W \in 0 .. W - 1
<1>1. rd \in Nat /\ CopyCount \in Nat \ {0}
  <2>1. rd \in Nat
    BY Sizes DEF TypeOK, Slot
  <2>2. CopyCount \in 0 .. W - 1 /\ CopyCount # 0
    BY CopyTypes DEF CanSend
  <2> QED BY <2>1, <2>2, Sizes
<1>2. \A c \in Nat \ {0} : c - 1 \in Nat
  OBVIOUS
<1>3. rd + 1 \in Nat /\ CopyCount - 1 \in Nat
  BY <1>1, <1>2
<1> QED BY <1>3, Sizes, DivMod DEF Slot

LEMMA TypeInit == Init => TypeOK
<1> SUFFICES ASSUME Init PROVE TypeOK
  OBVIOUS
<1>1. 0 \in Slot /\ 0 \in 0 .. W - 1 /\ 0 \in 0 .. 255
  BY Sizes DEF Slot
<1>2. ring \in [Slot -> 0 .. 255]
  BY <1>1 DEF Init
<1>3. trmt \in BOOLEAN /\ spoiled \in BOOLEAN /\ odd \in BOOLEAN /\ usb \in UsbPacket \cup {<<>>}
  BY DEF Init
<1> QED BY <1>1, <1>2, <1>3 DEF Init, TypeOK

LEMMA TypeStep == TypeOK /\ [Next]_vars => TypeOK'
<1> SUFFICES ASSUME TypeOK, [Next]_vars PROVE TypeOK'
  OBVIOUS
<1>0. 0 \in Slot /\ 0 \in 0 .. W - 1
  BY Sizes DEF Slot
<1>1. ASSUME NEW p \in UsbPacket, Arrive(p) PROVE TypeOK'
  BY <1>1 DEF Arrive, ringVars, TypeOK
<1>2. CASE Shifted
  BY <1>2 DEF Shifted, ringVars, TypeOK
<1>3. CASE MIDI_Host_OutJackTasks
  <2>1. usb' \in UsbPacket \cup {<<>>} /\ ring' \in [Slot -> 0 .. 255]
    BY <1>3, CopyRingType DEF MIDI_Host_OutJackTasks, CopyPart
  <2>2. spoiled' \in BOOLEAN /\ odd' \in BOOLEAN
    BY <1>3 DEF MIDI_Host_OutJackTasks, CopyPart, TypeOK
  <2>3. CASE SendNothing
    BY <2>1, <2>2, <2>3, CopyTypes DEF SendNothing, TypeOK
  <2>4. CASE SendCin
    BY <2>1, <2>2, <2>4, CopyTypes, TakenTypes DEF SendCin, Gobble, TypeOK
  <2>5. CASE Flush
    BY <1>0, <2>1, <2>2, <2>5 DEF Flush, TypeOK
  <2>6. ASSUME CanSend, Gobble \/ Transmit, trs' \in 0 .. 255 PROVE TypeOK'
    BY <2>1, <2>2, <2>6, CopyTypes, TakenTypes DEF Gobble, Transmit, TypeOK
  <2>7. CASE SendStatus
    <3>1. CopyRing[rd] \in 0 .. 255 /\ trs \in 0 .. 255
      BY CopyRingType DEF TypeOK
    <3>2. trs' \in 0 .. 255
      BY <2>7, <3>1 DEF SendStatus
    <3> QED BY <2>6, <2>7, <3>2 DEF SendStatus
  <2>8. CASE SendRest
    BY <2>6, <2>8 DEF SendRest, TypeOK
  <2> QED BY <1>3, <2>3, <2>4, <2>5, <2>7, <2>8 DEF MIDI_Host_OutJackTasks
<1>4. CASE UNCHANGED vars
  BY <1>4 DEF vars, ringVars, TypeOK
<1> QED BY <1>1, <1>2, <1>3, <1>4 DEF Next

\* The pointers stay in the ring, the count in its eight bits, and all that is ever
\* copied, sent or remembered as running status is a byte.
THEOREM TypesHold == Spec => []TypeOK
  BY TypeInit, TypeStep, PTL DEF Spec

-----------------------------------------------------------------------------
(* Alignment.                                                              *)

\* The two conjuncts of GroupsAligned in terms of sums.
Aligned(r, c, w) == Congruent(N, r + c, w) /\ \E v \in Nat : w = 4 * v
SumAligned       == Aligned(rd, count, wr)

LEMMA AlignedIsSum == TypeOK => (GroupsAligned <=> SumAligned)
<1> SUFFICES ASSUME TypeOK PROVE GroupsAligned <=> SumAligned
  OBVIOUS
<1>1. rd + count \in Nat /\ wr \in 0 .. N - 1 /\ wr \in Nat
  BY Sizes DEF TypeOK, Slot
<1>2. (rd + count) % N = wr <=> Congruent(N, rd + count, wr)
  <2>1. ASSUME (rd + count) % N = wr PROVE Congruent(N, rd + count, wr)
    <3>1. Congruent(N, wr, rd + count)
      BY <1>1, <2>1, Sizes, CongruentMod
    <3> QED BY <1>1, <3>1, Sizes, CongruentSym
  <2>2. ASSUME Congruent(N, rd + count, wr) PROVE (rd + count) % N = wr
    BY <1>1, <2>2, Sizes, CongruentRemainder
  <2> QED BY <2>1, <2>2
<1>3. wr % 4 = 0 <=> \E v \in Nat : wr = 4 * v
  BY <1>1, SMT
<1> QED BY <1>2, <1>3 DEF GroupsAligned, SumAligned, Aligned

\* The copy moves write pointer w and count c by the same number of whole groups.
LEMMA CopySums ==
  ASSUME NEW r \in Nat, NEW c \in Nat, NEW w \in Nat, NEW l \in Nat,
         Aligned(r, c, w)
  PROVE  Aligned(r, (c + 4 * l) % W, (w + 4 * l) % N)
<1>1. PICK m \in Nat : W = m * N
  BY Sizes
<1>2. c + 4 * l \in Nat /\ w + 4 * l \in Nat
  OBVIOUS
<1>3. (c + 4 * l) % W \in Nat /\ (w + 4 * l) % N \in Nat
  BY <1>2, Sizes, ModType
<1>4. PICK c2 \in Nat : c2 = (c + 4 * l) % W
  BY <1>3
<1>5. PICK w2 \in Nat : w2 = (w + 4 * l) % N
  BY <1>3
<1>6. Congruent(N, c2, c + 4 * l)
  <2>1. Congruent(W, c2, c + 4 * l)
    BY <1>4, <1>2, Sizes, CongruentMod
  <2>2. c2 \in Int /\ c + 4 * l \in Int /\ N \in Nat /\ W \in Nat
    BY <1>4, <1>2, Sizes
  <2> QED BY <1>1, <2>1, <2>2, CongruentDivisor
<1>7. Congruent(N, w2, w + 4 * l) /\ Congruent(N, w + 4 * l, w2)
  <2>1. Congruent(N, w2, w + 4 * l)
    BY <1>5, <1>2, Sizes, CongruentMod
  <2> QED BY <1>5, <1>2, <2>1, Sizes, CongruentSym
<1>8. Congruent(N, r + c2, w2)
  <2>1. PICK i \in Int : r + c = w + i * N
    BY DEF Aligned, Congruent
  <2>2. PICK j \in Int : c2 = (c + 4 * l) + j * N
    BY <1>6 DEF Congruent
  <2>3. PICK k \in Int : w + 4 * l = w2 + k * N
    BY <1>7 DEF Congruent
  <2>4. r + c2 = w2 + (i * N + j * N + k * N) /\ i + j + k \in Int
    <3>1. c2 \in Int /\ w2 \in Int /\ i * N \in Int /\ j * N \in Int /\ k * N \in Int
      BY <1>4, <1>5, <2>1, <2>2, <2>3, Sizes
    <3> QED BY <2>1, <2>2, <2>3, <3>1
  <2>5. (i + j + k) * N = i * N + j * N + k * N
    BY <2>1, <2>2, <2>3, Sizes, Distribute3
  <2> QED BY <2>4, <2>5 DEF Congruent
<1>9. \E v \in Nat : w2 = 4 * v
  <2>1. PICK k \in Nat : N = 4 * k
    BY Sizes
  <2>2. PICK u \in Nat : w = 4 * u
    BY DEF Aligned
  <2>3. PICK q \in Int : w2 = (w + 4 * l) + q * N
    BY <1>7 DEF Congruent
  <2>4. w2 = 4 * (u + l + q * k) /\ u + l + q * k \in Int
    BY <1>5, <2>1, <2>2, <2>3
  <2>5. u + l + q * k \in Nat
    BY <1>5, <2>4
  <2> QED BY <2>4, <2>5
<1> QED BY <1>4, <1>5, <1>8, <1>9 DEF Aligned

\* A byte taken out moves read pointer r and count c by one, against each other.
LEMMA TakenSums ==
  ASSUME NEW r \in Nat, NEW c \in Nat \ {0}, NEW w \in Nat, Aligned(r, c, w)
  PROVE  Aligned((r + 1) % N, (c - 1) % W, w)
<1>1. PICK m \in Nat : W = m * N
  BY Sizes
<1>2. r + 1 \in Nat /\ c - 1 \in Nat
  OBVIOUS
<1>3. (r + 1) % N \in Nat /\ (c - 1) % W \in Nat
  BY <1>2, Sizes, ModType
<1>4. PICK r2 \in Nat : r2 = (r + 1) % N
  BY <1>3
<1>5. PICK c2 \in Nat : c2 = (c - 1) % W
  BY <1>3
<1>6. Congruent(N, r2, r + 1)
  BY <1>2, <1>4, Sizes, CongruentMod
<1>7. Congruent(N, c2, c - 1)
  <2>1. Congruent(W, c2, c - 1)
    BY <1>2, <1>5, Sizes, CongruentMod
  <2>2. c2 \in Int /\ c - 1 \in Int /\ N \in Nat /\ W \in Nat
    BY <1>2, <1>5, Sizes
  <2> QED BY <1>1, <2>1, <2>2, CongruentDivisor
<1>8. PICK i \in Int : r + c = w + i * N
  BY DEF Aligned, Congruent
<1>9. PICK j \in Int : r2 = (r + 1) + j * N
  BY <1>6 DEF Congruent
<1>10. PICK k \in Int : c2 = (c - 1) + k * N
  BY <1>7 DEF Congruent
<1>11. r2 + c2 = w + (i * N + j * N + k * N) /\ i + j + k \in Int
  <2>1. c2 \in Int /\ r2 \in Int /\ i * N \in Int /\ j * N \in Int /\ k * N \in Int
    BY <1>4, <1>5, <1>8, <1>9, <1>10, Sizes
  <2> QED BY <1>8, <1>9, <1>10, <2>1
<1>12. (i + j + k) * N = i * N + j * N + k * N
  BY <1>8, <1>9, <1>10, Sizes, Distribute3
<1>13. Congruent(N, r2 + c2, w)
  BY <1>11, <1>12 DEF Congruent
<1> QED BY <1>4, <1>5, <1>13 DEF Aligned

LEMMA CopyAligned ==
  ASSUME TypeOK, SumAligned
  PROVE  Aligned(rd, CopyCount, CopyWr)
<1>1. rd \in Nat /\ count \in Nat /\ wr \in Nat /\ Len(usb) \in Nat
  BY UsbPacketSeq, Sizes DEF TypeOK, Slot
<1>2. Aligned(rd, count, wr)
  BY DEF SumAligned
<1>3. Aligned(rd, (count + 4 * Len(usb)) % W, (wr + 4 * Len(usb)) % N)
  BY <1>1, <1>2, CopySums
<1> QED BY <1>3 DEF CopyCount, CopyWr, Copied

LEMMA TakenAligned ==
  ASSUME TypeOK, SumAligned, CanSend
  PROVE  Aligned((rd + 1) % N, (CopyCount - 1) % W, CopyWr)
<1>1. /\ \A i \in Slot : i \in Nat
      /\ \A i \in 0 .. W - 1 : i \in Nat
  BY Sizes DEF Slot
<1>2. CopyCount \in Nat \ {0} /\ CopyWr \in Nat /\ rd \in Nat
  BY <1>1, CopyTypes DEF TypeOK, CanSend
<1> QED BY <1>2, CopyAligned, TakenSums

LEMMA AlignedStep == TypeOK /\ SumAligned /\ [Next]_vars => SumAligned'
<1> SUFFICES ASSUME TypeOK, SumAligned, [Next]_vars PROVE SumAligned'
  OBVIOUS
<1>1. CASE UNCHANGED ringVars
  BY <1>1 DEF ringVars, SumAligned
<1>2. CASE MIDI_Host_OutJackTasks
  <2>1. CASE SendNothing
    BY <2>1, CopyAligned DEF SendNothing, SumAligned
  <2>2. CASE Flush
    <3>1. Congruent(N, 0 + 0, 0) /\ 0 = 4 * 0
      BY Sizes, CongruentRefl
    <3> QED BY <2>2, <3>1 DEF Flush, SumAligned, Aligned
  <2>3. ASSUME CanSend, Gobble \/ Transmit PROVE SumAligned'
    <3>1. rd' = (rd + 1) % N /\ count' = (CopyCount - 1) % W /\ wr' = CopyWr
      BY <2>3 DEF Gobble, Transmit
    <3> QED BY <2>3, <3>1, CopyAligned, TakenAligned DEF SumAligned
  <2> QED
    BY <1>2, <2>1, <2>2, <2>3 DEF MIDI_Host_OutJackTasks, SendCin, SendStatus, SendRest
<1> QED BY <1>1, <1>2 DEF Next, Arrive, Shifted, vars

\* However far the ring is overrun, however often the count wraps and whenever the
\* ring is flushed, the code index numbers stay where the code looks for them.
THEOREM GroupsStayAligned == Spec => []GroupsAligned
<1>1. Init => TypeOK /\ SumAligned
  <2>1. Congruent(N, 0 + 0, 0) /\ 0 = 4 * 0
    BY Sizes, CongruentRefl
  <2> QED BY <2>1, TypeInit DEF Init, SumAligned, Aligned
<1>2. TypeOK /\ SumAligned => GroupsAligned
  BY AlignedIsSum
<1> QED BY <1>1, <1>2, TypeStep, AlignedStep, PTL DEF Spec
-----------------------------------------------------------------------------
(* What is heard.  Until something spoils it, the ring holds the bytes of  *)
(* the events that are due, from the group the read pointer is in, and     *)
(* the receiver stands where the read pointer is in that group.            *)

\* What USB MIDI prescribes of an event that fills its packet.
WellFormed(e) ==
  /\ DataBytes(e[1]) = 2 /\ CodeIndex(e[1]) = e[0]
  /\ ~IsStatus(e[2]) /\ ~IsStatus(e[3])

LegalEvents == \A e \in Event : ThreeByte(e) => WellFormed(e)

\* Events that may be due.
Queue(q) ==
  /\ q \in Seq(Event)
  /\ \A k \in 1 .. Len(q) : ThreeByte(q[k])
  /\ 4 * Len(q) <= N

\* Ring r holds the events q from slot b on.
Holds(r, b, q) ==
  \A i \in Slot :
    (i - b) % N < 4 * Len(q) => r[i] = q[1 + ((i - b) % N) \div 4][((i - b) % N) % 4]

IsReader(r) ==
  \E m, u, x, d, f : r = [msg |-> m, run |-> u, sx |-> x, due |-> d, fresh |-> f]

\* Receiver r between two messages, or in the first event of q, of which ph - 1
\* bytes were sent or left out; t is the status byte sent last.
Listens(r, t, ph, q) ==
  /\ IsReader(r)
  /\ r.run = (IF IsChannel(t) THEN t ELSE 0) /\ r.sx = FALSE /\ r.due = NoPacket
  /\ ph \in {0, 1} => r.msg = <<>>
  /\ ph = 2 => /\ t = q[1][1]
               /\ r.msg = <<t>> \/ (r.msg = <<>> /\ IsChannel(t))
  /\ ph = 3 => r.msg = <<q[1][1], q[1][2]>>

\* Pointers, ring and receiver agree on what is due: q is due, r is in the ring, c is
\* the count, p the read pointer.
Agree(q, r, c, p, l, t) ==
  /\ Queue(q)
  /\ c = 4 * Len(q) - (p % 4)
  /\ p % 4 # 0 => q # <<>>
  /\ Holds(r, p - (p % 4), q)
  /\ Listens(l, t, p % 4, q)

Exact == ~spoiled /\ ~odd => Agree(owed, ring, count, rd, reader, trs)

LEMMA UsbEvents ==
  ASSUME TypeOK
  PROVE  usb \in Seq(Event)
<1>1. CASE usb = <<>>
  BY <1>1
<1>2. CASE usb \in UsbPacket
  <2>1. PICK k \in 1 .. Batch : usb \in [1 .. k -> Event]
    BY <1>2 DEF UsbPacket
  <2>2. k \in Nat
    BY <2>1, Sizes
  <2> QED BY <2>1, <2>2
<1> QED BY <1>1, <1>2 DEF TypeOK

\* The first slot of the group of slot p.
LEMMA GroupBase ==
  ASSUME NEW p \in Slot
  PROVE  /\ p % 4 \in 0 .. 3 /\ p - (p % 4) \in Slot
         /\ (p - (p % 4)) + 4 <= N
         /\ (p - (p % 4)) % 4 = 0
<1>1. PICK k \in Nat : N = 4 * k
  BY Sizes
<1>2. p \in Nat /\ p < 4 * k
  BY <1>1 DEF Slot
<1>3. /\ p % 4 \in 0 .. 3 /\ p - (p % 4) \in 0 .. p
      /\ (p - (p % 4)) + 4 <= 4 * k
      /\ (p - (p % 4)) % 4 = 0
  BY <1>2, SMT
<1> QED BY <1>1, <1>2, <1>3 DEF Slot

\* The byte of the group's slot number j.
LEMMA FirstEvent ==
  ASSUME NEW q, Queue(q), q # <<>>, NEW b \in Slot, b + 4 <= N, NEW r, Holds(r, b, q),
         NEW j \in 0 .. 3
  PROVE  r[b + j] = q[1][j]
<1>1. b \in 0 .. N - 1 /\ N \in Nat \ {0} /\ b + j \in 0 .. N - 1
  BY Sizes DEF Slot
<1>2. ((b + j) - b) % N = j
  <2>1. ((b + j) - b) % N = (b + j) - b
    BY <1>1, ModDifference
  <2> QED BY <1>1, <2>1
<1>3. Len(q) \in Nat \ {0}
  BY DEF Queue
<1>4. j < 4 * Len(q) /\ 1 + (j \div 4) = 1 /\ j % 4 = j
  BY <1>3, SMT
<1>5. b + j \in Slot
  BY <1>1 DEF Slot
<1>6. r[b + j] = q[1 + (j \div 4)][j % 4]
  BY <1>2, <1>4, <1>5 DEF Holds
<1> QED BY <1>4, <1>6

\* The copy appends the events of the USB packet.
LEMMA CopyAppends ==
  ASSUME TypeOK, GroupsAligned, N < W, Agree(owed, ring, count, rd, reader, trs),
         count + Copied <= N, \A i \in 1 .. Len(usb) : ThreeByte(usb[i])
  PROVE  Agree(owed \o usb, CopyRing, CopyCount, rd, reader, trs)
<1> DEFINE q  == owed \o usb
           ph == rd % 4
           b  == rd - (rd % 4)
           K  == Len(owed)
           L  == Len(usb)
<1>1. usb \in Seq(Event) /\ owed \in Seq(Event)
  BY UsbEvents DEF Agree, Queue
<1>2. rd \in Slot /\ wr \in Slot /\ count \in Nat /\ N \in Nat \ {0} /\ W \in Nat \ {0}
  BY Sizes DEF TypeOK
<1>3. ph \in 0 .. 3 /\ b \in Slot
  BY <1>2, GroupBase
<1>4. K \in Nat /\ L \in Nat /\ count = 4 * K - ph /\ Copied = 4 * L /\ rd = b + ph
  BY <1>1, <1>2, <1>3 DEF Agree, Copied, Slot
<1>5. /\ q \in Seq(Event) /\ Len(q) = K + L
      /\ \A k \in 1 .. K : q[k] = owed[k]
      /\ \A k \in 1 .. L : q[K + k] = usb[k]
  BY <1>1
<1> HIDE DEF q, ph, b, K, L
<1>6. 4 * (K + L) <= N
  <2>1. PICK k \in Nat : N = 4 * k
    BY Sizes
  <2> QED BY <1>3, <1>4, <2>1
<1>7. Queue(q)
  <2>1. ASSUME NEW k \in 1 .. Len(q) PROVE ThreeByte(q[k])
    <3>1. CASE k <= K
      BY <1>4, <1>5, <3>1 DEF Agree, Queue, K
    <3>2. CASE ~(k <= K)
      <4>1. k - K \in 1 .. L /\ k = K + (k - K)
        BY <1>4, <1>5, <3>2
      <4> QED BY <1>5, <4>1 DEF L
    <3> QED BY <3>1, <3>2
  <2> QED BY <1>5, <1>6, <2>1 DEF Queue
<1>8. CopyCount = 4 * Len(q) - ph
  <2>1. count + Copied \in 0 .. W - 1
    BY <1>2, <1>4
  <2>2. CopyCount = count + Copied
    BY <1>2, <2>1, ModSmall DEF CopyCount
  <2> QED BY <1>3, <1>4, <1>5, <2>2
<1>9. ph # 0 => q # <<>>
  <2>1. ph # 0 => owed # <<>>
    BY DEF Agree, ph
  <2>2. ph # 0 => K > 0
    BY <1>1, <2>1 DEF K
  <2>3. q = <<>> => Len(q) = 0
    OBVIOUS
  <2> QED BY <1>4, <1>5, <2>2, <2>3
<1>10. wr = (b + 4 * K) % N
  <2>1. rd + count = b + 4 * K
    BY <1>2, <1>3, <1>4 DEF Slot
  <2> QED BY <2>1 DEF GroupsAligned
<1>11. ASSUME NEW i \in Slot, (i - b) % N < 4 * Len(q)
       PROVE  CopyRing[i] = q[1 + ((i - b) % N) \div 4][((i - b) % N) % 4]
  <2> DEFINE o == (i - b) % N
             u == Offset(i)
  <2>1. /\ o \in 0 .. N - 1
        /\ u = IF o >= 4 * K THEN o - 4 * K ELSE (o - 4 * K) + N
    <3>1. i \in 0 .. N - 1 /\ b \in 0 .. N - 1 /\ 4 * K \in 0 .. N /\ N \in Nat \ {0}
      BY <1>2, <1>3, <1>4, <1>6 DEF Slot
    <3>2. /\ (i - b) % N \in 0 .. N - 1
          /\ (i - ((b + 4 * K) % N)) % N =
               IF (i - b) % N >= 4 * K THEN ((i - b) % N) - 4 * K
               ELSE (((i - b) % N) - 4 * K) + N
      BY <3>1, ModShift
    <3> QED BY <1>10, <3>2 DEF Offset
  <2>2. o < 4 * (K + L)
    BY <1>5, <1>11
  <2>3. CopyRing[i] = IF u < 4 * L THEN usb[1 + u \div 4][u % 4] ELSE ring[i]
    BY <1>4 DEF CopyRing
  <2>4. o < 4 * K => ring[i] = owed[1 + o \div 4][o % 4]
    BY DEF Agree, Holds, K, b
  <2> HIDE DEF o, u
  <2>5. CASE o >= 4 * K
    <3>1. /\ u < 4 * L /\ u % 4 = o % 4
          /\ 1 + u \div 4 \in 1 .. L /\ 1 + o \div 4 = K + (1 + u \div 4)
      BY <1>4, <2>1, <2>2, <2>5, SMT
    <3>2. q[1 + o \div 4] = usb[1 + u \div 4]
      BY <1>5, <3>1
    <3> QED BY <2>3, <3>1, <3>2 DEF o
  <2>6. CASE o < 4 * K
    <3>1. ~(u < 4 * L) /\ 1 + o \div 4 \in 1 .. K
      BY <1>2, <1>4, <1>6, <2>1, <2>6, SMT
    <3>2. q[1 + o \div 4] = owed[1 + o \div 4]
      BY <1>5, <3>1
    <3> QED BY <2>3, <2>4, <2>6, <3>1, <3>2 DEF o
  <2> QED BY <1>2, <1>4, <2>1, <2>5, <2>6
<1>12. Listens(reader, trs, ph, q)
  <2>1. Listens(reader, trs, ph, owed)
    BY DEF Agree, ph
  <2>2. ph \in {2, 3} => q[1] = owed[1]
    <3>1. ph \in {2, 3} => owed # <<>>
      BY DEF Agree, ph
    <3>2. ph \in {2, 3} => K > 0
      BY <1>1, <3>1 DEF K
    <3> QED BY <1>4, <1>5, <3>2
  <2> QED BY <2>1, <2>2 DEF Listens
<1> QED
  BY <1>7, <1>8, <1>9, <1>11, <1>12 DEF Agree, Holds, q, ph, b
\* What the status byte of a three-byte message can be.
LEMMA StatusOf ==
  ASSUME NEW s \in 0 .. 255, DataBytes(s) = 2
  PROVE  IsStatus(s) /\ s < 248 /\ s # SysExStart /\ s # SysExEnd /\ s # TuneRequest
<1>1. HighNibble(s) \in {8, 9, 10, 11, 14} \/ s = 242
  BY DEF DataBytes, SongPosition, QuarterFrame, SongSelect
<1>2. CASE s = 242
  BY <1>2 DEF IsStatus, SysExStart, SysExEnd, TuneRequest
<1>3. CASE HighNibble(s) \in {8, 9, 10, 11, 14}
  <2>1. s \in 128 .. 239
    BY <1>3, SMT DEF HighNibble
  <2> QED BY <2>1 DEF IsStatus, SysExStart, SysExEnd, TuneRequest
<1> QED BY <1>1, <1>2, <1>3

\* An event that is due, byte by byte.
Due(e) ==
  /\ e \in [0 .. 3 -> 0 .. 255] /\ e # NoPacket
  /\ DataBytes(e[1]) = 2 /\ CodeIndex(e[1]) = e[0]
  /\ e[1] \in 0 .. 255 /\ e[2] \in 0 .. 255 /\ e[3] \in 0 .. 255
  /\ e[2] < 128 /\ e[3] < 128

LEMMA DueEvent ==
  ASSUME LegalEvents,
         NEW q, Queue(q), q # <<>>
  PROVE  Due(q[1])
<1>1. Len(q) \in Nat \ {0} /\ q[1] \in Event
  BY DEF Queue
<1>2. ThreeByte(q[1])
  BY <1>1 DEF Queue
<1>3. WellFormed(q[1]) /\ q[1] \in [0 .. 3 -> 0 .. 255] /\ q[1] # NoPacket
  BY <1>1, <1>2, EventAssumption DEF LegalEvents
<1>4. q[1][1] \in 0 .. 255 /\ q[1][2] \in 0 .. 255 /\ q[1][3] \in 0 .. 255
  <2>1. \A e \in [0 .. 3 -> 0 .. 255] :
          e[1] \in 0 .. 255 /\ e[2] \in 0 .. 255 /\ e[3] \in 0 .. 255
    OBVIOUS
  <2> QED BY <1>3, <2>1, Zenon
<1>5. q[1][2] < 128 /\ q[1][3] < 128
  <2>1. \A b \in 0 .. 255 : ~IsStatus(b) => b < 128
    BY DEF IsStatus
  <2> QED BY <1>3, <1>4, <2>1, Zenon DEF WellFormed
<1> QED BY <1>3, <1>4, <1>5, Zenon DEF WellFormed, Due

\* The receiver's record, and the receiver when its event was taken from it.
LEMMA FeedReader ==
  ASSUME NEW l, NEW b
  PROVE  IsReader(FeedStatus(l, b)) /\ IsReader(FeedData(l, b))
<1>1. IsReader(FeedStatus(l, b))
  BY Zenon DEF IsReader, FeedStatus
<1>2. IsReader(FeedData(l, b))
  BY Zenon DEF IsReader, FeedData
<1> QED BY <1>1, <1>2

LEMMA DueTaken ==
  ASSUME NEW r, IsReader(r), NEW p
  PROVE  /\ IsReader([r EXCEPT !.due = p])
         /\ [r EXCEPT !.due = p].msg = r.msg
         /\ [r EXCEPT !.due = p].run = r.run
         /\ [r EXCEPT !.due = p].sx = r.sx
         /\ [r EXCEPT !.due = p].due = p
<1>1. PICK m, u, x, d, f : r = [msg |-> m, run |-> u, sx |-> x, due |-> d, fresh |-> f]
  BY DEF IsReader
<1>2. [r EXCEPT !.due = p] = [msg |-> m, run |-> u, sx |-> x, due |-> p, fresh |-> f]
  BY <1>1
<1>3. IsReader([r EXCEPT !.due = p])
  BY <1>2, Zenon DEF IsReader
<1> QED BY <1>1, <1>2, <1>3

LEMMA Appended ==
  ASSUME NEW a \in Nat, NEW b \in Nat, NEW c \in Nat
  PROVE  Append(<<a>>, b) = <<a, b>> /\ Append(<<a, b>>, c) = <<a, b, c>>
<1> DEFINE s == Append(<<a>>, b)
           t == <<a, b>>
           u == Append(<<a, b>>, c)
           v == <<a, b, c>>
<1>1. s \in Seq(Nat) /\ Len(s) = 2 /\ s[1] = a /\ s[2] = b
  OBVIOUS
<1>2. t \in Seq(Nat) /\ Len(t) = 2 /\ t[1] = a /\ t[2] = b
  OBVIOUS
<1>3. u \in Seq(Nat) /\ Len(u) = 3 /\ u[1] = a /\ u[2] = b /\ u[3] = c
  OBVIOUS
<1>4. v \in Seq(Nat) /\ Len(v) = 3 /\ v[1] = a /\ v[2] = b /\ v[3] = c
  OBVIOUS
<1> HIDE DEF s, t, u, v
<1>5. \A i \in 1 .. Len(s) : s[i] = t[i]
  BY <1>1, <1>2
<1>6. \A i \in 1 .. Len(u) : u[i] = v[i]
  BY <1>3, <1>4
<1>7. s = t
  BY <1>1, <1>2, <1>5, SeqEqual
<1>8. u = v
  BY <1>3, <1>4, <1>6, SeqEqual
<1> QED BY <1>7, <1>8 DEF s, t, u, v

\* The receiver hears the status byte ...
LEMMA HearsStatus ==
  ASSUME LegalEvents, NEW q, Queue(q), q # <<>>, NEW l, NEW t, Listens(l, t, 1, q)
  PROVE  /\ Feed(l, q[1][1]).due = NoPacket
         /\ Listens([Feed(l, q[1][1]) EXCEPT !.due = NoPacket], q[1][1], 2, q)
<1> DEFINE s == q[1][1]
           f == FeedStatus(l, s)
<1>1. s \in 0 .. 255 /\ DataBytes(s) = 2
  BY DueEvent DEF Due
<1>2. s = q[1][1]
  OBVIOUS
<1> HIDE DEF s
<1>3. IsStatus(s) /\ s < 248 /\ ~(s = SysExStart) /\ ~(s = SysExEnd) /\ ~(s = TuneRequest)
  BY <1>1, StatusOf
<1>4. ~IsRealTime(s)
  BY <1>1, <1>3 DEF IsRealTime
<1>5. Feed(l, s) = f
  BY <1>3, <1>4 DEF Feed
<1>6. DataBytes(s) > 0
  BY <1>1
<1>7. /\ f.msg = <<s>> /\ f.run = (IF IsChannel(s) THEN s ELSE 0)
      /\ f.sx = FALSE /\ f.due = NoPacket
  BY <1>3, <1>6 DEF FeedStatus
<1>8. IsReader(f)
  BY FeedReader
<1> HIDE DEF f
<1> DEFINE g == [f EXCEPT !.due = NoPacket]
<1>9. /\ IsReader(g) /\ g.msg = <<s>> /\ g.run = (IF IsChannel(s) THEN s ELSE 0)
      /\ g.sx = FALSE /\ g.due = NoPacket
  BY <1>7, <1>8, DueTaken
<1> HIDE DEF g
<1>10. Listens(g, s, 2, q)
  BY <1>2, <1>9 DEF Listens
<1> QED BY <1>5, <1>7, <1>10 DEF g, s

\* ... or does without it, when it is the running status ...
LEMMA MissesStatus ==
  ASSUME NEW q, NEW l, NEW t, Listens(l, t, 1, q), t = q[1][1], IsChannel(t)
  PROVE  Listens(l, t, 2, q)
  BY DEF Listens

\* ... then the first data byte ...
LEMMA HearsData ==
  ASSUME LegalEvents, NEW q, Queue(q), q # <<>>, NEW l, NEW t, Listens(l, t, 2, q)
  PROVE  /\ Feed(l, q[1][2]).due = NoPacket
         /\ Listens([Feed(l, q[1][2]) EXCEPT !.due = NoPacket], t, 3, q)
<1> DEFINE d == q[1][2]
           f == FeedData(l, d)
           start == IF l.msg # <<>> \/ l.sx \/ l.run = 0 THEN l.msg ELSE <<l.run>>
<1>1. d \in 0 .. 255 /\ d < 128 /\ t \in 0 .. 255 /\ DataBytes(t) = 2 /\ t = q[1][1]
  <2>1. t = q[1][1]
    BY DEF Listens
  <2>2. Due(q[1])
    BY DueEvent
  <2> QED BY <2>1, <2>2 DEF Due
<1>2. d = q[1][2]
  OBVIOUS
<1>3. /\ l.msg = <<t>> \/ (l.msg = <<>> /\ IsChannel(t))
      /\ l.run = (IF IsChannel(t) THEN t ELSE 0)
      /\ l.sx = FALSE
  BY DEF Listens
<1>4. IsChannel(t) => t # 0
  BY DEF IsChannel
<1>5. start = <<t>>
  BY <1>3, <1>4
<1> HIDE DEF d
<1>6. Feed(l, d) = f
  <2>1. \A b \in 0 .. 255 : b < 128 => ~IsRealTime(b) /\ ~IsStatus(b)
    BY DEF IsRealTime, IsStatus
  <2>2. ~IsRealTime(d) /\ ~IsStatus(d)
    BY <1>1, <2>1, Zenon
  <2> QED BY <2>2, Zenon DEF Feed
<1> HIDE DEF start
<1>7. Append(<<t>>, d) = <<t, d>>
  <2>1. \A b \in 0 .. 255 : b \in Nat
    OBVIOUS
  <2>2. t \in Nat /\ d \in Nat
    BY <1>1, <2>1, Zenon
  <2> QED BY <2>2, Appended, Zenon
<1>8. Append(start, d) = <<t, d>> /\ Len(Append(start, d)) = 2 /\ start[1] = t /\ start # <<>>
  BY <1>5, <1>7
<1> DEFINE mm   == Append(start, d)
           full == IF l.sx THEN Len(mm) = 3
                   ELSE start # <<>> /\ Len(mm) = 1 + DataBytes(start[1])
<1>9. ~full /\ ~(start = <<>> /\ ~l.sx)
  BY <1>1, <1>3, <1>8
<1>10. f = [msg |-> IF full \/ (start = <<>> /\ ~l.sx) THEN <<>> ELSE mm, run |-> l.run,
           sx |-> l.sx,
           due |-> IF full THEN EventPacket(IF l.sx THEN 4 ELSE CodeIndex(mm[1]), mm)
                   ELSE NoPacket,
           fresh |-> l.fresh /\ l.msg # <<>>]
  BY DEF FeedData, start
<1> HIDE DEF mm, full
<1>11. f.msg = mm /\ f.run = l.run /\ f.sx = l.sx /\ f.due = NoPacket
  BY <1>9, <1>10
<1>12. f.msg = <<t, d>> /\ f.run = l.run /\ f.sx = FALSE /\ f.due = NoPacket /\ IsReader(f)
  BY <1>3, <1>8, <1>11, FeedReader DEF mm
<1> HIDE DEF f
<1> DEFINE g == [f EXCEPT !.due = NoPacket]
<1>13. /\ IsReader(g) /\ g.msg = <<t, d>> /\ g.run = (IF IsChannel(t) THEN t ELSE 0)
       /\ g.sx = FALSE /\ g.due = NoPacket
  BY <1>3, <1>12, DueTaken
<1> HIDE DEF g
<1>14. Listens(g, t, 3, q)
  BY <1>1, <1>2, <1>13 DEF Listens
<1> QED BY <1>6, <1>12, <1>14 DEF g, d

\* ... and with the second it has the event.
LEMMA HearsEvent ==
  ASSUME LegalEvents, NEW q, Queue(q), q # <<>>, NEW l, NEW t, Listens(l, t, 3, q),
         NEW z
  PROVE  /\ Feed(l, q[1][3]).due = q[1]
         /\ Listens([Feed(l, q[1][3]) EXCEPT !.due = NoPacket], t, 0, z)
<1> DEFINE s == q[1][1]
           d == q[1][2]
           x == q[1][3]
           m == <<s, d, x>>
           f == FeedData(l, x)
           start == IF l.msg # <<>> \/ l.sx \/ l.run = 0 THEN l.msg ELSE <<l.run>>
<1>1. /\ q[1] \in [0 .. 3 -> 0 .. 255]
      /\ DataBytes(s) = 2 /\ CodeIndex(s) = q[1][0]
      /\ s \in 0 .. 255 /\ d \in 0 .. 255 /\ x \in 0 .. 255 /\ x < 128
  <2>1. Due(q[1])
    BY DueEvent
  <2> QED BY <2>1 DEF Due
<1>2. l.msg = <<s, d>> /\ l.run = (IF IsChannel(t) THEN t ELSE 0) /\ l.sx = FALSE
  BY DEF Listens
<1>3. s = q[1][1] /\ d = q[1][2] /\ x = q[1][3]
  OBVIOUS
<1> HIDE DEF s, d, x
<1>4. Feed(l, x) = f
  <2>1. \A b \in 0 .. 255 : b < 128 => ~IsRealTime(b) /\ ~IsStatus(b)
    BY DEF IsRealTime, IsStatus
  <2>2. ~IsRealTime(x) /\ ~IsStatus(x)
    BY <1>1, <2>1, Zenon
  <2> QED BY <2>2, Zenon DEF Feed
<1>5. start = <<s, d>>
  BY <1>2
<1> HIDE DEF start
<1>6. Append(<<s, d>>, x) = m
  <2>1. s \in Nat /\ d \in Nat /\ x \in Nat
    BY <1>1
  <2> QED BY <2>1, Appended, Zenon
<1>7. Len(m) = 3 /\ m[1] = s
  OBVIOUS
<1>8. Append(start, x) = m /\ Len(Append(start, x)) = 3 /\ start[1] = s /\ start # <<>> /\ m[1] = s
  BY <1>5, <1>6, <1>7
<1> HIDE DEF m
<1> DEFINE mm   == Append(start, x)
           full == IF l.sx THEN Len(mm) = 3
                   ELSE start # <<>> /\ Len(mm) = 1 + DataBytes(start[1])
<1>9. full
  BY <1>1, <1>2, <1>8
<1>10. f = [msg |-> IF full \/ (start = <<>> /\ ~l.sx) THEN <<>> ELSE mm, run |-> l.run,
           sx |-> l.sx,
           due |-> IF full THEN EventPacket(IF l.sx THEN 4 ELSE CodeIndex(mm[1]), mm)
                   ELSE NoPacket,
           fresh |-> l.fresh /\ l.msg # <<>>]
  BY DEF FeedData, start
<1> HIDE DEF full
<1>11. /\ f.msg = <<>> /\ f.run = l.run /\ f.sx = l.sx
      /\ f.due = EventPacket(IF l.sx THEN 4 ELSE CodeIndex(mm[1]), mm)
  BY <1>9, <1>10
<1>12. f.due = EventPacket(CodeIndex(s), m)
  BY <1>2, <1>8, <1>11
<1>13. EventPacket(CodeIndex(s), m) = q[1]
  <2>1. Len(m) = 3 /\ m[1] = q[1][1] /\ m[2] = q[1][2] /\ m[3] = q[1][3]
    BY <1>3 DEF m
  <2>2. \A i \in 0 .. 3 : EventPacket(CodeIndex(s), m)[i] = q[1][i]
    BY <1>1, <2>1 DEF EventPacket
  <2> QED BY <1>1, <2>2 DEF EventPacket
<1>14. f.msg = <<>> /\ f.run = l.run /\ f.sx = FALSE /\ f.due = q[1] /\ IsReader(f)
  BY <1>2, <1>12, <1>13, <1>11, FeedReader
<1> HIDE DEF f
<1> DEFINE g == [f EXCEPT !.due = NoPacket]
<1>15. /\ IsReader(g) /\ g.msg = <<>> /\ g.run = (IF IsChannel(t) THEN t ELSE 0)
       /\ g.sx = FALSE /\ g.due = NoPacket
  BY <1>2, <1>14, DueTaken
<1> HIDE DEF g
<1>16. Listens(g, t, 0, z)
  BY <1>15 DEF Listens
<1> QED BY <1>3, <1>4, <1>14, <1>16 DEF g, x
\* What is due is never taken for a closed account.
LEMMA Open == ASSUME NEW q, Queue(q) PROVE q # Closed
<1>1. Closed \notin Seq(Event)
  <2>1. Len(Closed) = 1 /\ Closed[1] = NoPacket
    BY DEF Closed
  <2>2. \A s \in Seq(Event) : Len(s) = 1 => s[1] \in Event
    OBVIOUS
  <2>3. NoPacket \notin Event
    BY EventAssumption
  <2> QED BY <2>1, <2>2, <2>3
<1> QED BY <1>1 DEF Queue

\* The account after a byte that completes nothing, and after one that completes the
\* event that is due first.
LEMMA Accounts ==
  ASSUME NEW r, Account(r), ~spoiled', ~odd', Queue(owed \o usb), Queue(owed)
  PROVE  /\ reader' = [r EXCEPT !.due = NoPacket]
         /\ r.due = NoPacket => owed' = owed \o usb
         /\ r.due # NoPacket /\ owed \o usb # <<>> /\ r.due = Head(owed \o usb)
              => owed' = Tail(owed \o usb)
<1>1. Debt = owed \o usb /\ Debt # Closed
  BY Open DEF Debt
<1> QED BY <1>1 DEF Account, Pay

\* The first event is heard: the ring holds the rest, from the next group on.
LEMMA NextGroup ==
  ASSUME NEW q, Queue(q), q # <<>>, NEW b \in Slot, NEW r, Holds(r, b, q)
  PROVE  Queue(Tail(q)) /\ Len(Tail(q)) = Len(q) - 1 /\ Holds(r, (b + 4) % N, Tail(q))
<1>1. /\ q \in Seq(Event) /\ Len(q) \in Nat \ {0} /\ 4 * Len(q) <= N
      /\ Tail(q) \in Seq(Event) /\ Len(Tail(q)) = Len(q) - 1
      /\ \A k \in 1 .. Len(q) - 1 : Tail(q)[k] = q[k + 1]
  BY DEF Queue
<1> DEFINE z == Tail(q)
           M == Len(q)
<1> HIDE DEF z, M
<1>2. Queue(z)
  <2>1. ASSUME NEW k \in 1 .. Len(z) PROVE ThreeByte(z[k])
    <3>1. k + 1 \in 1 .. M /\ z[k] = q[k + 1]
      BY <1>1 DEF z, M
    <3> QED BY <3>1 DEF Queue, M
  <2> QED BY <1>1, <2>1, Sizes DEF Queue, z
<1>3. ASSUME NEW i \in Slot, (i - ((b + 4) % N)) % N < 4 * Len(z)
      PROVE  r[i] = z[1 + ((i - ((b + 4) % N)) % N) \div 4][((i - ((b + 4) % N)) % N) % 4]
  <2> DEFINE o == (i - b) % N
             u == (i - ((b + 4) % N)) % N
  <2>1. /\ o \in 0 .. N - 1 /\ N \in Nat \ {0}
        /\ u = IF o >= 4 THEN o - 4 ELSE (o - 4) + N
    <3>1. i \in 0 .. N - 1 /\ b \in 0 .. N - 1 /\ 4 \in 0 .. N /\ N \in Nat \ {0}
      BY <1>1, Sizes DEF Slot
    <3> QED BY <3>1, ModShift
  <2>2. u < 4 * (M - 1) /\ M \in Nat \ {0} /\ 4 * M <= N
    BY <1>1, <1>3 DEF z, M
  <2>3. o < 4 * M => r[i] = q[1 + o \div 4][o % 4]
    BY DEF Holds, M
  <2> HIDE DEF o, u
  <2>4. /\ o < 4 * M /\ u % 4 = o % 4
        /\ 1 + u \div 4 \in 1 .. M - 1 /\ 1 + o \div 4 = (1 + u \div 4) + 1
    BY <2>1, <2>2, SMT
  <2>5. z[1 + u \div 4] = q[1 + o \div 4]
    BY <1>1, <2>4 DEF z, M
  <2> QED BY <2>3, <2>4, <2>5 DEF u
<1> QED BY <1>1, <1>2, <1>3 DEF Holds, z

\* The read pointer within its group.
LEMMA NextByte ==
  ASSUME NEW p \in Slot
  PROVE  /\ p % 4 \in 0 .. 2 =>
              /\ (p + 1) % N = p + 1 /\ (p + 1) % 4 = (p % 4) + 1
              /\ (p + 1) - ((p + 1) % 4) = p - (p % 4)
         /\ p % 4 = 3 => /\ ((p + 1) % N) % 4 = 0
                         /\ (p + 1) % N = ((p - (p % 4)) + 4) % N
<1>1. PICK k \in Nat : N = 4 * k
  BY Sizes
<1>2. p \in Nat /\ p < 4 * k /\ N \in Nat \ {0}
  BY <1>1, Sizes DEF Slot
<1>3. CASE p % 4 \in 0 .. 2
  <2>1. /\ p + 1 < 4 * k /\ (p + 1) % 4 = (p % 4) + 1
        /\ (p + 1) - ((p + 1) % 4) = p - (p % 4)
    BY <1>2, <1>3, SMT
  <2>2. p + 1 \in 0 .. N - 1
    BY <1>1, <1>2, <2>1
  <2>3. (p + 1) % N = p + 1
    BY <1>2, <2>2, ModSmall
  <2>4. ~(p % 4 = 3)
    BY <1>3
  <2> QED BY <2>1, <2>3, <2>4
<1>4. CASE p % 4 = 3
  <2>1. p + 1 = (p - (p % 4)) + 4
    BY <1>2, <1>4
  <2>2. (p + 1) % N = IF p + 1 < N THEN p + 1 ELSE (p + 1) - N
    <3>1. p \in 0 .. N - 1 /\ 1 \in 0 .. N /\ N \in Nat \ {0}
      BY <1>2 DEF Slot
    <3> QED BY <3>1, ModSum
  <2>3. (p + 1) % 4 = 0 /\ ((p + 1) - 4 * k) % 4 = 0
    BY <1>2, <1>4, SMT
  <2>4. ((p + 1) % N) % 4 = 0
    BY <1>1, <2>2, <2>3
  <2>5. ~(p % 4 \in 0 .. 2)
    BY <1>4
  <2> QED BY <2>1, <2>4, <2>5
<1>5. p % 4 \in 0 .. 3
  BY <1>2
<1> QED BY <1>3, <1>4, <1>5
\* One call, when the ring was not overrun and the copied events are three-byte ones.
LEMMA CallExact ==
  ASSUME TypeOK, GroupsAligned, N < W, LegalEvents, Exact, MIDI_Host_OutJackTasks,
         ~spoiled', ~odd'
  PROVE  Agree(owed', ring', count', rd', reader', trs')
<1> DEFINE q == owed \o usb
           R == CopyRing
           c == CopyCount
           b == rd - (rd % 4)
<1>1. /\ ~spoiled /\ ~odd /\ count + Copied <= N /\ ~SystemLeftOut
      /\ \A i \in 1 .. Len(usb) : ThreeByte(usb[i])
      /\ ring' = R
  <2>1. count \in Nat /\ Copied \in Nat /\ N \in Nat
    BY CopyTypes, Sizes DEF TypeOK
  <2>2. count + Copied > N \/ count + Copied <= N
    BY <2>1
  <2> QED BY <2>2 DEF MIDI_Host_OutJackTasks, CopyPart
<1>2. Agree(owed, ring, count, rd, reader, trs)
  BY <1>1 DEF Exact
<1>3. Agree(q, R, c, rd, reader, trs)
  BY <1>1, <1>2, CopyAppends
<1>4. Queue(owed) /\ Queue(q) /\ Len(q) \in Nat /\ rd \in Slot
  BY <1>2, <1>3 DEF Agree, Queue, TypeOK
<1>5. /\ rd % 4 \in 0 .. 3 /\ b \in Slot /\ b + 4 <= N /\ rd = b + (rd % 4)
      /\ b % 4 = 0 /\ N \in Nat \ {0} /\ W \in Nat \ {0}
  BY <1>4, GroupBase, Sizes DEF Slot
<1>6. c = 4 * Len(q) - (rd % 4) /\ (rd % 4 # 0 => q # <<>>)
      /\ Holds(R, b, q) /\ Listens(reader, trs, rd % 4, q)
  BY <1>3 DEF Agree
<1>7. IsReader(reader) /\ reader.due = NoPacket
  BY <1>6 DEF Listens
<1> HIDE DEF q, R, c, b
<1>8. HearNothing => owed' = q /\ \A t, ph : Listens(reader, t, ph, q) => Listens(reader', t, ph, q)
  <2> SUFFICES ASSUME HearNothing
               PROVE  owed' = q /\ \A t, ph : Listens(reader, t, ph, q) => Listens(reader', t, ph, q)
    OBVIOUS
  <2>1. reader' = [reader EXCEPT !.due = NoPacket] /\ owed' = q
    BY <1>1, <1>4, <1>7, Accounts DEF HearNothing, q, MIDI_Host_OutJackTasks
  <2>2. /\ IsReader(reader') /\ reader'.msg = reader.msg /\ reader'.run = reader.run
        /\ reader'.sx = reader.sx /\ reader'.due = NoPacket
    BY <1>7, <2>1, DueTaken
  <2> QED BY <2>1, <2>2 DEF Listens
<1>9. CASE SendNothing
  <2>1. Listens(reader', trs, rd % 4, q) /\ owed' = q
    BY <1>6, <1>8, <1>9 DEF SendNothing
  <2> QED BY <1>1, <1>4, <1>6, <1>9, <2>1 DEF SendNothing, Agree, b, c
\* A byte is taken out: the first of what is due.
<1>10. ASSUME CanSend
       PROVE  /\ q # <<>> /\ (c - 1) % W = c - 1
              /\ \A j \in 0 .. 3 : R[b + j] = q[1][j]
  <2>1. c \in Nat \ {0} /\ c < W
    BY <1>5, <1>10, CopyTypes DEF CanSend, c
  <2>2. q # <<>>
    <3>1. ASSUME q = <<>> PROVE FALSE
      <4>1. Len(q) = 0
        BY <3>1
      <4> QED BY <1>5, <1>6, <2>1, <3>1, <4>1
    <3> QED BY <3>1
  <2>3. c - 1 \in 0 .. W - 1
    BY <1>5, <2>1
  <2>4. (c - 1) % W = c - 1
    BY <1>5, <2>3, ModSmall
  <2>5. \A j \in 0 .. 3 : R[b + j] = q[1][j]
    BY <1>4, <1>5, <1>6, <2>2, FirstEvent
  <2> QED BY <2>2, <2>4, <2>5
<1>11. ASSUME CanSend, rd % 4 \in 0 .. 2, rd' = (rd + 1) % N, count' = (c - 1) % W,
              owed' = q, Listens(reader', trs', (rd % 4) + 1, q)
       PROVE  Agree(owed', ring', count', rd', reader', trs')
  <2>1. /\ rd' % 4 = (rd % 4) + 1 /\ rd' - (rd' % 4) = b
        /\ q # <<>> /\ count' = c - 1
    BY <1>4, <1>10, <1>11, NextByte DEF b
  <2>2. count' = 4 * Len(q) - (rd' % 4)
    BY <1>4, <1>5, <1>6, <2>1
  <2> QED BY <1>1, <1>4, <1>6, <1>11, <2>1, <2>2 DEF Agree
<1>12. CASE SendCin
  <2>1. Listens(reader', trs', 0, q) /\ owed' = q
    BY <1>6, <1>8, <1>12 DEF SendCin, Gobble
  <2>2. Listens(reader', trs', 1, q)
    BY <2>1 DEF Listens
  <2>3. rd % 4 = 0 /\ (rd % 4) + 1 = 1 /\ rd % 4 \in 0 .. 2
    BY <1>12 DEF SendCin
  <2> QED BY <1>11, <1>12, <2>1, <2>2, <2>3 DEF SendCin, Gobble, c
<1>13. ~Flush
  <2> SUFFICES ASSUME Flush PROVE FALSE
    OBVIOUS
  <2>1. CanSend /\ rd % 4 = 0 /\ ~IsStatus(R[(rd + 1) % N])
    BY DEF Flush, R
  <2>2. (rd + 1) % N = b + 1
    <3>1. rd % 4 \in 0 .. 2
      BY <2>1
    <3>2. (rd + 1) % N = rd + 1
      BY <1>4, <3>1, NextByte
    <3>3. b \in Int
      BY <1>5 DEF Slot
    <3> QED BY <1>5, <2>1, <3>2, <3>3
  <2>3. R[(rd + 1) % N] = q[1][1] /\ q # <<>>
    BY <1>10, <2>1, <2>2
  <2>4. q[1][1] \in 0 .. 255 /\ DataBytes(q[1][1]) = 2
    <3>1. Due(q[1])
      BY <1>4, <2>3, DueEvent
    <3> QED BY <3>1 DEF Due
  <2> QED BY <2>1, <2>3, <2>4, StatusOf
<1>14. CASE SendStatus
  <2>1. CanSend /\ rd % 4 = 1 /\ R[rd] = q[1][1] /\ q # <<>>
    BY <1>5, <1>10, <1>14 DEF SendStatus
  <2>2. rd % 4 \in 0 .. 2 /\ (rd % 4) + 1 = 2 /\ Listens(reader, trs, 1, q)
    BY <1>6, <2>1
  <2>3. CASE Repeated(R[rd]) /\ Gobble /\ UNCHANGED trs
    <3>1. IsChannel(R[rd]) /\ R[rd] = trs
      BY <1>1, <2>1, <2>3 DEF SystemLeftOut, Repeated, R
    <3>2. Listens(reader', trs, 1, q) /\ owed' = q
      BY <1>8, <2>2, <2>3 DEF Gobble
    <3>3. Listens(reader', trs', 2, q)
      BY <2>1, <2>3, <3>1, <3>2, MissesStatus
    <3> QED BY <1>11, <2>1, <2>2, <2>3, <3>2, <3>3 DEF Gobble, c
  <2>4. CASE Transmit /\ trs' = IF R[rd] < 248 THEN R[rd] ELSE trs
    <3>1. q[1][1] \in 0 .. 255 /\ DataBytes(q[1][1]) = 2
      <4>1. Due(q[1])
        BY <1>4, <2>1, DueEvent
      <4> QED BY <4>1 DEF Due
    <3>2. trs' = q[1][1]
      BY <2>1, <2>4, <3>1, StatusOf
    <3>3. /\ Feed(reader, R[rd]).due = NoPacket
          /\ Listens([Feed(reader, R[rd]) EXCEPT !.due = NoPacket], trs', 2, q)
      BY <1>4, <2>1, <2>2, <3>2, HearsStatus
    <3>4. reader' = [Feed(reader, R[rd]) EXCEPT !.due = NoPacket] /\ owed' = q
      BY <1>1, <1>4, <2>4, <3>3, Accounts DEF Transmit, Hear, q, R, MIDI_Host_OutJackTasks
    <3> QED BY <1>11, <2>1, <2>2, <2>4, <3>3, <3>4 DEF Transmit, c
  <2> QED BY <1>14, <2>3, <2>4 DEF SendStatus, R
<1>15. CASE SendRest
  <2>1. CanSend /\ Transmit /\ trs' = trs /\ R[rd] = q[1][rd % 4] /\ q # <<>>
    BY <1>5, <1>10, <1>15 DEF SendRest
  <2>2. CASE rd % 4 = 2
    <3>1. rd % 4 \in 0 .. 2 /\ (rd % 4) + 1 = 3 /\ Listens(reader, trs, 2, q)
      BY <1>6, <2>2
    <3>2. /\ Feed(reader, R[rd]).due = NoPacket
          /\ Listens([Feed(reader, R[rd]) EXCEPT !.due = NoPacket], trs, 3, q)
      BY <1>4, <2>1, <2>2, <3>1, HearsData
    <3>3. reader' = [Feed(reader, R[rd]) EXCEPT !.due = NoPacket] /\ owed' = q
      BY <1>1, <1>4, <2>1, <3>2, Accounts DEF Transmit, Hear, q, R
    <3> QED BY <1>11, <2>1, <3>1, <3>2, <3>3 DEF Transmit, c
  <2>3. CASE rd % 4 = 3
    <3>1. /\ Feed(reader, R[rd]).due = q[1]
          /\ Listens([Feed(reader, R[rd]) EXCEPT !.due = NoPacket], trs, 0, Tail(q))
      BY <1>4, <1>6, <2>1, <2>3, HearsEvent
    <3>2. q[1] # NoPacket /\ Head(q) = q[1]
      <4>1. q[1] # NoPacket
        <5>1. Due(q[1])
          BY <1>4, <2>1, DueEvent
        <5> QED BY <5>1 DEF Due
      <4>2. Head(q) = q[1]
        OBVIOUS
      <4> QED BY <4>1, <4>2
    <3>3. reader' = [Feed(reader, R[rd]) EXCEPT !.due = NoPacket] /\ owed' = Tail(q)
      BY <1>1, <1>4, <2>1, <3>1, <3>2, Accounts DEF Transmit, Hear, q, R
    <3>4. rd' = (b + 4) % N /\ rd' % 4 = 0 /\ count' = c - 1
      BY <1>4, <1>10, <2>1, <2>3, NextByte DEF Transmit, b, c
    <3>5. Queue(Tail(q)) /\ Len(Tail(q)) = Len(q) - 1 /\ Holds(R, (b + 4) % N, Tail(q))
      BY <1>4, <1>5, <1>6, <2>1, NextGroup
    <3>6. rd' - (rd' % 4) = (b + 4) % N
      <4>1. (b + 4) % N \in Nat
        BY <1>5, ModType DEF Slot
      <4> QED BY <3>4, <4>1
    <3>7. count' = 4 * Len(Tail(q)) - (rd' % 4)
      BY <1>4, <1>6, <2>3, <3>4, <3>5
    <3> QED BY <1>1, <2>1, <3>1, <3>3, <3>4, <3>5, <3>6, <3>7 DEF Agree
  <2> QED BY <1>15, <2>2, <2>3 DEF SendRest
<1> QED
  BY <1>9, <1>12, <1>13, <1>14, <1>15 DEF MIDI_Host_OutJackTasks

LEMMA ExactInit == Init => Exact
<1> SUFFICES ASSUME Init PROVE Agree(owed, ring, count, rd, reader, trs)
  BY DEF Exact
<1>1. owed = <<>> /\ count = 0 /\ rd = 0 /\ trs = 0
  BY DEF Init
<1>2. Queue(<<>>) /\ Len(<<>>) = 0
  BY Sizes DEF Queue
<1>3. 0 % 4 = 0 /\ 0 - (0 % 4) = 0 /\ 4 * 0 - (0 % 4) = 0 /\ ~IsChannel(0)
  BY DEF IsChannel
<1>4. Holds(ring, 0, <<>>)
  <2>1. ASSUME NEW i \in Slot PROVE ~((i - 0) % N < 4 * Len(<<>>))
    <3>1. i \in Nat /\ N \in Nat \ {0}
      BY Sizes DEF Slot
    <3>2. i - 0 = i /\ i % N \in Nat
      BY <3>1, ModType
    <3> QED BY <1>2, <3>2
  <2> QED BY <2>1 DEF Holds
<1>5. Listens(reader, 0, 0, <<>>)
  <2>1. reader = Reader0
    BY DEF Init
  <2>2. IsReader(Reader0)
    BY Zenon DEF IsReader, Reader0
  <2>3. Reader0.msg = <<>> /\ Reader0.run = 0 /\ Reader0.sx = FALSE /\ Reader0.due = NoPacket
    BY DEF Reader0
  <2> QED BY <1>3, <2>1, <2>2, <2>3 DEF Listens
<1> QED BY <1>1, <1>2, <1>3, <1>4, <1>5 DEF Agree

LEMMA ExactStep ==
  ASSUME TypeOK, GroupsAligned, N < W, LegalEvents, Exact, [Next]_vars
  PROVE  Exact'
<1>1. CASE UNCHANGED <<ringVars, trs, reader, owed, spoiled, odd>>
  BY <1>1 DEF ringVars, Exact
<1>2. CASE MIDI_Host_OutJackTasks
  BY <1>2, CallExact DEF Exact
<1> QED BY <1>1, <1>2 DEF Next, Arrive, Shifted, vars, ringVars

\* An instrument that sends legal three-byte messages is heard, whatever the number
\* and the order of its events: every event, nothing else, and in order, as long as
\* the ring is not overrun, the count is wider than the ring and no status byte of a
\* system message is left out.
THEOREM ThreeByteMessagesHeard ==
  ASSUME N < W, LegalEvents
  PROVE  Spec => []HeardExactly
<1>1. Init => TypeOK /\ Exact
  BY TypeInit, ExactInit
<1>2. TypeOK /\ GroupsAligned /\ Exact /\ [Next]_vars => Exact'
  BY ExactStep
<1>3. TypeOK /\ Exact => HeardExactly
  <2> SUFFICES ASSUME TypeOK, Exact, ~spoiled, ~odd PROVE Heard
    BY DEF HeardExactly
  <2>1. Queue(owed) /\ count = 4 * Len(owed) - (rd % 4) /\ (rd % 4 # 0 => owed # <<>>)
    BY DEF Exact, Agree
  <2>2. owed # Closed
    BY <2>1, Open
  <2>3. ASSUME count = 0 PROVE owed = <<>>
    <3>1. owed \in Seq(Event) /\ Len(owed) \in Nat
      BY <2>1 DEF Queue
    <3>2. rd % 4 \in 0 .. 3
      BY GroupBase DEF TypeOK
    <3>3. Len(owed) = 0
      <4>1. rd % 4 # 0 => Len(owed) # 0
        BY <2>1, <3>1
      <4>2. 4 * Len(owed) = rd % 4
        BY <2>1, <2>3, <3>1, <3>2
      <4> QED BY <3>1, <3>2, <4>1, <4>2
    <3> QED BY <3>1, <3>3
  <2> QED BY <2>2, <2>3 DEF Heard
<1>4. Spec => []TypeOK /\ []GroupsAligned
  BY TypesHold, GroupsStayAligned
<1>5. []TypeOK /\ []GroupsAligned /\ Exact /\ [][Next]_vars => []Exact
  BY <1>2, PTL
<1> QED BY <1>1, <1>3, <1>4, <1>5, PTL DEF Spec
=============================================================================
