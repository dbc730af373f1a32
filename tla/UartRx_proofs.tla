---------------------------- MODULE UartRx_proofs ----------------------------
(***************************************************************************)
(* Proofs about UartRx, for every ring size, every count width that is a   *)
(* multiple of it and every depth of the hardware FIFO.                    *)
(***************************************************************************)
EXTENDS UartRx, ModArithmetic, SequenceTheorems

-----------------------------------------------------------------------------
(* Type correctness, with what main's position says of the pointers.       *)

PointersOK ==
  /\ pc = "initWr" => rd = 0
  /\ pc \in Running => wr \in Slot
  /\ pc = "poll" => rd \in Slot
  /\ pc \in {"dec", "wrap"} => rd \in 1 .. N

\* Nothing was counted during the set-up, unless it was torn.
CleanSetUp == pc \in {"initRd", "initWr"} /\ ~torn => count = 0

TypeInv == TypeOK /\ PointersOK /\ CleanSetUp

LEMMA TypeInvInit == Init => TypeInv
<1> SUFFICES ASSUME Init PROVE TypeInv
  OBVIOUS
<1>1. N \in Nat \ {0} /\ W \in Nat \ {0}
  BY SizeAssumption
<1>2. ring \in [Slot -> Byte]
  BY ZeroIsByte DEF Init
<1>3. TypeOK
  <2>1. count \in 0 .. W - 1 /\ hw \in Seq(Byte) /\ got \in Byte
    BY <1>1, ZeroIsByte DEF Init
  <2> QED BY <1>2, <2>1 DEF Init, TypeOK, Booting
<1>4. PointersOK /\ CleanSetUp
  BY DEF Init, PointersOK, CleanSetUp, Running
<1> QED BY <1>3, <1>4 DEF TypeInv

LEMMA TypeInvStep == TypeInv /\ [Next]_vars => TypeInv'
<1> SUFFICES ASSUME TypeInv, [Next]_vars PROVE TypeInv'
  OBVIOUS
<1>0. N \in Nat \ {0} /\ W \in Nat \ {0}
  BY SizeAssumption
<1> USE <1>0 DEF TypeInv, TypeOK, PointersOK, CleanSetUp, Slot, Null, Booting, Running
<1>1. ASSUME NEW b \in Byte, Arrive(b) PROVE TypeInv'
  BY <1>1 DEF Arrive, mainVars
<1>2. CASE IsrEnter
  BY <1>2 DEF IsrEnter, mainVars
<1>3. CASE IsrStore
  <2>1. Head(hw) \in Byte /\ hw' \in Seq(Byte)
    BY <1>3 DEF IsrStore
  <2>2. count' \in 0 .. W - 1
    BY <1>3, SMT DEF IsrStore, CountUp
  <2>3. ring' \in [Slot -> Byte]
    BY <1>3, <2>1 DEF IsrStore
  <2>4. wr' \in Slot \cup {Null} /\ (wr \in Slot => wr' \in Slot)
    BY <1>3 DEF IsrStore, NextSlot
  <2>5. UNCHANGED <<rd, pc, got, rxif, isr, paced>> /\ torn' \in BOOLEAN
    BY <1>3 DEF IsrStore, mainVars
  <2>6. pc' \in {"initRd", "initWr"} => torn'
    BY <1>3 DEF IsrStore, mainVars
  <2> QED BY <2>1, <2>2, <2>3, <2>4, <2>5, <2>6
<1>4. CASE IsrDone
  BY <1>4 DEF IsrDone, mainVars
<1>5. CASE IsrReturn
  BY <1>5 DEF IsrReturn, mainVars
<1>6. CASE InitCount
  BY <1>6 DEF InitCount, hwVars
<1>7. CASE InitRd
  BY <1>7 DEF InitRd, hwVars
<1>8. CASE InitWr
  BY <1>8 DEF InitWr, hwVars
<1>9. CASE Fetch
  <2>1. ring[rd] \in Byte
    BY <1>9 DEF Fetch
  <2> QED BY <1>9, <2>1 DEF Fetch, hwVars
<1>10. CASE Decrement
  <2>1. count' \in 0 .. W - 1
    BY <1>10, SMT DEF Decrement
  <2> QED BY <1>10, <2>1 DEF Decrement, hwVars
<1>11. CASE Wrap
  BY <1>11 DEF Wrap, hwVars
<1>12. CASE UNCHANGED vars
  BY <1>12 DEF vars
<1> QED
  BY <1>1, <1>2, <1>3, <1>4, <1>5, <1>6, <1>7, <1>8, <1>9, <1>10, <1>11, <1>12
     DEF Next, Isr, Initialize, Consume

\* Every reachable state is well typed: the count stays in its 8 bits, and the
\* pointers main and the interrupt handler use stay inside the ring.
THEOREM TypeCorrect == Spec => []TypeInv
  BY TypeInvInit, TypeInvStep, PTL DEF Spec

\* In particular the type invariant the runs check holds for every size.
COROLLARY TypesHold == Spec => []TypeOK
<1>1. TypeInv => TypeOK
  BY DEF TypeInv
<1> QED
  BY <1>1, TypeCorrect, PTL

-----------------------------------------------------------------------------
(* Alignment.                                                              *)

\* One more byte: the write pointer's step matches the count's, also when the
\* count passes its maximum.
LEMMA AlignStore ==
  ASSUME NEW r \in 0 .. N, NEW h \in 0 .. W - 1
  PROVE  (r + ((h + 1) % W)) % N =
           IF ((r + h) % N) + 1 >= N THEN 0 ELSE ((r + h) % N) + 1
<1>0. N \in Nat \ {0} /\ W \in Nat \ {0} /\ r \in Nat /\ h \in Nat
  BY SizeAssumption
<1>1. (r + h + 1) % N = IF ((r + h) % N) + 1 >= N THEN 0 ELSE ((r + h) % N) + 1
  <2> DEFINE a == r + h
  <2>1. a \in Nat
    BY <1>0
  <2> HIDE DEF a
  <2>2. (a + 1) % N = IF (a % N) + 1 >= N THEN 0 ELSE (a % N) + 1
    BY <1>0, <2>1, ModSucc
  <2> QED BY <2>2 DEF a
<1>2. CASE h + 1 < W
  <2>1. (h + 1) % W = h + 1
    BY <1>0, <1>2, ModSmall
  <2> QED BY <1>0, <1>1, <2>1
<1>3. CASE h + 1 = W
  <2>1. PICK m \in Nat : W = m * N
    BY <1>0, WrapAssumption
  <2>2. (h + 1) % W = 0
    BY <1>0, <1>3, SMT
  <2>3. (r + m * N) % N = r % N
    BY <1>0, ModLaps
  <2>4. r + h + 1 = r + m * N
    BY <1>0, <1>3, <2>1
  <2> QED BY <1>0, <1>1, <2>2, <2>3, <2>4
<1> QED BY <1>0, <1>2, <1>3

\* The count as main's next decrement will leave it.
LEMMA HeldPred ==
  ASSUME NEW c \in 0 .. W - 1
  PROVE  /\ (c - 1) % W \in 0 .. W - 1
         /\ c > 0 => (c - 1) % W = c - 1
         /\ (((c + 1) % W) - 1) % W = (((c - 1) % W) + 1) % W
<1>0. W \in Nat \ {0}
  BY SizeAssumption
<1>1. CASE c = 0 /\ W = 1
  BY <1>0, <1>1, SMT
<1>2. CASE c = 0 /\ W > 1
  <2>1. (c - 1) % W = W - 1
    BY <1>0, <1>2, SMT
  <2>2. (c + 1) % W = 1 /\ 0 % W = 0
    BY <1>0, <1>2, ModSmall
  <2>3. W % W = 0
    BY <1>0, SMT
  <2> QED BY <1>0, <1>2, <2>1, <2>2, <2>3
<1>3. CASE c > 0 /\ c + 1 < W
  <2>1. (c - 1) % W = c - 1 /\ (c + 1) % W = c + 1 /\ c % W = c
    BY <1>0, <1>3, ModSmall
  <2> QED BY <1>0, <1>3, <2>1
<1>4. CASE c > 0 /\ c + 1 = W
  <2>1. (c - 1) % W = c - 1 /\ c % W = c
    BY <1>0, <1>4, ModSmall
  <2>2. (c + 1) % W = 0
    BY <1>0, <1>4, SMT
  <2>3. (0 - 1) % W = W - 1
    BY <1>0, <1>4, SMT
  <2> QED BY <1>0, <1>4, <2>1, <2>2, <2>3
<1> QED BY <1>0, <1>1, <1>2, <1>3, <1>4

\* RingAligned is inductive relative to TypeInv.
LEMMA AlignedStep == TypeInv /\ RingAligned /\ [Next]_vars => RingAligned'
<1> SUFFICES ASSUME TypeInv, RingAligned, [Next]_vars,
                    pc' \in Running, ~torn'
             PROVE  Aligned'
  BY DEF RingAligned
<1>0. N \in Nat \ {0} /\ W \in Nat \ {0}
  BY SizeAssumption
<1>a. TypeInv'
  BY TypeInvStep
<1>b. count \in 0 .. W - 1 /\ pc \in Booting \cup Running
  BY DEF TypeInv, TypeOK
<1>1. ASSUME UNCHANGED <<rd, wr, count, pc, torn>> PROVE Aligned'
  BY <1>1 DEF RingAligned, Aligned, Held
<1>2. CASE IsrStore
  <2>1. /\ UNCHANGED <<pc, rd>> /\ ~torn
        /\ count' = (count + 1) % W
    BY <1>2 DEF IsrStore, CountUp, mainVars
  <2>2. wr \in Slot /\ rd \in 0 .. N /\ (rd + Held) % N = wr
    BY <2>1 DEF RingAligned, Aligned
  <2>3. Held \in 0 .. W - 1 /\ Held' = (Held + 1) % W
    BY <1>b, <2>1, HeldPred DEF Held
  <2>4. wr' = IF wr + 1 >= N THEN 0 ELSE wr + 1
    BY <1>2, <2>2 DEF IsrStore, NextSlot, Slot, Null
  <2>5. (rd + Held') % N = wr'
    BY <2>2, <2>3, <2>4, AlignStore
  <2>6. wr' \in Slot
    BY <1>0, <2>2, <2>4 DEF Slot
  <2> QED BY <2>1, <2>2, <2>5, <2>6 DEF Aligned
<1>3. CASE InitWr
  <2>1. count = 0 /\ rd = 0
    BY <1>3 DEF InitWr, TypeInv, CleanSetUp, PointersOK
  <2>2. count' = 0 /\ rd' = 0 /\ wr' = 0 /\ pc' = "poll"
    BY <1>3, <2>1 DEF InitWr
  <2>3. 0 % N = 0 /\ 0 \in Slot /\ 0 \in 0 .. N
    BY <1>0, ModSmall DEF Slot
  <2>4. Held' = 0
    BY <2>2 DEF Held
  <2> QED BY <2>2, <2>3, <2>4 DEF Aligned
<1>4. CASE Fetch
  <2>1. /\ pc = "poll" /\ pc' = "dec" /\ count > 0 /\ ~torn
        /\ rd' = rd + 1 /\ UNCHANGED <<wr, count>>
    BY <1>4 DEF Fetch
  <2>2. wr \in Slot /\ rd \in Slot /\ (rd + count) % N = wr
    BY <2>1 DEF RingAligned, Aligned, Held, Running, TypeInv, PointersOK
  <2>3. Held' = count - 1
    BY <1>b, <2>1, HeldPred DEF Held
  <2>4. rd' + Held' = rd + count /\ rd' \in 0 .. N
    BY <1>0, <1>b, <2>1, <2>2, <2>3 DEF Slot
  <2> QED BY <2>1, <2>2, <2>4 DEF Aligned
<1>5. CASE Decrement
  <2>1. /\ pc = "dec" /\ pc' = "wrap" /\ ~torn
        /\ count' = (count - 1) % W /\ UNCHANGED <<rd, wr>>
    BY <1>5 DEF Decrement
  <2> QED BY <2>1 DEF RingAligned, Aligned, Held, Running
<1>6. CASE Wrap
  <2>1. /\ pc = "wrap" /\ pc' = "poll" /\ ~torn
        /\ rd' = (IF rd >= N THEN 0 ELSE rd) /\ UNCHANGED <<wr, count>>
    BY <1>6 DEF Wrap
  <2>2. wr \in Slot /\ rd \in 1 .. N /\ (rd + count) % N = wr
    BY <2>1 DEF RingAligned, Aligned, Held, Running, TypeInv, PointersOK
  <2>3. (count + 1 * N) % N = count % N
    <3>1. count \in Nat /\ 1 \in Nat
      BY <1>0, <1>b
    <3>2. \A m \in Nat : (count + m * N) % N = count % N
      BY <1>0, <3>1, ModLaps
    <3> QED BY <3>1, <3>2, Zenon
  <2>4. (rd' + count) % N = wr /\ rd' \in 0 .. N
    <3>1. CASE rd = N
      <4>1. rd' = 0 /\ rd + count = count + 1 * N /\ rd' + count = count
        BY <1>0, <1>b, <2>1, <3>1
      <4> QED BY <1>0, <2>2, <2>3, <4>1
    <3>2. CASE rd # N
      BY <1>0, <2>1, <2>2, <3>2
    <3> QED BY <3>1, <3>2
  <2> QED BY <2>1, <2>2, <2>4 DEF Aligned, Held
<1>7. ASSUME NEW b \in Byte, Arrive(b) PROVE Aligned'
  BY <1>1, <1>7 DEF Arrive, mainVars
<1>8. CASE IsrEnter \/ IsrDone \/ IsrReturn
  BY <1>1, <1>8 DEF IsrEnter, IsrDone, IsrReturn, mainVars
<1>9. CASE InitCount \/ InitRd
  BY <1>9 DEF InitCount, InitRd, Running
<1>10. CASE UNCHANGED vars
  BY <1>1, <1>10 DEF vars
<1> QED
  BY <1>2, <1>3, <1>4, <1>5, <1>6, <1>7, <1>8, <1>9, <1>10
     DEF Next, Isr, Initialize, Consume

\* Whatever the interleaving of the handler with main, however far the ring is
\* overrun and however often the count wraps, pointers and count agree once
\* MIDI_Jack_Initialize is done, if no byte was stored inside it.
THEOREM RingStaysAligned == Spec => []RingAligned
<1>1. Init => RingAligned
  BY DEF Init, RingAligned, Running
<1> QED
  BY <1>1, AlignedStep, TypeCorrect, PTL DEF Spec

\* The write pointer's step, seen from k slots ahead of it.
LEMMA NextSlotAhead ==
  ASSUME NEW w \in Slot, NEW k \in Slot
  PROVE  /\ NextSlot(w) \in Slot
         /\ (NextSlot(w) + k) % N = IF ((w + k) % N) + 1 >= N THEN 0 ELSE ((w + k) % N) + 1
<1>0. N \in Nat \ {0} /\ w \in Nat /\ k \in Nat
  BY SizeAssumption DEF Slot
<1>1. (w + k + 1) % N = IF ((w + k) % N) + 1 >= N THEN 0 ELSE ((w + k) % N) + 1
  <2> DEFINE a == w + k
  <2>1. a \in Nat
    BY <1>0
  <2> HIDE DEF a
  <2>2. (a + 1) % N = IF (a % N) + 1 >= N THEN 0 ELSE (a % N) + 1
    BY <1>0, <2>1, ModSucc
  <2> QED BY <2>2 DEF a
<1>2. CASE w + 1 < N
  <2>1. NextSlot(w) = w + 1
    BY <1>0, <1>2 DEF NextSlot
  <2>2. NextSlot(w) + k = w + k + 1
    BY <1>0, <2>1
  <2> QED BY <1>0, <1>1, <1>2, <2>1, <2>2 DEF Slot
<1>3. CASE w + 1 >= N
  <2>1. NextSlot(w) = 0
    BY <1>3 DEF NextSlot
  <2>2. w + k + 1 = k + 1 * N
    BY <1>0, <1>3 DEF Slot
  <2>3. (k + 1 * N) % N = k % N
    <3>1. 1 \in Nat
      OBVIOUS
    <3> QED BY <1>0, <3>1, ModLaps
  <2>4. 0 + k = k /\ 0 \in Slot
    BY <1>0 DEF Slot
  <2> QED BY <1>1, <2>1, <2>2, <2>3, <2>4
<1> QED BY <1>0, <1>2, <1>3

\* What a read pointer at the end of the ring stands for.
LEMMA WrapSame ==
  ASSUME NEW h \in Nat
  PROVE  (N + h) % N = (0 + h) % N
<1>1. N \in Nat \ {0} /\ 1 \in Nat
  BY SizeAssumption
<1>2. (h + 1 * N) % N = h % N
  BY <1>1, ModLaps
<1>3. N + h = h + 1 * N /\ 0 + h = h
  BY <1>1
<1> QED BY <1>2, <1>3

LEMMA ApartStep ==
  ASSUME TypeInv, NEW k \in Slot, pc \in Running, Apart(k), [Next]_vars
  PROVE  Apart(k)'
<1>0. N \in Nat \ {0} /\ W \in Nat \ {0}
  BY SizeAssumption
<1>1. count \in 0 .. W - 1 /\ wr \in Slot /\ rd \in 0 .. N /\ rd # Null
  BY <1>0 DEF TypeInv, TypeOK, PointersOK, Running, Slot, Null
<1>2. ASSUME UNCHANGED <<rd, wr, count, pc>> PROVE Apart(k)'
  BY <1>2 DEF Apart, Held
<1>3. CASE IsrStore
  <2>1. /\ UNCHANGED <<pc, rd>> /\ count' = (count + 1) % W
        /\ wr' = NextSlot(wr)
    BY <1>0, <1>1, <1>3 DEF IsrStore, CountUp, mainVars, Slot, Null
  <2>2. Held \in 0 .. W - 1 /\ Held' = (Held + 1) % W
    BY <1>1, <2>1, HeldPred DEF Held
  <2>3. (rd + Held') % N = IF ((rd + Held) % N) + 1 >= N THEN 0 ELSE ((rd + Held) % N) + 1
    BY <1>1, <2>2, AlignStore
  <2>4. (wr' + k) % N = IF ((wr + k) % N) + 1 >= N THEN 0 ELSE ((wr + k) % N) + 1
    BY <1>1, <2>1, NextSlotAhead
  <2> QED BY <2>1, <2>3, <2>4 DEF Apart
<1>4. CASE Fetch
  <2>1. /\ pc = "poll" /\ pc' = "dec" /\ count > 0
        /\ rd' = rd + 1 /\ UNCHANGED <<wr, count>>
    BY <1>4 DEF Fetch
  <2>2. Held = count /\ Held' = count - 1
    BY <1>1, <2>1, HeldPred DEF Held
  <2>3. rd' + Held' = rd + Held
    BY <1>0, <1>1, <2>1, <2>2
  <2> QED BY <2>1, <2>3 DEF Apart
<1>5. CASE Decrement
  BY <1>5 DEF Decrement, Apart, Held
<1>6. CASE Wrap
  <2>1. /\ pc = "wrap" /\ pc' = "poll" /\ rd' = (IF rd >= N THEN 0 ELSE rd)
        /\ UNCHANGED <<wr, count>>
    BY <1>6 DEF Wrap
  <2>2. Held = count /\ Held' = count /\ count \in Nat
    BY <1>0, <1>1, <2>1 DEF Held
  <2>3. (rd' + count) % N = (rd + count) % N
    <3>1. CASE rd = N
      BY <1>0, <2>1, <2>2, <3>1, WrapSame
    <3>2. CASE rd # N
      BY <1>0, <1>1, <2>1, <3>2
    <3> QED BY <3>1, <3>2
  <2> QED BY <2>1, <2>2, <2>3 DEF Apart
<1>7. ASSUME NEW b \in Byte, Arrive(b) PROVE Apart(k)'
  BY <1>2, <1>7 DEF Arrive, mainVars
<1>8. CASE IsrEnter \/ IsrDone \/ IsrReturn
  BY <1>2, <1>8 DEF IsrEnter, IsrDone, IsrReturn, mainVars
<1>9. ~Initialize
  BY DEF Initialize, InitCount, InitRd, InitWr, Running
<1>10. CASE UNCHANGED vars
  BY <1>2, <1>10 DEF vars
<1> QED
  BY <1>3, <1>4, <1>5, <1>6, <1>7, <1>8, <1>9, <1>10 DEF Next, Isr, Consume

\* What a byte stored inside MIDI_Jack_Initialize has set apart is never brought
\* together again: the distance of pointers and count is a constant of the motion.
THEOREM TornRingStaysTorn == Spec => ApartForGood
<1>1. TypeInv /\ [Next]_vars =>
        \A k \in Slot : pc \in Running /\ Apart(k) => Apart(k)'
  BY ApartStep
<1> QED
  BY <1>1, TypeCorrect, PTL DEF Spec, ApartForGood

-----------------------------------------------------------------------------
(* Refinement.                                                             *)

\* The h slots from r on, then the bytes of x: Pending is one of these.
Queue(R, r, h, x) == [i \in 1 .. h |-> R[(r + i - 1) % N]] \o x

\* The same, byte by byte.
IsQueue(s, R, r, h, x) ==
  /\ s \in Seq(Byte) /\ Len(s) = h + Len(x)
  /\ \A i \in 1 .. h : s[i] = R[(r + i - 1) % N]
  /\ \A i \in h + 1 .. h + Len(x) : s[i] = x[i - h]

LEMMA QueueIsSeq ==
  ASSUME NEW R \in [Slot -> Byte], NEW r \in 0 .. N, NEW h \in Nat, NEW x \in Seq(Byte)
  PROVE  IsQueue(Queue(R, r, h, x), R, r, h, x)
<1>0. N \in Nat \ {0}
  BY SizeAssumption
<1> DEFINE s == [i \in 1 .. h |-> R[(r + i - 1) % N]]
<1>1. \A i \in 1 .. h : (r + i - 1) % N \in Slot
  <2> SUFFICES ASSUME NEW i \in 1 .. h PROVE (r + i - 1) % N \in Slot
    OBVIOUS
  <2>1. r + i - 1 \in Nat
    BY <1>0
  <2> QED BY <1>0, <2>1, DivMod DEF Slot
<1>2. s \in [1 .. h -> Byte]
  BY <1>1
<1>5. \A i \in 1 .. h : s[i] = R[(r + i - 1) % N]
  OBVIOUS
<1>6. Queue(R, r, h, x) = s \o x
  BY DEF Queue
<1> HIDE DEF s
<1>9. [1 .. h -> Byte] \in {[1 .. n -> Byte] : n \in Nat}
  OBVIOUS
<1>3. s \in Seq(Byte)
  BY <1>2, <1>9, SeqDef, Zenon
<1>4. Len(s) = h
  BY <1>2, <1>3, LenProperties
<1>7. /\ s \o x \in Seq(Byte)
      /\ Len(s \o x) = h + Len(x)
      /\ \A i \in 1 .. h + Len(x) : (s \o x)[i] = IF i <= h THEN s[i] ELSE x[i - h]
  BY <1>3, <1>4, ConcatProperties
<1>8. Len(x) \in Nat
  BY LenProperties
<1>10. \A i \in 1 .. h : (s \o x)[i] = R[(r + i - 1) % N]
  <2> SUFFICES ASSUME NEW i \in 1 .. h PROVE (s \o x)[i] = R[(r + i - 1) % N]
    OBVIOUS
  <2>1. i \in 1 .. h + Len(x) /\ i <= h
    BY <1>8
  <2> QED BY <1>5, <1>7, <2>1, Zenon
<1>11. \A i \in h + 1 .. h + Len(x) : (s \o x)[i] = x[i - h]
  <2> SUFFICES ASSUME NEW i \in h + 1 .. h + Len(x) PROVE (s \o x)[i] = x[i - h]
    OBVIOUS
  <2>1. i \in 1 .. h + Len(x) /\ ~(i <= h)
    BY <1>8
  <2> QED BY <1>7, <2>1, Zenon
<1> QED BY <1>6, <1>7, <1>10, <1>11, Zenon DEF IsQueue

\* A byte arrives.
LEMMA QueuePut ==
  ASSUME NEW R \in [Slot -> Byte], NEW r \in 0 .. N, NEW h \in Nat, NEW x \in Seq(Byte),
         NEW b \in Byte
  PROVE  Queue(R, r, h, Append(x, b)) = Append(Queue(R, r, h, x), b)
<1> DEFINE y == Append(x, b)
           s == Queue(R, r, h, x)
           t == Queue(R, r, h, y)
           u == Append(s, b)
<1>1. y \in Seq(Byte) /\ Len(y) = Len(x) + 1 /\ Len(x) \in Nat
      /\ y[Len(x) + 1] = b /\ \A i \in 1 .. Len(x) : y[i] = x[i]
  BY LenProperties
<1> HIDE DEF y
<1>2. /\ s \in Seq(Byte) /\ Len(s) = h + Len(x)
      /\ \A i \in 1 .. h : s[i] = R[(r + i - 1) % N]
      /\ \A i \in h + 1 .. h + Len(x) : s[i] = x[i - h]
  BY QueueIsSeq, Zenon DEF IsQueue
<1>6. /\ t \in Seq(Byte) /\ Len(t) = h + Len(y)
      /\ \A i \in 1 .. h : t[i] = R[(r + i - 1) % N]
      /\ \A i \in h + 1 .. h + Len(y) : t[i] = y[i - h]
  BY <1>1, QueueIsSeq, Zenon DEF IsQueue
<1>3. /\ t \in Seq(Byte) /\ Len(t) = h + Len(x) + 1
      /\ \A i \in 1 .. h : t[i] = R[(r + i - 1) % N]
      /\ \A i \in h + 1 .. h + Len(x) + 1 : t[i] = y[i - h]
  <2>1. h + Len(y) = h + Len(x) + 1
    BY <1>1
  <2> QED BY <1>6, <2>1, Zenon
<1> HIDE DEF s, t
<1>4. /\ u \in Seq(Byte) /\ Len(u) = h + Len(x) + 1
      /\ u[h + Len(x) + 1] = b /\ \A i \in 1 .. h + Len(x) : u[i] = s[i]
  BY <1>1, <1>2
<1> HIDE DEF u
<1>5. ASSUME NEW i \in 1 .. Len(t) PROVE t[i] = u[i]
  <2>1. CASE i <= h
    BY <1>1, <1>2, <1>3, <1>4, <2>1
  <2>2. CASE i > h /\ i <= h + Len(x)
    <3>1. i - h \in 1 .. Len(x) /\ i \in h + 1 .. h + Len(x) /\ i \in 1 .. h + Len(x)
      BY <1>1, <1>3, <2>2
    <3>2. t[i] = y[i - h] /\ s[i] = x[i - h] /\ u[i] = s[i]
      <4>1. i \in h + 1 .. h + Len(x) + 1
        BY <1>1, <3>1
      <4> QED BY <1>2, <1>3, <1>4, <3>1, <4>1, Zenon
    <3>3. y[i - h] = x[i - h]
      BY <1>1, <3>1, Zenon
    <3> QED BY <3>2, <3>3, Zenon
  <2>3. CASE i = h + Len(x) + 1
    <3>1. i - h = Len(x) + 1 /\ i \in h + 1 .. h + Len(x) + 1
      BY <1>1, <1>3, <2>3
    <3>2. t[i] = y[i - h]
      BY <1>3, <3>1, Zenon
    <3> QED BY <1>1, <1>4, <2>3, <3>1, <3>2, Zenon
  <2>4. i <= h \/ (i > h /\ i <= h + Len(x)) \/ i = h + Len(x) + 1
    <3>1. Len(t) \in Nat /\ Len(t) = h + Len(x) + 1 /\ Len(x) \in Nat
      BY <1>1, <1>3
    <3> QED BY <3>1
  <2> QED BY <2>1, <2>2, <2>3, <2>4, Zenon
<1>7. t = u
  BY <1>3, <1>4, <1>5, SeqEqual
<1> QED BY <1>7 DEF t, u, s, y

\* The handler moves the oldest byte of the hardware FIFO to the write pointer.
LEMMA QueueStore ==
  ASSUME NEW R \in [Slot -> Byte], NEW r \in 0 .. N, NEW h \in Nat, NEW x \in Seq(Byte),
         x # <<>>, h < N, NEW w \in Slot, w = (r + h) % N
  PROVE  Queue([R EXCEPT ![w] = Head(x)], r, h + 1, Tail(x)) = Queue(R, r, h, x)
<1>0. N \in Nat \ {0}
  BY SizeAssumption
<1> DEFINE y == Tail(x)
           P == [R EXCEPT ![w] = Head(x)]
           s == Queue(R, r, h, x)
           t == Queue(P, r, h + 1, y)
<1>1. /\ y \in Seq(Byte) /\ Len(y) = Len(x) - 1 /\ Head(x) \in Byte
      /\ \A i \in 1 .. Len(y) : y[i] = x[i + 1]
  BY HeadTailProperties
<1>2. Head(x) = x[1] /\ Len(x) \in Nat \ {0}
  BY EmptySeq
<1>3. P \in [Slot -> Byte] /\ P[w] = x[1] /\ \A i \in Slot : i # w => P[i] = R[i]
  BY <1>1, <1>2
<1> HIDE DEF y, P
<1>4. /\ s \in Seq(Byte) /\ Len(s) = h + Len(x)
      /\ \A i \in 1 .. h : s[i] = R[(r + i - 1) % N]
      /\ \A i \in h + 1 .. h + Len(x) : s[i] = x[i - h]
  BY QueueIsSeq, Zenon DEF IsQueue
<1>5. h + 1 \in Nat
  OBVIOUS
<1>6. /\ t \in Seq(Byte) /\ Len(t) = h + 1 + Len(y)
      /\ \A i \in 1 .. h + 1 : t[i] = P[(r + i - 1) % N]
      /\ \A i \in h + 1 + 1 .. h + 1 + Len(y) : t[i] = y[i - (h + 1)]
  BY <1>1, <1>3, <1>5, QueueIsSeq, Zenon DEF IsQueue
<1> HIDE DEF s, t
<1>7. Len(t) = Len(s) /\ Len(s) = h + Len(x)
  BY <1>1, <1>2, <1>4, <1>6
<1>8. ASSUME NEW i \in 1 .. Len(t) PROVE t[i] = s[i]
  <2>1. CASE i \in 1 .. h
    <3> DEFINE a == r + i - 1
               d == h + 1 - i
    <3>1. a \in Nat /\ d \in 1 .. N - 1 /\ a + d = r + h
      BY <1>0, <2>1
    <3>2. (a + d) % N # a % N /\ a % N \in Slot
      <4> HIDE DEF a, d
      <4> QED BY <1>0, <3>1, ModDistinct, DivMod DEF Slot
    <3>3. (r + i - 1) % N # w /\ (r + i - 1) % N \in Slot
      BY <3>1, <3>2, Zenon
    <3>4. i \in 1 .. h + 1
      BY <2>1
    <3>5. t[i] = P[(r + i - 1) % N] /\ s[i] = R[(r + i - 1) % N]
      BY <1>4, <1>6, <2>1, <3>4, Zenon
    <3> QED BY <1>3, <3>3, <3>5, Zenon
  <2>2. CASE i = h + 1
    <3>1. i \in 1 .. h + 1 /\ i \in h + 1 .. h + Len(x) /\ r + i - 1 = r + h /\ i - h = 1
      BY <1>2, <2>2
    <3>2. t[i] = P[(r + i - 1) % N] /\ s[i] = x[i - h]
      BY <1>4, <1>6, <3>1, Zenon
    <3> QED BY <1>3, <3>1, <3>2, Zenon
  <2>3. CASE i \in h + 1 + 1 .. h + 1 + Len(y)
    <3>1. /\ i \in h + 1 .. h + Len(x)
          /\ i - (h + 1) \in 1 .. Len(y) /\ i - (h + 1) + 1 = i - h
      BY <1>1, <1>2, <2>3
    <3>2. t[i] = y[i - (h + 1)] /\ s[i] = x[i - h]
      BY <1>4, <1>6, <2>3, <3>1, Zenon
    <3>3. y[i - (h + 1)] = x[i - (h + 1) + 1]
      BY <1>1, <3>1, Zenon
    <3> QED BY <3>1, <3>2, <3>3, Zenon
  <2>4. i \in 1 .. h \/ i = h + 1 \/ i \in h + 1 + 1 .. h + 1 + Len(y)
    BY <1>1, <1>2, <1>6
  <2> QED BY <2>1, <2>2, <2>3, <2>4
<1>9. t = s
  BY <1>4, <1>6, <1>7, <1>8, SeqEqual
<1> QED BY <1>9 DEF t, s, P, y

\* main takes the byte at the read pointer.
LEMMA QueueGet ==
  ASSUME NEW R \in [Slot -> Byte], NEW r \in Slot, NEW h \in Nat \ {0}, NEW x \in Seq(Byte)
  PROVE  /\ Queue(R, r, h, x) # <<>>
         /\ Head(Queue(R, r, h, x)) = R[r]
         /\ Tail(Queue(R, r, h, x)) = Queue(R, r + 1, h - 1, x)
<1>0. N \in Nat \ {0}
  BY SizeAssumption
<1>1. r \in 0 .. N /\ h \in Nat /\ r + 1 \in 0 .. N /\ h - 1 \in Nat /\ Len(x) \in Nat
  BY <1>0 DEF Slot
<1>a. /\ IsQueue(Queue(R, r, h, x), R, r, h, x)
      /\ IsQueue(Queue(R, r + 1, h - 1, x), R, r + 1, h - 1, x)
  BY <1>1, QueueIsSeq
<1> DEFINE s == Queue(R, r, h, x)
           t == Queue(R, r + 1, h - 1, x)
           u == Tail(s)
<1>2. /\ s \in Seq(Byte) /\ Len(s) = h + Len(x)
      /\ \A i \in 1 .. h : s[i] = R[(r + i - 1) % N]
      /\ \A i \in h + 1 .. h + Len(x) : s[i] = x[i - h]
  BY <1>a, Zenon DEF IsQueue
<1>3. /\ t \in Seq(Byte) /\ Len(t) = h - 1 + Len(x)
      /\ \A i \in 1 .. h - 1 : t[i] = R[(r + 1 + i - 1) % N]
      /\ \A i \in h - 1 + 1 .. h - 1 + Len(x) : t[i] = x[i - (h - 1)]
  BY <1>a, Zenon DEF IsQueue
<1> HIDE DEF s, t
<1>4. s # <<>>
  <2>1. Len(s) # 0
    BY <1>1, <1>2
  <2> QED BY <2>1, EmptySeq
<1>5. Head(s) = R[r]
  <2>1. Head(s) = s[1]
    BY <1>2, <1>4
  <2>2. 1 \in 1 .. h /\ r + 1 - 1 = r
    BY <1>1
  <2>3. s[1] = R[(r + 1 - 1) % N]
    BY <1>2, <2>2, Zenon
  <2>4. r % N = r
    BY <1>0, ModSmall DEF Slot
  <2> QED BY <2>1, <2>2, <2>3, <2>4, Zenon
<1>6. /\ u \in Seq(Byte) /\ Len(u) = Len(s) - 1
      /\ \A i \in 1 .. Len(u) : u[i] = s[i + 1]
  BY <1>2, <1>4, HeadTailProperties
<1> HIDE DEF u
<1>7. ASSUME NEW i \in 1 .. Len(u) PROVE u[i] = t[i]
  <2>1. CASE i \in 1 .. h - 1
    <3>1. i + 1 \in 1 .. h /\ r + (i + 1) - 1 = r + 1 + i - 1
      BY <1>1, <2>1
    <3>2. s[i + 1] = R[(r + (i + 1) - 1) % N] /\ t[i] = R[(r + 1 + i - 1) % N]
      BY <1>2, <1>3, <2>1, <3>1, Zenon
    <3> QED BY <1>6, <3>1, <3>2, Zenon
  <2>2. CASE i \in h - 1 + 1 .. h - 1 + Len(x)
    <3>1. i + 1 \in h + 1 .. h + Len(x) /\ (i + 1) - h = i - (h - 1)
      BY <1>1, <2>2
    <3>2. s[i + 1] = x[(i + 1) - h]
      BY <1>2, <3>1, Zenon
    <3>3. t[i] = x[i - (h - 1)]
      BY <1>3, <2>2, Zenon
    <3> QED BY <1>6, <3>1, <3>2, <3>3, Zenon
  <2>3. i \in 1 .. h - 1 \/ i \in h - 1 + 1 .. h - 1 + Len(x)
    BY <1>1, <1>2, <1>6
  <2> QED BY <2>1, <2>2, <2>3
<1>8. Len(u) = Len(t)
  <2>1. Len(u) = (h + Len(x)) - 1 /\ Len(t) = h - 1 + Len(x)
    BY <1>2, <1>3, <1>6, Zenon
  <2> QED BY <1>1, <2>1
<1>9. u = t
  BY <1>3, <1>6, <1>7, <1>8, SeqEqual
<1> QED BY <1>4, <1>5, <1>9 DEF u, s, t

\* The read pointer wraps: the same slots.
LEMMA QueueWrap ==
  ASSUME NEW R, NEW h \in Nat, NEW x
  PROVE  Queue(R, N, h, x) = Queue(R, 0, h, x)
<1>0. N \in Nat \ {0}
  BY SizeAssumption
<1>1. \A i \in 1 .. h : (N + i - 1) % N = (0 + i - 1) % N
  <2> SUFFICES ASSUME NEW i \in 1 .. h PROVE (N + i - 1) % N = (0 + i - 1) % N
    OBVIOUS
  <2> DEFINE a == i - 1
  <2>1. a \in Nat /\ N + i - 1 = a + 1 * N /\ 0 + i - 1 = a
    BY <1>0
  <2> HIDE DEF a
  <2>2. 1 \in Nat
    OBVIOUS
  <2>3. (a + 1 * N) % N = a % N
    BY <1>0, <2>1, <2>2, ModLaps, Zenon
  <2> QED BY <2>1, <2>3, Zenon
<1>2. [i \in 1 .. h |-> R[(N + i - 1) % N]] = [i \in 1 .. h |-> R[(0 + i - 1) % N]]
  BY <1>1
<1> QED BY <1>2 DEF Queue

\* Nothing in the ring.
LEMMA QueueEmpty ==
  ASSUME NEW R \in [Slot -> Byte], NEW x \in Seq(Byte)
  PROVE  Queue(R, 0, 0, x) = x
<1>0. 0 \in 0 .. N /\ 0 \in Nat
  BY SizeAssumption
<1> DEFINE s == Queue(R, 0, 0, x)
<1>1. /\ s \in Seq(Byte) /\ Len(s) = 0 + Len(x)
      /\ \A i \in 0 + 1 .. 0 + Len(x) : s[i] = x[i - 0]
  BY <1>0, QueueIsSeq, Zenon DEF IsQueue
<1> HIDE DEF s
<1>2. Len(s) = Len(x) /\ \A i \in 1 .. Len(s) : s[i] = x[i]
  BY <1>1, LenProperties
<1>3. s = x
  BY <1>1, <1>2, SeqEqual
<1> QED BY <1>3 DEF s

\* For a paced sender nothing happens before the ring is set up, and the ring always
\* has room for what the hardware FIFO holds.
PacedInv ==
  paced =>
    /\ ~torn
    /\ pc \in Booting => hw = <<>> /\ count = 0
    /\ pc \in Running => count + Len(hw) <= N
    /\ pc = "dec" => count > 0

LEMMA PacedKept == [Next]_vars => paced' = paced
  BY DEF Next, Isr, Initialize, Consume, Arrive, IsrEnter, IsrStore, IsrDone, IsrReturn, InitCount,
         InitRd, InitWr, Fetch, Decrement, Wrap, vars, mainVars, hwVars

\* What a store does to the count and the FIFO, if the ring's fill never reaches the
\* count's width.
LEMMA StoreCounts ==
  ASSUME N < W, TypeInv, PacedInv, paced, IsrStore
  PROVE  /\ pc \in Running /\ wr \in Slot
         /\ hw \in Seq(Byte) /\ hw # <<>> /\ hw' = Tail(hw) /\ Len(hw) \in Nat \ {0}
         /\ Len(hw') = Len(hw) - 1
         /\ count \in Nat /\ count < N /\ count' = count + 1
         /\ UNCHANGED <<rd, pc, got, paced>>
<1>0. N \in Nat \ {0} /\ W \in Nat \ {0}
  BY SizeAssumption
<1>1. hw # <<>> /\ hw' = Tail(hw) /\ hw \in Seq(Byte) /\ UNCHANGED <<rd, pc, got, paced>>
  BY DEF IsrStore, mainVars, TypeInv, TypeOK
<1>2. Len(hw) \in Nat \ {0} /\ Len(hw') = Len(hw) - 1
  BY <1>1, EmptySeq, HeadTailProperties
<1>3. pc \in Running
  BY <1>1 DEF PacedInv, TypeInv, TypeOK
<1>4. wr \in Slot
  BY <1>3 DEF TypeInv, PointersOK
<1>5. count \in 0 .. W - 1 /\ count + Len(hw) <= N
  BY <1>3 DEF PacedInv, TypeInv, TypeOK
<1>6. count \in Nat /\ count < N /\ count + 1 \in 0 .. W - 1
  BY <1>0, <1>2, <1>5
<1>7. count' = count + 1
  BY <1>0, <1>6, ModSmall DEF IsrStore, CountUp
<1> QED BY <1>1, <1>2, <1>3, <1>4, <1>6, <1>7

LEMMA PacedInvStep ==
  ASSUME N < W, TypeInv, PacedInv, [Next]_vars
  PROVE  PacedInv'
<1> SUFFICES ASSUME paced, paced' PROVE PacedInv'
  BY PacedKept DEF PacedInv
<1>0. N \in Nat \ {0} /\ W \in Nat \ {0}
  BY SizeAssumption
<1>a. count \in 0 .. W - 1 /\ hw \in Seq(Byte) /\ Len(hw) \in Nat /\ pc \in Booting \cup Running
  BY LenProperties DEF TypeInv, TypeOK
<1>b. /\ ~torn
      /\ pc \in Booting => hw = <<>> /\ count = 0
      /\ pc \in Running => count + Len(hw) <= N
      /\ pc = "dec" => count > 0
  BY DEF PacedInv
<1>1. ASSUME NEW b \in Byte, Arrive(b) PROVE PacedInv'
  <2>1. /\ pc \in Running /\ count + Len(hw) < N
        /\ hw' = Append(hw, b) /\ UNCHANGED <<count, torn, pc>>
    BY <1>1 DEF Arrive, mainVars
  <2>2. Len(hw') = Len(hw) + 1
    BY <1>a, <2>1
  <2>3. count' + Len(hw') <= N
    BY <1>0, <1>a, <2>1, <2>2
  <2> QED BY <1>b, <2>1, <2>3 DEF PacedInv, Booting, Running
<1>2. CASE IsrStore
  <2>1. torn' = FALSE
    BY <1>2, <1>b, StoreCounts DEF IsrStore, Running
  <2>2. /\ pc \in Running /\ pc' = pc /\ Len(hw) \in Nat /\ Len(hw') = Len(hw) - 1
        /\ count \in Nat /\ count' = count + 1
    BY <1>2, StoreCounts
  <2> QED BY <1>b, <2>1, <2>2 DEF PacedInv, Booting, Running
<1>3. CASE IsrEnter \/ IsrDone \/ IsrReturn
  BY <1>3, <1>b DEF IsrEnter, IsrDone, IsrReturn, mainVars, PacedInv
<1>4. CASE InitCount \/ InitRd
  BY <1>4, <1>b DEF InitCount, InitRd, hwVars, PacedInv, Booting, Running
<1>5. CASE InitWr
  <2>1. hw' = <<>> /\ count' = 0 /\ pc' = "poll" /\ torn' = torn
    BY <1>5, <1>b DEF InitWr, hwVars, Booting
  <2>2. Len(hw') = 0
    BY <2>1, EmptySeq
  <2> QED BY <1>0, <1>b, <2>1, <2>2 DEF PacedInv, Booting
<1>6. CASE Fetch
  BY <1>6, <1>b DEF Fetch, hwVars, PacedInv, Booting, Running
<1>7. CASE Decrement
  <2>1. count' = count - 1
    BY <1>7, <1>a, <1>b, HeldPred DEF Decrement
  <2>2. pc = "dec" /\ pc' = "wrap" /\ UNCHANGED <<hw, torn>>
    BY <1>7 DEF Decrement, hwVars
  <2> QED BY <1>0, <1>a, <1>b, <2>1, <2>2 DEF PacedInv, Booting, Running
<1>8. CASE Wrap
  BY <1>8, <1>b DEF Wrap, hwVars, PacedInv, Booting, Running
<1>9. CASE UNCHANGED vars
  BY <1>9, <1>b DEF vars, PacedInv
<1> QED
  BY <1>1, <1>2, <1>3, <1>4, <1>5, <1>6, <1>7, <1>8, <1>9 DEF Next, Isr, Initialize, Consume

FInv == TypeInv /\ RingAligned /\ PacedInv

LEMMA FifoStep ==
  ASSUME N < W, FInv, [Next]_vars
  PROVE  [Fifo!Next]_Fifo!vars
<1> DEFINE out == IF paced THEN got ELSE Zero
<1> SUFFICES \/ UNCHANGED <<Pending, out>>
             \/ \E b \in Byte : Pending' = Append(Pending, b) /\ out' = out
             \/ Pending # <<>> /\ out' = Head(Pending) /\ Pending' = Tail(Pending)
  BY DEF Fifo!Next, Fifo!vars, Fifo!Put, Fifo!Get
<1>0. N \in Nat \ {0} /\ W \in Nat \ {0}
  BY SizeAssumption
<1>p. paced' = paced
  BY PacedKept
<1>1. CASE ~paced
  BY <1>1, <1>p DEF Pending
<1>2. CASE paced
  <2> USE <1>2, <1>p
  <2>a. /\ ring \in [Slot -> Byte] /\ count \in 0 .. W - 1
        /\ hw \in Seq(Byte) /\ Len(hw) \in Nat /\ pc \in Booting \cup Running
    BY LenProperties DEF FInv, TypeInv, TypeOK
  <2>b. pc \in Running =>
          /\ Pending = Queue(ring, rd, Held, hw) /\ Held \in 0 .. count
          /\ rd \in 0 .. N /\ wr \in Slot /\ (rd + Held) % N = wr
    <3>1. pc \in Running => Held \in 0 .. count
      BY <2>a, HeldPred DEF Held, FInv, PacedInv
    <3>2. pc \in Running => Aligned
      BY DEF FInv, PacedInv, RingAligned
    <3> QED BY <3>1, <3>2 DEF Pending, Queue, Aligned, Running, Booting
  <2>c. pc \in Booting => Pending = <<>>
    BY DEF Pending
  <2>d. pc' \in Running => Pending' = Queue(ring', rd', Held', hw')
    BY DEF Pending, Queue, Running, Booting
  <2>1. ASSUME UNCHANGED <<ring, rd, count, pc, got, hw>> PROVE UNCHANGED <<Pending, out>>
    BY <2>1 DEF Pending, Held
  <2>2. ASSUME NEW b \in Byte, Arrive(b) PROVE Pending' = Append(Pending, b) /\ out' = out
    <3>1. /\ pc \in Running /\ pc' = pc /\ hw' = Append(hw, b)
          /\ UNCHANGED <<ring, rd, count, got>>
      BY <2>2 DEF Arrive, mainVars
    <3>2. Held' = Held /\ Held \in Nat
      BY <2>a, <2>b, <3>1 DEF Held
    <3>3. Queue(ring, rd, Held, Append(hw, b)) = Append(Queue(ring, rd, Held, hw), b)
      <4> DEFINE h == Held
      <4>1. ring \in [Slot -> Byte] /\ rd \in 0 .. N /\ h \in Nat /\ hw \in Seq(Byte)
        BY <2>a, <2>b, <3>1, <3>2
      <4> HIDE DEF h
      <4>2. Queue(ring, rd, h, Append(hw, b)) = Append(Queue(ring, rd, h, hw), b)
        BY <4>1, QueuePut, Zenon
      <4> QED BY <4>2 DEF h
    <3> QED BY <2>b, <2>d, <3>1, <3>2, <3>3
  <2>3. CASE IsrStore
    <3>1. /\ pc \in Running /\ wr \in Slot /\ hw # <<>> /\ hw' = Tail(hw)
          /\ count < N /\ count' = count + 1 /\ UNCHANGED <<rd, pc, got>>
      BY <2>3, StoreCounts DEF FInv
    <3>2. ring' = [ring EXCEPT ![wr] = Head(hw)]
      BY <1>0, <2>3, <3>1 DEF IsrStore, Slot, Null
    <3>3. Held \in Nat /\ Held < N
      BY <1>0, <2>a, <2>b, <3>1
    <3>4. Held' = Held + 1
      <4>1. CASE pc = "dec"
        <5>1. count > 0 /\ count + 1 - 1 = count /\ count + 1 \in 0 .. W - 1 /\ count + 1 > 0
          BY <1>0, <2>a, <3>1, <4>1 DEF FInv, PacedInv
        <5>2. (count - 1) % W = count - 1 /\ ((count + 1) - 1) % W = (count + 1) - 1
          BY <2>a, <5>1, HeldPred
        <5>3. Held = (count - 1) % W /\ Held' = ((count + 1) - 1) % W
          BY <3>1, <4>1 DEF Held
        <5> QED BY <2>a, <5>2, <5>3
      <4>2. CASE pc # "dec"
        BY <3>1, <4>2 DEF Held
      <4> QED BY <4>1, <4>2
    <3>5. Queue([ring EXCEPT ![wr] = Head(hw)], rd, Held + 1, Tail(hw)) = Queue(ring, rd, Held, hw)
      BY <2>a, <2>b, <3>1, <3>3, QueueStore
    <3>6. UNCHANGED <<Pending, out>>
      BY <2>b, <2>d, <3>1, <3>2, <3>4, <3>5
    <3> QED BY <3>6
  <2>4. CASE IsrEnter \/ IsrDone \/ IsrReturn
    BY <2>1, <2>4 DEF IsrEnter, IsrDone, IsrReturn, mainVars
  <2>5. CASE InitCount \/ InitRd
    <3>1. pc \in Booting /\ pc' \in Booting /\ got' = got
      BY <2>5 DEF InitCount, InitRd, Booting
    <3> QED BY <3>1 DEF Pending
  <2>6. CASE InitWr
    <3>1. /\ pc = "initWr" /\ pc' = "poll" /\ UNCHANGED <<ring, rd, count, got, hw>>
      BY <2>6 DEF InitWr, hwVars
    <3>2. hw = <<>> /\ count = 0 /\ rd = 0
      BY <3>1 DEF FInv, PacedInv, TypeInv, PointersOK, Booting
    <3>3. Pending' = Queue(ring, 0, 0, <<>>) /\ Pending = <<>>
      BY <2>c, <2>d, <3>1, <3>2 DEF Held, Running, Booting
    <3>4. Queue(ring, 0, 0, <<>>) = <<>>
      BY <2>a, <3>2, QueueEmpty
    <3> QED BY <3>1, <3>3, <3>4
  <2>7. CASE Fetch
    <3>1. /\ pc = "poll" /\ pc' = "dec" /\ count > 0 /\ got' = ring[rd] /\ rd' = rd + 1
          /\ UNCHANGED <<ring, count, hw>>
      BY <2>7 DEF Fetch, hwVars
    <3>2. rd \in Slot /\ Held = count
      BY <3>1 DEF FInv, TypeInv, PointersOK, Held
    <3>3. Held' = count - 1 /\ count \in Nat \ {0}
      BY <2>a, <3>1, HeldPred DEF Held
    <3>4. /\ Queue(ring, rd, count, hw) # <<>>
          /\ Head(Queue(ring, rd, count, hw)) = ring[rd]
          /\ Tail(Queue(ring, rd, count, hw)) = Queue(ring, rd + 1, count - 1, hw)
      BY <2>a, <3>2, <3>3, QueueGet
    <3> QED BY <2>b, <2>d, <3>1, <3>2, <3>3, <3>4 DEF Running
  <2>8. CASE Decrement
    <3>1. /\ pc = "dec" /\ pc' = "wrap" /\ count' = (count - 1) % W
          /\ UNCHANGED <<ring, rd, got, hw>>
      BY <2>8 DEF Decrement, hwVars
    <3>2. Held' = Held
      BY <3>1 DEF Held
    <3> QED BY <2>b, <2>d, <3>1, <3>2 DEF Running
  <2>9. CASE Wrap
    <3>1. /\ pc = "wrap" /\ pc' = "poll" /\ rd' = (IF rd >= N THEN 0 ELSE rd)
          /\ UNCHANGED <<ring, count, got, hw>>
      BY <2>9 DEF Wrap, hwVars
    <3>2. Held' = Held /\ Held \in Nat
      BY <2>a, <3>1 DEF Held
    <3>3. Queue(ring, N, Held, hw) = Queue(ring, 0, Held, hw)
      BY <3>2, QueueWrap
    <3>4. rd' = rd \/ (rd = N /\ rd' = 0)
      BY <1>0, <2>b, <3>1 DEF Running
    <3> QED BY <2>b, <2>d, <3>1, <3>2, <3>3, <3>4 DEF Running
  <2>10. CASE UNCHANGED vars
    BY <2>1, <2>10 DEF vars
  <2> QED
    BY <2>2, <2>3, <2>4, <2>5, <2>6, <2>7, <2>8, <2>9, <2>10 DEF Next, Isr, Initialize, Consume
<1> QED BY <1>1, <1>2

\* Between the interrupt and main no byte is lost, doubled or overtaken, wherever the
\* handler interrupts main: the ring implements ByteFifo, for every sender that never
\* has more bytes under way than the ring has slots, if the count can tell a full
\* ring from an empty one (256 and 64).
THEOREM RingIsFifo == ASSUME N < W PROVE Spec => FifoSpec
<1>1. Init => FInv
  BY TypeInvInit DEF FInv, Init, RingAligned, PacedInv, Booting, Running
<1>2. FInv /\ [Next]_vars => FInv'
  BY TypeInvStep, AlignedStep, PacedInvStep DEF FInv
<1>3. Init => Fifo!Init
  BY DEF Init, Fifo!Init, Pending, Booting
<1>4. FInv /\ [Next]_vars => [Fifo!Next]_Fifo!vars
  BY FifoStep
<1> QED BY <1>1, <1>2, <1>3, <1>4, PTL DEF Spec, FifoSpec, Fifo!Spec
=============================================================================
