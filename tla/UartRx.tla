------------------------------- MODULE UartRx -------------------------------
(***************************************************************************)
(* The MIDI In ring of src/midi_jack.c.  Two contexts share it:            *)
(*                                                                         *)
(*  - the UART2 receive interrupt (MIDI_U2RXInterruptHandler), which moves *)
(*    the bytes of the UART's hardware FIFO to MIDIInRxBuffer, advances    *)
(*    the write pointer and increments UARTInByteCount, with no check that *)
(*    the ring has room;                                                   *)
(*  - main, which sets the ring up in MIDI_Jack_Initialize and afterwards  *)
(*    consumes one byte at a time inside MIDI_InJackTasks: read the slot   *)
(*    and advance the pointer, decrement the count, wrap the pointer.      *)
(*                                                                         *)
(* The interrupt is on since UART2Init, that is before                     *)
(* MIDI_Jack_Initialize has given the pointers a value, and it may preempt *)
(* main between any two of its steps; main never runs while it is active.  *)
(* The increment and the decrement of the count are single instructions.   *)
(*                                                                         *)
(* A definition that nothing uses (NextSlotLate, IsrDoneLeavingOne) is a    *)
(* mutant of the one that follows it: what it would be with a slip.  Put   *)
(* in its place it shows that a property can fail.                         *)
(***************************************************************************)
EXTENDS Integers, Sequences

CONSTANTS Byte,     \* what one UART frame can carry
          Zero,     \* power-on content of the ring
          N,        \* MIDI_UART_BUFFER_SIZE
          W,        \* number of values of the uint8_t UARTInByteCount
          HwDepth   \* depth of the UART's own receive FIFO

ASSUME ZeroIsByte == Zero \in Byte
ASSUME SizeAssumption == N \in Nat \ {0} /\ W \in Nat \ {0} /\ HwDepth \in Nat \ {0}
\* 256 is a multiple of 64: this is what lets the count wrap harmlessly.
ASSUME WrapAssumption == \E m \in 1 .. W : W = m * N

VARIABLES ring,     \* MIDIInRxBuffer
          rd,       \* pRxUARTBufReadLocation as an index, N: not yet wrapped
          wr,       \* pRxUARTBufWriteLocation as an index
          count,    \* UARTInByteCount
          pc,       \* where main is
          got,      \* the byte main consumed last
          hw,       \* the UART's receive FIFO
          rxif,     \* U2RXIF
          isr,      \* where the interrupt handler is
          torn,     \* history: a byte was stored while the ring was being set up
          paced     \* the sender leaves main the time it needs; see Arrive

mainVars == <<rd, pc, got, paced>>
hwVars   == <<hw, rxif, isr, paced>>
vars     == <<ring, rd, wr, count, pc, got, hw, rxif, isr, torn, paced>>

Slot == 0 .. N - 1

\* A pointer that MIDI_Jack_Initialize has not set: NULL, and the addresses
\* just above it, none of them inside the ring.
Null == -1

Booting == {"initCount", "initRd", "initWr"}
Running == {"poll", "dec", "wrap"}

Init ==
  /\ ring = [i \in Slot |-> Zero]
  /\ rd = Null /\ wr = Null
  /\ count = 0
  /\ pc = "initCount"
  /\ got = Zero
  /\ hw = <<>> /\ rxif = FALSE /\ isr = "off"
  /\ torn = FALSE
  /\ paced \in BOOLEAN

-----------------------------------------------------------------------------
(* The UART and its interrupt handler.                                     *)

\* A frame is complete: the byte enters the hardware FIFO and U2RXIF is set.
\* Two assumptions about time, both far inside the 320 us a frame lasts: the
\* handler starts before the FIFO is full, and at most one byte completes
\* between the handler's last look at URXDA and its clearing of U2RXIF.  A paced
\* sender sends nothing while the ring is being set up, and never has more bytes
\* under way than the ring has slots; DeviceApp says when the program itself
\* grants that.
Arrive(b) ==
  /\ paced => pc \in Running /\ count + Len(hw) < N
  /\ Len(hw) < HwDepth
  /\ isr = "clear" => hw = <<>>
  /\ hw' = Append(hw, b)
  /\ rxif' = TRUE
  /\ UNCHANGED <<ring, wr, count, isr, torn, mainVars>>

\* The write pointer moves on, and wraps at the end of the ring.
NextSlotLate(i)  == IF i + 1 > N THEN 0 ELSE i + 1
NextSlotEarly(i) == IF i + 1 >= N - 1 THEN 0 ELSE i + 1
NextSlot(i)      == IF i + 1 >= N THEN 0 ELSE i + 1

\* UARTInByteCount++
CountUpSaturated(c) == IF c = W - 1 THEN c ELSE c + 1
CountUp(c)          == (c + 1) % W

IsrEnter ==
  /\ isr = "off" /\ rxif
  /\ isr' = "loop"
  /\ UNCHANGED <<ring, wr, count, hw, rxif, torn, mainVars>>

\* One turn of while (U2STAbits.URXDA).  Through a pointer that is not set the
\* byte goes to a location outside the ring.
IsrStore ==
  /\ isr = "loop" /\ hw # <<>>
  /\ hw' = Tail(hw)
  /\ count' = CountUp(count)
  /\ \/ /\ wr = Null
        /\ UNCHANGED <<ring, wr>>
     \/ /\ wr # Null
        /\ ring' = [ring EXCEPT ![wr] = Head(hw)]
        /\ wr' = NextSlot(wr)
  /\ torn' = (torn \/ pc \in {"initRd", "initWr"})
  /\ UNCHANGED <<rxif, isr, mainVars>>

\* The loop ends: the hardware FIFO is empty.
IsrDoneLeavingOne ==
  /\ isr = "loop" /\ Len(hw) <= 1
  /\ isr' = "clear"
  /\ UNCHANGED <<ring, wr, count, hw, rxif, torn, mainVars>>

IsrDone ==
  /\ isr = "loop" /\ hw = <<>>
  /\ isr' = "clear"
  /\ UNCHANGED <<ring, wr, count, hw, rxif, torn, mainVars>>

\* IFS1bits.U2RXIF = 0 and return from the interrupt.
IsrReturn ==
  /\ isr = "clear"
  /\ rxif' = FALSE
  /\ isr' = "off"
  /\ UNCHANGED <<ring, wr, count, hw, torn, mainVars>>

Isr == IsrEnter \/ IsrStore \/ IsrDone \/ IsrReturn

-----------------------------------------------------------------------------
(* main.                                                                   *)

\* MIDI_Jack_Initialize: UARTInByteCount = 0 ...
InitCount ==
  /\ isr = "off" /\ pc = "initCount"
  /\ count' = 0
  /\ pc' = "initRd"
  /\ UNCHANGED <<ring, rd, wr, got, torn, hwVars>>

\* ... pRxUARTBufReadLocation = &MIDIInRxBuffer[0] ...
InitRd ==
  /\ isr = "off" /\ pc = "initRd"
  /\ rd' = 0
  /\ pc' = "initWr"
  /\ UNCHANGED <<ring, wr, count, got, torn, hwVars>>

\* ... pRxUARTBufWriteLocation = &MIDIInRxBuffer[0].
InitWr ==
  /\ isr = "off" /\ pc = "initWr"
  /\ wr' = 0
  /\ pc' = "poll"
  /\ UNCHANGED <<ring, rd, count, got, torn, hwVars>>

\* MIDI_InJackTasks finds UARTInByteCount > 0 and decides to consume.  (When it
\* decides not to, it leaves the ring alone.)
Fetch ==
  /\ isr = "off" /\ pc = "poll" /\ count > 0
  /\ got' = ring[rd]
  /\ rd' = rd + 1
  /\ pc' = "dec"
  /\ UNCHANGED <<ring, wr, count, torn, hwVars>>

\* UARTInByteCount--
Decrement ==
  /\ isr = "off" /\ pc = "dec"
  /\ count' = (count - 1) % W
  /\ pc' = "wrap"
  /\ UNCHANGED <<ring, rd, wr, got, torn, hwVars>>

\* The wrap-around test of the read pointer.
Wrap ==
  /\ isr = "off" /\ pc = "wrap"
  /\ rd' = IF rd >= N THEN 0 ELSE rd
  /\ pc' = "poll"
  /\ UNCHANGED <<ring, wr, count, got, torn, hwVars>>

Initialize == InitCount \/ InitRd \/ InitWr
Consume    == Fetch \/ Decrement \/ Wrap

Next == (\E b \in Byte : Arrive(b)) \/ Isr \/ Initialize \/ Consume

Spec == Init /\ [][Next]_vars

-----------------------------------------------------------------------------
(* Properties.                                                             *)

TypeOK ==
  /\ ring \in [Slot -> Byte]
  /\ rd \in 0 .. N \cup {Null}
  /\ wr \in Slot \cup {Null}
  /\ count \in 0 .. W - 1
  /\ pc \in Booting \cup Running
  /\ got \in Byte
  /\ hw \in Seq(Byte)
  /\ rxif \in BOOLEAN
  /\ isr \in {"off", "loop", "clear"}
  /\ torn \in BOOLEAN
  /\ paced \in BOOLEAN

\* Bytes the count stands for, a byte that main has fetched but not yet
\* subtracted left out (modulo the width of the count).
Held == IF pc = "dec" THEN (count - 1) % W ELSE count

\* The two pointers and the count agree: main will read exactly the slots the
\* handler has written since.
Aligned == wr \in Slot /\ rd \in 0 .. N /\ (rd + Held) % N = wr

\* Whatever the interleaving, even after the ring has been overrun and even
\* after the 8-bit count has wrapped, pointers and count agree once the ring
\* is set up, unless a byte was stored between the three assignments of
\* MIDI_Jack_Initialize: the receive interrupt is already on, and a byte between
\* the reset of the count and that of the write pointer sets them apart for good.
RingAligned == pc \in Running /\ ~torn => Aligned

\* Main will read k slots beyond those the handler has written.
Apart(k) == (rd + Held) % N = (wr + k) % N

\* Pointers and count that a torn set-up has set k slots apart stay k slots apart,
\* whatever comes in and is taken out: neither an overrun nor the wrap of the
\* 8-bit count nor a ring that runs empty ever brings them together again.
ApartForGood ==
  [][\A k \in Slot : pc \in Running /\ Apart(k) => Apart(k)']_vars

-----------------------------------------------------------------------------
(* Refinement: as long as the sender is paced, the ring is a FIFO.         *)

\* The bytes received and not yet handed over: those in the ring, then those
\* still in the hardware FIFO.  Nothing is said of a sender that is not paced.
Pending ==
  IF pc \in Booting \/ ~paced THEN <<>>
  ELSE [i \in 1 .. Held |-> ring[(rd + i - 1) % N]] \o hw

Fifo == INSTANCE ByteFifo WITH q <- Pending, out <- IF paced THEN got ELSE Zero

\* The ring implements ByteFifo: every byte exactly once and in order.
FifoSpec == Fifo!Spec

\* The processor does not stop and the sender goes on sending.
LiveSpec ==
  /\ Spec
  /\ WF_vars(Isr) /\ WF_vars(Initialize) /\ WF_vars(Consume)
  /\ WF_vars(\E b \in Byte : Arrive(b))

\* A byte stranded in the hardware FIFO (its interrupt flag cleared together
\* with that of its predecessor) leaves it when the next one arrives: while a
\* paced sender goes on sending, the hardware FIFO is emptied again and again.
StrandedRecovered == (paced /\ hw # <<>>) ~> (hw = <<>>)
=============================================================================
