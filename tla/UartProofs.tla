----------------------------- MODULE UartProofs -----------------------------
(***************************************************************************)
(* Proofs about Uart, for every size of the ring buffer: the aborts of     *)
(* uart.c are unreachable, and the ring buffer implements ByteQueue.       *)
(***************************************************************************)
EXTENDS Uart, SequenceTheorems, TLAPS

\* The write or read index moves up by one, and to 0 from the end.
LEMMA FollowingIndex ==
    ASSUME NEW i \in Index
    PROVE  /\ Following(i) \in Index
           /\ Following(i) = IF i = RX_BUFFER_SIZE - 1 THEN 0 ELSE i + 1
  <1>. DEFINE n == RX_BUFFER_SIZE
  <1>1. n \in Nat \ {0} /\ i \in 0 .. n - 1
    BY SizeAssumption DEF Index
  <1>2. i + 1 \in 0 .. 2 * n - 1
    BY <1>1
  <1>3. (i + 1) % n = IF i + 1 < n THEN i + 1 ELSE i + 1 - n
    BY <1>1
  <1>. QED
    BY <1>1, <1>3 DEF Following, Index

-----------------------------------------------------------------------------
(* The indices and the wrapped flag agree.                                  *)

\* Unless the write index has wrapped and the read index has not, it is not
\* behind the read index; if it has, it is not ahead of it.  A task past its
\* test has a byte to read.  These are what keep the two aborts away.
IInv ==
    /\ TypeOK
    /\ RXWn => RXIn <= RXRn
    /\ ~ RXWn => RXRn <= RXIn
    /\ reading => UART_Available
    /\ NoUartError

\* The ring is empty at first.
LEMMA InitEstablishes == Init => IInv
  <1>. SUFFICES ASSUME Init PROVE IInv
    OBVIOUS
  <1>1. 0 \in Index
    BY SizeAssumption DEF Index
  <1>2. TypeOK
    BY <1>1, ByteAssumption DEF Init, TypeOK
  <1>. QED
    BY <1>2 DEF Init, IInv, UART_Available, NoUartError

\* The interrupt, which may come between a task's test and its read.
LEMMA IsrKeeps ==
    ASSUME IInv, NEW byte \in Byte, UART_ISR(byte)
    PROVE  IInv'
  <1>. USE DEF UART_ISR, IInv, NoUartError
  <1>1. CASE RingFull
    BY <1>1 DEF TypeOK, UART_Available
  <1>2. CASE ~ RingFull
    <2>1. RXIn \in Index /\ RXRn \in Index /\ RXIn \in Nat /\ RXRn \in Nat
      BY SizeAssumption DEF TypeOK, Index
    <2>2. RXIn' = IF RXIn = RX_BUFFER_SIZE - 1 THEN 0 ELSE RXIn + 1
      BY <1>2, <2>1, FollowingIndex
    <2>3. RXRn <= RX_BUFFER_SIZE - 1
      BY <2>1, SizeAssumption DEF Index
    <2>4. ~ (RXWn /\ RXIn' = 0)
      BY <1>2, <2>1, <2>2, <2>3, SizeAssumption DEF RingFull
    <2>5. TypeOK'
      BY <1>2, <2>1, <2>4, FollowingIndex DEF TypeOK, RingFull
    <2>6. RXWn' <=> RXWn \/ RXIn' = 0
      BY <1>2, Zenon
    <2>7. RXRn' = RXRn /\ reading' = reading
      OBVIOUS
    <2>8. CASE RXWn
      <3>1. RXWn' /\ RXIn < RXRn
        BY <1>2, <2>1, <2>6, <2>8 DEF RingFull
      <3>2. RXIn' <= RXRn'
        BY <2>1, <2>2, <2>3, <2>7, <3>1, SizeAssumption
      <3>. QED
        BY <2>4, <2>5, <2>6, <2>8, <3>1, <3>2, <1>2 DEF UART_Available
    <2>9. CASE ~ RXWn
      <3>1. RXRn <= RXIn /\ (reading => RXRn < RXIn)
        BY <2>9 DEF UART_Available
      <3>2. CASE RXIn' = 0
        <4>1. RXWn' /\ RXIn' <= RXRn'
          BY <2>1, <2>6, <2>7, <3>2
        <4>. QED
          BY <2>4, <2>5, <4>1, <1>2 DEF UART_Available
      <3>3. CASE RXIn' # 0
        <4>1. ~ RXWn' /\ RXRn' < RXIn'
          BY <2>1, <2>2, <2>6, <2>7, <2>9, <3>1, <3>3, SizeAssumption
        <4>2. RXRn' <= RXIn'
          BY <2>1, <2>2, <2>7, <3>1, <3>3, SizeAssumption
        <4>. QED
          BY <2>4, <2>5, <4>1, <4>2, <1>2 DEF UART_Available
      <3>. QED
        BY <3>2, <3>3
    <2>. QED
      BY <2>8, <2>9
  <1>. QED
    BY <1>1, <1>2

\* The read, after a test that found a byte.
LEMMA ReadKeeps ==
    ASSUME IInv, UART_Async_Receive_reads
    PROVE  IInv'
  <1>. USE DEF UART_Async_Receive_reads, IInv, NoUartError
  <1>1. RXIn \in Index /\ RXRn \in Index /\ RXIn \in Nat /\ RXRn \in Nat
    BY SizeAssumption DEF TypeOK, Index
  <1>2. RXRn' = IF RXRn = RX_BUFFER_SIZE - 1 THEN 0 ELSE RXRn + 1
    BY <1>1, FollowingIndex
  <1>3. RXIn <= RX_BUFFER_SIZE - 1
    BY <1>1, SizeAssumption DEF Index
  <1>4. ~ (~ RXWn /\ RXRn' = 0)
    BY <1>1, <1>2, <1>3, SizeAssumption DEF UART_Available
  <1>5. TypeOK'
    BY <1>1, <1>4, FollowingIndex DEF TypeOK
  <1>6. (RXWn' => RXIn' <= RXRn') /\ (~ RXWn' => RXRn' <= RXIn')
    BY <1>1, <1>2, <1>3, SizeAssumption DEF UART_Available, TypeOK
  <1>. QED
    BY <1>4, <1>5, <1>6

\* No step of the interrupt or the task disturbs it.
LEMMA StepKeeps ==
    ASSUME IInv, [Next]_uartVars
    PROVE  IInv'
  <1>1. CASE \E byte \in Byte : UART_ISR(byte)
    BY <1>1, IsrKeeps
  <1>2. CASE UART_Async_Receive_tests
    BY <1>2 DEF UART_Async_Receive_tests, IInv, TypeOK, UART_Available, NoUartError
  <1>3. CASE UART_Async_Receive_reads
    BY <1>3, ReadKeeps
  <1>4. CASE UART_Flush
    <2>1. RXIn \in Nat
      BY SizeAssumption DEF IInv, TypeOK, Index
    <2>2. TypeOK'
      BY <1>4 DEF UART_Flush, IInv, TypeOK
    <2>. QED
      BY <1>4, <2>1, <2>2 DEF UART_Flush, IInv, UART_Available, NoUartError
  <1>5. CASE UNCHANGED uartVars
    BY <1>5 DEF uartVars, IInv, TypeOK, UART_Available, NoUartError
  <1>. QED
    BY <1>1, <1>2, <1>3, <1>4, <1>5 DEF Next

\* The indices agree with the wrapped flag, always.
THEOREM IndicesAgree == Spec => []IInv
  BY InitEstablishes, StepKeeps, PTL DEF Spec

\* Both indices stay inside the buffer, and the task has in hand no more than
\* what it saw there, whenever the interrupt comes (TypeOK).
THEOREM IndicesInRange == Spec => []TypeOK
<1>1. IInv => TypeOK
  BY DEF IInv
<1>. QED
  BY <1>1, IndicesAgree, PTL

\* Neither abort of uart.c is reached, whatever the interrupt does between the
\* task's test and its read.
THEOREM UartNeverAborts == Spec => []NoUartError
  BY IndicesAgree, PTL DEF IInv

-----------------------------------------------------------------------------
(* The ring buffer implements the queue of bytes.                           *)

\* The place of the k-th byte that waits.
Slot(k) == (RXRn + k - 1) % RX_BUFFER_SIZE

\* Below twice the size, % subtracts the size once or not at all.
LEMMA SlotValue ==
    ASSUME IInv, NEW k \in 1 .. RX_BUFFER_SIZE + 1
    PROVE  /\ Slot(k) = IF RXRn + k - 1 < RX_BUFFER_SIZE
                        THEN RXRn + k - 1 ELSE RXRn + k - 1 - RX_BUFFER_SIZE
           /\ Slot(k) \in Index
  <1>. DEFINE n == RX_BUFFER_SIZE
  <1>1. n \in Nat \ {0} /\ RXRn \in 0 .. n - 1 /\ k \in 1 .. n + 1
    BY SizeAssumption DEF IInv, TypeOK, Index
  <1>2. (RXRn + k - 1) % n = IF RXRn + k - 1 < n THEN RXRn + k - 1 ELSE RXRn + k - 1 - n
    BY <1>1
  <1>. QED
    BY <1>1, <1>2 DEF Slot, Index

\* The number of bytes that wait is between 0 and the size.
LEMMA WaitingBounds ==
    ASSUME IInv
    PROVE  /\ BytesWaiting \in 0 .. RX_BUFFER_SIZE
           /\ BytesWaiting = RX_BUFFER_SIZE <=> RingFull
  BY SizeAssumption DEF IInv, TypeOK, Index, BytesWaiting, RingFull

WaitingIsSeq ==
    /\ Waiting \in Seq(Byte)
    /\ Len(Waiting) = BytesWaiting
    /\ \A k \in 1 .. BytesWaiting : Waiting[k] = RXBUFn[Slot(k)]

\* The bytes that wait are a sequence.
LEMMA WaitingSeq == IInv => WaitingIsSeq
  <1>. SUFFICES ASSUME IInv PROVE WaitingIsSeq
    OBVIOUS
  <1>1. BytesWaiting \in Nat /\ BytesWaiting <= RX_BUFFER_SIZE
    BY WaitingBounds, SizeAssumption
  <1>2. ASSUME NEW k \in 1 .. BytesWaiting PROVE RXBUFn[Slot(k)] \in Byte
    <2>1. k \in 1 .. RX_BUFFER_SIZE + 1
      BY <1>1, SizeAssumption
    <2>. QED
      BY <2>1, SlotValue DEF IInv, TypeOK
  <1>3. Waiting = [k \in 1 .. BytesWaiting |-> RXBUFn[Slot(k)]]
    BY DEF Waiting, Slot
  <1>4. Waiting \in [1 .. BytesWaiting -> Byte]
    BY <1>2, <1>3
  <1>. QED
    BY <1>1, <1>3, <1>4 DEF WaitingIsSeq

\* And so they are after a step.
LEMMA WaitingSeqNext == IInv' => WaitingIsSeq'
  BY WaitingSeq, PTL

\* The interrupt adds one byte to those that wait.
LEMMA IsrCounts ==
    ASSUME IInv, NEW byte \in Byte, UART_ISR(byte), ~ RingFull
    PROVE  BytesWaiting' = BytesWaiting + 1
  <1>1. RXIn \in Index /\ RXRn \in Index /\ RXIn \in Nat /\ RXRn \in Nat
    BY SizeAssumption DEF IInv, TypeOK, Index
  <1>2. RXIn' = IF RXIn = RX_BUFFER_SIZE - 1 THEN 0 ELSE RXIn + 1
    BY <1>1, FollowingIndex DEF UART_ISR
  <1>3. RXWn' <=> RXWn \/ RXIn' = 0
    BY Zenon DEF UART_ISR
  <1>4. RXRn' = RXRn
    BY DEF UART_ISR
  <1>5. RXWn => RXIn < RXRn
    BY <1>1 DEF IInv, RingFull
  <1>. QED
    BY <1>1, <1>2, <1>3, <1>4, <1>5, SizeAssumption DEF BytesWaiting, Index

\* The read takes one byte from those that wait.
LEMMA ReadCounts ==
    ASSUME IInv, UART_Async_Receive_reads
    PROVE  BytesWaiting' = BytesWaiting - 1
  <1>1. RXIn \in Index /\ RXRn \in Index /\ RXIn \in Nat /\ RXRn \in Nat
    BY SizeAssumption DEF IInv, TypeOK, Index
  <1>2. RXRn' = IF RXRn = RX_BUFFER_SIZE - 1 THEN 0 ELSE RXRn + 1
    BY <1>1, FollowingIndex DEF UART_Async_Receive_reads
  <1>3. RXWn' <=> RXWn /\ RXRn' # 0
    BY Zenon DEF UART_Async_Receive_reads
  <1>4. RXIn' = RXIn /\ UART_Available
    BY DEF UART_Async_Receive_reads, IInv
  <1>. QED
    BY <1>1, <1>2, <1>3, <1>4, SizeAssumption DEF BytesWaiting, Index, UART_Available

\* The write index is the place after those that wait.
LEMMA SlotOfWrite ==
    ASSUME IInv, NEW k \in 1 .. BytesWaiting + 1, BytesWaiting < RX_BUFFER_SIZE
    PROVE  Slot(k) \in Index /\ (Slot(k) = RXIn <=> k = BytesWaiting + 1)
  <1>1. BytesWaiting \in Nat /\ k \in 1 .. RX_BUFFER_SIZE + 1
    BY WaitingBounds, SizeAssumption
  <1>2. RXIn \in Nat /\ RXRn \in Nat /\ RXIn < RX_BUFFER_SIZE /\ RXRn < RX_BUFFER_SIZE
    BY SizeAssumption DEF IInv, TypeOK, Index
  <1>3. /\ Slot(k) = IF RXRn + k - 1 < RX_BUFFER_SIZE
                     THEN RXRn + k - 1 ELSE RXRn + k - 1 - RX_BUFFER_SIZE
        /\ Slot(k) \in Index
    BY <1>1, SlotValue
  <1>. QED
    BY <1>1, <1>2, <1>3, SizeAssumption DEF IInv, BytesWaiting

\* After a read the k-th byte is the one that was next to it.
LEMMA SlotAfterRead ==
    ASSUME IInv, UART_Async_Receive_reads, NEW k \in 1 .. RX_BUFFER_SIZE
    PROVE  Slot(k)' = Slot(k + 1)
  <1>1. RXRn \in Index /\ RXRn \in Nat /\ RXRn < RX_BUFFER_SIZE /\ k \in Nat
    BY SizeAssumption DEF IInv, TypeOK, Index
  <1>2. RXRn' = IF RXRn = RX_BUFFER_SIZE - 1 THEN 0 ELSE RXRn + 1
    BY <1>1, FollowingIndex DEF UART_Async_Receive_reads
  <1>3. k \in 1 .. RX_BUFFER_SIZE + 1 /\ k + 1 \in 1 .. RX_BUFFER_SIZE + 1
    BY SizeAssumption
  <1>4. Slot(k)' = IF RXRn' + k - 1 < RX_BUFFER_SIZE
                   THEN RXRn' + k - 1 ELSE RXRn' + k - 1 - RX_BUFFER_SIZE
    BY <1>1, <1>2, <1>3, SizeAssumption DEF Slot
  <1>5. Slot(k + 1) = IF RXRn + (k + 1) - 1 < RX_BUFFER_SIZE
                      THEN RXRn + (k + 1) - 1 ELSE RXRn + (k + 1) - 1 - RX_BUFFER_SIZE
    BY <1>3, SlotValue
  <1>. QED
    BY <1>1, <1>2, <1>3, <1>4, <1>5, SizeAssumption

\* The interrupt appends the byte it received, or drops it if the ring is full.
LEMMA IsrReceives ==
    ASSUME IInv, NEW byte \in Byte, UART_ISR(byte)
    PROVE  [Queue!Next]_(Queue!queueVars)
  <1>1. out' = out
    BY DEF UART_ISR
  <1>2. CASE RingFull
    <2>1. Waiting' = Waiting
      BY <1>2 DEF UART_ISR, Waiting, BytesWaiting
    <2>. QED
      BY <1>1, <2>1 DEF Queue!queueVars
  <1>3. CASE ~ RingFull
    <2>1. IInv'
      BY IsrKeeps
    <2>2. BytesWaiting \in Nat /\ BytesWaiting < RX_BUFFER_SIZE
      BY <1>3, WaitingBounds, SizeAssumption
    <2>3. BytesWaiting' = BytesWaiting + 1
      BY <1>3, IsrCounts
    <2>4. /\ Waiting \in Seq(Byte) /\ Len(Waiting) = BytesWaiting
          /\ \A k \in 1 .. BytesWaiting : Waiting[k] = RXBUFn[Slot(k)]
      BY WaitingSeq DEF WaitingIsSeq
    <2>5. /\ Waiting' \in Seq(Byte) /\ Len(Waiting') = BytesWaiting'
          /\ \A k \in 1 .. BytesWaiting' : Waiting'[k] = RXBUFn'[Slot(k)']
      BY <2>1, WaitingSeqNext DEF WaitingIsSeq
    <2>6. /\ Append(Waiting, byte) \in Seq(Byte)
          /\ Len(Append(Waiting, byte)) = BytesWaiting + 1
          /\ \A k \in 1 .. BytesWaiting : Append(Waiting, byte)[k] = Waiting[k]
          /\ Append(Waiting, byte)[BytesWaiting + 1] = byte
      BY <2>4, AppendProperties
    <2>7. RXBUFn' = [RXBUFn EXCEPT ![RXIn] = byte] /\ RXBUFn \in [Index -> Byte] /\ RXIn \in Index
      BY <1>3 DEF UART_ISR, IInv, TypeOK
    <2>8. ASSUME NEW k \in 1 .. BytesWaiting + 1
          PROVE  Waiting'[k] = Append(Waiting, byte)[k]
      <3>1. Slot(k)' = Slot(k)
        BY DEF UART_ISR, Slot
      <3>2. Slot(k) \in Index /\ (Slot(k) = RXIn <=> k = BytesWaiting + 1)
        BY <2>2, SlotOfWrite
      <3>3. Waiting'[k] = RXBUFn'[Slot(k)]
        BY <2>3, <2>5, <3>1
      <3>4. CASE k = BytesWaiting + 1
        BY <2>6, <2>7, <3>2, <3>3, <3>4
      <3>5. CASE k # BytesWaiting + 1
        <4>1. k \in 1 .. BytesWaiting
          BY <2>2, <3>5
        <4>. QED
          BY <2>4, <2>6, <2>7, <3>2, <3>3, <3>5, <4>1
      <3>. QED
        BY <3>4, <3>5
    <2>9. Waiting' = Append(Waiting, byte)
      BY <2>3, <2>5, <2>6, <2>8, SeqEqual
    <2>10. ~ Queue!Full
      BY <2>2, <2>4 DEF Queue!Full
    <2>. QED
      BY <1>1, <2>9, <2>10 DEF Queue!Next, Queue!Receive
  <1>. QED
    BY <1>2, <1>3

\* The task takes the oldest byte.
LEMMA ReadReads ==
    ASSUME IInv, UART_Async_Receive_reads
    PROVE  Queue!Read
  <1>1. IInv'
    BY ReadKeeps
  <1>2. BytesWaiting \in 1 .. RX_BUFFER_SIZE
    BY WaitingBounds, SizeAssumption
       DEF IInv, TypeOK, UART_Async_Receive_reads, UART_Available, BytesWaiting, Index
  <1>3. BytesWaiting' = BytesWaiting - 1
    BY ReadCounts
  <1>4. /\ Waiting \in Seq(Byte) /\ Len(Waiting) = BytesWaiting
        /\ \A k \in 1 .. BytesWaiting : Waiting[k] = RXBUFn[Slot(k)]
    BY WaitingSeq DEF WaitingIsSeq
  <1>5. /\ Waiting' \in Seq(Byte) /\ Len(Waiting') = BytesWaiting'
        /\ \A k \in 1 .. BytesWaiting' : Waiting'[k] = RXBUFn'[Slot(k)']
    BY <1>1, WaitingSeqNext DEF WaitingIsSeq
  <1>6. Waiting # <<>>
    BY <1>2, <1>4
  <1>7. /\ Tail(Waiting) \in Seq(Byte) /\ Len(Tail(Waiting)) = BytesWaiting - 1
        /\ \A k \in 1 .. BytesWaiting - 1 : Tail(Waiting)[k] = Waiting[k + 1]
    BY <1>4, <1>6, HeadTailProperties
  <1>8. ASSUME NEW k \in 1 .. BytesWaiting - 1
        PROVE  Waiting'[k] = Tail(Waiting)[k]
    <2>1. Slot(k)' = Slot(k + 1)
      <3>1. k \in 1 .. RX_BUFFER_SIZE
        BY <1>2, SizeAssumption
      <3>. QED
        BY <3>1, SlotAfterRead
    <2>2. RXBUFn' = RXBUFn
      BY DEF UART_Async_Receive_reads
    <2>3. k + 1 \in 1 .. BytesWaiting
      BY <1>2
    <2>. QED
      BY <1>3, <1>4, <1>5, <1>7, <2>1, <2>2, <2>3
  <1>9. Waiting' = Tail(Waiting)
    BY <1>3, <1>5, <1>7, <1>8, SeqEqual
  <1>10. out' = Head(Waiting)
    <2>1. Slot(1) = RXRn
      BY SlotValue, SizeAssumption DEF IInv, TypeOK, Index
    <2>2. Waiting[1] = RXBUFn[RXRn]
      BY <1>2, <1>4, <2>1
    <2>. QED
      BY <1>4, <1>6, <2>2 DEF UART_Async_Receive_reads
  <1>. QED
    BY <1>6, <1>9, <1>10 DEF Queue!Read

\* Every step of the channel is a step of the queue, or none.
LEMMA StepRefines ==
    ASSUME IInv, [Next]_uartVars
    PROVE  [Queue!Next]_(Queue!queueVars)
  <1>1. CASE \E byte \in Byte : UART_ISR(byte)
    BY <1>1, IsrReceives
  <1>2. CASE UART_Async_Receive_tests
    BY <1>2 DEF UART_Async_Receive_tests, Queue!queueVars, Waiting, BytesWaiting
  <1>3. CASE UART_Async_Receive_reads
    BY <1>3, ReadReads DEF Queue!Next
  <1>4. CASE UART_Flush
    <2>1. IInv'
      BY StepKeeps
    <2>2. BytesWaiting' = 0
      BY <1>4, SizeAssumption DEF UART_Flush, BytesWaiting, IInv, TypeOK, Index
    <2>3. Waiting' \in Seq(Byte) /\ Len(Waiting') = 0
      BY <2>1, <2>2, WaitingSeqNext DEF WaitingIsSeq
    <2>4. Waiting' = <<>>
      BY <2>3
    <2>. QED
      BY <1>4, <2>4 DEF UART_Flush, Queue!Next, Queue!Flush
  <1>5. CASE UNCHANGED uartVars
    BY <1>5 DEF uartVars, Queue!queueVars, Waiting, BytesWaiting
  <1>. QED
    BY <1>1, <1>2, <1>3, <1>4, <1>5 DEF Next

\* Nothing waits at first.
LEMMA InitRefines == Init => Queue!Init
  <1>. SUFFICES ASSUME Init PROVE Queue!Init
    OBVIOUS
  <1>1. BytesWaiting = 0
    BY DEF Init, BytesWaiting
  <1>2. Waiting \in Seq(Byte) /\ Len(Waiting) = 0
    BY <1>1, InitEstablishes, WaitingSeq DEF WaitingIsSeq
  <1>. QED
    BY <1>2 DEF Init, Queue!Init

\* The ring buffer, read and written by two threads of control and wrapped by
\* indices of its size, is a queue of bytes.
THEOREM ChannelIsByteQueue == Spec => IsByteQueue
  BY InitRefines, StepRefines, IndicesAgree, PTL DEF Spec, IsByteQueue, Queue!Spec

\* With room in the ring, the interrupt keeps the byte.
THEOREM DropsNothingElse == Spec => DropsOnlyWhenFull
  <1>1. ASSUME IInv, [Next]_uartVars, dropped', ~ dropped
        PROVE  BytesWaiting = RX_BUFFER_SIZE
    <2>1. PICK byte \in Byte : UART_ISR(byte)
      BY <1>1 DEF Next, UART_Async_Receive_tests, UART_Async_Receive_reads,
                  UART_Flush, uartVars
    <2>2. RingFull
      BY <1>1, <2>1 DEF UART_ISR
    <2>. QED
      BY <1>1, <2>2, WaitingBounds
  <1>2. IInv /\ [Next]_uartVars => [dropped' /\ ~ dropped => BytesWaiting = RX_BUFFER_SIZE]_uartVars
    BY <1>1
  <1>. QED
    BY <1>2, IndicesAgree, PTL DEF Spec, DropsOnlyWhenFull

=============================================================================
