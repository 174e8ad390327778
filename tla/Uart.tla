-------------------------------- MODULE Uart --------------------------------
(***************************************************************************)
(* The receive side of one UART channel (common/uart/uart.c): a ring       *)
(* buffer that the receive interrupt writes and one task reads.            *)
(*                                                                         *)
(* A step is a section of code with interrupts disabled: the interrupt     *)
(* handler, or what a function does between cli() and the restore of SREG. *)
(* UART_Async_Receive has two of them, the test of UART_Available and the  *)
(* read, and the interrupt may come between.                               *)
(***************************************************************************)
EXTENDS Naturals

CONSTANTS
    RX_BUFFER_SIZE,
    Byte                \* the bytes that are received

ASSUME SizeAssumption == RX_BUFFER_SIZE \in Nat \ {0}
ASSUME ByteAssumption == 0 \in Byte

Index == 0 .. RX_BUFFER_SIZE - 1

VARIABLES
    RXIn,       \* _RXIn: where the next byte is written
    RXRn,       \* _RXRn: where the next byte is read
    RXWn,       \* _RXWn: the write index has wrapped, the read index has not
    RXBUFn,     \* _RXBUFn
    reading,    \* the task is in UART_Async_Receive, past the test
    out,        \* *out of the last read
    dropped,    \* the interrupt logged "full: Dropping data!" when it last came
    UART_ERROR  \* OS_Abort(UART_ERROR) was called

uartVars == <<RXIn, RXRn, RXWn, RXBUFn, reading, out, dropped, UART_ERROR>>

Init ==
    /\ RXIn = 0
    /\ RXRn = 0
    /\ RXWn = FALSE
    /\ RXBUFn = [i \in Index |-> 0]
    /\ reading = FALSE
    /\ out = 0
    /\ dropped = FALSE
    /\ UART_ERROR = FALSE

Following(i) == (i + 1) % RX_BUFFER_SIZE

\* One byte too early: the place before the read index is left free.
RingFull_LeavesOne == RXWn /\ Following(RXIn) = RXRn

RingFull == RXWn /\ RXRn = RXIn

\* The interrupt drops the byte if the buffer is full.
UART_ISR(byte) ==
    /\ ~ UART_ERROR
    /\ dropped' = RingFull
    /\ IF RingFull
       THEN UNCHANGED <<RXIn, RXWn, RXBUFn, UART_ERROR>>
       ELSE /\ RXBUFn' = [RXBUFn EXCEPT ![RXIn] = byte]
            /\ RXIn' = Following(RXIn)
            /\ RXWn' = (RXWn \/ RXIn' = 0)
            /\ UART_ERROR' = (RXWn /\ RXIn' = 0)
    /\ UNCHANGED <<RXRn, reading, out>>

\* The read index may reach the write index from before it.
UART_Available_OrEqual == RXWn \/ RXRn <= RXIn

UART_Available == RXWn \/ RXRn < RXIn

\* The bytes that wait to be read, as UART_BytesAvailable counts them.
BytesWaiting == IF RXWn THEN RX_BUFFER_SIZE - RXRn + RXIn ELSE RXIn - RXRn

\* UART_Async_Receive up to its test; it returns FALSE if nothing is there.
UART_Async_Receive_tests ==
    /\ ~ UART_ERROR /\ ~ reading
    /\ reading' = UART_Available
    /\ UNCHANGED <<RXIn, RXRn, RXWn, RXBUFn, out, dropped, UART_ERROR>>

UART_Async_Receive_reads ==
    /\ ~ UART_ERROR /\ reading
    /\ out' = RXBUFn[RXRn]
    /\ RXRn' = Following(RXRn)
    /\ RXWn' = (RXWn /\ RXRn' # 0)
    /\ UART_ERROR' = (~ RXWn /\ RXRn' = 0)
    /\ reading' = FALSE
    /\ UNCHANGED <<RXIn, RXBUFn, dropped>>

\* The wrapped flag stays.
UART_Flush_KeepsFlag ==
    /\ ~ UART_ERROR /\ ~ reading
    /\ RXRn' = RXIn
    /\ UNCHANGED <<RXIn, RXWn, RXBUFn, reading, out, dropped, UART_ERROR>>

UART_Flush ==
    /\ ~ UART_ERROR /\ ~ reading
    /\ RXRn' = RXIn
    /\ RXWn' = FALSE
    /\ UNCHANGED <<RXIn, RXBUFn, reading, out, dropped, UART_ERROR>>

Next ==
    \/ \E byte \in Byte : UART_ISR(byte)
    \/ UART_Async_Receive_tests
    \/ UART_Async_Receive_reads
    \/ UART_Flush

Spec == Init /\ [][Next]_uartVars

-----------------------------------------------------------------------------

TypeOK ==
    /\ RXIn \in Index
    /\ RXRn \in Index
    /\ RXWn \in BOOLEAN
    /\ RXBUFn \in [Index -> Byte]
    /\ reading \in BOOLEAN
    /\ out \in Byte
    /\ dropped \in BOOLEAN
    /\ UART_ERROR \in BOOLEAN

\* The two aborts, "Wrapped again" and "Out of bounds UART read", are never
\* reached: neither index overtakes the other, whenever the interrupt comes.
NoUartError == ~ UART_ERROR

\* The bytes in the ring, oldest first.
Waiting == [k \in 1 .. BytesWaiting |-> RXBUFn[(RXRn + k - 1) % RX_BUFFER_SIZE]]

Queue == INSTANCE ByteQueue WITH
            Capacity <- RX_BUFFER_SIZE, bytes <- Waiting, last <- out

\* The ring buffer is a queue of bytes: nothing is lost, read twice or read out
\* of order across wraps, flushes and a full buffer.
IsByteQueue == Queue!Spec

\* A byte is dropped only when the buffer is full: the interrupt that logs it
\* finds as many bytes waiting as the buffer holds.
DropsOnlyWhenFull ==
    [][dropped' /\ ~ dropped => BytesWaiting = RX_BUFFER_SIZE]_uartVars

=============================================================================
