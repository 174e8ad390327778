----------------------------- MODULE ByteQueue -----------------------------
(***************************************************************************)
(* What a UART channel promises the task that reads it: the bytes that     *)
(* were received and not dropped, in the order they came.  A byte is       *)
(* dropped only when as many as the buffer holds are waiting.              *)
(***************************************************************************)
EXTENDS Naturals, Sequences

CONSTANTS Byte, Capacity

VARIABLES
    bytes,      \* received and not yet read
    last        \* the byte read last

queueVars == <<bytes, last>>

Init == bytes = <<>> /\ last = 0

Full == Len(bytes) = Capacity

Receive(b) ==
    /\ bytes' = IF Full THEN bytes ELSE Append(bytes, b)
    /\ UNCHANGED last

Read ==
    /\ bytes # <<>>
    /\ last' = Head(bytes)
    /\ bytes' = Tail(bytes)

Flush == bytes' = <<>> /\ UNCHANGED last

Next == (\E b \in Byte : Receive(b)) \/ Read \/ Flush

Spec == Init /\ [][Next]_queueVars

=============================================================================
