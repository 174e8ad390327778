------------------------------ MODULE RemoteRx ------------------------------
(***************************************************************************)
(* The packets from the base station to the remote one: the checksummed    *)
(* packets of common/Packet, sent byte by byte by TXData, and RXData, the  *)
(* task that finds them in the bytes its UART channel has received.        *)
(*                                                                         *)
(* The channel is the queue of bytes that Uart implements.  A byte may     *)
(* come between any two calls RXData makes.  The line loses nothing: what  *)
(* is lost is what the channel drops and what RXData flushes.              *)
(***************************************************************************)
EXTENDS ByteQueue, SequencesExt

CONSTANTS
    PayloadSize,    \* the joystick and switch bytes of a packet (10 in Packet.h)
    Payload,        \* the payloads of the packets that are sent
    MaxPackets      \* BOUND: the packets sent

VARIABLES
    line,           \* the bytes of the packet in transmission, still to come
    sending,        \* the payload of the packet in transmission or sent last
    sent,           \* the payloads sent, in order
    at,             \* where RXData is
    buffer,         \* RXData's buffer
    packet          \* the packet the other tasks of the remote station read

rxVars == <<queueVars, line, sending, sent, at, buffer, packet>>

HI == 254           \* the two bytes of PACKET_MAGIC, 0xFEED
LO == 237
MagicSize == 2
PacketSize == MagicSize + PayloadSize + 2

ASSUME PayloadSizeAssumption == PayloadSize \in Nat

ASSUME PayloadAssumption == \A payload \in Payload : payload \in [1 .. PayloadSize -> 0 .. 255]

\* Fletcher's checksum over the packet's bytes before it, high byte first:
\* each byte counts in the second sum as often as it is from the end.
Checksum(data) ==
    LET c0 == FoldSeq(+, 0, data)
        c1 == FoldSeq(+, 0, [i \in 1 .. Len(data) |-> (Len(data) + 1 - i) * data[i]])
    IN  <<c1 % 255, c0 % 255>>

\* Packet's setters and its constructor from values: a valid packet.
Packet(payload) ==
    LET data == <<HI, LO>> \o payload
    IN  data \o Checksum(data)

ZeroPacket == [i \in 1 .. PacketSize |-> 0]

\* Nobody looks at the checksum.
PacketFrom_AnyChecksum(buf) ==
    IF SubSeq(buf, 1, MagicSize) = <<HI, LO>> THEN buf ELSE ZeroPacket

\* Packet's constructor from a buffer: the buffer if its magic and its checksum
\* are right, zeros if not.
PacketFrom(buf) ==
    IF buf = Packet(SubSeq(buf, MagicSize + 1, MagicSize + PayloadSize))
    THEN buf ELSE ZeroPacket

RxInit ==
    /\ Init
    /\ line = <<>>
    /\ sending = <<>>
    /\ sent = <<>>
    /\ at = "start"
    /\ buffer = <<>>
    /\ packet \in {Packet(p) : p \in Payload}

-----------------------------------------------------------------------------

\* TXData writes the bytes of the packet, as updatePacket has left it.
TXData ==
    /\ line = <<>>
    /\ Len(sent) < MaxPackets
    /\ \E p \in Payload :
        /\ line' = Packet(p)
        /\ sending' = p
    /\ UNCHANGED <<queueVars, sent, at, buffer, packet>>

\* The receive interrupt.
ByteArrives ==
    /\ line # <<>>
    /\ Receive(Head(line))
    /\ line' = Tail(line)
    /\ sent' = IF line' = <<>> THEN Append(sent, sending) ELSE sent
    /\ UNCHANGED <<sending, at, buffer, packet>>

-----------------------------------------------------------------------------

\* RXData goes on at place, with these bytes of the buffer filled.
Goto(place, buf) ==
    /\ at' = place
    /\ buffer' = buf
    /\ UNCHANGED <<line, sending, sent>>

\* The period is over if nothing has been received.
RXData_start ==
    /\ at = "start" /\ bytes # <<>>
    /\ Goto("high", <<>>)
    /\ UNCHANGED <<queueVars, packet>>

\* UART_Async_Receive, and the comparison with a byte of the magic: everything
\* else goes on with the flush.
RXData_magic(place, byte, next) ==
    /\ at = place
    /\ IF bytes = <<>>
       THEN UNCHANGED queueVars /\ Goto("flush", <<>>)
       ELSE /\ Read
            /\ IF Head(bytes) = byte THEN Goto(next, Append(buffer, byte)) ELSE Goto("flush", <<>>)
    /\ UNCHANGED packet

RXData_high == RXData_magic("high", HI, "low")

RXData_low == RXData_magic("low", LO, "rest")

RestAvailable_OffByOne == Len(bytes) >= PacketSize - MagicSize - 1

\* UART_BytesAvailable
RestAvailable == Len(bytes) >= PacketSize - MagicSize

RXData_rest ==
    /\ at = "rest"
    /\ IF RestAvailable THEN Goto("read", buffer) ELSE Goto("flush", <<>>)
    /\ UNCHANGED <<queueVars, packet>>

\* A byte that is not there is taken as 0.
RXData_read ==
    /\ at = "read" /\ Len(buffer) < PacketSize
    /\ IF bytes = <<>>
       THEN UNCHANGED queueVars /\ Goto("read", Append(buffer, 0))
       ELSE Read /\ Goto("read", Append(buffer, Head(bytes)))
    /\ UNCHANGED packet

\* The packet is taken if its magic and checksum are those of the buffer; the
\* bytes behind it are not flushed.
RXData_packet ==
    /\ at = "read" /\ Len(buffer) = PacketSize
    /\ packet' = IF PacketFrom(buffer) = buffer THEN buffer ELSE packet
    /\ Goto("start", <<>>)
    /\ UNCHANGED queueVars

RXData_flush ==
    /\ at = "flush"
    /\ Flush
    /\ Goto("start", <<>>)
    /\ UNCHANGED packet

RXData ==
    \/ RXData_start
    \/ RXData_high
    \/ RXData_low
    \/ RXData_rest
    \/ RXData_read
    \/ RXData_packet
    \/ RXData_flush

RxNext == TXData \/ ByteArrives \/ RXData

RxSpec == RxInit /\ [][RxNext]_rxVars

-----------------------------------------------------------------------------

\* "Expected a packet to be available!" is never logged: the bytes counted
\* before the loop are there for each of its reads.
RestIsThere == at = "read" /\ Len(buffer) < PacketSize => bytes # <<>>

\* The checksum counts modulo 255: it takes 0x00 and 0xFF for the same byte.
Same(a, b) == \A i \in 1 .. PacketSize : a[i] % 255 = b[i] % 255

\* Whatever was dropped and flushed, a packet that is taken reads as one that
\* was sent, but for 0x00 and 0xFF; or else as a stray magic, left of a packet
\* cut off or found inside of one, and the first bytes of a packet from its
\* magic on.  No other bytes of two packets are taken together.  So it is for
\* the payloads of the run: others have joins that the two sums of the checksum
\* cannot tell from a packet.
TakenFromOnePacket ==
    [][packet' # packet =>
          \/ \E i \in 1 .. Len(sent) : Same(packet', Packet(sent[i]))
          \/ \E p \in Range(sent) \cup {sending} :
                packet' = SubSeq(<<HI, LO>> \o Packet(p), 1, PacketSize)]_rxVars

=============================================================================
