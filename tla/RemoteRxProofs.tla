--------------------------- MODULE RemoteRxProofs ---------------------------
(***************************************************************************)
(* RXData reads no byte that has not come, for every size of the channel   *)
(* and of a packet and every set of payloads.                              *)
(***************************************************************************)
EXTENDS RemoteRx, SequenceTheorems, TLAPS

\* What may come over the line.
LineByte ==
    0 .. 255 \union {Checksum(<<HI, LO>> \o payload)[k] : payload \in Payload, k \in 1 .. 2}

\* How much of a packet RXData has when it is at each place; at "read" the rest
\* waits in the channel.
Filled ==
    /\ at = "high" => buffer = <<>>
    /\ at = "low" => Len(buffer) = 1
    /\ at = "rest" => Len(buffer) = MagicSize
    /\ at = "read" => Len(buffer) + Len(bytes) >= PacketSize

RxInv ==
    /\ line \in Seq(LineByte)
    /\ bytes \in Seq(LineByte)
    /\ buffer \in Seq(LineByte)
    /\ Filled

LEMMA Sizes == PacketSize \in Nat /\ MagicSize = 2 /\ PacketSize - MagicSize = PayloadSize + 2
BY PayloadSizeAssumption DEF PacketSize, MagicSize

LEMMA PacketOfBytes == \A payload \in Payload : Packet(payload) \in Seq(LineByte)
<1>. SUFFICES ASSUME NEW payload \in Payload PROVE Packet(payload) \in Seq(LineByte)
    OBVIOUS
<1>. DEFINE data == <<HI, LO>> \o payload
<1>1. HI \in LineByte /\ LO \in LineByte
    BY DEF LineByte, HI, LO
<1>2. payload \in Seq(LineByte)
    <2>1. payload \in [1 .. PayloadSize -> 0 .. 255] /\ PayloadSize \in Nat
        BY PayloadAssumption, PayloadSizeAssumption
    <2>2. payload \in [1 .. PayloadSize -> LineByte]
        BY <2>1 DEF LineByte
    <2>3. \E n \in Nat : payload \in [1 .. n -> LineByte]
        BY <2>1, <2>2
    <2>. QED  BY <2>3, SeqDef, Zenon
<1>3. data \in Seq(LineByte)
    BY <1>1, <1>2
<1>4. Checksum(data) \in Seq(LineByte)
    <2>1. Checksum(data)[1] \in LineByte /\ Checksum(data)[2] \in LineByte
        BY DEF LineByte
    <2>2. Checksum(data) = <<Checksum(data)[1], Checksum(data)[2]>>
        BY DEF Checksum
    <2>3. \A x, y \in LineByte : <<x, y>> \in Seq(LineByte)
        OBVIOUS
    <2>. QED  BY <2>1, <2>2, <2>3
<1>. HIDE DEF data
<1>5. data \o Checksum(data) \in Seq(LineByte)
    BY <1>3, <1>4
<1>. QED  BY <1>5 DEF Packet, data

LEMMA InitRx == RxInit => RxInv
BY DEF RxInit, Init, RxInv, Filled

\* The base station and the receive interrupt only add to what waits.
LEMMA LineKeeps == ASSUME RxInv, TXData \/ ByteArrives PROVE RxInv'
<1>1. CASE TXData
    BY <1>1, PacketOfBytes DEF TXData, RxInv, Filled, queueVars
<1>2. CASE ByteArrives
    <2>1. /\ line # <<>> /\ line' = Tail(line)
          /\ bytes' = IF Full THEN bytes ELSE Append(bytes, Head(line))
          /\ UNCHANGED <<at, buffer>>
        BY <1>2 DEF ByteArrives, Receive
    <2>2. line \in Seq(LineByte) /\ bytes \in Seq(LineByte) /\ buffer \in Seq(LineByte)
        BY DEF RxInv
    <2>3. /\ Head(line) \in LineByte /\ line' \in Seq(LineByte)
          /\ bytes' \in Seq(LineByte) /\ Len(bytes') >= Len(bytes)
        BY <2>1, <2>2
    <2>. QED  BY <2>1, <2>2, <2>3, Sizes DEF RxInv, Filled
<1>. QED  BY <1>1, <1>2

\* RXData goes on where it has as much of a packet as the place asks for.
LEMMA PlaceKeeps ==
    ASSUME RxInv, NEW place, NEW buf \in Seq(LineByte), Goto(place, buf),
           bytes' \in Seq(LineByte),
           place = "high" => buf = <<>>,
           place = "low" => Len(buf) = 1,
           place = "rest" => Len(buf) = MagicSize,
           place = "read" => Len(buf) + Len(bytes') >= PacketSize
    PROVE  RxInv'
BY DEF Goto, RxInv, Filled

LEMMA RXDataKeeps == ASSUME RxInv, RXData PROVE RxInv'
<1>1. bytes \in Seq(LineByte) /\ buffer \in Seq(LineByte) /\ <<>> \in Seq(LineByte)
    BY DEF RxInv
<1>2. Read => /\ bytes # <<>> /\ bytes' = Tail(bytes)
              /\ Head(bytes) \in LineByte
              /\ bytes' \in Seq(LineByte) /\ Len(bytes') = Len(bytes) - 1
    BY <1>1 DEF Read
<1>3. UNCHANGED queueVars => bytes' = bytes
    BY DEF queueVars
<1>4. HI \in LineByte /\ LO \in LineByte /\ 0 \in LineByte
    BY DEF LineByte, HI, LO
<1>5. CASE RXData_start
    BY <1>1, <1>3, <1>5, PlaceKeeps DEF RXData_start
<1>6. CASE RXData_high
    <2>1. CASE Goto("flush", <<>>) /\ bytes' \in Seq(LineByte)
        BY <1>1, <2>1, PlaceKeeps
    <2>2. CASE Goto("low", Append(buffer, HI)) /\ bytes' \in Seq(LineByte)
        <3>1. at = "high"
            BY <1>6 DEF RXData_high, RXData_magic
        <3>2. Append(buffer, HI) \in Seq(LineByte) /\ Len(Append(buffer, HI)) = 1
            BY <1>1, <1>4, <3>1 DEF RxInv, Filled
        <3>. QED  BY <2>2, <3>2, PlaceKeeps
    <2>. QED  BY <1>1, <1>2, <1>3, <1>6, <2>1, <2>2 DEF RXData_high, RXData_magic
<1>7. CASE RXData_low
    <2>1. CASE Goto("flush", <<>>) /\ bytes' \in Seq(LineByte)
        BY <1>1, <2>1, PlaceKeeps
    <2>2. CASE Goto("rest", Append(buffer, LO)) /\ bytes' \in Seq(LineByte)
        <3>1. at = "low"
            BY <1>7 DEF RXData_low, RXData_magic
        <3>2. Len(buffer) = 1
            BY <3>1 DEF RxInv, Filled
        <3>3. Append(buffer, LO) \in Seq(LineByte) /\ Len(Append(buffer, LO)) = MagicSize
            <4>1. Append(buffer, LO) \in Seq(LineByte) /\ Len(Append(buffer, LO)) = Len(buffer) + 1
                BY <1>1, <1>4
            <4>. QED  BY <3>2, <4>1 DEF MagicSize
        <3>. QED  BY <2>2, <3>3, PlaceKeeps
    <2>. QED  BY <1>1, <1>2, <1>3, <1>7, <2>1, <2>2 DEF RXData_low, RXData_magic
<1>8. CASE RXData_rest
    <2>1. bytes' = bytes /\ Len(buffer) = MagicSize
        BY <1>3, <1>8 DEF RXData_rest, RxInv, Filled
    <2>2. CASE RestAvailable
        <3>1. Goto("read", buffer) /\ Len(buffer) + Len(bytes') >= PacketSize
            BY <1>1, <1>8, <2>1, <2>2, Sizes, PayloadSizeAssumption
               DEF RXData_rest, RestAvailable
        <3>. QED  BY <1>1, <2>1, <3>1, PlaceKeeps
    <2>3. CASE ~ RestAvailable
        BY <1>1, <1>8, <2>1, <2>3, PlaceKeeps DEF RXData_rest
    <2>. QED  BY <2>2, <2>3
<1>9. CASE RXData_read
    <2>1. Len(buffer) < PacketSize /\ Len(buffer) + Len(bytes) >= PacketSize
        BY <1>9 DEF RXData_read, RxInv, Filled
    <2>2. bytes # <<>>
        BY <1>1, <2>1, Sizes, PayloadSizeAssumption
    <2>3. Read /\ Goto("read", Append(buffer, Head(bytes)))
        BY <1>9, <2>2 DEF RXData_read
    <2>4. /\ Append(buffer, Head(bytes)) \in Seq(LineByte)
          /\ Len(Append(buffer, Head(bytes))) + Len(bytes') >= PacketSize
        BY <1>1, <1>2, <2>1, <2>3, Sizes, PayloadSizeAssumption
    <2>. QED  BY <1>2, <2>3, <2>4, PlaceKeeps
<1>10. CASE RXData_packet
    BY <1>1, <1>3, <1>10, PlaceKeeps DEF RXData_packet
<1>11. CASE RXData_flush
    BY <1>1, <1>11, PlaceKeeps DEF RXData_flush, Flush
<1>. QED  BY <1>5, <1>6, <1>7, <1>8, <1>9, <1>10, <1>11 DEF RXData

LEMMA RxStep == RxInv /\ [RxNext]_rxVars => RxInv'
<1>. SUFFICES ASSUME RxInv, [RxNext]_rxVars PROVE RxInv'
    OBVIOUS
<1>1. CASE TXData \/ ByteArrives
    BY <1>1, LineKeeps
<1>2. CASE RXData
    BY <1>2, RXDataKeeps
<1>3. CASE UNCHANGED rxVars
    BY <1>3 DEF rxVars, queueVars, RxInv, Filled
<1>. QED  BY <1>1, <1>2, <1>3 DEF RxNext

\* The bytes RXData has counted are there for each of its reads, whatever comes
\* or is dropped between them (remote/user.cpp:265-276), for every size of the
\* ring buffer and of a packet, also a ring that is smaller than a packet.
THEOREM ReadsWhatIsThere == RxSpec => []RestIsThere
<1>1. RxInv => RestIsThere
    <2>. SUFFICES ASSUME RxInv, at = "read", Len(buffer) < PacketSize, bytes = <<>> PROVE FALSE
        BY DEF RestIsThere
    <2>1. Len(buffer) \in Nat /\ Len(bytes) = 0
        BY DEF RxInv
    <2>. QED  BY <2>1, Sizes DEF RxInv, Filled
<1>. QED  BY <1>1, InitRx, RxStep, PTL DEF RxSpec

=============================================================================
