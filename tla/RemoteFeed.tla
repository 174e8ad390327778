----------------------------- MODULE RemoteFeed -----------------------------
(***************************************************************************)
(* The remote station of project 1 (remote.ino): getData takes packets     *)
(* from a serial port, scheduled with updateArm and commandRoomba by       *)
(* TimeTriggered, and those two work on the packet it took last.  The base *)
(* station sends a packet in every period of its own clock: a magic byte,  *)
(* then data without a checksum.  The radio between them hands packets on  *)
(* in order, a byte at a time, later than they were sent but never more    *)
(* than MaxBehind of them late.  A byte is known by its place in its       *)
(* packet, the magic byte at place 0.                                      *)
(***************************************************************************)
EXTENDS TimeTriggered, SequencesExt

CONSTANTS
    PACKET_SIZE,    \* data bytes, 10
    SendPeriod,     \* of sendPacket
    Capacity,       \* of the port's buffer
    MaxBehind,      \* packets that are sent and have not begun to arrive
    LikeMagic       \* places where data may be equal to PACKET_MAGIC

ASSUME FeedAssumption ==
    /\ {PACKET_SIZE, SendPeriod, Capacity, MaxBehind} \subseteq Nat \ {0}
    /\ PACKET_SIZE + 1 < SendPeriod
    /\ LikeMagic \subseteq 1 .. PACKET_SIZE

VARIABLES
    next_send,      \* time until sendPacket runs
    behind,         \* packets that are in the radio
    arriving,       \* the place of the byte that comes next, or 0 between packets
    alike,          \* where this game's data is equal to PACKET_MAGIC
    port,           \* the bytes that wait in Serial2
    packet,         \* the bytes getData took last, or <<>>
    disturbed       \* history: a byte was dropped, or getData met a packet's
                    \* magic byte before its end had come

feedVars == <<next_send, behind, arriving, alike, port, packet, disturbed>>

updateArm == 0
commandRoomba == 1
getData == 2

\* What getData reads of a packet, in its order.
Data == [i \in 1 .. PACKET_SIZE |-> i]

\* setup opens the port long before the loop begins: the base station is
\* switched on afterwards, or the port is full and has dropped bytes.
FeedInit ==
    /\ SchedInit
    /\ next_send \in 1 .. SendPeriod
    /\ behind = 0
    /\ alike \in SUBSET LikeMagic
    /\ \/ port = <<>> /\ arriving = 0 /\ disturbed = FALSE
       \/ /\ \E p \in 0 .. PACKET_SIZE :
                port = [i \in 1 .. Capacity |-> (p + i) % (PACKET_SIZE + 1)]
          /\ arriving \in 0 .. PACKET_SIZE
          /\ disturbed = TRUE
    /\ packet = <<>>

-----------------------------------------------------------------------------

Whole == Len(port) >= PACKET_SIZE + 1

StartsPacket == Whole /\ (Head(port) = 0 \/ Head(port) \in alike)

Taken == SubSeq(port, 2, PACKET_SIZE + 1)

\* What is behind the packet is discarded, as the code means to.
Left_Discarded == <<>>

\* What is behind the packet stays: the loop that is to discard it reads from
\* Serial, not Serial2.
Left == SubSeq(port, PACKET_SIZE + 2, Len(port))

\* A byte that starts no packet waits for one.
Skipped_Waits == port

Skipped == Tail(port)

\* getData: a byte goes, and PACKET_SIZE more when it starts a packet.
getData_runs(d) ==
    /\ Calls(getData, d)
    /\ \/ port = <<>> /\ UNCHANGED <<port, packet, disturbed>>
       \/ /\ port # <<>> /\ StartsPacket
          /\ packet' = Taken
          /\ port' = Left
          /\ UNCHANGED disturbed
       \/ /\ port # <<>> /\ ~ StartsPacket
          /\ port' = Skipped
          /\ disturbed' = (disturbed \/ Head(port) = 0)
          /\ UNCHANGED packet
    /\ UNCHANGED <<next_send, behind, arriving, alike>>

\* updateArm and commandRoomba read packet.
Others(d) ==
    /\ Calls(updateArm, d) \/ Calls(commandRoomba, d)
    /\ UNCHANGED feedVars

\* A byte comes: it goes to the port, or is dropped when the port is full.
ByteArrives(place) ==
    /\ arriving' = (place + 1) % (PACKET_SIZE + 1)
    /\ IF Len(port) < Capacity
       THEN port' = Append(port, place) /\ UNCHANGED disturbed
       ELSE disturbed' = TRUE /\ UNCHANGED port

\* The base station's and the radio's part in a unit of time.
Radio ==
    LET sends == next_send = 1
        Sent == behind + IF sends THEN 1 ELSE 0
    IN  /\ next_send' = IF sends THEN SendPeriod ELSE next_send - 1
        /\ \/ arriving # 0 /\ behind' = Sent /\ ByteArrives(arriving)
           \/ arriving = 0 /\ Sent > 0 /\ behind' = Sent - 1 /\ ByteArrives(0)
           \/ /\ arriving = 0 /\ Sent <= MaxBehind
              /\ behind' = Sent
              /\ UNCHANGED <<arriving, port, disturbed>>
        /\ behind' <= MaxBehind
        /\ UNCHANGED <<alike, packet>>

FeedNext ==
    \/ \E d \in Duration[getData] : getData_runs(d)
    \/ \E d \in Duration[updateArm] \cup Duration[commandRoomba] : Others(d)
    \/ Idles /\ UNCHANGED feedVars
    \/ TimePasses /\ Radio

FeedSpec == FeedInit /\ [][FeedNext]_<<schedVars, feedVars>> /\ WF_<<schedVars, feedVars>>(FeedNext)

-----------------------------------------------------------------------------

\* The packet that updateArm and commandRoomba work on is one the base station
\* sent, until getData has lost its place once: by a poll while a packet was
\* coming in, or by a full port (remote.ino:81-93).
PacketsWhole == ~ disturbed => packet \in {<<>>, Data}

\* getData takes a packet's worth of bytes behind what it took for the magic.
Takes == Len(port') < Len(port) - 1

\* A byte comes to a full port and is lost.
Drops == arriving' # arriving /\ Len(port) = Capacity

\* Whatever was dropped or cut, getData takes a packet's worth of bytes again and
\* again, and if no data equals the magic and bytes are not dropped for ever, in
\* the end only whole packets that were sent.  Not so otherwise (remote.ino:82):
\* data that equals the magic can hold it between two packets for ever, and what
\* it takes from a port that stays full can have bytes missing.
KeepsTaking ==
    /\ []<><<Takes>>_<<schedVars, feedVars>>
    /\ \/ alike # {}
       \/ []<><<Drops>>_<<schedVars, feedVars>>
       \/ <>[][Takes => packet' = Data]_<<schedVars, feedVars>>

=============================================================================
