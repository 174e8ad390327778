--------------------------- MODULE MCBaseSchedule ---------------------------
(***************************************************************************)
(* TimeTriggered for TLC, with the base station's schedule of project 1    *)
(* (Scheduler.h, in the order of base.ino's setup), 2 ms to the unit.      *)
(***************************************************************************)
EXTENDS TimeTriggered

readLightSensor == 0
updateChar == 1
updatePacket == 2
sendPacket == 3
updateLcd == 4

Delays == [id \in 0 .. 4 |->
    CASE id = updateChar -> 5 [] id = sendPacket -> 1 [] id = updateLcd -> 2 [] OTHER -> 0]

Periods == [id \in 0 .. 4 |-> IF id = updateLcd THEN 250 ELSE 25]

\* The display takes 12 ms (tts.md), and updateChar is due before it ends.
Durations == [id \in 0 .. 4 |-> IF id = updateLcd THEN 5 .. 7 ELSE {0, 1}]

ASSUME BaseStationFits == Fits

=============================================================================
