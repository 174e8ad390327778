---------------------------- MODULE MCRemoteFeed ----------------------------
(***************************************************************************)
(* RemoteFeed for TLC: the schedule of Scheduler.h, 8 ms to the unit, so   *)
(* that the tasks' times of less than one are 0.                           *)
(***************************************************************************)
EXTENDS RemoteFeed

Delays == [id \in 0 .. 2 |-> CASE id = updateArm -> 1 [] id = commandRoomba -> 2 [] id = getData -> 0]
Periods == [id \in 0 .. 2 |-> IF id = commandRoomba THEN 12 ELSE 6]
Durations == [id \in 0 .. 2 |-> {0}]

=============================================================================
