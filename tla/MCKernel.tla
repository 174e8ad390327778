------------------------------ MODULE MCKernel ------------------------------
(***************************************************************************)
(* Instances of Kernel for TLC.  A .cfg takes MaxThread, TickMod and       *)
(* ClockBound as numbers and the sets of requests from here.               *)
(***************************************************************************)
EXTENDS Kernel

None == {}

\* Requests that create a SYSTEM or an RR task.
NewSystem == [priority |-> "SYSTEM", code |-> TRUE, period |-> 0, wcet |-> 0, offset |-> 0]
NewRR == [NewSystem EXCEPT !.priority = "RR"]
NoCode == [NewRR EXCEPT !.code = FALSE]

\* A PERIODIC task of this period and offset, with a wcet of wcet ticks.
NewPeriodic(period, wcet, offset) ==
    [priority |-> "PERIODIC", code |-> TRUE, period |-> period, wcet |-> wcet, offset |-> offset]

OnlyRR == {NewRR}

\* All three levels: two PERIODIC tasks that can conflict, one with a wcet of 0,
\* and the requests Kernel_Task_Create aborts on.
AllLevels ==
    {NewSystem, NewRR, NoCode,
     NewPeriodic(4, 2, 1), NewPeriodic(3, 1, 0), NewPeriodic(4, 0, 3), NewPeriodic(2, 2, 0)}

\* An RR task, and a PERIODIC one that is due as soon as it is created.
RRAndPeriodic == {NewRR, NewPeriodic(2, 1, 0)}

\* Two PERIODIC tasks that never conflict: the longer one runs for the two
\* ticks from 1 of every four, the other starts at 3 of every four.
ConflictFree == {NewRR, NewPeriodic(4, 2, 2), NewPeriodic(4, 1, 3)}

OneBit == {"a"}
OneBitMasks == SUBSET OneBit
FullMask == {{"a"}}
OneDatum == {1}
ThreeData == 1 .. 3

\* Each task passes a value of its own: the kernel only copies values.
OwnDatum == [p \in 0 .. 2 |-> {p + 1}]

\* Task 0 serves the two others and sends nothing.
OwnDatumButServer == [OwnDatum EXCEPT ![0] = {}]

=============================================================================
