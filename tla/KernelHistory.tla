--------------------------- MODULE KernelHistory ---------------------------
(***************************************************************************)
(* Kernel with a history of which PERIODIC tasks have begun their current  *)
(* period.  The kernel has no such field: it takes a task that has all of  *)
(* its ticks left for one that has not begun.                              *)
(***************************************************************************)
EXTENDS MCKernel

VARIABLE started        \* the PERIODIC tasks that have run since their tons

historyVars == <<vars, started>>

\* The task the step ends the period of, by Task_Next or by its termination.
Ended == IF Kernel_Request_Next \/ Kernel_Request_Terminate THEN {Cp} ELSE {}

\* The task the step gives the processor to.
Given == {p \in Pid : pd'[p].priority = "PERIODIC" /\ state'[p] = "RUNNING"}

HistoryInit == Init /\ started = {}

HistoryNext == Next /\ started' = (started \ Ended) \union Given

HistorySpec == HistoryInit /\ [][HistoryNext]_historyVars

\* A PERIODIC task begins each of its periods at the tick of its start time,
\* or the kernel stops: whatever preempts, delays or terminates around it, no
\* period is begun late, or before its time (Dispatch's two tests).
PeriodsBeginOnTime ==
    [][\A p \in started' \ (started \ Ended) : sys_clock' = pd'[p].tons]_historyVars

=============================================================================
