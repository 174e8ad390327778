--------------------------- MODULE TimeTriggered ---------------------------
(***************************************************************************)
(* The time triggered scheduler of project 1 (Scheduler.cpp) and the loop  *)
(* that calls it.  A task runs to its end; the loop idles only when no     *)
(* task was ready.  Tasks are numbered in the order in which setup starts  *)
(* them, and the lowest number that is ready runs.                         *)
(***************************************************************************)
EXTENDS FiniteSetsExt

CONSTANTS
    MAXTASKS,
    Delay, Period,  \* of the tasks 0, 1, ... that setup starts
    Duration,       \* of each task, the times it may take
    ClockMod        \* millis() is a uint32_t

Task == {id \in DOMAIN Period : id < MAXTASKS}

ASSUME ScheduleAssumption ==
    /\ MAXTASKS \in Nat /\ ClockMod \in Nat
    /\ DOMAIN Period \subseteq Nat /\ Task # {}
    /\ \A id \in Task : /\ Period[id] \in Nat \ {0} /\ Delay[id] \in Nat
                        /\ Duration[id] \in SUBSET Nat \ {{}}
                        /\ Period[id] <= ClockMod \div 2 /\ Delay[id] <= ClockMod \div 2

VARIABLES
    clock,          \* millis()
    last_runtime, remaining_time,
    busy,           \* how long the task, or the idling, still takes
    due             \* history: when each task is to run next, by its period

schedVars == <<clock, last_runtime, remaining_time, busy, due>>

SchedInit ==
    /\ clock = 0
    /\ last_runtime = clock
    /\ remaining_time = [id \in Task |-> Delay[id]]
    /\ busy = 0
    /\ due = remaining_time

\* How long before time t task id has been due, negative when it is not yet.
Late(id, t) ==
    LET e == (t - due[id]) % ClockMod
    IN  IF e < ClockMod \div 2 THEN e ELSE e - ClockMod

-----------------------------------------------------------------------------

\* The difference is taken of signed numbers that do not wrap.
elapsed_Signed == clock - last_runtime

elapsed == (clock - last_runtime) % ClockMod

Counted == [id \in Task |-> remaining_time[id] - elapsed]

Ready == {id \in Task : Counted[id] <= 0}

\* The next period is counted from now instead of from when this one began.
NextRemaining_FromNow(id) == Period[id]

NextRemaining(id) == Counted[id] + Period[id]

\* Scheduler_Dispatch calls task id, which takes d.
Calls(id, d) ==
    /\ busy = 0
    /\ id \in Ready /\ \A other \in Ready : id <= other
    /\ last_runtime' = clock
    /\ remaining_time' = [Counted EXCEPT ![id] = NextRemaining(id)]
    /\ busy' = d
    /\ due' = [due EXCEPT ![id] = (@ + Period[id]) % ClockMod]
    /\ UNCHANGED clock

\* The idle time is that of the task that comes first by number.
idle_time_First == Counted[0]

idle_time == CHOOSE t \in {Counted[id] : id \in Task} : \A id \in Task : t <= Counted[id]

\* Scheduler_Dispatch finds no task ready; the loop idles as long as it says.
Idles ==
    /\ busy = 0
    /\ Ready = {}
    /\ last_runtime' = clock
    /\ remaining_time' = Counted
    /\ busy' = idle_time
    /\ UNCHANGED <<clock, due>>

TimePasses ==
    /\ busy > 0
    /\ busy' = busy - 1
    /\ clock' = (clock + 1) % ClockMod
    /\ UNCHANGED <<last_runtime, remaining_time, due>>

SchedNext ==
    \/ \E id \in Task : \E d \in Duration[id] : Calls(id, d)
    \/ Idles
    \/ TimePasses

SchedSpec == SchedInit /\ [][SchedNext]_schedVars

-----------------------------------------------------------------------------

SchedTypeOK ==
    /\ {clock, last_runtime} \subseteq 0 .. ClockMod - 1
    /\ DOMAIN remaining_time = Task
    /\ \A id \in Task : remaining_time[id] \in 1 - Period[id] .. Delay[id] + Period[id]
    /\ busy \in Nat
    /\ due \in [Task -> 0 .. ClockMod - 1]

\* Every task runs once in each of its periods, whatever overruns come before
\* it: none is ever late by its period, each begins when its period says or
\* later, and its next start is counted from when it was due (Scheduler.h:56).
EveryPeriodRuns ==
    [][\A id \in Task :
            /\ Late(id, clock) < Period[id]
            /\ due'[id] # due[id] =>
                    /\ Late(id, clock) >= 0
                    /\ (clock + remaining_time'[id]) % ClockMod = due'[id]]_schedVars

\* One run of every task, as long as it may be, takes less than any period.
Fits ==
    LET longest(id) == Max(Duration[id])
    IN  \A id \in Task : /\ \E d \in Duration[id] : \A e \in Duration[id] : e <= d
                         /\ MapThenSumSet(longest, Task) < Period[id]

\* Idling ends at the time a task is due, and no task was due before
\* (base.ino:72, "before the idle period has expired").
SleepsToNextRelease ==
    [][Idles => LET end == (clock + busy') % ClockMod
                IN  /\ \A id \in Task : Late(id, end) <= 0
                    /\ \E id \in Task : Late(id, end) = 0]_schedVars

=============================================================================
