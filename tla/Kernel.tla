------------------------------- MODULE Kernel -------------------------------
(***************************************************************************)
(* The CSC 460 real-time kernel (project3/common/kernel): task creation    *)
(* and termination, three-level scheduling driven by a timer, and          *)
(* send/receive/reply messages.                                            *)
(*                                                                         *)
(* The kernel runs with interrupts disabled, so a request handler, from    *)
(* the entry into the kernel to the exit to the task it dispatches, is one *)
(* atomic action.  What interleaves are the tasks, which may issue any     *)
(* request the os.c stubs offer at any time, and the tick.                 *)
(*                                                                         *)
(* An abort stops the machine: utils_abort spins with interrupts disabled, *)
(* so no action but Halted is enabled afterwards.  What a handler had      *)
(* written before it aborted is not recorded, as nothing can read it.      *)
(*                                                                         *)
(* X_Suffix, before X, is a plausible mistake in X: a run that checks a    *)
(* property finds it broken when X is replaced by it.                      *)
(***************************************************************************)
EXTENDS Integers, TaskQueue, FiniteSets

CONSTANTS
    MaxThread,      \* MAXTHREAD, the number of task descriptors
    TickMod,        \* the modulus of TICK (2^16 for uint16_t)
    ClockBound,     \* BOUND: no tick once sys_clock reaches it (>= TickMod: no bound)
    MsgBits,        \* the bits of MTYPE and MASK; a mask is a subset of them
    Masks,          \* the masks the tasks use
    Data,           \* the uint16_t payloads the tasks pass by value
    CreateRequests  \* the task creations the tasks ask for

ASSUME MaxThreadAssumption == MaxThread \in Nat \ {0}
ASSUME TickAssumption == TickMod \in Nat /\ TickMod >= 2 /\ ClockBound \in Nat
ASSUME MaskAssumption == Masks \subseteq SUBSET MsgBits
ASSUME DataAssumption == Data \subseteq Nat

Tick == 0 .. TickMod - 1
Pid == 0 .. MaxThread - 1       \* process_id is the index in Process[]
Idle == -1                      \* &IdleProcess
NoProc == -2                    \* Cp before the first Dispatch
BadId == MaxThread              \* stands for every id VALID_ID refuses
ANY == MsgBits                  \* 0xFF
NULL == -1                      \* a null pointer, and the pid in an unused MSG

ASSUME CreateAssumption ==
    CreateRequests \subseteq
        [priority : Level, code : BOOLEAN, period : Tick, wcet : Tick, offset : Tick]

ProcessState ==
    {"DEAD", "READY", "RUNNING", "SEND_BLOCK", "REPLY_BLOCK", "RECV_BLOCK"}

AbortCode ==
    {"TIMING_VIOLATION", "NO_DEAD_PROCESS", "INVALID_REQ_INFO", "WRONG_TASK_ORDER",
     "PERIODIC_MSG", "QUEUEING_ERROR", "NULL_TASK_FUNCTION", "USER"}

\* The scheduling fields of a PD.
Descriptor ==
    [priority : Level, period : Tick, wcet : Tick, tons : Tick,
     ticks_remaining : Tick, clockState : OverflowState]

\* The fields of KERNEL_REQUEST_PARAMS that outlive the handler: the kernel
\* reads or writes them while the call is blocked, or a message call returns
\* them.  A pointer to a task's uint16_t variable is that task's pid.
RequestInfo ==
    [msg_mask : SUBSET MsgBits, msg_ptr_data : Pid \union {NULL},
     msg_data : Data \union {0}, out_pid : Pid]

Message ==
    [data : Pid \union {NULL}, mask : SUBSET MsgBits,
     receiver : Pid \union {NULL}, sender : Pid \union {NULL}]

VARIABLES
    Cp,             \* the current task, Idle, or NoProc before the boot is over
    state,          \* Process[p].state and IdleProcess.state
    pd,             \* the scheduling fields of Process[p]
    queue,          \* system_tasks, periodic_tasks and rr_tasks
    Messages,       \* Messages[p], the message p has sent and nobody received
    msg_queue,      \* msg_queue, as the pids whose Messages[] entry is in the list
    req,            \* the request parameters on the stack of p's last call
    Tasks,          \* the number of tasks
    out_pid,        \* the pid the last call returned, NULL if it returns none
    sys_clock,
    clock_state,
    abort           \* "NONE", or the code the kernel stopped with

taskVars == <<pd, queue, Tasks>>
msgVars == <<Messages, msg_queue>>
clockVars == <<sys_clock, clock_state>>
vars == <<Cp, state, taskVars, msgVars, req, out_pid, clockVars, abort>>

-----------------------------------------------------------------------------
(* Kernel_Init: the application's first task, create, is at descriptor 0.   *)

\* ZeroMemory of a descriptor.
ZeroPd == [priority |-> "SYSTEM", period |-> 0, wcet |-> 0, tons |-> 0,
           ticks_remaining |-> 0, clockState |-> "EVEN"]

\* The parameters of a call that sets none of the fields of RequestInfo.
ZeroReq == [msg_mask |-> {}, msg_ptr_data |-> NULL, msg_data |-> 0, out_pid |-> 0]

\* An entry of Messages[] at boot.
EmptyMessage == [data |-> NULL, mask |-> {}, receiver |-> NULL, sender |-> NULL]

Init ==
    /\ Cp = NoProc
    /\ state = [p \in Pid \union {Idle} |-> IF p \in {0, Idle} THEN "READY" ELSE "DEAD"]
    /\ pd = [p \in Pid |-> ZeroPd]
    /\ queue = [l \in Level |-> IF l = "SYSTEM" THEN <<0>> ELSE <<>>]
    /\ Messages = [p \in Pid |-> EmptyMessage]
    /\ msg_queue = <<>>
    /\ req = [p \in Pid |-> ZeroReq]
    /\ Tasks = 1
    /\ out_pid = NULL
    /\ sys_clock = 0
    /\ clock_state = "EVEN"
    /\ abort = "NONE"

-----------------------------------------------------------------------------
(* Dispatch, in its two halves.                                             *)

\* The current task goes to the end of its queue, a PERIODIC one to its place
\* in start order.  It is taken to be at the front: nothing checks it.
Requeue(qs, pds, clock) ==
    IF Cp = Idle THEN qs
    ELSE LET l == pds[Cp].priority
         IN  IF Len(qs[l]) <= 1 THEN qs
             ELSE [qs EXCEPT ![l] =
                     IF l = "PERIODIC"
                     THEN insert(Tail(@), Head(@), pds, clock)
                     ELSE ToEnd(@)]

\* The task is due at the tick it starts, and no longer after it.
PeriodicDue_OnTheTick(qs, pds, clock, overflow) ==
    /\ qs["PERIODIC"] # <<>>
    /\ clock = pds[Head(qs["PERIODIC"])].tons
    /\ overflow = pds[Head(qs["PERIODIC"])].clockState

\* The first PERIODIC task's start time has come: the same wrap state as the
\* clock, and not after it.
PeriodicDue(qs, pds, clock, overflow) ==
    /\ qs["PERIODIC"] # <<>>
    /\ clock >= pds[Head(qs["PERIODIC"])].tons
    /\ overflow = pds[Head(qs["PERIODIC"])].clockState

\* The levels are tried in the order of the enumeration's largest first.
ChosenLevel_RRFirst(st, pds, qs, clock, overflow) ==
    IF HasReady(qs["RR"], st) THEN "RR"
    ELSE IF PeriodicDue(qs, pds, clock, overflow) THEN "PERIODIC"
    ELSE "SYSTEM"

\* The queue whose first READY task is next.  When a PERIODIC task is due the
\* RR queue is not looked at.
ChosenLevel(st, pds, qs, clock, overflow) ==
    IF HasReady(qs["SYSTEM"], st) THEN "SYSTEM"
    ELSE IF PeriodicDue(qs, pds, clock, overflow) THEN "PERIODIC"
    ELSE "RR"

\* A late start is not looked for.
MissedStart_Never(p, pds, clock, overflow) == FALSE

\* p is about to begin its period, after the start of it.
MissedStart(p, pds, clock, overflow) ==
    /\ pds[p].ticks_remaining = pds[p].wcet
    /\ clock > pds[p].tons
    /\ overflow = pds[p].clockState

\* The task is found, but its queue is not rotated.
Choose_InPlace(st, pds, qs, clock, overflow) ==
    LET l == ChosenLevel(st, pds, qs, clock, overflow)
        next == IF HasReady(qs[l], st) THEN qs[l][FirstReady(qs[l], st)] ELSE Idle
    IN  /\ queue' = qs
        /\ abort' = abort
        /\ Cp' = next
        /\ state' = [st EXCEPT ![next] = "RUNNING"]

\* The next task to run, of those in st, pds and qs.  A PERIODIC task is never
\* blocked, so Queue_Rotate_Ready leaves that queue as it is (PeriodicNotBlocked).
Choose(st, pds, qs, clock, overflow) ==
    LET l == ChosenLevel(st, pds, qs, clock, overflow)
        rotated == [qs EXCEPT ![l] = Queue_Rotate_Ready(@, st)]
        next == IF HasReady(qs[l], st) THEN Head(rotated[l]) ELSE Idle
    IN  /\ queue' = rotated
        /\ IF l = "PERIODIC" /\ next # Idle /\ MissedStart(next, pds, clock, overflow)
           THEN /\ abort' = "TIMING_VIOLATION"
                /\ Cp' = Cp
                /\ state' = st
           ELSE /\ abort' = abort
                /\ Cp' = next
                /\ state' = [st EXCEPT ![next] = "RUNNING"]

\* st is the state of the tasks once the handler has set it.  Every request
\* makes the current task READY before it is handled, so the test that skips
\* the choice for a RUNNING current task never does.
Dispatch(st, pds, qs, clock, overflow) ==
    Choose(st, pds, Requeue(qs, pds, clock), clock, overflow)

\* Kernel_Start: the first Dispatch has no current task to move.
Kernel_Start ==
    /\ Cp = NoProc
    /\ Tasks > 0
    /\ Choose(state, pd, queue, sys_clock, clock_state)
    /\ UNCHANGED <<pd, Tasks, msgVars, req, out_pid, clockVars>>

-----------------------------------------------------------------------------
(* Entering and leaving the kernel.                                         *)

Entered_StillRunning == state

\* Entry: the current task is READY while its request is handled.
Entered == [state EXCEPT ![Cp] = "READY"]

\* Kernel_Request: a task, never the idle process, calls a stub of os.c.
Requesting == abort = "NONE" /\ Cp \in Pid

\* The parameters of a call that returns no pid, a message call's with what
\* the handler returns in them.
Passing(info) == req' = [req EXCEPT ![Cp] = info] /\ out_pid' = NULL

\* A call that returns a pid at once.
Returning(pid) == req' = [req EXCEPT ![Cp] = ZeroReq] /\ out_pid' = pid

\* The handler returns without a Dispatch: the caller goes on, as READY.
ReturnToCaller ==
    /\ state' = Entered
    /\ UNCHANGED <<Cp, taskVars, msgVars, clockVars, abort>>

Abort(code) ==
    /\ abort' = code
    /\ UNCHANGED <<Cp, state, taskVars, msgVars, req, out_pid, clockVars>>

-----------------------------------------------------------------------------
(* Tasks: creation, yield, termination.                                     *)

DeadPids_NotRunning == {p \in Pid : state[p] # "RUNNING"}

DeadPids == {p \in Pid : state[p] = "DEAD"}

\* The descriptor Kernel_Task_Create fills in for request r.  The start time
\* is a uint16_t sum; its wrap state is the clock's, wrapped or not.
NewPd(r) ==
    CASE r.priority = "SYSTEM" -> ZeroPd
      [] r.priority = "RR" -> [ZeroPd EXCEPT !.priority = "RR", !.ticks_remaining = 1]
      [] r.priority = "PERIODIC" ->
            [priority |-> "PERIODIC", period |-> r.period, wcet |-> r.wcet,
             tons |-> (sys_clock + r.offset) % TickMod,
             ticks_remaining |-> r.wcet, clockState |-> clock_state]

\* Kernel_Task_Create with a descriptor to spare, then Dispatch.
CreateTask(r) ==
    LET x == CHOOSE p \in DeadPids : \A o \in DeadPids : p <= o
        pds == [pd EXCEPT ![x] = NewPd(r)]
        qs == [queue EXCEPT ![r.priority] =
                 IF r.priority = "PERIODIC" THEN insert(@, x, pds, sys_clock)
                 ELSE enqueue(@, x)]
    IN  /\ pd' = pds
        /\ Tasks' = Tasks + 1
        /\ req' = [req EXCEPT ![x] = ZeroReq, ![Cp] = ZeroReq]
        /\ out_pid' = x
        /\ Dispatch([Entered EXCEPT ![x] = "READY"], pds, qs, sys_clock, clock_state)
        /\ UNCHANGED <<msgVars, clockVars>>

TooManyTasks_OffByOne == Tasks > MaxThread

TooManyTasks == Tasks >= MaxThread

\* Too many tasks is not an error: the caller gets an out_pid of 0.
Kernel_Request_Create(r) ==
    /\ Requesting
    /\ IF TooManyTasks
       THEN /\ Returning(0)
            /\ Dispatch(Entered, pd, queue, sys_clock, clock_state)
            /\ UNCHANGED <<pd, Tasks, msgVars, clockVars>>
       ELSE IF ~ r.code THEN Abort("NULL_TASK_FUNCTION")
       ELSE IF DeadPids = {} THEN Abort("NO_DEAD_PROCESS")
       ELSE IF r.priority = "PERIODIC" /\ ~ (r.period > 0 /\ r.wcet < r.period)
            THEN Abort("INVALID_REQ_INFO")
       ELSE CreateTask(r)

\* Task_Next: a PERIODIC task is set up for its next period.
NextPeriod(p) ==
    LET tons == (p.tons + p.period) % TickMod
    IN  [p EXCEPT !.tons = tons,
                  !.ticks_remaining = p.wcet,
                  !.clockState = IF tons < p.tons THEN Flipped(@) ELSE @]

Kernel_Request_Next ==
    /\ Requesting
    /\ pd' = [pd EXCEPT ![Cp] =
                CASE @.priority = "SYSTEM" -> @
                  [] @.priority = "RR" -> [@ EXCEPT !.ticks_remaining = 1]
                  [] @.priority = "PERIODIC" -> NextPeriod(@)]
    /\ Passing(ZeroReq)
    /\ Dispatch(Entered, pd', queue, sys_clock, clock_state)
    /\ UNCHANGED <<Tasks, msgVars, clockVars>>

\* Is the message in Messages[s] for receiver, with a bit of mask?
MatchesIn(msgs, s, receiver, mask) ==
    msgs[s].receiver = receiver /\ msgs[s].mask \intersect mask # {}

\* msg_find_receiver: is there a message, the index of the first, the queue
\* without it.
HasMessage_Front(receiver, mask) ==
    msg_queue # <<>> /\ MatchesIn(Messages, msg_queue[1], receiver, mask)

HasMessage(receiver, mask) ==
    \E i \in 1 .. Len(msg_queue) : MatchesIn(Messages, msg_queue[i], receiver, mask)

Found(receiver, mask) ==
    CHOOSE i \in 1 .. Len(msg_queue) :
        /\ MatchesIn(Messages, msg_queue[i], receiver, mask)
        /\ \A j \in 1 .. i - 1 : ~ MatchesIn(Messages, msg_queue[j], receiver, mask)

\* The elements of q at the indices in kept, in their order in q.
AtIndices(q, kept) ==
    [n \in 1 .. Cardinality(kept) |->
        q[CHOOSE i \in kept : Cardinality({j \in kept : j <= i}) = n]]

Without_First(k) == Tail(msg_queue)

Without(k) == RemoveAt(msg_queue, k)

\* Only the first message is dropped.
Purged_One(receiver) ==
    IF HasMessage(receiver, ANY) THEN Without(Found(receiver, ANY)) ELSE msg_queue

\* Terminate's loop of msg_find_receiver: no message for the task is left, but
\* one without a type bit.
Purged(receiver) ==
    AtIndices(msg_queue, {i \in 1 .. Len(msg_queue) :
                            ~ MatchesIn(Messages, msg_queue[i], receiver, ANY)})

\* Task_Terminate, also when a task function returns.  The senders of the
\* messages that are dropped stay as they are.
Kernel_Request_Terminate ==
    /\ Requesting
    /\ LET l == pd[Cp].priority
       IN  IF queue[l] = <<>> THEN Abort("QUEUEING_ERROR")
           ELSE IF Head(queue[l]) # Cp THEN Abort("WRONG_TASK_ORDER")
           ELSE /\ msg_queue' = Purged(Cp)
                /\ Tasks' = Tasks - 1
                /\ Passing(ZeroReq)
                /\ Dispatch([state EXCEPT ![Cp] = "DEAD"], pd,
                            [queue EXCEPT ![l] = Tail(@)], sys_clock, clock_state)
                /\ UNCHANGED <<pd, Messages, clockVars>>

\* OS_Abort, with one of the application's codes.
Kernel_Request_Abort == Requesting /\ Abort("USER")

\* Task_GetArg, Task_Pid and Now only fill in a field of the caller's info.
Kernel_Request_GetPid ==
    /\ Requesting
    /\ Returning(Cp)
    /\ ReturnToCaller

-----------------------------------------------------------------------------
(* Messages.                                                                *)

\* A sender that waits for its reply is taken for a receiver.
WaitsFor_AnyBlock(p, mask) ==
    state[p] \in {"RECV_BLOCK", "REPLY_BLOCK"} /\ req[p].msg_mask \intersect mask # {}

\* Is task p blocked in Msg_Recv on a mask with a bit of mask?
WaitsFor(p, mask) ==
    state[p] = "RECV_BLOCK" /\ req[p].msg_mask \intersect mask # {}

MayBlock_Any == Cp \in Pid

\* PERIODIC tasks must not block: they may neither send, receive nor reply.
MayBlock == pd[Cp].priority # "PERIODIC"

\* A request that is refused: the target is not a task.
NoSuchTask(to) == to = BadId \/ (to \in Pid /\ Entered[to] = "DEAD")

Kernel_Request_MsgSend(to, mask) ==
    LET info == [ZeroReq EXCEPT !.msg_mask = mask, !.msg_ptr_data = Cp]
    IN
    /\ Requesting
    /\ IF ~ MayBlock THEN Abort("PERIODIC_MSG")
       ELSE IF NoSuchTask(to) THEN Passing(info) /\ ReturnToCaller
       ELSE /\ IF WaitsFor(to, mask)
               THEN /\ req' = [req EXCEPT ![Cp] = info,
                                          ![to].msg_ptr_data = Cp, ![to].out_pid = Cp]
                    /\ out_pid' = NULL
                    /\ Dispatch([state EXCEPT ![to] = "READY", ![Cp] = "REPLY_BLOCK"],
                                pd, queue, sys_clock, clock_state)
                    /\ UNCHANGED msgVars
               ELSE /\ Passing(info)
                    /\ Messages' = [Messages EXCEPT ![Cp] =
                          [data |-> Cp, mask |-> mask, receiver |-> to, sender |-> Cp]]
                    /\ msg_queue' = Append(msg_queue, Cp)
                    /\ Dispatch([state EXCEPT ![Cp] = "SEND_BLOCK"],
                                pd, queue, sys_clock, clock_state)
            /\ UNCHANGED <<pd, Tasks, clockVars>>

\* The message's entry once it has been received: its mask stays.
Cleared(m) == [m EXCEPT !.data = NULL, !.receiver = NULL, !.sender = NULL]

Kernel_Request_MsgRecv(mask) ==
    LET info == [ZeroReq EXCEPT !.msg_mask = mask]
    IN
    /\ Requesting
    /\ IF ~ MayBlock THEN Abort("PERIODIC_MSG")
       ELSE
       /\ IF HasMessage(Cp, mask)
          THEN LET k == Found(Cp, mask)
                   entry == msg_queue[k]
                   msg == Messages[entry]
               IN  /\ msg_queue' = Without(k)
                   /\ Messages' = [Messages EXCEPT ![entry] = Cleared(@)]
                   /\ Passing([info EXCEPT !.msg_ptr_data = msg.data, !.out_pid = msg.sender])
                   /\ Dispatch([Entered EXCEPT ![msg.sender] = "REPLY_BLOCK"],
                               pd, queue, sys_clock, clock_state)
          ELSE /\ Passing(info)
               /\ Dispatch([state EXCEPT ![Cp] = "RECV_BLOCK"],
                           pd, queue, sys_clock, clock_state)
               /\ UNCHANGED msgVars
       /\ UNCHANGED <<pd, Tasks, clockVars>>

\* A sender whose message nobody has taken is released as well.
AwaitsReply_OrReceiver(p) == Entered[p] \in {"REPLY_BLOCK", "SEND_BLOCK"}

AwaitsReply(p) == Entered[p] = "REPLY_BLOCK"

\* The kernel does not ask whether the caller received a message from to.
Kernel_Request_MsgRply(to, data) ==
    LET info == [ZeroReq EXCEPT !.msg_data = data]
    IN
    /\ Requesting
    /\ IF ~ MayBlock THEN Abort("PERIODIC_MSG")
       ELSE IF NoSuchTask(to) THEN Passing(info) /\ ReturnToCaller
       ELSE /\ IF AwaitsReply(to)
               THEN /\ req' = [req EXCEPT ![Cp] = info, ![to].msg_data = data]
                    /\ out_pid' = NULL
                    /\ Dispatch([Entered EXCEPT ![to] = "READY"],
                                pd, queue, sys_clock, clock_state)
               ELSE /\ Passing(info)
                    /\ Dispatch(Entered, pd, queue, sys_clock, clock_state)
            /\ UNCHANGED <<pd, Tasks, msgVars, clockVars>>

\* A PERIODIC task may call it too.
Kernel_Request_MsgASend(to, mask, data) ==
    LET info == [ZeroReq EXCEPT !.msg_mask = mask, !.msg_data = data]
    IN
    /\ Requesting
    /\ IF to = BadId THEN Abort("INVALID_REQ_INFO")
       ELSE IF ~ WaitsFor(to, mask) THEN Passing(info) /\ ReturnToCaller
       ELSE /\ req' = [req EXCEPT ![Cp] = info,
                                  ![to].msg_data = data,
                                  ![to].msg_ptr_data = NULL,
                                  ![to].out_pid = Cp]
            /\ out_pid' = NULL
            /\ Dispatch([Entered EXCEPT ![to] = "READY"],
                        pd, queue, sys_clock, clock_state)
            /\ UNCHANGED <<pd, Tasks, msgVars, clockVars>>

-----------------------------------------------------------------------------
(* The tick.                                                                *)

\* ticks_remaining is unsigned: a wcet of 0 makes it wrap, not reach 0.
TicksLeft(p) == (pd[p].ticks_remaining - 1) % TickMod

Overrun_Past == Cp # Idle /\ pd[Cp].priority = "PERIODIC" /\ TicksLeft(Cp) < 0

\* The tick is the last of the current task's worst case execution time.
Overrun == Cp # Idle /\ pd[Cp].priority = "PERIODIC" /\ TicksLeft(Cp) = 0

\* The ticks of a SYSTEM task are counted down too.
Ticked_EveryTask ==
    IF Cp = Idle THEN pd ELSE [pd EXCEPT ![Cp].ticks_remaining = @ - 1]

\* What the tick leaves in the current task's descriptor.
Ticked ==
    IF Cp = Idle \/ pd[Cp].priority = "SYSTEM" THEN pd
    ELSE [pd EXCEPT ![Cp].ticks_remaining =
            IF pd[Cp].priority = "RR" /\ TicksLeft(Cp) = 0 THEN 1 ELSE TicksLeft(Cp)]

Kernel_Request_Timer ==
    /\ abort = "NONE"
    /\ Cp # NoProc
    /\ sys_clock < ClockBound
    /\ IF Overrun
       THEN Abort("TIMING_VIOLATION")
       ELSE LET clock == (sys_clock + 1) % TickMod
                overflow == IF clock < sys_clock THEN Flipped(clock_state) ELSE clock_state
            IN  /\ pd' = Ticked
                /\ sys_clock' = clock
                /\ clock_state' = overflow
                /\ Dispatch(Entered, Ticked, queue, clock, overflow)
                /\ out_pid' = NULL
                /\ UNCHANGED <<Tasks, msgVars, req>>

-----------------------------------------------------------------------------

Request ==
    \/ \E r \in CreateRequests : Kernel_Request_Create(r)
    \/ Kernel_Request_Next
    \/ Kernel_Request_Terminate
    \/ Kernel_Request_Abort
    \/ Kernel_Request_GetPid
    \/ \E to \in Pid \union {BadId}, mask \in Masks : Kernel_Request_MsgSend(to, mask)
    \/ \E mask \in Masks : Kernel_Request_MsgRecv(mask)
    \/ \E to \in Pid \union {BadId}, data \in Data : Kernel_Request_MsgRply(to, data)
    \/ \E to \in Pid \union {BadId}, mask \in Masks, data \in Data :
            Kernel_Request_MsgASend(to, mask, data)

\* utils_abort: the processor blinks the code for ever.
Halted == abort # "NONE" /\ UNCHANGED vars

Next ==
    \/ Kernel_Start
    \/ Request
    \/ Kernel_Request_Timer
    \/ Halted

Spec == Init /\ [][Next]_vars

\* The tick is a hardware timer: it cannot be put off for ever.  Nothing is
\* assumed of the tasks.
FairSpec == Spec /\ WF_vars(Kernel_Request_Timer)

-----------------------------------------------------------------------------
(* Structural invariants.                                                   *)

\* Every variable has the values its C type and the kernel's use of it allow.
TypeOK ==
    /\ Cp \in Pid \union {Idle, NoProc}
    /\ state \in [Pid \union {Idle} -> ProcessState]
    /\ pd \in [Pid -> Descriptor]
    /\ queue \in [Level -> Seq(Pid)]
    /\ Messages \in [Pid -> Message]
    /\ msg_queue \in Seq(Pid)
    /\ req \in [Pid -> RequestInfo]
    /\ Tasks \in Int
    /\ out_pid \in Pid \union {NULL}
    /\ sys_clock \in Tick
    /\ clock_state \in OverflowState
    /\ abort \in AbortCode \union {"NONE"}

Live(p) == state[p] # "DEAD"

\* A task is in the queue of its priority, once, if and only if it is not
\* DEAD, and in no other queue (Kernel_Task_Create, Kernel_Request_Terminate
\* and every rotation of Dispatch).
QueuesHoldLiveTasks ==
    /\ \A l \in Level : IsInjective(queue[l])
    /\ \A l \in Level : Range(queue[l]) = {p \in Pid : Live(p) /\ pd[p].priority = l}

\* The comment in Dispatch: the running task is at the front of its queue.
\* While it is in its request it is also neither blocked nor dead, so that the
\* front of the queue is the right task to move or to terminate.
RunningAtFront ==
    abort = "NONE" /\ Cp \in Pid =>
        /\ queue[pd[Cp].priority] # <<>>
        /\ Head(queue[pd[Cp].priority]) = Cp
        /\ state[Cp] \in {"RUNNING", "READY"}

\* Only the current task may be RUNNING: no path leaves the mark on a task
\* that was preempted, which Dispatch would then never choose again.
OnlyCpRuns == \A p \in Pid \union {Idle} : state[p] = "RUNNING" => p = Cp

\* Tasks, which guards creation, counts the descriptors in use.
TasksCounted == Tasks = Cardinality({p \in Pid : Live(p)})

\* The kernel's checks of its own consistency never fire: an empty queue is
\* not dequeued, the terminated task is at the front, and while Tasks is below
\* MAXTHREAD there is a DEAD descriptor.
NoInternalAbort == abort \notin {"QUEUEING_ERROR", "WRONG_TASK_ORDER", "NO_DEAD_PROCESS"}

\* A PERIODIC task is never blocked, so Dispatch need not look past the front
\* of their queue, whose order Queue_Rotate_Ready would not preserve.
PeriodicNotBlocked ==
    \A p \in Pid : Live(p) /\ pd[p].priority = "PERIODIC" => state[p] \in {"READY", "RUNNING"}

-----------------------------------------------------------------------------
(* Messages.                                                                *)

\* A message in the queue is in its sender's mailbox, and the sender is in
\* SEND_BLOCK for it: the sender cannot send, terminate or be reused while the
\* list links to its entry of Messages[].
QueuedSendersBlocked ==
    /\ IsInjective(msg_queue)
    /\ \A s \in Range(msg_queue) :
            state[s] = "SEND_BLOCK" /\ Messages[s].sender = s /\ Messages[s].data = s

\* A message that can be received is for a task that is alive: a task that is
\* created in the descriptor of a dead one never finds that one's messages.
NoMessageForDead ==
    \A s \in Range(msg_queue) :
        Messages[s].mask # {} => Messages[s].receiver \in Pid /\ Live(Messages[s].receiver)

\* No task is blocked in Msg_Recv while the queue has a message it would take
\* (Kernel_Request_MsgSend hands over or enqueues, Kernel_Request_MsgRecv
\* looks before it blocks: a lost wakeup if either test were weaker).
NoMissedMessage ==
    \A p \in Pid, s \in Range(msg_queue) :
        state[p] = "RECV_BLOCK" => ~ MatchesIn(Messages, s, p, req[p].msg_mask)

-----------------------------------------------------------------------------
(* Scheduling.                                                              *)

\* The current task is of level l.
RunsAt(l) == Cp \in Pid /\ pd[Cp].priority = l

\* The scheduling policy's first level: no SYSTEM task is READY while a task
\* of a lower level, or the idle process, has the processor, whichever request
\* made it ready.
SystemPreempts ==
    abort = "NONE" /\ (Cp = Idle \/ RunsAt("PERIODIC") \/ RunsAt("RR")) =>
        \A p \in Pid : Live(p) /\ pd[p].priority = "SYSTEM" => state[p] # "READY"

\* Is the start time of the live PERIODIC task p past or now?
IsDue(p) ==
    /\ Live(p)
    /\ pd[p].priority = "PERIODIC"
    /\ pd[p].clockState = clock_state
    /\ pd[p].tons <= sys_clock

\* The policy's second level: no PERIODIC task whose start time has come waits
\* while an RR task or the idle process has the processor.  Dispatch looks at
\* the front of the queue only, so it depends on the order insert keeps.
PeriodicPreempts ==
    abort = "NONE" /\ (Cp = Idle \/ RunsAt("RR")) =>
        \A p \in Pid : ~ IsDue(p)

\* The order Dispatch assumes of the PERIODIC queue: the tasks that are due are
\* before those that are not, and these are in order of their start times.
PeriodicOrder ==
    \A i, j \in 1 .. Len(queue["PERIODIC"]) :
        LET p == queue["PERIODIC"][i]
            next == queue["PERIODIC"][j]
        IN  i < j => /\ IsDue(next) => IsDue(p)
                     /\ ~ IsDue(p) => ~ later(pd[p], pd[next])

\* A PERIODIC task with some worst case execution time has some of it left as
\* long as the kernel lets it run, and never more than all of it, whatever the
\* other tasks do.  A wcet of 0, which creation accepts (kernel.c:226) and
\* timings.h:9 uses, wraps at the first tick and bounds that task by nothing.
WithinWcet ==
    \A p \in Pid : Live(p) /\ pd[p].priority = "PERIODIC" /\ pd[p].wcet > 0 =>
        pd[p].ticks_remaining \in 1 .. pd[p].wcet

\* The idle process runs only when no SYSTEM or RR task is READY.
IdleOnlyWhenNothingReady ==
    abort = "NONE" /\ Cp = Idle =>
        \A p \in Pid : Live(p) /\ pd[p].priority # "PERIODIC" => state[p] # "READY"

\* A step that unblocks p: a receiver is made READY by a task that sends to it,
\* a sender in SEND_BLOCK goes to REPLY_BLOCK when the receiver of its message
\* takes it, a sender in REPLY_BLOCK is made READY by a reply.
UnblockedBy(p) ==
    /\ state[p] = "RECV_BLOCK" /\ state'[p] # "RECV_BLOCK" =>
            /\ req'[p].out_pid = Cp
            /\ \/ state'[Cp] = "REPLY_BLOCK" /\ req'[p].msg_ptr_data = Cp
               \/ state'[Cp] # "REPLY_BLOCK" /\ req'[p].msg_ptr_data = NULL
    /\ state[p] = "SEND_BLOCK" /\ state'[p] # "SEND_BLOCK" =>
            /\ state'[p] = "REPLY_BLOCK"
            /\ Cp = Messages[p].receiver /\ req'[Cp].out_pid = p
    /\ state[p] = "REPLY_BLOCK" /\ state'[p] # "REPLY_BLOCK" =>
            /\ Cp # p /\ req'[p].msg_data = req'[Cp].msg_data
            /\ UNCHANGED <<clockVars, msgVars, Tasks>>

\* A task that is blocked is unblocked by the request it waits for and by no
\* other step: no tick, creation or termination does.
UnblockedByPartner == [][\A p \in Pid : UnblockedBy(p)]_vars

Waits(p) == state[p] = "READY" /\ p # Cp

\* Is p somewhere before other in q?
AheadIn(q, p, other) == \E i, j \in 1 .. Len(q) : i < j /\ q[i] = p /\ q[j] = other

\* The task behind the current one in its queue.
NextInLine(p) == LET q == queue[pd[Cp].priority] IN Len(q) > 1 /\ p = q[2]

\* SYSTEM and RR tasks are first-come-first-served (os.h:31): while a task waits
\* for the processor no task of its level gets ahead of it, however the queue is
\* turned past blocked ones, except that the termination of a task moves the
\* next in line to the end.
FirstComeFirstServed ==
    [][\A p \in Pid :
            /\ pd[p].priority # "PERIODIC"
            /\ Waits(p) /\ Waits(p)'
            /\ ~ (Tasks' < Tasks /\ NextInLine(p))
            => \A other \in Pid :
                    AheadIn(queue[pd[p].priority], p, other) =>
                        AheadIn(queue'[pd[p].priority], p, other)]_vars

\* Only RR tasks are left: no SYSTEM or PERIODIC task can hold the processor.
OnlyRRLeft == \A p \in Pid : Live(p) => pd[p].priority = "RR"

ReadyRR(p) == abort = "NONE" /\ state[p] = "READY" /\ pd[p].priority = "RR"

\* os.h: RR tasks are first-come-first-served.  A ready RR task gets the
\* processor sooner or later, if no higher level competes for it and tasks
\* terminate finitely often: a termination moves the next in line to the end.
RRServedWithoutTermination ==
    (<>[][Tasks' >= Tasks]_vars /\ <>[]OnlyRRLeft) =>
        \A p \in Pid : ReadyRR(p) ~> (Cp = p \/ abort # "NONE")

=============================================================================
