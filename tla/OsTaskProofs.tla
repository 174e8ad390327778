---------------------------- MODULE OsTaskProofs ----------------------------
(***************************************************************************)
(* The four message calls as the tasks see them, for every number of       *)
(* tasks, set of masks, values passed and creation requests: a message has *)
(* one server, and the kernel with the stubs around it implements          *)
(* Rendezvous.                                                             *)
(*                                                                         *)
(* StubInv is inductive together with CallsInv of KernelProofs: who is     *)
(* blocked in a call is in that call's stub, and who serves a task serves  *)
(* one that is in REPLY_BLOCK.  So nobody reads the variable of a task     *)
(* that runs, and a step of the current task changes the calls of no other *)
(* task but its partner.                                                   *)
(***************************************************************************)
EXTENDS OsTasks, KernelProofs

StubTypes ==
    /\ variable \in [Pid -> Nat]
    /\ stub \in [Pid -> {"none", "send", "recv"}]
    /\ clients \in [Pid -> SUBSET Pid]

\* A blocked task is in the stub of its call, and a dead one is in no call.
InCall(p) ==
    /\ state[p] \in {"SEND_BLOCK", "REPLY_BLOCK"} => stub[p] = "send"
    /\ state[p] = "RECV_BLOCK" => stub[p] = "recv"
    /\ state[p] = "DEAD" => stub[p] = "none" /\ clients[p] = {}

\* Does task r have p's message, or is it about to return with it?
Serves(r, p) ==
    \/ p \in clients[r]
    \/ stub[r] = "recv" /\ state[r] # "RECV_BLOCK" /\ req[r].msg_ptr_data = p

\* OneServer, without counting.
ServedOnce(p) ==
    /\ \A q, r \in Pid : Serves(q, p) /\ Serves(r, p) => q = r
    /\ \A r \in Pid : Serves(r, p) => state[p] = "REPLY_BLOCK"

\* Msg_Recv returns the pid of the task whose variable it reads.
NamesSender(r) ==
    stub[r] = "recv" /\ state[r] # "RECV_BLOCK" /\ req[r].msg_ptr_data # NULL =>
        req[r].out_pid = req[r].msg_ptr_data

TaskInv(p) == InCall(p) /\ ServedOnce(p) /\ NamesSender(p)

StubInv == StubTypes /\ \A p \in Pid : TaskInv(p)

\* The inductive invariant of this module.
OsInv == CallsInv /\ StubInv

\* The calls the tasks are in, as Rendezvous has them.
AllCalls == [p \in Pid |-> CallOf(p)]

-----------------------------------------------------------------------------
(* The calls of the tasks, one kind at a time.                              *)

LEMMA ServersMean ==
    /\ \A p : Servers(p) = {r \in Pid : Serves(r, p)}
    /\ \A p : Servers(p)' = {r \in Pid : Serves(r, p)'}
BY DEF Servers, Serves

\* The call p is in, by its stub and its state.
CallIs(p) ==
    /\ stub[p] = "none" => CallOf(p) = [op |-> "none"]
    /\ stub[p] = "send" /\ state[p] = "SEND_BLOCK" /\ p \in Range(msg_queue) =>
        CallOf(p) = [op |-> "send", to |-> Messages[p].receiver,
                     mask |-> Messages[p].mask, value |-> variable[p]]
    /\ stub[p] = "send" /\ state[p] = "SEND_BLOCK" /\ p \notin Range(msg_queue) =>
        CallOf(p) = [op |-> "lost"]
    /\ stub[p] = "send" /\ state[p] = "REPLY_BLOCK" /\ (\A r \in Pid : ~ Serves(r, p)) =>
        CallOf(p) = [op |-> "lost"]
    /\ \A r \in Pid : stub[p] = "send" /\ state[p] = "REPLY_BLOCK" /\ ServedOnce(p) /\ Serves(r, p) =>
        CallOf(p) = [op |-> "await", server |-> r]
    /\ stub[p] = "send" /\ state[p] \notin {"SEND_BLOCK", "REPLY_BLOCK"} =>
        CallOf(p) = [op |-> "replied", value |-> req[p].msg_data]
    /\ stub[p] = "recv" /\ state[p] = "RECV_BLOCK" =>
        CallOf(p) = [op |-> "recv", mask |-> req[p].msg_mask]
    /\ stub[p] = "recv" /\ state[p] # "RECV_BLOCK" /\ req[p].msg_ptr_data = NULL =>
        CallOf(p) = [op |-> "received", value |-> req[p].msg_data]
    /\ stub[p] = "recv" /\ state[p] # "RECV_BLOCK" /\ req[p].msg_ptr_data # NULL =>
        CallOf(p) = [op |-> "received", value |-> variable[req[p].msg_ptr_data]]

LEMMA CallKinds == \A p \in Pid : CallIs(p) /\ CallIs(p)'
<1>. SUFFICES ASSUME NEW p \in Pid PROVE CallIs(p) /\ CallIs(p)'
    OBVIOUS
<1>1. /\ (\A r \in Pid : ~ Serves(r, p)) => Servers(p) = {}
      /\ (\A r \in Pid : ~ Serves(r, p)') => Servers(p)' = {}
    BY ServersMean
<1>2. ASSUME NEW r \in Pid
      PROVE  /\ ServedOnce(p) /\ Serves(r, p) => Servers(p) = {r}
             /\ ServedOnce(p)' /\ Serves(r, p)' => Servers(p)' = {r}
    BY ServersMean DEF ServedOnce
<1>3. CallIs(p)
    BY <1>1, <1>2 DEF CallIs, CallOf, SendOf, Delivered
<1>4. CallIs(p)'
    BY <1>1, <1>2 DEF CallIs, CallOf, SendOf, Delivered
<1>. QED  BY <1>3, <1>4

\* What a call that Rendezvous takes for a send, or for a receive, is in the
\* kernel.
LEMMA CallOps ==
    ASSUME OsInv, NEW p \in Pid
    PROVE  /\ CallOf(p).op = "recv" =>
                stub[p] = "recv" /\ state[p] = "RECV_BLOCK"
           /\ CallOf(p).op = "send" =>
                stub[p] = "send" /\ state[p] = "SEND_BLOCK" /\ p \in Range(msg_queue)
           /\ CallOf(p).op = "await" =>
                /\ stub[p] = "send" /\ state[p] = "REPLY_BLOCK"
                /\ \E r \in Pid : Serves(r, p)
<1>1. stub[p] \in {"none", "send", "recv"} /\ CallIs(p) /\ ServedOnce(p)
    BY CallKinds DEF OsInv, StubInv, StubTypes, TaskInv
<1>. DEFINE c == CallOf(p)
<1>2. CASE stub[p] = "none"
    <2>1. c.op = "none"
        BY <1>1, <1>2 DEF CallIs
    <2>. QED  BY <2>1
<1>3. CASE stub[p] = "send" /\ state[p] = "SEND_BLOCK"
    <2>1. c.op = IF p \in Range(msg_queue) THEN "send" ELSE "lost"
        BY <1>1, <1>3 DEF CallIs
    <2>. QED  BY <1>3, <2>1
<1>4. CASE stub[p] = "send" /\ state[p] = "REPLY_BLOCK"
    <2>1. c.op = IF \E r \in Pid : Serves(r, p) THEN "await" ELSE "lost"
        BY <1>1, <1>4 DEF CallIs
    <2>. QED  BY <1>4, <2>1
<1>5. CASE stub[p] = "send" /\ state[p] \notin {"SEND_BLOCK", "REPLY_BLOCK"}
    <2>1. c.op = "replied"
        BY <1>1, <1>5 DEF CallIs
    <2>. QED  BY <2>1
<1>6. CASE stub[p] = "recv"
    <2>1. c.op = IF state[p] = "RECV_BLOCK" THEN "recv" ELSE "received"
        BY <1>1, <1>6 DEF CallIs
    <2>. QED  BY <1>6, <2>1
<1>. QED  BY <1>1, <1>2, <1>3, <1>4, <1>5, <1>6

-----------------------------------------------------------------------------
(* The tasks a step does not touch.                                         *)

\* The step leaves the call of p, and whom p serves, as they were.
Same(p) ==
    /\ UNCHANGED <<stub[p], clients[p]>>
    /\ stub[p] # "none" => req'[p] = req[p]
    /\ state[p] \in Blocked \/ state'[p] \in Blocked => state'[p] = state[p]
    /\ state'[p] = "DEAD" => state[p] = "DEAD"
    /\ p \in Range(msg_queue)' <=> p \in Range(msg_queue)
    /\ p \in Range(msg_queue) => Messages'[p] = Messages[p]

LEMMA OthersSame ==
    ASSUME OsInv, NEW X \in SUBSET Pid,
           \A p \in Pid \ X : Same(p),
           \A p \in Pid \ X, r \in X : Serves(r, p)' <=> Serves(r, p),
           \A q \in Pid : variable'[q] = variable[q] \/ state[q] \notin Blocked
    PROVE  \A p \in Pid \ X :
             /\ \A r \in Pid : Serves(r, p)' <=> Serves(r, p)
             /\ TaskInv(p)'
             /\ CallOf(p)' = CallOf(p)
<1>. SUFFICES ASSUME NEW p \in Pid \ X
              PROVE  /\ \A r \in Pid : Serves(r, p)' <=> Serves(r, p)
                     /\ TaskInv(p)'
                     /\ CallOf(p)' = CallOf(p)
    OBVIOUS
<1>1. \A r \in Pid : Serves(r, p)' <=> Serves(r, p)
    BY DEF Same, Serves, Blocked
<1>2. TaskInv(p)
    BY DEF OsInv, StubInv
<1>3. ServedOnce(p)'
    BY <1>1, <1>2 DEF TaskInv, ServedOnce, Same, Blocked
<1>4. InCall(p)' /\ NamesSender(p)'
    BY <1>2 DEF TaskInv, InCall, NamesSender, Same, Blocked
<1>5. CallIs(p) /\ CallIs(p)'
    BY CallKinds
<1>6. stub[p] \in {"none", "send", "recv"} /\ req[p].msg_ptr_data \in Pid \union {NULL}
    BY DEF OsInv, StubInv, StubTypes, CallsInv, IInv, CallInv, RequestInfo
<1>7. CASE stub[p] = "none"
    BY <1>1, <1>3, <1>4, <1>5, <1>7 DEF TaskInv, CallIs, Same
<1>8. CASE stub[p] = "send"
    <2>1. CASE state[p] = "SEND_BLOCK"
        <3>1. variable'[p] = variable[p]
            BY <2>1 DEF Blocked
        <3>. QED  BY <1>5, <1>8, <2>1, <3>1, <1>1, <1>3, <1>4 DEF CallIs, Same, Blocked, TaskInv
    <2>2. CASE state[p] = "REPLY_BLOCK"
        BY <1>1, <1>2, <1>3, <1>4, <1>5, <1>8, <2>2 DEF CallIs, Same, Blocked, TaskInv
    <2>3. CASE state[p] \notin {"SEND_BLOCK", "REPLY_BLOCK"}
        BY <1>1, <1>3, <1>4, <1>5, <1>8, <2>3 DEF CallIs, Same, Blocked, TaskInv
    <2>. QED  BY <2>1, <2>2, <2>3
<1>9. CASE stub[p] = "recv"
    <2>1. CASE state[p] = "RECV_BLOCK"
        BY <1>1, <1>3, <1>4, <1>5, <1>9, <2>1 DEF CallIs, Same, Blocked, TaskInv
    <2>2. CASE state[p] # "RECV_BLOCK"
        <3>1. req[p].msg_ptr_data # NULL => variable'[req[p].msg_ptr_data] = variable[req[p].msg_ptr_data]
            <4>1. SUFFICES ASSUME req[p].msg_ptr_data \in Pid
                           PROVE  state[req[p].msg_ptr_data] \in Blocked
                BY <1>6
            <4>2. Serves(p, req[p].msg_ptr_data)
                BY <1>9, <2>2 DEF Serves
            <4>. QED  BY <4>1, <4>2 DEF OsInv, StubInv, TaskInv, ServedOnce, Blocked
        <3>. QED  BY <1>1, <1>3, <1>4, <1>5, <1>9, <2>2, <3>1 DEF CallIs, Same, Blocked, TaskInv
    <2>. QED  BY <2>1, <2>2
<1>. QED  BY <1>6, <1>7, <1>8, <1>9

-----------------------------------------------------------------------------
(* The steps that change no task's call.                                    *)

\* The step is one of Rendezvous, or none.
Simulates == Abstract!Next \/ UNCHANGED <<AllCalls, variable>>

\* What every step of the stubs and the kernel does.
OsCorrect == StubInv' /\ Simulates

\* The stubs' variables stay, and so does every task's call.
LEMMA QuietCorrect ==
    ASSUME OsInv, UNCHANGED <<variable, stub, clients>>, \A p \in Pid : Same(p)
    PROVE  OsCorrect
<1>1. \A p \in Pid : TaskInv(p)' /\ CallOf(p)' = CallOf(p)
    <2>1. /\ \A p \in Pid \ {} : Same(p)
          /\ \A p \in Pid \ {}, r \in {} : Serves(r, p)' <=> Serves(r, p)
          /\ \A q \in Pid : variable'[q] = variable[q] \/ state[q] \notin Blocked
        OBVIOUS
    <2>2. \A p \in Pid \ {} : TaskInv(p)' /\ CallOf(p)' = CallOf(p)
        BY <2>1, OthersSame
    <2>. QED  BY <2>2
<1>2. StubInv'
    BY <1>1 DEF OsInv, StubInv, StubTypes
<1>3. UNCHANGED <<AllCalls, variable>>
    BY <1>1 DEF AllCalls
<1>. QED  BY <1>2, <1>3 DEF OsCorrect, Simulates

\* The kernel dispatches, and what it does before blocks and unblocks no task,
\* ends none, and writes the requests of none that is in a call.
LEMMA QuietStates ==
    ASSUME OsInv, UNCHANGED <<variable, stub, clients, msgVars>>,
           NEW st,
           \A p \in Pid : state'[p] = st[p] \/ (st[p] = "READY" /\ state'[p] = "RUNNING"),
           \A p \in Pid : state[p] \in Blocked \/ st[p] \in Blocked => st[p] = state[p],
           \A p \in Pid : st[p] = "DEAD" => state[p] = "DEAD",
           \A p \in Pid : stub[p] # "none" => req'[p] = req[p]
    PROVE  OsCorrect
<1>1. \A p \in Pid : Same(p)
    BY DEF Same, Blocked, msgVars
<1>. QED  BY <1>1, QuietCorrect

\* A handler that dispatches tasks filed in their queues as they were.
LEMMA Dispatched ==
    ASSUME OsInv, abort = "NONE", Cp \in Pid \union {Idle},
           NEW st \in [Pid \union {Idle} -> ProcessState], Calm(st),
           NEW pds \in [Pid -> Descriptor], NEW clock, NEW overflow,
           \A p \in Pid : st[p] = "DEAD" <=> state[p] = "DEAD",
           \A p \in Pid : pds[p].priority = pd[p].priority,
           Dispatch(st, pds, queue, clock, overflow), pd' = pds
    PROVE  \A p \in Pid : state'[p] = st[p] \/ (st[p] = "READY" /\ state'[p] = "RUNNING")
<1>1. SchedInv /\ Filed(state, pd, queue)
    BY DEF OsInv, CallsInv, IInv, SchedInv
<1>2. Filed(st, pds, queue)
    <2>1. /\ st \in [Pid \union {Idle} -> ProcessState]
          /\ pds \in [Pid -> Descriptor]
          /\ \A p \in Pid : st[p] = "DEAD" <=> state[p] = "DEAD"
          /\ \A p \in Pid : pds[p].priority = pd[p].priority
        OBVIOUS
    <2>. QED  BY ONLY <1>1, <2>1, FiledSame
<1>. QED  BY <1>1, <1>2, DispatchKeeps

\* A handler that changes no state but the current task's.
LEMMA YieldQuiet ==
    ASSUME OsInv, UNCHANGED <<variable, stub, clients, msgVars>>,
           abort = "NONE", Cp \in Pid \union {Idle},
           NEW pds \in [Pid -> Descriptor], NEW clock, NEW overflow,
           \A p \in Pid : pds[p].priority = pd[p].priority,
           Dispatch(Entered, pds, queue, clock, overflow), pd' = pds,
           \A p \in Pid : stub[p] # "none" => req'[p] = req[p]
    PROVE  OsCorrect
<1>1. /\ Entered \in [Pid \union {Idle} -> ProcessState] /\ Calm(Entered)
      /\ \A p \in Pid \union {Idle} : Entered[p] = IF p = Cp THEN "READY" ELSE state[p]
      /\ \A p \in Pid : Entered[p] = "DEAD" <=> state[p] = "DEAD"
    BY EnteredFiled DEF OsInv, CallsInv
<1>2. \A p \in Pid : state'[p] = Entered[p] \/ (Entered[p] = "READY" /\ state'[p] = "RUNNING")
    BY <1>1, Dispatched
<1>3. Cp \in Pid => state[Cp] \in {"RUNNING", "READY"}
    BY DEF OsInv, CallsInv, IInv, SchedInv, RunningAtFront
<1>. QED  BY <1>1, <1>2, <1>3, QuietStates DEF Blocked

\* utils_abort.
LEMMA AbortQuiet ==
    ASSUME OsInv, NEW code, Abort(code), UNCHANGED <<variable, stub, clients>>
    PROVE  OsCorrect
<1>1. \A p \in Pid : Same(p)
    BY DEF Same, Abort, msgVars
<1>. QED  BY <1>1, QuietCorrect

\* The caller is in its own code, and neither blocked nor dead.
LEMMA CallerInTask ==
    ASSUME OsInv, InTask, Requesting
    PROVE  /\ Cp \in Pid /\ abort = "NONE" /\ stub[Cp] = "none"
           /\ state[Cp] \in {"RUNNING", "READY"} /\ Cp \notin Range(msg_queue)
           /\ \A r \in Pid : ~ Serves(r, Cp)
           /\ CallOf(Cp) = [op |-> "none"]
<1>1. /\ Cp \in Pid /\ abort = "NONE" /\ stub[Cp] = "none"
      /\ state[Cp] \in {"RUNNING", "READY"} /\ Cp \notin Range(msg_queue)
    BY Caller DEF OsInv, CallsInv, InTask
<1>2. \A r \in Pid : ~ Serves(r, Cp)
    BY <1>1 DEF OsInv, StubInv, TaskInv, ServedOnce
<1>3. CallOf(Cp) = [op |-> "none"]
    BY <1>1, CallKinds DEF CallIs
<1>. QED  BY <1>1, <1>2, <1>3

\* A call of the kernel that is refused, by a task that is in no stub.
LEMMA ReturnQuiet ==
    ASSUME OsInv, InTask, Requesting, ReturnToCaller, UNCHANGED <<variable, stub, clients>>,
           \A p \in Pid : p # Cp => req'[p] = req[p]
    PROVE  OsCorrect
<1>1. Cp \in Pid /\ stub[Cp] = "none" /\ state[Cp] \in {"RUNNING", "READY"}
    BY CallerInTask
<1>2. /\ \A p \in Pid : state'[p] = IF p = Cp THEN "READY" ELSE state[p]
      /\ UNCHANGED msgVars
    BY EnteredFiled DEF ReturnToCaller, OsInv, CallsInv, Requesting
<1>. QED  BY <1>1, <1>2, QuietStates DEF Blocked

\* Task_Create: the new task is in no stub, whatever the dead one did.
LEMMA CreateQuiet ==
    ASSUME OsInv, NEW r \in CreateRequests, Task_Create(r)
    PROVE  OsCorrect
<1>1. InTask /\ Kernel_Request_Create(r) /\ Requesting /\ UNCHANGED <<variable, stub, clients>>
    BY DEF Task_Create, Kernel_Request_Create
<1>2. Cp \in Pid /\ abort = "NONE" /\ stub[Cp] = "none" /\ state[Cp] \in {"RUNNING", "READY"}
    BY <1>1, CallerInTask
<1>3. CASE TooManyTasks
    <2>1. /\ Returning(0)
          /\ Dispatch(Entered, pd, queue, sys_clock, clock_state)
          /\ UNCHANGED <<pd, Tasks, msgVars, clockVars>>
        BY <1>1, <1>3 DEF Kernel_Request_Create
    <2>2. \A p \in Pid : stub[p] # "none" => req'[p] = req[p]
        BY <1>2, <2>1, OthersPass DEF OsInv, CallsInv
    <2>3. pd \in [Pid -> Descriptor]
        BY DEF OsInv, CallsInv, IInv, SchedInv, Filed
    <2>. QED  BY <1>1, <1>2, <2>1, <2>2, <2>3, YieldQuiet
<1>4. CASE ~ TooManyTasks /\ ~ CreateTask(r)
    <2>1. Abort("NULL_TASK_FUNCTION") \/ Abort("INVALID_REQ_INFO")
        BY <1>1, <1>4, FreeDescriptor DEF Kernel_Request_Create, OsInv, CallsInv
    <2>. QED  BY <1>1, <2>1, AbortQuiet
<1>5. CASE ~ TooManyTasks /\ CreateTask(r)
    <2>1. /\ FreePid \in Pid /\ state[FreePid] = "DEAD"
          /\ pd' = PdsWith(r)
          /\ req' = [req EXCEPT ![FreePid] = ZeroReq, ![Cp] = ZeroReq]
          /\ Dispatch(StatesWith, PdsWith(r), QueuesWith(r), sys_clock, clock_state)
          /\ UNCHANGED msgVars
          /\ \A p \in Pid \union {Idle} :
                StatesWith[p] = IF p \in {FreePid, Cp} THEN "READY" ELSE state[p]
          /\ Calm(StatesWith)
          /\ Filed(StatesWith, PdsWith(r), QueuesWith(r))
        BY <1>1, <1>5, CreateFiled DEF OsInv, CallsInv
    <2>2. \A p \in Pid : \/ state'[p] = StatesWith[p]
                         \/ StatesWith[p] = "READY" /\ state'[p] = "RUNNING"
        BY <1>2, <2>1, DispatchKeeps DEF OsInv, CallsInv, IInv
    <2>3. stub[FreePid] = "none"
        BY <2>1 DEF OsInv, StubInv, TaskInv, InCall
    <2>4. \A p \in Pid : stub[p] # "none" => req'[p] = req[p]
        BY <1>2, <2>1, <2>3 DEF OsInv, CallsInv, IInv, CallInv
    <2>. HIDE DEF FreePid, StatesWith
    <2>. QED  BY <1>1, <1>2, <2>1, <2>2, <2>4, QuietStates DEF Blocked
<1>. QED  BY <1>3, <1>4, <1>5

\* Task_Next.
LEMMA NextQuiet == ASSUME OsInv, Task_Next PROVE OsCorrect
<1>1. /\ InTask /\ Kernel_Request_Next /\ Requesting /\ UNCHANGED <<variable, stub, clients>>
      /\ Passing(ZeroReq)
      /\ Dispatch(Entered, pd', queue, sys_clock, clock_state)
      /\ UNCHANGED msgVars
    BY DEF Task_Next, Kernel_Request_Next
<1>2. Cp \in Pid /\ abort = "NONE" /\ stub[Cp] = "none"
    BY <1>1, CallerInTask
<1>3. pd' \in [Pid -> Descriptor] /\ \A p \in Pid : pd'[p].priority = pd[p].priority
    BY <1>1, NextLevels DEF OsInv, CallsInv
<1>4. \A p \in Pid : stub[p] # "none" => req'[p] = req[p]
    BY <1>1, <1>2, OthersPass DEF OsInv, CallsInv
<1>. QED  BY <1>1, <1>2, <1>3, <1>4, YieldQuiet

\* The boot, the tick, and a kernel that has stopped.
LEMMA OutsideQuiet == ASSUME OsInv, OutsideTasks PROVE OsCorrect
<1>0. UNCHANGED <<variable, stub, clients>>
    BY DEF OutsideTasks
<1>1. CASE Kernel_Start
    <2>1. Calm(state) /\ Filed(state, pd, queue)
        BY <1>1, PidFacts DEF Kernel_Start, OsInv, CallsInv, IInv, SchedInv, OnlyCpRuns, Calm
    <2>2. /\ Choose(state, pd, queue, sys_clock, clock_state)
          /\ UNCHANGED <<msgVars, req>>
        BY <1>1 DEF Kernel_Start
    <2>3. \A p \in Pid : state'[p] = state[p] \/ (state[p] = "READY" /\ state'[p] = "RUNNING")
        BY <2>1, <2>2, ChooseFiled
    <2>. QED  BY <1>0, <2>2, <2>3, QuietStates
<1>2. CASE Kernel_Request_Timer
    <2>1. abort = "NONE" /\ Cp \in Pid \union {Idle}
        BY <1>2 DEF Kernel_Request_Timer, OsInv, CallsInv, IInv, SchedInv
    <2>2. CASE Overrun
        <3>1. Abort("TIMING_VIOLATION")
            BY <1>2, <2>2 DEF Kernel_Request_Timer
        <3>. QED  BY <1>0, <3>1, AbortQuiet
    <2>3. CASE ~ Overrun
        <3>. DEFINE clock == (sys_clock + 1) % TickMod
                    overflow == IF clock < sys_clock THEN Flipped(clock_state) ELSE clock_state
        <3>1. /\ pd' = Ticked
              /\ Dispatch(Entered, Ticked, queue, clock, overflow)
              /\ UNCHANGED <<msgVars, req>>
            BY <1>2, <2>3 DEF Kernel_Request_Timer
        <3>2. Ticked \in [Pid -> Descriptor] /\ \A p \in Pid : Ticked[p].priority = pd[p].priority
            BY <2>1, TickedLevels DEF OsInv, CallsInv
        <3>. HIDE DEF clock, overflow
        <3>. QED  BY <1>0, <2>1, <3>1, <3>2, YieldQuiet
    <2>. QED  BY <2>2, <2>3
<1>3. CASE Halted
    <2>1. \A p \in Pid : Same(p)
        BY <1>0, <1>3 DEF Halted, vars, msgVars, Same
    <2>. QED  BY <1>0, <2>1, QuietCorrect
<1>. QED  BY <1>1, <1>2, <1>3 DEF OutsideTasks

-----------------------------------------------------------------------------
(* The stubs when the kernel has returned.                                  *)

\* A step of the current task that is its own: no state of the kernel changes,
\* and nobody reads its variable.
LEMMA OwnStep ==
    ASSUME OsInv, abort = "NONE", NEW me \in Pid, Cp = me, UNCHANGED vars,
           \A p \in Pid : p # me => UNCHANGED <<stub[p], clients[p], variable[p]>>,
           \A p \in Pid : Serves(me, p)' <=> Serves(me, p),
           InCall(me)', NamesSender(me)', StubTypes'
    PROVE  /\ StubInv'
           /\ \A p \in Pid : p # me => CallOf(p)' = CallOf(p)
<1>1. state[me] \in {"RUNNING", "READY"}
    BY DEF OsInv, CallsInv, IInv, SchedInv, RunningAtFront
<1>2. \A p \in Pid \ {me} : /\ TaskInv(p)' /\ CallOf(p)' = CallOf(p)
                            /\ \A r \in Pid : Serves(r, p)' <=> Serves(r, p)
    <2>1. \A p \in Pid \ {me} : Same(p)
        BY DEF Same, vars, msgVars
    <2>2. \A q \in Pid : variable'[q] = variable[q] \/ state[q] \notin Blocked
        BY <1>1 DEF Blocked
    <2>3. {me} \in SUBSET Pid /\ \A p \in Pid \ {me}, r \in {me} : Serves(r, p)' <=> Serves(r, p)
        OBVIOUS
    <2>. QED  BY <2>1, <2>2, <2>3, OthersSame
<1>3. ServedOnce(me)'
    <2>1. ServedOnce(me)
        BY DEF OsInv, StubInv, TaskInv
    <2>2. \A r \in Pid : Serves(r, me)' <=> Serves(r, me)
        BY DEF Serves, vars
    <2>. QED  BY <2>1, <2>2 DEF ServedOnce, vars
<1>4. TaskInv(me)'
    BY <1>3 DEF TaskInv
<1>. QED  BY <1>2, <1>4 DEF StubInv

LEMMA SendReturns == ASSUME OsInv, Msg_Send_returns PROVE OsCorrect
<1>1. PICK me \in Pid : Cp = me
    BY DEF Msg_Send_returns
<1>2. /\ abort = "NONE" /\ stub[me] = "send"
      /\ variable' = [variable EXCEPT ![me] = req[me].msg_data]
      /\ stub' = [stub EXCEPT ![me] = "none"]
      /\ UNCHANGED <<vars, clients>>
    BY <1>1 DEF Msg_Send_returns, Calls
<1>3. state[me] \in {"RUNNING", "READY"} /\ req[me].msg_data \in Nat
    <2>1. state[me] \in {"RUNNING", "READY"}
        BY <1>1, <1>2 DEF OsInv, CallsInv, IInv, SchedInv, RunningAtFront
    <2>2. req[me] \in RequestInfo
        BY DEF OsInv, CallsInv, IInv, CallInv
    <2>3. req[me].msg_data \in Data \union {0}
        BY <2>2 DEF RequestInfo
    <2>4. Data \union {0} \subseteq Nat
        BY DataAssumption
    <2>. QED  BY <2>1, <2>3, <2>4
<1>4. StubTypes'
    BY <1>2, <1>3 DEF OsInv, StubInv, StubTypes
<1>5. stub'[me] = "none" /\ variable'[me] = req[me].msg_data
    BY <1>2 DEF OsInv, StubInv, StubTypes
<1>6. /\ StubInv'
      /\ \A p \in Pid : p # me => CallOf(p)' = CallOf(p)
    <2>1. \A p \in Pid : p # me => UNCHANGED <<stub[p], clients[p], variable[p]>>
        BY <1>2 DEF OsInv, StubInv, StubTypes
    <2>2. \A p \in Pid : Serves(me, p)' <=> Serves(me, p)
        BY <1>2, <1>5 DEF Serves
    <2>3. InCall(me)' /\ NamesSender(me)'
        BY <1>2, <1>3, <1>5 DEF InCall, NamesSender, vars
    <2>. QED  BY <1>1, <1>2, <1>4, <2>1, <2>2, <2>3, OwnStep
<1>7. CallOf(me) = [op |-> "replied", value |-> req[me].msg_data] /\ CallOf(me)' = [op |-> "none"]
    BY <1>2, <1>3, <1>5, CallKinds DEF CallIs
<1>8. Abstract!Return(me)
    <2>1. [p \in Pid |-> CallOf(p)]' = [[p \in Pid |-> CallOf(p)] EXCEPT ![me] = [op |-> "none"]]
        BY <1>6, <1>7
    <2>2. CallOf(me).op = "replied" /\ CallOf(me).value = req[me].msg_data
        BY <1>7
    <2>. QED  BY <1>2, <2>1, <2>2 DEF Abstract!Return, Abstract!NoCall
<1>. QED  BY <1>6, <1>8 DEF OsCorrect, Simulates, Abstract!Next

\* The variable is that of the sender, who waits in REPLY_BLOCK.
LEMMA RecvReturns == ASSUME OsInv, Msg_Recv_returns PROVE OsCorrect
<1>1. PICK me \in Pid : Cp = me
    BY DEF Msg_Recv_returns
<1>. DEFINE from == req[me].msg_ptr_data
<1>2. /\ abort = "NONE" /\ stub[me] = "recv"
      /\ variable' = [variable EXCEPT ![me] = Delivered(req[me])]
      /\ stub' = [stub EXCEPT ![me] = "none"]
      /\ clients' = IF from # NULL THEN [clients EXCEPT ![me] = @ \union {req[me].out_pid}]
                    ELSE clients
      /\ UNCHANGED vars
    BY <1>1 DEF Msg_Recv_returns, Calls
<1>3. /\ state[me] \in {"RUNNING", "READY"}
      /\ req[me].msg_data \in Nat /\ from \in Pid \union {NULL} /\ req[me].out_pid \in Pid
    <2>1. state[me] \in {"RUNNING", "READY"}
        BY <1>1, <1>2 DEF OsInv, CallsInv, IInv, SchedInv, RunningAtFront
    <2>2. req[me] \in RequestInfo
        BY DEF OsInv, CallsInv, IInv, CallInv
    <2>3. /\ req[me].msg_data \in Data \union {0}
          /\ req[me].msg_ptr_data \in Pid \union {NULL} /\ req[me].out_pid \in Pid
        BY <2>2 DEF RequestInfo
    <2>4. Data \union {0} \subseteq Nat
        BY DataAssumption
    <2>. QED  BY <2>1, <2>3, <2>4 DEF from
<1>4. from # NULL => req[me].out_pid = from
    BY <1>2, <1>3 DEF OsInv, StubInv, TaskInv, NamesSender
<1>. HIDE DEF from
<1>5. Delivered(req[me]) \in Nat
    BY <1>3 DEF Delivered, OsInv, StubInv, StubTypes, from
<1>6. StubTypes'
    BY <1>2, <1>3, <1>5 DEF OsInv, StubInv, StubTypes
<1>7. /\ stub'[me] = "none" /\ variable'[me] = Delivered(req[me])
      /\ \A p \in Pid : p \in clients'[me] <=> p \in clients[me] \/ (from # NULL /\ p = from)
    BY <1>2, <1>3, <1>4 DEF OsInv, StubInv, StubTypes
<1>8. /\ StubInv'
      /\ \A p \in Pid : p # me => CallOf(p)' = CallOf(p)
    <2>1. \A p \in Pid : p # me => UNCHANGED <<stub[p], clients[p], variable[p]>>
        BY <1>2 DEF OsInv, StubInv, StubTypes
    <2>2. \A p \in Pid : Serves(me, p)' <=> Serves(me, p)
        BY <1>2, <1>3, <1>7, PidFacts DEF Serves, from
    <2>3. InCall(me)' /\ NamesSender(me)'
        BY <1>2, <1>3, <1>7 DEF InCall, NamesSender, vars
    <2>. QED  BY <1>1, <1>2, <1>6, <2>1, <2>2, <2>3, OwnStep
<1>9. /\ CallOf(me) = [op |-> "received", value |-> Delivered(req[me])]
      /\ CallOf(me)' = [op |-> "none"]
    BY <1>2, <1>3, <1>7, CallKinds DEF CallIs, Delivered
<1>10. Abstract!Return(me)
    <2>1. [p \in Pid |-> CallOf(p)]' = [[p \in Pid |-> CallOf(p)] EXCEPT ![me] = [op |-> "none"]]
        BY <1>8, <1>9
    <2>2. CallOf(me).op = "received" /\ CallOf(me).value = Delivered(req[me])
        BY <1>9
    <2>. QED  BY <1>2, <2>1, <2>2 DEF Abstract!Return, Abstract!NoCall
<1>. QED  BY <1>8, <1>10 DEF OsCorrect, Simulates, Abstract!Next

-----------------------------------------------------------------------------
(* The message calls.                                                       *)

\* What a task serves depends on that task only.
LEMMA SameServes ==
    ASSUME NEW r \in Pid, Same(r)
    PROVE  \A p \in Pid : Serves(r, p)' <=> Serves(r, p)
BY DEF Same, Serves, Blocked

\* The caller of a request, as a task that stays the same when Cp changes.
LEMMA TheCaller ==
    ASSUME OsInv, InTask, Requesting
    PROVE  \E me \in Pid :
             /\ Cp = me /\ abort = "NONE" /\ stub[me] = "none"
             /\ state[me] \in {"RUNNING", "READY"} /\ me \notin Range(msg_queue)
             /\ \A r \in Pid : ~ Serves(r, me)
             /\ CallOf(me) = [op |-> "none"]
BY CallerInTask

\* The handler is over, and the tasks but some are as they were; the current
\* one was in no stub, and is one of those.
LEMMA OthersStep ==
    ASSUME OsInv, NEW me \in Pid, state[me] \in {"RUNNING", "READY"},
           NEW X \in SUBSET Pid, me \in X, NEW st,
           \A p \in Pid : state'[p] = st[p] \/ (st[p] = "READY" /\ state'[p] = "RUNNING"),
           \A p \in Pid \ X :
                /\ st[p] = state[p] /\ stub'[p] = stub[p] /\ clients'[p] = clients[p]
                /\ req'[p] = req[p]
                /\ p \in Range(msg_queue') <=> p \in Range(msg_queue)
                /\ p \in Range(msg_queue) => Messages'[p] = Messages[p],
           \A p \in Pid : p # me => variable'[p] = variable[p],
           \A p \in Pid \ X, r \in X : Serves(r, p)' <=> Serves(r, p)
    PROVE  /\ \A p \in Pid \ X : TaskInv(p)' /\ CallOf(p)' = CallOf(p)
           /\ \A p \in Pid, r \in Pid \ X : Serves(r, p)' <=> Serves(r, p)
<1>1. \A p \in Pid \ X : Same(p)
    BY DEF Same, Blocked
<1>2. \A q \in Pid : variable'[q] = variable[q] \/ state[q] \notin Blocked
    BY DEF Blocked
<1>. QED  BY <1>1, <1>2, OthersSame, SameServes

\* Msg_Send: a refusal, the receiver's release, or a message in the queue.
LEMMA SendCorrect ==
    ASSUME OsInv, NEW to \in Pid \union {BadId}, NEW mask \in Masks, NEW v \in Data,
           Msg_Send(to, mask, v)
    PROVE  OsCorrect
<1>1. InTask /\ Kernel_Request_MsgSend(to, mask) /\ Requesting /\ clients' = clients
    BY DEF Msg_Send, Kernel_Request_MsgSend
<1>2. PICK me \in Pid :
             /\ Cp = me /\ abort = "NONE" /\ stub[me] = "none"
             /\ state[me] \in {"RUNNING", "READY"} /\ me \notin Range(msg_queue)
             /\ \A r \in Pid : ~ Serves(r, me)
             /\ CallOf(me) = [op |-> "none"]
    BY <1>1, TheCaller
<1>. DEFINE info == [ZeroReq EXCEPT !.msg_mask = mask, !.msg_ptr_data = Cp]
<1>3. info \in RequestInfo /\ info.msg_data = 0
    BY <1>2, InfoTypes DEF ZeroReq
<1>. HIDE DEF info
<1>4. /\ StubTypes /\ req \in [Pid -> RequestInfo]
      /\ state \in [Pid \union {Idle} -> ProcessState] /\ pd \in [Pid -> Descriptor]
    BY DEF OsInv, StubInv, CallsInv, IInv, CallInv, SchedInv, Filed
<1>5. CASE ~ MayBlock
    <2>1. Abort("PERIODIC_MSG") /\ UNCHANGED <<variable, stub>>
        BY <1>1, <1>5 DEF Kernel_Request_MsgSend, Msg_Send, Stops
    <2>. QED  BY <1>1, <2>1, AbortQuiet
<1>6. CASE MayBlock
    <2>1. /\ variable' = [variable EXCEPT ![me] = v] /\ stub' = [stub EXCEPT ![me] = "send"]
          /\ clients' = clients
        BY <1>1, <1>2, <1>6 DEF Msg_Send, Calls
    <2>2. /\ variable'[me] = v /\ stub'[me] = "send"
          /\ \A p \in Pid : p # me => variable'[p] = variable[p] /\ stub'[p] = stub[p]
          /\ StubTypes'
        BY <1>4, <2>1, DataAssumption DEF StubTypes
    <2>3. \A p \in Pid : Serves(me, p)' <=> Serves(me, p)
        BY <1>2, <2>1, <2>2 DEF Serves
    <2>4. CASE NoSuchTask(to)
        <3>1. Passing(info) /\ ReturnToCaller
            BY <1>1, <1>6, <2>4 DEF Kernel_Request_MsgSend, info
        <3>2. /\ \A p \in Pid : state'[p] = IF p = me THEN "READY" ELSE state[p]
              /\ UNCHANGED msgVars
              /\ req'[me] = info /\ \A p \in Pid : p # me => req'[p] = req[p]
            BY <1>2, <1>4, <3>1, EnteredFiled DEF Passing, ReturnToCaller, OsInv, CallsInv
        <3>3. /\ \A p \in Pid \ {me} : TaskInv(p)' /\ CallOf(p)' = CallOf(p)
              /\ \A p \in Pid, r \in Pid \ {me} : Serves(r, p)' <=> Serves(r, p)
            <4>1. /\ {me} \in SUBSET Pid /\ me \in {me}
                  /\ \A p \in Pid : state'[p] = state'[p] \/ (state'[p] = "READY" /\ state'[p] = "RUNNING")
                  /\ \A p \in Pid \ {me} :
                        /\ state'[p] = state[p] /\ stub'[p] = stub[p] /\ clients'[p] = clients[p]
                        /\ req'[p] = req[p]
                        /\ p \in Range(msg_queue') <=> p \in Range(msg_queue)
                        /\ p \in Range(msg_queue) => Messages'[p] = Messages[p]
                  /\ \A p \in Pid \ {me}, r \in {me} : Serves(r, p)' <=> Serves(r, p)
                BY <2>1, <2>2, <2>3, <3>2 DEF msgVars
            <4>. QED  BY <1>2, <2>2, <4>1, OthersStep
        <3>4. TaskInv(me)'
            BY <1>2, <2>2, <2>3, <3>2, <3>3 DEF TaskInv, InCall, ServedOnce, NamesSender
        <3>5. StubInv'
            BY <2>2, <3>3, <3>4 DEF StubInv
        <3>6. CallOf(me)' = [op |-> "replied", value |-> 0]
            BY <1>3, <2>2, <3>2, CallKinds DEF CallIs
        <3>7. [p \in Pid |-> CallOf(p)]' =
                [[p \in Pid |-> CallOf(p)] EXCEPT ![me] = [op |-> "replied", value |-> 0]]
            BY <3>3, <3>6
        <3>8. Abstract!Refuse(me, v)
            BY <2>1, <3>7 DEF Abstract!Refuse, Abstract!Replied
        <3>. QED  BY <1>2, <3>5, <3>8 DEF OsCorrect, Simulates, Abstract!Next, Abstract!Begin,
                                          Abstract!NoCall
    <2>5. CASE ~ NoSuchTask(to) /\ WaitsFor(to, mask)
        <3>. DEFINE st == [state EXCEPT ![to] = "READY", ![Cp] = "REPLY_BLOCK"]
                    X == {me, to}
        <3>1. /\ req' = [req EXCEPT ![Cp] = info, ![to].msg_ptr_data = Cp, ![to].out_pid = Cp]
              /\ Dispatch(st, pd, queue, sys_clock, clock_state)
              /\ UNCHANGED <<pd, Tasks, msgVars, clockVars>>
            BY <1>1, <1>6, <2>5 DEF Kernel_Request_MsgSend, info
        <3>2. /\ to \in Pid /\ to # me /\ state[to] = "RECV_BLOCK" /\ stub[to] = "recv"
              /\ req[to].msg_mask \intersect mask # {}
            BY <1>2, <2>5 DEF NoSuchTask, WaitsFor, OsInv, StubInv, TaskInv, InCall
        <3>3. /\ st \in [Pid \union {Idle} -> ProcessState]
              /\ st[to] = "READY" /\ st[me] = "REPLY_BLOCK"
              /\ \A p \in Pid \union {Idle} : p \notin {me, to} => st[p] = state[p]
            BY <1>2, <1>4, <3>2 DEF ProcessState
        <3>. HIDE DEF st
        <3>4. \A p \in Pid : state'[p] = st[p] \/ (st[p] = "READY" /\ state'[p] = "RUNNING")
            <4>1. Calm(st) /\ \A p \in Pid : st[p] = "DEAD" <=> state[p] = "DEAD"
                BY <1>2, <3>2, <3>3 DEF Calm, OsInv, CallsInv, IInv, SchedInv, OnlyCpRuns
            <4>. QED  BY <1>2, <1>4, <3>1, <3>3, <4>1, Dispatched
        <3>5. /\ req'[to].msg_ptr_data = me /\ req'[to].out_pid = me
              /\ \A p \in Pid \ X : req'[p] = req[p]
            BY <1>2, <1>3, <1>4, <3>1, <3>2 DEF RequestInfo
        <3>6. \A p \in Pid \ X : Serves(to, p)' <=> Serves(to, p)
            BY <1>2, <2>1, <2>2, <3>2, <3>3, <3>4, <3>5 DEF Serves
        <3>7. /\ \A p \in Pid \ X : TaskInv(p)' /\ CallOf(p)' = CallOf(p)
              /\ \A p \in Pid, r \in Pid \ X : Serves(r, p)' <=> Serves(r, p)
            <4>1. /\ X \in SUBSET Pid /\ me \in X
                  /\ \A p \in Pid \ X :
                        /\ st[p] = state[p] /\ stub'[p] = stub[p] /\ clients'[p] = clients[p]
                        /\ req'[p] = req[p]
                        /\ p \in Range(msg_queue') <=> p \in Range(msg_queue)
                        /\ p \in Range(msg_queue) => Messages'[p] = Messages[p]
                  /\ \A p \in Pid \ X, r \in X : Serves(r, p)' <=> Serves(r, p)
                BY <2>1, <2>2, <2>3, <3>1, <3>2, <3>3, <3>5, <3>6 DEF msgVars
            <4>. HIDE DEF X
            <4>. QED  BY <1>2, <2>2, <3>4, <4>1, OthersStep
        <3>8. Serves(to, me)' /\ \A r \in Pid : Serves(r, me)' => r = to
            BY <1>2, <2>2, <2>3, <3>2, <3>3, <3>4, <3>5, <3>7 DEF Serves
        <3>9. TaskInv(me)'
            BY <1>2, <2>2, <3>3, <3>4, <3>8 DEF TaskInv, InCall, ServedOnce, NamesSender
        <3>10. TaskInv(to)'
            <4>1. \A r \in Pid : ~ Serves(r, to)
                BY <3>2 DEF OsInv, StubInv, TaskInv, ServedOnce
            <4>2. \A r \in Pid : ~ Serves(r, to)'
                BY <1>2, <2>1, <2>2, <2>3, <3>2, <3>5, <3>7, <4>1 DEF Serves
            <4>. QED  BY <2>2, <3>2, <3>3, <3>4, <3>5, <4>2 DEF TaskInv, InCall, ServedOnce, NamesSender
        <3>11. StubInv'
            BY <2>2, <3>7, <3>9, <3>10 DEF StubInv
        <3>12. CallOf(to) = [op |-> "recv", mask |-> req[to].msg_mask]
            BY <3>2, CallKinds DEF CallIs
        <3>13. CallOf(to)' = [op |-> "received", value |-> v]
            BY <1>2, <2>2, <3>2, <3>3, <3>4, <3>5, CallKinds, PidFacts DEF CallIs
        <3>14. CallOf(me)' = [op |-> "await", server |-> to]
            BY <2>2, <3>2, <3>3, <3>4, <3>8, <3>9, CallKinds DEF CallIs, TaskInv
        <3>15. [p \in Pid |-> CallOf(p)]' =
                [[p \in Pid |-> CallOf(p)] EXCEPT ![me] = [op |-> "await", server |-> to],
                                                  ![to] = [op |-> "received", value |-> v]]
            BY <3>2, <3>7, <3>13, <3>14
        <3>16. CallOf(to).op = "recv" /\ CallOf(to).mask \intersect mask # {}
            BY <3>2, <3>12
        <3>17. Abstract!Send(me, to, mask, v)
            BY <2>1, <3>2, <3>15, <3>16
               DEF Abstract!Send, Abstract!Awaiting, Abstract!Received
        <3>. QED  BY <1>2, <3>2, <3>11, <3>17 DEF OsCorrect, Simulates, Abstract!Next, Abstract!Begin,
                                                  Abstract!NoCall
    <2>6. CASE ~ NoSuchTask(to) /\ ~ WaitsFor(to, mask)
        <3>. DEFINE st == [state EXCEPT ![Cp] = "SEND_BLOCK"]
                    msg == [data |-> Cp, mask |-> mask, receiver |-> to, sender |-> Cp]
                    X == {me}
        <3>1. /\ Passing(info)
              /\ Messages' = [Messages EXCEPT ![Cp] = msg]
              /\ msg_queue' = Append(msg_queue, Cp)
              /\ Dispatch(st, pd, queue, sys_clock, clock_state)
              /\ UNCHANGED <<pd, Tasks, clockVars>>
            BY <1>1, <1>6, <2>6 DEF Kernel_Request_MsgSend, info
        <3>2. to \in Pid
            BY <2>6 DEF NoSuchTask
        <3>3. /\ st \in [Pid \union {Idle} -> ProcessState]
              /\ \A p \in Pid \union {Idle} : st[p] = IF p = me THEN "SEND_BLOCK" ELSE state[p]
            BY <1>2, <1>4 DEF ProcessState
        <3>. HIDE DEF st
        <3>4. \A p \in Pid : state'[p] = st[p] \/ (st[p] = "READY" /\ state'[p] = "RUNNING")
            <4>1. Calm(st) /\ \A p \in Pid : st[p] = "DEAD" <=> state[p] = "DEAD"
                BY <1>2, <3>3 DEF Calm, OsInv, CallsInv, IInv, SchedInv, OnlyCpRuns
            <4>. QED  BY <1>2, <1>4, <3>1, <3>3, <4>1, Dispatched
        <3>5. Messages \in [Pid -> Message] /\ Range(msg_queue') = Range(msg_queue) \union {me}
            <4>1. /\ Messages \in [Pid -> Message]
                  /\ Lists(msg_queue, Range(msg_queue)) /\ Range(msg_queue) \in SUBSET Pid
                BY <1>1, QueuedMessages, SeqOfRange, RangeOfSeq DEF Lists, OsInv, CallsInv
            <4>2. Lists(msg_queue', Range(msg_queue) \union {me})
                BY <1>2, <3>1, <4>1, EnqueueLists DEF enqueue
            <4>. QED  BY <4>1, <4>2 DEF Lists
        <3>6. /\ Messages'[me].receiver = to /\ Messages'[me].mask = mask
              /\ \A p \in Pid : p # me => Messages'[p] = Messages[p] /\ req'[p] = req[p]
            BY <1>2, <1>4, <3>1, <3>5 DEF Passing
        <3>7. /\ \A p \in Pid \ X : TaskInv(p)' /\ CallOf(p)' = CallOf(p)
              /\ \A p \in Pid, r \in Pid \ X : Serves(r, p)' <=> Serves(r, p)
            <4>1. /\ X \in SUBSET Pid /\ me \in X
                  /\ \A p \in Pid \ X :
                        /\ st[p] = state[p] /\ stub'[p] = stub[p] /\ clients'[p] = clients[p]
                        /\ req'[p] = req[p]
                        /\ p \in Range(msg_queue') <=> p \in Range(msg_queue)
                        /\ p \in Range(msg_queue) => Messages'[p] = Messages[p]
                  /\ \A p \in Pid \ X, r \in X : Serves(r, p)' <=> Serves(r, p)
                BY <2>1, <2>2, <2>3, <3>3, <3>5, <3>6
            <4>. HIDE DEF X
            <4>. QED  BY <1>2, <2>2, <3>4, <4>1, OthersStep
        <3>8. TaskInv(me)'
            BY <1>2, <2>2, <2>3, <3>3, <3>4, <3>7 DEF TaskInv, InCall, ServedOnce, NamesSender
        <3>9. StubInv'
            BY <2>2, <3>7, <3>8 DEF StubInv
        <3>10. CallOf(me)' = [op |-> "send", to |-> to, mask |-> mask, value |-> v]
            BY <2>2, <3>3, <3>4, <3>5, <3>6, CallKinds DEF CallIs
        <3>11. [p \in Pid |-> CallOf(p)]' =
                [[p \in Pid |-> CallOf(p)] EXCEPT
                    ![me] = [op |-> "send", to |-> to, mask |-> mask, value |-> v]]
            BY <3>7, <3>10
        <3>12. ~ (CallOf(to).op = "recv" /\ CallOf(to).mask \intersect mask # {})
            <4>1. SUFFICES ASSUME CallOf(to).op = "recv"
                           PROVE  CallOf(to).mask \intersect mask = {}
                OBVIOUS
            <4>2. state[to] = "RECV_BLOCK" /\ CallOf(to) = [op |-> "recv", mask |-> req[to].msg_mask]
                BY <3>2, <4>1, CallOps, CallKinds DEF CallIs
            <4>. QED  BY <2>6, <4>2 DEF WaitsFor
        <3>13. Abstract!Send(me, to, mask, v)
            BY <2>1, <3>2, <3>11, <3>12 DEF Abstract!Send, Abstract!Sending
        <3>. QED  BY <1>2, <3>2, <3>9, <3>13 DEF OsCorrect, Simulates, Abstract!Next, Abstract!Begin,
                                                 Abstract!NoCall
    <2>. QED  BY <2>4, <2>5, <2>6
<1>. QED  BY <1>5, <1>6

\* Msg_Recv: the first message for the caller, or the caller blocked.
LEMMA RecvCorrect ==
    ASSUME OsInv, NEW mask \in Masks, Msg_Recv(mask)
    PROVE  OsCorrect
<1>1. InTask /\ Kernel_Request_MsgRecv(mask) /\ Requesting /\ clients' = clients
    BY DEF Msg_Recv, Kernel_Request_MsgRecv
<1>2. PICK me \in Pid :
             /\ Cp = me /\ abort = "NONE" /\ stub[me] = "none"
             /\ state[me] \in {"RUNNING", "READY"} /\ me \notin Range(msg_queue)
             /\ \A r \in Pid : ~ Serves(r, me)
             /\ CallOf(me) = [op |-> "none"]
    BY <1>1, TheCaller
<1>. DEFINE info == [ZeroReq EXCEPT !.msg_mask = mask]
<1>3. info \in RequestInfo /\ info.msg_mask = mask
    BY <1>2, InfoTypes DEF ZeroReq
<1>4. /\ StubTypes /\ req \in [Pid -> RequestInfo] /\ msg_queue \in Seq(Pid)
      /\ state \in [Pid \union {Idle} -> ProcessState] /\ pd \in [Pid -> Descriptor]
    BY DEF OsInv, StubInv, CallsInv, IInv, CallInv, SchedInv, Filed
<1>5. CASE ~ MayBlock
    <2>1. Abort("PERIODIC_MSG") /\ UNCHANGED <<variable, stub>>
        BY <1>1, <1>5 DEF Kernel_Request_MsgRecv, Msg_Recv, Stops
    <2>. QED  BY <1>1, <2>1, AbortQuiet
<1>6. CASE MayBlock
    <2>1. /\ variable' = [variable EXCEPT ![me] = 0] /\ stub' = [stub EXCEPT ![me] = "recv"]
          /\ clients' = clients
        BY <1>1, <1>2, <1>6 DEF Msg_Recv, Calls
    <2>2. /\ variable'[me] = 0 /\ stub'[me] = "recv"
          /\ \A p \in Pid : p # me => variable'[p] = variable[p] /\ stub'[p] = stub[p]
          /\ StubTypes'
        BY <1>4, <2>1 DEF StubTypes
    <2>3. CASE HasMessage(Cp, mask)
        <3>. DEFINE k == Found(Cp, mask)
                    s == msg_queue[k]
                    m == Messages[s]
                    got == [info EXCEPT !.msg_ptr_data = m.data, !.out_pid = m.sender]
                    st == [Entered EXCEPT ![m.sender] = "REPLY_BLOCK"]
        <3>1. /\ msg_queue' = Without(k)
              /\ Messages' = [Messages EXCEPT ![s] = Cleared(m)]
              /\ Passing(got)
              /\ Dispatch(st, pd, queue, sys_clock, clock_state)
              /\ UNCHANGED <<pd, Tasks, clockVars>>
            BY <1>1, <1>6, <2>3 DEF Kernel_Request_MsgRecv
        <3>2. k \in 1 .. Len(msg_queue) /\ m.receiver = me /\ m.mask \intersect mask # {}
            BY <1>2, <2>3, FoundMatches DEF MatchesIn, OsInv, CallsInv
        <3>3. PICK from \in Pid : from = s /\ from \in Range(msg_queue)
            BY <1>4, <3>2, LenProperties, ElementOfSeq DEF Range
        <3>4. /\ from # me /\ state[from] = "SEND_BLOCK" /\ m.sender = from /\ m.data = from
              /\ Messages \in [Pid -> Message]
            BY <1>1, <1>2, <3>3, QueuedMessages DEF OsInv, CallsInv
        <3>5. stub[from] = "send" /\ \A r \in Pid : ~ Serves(r, from)
            BY <3>4 DEF OsInv, StubInv, TaskInv, InCall, ServedOnce
        <3>6. got \in RequestInfo /\ got.msg_ptr_data = from /\ got.out_pid = from
            BY <1>3, <3>4 DEF RequestInfo
        <3>7. Range(msg_queue') = Range(msg_queue) \ {from}
            <4>1. Lists(msg_queue, Range(msg_queue))
                BY <1>1, QueuedMessages, SeqOfRange DEF Lists, OsInv, CallsInv
            <4>2. Lists(msg_queue', Range(msg_queue) \ {from})
                BY <3>1, <3>2, <3>3, <4>1, RemoveAtLists DEF Without
            <4>. QED  BY <4>2 DEF Lists
        <3>8. \A p \in Pid : p # from => Messages'[p] = Messages[p]
            BY <3>1, <3>3, <3>4
        <3>. DEFINE X == {me, from}
        <3>9. /\ st \in [Pid \union {Idle} -> ProcessState]
              /\ st[from] = "REPLY_BLOCK" /\ st[me] = "READY"
              /\ \A p \in Pid \union {Idle} : p \notin X => st[p] = state[p]
            <4>1. /\ Entered \in [Pid \union {Idle} -> ProcessState]
                  /\ \A p \in Pid \union {Idle} : Entered[p] = IF p = me THEN "READY" ELSE state[p]
                BY <1>2, EnteredFiled DEF OsInv, CallsInv
            <4>. QED  BY <1>2, <3>4, <4>1 DEF ProcessState
        <3>10. req'[me] = got /\ \A p \in Pid : p # me => req'[p] = req[p]
            <4>. HIDE DEF got
            <4>. QED  BY <1>2, <1>4, <3>1 DEF Passing
        <3>11. Dispatch(st, pd, queue, sys_clock, clock_state) /\ pd' = pd
            BY <3>1
        <3>. HIDE DEF k, s, m, got, st
        <3>12. \A p \in Pid : state'[p] = st[p] \/ (st[p] = "READY" /\ state'[p] = "RUNNING")
            <4>1. Calm(st) /\ \A p \in Pid : st[p] = "DEAD" <=> state[p] = "DEAD"
                BY <1>2, <3>4, <3>9 DEF Calm, OsInv, CallsInv, IInv, SchedInv, OnlyCpRuns
            <4>. QED  BY <1>2, <1>4, <3>9, <3>11, <4>1, Dispatched
        <3>13. /\ \A p \in Pid : Serves(me, p)' <=> Serves(me, p) \/ p = from
               /\ \A p \in Pid : Serves(from, p)' <=> Serves(from, p)
            BY <1>2, <2>1, <2>2, <3>4, <3>5, <3>6, <3>9, <3>10, <3>12 DEF Serves
        <3>14. /\ \A p \in Pid \ X : TaskInv(p)' /\ CallOf(p)' = CallOf(p)
               /\ \A p \in Pid, r \in Pid \ X : Serves(r, p)' <=> Serves(r, p)
            <4>1. /\ X \in SUBSET Pid /\ me \in X
                  /\ \A p \in Pid \ X :
                        /\ st[p] = state[p] /\ stub'[p] = stub[p] /\ clients'[p] = clients[p]
                        /\ req'[p] = req[p]
                        /\ p \in Range(msg_queue') <=> p \in Range(msg_queue)
                        /\ p \in Range(msg_queue) => Messages'[p] = Messages[p]
                  /\ \A p \in Pid \ X, r \in X : Serves(r, p)' <=> Serves(r, p)
                BY <2>1, <2>2, <3>7, <3>8, <3>9, <3>10, <3>13
            <4>. HIDE DEF X
            <4>. QED  BY <1>2, <2>2, <3>12, <4>1, OthersStep
        <3>15. /\ \A r \in Pid : Serves(r, from)' <=> r = me
               /\ \A r \in Pid : ~ Serves(r, me)'
            BY <1>2, <3>4, <3>5, <3>13, <3>14
        <3>16. TaskInv(me)' /\ TaskInv(from)'
            BY <2>2, <3>4, <3>5, <3>6, <3>9, <3>10, <3>12, <3>15
               DEF TaskInv, InCall, ServedOnce, NamesSender
        <3>17. StubInv'
            BY <2>2, <3>14, <3>16 DEF StubInv
        <3>18. CallOf(from) = [op |-> "send", to |-> me, mask |-> m.mask, value |-> variable[from]]
            BY <3>2, <3>3, <3>4, <3>5, CallKinds DEF CallIs, m
        <3>19. CallOf(from)' = [op |-> "await", server |-> me]
            BY <2>2, <3>4, <3>5, <3>9, <3>12, <3>15, <3>16, CallKinds DEF CallIs, TaskInv
        <3>20. CallOf(me)' = [op |-> "received", value |-> variable[from]]
            BY <2>2, <3>4, <3>6, <3>9, <3>10, <3>12, CallKinds, PidFacts DEF CallIs
        <3>21. [p \in Pid |-> CallOf(p)]' =
                [[p \in Pid |-> CallOf(p)] EXCEPT
                    ![from] = [op |-> "await", server |-> me],
                    ![me] = [op |-> "received", value |-> variable[from]]]
            BY <3>4, <3>14, <3>19, <3>20
        <3>22. /\ CallOf(from).op = "send" /\ CallOf(from).to = me
               /\ CallOf(from).mask \intersect mask # {} /\ CallOf(from).value = variable[from]
            BY <3>2, <3>18
        <3>23. Abstract!Receive(me, mask)
            BY <2>1, <3>21, <3>22
               DEF Abstract!Receive, Abstract!Fits, Abstract!Awaiting, Abstract!Received
        <3>. QED  BY <1>2, <3>17, <3>23 DEF OsCorrect, Simulates, Abstract!Next, Abstract!Begin,
                                            Abstract!NoCall
    <2>4. CASE ~ HasMessage(Cp, mask)
        <3>. DEFINE st == [state EXCEPT ![Cp] = "RECV_BLOCK"]
                    X == {me}
        <3>1. /\ Passing(info)
              /\ Dispatch(st, pd, queue, sys_clock, clock_state)
              /\ UNCHANGED <<pd, Tasks, msgVars, clockVars>>
            BY <1>1, <1>6, <2>4 DEF Kernel_Request_MsgRecv
        <3>. HIDE DEF info
        <3>2. req'[me] = info /\ \A p \in Pid : p # me => req'[p] = req[p]
            BY <1>2, <1>4, <3>1 DEF Passing
        <3>3. /\ st \in [Pid \union {Idle} -> ProcessState]
              /\ \A p \in Pid \union {Idle} : st[p] = IF p = me THEN "RECV_BLOCK" ELSE state[p]
            BY <1>2, <1>4 DEF ProcessState
        <3>. HIDE DEF st
        <3>4. \A p \in Pid : state'[p] = st[p] \/ (st[p] = "READY" /\ state'[p] = "RUNNING")
            <4>1. Calm(st) /\ \A p \in Pid : st[p] = "DEAD" <=> state[p] = "DEAD"
                BY <1>2, <3>3 DEF Calm, OsInv, CallsInv, IInv, SchedInv, OnlyCpRuns
            <4>. QED  BY <1>2, <1>4, <3>1, <3>3, <4>1, Dispatched
        <3>5. \A p \in Pid : Serves(me, p)' <=> Serves(me, p)
            BY <1>2, <2>1, <2>2, <3>3, <3>4 DEF Serves
        <3>6. /\ \A p \in Pid \ X : TaskInv(p)' /\ CallOf(p)' = CallOf(p)
              /\ \A p \in Pid, r \in Pid \ X : Serves(r, p)' <=> Serves(r, p)
            <4>1. /\ X \in SUBSET Pid /\ me \in X
                  /\ \A p \in Pid \ X :
                        /\ st[p] = state[p] /\ stub'[p] = stub[p] /\ clients'[p] = clients[p]
                        /\ req'[p] = req[p]
                        /\ p \in Range(msg_queue') <=> p \in Range(msg_queue)
                        /\ p \in Range(msg_queue) => Messages'[p] = Messages[p]
                  /\ \A p \in Pid \ X, r \in X : Serves(r, p)' <=> Serves(r, p)
                BY <2>1, <2>2, <3>1, <3>2, <3>3, <3>5 DEF msgVars
            <4>. HIDE DEF X
            <4>. QED  BY <1>2, <2>2, <3>4, <4>1, OthersStep
        <3>7. TaskInv(me)'
            BY <1>2, <2>2, <3>3, <3>4, <3>5, <3>6 DEF TaskInv, InCall, ServedOnce, NamesSender
        <3>8. StubInv'
            BY <2>2, <3>6, <3>7 DEF StubInv
        <3>9. CallOf(me)' = [op |-> "recv", mask |-> mask]
            BY <1>3, <2>2, <3>2, <3>3, <3>4, CallKinds DEF CallIs
        <3>10. [p \in Pid |-> CallOf(p)]' =
                [[p \in Pid |-> CallOf(p)] EXCEPT ![me] = [op |-> "recv", mask |-> mask]]
            BY <3>6, <3>9
        <3>11. \A p \in Pid : ~ (CallOf(p).op = "send" /\ CallOf(p).to = me
                                    /\ CallOf(p).mask \intersect mask # {})
            <4>1. SUFFICES ASSUME NEW p \in Pid, CallOf(p).op = "send", CallOf(p).to = me,
                                  CallOf(p).mask \intersect mask # {}
                           PROVE  FALSE
                OBVIOUS
            <4>2. p \in Range(msg_queue) /\ stub[p] = "send" /\ state[p] = "SEND_BLOCK"
                BY <4>1, CallOps
            <4>3. CallOf(p) = [op |-> "send", to |-> Messages[p].receiver,
                               mask |-> Messages[p].mask, value |-> variable[p]]
                BY <4>2, CallKinds DEF CallIs
            <4>4. MatchesIn(Messages, p, Cp, mask)
                BY <1>2, <4>1, <4>3 DEF MatchesIn
            <4>5. \E i \in 1 .. Len(msg_queue) : p = msg_queue[i]
                BY <1>4, <4>2, LenProperties DEF Range
            <4>. QED  BY <2>4, <4>4, <4>5 DEF HasMessage
        <3>12. Abstract!Receive(me, mask)
            BY <2>1, <3>10, <3>11 DEF Abstract!Receive, Abstract!Fits, Abstract!Receiving
        <3>. QED  BY <1>2, <3>8, <3>12 DEF OsCorrect, Simulates, Abstract!Next, Abstract!Begin,
                                           Abstract!NoCall
    <2>. QED  BY <2>3, <2>4
<1>. QED  BY <1>5, <1>6

\* Msg_Rply, to a task the caller has a message from: its sender is released.
LEMMA RplyCorrect ==
    ASSUME OsInv, NEW to \in Pid, NEW data \in Data, Msg_Rply(to, data)
    PROVE  OsCorrect
<1>1. /\ InTask /\ Kernel_Request_MsgRply(to, data) /\ Requesting
      /\ to \in clients[Cp] /\ UNCHANGED <<variable, stub>>
    BY DEF Msg_Rply, Kernel_Request_MsgRply
<1>2. PICK me \in Pid :
             /\ Cp = me /\ abort = "NONE" /\ stub[me] = "none"
             /\ state[me] \in {"RUNNING", "READY"} /\ me \notin Range(msg_queue)
             /\ \A r \in Pid : ~ Serves(r, me)
             /\ CallOf(me) = [op |-> "none"]
    BY <1>1, TheCaller
<1>. DEFINE info == [ZeroReq EXCEPT !.msg_data = data]
<1>3. info \in RequestInfo
    BY <1>2, InfoTypes
<1>. HIDE DEF info
<1>4. /\ StubTypes /\ req \in [Pid -> RequestInfo] /\ pd \in [Pid -> Descriptor]
    BY DEF OsInv, StubInv, CallsInv, IInv, CallInv, SchedInv, Filed
<1>5. CASE ~ MayBlock
    <2>1. Abort("PERIODIC_MSG") /\ UNCHANGED clients
        BY <1>1, <1>5 DEF Kernel_Request_MsgRply, Msg_Rply
    <2>. QED  BY <1>1, <2>1, AbortQuiet
<1>6. CASE MayBlock
    <2>. DEFINE st == [Entered EXCEPT ![to] = "READY"]
                X == {me, to}
    <2>1. Serves(me, to) /\ state[to] = "REPLY_BLOCK" /\ stub[to] = "send" /\ to # me
        BY <1>1, <1>2 DEF Serves, OsInv, StubInv, TaskInv, ServedOnce, InCall
    <2>2. /\ Entered \in [Pid \union {Idle} -> ProcessState]
          /\ \A p \in Pid \union {Idle} : Entered[p] = IF p = me THEN "READY" ELSE state[p]
        BY <1>2, EnteredFiled DEF OsInv, CallsInv
    <2>3. ~ NoSuchTask(to) /\ AwaitsReply(to)
        BY <2>1, <2>2, PidFacts DEF NoSuchTask, AwaitsReply
    <2>4. /\ req' = [req EXCEPT ![Cp] = info, ![to].msg_data = data]
          /\ Dispatch(st, pd, queue, sys_clock, clock_state)
          /\ UNCHANGED <<pd, Tasks, msgVars, clockVars>>
        BY <1>1, <1>6, <2>3 DEF Kernel_Request_MsgRply, info
    <2>5. clients' = [clients EXCEPT ![me] = @ \ {to}]
        BY <1>2, <1>6 DEF Msg_Rply
    <2>6. /\ req'[to].msg_data = data
          /\ \A p \in Pid : p \notin X => req'[p] = req[p]
        BY <1>2, <1>3, <1>4, <2>1, <2>4 DEF RequestInfo
    <2>7. /\ st \in [Pid \union {Idle} -> ProcessState]
          /\ st[to] = "READY" /\ st[me] = "READY"
          /\ \A p \in Pid \union {Idle} : p \notin X => st[p] = state[p]
        BY <1>2, <2>1, <2>2 DEF ProcessState
    <2>. HIDE DEF st
    <2>8. \A p \in Pid : state'[p] = st[p] \/ (st[p] = "READY" /\ state'[p] = "RUNNING")
        <3>1. Calm(st) /\ \A p \in Pid : st[p] = "DEAD" <=> state[p] = "DEAD"
            BY <1>2, <2>1, <2>7 DEF Calm, OsInv, CallsInv, IInv, SchedInv, OnlyCpRuns
        <3>. QED  BY <1>2, <1>4, <2>4, <2>7, <3>1, Dispatched
    <2>9. /\ StubTypes' /\ \A p \in Pid : p # me => clients'[p] = clients[p]
          /\ \A p : p \in clients'[me] <=> p \in clients[me] /\ p # to
        BY <1>1, <1>4, <2>5 DEF StubTypes
    <2>10. /\ \A p \in Pid : Serves(me, p)' <=> Serves(me, p) /\ p # to
           /\ \A p \in Pid : Serves(to, p)' <=> Serves(to, p)
        BY <1>1, <1>2, <2>1, <2>9 DEF Serves
    <2>11. /\ \A p \in Pid \ X : TaskInv(p)' /\ CallOf(p)' = CallOf(p)
           /\ \A p \in Pid, r \in Pid \ X : Serves(r, p)' <=> Serves(r, p)
        <3>1. /\ X \in SUBSET Pid /\ me \in X
              /\ \A p \in Pid \ X :
                    /\ st[p] = state[p] /\ stub'[p] = stub[p] /\ clients'[p] = clients[p]
                    /\ req'[p] = req[p]
                    /\ p \in Range(msg_queue') <=> p \in Range(msg_queue)
                    /\ p \in Range(msg_queue) => Messages'[p] = Messages[p]
              /\ \A p \in Pid \ X, r \in X : Serves(r, p)' <=> Serves(r, p)
              /\ \A p \in Pid : p # me => variable'[p] = variable[p]
            BY <1>1, <2>4, <2>6, <2>7, <2>9, <2>10 DEF msgVars
        <3>. HIDE DEF X
        <3>. QED  BY <1>2, <2>8, <3>1, OthersStep
    <2>12. \A r \in Pid : ~ Serves(r, to)' /\ ~ Serves(r, me)'
        <3>1. \A r \in Pid : Serves(r, to) => r = me
            BY <2>1 DEF OsInv, StubInv, TaskInv, ServedOnce
        <3>. QED  BY <1>2, <2>10, <2>11, <3>1
    <2>13. TaskInv(me)' /\ TaskInv(to)'
        BY <1>1, <1>2, <2>1, <2>7, <2>8, <2>12 DEF TaskInv, InCall, ServedOnce, NamesSender
    <2>14. StubInv'
        BY <2>9, <2>11, <2>13 DEF StubInv
    <2>15. CallOf(to) = [op |-> "await", server |-> me]
        BY <2>1, CallKinds DEF CallIs, OsInv, StubInv, TaskInv
    <2>16. CallOf(to)' = [op |-> "replied", value |-> data]
        BY <1>1, <2>1, <2>6, <2>7, <2>8, CallKinds DEF CallIs
    <2>17. CallOf(me)' = CallOf(me)
        BY <1>1, <1>2, CallKinds DEF CallIs
    <2>18. [p \in Pid |-> CallOf(p)]' =
            [[p \in Pid |-> CallOf(p)] EXCEPT ![to] = [op |-> "replied", value |-> data]]
        BY <2>11, <2>16, <2>17
    <2>19. Abstract!Reply(me, to, data)
        BY <1>1, <2>15, <2>18 DEF Abstract!Reply, Abstract!Awaiting, Abstract!Replied
    <2>. QED  BY <1>2, <2>14, <2>19 DEF OsCorrect, Simulates, Abstract!Next, Abstract!Begin,
                                        Abstract!NoCall
<1>. QED  BY <1>5, <1>6

\* Msg_ASend: a message that is lost, or the receiver's release.
LEMMA ASendCorrect ==
    ASSUME OsInv, NEW to \in Pid, NEW mask \in Masks, NEW data \in Data,
           Msg_ASend(to, mask, data)
    PROVE  OsCorrect
<1>1. /\ InTask /\ Kernel_Request_MsgASend(to, mask, data) /\ Requesting
      /\ UNCHANGED <<variable, stub, clients>>
    BY DEF Msg_ASend, Kernel_Request_MsgASend
<1>2. PICK me \in Pid :
             /\ Cp = me /\ abort = "NONE" /\ stub[me] = "none"
             /\ state[me] \in {"RUNNING", "READY"} /\ me \notin Range(msg_queue)
             /\ \A r \in Pid : ~ Serves(r, me)
             /\ CallOf(me) = [op |-> "none"]
    BY <1>1, TheCaller
<1>. DEFINE info == [ZeroReq EXCEPT !.msg_mask = mask, !.msg_data = data]
<1>3. info \in RequestInfo /\ to # BadId
    BY <1>2, InfoTypes, PidFacts
<1>. HIDE DEF info
<1>4. /\ StubTypes /\ req \in [Pid -> RequestInfo] /\ pd \in [Pid -> Descriptor]
    BY DEF OsInv, StubInv, CallsInv, IInv, CallInv, SchedInv, Filed
<1>5. CASE ~ WaitsFor(to, mask)
    <2>1. Passing(info) /\ ReturnToCaller
        BY <1>1, <1>3, <1>5 DEF Kernel_Request_MsgASend, info
    <2>2. \A p \in Pid : p # Cp => req'[p] = req[p]
        BY <1>2, <2>1, OthersPass DEF OsInv, CallsInv
    <2>. QED  BY <1>1, <2>1, <2>2, ReturnQuiet
<1>6. CASE WaitsFor(to, mask)
    <2>. DEFINE st == [Entered EXCEPT ![to] = "READY"]
                X == {me, to}
    <2>1. /\ req' = [req EXCEPT ![Cp] = info, ![to].msg_data = data,
                                ![to].msg_ptr_data = NULL, ![to].out_pid = Cp]
          /\ Dispatch(st, pd, queue, sys_clock, clock_state)
          /\ UNCHANGED <<pd, Tasks, msgVars, clockVars>>
        BY <1>1, <1>3, <1>6 DEF Kernel_Request_MsgASend, info
    <2>2. /\ state[to] = "RECV_BLOCK" /\ stub[to] = "recv" /\ to # me
          /\ req[to].msg_mask \intersect mask # {}
        BY <1>2, <1>6 DEF WaitsFor, OsInv, StubInv, TaskInv, InCall
    <2>3. /\ Entered \in [Pid \union {Idle} -> ProcessState]
          /\ \A p \in Pid \union {Idle} : Entered[p] = IF p = me THEN "READY" ELSE state[p]
        BY <1>2, EnteredFiled DEF OsInv, CallsInv
    <2>4. /\ req'[to].msg_data = data /\ req'[to].msg_ptr_data = NULL
          /\ \A p \in Pid : p \notin X => req'[p] = req[p]
        BY <1>2, <1>3, <1>4, <2>1, <2>2 DEF RequestInfo
    <2>5. /\ st \in [Pid \union {Idle} -> ProcessState]
          /\ st[to] = "READY" /\ st[me] = "READY"
          /\ \A p \in Pid \union {Idle} : p \notin X => st[p] = state[p]
        BY <1>2, <2>2, <2>3 DEF ProcessState
    <2>. HIDE DEF st
    <2>6. \A p \in Pid : state'[p] = st[p] \/ (st[p] = "READY" /\ state'[p] = "RUNNING")
        <3>1. Calm(st) /\ \A p \in Pid : st[p] = "DEAD" <=> state[p] = "DEAD"
            BY <1>2, <2>2, <2>5 DEF Calm, OsInv, CallsInv, IInv, SchedInv, OnlyCpRuns
        <3>. QED  BY <1>2, <1>4, <2>1, <2>5, <3>1, Dispatched
    <2>7. \A r \in X, p \in Pid : Serves(r, p)' <=> Serves(r, p)
        BY <1>1, <1>2, <2>2, <2>4, <2>5, <2>6, PidFacts DEF Serves
    <2>8. /\ \A p \in Pid \ X : TaskInv(p)' /\ CallOf(p)' = CallOf(p)
          /\ \A p \in Pid, r \in Pid \ X : Serves(r, p)' <=> Serves(r, p)
        <3>1. /\ X \in SUBSET Pid /\ me \in X
              /\ \A p \in Pid \ X :
                    /\ st[p] = state[p] /\ stub'[p] = stub[p] /\ clients'[p] = clients[p]
                    /\ req'[p] = req[p]
                    /\ p \in Range(msg_queue') <=> p \in Range(msg_queue)
                    /\ p \in Range(msg_queue) => Messages'[p] = Messages[p]
              /\ \A p \in Pid \ X, r \in X : Serves(r, p)' <=> Serves(r, p)
              /\ \A p \in Pid : p # me => variable'[p] = variable[p]
            BY <1>1, <2>1, <2>4, <2>5, <2>7 DEF msgVars
        <3>. HIDE DEF X
        <3>. QED  BY <1>2, <2>6, <3>1, OthersStep
    <2>9. \A r \in Pid : ~ Serves(r, to)' /\ ~ Serves(r, me)'
        <3>1. \A r \in Pid : ~ Serves(r, to)
            BY <2>2 DEF OsInv, StubInv, TaskInv, ServedOnce
        <3>. QED  BY <1>2, <2>7, <2>8, <3>1
    <2>10. TaskInv(me)' /\ TaskInv(to)'
        BY <1>1, <1>2, <2>2, <2>4, <2>5, <2>6, <2>9 DEF TaskInv, InCall, ServedOnce, NamesSender
    <2>11. StubInv'
        BY <1>1, <1>4, <2>8, <2>10 DEF StubInv, StubTypes
    <2>12. CallOf(to) = [op |-> "recv", mask |-> req[to].msg_mask]
        BY <2>2, CallKinds DEF CallIs
    <2>13. CallOf(to)' = [op |-> "received", value |-> data]
        BY <1>1, <2>2, <2>4, <2>5, <2>6, CallKinds DEF CallIs
    <2>14. CallOf(me)' = CallOf(me)
        BY <1>1, <1>2, CallKinds DEF CallIs
    <2>15. [p \in Pid |-> CallOf(p)]' =
            [[p \in Pid |-> CallOf(p)] EXCEPT ![to] = [op |-> "received", value |-> data]]
        BY <2>8, <2>13, <2>14
    <2>16. CallOf(to).op = "recv" /\ CallOf(to).mask \intersect mask # {}
        BY <2>2, <2>12
    <2>17. Abstract!ASend(me, to, mask, data)
        BY <1>1, <2>15, <2>16 DEF Abstract!ASend, Abstract!Received
    <2>. QED  BY <1>2, <2>11, <2>17 DEF OsCorrect, Simulates, Abstract!Next, Abstract!Begin,
                                        Abstract!NoCall
<1>. QED  BY <1>5, <1>6

\* What Kernel_Request_Terminate keeps of the message queue is all that is not
\* for the task that ends.
LEMMA AtIndicesAll ==
    ASSUME NEW T, NEW q, Lists(q, T), NEW kept \in SUBSET (1 .. Len(q)), NEW i \in kept
    PROVE  q[i] \in Range(AtIndices(q, kept))
<1>. DEFINE c == Cardinality(kept)
            UpTo(k) == {j \in kept : j <= k}
            n == Cardinality(UpTo(i))
            r == AtIndices(q, kept)
<1>1. IsFiniteSet(kept) /\ c \in Nat
    <2>1. IsFiniteSet(1 .. Len(q))
        BY LenProperties, FS_Interval DEF Lists
    <2>. QED  BY <2>1, FS_Subset, FS_CardinalityType
<1>2. \A k \in kept : /\ k \in Int /\ k \in UpTo(k)
                      /\ IsFiniteSet(UpTo(k)) /\ Cardinality(UpTo(k)) \in Nat
    <2>1. ASSUME NEW k \in kept
          PROVE  IsFiniteSet(UpTo(k)) /\ Cardinality(UpTo(k)) \in Nat
        <3>1. UpTo(k) \in SUBSET kept
            OBVIOUS
        <3>. HIDE DEF UpTo
        <3>. QED  BY <1>1, <3>1, FS_Subset, FS_CardinalityType
    <2>. QED  BY <2>1
<1>3. n \in 1 .. c
    <2>1. UpTo(i) \in SUBSET kept /\ {i} \in SUBSET UpTo(i)
        BY <1>2
    <2>. HIDE DEF UpTo
    <2>2. n <= c /\ Cardinality({i}) <= n
        BY <1>1, <1>2, <2>1, FS_Subset
    <2>3. Cardinality({i}) = 1
        BY FS_Singleton
    <2>4. n \in Nat
        BY <1>2
    <2>. HIDE DEF n, c
    <2>. QED  BY <1>1, <2>2, <2>3, <2>4
<1>4. ASSUME NEW k \in kept, Cardinality(UpTo(k)) = n
      PROVE  k = i
    <2>1. \A a, b \in kept : a < b => Cardinality(UpTo(a)) # Cardinality(UpTo(b))
        <3>1. SUFFICES ASSUME NEW a \in kept, NEW b \in kept, a < b
                       PROVE  Cardinality(UpTo(a)) # Cardinality(UpTo(b))
            OBVIOUS
        <3>2. UpTo(a) \in SUBSET UpTo(b) /\ b \in UpTo(b) /\ b \notin UpTo(a)
            <4>1. /\ \A j \in kept : j <= a => j <= b
                  /\ b <= b
                  /\ ~ (b <= a)
                BY <1>2, <3>1
            <4>. QED  BY <4>1, Zenon
        <3>. HIDE DEF UpTo
        <3>. QED  BY <1>2, <3>2, FS_Subset
    <2>. HIDE DEF UpTo
    <2>. QED  BY <1>2, <1>4, <2>1
<1>5. r = [m \in 1 .. c |-> q[CHOOSE k \in kept : Cardinality(UpTo(k)) = m]]
    BY DEF AtIndices
<1>. HIDE DEF UpTo
<1>6. (CHOOSE k \in kept : Cardinality(UpTo(k)) = n) = i
    BY <1>4
<1>. HIDE DEF n, c
<1>7. n \in DOMAIN r /\ r[n] = q[i]
    BY <1>3, <1>5, <1>6
<1>. QED  BY <1>7 DEF Range

\* Task_Terminate: the calls that wait for the task are lost.
LEMMA EndCorrect == ASSUME OsInv, Task_Terminate PROVE OsCorrect
<1>1. InTask /\ Kernel_Request_Terminate /\ Requesting /\ stub' = stub
    BY DEF Task_Terminate, Kernel_Request_Terminate
<1>2. PICK me \in Pid :
             /\ Cp = me /\ abort = "NONE" /\ stub[me] = "none"
             /\ state[me] \in {"RUNNING", "READY"} /\ me \notin Range(msg_queue)
             /\ \A r \in Pid : ~ Serves(r, me)
             /\ CallOf(me) = [op |-> "none"]
    BY <1>1, TheCaller
<1>3. clients' = [clients EXCEPT ![me] = {}] /\ variable' = [variable EXCEPT ![me] = 0]
    BY <1>2 DEF Task_Terminate
<1>4. /\ StubTypes /\ req \in [Pid -> RequestInfo] /\ msg_queue \in Seq(Pid)
      /\ Messages \in [Pid -> Message]
    BY DEF OsInv, StubInv, CallsInv, IInv, CallInv
<1>5. /\ StubTypes' /\ clients'[me] = {}
      /\ \A p \in Pid : p # me => clients'[p] = clients[p] /\ variable'[p] = variable[p]
    BY <1>1, <1>3, <1>4 DEF StubTypes
<1>. DEFINE st == StatesWithout
            kept == {i \in 1 .. Len(msg_queue) : ~ MatchesIn(Messages, msg_queue[i], me, ANY)}
<1>6. /\ msg_queue' = AtIndices(msg_queue, kept) /\ kept \in SUBSET (1 .. Len(msg_queue))
      /\ Passing(ZeroReq)
      /\ Messages' = Messages
      /\ \A p \in Pid \union {Idle} : st[p] = IF p = me THEN "DEAD" ELSE state[p]
      /\ \A p \in Pid : state'[p] = st[p] \/ (st[p] = "READY" /\ state'[p] = "RUNNING")
    <2>1. /\ msg_queue' = Purged(Cp) /\ Passing(ZeroReq)
          /\ Dispatch(st, pd, QueuesWithout, sys_clock, clock_state)
          /\ UNCHANGED <<pd, Messages, clockVars>>
          /\ \A p \in Pid \union {Idle} : st[p] = IF p = Cp THEN "DEAD" ELSE state[p]
          /\ Calm(st)
          /\ Filed(st, pd, QueuesWithout)
        BY <1>1, TerminateFiled DEF OsInv, CallsInv
    <2>. HIDE DEF st
    <2>2. \A p \in Pid : state'[p] = st[p] \/ (st[p] = "READY" /\ state'[p] = "RUNNING")
        BY <1>2, <2>1, DispatchKeeps DEF OsInv, CallsInv, IInv
    <2>. QED  BY <1>2, <2>1, <2>2 DEF Purged
<1>. HIDE DEF st
<1>7. \A p \in Pid : p # me => req'[p] = req[p]
    BY <1>2, <1>4, <1>6 DEF Passing
\* The messages that stay are those that were not for the task.
<1>8. \A p \in Pid : p \in Range(msg_queue') <=>
                        p \in Range(msg_queue) /\ ~ MatchesIn(Messages, p, me, ANY)
    <2>1. /\ Lists(msg_queue, Range(msg_queue)) /\ DOMAIN msg_queue = 1 .. Len(msg_queue)
        BY <1>1, QueuedMessages, SeqOfRange, LenProperties DEF Lists, OsInv, CallsInv
    <2>2. \A x \in Range(AtIndices(msg_queue, kept)) : \E i \in kept : x = msg_queue[i]
        <3>. HIDE DEF kept
        <3>. QED  BY <1>6, <2>1, AtIndicesLists
    <2>3. \A i \in kept : msg_queue[i] \in Range(AtIndices(msg_queue, kept))
        <3>. HIDE DEF kept
        <3>. QED  BY <1>6, <2>1, AtIndicesAll
    <2>4. \A p : p \in Range(msg_queue) <=> \E i \in 1 .. Len(msg_queue) : p = msg_queue[i]
        BY <2>1 DEF Range
    <2>. QED  BY <1>6, <2>2, <2>3, <2>4
<1>. HIDE DEF kept
<1>9. \A r, p \in Pid : Serves(r, p)' <=> Serves(r, p) /\ r # me
    <2>1. ASSUME NEW r \in Pid, NEW p \in Pid, r # me PROVE Serves(r, p)' <=> Serves(r, p)
        BY <1>1, <1>5, <1>6, <1>7, <2>1 DEF Serves
    <2>2. ASSUME NEW p \in Pid PROVE ~ Serves(me, p)'
        BY <1>1, <1>2, <1>5 DEF Serves
    <2>. QED  BY <2>1, <2>2
<1>10. StubInv'
    <2>1. ASSUME NEW p \in Pid PROVE TaskInv(p)'
        <3>1. TaskInv(p)
            BY DEF OsInv, StubInv
        <3>2. ServedOnce(p)'
            BY <1>2, <1>6, <1>9, <3>1 DEF TaskInv, ServedOnce
        <3>3. InCall(p)' /\ NamesSender(p)'
            BY <1>1, <1>2, <1>5, <1>6, <1>7, <3>1 DEF TaskInv, InCall, NamesSender
        <3>. QED  BY <3>2, <3>3 DEF TaskInv
    <2>. QED  BY <1>5, <2>1 DEF StubInv
<1>. DEFINE Dropped(p) == p \in Range(msg_queue) /\ MatchesIn(Messages, p, me, ANY)
<1>11. \A p \in Pid : p # me /\ ~ Dropped(p) /\ ~ Serves(me, p) => CallOf(p)' = CallOf(p)
    <2>1. PICK X \in SUBSET Pid :
                \A p \in Pid : p \in X <=> p = me \/ Dropped(p) \/ Serves(me, p)
        <3>1. {p \in Pid : p = me \/ Dropped(p) \/ Serves(me, p)} \in SUBSET Pid
            OBVIOUS
        <3>. QED  BY <3>1
    <2>2. /\ me \in X
          /\ \A p \in Pid \ X :
                /\ st[p] = state[p] /\ stub'[p] = stub[p] /\ clients'[p] = clients[p]
                /\ req'[p] = req[p]
                /\ p \in Range(msg_queue') <=> p \in Range(msg_queue)
                /\ p \in Range(msg_queue) => Messages'[p] = Messages[p]
          /\ \A p \in Pid \ X, r \in X : Serves(r, p)' <=> Serves(r, p)
          /\ \A p \in Pid : p # me => variable'[p] = variable[p]
        BY <1>1, <1>5, <1>6, <1>7, <1>8, <1>9, <2>1
    <2>3. \A p \in Pid \ X : CallOf(p)' = CallOf(p)
        BY <1>2, <1>6, <2>2, OthersStep
    <2>. QED  BY <2>1, <2>3
<1>12. \A q \in Pid : CallOf(q)' =
            IF CallOf(q) = [op |-> "await", server |-> me]
                \/ (/\ CallOf(q).op = "send" /\ CallOf(q).to = me
                    /\ CallOf(q).mask \intersect CallOf(q).mask # {})
            THEN [op |-> "lost"] ELSE CallOf(q)
    <2>. SUFFICES ASSUME NEW q \in Pid
                  PROVE  CallOf(q)' =
                            IF CallOf(q) = [op |-> "await", server |-> me]
                                \/ (/\ CallOf(q).op = "send" /\ CallOf(q).to = me
                                    /\ CallOf(q).mask \intersect CallOf(q).mask # {})
                            THEN [op |-> "lost"] ELSE CallOf(q)
        OBVIOUS
    <2>1. CASE q = me
        <3>1. CallOf(q)' = [op |-> "none"] /\ CallOf(q).op = "none"
            BY <1>1, <1>2, <2>1, CallKinds DEF CallIs
        <3>2. CallOf(q) # [op |-> "await", server |-> me]
            BY <3>1
        <3>. QED  BY <1>2, <2>1, <3>1, <3>2
    <2>2. CASE Dropped(q)
        <3>1. state[q] = "SEND_BLOCK" /\ stub[q] = "send" /\ q # me
            BY <1>1, <1>2, <2>2, QueuedMessages DEF OsInv, CallsInv, StubInv, TaskInv, InCall
        <3>2. CallOf(q) = [op |-> "send", to |-> Messages[q].receiver,
                           mask |-> Messages[q].mask, value |-> variable[q]]
            BY <2>2, <3>1, CallKinds DEF CallIs
        <3>3. CallOf(q).op = "send" /\ CallOf(q).to = me /\ CallOf(q).mask # {}
            BY <2>2, <3>2 DEF MatchesIn
        <3>4. CallOf(q)' = [op |-> "lost"]
            BY <1>1, <1>6, <1>8, <2>2, <3>1, CallKinds DEF CallIs
        <3>. QED  BY <3>3, <3>4
    <2>3. CASE Serves(me, q)
        <3>1. state[q] = "REPLY_BLOCK" /\ stub[q] = "send" /\ ServedOnce(q) /\ q # me
            BY <1>2, <2>3 DEF OsInv, StubInv, TaskInv, ServedOnce, InCall
        <3>2. CallOf(q) = [op |-> "await", server |-> me]
            BY <2>3, <3>1, CallKinds DEF CallIs
        <3>3. \A r \in Pid : ~ Serves(r, q)'
            BY <1>9, <2>3, <3>1 DEF ServedOnce
        <3>4. CallOf(q)' = [op |-> "lost"]
            BY <1>1, <1>6, <3>1, <3>3, CallKinds DEF CallIs
        <3>. QED  BY <3>2, <3>4
    <2>4. CASE q # me /\ ~ Dropped(q) /\ ~ Serves(me, q)
        <3>1. CallOf(q)' = CallOf(q)
            BY <1>11, <2>4
        <3>2. CallOf(q) # [op |-> "await", server |-> me]
            <4>1. SUFFICES ASSUME CallOf(q) = [op |-> "await", server |-> me] PROVE FALSE
                OBVIOUS
            <4>2. CallOf(q).op = "await" /\ CallOf(q).server = me
                BY <4>1
            <4>3. PICK r \in Pid : Serves(r, q) /\ stub[q] = "send" /\ state[q] = "REPLY_BLOCK"
                BY <4>2, CallOps
            <4>4. CallOf(q) = [op |-> "await", server |-> r]
                BY <4>3, CallKinds DEF CallIs, OsInv, StubInv, TaskInv
            <4>. QED  BY <2>4, <4>2, <4>3, <4>4
        <3>3. ~ (CallOf(q).op = "send" /\ CallOf(q).to = me /\ CallOf(q).mask # {})
            <4>1. SUFFICES ASSUME CallOf(q).op = "send", CallOf(q).to = me, CallOf(q).mask # {}
                           PROVE  FALSE
                OBVIOUS
            <4>2. stub[q] = "send" /\ state[q] = "SEND_BLOCK" /\ q \in Range(msg_queue)
                BY <4>1, CallOps
            <4>3. CallOf(q) = [op |-> "send", to |-> Messages[q].receiver,
                               mask |-> Messages[q].mask, value |-> variable[q]]
                BY <4>2, CallKinds DEF CallIs
            <4>4. Messages[q].mask \subseteq MsgBits
                BY <1>4 DEF Message
            <4>5. Messages[q].receiver = me /\ Messages[q].mask \intersect MsgBits # {}
                BY <4>1, <4>3, <4>4
            <4>. QED  BY <2>4, <4>2, <4>5 DEF MatchesIn, ANY
        <3>. QED  BY <3>1, <3>2, <3>3
    <2>. HIDE DEF Dropped
    <2>. QED  BY <2>1, <2>2, <2>3, <2>4
<1>13. [p \in Pid |-> CallOf(p)]' =
        [q \in Pid |->
            IF [p \in Pid |-> CallOf(p)][q] = [op |-> "await", server |-> me]
                \/ (/\ [p \in Pid |-> CallOf(p)][q].op = "send" /\ [p \in Pid |-> CallOf(p)][q].to = me
                    /\ [p \in Pid |-> CallOf(p)][q].mask \intersect [p \in Pid |-> CallOf(p)][q].mask # {})
            THEN [op |-> "lost"] ELSE [p \in Pid |-> CallOf(p)][q]]
    BY <1>12
<1>14. Abstract!Terminate(me)
    BY <1>3, <1>13 DEF Abstract!Terminate, Abstract!Awaiting, Abstract!Fits, Abstract!Lost
<1>. QED  BY <1>2, <1>10, <1>14 DEF OsCorrect, Simulates, Abstract!Next, Abstract!Begin,
                                    Abstract!NoCall


-----------------------------------------------------------------------------
(* The theorems.                                                            *)

\* Each action is the handler's step, a return or no step of the kernel.
LEMMA StubsStep == ASSUME OsInv, [OsNext]_osVars PROVE OsCorrect
<1>1. ASSUME NEW to \in Pid \union {BadId}, NEW mask \in Masks, NEW v \in Data,
             Msg_Send(to, mask, v)
      PROVE  OsCorrect
    BY <1>1, SendCorrect
<1>2. CASE Msg_Send_returns
    BY <1>2, SendReturns
<1>3. ASSUME NEW mask \in Masks, Msg_Recv(mask) PROVE OsCorrect
    BY <1>3, RecvCorrect
<1>4. CASE Msg_Recv_returns
    BY <1>4, RecvReturns
<1>5. ASSUME NEW to \in Pid, NEW data \in Data, Msg_Rply(to, data) PROVE OsCorrect
    BY <1>5, RplyCorrect
<1>6. ASSUME NEW to \in Pid, NEW mask \in Masks, NEW data \in Data, Msg_ASend(to, mask, data)
      PROVE  OsCorrect
    BY <1>6, ASendCorrect
<1>7. CASE Task_Terminate
    BY <1>7, EndCorrect
<1>8. ASSUME NEW r \in CreateRequests, Task_Create(r) PROVE OsCorrect
    BY <1>8, CreateQuiet
<1>9. CASE Task_Next
    BY <1>9, NextQuiet
<1>10. CASE OutsideTasks
    BY <1>10, OutsideQuiet
<1>11. CASE UNCHANGED osVars
    <2>1. UNCHANGED <<vars, variable, stub, clients>>
        BY <1>11 DEF osVars
    <2>2. \A p \in Pid : Same(p)
        BY <2>1 DEF vars, msgVars, Same
    <2>. QED  BY <2>1, <2>2, QuietCorrect
<1>. QED
    BY <1>1, <1>2, <1>3, <1>4, <1>5, <1>6, <1>7, <1>8, <1>9, <1>10, <1>11 DEF OsNext

\* The stubs make the kernel take no step of their own.
LEMMA KernelStep == ASSUME [OsNext]_osVars PROVE [Next]_vars
<1>1. ASSUME NEW to \in Pid \union {BadId}, NEW mask \in Masks, NEW v \in Data,
             Msg_Send(to, mask, v)
      PROVE  Request
    BY <1>1 DEF Msg_Send, Request
<1>2. ASSUME NEW mask \in Masks, Msg_Recv(mask) PROVE Request
    BY <1>2 DEF Msg_Recv, Request
<1>3. ASSUME NEW to \in Pid, NEW data \in Data, Msg_Rply(to, data) PROVE Request
    BY <1>3 DEF Msg_Rply, Request
<1>4. ASSUME NEW to \in Pid, NEW mask \in Masks, NEW data \in Data, Msg_ASend(to, mask, data)
      PROVE  Request
    BY <1>4 DEF Msg_ASend, Request
<1>5. Task_Terminate \/ Task_Next => Request
    BY DEF Task_Terminate, Task_Next, Request
<1>6. ASSUME NEW r \in CreateRequests, Task_Create(r) PROVE Request
    BY <1>6 DEF Task_Create, Request
<1>7. OutsideTasks => Next
    BY DEF OutsideTasks, Next
<1>8. Msg_Send_returns \/ Msg_Recv_returns \/ UNCHANGED osVars => UNCHANGED vars
    BY DEF Msg_Send_returns, Msg_Recv_returns, osVars
<1>9. Request => Next
    BY DEF Next
<1>. QED
    BY <1>1, <1>2, <1>3, <1>4, <1>5, <1>6, <1>7, <1>8, <1>9 DEF OsNext

LEMMA InitOs == ASSUME OsInit PROVE OsInv /\ Abstract!Init
<1>1. CallsInv
    BY InitCalls DEF OsInit
<1>2. /\ StubTypes
      /\ \A p \in Pid : stub[p] = "none" /\ clients[p] = {} /\ state[p] \in {"READY", "DEAD"}
    BY PidFacts DEF OsInit, Init, StubTypes
<1>3. \A r, p \in Pid : ~ Serves(r, p)
    BY <1>2 DEF Serves
<1>4. \A p \in Pid : TaskInv(p)
    BY <1>2, <1>3 DEF TaskInv, InCall, ServedOnce, NamesSender
<1>5. [p \in Pid |-> CallOf(p)] = [p \in Pid |-> [op |-> "none"]]
    BY <1>2, CallKinds DEF CallIs
<1>6. Abstract!Init
    BY <1>5 DEF OsInit, Abstract!Init, Abstract!NoCall
<1>. QED  BY <1>1, <1>2, <1>4, <1>6 DEF OsInv, StubInv

\* Who is blocked in a call is in its stub, and who serves a task serves one
\* that waits for the reply, in every state of every behavior of the tasks.
THEOREM OsInvariant == OsSpec => []OsInv
<1>1. OsInit => OsInv
    BY InitOs
<1>2. OsInv /\ [OsNext]_osVars => OsInv'
    <2>1. SUFFICES ASSUME OsInv, [OsNext]_osVars PROVE OsInv'
        OBVIOUS
    <2>2. CallsInv /\ IInv /\ [Next]_vars
        BY <2>1, KernelStep DEF OsInv, CallsInv
    <2>3. StepCorrect /\ IInv'
        BY <2>2, CallsStep, StepKeeps
    <2>4. StubInv'
        BY <2>1, StubsStep DEF OsCorrect
    <2>. QED  BY <2>3, <2>4 DEF OsInv, CallsInv, StepCorrect
<1>. QED  BY <1>1, <1>2, PTL DEF OsSpec

\* A message that has been received has one task that may reply to it, and its
\* sender waits inside Msg_Send until that task does.
THEOREM OneServerEach == OsSpec => []OneServer
<1>1. ASSUME OsInv PROVE OneServer
    <2>1. SUFFICES ASSUME NEW p \in Pid
                   PROVE  /\ Cardinality(Servers(p)) <= 1
                          /\ Servers(p) # {} => state[p] = "REPLY_BLOCK" /\ stub[p] = "send"
        BY DEF OneServer
    <2>2. InCall(p) /\ ServedOnce(p)
        BY <1>1 DEF OsInv, StubInv, TaskInv
    <2>3. CASE Servers(p) = {}
        <3>1. Cardinality(Servers(p)) = 0
            BY <2>3, FS_EmptySet
        <3>. QED  BY <2>3, <3>1
    <2>4. ASSUME NEW r \in Servers(p)
          PROVE  /\ Cardinality(Servers(p)) <= 1
                 /\ state[p] = "REPLY_BLOCK" /\ stub[p] = "send"
        <3>1. Servers(p) = {r} /\ r \in Pid /\ Serves(r, p)
            BY <2>2, <2>4, ServersMean DEF ServedOnce
        <3>2. Cardinality({r}) = 1
            BY FS_Singleton
        <3>. QED  BY <2>2, <3>1, <3>2 DEF InCall, ServedOnce
    <2>. QED  BY <2>3, <2>4
<1>. QED  BY <1>1, OsInvariant, PTL

\* The kernel and the stubs around it implement Rendezvous: each step of a task
\* or of the tick is a step of the calls it specifies, or none.
THEOREM StubsKeepRendezvous == OsSpec => KeepsRendezvous
<1>1. OsInit => Abstract!Init
    BY InitOs
<1>2. OsInv /\ [OsNext]_osVars => [Abstract!Next]_<<[p \in Pid |-> CallOf(p)], variable>>
    BY StubsStep DEF OsCorrect, Simulates, AllCalls
<1>. QED  BY <1>1, <1>2, OsInvariant, PTL DEF OsSpec, KeepsRendezvous, Abstract!Spec

=============================================================================
