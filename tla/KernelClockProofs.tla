------------------------- MODULE KernelClockProofs -------------------------
(***************************************************************************)
(* Who runs when, for every number of tasks and every set of creation      *)
(* requests.  No SYSTEM or RR task that waits is overtaken.  That a period *)
(* begins at its tick (or the kernel stops) holds for every clock modulus, *)
(* also across the wrap of the clock.  The order of the PERIODIC queue,    *)
(* and with it the precedence of the tasks that are due, holds as long as  *)
(* no start time wraps.                                                    *)
(***************************************************************************)
EXTENDS KernelHistory, KernelProofs

-----------------------------------------------------------------------------
(* The forms a step has, as far as the PERIODIC tasks are concerned.        *)

\* The kernel stops, or returns to the caller, or nothing happens.
Stays ==
    /\ UNCHANGED <<Cp, pd, queue, clockVars>>
    /\ \/ state' = state /\ (abort' = abort \/ abort' # "NONE")
       \/ Requesting /\ state' = Entered /\ abort' = abort

\* A handler dispatches the tasks in st, with the descriptors pds, filed in qs.
Dispatches(st, pds, qs) ==
    /\ abort = "NONE" /\ Cp \in Pid \union {Idle}
    /\ Filed(st, pds, qs) /\ Calm(st) /\ NoneBlocked(st, pds)
    /\ Dispatch(st, pds, qs, sys_clock', clock_state')
    /\ pd' = pds

\* The handler changes the states of tasks that live, and nothing else.
Plain ==
    /\ UNCHANGED clockVars
    /\ \E st \in [Pid \union {Idle} -> ProcessState] :
            /\ Dispatches(st, pd, queue)
            /\ \A p \in Pid : st[p] = "DEAD" <=> state[p] = "DEAD"

LEMMA PlainForm ==
    ASSUME CallsInv, Requesting, NEW st \in [Pid \union {Idle} -> ProcessState],
           \A p \in Pid \union {Idle} : st[p] = "RUNNING" => p # Cp /\ st[p] = state[p],
           \A p \in Pid : st[p] = "DEAD" <=> state[p] = "DEAD",
           \A p \in Pid : st[p] \in Blocked => state[p] \in Blocked \/ (p = Cp /\ MayBlock),
           Dispatch(st, pd, queue, sys_clock, clock_state), UNCHANGED <<pd, clockVars>>
    PROVE  Plain
<1>1. Filed(state, pd, queue) /\ pd \in [Pid -> Descriptor] /\ NoneBlocked(state, pd)
    BY PeriodicNotBlockedMeans DEF CallsInv, PartnerInv, IInv, SchedInv, Filed
<1>2. Filed(st, pd, queue)
    <2>1. /\ st \in [Pid \union {Idle} -> ProcessState]
          /\ \A p \in Pid : st[p] = "DEAD" <=> state[p] = "DEAD"
          /\ \A p \in Pid : pd[p].priority = pd[p].priority
        OBVIOUS
    <2>. QED  BY ONLY <1>1, <2>1, FiledSame
<1>3. NoneBlocked(st, pd)
    BY <1>1 DEF NoneBlocked, MayBlock
<1>4. Calm(st)
    BY DEF Calm, CallsInv, IInv, SchedInv, OnlyCpRuns
<1>. QED  BY <1>2, <1>3, <1>4 DEF Plain, Dispatches, Requesting, clockVars

\* The calls for messages.
LEMMA MsgSendForm ==
    ASSUME CallsInv, NEW to \in Pid \union {BadId}, NEW mask \in Masks,
           Kernel_Request_MsgSend(to, mask)
    PROVE  Stays \/ Plain
<1>1. Requesting /\ Cp \in Pid /\ abort = "NONE" /\ state[Cp] \in {"RUNNING", "READY"}
    BY Caller DEF Kernel_Request_MsgSend, CallsInv
<1>2. CASE ~ MayBlock \/ NoSuchTask(to)
    BY <1>1, <1>2 DEF Kernel_Request_MsgSend, Abort, ReturnToCaller, Stays, taskVars
<1>3. CASE MayBlock /\ ~ NoSuchTask(to) /\ WaitsFor(to, mask)
    <2>. DEFINE st == [state EXCEPT ![to] = "READY", ![Cp] = "REPLY_BLOCK"]
    <2>1. Dispatch(st, pd, queue, sys_clock, clock_state) /\ UNCHANGED <<pd, clockVars>>
        BY <1>3 DEF Kernel_Request_MsgSend
    <2>2. to \in Pid /\ state[to] = "RECV_BLOCK" /\ to # Cp
        BY <1>1, <1>3 DEF NoSuchTask, WaitsFor
    <2>3. /\ st \in [Pid \union {Idle} -> ProcessState]
          /\ \A p \in Pid \union {Idle} : st[p] = IF p = Cp THEN "REPLY_BLOCK"
                                                  ELSE IF p = to THEN "READY" ELSE state[p]
        BY <1>1, <2>2 DEF CallsInv, IInv, SchedInv, Filed, ProcessState
    <2>. HIDE DEF st
    <2>. QED  BY <1>1, <1>3, <2>1, <2>2, <2>3, PlainForm DEF Blocked
<1>4. CASE MayBlock /\ ~ NoSuchTask(to) /\ ~ WaitsFor(to, mask)
    <2>. DEFINE st == [state EXCEPT ![Cp] = "SEND_BLOCK"]
    <2>1. Dispatch(st, pd, queue, sys_clock, clock_state) /\ UNCHANGED <<pd, clockVars>>
        BY <1>4 DEF Kernel_Request_MsgSend
    <2>2. /\ st \in [Pid \union {Idle} -> ProcessState]
          /\ \A p \in Pid \union {Idle} : st[p] = IF p = Cp THEN "SEND_BLOCK" ELSE state[p]
        BY <1>1 DEF CallsInv, IInv, SchedInv, Filed, ProcessState
    <2>. HIDE DEF st
    <2>. QED  BY <1>1, <1>4, <2>1, <2>2, PlainForm DEF Blocked
<1>. QED  BY <1>2, <1>3, <1>4

LEMMA MsgRecvForm ==
    ASSUME CallsInv, NEW mask \in Masks, Kernel_Request_MsgRecv(mask)
    PROVE  Stays \/ Plain
<1>1. Requesting /\ Cp \in Pid /\ abort = "NONE" /\ state[Cp] \in {"RUNNING", "READY"}
    BY Caller DEF Kernel_Request_MsgRecv, CallsInv
<1>2. CASE ~ MayBlock
    BY <1>1, <1>2 DEF Kernel_Request_MsgRecv, Abort, Stays, taskVars, AbortCode
<1>3. CASE MayBlock /\ HasMessage(Cp, mask)
    <2>. DEFINE s == msg_queue[Found(Cp, mask)]
                st == [Entered EXCEPT ![Messages[s].sender] = "REPLY_BLOCK"]
    <2>1. Dispatch(st, pd, queue, sys_clock, clock_state) /\ UNCHANGED <<pd, clockVars>>
        BY <1>3 DEF Kernel_Request_MsgRecv
    <2>2. s \in Range(msg_queue)
        BY <1>3, FoundMatches, LenProperties DEF CallsInv, IInv, CallInv, Range
    <2>3. s \in Pid /\ s # Cp /\ state[s] = "SEND_BLOCK" /\ Messages[s].sender = s
        BY <1>1, <2>2, QueuedMessages DEF CallsInv
    <2>4. /\ st \in [Pid \union {Idle} -> ProcessState]
          /\ \A p \in Pid \union {Idle} : st[p] = IF p = s THEN "REPLY_BLOCK"
                                                  ELSE IF p = Cp THEN "READY" ELSE state[p]
        BY <1>1, <2>3, EnteredFiled DEF CallsInv, ProcessState
    <2>. HIDE DEF st, s
    <2>. QED  BY <1>1, <1>3, <2>1, <2>3, <2>4, PlainForm DEF Blocked
<1>4. CASE MayBlock /\ ~ HasMessage(Cp, mask)
    <2>. DEFINE st == [state EXCEPT ![Cp] = "RECV_BLOCK"]
    <2>1. Dispatch(st, pd, queue, sys_clock, clock_state) /\ UNCHANGED <<pd, clockVars>>
        BY <1>4 DEF Kernel_Request_MsgRecv
    <2>2. /\ st \in [Pid \union {Idle} -> ProcessState]
          /\ \A p \in Pid \union {Idle} : st[p] = IF p = Cp THEN "RECV_BLOCK" ELSE state[p]
        BY <1>1 DEF CallsInv, IInv, SchedInv, Filed, ProcessState
    <2>. HIDE DEF st
    <2>. QED  BY <1>1, <1>4, <2>1, <2>2, PlainForm DEF Blocked
<1>. QED  BY <1>2, <1>3, <1>4

LEMMA ReadyForm ==
    ASSUME CallsInv, Requesting, NEW to \in Pid, state[to] \in Blocked,
           Dispatch([Entered EXCEPT ![to] = "READY"], pd, queue, sys_clock, clock_state),
           UNCHANGED <<pd, clockVars>>
    PROVE  Plain
<1>. DEFINE st == [Entered EXCEPT ![to] = "READY"]
<1>1. Cp \in Pid /\ abort = "NONE" /\ state[Cp] \in {"RUNNING", "READY"}
    BY Caller DEF CallsInv
<1>2. /\ st \in [Pid \union {Idle} -> ProcessState]
      /\ \A p \in Pid \union {Idle} : st[p] = IF p \in {to, Cp} THEN "READY" ELSE state[p]
    BY <1>1, EnteredFiled DEF CallsInv, ProcessState
<1>3. Dispatch(st, pd, queue, sys_clock, clock_state)
    OBVIOUS
<1>. HIDE DEF st
<1>. QED  BY <1>1, <1>2, <1>3, PlainForm DEF Blocked

LEMMA EnteredForm ==
    ASSUME CallsInv, Requesting, Dispatch(Entered, pd, queue, sys_clock, clock_state),
           UNCHANGED <<pd, clockVars>>
    PROVE  Plain
<1>1. Cp \in Pid /\ abort = "NONE" /\ state[Cp] \in {"RUNNING", "READY"}
    BY Caller DEF CallsInv
<1>2. /\ Entered \in [Pid \union {Idle} -> ProcessState]
      /\ \A p \in Pid \union {Idle} : Entered[p] = IF p = Cp THEN "READY" ELSE state[p]
    BY <1>1, EnteredFiled DEF CallsInv
<1>. QED  BY <1>1, <1>2, PlainForm DEF Blocked

LEMMA MsgRplyForm ==
    ASSUME CallsInv, NEW to \in Pid \union {BadId}, NEW data \in Data,
           Kernel_Request_MsgRply(to, data)
    PROVE  Stays \/ Plain
<1>1. Requesting /\ Cp \in Pid /\ abort = "NONE" /\ state[Cp] \in {"RUNNING", "READY"}
    BY Caller DEF Kernel_Request_MsgRply, CallsInv
<1>2. CASE ~ MayBlock \/ NoSuchTask(to)
    BY <1>1, <1>2 DEF Kernel_Request_MsgRply, Abort, ReturnToCaller, Stays, taskVars
<1>3. CASE MayBlock /\ ~ NoSuchTask(to) /\ AwaitsReply(to)
    <2>1. Entered[Cp] = "READY" /\ \A p \in Pid : p # Cp => Entered[p] = state[p]
        BY <1>1, EnteredFiled DEF CallsInv
    <2>2. to \in Pid /\ state[to] \in Blocked
        BY <1>3, <2>1 DEF NoSuchTask, AwaitsReply, Blocked
    <2>3. /\ Dispatch([Entered EXCEPT ![to] = "READY"], pd, queue, sys_clock, clock_state)
          /\ UNCHANGED <<pd, clockVars>>
        BY <1>3 DEF Kernel_Request_MsgRply
    <2>. QED  BY <1>1, <2>2, <2>3, ReadyForm
<1>4. CASE MayBlock /\ ~ NoSuchTask(to) /\ ~ AwaitsReply(to)
    <2>1. Dispatch(Entered, pd, queue, sys_clock, clock_state) /\ UNCHANGED <<pd, clockVars>>
        BY <1>4 DEF Kernel_Request_MsgRply
    <2>. QED  BY <1>1, <2>1, EnteredForm
<1>. QED  BY <1>2, <1>3, <1>4

LEMMA MsgASendForm ==
    ASSUME CallsInv, NEW to \in Pid \union {BadId}, NEW mask \in Masks, NEW data \in Data,
           Kernel_Request_MsgASend(to, mask, data)
    PROVE  Stays \/ Plain
<1>1. Requesting /\ abort = "NONE"
    BY DEF Kernel_Request_MsgASend, Requesting
<1>2. CASE to = BadId \/ ~ WaitsFor(to, mask)
    BY <1>1, <1>2 DEF Kernel_Request_MsgASend, Abort, ReturnToCaller, Stays, taskVars
<1>3. CASE to # BadId /\ WaitsFor(to, mask)
    <2>1. to \in Pid /\ state[to] \in Blocked
        BY <1>3 DEF WaitsFor, Blocked
    <2>2. /\ Dispatch([Entered EXCEPT ![to] = "READY"], pd, queue, sys_clock, clock_state)
          /\ UNCHANGED <<pd, clockVars>>
        BY <1>3 DEF Kernel_Request_MsgASend
    <2>. QED  BY <1>1, <2>1, <2>2, ReadyForm
<1>. QED  BY <1>2, <1>3

\* The other handlers that dispatch.
LEMMA NextDispatches ==
    ASSUME CallsInv, Kernel_Request_Next
    PROVE  Dispatches(Entered, pd', queue) /\ UNCHANGED clockVars
<1>1. /\ Cp \in Pid /\ abort = "NONE" /\ UNCHANGED clockVars
      /\ Dispatch(Entered, pd', queue, sys_clock, clock_state)
    BY DEF Kernel_Request_Next, Requesting
<1>2. pd' \in [Pid -> Descriptor] /\ \A p \in Pid : pd'[p].priority = pd[p].priority
    BY NextLevels DEF CallsInv
<1>3. /\ Calm(Entered) /\ Filed(Entered, pd, queue)
      /\ \A p \in Pid \union {Idle} : Entered[p] = IF p = Cp THEN "READY" ELSE state[p]
    BY <1>1, EnteredFiled DEF CallsInv
<1>4. Filed(Entered, pd', queue)
    BY <1>2, <1>3, FiledSame DEF Filed
<1>5. NoneBlocked(Entered, pd')
    <2>1. NoneBlocked(state, pd)
        BY PeriodicNotBlockedMeans DEF CallsInv, PartnerInv, IInv, SchedInv, Filed
    <2>. QED  BY <1>2, <1>3, <2>1 DEF NoneBlocked, Blocked
<1>. QED  BY <1>1, <1>3, <1>4, <1>5 DEF Dispatches, clockVars

LEMMA TimerDispatches ==
    ASSUME CallsInv, Kernel_Request_Timer, ~ Overrun
    PROVE  /\ Dispatches(Entered, Ticked, queue)
           /\ sys_clock < ClockBound
           /\ sys_clock' = (sys_clock + 1) % TickMod
           /\ clock_state' = IF sys_clock' < sys_clock THEN Flipped(clock_state) ELSE clock_state
<1>1. /\ abort = "NONE" /\ sys_clock < ClockBound
      /\ sys_clock' = (sys_clock + 1) % TickMod
      /\ clock_state' = IF sys_clock' < sys_clock THEN Flipped(clock_state) ELSE clock_state
      /\ pd' = Ticked
      /\ Dispatch(Entered, Ticked, queue, sys_clock', clock_state')
    BY DEF Kernel_Request_Timer
<1>2. Cp \in Pid \union {Idle}
    BY DEF Kernel_Request_Timer, CallsInv, IInv, SchedInv
<1>3. Ticked \in [Pid -> Descriptor] /\ \A p \in Pid : Ticked[p].priority = pd[p].priority
    BY <1>2, TickedLevels DEF CallsInv
<1>4. /\ Calm(Entered) /\ Filed(Entered, pd, queue)
      /\ \A p \in Pid \union {Idle} : Entered[p] = IF p = Cp THEN "READY" ELSE state[p]
    BY <1>1, <1>2, EnteredFiled DEF CallsInv
<1>5. Filed(Entered, Ticked, queue)
    BY <1>3, <1>4, FiledSame DEF Filed
<1>6. NoneBlocked(Entered, Ticked)
    <2>1. NoneBlocked(state, pd)
        BY PeriodicNotBlockedMeans DEF CallsInv, PartnerInv, IInv, SchedInv, Filed
    <2>. QED  BY <1>3, <1>4, <2>1 DEF NoneBlocked, Blocked
<1>. QED  BY <1>1, <1>2, <1>4, <1>5, <1>6 DEF Dispatches

LEMMA CreateDispatches ==
    ASSUME CallsInv, Requesting, ~ TooManyTasks, NEW r \in CreateRequests, CreateTask(r)
    PROVE  /\ Dispatches(StatesWith, PdsWith(r), QueuesWith(r)) /\ UNCHANGED clockVars
           /\ Cp \in Pid /\ FreePid \in Pid /\ FreePid # Cp /\ state[FreePid] = "DEAD"
           /\ r.priority \in Level /\ NewPd(r) \in Descriptor /\ NewPd(r).priority = r.priority
           /\ \A p \in Pid : PdsWith(r)[p] = IF p = FreePid THEN NewPd(r) ELSE pd[p]
           /\ \A p \in Pid \union {Idle} :
                StatesWith[p] = IF p \in {FreePid, Cp} THEN "READY" ELSE state[p]
<1>1. /\ Cp \in Pid /\ abort = "NONE"
      /\ FreePid \in Pid /\ state[FreePid] = "DEAD" /\ FreePid # Cp
      /\ pd' = PdsWith(r)
      /\ Dispatch(StatesWith, PdsWith(r), QueuesWith(r), sys_clock, clock_state)
      /\ UNCHANGED <<msgVars, clockVars>>
      /\ r.priority \in Level /\ NewPd(r) \in Descriptor /\ NewPd(r).priority = r.priority
      /\ \A p \in Pid : PdsWith(r)[p] = IF p = FreePid THEN NewPd(r) ELSE pd[p]
      /\ \A p \in Pid \union {Idle} :
            StatesWith[p] = IF p \in {FreePid, Cp} THEN "READY" ELSE state[p]
      /\ Calm(StatesWith)
      /\ Filed(StatesWith, PdsWith(r), QueuesWith(r))
    BY CreateFiled DEF CallsInv
<1>2. NoneBlocked(state, pd)
    BY PeriodicNotBlockedMeans DEF CallsInv, PartnerInv, IInv, SchedInv, Filed
<1>3. NoneBlocked(StatesWith, PdsWith(r))
    BY <1>1, <1>2 DEF NoneBlocked, Blocked
<1>. QED  BY <1>1, <1>3 DEF Dispatches, clockVars

LEMMA TerminateDispatches ==
    ASSUME CallsInv, Kernel_Request_Terminate
    PROVE  /\ Dispatches(StatesWithout, pd, QueuesWithout) /\ UNCHANGED clockVars
           /\ Cp \in Pid
           /\ \A p \in Pid \union {Idle} : StatesWithout[p] = IF p = Cp THEN "DEAD" ELSE state[p]
<1>1. /\ Cp \in Pid /\ abort = "NONE"
      /\ Dispatch(StatesWithout, pd, QueuesWithout, sys_clock, clock_state)
      /\ UNCHANGED <<pd, Messages, clockVars>>
      /\ \A p \in Pid \union {Idle} : StatesWithout[p] = IF p = Cp THEN "DEAD" ELSE state[p]
      /\ Calm(StatesWithout)
      /\ Filed(StatesWithout, pd, QueuesWithout)
    BY TerminateFiled DEF CallsInv
<1>2. NoneBlocked(state, pd)
    BY PeriodicNotBlockedMeans DEF CallsInv, PartnerInv, IInv, SchedInv, Filed
<1>3. NoneBlocked(StatesWithout, pd)
    BY <1>1, <1>2 DEF NoneBlocked, Blocked
<1>. QED  BY <1>1, <1>3 DEF Dispatches, clockVars

\* Every step of the kernel has one of these forms.
LEMMA StepForms ==
    ASSUME CallsInv, [Next]_vars
    PROVE  \/ Stays
           \/ Kernel_Start
           \/ Plain
           \/ Kernel_Request_Next
           \/ Kernel_Request_Timer /\ ~ Overrun
           \/ Requesting /\ ~ TooManyTasks /\ \E r \in CreateRequests : CreateTask(r)
           \/ Kernel_Request_Terminate
<1>1. ASSUME NEW code \in AbortCode, Abort(code) PROVE Stays
    BY <1>1 DEF Abort, Stays, taskVars, AbortCode
<1>2. ASSUME NEW r \in CreateRequests, Kernel_Request_Create(r), TooManyTasks PROVE Plain
    <2>1. /\ Requesting /\ UNCHANGED <<pd, clockVars>>
          /\ Dispatch(Entered, pd, queue, sys_clock, clock_state)
        BY <1>2 DEF Kernel_Request_Create
    <2>. QED  BY <2>1, EnteredForm
<1>3. ASSUME NEW r \in CreateRequests, Kernel_Request_Create(r), ~ TooManyTasks
      PROVE  Stays \/ (Requesting /\ CreateTask(r))
    <2>1. "NULL_TASK_FUNCTION" \in AbortCode /\ "INVALID_REQ_INFO" \in AbortCode
        BY DEF AbortCode
    <2>2. \/ Abort("NULL_TASK_FUNCTION")
          \/ Abort("INVALID_REQ_INFO")
          \/ CreateTask(r)
        BY <1>3, FreeDescriptor DEF Kernel_Request_Create, CallsInv
    <2>. QED  BY <1>1, <1>3, <2>1, <2>2 DEF Kernel_Request_Create
<1>4. CASE Kernel_Request_Abort
    <2>1. "USER" \in AbortCode
        BY DEF AbortCode
    <2>. QED  BY <1>1, <1>4, <2>1 DEF Kernel_Request_Abort
<1>5. CASE Kernel_Request_GetPid
    BY <1>5 DEF Kernel_Request_GetPid, ReturnToCaller, Stays, taskVars
<1>6. CASE Kernel_Request_Timer
    <2>1. "TIMING_VIOLATION" \in AbortCode
        BY DEF AbortCode
    <2>. QED  BY <1>1, <1>6, <2>1 DEF Kernel_Request_Timer
<1>7. CASE UNCHANGED vars
    BY <1>7 DEF vars, taskVars, Stays
<1>. QED
    BY <1>2, <1>3, <1>4, <1>5, <1>6, <1>7, MsgSendForm, MsgRecvForm, MsgRplyForm, MsgASendForm
       DEF Next, Request, Halted

-----------------------------------------------------------------------------
(* The choice of a PERIODIC task.                                           *)

\* No PERIODIC task is blocked, so the front of their queue is the first READY
\* one, and the queue is not turned.
LEMMA PeriodicNotTurned ==
    ASSUME NEW st, NEW pds, NEW qs, Filed(st, pds, qs), Calm(st), NoneBlocked(st, pds)
    PROVE  Queue_Rotate_Ready(qs["PERIODIC"], st) = qs["PERIODIC"]
<1>. DEFINE q == qs["PERIODIC"]
            k == FirstReady(q, st)
<1>1. Lists(q, Belong(st, pds, "PERIODIC"))
    BY DEF Filed, Level
<1>2. CASE ~ HasReady(q, st)
    BY <1>2 DEF Queue_Rotate_Ready
<1>3. CASE HasReady(q, st)
    <2>1. \A p \in Belong(st, pds, "PERIODIC") : st[p] = "READY"
        BY DEF Belong, NoneBlocked, Blocked, Calm, Filed, ProcessState
    <2>2. q \in Seq(Belong(st, pds, "PERIODIC")) /\ Len(q) \in Nat
        BY <1>1, LenProperties DEF Lists
    <2>3. /\ k \in 1 .. Len(q)
          /\ \A j \in 1 .. k - 1 : st[q[j]] # "READY"
        <3>. DEFINE R == {i \in 1 .. Len(q) : st[q[i]] = "READY"}
        <3>1. R # {}
            BY <1>3 DEF HasReady
        <3>2. PICK i \in R : \A j \in 1 .. i - 1 : j \notin R
            BY <2>2, <3>1, FirstIndex
        <3>3. \A j \in 1 .. i - 1 : st[q[j]] # "READY"
            BY <2>2, <3>2
        <3>. HIDE DEF q
        <3>. QED  BY <3>2, <3>3 DEF FirstReady
    <2>4. 1 \in 1 .. Len(q) /\ q[1] \in Belong(st, pds, "PERIODIC")
        BY <2>2, <2>3, ElementOfSeq
    <2>. HIDE DEF q, k
    <2>5. k = 1
        BY <2>1, <2>2, <2>3, <2>4
    <2>6. SubSeq(q, 1, Len(q)) = q /\ SubSeq(q, 1, 0) = <<>>
        BY <2>2, SubSeqFull, SubSeqEmpty
    <2>7. Queue_Rotate_Ready(q, st) = SubSeq(q, 1, Len(q)) \o SubSeq(q, 1, 0)
        BY <1>3, <2>5 DEF Queue_Rotate_Ready, k
    <2>8. q \o <<>> = q
        BY <2>2, ConcatEmptySeq
    <2>. QED  BY <2>6, <2>7, <2>8 DEF q
<1>. QED  BY <1>2, <1>3

\* A PERIODIC task is given the processor when its start time has come, at the
\* very tick if it begins its period; an RR task, or the idle process, only
\* when the first PERIODIC task's has not.
LEMMA ChoosePeriodic ==
    ASSUME NEW st, NEW pds, NEW qs, NEW clock \in Tick, NEW overflow,
           Filed(st, pds, qs), Calm(st), NoneBlocked(st, pds), Choose(st, pds, qs, clock, overflow)
    PROVE  /\ queue'["PERIODIC"] = qs["PERIODIC"]
           /\ \A p \in Pid : state'[p] = "RUNNING" /\ pds[p].priority = "PERIODIC" =>
                /\ pds[p].tons <= clock /\ pds[p].clockState = overflow
                /\ pds[p].ticks_remaining = pds[p].wcet => clock = pds[p].tons
           /\ abort' = "NONE" => (Cp' \in Pid => state'[Cp'] = "RUNNING")
           /\ abort' = "NONE" /\ (Cp' = Idle \/ (Cp' \in Pid /\ pds[Cp'].priority = "RR")) =>
                ~ PeriodicDue(qs, pds, clock, overflow)
<1>. DEFINE l == ChosenLevel(st, pds, qs, clock, overflow)
            r == Queue_Rotate_Ready(qs[l], st)
            rotated == [qs EXCEPT ![l] = r]
            next == IF HasReady(qs[l], st) THEN Head(rotated[l]) ELSE Idle
<1>1. l \in Level
    BY DEF ChosenLevel, Level
<1>2. /\ queue' = rotated
      /\ \/ abort' = "TIMING_VIOLATION" /\ state' = st
         \/ /\ ~ (l = "PERIODIC" /\ next # Idle /\ MissedStart(next, pds, clock, overflow))
            /\ Cp' = next /\ state' = [st EXCEPT ![next] = "RUNNING"]
    BY DEF Choose
<1>3. /\ l = "PERIODIC" => PeriodicDue(qs, pds, clock, overflow)
      /\ l = "RR" => ~ PeriodicDue(qs, pds, clock, overflow)
      /\ l = "SYSTEM" => HasReady(qs["SYSTEM"], st)
    BY DEF ChosenLevel
<1>4. Queue_Rotate_Ready(qs["PERIODIC"], st) = qs["PERIODIC"]
    BY PeriodicNotTurned
<1>. HIDE DEF l
<1>5. Lists(qs[l], Belong(st, pds, l))
    BY <1>1 DEF Filed
<1>6. HasReady(qs[l], st) => r # <<>> /\ Head(r) \in Belong(st, pds, l)
    BY <1>5, RotateLists
<1>7. l = "PERIODIC" => r = qs["PERIODIC"]
    BY <1>4
<1>. HIDE DEF r
<1>8. rotated[l] = r /\ \A k \in Level : k # l => rotated[k] = qs[k]
    BY <1>1 DEF Filed
<1>9. queue'["PERIODIC"] = qs["PERIODIC"]
    BY <1>1, <1>2, <1>7, <1>8 DEF Level
<1>10. \/ next = Idle /\ ~ HasReady(qs[l], st)
       \/ next \in Pid /\ pds[next].priority = l /\ HasReady(qs[l], st) /\ next = Head(r)
    BY <1>6, <1>8 DEF Belong
<1>. HIDE DEF next, rotated
<1>11. CASE abort' = "TIMING_VIOLATION" /\ state' = st
    BY <1>9, <1>11 DEF Calm
<1>12. CASE /\ ~ (l = "PERIODIC" /\ next # Idle /\ MissedStart(next, pds, clock, overflow))
            /\ Cp' = next /\ state' = [st EXCEPT ![next] = "RUNNING"]
    <2>1. \A p \in Pid : state'[p] = "RUNNING" => p = next
        BY <1>12 DEF Filed, Calm
    <2>2. next \in Pid => state'[next] = "RUNNING"
        BY <1>12 DEF Filed
    <2>3. ASSUME next \in Pid, pds[next].priority = "PERIODIC"
          PROVE  /\ pds[next].tons <= clock /\ pds[next].clockState = overflow
                 /\ pds[next].ticks_remaining = pds[next].wcet => clock = pds[next].tons
        <3>1. l = "PERIODIC" /\ next = Head(qs["PERIODIC"]) /\ next # Idle
            BY <1>7, <1>10, <2>3, PidFacts
        <3>2. pds[next].tons \in Tick
            BY <2>3 DEF Filed, Descriptor
        <3>3. clock >= pds[next].tons /\ overflow = pds[next].clockState
            BY <1>3, <3>1 DEF PeriodicDue
        <3>4. ~ MissedStart(next, pds, clock, overflow)
            BY <1>12, <3>1
        <3>. QED  BY <3>2, <3>3, <3>4, TickAssumption DEF MissedStart, Tick
    <2>4. ASSUME Cp' = Idle \/ (Cp' \in Pid /\ pds[Cp'].priority = "RR")
          PROVE  ~ PeriodicDue(qs, pds, clock, overflow)
        <3>1. CASE Cp' \in Pid /\ pds[Cp'].priority = "RR"
            BY <1>3, <1>10, <1>12, <3>1, PidFacts
        <3>2. CASE Cp' = Idle
            <4>1. ~ HasReady(qs[l], st)
                BY <1>10, <1>12, <3>2, PidFacts
            <4>2. l # "SYSTEM"
                BY <1>3, <4>1
            <4>3. l # "PERIODIC"
                <5>1. SUFFICES ASSUME l = "PERIODIC" PROVE HasReady(qs[l], st)
                    BY <4>1
                <5>2. \A p \in Belong(st, pds, "PERIODIC") : st[p] = "READY"
                    BY DEF Belong, NoneBlocked, Blocked, Calm, Filed, ProcessState
                <5>3. qs[l] # <<>>
                    BY <1>3, <5>1 DEF PeriodicDue
                <5>4. Head(qs[l]) \in Belong(st, pds, l)
                    BY <1>5, <5>3, TailLists
                <5>. QED  BY <1>5, <5>1, <5>2, <5>4, HasReadyMeans
            <4>. QED  BY <1>1, <1>3, <4>2, <4>3 DEF Level
        <3>. QED  BY <2>4, <3>1, <3>2
    <2>. QED  BY <1>9, <1>12, <2>1, <2>2, <2>3, <2>4
<1>. QED  BY <1>2, <1>11, <1>12

-----------------------------------------------------------------------------
(* The order of the PERIODIC queue.                                         *)

\* Every task is due, or starts no later than those behind it.
Ordered(q, pds, clock) ==
    \A i, j \in 1 .. Len(q) :
        i < j => pds[q[i]].tons <= clock \/ pds[q[i]].tons <= pds[q[j]].tons

\* No start time has wrapped, and of the tasks T only one that is due has begun
\* its period.
InStep(T, pds, clock) ==
    /\ \A p \in Pid : pds[p].clockState = "EVEN"
    /\ \A p \in T : pds[p].ticks_remaining < pds[p].wcet => pds[p].tons <= clock

\* The queue without its front task is in order.
LEMMA TailOrdered ==
    ASSUME NEW q \in Seq(Pid), q # <<>>, NEW pds, NEW clock, Ordered(q, pds, clock)
    PROVE  Ordered(Tail(q), pds, clock)
<1>1. /\ Tail(q) \in Seq(Pid) /\ Len(Tail(q)) = Len(q) - 1
      /\ \A i \in 1 .. Len(Tail(q)) : Tail(q)[i] = q[i + 1]
    BY HeadTailProperties
<1>2. Len(q) \in Nat /\ Len(Tail(q)) \in Nat
    BY <1>1, LenProperties
<1>3. ASSUME NEW i \in 1 .. Len(Tail(q)), NEW j \in 1 .. Len(Tail(q)), i < j
      PROVE  pds[Tail(q)[i]].tons <= clock \/ pds[Tail(q)[i]].tons <= pds[Tail(q)[j]].tons
    <2>1. i + 1 \in 1 .. Len(q) /\ j + 1 \in 1 .. Len(q) /\ i + 1 < j + 1
        BY <1>1, <1>2, <1>3
    <2>2. Tail(q)[i] = q[i + 1] /\ Tail(q)[j] = q[j + 1]
        BY <1>1
    <2>3. pds[q[i + 1]].tons <= clock \/ pds[q[i + 1]].tons <= pds[q[j + 1]].tons
        BY <2>1 DEF Ordered
    <2>. QED  BY <2>2, <2>3
<1>. QED  BY <1>3 DEF Ordered

\* insert keeps the order: the tasks its walk passes start no later than the new
\* one or are due, the one it stops at is neither.
LEMMA InsertOrdered ==
    ASSUME NEW q \in Seq(Pid), NEW x \in Pid, NEW pds \in [Pid -> Descriptor], NEW clock \in Tick,
           InStep(Range(q), pds, clock), Ordered(q, pds, clock)
    PROVE  Ordered(insert(q, x, pds, clock), pds, clock)
<1>. DEFINE k == InsertIndex(q, x, pds, clock)
            r == InsertAt(q, k, x)
            Before(a, b) == pds[a].tons <= clock \/ pds[a].tons <= pds[b].tons
<1>1. /\ k \in 1 .. Len(q) + 1
      /\ k <= Len(q) => ~ InsertPasses(x, q[k], pds, clock)
      /\ \A j \in 1 .. k - 1 : InsertPasses(x, q[j], pds, clock)
    BY InsertStops
<1>2. insert(q, x, pds, clock) = r
    BY DEF insert
<1>. HIDE DEF k
<1>3. /\ Len(r) = Len(q) + 1
      /\ \A n \in 1 .. Len(q) + 1 :
            r[n] = IF n < k THEN q[n] ELSE IF n = k THEN x ELSE q[n - 1]
    BY <1>1, InsertAtElements
<1>. HIDE DEF r
<1>4. Len(q) \in Nat /\ DOMAIN q = 1 .. Len(q) /\ \A i \in 1 .. Len(q) : q[i] \in Pid
    BY LenProperties, ElementOfSeq
<1>5. clock \in Int /\ \A p \in Pid : pds[p].tons \in Int
    BY TickAssumption DEF Descriptor, Tick
<1>6. \A i, j \in 1 .. Len(q) : i < j => Before(q[i], q[j])
    BY DEF Ordered
<1>7. ASSUME NEW i \in 1 .. Len(q), i < k
      PROVE  Before(q[i], x)
    <2>1. InsertPasses(x, q[i], pds, clock)
        BY <1>1, <1>4, <1>7
    <2>2. pds[q[i]].ticks_remaining < pds[q[i]].wcet => pds[q[i]].tons <= clock
        BY <1>4 DEF InStep, Range
    <2>3. pds[x].clockState = "EVEN" /\ pds[q[i]].clockState = "EVEN" /\ q[i] \in Pid
        BY <1>4 DEF InStep
    <2>. QED  BY <1>5, <2>1, <2>2, <2>3 DEF InsertPasses, later
<1>8. ASSUME NEW j \in 1 .. Len(q), k <= j
      PROVE  Before(x, q[j])
    <2>1. k \in 1 .. Len(q) /\ ~ InsertPasses(x, q[k], pds, clock)
        BY <1>1, <1>4, <1>8
    <2>2. pds[x].clockState = "EVEN" /\ pds[q[k]].clockState = "EVEN" /\ q[k] \in Pid /\ q[j] \in Pid
        BY <1>4, <2>1 DEF InStep
    <2>3. pds[x].tons <= pds[q[k]].tons /\ ~ (pds[q[k]].tons <= clock)
        BY <1>5, <2>1, <2>2 DEF InsertPasses, later
    <2>4. CASE j = k
        BY <2>3, <2>4
    <2>5. CASE k < j
        BY <1>5, <1>6, <2>1, <2>2, <2>3, <2>5
    <2>. QED  BY <1>4, <1>8, <2>1, <2>4, <2>5
<1>9. ASSUME NEW i \in 1 .. Len(q) + 1, NEW j \in 1 .. Len(q) + 1, i < j
      PROVE  Before(r[i], r[j])
    <2>1. k \in Int /\ i \in Int /\ j \in Int
        BY <1>1, <1>4
    <2>. HIDE DEF Before
    <2>2. CASE j < k
        <3>1. r[i] = q[i] /\ r[j] = q[j] /\ i \in 1 .. Len(q) /\ j \in 1 .. Len(q)
            BY <1>1, <1>3, <1>4, <1>9, <2>1, <2>2
        <3>. QED  BY <1>6, <1>9, <3>1
    <2>3. CASE j = k
        <3>1. r[i] = q[i] /\ r[j] = x /\ i \in 1 .. Len(q) /\ i < k
            BY <1>1, <1>3, <1>4, <1>9, <2>1, <2>3
        <3>. QED  BY <1>7, <3>1
    <2>4. CASE i = k
        <3>1. r[i] = x /\ r[j] = q[j - 1] /\ j - 1 \in 1 .. Len(q) /\ k <= j - 1
            BY <1>1, <1>3, <1>4, <1>9, <2>1, <2>4
        <3>. QED  BY <1>8, <3>1
    <2>5. CASE i < k /\ k < j
        <3>1. r[i] = q[i] /\ r[j] = q[j - 1] /\ i \in 1 .. Len(q) /\ j - 1 \in 1 .. Len(q) /\ i < j - 1
            BY <1>1, <1>3, <1>4, <1>9, <2>1, <2>5
        <3>. QED  BY <1>6, <3>1
    <2>6. CASE k < i
        <3>1. r[i] = q[i - 1] /\ r[j] = q[j - 1] /\ i - 1 \in 1 .. Len(q) /\ j - 1 \in 1 .. Len(q) /\ i - 1 < j - 1
            BY <1>1, <1>3, <1>4, <1>9, <2>1, <2>6
        <3>. QED  BY <1>6, <3>1
    <2>. QED  BY <1>9, <2>1, <2>2, <2>3, <2>4, <2>5, <2>6
<1>. QED  BY <1>2, <1>3, <1>9 DEF Ordered

-----------------------------------------------------------------------------
(* What the choice of a handler leaves of the PERIODIC tasks.               *)

\* A handler chooses among the tasks in st, with the descriptors pds, filed in qs.
Chooses(st, pds, qs) ==
    /\ Filed(st, pds, qs) /\ Calm(st) /\ NoneBlocked(st, pds)
    /\ Choose(st, pds, qs, sys_clock', clock_state')
    /\ pd' = pds

LEMMA DispatchesChoose ==
    ASSUME NEW st, NEW pds, NEW qs, Dispatches(st, pds, qs)
    PROVE  Chooses(st, pds, Requeue(qs, pds, sys_clock'))
BY RequeueFiled DEF Dispatches, Dispatch, Chooses

LEMMA StartChooses ==
    ASSUME CallsInv, Kernel_Start
    PROVE  Chooses(state, pd, queue) /\ UNCHANGED clockVars
<1>1. Calm(state) /\ Filed(state, pd, queue) /\ NoneBlocked(state, pd)
    BY PidFacts, PeriodicNotBlockedMeans
       DEF Kernel_Start, CallsInv, PartnerInv, IInv, SchedInv, OnlyCpRuns, Calm, Filed
<1>. QED  BY <1>1 DEF Kernel_Start, Chooses, clockVars

\* A live PERIODIC task, of those in st with the descriptors pds.
Periodic(st, pds, p) == st[p] # "DEAD" /\ pds[p].priority = "PERIODIC"

LEMMA ChoosesPeriodic ==
    ASSUME CallsInv, CallsInv', NEW st, NEW pds, NEW qs, Chooses(st, pds, qs)
    PROVE  /\ pd' = pds /\ queue'["PERIODIC"] = qs["PERIODIC"]
           /\ \A p \in Pid : Periodic(state', pds, p) <=> Periodic(st, pds, p)
           /\ \A p \in Pid : state'[p] = "RUNNING" /\ pds[p].priority = "PERIODIC" =>
                /\ pds[p].tons <= sys_clock' /\ pds[p].clockState = clock_state'
                /\ pds[p].ticks_remaining = pds[p].wcet => sys_clock' = pds[p].tons
           /\ abort' = "NONE" => (Cp' \in Pid => state'[Cp'] = "RUNNING")
           /\ abort' = "NONE" /\ (Cp' = Idle \/ (Cp' \in Pid /\ pds[Cp'].priority = "RR")) =>
                ~ PeriodicDue(qs, pds, sys_clock', clock_state')
<1>1. sys_clock' \in Tick
    BY DEF CallsInv, IInv, CallInv
<1>2. /\ Filed(st, pds, qs) /\ Calm(st) /\ NoneBlocked(st, pds) /\ pd' = pds
      /\ Choose(st, pds, qs, sys_clock', clock_state')
    BY DEF Chooses
<1>3. \A p \in Pid : state'[p] = st[p] \/ (st[p] = "READY" /\ state'[p] = "RUNNING")
    BY <1>2, ChooseFiled
<1>. HIDE DEF Chooses
<1>4. /\ queue'["PERIODIC"] = qs["PERIODIC"]
      /\ \A p \in Pid : state'[p] = "RUNNING" /\ pds[p].priority = "PERIODIC" =>
            /\ pds[p].tons <= sys_clock' /\ pds[p].clockState = clock_state'
            /\ pds[p].ticks_remaining = pds[p].wcet => sys_clock' = pds[p].tons
      /\ abort' = "NONE" => (Cp' \in Pid => state'[Cp'] = "RUNNING")
      /\ abort' = "NONE" /\ (Cp' = Idle \/ (Cp' \in Pid /\ pds[Cp'].priority = "RR")) =>
            ~ PeriodicDue(qs, pds, sys_clock', clock_state')
    BY <1>1, <1>2, ChoosePeriodic
<1>. QED  BY <1>2, <1>3, <1>4 DEF Periodic

-----------------------------------------------------------------------------
(* First come, first served.                                                *)

LEMMA AheadAppended ==
    ASSUME NEW T, NEW q \in Seq(T), NEW x \in T, NEW p, NEW other, AheadIn(q, p, other)
    PROVE  AheadIn(Append(q, x), p, other)
<1>1. /\ Len(q) \in Nat /\ Len(Append(q, x)) = Len(q) + 1
      /\ \A i \in 1 .. Len(q) : Append(q, x)[i] = q[i]
    BY AppendProperties, LenProperties
<1>. QED  BY <1>1 DEF AheadIn

LEMMA AheadBehindHead ==
    ASSUME NEW T, NEW q \in Seq(T), NEW p, NEW other, AheadIn(q, p, other), q[1] # p
    PROVE  AheadIn(Tail(q), p, other) /\ q # <<>>
<1>1. PICK i \in 1 .. Len(q), j \in 1 .. Len(q) : i < j /\ q[i] = p /\ q[j] = other
    BY DEF AheadIn
<1>2. Len(q) \in Nat /\ q # <<>>
    BY <1>1, LenProperties
<1>3. /\ Len(Tail(q)) = Len(q) - 1
      /\ \A k \in 1 .. Len(q) - 1 : Tail(q)[k] = q[k + 1]
    BY <1>2, HeadTailProperties
<1>4. /\ i - 1 \in 1 .. Len(Tail(q)) /\ j - 1 \in 1 .. Len(Tail(q)) /\ i - 1 < j - 1
      /\ Tail(q)[i - 1] = p /\ Tail(q)[j - 1] = other
    BY <1>1, <1>2, <1>3
<1>. QED  BY <1>2, <1>4 DEF AheadIn

\* The move of the front task to the end.
LEMMA AheadMoved ==
    ASSUME NEW T, NEW q \in Seq(T), NEW p, NEW other, AheadIn(q, p, other), q[1] # p
    PROVE  AheadIn(ToEnd(q), p, other)
<1>1. AheadIn(Tail(q), p, other) /\ q # <<>>
    BY AheadBehindHead
<1>2. Tail(q) \in Seq(T) /\ Head(q) \in T
    BY <1>1, HeadTailProperties
<1>. QED  BY <1>1, <1>2, AheadAppended DEF ToEnd

\* The turn to the first READY task: what is behind a READY task stays there.
LEMMA AheadTurned ==
    ASSUME NEW T, NEW q \in Seq(T), NEW states, NEW p, NEW other,
           AheadIn(q, p, other), states[p] = "READY"
    PROVE  AheadIn(Queue_Rotate_Ready(q, states), p, other)
<1>. DEFINE k == FirstReady(q, states)
            s == SubSeq(q, 1, k - 1)
            t == SubSeq(q, k, Len(q))
<1>1. PICK i \in 1 .. Len(q), j \in 1 .. Len(q) : i < j /\ q[i] = p /\ q[j] = other
    BY DEF AheadIn
<1>2. HasReady(q, states)
    BY <1>1 DEF HasReady
<1>3. k \in 1 .. Len(q) /\ Len(q) \in Nat
    BY <1>2, FirstReadyIsReady, LenProperties
<1>4. k <= i
    <2>. DEFINE R == {n \in 1 .. Len(q) : states[q[n]] = "READY"}
    <2>1. PICK n \in R : \A m \in 1 .. n - 1 : m \notin R
        <3>1. i \in R /\ R \subseteq 1 .. Len(q)
            BY <1>1
        <3>. HIDE DEF R
        <3>. QED  BY <1>3, <3>1, FirstIndex
    <2>2. \A m \in 1 .. n - 1 : states[q[m]] # "READY"
        BY <1>3, <2>1
    <2>3. /\ k \in 1 .. Len(q)
          /\ \A m \in 1 .. k - 1 : states[q[m]] # "READY"
        BY <2>1, <2>2 DEF FirstReady
    <2>. HIDE DEF k
    <2>. QED  BY <1>1, <1>3, <2>3
<1>5. Queue_Rotate_Ready(q, states) = t \o s
    BY <1>2 DEF Queue_Rotate_Ready
<1>. HIDE DEF k
<1>6. /\ t \in Seq(T) /\ Len(t) = Len(q) - k + 1
      /\ \A n \in 1 .. Len(t) : t[n] = q[k + n - 1]
    BY <1>3
<1>7. s \in Seq(T)
    BY <1>3
<1>. HIDE DEF s, t
<1>8. /\ Len(t \o s) = Len(t) + Len(s) /\ Len(s) \in Nat
      /\ \A n \in 1 .. Len(t) : (t \o s)[n] = t[n]
    <2>1. t \in Seq(T) /\ s \in Seq(T)
        BY <1>6, <1>7
    <2>2. Len(s) \in Nat /\ Len(t) \in Nat
        BY <2>1, LenProperties
    <2>3. /\ Len(t \o s) = Len(t) + Len(s)
          /\ \A n \in 1 .. Len(t) + Len(s) :
                (t \o s)[n] = IF n <= Len(t) THEN t[n] ELSE s[n - Len(t)]
        BY <2>1, ConcatProperties
    <2>. QED  BY <2>2, <2>3
<1>. DEFINE a == i - k + 1
            b == j - k + 1
<1>9. a \in 1 .. Len(t) /\ b \in 1 .. Len(t) /\ a < b /\ k + a - 1 = i /\ k + b - 1 = j
    BY <1>1, <1>3, <1>4, <1>6
<1>. HIDE DEF a, b
<1>10. /\ a \in 1 .. Len(t \o s) /\ b \in 1 .. Len(t \o s)
       /\ (t \o s)[a] = p /\ (t \o s)[b] = other
    <2>1. Len(t) \in Nat
        BY <1>3, <1>6
    <2>2. a \in 1 .. Len(t \o s) /\ b \in 1 .. Len(t \o s)
        BY <1>8, <1>9, <2>1
    <2>3. (t \o s)[a] = t[a] /\ (t \o s)[b] = t[b]
        BY <1>8, <1>9
    <2>4. t[a] = q[k + a - 1] /\ t[b] = q[k + b - 1]
        BY <1>6, <1>9
    <2>. QED  BY <1>1, <1>9, <2>2, <2>3, <2>4
<1>. QED  BY <1>5, <1>9, <1>10 DEF AheadIn

\* The order of the tasks behind p, in the queue of p's level, survives the
\* choice of a handler.
LEMMA ChoiceKeepsOrder ==
    ASSUME NEW st, NEW pds, NEW qs, NEW clock, NEW overflow,
           Filed(st, pds, qs), Calm(st), Choose(st, pds, qs, clock, overflow),
           NEW l \in Level, NEW p \in Pid, NEW other, state'[p] = "READY",
           AheadIn(qs[l], p, other)
    PROVE  AheadIn(queue'[l], p, other)
<1>. DEFINE c == ChosenLevel(st, pds, qs, clock, overflow)
<1>1. st[p] = "READY"
    BY ChooseFiled
<1>2. queue' = [qs EXCEPT ![c] = Queue_Rotate_Ready(qs[c], st)]
    BY DEF Choose
<1>. HIDE DEF c
<1>3. qs \in [Level -> Seq(Pid)]
    BY DEF Filed
<1>4. CASE c = l
    <2>1. AheadIn(Queue_Rotate_Ready(qs[l], st), p, other)
        BY <1>1, <1>3, AheadTurned
    <2>. QED  BY <1>2, <1>3, <1>4, <2>1
<1>5. CASE c # l
    BY <1>2, <1>3, <1>5
<1>. QED  BY <1>4, <1>5

\* It survives a handler if p is not at the front of the queue that is rotated.
LEMMA DispatchKeepsOrder ==
    ASSUME NEW st, NEW pds, NEW qs, Dispatches(st, pds, qs),
           NEW l \in Level \ {"PERIODIC"}, NEW p \in Pid, NEW other, state'[p] = "READY",
           AheadIn(qs[l], p, other),
           Cp \in Pid /\ pds[Cp].priority = l => qs[l][1] # p
    PROVE  AheadIn(queue'[l], p, other)
<1>. DEFINE moved == Requeue(qs, pds, sys_clock')
<1>1. Chooses(st, pds, moved)
    BY DispatchesChoose
<1>2. qs \in [Level -> Seq(Pid)] /\ Cp \in Pid \union {Idle}
    BY DEF Dispatches, Filed
<1>3. AheadIn(moved[l], p, other)
    <2>1. CASE Cp \in Pid /\ pds[Cp].priority = l /\ ~ (Len(qs[l]) <= 1)
        <3>1. Cp # Idle
            BY <2>1 DEF Pid, Idle
        <3>2. moved = [qs EXCEPT ![l] = ToEnd(qs[l])]
            BY <2>1, <3>1 DEF Requeue
        <3>3. AheadIn(ToEnd(qs[l]), p, other)
            BY <1>2, <2>1, AheadMoved
        <3>. QED  BY <1>2, <3>2, <3>3
    <2>2. CASE ~ (Cp \in Pid /\ pds[Cp].priority = l /\ ~ (Len(qs[l]) <= 1))
        <3>1. moved[l] = qs[l]
            BY <1>2, <2>2 DEF Requeue
        <3>. QED  BY <3>1
    <2>. QED  BY <2>1, <2>2
<1>. HIDE DEF moved
<1>. QED  BY <1>1, <1>3, ChoiceKeepsOrder DEF Chooses

\* Of p, which waits before and after a step, in the queue of level l.
Overtaken(l, p) ==
    \E other \in Pid : AheadIn(queue[l], p, other) /\ ~ AheadIn(queue'[l], p, other)

LEMMA OrderStaysInStep ==
    ASSUME CallsInv, [Next]_vars, NEW l \in Level \ {"PERIODIC"}, NEW p \in Pid,
           pd[p].priority = l, Waits(p), Waits(p)',
           ~ (Tasks' < Tasks /\ NextInLine(p))
    PROVE  ~ Overtaken(l, p)
<1>. SUFFICES ASSUME NEW other \in Pid, AheadIn(queue[l], p, other)
              PROVE  AheadIn(queue'[l], p, other)
    BY DEF Overtaken
<1>1. /\ queue \in [Level -> Seq(Pid)] /\ pd \in [Pid -> Descriptor] /\ l \in Level
      /\ state[p] = "READY" /\ state'[p] = "READY" /\ p # Cp
    BY DEF CallsInv, IInv, SchedInv, Filed, Waits
<1>2. Cp \in Pid /\ abort = "NONE" =>
            queue[pd[Cp].priority] # <<>> /\ queue[pd[Cp].priority][1] = Cp
    <2>1. Cp \in Pid /\ abort = "NONE" =>
            queue[pd[Cp].priority] # <<>> /\ Head(queue[pd[Cp].priority]) = Cp
        BY DEF CallsInv, IInv, SchedInv, RunningAtFront
    <2>. QED  BY <2>1
<1>3. ASSUME NEW st, NEW pds, Dispatches(st, pds, queue),
             \A o \in Pid : pds[o].priority = pd[o].priority
      PROVE  AheadIn(queue'[l], p, other)
    <2>1. abort = "NONE" /\ Cp \in Pid \union {Idle}
        BY <1>3 DEF Dispatches
    <2>2. Cp \in Pid /\ pds[Cp].priority = l => queue[l][1] # p
        BY <1>1, <1>2, <1>3, <2>1
    <2>. QED  BY <1>1, <1>3, <2>2, DispatchKeepsOrder
<1>4. CASE Stays
    BY <1>4 DEF Stays
<1>5. CASE Kernel_Start
    BY <1>1, <1>5, StartChooses, ChoiceKeepsOrder DEF Chooses
<1>6. CASE Plain
    BY <1>3, <1>6 DEF Plain
<1>7. CASE Kernel_Request_Next
    BY <1>3, <1>7, NextDispatches, NextLevels DEF CallsInv
<1>8. CASE Kernel_Request_Timer /\ ~ Overrun
    <2>1. Cp \in Pid \union {Idle}
        BY <1>8, TimerDispatches DEF Dispatches
    <2>2. \A o \in Pid : Ticked[o].priority = pd[o].priority
        BY <2>1, TickedLevels DEF CallsInv
    <2>. QED  BY <1>3, <1>8, <2>2, TimerDispatches
<1>9. ASSUME NEW r \in CreateRequests, Requesting, ~ TooManyTasks, CreateTask(r)
      PROVE  AheadIn(queue'[l], p, other)
    <2>1. /\ Dispatches(StatesWith, PdsWith(r), QueuesWith(r))
          /\ Cp \in Pid /\ FreePid \in Pid /\ FreePid # Cp /\ r.priority \in Level
          /\ \A o \in Pid : PdsWith(r)[o] = IF o = FreePid THEN NewPd(r) ELSE pd[o]
        BY <1>9, CreateDispatches
    <2>2. queue[l] \in Seq(Pid) /\ queue[l] # <<>>
        BY <1>1 DEF AheadIn
    <2>3. CASE r.priority = l
        <3>1. QueuesWith(r)[l] = Append(queue[l], FreePid)
            BY <1>1, <2>3 DEF QueuesWith, QueueWith, enqueue
        <3>2. AheadIn(QueuesWith(r)[l], p, other)
            BY <2>1, <2>2, <3>1, AheadAppended
        <3>3. QueuesWith(r)[l][1] = queue[l][1]
            BY <2>1, <2>2, <3>1
        <3>4. Cp \in Pid /\ PdsWith(r)[Cp].priority = l => QueuesWith(r)[l][1] # p
            BY <1>1, <1>2, <1>9, <2>1, <3>3 DEF Requesting
        <3>. QED  BY <1>1, <2>1, <3>2, <3>4, DispatchKeepsOrder
    <2>4. CASE r.priority # l
        <3>1. QueuesWith(r)[l] = queue[l]
            BY <1>1, <2>1, <2>4 DEF QueuesWith
        <3>2. Cp \in Pid /\ PdsWith(r)[Cp].priority = l => QueuesWith(r)[l][1] # p
            BY <1>1, <1>2, <1>9, <2>1, <3>1 DEF Requesting
        <3>3. /\ Dispatches(StatesWith, PdsWith(r), QueuesWith(r))
              /\ AheadIn(QueuesWith(r)[l], p, other) /\ state'[p] = "READY"
            BY <1>1, <2>1, <3>1
        <3>. QED  BY <3>2, <3>3, DispatchKeepsOrder
    <2>. QED  BY <2>3, <2>4
<1>10. CASE Kernel_Request_Terminate
    <2>1. Dispatches(StatesWithout, pd, QueuesWithout) /\ Cp \in Pid /\ abort = "NONE"
        BY <1>10, TerminateDispatches DEF Dispatches
    <2>. DEFINE m == pd[Cp].priority
                q == queue[m]
    <2>2. m \in Level /\ QueuesWithout = [queue EXCEPT ![m] = Tail(q)]
        BY <1>1, <2>1 DEF QueuesWithout, Descriptor
    <2>3. q \in Seq(Pid) /\ q # <<>> /\ q[1] = Cp
        BY <1>1, <1>2, <2>1, <2>2
    <2>4. Tasks' < Tasks
        <3>1. Tasks' = Tasks - 1
            BY <1>10, <2>1, <2>3 DEF Kernel_Request_Terminate, Abort
        <3>2. Tasks \in Int
            BY DEF CallsInv, IInv, CallInv, SchedInv
        <3>. QED  BY <3>1, <3>2
    <2>5. Len(q) > 1 => q[2] # p
        BY <2>4 DEF NextInLine
    <2>. HIDE DEF m, q
    <2>6. CASE m = l
        <3>1. q = queue[l] /\ QueuesWithout[l] = Tail(q)
            BY <1>1, <2>2, <2>6 DEF q
        <3>2. AheadIn(Tail(q), p, other)
            BY <1>1, <2>3, <3>1, AheadBehindHead
        <3>3. Tail(q)[1] # p
            <4>1. 1 \in 1 .. Len(Tail(q)) /\ Len(Tail(q)) = Len(q) - 1 /\ Len(q) \in Nat
                BY <2>3, <3>2 DEF AheadIn
            <4>2. Tail(q)[1] = q[2]
                BY <2>3, <4>1
            <4>. QED  BY <2>5, <4>1, <4>2
        <3>4. /\ Dispatches(StatesWithout, pd, QueuesWithout) /\ state'[p] = "READY"
              /\ AheadIn(QueuesWithout[l], p, other) /\ QueuesWithout[l][1] # p
            BY <1>1, <2>1, <3>1, <3>2, <3>3
        <3>. QED  BY <3>4, DispatchKeepsOrder
    <2>7. CASE m # l
        <3>1. QueuesWithout[l] = queue[l]
            BY <1>1, <2>2, <2>7
        <3>2. ~ (Cp \in Pid /\ pd[Cp].priority = l)
            BY <2>7 DEF m
        <3>3. /\ Dispatches(StatesWithout, pd, QueuesWithout) /\ state'[p] = "READY"
              /\ AheadIn(QueuesWithout[l], p, other)
            BY <1>1, <2>1, <3>1
        <3>. QED  BY <3>2, <3>3, DispatchKeepsOrder
    <2>. QED  BY <2>6, <2>7
<1>. QED  BY <1>4, <1>5, <1>6, <1>7, <1>8, <1>9, <1>10, StepForms

\* No task that waits for the processor is overtaken in its queue, for every
\* number of tasks, sequence of calls and tick (Queue_Rotate_Ready and the first
\* half of Dispatch).
THEOREM NoneOvertaken == Spec => FirstComeFirstServed
<1>1. ASSUME CallsInv, [Next]_vars, NEW p \in Pid, pd[p].priority # "PERIODIC",
             Waits(p), Waits(p)', ~ (Tasks' < Tasks /\ NextInLine(p)), NEW other \in Pid,
             AheadIn(queue[pd[p].priority], p, other)
      PROVE  AheadIn(queue'[pd[p].priority], p, other)
    <2>1. pd[p].priority \in Level \ {"PERIODIC"}
        BY <1>1 DEF CallsInv, IInv, SchedInv, Filed, Descriptor
    <2>. QED  BY <1>1, <2>1, OrderStaysInStep DEF Overtaken
<1>2. CallsInv /\ [Next]_vars =>
        [\A p \in Pid :
            /\ pd[p].priority # "PERIODIC"
            /\ Waits(p) /\ Waits(p)'
            /\ ~ (Tasks' < Tasks /\ NextInLine(p))
            => \A other \in Pid :
                    AheadIn(queue[pd[p].priority], p, other) =>
                        AheadIn(queue'[pd[p].priority], p, other)]_vars
    BY <1>1
<1>. QED  BY <1>2, CallsInvariant, PTL DEF Spec, FirstComeFirstServed

-----------------------------------------------------------------------------
(* The begin of a period.                                                   *)

\* The history of the PERIODIC tasks in terms of the kernel's fields: a task
\* that has not begun its period has all of its ticks left, the current one has
\* begun it.
BeginInv ==
    /\ started \subseteq {p \in Pid : Periodic(state, pd, p)}
    /\ \A p \in Pid : Periodic(state, pd, p) /\ p \notin started =>
            pd[p].ticks_remaining = pd[p].wcet
    /\ Cp \in Pid /\ pd[Cp].priority = "PERIODIC" /\ (abort = "NONE" \/ state[Cp] = "RUNNING") =>
            Cp \in started

\* Every task the step gives the processor to had begun its period, or begins
\* it at its start time.
OnTime == \A p \in started' \ (started \ Ended) : sys_clock' = pd'[p].tons

\* kept are the tasks that remain begun: the others have all of their ticks.
LEMMA ChoosesOnTime ==
    ASSUME CallsInv, CallsInv', NEW st, NEW pds, NEW qs, Chooses(st, pds, qs),
           started \ Ended \subseteq {p \in Pid : Periodic(st, pds, p)},
           \A p \in Pid : Periodic(st, pds, p) /\ p \notin started \ Ended =>
                pds[p].ticks_remaining = pds[p].wcet,
           started' = (started \ Ended) \union Given
    PROVE  BeginInv' /\ OnTime
<1>. DEFINE kept == started \ Ended
<1>1. /\ pd' = pds
      /\ \A p \in Pid : Periodic(state', pds, p) <=> Periodic(st, pds, p)
      /\ \A p \in Pid : state'[p] = "RUNNING" /\ pds[p].priority = "PERIODIC" =>
            (pds[p].ticks_remaining = pds[p].wcet => sys_clock' = pds[p].tons)
      /\ abort' = "NONE" => (Cp' \in Pid => state'[Cp'] = "RUNNING")
    BY ChoosesPeriodic
<1>2. /\ kept \subseteq {p \in Pid : Periodic(st, pds, p)}
      /\ \A p \in Pid : Periodic(st, pds, p) /\ p \notin kept => pds[p].ticks_remaining = pds[p].wcet
      /\ started' = kept \union Given
    OBVIOUS
<1>. HIDE DEF kept
<1>3. \A p : p \in Given <=> p \in Pid /\ pds[p].priority = "PERIODIC" /\ state'[p] = "RUNNING"
    BY <1>1 DEF Given
<1>4. \A p \in Given : p \in Pid /\ Periodic(state', pds, p)
    BY <1>3 DEF Periodic
<1>5. BeginInv'
    <2>1. started' \subseteq {p \in Pid : Periodic(state', pd', p)}
        BY <1>1, <1>2, <1>4
    <2>2. \A p \in Pid : Periodic(state', pd', p) /\ p \notin started' =>
                pd'[p].ticks_remaining = pd'[p].wcet
        BY <1>1, <1>2
    <2>3. Cp' \in Pid /\ pd'[Cp'].priority = "PERIODIC" /\ (abort' = "NONE" \/ state'[Cp'] = "RUNNING") =>
                Cp' \in started'
        BY <1>1, <1>2, <1>3
    <2>. QED  BY <2>1, <2>2, <2>3 DEF BeginInv, Periodic
<1>6. OnTime
    <2>1. SUFFICES ASSUME NEW p \in started' \ kept PROVE sys_clock' = pd'[p].tons
        BY DEF OnTime, kept
    <2>2. p \in Given
        BY <1>2, <2>1
    <2>. QED  BY <1>1, <1>2, <1>3, <1>4, <2>1, <2>2
<1>. QED  BY <1>5, <1>6

\* What the steps do to the fields BeginInv is about.
LEMMA NextPeriodic ==
    ASSUME CallsInv, Kernel_Request_Next
    PROVE  /\ \A p \in Pid : p # Cp => pd'[p] = pd[p]
           /\ pd[Cp].priority = "PERIODIC" => pd'[Cp] = NextPeriod(pd[Cp])
           /\ pd[Cp].priority # "PERIODIC" => pd'[Cp].clockState = pd[Cp].clockState
<1>1. pd \in [Pid -> Descriptor] /\ Cp \in Pid
    BY DEF CallsInv, IInv, SchedInv, Filed, Kernel_Request_Next, Requesting
<1>2. pd' = [pd EXCEPT ![Cp] =
                CASE @.priority = "SYSTEM" -> @
                  [] @.priority = "RR" -> [@ EXCEPT !.ticks_remaining = 1]
                  [] @.priority = "PERIODIC" -> NextPeriod(@)]
    BY DEF Kernel_Request_Next
<1>3. pd'[Cp] = CASE pd[Cp].priority = "SYSTEM" -> pd[Cp]
                  [] pd[Cp].priority = "RR" -> [pd[Cp] EXCEPT !.ticks_remaining = 1]
                  [] pd[Cp].priority = "PERIODIC" -> NextPeriod(pd[Cp])
    BY <1>1, <1>2
<1>4. pd[Cp] \in Descriptor
    BY <1>1
<1>. QED  BY <1>1, <1>2, <1>3, <1>4 DEF Descriptor, Level

LEMMA TickedPeriodic ==
    ASSUME CallsInv, Cp \in Pid \union {Idle}
    PROVE  /\ \A p \in Pid : p # Cp => Ticked[p] = pd[p]
           /\ \A p \in Pid : /\ Ticked[p].tons = pd[p].tons /\ Ticked[p].wcet = pd[p].wcet
                            /\ Ticked[p].period = pd[p].period
                            /\ Ticked[p].clockState = pd[p].clockState
           /\ Cp \in Pid /\ pd[Cp].priority = "PERIODIC" => Ticked[Cp].ticks_remaining = TicksLeft(Cp)
<1>1. pd \in [Pid -> Descriptor]
    BY DEF CallsInv, IInv, SchedInv, Filed
<1>2. CASE Cp = Idle \/ pd[Cp].priority = "SYSTEM"
    BY <1>1, <1>2, PidFacts DEF Ticked
<1>3. CASE ~ (Cp = Idle \/ pd[Cp].priority = "SYSTEM")
    <2>. DEFINE t == IF pd[Cp].priority = "RR" /\ TicksLeft(Cp) = 0 THEN 1 ELSE TicksLeft(Cp)
    <2>1. Cp \in Pid /\ pd[Cp] \in Descriptor
        BY <1>1, <1>3
    <2>2. Ticked = [pd EXCEPT ![Cp].ticks_remaining = t]
        BY <1>3 DEF Ticked
    <2>3. pd[Cp].priority = "PERIODIC" => t = TicksLeft(Cp)
        OBVIOUS
    <2>. HIDE DEF t
    <2>. QED  BY <1>1, <2>1, <2>2, <2>3 DEF Descriptor
<1>. QED  BY <1>2, <1>3

LEMMA BeginStep ==
    ASSUME CallsInv, CallsInv', BeginInv, [HistoryNext]_historyVars
    PROVE  BeginInv' /\ (OnTime \/ UNCHANGED historyVars)
<1>1. [Next]_vars
    BY DEF HistoryNext, historyVars
<1>2. Cp \in Pid => (Kernel_Request_Next \/ Kernel_Request_Terminate => Ended = {Cp})
    BY DEF Ended
<1>3. /\ ~ (Kernel_Request_Next \/ Kernel_Request_Terminate) => Ended = {}
      /\ OnlyCpRuns
    BY DEF Ended, CallsInv, IInv, SchedInv
<1>4. CASE UNCHANGED historyVars
    BY <1>4 DEF historyVars, vars, taskVars, BeginInv, Periodic
<1>5. CASE HistoryNext
    <2>1. started' = (started \ Ended) \union Given
        BY <1>5 DEF HistoryNext
    <2>2. CASE Kernel_Request_Next
        <3>1. /\ Dispatches(Entered, pd', queue)
              /\ Cp \in Pid /\ Ended = {Cp}
              /\ \A p \in Pid : Entered[p] = IF p = Cp THEN "READY" ELSE state[p]
              /\ \A p \in Pid : p # Cp => pd'[p] = pd[p]
              /\ \A p \in Pid : pd'[p].priority = pd[p].priority
              /\ pd[Cp].priority = "PERIODIC" => pd'[Cp] = NextPeriod(pd[Cp])
            BY <1>2, <2>2, NextDispatches, NextPeriodic, NextLevels, EnteredFiled
               DEF Kernel_Request_Next, Requesting, CallsInv
        <3>2. pd[Cp] \in Descriptor
            BY <3>1 DEF CallsInv, IInv, SchedInv, Filed
        <3>3. pd[Cp].priority = "PERIODIC" => pd'[Cp].ticks_remaining = pd'[Cp].wcet
            BY <3>1, <3>2 DEF NextPeriod, Descriptor
        <3>4. Chooses(Entered, pd', Requeue(queue, pd', sys_clock'))
            BY <3>1, DispatchesChoose
        <3>5. /\ started \ Ended \subseteq {p \in Pid : Periodic(Entered, pd', p)}
              /\ \A p \in Pid : Periodic(Entered, pd', p) /\ p \notin started \ Ended =>
                    pd'[p].ticks_remaining = pd'[p].wcet
            BY <3>1, <3>3 DEF BeginInv, Periodic
        <3>. QED  BY <2>1, <3>4, <3>5, ChoosesOnTime
    <2>3. CASE Kernel_Request_Terminate
        <3>1. /\ Dispatches(StatesWithout, pd, QueuesWithout)
              /\ Cp \in Pid /\ Ended = {Cp}
              /\ \A p \in Pid \union {Idle} : StatesWithout[p] = IF p = Cp THEN "DEAD" ELSE state[p]
            BY <1>2, <2>3, TerminateDispatches
        <3>2. Chooses(StatesWithout, pd, Requeue(QueuesWithout, pd, sys_clock'))
            BY <3>1, DispatchesChoose
        <3>3. /\ started \ Ended \subseteq {p \in Pid : Periodic(StatesWithout, pd, p)}
              /\ \A p \in Pid : Periodic(StatesWithout, pd, p) /\ p \notin started \ Ended =>
                    pd[p].ticks_remaining = pd[p].wcet
            BY <3>1 DEF BeginInv, Periodic
        <3>. QED  BY <2>1, <3>2, <3>3, ChoosesOnTime
    <2>4. ASSUME ~ Kernel_Request_Next, ~ Kernel_Request_Terminate,
                 NEW st, NEW pds, NEW qs, Chooses(st, pds, qs),
                 started \subseteq {p \in Pid : Periodic(st, pds, p)},
                 \A p \in Pid : Periodic(st, pds, p) /\ p \notin started =>
                    pds[p].ticks_remaining = pds[p].wcet
          PROVE  BeginInv' /\ OnTime
        <3>1. started \ Ended = started
            BY <1>3, <2>4
        <3>. QED  BY <2>1, <2>4, <3>1, ChoosesOnTime
    <2>5. CASE Stays /\ ~ (Kernel_Request_Next \/ Kernel_Request_Terminate)
        <3>1. /\ Cp' = Cp /\ pd' = pd
              /\ \/ state' = state /\ (abort' = abort \/ abort' # "NONE")
                 \/ Requesting /\ state' = Entered /\ abort' = abort
            BY <2>5 DEF Stays
        <3>2. /\ \A p \in Pid : state'[p] = "DEAD" <=> state[p] = "DEAD"
              /\ \A p \in Pid : state'[p] = "RUNNING" => state[p] = "RUNNING"
              /\ abort' = "NONE" => abort = "NONE"
            BY <3>1, EnteredFiled DEF CallsInv, Requesting
        <3>3. \A p \in Pid : state[p] = "RUNNING" => p = Cp
            BY <1>3 DEF OnlyCpRuns
        <3>4. Given \subseteq started
            BY <3>1, <3>2, <3>3 DEF Given, BeginInv
        <3>5. started' = started
            BY <1>3, <2>1, <2>5, <3>4
        <3>6. OnTime
            BY <1>3, <2>5, <3>5 DEF OnTime
        <3>7. BeginInv'
            BY <3>1, <3>2, <3>5 DEF BeginInv, Periodic
        <3>. QED  BY <3>6, <3>7
    <2>6. CASE Kernel_Start /\ ~ (Kernel_Request_Next \/ Kernel_Request_Terminate)
        BY <2>4, <2>6, StartChooses DEF BeginInv
    <2>7. CASE Plain /\ ~ (Kernel_Request_Next \/ Kernel_Request_Terminate)
        <3>1. PICK st \in [Pid \union {Idle} -> ProcessState] :
                    /\ Dispatches(st, pd, queue)
                    /\ \A p \in Pid : st[p] = "DEAD" <=> state[p] = "DEAD"
            BY <2>7 DEF Plain
        <3>2. \A p \in Pid : Periodic(st, pd, p) <=> Periodic(state, pd, p)
            BY <3>1 DEF Periodic
        <3>3. /\ started \subseteq {p \in Pid : Periodic(st, pd, p)}
              /\ \A p \in Pid : Periodic(st, pd, p) /\ p \notin started =>
                    pd[p].ticks_remaining = pd[p].wcet
            BY <3>2 DEF BeginInv
        <3>. QED  BY <2>4, <2>7, <3>1, <3>3, DispatchesChoose
    <2>8. CASE /\ Kernel_Request_Timer /\ ~ Overrun
               /\ ~ (Kernel_Request_Next \/ Kernel_Request_Terminate)
        <3>1. abort = "NONE" /\ Cp \in Pid \union {Idle}
            BY <2>8 DEF Kernel_Request_Timer, CallsInv, IInv, SchedInv
        <3>2. /\ Dispatches(Entered, Ticked, queue)
              /\ \A p \in Pid : p # Cp => Ticked[p] = pd[p]
              /\ \A p \in Pid : Ticked[p].priority = pd[p].priority
              /\ \A p \in Pid : Entered[p] = "DEAD" <=> state[p] = "DEAD"
            BY <2>8, <3>1, TimerDispatches, TickedPeriodic, TickedLevels, EnteredFiled DEF CallsInv
        <3>3. \A p \in Pid : Periodic(Entered, Ticked, p) <=> Periodic(state, pd, p)
            BY <3>2 DEF Periodic
        <3>4. \A p \in Pid : Periodic(state, pd, p) /\ p \notin started => p # Cp
            BY <3>1 DEF BeginInv, Periodic
        <3>5. /\ started \subseteq {p \in Pid : Periodic(Entered, Ticked, p)}
              /\ \A p \in Pid : Periodic(Entered, Ticked, p) /\ p \notin started =>
                    Ticked[p].ticks_remaining = Ticked[p].wcet
            BY <3>2, <3>3, <3>4 DEF BeginInv
        <3>. QED  BY <2>4, <2>8, <3>2, <3>5, DispatchesChoose
    <2>9. CASE /\ Requesting /\ ~ TooManyTasks /\ \E r \in CreateRequests : CreateTask(r)
               /\ ~ (Kernel_Request_Next \/ Kernel_Request_Terminate)
        <3>1. PICK r \in CreateRequests : CreateTask(r)
            BY <2>9
        <3>2. /\ Dispatches(StatesWith, PdsWith(r), QueuesWith(r))
              /\ Cp \in Pid /\ FreePid \in Pid /\ FreePid # Cp /\ state[FreePid] = "DEAD"
              /\ r.priority \in Level /\ NewPd(r).priority = r.priority
              /\ \A p \in Pid : PdsWith(r)[p] = IF p = FreePid THEN NewPd(r) ELSE pd[p]
              /\ \A p \in Pid \union {Idle} :
                    StatesWith[p] = IF p \in {FreePid, Cp} THEN "READY" ELSE state[p]
            BY <2>9, <3>1, CreateDispatches
        <3>3. r.priority = "PERIODIC" => NewPd(r).ticks_remaining = NewPd(r).wcet
            BY DEF NewPd
        <3>4. state[Cp] # "DEAD"
            BY <2>9, Caller DEF CallsInv
        <3>5. \A p \in Pid : p # FreePid => (Periodic(StatesWith, PdsWith(r), p) <=> Periodic(state, pd, p))
            BY <3>2, <3>4 DEF Periodic
        <3>6. /\ FreePid \notin started
              /\ Periodic(StatesWith, PdsWith(r), FreePid) => r.priority = "PERIODIC"
            BY <3>2 DEF Periodic, BeginInv
        <3>7. /\ started \subseteq {p \in Pid : Periodic(StatesWith, PdsWith(r), p)}
              /\ \A p \in Pid : Periodic(StatesWith, PdsWith(r), p) /\ p \notin started =>
                    PdsWith(r)[p].ticks_remaining = PdsWith(r)[p].wcet
            BY <3>2, <3>3, <3>5, <3>6 DEF BeginInv
        <3>. QED  BY <2>4, <2>9, <3>2, <3>7, DispatchesChoose
    <2>. QED  BY <1>1, <2>2, <2>3, <2>5, <2>6, <2>7, <2>8, <2>9, StepForms
<1>. QED  BY <1>4, <1>5

\* Every period of a PERIODIC task begins at the tick of its start time, or the
\* kernel stops, for every clock modulus and every wrap of the clock
\* (Dispatch's two tests of the first PERIODIC task).
THEOREM PeriodsOnTime == HistorySpec => PeriodsBeginOnTime
<1>1. HistoryInit => CallsInv /\ BeginInv
    <2>1. HistoryInit => CallsInv
        BY InitCalls DEF HistoryInit
    <2>2. HistoryInit => BeginInv
        BY PidFacts DEF HistoryInit, Init, BeginInv, Periodic, ZeroPd
    <2>. QED  BY <2>1, <2>2
<1>2. CallsInv /\ BeginInv /\ [HistoryNext]_historyVars =>
            CallsInv' /\ BeginInv' /\ (OnTime \/ UNCHANGED historyVars)
    <2>1. [HistoryNext]_historyVars => [Next]_vars
        BY DEF HistoryNext, historyVars
    <2>2. CallsInv /\ [Next]_vars => CallsInv'
        BY CallsStep, StepKeeps DEF CallsInv, StepCorrect
    <2>. QED  BY <2>1, <2>2, BeginStep
<1>3. CallsInv /\ BeginInv /\ [HistoryNext]_historyVars =>
            [\A p \in started' \ (started \ Ended) : sys_clock' = pd'[p].tons]_historyVars
    BY <1>2 DEF OnTime
<1>. QED  BY <1>1, <1>2, <1>3, PTL DEF HistorySpec, PeriodsBeginOnTime

-----------------------------------------------------------------------------
(* The worst case execution time.                                           *)

LEMMA WcetStep ==
    ASSUME CallsInv, CallsInv', WithinWcet, [Next]_vars
    PROVE  WithinWcet'
<1>. DEFINE Within(st, pds) ==
                \A p \in Pid : Periodic(st, pds, p) /\ pds[p].wcet > 0 =>
                        pds[p].ticks_remaining \in 1 .. pds[p].wcet
<1>1. pd \in [Pid -> Descriptor] /\ Within(state, pd)
    BY DEF CallsInv, IInv, SchedInv, Filed, WithinWcet, Periodic, Live
<1>2. SUFFICES Within(state', pd')
    BY DEF WithinWcet, Periodic, Live
<1>. HIDE DEF Within
<1>3. ASSUME NEW st, NEW pds, NEW qs, Chooses(st, pds, qs), Within(st, pds)
      PROVE  Within(state', pd')
    BY <1>3, ChoosesPeriodic DEF Within
<1>4. ASSUME NEW st, \A p \in Pid : st[p] = "DEAD" <=> state[p] = "DEAD" PROVE Within(st, pd)
    BY <1>1, <1>4 DEF Within, Periodic
<1>5. CASE Stays
    <2>1. pd' = pd /\ \A p \in Pid : state'[p] = "DEAD" <=> state[p] = "DEAD"
        BY <1>5, EnteredFiled DEF Stays, CallsInv, Requesting
    <2>. QED  BY <1>4, <2>1
<1>6. CASE Kernel_Start
    BY <1>1, <1>3, <1>6, StartChooses
<1>7. CASE Plain
    BY <1>3, <1>4, <1>7, DispatchesChoose DEF Plain
<1>8. CASE Kernel_Request_Next
    <2>1. /\ Dispatches(Entered, pd', queue)
          /\ Cp \in Pid
          /\ \A p \in Pid : Entered[p] = "DEAD" <=> state[p] = "DEAD"
          /\ \A p \in Pid : p # Cp => pd'[p] = pd[p]
          /\ \A p \in Pid : pd'[p].priority = pd[p].priority
          /\ pd[Cp].priority = "PERIODIC" => pd'[Cp] = NextPeriod(pd[Cp])
        BY <1>8, NextDispatches, NextPeriodic, NextLevels, EnteredFiled
           DEF Kernel_Request_Next, Requesting, CallsInv
    <2>2. pd[Cp] \in Descriptor
        BY <1>1, <2>1
    <2>3. pd[Cp].priority = "PERIODIC" =>
                pd'[Cp].ticks_remaining = pd[Cp].wcet /\ pd'[Cp].wcet = pd[Cp].wcet
        BY <2>1, <2>2 DEF NextPeriod, Descriptor
    <2>4. pd[Cp].wcet \in Int /\ pd[Cp].ticks_remaining \in Int
        BY <2>2, TickAssumption DEF Descriptor, Tick
    <2>5. Within(Entered, pd')
        BY <1>1, <2>1, <2>3, <2>4 DEF Within, Periodic
    <2>. QED  BY <1>3, <2>1, <2>5, DispatchesChoose
<1>9. CASE Kernel_Request_Timer /\ ~ Overrun
    <2>1. abort = "NONE" /\ Cp \in Pid \union {Idle}
        BY <1>9 DEF Kernel_Request_Timer, CallsInv, IInv, SchedInv
    <2>2. /\ Dispatches(Entered, Ticked, queue)
          /\ \A p \in Pid : p # Cp => Ticked[p] = pd[p]
          /\ \A p \in Pid : Ticked[p].wcet = pd[p].wcet
          /\ \A p \in Pid : Ticked[p].priority = pd[p].priority
          /\ \A p \in Pid : Entered[p] = "DEAD" <=> state[p] = "DEAD"
          /\ Cp \in Pid /\ pd[Cp].priority = "PERIODIC" => Ticked[Cp].ticks_remaining = TicksLeft(Cp)
        BY <1>9, <2>1, TimerDispatches, TickedPeriodic, TickedLevels, EnteredFiled DEF CallsInv
    <2>3. ASSUME Cp \in Pid, Periodic(state, pd, Cp), pd[Cp].wcet > 0
          PROVE  TicksLeft(Cp) \in 1 .. pd[Cp].wcet
        <3>1. pd[Cp].ticks_remaining \in 1 .. pd[Cp].wcet
            BY <1>1, <2>3 DEF Within, Periodic
        <3>2. pd[Cp].wcet \in Tick /\ pd[Cp].ticks_remaining \in Tick
            BY <1>1, <2>3 DEF Descriptor
        <3>3. TicksLeft(Cp) = pd[Cp].ticks_remaining - 1
            BY <3>1, <3>2, TickAssumption DEF TicksLeft, Tick
        <3>4. TicksLeft(Cp) # 0
            BY <1>9, <2>3, PidFacts DEF Overrun, Periodic
        <3>. QED  BY <3>1, <3>2, <3>3, <3>4, TickAssumption DEF Tick
    <2>4. Within(Entered, Ticked)
        BY <1>1, <2>2, <2>3 DEF Within, Periodic
    <2>. QED  BY <1>3, <2>2, <2>4, DispatchesChoose
<1>10. CASE Requesting /\ ~ TooManyTasks /\ \E r \in CreateRequests : CreateTask(r)
    <2>1. PICK r \in CreateRequests : CreateTask(r)
        BY <1>10
    <2>2. /\ Dispatches(StatesWith, PdsWith(r), QueuesWith(r))
          /\ Cp \in Pid /\ NewPd(r).priority = r.priority
          /\ \A p \in Pid : PdsWith(r)[p] = IF p = FreePid THEN NewPd(r) ELSE pd[p]
          /\ \A p \in Pid \union {Idle} :
                StatesWith[p] = IF p \in {FreePid, Cp} THEN "READY" ELSE state[p]
        BY <1>10, <2>1, CreateDispatches
    <2>3. state[Cp] # "DEAD"
        BY <1>10, Caller DEF CallsInv
    <2>4. r.priority = "PERIODIC" /\ NewPd(r).wcet > 0 =>
                NewPd(r).ticks_remaining \in 1 .. NewPd(r).wcet
        BY CreateAssumption, TickAssumption DEF NewPd, Tick
    <2>5. Within(StatesWith, PdsWith(r))
        BY <1>1, <2>2, <2>3, <2>4 DEF Within, Periodic
    <2>. QED  BY <1>3, <2>2, <2>5, DispatchesChoose
<1>11. CASE Kernel_Request_Terminate
    <2>1. /\ Dispatches(StatesWithout, pd, QueuesWithout)
          /\ \A p \in Pid \union {Idle} : StatesWithout[p] = IF p = Cp THEN "DEAD" ELSE state[p]
        BY <1>11, TerminateDispatches
    <2>2. Within(StatesWithout, pd)
        BY <1>1, <2>1 DEF Within, Periodic
    <2>. QED  BY <1>3, <2>1, <2>2, DispatchesChoose
<1>. QED  BY <1>5, <1>6, <1>7, <1>8, <1>9, <1>10, <1>11, StepForms

\* Whatever tasks are created, those with a wcet of 0 among them, each PERIODIC
\* task with a wcet above 0 has some of it left as long as the kernel lets it
\* run, and never more than all of it: no tick takes its count past 0, and no
\* other call than its own Task_Next sets it.
THEOREM TicksWithinWcet == Spec => []WithinWcet
<1>1. Init => WithinWcet
    BY DEF Init, WithinWcet, Live, ZeroPd
<1>2. CallsInv /\ CallsInv' /\ WithinWcet /\ [Next]_vars => WithinWcet'
    BY WcetStep
<1>. QED  BY <1>1, <1>2, CallsInvariant, PTL DEF Spec

-----------------------------------------------------------------------------
(* The order of the PERIODIC queue, through the steps.                      *)

\* No start time wraps: neither that of a task created at the last tick there
\* is, nor that of the next period of a task that is due.
NoWrap ==
    /\ ClockBound < TickMod
    /\ \A r \in CreateRequests : r.priority = "PERIODIC" =>
            ClockBound + r.offset < TickMod /\ ClockBound + r.period < TickMod

\* What keeps the order of the queue: the current task is due, and of the
\* others only those that are due have begun their periods.
OrderInv ==
    /\ sys_clock <= ClockBound /\ clock_state = "EVEN"
    /\ InStep({p \in Pid : Periodic(state, pd, p)}, pd, sys_clock)
    /\ \A p \in Pid : Periodic(state, pd, p) => ClockBound + pd[p].period < TickMod
    /\ abort = "NONE" /\ Cp \in Pid /\ pd[Cp].priority = "PERIODIC" => pd[Cp].tons <= sys_clock
    /\ Ordered(queue["PERIODIC"], pd, sys_clock)

\* The order depends on the start times, and is kept as the clock goes on.
LEMMA OrderedSame ==
    ASSUME NEW q, NEW pds, NEW pds2, NEW clock \in Int, NEW clock2 \in Int, clock <= clock2,
           \A i \in 1 .. Len(q) : pds[q[i]].tons \in Int /\ pds2[q[i]].tons = pds[q[i]].tons,
           Ordered(q, pds, clock)
    PROVE  Ordered(q, pds2, clock2)
BY DEF Ordered

LEMMA OrderedShort ==
    ASSUME NEW q, NEW pds, NEW clock, Len(q) \in Nat, Len(q) <= 1
    PROVE  Ordered(q, pds, clock)
BY DEF Ordered

\* The tasks in the PERIODIC queue.
LEMMA PeriodicQueue ==
    ASSUME NEW st, NEW pds, NEW qs, Filed(st, pds, qs)
    PROVE  /\ qs["PERIODIC"] \in Seq(Pid) /\ Len(qs["PERIODIC"]) \in Nat
           /\ IsInjective(qs["PERIODIC"])
           /\ Range(qs["PERIODIC"]) = {p \in Pid : Periodic(st, pds, p)}
           /\ \A i \in 1 .. Len(qs["PERIODIC"]) :
                    qs["PERIODIC"][i] \in Pid /\ Periodic(st, pds, qs["PERIODIC"][i])
<1>. DEFINE q == qs["PERIODIC"]
<1>1. Lists(q, Belong(st, pds, "PERIODIC"))
    BY DEF Filed, Level
<1>2. q \in Seq(Belong(st, pds, "PERIODIC")) /\ Range(q) = Belong(st, pds, "PERIODIC") /\ IsInjective(q)
    BY <1>1 DEF Lists
<1>3. q \in Seq(Pid) /\ Len(q) \in Nat
    BY <1>2, SeqMonotonic, LenProperties DEF Belong
<1>4. \A i \in 1 .. Len(q) : q[i] \in Belong(st, pds, "PERIODIC")
    BY <1>2, ElementOfSeq
<1>5. Belong(st, pds, "PERIODIC") = {p \in Pid : Periodic(st, pds, p)}
    BY DEF Belong, Periodic
<1>. QED  BY <1>2, <1>3, <1>4, <1>5

\* The first half of Dispatch puts the current task, or the one that has come
\* to the front after it, in its place.
LEMMA RequeueOrdered ==
    ASSUME NEW st, NEW pds, NEW qs, NEW clock \in Tick,
           Filed(st, pds, qs), Cp \in Pid \union {Idle},
           InStep({p \in Pid : Periodic(st, pds, p)}, pds, clock),
           qs["PERIODIC"] # <<>> => Ordered(Tail(qs["PERIODIC"]), pds, clock),
           Ordered(qs["PERIODIC"], pds, clock) \/ (Cp \in Pid /\ pds[Cp].priority = "PERIODIC")
    PROVE  Ordered(Requeue(qs, pds, clock)["PERIODIC"], pds, clock)
<1>. DEFINE q == qs["PERIODIC"]
            l == pds[Cp].priority
<1>1. /\ q \in Seq(Pid) /\ Len(q) \in Nat
      /\ Range(q) = {p \in Pid : Periodic(st, pds, p)}
      /\ pds \in [Pid -> Descriptor] /\ qs \in [Level -> Seq(Pid)]
    BY PeriodicQueue DEF Filed
<1>2. CASE Cp = Idle
    BY <1>2, PidFacts DEF Requeue
<1>3. CASE Cp \in Pid /\ l # "PERIODIC"
    <2>1. Ordered(q, pds, clock) /\ l \in Level
        BY <1>1, <1>3 DEF Descriptor
    <2>2. Requeue(qs, pds, clock) = IF Len(qs[l]) <= 1 THEN qs ELSE [qs EXCEPT ![l] = ToEnd(@)]
        BY <1>3, PidFacts DEF Requeue
    <2>. HIDE DEF l
    <2>3. Requeue(qs, pds, clock)["PERIODIC"] = q
        BY <1>1, <1>3, <2>1, <2>2 DEF Level
    <2>. QED  BY <2>1, <2>3
<1>4. CASE Cp \in Pid /\ l = "PERIODIC" /\ Len(q) <= 1
    <2>1. Requeue(qs, pds, clock) = qs
        BY <1>4 DEF Requeue
    <2>. QED  BY <1>1, <1>4, <2>1, OrderedShort
<1>5. CASE Cp \in Pid /\ l = "PERIODIC" /\ ~ (Len(q) <= 1)
    <2>1. Requeue(qs, pds, clock) = [qs EXCEPT !["PERIODIC"] = insert(Tail(q), Head(q), pds, clock)]
        BY <1>5, PidFacts DEF Requeue
    <2>2. q # <<>>
        BY <1>5, EmptySeq
    <2>3. Head(q) \in Pid /\ Tail(q) \in Seq(Pid) /\ Range(Tail(q)) \subseteq Range(q)
        <3>1. /\ Head(q) \in Pid /\ Tail(q) \in Seq(Pid) /\ Len(Tail(q)) = Len(q) - 1
              /\ \A i \in 1 .. Len(Tail(q)) : Tail(q)[i] = q[i + 1]
            BY <1>1, <2>2, HeadTailProperties
        <3>2. DOMAIN Tail(q) = 1 .. Len(q) - 1 /\ DOMAIN q = 1 .. Len(q)
            BY <1>1, <3>1, LenProperties
        <3>. QED  BY <1>1, <3>1, <3>2 DEF Range
    <2>4. InStep(Range(Tail(q)), pds, clock)
        BY <1>1, <2>3 DEF InStep
    <2>5. Ordered(insert(Tail(q), Head(q), pds, clock), pds, clock)
        BY <1>1, <2>2, <2>3, <2>4, InsertOrdered
    <2>6. Requeue(qs, pds, clock)["PERIODIC"] = insert(Tail(q), Head(q), pds, clock)
        BY <1>1, <2>1 DEF Level
    <2>. QED  BY <2>5, <2>6
<1>. QED  BY <1>2, <1>3, <1>4, <1>5

\* With the front of the queue the first of the tasks that are due, none of
\* them is due when the front one is not.
LEMMA FrontDue ==
    ASSUME NEW st, NEW pds, NEW qs, NEW clock \in Tick, Filed(st, pds, qs),
           InStep({p \in Pid : Periodic(st, pds, p)}, pds, clock),
           Ordered(qs["PERIODIC"], pds, clock),
           NEW p \in Pid, Periodic(st, pds, p), pds[p].tons <= clock
    PROVE  PeriodicDue(qs, pds, clock, "EVEN")
<1>. DEFINE q == qs["PERIODIC"]
<1>1. /\ q \in Seq(Pid) /\ Len(q) \in Nat
      /\ Range(q) = {o \in Pid : Periodic(st, pds, o)}
      /\ \A i \in 1 .. Len(q) : q[i] \in Pid
      /\ pds \in [Pid -> Descriptor]
    BY PeriodicQueue DEF Filed
<1>2. PICK i \in 1 .. Len(q) : q[i] = p
    BY <1>1, LenProperties DEF Range
<1>3. q # <<>> /\ Head(q) = q[1] /\ 1 \in 1 .. Len(q)
    BY <1>1, <1>2, EmptySeq
<1>4. pds[q[1]].tons \in Int /\ pds[p].tons \in Int /\ clock \in Int
    BY <1>1, <1>3, TickAssumption DEF Descriptor, Tick
<1>5. pds[q[1]].tons <= clock
    <2>1. CASE i = 1
        BY <1>2, <2>1
    <2>2. CASE 1 < i
        BY <1>2, <1>3, <1>4, <2>2 DEF Ordered
    <2>. QED  BY <1>1, <1>2, <2>1, <2>2
<1>6. pds[q[1]].clockState = "EVEN"
    BY <1>1, <1>3 DEF InStep
<1>. HIDE DEF q
<1>7. PeriodicDue(qs, pds, clock, "EVEN") <=>
            (q # <<>> /\ clock >= pds[Head(q)].tons /\ "EVEN" = pds[Head(q)].clockState)
    BY DEF PeriodicDue, q
<1>. QED  BY <1>3, <1>4, <1>5, <1>6, <1>7

\* A handler that leaves the start times in order restores the invariant.
LEMMA ChoosesOrder ==
    ASSUME NoWrap, CallsInv, CallsInv', NEW st, NEW pds, NEW qs, Chooses(st, pds, qs),
           sys_clock' <= ClockBound, clock_state' = "EVEN",
           InStep({p \in Pid : Periodic(st, pds, p)}, pds, sys_clock'),
           \A p \in Pid : Periodic(st, pds, p) => ClockBound + pds[p].period < TickMod,
           Ordered(qs["PERIODIC"], pds, sys_clock')
    PROVE  OrderInv' /\ PeriodicPreempts'
<1>1. /\ pd' = pds /\ queue'["PERIODIC"] = qs["PERIODIC"]
      /\ \A p \in Pid : Periodic(state', pds, p) <=> Periodic(st, pds, p)
      /\ \A p \in Pid : state'[p] = "RUNNING" /\ pds[p].priority = "PERIODIC" =>
            pds[p].tons <= sys_clock'
      /\ abort' = "NONE" => (Cp' \in Pid => state'[Cp'] = "RUNNING")
      /\ abort' = "NONE" /\ (Cp' = Idle \/ (Cp' \in Pid /\ pds[Cp'].priority = "RR")) =>
            ~ PeriodicDue(qs, pds, sys_clock', clock_state')
    BY ChoosesPeriodic
<1>2. OrderInv'
    <2>1. InStep({p \in Pid : Periodic(state', pd', p)}, pd', sys_clock')
        BY <1>1 DEF InStep
    <2>2. \A p \in Pid : Periodic(state', pd', p) => ClockBound + pd'[p].period < TickMod
        BY <1>1
    <2>3. abort' = "NONE" /\ Cp' \in Pid /\ pd'[Cp'].priority = "PERIODIC" =>
                pd'[Cp'].tons <= sys_clock'
        BY <1>1
    <2>4. Ordered(queue'["PERIODIC"], pd', sys_clock')
        BY <1>1
    <2>. QED  BY <2>1, <2>2, <2>3, <2>4 DEF OrderInv, InStep, Ordered, Periodic
<1>3. PeriodicPreempts'
    <2>1. SUFFICES ASSUME abort' = "NONE", Cp' = Idle \/ RunsAt("RR")', NEW p \in Pid, IsDue(p)'
                   PROVE  FALSE
        BY DEF PeriodicPreempts
    <2>2. ~ PeriodicDue(qs, pds, sys_clock', "EVEN")
        BY <1>1, <2>1 DEF RunsAt
    <2>3. Periodic(st, pds, p) /\ pds[p].tons <= sys_clock'
        BY <1>1, <2>1 DEF IsDue, Live, Periodic
    <2>4. sys_clock' \in Tick /\ Filed(st, pds, qs)
        BY DEF CallsInv, IInv, CallInv, Chooses
    <2>. QED  BY <2>2, <2>3, <2>4, FrontDue
<1>. QED  BY <1>2, <1>3

LEMMA DispatchesOrder ==
    ASSUME NoWrap, CallsInv, CallsInv', NEW st, NEW pds, NEW qs, Dispatches(st, pds, qs),
           sys_clock' <= ClockBound, clock_state' = "EVEN",
           InStep({p \in Pid : Periodic(st, pds, p)}, pds, sys_clock'),
           \A p \in Pid : Periodic(st, pds, p) => ClockBound + pds[p].period < TickMod,
           qs["PERIODIC"] # <<>> => Ordered(Tail(qs["PERIODIC"]), pds, sys_clock'),
           \/ Ordered(qs["PERIODIC"], pds, sys_clock')
           \/ Cp \in Pid /\ pds[Cp].priority = "PERIODIC"
    PROVE  OrderInv' /\ PeriodicPreempts'
<1>1. sys_clock' \in Tick
    BY DEF CallsInv, IInv, CallInv
<1>2. Filed(st, pds, qs) /\ Cp \in Pid \union {Idle}
    BY DEF Dispatches
<1>3. Ordered(Requeue(qs, pds, sys_clock')["PERIODIC"], pds, sys_clock')
    BY <1>1, <1>2, RequeueOrdered
<1>4. Chooses(st, pds, Requeue(qs, pds, sys_clock'))
    BY DispatchesChoose
<1>. QED  BY <1>3, <1>4, ChoosesOrder

\* The case of a handler that leaves the PERIODIC queue as it was.
LEMMA KeptOrder ==
    ASSUME NoWrap, CallsInv, CallsInv', NEW st, NEW pds, NEW qs, Dispatches(st, pds, qs),
           sys_clock' <= ClockBound, clock_state' = "EVEN",
           InStep({p \in Pid : Periodic(st, pds, p)}, pds, sys_clock'),
           \A p \in Pid : Periodic(st, pds, p) => ClockBound + pds[p].period < TickMod,
           Ordered(qs["PERIODIC"], pds, sys_clock')
    PROVE  OrderInv' /\ PeriodicPreempts'
<1>1. qs["PERIODIC"] \in Seq(Pid)
    BY PeriodicQueue DEF Dispatches
<1>2. qs["PERIODIC"] # <<>> => Ordered(Tail(qs["PERIODIC"]), pds, sys_clock')
    BY <1>1, TailOrdered
<1>. QED  BY <1>2, DispatchesOrder

\* What OrderInv says of the descriptors and of the queue.
LEMMA OrderFacts ==
    ASSUME NoWrap, CallsInv, OrderInv
    PROVE  /\ sys_clock \in Tick /\ sys_clock \in Int /\ ClockBound \in Int /\ TickMod \in Int
           /\ pd \in [Pid -> Descriptor] /\ queue \in [Level -> Seq(Pid)]
           /\ \A p \in Pid : /\ pd[p].tons \in Nat /\ pd[p].period \in Nat
                             /\ pd[p].clockState = "EVEN"
           /\ queue["PERIODIC"] \in Seq(Pid) /\ Len(queue["PERIODIC"]) \in Nat
           /\ \A i \in 1 .. Len(queue["PERIODIC"]) :
                    queue["PERIODIC"][i] \in Pid /\ Periodic(state, pd, queue["PERIODIC"][i])
<1>1. Filed(state, pd, queue) /\ sys_clock \in Tick
    BY DEF CallsInv, IInv, SchedInv, CallInv
<1>2. pd \in [Pid -> Descriptor] /\ queue \in [Level -> Seq(Pid)]
    BY <1>1 DEF Filed
<1>3. \A p \in Pid : pd[p].tons \in Nat /\ pd[p].period \in Nat
    BY <1>2, TickAssumption DEF Descriptor, Tick
<1>4. \A p \in Pid : pd[p].clockState = "EVEN"
    BY DEF OrderInv, InStep
<1>. QED  BY <1>1, <1>2, <1>3, <1>4, PeriodicQueue, TickAssumption DEF Tick

\* A sum below the modulus is the uint16_t sum.
LEMMA NotWrapped ==
    ASSUME NEW a \in Nat, NEW m \in Nat, a < m
    PROVE  a % m = a
OBVIOUS

LEMMA NextPeriodFields ==
    ASSUME NEW d \in Descriptor, d.tons + d.period < TickMod
    PROVE  /\ NextPeriod(d).tons = d.tons + d.period /\ NextPeriod(d).clockState = d.clockState
           /\ NextPeriod(d).wcet = d.wcet /\ NextPeriod(d).period = d.period
           /\ NextPeriod(d).ticks_remaining = d.wcet
<1>. DEFINE t == (d.tons + d.period) % TickMod
            c == IF t < d.tons THEN Flipped(d.clockState) ELSE d.clockState
<1>1. d.tons \in Nat /\ d.period \in Nat /\ d.tons + d.period \in Nat /\ TickMod \in Nat
    BY TickAssumption DEF Descriptor, Tick
<1>2. t = d.tons + d.period
    BY <1>1, NotWrapped
<1>3. ~ (t < d.tons)
    BY <1>1, <1>2
<1>4. NextPeriod(d) = [d EXCEPT !.tons = t, !.ticks_remaining = d.wcet, !.clockState = c]
    BY DEF NextPeriod
<1>5. c = d.clockState
    BY <1>3
<1>. HIDE DEF t, c
<1>. QED  BY <1>2, <1>4, <1>5 DEF Descriptor

LEMMA OrderNext ==
    ASSUME NoWrap, CallsInv, CallsInv', OrderInv, Kernel_Request_Next
    PROVE  OrderInv' /\ PeriodicPreempts'
<1>. DEFINE q == queue["PERIODIC"]
<1>1. /\ Dispatches(Entered, pd', queue) /\ UNCHANGED clockVars
      /\ Cp \in Pid /\ abort = "NONE"
      /\ \A p \in Pid : Entered[p] = "DEAD" <=> state[p] = "DEAD"
      /\ \A p \in Pid : p # Cp => pd'[p] = pd[p]
      /\ \A p \in Pid : pd'[p].priority = pd[p].priority
      /\ pd[Cp].priority = "PERIODIC" => pd'[Cp] = NextPeriod(pd[Cp])
    BY NextDispatches, NextPeriodic, NextLevels, EnteredFiled
       DEF Kernel_Request_Next, Requesting, CallsInv
<1>2. /\ sys_clock' = sys_clock /\ sys_clock' <= ClockBound /\ clock_state' = "EVEN"
      /\ sys_clock \in Tick /\ sys_clock \in Int /\ ClockBound \in Int /\ TickMod \in Int
      /\ \A p \in Pid : pd[p].tons \in Nat /\ pd[p].period \in Nat /\ pd[p].clockState = "EVEN"
      /\ q \in Seq(Pid) /\ Len(q) \in Nat
      /\ \A i \in 1 .. Len(q) : q[i] \in Pid /\ Periodic(state, pd, q[i])
      /\ pd[Cp] \in Descriptor
    BY <1>1, OrderFacts DEF OrderInv, clockVars
<1>3. /\ Ordered(q, pd, sys_clock)
      /\ \A p \in Pid : Periodic(state, pd, p) => ClockBound + pd[p].period < TickMod
      /\ \A p \in Pid : Periodic(state, pd, p) /\ pd[p].ticks_remaining < pd[p].wcet =>
            pd[p].tons <= sys_clock
    BY DEF OrderInv, InStep
<1>4. \A p \in Pid : Periodic(Entered, pd', p) <=> Periodic(state, pd, p)
    BY <1>1 DEF Periodic
<1>5. CASE pd[Cp].priority = "PERIODIC"
    <2>1. Periodic(state, pd, Cp)
        BY <1>1, <1>5, Caller DEF Periodic, CallsInv, Requesting
    <2>2. pd[Cp].tons <= sys_clock /\ ClockBound + pd[Cp].period < TickMod
        BY <1>1, <1>3, <1>5, <2>1 DEF OrderInv
    <2>3. pd[Cp].tons + pd[Cp].period < TickMod
        BY <1>1, <1>2, <2>2
    <2>4. /\ pd'[Cp].clockState = "EVEN" /\ pd'[Cp].ticks_remaining = pd'[Cp].wcet
          /\ pd'[Cp].period = pd[Cp].period /\ pd'[Cp].wcet \in Int
        BY <1>1, <1>2, <1>5, <2>3, NextPeriodFields, TickAssumption DEF Descriptor, Tick
    <2>5. ~ (pd'[Cp].ticks_remaining < pd'[Cp].wcet)
        BY <2>4
    <2>6. InStep({p \in Pid : Periodic(Entered, pd', p)}, pd', sys_clock')
        BY <1>1, <1>2, <1>3, <1>4, <2>4, <2>5 DEF InStep
    <2>7. \A p \in Pid : Periodic(Entered, pd', p) => ClockBound + pd'[p].period < TickMod
        BY <1>1, <1>3, <1>4, <2>4
    <2>8. ASSUME q # <<>> PROVE Ordered(Tail(q), pd', sys_clock')
        <3>1. /\ Tail(q) \in Seq(Pid) /\ Len(Tail(q)) = Len(q) - 1 /\ Head(q) = q[1]
              /\ \A i \in 1 .. Len(Tail(q)) : Tail(q)[i] = q[i + 1]
            BY <1>2, <2>8, HeadTailProperties
        <3>2. q[1] = Cp
            BY <1>1, <1>5, <3>1, Caller DEF CallsInv, Requesting
        <3>3. IsInjective(q) /\ DOMAIN q = 1 .. Len(q)
            BY <1>2, PeriodicQueue, LenProperties DEF CallsInv, IInv, SchedInv
        <3>4. \A i \in 1 .. Len(Tail(q)) : Tail(q)[i] # Cp /\ Tail(q)[i] \in Pid
            BY <1>2, <2>8, <3>1, <3>2, <3>3, EmptySeq DEF IsInjective
        <3>5. Ordered(Tail(q), pd, sys_clock)
            BY <1>2, <1>3, <2>8, TailOrdered
        <3>. HIDE DEF q
        <3>6. \A i \in 1 .. Len(Tail(q)) :
                    pd[Tail(q)[i]].tons \in Int /\ pd'[Tail(q)[i]].tons = pd[Tail(q)[i]].tons
            BY <1>1, <1>2, <3>4
        <3>7. sys_clock \in Int /\ sys_clock <= sys_clock
            BY <1>2
        <3>8. Ordered(Tail(q), pd', sys_clock)
            BY <3>5, <3>6, <3>7, OrderedSame, Zenon
        <3>. QED  BY <1>2, <3>8
    <2>. QED  BY <1>1, <1>2, <1>5, <2>6, <2>7, <2>8, DispatchesOrder
<1>6. CASE pd[Cp].priority # "PERIODIC"
    <2>1. \A p \in Pid : Periodic(state, pd, p) => pd'[p] = pd[p]
        BY <1>1, <1>6 DEF Periodic
    <2>2. \A p \in Pid : pd'[p].clockState = "EVEN"
        BY <1>1, <1>2, <1>6, NextPeriodic
    <2>3. InStep({p \in Pid : Periodic(Entered, pd', p)}, pd', sys_clock')
        BY <1>2, <1>3, <1>4, <2>1, <2>2 DEF InStep
    <2>4. \A p \in Pid : Periodic(Entered, pd', p) => ClockBound + pd'[p].period < TickMod
        BY <1>3, <1>4, <2>1
    <2>5. Ordered(q, pd', sys_clock')
        BY <1>2, <1>3, <2>1, OrderedSame
    <2>. QED  BY <1>1, <1>2, <2>3, <2>4, <2>5, KeptOrder
<1>. QED  BY <1>5, <1>6

LEMMA OrderTimer ==
    ASSUME NoWrap, CallsInv, CallsInv', OrderInv, Kernel_Request_Timer, ~ Overrun
    PROVE  OrderInv' /\ PeriodicPreempts'
<1>. DEFINE q == queue["PERIODIC"]
<1>1. abort = "NONE" /\ Cp \in Pid \union {Idle}
    BY DEF Kernel_Request_Timer, CallsInv, IInv, SchedInv
<1>2. /\ Dispatches(Entered, Ticked, queue)
      /\ sys_clock < ClockBound
      /\ sys_clock' = (sys_clock + 1) % TickMod
      /\ clock_state' = IF sys_clock' < sys_clock THEN Flipped(clock_state) ELSE clock_state
      /\ \A p \in Pid : p # Cp => Ticked[p] = pd[p]
      /\ \A p \in Pid : /\ Ticked[p].tons = pd[p].tons /\ Ticked[p].wcet = pd[p].wcet
                        /\ Ticked[p].period = pd[p].period
                        /\ Ticked[p].clockState = pd[p].clockState
      /\ \A p \in Pid : Ticked[p].priority = pd[p].priority
      /\ \A p \in Pid : Entered[p] = "DEAD" <=> state[p] = "DEAD"
    BY <1>1, TimerDispatches, TickedPeriodic, TickedLevels, EnteredFiled DEF CallsInv
<1>3. /\ sys_clock \in Tick /\ sys_clock \in Int /\ ClockBound \in Int /\ TickMod \in Nat
      /\ \A p \in Pid : pd[p].tons \in Nat /\ pd[p].clockState = "EVEN"
      /\ q \in Seq(Pid) /\ Len(q) \in Nat
      /\ \A i \in 1 .. Len(q) : q[i] \in Pid
    BY OrderFacts, TickAssumption
<1>4. sys_clock' = sys_clock + 1
    <2>1. sys_clock + 1 \in Nat /\ sys_clock + 1 < TickMod
        BY <1>2, <1>3 DEF Tick, NoWrap
    <2>. QED  BY <1>2, <1>3, <2>1, NotWrapped
<1>5. sys_clock' <= ClockBound /\ clock_state' = "EVEN"
    BY <1>2, <1>3, <1>4 DEF OrderInv
<1>6. \A p \in Pid : Periodic(Entered, Ticked, p) <=> Periodic(state, pd, p)
    BY <1>2 DEF Periodic
<1>7. \A p \in Pid : Periodic(Entered, Ticked, p) => ClockBound + Ticked[p].period < TickMod
    BY <1>2, <1>6 DEF OrderInv
<1>8. InStep({p \in Pid : Periodic(Entered, Ticked, p)}, Ticked, sys_clock')
    <2>1. \A p \in Pid : Ticked[p].clockState = "EVEN"
        BY <1>2, <1>3
    <2>2. SUFFICES ASSUME NEW p \in Pid, Periodic(Entered, Ticked, p),
                          Ticked[p].ticks_remaining < Ticked[p].wcet
                   PROVE  pd[p].tons <= sys_clock
        BY <1>2, <1>3, <1>4, <2>1 DEF InStep
    <2>3. CASE p = Cp
        BY <1>1, <1>6, <2>2, <2>3 DEF OrderInv, Periodic
    <2>4. CASE p # Cp
        BY <1>2, <1>6, <2>2, <2>4 DEF OrderInv, InStep
    <2>. QED  BY <2>3, <2>4
<1>9. Ordered(q, Ticked, sys_clock')
    <2>1. Ordered(q, pd, sys_clock)
        BY DEF OrderInv
    <2>2. \A i \in 1 .. Len(q) : pd[q[i]].tons \in Int /\ Ticked[q[i]].tons = pd[q[i]].tons
        BY <1>2, <1>3
    <2>3. sys_clock \in Int /\ sys_clock + 1 \in Int /\ sys_clock <= sys_clock + 1
        BY <1>3
    <2>. HIDE DEF q
    <2>4. Ordered(q, Ticked, sys_clock + 1)
        BY <2>1, <2>2, <2>3, OrderedSame, Zenon
    <2>. QED  BY <1>4, <2>4
<1>. QED  BY <1>2, <1>5, <1>7, <1>8, <1>9, KeptOrder

LEMMA OrderCreate ==
    ASSUME NoWrap, CallsInv, CallsInv', OrderInv, Requesting, ~ TooManyTasks,
           NEW r \in CreateRequests, CreateTask(r)
    PROVE  OrderInv' /\ PeriodicPreempts'
<1>. DEFINE q == queue["PERIODIC"]
            pds == PdsWith(r)
            x == FreePid
<1>1. /\ Dispatches(StatesWith, pds, QueuesWith(r)) /\ UNCHANGED clockVars
      /\ Cp \in Pid /\ x \in Pid /\ x # Cp /\ state[x] = "DEAD"
      /\ r.priority \in Level /\ NewPd(r) \in Descriptor /\ NewPd(r).priority = r.priority
      /\ \A p \in Pid : pds[p] = IF p = x THEN NewPd(r) ELSE pd[p]
      /\ \A p \in Pid \union {Idle} : StatesWith[p] = IF p \in {x, Cp} THEN "READY" ELSE state[p]
    BY CreateDispatches
<1>2. /\ sys_clock \in Tick /\ sys_clock \in Int /\ ClockBound \in Int /\ TickMod \in Nat
      /\ sys_clock' = sys_clock /\ sys_clock' <= ClockBound
      /\ clock_state = "EVEN" /\ clock_state' = "EVEN"
      /\ \A p \in Pid : pd[p].tons \in Nat /\ pd[p].clockState = "EVEN"
      /\ q \in Seq(Pid) /\ Len(q) \in Nat /\ queue \in [Level -> Seq(Pid)]
      /\ \A i \in 1 .. Len(q) : q[i] \in Pid /\ Periodic(state, pd, q[i])
    BY <1>1, OrderFacts, TickAssumption DEF OrderInv, clockVars
<1>3. state[Cp] # "DEAD"
    BY Caller DEF CallsInv
<1>4. /\ \A p \in Pid : p # x => (Periodic(StatesWith, pds, p) <=> Periodic(state, pd, p))
      /\ Periodic(StatesWith, pds, x) => r.priority = "PERIODIC"
      /\ \A i \in 1 .. Len(q) : q[i] # x
    BY <1>1, <1>2, <1>3 DEF Periodic
<1>5. /\ NewPd(r).clockState = "EVEN"
      /\ r.priority = "PERIODIC" =>
            /\ NewPd(r).ticks_remaining = NewPd(r).wcet /\ NewPd(r).period = r.period
            /\ NewPd(r).wcet \in Int
    BY <1>1, <1>2, CreateAssumption, TickAssumption DEF NewPd, ZeroPd, Level, Tick
<1>6. InStep({p \in Pid : Periodic(StatesWith, pds, p)}, pds, sys_clock')
    <2>1. \A p \in Pid : pds[p].clockState = "EVEN"
        BY <1>1, <1>2, <1>5
    <2>2. ASSUME NEW p \in Pid, Periodic(StatesWith, pds, p), pds[p].ticks_remaining < pds[p].wcet
          PROVE  pds[p].tons <= sys_clock
        <3>1. CASE p = x
            BY <1>1, <1>4, <1>5, <2>2, <3>1
        <3>2. CASE p # x
            BY <1>1, <1>4, <2>2, <3>2 DEF OrderInv, InStep
        <3>. QED  BY <3>1, <3>2
    <2>. QED  BY <1>2, <2>1, <2>2 DEF InStep
<1>7. \A p \in Pid : Periodic(StatesWith, pds, p) => ClockBound + pds[p].period < TickMod
    BY <1>1, <1>4, <1>5 DEF NoWrap, OrderInv
<1>8. pds \in [Pid -> Descriptor]
    BY <1>1 DEF Dispatches, Filed
<1>9. Ordered(q, pds, sys_clock)
    <2>1. Ordered(q, pd, sys_clock)
        BY DEF OrderInv
    <2>2. \A i \in 1 .. Len(q) : pd[q[i]].tons \in Int /\ pds[q[i]].tons = pd[q[i]].tons
        BY <1>1, <1>2, <1>4
    <2>3. sys_clock \in Int /\ sys_clock <= sys_clock
        BY <1>2
    <2>. HIDE DEF q, pds
    <2>. QED  BY <2>1, <2>2, <2>3, OrderedSame, Zenon
<1>. HIDE DEF pds, x
<1>10. Ordered(QueuesWith(r)["PERIODIC"], pds, sys_clock')
    <2>1. CASE r.priority = "PERIODIC"
        <3>1. QueuesWith(r)["PERIODIC"] = insert(q, x, pds, sys_clock)
            BY <1>2, <2>1 DEF QueuesWith, QueueWith, Level, pds, x
        <3>2. Range(q) \subseteq {p \in Pid : Periodic(StatesWith, pds, p)}
            BY <1>2, <1>4, LenProperties DEF Range
        <3>3. InStep(Range(q), pds, sys_clock)
            BY <1>2, <1>6, <3>2 DEF InStep
        <3>4. Ordered(insert(q, x, pds, sys_clock), pds, sys_clock)
            BY <1>1, <1>2, <1>8, <1>9, <3>3, InsertOrdered
        <3>. QED  BY <1>2, <3>1, <3>4
    <2>2. CASE r.priority # "PERIODIC"
        <3>1. QueuesWith(r)["PERIODIC"] = q
            BY <1>1, <1>2, <2>2 DEF QueuesWith, Level
        <3>. QED  BY <1>2, <1>9, <3>1
    <2>. QED  BY <2>1, <2>2
<1>. QED  BY <1>1, <1>2, <1>6, <1>7, <1>10, KeptOrder

LEMMA OrderTerminate ==
    ASSUME NoWrap, CallsInv, CallsInv', OrderInv, Kernel_Request_Terminate
    PROVE  OrderInv' /\ PeriodicPreempts'
<1>. DEFINE q == queue["PERIODIC"]
<1>1. /\ Dispatches(StatesWithout, pd, QueuesWithout) /\ UNCHANGED clockVars
      /\ Cp \in Pid
      /\ \A p \in Pid \union {Idle} : StatesWithout[p] = IF p = Cp THEN "DEAD" ELSE state[p]
    BY TerminateDispatches
<1>2. /\ sys_clock' = sys_clock /\ sys_clock' <= ClockBound /\ clock_state' = "EVEN"
      /\ q \in Seq(Pid) /\ Ordered(q, pd, sys_clock) /\ queue \in [Level -> Seq(Pid)]
    BY <1>1, OrderFacts DEF OrderInv, clockVars
<1>3. \A p \in Pid : Periodic(StatesWithout, pd, p) => Periodic(state, pd, p)
    BY <1>1 DEF Periodic
<1>4. InStep({p \in Pid : Periodic(StatesWithout, pd, p)}, pd, sys_clock')
    BY <1>2, <1>3 DEF OrderInv, InStep
<1>5. \A p \in Pid : Periodic(StatesWithout, pd, p) => ClockBound + pd[p].period < TickMod
    BY <1>3 DEF OrderInv
<1>6. queue[pd[Cp].priority] # <<>>
    BY Caller DEF CallsInv, Kernel_Request_Terminate
<1>7. QueuesWithout["PERIODIC"] \in {q, Tail(q)} /\ (QueuesWithout["PERIODIC"] # q => q # <<>>)
    BY <1>2, <1>6 DEF QueuesWithout, Level
<1>8. Ordered(QueuesWithout["PERIODIC"], pd, sys_clock')
    BY <1>2, <1>7, TailOrdered
<1>. QED  BY <1>1, <1>2, <1>4, <1>5, <1>8, KeptOrder

LEMMA OrderStep ==
    ASSUME NoWrap, CallsInv, CallsInv', OrderInv, PeriodicPreempts, [Next]_vars
    PROVE  OrderInv' /\ PeriodicPreempts'
<1>1. CASE Stays
    <2>1. /\ UNCHANGED <<Cp, pd, queue, sys_clock, clock_state>>
          /\ \/ state' = state /\ (abort' = abort \/ abort' # "NONE")
             \/ Requesting /\ state' = Entered /\ abort' = abort
        BY <1>1 DEF Stays, clockVars
    <2>2. /\ \A p \in Pid : state'[p] = "DEAD" <=> state[p] = "DEAD"
          /\ abort' = "NONE" => abort = "NONE"
        BY <2>1, EnteredFiled DEF CallsInv, Requesting
    <2>3. OrderInv'
        BY <2>1, <2>2 DEF OrderInv, InStep, Periodic, Ordered
    <2>4. PeriodicPreempts'
        BY <2>1, <2>2 DEF PeriodicPreempts, RunsAt, IsDue, Live
    <2>. QED  BY <2>3, <2>4
<1>2. CASE Kernel_Start
    <2>1. Chooses(state, pd, queue) /\ sys_clock' = sys_clock /\ clock_state' = clock_state
        BY <1>2, StartChooses DEF clockVars
    <2>. QED  BY <2>1, ChoosesOrder DEF OrderInv
<1>3. CASE Plain
    <2>1. PICK st \in [Pid \union {Idle} -> ProcessState] :
                /\ Dispatches(st, pd, queue)
                /\ \A p \in Pid : st[p] = "DEAD" <=> state[p] = "DEAD"
        BY <1>3 DEF Plain
    <2>2. sys_clock' = sys_clock /\ clock_state' = clock_state
        BY <1>3 DEF Plain, clockVars
    <2>3. \A p \in Pid : Periodic(st, pd, p) <=> Periodic(state, pd, p)
        BY <2>1 DEF Periodic
    <2>4. InStep({p \in Pid : Periodic(st, pd, p)}, pd, sys_clock')
        BY <2>2, <2>3 DEF OrderInv, InStep
    <2>5. \A p \in Pid : Periodic(st, pd, p) => ClockBound + pd[p].period < TickMod
        BY <2>3 DEF OrderInv
    <2>. QED  BY <2>1, <2>2, <2>4, <2>5, KeptOrder DEF OrderInv
<1>. QED  BY <1>1, <1>2, <1>3, OrderNext, OrderTimer, OrderCreate, OrderTerminate, StepForms

LEMMA InitOrder == Init => OrderInv /\ PeriodicPreempts
<1>. SUFFICES ASSUME Init PROVE OrderInv /\ PeriodicPreempts
    OBVIOUS
<1>1. /\ sys_clock = 0 /\ clock_state = "EVEN" /\ \A p \in Pid : pd[p] = ZeroPd
      /\ queue["PERIODIC"] = <<>> /\ Cp = NoProc
    BY DEF Init, Level
<1>2. \A p \in Pid : pd[p].priority = "SYSTEM" /\ pd[p].clockState = "EVEN"
    BY <1>1 DEF ZeroPd
<1>3. \A p \in Pid : ~ Periodic(state, pd, p)
    BY <1>2 DEF Periodic
<1>4. Ordered(<<>>, pd, sys_clock)
    BY DEF Ordered
<1>5. OrderInv
    <2>1. sys_clock <= ClockBound /\ Cp \notin Pid
        BY <1>1, PidFacts, TickAssumption
    <2>2. InStep({p \in Pid : Periodic(state, pd, p)}, pd, sys_clock)
        BY <1>2, <1>3 DEF InStep
    <2>. QED  BY <1>1, <1>3, <1>4, <2>1, <2>2 DEF OrderInv
<1>6. PeriodicPreempts
    BY <1>1, PidFacts DEF PeriodicPreempts, RunsAt
<1>. QED  BY <1>5, <1>6

\* The inductive invariant of the order of the PERIODIC queue, and the precedence
\* of the tasks that are due that Dispatch draws from it.
THEOREM OrderInvariant == ASSUME NoWrap PROVE Spec => [](OrderInv /\ PeriodicPreempts)
<1>1. Init => OrderInv /\ PeriodicPreempts
    BY InitOrder
<1>2. CallsInv /\ CallsInv' /\ OrderInv /\ PeriodicPreempts /\ [Next]_vars =>
            OrderInv' /\ PeriodicPreempts'
    BY OrderStep
<1>. QED  BY <1>1, <1>2, CallsInvariant, PTL DEF Spec

\* As long as no start time wraps, the PERIODIC queue is in the order Dispatch
\* takes it to be in: the tasks that are due first, the others by their start
\* times (insert, Task_Next and the termination of the task at the front).
THEOREM QueueInOrder == ASSUME NoWrap PROVE Spec => []PeriodicOrder
<1>1. CallsInv /\ OrderInv => PeriodicOrder
    <2>1. SUFFICES ASSUME CallsInv, OrderInv,
                          NEW i \in 1 .. Len(queue["PERIODIC"]),
                          NEW j \in 1 .. Len(queue["PERIODIC"]), i < j
                   PROVE  LET p == queue["PERIODIC"][i]
                              next == queue["PERIODIC"][j]
                          IN  /\ IsDue(next) => IsDue(p)
                              /\ ~ IsDue(p) => ~ later(pd[p], pd[next])
        BY DEF PeriodicOrder
    <2>. DEFINE p == queue["PERIODIC"][i]
                next == queue["PERIODIC"][j]
    <2>2. pd[p].tons <= sys_clock \/ pd[p].tons <= pd[next].tons
        BY <2>1 DEF OrderInv, Ordered
    <2>3. /\ p \in Pid /\ next \in Pid /\ Periodic(state, pd, p)
          /\ pd[p].tons \in Int /\ pd[next].tons \in Int /\ sys_clock \in Int
          /\ pd[p].clockState = "EVEN" /\ pd[next].clockState = "EVEN" /\ clock_state = "EVEN"
        <3>1. /\ sys_clock \in Int /\ clock_state = "EVEN"
              /\ \A o \in Pid : pd[o].tons \in Nat /\ pd[o].clockState = "EVEN"
              /\ \A k \in 1 .. Len(queue["PERIODIC"]) :
                    queue["PERIODIC"][k] \in Pid /\ Periodic(state, pd, queue["PERIODIC"][k])
            BY <2>1, OrderFacts DEF OrderInv
        <3>2. p \in Pid /\ Periodic(state, pd, p) /\ next \in Pid
            BY <3>1
        <3>. HIDE DEF p, next
        <3>. QED  BY <3>1, <3>2
    <2>. HIDE DEF p, next
    <2>4. IsDue(next) => IsDue(p)
        BY <2>2, <2>3 DEF IsDue, Periodic, Live
    <2>5. ~ IsDue(p) => ~ later(pd[p], pd[next])
        BY <2>2, <2>3 DEF IsDue, Periodic, Live, later
    <2>. QED  BY <2>4, <2>5 DEF p, next
<1>. QED  BY <1>1, OrderInvariant, CallsInvariant, PTL

\* As long as no start time wraps, no PERIODIC task that is due waits while an
\* RR task or the idle process has the processor, although Dispatch looks at
\* the front of the queue only.
THEOREM PeriodicFirst == ASSUME NoWrap PROVE Spec => []PeriodicPreempts
BY OrderInvariant, PTL

=============================================================================
