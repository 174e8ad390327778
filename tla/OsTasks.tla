------------------------------ MODULE OsTasks ------------------------------
(***************************************************************************)
(* The stubs of os.c around Kernel.  Msg_Send and Msg_Recv do something    *)
(* more when the kernel gives their task the processor again: with         *)
(* interrupts enabled, as a step of the task, that other tasks and the     *)
(* tick may come before.  Msg_Recv then reads the sender's own variable,   *)
(* through the pointer the kernel has passed on.                           *)
(*                                                                         *)
(* The tasks keep to the protocol: a task replies to those it received a   *)
(* message from, once.  The kernel does not ask for it.  Task_Pid,         *)
(* Task_GetArg and Now return at once and OS_Abort never does: they are    *)
(* left to Kernel.                                                         *)
(***************************************************************************)
EXTENDS MCKernel

CONSTANTS
    SentBy,         \* SentBy[p], the values task p passes in messages
    AnsweredBy      \* AnsweredBy[p], the values task p passes in replies

VARIABLES
    variable,       \* the uint16_t variable each task passes to its message calls
    stub,           \* the stub each task is in: "none", "send" or "recv"
    clients         \* whom each task has a message from that it has not replied to

osVars == <<vars, variable, stub, clients>>

OsInit ==
    /\ Init
    /\ variable = [p \in Pid |-> 0]
    /\ stub = [p \in Pid |-> "none"]
    /\ clients = [p \in Pid |-> {}]

\* The current task is in its own code, and calls a stub next.
InTask == Cp \in Pid /\ stub[Cp] = "none"

Calls(name) == stub' = [stub EXCEPT ![Cp] = name]

\* The kernel stops at a PERIODIC task's call for a message: what the stub had
\* done before is not recorded, as in Kernel.
Stops == UNCHANGED <<variable, stub>>

-----------------------------------------------------------------------------

Msg_Send(to, mask, v) ==
    /\ InTask
    /\ v \in SentBy[Cp]
    /\ Kernel_Request_MsgSend(to, mask)
    /\ IF MayBlock THEN variable' = [variable EXCEPT ![Cp] = v] /\ Calls("send") ELSE Stops
    /\ UNCHANGED clients

\* *v = info.msg_data
Msg_Send_returns ==
    /\ abort = "NONE" /\ Cp \in Pid /\ stub[Cp] = "send"
    /\ variable' = [variable EXCEPT ![Cp] = req[Cp].msg_data]
    /\ Calls("none")
    /\ UNCHANGED <<vars, clients>>

\* The variable is one the task has just declared.
Msg_Recv(mask) ==
    /\ InTask
    /\ Kernel_Request_MsgRecv(mask)
    /\ IF MayBlock THEN variable' = [variable EXCEPT ![Cp] = 0] /\ Calls("recv") ELSE Stops
    /\ UNCHANGED clients

\* The kernel's own copy is taken for a message's value.
Delivered_MsgData(info) == info.msg_data

\* The value *v gets: the sender's variable, or an asynchronous send's data.
Delivered(info) ==
    IF info.msg_ptr_data # NULL THEN variable[info.msg_ptr_data] ELSE info.msg_data

\* An asynchronous message is not replied to: its type tells it from others.
Msg_Recv_returns ==
    /\ abort = "NONE" /\ Cp \in Pid /\ stub[Cp] = "recv"
    /\ variable' = [variable EXCEPT ![Cp] = Delivered(req[Cp])]
    /\ Calls("none")
    /\ clients' = IF req[Cp].msg_ptr_data # NULL
                  THEN [clients EXCEPT ![Cp] = @ \union {req[Cp].out_pid}]
                  ELSE clients
    /\ UNCHANGED vars

Msg_Rply(to, data) ==
    /\ InTask
    /\ to \in clients[Cp] /\ data \in AnsweredBy[Cp]
    /\ Kernel_Request_MsgRply(to, data)
    /\ clients' = IF MayBlock THEN [clients EXCEPT ![Cp] = @ \ {to}] ELSE clients
    /\ UNCHANGED <<variable, stub>>

Msg_ASend(to, mask, data) ==
    /\ InTask
    /\ data \in SentBy[Cp]
    /\ Kernel_Request_MsgASend(to, mask, data)
    /\ UNCHANGED <<variable, stub, clients>>

\* A new task in the descriptor of this one has received nothing; the variable
\* goes with the stack it was on.
Task_Terminate ==
    /\ InTask
    /\ Kernel_Request_Terminate
    /\ clients' = [clients EXCEPT ![Cp] = {}]
    /\ variable' = [variable EXCEPT ![Cp] = 0]
    /\ UNCHANGED stub

Task_Create(r) ==
    /\ InTask
    /\ Kernel_Request_Create(r)
    /\ UNCHANGED <<variable, stub, clients>>

Task_Next ==
    /\ InTask
    /\ Kernel_Request_Next
    /\ UNCHANGED <<variable, stub, clients>>

\* No stub's code runs.
OutsideTasks ==
    /\ Kernel_Start \/ Kernel_Request_Timer \/ Halted
    /\ UNCHANGED <<variable, stub, clients>>

OsNext ==
    \/ \E to \in Pid \union {BadId}, mask \in Masks, v \in Data : Msg_Send(to, mask, v)
    \/ Msg_Send_returns
    \/ \E mask \in Masks : Msg_Recv(mask)
    \/ Msg_Recv_returns
    \/ \E to \in Pid, data \in Data : Msg_Rply(to, data)
    \/ \E to \in Pid, mask \in Masks, data \in Data : Msg_ASend(to, mask, data)
    \/ Task_Terminate
    \/ \E r \in CreateRequests : Task_Create(r)
    \/ Task_Next
    \/ OutsideTasks

OsSpec == OsInit /\ [][OsNext]_osVars

-----------------------------------------------------------------------------

\* The tasks that have p's message: received it, or are about to return with it.
Servers(p) ==
    {r \in Pid :
        \/ p \in clients[r]
        \/ stub[r] = "recv" /\ state[r] # "RECV_BLOCK" /\ req[r].msg_ptr_data = p}

\* A message that has been received has one task that may reply to it, and its
\* sender waits, inside Msg_Send, until that task does: it is neither released
\* nor gone, and its variable is still there to be read.
OneServer ==
    \A p \in Pid :
        /\ Cardinality(Servers(p)) <= 1
        /\ Servers(p) # {} => state[p] = "REPLY_BLOCK" /\ stub[p] = "send"

\* The call of Rendezvous that task p is in.
SendOf(p) ==
    CASE state[p] = "SEND_BLOCK" ->
            IF p \in Range(msg_queue)
            THEN [op |-> "send", to |-> Messages[p].receiver,
                  mask |-> Messages[p].mask, value |-> variable[p]]
            ELSE [op |-> "lost"]
      [] state[p] = "REPLY_BLOCK" ->
            IF Servers(p) # {}
            THEN [op |-> "await", server |-> CHOOSE r \in Servers(p) : TRUE]
            ELSE [op |-> "lost"]
      [] OTHER -> [op |-> "replied", value |-> req[p].msg_data]

CallOf(p) ==
    CASE stub[p] = "none" -> [op |-> "none"]
      [] stub[p] = "send" -> SendOf(p)
      [] stub[p] = "recv" ->
            IF state[p] = "RECV_BLOCK"
            THEN [op |-> "recv", mask |-> req[p].msg_mask]
            ELSE [op |-> "received", value |-> Delivered(req[p])]

Abstract == INSTANCE Rendezvous WITH
                Task <- Pid, Mask <- Masks, Value <- Data,
                call <- [p \in Pid |-> CallOf(p)], result <- variable

\* The kernel and the stubs keep the promise of Rendezvous: across every
\* preemption between a handler and the copies its stubs make, each call gets
\* the value its own partner passed.
KeepsRendezvous == Abstract!Spec

=============================================================================
