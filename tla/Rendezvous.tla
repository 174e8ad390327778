----------------------------- MODULE Rendezvous -----------------------------
(***************************************************************************)
(* What Msg_Send, Msg_Recv, Msg_Rply and Msg_ASend promise their callers,  *)
(* with no kernel, no scheduling and no memory: a send gives its value to  *)
(* exactly one receive of the task it names, the task that received it and *)
(* no other ends it with a reply, and each call returns the value its      *)
(* partner passed.  os.h calls it QNX-style message passing.               *)
(*                                                                         *)
(* Termination is part of the promise as the kernel makes it: the calls    *)
(* that wait for the task that ends never return.                          *)
(***************************************************************************)
EXTENDS Naturals

CONSTANTS Task, Mask, Value

VARIABLES
    call,       \* the message call each task is in
    result      \* what the variable a task passed to its last call holds

NoCall == [op |-> "none"]
Sending(to, mask, v) == [op |-> "send", to |-> to, mask |-> mask, value |-> v]
Awaiting(server) == [op |-> "await", server |-> server]
Replied(v) == [op |-> "replied", value |-> v]
Receiving(mask) == [op |-> "recv", mask |-> mask]
Received(v) == [op |-> "received", value |-> v]
Lost == [op |-> "lost"]

Init ==
    /\ call = [p \in Task |-> NoCall]
    /\ result = [p \in Task |-> 0]

\* The send s is one that the receive on mask by task r can take.
Fits(s, r, mask) == s.op = "send" /\ s.to = r /\ s.mask \intersect mask # {}

\* The send's variable holds the value until the send returns.
Send(p, to, mask, v) ==
    /\ result' = [result EXCEPT ![p] = v]
    /\ IF call[to].op = "recv" /\ call[to].mask \intersect mask # {}
       THEN call' = [call EXCEPT ![p] = Awaiting(to), ![to] = Received(v)]
       ELSE call' = [call EXCEPT ![p] = Sending(to, mask, v)]

\* A send to no task returns 0 at once.
Refuse(p, v) ==
    /\ result' = [result EXCEPT ![p] = v]
    /\ call' = [call EXCEPT ![p] = Replied(0)]

Receive(p, mask) ==
    /\ result' = [result EXCEPT ![p] = 0]
    /\ \/ \E s \in Task :
            /\ Fits(call[s], p, mask)
            /\ call' = [call EXCEPT ![s] = Awaiting(p), ![p] = Received(call[s].value)]
       \/ /\ \A s \in Task : ~ Fits(call[s], p, mask)
          /\ call' = [call EXCEPT ![p] = Receiving(mask)]

Reply(p, to, v) ==
    /\ UNCHANGED result
    /\ call[to] = Awaiting(p)
    /\ call' = [call EXCEPT ![to] = Replied(v)]

\* An asynchronous message to a task that waits for it; otherwise no step.
ASend(p, to, mask, v) ==
    /\ UNCHANGED result
    /\ call[to].op = "recv" /\ call[to].mask \intersect mask # {}
    /\ call' = [call EXCEPT ![to] = Received(v)]

Return(p) ==
    /\ call[p].op \in {"replied", "received"}
    /\ result' = [result EXCEPT ![p] = call[p].value]
    /\ call' = [call EXCEPT ![p] = NoCall]

Terminate(p) ==
    /\ result' = [result EXCEPT ![p] = 0]
    /\ call' = [q \in Task |->
                  IF call[q] = Awaiting(p) \/ Fits(call[q], p, call[q].mask)
                  THEN Lost ELSE call[q]]

\* What a task that is in no call may do.
Begin(p) ==
    \/ \E to \in Task, mask \in Mask, v \in Value : Send(p, to, mask, v)
    \/ \E v \in Value : Refuse(p, v)
    \/ \E mask \in Mask : Receive(p, mask)
    \/ \E to \in Task, v \in Value : Reply(p, to, v)
    \/ \E to \in Task, mask \in Mask, v \in Value : ASend(p, to, mask, v)
    \/ Terminate(p)

Next ==
    \E p \in Task :
        \/ call[p] = NoCall /\ Begin(p)
        \/ Return(p)

Spec == Init /\ [][Next]_<<call, result>>

=============================================================================
