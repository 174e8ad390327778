---------------------------- MODULE KernelQueues ----------------------------
(***************************************************************************)
(* What the rest of the kernel relies on: the task queues and the message  *)
(* queue are sequences.  Kernel is written in these terms.                 *)
(***************************************************************************)
EXTENDS Naturals, SequencesExt

CONSTANTS Task, Slot

VARIABLES
    queue,      \* of each level, front first
    free,       \* the tasks that were taken out, or never put in
    msg_queue,
    idle        \* the messages that were taken out, or never sent

vars == <<queue, free, msg_queue, idle>>

Level == {"SYSTEM", "PERIODIC", "RR"}

Init ==
    /\ queue = [level \in Level |-> <<>>]
    /\ msg_queue = <<>>
    /\ free = Task /\ idle = Slot

\* The first place where the element is not in passed, or one past the end.
Place(q, passed) ==
    CHOOSE i \in 1 .. Len(q) + 1 :
        /\ i <= Len(q) => q[i] \notin passed
        /\ \A j \in 1 .. i - 1 : q[j] \in passed

Deque(level) ==
    /\ queue[level] # <<>>
    /\ free' = free \union {Head(queue[level])}
    /\ queue' = [queue EXCEPT ![level] = Tail(@)]
    /\ UNCHANGED <<msg_queue, idle>>

Enter(level, task, q) ==
    /\ task \in free
    /\ free' = free \ {task}
    /\ queue' = [queue EXCEPT ![level] = q]
    /\ UNCHANGED <<msg_queue, idle>>

Enqueue(level, task) == Enter(level, task, Append(queue[level], task))

Insert(task, passed) ==
    LET q == queue["PERIODIC"] IN Enter("PERIODIC", task, InsertAt(q, Place(q, passed), task))

Send(slot) ==
    /\ slot \in idle
    /\ idle' = idle \ {slot}
    /\ msg_queue' = Append(msg_queue, slot)
    /\ UNCHANGED <<queue, free>>

\* The first message that fits, if there is one.
Find(fits) ==
    LET k == Place(msg_queue, Slot \ fits)
    IN  /\ k <= Len(msg_queue)
        /\ idle' = idle \union {msg_queue[k]}
        /\ msg_queue' = RemoveAt(msg_queue, k)
        /\ UNCHANGED <<queue, free>>

Next ==
    \/ \E level \in Level : Deque(level)
    \/ \E level \in Level \ {"PERIODIC"}, task \in Task : Enqueue(level, task)
    \/ \E task \in Task, passed \in SUBSET Task : Insert(task, passed)
    \/ \E slot \in Slot : Send(slot)
    \/ \E fits \in SUBSET Slot : Find(fits)

Spec == Init /\ [][Next]_vars

=============================================================================
