---------------------------- MODULE MsgQueueList ----------------------------
(***************************************************************************)
(* The message queue as message.c keeps it: a linked list through the      *)
(* entries of Messages[], from any place of which msg_find_receiver takes  *)
(* the first that fits.  The kernel enqueues the entry of the current      *)
(* task, which is in the list already only while that task is blocked;     *)
(* idle holds the entries that are not.  Which entries fit a receiver and  *)
(* its mask is any set here.                                               *)
(***************************************************************************)
EXTENDS LinkedList

CONSTANT Slot

ASSUME SlotAssumption == IsFiniteSet(Slot) /\ NULL \notin Slot

VARIABLES
    msg_list,   \* msg_queue
    msg_next,   \* Messages[].next
    idle        \* entries that should not be in the list

msgVars == <<msg_list, msg_next, idle>>

MsgInit ==
    /\ msg_list = EmptyList
    /\ msg_next = [slot \in Slot |-> NULL]
    /\ idle = Slot

msg_enqueue(slot) ==
    /\ slot \in idle
    /\ LET empty == msg_list.length = 0
       IN  /\ msg_list' = [head |-> IF empty THEN slot ELSE msg_list.head,
                           tail |-> slot,
                           length |-> msg_list.length + 1]
           /\ msg_next' = IF empty THEN msg_next
                          ELSE [msg_next EXCEPT ![msg_list.tail] = slot]
    /\ idle' = idle \ {slot}

\* The list without curr, which prev points to: the only element, the first,
\* the last or one in the middle.
UnlinkedList(curr, prev) ==
    [msg_list EXCEPT !.head = IF curr = @ THEN msg_next[curr] ELSE @,
                     !.tail = IF curr # @ THEN @ ELSE prev,
                     !.length = @ - 1]

\* What follows the entry is lost with it.
UnlinkedNext_DropsRest(curr, prev) ==
    [slot \in Slot |-> IF slot \in {curr, prev} THEN NULL ELSE msg_next[slot]]

UnlinkedNext(curr, prev) ==
    [slot \in Slot |-> CASE slot = curr -> NULL
                         [] slot = prev -> msg_next[curr]
                         [] OTHER -> msg_next[slot]]

\* Nothing changes when no message is found.
msg_find_receiver(fits) ==
    LET curr == Stop(msg_list, msg_next, Slot \ fits)
        prev == BeforeStop(msg_list, msg_next, Slot \ fits)
    IN  /\ curr # NULL
        /\ msg_list' = UnlinkedList(curr, prev)
        /\ msg_next' = UnlinkedNext(curr, prev)
        /\ idle' = idle \union {curr}

MsgNext ==
    \/ \E slot \in Slot : msg_enqueue(slot)
    \/ \E fits \in SUBSET Slot : msg_find_receiver(fits)

=============================================================================
