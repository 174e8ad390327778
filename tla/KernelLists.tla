---------------------------- MODULE KernelLists ----------------------------
(***************************************************************************)
(* The linked lists of the kernel together, and the queues they implement. *)
(* The kernel works on one at a time.                                      *)
(***************************************************************************)
EXTENDS TaskQueueList, MsgQueueList, TLC

ListInit == TaskInit /\ MsgInit

ListNext ==
    \/ TaskNext /\ UNCHANGED msgVars
    \/ MsgNext /\ UNCHANGED taskVars

\* Tasks and messages are not told apart.
ListSymmetry == Permutations(Task) \union Permutations(Slot)

ListSpec == ListInit /\ [][ListNext]_<<taskVars, msgVars>>

-----------------------------------------------------------------------------

\* Whatever the order of creations, rotations, insertions and terminations,
\* and wherever msg_find_receiver takes a message out, the head, the tail, the
\* length and the next fields of every list agree, and what has left a list
\* carries no reference into it (process.c:64, message.c:77-94).
ListsWellFormed ==
    /\ \A level \in Level : WellFormed(tasks[level], next)
    /\ \A task \in free : next[task] = NULL
    /\ WellFormed(msg_list, msg_next)
    /\ \A slot \in idle : msg_next[slot] = NULL

Queues == INSTANCE KernelQueues WITH
    queue <- [level \in Level |-> Followed(tasks[level], next)],
    msg_queue <- Followed(msg_list, msg_next)

\* The lists are the sequences that the kernel takes them for: no operation
\* loses, doubles or moves another element, and what it returns is the front,
\* or the first message that fits.
ListsAreQueues == Queues!Spec

=============================================================================
