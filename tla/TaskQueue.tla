----------------------------- MODULE TaskQueue -----------------------------
(***************************************************************************)
(* The kernel's task queues (common/kernel/process.c) as sequences of task *)
(* descriptors, with the head of the list at index 1, and the two kernel   *)
(* helpers that are nothing but queue operations: the move of the current  *)
(* task to the end of its queue (first half of Dispatch) and               *)
(* Queue_Rotate_Ready.                                                     *)
(*                                                                         *)
(* The operators take the descriptors they read as arguments: state[p] is  *)
(* the PROCESS_STATE of task p, pd[p] the record of its scheduling fields  *)
(* (priority, period, wcet, tons, ticks_remaining, clockState).            *)
(*                                                                         *)
(* X_Suffix, before X, is a plausible mistake in X: a run that checks a    *)
(* property of the kernel finds it broken when X is replaced by it.        *)
(***************************************************************************)
EXTENDS Naturals, SequencesExt

Level == {"SYSTEM", "PERIODIC", "RR"}         \* enum priority_level
OverflowState == {"EVEN", "ODD"}              \* enum overflow_state

\* The other overflow state: the clock, or a start time, has wrapped.
Flipped(overflow) == IF overflow = "EVEN" THEN "ODD" ELSE "EVEN"

-----------------------------------------------------------------------------

enqueue(q, task) == Append(q, task)

\* The front task is not moved.
ToEnd_Stays(q) == q

\* enqueue(q, deque(q)): the front task goes to the end.
ToEnd(q) == Append(Tail(q), Head(q))

\* Is start time t1 after start time t2, given the clock's wrap state of each?
later(t1, t2) ==
    \/ t1.clockState # t2.clockState /\ t1.tons < t2.tons
    \/ t1.clockState = t2.clockState /\ t1.tons > t2.tons

\* The start times are not compared.
InsertPasses_Unsorted(task, el, pd, clock) ==
    pd[el].ticks_remaining < pd[el].wcet \/ pd[el].tons <= clock

\* insert's walk goes past el: task starts after it, or el has begun its
\* period, or el's start time is not after the clock (wrap state ignored).
InsertPasses(task, el, pd, clock) ==
    \/ later(pd[task], pd[el])
    \/ pd[el].ticks_remaining < pd[el].wcet
    \/ pd[el].tons <= clock

\* The index the walk of insert stops at: the first element it does not pass,
\* or one beyond the end.
InsertIndex(q, task, pd, clock) ==
    CHOOSE i \in 1 .. Len(q) + 1 :
        /\ i <= Len(q) => ~ InsertPasses(task, q[i], pd, clock)
        /\ \A j \in 1 .. i - 1 : InsertPasses(task, q[j], pd, clock)

insert(q, task, pd, clock) ==
    InsertAt(q, InsertIndex(q, task, pd, clock), task)

-----------------------------------------------------------------------------

\* Only the front task is looked at.
HasReady_Front(q, state) == q # <<>> /\ state[q[1]] = "READY"

HasReady(q, state) == \E i \in 1 .. Len(q) : state[q[i]] = "READY"

\* The search does not end at the first one.
FirstReady_Last(q, state) ==
    CHOOSE i \in 1 .. Len(q) :
        /\ state[q[i]] = "READY"
        /\ \A j \in i + 1 .. Len(q) : state[q[j]] # "READY"

FirstReady(q, state) ==
    CHOOSE i \in 1 .. Len(q) :
        /\ state[q[i]] = "READY"
        /\ \A j \in 1 .. i - 1 : state[q[j]] # "READY"

\* One task too many moves to the end, and stays at the front.
Queue_Rotate_Ready_OffByOne(q, state) ==
    IF HasReady(q, state)
    THEN LET k == FirstReady(q, state)
         IN  SubSeq(q, k, Len(q)) \o SubSeq(q, 1, k)
    ELSE q

\* Queue_Rotate_Ready on a queue of type SYSTEM or RR: the tasks before the
\* first READY one move to the end, one at a time.  A queue with no READY task
\* is turned once all the way round, and is unchanged.
Queue_Rotate_Ready(q, state) ==
    IF HasReady(q, state)
    THEN LET k == FirstReady(q, state)
         IN  SubSeq(q, k, Len(q)) \o SubSeq(q, 1, k - 1)
    ELSE q

=============================================================================
