--------------------------- MODULE TaskQueueList ---------------------------
(***************************************************************************)
(* The task queues as process.c keeps them: three linked lists that share  *)
(* the next fields of the descriptors.  A task leaves one list and may     *)
(* enter another, when its descriptor is used again; enqueue does not      *)
(* clear its next field, so it must come with none.                        *)
(*                                                                         *)
(* free stands for what the kernel's callers know: the descriptors that    *)
(* are dead or have just been taken from their list.  Which elements the   *)
(* walk of insert passes depends on the start times; here it is any set.   *)
(***************************************************************************)
EXTENDS LinkedList

CONSTANT Task

ASSUME TaskAssumption == IsFiniteSet(Task) /\ NULL \notin Task

Level == {"SYSTEM", "PERIODIC", "RR"}         \* enum priority_level

VARIABLES
    tasks,      \* system_tasks, periodic_tasks, rr_tasks
    next,       \* the next fields of the descriptors
    free        \* tasks that no list should hold

taskVars == <<tasks, next, free>>

TaskInit ==
    /\ tasks = [level \in Level |-> EmptyList]
    /\ next = [task \in Task |-> NULL]
    /\ free = Task

\* The list without its first element.
Shortened(list) ==
    IF list.length = 1
    THEN EmptyList
    ELSE [list EXCEPT !.head = After(next, @), !.length = @ - 1]

\* The element that is returned refers to the queue no more.
Cleared(level) == [next EXCEPT ![tasks[level].head] = NULL]

deque(level) ==
    /\ tasks[level].length > 0
    /\ next' = Cleared(level)
    /\ tasks' = [tasks EXCEPT ![level] = Shortened(@)]
    /\ free' = free \union {tasks[level].head}

\* enqueue: the list and the next fields with task at the end.
Enqueued(list, task) ==
    IF list.length = 0
    THEN [head |-> task, tail |-> task, length |-> 1]
    ELSE [list EXCEPT !.tail = task, !.length = @ + 1]
Linked(list, task) ==
    IF list.length = 0 THEN next ELSE [next EXCEPT ![list.tail] = task]

enqueue(level, task) ==
    /\ task \in free
    /\ tasks' = [tasks EXCEPT ![level] = Enqueued(@, task)]
    /\ next' = Linked(tasks[level], task)
    /\ free' = free \ {task}

\* insert: the head and the tail, between prev and element; next likewise.
InsertedList(list, task, element, prev) ==
    [list EXCEPT !.head = IF prev = NULL THEN task ELSE @,
                 !.tail = IF prev # NULL /\ element = NULL THEN task ELSE @,
                 !.length = @ + 1]

\* As project 2's kernel had it (src/project2/process.c:144).
InsertedNext_BehindElement(task, element, prev) ==
    LET before == IF NULL \in {prev, element} THEN prev ELSE element
    IN  [e \in Task |-> IF e = task THEN element ELSE IF e = before THEN task ELSE next[e]]

InsertedNext(task, element, prev) ==
    [e \in Task |-> IF e = task THEN element ELSE IF e = prev THEN task ELSE next[e]]

insert(task, passed) ==
    /\ task \in free
    /\ LET list == tasks["PERIODIC"]
           element == Stop(list, next, passed)
           prev == BeforeStop(list, next, passed)
       IN  IF list.length = 0
           THEN /\ tasks' = [tasks EXCEPT !["PERIODIC"] = Enqueued(@, task)]
                /\ next' = Linked(list, task)
           ELSE /\ tasks' = [tasks EXCEPT !["PERIODIC"] = InsertedList(@, task, element, prev)]
                /\ next' = InsertedNext(task, element, prev)
    /\ free' = free \ {task}

TaskNext ==
    \/ \E level \in Level : deque(level)
    \/ \E level \in Level \ {"PERIODIC"}, task \in Task : enqueue(level, task)
    \/ \E task \in Task, passed \in SUBSET Task : insert(task, passed)

=============================================================================
