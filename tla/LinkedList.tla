---------------------------- MODULE LinkedList ----------------------------
(***************************************************************************)
(* A singly linked list through the next fields of its elements: a list is *)
(* a record of its head, its tail and its length, next[e] what element e   *)
(* points to.  Nothing here assumes that the list is well formed.          *)
(***************************************************************************)
EXTENDS Naturals, FiniteSets, Sequences

CONSTANT NULL

EmptyList == [head |-> NULL, tail |-> NULL, length |-> 0]

After(next, e) == IF e = NULL THEN NULL ELSE next[e]

\* The elements met when next is followed from the head, and then NULL; a walk
\* of as many steps as there are elements.
Walk(list, next) ==
    LET node[i \in 0 .. Cardinality(DOMAIN next)] ==
            IF i = 0 THEN list.head ELSE After(next, node[i - 1])
    IN  node

\* The step at which a walk that goes on past the elements of passed ends.
StopsAt(list, next, passed) ==
    LET node == Walk(list, next)
    IN  CHOOSE k \in DOMAIN node :
            /\ node[k] \notin passed
            /\ \A i \in 0 .. k - 1 : node[i] \in passed

\* The element a walk ends at, or NULL, and the one before it, or NULL.
Stop(list, next, passed) == Walk(list, next)[StopsAt(list, next, passed)]
BeforeStop(list, next, passed) ==
    LET k == StopsAt(list, next, passed)
    IN  IF k = 0 THEN NULL ELSE Walk(list, next)[k - 1]

\* The list as a sequence.
Followed(list, next) ==
    [i \in 1 .. StopsAt(list, next, DOMAIN next) |-> Walk(list, next)[i - 1]]

\* Its elements are met once each, the last is the tail and points to nothing,
\* and there are as many as its length says.
WellFormed(list, next) ==
    LET node == Walk(list, next)
    IN  /\ node[list.length] = NULL
        /\ \A i \in 0 .. list.length - 1 :
              node[i] # NULL /\ \A j \in 0 .. i - 1 : node[j] # node[i]
        /\ list.tail = IF list.length = 0 THEN NULL ELSE node[list.length - 1]

=============================================================================
