---------------------------- MODULE KernelProofs ----------------------------
(***************************************************************************)
(* Theorems of the kernel, for every number of tasks, clock modulus, set   *)
(* of masks, payloads and creation requests.                               *)
(*                                                                         *)
(* The inductive invariant IInv has a half that Dispatch relies on and     *)
(* restores (SchedInv: every live task is filed in the queue of its level, *)
(* the current one at the front) and a half that is the handlers' own      *)
(* (CallInv: the count of tasks, the message queue, the types of the       *)
(* requests).  The two need each other: a message is received from the     *)
(* sender its mailbox names, which is a task, and one that is blocked,     *)
(* only because the sender cannot run while its message is queued; and it  *)
(* cannot run because Dispatch marks only READY tasks.                     *)
(***************************************************************************)
EXTENDS Kernel, SequenceTheorems, FiniteSetTheorems, WellFoundedInduction, TLAPS

-----------------------------------------------------------------------------
(* What the queue operations of TaskQueue return, for every queue.          *)

\* The queue q holds each element of T once, and nothing else.
Lists(q, T) == q \in Seq(T) /\ IsInjective(q) /\ Range(q) = T

-----------------------------------------------------------------------------
(* The least element of a set of naturals, which the CHOOSEs name.          *)

\* A set of naturals that is not empty has a least element (the task creation
\* takes the least dead descriptor).
LEMMA LeastNat ==
    ASSUME NEW T \in SUBSET Nat, T # {}
    PROVE  \E i \in T : \A j \in T : i <= j
<1>1. PICK i \in T : \A j \in T : <<j, i>> \notin OpToRel(<, Nat)
    BY NatLessThanWellFounded, WFMin, Zenon
<1>2. \A j \in T : ~ (j < i)
    BY <1>1, Zenon DEF OpToRel
<1>. QED  BY <1>2

\* A walk from the front of a queue of length n stops at the first index of T.
LEMMA FirstIndex ==
    ASSUME NEW n \in Nat, NEW T \in SUBSET (1 .. n), T # {}
    PROVE  \E i \in T : \A j \in 1 .. i - 1 : j \notin T
<1>1. PICK i \in T : \A j \in T : i <= j
    BY LeastNat
<1>2. \A j \in 1 .. i - 1 : j \notin T
    BY <1>1
<1>. QED  BY <1>2

-----------------------------------------------------------------------------
(* Queues that hold every task once.                                        *)

\* Two queues with no task in common are put together.
LEMMA ListsConcat ==
    ASSUME NEW A, NEW B, NEW s, NEW t,
           Lists(s, A), Lists(t, B), A \intersect B = {}
    PROVE  Lists(s \o t, A \union B)
<1>. DEFINE T == A \union B
<1>1. s \in Seq(T) /\ t \in Seq(T)
    BY SeqMonotonic DEF Lists
<1>2. s \o t \in Seq(T) /\ Range(s \o t) = T
    <2>1. s \o t \in Seq(T)
        BY <1>1, ConcatProperties
    <2>2. Range(s \o t) = Range(s) \union Range(t)
        BY <1>1, RangeConcatenation
    <2>. QED  BY <2>1, <2>2 DEF Lists
<1>3. ASSUME NEW i \in 1 .. Len(s \o t), NEW j \in 1 .. Len(s \o t),
             (s \o t)[i] = (s \o t)[j]
      PROVE  i = j
    <2>1. Len(s) \in Nat /\ Len(t) \in Nat /\ Len(s \o t) = Len(s) + Len(t)
        BY <1>1, ConcatProperties, LenProperties
    <2>2. \A k \in 1 .. Len(s) : (s \o t)[k] = s[k] /\ s[k] \in A
        BY <1>1, <2>1, ConcatProperties, ElementOfSeq DEF Lists
    <2>3. \A k \in Len(s) + 1 .. Len(s) + Len(t) :
                (s \o t)[k] = t[k - Len(s)] /\ t[k - Len(s)] \in B
        BY <1>1, <2>1, ConcatProperties, ElementOfSeq DEF Lists
    <2>4. CASE i <= Len(s) /\ j <= Len(s)
        BY <1>1, <1>3, <2>1, <2>2, <2>4, LenProperties DEF Lists, IsInjective
    <2>5. CASE i > Len(s) /\ j > Len(s)
        <3>1. i - Len(s) \in 1 .. Len(t) /\ j - Len(s) \in 1 .. Len(t)
            BY <2>1, <2>5
        <3>2. t[i - Len(s)] = t[j - Len(s)]
            BY <1>3, <2>1, <2>3, <2>5
        <3>3. i - Len(s) = j - Len(s)
            BY <3>1, <3>2, <1>1, LenProperties DEF Lists, IsInjective
        <3>. QED  BY <3>3, <2>1
    <2>. QED  BY <1>3, <2>1, <2>2, <2>3, <2>4, <2>5
<1>4. IsInjective(s \o t)
    BY <1>2, <1>3, LenProperties DEF IsInjective
<1>. QED  BY <1>2, <1>4 DEF Lists

\* A queue that is cut in two leaves two queues with no task in common.
LEMMA ListsSplit ==
    ASSUME NEW T, NEW s \in Seq(T), NEW t \in Seq(T), Lists(s \o t, T)
    PROVE  /\ Lists(s, Range(s))
           /\ Lists(t, Range(t))
           /\ Range(s) \intersect Range(t) = {}
           /\ Range(s) \union Range(t) = T
<1>1. /\ Len(s) \in Nat /\ Len(t) \in Nat
      /\ DOMAIN s = 1 .. Len(s) /\ DOMAIN t = 1 .. Len(t)
      /\ DOMAIN (s \o t) = 1 .. Len(s) + Len(t)
      /\ \A k \in 1 .. Len(s) + Len(t) :
            (s \o t)[k] = IF k <= Len(s) THEN s[k] ELSE t[k - Len(s)]
    BY ConcatProperties, LenProperties
<1>2. ASSUME NEW i \in 1 .. Len(s) + Len(t), NEW j \in 1 .. Len(s) + Len(t),
             (s \o t)[i] = (s \o t)[j]
      PROVE  i = j
    BY <1>1, <1>2 DEF Lists, IsInjective
<1>3. IsInjective(s)
    BY <1>1, <1>2 DEF IsInjective
<1>4. IsInjective(t)
    <2>1. SUFFICES ASSUME NEW i \in 1 .. Len(t), NEW j \in 1 .. Len(t), t[i] = t[j]
                   PROVE  i = j
        BY <1>1 DEF IsInjective
    <2>2. (s \o t)[i + Len(s)] = t[i] /\ (s \o t)[j + Len(s)] = t[j]
        BY <1>1
    <2>3. i + Len(s) = j + Len(s)
        BY <1>1, <1>2, <2>1, <2>2
    <2>. QED  BY <1>1, <2>3
<1>5. ASSUME NEW i \in 1 .. Len(s), NEW j \in 1 .. Len(t), s[i] = t[j]
      PROVE  FALSE
    <2>1. (s \o t)[i] = s[i] /\ (s \o t)[j + Len(s)] = t[j]
        BY <1>1
    <2>2. i = j + Len(s)
        BY <1>1, <1>2, <1>5, <2>1
    <2>. QED  BY <1>1, <2>2
<1>6. Range(s) \intersect Range(t) = {}
    BY <1>1, <1>5 DEF Range
<1>7. s \in Seq(Range(s)) /\ t \in Seq(Range(t))
    BY SeqOfRange
<1>8. Range(s \o t) = Range(s) \union Range(t)
    BY RangeConcatenation
<1>. QED  BY <1>3, <1>4, <1>6, <1>7, <1>8 DEF Lists

\* The two parts of a queue change places.
LEMMA ListsSwap ==
    ASSUME NEW T, NEW s \in Seq(T), NEW t \in Seq(T), Lists(s \o t, T)
    PROVE  Lists(t \o s, T)
<1>1. /\ Lists(s, Range(s)) /\ Lists(t, Range(t))
      /\ Range(t) \intersect Range(s) = {} /\ Range(t) \union Range(s) = T
    BY ListsSplit
<1>. QED  BY <1>1, ListsConcat

\* The two parts a queue has before and from an index make up the queue.
LEMMA SplitAt ==
    ASSUME NEW T, NEW q \in Seq(T), NEW k \in 1 .. Len(q) + 1
    PROVE  /\ SubSeq(q, 1, k - 1) \in Seq(T)
           /\ SubSeq(q, k, Len(q)) \in Seq(T)
           /\ SubSeq(q, 1, k - 1) \o SubSeq(q, k, Len(q)) = q
<1>1. Len(q) \in Nat
    BY LenProperties
<1>2. \A i \in 1 .. Len(q) : q[i] \in T
    BY ElementOfSeq
<1>3. SubSeq(q, 1, k - 1) \in Seq(T) /\ SubSeq(q, k, Len(q)) \in Seq(T)
    BY <1>1, <1>2, SubSeqProperties
<1>4. SubSeq(q, 1, k - 1) \o SubSeq(q, k - 1 + 1, Len(q)) = SubSeq(q, 1, Len(q))
    <2>1. /\ 1 \in 1 .. Len(q) + 1
          /\ k - 1 \in 1 - 1 .. Len(q)
          /\ Len(q) \in k - 1 .. Len(q)
        BY <1>1
    <2>. QED  BY <2>1, ConcatAdjacentSubSeq
<1>5. k - 1 + 1 = k
    BY <1>1
<1>6. SubSeq(q, 1, Len(q)) = q
    BY SubSeqFull
<1>. QED  BY <1>3, <1>4, <1>5, <1>6

\* A queue of one task.
LEMMA ListsOne ==
    ASSUME NEW x
    PROVE  Lists(<<x>>, {x})
<1>1. <<x>> \in Seq({x}) /\ Len(<<x>>) = 1
    OBVIOUS
<1>2. DOMAIN <<x>> = 1 .. 1
    BY <1>1, LenProperties
<1>. QED  BY <1>1, <1>2 DEF Lists, IsInjective, Range

\* A queue that is not empty is its front task, then the others.
LEMMA FrontFirst ==
    ASSUME NEW T, NEW q \in Seq(T), q # <<>>
    PROVE  /\ Head(q) \in T
           /\ <<Head(q)>> \in Seq(T)
           /\ Tail(q) \in Seq(T)
           /\ <<Head(q)>> \o Tail(q) = q
<1>1. Head(q) \in T /\ Tail(q) \in Seq(T) /\ <<Head(q)>> \in Seq(T)
    BY HeadTailProperties
<1>2. Len(q) \in Nat \ {0}
    BY EmptySeq, LenProperties
<1>3. Tail(q) = SubSeq(q, 2, Len(q))
    BY TailIsSubSeq
<1>4. SubSeq(q, 1, Len(q)) = <<q[1]>> \o SubSeq(q, 1 + 1, Len(q))
    BY <1>2, SubSeqRecursiveFirst
<1>5. SubSeq(q, 1, Len(q)) = q
    BY SubSeqFull
<1>6. Head(q) = q[1]
    BY <1>2
<1>. QED  BY <1>1, <1>3, <1>4, <1>5, <1>6

-----------------------------------------------------------------------------
(* The operations of process.c.                                             *)

\* enqueue adds a task that is not in the queue.
LEMMA EnqueueLists ==
    ASSUME NEW T, NEW q, Lists(q, T), NEW x, x \notin T
    PROVE  Lists(enqueue(q, x), T \union {x})
<1>1. Lists(q \o <<x>>, T \union {x})
    BY ListsOne, ListsConcat
<1>2. q \in Seq(T \union {x})
    BY SeqMonotonic DEF Lists
<1>3. Append(q, x) = q \o <<x>>
    BY <1>2, AppendIsConcat
<1>. QED  BY <1>1, <1>3 DEF enqueue

\* deque takes out the front task.
LEMMA TailLists ==
    ASSUME NEW T, NEW q, Lists(q, T), q # <<>>
    PROVE  Head(q) \in T /\ Lists(Tail(q), T \ {Head(q)})
<1>. DEFINE h == <<Head(q)>>
<1>1. /\ q \in Seq(T) /\ Head(q) \in T
      /\ h \in Seq(T) /\ Tail(q) \in Seq(T) /\ h \o Tail(q) = q
    BY FrontFirst DEF Lists
<1>2. /\ Lists(Tail(q), Range(Tail(q)))
      /\ Range(h) \intersect Range(Tail(q)) = {}
      /\ Range(h) \union Range(Tail(q)) = T
    <2>1. Lists(h \o Tail(q), T)
        BY <1>1
    <2>. HIDE DEF h
    <2>. QED  BY <1>1, <2>1, ListsSplit
<1>3. Range(h) = {Head(q)}
    BY ListsOne DEF Lists
<1>4. Range(Tail(q)) = T \ {Head(q)}
    BY <1>2, <1>3
<1>. QED  BY <1>1, <1>2, <1>4

\* The front task's move to the end keeps the tasks of the queue.
LEMMA ToEndLists ==
    ASSUME NEW T, NEW q, Lists(q, T), q # <<>>
    PROVE  Lists(ToEnd(q), T)
<1>1. Head(q) \in T /\ Lists(Tail(q), T \ {Head(q)})
    BY TailLists
<1>2. Lists(enqueue(Tail(q), Head(q)), (T \ {Head(q)}) \union {Head(q)})
    BY <1>1, EnqueueLists
<1>3. (T \ {Head(q)}) \union {Head(q)} = T
    BY <1>1
<1>. QED  BY <1>2, <1>3 DEF ToEnd, enqueue

\* insert's walk passes the tasks before the index it stops at, and not the one
\* at that index, if the queue has one there.
LEMMA InsertStops ==
    ASSUME NEW T, NEW q \in Seq(T), NEW x, NEW desc, NEW clk
    PROVE  LET k == InsertIndex(q, x, desc, clk)
           IN  /\ k \in 1 .. Len(q) + 1
               /\ k <= Len(q) => ~ InsertPasses(x, q[k], desc, clk)
               /\ \A j \in 1 .. k - 1 : InsertPasses(x, q[j], desc, clk)
<1>. DEFINE Stops == {i \in 1 .. Len(q) + 1 : i <= Len(q) => ~ InsertPasses(x, q[i], desc, clk)}
<1>1. Len(q) \in Nat
    BY LenProperties
<1>2. Len(q) + 1 \in Stops
    BY <1>1
<1>3. PICK i \in Stops : \A j \in 1 .. i - 1 : j \notin Stops
    <2>1. Stops \in SUBSET (1 .. Len(q) + 1) /\ Stops # {} /\ Len(q) + 1 \in Nat
        BY <1>1, <1>2
    <2>. HIDE DEF Stops
    <2>. QED  BY <2>1, FirstIndex
<1>4. \A j \in 1 .. i - 1 : InsertPasses(x, q[j], desc, clk)
    BY <1>1, <1>3
<1>. QED  BY <1>3, <1>4 DEF InsertIndex

\* The new element is at the index, the others before it and behind it.
LEMMA InsertAtElements ==
    ASSUME NEW T, NEW q \in Seq(T), NEW x \in T, NEW k \in 1 .. Len(q) + 1
    PROVE  LET r == InsertAt(q, k, x)
           IN  /\ r \in Seq(T)
               /\ Len(r) = Len(q) + 1
               /\ \A n \in 1 .. Len(q) + 1 :
                    r[n] = IF n < k THEN q[n] ELSE IF n = k THEN x ELSE q[n - 1]
<1>. DEFINE s == SubSeq(q, 1, k - 1)
            t == SubSeq(q, k, Len(q))
            u == s \o <<x>>
<1>1. Len(q) \in Nat /\ k \in Nat
    BY LenProperties
<1>2. \A i \in 1 .. Len(q) : q[i] \in T
    BY ElementOfSeq
<1>3. /\ s \in Seq(T) /\ Len(s) = k - 1
      /\ \A i \in 1 .. k - 1 : s[i] = q[i]
    <2>1. \A i \in 1 .. k - 1 : q[i] \in T
        BY <1>1, <1>2
    <2>2. /\ s \in Seq(T) /\ Len(s) = IF 1 <= k - 1 THEN k - 1 - 1 + 1 ELSE 0
          /\ \A i \in 1 .. k - 1 - 1 + 1 : s[i] = q[1 + i - 1]
        BY <1>1, <2>1, SubSeqProperties
    <2>. HIDE DEF s
    <2>. QED  BY <1>1, <2>2
<1>4. /\ t \in Seq(T) /\ Len(t) = Len(q) - k + 1
      /\ \A i \in 1 .. Len(q) - k + 1 : t[i] = q[k + i - 1]
    <2>1. \A i \in k .. Len(q) : q[i] \in T
        BY <1>1, <1>2
    <2>2. /\ t \in Seq(T) /\ Len(t) = IF k <= Len(q) THEN Len(q) - k + 1 ELSE 0
          /\ \A i \in 1 .. Len(q) - k + 1 : t[i] = q[k + i - 1]
        BY <1>1, <2>1, SubSeqProperties
    <2>. HIDE DEF t
    <2>. QED  BY <1>1, <2>2
<1>5. <<x>> \in Seq(T) /\ Len(<<x>>) = 1 /\ <<x>>[1] = x
    OBVIOUS
<1>6. InsertAt(q, k, x) = u \o t
    BY DEF InsertAt
<1>. DEFINE w == <<x>>
<1>. HIDE DEF s, t
<1>7. /\ u \in Seq(T) /\ Len(u) = k
      /\ \A i \in 1 .. k : u[i] = IF i < k THEN q[i] ELSE x
    <2>1. w \in Seq(T) /\ Len(w) = 1 /\ w[1] = x
        BY <1>5
    <2>. HIDE DEF w
    <2>2. /\ s \o w \in Seq(T)
          /\ Len(s \o w) = Len(s) + Len(w)
          /\ \A i \in 1 .. Len(s) + Len(w) : (s \o w)[i] =
                     IF i <= Len(s) THEN s[i] ELSE w[i - Len(s)]
        BY <1>3, <2>1, ConcatProperties
    <2>3. \A i \in 1 .. k : i < k => i \in 1 .. k - 1 /\ i <= k - 1
        BY <1>1
    <2>4. Len(s) + Len(w) = k /\ k - Len(s) = 1 /\ ~ (k <= Len(s))
        BY <1>1, <1>3, <2>1
    <2>5. ASSUME NEW i \in 1 .. k
          PROVE  (s \o w)[i] = IF i < k THEN q[i] ELSE x
        <3>1. (s \o w)[i] = IF i <= Len(s) THEN s[i] ELSE w[i - Len(s)]
            BY <2>2, <2>4
        <3>2. CASE i < k
            <4>1. i \in 1 .. k - 1 /\ i <= Len(s)
                BY <1>1, <1>3, <3>2
            <4>. QED  BY <1>3, <3>1, <3>2, <4>1
        <3>3. CASE i = k
            BY <2>1, <2>4, <3>1, <3>3
        <3>4. i < k \/ i = k
            BY <1>1
        <3>. QED  BY <3>2, <3>3, <3>4
    <2>. QED  BY <2>2, <2>4, <2>5 DEF w
<1>. HIDE DEF u, w
<1>8. /\ u \o t \in Seq(T)
      /\ Len(u \o t) = Len(u) + Len(t)
      /\ \A i \in 1 .. Len(u) + Len(t) : (u \o t)[i] =
                     IF i <= Len(u) THEN u[i] ELSE t[i - Len(u)]
    BY <1>4, <1>7, ConcatProperties
<1>9. Len(u) + Len(t) = Len(q) + 1
    BY <1>1, <1>4, <1>7
<1>10. ASSUME NEW n \in 1 .. Len(q) + 1
       PROVE  (u \o t)[n] = IF n < k THEN q[n] ELSE IF n = k THEN x ELSE q[n - 1]
    <2>1. CASE n <= k
        <3>1. n \in 1 .. k /\ n <= Len(u) /\ n \in 1 .. Len(u) + Len(t)
            BY <1>1, <1>7, <1>9, <2>1
        <3>2. (u \o t)[n] = u[n]
            BY <1>8, <3>1
        <3>. QED  BY <1>1, <1>7, <2>1, <3>1, <3>2
    <2>2. CASE n > k
        <3>1. (u \o t)[n] = t[n - k]
            BY <1>1, <1>7, <1>8, <1>9, <2>2
        <3>2. n - k \in 1 .. Len(q) - k + 1 /\ k + (n - k) - 1 = n - 1
            BY <1>1, <2>2
        <3>3. t[n - k] = q[k + (n - k) - 1]
            BY <1>4, <3>2
        <3>4. ~ (n < k) /\ n # k
            BY <1>1, <2>2
        <3>. QED  BY <3>1, <3>2, <3>3, <3>4
    <2>3. n <= k \/ n > k
        BY <1>1
    <2>. QED  BY <2>1, <2>2, <2>3
<1>. QED  BY <1>6, <1>8, <1>9, <1>10

\* insert adds a task that is not in the queue, wherever its walk stops.
LEMMA InsertLists ==
    ASSUME NEW T, NEW q, Lists(q, T), NEW x, x \notin T, NEW desc, NEW clk
    PROVE  Lists(insert(q, x, desc, clk), T \union {x})
<1>. DEFINE k == InsertIndex(q, x, desc, clk)
            s == SubSeq(q, 1, k - 1)
            t == SubSeq(q, k, Len(q))
<1>1. q \in Seq(T) /\ k \in 1 .. Len(q) + 1
    BY InsertStops DEF Lists
<1>. HIDE DEF k
<1>2. s \in Seq(T) /\ t \in Seq(T) /\ s \o t = q
    BY <1>1, SplitAt
<1>3. insert(q, x, desc, clk) = s \o <<x>> \o t
    BY DEF insert, InsertAt, k
<1>. HIDE DEF s, t
<1>4. /\ Lists(s, Range(s)) /\ Lists(t, Range(t))
      /\ Range(s) \intersect Range(t) = {} /\ Range(s) \union Range(t) = T
    BY <1>2, ListsSplit
<1>5. Lists(s \o <<x>>, Range(s) \union {x})
    BY <1>4, ListsOne, ListsConcat
<1>6. Lists(s \o <<x>> \o t, (Range(s) \union {x}) \union Range(t))
    BY <1>4, <1>5, ListsConcat
<1>7. (Range(s) \union {x}) \union Range(t) = T \union {x}
    BY <1>4
<1>. QED  BY <1>3, <1>6, <1>7

\* FirstReady names the first READY task of a queue that has one.
LEMMA FirstReadyIsReady ==
    ASSUME NEW T, NEW q \in Seq(T), NEW states, HasReady(q, states)
    PROVE  /\ FirstReady(q, states) \in 1 .. Len(q)
           /\ states[q[FirstReady(q, states)]] = "READY"
<1>. DEFINE R == {i \in 1 .. Len(q) : states[q[i]] = "READY"}
<1>1. Len(q) \in Nat /\ R # {}
    BY LenProperties DEF HasReady
<1>2. PICK i \in R : \A j \in 1 .. i - 1 : j \notin R
    BY <1>1, FirstIndex
<1>3. \A j \in 1 .. i - 1 : states[q[j]] # "READY"
    BY <1>1, <1>2
<1>. QED  BY <1>2, <1>3 DEF FirstReady

\* Queue_Rotate_Ready keeps the tasks of the queue, and brings a READY task to
\* the front of a queue that has one.
LEMMA RotateLists ==
    ASSUME NEW T, NEW q, Lists(q, T), NEW states
    PROVE  LET r == Queue_Rotate_Ready(q, states)
           IN  /\ Lists(r, T)
               /\ HasReady(q, states) => r # <<>> /\ Head(r) \in T /\ states[Head(r)] = "READY"
<1>. DEFINE k == FirstReady(q, states)
            s == SubSeq(q, 1, k - 1)
            t == SubSeq(q, k, Len(q))
<1>1. CASE ~ HasReady(q, states)
    BY <1>1 DEF Queue_Rotate_Ready
<1>2. CASE HasReady(q, states)
    <2>1. q \in Seq(T) /\ k \in 1 .. Len(q) /\ states[q[k]] = "READY"
        BY <1>2, FirstReadyIsReady DEF Lists
    <2>2. Queue_Rotate_Ready(q, states) = t \o s
        BY <1>2 DEF Queue_Rotate_Ready
    <2>. HIDE DEF k
    <2>3. k \in 1 .. Len(q) + 1 /\ Len(q) \in k .. Len(q) /\ Len(q) \in Nat
        BY <2>1, LenProperties
    <2>4. s \in Seq(T) /\ t \in Seq(T) /\ s \o t = q
        BY <2>1, <2>3, SplitAt
    <2>5. Head(t) = q[k]
        BY <2>1, <2>3, HeadTailOfSubSeq
    <2>6. Len(t) = Len(q) - k + 1
        BY <2>1, <2>3, SubSeqProperties, ElementOfSeq
    <2>. HIDE DEF s, t
    <2>7. Lists(t \o s, T)
        BY <2>4, ListsSwap
    <2>8. Len(t) > 0
        BY <2>1, <2>3, <2>6
    <2>9. t \o s # <<>> /\ Head(t \o s) = Head(t)
        BY <2>4, <2>8, ConcatProperties, LenProperties
    <2>10. q[k] \in T
        BY <2>1, ElementOfSeq
    <2>. QED  BY <2>1, <2>2, <2>5, <2>7, <2>9, <2>10
<1>. QED  BY <1>1, <1>2

-----------------------------------------------------------------------------
(* The messages that are left in the queue by a termination.                *)

\* AtIndices finds its n-th index.
LEMMA NthIndex ==
    ASSUME NEW m \in Nat, NEW kept \in SUBSET (1 .. m), NEW n \in 1 .. Cardinality(kept)
    PROVE  \E i \in kept : Cardinality({j \in kept : j <= i}) = n
<1>. DEFINE UpTo(i) == {j \in kept : j <= i}
            Enough == {i \in Nat : Cardinality(UpTo(i)) >= n}
<1>0. \A j \in kept : j \in Nat /\ 1 <= j /\ j <= m
    OBVIOUS
<1>1. \A i \in Nat : IsFiniteSet(UpTo(i)) /\ Cardinality(UpTo(i)) \in Nat
    <2>1. IsFiniteSet(1 .. m)
        BY FS_Interval
    <2>2. ASSUME NEW i \in Nat
          PROVE  IsFiniteSet(UpTo(i)) /\ Cardinality(UpTo(i)) \in Nat
        <3>1. UpTo(i) \in SUBSET (1 .. m)
            OBVIOUS
        <3>. HIDE DEF UpTo
        <3>. QED  BY <2>1, <3>1, FS_Subset, FS_CardinalityType
    <2>. QED  BY <2>2
<1>2. UpTo(m) = kept
    <2>1. \A j \in kept : j <= m
        BY <1>0
    <2>. QED  BY <2>1, Zenon
<1>3. UpTo(0) = {}
    <2>1. \A j \in kept : ~ (j <= 0)
        BY <1>0
    <2>. QED  BY <2>1, Zenon
<1>4. Cardinality(kept) \in Nat /\ n \in Nat /\ n > 0 /\ n <= Cardinality(kept)
    BY <1>1, <1>2
<1>5. m \in Enough
    BY <1>2, <1>4
<1>6. PICK i \in Enough : \A j \in Enough : i <= j
    <2>1. Enough \in SUBSET Nat /\ Enough # {}
        BY <1>5
    <2>. HIDE DEF Enough
    <2>. QED  BY <2>1, LeastNat
<1>7. i \in Nat /\ Cardinality(UpTo(i)) >= n
    BY <1>6
<1>8. i # 0
    BY <1>3, <1>4, <1>7, FS_EmptySet
<1>9. i - 1 \in Nat /\ Cardinality(UpTo(i - 1)) < n
    <2>1. i - 1 \in Nat /\ ~ (i <= i - 1)
        BY <1>7, <1>8
    <2>2. i - 1 \notin Enough
        <3>. HIDE DEF Enough
        <3>. QED  BY <1>6, <2>1
    <2>. HIDE DEF UpTo
    <2>. QED  BY <1>1, <1>4, <2>1, <2>2
<1>10. CASE i \notin kept
    <2>0. \A j \in kept : j <= i <=> j <= i - 1
        BY <1>0, <1>7, <1>10
    <2>1. UpTo(i) = UpTo(i - 1)
        BY <2>0, Zenon
    <2>. HIDE DEF UpTo
    <2>. QED  BY <1>1, <1>4, <1>7, <1>9, <2>1
<1>11. CASE i \in kept
    <2>0. /\ \A j \in kept : j <= i <=> (j <= i - 1 \/ j = i)
          /\ ~ (i <= i - 1)
        BY <1>0, <1>7, <1>11
    <2>1. UpTo(i) = UpTo(i - 1) \union {i} /\ i \notin UpTo(i - 1)
        BY <1>11, <2>0, Zenon
    <2>2. Cardinality(UpTo(i)) = Cardinality(UpTo(i - 1)) + 1
        <3>. HIDE DEF UpTo
        <3>. QED  BY <1>1, <1>9, <2>1, FS_AddElement
    <2>3. Cardinality(UpTo(i)) = n
        <3>. HIDE DEF UpTo
        <3>. QED  BY <1>1, <1>4, <1>7, <1>9, <2>2
    <2>. QED  BY <1>11, <2>3
<1>. QED  BY <1>10, <1>11

\* AtIndices leaves out some messages and repeats none.
LEMMA AtIndicesLists ==
    ASSUME NEW T, NEW q, Lists(q, T), NEW kept \in SUBSET (1 .. Len(q))
    PROVE  LET r == AtIndices(q, kept)
           IN  /\ r \in Seq(T)
               /\ IsInjective(r)
               /\ \A x \in Range(r) : \E i \in kept : x = q[i]
<1>. DEFINE c == Cardinality(kept)
            At(n, i) == i \in kept /\ Cardinality({j \in kept : j <= i}) = n
            index(n) == CHOOSE i \in kept : Cardinality({j \in kept : j <= i}) = n
            r == AtIndices(q, kept)
<1>1. q \in Seq(T) /\ Len(q) \in Nat /\ DOMAIN q = 1 .. Len(q)
    BY LenProperties DEF Lists
<1>2. c \in Nat
    <2>1. IsFiniteSet(1 .. Len(q))
        BY <1>1, FS_Interval
    <2>2. IsFiniteSet(kept)
        BY <2>1, FS_Subset
    <2>. QED  BY <2>2, FS_CardinalityType
<1>3. \A n \in 1 .. c : At(n, index(n))
    <2>1. \A n \in 1 .. c : \E i \in kept : Cardinality({j \in kept : j <= i}) = n
        BY <1>1, NthIndex
    <2>. QED  BY <2>1
<1>4. r = [n \in 1 .. c |-> q[index(n)]]
    BY DEF AtIndices
<1>. HIDE DEF index, r, c
<1>5. \A n \in 1 .. c : index(n) \in kept /\ index(n) \in 1 .. Len(q) /\ q[index(n)] \in T
    BY <1>1, <1>3, ElementOfSeq
<1>6. r \in [1 .. c -> T]
    BY <1>4, <1>5
<1>7. r \in Seq(T)
    BY <1>2, <1>6, SeqDef
<1>8. DOMAIN r = 1 .. c
    BY <1>6
<1>9. ASSUME NEW a \in 1 .. c, NEW b \in 1 .. c, r[a] = r[b]
      PROVE  a = b
    <2>1. q[index(a)] = q[index(b)]
        BY <1>4, <1>9
    <2>2. index(a) = index(b)
        BY <1>1, <1>5, <2>1 DEF Lists, IsInjective
    <2>. QED  BY <1>3, <2>2
<1>10. \A x \in Range(r) : \E i \in kept : x = q[i]
    BY <1>4, <1>5, <1>8 DEF Range
<1>. QED  BY <1>7, <1>8, <1>9, <1>10 DEF IsInjective, r

\* A message that is received leaves the others in the queue.
LEMMA RemoveAtLists ==
    ASSUME NEW T, NEW q, Lists(q, T), NEW k \in 1 .. Len(q)
    PROVE  q[k] \in T /\ Lists(RemoveAt(q, k), T \ {q[k]})
<1>. DEFINE s == SubSeq(q, 1, k - 1)
            t == SubSeq(q, k, Len(q))
            u == SubSeq(q, k + 1, Len(q))
<1>1. q \in Seq(T) /\ Len(q) \in Nat /\ k \in 1 .. Len(q) + 1 /\ Len(q) \in k .. Len(q)
    BY LenProperties DEF Lists
<1>2. s \in Seq(T) /\ t \in Seq(T) /\ s \o t = q
    BY <1>1, SplitAt
<1>3. Head(t) = q[k] /\ Tail(t) = u
    BY <1>1, HeadTailOfSubSeq
<1>4. t # <<>>
    <2>1. \A i \in k .. Len(q) : q[i] \in T
        BY <1>1, ElementOfSeq
    <2>2. Len(t) = Len(q) - k + 1
        BY <1>1, <2>1, SubSeqProperties
    <2>3. Len(t) # 0
        BY <1>1, <2>2
    <2>. HIDE DEF t
    <2>. QED  BY <2>3, EmptySeq
<1>5. RemoveAt(q, k) = s \o u
    BY DEF RemoveAt
<1>. HIDE DEF s, t, u
<1>6. /\ Lists(s, Range(s)) /\ Lists(t, Range(t))
      /\ Range(s) \intersect Range(t) = {} /\ Range(s) \union Range(t) = T
    BY <1>2, ListsSplit
<1>7. q[k] \in Range(t) /\ Lists(u, Range(t) \ {q[k]})
    BY <1>3, <1>4, <1>6, TailLists
<1>8. Lists(s \o u, Range(s) \union (Range(t) \ {q[k]}))
    BY <1>6, <1>7, ListsConcat
<1>9. Range(s) \union (Range(t) \ {q[k]}) = T \ {q[k]} /\ q[k] \in T
    BY <1>6, <1>7
<1>. QED  BY <1>5, <1>8, <1>9

-----------------------------------------------------------------------------
(* Dispatch.                                                                *)

\* The tasks that belong in the queue of level l.
Belong(st, pds, l) == {p \in Pid : st[p] # "DEAD" /\ pds[p].priority = l}

\* Every task that is not DEAD is in the queue of its level, once.
Filed(st, pds, qs) ==
    /\ st \in [Pid \union {Idle} -> ProcessState]
    /\ pds \in [Pid -> Descriptor]
    /\ qs \in [Level -> Seq(Pid)]
    /\ \A l \in Level : Lists(qs[l], Belong(st, pds, l))

\* No task is marked RUNNING: all requests are handled with the current one READY.
Calm(st) == \A p \in Pid \union {Idle} : st[p] # "RUNNING"

\* A queue of some of the tasks is a queue of tasks.
LEMMA ListsPids ==
    ASSUME NEW q, NEW T \in SUBSET Pid, Lists(q, T)
    PROVE  q \in Seq(Pid)
BY SeqMonotonic DEF Lists

\* Replacing one queue by another of the same tasks leaves them filed.
LEMMA FiledExcept ==
    ASSUME NEW st, NEW pds, NEW qs, Filed(st, pds, qs),
           NEW l \in Level, NEW q, Lists(q, Belong(st, pds, l))
    PROVE  Filed(st, pds, [qs EXCEPT ![l] = q])
<1>1. q \in Seq(Pid)
    BY ListsPids DEF Belong
<1>. QED  BY <1>1 DEF Filed

\* The first half of Dispatch leaves every task filed.
LEMMA RequeueFiled ==
    ASSUME NEW st, NEW pds, NEW qs, NEW clock, Filed(st, pds, qs), Cp \in Pid \union {Idle}
    PROVE  Filed(st, pds, Requeue(qs, pds, clock))
<1>. DEFINE l == pds[Cp].priority
            B == Belong(st, pds, l)
            moved == IF l = "PERIODIC"
                     THEN insert(Tail(qs[l]), Head(qs[l]), pds, clock)
                     ELSE ToEnd(qs[l])
<1>1. CASE Cp = Idle \/ Len(qs[l]) <= 1
    BY <1>1 DEF Requeue
<1>2. CASE Cp # Idle /\ ~ (Len(qs[l]) <= 1)
    <2>1. Cp \in Pid /\ l \in Level
        BY <1>2 DEF Filed, Descriptor
    <2>2. Lists(qs[l], B) /\ qs[l] # <<>>
        BY <1>2, <2>1, EmptySeq DEF Filed
    <2>3. Head(qs[l]) \in B /\ Lists(Tail(qs[l]), B \ {Head(qs[l])})
        BY <2>2, TailLists
    <2>4. Lists(insert(Tail(qs[l]), Head(qs[l]), pds, clock), (B \ {Head(qs[l])}) \union {Head(qs[l])})
        BY <2>3, InsertLists
    <2>5. (B \ {Head(qs[l])}) \union {Head(qs[l])} = B
        BY <2>3
    <2>6. Lists(ToEnd(qs[l]), B)
        BY <2>2, ToEndLists
    <2>7. Lists(moved, B)
        BY <2>4, <2>5, <2>6
    <2>8. Requeue(qs, pds, clock) = [qs EXCEPT ![l] = moved]
        BY <1>2 DEF Requeue
    <2>. HIDE DEF moved, l
    <2>9. Filed(st, pds, [qs EXCEPT ![l] = moved])
        BY <2>1, <2>7, FiledExcept
    <2>. QED  BY <2>8, <2>9
<1>. QED  BY <1>1, <1>2

\* The second half leaves every task filed, gives the processor to a READY task
\* at the front of its queue, or to the idle process, and marks no other task
\* RUNNING; or it stops the kernel.
LEMMA ChooseFiled ==
    ASSUME NEW st, NEW pds, NEW qs, NEW clock, NEW overflow,
           Filed(st, pds, qs), Calm(st), Choose(st, pds, qs, clock, overflow)
    PROVE  /\ Filed(state', pds, queue')
           /\ \A p \in Pid : state'[p] = st[p] \/ (st[p] = "READY" /\ state'[p] = "RUNNING")
           /\ \A p \in Pid \union {Idle} : state'[p] = "RUNNING" => p = Cp'
           /\ \/ /\ abort' = "TIMING_VIOLATION"
                 /\ Cp' = Cp
              \/ /\ abort' = abort
                 /\ Cp' \in Pid \union {Idle}
                 /\ Cp' \in Pid => /\ queue'[pds[Cp'].priority] # <<>>
                                   /\ Head(queue'[pds[Cp'].priority]) = Cp'
                                   /\ state'[Cp'] = "RUNNING"
<1>. DEFINE l == ChosenLevel(st, pds, qs, clock, overflow)
            B == Belong(st, pds, l)
            r == Queue_Rotate_Ready(qs[l], st)
            rotated == [qs EXCEPT ![l] = r]
            next == IF HasReady(qs[l], st) THEN Head(rotated[l]) ELSE Idle
<1>1. l \in Level
    BY DEF ChosenLevel, Level
<1>2. /\ queue' = rotated
      /\ \/ abort' = "TIMING_VIOLATION" /\ Cp' = Cp /\ state' = st
         \/ abort' = abort /\ Cp' = next /\ state' = [st EXCEPT ![next] = "RUNNING"]
    BY DEF Choose
<1>. HIDE DEF l
<1>3. Lists(qs[l], B)
    BY <1>1 DEF Filed
<1>4. /\ Lists(r, B)
      /\ HasReady(qs[l], st) => r # <<>> /\ Head(r) \in B /\ st[Head(r)] = "READY"
    BY <1>3, RotateLists
<1>. HIDE DEF r
<1>5. rotated[l] = r
    BY <1>1 DEF Filed
<1>6. Filed(st, pds, rotated)
    BY <1>1, <1>4, FiledExcept
<1>7. /\ next \in Pid \union {Idle}
      /\ next \in Pid => /\ st[next] = "READY" /\ pds[next].priority = l
                         /\ r # <<>> /\ next = Head(r)
    BY <1>4, <1>5 DEF Belong, Idle, Pid
<1>. HIDE DEF next, rotated
<1>8. CASE abort' = "TIMING_VIOLATION" /\ Cp' = Cp /\ state' = st
    BY <1>2, <1>6, <1>8 DEF Calm
<1>9. CASE abort' = abort /\ Cp' = next /\ state' = [st EXCEPT ![next] = "RUNNING"]
    <2>1. state' \in [Pid \union {Idle} -> ProcessState]
        BY <1>9 DEF Filed, ProcessState
    <2>2. \A p \in Pid : Idle # p
        BY DEF Idle, Pid
    <2>3. \A p \in Pid \union {Idle} : state'[p] = IF p = next THEN "RUNNING" ELSE st[p]
        BY <1>7, <1>9 DEF Filed
    <2>4. \A k \in Level : Belong(state', pds, k) = Belong(st, pds, k)
        BY <1>7, <2>3 DEF Belong
    <2>5. Filed(state', pds, queue')
        BY <1>2, <1>6, <2>1, <2>4 DEF Filed
    <2>6. \A p \in Pid : state'[p] = st[p] \/ (st[p] = "READY" /\ state'[p] = "RUNNING")
        BY <1>7, <2>3
    <2>7. \A p \in Pid \union {Idle} : state'[p] = "RUNNING" => p = Cp'
        BY <1>9, <2>3 DEF Calm
    <2>. QED  BY <1>2, <1>5, <1>7, <1>9, <2>3, <2>5, <2>6, <2>7
<1>. QED  BY <1>2, <1>8, <1>9

-----------------------------------------------------------------------------
(* The inductive invariant.                                                 *)

\* What Dispatch relies on and restores.
SchedInv ==
    /\ Cp \in Pid \union {Idle, NoProc}
    /\ abort \in AbortCode \union {"NONE"}
    /\ Filed(state, pd, queue)
    /\ RunningAtFront
    /\ OnlyCpRuns
    /\ NoInternalAbort

\* What the request handlers rely on and restore besides.
CallInv ==
    /\ Messages \in [Pid -> Message]
    /\ msg_queue \in Seq(Pid)
    /\ req \in [Pid -> RequestInfo]
    /\ Tasks \in Int
    /\ out_pid \in Pid \union {NULL}
    /\ sys_clock \in Tick
    /\ clock_state \in OverflowState
    /\ TasksCounted
    /\ QueuedSendersBlocked

IInv == SchedInv /\ CallInv

\* A task is a descriptor, and none of the other values of Cp.
LEMMA PidFacts ==
    /\ 0 \in Pid
    /\ Idle \notin Pid /\ NoProc \notin Pid /\ NULL \notin Pid /\ BadId \notin Pid
    /\ Idle # NoProc
    /\ Pid \subseteq Nat
BY MaxThreadAssumption DEF Pid, Idle, NoProc, NULL, BadId

\* The set of live tasks is counted.
LEMMA LiveFinite ==
    /\ IsFiniteSet(Pid)
    /\ Cardinality(Pid) = MaxThread
    /\ \A T \in SUBSET Pid : IsFiniteSet(T)
<1>1. IsFiniteSet(0 .. MaxThread - 1) /\ Cardinality(0 .. MaxThread - 1) = MaxThread
    BY MaxThreadAssumption, FS_Interval
<1>. QED  BY <1>1, FS_Subset DEF Pid

\* Tasks stay filed when neither their being DEAD nor their level changes.
LEMMA FiledSame ==
    ASSUME NEW st, NEW pds, NEW qs, Filed(st, pds, qs),
           NEW st2 \in [Pid \union {Idle} -> ProcessState],
           NEW pds2 \in [Pid -> Descriptor],
           \A p \in Pid : st2[p] = "DEAD" <=> st[p] = "DEAD",
           \A p \in Pid : pds2[p].priority = pds[p].priority
    PROVE  Filed(st2, pds2, qs)
<1>1. \A l \in Level : Belong(st2, pds2, l) = Belong(st, pds, l)
    BY DEF Belong
<1>. QED  BY <1>1 DEF Filed

\* Dispatch keeps its half of the invariant, and the states it is given but for
\* a READY task that becomes RUNNING.
LEMMA DispatchKeeps ==
    ASSUME SchedInv, abort = "NONE", Cp \in Pid \union {Idle},
           NEW st, NEW pds, NEW qs, NEW clock, NEW overflow,
           Filed(st, pds, qs), Calm(st),
           Dispatch(st, pds, qs, clock, overflow), pd' = pds
    PROVE  /\ SchedInv'
           /\ \A p \in Pid : state'[p] = st[p] \/ (st[p] = "READY" /\ state'[p] = "RUNNING")
<1>1. Filed(st, pds, Requeue(qs, pds, clock))
    BY RequeueFiled
<1>2. Choose(st, pds, Requeue(qs, pds, clock), clock, overflow)
    BY DEF Dispatch
<1>3. /\ Filed(state', pds, queue')
      /\ \A p \in Pid : state'[p] = st[p] \/ (st[p] = "READY" /\ state'[p] = "RUNNING")
      /\ \A p \in Pid \union {Idle} : state'[p] = "RUNNING" => p = Cp'
      /\ \/ /\ abort' = "TIMING_VIOLATION"
            /\ Cp' = Cp
         \/ /\ abort' = abort
            /\ Cp' \in Pid \union {Idle}
            /\ Cp' \in Pid => /\ queue'[pds[Cp'].priority] # <<>>
                              /\ Head(queue'[pds[Cp'].priority]) = Cp'
                              /\ state'[Cp'] = "RUNNING"
    BY <1>1, <1>2, ChooseFiled
<1>. QED  BY <1>3 DEF SchedInv, RunningAtFront, OnlyCpRuns, NoInternalAbort, AbortCode

\* A task with a message in the queue is blocked, and not the current one.
LEMMA QueuedBlocked ==
    ASSUME IInv
    PROVE  \A p \in Range(msg_queue) :
                p \in Pid /\ state[p] = "SEND_BLOCK" /\ (abort = "NONE" => p # Cp)
<1>1. Range(msg_queue) \in SUBSET Pid
    BY RangeOfSeq DEF IInv, CallInv
<1>2. \A p \in Range(msg_queue) : state[p] = "SEND_BLOCK"
    BY DEF IInv, CallInv, QueuedSendersBlocked
<1>. QED  BY <1>1, <1>2 DEF IInv, SchedInv, RunningAtFront

\* A task that makes a request is at the front of its queue, is not DEAD, and
\* no message of its own is in the message queue.
LEMMA Caller ==
    ASSUME IInv, Requesting
    PROVE  /\ Cp \in Pid /\ abort = "NONE"
           /\ pd[Cp].priority \in Level
           /\ queue[pd[Cp].priority] # <<>>
           /\ Head(queue[pd[Cp].priority]) = Cp
           /\ state[Cp] \in {"RUNNING", "READY"}
           /\ Cp \notin Range(msg_queue)
BY DEF IInv, SchedInv, CallInv, Requesting, RunningAtFront, QueuedSendersBlocked,
       Filed, Descriptor

\* Entry into the kernel, from a task or from the idle process.
LEMMA EnteredFiled ==
    ASSUME IInv, abort = "NONE", Cp \in Pid \union {Idle}
    PROVE  /\ Entered \in [Pid \union {Idle} -> ProcessState]
           /\ \A p \in Pid \union {Idle} : Entered[p] = IF p = Cp THEN "READY" ELSE state[p]
           /\ \A p \in Pid : Entered[p] = "DEAD" <=> state[p] = "DEAD"
           /\ Calm(Entered)
           /\ Filed(Entered, pd, queue)
<1>1. Entered \in [Pid \union {Idle} -> ProcessState]
    BY DEF IInv, SchedInv, Filed, Entered, ProcessState
<1>2. \A p \in Pid \union {Idle} : Entered[p] = IF p = Cp THEN "READY" ELSE state[p]
    BY DEF IInv, SchedInv, Filed, Entered
<1>3. \A p \in Pid : Entered[p] = "DEAD" <=> state[p] = "DEAD"
    BY <1>2 DEF IInv, SchedInv, RunningAtFront
<1>4. Calm(Entered)
    BY <1>2 DEF IInv, SchedInv, OnlyCpRuns, Calm
<1>5. Filed(Entered, pd, queue)
    BY <1>1, <1>3, FiledSame DEF IInv, SchedInv, Filed
<1>. QED  BY <1>1, <1>2, <1>3, <1>4, <1>5

\* The count of tasks is kept by a step that neither creates nor ends one.
LEMMA CountKept ==
    ASSUME IInv, Tasks' = Tasks, \A p \in Pid : state'[p] = "DEAD" <=> state[p] = "DEAD"
    PROVE  TasksCounted'
<1>1. {p \in Pid : state'[p] # "DEAD"} = {p \in Pid : state[p] # "DEAD"}
    OBVIOUS
<1>. QED  BY <1>1 DEF IInv, CallInv, TasksCounted, Live

\* The senders in the message queue are still blocked after a step that takes
\* none of them out of SEND_BLOCK.
LEMMA SendersKept ==
    ASSUME IInv, UNCHANGED msgVars,
           \A p \in Range(msg_queue) : state'[p] = state[p]
    PROVE  QueuedSendersBlocked'
BY DEF IInv, CallInv, QueuedSendersBlocked, msgVars

\* utils_abort, for a reason other than the kernel's checks of itself.
LEMMA AbortKeeps ==
    ASSUME IInv, NEW code \in AbortCode, Abort(code),
           code \notin {"QUEUEING_ERROR", "WRONG_TASK_ORDER", "NO_DEAD_PROCESS"}
    PROVE  IInv'
<1>1. SchedInv'
    BY DEF Abort, taskVars, IInv, SchedInv, Filed, Belong, RunningAtFront, OnlyCpRuns,
           NoInternalAbort, AbortCode
<1>2. TasksCounted' /\ QueuedSendersBlocked'
    BY CountKept, SendersKept DEF Abort, taskVars, msgVars
<1>3. CallInv'
    BY <1>2 DEF Abort, taskVars, msgVars, clockVars, IInv, CallInv
<1>. QED  BY <1>1, <1>3 DEF IInv

\* Kernel_Init.
LEMMA InitIInv == Init => IInv
<1>. SUFFICES ASSUME Init PROVE IInv
    OBVIOUS
<1>. USE PidFacts
<1>1. /\ state = [p \in Pid \union {Idle} |-> IF p \in {0, Idle} THEN "READY" ELSE "DEAD"]
      /\ pd = [p \in Pid |-> ZeroPd]
      /\ queue = [l \in Level |-> IF l = "SYSTEM" THEN <<0>> ELSE <<>>]
    BY DEF Init
<1>2. ZeroPd \in Descriptor
    BY TickAssumption DEF ZeroPd, Descriptor, Level, Tick, OverflowState
<1>3. /\ Belong(state, pd, "SYSTEM") = {0}
      /\ Belong(state, pd, "PERIODIC") = {}
      /\ Belong(state, pd, "RR") = {}
    BY <1>1 DEF Belong, ZeroPd
<1>4. Lists(<<>>, {})
    BY EmptySeq, LenProperties DEF Lists, IsInjective, Range
<1>5. \A l \in Level : Lists(queue[l], Belong(state, pd, l))
    BY <1>1, <1>3, <1>4, ListsOne DEF Level
<1>6. queue \in [Level -> Seq(Pid)]
    BY <1>1
<1>7. Filed(state, pd, queue)
    BY <1>1, <1>2, <1>5, <1>6 DEF Filed, ProcessState
<1>8. SchedInv
    BY <1>1, <1>7 DEF Init, SchedInv, RunningAtFront, OnlyCpRuns, NoInternalAbort
<1>9. TasksCounted
    <2>1. {p \in Pid : Live(p)} = {0}
        BY <1>1 DEF Live
    <2>. QED  BY <2>1, FS_Singleton DEF Init, TasksCounted
<1>10. QueuedSendersBlocked
    BY <1>4 DEF Init, QueuedSendersBlocked, Lists
<1>11. CallInv
    <2>1. ZeroReq \in RequestInfo /\ EmptyMessage \in Message
        BY DEF ZeroReq, RequestInfo, EmptyMessage, Message
    <2>2. 0 \in Tick /\ "EVEN" \in OverflowState
        BY TickAssumption DEF Tick, OverflowState
    <2>3. <<>> \in Seq(Pid)
        BY EmptySeq
    <2>. QED  BY <1>9, <1>10, <2>1, <2>2, <2>3 DEF Init, CallInv
<1>. QED  BY <1>8, <1>11 DEF IInv

\* Kernel_Start: the first Dispatch has no current task.
LEMMA StartKeeps == ASSUME IInv, Kernel_Start PROVE IInv'
<1>1. Calm(state) /\ Filed(state, pd, queue)
    BY PidFacts DEF Kernel_Start, IInv, SchedInv, OnlyCpRuns, Calm
<1>2. pd' = pd /\ Choose(state, pd, queue, sys_clock, clock_state)
    BY DEF Kernel_Start
<1>3. /\ Filed(state', pd, queue')
      /\ \A p \in Pid : state'[p] = state[p] \/ (state[p] = "READY" /\ state'[p] = "RUNNING")
      /\ \A p \in Pid \union {Idle} : state'[p] = "RUNNING" => p = Cp'
      /\ \/ /\ abort' = "TIMING_VIOLATION"
            /\ Cp' = Cp
         \/ /\ abort' = abort
            /\ Cp' \in Pid \union {Idle}
            /\ Cp' \in Pid => /\ queue'[pd[Cp'].priority] # <<>>
                              /\ Head(queue'[pd[Cp'].priority]) = Cp'
                              /\ state'[Cp'] = "RUNNING"
    BY <1>1, <1>2, ChooseFiled
<1>4. SchedInv'
    BY <1>2, <1>3 DEF IInv, SchedInv, RunningAtFront, OnlyCpRuns, NoInternalAbort, AbortCode
<1>5. TasksCounted'
    BY <1>3, CountKept DEF Kernel_Start
<1>6. QueuedSendersBlocked'
    <2>1. \A p \in Range(msg_queue) : p \in Pid /\ state[p] = "SEND_BLOCK"
        BY QueuedBlocked
    <2>. QED  BY <1>3, <2>1, SendersKept DEF Kernel_Start
<1>7. CallInv'
    BY <1>5, <1>6 DEF Kernel_Start, IInv, CallInv, msgVars, clockVars
<1>. QED  BY <1>4, <1>7 DEF IInv

-----------------------------------------------------------------------------
(* The requests that neither create, end nor block a task.                  *)

\* The types of what a call passes and returns.
LEMMA PassingTypes ==
    ASSUME IInv, Cp \in Pid, NEW info \in RequestInfo, Passing(info)
    PROVE  req' \in [Pid -> RequestInfo] /\ out_pid' \in Pid \union {NULL}
BY DEF Passing, IInv, CallInv

\* The parameters of a call without any.
LEMMA ZeroReqType == ZeroReq \in RequestInfo
BY PidFacts DEF ZeroReq, RequestInfo

\* A refused call leaves the caller READY at the front of its queue.
LEMMA ReturnToCallerKeeps ==
    ASSUME IInv, Requesting, ReturnToCaller,
           req' \in [Pid -> RequestInfo], out_pid' \in Pid \union {NULL}
    PROVE  IInv'
<1>1. /\ state' = Entered
      /\ \A p \in Pid \union {Idle} : Entered[p] = IF p = Cp THEN "READY" ELSE state[p]
      /\ \A p \in Pid : Entered[p] = "DEAD" <=> state[p] = "DEAD"
      /\ Calm(Entered)
      /\ Filed(Entered, pd, queue)
    BY EnteredFiled DEF ReturnToCaller, Requesting
<1>2. UNCHANGED <<Cp, taskVars, msgVars, clockVars, abort>>
    BY DEF ReturnToCaller
<1>3. SchedInv'
    BY <1>1, <1>2, Caller DEF IInv, SchedInv, RunningAtFront, OnlyCpRuns, NoInternalAbort,
       taskVars, Calm
<1>4. TasksCounted'
    BY <1>1, <1>2, CountKept DEF taskVars
<1>5. QueuedSendersBlocked'
    <2>1. \A p \in Range(msg_queue) : p \in Pid /\ p # Cp
        BY QueuedBlocked DEF Requesting
    <2>. QED  BY <1>1, <1>2, <2>1, SendersKept
<1>6. CallInv'
    BY <1>2, <1>4, <1>5 DEF IInv, CallInv, msgVars, clockVars, taskVars
<1>. QED  BY <1>3, <1>6 DEF IInv

\* Task_Pid, Task_GetArg and Now.
LEMMA GetPidKeeps == ASSUME IInv, Kernel_Request_GetPid PROVE IInv'
<1>1. Requesting /\ ReturnToCaller /\ Returning(Cp) /\ Cp \in Pid
    BY DEF Kernel_Request_GetPid, Requesting
<1>2. req' \in [Pid -> RequestInfo] /\ out_pid' \in Pid \union {NULL}
    BY <1>1, ZeroReqType DEF Returning, IInv, CallInv
<1>. QED  BY <1>1, <1>2, ReturnToCallerKeeps

\* A handler that neither creates nor ends a task, keeps the levels of the
\* tasks, and dispatches them in the states st with every sender in its message
\* queue blocked.
LEMMA HandlerKeeps ==
    ASSUME IInv, abort = "NONE", Cp \in Pid \union {Idle},
           NEW st \in [Pid \union {Idle} -> ProcessState], Calm(st),
           NEW pds \in [Pid -> Descriptor], NEW clock, NEW overflow,
           \A p \in Pid : st[p] = "DEAD" <=> state[p] = "DEAD",
           \A p \in Pid : pds[p].priority = pd[p].priority,
           Dispatch(st, pds, queue, clock, overflow),
           pd' = pds, Tasks' = Tasks,
           Messages' \in [Pid -> Message], msg_queue' \in Seq(Pid), IsInjective(msg_queue'),
           \A s \in Range(msg_queue') :
                st[s] = "SEND_BLOCK" /\ Messages'[s].sender = s /\ Messages'[s].data = s,
           req' \in [Pid -> RequestInfo], out_pid' \in Pid \union {NULL},
           sys_clock' \in Tick, clock_state' \in OverflowState
    PROVE  IInv'
<1>1. Filed(st, pds, queue)
    <2>1. Filed(state, pd, queue)
        BY DEF IInv, SchedInv
    <2>2. /\ st \in [Pid \union {Idle} -> ProcessState]
          /\ pds \in [Pid -> Descriptor]
          /\ \A p \in Pid : st[p] = "DEAD" <=> state[p] = "DEAD"
          /\ \A p \in Pid : pds[p].priority = pd[p].priority
        OBVIOUS
    <2>. QED  BY ONLY <2>1, <2>2, FiledSame
<1>2. /\ SchedInv'
      /\ \A p \in Pid : state'[p] = st[p] \/ (st[p] = "READY" /\ state'[p] = "RUNNING")
    BY <1>1, DispatchKeeps DEF IInv
<1>3. TasksCounted'
    BY <1>2, CountKept
<1>4. \A s \in Range(msg_queue') : s \in Pid
    BY RangeOfSeq
<1>5. QueuedSendersBlocked'
    BY <1>2, <1>4 DEF QueuedSendersBlocked
<1>6. CallInv'
    BY <1>3, <1>5 DEF IInv, CallInv
<1>. QED  BY <1>2, <1>6 DEF IInv

\* A handler that leaves every task but the current one as it was.
LEMMA YieldKeeps ==
    ASSUME IInv, abort = "NONE", Cp \in Pid \union {Idle},
           NEW pds \in [Pid -> Descriptor], NEW clock, NEW overflow,
           \A p \in Pid : pds[p].priority = pd[p].priority,
           Dispatch(Entered, pds, queue, clock, overflow),
           pd' = pds, UNCHANGED <<Tasks, msgVars>>,
           req' \in [Pid -> RequestInfo], out_pid' \in Pid \union {NULL},
           sys_clock' \in Tick, clock_state' \in OverflowState
    PROVE  IInv'
<1>1. /\ Entered \in [Pid \union {Idle} -> ProcessState]
      /\ \A p \in Pid \union {Idle} : Entered[p] = IF p = Cp THEN "READY" ELSE state[p]
      /\ \A p \in Pid : Entered[p] = "DEAD" <=> state[p] = "DEAD"
      /\ Calm(Entered)
    BY EnteredFiled
<1>2. /\ Messages' \in [Pid -> Message] /\ msg_queue' \in Seq(Pid) /\ IsInjective(msg_queue')
      /\ \A s \in Range(msg_queue') :
            Entered[s] = "SEND_BLOCK" /\ Messages'[s].sender = s /\ Messages'[s].data = s
    BY <1>1, QueuedBlocked DEF IInv, CallInv, QueuedSendersBlocked, msgVars
<1>. QED  BY <1>1, <1>2, HandlerKeeps

\* Task_Next.
LEMMA NextKeeps == ASSUME IInv, Kernel_Request_Next PROVE IInv'
<1>1. /\ Requesting /\ Passing(ZeroReq)
      /\ pd' = [pd EXCEPT ![Cp] =
                CASE @.priority = "SYSTEM" -> @
                  [] @.priority = "RR" -> [@ EXCEPT !.ticks_remaining = 1]
                  [] @.priority = "PERIODIC" -> NextPeriod(@)]
      /\ Dispatch(Entered, pd', queue, sys_clock, clock_state)
      /\ UNCHANGED <<Tasks, msgVars, clockVars>>
    BY DEF Kernel_Request_Next
<1>2. Cp \in Pid /\ abort = "NONE" /\ pd[Cp] \in Descriptor
    BY <1>1 DEF Requesting, IInv, SchedInv, Filed
<1>3. ASSUME NEW d \in Descriptor
      PROVE  NextPeriod(d) \in Descriptor /\ NextPeriod(d).priority = d.priority
    <2>. DEFINE tons == (d.tons + d.period) % TickMod
                overflow == IF tons < d.tons THEN Flipped(d.clockState) ELSE d.clockState
    <2>1. tons \in Tick
        BY TickAssumption DEF Descriptor, Tick
    <2>2. overflow \in OverflowState
        BY DEF Descriptor, OverflowState, Flipped
    <2>3. NextPeriod(d) = [d EXCEPT !.tons = tons, !.ticks_remaining = d.wcet,
                                    !.clockState = overflow]
        BY DEF NextPeriod, Descriptor
    <2>. HIDE DEF tons, overflow
    <2>. QED  BY <2>1, <2>2, <2>3 DEF Descriptor
<1>4. \A d \in Descriptor : [d EXCEPT !.ticks_remaining = 1] \in Descriptor
    BY TickAssumption DEF Descriptor, Tick
<1>5. pd'[Cp] \in Descriptor /\ pd'[Cp].priority = pd[Cp].priority
    <2>1. pd'[Cp] = CASE pd[Cp].priority = "SYSTEM" -> pd[Cp]
                      [] pd[Cp].priority = "RR" -> [pd[Cp] EXCEPT !.ticks_remaining = 1]
                      [] pd[Cp].priority = "PERIODIC" -> NextPeriod(pd[Cp])
        BY <1>1, <1>2 DEF IInv, SchedInv, Filed
    <2>2. pd[Cp].priority \in {"SYSTEM", "PERIODIC", "RR"}
        BY <1>2 DEF Descriptor, Level
    <2>3. [pd[Cp] EXCEPT !.ticks_remaining = 1].priority = pd[Cp].priority
        BY <1>2 DEF Descriptor
    <2>. QED  BY <1>2, <1>3, <1>4, <2>1, <2>2, <2>3
<1>6. /\ pd' \in [Pid -> Descriptor]
      /\ \A p \in Pid : pd'[p].priority = pd[p].priority
    BY <1>1, <1>2, <1>5 DEF IInv, SchedInv, Filed
<1>7. req' \in [Pid -> RequestInfo] /\ out_pid' \in Pid \union {NULL}
    BY <1>1, <1>2, PassingTypes, ZeroReqType
<1>8. sys_clock' \in Tick /\ clock_state' \in OverflowState
    BY <1>1 DEF clockVars, IInv, CallInv
<1>. QED  BY <1>1, <1>2, <1>6, <1>7, <1>8, YieldKeeps

\* The tick.
LEMMA TimerKeeps == ASSUME IInv, Kernel_Request_Timer PROVE IInv'
<1>1. abort = "NONE" /\ Cp \in Pid \union {Idle}
    BY DEF Kernel_Request_Timer, IInv, SchedInv
<1>2. CASE Overrun
    <2>1. Abort("TIMING_VIOLATION") /\ "TIMING_VIOLATION" \in AbortCode
        BY <1>2 DEF Kernel_Request_Timer, AbortCode
    <2>. QED  BY <2>1, AbortKeeps
<1>3. CASE ~ Overrun
    <2>. DEFINE clock == (sys_clock + 1) % TickMod
                overflow == IF clock < sys_clock THEN Flipped(clock_state) ELSE clock_state
    <2>1. /\ pd' = Ticked
          /\ sys_clock' = clock /\ clock_state' = overflow
          /\ Dispatch(Entered, Ticked, queue, clock, overflow)
          /\ out_pid' = NULL
          /\ UNCHANGED <<Tasks, msgVars, req>>
        BY <1>3 DEF Kernel_Request_Timer
    <2>2. clock \in Tick /\ overflow \in OverflowState
        BY TickAssumption DEF IInv, CallInv, Tick, OverflowState, Flipped
    <2>3. /\ Ticked \in [Pid -> Descriptor]
          /\ \A p \in Pid : Ticked[p].priority = pd[p].priority
        <3>1. pd \in [Pid -> Descriptor]
            BY DEF IInv, SchedInv, Filed
        <3>2. CASE Cp = Idle \/ pd[Cp].priority = "SYSTEM"
            BY <3>1, <3>2 DEF Ticked
        <3>3. CASE ~ (Cp = Idle \/ pd[Cp].priority = "SYSTEM")
            <4>. DEFINE t == IF pd[Cp].priority = "RR" /\ TicksLeft(Cp) = 0 THEN 1 ELSE TicksLeft(Cp)
            <4>1. Cp \in Pid /\ pd[Cp] \in Descriptor
                BY <1>1, <3>1, <3>3
            <4>2. t \in Tick
                BY <4>1, TickAssumption DEF TicksLeft, Descriptor, Tick
            <4>3. Ticked = [pd EXCEPT ![Cp].ticks_remaining = t]
                BY <3>3 DEF Ticked
            <4>. HIDE DEF t
            <4>. QED  BY <3>1, <4>1, <4>2, <4>3 DEF Descriptor
        <3>. QED  BY <3>2, <3>3
    <2>4. req' \in [Pid -> RequestInfo] /\ out_pid' \in Pid \union {NULL}
        BY <2>1 DEF IInv, CallInv
    <2>. HIDE DEF clock, overflow
    <2>. QED  BY <1>1, <2>1, <2>2, <2>3, <2>4, YieldKeeps
<1>. QED  BY <1>2, <1>3

-----------------------------------------------------------------------------
(* Creation and termination.                                                *)

\* A descriptor is free as long as Tasks is below MAXTHREAD, and the least free
\* one is taken.
LEMMA FreeDescriptor ==
    ASSUME IInv, ~ TooManyTasks
    PROVE  /\ DeadPids # {}
           /\ (CHOOSE p \in DeadPids : \A o \in DeadPids : p <= o) \in DeadPids
<1>1. DeadPids # {}
    <2>1. SUFFICES ASSUME DeadPids = {} PROVE FALSE
        OBVIOUS
    <2>2. {p \in Pid : Live(p)} = Pid
        BY <2>1 DEF DeadPids, Live
    <2>3. Tasks = MaxThread
        BY <2>2, LiveFinite DEF IInv, CallInv, TasksCounted
    <2>. QED  BY <2>3, MaxThreadAssumption DEF TooManyTasks
<1>2. DeadPids \in SUBSET Nat
    BY PidFacts DEF DeadPids
<1>3. \E p \in DeadPids : \A o \in DeadPids : p <= o
    BY <1>1, <1>2, LeastNat
<1>. QED  BY <1>1, <1>3

\* What Kernel_Task_Create dispatches for request r: the descriptor it takes,
\* and the descriptors, the queues and the states with the new task.
FreePid == CHOOSE p \in DeadPids : \A o \in DeadPids : p <= o

PdsWith(r) == [pd EXCEPT ![FreePid] = NewPd(r)]

QueueWith(r) ==
    IF r.priority = "PERIODIC"
    THEN insert(queue[r.priority], FreePid, PdsWith(r), sys_clock)
    ELSE enqueue(queue[r.priority], FreePid)

QueuesWith(r) == [queue EXCEPT ![r.priority] = QueueWith(r)]

StatesWith == [Entered EXCEPT ![FreePid] = "READY"]

\* Kernel_Task_Create with a free descriptor: one more task is filed.
LEMMA CreateFiled ==
    ASSUME IInv, Requesting, ~ TooManyTasks, NEW r \in CreateRequests, CreateTask(r)
    PROVE  /\ Cp \in Pid /\ abort = "NONE"
           /\ FreePid \in Pid /\ state[FreePid] = "DEAD"
           /\ FreePid # Cp /\ FreePid \notin Range(msg_queue)
           /\ pd' = PdsWith(r)
           /\ Tasks' = Tasks + 1
           /\ req' = [req EXCEPT ![FreePid] = ZeroReq, ![Cp] = ZeroReq]
           /\ out_pid' = FreePid
           /\ Dispatch(StatesWith, PdsWith(r), QueuesWith(r), sys_clock, clock_state)
           /\ UNCHANGED <<msgVars, clockVars>>
           /\ r.priority \in Level /\ NewPd(r) \in Descriptor /\ NewPd(r).priority = r.priority
           /\ \A p \in Pid : PdsWith(r)[p] = IF p = FreePid THEN NewPd(r) ELSE pd[p]
           /\ \A p \in Pid \union {Idle} :
                StatesWith[p] = IF p \in {FreePid, Cp} THEN "READY" ELSE state[p]
           /\ Calm(StatesWith)
           /\ Filed(StatesWith, PdsWith(r), QueuesWith(r))
<1>. DEFINE x == FreePid
            pds == PdsWith(r)
            q == queue[r.priority]
            newq == QueueWith(r)
            qs == QueuesWith(r)
            st == StatesWith
<1>1. x \in Pid /\ state[x] = "DEAD"
    BY FreeDescriptor DEF DeadPids, FreePid
<1>2. /\ pd' = pds
      /\ Tasks' = Tasks + 1
      /\ req' = [req EXCEPT ![x] = ZeroReq, ![Cp] = ZeroReq]
      /\ out_pid' = x
      /\ Dispatch(st, pds, qs, sys_clock, clock_state)
      /\ UNCHANGED <<msgVars, clockVars>>
    BY DEF CreateTask, FreePid, PdsWith, QueueWith, QueuesWith, StatesWith
<1>3. Cp \in Pid /\ abort = "NONE" /\ x # Cp /\ x \notin Range(msg_queue)
    BY <1>1, Caller, QueuedBlocked
<1>4. /\ Entered \in [Pid \union {Idle} -> ProcessState]
      /\ \A p \in Pid \union {Idle} : Entered[p] = IF p = Cp THEN "READY" ELSE state[p]
      /\ \A p \in Pid : Entered[p] = "DEAD" <=> state[p] = "DEAD"
      /\ Calm(Entered)
      /\ Filed(Entered, pd, queue)
    BY <1>3, EnteredFiled
<1>5. r.priority \in Level /\ NewPd(r) \in Descriptor /\ NewPd(r).priority = r.priority
    <2>1. /\ r.priority \in {"SYSTEM", "PERIODIC", "RR"}
          /\ r.period \in Tick /\ r.wcet \in Tick /\ r.offset \in Tick
        BY CreateAssumption DEF Level
    <2>2. (sys_clock + r.offset) % TickMod \in Tick
        BY <2>1, TickAssumption DEF Tick, IInv, CallInv
    <2>3. 0 \in Tick /\ 1 \in Tick /\ clock_state \in OverflowState /\ "EVEN" \in OverflowState
        BY TickAssumption DEF Tick, IInv, CallInv, OverflowState
    <2>. QED  BY <2>1, <2>2, <2>3 DEF NewPd, ZeroPd, Descriptor, Level
<1>6. /\ pds \in [Pid -> Descriptor]
      /\ \A p \in Pid : pds[p] = IF p = x THEN NewPd(r) ELSE pd[p]
    BY <1>1, <1>5 DEF IInv, SchedInv, Filed, PdsWith
<1>7. /\ st \in [Pid \union {Idle} -> ProcessState]
      /\ \A p \in Pid \union {Idle} : st[p] = IF p = x THEN "READY" ELSE Entered[p]
    BY <1>1, <1>4 DEF ProcessState, StatesWith
<1>8. Calm(st)
    BY <1>4, <1>7 DEF Calm
<1>. HIDE DEF pds, st, x
<1>9. /\ Belong(st, pds, r.priority) = Belong(Entered, pd, r.priority) \union {x}
      /\ \A l \in Level : l # r.priority => Belong(st, pds, l) = Belong(Entered, pd, l)
      /\ x \notin Belong(Entered, pd, r.priority)
    BY <1>1, <1>4, <1>5, <1>6, <1>7 DEF Belong
<1>10. Lists(newq, Belong(st, pds, r.priority))
    <2>1. Lists(q, Belong(Entered, pd, r.priority))
        BY <1>4, <1>5 DEF Filed
    <2>4. newq = IF r.priority = "PERIODIC" THEN insert(q, x, pds, sys_clock) ELSE enqueue(q, x)
        BY DEF QueueWith, x, pds
    <2>. HIDE DEF q
    <2>2. Lists(insert(q, x, pds, sys_clock), Belong(Entered, pd, r.priority) \union {x})
        BY <1>9, <2>1, InsertLists
    <2>3. Lists(enqueue(q, x), Belong(Entered, pd, r.priority) \union {x})
        BY <1>9, <2>1, EnqueueLists
    <2>. QED  BY <1>9, <2>2, <2>3, <2>4
<1>. HIDE DEF newq
<1>11. Filed(st, pds, qs)
    <2>1. newq \in Seq(Pid)
        BY <1>10, ListsPids DEF Belong
    <2>2. qs \in [Level -> Seq(Pid)]
        BY <1>4, <2>1 DEF Filed, QueuesWith, newq
    <2>3. \A l \in Level : Lists(qs[l], Belong(st, pds, l))
        BY <1>4, <1>5, <1>9, <1>10 DEF Filed, QueuesWith, newq
    <2>. QED  BY <1>6, <1>7, <2>2, <2>3 DEF Filed
<1>12. \A p \in Pid \union {Idle} : st[p] = IF p \in {x, Cp} THEN "READY" ELSE state[p]
    BY <1>4, <1>7
<1>. QED  BY <1>1, <1>2, <1>3, <1>5, <1>6, <1>8, <1>11, <1>12 DEF x, pds, st

\* It is counted as well, and keeps the rest of the invariant.
LEMMA CreateTaskKeeps ==
    ASSUME IInv, Requesting, ~ TooManyTasks, NEW r \in CreateRequests, CreateTask(r)
    PROVE  IInv'
<1>. DEFINE x == FreePid
            st == StatesWith
<1>1. /\ Cp \in Pid /\ abort = "NONE"
      /\ x \in Pid /\ state[x] = "DEAD" /\ x # Cp /\ x \notin Range(msg_queue)
      /\ pd' = PdsWith(r) /\ Tasks' = Tasks + 1
      /\ req' = [req EXCEPT ![x] = ZeroReq, ![Cp] = ZeroReq] /\ out_pid' = x
      /\ Dispatch(st, PdsWith(r), QueuesWith(r), sys_clock, clock_state)
      /\ UNCHANGED <<msgVars, clockVars>>
      /\ \A p \in Pid \union {Idle} : st[p] = IF p \in {x, Cp} THEN "READY" ELSE state[p]
      /\ Calm(st)
      /\ Filed(st, PdsWith(r), QueuesWith(r))
    BY CreateFiled
<1>2. state[Cp] \in {"RUNNING", "READY"}
    BY Caller
<1>. HIDE DEF x, st
<1>3. /\ SchedInv'
      /\ \A p \in Pid : state'[p] = st[p] \/ (st[p] = "READY" /\ state'[p] = "RUNNING")
    <2>1. SchedInv /\ Cp \in Pid \union {Idle}
        BY <1>1 DEF IInv
    <2>. QED  BY <1>1, <2>1, DispatchKeeps
<1>4. TasksCounted'
    <2>. DEFINE L == {p \in Pid : state[p] # "DEAD"}
    <2>1. {p \in Pid : state'[p] # "DEAD"} = L \union {x} /\ x \notin L
        BY <1>1, <1>2, <1>3
    <2>2. IsFiniteSet(L)
        BY LiveFinite
    <2>3. Tasks = Cardinality(L)
        BY DEF IInv, CallInv, TasksCounted, Live
    <2>. HIDE DEF L
    <2>4. Cardinality(L \union {x}) = Cardinality(L) + 1
        BY <2>1, <2>2, FS_AddElement
    <2>. QED  BY <1>1, <2>1, <2>3, <2>4 DEF TasksCounted, Live
<1>5. QueuedSendersBlocked'
    <2>1. \A p \in Range(msg_queue) : p \in Pid /\ p # Cp /\ p # x /\ state[p] = "SEND_BLOCK"
        BY <1>1, QueuedBlocked
    <2>. QED  BY <1>1, <1>3, <2>1, SendersKept
<1>6. CallInv'
    <2>1. req' \in [Pid -> RequestInfo]
        BY <1>1, ZeroReqType DEF IInv, CallInv
    <2>. QED  BY <1>1, <1>4, <1>5, <2>1 DEF IInv, CallInv, msgVars, clockVars
<1>. QED  BY <1>3, <1>6 DEF IInv

\* Task_Create: a refusal, an abort, or a new task.
LEMMA CreateKeeps ==
    ASSUME IInv, NEW r \in CreateRequests, Kernel_Request_Create(r)
    PROVE  IInv'
<1>1. Requesting /\ Cp \in Pid /\ abort = "NONE"
    BY DEF Kernel_Request_Create, Requesting
<1>2. CASE TooManyTasks
    <2>1. /\ Returning(0)
          /\ Dispatch(Entered, pd, queue, sys_clock, clock_state)
          /\ UNCHANGED <<pd, Tasks, msgVars, clockVars>>
        BY <1>2 DEF Kernel_Request_Create
    <2>2. req' \in [Pid -> RequestInfo] /\ out_pid' \in Pid \union {NULL}
        BY <1>1, <2>1, ZeroReqType, PidFacts DEF Returning, IInv, CallInv
    <2>3. /\ pd \in [Pid -> Descriptor]
          /\ sys_clock' \in Tick /\ clock_state' \in OverflowState
        BY <2>1 DEF clockVars, IInv, SchedInv, Filed, CallInv
    <2>. QED  BY <1>1, <2>1, <2>2, <2>3, YieldKeeps
<1>3. CASE ~ TooManyTasks
    <2>1. \/ Abort("NULL_TASK_FUNCTION")
          \/ Abort("INVALID_REQ_INFO")
          \/ CreateTask(r)
        BY <1>3, FreeDescriptor DEF Kernel_Request_Create
    <2>2. "NULL_TASK_FUNCTION" \in AbortCode /\ "INVALID_REQ_INFO" \in AbortCode
        BY DEF AbortCode
    <2>. QED  BY <1>1, <1>3, <2>1, <2>2, AbortKeeps, CreateTaskKeeps
<1>. QED  BY <1>2, <1>3

\* What Kernel_Request_Terminate dispatches: the states and the queues without
\* the caller.
StatesWithout == [state EXCEPT ![Cp] = "DEAD"]

QueuesWithout == [queue EXCEPT ![pd[Cp].priority] = Tail(@)]

\* Task_Terminate: the front of the caller's queue is the caller, which is
\* taken out of it.
LEMMA TerminateFiled ==
    ASSUME IInv, Kernel_Request_Terminate
    PROVE  /\ Cp \in Pid /\ abort = "NONE"
           /\ state[Cp] \in {"RUNNING", "READY"} /\ Cp \notin Range(msg_queue)
           /\ msg_queue' = Purged(Cp)
           /\ Tasks' = Tasks - 1
           /\ Passing(ZeroReq)
           /\ Dispatch(StatesWithout, pd, QueuesWithout, sys_clock, clock_state)
           /\ UNCHANGED <<pd, Messages, clockVars>>
           /\ \A p \in Pid \union {Idle} : StatesWithout[p] = IF p = Cp THEN "DEAD" ELSE state[p]
           /\ Calm(StatesWithout)
           /\ Filed(StatesWithout, pd, QueuesWithout)
<1>. DEFINE l == pd[Cp].priority
            st == StatesWithout
            qs == QueuesWithout
<1>1. /\ Cp \in Pid /\ abort = "NONE" /\ l \in Level
      /\ queue[l] # <<>> /\ Head(queue[l]) = Cp
      /\ state[Cp] \in {"RUNNING", "READY"} /\ Cp \notin Range(msg_queue)
    BY Caller DEF Kernel_Request_Terminate
<1>2. /\ msg_queue' = Purged(Cp)
      /\ Tasks' = Tasks - 1
      /\ Passing(ZeroReq)
      /\ Dispatch(st, pd, qs, sys_clock, clock_state)
      /\ UNCHANGED <<pd, Messages, clockVars>>
    BY <1>1 DEF Kernel_Request_Terminate, StatesWithout, QueuesWithout
<1>3. Filed(state, pd, queue)
    BY DEF IInv, SchedInv
<1>4. /\ st \in [Pid \union {Idle} -> ProcessState]
      /\ \A p \in Pid \union {Idle} : st[p] = IF p = Cp THEN "DEAD" ELSE state[p]
    BY <1>1, <1>3 DEF Filed, ProcessState, StatesWithout
<1>5. Calm(st)
    BY <1>4 DEF Calm, IInv, SchedInv, OnlyCpRuns
<1>. HIDE DEF st
<1>6. \A k \in Level : Belong(st, pd, k) = IF k = l THEN Belong(state, pd, k) \ {Cp}
                                           ELSE Belong(state, pd, k)
    BY <1>1, <1>4 DEF Belong
<1>7. Filed(st, pd, qs)
    <2>1. Lists(queue[l], Belong(state, pd, l))
        BY <1>1, <1>3 DEF Filed
    <2>2. Lists(Tail(queue[l]), Belong(st, pd, l))
        BY <1>1, <1>6, <2>1, TailLists
    <2>3. Tail(queue[l]) \in Seq(Pid)
        BY <2>2, ListsPids DEF Belong
    <2>4. qs = [queue EXCEPT ![l] = Tail(queue[l])]
        BY DEF QueuesWithout
    <2>. HIDE DEF l, qs
    <2>5. \A k \in Level : qs[k] = IF k = l THEN Tail(queue[l]) ELSE queue[k]
        BY <1>3, <2>4 DEF Filed
    <2>6. qs \in [Level -> Seq(Pid)]
        BY <1>3, <2>3, <2>4 DEF Filed
    <2>7. \A k \in Level : Lists(qs[k], Belong(st, pd, k))
        BY <1>3, <1>6, <2>2, <2>5 DEF Filed
    <2>. QED  BY <1>3, <1>4, <2>6, <2>7 DEF Filed
<1>. QED  BY <1>1, <1>2, <1>4, <1>5, <1>7 DEF st

\* The task and the messages for it are taken out.
LEMMA TerminateKeeps == ASSUME IInv, Kernel_Request_Terminate PROVE IInv'
<1>. DEFINE st == StatesWithout
<1>1. /\ Cp \in Pid /\ abort = "NONE"
      /\ state[Cp] \in {"RUNNING", "READY"} /\ Cp \notin Range(msg_queue)
      /\ msg_queue' = Purged(Cp) /\ Tasks' = Tasks - 1 /\ Passing(ZeroReq)
      /\ Dispatch(st, pd, QueuesWithout, sys_clock, clock_state)
      /\ UNCHANGED <<pd, Messages, clockVars>>
      /\ \A p \in Pid \union {Idle} : st[p] = IF p = Cp THEN "DEAD" ELSE state[p]
      /\ Calm(st)
      /\ Filed(st, pd, QueuesWithout)
    BY TerminateFiled
<1>. HIDE DEF st
<1>2. /\ SchedInv'
      /\ \A p \in Pid : state'[p] = st[p] \/ (st[p] = "READY" /\ state'[p] = "RUNNING")
    <2>1. SchedInv /\ Cp \in Pid \union {Idle} /\ pd' = pd
        BY <1>1 DEF IInv
    <2>. QED  BY <1>1, <2>1, DispatchKeeps
<1>3. TasksCounted'
    <2>. DEFINE L == {p \in Pid : state[p] # "DEAD"}
    <2>1. {p \in Pid : state'[p] # "DEAD"} = L \ {Cp} /\ Cp \in L
        BY <1>1, <1>2
    <2>2. IsFiniteSet(L)
        BY LiveFinite
    <2>3. Tasks = Cardinality(L)
        BY DEF IInv, CallInv, TasksCounted, Live
    <2>. HIDE DEF L
    <2>4. Cardinality(L \ {Cp}) = Cardinality(L) - 1
        BY <2>1, <2>2, FS_RemoveElement
    <2>. QED  BY <1>1, <2>1, <2>3, <2>4 DEF TasksCounted, Live
<1>4. /\ msg_queue' \in Seq(Pid)
       /\ IsInjective(msg_queue')
       /\ \A s \in Range(msg_queue') : s \in Range(msg_queue)
    <2>. DEFINE kept == {i \in 1 .. Len(msg_queue) : ~ MatchesIn(Messages, msg_queue[i], Cp, ANY)}
                T == Range(msg_queue)
    <2>1. msg_queue \in Seq(Pid) /\ DOMAIN msg_queue = 1 .. Len(msg_queue)
        BY LenProperties DEF IInv, CallInv
    <2>2. Lists(msg_queue, T)
        BY <2>1, SeqOfRange DEF Lists, IInv, CallInv, QueuedSendersBlocked
    <2>3. msg_queue' = AtIndices(msg_queue, kept) /\ kept \in SUBSET (1 .. Len(msg_queue))
        BY <1>1 DEF Purged
    <2>. HIDE DEF kept
    <2>4. /\ msg_queue' \in Seq(T)
          /\ IsInjective(msg_queue')
          /\ \A s \in Range(msg_queue') : \E i \in kept : s = msg_queue[i]
        BY <2>2, <2>3, AtIndicesLists
    <2>5. T \in SUBSET Pid
        BY <2>1, RangeOfSeq
    <2>6. msg_queue' \in Seq(Pid)
        BY <2>4, <2>5, SeqMonotonic
    <2>. QED  BY <2>1, <2>3, <2>4, <2>6 DEF Range
<1>5. QueuedSendersBlocked'
    <2>1. \A s \in Range(msg_queue) :
            /\ s \in Pid /\ s # Cp /\ state[s] = "SEND_BLOCK"
            /\ Messages[s].sender = s /\ Messages[s].data = s
        BY <1>1, QueuedBlocked DEF IInv, CallInv, QueuedSendersBlocked
    <2>2. \A s \in Range(msg_queue) : state'[s] = "SEND_BLOCK"
        BY <1>1, <1>2, <2>1
    <2>. QED  BY <1>1, <1>4, <2>1, <2>2 DEF QueuedSendersBlocked
<1>6. CallInv'
    <2>1. req' \in [Pid -> RequestInfo] /\ out_pid' \in Pid \union {NULL}
        BY <1>1, PassingTypes, ZeroReqType
    <2>. QED  BY <1>1, <1>3, <1>4, <1>5, <2>1 DEF IInv, CallInv, clockVars
<1>. QED  BY <1>2, <1>6 DEF IInv

-----------------------------------------------------------------------------
(* Messages.                                                                *)

\* The parameters the message calls pass are those of a request.
LEMMA InfoTypes ==
    ASSUME Cp \in Pid
    PROVE  /\ \A mask \in Masks :
                /\ [ZeroReq EXCEPT !.msg_mask = mask] \in RequestInfo
                /\ [ZeroReq EXCEPT !.msg_mask = mask, !.msg_ptr_data = Cp] \in RequestInfo
           /\ \A data \in Data : [ZeroReq EXCEPT !.msg_data = data] \in RequestInfo
           /\ \A mask \in Masks, data \in Data :
                [ZeroReq EXCEPT !.msg_mask = mask, !.msg_data = data] \in RequestInfo
BY MaskAssumption, PidFacts DEF ZeroReq, RequestInfo

\* The message queue and the mailboxes are as they should be before a request.
LEMMA QueuedMessages ==
    ASSUME IInv, Requesting
    PROVE  /\ Messages \in [Pid -> Message] /\ msg_queue \in Seq(Pid) /\ IsInjective(msg_queue)
           /\ \A s \in Range(msg_queue) :
                /\ s \in Pid /\ s # Cp /\ state[s] = "SEND_BLOCK"
                /\ Messages[s].sender = s /\ Messages[s].data = s
BY QueuedBlocked DEF IInv, CallInv, QueuedSendersBlocked, Requesting

\* A request that changes the state of the current task and of one other live
\* task, which is not in SEND_BLOCK, and no mailbox.
LEMMA PartnerKeeps ==
    ASSUME IInv, Requesting, NEW st \in [Pid \union {Idle} -> ProcessState], NEW to \in Pid,
           state[to] \notin {"DEAD", "SEND_BLOCK"},
           st[Cp] \notin {"DEAD", "RUNNING"}, st[to] \notin {"DEAD", "RUNNING"},
           \A p \in Pid \union {Idle} : p \notin {Cp, to} => st[p] = state[p],
           Dispatch(st, pd, queue, sys_clock, clock_state),
           UNCHANGED <<pd, Tasks, msgVars, clockVars>>,
           req' \in [Pid -> RequestInfo], out_pid' \in Pid \union {NULL}
    PROVE  IInv'
<1>1. Cp \in Pid /\ abort = "NONE" /\ state[Cp] \in {"RUNNING", "READY"}
    BY Caller
<1>2. \A p \in Pid : st[p] = "DEAD" <=> state[p] = "DEAD"
    BY <1>1
<1>3. Calm(st)
    BY <1>1 DEF Calm, IInv, SchedInv, OnlyCpRuns
<1>4. /\ Messages' \in [Pid -> Message] /\ msg_queue' \in Seq(Pid) /\ IsInjective(msg_queue')
      /\ \A s \in Range(msg_queue') :
            st[s] = "SEND_BLOCK" /\ Messages'[s].sender = s /\ Messages'[s].data = s
    BY QueuedMessages DEF msgVars
<1>5. /\ pd \in [Pid -> Descriptor]
      /\ sys_clock' \in Tick /\ clock_state' \in OverflowState
    BY DEF IInv, SchedInv, Filed, CallInv, clockVars
<1>. QED  BY <1>1, <1>2, <1>3, <1>4, <1>5, HandlerKeeps

\* Msg_Send: a refusal, the receiver's release, or a message in the queue.
LEMMA MsgSendKeeps ==
    ASSUME IInv, NEW to \in Pid \union {BadId}, NEW mask \in Masks,
           Kernel_Request_MsgSend(to, mask)
    PROVE  IInv'
<1>. DEFINE info == [ZeroReq EXCEPT !.msg_mask = mask, !.msg_ptr_data = Cp]
<1>1. /\ Requesting /\ Cp \in Pid /\ abort = "NONE"
      /\ state[Cp] \in {"RUNNING", "READY"} /\ Cp \notin Range(msg_queue)
    BY Caller DEF Kernel_Request_MsgSend
<1>2. info \in RequestInfo
    BY <1>1, InfoTypes
<1>. HIDE DEF info
<1>3. CASE ~ MayBlock
    <2>1. Abort("PERIODIC_MSG") /\ "PERIODIC_MSG" \in AbortCode
        BY <1>3 DEF Kernel_Request_MsgSend, AbortCode
    <2>. QED  BY <2>1, AbortKeeps
<1>4. CASE MayBlock /\ NoSuchTask(to)
    <2>1. Passing(info) /\ ReturnToCaller
        BY <1>4 DEF Kernel_Request_MsgSend, info
    <2>. QED  BY <1>1, <1>2, <2>1, PassingTypes, ReturnToCallerKeeps
<1>5. CASE MayBlock /\ ~ NoSuchTask(to) /\ WaitsFor(to, mask)
    <2>. DEFINE st == [state EXCEPT ![to] = "READY", ![Cp] = "REPLY_BLOCK"]
    <2>1. /\ req' = [req EXCEPT ![Cp] = info, ![to].msg_ptr_data = Cp, ![to].out_pid = Cp]
          /\ out_pid' = NULL
          /\ Dispatch(st, pd, queue, sys_clock, clock_state)
          /\ UNCHANGED <<pd, Tasks, msgVars, clockVars>>
        BY <1>5 DEF Kernel_Request_MsgSend, info
    <2>2. to \in Pid /\ state[to] = "RECV_BLOCK" /\ to # Cp
        BY <1>1, <1>5 DEF NoSuchTask, WaitsFor
    <2>3. req' \in [Pid -> RequestInfo]
        BY <1>1, <1>2, <2>1, <2>2 DEF IInv, CallInv, RequestInfo
    <2>4. /\ st \in [Pid \union {Idle} -> ProcessState]
          /\ st[to] = "READY" /\ st[Cp] = "REPLY_BLOCK"
          /\ \A p \in Pid \union {Idle} : p \notin {Cp, to} => st[p] = state[p]
        BY <1>1, <2>2 DEF IInv, SchedInv, Filed, ProcessState
    <2>. HIDE DEF st
    <2>. QED  BY <1>1, <2>1, <2>2, <2>3, <2>4, PartnerKeeps
<1>6. CASE MayBlock /\ ~ NoSuchTask(to) /\ ~ WaitsFor(to, mask)
    <2>. DEFINE st == [state EXCEPT ![Cp] = "SEND_BLOCK"]
                msg == [data |-> Cp, mask |-> mask, receiver |-> to, sender |-> Cp]
    <2>1. /\ Passing(info)
          /\ Messages' = [Messages EXCEPT ![Cp] = msg]
          /\ msg_queue' = Append(msg_queue, Cp)
          /\ Dispatch(st, pd, queue, sys_clock, clock_state)
          /\ UNCHANGED <<pd, Tasks, clockVars>>
        BY <1>6 DEF Kernel_Request_MsgSend, info
    <2>2. to \in Pid
        BY <1>6 DEF NoSuchTask
    <2>3. msg \in Message /\ msg.sender = Cp /\ msg.data = Cp
        BY <1>1, <2>2, MaskAssumption DEF Message
    <2>. HIDE DEF msg
    <2>4. /\ st \in [Pid \union {Idle} -> ProcessState]
          /\ \A p \in Pid \union {Idle} : st[p] = IF p = Cp THEN "SEND_BLOCK" ELSE state[p]
        BY <1>1 DEF IInv, SchedInv, Filed, ProcessState
    <2>. HIDE DEF st
    <2>5. Calm(st) /\ \A p \in Pid : st[p] = "DEAD" <=> state[p] = "DEAD"
        BY <1>1, <2>4 DEF Calm, IInv, SchedInv, OnlyCpRuns
    <2>6. Messages' \in [Pid -> Message]
        BY <1>1, <2>1, <2>3, QueuedMessages
    <2>7. msg_queue' \in Seq(Pid) /\ IsInjective(msg_queue')
            /\ Range(msg_queue') = Range(msg_queue) \union {Cp}
        <3>1. Lists(msg_queue, Range(msg_queue))
            BY <1>1, QueuedMessages, SeqOfRange DEF Lists
        <3>2. Lists(msg_queue', Range(msg_queue) \union {Cp})
            BY <1>1, <2>1, <3>1, EnqueueLists DEF enqueue
        <3>3. msg_queue' \in Seq(Pid)
            BY <1>1, <2>1, QueuedMessages, AppendProperties
        <3>. QED  BY <3>2, <3>3 DEF Lists
    <2>8. \A s \in Range(msg_queue') :
            st[s] = "SEND_BLOCK" /\ Messages'[s].sender = s /\ Messages'[s].data = s
        <3>1. \A s \in Range(msg_queue) :
                st[s] = "SEND_BLOCK" /\ Messages'[s].sender = s /\ Messages'[s].data = s
            BY <1>1, <2>1, <2>4, QueuedMessages
        <3>2. st[Cp] = "SEND_BLOCK" /\ Messages'[Cp].sender = Cp /\ Messages'[Cp].data = Cp
            BY <1>1, <2>1, <2>3, <2>4, QueuedMessages
        <3>. QED  BY <2>7, <3>1, <3>2
    <2>9. /\ req' \in [Pid -> RequestInfo] /\ out_pid' \in Pid \union {NULL}
          /\ pd \in [Pid -> Descriptor]
          /\ sys_clock' \in Tick /\ clock_state' \in OverflowState
        BY <1>1, <1>2, <2>1, PassingTypes DEF IInv, SchedInv, Filed, CallInv, clockVars
    <2>. QED  BY <1>1, <2>1, <2>4, <2>5, <2>6, <2>7, <2>8, <2>9, HandlerKeeps
<1>. QED  BY <1>3, <1>4, <1>5, <1>6

\* msg_find_receiver finds the first of the messages it looks for.
LEMMA FoundMatches ==
    ASSUME IInv, NEW receiver, NEW mask, HasMessage(receiver, mask)
    PROVE  LET k == Found(receiver, mask)
           IN  k \in 1 .. Len(msg_queue) /\ MatchesIn(Messages, msg_queue[k], receiver, mask)
<1>. DEFINE M == {i \in 1 .. Len(msg_queue) : MatchesIn(Messages, msg_queue[i], receiver, mask)}
<1>1. Len(msg_queue) \in Nat /\ M # {}
    BY LenProperties DEF IInv, CallInv, HasMessage
<1>2. PICK i \in M : \A j \in 1 .. i - 1 : j \notin M
    <2>1. M \in SUBSET (1 .. Len(msg_queue))
        OBVIOUS
    <2>. HIDE DEF M
    <2>. QED  BY <1>1, <2>1, FirstIndex
<1>3. \A j \in 1 .. i - 1 : ~ MatchesIn(Messages, msg_queue[j], receiver, mask)
    BY <1>1, <1>2
<1>. QED  BY <1>2, <1>3 DEF Found

\* Msg_Recv: the first message for the caller, or the caller blocked.
LEMMA MsgRecvKeeps ==
    ASSUME IInv, NEW mask \in Masks, Kernel_Request_MsgRecv(mask)
    PROVE  IInv'
<1>. DEFINE info == [ZeroReq EXCEPT !.msg_mask = mask]
<1>1. /\ Requesting /\ Cp \in Pid /\ abort = "NONE"
      /\ state[Cp] \in {"RUNNING", "READY"} /\ Cp \notin Range(msg_queue)
    BY Caller DEF Kernel_Request_MsgRecv
<1>2. info \in RequestInfo
    BY <1>1, InfoTypes
<1>3. /\ pd \in [Pid -> Descriptor]
      /\ UNCHANGED clockVars => sys_clock' \in Tick /\ clock_state' \in OverflowState
    BY DEF IInv, SchedInv, Filed, CallInv, clockVars
<1>4. CASE ~ MayBlock
    <2>1. Abort("PERIODIC_MSG") /\ "PERIODIC_MSG" \in AbortCode
        BY <1>4 DEF Kernel_Request_MsgRecv, AbortCode
    <2>. QED  BY <2>1, AbortKeeps
<1>5. CASE MayBlock /\ HasMessage(Cp, mask)
    <2>. DEFINE k == Found(Cp, mask)
                s == msg_queue[k]
                m == Messages[s]
                got == [info EXCEPT !.msg_ptr_data = m.data, !.out_pid = m.sender]
                st == [Entered EXCEPT ![m.sender] = "REPLY_BLOCK"]
    <2>1. /\ msg_queue' = Without(k)
          /\ Messages' = [Messages EXCEPT ![s] = Cleared(m)]
          /\ Passing(got)
          /\ Dispatch(st, pd, queue, sys_clock, clock_state)
          /\ UNCHANGED <<pd, Tasks, clockVars>>
        BY <1>5 DEF Kernel_Request_MsgRecv
    <2>2. k \in 1 .. Len(msg_queue)
        BY <1>5, FoundMatches
    <2>3. s \in Range(msg_queue)
        BY <2>2, LenProperties DEF IInv, CallInv, Range
    <2>4. s \in Pid /\ s # Cp /\ state[s] = "SEND_BLOCK" /\ m.sender = s /\ m.data = s
        BY <1>1, <2>3, QueuedMessages
    <2>5. /\ Entered \in [Pid \union {Idle} -> ProcessState]
          /\ \A p \in Pid \union {Idle} : Entered[p] = IF p = Cp THEN "READY" ELSE state[p]
          /\ \A p \in Pid : Entered[p] = "DEAD" <=> state[p] = "DEAD"
          /\ Calm(Entered)
        BY <1>1, EnteredFiled
    <2>6. got \in RequestInfo
        BY <1>2, <2>4 DEF RequestInfo
    <2>7. m \in Message /\ Cleared(m) \in Message
        <3>1. m \in Message
            BY <1>1, <2>4, QueuedMessages
        <3>2. \A msg \in Message : Cleared(msg) \in Message
            BY DEF Message, Cleared
        <3>. QED  BY <3>1, <3>2
    <2>8. Messages' \in [Pid -> Message] /\ \A p \in Pid : p # s => Messages'[p] = Messages[p]
        BY <1>1, <2>1, <2>4, <2>7, QueuedMessages
    <2>9. Lists(msg_queue', Range(msg_queue) \ {s}) /\ msg_queue' \in Seq(Pid)
        <3>1. Lists(msg_queue, Range(msg_queue)) /\ Range(msg_queue) \in SUBSET Pid
            BY <1>1, QueuedMessages, SeqOfRange, RangeOfSeq DEF Lists
        <3>2. Lists(msg_queue', Range(msg_queue) \ {s})
            BY <2>1, <2>2, <3>1, RemoveAtLists DEF Without
        <3>. QED  BY <3>1, <3>2, ListsPids
    <2>10. /\ st \in [Pid \union {Idle} -> ProcessState]
           /\ \A p \in Pid \union {Idle} : st[p] = IF p = s THEN "REPLY_BLOCK" ELSE Entered[p]
        BY <2>4, <2>5 DEF ProcessState
    <2>11. req' \in [Pid -> RequestInfo] /\ out_pid' \in Pid \union {NULL}
        <3>. HIDE DEF got
        <3>. QED  BY <1>1, <2>1, <2>6, PassingTypes
    <2>. HIDE DEF st, s
    <2>12. Calm(st) /\ \A p \in Pid : st[p] = "DEAD" <=> state[p] = "DEAD"
        BY <2>4, <2>5, <2>10 DEF Calm
    <2>13. \A p \in Range(msg_queue') :
            st[p] = "SEND_BLOCK" /\ Messages'[p].sender = p /\ Messages'[p].data = p
        <3>1. \A p \in Range(msg_queue') : p \in Range(msg_queue) /\ p # s
            BY <2>9 DEF Lists
        <3>. QED  BY <1>1, <2>5, <2>8, <2>10, <3>1, QueuedMessages
    <2>14. IsInjective(msg_queue')
        BY <2>9 DEF Lists
    <2>. QED  BY <1>1, <1>3, <2>1, <2>8, <2>9, <2>10, <2>11, <2>12, <2>13, <2>14, HandlerKeeps
<1>6. CASE MayBlock /\ ~ HasMessage(Cp, mask)
    <2>. DEFINE st == [state EXCEPT ![Cp] = "RECV_BLOCK"]
    <2>1. /\ Passing(info)
          /\ Dispatch(st, pd, queue, sys_clock, clock_state)
          /\ UNCHANGED <<pd, Tasks, msgVars, clockVars>>
        BY <1>6 DEF Kernel_Request_MsgRecv
    <2>. HIDE DEF info
    <2>2. /\ st \in [Pid \union {Idle} -> ProcessState]
          /\ \A p \in Pid \union {Idle} : st[p] = IF p = Cp THEN "RECV_BLOCK" ELSE state[p]
        BY <1>1 DEF IInv, SchedInv, Filed, ProcessState
    <2>. HIDE DEF st
    <2>3. Calm(st) /\ \A p \in Pid : st[p] = "DEAD" <=> state[p] = "DEAD"
        BY <1>1, <2>2 DEF Calm, IInv, SchedInv, OnlyCpRuns
    <2>4. /\ Messages' \in [Pid -> Message] /\ msg_queue' \in Seq(Pid) /\ IsInjective(msg_queue')
          /\ \A s \in Range(msg_queue') :
                st[s] = "SEND_BLOCK" /\ Messages'[s].sender = s /\ Messages'[s].data = s
        BY <1>1, <2>1, <2>2, QueuedMessages DEF msgVars
    <2>5. req' \in [Pid -> RequestInfo] /\ out_pid' \in Pid \union {NULL}
        BY <1>1, <1>2, <2>1, PassingTypes
    <2>. QED  BY <1>1, <1>3, <2>1, <2>2, <2>3, <2>4, <2>5, HandlerKeeps
<1>. QED  BY <1>4, <1>5, <1>6

\* Msg_Rply: a refusal, the sender's release, or nothing but a dispatch.
LEMMA MsgRplyKeeps ==
    ASSUME IInv, NEW to \in Pid \union {BadId}, NEW data \in Data,
           Kernel_Request_MsgRply(to, data)
    PROVE  IInv'
<1>. DEFINE info == [ZeroReq EXCEPT !.msg_data = data]
<1>1. Requesting /\ Cp \in Pid /\ abort = "NONE" /\ state[Cp] \in {"RUNNING", "READY"}
    BY Caller DEF Kernel_Request_MsgRply
<1>2. info \in RequestInfo
    BY <1>1, InfoTypes
<1>. HIDE DEF info
<1>3. /\ Entered \in [Pid \union {Idle} -> ProcessState]
      /\ \A p \in Pid \union {Idle} : Entered[p] = IF p = Cp THEN "READY" ELSE state[p]
    BY <1>1, EnteredFiled
<1>4. CASE ~ MayBlock
    <2>1. Abort("PERIODIC_MSG") /\ "PERIODIC_MSG" \in AbortCode
        BY <1>4 DEF Kernel_Request_MsgRply, AbortCode
    <2>. QED  BY <2>1, AbortKeeps
<1>5. CASE MayBlock /\ NoSuchTask(to)
    <2>1. Passing(info) /\ ReturnToCaller
        BY <1>5 DEF Kernel_Request_MsgRply, info
    <2>. QED  BY <1>1, <1>2, <2>1, PassingTypes, ReturnToCallerKeeps
<1>6. CASE MayBlock /\ ~ NoSuchTask(to) /\ AwaitsReply(to)
    <2>. DEFINE st == [Entered EXCEPT ![to] = "READY"]
    <2>1. /\ req' = [req EXCEPT ![Cp] = info, ![to].msg_data = data]
          /\ out_pid' = NULL
          /\ Dispatch(st, pd, queue, sys_clock, clock_state)
          /\ UNCHANGED <<pd, Tasks, msgVars, clockVars>>
        BY <1>6 DEF Kernel_Request_MsgRply, info
    <2>2. to \in Pid /\ state[to] = "REPLY_BLOCK" /\ to # Cp
        BY <1>1, <1>3, <1>6 DEF NoSuchTask, AwaitsReply
    <2>3. req' \in [Pid -> RequestInfo]
        BY <1>1, <1>2, <2>1, <2>2 DEF IInv, CallInv, RequestInfo
    <2>4. /\ st \in [Pid \union {Idle} -> ProcessState]
          /\ st[to] = "READY" /\ st[Cp] = "READY"
          /\ \A p \in Pid \union {Idle} : p \notin {Cp, to} => st[p] = state[p]
        BY <1>1, <1>3, <2>2 DEF ProcessState
    <2>. HIDE DEF st
    <2>. QED  BY <1>1, <2>1, <2>2, <2>3, <2>4, PartnerKeeps
<1>7. CASE MayBlock /\ ~ NoSuchTask(to) /\ ~ AwaitsReply(to)
    <2>1. /\ Passing(info)
          /\ Dispatch(Entered, pd, queue, sys_clock, clock_state)
          /\ UNCHANGED <<pd, Tasks, msgVars, clockVars>>
        BY <1>7 DEF Kernel_Request_MsgRply, info
    <2>2. /\ req' \in [Pid -> RequestInfo] /\ out_pid' \in Pid \union {NULL}
          /\ pd \in [Pid -> Descriptor]
          /\ sys_clock' \in Tick /\ clock_state' \in OverflowState
        BY <1>1, <1>2, <2>1, PassingTypes DEF IInv, SchedInv, Filed, CallInv, clockVars
    <2>. QED  BY <1>1, <2>1, <2>2, YieldKeeps
<1>. QED  BY <1>4, <1>5, <1>6, <1>7

\* Msg_ASend: an abort, a message that is lost, or the receiver's release.
LEMMA MsgASendKeeps ==
    ASSUME IInv, NEW to \in Pid \union {BadId}, NEW mask \in Masks, NEW data \in Data,
           Kernel_Request_MsgASend(to, mask, data)
    PROVE  IInv'
<1>. DEFINE info == [ZeroReq EXCEPT !.msg_mask = mask, !.msg_data = data]
<1>1. Requesting /\ Cp \in Pid /\ abort = "NONE" /\ state[Cp] \in {"RUNNING", "READY"}
    BY Caller DEF Kernel_Request_MsgASend
<1>2. info \in RequestInfo
    BY <1>1, InfoTypes
<1>. HIDE DEF info
<1>3. /\ Entered \in [Pid \union {Idle} -> ProcessState]
      /\ \A p \in Pid \union {Idle} : Entered[p] = IF p = Cp THEN "READY" ELSE state[p]
    BY <1>1, EnteredFiled
<1>4. CASE to = BadId
    <2>1. Abort("INVALID_REQ_INFO") /\ "INVALID_REQ_INFO" \in AbortCode
        BY <1>4 DEF Kernel_Request_MsgASend, AbortCode
    <2>. QED  BY <2>1, AbortKeeps
<1>5. CASE to # BadId /\ ~ WaitsFor(to, mask)
    <2>1. Passing(info) /\ ReturnToCaller
        BY <1>5 DEF Kernel_Request_MsgASend, info
    <2>. QED  BY <1>1, <1>2, <2>1, PassingTypes, ReturnToCallerKeeps
<1>6. CASE to # BadId /\ WaitsFor(to, mask)
    <2>. DEFINE st == [Entered EXCEPT ![to] = "READY"]
    <2>1. /\ req' = [req EXCEPT ![Cp] = info, ![to].msg_data = data,
                                ![to].msg_ptr_data = NULL, ![to].out_pid = Cp]
          /\ out_pid' = NULL
          /\ Dispatch(st, pd, queue, sys_clock, clock_state)
          /\ UNCHANGED <<pd, Tasks, msgVars, clockVars>>
        BY <1>6 DEF Kernel_Request_MsgASend, info
    <2>2. to \in Pid /\ state[to] = "RECV_BLOCK" /\ to # Cp
        BY <1>1, <1>6 DEF WaitsFor
    <2>3. req' \in [Pid -> RequestInfo]
        BY <1>1, <1>2, <2>1, <2>2 DEF IInv, CallInv, RequestInfo
    <2>4. /\ st \in [Pid \union {Idle} -> ProcessState]
          /\ st[to] = "READY" /\ st[Cp] = "READY"
          /\ \A p \in Pid \union {Idle} : p \notin {Cp, to} => st[p] = state[p]
        BY <1>1, <1>3, <2>2 DEF ProcessState
    <2>. HIDE DEF st
    <2>. QED  BY <1>1, <2>1, <2>2, <2>3, <2>4, PartnerKeeps
<1>. QED  BY <1>4, <1>5, <1>6

-----------------------------------------------------------------------------
(* The theorems.                                                            *)

\* Every step keeps the invariant: one lemma for each handler.
LEMMA StepKeeps == IInv /\ [Next]_vars => IInv'
<1>. SUFFICES ASSUME IInv, [Next]_vars PROVE IInv'
    OBVIOUS
<1>1. CASE Kernel_Start
    BY <1>1, StartKeeps
<1>2. ASSUME NEW r \in CreateRequests, Kernel_Request_Create(r) PROVE IInv'
    BY <1>2, CreateKeeps
<1>3. CASE Kernel_Request_Next
    BY <1>3, NextKeeps
<1>4. CASE Kernel_Request_Terminate
    BY <1>4, TerminateKeeps
<1>5. CASE Kernel_Request_Abort
    <2>1. Abort("USER") /\ "USER" \in AbortCode
        BY <1>5 DEF Kernel_Request_Abort, AbortCode
    <2>. QED  BY <2>1, AbortKeeps
<1>6. CASE Kernel_Request_GetPid
    BY <1>6, GetPidKeeps
<1>7. ASSUME NEW to \in Pid \union {BadId}, NEW mask \in Masks, Kernel_Request_MsgSend(to, mask)
      PROVE  IInv'
    BY <1>7, MsgSendKeeps
<1>8. ASSUME NEW mask \in Masks, Kernel_Request_MsgRecv(mask) PROVE IInv'
    BY <1>8, MsgRecvKeeps
<1>9. ASSUME NEW to \in Pid \union {BadId}, NEW data \in Data, Kernel_Request_MsgRply(to, data)
      PROVE  IInv'
    BY <1>9, MsgRplyKeeps
<1>10. ASSUME NEW to \in Pid \union {BadId}, NEW mask \in Masks, NEW data \in Data,
              Kernel_Request_MsgASend(to, mask, data)
       PROVE  IInv'
    BY <1>10, MsgASendKeeps
<1>11. CASE Kernel_Request_Timer
    BY <1>11, TimerKeeps
<1>12. CASE UNCHANGED vars
    <2>1. TasksCounted' /\ QueuedSendersBlocked'
        BY <1>12, CountKept, SendersKept DEF vars, taskVars, msgVars
    <2>2. CallInv'
        BY <1>12, <2>1 DEF vars, taskVars, msgVars, clockVars, IInv, CallInv
    <2>3. SchedInv'
        BY <1>12 DEF vars, taskVars, IInv, SchedInv, Filed, Belong, RunningAtFront, OnlyCpRuns,
                     NoInternalAbort
    <2>. QED  BY <2>2, <2>3 DEF IInv
<1>. QED
    BY <1>1, <1>2, <1>3, <1>4, <1>5, <1>6, <1>7, <1>8, <1>9, <1>10, <1>11, <1>12
       DEF Next, Request, Halted

\* IInv holds in every state of every behavior of the kernel, whatever the
\* tasks ask of it and whenever the tick comes.
THEOREM InductiveInvariant == Spec => []IInv
<1>1. Init => IInv
    BY InitIInv
<1>2. IInv /\ [Next]_vars => IInv'
    BY StepKeeps
<1>. QED  BY <1>1, <1>2, PTL DEF Spec

\* Every variable keeps to the values of its type: no handler takes a pid, a
\* queue, a message or a request from where there is none (TypeOK).
THEOREM TypeCorrect == Spec => []TypeOK
<1>1. IInv => TypeOK
    BY DEF IInv, SchedInv, CallInv, Filed, TypeOK
<1>. QED  BY <1>1, InductiveInvariant, PTL

\* A task is in the queue of its priority, once, if and only if it is not DEAD
\* (every handler's queue operations, in pairs with its state changes).
THEOREM QueuesCorrect == Spec => []QueuesHoldLiveTasks
<1>1. IInv => QueuesHoldLiveTasks
    BY DEF IInv, SchedInv, Filed, Lists, Belong, Live, QueuesHoldLiveTasks
<1>. QED  BY <1>1, InductiveInvariant, PTL

\* The current task is at the front of its queue and able to run, as Dispatch
\* and Kernel_Request_Terminate take for granted.
THEOREM CurrentAtFront == Spec => []RunningAtFront
<1>1. IInv => RunningAtFront
    BY DEF IInv, SchedInv
<1>. QED  BY <1>1, InductiveInvariant, PTL

\* No task but the current one is marked RUNNING, so none is lost to Dispatch.
THEOREM OneRunning == Spec => []OnlyCpRuns
<1>1. IInv => OnlyCpRuns
    BY DEF IInv, SchedInv
<1>. QED  BY <1>1, InductiveInvariant, PTL

\* Tasks is the number of descriptors in use.
THEOREM CountCorrect == Spec => []TasksCounted
<1>1. IInv => TasksCounted
    BY DEF IInv, CallInv
<1>. QED  BY <1>1, InductiveInvariant, PTL

\* The kernel never stops with QUEUEING_ERROR, WRONG_TASK_ORDER or
\* NO_DEAD_PROCESS, its checks of its own queues and descriptors.
THEOREM InternalChecksHold == Spec => []NoInternalAbort
<1>1. IInv => NoInternalAbort
    BY DEF IInv, SchedInv
<1>. QED  BY <1>1, InductiveInvariant, PTL

\* A message in the queue is its sender's only one, and the sender is blocked
\* for as long as the message is there.
THEOREM SendersBlocked == Spec => []QueuedSendersBlocked
<1>1. IInv => QueuedSendersBlocked
    BY DEF IInv, CallInv
<1>. QED  BY <1>1, InductiveInvariant, PTL

-----------------------------------------------------------------------------
(* What the tasks may rely on in the kernel's calls: no message is missed   *)
(* or left for a dead task, no PERIODIC task is blocked, a blocked task is  *)
(* released by its partner only, and a ready SYSTEM task has the processor. *)
(*                                                                          *)
(* PartnerInv is inductive together with IInv.  ChoiceInv is established by *)
(* each Dispatch, from PeriodicNotBlocked, and kept by the calls that       *)
(* return to the caller.                                                    *)

Blocked == {"SEND_BLOCK", "REPLY_BLOCK", "RECV_BLOCK"}

PartnerInv == PeriodicNotBlocked /\ NoMessageForDead /\ NoMissedMessage

ChoiceInv == SystemPreempts /\ IdleOnlyWhenNothingReady

\* The inductive invariant of this module.
CallsInv == IInv /\ PartnerInv /\ ChoiceInv

\* What every step does: it keeps the two, and unblocks by a partner only.
StepCorrect == PartnerInv' /\ ChoiceInv' /\ \A p \in Pid : UnblockedBy(p)

\* No task that is PERIODIC is blocked, in the states a handler dispatches.
NoneBlocked(st, pds) ==
    \A p \in Pid : st[p] \in Blocked => pds[p].priority # "PERIODIC"

LEMMA PeriodicNotBlockedMeans ==
    ASSUME state \in [Pid \union {Idle} -> ProcessState]
    PROVE  PeriodicNotBlocked <=> NoneBlocked(state, pd)
BY DEF PeriodicNotBlocked, NoneBlocked, Blocked, Live, ProcessState

-----------------------------------------------------------------------------
(* The choice of Dispatch.                                                  *)

\* A queue has a READY task if one of its tasks is READY.
LEMMA HasReadyMeans ==
    ASSUME NEW q, NEW T, Lists(q, T), NEW st
    PROVE  HasReady(q, st) <=> \E p \in T : st[p] = "READY"
<1>1. q \in Seq(T) /\ DOMAIN q = 1 .. Len(q) /\ Range(q) = T
    BY LenProperties DEF Lists
<1>2. \A p \in T : \E i \in 1 .. Len(q) : p = q[i]
    BY <1>1 DEF Range
<1>3. \A i \in 1 .. Len(q) : q[i] \in T
    BY <1>1, ElementOfSeq
<1>. QED  BY <1>2, <1>3 DEF HasReady

\* A task of a lower level is chosen only if no SYSTEM task is READY, and the
\* idle process only if no SYSTEM or RR task is, when no PERIODIC one is blocked.
LEMMA ChooseTop ==
    ASSUME NEW st, NEW pds, NEW qs, NEW clock, NEW overflow,
           Filed(st, pds, qs), Calm(st), NoneBlocked(st, pds), pd' = pds,
           Choose(st, pds, qs, clock, overflow)
    PROVE  ChoiceInv'
<1>. DEFINE l == ChosenLevel(st, pds, qs, clock, overflow)
            r == Queue_Rotate_Ready(qs[l], st)
            rotated == [qs EXCEPT ![l] = r]
            next == IF HasReady(qs[l], st) THEN Head(rotated[l]) ELSE Idle
<1>1. l \in Level
    BY DEF ChosenLevel, Level
<1>2. \/ abort' = "TIMING_VIOLATION"
      \/ Cp' = next /\ state' = [st EXCEPT ![next] = "RUNNING"]
    BY DEF Choose
<1>3. \A k \in Level : HasReady(qs[k], st) <=> \E p \in Belong(st, pds, k) : st[p] = "READY"
    BY HasReadyMeans DEF Filed
<1>4. l # "SYSTEM" => \A p \in Belong(st, pds, "SYSTEM") : st[p] # "READY"
    BY <1>3 DEF ChosenLevel, Level
<1>5. l = "PERIODIC" => HasReady(qs[l], st)
    <2>1. SUFFICES ASSUME l = "PERIODIC" PROVE \E p \in Belong(st, pds, "PERIODIC") : st[p] = "READY"
        BY <1>3 DEF Level
    <2>2. qs["PERIODIC"] # <<>>
        BY <2>1 DEF ChosenLevel, PeriodicDue
    <2>3. Lists(qs["PERIODIC"], Belong(st, pds, "PERIODIC"))
        BY DEF Filed, Level
    <2>4. Head(qs["PERIODIC"]) \in Belong(st, pds, "PERIODIC")
        BY <2>2, <2>3, TailLists
    <2>5. \A p \in Belong(st, pds, "PERIODIC") : st[p] = "READY"
        BY DEF Belong, NoneBlocked, Blocked, Calm, Filed, ProcessState
    <2>. QED  BY <2>4, <2>5
<1>6. l = "SYSTEM" => HasReady(qs[l], st)
    BY <1>3 DEF ChosenLevel, Level
<1>. HIDE DEF l
<1>7. Lists(qs[l], Belong(st, pds, l))
    BY <1>1 DEF Filed
<1>8. HasReady(qs[l], st) => r # <<>> /\ Head(r) \in Belong(st, pds, l)
    BY <1>7, RotateLists
<1>. HIDE DEF r
<1>9. rotated[l] = r
    BY <1>1 DEF Filed
<1>10. \/ next = Idle /\ ~ HasReady(qs[l], st)
       \/ next \in Pid /\ pds[next].priority = l /\ HasReady(qs[l], st)
    BY <1>8, <1>9 DEF Belong
<1>. HIDE DEF next, rotated
<1>11. CASE abort' = "TIMING_VIOLATION"
    BY <1>11 DEF ChoiceInv, SystemPreempts, IdleOnlyWhenNothingReady
<1>12. CASE Cp' = next /\ state' = [st EXCEPT ![next] = "RUNNING"]
    <2>1. \A p \in Pid : state'[p] = "READY" => st[p] = "READY"
        BY <1>12 DEF Filed
    <2>2. \A p \in Pid : state'[p] # "DEAD" => (st[p] # "DEAD" \/ p = next)
        BY <1>12 DEF Filed
    <2>3. \A k \in Level, p \in Pid : state'[p] = "READY" /\ pd'[p].priority = k
                                        => p \in Belong(st, pds, k) /\ st[p] = "READY"
        BY <2>1 DEF Belong
    <2>4. \/ next \in Pid /\ pds[next].priority = "SYSTEM"
          \/ \A p \in Belong(st, pds, "SYSTEM") : st[p] # "READY"
        BY <1>1, <1>4, <1>6, <1>10
    <2>5. SystemPreempts'
        BY <1>12, <2>3, <2>4, PidFacts DEF SystemPreempts, RunsAt, Live, Level
    <2>6. next = Idle => l = "RR" /\ ~ HasReady(qs["RR"], st)
        BY <1>1, <1>5, <1>6, <1>10, PidFacts DEF Level
    <2>7. next = Idle => /\ \A p \in Belong(st, pds, "SYSTEM") : st[p] # "READY"
                         /\ \A p \in Belong(st, pds, "RR") : st[p] # "READY"
        BY <1>3, <1>4, <2>6 DEF Level
    <2>8. \A p \in Pid : pds[p].priority \in {"SYSTEM", "PERIODIC", "RR"}
        BY DEF Filed, Descriptor, Level
    <2>9. IdleOnlyWhenNothingReady'
        BY <1>12, <2>3, <2>7, <2>8 DEF IdleOnlyWhenNothingReady, Live, Level
    <2>. QED  BY <2>5, <2>9 DEF ChoiceInv
<1>. QED  BY <1>2, <1>11, <1>12

\* Dispatch, of tasks that are filed.
LEMMA DispatchTop ==
    ASSUME SchedInv, abort = "NONE", Cp \in Pid \union {Idle},
           NEW st, NEW pds, NEW qs, NEW clock, NEW overflow,
           Filed(st, pds, qs), Calm(st), NoneBlocked(st, pds),
           Dispatch(st, pds, qs, clock, overflow), pd' = pds
    PROVE  /\ ChoiceInv'
           /\ PeriodicNotBlocked'
           /\ \A p \in Pid : state'[p] = st[p] \/ (st[p] = "READY" /\ state'[p] = "RUNNING")
<1>1. Filed(st, pds, Requeue(qs, pds, clock))
    BY RequeueFiled
<1>2. Choose(st, pds, Requeue(qs, pds, clock), clock, overflow)
    BY DEF Dispatch
<1>3. ChoiceInv'
    BY <1>1, <1>2, ChooseTop
<1>4. /\ SchedInv'
      /\ \A p \in Pid : state'[p] = st[p] \/ (st[p] = "READY" /\ state'[p] = "RUNNING")
    BY DispatchKeeps
<1>5. NoneBlocked(state', pd')
    BY <1>4 DEF NoneBlocked, Blocked
<1>6. PeriodicNotBlocked'
    BY <1>4, <1>5 DEF PeriodicNotBlocked, NoneBlocked, Blocked, Live, SchedInv, Filed, ProcessState
<1>. QED  BY <1>3, <1>4, <1>6

-----------------------------------------------------------------------------
(* What the handlers have in common.                                        *)

\* A handler that dispatches tasks filed in their queues as they were, and
\* blocks none but a caller that may block.
LEMMA HandlerTop ==
    ASSUME IInv, PartnerInv, abort = "NONE", Cp \in Pid \union {Idle},
           NEW st \in [Pid \union {Idle} -> ProcessState], Calm(st),
           NEW pds \in [Pid -> Descriptor], NEW clock, NEW overflow,
           \A p \in Pid : st[p] = "DEAD" <=> state[p] = "DEAD",
           \A p \in Pid : pds[p].priority = pd[p].priority,
           \A p \in Pid : st[p] \in Blocked => state[p] \in Blocked \/ (p = Cp /\ MayBlock),
           Dispatch(st, pds, queue, clock, overflow), pd' = pds
    PROVE  /\ ChoiceInv'
           /\ PeriodicNotBlocked'
           /\ \A p \in Pid : state'[p] = st[p] \/ (st[p] = "READY" /\ state'[p] = "RUNNING")
<1>1. SchedInv /\ Filed(state, pd, queue)
    BY DEF IInv, SchedInv
<1>2. Filed(st, pds, queue)
    <2>1. /\ st \in [Pid \union {Idle} -> ProcessState]
          /\ pds \in [Pid -> Descriptor]
          /\ \A p \in Pid : st[p] = "DEAD" <=> state[p] = "DEAD"
          /\ \A p \in Pid : pds[p].priority = pd[p].priority
        OBVIOUS
    <2>. QED  BY ONLY <1>1, <2>1, FiledSame
<1>3. NoneBlocked(st, pds)
    <2>1. NoneBlocked(state, pd)
        BY <1>1, PeriodicNotBlockedMeans DEF PartnerInv, Filed
    <2>. QED  BY <2>1 DEF NoneBlocked, MayBlock
<1>. QED  BY <1>1, <1>2, <1>3, DispatchTop

\* A step that sends and takes no message, ends no task, and leaves the masks
\* of the tasks that wait for one as they were.
LEMMA MessagesKept ==
    ASSUME IInv, PartnerInv, UNCHANGED msgVars,
           \A p \in Pid : state'[p] = "DEAD" => state[p] = "DEAD",
           \A p \in Pid : state'[p] = "RECV_BLOCK" =>
                state[p] = "RECV_BLOCK" /\ req'[p].msg_mask = req[p].msg_mask
    PROVE  NoMessageForDead' /\ NoMissedMessage'
<1>1. NoMessageForDead'
    BY DEF PartnerInv, NoMessageForDead, Live, msgVars
<1>2. NoMissedMessage'
    BY DEF PartnerInv, NoMissedMessage, MatchesIn, msgVars
<1>. QED  BY <1>1, <1>2

\* A task that stays blocked is not unblocked by anyone.
LEMMA StaysBlocked ==
    ASSUME NEW p, state[p] \in Blocked => state'[p] = state[p]
    PROVE  UnblockedBy(p)
BY DEF UnblockedBy, Blocked

\* utils_abort.
LEMMA AbortCorrect == ASSUME CallsInv, NEW code \in AbortCode, Abort(code) PROVE StepCorrect
<1>1. abort' # "NONE"
    BY DEF Abort, AbortCode
<1>2. ChoiceInv'
    BY <1>1 DEF ChoiceInv, SystemPreempts, IdleOnlyWhenNothingReady
<1>3. PartnerInv'
    BY DEF Abort, taskVars, msgVars, CallsInv, PartnerInv, PeriodicNotBlocked, NoMessageForDead,
           NoMissedMessage, MatchesIn, Live
<1>4. \A p \in Pid : UnblockedBy(p)
    BY StaysBlocked DEF Abort
<1>. QED  BY <1>2, <1>3, <1>4 DEF StepCorrect

\* A refused call: the caller goes on.
LEMMA ReturnCorrect ==
    ASSUME CallsInv, Requesting, ReturnToCaller, \A p \in Pid : p # Cp => req'[p] = req[p]
    PROVE  StepCorrect
<1>1. /\ Cp \in Pid /\ Cp' = Cp /\ pd' = pd /\ UNCHANGED msgVars
      /\ state[Cp] \in {"RUNNING", "READY"}
      /\ \A p \in Pid : state'[p] = IF p = Cp THEN "READY" ELSE state[p]
    BY EnteredFiled, Caller DEF ReturnToCaller, CallsInv, Requesting, taskVars
<1>2. ChoiceInv'
    BY <1>1, PidFacts DEF CallsInv, ChoiceInv, SystemPreempts, IdleOnlyWhenNothingReady, RunsAt, Live,
       Requesting
<1>3. PeriodicNotBlocked'
    BY <1>1 DEF CallsInv, PartnerInv, PeriodicNotBlocked, Live
<1>4. NoMessageForDead' /\ NoMissedMessage'
    BY <1>1, MessagesKept DEF CallsInv
<1>5. \A p \in Pid : UnblockedBy(p)
    BY <1>1, StaysBlocked DEF Blocked
<1>. QED  BY <1>2, <1>3, <1>4, <1>5 DEF StepCorrect, PartnerInv

\* The calls' parameters leave those of the other tasks as they were.
LEMMA OthersPass ==
    ASSUME IInv, Cp \in Pid
    PROVE  /\ \A info : Passing(info) => \A p \in Pid : p # Cp => req'[p] = req[p]
           /\ \A pid : Returning(pid) => \A p \in Pid : p # Cp => req'[p] = req[p]
BY DEF Passing, Returning, IInv, CallInv

\* A handler that leaves every task but the current one as it was.
LEMMA YieldCorrect ==
    ASSUME CallsInv, abort = "NONE", Cp \in Pid \union {Idle},
           NEW pds \in [Pid -> Descriptor], NEW clock, NEW overflow,
           \A p \in Pid : pds[p].priority = pd[p].priority,
           Dispatch(Entered, pds, queue, clock, overflow),
           pd' = pds, UNCHANGED msgVars, \A p \in Pid : p # Cp => req'[p] = req[p]
    PROVE  StepCorrect
<1>1. /\ Entered \in [Pid \union {Idle} -> ProcessState]
      /\ \A p \in Pid \union {Idle} : Entered[p] = IF p = Cp THEN "READY" ELSE state[p]
      /\ \A p \in Pid : Entered[p] = "DEAD" <=> state[p] = "DEAD"
      /\ Calm(Entered)
    BY EnteredFiled DEF CallsInv
<1>2. \A p \in Pid : Entered[p] \in Blocked => state[p] \in Blocked \/ (p = Cp /\ MayBlock)
    BY <1>1 DEF Blocked
<1>3. /\ ChoiceInv'
      /\ PeriodicNotBlocked'
      /\ \A p \in Pid : state'[p] = Entered[p] \/ (Entered[p] = "READY" /\ state'[p] = "RUNNING")
    BY <1>1, <1>2, HandlerTop DEF CallsInv
<1>4. Cp \in Pid => state[Cp] \in {"RUNNING", "READY"}
    BY DEF CallsInv, IInv, SchedInv, RunningAtFront
<1>5. NoMessageForDead' /\ NoMissedMessage'
    <2>1. \A p \in Pid : state'[p] = "RECV_BLOCK" => state[p] = "RECV_BLOCK" /\ p # Cp
        BY <1>1, <1>3
    <2>2. \A p \in Pid : state'[p] = "DEAD" => state[p] = "DEAD"
        BY <1>1, <1>3
    <2>. QED  BY <2>1, <2>2, MessagesKept DEF CallsInv
<1>6. \A p \in Pid : UnblockedBy(p)
    BY <1>1, <1>3, <1>4, StaysBlocked DEF Blocked
<1>. QED  BY <1>3, <1>5, <1>6 DEF StepCorrect, PartnerInv

-----------------------------------------------------------------------------
(* The handlers, one lemma each.                                            *)

\* Kernel_Start.
LEMMA StartCorrect == ASSUME CallsInv, Kernel_Start PROVE StepCorrect
<1>1. Calm(state) /\ Filed(state, pd, queue) /\ NoneBlocked(state, pd)
    BY PidFacts, PeriodicNotBlockedMeans
       DEF Kernel_Start, CallsInv, PartnerInv, IInv, SchedInv, OnlyCpRuns, Calm, Filed
<1>2. /\ pd' = pd /\ Choose(state, pd, queue, sys_clock, clock_state)
      /\ UNCHANGED <<msgVars, req>>
    BY DEF Kernel_Start
<1>3. /\ ChoiceInv'
      /\ \A p \in Pid : state'[p] = state[p] \/ (state[p] = "READY" /\ state'[p] = "RUNNING")
    BY <1>1, <1>2, ChooseTop, ChooseFiled
<1>4. PeriodicNotBlocked'
    BY <1>2, <1>3 DEF CallsInv, PartnerInv, PeriodicNotBlocked, Live
<1>5. NoMessageForDead' /\ NoMissedMessage'
    BY <1>2, <1>3, MessagesKept DEF CallsInv
<1>6. \A p \in Pid : UnblockedBy(p)
    BY <1>3, StaysBlocked DEF Blocked
<1>. QED  BY <1>3, <1>4, <1>5, <1>6 DEF StepCorrect, PartnerInv

\* Kernel_Task_Create: the new task takes the place of a dead one, which no
\* message is for.
LEMMA CreateTaskCorrect ==
    ASSUME CallsInv, Requesting, ~ TooManyTasks, NEW r \in CreateRequests, CreateTask(r)
    PROVE  StepCorrect
<1>. DEFINE x == FreePid
            st == StatesWith
            pds == PdsWith(r)
<1>1. /\ Cp \in Pid /\ abort = "NONE"
      /\ x \in Pid /\ state[x] = "DEAD" /\ x # Cp
      /\ pd' = pds
      /\ req' = [req EXCEPT ![x] = ZeroReq, ![Cp] = ZeroReq]
      /\ Dispatch(st, pds, QueuesWith(r), sys_clock, clock_state)
      /\ UNCHANGED <<msgVars, clockVars>>
      /\ \A p \in Pid : pds[p] = IF p = x THEN NewPd(r) ELSE pd[p]
      /\ \A p \in Pid \union {Idle} : st[p] = IF p \in {x, Cp} THEN "READY" ELSE state[p]
      /\ Calm(st)
      /\ Filed(st, pds, QueuesWith(r))
    BY CreateFiled DEF CallsInv
<1>2. state[Cp] \in {"RUNNING", "READY"}
    BY Caller DEF CallsInv
<1>. HIDE DEF x, st, pds
<1>3. NoneBlocked(st, pds)
    <2>1. NoneBlocked(state, pd)
        BY PeriodicNotBlockedMeans DEF CallsInv, PartnerInv, IInv, SchedInv, Filed
    <2>. QED  BY <1>1, <2>1 DEF NoneBlocked, Blocked
<1>4. /\ ChoiceInv'
      /\ PeriodicNotBlocked'
      /\ \A p \in Pid : state'[p] = st[p] \/ (st[p] = "READY" /\ state'[p] = "RUNNING")
    BY <1>1, <1>3, DispatchTop DEF CallsInv, IInv
<1>5. NoMessageForDead' /\ NoMissedMessage'
    <2>1. \A p \in Pid : state'[p] = "RECV_BLOCK" =>
                state[p] = "RECV_BLOCK" /\ p # x /\ p # Cp
        BY <1>1, <1>4
    <2>2. \A p \in Pid : p # x /\ p # Cp => req'[p] = req[p]
        BY <1>1 DEF CallsInv, IInv, CallInv
    <2>3. \A p \in Pid : state'[p] = "DEAD" => state[p] = "DEAD"
        BY <1>1, <1>4
    <2>. QED  BY <1>1, <2>1, <2>2, <2>3, MessagesKept DEF CallsInv
<1>6. \A p \in Pid : UnblockedBy(p)
    BY <1>1, <1>2, <1>4, StaysBlocked DEF Blocked
<1>. QED  BY <1>4, <1>5, <1>6 DEF StepCorrect, PartnerInv

\* Task_Create.
LEMMA CreateCorrect ==
    ASSUME CallsInv, NEW r \in CreateRequests, Kernel_Request_Create(r)
    PROVE  StepCorrect
<1>1. Requesting /\ Cp \in Pid /\ abort = "NONE"
    BY DEF Kernel_Request_Create, Requesting
<1>2. CASE TooManyTasks
    <2>1. /\ Returning(0)
          /\ Dispatch(Entered, pd, queue, sys_clock, clock_state)
          /\ UNCHANGED <<pd, Tasks, msgVars, clockVars>>
        BY <1>2 DEF Kernel_Request_Create
    <2>2. \A p \in Pid : p # Cp => req'[p] = req[p]
        BY <1>1, <2>1, OthersPass DEF CallsInv
    <2>3. pd \in [Pid -> Descriptor]
        BY DEF CallsInv, IInv, SchedInv, Filed
    <2>. QED  BY <1>1, <2>1, <2>2, <2>3, YieldCorrect
<1>3. CASE ~ TooManyTasks
    <2>1. \/ Abort("NULL_TASK_FUNCTION")
          \/ Abort("INVALID_REQ_INFO")
          \/ CreateTask(r)
        BY <1>3, FreeDescriptor DEF Kernel_Request_Create, CallsInv
    <2>2. "NULL_TASK_FUNCTION" \in AbortCode /\ "INVALID_REQ_INFO" \in AbortCode
        BY DEF AbortCode
    <2>. QED  BY <1>1, <1>3, <2>1, <2>2, AbortCorrect, CreateTaskCorrect
<1>. QED  BY <1>2, <1>3

\* A request or a tick may change the descriptor of the current task: its
\* level, which the invariant IInv pins down, is not what changes.
LEMMA NextLevels ==
    ASSUME IInv, Kernel_Request_Next
    PROVE  pd' \in [Pid -> Descriptor] /\ \A p \in Pid : pd'[p].priority = pd[p].priority
<1>1. pd \in [Pid -> Descriptor] /\ Cp \in Pid
    BY DEF IInv, SchedInv, Filed, Kernel_Request_Next, Requesting
<1>2. pd' \in [Pid -> Descriptor]
    BY NextKeeps DEF IInv, SchedInv, Filed
<1>3. pd' = [pd EXCEPT ![Cp] =
                CASE @.priority = "SYSTEM" -> @
                  [] @.priority = "RR" -> [@ EXCEPT !.ticks_remaining = 1]
                  [] @.priority = "PERIODIC" -> NextPeriod(@)]
    BY DEF Kernel_Request_Next
<1>4. \A d \in Descriptor : /\ NextPeriod(d).priority = d.priority
                            /\ [d EXCEPT !.ticks_remaining = 1].priority = d.priority
                            /\ d.priority \in {"SYSTEM", "RR", "PERIODIC"}
    BY DEF NextPeriod, Descriptor, Level
<1>5. \A p \in Pid : p # Cp => pd'[p] = pd[p]
    BY <1>1, <1>3
<1>6. pd'[Cp].priority = pd[Cp].priority
    <2>1. pd'[Cp] = CASE pd[Cp].priority = "SYSTEM" -> pd[Cp]
                      [] pd[Cp].priority = "RR" -> [pd[Cp] EXCEPT !.ticks_remaining = 1]
                      [] pd[Cp].priority = "PERIODIC" -> NextPeriod(pd[Cp])
        BY <1>1, <1>3
    <2>. QED  BY <1>1, <1>4, <2>1
<1>. QED  BY <1>2, <1>5, <1>6

\* Task_Next.
LEMMA NextCorrect == ASSUME CallsInv, Kernel_Request_Next PROVE StepCorrect
<1>1. /\ Cp \in Pid /\ abort = "NONE" /\ Passing(ZeroReq)
      /\ Dispatch(Entered, pd', queue, sys_clock, clock_state)
      /\ UNCHANGED msgVars
    BY DEF Kernel_Request_Next, Requesting
<1>2. pd' \in [Pid -> Descriptor] /\ \A p \in Pid : pd'[p].priority = pd[p].priority
    BY NextLevels DEF CallsInv
<1>3. \A p \in Pid : p # Cp => req'[p] = req[p]
    BY <1>1, OthersPass DEF CallsInv
<1>. QED  BY <1>1, <1>2, <1>3, YieldCorrect

\* The descriptors after a tick.
LEMMA TickedLevels ==
    ASSUME IInv, Cp \in Pid \union {Idle}
    PROVE  Ticked \in [Pid -> Descriptor] /\ \A p \in Pid : Ticked[p].priority = pd[p].priority
<1>1. pd \in [Pid -> Descriptor]
    BY DEF IInv, SchedInv, Filed
<1>2. CASE Cp = Idle \/ pd[Cp].priority = "SYSTEM"
    BY <1>1, <1>2 DEF Ticked
<1>3. CASE ~ (Cp = Idle \/ pd[Cp].priority = "SYSTEM")
    <2>. DEFINE t == IF pd[Cp].priority = "RR" /\ TicksLeft(Cp) = 0 THEN 1 ELSE TicksLeft(Cp)
    <2>1. Cp \in Pid /\ pd[Cp] \in Descriptor
        BY <1>1, <1>3
    <2>2. t \in Tick
        BY <2>1, TickAssumption DEF TicksLeft, Descriptor, Tick
    <2>3. Ticked = [pd EXCEPT ![Cp].ticks_remaining = t]
        BY <1>3 DEF Ticked
    <2>. HIDE DEF t
    <2>. QED  BY <1>1, <2>1, <2>2, <2>3 DEF Descriptor
<1>. QED  BY <1>2, <1>3

\* The tick.
LEMMA TimerCorrect == ASSUME CallsInv, Kernel_Request_Timer PROVE StepCorrect
<1>1. abort = "NONE" /\ Cp \in Pid \union {Idle}
    BY DEF Kernel_Request_Timer, CallsInv, IInv, SchedInv
<1>2. CASE Overrun
    <2>1. Abort("TIMING_VIOLATION") /\ "TIMING_VIOLATION" \in AbortCode
        BY <1>2 DEF Kernel_Request_Timer, AbortCode
    <2>. QED  BY <2>1, AbortCorrect
<1>3. CASE ~ Overrun
    <2>. DEFINE clock == (sys_clock + 1) % TickMod
                overflow == IF clock < sys_clock THEN Flipped(clock_state) ELSE clock_state
    <2>1. /\ pd' = Ticked
          /\ Dispatch(Entered, Ticked, queue, clock, overflow)
          /\ UNCHANGED <<msgVars, req>>
        BY <1>3 DEF Kernel_Request_Timer
    <2>2. Ticked \in [Pid -> Descriptor] /\ \A p \in Pid : Ticked[p].priority = pd[p].priority
        BY <1>1, TickedLevels DEF CallsInv
    <2>. HIDE DEF clock, overflow
    <2>. QED  BY <1>1, <2>1, <2>2, YieldCorrect
<1>. QED  BY <1>2, <1>3

\* Task_Terminate: every message for the task that ends goes with it.
LEMMA TerminateCorrect == ASSUME CallsInv, Kernel_Request_Terminate PROVE StepCorrect
<1>. DEFINE st == StatesWithout
            kept == {i \in 1 .. Len(msg_queue) : ~ MatchesIn(Messages, msg_queue[i], Cp, ANY)}
<1>1. /\ Cp \in Pid /\ abort = "NONE"
      /\ state[Cp] \in {"RUNNING", "READY"}
      /\ msg_queue' = Purged(Cp) /\ Passing(ZeroReq)
      /\ Dispatch(st, pd, QueuesWithout, sys_clock, clock_state)
      /\ UNCHANGED <<pd, Messages, clockVars>>
      /\ \A p \in Pid \union {Idle} : st[p] = IF p = Cp THEN "DEAD" ELSE state[p]
      /\ Calm(st)
      /\ Filed(st, pd, QueuesWithout)
    BY TerminateFiled DEF CallsInv
<1>. HIDE DEF st
<1>2. NoneBlocked(st, pd)
    <2>1. NoneBlocked(state, pd)
        BY PeriodicNotBlockedMeans DEF CallsInv, PartnerInv, IInv, SchedInv, Filed
    <2>. QED  BY <1>1, <2>1 DEF NoneBlocked, Blocked
<1>3. /\ ChoiceInv'
      /\ PeriodicNotBlocked'
      /\ \A p \in Pid : state'[p] = st[p] \/ (st[p] = "READY" /\ state'[p] = "RUNNING")
    BY <1>1, <1>2, DispatchTop DEF CallsInv, IInv
<1>4. \A s \in Range(msg_queue') :
            s \in Range(msg_queue) /\ s \in Pid /\ ~ MatchesIn(Messages, s, Cp, ANY)
    <2>1. msg_queue \in Seq(Pid) /\ DOMAIN msg_queue = 1 .. Len(msg_queue) /\ IsInjective(msg_queue)
        BY LenProperties DEF CallsInv, IInv, CallInv, QueuedSendersBlocked
    <2>2. Lists(msg_queue, Range(msg_queue))
        BY <2>1, SeqOfRange DEF Lists
    <2>3. msg_queue' = AtIndices(msg_queue, kept) /\ kept \in SUBSET (1 .. Len(msg_queue))
        BY <1>1 DEF Purged
    <2>. HIDE DEF kept
    <2>4. \A s \in Range(msg_queue') : \E i \in kept : s = msg_queue[i]
        BY <2>2, <2>3, AtIndicesLists
    <2>5. \A i \in kept : ~ MatchesIn(Messages, msg_queue[i], Cp, ANY)
        BY DEF kept
    <2>6. \A i \in 1 .. Len(msg_queue) : msg_queue[i] \in Pid
        BY <2>1, ElementOfSeq
    <2>. QED  BY <2>1, <2>3, <2>4, <2>5, <2>6 DEF Range
<1>5. NoMessageForDead'
    <2>1. SUFFICES ASSUME NEW s \in Range(msg_queue'), Messages[s].mask # {}
                   PROVE  Messages[s].receiver \in Pid /\ state'[Messages[s].receiver] # "DEAD"
        BY <1>1 DEF NoMessageForDead, Live
    <2>2. Messages[s].receiver \in Pid /\ state[Messages[s].receiver] # "DEAD"
        BY <1>4, <2>1 DEF CallsInv, PartnerInv, NoMessageForDead, Live
    <2>3. Messages[s].mask \subseteq MsgBits
        BY <1>4 DEF CallsInv, IInv, CallInv, Message
    <2>4. Messages[s].receiver # Cp
        BY <1>4, <2>1, <2>3 DEF MatchesIn, ANY
    <2>. QED  BY <1>1, <1>3, <2>2, <2>4
<1>6. NoMissedMessage'
    <2>1. \A p \in Pid : state'[p] = "RECV_BLOCK" => state[p] = "RECV_BLOCK" /\ p # Cp
        BY <1>1, <1>3
    <2>2. \A p \in Pid : p # Cp => req'[p] = req[p]
        BY <1>1, OthersPass DEF CallsInv
    <2>. QED  BY <1>1, <1>4, <2>1, <2>2 DEF CallsInv, PartnerInv, NoMissedMessage, MatchesIn
<1>7. \A p \in Pid : UnblockedBy(p)
    BY <1>1, <1>3, StaysBlocked DEF Blocked
<1>. QED  BY <1>3, <1>5, <1>6, <1>7 DEF StepCorrect, PartnerInv

\* A request that changes the state of the current task and of one other, which
\* was blocked and is READY, and no mailbox.
LEMMA ReleaseCorrect ==
    ASSUME CallsInv, Requesting, NEW st \in [Pid \union {Idle} -> ProcessState], NEW to \in Pid,
           to # Cp, state[to] \in Blocked, st[to] = "READY",
           st[Cp] = "READY" \/ (st[Cp] = "REPLY_BLOCK" /\ MayBlock),
           \A p \in Pid \union {Idle} : p \notin {Cp, to} => st[p] = state[p],
           Dispatch(st, pd, queue, sys_clock, clock_state),
           UNCHANGED <<pd, Tasks, msgVars, clockVars>>,
           \A p \in Pid : p \notin {Cp, to} => req'[p] = req[p]
    PROVE  /\ PartnerInv' /\ ChoiceInv'
           /\ \A p \in Pid : p # to => UnblockedBy(p)
           /\ \A p \in Pid : state'[p] = st[p] \/ (st[p] = "READY" /\ state'[p] = "RUNNING")
<1>1. Cp \in Pid /\ abort = "NONE" /\ state[Cp] \in {"RUNNING", "READY"}
    BY Caller DEF CallsInv
<1>2. \A p \in Pid : st[p] = "DEAD" <=> state[p] = "DEAD"
    BY <1>1 DEF Blocked
<1>3. Calm(st)
    BY <1>1 DEF Calm, CallsInv, IInv, SchedInv, OnlyCpRuns
<1>4. pd \in [Pid -> Descriptor]
    BY DEF CallsInv, IInv, SchedInv, Filed
<1>5. \A p \in Pid : st[p] \in Blocked => state[p] \in Blocked \/ (p = Cp /\ MayBlock)
    BY DEF Blocked
<1>6. /\ ChoiceInv'
      /\ PeriodicNotBlocked'
      /\ \A p \in Pid : state'[p] = st[p] \/ (st[p] = "READY" /\ state'[p] = "RUNNING")
    BY <1>1, <1>2, <1>3, <1>4, <1>5, HandlerTop DEF CallsInv
<1>7. NoMessageForDead' /\ NoMissedMessage'
    <2>1. \A p \in Pid : state'[p] = "RECV_BLOCK" => state[p] = "RECV_BLOCK" /\ p \notin {Cp, to}
        BY <1>6
    <2>2. \A p \in Pid : state'[p] = "DEAD" => state[p] = "DEAD"
        BY <1>2, <1>6
    <2>. QED  BY <2>1, <2>2, MessagesKept DEF CallsInv
<1>8. \A p \in Pid : p # to => UnblockedBy(p)
    BY <1>1, <1>6, StaysBlocked DEF Blocked
<1>. QED  BY <1>6, <1>7, <1>8 DEF PartnerInv

\* Msg_Send: a refusal, the receiver's release, or a message in the queue for a
\* task that lives and does not wait for it.
LEMMA MsgSendCorrect ==
    ASSUME CallsInv, NEW to \in Pid \union {BadId}, NEW mask \in Masks,
           Kernel_Request_MsgSend(to, mask)
    PROVE  StepCorrect
<1>. DEFINE info == [ZeroReq EXCEPT !.msg_mask = mask, !.msg_ptr_data = Cp]
<1>1. /\ Requesting /\ Cp \in Pid /\ abort = "NONE"
      /\ state[Cp] \in {"RUNNING", "READY"} /\ Cp \notin Range(msg_queue)
    BY Caller DEF Kernel_Request_MsgSend, CallsInv
<1>2. info \in RequestInfo
    BY <1>1, InfoTypes
<1>3. \A p \in Pid : Entered[p] = IF p = Cp THEN "READY" ELSE state[p]
    BY <1>1, EnteredFiled DEF CallsInv
<1>. HIDE DEF info
<1>4. CASE ~ MayBlock
    <2>1. Abort("PERIODIC_MSG") /\ "PERIODIC_MSG" \in AbortCode
        BY <1>4 DEF Kernel_Request_MsgSend, AbortCode
    <2>. QED  BY <2>1, AbortCorrect
<1>5. CASE MayBlock /\ NoSuchTask(to)
    <2>1. Passing(info) /\ ReturnToCaller
        BY <1>5 DEF Kernel_Request_MsgSend, info
    <2>. QED  BY <1>1, <2>1, OthersPass, ReturnCorrect DEF CallsInv
<1>6. CASE MayBlock /\ ~ NoSuchTask(to) /\ WaitsFor(to, mask)
    <2>. DEFINE st == [state EXCEPT ![to] = "READY", ![Cp] = "REPLY_BLOCK"]
    <2>1. /\ req' = [req EXCEPT ![Cp] = info, ![to].msg_ptr_data = Cp, ![to].out_pid = Cp]
          /\ Dispatch(st, pd, queue, sys_clock, clock_state)
          /\ UNCHANGED <<pd, Tasks, msgVars, clockVars>>
        BY <1>6 DEF Kernel_Request_MsgSend, info
    <2>2. to \in Pid /\ state[to] = "RECV_BLOCK" /\ to # Cp
        BY <1>1, <1>6 DEF NoSuchTask, WaitsFor
    <2>3. /\ \A p \in Pid : p \notin {Cp, to} => req'[p] = req[p]
          /\ req'[to].out_pid = Cp /\ req'[to].msg_ptr_data = Cp
        BY <1>1, <1>2, <2>1, <2>2 DEF CallsInv, IInv, CallInv, RequestInfo
    <2>4. /\ st \in [Pid \union {Idle} -> ProcessState]
          /\ st[to] = "READY" /\ st[Cp] = "REPLY_BLOCK"
          /\ \A p \in Pid \union {Idle} : p \notin {Cp, to} => st[p] = state[p]
        BY <1>1, <2>2 DEF CallsInv, IInv, SchedInv, Filed, ProcessState
    <2>. HIDE DEF st
    <2>5. /\ PartnerInv' /\ ChoiceInv'
          /\ \A p \in Pid : p # to => UnblockedBy(p)
          /\ \A p \in Pid : state'[p] = st[p] \/ (st[p] = "READY" /\ state'[p] = "RUNNING")
        BY <1>1, <1>6, <2>1, <2>2, <2>3, <2>4, ReleaseCorrect DEF Blocked
    <2>6. UnblockedBy(to)
        BY <1>1, <2>2, <2>3, <2>4, <2>5 DEF UnblockedBy
    <2>. QED  BY <2>5, <2>6 DEF StepCorrect
<1>7. CASE MayBlock /\ ~ NoSuchTask(to) /\ ~ WaitsFor(to, mask)
    <2>. DEFINE st == [state EXCEPT ![Cp] = "SEND_BLOCK"]
                msg == [data |-> Cp, mask |-> mask, receiver |-> to, sender |-> Cp]
    <2>1. /\ Passing(info)
          /\ Messages' = [Messages EXCEPT ![Cp] = msg]
          /\ msg_queue' = Append(msg_queue, Cp)
          /\ Dispatch(st, pd, queue, sys_clock, clock_state)
          /\ UNCHANGED <<pd, Tasks, clockVars>>
        BY <1>7 DEF Kernel_Request_MsgSend, info
    <2>2. to \in Pid /\ Entered[to] # "DEAD"
        BY <1>7 DEF NoSuchTask
    <2>3. /\ st \in [Pid \union {Idle} -> ProcessState]
          /\ \A p \in Pid \union {Idle} : st[p] = IF p = Cp THEN "SEND_BLOCK" ELSE state[p]
        BY <1>1 DEF CallsInv, IInv, SchedInv, Filed, ProcessState
    <2>. HIDE DEF st
    <2>4. /\ Calm(st) /\ pd \in [Pid -> Descriptor]
          /\ \A p \in Pid : st[p] = "DEAD" <=> state[p] = "DEAD"
        BY <1>1, <2>3 DEF Calm, CallsInv, IInv, SchedInv, OnlyCpRuns, Filed
    <2>5. \A p \in Pid : st[p] \in Blocked => state[p] \in Blocked \/ (p = Cp /\ MayBlock)
        BY <1>7, <2>3
    <2>6. /\ ChoiceInv'
          /\ PeriodicNotBlocked'
          /\ \A p \in Pid : state'[p] = st[p] \/ (st[p] = "READY" /\ state'[p] = "RUNNING")
        BY <1>1, <2>1, <2>3, <2>4, <2>5, HandlerTop DEF CallsInv
    <2>7. Range(msg_queue') = Range(msg_queue) \union {Cp} /\ Range(msg_queue) \in SUBSET Pid
        <3>1. Lists(msg_queue, Range(msg_queue)) /\ Range(msg_queue) \in SUBSET Pid
            BY <1>1, QueuedMessages, SeqOfRange, RangeOfSeq DEF Lists, CallsInv
        <3>2. Lists(msg_queue', Range(msg_queue) \union {Cp})
            BY <1>1, <2>1, <3>1, EnqueueLists DEF enqueue
        <3>. QED  BY <3>1, <3>2 DEF Lists
    <2>8. /\ Messages'[Cp].receiver = to /\ Messages'[Cp].mask = mask
          /\ \A s \in Range(msg_queue) : s # Cp /\ Messages'[s] = Messages[s]
        BY <1>1, <2>1, <2>7 DEF CallsInv, IInv, CallInv
    <2>9. NoMessageForDead'
        <3>1. \A p \in Pid : state[p] # "DEAD" => state'[p] # "DEAD"
            BY <2>4, <2>6
        <3>2. state[to] # "DEAD"
            BY <1>1, <1>3, <2>2
        <3>. QED  BY <2>2, <2>7, <2>8, <3>1, <3>2
                  DEF CallsInv, PartnerInv, NoMessageForDead, Live
    <2>10. NoMissedMessage'
        <3>1. \A p \in Pid : state'[p] = "RECV_BLOCK" =>
                    p # Cp /\ state[p] = "RECV_BLOCK" /\ req'[p] = req[p]
            BY <1>1, <2>1, <2>3, <2>6, OthersPass DEF CallsInv
        <3>2. state'[to] = "RECV_BLOCK" => req'[to].msg_mask \intersect mask = {}
            BY <1>7, <2>2, <3>1 DEF WaitsFor
        <3>3. ASSUME NEW p \in Pid, state'[p] = "RECV_BLOCK"
              PROVE  \A s \in Range(msg_queue') : ~ MatchesIn(Messages', s, p, req'[p].msg_mask)
            <4>1. ~ MatchesIn(Messages', Cp, p, req'[p].msg_mask)
                BY <2>8, <3>2, <3>3 DEF MatchesIn
            <4>2. \A s \in Range(msg_queue) : ~ MatchesIn(Messages', s, p, req'[p].msg_mask)
                BY <2>8, <3>1, <3>3 DEF MatchesIn, CallsInv, PartnerInv, NoMissedMessage
            <4>. QED  BY <2>7, <4>1, <4>2
        <3>. QED  BY <3>3 DEF NoMissedMessage, MatchesIn
    <2>11. \A p \in Pid : UnblockedBy(p)
        BY <1>1, <2>3, <2>6, StaysBlocked DEF Blocked
    <2>. QED  BY <2>6, <2>9, <2>10, <2>11 DEF StepCorrect, PartnerInv
<1>. QED  BY <1>4, <1>5, <1>6, <1>7

\* Msg_Recv: the first message for the caller, or the caller blocked because
\* there is none.
LEMMA MsgRecvCorrect ==
    ASSUME CallsInv, NEW mask \in Masks, Kernel_Request_MsgRecv(mask)
    PROVE  StepCorrect
<1>. DEFINE info == [ZeroReq EXCEPT !.msg_mask = mask]
<1>1. /\ Requesting /\ Cp \in Pid /\ abort = "NONE"
      /\ state[Cp] \in {"RUNNING", "READY"} /\ Cp \notin Range(msg_queue)
    BY Caller DEF Kernel_Request_MsgRecv, CallsInv
<1>2. info \in RequestInfo
    BY <1>1, InfoTypes
<1>3. pd \in [Pid -> Descriptor] /\ \A p \in Range(msg_queue) : p \in Pid
    BY <1>1, QueuedMessages DEF CallsInv, IInv, SchedInv, Filed
<1>4. CASE ~ MayBlock
    <2>1. Abort("PERIODIC_MSG") /\ "PERIODIC_MSG" \in AbortCode
        BY <1>4 DEF Kernel_Request_MsgRecv, AbortCode
    <2>. QED  BY <2>1, AbortCorrect
<1>5. CASE MayBlock /\ HasMessage(Cp, mask)
    <2>. DEFINE k == Found(Cp, mask)
                s == msg_queue[k]
                m == Messages[s]
                got == [info EXCEPT !.msg_ptr_data = m.data, !.out_pid = m.sender]
                st == [Entered EXCEPT ![m.sender] = "REPLY_BLOCK"]
    <2>1. /\ msg_queue' = Without(k)
          /\ Messages' = [Messages EXCEPT ![s] = Cleared(m)]
          /\ Passing(got)
          /\ Dispatch(st, pd, queue, sys_clock, clock_state)
          /\ UNCHANGED <<pd, Tasks, clockVars>>
        BY <1>5 DEF Kernel_Request_MsgRecv
    <2>2. k \in 1 .. Len(msg_queue) /\ m.receiver = Cp
        BY <1>5, FoundMatches DEF CallsInv, MatchesIn
    <2>3. s \in Range(msg_queue)
        BY <2>2, LenProperties DEF CallsInv, IInv, CallInv, Range
    <2>4. s \in Pid /\ s # Cp /\ state[s] = "SEND_BLOCK" /\ m.sender = s /\ m.data = s
        BY <1>1, <2>3, QueuedMessages DEF CallsInv
    <2>5. /\ Entered \in [Pid \union {Idle} -> ProcessState]
          /\ \A p \in Pid \union {Idle} : Entered[p] = IF p = Cp THEN "READY" ELSE state[p]
          /\ \A p \in Pid : Entered[p] = "DEAD" <=> state[p] = "DEAD"
          /\ Calm(Entered)
        BY <1>1, EnteredFiled DEF CallsInv
    <2>6. req'[Cp].out_pid = s /\ \A p \in Pid : p # Cp => req'[p] = req[p]
        <3>1. got.out_pid = s
            BY <1>2, <2>4 DEF RequestInfo
        <3>2. req'[Cp] = got
            BY <1>1, <2>1 DEF Passing, CallsInv, IInv, CallInv
        <3>. HIDE DEF got
        <3>. QED  BY <1>1, <2>1, <3>1, <3>2, OthersPass DEF CallsInv
    <2>7. \A p \in Pid : p # s => Messages'[p] = Messages[p]
        BY <2>1 DEF CallsInv, IInv, CallInv
    <2>8. Range(msg_queue') = Range(msg_queue) \ {s}
        <3>1. Lists(msg_queue, Range(msg_queue))
            BY <1>1, QueuedMessages, SeqOfRange DEF Lists, CallsInv
        <3>2. Lists(msg_queue', Range(msg_queue) \ {s})
            BY <2>1, <2>2, <3>1, RemoveAtLists DEF Without
        <3>. QED  BY <3>2 DEF Lists
    <2>9. /\ st \in [Pid \union {Idle} -> ProcessState]
          /\ \A p \in Pid \union {Idle} : st[p] = IF p = s THEN "REPLY_BLOCK" ELSE Entered[p]
        BY <2>4, <2>5 DEF ProcessState
    <2>. HIDE DEF st, got, s
    <2>10. /\ Calm(st)
           /\ \A p \in Pid : st[p] = "DEAD" <=> state[p] = "DEAD"
           /\ \A p \in Pid : st[p] \in Blocked => state[p] \in Blocked
        BY <2>4, <2>5, <2>9 DEF Calm, Blocked
    <2>11. /\ ChoiceInv'
           /\ PeriodicNotBlocked'
           /\ \A p \in Pid : state'[p] = st[p] \/ (st[p] = "READY" /\ state'[p] = "RUNNING")
        BY <1>1, <1>3, <2>1, <2>9, <2>10, HandlerTop DEF CallsInv
    <2>12. NoMessageForDead'
        <3>1. \A p \in Pid : state[p] # "DEAD" => state'[p] # "DEAD"
            BY <2>10, <2>11
        <3>2. \A p \in Range(msg_queue') : p \in Range(msg_queue) /\ Messages'[p] = Messages[p]
            BY <1>3, <2>7, <2>8
        <3>. QED  BY <3>1, <3>2 DEF CallsInv, PartnerInv, NoMessageForDead, Live
    <2>13. NoMissedMessage'
        <3>1. \A p \in Range(msg_queue') : p \in Range(msg_queue) /\ Messages'[p] = Messages[p]
            BY <1>3, <2>7, <2>8
        <3>2. \A p \in Pid : state'[p] = "RECV_BLOCK" =>
                    p # Cp /\ state[p] = "RECV_BLOCK" /\ req'[p] = req[p]
            BY <2>4, <2>5, <2>6, <2>9, <2>11
        <3>. QED  BY <3>1, <3>2 DEF CallsInv, PartnerInv, NoMissedMessage, MatchesIn
    <2>14. UnblockedBy(s)
        BY <2>2, <2>4, <2>6, <2>9, <2>11 DEF UnblockedBy, s
    <2>15. \A p \in Pid : p # s => UnblockedBy(p)
        BY <1>1, <2>5, <2>9, <2>11, StaysBlocked DEF Blocked
    <2>. QED  BY <2>11, <2>12, <2>13, <2>14, <2>15 DEF StepCorrect, PartnerInv
<1>6. CASE MayBlock /\ ~ HasMessage(Cp, mask)
    <2>. DEFINE st == [state EXCEPT ![Cp] = "RECV_BLOCK"]
    <2>1. /\ Passing(info)
          /\ Dispatch(st, pd, queue, sys_clock, clock_state)
          /\ UNCHANGED <<pd, Tasks, msgVars, clockVars>>
        BY <1>6 DEF Kernel_Request_MsgRecv
    <2>2. req'[Cp].msg_mask = mask /\ \A p \in Pid : p # Cp => req'[p] = req[p]
        <3>1. info.msg_mask = mask
            BY DEF ZeroReq
        <3>2. req'[Cp] = info
            BY <1>1, <2>1 DEF Passing, CallsInv, IInv, CallInv
        <3>. HIDE DEF info
        <3>. QED  BY <1>1, <2>1, <3>1, <3>2, OthersPass DEF CallsInv
    <2>. HIDE DEF info
    <2>3. /\ st \in [Pid \union {Idle} -> ProcessState]
          /\ \A p \in Pid \union {Idle} : st[p] = IF p = Cp THEN "RECV_BLOCK" ELSE state[p]
        BY <1>1 DEF CallsInv, IInv, SchedInv, Filed, ProcessState
    <2>. HIDE DEF st
    <2>4. /\ Calm(st)
          /\ \A p \in Pid : st[p] = "DEAD" <=> state[p] = "DEAD"
          /\ \A p \in Pid : st[p] \in Blocked => state[p] \in Blocked \/ (p = Cp /\ MayBlock)
        BY <1>1, <1>6, <2>3 DEF Calm, CallsInv, IInv, SchedInv, OnlyCpRuns
    <2>5. /\ ChoiceInv'
          /\ PeriodicNotBlocked'
          /\ \A p \in Pid : state'[p] = st[p] \/ (st[p] = "READY" /\ state'[p] = "RUNNING")
        BY <1>1, <1>3, <2>1, <2>3, <2>4, HandlerTop DEF CallsInv
    <2>6. NoMessageForDead'
        BY <2>1, <2>4, <2>5 DEF CallsInv, PartnerInv, NoMessageForDead, Live, msgVars
    <2>7. \A s \in Range(msg_queue) : ~ MatchesIn(Messages, s, Cp, mask)
        BY <1>6, LenProperties DEF HasMessage, Range, CallsInv, IInv, CallInv
    <2>8. NoMissedMessage'
        <3>1. \A p \in Pid : p # Cp => (state'[p] = "RECV_BLOCK" => state[p] = "RECV_BLOCK")
            BY <2>3, <2>5
        <3>. QED  BY <2>1, <2>2, <2>7, <3>1
                  DEF CallsInv, PartnerInv, NoMissedMessage, MatchesIn, msgVars
    <2>9. \A p \in Pid : UnblockedBy(p)
        BY <1>1, <2>3, <2>5, StaysBlocked DEF Blocked
    <2>. QED  BY <2>5, <2>6, <2>8, <2>9 DEF StepCorrect, PartnerInv
<1>. QED  BY <1>4, <1>5, <1>6

\* Msg_Rply: a refusal, the sender's release, or nothing but a dispatch.
LEMMA MsgRplyCorrect ==
    ASSUME CallsInv, NEW to \in Pid \union {BadId}, NEW data \in Data,
           Kernel_Request_MsgRply(to, data)
    PROVE  StepCorrect
<1>. DEFINE info == [ZeroReq EXCEPT !.msg_data = data]
<1>1. Requesting /\ Cp \in Pid /\ abort = "NONE" /\ state[Cp] \in {"RUNNING", "READY"}
    BY Caller DEF Kernel_Request_MsgRply, CallsInv
<1>2. info \in RequestInfo /\ info.msg_data = data
    BY <1>1, InfoTypes DEF ZeroReq
<1>. HIDE DEF info
<1>3. /\ Entered \in [Pid \union {Idle} -> ProcessState]
      /\ \A p \in Pid \union {Idle} : Entered[p] = IF p = Cp THEN "READY" ELSE state[p]
    BY <1>1, EnteredFiled DEF CallsInv
<1>4. CASE ~ MayBlock
    <2>1. Abort("PERIODIC_MSG") /\ "PERIODIC_MSG" \in AbortCode
        BY <1>4 DEF Kernel_Request_MsgRply, AbortCode
    <2>. QED  BY <2>1, AbortCorrect
<1>5. CASE MayBlock /\ NoSuchTask(to)
    <2>1. Passing(info) /\ ReturnToCaller
        BY <1>5 DEF Kernel_Request_MsgRply, info
    <2>. QED  BY <1>1, <2>1, OthersPass, ReturnCorrect DEF CallsInv
<1>6. CASE MayBlock /\ ~ NoSuchTask(to) /\ AwaitsReply(to)
    <2>. DEFINE st == [Entered EXCEPT ![to] = "READY"]
    <2>1. /\ req' = [req EXCEPT ![Cp] = info, ![to].msg_data = data]
          /\ Dispatch(st, pd, queue, sys_clock, clock_state)
          /\ UNCHANGED <<pd, Tasks, msgVars, clockVars>>
        BY <1>6 DEF Kernel_Request_MsgRply, info
    <2>2. to \in Pid /\ state[to] = "REPLY_BLOCK" /\ to # Cp
        BY <1>1, <1>3, <1>6 DEF NoSuchTask, AwaitsReply
    <2>3. /\ \A p \in Pid : p \notin {Cp, to} => req'[p] = req[p]
          /\ req'[to].msg_data = data /\ req'[Cp].msg_data = data
        BY <1>1, <1>2, <2>1, <2>2 DEF CallsInv, IInv, CallInv, RequestInfo
    <2>4. /\ st \in [Pid \union {Idle} -> ProcessState]
          /\ st[to] = "READY" /\ st[Cp] = "READY"
          /\ \A p \in Pid \union {Idle} : p \notin {Cp, to} => st[p] = state[p]
        BY <1>1, <1>3, <2>2 DEF ProcessState
    <2>. HIDE DEF st
    <2>5. /\ PartnerInv' /\ ChoiceInv'
          /\ \A p \in Pid : p # to => UnblockedBy(p)
        BY <1>1, <2>1, <2>2, <2>3, <2>4, ReleaseCorrect DEF Blocked
    <2>6. UnblockedBy(to)
        BY <2>1, <2>2, <2>3 DEF UnblockedBy
    <2>. QED  BY <2>5, <2>6 DEF StepCorrect
<1>7. CASE MayBlock /\ ~ NoSuchTask(to) /\ ~ AwaitsReply(to)
    <2>1. /\ Passing(info)
          /\ Dispatch(Entered, pd, queue, sys_clock, clock_state)
          /\ UNCHANGED <<pd, Tasks, msgVars, clockVars>>
        BY <1>7 DEF Kernel_Request_MsgRply, info
    <2>2. pd \in [Pid -> Descriptor] /\ \A p \in Pid : p # Cp => req'[p] = req[p]
        BY <1>1, <2>1, OthersPass DEF CallsInv, IInv, SchedInv, Filed
    <2>. QED  BY <1>1, <2>1, <2>2, YieldCorrect
<1>. QED  BY <1>4, <1>5, <1>6, <1>7

\* Msg_ASend: an abort, a message that is lost, or the receiver's release.
LEMMA MsgASendCorrect ==
    ASSUME CallsInv, NEW to \in Pid \union {BadId}, NEW mask \in Masks, NEW data \in Data,
           Kernel_Request_MsgASend(to, mask, data)
    PROVE  StepCorrect
<1>. DEFINE info == [ZeroReq EXCEPT !.msg_mask = mask, !.msg_data = data]
<1>1. Requesting /\ Cp \in Pid /\ abort = "NONE" /\ state[Cp] \in {"RUNNING", "READY"}
    BY Caller DEF Kernel_Request_MsgASend, CallsInv
<1>2. info \in RequestInfo
    BY <1>1, InfoTypes
<1>. HIDE DEF info
<1>3. /\ Entered \in [Pid \union {Idle} -> ProcessState]
      /\ \A p \in Pid \union {Idle} : Entered[p] = IF p = Cp THEN "READY" ELSE state[p]
    BY <1>1, EnteredFiled DEF CallsInv
<1>4. CASE to = BadId
    <2>1. Abort("INVALID_REQ_INFO") /\ "INVALID_REQ_INFO" \in AbortCode
        BY <1>4 DEF Kernel_Request_MsgASend, AbortCode
    <2>. QED  BY <2>1, AbortCorrect
<1>5. CASE to # BadId /\ ~ WaitsFor(to, mask)
    <2>1. Passing(info) /\ ReturnToCaller
        BY <1>5 DEF Kernel_Request_MsgASend, info
    <2>. QED  BY <1>1, <2>1, OthersPass, ReturnCorrect DEF CallsInv
<1>6. CASE to # BadId /\ WaitsFor(to, mask)
    <2>. DEFINE st == [Entered EXCEPT ![to] = "READY"]
    <2>1. /\ req' = [req EXCEPT ![Cp] = info, ![to].msg_data = data,
                                ![to].msg_ptr_data = NULL, ![to].out_pid = Cp]
          /\ Dispatch(st, pd, queue, sys_clock, clock_state)
          /\ UNCHANGED <<pd, Tasks, msgVars, clockVars>>
        BY <1>6 DEF Kernel_Request_MsgASend, info
    <2>2. to \in Pid /\ state[to] = "RECV_BLOCK" /\ to # Cp
        BY <1>1, <1>6 DEF WaitsFor
    <2>3. /\ \A p \in Pid : p \notin {Cp, to} => req'[p] = req[p]
          /\ req'[to].out_pid = Cp /\ req'[to].msg_ptr_data = NULL
        BY <1>1, <1>2, <2>1, <2>2 DEF CallsInv, IInv, CallInv, RequestInfo
    <2>4. /\ st \in [Pid \union {Idle} -> ProcessState]
          /\ st[to] = "READY" /\ st[Cp] = "READY"
          /\ \A p \in Pid \union {Idle} : p \notin {Cp, to} => st[p] = state[p]
        BY <1>1, <1>3, <2>2 DEF ProcessState
    <2>. HIDE DEF st
    <2>5. /\ PartnerInv' /\ ChoiceInv'
          /\ \A p \in Pid : p # to => UnblockedBy(p)
          /\ \A p \in Pid : state'[p] = st[p] \/ (st[p] = "READY" /\ state'[p] = "RUNNING")
        BY <1>1, <2>1, <2>2, <2>3, <2>4, ReleaseCorrect DEF Blocked
    <2>6. UnblockedBy(to)
        BY <1>1, <2>2, <2>3, <2>4, <2>5 DEF UnblockedBy
    <2>. QED  BY <2>5, <2>6 DEF StepCorrect
<1>. QED  BY <1>4, <1>5, <1>6

-----------------------------------------------------------------------------
(* The theorems.                                                            *)

\* Every step keeps the invariants and unblocks by a partner only.
LEMMA CallsStep == ASSUME CallsInv, [Next]_vars PROVE StepCorrect
<1>1. CASE Kernel_Start
    BY <1>1, StartCorrect
<1>2. ASSUME NEW r \in CreateRequests, Kernel_Request_Create(r) PROVE StepCorrect
    BY <1>2, CreateCorrect
<1>3. CASE Kernel_Request_Next
    BY <1>3, NextCorrect
<1>4. CASE Kernel_Request_Terminate
    BY <1>4, TerminateCorrect
<1>5. CASE Kernel_Request_Abort
    <2>1. Abort("USER") /\ "USER" \in AbortCode
        BY <1>5 DEF Kernel_Request_Abort, AbortCode
    <2>. QED  BY <2>1, AbortCorrect
<1>6. CASE Kernel_Request_GetPid
    <2>1. Requesting /\ Returning(Cp) /\ ReturnToCaller /\ Cp \in Pid
        BY <1>6 DEF Kernel_Request_GetPid, Requesting
    <2>. QED  BY <2>1, OthersPass, ReturnCorrect DEF CallsInv
<1>7. ASSUME NEW to \in Pid \union {BadId}, NEW mask \in Masks, Kernel_Request_MsgSend(to, mask)
      PROVE  StepCorrect
    BY <1>7, MsgSendCorrect
<1>8. ASSUME NEW mask \in Masks, Kernel_Request_MsgRecv(mask) PROVE StepCorrect
    BY <1>8, MsgRecvCorrect
<1>9. ASSUME NEW to \in Pid \union {BadId}, NEW data \in Data, Kernel_Request_MsgRply(to, data)
      PROVE  StepCorrect
    BY <1>9, MsgRplyCorrect
<1>10. ASSUME NEW to \in Pid \union {BadId}, NEW mask \in Masks, NEW data \in Data,
              Kernel_Request_MsgASend(to, mask, data)
       PROVE  StepCorrect
    BY <1>10, MsgASendCorrect
<1>11. CASE Kernel_Request_Timer
    BY <1>11, TimerCorrect
<1>12. CASE UNCHANGED vars
    <2>1. PartnerInv'
        BY <1>12 DEF vars, taskVars, msgVars, CallsInv, PartnerInv, PeriodicNotBlocked,
           NoMessageForDead, NoMissedMessage, MatchesIn, Live
    <2>2. ChoiceInv'
        BY <1>12 DEF vars, taskVars, CallsInv, ChoiceInv, SystemPreempts,
           IdleOnlyWhenNothingReady, RunsAt, Live
    <2>3. \A p \in Pid : UnblockedBy(p)
        BY <1>12, StaysBlocked DEF vars
    <2>. QED  BY <2>1, <2>2, <2>3 DEF StepCorrect
<1>. QED
    BY <1>1, <1>2, <1>3, <1>4, <1>5, <1>6, <1>7, <1>8, <1>9, <1>10, <1>11, <1>12
       DEF Next, Request, Halted

\* Before the boot is over no message is queued and no task has the processor.
LEMMA InitCalls == Init => CallsInv
<1>. SUFFICES ASSUME Init PROVE CallsInv
    OBVIOUS
<1>1. Range(msg_queue) = {}
    BY DEF Init, Range
<1>2. PartnerInv
    BY <1>1 DEF Init, PartnerInv, PeriodicNotBlocked, NoMessageForDead, NoMissedMessage, Live, ZeroPd
<1>3. ChoiceInv
    BY PidFacts DEF Init, ChoiceInv, SystemPreempts, IdleOnlyWhenNothingReady, RunsAt
<1>. QED  BY <1>2, <1>3, InitIInv DEF CallsInv

\* The invariants of the calls hold in every state of every behavior of the
\* kernel.
THEOREM CallsInvariant == Spec => []CallsInv
<1>1. Init => CallsInv
    BY InitCalls
<1>2. CallsInv /\ [Next]_vars => CallsInv'
    BY CallsStep, StepKeeps DEF CallsInv, StepCorrect
<1>. QED  BY <1>1, <1>2, PTL DEF Spec

\* No PERIODIC task is ever blocked, so Dispatch may take the front of their
\* queue without looking behind it.
THEOREM PeriodicNeverBlocks == Spec => []PeriodicNotBlocked
<1>1. CallsInv => PeriodicNotBlocked
    BY DEF CallsInv, PartnerInv
<1>. QED  BY <1>1, CallsInvariant, PTL

\* A message in the queue that can be received is for a live task: a new task
\* in a reused descriptor finds no message of its predecessor.
THEOREM MessagesForTheLiving == Spec => []NoMessageForDead
<1>1. CallsInv => NoMessageForDead
    BY DEF CallsInv, PartnerInv
<1>. QED  BY <1>1, CallsInvariant, PTL

\* No task stays blocked in Msg_Recv while there is a message it would take.
THEOREM NoLostWakeup == Spec => []NoMissedMessage
<1>1. CallsInv => NoMissedMessage
    BY DEF CallsInv, PartnerInv
<1>. QED  BY <1>1, CallsInvariant, PTL

\* A READY SYSTEM task never waits for a task of a lower level.
THEOREM SystemFirst == Spec => []SystemPreempts
<1>1. CallsInv => SystemPreempts
    BY DEF CallsInv, ChoiceInv
<1>. QED  BY <1>1, CallsInvariant, PTL

\* The idle process has the processor only when no SYSTEM or RR task is READY.
THEOREM IdleLast == Spec => []IdleOnlyWhenNothingReady
<1>1. CallsInv => IdleOnlyWhenNothingReady
    BY DEF CallsInv, ChoiceInv
<1>. QED  BY <1>1, CallsInvariant, PTL

\* A blocked task is unblocked by the call it waits for and by no other step.
THEOREM PartnersUnblock == Spec => UnblockedByPartner
<1>1. CallsInv /\ [Next]_vars => [\A p \in Pid : UnblockedBy(p)]_vars
    BY CallsStep DEF StepCorrect
<1>. QED  BY <1>1, CallsInvariant, PTL DEF Spec, UnblockedByPartner

=============================================================================
