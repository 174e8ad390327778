------------------------- MODULE KernelListProofs -------------------------
(***************************************************************************)
(* The linked lists of the kernel are the sequences the kernel takes them  *)
(* for, for every number of tasks and messages.                            *)
(*                                                                         *)
(* The inductive invariant ListInv names the sequence q behind each list:  *)
(* its head, tail and length and the next fields of the elements are those *)
(* of q (Stands), no element is in two lists, and none of the elements     *)
(* outside points to anything.  Walk, StopsAt and Followed of LinkedList   *)
(* then have the values one expects of q: the recursive function Walk is   *)
(* the only one that satisfies its equation, as no number is the least for *)
(* which another would differ.                                             *)
(***************************************************************************)
EXTENDS KernelLists, SequencesExt, SequenceTheorems, FiniteSetTheorems,
        WellFoundedInduction, TLAPS

Distinct(q) == \A i, j \in 1 .. Len(q) : q[i] = q[j] => i = j

\* The list has the elements of q, in their order.
Stands(list, nx, q) ==
    /\ Distinct(q)
    /\ list = [head |-> IF Len(q) = 0 THEN NULL ELSE q[1],
               tail |-> IF Len(q) = 0 THEN NULL ELSE q[Len(q)],
               length |-> Len(q)]
    /\ \A i \in 1 .. Len(q) : nx[q[i]] = IF i = Len(q) THEN NULL ELSE q[i + 1]

\* What nx and q are made of.
Over(E, nx, q) ==
    /\ IsFiniteSet(E) /\ NULL \notin E
    /\ nx \in [E -> E \union {NULL}]
    /\ q \in Seq(E)

-----------------------------------------------------------------------------
(* Least elements, in place of induction along a list.                      *)

LEMMA LeastNat ==
    ASSUME NEW T \in SUBSET Nat, T # {}
    PROVE  \E i \in T : \A j \in T : i <= j
<1>1. PICK i \in T : \A j \in T : <<j, i>> \notin OpToRel(<, Nat)
    BY NatLessThanWellFounded, WFMin, Zenon
<1>2. \A j \in T : ~ (j < i)
    BY <1>1, Zenon DEF OpToRel
<1>. QED  BY <1>2

\* A list has no more elements than there are.
LEMMA LengthFits ==
    ASSUME NEW E, IsFiniteSet(E), NEW q \in Seq(E), Distinct(q)
    PROVE  Len(q) \in Nat /\ Cardinality(E) \in Nat /\ Len(q) <= Cardinality(E)
<1>1. Len(q) \in Nat /\ q \in [1 .. Len(q) -> E] /\ DOMAIN q = 1 .. Len(q)
    BY LenProperties
<1>2. q \in Injection(1 .. Len(q), E)
    BY <1>1 DEF Injection, IsInjective, Distinct
<1>3. Cardinality(1 .. Len(q)) = Len(q)
    BY <1>1, FS_Interval
<1>4. Cardinality(1 .. Len(q)) <= Cardinality(E)
    BY <1>2, FS_Injection
<1>. QED  BY <1>1, <1>3, <1>4, FS_CardinalityType

-----------------------------------------------------------------------------
(* Walking along a list.                                                    *)

LEMMA WalkIs ==
    ASSUME NEW E, NEW nx, NEW q, NEW list, Over(E, nx, q), Stands(list, nx, q)
    PROVE  Walk(list, nx) = [i \in 0 .. Cardinality(E) |->
                                IF i < Len(q) THEN q[i + 1] ELSE NULL]
<1>. DEFINE n == Len(q)
            N == Cardinality(E)
            W == [i \in 0 .. N |-> IF i < n THEN q[i + 1] ELSE NULL]
            F(g) == [i \in 0 .. N |-> IF i = 0 THEN list.head ELSE After(nx, g[i - 1])]
<1>1. /\ n \in Nat /\ N \in Nat /\ n <= N
      /\ \A i \in 1 .. n : q[i] \in E
      /\ NULL \notin E
    BY LengthFits, LenProperties DEF Over, Stands
<1>2. /\ list.head = IF n = 0 THEN NULL ELSE q[1]
      /\ \A i \in 1 .. n : nx[q[i]] = IF i = n THEN NULL ELSE q[i + 1]
    BY DEF Stands
<1>. HIDE DEF n, N
<1>3. \A i \in 0 .. N : W[i] = IF i = 0 THEN list.head ELSE After(nx, W[i - 1])
    <2>. SUFFICES ASSUME NEW i \in 0 .. N
                  PROVE  W[i] = IF i = 0 THEN list.head ELSE After(nx, W[i - 1])
        OBVIOUS
    <2>1. CASE i = 0
        BY <1>1, <1>2, <2>1
    <2>2. CASE i # 0 /\ i - 1 < n
        <3>1. i \in 1 .. n /\ i - 1 \in 0 .. N /\ (i - 1) + 1 = i /\ i \in Nat
            BY <1>1, <2>2
        <3>2. W[i - 1] = q[i] /\ q[i] # NULL
            BY <1>1, <2>2, <3>1
        <3>3. W[i] = nx[q[i]]
            BY <1>1, <1>2, <3>1
        <3>. QED  BY <2>2, <3>2, <3>3 DEF After
    <2>3. CASE i # 0 /\ ~ (i - 1 < n)
        <3>1. i - 1 \in 0 .. N /\ ~ (i < n)
            BY <1>1, <2>3
        <3>2. W[i - 1] = NULL /\ W[i] = NULL
            BY <2>3, <3>1
        <3>. QED  BY <2>3, <3>2 DEF After
    <2>. QED  BY <2>1, <2>2, <2>3
<1>4. W = F(W)
    BY <1>3
<1>5. ASSUME NEW g, g = F(g) PROVE g = W
    <2>1. DOMAIN g = 0 .. N /\ DOMAIN W = 0 .. N /\ g = [i \in 0 .. N |-> g[i]]
        BY <1>5
    <2>2. \A i \in 0 .. N : g[i] = IF i = 0 THEN list.head ELSE After(nx, g[i - 1])
        BY <1>5
    <2>3. ASSUME NEW b \in 0 .. N, g[b] # W[b] PROVE FALSE
        <3>. DEFINE Bad == {i \in 0 .. N : g[i] # W[i]}
        <3>1. Bad \in SUBSET Nat /\ Bad # {}
            BY <1>1, <2>3
        <3>2. PICK i \in Bad : \A j \in Bad : i <= j
            <4>. HIDE DEF Bad
            <4>. QED  BY <3>1, LeastNat
        <3>. HIDE DEF W
        <3>3. i \in 0 .. N /\ i \in Nat /\ g[i] # W[i]
            BY <1>1, <3>2
        <3>4. CASE i = 0
            BY <1>3, <2>2, <3>3, <3>4
        <3>5. CASE i # 0
            <4>1. i - 1 \in 0 .. N /\ ~ (i <= i - 1)
                BY <1>1, <3>3, <3>5
            <4>2. g[i - 1] = W[i - 1]
                BY <3>2, <4>1
            <4>. QED  BY <1>3, <2>2, <3>3, <3>5, <4>2
        <3>. QED  BY <3>4, <3>5
    <2>4. \A i \in 0 .. N : g[i] = W[i]
        BY <2>3
    <2>5. W = [i \in 0 .. N |-> W[i]]
        OBVIOUS
    <2>. HIDE DEF W
    <2>. QED  BY <2>1, <2>4, <2>5, Zenon
<1>6. Walk(list, nx) = CHOOSE g : g = F(g)
    <2>1. DOMAIN nx = E
        BY DEF Over
    <2>. QED  BY <2>1 DEF Walk, N
<1>. HIDE DEF W, F
<1>7. Walk(list, nx) = W
    BY <1>4, <1>5, <1>6
<1>. QED  BY <1>7 DEF W, N, n

\* A walk that goes past the elements of passed stops at place k of q, which is
\* one past the end if all of them are passed.
First(q, passed, k) ==
    /\ k \in 1 .. Len(q) + 1
    /\ k <= Len(q) => q[k] \notin passed
    /\ \A j \in 1 .. k - 1 : q[j] \in passed

LEMMA FirstExists ==
    ASSUME NEW E, NEW q \in Seq(E), NEW passed
    PROVE  \E k : First(q, passed, k)
<1>. DEFINE T == {i \in 1 .. Len(q) + 1 : i <= Len(q) => q[i] \notin passed}
<1>1. Len(q) \in Nat
    BY LenProperties
<1>2. T \in SUBSET Nat /\ Len(q) + 1 \in T
    BY <1>1
<1>3. PICK k \in T : \A j \in T : k <= j
    <2>. HIDE DEF T
    <2>. QED  BY <1>2, LeastNat
<1>4. ASSUME NEW j \in 1 .. k - 1 PROVE q[j] \in passed
    <2>1. j \in 1 .. Len(q) + 1 /\ ~ (k <= j)
        BY <1>1, <1>3
    <2>2. j \notin T
        BY <1>3, <2>1
    <2>. QED  BY <2>1, <2>2
<1>. QED  BY <1>3, <1>4 DEF First

LEMMA PlaceIs ==
    ASSUME NEW E, NEW q \in Seq(E), NEW passed, NEW k, First(q, passed, k)
    PROVE  Queues!Place(q, passed) = k
<1>1. Len(q) \in Nat
    BY LenProperties
<1>2. \A i \in 1 .. Len(q) + 1 :
            (/\ i <= Len(q) => q[i] \notin passed
             /\ \A j \in 1 .. i - 1 : q[j] \in passed) <=> i = k
    <2>. SUFFICES ASSUME NEW i \in 1 .. Len(q) + 1,
                         i <= Len(q) => q[i] \notin passed,
                         \A j \in 1 .. i - 1 : q[j] \in passed
                  PROVE  i = k
        BY DEF First
    <2>1. CASE i < k
        BY <1>1, <2>1 DEF First
    <2>2. CASE k < i
        BY <1>1, <2>2 DEF First
    <2>. QED  BY <1>1, <2>1, <2>2 DEF First
<1>. QED  BY <1>2 DEF Queues!Place, First

LEMMA StopIs ==
    ASSUME NEW E, NEW nx, NEW q, NEW list, Over(E, nx, q), Stands(list, nx, q),
           NEW passed \in SUBSET E, NEW k, First(q, passed, k)
    PROVE  /\ StopsAt(list, nx, passed) = k - 1
           /\ Stop(list, nx, passed) = IF k = Len(q) + 1 THEN NULL ELSE q[k]
           /\ BeforeStop(list, nx, passed) = IF k = 1 THEN NULL ELSE q[k - 1]
<1>. DEFINE n == Len(q)
            N == Cardinality(E)
            node == Walk(list, nx)
<1>1. /\ n \in Nat /\ N \in Nat /\ n <= N /\ NULL \notin passed
      /\ k \in 1 .. n + 1
    BY LengthFits DEF Over, Stands, First
<1>2. /\ node = [i \in 0 .. N |-> IF i < n THEN q[i + 1] ELSE NULL]
    BY WalkIs
<1>. HIDE DEF n, N, node
<1>3. DOMAIN node = 0 .. N /\ \A i \in 0 .. N : node[i] = IF i < n THEN q[i + 1] ELSE NULL
    BY <1>2
<1>4. \A i \in 0 .. N :
            (node[i] \notin passed /\ \A j \in 0 .. i - 1 : node[j] \in passed) <=> i = k - 1
    <2>1. /\ k <= n => q[k] \notin passed
          /\ \A j \in 1 .. k - 1 : q[j] \in passed
        BY DEF First, n
    <2>2. /\ k - 1 \in 0 .. N /\ node[k - 1] \notin passed
          /\ \A j \in 0 .. k - 2 : node[j] \in passed
        <3>1. k - 1 \in 0 .. N /\ (k - 1) + 1 = k /\ (k - 1 < n <=> k <= n)
            BY <1>1
        <3>2. node[k - 1] \notin passed
            BY <1>1, <1>3, <2>1, <3>1
        <3>3. ASSUME NEW j \in 0 .. k - 2 PROVE node[j] \in passed
            <4>1. j \in 0 .. N /\ j < n /\ j + 1 \in 1 .. k - 1
                BY <1>1
            <4>. QED  BY <1>3, <2>1, <4>1
        <3>. QED  BY <3>1, <3>2, <3>3
    <2>3. ASSUME NEW i \in 0 .. N, node[i] \notin passed, \A j \in 0 .. i - 1 : node[j] \in passed
          PROVE  i = k - 1
        <3>1. CASE i < k - 1
            BY <1>1, <2>2, <2>3, <3>1
        <3>2. CASE k - 1 < i
            BY <1>1, <2>2, <2>3, <3>2
        <3>. QED  BY <1>1, <3>1, <3>2
    <2>4. \A j : j \in 0 .. (k - 1) - 1 <=> j \in 0 .. k - 2
        BY <1>1
    <2>. QED  BY <2>2, <2>3, <2>4
<1>5. StopsAt(list, nx, passed) = k - 1
    <2>1. StopsAt(list, nx, passed)
            = CHOOSE i \in 0 .. N : node[i] \notin passed /\ \A j \in 0 .. i - 1 : node[j] \in passed
        BY <1>3 DEF StopsAt, node
    <2>2. k - 1 \in 0 .. N
        BY <1>1
    <2>. QED  BY <1>4, <2>1, <2>2
<1>6. Stop(list, nx, passed) = IF k = n + 1 THEN NULL ELSE q[k]
    <2>1. Stop(list, nx, passed) = node[k - 1]
        BY <1>5 DEF Stop, node
    <2>2. k - 1 \in 0 .. N /\ (k - 1) + 1 = k /\ (k - 1 < n <=> k # n + 1)
        BY <1>1
    <2>. QED  BY <1>3, <2>1, <2>2
<1>7. BeforeStop(list, nx, passed) = IF k = 1 THEN NULL ELSE q[k - 1]
    <2>1. BeforeStop(list, nx, passed) = IF k - 1 = 0 THEN NULL ELSE node[(k - 1) - 1]
        BY <1>5 DEF BeforeStop, node
    <2>2. CASE k = 1
        BY <2>1, <2>2
    <2>3. CASE k # 1
        <3>1. /\ k - 1 # 0 /\ (k - 1) - 1 \in 0 .. N /\ ((k - 1) - 1) + 1 = k - 1
              /\ (k - 1) - 1 < n
            BY <1>1, <2>3
        <3>. QED  BY <1>3, <2>1, <2>3, <3>1
    <2>. QED  BY <2>2, <2>3
<1>. QED  BY <1>5, <1>6, <1>7 DEF n

LEMMA FollowedIs ==
    ASSUME NEW E, NEW nx, NEW q, NEW list, Over(E, nx, q), Stands(list, nx, q)
    PROVE  Followed(list, nx) = q
<1>. DEFINE n == Len(q)
            N == Cardinality(E)
            node == Walk(list, nx)
<1>1. /\ n \in Nat /\ N \in Nat /\ n <= N /\ q \in [1 .. n -> E]
      /\ \A i \in 1 .. n : q[i] \in E
      /\ DOMAIN nx = E
    BY LengthFits, LenProperties DEF Over, Stands
<1>2. node = [i \in 0 .. N |-> IF i < n THEN q[i + 1] ELSE NULL]
    BY WalkIs
<1>3. First(q, E, n + 1)
    BY <1>1 DEF First
<1>4. StopsAt(list, nx, E) = n
    <2>1. StopsAt(list, nx, E) = (n + 1) - 1
        BY <1>3, StopIs
    <2>. QED  BY <1>1, <2>1
<1>5. Followed(list, nx) = [i \in 1 .. n |-> node[i - 1]]
    BY <1>1, <1>4 DEF Followed
<1>. HIDE DEF n, N, node
<1>6. ASSUME NEW i \in 1 .. n PROVE node[i - 1] = q[i]
    <2>1. i - 1 \in 0 .. N /\ i - 1 < n /\ (i - 1) + 1 = i
        BY <1>1
    <2>. QED  BY <1>2, <2>1
<1>7. q = [i \in 1 .. n |-> q[i]]
    BY <1>1
<1>. QED  BY <1>5, <1>6, <1>7

LEMMA WellFormedIs ==
    ASSUME NEW E, NEW nx, NEW q, NEW list, Over(E, nx, q), Stands(list, nx, q)
    PROVE  WellFormed(list, nx)
<1>. DEFINE n == Len(q)
            N == Cardinality(E)
            node == Walk(list, nx)
<1>1. /\ n \in Nat /\ N \in Nat /\ n <= N
      /\ \A i \in 1 .. n : q[i] \in E
      /\ NULL \notin E
    BY LengthFits, LenProperties DEF Over, Stands
<1>2. node = [i \in 0 .. N |-> IF i < n THEN q[i + 1] ELSE NULL]
    BY WalkIs
<1>3. /\ list.length = n
      /\ list.tail = IF n = 0 THEN NULL ELSE q[n]
      /\ \A i, j \in 1 .. n : q[i] = q[j] => i = j
    BY DEF Stands, Distinct
<1>. HIDE DEF n, N, node
<1>4. /\ \A i \in 0 .. n - 1 : node[i] = q[i + 1] /\ i + 1 \in 1 .. n
      /\ node[n] = NULL
    BY <1>1, <1>2
<1>5. ASSUME NEW i \in 0 .. n - 1
      PROVE  node[i] # NULL /\ \A j \in 0 .. i - 1 : node[j] # node[i]
    <2>1. node[i] = q[i + 1] /\ i + 1 \in 1 .. n
        BY <1>4
    <2>2. ASSUME NEW j \in 0 .. i - 1 PROVE node[j] # node[i]
        <3>1. j \in 0 .. n - 1 /\ j + 1 # i + 1
            BY <1>1
        <3>2. node[j] = q[j + 1] /\ j + 1 \in 1 .. n
            BY <1>4, <3>1
        <3>. QED  BY <1>3, <2>1, <3>1, <3>2
    <2>. QED  BY <1>1, <2>1, <2>2
<1>6. list.tail = IF n = 0 THEN NULL ELSE node[n - 1]
    <2>1. CASE n = 0
        BY <1>3, <2>1
    <2>2. CASE n # 0
        <3>1. n - 1 \in 0 .. n - 1 /\ (n - 1) + 1 = n
            BY <1>1, <2>2
        <3>. QED  BY <1>3, <1>4, <2>2, <3>1
    <2>. QED  BY <2>1, <2>2
<1>. QED  BY <1>3, <1>4, <1>5, <1>6 DEF WellFormed, node

-----------------------------------------------------------------------------
(* Sequences with an element more or less.                                  *)

LEMMA FrontOf ==
    ASSUME NEW E, NEW q \in Seq(E), NEW k \in 1 .. Len(q) + 1
    PROVE  /\ SubSeq(q, 1, k - 1) \in Seq(E) /\ Len(SubSeq(q, 1, k - 1)) = k - 1
           /\ \A i \in 1 .. k - 1 : SubSeq(q, 1, k - 1)[i] = q[i]
<1>. DEFINE s == SubSeq(q, 1, k - 1)
<1>1. Len(q) \in Nat /\ \A i \in 1 .. Len(q) : q[i] \in E
    BY LenProperties
<1>2. \A i \in 1 .. k - 1 : q[i] \in E
    BY <1>1
<1>3. /\ s \in Seq(E) /\ Len(s) = IF 1 <= k - 1 THEN k - 1 - 1 + 1 ELSE 0
      /\ \A i \in 1 .. k - 1 - 1 + 1 : s[i] = q[1 + i - 1]
    BY <1>1, <1>2, SubSeqProperties
<1>. HIDE DEF s
<1>. QED  BY <1>1, <1>3 DEF s

LEMMA BackOf ==
    ASSUME NEW E, NEW q \in Seq(E), NEW k \in 1 .. Len(q) + 1
    PROVE  /\ SubSeq(q, k, Len(q)) \in Seq(E) /\ Len(SubSeq(q, k, Len(q))) = Len(q) + 1 - k
           /\ \A i \in 1 .. Len(q) + 1 - k : SubSeq(q, k, Len(q))[i] = q[k + i - 1]
<1>. DEFINE t == SubSeq(q, k, Len(q))
<1>1. Len(q) \in Nat /\ \A i \in 1 .. Len(q) : q[i] \in E
    BY LenProperties
<1>2. \A i \in k .. Len(q) : q[i] \in E
    BY <1>1
<1>3. /\ t \in Seq(E) /\ Len(t) = IF k <= Len(q) THEN Len(q) - k + 1 ELSE 0
      /\ \A i \in 1 .. Len(q) - k + 1 : t[i] = q[k + i - 1]
    BY <1>1, <1>2, SubSeqProperties
<1>. HIDE DEF t
<1>. QED  BY <1>1, <1>3 DEF t

\* The new element is at place k, the others before it and behind it.
LEMMA InsertAtElements ==
    ASSUME NEW E, NEW q \in Seq(E), NEW x \in E, NEW k \in 1 .. Len(q) + 1
    PROVE  LET r == InsertAt(q, k, x)
           IN  /\ r \in Seq(E)
               /\ Len(r) = Len(q) + 1
               /\ \A i \in 1 .. Len(q) + 1 :
                    r[i] = IF i < k THEN q[i] ELSE IF i = k THEN x ELSE q[i - 1]
<1>. DEFINE n == Len(q)
            s == SubSeq(q, 1, k - 1)
            t == SubSeq(q, k, Len(q))
            a == Append(s, x)
<1>1. /\ n \in Nat /\ k \in Int
      /\ s \in Seq(E) /\ Len(s) = k - 1 /\ \A i \in 1 .. k - 1 : s[i] = q[i]
      /\ t \in Seq(E) /\ Len(t) = n + 1 - k /\ \A i \in 1 .. n + 1 - k : t[i] = q[k + i - 1]
    BY FrontOf, BackOf, LenProperties
<1>2. InsertAt(q, k, x) = a \o t
    <2>1. a = s \o <<x>>
        BY <1>1, AppendIsConcat
    <2>. QED  BY <2>1 DEF InsertAt
<1>. HIDE DEF s, t, n
<1>3. /\ a \in Seq(E) /\ Len(a) = k
      /\ \A i \in 1 .. k : a[i] = IF i < k THEN s[i] ELSE x
    BY <1>1
<1>. HIDE DEF a
<1>4. /\ a \o t \in Seq(E) /\ Len(a \o t) = Len(a) + Len(t)
      /\ \A i \in 1 .. Len(a) + Len(t) : (a \o t)[i] = IF i <= Len(a) THEN a[i] ELSE t[i - Len(a)]
    BY <1>1, <1>3, ConcatProperties
<1>. DEFINE r == a \o t
<1>. HIDE DEF r
<1>5. Len(a) + Len(t) = n + 1 /\ k \in 1 .. n + 1
    BY <1>1, <1>3 DEF n
<1>6. ASSUME NEW i \in 1 .. n + 1
      PROVE  r[i] = IF i < k THEN q[i] ELSE IF i = k THEN x ELSE q[i - 1]
    <2>1. r[i] = IF i <= k THEN a[i] ELSE t[i - k]
        BY <1>3, <1>4, <1>5 DEF r
    <2>2. CASE i < k
        <3>1. i \in 1 .. k /\ i \in 1 .. k - 1 /\ i <= k
            BY <1>5, <2>2
        <3>. QED  BY <1>1, <1>3, <2>1, <2>2, <3>1
    <2>3. CASE i = k
        BY <1>3, <1>5, <2>1, <2>3
    <2>4. CASE k < i
        <3>1. i - k \in 1 .. n + 1 - k /\ k + (i - k) - 1 = i - 1 /\ ~ (i <= k) /\ ~ (i < k) /\ i # k
            BY <1>1, <1>5, <2>4
        <3>. QED  BY <1>1, <2>1, <3>1
    <2>5. i < k \/ i = k \/ k < i
        BY <1>5
    <2>. QED  BY <2>2, <2>3, <2>4, <2>5
<1>7. r \in Seq(E) /\ Len(r) = n + 1
    BY <1>4, <1>5 DEF r
<1>. QED  BY <1>2, <1>6, <1>7 DEF r, n

\* The others stay, those behind place k one further in front.
LEMMA RemoveAtElements ==
    ASSUME NEW E, NEW q \in Seq(E), NEW k \in 1 .. Len(q)
    PROVE  LET r == RemoveAt(q, k)
           IN  /\ r \in Seq(E)
               /\ Len(r) = Len(q) - 1
               /\ \A i \in 1 .. Len(q) - 1 : r[i] = IF i < k THEN q[i] ELSE q[i + 1]
<1>. DEFINE n == Len(q)
            s == SubSeq(q, 1, k - 1)
            t == SubSeq(q, k + 1, Len(q))
            r == s \o t
<1>1. /\ n \in Nat /\ k \in 1 .. n /\ k \in 1 .. n + 1 /\ k + 1 \in 1 .. n + 1
    BY LenProperties
<1>2. /\ s \in Seq(E) /\ Len(s) = k - 1 /\ \A i \in 1 .. k - 1 : s[i] = q[i]
      /\ t \in Seq(E) /\ Len(t) = n + 1 - (k + 1)
      /\ \A i \in 1 .. n + 1 - (k + 1) : t[i] = q[(k + 1) + i - 1]
    BY <1>1, FrontOf, BackOf
<1>3. RemoveAt(q, k) = r
    BY DEF RemoveAt
<1>. HIDE DEF s, t, n
<1>4. /\ r \in Seq(E) /\ Len(r) = Len(s) + Len(t)
      /\ \A i \in 1 .. Len(s) + Len(t) : r[i] = IF i <= Len(s) THEN s[i] ELSE t[i - Len(s)]
    BY <1>2, ConcatProperties
<1>. HIDE DEF r
<1>5. Len(s) + Len(t) = n - 1
    BY <1>1, <1>2
<1>6. ASSUME NEW i \in 1 .. n - 1 PROVE r[i] = IF i < k THEN q[i] ELSE q[i + 1]
    <2>1. r[i] = IF i <= k - 1 THEN s[i] ELSE t[i - (k - 1)]
        BY <1>2, <1>4, <1>5
    <2>2. CASE i < k
        <3>1. i \in 1 .. k - 1 /\ i <= k - 1
            BY <1>1, <2>2
        <3>. QED  BY <1>2, <2>1, <2>2, <3>1
    <2>3. CASE ~ (i < k)
        <3>1. /\ i - (k - 1) \in 1 .. n + 1 - (k + 1) /\ ~ (i <= k - 1)
              /\ (k + 1) + (i - (k - 1)) - 1 = i + 1
            BY <1>1, <2>3
        <3>. QED  BY <1>2, <2>1, <2>3, <3>1
    <2>. QED  BY <2>2, <2>3
<1>7. r \in Seq(E) /\ Len(r) = n - 1
    BY <1>4, <1>5
<1>. QED  BY <1>3, <1>6, <1>7 DEF n

-----------------------------------------------------------------------------
(* What an operation makes of one list.                                     *)

Elements(q) == {q[i] : i \in 1 .. Len(q)}

\* The list stands for q as long as the next fields of its elements stay.
LEMMA StandsApart ==
    ASSUME NEW E, NEW nx, NEW q, NEW list, Over(E, nx, q), Stands(list, nx, q),
           NEW n2 \in [E -> E \union {NULL}], \A e \in Elements(q) : n2[e] = nx[e]
    PROVE  Over(E, n2, q) /\ Stands(list, n2, q)
<1>1. \A i \in 1 .. Len(q) : n2[q[i]] = nx[q[i]]
    BY DEF Elements
<1>. QED  BY <1>1 DEF Over, Stands

LEMMA StandsEmpty ==
    ASSUME NEW E, IsFiniteSet(E), NULL \notin E, NEW nx \in [E -> E \union {NULL}]
    PROVE  Over(E, nx, <<>>) /\ Stands(EmptyList, nx, <<>>) /\ Elements(<<>>) = {}
BY DEF Over, Stands, EmptyList, Elements, Distinct

LEMMA StandsFacts ==
    ASSUME NEW E, NEW nx, NEW q, NEW list, Over(E, nx, q), Stands(list, nx, q)
    PROVE  /\ Len(q) \in Nat /\ q \in Seq(E) /\ NULL \notin E
           /\ \A i \in 1 .. Len(q) : q[i] \in E
           /\ \A i, j \in 1 .. Len(q) : q[i] = q[j] => i = j
           /\ \A i \in 1 .. Len(q) : nx[q[i]] = IF i = Len(q) THEN NULL ELSE q[i + 1]
           /\ list.head = IF Len(q) = 0 THEN NULL ELSE q[1]
           /\ list.tail = IF Len(q) = 0 THEN NULL ELSE q[Len(q)]
           /\ list.length = Len(q)
           /\ list = [head |-> list.head, tail |-> list.tail, length |-> list.length]
BY LenProperties DEF Over, Stands, Distinct

\* The list and the next fields with x at the end: enqueue, and msg_enqueue.
ListWithEnd(list, x) ==
    [head |-> IF list.length = 0 THEN x ELSE list.head,
     tail |-> x, length |-> list.length + 1]
NextWithEnd(nx, list, x) == IF list.length = 0 THEN nx ELSE [nx EXCEPT ![list.tail] = x]

LEMMA AppendStands ==
    ASSUME NEW E, NEW nx, NEW q, NEW list, Over(E, nx, q), Stands(list, nx, q),
           NEW x \in E, x \notin Elements(q), nx[x] = NULL
    PROVE  /\ Over(E, NextWithEnd(nx, list, x), Append(q, x))
           /\ Stands(ListWithEnd(list, x), NextWithEnd(nx, list, x), Append(q, x))
           /\ Elements(Append(q, x)) = Elements(q) \union {x}
           /\ \A e \in E : e \notin Elements(q) => NextWithEnd(nx, list, x)[e] = nx[e]
<1>. SUFFICES ASSUME NEW l2, NEW n2, l2 = ListWithEnd(list, x), n2 = NextWithEnd(nx, list, x)
              PROVE  /\ Over(E, n2, Append(q, x)) /\ Stands(l2, n2, Append(q, x))
                     /\ Elements(Append(q, x)) = Elements(q) \union {x}
                     /\ \A e \in E : e \notin Elements(q) => n2[e] = nx[e]
    OBVIOUS
<1>. USE DEF ListWithEnd, NextWithEnd
<1>. DEFINE n == Len(q)
            r == Append(q, x)
<1>1. /\ n \in Nat /\ q \in Seq(E) /\ IsFiniteSet(E) /\ NULL \notin E
      /\ nx \in [E -> E \union {NULL}]
      /\ \A i \in 1 .. n : q[i] \in E /\ q[i] # x
      /\ \A i, j \in 1 .. n : q[i] = q[j] => i = j
      /\ \A i \in 1 .. n : nx[q[i]] = IF i = n THEN NULL ELSE q[i + 1]
      /\ list.head = IF n = 0 THEN NULL ELSE q[1]
      /\ list.tail = IF n = 0 THEN NULL ELSE q[n]
      /\ list.length = n
    BY StandsFacts DEF Over, Elements
<1>2. /\ r \in Seq(E) /\ Len(r) = n + 1
      /\ \A i \in 1 .. n + 1 : r[i] = IF i <= n THEN q[i] ELSE x
    BY <1>1
<1>3. \A i \in 1 .. n + 1 : i <= n => i \in 1 .. n
    BY <1>1
<1>4. Elements(r) = Elements(q) \union {x}
    <2>. DEFINE R == Elements(r)
                Q == Elements(q)
    <2>1. \A i \in 1 .. n + 1 : r[i] \in Q \union {x}
        BY <1>1, <1>2, <1>3 DEF Elements
    <2>2. x \in R
        <3>1. n + 1 \in 1 .. n + 1 /\ ~ (n + 1 <= n)
            BY <1>1
        <3>2. r[n + 1] = x
            BY <1>2, <3>1
        <3>. QED  BY <1>2, <3>1, <3>2 DEF Elements
    <2>3. \A i \in 1 .. n : q[i] \in R
        <3>1. ASSUME NEW i \in 1 .. n PROVE i \in 1 .. n + 1 /\ r[i] = q[i]
            BY <1>1, <1>2
        <3>. QED  BY <1>2, <3>1 DEF Elements
    <2>. QED  BY <1>2, <2>1, <2>2, <2>3 DEF Elements
<1>5. /\ n2 \in [E -> E \union {NULL}]
      /\ \A e \in E : n2[e] = IF n # 0 /\ e = q[n] THEN x ELSE nx[e]
    <2>1. CASE n = 0
        BY <1>1, <2>1
    <2>2. CASE n # 0
        <3>1. n2 = [nx EXCEPT ![q[n]] = x] /\ q[n] \in E
            BY <1>1, <2>2
        <3>. HIDE DEF n
        <3>. QED  BY <1>1, <2>2, <3>1
    <2>. QED  BY <2>1, <2>2
<1>6. \A e \in E : e \notin Elements(q) => n2[e] = nx[e]
    <2>1. ASSUME NEW e \in E, e \notin Elements(q), n # 0 PROVE e # q[n]
        <3>1. n \in 1 .. n
            BY <1>1, <2>1
        <3>. QED  BY <2>1, <3>1 DEF Elements
    <2>. HIDE DEF n
    <2>. QED  BY <1>5, <2>1
<1>. HIDE DEF n, r
<1>7. Distinct(r)
    <2>1. ASSUME NEW i \in 1 .. n + 1, NEW j \in 1 .. n + 1, r[i] = r[j] PROVE i = j
        <3>1. CASE i <= n /\ j <= n
            BY <1>1, <1>2, <1>3, <2>1, <3>1
        <3>2. CASE i <= n /\ ~ (j <= n)
            BY <1>1, <1>2, <1>3, <2>1, <3>2
        <3>3. CASE ~ (i <= n) /\ j <= n
            BY <1>1, <1>2, <1>3, <2>1, <3>3
        <3>4. CASE ~ (i <= n) /\ ~ (j <= n)
            BY <1>1, <3>4
        <3>. QED  BY <3>1, <3>2, <3>3, <3>4
    <2>. QED  BY <1>2, <2>1 DEF Distinct
<1>8. ASSUME NEW i \in 1 .. n + 1
      PROVE  n2[r[i]] = IF i = n + 1 THEN NULL ELSE r[i + 1]
    <2>1. CASE i = n + 1
        <3>1. r[i] = x /\ n2[x] = nx[x]
            <4>1. n # 0 => x # q[n]
                <5>1. n # 0 => n \in 1 .. n
                    BY <1>1
                <5>. QED  BY <1>1, <5>1
            <4>2. ~ (i <= n)
                BY <1>1, <2>1
            <4>. QED  BY <1>2, <1>5, <4>1, <4>2
        <3>. QED  BY <2>1, <3>1
    <2>2. CASE i = n
        <3>1. n # 0 /\ i \in 1 .. n /\ i # n + 1 /\ i + 1 \in 1 .. n + 1 /\ ~ (i + 1 <= n)
            BY <1>1, <2>2
        <3>2. r[i] = q[n] /\ q[n] \in E /\ r[i + 1] = x
            BY <1>1, <1>2, <2>2, <3>1
        <3>. QED  BY <1>5, <3>1, <3>2
    <2>3. CASE i < n
        <3>1. n # 0 /\ n \in 1 .. n /\ i \in 1 .. n /\ i # n + 1 /\ i + 1 \in 1 .. n + 1 /\ i + 1 <= n /\ i # n
            BY <1>1, <2>3
        <3>2. r[i] = q[i] /\ q[i] \in E /\ r[i + 1] = q[i + 1] /\ q[i] # q[n] /\ nx[q[i]] = q[i + 1]
            BY <1>1, <1>2, <3>1
        <3>. QED  BY <1>5, <3>1, <3>2
    <2>4. i = n + 1 \/ i = n \/ i < n
        BY <1>1
    <2>. QED  BY <2>1, <2>2, <2>3, <2>4
<1>9. l2 = [head |-> IF Len(r) = 0 THEN NULL ELSE r[1],
            tail |-> IF Len(r) = 0 THEN NULL ELSE r[Len(r)],
            length |-> Len(r)]
    <2>1. Len(r) # 0 /\ 1 \in 1 .. n + 1 /\ n + 1 \in 1 .. n + 1 /\ ~ (n + 1 <= n) /\ (1 <= n <=> n # 0)
        BY <1>1, <1>2
    <2>2. r[1] = IF n = 0 THEN x ELSE q[1]
        BY <1>2, <2>1
    <2>3. r[n + 1] = x
        BY <1>2, <2>1
    <2>4. l2 = [head |-> r[1], tail |-> r[n + 1], length |-> n + 1]
        BY <1>1, <2>2, <2>3
    <2>. QED  BY <1>2, <2>1, <2>4
<1>. QED  BY <1>1, <1>2, <1>4, <1>5, <1>6, <1>7, <1>8, <1>9 DEF Over, Stands, r

\* The element at place k is taken: deque, and msg_find_receiver.
ListWithout(nx, q, k) ==
    [head |-> IF k = 1 THEN nx[q[1]] ELSE q[1],
     tail |-> IF k # Len(q) THEN q[Len(q)] ELSE IF k = 1 THEN NULL ELSE q[k - 1],
     length |-> Len(q) - 1]
NextWithout(E, nx, q, k) ==
    [e \in E |-> IF e = q[k] THEN NULL
                 ELSE IF k # 1 /\ e = q[k - 1] THEN nx[q[k]] ELSE nx[e]]

LEMMA RemoveStands ==
    ASSUME NEW E, NEW nx, NEW q, NEW list, Over(E, nx, q), Stands(list, nx, q),
           NEW k \in 1 .. Len(q)
    PROVE  /\ Over(E, NextWithout(E, nx, q, k), RemoveAt(q, k))
           /\ Stands(ListWithout(nx, q, k), NextWithout(E, nx, q, k), RemoveAt(q, k))
           /\ Elements(RemoveAt(q, k)) = Elements(q) \ {q[k]}
           /\ \A e \in E : e \notin Elements(q) => NextWithout(E, nx, q, k)[e] = nx[e]
<1>. SUFFICES ASSUME NEW l2, NEW n2, l2 = ListWithout(nx, q, k), n2 = NextWithout(E, nx, q, k)
              PROVE  /\ Over(E, n2, RemoveAt(q, k)) /\ Stands(l2, n2, RemoveAt(q, k))
                     /\ Elements(RemoveAt(q, k)) = Elements(q) \ {q[k]}
                     /\ \A e \in E : e \notin Elements(q) => n2[e] = nx[e]
    OBVIOUS
<1>n. /\ n2 \in [E -> E \union {NULL}]
      /\ \A e \in E : n2[e] = IF e = q[k] THEN NULL
                               ELSE IF k # 1 /\ e = q[k - 1] THEN nx[q[k]] ELSE nx[e]
    <2>1. nx[q[k]] \in E \union {NULL} /\ nx \in [E -> E \union {NULL}]
        BY StandsFacts DEF Over
    <2>. QED  BY <2>1 DEF NextWithout
<1>. USE <1>n DEF ListWithout
<1>. DEFINE n == Len(q)
            r == RemoveAt(q, k)
            at(i) == IF i < k THEN i ELSE i + 1
<1>1. /\ n \in Nat /\ q \in Seq(E) /\ IsFiniteSet(E) /\ NULL \notin E
      /\ \A i \in 1 .. n : q[i] \in E
      /\ \A i, j \in 1 .. n : q[i] = q[j] => i = j
      /\ \A i \in 1 .. n : nx[q[i]] = IF i = n THEN NULL ELSE q[i + 1]
    BY StandsFacts DEF Over
<1>2. /\ r \in Seq(E) /\ Len(r) = n - 1
      /\ \A i \in 1 .. n - 1 : r[i] = IF i < k THEN q[i] ELSE q[i + 1]
    BY <1>1, RemoveAtElements
<1>3. k \in 1 .. n
    OBVIOUS
<1>. HIDE DEF r, n
<1>4. \A i \in 1 .. n - 1 : at(i) \in 1 .. n /\ at(i) # k /\ r[i] = q[at(i)]
    BY <1>1, <1>2, <1>3
<1>5. \A i, j \in 1 .. n - 1 : at(i) = at(j) => i = j
    BY <1>1, <1>3
<1>6. \A i \in 1 .. n : i # k => \E j \in 1 .. n - 1 : at(j) = i
    <2>. SUFFICES ASSUME NEW i \in 1 .. n, i # k PROVE \E j \in 1 .. n - 1 : at(j) = i
        OBVIOUS
    <2>1. CASE i < k
        <3>1. i \in 1 .. n - 1 /\ at(i) = i
            BY <1>1, <1>3, <2>1
        <3>. QED  BY <3>1
    <2>2. CASE ~ (i < k)
        <3>1. i - 1 \in 1 .. n - 1 /\ at(i - 1) = i
            BY <1>1, <1>3, <2>2
        <3>. QED  BY <3>1
    <2>. QED  BY <2>1, <2>2
<1>7. Elements(r) = Elements(q) \ {q[k]}
    <2>1. \A y \in Elements(r) : y \in Elements(q) /\ y # q[k]
        <3>. SUFFICES ASSUME NEW y \in Elements(r) PROVE y \in Elements(q) /\ y # q[k]
            OBVIOUS
        <3>0. PICK i \in 1 .. n - 1 : y = r[i]
            BY <1>2 DEF Elements
        <3>1. at(i) \in 1 .. n /\ at(i) # k /\ r[i] = q[at(i)]
            BY <1>4
        <3>. HIDE DEF at
        <3>2. q[at(i)] \in Elements(q)
            BY <3>1 DEF Elements, n
        <3>3. q[at(i)] # q[k]
            BY <1>1, <1>3, <3>1
        <3>. QED  BY <3>0, <3>1, <3>2, <3>3
    <2>2. \A y \in Elements(q) : y # q[k] => y \in Elements(r)
        <3>. SUFFICES ASSUME NEW i \in 1 .. n, i # k PROVE q[i] \in Elements(r)
            BY DEF Elements, n
        <3>1. PICK j \in 1 .. n - 1 : at(j) = i
            BY <1>6
        <3>2. r[j] = q[i]
            BY <1>4, <3>1
        <3>. QED  BY <1>2, <3>2 DEF Elements
    <2>. QED  BY <2>1, <2>2
<1>8. \A e \in E : e \notin Elements(q) => n2[e] = nx[e]
    <2>. SUFFICES ASSUME NEW e \in E, e \notin Elements(q) PROVE n2[e] = nx[e]
        OBVIOUS
    <2>1. e # q[k] /\ (k # 1 => e # q[k - 1])
        <3>1. k # 1 => k - 1 \in 1 .. n
            BY <1>1, <1>3
        <3>. QED  BY <1>3, <3>1 DEF Elements, n
    <2>. QED  BY <2>1
<1>9. Distinct(r)
    <2>1. ASSUME NEW i \in 1 .. n - 1, NEW j \in 1 .. n - 1, r[i] = r[j] PROVE i = j
        <3>1. at(i) = at(j)
            <4>1. /\ at(i) \in 1 .. n /\ r[i] = q[at(i)]
                  /\ at(j) \in 1 .. n /\ r[j] = q[at(j)]
                BY <1>4
            <4>. HIDE DEF at
            <4>2. q[at(i)] = q[at(j)]
                BY <2>1, <4>1
            <4>. QED  BY <1>1, <4>1, <4>2
        <3>. QED  BY <1>5, <3>1
    <2>. QED  BY <1>2, <2>1 DEF Distinct
<1>10. ASSUME NEW i \in 1 .. n - 1
       PROVE  n2[r[i]] = IF i = n - 1 THEN NULL ELSE r[i + 1]
    <2>1. /\ at(i) \in 1 .. n /\ at(i) # k /\ r[i] = q[at(i)] /\ q[at(i)] \in E
          /\ q[at(i)] # q[k]
        <3>1. at(i) \in 1 .. n /\ at(i) # k /\ r[i] = q[at(i)]
            BY <1>4
        <3>. HIDE DEF at
        <3>. QED  BY <1>1, <1>3, <3>1
    <2>2. i # n - 1 => i + 1 \in 1 .. n - 1 /\ r[i + 1] = q[at(i + 1)]
        <3>1. i # n - 1 => i + 1 \in 1 .. n - 1
            BY <1>1
        <3>. HIDE DEF at
        <3>. QED  BY <1>4, <3>1
    <2>3. CASE i = k - 1
        <3>1. k # 1 /\ at(i) = k - 1 /\ at(i + 1) = k + 1 /\ (i = n - 1 <=> k = n)
            BY <1>1, <1>3, <2>3
        <3>2. n2[r[i]] = nx[q[k]]
            BY <2>1, <3>1
        <3>3. nx[q[k]] = IF k = n THEN NULL ELSE q[k + 1]
            BY <1>1, <1>3
        <3>. HIDE DEF at
        <3>. QED  BY <2>2, <3>1, <3>2, <3>3
    <2>4. CASE i # k - 1
        <3>1. /\ k # 1 => (k - 1 \in 1 .. n /\ at(i) # k - 1)
              /\ at(i) = n <=> i = n - 1
              /\ i # n - 1 => at(i + 1) = at(i) + 1
            <4>1. CASE i < k
                <5>1. at(i) = i /\ i + 1 < k /\ i # n - 1
                    BY <1>1, <1>3, <2>4, <4>1
                <5>2. at(i + 1) = i + 1
                    BY <5>1
                <5>3. i # n /\ i # k - 1 /\ (k # 1 => k - 1 \in 1 .. n)
                    BY <1>1, <1>3, <2>4, <5>1
                <5>. HIDE DEF at
                <5>. QED  BY <5>1, <5>2, <5>3
            <4>2. CASE ~ (i < k)
                <5>1. at(i) = i + 1 /\ ~ (i + 1 < k)
                    BY <1>1, <1>3, <4>2
                <5>2. at(i + 1) = (i + 1) + 1
                    BY <5>1
                <5>3. /\ i + 1 # k - 1 /\ (k # 1 => k - 1 \in 1 .. n)
                      /\ i + 1 = n <=> i = n - 1
                    BY <1>1, <1>3, <4>2
                <5>. HIDE DEF at
                <5>. QED  BY <5>1, <5>2, <5>3
            <4>. QED  BY <4>1, <4>2
        <3>. HIDE DEF at
        <3>2. k # 1 => q[at(i)] # q[k - 1]
            BY <1>1, <2>1, <3>1
        <3>3. n2[r[i]] = nx[q[at(i)]]
            BY <2>1, <3>2
        <3>4. nx[q[at(i)]] = IF at(i) = n THEN NULL ELSE q[at(i) + 1]
            BY <1>1, <2>1
        <3>. QED  BY <2>2, <3>1, <3>3, <3>4
    <2>. QED  BY <2>3, <2>4
<1>11. l2 = [head |-> IF Len(r) = 0 THEN NULL ELSE r[1],
             tail |-> IF Len(r) = 0 THEN NULL ELSE r[Len(r)],
             length |-> Len(r)]
    <2>1. CASE n = 1
        <3>1. k = 1 /\ k = n /\ n - 1 = 0 /\ nx[q[1]] = NULL
            BY <1>1, <1>3, <2>1
        <3>. QED  BY <1>2, <3>1 DEF n
    <2>2. CASE n # 1
        <3>1. 1 \in 1 .. n /\ 1 \in 1 .. n - 1 /\ n - 1 \in 1 .. n - 1 /\ n - 1 # 0
            BY <1>1, <1>3, <2>2
        <3>2. r[1] = IF k = 1 THEN q[1 + 1] ELSE q[1]
            <4>1. 1 < k <=> k # 1
                BY <1>1, <1>3
            <4>. QED  BY <1>2, <3>1, <4>1
        <3>3. nx[q[1]] = q[1 + 1]
            BY <1>1, <2>2, <3>1
        <3>4. r[n - 1] = IF k # n THEN q[n] ELSE q[k - 1]
            <4>1. (n - 1) + 1 = n /\ (n - 1 < k <=> k = n)
                BY <1>1, <1>3
            <4>. QED  BY <1>2, <3>1, <4>1
        <3>5. k = n => k # 1
            BY <1>1, <2>2
        <3>. QED  BY <1>2, <3>1, <3>2, <3>3, <3>4, <3>5 DEF n
    <2>. QED  BY <2>1, <2>2
<1>. QED  BY <1>1, <1>2, <1>7, <1>8, <1>9, <1>10, <1>11 DEF Over, Stands, r

\* x enters at place k of a list that is not empty: insert.
ListWith(q, k, x) ==
    [head |-> IF k = 1 THEN x ELSE q[1],
     tail |-> IF k = Len(q) + 1 THEN x ELSE q[Len(q)],
     length |-> Len(q) + 1]
NextWith(E, nx, q, k, x) ==
    [e \in E |-> IF e = x THEN IF k = Len(q) + 1 THEN NULL ELSE q[k]
                 ELSE IF k # 1 /\ e = q[k - 1] THEN x ELSE nx[e]]

LEMMA InsertStands ==
    ASSUME NEW E, NEW nx, NEW q, NEW list, Over(E, nx, q), Stands(list, nx, q), Len(q) # 0,
           NEW k \in 1 .. Len(q) + 1, NEW x \in E, x \notin Elements(q)
    PROVE  /\ Over(E, NextWith(E, nx, q, k, x), InsertAt(q, k, x))
           /\ Stands(ListWith(q, k, x), NextWith(E, nx, q, k, x), InsertAt(q, k, x))
           /\ Elements(InsertAt(q, k, x)) = Elements(q) \union {x}
           /\ \A e \in E : e \notin Elements(q) /\ e # x => NextWith(E, nx, q, k, x)[e] = nx[e]
<1>. SUFFICES ASSUME NEW l2, NEW n2, l2 = ListWith(q, k, x), n2 = NextWith(E, nx, q, k, x)
              PROVE  /\ Over(E, n2, InsertAt(q, k, x)) /\ Stands(l2, n2, InsertAt(q, k, x))
                     /\ Elements(InsertAt(q, k, x)) = Elements(q) \union {x}
                     /\ \A e \in E : e \notin Elements(q) /\ e # x => n2[e] = nx[e]
    OBVIOUS
<1>n. /\ n2 \in [E -> E \union {NULL}]
      /\ \A e \in E : n2[e] = IF e = x THEN IF k = Len(q) + 1 THEN NULL ELSE q[k]
                               ELSE IF k # 1 /\ e = q[k - 1] THEN x ELSE nx[e]
    <2>1. nx \in [E -> E \union {NULL}] /\ (k # Len(q) + 1 => q[k] \in E)
        BY StandsFacts DEF Over
    <2>. QED  BY <2>1 DEF NextWith
<1>. USE <1>n DEF ListWith
<1>. DEFINE n == Len(q)
            r == InsertAt(q, k, x)
            at(i) == IF i < k THEN i ELSE i - 1
<1>1. /\ n \in Nat /\ n # 0 /\ q \in Seq(E) /\ IsFiniteSet(E) /\ NULL \notin E
      /\ \A i \in 1 .. n : q[i] \in E
      /\ \A i, j \in 1 .. n : q[i] = q[j] => i = j
      /\ \A i \in 1 .. n : nx[q[i]] = IF i = n THEN NULL ELSE q[i + 1]
    BY StandsFacts DEF Over
<1>2. /\ r \in Seq(E) /\ Len(r) = n + 1
      /\ \A i \in 1 .. n + 1 : r[i] = IF i < k THEN q[i] ELSE IF i = k THEN x ELSE q[i - 1]
    BY <1>1, InsertAtElements
<1>3. k \in 1 .. n + 1
    OBVIOUS
<1>a. \A i \in 1 .. n : q[i] # x /\ q[i] \in Elements(q)
    BY DEF Elements
<1>. HIDE DEF r, n
<1>4. /\ \A i \in 1 .. n + 1 : i # k => at(i) \in 1 .. n /\ r[i] = q[at(i)]
      /\ r[k] = x
    <2>1. ASSUME NEW i \in 1 .. n + 1, i # k PROVE at(i) \in 1 .. n /\ r[i] = q[at(i)]
        <3>1. CASE i < k
            <4>1. at(i) = i /\ i \in 1 .. n
                BY <1>1, <1>3, <3>1
            <4>. HIDE DEF at
            <4>. QED  BY <1>2, <3>1, <4>1
        <3>2. CASE ~ (i < k)
            <4>1. at(i) = i - 1 /\ i - 1 \in 1 .. n
                BY <1>1, <1>3, <2>1, <3>2
            <4>. HIDE DEF at
            <4>. QED  BY <1>2, <2>1, <3>2, <4>1
        <3>. QED  BY <3>1, <3>2
    <2>2. r[k] = x
        <3>1. ~ (k < k)
            BY <1>3
        <3>. QED  BY <1>2, <1>3, <3>1
    <2>. HIDE DEF at
    <2>. QED  BY <2>1, <2>2
<1>5. \A i, j \in 1 .. n + 1 : i # k /\ j # k /\ at(i) = at(j) => i = j
    <2>. SUFFICES ASSUME NEW i \in 1 .. n + 1, NEW j \in 1 .. n + 1, i # k, j # k, at(i) = at(j)
                  PROVE  i = j
        OBVIOUS
    <2>1. CASE i < k /\ j < k
        BY <2>1
    <2>2. CASE i < k /\ ~ (j < k)
        BY <1>1, <1>3, <2>2
    <2>3. CASE ~ (i < k) /\ j < k
        BY <1>1, <1>3, <2>3
    <2>4. CASE ~ (i < k) /\ ~ (j < k)
        BY <1>1, <1>3, <2>4
    <2>. QED  BY <2>1, <2>2, <2>3, <2>4
<1>6. \A i \in 1 .. n : \E j \in 1 .. n + 1 : j # k /\ at(j) = i
    <2>. SUFFICES ASSUME NEW i \in 1 .. n PROVE \E j \in 1 .. n + 1 : j # k /\ at(j) = i
        OBVIOUS
    <2>1. CASE i < k
        <3>1. i \in 1 .. n + 1 /\ i # k /\ at(i) = i
            BY <1>1, <1>3, <2>1
        <3>. QED  BY <3>1
    <2>2. CASE ~ (i < k)
        <3>1. i + 1 \in 1 .. n + 1 /\ i + 1 # k /\ at(i + 1) = i
            BY <1>1, <1>3, <2>2
        <3>. QED  BY <3>1
    <2>. QED  BY <2>1, <2>2
<1>7. Elements(r) = Elements(q) \union {x}
    <2>1. \A y \in Elements(r) : y \in Elements(q) \union {x}
        <3>. SUFFICES ASSUME NEW y \in Elements(r) PROVE y \in Elements(q) \union {x}
            OBVIOUS
        <3>0. PICK i \in 1 .. n + 1 : y = r[i]
            BY <1>2 DEF Elements
        <3>1. i # k => at(i) \in 1 .. n /\ r[i] = q[at(i)]
            BY <1>4
        <3>. HIDE DEF at
        <3>2. i # k => r[i] \in Elements(q)
            BY <1>a, <3>1
        <3>. QED  BY <1>4, <3>0, <3>2
    <2>2. \A y \in Elements(q) : y \in Elements(r)
        <3>. SUFFICES ASSUME NEW i \in 1 .. n PROVE q[i] \in Elements(r)
            BY DEF Elements, n
        <3>1. PICK j \in 1 .. n + 1 : j # k /\ at(j) = i
            BY <1>6
        <3>2. r[j] = q[i]
            <4>. HIDE DEF at
            <4>. QED  BY <1>4, <3>1
        <3>. QED  BY <1>2, <3>2 DEF Elements
    <2>3. x \in Elements(r)
        BY <1>2, <1>3, <1>4 DEF Elements
    <2>. QED  BY <2>1, <2>2, <2>3
<1>8. \A e \in E : e \notin Elements(q) /\ e # x => n2[e] = nx[e]
    <2>. SUFFICES ASSUME NEW e \in E, e \notin Elements(q), e # x PROVE n2[e] = nx[e]
        OBVIOUS
    <2>1. k # 1 => e # q[k - 1]
        <3>1. k # 1 => k - 1 \in 1 .. n
            BY <1>1, <1>3
        <3>. QED  BY <1>a, <3>1
    <2>. QED  BY <2>1
<1>9. Distinct(r)
    <2>1. ASSUME NEW i \in 1 .. n + 1, NEW j \in 1 .. n + 1, r[i] = r[j] PROVE i = j
        <3>1. /\ i # k => at(i) \in 1 .. n /\ r[i] = q[at(i)] /\ r[i] # x
              /\ j # k => at(j) \in 1 .. n /\ r[j] = q[at(j)] /\ r[j] # x
            <4>1. /\ i # k => at(i) \in 1 .. n /\ r[i] = q[at(i)]
                  /\ j # k => at(j) \in 1 .. n /\ r[j] = q[at(j)]
                BY <1>4
            <4>. HIDE DEF at
            <4>. QED  BY <1>a, <4>1
        <3>2. CASE i = k \/ j = k
            <4>. HIDE DEF at
            <4>. QED  BY <1>4, <2>1, <3>1, <3>2
        <3>3. CASE i # k /\ j # k
            <4>1. at(i) = at(j)
                <5>. HIDE DEF at
                <5>1. q[at(i)] = q[at(j)]
                    BY <2>1, <3>1, <3>3
                <5>. QED  BY <1>1, <3>1, <3>3, <5>1
            <4>. QED  BY <1>5, <3>3, <4>1
        <3>. QED  BY <3>2, <3>3
    <2>. QED  BY <1>2, <2>1 DEF Distinct
<1>10. ASSUME NEW i \in 1 .. n + 1
       PROVE  n2[r[i]] = IF i = n + 1 THEN NULL ELSE r[i + 1]
    <2>1. CASE i = k
        <3>1. n2[r[i]] = IF k = n + 1 THEN NULL ELSE q[k]
            BY <1>4, <2>1 DEF n
        <3>2. k # n + 1 => k + 1 \in 1 .. n + 1 /\ ~ (k + 1 < k) /\ k + 1 # k /\ (k + 1) - 1 = k
            BY <1>1, <1>3
        <3>3. k # n + 1 => r[k + 1] = q[k]
            BY <1>2, <3>2
        <3>. QED  BY <2>1, <3>1, <3>3
    <2>2. CASE i = k - 1
        <3>1. /\ k # 1 /\ i \in 1 .. n /\ i < k /\ i # n + 1 /\ i + 1 = k
            BY <1>1, <1>3, <2>2
        <3>2. r[i] = q[k - 1] /\ q[k - 1] \in E /\ q[k - 1] # x
            BY <1>1, <1>2, <1>a, <2>2, <3>1
        <3>. QED  BY <1>4, <3>1, <3>2
    <2>3. CASE i < k - 1
        <3>1. /\ i \in 1 .. n /\ i # n /\ i # n + 1 /\ i < k
              /\ i + 1 \in 1 .. n + 1 /\ i + 1 < k /\ k # 1 /\ k - 1 \in 1 .. n /\ i # k - 1
            BY <1>1, <1>3, <2>3
        <3>2. r[i] = q[i] /\ r[i + 1] = q[i + 1]
            BY <1>2, <3>1
        <3>3. q[i] \in E /\ q[i] # x /\ q[i] # q[k - 1] /\ nx[q[i]] = q[i + 1]
            BY <1>1, <1>a, <3>1
        <3>. QED  BY <3>1, <3>2, <3>3
    <2>4. CASE k < i
        <3>1. /\ i - 1 \in 1 .. n /\ ~ (i < k) /\ i # k /\ (i - 1) + 1 = i
              /\ i - 1 = n <=> i = n + 1
              /\ k # 1 => (k - 1 \in 1 .. n /\ i - 1 # k - 1)
            BY <1>1, <1>3, <2>4
        <3>2. r[i] = q[i - 1]
            BY <1>2, <3>1
        <3>3. /\ q[i - 1] \in E /\ q[i - 1] # x /\ (k # 1 => q[i - 1] # q[k - 1])
              /\ nx[q[i - 1]] = IF i - 1 = n THEN NULL ELSE q[(i - 1) + 1]
            BY <1>1, <1>a, <3>1
        <3>4. n2[r[i]] = IF i = n + 1 THEN NULL ELSE q[i]
            BY <3>1, <3>2, <3>3
        <3>5. i # n + 1 => i + 1 \in 1 .. n + 1 /\ ~ (i + 1 < k) /\ i + 1 # k /\ (i + 1) - 1 = i
            BY <1>1, <1>3, <2>4
        <3>6. i # n + 1 => r[i + 1] = q[i]
            BY <1>2, <3>5
        <3>. QED  BY <3>4, <3>6
    <2>5. i = k \/ i = k - 1 \/ i < k - 1 \/ k < i
        BY <1>1, <1>3
    <2>. QED  BY <2>1, <2>2, <2>3, <2>4, <2>5
<1>11. l2 = [head |-> IF Len(r) = 0 THEN NULL ELSE r[1],
             tail |-> IF Len(r) = 0 THEN NULL ELSE r[Len(r)],
             length |-> Len(r)]
    <2>1. Len(r) # 0 /\ 1 \in 1 .. n + 1 /\ n + 1 \in 1 .. n + 1 /\ (n + 1) - 1 = n
        BY <1>1, <1>2
    <2>2. r[1] = IF k = 1 THEN x ELSE q[1]
        <3>1. k # 1 => 1 < k
            BY <1>3
        <3>. QED  BY <1>2, <1>4, <2>1, <3>1
    <2>3. r[n + 1] = IF k = n + 1 THEN x ELSE q[n]
        <3>1. ~ (n + 1 < k)
            BY <1>1, <1>3
        <3>. QED  BY <1>2, <2>1, <3>1
    <2>. QED  BY <1>2, <2>1, <2>2, <2>3 DEF n
<1>. QED  BY <1>1, <1>2, <1>7, <1>8, <1>9, <1>10, <1>11 DEF Over, Stands, r

-----------------------------------------------------------------------------
(* The three task queues.                                                   *)

\* The queues, as KernelQueues has them.
QueueOf == [level \in Level |-> Followed(tasks[level], next)]

\* qs are what the lists ts stand for through nx; they have no element in common
\* with each other or with fr.
TasksStand(ts, nx, fr, qs) ==
    /\ DOMAIN ts = Level
    /\ nx \in [Task -> Task \union {NULL}]
    /\ fr \in SUBSET Task /\ \A t \in fr : nx[t] = NULL
    /\ \A l \in Level : /\ Over(Task, nx, qs[l]) /\ Stands(ts[l], nx, qs[l])
                        /\ Elements(qs[l]) \intersect fr = {}
    /\ \A l, m \in Level : l # m => Elements(qs[l]) \intersect Elements(qs[m]) = {}

TasksInv == TasksStand(tasks, next, free, QueueOf)

\* The sequences are known by what the lists stand for.
LEMMA TasksAre ==
    ASSUME NEW qs, DOMAIN qs = Level, qs = [l \in Level |-> qs[l]],
           TasksStand(tasks', next', free', qs)
    PROVE  TasksInv' /\ QueueOf' = qs
<1>1. \A l \in Level : Followed(tasks'[l], next') = qs[l]
    <2>. SUFFICES ASSUME NEW l \in Level PROVE Followed(tasks'[l], next') = qs[l]
        OBVIOUS
    <2>1. Over(Task, next', qs[l]) /\ Stands(tasks'[l], next', qs[l])
        BY DEF TasksStand
    <2>. QED  BY <2>1, FollowedIs
<1>2. QueueOf' = [l \in Level |-> Followed(tasks'[l], next')]
    BY DEF QueueOf
<1>3. QueueOf' = qs
    BY <1>1, <1>2
<1>. QED  BY <1>3, Zenon DEF TasksInv

\* One list changes, and the next fields and the free tasks with it.
LEMMA OneQueue ==
    ASSUME TasksInv, NEW level \in Level, NEW r, NEW l2,
           tasks' = [tasks EXCEPT ![level] = l2],
           Over(Task, next', r), Stands(l2, next', r),
           free' \in SUBSET Task, \A t \in free' : next'[t] = NULL,
           Elements(r) \subseteq Elements(QueueOf[level]) \union free,
           free' \subseteq Elements(QueueOf[level]) \union free,
           Elements(r) \intersect free' = {},
           \A e \in Task : e \notin Elements(QueueOf[level]) \union free => next'[e] = next[e]
    PROVE  TasksInv' /\ QueueOf' = [QueueOf EXCEPT ![level] = r]
<1>. DEFINE qs == [QueueOf EXCEPT ![level] = r]
<1>1. /\ DOMAIN tasks = Level /\ next \in [Task -> Task \union {NULL}]
      /\ \A l \in Level : /\ Over(Task, next, QueueOf[l]) /\ Stands(tasks[l], next, QueueOf[l])
                          /\ Elements(QueueOf[l]) \intersect free = {}
      /\ \A l, m \in Level : l # m => Elements(QueueOf[l]) \intersect Elements(QueueOf[m]) = {}
    BY DEF TasksInv, TasksStand
<1>2. /\ DOMAIN QueueOf = Level /\ DOMAIN qs = Level /\ qs = [l \in Level |-> qs[l]]
      /\ \A l \in Level : qs[l] = IF l = level THEN r ELSE QueueOf[l]
    BY DEF QueueOf
<1>3. \A l \in Level : tasks'[l] = IF l = level THEN l2 ELSE tasks[l]
    BY <1>1
<1>4. DOMAIN tasks' = Level
    BY <1>1
<1>5. next' \in [Task -> Task \union {NULL}]
    BY DEF Over
<1>. HIDE DEF QueueOf, qs
<1>6. ASSUME NEW l \in Level
      PROVE  /\ Over(Task, next', qs[l]) /\ Stands(tasks'[l], next', qs[l])
             /\ Elements(qs[l]) \intersect free' = {}
    <2>1. CASE l = level
        BY <1>2, <1>3, <2>1
    <2>2. CASE l # level
        <3>1. \A e \in Elements(QueueOf[l]) : e \in Task /\ e \notin Elements(QueueOf[level]) \union free
            <4>1. \A e \in Elements(QueueOf[l]) : e \in Task
                BY <1>1, StandsFacts DEF Elements
            <4>. QED  BY <1>1, <2>2, <4>1
        <3>2. \A e \in Elements(QueueOf[l]) : next'[e] = next[e]
            BY <3>1
        <3>3. Over(Task, next', QueueOf[l]) /\ Stands(tasks[l], next', QueueOf[l])
            BY <1>1, <1>5, <3>2, StandsApart
        <3>4. Elements(QueueOf[l]) \intersect free' = {}
            BY <3>1
        <3>. QED  BY <1>2, <1>3, <2>2, <3>3, <3>4
    <2>. QED  BY <2>1, <2>2
<1>7. \A l \in Level : l # level => Elements(qs[l]) \intersect Elements(r) = {}
    BY <1>1, <1>2
<1>8. \A l, m \in Level : l # m => Elements(qs[l]) \intersect Elements(qs[m]) = {}
    BY <1>1, <1>2, <1>7
<1>9. TasksStand(tasks', next', free', qs)
    BY <1>4, <1>5, <1>6, <1>8 DEF TasksStand
<1>10. TasksInv' /\ QueueOf' = qs
    BY <1>2, <1>9, TasksAre
<1>. QED  BY <1>10 DEF qs

LEMMA QueueFacts ==
    ASSUME TasksInv, NEW level \in Level
    PROVE  /\ Over(Task, next, QueueOf[level]) /\ Stands(tasks[level], next, QueueOf[level])
           /\ QueueOf[level] \in Seq(Task) /\ Len(QueueOf[level]) \in Nat
           /\ tasks[level].length = Len(QueueOf[level])
           /\ DOMAIN tasks = Level /\ next \in [Task -> Task \union {NULL}]
           /\ free \in SUBSET Task /\ \A t \in free : next[t] = NULL
           /\ Elements(QueueOf[level]) \intersect free = {}
           /\ Elements(QueueOf[level]) \subseteq Task
<1>1. /\ Over(Task, next, QueueOf[level]) /\ Stands(tasks[level], next, QueueOf[level])
      /\ DOMAIN tasks = Level /\ next \in [Task -> Task \union {NULL}]
      /\ free \in SUBSET Task /\ \A t \in free : next[t] = NULL
      /\ Elements(QueueOf[level]) \intersect free = {}
    BY DEF TasksInv, TasksStand
<1>. HIDE DEF QueueOf
<1>2. /\ QueueOf[level] \in Seq(Task) /\ Len(QueueOf[level]) \in Nat
      /\ tasks[level].length = Len(QueueOf[level])
      /\ \A i \in 1 .. Len(QueueOf[level]) : QueueOf[level][i] \in Task
    BY <1>1, StandsFacts
<1>3. Elements(QueueOf[level]) \subseteq Task
    BY <1>2 DEF Elements
<1>. QED  BY <1>1, <1>2, <1>3

\* deque takes the front of the queue.
LEMMA DequeIs ==
    ASSUME TasksInv, NEW level \in Level, deque(level)
    PROVE  /\ TasksInv' /\ QueueOf[level] # <<>>
           /\ free' = free \union {Head(QueueOf[level])}
           /\ QueueOf' = [QueueOf EXCEPT ![level] = Tail(QueueOf[level])]
<1>. DEFINE q == QueueOf[level]
            list == tasks[level]
            l2 == Shortened(list)
            r == RemoveAt(q, 1)
<1>1. /\ Over(Task, next, q) /\ Stands(list, next, q) /\ q \in Seq(Task) /\ Len(q) \in Nat
      /\ DOMAIN tasks = Level /\ next \in [Task -> Task \union {NULL}]
      /\ free \in SUBSET Task /\ (\A t \in free : next[t] = NULL)
      /\ Elements(q) \intersect free = {} /\ Elements(q) \subseteq Task
    BY QueueFacts
<1>2. /\ list.length > 0
      /\ next' = [next EXCEPT ![list.head] = NULL]
      /\ tasks' = [tasks EXCEPT ![level] = l2]
      /\ free' = free \union {list.head}
    BY DEF deque, Cleared
<1>. HIDE DEF q
<1>3. /\ list.head = IF Len(q) = 0 THEN NULL ELSE q[1]
      /\ list.tail = IF Len(q) = 0 THEN NULL ELSE q[Len(q)]
      /\ list.length = Len(q)
      /\ list = [head |-> list.head, tail |-> list.tail, length |-> list.length]
      /\ NULL \notin Task
      /\ \A i \in 1 .. Len(q) : q[i] \in Task
      /\ \A i \in 1 .. Len(q) : next[q[i]] = IF i = Len(q) THEN NULL ELSE q[i + 1]
    BY <1>1, StandsFacts
<1>4. /\ Len(q) # 0 /\ 1 \in 1 .. Len(q) /\ list.head = q[1] /\ q # <<>> /\ Head(q) = q[1]
      /\ q[1] \in Task
    BY <1>1, <1>2, <1>3
<1>5. l2 = ListWithout(next, q, 1)
    <2>. HIDE DEF list
    <2>1. CASE Len(q) = 1
        <3>1. next[q[1]] = NULL /\ Len(q) - 1 = 0
            BY <1>3, <1>4, <2>1
        <3>2. l2 = [head |-> NULL, tail |-> NULL, length |-> 0]
            BY <1>3, <2>1 DEF Shortened, EmptyList
        <3>. QED  BY <2>1, <3>1, <3>2 DEF ListWithout
    <2>2. CASE Len(q) # 1
        <3>1. q[1] # NULL
            BY <1>3, <1>4
        <3>2. l2 = [head |-> next[q[1]], tail |-> list.tail, length |-> list.length - 1]
            BY <1>3, <1>4, <2>2, <3>1 DEF Shortened, After
        <3>. QED  BY <1>3, <1>4, <2>2, <3>2 DEF ListWithout
    <2>. QED  BY <2>1, <2>2
<1>6. /\ next' \in [Task -> Task \union {NULL}]
      /\ \A e \in Task : next'[e] = IF e = q[1] THEN NULL ELSE next[e]
    BY <1>1, <1>2, <1>4
<1>7. /\ Over(Task, next', r) /\ Stands(l2, next', r)
      /\ Elements(r) = Elements(q) \ {q[1]}
      /\ \A e \in Task : e \notin Elements(q) => next'[e] = next[e]
    <2>1. next' = NextWithout(Task, next, q, 1)
        <3>1. NextWithout(Task, next, q, 1) = [e \in Task |-> IF e = q[1] THEN NULL ELSE next[e]]
            BY DEF NextWithout
        <3>. QED  BY <1>6, <3>1
    <2>. HIDE DEF l2, list, r
    <2>2. /\ Over(Task, next', RemoveAt(q, 1)) /\ Stands(l2, next', RemoveAt(q, 1))
          /\ Elements(RemoveAt(q, 1)) = Elements(q) \ {q[1]}
          /\ \A e \in Task : e \notin Elements(q) => next'[e] = next[e]
        BY <1>1, <1>4, <1>5, <2>1, RemoveStands
    <2>. QED  BY <2>2 DEF r
<1>8. free' = free \union {q[1]} /\ q[1] \in Elements(q)
    BY <1>2, <1>4 DEF Elements
<1>9. TasksInv' /\ QueueOf' = [QueueOf EXCEPT ![level] = r]
    <2>. HIDE DEF l2, list, r
    <2>1. free' \in SUBSET Task /\ \A t \in free' : next'[t] = NULL
        BY <1>1, <1>4, <1>6, <1>8
    <2>2. /\ Elements(r) \subseteq Elements(q) \union free
          /\ free' \subseteq Elements(q) \union free
          /\ Elements(r) \intersect free' = {}
          /\ \A e \in Task : e \notin Elements(q) \union free => next'[e] = next[e]
        BY <1>1, <1>7, <1>8
    <2>. QED  BY <1>2, <1>7, <2>1, <2>2, OneQueue DEF q
<1>10. r = Tail(q)
    <2>1. /\ r \in Seq(Task) /\ Len(r) = Len(q) - 1
          /\ \A i \in 1 .. Len(q) - 1 : r[i] = IF i < 1 THEN q[i] ELSE q[i + 1]
        BY <1>1, <1>4, RemoveAtElements
    <2>2. /\ Tail(q) \in Seq(Task) /\ Len(Tail(q)) = Len(q) - 1
          /\ \A i \in 1 .. Len(q) - 1 : Tail(q)[i] = q[i + 1]
        BY <1>1, <1>4
    <2>. HIDE DEF r
    <2>3. \A i \in 1 .. Len(r) : r[i] = Tail(q)[i]
        <3>1. \A i \in 1 .. Len(q) - 1 : ~ (i < 1)
            BY <1>1
        <3>. QED  BY <2>1, <2>2, <3>1
    <2>. QED  BY <2>1, <2>2, <2>3, SeqEqual
<1>. QED  BY <1>4, <1>8, <1>9, <1>10 DEF q

\* A task at the end of a queue, of a level that is not PERIODIC or of one that
\* is empty.
LEMMA EndIs ==
    ASSUME TasksInv, NEW level \in Level, NEW task \in free,
           tasks' = [tasks EXCEPT ![level] = Enqueued(tasks[level], task)],
           next' = Linked(tasks[level], task), free' = free \ {task}
    PROVE  TasksInv' /\ QueueOf' = [QueueOf EXCEPT ![level] = Append(QueueOf[level], task)]
<1>. DEFINE q == QueueOf[level]
            list == tasks[level]
            l2 == Enqueued(list, task)
            r == Append(q, task)
<1>1. /\ Over(Task, next, q) /\ Stands(list, next, q)
      /\ DOMAIN tasks = Level /\ next \in [Task -> Task \union {NULL}]
      /\ free \in SUBSET Task /\ (\A t \in free : next[t] = NULL)
      /\ Elements(q) \intersect free = {} /\ Elements(q) \subseteq Task
    BY QueueFacts
<1>2. task \in Task /\ task \notin Elements(q) /\ next[task] = NULL
    BY <1>1
<1>. HIDE DEF q
<1>3. l2 = ListWithEnd(list, task)
    <2>1. list = [head |-> list.head, tail |-> list.tail, length |-> list.length]
        BY <1>1, StandsFacts
    <2>. HIDE DEF list
    <2>2. CASE list.length = 0
        BY <2>2 DEF Enqueued, ListWithEnd
    <2>3. CASE list.length # 0
        BY <2>1, <2>3 DEF Enqueued, ListWithEnd
    <2>. QED  BY <2>2, <2>3
<1>4. next' = NextWithEnd(next, list, task)
    BY DEF Linked, NextWithEnd
<1>. HIDE DEF l2, list
<1>5. /\ Over(Task, next', r) /\ Stands(l2, next', r)
      /\ Elements(r) = Elements(q) \union {task}
      /\ \A e \in Task : e \notin Elements(q) => next'[e] = next[e]
    BY <1>1, <1>2, <1>3, <1>4, AppendStands
<1>. HIDE DEF r
<1>6. free' \in SUBSET Task /\ \A t \in free' : next'[t] = NULL
    BY <1>1, <1>5
<1>7. /\ Elements(r) \subseteq Elements(q) \union free
      /\ free' \subseteq Elements(q) \union free
      /\ Elements(r) \intersect free' = {}
      /\ \A e \in Task : e \notin Elements(q) \union free => next'[e] = next[e]
    BY <1>1, <1>5
<1>8. tasks' = [tasks EXCEPT ![level] = l2]
    BY DEF l2, list
<1>9. TasksInv' /\ QueueOf' = [QueueOf EXCEPT ![level] = r]
    BY <1>5, <1>6, <1>7, <1>8, OneQueue DEF q
<1>. QED  BY <1>9 DEF r, q

LEMMA EnqueueIs ==
    ASSUME TasksInv, NEW level \in Level, NEW task \in Task, enqueue(level, task)
    PROVE  /\ TasksInv' /\ task \in free /\ free' = free \ {task}
           /\ QueueOf' = [QueueOf EXCEPT ![level] = Append(QueueOf[level], task)]
BY EndIs DEF enqueue

\* A list with other fields, one at a time: the provers see no further at once.
LEMMA ListChanged ==
    ASSUME NEW l, l = [head |-> l.head, tail |-> l.tail, length |-> l.length],
           NEW h, NEW t, NEW c
    PROVE  [l EXCEPT !.head = h, !.tail = t, !.length = c]
            = [head |-> h, tail |-> t, length |-> c]
<1>. DEFINE l1 == [l EXCEPT !.head = h]
            l2 == [l1 EXCEPT !.tail = t]
<1>1. l1 = [head |-> h, tail |-> l.tail, length |-> l.length]
    OBVIOUS
<1>. HIDE DEF l1
<1>2. l2 = [head |-> h, tail |-> t, length |-> l.length]
    <2>1. /\ l1.head = h /\ l1.tail = l.tail /\ l1.length = l.length
          /\ l1 = [head |-> l1.head, tail |-> l1.tail, length |-> l1.length]
        BY <1>1
    <2>. QED  BY <2>1
<1>. HIDE DEF l2
<1>3. [l2 EXCEPT !.length = c] = [head |-> h, tail |-> t, length |-> c]
    <2>1. /\ l2.head = h /\ l2.tail = t /\ l2.length = l.length
          /\ l2 = [head |-> l2.head, tail |-> l2.tail, length |-> l2.length]
        BY <1>2
    <2>. QED  BY <2>1
<1>. QED  BY <1>3 DEF l1, l2

\* insert puts the task behind the elements that it passes.
LEMMA InsertIs ==
    ASSUME TasksInv, NEW task \in Task, NEW passed \in SUBSET Task, insert(task, passed)
    PROVE  LET q == QueueOf["PERIODIC"]
           IN  /\ TasksInv' /\ task \in free /\ free' = free \ {task}
               /\ QueueOf' = [QueueOf EXCEPT !["PERIODIC"] =
                                 InsertAt(q, Queues!Place(q, passed), task)]
<1>. DEFINE level == "PERIODIC"
            q == QueueOf[level]
            list == tasks[level]
            element == Stop(list, next, passed)
            prev == BeforeStop(list, next, passed)
            l2 == InsertedList(list, task, element, prev)
<1>1. /\ Over(Task, next, q) /\ Stands(list, next, q) /\ q \in Seq(Task) /\ Len(q) \in Nat
      /\ DOMAIN tasks = Level /\ next \in [Task -> Task \union {NULL}]
      /\ free \in SUBSET Task /\ (\A t \in free : next[t] = NULL)
      /\ Elements(q) \intersect free = {} /\ Elements(q) \subseteq Task
      /\ list.length = Len(q) /\ level \in Level
    BY QueueFacts DEF Level
<1>2. task \in free /\ free' = free \ {task}
    BY DEF insert
<1>3. CASE list.length = 0
    <2>1. /\ tasks' = [tasks EXCEPT ![level] = Enqueued(tasks[level], task)]
          /\ next' = Linked(tasks[level], task)
        BY <1>3 DEF insert
    <2>2. TasksInv' /\ QueueOf' = [QueueOf EXCEPT ![level] = Append(q, task)]
        <3>. HIDE DEF level
        <3>1. TasksInv' /\ QueueOf' = [QueueOf EXCEPT ![level] = Append(QueueOf[level], task)]
            BY <1>1, <1>2, <2>1, EndIs
        <3>. QED  BY <3>1
    <2>. HIDE DEF q
    <2>3. PICK k : First(q, passed, k)
        BY <1>1, FirstExists
    <2>4. k = 1
        BY <1>1, <1>3, <2>3 DEF First
    <2>5. Queues!Place(q, passed) = 1
        BY <1>1, <2>3, <2>4, PlaceIs
    <2>6. q = <<>>
        <3>1. q \in Seq(Task) /\ Len(q) = 0
            BY <1>1, <1>3
        <3>. QED  BY <3>1, EmptySeq
    <2>7. InsertAt(q, 1, task) = Append(q, task)
        <3>. DEFINE r == InsertAt(q, 1, task)
        <3>0. 1 \in 1 .. Len(q) + 1 /\ Len(q) = 0
            BY <1>1, <1>3
        <3>1. /\ r \in Seq(Task) /\ Len(r) = Len(q) + 1
              /\ \A i \in 1 .. Len(q) + 1 : r[i] = IF i < 1 THEN q[i] ELSE IF i = 1 THEN task ELSE q[i - 1]
            <4>1. q \in Seq(Task) /\ 1 \in 1 .. Len(q) + 1 /\ task \in Task
                BY <1>1, <3>0
            <4>. QED  BY <4>1, InsertAtElements
        <3>. HIDE DEF r
        <3>2. /\ Append(q, task) \in Seq(Task) /\ Len(Append(q, task)) = 1
              /\ Append(q, task)[1] = task
            BY <2>6
        <3>3. Len(r) = 1 /\ r[1] = task
            BY <3>0, <3>1
        <3>4. \A i \in 1 .. Len(r) : r[i] = Append(q, task)[i]
            BY <3>2, <3>3
        <3>5. r = Append(q, task)
            BY <3>1, <3>2, <3>3, <3>4, SeqEqual
        <3>. QED  BY <3>5 DEF r
    <2>. QED  BY <1>2, <2>2, <2>5, <2>7 DEF q
<1>4. CASE list.length # 0
    <2>1. /\ tasks' = [tasks EXCEPT ![level] = l2]
          /\ next' = InsertedNext(task, element, prev)
        BY <1>4 DEF insert
    <2>. HIDE DEF q
    <2>2. PICK k : First(q, passed, k)
        BY <1>1, FirstExists
    <2>3. /\ k \in 1 .. Len(q) + 1
          /\ element = IF k = Len(q) + 1 THEN NULL ELSE q[k]
          /\ prev = IF k = 1 THEN NULL ELSE q[k - 1]
        BY <1>1, <2>2, StopIs DEF First
    <2>. DEFINE r == InsertAt(q, k, task)
    <2>. HIDE DEF list, element, prev
    <2>4. /\ list.head = IF Len(q) = 0 THEN NULL ELSE q[1]
          /\ list.tail = IF Len(q) = 0 THEN NULL ELSE q[Len(q)]
          /\ list = [head |-> list.head, tail |-> list.tail, length |-> list.length]
          /\ NULL \notin Task
          /\ \A i \in 1 .. Len(q) : q[i] \in Task
        BY <1>1, StandsFacts
    <2>5. /\ k # Len(q) + 1 => q[k] # NULL
          /\ k # 1 => q[k - 1] # NULL /\ q[k - 1] \in Task
        <3>1. /\ k # Len(q) + 1 => k \in 1 .. Len(q)
              /\ k # 1 => k - 1 \in 1 .. Len(q)
            BY <1>1, <2>3
        <3>. QED  BY <2>4, <3>1
    <2>6. l2 = ListWith(q, k, task)
        <3>1. /\ (prev = NULL) <=> k = 1
              /\ (element = NULL) <=> k = Len(q) + 1
              /\ k = Len(q) + 1 => k # 1
            BY <1>1, <1>4, <2>3, <2>5
        <3>2. l2 = [head |-> IF prev = NULL THEN task ELSE list.head,
                    tail |-> IF prev # NULL /\ element = NULL THEN task ELSE list.tail,
                    length |-> list.length + 1]
            <4>. DEFINE h == IF prev = NULL THEN task ELSE list.head
                        t == IF prev # NULL /\ element = NULL THEN task ELSE list.tail
                        c == list.length + 1
            <4>1. l2 = [list EXCEPT !.head = h, !.tail = t, !.length = c]
                BY Zenon DEF InsertedList
            <4>2. list = [head |-> list.head, tail |-> list.tail, length |-> list.length]
                BY <2>4
            <4>. HIDE DEF h, t, c, l2
            <4>3. [list EXCEPT !.head = h, !.tail = t, !.length = c]
                    = [head |-> h, tail |-> t, length |-> c]
                BY <4>2, ListChanged, Zenon
            <4>4. l2 = [head |-> h, tail |-> t, length |-> c]
                BY <4>1, <4>3, Zenon
            <4>. QED  BY <4>4 DEF h, t, c
        <3>. HIDE DEF l2
        <3>. QED  BY <1>1, <1>4, <2>4, <3>1, <3>2 DEF ListWith
    <2>. HIDE DEF l2
    <2>7. next' = NextWith(Task, next, q, k, task)
        <3>1. \A e \in Task : (e = prev) <=> (k # 1 /\ e = q[k - 1])
            BY <2>3, <2>4
        <3>. QED  BY <2>1, <2>3, <3>1 DEF InsertedNext, NextWith
    <2>8. task \notin Elements(q) /\ Len(q) # 0
        BY <1>1, <1>2, <1>4
    <2>9. /\ Over(Task, next', r) /\ Stands(l2, next', r)
          /\ Elements(r) = Elements(q) \union {task}
          /\ \A e \in Task : e \notin Elements(q) /\ e # task => next'[e] = next[e]
        <3>1. /\ Over(Task, NextWith(Task, next, q, k, task), InsertAt(q, k, task))
              /\ Stands(ListWith(q, k, task), NextWith(Task, next, q, k, task), InsertAt(q, k, task))
              /\ Elements(InsertAt(q, k, task)) = Elements(q) \union {task}
              /\ \A e \in Task : e \notin Elements(q) /\ e # task
                                    => NextWith(Task, next, q, k, task)[e] = next[e]
            BY <1>1, <2>3, <2>8, InsertStands
        <3>. QED  BY <2>6, <2>7, <3>1
    <2>. HIDE DEF r
    <2>10. TasksInv' /\ QueueOf' = [QueueOf EXCEPT ![level] = r]
        <3>1. free' \in SUBSET Task /\ \A t \in free' : next'[t] = NULL
            <4>1. \A t \in free' : t \in Task /\ t \notin Elements(q) /\ t # task /\ next[t] = NULL
                BY <1>1, <1>2
            <4>. QED  BY <2>9, <4>1
        <3>2. /\ Elements(r) \subseteq Elements(q) \union free
              /\ free' \subseteq Elements(q) \union free
              /\ Elements(r) \intersect free' = {}
              /\ \A e \in Task : e \notin Elements(q) \union free => next'[e] = next[e]
            BY <1>1, <1>2, <2>9
        <3>. HIDE DEF level
        <3>. QED  BY <1>1, <2>1, <2>9, <3>1, <3>2, OneQueue DEF q
    <2>11. Queues!Place(q, passed) = k
        BY <1>1, <2>2, PlaceIs
    <2>. QED  BY <1>2, <2>10, <2>11 DEF q, r
<1>. QED  BY <1>3, <1>4

-----------------------------------------------------------------------------
(* The message queue.                                                       *)

Waiting == Followed(msg_list, msg_next)

\* q is what the list stands for through nx; it has no element of fr.
MsgsStand(list, nx, fr, q) ==
    /\ Over(Slot, nx, q) /\ Stands(list, nx, q)
    /\ fr \in SUBSET Slot /\ \A s \in fr : nx[s] = NULL
    /\ Elements(q) \intersect fr = {}

MsgsInv == MsgsStand(msg_list, msg_next, idle, Waiting)

LEMMA MsgsAre ==
    ASSUME NEW q, MsgsStand(msg_list', msg_next', idle', q)
    PROVE  MsgsInv' /\ Waiting' = q
<1>1. Over(Slot, msg_next', q) /\ Stands(msg_list', msg_next', q)
    BY DEF MsgsStand
<1>2. Followed(msg_list', msg_next') = q
    BY <1>1, FollowedIs
<1>3. Waiting' = q
    BY <1>2 DEF Waiting
<1>. QED  BY <1>3, Zenon DEF MsgsInv

LEMMA WaitingFacts ==
    ASSUME MsgsInv
    PROVE  /\ Over(Slot, msg_next, Waiting) /\ Stands(msg_list, msg_next, Waiting)
           /\ Waiting \in Seq(Slot) /\ Len(Waiting) \in Nat
           /\ msg_list.length = Len(Waiting)
           /\ msg_list.head = IF Len(Waiting) = 0 THEN NULL ELSE Waiting[1]
           /\ msg_list.tail = IF Len(Waiting) = 0 THEN NULL ELSE Waiting[Len(Waiting)]
           /\ msg_list = [head |-> msg_list.head, tail |-> msg_list.tail,
                          length |-> msg_list.length]
           /\ NULL \notin Slot
           /\ \A i \in 1 .. Len(Waiting) : Waiting[i] \in Slot
           /\ \A i, j \in 1 .. Len(Waiting) : Waiting[i] = Waiting[j] => i = j
           /\ msg_next \in [Slot -> Slot \union {NULL}]
           /\ idle \in SUBSET Slot /\ \A s \in idle : msg_next[s] = NULL
           /\ Elements(Waiting) \intersect idle = {}
<1>1. /\ Over(Slot, msg_next, Waiting) /\ Stands(msg_list, msg_next, Waiting)
      /\ idle \in SUBSET Slot /\ \A s \in idle : msg_next[s] = NULL
      /\ Elements(Waiting) \intersect idle = {}
    BY DEF MsgsInv, MsgsStand
<1>2. msg_next \in [Slot -> Slot \union {NULL}]
    BY <1>1 DEF Over
<1>. HIDE DEF Waiting
<1>. QED  BY <1>1, <1>2, StandsFacts

\* msg_enqueue puts the entry at the end.
LEMMA SendIs ==
    ASSUME MsgsInv, NEW slot \in Slot, msg_enqueue(slot)
    PROVE  /\ MsgsInv' /\ slot \in idle /\ idle' = idle \ {slot}
           /\ Waiting' = Append(Waiting, slot)
<1>. DEFINE q == Waiting
            r == Append(q, slot)
<1>1. /\ Over(Slot, msg_next, q) /\ Stands(msg_list, msg_next, q)
      /\ idle \in SUBSET Slot /\ (\A s \in idle : msg_next[s] = NULL)
      /\ Elements(q) \intersect idle = {}
    BY WaitingFacts
<1>2. /\ slot \in idle /\ idle' = idle \ {slot}
      /\ msg_list' = ListWithEnd(msg_list, slot)
      /\ msg_next' = NextWithEnd(msg_next, msg_list, slot)
    BY DEF msg_enqueue, ListWithEnd, NextWithEnd
<1>3. slot \notin Elements(q) /\ msg_next[slot] = NULL
    BY <1>1, <1>2
<1>. HIDE DEF q
<1>4. /\ Over(Slot, msg_next', r) /\ Stands(msg_list', msg_next', r)
      /\ Elements(r) = Elements(q) \union {slot}
      /\ \A e \in Slot : e \notin Elements(q) => msg_next'[e] = msg_next[e]
    BY <1>1, <1>2, <1>3, AppendStands
<1>. HIDE DEF r
<1>5. MsgsStand(msg_list', msg_next', idle', r)
    <2>1. \A s \in idle' : msg_next'[s] = NULL
        BY <1>1, <1>2, <1>4
    <2>2. Elements(r) \intersect idle' = {} /\ idle' \in SUBSET Slot
        BY <1>1, <1>2, <1>4
    <2>. QED  BY <1>4, <2>1, <2>2 DEF MsgsStand
<1>6. MsgsInv' /\ Waiting' = r
    BY <1>5, MsgsAre
<1>. QED  BY <1>2, <1>6 DEF r, q

\* msg_find_receiver takes the first entry that fits.
LEMMA FindIs ==
    ASSUME MsgsInv, NEW fits \in SUBSET Slot, msg_find_receiver(fits)
    PROVE  LET k == Queues!Place(Waiting, Slot \ fits)
           IN  /\ MsgsInv' /\ k <= Len(Waiting)
               /\ idle' = idle \union {Waiting[k]}
               /\ Waiting' = RemoveAt(Waiting, k)
<1>. DEFINE q == Waiting
            passed == Slot \ fits
            curr == Stop(msg_list, msg_next, passed)
            prev == BeforeStop(msg_list, msg_next, passed)
<1>1. /\ Over(Slot, msg_next, q) /\ Stands(msg_list, msg_next, q)
      /\ q \in Seq(Slot) /\ Len(q) \in Nat
      /\ msg_list.length = Len(q)
      /\ msg_list.head = IF Len(q) = 0 THEN NULL ELSE q[1]
      /\ msg_list.tail = IF Len(q) = 0 THEN NULL ELSE q[Len(q)]
      /\ msg_list = [head |-> msg_list.head, tail |-> msg_list.tail, length |-> msg_list.length]
      /\ NULL \notin Slot
      /\ \A i \in 1 .. Len(q) : q[i] \in Slot
      /\ \A i, j \in 1 .. Len(q) : q[i] = q[j] => i = j
      /\ idle \in SUBSET Slot /\ (\A s \in idle : msg_next[s] = NULL)
      /\ Elements(q) \intersect idle = {}
    BY WaitingFacts
<1>2. /\ curr # NULL
      /\ msg_list' = UnlinkedList(curr, prev)
      /\ msg_next' = UnlinkedNext(curr, prev)
      /\ idle' = idle \union {curr}
    BY DEF msg_find_receiver
<1>. HIDE DEF q
<1>3. PICK k : First(q, passed, k)
    BY <1>1, FirstExists
<1>4. /\ k \in 1 .. Len(q) + 1
      /\ curr = IF k = Len(q) + 1 THEN NULL ELSE q[k]
      /\ prev = IF k = 1 THEN NULL ELSE q[k - 1]
    BY <1>1, <1>3, StopIs DEF First
<1>5. Queues!Place(q, passed) = k
    BY <1>1, <1>3, PlaceIs
<1>. HIDE DEF curr, prev, passed
<1>6. /\ k \in 1 .. Len(q) /\ k <= Len(q) /\ curr = q[k] /\ Len(q) # 0
      /\ 1 \in 1 .. Len(q) /\ Len(q) \in 1 .. Len(q)
    BY <1>1, <1>2, <1>4
<1>. DEFINE r == RemoveAt(q, k)
<1>7. msg_list' = ListWithout(msg_next, q, k)
    <2>. DEFINE h == IF curr = msg_list.head THEN msg_next[curr] ELSE msg_list.head
                t == IF curr # msg_list.tail THEN msg_list.tail ELSE prev
                c == msg_list.length - 1
    <2>1. msg_list' = [msg_list EXCEPT !.head = h, !.tail = t, !.length = c]
        BY <1>2, Zenon DEF UnlinkedList
    <2>. HIDE DEF h, t, c
    <2>2. [msg_list EXCEPT !.head = h, !.tail = t, !.length = c]
            = [head |-> h, tail |-> t, length |-> c]
        <3>1. msg_list = [head |-> msg_list.head, tail |-> msg_list.tail,
                          length |-> msg_list.length]
            BY <1>1
        <3>. QED  BY <3>1, ListChanged, Zenon
    <2>3. h = IF k = 1 THEN msg_next[q[1]] ELSE q[1]
        BY <1>1, <1>6 DEF h
    <2>4. t = IF k # Len(q) THEN q[Len(q)] ELSE IF k = 1 THEN NULL ELSE q[k - 1]
        BY <1>1, <1>4, <1>6 DEF t
    <2>5. c = Len(q) - 1
        BY <1>1 DEF c
    <2>. QED  BY <2>1, <2>2, <2>3, <2>4, <2>5 DEF ListWithout
<1>8. msg_next' = NextWithout(Slot, msg_next, q, k)
    <2>1. \A s \in Slot : (s = prev) <=> (k # 1 /\ s = q[k - 1])
        BY <1>1, <1>4
    <2>2. \A s \in Slot :
            (CASE s = curr -> NULL [] s = prev -> msg_next[curr] [] OTHER -> msg_next[s])
            = IF s = q[k] THEN NULL
              ELSE IF k # 1 /\ s = q[k - 1] THEN msg_next[q[k]] ELSE msg_next[s]
        <3>. SUFFICES ASSUME NEW s \in Slot
                      PROVE  (CASE s = curr -> NULL [] s = prev -> msg_next[curr]
                                [] OTHER -> msg_next[s])
                                = IF s = q[k] THEN NULL
                                  ELSE IF k # 1 /\ s = q[k - 1] THEN msg_next[q[k]]
                                  ELSE msg_next[s]
            OBVIOUS
        <3>1. k # 1 => q[k - 1] # q[k]
            <4>1. k # 1 => k - 1 \in 1 .. Len(q) /\ k - 1 # k
                BY <1>1, <1>6
            <4>. QED  BY <1>1, <1>6, <4>1
        <3>. QED  BY <1>6, <2>1, <3>1
    <2>. QED  BY <1>2, <2>2 DEF UnlinkedNext, NextWithout
<1>9. /\ Over(Slot, msg_next', r) /\ Stands(msg_list', msg_next', r)
      /\ Elements(r) = Elements(q) \ {q[k]}
      /\ \A e \in Slot : e \notin Elements(q) => msg_next'[e] = msg_next[e]
    BY <1>1, <1>6, <1>7, <1>8, RemoveStands
<1>10. /\ msg_next'[q[k]] = NULL /\ q[k] \in Slot
       /\ idle' = idle \union {q[k]}
    <2>1. q[k] \in Slot
        BY <1>1, <1>6
    <2>. QED  BY <1>2, <1>6, <1>8, <2>1 DEF NextWithout
<1>. HIDE DEF r
<1>11. MsgsStand(msg_list', msg_next', idle', r)
    <2>1. \A s \in idle' : msg_next'[s] = NULL
        BY <1>1, <1>9, <1>10
    <2>2. Elements(r) \intersect idle' = {} /\ idle' \in SUBSET Slot
        BY <1>1, <1>9, <1>10
    <2>. QED  BY <1>9, <2>1, <2>2 DEF MsgsStand
<1>12. MsgsInv' /\ Waiting' = r
    BY <1>11, MsgsAre
<1>. QED  BY <1>5, <1>6, <1>10, <1>12 DEF r, q, passed

-----------------------------------------------------------------------------
(* The specification.                                                       *)

ListInv == TasksInv /\ MsgsInv

LEMMA InitIs ==
    ASSUME ListInit
    PROVE  ListInv /\ Queues!Init
<1>1. /\ tasks = [level \in Level |-> EmptyList] /\ next = [task \in Task |-> NULL]
      /\ free = Task /\ msg_list = EmptyList /\ msg_next = [slot \in Slot |-> NULL]
      /\ idle = Slot
    BY DEF ListInit, TaskInit, MsgInit
<1>2. next \in [Task -> Task \union {NULL}] /\ msg_next \in [Slot -> Slot \union {NULL}]
    BY <1>1
<1>3. Over(Task, next, <<>>) /\ Stands(EmptyList, next, <<>>) /\ Elements(<<>>) = {}
    BY <1>2, StandsEmpty, TaskAssumption
<1>4. Over(Slot, msg_next, <<>>) /\ Stands(EmptyList, msg_next, <<>>)
    BY <1>2, StandsEmpty, SlotAssumption
<1>5. QueueOf = [level \in Level |-> <<>>]
    <2>1. Followed(EmptyList, next) = <<>>
        BY <1>3, FollowedIs
    <2>2. \A level \in Level : Followed(tasks[level], next) = <<>>
        BY <1>1, <2>1
    <2>. QED  BY <2>2 DEF QueueOf
<1>6. Waiting = <<>>
    BY <1>1, <1>4, FollowedIs DEF Waiting
<1>7. TasksInv
    <2>1. \A l \in Level : QueueOf[l] = <<>> /\ tasks[l] = EmptyList
        BY <1>1, <1>5
    <2>2. DOMAIN tasks = Level /\ \A t \in free : next[t] = NULL
        BY <1>1
    <2>. QED  BY <1>1, <1>2, <1>3, <2>1, <2>2 DEF TasksInv, TasksStand
<1>8. MsgsInv
    <2>1. \A s \in idle : msg_next[s] = NULL
        BY <1>1
    <2>. QED  BY <1>1, <1>3, <1>4, <1>6, <2>1 DEF MsgsInv, MsgsStand
<1>9. Queues!Init
    BY <1>1, <1>5, <1>6 DEF Queues!Init, Queues!Level, Level, QueueOf, Waiting
<1>. QED  BY <1>7, <1>8, <1>9 DEF ListInv

LEMMA StepIs ==
    ASSUME ListInv, [ListNext]_<<taskVars, msgVars>>
    PROVE  ListInv' /\ [Queues!Next]_(Queues!vars)
<1>1. ASSUME UNCHANGED taskVars
      PROVE  TasksInv' /\ QueueOf' = QueueOf /\ free' = free
    BY <1>1 DEF taskVars, ListInv, TasksInv, QueueOf
<1>2. ASSUME UNCHANGED msgVars
      PROVE  MsgsInv' /\ Waiting' = Waiting /\ idle' = idle
    BY <1>2 DEF msgVars, ListInv, MsgsInv, Waiting
<1>3. TasksInv /\ MsgsInv
    BY DEF ListInv
<1>4. ASSUME NEW level \in Level, deque(level), UNCHANGED msgVars
      PROVE  ListInv' /\ Queues!Next
    <2>1. /\ TasksInv' /\ QueueOf[level] # <<>>
          /\ free' = free \union {Head(QueueOf[level])}
          /\ QueueOf' = [QueueOf EXCEPT ![level] = Tail(QueueOf[level])]
        BY <1>3, <1>4, DequeIs
    <2>2. MsgsInv' /\ Waiting' = Waiting /\ idle' = idle
        BY <1>2, <1>4
    <2>3. Queues!Deque(level)
        BY <2>1, <2>2 DEF Queues!Deque, QueueOf, Waiting
    <2>4. level \in Queues!Level
        BY DEF Level, Queues!Level
    <2>. QED  BY <2>1, <2>2, <2>3, <2>4 DEF ListInv, Queues!Next
<1>5. ASSUME NEW level \in Level \ {"PERIODIC"}, NEW task \in Task, enqueue(level, task),
             UNCHANGED msgVars
      PROVE  ListInv' /\ Queues!Next
    <2>1. /\ TasksInv' /\ task \in free /\ free' = free \ {task}
          /\ QueueOf' = [QueueOf EXCEPT ![level] = Append(QueueOf[level], task)]
        BY <1>3, <1>5, EnqueueIs
    <2>2. MsgsInv' /\ Waiting' = Waiting /\ idle' = idle
        BY <1>2, <1>5
    <2>3. Queues!Enqueue(level, task)
        BY <2>1, <2>2 DEF Queues!Enqueue, Queues!Enter, QueueOf, Waiting
    <2>4. level \in Queues!Level \ {"PERIODIC"}
        BY DEF Level, Queues!Level
    <2>. QED  BY <2>1, <2>2, <2>3, <2>4 DEF ListInv, Queues!Next
<1>6. ASSUME NEW task \in Task, NEW passed \in SUBSET Task, insert(task, passed),
             UNCHANGED msgVars
      PROVE  ListInv' /\ Queues!Next
    <2>1. /\ TasksInv' /\ task \in free /\ free' = free \ {task}
          /\ QueueOf' = [QueueOf EXCEPT !["PERIODIC"] =
                InsertAt(QueueOf["PERIODIC"], Queues!Place(QueueOf["PERIODIC"], passed), task)]
        BY <1>3, <1>6, InsertIs
    <2>2. MsgsInv' /\ Waiting' = Waiting /\ idle' = idle
        BY <1>2, <1>6
    <2>3. Queues!Insert(task, passed)
        BY <2>1, <2>2 DEF Queues!Insert, Queues!Enter, Queues!InsertAt, InsertAt,
                         QueueOf, Waiting
    <2>. QED  BY <2>1, <2>2, <2>3 DEF ListInv, Queues!Next
<1>7. ASSUME NEW slot \in Slot, msg_enqueue(slot), UNCHANGED taskVars
      PROVE  ListInv' /\ Queues!Next
    <2>1. /\ MsgsInv' /\ slot \in idle /\ idle' = idle \ {slot}
          /\ Waiting' = Append(Waiting, slot)
        BY <1>3, <1>7, SendIs
    <2>2. TasksInv' /\ QueueOf' = QueueOf /\ free' = free
        BY <1>1, <1>7
    <2>3. Queues!Send(slot)
        BY <2>1, <2>2 DEF Queues!Send, QueueOf, Waiting
    <2>. QED  BY <2>1, <2>2, <2>3 DEF ListInv, Queues!Next
<1>8. ASSUME NEW fits \in SUBSET Slot, msg_find_receiver(fits), UNCHANGED taskVars
      PROVE  ListInv' /\ Queues!Next
    <2>. DEFINE k == Queues!Place(Waiting, Slot \ fits)
    <2>1. /\ MsgsInv' /\ k <= Len(Waiting) /\ idle' = idle \union {Waiting[k]}
          /\ Waiting' = RemoveAt(Waiting, k)
        BY <1>3, <1>8, FindIs
    <2>2. TasksInv' /\ QueueOf' = QueueOf /\ free' = free
        BY <1>1, <1>8
    <2>3. Queues!Find(fits)
        BY <2>1, <2>2 DEF Queues!Find, Queues!RemoveAt, RemoveAt, QueueOf, Waiting
    <2>. QED  BY <2>1, <2>2, <2>3 DEF ListInv, Queues!Next
<1>9. ASSUME UNCHANGED <<taskVars, msgVars>>
      PROVE  ListInv' /\ UNCHANGED Queues!vars
    <2>1. /\ TasksInv' /\ QueueOf' = QueueOf /\ free' = free
          /\ MsgsInv' /\ Waiting' = Waiting /\ idle' = idle
        BY <1>1, <1>2, <1>9
    <2>. QED  BY <2>1 DEF ListInv, Queues!vars, QueueOf, Waiting
<1>. QED  BY <1>4, <1>5, <1>6, <1>7, <1>8, <1>9 DEF ListNext, TaskNext, MsgNext

\* The sequences behind the lists exist at every moment.
THEOREM ListsInvariant == ListSpec => []ListInv
<1>1. ListInit => ListInv
    BY InitIs
<1>2. ListInv /\ [ListNext]_<<taskVars, msgVars>> => ListInv'
    BY StepIs
<1>. QED  BY <1>1, <1>2, PTL DEF ListSpec

\* Head, tail, length and next fields of every list agree whatever the order of
\* the operations, and what has left a list carries no reference into it
\* (process.c:64, message.c:77-94), for every number of tasks and messages.
THEOREM ListsCorrect == ListSpec => []ListsWellFormed
<1>1. ASSUME ListInv PROVE ListsWellFormed
    <2>1. ASSUME NEW level \in Level PROVE WellFormed(tasks[level], next)
        <3>1. Over(Task, next, QueueOf[level]) /\ Stands(tasks[level], next, QueueOf[level])
            BY <1>1, QueueFacts DEF ListInv
        <3>. QED  BY <3>1, WellFormedIs
    <2>2. WellFormed(msg_list, msg_next)
        <3>1. Over(Slot, msg_next, Waiting) /\ Stands(msg_list, msg_next, Waiting)
            BY <1>1, WaitingFacts DEF ListInv
        <3>. QED  BY <3>1, WellFormedIs
    <2>3. \A task \in free : next[task] = NULL
        BY <1>1 DEF ListInv, TasksInv, TasksStand
    <2>4. \A slot \in idle : msg_next[slot] = NULL
        BY <1>1 DEF ListInv, MsgsInv, MsgsStand
    <2>. QED  BY <2>1, <2>2, <2>3, <2>4 DEF ListsWellFormed
<1>. QED  BY <1>1, ListsInvariant, PTL

\* Every operation on the lists is the one on the sequences: deque returns the
\* front, insert and msg_find_receiver find their place, and no other element is
\* lost, doubled or moved (process.c:46-153, message.c:37-97).
THEOREM ListsRefine == ListSpec => ListsAreQueues
<1>1. ListInit => Queues!Init
    BY InitIs
<1>2. ListInv /\ [ListNext]_<<taskVars, msgVars>> => [Queues!Next]_(Queues!vars)
    BY StepIs
<1>. QED  BY <1>1, <1>2, ListsInvariant, PTL DEF ListSpec, ListsAreQueues, Queues!Spec

=============================================================================
