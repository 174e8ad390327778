--------------------------- MODULE ScheduleProofs ---------------------------
(***************************************************************************)
(* Project 1, for every schedule: idling ends when a task is due, no       *)
(* task's start drifts and, if one run of every task fits into the         *)
(* shortest period, no period is lost.  What getData makes of an           *)
(* undisturbed stream, for every packet size, buffer of the port, delay of *)
(* the radio and content of the data besides.                              *)
(***************************************************************************)
EXTENDS RemoteFeed, FiniteSetTheorems, TLAPS

-----------------------------------------------------------------------------
(* Arithmetic modulo m.                                                     *)

LEMMA Product == ASSUME NEW m \in Nat, NEW a \in Nat, a >= 1 PROVE a * m >= m
<1>1. a - 1 \in Nat /\ (a - 1) * m \in Nat
    OBVIOUS
<1>2. a * m = (a - 1) * m + m
    OBVIOUS
<1>. QED  BY <1>1, <1>2

LEMMA ModIs ==
    ASSUME NEW m \in Nat, m > 0, NEW x \in Int, NEW r \in 0 .. m - 1, NEW k \in Int,
           x = k * m + r
    PROVE  x % m = r
<1>. DEFINE q == x \div m
            s == x % m
<1>1. q \in Int /\ s \in 0 .. m - 1 /\ x = m * q + s
    OBVIOUS
<1>. HIDE DEF q, s
<1>2. x = q * m + s
    BY <1>1
<1>3. ASSUME k - q >= 1 PROVE FALSE
    <2>1. (k - q) * m >= m
        BY <1>1, <1>3, Product
    <2>2. (k - q) * m = s - r
        BY <1>1, <1>2
    <2>. QED  BY <1>1, <2>1, <2>2
<1>4. ASSUME q - k >= 1 PROVE FALSE
    <2>1. (q - k) * m >= m
        BY <1>1, <1>4, Product
    <2>2. (q - k) * m = r - s
        BY <1>1, <1>2
    <2>. QED  BY <1>1, <2>1, <2>2
<1>5. k = q
    BY <1>1, <1>3, <1>4
<1>6. r = s
    BY <1>1, <1>2, <1>5
<1>. QED  BY <1>6 DEF s

LEMMA ModOf ==
    ASSUME NEW m \in Nat, m > 0, NEW x \in Int
    PROVE  /\ x % m \in 0 .. m - 1
           /\ \E k \in Int : x = k * m + (x % m)
<1>1. x \div m \in Int /\ x % m \in 0 .. m - 1 /\ x = m * (x \div m) + (x % m)
    OBVIOUS
<1>2. \A a \in Int : m * a = a * m
    OBVIOUS
<1>3. x = (x \div m) * m + (x % m)
    BY <1>1, <1>2, Zenon
<1>. QED  BY <1>1, <1>3, Zenon

\* A sum may be taken before or after the remainder of its terms.
LEMMA ModSum ==
    ASSUME NEW m \in Nat, m > 0, NEW x \in Int, NEW y \in Int
    PROVE  ((x % m) + y) % m = (x + y) % m
<1>. DEFINE s == x % m
<1>1. PICK k \in Int : x = k * m + s
    BY ModOf
<1>2. s \in Int
    BY ModOf
<1>. HIDE DEF s
<1>. DEFINE z == s + y
            r == z % m
<1>a. z \in Int
    BY <1>2
<1>. HIDE DEF z
<1>3. PICK j \in Int : z = j * m + r
    BY <1>a, ModOf
<1>4. r \in 0 .. m - 1
    BY <1>a, ModOf
<1>. HIDE DEF r
<1>5. x + y = (k + j) * m + r
    BY <1>1, <1>2, <1>3, <1>4 DEF z
<1>6. (x + y) % m = r
    <2>1. k + j \in Int /\ x + y \in Int
        OBVIOUS
    <2>. QED  BY <1>4, <1>5, <2>1, ModIs
<1>. QED  BY <1>6 DEF r, s, z

LEMMA ModDiff ==
    ASSUME NEW m \in Nat, m > 0, NEW x \in Int, NEW y \in Int
    PROVE  (x - (y % m)) % m = (x - y) % m
<1>. DEFINE s == y % m
<1>1. PICK k \in Int : y = k * m + s
    BY ModOf
<1>2. s \in Int
    BY ModOf
<1>. HIDE DEF s
<1>. DEFINE z == x - s
            r == z % m
<1>a. z \in Int
    BY <1>2
<1>. HIDE DEF z
<1>3. PICK j \in Int : z = j * m + r
    BY <1>a, ModOf
<1>4. r \in 0 .. m - 1
    BY <1>a, ModOf
<1>. HIDE DEF r
<1>5. x - y = (j - k) * m + r
    BY <1>1, <1>2, <1>3, <1>4 DEF z
<1>6. (x - y) % m = r
    <2>1. j - k \in Int /\ x - y \in Int
        OBVIOUS
    <2>. QED  BY <1>4, <1>5, <2>1, ModIs
<1>. QED  BY <1>6 DEF r, s, z

-----------------------------------------------------------------------------
(* The scheduler.                                                           *)

\* The remaining times count from last_runtime to the times that are due, and
\* are never longer than a delay or a period.
SchedInv ==
    /\ {clock, last_runtime} \subseteq 0 .. ClockMod - 1
    /\ due \in [Task -> 0 .. ClockMod - 1]
    /\ remaining_time \in [Task -> Int]
    /\ \A id \in Task : /\ remaining_time[id] <= ClockMod \div 2
                        /\ (last_runtime + remaining_time[id]) % ClockMod = due[id]

LEMMA ScheduleFacts ==
    /\ ClockMod \in Nat /\ ClockMod >= 2
    /\ ClockMod \div 2 \in Nat /\ 2 * (ClockMod \div 2) <= ClockMod
    /\ Task # {} /\ Task \subseteq Nat
    /\ \A id \in Task : /\ Period[id] \in Nat /\ Period[id] <= ClockMod \div 2
                        /\ Delay[id] \in Nat /\ Delay[id] <= ClockMod \div 2
<1>1. /\ ClockMod \in Nat /\ Task # {} /\ Task \subseteq Nat
      /\ \A id \in Task : /\ Period[id] \in Nat /\ Period[id] > 0 /\ Period[id] <= ClockMod \div 2
                          /\ Delay[id] \in Nat /\ Delay[id] <= ClockMod \div 2
    BY ScheduleAssumption DEF Task
<1>. HIDE DEF Task
<1>2. ClockMod \div 2 \in Nat /\ 2 * (ClockMod \div 2) <= ClockMod
    BY <1>1
<1>3. ClockMod >= 2
    <2>1. PICK id \in Task : TRUE
        BY <1>1
    <2>. DEFINE p == Period[id]
                h == ClockMod \div 2
    <2>2. p \in Nat /\ p > 0 /\ p <= h /\ h \in Nat /\ 2 * h <= ClockMod
        BY <1>1, <1>2, <2>1
    <2>. HIDE DEF p, h
    <2>. QED  BY <1>1, <2>2
<1>. QED  BY <1>1, <1>2, <1>3

\* Counting the elapsed time off leaves the time that is due where it was.
LEMMA CountedMeans ==
    ASSUME SchedInv
    PROVE  /\ elapsed \in 0 .. ClockMod - 1
           /\ \A id \in Task : /\ Counted[id] \in Int /\ Counted[id] <= ClockMod \div 2
                               /\ (clock + Counted[id]) % ClockMod = due[id]
<1>1. /\ ClockMod \in Nat /\ ClockMod > 0 /\ ClockMod \div 2 \in Nat
      /\ clock \in Int /\ last_runtime \in Int
    BY ScheduleFacts DEF SchedInv
<1>2. elapsed \in 0 .. ClockMod - 1
    BY <1>1, ModOf DEF elapsed
<1>3. ASSUME NEW id \in Task
      PROVE  /\ Counted[id] \in Int /\ Counted[id] <= ClockMod \div 2
             /\ (clock + Counted[id]) % ClockMod = due[id]
    <2>1. /\ remaining_time[id] \in Int /\ remaining_time[id] <= ClockMod \div 2
          /\ (last_runtime + remaining_time[id]) % ClockMod = due[id]
        BY DEF SchedInv
    <2>2. Counted[id] = remaining_time[id] - elapsed
        BY DEF Counted
    <2>3. clock + Counted[id] = (clock + remaining_time[id]) - elapsed
        BY <1>1, <1>2, <2>1, <2>2
    <2>4. ((clock + remaining_time[id]) - elapsed) % ClockMod
            = ((clock + remaining_time[id]) - (clock - last_runtime)) % ClockMod
        <3>1. clock + remaining_time[id] \in Int /\ clock - last_runtime \in Int
            BY <1>1, <2>1
        <3>2. \A x, y \in Int : (x - (y % ClockMod)) % ClockMod = (x - y) % ClockMod
            BY <1>1, ModDiff
        <3>. QED  BY <3>1, <3>2, Zenon DEF elapsed
    <2>5. (clock + remaining_time[id]) - (clock - last_runtime) = last_runtime + remaining_time[id]
        BY <1>1, <2>1
    <2>6. (clock + Counted[id]) % ClockMod = due[id]
        BY <2>1, <2>3, <2>4, <2>5
    <2>. QED  BY <1>1, <1>2, <2>1, <2>2, <2>6
<1>. QED  BY <1>2, <1>3

LEMMA InitSched == SchedInit => SchedInv
<1>. SUFFICES ASSUME SchedInit PROVE SchedInv
    OBVIOUS
<1>1. /\ clock = 0 /\ last_runtime = 0
      /\ remaining_time = [id \in Task |-> Delay[id]] /\ due = remaining_time
    BY DEF SchedInit
<1>2. \A id \in Task : /\ Delay[id] \in 0 .. ClockMod - 1 /\ Delay[id] <= ClockMod \div 2
                       /\ (0 + Delay[id]) % ClockMod = Delay[id]
    BY ScheduleFacts
<1>3. 0 \in 0 .. ClockMod - 1
    BY ScheduleFacts
<1>. QED  BY <1>1, <1>2, <1>3 DEF SchedInv

LEMMA CallsKeeps == ASSUME SchedInv, NEW id \in Task, NEW d, Calls(id, d) PROVE SchedInv'
<1>1. /\ clock' = clock /\ last_runtime' = clock
      /\ remaining_time' = [Counted EXCEPT ![id] = Counted[id] + Period[id]]
      /\ due' = [due EXCEPT ![id] = (@ + Period[id]) % ClockMod]
      /\ Counted[id] <= 0
    BY DEF Calls, NextRemaining, Ready
<1>2. /\ ClockMod \in Nat /\ ClockMod > 0 /\ clock \in Int
      /\ Period[id] \in Nat /\ Period[id] <= ClockMod \div 2 /\ ClockMod \div 2 \in Nat
    BY ScheduleFacts DEF SchedInv
<1>3. \A e \in Task : /\ Counted[e] \in Int /\ Counted[e] <= ClockMod \div 2
                      /\ (clock + Counted[e]) % ClockMod = due[e]
    BY CountedMeans
<1>4. /\ Counted \in [Task -> Int]
      /\ due \in [Task -> 0 .. ClockMod - 1]
    <2>1. DOMAIN Counted = Task /\ Counted = [e \in Task |-> Counted[e]]
        BY DEF Counted
    <2>. QED  BY <1>3, <2>1 DEF SchedInv
<1>. HIDE DEF Counted
<1>5. (due[id] + Period[id]) % ClockMod = (clock + (Counted[id] + Period[id])) % ClockMod
    <2>1. clock + Counted[id] \in Int
        BY <1>2, <1>3
    <2>2. (due[id] + Period[id]) % ClockMod = ((clock + Counted[id]) + Period[id]) % ClockMod
        <3>1. Period[id] \in Int /\ due[id] = (clock + Counted[id]) % ClockMod
            BY <1>2, <1>3
        <3>2. \A x, y \in Int : ((x % ClockMod) + y) % ClockMod = (x + y) % ClockMod
            BY <1>2, ModSum
        <3>. QED  BY <2>1, <3>1, <3>2, Zenon
    <2>3. (clock + Counted[id]) + Period[id] = clock + (Counted[id] + Period[id])
        <3>1. clock \in Int /\ Counted[id] \in Int /\ Period[id] \in Int
            BY <1>2, <1>3
        <3>2. \A x, y, z \in Int : (x + y) + z = x + (y + z)
            OBVIOUS
        <3>. QED  BY <3>1, <3>2, Zenon
    <2>. QED  BY <2>2, <2>3
<1>6. (due[id] + Period[id]) % ClockMod \in 0 .. ClockMod - 1
    BY <1>2, <1>4, ModOf
<1>7. remaining_time' \in [Task -> Int] /\ due' \in [Task -> 0 .. ClockMod - 1]
    BY <1>1, <1>2, <1>3, <1>4, <1>6
<1>8. ASSUME NEW e \in Task
      PROVE  /\ remaining_time'[e] <= ClockMod \div 2
             /\ (last_runtime' + remaining_time'[e]) % ClockMod = due'[e]
    <2>1. CASE e = id
        BY <1>1, <1>2, <1>3, <1>4, <1>5, <2>1
    <2>2. CASE e # id
        BY <1>1, <1>3, <1>4, <2>2
    <2>. QED  BY <2>1, <2>2
<1>. QED  BY <1>1, <1>7, <1>8 DEF SchedInv

LEMMA IdlesKeeps == ASSUME SchedInv, Idles PROVE SchedInv'
<1>1. clock' = clock /\ last_runtime' = clock /\ remaining_time' = Counted /\ due' = due
    BY DEF Idles
<1>2. Counted \in [Task -> Int]
    <2>1. Counted = [e \in Task |-> Counted[e]]
        BY DEF Counted
    <2>. QED  BY <2>1, CountedMeans
<1>. QED  BY <1>1, <1>2, CountedMeans DEF SchedInv

LEMMA SchedStep == SchedInv /\ [SchedNext]_schedVars => SchedInv'
<1>. SUFFICES ASSUME SchedInv, [SchedNext]_schedVars PROVE SchedInv'
    OBVIOUS
<1>1. ASSUME NEW id \in Task, NEW d, Calls(id, d) PROVE SchedInv'
    BY <1>1, CallsKeeps
<1>2. CASE Idles
    BY <1>2, IdlesKeeps
<1>3. CASE TimePasses
    <2>1. (clock + 1) % ClockMod \in 0 .. ClockMod - 1
        BY ScheduleFacts, ModOf DEF SchedInv
    <2>. QED  BY <1>3, <2>1 DEF TimePasses, SchedInv
<1>4. CASE UNCHANGED schedVars
    BY <1>4 DEF schedVars, SchedInv
<1>. QED  BY <1>1, <1>2, <1>3, <1>4 DEF SchedNext

\* The remaining times agree with the times that are due in every state of
\* every schedule, also one that overruns for good, and across every wrap of
\* millis().
THEOREM SchedInvariant == SchedSpec => []SchedInv
BY InitSched, SchedStep, PTL DEF SchedSpec

\* How late a task is at a time m from now when it is due a time c from now.
LEMMA LateIs ==
    ASSUME NEW id \in Task, NEW m \in Int, NEW c \in Int, NEW now \in Int,
           ClockMod \in Nat, 0 < m, m <= c, c <= ClockMod \div 2,
           due[id] = (now + c) % ClockMod
    PROVE  Late(id, (now + m) % ClockMod) = m - c
<1>. DEFINE h == ClockMod \div 2
            e == ((now + m) % ClockMod) - due[id]
<1>1. h \in Nat /\ 2 * h <= ClockMod /\ c <= h
    OBVIOUS
<1>. HIDE DEF h
<1>2. ClockMod > 0
    BY <1>1
<1>3. e % ClockMod = (m - c) % ClockMod
    <2>. DEFINE a == now + m
                b == now + c
                s == a % ClockMod
    <2>1. a \in Int /\ b \in Int /\ a - b = m - c
        OBVIOUS
    <2>. HIDE DEF a, b
    <2>2. s \in Int
        BY <1>2, <2>1, ModOf
    <2>3. \A x, y \in Int : (x - (y % ClockMod)) % ClockMod = (x - y) % ClockMod
        BY <1>2, ModDiff
    <2>4. \A x, y \in Int : ((x % ClockMod) + y) % ClockMod = (x + y) % ClockMod
        BY <1>2, ModSum
    <2>5. (s - (b % ClockMod)) % ClockMod = (s - b) % ClockMod
        BY <2>1, <2>2, <2>3, Zenon
    <2>6. (s + (-b)) % ClockMod = (a + (-b)) % ClockMod
        <3>1. -b \in Int
            BY <2>1
        <3>. QED  BY <2>1, <2>4, <3>1, Zenon
    <2>7. s - b = s + (-b) /\ a + (-b) = m - c
        <3>. HIDE DEF s
        <3>. QED  BY <2>1, <2>2
    <2>8. (s - (b % ClockMod)) % ClockMod = (m - c) % ClockMod
        BY <2>5, <2>6, <2>7, Zenon
    <2>. QED  BY <2>8, Zenon DEF a, b
<1>4. Late(id, (now + m) % ClockMod)
        = IF e % ClockMod < ClockMod \div 2 THEN e % ClockMod ELSE (e % ClockMod) - ClockMod
    BY Zenon DEF Late
<1>. HIDE DEF e
<1>5. CASE m = c
    <2>1. 0 \in 0 .. ClockMod - 1 /\ m - c = 0 * ClockMod + 0 /\ m - c \in Int /\ 0 \in Int
        BY <1>2, <1>5
    <2>2. (m - c) % ClockMod = 0
        BY <1>2, <2>1, ModIs
    <2>3. 0 < h /\ m - c = 0
        BY <1>1, <1>5
    <2>4. e % ClockMod = 0
        BY <1>3, <2>2
    <2>. QED  BY <1>4, <2>3, <2>4 DEF h
<1>6. CASE m < c
    <2>. DEFINE r == m - c + ClockMod
    <2>1. r \in 0 .. ClockMod - 1 /\ m - c = (-1) * ClockMod + r /\ m - c \in Int /\ -1 \in Int
        BY <1>1, <1>6
    <2>2. ~ (r < h) /\ r - ClockMod = m - c
        BY <1>1, <1>6
    <2>. HIDE DEF r
    <2>3. (m - c) % ClockMod = r
        BY <1>2, <2>1, ModIs
    <2>4. e % ClockMod = r
        BY <1>3, <2>3
    <2>. QED  BY <1>4, <2>2, <2>4, Zenon DEF h
<1>. QED  BY <1>5, <1>6

LEMMA LeastNat ==
    ASSUME NEW T \in SUBSET Nat, T # {}
    PROVE  \E n \in T : \A m \in T : n <= m
<1>1. PICK n \in T : \A m \in T : <<m, n>> \notin OpToRel(<, Nat)
    BY NatLessThanWellFounded, WFMin, Zenon
<1>2. \A m \in T : ~ (m < n)
    BY <1>1, Zenon DEF OpToRel
<1>. QED  BY <1>2

\* The loop idles as long as the task that is due first has left.
LEMMA IdleTimeIs ==
    ASSUME SchedInv, Idles
    PROVE  \E first \in Task : /\ busy' = Counted[first] /\ Counted[first] > 0
                               /\ \A id \in Task : Counted[first] <= Counted[id]
<1>1. \A id \in Task : Counted[id] \in Int /\ Counted[id] > 0
    <2>1. \A id \in Task : Counted[id] \in Int /\ ~ (Counted[id] <= 0)
        BY CountedMeans DEF Idles, Ready
    <2>. QED  BY <2>1
<1>2. PICK first \in Task : \A id \in Task : Counted[first] <= Counted[id]
    <2>. DEFINE T == {Counted[id] : id \in Task}
    <2>1. T \in SUBSET Nat /\ T # {}
        <3>1. \A id \in Task : Counted[id] \in Nat
            BY <1>1
        <3>2. Task # {}
            BY ScheduleFacts
        <3>. HIDE DEF Task, Counted
        <3>. QED  BY <3>1, <3>2
    <2>2. PICK t \in T : \A s \in T : t <= s
        <3>. HIDE DEF T
        <3>. QED  BY <2>1, LeastNat
    <2>. QED  BY <2>2
<1>3. \A t \in {Counted[id] : id \in Task} :
            (\A id \in Task : t <= Counted[id]) <=> t = Counted[first]
    BY <1>1, <1>2
<1>4. idle_time = Counted[first]
    BY <1>3 DEF idle_time
<1>. QED  BY <1>1, <1>2, <1>4 DEF Idles

\* Idling ends at the first time a task is due, for every schedule and every
\* width of the clock (Scheduler_Dispatch's idle_time).
THEOREM IdlesUntilRelease == SchedSpec => SleepsToNextRelease
<1>. DEFINE end == (clock + busy') % ClockMod
<1>1. ASSUME SchedInv, Idles
      PROVE  /\ \A id \in Task : Late(id, end) <= 0
             /\ \E id \in Task : Late(id, end) = 0
    <2>1. \A id \in Task : /\ Counted[id] \in Int /\ Counted[id] <= ClockMod \div 2
                           /\ (clock + Counted[id]) % ClockMod = due[id]
        BY <1>1, CountedMeans
    <2>2. /\ ClockMod \in Nat /\ ClockMod > 0
          /\ ClockMod \div 2 \in Nat /\ 2 * (ClockMod \div 2) <= ClockMod /\ clock \in Int
        BY <1>1, ScheduleFacts DEF SchedInv
    <2>3. PICK first \in Task : /\ busy' = Counted[first] /\ Counted[first] > 0
                               /\ \A id \in Task : Counted[first] <= Counted[id]
        BY <1>1, IdleTimeIs
    <2>4. busy' = Counted[first]
        BY <2>3
    <2>. DEFINE m == Counted[first]
    <2>5. ASSUME NEW id \in Task
          PROVE  Late(id, end) = m - Counted[id]
        <3>1. /\ Counted[id] \in Int /\ Counted[first] \in Int /\ Counted[first] > 0
              /\ Counted[first] <= Counted[id] /\ Counted[id] <= ClockMod \div 2
              /\ due[id] = (clock + Counted[id]) % ClockMod
            BY <2>1, <2>3
        <3>. QED  BY <2>2, <2>4, <3>1, LateIs
    <2>6. \A id \in Task : m - Counted[id] <= 0
        BY <2>1, <2>3
    <2>7. m - Counted[first] = 0
        BY <2>1
    <2>. HIDE DEF end, m
    <2>. QED  BY <2>5, <2>6, <2>7
<1>2. SchedInv /\ [SchedNext]_schedVars =>
        [Idles => LET e == (clock + busy') % ClockMod
                  IN  /\ \A id \in Task : Late(id, e) <= 0
                      /\ \E id \in Task : Late(id, e) = 0]_schedVars
    BY <1>1
<1>. QED  BY <1>2, SchedInvariant, PTL DEF SchedSpec, SleepsToNextRelease

-----------------------------------------------------------------------------
(* Schedules that fit.                                                      *)

Longest(id) == Max(Duration[id])

OneOf(T) == CHOOSE id \in T : TRUE

TurnsStep(w) ==
    [T \in SUBSET Task |-> IF T = {} THEN 0 ELSE Longest(OneOf(T)) + w[T \ {OneOf(T)}]]

\* How long one run of each task of a set takes, at most.
Turns == CHOOSE w : w = TurnsStep(w)

LEMMA FitsMeans ==
    ASSUME Fits
    PROVE  \A id \in Task : /\ Longest(id) \in Nat
                            /\ \A d \in Duration[id] : d \in Nat /\ d <= Longest(id)
                            /\ Turns[Task] < Period[id]
<1>1. \A id \in Task : Turns[Task] < Period[id]
    <2>1. LET longest(id) == Max(Duration[id])
          IN  MapThenSumSet(longest, Task) = Turns[Task]
        BY Zenon DEF MapThenSumSet, MapThenFoldSet, Turns, TurnsStep, OneOf, Longest
    <2>. QED  BY <2>1, Zenon DEF Fits
<1>2. ASSUME NEW id \in Task
      PROVE  Longest(id) \in Nat /\ \A d \in Duration[id] : d \in Nat /\ d <= Longest(id)
    <2>1. Duration[id] \subseteq Nat /\ \E d \in Duration[id] : \A e \in Duration[id] : e <= d
        BY ScheduleAssumption DEF Fits
    <2>2. Longest(id) \in Duration[id] /\ \A e \in Duration[id] : Longest(id) >= e
        BY <2>1 DEF Longest, Max
    <2>. QED  BY <2>1, <2>2
<1>. QED  BY <1>1, <1>2

\* w is Turns on the sets of up to n tasks.
Sums(n, w) ==
    /\ w \in [SUBSET Task -> Nat]
    /\ \A T \in SUBSET Task : Cardinality(T) <= n => w[T] = TurnsStep(w)[T]

LEMMA TaskSets ==
    /\ \A T \in SUBSET Task : IsFiniteSet(T) /\ Cardinality(T) \in Nat
    /\ \A T \in SUBSET Task : \A id \in T : /\ T \ {id} \in SUBSET Task
                                            /\ Cardinality(T \ {id}) = Cardinality(T) - 1
    /\ \A T \in SUBSET Task : T # {} => OneOf(T) \in T
    /\ \A T \in SUBSET Task : Cardinality(T) <= Cardinality(Task)
<1>1. IsFiniteSet(Task)
    <2>1. CASE MAXTASKS >= 1
        <3>1. MAXTASKS - 1 \in Int /\ Task \subseteq 0 .. MAXTASKS - 1
            BY ScheduleAssumption DEF Task
        <3>2. IsFiniteSet(0 .. MAXTASKS - 1)
            BY <3>1, FS_Interval
        <3>. HIDE DEF Task
        <3>. QED  BY <3>1, <3>2, FS_Subset
    <2>2. CASE ~ (MAXTASKS >= 1)
        <3>1. Task = {}
            BY <2>2, ScheduleAssumption DEF Task
        <3>. QED  BY <3>1, FS_EmptySet
    <2>. QED  BY <2>1, <2>2
<1>. HIDE DEF Task
<1>2. \A T \in SUBSET Task : IsFiniteSet(T) /\ Cardinality(T) \in Nat /\ Cardinality(T) <= Cardinality(Task)
    BY <1>1, FS_Subset, FS_CardinalityType
<1>3. ASSUME NEW T \in SUBSET Task, NEW id \in T
      PROVE  T \ {id} \in SUBSET Task /\ Cardinality(T \ {id}) = Cardinality(T) - 1
    BY <1>2, FS_RemoveElement
<1>4. \A T \in SUBSET Task : T # {} => OneOf(T) \in T
    BY DEF OneOf
<1>. QED  BY <1>2, <1>3, <1>4

LEMMA SumsExist == ASSUME Fits, NEW n \in Nat PROVE \E w : Sums(n, w)
<1>. DEFINE Bad == {m \in Nat : ~ \E w : Sums(m, w)}
<1>1. \A id \in Task : Longest(id) \in Nat
    BY FitsMeans
<1>. HIDE DEF Task
<1>2. ASSUME NEW m \in Nat, NEW w, w \in [SUBSET Task -> Nat], m > 0 => Sums(m - 1, w)
      PROVE  Sums(m, TurnsStep(w))
    <2>. DEFINE v == TurnsStep(w)
    <2>1. \A T \in SUBSET Task : T # {} => /\ OneOf(T) \in Task
                                           /\ T \ {OneOf(T)} \in SUBSET Task
                                           /\ Cardinality(T \ {OneOf(T)}) = Cardinality(T) - 1
        BY TaskSets
    <2>2. v \in [SUBSET Task -> Nat]
        <3>1. \A T \in SUBSET Task : T # {} => Longest(OneOf(T)) + w[T \ {OneOf(T)}] \in Nat
            <4>. SUFFICES ASSUME NEW T \in SUBSET Task, T # {}
                          PROVE  Longest(OneOf(T)) + w[T \ {OneOf(T)}] \in Nat
                OBVIOUS
            <4>1. OneOf(T) \in Task /\ T \ {OneOf(T)} \in SUBSET Task
                BY <2>1
            <4>2. Longest(OneOf(T)) \in Nat /\ w[T \ {OneOf(T)}] \in Nat
                <5>. HIDE DEF Longest, OneOf
                <5>. QED  BY <1>1, <1>2, <4>1
            <4>. QED  BY <4>2
        <3>. HIDE DEF Longest, OneOf
        <3>. QED  BY <3>1 DEF TurnsStep
    <2>3. ASSUME NEW T \in SUBSET Task, Cardinality(T) <= m
          PROVE  v[T] = TurnsStep(v)[T]
        <3>1. CASE T = {}
            BY <3>1 DEF TurnsStep
        <3>2. CASE T # {}
            <4>. DEFINE R == T \ {OneOf(T)}
            <4>1. R \in SUBSET Task /\ Cardinality(R) \in Nat /\ Cardinality(R) = Cardinality(T) - 1
                BY <2>1, <3>2, TaskSets
            <4>2. m > 0 /\ Cardinality(R) <= m - 1
                BY <2>3, <4>1, TaskSets
            <4>3. w[R] = TurnsStep(w)[R]
                BY <1>2, <4>1, <4>2 DEF Sums
            <4>4. /\ v[T] = Longest(OneOf(T)) + w[R]
                  /\ TurnsStep(v)[T] = Longest(OneOf(T)) + v[R]
                BY <3>2 DEF TurnsStep
            <4>. QED  BY <4>3, <4>4
        <3>. QED  BY <3>1, <3>2
    <2>. QED  BY <2>2, <2>3 DEF Sums
<1>3. ASSUME Bad # {} PROVE FALSE
    <2>1. PICK m \in Bad : \A k \in Bad : m <= k
        <3>1. Bad \in SUBSET Nat
            OBVIOUS
        <3>. HIDE DEF Bad
        <3>. QED  BY <1>3, <3>1, LeastNat
    <2>2. m \in Nat /\ ~ \E w : Sums(m, w)
        BY <2>1
    <2>3. CASE m = 0
        <3>. DEFINE z == [T \in SUBSET Task |-> 0]
        <3>1. z \in [SUBSET Task -> Nat]
            OBVIOUS
        <3>2. ~ (m > 0)
            BY <2>3
        <3>3. Sums(m, TurnsStep(z))
            BY <1>2, <2>2, <3>1, <3>2
        <3>. QED  BY <2>2, <3>3
    <2>4. CASE m > 0
        <3>1. m - 1 \in Nat /\ ~ (m <= m - 1)
            BY <2>2, <2>4
        <3>2. m - 1 \notin Bad
            BY <2>1, <3>1
        <3>3. PICK w : Sums(m - 1, w)
            BY <3>1, <3>2
        <3>4. w \in [SUBSET Task -> Nat]
            BY <3>3 DEF Sums
        <3>5. Sums(m, TurnsStep(w))
            BY <1>2, <2>2, <3>3, <3>4
        <3>. QED  BY <2>2, <3>5
    <2>. QED  BY <2>2, <2>3, <2>4
<1>. QED  BY <1>3

\* Turns is the sum it is said to be, in whatever order the tasks are taken.
LEMMA TurnsAdd ==
    ASSUME Fits
    PROVE  /\ Turns \in [SUBSET Task -> Nat]
           /\ \A T \in SUBSET Task : \A id \in T : Turns[T] = Longest(id) + Turns[T \ {id}]
<1>0. \A id \in Task : Longest(id) \in Nat
    BY FitsMeans
<1>. HIDE DEF Task
<1>1. PICK w : Sums(Cardinality(Task), w)
    BY SumsExist, TaskSets
<1>2. w = TurnsStep(w)
    <2>1. w \in [SUBSET Task -> Nat] /\ \A T \in SUBSET Task : w[T] = TurnsStep(w)[T]
        BY <1>1, TaskSets DEF Sums
    <2>2. /\ DOMAIN TurnsStep(w) = SUBSET Task
          /\ TurnsStep(w) = [T \in SUBSET Task |-> TurnsStep(w)[T]]
        BY DEF TurnsStep
    <2>. QED  BY <2>1, <2>2
<1>3. Turns = TurnsStep(Turns)
    BY <1>2, Zenon DEF Turns
<1>4. /\ \A T \in SUBSET Task : T # {} => Turns[T] = Longest(OneOf(T)) + Turns[T \ {OneOf(T)}]
      /\ Turns[{}] = 0 /\ DOMAIN Turns = SUBSET Task
    <2>1. DOMAIN TurnsStep(Turns) = SUBSET Task
        BY DEF TurnsStep
    <2>2. \A T \in SUBSET Task : TurnsStep(Turns)[T] =
                IF T = {} THEN 0 ELSE Longest(OneOf(T)) + Turns[T \ {OneOf(T)}]
        BY DEF TurnsStep
    <2>. QED  BY <1>3, <2>1, <2>2
<1>. HIDE DEF Turns, Longest
<1>. DEFINE Adds(T) == /\ Turns[T] \in Nat
                       /\ \A id \in T : Turns[T] = Longest(id) + Turns[T \ {id}]
            Bad == {n \in Nat : \E T \in SUBSET Task : Cardinality(T) = n /\ ~ Adds(T)}
<1>5. ASSUME Bad # {} PROVE FALSE
    <2>1. PICK n \in Bad : \A k \in Bad : n <= k
        <3>1. Bad \in SUBSET Nat
            OBVIOUS
        <3>. HIDE DEF Bad
        <3>. QED  BY <1>5, <3>1, LeastNat
    <2>2. PICK T \in SUBSET Task : Cardinality(T) = n /\ ~ Adds(T)
        BY <2>1
    <2>. HIDE DEF Adds
    <2>3. ASSUME NEW R \in SUBSET Task, Cardinality(R) < n PROVE Adds(R)
        <3>1. Cardinality(R) \in Nat /\ ~ (n <= Cardinality(R))
            BY <2>1, <2>3, TaskSets
        <3>. QED  BY <2>1, <3>1
    <2>4. T # {}
        <3>1. Turns[{}] \in Nat /\ \A id \in {} : FALSE
            BY <1>4
        <3>. QED  BY <2>2, <3>1, Zenon DEF Adds
    <2>. DEFINE x == OneOf(T)
    <2>5. x \in T /\ x \in Task /\ Turns[T] = Longest(x) + Turns[T \ {x}]
        BY <1>4, <2>4, TaskSets
    <2>. HIDE DEF x
    <2>6. \A id \in T : Adds(T \ {id})
        <3>1. \A id \in T : /\ T \ {id} \in SUBSET Task
                            /\ Cardinality(T \ {id}) = Cardinality(T) - 1
            BY TaskSets
        <3>2. n \in Nat
            BY <2>1
        <3>. QED  BY <2>2, <2>3, <3>1, <3>2
    <2>7. \A id \in T : Turns[T \ {id}] \in Nat
        BY <2>6 DEF Adds
    <2>8. ASSUME NEW id \in T, id # x PROVE Turns[T] = Longest(id) + Turns[T \ {id}]
        <3>1. Turns[T \ {x}] = Longest(id) + Turns[(T \ {x}) \ {id}]
            BY <2>5, <2>6, <2>8 DEF Adds
        <3>2. Turns[T \ {id}] = Longest(x) + Turns[(T \ {id}) \ {x}]
            BY <2>5, <2>6, <2>8 DEF Adds
        <3>3. (T \ {x}) \ {id} = (T \ {id}) \ {x}
            OBVIOUS
        <3>4. (T \ {x}) \ {id} \in SUBSET Task /\ Turns[(T \ {x}) \ {id}] \in Nat
            <4>1. (T \ {x}) \ {id} \in SUBSET Task
                OBVIOUS
            <4>2. Cardinality((T \ {x}) \ {id}) < n
                <5>1. T \ {x} \in SUBSET Task /\ Cardinality(T \ {x}) = Cardinality(T) - 1
                    BY <2>5, TaskSets
                <5>2. Cardinality((T \ {x}) \ {id}) = Cardinality(T \ {x}) - 1
                    BY <2>8, <5>1, TaskSets
                <5>3. n \in Nat
                    BY <2>1
                <5>. QED  BY <2>2, <5>1, <5>2, <5>3
            <4>. QED  BY <2>3, <4>1, <4>2 DEF Adds
        <3>5. Longest(id) \in Nat /\ Longest(x) \in Nat
            BY <1>0, <2>5
        <3>. DEFINE a == Longest(id)
                    b == Longest(x)
                    c == Turns[(T \ {x}) \ {id}]
        <3>6. a \in Nat /\ b \in Nat /\ c \in Nat
            BY <3>4, <3>5
        <3>7. Turns[T] = b + (a + c) /\ a + Turns[T \ {id}] = a + (b + c)
            BY <2>5, <3>1, <3>2, <3>3, Zenon
        <3>. HIDE DEF a, b, c
        <3>8. Turns[T] = a + Turns[T \ {id}]
            BY <3>6, <3>7
        <3>. QED  BY <3>8 DEF a
    <2>9. Turns[T] \in Nat
        <3>. DEFINE a == Longest(x)
                    c == Turns[T \ {x}]
        <3>1. a \in Nat /\ c \in Nat /\ Turns[T] = a + c
            BY <1>0, <2>5, <2>7
        <3>. HIDE DEF a, c
        <3>. QED  BY <3>1
    <2>. QED  BY <2>2, <2>5, <2>8, <2>9 DEF Adds
<1>6. \A T \in SUBSET Task : Adds(T)
    BY <1>5, TaskSets
<1>7. Turns = [T \in SUBSET Task |-> Turns[T]]
    <2>1. DOMAIN TurnsStep(Turns) = SUBSET Task /\ TurnsStep(Turns) = [T \in SUBSET Task |-> TurnsStep(Turns)[T]]
        BY DEF TurnsStep
    <2>. QED  BY <1>3, <2>1
<1>. QED  BY <1>6, <1>7

\* What is left of the processor's busy period: waiting is the set of the tasks
\* that have not run in it, and age how long it is old when the one that runs
\* has ended.  Each task runs once in it, so it ends before any is due again.
FitInv ==
    /\ busy \in Nat /\ elapsed + busy < ClockMod
    /\ \A id \in Task : remaining_time[id] <= Delay[id] + Period[id]
    /\ \E waiting \in SUBSET Task, age \in Nat :
            /\ age + Turns[waiting] <= Turns[Task]
            /\ \A id \in Task :
                    Counted[id] - busy >= (IF id \in waiting THEN 0 ELSE Period[id]) - age

LEMMA InitFits == ASSUME Fits, SchedInit PROVE FitInv
<1>1. /\ clock = 0 /\ last_runtime = 0 /\ busy = 0
      /\ \A id \in Task : remaining_time[id] = Delay[id]
    BY DEF SchedInit
<1>2. elapsed = 0 /\ ClockMod > 0
    BY <1>1, ScheduleFacts DEF elapsed
<1>3. \A id \in Task : Counted[id] = Delay[id]
    BY <1>1, <1>2, ScheduleFacts DEF Counted
<1>4. Task \in SUBSET Task /\ Turns[Task] \in Nat /\ 0 \in Nat
    BY TurnsAdd
<1>. HIDE DEF Task
<1>5. \A id \in Task : /\ remaining_time[id] <= Delay[id] + Period[id]
                       /\ Counted[id] - busy >= (IF id \in Task THEN 0 ELSE Period[id]) - 0
    BY <1>1, <1>3, ScheduleFacts
<1>6. 0 + Turns[Task] <= Turns[Task] /\ busy \in Nat /\ elapsed + busy < ClockMod
    BY <1>1, <1>2, <1>4
<1>. QED  BY <1>4, <1>5, <1>6 DEF FitInv

LEMMA CallsFits ==
    ASSUME Fits, SchedInv, FitInv, NEW id \in Task, NEW d \in Duration[id], Calls(id, d)
    PROVE  FitInv'
<1>1. /\ clock' = clock /\ last_runtime' = clock /\ busy = 0 /\ busy' = d
      /\ remaining_time' = [Counted EXCEPT ![id] = Counted[id] + Period[id]]
      /\ Counted[id] <= 0
    BY DEF Calls, NextRemaining, Ready
<1>2. \A e \in Task : Counted[e] \in Int /\ Counted[e] <= remaining_time[e]
    <2>1. elapsed \in Nat /\ \A e \in Task : remaining_time[e] \in Int
        BY CountedMeans DEF SchedInv
    <2>. HIDE DEF Task, elapsed
    <2>. QED  BY <2>1 DEF Counted
<1>3. elapsed' = 0
    <2>1. clock \in Int /\ ClockMod \in Nat /\ ClockMod > 0
        BY ScheduleFacts DEF SchedInv
    <2>. QED  BY <1>1, <2>1 DEF elapsed
<1>4. PICK waiting \in SUBSET Task, age \in Nat :
            /\ age + Turns[waiting] <= Turns[Task]
            /\ \A e \in Task :
                    Counted[e] - busy >= (IF e \in waiting THEN 0 ELSE Period[e]) - age
    BY Zenon DEF FitInv
<1>5. /\ \A e \in Task : Longest(e) \in Nat /\ Turns[Task] < Period[e]
      /\ d \in Nat /\ d <= Longest(id)
    BY FitsMeans
<1>6. /\ \A T \in SUBSET Task : Turns[T] \in Nat
      /\ \A T \in SUBSET Task : \A e \in T : Turns[T] = Longest(e) + Turns[T \ {e}]
    BY TurnsAdd
<1>7. /\ \A e \in Task : /\ Period[e] \in Nat /\ Period[e] <= ClockMod \div 2
                         /\ Delay[e] \in Nat
      /\ ClockMod \div 2 \in Nat /\ 2 * (ClockMod \div 2) <= ClockMod /\ ClockMod \in Nat
    BY ScheduleFacts
<1>8. DOMAIN Counted = Task
    BY DEF Counted
<1>9. \A e \in Task : remaining_time[e] <= Delay[e] + Period[e]
    BY DEF FitInv
<1>. HIDE DEF Task, Counted, Turns, Longest
<1>10. id \in waiting
    <2>1. Turns[waiting] \in Nat /\ Turns[Task] \in Nat
        BY <1>6
    <2>2. age <= Turns[Task] /\ Turns[Task] < Period[id] /\ Period[id] \in Nat
        BY <1>4, <1>5, <1>7, <2>1
    <2>3. Counted[id] - 0 >= (IF id \in waiting THEN 0 ELSE Period[id]) - age
        BY <1>1, <1>4
    <2>4. Counted[id] \in Int
        BY <1>2
    <2>. QED  BY <1>1, <2>1, <2>2, <2>3, <2>4
<1>. DEFINE left == waiting \ {id}
<1>11. (age + d) + Turns[left] <= Turns[Task] /\ age + d \in Nat /\ left \in SUBSET Task
    <2>1. Turns[waiting] = Longest(id) + Turns[left] /\ left \in SUBSET Task
        BY <1>6, <1>10
    <2>2. Turns[left] \in Nat /\ Turns[Task] \in Nat /\ Longest(id) \in Nat
        BY <1>5, <1>6, <2>1
    <2>. HIDE DEF left
    <2>. QED  BY <1>4, <1>5, <2>1, <2>2
<1>12. \A e \in Task : Counted'[e] = remaining_time'[e]
    <2>1. Counted' = [e \in Task |-> remaining_time'[e] - 0]
        BY <1>3 DEF Counted
    <2>2. \A e \in Task : remaining_time'[e] \in Int
        BY <1>1, <1>2, <1>7, <1>8
    <2>. QED  BY <2>1, <2>2
<1>13. \A e \in Task : /\ e # id => remaining_time'[e] = Counted[e]
                       /\ e = id => remaining_time'[e] = Counted[e] + Period[e]
    BY <1>1, <1>8
<1>14. ASSUME NEW e \in Task
       PROVE  /\ remaining_time'[e] <= Delay[e] + Period[e]
              /\ Counted'[e] - d >= (IF e \in left THEN 0 ELSE Period[e]) - (age + d)
    <2>1. /\ Counted[e] \in Int /\ Period[e] \in Nat /\ Delay[e] \in Nat
          /\ Counted[e] <= Delay[e] + Period[e]
          /\ Counted[e] >= (IF e \in waiting THEN 0 ELSE Period[e]) - age
        <3>1. Counted[e] - 0 >= (IF e \in waiting THEN 0 ELSE Period[e]) - age
            BY <1>1, <1>4
        <3>2. /\ Counted[e] \in Int /\ remaining_time[e] \in Int /\ Counted[e] <= remaining_time[e]
              /\ Period[e] \in Nat /\ Delay[e] \in Nat
              /\ remaining_time[e] <= Delay[e] + Period[e]
            BY <1>2, <1>7, <1>9 DEF SchedInv
        <3>. QED  BY <3>1, <3>2
    <2>2. CASE e = id
        <3>1. e \in waiting /\ e \notin left
            BY <1>10, <2>2
        <3>2. Counted[e] <= 0 /\ remaining_time'[e] = Counted[e] + Period[e]
            BY <1>1, <1>13, <2>2
        <3>. HIDE DEF left
        <3>. QED  BY <1>5, <1>12, <2>1, <3>1, <3>2
    <2>3. CASE e # id
        <3>1. (e \in waiting) <=> (e \in left)
            BY <2>3
        <3>2. remaining_time'[e] = Counted[e]
            BY <1>13, <2>3
        <3>. HIDE DEF left
        <3>. QED  BY <1>5, <1>12, <2>1, <3>1, <3>2
    <2>. QED  BY <2>2, <2>3
<1>15. busy' \in Nat /\ elapsed' + busy' < ClockMod
    <2>1. Turns[Task] = Longest(id) + Turns[Task \ {id}] /\ Turns[Task \ {id}] \in Nat
        BY <1>6
    <2>2. Turns[Task] < Period[id] /\ Period[id] \in Nat /\ Period[id] <= ClockMod \div 2
        BY <1>5, <1>7
    <2>. QED  BY <1>1, <1>3, <1>5, <1>7, <2>1, <2>2
<1>. HIDE DEF left
<1>16. \E w \in SUBSET Task, a \in Nat :
            /\ a + Turns[w] <= Turns[Task]
            /\ \A e \in Task : Counted'[e] - busy' >= (IF e \in w THEN 0 ELSE Period[e]) - a
    <2>1. \A e \in Task : Counted'[e] - busy' >= (IF e \in left THEN 0 ELSE Period[e]) - (age + d)
        BY <1>1, <1>14
    <2>. QED  BY <1>11, <2>1
<1>17. Task' = Task /\ Turns' = Turns
    BY DEF Task, Turns, TurnsStep, Longest
<1>. QED  BY <1>14, <1>15, <1>16, <1>17 DEF FitInv

LEMMA IdlesFits == ASSUME Fits, SchedInv, FitInv, Idles PROVE FitInv'
<1>1. /\ clock' = clock /\ last_runtime' = clock
      /\ remaining_time' = Counted
    BY DEF Idles
<1>2. PICK first \in Task : /\ busy' = Counted[first] /\ Counted[first] > 0
                            /\ \A id \in Task : Counted[first] <= Counted[id]
    BY IdleTimeIs
<1>3. \A e \in Task : /\ Counted[e] \in Int /\ Counted[e] <= ClockMod \div 2
                      /\ Counted[e] <= remaining_time[e]
    <2>1. elapsed \in Nat /\ \A e \in Task : remaining_time[e] \in Int
        BY CountedMeans DEF SchedInv
    <2>2. \A e \in Task : Counted[e] = remaining_time[e] - elapsed
        BY DEF Counted
    <2>. HIDE DEF Task, elapsed, Counted
    <2>. QED  BY <2>1, <2>2, CountedMeans
<1>4. elapsed' = 0
    <2>1. clock \in Int /\ ClockMod \in Nat /\ ClockMod > 0
        BY ScheduleFacts DEF SchedInv
    <2>. QED  BY <1>1, <2>1 DEF elapsed
<1>5. \A e \in Task : Counted'[e] = Counted[e]
    <2>1. Counted' = [e \in Task |-> remaining_time'[e] - 0]
        BY <1>4 DEF Counted
    <2>2. \A e \in Task : remaining_time'[e] - 0 = Counted[e]
        <3>. HIDE DEF Counted, Task
        <3>. QED  BY <1>1, <1>3
    <2>. QED  BY <2>1, <2>2
<1>6. Task \in SUBSET Task /\ Turns[Task] \in Nat /\ 0 + Turns[Task] <= Turns[Task]
    BY TurnsAdd
<1>7. \A e \in Task : remaining_time[e] <= Delay[e] + Period[e] /\ Delay[e] \in Nat /\ Period[e] \in Nat
    BY ScheduleFacts DEF FitInv
<1>8. /\ ClockMod \div 2 \in Nat /\ 2 * (ClockMod \div 2) <= ClockMod
      /\ ClockMod \in Nat /\ ClockMod >= 2
    BY ScheduleFacts
<1>9. Task' = Task /\ Turns' = Turns
    BY DEF Task, Turns, TurnsStep, Longest
<1>. HIDE DEF Task, Counted
<1>10. busy' \in Nat /\ elapsed' + busy' < ClockMod
    BY <1>2, <1>3, <1>4, <1>8
<1>11. \A e \in Task : /\ remaining_time'[e] <= Delay[e] + Period[e]
                       /\ Counted'[e] - busy' >= (IF e \in Task THEN 0 ELSE Period[e]) - 0
    <2>. SUFFICES ASSUME NEW e \in Task
                  PROVE  /\ remaining_time'[e] <= Delay[e] + Period[e]
                         /\ Counted'[e] - busy' >= 0 - 0
        OBVIOUS
    <2>1. remaining_time'[e] = Counted[e] /\ Counted'[e] = Counted[e]
        BY <1>1, <1>5
    <2>2. /\ Counted[e] \in Int /\ Counted[e] <= remaining_time[e]
          /\ busy' <= Counted[e] /\ busy' \in Int
        BY <1>2, <1>3
    <2>3. /\ remaining_time[e] \in Int /\ remaining_time[e] <= Delay[e] + Period[e]
          /\ Delay[e] \in Nat /\ Period[e] \in Nat
        BY <1>7 DEF SchedInv
    <2>. QED  BY <2>1, <2>2, <2>3
<1>12. \E w \in SUBSET Task, a \in Nat :
            /\ a + Turns[w] <= Turns[Task]
            /\ \A e \in Task : Counted'[e] - busy' >= (IF e \in w THEN 0 ELSE Period[e]) - a
    BY <1>6, <1>11
<1>. QED  BY <1>9, <1>10, <1>11, <1>12 DEF FitInv

LEMMA TimeFits == ASSUME SchedInv, FitInv, TimePasses PROVE FitInv'
<1>1. /\ busy > 0 /\ busy' = busy - 1 /\ clock' = (clock + 1) % ClockMod
      /\ last_runtime' = last_runtime /\ remaining_time' = remaining_time
    BY DEF TimePasses
<1>2. /\ ClockMod \in Nat /\ ClockMod > 0 /\ clock \in Int /\ last_runtime \in Int
      /\ \A e \in Task : remaining_time[e] \in Int
    BY ScheduleFacts DEF SchedInv
<1>3. elapsed \in Nat /\ busy \in Nat /\ elapsed + busy < ClockMod
    BY CountedMeans DEF FitInv
<1>4. elapsed' = elapsed + 1
    <2>. DEFINE x == clock + 1
                y == clock - last_runtime
    <2>1. elapsed' = ((x % ClockMod) + (- last_runtime)) % ClockMod
        <3>1. x % ClockMod \in Int
            BY <1>2, ModOf
        <3>2. (x % ClockMod) - last_runtime = (x % ClockMod) + (- last_runtime)
            <4>. DEFINE r == x % ClockMod
            <4>. HIDE DEF r
            <4>. QED  BY <1>2, <3>1
        <3>. QED  BY <1>1, <3>2 DEF elapsed
    <2>2. ((x % ClockMod) + (- last_runtime)) % ClockMod = (x + (- last_runtime)) % ClockMod
        <3>1. x \in Int /\ - last_runtime \in Int
            BY <1>2
        <3>. QED  BY <1>2, <3>1, ModSum
    <2>3. x + (- last_runtime) = y + 1 /\ y \in Int
        BY <1>2
    <2>4. (y + 1) % ClockMod = ((y % ClockMod) + 1) % ClockMod
        <3>1. y \in Int /\ 1 \in Int
            BY <2>3
        <3>. HIDE DEF y
        <3>. QED  BY <1>2, <3>1, ModSum
    <2>5. elapsed' = (elapsed + 1) % ClockMod
        BY <2>1, <2>2, <2>3, <2>4, Zenon DEF elapsed
    <2>6. (elapsed + 1) % ClockMod = elapsed + 1
        <3>1. elapsed + 1 \in 0 .. ClockMod - 1
            BY <1>1, <1>2, <1>3
        <3>. QED  BY <1>2, <3>1
    <2>. QED  BY <2>5, <2>6
<1>5. \A e \in Task : Counted'[e] - busy' = Counted[e] - busy
    <2>1. \A e \in Task : Counted'[e] = remaining_time[e] - (elapsed + 1)
        BY <1>1, <1>4 DEF Counted
    <2>2. \A e \in Task : Counted[e] = remaining_time[e] - elapsed
        BY DEF Counted
    <2>. HIDE DEF Counted, Task, elapsed
    <2>. QED  BY <1>1, <1>2, <1>3, <2>1, <2>2
<1>6. Task' = Task /\ Turns' = Turns
    BY DEF Task, Turns, TurnsStep, Longest
<1>. HIDE DEF Task, Counted, elapsed
<1>7. busy' \in Nat /\ elapsed' + busy' < ClockMod
    BY <1>1, <1>2, <1>3, <1>4
<1>. QED  BY <1>1, <1>5, <1>6, <1>7 DEF FitInv

LEMMA FitStep ==
    ASSUME Fits, SchedInv, FitInv, [SchedNext]_schedVars
    PROVE  FitInv'
<1>1. ASSUME NEW id \in Task, NEW d \in Duration[id], Calls(id, d) PROVE FitInv'
    BY <1>1, CallsFits
<1>2. CASE Idles
    BY <1>2, IdlesFits
<1>3. CASE TimePasses
    BY <1>3, TimeFits
<1>4. CASE UNCHANGED schedVars
    BY <1>4 DEF schedVars, FitInv, elapsed, Counted
<1>. QED  BY <1>1, <1>2, <1>3, <1>4 DEF SchedNext

LEMMA FitAlways == ASSUME Fits PROVE SchedSpec => [](SchedInv /\ FitInv)
<1>1. SchedInit => FitInv
    BY InitFits
<1>2. SchedInv /\ FitInv /\ [SchedNext]_schedVars => FitInv'
    BY FitStep
<1>. QED  BY <1>1, <1>2, SchedInvariant, PTL DEF SchedSpec

\* In every schedule that fits, a remaining time is never further behind than
\* its period nor further ahead than delay and period together.
THEOREM ScheduleTypeCorrect == ASSUME Fits PROVE SchedSpec => []SchedTypeOK
<1>1. ASSUME SchedInv, FitInv PROVE SchedTypeOK
    <2>1. ASSUME NEW id \in Task
          PROVE  remaining_time[id] \in 1 - Period[id] .. Delay[id] + Period[id]
        <3>1. PICK waiting \in SUBSET Task, age \in Nat :
                    /\ age + Turns[waiting] <= Turns[Task]
                    /\ \A e \in Task :
                            Counted[e] - busy >= (IF e \in waiting THEN 0 ELSE Period[e]) - age
            BY <1>1, Zenon DEF FitInv
        <3>2. Turns[waiting] \in Nat /\ Turns[Task] \in Nat /\ Turns[Task] < Period[id]
            BY TurnsAdd, FitsMeans
        <3>3. /\ elapsed \in Nat /\ busy \in Nat /\ remaining_time[id] \in Int
              /\ Counted[id] = remaining_time[id] - elapsed
            BY <1>1, CountedMeans DEF FitInv, SchedInv, Counted
        <3>4. Period[id] \in Nat /\ Delay[id] \in Nat /\ remaining_time[id] <= Delay[id] + Period[id]
            BY <1>1, ScheduleFacts DEF FitInv
        <3>5. Counted[id] - busy >= (IF id \in waiting THEN 0 ELSE Period[id]) - age
            BY <3>1
        <3>. HIDE DEF Turns, Counted, elapsed
        <3>. QED  BY <3>1, <3>2, <3>3, <3>4, <3>5
    <2>. QED  BY <1>1, <2>1 DEF SchedTypeOK, SchedInv, FitInv
<1>. QED  BY <1>1, FitAlways, PTL

LEMMA NeverLate ==
    ASSUME Fits, SchedInv, FitInv, NEW id \in Task
    PROVE  Late(id, clock) = - Counted[id] /\ - Counted[id] < Period[id]
<1>. DEFINE c == Counted[id]
            p == Period[id]
            h == ClockMod \div 2
<1>1. c \in Int /\ c <= h /\ (clock + c) % ClockMod = due[id]
    BY CountedMeans
<1>2. /\ ClockMod \in Nat /\ ClockMod > 0 /\ clock \in Int
      /\ p \in Nat /\ p <= h /\ h \in Nat /\ 2 * h <= ClockMod
    BY ScheduleFacts DEF SchedInv
<1>3. c > - p
    <2>1. PICK waiting \in SUBSET Task, age \in Nat :
                /\ age + Turns[waiting] <= Turns[Task]
                /\ \A e \in Task :
                        Counted[e] - busy >= (IF e \in waiting THEN 0 ELSE Period[e]) - age
        BY Zenon DEF FitInv
    <2>2. Turns[waiting] \in Nat /\ Turns[Task] \in Nat /\ Turns[Task] < p
        BY TurnsAdd, FitsMeans
    <2>3. c - busy >= (IF id \in waiting THEN 0 ELSE p) - age /\ busy \in Nat
        BY <2>1 DEF FitInv
    <2>. HIDE DEF Turns, c, p
    <2>. QED  BY <1>1, <1>2, <2>1, <2>2, <2>3
<1>4. (clock - due[id]) % ClockMod = (- c) % ClockMod
    <2>1. clock + c \in Int
        BY <1>1, <1>2
    <2>2. (clock - ((clock + c) % ClockMod)) % ClockMod = (clock - (clock + c)) % ClockMod
        BY <1>2, <2>1, ModDiff
    <2>. HIDE DEF c
    <2>3. clock - (clock + c) = - c
        BY <1>1, <1>2
    <2>. QED  BY <1>1, <2>2, <2>3
<1>. HIDE DEF c, p
<1>5. Late(id, clock) = - c
    <2>1. CASE c <= 0
        <3>1. - c \in 0 .. ClockMod - 1 /\ - c < h /\ - c = 0 * ClockMod + (- c)
              /\ - c \in Int /\ 0 \in Int
            BY <1>1, <1>2, <1>3, <2>1
        <3>2. (- c) % ClockMod = - c
            BY <1>2, <3>1, ModIs
        <3>. QED  BY <1>4, <3>1, <3>2 DEF Late
    <2>2. CASE c > 0
        <3>. DEFINE r == ClockMod - c
        <3>1. r \in 0 .. ClockMod - 1 /\ ~ (r < h) /\ - c = (-1) * ClockMod + r
              /\ - c \in Int /\ -1 \in Int /\ r - ClockMod = - c
            BY <1>1, <1>2, <2>2
        <3>. HIDE DEF r
        <3>2. (- c) % ClockMod = r
            BY <1>2, <3>1, ModIs
        <3>. QED  BY <1>4, <3>1, <3>2 DEF Late
    <2>. QED  BY <1>1, <2>1, <2>2
<1>6. - c < p
    BY <1>1, <1>2, <1>3
<1>. QED  BY <1>5, <1>6 DEF c, p

\* No period of any task is lost in a schedule that fits, however long its tasks
\* take: none is ever late by its period, and the next is counted from when it
\* was due (Scheduler_Dispatch, Scheduler.h:56).
THEOREM PeriodsKept == ASSUME Fits PROVE SchedSpec => EveryPeriodRuns
<1>. DEFINE Counts(id) == due'[id] # due[id] =>
                /\ Late(id, clock) >= 0
                /\ (clock + remaining_time'[id]) % ClockMod = due'[id]
<1>1. ASSUME SchedInv, SchedInv', FitInv, NEW id \in Task, NEW d, Calls(id, d),
             NEW e \in Task
      PROVE  Counts(e)
    <2>1. /\ due' = [due EXCEPT ![id] = (@ + Period[id]) % ClockMod]
          /\ Counted[id] <= 0 /\ last_runtime' = clock
        BY <1>1 DEF Calls, Ready
    <2>2. CASE e # id
        BY <1>1, <2>1, <2>2 DEF SchedInv
    <2>3. CASE e = id
        <3>1. (clock + remaining_time'[id]) % ClockMod = due'[id]
            BY <1>1, <2>1 DEF SchedInv
        <3>2. Late(id, clock) = - Counted[id] /\ Counted[id] \in Int
            BY <1>1, NeverLate, CountedMeans
        <3>. QED  BY <2>1, <2>3, <3>1, <3>2
    <2>. QED  BY <2>2, <2>3
<1>2. ASSUME NEW e \in Task, Idles \/ TimePasses PROVE Counts(e)
    BY <1>2 DEF Idles, TimePasses
<1>3. ASSUME SchedInv, FitInv, NEW e \in Task PROVE Late(e, clock) < Period[e]
    BY <1>3, NeverLate
<1>4. SchedInv /\ SchedInv' /\ FitInv /\ [SchedNext]_schedVars =>
        [\A id \in Task :
            /\ Late(id, clock) < Period[id]
            /\ due'[id] # due[id] =>
                    /\ Late(id, clock) >= 0
                    /\ (clock + remaining_time'[id]) % ClockMod = due'[id]]_schedVars
    <2>. SUFFICES ASSUME SchedInv, SchedInv', FitInv, SchedNext, NEW id \in Task
                  PROVE  Late(id, clock) < Period[id] /\ Counts(id)
        OBVIOUS
    <2>. HIDE DEF Counts
    <2>. QED  BY <1>1, <1>2, <1>3 DEF SchedNext
<1>. QED  BY <1>4, FitAlways, PTL DEF SchedSpec, EveryPeriodRuns

-----------------------------------------------------------------------------
(* The remote station's feed.                                               *)

\* The byte behind the one at this place of a packet.
Following(place) == IF place = PACKET_SIZE THEN 0 ELSE place + 1

\* q is a stretch of the stream that begins with a packet, of which place comes
\* next.
Stretch(q, place) ==
    /\ q \in Seq(0 .. PACKET_SIZE)
    /\ \A i \in 1 .. Len(q) : i <= PACKET_SIZE + 1 => q[i] = i - 1
    /\ \A i \in 1 .. Len(q) : i + 1 <= Len(q) => q[i + 1] = Following(q[i])
    /\ \A i \in 1 .. Len(q) : i + PACKET_SIZE + 1 <= Len(q) => q[i + PACKET_SIZE + 1] = q[i]
    /\ place = IF Len(q) <= PACKET_SIZE THEN Len(q) ELSE q[Len(q) - PACKET_SIZE]

\* As long as nothing is lost, the port begins with a packet whenever getData
\* looks at it.
FeedInv == ~ disturbed => Stretch(port, arriving) /\ packet \in {<<>>, Data}

LEMMA SizeFacts == PACKET_SIZE \in Nat /\ PACKET_SIZE >= 1
BY FeedAssumption

LEMMA StretchEmpty == Stretch(<<>>, 0)
BY SizeFacts DEF Stretch

\* A byte arrives.
LEMMA StretchAppend ==
    ASSUME NEW q, NEW place, Stretch(q, place)
    PROVE  Stretch(Append(q, place), (place + 1) % (PACKET_SIZE + 1))
<1>. DEFINE n == PACKET_SIZE
            r == Append(q, place)
            follows == (place + 1) % (n + 1)
<1>1. /\ n \in Nat /\ n >= 1 /\ q \in Seq(0 .. n) /\ Len(q) \in Nat
      /\ \A i \in 1 .. Len(q) : q[i] \in 0 .. n
    BY SizeFacts DEF Stretch
<1>. DEFINE l == Len(q)
<1>0. /\ \A i \in 1 .. l : i <= n + 1 => q[i] = i - 1
      /\ \A i \in 1 .. l : i + 1 <= l => q[i + 1] = Following(q[i])
      /\ \A i \in 1 .. l : i + n + 1 <= l => q[i + n + 1] = q[i]
      /\ l <= n => place = l
      /\ l > n => place = q[l - n]
    BY <1>1 DEF Stretch
<1>2. place \in 0 .. n
    BY <1>0, <1>1
<1>3. follows = Following(place)
    <2>1. CASE place = n
        <3>1. (n + 1) % (n + 1) = 0
            BY <1>1
        <3>. QED  BY <2>1, <3>1 DEF Following
    <2>2. CASE place # n
        <3>1. /\ n \in Nat /\ place + 1 \in 0 .. n
              /\ Following(place) = place + 1
            BY <1>1, <1>2, <2>2 DEF Following
        <3>2. \A m \in Nat : \A x \in 0 .. m : x % (m + 1) = x
            OBVIOUS
        <3>. QED  BY <3>1, <3>2
    <2>. QED  BY <2>1, <2>2
<1>. HIDE DEF follows
<1>4. r \in Seq(0 .. n) /\ Len(r) = l + 1
    BY <1>1, <1>2
<1>5. r[l + 1] = place /\ \A i \in 1 .. l : r[i] = q[i]
    BY <1>1, <1>2
<1>6. n \in Nat /\ n >= 1 /\ l \in Nat
    BY <1>1
<1>7. \A i \in Int : Following(i) = IF i = n THEN 0 ELSE i + 1
    BY DEF Following
<1>. HIDE DEF r, n, l
<1>8. \A i \in 1 .. l + 1 : i <= n + 1 => r[i] = i - 1
    <2>1. SUFFICES ASSUME NEW i \in 1 .. l + 1, i <= n + 1 PROVE r[i] = i - 1
        OBVIOUS
    <2>2. CASE i \in 1 .. l
        BY <1>0, <1>5, <2>1, <2>2
    <2>3. CASE i = l + 1
        BY <1>0, <1>5, <1>6, <2>1, <2>3
    <2>. QED  BY <1>6, <2>2, <2>3
<1>9. \A i \in 1 .. l + 1 : i + n + 1 <= l + 1 => r[i + n + 1] = r[i]
    <2>1. SUFFICES ASSUME NEW i \in 1 .. l + 1, i + n + 1 <= l + 1 PROVE r[i + n + 1] = r[i]
        OBVIOUS
    <2>2. i \in 1 .. l /\ r[i] = q[i]
        BY <1>5, <1>6, <2>1
    <2>3. CASE i + n + 1 <= l
        <3>1. i + n + 1 \in 1 .. l
            BY <1>6, <2>2, <2>3
        <3>. QED  BY <1>0, <1>5, <2>2, <2>3, <3>1
    <2>4. CASE i = l - n
        BY <1>0, <1>5, <1>6, <2>2, <2>4
    <2>. QED  BY <1>6, <2>1, <2>3, <2>4
<1>10. \A i \in 1 .. l + 1 : i + 1 <= l + 1 => r[i + 1] = Following(r[i])
    <2>1. SUFFICES ASSUME NEW i \in 1 .. l PROVE r[i + 1] = Following(r[i])
        BY <1>6
    <2>2. r[i] = q[i]
        BY <1>5
    <2>3. CASE i + 1 <= l
        BY <1>0, <1>5, <1>6, <2>2, <2>3
    <2>4. CASE i = l
        <3>1. r[i + 1] = place
            BY <1>5, <2>4
        <3>2. CASE l <= n
            BY <1>0, <1>6, <1>7, <2>2, <2>4, <3>1, <3>2
        <3>3. CASE l = n + 1
            BY <1>0, <1>6, <1>7, <2>2, <2>4, <3>1, <3>3
        <3>4. CASE l > n + 1
            <4>1. l - n - 1 \in 1 .. l /\ l - n \in 1 .. l
                BY <1>6, <3>4
            <4>2. q[l - n] = Following(q[l - n - 1])
                BY <1>0, <1>6, <4>1
            <4>3. q[l] = q[l - n - 1]
                BY <1>0, <1>6, <4>1
            <4>. QED  BY <1>0, <1>6, <2>2, <2>4, <3>1, <3>4, <4>2, <4>3
        <3>. QED  BY <1>6, <3>2, <3>3, <3>4
    <2>. QED  BY <1>6, <2>3, <2>4
<1>11. follows = IF l + 1 <= n THEN l + 1 ELSE r[l + 1 - n]
    <2>1. CASE l < n
        BY <1>0, <1>3, <1>6, <1>7, <2>1
    <2>2. CASE l = n
        <3>1. r[1] = 0
            BY <1>6, <1>8
        <3>. QED  BY <1>0, <1>3, <1>6, <1>7, <2>2, <3>1
    <2>3. CASE l > n
        <3>1. l - n \in 1 .. l /\ l + 1 - n \in 1 .. l
            BY <1>6, <2>3
        <3>2. q[l + 1 - n] = Following(q[l - n])
            BY <1>0, <1>6, <3>1
        <3>. QED  BY <1>0, <1>3, <1>5, <1>6, <2>3, <3>1, <3>2
    <2>. QED  BY <1>6, <2>1, <2>2, <2>3
<1>12. /\ \A i \in 1 .. Len(r) : i <= n + 1 => r[i] = i - 1
       /\ \A i \in 1 .. Len(r) : i + 1 <= Len(r) => r[i + 1] = Following(r[i])
       /\ \A i \in 1 .. Len(r) : i + n + 1 <= Len(r) => r[i + n + 1] = r[i]
       /\ follows = IF Len(r) <= n THEN Len(r) ELSE r[Len(r) - n]
    <2>1. Len(r) = l + 1 /\ Len(r) - n = l + 1 - n
        BY <1>4, <1>6
    <2>. QED  BY <1>8, <1>9, <1>10, <1>11, <2>1
<1>13. Stretch(r, follows)
    BY <1>4, <1>12 DEF Stretch, n
<1>. QED  BY <1>13 DEF n, r, follows

\* getData takes a packet.
LEMMA StretchTaken ==
    ASSUME NEW q, NEW place, Stretch(q, place), Len(q) >= PACKET_SIZE + 1
    PROVE  /\ Stretch(SubSeq(q, PACKET_SIZE + 2, Len(q)), place)
           /\ SubSeq(q, 2, PACKET_SIZE + 1) = Data
<1>. DEFINE n == PACKET_SIZE
            r == SubSeq(q, n + 2, Len(q))
<1>1. /\ n \in Nat /\ n >= 1 /\ q \in Seq(0 .. n) /\ Len(q) \in Nat
      /\ \A i \in 1 .. Len(q) : q[i] \in 0 .. n
    BY SizeFacts DEF Stretch
<1>2. /\ r \in Seq(0 .. n) /\ Len(r) = Len(q) - n - 1
      /\ \A i \in 1 .. Len(r) : r[i] = q[i + n + 1]
    BY <1>1
<1>. HIDE DEF r
<1>4. Stretch(r, place)
    <2>. DEFINE l == Len(q)
                m == Len(r)
    <2>1. /\ \A i \in 1 .. l : i <= n + 1 => q[i] = i - 1
          /\ \A i \in 1 .. l : i + 1 <= l => q[i + 1] = Following(q[i])
          /\ \A i \in 1 .. l : i + n + 1 <= l => q[i + n + 1] = q[i]
          /\ place = q[l - n]
        BY <1>1 DEF Stretch
    <2>2. l \in Nat /\ m \in Nat /\ n \in Nat /\ n >= 1 /\ l = m + n + 1
        BY <1>1, <1>2
    <2>3. \A i \in 1 .. m : i \in 1 .. l /\ r[i] = q[i]
        BY <1>2, <2>1, <2>2
    <2>. HIDE DEF l, m, n
    <2>4. place = IF m <= n THEN m ELSE r[m - n]
        <3>1. place = q[m + 1] /\ m + 1 \in 1 .. l
            BY <2>1, <2>2
        <3>2. CASE m <= n
            BY <2>1, <2>2, <3>1, <3>2
        <3>3. CASE m > n
            <4>1. m - n \in 1 .. m
                BY <2>2, <3>3
            <4>2. q[m + 1] = q[m - n]
                BY <2>1, <2>2, <2>3, <4>1
            <4>. QED  BY <2>2, <2>3, <3>1, <3>3, <4>1, <4>2
        <3>. QED  BY <2>2, <3>2, <3>3
    <2>5. \A i \in 1 .. m : i + 1 <= m => r[i + 1] = Following(r[i])
        BY <2>1, <2>2, <2>3
    <2>6. \A i \in 1 .. m : i <= n + 1 => r[i] = i - 1
        BY <2>1, <2>2, <2>3
    <2>7. \A i \in 1 .. m : i + n + 1 <= m => r[i + n + 1] = r[i]
        BY <2>1, <2>2, <2>3
    <2>. QED  BY <1>2, <2>4, <2>5, <2>6, <2>7 DEF Stretch, m, n
<1>5. SubSeq(q, 2, n + 1) = Data
    <2>1. SubSeq(q, 2, n + 1) = [i \in 1 .. n |-> q[i + 1]]
        BY <1>1
    <2>2. \A i \in 1 .. n : q[i + 1] = i
        BY <1>1 DEF Stretch
    <2>. QED  BY <2>1, <2>2 DEF Data
<1>. QED  BY <1>4, <1>5 DEF r

-----------------------------------------------------------------------------

LEMMA InitFeed == FeedInit => FeedInv
BY StretchEmpty DEF FeedInit, FeedInv

LEMMA GetDataKeeps ==
    ASSUME FeedInv, NEW d, getData_runs(d)
    PROVE  FeedInv'
<1>1. SUFFICES ASSUME ~ disturbed' PROVE Stretch(port, arriving)' /\ packet' \in {<<>>, Data}
    BY DEF FeedInv
<1>2. ~ disturbed /\ arriving' = arriving
    <2>1. ~ disturbed
        BY <1>1, Zenon DEF getData_runs
    <2>. QED  BY <2>1 DEF getData_runs
<1>3. Stretch(port, arriving) /\ packet \in {<<>>, Data}
    BY <1>2 DEF FeedInv
<1>4. CASE port = <<>> /\ UNCHANGED <<port, packet, disturbed>>
    BY <1>2, <1>3, <1>4
<1>5. CASE /\ port # <<>> /\ StartsPacket
           /\ packet' = Taken
           /\ port' = Left
    BY <1>2, <1>3, <1>5, StretchTaken DEF StartsPacket, Whole, Taken, Left
<1>6. CASE port # <<>> /\ disturbed' = (disturbed \/ Head(port) = 0)
    <2>1. Head(port) = 0
        BY <1>3, <1>6, SizeFacts DEF Stretch
    <2>. QED  BY <1>1, <1>6, <2>1
<1>. QED  BY <1>4, <1>5, <1>6 DEF getData_runs

LEMMA RadioKeeps == ASSUME FeedInv, Radio PROVE FeedInv'
<1>1. SUFFICES ASSUME ~ disturbed' PROVE Stretch(port, arriving)' /\ packet' \in {<<>>, Data}
    BY DEF FeedInv
<1>2. CASE UNCHANGED <<arriving, port, disturbed>>
    BY <1>1, <1>2 DEF FeedInv, Radio
<1>3. CASE ByteArrives(arriving)
    <2>1. ~ disturbed /\ port' = Append(port, arriving) /\ arriving' = (arriving + 1) % (PACKET_SIZE + 1)
        BY <1>1, <1>3 DEF ByteArrives
    <2>. QED  BY <2>1, StretchAppend DEF FeedInv, Radio
<1>. QED  BY <1>2, <1>3 DEF Radio

LEMMA FeedStep == FeedInv /\ [FeedNext]_<<schedVars, feedVars>> => FeedInv'
<1>. SUFFICES ASSUME FeedInv, [FeedNext]_<<schedVars, feedVars>> PROVE FeedInv'
    OBVIOUS
<1>1. ASSUME NEW d, getData_runs(d) PROVE FeedInv'
    BY <1>1, GetDataKeeps
<1>2. CASE TimePasses /\ Radio
    BY <1>2, RadioKeeps
<1>3. CASE UNCHANGED feedVars
    BY <1>3 DEF feedVars, FeedInv
<1>. QED  BY <1>1, <1>2, <1>3 DEF FeedNext, Others

\* What getData has taken is a packet that was sent, whole, until it has met a
\* packet whose end had not come or a byte was dropped (remote.ino:81-93):
\* however the packets lie to its polls and whatever data equals the magic byte.
THEOREM PacketsAreWhole == FeedSpec => []PacketsWhole
<1>1. FeedInv => PacketsWhole
    BY DEF FeedInv, PacketsWhole
<1>. QED  BY <1>1, InitFeed, FeedStep, PTL DEF FeedSpec

=============================================================================
