-------------------------------- MODULE Arm --------------------------------
(***************************************************************************)
(* The pan and tilt kit (Arm.cpp) and the two periodic tasks that share    *)
(* it: UpdateArm sets the speeds from a joystick, TickArm moves each joint *)
(* one degree when enough ticks have passed since it moved last.  Both     *)
(* have a worst case execution time of one tick, so the kernel stops       *)
(* before another task comes between; TickArm starts on time or the kernel *)
(* stops.                                                                  *)
(*                                                                         *)
(* Now() is 16 bits wide and lastRun 32, so their difference is huge when  *)
(* the clock has wrapped in between.  A division by a speed of 0 is        *)
(* undefined: any threshold.                                               *)
(***************************************************************************)
EXTENDS Integers

CONSTANTS
    DEG_MIN, DEG_MAX,
    S_MAX_SPEED,
    Threshold,      \* the least speed that filterSpeed leaves, 6
    Second,         \* ticks that a joint of speed 1 takes for a degree, 100
    ClockMod,       \* of TICK, 2^16, and of thresh
    DeltaMod,       \* of delta, 2^32
    ARM_TICK_PERIOD

ASSUME ArmAssumption ==
    /\ {DEG_MIN, DEG_MAX, S_MAX_SPEED, Threshold, Second, ClockMod, DeltaMod, ARM_TICK_PERIOD} \subseteq Nat
    /\ ARM_TICK_PERIOD > 0
    /\ 0 < DEG_MIN /\ DEG_MIN < DEG_MAX
    /\ 0 < Threshold /\ Threshold <= S_MAX_SPEED
    /\ Second \div Threshold + 1 < ClockMod /\ ClockMod < DeltaMod

VARIABLES
    clock,
    pos, speed, lastRun,    \* of each joint
    due                     \* TickArm is to run

armVars == <<clock, pos, speed, lastRun, due>>

Joint == {"X", "Y"}

\* Y begins at 0, short of the least degree.
ArmInit ==
    /\ clock = 0
    /\ pos = [j \in Joint |-> IF j = "X" THEN (DEG_MIN + DEG_MAX) \div 2 ELSE 0]
    /\ speed = [j \in Joint |-> 0]
    /\ lastRun = [j \in Joint |-> 0]
    /\ due = FALSE

Abs(x) == IF x < 0 THEN -x ELSE x

\* The values filterSpeed returns: nothing slow.
filterSpeed == {s \in -S_MAX_SPEED .. S_MAX_SPEED : s = 0 \/ Abs(s) >= Threshold}

Constrained(x) == IF x < DEG_MIN THEN DEG_MIN ELSE IF x > DEG_MAX THEN DEG_MAX ELSE x

-----------------------------------------------------------------------------

Tick ==
    /\ ~ due
    /\ clock' = (clock + 1) % ClockMod
    /\ due' = (clock' % ARM_TICK_PERIOD = 0)
    /\ UNCHANGED <<pos, speed, lastRun>>

UpdateArm(new_speed) ==
    /\ speed' = new_speed
    /\ UNCHANGED <<clock, pos, lastRun, due>>

delta(j) == (clock - lastRun[j]) % DeltaMod

thresh(s) == IF s = 0 THEN 0 .. ClockMod - 1 ELSE {Second \div Abs(s)}

\* A joint moves at the one tick its threshold names, which the period may miss.
MayMove_AtThreshold ==
    {moves \in SUBSET Joint :
        \A j \in Joint : \E t \in thresh(speed[j]) : j \in moves <=> delta(j) = t}

\* The joints that may move are those whose threshold has passed.
MayMove == {moves \in SUBSET Joint :
              \A j \in Joint : \E t \in thresh(speed[j]) : j \in moves <=> delta(j) > t}

LastRun(moves) == [j \in Joint |-> IF j \in moves THEN clock ELSE lastRun[j]]

\* A joint that stands at its limit counts as moving.
tick(moves) ==
    /\ due
    /\ due' = FALSE
    /\ moves \in MayMove
    /\ pos' = [j \in Joint |->
                  IF j \in moves
                  THEN Constrained(IF speed[j] < 0 THEN pos[j] - 1 ELSE pos[j] + 1)
                  ELSE pos[j]]
    /\ lastRun' = LastRun(moves)
    /\ UNCHANGED <<clock, speed>>

ArmNext ==
    \/ Tick
    \/ \E new_speed \in [Joint -> filterSpeed] : UpdateArm(new_speed)
    \/ \E moves \in SUBSET Joint : tick(moves)

\* The clock goes on, and the kernel gives TickArm its periods.
ArmSpec == ArmInit /\ [][ArmNext]_armVars /\ WF_armVars(Tick \/ \E moves \in SUBSET Joint : tick(moves))

-----------------------------------------------------------------------------

ArmTypeOK ==
    /\ clock \in 0 .. ClockMod - 1
    /\ pos \in [Joint -> 0 .. DEG_MAX]
    /\ speed \in [Joint -> filterSpeed]
    /\ lastRun \in [Joint -> 0 .. ClockMod - 1]
    /\ due \in BOOLEAN

\* A stick that is held moves its joint to the end: neither a wrap of the clock
\* nor what the joint did before stops it for good (Arm.cpp:53-66).
HeldStickMoves ==
    \A j \in Joint : /\ <>[](speed[j] > 0) => <>[](pos[j] = DEG_MAX)
                     /\ <>[](speed[j] < 0) => <>[](pos[j] = DEG_MIN)

=============================================================================
