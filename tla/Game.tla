-------------------------------- MODULE Game --------------------------------
(***************************************************************************)
(* The game of the remote station (remote/user.cpp): the periodic tasks    *)
(* commandRoomba, lightSensorRead, modeChange and TickArm and the global   *)
(* variables they share without a lock.  The kernel switches between       *)
(* periodic tasks at ticks, so a step of the first three has at most one   *)
(* access to a variable that another task writes; h -= 1 is a load and a   *)
(* store.  TickArm's worst case execution time is one tick: the kernel     *)
(* stops before another task comes between, and a turn of it is one step.  *)
(* Its servos are Arm's.                                                   *)
(*                                                                         *)
(* The joysticks (which RXData may replace between any two reads), the     *)
(* bumpers, the virtual wall and the light are any value at each read.     *)
(* Commands to the Roomba are whole: only what the wheels are told counts. *)
(***************************************************************************)
EXTENDS Integers

CONSTANTS
    FullHealth,     \* health at the start, 10
    HealthMod,      \* health is a uint8_t
    FullLaser,      \* numLaserTicks at the start, in units of ARM_TICK_PERIOD
    BackOff         \* continue_move after both bumpers, 4

ASSUME GameAssumption ==
    /\ FullHealth \in Nat \ {0} /\ HealthMod \in Nat /\ HealthMod > FullHealth
    /\ FullLaser \in Nat /\ BackOff \in Nat

VARIABLES
    mode, game_on, health, dead, started_before, continue_move, numLaserTicks,
    move,       \* commandRoomba's local variable: the kind of movement
    loaded,     \* the values lightSensorRead and modeChange have in hand
    laser,      \* PORTC bit 0
    at,         \* where each task is
    moves_dead  \* history: moving commands since the robot died

gameVars == <<mode, game_on, health, dead, started_before, continue_move,
              numLaserTicks, move, loaded, laser, at, moves_dead>>

Mode == {"FREE_MODE", "STAY_MODE", "NO_MODE"}
Move == {"stop", "backward", "spin", "drive"}
Start == {"game_on", "dead", "numLaserTicks", "health", "mode", "modeChange"}

\* "next" is Task_Next, a task before its creation or after its end is at "none".
Place ==
    [command : {"setup", "next", "choose", "user", "drive"} \union Start,
     light : {"next", "load", "store", "check", "die"},
     modeChange : {"none", "next", "load", "store"}]

GameInit ==
    /\ mode = "NO_MODE"
    /\ game_on = FALSE
    /\ health = FullHealth
    /\ dead = FALSE
    /\ started_before = FALSE
    /\ continue_move = -1
    /\ numLaserTicks = FullLaser
    /\ move = "stop"
    /\ loaded = [light |-> 0, modeChange |-> "NO_MODE"]
    /\ laser = FALSE
    /\ at = [command |-> "setup", light |-> "next", modeChange |-> "none"]
    /\ moves_dead = 0

\* What a sensor says: check_sensor leaves 0 when the Roomba does not answer.
Reading == BOOLEAN

\* A joystick's deflection in percent: within the dead band, beyond it, full.
Deflection == {0, 50, 100}

Go(task, from, to) == at[task] = from /\ at' = [at EXCEPT ![task] = to]

-----------------------------------------------------------------------------
\* setupRoomba: after the Roomba's start the RR task creates commandRoomba.

setupRoomba ==
    /\ Go("command", "setup", "next")
    /\ UNCHANGED <<mode, game_on, health, dead, started_before, continue_move,
                   numLaserTicks, move, loaded, laser, moves_dead>>

\* May the button start a game?  start_game asks again, with the same answer:
\* only this task sets game_on and clears dead.
MayStart(pressed) == pressed /\ (~ game_on \/ dead)

commandRoomba_begins(pressed) ==
    /\ Go("command", "next", IF MayStart(pressed) THEN "game_on" ELSE "choose")
    /\ UNCHANGED <<mode, game_on, health, dead, started_before, continue_move,
                   numLaserTicks, move, loaded, laser, moves_dead>>

\* A new game goes on with the health of the last.
Revived_AsLast == health

Revived == FullHealth

\* start_game, one assignment at a time.
start_game ==
    /\ \/ /\ Go("command", "game_on", "dead")
          /\ game_on' = TRUE
          /\ UNCHANGED <<dead, numLaserTicks, health, mode, started_before, moves_dead>>
       \/ /\ Go("command", "dead", "numLaserTicks")
          /\ dead' = FALSE /\ moves_dead' = 0
          /\ UNCHANGED <<game_on, numLaserTicks, health, mode, started_before>>
       \/ /\ Go("command", "numLaserTicks", "health")
          /\ numLaserTicks' = FullLaser
          /\ UNCHANGED <<game_on, dead, health, mode, started_before, moves_dead>>
       \/ /\ Go("command", "health", "mode")
          /\ health' = Revived
          /\ UNCHANGED <<game_on, dead, numLaserTicks, mode, started_before, moves_dead>>
       \/ /\ Go("command", "mode", "modeChange")
          /\ mode' = "STAY_MODE"
          /\ UNCHANGED <<game_on, dead, numLaserTicks, health, started_before, moves_dead>>
       \/ /\ at.command = "modeChange"
          /\ at' = [at EXCEPT !.command = "choose",
                              !.modeChange = IF started_before THEN @ ELSE "next"]
          /\ started_before' = TRUE
          /\ UNCHANGED <<game_on, dead, numLaserTicks, health, mode, moves_dead>>
    /\ UNCHANGED <<continue_move, move, loaded, laser>>

\* A dead robot still reacts to its bumpers.
Dead_Unheeded == FALSE

Dead == game_on /\ dead

\* choose_move, up to the joystick: the rest of a retreat from both bumpers goes
\* before everything, then death, the wall and the bumpers.
choose_move(wall, left, right) ==
    LET goes(m, n, to) == move' = m /\ continue_move' = n /\ Go("command", "choose", to)
    IN  /\ IF continue_move > 0 THEN goes(move, continue_move - 1, "drive")
           ELSE IF Dead THEN goes("stop", -1, "drive")
           ELSE IF wall THEN goes("backward", -1, "drive")
           ELSE IF left /\ right THEN goes("backward", BackOff, "drive")
           ELSE IF left \/ right THEN goes("spin", -1, "drive")
           ELSE goes("stop", -1, "user")
        /\ UNCHANGED <<mode, game_on, health, dead, started_before, numLaserTicks,
                       loaded, laser, moves_dead>>

\* choose_user_move: to the left and back are like to the right and forward.  A
\* spin is x / 100 * 50 in integers, nothing short of the stop.
choose_user_move(x, y) ==
    /\ Go("command", "user", "drive")
    /\ move' = IF y > 0 /\ mode # "STAY_MODE" THEN "drive"
               ELSE IF x = 100 THEN "spin" ELSE "stop"
    /\ UNCHANGED <<mode, game_on, health, dead, started_before, continue_move,
                   numLaserTicks, loaded, laser, moves_dead>>

direct_drive ==
    /\ Go("command", "drive", "next")
    /\ moves_dead' = IF dead /\ move # "stop" THEN moves_dead + 1 ELSE moves_dead
    /\ UNCHANGED <<mode, game_on, health, dead, started_before, continue_move,
                   numLaserTicks, move, loaded, laser>>

commandRoomba ==
    \/ \E pressed \in BOOLEAN : commandRoomba_begins(pressed)
    \/ start_game
    \/ \E wall, left, right \in Reading : choose_move(wall, left, right)
    \/ \E x, y \in Deflection : choose_user_move(x, y)
    \/ direct_drive

-----------------------------------------------------------------------------
\* lightSensorRead.  Without a hit only the light average changes.

lightSensorRead_begins(hit) ==
    /\ Go("light", "next", IF game_on /\ ~ dead /\ hit THEN "load" ELSE "next")
    /\ UNCHANGED <<mode, game_on, health, dead, started_before, continue_move,
                   numLaserTicks, move, loaded, laser, moves_dead>>

lightSensorRead_loads ==
    /\ Go("light", "load", "store")
    /\ loaded' = [loaded EXCEPT !.light = health]
    /\ UNCHANGED <<mode, game_on, health, dead, started_before, continue_move,
                   numLaserTicks, move, laser, moves_dead>>

\* The byte is kept from wrapping, one too early.
Less_LeavesOne(h) == IF h > 1 THEN h - 1 ELSE h

\* The unsigned byte goes below 0.
Less_NoWrap(h) == h - 1

Less(h) == (h - 1) % HealthMod

lightSensorRead_stores ==
    /\ Go("light", "store", "check")
    /\ health' = Less(loaded.light)
    /\ loaded' = [loaded EXCEPT !.light = 0]
    /\ UNCHANGED <<mode, game_on, dead, started_before, continue_move,
                   numLaserTicks, move, laser, moves_dead>>

Exhausted == health <= 0

lightSensorRead_checks ==
    /\ Go("light", "check", IF Exhausted THEN "die" ELSE "next")
    /\ UNCHANGED <<mode, game_on, health, dead, started_before, continue_move,
                   numLaserTicks, move, loaded, laser, moves_dead>>

die ==
    /\ Go("light", "die", "next")
    /\ dead' = TRUE
    /\ UNCHANGED <<mode, game_on, health, started_before, continue_move,
                   numLaserTicks, move, loaded, laser, moves_dead>>

lightSensorRead ==
    \/ \E hit \in BOOLEAN : lightSensorRead_begins(hit)
    \/ lightSensorRead_loads
    \/ lightSensorRead_stores
    \/ lightSensorRead_checks
    \/ die

-----------------------------------------------------------------------------
\* modeChange: a step that finds the robot dead returns, and ends the task.

\* The task ends as long as nobody has died.
Ends_Alive == ~ dead

Ends == dead

modeChange_begins ==
    /\ Go("modeChange", "next", IF Ends THEN "none" ELSE "load")
    /\ UNCHANGED <<mode, game_on, health, dead, started_before, continue_move,
                   numLaserTicks, move, loaded, laser, moves_dead>>

modeChange_loads ==
    /\ Go("modeChange", "load", "store")
    /\ loaded' = [loaded EXCEPT !.modeChange = mode]
    /\ UNCHANGED <<mode, game_on, health, dead, started_before, continue_move,
                   numLaserTicks, move, laser, moves_dead>>

modeChange_stores ==
    /\ Go("modeChange", "store", "next")
    /\ mode' = IF loaded.modeChange = "FREE_MODE" THEN "STAY_MODE" ELSE "FREE_MODE"
    /\ loaded' = [loaded EXCEPT !.modeChange = "NO_MODE"]
    /\ UNCHANGED <<game_on, health, dead, started_before, continue_move,
                   numLaserTicks, move, laser, moves_dead>>

modeChange == modeChange_begins \/ modeChange_loads \/ modeChange_stores

-----------------------------------------------------------------------------
\* TickArm: the laser.  Outside a game it costs nothing.

\* Laser ticks count only before a game.
LaserCosts_Before == ~ game_on

LaserCosts == game_on

TickArm(trigger) ==
    LET on == trigger /\ numLaserTicks > 0
    IN  /\ laser' = on
        /\ numLaserTicks' = IF on /\ LaserCosts THEN numLaserTicks - 1 ELSE numLaserTicks
        /\ UNCHANGED <<mode, game_on, health, dead, started_before, continue_move,
                       move, loaded, at, moves_dead>>

-----------------------------------------------------------------------------

GameNext == setupRoomba \/ commandRoomba \/ lightSensorRead \/ modeChange
            \/ \E trigger \in BOOLEAN : TickArm(trigger)

GameSpec == GameInit /\ [][GameNext]_gameVars

\* The kernel gives every periodic task each of its periods, or stops.  A
\* reading without a hit, and a trigger left alone, change nothing: no fairness
\* asks for a hit, a shot or a button.
GameFairSpec ==
    /\ GameSpec
    /\ WF_gameVars(setupRoomba) /\ WF_gameVars(commandRoomba) /\ WF_gameVars(modeChange)
    /\ WF_gameVars(at.light # "next" /\ lightSensorRead)
    /\ WF_gameVars(laser /\ \E trigger \in BOOLEAN : TickArm(trigger))

-----------------------------------------------------------------------------

GameTypeOK ==
    /\ mode \in Mode
    /\ game_on \in BOOLEAN /\ dead \in BOOLEAN /\ started_before \in BOOLEAN /\ laser \in BOOLEAN
    /\ health \in 0 .. HealthMod - 1
    /\ numLaserTicks \in 0 .. FullLaser
    /\ continue_move \in -1 .. BackOff
    /\ move \in Move
    /\ loaded.light \in 0 .. HealthMod - 1 /\ loaded.modeChange \in Mode
    /\ at \in Place
    /\ moves_dead \in Nat

\* A dead robot stops: once it has died, commandRoomba drives it no more than
\* the command it was about to give and the retreat that one began
\* (user.cpp:51, before the test of dead).
DeadStops == moves_dead <= BackOff + 1

\* No robot outlives its health: whenever the light task is between readings
\* and no game is being set up, a robot in play has some left, whatever load
\* and store of health start_game's reset falls between (user.cpp:336).
AliveHasHealth ==
    game_on /\ ~ dead /\ at.light = "next" /\ at.command \notin Start => health > 0

\* A robot that is hit again and again dies again and again: no restart, and no
\* lost update of health, makes it immortal (user.cpp:335-339).
HitsKill == []<><<lightSensorRead_stores>>_gameVars => []<>dead

\* The laser runs out: once games are on and no new one is started, it goes off
\* for good, however start_game and the last game's shots fall together
\* (user.cpp:127-130).
LaserRunsOut == <>[](game_on /\ at.command \notin Start) => <>[](~ laser)

\* The mode changes again and again once a game is on (timings.h:42), as long
\* as the robot does not die: the step of modeChange that finds it dead ends
\* the task for all games that follow (user.cpp:146, 194).
ModeChangesUntilDeath == <>game_on /\ [](~ dead) => []<><<mode' # mode>>_gameVars

=============================================================================
