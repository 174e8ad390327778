--------------------------- MODULE StationProofs ----------------------------
(***************************************************************************)
(* The remote station: the safety properties of its game, for every        *)
(* health, width of it, number of laser ticks and length of a retreat; the *)
(* type of its arm's state, for every width of the clock and every limit.  *)
(***************************************************************************)
EXTENDS Game, Arm, TLAPS

\* GameTypeOK, with the two fields of loaded as a record.
GameTypes ==
    /\ GameTypeOK
    /\ loaded \in [light : 0 .. HealthMod - 1, modeChange : Mode]

\* The moving commands commandRoomba may still give to a robot that is dead: the
\* one it is about to give or may yet choose, and the rest of the retreat.
MovesLeft ==
    (IF at.command = "user" \/ (at.command = "drive" /\ move # "stop") THEN 1 ELSE 0)
        + (IF continue_move > 0 THEN continue_move ELSE 0)

\* A robot dies in a game only, and what it still moves is bounded from then on.
DeadInv ==
    /\ dead \/ at.light # "next" => game_on
    /\ IF dead THEN moves_dead + MovesLeft <= BackOff + 1 ELSE moves_dead = 0

\* The steps of start_game up to the one that resets health.
BeforeReset == {"game_on", "dead", "numLaserTicks", "health"}

\* A robot in play has some health left, but for the time between a store of
\* health and the check of it: the last of its health is taken by a turn of
\* the light task that goes on to kill it, unless the reset comes between.
HealthInv ==
    game_on /\ ~ dead /\ at.light \in {"next", "load", "store"} /\ at.command \notin BeforeReset =>
        health > 0

GameInv == GameTypes /\ DeadInv /\ HealthInv

-----------------------------------------------------------------------------

LEMMA InitGame == GameInit => GameInv
<1>. SUFFICES ASSUME GameInit PROVE GameInv
    OBVIOUS
<1>1. GameTypes
    <2>1. /\ health \in 0 .. HealthMod - 1 /\ numLaserTicks \in 0 .. FullLaser
          /\ continue_move \in -1 .. BackOff /\ moves_dead \in Nat /\ 0 \in 0 .. HealthMod - 1
        BY GameAssumption DEF GameInit
    <2>2. at \in Place
        BY DEF GameInit, Place, Start
    <2>3. loaded \in [light : 0 .. HealthMod - 1, modeChange : Mode]
        BY <2>1 DEF GameInit, Mode
    <2>. QED  BY <2>1, <2>2, <2>3 DEF GameInit, GameTypes, GameTypeOK, Mode, Move
<1>2. DeadInv /\ HealthInv
    BY GameAssumption DEF GameInit, DeadInv, HealthInv
<1>. QED  BY <1>1, <1>2 DEF GameInv

\* A step of a task changes the place of that task only.
LEMMA Places ==
    ASSUME GameTypeOK, NEW task \in {"command", "light", "modeChange"}, NEW from, NEW to,
           Go(task, from, to)
    PROVE  /\ at[task] = from
           /\ task = "command" => /\ at'.command = to /\ at'.light = at.light
                                  /\ at'.modeChange = at.modeChange
           /\ task = "light" => /\ at'.light = to /\ at'.command = at.command
                                /\ at'.modeChange = at.modeChange
           /\ task = "modeChange" => /\ at'.modeChange = to /\ at'.command = at.command
                                     /\ at'.light = at.light
BY DEF GameTypeOK, Place, Go

LEMMA SetupKeeps == ASSUME GameInv, setupRoomba PROVE GameInv'
<1>1. GameTypes'
    BY DEF setupRoomba, GameInv, GameTypes, GameTypeOK, Place, Start, Go
<1>2. at.command = "setup" /\ at'.command = "next" /\ at'.light = at.light
    BY Places DEF setupRoomba, GameInv, GameTypes, Go
<1>3. DeadInv' /\ HealthInv'
    BY <1>2 DEF setupRoomba, GameInv, GameTypes, GameTypeOK, DeadInv, HealthInv, MovesLeft, BeforeReset
<1>. QED  BY <1>1, <1>3 DEF GameInv

-----------------------------------------------------------------------------
(* commandRoomba.                                                           *)

LEMMA BeginsKeeps ==
    ASSUME GameInv, NEW pressed \in BOOLEAN, commandRoomba_begins(pressed)
    PROVE  GameInv'
<1>1. GameTypes'
    BY DEF commandRoomba_begins, GameInv, GameTypes, GameTypeOK, Place, Start, Go
<1>2. /\ at.command = "next" /\ at'.light = at.light
      /\ at'.command = IF MayStart(pressed) THEN "game_on" ELSE "choose"
    BY Places DEF commandRoomba_begins, GameInv, GameTypes, Go
<1>3. MayStart(pressed) => ~ game_on \/ dead
    BY DEF MayStart
<1>4. DeadInv' /\ HealthInv'
    BY <1>2, <1>3 DEF commandRoomba_begins, GameInv, GameTypes, GameTypeOK, DeadInv, HealthInv,
                      MovesLeft, BeforeReset
<1>. QED  BY <1>1, <1>4 DEF GameInv

LEMMA StartKeeps == ASSUME GameInv, start_game PROVE GameInv'
<1>. USE DEF GameInv, GameTypes, GameTypeOK
<1>1. /\ at \in Place /\ FullHealth \in 0 .. HealthMod - 1 /\ FullHealth > 0
      /\ FullLaser \in 0 .. FullLaser
      /\ UNCHANGED <<continue_move, move, loaded, laser>>
    BY GameAssumption DEF start_game
<1>2. CASE /\ Go("command", "game_on", "dead")
           /\ game_on' = TRUE
           /\ UNCHANGED <<dead, numLaserTicks, health, mode, started_before, moves_dead>>
    <2>1. GameTypes'
        BY <1>1, <1>2 DEF Place, Start, Go
    <2>2. at.command = "game_on" /\ at'.light = at.light /\ at'.command = "dead"
        BY <1>2, Places
    <2>3. DeadInv' /\ HealthInv'
        BY <1>1, <1>2, <2>2 DEF DeadInv, HealthInv, MovesLeft, BeforeReset
    <2>. QED  BY <2>1, <2>3
<1>3. CASE /\ Go("command", "dead", "numLaserTicks")
           /\ dead' = FALSE /\ moves_dead' = 0
           /\ UNCHANGED <<game_on, numLaserTicks, health, mode, started_before>>
    <2>1. GameTypes'
        BY <1>1, <1>3 DEF Place, Start, Go
    <2>2. at.command = "dead" /\ at'.light = at.light /\ at'.command = "numLaserTicks"
        BY <1>3, Places
    <2>3. DeadInv' /\ HealthInv'
        BY <1>1, <1>3, <2>2 DEF DeadInv, HealthInv, MovesLeft, BeforeReset
    <2>. QED  BY <2>1, <2>3
<1>4. CASE /\ Go("command", "numLaserTicks", "health")
           /\ numLaserTicks' = FullLaser
           /\ UNCHANGED <<game_on, dead, health, mode, started_before, moves_dead>>
    <2>1. GameTypes'
        BY <1>1, <1>4 DEF Place, Start, Go
    <2>2. at.command = "numLaserTicks" /\ at'.light = at.light /\ at'.command = "health"
        BY <1>4, Places
    <2>3. DeadInv' /\ HealthInv'
        BY <1>1, <1>4, <2>2 DEF DeadInv, HealthInv, MovesLeft, BeforeReset
    <2>. QED  BY <2>1, <2>3
<1>5. CASE /\ Go("command", "health", "mode")
           /\ health' = Revived
           /\ UNCHANGED <<game_on, dead, numLaserTicks, mode, started_before, moves_dead>>
    <2>1. GameTypes'
        BY <1>1, <1>5 DEF Place, Start, Go, Revived
    <2>2. at.command = "health" /\ at'.light = at.light /\ at'.command = "mode"
        BY <1>5, Places
    <2>3. DeadInv' /\ HealthInv'
        BY <1>1, <1>5, <2>2 DEF DeadInv, HealthInv, MovesLeft, BeforeReset, Revived
    <2>. QED  BY <2>1, <2>3
<1>6. CASE /\ Go("command", "mode", "modeChange")
           /\ mode' = "STAY_MODE"
           /\ UNCHANGED <<game_on, dead, numLaserTicks, health, started_before, moves_dead>>
    <2>1. GameTypes'
        BY <1>1, <1>6 DEF Place, Start, Go, Mode
    <2>2. at.command = "mode" /\ at'.light = at.light /\ at'.command = "modeChange"
        BY <1>6, Places
    <2>3. DeadInv' /\ HealthInv'
        BY <1>1, <1>6, <2>2 DEF DeadInv, HealthInv, MovesLeft, BeforeReset
    <2>. QED  BY <2>1, <2>3
<1>7. CASE /\ at.command = "modeChange"
           /\ at' = [at EXCEPT !.command = "choose",
                               !.modeChange = IF started_before THEN @ ELSE "next"]
           /\ started_before' = TRUE
           /\ UNCHANGED <<game_on, dead, numLaserTicks, health, mode, moves_dead>>
    <2>1. GameTypes'
        BY <1>1, <1>7 DEF Place, Start
    <2>2. at.command = "modeChange" /\ at'.light = at.light /\ at'.command = "choose"
        BY <1>1, <1>7 DEF Place
    <2>3. DeadInv' /\ HealthInv'
        BY <1>1, <1>7, <2>2 DEF DeadInv, HealthInv, MovesLeft, BeforeReset
    <2>. QED  BY <2>1, <2>3
<1>. QED  BY <1>2, <1>3, <1>4, <1>5, <1>6, <1>7 DEF start_game

\* A dead robot is told to stop, but for the rest of a retreat.
LEMMA ChooseKeeps ==
    ASSUME GameInv, NEW wall \in Reading, NEW left \in Reading, NEW right \in Reading,
           choose_move(wall, left, right)
    PROVE  GameInv'
<1>1. UNCHANGED <<mode, game_on, health, dead, started_before, numLaserTicks, loaded, laser, moves_dead>>
    BY DEF choose_move
<1>2. \/ /\ continue_move > 0 /\ move' = move /\ continue_move' = continue_move - 1
         /\ Go("command", "choose", "drive")
      \/ /\ ~ (continue_move > 0) /\ move' = "stop" /\ continue_move' = -1
         /\ Go("command", "choose", "drive")
      \/ /\ ~ (continue_move > 0) /\ ~ Dead /\ move' \in {"backward", "spin", "stop"}
         /\ continue_move' \in {-1, BackOff}
         /\ Go("command", "choose", "drive") \/ Go("command", "choose", "user")
    BY DEF choose_move
<1>3. GameTypes'
    <2>1. continue_move' \in -1 .. BackOff /\ move' \in Move
        BY <1>2, GameAssumption DEF GameInv, GameTypes, GameTypeOK, Move
    <2>2. at' \in Place
        BY <1>2 DEF GameInv, GameTypes, GameTypeOK, Place, Go
    <2>. QED  BY <1>1, <2>1, <2>2 DEF GameInv, GameTypes, GameTypeOK
<1>4. at.command = "choose" /\ at'.light = at.light /\ at'.command \in {"drive", "user"}
    BY <1>2, Places DEF GameInv, GameTypes
<1>5. at'.command = "drive" \/ ~ dead
    BY <1>2, Places DEF GameInv, GameTypes, Dead, DeadInv
<1>6. DeadInv'
    BY <1>1, <1>2, <1>4, <1>5, GameAssumption
       DEF GameInv, GameTypes, GameTypeOK, DeadInv, MovesLeft, Dead
<1>7. HealthInv'
    BY <1>1, <1>4 DEF GameInv, HealthInv, BeforeReset
<1>. QED  BY <1>3, <1>6, <1>7 DEF GameInv

LEMMA UserMoveKeeps ==
    ASSUME GameInv, NEW x \in Deflection, NEW y \in Deflection, choose_user_move(x, y)
    PROVE  GameInv'
<1>1. /\ Go("command", "user", "drive") /\ move' \in {"drive", "spin", "stop"}
      /\ UNCHANGED <<mode, game_on, health, dead, started_before, continue_move,
                     numLaserTicks, loaded, laser, moves_dead>>
    BY DEF choose_user_move
<1>2. GameTypes'
    BY <1>1 DEF GameInv, GameTypes, GameTypeOK, Place, Move, Go
<1>3. at.command = "user" /\ at'.light = at.light /\ at'.command = "drive"
    BY <1>1, Places DEF GameInv, GameTypes
<1>4. DeadInv' /\ HealthInv'
    BY <1>1, <1>3, GameAssumption
       DEF GameInv, GameTypes, GameTypeOK, DeadInv, HealthInv, MovesLeft, BeforeReset
<1>. QED  BY <1>2, <1>4 DEF GameInv

LEMMA DriveKeeps == ASSUME GameInv, direct_drive PROVE GameInv'
<1>1. /\ Go("command", "drive", "next")
      /\ moves_dead' = IF dead /\ move # "stop" THEN moves_dead + 1 ELSE moves_dead
      /\ UNCHANGED <<mode, game_on, health, dead, started_before, continue_move,
                     numLaserTicks, move, loaded, laser>>
    BY DEF direct_drive
<1>2. GameTypes'
    BY <1>1 DEF GameInv, GameTypes, GameTypeOK, Place, Start, Go
<1>3. at.command = "drive" /\ at'.light = at.light /\ at'.command = "next"
    BY <1>1, Places DEF GameInv, GameTypes
<1>4. DeadInv' /\ HealthInv'
    BY <1>1, <1>3, GameAssumption
       DEF GameInv, GameTypes, GameTypeOK, DeadInv, HealthInv, MovesLeft, BeforeReset
<1>. QED  BY <1>2, <1>4 DEF GameInv

-----------------------------------------------------------------------------
(* lightSensorRead.                                                         *)

LEMMA LightKeeps == ASSUME GameInv, lightSensorRead PROVE GameInv'
<1>. USE DEF GameInv, GameTypes, GameTypeOK
<1>1. ASSUME NEW hit \in BOOLEAN, lightSensorRead_begins(hit) PROVE GameInv'
    <2>1. GameTypes'
        BY <1>1 DEF lightSensorRead_begins, Place, Go
    <2>2. /\ at.light = "next" /\ at'.command = at.command
          /\ at'.light = IF game_on /\ ~ dead /\ hit THEN "load" ELSE "next"
        BY <1>1, Places DEF lightSensorRead_begins
    <2>3. DeadInv' /\ HealthInv'
        BY <1>1, <2>2 DEF lightSensorRead_begins, DeadInv, HealthInv, MovesLeft
    <2>. QED  BY <2>1, <2>3
<1>2. CASE lightSensorRead_loads
    <2>1. GameTypes'
        BY <1>2 DEF lightSensorRead_loads, Place, Go
    <2>2. at.light = "load" /\ at'.command = at.command /\ at'.light = "store"
        BY <1>2, Places DEF lightSensorRead_loads
    <2>3. DeadInv' /\ HealthInv'
        BY <1>2, <2>2 DEF lightSensorRead_loads, DeadInv, HealthInv, MovesLeft
    <2>. QED  BY <2>1, <2>3
<1>3. CASE lightSensorRead_stores
    <2>1. Less(loaded.light) \in 0 .. HealthMod - 1 /\ 0 \in 0 .. HealthMod - 1
        BY GameAssumption DEF Less
    <2>2. GameTypes'
        BY <1>3, <2>1 DEF lightSensorRead_stores, Place, Go
    <2>3. at.light = "store" /\ at'.command = at.command /\ at'.light = "check"
        BY <1>3, Places DEF lightSensorRead_stores
    <2>4. DeadInv' /\ HealthInv'
        BY <1>3, <2>3 DEF lightSensorRead_stores, DeadInv, HealthInv, MovesLeft
    <2>. QED  BY <2>2, <2>4
<1>4. CASE lightSensorRead_checks
    <2>1. GameTypes'
        BY <1>4 DEF lightSensorRead_checks, Place, Go
    <2>2. /\ at.light = "check" /\ at'.command = at.command
          /\ at'.light = IF Exhausted THEN "die" ELSE "next"
        BY <1>4, Places DEF lightSensorRead_checks
    <2>3. DeadInv' /\ HealthInv'
        BY <1>4, <2>2 DEF lightSensorRead_checks, DeadInv, HealthInv, MovesLeft, Exhausted
    <2>. QED  BY <2>1, <2>3
<1>5. CASE die
    <2>1. GameTypes'
        BY <1>5 DEF die, Place, Go
    <2>2. at.light = "die" /\ at'.command = at.command /\ at'.light = "next"
        BY <1>5, Places DEF die
    <2>3. DeadInv' /\ HealthInv'
        BY <1>5, <2>2, GameAssumption DEF die, DeadInv, HealthInv, MovesLeft
    <2>. QED  BY <2>1, <2>3
<1>. QED  BY <1>1, <1>2, <1>3, <1>4, <1>5 DEF lightSensorRead

-----------------------------------------------------------------------------
(* modeChange and TickArm.                                                  *)

LEMMA ModeKeeps == ASSUME GameInv, modeChange PROVE GameInv'
<1>. USE DEF GameInv, GameTypes, GameTypeOK
<1>1. GameTypes'
    <2>1. CASE modeChange_begins
        BY <2>1 DEF modeChange_begins, Place, Go
    <2>2. CASE modeChange_loads
        BY <2>2 DEF modeChange_loads, Place, Go
    <2>3. CASE modeChange_stores
        BY <2>3 DEF modeChange_stores, Place, Go, Mode
    <2>. QED  BY <2>1, <2>2, <2>3 DEF modeChange
<1>2. /\ at'.command = at.command /\ at'.light = at.light
      /\ UNCHANGED <<game_on, health, dead, continue_move, move, moves_dead>>
    BY Places DEF modeChange, modeChange_begins, modeChange_loads, modeChange_stores
<1>3. DeadInv' /\ HealthInv'
    BY <1>2 DEF DeadInv, HealthInv, MovesLeft
<1>. QED  BY <1>1, <1>3

LEMMA ArmKeeps == ASSUME GameInv, NEW trigger \in BOOLEAN, TickArm(trigger) PROVE GameInv'
<1>. USE DEF GameInv, GameTypes, GameTypeOK
<1>1. GameTypes'
    BY GameAssumption DEF TickArm
<1>2. DeadInv' /\ HealthInv'
    BY DEF TickArm, DeadInv, HealthInv, MovesLeft
<1>. QED  BY <1>1, <1>2

LEMMA GameStep == GameInv /\ [GameNext]_gameVars => GameInv'
<1>. SUFFICES ASSUME GameInv, [GameNext]_gameVars PROVE GameInv'
    OBVIOUS
<1>1. CASE UNCHANGED gameVars
    BY <1>1 DEF gameVars, GameInv, GameTypes, GameTypeOK, DeadInv, HealthInv, MovesLeft
<1>2. CASE commandRoomba
    BY <1>2, BeginsKeeps, StartKeeps, ChooseKeeps, UserMoveKeeps, DriveKeeps DEF commandRoomba
<1>. QED  BY <1>1, <1>2, SetupKeeps, LightKeeps, ModeKeeps, ArmKeeps DEF GameNext

-----------------------------------------------------------------------------

\* GameInv holds in every state of the game, however its four tasks interleave.
THEOREM GameInvariant == GameSpec => []GameInv
BY InitGame, GameStep, PTL DEF GameSpec

\* Every variable of the game keeps to its type: health to a byte, although it
\* is counted down from any value it has been loaded with (user.cpp:336).
THEOREM GameTypesCorrect == GameSpec => []GameTypeOK
<1>1. GameInv => GameTypeOK
    BY DEF GameInv, GameTypes
<1>. QED  BY <1>1, GameInvariant, PTL

\* A robot that has died moves no more than the command under way and the rest
\* of a retreat (choose_move, user.cpp:51), for every length of the retreat.
THEOREM DeadRobotStops == GameSpec => []DeadStops
<1>1. GameInv => DeadStops
    BY GameAssumption DEF GameInv, GameTypes, GameTypeOK, DeadInv, DeadStops, MovesLeft
<1>. QED  BY <1>1, GameInvariant, PTL

\* A robot in play has some health left whenever no reading of the light is
\* under way, whatever load and store of health the reset of a new game falls
\* between (user.cpp:127-130, 335-339).
THEOREM LivingHaveHealth == GameSpec => []AliveHasHealth
<1>1. GameInv => AliveHasHealth
    BY DEF GameInv, HealthInv, AliveHasHealth, BeforeReset, Start
<1>. QED  BY <1>1, GameInvariant, PTL

-----------------------------------------------------------------------------
(* The arm.                                                                 *)

\* constrain_u returns a value between its limits, whatever it is given.
LEMMA ConstrainedInRange == \A x \in Int : Constrained(x) \in DEG_MIN .. DEG_MAX
  BY ArmAssumption DEF Constrained

\* No step takes a joint past its limits, beyond the 0 that Y begins at, or a
\* speed past those filterSpeed returns (Arm.cpp:50-79).
THEOREM ArmTypeCorrect == ArmSpec => []ArmTypeOK
<1> USE ArmAssumption DEF ArmTypeOK, Joint
<1>1. ArmInit => ArmTypeOK
  <2> SUFFICES ASSUME ArmInit
               PROVE  ArmTypeOK
    OBVIOUS
  <2>1. (DEG_MIN + DEG_MAX) \div 2 \in 0 .. DEG_MAX
    OBVIOUS
  <2>2. 0 \in filterSpeed
    BY DEF filterSpeed
  <2>3. ClockMod \in Nat \ {0}
    <3>1. S_MAX_SPEED \in Nat /\ Threshold \in 1 .. S_MAX_SPEED /\ Second \in Nat
      OBVIOUS
    <3>2. Second \div Threshold \in Nat
      BY <3>1
    <3> QED
      BY <3>2
  <2>4. clock \in 0 .. ClockMod - 1 /\ lastRun \in [Joint -> 0 .. ClockMod - 1]
    BY <2>3 DEF ArmInit
  <2>5. pos \in [Joint -> 0 .. DEG_MAX]
    BY <2>1 DEF ArmInit
  <2>6. speed \in [Joint -> filterSpeed] /\ due \in BOOLEAN
    BY <2>2 DEF ArmInit
  <2> QED
    BY <2>4, <2>5, <2>6
<1>2. ArmTypeOK /\ [ArmNext]_armVars => ArmTypeOK'
  <2> SUFFICES ASSUME ArmTypeOK, [ArmNext]_armVars
               PROVE  ArmTypeOK'
    OBVIOUS
  <2>1. CASE Tick
    BY <2>1 DEF Tick
  <2>2. ASSUME NEW new_speed \in [Joint -> filterSpeed], UpdateArm(new_speed)
        PROVE  ArmTypeOK'
    BY <2>2 DEF UpdateArm
  <2>3. ASSUME NEW moves \in SUBSET Joint, tick(moves)
        PROVE  ArmTypeOK'
    <3>1. pos' \in [Joint -> 0 .. DEG_MAX]
      <4>1. ASSUME NEW j \in Joint
            PROVE  Constrained(IF speed[j] < 0 THEN pos[j] - 1 ELSE pos[j] + 1) \in 0 .. DEG_MAX
        BY ConstrainedInRange
      <4> QED
        BY <2>3, <4>1 DEF tick
    <3>2. lastRun' \in [Joint -> 0 .. ClockMod - 1]
      BY <2>3 DEF tick, LastRun
    <3> QED
      BY <2>3, <3>1, <3>2 DEF tick
  <2>4. CASE UNCHANGED armVars
    BY <2>4 DEF armVars
  <2> QED
    BY <2>1, <2>2, <2>3, <2>4 DEF ArmNext
<1> QED
  BY <1>1, <1>2, PTL DEF ArmSpec

=============================================================================
