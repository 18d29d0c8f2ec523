------------------------------ MODULE SpeedLoop ------------------------------
(***************************************************************************)
(* The speed control of one motor: the TMR5 handler derives a speed from   *)
(* the mechanical angle the current loop last read, filters it and runs    *)
(* the speed controller; main() writes target and parameters field by      *)
(* field, with the handlers coming in between.                             *)
(*                                                                         *)
(* Angles are encoder readings (Counts to a turn), speeds are readings per *)
(* call of CalculateSpeed: the division by dt is a change of unit.         *)
(***************************************************************************)
EXTENDS PiController

CONSTANTS Counts,     \* encoder readings per turn
          MaxMove,    \* largest movement of the rotor since the readings held in
                      \* speed_last_angle and mechanical_angle
          OutMax,     \* the limit main() gives the controller; 40 A
          Settings    \* what main() sets: target and gains

ASSUME SpeedAssumption ==
  /\ Counts \in Nat \ {0} /\ MaxMove \in Nat /\ OutMax \in Nat
  /\ 2 * MaxMove < Counts
  /\ Settings \subseteq [speed : Int, kp : Int, ki : Int]

VARIABLES pc,         \* what main() does next
          running,    \* the TMR5 interrupt is enabled
          rotor,      \* where the rotor is
          mechanical_angle, speed_last_angle, speed,
          speedPID, tar_speed,
          setting,    \* what main() is writing, or wrote last
          ticks,      \* calls of CalculateSpeed so far: 0, 1 or more (2)
          unread,     \* movement of the rotor since it was last read
          moved       \* movement between the readings that speed_last_angle
                      \* and mechanical_angle hold

motion == <<rotor, mechanical_angle, unread>>
measure == <<speed_last_angle, speed, ticks>>
vars == <<pc, running, motion, moved, measure, speedPID, tar_speed, setting>>

Angles == 0..(Counts - 1)

-----------------------------------------------------------------------------
\* main()

\* SetSpeedPIDTar, then SetSpeedPIDParams, field by field; in the boot the
\* calibration follows.
Write(field, next) == /\ pc = field /\ pc' = next
                      /\ UNCHANGED <<running, motion, moved, measure, setting>>

SetSpeedPIDTar == /\ Write("tar", "kp")
                  /\ tar_speed' = setting.speed
                  /\ UNCHANGED speedPID

MRestartParams ==
  /\ \/ /\ Write("kp", "ki")
        /\ speedPID' = [speedPID EXCEPT !.kp = setting.kp, !.lastBias = 0]
     \/ /\ Write("ki", "outMax")
        /\ speedPID' = [speedPID EXCEPT !.ki = setting.ki]
     \/ /\ Write("outMax", IF running THEN "loop" ELSE "angle_init")
        /\ speedPID' = [speedPID EXCEPT !.outMax = OutMax]
  /\ UNCHANGED tar_speed

SetSpeedPIDParams ==
  /\ \/ /\ Write("kp", "ki")
        /\ speedPID' = [speedPID EXCEPT !.kp = setting.kp]
     \/ /\ Write("ki", "outMax")
        /\ speedPID' = [speedPID EXCEPT !.ki = setting.ki]
     \/ /\ Write("outMax", IF running THEN "loop" ELSE "angle_init")
        /\ speedPID' = [speedPID EXCEPT !.outMax = OutMax]
  /\ UNCHANGED tar_speed

\* angle_init leaves a reading of the rotor behind.
angle_init == /\ pc = "angle_init" /\ pc' = "tmr5_int"
              /\ mechanical_angle' = rotor
              /\ UNCHANGED <<running, rotor, unread, moved, measure, speedPID,
                             tar_speed, setting>>

\* tmr_interrupt_enable(TMR5, ...); the ADC channels follow.
EnableInterrupts == /\ pc = "tmr5_int" /\ pc' = "loop"
                    /\ running' = TRUE
                    /\ UNCHANGED <<motion, moved, measure, speedPID, tar_speed,
                                   setting>>

\* The host has set Speed_set_flag to 0: main() applies its parameters.
ApplySetting == /\ pc = "loop" /\ pc' = "tar"
                /\ setting' \in Settings
                /\ UNCHANGED <<running, motion, moved, measure, speedPID,
                               tar_speed>>

-----------------------------------------------------------------------------
\* The handlers.

\* getCorrectedElectricalAngle in the current loop.
FocAngle == /\ running
            /\ mechanical_angle' = rotor
            /\ moved' = moved + unread
            /\ unread' = 0
            /\ UNCHANGED <<pc, running, rotor, measure, speedPID, tar_speed,
                           setting>>

MOneSided(d) == IF 2 * d > Counts THEN d - Counts ELSE d

MNoUnwrap(d) == d

\* The jump between 0 and _2PI is taken out of a difference.
Unwrap(d) == IF 2 * d > Counts THEN d - Counts
             ELSE IF 2 * d < -Counts THEN d + Counts
             ELSE d

angle_diff == Unwrap(mechanical_angle - speed_last_angle)

MDiffStored ==
        /\ running
        /\ speed' \in Filtered(speed, angle_diff)
        /\ speed_last_angle' = angle_diff
        /\ speedPID' = Control(speedPID, tar_speed, speed')
        /\ ticks' = IF ticks < 2 THEN ticks + 1 ELSE 2
        /\ moved' = 0
        /\ UNCHANGED <<pc, running, motion, tar_speed, setting>>

\* TMR5_GLOBAL_IRQHandler for one motor: CalculateSpeed and SpeedPIControl.
Tmr5 == /\ running
        /\ speed' \in Filtered(speed, angle_diff)
        /\ speed_last_angle' = mechanical_angle
        /\ speedPID' = Control(speedPID, tar_speed, speed')
        /\ ticks' = IF ticks < 2 THEN ticks + 1 ELSE 2
        /\ moved' = 0
        /\ UNCHANGED <<pc, running, motion, tar_speed, setting>>

-----------------------------------------------------------------------------

\* The rotor turns, in either direction.
Turn(d) == /\ running
           /\ {unread + d, moved + unread + d} \subseteq -MaxMove..MaxMove
           /\ rotor' = (rotor + d) % Counts
           /\ unread' = unread + d
           /\ UNCHANGED <<pc, running, mechanical_angle, moved, measure,
                          speedPID, tar_speed, setting>>

\* The motor structures are zero; the dragged rotor rests anywhere.  main()
\* starts with target 0.
Init == /\ pc = "tar" /\ running = FALSE
        /\ rotor \in Angles
        /\ mechanical_angle = 0 /\ speed_last_angle = 0 /\ speed = 0
        /\ speedPID = Zeroed /\ tar_speed = 0
        /\ setting \in {s \in Settings : s.speed = 0}
        /\ ticks = 0 /\ unread = 0 /\ moved = 0

MainStep == \/ SetSpeedPIDTar \/ SetSpeedPIDParams \/ angle_init
            \/ EnableInterrupts \/ ApplySetting

Next == \/ MainStep \/ FocAngle \/ Tmr5
        \/ \E d \in -MaxMove..MaxMove : d # 0 /\ Turn(d)

Spec == Init /\ [][Next]_vars

-----------------------------------------------------------------------------
\* The type of every variable.
TypeOK == /\ pc \in {"tar", "kp", "ki", "outMax", "angle_init", "tmr5_int",
                     "loop"}
          /\ running \in BOOLEAN
          /\ {rotor, mechanical_angle, speed_last_angle} \subseteq Angles
          /\ speed \in Int
          /\ speedPID \in PI_Struct /\ tar_speed \in Int
          /\ setting \in Settings /\ ticks \in 0..2
          /\ {unread, moved} \subseteq -MaxMove..MaxMove

\* From the second call on, the difference CalculateSpeed works on is the
\* movement of the rotor between the two readings it compares, across the jump
\* in either direction and with any number of current-loop readings, or none,
\* in between.
SpeedIsMovement == ticks > 0 => angle_diff = moved

\* The first difference is taken from speed_last_angle = 0 and means nothing, yet
\* neither it nor anything the filter makes of it later is a speed beyond half a
\* turn per call, the fastest the measurement can tell.
SpeedPlausible == 2 * fabs(speed) <= Counts

\* The torque the speed loop asks of the q controller stays within the limit
\* main() gives it, while main() writes a new parameter set too.
TorqueLimited == fabs(speedPID.out) <= OutMax

\* The incremental law of the code is the limited positional law, with
\* parameters that change between any two calls.
SpeedPI == INSTANCE PositionalPI
             WITH kp <- speedPID.kp, ki <- speedPID.ki,
                  outMax <- speedPID.outMax,
                  integral <- speedPID.out - speedPID.kp * speedPID.lastBias,
                  error <- speedPID.lastBias, out <- speedPID.out

SpeedPositional == SpeedPI!Spec
=============================================================================
