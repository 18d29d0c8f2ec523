--------------------------- MODULE SpeedLoopProofs ---------------------------
(***************************************************************************)
(* The speed loop for every encoder resolution, limit, movement bound and  *)
(* set of parameters.  SpeedIsMovement is not inductive: the invariant     *)
(* below says how the three angles and the two movements between them are  *)
(* related, up to one turn.                                                *)
(***************************************************************************)
EXTENDS SpeedLoop, PiProofs

\* Two angles, the second m readings behind the first, perhaps across the jump.
Apart(x, y, m) == x - y = m \/ x - y = m - Counts \/ x - y = m + Counts

\* Before the interrupts are enabled the rotor rests; afterwards every movement
\* is accounted for.
MotionInv ==
  /\ moved + unread \in -MaxMove..MaxMove
  /\ ~running => unread = 0 /\ moved = 0 /\ ticks = 0
  /\ running => pc # "angle_init" /\ pc # "tmr5_int"
  /\ pc = "tmr5_int" \/ running => Apart(rotor, mechanical_angle, unread)
  /\ ticks > 0 => Apart(mechanical_angle, speed_last_angle, moved)

\* The controller has no limit, hence output 0, until main() sets OutMax.
LimitInv == speedPID.outMax \in {0, OutMax} /\ TorqueLimited

IInv == TypeOK /\ MotionInv /\ LimitInv /\ SpeedPlausible

-----------------------------------------------------------------------------
\* Turning a rotor by less than a turn, in either direction.
LEMMA TurnStep ==
  ASSUME NEW x \in Angles, NEW d \in Int, -Counts < d, d < Counts
  PROVE  /\ (x + d) % Counts \in Angles
         /\ \/ (x + d) % Counts = x + d
            \/ (x + d) % Counts = x + d - Counts
            \/ (x + d) % Counts = x + d + Counts
<1>1. Counts \in Nat \ {0} /\ x \in Int /\ 0 <= x /\ x < Counts
  BY SpeedAssumption DEF Angles
<1>2. CASE x + d < 0
  BY <1>1, <1>2 DEF Angles
<1>3. CASE 0 <= x + d /\ x + d < Counts
  BY <1>1, <1>3 DEF Angles
<1>4. CASE Counts <= x + d
  BY <1>1, <1>4 DEF Angles
<1>5. QED
  BY <1>1, <1>2, <1>3, <1>4

\* The unwrapped difference of two angles is at most half a turn, ...
LEMMA UnwrapWithin ==
  ASSUME NEW x \in Angles, NEW y \in Angles
  PROVE  Unwrap(x - y) \in Int /\ 2 * fabs(Unwrap(x - y)) <= Counts
BY SpeedAssumption DEF Angles, Unwrap, fabs

\* ... and the movement between them, if that is less than half a turn.
LEMMA UnwrapIsMovement ==
  ASSUME NEW x \in Angles, NEW y \in Angles, NEW m \in -MaxMove..MaxMove,
         Apart(x, y, m)
  PROVE  Unwrap(x - y) = m
BY SpeedAssumption DEF Angles, Unwrap, Apart

\* A turn of the rotor adds to the movement since the last reading.
LEMMA ApartTurned ==
  ASSUME NEW x \in Angles, NEW y \in Angles, NEW z \in Angles,
         NEW m \in -MaxMove..MaxMove, NEW n \in -MaxMove..MaxMove,
         Apart(x, y, m),
         \/ z = x + (n - m)
         \/ z = x + (n - m) - Counts
         \/ z = x + (n - m) + Counts
  PROVE  Apart(z, y, n)
BY SpeedAssumption DEF Angles, Apart

\* A call of the speed controller, and the filter in front of it.
LEMMA Tmr5Control ==
  ASSUME TypeOK, LimitInv, SpeedPlausible, Tmr5
  PROVE  /\ speed' \in Int /\ speedPID' \in PI_Struct
         /\ LimitInv' /\ SpeedPlausible'
<1>1. /\ angle_diff \in Int /\ 2 * fabs(angle_diff) <= Counts
  BY UnwrapWithin DEF TypeOK, angle_diff
<1>2. /\ speed' \in Int /\ 2 * fabs(speed') <= Counts
  BY <1>1, FilteredBetween, FilteredWithin, SpeedAssumption
  DEF Tmr5, TypeOK, SpeedPlausible
<1>3. /\ speedPID' \in PI_Struct
      /\ speedPID'.outMax = speedPID.outMax
      /\ \E x \in Int : speedPID'.out = Limited(x, speedPID.outMax)
  <2>1. speedPID \in PI_Struct /\ tar_speed \in Int
        /\ speedPID' = Control(speedPID, tar_speed, speed')
    BY DEF Tmr5, TypeOK
  <2>2. /\ speedPID' \in PI_Struct
        /\ speedPID'.outMax = speedPID.outMax
        /\ speedPID'.out = Limited(speedPID.kp * speedPID'.lastBias
                                     + ((speedPID.out
                                           - speedPID.kp * speedPID.lastBias)
                                        + speedPID.ki * speedPID'.lastBias),
                                   speedPID.outMax)
    BY <2>1, <1>2, ControlIsPositional
  <2>3. speedPID.kp * speedPID'.lastBias
          + ((speedPID.out - speedPID.kp * speedPID.lastBias)
               + speedPID.ki * speedPID'.lastBias) \in Int
    BY <2>1, <2>2 DEF PI_Struct
  <2>4. QED
    BY <2>2, <2>3
<1>4. /\ fabs(speedPID'.out) <= fabs(speedPID.outMax)
      /\ speedPID.outMax \in {0, OutMax}
  <2>1. speedPID.outMax \in Int
    BY DEF TypeOK, PI_Struct
  <2>2. QED
    BY <1>3, <2>1, LimitedWithin DEF LimitInv
<1>5. fabs(speedPID'.out) <= OutMax
  BY <1>3, <1>4, SpeedAssumption DEF fabs, PI_Struct
<1>6. QED
  BY <1>2, <1>3, <1>4, <1>5 DEF LimitInv, TorqueLimited, SpeedPlausible

-----------------------------------------------------------------------------
LEMMA InitInv == Init => IInv
<1> SUFFICES ASSUME Init PROVE IInv
  OBVIOUS
<1>1. /\ rotor \in Angles /\ 0 \in Angles /\ setting \in Settings
      /\ 0 \in -MaxMove..MaxMove
  BY SpeedAssumption DEF Init, Angles
<1>2. speedPID \in PI_Struct
  BY DEF Init, Zeroed, PI_Struct
<1>3. TypeOK
  <2>1. /\ pc = "tar" /\ running = FALSE
        /\ mechanical_angle = 0 /\ speed_last_angle = 0 /\ speed = 0
        /\ tar_speed = 0 /\ ticks = 0 /\ unread = 0 /\ moved = 0
    BY DEF Init
  <2>2. speed \in Int /\ tar_speed \in Int /\ ticks \in 0..2
    BY DEF Init
  <2>3. {rotor, mechanical_angle, speed_last_angle} \subseteq Angles
    BY <1>1, <2>1
  <2>4. {unread, moved} \subseteq -MaxMove..MaxMove
    BY <1>1, <2>1
  <2>5. QED
    BY <1>1, <1>2, <2>1, <2>2, <2>3, <2>4 DEF TypeOK
<1>4. MotionInv
  BY <1>1 DEF Init, MotionInv
<1>5. LimitInv
  BY SpeedAssumption DEF Init, Zeroed, LimitInv, TorqueLimited, fabs
<1>6. SpeedPlausible
  BY SpeedAssumption DEF Init, SpeedPlausible, fabs
<1>7. QED
  BY <1>3, <1>4, <1>5, <1>6 DEF IInv

\* main() writes the controller's parameters, one at a time: the limit, too,
\* only grows.
LEMMA MainControl ==
  ASSUME TypeOK, LimitInv, SetSpeedPIDParams
  PROVE  speedPID' \in PI_Struct /\ LimitInv' /\ speedPID'.out = speedPID.out
<1>1. /\ speedPID \in PI_Struct /\ setting \in [speed : Int, kp : Int, ki : Int]
      /\ OutMax \in Int
  BY SpeedAssumption DEF TypeOK
<1>2. CASE speedPID' = [speedPID EXCEPT !.kp = setting.kp]
  BY <1>1, <1>2 DEF PI_Struct, LimitInv, TorqueLimited
<1>3. CASE speedPID' = [speedPID EXCEPT !.ki = setting.ki]
  BY <1>1, <1>3 DEF PI_Struct, LimitInv, TorqueLimited
<1>4. CASE speedPID' = [speedPID EXCEPT !.outMax = OutMax]
  BY <1>1, <1>4 DEF PI_Struct, LimitInv, TorqueLimited
<1>5. QED
  BY <1>2, <1>3, <1>4 DEF SetSpeedPIDParams

LEMMA NextInv ==
  ASSUME IInv, [Next]_vars
  PROVE  IInv'
<1> USE DEF IInv
<1>1. CASE SetSpeedPIDTar
  <2>1. setting.speed \in Int
    BY SpeedAssumption DEF TypeOK
  <2>2. TypeOK'
    BY <1>1, <2>1 DEF SetSpeedPIDTar, Write, motion, measure, TypeOK
  <2>3. MotionInv' /\ LimitInv' /\ SpeedPlausible'
    BY <1>1 DEF SetSpeedPIDTar, Write, motion, measure, MotionInv, LimitInv,
                TorqueLimited, SpeedPlausible, Apart
  <2>4. QED
    BY <2>2, <2>3
<1>2. CASE SetSpeedPIDParams
  <2>1. /\ speedPID' \in PI_Struct /\ LimitInv'
    BY <1>2, MainControl
  <2>2. /\ pc' \in {"ki", "outMax", "loop", "angle_init"}
        /\ running => pc' # "angle_init"
        /\ UNCHANGED <<running, motion, moved, measure, setting, tar_speed>>
    BY <1>2 DEF SetSpeedPIDParams, Write
  <2>3. TypeOK'
    BY <2>1, <2>2 DEF motion, measure, TypeOK
  <2>4. MotionInv' /\ SpeedPlausible'
    BY <2>2 DEF motion, measure, MotionInv, SpeedPlausible, Apart
  <2>5. QED
    BY <2>1, <2>3, <2>4
<1>3. CASE angle_init
  <2>1. TypeOK'
    BY <1>3 DEF angle_init, measure, TypeOK
  <2>2. ~running /\ unread = 0 /\ moved = 0 /\ ticks = 0
    BY <1>3 DEF angle_init, MotionInv
  <2>3. MotionInv'
    BY <1>3, <2>2 DEF angle_init, measure, MotionInv, Apart, TypeOK, Angles
  <2>4. LimitInv' /\ SpeedPlausible'
    BY <1>3 DEF angle_init, measure, LimitInv, TorqueLimited, SpeedPlausible
  <2>5. QED
    BY <2>1, <2>3, <2>4
<1>4. CASE EnableInterrupts
  <2>1. TypeOK'
    BY <1>4 DEF EnableInterrupts, motion, measure, TypeOK
  <2>2. MotionInv'
    BY <1>4 DEF EnableInterrupts, motion, measure, MotionInv, Apart
  <2>3. LimitInv' /\ SpeedPlausible'
    BY <1>4 DEF EnableInterrupts, motion, measure, LimitInv, TorqueLimited,
                SpeedPlausible
  <2>4. QED
    BY <2>1, <2>2, <2>3
<1>5. CASE ApplySetting
  <2>1. TypeOK'
    BY <1>5 DEF ApplySetting, motion, measure, TypeOK
  <2>2. MotionInv'
    BY <1>5 DEF ApplySetting, motion, measure, MotionInv, Apart
  <2>3. LimitInv' /\ SpeedPlausible'
    BY <1>5 DEF ApplySetting, motion, measure, LimitInv, TorqueLimited,
                SpeedPlausible
  <2>4. QED
    BY <2>1, <2>2, <2>3
<1>6. CASE FocAngle
  <2>1. TypeOK'
    BY <1>6, SpeedAssumption DEF FocAngle, measure, TypeOK, MotionInv
  <2>2. moved' + unread' \in -MaxMove..MaxMove
    BY <1>6, SpeedAssumption DEF FocAngle, TypeOK, MotionInv
  <2>3. ticks > 0 => Apart(mechanical_angle', speed_last_angle', moved')
    BY <1>6, SpeedAssumption DEF FocAngle, measure, MotionInv, Apart, TypeOK,
                                 Angles
  <2>4. MotionInv'
    BY <1>6, <2>2, <2>3 DEF FocAngle, measure, MotionInv, Apart, TypeOK, Angles
  <2>5. LimitInv' /\ SpeedPlausible'
    BY <1>6 DEF FocAngle, measure, LimitInv, TorqueLimited, SpeedPlausible
  <2>6. QED
    BY <2>1, <2>4, <2>5
<1>7. CASE Tmr5
  <2>1. /\ speed' \in Int /\ speedPID' \in PI_Struct
        /\ LimitInv' /\ SpeedPlausible'
    BY <1>7, Tmr5Control
  <2>2. ticks' \in 0..2
    BY <1>7 DEF Tmr5, TypeOK
  <2>3. TypeOK'
    BY <1>7, <2>1, <2>2, SpeedAssumption DEF Tmr5, motion, TypeOK
  <2>4. MotionInv'
    BY <1>7, SpeedAssumption DEF Tmr5, motion, MotionInv, Apart, TypeOK, Angles
  <2>5. QED
    BY <2>1, <2>3, <2>4
<1>8. ASSUME NEW d \in -MaxMove..MaxMove, Turn(d)
      PROVE  IInv'
  <2>1. /\ d \in Int /\ -Counts < d /\ d < Counts
    BY SpeedAssumption
  <2>2. /\ rotor' \in Angles
        /\ rotor' = rotor + d \/ rotor' = rotor + d - Counts
             \/ rotor' = rotor + d + Counts
    BY <1>8, <2>1, TurnStep DEF Turn, TypeOK
  <2>3. /\ running /\ running' /\ pc' = pc
        /\ unread' = unread + d /\ unread' \in -MaxMove..MaxMove
        /\ moved' = moved
        /\ moved' + unread' \in -MaxMove..MaxMove
    BY <1>8, SpeedAssumption DEF Turn, TypeOK
  <2>4. TypeOK'
    BY <1>8, <2>2, <2>3 DEF Turn, measure, TypeOK
  <2>5. Apart(rotor', mechanical_angle', unread')
    <3>1. /\ unread \in -MaxMove..MaxMove /\ rotor \in Angles
          /\ mechanical_angle \in Angles /\ mechanical_angle' = mechanical_angle
          /\ Apart(rotor, mechanical_angle, unread)
      BY <1>8, <2>3 DEF Turn, TypeOK, MotionInv
    <3>2. d = unread' - unread
      BY <2>1, <2>3, <3>1, SpeedAssumption
    <3>3. QED
      BY <2>2, <2>3, <3>1, <3>2, ApartTurned
  <2>6. MotionInv'
    BY <1>8, <2>3, <2>5 DEF Turn, measure, MotionInv, Apart
  <2>7. LimitInv' /\ SpeedPlausible'
    BY <1>8 DEF Turn, measure, LimitInv, TorqueLimited, SpeedPlausible
  <2>8. QED
    BY <2>4, <2>6, <2>7
<1>9. CASE UNCHANGED vars
  <2>1. TypeOK' /\ MotionInv'
    BY <1>9 DEF vars, motion, measure, TypeOK, MotionInv, Apart
  <2>2. LimitInv' /\ SpeedPlausible'
    BY <1>9 DEF vars, motion, measure, LimitInv, TorqueLimited, SpeedPlausible
  <2>3. QED
    BY <2>1, <2>2
<1>10. QED
  BY <1>1, <1>2, <1>3, <1>4, <1>5, <1>6, <1>7, <1>8, <1>9
  DEF Next, MainStep

LEMMA Invariance == Spec => []IInv
<1>1. IInv /\ [Next]_vars => IInv'
  BY NextInv
<1>2. QED
  BY InitInv, <1>1, PTL DEF Spec

-----------------------------------------------------------------------------
\* Every variable has its type in every reachable state, for every resolution of
\* the encoder, movement bound, limit and set of parameters.
THEOREM TypeCorrect == Spec => []TypeOK
<1>1. IInv => TypeOK
  BY DEF IInv
<1>2. QED
  BY Invariance, <1>1, PTL

\* From the second call on CalculateSpeed works on the movement of the rotor
\* between the two readings it compares, for every resolution of the encoder, as
\* long as the rotor moves less than half a turn between them.
THEOREM SpeedIsTheMovement == Spec => []SpeedIsMovement
<1>1. IInv => SpeedIsMovement
  BY UnwrapIsMovement DEF IInv, TypeOK, MotionInv, SpeedIsMovement, angle_diff
<1>2. QED
  BY Invariance, <1>1, PTL

\* The filtered speed never exceeds half a turn per call, the arbitrary first
\* difference included.
THEOREM SpeedIsPlausible == Spec => []SpeedPlausible
<1>1. IInv => SpeedPlausible
  BY DEF IInv
<1>2. QED
  BY Invariance, <1>1, PTL

\* The torque asked for never exceeds the limit, whatever parameters main()
\* writes and whenever it writes them.
THEOREM TorqueIsLimited == Spec => []TorqueLimited
<1>1. IInv => TorqueLimited
  BY DEF IInv, LimitInv
<1>2. QED
  BY Invariance, <1>1, PTL

\* Every step of the speed loop is a step of the limited positional PI law or
\* leaves it alone.
LEMMA PositionalStep ==
  ASSUME IInv, [Next]_vars
  PROVE  [SpeedPI!Next]_SpeedPI!vars
<1> USE DEF IInv
<1>1. CASE SetSpeedPIDParams
  <2>1. /\ speedPID \in PI_Struct /\ speedPID' \in PI_Struct
        /\ speedPID'.out = speedPID.out
    BY <1>1, MainControl DEF TypeOK
  <2>2. speedPID'.lastBias = speedPID.lastBias
    BY <1>1, <2>1 DEF SetSpeedPIDParams, PI_Struct
  <2>3. SpeedPI!Retune
    BY <2>1, <2>2 DEF SpeedPI!Retune, PI_Struct
  <2>4. QED
    BY <2>3 DEF SpeedPI!Next
<1>2. CASE Tmr5
  <2>1. speed' \in Int /\ tar_speed \in Int /\ speedPID \in PI_Struct
    BY <1>2, Tmr5Control DEF TypeOK
  <2>2. speedPID' = Control(speedPID, tar_speed, speed')
    BY <1>2 DEF Tmr5
  <2>3. /\ speedPID' \in PI_Struct
        /\ speedPID'.kp = speedPID.kp /\ speedPID'.ki = speedPID.ki
        /\ speedPID'.outMax = speedPID.outMax
        /\ speedPID'.out = Limited(speedPID.kp * speedPID'.lastBias
                                     + ((speedPID.out
                                           - speedPID.kp * speedPID.lastBias)
                                        + speedPID.ki * speedPID'.lastBias),
                                   speedPID.outMax)
    BY <2>1, <2>2, ControlIsPositional
  <2>4. ASSUME NEW x, NEW max
        PROVE  Limited(x, max) = SpeedPI!Saturated(x, max)
    BY DEF Limited, fabs, SpeedPI!Saturated
  <2>5. SpeedPI!Control
    BY <2>3, <2>4 DEF SpeedPI!Control, PI_Struct
  <2>6. QED
    BY <2>5 DEF SpeedPI!Next
<1>3. CASE speedPID' = speedPID
  BY <1>3 DEF SpeedPI!vars
<1>4. QED
  BY <1>1, <1>2, <1>3
  DEF Next, MainStep, SetSpeedPIDTar, angle_init, EnableInterrupts,
      ApplySetting, FocAngle, Turn, vars

\* The incremental law of SpeedPIControl, with its limit and with parameters
\* changed one at a time between any two calls, implements the limited positional
\* PI law.
THEOREM SpeedLoopIsPositional == Spec => SpeedPositional
<1>1. Init => SpeedPI!Init
  BY DEF Init, Zeroed, SpeedPI!Init
<1>2. IInv /\ [Next]_vars => [SpeedPI!Next]_SpeedPI!vars
  BY PositionalStep
<1>3. QED
  BY <1>1, <1>2, Invariance, PTL DEF Spec, SpeedPositional, SpeedPI!Spec
=============================================================================
