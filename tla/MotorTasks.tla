----------------------------- MODULE MotorTasks -----------------------------
(***************************************************************************)
(* What the computations of the firmware rely on, whatever interrupts      *)
(* what: the encoder reads of angle_init, the current loops and the speed  *)
(* loop are executed one at a time, each from its beginning to its end.    *)
(* Every read of the calibration and every current loop gets one angle,    *)
(* latched after it began; and no loop begins before both calibrations     *)
(* have taken all their reads, motor 1 first.  This is what allows modules *)
(* AngleSense, CurrentLoop and SpeedLoop to treat each of them as a step.  *)
(* Ports, flags, priorities and busy-waits do not appear (module           *)
(* FocInterrupts).                                                         *)
(***************************************************************************)
EXTENDS Integers

CONSTANT Reads        \* the reads of one calibration

VARIABLES task,       \* what is under way, and for which motor
          angle,      \* how far the angle of this task is
          left        \* reads the two calibrations still have to take

taskVars == <<task, angle, left>>

Motors == {1, 2}

Nothing == <<"nothing", 0>>
Speed == <<"speed", 0>>
Current == {"current"} \X Motors
Calibration(m) == <<"calibration", m>>

Init == task = Nothing /\ angle = "none" /\ left = 2 * Reads

\* A loop begins; it has no angle yet.
Begin == /\ task = Nothing /\ left = 0
         /\ task' \in Current \cup {Speed}
         /\ UNCHANGED <<angle, left>>

\* The encoder latches a frame for the task that asks for it.
LatchCalibration == /\ task = Nothing /\ left > 0
                    /\ task' = Calibration(IF left > Reads THEN 1 ELSE 2)
                    /\ angle' = "latched"
                    /\ UNCHANGED left

LatchCurrent == /\ task \in Current /\ angle = "none"
                /\ angle' = "latched"
                /\ UNCHANGED <<task, left>>

\* The angle arrives in memory.
Store == /\ angle = "latched" /\ angle' = "stored"
         /\ UNCHANGED <<task, left>>

TakeCalibration == /\ task = Calibration(task[2]) /\ angle = "stored"
                   /\ task' = Nothing /\ angle' = "none" /\ left' = left - 1

TakeCurrent == /\ task \in Current /\ angle = "stored"
               /\ angle' = "taken"
               /\ UNCHANGED <<task, left>>

End == /\ task = Speed \/ angle = "taken"
       /\ task' = Nothing /\ angle' = "none"
       /\ UNCHANGED left

Next == Begin \/ LatchCalibration \/ LatchCurrent \/ Store \/ TakeCalibration
        \/ TakeCurrent \/ End

Spec == Init /\ [][Next]_taskVars
=============================================================================
