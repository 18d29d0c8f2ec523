------------------------------ MODULE AngleSense ------------------------------
(***************************************************************************)
(* How one motor finds its electrical angle: the calibration of the        *)
(* electrical zero in angle_init and the corrected electrical angle that   *)
(* every current-loop handler computes.                                    *)
(*                                                                         *)
(* Numbers.  A mechanical angle is one of Counts encoder readings per      *)
(* turn; an electrical angle is in the same unit (one turn is _2PI, hence  *)
(* Counts).  zero and corr_angle are in tenths of it, because zero is the  *)
(* mean of ten samples.  Rounding of float is not modelled, so the EPSILON *)
(* test of getCorrectedElectricalAngle, which catches a remainder rounded  *)
(* up to _2PI, has nothing to do.                                          *)
(***************************************************************************)
EXTENDS Integers

CONSTANTS Counts,     \* encoder readings per turn
          Jitter,     \* a resting rotor reads within Jitter of its position
          Homes       \* where the rotor may come to rest when dragged

ASSUME AngleAssumption ==
  /\ Counts \in Nat \ {0} /\ Jitter \in Nat
  /\ Homes \subseteq 0..(Counts - 1)

VARIABLES phase,      \* "drag", "discard", "sample", "verify" or "run"
          home,       \* where the dragged rotor came to rest
          samples,    \* samples of angle_init so far
          sum,        \* their sum
          zero, mechanical_angle, corr_angle,
          ok          \* angle_init has printed "angle_init OK"

vars == <<phase, home, samples, sum, zero, mechanical_angle, corr_angle, ok>>

POLE_PAIRS == 11

MNineSamples == 9

\* The loop count of angle_init; the sum is divided by 10 in `zero`.
Samples == 10

-----------------------------------------------------------------------------
\* bsp/FOC.c

\* fmod(angle, turn), plus turn when negative.
Angle_limit(angle, turn) == angle % turn

elec_angle(mech) == Angle_limit(mech * POLE_PAIRS, Counts)

MNoLimit(mech, z) == 10 * elec_angle(mech) - z
MNoZero(mech, z) == Angle_limit(10 * elec_angle(mech), 10 * Counts)

\* getCorrectedElectricalAngle for a reading and a zero.
Corrected(mech, z) == Angle_limit(10 * elec_angle(mech) - z, 10 * Counts)

\* Readings of a rotor at rest.
Readings == {(home + j) % Counts : j \in -Jitter..Jitter}

\* Motor_1 and Motor_2 are zero; the rotor is anywhere.
Init == /\ phase = "drag"
        /\ home \in Homes
        /\ samples = 0 /\ sum = 0 /\ zero = 0
        /\ mechanical_angle = 0 /\ corr_angle = 0 /\ ok = FALSE

\* angle_init: force the rotor, wait for a second, ...
strong_drag == /\ phase = "drag"
               /\ phase' = "discard"
               /\ mechanical_angle' = 0
               /\ corr_angle' = Corrected(0, zero)
               /\ UNCHANGED <<home, samples, sum, zero, ok>>

\* ... read the angle once, ...
Discard == /\ phase = "discard"
           /\ phase' = "sample"
           /\ mechanical_angle' \in Readings
           /\ UNCHANGED <<home, samples, sum, zero, corr_angle, ok>>

\* ... average the next ten electrical angles, ...
Sample == /\ phase = "sample"
          /\ mechanical_angle' \in Readings
          /\ samples' = samples + 1
          /\ sum' = sum + elec_angle(mechanical_angle')
          /\ IF samples' = Samples THEN phase' = "verify" /\ zero' = sum'
                                   ELSE UNCHANGED <<phase, zero>>
          /\ UNCHANGED <<home, corr_angle, ok>>

\* ... and see whether the corrected angle is 0 now.
Verify == /\ phase = "verify"
          /\ phase' = "run"
          /\ mechanical_angle' \in Readings
          /\ corr_angle' = Corrected(mechanical_angle', zero)
          /\ ok' = (corr_angle' = 0)
          /\ UNCHANGED <<home, samples, sum, zero>>

\* getCorrectedElectricalAngle, first thing in FocContorl; the rotor turns freely.
FocAngle == /\ phase = "run"
            /\ mechanical_angle' \in 0..(Counts - 1)
            /\ corr_angle' = Corrected(mechanical_angle', zero)
            /\ UNCHANGED <<phase, home, samples, sum, zero, ok>>

Next == strong_drag \/ Discard \/ Sample \/ Verify \/ FocAngle

Spec == Init /\ [][Next]_vars

-----------------------------------------------------------------------------
\* The type of every variable.
TypeOK == /\ phase \in {"drag", "discard", "sample", "verify", "run"}
          /\ home \in 0..(Counts - 1)
          /\ samples \in 0..Samples /\ ok \in BOOLEAN
          /\ sum \in 0..(Samples * (Counts - 1))
          /\ zero \in 0..(10 * Counts - 1) /\ corr_angle \in 0..(10 * Counts - 1)
          /\ mechanical_angle \in 0..(Counts - 1)

\* Distance of two angles on the circle, in tenths.
Distance(x, y) == LET d == (x - y) % (10 * Counts)
                  IN  IF 2 * d <= 10 * Counts THEN d ELSE 10 * Counts - d

\* zero is as close to the electrical angle at which the rotor rests as the
\* readings are.
Aligned == Distance(zero, 10 * elec_angle(home)) <= 10 * POLE_PAIRS * Jitter

Calibrated == phase \in {"verify", "run"}

\* When angle_init reports success the zero is right: averaging across the jump
\* from 2 pi to 0, which gives a wrong zero, never passes its final test.
OkMeansAligned == ok => Aligned

\* No reading of the resting rotor is across the jump, seen from home.
Away == \A j \in -Jitter..Jitter :
          10 * elec_angle((home + j) % Counts)
            = 10 * elec_angle(home) + 10 * POLE_PAIRS * j

\* Away from the jump, the mean of the samples is a correct zero.
AlignedAwayFromJump == Calibrated /\ Away => Aligned

\* What the head comment of angle_init says (FOC.c:212): the zero offset of the
\* electrical angle is computed from the dragged position.
CalibrationAligned == Calibrated => Aligned
=============================================================================
