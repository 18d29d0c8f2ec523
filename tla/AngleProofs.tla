----------------------------- MODULE AngleProofs -----------------------------
(***************************************************************************)
(* The calibration of the electrical zero for every encoder resolution,    *)
(* jitter and resting place.  Modulo a turn every angle here is 11 times   *)
(* the mechanical one; the lemmas keep the whole turns as an unknown       *)
(* number k.                                                               *)
(***************************************************************************)
EXTENDS AngleSense, TLAPS

\* A remainder differs from its number by whole turns.
LEMMA WholeTurns ==
  ASSUME NEW x \in Int, NEW n \in Nat \ {0}
  PROVE  x % n \in 0..(n - 1) /\ \E k \in Int : x % n = x + k * n
<1>1. x % n = x - n * (x \div n)
  OBVIOUS
<1>2. x % n \in 0..(n - 1) /\ x \div n \in Int
  OBVIOUS
<1>3. -(x \div n) \in Int /\ x % n = x + (-(x \div n)) * n
  BY <1>1, <1>2
<1>4. QED
  BY <1>2, <1>3

\* Two angles that differ by c, up to whole turns, are at most |c| apart on the
\* circle.
LEMMA DistanceWithin ==
  ASSUME NEW x \in Int, NEW y \in Int, NEW c \in Int, NEW b \in Int,
         -b <= c, c <= b,
         \E k \in Int : x - y = c + k * (10 * Counts)
  PROVE  Distance(x, y) <= b
<1> DEFINE n == 10 * Counts
           e == x - y
           d == e % n
<1>1. n \in Nat \ {0} /\ e \in Int
  BY AngleAssumption
<1>2. PICK k \in Int : e = c + k * n
  OBVIOUS
<1>3. Distance(x, y) = IF 2 * d <= n THEN d ELSE n - d
  BY DEF Distance
<1> HIDE DEF n, e
<1>4. d \in 0..(n - 1)
  BY <1>1, WholeTurns
<1>5. PICK l \in Int : d = e + l * n
  BY <1>1, WholeTurns
<1>6. k + l \in Int /\ d = c + (k + l) * n
  BY <1>1, <1>2, <1>5
<1> HIDE DEF d
<1>7. CASE k + l <= 0
  <2>1. (k + l) * n <= 0
    BY <1>1, <1>7
  <2>2. d <= c
    BY <1>1, <1>4, <1>6, <2>1
  <2>3. QED
    BY <1>1, <1>3, <1>4, <2>2
<1>8. CASE k + l >= 1
  <2>1. (k + l) * n >= n
    BY <1>1, <1>8
  <2>2. n - d <= -c
    BY <1>1, <1>4, <1>6, <2>1
  <2>3. QED
    BY <1>1, <1>3, <1>4, <2>2
<1>9. QED
  BY <1>6, <1>7, <1>8

\* The electrical angle of a reading, in whole electrical turns.
LEMMA Electrical ==
  ASSUME NEW m \in Int
  PROVE  /\ elec_angle(m) \in 0..(Counts - 1)
         /\ \E k \in Int : elec_angle(m) = 11 * m + k * Counts
<1>1. m * POLE_PAIRS \in Int /\ m * POLE_PAIRS = 11 * m
  BY DEF POLE_PAIRS
<1>2. Counts \in Nat \ {0}
  BY AngleAssumption
<1>3. QED
  BY <1>1, <1>2, WholeTurns DEF elec_angle, Angle_limit

LEMMA CorrectedTurns ==
  ASSUME NEW m \in Int, NEW z \in Int
  PROVE  /\ Corrected(m, z) \in 0..(10 * Counts - 1)
         /\ \E k \in Int :
              Corrected(m, z) = 10 * elec_angle(m) - z + k * (10 * Counts)
<1>1. 10 * elec_angle(m) - z \in Int
  BY Electrical, AngleAssumption
<1>2. 10 * Counts \in Nat \ {0}
  BY AngleAssumption
<1>3. QED
  BY <1>1, <1>2, WholeTurns DEF Corrected, Angle_limit

\* The readings of a rotor at rest.
LEMMA ReadingsTurns ==
  ASSUME home \in 0..(Counts - 1), NEW m \in Readings
  PROVE  /\ m \in 0..(Counts - 1)
         /\ \E j \in -Jitter..Jitter :
              /\ m = (home + j) % Counts
              /\ \E k \in Int : m = home + j + k * Counts
<1>1. PICK j \in -Jitter..Jitter : m = (home + j) % Counts
  BY DEF Readings
<1>2. home + j \in Int /\ Counts \in Nat \ {0}
  BY AngleAssumption
<1>3. m \in 0..(Counts - 1) /\ \E k \in Int : m = home + j + k * Counts
  BY <1>1, <1>2, WholeTurns
<1>4. QED
  BY <1>1, <1>3

-----------------------------------------------------------------------------
\* A sum of `samples` electrical angles; `zero` is that sum once all are taken.
SumInv ==
  /\ phase \in {"drag", "discard"} => samples = 0
  /\ phase = "sample" => samples < Samples
  /\ 0 <= sum /\ sum <= samples * (Counts - 1)
  /\ Calibrated => samples = Samples /\ zero = sum

\* Away from the jump the sum stays as close to home as the samples are.
AwayInv == Away =>
  /\ -(samples * (11 * Jitter)) <= sum - samples * elec_angle(home)
  /\ sum - samples * elec_angle(home) <= samples * (11 * Jitter)

OkInv == ok => Calibrated /\ Aligned

IInv == TypeOK /\ SumInv /\ AwayInv /\ OkInv

LEMMA InitInv == Init => IInv
<1> SUFFICES ASSUME Init PROVE IInv
  OBVIOUS
<1>1. /\ Counts \in Nat \ {0} /\ Jitter \in Nat /\ home \in 0..(Counts - 1)
  BY AngleAssumption DEF Init
<1>2. TypeOK
  <2>1. /\ phase = "drag" /\ samples = 0 /\ sum = 0 /\ zero = 0
        /\ mechanical_angle = 0 /\ corr_angle = 0
    BY DEF Init
  <2>2. /\ samples \in 0..Samples /\ sum \in 0..(Samples * (Counts - 1))
        /\ zero \in 0..(10 * Counts - 1) /\ corr_angle \in 0..(10 * Counts - 1)
        /\ mechanical_angle \in 0..(Counts - 1)
    BY <1>1, <2>1 DEF Samples
  <2>3. ok \in BOOLEAN
    BY DEF Init
  <2>4. QED
    BY <1>1, <2>1, <2>2, <2>3 DEF TypeOK
<1>3. SumInv
  BY <1>1 DEF Init, SumInv, Calibrated
<1>4. AwayInv
  <2>1. elec_angle(home) \in Int
    BY <1>1, Electrical
  <2>2. QED
    BY <1>1, <2>1 DEF Init, AwayInv
<1>5. QED
  BY <1>2, <1>3, <1>4 DEF Init, OkInv, IInv

\* One more sample.
LEMMA SampleInv ==
  ASSUME IInv, Sample
  PROVE  IInv'
<1> USE DEF IInv
<1> DEFINE e == elec_angle(mechanical_angle')
           h == elec_angle(home)
<1>1. /\ Counts \in Nat \ {0} /\ Jitter \in Nat /\ home \in 0..(Counts - 1)
      /\ samples \in 0..9 /\ samples' = samples + 1 /\ sum' = sum + e
      /\ sum \in Int /\ 0 <= sum /\ sum <= samples * (Counts - 1)
      /\ mechanical_angle' \in Readings
      /\ home' = home /\ corr_angle' = corr_angle /\ ok' = ok /\ ~ok
      /\ phase = "sample"
  BY AngleAssumption DEF Sample, SumInv, OkInv, Calibrated, TypeOK, Samples
<1>2. mechanical_angle' \in 0..(Counts - 1)
  BY <1>1, ReadingsTurns
<1>3. /\ e \in 0..(Counts - 1) /\ h \in Int
  BY <1>1, <1>2, Electrical
<1>4. \/ samples' # Samples /\ phase' = phase /\ zero' = zero
      \/ samples' = Samples /\ phase' = "verify" /\ zero' = sum'
  BY DEF Sample
<1> HIDE DEF e, h
<1>5. 0 <= sum' /\ sum' <= samples' * (Counts - 1)
  <2>1. samples' * (Counts - 1) = samples * (Counts - 1) + (Counts - 1)
    BY <1>1
  <2>2. QED
    BY <1>1, <1>3, <2>1
<1>6. SumInv'
  BY <1>1, <1>4, <1>5 DEF SumInv, Calibrated, Samples
<1>7. sum' \in Int /\ sum' <= 10 * (Counts - 1)
  <2>1. samples' * (Counts - 1) <= 10 * (Counts - 1)
    BY <1>1
  <2>2. QED
    BY <1>1, <1>3, <1>5, <2>1
<1>8. TypeOK'
  <2>1. samples' \in 0..Samples /\ sum' \in 0..(Samples * (Counts - 1))
    BY <1>1, <1>5, <1>7 DEF Samples
  <2>2. phase' \in {"sample", "verify"} /\ zero' \in 0..(10 * Counts - 1)
    BY <1>1, <1>4, <1>5, <1>7 DEF TypeOK
  <2>3. QED
    BY <1>1, <1>2, <2>1, <2>2 DEF TypeOK
<1>9. AwayInv'
  <2> SUFFICES ASSUME Away
               PROVE  /\ -(samples' * (11 * Jitter)) <= sum' - samples' * h
                      /\ sum' - samples' * h <= samples' * (11 * Jitter)
    BY <1>1 DEF AwayInv, Away, h
  <2>1. PICK j \in -Jitter..Jitter : mechanical_angle' = (home + j) % Counts
    BY <1>1, ReadingsTurns
  <2>2. 10 * e = 10 * h + 10 * POLE_PAIRS * j
    BY <2>1 DEF Away, e, h
  <2>3. j \in Int /\ -Jitter <= j /\ j <= Jitter
    BY <1>1
  <2>4. e - h = 11 * j
    BY <1>3, <2>2, <2>3 DEF POLE_PAIRS
  <2>5. /\ -(samples * (11 * Jitter)) <= sum - samples * h
        /\ sum - samples * h <= samples * (11 * Jitter)
    BY DEF AwayInv, h
  <2>6. /\ samples' * h = samples * h + h
        /\ samples' * (11 * Jitter) = samples * (11 * Jitter) + 11 * Jitter
    BY <1>1, <1>3
  <2>7. QED
    BY <1>1, <1>3, <2>3, <2>4, <2>5, <2>6
<1>10. OkInv'
  BY <1>1 DEF OkInv
<1>11. QED
  BY <1>6, <1>8, <1>9, <1>10

\* The final test: a corrected angle of 0 means that the zero is that of the last
\* reading.
LEMMA VerifyInv ==
  ASSUME IInv, Verify
  PROVE  IInv'
<1> USE DEF IInv
<1>1. /\ phase = "verify" /\ phase' = "run" /\ home \in 0..(Counts - 1)
      /\ mechanical_angle' \in Readings
      /\ corr_angle' = Corrected(mechanical_angle', zero)
      /\ ok' = (corr_angle' = 0)
      /\ UNCHANGED <<home, samples, sum, zero>>
      /\ zero \in Int
  BY AngleAssumption DEF Verify, TypeOK
<1>2. mechanical_angle' \in 0..(Counts - 1)
  BY <1>1, ReadingsTurns
<1>3. corr_angle' \in 0..(10 * Counts - 1)
  BY <1>1, <1>2, CorrectedTurns
<1>4. TypeOK'
  <2>1. ok' \in BOOLEAN
    BY <1>1
  <2>2. QED
    BY <1>1, <1>2, <1>3, <2>1 DEF TypeOK
<1>5. SumInv' /\ AwayInv'
  BY <1>1 DEF SumInv, Calibrated, AwayInv, Away, Samples
<1>6. ASSUME corr_angle' = 0
      PROVE  Aligned
  <2>1. PICK j \in -Jitter..Jitter :
          \E k \in Int : mechanical_angle' = home + j + k * Counts
    BY <1>1, ReadingsTurns
  <2>2. PICK k1 \in Int : mechanical_angle' = home + j + k1 * Counts
    BY <2>1
  <2>3. PICK k2 \in Int : elec_angle(mechanical_angle')
                            = 11 * mechanical_angle' + k2 * Counts
    BY <1>2, Electrical
  <2>4. PICK k3 \in Int : elec_angle(home) = 11 * home + k3 * Counts
    BY <1>1, Electrical
  <2>5. PICK k4 \in Int :
          0 = 10 * elec_angle(mechanical_angle') - zero + k4 * (10 * Counts)
    <3>1. mechanical_angle' \in Int
      BY <1>2
    <3>2. \E k \in Int : Corrected(mechanical_angle', zero)
            = 10 * elec_angle(mechanical_angle') - zero + k * (10 * Counts)
      BY <1>1, <3>1, CorrectedTurns
    <3>3. QED
      BY <1>1, <1>6, <3>2
  <2>6. /\ Counts \in Int /\ Jitter \in Nat /\ j \in Int /\ home \in Int
        /\ -Jitter <= j /\ j <= Jitter
        /\ elec_angle(home) \in Int /\ elec_angle(mechanical_angle') \in Int
    BY <1>1, <1>2, Electrical, AngleAssumption
  <2>7. zero - 10 * elec_angle(home)
          = 110 * j + (k4 + k2 + 11 * k1 - k3) * (10 * Counts)
    BY <1>1, <2>2, <2>3, <2>4, <2>5, <2>6
  <2>8. Distance(zero, 10 * elec_angle(home)) <= 110 * Jitter
    <3> DEFINE y == 10 * elec_angle(home)
               c == 110 * j
               b == 110 * Jitter
    <3>1. /\ zero \in Int /\ y \in Int /\ c \in Int /\ b \in Int
          /\ -b <= c /\ c <= b
      BY <1>1, <2>6
    <3>2. \E k \in Int : zero - y = c + k * (10 * Counts)
      <4>1. k4 + k2 + 11 * k1 - k3 \in Int
        OBVIOUS
      <4>2. WITNESS k4 + k2 + 11 * k1 - k3 \in Int
      <4>3. QED
        BY <2>7
    <3> HIDE DEF y, c, b
    <3>3. Distance(zero, y) <= b
      BY <3>1, <3>2, DistanceWithin
    <3>4. QED
      BY <3>3 DEF y, b
  <2>9. QED
    BY <2>6, <2>8 DEF Aligned, POLE_PAIRS
<1>7. OkInv'
  BY <1>1, <1>6 DEF OkInv, Calibrated, Aligned
<1>8. QED
  BY <1>4, <1>5, <1>7

LEMMA NextInv ==
  ASSUME IInv, [Next]_vars
  PROVE  IInv'
<1> USE DEF IInv
<1>1. CASE strong_drag
  <2>1. /\ 0 \in 0..(Counts - 1) /\ zero \in Int
    BY AngleAssumption DEF TypeOK
  <2>2. corr_angle' \in 0..(10 * Counts - 1)
    BY <1>1, <2>1, CorrectedTurns DEF strong_drag
  <2>3. TypeOK'
    BY <1>1, <2>1, <2>2 DEF strong_drag, TypeOK
  <2>4. SumInv' /\ AwayInv' /\ OkInv'
    BY <1>1 DEF strong_drag, SumInv, Calibrated, AwayInv, Away, OkInv
  <2>5. QED
    BY <2>3, <2>4
<1>2. CASE Discard
  <2>1. mechanical_angle' \in 0..(Counts - 1)
    BY <1>2, ReadingsTurns DEF Discard, TypeOK
  <2>2. TypeOK'
    BY <1>2, <2>1 DEF Discard, TypeOK
  <2>3. SumInv' /\ AwayInv' /\ OkInv'
    BY <1>2 DEF Discard, SumInv, Calibrated, AwayInv, Away, OkInv, Samples
  <2>4. QED
    BY <2>2, <2>3
<1>3. CASE Sample
  BY <1>3, SampleInv
<1>4. CASE Verify
  BY <1>4, VerifyInv
<1>5. CASE FocAngle
  <2>1. mechanical_angle' \in 0..(Counts - 1) /\ mechanical_angle' \in Int
        /\ zero \in Int
    BY <1>5, AngleAssumption DEF FocAngle, TypeOK
  <2>2. corr_angle' \in 0..(10 * Counts - 1)
    BY <1>5, <2>1, CorrectedTurns DEF FocAngle
  <2>3. TypeOK'
    BY <1>5, <2>1, <2>2 DEF FocAngle, TypeOK
  <2>4. SumInv' /\ AwayInv' /\ OkInv'
    BY <1>5
    DEF FocAngle, SumInv, Calibrated, AwayInv, Away, OkInv, Aligned
  <2>5. QED
    BY <2>3, <2>4
<1>6. CASE UNCHANGED vars
  <2>1. TypeOK'
    BY <1>6 DEF vars, TypeOK
  <2>2. SumInv' /\ AwayInv' /\ OkInv'
    BY <1>6 DEF vars, SumInv, Calibrated, AwayInv, Away, OkInv, Aligned
  <2>3. QED
    BY <2>1, <2>2
<1>7. QED
  BY <1>1, <1>2, <1>3, <1>4, <1>5, <1>6 DEF Next

LEMMA Invariance == Spec => []IInv
<1>1. IInv /\ [Next]_vars => IInv'
  BY NextInv
<1>2. QED
  BY InitInv, <1>1, PTL DEF Spec

-----------------------------------------------------------------------------
\* Every variable has its type in every reachable state.
THEOREM TypeCorrect == Spec => []TypeOK
<1>1. IInv => TypeOK
  BY DEF IInv
<1>2. QED
  BY Invariance, <1>1, PTL

\* "angle_init OK" is printed only for a zero as close to the rotor's electrical
\* angle as a reading is, for every resolution, jitter and resting place.
THEOREM OkMeansTheZeroIsRight == Spec => []OkMeansAligned
<1>1. IInv => OkMeansAligned
  BY DEF IInv, OkInv, OkMeansAligned
<1>2. QED
  BY Invariance, <1>1, PTL

\* Where the readings of the resting rotor do not straddle the jump from 2 pi to
\* 0, their mean is a zero as close to the rotor's electrical angle.
THEOREM ZeroIsRightAwayFromJump == Spec => []AlignedAwayFromJump
<1>1. ASSUME IInv, Calibrated, Away
      PROVE  Aligned
  <2> DEFINE h == elec_angle(home)
  <2>1. /\ Jitter \in Nat /\ Counts \in Nat \ {0} /\ h \in Int
        /\ samples = 10 /\ zero = sum /\ zero \in Int
    BY <1>1, Electrical, AngleAssumption DEF IInv, TypeOK, SumInv, Samples
  <2>2. /\ -(10 * (11 * Jitter)) <= zero - 10 * h
        /\ zero - 10 * h <= 10 * (11 * Jitter)
    BY <1>1, <2>1 DEF IInv, AwayInv
  <2> HIDE DEF h
  <2> DEFINE y == 10 * h
             c == zero - y
             b == 110 * Jitter
  <2>3. /\ y \in Int /\ c \in Int /\ b \in Int /\ -b <= c /\ c <= b
        /\ zero - y = c + 0 * (10 * Counts)
    BY <2>1, <2>2
  <2> HIDE DEF y, c, b
  <2>4. \E k \in Int : zero - y = c + k * (10 * Counts)
    <3>1. WITNESS 0 \in Int
    <3>2. QED
      BY <2>3
  <2>5. Distance(zero, y) <= b
    BY <2>1, <2>3, <2>4, DistanceWithin
  <2>6. QED
    BY <2>1, <2>5 DEF y, b, h, Aligned, POLE_PAIRS
<1>2. IInv => AlignedAwayFromJump
  BY <1>1 DEF AlignedAwayFromJump
<1>3. QED
  BY Invariance, <1>2, PTL
=============================================================================
