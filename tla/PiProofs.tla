------------------------------ MODULE PiProofs ------------------------------
(***************************************************************************)
(* What the operators of PiController return, for every parameter set,     *)
(* target and measured value: cited by the proofs about the three          *)
(* controllers.                                                            *)
(***************************************************************************)
EXTENDS PiController, TLAPS

\* The tests that end a controller leave a value of magnitude outMax at most.
LEMMA LimitedWithin ==
  ASSUME NEW x \in Int, NEW max \in Int
  PROVE  Limited(x, max) \in Int /\ fabs(Limited(x, max)) <= fabs(max)
BY DEF Limited, fabs

\* The filter's result is a number between its old value and its input.
LEMMA FilteredBetween ==
  ASSUME NEW x \in Int, NEW input \in Int, NEW y \in Filtered(x, input)
  PROVE  /\ y \in Int
         /\ (x <= y /\ y <= input) \/ (input <= y /\ y <= x)
<1>1. CASE x <= input
  BY <1>1 DEF Filtered
<1>2. CASE ~(x <= input)
  BY <1>2 DEF Filtered
<1>3. QED
  BY <1>1, <1>2

\* A filter that works on values in a symmetric range stays in it.
LEMMA FilteredWithin ==
  ASSUME NEW x \in Int, NEW input \in Int, NEW y \in Filtered(x, input),
         NEW b \in Int, 2 * fabs(x) <= b, 2 * fabs(input) <= b
  PROVE  2 * fabs(y) <= b
BY FilteredBetween DEF fabs

\* One call of a controller is one step of the limited positional law, whose
\* integral is out - kp * lastBias.
LEMMA ControlIsPositional ==
  ASSUME NEW p \in PI_Struct, NEW tar \in Int, NEW pre \in Int,
         NEW q, q = Control(p, tar, pre)
  PROVE  /\ q \in PI_Struct
         /\ q.kp = p.kp /\ q.ki = p.ki /\ q.outMax = p.outMax
         /\ q.lastBias = tar - pre
         /\ q.out = Limited(p.kp * q.lastBias
                              + ((p.out - p.kp * p.lastBias)
                                   + p.ki * q.lastBias), p.outMax)
<1> DEFINE bias == tar - pre
           sum == p.out + p.kp * (bias - p.lastBias) + p.ki * bias
<1>1. /\ p.kp \in Int /\ p.ki \in Int /\ p.outMax \in Int
      /\ p.lastBias \in Int /\ p.out \in Int /\ bias \in Int
  BY DEF PI_Struct
<1>2. q = [p EXCEPT !.out = Limited(sum, p.outMax), !.lastBias = bias]
  BY DEF Control
<1>3. sum \in Int
  BY <1>1
<1>4. sum = p.kp * bias + ((p.out - p.kp * p.lastBias) + p.ki * bias)
  BY <1>1
<1>5. Limited(sum, p.outMax) \in Int
  BY <1>1, <1>3, LimitedWithin
<1> HIDE DEF bias, sum
<1>6. /\ q \in PI_Struct
      /\ q.kp = p.kp /\ q.ki = p.ki /\ q.outMax = p.outMax
      /\ q.lastBias = bias /\ q.out = Limited(sum, p.outMax)
  BY <1>1, <1>2, <1>5 DEF PI_Struct
<1>7. QED
  BY <1>4, <1>6 DEF bias
=============================================================================
