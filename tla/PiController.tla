---------------------------- MODULE PiController ----------------------------
(***************************************************************************)
(* struct PI_Struct and what the three controllers (CurrentPIControlID,    *)
(* CurrentPIControlIQ, SpeedPIControl) do with it, and the first-order     *)
(* filter in front of them.  Reals are integers in any unit; kd, pre, tar  *)
(* and bias are left out: kd is never read, the others only inside one     *)
(* call.                                                                   *)
(***************************************************************************)
EXTENDS Integers

PI_Struct == [kp : Int, ki : Int, outMax : Int, lastBias : Int, out : Int]

\* Static storage: all fields 0.
Zeroed == [kp |-> 0, ki |-> 0, outMax |-> 0, lastBias |-> 0, out |-> 0]

fabs(x) == IF x < 0 THEN -x ELSE x

MUpperOnly(x, max) == IF x > fabs(max) THEN fabs(max) ELSE x

\* The two tests that end every controller.
Limited(x, max) == IF x > fabs(max) THEN fabs(max)
                   ELSE IF x < -fabs(max) THEN -fabs(max)
                   ELSE x

MBiasStoredFirst(p, tar, pre) ==
  LET bias == tar - pre
  IN  [p EXCEPT !.out = Limited(p.out + p.kp * (bias - bias) + p.ki * bias,
                                p.outMax),
                !.lastBias = bias]

MBiasNotStored(p, tar, pre) ==
  LET bias == tar - pre
  IN  [p EXCEPT !.out = Limited(p.out + p.kp * (bias - p.lastBias)
                                  + p.ki * bias, p.outMax)]

\* One call: the incremental PI law, limited.
Control(p, tar, pre) ==
  LET bias == tar - pre
  IN  [p EXCEPT !.out = Limited(p.out + p.kp * (bias - p.lastBias)
                                  + p.ki * bias, p.outMax),
                !.lastBias = bias]

\* filtered += alpha * (input - filtered) with 0 < alpha < 1: whatever alpha is,
\* the result lies between the two values.
Filtered(filtered, input) == IF filtered <= input THEN filtered..input
                             ELSE input..filtered
=============================================================================
