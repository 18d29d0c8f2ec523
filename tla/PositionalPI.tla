---------------------------- MODULE PositionalPI ----------------------------
(***************************************************************************)
(* What a PI controller promises, in the form of a textbook: its output is *)
(* the proportional part plus an integral, limited.  The integral does not *)
(* wind up (while the output is limited it holds what the limit leaves of  *)
(* it), and a change of the gains, even of one gain alone, moves the       *)
(* integral and never the output.                                          *)
(***************************************************************************)
EXTENDS Integers

VARIABLES kp, ki, outMax, integral, error, out

vars == <<kp, ki, outMax, integral, error, out>>

Init == /\ kp = 0 /\ ki = 0 /\ outMax = 0
        /\ integral = 0 /\ error = 0 /\ out = 0

\* x, or the end of the range -|max|..|max| it lies beyond.
Saturated(x, max) ==
  LET bound == IF max < 0 THEN -max ELSE max
  IN  IF x > bound THEN bound ELSE IF x < -bound THEN -bound ELSE x

Control == /\ error' \in Int
           /\ out' = Saturated(kp * error' + (integral + ki * error'), outMax)
           /\ integral' = out' - kp * error'
           /\ UNCHANGED <<kp, ki, outMax>>

Retune == /\ {kp', ki', outMax'} \subseteq Int
          /\ integral' = out - kp' * error
          /\ UNCHANGED <<error, out>>

Next == Control \/ Retune

Spec == Init /\ [][Next]_vars
=============================================================================
