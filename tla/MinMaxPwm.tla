------------------------------ MODULE MinMaxPwm ------------------------------
(***************************************************************************)
(* What a space-vector modulator promises, said without sectors.  A        *)
(* voltage vector fixes the three differences between the phases; the      *)
(* common-mode part is free, and the modulator centres the phases in the   *)
(* period (min-max injection), stretching the period only when the spread  *)
(* does not fit.  All on-times are doubled so that the half of an idle     *)
(* time is an integer.  The bsp/SVPWM.c algorithm is shown to implement    *)
(* this (module SVPWM).                                                    *)
(***************************************************************************)
EXTENDS Integers

CONSTANT Ts          \* the PWM period, in units of the on-times

VARIABLES request,   \* the line-to-line voltages [ab, ca] asked for last
          duty,      \* doubled on-time of every phase
          period     \* the doubled period the on-times are fractions of

mmVars == <<request, duty, period>>

Phases == {"a", "b", "c"}

Larger(m, n)  == IF m >= n THEN m ELSE n
Smaller(m, n) == IF m <= n THEN m ELSE n

NoVoltage == [ab |-> 0, ca |-> 0]

\* The potential of every phase relative to phase a, for the line-to-line
\* voltages ab (a minus b) and ca (c minus a).
Relative(r) == [p \in Phases |-> IF p = "a" THEN 0
                                 ELSE IF p = "b" THEN -r.ab ELSE r.ca]

Highest(x) == Larger(x["a"], Larger(x["b"], x["c"]))
Lowest(x)  == Smaller(x["a"], Smaller(x["b"], x["c"]))

Period(x) == 2 * Larger(Ts, Highest(x) - Lowest(x))

\* Each phase is as far from the middle of the period as its potential is
\* from the middle of the potentials.
Centred(x) ==
  [p \in Phases |-> 2 * x[p] - (Highest(x) + Lowest(x)) + (Period(x) \div 2)]

Init == /\ request = NoVoltage
        /\ duty = [p \in Phases |-> 0]
        /\ period = 2 * Ts

\* A new nonzero vector is modulated.
Modulate == /\ request' # NoVoltage
            /\ duty' = Centred(Relative(request'))
            /\ period' = Period(Relative(request'))

\* The zero vector is not modulated: the previous pattern is output again.
Hold == /\ request' = NoVoltage
        /\ UNCHANGED <<duty, period>>

Next == Modulate \/ Hold

Spec == Init /\ [][Next]_mmVars
=============================================================================
