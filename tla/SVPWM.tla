-------------------------------- MODULE SVPWM --------------------------------
(***************************************************************************)
(* The PWM output of one motor: the sector algorithm of bsp/SVPWM.c, the   *)
(* compare registers written through setpwm1_channel / setpwm2_channel and *)
(* the ADC trigger compare of M1_adc_tigger / M2_adc_tigger.  Motor 1      *)
(* (SVpwm_1, TMR4) and motor 2 (SVpwm_2, TMR2) run the same code on their  *)
(* own structures, so the module is the state of either one.               *)
(*                                                                         *)
(* Numbers.  U_alpha and U_beta are integers a and b in a unit chosen so   *)
(* that SQRT3 * Ts / UDC needs no fraction: with u1 = 500 b,               *)
(* u2 = 433 a - 250 b and u3 = -433 a - 250 b (SQRT3_2 = 0.866,            *)
(* _1_2 = 0.5), one unit is 6000 / (1.732 * Ts) volts and Ts is the PWM    *)
(* period in the unit of u1, u2, u3.  Rounding of float is not modelled.   *)
(* Times are doubled because t7 is a half.  Scaling t by k_svpwm = Ts/sum  *)
(* is kept exact by leaving t alone and counting it as a fraction of sum   *)
(* instead of Ts: `period` is the doubled denominator.                     *)
(***************************************************************************)
EXTENDS Integers

CONSTANTS Ts,       \* the PWM period in units of u1, u2, u3
          OutMax    \* the clamp of idPID.out and iqPID.out, in units of U

ASSUME SvpwmAssumption == Ts \in Nat \ {0} /\ OutMax \in Nat

VARIABLES boot,     \* how far main() has come with this motor
          U,        \* the vector of the last SVpwm call
          duty,     \* doubled Ta, Tb, Tc
          period,   \* doubled denominator of duty
          ccr,      \* compare registers of the three phases
          adcTrig   \* compare register that triggers the ADC

vars == <<boot, U, duty, period, ccr, adcTrig>>

Phases == {"a", "b", "c"}

-----------------------------------------------------------------------------
\* foc_config.h

ALL_Duty == 5000
Udc == 12000                 \* UDC and VOLTAGE_HIGH, in mV

\* The full-scale compare value: ALL_Duty * 0.9f.
FullCompare == (ALL_Duty * 9) \div 10

-----------------------------------------------------------------------------
\* bsp/SVPWM.c

u1(a, b) == 500 * b
u2(a, b) == 433 * a - 250 * b
u3(a, b) == -433 * a - 250 * b

Bit(x) == IF x > 0 THEN 1 ELSE 0

Sector(a, b) == Bit(u1(a, b)) + 2 * Bit(u2(a, b)) + 4 * Bit(u3(a, b))

\* The two active vectors of a sector: `one` turns on only the phase hi, `two`
\* turns on hi and mid.
Dwell(hi, mid, one, two) == [hi |-> hi, mid |-> mid, one |-> one, two |-> two]

MSwapCase4(a, b) ==
  << Dwell("b", "a", -u2(a, b), -u3(a, b)),
     Dwell("a", "c", -u3(a, b), -u1(a, b)),
     Dwell("a", "b",  u2(a, b),  u1(a, b)),
     Dwell("c", "b", -u2(a, b), -u1(a, b)),
     Dwell("b", "c",  u1(a, b),  u3(a, b)),
     Dwell("c", "a",  u3(a, b),  u2(a, b)) >>[Sector(a, b)]

\* The switch over the sectors, from case 1 to case 6 (t2/t6, t4/t5, t4/t6,
\* t1/t3, t2/t3, t1/t5).
Vectors(a, b) ==
  << Dwell("b", "a", -u2(a, b), -u3(a, b)),
     Dwell("a", "c", -u3(a, b), -u1(a, b)),
     Dwell("a", "b",  u2(a, b),  u1(a, b)),
     Dwell("c", "b", -u1(a, b), -u2(a, b)),
     Dwell("b", "c",  u1(a, b),  u3(a, b)),
     Dwell("c", "a",  u3(a, b),  u2(a, b)) >>[Sector(a, b)]

MNoOverModulation(d) == Ts

\* The denominator after the over-modulation test `sum > Ts`.
Scale(d) == IF d.one + d.two > Ts THEN d.one + d.two ELSE Ts

\* t7 doubled.
ZeroTime(d) == Scale(d) - d.one - d.two

\* Ta, Tb, Tc doubled.
OnTimes(d) ==
  [p \in Phases |-> ZeroTime(d) + (IF p = d.hi THEN 2 * (d.one + d.two)
                                   ELSE IF p = d.mid THEN 2 * d.two ELSE 0)]

-----------------------------------------------------------------------------
\* bsp/FOC.c

limit(x, low, high) == IF x >= high THEN high ELSE IF x <= low THEN low ELSE x

\* setpwm1_channel and setpwm2_channel for the duty num/den of every phase: the
\* conversion to the integer register truncates.
SetPWM(num, den) == ccr' = [p \in Phases |-> (num[p] * FullCompare) \div den]

\* Phase voltages in mV for a vector in mV.
inv_clarke_transform(alpha, beta) ==
  [p \in Phases |-> Udc \div 2 +
     (IF p = "a" THEN alpha
      ELSE IF p = "b" THEN (1732 * beta - 1000 * alpha) \div 2000
      ELSE (-1732 * beta - 1000 * alpha) \div 2000)]

setpwm(Uabc) == SetPWM([p \in Phases |-> limit(Uabc[p], 0, Udc)], Udc)

-----------------------------------------------------------------------------

MNoPeriod == /\ boot = "reset"
             /\ U = [a |-> 0, b |-> 0]
             /\ duty = [p \in Phases |-> 0]
             /\ period = 0
             /\ ccr = [p \in Phases |-> 0]
             /\ adcTrig = 0

\* Timers are initialised with every compare value 0; SVpwm_1 and SVpwm_2 are
\* zero except for Ts.
Init == /\ boot = "reset"
        /\ U = [a |-> 0, b |-> 0]
        /\ duty = [p \in Phases |-> 0]
        /\ period = 2 * Ts
        /\ ccr = [p \in Phases |-> 0]
        /\ adcTrig = 0

MTriggerAtHalf ==
  /\ boot = "reset"
  /\ boot' = "triggered"
  /\ adcTrig' = (ALL_Duty * 5) \div 10
  /\ UNCHANGED <<U, duty, period, ccr>>

\* M1_adc_tigger(ALL_Duty), M2_adc_tigger(ALL_Duty).
adc_tigger == /\ boot = "reset"
              /\ boot' = "triggered"
              /\ adcTrig' = FullCompare
              /\ UNCHANGED <<U, duty, period, ccr>>

\* angle_init drags the rotor with Ud = 2 V, Uq = 0 at the corrected angle 0
\* (mechanical angle 0, zero still 0), so the vector is (Ud, Uq) itself.
strong_drag == /\ boot = "triggered"
               /\ boot' = "running"
               /\ setpwm(inv_clarke_transform(2000, 0))
               /\ UNCHANGED <<U, duty, period, adcTrig>>

\* SVpwm followed by setSVpwm at the end of FocContorl.  Sector 0 is the
\* default case of the switch: Ta, Tb, Tc keep their values and are written
\* again.
SVpwm(a, b) ==
  /\ boot = "running"
  /\ U' = [a |-> a, b |-> b]
  /\ IF Sector(a, b) \in 1..6
       THEN /\ duty' = OnTimes(Vectors(a, b))
            /\ period' = 2 * Scale(Vectors(a, b))
       ELSE UNCHANGED <<duty, period>>
  /\ SetPWM(duty', period')
  /\ UNCHANGED <<boot, adcTrig>>

\* Ud and Uq are clamped to OutMax and rotated, so |U| <= sqrt(2) * OutMax.
Next == \/ adc_tigger
        \/ strong_drag
        \/ \E a, b \in -(2 * OutMax)..(2 * OutMax) :
             a * a + b * b <= 2 * OutMax * OutMax /\ SVpwm(a, b)

Spec == Init /\ [][Next]_vars

-----------------------------------------------------------------------------
\* Every variable has the shape its C counterpart has.
TypeOK == /\ boot \in {"reset", "triggered", "running"}
          /\ U \in [a : Int, b : Int]
          /\ duty \in [Phases -> Int]
          /\ period \in Nat \ {0}
          /\ ccr \in [Phases -> Int]
          /\ adcTrig \in Nat

\* On-times are never negative and never longer than the period, whichever
\* sector and whether or not over-modulation scaled them; this also covers the
\* stale on-times kept by the default case of the switch.
DutyInPeriod == \A p \in Phases : 0 <= duty[p] /\ duty[p] <= period

\* No phase compare value passes the compare value that triggers the ADC, from
\* reset on: no high side is on beyond the moment of sampling.  At full duty the
\* two values are equal, and the low side switches at that very moment.
SampleInLowSide == \A p \in Phases : 0 <= ccr[p] /\ ccr[p] <= adcTrig

\* After a nonzero vector the three phase differences are the line-to-line
\* voltages u2, u1, u3 of that vector, in all six sectors and on their borders.
LineVoltages ==
  U # [a |-> 0, b |-> 0] =>
    /\ duty["a"] - duty["b"] = 2 * u2(U.a, U.b)
    /\ duty["b"] - duty["c"] = 2 * u1(U.a, U.b)
    /\ duty["c"] - duty["a"] = 2 * u3(U.a, U.b)

Reference == INSTANCE MinMaxPwm
               WITH request <- [ab |-> u2(U.a, U.b), ca |-> u3(U.a, U.b)]

\* The sector switch and the over-modulation test implement min-max injection:
\* every call of SVpwm centres the phases in the period, and stretches the
\* period only when the vector does not fit.
MinMaxRefinement == Reference!Spec

\* What the comment at SVPWM.c:60 announces ("the on-times of the non-zero
\* vectors and of the zero vector are computed"): the zero vector puts the same
\* on-time on the three phases.
ZeroVectorBalanced ==
  boot = "running" /\ U = [a |-> 0, b |-> 0] =>
    duty["a"] = duty["b"] /\ duty["b"] = duty["c"]
=============================================================================
