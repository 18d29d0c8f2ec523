----------------------------- MODULE SVPWMProofs -----------------------------
(***************************************************************************)
(* Proofs about module SVPWM, for every period Ts, every clamp OutMax and  *)
(* every integer vector.                                                   *)
(***************************************************************************)
EXTENDS SVPWM, TLAPS

\* A nonzero vector falls in one of the six sectors: the three comparisons of
\* SVPWM.c:58 cannot all fail, and cannot all succeed.
LEMMA SectorRange ==
  ASSUME NEW a \in Int, NEW b \in Int
  PROVE  /\ Sector(a, b) \in 0..6
         /\ Sector(a, b) = 0 <=> (a = 0 /\ b = 0)
BY DEF Sector, Bit, u1, u2, u3

\* The switch of SVPWM.c:61: in every sector the two dwell times are not
\* negative, and they are what the three line-to-line voltages say.
LEMMA SwitchCorrect ==
  ASSUME NEW a \in Int, NEW b \in Int, Sector(a, b) \in 1..6
  PROVE  LET d == Vectors(a, b) IN
         /\ d.hi \in Phases /\ d.mid \in Phases /\ d.hi # d.mid
         /\ d.one \in Nat /\ d.two \in Nat
         /\ LET on(p) == IF p = d.hi THEN d.one + d.two
                         ELSE IF p = d.mid THEN d.two ELSE 0
            IN /\ on("a") - on("b") = u2(a, b)
               /\ on("b") - on("c") = u1(a, b)
               /\ on("c") - on("a") = u3(a, b)
<1>1. CASE Sector(a, b) = 1
  BY <1>1 DEF Vectors, Dwell, Sector, Bit, u1, u2, u3, Phases
<1>2. CASE Sector(a, b) = 2
  BY <1>2 DEF Vectors, Dwell, Sector, Bit, u1, u2, u3, Phases
<1>3. CASE Sector(a, b) = 3
  BY <1>3 DEF Vectors, Dwell, Sector, Bit, u1, u2, u3, Phases
<1>4. CASE Sector(a, b) = 4
  BY <1>4 DEF Vectors, Dwell, Sector, Bit, u1, u2, u3, Phases
<1>5. CASE Sector(a, b) = 5
  BY <1>5 DEF Vectors, Dwell, Sector, Bit, u1, u2, u3, Phases
<1>6. CASE Sector(a, b) = 6
  BY <1>6 DEF Vectors, Dwell, Sector, Bit, u1, u2, u3, Phases
<1> QED  BY <1>1, <1>2, <1>3, <1>4, <1>5, <1>6

\* Over-modulation scaling and the split of the idle time (SVPWM.c:67-76 and
\* its five siblings): the on-times fit in the period and keep the differences.
LEMMA OnTimesCorrect ==
  ASSUME NEW a \in Int, NEW b \in Int, Sector(a, b) \in 1..6
  PROVE  LET T == OnTimes(Vectors(a, b))
             P == 2 * Scale(Vectors(a, b))
         IN /\ P \in Nat \ {0}
            /\ T \in [Phases -> Int]
            /\ \A p \in Phases : 0 <= T[p] /\ T[p] <= P
            /\ T["a"] - T["b"] = 2 * u2(a, b)
            /\ T["b"] - T["c"] = 2 * u1(a, b)
            /\ T["c"] - T["a"] = 2 * u3(a, b)
<1> DEFINE d == Vectors(a, b)
           on(p) == IF p = d.hi THEN d.one + d.two
                    ELSE IF p = d.mid THEN d.two ELSE 0
<1>1. /\ d.one \in Nat /\ d.two \in Nat
      /\ on("a") - on("b") = u2(a, b)
      /\ on("b") - on("c") = u1(a, b)
      /\ on("c") - on("a") = u3(a, b)
  BY SwitchCorrect
<1>2. /\ Scale(d) \in Nat \ {0} /\ Scale(d) >= d.one + d.two
      /\ ZeroTime(d) = Scale(d) - d.one - d.two
  BY <1>1, SvpwmAssumption DEF Scale, ZeroTime
<1>3. \A p \in Phases : on(p) \in Nat /\ on(p) <= d.one + d.two
  BY <1>1
<1>4. OnTimes(d) = [p \in Phases |-> ZeroTime(d) + 2 * on(p)]
  BY <1>1, <1>2 DEF OnTimes
<1> HIDE DEF d, on
<1>5. /\ OnTimes(d) \in [Phases -> Int]
      /\ \A p \in Phases : 0 <= OnTimes(d)[p] /\ OnTimes(d)[p] <= 2 * Scale(d)
  BY <1>1, <1>2, <1>3, <1>4
<1>6. /\ OnTimes(d)["a"] - OnTimes(d)["b"] = 2 * u2(a, b)
      /\ OnTimes(d)["b"] - OnTimes(d)["c"] = 2 * u1(a, b)
      /\ OnTimes(d)["c"] - OnTimes(d)["a"] = 2 * u3(a, b)
  BY <1>1, <1>2, <1>3, <1>4 DEF Phases
<1> QED  BY <1>2, <1>5, <1>6 DEF d

\* The conversion to a compare value (FOC.c:307) maps a duty of at most one to
\* at most the full-scale compare.
LEMMA CompareRange ==
  ASSUME NEW n \in Int, NEW den \in Nat \ {0}, 0 <= n, n <= den
  PROVE  (n * FullCompare) \div den \in 0..FullCompare
<1> DEFINE q == (n * 4500) \div den
<1>0. FullCompare = 4500
  BY DEF FullCompare, ALL_Duty
<1>1. q \in Int /\ den * q <= n * 4500 /\ n * 4500 < den * q + den
  OBVIOUS
<1>2. n * 4500 <= den * 4500
  OBVIOUS
<1> HIDE DEF q
<1>3. ASSUME q >= 4501 PROVE FALSE
  <2>1. den * q >= den * 4501
    BY <1>1, <1>3
  <2> QED  BY <2>1, <1>1, <1>2
<1>4. ASSUME q <= -1 PROVE FALSE
  <2>1. den * q <= -den
    BY <1>1, <1>4
  <2> QED  BY <2>1, <1>1
<1>5. q \in 0..4500
  BY <1>1, <1>3, <1>4
<1> QED  BY <1>0, <1>5 DEF q

-----------------------------------------------------------------------------
\* What main() has done to the registers at each stage of the boot.
BootOrder == /\ boot = "reset" => ccr = [p \in Phases |-> 0]
             /\ boot # "reset" => adcTrig = FullCompare

Inv == TypeOK /\ DutyInPeriod /\ SampleInLowSide /\ LineVoltages /\ BootOrder

LEMMA InitInv == Init => Inv
BY SvpwmAssumption
   DEF Init, Inv, TypeOK, DutyInPeriod, SampleInLowSide, LineVoltages, BootOrder,
       Phases, FullCompare

LEMMA StrongDragInv == Inv /\ strong_drag => Inv'
<1> SUFFICES ASSUME Inv, strong_drag PROVE Inv'
  OBVIOUS
<1>1. adcTrig = 4500 /\ adcTrig' = 4500
  BY DEF Inv, BootOrder, strong_drag, FullCompare, ALL_Duty
<1> DEFINE v == inv_clarke_transform(2000, 0)
<1>2. v = [p \in Phases |-> IF p = "a" THEN 8000 ELSE 5000]
  BY DEF inv_clarke_transform, Udc, Phases
<1> HIDE DEF v
<1>3. ccr' = [p \in Phases |-> IF p = "a" THEN 3000 ELSE 1875]
  BY <1>2 DEF strong_drag, setpwm, SetPWM, limit, Udc, FullCompare, ALL_Duty, Phases, v
<1>4. /\ TypeOK' /\ SampleInLowSide'
  BY <1>1, <1>3 DEF Inv, TypeOK, strong_drag, SampleInLowSide
<1> QED  BY <1>4 DEF Inv, TypeOK, strong_drag, DutyInPeriod, LineVoltages, BootOrder

LEMMA SVpwmInv ==
  ASSUME NEW a \in Int, NEW b \in Int, Inv, SVpwm(a, b)
  PROVE  Inv'
<1>1. adcTrig = FullCompare /\ adcTrig' = FullCompare /\ boot' = "running"
  BY DEF Inv, BootOrder, SVpwm
<1>2. /\ TypeOK!4' /\ DutyInPeriod' /\ duty' \in [Phases -> Int]
  <2>1. CASE Sector(a, b) \in 1..6
    BY <2>1, OnTimesCorrect DEF SVpwm, TypeOK, DutyInPeriod
  <2>2. CASE ~(Sector(a, b) \in 1..6)
    BY <2>2 DEF SVpwm, Inv, TypeOK, DutyInPeriod
  <2> QED  BY <2>1, <2>2
<1>3. LineVoltages'
  <2>1. CASE Sector(a, b) \in 1..6
    BY <2>1, OnTimesCorrect DEF SVpwm, LineVoltages
  <2>2. CASE ~(Sector(a, b) \in 1..6)
    BY <2>2, SectorRange DEF SVpwm, LineVoltages
  <2> QED  BY <2>1, <2>2
<1>4. \A p \in Phases : (duty'[p] * FullCompare) \div period' \in 0..FullCompare
  BY <1>2, CompareRange DEF DutyInPeriod
<1>5. SampleInLowSide' /\ ccr' \in [Phases -> Int]
  BY <1>1, <1>4 DEF SVpwm, SetPWM, SampleInLowSide
<1>6. TypeOK'
  BY <1>2, <1>5 DEF SVpwm, Inv, TypeOK
<1> QED  BY <1>1, <1>2, <1>3, <1>5, <1>6 DEF Inv, BootOrder

LEMMA NextInv == Inv /\ [Next]_vars => Inv'
<1> SUFFICES ASSUME Inv, [Next]_vars PROVE Inv'
  OBVIOUS
<1>1. CASE adc_tigger
  <2>1. FullCompare = 4500
    BY DEF FullCompare, ALL_Duty
  <2> QED  BY <1>1, <2>1 DEF Inv, adc_tigger, TypeOK, DutyInPeriod, SampleInLowSide,
                             LineVoltages, BootOrder
<1>2. CASE strong_drag
  BY <1>2, StrongDragInv
<1>3. ASSUME NEW a \in -(2 * OutMax)..(2 * OutMax), NEW b \in -(2 * OutMax)..(2 * OutMax),
             SVpwm(a, b)
      PROVE  Inv'
  BY <1>3, SVpwmInv, SvpwmAssumption
<1>4. CASE UNCHANGED vars
  BY <1>4 DEF vars, Inv, TypeOK, DutyInPeriod, SampleInLowSide, LineVoltages, BootOrder
<1> QED  BY <1>1, <1>2, <1>3, <1>4 DEF Next

LEMMA InvHolds == Spec => []Inv
BY InitInv, NextInv, PTL DEF Spec

\* The variables of one PWM output keep the types of their C counterparts.
THEOREM TypeCorrect == Spec => []TypeOK
<1>1. Inv => TypeOK
  BY DEF Inv
<1> QED  BY <1>1, InvHolds, PTL

\* Every on-time computed by SVpwm lies within the period.
THEOREM DutyCorrect == Spec => []DutyInPeriod
<1>1. Inv => DutyInPeriod
  BY DEF Inv
<1> QED  BY <1>1, InvHolds, PTL

\* The ADC is never triggered while a high side is on (at full duty, on the edge).
THEOREM SamplingCorrect == Spec => []SampleInLowSide
<1>1. Inv => SampleInLowSide
  BY DEF Inv
<1> QED  BY <1>1, InvHolds, PTL

\* The on-times realise the requested vector.
THEOREM VoltageCorrect == Spec => []LineVoltages
<1>1. Inv => LineVoltages
  BY DEF Inv
<1> QED  BY <1>1, InvHolds, PTL

-----------------------------------------------------------------------------
\* One call of SVpwm on a nonzero vector is one Modulate step of the reference.
LEMMA ModulateStep ==
  ASSUME NEW a \in Int, NEW b \in Int, Sector(a, b) \in 1..6
  PROVE  LET x == Reference!Relative([ab |-> u2(a, b), ca |-> u3(a, b)])
         IN /\ 2 * Scale(Vectors(a, b)) = Reference!Period(x)
            /\ OnTimes(Vectors(a, b)) = Reference!Centred(x)
<1> DEFINE d == Vectors(a, b)
           x == Reference!Relative([ab |-> u2(a, b), ca |-> u3(a, b)])
           on(p) == IF p = d.hi THEN d.one + d.two
                    ELSE IF p = d.mid THEN d.two ELSE 0
<1>1. /\ d.hi \in Phases /\ d.mid \in Phases /\ d.hi # d.mid
      /\ d.one \in Nat /\ d.two \in Nat
      /\ on("a") - on("b") = u2(a, b)
      /\ on("b") - on("c") = u1(a, b)
      /\ on("c") - on("a") = u3(a, b)
  BY SwitchCorrect
<1>2. u1(a, b) \in Int /\ u2(a, b) \in Int /\ u3(a, b) \in Int
  BY DEF u1, u2, u3
<1>3. x = [p \in Phases |-> on(p) - on("a")]
  BY <1>1, <1>2 DEF Reference!Relative, Reference!Phases, Phases
<1>4. /\ Reference!Highest(x) = d.one + d.two - on("a")
      /\ Reference!Lowest(x) = 0 - on("a")
  <2>1. \A p \in Phases : on(p) \in Nat /\ on(p) <= d.one + d.two
    BY <1>1
  <2>2. \E p, q \in Phases : on(p) = d.one + d.two /\ on(q) = 0
    BY <1>1 DEF Phases
  <2> HIDE DEF on, x, d
  <2>3. on("a") \in Nat /\ on("b") \in Nat /\ on("c") \in Nat
    BY <2>1 DEF Phases
  <2>4. x["a"] = on("a") - on("a") /\ x["b"] = on("b") - on("a") /\ x["c"] = on("c") - on("a")
    BY <1>3 DEF Phases
  <2> QED  BY <1>1, <2>1, <2>2, <2>3, <2>4
              DEF Reference!Highest, Reference!Lowest, Reference!Larger, Reference!Smaller, Phases
<1>5. on("a") \in Nat
  BY <1>1
<1> HIDE DEF d, x, on
<1>6. 2 * Scale(d) = Reference!Period(x) /\ Scale(d) \in Nat
  BY <1>1, <1>4, <1>5, SvpwmAssumption DEF Scale, Reference!Period, Reference!Larger
<1>7. Reference!Period(x) \div 2 = Scale(d)
  BY <1>6
<1>8. OnTimes(d) = [p \in Phases |-> Scale(d) - d.one - d.two + 2 * on(p)]
  BY <1>1, <1>6 DEF OnTimes, ZeroTime, on
<1>9. \A p \in Phases : on(p) \in Nat /\ x[p] = on(p) - on("a")
  BY <1>1, <1>3 DEF on
<1>10. \A p \in Phases :
         2 * x[p] - (Reference!Highest(x) + Reference!Lowest(x)) + Scale(d)
           = Scale(d) - d.one - d.two + 2 * on(p)
  BY <1>1, <1>4, <1>5, <1>6, <1>9
<1>11. OnTimes(d) = Reference!Centred(x)
  BY <1>7, <1>8, <1>10 DEF Reference!Centred, Reference!Phases, Phases
<1> QED  BY <1>6, <1>11 DEF d, x

\* The sector algorithm of SVPWM.c implements min-max injection: the reference
\* specification holds of every behaviour under the mapping
\* request <- <<u2, u3>> of the last vector.
THEOREM ImplementsMinMax == Spec => MinMaxRefinement
<1> DEFINE r == [ab |-> u2(U.a, U.b), ca |-> u3(U.a, U.b)]
<1>1. Init => Reference!Init
  BY DEF Init, Reference!Init, Reference!NoVoltage, Reference!Phases, Phases, u2, u3
<1>2. Inv /\ [Next]_vars => [Reference!Next]_(Reference!mmVars)
  <2> SUFFICES ASSUME Inv, [Next]_vars PROVE [Reference!Next]_(Reference!mmVars)
    OBVIOUS
  <2>1. CASE adc_tigger \/ strong_drag \/ UNCHANGED vars
    BY <2>1 DEF adc_tigger, strong_drag, vars, Reference!mmVars
  <2>2. ASSUME NEW a \in -(2 * OutMax)..(2 * OutMax), NEW b \in -(2 * OutMax)..(2 * OutMax),
               SVpwm(a, b)
        PROVE  Reference!Next
    <3>0. a \in Int /\ b \in Int /\ U'.a = a /\ U'.b = b
      BY <2>2, SvpwmAssumption DEF SVpwm
    <3>1. r' = [ab |-> u2(a, b), ca |-> u3(a, b)]
      BY <3>0
    <3>2. CASE Sector(a, b) \in 1..6
      <4>1. ~(a = 0 /\ b = 0)
        BY <3>0, <3>2, SectorRange
      <4>2. r' # Reference!NoVoltage
        <5>1. u2(a, b) # 0 \/ u3(a, b) # 0
          BY <3>0, <4>1 DEF u2, u3
        <5> QED  BY <3>1, <5>1 DEF Reference!NoVoltage
      <4>3. /\ duty' = Reference!Centred(Reference!Relative(r'))
            /\ period' = Reference!Period(Reference!Relative(r'))
        BY <2>2, <3>0, <3>1, <3>2, ModulateStep DEF SVpwm
      <4>4. Reference!Modulate
        BY <4>2, <4>3 DEF Reference!Modulate
      <4> QED  BY <4>4 DEF Reference!Next
    <3>3. CASE ~(Sector(a, b) \in 1..6)
      <4>1. a = 0 /\ b = 0
        BY <3>0, <3>3, SectorRange
      <4>2. r' = Reference!NoVoltage
        BY <3>1, <4>1 DEF Reference!NoVoltage, u2, u3
      <4>3. Reference!Hold
        BY <2>2, <3>3, <4>2 DEF SVpwm, Reference!Hold
      <4> QED  BY <4>3 DEF Reference!Next
    <3> QED  BY <3>2, <3>3
  <2> QED  BY <2>1, <2>2 DEF Next
<1> QED  BY <1>1, <1>2, InvHolds, PTL DEF Spec, MinMaxRefinement, Reference!Spec
=============================================================================
