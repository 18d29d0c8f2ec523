-------------------------- MODULE CurrentLoopProofs --------------------------
(***************************************************************************)
(* The current control of one motor for every reading of the converter and *)
(* every limit and parameter set.  None of the properties is inductive by  *)
(* itself: OffsetIsMean needs the bound of the sums, OutputLimited and     *)
(* SettledStays that an output obeys the limit in force (0 before main()   *)
(* sets it), OneParameterSet how far main() has come with its writes.      *)
(***************************************************************************)
EXTENDS CurrentLoop, PiProofs

\* The sums of first_get are true sums: so many samples of 12 bits fit 16 bits.
SumInv ==
  /\ total \in Nat \X Nat
  /\ pc = "first_get" =>
       /\ ~running
       /\ ad_A = total[1] /\ total[1] <= 4095 * taken
       /\ ad_B = total[2] /\ total[2] <= 4095 * taken

\* A controller obeys the limit it has now.
Limiting(p) == /\ p \in PI_Struct
               /\ p.outMax \in {0, OutMax}
               /\ fabs(p.out) <= p.outMax

LimitInv == Limiting(idPID) /\ Limiting(iqPID)

\* What of the setting main() has written when it is about to write `pc`.
ParamsInv ==
  /\ pc \in {"id.ki", "id.outMax", "iq.kp", "iq.ki", "iq.outMax", "loop"} =>
       idPID.kp = setting.kp
  /\ pc \in {"id.outMax", "iq.kp", "iq.ki", "iq.outMax", "loop"} =>
       idPID.ki = setting.ki
  /\ pc \in {"iq.kp", "iq.ki", "iq.outMax", "loop"} => idPID.outMax = OutMax
  /\ pc \in {"iq.ki", "iq.outMax", "loop"} => iqPID.kp = setting.kp
  /\ pc \in {"iq.outMax", "loop"} => iqPID.ki = setting.ki
  /\ pc = "loop" => iqPID.outMax = OutMax
  /\ running /\ pc \in {"tarid", "tariq", "id.kp"} =>
       idPID.kp = iqPID.kp /\ idPID.ki = iqPID.ki /\ idPID.outMax = iqPID.outMax

IInv == TypeOK /\ SumInv /\ LimitInv /\ ParamsInv

-----------------------------------------------------------------------------
\* A call of a controller keeps its parameters and its limit, and leaves the
\* output alone when there is no error and was none.
LEMMA ControlLimiting ==
  ASSUME NEW p, Limiting(p), NEW tar \in Int, NEW pre \in Int,
         NEW q, q = Control(p, tar, pre)
  PROVE  /\ Limiting(q)
         /\ q.kp = p.kp /\ q.ki = p.ki /\ q.outMax = p.outMax
         /\ p.lastBias = 0 /\ q.lastBias = 0 => q.out = p.out
<1> DEFINE sum == p.kp * q.lastBias
                    + ((p.out - p.kp * p.lastBias) + p.ki * q.lastBias)
<1>1. /\ p \in PI_Struct /\ q \in PI_Struct
      /\ q.kp = p.kp /\ q.ki = p.ki /\ q.outMax = p.outMax
      /\ q.out = Limited(sum, p.outMax)
  BY ControlIsPositional DEF Limiting
<1>2. /\ p.kp \in Int /\ p.ki \in Int /\ p.outMax \in Nat
      /\ p.lastBias \in Int /\ p.out \in Int
      /\ q.lastBias \in Int /\ q.out \in Int
      /\ fabs(p.out) <= p.outMax
  BY <1>1, CurrentAssumption DEF Limiting, PI_Struct
<1>3. sum \in Int
  BY <1>2
<1> HIDE DEF sum
<1>4. fabs(q.out) <= q.outMax
  <2>1. p.outMax \in Int /\ fabs(p.outMax) = p.outMax
    BY <1>2 DEF fabs
  <2>2. fabs(Limited(sum, p.outMax)) <= p.outMax
    BY <1>3, <2>1, LimitedWithin
  <2>3. QED
    BY <1>1, <2>2
<1>5. ASSUME p.lastBias = 0, q.lastBias = 0
      PROVE  q.out = p.out
  <2>1. sum = p.out
    BY <1>2, <1>5 DEF sum
  <2>2. QED
    BY <1>1, <1>2, <2>1 DEF Limited, fabs
<1>6. QED
  BY <1>1, <1>4, <1>5 DEF Limiting

\* main() writes one parameter of a controller.
LEMMA RetuneLimiting ==
  ASSUME NEW p, Limiting(p), NEW v \in Int, NEW q,
         \/ q = [p EXCEPT !.kp = v]
         \/ q = [p EXCEPT !.ki = v]
         \/ q = [p EXCEPT !.outMax = OutMax]
  PROVE  Limiting(q) /\ q.out = p.out /\ q.lastBias = p.lastBias
<1>1. /\ OutMax \in Nat /\ p \in PI_Struct /\ p.outMax \in {0, OutMax}
      /\ fabs(p.out) <= p.outMax
  BY CurrentAssumption DEF Limiting
<1>2. CASE q = [p EXCEPT !.kp = v]
  BY <1>1, <1>2 DEF Limiting, PI_Struct
<1>3. CASE q = [p EXCEPT !.ki = v]
  BY <1>1, <1>3 DEF Limiting, PI_Struct
<1>4. CASE q = [p EXCEPT !.outMax = OutMax]
  <2>1. q \in PI_Struct /\ q.outMax = OutMax /\ q.out = p.out
        /\ q.lastBias = p.lastBias
    BY <1>1, <1>4 DEF PI_Struct
  <2>2. fabs(q.out) <= OutMax
    BY <1>1, <2>1 DEF fabs, PI_Struct
  <2>3. QED
    BY <2>1, <2>2 DEF Limiting
<1>5. QED
  BY <1>2, <1>3, <1>4

\* One more sample of 12 bits does not wrap 16 bits.
LEMMA SampleFits ==
  ASSUME NEW t \in Nat, NEW n \in 0..15, t <= 4095 * n, NEW a \in Adc
  PROVE  /\ uint16(t + a) = t + a /\ t + a \in Nat /\ t + a < 65536
         /\ t + a <= 4095 * (n + 1)
<1>1. a \in Nat /\ a <= 4095
  BY DEF Adc
<1>2. t + a \in Nat /\ t + a <= 4095 * (n + 1)
  BY <1>1
<1>3. t + a < 65536
  BY <1>1
<1>4. QED
  BY <1>2, <1>3 DEF uint16

\* A full sum, divided, is a value of the converter.
LEMMA MeanFits ==
  ASSUME NEW t \in Nat, t <= 4095 * 16
  PROVE  t \div 16 \in Adc
BY DEF Adc

-----------------------------------------------------------------------------
LEMMA InitInv == Init => IInv
<1> SUFFICES ASSUME Init PROVE IInv
  OBVIOUS
<1>1. /\ pc = "first_get" /\ running = FALSE
      /\ taken = 0 /\ total = <<0, 0>> /\ ad_A = 0 /\ ad_B = 0
      /\ voltage_a_offset = 0 /\ voltage_b_offset = 0
      /\ Ia = 0 /\ Ib = 0 /\ Id = 0 /\ Iq = 0
      /\ idPID = Zeroed /\ iqPID = Zeroed /\ tarid = 0 /\ tariq = 0
      /\ setting \in Settings
  BY DEF Init
<1>2. idPID \in PI_Struct /\ iqPID \in PI_Struct
  BY <1>1 DEF Zeroed, PI_Struct
<1>3. /\ taken \in 0..Samples /\ total \in Nat \X Nat
      /\ ad_A \in Nat /\ ad_A < 65536 /\ ad_B \in Nat /\ ad_B < 65536
      /\ voltage_a_offset \in Adc /\ voltage_b_offset \in Adc
      /\ Ia \in Int /\ Ib \in Int /\ tarid \in Int /\ tariq \in Int
  BY <1>1 DEF Samples, Adc
<1>4. Id \in -Current..Current /\ Iq \in -Current..Current
  BY <1>1, CurrentAssumption
<1>5. TypeOK
  <2>1. /\ pc = "first_get" /\ running \in BOOLEAN /\ setting \in Settings
    BY <1>1
  <2>2. QED
    BY <1>2, <1>3, <1>4, <2>1 DEF TypeOK
<1>6. SumInv
  BY <1>1 DEF SumInv
<1>7. LimitInv
  BY <1>1, <1>2, CurrentAssumption DEF Zeroed, LimitInv, Limiting, fabs
<1>8. ParamsInv
  BY <1>1 DEF ParamsInv
<1>9. QED
  BY <1>5, <1>6, <1>7, <1>8 DEF IInv

\* first_get: one more sample.
LEMMA SampleInv ==
  ASSUME IInv, Sample
  PROVE  IInv'
<1> USE DEF IInv
<1>1. PICK a \in RestA, b \in RestB :
        /\ ad_A' = uint16(ad_A + a) /\ ad_B' = uint16(ad_B + b)
        /\ total' = <<total[1] + a, total[2] + b>>
  BY DEF Sample
<1>2. /\ pc = "first_get" /\ pc' = pc /\ taken \in 0..15 /\ taken' = taken + 1
      /\ total \in Nat \X Nat /\ a \in Adc /\ b \in Adc
      /\ ~running /\ running' = running
      /\ UNCHANGED <<offsets, currents, control, setting>>
  BY CurrentAssumption DEF Sample, Samples, TypeOK, SumInv
<1>3. /\ ad_A = total[1] /\ total[1] \in Nat /\ total[1] <= 4095 * taken
      /\ ad_B = total[2] /\ total[2] \in Nat /\ total[2] <= 4095 * taken
  BY <1>2 DEF SumInv
<1>4. /\ ad_A' = total[1] + a /\ ad_A' \in Nat /\ ad_A' < 65536
      /\ total[1] + a <= 4095 * (taken + 1)
  BY <1>1, <1>2, <1>3, SampleFits
<1>5. /\ ad_B' = total[2] + b /\ ad_B' \in Nat /\ ad_B' < 65536
      /\ total[2] + b <= 4095 * (taken + 1)
  BY <1>1, <1>2, <1>3, SampleFits
<1>6. total' \in Nat \X Nat
  BY <1>1, <1>3, <1>4, <1>5
<1>7. taken' \in 0..Samples
  BY <1>2 DEF Samples
<1>8. TypeOK'
  BY <1>2, <1>4, <1>5, <1>6, <1>7
  DEF offsets, currents, control, TypeOK
<1>9. SumInv'
  BY <1>1, <1>2, <1>4, <1>5, <1>6 DEF SumInv
<1>10. LimitInv' /\ ParamsInv'
  BY <1>2 DEF control, LimitInv, ParamsInv
<1>11. QED
  BY <1>8, <1>9, <1>10

\* first_get: the sums become offsets.
LEMMA StoreOffsetsInv ==
  ASSUME IInv, StoreOffsets
  PROVE  /\ IInv'
         /\ voltage_a_offset' = total[1] \div 16
         /\ voltage_b_offset' = total[2] \div 16
<1> USE DEF IInv
<1>1. /\ taken = 16 /\ ~running /\ running' = running /\ pc' = "tarid"
      /\ ad_A = total[1] /\ total[1] \in Nat /\ total[1] <= 4095 * 16
      /\ ad_B = total[2] /\ total[2] \in Nat /\ total[2] <= 4095 * 16
      /\ UNCHANGED <<ad_A, ad_B, currents, control, setting>>
  BY DEF StoreOffsets, Samples, SumInv
<1>2. /\ voltage_a_offset' = total[1] \div 16 /\ voltage_a_offset' \in Adc
      /\ voltage_b_offset' = total[2] \div 16 /\ voltage_b_offset' \in Adc
  BY <1>1, MeanFits DEF StoreOffsets
<1>3. /\ taken' \in 0..Samples /\ total' \in Nat \X Nat
  BY DEF StoreOffsets, Samples
<1>4. TypeOK'
  BY <1>1, <1>2, <1>3 DEF currents, control, TypeOK
<1>5. SumInv' /\ LimitInv' /\ ParamsInv'
  BY <1>1, <1>3 DEF control, SumInv, LimitInv, ParamsInv
<1>6. QED
  BY <1>2, <1>4, <1>5

\* main() writes a controller's parameters, one at a time.
LEMMA SetIdInv ==
  ASSUME IInv, SetId, UNCHANGED <<iqPID, tarid, tariq>>
  PROVE  /\ IInv'
         /\ idPID'.out = idPID.out /\ idPID'.lastBias = idPID.lastBias
<1> USE DEF IInv
<1>1. /\ Limiting(idPID) /\ idPID \in PI_Struct
      /\ setting.kp \in Int /\ setting.ki \in Int
  BY CurrentAssumption DEF LimitInv, Limiting, TypeOK
<1>2. /\ Limiting(idPID') /\ idPID' \in PI_Struct
      /\ idPID'.out = idPID.out /\ idPID'.lastBias = idPID.lastBias
  BY <1>1, RetuneLimiting DEF SetId, Limiting
<1>3. /\ pc \in {"id.kp", "id.ki", "id.outMax"}
      /\ pc' \in {"id.ki", "id.outMax", "iq.kp"}
      /\ UNCHANGED <<running, taken, total, ad_A, ad_B, offsets, currents,
                     setting>>
  BY DEF SetId, Write
<1>4. TypeOK'
  BY <1>2, <1>3 DEF offsets, currents, TypeOK
<1>5. SumInv' /\ LimitInv'
  BY <1>2, <1>3 DEF SumInv, LimitInv
<1>6. ParamsInv'
  <2>1. CASE Write("id.kp", "id.ki") /\ idPID' = [idPID EXCEPT !.kp = setting.kp]
    BY <1>1, <2>1 DEF Write, ParamsInv, PI_Struct
  <2>2. CASE /\ Write("id.ki", "id.outMax")
             /\ idPID' = [idPID EXCEPT !.ki = setting.ki]
    BY <1>1, <2>2 DEF Write, ParamsInv, PI_Struct
  <2>3. CASE /\ Write("id.outMax", "iq.kp")
             /\ idPID' = [idPID EXCEPT !.outMax = OutMax]
    BY <1>1, <2>3 DEF Write, ParamsInv, PI_Struct
  <2>4. QED
    BY <2>1, <2>2, <2>3 DEF SetId
<1>7. QED
  BY <1>2, <1>4, <1>5, <1>6

LEMMA SetIqInv ==
  ASSUME IInv, SetIq, UNCHANGED <<idPID, tarid, tariq>>
  PROVE  /\ IInv'
         /\ iqPID'.out = iqPID.out /\ iqPID'.lastBias = iqPID.lastBias
<1> USE DEF IInv
<1>1. /\ Limiting(iqPID) /\ iqPID \in PI_Struct
      /\ setting.kp \in Int /\ setting.ki \in Int
  BY CurrentAssumption DEF LimitInv, Limiting, TypeOK
<1>2. /\ Limiting(iqPID') /\ iqPID' \in PI_Struct
      /\ iqPID'.out = iqPID.out /\ iqPID'.lastBias = iqPID.lastBias
  BY <1>1, RetuneLimiting DEF SetIq, Limiting
<1>3. /\ pc \in {"iq.kp", "iq.ki", "iq.outMax"}
      /\ pc' \in {"iq.ki", "iq.outMax", "loop"}
      /\ UNCHANGED <<running, taken, total, ad_A, ad_B, offsets, currents,
                     setting>>
  BY DEF SetIq, Write
<1>4. TypeOK'
  BY <1>2, <1>3 DEF offsets, currents, TypeOK
<1>5. SumInv' /\ LimitInv'
  BY <1>2, <1>3 DEF SumInv, LimitInv
<1>6. ParamsInv'
  <2>1. CASE Write("iq.kp", "iq.ki") /\ iqPID' = [iqPID EXCEPT !.kp = setting.kp]
    BY <1>1, <2>1 DEF Write, ParamsInv, PI_Struct
  <2>2. CASE /\ Write("iq.ki", "iq.outMax")
             /\ iqPID' = [iqPID EXCEPT !.ki = setting.ki]
    BY <1>1, <2>2 DEF Write, ParamsInv, PI_Struct
  <2>3. CASE /\ Write("iq.outMax", "loop")
             /\ iqPID' = [iqPID EXCEPT !.outMax = OutMax]
    BY <1>1, <2>3 DEF Write, ParamsInv, PI_Struct
  <2>4. QED
    BY <2>1, <2>2, <2>3 DEF SetIq
<1>7. QED
  BY <1>2, <1>4, <1>5, <1>6

\* One run of the current loop: both controllers keep their parameters and their
\* limits.
LEMMA FocInv ==
  ASSUME IInv, NEW r \in Readings, NEW s \in -SpeedOut..SpeedOut,
         FocContorl(r, s)
  PROVE  /\ IInv'
         /\ idPID.lastBias = 0 /\ idPID'.lastBias = 0 => idPID'.out = idPID.out
         /\ iqPID.lastBias = 0 /\ iqPID'.lastBias = 0 => iqPID'.out = iqPID.out
         /\ Id' \in Int /\ Iq' \in Int
<1> USE DEF IInv
<1>1. /\ r[1] \in Adc /\ r[2] \in Adc
  BY CurrentAssumption DEF Readings
<1>2. /\ ad_A' \in Nat /\ ad_A' < 65536 /\ ad_B' \in Nat /\ ad_B' < 65536
      /\ Ia' \in Int /\ Ib' \in Int
  <2>1. ad_A' = r[1] /\ ad_B' = r[2] /\ Ia' = CurrentA(r[1]) /\ Ib' = CurrentB(r[2])
    BY DEF FocContorl
  <2>2. voltage_a_offset \in Adc
    BY DEF TypeOK
  <2>3. \A x \in Adc : x \in Nat /\ x < 65536
    BY DEF Adc
  <2>4. QED
    BY <1>1, <2>1, <2>2, <2>3 DEF CurrentA, CurrentB
<1>3. /\ Id' \in -Current..Current /\ Iq' \in -Current..Current
      /\ Id' \in Int /\ Iq' \in Int
  BY CurrentAssumption DEF FocContorl, LPF_Update
<1>4. /\ tarid \in Int /\ s \in Int /\ Limiting(idPID) /\ Limiting(iqPID)
  BY CurrentAssumption DEF TypeOK, LimitInv
<1>5. /\ idPID' = Control(idPID, tarid, Id') /\ iqPID' = Control(iqPID, s, Iq')
      /\ running
      /\ UNCHANGED <<pc, taken, total, offsets, tarid, tariq, running, setting>>
  BY DEF FocContorl
<1>6. /\ Limiting(idPID')
      /\ idPID'.kp = idPID.kp /\ idPID'.ki = idPID.ki
      /\ idPID'.outMax = idPID.outMax
      /\ idPID.lastBias = 0 /\ idPID'.lastBias = 0 => idPID'.out = idPID.out
  BY <1>3, <1>4, <1>5, ControlLimiting
<1>7. /\ Limiting(iqPID')
      /\ iqPID'.kp = iqPID.kp /\ iqPID'.ki = iqPID.ki
      /\ iqPID'.outMax = iqPID.outMax
      /\ iqPID.lastBias = 0 /\ iqPID'.lastBias = 0 => iqPID'.out = iqPID.out
  BY <1>3, <1>4, <1>5, ControlLimiting
<1>8. idPID' \in PI_Struct /\ iqPID' \in PI_Struct
  BY <1>6, <1>7 DEF Limiting
<1>9. TypeOK'
  BY <1>2, <1>3, <1>5, <1>8 DEF offsets, TypeOK
<1>10. SumInv'
  BY <1>5 DEF SumInv
<1>11. LimitInv'
  BY <1>6, <1>7 DEF LimitInv
<1>12. ParamsInv'
  BY <1>5, <1>6, <1>7 DEF ParamsInv
<1>13. QED
  BY <1>3, <1>6, <1>7, <1>9, <1>10, <1>11, <1>12

LEMMA NextInv ==
  ASSUME IInv, [Next]_vars
  PROVE  IInv'
<1> USE DEF IInv
<1>1. CASE Sample
  BY <1>1, SampleInv
<1>2. CASE StoreOffsets
  BY <1>2, StoreOffsetsInv
<1>3. CASE SetCurrentPIDTar
  <2>1. setting.id \in Int /\ setting.iq \in Int
    BY CurrentAssumption DEF TypeOK
  <2>2. /\ pc \in {"tarid", "tariq"} /\ pc' \in {"tariq", "id.kp"}
        /\ tarid' \in Int /\ tariq' \in Int
        /\ UNCHANGED <<running, taken, total, ad_A, ad_B, offsets, currents,
                       setting, idPID, iqPID>>
    BY <1>3, <2>1 DEF SetCurrentPIDTar, Write, TypeOK
  <2>3. TypeOK'
    BY <2>2 DEF offsets, currents, TypeOK
  <2>4. SumInv' /\ LimitInv' /\ ParamsInv'
    BY <2>2 DEF SumInv, LimitInv, ParamsInv
  <2>5. QED
    BY <2>3, <2>4
<1>4. CASE SetCurrentPIDParams
  BY <1>4, SetIdInv, SetIqInv DEF SetCurrentPIDParams
<1>5. CASE EnableInterrupts
  <2>1. TypeOK'
    BY <1>5 DEF EnableInterrupts, offsets, currents, control, TypeOK
  <2>2. SumInv' /\ LimitInv' /\ ParamsInv'
    BY <1>5 DEF EnableInterrupts, control, SumInv, LimitInv, ParamsInv
  <2>3. QED
    BY <2>1, <2>2
<1>6. CASE ApplySetting
  <2>1. TypeOK'
    BY <1>6 DEF ApplySetting, offsets, currents, control, TypeOK
  <2>2. SumInv' /\ LimitInv' /\ ParamsInv'
    BY <1>6 DEF ApplySetting, control, SumInv, LimitInv, ParamsInv
  <2>3. QED
    BY <2>1, <2>2
<1>7. ASSUME NEW r \in Readings, NEW s \in -SpeedOut..SpeedOut,
             FocContorl(r, s)
      PROVE  IInv'
  BY <1>7, FocInv
<1>8. CASE UNCHANGED vars
  <2>1. TypeOK'
    BY <1>8 DEF vars, offsets, currents, control, TypeOK
  <2>2. SumInv' /\ LimitInv' /\ ParamsInv'
    BY <1>8 DEF vars, control, SumInv, LimitInv, ParamsInv
  <2>3. QED
    BY <2>1, <2>2
<1>9. QED
  BY <1>1, <1>2, <1>3, <1>4, <1>5, <1>6, <1>7, <1>8 DEF Next, MainStep

LEMMA Invariance == Spec => []IInv
<1>1. IInv /\ [Next]_vars => IInv'
  BY NextInv
<1>2. QED
  BY InitInv, <1>1, PTL DEF Spec

-----------------------------------------------------------------------------
\* Every variable has its type in every reachable state.
THEOREM TypeCorrect == Spec => []TypeOK
<1>1. IInv => TypeOK
  BY DEF IInv
<1>2. QED
  BY Invariance, <1>1, PTL

\* first_get stores the means of its samples, for every reading of a converter of
\* 12 bits: the 16-bit sums do not wrap.
THEOREM OffsetsAreMeans == Spec => OffsetIsMean
<1>1. IInv /\ [Next]_vars =>
        [StoreOffsets => /\ voltage_a_offset' = total[1] \div 16
                         /\ voltage_b_offset' = total[2] \div 16]_vars
  BY StoreOffsetsInv
<1>2. QED
  BY Invariance, <1>1, PTL DEF Spec, OffsetIsMean

\* Neither controller exceeds the limit main() gives it, for every limit,
\* parameter set and current.
THEOREM OutputsAreLimited == Spec => []OutputLimited
<1>1. IInv => OutputLimited
  BY CurrentAssumption
  DEF IInv, LimitInv, Limiting, OutputLimited, fabs, PI_Struct
<1>2. QED
  BY Invariance, <1>1, PTL

\* Outside the setter both controllers have the parameters of the last setting.
THEOREM ParametersAreOneSet == Spec => []OneParameterSet
<1>1. IInv => OneParameterSet
  BY DEF IInv, ParamsInv, OneParameterSet, Gains
<1>2. QED
  BY Invariance, <1>1, PTL

\* A settled motor is not disturbed by a change of parameters, at whichever of
\* its writes a loop comes in between.
THEOREM SettledMotorStays == Spec => SettledStays
<1>1. ASSUME IInv, [Next]_vars
      PROVE  /\ idPID.lastBias = 0 /\ idPID'.lastBias = 0 => idPID'.out = idPID.out
             /\ iqPID.lastBias = 0 /\ iqPID'.lastBias = 0 => iqPID'.out = iqPID.out
  <2>1. CASE SetCurrentPIDParams
    BY <1>1, <2>1, SetIdInv, SetIqInv DEF SetCurrentPIDParams
  <2>2. CASE UNCHANGED <<idPID, iqPID>>
    BY <2>2
  <2>3. ASSUME NEW r \in Readings, NEW s \in -SpeedOut..SpeedOut,
               FocContorl(r, s)
        PROVE  /\ idPID.lastBias = 0 /\ idPID'.lastBias = 0 =>
                    idPID'.out = idPID.out
               /\ iqPID.lastBias = 0 /\ iqPID'.lastBias = 0 =>
                    iqPID'.out = iqPID.out
    BY <1>1, <2>3, FocInv
  <2>4. QED
    BY <1>1, <2>1, <2>2, <2>3
    DEF Next, MainStep, Sample, StoreOffsets, SetCurrentPIDTar, EnableInterrupts,
        ApplySetting, vars, control
<1>2. QED
  BY <1>1, Invariance, PTL DEF Spec, SettledStays

-----------------------------------------------------------------------------
\* The two tests at the end of a controller are the saturation of the positional
\* law.
LEMMA LimitedIsSaturated ==
  ASSUME NEW x, NEW max
  PROVE  /\ Limited(x, max) = IdPI!Saturated(x, max)
         /\ Limited(x, max) = IqPI!Saturated(x, max)
BY DEF Limited, fabs, IdPI!Saturated, IqPI!Saturated

\* Every step is a step of the positional law of the d controller, ...
LEMMA IdPositionalStep ==
  ASSUME IInv, [Next]_vars
  PROVE  [IdPI!Next]_IdPI!vars
<1>1. idPID \in PI_Struct /\ idPID' \in PI_Struct
  BY NextInv DEF IInv, TypeOK
<1>2. CASE SetId /\ UNCHANGED <<iqPID, tarid, tariq>>
  <2>1. idPID'.out = idPID.out /\ idPID'.lastBias = idPID.lastBias
    BY <1>2, SetIdInv
  <2>2. IdPI!Retune
    BY <1>1, <2>1 DEF IdPI!Retune, PI_Struct
  <2>3. QED
    BY <2>2 DEF IdPI!Next
<1>3. ASSUME NEW r \in Readings, NEW s \in -SpeedOut..SpeedOut,
             FocContorl(r, s)
      PROVE  IdPI!Next
  <2>1. /\ idPID' = Control(idPID, tarid, Id')
        /\ tarid \in Int /\ Id' \in Int
    BY <1>3, FocInv DEF FocContorl, IInv, TypeOK
  <2>2. IdPI!Control
    BY <1>1, <2>1, ControlIsPositional, LimitedIsSaturated
    DEF IdPI!Control, PI_Struct
  <2>3. QED
    BY <2>2 DEF IdPI!Next
<1>4. CASE idPID' = idPID
  BY <1>4 DEF IdPI!vars
<1>5. QED
  BY <1>2, <1>3, <1>4
  DEF Next, MainStep, Sample, StoreOffsets, SetCurrentPIDTar,
      SetCurrentPIDParams, EnableInterrupts, ApplySetting, vars, control

\* ... and of that of the q controller.
LEMMA IqPositionalStep ==
  ASSUME IInv, [Next]_vars
  PROVE  [IqPI!Next]_IqPI!vars
<1>1. iqPID \in PI_Struct /\ iqPID' \in PI_Struct
  BY NextInv DEF IInv, TypeOK
<1>2. CASE SetIq /\ UNCHANGED <<idPID, tarid, tariq>>
  <2>1. iqPID'.out = iqPID.out /\ iqPID'.lastBias = iqPID.lastBias
    BY <1>2, SetIqInv
  <2>2. IqPI!Retune
    BY <1>1, <2>1 DEF IqPI!Retune, PI_Struct
  <2>3. QED
    BY <2>2 DEF IqPI!Next
<1>3. ASSUME NEW r \in Readings, NEW s \in -SpeedOut..SpeedOut,
             FocContorl(r, s)
      PROVE  IqPI!Next
  <2>1. /\ iqPID' = Control(iqPID, s, Iq')
        /\ s \in Int /\ Iq' \in Int
    BY <1>3, FocInv, CurrentAssumption DEF FocContorl
  <2>2. IqPI!Control
    BY <1>1, <2>1, ControlIsPositional, LimitedIsSaturated
    DEF IqPI!Control, PI_Struct
  <2>3. QED
    BY <2>2 DEF IqPI!Next
<1>4. CASE iqPID' = iqPID
  BY <1>4 DEF IqPI!vars
<1>5. QED
  BY <1>2, <1>3, <1>4
  DEF Next, MainStep, Sample, StoreOffsets, SetCurrentPIDTar,
      SetCurrentPIDParams, EnableInterrupts, ApplySetting, vars, control

\* The d controller implements the limited positional PI law, with parameters
\* changed one at a time between any two loops, ...
THEOREM IdLoopIsPositional == Spec => IdPositional
<1>1. Init => IdPI!Init
  BY DEF Init, Zeroed, IdPI!Init
<1>2. IInv /\ [Next]_vars => [IdPI!Next]_IdPI!vars
  BY IdPositionalStep
<1>3. QED
  BY <1>1, <1>2, Invariance, PTL DEF Spec, IdPositional, IdPI!Spec

\* ... and so does the q controller, whose target is the output of the speed
\* controller.
THEOREM IqLoopIsPositional == Spec => IqPositional
<1>1. Init => IqPI!Init
  BY DEF Init, Zeroed, IqPI!Init
<1>2. IInv /\ [Next]_vars => [IqPI!Next]_IqPI!vars
  BY IqPositionalStep
<1>3. QED
  BY <1>1, <1>2, Invariance, PTL DEF Spec, IqPositional, IqPI!Spec
=============================================================================
