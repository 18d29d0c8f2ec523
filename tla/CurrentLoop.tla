----------------------------- MODULE CurrentLoop -----------------------------
(***************************************************************************)
(* The current control of one motor: first_get measures the offsets of the *)
(* two current channels at boot, FocContorl (in the handler of the ADC's   *)
(* DMA channel) measures the currents and runs the d and q controllers,    *)
(* and main() writes targets and parameters field by field, with the       *)
(* handler coming in between.                                              *)
(*                                                                         *)
(* Currents are in units of the converter; after the Park transform, whose *)
(* angle is arbitrary, they are any value in -Current..Current (a zero     *)
(* vector stays zero).                                                     *)
(***************************************************************************)
EXTENDS PiController

CONSTANTS RestA, RestB, \* what the channels read while no current flows
          Loaded,       \* readings <<A, B>> with current in the motor
          Current,      \* bound of the transformed currents
          SpeedOut,     \* bound of speedPID.out
          OutMax,       \* the limit main() gives both controllers; 6 V
          Settings      \* what main() sets: targets and gains

\* The converter has 12 bits.
Adc == 0..4095

ASSUME CurrentAssumption ==
  /\ RestA \subseteq Adc /\ RestB \subseteq Adc /\ Loaded \subseteq Adc \X Adc
  /\ Current \in Nat /\ SpeedOut \in Nat /\ OutMax \in Nat
  /\ Settings \subseteq [id : Int, iq : Int, kp : Int, ki : Int]

VARIABLES pc,               \* what main() does next
          running,          \* the interrupt of the ADC channel is enabled
          taken,            \* samples first_get has added
          total,            \* their true sums, <<A, B>>
          ad_A, ad_B, voltage_a_offset, voltage_b_offset,
          Ia, Ib, Id, Iq,
          idPID, iqPID, tarid, tariq,
          setting           \* what main() is writing, or wrote last

currents == <<Ia, Ib, Id, Iq>>
offsets == <<voltage_a_offset, voltage_b_offset>>
control == <<idPID, iqPID, tarid, tariq>>
vars == <<pc, running, taken, total, ad_A, ad_B, offsets, currents, control,
          setting>>

-----------------------------------------------------------------------------
\* first_get

uint16(x) == x % 65536

MSeventeen == 17

\* The loop count of first_get; the sums are divided by 16.
Samples == 16

Sample == /\ pc = "first_get" /\ taken < Samples
          /\ \E a \in RestA, b \in RestB :
               /\ ad_A' = uint16(ad_A + a) /\ ad_B' = uint16(ad_B + b)
               /\ total' = <<total[1] + a, total[2] + b>>
          /\ taken' = taken + 1
          /\ UNCHANGED <<pc, running, offsets, currents, control, setting>>

MNoShift == /\ pc = "first_get" /\ taken = Samples
            /\ pc' = "tarid"
            /\ voltage_a_offset' = ad_A /\ voltage_b_offset' = ad_B
            /\ taken' = 0 /\ total' = <<0, 0>>
            /\ UNCHANGED <<running, ad_A, ad_B, currents, control, setting>>

StoreOffsets == /\ pc = "first_get" /\ taken = Samples
                /\ pc' = "tarid"
                /\ voltage_a_offset' = ad_A \div 16
                /\ voltage_b_offset' = ad_B \div 16
                /\ taken' = 0 /\ total' = <<0, 0>>
                /\ UNCHANGED <<running, ad_A, ad_B, currents, control, setting>>

-----------------------------------------------------------------------------
\* SetCurrentPIDTar, then SetCurrentPIDParams, field by field.

Write(field, next) ==
  /\ pc = field /\ pc' = next
  /\ UNCHANGED <<running, taken, total, ad_A, ad_B, offsets, currents, setting>>

SetCurrentPIDTar ==
  \/ /\ Write("tarid", "tariq")
     /\ tarid' = setting.id
     /\ UNCHANGED <<tariq, idPID, iqPID>>
  \/ /\ Write("tariq", "id.kp")
     /\ tariq' = setting.iq
     /\ UNCHANGED <<tarid, idPID, iqPID>>

SetId == \/ /\ Write("id.kp", "id.ki")
            /\ idPID' = [idPID EXCEPT !.kp = setting.kp]
         \/ /\ Write("id.ki", "id.outMax")
            /\ idPID' = [idPID EXCEPT !.ki = setting.ki]
         \/ /\ Write("id.outMax", "iq.kp")
            /\ idPID' = [idPID EXCEPT !.outMax = OutMax]

MIqKiFromKp ==
         \/ /\ Write("iq.kp", "iq.ki")
            /\ iqPID' = [iqPID EXCEPT !.kp = setting.kp]
         \/ /\ Write("iq.ki", "iq.outMax")
            /\ iqPID' = [iqPID EXCEPT !.ki = setting.kp]
         \/ /\ Write("iq.outMax", "loop")
            /\ iqPID' = [iqPID EXCEPT !.outMax = OutMax]

MIqRestart ==
         \/ /\ Write("iq.kp", "iq.ki")
            /\ iqPID' = [iqPID EXCEPT !.kp = setting.kp, !.out = 0]
         \/ /\ Write("iq.ki", "iq.outMax")
            /\ iqPID' = [iqPID EXCEPT !.ki = setting.ki]
         \/ /\ Write("iq.outMax", "loop")
            /\ iqPID' = [iqPID EXCEPT !.outMax = OutMax]

SetIq == \/ /\ Write("iq.kp", "iq.ki")
            /\ iqPID' = [iqPID EXCEPT !.kp = setting.kp]
         \/ /\ Write("iq.ki", "iq.outMax")
            /\ iqPID' = [iqPID EXCEPT !.ki = setting.ki]
         \/ /\ Write("iq.outMax", "loop")
            /\ iqPID' = [iqPID EXCEPT !.outMax = OutMax]

SetCurrentPIDParams == \/ SetId /\ UNCHANGED <<iqPID, tarid, tariq>>
                       \/ SetIq /\ UNCHANGED <<idPID, tarid, tariq>>

\* dma_interrupt_enable for the ADC channels, after the boot setting.
EnableInterrupts == /\ pc = "loop" /\ ~running
                    /\ running' = TRUE
                    /\ UNCHANGED <<pc, taken, total, ad_A, ad_B, offsets,
                                   currents, control, setting>>

\* The host has set Current_set_flag to 0: main() applies its parameters.
ApplySetting == /\ pc = "loop" /\ running
                /\ pc' = "tarid"
                /\ setting' \in Settings
                /\ UNCHANGED <<running, taken, total, ad_A, ad_B, offsets,
                               currents, control>>

-----------------------------------------------------------------------------
\* FocContorl, from the currents to Ud and Uq.

\* Measured currents, negated as clarke_transform does.
CurrentA(a) == -(a - voltage_a_offset)
CurrentB(b) == -(b - voltage_a_offset)

\* Id and Iq before the filter.
Transformed(a, b) == IF a = 0 /\ b = 0 THEN {0} ELSE -Current..Current

\* What the filter may return after one of the given inputs.
LPF_Update(filtered, inputs) ==
  {x \in -Current..Current : \E i \in inputs : x \in Filtered(filtered, i)}

\* The handler of the ADC channel; speedOut is speedPID.out, which replaces
\* tariq as the target of the q controller.
FocContorl(reading, speedOut) ==
  /\ running
  /\ ad_A' = reading[1] /\ ad_B' = reading[2]
  /\ Ia' = CurrentA(reading[1]) /\ Ib' = CurrentB(reading[2])
  /\ Id' \in LPF_Update(Id, Transformed(Ia', Ib'))
  /\ Iq' \in LPF_Update(Iq, Transformed(Ia', Ib'))
  /\ idPID' = Control(idPID, tarid, Id')
  /\ iqPID' = Control(iqPID, speedOut, Iq')
  /\ UNCHANGED <<pc, taken, total, offsets, tarid, tariq, running, setting>>

-----------------------------------------------------------------------------

\* Motor_1 and Motor_2 are zero but for their numbers.  main() starts with both
\* targets at 0.
Init == /\ pc = "first_get" /\ running = FALSE
        /\ taken = 0 /\ total = <<0, 0>>
        /\ ad_A = 0 /\ ad_B = 0
        /\ voltage_a_offset = 0 /\ voltage_b_offset = 0
        /\ Ia = 0 /\ Ib = 0 /\ Id = 0 /\ Iq = 0
        /\ idPID = Zeroed /\ iqPID = Zeroed /\ tarid = 0 /\ tariq = 0
        /\ setting \in {s \in Settings : s.id = 0 /\ s.iq = 0}

MainStep == \/ Sample \/ StoreOffsets \/ SetCurrentPIDTar
            \/ SetCurrentPIDParams \/ EnableInterrupts \/ ApplySetting

Readings == (RestA \X RestB) \cup Loaded

Next == \/ MainStep
        \/ \E r \in Readings, s \in -SpeedOut..SpeedOut : FocContorl(r, s)

Spec == Init /\ [][Next]_vars

-----------------------------------------------------------------------------
\* The type of every variable.
TypeOK == /\ pc \in {"first_get", "tarid", "tariq", "id.kp", "id.ki",
                     "id.outMax", "iq.kp", "iq.ki", "iq.outMax", "loop"}
          /\ running \in BOOLEAN /\ taken \in 0..Samples
          /\ total \in Nat \X Nat
          /\ ad_A \in Nat /\ ad_A < 65536 /\ ad_B \in Nat /\ ad_B < 65536
          /\ voltage_a_offset \in Adc /\ voltage_b_offset \in Adc
          /\ Ia \in Int /\ Ib \in Int
          /\ Id \in -Current..Current /\ Iq \in -Current..Current
          /\ idPID \in PI_Struct /\ iqPID \in PI_Struct
          /\ tarid \in Int /\ tariq \in Int
          /\ setting \in Settings

\* The offsets are the means of the samples, although 16 samples of 12 bits are
\* added in 16 bits: the sums never wrap, not even at the converter's limit.
OffsetIsMean == [][StoreOffsets =>
                     /\ voltage_a_offset' = total[1] \div 16
                     /\ voltage_b_offset' = total[2] \div 16]_vars

\* Neither controller asks for more than the limit main() gives them, at no
\* moment, the writes of a new parameter set between two loops included.
OutputLimited == fabs(idPID.out) <= OutMax /\ fabs(iqPID.out) <= OutMax

\* A motor that has settled (error 0, and 0 the time before) is not disturbed by
\* a loop that runs between two writes of SetCurrentPIDParams, with one gain of
\* the new set and the other of the old one.
SettledStays ==
  [][/\ idPID.lastBias = 0 /\ idPID'.lastBias = 0 => idPID'.out = idPID.out
     /\ iqPID.lastBias = 0 /\ iqPID'.lastBias = 0 => iqPID'.out = iqPID.out]_vars

Gains(p) == <<p.kp, p.ki, p.outMax>>

\* Outside the setter the d and the q controller have the same parameters, those
\* of the last setting: a loop never meets half a set once main() is back.  Of the
\* loops that run inside the setter this says nothing (SettledStays does).
OneParameterSet ==
  /\ running /\ pc \in {"loop", "tarid", "tariq", "id.kp"} =>
       Gains(idPID) = Gains(iqPID)
  /\ pc = "loop" => Gains(idPID) = <<setting.kp, setting.ki, OutMax>>

\* The incremental law of the code is the limited positional law, for both
\* controllers and with parameters that change between any two loops.
IdPI == INSTANCE PositionalPI
          WITH kp <- idPID.kp, ki <- idPID.ki, outMax <- idPID.outMax,
               integral <- idPID.out - idPID.kp * idPID.lastBias,
               error <- idPID.lastBias, out <- idPID.out
IqPI == INSTANCE PositionalPI
          WITH kp <- iqPID.kp, ki <- iqPID.ki, outMax <- iqPID.outMax,
               integral <- iqPID.out - iqPID.kp * iqPID.lastBias,
               error <- iqPID.lastBias, out <- iqPID.out

IdPositional == IdPI!Spec
IqPositional == IqPI!Spec

\* What the comment of first_get says (FOC.c:266): the offsets compensate the
\* later measurement of the currents.  A motor that reads what it read at rest
\* has no current, up to the noise of the channel.
RestIsZero ==
  running /\ <<ad_A, ad_B>> \in RestA \X RestB =>
    /\ \E a \in RestA : fabs(Ia) <= fabs(ad_A - a)
    /\ \E b \in RestB : fabs(Ib) <= fabs(ad_B - b)
=============================================================================
