---------------------------- MODULE FocInterrupts ----------------------------
(***************************************************************************)
(* The contexts of the firmware that touch the motors and how they         *)
(* interleave: main() from the end of the peripheral initialisation to its *)
(* endless loop, the two current-loop handlers (DMA1 channel 2 for motor   *)
(* 1, channel 1 for motor 2), the two encoder handlers (channels 3 and 5)  *)
(* and the speed-loop handler (TMR5).  A current-loop handler busy-waits   *)
(* for data_ready, which only the encoder handler sets.  The handler of    *)
(* CAN errors (CAN1_SE) is empty: once an error is flagged it runs again   *)
(* and again, above main().                                                *)
(*                                                                         *)
(* pc[c] is the next thing context c does; a handler is "idle" when it is  *)
(* not active.  Steps are as fine as another context or the hardware can   *)
(* tell.                                                                   *)
(***************************************************************************)
EXTENDS Encoder, Nvic

CONSTANT InitReads    \* encoder reads of one angle_init; 12 in the code

ASSUME FocAssumption == InitReads \in Nat \ {0}

Motors == {1, 2}

VARIABLES pc,         \* what every context does next
          flag,       \* FDT1, FDT2, the TMR5 overflow and the CAN error flag
          ie,         \* the sources main() has enabled
          enc,        \* the encoder of every motor
          initMotor,  \* the motor angle_init works on
          reads,      \* the encoder reads angle_init has completed
          period      \* the loop interrupts raised in this PWM period

vars == <<pc, flag, ie, enc, initMotor, reads, period>>

\* The contexts of this module.
MotorIrqs == {"DMA1_CH1", "DMA1_CH2", "DMA1_CH3", "DMA1_CH5", "TMR5"}
Handlers == MotorIrqs \cup {"CAN1_SE"}
Ctx == Handlers \cup {"main"}

FocIrq(m) == IF m = 1 THEN "DMA1_CH2" ELSE "DMA1_CH1"
SpiIrq(m) == IF m = 1 THEN "DMA1_CH3" ELSE "DMA1_CH5"
FocIrqs == {"DMA1_CH1", "DMA1_CH2"}
SpiIrqs == {"DMA1_CH3", "DMA1_CH5"}
LoopIrqs == FocIrqs \cup {"TMR5"}
Flags == LoopIrqs \cup {"CAN1_SE"}

\* The motor whose encoder context c reads or finishes.
MotorOf(c) == IF c = "main" THEN initMotor
              ELSE IF c \in {"DMA1_CH2", "DMA1_CH3"} THEN 1 ELSE 2

Active == {c \in Ctx : pc[c] # "idle"}

\* Interrupt requests: an enabled source with its flag up.  wk_can1_init has
\* enabled CAN1_SE.
Raised(i) == IF i \in SpiIrqs THEN enc[MotorOf(i)].fdt ELSE flag[i]
Requests == {i \in ie \cup {"CAN1_SE"} : pc[i] = "idle" /\ Raised(i)}

Goto(c, from, to) == /\ pc[c] = from
                     /\ Executes(c, Requests, Active)
                     /\ pc' = [pc EXCEPT ![c] = to]

-----------------------------------------------------------------------------
\* MT6701_GetAngle, called by FocContorl and by angle_init.

ReadStates == {"cs", "clear", "tx", "rx", "send", "wait", "parse"}

PcStates == ReadStates \cup
              {"idle", "flag", "finish", "control", "speed", "ack", "spi1_int",
               "spi2_int", "tmr5_int", "adc1_int", "adc3_int", "loop", "error"}

SetEncoder(m, e) == enc' = [enc EXCEPT ![m] = e]

DriveCsLow(c) == /\ Goto(c, "cs", "clear")
                 /\ SetEncoder(MotorOf(c), SelectChip(enc[MotorOf(c)]))

ClearFlag(c) == /\ Goto(c, "clear", "tx")
                /\ SetEncoder(MotorOf(c), ClearReady(enc[MotorOf(c)]))

StartTx(c) == /\ Goto(c, "tx", "rx")
              /\ SetEncoder(MotorOf(c), EnableTx(enc[MotorOf(c)]))

StartRx(c) == /\ Goto(c, "rx", "send")
              /\ SetEncoder(MotorOf(c), EnableRx(enc[MotorOf(c)]))

SendDummy(c) == /\ Goto(c, "send", "wait")
                /\ CanTransmit(enc[MotorOf(c)])
                /\ SetEncoder(MotorOf(c), Transmit(enc[MotorOf(c)]))

SeeReady(c) == /\ Goto(c, "wait", "parse")
               /\ enc[MotorOf(c)].data_ready
               /\ UNCHANGED enc

MClearLate(c) ==
  LET e == enc[MotorOf(c)]
  IN  /\ \/ DriveCsLow(c)
         \/ Goto(c, "clear", "tx") /\ SetEncoder(MotorOf(c), EnableTx(e))
         \/ Goto(c, "tx", "rx") /\ SetEncoder(MotorOf(c), EnableRx(e))
         \/ CanTransmit(e) /\ Goto(c, "rx", "send") /\ SetEncoder(MotorOf(c), Transmit(e))
         \/ Goto(c, "send", "wait") /\ SetEncoder(MotorOf(c), ClearReady(e))
         \/ SeeReady(c)
      /\ UNCHANGED <<flag, ie, initMotor, reads, period>>

GetAngle(c) == /\ \/ DriveCsLow(c) \/ ClearFlag(c) \/ StartTx(c) \/ StartRx(c)
                  \/ SendDummy(c) \/ SeeReady(c)
               /\ UNCHANGED <<flag, ie, initMotor, reads, period>>

-----------------------------------------------------------------------------
\* main()

\* The delay_ms(10) before first_get outlasts the three bytes the TX channels
\* send as soon as the SPI ports are enabled.
BootTransferDone == \A m \in Motors : enc[m].txcnt = 0 /\ PortIdle(enc[m])

\* dma_interrupt_enable and tmr_interrupt_enable.
EnableInt(i, from, to) == /\ Goto("main", from, to)
                          /\ ie' = ie \cup {i}
                          /\ UNCHANGED <<flag, enc, initMotor, reads, period>>

MAdcBeforeInit ==
  \/ BootTransferDone /\ EnableInt("DMA1_CH3", "spi1_int", "spi2_int")
  \/ EnableInt("DMA1_CH5", "spi2_int", "adc1_int")
  \/ EnableInt("DMA1_CH2", "adc1_int", "adc3_int")
  \/ EnableInt("DMA1_CH1", "adc3_int", "cs")
  \/ EnableInt("TMR5", "tmr5_int", "loop")

MSpeedBeforeInit ==
  \/ /\ BootTransferDone /\ Goto("main", "spi1_int", "spi2_int")
     /\ ie' = {"DMA1_CH3", "TMR5"}
     /\ UNCHANGED <<flag, enc, initMotor, reads, period>>
  \/ EnableInt("DMA1_CH5", "spi2_int", "cs")
  \/ EnableInt("DMA1_CH2", "tmr5_int", "adc3_int")
  \/ EnableInt("DMA1_CH1", "adc3_int", "loop")

\* The order in which main() lets interrupts in, around angle_init.
EnableInterrupts ==
  \/ BootTransferDone /\ EnableInt("DMA1_CH3", "spi1_int", "spi2_int")
  \/ EnableInt("DMA1_CH5", "spi2_int", "cs")
  \/ EnableInt("TMR5", "tmr5_int", "adc1_int")
  \/ EnableInt("DMA1_CH2", "adc1_int", "adc3_int")
  \/ EnableInt("DMA1_CH1", "adc3_int", "loop")

\* angle_init(PMotor_1), then angle_init(PMotor_2): one discarded read, ten that
\* are averaged and one to verify.
angle_init ==
  LET again == reads + 1 < InitReads
  IN  /\ Goto("main", "parse", IF again \/ initMotor = 1 THEN "cs" ELSE "tmr5_int")
      /\ SetEncoder(initMotor, EndRead(enc[initMotor]))
      /\ reads' = IF again THEN reads + 1 ELSE 0
      /\ initMotor' = IF again THEN initMotor ELSE 2
      /\ UNCHANGED <<flag, ie, period>>

-----------------------------------------------------------------------------
\* The interrupt handlers.

First(i) == IF i = "TMR5" THEN "speed" ELSE IF i = "CAN1_SE" THEN "error" ELSE "flag"

Enter(i) == /\ Preempts(i, Requests, Active)
            /\ pc' = [pc EXCEPT ![i] = First(i)]
            /\ UNCHANGED <<flag, ie, enc, initMotor, reads, period>>

\* DMA1_Channel1_IRQHandler, DMA1_Channel2_IRQHandler: clear FDT, then
\* FocContorl, which starts with the angle.
FocAck(i) == /\ Goto(i, "flag", "cs")
             /\ flag' = [flag EXCEPT ![i] = FALSE]
             /\ UNCHANGED <<ie, enc, initMotor, reads, period>>

FocAngle(i) == /\ Goto(i, "parse", "control")
               /\ SetEncoder(MotorOf(i), EndRead(enc[MotorOf(i)]))
               /\ UNCHANGED <<flag, ie, initMotor, reads, period>>

\* Currents, transforms, filter, PI controllers, SVPWM and the PWM registers.
FocControl(i) == /\ Goto(i, "control", "idle")
                 /\ UNCHANGED <<flag, ie, enc, initMotor, reads, period>>

\* DMA1_Channel3_IRQHandler, DMA1_Channel5_IRQHandler.
SpiAck(i) == /\ Goto(i, "flag", "finish")
             /\ SetEncoder(MotorOf(i), ClearFdt(enc[MotorOf(i)]))
             /\ UNCHANGED <<flag, ie, initMotor, reads, period>>

SpiFinish(i) == /\ Goto(i, "finish", "idle")
                /\ SetEncoder(MotorOf(i), FinishRead(enc[MotorOf(i)]))
                /\ UNCHANGED <<flag, ie, initMotor, reads, period>>

\* TMR5_GLOBAL_IRQHandler: CalculateSpeed and SpeedPIControl of both motors,
\* then the overflow flag.
SpeedLoop == /\ Goto("TMR5", "speed", "ack")
             /\ UNCHANGED <<flag, ie, enc, initMotor, reads, period>>

MNoOverflowAck == /\ Goto("TMR5", "ack", "idle")
                  /\ UNCHANGED <<flag, ie, enc, initMotor, reads, period>>

SpeedAck == /\ Goto("TMR5", "ack", "idle")
            /\ flag' = [flag EXCEPT !["TMR5"] = FALSE]
            /\ UNCHANGED <<ie, enc, initMotor, reads, period>>

\* CAN1_SE_IRQHandler has no statement: the flag stays up.
ErrorReturn == /\ Goto("CAN1_SE", "error", "idle")
               /\ UNCHANGED <<flag, ie, enc, initMotor, reads, period>>

-----------------------------------------------------------------------------
\* The hardware.

\* The SPI port of motor m and its DMA channels move on.
Spi(m) ==
  /\ \/ CanTxDma(enc[m])   /\ SetEncoder(m, TxDma(enc[m]))
     \/ CanLoad(enc[m])    /\ SetEncoder(m, Load(enc[m]))
     \/ CanReceive(enc[m]) /\ SetEncoder(m, Receive(enc[m]))
     \/ CanRxDma(enc[m])   /\ SetEncoder(m, RxDma(enc[m]))
  /\ UNCHANGED <<pc, flag, ie, initMotor, reads, period>>

\* TMR4 channel 4 triggers ADC1 (motor 1) and TMR2 channel 3 ADC3 (motor 2) once
\* in every PWM period; the DMA of the two conversions raises FDT.  TMR5
\* overflows in some periods.
Raise(i) == /\ i \notin period
            /\ period' = period \cup {i}
            /\ flag' = [flag EXCEPT ![i] = TRUE]
            /\ UNCHANGED <<pc, ie, enc, initMotor, reads>>

\* The CAN controller records an error.
CanError == /\ flag' = [flag EXCEPT !["CAN1_SE"] = TRUE]
            /\ UNCHANGED <<pc, ie, enc, initMotor, reads, period>>

\* All interrupts of the motors are served.
Drained == (Requests \cup Active) \cap MotorIrqs = {}

\* TMR2 and TMR4 have the same period.
NewPeriod == /\ FocIrqs \subseteq period
             /\ period' = {}
             /\ UNCHANGED <<pc, flag, ie, enc, initMotor, reads>>

\* The handlers of one period do not end before the next one begins.
Overrun == NewPeriod /\ ~Drained

-----------------------------------------------------------------------------

Init == /\ pc = [c \in Ctx |-> IF c = "main" THEN "spi1_int" ELSE "idle"]
        /\ flag = [i \in Flags |-> FALSE]
        /\ ie = {}
        /\ enc = [m \in Motors |-> PoweredUp]
        /\ initMotor = 1
        /\ reads = 0
        /\ period = {}

MainStep == EnableInterrupts \/ GetAngle("main") \/ angle_init

FocStep(i) == FocAck(i) \/ GetAngle(i) \/ FocAngle(i) \/ FocControl(i)

SpiStep(i) == SpiAck(i) \/ SpiFinish(i)

SpeedStep == SpeedLoop \/ SpeedAck

Next == \/ MainStep
        \/ \E i \in FocIrqs : FocStep(i)
        \/ \E i \in SpiIrqs : SpiStep(i)
        \/ SpeedStep
        \/ ErrorReturn
        \/ \E i \in Handlers : Enter(i)
        \/ \E m \in Motors : Spi(m)
        \/ \E i \in LoopIrqs : Raise(i)
        \/ NewPeriod
        \/ CanError

\* The processor never stops, the SPI ports finish what they started and the
\* timers count on at least as long as the handlers keep up with them.  main
\* gets the processor in the gaps between the handlers, which come again and
\* again: hence its strong fairness.
Fairness == /\ SF_vars(MainStep)
            /\ \A i \in FocIrqs : WF_vars(FocStep(i))
            /\ \A i \in SpiIrqs : WF_vars(SpiStep(i))
            /\ WF_vars(SpeedStep)
            /\ WF_vars(ErrorReturn)
            /\ \A i \in Handlers : WF_vars(Enter(i))
            /\ \A m \in Motors : WF_vars(Spi(m))
            /\ \A i \in LoopIrqs : WF_vars(Raise(i))
            /\ WF_vars(NewPeriod /\ Drained)

Spec == Init /\ [][Next]_vars

FairSpec == Spec /\ Fairness

-----------------------------------------------------------------------------
\* The type of every variable.
TypeOK ==
  /\ pc \in [Ctx -> PcStates]
  /\ flag \in [Flags -> BOOLEAN]
  /\ ie \subseteq MotorIrqs
  /\ enc \in [Motors -> EncoderState]
  /\ initMotor \in Motors
  /\ reads \in 0..(InitReads - 1)
  /\ period \subseteq LoopIrqs

Reading(c) == pc[c] \in ReadStates

\* The angle MT6701_GetAngle computes is the one the encoder latched for this
\* read: when a context leaves the busy-wait, rx_buf[0] holds the first byte
\* clocked after the CS edge of this very read, never a byte of an earlier
\* read or of the transfer at boot.
AngleFresh == \A c \in Ctx : pc[c] = "parse" => enc[MotorOf(c)].rx_buf[0] = 1

\* Between two reads the port is silent: once the encoder handler has switched
\* the RX channel off, no byte is in flight, none waits in the SPI data
\* register for the next read to pick up, and no completion is pending.
PortQuiet == \A m \in Motors : ~enc[m].rx => PortIdle(enc[m]) /\ ~enc[m].fdt

\* One encoder is never read by two contexts at a time: angle_init in main and
\* the current loop of the same motor never overlap.
OneReader ==
  \A c, d \in Ctx : Reading(c) /\ Reading(d) /\ MotorOf(c) = MotorOf(d) => c = d

\* The byte asked for of encoder m is on its way to memory, or its completion to
\* the handler, whose interrupt is enabled.
ReadUnderWay(m) ==
  /\ SpiIrq(m) \in ie
  /\ \/ enc[m].rx /\ ~PortIdle(enc[m])
     \/ enc[m].fdt
     \/ pc[SpiIrq(m)] = "finish"

\* No wait is in vain: data_ready is up, or its handler will raise it and can
\* interrupt the one who waits.  The completion is never lost, nor over before
\* MT6701_StartRead clears the flag it sets.
NoLostWakeup ==
  \A c \in Ctx : pc[c] = "wait" =>
    /\ Priority(SpiIrq(MotorOf(c))) < Priority(c)
    /\ enc[MotorOf(c)].data_ready \/ ReadUnderWay(MotorOf(c))

\* The current loops and the speed loop exclude each other, although each can be
\* suspended in its busy-wait: the speed loop never sees a motor structure that
\* a current loop is halfway through updating.
LoopsExclusive ==
  \A i, j \in LoopIrqs : i \in Active /\ j \in Active => i = j

\* A read is never cut short: while a context reads encoder m, CS goes up only
\* after the byte of that very read has been stored.
WholeRead == [][\A m \in Motors :
                  /\ enc[m].cs /\ ~enc'[m].cs
                  /\ \E c \in Ctx : Reading(c) /\ MotorOf(c) = m
                  => enc[m].rx_buf[0] = 1]_vars

NoCanError == []~flag["CAN1_SE"]

\* Every busy-wait for data_ready ends; that of main(), which has no priority
\* over the CAN handlers, unless there is a CAN error.
ReadCompletes == /\ \A i \in FocIrqs : pc[i] = "wait" ~> pc[i] = "parse"
                 /\ NoCanError => (pc["main"] = "wait" ~> pc["main"] = "parse")

\* If from some time on no PWM period ends before its handlers do, the boot comes
\* to its end, unless a CAN error holds it up, and from then on the current loop
\* of each motor and the speed loop run again and again: neither what a period
\* that overran leaves behind nor the endless interrupts of a CAN error stop
\* them.
LoopsAlive == <>[][~Overrun]_vars =>
                /\ NoCanError => <>[](pc["main"] = "loop")
                /\ <>(pc["main"] = "loop") =>
                     /\ \A m \in Motors : []<>(pc[FocIrq(m)] = "control")
                     /\ []<>(pc["TMR5"] = "speed")

\* When data_ready is seen, rx_buf holds the frame of this read: all the bytes
\* MT6701_GetAngle assembles the angle from.
FrameComplete ==
  \A c \in Ctx : pc[c] = "parse" =>
    \A i \in BufIndex : enc[MotorOf(c)].rx_buf[i] = i + 1

-----------------------------------------------------------------------------
\* The contexts are a sequence of tasks on one motor, or on both.  A read of the
\* calibration lasts from the falling edge of CS on, a loop from its entry on.
CalibrationReads == pc["main"] \in ReadStates \ {"cs"}

Task == IF CalibrationReads THEN <<"calibration", initMotor>>
        ELSE IF pc["TMR5"] # "idle" THEN <<"speed", 0>>
        ELSE IF pc[FocIrq(1)] # "idle" THEN <<"current", 1>>
        ELSE IF pc[FocIrq(2)] # "idle" THEN <<"current", 2>>
        ELSE <<"nothing", 0>>

\* How far the read of context c is.
AngleOf(c) == IF pc[c] = "control" THEN "taken"
              ELSE IF pc[c] \notin ReadStates \ {"cs"} THEN "none"
              ELSE IF enc[MotorOf(c)].rx_buf[0] = 1 THEN "stored" ELSE "latched"

Angle == IF CalibrationReads THEN AngleOf("main")
         ELSE IF pc["TMR5"] # "idle" THEN "none"
         ELSE IF pc[FocIrq(1)] # "idle" THEN AngleOf(FocIrq(1))
         ELSE AngleOf(FocIrq(2))

\* Before tmr5_int, calibration is not over.
Left == IF pc["main"] \in ReadStates \cup {"spi1_int", "spi2_int"}
        THEN (IF initMotor = 1 THEN 2 ELSE 1) * InitReads - reads ELSE 0

Tasks == INSTANCE MotorTasks WITH Reads <- InitReads, task <- Task,
                                  angle <- Angle, left <- Left

\* Whatever interrupts what, the motors see one task at a time: first every read
\* of the calibrations, then current and speed loops, each with one angle of its
\* own where it needs one.
TaskRefinement == Tasks!Spec
=============================================================================
