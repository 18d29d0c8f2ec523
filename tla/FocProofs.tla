------------------------------ MODULE FocProofs ------------------------------
(***************************************************************************)
(* Proofs about module FocInterrupts, for every number of encoder reads in *)
(* angle_init, whether or not PWM periods overrun and CAN errors occur.    *)
(***************************************************************************)
EXTENDS FocInterrupts, TLAPS

-----------------------------------------------------------------------------
\* Every operation on an encoder yields an encoder state.
LEMMA EncoderTyped ==
  ASSUME NEW e \in EncoderState
  PROVE  /\ SelectChip(e) \in EncoderState
         /\ ClearReady(e) \in EncoderState
         /\ EnableTx(e) \in EncoderState
         /\ EnableRx(e) \in EncoderState
         /\ Transmit(e) \in EncoderState
         /\ EndRead(e) \in EncoderState
         /\ ClearFdt(e) \in EncoderState
         /\ FinishRead(e) \in EncoderState
         /\ CanTxDma(e) => TxDma(e) \in EncoderState
         /\ CanLoad(e) => Load(e) \in EncoderState
         /\ CanReceive(e) => Receive(e) \in EncoderState
         /\ CanRxDma(e) => RxDma(e) \in EncoderState
<1> DEFINE tagged == Stale \in Bytes /\ NoByte \in Bytes /\ Stale \in Tags
<1>0. tagged
  BY DEF Bytes, Tags, FrameBytes, NoByte, Stale
<1>1. SelectChip(e) \in EncoderState
  <2>1. Aged(e.shift) \in Bytes /\ Aged(e.dt) \in Bytes
    BY <1>0 DEF Aged
  <2>2. [i \in BufIndex |-> Stale] \in [BufIndex -> Tags] /\ 0 \in 0..FrameBytes
    BY <1>0 DEF FrameBytes
  <2> QED  BY <2>1, <2>2, Zenon DEF SelectChip, EncoderState
<1>2. /\ ClearReady(e) \in EncoderState
      /\ EnableTx(e) \in EncoderState
      /\ EnableRx(e) \in EncoderState
      /\ Transmit(e) \in EncoderState
      /\ EndRead(e) \in EncoderState
      /\ ClearFdt(e) \in EncoderState
      /\ FinishRead(e) \in EncoderState
  BY Zenon DEF EncoderState, ClearReady, EnableTx, EnableRx, Transmit, EndRead,
               ClearFdt, FinishRead
<1>3. CanTxDma(e) => TxDma(e) \in EncoderState
  <2>1. CanTxDma(e) => e.txcnt - 1 \in 0..TxSize
    BY DEF CanTxDma, TxSize, EncoderState
  <2> QED  BY <2>1, Zenon DEF TxDma, TxLoopMode, EncoderState
<1>4. CanLoad(e) => Load(e) \in EncoderState
  <2> DEFINE inFrame == e.cs /\ e.clk < FrameBytes
             byte == IF inFrame THEN e.clk + 1 ELSE Stale
             next == IF inFrame THEN e.clk + 1 ELSE e.clk
  <2>1. byte \in Bytes /\ next \in 0..FrameBytes
    BY DEF EncoderState, Bytes, Tags, FrameBytes, Stale
  <2>2. Load(e) = [e EXCEPT !.txdt = FALSE, !.shift = byte, !.clk = next]
    BY DEF Load
  <2> HIDE DEF byte, next
  <2> QED  BY <2>1, <2>2, Zenon DEF EncoderState
<1>5. CanReceive(e) => Receive(e) \in EncoderState
  BY <1>0, Zenon DEF CanReceive, Receive, EncoderState
<1>6. CanRxDma(e) => RxDma(e) \in EncoderState
  <2> SUFFICES ASSUME CanRxDma(e) PROVE RxDma(e) \in EncoderState
    OBVIOUS
  <2> DEFINE buf == [e.rx_buf EXCEPT ![e.rxpos] = e.dt]
             pos == (e.rxpos + 1) % RxSize
             full == e.fdt \/ e.rxpos + 1 = RxSize
  <2>1. e.rx_buf \in [BufIndex -> Tags] /\ e.rxpos \in BufIndex /\ e.dt \in Tags
    BY DEF CanRxDma, EncoderState, Bytes, Tags, RxSize, BufIndex, BufSize
  <2>2. buf \in [BufIndex -> Tags]
    BY <2>1, Zenon
  <2>3. pos \in 0..(RxSize - 1) /\ full \in BOOLEAN
    BY DEF EncoderState, RxSize
  <2>4. RxDma(e) = [e EXCEPT !.dt = NoByte, !.rx_buf = buf, !.rxpos = pos, !.fdt = full]
    BY DEF RxDma
  <2> HIDE DEF buf, pos, full
  <2> QED  BY <1>0, <2>2, <2>3, <2>4, Zenon DEF EncoderState
<1> QED  BY <1>1, <1>2, <1>3, <1>4, <1>5, <1>6

-----------------------------------------------------------------------------
(***************************************************************************)
(* The life of an encoder, as seen from its record e, the state h of its   *)
(* completion handler and the state r of the context that reads it         *)
(* ("none" when there is no reader).                                       *)
(***************************************************************************)

\* Until its interrupt is enabled: the transfer at boot is under way, or over
\* with its completion flag still up.
Booting(e, h, r) ==
  /\ h = "idle" /\ r = "none" /\ e.rx
  /\ e.fdt \/ e.txcnt > 0 \/ ~PortIdle(e)

\* The completion flag of the boot transfer is being served.
BootCompletion(e, h, r) ==
  /\ r = "none" /\ e.rx /\ PortIdle(e)
  /\ IF e.fdt THEN h \in {"idle", "flag"} ELSE h = "finish"

\* Nobody reads, or the reader has not lowered CS yet.
Resting(e, h, r) ==
  /\ h = "idle" /\ r \in {"none", "cs"}
  /\ ~e.cs /\ ~e.rx /\ ~e.fdt /\ PortIdle(e)

\* A frame is latched and nothing is clocked yet.
Latched(e, h, r) ==
  /\ h = "idle" /\ r \in {"clear", "tx", "rx", "send"}
  /\ e.cs /\ e.clk = 0 /\ ~e.fdt /\ PortIdle(e)
  /\ e.rx <=> r = "send"
  /\ r # "clear" => ~e.data_ready
  /\ e.rx_buf[0] # 1

\* The byte of this read is on its way.
InFlight(e, h, r) ==
  /\ h = "idle" /\ r = "wait" /\ e.cs /\ e.rx /\ ~e.fdt /\ ~e.data_ready
  /\ e.rx_buf[0] # 1
  /\ \/ e.txdt /\ e.shift = NoByte /\ e.dt = NoByte /\ e.clk = 0
     \/ ~e.txdt /\ e.shift = 1 /\ e.dt = NoByte
     \/ ~e.txdt /\ e.shift = NoByte /\ e.dt = 1

\* The byte is stored and the completion is being served.
Stored(e, h, r) ==
  /\ r = "wait" /\ e.rx /\ ~e.data_ready /\ PortIdle(e) /\ e.rx_buf[0] = 1
  /\ IF e.fdt THEN h \in {"idle", "flag"} ELSE h = "finish"

\* The read is over.
Done(e, h, r) ==
  /\ h = "idle" /\ r \in {"wait", "parse"}
  /\ ~e.cs /\ ~e.rx /\ ~e.fdt /\ PortIdle(e) /\ e.rx_buf[0] = 1
  /\ r = "wait" => e.data_ready

\* on: the completion interrupt is enabled.
EncoderPhase(e, h, r, on) ==
  IF on THEN /\ e.txcnt = 0
             /\ \/ BootCompletion(e, h, r) \/ Resting(e, h, r) \/ Latched(e, h, r)
                \/ InFlight(e, h, r) \/ Stored(e, h, r) \/ Done(e, h, r)
  ELSE Booting(e, h, r)

\* The context that reads encoder m is in this state.
Reader(m) == IF Reading("main") /\ initMotor = m THEN pc["main"]
             ELSE IF Reading(FocIrq(m)) THEN pc[FocIrq(m)] ELSE "none"

Phase(m) == EncoderPhase(enc[m], pc[SpiIrq(m)], Reader(m), SpiIrq(m) \in ie)

-----------------------------------------------------------------------------
\* The states of every kind of context.
PcOK == /\ pc["main"] \in ReadStates \cup {"spi1_int", "spi2_int", "tmr5_int",
                                           "adc1_int", "adc3_int", "loop"}
        /\ \A i \in FocIrqs : pc[i] \in ReadStates \cup {"idle", "flag", "control"}
        /\ \A i \in SpiIrqs : pc[i] \in {"idle", "flag", "finish"}
        /\ pc["TMR5"] \in {"idle", "speed", "ack"}
        /\ pc["CAN1_SE"] \in {"idle", "error"}

\* Which interrupts main has enabled so far.
IeOK == /\ pc["main"] = "spi1_int" => ie = {}
        /\ pc["main"] = "spi2_int" => ie = {"DMA1_CH3"}
        /\ pc["main"] \in ReadStates \cup {"tmr5_int"} => ie = SpiIrqs
        /\ pc["main"] \in {"adc1_int", "adc3_int", "loop"} => SpiIrqs \subseteq ie
        /\ \A i \in MotorIrqs : pc[i] # "idle" => i \in ie
        /\ pc["main"] \in {"spi1_int", "spi2_int"} => initMotor = 1 /\ reads = 0

\* After spi1_int the transfer at boot is over on both ports.
BootOver == pc["main"] # "spi1_int" => \A m \in Motors : enc[m].txcnt = 0 /\
              (SpiIrq(m) \notin ie => PortIdle(enc[m]))

IInv == /\ TypeOK
        /\ PcOK
        /\ IeOK
        /\ BootOver
        /\ LoopsExclusive
        /\ \A m \in Motors : Phase(m)

-----------------------------------------------------------------------------
(***************************************************************************)
(* Each operation moves an encoder from phase to phase.                    *)
(***************************************************************************)

LEMMA SelectPhase ==
  ASSUME NEW e \in EncoderState, NEW h, EncoderPhase(e, h, "cs", TRUE)
  PROVE  EncoderPhase(SelectChip(e), h, "clear", TRUE)
<1>1. Resting(e, h, "cs") /\ e.txcnt = 0
  BY DEF EncoderPhase, BootCompletion, Latched, InFlight, Stored, Done
<1>2. LET f == SelectChip(e)
      IN  /\ f.cs /\ f.clk = 0 /\ f.shift = NoByte /\ f.dt = NoByte
          /\ f.txcnt = e.txcnt /\ f.rx = e.rx /\ f.fdt = e.fdt /\ f.txdt = e.txdt
          /\ f.rx_buf[0] # 1
  BY <1>1 DEF SelectChip, EncoderState, Resting, PortIdle, Aged, BufIndex, BufSize, Stale
<1> QED  BY <1>1, <1>2 DEF EncoderPhase, Latched, Resting, PortIdle

LEMMA ClearPhase ==
  ASSUME NEW e \in EncoderState, NEW h, EncoderPhase(e, h, "clear", TRUE)
  PROVE  EncoderPhase(ClearReady(e), h, "tx", TRUE)
<1>1. Latched(e, h, "clear") /\ e.txcnt = 0
  BY DEF EncoderPhase, BootCompletion, Resting, InFlight, Stored, Done
<1>2. LET f == ClearReady(e)
      IN  /\ ~f.data_ready /\ f.cs = e.cs /\ f.clk = e.clk /\ f.shift = e.shift
          /\ f.dt = e.dt /\ f.txcnt = e.txcnt /\ f.rx = e.rx /\ f.fdt = e.fdt
          /\ f.txdt = e.txdt /\ f.rx_buf = e.rx_buf
  BY DEF ClearReady, EncoderState
<1> QED  BY <1>1, <1>2 DEF EncoderPhase, Latched, PortIdle

LEMMA TxPhase ==
  ASSUME NEW e \in EncoderState, NEW h, EncoderPhase(e, h, "tx", TRUE)
  PROVE  EncoderPhase(EnableTx(e), h, "rx", TRUE)
<1>1. Latched(e, h, "tx") /\ e.txcnt = 0
  BY DEF EncoderPhase, BootCompletion, Resting, InFlight, Stored, Done
<1>2. LET f == EnableTx(e)
      IN  /\ f.data_ready = e.data_ready /\ f.cs = e.cs /\ f.clk = e.clk
          /\ f.shift = e.shift /\ f.dt = e.dt /\ f.txcnt = e.txcnt /\ f.rx = e.rx
          /\ f.fdt = e.fdt /\ f.txdt = e.txdt /\ f.rx_buf = e.rx_buf
  BY DEF EnableTx, EncoderState
<1> QED  BY <1>1, <1>2 DEF EncoderPhase, Latched, PortIdle

LEMMA RxPhase ==
  ASSUME NEW e \in EncoderState, NEW h, EncoderPhase(e, h, "rx", TRUE)
  PROVE  EncoderPhase(EnableRx(e), h, "send", TRUE)
<1>1. Latched(e, h, "rx") /\ e.txcnt = 0
  BY DEF EncoderPhase, BootCompletion, Resting, InFlight, Stored, Done
<1>2. LET f == EnableRx(e)
      IN  /\ f.data_ready = e.data_ready /\ f.cs = e.cs /\ f.clk = e.clk
          /\ f.shift = e.shift /\ f.dt = e.dt /\ f.txcnt = e.txcnt /\ f.rx
          /\ f.fdt = e.fdt /\ f.txdt = e.txdt /\ f.rx_buf = e.rx_buf
  BY DEF EnableRx, EncoderState
<1> QED  BY <1>1, <1>2 DEF EncoderPhase, Latched, PortIdle

LEMMA SendPhase ==
  ASSUME NEW e \in EncoderState, NEW h, EncoderPhase(e, h, "send", TRUE)
  PROVE  EncoderPhase(Transmit(e), h, "wait", TRUE)
<1>1. Latched(e, h, "send") /\ e.txcnt = 0
  BY DEF EncoderPhase, BootCompletion, Resting, InFlight, Stored, Done
<1>2. LET f == Transmit(e)
      IN  /\ f.data_ready = e.data_ready /\ f.cs = e.cs /\ f.clk = e.clk
          /\ f.shift = e.shift /\ f.dt = e.dt /\ f.txcnt = e.txcnt /\ f.rx = e.rx
          /\ f.fdt = e.fdt /\ f.txdt /\ f.rx_buf = e.rx_buf
  BY DEF Transmit, EncoderState
<1> QED  BY <1>1, <1>2 DEF EncoderPhase, Latched, InFlight, PortIdle

\* The busy-wait can only end because of the completion of this read.
LEMMA ReadyPhase ==
  ASSUME NEW e \in EncoderState, NEW h, EncoderPhase(e, h, "wait", TRUE), e.data_ready
  PROVE  EncoderPhase(e, h, "parse", TRUE)
BY DEF EncoderPhase, BootCompletion, Resting, Latched, InFlight, Stored, Done

LEMMA EndPhase ==
  ASSUME NEW e \in EncoderState, NEW h, NEW r \in {"none", "cs"},
         EncoderPhase(e, h, "parse", TRUE)
  PROVE  EncoderPhase(EndRead(e), h, r, TRUE)
<1>1. Done(e, h, "parse") /\ e.txcnt = 0
  BY DEF EncoderPhase, BootCompletion, Resting, Latched, InFlight, Stored
<1>2. LET f == EndRead(e)
      IN  /\ f.cs = e.cs /\ f.shift = e.shift /\ f.dt = e.dt /\ f.txcnt = e.txcnt
          /\ f.rx = e.rx /\ f.fdt = e.fdt /\ f.txdt = e.txdt
  BY DEF EndRead, EncoderState
<1> QED  BY <1>1, <1>2 DEF EncoderPhase, Resting, Done, PortIdle

LEMMA AckPhase ==
  ASSUME NEW e \in EncoderState, NEW r, EncoderPhase(e, "flag", r, TRUE)
  PROVE  EncoderPhase(ClearFdt(e), "finish", r, TRUE)
<1>1. BootCompletion(e, "flag", r) \/ Stored(e, "flag", r)
  BY DEF EncoderPhase, Resting, Latched, InFlight, Done
<1>2. LET f == ClearFdt(e)
      IN  /\ f.data_ready = e.data_ready /\ f.shift = e.shift /\ f.dt = e.dt
          /\ f.txcnt = e.txcnt /\ f.rx = e.rx /\ ~f.fdt /\ f.txdt = e.txdt
          /\ f.rx_buf = e.rx_buf
  BY DEF ClearFdt, EncoderState
<1> QED  BY <1>1, <1>2 DEF EncoderPhase, BootCompletion, Stored, PortIdle

LEMMA FinishPhase ==
  ASSUME NEW e \in EncoderState, NEW r, EncoderPhase(e, "finish", r, TRUE)
  PROVE  EncoderPhase(FinishRead(e), "idle", r, TRUE)
<1>1. BootCompletion(e, "finish", r) \/ Stored(e, "finish", r)
  BY DEF EncoderPhase, Resting, Latched, InFlight, Done
<1>2. LET f == FinishRead(e)
      IN  /\ f.shift = e.shift /\ f.dt = e.dt /\ f.txcnt = e.txcnt /\ ~f.rx /\ ~f.cs
          /\ f.fdt = e.fdt /\ f.txdt = e.txdt /\ f.rx_buf = e.rx_buf /\ f.data_ready
  BY DEF FinishRead, EncoderState
<1> QED  BY <1>1, <1>2 DEF EncoderPhase, BootCompletion, Resting, Stored, Done, PortIdle

LEMMA EnterPhase ==
  ASSUME NEW e \in EncoderState, NEW r, EncoderPhase(e, "idle", r, TRUE), e.fdt
  PROVE  EncoderPhase(e, "flag", r, TRUE)
BY DEF EncoderPhase, BootCompletion, Resting, Latched, InFlight, Stored, Done

\* The hardware delivers exactly the byte of this read, and nothing at rest.
LEMMA HardwarePhase ==
  ASSUME NEW e \in EncoderState, NEW f, NEW h, NEW r, NEW on \in BOOLEAN,
         EncoderPhase(e, h, r, on),
         \/ CanTxDma(e) /\ f = TxDma(e)
         \/ CanLoad(e) /\ f = Load(e)
         \/ CanReceive(e) /\ f = Receive(e)
         \/ CanRxDma(e) /\ f = RxDma(e)
  PROVE  EncoderPhase(f, h, r, on)
<1>1. CASE CanTxDma(e) /\ f = TxDma(e)
  <2>1. e.txcnt > 0 /\ f.rx = e.rx /\ f.txdt
    BY <1>1 DEF CanTxDma, TxDma, EncoderState
  <2> QED  BY <2>1 DEF EncoderPhase, Booting, PortIdle, EncoderState
<1>2. CASE CanLoad(e) /\ f = Load(e)
  <2>1. /\ f.rx = e.rx /\ ~f.txdt /\ f.shift # NoByte /\ f.dt = e.dt /\ f.cs = e.cs
        /\ f.fdt = e.fdt /\ f.data_ready = e.data_ready /\ f.txcnt = e.txcnt
        /\ f.rx_buf = e.rx_buf
        /\ e.cs /\ e.clk = 0 => f.shift = 1
    BY <1>2 DEF CanLoad, Load, EncoderState, FrameBytes, Stale, NoByte
  <2>2. e.txdt /\ e.shift = NoByte
    BY <1>2 DEF CanLoad
  <2>3. CASE on
    <3>1. InFlight(e, h, r) /\ e.txcnt = 0
      BY <2>2, <2>3 DEF EncoderPhase, BootCompletion, Resting, Latched, Stored, Done, PortIdle
    <3>2. InFlight(f, h, r)
      BY <2>1, <2>2, <3>1 DEF InFlight
    <3> QED  BY <2>1, <2>3, <3>1, <3>2 DEF EncoderPhase
  <2>4. CASE ~on
    BY <2>1, <2>4 DEF EncoderPhase, Booting, PortIdle
  <2> QED  BY <2>3, <2>4
<1>3. CASE CanReceive(e) /\ f = Receive(e)
  <2>1. /\ f.rx = e.rx /\ f.txdt = e.txdt /\ f.shift = NoByte /\ f.dt # NoByte
        /\ f.fdt = e.fdt /\ f.data_ready = e.data_ready /\ f.txcnt = e.txcnt
        /\ f.rx_buf = e.rx_buf
        /\ e.dt = NoByte => f.dt = e.shift
        /\ e.shift # NoByte
    BY <1>3 DEF CanReceive, Receive, EncoderState
  <2>3. CASE on
    <3>1. InFlight(e, h, r) /\ e.txcnt = 0
      BY <2>1, <2>3 DEF EncoderPhase, BootCompletion, Resting, Latched, Stored, Done, PortIdle
    <3>2. f.cs = e.cs
      BY <1>3 DEF Receive, EncoderState
    <3>3. InFlight(f, h, r)
      BY <2>1, <3>1, <3>2 DEF InFlight
    <3> QED  BY <2>1, <2>3, <3>1, <3>3 DEF EncoderPhase
  <2>4. CASE ~on
    BY <2>1, <2>4 DEF EncoderPhase, Booting, PortIdle
  <2> QED  BY <2>3, <2>4
<1>4. CASE CanRxDma(e) /\ f = RxDma(e)
  <2>0. e.rxpos = 0 /\ 0 \in DOMAIN e.rx_buf
    BY DEF EncoderState, RxSize, BufIndex, BufSize
  <2>1. /\ f.rx = e.rx /\ f.txdt = e.txdt /\ f.shift = e.shift /\ f.dt = NoByte
        /\ f.data_ready = e.data_ready /\ f.txcnt = e.txcnt
        /\ e.dt # NoByte
    BY <1>4 DEF CanRxDma, RxDma, EncoderState
  <2>2. f.fdt
    <3>1. e.rxpos + 1 = RxSize
      BY <2>0 DEF RxSize
    <3> QED  BY <1>4, <3>1, Zenon DEF RxDma, EncoderState
  <2>5. f.rx_buf[0] = e.dt
    BY <1>4, <2>0 DEF RxDma, EncoderState
  <2>3. CASE on
    <3>1. InFlight(e, h, r) /\ e.txcnt = 0
      BY <2>1, <2>3 DEF EncoderPhase, BootCompletion, Resting, Latched, Stored, Done, PortIdle
    <3>2. Stored(f, h, r)
      BY <2>1, <2>2, <2>5, <3>1 DEF InFlight, Stored, PortIdle
    <3> QED  BY <2>1, <2>3, <3>1, <3>2 DEF EncoderPhase
  <2>4. CASE ~on
    BY <2>1, <2>2, <2>4 DEF EncoderPhase, Booting
  <2> QED  BY <2>3, <2>4
<1> QED  BY <1>1, <1>2, <1>3, <1>4

-----------------------------------------------------------------------------
(***************************************************************************)
(* Scheduling facts.                                                       *)
(***************************************************************************)

\* While main executes, no handler is active and none is requested.
LEMMA MainAlone ==
  ASSUME IInv, Executes("main", Requests, Active)
  PROVE  /\ \A i \in Handlers : pc[i] = "idle"
         /\ \A m \in Motors : SpiIrq(m) \in ie => ~enc[m].fdt
<1>1. ASSUME NEW i \in Handlers, pc[i] # "idle" PROVE FALSE
  <2>1. i \in Active /\ Priority(i) < Priority("main")
    BY <1>1 DEF Active, Ctx, Handlers, MotorIrqs, Priority, Irqs
  <2> QED  BY <2>1 DEF Executes, Priority, Handlers, MotorIrqs, Irqs
<1>2. ASSUME NEW m \in Motors, SpiIrq(m) \in ie, enc[m].fdt PROVE FALSE
  <2>1. SpiIrq(m) \in Handlers /\ SpiIrq(m) \in SpiIrqs /\ MotorOf(SpiIrq(m)) = m
    BY DEF SpiIrq, Handlers, MotorIrqs, SpiIrqs, MotorOf, Motors
  <2>2. SpiIrq(m) \in Requests
    BY <1>1, <1>2, <2>1 DEF Requests, Raised
  <2>3. Priority(SpiIrq(m)) = 0 /\ Priority("main") = 99
    BY <2>1 DEF Priority, SpiIrqs, Irqs
  <2> QED  BY <2>2, <2>3 DEF Executes
<1> QED  BY <1>1, <1>2

\* While a current loop or the speed loop executes, no encoder completion is
\* active or requested.
LEMMA LoopAlone ==
  ASSUME IInv, NEW i \in LoopIrqs, Executes(i, Requests, Active)
  PROVE  \A m \in Motors : pc[SpiIrq(m)] = "idle" /\ (SpiIrq(m) \in ie => ~enc[m].fdt)
<1>0. Priority(i) = 1
  BY DEF Priority, LoopIrqs, FocIrqs, Irqs
<1>1. ASSUME NEW m \in Motors
      PROVE  SpiIrq(m) \in Ctx /\ SpiIrq(m) \in SpiIrqs /\ MotorOf(SpiIrq(m)) = m
             /\ Priority(SpiIrq(m)) = 0
  BY DEF SpiIrq, Ctx, Handlers, MotorIrqs, SpiIrqs, MotorOf, Motors, Priority
<1>2. ASSUME NEW m \in Motors PROVE pc[SpiIrq(m)] = "idle"
  BY <1>0, <1>1 DEF Executes, Active
<1>3. ASSUME NEW m \in Motors, SpiIrq(m) \in ie, enc[m].fdt PROVE FALSE
  <2>1. SpiIrq(m) \in Requests
    BY <1>1, <1>2, <1>3 DEF Requests, Raised
  <2> QED  BY <1>0, <1>1, <2>1 DEF Executes
<1> QED  BY <1>2, <1>3

\* A context that reads an encoder is the reader of its motor, and the completion
\* interrupt of that encoder is enabled.
LEMMA ReaderIs ==
  ASSUME IInv, NEW c \in FocIrqs \cup {"main"}, Reading(c)
  PROVE  /\ MotorOf(c) \in Motors
         /\ Reader(MotorOf(c)) = pc[c]
         /\ SpiIrq(MotorOf(c)) \in ie
<1>1. MotorOf(c) \in Motors
  BY DEF MotorOf, IInv, TypeOK, Motors
<1>2. CASE c = "main"
  BY <1>1, <1>2 DEF Reader, MotorOf, IInv, IeOK, Reading, SpiIrq, SpiIrqs
<1>3. CASE c \in FocIrqs
  <2>1. c \in ie /\ pc[c] # "idle"
    BY <1>3 DEF IInv, IeOK, Reading, ReadStates, Handlers, MotorIrqs, FocIrqs
  <2>2. ~Reading("main") /\ SpiIrqs \subseteq ie
    BY <1>3, <2>1 DEF IInv, IeOK, PcOK, Reading, FocIrqs, SpiIrqs
  <2>3. FocIrq(MotorOf(c)) = c
    BY <1>3 DEF FocIrq, MotorOf, FocIrqs
  <2> QED  BY <1>1, <2>2, <2>3 DEF Reader, SpiIrq, SpiIrqs
<1> QED  BY <1>2, <1>3

-----------------------------------------------------------------------------
(***************************************************************************)
(* Every action preserves the inductive invariant.                         *)
(***************************************************************************)

LEMMA SpiIrqFacts ==
  ASSUME NEW m \in Motors
  PROVE  /\ SpiIrq(m) \in SpiIrqs /\ SpiIrq(m) \in MotorIrqs /\ SpiIrq(m) \in Handlers
         /\ SpiIrq(m) \in Ctx
         /\ FocIrq(m) \in FocIrqs /\ FocIrq(m) \in Handlers /\ FocIrq(m) \in Ctx
         /\ SpiIrq(m) # FocIrq(m) /\ SpiIrq(m) # "main" /\ FocIrq(m) # "main"
BY DEF SpiIrq, FocIrq, SpiIrqs, FocIrqs, Handlers, MotorIrqs, Ctx, Motors

\* A step within MT6701_GetAngle.
LEMMA ReadStep ==
  ASSUME IInv, NEW c \in FocIrqs \cup {"main"},
         NEW from \in ReadStates, NEW to \in ReadStates, Goto(c, from, to),
         NEW e \in EncoderState, enc' = [enc EXCEPT ![MotorOf(c)] = e],
         EncoderPhase(e, pc[SpiIrq(MotorOf(c))], to, TRUE),
         UNCHANGED <<flag, ie, initMotor, reads, period>>
  PROVE  IInv'
<1> DEFINE k == MotorOf(c)
<1>1. k \in Motors /\ Reader(k) = from /\ SpiIrq(k) \in ie /\ pc[c] = from /\ Reading(c)
  BY ReaderIs DEF Goto, Reading
<1>2. c \in Ctx /\ pc' = [pc EXCEPT ![c] = to] /\ pc \in [Ctx -> PcStates] /\ to \in PcStates
  BY DEF Goto, Ctx, Handlers, MotorIrqs, FocIrqs, IInv, TypeOK, PcStates
<1>3. TypeOK'
  BY <1>1, <1>2 DEF IInv, TypeOK
<1>4. PcOK'
  BY <1>1, <1>2 DEF IInv, PcOK, FocIrqs, SpiIrqs, ReadStates, Ctx, Handlers, MotorIrqs
<1>5. IeOK'
  BY <1>1, <1>2 DEF IInv, IeOK, Reading, FocIrqs, ReadStates, Ctx, Handlers, MotorIrqs
<1>6. LoopsExclusive'
  BY <1>1, <1>2 DEF IInv, LoopsExclusive, Active, Reading, ReadStates, LoopIrqs, FocIrqs, Ctx, Handlers, MotorIrqs
<1>7. e.txcnt = 0
  BY DEF EncoderPhase
<1>8. BootOver'
  <2>1. pc["main"] # "spi1_int"
    BY <1>1 DEF IInv, IeOK
  <2> QED  BY <1>1, <1>7, <2>1 DEF IInv, TypeOK, BootOver
<1>9. ASSUME NEW m \in Motors PROVE Phase(m)'
  <2>1. pc'[SpiIrq(m)] = pc[SpiIrq(m)]
    BY <1>2, SpiIrqFacts DEF FocIrqs, SpiIrqs
  <2>2. CASE m = k
    <3>1. Reader(m)' = to
      <4>1. CASE c = "main"
        BY <1>2, <2>2, <4>1 DEF Reader, Reading, MotorOf
      <4>2. CASE c \in FocIrqs
        <5>1. ~Reading("main")
          BY <1>1, <4>2 DEF IInv, IeOK, PcOK, Reading, FocIrqs, SpiIrqs, ReadStates, Handlers, MotorIrqs
        <5>2. FocIrq(m) = c /\ pc'["main"] = pc["main"] /\ pc'[c] = to
          BY <1>2, <2>2, <4>2 DEF FocIrq, MotorOf, FocIrqs, Ctx
        <5> QED  BY <5>1, <5>2 DEF Reader, Reading
      <4> QED  BY <4>1, <4>2
    <3>2. enc'[m] = e
      BY <1>1, <2>2 DEF IInv, TypeOK
    <3> QED  BY <1>1, <2>1, <2>2, <3>1, <3>2 DEF Phase
  <2>3. CASE m # k
    <3>1. enc'[m] = enc[m]
      BY <1>1, <2>3 DEF IInv, TypeOK
    <3>2. Reader(m)' = Reader(m)
      <4>1. CASE c = "main"
        BY <1>1, <1>2, <2>3, <4>1, SpiIrqFacts DEF Reader, Reading, MotorOf
      <4>2. CASE c \in FocIrqs
        BY <1>1, <1>2, <2>3, <4>2, SpiIrqFacts DEF Reader, Reading, FocIrq, MotorOf, FocIrqs, Motors, Ctx
      <4> QED  BY <4>1, <4>2
    <3> QED  BY <2>1, <3>1, <3>2 DEF IInv, Phase
  <2> QED  BY <2>2, <2>3
<1> QED  BY <1>3, <1>4, <1>5, <1>6, <1>8, <1>9 DEF IInv

LEMMA GetAngleInv ==
  ASSUME IInv, NEW c \in FocIrqs \cup {"main"}, GetAngle(c)
  PROVE  IInv'
<1> DEFINE k == MotorOf(c)
<1> USE DEF ReadStates
<1>1. k \in Motors /\ enc[k] \in EncoderState
  BY DEF MotorOf, IInv, TypeOK, Motors
<1>2. UNCHANGED <<flag, ie, initMotor, reads, period>>
  BY DEF GetAngle
<1>3. ASSUME Reading(c) PROVE EncoderPhase(enc[k], pc[SpiIrq(k)], pc[c], TRUE)
  BY <1>3, ReaderIs DEF IInv, Phase
<1>4. CASE DriveCsLow(c)
  <2>1. Goto(c, "cs", "clear") /\ enc' = [enc EXCEPT ![k] = SelectChip(enc[k])]
    BY <1>4 DEF DriveCsLow, SetEncoder
  <2>2. EncoderPhase(enc[k], pc[SpiIrq(k)], "cs", TRUE)
    BY <1>3, <2>1 DEF Goto, Reading
  <2> QED  BY <1>1, <1>2, <2>1, <2>2, SelectPhase, EncoderTyped, ReadStep
<1>5. CASE ClearFlag(c)
  <2>1. Goto(c, "clear", "tx") /\ enc' = [enc EXCEPT ![k] = ClearReady(enc[k])]
    BY <1>5 DEF ClearFlag, SetEncoder
  <2>2. EncoderPhase(enc[k], pc[SpiIrq(k)], "clear", TRUE)
    BY <1>3, <2>1 DEF Goto, Reading
  <2> QED  BY <1>1, <1>2, <2>1, <2>2, ClearPhase, EncoderTyped, ReadStep
<1>6. CASE StartTx(c)
  <2>1. Goto(c, "tx", "rx") /\ enc' = [enc EXCEPT ![k] = EnableTx(enc[k])]
    BY <1>6 DEF StartTx, SetEncoder
  <2>2. EncoderPhase(enc[k], pc[SpiIrq(k)], "tx", TRUE)
    BY <1>3, <2>1 DEF Goto, Reading
  <2> QED  BY <1>1, <1>2, <2>1, <2>2, TxPhase, EncoderTyped, ReadStep
<1>7. CASE StartRx(c)
  <2>1. Goto(c, "rx", "send") /\ enc' = [enc EXCEPT ![k] = EnableRx(enc[k])]
    BY <1>7 DEF StartRx, SetEncoder
  <2>2. EncoderPhase(enc[k], pc[SpiIrq(k)], "rx", TRUE)
    BY <1>3, <2>1 DEF Goto, Reading
  <2> QED  BY <1>1, <1>2, <2>1, <2>2, RxPhase, EncoderTyped, ReadStep
<1>8. CASE SendDummy(c)
  <2>1. Goto(c, "send", "wait") /\ enc' = [enc EXCEPT ![k] = Transmit(enc[k])]
    BY <1>8 DEF SendDummy, SetEncoder
  <2>2. EncoderPhase(enc[k], pc[SpiIrq(k)], "send", TRUE)
    BY <1>3, <2>1 DEF Goto, Reading
  <2> QED  BY <1>1, <1>2, <2>1, <2>2, SendPhase, EncoderTyped, ReadStep
<1>9. CASE SeeReady(c)
  <2>1. Goto(c, "wait", "parse") /\ enc[k].data_ready /\ enc' = enc
    BY <1>9 DEF SeeReady
  <2>2. EncoderPhase(enc[k], pc[SpiIrq(k)], "wait", TRUE)
    BY <1>3, <2>1 DEF Goto, Reading
  <2>3. EncoderPhase(enc[k], pc[SpiIrq(k)], "parse", TRUE)
    BY <1>1, <2>1, <2>2, ReadyPhase
  <2>4. enc' = [enc EXCEPT ![k] = enc[k]]
    BY <1>1, <2>1 DEF IInv, TypeOK
  <2> QED  BY <1>1, <1>2, <2>1, <2>3, <2>4, ReadStep
<1> QED  BY <1>4, <1>5, <1>6, <1>7, <1>8, <1>9 DEF GetAngle

\* A step that moves no encoder, no reader and no encoder handler, and leaves
\* main and the interrupt enables alone: the control steps of the handlers and
\* the raising of loop interrupts.
LEMMA LoopStep ==
  ASSUME IInv, NEW i \in LoopIrqs, NEW to \in PcStates, pc' = [pc EXCEPT ![i] = to],
         to \notin ReadStates, ~Reading(i),
         i = "TMR5" => to \in {"idle", "speed", "ack"},
         i # "TMR5" => to \in {"idle", "flag", "control"},
         to # "idle" => i \in ie /\ \A j \in LoopIrqs : j \in Active => j = i,
         flag' \in [Flags -> BOOLEAN], period' \subseteq LoopIrqs,
         UNCHANGED <<ie, enc, initMotor, reads>>
  PROVE  IInv'
<1>1. i \in Ctx /\ i # "main" /\ i \notin SpiIrqs /\ pc \in [Ctx -> PcStates]
  BY DEF LoopIrqs, FocIrqs, SpiIrqs, Ctx, Handlers, MotorIrqs, IInv, TypeOK
<1>2. TypeOK'
  BY <1>1 DEF IInv, TypeOK
<1>3. PcOK'
  BY <1>1 DEF IInv, PcOK, LoopIrqs, FocIrqs, SpiIrqs, Ctx, Handlers, MotorIrqs
<1>4. IeOK'
  BY <1>1 DEF IInv, IeOK, Ctx, Handlers, MotorIrqs
<1>5. BootOver'
  BY <1>1 DEF IInv, BootOver, Ctx
<1>6. LoopsExclusive'
  BY <1>1 DEF IInv, LoopsExclusive, Active, LoopIrqs, FocIrqs, Ctx, Handlers, MotorIrqs
<1>7. ASSUME NEW m \in Motors PROVE Phase(m)'
  <2>1. pc'[SpiIrq(m)] = pc[SpiIrq(m)]
    BY <1>1, SpiIrqFacts
  <2>2. Reader(m)' = Reader(m)
    BY <1>1, SpiIrqFacts DEF Reader, Reading, Ctx
  <2> QED  BY <2>1, <2>2 DEF IInv, Phase
<1> QED  BY <1>2, <1>3, <1>4, <1>5, <1>6, <1>7 DEF IInv

LEMMA ControlInv == ASSUME IInv, NEW i \in FocIrqs, FocControl(i) PROVE IInv'
BY LoopStep DEF FocControl, Goto, PcStates, ReadStates, Reading, FocIrqs, LoopIrqs, IInv, TypeOK

LEMMA SpeedInv == ASSUME IInv, SpeedStep PROVE IInv'
<1>1. CASE SpeedLoop
  <2>1. /\ pc["TMR5"] = "speed" /\ pc' = [pc EXCEPT !["TMR5"] = "ack"]
        /\ UNCHANGED <<flag, ie, enc, initMotor, reads, period>>
    BY <1>1 DEF SpeedLoop, Goto
  <2>2. "TMR5" \in ie /\ \A j \in LoopIrqs : j \in Active => j = "TMR5"
    BY <2>1 DEF IInv, IeOK, Handlers, MotorIrqs, LoopsExclusive, Active, LoopIrqs, Ctx
  <2> QED  BY <2>1, <2>2, LoopStep DEF PcStates, ReadStates, Reading, LoopIrqs, IInv, TypeOK
<1>2. CASE SpeedAck
  <2>1. /\ pc["TMR5"] = "ack" /\ pc' = [pc EXCEPT !["TMR5"] = "idle"]
        /\ flag' = [flag EXCEPT !["TMR5"] = FALSE]
        /\ UNCHANGED <<ie, enc, initMotor, reads, period>>
    BY <1>2 DEF SpeedAck, Goto
  <2>2. flag' \in [Flags -> BOOLEAN] /\ period' \subseteq LoopIrqs
    BY <2>1 DEF IInv, TypeOK
  <2> QED  BY <2>1, <2>2, LoopStep DEF PcStates, ReadStates, Reading, LoopIrqs
<1> QED  BY <1>1, <1>2 DEF SpeedStep

\* The empty handler is entered and returns.
LEMMA ErrorEdge ==
  ASSUME IInv, NEW to \in {"idle", "error"}, pc' = [pc EXCEPT !["CAN1_SE"] = to],
         UNCHANGED <<flag, ie, enc, initMotor, reads, period>>
  PROVE  IInv'
<1>1. "CAN1_SE" \in Ctx /\ "CAN1_SE" # "main" /\ "CAN1_SE" \notin MotorIrqs /\ pc \in [Ctx -> PcStates]
  BY DEF MotorIrqs, Ctx, Handlers, IInv, TypeOK
<1>2. TypeOK'
  BY <1>1 DEF IInv, TypeOK, PcStates
<1>3. PcOK'
  BY <1>1 DEF IInv, PcOK, FocIrqs, SpiIrqs, Ctx, Handlers, MotorIrqs
<1>4. IeOK'
  BY <1>1 DEF IInv, IeOK, Ctx, Handlers, MotorIrqs
<1>5. BootOver'
  BY <1>1 DEF IInv, BootOver, Ctx
<1>6. LoopsExclusive'
  BY <1>1 DEF IInv, LoopsExclusive, Active, LoopIrqs, FocIrqs, Ctx, Handlers, MotorIrqs
<1>7. ASSUME NEW m \in Motors PROVE Phase(m)'
  <2>1. pc'[SpiIrq(m)] = pc[SpiIrq(m)] /\ pc'[FocIrq(m)] = pc[FocIrq(m)] /\ pc'["main"] = pc["main"]
    BY <1>1, SpiIrqFacts DEF SpiIrqs, FocIrqs, Ctx
  <2>2. Reader(m)' = Reader(m)
    BY <2>1 DEF Reader, Reading
  <2> QED  BY <2>1, <2>2 DEF IInv, Phase
<1> QED  BY <1>2, <1>3, <1>4, <1>5, <1>6, <1>7 DEF IInv

LEMMA ErrorInv == ASSUME IInv, ErrorReturn PROVE IInv'
BY ErrorEdge DEF ErrorReturn, Goto

\* A current-loop handler begins or ends its read: pc moves between "flag" or
\* "parse" and "cs" or "control".
LEMMA FocEdge ==
  ASSUME IInv, NEW i \in FocIrqs, NEW to \in {"cs", "control"},
         pc[i] # "idle", pc' = [pc EXCEPT ![i] = to],
         NEW e \in EncoderState, enc' = [enc EXCEPT ![MotorOf(i)] = e],
         EncoderPhase(e, pc[SpiIrq(MotorOf(i))], IF to = "cs" THEN "cs" ELSE "none", TRUE),
         flag' \in [Flags -> BOOLEAN],
         UNCHANGED <<ie, initMotor, reads, period>>
  PROVE  IInv'
<1> DEFINE k == MotorOf(i)
<1>1. /\ k \in Motors /\ FocIrq(k) = i /\ i \in Ctx /\ i # "main" /\ i \notin SpiIrqs
      /\ pc \in [Ctx -> PcStates] /\ to \in PcStates
  BY DEF MotorOf, Motors, FocIrq, FocIrqs, SpiIrqs, Ctx, Handlers, MotorIrqs, IInv, TypeOK, PcStates, ReadStates
<1>2. i \in ie /\ ~Reading("main") /\ SpiIrqs \subseteq ie /\ pc["main"] # "spi1_int"
  BY DEF IInv, IeOK, PcOK, Reading, FocIrqs, SpiIrqs, Handlers, MotorIrqs
<1>3. TypeOK'
  BY <1>1 DEF IInv, TypeOK
<1>4. PcOK'
  BY <1>1 DEF IInv, PcOK, FocIrqs, SpiIrqs, ReadStates, Ctx, Handlers, MotorIrqs
<1>5. IeOK'
  BY <1>1, <1>2 DEF IInv, IeOK, Ctx, Handlers, MotorIrqs
<1>6. LoopsExclusive'
  BY <1>1 DEF IInv, LoopsExclusive, Active, LoopIrqs, FocIrqs, Ctx, Handlers, MotorIrqs
<1>7. BootOver'
  <2>1. e.txcnt = 0
    BY DEF EncoderPhase
  <2> QED  BY <1>1, <1>2, <2>1, SpiIrqFacts DEF IInv, TypeOK, BootOver
<1>8. ASSUME NEW m \in Motors PROVE Phase(m)'
  <2>1. pc'[SpiIrq(m)] = pc[SpiIrq(m)] /\ pc'["main"] = pc["main"] /\ SpiIrq(m) \in ie
    BY <1>1, <1>2, SpiIrqFacts DEF Ctx
  <2>2. CASE m = k
    <3>1. Reader(m)' = IF to = "cs" THEN "cs" ELSE "none"
      BY <1>1, <1>2, <2>1, <2>2 DEF Reader, Reading, ReadStates
    <3>2. enc'[m] = e
      BY <1>1, <2>2 DEF IInv, TypeOK
    <3> QED  BY <2>1, <2>2, <3>1, <3>2 DEF Phase
  <2>3. CASE m # k
    <3>1. enc'[m] = enc[m]
      BY <1>1, <2>3 DEF IInv, TypeOK
    <3>2. FocIrq(m) # i
      BY <1>1, <2>3 DEF FocIrq, Motors
    <3>3. Reader(m)' = Reader(m)
      BY <1>1, <2>1, <3>2, SpiIrqFacts DEF Reader, Reading
    <3> QED  BY <2>1, <3>1, <3>3 DEF IInv, Phase
  <2> QED  BY <2>2, <2>3
<1> QED  BY <1>3, <1>4, <1>5, <1>6, <1>7, <1>8 DEF IInv

LEMMA FocAckInv == ASSUME IInv, NEW i \in FocIrqs, FocAck(i) PROVE IInv'
<1> DEFINE k == MotorOf(i)
<1>1. /\ Executes(i, Requests, Active) /\ pc[i] = "flag" /\ pc' = [pc EXCEPT ![i] = "cs"]
      /\ flag' = [flag EXCEPT ![i] = FALSE]
      /\ UNCHANGED <<ie, enc, initMotor, reads, period>>
  BY DEF FocAck, Goto
<1>2. k \in Motors /\ FocIrq(k) = i /\ i \in LoopIrqs /\ enc[k] \in EncoderState
  BY DEF MotorOf, Motors, FocIrq, FocIrqs, LoopIrqs, IInv, TypeOK
<1>3. ~Reading("main") /\ SpiIrq(k) \in ie
  BY <1>1, <1>2, SpiIrqFacts DEF IInv, IeOK, PcOK, Reading, FocIrqs, SpiIrqs, Handlers, MotorIrqs
<1>4. Reader(k) = "none"
  BY <1>1, <1>2, <1>3 DEF Reader, Reading, ReadStates
<1>5. pc[SpiIrq(k)] = "idle" /\ ~enc[k].fdt
  BY <1>1, <1>2, <1>3, LoopAlone
<1>6. EncoderPhase(enc[k], pc[SpiIrq(k)], "cs", TRUE)
  <2>1. EncoderPhase(enc[k], pc[SpiIrq(k)], "none", TRUE)
    BY <1>2, <1>3, <1>4 DEF IInv, Phase
  <2> QED  BY <1>5, <2>1 DEF EncoderPhase, BootCompletion, Resting, Latched, InFlight, Stored, Done
<1>7. enc' = [enc EXCEPT ![k] = enc[k]] /\ flag' \in [Flags -> BOOLEAN]
  BY <1>1, <1>2 DEF IInv, TypeOK
<1> QED  BY <1>1, <1>2, <1>6, <1>7, FocEdge

LEMMA FocAngleInv == ASSUME IInv, NEW i \in FocIrqs, FocAngle(i) PROVE IInv'
<1> DEFINE k == MotorOf(i)
<1>1. /\ pc[i] = "parse" /\ pc' = [pc EXCEPT ![i] = "control"]
      /\ enc' = [enc EXCEPT ![k] = EndRead(enc[k])]
      /\ UNCHANGED <<flag, ie, initMotor, reads, period>>
  BY DEF FocAngle, Goto, SetEncoder
<1>2. k \in Motors /\ enc[k] \in EncoderState /\ Reading(i)
  BY <1>1 DEF MotorOf, Motors, FocIrqs, IInv, TypeOK, Reading, ReadStates
<1>3. EncoderPhase(enc[k], pc[SpiIrq(k)], "parse", TRUE)
  BY <1>1, <1>2, ReaderIs DEF IInv, Phase
<1>4. EncoderPhase(EndRead(enc[k]), pc[SpiIrq(k)], "none", TRUE) /\ EndRead(enc[k]) \in EncoderState
  BY <1>2, <1>3, EndPhase, EncoderTyped
<1> QED  BY <1>1, <1>2, <1>4, FocEdge DEF IInv, TypeOK

\* A step of an encoder handler, or its entry.
LEMMA SpiEdge ==
  ASSUME IInv, NEW m \in Motors, NEW to \in {"idle", "flag", "finish"}, SpiIrq(m) \in ie,
         pc' = [pc EXCEPT ![SpiIrq(m)] = to],
         NEW e \in EncoderState, enc' = [enc EXCEPT ![m] = e],
         EncoderPhase(e, to, Reader(m), TRUE),
         UNCHANGED <<flag, ie, initMotor, reads, period>>
  PROVE  IInv'
<1>1. /\ SpiIrq(m) \in Ctx /\ SpiIrq(m) # "main" /\ SpiIrq(m) \notin LoopIrqs
      /\ SpiIrq(m) \in SpiIrqs /\ SpiIrq(m) \in Handlers
      /\ pc \in [Ctx -> PcStates] /\ to \in PcStates
  BY SpiIrqFacts DEF SpiIrqs, LoopIrqs, FocIrqs, IInv, TypeOK, PcStates
<1>2. TypeOK'
  BY <1>1 DEF IInv, TypeOK
<1>3. PcOK'
  BY <1>1 DEF IInv, PcOK, LoopIrqs, FocIrqs, SpiIrqs, Ctx, Handlers, MotorIrqs
<1>4. IeOK'
  BY <1>1 DEF IInv, IeOK, Ctx, Handlers, MotorIrqs
<1>5. LoopsExclusive'
  BY <1>1 DEF IInv, LoopsExclusive, Active, LoopIrqs, FocIrqs, Ctx, Handlers, MotorIrqs
<1>6. BootOver'
  <2>1. e.txcnt = 0 /\ pc["main"] # "spi1_int" /\ pc'["main"] = pc["main"]
    BY <1>1 DEF EncoderPhase, IInv, IeOK, Ctx
  <2> QED  BY <1>1, <2>1, SpiIrqFacts DEF IInv, TypeOK, BootOver
<1>7. ASSUME NEW n \in Motors PROVE Phase(n)'
  <2>1. Reader(n)' = Reader(n)
    BY <1>1, SpiIrqFacts DEF Reader, Reading, SpiIrqs, FocIrqs, Ctx
  <2>2. CASE n = m
    BY <1>1, <2>1, <2>2 DEF IInv, TypeOK, Phase
  <2>3. CASE n # m
    <3>1. SpiIrq(n) # SpiIrq(m)
      BY <2>3 DEF SpiIrq, Motors
    <3> QED  BY <1>1, <2>1, <2>3, <3>1, SpiIrqFacts DEF IInv, TypeOK, Phase
  <2> QED  BY <2>2, <2>3
<1> QED  BY <1>2, <1>3, <1>4, <1>5, <1>6, <1>7 DEF IInv

LEMMA SpiInv == ASSUME IInv, NEW i \in SpiIrqs, SpiStep(i) PROVE IInv'
<1> DEFINE k == MotorOf(i)
<1>1. k \in Motors /\ SpiIrq(k) = i /\ enc[k] \in EncoderState
  BY DEF MotorOf, Motors, SpiIrq, SpiIrqs, IInv, TypeOK
<1>2. CASE SpiAck(i)
  <2>1. /\ pc[i] = "flag" /\ pc' = [pc EXCEPT ![i] = "finish"]
        /\ enc' = [enc EXCEPT ![k] = ClearFdt(enc[k])]
        /\ UNCHANGED <<flag, ie, initMotor, reads, period>>
    BY <1>2 DEF SpiAck, Goto, SetEncoder
  <2>2. i \in ie
    BY <1>1, <2>1, SpiIrqFacts DEF IInv, IeOK
  <2>3. EncoderPhase(enc[k], "flag", Reader(k), TRUE)
    BY <1>1, <2>1, <2>2 DEF IInv, Phase
  <2>4. EncoderPhase(ClearFdt(enc[k]), "finish", Reader(k), TRUE) /\ ClearFdt(enc[k]) \in EncoderState
    BY <1>1, <2>3, AckPhase, EncoderTyped
  <2> QED  BY <1>1, <2>1, <2>2, <2>4, SpiEdge
<1>3. CASE SpiFinish(i)
  <2>1. /\ pc[i] = "finish" /\ pc' = [pc EXCEPT ![i] = "idle"]
        /\ enc' = [enc EXCEPT ![k] = FinishRead(enc[k])]
        /\ UNCHANGED <<flag, ie, initMotor, reads, period>>
    BY <1>3 DEF SpiFinish, Goto, SetEncoder
  <2>2. i \in ie
    BY <1>1, <2>1, SpiIrqFacts DEF IInv, IeOK
  <2>3. EncoderPhase(enc[k], "finish", Reader(k), TRUE)
    BY <1>1, <2>1, <2>2 DEF IInv, Phase
  <2>4. EncoderPhase(FinishRead(enc[k]), "idle", Reader(k), TRUE) /\ FinishRead(enc[k]) \in EncoderState
    BY <1>1, <2>3, FinishPhase, EncoderTyped
  <2> QED  BY <1>1, <2>1, <2>2, <2>4, SpiEdge
<1> QED  BY <1>2, <1>3 DEF SpiStep

LEMMA EnterInv == ASSUME IInv, NEW i \in Handlers, Enter(i) PROVE IInv'
<1>1. /\ i \in Requests /\ \A c \in Active : Priority(i) < Priority(c)
      /\ pc' = [pc EXCEPT ![i] = First(i)]
      /\ UNCHANGED <<flag, ie, enc, initMotor, reads, period>>
  BY DEF Enter, Preempts
<1>2. i \in ie \cup {"CAN1_SE"} /\ pc[i] = "idle" /\ Raised(i)
  BY <1>1 DEF Requests
<1>3. CASE i \in SpiIrqs
  <2> DEFINE k == MotorOf(i)
  <2>1. k \in Motors /\ SpiIrq(k) = i /\ enc[k] \in EncoderState /\ First(i) = "flag"
    BY <1>3 DEF MotorOf, Motors, SpiIrq, SpiIrqs, IInv, TypeOK, First
  <2>2. i \in ie /\ enc[k].fdt /\ EncoderPhase(enc[k], "idle", Reader(k), TRUE)
    BY <1>2, <1>3, <2>1 DEF Raised, SpiIrqs, IInv, Phase
  <2>3. EncoderPhase(enc[k], "flag", Reader(k), TRUE)
    BY <2>1, <2>2, EnterPhase
  <2>4. enc' = [enc EXCEPT ![k] = enc[k]]
    BY <1>1, <2>1 DEF IInv, TypeOK
  <2> QED  BY <1>1, <2>1, <2>2, <2>3, <2>4, SpiEdge
<1>4. CASE i \in LoopIrqs
  <2>1. \A j \in LoopIrqs : j \notin Active
    BY <1>1, <1>4 DEF Priority, LoopIrqs, FocIrqs, Irqs
  <2>2. First(i) \in PcStates /\ First(i) \notin ReadStates /\ ~Reading(i)
    BY <1>2 DEF First, PcStates, ReadStates, Reading
  <2>3. /\ i = "TMR5" => First(i) \in {"idle", "speed", "ack"}
        /\ i # "TMR5" => First(i) \in {"idle", "flag", "control"}
    BY <1>4 DEF First, LoopIrqs, FocIrqs
  <2>4. i \in ie
    BY <1>2, <1>4 DEF LoopIrqs, FocIrqs
  <2> QED  BY <1>1, <1>4, <2>1, <2>2, <2>3, <2>4, LoopStep DEF IInv, TypeOK
<1>5. CASE i = "CAN1_SE"
  BY <1>1, <1>5, ErrorEdge DEF First
<1> QED  BY <1>3, <1>4, <1>5 DEF Handlers, MotorIrqs, SpiIrqs, LoopIrqs, FocIrqs

\* The SPI port and its DMA channels.
LEMMA HardwareInv == ASSUME IInv, NEW m \in Motors, Spi(m) PROVE IInv'
<1> DEFINE on == SpiIrq(m) \in ie
<1>1. PICK e : /\ \/ CanTxDma(enc[m]) /\ e = TxDma(enc[m])
                  \/ CanLoad(enc[m]) /\ e = Load(enc[m])
                  \/ CanReceive(enc[m]) /\ e = Receive(enc[m])
                  \/ CanRxDma(enc[m]) /\ e = RxDma(enc[m])
               /\ enc' = [enc EXCEPT ![m] = e]
               /\ UNCHANGED <<pc, flag, ie, initMotor, reads, period>>
  BY DEF Spi, SetEncoder
<1>2. enc[m] \in EncoderState /\ e \in EncoderState /\ enc'[m] = e
  BY <1>1, EncoderTyped DEF IInv, TypeOK
<1>3. EncoderPhase(e, pc[SpiIrq(m)], Reader(m), on)
  <2>1. EncoderPhase(enc[m], pc[SpiIrq(m)], Reader(m), on) /\ on \in BOOLEAN
    BY DEF IInv, Phase
  <2> HIDE DEF on
  <2> QED  BY <1>1, <1>2, <2>1, HardwarePhase
<1>4. TypeOK'
  BY <1>1, <1>2 DEF IInv, TypeOK
<1>5. PcOK' /\ IeOK' /\ LoopsExclusive'
  BY <1>1 DEF IInv, PcOK, IeOK, LoopsExclusive, Active
<1>6. BootOver'
  <2> SUFFICES ASSUME pc["main"] # "spi1_int", NEW n \in Motors
               PROVE  enc'[n].txcnt = 0 /\ (SpiIrq(n) \notin ie => PortIdle(enc'[n]))
    BY <1>1 DEF BootOver
  <2>1. CASE n # m
    BY <1>1, <2>1 DEF IInv, TypeOK, BootOver
  <2>2. CASE n = m /\ on
    BY <1>2, <1>3, <2>2 DEF EncoderPhase
  <2>3. CASE n = m /\ ~on
    \* Nothing is left to move.
    <3>1. enc[m].txcnt = 0 /\ PortIdle(enc[m])
      BY <2>3 DEF IInv, BootOver
    <3> QED  BY <1>1, <3>1 DEF PortIdle, CanTxDma, CanLoad, CanReceive, CanRxDma
  <2> QED  BY <2>1, <2>2, <2>3
<1>7. ASSUME NEW n \in Motors PROVE Phase(n)'
  <2>1. Reader(n)' = Reader(n)
    BY <1>1 DEF Reader, Reading
  <2>2. CASE n = m
    BY <1>1, <1>2, <1>3, <2>1, <2>2 DEF Phase
  <2>3. CASE n # m
    BY <1>1, <2>1, <2>3 DEF IInv, TypeOK, Phase
  <2> QED  BY <2>2, <2>3
<1> QED  BY <1>4, <1>5, <1>6, <1>7 DEF IInv

\* The timers and the CAN controller.
LEMMA TimerInv ==
  ASSUME IInv, (\E i \in LoopIrqs : Raise(i)) \/ NewPeriod \/ CanError
  PROVE  IInv'
<1>1. /\ flag' \in [Flags -> BOOLEAN] /\ period' \subseteq LoopIrqs
      /\ UNCHANGED <<pc, ie, enc, initMotor, reads>>
  BY DEF Raise, NewPeriod, CanError, Flags, IInv, TypeOK
<1>2. TypeOK' /\ PcOK' /\ IeOK' /\ LoopsExclusive' /\ BootOver'
  BY <1>1 DEF IInv, TypeOK, PcOK, IeOK, LoopsExclusive, Active, BootOver
<1>3. ASSUME NEW m \in Motors PROVE Phase(m)'
  BY <1>1 DEF IInv, Phase, Reader, Reading
<1> QED  BY <1>2, <1>3 DEF IInv

\* A step of main that moves no encoder and does not end a read.
LEMMA MainEdge ==
  ASSUME IInv, Executes("main", Requests, Active), NEW to \in PcStates,
         ~Reading("main"), pc' = [pc EXCEPT !["main"] = to],
         UNCHANGED <<flag, enc, initMotor, reads, period>>,
         ie' \subseteq MotorIrqs, ie \subseteq ie',
         PcOK', IeOK', BootOver',
         \A m \in Motors : SpiIrq(m) \in ie' /\ SpiIrq(m) \notin ie =>
                              PortIdle(enc[m]) /\ enc[m].txcnt = 0 /\ Reader(m)' = "none",
         to \in ReadStates => to = "cs" /\ SpiIrq(initMotor) \in ie
  PROVE  IInv'
<1>1. pc \in [Ctx -> PcStates] /\ "main" \in Ctx
  BY DEF IInv, TypeOK, Ctx
<1>2. TypeOK'
  BY <1>1 DEF IInv, TypeOK
<1>3. LoopsExclusive'
  BY <1>1 DEF IInv, LoopsExclusive, Active, LoopIrqs, FocIrqs, Ctx, Handlers, MotorIrqs
<1>4. ASSUME NEW m \in Motors PROVE Phase(m)'
  <2>1. /\ pc'[SpiIrq(m)] = "idle" /\ pc[SpiIrq(m)] = "idle" /\ pc[FocIrq(m)] = "idle"
        /\ pc'[FocIrq(m)] = "idle" /\ pc'["main"] = to
        /\ SpiIrq(m) \in ie => ~enc[m].fdt
    BY <1>1, MainAlone, SpiIrqFacts
  <2>2. Reader(m) = "none" /\ Reader(m)' \in {"none", "cs"}
    BY <2>1 DEF Reader, Reading, ReadStates
  <2>3. CASE SpiIrq(m) \in ie
    <3>1. Resting(enc[m], "idle", "none") /\ enc[m].txcnt = 0
      BY <2>1, <2>2, <2>3 DEF IInv, Phase, EncoderPhase, BootCompletion, Latched, InFlight, Stored, Done
    <3>2. Resting(enc[m], "idle", Reader(m)')
      BY <2>2, <3>1 DEF Resting
    <3> QED  BY <2>1, <2>3, <3>1, <3>2 DEF Phase, EncoderPhase
  <2>4. CASE SpiIrq(m) \notin ie
    <3>1. Booting(enc[m], "idle", "none")
      BY <2>1, <2>2, <2>4 DEF IInv, Phase, EncoderPhase
    <3>2. Reader(m)' = "none"
      BY <2>1, <2>4 DEF Reader, Reading, ReadStates
    <3>3. CASE SpiIrq(m) \in ie'
      <4>1. BootCompletion(enc[m], "idle", "none") /\ enc[m].txcnt = 0
        BY <2>4, <3>1, <3>3 DEF Booting, BootCompletion
      <4> QED  BY <2>1, <3>2, <3>3, <4>1 DEF Phase, EncoderPhase
    <3>4. CASE SpiIrq(m) \notin ie'
      BY <2>1, <3>1, <3>2, <3>4 DEF Phase, EncoderPhase
    <3> QED  BY <3>3, <3>4
  <2> QED  BY <2>3, <2>4
<1> QED  BY <1>2, <1>3, <1>4 DEF IInv

LEMMA EnableInv == ASSUME IInv, EnableInterrupts PROVE IInv'
<1>0. pc \in [Ctx -> PcStates] /\ "main" \in Ctx /\ Handlers \subseteq Ctx /\ "main" \notin Handlers
  BY DEF IInv, TypeOK, Ctx, Handlers, MotorIrqs
<1>1. CASE BootTransferDone /\ EnableInt("DMA1_CH3", "spi1_int", "spi2_int")
  <2>1. /\ Executes("main", Requests, Active) /\ pc["main"] = "spi1_int"
        /\ pc' = [pc EXCEPT !["main"] = "spi2_int"] /\ ie = {} /\ ie' = {"DMA1_CH3"}
        /\ UNCHANGED <<flag, enc, initMotor, reads, period>>
        /\ initMotor = 1 /\ reads = 0
    BY <1>1 DEF EnableInt, Goto, IInv, IeOK
  <2>2. PcOK' /\ IeOK'
    BY <1>0, <2>1 DEF IInv, PcOK, IeOK, FocIrqs, SpiIrqs, ReadStates, Handlers, MotorIrqs
  <2>3. BootOver'
    BY <1>1, <2>1 DEF BootTransferDone, BootOver
  <2>4. \A m \in Motors : Reader(m)' = "none"
    <3>1. \A m \in Motors : pc'[FocIrq(m)] = "idle" /\ pc'["main"] = "spi2_int"
      BY <1>0, <2>1, MainAlone, SpiIrqFacts
    <3> QED  BY <3>1 DEF Reader, Reading, ReadStates
  <2>5. \A m \in Motors : PortIdle(enc[m]) /\ enc[m].txcnt = 0
    BY <1>1 DEF BootTransferDone
  <2> QED  BY <2>1, <2>2, <2>3, <2>4, <2>5, MainEdge DEF PcStates, ReadStates, Reading, Handlers, MotorIrqs
<1>2. CASE EnableInt("DMA1_CH5", "spi2_int", "cs")
  <2>1. /\ Executes("main", Requests, Active) /\ pc["main"] = "spi2_int"
        /\ pc' = [pc EXCEPT !["main"] = "cs"] /\ ie = {"DMA1_CH3"} /\ ie' = SpiIrqs
        /\ UNCHANGED <<flag, enc, initMotor, reads, period>>
        /\ initMotor = 1 /\ reads = 0
    BY <1>2 DEF EnableInt, Goto, IInv, IeOK, SpiIrqs
  <2>2. PcOK' /\ IeOK'
    BY <1>0, <2>1 DEF IInv, PcOK, IeOK, FocIrqs, SpiIrqs, ReadStates, Handlers, MotorIrqs
  <2>3. BootOver'
    BY <2>1 DEF IInv, BootOver, SpiIrqs
  <2>4. ASSUME NEW m \in Motors, SpiIrq(m) \notin ie
        PROVE  Reader(m)' = "none" /\ PortIdle(enc[m]) /\ enc[m].txcnt = 0
    <3>1. m # initMotor
      BY <2>1, <2>4 DEF SpiIrq
    <3>2. pc'[FocIrq(m)] = "idle"
      BY <1>0, <2>1, MainAlone, SpiIrqFacts
    <3>3. PortIdle(enc[m]) /\ enc[m].txcnt = 0
      BY <2>1, <2>4 DEF IInv, BootOver
    <3> QED  BY <2>1, <3>1, <3>2, <3>3 DEF Reader, Reading, ReadStates
  <2>5. SpiIrq(initMotor) \in ie
    BY <2>1 DEF SpiIrq
  <2> QED  BY <2>1, <2>2, <2>3, <2>4, <2>5, MainEdge DEF PcStates, ReadStates, Reading, Handlers, MotorIrqs, SpiIrqs
<1>3. ASSUME NEW i \in LoopIrqs, NEW from \in {"tmr5_int", "adc1_int", "adc3_int"},
             NEW to \in {"adc1_int", "adc3_int", "loop"}, EnableInt(i, from, to)
      PROVE  IInv'
  <2>1. /\ Executes("main", Requests, Active) /\ pc["main"] = from
        /\ pc' = [pc EXCEPT !["main"] = to] /\ SpiIrqs \subseteq ie /\ ie' = ie \cup {i}
        /\ UNCHANGED <<flag, enc, initMotor, reads, period>>
    BY <1>3 DEF EnableInt, Goto, IInv, IeOK
  <2>2. PcOK' /\ IeOK'
    BY <1>0, <2>1 DEF IInv, PcOK, IeOK, FocIrqs, SpiIrqs, ReadStates, Handlers, MotorIrqs
  <2>3. BootOver'
    BY <2>1, SpiIrqFacts DEF IInv, BootOver
  <2>4. ie' \subseteq MotorIrqs /\ ie \subseteq ie'
    BY <2>1 DEF IInv, TypeOK, LoopIrqs, FocIrqs, Handlers, MotorIrqs
  <2> QED  BY <2>1, <2>2, <2>3, <2>4, SpiIrqFacts, MainEdge DEF PcStates, ReadStates, Reading
<1> QED  BY <1>1, <1>2, <1>3 DEF EnableInterrupts, LoopIrqs, FocIrqs

LEMMA AngleInitInv == ASSUME IInv, angle_init PROVE IInv'
<1> DEFINE again == reads + 1 < InitReads
           to == IF again \/ initMotor = 1 THEN "cs" ELSE "tmr5_int"
           next == IF again THEN initMotor ELSE 2
<1>1. /\ Executes("main", Requests, Active) /\ pc["main"] = "parse"
      /\ pc' = [pc EXCEPT !["main"] = to]
      /\ enc' = [enc EXCEPT ![initMotor] = EndRead(enc[initMotor])]
      /\ reads' = (IF again THEN reads + 1 ELSE 0) /\ initMotor' = next
      /\ UNCHANGED <<flag, ie, period>>
  BY DEF angle_init, Goto, SetEncoder
<1>2. /\ pc \in [Ctx -> PcStates] /\ "main" \in Ctx /\ initMotor \in Motors /\ next \in Motors
      /\ enc[initMotor] \in EncoderState /\ ie = SpiIrqs /\ to \in {"cs", "tmr5_int"}
  BY <1>1 DEF IInv, TypeOK, Ctx, Motors, IeOK, ReadStates
<1> DEFINE e == EndRead(enc[initMotor])
<1>3. e \in EncoderState
  BY <1>2, EncoderTyped
<1>4. TypeOK'
  <2>1. reads' \in 0..(InitReads - 1)
    BY <1>1, FocAssumption DEF IInv, TypeOK
  <2> QED  BY <1>1, <1>2, <1>3, <2>1 DEF IInv, TypeOK, PcStates, ReadStates
<1> HIDE DEF e, to, next
<1>5. \A i \in Handlers : pc[i] = "idle" /\ pc'[i] = "idle"
  BY <1>1, <1>2, MainAlone DEF Ctx, Handlers, MotorIrqs
<1>6. PcOK' /\ IeOK' /\ LoopsExclusive'
  BY <1>1, <1>2, <1>5 DEF IInv, PcOK, IeOK, LoopsExclusive, Active, ReadStates, FocIrqs, SpiIrqs,
                          LoopIrqs, Handlers, MotorIrqs, Ctx
<1>7. EncoderPhase(enc[initMotor], "idle", "parse", TRUE)
  <2>1. Reading("main") /\ MotorOf("main") = initMotor
    BY <1>1 DEF Reading, ReadStates, MotorOf
  <2>2. Reader(initMotor) = "parse" /\ SpiIrq(initMotor) \in ie
    BY <1>1, <2>1, ReaderIs
  <2>3. pc[SpiIrq(initMotor)] = "idle"
    BY <1>2, <1>5, SpiIrqFacts
  <2> QED  BY <1>2, <2>2, <2>3 DEF IInv, Phase
<1>8. \A r \in {"none", "cs"} : EncoderPhase(e, "idle", r, TRUE)
  BY <1>2, <1>7, EndPhase DEF e
<1>9. BootOver'
  <2>1. e.txcnt = 0
    BY <1>8 DEF EncoderPhase
  <2> QED  BY <1>1, <1>2, <2>1, SpiIrqFacts DEF IInv, TypeOK, BootOver, e
<1>10. ASSUME NEW m \in Motors PROVE Phase(m)'
  <2>1. pc'[SpiIrq(m)] = "idle" /\ pc'[FocIrq(m)] = "idle" /\ SpiIrq(m) \in ie /\ ie' = ie
        /\ pc[SpiIrq(m)] = "idle" /\ pc[FocIrq(m)] = "idle"
    BY <1>1, <1>2, <1>5, SpiIrqFacts
  <2>2. Reader(m)' \in {"none", "cs"}
    BY <1>1, <1>2, <2>1 DEF Reader, Reading, ReadStates
  <2>3. CASE m = initMotor
    BY <1>1, <1>2, <1>8, <2>1, <2>2, <2>3 DEF Phase, IInv, TypeOK, e
  <2>4. CASE m # initMotor
    <3>1. Reader(m) = "none" /\ enc'[m] = enc[m] /\ ~enc[m].fdt
      BY <1>1, <1>2, <2>1, <2>4, MainAlone DEF Reader, Reading, ReadStates, IInv, TypeOK
    <3>2. Resting(enc[m], "idle", "none") /\ enc[m].txcnt = 0
      BY <2>1, <3>1 DEF IInv, Phase, EncoderPhase, BootCompletion, Latched, InFlight, Stored, Done
    <3>3. Resting(enc[m], "idle", Reader(m)')
      BY <2>2, <3>2 DEF Resting
    <3> QED  BY <2>1, <3>1, <3>2, <3>3 DEF Phase, EncoderPhase
  <2> QED  BY <2>3, <2>4
<1> QED  BY <1>4, <1>6, <1>9, <1>10 DEF IInv

-----------------------------------------------------------------------------
LEMMA InitIInv == Init => IInv
<1> SUFFICES ASSUME Init PROVE IInv
  OBVIOUS
<1>1. PoweredUp \in EncoderState
  <2>1. /\ [i \in BufIndex |-> Stale] \in [BufIndex -> Tags] /\ NoByte \in Bytes
        /\ TxSize \in 0..TxSize /\ 0 \in 0..(RxSize - 1) /\ FrameBytes \in 0..FrameBytes
    BY DEF Tags, Bytes, FrameBytes, TxSize, RxSize, Stale
  <2> QED  BY <2>1, Zenon DEF PoweredUp, EncoderState
<1>2. PoweredUp.rx /\ PoweredUp.txcnt > 0
  BY DEF PoweredUp, TxSize
<1>3. TypeOK
  BY <1>1, FocAssumption DEF Init, TypeOK, PcStates, ReadStates, Motors, Handlers, MotorIrqs, LoopIrqs
<1>4. \A i \in Handlers : pc[i] = "idle" /\ i # "main"
  BY DEF Init, Ctx, Handlers, MotorIrqs
<1>5. pc["main"] = "spi1_int" /\ ie = {} /\ initMotor = 1 /\ reads = 0
  BY DEF Init, Ctx
<1>6. PcOK /\ IeOK /\ LoopsExclusive /\ BootOver
  BY <1>4, <1>5 DEF PcOK, IeOK, LoopsExclusive, BootOver, Active, LoopIrqs, FocIrqs, SpiIrqs,
                    Handlers, MotorIrqs, ReadStates
<1>7. ASSUME NEW m \in Motors PROVE Phase(m)
  <2>1. pc[SpiIrq(m)] = "idle" /\ pc[FocIrq(m)] = "idle" /\ SpiIrq(m) \notin ie
    BY <1>4, <1>5, SpiIrqFacts
  <2>2. Reader(m) = "none"
    BY <1>5, <2>1 DEF Reader, Reading, ReadStates
  <2>3. enc[m] = PoweredUp
    BY DEF Init
  <2> QED  BY <1>2, <2>1, <2>2, <2>3 DEF Phase, EncoderPhase, Booting
<1> QED  BY <1>3, <1>6, <1>7 DEF IInv

LEMMA NextIInv == IInv /\ [Next]_vars => IInv'
<1> SUFFICES ASSUME IInv, [Next]_vars PROVE IInv'
  OBVIOUS
<1>1. CASE MainStep
  BY <1>1, EnableInv, GetAngleInv, AngleInitInv DEF MainStep
<1>2. ASSUME NEW i \in FocIrqs, FocStep(i) PROVE IInv'
  BY <1>2, FocAckInv, GetAngleInv, FocAngleInv, ControlInv DEF FocStep
<1>3. ASSUME NEW i \in SpiIrqs, SpiStep(i) PROVE IInv'
  BY <1>3, SpiInv
<1>4. CASE SpeedStep \/ ErrorReturn
  BY <1>4, SpeedInv, ErrorInv
<1>5. ASSUME NEW i \in Handlers, Enter(i) PROVE IInv'
  BY <1>5, EnterInv
<1>6. ASSUME NEW m \in Motors, Spi(m) PROVE IInv'
  BY <1>6, HardwareInv
<1>7. CASE (\E i \in LoopIrqs : Raise(i)) \/ NewPeriod \/ CanError
  BY <1>7, TimerInv
<1>8. CASE UNCHANGED vars
  <2>1. UNCHANGED <<pc, flag, ie, enc, initMotor, reads, period>>
    BY <1>8 DEF vars
  <2>2. TypeOK' /\ PcOK' /\ IeOK' /\ LoopsExclusive' /\ BootOver'
    BY <2>1 DEF IInv, TypeOK, PcOK, IeOK, LoopsExclusive, Active, BootOver
  <2>3. ASSUME NEW m \in Motors PROVE Phase(m)'
    BY <2>1 DEF IInv, Phase, Reader, Reading
  <2> QED  BY <2>2, <2>3 DEF IInv
<1> QED  BY <1>1, <1>2, <1>3, <1>4, <1>5, <1>6, <1>7, <1>8 DEF Next

\* The invariant implies what we are after.
LEMMA IInvImplies ==
  IInv => TypeOK /\ AngleFresh /\ PortQuiet /\ OneReader /\ NoLostWakeup /\ LoopsExclusive
<1> SUFFICES ASSUME IInv
             PROVE  TypeOK /\ AngleFresh /\ PortQuiet /\ OneReader /\ NoLostWakeup
                    /\ LoopsExclusive
  OBVIOUS
<1>1. \A c \in Ctx : Reading(c) => c \in FocIrqs \cup {"main"}
  BY DEF IInv, PcOK, Reading, ReadStates, Ctx, Handlers, MotorIrqs, FocIrqs, SpiIrqs
<1>2. AngleFresh
  <2> SUFFICES ASSUME NEW c \in Ctx, pc[c] = "parse" PROVE enc[MotorOf(c)].rx_buf[0] = 1
    BY DEF AngleFresh
  <2> DEFINE k == MotorOf(c)
  <2>1. Reading(c) /\ c \in FocIrqs \cup {"main"}
    BY <1>1 DEF Reading, ReadStates
  <2>2. k \in Motors /\ Reader(k) = "parse" /\ SpiIrq(k) \in ie
    BY <2>1, ReaderIs
  <2>3. Done(enc[k], pc[SpiIrq(k)], "parse")
    BY <2>2 DEF IInv, Phase, EncoderPhase, BootCompletion, Resting, Latched, InFlight, Stored
  <2> QED  BY <2>3 DEF Done
<1>3. PortQuiet
  <2> SUFFICES ASSUME NEW m \in Motors, ~enc[m].rx PROVE PortIdle(enc[m]) /\ ~enc[m].fdt
    BY DEF PortQuiet
  <2> QED  BY DEF IInv, Phase, EncoderPhase, Booting, BootCompletion, Resting, Latched, InFlight,
                  Stored, Done
<1>4. OneReader
  <2> SUFFICES ASSUME NEW c \in Ctx, NEW d \in Ctx, Reading(c), Reading(d), MotorOf(c) = MotorOf(d)
               PROVE  c = d
    BY DEF OneReader
  <2>1. c \in FocIrqs \cup {"main"} /\ d \in FocIrqs \cup {"main"}
    BY <1>1
  <2>2. Reading("main") => c = "main" /\ d = "main"
    BY <2>1 DEF IInv, IeOK, Reading, ReadStates, FocIrqs, SpiIrqs, Handlers, MotorIrqs
  <2> QED  BY <2>1, <2>2 DEF MotorOf, FocIrqs
<1>5. NoLostWakeup
  <2> SUFFICES ASSUME NEW c \in Ctx, pc[c] = "wait"
               PROVE  /\ Priority(SpiIrq(MotorOf(c))) < Priority(c)
                      /\ \/ enc[MotorOf(c)].data_ready
                         \/ ReadUnderWay(MotorOf(c))
    BY DEF NoLostWakeup
  <2> DEFINE k == MotorOf(c)
  <2>1. Reading(c) /\ c \in FocIrqs \cup {"main"}
    BY <1>1 DEF Reading, ReadStates
  <2>2. k \in Motors /\ Reader(k) = "wait" /\ SpiIrq(k) \in ie
    BY <2>1, ReaderIs
  <2>3. Priority(SpiIrq(k)) < Priority(c)
    BY <2>1, <2>2 DEF Priority, SpiIrq, FocIrqs, Irqs
  <2>4. /\ enc[k].txcnt = 0
        /\ \/ InFlight(enc[k], pc[SpiIrq(k)], "wait") \/ Stored(enc[k], pc[SpiIrq(k)], "wait")
           \/ Done(enc[k], pc[SpiIrq(k)], "wait")
    BY <2>2 DEF IInv, Phase, EncoderPhase, BootCompletion, Resting, Latched
  <2>5. enc[k].data_ready \/ ReadUnderWay(k)
    BY <2>2, <2>4 DEF InFlight, Stored, Done, ReadUnderWay, PortIdle, NoByte
  <2> QED  BY <2>3, <2>5
<1> QED  BY <1>2, <1>3, <1>4, <1>5 DEF IInv

LEMMA IInvHolds == Spec => []IInv
BY InitIInv, NextIInv, PTL DEF Spec

\* The variables keep their types in every interleaving of main, the handlers and
\* the hardware.
THEOREM TypeCorrect == Spec => []TypeOK
BY IInvHolds, IInvImplies, PTL

\* Every angle is computed from the frame latched for that very read.
THEOREM AnglesAreFresh == Spec => []AngleFresh
BY IInvHolds, IInvImplies, PTL

\* No byte of one read is left over for the next.
THEOREM PortsAreQuiet == Spec => []PortQuiet
BY IInvHolds, IInvImplies, PTL

\* main and the current loops never read one encoder at the same time.
THEOREM ReadersAreExclusive == Spec => []OneReader
BY IInvHolds, IInvImplies, PTL

\* No completion is lost or comes too early for the context that waits for it.
THEOREM WakeupsAreKept == Spec => []NoLostWakeup
BY IInvHolds, IInvImplies, PTL

\* The current loops and the speed loop never overlap.
THEOREM LoopsAreExclusive == Spec => []LoopsExclusive
BY IInvHolds, IInvImplies, PTL

-----------------------------------------------------------------------------
\* The step WholeRead allows.
Whole(m) == /\ enc[m].cs /\ ~enc'[m].cs
            /\ \E c \in Ctx : Reading(c) /\ MotorOf(c) = m
            => enc[m].rx_buf[0] = 1

\* Only the completion handler raises CS.
LEMMA CsKept ==
  ASSUME NEW e \in EncoderState, e.cs
  PROVE  /\ SelectChip(e).cs /\ ClearReady(e).cs /\ EnableTx(e).cs /\ EnableRx(e).cs
         /\ Transmit(e).cs /\ EndRead(e).cs /\ ClearFdt(e).cs /\ TxDma(e).cs
         /\ Load(e).cs /\ Receive(e).cs /\ RxDma(e).cs
BY DEF EncoderState, SelectChip, ClearReady, EnableTx, EnableRx, Transmit, EndRead, ClearFdt,
       TxDma, Load, Receive, RxDma

\* A step that replaces one encoder by one with CS still low, or none at all.
LEMMA CsStep ==
  ASSUME TypeOK, NEW k \in Motors, NEW e, enc' = [enc EXCEPT ![k] = e],
         enc[k].cs => e.cs, NEW m \in Motors
  PROVE  Whole(m)
BY DEF TypeOK, Whole

LEMMA WholeStep == ASSUME IInv, [Next]_vars, NEW m \in Motors PROVE Whole(m)
<1>1. TypeOK /\ \A k \in Motors : enc[k] \in EncoderState
  BY DEF IInv, TypeOK
<1>2. \A c \in Ctx : MotorOf(c) \in Motors
  BY <1>1 DEF MotorOf, Motors, TypeOK
<1>3. ASSUME NEW c \in Ctx, GetAngle(c) PROVE Whole(m)
  <2>1. CASE SeeReady(c)
    BY <2>1 DEF SeeReady, Whole
  <2>2. PICK e : /\ enc' = [enc EXCEPT ![MotorOf(c)] = e] \/ enc' = enc
                 /\ enc[MotorOf(c)].cs => e.cs
    BY <1>1, <1>2, <1>3, CsKept
       DEF GetAngle, DriveCsLow, ClearFlag, StartTx, StartRx, SendDummy, SeeReady, SetEncoder
  <2> QED  BY <1>1, <1>2, <2>2, CsStep DEF Whole
<1>4. ASSUME NEW i \in SpiIrqs, SpiFinish(i) PROVE Whole(m)
  <2> DEFINE k == MotorOf(i)
  <2>1. k \in Motors /\ SpiIrq(k) = i /\ i \in MotorIrqs
    BY DEF MotorOf, Motors, SpiIrq, SpiIrqs, MotorIrqs
  <2>2. pc[i] = "finish" /\ enc' = [enc EXCEPT ![k] = FinishRead(enc[k])]
    BY <1>4 DEF SpiFinish, Goto, SetEncoder
  <2>3. i \in ie
    BY <2>1, <2>2 DEF IInv, IeOK
  <2>4. EncoderPhase(enc[k], "finish", Reader(k), TRUE)
    BY <2>1, <2>2, <2>3 DEF IInv, Phase
  <2>5. ASSUME NEW c \in Ctx, Reading(c), MotorOf(c) = k PROVE enc[k].rx_buf[0] = 1
    <3>1. c \in FocIrqs \cup {"main"}
      BY <2>5 DEF IInv, PcOK, Reading, ReadStates, Ctx, Handlers, MotorIrqs, FocIrqs, SpiIrqs
    <3>2. Reader(k) # "none"
      BY <2>5, <3>1, ReaderIs DEF Reading, ReadStates
    <3> QED  BY <2>4, <3>2 DEF EncoderPhase, BootCompletion, Resting, Latched, InFlight, Stored, Done
  <2>6. CASE m = k
    BY <2>5, <2>6 DEF Whole
  <2>7. CASE m # k
    BY <1>1, <2>1, <2>2, <2>7 DEF Whole, TypeOK
  <2> QED  BY <2>6, <2>7
<1>5. ASSUME enc' = enc PROVE Whole(m)
  BY <1>5 DEF Whole
<1>6. CASE MainStep
  <2>1. CASE EnableInterrupts
    BY <1>5, <2>1 DEF EnableInterrupts, EnableInt
  <2>2. CASE angle_init
    BY <1>1, <2>2, CsKept, CsStep DEF angle_init, SetEncoder, TypeOK
  <2> QED  BY <1>3, <1>6, <2>1, <2>2 DEF MainStep, Ctx
<1>7. ASSUME NEW i \in FocIrqs, FocStep(i) PROVE Whole(m)
  <2>1. i \in Ctx
    BY DEF FocIrqs, Ctx, Handlers, MotorIrqs
  <2>2. CASE FocAngle(i)
    BY <1>1, <1>2, <2>1, <2>2, CsKept, CsStep DEF FocAngle, SetEncoder
  <2>3. CASE FocAck(i) \/ FocControl(i)
    BY <1>5, <2>3 DEF FocAck, FocControl
  <2> QED  BY <1>3, <1>7, <2>1, <2>2, <2>3 DEF FocStep
<1>8. ASSUME NEW i \in SpiIrqs, SpiStep(i) PROVE Whole(m)
  <2>1. CASE SpiAck(i)
    <3>1. MotorOf(i) \in Motors
      BY DEF MotorOf, Motors, SpiIrqs
    <3> QED  BY <1>1, <2>1, <3>1, CsKept, CsStep DEF SpiAck, SetEncoder
  <2> QED  BY <1>4, <1>8, <2>1 DEF SpiStep
<1>9. ASSUME NEW k \in Motors, Spi(k) PROVE Whole(m)
  BY <1>1, <1>9, CsKept, CsStep DEF Spi, SetEncoder
<1>10. CASE \/ SpeedStep \/ ErrorReturn \/ (\E i \in Handlers : Enter(i))
            \/ (\E i \in LoopIrqs : Raise(i)) \/ NewPeriod \/ CanError \/ UNCHANGED vars
  BY <1>5, <1>10 DEF SpeedStep, SpeedLoop, SpeedAck, ErrorReturn, Enter, Raise, NewPeriod, CanError,
                     vars
<1> QED  BY <1>6, <1>7, <1>8, <1>9, <1>10 DEF Next

\* CS is never raised over a read whose own byte is not stored yet.
THEOREM ReadsAreWhole == Spec => WholeRead
<1>1. IInv /\ [Next]_vars => [\A m \in Motors : Whole(m)]_vars
  BY WholeStep
<1>2. [\A m \in Motors : Whole(m)]_vars =>
        [\A m \in Motors :
           /\ enc[m].cs /\ ~enc'[m].cs
           /\ \E c \in Ctx : Reading(c) /\ MotorOf(c) = m
           => enc[m].rx_buf[0] = 1]_vars
  BY DEF Whole
<1> QED  BY <1>1, <1>2, IInvHolds, PTL DEF Spec, WholeRead

-----------------------------------------------------------------------------
(***************************************************************************)
(* The contexts carry out one task at a time.                              *)
(***************************************************************************)

\* Which task is under way, and how far its angle is, told by the one context
\* that works on it.
OneTask ==
  /\ \A i \in LoopIrqs : pc[i] # "idle" =>
       /\ ~CalibrationReads /\ Left = 0
       /\ i = "TMR5" => Task = <<"speed", 0>> /\ Angle = "none"
       /\ i # "TMR5" => Task = <<"current", MotorOf(i)>> /\ Angle = AngleOf(i)
  /\ CalibrationReads => Task = <<"calibration", initMotor>> /\ Angle = AngleOf("main")
  /\ ~CalibrationReads /\ (\A i \in LoopIrqs : pc[i] = "idle") =>
       Task = <<"nothing", 0>> /\ Angle = "none"

LEMMA OneTaskHolds == IInv => OneTask
<1> SUFFICES ASSUME IInv PROVE OneTask
  OBVIOUS
<1>1. ASSUME NEW i \in LoopIrqs, pc[i] # "idle"
      PROVE  ~CalibrationReads /\ Left = 0 /\ \A j \in LoopIrqs : pc[j] # "idle" => j = i
  <2>1. i \in ie /\ i \notin SpiIrqs
    BY <1>1 DEF IInv, IeOK, LoopIrqs, FocIrqs, SpiIrqs, Handlers, MotorIrqs
  <2>2. pc["main"] \notin ReadStates \cup {"spi1_int", "spi2_int"}
    BY <2>1 DEF IInv, IeOK, SpiIrqs
  <2>3. \A j \in LoopIrqs : pc[j] # "idle" => j = i
    BY <1>1 DEF IInv, LoopsExclusive, Active, LoopIrqs, FocIrqs, Ctx, Handlers, MotorIrqs
  <2> QED  BY <2>2, <2>3 DEF CalibrationReads, Left
<1>2. ASSUME NEW i \in LoopIrqs, pc[i] # "idle"
      PROVE  /\ i = "TMR5" => Task = <<"speed", 0>> /\ Angle = "none"
             /\ i # "TMR5" => Task = <<"current", MotorOf(i)>> /\ Angle = AngleOf(i)
  <2>1. CASE i = "TMR5"
    BY <1>1, <1>2, <2>1 DEF Task, Angle
  <2>2. CASE i = "DMA1_CH2"
    BY <1>1, <1>2, <2>2 DEF Task, Angle, LoopIrqs, FocIrqs, FocIrq, MotorOf
  <2>3. CASE i = "DMA1_CH1"
    BY <1>1, <1>2, <2>3 DEF Task, Angle, LoopIrqs, FocIrqs, FocIrq, MotorOf
  <2> QED  BY <2>1, <2>2, <2>3 DEF LoopIrqs, FocIrqs
<1>3. CalibrationReads => Task = <<"calibration", initMotor>> /\ Angle = AngleOf("main")
  BY DEF Task, Angle
<1>4. ASSUME ~CalibrationReads, \A i \in LoopIrqs : pc[i] = "idle"
      PROVE  Task = <<"nothing", 0>> /\ Angle = "none"
  BY <1>4 DEF Task, Angle, AngleOf, ReadStates, FocIrq, LoopIrqs, FocIrqs
<1> QED  BY <1>1, <1>2, <1>3, <1>4 DEF OneTask

LEMMA OneTaskStays == IInv /\ [Next]_vars => OneTask'
BY NextIInv, OneTaskHolds, PTL

\* The tasks move on, or not at all.
TaskStep == [Tasks!Next]_(Tasks!taskVars)

\* A step that leaves main, the loops and the first byte of each buffer alone
\* does not show.
LEMMA SameTask ==
  ASSUME pc'["main"] = pc["main"], \A i \in LoopIrqs : pc'[i] = pc[i],
         \A m \in Motors : enc'[m].rx_buf[0] = enc[m].rx_buf[0],
         initMotor \in Motors, UNCHANGED <<initMotor, reads>>
  PROVE  TaskStep
<1>1. /\ pc'["TMR5"] = pc["TMR5"] /\ pc'[FocIrq(1)] = pc[FocIrq(1)]
      /\ pc'[FocIrq(2)] = pc[FocIrq(2)]
  BY DEF LoopIrqs, FocIrqs, FocIrq
<1>2. CalibrationReads' <=> CalibrationReads
  BY DEF CalibrationReads
<1>3. Task' = Task /\ Left' = Left
  BY <1>1, <1>2 DEF Task, Left
<1>4. ASSUME NEW c \in {"main", FocIrq(1), FocIrq(2)} PROVE AngleOf(c)' = AngleOf(c)
  <2>1. MotorOf(c) \in Motors /\ MotorOf(c)' = MotorOf(c) /\ pc'[c] = pc[c]
    BY <1>1 DEF MotorOf, Motors
  <2> QED  BY <2>1 DEF AngleOf
<1>5. Angle' = Angle
  BY <1>1, <1>2, <1>4 DEF Angle
<1> QED  BY <1>3, <1>5 DEF TaskStep, Tasks!taskVars

\* The only byte that is stored is the one a task waits for.
LEMMA HardwareTask == ASSUME IInv, NEW m \in Motors, Spi(m) PROVE TaskStep
<1>1. /\ enc \in [Motors -> EncoderState] /\ initMotor \in Motors
      /\ UNCHANGED <<pc, flag, ie, initMotor, reads, period>>
  BY DEF IInv, TypeOK, Spi
<1>2. CASE \/ CanTxDma(enc[m]) /\ SetEncoder(m, TxDma(enc[m]))
           \/ CanLoad(enc[m]) /\ SetEncoder(m, Load(enc[m]))
           \/ CanReceive(enc[m]) /\ SetEncoder(m, Receive(enc[m]))
  <2>1. \A e \in EncoderState : /\ TxDma(e).rx_buf = e.rx_buf /\ Load(e).rx_buf = e.rx_buf
                                /\ Receive(e).rx_buf = e.rx_buf
    BY DEF EncoderState, TxDma, Load, Receive
  <2>2. \A n \in Motors : enc'[n].rx_buf[0] = enc[n].rx_buf[0]
    BY <1>1, <1>2, <2>1 DEF SetEncoder
  <2> QED  BY <1>1, <2>2, SameTask
<1>3. CASE CanRxDma(enc[m]) /\ SetEncoder(m, RxDma(enc[m])) /\ SpiIrq(m) \notin ie
  <2>1. pc["main"] \in {"spi1_int", "spi2_int"} /\ \A i \in LoopIrqs : pc[i] = "idle"
    BY <1>3, SpiIrqFacts
       DEF IInv, IeOK, PcOK, LoopIrqs, FocIrqs, SpiIrqs, Handlers, MotorIrqs
  <2>2. ~CalibrationReads /\ ~CalibrationReads'
    BY <1>1, <2>1 DEF CalibrationReads, ReadStates
  <2>3. OneTask /\ OneTask'
    BY <1>3, OneTaskHolds, OneTaskStays DEF Next, Spi
  <2>4. Task' = Task /\ Angle' = Angle
    BY <1>1, <2>1, <2>2, <2>3 DEF OneTask
  <2>5. Left' = Left
    BY <1>1 DEF Left
  <2> QED  BY <2>4, <2>5 DEF TaskStep, Tasks!taskVars
<1>4. CASE CanRxDma(enc[m]) /\ SetEncoder(m, RxDma(enc[m])) /\ SpiIrq(m) \in ie
  <2>1. InFlight(enc[m], pc[SpiIrq(m)], Reader(m)) /\ enc[m].dt = 1
    BY <1>4 DEF IInv, Phase, EncoderPhase, BootCompletion, Resting, Latched, InFlight, Stored,
                Done, PortIdle, CanRxDma
  <2>2. enc'[m].rx_buf[0] = 1
    <3>1. enc[m].rxpos = 0 /\ 0 \in DOMAIN enc[m].rx_buf
      BY <1>1 DEF EncoderState, RxSize, BufIndex, BufSize
    <3>2. RxDma(enc[m]).rx_buf[0] = 1
      BY <1>1, <2>1, <3>1 DEF RxDma, EncoderState
    <3> QED  BY <1>1, <1>4, <3>2 DEF SetEncoder
  <2>3. PICK c \in {"main", FocIrq(m)} : pc[c] = "wait" /\ MotorOf(c) = m
    BY <2>1 DEF InFlight, Reader, Reading, ReadStates, MotorOf, FocIrq, Motors
  <2>4. AngleOf(c) = "latched" /\ AngleOf(c)' = "stored"
    <3>1. MotorOf(c)' = m /\ pc'[c] = "wait" /\ enc[m].rx_buf[0] # 1
      BY <1>1, <2>1, <2>3 DEF MotorOf, InFlight
    <3> QED  BY <2>2, <2>3, <3>1 DEF AngleOf, ReadStates
  <2>5. OneTask /\ OneTask'
    BY <1>4, OneTaskHolds, OneTaskStays DEF Next, Spi
  <2>6. Task' = Task /\ Angle = AngleOf(c) /\ Angle' = AngleOf(c)'
    <3>1. CASE c = "main"
      BY <1>1, <2>3, <2>5, <3>1 DEF OneTask, CalibrationReads, ReadStates
    <3>2. CASE c = FocIrq(m)
      <4>1. c \in LoopIrqs /\ c # "TMR5" /\ pc[c] # "idle" /\ pc'[c] # "idle"
            /\ MotorOf(c)' = MotorOf(c)
        BY <1>1, <2>3, <3>2 DEF FocIrq, LoopIrqs, FocIrqs, MotorOf
      <4> QED  BY <2>5, <4>1 DEF OneTask
    <3> QED  BY <2>3, <3>1, <3>2
  <2>7. Left' = Left
    BY <1>1 DEF Left
  <2> QED  BY <2>4, <2>6, <2>7 DEF TaskStep, Tasks!Next, Tasks!Store
<1> QED  BY <1>2, <1>3, <1>4 DEF Spi

\* A context lowers CS for the task it begins, or goes on with its read.
LEMMA GetAngleTask ==
  ASSUME IInv, NEW c \in FocIrqs \cup {"main"}, GetAngle(c), [Next]_vars PROVE TaskStep
<1> DEFINE k == MotorOf(c)
<1>1. k \in Motors /\ enc \in [Motors -> EncoderState] /\ MotorOf(c)' = k
      /\ UNCHANGED <<flag, ie, initMotor, reads, period>>
  BY DEF MotorOf, Motors, IInv, TypeOK, GetAngle
<1>2. c \in Ctx /\ pc \in [Ctx -> PcStates]
  BY DEF FocIrqs, Ctx, Handlers, MotorIrqs, IInv, TypeOK
<1>3. OneTask /\ OneTask'
  BY OneTaskHolds, OneTaskStays
<1>4. CASE DriveCsLow(c)
  <2>1. /\ pc[c] = "cs" /\ pc' = [pc EXCEPT ![c] = "clear"] /\ Executes(c, Requests, Active)
        /\ enc' = [enc EXCEPT ![k] = SelectChip(enc[k])]
    BY <1>4 DEF DriveCsLow, Goto, SetEncoder
  <2>2. ~enc[k].cs
    <3>1. Reader(k) = "cs" /\ SpiIrq(k) \in ie
      BY <2>1, ReaderIs DEF Reading, ReadStates
    <3> QED  BY <1>1, <3>1 DEF IInv, Phase, EncoderPhase, BootCompletion, Resting, Latched,
                              InFlight, Stored, Done
  <2>3. enc'[k].rx_buf[0] # 1
    BY <1>1, <2>1, <2>2 DEF SelectChip, EncoderState, BufIndex, BufSize, Stale
  <2>4. AngleOf(c) = "none" /\ AngleOf(c)' = "latched"
    BY <1>1, <1>2, <2>1, <2>3 DEF AngleOf, ReadStates
  <2>5. CASE c = "main"
    <3>1. \A i \in LoopIrqs : pc[i] = "idle"
      BY <2>1, <2>5, MainAlone DEF LoopIrqs, FocIrqs, Handlers, MotorIrqs
    <3>2. ~CalibrationReads /\ CalibrationReads'
      BY <1>2, <2>1, <2>5 DEF CalibrationReads, ReadStates
    <3>3. /\ Task = <<"nothing", 0>> /\ Angle = "none"
          /\ Task' = <<"calibration", initMotor>> /\ Angle' = "latched"
      BY <1>1, <1>3, <2>4, <2>5, <3>1, <3>2 DEF OneTask
    <3>4. Left' = Left /\ Left > 0 /\ initMotor = (IF Left > InitReads THEN 1 ELSE 2)
      <4>1. /\ Left = (IF initMotor = 1 THEN 2 ELSE 1) * InitReads - reads
            /\ Left' = (IF initMotor = 1 THEN 2 ELSE 1) * InitReads - reads
        BY <1>1, <1>2, <2>1, <2>5 DEF Left, ReadStates
      <4> QED  BY <4>1, FocAssumption DEF IInv, TypeOK, Motors
    <3> QED  BY <3>3, <3>4 DEF TaskStep, Tasks!Next, Tasks!LatchCalibration, Tasks!Nothing,
                              Tasks!Calibration
  <2>6. CASE c \in FocIrqs
    <3>1. c \in LoopIrqs /\ c # "TMR5" /\ pc[c] # "idle" /\ pc'[c] # "idle"
      BY <1>2, <2>1, <2>6 DEF LoopIrqs, FocIrqs
    <3>2. /\ Task = <<"current", k>> /\ Task' = Task /\ Left' = Left
          /\ Angle = "none" /\ Angle' = "latched"
      BY <1>1, <1>3, <2>4, <3>1 DEF OneTask
    <3>3. Task \in Tasks!Current
      BY <1>1, <3>2 DEF Tasks!Current, Tasks!Motors, Motors
    <3> QED  BY <3>2, <3>3 DEF TaskStep, Tasks!Next, Tasks!LatchCurrent
  <2> QED  BY <2>5, <2>6
<1>5. CASE \/ ClearFlag(c) \/ StartTx(c) \/ StartRx(c) \/ SendDummy(c) \/ SeeReady(c)
  <2>1. PICK from \in ReadStates \ {"cs"}, to \in ReadStates \ {"cs"} :
          pc[c] = from /\ pc' = [pc EXCEPT ![c] = to]
    BY <1>5 DEF ClearFlag, StartTx, StartRx, SendDummy, SeeReady, Goto, ReadStates
  <2>2. enc'[k].rx_buf[0] = enc[k].rx_buf[0]
    <3>1. \A e \in EncoderState :
            /\ ClearReady(e).rx_buf = e.rx_buf /\ EnableTx(e).rx_buf = e.rx_buf
            /\ EnableRx(e).rx_buf = e.rx_buf /\ Transmit(e).rx_buf = e.rx_buf
      BY DEF EncoderState, ClearReady, EnableTx, EnableRx, Transmit
    <3> QED  BY <1>1, <1>5, <3>1
             DEF ClearFlag, StartTx, StartRx, SendDummy, SeeReady, SetEncoder
  <2>3. AngleOf(c)' = AngleOf(c)
    BY <1>1, <1>2, <2>1, <2>2 DEF AngleOf, ReadStates
  <2>4. CASE c = "main"
    <3>1. CalibrationReads /\ CalibrationReads' /\ Left' = Left
      BY <1>1, <1>2, <2>1, <2>4 DEF CalibrationReads, Left
    <3>2. Task' = Task /\ Angle' = Angle
      BY <1>1, <1>3, <2>3, <2>4, <3>1 DEF OneTask
    <3> QED  BY <3>1, <3>2 DEF TaskStep, Tasks!taskVars
  <2>5. CASE c \in FocIrqs
    <3>1. c \in LoopIrqs /\ c # "TMR5" /\ pc[c] # "idle" /\ pc'[c] # "idle"
      BY <1>2, <2>1, <2>5 DEF LoopIrqs, FocIrqs, ReadStates
    <3>2. Task' = Task /\ Angle' = Angle /\ Left' = Left
      BY <1>1, <1>3, <2>3, <3>1 DEF OneTask
    <3> QED  BY <3>2 DEF TaskStep, Tasks!taskVars
  <2> QED  BY <2>4, <2>5
<1> QED  BY <1>4, <1>5 DEF GetAngle

\* Enabling interrupts does not show.
LEMMA EnableTask == ASSUME IInv, EnableInterrupts, [Next]_vars PROVE TaskStep
<1>1. PICK i \in MotorIrqs, from \in PcStates, to \in PcStates :
        /\ EnableInt(i, from, to)
        /\ \/ from = "spi1_int" /\ to = "spi2_int"
           \/ from = "spi2_int" /\ to = "cs"
           \/ from \in {"tmr5_int", "adc1_int", "adc3_int"}
              /\ to \in {"adc1_int", "adc3_int", "loop"}
  BY Zenon DEF EnableInterrupts, MotorIrqs, PcStates, ReadStates
<1>2. /\ Executes("main", Requests, Active) /\ pc["main"] = from
      /\ pc' = [pc EXCEPT !["main"] = to] /\ "main" \in Ctx /\ pc \in [Ctx -> PcStates]
      /\ UNCHANGED <<initMotor, reads>>
  BY <1>1 DEF EnableInt, Goto, Ctx, IInv, TypeOK
<1>3. \A j \in LoopIrqs : pc[j] = "idle" /\ pc'[j] = "idle"
  BY <1>2, MainAlone DEF LoopIrqs, FocIrqs, Handlers, MotorIrqs
<1>4. ~CalibrationReads /\ ~CalibrationReads'
  BY <1>1, <1>2 DEF CalibrationReads, ReadStates
<1>5. OneTask /\ OneTask'
  BY OneTaskHolds, OneTaskStays
<1>6. Task' = Task /\ Angle' = Angle
  BY <1>3, <1>4, <1>5 DEF OneTask
<1>7. Left' = Left
  BY <1>1, <1>2 DEF Left, ReadStates
<1> QED  BY <1>6, <1>7 DEF TaskStep, Tasks!taskVars

\* Each read of the calibration is taken from those that are left.
LEMMA CalibrationTask == ASSUME IInv, angle_init, [Next]_vars PROVE TaskStep
<1> DEFINE again == reads + 1 < InitReads
           to == IF again \/ initMotor = 1 THEN "cs" ELSE "tmr5_int"
<1>1. /\ Executes("main", Requests, Active) /\ pc["main"] = "parse"
      /\ pc' = [pc EXCEPT !["main"] = to] /\ "main" \in Ctx /\ pc \in [Ctx -> PcStates]
      /\ reads' = (IF again THEN reads + 1 ELSE 0)
      /\ initMotor' = (IF again THEN initMotor ELSE 2)
  BY DEF angle_init, Goto, Ctx, IInv, TypeOK
<1>2. pc'["main"] = to
  BY <1>1
<1>3. \A i \in LoopIrqs : pc[i] = "idle" /\ pc'[i] = "idle"
  BY <1>1, MainAlone DEF LoopIrqs, FocIrqs, Handlers, MotorIrqs
<1>4. CalibrationReads /\ ~CalibrationReads'
  BY <1>1, <1>2 DEF CalibrationReads, ReadStates
<1>5. OneTask /\ OneTask'
  BY OneTaskHolds, OneTaskStays
<1>6. AngleOf("main") = "stored"
  <2>1. enc[MotorOf("main")].rx_buf[0] = 1
    BY <1>1, IInvImplies DEF AngleFresh
  <2> QED  BY <1>1, <2>1 DEF AngleOf, ReadStates
<1>7. /\ Task = <<"calibration", initMotor>> /\ Angle = "stored"
      /\ Task' = <<"nothing", 0>> /\ Angle' = "none"
  BY <1>3, <1>4, <1>5, <1>6 DEF OneTask
<1>8. Left' = Left - 1
  <2>1. Left = (IF initMotor = 1 THEN 2 ELSE 1) * InitReads - reads
    BY <1>1 DEF Left, ReadStates
  <2>2. CASE again
    <3>1. Left' = (IF initMotor = 1 THEN 2 ELSE 1) * InitReads - (reads + 1)
      BY <1>1, <1>2, <2>2 DEF Left, ReadStates
    <3> QED  BY <2>1, <3>1, FocAssumption DEF IInv, TypeOK, Motors
  <2>3. CASE ~again
    <3>1. reads = InitReads - 1
      BY <2>3, FocAssumption DEF IInv, TypeOK
    <3>2. Left' = IF initMotor = 1 THEN InitReads ELSE 0
      BY <1>1, <1>2, <2>3, FocAssumption DEF Left, ReadStates
    <3> QED  BY <2>1, <3>1, <3>2, FocAssumption DEF IInv, TypeOK, Motors
  <2> QED  BY <2>2, <2>3
<1> QED  BY <1>7, <1>8 DEF TaskStep, Tasks!Next, Tasks!TakeCalibration, Tasks!Calibration,
                         Tasks!Nothing

\* A current loop takes its angle and ends after its computation.
LEMMA FocTask ==
  ASSUME IInv, NEW i \in FocIrqs, FocAck(i) \/ FocAngle(i) \/ FocControl(i), [Next]_vars
  PROVE  TaskStep
<1>1. /\ i \in LoopIrqs /\ i # "TMR5" /\ i \in Ctx /\ i # "main" /\ MotorOf(i) \in Motors
      /\ MotorOf(i)' = MotorOf(i) /\ pc \in [Ctx -> PcStates]
  BY DEF FocIrqs, LoopIrqs, Ctx, Handlers, MotorIrqs, MotorOf, Motors, IInv, TypeOK
<1>2. OneTask /\ OneTask'
  BY OneTaskHolds, OneTaskStays
<1>3. <<"current", MotorOf(i)>> \in Tasks!Current
  BY <1>1 DEF Tasks!Current, Tasks!Motors, Motors
<1>4. CASE FocAck(i)
  <2>1. pc[i] = "flag" /\ pc'[i] = "cs"
    BY <1>1, <1>4 DEF FocAck, Goto
  <2>2. AngleOf(i) = "none" /\ AngleOf(i)' = "none"
    BY <2>1 DEF AngleOf, ReadStates
  <2>3. Task' = Task /\ Angle' = Angle /\ Left' = Left
    BY <1>1, <1>2, <2>1, <2>2 DEF OneTask
  <2> QED  BY <2>3 DEF TaskStep, Tasks!taskVars
<1>5. CASE FocAngle(i)
  <2>1. pc[i] = "parse" /\ pc'[i] = "control"
    BY <1>1, <1>5 DEF FocAngle, Goto
  <2>2. enc[MotorOf(i)].rx_buf[0] = 1
    BY <1>1, <2>1, IInvImplies DEF AngleFresh
  <2>3. AngleOf(i) = "stored" /\ AngleOf(i)' = "taken"
    BY <2>1, <2>2 DEF AngleOf, ReadStates
  <2>4. /\ Task = <<"current", MotorOf(i)>> /\ Task' = Task /\ Left' = Left
        /\ Angle = "stored" /\ Angle' = "taken"
    BY <1>1, <1>2, <2>1, <2>3 DEF OneTask
  <2> QED  BY <1>3, <2>4 DEF TaskStep, Tasks!Next, Tasks!TakeCurrent
<1>6. CASE FocControl(i)
  <2>1. pc[i] = "control" /\ pc' = [pc EXCEPT ![i] = "idle"]
    BY <1>6 DEF FocControl, Goto
  <2>2. \A j \in LoopIrqs : pc'[j] = "idle"
    BY <1>1, <2>1 DEF IInv, LoopsExclusive, Active, LoopIrqs, FocIrqs, Ctx, Handlers, MotorIrqs
  <2>3. ~CalibrationReads' /\ Angle = "taken"
    BY <1>1, <1>2, <2>1 DEF OneTask, CalibrationReads, AngleOf, Ctx
  <2>4. Task' = <<"nothing", 0>> /\ Angle' = "none"
    BY <1>2, <2>2, <2>3 DEF OneTask
  <2>5. Left' = Left
    BY <1>1, <1>6, <2>1 DEF FocControl, Left, Ctx
  <2> QED  BY <2>3, <2>4, <2>5 DEF TaskStep, Tasks!Next, Tasks!End, Tasks!Nothing
<1> QED  BY <1>4, <1>5, <1>6

\* The speed loop ends when it has cleared its flag.
LEMMA SpeedTask == ASSUME IInv, SpeedStep, [Next]_vars PROVE TaskStep
<1>1. "TMR5" \in LoopIrqs /\ "TMR5" \in Ctx /\ pc \in [Ctx -> PcStates]
  BY DEF LoopIrqs, Ctx, Handlers, MotorIrqs, IInv, TypeOK
<1>2. OneTask /\ OneTask'
  BY OneTaskHolds, OneTaskStays
<1>3. CASE SpeedLoop
  <2>1. pc["TMR5"] # "idle" /\ pc'["TMR5"] # "idle"
    BY <1>1, <1>3 DEF SpeedLoop, Goto
  <2>2. Task' = Task /\ Angle' = Angle /\ Left' = Left
    BY <1>1, <1>2, <2>1 DEF OneTask
  <2> QED  BY <2>2 DEF TaskStep, Tasks!taskVars
<1>4. CASE SpeedAck
  <2>1. pc["TMR5"] # "idle" /\ pc' = [pc EXCEPT !["TMR5"] = "idle"]
    BY <1>4 DEF SpeedAck, Goto
  <2>2. \A j \in LoopIrqs : pc'[j] = "idle"
    BY <1>1, <2>1 DEF IInv, LoopsExclusive, Active, LoopIrqs, FocIrqs, Ctx, Handlers, MotorIrqs
  <2>3. /\ ~CalibrationReads' /\ Task = <<"speed", 0>> /\ Angle = "none"
    BY <1>1, <1>2, <2>1 DEF OneTask, CalibrationReads, Ctx
  <2>4. Task' = <<"nothing", 0>> /\ Angle' = "none"
    BY <1>2, <2>2, <2>3 DEF OneTask
  <2>5. Left' = Left
    BY <1>1, <1>4, <2>1 DEF SpeedAck, Left, Ctx
  <2> QED  BY <2>3, <2>4, <2>5 DEF TaskStep, Tasks!Next, Tasks!End, Tasks!Nothing, Tasks!Speed
<1> QED  BY <1>3, <1>4 DEF SpeedStep

\* A loop begins when no task is under way.
LEMMA EnterTask == ASSUME IInv, NEW i \in Handlers, Enter(i), [Next]_vars PROVE TaskStep
<1>1. /\ i \in Ctx /\ i # "main" /\ pc \in [Ctx -> PcStates] /\ initMotor \in Motors
      /\ pc' = [pc EXCEPT ![i] = First(i)] /\ pc[i] = "idle"
      /\ UNCHANGED <<ie, enc, initMotor, reads>>
  BY DEF Enter, Preempts, Requests, Handlers, MotorIrqs, Ctx, IInv, TypeOK
<1>2. CASE i \notin LoopIrqs
  <2>1. pc'["main"] = pc["main"] /\ \A j \in LoopIrqs : pc'[j] = pc[j]
    BY <1>1, <1>2 DEF Ctx, LoopIrqs, FocIrqs, Handlers, MotorIrqs
  <2> QED  BY <1>1, <2>1, SameTask
<1>3. CASE i \in LoopIrqs
  <2>1. pc'[i] # "idle"
    BY <1>1 DEF First
  <2>2. \A j \in LoopIrqs : pc[j] = "idle"
    <3>1. IInv'
      BY NextIInv
    <3>2. \A j \in LoopIrqs : pc'[j] # "idle" => j = i
      BY <1>3, <2>1, <3>1
         DEF IInv, LoopsExclusive, Active, LoopIrqs, FocIrqs, Ctx, Handlers, MotorIrqs
    <3> QED  BY <1>1, <3>2
  <2>3. OneTask /\ OneTask'
    BY OneTaskHolds, OneTaskStays
  <2>4. ~CalibrationReads' /\ Left' = 0
    BY <1>3, <2>1, <2>3 DEF OneTask
  <2>5. ~CalibrationReads /\ Left = 0
    BY <1>1, <2>4 DEF CalibrationReads, Left, Ctx
  <2>6. Task = <<"nothing", 0>> /\ Angle = "none"
    BY <2>2, <2>3, <2>5 DEF OneTask
  <2>7. Task' \in Tasks!Current \cup {Tasks!Speed} /\ Angle' = "none"
    <3>1. CASE i = "TMR5"
      BY <1>3, <2>1, <2>3, <3>1 DEF OneTask, Tasks!Speed
    <3>2. CASE i # "TMR5"
      <4>1. MotorOf(i)' \in Motors /\ AngleOf(i)' = "none"
        BY <1>1, <1>3, <3>2
           DEF MotorOf, Motors, AngleOf, First, ReadStates, LoopIrqs, FocIrqs
      <4>2. Task' = <<"current", MotorOf(i)'>> /\ Angle' = AngleOf(i)'
        BY <1>3, <2>1, <2>3, <3>2 DEF OneTask
      <4> QED  BY <4>1, <4>2 DEF Tasks!Current, Tasks!Motors, Motors
    <3> QED  BY <3>1, <3>2
  <2> QED  BY <2>4, <2>5, <2>6, <2>7 DEF TaskStep, Tasks!Next, Tasks!Begin, Tasks!Nothing
<1> QED  BY <1>2, <1>3

\* Nothing else shows.
LEMMA OtherTask ==
  ASSUME IInv,
         \/ \E i \in SpiIrqs : SpiStep(i)
         \/ ErrorReturn \/ (\E i \in LoopIrqs : Raise(i)) \/ NewPeriod \/ CanError
         \/ UNCHANGED vars
  PROVE  TaskStep
<1>1. /\ pc \in [Ctx -> PcStates] /\ enc \in [Motors -> EncoderState] /\ initMotor \in Motors
  BY DEF IInv, TypeOK
<1>2. UNCHANGED <<initMotor, reads>>
  BY DEF SpiStep, SpiAck, SpiFinish, ErrorReturn, Raise, NewPeriod, CanError, vars
<1>3. pc'["main"] = pc["main"] /\ \A j \in LoopIrqs : pc'[j] = pc[j]
  BY <1>1 DEF SpiStep, SpiAck, SpiFinish, ErrorReturn, Raise, NewPeriod, CanError, vars, Goto,
              Ctx, LoopIrqs, FocIrqs, SpiIrqs, Handlers, MotorIrqs
<1>4. \A m \in Motors : enc'[m].rx_buf[0] = enc[m].rx_buf[0]
  <2>1. ASSUME NEW i \in SpiIrqs, SpiStep(i), NEW m \in Motors
        PROVE  enc'[m].rx_buf[0] = enc[m].rx_buf[0]
    <3>1. PICK e : enc' = [enc EXCEPT ![MotorOf(i)] = e] /\ e.rx_buf = enc[MotorOf(i)].rx_buf
      <4>1. \A e \in EncoderState : ClearFdt(e).rx_buf = e.rx_buf /\ FinishRead(e).rx_buf = e.rx_buf
        BY DEF EncoderState, ClearFdt, FinishRead
      <4>2. MotorOf(i) \in Motors
        BY DEF MotorOf, Motors, SpiIrqs
      <4> QED  BY <1>1, <2>1, <4>1, <4>2 DEF SpiStep, SpiAck, SpiFinish, SetEncoder
    <3> QED  BY <1>1, <3>1
  <2> QED  BY <2>1 DEF ErrorReturn, Raise, NewPeriod, CanError, vars
<1> QED  BY <1>1, <1>2, <1>3, <1>4, SameTask

\* Under every interleaving the motors see one task at a time: the calibration
\* reads in their order, then the loops, each with an angle of its own.
THEOREM ImplementsTasks == Spec => TaskRefinement
<1>1. Init => Tasks!Init
  <2> SUFFICES ASSUME Init PROVE Tasks!Init
    OBVIOUS
  <2>1. pc["main"] = "spi1_int" /\ (\A i \in LoopIrqs : pc[i] = "idle") /\ ~CalibrationReads
    BY DEF Init, Ctx, Handlers, MotorIrqs, LoopIrqs, FocIrqs, CalibrationReads, ReadStates
  <2>2. Task = <<"nothing", 0>> /\ Angle = "none"
    BY <2>1, InitIInv, OneTaskHolds DEF OneTask
  <2>3. Left = 2 * InitReads
    BY <2>1, FocAssumption DEF Init, Left
  <2> QED  BY <2>2, <2>3 DEF Tasks!Init, Tasks!Nothing
<1>2. IInv /\ [Next]_vars => [Tasks!Next]_(Tasks!taskVars)
  <2> SUFFICES ASSUME IInv, [Next]_vars PROVE TaskStep
    BY DEF TaskStep
  <2>1. CASE MainStep
    BY <2>1, EnableTask, GetAngleTask, CalibrationTask DEF MainStep
  <2>2. ASSUME NEW i \in FocIrqs, FocStep(i) PROVE TaskStep
    BY <2>2, GetAngleTask, FocTask DEF FocStep
  <2>3. CASE SpeedStep
    BY <2>3, SpeedTask
  <2>4. ASSUME NEW i \in Handlers, Enter(i) PROVE TaskStep
    BY <2>4, EnterTask
  <2>5. ASSUME NEW m \in Motors, Spi(m) PROVE TaskStep
    BY <2>5, HardwareTask
  <2> QED  BY <2>1, <2>2, <2>3, <2>4, <2>5, OtherTask DEF Next
<1> QED  BY <1>1, <1>2, IInvHolds, PTL DEF Spec, TaskRefinement, Tasks!Spec
=============================================================================
