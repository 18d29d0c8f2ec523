------------------------------- MODULE Encoder -------------------------------
(***************************************************************************)
(* One MT6701 angle encoder: the driver structure MT6701_t (bsp/mt6701.h), *)
(* the SPI port it hangs on and the two DMA channels that serve the port.  *)
(* Motor 1 uses SPI1 with DMA1 channels 3 (RX) and 4 (TX), motor 2 SPI2    *)
(* with channels 5 and 6; both are configured alike.  The module defines   *)
(* the state of one encoder as a record and every operation on it;         *)
(* FocInterrupts says which context performs which operation when.         *)
(*                                                                         *)
(* A byte is abstracted to its place in the frame the encoder latched at   *)
(* the last falling edge of CS: 1, 2, 3, or Stale for a byte of an earlier *)
(* frame, a byte clocked without a frame, or the initial zero.             *)
(***************************************************************************)
EXTENDS Integers

Stale  == 0
NoByte == -1

FrameBytes == 3              \* an MT6701 frame has 24 bits

\* MT6701_BUF_SIZE, and the index set of rx_buf.
BufSize == 3
BufIndex == 0..(BufSize - 1)

\* DMA1_CHANNEL3_BUFFER_SIZE and DMA1_CHANNEL5_BUFFER_SIZE.
RxSize == 1

\* DMA1_CHANNEL4_BUFFER_SIZE and DMA1_CHANNEL6_BUFFER_SIZE.
TxSize == 3

\* loop_mode_enable of the transmit channels.
TxLoopMode == FALSE

Tags  == 0..FrameBytes
Bytes == Tags \cup {NoByte}

\* The state of an encoder.
EncoderState ==
  [cs         : BOOLEAN,             \* chip selected (the CS pin is low)
   data_ready : BOOLEAN,
   rx_buf     : [BufIndex -> Tags],
   tx         : BOOLEAN,             \* the TX channel is enabled
   rx         : BOOLEAN,             \* the RX channel is enabled
   txcnt      : 0..TxSize,           \* bytes the TX channel still has to send
   rxpos      : 0..(RxSize - 1),     \* where the RX channel stores next
   fdt        : BOOLEAN,             \* full-data-transfer flag of the RX channel
   txdt       : BOOLEAN,             \* SPI transmit buffer full (TDBE reset)
   shift      : Bytes,               \* the byte being clocked
   dt         : Bytes,               \* SPI receive buffer
   clk        : 0..FrameBytes]       \* bytes clocked out of the latched frame

\* After the peripheral initialisation in main(): both channels were enabled
\* before the SPI port, wk_gpio_config has left CS low, nothing was latched.
PoweredUp == [cs |-> TRUE, data_ready |-> FALSE,
              rx_buf |-> [i \in BufIndex |-> Stale],
              tx |-> TRUE, rx |-> TRUE, txcnt |-> TxSize, rxpos |-> 0,
              fdt |-> FALSE, txdt |-> FALSE, shift |-> NoByte, dt |-> NoByte,
              clk |-> FrameBytes]

-----------------------------------------------------------------------------
\* bsp/mt6701.c

Aged(byte) == IF byte = NoByte THEN NoByte ELSE Stale

\* Pull CS low.  Only a falling edge latches a new frame; every byte still
\* around belongs to an earlier one from then on.
SelectChip(e) ==
  IF e.cs THEN e
  ELSE [e EXCEPT !.cs = TRUE, !.clk = 0, !.shift = Aged(@), !.dt = Aged(@),
                 !.rx_buf = [i \in BufIndex |-> Stale]]

MKeepReady(e) == e

ClearReady(e) == [e EXCEPT !.data_ready = FALSE]

MRearmTx(e) == [e EXCEPT !.tx = TRUE, !.txcnt = TxSize]

EnableTx(e) == [e EXCEPT !.tx = TRUE]
EnableRx(e) == [e EXCEPT !.rx = TRUE]

\* The dummy byte written by the CPU once TDBE is set.
CanTransmit(e) == ~e.txdt
Transmit(e) == [e EXCEPT !.txdt = TRUE]

\* The byte MT6701_GetAngle takes as bits 23..16 of the frame, and the end of
\* the read.
EndRead(e) == [e EXCEPT !.data_ready = FALSE]

-----------------------------------------------------------------------------
\* DMA1_Channel3_IRQHandler and DMA1_Channel5_IRQHandler

ClearFdt(e) == [e EXCEPT !.fdt = FALSE]

\* Both channels off, CS high, data_ready = 1.
FinishRead(e) ==
  [e EXCEPT !.tx = FALSE, !.rx = FALSE, !.cs = FALSE, !.data_ready = TRUE]

-----------------------------------------------------------------------------
\* The SPI port and its DMA channels.

\* The TX channel fills the transmit buffer.  Without loop mode its count stays
\* at 0 once it has sent everything, whether or not it is enabled again.
CanTxDma(e) == e.tx /\ e.txcnt > 0 /\ ~e.txdt
TxDma(e) == [e EXCEPT !.txdt = TRUE,
                      !.txcnt = IF TxLoopMode /\ @ = 1 THEN TxSize ELSE @ - 1]

\* The transmit buffer moves to the shift register and clocks one byte out of
\* the encoder: the next byte of the latched frame while the chip is selected.
CanLoad(e) == e.txdt /\ e.shift = NoByte
Load(e) ==
  LET inFrame == e.cs /\ e.clk < FrameBytes
  IN  [e EXCEPT !.txdt = FALSE,
                !.shift = IF inFrame THEN e.clk + 1 ELSE Stale,
                !.clk = IF inFrame THEN @ + 1 ELSE @]

\* The byte is complete.  When the previous one was not fetched the new one is
\* lost (overrun).
CanReceive(e) == e.shift # NoByte
Receive(e) == [e EXCEPT !.shift = NoByte,
                        !.dt = IF @ = NoByte THEN e.shift ELSE @]

\* The RX channel stores a byte; in loop mode it starts over after RxSize bytes
\* and raises its flag.
CanRxDma(e) == e.rx /\ e.dt # NoByte
MNoWrap(e) == [e EXCEPT !.dt = NoByte, !.rxpos = @ + 1, !.fdt = TRUE]

RxDma(e) == [e EXCEPT !.dt = NoByte,
                      !.rx_buf = [@ EXCEPT ![e.rxpos] = e.dt],
                      !.rxpos = (@ + 1) % RxSize,
                      !.fdt = @ \/ e.rxpos + 1 = RxSize]

\* Nothing is moving on the port and nothing is left to fetch.
PortIdle(e) == ~e.txdt /\ e.shift = NoByte /\ e.dt = NoByte
=============================================================================
