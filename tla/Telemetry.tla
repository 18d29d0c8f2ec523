------------------------------ MODULE Telemetry ------------------------------
(***************************************************************************)
(* USART1 towards the host: the telemetry frames main() sends through DMA1 *)
(* channel 7 (USART1_SendFloatArray), the handler of that channel, and the *)
(* console text that fputc writes to the same data register by polling,    *)
(* called by main() and by the CAN receive handler, which prints a line    *)
(* for every frame.                                                        *)
(*                                                                         *)
(* A byte of the buffer is abstracted to what it belongs to: the call that *)
(* wrote it (calls are numbered 1, 2, 1, 2, ...), the frame tail, or       *)
(* Nothing.  A channel switched off and on again goes on where it stopped. *)
(***************************************************************************)
EXTENDS Integers

CONSTANTS N,          \* floats USART1_TX_BUFFER_SIZE leaves room for
          Size        \* floats main() sends

ASSUME TelemetryAssumption == N \in Nat /\ Size \in 1..N

Nothing == 0
Calls == 1..2
Tail == 3

MNoTailRoom == 4 * Size

\* USART1_TX_BUFFER_SIZE, also the size of the transfer.
BufferSize == 4 * N + 4
Index == 0..(BufferSize - 1)

\* The contexts that print.  The handler of channel 7 is above both.
Printers == {"main", "rx0"}

\* What the transmit data register holds: a byte of the channel, a character of
\* a printer, or nothing (TDBE set).
Empty == "empty"
DtOwners == Printers \cup {"dma", Empty}

VARIABLES pc,         \* what main() and USBFS_L_CAN1_RX0_IRQHandler do next
          isr,        \* what DMA1_Channel7_IRQHandler does next
          rf0mn,      \* CAN receive FIFO 0 holds a frame
          call,       \* the call of USART1_SendFloatArray under way
          next,       \* the next byte it writes
          uart1_tx_buffer,
          usart1_tx_dma_status,
          intr,       \* the interrupt of channel 7 is enabled
          chen,       \* channel 7 is enabled
          pos,        \* the next byte it sends
          fdt,        \* its full-data-transfer flag
          lap,        \* the calls whose data it has sent in this round
          dt,         \* the transmit data register
          shift       \* a byte is on the line

frame == <<call, next, uart1_tx_buffer>>
channel == <<usart1_tx_dma_status, intr, chen, pos, fdt, lap>>
line == <<dt, shift>>
software == <<pc, isr, rf0mn, frame, usart1_tx_dma_status, intr>>
vars == <<pc, isr, rf0mn, frame, channel, line>>

-----------------------------------------------------------------------------
\* Who executes: the handler of channel 7 (priority 1) before the CAN receive
\* handler (2) before main().

Runs(c) == /\ isr = "idle" /\ ~(intr /\ fdt)
           /\ c = "main" => pc["rx0"] = "idle" /\ ~rf0mn

Goto(c, from, to) == Runs(c) /\ pc[c] = from /\ pc' = [pc EXCEPT ![c] = to]

MLateInt ==
  /\ \/ Goto("main", "boot", "tdbe") /\ UNCHANGED intr
     \/ Goto("main", "fill", "fill") /\ ~intr /\ intr' = TRUE
  /\ UNCHANGED <<isr, rf0mn, frame, usart1_tx_dma_status, chen, pos, fdt, lap, line>>

\* dma_interrupt_enable for channel 7, before the first printf.
EnableInt ==
  /\ Goto("main", "boot", "tdbe")
  /\ intr' = TRUE
  /\ UNCHANGED <<isr, rf0mn, frame, usart1_tx_dma_status, chen, pos, fdt, lap, line>>

-----------------------------------------------------------------------------
\* fputc: wait for TDBE, write the character (over a byte the channel may have
\* written since), wait for TDC.

WaitTdbe(c) == /\ Goto(c, "tdbe", "write") /\ dt = Empty
               /\ UNCHANGED <<isr, rf0mn, frame, channel, line>>

WriteChar(c) == /\ Goto(c, "write", "tdc")
                /\ dt' = c
                /\ UNCHANGED <<isr, rf0mn, frame, channel, shift>>

\* What a printer does after the last character: main() goes on with its first
\* or its next round of the endless loop, the handler returns.
Done(c) == IF c = "main" THEN "fill" ELSE "idle"

MNoTdcWait(c) == /\ \E to \in {"tdbe", Done(c)} : Goto(c, "tdc", to)
                 /\ UNCHANGED <<isr, rf0mn, frame, channel, line>>

\* A printf has any number of characters.
WaitTdc(c) == /\ \E to \in {"tdbe", Done(c)} : Goto(c, "tdc", to)
              /\ dt = Empty /\ ~shift
              /\ UNCHANGED <<isr, rf0mn, frame, channel, line>>

Putc(c) == WaitTdbe(c) \/ WriteChar(c) \/ WaitTdc(c)

-----------------------------------------------------------------------------
\* USART1_SendFloatArray, called by main()

MTailOverlap(i) == IF i < 4 * Size + 1 THEN call ELSE Tail

\* Byte i of the frame that USART1_SendFloatArray(data, Size) writes.
FrameByte(i) == IF i < 4 * Size THEN call ELSE Tail

\* Copy the floats, then append the tail.
Fill == /\ Goto("main", "fill", IF next + 1 = 4 * Size + 4 THEN "wait" ELSE "fill")
        /\ uart1_tx_buffer' = [uart1_tx_buffer EXCEPT ![next] = FrameByte(next)]
        /\ next' = (next + 1) % (4 * Size + 4)
        /\ UNCHANGED <<isr, rf0mn, call, channel, line>>

\* while(usart1_tx_dma_status == 0){};
WaitStatus == /\ Goto("main", "wait", "enable") /\ usart1_tx_dma_status
              /\ UNCHANGED <<isr, rf0mn, frame, channel, line>>

\* dma_channel_enable(DMA1_CHANNEL7, TRUE); the rest of the loop prints or not.
EnableChannel == /\ \E to \in {"fill", "tdbe"} : Goto("main", "enable", to)
                 /\ chen' = TRUE
                 /\ call' = 3 - call
                 /\ UNCHANGED <<isr, rf0mn, next, uart1_tx_buffer, intr, pos, fdt, lap,
                                usart1_tx_dma_status, line>>

-----------------------------------------------------------------------------
\* USBFS_L_CAN1_RX0_IRQHandler

\* can_message_receive takes the frame out of FIFO 0, then comes the printf.
EnterRx0 == /\ rf0mn /\ Goto("rx0", "idle", "tdbe")
            /\ rf0mn' = FALSE
            /\ UNCHANGED <<isr, frame, channel, line>>

-----------------------------------------------------------------------------
\* DMA1_Channel7_IRQHandler

Isr(from, to) == isr = from /\ isr' = to

Enter == /\ Isr("idle", "status") /\ intr /\ fdt
         /\ UNCHANGED <<pc, rf0mn, frame, channel, line>>

MNoStatus == /\ Isr("status", "ack")
             /\ UNCHANGED <<pc, rf0mn, frame, channel, line>>

SetStatus == /\ Isr("status", "ack")
             /\ usart1_tx_dma_status' = TRUE
             /\ UNCHANGED <<pc, rf0mn, frame, intr, chen, pos, fdt, lap, line>>

ClearFdt == /\ Isr("ack", "disable")
            /\ fdt' = FALSE
            /\ UNCHANGED <<pc, rf0mn, frame, usart1_tx_dma_status, intr, chen, pos,
                           lap, line>>

Disable == /\ Isr("disable", "idle")
           /\ chen' = FALSE
           /\ UNCHANGED <<pc, rf0mn, frame, usart1_tx_dma_status, intr, pos, fdt,
                          lap, line>>

-----------------------------------------------------------------------------
\* The hardware.

\* Channel 7 in loop mode feeds the data register.
Dma == LET byte == uart1_tx_buffer[pos]
       IN  /\ chen /\ dt = Empty
           /\ dt' = "dma"
           /\ pos' = (pos + 1) % BufferSize
           /\ fdt' = (fdt \/ pos' = 0)
           /\ lap' = (IF pos = 0 THEN {} ELSE lap) \cup ({byte} \cap Calls)
           /\ UNCHANGED <<software, chen, shift>>

Load == /\ dt # Empty /\ ~shift
        /\ dt' = Empty /\ shift' = TRUE
        /\ UNCHANGED <<software, chen, pos, fdt, lap>>

Sent == /\ shift
        /\ shift' = FALSE
        /\ UNCHANGED <<software, chen, pos, fdt, lap, dt>>

\* A CAN frame arrives, from wk_can1_init on.
CanFrame == /\ rf0mn' = TRUE
            /\ UNCHANGED <<pc, isr, frame, channel, line>>

\* A CAN frame arrives while one is being printed.
Flood == CanFrame /\ pc["rx0"] # "idle"

-----------------------------------------------------------------------------

\* wk_dma1_channel7_init, wk_dma_channel_config and the first enable are done.
Init == /\ pc = [c \in Printers |-> IF c = "main" THEN "boot" ELSE "idle"]
        /\ isr = "idle" /\ rf0mn = FALSE
        /\ call = 1 /\ next = 0
        /\ uart1_tx_buffer = [i \in Index |-> Nothing]
        /\ usart1_tx_dma_status = FALSE /\ intr = FALSE
        /\ chen = TRUE /\ pos = 0 /\ fdt = FALSE /\ lap = {}
        /\ dt = Empty /\ shift = FALSE

Send == Fill \/ WaitStatus \/ EnableChannel

MainStep == EnableInt \/ Send \/ Putc("main")

Rx0Step == EnterRx0 \/ Putc("rx0")

Handler == Enter \/ SetStatus \/ ClearFdt \/ Disable

Uart == Dma \/ Load \/ Sent

Next == MainStep \/ Rx0Step \/ Handler \/ Uart \/ CanFrame

\* The processor runs the handlers, main() in the gaps they leave (they come
\* again and again, hence its strong fairness), and the USART its line.  The
\* channel answers the empty data register whenever it is enabled, although
\* characters fill the register too.  Every printf comes to its last character.
Fairness == /\ SF_vars(MainStep) /\ WF_vars(Rx0Step) /\ WF_vars(Handler)
            /\ SF_vars(Dma) /\ WF_vars(Load) /\ WF_vars(Sent)
            /\ \A c \in Printers : SF_vars(WaitTdc(c) /\ pc'[c] = Done(c))

Spec == Init /\ [][Next]_vars

FairSpec == Spec /\ Fairness

-----------------------------------------------------------------------------
\* The type of every variable; `next` stays inside uart1_tx_buffer.
TypeOK == /\ pc \in [Printers -> {"idle", "boot", "tdbe", "write", "tdc",
                                  "fill", "wait", "enable"}]
          /\ isr \in {"idle", "status", "ack", "disable"}
          /\ call \in Calls /\ next \in Index /\ pos \in Index
          /\ uart1_tx_buffer \in [Index -> Calls \cup {Nothing, Tail}]
          /\ {rf0mn, usart1_tx_dma_status, intr, chen, fdt, shift} \subseteq BOOLEAN
          /\ lap \subseteq Calls
          /\ dt \in DtOwners

\* From the first complete frame on, the four bytes after the floats are the
\* tail, whatever call is being written and however the rounds of the channel
\* fall, and no other byte ever is: the host always finds the frames.
TailInPlace ==
  uart1_tx_buffer[4 * Size + 3] # Nothing =>
    \A i \in Index : uart1_tx_buffer[i] = Tail <=> i \in (4 * Size)..(4 * Size + 3)

\* No character of the console is lost, although the CAN handler may print
\* between the test of TDBE and the write of fputc in main(): what a printer put
\* in the data register stays there until the line takes it.  Only a byte of the
\* channel can be overwritten.
CharactersKept == [][(dt \in Printers) => dt' \in {dt, Empty}]_vars

\* No CAN frame arrives before the interrupt of channel 7 is enabled (main()
\* enables that of CAN before), and from some time on every frame finds the one
\* before it printed.
CanQuiet == /\ [](pc["rx0"] # "idle" => intr)
            /\ <>[][~Flood]_vars

\* A character that waits for TDC is not held up for ever by the channel feeding
\* the same line, at boot or later, in main() or in the CAN handler: the handler
\* of the channel switches it off.
PrintEnds == CanQuiet => \A c \in Printers : pc[c] = "tdc" ~> pc[c] # "tdc"

\* Rounds of the channel end again and again: neither the wait for the status
\* nor an enable that the handler undoes at once nor the lines of the CAN handler
\* stop the telemetry.
FramesFlow == CanQuiet => []<>(isr = "status")

\* What the comment at usart_1.c:72 says ("send the whole buffer in one go"): a
\* round of the channel carries the floats of one call.
FrameIntact == \A c, d \in lap : c = d
=============================================================================
