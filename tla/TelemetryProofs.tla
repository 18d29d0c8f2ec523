--------------------------- MODULE TelemetryProofs ---------------------------
(***************************************************************************)
(* Proofs about module Telemetry, for every size of the buffer and every   *)
(* number of floats that fits into it.                                     *)
(***************************************************************************)
EXTENDS Telemetry, TLAPS

\* Where the tail begins, and the length of a frame.
TailAt == 4 * Size
FrameSize == 4 * Size + 4

PcStates == {"idle", "boot", "tdbe", "write", "tdc", "fill", "wait", "enable"}

\* Besides the types: `next` is inside the frame, and 0 unless main() copies.
Typed == /\ TypeOK
         /\ next \in 0..(FrameSize - 1)
         /\ pc["main"] # "fill" => next = 0

\* What every part of the buffer can hold.  The bytes of the tail below `next`
\* are written; its last byte is written after the others.
Layout ==
  /\ \A i \in Index : i < TailAt => uart1_tx_buffer[i] # Tail
  /\ \A i \in Index : TailAt <= i /\ i < FrameSize => uart1_tx_buffer[i] \in {Nothing, Tail}
  /\ \A i \in Index : FrameSize <= i => uart1_tx_buffer[i] = Nothing
  /\ \A i \in Index : TailAt <= i /\ i < next => uart1_tx_buffer[i] = Tail
  /\ uart1_tx_buffer[FrameSize - 1] = Tail =>
       \A i \in Index : TailAt <= i /\ i < FrameSize => uart1_tx_buffer[i] = Tail

\* A printer about to write finds no character in the data register, unless a
\* printer above it is at work.
NoCharBelow == /\ pc["rx0"] = "write" => dt \notin Printers
               /\ pc["main"] = "write" /\ pc["rx0"] = "idle" => dt \notin Printers

IInv == Typed /\ Layout /\ NoCharBelow

-----------------------------------------------------------------------------
LEMMA Sizes ==
  /\ Size \in Nat /\ N \in Nat /\ 1 <= Size /\ Size <= N
  /\ BufferSize \in Nat /\ FrameSize \in Nat /\ TailAt \in Nat /\ 4 <= TailAt
  /\ FrameSize = TailAt + 4 /\ FrameSize <= BufferSize
  /\ Index = 0..(BufferSize - 1) /\ TailAt = 4 * Size
BY TelemetryAssumption DEF BufferSize, FrameSize, TailAt, Index

\* Counting on within a ring of n places.
LEMMA RingStep ==
  ASSUME NEW n \in Nat, 0 < n, NEW p \in 0..(n - 1)
  PROVE  (p + 1) % n = IF p + 1 = n THEN 0 ELSE p + 1
<1>1. CASE p + 1 = n
  BY <1>1
<1>2. CASE p + 1 # n
  BY <1>2
<1> QED  BY <1>1, <1>2

\* The types in a form whose parts can be cited.
LEMMA TypeParts ==
  TypeOK <=> /\ pc \in [Printers -> PcStates]
             /\ isr \in {"idle", "status", "ack", "disable"}
             /\ call \in Calls /\ next \in Index /\ pos \in Index
             /\ uart1_tx_buffer \in [Index -> Calls \cup {Nothing, Tail}]
             /\ rf0mn \in BOOLEAN /\ usart1_tx_dma_status \in BOOLEAN /\ intr \in BOOLEAN
             /\ chen \in BOOLEAN /\ fdt \in BOOLEAN /\ shift \in BOOLEAN
             /\ lap \subseteq Calls
             /\ dt \in DtOwners
BY DEF TypeOK, PcStates

-----------------------------------------------------------------------------
(***************************************************************************)
(* Every action preserves the types.                                       *)
(***************************************************************************)

\* A printer moves and the frame stays.
LEMMA PrinterTyped ==
  ASSUME Typed, NEW c \in Printers, NEW to \in PcStates, pc' = [pc EXCEPT ![c] = to],
         pc[c] # "fill", next' = next
  PROVE  /\ pc' \in [Printers -> PcStates]
         /\ next' \in Index /\ next' \in 0..(FrameSize - 1)
         /\ pc'["main"] # "fill" => next' = 0
BY TypeParts DEF Typed, Printers

LEMMA MainTyped == ASSUME Typed, EnableInt \/ WaitStatus \/ EnableChannel PROVE Typed'
<1>1. CASE EnableInt
  BY <1>1, PrinterTyped, TypeParts
     DEF EnableInt, Goto, Typed, TypeOK, PcStates, Printers, frame, line
<1>2. CASE WaitStatus
  BY <1>2, PrinterTyped, TypeParts
     DEF WaitStatus, Goto, Typed, TypeOK, PcStates, Printers, frame, channel, line
<1>3. CASE EnableChannel
  <2>1. PICK to \in {"fill", "tdbe"} : Goto("main", "enable", to)
    BY <1>3 DEF EnableChannel
  <2>2. pc["main"] = "enable" /\ pc' = [pc EXCEPT !["main"] = to] /\ to \in PcStates
    BY <2>1 DEF Goto, PcStates
  <2>3. /\ chen' = TRUE /\ call' = 3 - call
        /\ UNCHANGED <<isr, rf0mn, next, uart1_tx_buffer, intr, pos, fdt, lap,
                       usart1_tx_dma_status, dt, shift>>
    BY <1>3 DEF EnableChannel, line
  <2>4. call' \in Calls
    BY <2>3, TypeParts DEF Typed, Calls
  <2> QED  BY <2>2, <2>3, <2>4, PrinterTyped, TypeParts DEF Typed, TypeOK, PcStates, Printers
<1> QED  BY <1>1, <1>2, <1>3

LEMMA PutcTyped == ASSUME Typed, NEW c \in Printers, Putc(c) PROVE Typed'
<1>1. PICK from \in {"tdbe", "write", "tdc"}, to \in {"tdbe", "write", "tdc", "fill", "idle"} :
        Goto(c, from, to)
  BY DEF Putc, WaitTdbe, WriteChar, WaitTdc, Done
<1>2. pc[c] # "fill" /\ pc' = [pc EXCEPT ![c] = to] /\ to \in PcStates
  BY <1>1 DEF Goto, PcStates
<1>3. dt' \in DtOwners /\ UNCHANGED <<isr, rf0mn, frame, channel, shift>>
  BY TypeParts DEF Putc, WaitTdbe, WriteChar, WaitTdc, line, DtOwners, Typed
<1>4. UNCHANGED <<isr, rf0mn, call, next, uart1_tx_buffer, usart1_tx_dma_status, intr, chen,
                 pos, fdt, lap, shift>>
  BY <1>3 DEF frame, channel
<1> QED  BY <1>2, <1>3, <1>4, PrinterTyped, TypeParts DEF Typed, TypeOK, PcStates

LEMMA FillTyped == ASSUME Typed, Fill PROVE Typed'
<1>1. /\ pc' = [pc EXCEPT !["main"] = IF next + 1 = FrameSize THEN "wait" ELSE "fill"]
      /\ uart1_tx_buffer' = [uart1_tx_buffer EXCEPT ![next] = FrameByte(next)]
      /\ next' = (next + 1) % FrameSize
      /\ UNCHANGED <<isr, rf0mn, call, usart1_tx_dma_status, intr, chen, pos, fdt, lap, dt, shift>>
  BY DEF Fill, Goto, FrameSize, channel, line
<1>2. next' = IF next + 1 = FrameSize THEN 0 ELSE next + 1
  BY <1>1, Sizes, RingStep DEF Typed
<1>3. next' \in 0..(FrameSize - 1) /\ next' \in Index
  BY <1>2, Sizes DEF Typed
<1>4. FrameByte(next) \in Calls \cup {Nothing, Tail}
  BY TypeParts DEF FrameByte, Typed
<1>5. uart1_tx_buffer' \in [Index -> Calls \cup {Nothing, Tail}]
  BY <1>1, <1>4, TypeParts DEF Typed
<1>6. pc' \in [Printers -> PcStates] /\ (pc'["main"] # "fill" => next' = 0)
  BY <1>1, <1>2, TypeParts DEF Typed, Printers, PcStates
<1> QED  BY <1>1, <1>3, <1>5, <1>6, TypeParts DEF Typed, TypeOK, PcStates

LEMMA HandlerTyped == ASSUME Typed, Handler \/ EnterRx0 \/ CanFrame PROVE Typed'
<1>1. CASE Handler
  BY <1>1, TypeParts DEF Handler, Enter, SetStatus, ClearFdt, Disable, Isr, Typed, TypeOK, frame,
                         channel, line
<1>2. CASE EnterRx0
  BY <1>2, PrinterTyped, TypeParts
     DEF EnterRx0, Goto, Typed, TypeOK, PcStates, Printers, frame, channel, line
<1>3. CASE CanFrame
  BY <1>3, TypeParts DEF CanFrame, Typed, TypeOK, frame, channel, line
<1> QED  BY <1>1, <1>2, <1>3

LEMMA UartTyped == ASSUME Typed, Uart PROVE Typed'
<1>1. UNCHANGED <<pc, isr, rf0mn, call, next, uart1_tx_buffer, usart1_tx_dma_status, intr>>
  BY DEF Uart, Dma, Load, Sent, software, frame
<1>2. CASE Dma
  <2>1. pos' = IF pos + 1 = BufferSize THEN 0 ELSE pos + 1
    BY <1>2, Sizes, RingStep, TypeParts DEF Dma, Typed
  <2>2. pos' \in Index
    BY <2>1, Sizes, TypeParts DEF Typed
  <2>3. lap' \subseteq Calls /\ fdt' \in BOOLEAN /\ dt' \in DtOwners /\ UNCHANGED <<chen, shift>>
    BY <1>2, TypeParts DEF Dma, Typed, DtOwners
  <2> QED  BY <1>1, <2>2, <2>3, TypeParts DEF Typed, TypeOK
<1>3. CASE Load \/ Sent
  BY <1>1, <1>3, TypeParts DEF Load, Sent, Typed, TypeOK, DtOwners
<1> QED  BY <1>2, <1>3 DEF Uart

-----------------------------------------------------------------------------
(***************************************************************************)
(* The layout of the buffer: only Fill writes it.                          *)
(***************************************************************************)

LEMMA LayoutKept ==
  ASSUME Typed, Layout, UNCHANGED <<next, uart1_tx_buffer>> PROVE Layout'
BY DEF Layout

LEMMA FillLayout == ASSUME Typed, Layout, Fill PROVE Layout'
<1>1. /\ uart1_tx_buffer' = [uart1_tx_buffer EXCEPT ![next] = FrameByte(next)]
      /\ next' = IF next + 1 = FrameSize THEN 0 ELSE next + 1
  BY Sizes, RingStep DEF Fill, FrameSize, Typed
<1>2. /\ FrameByte(next) = (IF next < TailAt THEN call ELSE Tail)
      /\ call # Tail /\ call \in Calls /\ Nothing # Tail
      /\ next \in Index /\ next < FrameSize /\ next \in Nat
  BY Sizes, TypeParts DEF FrameByte, TailAt, Typed, Calls, Tail, Nothing
<1>3. \A i \in Index : i # next => uart1_tx_buffer'[i] = uart1_tx_buffer[i]
  BY <1>1, TypeParts DEF Typed
<1>4. uart1_tx_buffer'[next] = (IF next < TailAt THEN call ELSE Tail)
  BY <1>1, <1>2, TypeParts DEF Typed
<1>5. \A i \in Index : i \in Int
  BY Sizes
<1>6. \A i \in Index : i < TailAt => uart1_tx_buffer'[i] # Tail
  BY <1>2, <1>3, <1>4 DEF Layout
<1>7. \A i \in Index : TailAt <= i /\ i < FrameSize => uart1_tx_buffer'[i] \in {Nothing, Tail}
  BY <1>2, <1>3, <1>4, <1>5, Sizes DEF Layout
<1>8. \A i \in Index : FrameSize <= i => uart1_tx_buffer'[i] = Nothing
  BY <1>2, <1>3, <1>5, Sizes DEF Layout
<1>9. \A i \in Index : TailAt <= i /\ i < next' => uart1_tx_buffer'[i] = Tail
  BY <1>1, <1>2, <1>3, <1>4, <1>5, Sizes DEF Layout
<1>10. ASSUME uart1_tx_buffer'[FrameSize - 1] = Tail, NEW i \in Index, TailAt <= i, i < FrameSize
       PROVE  uart1_tx_buffer'[i] = Tail
  <2>1. CASE next = FrameSize - 1
    BY <1>2, <1>3, <1>4, <1>5, <1>10, <2>1, Sizes DEF Layout
  <2>2. CASE next # FrameSize - 1
    <3>1. FrameSize - 1 \in Index
      BY Sizes
    <3>2. uart1_tx_buffer[FrameSize - 1] = Tail
      BY <1>3, <1>10, <2>2, <3>1
    <3> QED  BY <1>2, <1>3, <1>4, <1>5, <1>10, <3>2, Sizes DEF Layout
  <2> QED  BY <2>1, <2>2
<1> QED  BY <1>6, <1>7, <1>8, <1>9, <1>10 DEF Layout

-----------------------------------------------------------------------------
(***************************************************************************)
(* The characters.                                                         *)
(***************************************************************************)

\* While main() executes, the CAN handler is not active.
LEMMA MainChars ==
  ASSUME Typed, NoCharBelow, MainStep PROVE NoCharBelow' /\ (dt \in Printers => dt' = dt)
<1>1. pc["rx0"] = "idle" /\ pc'["rx0"] = "idle"
  BY TypeParts DEF MainStep, EnableInt, Send, Fill, WaitStatus, EnableChannel, Putc, WaitTdbe,
                   WriteChar, WaitTdc, Goto, Runs, Typed, Printers
<1>2. CASE WriteChar("main")
  BY <1>1, <1>2, TypeParts DEF WriteChar, Goto, NoCharBelow, Typed, Printers
<1>3. CASE WaitTdbe("main")
  BY <1>1, <1>3, TypeParts DEF WaitTdbe, Goto, NoCharBelow, Typed, Printers, line, Empty
<1>4. CASE EnableInt \/ Send \/ WaitTdc("main")
  <2>1. dt' = dt /\ pc'["main"] # "write"
    BY <1>4, TypeParts DEF EnableInt, Send, Fill, WaitStatus, EnableChannel, WaitTdc, Done, Goto,
                           Typed, Printers, line
  <2> QED  BY <1>1, <2>1 DEF NoCharBelow
<1> QED  BY <1>2, <1>3, <1>4 DEF MainStep, Putc

LEMMA Rx0Chars ==
  ASSUME Typed, NoCharBelow, Rx0Step PROVE NoCharBelow' /\ (dt \in Printers => dt' = dt)
<1>1. pc'["main"] = pc["main"]
  BY TypeParts DEF Rx0Step, EnterRx0, Putc, WaitTdbe, WriteChar, WaitTdc, Goto, Typed, Printers
<1>2. CASE WriteChar("rx0")
  BY <1>1, <1>2, TypeParts DEF WriteChar, Goto, NoCharBelow, Typed, Printers
<1>3. CASE WaitTdbe("rx0")
  BY <1>1, <1>3, TypeParts DEF WaitTdbe, Goto, NoCharBelow, Typed, Printers, line, Empty
<1>4. CASE WaitTdc("rx0")
  BY <1>1, <1>4, TypeParts DEF WaitTdc, Done, Goto, NoCharBelow, Typed, Printers, line, Empty
<1>5. CASE EnterRx0
  BY <1>1, <1>5, TypeParts DEF EnterRx0, Goto, NoCharBelow, Typed, Printers, line
<1> QED  BY <1>2, <1>3, <1>4, <1>5 DEF Rx0Step, Putc

LEMMA OtherChars ==
  ASSUME Typed, NoCharBelow, Handler \/ Uart \/ CanFrame
  PROVE  NoCharBelow' /\ (dt \in Printers => dt' \in {dt, Empty})
<1>1. UNCHANGED pc
  BY DEF Handler, Enter, SetStatus, ClearFdt, Disable, Uart, Dma, Load, Sent, CanFrame, software
<1>2. dt' = dt \/ dt' = Empty \/ (dt = Empty /\ dt' = "dma")
  BY DEF Handler, Enter, SetStatus, ClearFdt, Disable, Uart, Dma, Load, Sent, CanFrame, line
<1> QED  BY <1>1, <1>2 DEF NoCharBelow, Printers, Empty

-----------------------------------------------------------------------------
LEMMA InitIInv == Init => IInv
<1> SUFFICES ASSUME Init PROVE IInv
  OBVIOUS
<1>1. TypeOK
  <2>1. pc \in [Printers -> PcStates] /\ dt \in DtOwners /\ lap \subseteq Calls
    BY DEF Init, PcStates, DtOwners
  <2>2. 0 \in Index /\ 1 \in Calls
    BY Sizes DEF Calls
  <2>3. uart1_tx_buffer \in [Index -> Calls \cup {Nothing, Tail}]
    BY DEF Init
  <2> QED  BY <2>1, <2>2, <2>3, TypeParts DEF Init
<1>2. Typed
  BY <1>1, Sizes DEF Init, Typed, Printers
<1>3. Layout
  <2>1. \A i \in Index : uart1_tx_buffer[i] = Nothing
    BY DEF Init
  <2>2. FrameSize - 1 \in Index /\ Nothing # Tail /\ next = 0 /\ \A i \in Index : i \in Nat
    BY Sizes DEF Init, Nothing, Tail
  <2> QED  BY <2>1, <2>2, Sizes DEF Layout
<1>4. NoCharBelow
  BY DEF Init, NoCharBelow, Printers
<1> QED  BY <1>2, <1>3, <1>4 DEF IInv

\* What every step does to the invariant and to a character in the data register.
LEMMA NextIInv ==
  IInv /\ [Next]_vars => IInv' /\ (dt \in Printers => dt' \in {dt, Empty})
<1> SUFFICES ASSUME IInv, [Next]_vars
             PROVE  IInv' /\ (dt \in Printers => dt' \in {dt, Empty})
  OBVIOUS
<1> USE DEF IInv
<1>1. CASE MainStep
  <2>1. CASE Fill
    BY <1>1, <2>1, FillTyped, FillLayout, MainChars
  <2>2. CASE EnableInt \/ WaitStatus \/ EnableChannel
    <3>1. UNCHANGED <<next, uart1_tx_buffer>>
      BY <2>2 DEF EnableInt, WaitStatus, EnableChannel, frame
    <3> QED  BY <1>1, <2>2, <3>1, MainTyped, LayoutKept, MainChars
  <2>3. CASE Putc("main")
    <3>1. UNCHANGED <<next, uart1_tx_buffer>>
      BY <2>3 DEF Putc, WaitTdbe, WriteChar, WaitTdc, frame
    <3> QED  BY <1>1, <2>3, <3>1, PutcTyped, LayoutKept, MainChars DEF Printers
  <2> QED  BY <1>1, <2>1, <2>2, <2>3 DEF MainStep, Send
<1>2. CASE Rx0Step
  <2>1. UNCHANGED <<next, uart1_tx_buffer>>
    BY <1>2 DEF Rx0Step, EnterRx0, Putc, WaitTdbe, WriteChar, WaitTdc, frame
  <2>2. Typed'
    BY <1>2, PutcTyped, HandlerTyped DEF Rx0Step, Printers
  <2> QED  BY <1>2, <2>1, <2>2, LayoutKept, Rx0Chars
<1>3. CASE Handler \/ CanFrame \/ Uart
  <2>1. UNCHANGED <<next, uart1_tx_buffer>>
    BY <1>3 DEF Handler, Enter, SetStatus, ClearFdt, Disable, CanFrame, Uart, Dma, Load, Sent,
               software, frame
  <2> QED  BY <1>3, <2>1, HandlerTyped, UartTyped, LayoutKept, OtherChars
<1>4. CASE UNCHANGED vars
  <2>1. UNCHANGED <<pc, isr, rf0mn, call, next, uart1_tx_buffer, usart1_tx_dma_status, intr,
                   chen, pos, fdt, lap, dt, shift>>
    BY <1>4 DEF vars, frame, channel, line
  <2>2. Typed'
    BY <2>1 DEF Typed, TypeOK
  <2> QED  BY <2>1, <2>2, LayoutKept DEF NoCharBelow
<1> QED  BY <1>1, <1>2, <1>3, <1>4 DEF Next

LEMMA IInvHolds == Spec => []IInv
BY InitIInv, NextIInv, PTL DEF Spec

\* The variables keep their types; no byte is written outside uart1_tx_buffer.
THEOREM TypeCorrect == Spec => []TypeOK
BY IInvHolds, PTL DEF IInv, Typed

\* The four bytes of the tail are where the host looks for them, in every state
\* after the first complete frame.
THEOREM TailCorrect == Spec => []TailInPlace
<1>1. IInv => TailInPlace
  <2> SUFFICES ASSUME IInv, uart1_tx_buffer[4 * Size + 3] # Nothing, NEW i \in Index
               PROVE  uart1_tx_buffer[i] = Tail <=> i \in (4 * Size)..(4 * Size + 3)
    BY DEF TailInPlace
  <2>1. 4 * Size = TailAt /\ 4 * Size + 3 = FrameSize - 1 /\ FrameSize - 1 \in Index /\ i \in Int
    BY Sizes DEF TailAt, FrameSize
  <2>2. uart1_tx_buffer[FrameSize - 1] = Tail
    BY <2>1, Sizes DEF IInv, Layout
  <2>3. i \in (4 * Size)..(4 * Size + 3) <=> TailAt <= i /\ i < FrameSize
    BY <2>1, Sizes
  <2> QED  BY <2>1, <2>2, <2>3, Sizes DEF IInv, Layout, Nothing, Tail
<1> QED  BY <1>1, IInvHolds, PTL

\* No character of the console is overwritten, whoever printed it and whatever
\* was interrupted.
THEOREM CharactersAreKept == Spec => CharactersKept
<1>1. IInv /\ [Next]_vars => [(dt \in Printers) => dt' \in {dt, Empty}]_vars
  BY NextIInv
<1> QED  BY <1>1, IInvHolds, PTL DEF Spec, CharactersKept
=============================================================================
