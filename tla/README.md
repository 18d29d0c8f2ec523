# Verification of AT32_FOC

AT32_FOC is the firmware of a two-motor field-oriented-control (FOC) drive on an
AT32F403A (Cortex-M4). It runs without an operating system: `main()` and the interrupt
handlers share global structures, and DMA channels write memory on their own. This
directory holds TLA+ models of the firmware's own code (`project/bsp`, `project/src`),
TLC configurations that check them on small instances, and TLAPS proofs. Code under
`libraries/` and `middlewares/` is the vendor's: the register drivers appear through what the
firmware's calls do to the registers, and the middleware (FreeRTOS, lwIP, FatFs, USB classes)
does not appear, since the Keil project of the firmware does not contain it.

## 1. The system

| Part | State | Operations | Runs in |
|---|---|---|---|
| Encoder driver (`mt6701.c`) | `MT6701_t`: CS pin, `data_ready`, `rx_buf`; SPI port, two DMA channels | `MT6701_StartRead`, `MT6701_GetAngle` (busy-wait) | `main`, DMA1 ch. 1 and 2 handlers |
| Encoder completion | the same structure | DMA1 ch. 3 and 5 handlers | priority 0 |
| FOC path (`FOC.c`) | `Motor_1`, `Motor_2` | `first_get`, `angle_init`, `FocContorl` | `main` at boot, then DMA1 ch. 2 (motor 1), ch. 1 (motor 2), priority 1 |
| SVPWM (`SVPWM.c`) | `SVpwm_1`, `SVpwm_2`, timer compare registers | `SVpwm`, `setSVpwm`, `setpwm`, `M1/M2_adc_tigger` | as above |
| Current PI (`current_control.c`) | `idPID`, `iqPID` | `CurrentPIControlID/IQ`, setters | current loops; setters in `main` |
| Speed loop (`speed_control.c`) | `speed`, `speed_last_angle`, `speedPID` | `CalculateSpeed`, `SpeedPIControl`, setters | TMR5, priority 1; setters in `main` |
| Filters (`filter.c`) | filtered values | `LPF_Update`, `LPF_Speed_Update` | with the loops |
| Telemetry and console (`usart_1.c`, `LOG.c`) | `uart1_tx_buffer`, `usart1_tx_dma_status`, DMA1 ch. 7 | `USART1_SendFloatArray`, `fputc` | `main`; ch. 7 handler, priority 1; `fputc` also in the CAN handler |
| Host commands (`usart_1.c`, `main.c`) | `uart1_rx_buffer`, `rx1_flag`, `pid_params_1/2` | `usartdmarecv`, `parse_and_set_pid`, apply | USART1 idle handler, priority 1; `main` |
| CAN (`CAN.c`) | mailboxes | transmit (not called), receive handler (prints), empty error handler | priority 2 |
| Delay, LED, peripheral set-up | SysTick, registers | busy-waits, register writes | boot |

Interactions. A PWM period triggers one ADC conversion per motor; its DMA completion
enters the current loop, which reads the encoder over SPI (waiting, inside the handler, for
a completion handler of higher priority), computes voltages and writes the compare
registers, which act at once (their buffers are off in `wk_tmr.c`). TMR5 turns encoder angles into a speed and a
target for the current loop. `main` calibrates at boot, then sends telemetry and applies
host commands, below all of them. There are no locks; exclusion rests on priorities and
on the order in which `main` enables interrupts.

What is hard here: a busy-wait inside an interrupt, completion flags that survive from an
earlier transfer, DMA channels re-enabled without being re-armed, buffers shared between
`main` and DMA, angles that jump at 2 pi, the borders of SVPWM sectors, over-modulation, parameters changed
field by field under running controllers, a receive buffer that is never cleared, a flag reset
after the work it asks for, two contexts that print to one port, and an interrupt that is enabled
but never acknowledged.
`PROJECT.json` lists these hazards at their lines, with the properties that cover them.

Correctness, part by part:

- encoder: an angle belongs to the read that asked for it; the port is silent between reads;
  every wait ends;
- interrupts: one reader per encoder; current and speed loops never overlap; all keep running;
- SVPWM: requested line voltages, on-times in the period, currents never sampled inside the
  on-time of a high side;
- angles: calibration finds the rotor's zero; speed is the rotor's movement;
- telemetry: frames are delimited, no character is lost; neither frames nor text block for ever;
- controllers: output within the limit, no wind-up, no kick when parameters change;
- currents: offsets are the means of the samples; a motor at rest measures nothing;
- host commands: a complete command that is answered was executed as sent, once, and every
  command gets through.

## 2. Modules

| Module | Models | Kind |
|---|---|---|
| `MinMaxPwm` | what a space-vector modulator promises, without sectors | abstract specification |
| `SVPWM` | `SVPWM.c`, the PWM and trigger writes of `FOC.c`, one motor | component |
| `SVPWMProofs` | theorems about `SVPWM` | proofs |
| `Nvic` | priorities of `wk_nvic_config` and the Cortex-M4 arbitration | operators |
| `Encoder` | one `MT6701_t`, its SPI port and DMA channels, as a record and operations on it | operators |
| `FocInterrupts` | `main` from the SPI interrupts on, the DMA1 ch. 1, 2, 3, 5, TMR5 and CAN error handlers, two encoders | composition of `Nvic` and `Encoder` |
| `MotorTasks` | what the computations rely on: calibration reads and loops one at a time, each with an angle of its own | abstract specification |
| `FocProofs` | theorems about `FocInterrupts` | proofs |
| `AngleSense` | `angle_init` and the corrected angle, one motor | component |
| `AngleProofs` | theorems about `AngleSense` | proofs |
| `PiController` | `struct PI_Struct`, one call of a controller, one step of a filter | operators |
| `PiProofs` | lemmas about `PiController` | proofs |
| `PositionalPI` | what a limited PI controller promises, in positional form | abstract specification |
| `CurrentLoop` | `first_get`, the currents and controllers of `FocContorl`, the setters in `main`, one motor | component |
| `CurrentLoopProofs` | theorems about `CurrentLoop` | proofs |
| `SpeedLoop` | `CalculateSpeed`, `SpeedPIControl` and its setters, the readings of the current loop, one motor | component |
| `SpeedLoopProofs` | theorems about `SpeedLoop` | proofs |
| `Telemetry` | `USART1_SendFloatArray`, `fputc` in `main` and in the CAN receive handler, DMA1 ch. 7 and its handler | component |
| `TelemetryProofs` | theorems about `Telemetry` | proofs |
| `CommandService` | what a host that waits for its answers relies on, without buffer, flag or parser | abstract specification |
| `HostCommand` | DMA2 ch. 1, the idle handler, `parse_and_set_pid`, the set flags, and a host | component |
| `HostProofs` | theorems about `HostCommand` | proofs |
| `MCCurrentLoop`, `MCSpeedLoop`, `MCHostCommand` | settings and commands for TLC | instances |

Operators whose name starts with `M` followed by a capital (`MSwapCase4`, ...) are mutated
forms of the definition they precede: plausible slips in the code, each of which makes one of
the properties fail. They take no part in the specifications.

### SVPWM

`U`, `duty` (Ta, Tb, Tc), `ccr` and `adcTrig` are the fields and registers of one motor.
`adc_tigger`, `strong_drag` and `SVpwm` are the three places that write them; `boot` orders
the first two as `main()` does. Voltages are integers in a unit in which
`SQRT3 * Ts / UDC` has no fraction; on-times are doubled because t7 is a half; the scaling by
`k_svpwm` is exact because the model stretches the denominator instead (`period`).
`Park` and its inverse are abstracted: the vector is any one within the clamp of Ud and Uq.

### Encoder, Nvic, FocInterrupts

Each context has a program counter with one step per access another context or the hardware
can notice. `Goto` lets a context step only when it is the innermost active one and
nothing preempts it; `Enter` takes the first request in NVIC order. The SPI port is modelled
byte by byte (`TxDma`, `Load`, `Receive`, `RxDma`); a byte is its place in the frame latched by
the last falling CS edge, or stale. `PoweredUp` has the TX channels running, since `main`
enables them before the ports: the transfer at boot, and its completion flag, are part of the
model. `FocControl` stands for the computation of `FocContorl` after the angle, which touches
nothing modelled here; the modules below model what it computes. `CanError` may raise the error
flag at any time; `CAN1_SE_IRQHandler` is empty, so the flag stays up and `Enter` takes the handler
again and again, above `main` and below everything else. `NewPeriod` may come before the handlers of
the last period are done (`Overrun`).

`MotorTasks` is what all this amounts to for the motors: tasks are carried out one after the other, first
the calibration reads, `InitReads` of motor 1 and then of motor 2, and then current and speed
loops, and each read or current loop takes one angle that was latched after it began. `Tasks` maps the
contexts to it (`Task`, `Angle`, `Left`). The modules below rest on it: they make one step of a
reading of the calibration, of a current loop or of a speed loop.

### AngleSense

`home` is where the dragged rotor rests; readings differ from it by at most `Jitter`. Angles
are integers; `zero` and `corr_angle` are in tenths because `zero` is the mean of ten samples.

### PiController, CurrentLoop, SpeedLoop

`Control` is one call of any of the three controllers, `Limited` the two tests at its end. A filter
step (`Filtered`) may return anything between the filtered value and the input, which is what
the code does for some coefficient between 0 and 1, so nothing depends on the coefficient.
Reals are integers in an arbitrary unit: the properties compare and add, they do not round.

`main` writes one field per step, and the handler that uses the fields can come between any two.
In `CurrentLoop` the angle of the Park transform is arbitrary, so transformed currents are any
value up to `Current`, 0 when both inputs are 0; `FocContorl` takes the target of the q controller
from `speedPID.out`, an arbitrary value here, as the code does: the target `tariq` the host sets is
stored and overwritten (current_control.c:51), so setting it has no effect. In `SpeedLoop`, `moved`
and `unread` are history variables that follow the rotor's real movement.

### Telemetry

One step per byte written by `main`, per statement of the handler, per byte moved by the DMA
channel and by the transmitter, and three steps per character: the test of TDBE, the write and the
wait for TDC. The data register (`dt`) holds whose byte it is; bytes of the buffer are the number of
the call they come from, or the tail. A channel that is switched off and on again is assumed to go
on where it stopped. `CanFrame` may come at any time.

### HostCommand

Text is a sequence of words: digits, underscore, colon, end of line, blank, and pieces of text
without any of these. A cell of the receive buffer holds a word. The tests on the text are those of
the code: `Suffix` is the last underscore, one word behind it decides on the group, and all that
follows is cut off (`Recognised`, `Key`); `NumberAfter` skips white space, ends of line
included, and reads digits up to the first word that is none (`Beyond`), like `strtol` and `strtof`.
`Receive` is the DMA channel, `USART1_IRQHandler` restarts it, and `main` needs one step for each of
looking for the colon, copying the name, storing the value, answering and resetting `rx1_flag`,
with reception going on in between. The host waits for an answer and repeats a command that gets none.

The buffer is never cleared, so main() reads a command together with what older ones left behind it.
A command with a colon and something other than white space behind it (`Complete`; it may still be
nonsense) is not affected. Any other takes what it lacks from the leftovers: `Speed_KP_1` without a
colon, sent after `Speed_SET_1:0`, leaves `Speed_KP_1\n:0\n` and sets Speed_KP to 0, because the
cut at the suffix removes the end of line as well; `Speed_1:` after `Speed_1:12` leaves
`Speed_1:\n2\n` and sets Speed to 2, because `strtof` skips the end of line. The model does the
same, and the runs send such commands. `expected` is a history variable that says what the answered
commands have made of the parameters: a complete command what it makes when it is parsed alone in an
empty buffer (`Effect`), an incomplete one whatever it has made. So the properties promise
execution as sent for complete commands, on what incomplete ones may have left, and promise nothing of
the latter but their answer.

`CommandService` is the same promise without the machinery: a command is sent, executed in one
moment, answered, and what it released is handed to the controllers before the next one is executed.
`Executes` is what it may do: its own effect if it is complete, anything otherwise.
`Service` maps `HostCommand` to it with `Made`, what the parameters and requests amount to: a
stored value counts from the moment of the answer, not from the moment `main` writes it.

## 3. Runs

| Run | Result | What it shows |
|---|---|---|
| `svpwm` | pass | `DutyInPeriod`, `SampleInLowSide`, `LineVoltages`, and `MinMaxRefinement`: `SVPWM` implements `MinMaxPwm` |
| `svpwm_zero` | violation | the zero vector is not modulated: the previous on-times stay in force |
| `foc` | pass | `AngleFresh`, `PortQuiet`, `OneReader`, `NoLostWakeup`, `LoopsExclusive`, `WholeRead`, `ReadCompletes` and `LoopsAlive` under all interleavings, overrun of PWM periods and CAN errors included; and `TaskRefinement`: the contexts implement `MotorTasks` |
| `foc_frame` | violation | `data_ready` after one byte of a three-byte frame |
| `angle_calibration` | pass | `OkMeansAligned`, `AlignedAwayFromJump` |
| `angle_jump` | violation | the zero is wrong when the rotor rests at the jump |
| `current_loop` | pass | `OffsetIsMean`, `OutputLimited`, `OneParameterSet`, `SettledStays`, and `IdPositional`, `IqPositional`: both controllers implement `PositionalPI` |
| `current_zero` | violation | a motor at rest measures a current when its two channels rest at different values |
| `speed_loop` | pass | `SpeedIsMovement`, `SpeedPlausible`, `TorqueLimited`, and `SpeedPositional`: the controller implements `PositionalPI` |
| `telemetry` | pass | `TailInPlace`, `CharactersKept`, `PrintEnds`, `FramesFlow` |
| `telemetry_frame` | violation | a frame can mix two calls |
| `host_command` | pass | `ExecutedAsSent`, `ReleasedAsAsked`, `EveryCommandAnswered`, and `ServiceRefinement`: `HostCommand` implements `CommandService` |

Bounds.

- `SVPWM*.cfg`: `OutMax` = 6 and `Ts` = 3464 make one unit of voltage about 1 V, so the
  vectors are the points of a 1 V grid up to the clamp of 6 V; all six sectors, their borders,
  the zero vector and over-modulation occur (the theorems cover every `Ts` and `OutMax`).
- `Foc*.cfg`: two motors and twelve calibration reads, as in the code; nothing is cut short.
- `Angle*.cfg`: 256 readings per turn, which is what the one byte received of the frame
  leaves, a jitter of one reading, and resting positions at, next to and away from the jump.
- `CurrentLoop.cfg`: the channels rest at 4094 or 4095, the end of the converter's range,
  where 16-bit sums come closest to wrapping; one reading with current, transformed currents and
  speed outputs in -1..1, a limit of 1, and two settings, one with an integral gain and one
  without, so that outputs reach the limit on both sides and half-written sets occur.
  `CurrentZero.cfg` lets the channels rest at different values. The theorems cover all values.
- `SpeedLoop.cfg`: eight readings per turn include every combination of crossing the jump, in both
  directions, with moves up to just under half a turn; limit 3. The theorems cover all values.
- `Telemetry.cfg`: one float and no room for more; whether rounds end, texts end and characters
  survive does not depend on the number of bytes in a round, and the theorems cover all sizes, a
  frame shorter than the buffer included. `TelemetryFrame.cfg`: two floats in a buffer for three, as in
  the code.
- `HostCommand.cfg`: eight commands of five to ten words, so that most leave something behind
  another: parameters and SET requests of both groups, with text behind the group and a blank before the
  number, two that are refused (unknown group, name too long) and two incomplete ones, which do find
  a number, and a colon, in the leftovers. Names hold fewer than 7 words and the buffer 11, one more
  than the longest command has. The theorems cover all commands and sizes.

Fairness. Handlers, SPI and USART hardware get weak fairness: an active handler runs, a byte in
a shift register gets out. `main` gets strong fairness in `FocInterrupts` and `Telemetry` because it
runs in gaps between handlers that come again and again, and the DMA channel of the USART gets it
because characters fill the same register in between; the hardware answers in a fraction of a
character time. Every text printed has an end.

- Timers never stop, but a PWM period is only fair to end once its handlers are done
  (`NewPeriod /\ Drained`); it may end earlier at any time. If it did so for ever, channel 1 would
  always be taken before channel 2 and TMR5, which starve. `LoopsAlive` therefore has the premise
  that overruns stop at some time, and says that the loops recover from all earlier ones.
- The flag of a CAN error is never cleared. `LoopsAlive` promises the control loops in spite of it
  and the end of the boot without it; `ReadCompletes` likewise.
- `CanQuiet`, the premise of `PrintEnds` and `FramesFlow`: no CAN frame comes before the interrupt of
  channel 7 is enabled (it would hang the boot in the handler: the channel is in loop mode, so the
  line never falls silent), and from some time on each frame finds the one before it printed (a
  line of text takes longer than a frame, so a busy bus keeps `main` out). The code ensures
  neither.
- `HostCommand`: the host repeats what it gets no answer to, after the time `main` needs; it
  need not have another command. `main` gets weak fairness, which presumes that the interrupts
  above it leave it time: it does not hold once a CAN error is raised, which starves `main` for ever, nor
  on a CAN bus busy enough to keep the receive handler printing (`FocInterrupts` and `Telemetry` model
  both). `EveryCommandAnswered` is meant for the time without either.

No run switches deadlock checking off: none of these state machines may stop.

## 4. Proofs

`SVPWMProofs`, for every period `Ts` > 0 and clamp `OutMax`: `TypeCorrect`, `DutyCorrect`,
`SamplingCorrect`, `VoltageCorrect` and `ImplementsMinMax`. The invariant `Inv` joins the four
properties and `BootOrder` (the registers at each stage of the boot), which `SampleInLowSide`
needs to be inductive: only the order trigger first, phases after keeps it. The core is
`SwitchCorrect`: in each sector the two dwell times are nonnegative and the table row gives the
line voltages. Refinement is by steps: each `SVpwm` is a `Modulate` or a `Hold`
(`ModulateStep`), and the boot steps stutter.

`FocProofs`, for every number of calibration reads, with overruns and CAN errors: `TypeCorrect`,
`AnglesAreFresh`, `PortsAreQuiet`, `ReadersAreExclusive`, `WakeupsAreKept`, `LoopsAreExclusive`, as a
property of steps `ReadsAreWhole`, and `ImplementsTasks`. The properties are far from inductive: that rx_buf[0] is fresh when a context parses depends on where the byte, the
completion flag and the handler were at every earlier step. `IInv` therefore describes the life of
an encoder as phases (`Booting`, `BootCompletion`, `Resting`, `Latched`, `InFlight`, `Stored`,
`Done`) of the encoder record, its completion handler and its reader, with what `main` has
enabled so far (`IeOK`), the boot transfer (`BootOver`) and `LoopsExclusive`. One lemma per
operation moves an encoder from phase to phase; one lemma per action lifts it to the system.
`IInv` was model-checked before it was proved. For the refinement, `OneTask` says which context is
working and that there is only one, so that `Task` and `Angle` can be read off it; then each action is a
task of `MotorTasks` beginning, latching, storing, taking or ending, or does not show. That a byte
stored by the DMA channel is always a `Store`, never a change of an angle already there, needs the
phases `Latched` and `InFlight` to say that the buffer does not hold the byte yet.

`AngleProofs`, for every resolution, jitter and set of resting places: `TypeCorrect`,
`OkMeansTheZeroIsRight`, `ZeroIsRightAwayFromJump`. `SumInv` bounds the sum of n samples, `AwayInv`
says that away from the jump it lies within n times the jitter of n times the true angle, and
`OkInv` that success is reported after the calibration only; that the zero is then right follows
from the final test, which pins it to a reading.

`PiProofs`: what the limit and the filter return for all values, and `ControlIsPositional`, that one
incremental step equals one positional step when `integral` is read as `out - kp * lastBias`.

`CurrentLoopProofs`, for all readings of a 12-bit converter and all gains, targets and limits:
`TypeCorrect`, `OffsetsAreMeans`, `OutputsAreLimited`, `ParametersAreOneSet`, `SettledMotorStays`,
`IdLoopIsPositional`, `IqLoopIsPositional`. `SumInv` ties the 16-bit sums to the true ones (at most
4095 for each sample taken, hence no wrap); `LimitInv` says that a controller either has the limit of
`main` or is still zero, without which the first loops would have no bound; `ParamsInv`
says which fields have the new setting at each step of the setter.

`SpeedLoopProofs`, for every resolution and all settings: `TypeCorrect`, `SpeedIsTheMovement`,
`SpeedIsPlausible`, `TorqueIsLimited`, `SpeedLoopIsPositional`. `MotionInv` says that the rotor is
ahead of the last reading by `unread`, and that reading ahead of `speed_last_angle` by `moved`, on
the circle; the difference of two readings is then `moved` or a turn more or less, and
`MaxMove` below half a turn lets `Unwrap` tell which.

`TelemetryProofs`, for every buffer and frame size: `TypeCorrect`, `TailCorrect`, `CharactersAreKept`.
The last needs to know that nobody overwrites a character: a printer that has tested TDBE
finds the register empty or with a byte of the channel, also when the other one printed in
between, because a printer leaves only after TDC.

`HostProofs`, for every set of commands that end with an end of line and are shorter than the buffer,
incomplete ones among them, and for every size of buffer and names: `TypeCorrect`,
`CommandsExecuteAsSent`, `SetsReleasedAsAsked`, `ImplementsService`.
`ExecutedAsSent` speaks of moments at which nothing is being executed and says nothing of a buffer
in which an older and longer command still lies behind the new one. `IInv` adds what holds in
between: `LineInv`, the cells received so far are those of the command and the DMA channel stands
behind them; `FlagInv`, while `rx1_flag` is up, except before it is reset, the command is there
completely and the host waits; `ParserInv`, what the parser has found agrees with the buffer as it
is now, although reception goes on; `ParamsInv`, how the parameters and requests relate to `expected` at each step of
`main`. That leftovers do no harm to a complete command is `SameParse`, from three facts about text:
the first colon of the buffer is that of the command, so the name is its own; white space behind it
ends within the command, which has something else there; and the number ends there too, because the
last word of the command is no digit. Each of the last two is `SameBeyond`. Without completeness the
first two fail, and so does the theorem. Refinement is by steps: `NextCommand` is `Send`,
`Answer` is `Execute`, `ApplySettings` is `HandOver`, and all others stutter.

That a parameter is always a natural number needs induction, since `Number` is a recursive function of
a word of any length (`NumberTable`). The induction theorems of the library take
an operator as a parameter, which no backend can instantiate, so `HostProofs` states induction for a
set of numbers (`Induction`, from the least element of its complement) and applies it to the set of
the lengths for which the fact holds.

Assumptions are those on the constants (`SvpwmAssumption`, `FocAssumption`, `AngleAssumption`,
`CurrentAssumption`, `SpeedAssumption`, `TelemetryAssumption`, `HostAssumption`), nothing else. TLC
evaluates each of them in the runs.

Only model-checked: liveness (`ReadCompletes`, `LoopsAlive`, `PrintEnds`, `FramesFlow`,
`EveryCommandAnswered`), which is out of the prover's reach under fairness. `WakeupsAreKept` is the part
of `ReadCompletes` that needs none: at no moment does a context wait for something that will not come.

## 5. Not modelled

- Rounding of `float`; sine and cosine (`fast_sin.h`), a polynomial in `float`. The models work
  with exact integers and any transformed vector.
- Durations, except as the order they imply (`BootTransferDone` for the 10 ms delay).
- The extra CRC byte the SPI port could send (CRC is enabled at set-up), and the fault
  handlers, which loop for ever.
- The CAN transmit functions, which nothing calls, and the filter set-up.
- Register set-up that decides nothing in the models (`wk_*.c`), `delay.c`, `led.c`.
- `libraries/` and `middlewares/`: all but about 5,000 lines of the repository's code are the vendor's
  drivers and third-party middleware. The firmware reaches the drivers only as register accesses; no file
  of the firmware includes the middleware.
- Numbers with a sign, a point, an exponent or a hexadecimal prefix: they are read with the same
  skipping and stopping, and would only make the value of a number more than its digits.
- A host that pauses inside a command, or sends a command before the last one is answered: the
  code cannot tell either from a complete command, and no document states the protocol.

## 6. Plan

Done: `SVPWM` with `MinMaxPwm`; `Encoder`, `Nvic`, `FocInterrupts` with `MotorTasks`, CAN errors and overruns;
`AngleSense`; `PiController`, `PositionalPI`, `CurrentLoop`, `SpeedLoop`; `Telemetry` with the CAN
receive handler; `HostCommand` with `CommandService`; proofs of every safety property of every
component.

Left, in this order:

1. A composition of `CurrentLoop` and `SpeedLoop` for two motors with the schedule of
   `FocInterrupts`, in which the arbitrary `speedOut` and `mechanical_angle` become each other's
   results.
2. The channel's count when it is switched off in the middle of a round, should a document of the
   device settle what it does.
