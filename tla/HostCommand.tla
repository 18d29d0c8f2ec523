----------------------------- MODULE HostCommand -----------------------------
(***************************************************************************)
(* Commands of the host: DMA2 channel 1 stores what USART1 receives, the   *)
(* idle-line interrupt restarts the channel and raises rx1_flag, and       *)
(* main() parses the buffer in place, while the channel can write to it,   *)
(* and hands complete parameter sets to the controllers on request.        *)
(*                                                                         *)
(* Text is a sequence of words: a digit, '_', ':', the end of line "nl", a *)
(* blank, or a piece of text without any of these; "text" is any piece     *)
(* that occurs in no key.  A cell of the buffer holds a word.  Numbers are *)
(* whole: "text" begins no number and continues none (no sign, point,      *)
(* exponent or hexadecimal prefix).                                        *)
(*                                                                         *)
(* The host sends a command in one burst, ended by "nl", and waits for the *)
(* answer; when none comes it sends the command again.                     *)
(***************************************************************************)
EXTENDS Integers, Sequences, SequencesExt

CONSTANTS Commands,   \* what the host may send
          BufferSize, \* RX_BUFFER_SIZE
          NameSize    \* the size of name[] in parse_and_set_pid

Digits == <<"0", "1", "2", "3", "4", "5", "6", "7", "8", "9">>
Digit == Range(Digits)
DigitValue(d) == (CHOOSE i \in DOMAIN Digits : Digits[i] = d) - 1
Space == {"nl", " "}
Pieces == {"Current", "Speed", "Id", "Iq", "KP", "KI", "KD", "SET", "text"}
Words == Digit \cup Space \cup Pieces \cup {"_", ":"}
nul == "nul"

ASSUME HostAssumption ==
  /\ NameSize \in Nat \ {0} /\ BufferSize \in Nat \ {0}
  /\ Commands \subseteq Seq(Words)
  /\ \A c \in Commands : Len(c) \in 1..(BufferSize - 1) /\ Last(c) = "nl"

Groups == {1, 2}
CurrentKeys == {<<"Id">>, <<"Iq">>, <<"Current", "_", "KP">>,
                <<"Current", "_", "KI">>, <<"Current", "_", "KD">>}
SpeedKeys == {<<"Speed">>, <<"Speed", "_", "KP">>, <<"Speed", "_", "KI">>,
              <<"Speed", "_", "KD">>}
Keys == CurrentKeys \cup SpeedKeys

\* What Current_SET and Speed_SET hand over.
CurrentSet == <<"Current", "_", "SET">>
SpeedSet == <<"Speed", "_", "SET">>
SetKeys == {CurrentSet, SpeedSet}
KeysOf(s) == IF s = CurrentSet THEN CurrentKeys ELSE SpeedKeys

VARIABLES cmd,        \* the command the host sent last
          sent,       \* its words sent so far
          answered,   \* the host has the answer to it
          idle,       \* the idle flag of USART1
          uart1_rx_buffer,
          pos,        \* where channel 1 stores the next word
          rx1_flag,
          pc,         \* what main() does next
          colon,      \* colon_pos
          name,
          pid_params, \* pid_params_1 and pid_params_2, in hundredths
          set_flag,   \* their Current_set_flag and Speed_set_flag
          drive,      \* the parameters in the motor structures
          expected    \* what the answered commands have made of pid_params and drive

line == <<cmd, sent, answered>>
channel == <<uart1_rx_buffer, pos>>
parser == <<colon, name>>
params == <<pid_params, set_flag, drive>>
vars == <<line, idle, channel, rx1_flag, pc, parser, params, expected>>

-----------------------------------------------------------------------------
\* Pieces of parse_and_set_pid, on a text that ends at its first nul.

\* strchr(input, ':'), or 0.
Colon(text) ==
  LET found == {i \in 1..Len(text) :
                  text[i] = ":" /\ \A j \in 1..i : text[j] # nul}
  IN  IF found = {} THEN 0 ELSE CHOOSE i \in found : \A j \in found : i <= j

NameBefore(text, at) == SubSeq(text, 1, at - 1)

\* The number that digits make, 0 when there are none.
Number(digits) ==
  LET value[i \in 0..Len(digits)] ==
        IF i = 0 THEN 0 ELSE 10 * value[i - 1] + DigitValue(digits[i])
  IN  value[Len(digits)]

\* The first place from `from` on that holds no word of a class.
Beyond(text, from, class) ==
  CHOOSE i \in from..(Len(text) + 1) :
    /\ i > Len(text) \/ text[i] \notin class
    /\ \A j \in from..(i - 1) : text[j] \in class

\* strtof, strtol: white space is skipped, an end of line as well; the number is
\* what the digits from there on make.
NumberAfter(text, at) ==
  LET start == Beyond(text, at + 1, Space)
  IN  Number(SubSeq(text, start, Beyond(text, start, Digit) - 1))

\* strrchr(name, '_'), or 0.
Suffix(n) == SelectLastInSeq(n, LAMBDA w : w = "_")

\* One character behind the last underscore decides on the group, the text before
\* it is the key, and whatever else follows is cut off.
Key(n) == SubSeq(n, 1, Suffix(n) - 1)
Group(n) == IF n[Suffix(n) + 1] = "1" THEN 1 ELSE 2
Recognised(n) == /\ Suffix(n) # 0 /\ Suffix(n) < Len(n)
                 /\ n[Suffix(n) + 1] \in {"1", "2"}
                 /\ Key(n) \in Keys \cup SetKeys

\* (uint8_t) of a long that strtol limits to 32 bits.
LONG_MAX == 2147483647
Flag(value) == (IF value <= LONG_MAX THEN value ELSE LONG_MAX) % 256

\* The effect of a number for a recognised name on parameters p and flags f.
Assign(p, n, value) == IF Key(n) \in Keys
                       THEN [p EXCEPT ![Group(n)][Key(n)] = 100 * value]
                       ELSE p
SetFlag(f, n, value) == IF Key(n) \in SetKeys
                        THEN [f EXCEPT ![Group(n)][Key(n)] = Flag(value)]
                        ELSE f

\* Give the sets whose flag is 0 to the controllers.
Applied(p, f, d) ==
  [g \in Groups |->
    [k \in Keys |-> IF \E s \in SetKeys : f[g][s] = 0 /\ k \in KeysOf(s)
                    THEN p[g][k] ELSE d[g][k]]]

\* Flags that hand nothing over.
NoRequest == [g \in Groups |-> [s \in SetKeys |-> 1]]

\* What a command alone, parsed in an empty buffer, makes of parameters p and
\* flags f, ...
Meaning(c, p, f) ==
  LET at == Colon(c)
      n == NameBefore(c, at)
      value == NumberAfter(c, at)
  IN  IF at # 0 /\ at - 1 < NameSize /\ Recognised(n)
      THEN <<Assign(p, n, value), SetFlag(f, n, value)>>
      ELSE <<p, f>>

\* ... and, once the flags are dealt with, of <<parameters, those handed over>>.
Effect(c, made) == LET pf == Meaning(c, made[1], NoRequest)
                   IN  <<pf[1], Applied(pf[1], pf[2], made[2])>>

\* A command with a colon and something behind it, sense or nonsense.  The parser
\* takes what the others lack from the rest of older commands.
Complete(c) == /\ Colon(c) # 0
               /\ \E i \in (Colon(c) + 1)..Len(c) : c[i] \notin Space

\* What a command may make: its own effect, or, completed by the rest of another
\* one, anything.
Executes(c, made, next) == Complete(c) => next = Effect(c, made)

-----------------------------------------------------------------------------
\* The host and the hardware.

\* The host has its answer and sends another command.
NextCommand == /\ answered /\ sent = Len(cmd)
               /\ cmd' \in Commands
               /\ sent' = 0 /\ answered' = FALSE
               /\ UNCHANGED <<idle, channel, rx1_flag, pc, parser, params, expected>>

\* The host hears nothing for long, longer than main() needs for a command: the
\* command is lost.
Resend == /\ ~answered /\ sent = Len(cmd)
          /\ ~idle /\ ~rx1_flag /\ pc \in {"apply", "check"}
          /\ sent' = 0
          /\ UNCHANGED <<cmd, answered, idle, channel, rx1_flag, pc, parser,
                         params, expected>>

\* A word arrives; channel 1 runs in loop mode.  After the last one the line
\* falls idle.
Receive == /\ sent < Len(cmd)
           /\ sent' = sent + 1
           /\ uart1_rx_buffer' = [uart1_rx_buffer EXCEPT ![pos] = cmd[sent']]
           /\ pos' = (pos % BufferSize) + 1
           /\ idle' = (idle \/ sent' = Len(cmd))
           /\ UNCHANGED <<cmd, answered, rx1_flag, pc, parser, params, expected>>

MNoIdleClear == /\ idle
                /\ pos' = 1 /\ rx1_flag' = TRUE
                /\ UNCHANGED <<line, idle, uart1_rx_buffer, pc, parser, params,
                               expected>>

MNoRestart == /\ idle
              /\ rx1_flag' = TRUE /\ idle' = FALSE
              /\ UNCHANGED <<line, channel, pc, parser, params, expected>>

\* USART1_IRQHandler with usartdmarecv: the channel starts over, the buffer keeps
\* what it holds.
USART1_IRQHandler == /\ idle
                     /\ pos' = 1
                     /\ rx1_flag' = TRUE /\ idle' = FALSE
                     /\ UNCHANGED <<line, uart1_rx_buffer, pc, parser, params,
                                    expected>>

-----------------------------------------------------------------------------
\* main(), below the handler.

Main(from, to) == ~idle /\ pc = from /\ pc' = to

MKeepFlag == /\ Main("apply", "check")
             /\ drive' = Applied(pid_params, set_flag, drive)
             /\ UNCHANGED <<line, idle, channel, rx1_flag, parser, pid_params,
                            set_flag, expected>>

ApplySettings ==
  /\ Main("apply", "check")
  /\ drive' = Applied(pid_params, set_flag, drive)
  /\ set_flag' = [g \in Groups |->
                   [s \in SetKeys |-> IF set_flag[g][s] = 0 THEN 1
                                      ELSE set_flag[g][s]]]
  /\ UNCHANGED <<line, idle, channel, rx1_flag, parser, pid_params, expected>>

CheckFlag == /\ Main("check", IF rx1_flag THEN "colon" ELSE "apply")
             /\ UNCHANGED <<line, idle, channel, rx1_flag, parser, params, expected>>

MNoLengthCheck ==
  LET at == Colon(uart1_rx_buffer)
  IN  /\ Main("colon", IF at # 0 THEN "name" ELSE "answer")
      /\ colon' = at
      /\ UNCHANGED <<line, idle, channel, rx1_flag, name, params, expected>>

\* parse_and_set_pid: an error message is an answer, too.
FindColon ==
  LET at == Colon(uart1_rx_buffer)
      valid == at # 0 /\ at - 1 < NameSize
  IN  /\ Main("colon", IF valid THEN "name" ELSE "answer")
      /\ colon' = at
      /\ UNCHANGED <<line, idle, channel, rx1_flag, name, params, expected>>

CopyName == LET n == NameBefore(uart1_rx_buffer, colon)
            IN  /\ Main("name", IF Recognised(n) THEN "store" ELSE "answer")
                /\ name' = n
                /\ UNCHANGED <<line, idle, channel, rx1_flag, colon, params,
                               expected>>

Store == LET value == NumberAfter(uart1_rx_buffer, colon)
         IN  /\ Main("store", "answer")
             /\ pid_params' = Assign(pid_params, name, value)
             /\ set_flag' = SetFlag(set_flag, name, value)
             /\ UNCHANGED <<line, idle, channel, rx1_flag, parser, drive, expected>>

\* What the parameters and the pending requests amount to.
Result == <<pid_params, Applied(pid_params, set_flag, drive)>>

\* The last printf of parse_and_set_pid, whichever it is.
Answer == /\ Main("answer", "reset")
          /\ answered' = TRUE
          /\ expected' = IF Complete(cmd) THEN Effect(cmd, expected) ELSE Result
          /\ UNCHANGED <<cmd, sent, idle, channel, rx1_flag, parser, params>>

MNoReset == /\ Main("reset", "apply")
            /\ UNCHANGED <<line, idle, channel, rx1_flag, parser, params, expected>>

\* rx1_flag = 0, for whichever command it was raised.
ResetFlag == /\ Main("reset", "apply")
             /\ rx1_flag' = FALSE
             /\ UNCHANGED <<line, idle, channel, parser, params, expected>>

-----------------------------------------------------------------------------

\* The compiled parameters, which main() also gives the controllers at boot.
Defaults ==
  [k \in Keys |-> CASE k \in {<<"Current", "_", "KP">>,
                               <<"Current", "_", "KI">>} -> 4
                    [] k = <<"Speed", "_", "KP">> -> 30
                    [] k = <<"Speed", "_", "KI">> -> 1
                    [] OTHER -> 0]

\* main() enters its loop; the host has sent nothing yet.
Init == /\ cmd = <<>> /\ sent = 0 /\ answered = TRUE /\ idle = FALSE
        /\ uart1_rx_buffer = [i \in 1..BufferSize |-> nul] /\ pos = 1
        /\ rx1_flag = FALSE /\ pc = "apply" /\ colon = 0 /\ name = <<>>
        /\ pid_params = [g \in Groups |-> Defaults]
        /\ set_flag = NoRequest
        /\ drive = [g \in Groups |-> Defaults]
        /\ expected = <<pid_params, drive>>

MainStep == \/ ApplySettings \/ CheckFlag \/ FindColon \/ CopyName \/ Store
            \/ Answer \/ ResetFlag

Next == NextCommand \/ Resend \/ Receive \/ USART1_IRQHandler \/ MainStep

\* The line and the processor go on, and a host that hears nothing retries.  It
\* need not have another command.
Fairness == /\ WF_vars(Receive) /\ WF_vars(USART1_IRQHandler)
            /\ WF_vars(MainStep) /\ WF_vars(Resend)

Spec == Init /\ [][Next]_vars

FairSpec == Spec /\ Fairness

-----------------------------------------------------------------------------
\* The type of every variable.
TypeOK == /\ cmd \in Commands \cup {<<>>} /\ sent \in 0..Len(cmd)
          /\ {answered, idle, rx1_flag} \subseteq BOOLEAN
          /\ uart1_rx_buffer \in [1..BufferSize -> Words \cup {nul}]
          /\ pos \in 1..BufferSize /\ colon \in 0..BufferSize
          /\ pc \in {"apply", "check", "colon", "name", "store", "answer", "reset"}
          /\ Len(name) < NameSize
          /\ pid_params \in [Groups -> [Keys -> Nat]]
          /\ set_flag \in [Groups -> [SetKeys -> 0..255]]
          /\ drive \in [Groups -> [Keys -> Nat]]

\* Every complete command the host has an answer to was executed as sent, once, in
\* order, and nothing else was, whatever incomplete commands have stored between
\* them: the rest of an older, longer command behind it in the buffer, or its value,
\* never takes part, and a lost command leaves no trace.
ExecutedAsSent == pc # "answer" => pid_params = expected[1]

\* The controllers get a parameter set when a complete SET command asks for it, all
\* of it, and never a parameter the host has sent since or has not released yet.
ReleasedAsAsked == pc = "check" => drive = expected[2]

\* What the answered commands have made: a value stored and not yet answered does
\* not count, a request answered and not yet applied does.
Made == IF pc = "answer" THEN expected ELSE Result

Service == INSTANCE CommandService
           WITH result <- Made,
                Boot <- <<[g \in Groups |-> Defaults], [g \in Groups |-> Defaults]>>

\* Seen from the host, every command is executed at one moment and exactly once,
\* whatever is lost or sent again, a complete one with its own effect, and the
\* controllers get what was handed over before another command can change it.
ServiceRefinement == Service!Spec

\* Every command is answered, although a command that arrives after the answer
\* to the last one and before main() resets rx1_flag is lost once.
EveryCommandAnswered == ~answered ~> answered
=============================================================================
