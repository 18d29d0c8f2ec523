--------------------------- MODULE CommandService ---------------------------
(***************************************************************************)
(* What the firmware promises a host that sends a command and waits for    *)
(* the answer.  Commands are executed one at a time, each at one moment    *)
(* between its sending and its answer and exactly once, on what the last   *)
(* one left; the controllers then get what the commands have handed over,  *)
(* all of it and nothing else, before the next command is executed.        *)
(* Buffers, flags and parsing do not appear (module HostCommand).          *)
(***************************************************************************)
CONSTANTS Commands,
          Executes(_, _, _), \* a command may make the second result of the first
          Boot               \* the result before any command

VARIABLES cmd,      \* the command sent last
          answered,
          result,   \* <<the parameters, those handed over>>
          drive     \* what the controllers use

serviceVars == <<cmd, answered, result, drive>>

Init == /\ answered = TRUE
        /\ result = Boot /\ drive = Boot[2]

Send == /\ answered
        /\ cmd' \in Commands /\ answered' = FALSE
        /\ UNCHANGED <<result, drive>>

Execute == /\ ~answered /\ drive = result[2]
           /\ Executes(cmd, result, result') /\ answered' = TRUE
           /\ UNCHANGED <<cmd, drive>>

HandOver == /\ drive' = result[2]
            /\ UNCHANGED <<cmd, answered, result>>

Next == Send \/ Execute \/ HandOver

Spec == Init /\ [][Next]_serviceVars
=============================================================================
