--------------------------- MODULE MCCurrentLoop ---------------------------
(***************************************************************************)
(* CurrentLoop for TLC: one reading with current in the motor, and two     *)
(* settings with proportional and mixed gains.                             *)
(***************************************************************************)
EXTENDS CurrentLoop

LoadedReadings == {<<3000, 1000>>}

HostSettings == {[id |-> 0, iq |-> 0, kp |-> 1, ki |-> 1],
                 [id |-> 1, iq |-> 1, kp |-> 2, ki |-> 0]}
=============================================================================
