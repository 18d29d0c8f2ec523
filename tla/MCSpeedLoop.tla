---------------------------- MODULE MCSpeedLoop ----------------------------
(***************************************************************************)
(* SpeedLoop for TLC: two settings with proportional and mixed gains.      *)
(***************************************************************************)
EXTENDS SpeedLoop

HostSettings == {[speed |-> 0, kp |-> 1, ki |-> 1],
                 [speed |-> 1, kp |-> 2, ki |-> 0]}
=============================================================================
