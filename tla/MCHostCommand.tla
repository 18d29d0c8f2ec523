--------------------------- MODULE MCHostCommand ---------------------------
(***************************************************************************)
(* HostCommand for TLC.  Every command may follow every other one, so that *)
(* each is parsed before the rest of all the others.                       *)
(***************************************************************************)
EXTENDS HostCommand

\* A parameter of each group; the second with a digit behind the group, which is
\* cut off, and a blank before the number.
Parameters == {<<"Iq", "_", "2", ":", "7", "nl">>,
               <<"Speed", "_", "1", "2", ":", " ", "5", "0", "nl">>}

\* Requests to hand a set over; the first with some text behind the group.
Requests == {<<"Speed", "_", "SET", "_", "1", "text", ":", "0", "nl">>,
             <<"Current", "_", "SET", "_", "2", ":", "0", "nl">>}

\* No such group, and a name that is too long.
Refused == {<<"Speed", "_", "3", ":", "4", "nl">>,
            <<"Speed", "_", "KP", "_", "KI", "_", "1", ":", "1", "nl">>}

\* No number, and no colon either.  Behind the second parameter the first one
\* takes its number; behind the first request the second one takes its colon and
\* its number, and releases a set.
Incomplete == {<<"Iq", "_", "2", ":", "nl">>,
               <<"Speed", "_", "SET", "_", "1", "nl">>}

HostCommands == Parameters \cup Requests \cup Refused \cup Incomplete
=============================================================================
