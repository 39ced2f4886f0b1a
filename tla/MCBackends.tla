---------------------------- MODULE MCBackends ----------------------------
(* A small instance of Backends for TLC.                                     *)
EXTENDS Backends

\* A socket that is read, and one that is written and at times read, the other
\* end of which goes away after it sent urgent data.
MCAsks == [s \in {2, 3} |-> IF s = 2 THEN {{"RD"}} ELSE {{"WR"}, {"RD", "WR"}}]
MCConds == [s \in {2, 3} |-> IF s = 2 THEN {{}, {"in"}} ELSE {{}, {"out"}, {"hup", "pri"}}]
=============================================================================
