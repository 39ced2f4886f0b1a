---------------------------- MODULE MCEventCache ----------------------------
(* Small instances of EventCache for TLC.                                    *)
EXTENDS EventCache, TLC

\* After a race nothing is claimed, so the run does not follow it further.
Unraced == ~raced
Symmetry == Permutations(Cell) \cup Permutations(Thread \ {RL})
=============================================================================
