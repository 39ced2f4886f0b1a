----------------------------- MODULE MCReactor -----------------------------
(* Small instances of Reactor for TLC.                                       *)
EXTENDS Reactor, TLC

Symmetry == Permutations(Post) \cup Permutations(Local)
=============================================================================
