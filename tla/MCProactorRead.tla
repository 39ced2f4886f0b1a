-------------------------- MODULE MCProactorRead ---------------------------
(* Small instances of ProactorRead for TLC.                                  *)
EXTENDS ProactorRead
=============================================================================
