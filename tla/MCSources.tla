----------------------------- MODULE MCSources -----------------------------
(* Small instances of Sources for TLC.                                       *)
EXTENDS Sources

\* Calls from callbacks over four ticks; with another thread, over two.
MCClients == {[threads |-> FALSE, ops |-> 3, time |-> 4],
              [threads |-> TRUE, ops |-> 3, time |-> 2]}
\* One thread over three ticks.
MCPurgeClients == {[threads |-> FALSE, ops |-> 3, time |-> 3]}
=============================================================================
