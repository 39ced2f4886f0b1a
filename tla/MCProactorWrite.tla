-------------------------- MODULE MCProactorWrite --------------------------
(* Small instances of ProactorWrite for TLC.                                 *)
EXTENDS ProactorWrite

CONSTANTS s1, s2

\* Many writes queued on one descriptor that takes a buffer whole or not at all.
Pipeliner ==
    [src |-> {s1}, len |-> 1, writes |-> 6, dels |-> 0, cache |-> 7, sync |-> {FALSE},
     partial |-> FALSE, pipelined |-> TRUE, inCallback |-> FALSE]
\* One write at a time, synchronous or queued, with every outcome.
OneAtATime ==
    [src |-> {s1}, len |-> 3, writes |-> 3, dels |-> 1, cache |-> 2, sync |-> BOOLEAN,
     partial |-> TRUE, pipelined |-> FALSE, inCallback |-> TRUE]
\* Two sources that share the cell cache.
TwoSources ==
    [src |-> {s1, s2}, len |-> 2, writes |-> 3, dels |-> 0, cache |-> 1, sync |-> BOOLEAN,
     partial |-> TRUE, pipelined |-> FALSE, inCallback |-> TRUE]
\* Queued writes with partial writes in between.
PartialPipeliner ==
    [src |-> {s1}, len |-> 2, writes |-> 4, dels |-> 0, cache |-> 9, sync |-> {FALSE},
     partial |-> TRUE, pipelined |-> TRUE, inCallback |-> FALSE]

\* A synchronous write that takes a part.
SyncPartial ==
    [src |-> {s1}, len |-> 2, writes |-> 2, dels |-> 0, cache |-> 2, sync |-> BOOLEAN,
     partial |-> TRUE, pipelined |-> FALSE, inCallback |-> TRUE]

MCClients == {Pipeliner, OneAtATime, TwoSources}
MCPartialClients == {PartialPipeliner}
MCShortClients == {SyncPartial}
=============================================================================
