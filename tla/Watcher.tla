------------------------------ MODULE Watcher ------------------------------
(* What the reactor expects of a backend, whichever system call it is built  *)
(* on: file sources are registered and change their flags, and a gathering   *)
(* posts events of registered sources that have not been disabled, for       *)
(* conditions that hold and that the source asked for.  Hang-ups, errors and *)
(* urgent data may come as GWRL_RD, asked for or not.                        *)
EXTENDS FiniteSets

CONSTANT Src

VARIABLES
    registered,  \* sources in rl->sources[GWRL_SRC_TYPE_FILE]
    flags,       \* src->flags
    off,         \* registered sources that gwrl_src_disable switched off
    unclear,     \* sources that may be reported for conditions not asked for
    ready,       \* what the system could report of each descriptor
    bad,         \* descriptors that are closed
    posted       \* events of the last gathering: [src, flags]

vars == <<registered, flags, off, unclear, ready, bad, posted>>

Init ==
    /\ registered \subseteq Src /\ flags \in [Src -> SUBSET {"EN", "RD", "WR"}]
    /\ off = {} /\ unclear = {} /\ bad = {} /\ posted = {}
    /\ ready = [s \in Src |-> {}]

\* The conditions of s an event may be posted for.
Deserved(s) ==
    {f \in {"RD", "WR"} :
        \/ f = "RD" /\ (ready[s] \cap {"hup", "pri"} # {} \/ s \in bad)
        \/ f \in flags[s] /\ ready[s] \cap {"hup", IF f = "RD" THEN "in" ELSE "out"} # {}}

\* A source is added, or taken away with its descriptor.
Register(s) ==
    /\ s \notin registered
    /\ registered' = registered \cup {s} /\ off' = off \ {s}
    /\ \E f \in SUBSET {"EN", "RD", "WR"} : flags' = [flags EXCEPT ![s] = f]
    /\ unclear' \subseteq unclear \cup {s}
    /\ UNCHANGED <<ready, bad, posted>>
Unregister(s) ==
    /\ s \in registered
    /\ registered' = registered \ {s} /\ off' = off \ {s}
    /\ \E f \in {flags[s], flags[s] \ {"EN"}} : flags' = [flags EXCEPT ![s] = f]
    /\ unclear' \subseteq unclear
    /\ bad' = bad \ {s} /\ ready' = [ready EXCEPT ![s] = {}]
    /\ UNCHANGED posted

\* Other flags, or switched on or off.
Change(s) ==
    /\ s \in registered
    /\ \E f \in SUBSET {"EN", "RD", "WR"} : flags' = [flags EXCEPT ![s] = f]
    /\ off' \in {off \cup {s}, off \ {s}}
    /\ s \in off' => "EN" \notin flags'[s]
    /\ unclear' \subseteq registered
    /\ UNCHANGED <<registered, ready, bad, posted>>

\* The system: descriptors become ready or are closed and opened.
System ==
    /\ ready' \in [Src -> SUBSET {"in", "out", "hup", "pri"}] /\ bad' \subseteq Src
    /\ UNCHANGED <<registered, flags, off, unclear, posted>>

\* A closed descriptor may be switched off when it is reported.
Gather ==
    /\ posted = {}
    /\ \A e \in posted' :
        /\ e.src \in registered \ off /\ e.flags # {}
        /\ e.flags \subseteq Deserved(e.src) \/ e.src \in unclear
    /\ off \subseteq off' /\ off' \ off \subseteq bad
    /\ flags' = [s \in Src |-> IF s \in off' \ off THEN flags[s] \ {"EN"} ELSE flags[s]]
    /\ unclear' \subseteq unclear
    /\ UNCHANGED <<registered, ready, bad>>

Dispatch == posted' = {} /\ UNCHANGED <<registered, flags, off, unclear, ready, bad>>

Next ==
    \/ \E s \in Src : Register(s) \/ Unregister(s) \/ Change(s)
    \/ System \/ Gather \/ Dispatch

Spec == Init /\ [][Next]_vars
=============================================================================
