----------------------------- MODULE PollTable -----------------------------
(* The poll backend (src/src/gwrl/event_poll.c): the array of struct pollfd  *)
(* that poll is called with, the lookup from descriptor to source, and the   *)
(* pointer of each source into the array.                                    *)
(*                                                                           *)
(* A table t is a record of                                                  *)
(*   fds    the first nfds slots: [fd, events]                               *)
(*   max    maxnfds, the slots allocated                                     *)
(*   clean  slots known to be initialised: realloc does not zero its memory  *)
(*   lkp    lkp_src: sources the descriptor of which is looked up            *)
(*   pfd    src->pfd as the index of a slot, 0 for NULL and for a pointer    *)
(*          to a slot taken from the source when it was disabled             *)
(*   lost   sources whose pfd points into an array that realloc has freed    *)
(* lkp_src is one slot for each descriptor up to the highest: realloc is      *)
(* asked for a few bytes less and zeroes none, but only entries that were set *)
(* are read, and the allocator rounds the size up.                            *)
(* Sources are their descriptors.  The operations give the set of tables they *)
(* can leave behind.                                                         *)
EXTENDS Naturals, FiniteSets, Sequences, SequencesExt

Ask(f) == f \cap {"RD", "WR"}

PollInit(Src, count) ==
    [fds |-> <<>>, max |-> count, clean |-> count, lkp |-> {},
     pfd |-> [s \in Src |-> 0], lost |-> {}]

\* The slots in use are zeroed and those of the sources in the sequence on are
\* filled, in that order.  Events are or-ed into what a slot holds.
Filled(t, on, flags) ==
    LET zeroed == IF Len(t.fds) > t.clean THEN Len(t.fds) ELSE t.clean
    IN  {[t EXCEPT !.fds = [i \in 1..Len(on) |->
                               [fd     |-> on[i],
                                events |-> Ask(flags[on[i]]) \cup
                                           (IF i > zeroed THEN old[i] ELSE {})]],
                   !.pfd = [s \in DOMAIN @ |-> IF s \in ToSet(on)
                                               THEN CHOOSE i \in 1..Len(on) : on[i] = s ELSE 0],
                   !.lost = {}, !.clean = zeroed] :
            old \in [{i \in 1..Len(on) : i > zeroed} -> SUBSET {"RD", "WR"}]}

\* The sources in S as the list rl->sources orders them.
InOrder(list, S) ==
    {q \in [1..Cardinality(S) -> S] :
        /\ ToSet(q) = S
        /\ \A i, j \in DOMAIN q : i < j =>
              \E k, l \in DOMAIN list : k < l /\ list[k] = q[i] /\ list[l] = q[j]}

\* Seeded fault: disabled sources are kept in the table.
RecalcAll(t, list, flags) == Filled(t, list, flags)

\* gwrl_bkd_recalc_srcs: the enabled sources, in the order of the list, however
\* many: the array does not grow.
gwrl_bkd_recalc_srcs(t, list, flags) ==
    UNION {Filled(t, on, flags) : on \in InOrder(list, {s \in ToSet(list) : "EN" \in flags[s]})}

\* A full table grows by options.gwrl_pollfd_count, and realloc may move it, away
\* from what every pfd points to.
Grown(t, count) ==
    IF Len(t.fds) # t.max THEN {t}
    ELSE {[t EXCEPT !.max = @ + count, !.lost = moved] : moved \in {t.lost, t.lkp}}

\* gwrl_bkd_src_add: the next slot is taken, whether the source is enabled or not.
\* Its events are or-ed into what the slot holds.
PollAdd(t, flags, s, count) ==
    LET n == Len(t.fds) + 1
    IN  UNION {{[g EXCEPT !.pfd[s] = n, !.lost = @ \ {s}, !.lkp = @ \cup {s},
                          !.fds = Append(@, [fd |-> s, events |-> Ask(flags[s]) \cup old])] :
                   old \in IF n <= t.clean THEN {{}} ELSE SUBSET {"RD", "WR"}} :
               g \in Grown(t, count)}

\* gwrl_bkd_del_src, after the source is unlinked
PollDel(t, list, flags, s) ==
    gwrl_bkd_recalc_srcs([t EXCEPT !.lkp = @ \ {s}], list, flags)

\* The pointer of s leads to its own slot.
OwnsSlot(t, s) ==
    s \notin t.lost /\ t.pfd[s] \in 1..Len(t.fds) /\ t.fds[t.pfd[s]].fd = s

\* gwrl_src_file_update_flags writes through pfd: what a write elsewhere changes
\* is not followed.
PollUpdate(t, s, f) ==
    IF OwnsSlot(t, s) THEN [t EXCEPT !.fds[t.pfd[s]].events = Ask(f)] ELSE t

\* The condition poll sets in revents, and the flags of the event posted for it.
Revents(slot, ready, bad) ==
    {c \in ready[slot.fd] : \/ c = "hup"
                            \/ c = "in" /\ "RD" \in slot.events
                            \/ c = "out" /\ "WR" \in slot.events}
    \cup (IF slot.fd \in bad THEN {"nval"} ELSE {})
NewFlags(rev) ==
    (IF rev \cap {"in", "hup", "nval"} # {} THEN {"RD"} ELSE {})
    \cup (IF "out" \in rev THEN {"WR"} ELSE {})

\* gwrl_bkd_gather walks the slots.  A closed descriptor is reported and its
\* source disabled, which zeroes the table under the walk: what comes behind it
\* waits for the next gathering.  The events, and the sources disabled.
PollGather(t, flags, ready, bad) ==
    LET On(i)  == "EN" \in flags[t.fds[i].fd]
        Dead   == {i \in 1..Len(t.fds) : On(i) /\ t.fds[i].fd \in bad}
        walked == {i \in 1..Len(t.fds) : On(i) /\ \A j \in Dead : i <= j}
    IN  [events   |-> {e \in {[src   |-> t.fds[i].fd,
                               flags |-> IF i \in Dead THEN {"RD"}
                                         ELSE NewFlags(Revents(t.fds[i], ready, bad))] :
                              i \in walked} : e.flags # {}},
         disabled |-> {t.fds[i].fd : i \in walked \cap Dead}]

\* The flags for which the system watches s.
PollWatched(t, s) == UNION {t.fds[i].events : i \in {i \in 1..Len(t.fds) : t.fds[i].fd = s}}

\* The slots fit the array and are those of registered sources, and every enabled
\* source has a slot of its own, to which its pointer leads unless it is lost.
PollSound(t, list, flags) ==
    /\ Len(t.fds) <= t.max
    /\ \A i \in 1..Len(t.fds) : t.fds[i].fd \in t.lkp \cap ToSet(list)
    /\ \A s \in ToSet(list) :
        /\ "EN" \in flags[s] => OwnsSlot(t, s) \/ s \in t.lost
        /\ t.pfd[s] # 0 => t.pfd[s] \in 1..Len(t.fds) /\ t.fds[t.pfd[s]].fd = s
=============================================================================
