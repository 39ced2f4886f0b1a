---------------------------- MODULE KqueueTable ----------------------------
(* The kqueue backend (src/src/gwrl/event_kqueue.c): the filters the kernel  *)
(* keeps and the buffer kevent fills.                                        *)
(*                                                                           *)
(* A table t is a record of                                                  *)
(*   filt  for each source and GWRL_RD (EVFILT_READ), GWRL_WR (EVFILT_WRITE) *)
(*         "none", "on" or "off", as EV_ADD, EV_ENABLE, EV_DISABLE and       *)
(*         EV_DELETE leave it                                                *)
(*   max   maxkevents, the size of the buffer                                *)
EXTENDS Naturals, FiniteSets

KqueueInit(Src, count) ==
    [filt |-> [s \in Src |-> [f \in {"RD", "WR"} |-> "none"]], max |-> count]

\* gwrl_bkd_kevent for the filters of the flags f: what the kernel does.  It
\* refuses to enable or disable a filter it does not have.
Kevent(t, s, f, to) ==
    [t EXCEPT !.filt[s] = [g \in {"RD", "WR"} |->
        IF g \notin f THEN @[g]
        ELSE CASE to = "add"     -> "on"
               [] to = "addoff"  -> "off"
               [] to = "delete"  -> "none"
               [] to = "enable"  -> IF @[g] = "none" THEN @[g] ELSE "on"
               [] to = "disable" -> IF @[g] = "none" THEN @[g] ELSE "off"]]

\* gwrl_src_file_update_flags: the flags that are set, then those that are gone
KqueueUpdate(t, flags, s, f) ==
    Kevent(Kevent(t, s, f, "add"), s, flags[s] \ f, "addoff")

\* and a flag that is set enables the source
UpdatedFlags(f) == IF f \cap {"RD", "WR"} # {} THEN f \cup {"EN"} ELSE f

\* gwrl_bkd_src_add
KqueueAdd(t, flags, s) ==
    Kevent(t, s, flags[s], IF "EN" \in flags[s] THEN "add" ELSE "addoff")

\* gwrl_bkd_del_src, gwrl_bkd_enable_src, gwrl_bkd_disable_src
KqueueDel(t, flags, s) == Kevent(t, s, flags[s], "delete")
KqueueEnable(t, flags, s) == Kevent(t, s, flags[s], "enable")

\* Seeded fault: only the read filter is disabled.
DisableReadOnly(t, flags, s) == Kevent(t, s, flags[s] \ {"WR"}, "disable")

KqueueDisable(t, flags, s) == Kevent(t, s, flags[s], "disable")

\* gwrl_bkd_set_options: the buffer grows to the number of kevents asked for
KqueueOptions(t, count) == [t EXCEPT !.max = IF count > @ THEN count ELSE @]

\* The kevents the kernel could return: the end of a stream activates both
\* filters.
Active(t, ready) ==
    {k \in (DOMAIN t.filt) \X {"RD", "WR"} :
        /\ t.filt[k[1]][k[2]] = "on"
        /\ "hup" \in ready[k[1]] \/ (IF k[2] = "RD" THEN "in" ELSE "out") \in ready[k[1]]}

\* The kevents one call returns: as many as are asked for.
Returned(t, ready, count) ==
    {K \in SUBSET Active(t, ready) :
        /\ Cardinality(K) <= count
        /\ K # Active(t, ready) => Cardinality(K) = count}

\* gwrl_bkd_gather: one event for each kevent; EV_EOF is posted as GWRL_RD
KqueueGather(K, flags, ready) ==
    {e \in {[src   |-> k[1],
             flags |-> IF "RD" \in flags[k[1]] /\ ("hup" \in ready[k[1]] \/ k[2] = "RD")
                       THEN {"RD"} ELSE {k[2]} \cap flags[k[1]] \cap {"WR"}] : k \in K} :
        e.flags # {}}

KqueueWatched(t, s) == {f \in {"RD", "WR"} : t.filt[s][f] = "on"}
=============================================================================
