----------------------------- MODULE EpollTable -----------------------------
(* The epoll backend (src/src/gwrl/event_epoll.c): the kernel's interest     *)
(* list and the buffer epoll_wait fills.                                     *)
(*                                                                           *)
(* A table t is a record of                                                  *)
(*   interest  for each source in the list the flags asked for, {} for the   *)
(*             rest                                                          *)
(*   in        sources in the list                                           *)
(*   max       maxnpevents                                                   *)
EXTENDS Naturals, FiniteSets

EpollInit(Src, count) == [interest |-> [s \in Src |-> {}], in |-> {}, max |-> count]

\* gwrl_bkd_epoll_ctl.  EEXIST of ADD and ENOENT of MOD and DEL are ignored.
EpollCtl(t, flags, s, op) ==
    LET ask == flags[s] \cap {"RD", "WR"}
    IN  IF op = "ADD" /\ s \notin t.in
        THEN [t EXCEPT !.in = @ \cup {s}, !.interest[s] = ask]
        ELSE IF op = "MOD" /\ s \in t.in THEN [t EXCEPT !.interest[s] = ask]
        ELSE IF op = "DEL" THEN [t EXCEPT !.in = @ \ {s}, !.interest[s] = {}]
        ELSE t

\* gwrl_bkd_set_options
EpollOptions(t, count) == [t EXCEPT !.max = IF count > @ THEN count ELSE @]

\* What epoll_wait could return.  A hang-up is reported asked for or not.
Signalled(t, ready) ==
    {s \in t.in : \/ "hup" \in ready[s]
                  \/ "in" \in ready[s] /\ "RD" \in t.interest[s]
                  \/ "out" \in ready[s] /\ "WR" \in t.interest[s]}
Waited(t, ready) ==
    {W \in SUBSET Signalled(t, ready) :
        /\ Cardinality(W) <= t.max
        /\ W # Signalled(t, ready) => Cardinality(W) = t.max}

\* Seeded fault: the flags of the source are posted, GWRL_ENABLED among them.
PostsSourceFlags(W, flags, ready) == {[src |-> s, flags |-> flags[s]] : s \in W}

\* gwrl_bkd_gather: GWRL_ENABLED is not looked at, nor is EPOLLHUP, which is all
\* the reader of a pipe gets when the writer is gone
EpollGather(W, flags, ready) ==
    {e \in {[src   |-> s,
             flags |-> {f \in flags[s] \cap {"RD", "WR"} :
                           (IF f = "RD" THEN "in" ELSE "out") \in ready[s]}] : s \in W} :
        e.flags # {}}
=============================================================================
