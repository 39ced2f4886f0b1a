---------------------------- MODULE SelectTable ----------------------------
(* The select backend (src/src/gwrl/event_select.c): the descriptor sets     *)
(* select is called with and the highest descriptor.                         *)
(*                                                                           *)
(* A table t is a record of                                                  *)
(*   rd, wr, ex  src[0], src[1] and src[2], for exceptional conditions       *)
(*   maxfd       -1 when there is none                                       *)
EXTENDS Integers, Sequences, SequencesExt

SelectInit == [rd |-> {}, wr |-> {}, ex |-> {}, maxfd |-> -1]

\* FD_CLR of all sets, then FD_SET by flags, and of the third set always:
\* gwrl_src_file_update_flags
SetBits(t, s, f) ==
    [t EXCEPT !.rd = IF "RD" \in f THEN @ \cup {s} ELSE @ \ {s},
              !.wr = IF "WR" \in f THEN @ \cup {s} ELSE @ \ {s},
              !.ex = @ \cup {s}]

\* gwrl_bkd_recalc_srcs: the highest descriptor of an enabled source.  The bits
\* of a disabled source stay.
SelectRecalc(t, list, flags) ==
    LET on == {s \in ToSet(list) : "EN" \in flags[s]}
    IN  {[t EXCEPT !.maxfd = m] : m \in {m \in on \cup {-1} : \A s \in on : s <= m}}

\* gwrl_bkd_src_add, enabled or not
SelectAdd(t, flags, s) ==
    [SetBits(t, s, flags[s]) EXCEPT !.maxfd = IF s > @ THEN s ELSE @]

\* gwrl_bkd_del_src, after the source is unlinked
SelectDel(t, list, flags, s) ==
    SelectRecalc([t EXCEPT !.rd = @ \ {s}, !.wr = @ \ {s}, !.ex = @ \ {s}], list, flags)

\* What select looks at.
SelectWatched(t, s) ==
    {f \in {"RD", "WR"} : s <= t.maxfd /\ s \in IF f = "RD" THEN t.rd ELSE t.wr}

\* EBADF: a closed descriptor is in one of the sets.
SelectFails(t, bad) == \E s \in bad : s <= t.maxfd /\ s \in t.rd \cup t.wr \cup t.ex

\* Exceptional condition of a descriptor in the third set
Exceptional(t, s, ready) == s <= t.maxfd /\ s \in t.ex /\ "pri" \in ready[s]

\* The event of a source for the bits select leaves in its copies of the sets: an
\* error leaves those of the first two, urgent data that of the third, which is
\* posted as GWRL_RD.
SelectEvent(t, s, ready) ==
    [src   |-> s,
     flags |-> {f \in SelectWatched(t, s) :
                   ready[s] \cap {"hup", IF f = "RD" THEN "in" ELSE "out"} # {}}
               \cup (IF Exceptional(t, s, ready) THEN {"RD"} ELSE {})]

\* Seeded fault: disabled sources, whose bits are still set, are not passed over.
GathersDisabled(t, list, flags, ready) ==
    {e \in {SelectEvent(t, s, ready) : s \in ToSet(list)} : e.flags # {}}

\* gwrl_bkd_gather: the events of the enabled sources in the list
SelectGather(t, list, flags, ready) ==
    {e \in {SelectEvent(t, s, ready) : s \in {s \in ToSet(list) : "EN" \in flags[s]}} :
        e.flags # {}}
=============================================================================
