------------------------------ MODULE Backends ------------------------------
(* File sources on the four backends of libgwrl: the operations of event.c   *)
(* that change a file source, each with what the backend does for it, and    *)
(* the gathering of events.  The backend is chosen when the reactor is       *)
(* created, as the build does.                                               *)
(*                                                                           *)
(* Sources are their descriptors, small numbers; no two sources share one.   *)
(* One of them is the read end of the wake pipe, which gwrl_wake_init adds   *)
(* and the client leaves alone.  Everything runs on the reactor thread; the  *)
(* system changes the descriptors at any time.                               *)
EXTENDS Integers, Sequences, SequencesExt, FiniteSets,
        PollTable, SelectTable, KqueueTable, EpollTable

CONSTANTS
    Src,     \* file sources, as their descriptors
    Wake,    \* the wake pipe
    Kinds,   \* backends: "poll", "select", "kqueue", "epoll"
    Count,   \* GWRL_POLLFD_COUNT, GWRL_KQUEUE_KEVENT_COUNT, GWRL_EPOLL_EVENT_COUNT
    Counts,  \* values the client gives these options
    Asks,    \* for each source, sets of GWRL_RD and GWRL_WR the client asks for
    Conds,   \* for each source, what its descriptor can be ready for
    MaxBad   \* descriptors closed at a time

\* Data or room waits, the other end is gone or failed, urgent data waits
Conditions == {"in", "out", "hup", "pri"}

ASSUME SrcAssumption == IsFiniteSet(Src) /\ Src \subseteq Nat /\ Wake \in Src
ASSUME KindAssumption == Kinds \subseteq {"poll", "select", "kqueue", "epoll"}
ASSUME CountAssumption == {Count} \cup Counts \subseteq Nat \ {0} /\ MaxBad \in Nat
ASSUME AskAssumption == \A s \in Src \ {Wake} :
    Asks[s] \subseteq SUBSET {"RD", "WR"} /\ Conds[s] \subseteq SUBSET Conditions

Flags == SUBSET {"EN", "RD", "WR"}
Client == Src \ {Wake}

VARIABLES
    kind,    \* the backend
    list,    \* rl->sources[GWRL_SRC_TYPE_FILE]
    flags,   \* src->flags
    tbl,     \* the backend's table
    count,   \* the option that sizes the table or the buffer
    off,     \* sources gwrl_src_disable has switched off
    fresh,   \* disabled sources added since the table was last calculated
    unclear, \* sources whose slot of the table was not initialised
    muted,   \* sources whose flags were updated while the backend did not look at them
    astray,  \* sources an operation on which wrote outside the poll table, or to a
             \* slot of another source
    ready,   \* conditions of the descriptors
    bad,     \* descriptors closed while their source is registered
    events,  \* the events posted by the last gathering
    hung     \* gwrl_bkd_gather does not return

sysVars == <<ready, bad>>
histVars == <<off, fresh, unclear, muted, astray>>
vars == <<kind, list, flags, tbl, count, histVars, sysVars, events, hung>>

Listed == ToSet(list)

TypeOK ==
    /\ kind \in Kinds /\ list \in Seq(Src) /\ flags \in [Src -> Flags]
    /\ Cardinality(Listed) = Len(list) /\ Wake \in Listed
    /\ count \in {Count} \cup Counts /\ off \subseteq Listed /\ fresh \subseteq Listed
    /\ unclear \subseteq Src /\ muted \subseteq Listed /\ astray \subseteq Src
    /\ ready \in [Src -> SUBSET Conditions]
    /\ bad \subseteq Listed /\ hung \in BOOLEAN
    /\ events \subseteq [src : Src, flags : SUBSET {"RD", "WR"}]

-----------------------------------------------------------------------------
(* The entry points of the backend, by kind.  Each gives the tables it can   *)
(* leave.                                                                    *)

\* on a closed descriptor the kernel refuses the change
Kernel(s, t) == {IF s \in bad THEN tbl ELSE t}

gwrl_bkd_src_add(fl, s) ==
    CASE kind = "poll"   -> PollAdd(tbl, fl, s, count)
      [] kind = "select" -> {SelectAdd(tbl, fl, s)}
      [] kind = "kqueue" -> {KqueueAdd(tbl, fl, s)}
      [] kind = "epoll"  -> {EpollCtl(tbl, fl, s, "ADD")}

gwrl_bkd_del_src(l, s) ==
    CASE kind = "poll"   -> PollDel(tbl, l, flags, s)
      [] kind = "select" -> SelectDel(tbl, l, flags, s)
      [] kind = "kqueue" -> Kernel(s, KqueueDel(tbl, flags, s))
      [] kind = "epoll"  -> Kernel(s, EpollCtl(tbl, flags, s, "DEL"))

gwrl_bkd_enable_src(fl, s) ==
    CASE kind = "poll"   -> gwrl_bkd_recalc_srcs(tbl, list, fl)
      [] kind = "select" -> SelectRecalc(tbl, list, fl)
      [] kind = "kqueue" -> Kernel(s, KqueueEnable(tbl, fl, s))
      [] kind = "epoll"  -> Kernel(s, EpollCtl(tbl, fl, s, "ADD"))

gwrl_bkd_disable_src(fl, s) ==
    CASE kind = "poll"   -> gwrl_bkd_recalc_srcs(tbl, list, fl)
      [] kind = "select" -> SelectRecalc(tbl, list, fl)
      [] kind = "kqueue" -> Kernel(s, KqueueDisable(tbl, fl, s))
      [] kind = "epoll"  -> Kernel(s, EpollCtl(tbl, fl, s, "DEL"))

gwrl_bkd_update_flags(s, f) ==
    CASE kind = "poll"   -> {PollUpdate(tbl, s, f)}
      [] kind = "select" -> {SetBits(tbl, s, f)}
      [] kind = "kqueue" -> Kernel(s, KqueueUpdate(tbl, flags, s, f))
      [] kind = "epoll"  -> Kernel(s, EpollCtl(tbl, [flags EXCEPT ![s] = f], s, "MOD"))

\* Slots whose memory was never written are or-ed into.
Unclear(t) ==
    IF kind = "poll" THEN {s \in Src : ~(PollWatched(t, s) \subseteq flags'[s])} ELSE {}

-----------------------------------------------------------------------------
(* gwrl_create and the operations of the client.                             *)

Init ==
    /\ kind \in Kinds /\ list = <<Wake>>
    /\ flags = [s \in Src |-> IF s = Wake THEN {"EN", "RD"} ELSE {}]
    /\ count = Count
    /\ tbl \in CASE kind = "poll"   -> PollAdd(PollInit(Src, Count), flags, Wake, Count)
                 [] kind = "select" -> {SelectAdd(SelectInit, flags, Wake)}
                 [] kind = "kqueue" -> {KqueueAdd(KqueueInit(Src, Count), flags, Wake)}
                 [] kind = "epoll"  -> {EpollCtl(EpollInit(Src, Count), flags, Wake, "ADD")}
    /\ off = {} /\ fresh = {} /\ unclear = {} /\ muted = {} /\ astray = {}
    /\ events = {} /\ hung = FALSE
    /\ ready = [s \in Src |-> {}] /\ bad = {}

\* A callback runs: the loop is not in gwrl_bkd_gather, and memory is sound.
Calling == events = {} /\ ~hung /\ astray = {}

\* gwrl_set_fd with an enabled source, gwpr_set_fd with a disabled one, or
\* gwrl_src_add of a source that was removed, which keeps its flags
Add(s, f) ==
    LET fl == [flags EXCEPT ![s] = f]
    IN  /\ Calling /\ s \in Client \ Listed
        /\ list' = <<s>> \o list /\ flags' = fl
        /\ tbl' \in gwrl_bkd_src_add(fl, s)
        /\ unclear' = Unclear(tbl')
        /\ fresh' = IF "EN" \in f THEN fresh ELSE fresh \cup {s}
        /\ UNCHANGED <<kind, count, off, muted, astray, sysVars, events, hung>>
gwrl_set_fd(s) == \E f \in Asks[s] : Add(s, f \cup {"EN"})
gwpr_set_fd(s) == Add(s, {"RD"})
gwrl_src_add(s) == Add(s, flags[s])

\* Registering the source again, or calculating the table, looks at s again.
Unmute(s) == muted' = IF kind = "select" THEN {} ELSE muted \ {s}

\* gwrl_src_remove, gwrl_src_del; kqueue also clears the flag.  What becomes of
\* the descriptor concerns nobody until it is added again.
gwrl_src_del(s) ==
    /\ Calling /\ s \in Client \cap Listed
    /\ list' \in InOrder(list, Listed \ {s})
    /\ flags' = IF kind = "kqueue" THEN [flags EXCEPT ![s] = @ \ {"EN"}] ELSE flags
    /\ tbl' \in gwrl_bkd_del_src(list', s)
    /\ unclear' = Unclear(tbl') /\ Unmute(s)
    /\ off' = off \ {s} /\ fresh' = {}
    /\ bad' = bad \ {s} /\ ready' = [ready EXCEPT ![s] = {}]
    /\ UNCHANGED <<kind, count, astray, events, hung>>

\* The poll table is not made to grow here: with more sources enabled than it has
\* slots, gwrl_bkd_recalc_srcs writes past its end.
gwrl_src_enable(s) ==
    /\ Calling /\ s \in Client \cap Listed
    /\ flags' = [flags EXCEPT ![s] = @ \cup {"EN"}]
    /\ tbl' \in gwrl_bkd_enable_src(flags', s)
    /\ astray' = IF kind = "poll" /\ Len(tbl'.fds) > tbl.max THEN {s} ELSE {}
    /\ unclear' = Unclear(tbl') /\ Unmute(s)
    /\ off' = off \ {s} /\ fresh' = {}
    /\ UNCHANGED <<kind, list, count, sysVars, events, hung>>

gwrl_src_disable(s) ==
    /\ Calling /\ s \in Client \cap Listed
    /\ flags' = [flags EXCEPT ![s] = @ \ {"EN"}]
    /\ tbl' \in gwrl_bkd_disable_src(flags', s)
    /\ unclear' = Unclear(tbl') /\ Unmute(s)
    /\ off' = off \cup {s} /\ fresh' = {}
    /\ UNCHANGED <<kind, list, count, astray, sysVars, events, hung>>

\* epoll has no descriptor that gwrl_src_disable took out, and select looks no
\* further than the highest that was enabled when it was calculated.
Unpolled(s) ==
    \/ kind = "epoll" /\ s \in off
    \/ kind = "select" /\ "EN" \notin flags[s] /\ s \notin fresh

\* The flags given, of which kqueue makes an enabled source: the proactor keeps
\* GWRL_ENABLED or sets it.  The poll backend writes through src->pfd, whatever
\* it points to.
gwrl_src_file_update_flags(s, ask) ==
    LET f == ask \cup {"EN"}
    IN  /\ Calling /\ s \in Client \cap Listed
        /\ flags' = [flags EXCEPT ![s] = IF kind = "kqueue" THEN UpdatedFlags(f) ELSE f]
        /\ tbl' \in gwrl_bkd_update_flags(s, f)
        /\ astray' = IF kind = "poll" /\ ~OwnsSlot(tbl, s) THEN {s} ELSE {}
        /\ muted' = IF Unpolled(s) THEN muted \cup {s} ELSE muted
        /\ unclear' = Unclear(tbl')
        /\ off' = off \ {s} /\ fresh' = fresh \ {s}
        /\ UNCHANGED <<kind, list, count, sysVars, events, hung>>

\* gwrl_set_options copies the options before it calls the backend, so that the
\* poll backend never sees a difference
gwrl_set_options(n) ==
    /\ Calling /\ count' = n
    /\ tbl' = CASE kind \in {"poll", "select"} -> tbl
                [] kind = "kqueue" -> KqueueOptions(tbl, n)
                [] kind = "epoll"  -> EpollOptions(tbl, n)
    /\ UNCHANGED <<kind, list, flags, histVars, sysVars, events, hung>>

-----------------------------------------------------------------------------
(* The system and the loop.                                                  *)

Condition(s) ==
    /\ \E c \in Conds[s] : c # ready[s] /\ ready' = [ready EXCEPT ![s] = c]
    /\ s \in Listed \ bad /\ Calling
    /\ UNCHANGED <<kind, list, flags, tbl, count, histVars, bad, events, hung>>

\* The client closes a descriptor before it removes the source: the kernel
\* forgets it.
Close(s) ==
    /\ Calling /\ s \in (Client \cap Listed) \ bad /\ Cardinality(bad) < MaxBad
    /\ bad' = bad \cup {s} /\ ready' = [ready EXCEPT ![s] = {}]
    /\ tbl' = CASE kind \in {"poll", "select"} -> tbl
                [] kind = "kqueue" -> KqueueDel(tbl, [flags EXCEPT ![s] = {"RD", "WR"}], s)
                [] kind = "epoll"  -> EpollCtl(tbl, flags, s, "DEL")
    /\ UNCHANGED <<kind, list, flags, count, histVars, events, hung>>

\* The loop calls gwrl_bkd_gather of the backend k.
Gathering(k) ==
    kind = k /\ Calling /\ UNCHANGED <<kind, list, count, muted, astray, sysVars>>
\* Only the poll backend changes more than what it posts.
Quiet == UNCHANGED <<flags, tbl, off, fresh, unclear>>
Post(E) == E # {} /\ events' = E /\ UNCHANGED hung
Hang == hung' = TRUE /\ UNCHANGED events

GatherPoll ==
    LET g == PollGather(tbl, flags, ready, bad)
    IN  /\ Gathering("poll") /\ Post(g.events)
        /\ flags' = [s \in Src |-> IF s \in g.disabled THEN flags[s] \ {"EN"} ELSE flags[s]]
        /\ off' = off \cup g.disabled
        /\ IF g.disabled = {} THEN UNCHANGED <<tbl, fresh, unclear>>
           ELSE /\ tbl' \in gwrl_bkd_recalc_srcs(tbl, list, flags')
                /\ fresh' = {} /\ unclear' = Unclear(tbl')

GatherSelect ==
    /\ Gathering("select") /\ Quiet /\ ~SelectFails(tbl, bad)
    /\ Post(SelectGather(tbl, list, flags, ready))

\* EBADF: the search for the closed descriptor goes from the first source to the
\* second and never on, and the wake pipe is always there
FindBadfd == Gathering("select") /\ Quiet /\ SelectFails(tbl, bad) /\ Hang

\* a kevent of a disabled source keeps the loop where it is
GatherKqueue ==
    /\ Gathering("kqueue") /\ Quiet
    /\ \E K \in Returned(tbl, ready, count) :
        IF \E k \in K : "EN" \notin flags[k[1]] THEN Hang
        ELSE Post(KqueueGather(K, flags, ready))

GatherEpoll ==
    /\ Gathering("epoll") /\ Quiet
    /\ \E W \in Waited(tbl, ready) : Post(EpollGather(W, flags, ready))

gwrl_bkd_gather == GatherPoll \/ GatherSelect \/ FindBadfd \/ GatherKqueue \/ GatherEpoll

gwrl_dispatch ==
    /\ events # {} /\ events' = {}
    /\ UNCHANGED <<kind, list, flags, tbl, count, histVars, sysVars, hung>>

\* The loop does not go on, or memory was overwritten and nothing is claimed.
Ended == (hung \/ astray # {}) /\ UNCHANGED vars

Operation ==
    \/ \E s \in Client :
        \/ gwrl_set_fd(s) \/ gwpr_set_fd(s) \/ gwrl_src_add(s) \/ gwrl_src_del(s)
        \/ gwrl_src_enable(s) \/ gwrl_src_disable(s) \/ Close(s)
        \/ \E ask \in Asks[s] : gwrl_src_file_update_flags(s, ask)
    \/ \E n \in Counts : gwrl_set_options(n)

Next ==
    \/ Operation \/ (\E s \in Client : Condition(s))
    \/ gwrl_bkd_gather \/ gwrl_dispatch \/ Ended

\* A gathering that reports s, whose descriptor is ready or closed.
Reports(s) ==
    /\ ready[s] # {} \/ s \in bad
    /\ gwrl_bkd_gather /\ \E e \in events' : e.src = s

(* The loop runs, and the kernel does not pass a ready descriptor over for    *)
(* ever when the buffer is too small for all.  The client need not call       *)
(* anything, nor need descriptors become ready.                               *)
Spec ==
    /\ Init /\ [][Next]_vars
    /\ WF_vars(gwrl_dispatch) /\ WF_vars(gwrl_bkd_gather)
    /\ \A s \in Client : SF_vars(Reports(s))

-----------------------------------------------------------------------------

Watched(s) ==
    CASE kind = "poll"   -> PollWatched(tbl, s)
      [] kind = "select" -> SelectWatched(tbl, s)
      [] kind = "kqueue" -> KqueueWatched(tbl, s)
      [] kind = "epoll"  -> tbl.interest[s]

(* The system watches an enabled source for exactly the flags it asks for,    *)
(* and one that is not registered or is disabled for nothing; the poll table  *)
(* fits its array and leads every enabled source to its own slot; kevent is   *)
(* given no more room than there is.  Five cases where the code does not keep *)
(* this are named: the poll table may watch for more where its memory was not *)
(* initialised (unclear); select keeps the bits of a disabled source; epoll   *)
(* and select pass over a source whose flags were updated while it was        *)
(* disabled (muted); and nothing is claimed once the poll backend wrote       *)
(* through the pointer of a source into an array that moved or to a slot it   *)
(* no longer has, or enabled more sources than the array has room for         *)
(* (astray).                                                                  *)
KernelSeesFlags == astray = {} =>
    /\ \A s \in Src :
        /\ (s \in Listed \ bad /\ "EN" \in flags[s]) =>
              /\ flags[s] \cap {"RD", "WR"} \subseteq Watched(s) \/ s \in muted
              /\ Watched(s) \subseteq flags[s] \/ s \in unclear
        /\ (s \notin Listed \/ (s \in off /\ kind # "select")) => Watched(s) = {}
    /\ kind = "poll" => PollSound(tbl, list, flags)
    /\ kind = "kqueue" => count <= tbl.max

W == INSTANCE Watcher WITH registered <- Listed, posted <- events

(* Every backend does what the reactor expects of one: it posts events only   *)
(* of registered sources that are not switched off, and only for conditions   *)
(* that hold: those asked for, a hang-up or an error as GWRL_RD or as a flag  *)
(* asked for, and urgent data as GWRL_RD asked for or not.  That errors come  *)
(* as GWRL_RD and no other way (doc.pod:371-376) is not claimed: select posts *)
(* GWRL_WR for the error of a source that is only written, epoll nothing.     *)
Implements == W!Spec

\* A condition s asks for, or an error: the epoll backend posts nothing for a
\* hang-up.
Due(s) ==
    /\ s \in (Listed \ bad) \ muted /\ "EN" \in flags[s]
    /\ \/ "in" \in ready[s] /\ "RD" \in flags[s]
       \/ "out" \in ready[s] /\ "WR" \in flags[s]
       \/ "hup" \in ready[s] /\ "RD" \in flags[s] /\ kind # "epoll"

(* A condition that lasts is reported, however many descriptors are ready and *)
(* however small the buffer, unless the search of the select backend for a    *)
(* closed descriptor hangs or the poll backend wrote astray: no other         *)
(* gathering fails to return.                                                 *)
ReadyIsReported ==
    \A s \in Client :
        []<>(\/ ~Due(s) \/ (\E e \in events : e.src = s)
             \/ (hung /\ kind = "select" /\ bad # {}) \/ astray # {})
=============================================================================
