------------------------------ MODULE Sources ------------------------------
(* The input sources of a reactor (src/src/gwrl/event.c): the linked lists   *)
(* rl->sources[FILE] and rl->sources[TIME], the queue rl->_qsrc that other   *)
(* threads add sources to, and gwrl_time_gather, which turns expired time    *)
(* sources into events and computes how long the backend may sleep.          *)
(*                                                                           *)
(* Sources are heap cells linked through src->next; the fields of a freed    *)
(* cell are reset.  The clock advances between any two steps of the reactor, *)
(* in ticks that may be shorter than the millisecond of the wait of epoll and *)
(* poll; expiries and timeouts are the timespecs of the code.                *)
EXTENDS Sequences, FiniteSets, GwTime, HeapLists

CONSTANTS
    Timer,       \* cells for time sources
    File,        \* cells for the file sources of the client
    Wake,        \* the file source of the wake pipe, registered by gwrl_create
    NULL,        \* the null pointer
    Ms,          \* the durations clients use
    StartUs,     \* the clock at the start, in microseconds
    TickUs,      \* microseconds per tick
    Backend,     \* whose wait is used: "epoll", "poll", "select" or "kqueue"
    Clients,     \* the clients to consider: records of
                 \*   threads  other threads call gwrl_src_add_safely
                 \*   ops      bound: calls the client makes
                 \*   time     bound: the clock stops after this many ticks
    CarefulPurge \* BOOLEAN: gwrl_del_persistent_timeouts is called only when
                 \* the last source of the list is the one source to delete

Src == Timer \cup File \cup {Wake}

ASSUME CellAssumption ==
    /\ NULL \notin Src /\ Wake \notin Timer \cup File /\ Timer \cap File = {}
    /\ IsFiniteSet(Src)
ASSUME BoundAssumption ==
    Ms \subseteq Nat /\ Clients \subseteq [threads : BOOLEAN, ops : Nat, time : Nat]
ASSUME ClockAssumption == StartUs \in Nat /\ TickUs \in Nat \ {0}
ASSUME BackendAssumption == Backend \in {"epoll", "poll", "select", "kqueue"}
ASSUME SwitchAssumption == CarefulPurge \in BOOLEAN

VARIABLES
    next,       \* src->next
    alloc,      \* sources created and not freed
    kind,       \* "timeout", "persist", "interval" or "date"; "file"
    ms, when,   \* tsrc->ms, tsrc->when
    enabled,    \* GWRL_ENABLED
    head,       \* rl->sources[TIME] and rl->sources[FILE]
    qsrc,       \* rl->_qsrc
    watched,    \* file sources the backend watches
    timeout,    \* rl->backend->timeout
    pending,    \* rl->events: the source of each event, newest first
    \* the reactor thread
    pc,
    cur, prev,  \* tsrc and tsrc_prev of gwrl_time_gather, src of the install loop
    current,    \* local current of gwrl_time_gather
    posted,     \* local posted_event
    wakeAt,     \* when the time limit of the backend's wait ends, in microseconds
    \* the environment and history variables
    now,        \* the clock, in ticks
    client,     \* the client, one of Clients
    ops,        \* calls made by the client
    registered, \* sources added and neither deleted, removed nor expired
    queued,     \* sources given to gwrl_src_add_safely, not yet installed
    raced,      \* queued sources dropped when _qsrc was set to NULL
    armedAt,    \* tick at which each time source was armed
    fires,      \* events of each source since then
    gstart,     \* tick at which the gather phase began
    tangled     \* gwrl_src_add kept a stale next

heapVars == <<next, alloc, kind, ms, when, enabled>>
rlVars == <<head, qsrc, watched, timeout, pending>>
localVars == <<pc, cur, prev, current, posted, wakeAt>>
timeVars == <<armedAt, fires, gstart>>
vars == <<heapVars, rlVars, localVars, now, client, ops, registered, queued, raced, timeVars, tangled>>

PtrTo(S) == S \cup {NULL}
Kinds == {"timeout", "persist", "interval", "date", "file"}
PCs == {"check", "clear", "inst", "user", "read", "walk", "poll"}
TypeOf(s) == IF s \in Timer THEN "time" ELSE "file"

Forever == -1
\* gwtm_gettimeofday_timespec at tick t
Us(t) == StartUs + t * TickUs
Clock(t) == gwtm_timeval_to_timespec([sec  |-> Us(t) \div MICROSECONDS_WC,
                                      usec |-> Us(t) % MICROSECONDS_WC])
MaybeTime(ts) == ts = Unset \/ (ts \in TimeSpec /\ Normal(ts))

HeapType ==
    /\ next \in [Src -> PtrTo(Src)] /\ alloc \in SUBSET Src /\ enabled \in SUBSET Src
    /\ kind \in [Src -> Kinds] /\ ms \in [Src -> Nat]
    /\ head \in [{"time", "file"} -> PtrTo(Src)] /\ qsrc \in PtrTo(Src)
    /\ cur \in PtrTo(Src) /\ prev \in PtrTo(Src)
TimeType ==
    /\ DOMAIN when = Src /\ \A s \in Src : MaybeTime(when[s])
    /\ MaybeTime(timeout) /\ MaybeTime(current)
    /\ wakeAt \in Nat \cup {Forever} /\ gstart \in Nat
    /\ armedAt \in [Src -> Nat] /\ fires \in [Src -> Nat]
ControlType ==
    /\ pc \in PCs /\ posted \in BOOLEAN /\ tangled \in BOOLEAN
    /\ client \in Clients /\ now \in 0..client.time /\ ops \in 0..client.ops
    /\ watched \in SUBSET Src /\ pending \in Seq(Src)
    /\ registered \in SUBSET Src /\ queued \in SUBSET Src /\ raced \in SUBSET Src
(* The types; every time that is set is a normalised timespec: the carries    *)
(* and borrows of the time arithmetic are complete.                           *)
TypeOK == HeapType /\ TimeType /\ ControlType

\* gwrl_create: the wake pipe is the only source.
Init ==
    /\ next = [s \in Src |-> NULL] /\ alloc = {Wake}
    /\ kind = [s \in Src |-> IF s \in Timer THEN "timeout" ELSE "file"]
    /\ ms = [s \in Src |-> 0] /\ when = [s \in Src |-> Unset]
    /\ enabled = {Wake} /\ head = [t \in {"time", "file"} |-> IF t = "file" THEN Wake ELSE NULL]
    /\ qsrc = NULL /\ watched = {Wake} /\ timeout = Unset /\ pending = <<>>
    /\ pc = "check" /\ cur = NULL /\ prev = NULL /\ current = Unset /\ posted = FALSE
    /\ wakeAt = Forever
    /\ client \in Clients /\ now = 0 /\ ops = 0 /\ registered = {Wake} /\ queued = {} /\ raced = {}
    /\ armedAt = [s \in Src |-> 0] /\ fires = [s \in Src |-> 0]
    /\ gstart = 0 /\ tangled = FALSE

\* The cells reached from h.
Reach(h) == Reachable(next, h)

Elems(q) == {q[i] : i \in DOMAIN q}

-----------------------------------------------------------------------------
(* List operations.                                                          *)

\* gwrl_src_add: src->next is written only when the list is not empty.
Linked(nx, h, s) == IF h # NULL THEN [nx EXCEPT ![s] = h] ELSE nx

\* gwrl_src_add, with nx the links before it
SrcAdd(nx, s) ==
    /\ next' = Linked(nx, head[TypeOf(s)], s)
    /\ head' = [head EXCEPT ![TypeOf(s)] = s]
    /\ watched' = IF s \in Timer THEN watched ELSE watched \cup {s}
    /\ registered' = registered \cup {s}

\* Seeded fault: the predecessor of the deleted source is not relinked.
SrcUnlinkHeadOnly(s, p) ==
    /\ head' = IF head[TypeOf(s)] = s THEN [head EXCEPT ![TypeOf(s)] = next[s]] ELSE head
    /\ next' = [next EXCEPT ![s] = NULL]
    /\ watched' = watched \ {s}
    /\ registered' = registered \ {s}

\* gwrl_src_del without the free: p is the predecessor, or NULL when the list
\* has to be searched for it.
SrcUnlink(s, p) ==
    LET h == head[TypeOf(s)]
        before == IF p # NULL THEN {p}
                  ELSE IF s = h THEN {} ELSE {x \in Reach(h) : next[x] = s}
    IN  /\ head' = IF p = NULL /\ s = h THEN [head EXCEPT ![TypeOf(s)] = next[s]] ELSE head
        /\ next' = IF before = {} /\ s # h THEN next
                   ELSE [x \in Src |-> IF x = s THEN NULL
                                       ELSE IF x \in before THEN next[s] ELSE next[x]]
        /\ watched' = watched \ {s}
        /\ registered' = registered \ {s}

\* One pass of the first loop of gwrl_del_persistent_timeouts over the source
\* w.src; w.shead, w.phead and w.psrc are its locals, w.nx the links.
Expired(s) == kind[s] = "persist" /\ s \notin enabled /\ when[s] = Unset
PurgeOne(w) ==
    LET s    == w.src
        nx1  == IF w.psrc # NULL THEN [w.nx EXCEPT ![w.psrc] = w.nx[s]] ELSE w.nx
        nx2  == IF w.phead # NULL THEN [nx1 EXCEPT ![w.phead] = s] ELSE nx1
    IN  IF Expired(s)
        THEN [src |-> nx2[s], psrc |-> s, phead |-> s, nx |-> nx2,
              shead |-> IF s = w.shead THEN w.nx[s] ELSE w.shead]
        ELSE [w EXCEPT !.src = w.nx[s], !.psrc = s]
Purge ==
    LET P[n \in 0..Cardinality(Src)] ==
          IF n = 0
          THEN [src |-> head["time"], shead |-> head["time"], phead |-> NULL,
                psrc |-> NULL, nx |-> next]
          ELSE LET w == P[n - 1] IN IF w.src = NULL THEN w ELSE PurgeOne(w)
    IN  P[Cardinality(Src)]
\* What the second loop frees: everything that follows w.phead.
PurgeFrees(w) == Reachable(w.nx, w.phead)

-----------------------------------------------------------------------------
(* Calls of the client, made in callbacks: the reactor is in gwrl_dispatch.  *)

Call == pc = "user" /\ ~tangled /\ ops < client.ops /\ ops' = ops + 1
Mine(s) == s \in alloc \ (queued \cup raced \cup {Wake})

\* free(src): what a cell held is gone
Reset(f, S, v) == [s \in Src |-> IF s \in S THEN v ELSE f[s]]
FreeSrc(S) ==
    /\ alloc' = alloc \ S /\ enabled' = enabled \ S
    /\ kind' = [s \in Src |-> IF s \in S \cap Timer THEN "timeout" ELSE kind[s]]
    /\ ms' = Reset(ms, S, 0) /\ when' = Reset(when, S, Unset)
    /\ armedAt' = Reset(armedAt, S, 0) /\ fires' = Reset(fires, S, 0)

\* gwrl_src_time_create: a zeroed cell; when is set for a date only
TimeCreate(s, k, m) ==
    /\ s \in Timer \ alloc
    /\ alloc' = alloc \cup {s} /\ enabled' = enabled \cup {s}
    /\ kind' = [kind EXCEPT ![s] = k]
    /\ ms' = [ms EXCEPT ![s] = m]
    /\ when' = [when EXCEPT ![s] = IF k = "date" THEN gwtm_ms_to_timespec(m) ELSE Unset]
    /\ fires' = [fires EXCEPT ![s] = 0]
    /\ armedAt' = [armedAt EXCEPT ![s] = 0]

\* gwrl_set_timeout, gwrl_set_interval, gwrl_set_date_timeout; a date is m
\* milliseconds after the present one
SetTimer(s, k, m) ==
    /\ Call
    /\ TimeCreate(s, k, IF k = "date" THEN Us(now) \div 1000 + m ELSE m)
    /\ SrcAdd([next EXCEPT ![s] = NULL], s)
    /\ UNCHANGED <<qsrc, timeout, pending, localVars, now, client, queued, raced, gstart, tangled>>

gwrl_set_fd(s) ==
    /\ Call /\ s \in File \ alloc
    /\ alloc' = alloc \cup {s} /\ enabled' = enabled \cup {s}
    /\ SrcAdd([next EXCEPT ![s] = NULL], s)
    /\ UNCHANGED <<kind, ms, when, qsrc, timeout, pending, localVars, now, client, queued, raced,
                   timeVars, tangled>>

\* gwrl_src_add of a source that was removed
gwrl_src_add(s) ==
    /\ Call /\ Mine(s) /\ s \notin registered
    /\ SrcAdd(next, s)
    /\ UNCHANGED <<alloc, kind, ms, when, enabled, qsrc, timeout, pending, localVars,
                   now, client, queued, raced, timeVars, tangled>>

gwrl_src_remove(s) ==
    /\ Call /\ Mine(s)
    /\ SrcUnlink(s, NULL)
    /\ UNCHANGED <<alloc, kind, ms, when, enabled, qsrc, timeout, pending, localVars,
                   now, client, queued, raced, timeVars, tangled>>

\* gwrl_src_del(rl,src,NULL,true)
gwrl_src_del(s) ==
    /\ Call /\ Mine(s)
    /\ SrcUnlink(s, NULL)
    /\ FreeSrc({s})
    /\ UNCHANGED <<qsrc, timeout, pending, localVars, now, client, queued, raced, gstart, tangled>>

\* gwrl_src_enable: a time source is armed again, unless it is a date
gwrl_src_enable(s) ==
    /\ Call /\ Mine(s)
    /\ enabled' = enabled \cup {s}
    /\ IF s \in Timer
       THEN /\ when' = IF kind[s] = "date" THEN when
                       ELSE [when EXCEPT ![s] = gwtm_add_ms_to_timespec(ms[s], Clock(now))]
            /\ armedAt' = [armedAt EXCEPT ![s] = now] /\ fires' = [fires EXCEPT ![s] = 0]
            /\ UNCHANGED watched
       ELSE watched' = watched \cup {s} /\ UNCHANGED <<when, armedAt, fires>>
    /\ UNCHANGED <<next, alloc, kind, ms, head, qsrc, timeout, pending, localVars, now, client,
                   registered, queued, raced, gstart, tangled>>

gwrl_src_disable(s) ==
    /\ Call /\ Mine(s)
    /\ enabled' = enabled \ {s}
    /\ watched' = watched \ {s}
    /\ UNCHANGED <<next, alloc, kind, ms, when, head, qsrc, timeout, pending, localVars,
                   now, client, registered, queued, raced, timeVars, tangled>>

gwrl_del_persistent_timeouts ==
    LET w == Purge
        gone == {s \in Reach(head["time"]) : Expired(s)}
    IN  /\ Call /\ gone # {}
        /\ CarefulPurge => \E s \in gone : gone = {s} /\ next[s] = NULL
        /\ next' = w.nx /\ head' = [head EXCEPT !["time"] = w.shead]
        /\ FreeSrc(PurgeFrees(w))
        /\ registered' = registered \ gone
        /\ UNCHANGED <<qsrc, watched, timeout, pending, localVars, now, client, queued, raced,
                       gstart, tangled>>

\* Seeded fault: the sources queued before are dropped.
PushSourceDropsRest(s) ==
    /\ client.threads /\ ops < client.ops /\ ops' = ops + 1
    /\ next' = [next EXCEPT ![s] = NULL]
    /\ qsrc' = s /\ queued' = queued \cup {s}
    /\ UNCHANGED <<head, watched, timeout, pending, localVars, now, client, registered, raced,
                   gstart, tangled>>

\* gwrl_src_add_safely by another thread, for a source it has created.  The
\* whole push is under the lock; the wake-up is the subject of Reactor.
PushSource(s) ==
    /\ client.threads /\ ops < client.ops /\ ops' = ops + 1
    /\ next' = [next EXCEPT ![s] = qsrc]
    /\ qsrc' = s /\ queued' = queued \cup {s}
    /\ UNCHANGED <<head, watched, timeout, pending, localVars, now, client, registered, raced,
                   gstart, tangled>>
AddTimerSafely(s, k, m) == TimeCreate(s, k, m) /\ PushSource(s)
AddFileSafely(s) ==
    /\ s \in File \ alloc
    /\ alloc' = alloc \cup {s} /\ enabled' = enabled \cup {s}
    /\ UNCHANGED <<kind, ms, when, fires, armedAt>>
    /\ PushSource(s)

-----------------------------------------------------------------------------
(* The reactor thread.                                                       *)

\* if(rl->_qsrc) and src = rl->_qsrc, both before the lock
CheckQueue ==
    /\ pc = "check"
    /\ pc' = IF qsrc # NULL THEN "clear" ELSE "user"
    /\ cur' = qsrc
    /\ UNCHANGED <<heapVars, rlVars, prev, current, posted, wakeAt, now, client, ops, registered,
                   queued, raced, timeVars, tangled>>

\* rl->_qsrc = NULL, under the lock
ClearQueue ==
    /\ pc = "clear" /\ pc' = "inst"
    /\ qsrc' = NULL
    /\ raced' = raced \cup (queued \ Reach(cur)) /\ queued' = queued \cap Reach(cur)
    /\ UNCHANGED <<heapVars, head, watched, timeout, pending, cur, prev, current, posted,
                   wakeAt, now, client, ops, registered, timeVars, tangled>>

\* isrc = src; src = src->next; gwrl_src_add(rl,isrc), until src is NULL
InstallOne ==
    /\ pc = "inst" /\ pc' = IF next[cur] = NULL THEN "user" ELSE "inst"
    /\ cur' = next[cur]
    /\ SrcAdd(next, cur)
    /\ queued' = queued \ {cur}
    /\ tangled' = (tangled \/ (head[TypeOf(cur)] = NULL /\ next[cur] # NULL))
    /\ UNCHANGED <<alloc, kind, ms, when, enabled, qsrc, timeout, pending, prev,
                   current, posted, wakeAt, now, client, ops, raced, timeVars>>

\* gwrl_dispatch calls the callback of the first event.
Dispatch ==
    /\ pc = "user" /\ ~tangled /\ pending # <<>> /\ pending' = Tail(pending)
    /\ UNCHANGED <<heapVars, head, qsrc, watched, timeout, localVars, now, client, ops,
                   registered, queued, raced, timeVars, tangled>>

\* timeout = sec_min, nsec_min; gwrl_time_gather if there are time sources
GatherStart ==
    /\ pc = "user" /\ ~tangled /\ pending = <<>>
    /\ timeout' = Unset /\ posted' = FALSE
    /\ cur' = head["time"] /\ prev' = NULL
    /\ pc' = "read" /\ gstart' = now
    /\ UNCHANGED <<heapVars, head, qsrc, watched, pending, current, wakeAt, now, client, ops,
                   registered, queued, raced, armedAt, fires, tangled>>

\* A disabled source is passed over, for another the clock is read.
GatherRead ==
    /\ pc = "read" /\ cur # NULL
    /\ IF cur \in enabled
       THEN current' = Clock(now) /\ pc' = "walk" /\ UNCHANGED <<cur, prev>>
       ELSE prev' = cur /\ cur' = next[cur] /\ UNCHANGED <<current, pc>>
    /\ UNCHANGED <<heapVars, rlVars, posted, wakeAt, now, client, ops, registered, queued, raced,
                   timeVars, tangled>>

\* timediff into rl->backend->timeout, if none is set yet or it is smaller
Shorter(d) == IF timeout = Unset THEN d ELSE gwtm_timespec_copy_if_smaller(d, timeout)

\* Seeded fault: the duration is not added when a source is armed.
DueAtEarly(s) == IF kind[s] # "date" /\ when[s] = Unset THEN Clock(now) ELSE when[s]

\* when a source expires: a relative one is armed now, with a second look at
\* the clock
DueAt(s) == IF kind[s] # "date" /\ when[s] = Unset
            THEN gwtm_add_ms_to_timespec(ms[s], Clock(now)) ELSE when[s]
Left(s) == gwtm_timespec_sub_into(DueAt(s), current)

\* Seeded fault: the time left is not stored in the backend.
GatherWaitingNoTimeout ==
    /\ pc = "walk" /\ ~gwtm_timespec_is_expired(Left(cur)) /\ pc' = "read"
    /\ when' = [when EXCEPT ![cur] = DueAt(cur)]
    /\ armedAt' = [armedAt EXCEPT ![cur] = IF when[cur] = Unset THEN now ELSE @]
    /\ prev' = cur /\ cur' = next[cur]
    /\ UNCHANGED <<next, alloc, kind, ms, enabled, rlVars, current, posted, wakeAt, now, client,
                   ops, registered, queued, raced, fires, gstart, tangled>>

\* The source has not expired.
GatherWaiting ==
    /\ pc = "walk" /\ ~gwtm_timespec_is_expired(Left(cur)) /\ pc' = "read"
    /\ when' = [when EXCEPT ![cur] = DueAt(cur)]
    /\ armedAt' = [armedAt EXCEPT ![cur] = IF when[cur] = Unset THEN now ELSE @]
    /\ timeout' = Shorter(Left(cur))
    /\ prev' = cur /\ cur' = next[cur]
    /\ UNCHANGED <<next, alloc, kind, ms, enabled, head, qsrc, watched, pending, current,
                   posted, wakeAt, now, client, ops, registered, queued, raced, fires, gstart,
                   tangled>>

Fire ==
    /\ pc = "walk" /\ gwtm_timespec_is_expired(Left(cur)) /\ pc' = "read"
    /\ pending' = <<cur>> \o pending /\ posted' = TRUE
Counted ==
    /\ fires' = [fires EXCEPT ![cur] = @ + 1]
    /\ armedAt' = [armedAt EXCEPT ![cur] = IF when[cur] = Unset THEN now ELSE @]

\* An interval has expired: the next expiry counts from the last one.
GatherInterval ==
    /\ Fire /\ Counted /\ kind[cur] = "interval"
    /\ when' = [when EXCEPT ![cur] = gwtm_add_ms_to_timespec(ms[cur], DueAt(cur))]
    /\ timeout' = Shorter(gwtm_timespec_sub_into(when'[cur], current))
    /\ prev' = cur /\ cur' = next[cur]
    /\ UNCHANGED <<next, alloc, kind, ms, enabled, head, qsrc, watched, current, wakeAt,
                   now, client, ops, registered, queued, raced, gstart, tangled>>

\* A persistent timeout has expired: gwrl_src_disable, and no expiry is set.
GatherPersist ==
    /\ Fire /\ Counted /\ kind[cur] = "persist"
    /\ enabled' = enabled \ {cur}
    /\ when' = [when EXCEPT ![cur] = Unset]
    /\ prev' = cur /\ cur' = next[cur]
    /\ UNCHANGED <<next, alloc, kind, ms, head, qsrc, watched, timeout, current, wakeAt,
                   now, client, ops, registered, queued, raced, gstart, tangled>>

\* Another timeout has expired: gwrl_src_del(rl,del,tsrc_prev,true).
GatherOnce ==
    /\ Fire /\ kind[cur] \in {"timeout", "date"}
    /\ SrcUnlink(cur, prev)
    /\ FreeSrc({cur})
    /\ cur' = next[cur] /\ prev' = NULL
    /\ UNCHANGED <<qsrc, timeout, current, wakeAt, now, client, ops, queued, raced, gstart, tangled>>

\* how long the backend waits, in microseconds: poll and epoll_wait take whole
\* milliseconds, select microseconds and kevent the timespec
Wait(ts) ==
    CASE Backend \in {"epoll", "poll"} -> gwtm_timespec_to_ms(ts) * 1000
      [] Backend = "select" -> LET tv == gwtm_timespec_to_timeval(ts)
                               IN  tv.sec * MICROSECONDS_WC + tv.usec
      [] Backend = "kqueue" -> Micros(ts)

\* if(posted_event) timeout = 0; the backend starts to wait
GatherEnd ==
    /\ pc = "read" /\ cur = NULL /\ pc' = "poll"
    /\ timeout' = IF posted THEN [sec |-> 0, nsec |-> 0] ELSE timeout
    /\ wakeAt' = IF timeout' = Unset THEN Forever ELSE Us(now) + Wait(timeout')
    /\ prev' = NULL /\ current' = Unset
    /\ UNCHANGED <<heapVars, head, qsrc, watched, pending, cur, posted, now, client, ops,
                   registered, queued, raced, timeVars, tangled>>

\* The locals of a gather are gone when it returns.
Return == /\ pc = "poll" /\ pc' = "check"
          /\ posted' = FALSE /\ wakeAt' = Forever /\ timeout' = Unset /\ gstart' = 0

\* The wait ends at its time limit (at the latest when the clock stops).
PollTimeout ==
    /\ Return
    /\ wakeAt # Forever /\ (Us(now) >= wakeAt \/ now = client.time)
    /\ UNCHANGED <<heapVars, head, qsrc, watched, pending, cur, prev, current, now, client, ops,
                   registered, queued, raced, armedAt, fires, tangled>>

\* The wait ends with activity of a watched file, whose event is posted.
PollFile ==
    /\ Return
    /\ \E s \in watched : pending' = <<s>> \o pending
    /\ UNCHANGED <<heapVars, head, qsrc, watched, cur, prev, current, now, client, ops,
                   registered, queued, raced, armedAt, fires, tangled>>

\* Time passes.
Tick ==
    /\ now < client.time /\ now' = now + 1
    /\ UNCHANGED <<heapVars, rlVars, localVars, client, ops, registered, queued, raced,
                   timeVars, tangled>>

Client ==
    \/ \E s \in Timer, k \in Kinds \ {"file"}, m \in Ms : SetTimer(s, k, m)
    \/ \E s \in Src : \/ gwrl_set_fd(s) \/ gwrl_src_add(s) \/ gwrl_src_remove(s)
                      \/ gwrl_src_del(s) \/ gwrl_src_enable(s) \/ gwrl_src_disable(s)
    \/ gwrl_del_persistent_timeouts
OtherThread ==
    \/ \E s \in Timer, k \in Kinds \ {"file"}, m \in Ms : AddTimerSafely(s, k, m)
    \/ \E s \in File : AddFileSafely(s)
TimeGather ==
    \/ GatherStart \/ GatherRead \/ GatherWaiting \/ GatherInterval \/ GatherPersist
    \/ GatherOnce \/ GatherEnd
Reactor ==
    CheckQueue \/ ClearQueue \/ InstallOne \/ Dispatch \/ TimeGather \/ PollTimeout

\* A list with a stale link is cyclic or mixes the types of sources: what the
\* program does with it is undefined, and the model ends.
Undefined == tangled /\ pc = "user" /\ UNCHANGED vars

Next == Reactor \/ PollFile \/ Tick \/ Client \/ OtherThread \/ Undefined

(* The reactor thread is scheduled and the clock advances.  Files need not    *)
(* become ready, and clients need not call anything.                          *)
Spec == Init /\ [][Next]_vars /\ WF_vars(Reactor) /\ WF_vars(Tick)

-----------------------------------------------------------------------------

(* The two lists hold exactly the sources that are registered, each under    *)
(* its own type, all of them allocated: adding, removing, deleting, expiry   *)
(* during gwrl_time_gather and installation from the queue lose no source,   *)
(* free none that is still linked and mix up no types.                       *)
RegisteredIsListed ==
    ~tangled => \A t \in {"time", "file"} :
        Reach(head[t]) = {s \in registered : TypeOf(s) = t} /\ registered \subseteq alloc

(* A source given to gwrl_src_add_safely stays in the queue, or in the list   *)
(* being installed, until it is registered; only the window between the      *)
(* unlocked read of rl->_qsrc and the store of NULL loses one.               *)
QueuedIsKept ==
    queued \subseteq Reach(qsrc) \cup (IF pc \in {"clear", "inst"} THEN Reach(cur) ELSE {})

Armed == Timer \cap registered \cap enabled

(* The backend never waits past the expiry of an enabled time source by more  *)
(* than the time the gather phase itself took, and not at all after an event  *)
(* was posted.                                                                *)
NoOversleep ==
    pc = "poll" => \A s \in Armed :
        /\ timeout # Unset /\ when[s] # Unset
        /\ Wait(timeout) = 0 \/ Wait(timeout) <= Micros(when[s]) - Us(gstart)
        /\ pending # <<>> => Wait(timeout) = 0

\* A step that starts a wait of no length although nothing was posted.
SpinStep == pc' = "poll" /\ wakeAt' = Us(now) /\ pending' = <<>>

(* The loop polls without waiting only after it posted an event, or when a    *)
(* time source is due within the millisecond that is lost when the timeout is *)
(* cut to whole milliseconds: it does not spin longer than that.              *)
SpinsOnlyWhenDue ==
    [][SpinStep => \E s \in Armed : Micros(when[s]) < Us(now) + 1000]_wakeAt

\* The source cur, which fires, is due.
IsDue ==
    LET armed == IF when[cur] = Unset THEN now ELSE armedAt[cur]
    IN  /\ cur \in Armed
        /\ kind[cur] # "interval" => fires[cur] = 0
        /\ Us(now) >= IF kind[cur] = "date" THEN ms[cur] * 1000
                      ELSE Us(armed) + (fires[cur] + 1) * ms[cur] * 1000

(* A time source that fires is registered and enabled, and it does not fire   *)
(* early: the n-th event of an interval comes no sooner than n periods after  *)
(* it was armed, however late the loop runs, a timeout or date no sooner than *)
(* it was set for and once for each time it is armed.                         *)
FiresOnTime == [][pc = "walk" /\ pending' # pending => IsDue]_vars

(* An armed time source fires, unless the client disables, removes or moves   *)
(* it (or its expiry lies beyond the end of the clock, or the list is tangled). *)
TimerFires ==
    \A s \in Timer :
        (s \in Armed /\ when[s] # Unset /\ Micros(when[s]) <= Us(client.time))
        ~> \/ s \in Elems(pending) \/ s \notin Armed
           \/ when[s] = Unset \/ Micros(when[s]) > Us(client.time) \/ tangled

-----------------------------------------------------------------------------
(* What the documentation promises.                                           *)

(* Deleting the expired persistent timeouts leaves the other sources alone.   *)
PurgeKeepsLive == registered \subseteq alloc
=============================================================================
