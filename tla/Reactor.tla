------------------------------ MODULE Reactor ------------------------------
(* The reactor of libgwrl (src/src/gwrl/event.c, event_wake_pipe.c): one     *)
(* thread runs gwrl_run or gwrl_run_once; other threads hand it events with  *)
(* gwrl_post_evt_safely and wake it through a pipe.                          *)
(*                                                                           *)
(* Events are heap cells linked through evt->next, exactly as in the code:   *)
(* the lists rl->events, rl->cevents and rl->_qevt are head pointers, and    *)
(* every list operation reads and writes `next'.  The control of the reactor *)
(* thread and of the posting threads is kept line by line, at the grain at   *)
(* which the threads can observe each other: the reactor reads rl->_qevt     *)
(* without the lock, and a poster tests GWRL_SLEEPING without any lock.      *)
EXTENDS Integers, Sequences, FiniteSets, HeapLists

CONSTANTS
    Post,         \* events created before the loop runs and handed to threads
    Local,        \* further event cells the heap can provide
    NULL,         \* the null pointer
    RL,           \* the reactor thread, as an owner of the queue lock
    CacheMax,     \* options.gwrl_event_cache_max
    RedispatchMax,\* GWRL_REDISPATCH_MAX
    MaxFn,        \* bound: gwrl_post_function calls made by user code
    Interval,     \* BOOLEAN: an interval input source is registered
    Sync          \* BOOLEAN: the client posts the next event only after the
                  \* callback of the previous one (one synchronous thread)

Evt == Post \cup Local

ASSUME CellAssumption == NULL \notin Evt /\ RL \notin Evt /\ NULL # RL
ASSUME DisjointAssumption == Post \cap Local = {}
ASSUME BoundAssumption ==
    CacheMax \in Nat /\ RedispatchMax \in Nat /\ MaxFn \in Nat
ASSUME SwitchAssumption == Interval \in BOOLEAN /\ Sync \in BOOLEAN

VARIABLES
    \* the heap of gwrlevt cells
    next,      \* evt->next
    what,      \* whose callback the cell holds: "post", "fn", "wake", "timer", "none"
    alloc,     \* cells obtained from calloc and not freed
    \* fields of gwrl
    events,    \* rl->events
    cevents,   \* rl->cevents
    ncevents,  \* rl->ncevents
    qevt,      \* rl->_qevt
    qevtlk,    \* rl->_qevtlk: NULL, RL or the event whose poster holds it
    stop,      \* GWRL_STOP
    sleeping,  \* GWRL_SLEEPING
    nosleep,   \* GWRL_NOSLEEP
    timeout,   \* rl->backend->timeout: "inf", "zero" or "finite"
    pipe,      \* the wake pipe is readable
    \* the reactor thread
    rpc,       \* program counter
    mode,      \* which call is running: "none", "run", "once" or "free"
    evt,       \* local evt of install, dispatch and free
    del,       \* local del of gwrl_dispatch and its walk in gwrl_evt_free_list
    repost,    \* local repost_count of gwrl_dispatch
    woke,      \* epoll_wait reported the pipe
    \* the posting threads, one per event of Post
    ppc,
    \* history variables
    nfn,       \* gwrl_post_function calls so far
    calls,     \* how often the callback of each posted event ran (counts to 2)
    qseq,      \* events pushed since _qevt was last set to NULL, newest first
    tseq,      \* events in the list whose head install_queued_events read
    installed, \* posted events install_queued_events gave to gwrl_post_evt
    raced,     \* posted events dropped when _qevt was set to NULL
    tangled,   \* gwrl_post_evt put a cell with a stale next on an empty list
    unwoken    \* posted events whose poster found GWRL_SLEEPING clear

heapVars == <<next, what, alloc>>
listVars == <<events, cevents, ncevents>>
queueVars == <<qevt, qevtlk>>
flagVars == <<stop, sleeping, nosleep, timeout, pipe>>
localVars == <<rpc, mode, evt, del, repost, woke>>
histVars == <<nfn, calls, qseq, tseq, installed, raced, tangled, unwoken>>
vars == <<heapVars, listVars, queueVars, flagVars, localVars, ppc, histVars>>

PtrTo(S) == S \cup {NULL}
Elems(s) == {s[i] : i \in DOMAIN s}
Kinds == {"post", "fn", "wake", "timer", "none"}
InstallPCs == {"check", "take", "lock", "clear", "inst"}
DispatchPCs == {"disp", "loop", "adv", "refree", "lastfree"}
GatherPCs == {"time", "flset", "poll", "flclr", "gather", "gatherfn"}
FreePCs == {"ffirst", "fevt", "fqevt", "freed"}
RPCs == {"idle", "stopchk"} \cup InstallPCs \cup DispatchPCs \cup GatherPCs \cup FreePCs
PPCs == {"new", "lock", "link", "push", "test", "write", "done"}

FlagType ==
    /\ stop \in BOOLEAN /\ sleeping \in BOOLEAN /\ nosleep \in BOOLEAN
    /\ pipe \in BOOLEAN /\ woke \in BOOLEAN /\ tangled \in BOOLEAN
ControlType ==
    /\ rpc \in RPCs /\ mode \in {"none", "run", "once", "free"}
    /\ timeout \in {"inf", "zero", "finite"}
    /\ ppc \in [Post -> PPCs]
    /\ repost \in 0..RedispatchMax /\ nfn \in 0..MaxFn /\ calls \in [Post -> 0..2]
HeapType ==
    /\ next \in [Evt -> PtrTo(Evt)] /\ what \in [Evt -> Kinds] /\ alloc \in SUBSET Evt
    /\ events \in PtrTo(Evt) /\ cevents \in PtrTo(Evt) /\ ncevents \in Int
    /\ evt \in PtrTo(Evt) /\ del \in PtrTo(Evt)
QueueType ==
    /\ qevt \in PtrTo(Post) /\ qevtlk \in PtrTo(Post) \cup {RL}
    /\ qseq \in Seq(Post) /\ tseq \in Seq(Post)
    /\ installed \in SUBSET Post /\ raced \in SUBSET Post /\ unwoken \in SUBSET Post
TypeOK == FlagType /\ ControlType /\ HeapType /\ QueueType

(* gwrl_create and the client's setup: no events, an empty cache, the pipe   *)
(* empty.  The events of Post were created with gwrl_evt_create (a calloc,   *)
(* the cache being empty) before other threads start, as in                  *)
(* test/reactor_safely.c.                                                    *)
Init ==
    /\ next = [e \in Evt |-> NULL]
    /\ what = [e \in Evt |-> IF e \in Post THEN "post" ELSE "none"]
    /\ alloc = Post
    /\ events = NULL /\ cevents = NULL /\ ncevents = 0
    /\ qevt = NULL /\ qevtlk = NULL
    /\ stop = FALSE /\ sleeping = FALSE /\ nosleep = FALSE
    /\ timeout = "inf" /\ pipe = FALSE
    /\ rpc = "idle" /\ mode = "none" /\ evt = NULL /\ del = NULL
    /\ repost = 0 /\ woke = FALSE
    /\ ppc = [e \in Post |-> "new"]
    /\ nfn = 0 /\ calls = [e \in Post |-> 0]
    /\ qseq = <<>> /\ tseq = <<>>
    /\ installed = {} /\ raced = {} /\ tangled = FALSE /\ unwoken = {}

-----------------------------------------------------------------------------
(* Operations on event cells.                                                *)

\* Seeded fault: the rest of the list is dropped.
PostLinkDropsRest(nx, head, e) == nx

\* gwrl_post_evt: evt->next is written only when the list is not empty.
PostLink(nx, head, e) == IF head # NULL THEN [nx EXCEPT ![e] = head] ELSE nx

\* gwrl_evt_create followed by gwrl_post_evt, as the reactor thread always does
\* it: a cell of the cache if there is one, else a fresh one from calloc (when
\* the heap has none the code retries, here the step waits).
CreateAndPost(k) ==
    \E c \in IF cevents # NULL THEN {cevents} ELSE Evt \ alloc :
        /\ cevents' = IF cevents # NULL THEN next[cevents] ELSE cevents
        /\ ncevents' = IF cevents # NULL THEN ncevents - 1 ELSE ncevents
        /\ alloc' = alloc \cup {c}
        /\ what' = [what EXCEPT ![c] = k]
        /\ next' = PostLink([next EXCEPT ![c] = NULL], events, c)
        /\ events' = c

\* gwrl_evt_free: keep the cell in the cache unless the cache is full.
gwrl_evt_free(c) ==
    /\ what' = [what EXCEPT ![c] = "none"]
    /\ IF ncevents >= CacheMax
       THEN alloc' = alloc \ {c} /\ UNCHANGED <<next, cevents, ncevents>>
       ELSE /\ next' = [next EXCEPT ![c] = cevents]
            /\ cevents' = c /\ ncevents' = ncevents + 1
            /\ UNCHANGED alloc

\* free(evt): gwrl_free releases cells without the cache.
FreeCell(c) ==
    /\ what' = [what EXCEPT ![c] = "none"]
    /\ alloc' = alloc \ {c}
    /\ UNCHANGED next

-----------------------------------------------------------------------------
(* The posting threads: gwrl_post_evt_safely(rl,e), then gwrl_wake(rl).      *)

PGoto(e, from, to) == ppc[e] = from /\ ppc' = [ppc EXCEPT ![e] = to]

\* A thread calls gwrl_post_evt_safely.  Threads are joined before gwrl_free.
PStart(e) ==
    /\ mode # "free"
    /\ Sync => \A d \in Post : \/ ppc[d] = "new"
                               \/ ppc[d] = "done" /\ calls[d] > 0
    /\ PGoto(e, "new", "lock")
    /\ UNCHANGED <<heapVars, listVars, queueVars, flagVars, localVars, histVars>>

\* lockid_lock(&rl->_qevtlk)
PLock(e) ==
    /\ qevtlk = NULL /\ qevtlk' = e
    /\ PGoto(e, "lock", "link")
    /\ UNCHANGED <<heapVars, listVars, qevt, flagVars, localVars, histVars>>

\* head = rl->_qevt; evt->next = head (or NULL)
PLink(e) ==
    /\ PGoto(e, "link", "push")
    /\ next' = [next EXCEPT ![e] = qevt]
    /\ UNCHANGED <<what, alloc, listVars, queueVars, flagVars, localVars, histVars>>

\* rl->_qevt = evt; lockid_unlock(&rl->_qevtlk)
PPush(e) ==
    /\ PGoto(e, "push", "test")
    /\ qevt' = e /\ qevtlk' = NULL
    /\ qseq' = <<e>> \o qseq
    /\ UNCHANGED <<heapVars, listVars, flagVars, localVars, nfn, calls, tseq,
                   installed, raced, tangled, unwoken>>

\* Seeded fault: the wrong flag is tested.
PTestWrongFlag(e) ==
    /\ ppc[e] = "test"
    /\ ppc' = [ppc EXCEPT ![e] = IF nosleep THEN "write" ELSE "done"]
    /\ unwoken' = IF sleeping THEN unwoken ELSE unwoken \cup {e}
    /\ UNCHANGED <<heapVars, listVars, queueVars, flagVars, localVars, nfn, calls,
                   qseq, tseq, installed, raced, tangled>>

\* gwrl_wake: if(flisset(rl->flags,GWRL_SLEEPING))
PTest(e) ==
    /\ ppc[e] = "test"
    /\ ppc' = [ppc EXCEPT ![e] = IF sleeping THEN "write" ELSE "done"]
    /\ unwoken' = IF sleeping THEN unwoken ELSE unwoken \cup {e}
    /\ UNCHANGED <<heapVars, listVars, queueVars, flagVars, localVars, nfn, calls,
                   qseq, tseq, installed, raced, tangled>>

\* gwrl_wake: write(rl->fds[1],"wake",4), repeated on EINTR.  A full pipe is
\* readable already.
PWrite(e) ==
    /\ PGoto(e, "write", "done")
    /\ pipe' = TRUE
    /\ UNCHANGED <<heapVars, listVars, queueVars, stop, sleeping, nosleep, timeout,
                   localVars, histVars>>

PosterStep(e) == PLock(e) \/ PLink(e) \/ PPush(e) \/ PTest(e) \/ PWrite(e)

-----------------------------------------------------------------------------
(* The reactor thread.                                                       *)

RGoto(from, to) == rpc = from /\ rpc' = to

\* Calls the client makes while no loop is running.
gwrl_run ==
    /\ RGoto("idle", "check") /\ mode' = "run" /\ stop' = FALSE
    /\ UNCHANGED <<heapVars, listVars, queueVars, sleeping, nosleep, timeout, pipe,
                   evt, del, repost, woke, ppc, histVars>>

gwrl_run_once ==
    /\ RGoto("idle", "check") /\ mode' = "once"
    /\ UNCHANGED <<heapVars, listVars, queueVars, flagVars,
                   evt, del, repost, woke, ppc, histVars>>

gwrl_allow_poll_sleep ==
    /\ rpc = "idle"
    /\ nosleep' = ~nosleep
    /\ UNCHANGED <<heapVars, listVars, queueVars, stop, sleeping, timeout, pipe,
                   localVars, ppc, histVars>>

\* gwrl_free begins with one last gwrl_dispatch.
gwrl_free ==
    /\ RGoto("idle", "disp") /\ mode' = "free"
    /\ \A e \in Post : ppc[e] \in {"new", "done"}
    /\ UNCHANGED <<heapVars, listVars, queueVars, flagVars,
                   evt, del, repost, woke, ppc, histVars>>

\* if(rl->_qevt) gwrl_install_queued_events(rl)
CheckQueue ==
    /\ rpc = "check"
    /\ rpc' = IF qevt # NULL THEN "take" ELSE "disp"
    /\ UNCHANGED <<heapVars, listVars, queueVars, flagVars,
                   mode, evt, del, repost, woke, ppc, histVars>>

\* gwrlevt * evt = rl->_qevt, before the lock is taken
TakeHead ==
    /\ RGoto("take", "lock")
    /\ evt' = qevt /\ tseq' = qseq
    /\ UNCHANGED <<heapVars, listVars, queueVars, flagVars, mode, del, repost, woke,
                   ppc, nfn, calls, qseq, installed, raced, tangled, unwoken>>

\* lockid_lock(&rl->_qevtlk)
TakeLock ==
    /\ RGoto("lock", "clear")
    /\ qevtlk = NULL /\ qevtlk' = RL
    /\ UNCHANGED <<heapVars, listVars, qevt, flagVars, mode, evt, del, repost, woke,
                   ppc, histVars>>

\* Seeded fault: rl->_qevt is not reset.
ClearQueueKeepsHead ==
    /\ RGoto("clear", "inst")
    /\ qevtlk' = NULL
    /\ qseq' = <<>>
    /\ raced' = raced \cup (Elems(qseq) \ Elems(tseq))
    /\ UNCHANGED <<heapVars, listVars, qevt, flagVars, mode, evt, del, repost, woke,
                   ppc, nfn, calls, tseq, installed, tangled, unwoken>>

\* rl->_qevt = NULL; lockid_unlock(&rl->_qevtlk)
ClearQueue ==
    /\ RGoto("clear", "inst")
    /\ qevt' = NULL /\ qevtlk' = NULL
    /\ qseq' = <<>>
    /\ raced' = raced \cup (Elems(qseq) \ Elems(tseq))
    /\ UNCHANGED <<heapVars, listVars, flagVars, mode, evt, del, repost, woke,
                   ppc, nfn, calls, tseq, installed, tangled, unwoken>>

\* pevt = evt; evt = evt->next; gwrl_post_evt(rl,pevt)
InstallOne ==
    /\ rpc = "inst" /\ evt # NULL
    /\ evt' = next[evt] /\ tseq' = Tail(tseq)
    /\ next' = PostLink(next, events, evt)
    /\ events' = evt
    /\ installed' = installed \cup {evt}
    /\ tangled' = (tangled \/ (events = NULL /\ next[evt] # NULL))
    /\ UNCHANGED <<what, alloc, cevents, ncevents, queueVars, flagVars, rpc, mode,
                   del, repost, woke, ppc, nfn, calls, qseq, raced, unwoken>>

\* Seeded fault: the walk over the queued events ends early.
InstallDoneEarly ==
    /\ RGoto("inst", "disp") /\ evt' = NULL
    /\ UNCHANGED <<heapVars, listVars, queueVars, flagVars,
                   mode, del, repost, woke, ppc, histVars>>

\* while(evt) ends
InstallDone ==
    /\ RGoto("inst", "disp") /\ evt = NULL
    /\ UNCHANGED <<heapVars, listVars, queueVars, flagVars,
                   mode, evt, del, repost, woke, ppc, histVars>>

\* Seeded fault: rl->events is not reset.
DispatchStartKeepsEvents ==
    /\ RGoto("disp", "loop")
    /\ evt' = events /\ del' = events /\ repost' = 0
    /\ UNCHANGED <<heapVars, listVars, queueVars, flagVars, mode, woke, ppc, histVars>>

\* gwrl_dispatch: evt = rl->events; del = evt; rl->events = NULL
DispatchStart ==
    /\ RGoto("disp", "loop")
    /\ evt' = events /\ del' = events /\ events' = NULL /\ repost' = 0
    /\ UNCHANGED <<heapVars, cevents, ncevents, queueVars, flagVars,
                   mode, woke, ppc, histVars>>

\* evt->callback(rl,evt) for an event of user code, which may return at once,
\* post a function call, or call gwrl_stop.
UserCallback ==
    /\ RGoto("loop", "adv") /\ evt # NULL /\ what[evt] # "wake"
    /\ calls' = IF what[evt] = "post"
                THEN [calls EXCEPT ![evt] = IF @ < 2 THEN @ + 1 ELSE @]
                ELSE calls
    /\ \/ UNCHANGED <<heapVars, listVars, stop, nfn>>
       \/ /\ nfn < MaxFn /\ nfn' = nfn + 1
          /\ CreateAndPost("fn")
          /\ UNCHANGED stop
       \/ /\ stop' = TRUE
          /\ UNCHANGED <<heapVars, listVars, nfn>>
    /\ UNCHANGED <<queueVars, sleeping, nosleep, timeout, pipe, mode, evt, del, repost,
                   woke, ppc, qseq, tseq, installed, raced, tangled, unwoken>>

\* gwrl_wake_activity reads the pipe until it is empty.
WakeActivity ==
    /\ RGoto("loop", "adv") /\ evt # NULL /\ what[evt] = "wake"
    /\ pipe' = FALSE
    /\ UNCHANGED <<heapVars, listVars, queueVars, stop, sleeping, nosleep, timeout,
                   mode, evt, del, repost, woke, ppc, histVars>>

\* Seeded faults: one batch too many; no advance.
DispatchNextOneMore ==
    /\ rpc = "adv"
    /\ evt' = next[evt]
    /\ rpc' = IF next[evt] = NULL /\ events # NULL /\ repost <= RedispatchMax
              THEN "refree" ELSE "loop"
    /\ UNCHANGED <<heapVars, listVars, queueVars, flagVars, mode, del, repost, woke,
                   ppc, histVars>>
DispatchNextNoAdvance ==
    /\ RGoto("adv", "loop")
    /\ UNCHANGED <<heapVars, listVars, queueVars, flagVars, mode, evt, del, repost, woke,
                   ppc, histVars>>

\* evt = evt->next; a further batch only if the list ended, events were posted
\* and the limit is not reached
DispatchNext ==
    /\ rpc = "adv"
    /\ evt' = next[evt]
    /\ rpc' = IF next[evt] = NULL /\ events # NULL /\ repost < RedispatchMax
              THEN "refree" ELSE "loop"
    /\ UNCHANGED <<heapVars, listVars, queueVars, flagVars, mode, del, repost, woke,
                   ppc, histVars>>

\* gwrl_evt_free_list(rl,del), one cell per step
FreeListOne ==
    /\ rpc \in {"refree", "lastfree"} /\ del # NULL
    /\ del' = next[del]
    /\ gwrl_evt_free(del)
    /\ UNCHANGED <<events, queueVars, flagVars, rpc, mode, evt, repost, woke, ppc,
                   histVars>>

\* repost_count++; evt = rl->events; del = evt; rl->events = NULL
Redispatch ==
    /\ RGoto("refree", "loop") /\ del = NULL
    /\ repost' = repost + 1
    /\ evt' = events /\ del' = events /\ events' = NULL
    /\ UNCHANGED <<heapVars, cevents, ncevents, queueVars, flagVars, mode, woke, ppc,
                   histVars>>

\* if(del) gwrl_evt_free_list(rl,del)
DispatchLoopEnd ==
    /\ RGoto("loop", "lastfree") /\ evt = NULL
    /\ UNCHANGED <<heapVars, listVars, queueVars, flagVars, mode, evt, del, repost,
                   woke, ppc, histVars>>

DispatchReturn ==
    /\ rpc = "lastfree" /\ del = NULL
    /\ rpc' = IF mode = "free" THEN "ffirst" ELSE "stopchk"
    /\ UNCHANGED <<heapVars, listVars, queueVars, flagVars, mode, evt, del, repost,
                   woke, ppc, histVars>>

\* Seeded fault: the flag is cleared but the loop goes on.
CheckStopIgnored ==
    /\ RGoto("stopchk", "time")
    /\ stop' = FALSE
    /\ UNCHANGED <<heapVars, listVars, queueVars, sleeping, nosleep, timeout, pipe,
                   mode, evt, del, repost, woke, ppc, histVars>>

\* if(flisset(rl->flags,GWRL_STOP)) { flclr(rl->flags,GWRL_STOP); return }
CheckStop ==
    /\ rpc = "stopchk"
    /\ rpc' = IF stop THEN "idle" ELSE "time"
    /\ mode' = IF stop THEN "none" ELSE mode
    /\ stop' = FALSE
    /\ UNCHANGED <<heapVars, listVars, queueVars, sleeping, nosleep, timeout, pipe,
                   evt, del, repost, woke, ppc, histVars>>

\* gwrl_time_gather, for at most one interval source: an expired interval posts
\* an event and the timeout becomes zero, else it is the time to the next one.
TimeGather ==
    /\ RGoto("time", "flset")
    /\ \/ /\ ~Interval
          /\ timeout' = "inf"
          /\ UNCHANGED <<heapVars, listVars>>
       \/ /\ Interval
          /\ timeout' = "finite"
          /\ UNCHANGED <<heapVars, listVars>>
       \/ /\ Interval
          /\ timeout' = "zero"
          /\ CreateAndPost("timer")
    /\ UNCHANGED <<queueVars, stop, sleeping, nosleep, pipe, mode, evt, del, repost,
                   woke, ppc, histVars>>

\* if(ms < 0 && NOSLEEP) ms = 0; flset(rl->flags,GWRL_SLEEPING)
SetSleeping ==
    /\ RGoto("flset", "poll")
    /\ sleeping' = TRUE
    /\ timeout' = IF timeout = "inf" /\ nosleep THEN "zero" ELSE timeout
    /\ UNCHANGED <<heapVars, listVars, queueVars, stop, nosleep, pipe, mode, evt, del,
                   repost, woke, ppc, histVars>>

\* epoll_wait returns: the pipe is readable, or the timeout elapsed
PollReturns ==
    /\ RGoto("poll", "flclr")
    /\ pipe \/ timeout # "inf"
    /\ woke' = pipe
    /\ UNCHANGED <<heapVars, listVars, queueVars, flagVars, mode, evt, del, repost, ppc,
                   histVars>>

\* epoll_wait fails with EINTR: nothing is gathered
PollInterrupted ==
    /\ RGoto("poll", "flclr")
    /\ woke' = FALSE
    /\ UNCHANGED <<heapVars, listVars, queueVars, flagVars, mode, evt, del, repost, ppc,
                   histVars>>

\* flclr(rl->flags,GWRL_SLEEPING)
ClearSleeping ==
    /\ RGoto("flclr", "gather")
    /\ sleeping' = FALSE
    /\ UNCHANGED <<heapVars, listVars, queueVars, stop, nosleep, timeout, pipe, mode,
                   evt, del, repost, woke, ppc, histVars>>

\* An event for each source epoll reported: here the pipe.
Gather ==
    /\ RGoto("gather", "gatherfn")
    /\ \/ woke /\ CreateAndPost("wake")
       \/ ~woke /\ UNCHANGED <<heapVars, listVars>>
    /\ UNCHANGED <<queueVars, flagVars, mode, evt, del, repost, woke, ppc, histVars>>

\* A custom gather function, which may post one event; then the next iteration
\* of gwrl_run, or the end of gwrl_run_once.
GatherFnc ==
    /\ rpc = "gatherfn"
    /\ rpc' = IF mode = "run" THEN "check" ELSE "idle"
    /\ mode' = IF mode = "run" THEN "run" ELSE "none"
    /\ \/ UNCHANGED <<heapVars, listVars, nfn>>
       \/ nfn < MaxFn /\ nfn' = nfn + 1 /\ CreateAndPost("fn")
    /\ UNCHANGED <<queueVars, flagVars, evt, del, repost, woke, ppc,
                   calls, qseq, tseq, installed, raced, tangled, unwoken>>

\* gwrl_free, after the dispatch: evt = rl->events, or the cache if there are none
FreeFirst ==
    /\ RGoto("ffirst", "fevt")
    /\ evt' = IF events # NULL THEN events ELSE cevents
    /\ cevents' = IF events # NULL THEN cevents ELSE NULL
    /\ UNCHANGED <<heapVars, events, ncevents, queueVars, flagVars, mode, del, repost,
                   woke, ppc, histVars>>

\* Seeded fault: the cache is forgotten.
FreeEventNoCache ==
    /\ rpc = "fevt" /\ evt # NULL
    /\ FreeCell(evt)
    /\ evt' = next[evt]
    /\ UNCHANGED <<listVars, queueVars, flagVars, rpc, mode, del, repost, woke,
                   ppc, histVars>>

\* free one event; at the end of a list go on with the cache
FreeEvent ==
    /\ rpc = "fevt" /\ evt # NULL
    /\ FreeCell(evt)
    /\ evt' = IF next[evt] # NULL THEN next[evt] ELSE cevents
    /\ cevents' = IF next[evt] # NULL THEN cevents ELSE NULL
    /\ UNCHANGED <<events, ncevents, queueVars, flagVars, rpc, mode, del, repost, woke,
                   ppc, histVars>>

\* if(rl->_qevt): here the head is read under the lock
FreeQueue ==
    /\ RGoto("fevt", "fqevt") /\ evt = NULL
    /\ qevtlk = NULL
    /\ evt' = qevt /\ qevt' = NULL
    /\ tseq' = qseq /\ qseq' = <<>>
    /\ UNCHANGED <<heapVars, listVars, qevtlk, flagVars, mode, del, repost, woke, ppc,
                   nfn, calls, installed, raced, tangled, unwoken>>

FreeQueued ==
    /\ rpc = "fqevt" /\ evt # NULL
    /\ FreeCell(evt)
    /\ evt' = next[evt] /\ tseq' = Tail(tseq)
    /\ UNCHANGED <<listVars, queueVars, flagVars, rpc, mode, del, repost, woke, ppc,
                   nfn, calls, qseq, installed, raced, tangled, unwoken>>

\* the locks, the backend, the pipe and rl itself are released
FreeDone ==
    /\ RGoto("fqevt", "freed") /\ evt = NULL
    /\ UNCHANGED <<heapVars, listVars, queueVars, flagVars, mode, evt, del, repost,
                   woke, ppc, histVars>>

InstallStep == CheckQueue \/ TakeHead \/ TakeLock \/ ClearQueue \/ InstallOne \/ InstallDone
DispatchStep ==
    \/ DispatchStart \/ UserCallback \/ WakeActivity \/ DispatchNext \/ FreeListOne
    \/ Redispatch \/ DispatchLoopEnd \/ DispatchReturn \/ CheckStop
GatherStep ==
    TimeGather \/ SetSleeping \/ PollReturns \/ ClearSleeping \/ Gather \/ GatherFnc
FreeStep == FreeFirst \/ FreeEvent \/ FreeQueue \/ FreeQueued \/ FreeDone
ReactorStep == InstallStep \/ DispatchStep \/ GatherStep \/ FreeStep
ClientCall == gwrl_run \/ gwrl_run_once \/ gwrl_allow_poll_sleep \/ gwrl_free

\* The program has ended: rl is gone.
Freed == rpc = "freed" /\ UNCHANGED vars

Next ==
    \/ ReactorStep \/ PollInterrupted \/ ClientCall \/ Freed
    \/ \E e \in Post : PStart(e) \/ PosterStep(e)

(* Fairness: the scheduler runs the reactor thread and a thread that is      *)
(* inside gwrl_post_evt_safely; the client keeps running the loop.  Nothing  *)
(* obliges a client to post, to stop or to free, or a signal to arrive.      *)
Fairness ==
    /\ WF_vars(ReactorStep)
    /\ WF_vars(gwrl_run \/ gwrl_run_once)
    /\ \A e \in Post : WF_vars(PosterStep(e))

Spec == Init /\ [][Next]_vars /\ Fairness

-----------------------------------------------------------------------------
(* What the pointers reach.                                                  *)

Reach(h) == Reachable(next, h)

Pushed(e) == ppc[e] \in {"test", "write", "done"}
\* Posted, neither called nor released yet.
Pending(e) == Pushed(e) /\ calls[e] = 0 /\ what[e] = "post"

(* Posting loses an event only in the window of install_queued_events        *)
(* between its unlocked read of rl->_qevt and the store of NULL: every other *)
(* posted event stays reachable from a list the reactor will still walk.     *)
PostedIsReachable ==
    ~tangled => \A e \in Post :
        Pending(e) /\ e \notin raced => e \in Reach(qevt) \cup Reach(events) \cup Reach(evt)

(* The lists of the reactor own their cells: no cell is on two of them, and  *)
(* all are allocated, so that neither gwrl_evt_free nor free() is applied    *)
(* twice, nor to a queued event.                                             *)
OwnedOnce ==
    ~tangled /\ rpc \notin FreePCs =>
        LET queue  == IF rpc \in {"lock", "clear"} THEN {} ELSE Reach(qevt)
            taken  == IF rpc \in {"lock", "clear", "inst"} THEN Reach(evt) ELSE {}
            lists  == <<queue, taken, Reach(events), Reach(cevents), Reach(del)>>
        IN  \A i \in 1..5 : /\ lists[i] \subseteq alloc
                            /\ \A j \in 1..5 : i # j => lists[i] \cap lists[j] = {}

(* gwrl_free releases every event the reactor was given, including the ones  *)
(* left by the redispatch limit and the queued ones: only events lost in the *)
(* race and events never posted stay allocated.                              *)
FreeReleasesAll ==
    rpc = "freed" => alloc = raced \cup {e \in Post : ppc[e] = "new"}

(* The loop sleeps over work only in two known ways.  It waits without a     *)
(* limit over undispatched events only when gwrl_dispatch gave up at         *)
(* GWRL_REDISPATCH_MAX; and while it polls, a queued event whose post has    *)
(* returned has made the pipe readable, unless its poster found              *)
(* GWRL_SLEEPING clear.  (Such a post, between the loop's look at the queue  *)
(* and its sleep, wakes nobody, although doc.pod:1349-1350 lets other        *)
(* threads post "safely, at any time".)                                      *)
SleepIsJustified ==
    rpc = "poll" =>
        /\ timeout = "inf" /\ events # NULL => repost = RedispatchMax
        /\ \A e \in Post :
            e \in Reach(qevt) /\ ppc[e] = "done" /\ e \notin unwoken => pipe

(* While a poster is between reading rl->_qevt and storing its event there,  *)
(* the head it linked to is still the head: no push overwrites another.      *)
PushIsFresh == \A e \in Post : ppc[e] = "push" => next[e] = qevt

(* h heads the linked list of the cells of s, in that order.                 *)
IsList(h, s) ==
    /\ h = IF s = <<>> THEN NULL ELSE s[1]
    /\ \A i \in 1..Len(s) : next[s[i]] = IF i = Len(s) THEN NULL ELSE s[i + 1]

(* rl->_qevt heads exactly the events pushed since it was last cleared, and  *)
(* the walk of install_queued_events covers exactly the events that were     *)
(* queued when it read the head.                                             *)
QueueIsList == /\ IsList(qevt, qseq)
               /\ rpc \in {"lock", "clear", "inst", "fqevt"} => IsList(evt, tseq)

(* Up to gwrl_post_evt every posted event is accounted for.                  *)
PostedIsAccounted ==
    \A e \in Post : Pushed(e) /\ mode # "free" =>
        e \in Elems(qseq) \cup Elems(tseq) \cup installed \cup raced

(* The inductive invariant behind the last three.  A posted event is the     *)
(* posting side's until it is installed; no pointer of the reactor leads to  *)
(* such a cell, except the walk over the queued events itself, so no cell    *)
(* operation of the reactor thread can touch a linked event of the queue.    *)
Foreign(c) == what[c] = "post" /\ c \notin installed
ReactorPtr(p) == p = NULL \/ ~Foreign(p)
WalkPCs == {"lock", "clear", "inst", "fqevt"}

ControlInv == /\ mode = "free" => rpc \in DispatchPCs \cup FreePCs
              /\ rpc \in FreePCs => mode = "free"
              /\ rpc = "refree" => repost < RedispatchMax
LockInv == /\ \A e \in Post : ppc[e] \in {"link", "push"} <=> qevtlk = e
           /\ rpc = "clear" <=> qevtlk = RL
CellInv == /\ \A c \in Evt : what[c] = "post" => c \in Post
           /\ \A c \in Evt : Foreign(c) => c \in alloc
           /\ \A e \in Post : ~Pushed(e) => Foreign(e)
PtrInv == /\ ReactorPtr(events) /\ ReactorPtr(cevents) /\ ReactorPtr(del)
          /\ rpc \notin WalkPCs => ReactorPtr(evt)
          /\ rpc = "adv" => evt # NULL
          /\ \A c \in Evt : \/ Foreign(c) \/ ReactorPtr(next[c])
                            \/ rpc \in {"inst", "fqevt"} /\ next[c] = evt
SeqOwned(s) == /\ \A i \in 1..Len(s) : Foreign(s[i]) /\ Pushed(s[i])
               /\ \A i, j \in 1..Len(s) : s[i] = s[j] => i = j
SeqInv == /\ SeqOwned(qseq) /\ SeqOwned(tseq)
          /\ rpc \notin WalkPCs => tseq = <<>>
          /\ rpc \in {"inst", "fqevt"} => Elems(qseq) \cap Elems(tseq) = {}

QueueInv == /\ TypeOK /\ ControlInv /\ LockInv /\ CellInv /\ PtrInv /\ SeqInv
            /\ PushIsFresh /\ QueueIsList /\ PostedIsAccounted

MB == INSTANCE Mailbox WITH posted <- {e \in Post : Pushed(e)}, closed <- mode = "free"

(* The queue, the lists, the redispatch and the wake pipe together are a      *)
(* mailbox: an event is called after it was posted, once and only once, and   *)
(* in the end it is called, for a synchronous client that keeps the loop      *)
(* running.                                                                   *)
IsMailbox == MB!Spec

(* gwrl_stop ends the loop.                                                  *)
StopEndsRun == stop ~> (rpc = "idle" \/ mode = "free")

-----------------------------------------------------------------------------
(* What the documentation promises of posting from other threads.            *)

(* No posted event is ever lost.                                             *)
NoEventLost == raced = {}
=============================================================================
