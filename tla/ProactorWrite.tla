--------------------------- MODULE ProactorWrite ---------------------------
(* The write side of the proactor (src/src/gwrl/proactor_imp.c): gwpr_write, *)
(* gwpr_send and gwpr_sendto on non-blocking descriptors, the write queue    *)
(* of each file source, and gwpr_src_activity, which writes the queue when   *)
(* the backend reports the descriptor writable.                              *)
(*                                                                           *)
(* The queue is the linked list of the code: pdata->wrq and pdata->wrqlast   *)
(* are pointers to gwprwrq cells, which all sources of the proactor take     *)
(* from one cache.  A buffer is the sequence of its bytes; a byte is named   *)
(* by the write it belongs to and its position, so that a byte lost, sent    *)
(* twice or sent out of order shows.  Everything runs on the reactor thread; *)
(* the kernel decides how much of a buffer a write takes and how it fails.   *)
EXTENDS Integers, Sequences, SequencesExt, FiniteSets

CONSTANTS
    Src,        \* file sources of the proactor
    NCells,     \* bound: write queue cells the heap can provide
    NULL,       \* the null pointer
    Errno,      \* how writes fail: "again", "closed", "other"
    Callbacks,  \* callbacks the client has set besides did_write: "closed", "error"
    Clients     \* the clients and kernels to check, each a record of
                \*   src         the sources it writes to
                \*   len         length of its buffers
                \*   writes      bound: writes it makes
                \*   dels        bound: sources it deletes
                \*   cache       options.gwpr_wrqueue_cache_max
                \*   sync        whether a buffer is within the maximum of a
                \*               synchronous write: {TRUE}, {FALSE} or BOOLEAN
                \*   partial     the kernel may take a part of a buffer
                \*   pipelined   it writes before its last write is reported whole
                \*   inCallback  it writes inside its did_write callback

ASSUME SrcAssumption == IsFiniteSet(Src) /\ Src # {}
ASSUME BoundAssumption == NCells \in Nat
ASSUME NullAssumption == NULL \notin Nat
ASSUME ClientAssumption ==
    \A c \in Clients :
        /\ c.src \subseteq Src /\ c.len \in Nat \ {0} /\ c.writes \in Nat /\ c.dels \in Nat
        /\ c.cache \in Nat
        /\ {c.partial, c.pipelined, c.inCallback} \cup c.sync \subseteq BOOLEAN
ASSUME ErrnoAssumption ==
    /\ Errno \subseteq {"again", "closed", "other"} /\ "again" \in Errno
    /\ Callbacks \subseteq {"closed", "error"}

Cell == 1..NCells
Ptr == Cell \cup {NULL}
\* the byte i of the k-th write is <<k, i>>
Byte == Nat \X Nat

VARIABLES
    h,         \* the cells and the pointers to them: a record of
               \*   next, buf        fields of gwprwrq
               \*   alloc            cells obtained from calloc and not freed
               \*   wrq, wrqlast     pdata->wrq and pdata->wrqlast of each source
               \*   cache, ncache    pr->wrqcache and pr->nwrqcache
               \*   fault            a freed cell was written, or a cyclic list walked
    wr,        \* sources with GWRL_WR set, for which the backend polls writability
    events,    \* rl->events: [kind, src, cell, rest], newest first
    batch,     \* the events gwrl_dispatch has taken and not yet called
    \* gwpr_src_activity
    pc, act,   \* its position and its source
    q, qn,     \* locals q and qn
    written, errnm, stopwrite,
    \* the environment and history variables
    client,    \* the member of Clients
    closed,    \* sources whose peer has closed the connection
    nwrites,   \* writes of the client so far
    deleted,   \* sources it has deleted
    submitted, \* bytes the client gave to gwpr_write
    sent,      \* bytes the kernel took
    reported,  \* bytes reported by did_write
    returned,  \* bytes given back by the closed or the error callback
    halted,    \* sources whose queue waits with write events shut off
    leaked,    \* cells no pointer of the program reaches any more
    failed,    \* sources that had an error other than would-block or closed in the
               \* middle of a buffer: what was not written is given to the error
               \* callback or dropped
    short      \* sources that had a synchronous write that fell short: what was not
               \* written is given to a callback or dropped, what was is queued again

actVars == <<pc, act, q, qn, written, errnm, stopwrite>>
failVars == <<failed, short>>
histVars == <<submitted, sent, reported, returned, halted, leaked, failVars>>
clientVars == <<client, deleted>>
vars == <<h, wr, events, batch, actVars, closed, nwrites, clientVars, histVars>>

\* the bytes the client gives to its k-th write
Data(k) == [i \in 1..client.len |-> <<k, i>>]

Kinds == {"WR", "SYNC_WRITE", "SYNC_CLOSE", "SYNC_ERROR"}
Event == [kind : Kinds, src : Src, cell : Ptr, rest : Seq(Byte)]
PCs == {"idle", "item", "cb", "result", "end", "synccb", "freed"}

TypeOK ==
    /\ h.next \in [Cell -> Ptr] /\ h.buf \in [Cell -> Seq(Byte)] /\ h.alloc \subseteq Cell
    /\ h.wrq \in [Src -> Ptr] /\ h.wrqlast \in [Src -> Ptr]
    /\ h.cache \in Ptr /\ h.ncache \in 0..client.cache /\ h.fault \in BOOLEAN
    /\ wr \subseteq Src /\ events \in Seq(Event) /\ batch \in Seq(Event)
    /\ pc \in PCs /\ act \in Src /\ q \in Ptr /\ qn \in Ptr
    /\ written \in 0..client.len /\ errnm \in Errno \cup {"ok"} /\ stopwrite \in BOOLEAN
    /\ client \in Clients /\ deleted \subseteq Src
    /\ closed \subseteq Src /\ nwrites \in 0..client.writes
    /\ \A f \in {submitted, sent, reported, returned} : f \in [Src -> Seq(Byte)]
    /\ halted \subseteq Src /\ leaked \subseteq Cell
    /\ failed \subseteq Src /\ short \subseteq Src

\* gwpr_create and gwpr_src_add: zeroed structures, no write events
Init ==
    /\ h = [next |-> [c \in Cell |-> NULL], buf |-> [c \in Cell |-> <<>>], alloc |-> {},
            wrq |-> [s \in Src |-> NULL], wrqlast |-> [s \in Src |-> NULL],
            cache |-> NULL, ncache |-> 0, fault |-> FALSE]
    /\ wr = {} /\ events = <<>> /\ batch = <<>>
    /\ pc = "idle" /\ act = (CHOOSE s \in Src : TRUE) /\ q = NULL /\ qn = NULL
    /\ written = 0 /\ errnm = "ok" /\ stopwrite = FALSE
    /\ closed = {} /\ nwrites = 0 /\ client \in Clients /\ deleted = {}
    /\ submitted = [s \in Src |-> <<>>] /\ sent = submitted
    /\ reported = submitted /\ returned = submitted
    /\ halted = {} /\ leaked = {} /\ failed = {} /\ short = {}

-----------------------------------------------------------------------------
(* Lists of cells.                                                           *)

\* The cells from p on.  A list with a cycle is cut off when it is longer than
\* the heap.
Chain(nx, p) ==
    LET C[n \in 0..NCells] ==
          IF n = 0 THEN IF p = NULL THEN <<>> ELSE <<p>>
          ELSE LET c == C[n - 1]
               IN  IF c = <<>> \/ nx[Last(c)] = NULL THEN c ELSE Append(c, nx[Last(c)])
    IN  C[NCells]
Cyclic(nx, p) == Len(Chain(nx, p)) > NCells

\* gwprwrq_get: the cell it returns and the heap after it.  Which free cell
\* calloc picks matters only to a dangling wrqlast, whose use is a fault.
GetCell(g) == IF g.cache # NULL THEN g.cache ELSE CHOOSE c \in Cell : c \notin g.alloc

\* Bound: the heap has n more cells.  (gwprwrq_get tries until it gets one.)
HeapHas(n) == Cardinality(h.alloc) + n =< NCells

\* Seeded fault: the cache is counted down although it is empty.
GetAlwaysCounts(g) ==
    LET c == GetCell(g)
    IN  [g EXCEPT !.next[c] = NULL, !.alloc = @ \cup {c},
                  !.cache = IF g.cache # NULL THEN g.next[c] ELSE @, !.ncache = @ - 1]

gwprwrq_get(g) ==
    LET c == GetCell(g)
    IN  [g EXCEPT !.next[c] = NULL, !.alloc = @ \cup {c},
                  !.cache = IF g.cache # NULL THEN g.next[c] ELSE @,
                  !.ncache = IF g.cache # NULL THEN @ - 1 ELSE @]

\* Seeded fault: the rest of the cache is dropped.
FreeDropsCache(g, c) ==
    IF g.ncache = client.cache
    THEN [g EXCEPT !.alloc = @ \ {c}]
    ELSE [g EXCEPT !.next[c] = NULL, !.buf[c] = <<>>, !.cache = c, !.ncache = @ + 1]

\* gwprwrq_free: keep the cell in the cache unless the cache is full
gwprwrq_free(g, c) ==
    IF g.ncache = client.cache
    THEN [g EXCEPT !.alloc = @ \ {c}]
    ELSE [g EXCEPT !.next[c] = g.cache, !.buf[c] = <<>>, !.cache = c, !.ncache = @ + 1]

\* gwprwrq_putback: the list c goes before the queue of s
gwprwrq_putback(g, s, c) ==
    IF g.wrq[s] = NULL THEN [g EXCEPT !.wrq[s] = c]
    ELSE IF Cyclic(g.next, c) \/ Cyclic(g.next, g.wrq[s]) THEN [g EXCEPT !.fault = TRUE]
    ELSE LET tail == Last(Chain(g.next, g.wrq[s]))
         IN  [g EXCEPT !.wrq[s] = c, !.next[Last(Chain(g.next, c))] = g.wrq[s],
                       !.wrqlast[s] = tail]

\* Seeded fault: wrqlast stays at the second cell of the queue.
AddKeepsLast(g, s, c) ==
    IF g.wrq[s] = NULL THEN [g EXCEPT !.wrq[s] = c, !.next[c] = NULL]
    ELSE IF g.wrqlast[s] = NULL
    THEN [g EXCEPT !.wrqlast[s] = c, !.next[g.wrq[s]] = c]
    ELSE [g EXCEPT !.next[g.wrqlast[s]] = c]

\* gwprwrq_add: c goes to the end.  The first cell of a queue leaves wrqlast as
\* it is.
gwprwrq_add(g, s, c) ==
    IF g.wrq[s] = NULL THEN [g EXCEPT !.wrq[s] = c, !.next[c] = NULL]
    ELSE IF g.wrqlast[s] = NULL
    THEN [g EXCEPT !.wrqlast[s] = c, !.next[g.wrq[s]] = c]
    ELSE [g EXCEPT !.next[g.wrqlast[s]] = c, !.wrqlast[s] = c,
                   !.fault = @ \/ g.wrqlast[s] \notin g.alloc]

-----------------------------------------------------------------------------
(* gwpr_write, gwpr_send, gwpr_sendto.                                       *)

\* Seeded fault: write events are not enabled.
WantsNothing(s) == wr

\* flset(flags,GWRL_ENABLED|GWRL_WR); gwrl_src_file_update_flags
WantsWrite(s) == wr \cup {s}

\* gwpr_asynchronous_write without the flags: a cell with the buffer b is added
Queue(g, s, b) ==
    LET c == GetCell(g)
    IN  gwprwrq_add([gwprwrq_get(g) EXCEPT !.buf[c] = b], s, c)

\* gwpr_write_buffer: the bytes of b the kernel takes and how it fails.  The
\* loop ends with an error unless everything was written; a closed connection
\* stays closed.
Outcomes(s, b) ==
    {o \in (0..Len(b)) \X (Errno \cup {"ok"}) :
        /\ o[1] = Len(b) <=> o[2] = "ok"
        /\ o[1] \in {0, Len(b)} \/ client.partial
        /\ (s \in closed /\ b # <<>>) => o = <<0, "closed">>}

\* Seeded fault: the length of the buffer is not set to what was written.
TakeAll(b, n) == b

\* buf->len = written, and the copy of the remaining bytes
Take(b, n) == SubSeq(b, 1, n)
Rest(b, n) == SubSeq(b, n + 1, Len(b))
Evt(k, s, c, rest) == [kind |-> k, src |-> s, cell |-> c, rest |-> rest]

\* The client may call a write function now: outside gwpr_src_activity, or in
\* its did_write callback.
MayWrite(s) ==
    /\ s \in client.src \ deleted /\ nwrites < client.writes /\ ~h.fault
    /\ pc = "idle" \/ (pc \in {"cb", "synccb"} /\ client.inCallback)
    /\ client.pipelined \/ reported[s] = submitted[s]
    /\ HeapHas(3)
Submit(s) ==
    /\ MayWrite(s)
    /\ nwrites' = nwrites + 1
    /\ submitted' = [submitted EXCEPT ![s] = @ \o Data(nwrites + 1)]

\* The queue is not empty, or no synchronous write is tried.
WriteQueued(s) ==
    /\ Submit(s)
    /\ h.wrq[s] # NULL \/ FALSE \in client.sync
    /\ h' = Queue(h, s, Data(nwrites + 1))
    /\ wr' = WantsWrite(s) /\ halted' = halted \ {s}
    /\ UNCHANGED <<events, batch, actVars, closed, sent, reported, returned, leaked, failVars,
                   clientVars>>

\* gwpr_synchronous_write: everything is written, an event is posted
SyncFull(s) ==
    LET b == Data(nwrites + 1)
        c == GetCell(h)
    IN  /\ Submit(s) /\ h.wrq[s] = NULL /\ TRUE \in client.sync
        /\ <<Len(b), "ok">> \in Outcomes(s, b)
        /\ sent' = [sent EXCEPT ![s] = @ \o b]
        /\ h' = [gwprwrq_get(h) EXCEPT !.buf[c] = b]
        /\ events' = <<Evt("SYNC_WRITE", s, c, <<>>)>> \o events
        /\ UNCHANGED <<wr, batch, actVars, closed, reported, returned, halted, leaked,
                       failVars, clientVars>>

\* gwpr_synchronous_write_result when not everything was written: an event with
\* what was written, and then, by the error, the queue (twice if nothing was
\* written; the buffer queued is the one whose length was set to what was
\* written), a close event or an error event, the last also when the write was
\* partial because it would block.
SyncShort(s) ==
    LET b == Data(nwrites + 1)
        c == GetCell(h)
    IN  /\ Submit(s) /\ h.wrq[s] = NULL /\ TRUE \in client.sync
        /\ \E o \in Outcomes(s, b) :
            LET done == Take(b, o[1])
                g    == [gwprwrq_get(h) EXCEPT !.buf[c] = done]
                c2   == GetCell(g)
                ev   == <<Evt("SYNC_WRITE", s, c, <<>>)>> \o events
            IN  /\ o[2] # "ok"
                /\ sent' = [sent EXCEPT ![s] = @ \o SubSeq(b, 1, o[1])]
                /\ closed' = IF o[2] = "closed" THEN closed \cup {s} ELSE closed
                /\ short' = short \cup {s}
                /\ \/ /\ o[2] = "again"
                      /\ h' = IF o[1] = 0 THEN Queue(Queue(g, s, done), s, done)
                              ELSE Queue(g, s, done)
                      /\ wr' = WantsWrite(s) /\ halted' = halted \ {s}
                      /\ events' = IF o[1] = 0 THEN ev
                                   ELSE <<Evt("SYNC_ERROR", s, NULL, Rest(b, o[1]))>> \o ev
                   \/ /\ o[2] = "closed"
                      /\ h' = [gwprwrq_get(g) EXCEPT !.buf[c2] = Rest(b, o[1])]
                      /\ events' = <<Evt("SYNC_CLOSE", s, c2, <<>>)>> \o ev
                      /\ UNCHANGED <<wr, halted, clientVars>>
                   \/ /\ o[2] = "other"
                      /\ h' = g
                      /\ events' = <<Evt("SYNC_ERROR", s, NULL, Rest(b, o[1]))>> \o ev
                      /\ UNCHANGED <<wr, halted, clientVars>>
        /\ UNCHANGED <<batch, actVars, reported, returned, leaked, failed, clientVars>>

gwpr_write(s) == WriteQueued(s) \/ SyncFull(s) \/ SyncShort(s)

-----------------------------------------------------------------------------
(* The reactor: gathering and dispatching.                                   *)

Pending == events \o batch

\* The backend reports a descriptor that is polled for writing.  Events may be
\* posted already, as gwrl_dispatch gives up at GWRL_REDISPATCH_MAX.
Writable(s) ==
    /\ pc = "idle" /\ ~h.fault /\ batch = <<>> /\ s \in wr
    /\ \A i \in 1..Len(events) : events[i].kind # "WR" \/ events[i].src # s
    /\ events' = <<Evt("WR", s, NULL, <<>>)>> \o events
    /\ UNCHANGED <<h, wr, batch, actVars, closed, nwrites, histVars, clientVars>>

\* gwrl_dispatch takes the events.
NextBatch ==
    /\ pc = "idle" /\ ~h.fault /\ batch = <<>> /\ events # <<>>
    /\ batch' = events /\ events' = <<>>
    /\ UNCHANGED <<h, wr, actVars, closed, nwrites, histVars, clientVars>>

Called(k) ==
    /\ pc = "idle" /\ ~h.fault /\ batch # <<>> /\ Head(batch).kind = k
    /\ batch' = Tail(batch)

\* GWRL_WR: q = pdata->wrq; pdata->wrq = NULL
ActivityWrite ==
    LET s == Head(batch).src
    IN  /\ Called("WR")
        /\ pc' = "item" /\ act' = s /\ q' = h.wrq[s] /\ stopwrite' = FALSE
        /\ h' = [h EXCEPT !.wrq[s] = NULL]
        /\ UNCHANGED <<wr, events, qn, written, errnm, closed, nwrites, histVars, clientVars>>

\* GWRL_SYNC_WRITE: q = evt->userdata; did_write
ActivitySyncWrite ==
    LET e == Head(batch)
    IN  /\ Called("SYNC_WRITE")
        /\ pc' = "synccb" /\ act' = e.src /\ q' = e.cell
        /\ reported' = [reported EXCEPT ![e.src] = @ \o h.buf[e.cell]]
        /\ UNCHANGED <<h, wr, events, qn, written, errnm, stopwrite, closed, nwrites,
                       submitted, sent, returned, halted, leaked, failVars, clientVars>>

\* after did_write: gwprwrq_free
SyncWriteEnd ==
    /\ pc = "synccb" /\ ~h.fault /\ pc' = "idle" /\ q' = NULL
    /\ h' = gwprwrq_free(h, q)
    /\ UNCHANGED <<wr, events, batch, act, qn, written, errnm, stopwrite, closed, nwrites,
                   histVars, clientVars>>

\* GWRL_SYNC_CLOSE: the closed callback gets no buffer; the cell is not freed
ActivitySyncClose ==
    /\ Called("SYNC_CLOSE")
    /\ leaked' = leaked \cup {Head(batch).cell}
    /\ UNCHANGED <<h, wr, events, actVars, closed, nwrites, submitted, sent, reported,
                   returned, halted, failVars, clientVars>>

\* GWRL_SYNC_ERROR: the error callback gets the rest of the buffer
ActivitySyncError ==
    LET e == Head(batch)
    IN  /\ Called("SYNC_ERROR")
        /\ returned' = IF "error" \in Callbacks
                       THEN [returned EXCEPT ![e.src] = @ \o e.rest] ELSE returned
        /\ UNCHANGED <<h, wr, events, actVars, closed, nwrites, submitted, sent, reported,
                       halted, leaked, failVars, clientVars>>

-----------------------------------------------------------------------------
(* gwpr_src_activity: the loop over the queue.                               *)

\* qn = q->next; gwpr_src_activity_write_qitem; then did_write is called with
\* what was written, unless that is nothing
WriteItem ==
    /\ pc = "item" /\ q # NULL
    /\ qn' = h.next[q]
    /\ \E o \in Outcomes(act, h.buf[q]) :
        /\ written' = o[1] /\ errnm' = o[2]
        /\ closed' = IF o[2] = "closed" THEN closed \cup {act} ELSE closed
        /\ sent' = [sent EXCEPT ![act] = @ \o SubSeq(h.buf[q], 1, o[1])]
        /\ reported' = [reported EXCEPT ![act] = @ \o Take(h.buf[q], o[1])]
        /\ pc' = IF o[1] > 0 \/ o[2] = "ok" THEN "cb" ELSE "result"
    /\ UNCHANGED <<h, wr, events, batch, act, q, stopwrite, nwrites, submitted, returned,
                   halted, leaked, failVars, clientVars>>

\* The rest of gwpr_src_activity_write_qitem_result, by how the write ended.
Result(k) == pc \in {"cb", "result"} /\ ~h.fault /\ errnm = k
Rem == Rest(h.buf[q], written)

\* everything was written: gwprwrq_free(q); q = qn
ResultWritten ==
    /\ Result("ok") /\ pc' = "item" /\ q' = qn
    /\ h' = gwprwrq_free(h, q)
    /\ UNCHANGED <<wr, events, batch, act, qn, written, errnm, stopwrite, closed, nwrites,
                   histVars, clientVars>>

\* Seeded fault: the whole buffer is put back after a partial write.
ResultPartialWhole ==
    /\ Result("again") /\ written > 0 /\ pc' = "end"
    /\ h' = gwprwrq_putback(h, act, q)
    /\ UNCHANGED <<wr, events, batch, act, q, qn, written, errnm, stopwrite, closed,
                   nwrites, histVars, clientVars>>

\* a part was written: a new cell with the rest goes before the queue; nobody
\* frees q
ResultPartial ==
    LET c == GetCell(h)
        g == [gwprwrq_get(h) EXCEPT !.buf[c] = Rem, !.next[c] = h.next[q]]
    IN  /\ Result("again") /\ written > 0 /\ pc' = "end"
        /\ HeapHas(1)
        /\ h' = gwprwrq_putback(g, act, c)
        /\ leaked' = leaked \cup {q}
        /\ UNCHANGED <<wr, events, batch, act, q, qn, written, errnm, stopwrite, closed,
                       nwrites, submitted, sent, reported, returned, halted, failVars,
                       clientVars>>

\* nothing was written: the queue is restored from q on
ResultBlocked ==
    /\ Result("again") /\ written = 0 /\ pc' = "end"
    /\ h' = gwprwrq_putback(h, act, q)
    /\ UNCHANGED <<wr, events, batch, act, q, qn, written, errnm, stopwrite, closed,
                   nwrites, histVars, clientVars>>

\* ECONNRESET, EPIPE: the closed callback gets the rest after a partial write,
\* else nothing; the loop goes on
ResultClosed ==
    /\ Result("closed") /\ pc' = "item" /\ q' = qn
    /\ returned' = IF "closed" \in Callbacks /\ written > 0
                   THEN [returned EXCEPT ![act] = @ \o Rem] ELSE returned
    /\ h' = gwprwrq_free(h, q)
    /\ UNCHANGED <<wr, events, batch, act, qn, written, errnm, stopwrite, closed, nwrites,
                   submitted, sent, reported, halted, leaked, failVars, clientVars>>

\* another error: the error callback gets the unwritten data, q (its buffer cut
\* to what was written, if anything was) is put back and writing stops; without
\* an error callback the item is dropped
ResultError ==
    /\ Result("other")
    /\ failed' = IF written > 0 \/ "error" \notin Callbacks THEN failed \cup {act} ELSE failed
    /\ IF "error" \in Callbacks
       THEN LET g == IF written > 0 THEN [h EXCEPT !.buf[q] = Take(@, written)] ELSE h
            IN  /\ h' = gwprwrq_putback(g, act, q)
                /\ returned' = IF written > 0 THEN [returned EXCEPT ![act] = @ \o Rem]
                               ELSE returned
                /\ pc' = "end" /\ stopwrite' = TRUE /\ UNCHANGED q
       ELSE /\ h' = gwprwrq_free(h, q) /\ q' = qn /\ pc' = "item"
            /\ UNCHANGED <<returned, stopwrite>>
    /\ UNCHANGED <<wr, events, batch, act, qn, written, errnm, closed, nwrites, submitted,
                   sent, reported, halted, leaked, short, clientVars>>

LoopEnd ==
    /\ pc = "item" /\ q = NULL /\ pc' = "end"
    /\ UNCHANGED <<h, wr, events, batch, act, q, qn, written, errnm, stopwrite, closed,
                   nwrites, histVars, clientVars>>

\* Seeded fault: write events are shut off whatever is queued.
ActivityEndAlways ==
    /\ pc = "end" /\ ~h.fault /\ pc' = "idle" /\ q' = NULL /\ qn' = NULL
    /\ written' = 0 /\ errnm' = "ok" /\ stopwrite' = FALSE
    /\ wr' = wr \ {act}
    /\ halted' = IF stopwrite /\ h.wrq[act] # NULL THEN halted \cup {act} ELSE halted
    /\ UNCHANGED <<h, events, batch, act, closed, nwrites,
                   submitted, sent, reported, returned, leaked, failVars, clientVars>>

\* if(!pdata->wrq || stopwrite): write events are shut off
ActivityEnd ==
    /\ pc = "end" /\ ~h.fault /\ pc' = "idle" /\ q' = NULL /\ qn' = NULL
    /\ written' = 0 /\ errnm' = "ok" /\ stopwrite' = FALSE
    /\ wr' = IF h.wrq[act] = NULL \/ stopwrite THEN wr \ {act} ELSE wr
    /\ halted' = IF stopwrite /\ h.wrq[act] # NULL THEN halted \cup {act} ELSE halted
    /\ UNCHANGED <<h, events, batch, act, closed, nwrites,
                   submitted, sent, reported, returned, leaked, failVars, clientVars>>

Reach(p) == ToSet(Chain(h.next, p))

\* gwpr_src_del, between activities and with no event of the source waiting:
\* pdata is freed, the cells of its queue are not
gwpr_src_del(s) ==
    /\ pc = "idle" /\ ~h.fault /\ s \in client.src \ deleted
    /\ Cardinality(deleted) < client.dels
    /\ \A i \in 1..Len(Pending) : Pending[i].src # s
    /\ deleted' = deleted \cup {s} /\ leaked' = leaked \cup Reach(h.wrq[s])
    /\ h' = [h EXCEPT !.wrq[s] = NULL, !.wrqlast[s] = NULL]
    /\ wr' = wr \ {s} /\ halted' = halted \ {s}
    /\ UNCHANGED <<events, batch, actVars, closed, nwrites, client, submitted, sent,
                   reported, returned, failVars>>

\* gwpr_free, after its gwrl_dispatch: the sources are disabled, the queues and
\* the cache are freed
gwpr_free ==
    /\ pc = "idle" /\ ~h.fault /\ Pending = <<>> /\ pc' = "freed"
    /\ h' = [h EXCEPT !.alloc = @ \ (Reach(h.cache) \cup UNION {Reach(h.wrq[s]) : s \in Src}),
                      !.wrq = [s \in Src |-> NULL], !.wrqlast = [s \in Src |-> NULL]]
    /\ wr' = {}
    /\ UNCHANGED <<events, batch, act, q, qn, written, errnm, stopwrite, closed, nwrites,
                   histVars, clientVars>>

\* The proactor is gone; or a freed cell was used, and what the program does
\* from then on is undefined.
Ended == (pc = "freed" \/ h.fault) /\ UNCHANGED vars

Activity ==
    \/ WriteItem \/ ResultWritten \/ ResultPartial \/ ResultBlocked \/ ResultClosed
    \/ ResultError \/ LoopEnd \/ ActivityEnd
Dispatch ==
    \/ NextBatch \/ ActivityWrite \/ ActivitySyncWrite \/ SyncWriteEnd
    \/ ActivitySyncClose \/ ActivitySyncError
Next ==
    \/ Activity \/ Dispatch \/ gwpr_free \/ Ended
    \/ \E s \in Src : gwpr_write(s) \/ Writable(s) \/ gwpr_src_del(s)

\* The write of an item that the kernel takes some of.
Progress == WriteItem /\ written' > 0

(* The reactor thread is scheduled, a polled descriptor becomes writable, and *)
(* a descriptor that keeps being written to takes data in the end.  The       *)
(* client need not write, nor free the proactor.                              *)
Fairness ==
    /\ WF_vars(Activity) /\ WF_vars(Dispatch)
    /\ \A s \in Src : WF_vars(Writable(s)) /\ SF_vars(Progress /\ act = s)

Spec == Init /\ [][Next]_vars /\ Fairness

-----------------------------------------------------------------------------

\* The bytes in the queue of s.
Contents(s) ==
    LET c == Chain(h.next, h.wrq[s])
    IN  FlattenSeq([i \in 1..Len(c) |-> h.buf[c[i]]])

(* Sent is a prefix of what was given to gwpr_write, and between two          *)
(* activities the rest of it is the queue, which a closed connection drops.   *)
Intact(s) ==
    /\ IsPrefix(sent[s], submitted[s])
    /\ pc = "idle" /\ s \notin closed => sent[s] \o Contents(s) = submitted[s]

(* The bytes given to gwpr_write are sent in order, none of them lost, sent   *)
(* twice or sent on another source, through queued partial writes, retries,   *)
(* writes from callbacks and reuse of cells, on every source but these:       *)
(*   short    a synchronous write took a part only, or nothing: the buffer is *)
(*            queued (proactor_imp.c:614) after its length was set to what    *)
(*            was written, so this part is sent again and the rest is lost    *)
(*            (RestIsQueued is the promise that breaks);                      *)
(*   failed   an error cut a buffer, whose rest went to the error callback;   *)
(*   deleted  its queue went with it.                                         *)
StreamIntact == \A s \in Src \ (failed \cup short \cup deleted) : Intact(s)


(* did_write reports as many bytes as the kernel took, and exactly these, in  *)
(* order, on a source that had no short synchronous write: what was sent and *)
(* not reported yet is held by pending synchronous writes.  (After a short   *)
(* one, what was written is queued again, and its report may come before the *)
(* report of the synchronous write.)                                         *)
ReportedIsSent ==
    pc # "freed" => \A s \in Src :
        LET pending == \E i \in 1..Len(Pending) :
                          Pending[i].kind = "SYNC_WRITE" /\ Pending[i].src = s
        IN  /\ Len(reported[s]) =< Len(sent[s])
            /\ ~pending => Len(reported[s]) = Len(sent[s])
            /\ s \notin short => IsPrefix(reported[s], sent[s])

(* The data the closed or the error callback gets to handle has not been     *)
(* sent and is not sent later, so that the client may send it again.  (After *)
(* a short synchronous write it may be what was written and queued again.)   *)
ReturnedIsUnsent ==
    \A s \in Src \ short : ToSet(returned[s]) \cap ToSet(sent[s]) = {}

(* While a queue is not empty, wrqlast is NULL or its last cell, so that the *)
(* next write is appended to this queue and to no other: true of a client    *)
(* that pipelines its writes as long as no write is partial.                 *)
TailIsLast ==
    pc = "idle" /\ client.pipelined => \A s \in Src :
        (h.wrq[s] # NULL /\ h.wrqlast[s] # NULL)
        => Chain(h.next, h.wrq[s]) # <<>> /\ h.wrqlast[s] = Last(Chain(h.next, h.wrq[s]))

(* A queue that is not empty is polled for writing, unless an error shut the *)
(* write events off after the last write.                                    *)
QueueIsPolled == pc = "idle" => \A s \in Src \ halted : h.wrq[s] # NULL => s \in wr

(* Every cell is in one place: the cache, the queue of one source, or leaked *)
(* by a partial write or with its source.  The cache is counted, gwpr_free   *)
(* releases all the rest, and no freed cell is written.                      *)
CellsAccounted ==
    /\ pc = "idle" /\ Pending = <<>> =>
        /\ h.alloc = Reach(h.cache) \cup leaked \cup UNION {Reach(h.wrq[s]) : s \in Src}
        /\ \A s \in Src : Reach(h.wrq[s]) \cap (Reach(h.cache) \cup leaked) = {}
        /\ \A s, t \in Src : s # t => Reach(h.wrq[s]) \cap Reach(h.wrq[t]) = {}
        /\ h.ncache = Cardinality(Reach(h.cache)) /\ ~h.fault
    /\ pc = "freed" => h.alloc = leaked

(* Everything given to gwpr_write is reported in the end, unless the         *)
(* connection is closed, an error cut or stopped a write, or the source or the *)
(* proactor is gone.                                                         *)
QueueDrains ==
    \A s \in Src : []<>(\/ reported[s] = submitted[s] \/ pc = "freed"
                        \/ s \in closed \cup halted \cup failed \cup short \cup deleted)
=============================================================================
