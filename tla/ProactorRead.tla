---------------------------- MODULE ProactorRead ----------------------------
(* The reading side of the proactor (src/src/gwrl/proactor_imp.c): gwpr_read, *)
(* gwpr_stop_read, gwpr_accept and gwpr_connect, the part of                  *)
(* gwpr_src_activity that reads, accepts and reports connections, and the     *)
(* life of a file source (src/src/gwrl/proactor.c): added, removed, deleted.  *)
(* The epoll backend keeps, for each descriptor, the flags it polls.          *)
(*                                                                            *)
(* Everything runs on the reactor thread; the client calls the functions      *)
(* inside its callbacks and between two events.  The network is the           *)
(* environment: data, closing, resets and connections arrive at any time.     *)
(* Data is counted, as the kernel hands it out in order.  Descriptors are     *)
(* non-blocking.  The write queue is the subject of ProactorWrite: here it is *)
(* empty.                                                                     *)
EXTENDS Integers, Sequences, SequencesExt, FiniteSets

CONSTANTS
    Listeners,   \* sources of listening sockets
    Peers,       \* sources of the connections the listeners accept
    Clients,     \* sources of sockets the program connects with gwpr_connect
    MaxAccept,   \* options.gwpr_max_accept
    DefaultBuf,  \* rdbufsize of a new source
    BufSizes,    \* buffer sizes the client gives to gwpr_read
    MaxBytes,    \* bound: bytes that arrive on a connection
    MaxCreated,  \* bound: sources made by gwpr_set_fd
    MaxOps,      \* bound: stops, removals and deletions
    MaxAgain     \* bound: reads that would block although the descriptor was ready

Src == Listeners \cup Peers \cup Clients

ASSUME RoleAssumption ==
    /\ IsFiniteSet(Src) /\ Src # {}
    /\ Listeners \cap Peers = {} /\ Listeners \cap Clients = {} /\ Peers \cap Clients = {}
ASSUME BoundAssumption ==
    /\ {MaxAccept, DefaultBuf} \cup BufSizes \subseteq Nat \ {0}
    /\ {MaxBytes, MaxCreated, MaxOps, MaxAgain} \subseteq Nat

VARIABLES
    life,       \* "none": no such source yet; "created"; "added": it has a pdata;
                \* "removed": pdata is NULL; "deleted": freed
    flags,      \* src->flags, of GWRL_RD and GWRL_WR
    interest,   \* flags the backend polls, {} when the descriptor is not registered
    cbs,        \* callbacks set in pdata
    rdbuf,      \* pdata->rdbufsize
    \* gwrl_dispatch and gwpr_src_activity
    batch,      \* events being dispatched: [src, flags]
    pc, evt,    \* position in gwpr_src_activity, and its event
    i,          \* counter of the accept loop
    dangling,   \* the local pdata was freed by a callback
    fault,      \* freed memory was used
    trying,     \* the source, if any, for which gwsk_connect is in its loop
    \* the network
    sock,       \* state of each connection
    rcv,        \* bytes that wait in the kernel
    backlog,    \* connections that wait to be accepted
    dead,       \* sources whose connect fails at once, as no route or a local refusal
    again,      \* reads that would have blocked so far
    nops,       \* stops, removals and deletions so far
    \* history
    arrived,    \* bytes that arrived
    got,        \* bytes given to did_read
    seen,       \* sources whose closed callback was called, for this connection
    connects,   \* calls of the connect callback
    stopped,    \* sources stopped by gwpr_stop_read
    late,       \* of a stopped source, the events posted before it was stopped and
                \* not yet called
    hasty       \* sources removed or deleted in a callback of their own with work left
                \* to do for the event, or deleted while an event of them waited

srcVars == <<life, flags, interest, cbs, rdbuf>>
actVars == <<batch, pc, evt, i, dangling, fault, trying>>
netVars == <<sock, rcv, backlog, again, dead>>
histVars == <<arrived, got, seen, connects, stopped, late, hasty>>
vars == <<srcVars, actVars, netVars, nops, histVars>>

CbIds == {"read", "write", "accept", "connect", "closed", "error"}
Event == [src : Src, flags : SUBSET {"RD", "WR"}]
NoEvent == [src |-> CHOOSE s \in Src : TRUE, flags |-> {}]
PCs == {"idle", "rd", "readcb", "accept", "acceptcb", "wr", "connectcb", "drain", "freed"}

TypeOK ==
    /\ life \in [Src -> {"none", "created", "added", "removed", "deleted"}]
    /\ flags \in [Src -> SUBSET {"RD", "WR"}] /\ interest \in [Src -> SUBSET {"RD", "WR"}]
    /\ cbs \in [Src -> SUBSET CbIds] /\ rdbuf \in [Src -> {DefaultBuf} \cup BufSizes]
    /\ batch \in Seq(Event) /\ pc \in PCs /\ evt \in Event /\ i \in 0..MaxAccept
    /\ dangling \in BOOLEAN /\ fault \in BOOLEAN
    /\ sock \in [Src -> {"new", "connecting", "up", "refused", "eof", "reset", "listening"}]
    /\ rcv \in [Src -> 0..MaxBytes] /\ backlog \in Seq(Peers)
    /\ again \in 0..MaxAgain /\ nops \in 0..MaxOps
    /\ arrived \in [Src -> 0..MaxBytes] /\ got \in [Src -> 0..MaxBytes]
    /\ seen \subseteq Src /\ connects \in [Src -> Nat]
    /\ stopped \subseteq Src /\ late \in [Src -> Int] /\ hasty \subseteq Src
    /\ trying \subseteq Clients /\ dead \subseteq Clients

\* gwpr_create; the client has its sockets and no sources yet
Init ==
    /\ life = [s \in Src |-> "none"]
    /\ flags = [s \in Src |-> {}] /\ interest = flags /\ cbs = flags
    /\ rdbuf = [s \in Src |-> DefaultBuf]
    /\ batch = <<>> /\ pc = "idle" /\ i = 0 /\ dangling = FALSE /\ fault = FALSE
    /\ evt = NoEvent
    /\ sock = [s \in Src |-> IF s \in Listeners THEN "listening" ELSE "new"]
    /\ rcv = [s \in Src |-> 0] /\ backlog = <<>> /\ again = 0 /\ nops = 0
    /\ arrived = rcv /\ got = rcv /\ seen = {} /\ connects = rcv
    /\ stopped = {} /\ late = rcv /\ hasty = {} /\ trying = {} /\ dead \in SUBSET Clients

-----------------------------------------------------------------------------
(* The network.                                                              *)

\* A connection to a listener is established.
NetConnect(p) ==
    /\ (\E l \in Listeners : life[l] # "none") /\ p \in Peers /\ sock[p] = "new"
    /\ sock' = [sock EXCEPT ![p] = "up"] /\ backlog' = Append(backlog, p)
    /\ UNCHANGED <<srcVars, actVars, rcv, again, dead, nops, histVars>>

\* The connection started by gwpr_connect is established or refused.
NetAnswer(s) ==
    /\ sock[s] = "connecting"
    /\ \E r \in {"up", "refused"} : sock' = [sock EXCEPT ![s] = r]
    /\ UNCHANGED <<srcVars, actVars, rcv, backlog, again, dead, nops, histVars>>

NetData(s) ==
    /\ sock[s] = "up" /\ arrived[s] < MaxBytes
    /\ rcv' = [rcv EXCEPT ![s] = @ + 1] /\ arrived' = [arrived EXCEPT ![s] = @ + 1]
    /\ UNCHANGED <<srcVars, actVars, sock, backlog, again, dead, nops, got, seen, connects, stopped,
                   late, hasty>>

\* The peer closes the connection; a reset discards what waits.
NetClose(s) ==
    /\ sock[s] = "up"
    /\ \/ sock' = [sock EXCEPT ![s] = "eof"] /\ UNCHANGED rcv
       \/ sock' = [sock EXCEPT ![s] = "reset"] /\ rcv' = [rcv EXCEPT ![s] = 0]
    /\ UNCHANGED <<srcVars, actVars, backlog, again, dead, nops, histVars>>

Network == \E s \in Src : NetConnect(s) \/ NetAnswer(s) \/ NetData(s) \/ NetClose(s)

\* What epoll reports: a closed or failed connection is readable and writable.
Readable(s) ==
    \/ rcv[s] > 0 \/ sock[s] \in {"eof", "reset", "refused"}
    \/ sock[s] = "listening" /\ backlog # <<>>
Writable(s) == sock[s] \in {"new", "up", "eof", "reset", "refused"}

\* The reactor thread is at p, outside gwsk_connect.
At(p) == pc = p /\ ~fault /\ trying = {}

-----------------------------------------------------------------------------
(* The epoll backend.                                                        *)

\* Seeded fault: the new flags are not given to epoll.
UpdateFlagsOnly(s, fl) == flags' = [flags EXCEPT ![s] = fl] /\ UNCHANGED interest

\* gwrl_src_file_update_flags: EPOLL_CTL_MOD, which fails quietly with ENOENT on
\* a descriptor that is not registered
gwrl_src_file_update_flags(s, fl) ==
    /\ flags' = [flags EXCEPT ![s] = fl]
    /\ interest' = IF life[s] = "added" THEN [interest EXCEPT ![s] = fl] ELSE interest

\* Flags of the event posted for s, if any
Ready(s) ==
    {f \in flags[s] \cap interest[s] : (f = "RD" /\ Readable(s)) \/ (f = "WR" /\ Writable(s))}

\* gwrl_bkd_gather posts an event for every ready descriptor, in any order, and
\* gwrl_dispatch takes them.  Reading posts no events, so that none are left over.
gwrl_bkd_gather ==
    LET ready == {s \in Src : Ready(s) # {}}
    IN  /\ At("idle") /\ batch = <<>> /\ ready # {}
        /\ \E order \in SetToSeqs(ready) :
            batch' = [k \in 1..Len(order) |-> [src |-> order[k], flags |-> Ready(order[k])]]
        /\ UNCHANGED <<srcVars, pc, evt, i, dangling, fault, trying, netVars, nops, histVars>>

-----------------------------------------------------------------------------
(* gwpr_src_activity.                                                        *)

\* A read event of a stopped source is handled.
Noticed(e) ==
    late' = IF e.src \in stopped /\ "RD" \in e.flags THEN [late EXCEPT ![e.src] = @ - 1] ELSE late

\* Seeded fault: an event of a source without proactor data is handled.
ActivityStartAnyway ==
    LET e == Head(batch)
    IN  /\ At("idle") /\ batch # <<>>
        /\ batch' = Tail(batch) /\ evt' = e /\ fault' = (life[e.src] # "added")
        /\ pc' = IF "RD" \in e.flags THEN "rd" ELSE "wr"
        /\ Noticed(e)
        /\ UNCHANGED <<srcVars, i, dangling, trying, netVars, nops, arrived, got, seen, connects,
                       stopped, hasty>>

\* evt->src->type is read; if(!pdata) return
ActivityStart ==
    LET e == Head(batch)
    IN  /\ At("idle") /\ batch # <<>>
        /\ batch' = Tail(batch) /\ fault' = (life[e.src] = "deleted")
        /\ IF life[e.src] # "added" THEN UNCHANGED <<pc, evt>>
           ELSE pc' = (IF "RD" \in e.flags THEN "rd" ELSE "wr") /\ evt' = e
        /\ Noticed(e)
        /\ UNCHANGED <<srcVars, i, dangling, trying, netVars, nops, arrived, got, seen, connects,
                       stopped, hasty>>

Me == evt.src

\* Seeded fault: the buffer is taken to be full.
ReadDataFull ==
    /\ At("rd") /\ "read" \in cbs[Me] /\ rcv[Me] > 0
    /\ rcv' = [rcv EXCEPT ![Me] = @ - rdbuf[Me]] /\ got' = [got EXCEPT ![Me] = @ + rdbuf[Me]]
    /\ pc' = "readcb"
    /\ UNCHANGED <<srcVars, batch, evt, i, dangling, fault, trying, sock, backlog, again, dead,
                   nops, arrived, seen, connects, stopped, late, hasty>>

\* read, recv or recvfrom returns data: filters and did_read
ReadData ==
    LET n == IF rcv[Me] < rdbuf[Me] THEN rcv[Me] ELSE rdbuf[Me]
    IN  /\ At("rd") /\ "read" \in cbs[Me] /\ n > 0
        /\ rcv' = [rcv EXCEPT ![Me] = @ - n] /\ got' = [got EXCEPT ![Me] = @ + n]
        /\ pc' = "readcb"
        /\ UNCHANGED <<srcVars, batch, evt, i, dangling, fault, trying, sock, backlog, again,
                       dead, nops, arrived, seen, connects, stopped, late, hasty>>

\* EAGAIN or EWOULDBLOCK: nothing to do
ReadBlocked ==
    /\ At("rd") /\ "read" \in cbs[Me] /\ again < MaxAgain
    /\ sock[Me] = "up"
    /\ again' = again + 1 /\ pc' = "wr"
    /\ UNCHANGED <<srcVars, batch, evt, i, dangling, fault, trying, sock, rcv, backlog, dead, nops,
                   histVars>>

\* Seeded fault: a read that would block is taken for the end of the connection.
ReadClosedOrBlocked ==
    /\ At("rd") /\ "read" \in cbs[Me]
    /\ (rcv[Me] = 0 /\ sock[Me] \in {"eof", "reset"}) \/ again < MaxAgain
    /\ seen' = IF "closed" \in cbs[Me] THEN seen \cup {Me} ELSE seen
    /\ pc' = IF {"closed", "error"} \cap cbs[Me] # {} THEN "readcb" ELSE "wr"
    /\ UNCHANGED <<srcVars, batch, evt, i, dangling, fault, trying, netVars, nops, arrived, got,
                   connects, stopped, late, hasty>>

\* The read returns 0, ECONNRESET or EPIPE: the closed callback.  Without one,
\* an end of file is only logged, a reset goes to the error callback.
ReadClosed ==
    /\ At("rd") /\ "read" \in cbs[Me] /\ rcv[Me] = 0 /\ sock[Me] \in {"eof", "reset"}
    /\ seen' = IF "closed" \in cbs[Me] THEN seen \cup {Me} ELSE seen
    /\ pc' = IF "closed" \in cbs[Me] \/ ("error" \in cbs[Me] /\ sock[Me] = "reset")
             THEN "readcb" ELSE "wr"
    /\ UNCHANGED <<srcVars, batch, evt, i, dangling, fault, trying, netVars, nops, arrived, got,
                   connects, stopped, late, hasty>>

\* Another error: the error callback, or a message
ReadError ==
    /\ At("rd") /\ "read" \in cbs[Me] /\ sock[Me] = "refused"
    /\ pc' = IF "error" \in cbs[Me] THEN "readcb" ELSE "wr"
    /\ UNCHANGED <<srcVars, batch, evt, i, dangling, fault, trying, netVars, nops, histVars>>

\* No read callback: the accept loop starts, or a message
ReadOther ==
    /\ At("rd") /\ "read" \notin cbs[Me]
    /\ pc' = IF "accept" \in cbs[Me] THEN "accept" ELSE "wr"
    /\ UNCHANGED <<srcVars, batch, evt, i, dangling, fault, trying, netVars, nops, histVars>>

ReadReturn ==
    /\ At("readcb") /\ pc' = "wr"
    /\ UNCHANGED <<srcVars, batch, evt, i, dangling, fault, trying, netVars, nops, histVars>>

\* Seeded fault: the connection stays in the backlog.
AcceptPeerTwice ==
    /\ At("accept") /\ i < MaxAccept /\ backlog # <<>>
    /\ life' = [life EXCEPT ![Head(backlog)] = "created"]
    /\ i' = i + 1 /\ pc' = "acceptcb"
    /\ UNCHANGED <<flags, interest, cbs, rdbuf, batch, evt, dangling, fault, trying, netVars, nops,
                   histVars>>

\* accept returns a connection: a source is created and given to the callback
AcceptPeer ==
    /\ At("accept") /\ i < MaxAccept /\ backlog # <<>>
    /\ backlog' = Tail(backlog) /\ life' = [life EXCEPT ![Head(backlog)] = "created"]
    /\ i' = i + 1 /\ pc' = "acceptcb"
    /\ UNCHANGED <<flags, interest, cbs, rdbuf, batch, evt, dangling, fault, trying, sock, rcv,
                   again, dead, nops, histVars>>

\* EWOULDBLOCK: the loop goes on
AcceptBlocked ==
    /\ At("accept") /\ i < MaxAccept /\ backlog = <<>>
    /\ i' = i + 1
    /\ UNCHANGED <<srcVars, batch, pc, evt, dangling, fault, trying, netVars, nops, histVars>>

\* Another error, for a connection that was reset while it waited: the error callback
AcceptError ==
    /\ At("accept") /\ i < MaxAccept
    /\ backlog # <<>> /\ sock[Head(backlog)] = "reset"
    /\ backlog' = Tail(backlog) /\ i' = i + 1
    /\ pc' = IF "error" \in cbs[Me] THEN "acceptcb" ELSE "accept"
    /\ UNCHANGED <<srcVars, batch, evt, dangling, fault, trying, sock, rcv, again, dead, nops,
                   histVars>>

\* The loop goes on with fsrc and pdata, which the callback may have freed
AcceptReturn ==
    /\ At("acceptcb") /\ pc' = "accept" /\ fault' = (dangling /\ i < MaxAccept)
    /\ UNCHANGED <<srcVars, batch, evt, i, dangling, trying, netVars, nops, histVars>>

AcceptEnd ==
    /\ At("accept") /\ i = MaxAccept /\ pc' = "wr"
    /\ UNCHANGED <<srcVars, batch, evt, i, dangling, fault, trying, netVars, nops, histVars>>

\* gwpr_src_activity returns
Return == pc' = "idle" /\ evt' = NoEvent /\ i' = 0 /\ dangling' = FALSE

ActivityEnd ==
    /\ At("wr") /\ "WR" \notin evt.flags /\ Return
    /\ UNCHANGED <<srcVars, batch, fault, trying, netVars, nops, histVars>>

\* if(evt->flags & GWRL_WR): the connect callback, which is called when the
\* descriptor is writable, connected or not
WriteActivity ==
    /\ At("wr") /\ "WR" \in evt.flags /\ fault' = dangling
    /\ pc' = IF "connect" \in cbs[Me] THEN "connectcb" ELSE "drain"
    /\ connects' = IF "connect" \in cbs[Me] THEN [connects EXCEPT ![Me] = @ + 1] ELSE connects
    /\ UNCHANGED <<srcVars, batch, evt, i, dangling, trying, netVars, nops, arrived, got, seen,
                   stopped, late, hasty>>

\* Seeded fault: the connect callback stays set.
ConnectReturnKeeps ==
    /\ At("connectcb") /\ pc' = "drain" /\ fault' = dangling
    /\ UNCHANGED <<srcVars, batch, evt, i, dangling, trying, netVars, nops, histVars>>

\* pdata->connectcb = NULL
ConnectReturn ==
    /\ At("connectcb") /\ pc' = "drain" /\ fault' = dangling
    /\ cbs' = IF dangling THEN cbs ELSE [cbs EXCEPT ![Me] = @ \ {"connect"}]
    /\ UNCHANGED <<life, flags, interest, rdbuf, batch, evt, i, dangling, trying, netVars, nops,
                   histVars>>

\* With a did_write callback and nothing queued, write events are shut off;
\* without one they stay on.
Drain ==
    /\ At("drain") /\ Return
    /\ IF "write" \in cbs[Me] THEN gwrl_src_file_update_flags(Me, flags[Me] \ {"WR"})
       ELSE UNCHANGED <<flags, interest>>
    /\ UNCHANGED <<life, cbs, rdbuf, batch, fault, trying, netVars, nops, histVars>>

Activity ==
    \/ ActivityStart \/ ReadData \/ ReadBlocked \/ ReadClosed \/ ReadError \/ ReadOther
    \/ ReadReturn \/ AcceptPeer \/ AcceptBlocked \/ AcceptError \/ AcceptReturn
    \/ AcceptEnd \/ ActivityEnd \/ WriteActivity \/ ConnectReturn \/ Drain

-----------------------------------------------------------------------------
(* The functions the client calls.                                           *)

InClient == \E p \in {"idle", "readcb", "acceptcb", "connectcb"} : At(p)
Unstop(s) == stopped' = stopped \ {s} /\ late' = [late EXCEPT ![s] = 0]
Has(s) == InClient /\ life[s] = "added"

\* gwprdata_create: no callbacks, the default buffer size
gwprdata_create(s) ==
    cbs' = [cbs EXCEPT ![s] = {}] /\ rdbuf' = [rdbuf EXCEPT ![s] = DefaultBuf]

\* The source is marked "read but disabled", but the backend polls it from now on.
AddSource(s) ==
    /\ gwprdata_create(s)
    /\ life' = [life EXCEPT ![s] = "added"] /\ flags' = [flags EXCEPT ![s] = {"RD"}]
    /\ interest' = [interest EXCEPT ![s] = {"RD"}] /\ Unstop(s)
    /\ UNCHANGED <<actVars, netVars, nops, arrived, got, seen, connects, hasty>>

\* A source is created and added.
gwpr_set_fd(s) ==
    /\ InClient /\ s \notin Peers /\ life[s] = "none"
    /\ Cardinality({t \in Src \ Peers : life[t] # "none"}) < MaxCreated
    /\ AddSource(s)

\* A source that was accepted, or removed before, is added.
gwpr_src_add(s) == InClient /\ life[s] \in {"created", "removed"} /\ AddSource(s)

\* The client sets callbacks that suit the socket, the connect callback before
\* it connects.
Suits(s, c) ==
    \/ s \in Listeners /\ c \in {"accept", "error"}
    \/ s \in Peers /\ c \in {"read", "closed"}
    \/ s \in Clients /\ c \in {"read", "write", "error"}
    \/ s \in Clients /\ c = "connect" /\ sock[s] = "new"
gwpr_set_cb(s, c) ==
    /\ Has(s) /\ Suits(s, c) /\ c \notin cbs[s]
    /\ cbs' = [cbs EXCEPT ![s] = @ \cup {c}]
    /\ UNCHANGED <<life, flags, interest, rdbuf, actVars, netVars, nops, histVars>>

\* Seeded fault: the backend is not told that the source is read again.
ReadNotPolled(s, n) ==
    /\ Has(s) /\ "read" \in cbs[s]
    /\ flags' = [flags EXCEPT ![s] = @ \cup {"RD"}]
    /\ rdbuf' = [rdbuf EXCEPT ![s] = n] /\ Unstop(s)
    /\ UNCHANGED <<life, interest, cbs, actVars, netVars, nops, arrived, got, seen, connects,
                   hasty>>

\* gwpr_asynchronous_read, for gwpr_read, gwpr_recv and gwpr_recvfrom
gwpr_read(s, n) ==
    /\ Has(s) /\ "read" \in cbs[s]
    /\ gwrl_src_file_update_flags(s, flags[s] \cup {"RD"})
    /\ rdbuf' = [rdbuf EXCEPT ![s] = n] /\ Unstop(s)
    /\ UNCHANGED <<life, cbs, actVars, netVars, nops, arrived, got, seen, connects, hasty>>

gwpr_accept(s) ==
    /\ Has(s) /\ "accept" \in cbs[s]
    /\ gwrl_src_file_update_flags(s, flags[s] \cup {"RD"}) /\ Unstop(s)
    /\ UNCHANGED <<life, cbs, rdbuf, actVars, netVars, nops, arrived, got, seen, connects, hasty>>

\* gwpr_connect: gwsk_connect starts
gwpr_connect(s) ==
    /\ Has(s) /\ s \in Clients /\ "connect" \in cbs[s] /\ sock[s] = "new"
    /\ trying' = {s}
    /\ UNCHANGED <<srcVars, batch, pc, evt, i, dangling, fault, netVars, nops, histVars>>

\* connect succeeds or is in progress: gwsk_connect returns, the flags are set
ConnectReturns(s) ==
    /\ s \in trying \ dead /\ trying' = {}
    /\ \E r \in {"up", "connecting"} : sock' = [sock EXCEPT ![s] = r]
    /\ gwrl_src_file_update_flags(s, flags[s] \cup {"RD", "WR"})
    /\ Unstop(s)
    /\ UNCHANGED <<life, cbs, rdbuf, batch, pc, evt, i, dangling, fault, rcv, backlog, again,
                   dead, nops, arrived, got, seen, connects, hasty>>

\* connect fails with another error: the loop tries again
ConnectRetries(s) == s \in trying \cap dead /\ UNCHANGED vars

Waiting(s) == {k \in 1..Len(batch) : batch[k].src = s}

\* Seeded fault: the flag is not cleared.
StopReadNothing(s) ==
    /\ Has(s) /\ nops < MaxOps /\ nops' = nops + 1
    /\ gwrl_src_file_update_flags(s, flags[s])
    /\ stopped' = stopped \cup {s}
    /\ late' = [late EXCEPT ![s] = Cardinality({k \in Waiting(s) : "RD" \in batch[k].flags})]
    /\ UNCHANGED <<life, cbs, rdbuf, actVars, netVars, arrived, got, seen, connects, hasty>>

gwpr_stop_read(s) ==
    /\ Has(s) /\ nops < MaxOps /\ nops' = nops + 1
    /\ gwrl_src_file_update_flags(s, flags[s] \ {"RD"})
    /\ stopped' = stopped \cup {s}
    /\ late' = [late EXCEPT ![s] = Cardinality({k \in Waiting(s) : "RD" \in batch[k].flags})]
    /\ UNCHANGED <<life, cbs, rdbuf, actVars, netVars, arrived, got, seen, connects, hasty>>

\* Nothing of gwpr_src_activity uses the proactor data of s after this callback.
Finished(s) == s # Me \/ pc = "idle" \/ (pc = "readcb" /\ "WR" \notin evt.flags)

\* gwpr_src_remove and gwpr_src_del: pdata is freed, the descriptor is taken from
\* the backend, and the source is kept or freed
Release(s, to) ==
    /\ InClient /\ life[s] \in {"added", "removed"} /\ life[s] # to
    /\ nops < MaxOps /\ nops' = nops + 1
    /\ life' = [life EXCEPT ![s] = to] /\ interest' = [interest EXCEPT ![s] = {}]
    /\ cbs' = [cbs EXCEPT ![s] = {}] /\ rdbuf' = [rdbuf EXCEPT ![s] = DefaultBuf]
    /\ dangling' = (dangling \/ (s = Me /\ pc # "idle" /\ life[s] = "added"))
    /\ hasty' = IF Finished(s) /\ (to = "deleted" => Waiting(s) = {}) THEN hasty ELSE hasty \cup {s}
    /\ UNCHANGED <<flags, batch, pc, evt, i, fault, trying, netVars, arrived, got, seen, connects,
                   stopped, late>>
gwpr_src_remove(s) == Release(s, "removed")

gwpr_src_del(s) == Release(s, "deleted")

\* gwpr_free after its dispatch: sources are disabled and lose their pdata
gwpr_free ==
    /\ At("idle") /\ batch = <<>> /\ pc' = "freed"
    /\ life' = [s \in Src |-> IF life[s] = "added" THEN "removed" ELSE life[s]]
    /\ interest' = [s \in Src |-> {}] /\ cbs' = interest'
    /\ UNCHANGED <<flags, rdbuf, batch, evt, i, dangling, fault, trying, netVars, nops,
                   histVars>>

Client ==
    \E s \in Src :
        \/ gwpr_set_fd(s) \/ gwpr_src_add(s) \/ gwpr_accept(s) \/ gwpr_connect(s)
        \/ gwpr_stop_read(s) \/ gwpr_src_remove(s) \/ gwpr_src_del(s)
        \/ \E c \in CbIds : gwpr_set_cb(s, c)
        \/ \E n \in BufSizes : gwpr_read(s, n)

\* The proactor is gone, or freed memory was used and nothing is claimed any more.
Ended == (pc = "freed" \/ fault) /\ UNCHANGED vars

Next ==
    \/ Activity \/ gwrl_bkd_gather \/ Client \/ gwpr_free \/ Network \/ Ended
    \/ \E s \in Clients : ConnectReturns(s) \/ ConnectRetries(s)

(* The reactor thread runs, also inside gwpr_connect, and the network answers *)
(* connection requests.  The client need not call anything.                   *)
Fairness ==
    /\ WF_vars(Activity) /\ WF_vars(gwrl_bkd_gather)
    /\ \A s \in Clients : WF_vars(ConnectReturns(s)) /\ WF_vars(NetAnswer(s))

Spec == Init /\ [][Next]_vars /\ Fairness

-----------------------------------------------------------------------------

(* "Input sources can be ... removed, or deleted at any time" (doc.pod:402),  *)
(* in any callback and between two events.  Nothing that was freed is used,   *)
(* in gwpr_src_activity after the callback, for a later event of the batch or *)
(* in the backend, until one is removed in a callback of its own with work    *)
(* left to do for the event, or deleted while an event of it waits: the code  *)
(* keeps the promise but in these two cases.                                  *)
NoUseAfterFree == fault => hasty # {}

(* After gwpr_stop_read nothing is read any more but what events of the batch *)
(* being dispatched had announced.                                            *)
StopReadHolds == \A s \in stopped : late[s] >= 0

(* The closed callback is called only for a connection that has ended, and    *)
(* after all its data was given to did_read, whatever spurious wake-ups and   *)
(* stops and restarts there were.                                             *)
ClosedAfterData ==
    \A s \in seen : sock[s] = "reset" \/ (sock[s] = "eof" /\ got[s] = arrived[s])

(* The connect callback is called once, and not before the connection was     *)
(* answered.                                                                  *)
ConnectOnce ==
    \A s \in Src : connects[s] <= 1 /\ (connects[s] = 1 => sock[s] \notin {"new", "connecting"})

(* A connection that waits to be accepted has not been handed over before.    *)
AcceptOnce == \A k \in 1..Len(backlog) : life[backlog[k]] = "none"

\* A connection is new, waits in the backlog, or was handed over.
HandInv ==
    /\ \A p \in Peers : sock[p] = "new" => life[p] = "none"
    /\ \A k \in 1..Len(backlog) :
        backlog[k] \in Peers /\ sock[backlog[k]] # "new" /\ life[backlog[k]] = "none"
    /\ \A j, k \in 1..Len(backlog) : j # k => backlog[j] # backlog[k]

\* Where pointers to a source or to its proactor data are left
MemoryInv ==
    /\ ~fault
    /\ \A k \in 1..Len(batch) : life[batch[k].src] # "deleted"
    /\ \A s \in Src : life[s] # "added" => interest[s] = {}
    /\ dangling => pc \in {"readcb", "wr"} /\ "WR" \notin evt.flags

(* Why no freed memory is used: the backend polls only sources that are added, *)
(* a batch holds no event of a deleted source, and a callback that frees the   *)
(* data of its own source is the last thing done for the event.                *)
ReadInv == HandInv /\ (hasty = {} => MemoryInv)

\* The proactor is gone, freed memory was used, or the loop of gwsk_connect never
\* ends.
Stuck == pc = "freed" \/ fault \/ trying \cap dead # {}
Polled(s, c) == life[s] = "added" /\ "RD" \in flags[s] /\ c \in cbs[s]

(* What arrives on a source that is read is given to did_read, and the end of *)
(* the connection to the closed callback, in the end.                         *)
EverythingRead ==
    \A s \in Src :
        /\ []<>(rcv[s] = 0 \/ ~Polled(s, "read") \/ Stuck)
        /\ []<>(sock[s] = "eof" /\ "closed" \in cbs[s] => s \in seen \/ ~Polled(s, "read") \/ Stuck)

(* Connections that wait are accepted, and a connection that gwpr_connect     *)
(* started is reported, in the end.                                           *)
ConnectionsServed ==
    /\ []<>(backlog = <<>> \/ Stuck \/ \A s \in Listeners : ~Polled(s, "accept"))
    /\ \A s \in Clients : []<>(sock[s] \in {"up", "refused"} =>
            connects[s] = 1 \/ "connect" \notin cbs[s] \/ life[s] # "added" \/ Stuck)
=============================================================================
