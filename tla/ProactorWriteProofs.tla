------------------------ MODULE ProactorWriteProofs ------------------------
(* For any sources, clients, kernels and bounds:                              *)
(* - a write queue that is not empty is polled for writing, whatever the lists*)
(*   of cells look like: a client that tangles them by pipelined writes inside*)
(*   callbacks is included (WritePolling, QueuedIsPolled);                    *)
(* - for the clients of Careful the cells, queues, streams, reports and       *)
(*   returned data are right: the inductive invariant WriteInv (WriteKeeps,   *)
(*   StreamKept, TailsKept, ReportsMatch, ReturnsMatch, CellsKept).           *)
EXTENDS ProactorWrite, HeapListProofs, WellFoundedInduction, TLAPS

(* The queues of the heap are one for each source.  Nothing is asked of cells *)
(* and links.                                                                 *)
HeapFields ==
    {"next", "buf", "alloc", "wrq", "wrqlast", "cache", "ncache", "fault"}
IsHeap(g) == DOMAIN g = HeapFields /\ DOMAIN g.wrq = Src

(* A sequence of anything.                                                    *)
IsList(p) == p \in Seq({p[i] : i \in 1..Len(p)})

(* The writable events of p are of sources in w, and no two of one source.     *)
IsWR(e) == e.kind = "WR"
WRPolled(p, w) ==
    \A i \in 1..Len(p) : IsWR(p[i]) =>
        /\ p[i].src \in w
        /\ \A j \in 1..Len(p) : IsWR(p[j]) /\ p[j].src = p[i].src => i = j
NoWR(p, s) == \A i \in 1..Len(p) : IsWR(p[i]) => p[i].src # s

(* The types that polling needs.                                              *)
ShapeInv ==
    /\ IsHeap(h) /\ wr \subseteq Src
    /\ IsList(events) /\ IsList(batch)
    /\ pc \in PCs

(* At most one writable event of a source waits, and the source is polled.    *)
EventInv ==
    /\ WRPolled(events, wr) /\ WRPolled(batch, wr)
    /\ \A i \in 1..Len(batch) : IsWR(batch[i]) => NoWR(events, batch[i].src)

(* The source whose queue is being written is polled until the end of the     *)
(* activity, and no writable event of it waits.                               *)
Writing == pc \in {"item", "cb", "result", "end"}
ActInv == Writing => act \in wr /\ NoWR(events, act) /\ NoWR(batch, act)

(* Also while a queue is being written.                                       *)
QueueInv == \A s \in Src \ halted : h.wrq[s] # NULL => s \in wr

(* All of it.                                                                 *)
PolledInv == ShapeInv /\ EventInv /\ ActInv /\ QueueInv
-----------------------------------------------------------------------------
(* The operations on cells and lists leave every queue but one alone.         *)

(* gwprwrq_get takes a cell, not from a queue.                                *)
LEMMA GetKeeps ==
    ASSUME NEW g, IsHeap(g)
    PROVE  IsHeap(gwprwrq_get(g)) /\ gwprwrq_get(g).wrq = g.wrq
  BY DEF gwprwrq_get, IsHeap, HeapFields

(* Nor does a buffer change a queue.                                          *)
LEMMA BufKeeps ==
    ASSUME NEW g, IsHeap(g), NEW c, NEW b
    PROVE  IsHeap([g EXCEPT !.buf[c] = b]) /\ [g EXCEPT !.buf[c] = b].wrq = g.wrq
  BY DEF IsHeap, HeapFields

(* gwprwrq_free returns a cell to the cache or to malloc.                     *)
LEMMA FreeKeeps ==
    ASSUME NEW g, IsHeap(g), NEW c
    PROVE  IsHeap(gwprwrq_free(g, c)) /\ gwprwrq_free(g, c).wrq = g.wrq
  BY DEF gwprwrq_free, IsHeap, HeapFields

(* gwprwrq_putback changes the queue of its source.                           *)
LEMMA PutbackKeeps ==
    ASSUME NEW g, IsHeap(g), NEW c, NEW s \in Src
    PROVE  /\ IsHeap(gwprwrq_putback(g, s, c))
           /\ \A t \in Src \ {s} : gwprwrq_putback(g, s, c).wrq[t] = g.wrq[t]
  BY DEF gwprwrq_putback, IsHeap, HeapFields

(* So does gwprwrq_add, whatever wrqlast is.                                  *)
LEMMA AddKeeps ==
    ASSUME NEW g, IsHeap(g), NEW c, NEW s \in Src
    PROVE  /\ IsHeap(gwprwrq_add(g, s, c))
           /\ \A t \in Src \ {s} : gwprwrq_add(g, s, c).wrq[t] = g.wrq[t]
  BY DEF gwprwrq_add, IsHeap, HeapFields

(* And so does a cell taken, filled and added.                                *)
LEMMA QueueKeeps ==
    ASSUME NEW g, IsHeap(g), NEW b, NEW s \in Src
    PROVE  /\ IsHeap(Queue(g, s, b))
           /\ \A t \in Src \ {s} : Queue(g, s, b).wrq[t] = g.wrq[t]
  <1> DEFINE c == GetCell(g)
             k == [gwprwrq_get(g) EXCEPT !.buf[c] = b]
  <1>1. IsHeap(gwprwrq_get(g)) /\ gwprwrq_get(g).wrq = g.wrq
    BY GetKeeps
  <1>3. ASSUME NEW f, IsHeap(f)
        PROVE  IsHeap([f EXCEPT !.buf[c] = b]) /\ [f EXCEPT !.buf[c] = b].wrq = f.wrq
    BY <1>3, BufKeeps
  <1>4. IsHeap(k) /\ k.wrq = g.wrq
    BY <1>1, <1>3
  <1>2. Queue(g, s, b) = gwprwrq_add(k, s, c)
    BY DEF Queue
  <1> HIDE DEF k, c
  <1> QED BY <1>2, <1>4, AddKeeps
-----------------------------------------------------------------------------
(* Posting an event at the head of a list, and taking one from it.            *)

(* Every sequence is a list.                                                  *)
LEMMA ListIs ==
    ASSUME NEW S, NEW r \in Seq(S)
    PROVE  IsList(r)
  <1> DEFINE T == {r[i] : i \in 1..Len(r)}
  <1>1. Len(r) \in Nat /\ r \in [1..Len(r) -> S]
    BY LenProperties
  <1>2. r \in [1..Len(r) -> T]
    BY <1>1
  <1>3. r \in Seq(T)
    BY <1>1, <1>2, SeqDef
  <1> QED BY <1>3 DEF IsList

(* An event put before a list.                                                *)
LEMMA PushIs ==
    ASSUME NEW p, IsList(p), NEW e
    PROVE  /\ IsList(<<e>> \o p) /\ Len(<<e>> \o p) = Len(p) + 1 /\ Len(p) \in Nat
           /\ (<<e>> \o p)[1] = e
           /\ \A i \in 1..Len(p) : (<<e>> \o p)[i + 1] = p[i]
  <1> DEFINE r == <<e>> \o p
             S == {p[i] : i \in 1..Len(p)} \cup {e}
  <1>1. p \in Seq(S) /\ <<e>> \in Seq(S)
    BY DEF IsList
  <1>2. /\ r \in Seq(S) /\ Len(p) \in Nat /\ Len(r) = Len(p) + 1
        /\ \A i \in 1..Len(r) : r[i] = IF i <= 1 THEN e ELSE p[i - 1]
    BY <1>1, ConcatProperties, LenProperties
  <1> HIDE DEF r
  <1>3. r[1] = e /\ \A i \in 1..Len(p) : r[i + 1] = p[i]
    BY <1>2
  <1>4. IsList(r)
    BY <1>2, ListIs
  <1> QED BY <1>2, <1>3, <1>4 DEF r

(* A list without its first event.                                            *)
LEMMA TakeIs ==
    ASSUME NEW p, IsList(p), p # <<>>
    PROVE  /\ IsList(Tail(p)) /\ Len(Tail(p)) = Len(p) - 1 /\ Len(p) \in Nat \ {0}
           /\ Head(p) = p[1]
           /\ \A i \in 1..Len(Tail(p)) : Tail(p)[i] = p[i + 1]
  <1> DEFINE S == {p[i] : i \in 1..Len(p)}
             r == Tail(p)
  <1>1. p \in Seq(S)
    BY DEF IsList
  <1>2. /\ r \in Seq(S) /\ Len(p) \in Nat \ {0} /\ Len(r) = Len(p) - 1 /\ Head(p) = p[1]
        /\ \A i \in 1..Len(r) : r[i] = p[i + 1]
    BY <1>1, HeadTailProperties, LenProperties, EmptySeq
  <1> HIDE DEF r
  <1>3. IsList(r)
    BY <1>2, ListIs
  <1> QED BY <1>2, <1>3 DEF r

(* The empty list.                                                            *)
LEMMA EmptyIs == IsList(<<>>) /\ Len(<<>>) = 0
  BY DEF IsList

(* A list with nothing more to say of writable events.                        *)
Milder(p, r) ==
    /\ IsList(r) /\ \A w : WRPolled(p, w) => WRPolled(r, w)
    /\ \A s : NoWR(p, s) => NoWR(r, s)

(* A synchronous event says nothing of writable ones.                         *)
LEMMA PushSync ==
    ASSUME NEW p, IsList(p), NEW e, ~IsWR(e)
    PROVE  Milder(p, <<e>> \o p)
  <1> DEFINE r == <<e>> \o p
  <1>1. /\ IsList(r) /\ Len(r) = Len(p) + 1 /\ Len(p) \in Nat /\ r[1] = e
        /\ \A i \in 1..Len(p) : r[i + 1] = p[i]
    BY PushIs
  <1> HIDE DEF r
  <1>2. ASSUME NEW i \in 1..Len(r), IsWR(r[i])
        PROVE  i - 1 \in 1..Len(p) /\ r[i] = p[i - 1]
    <2>1. i # 1
      BY <1>1, <1>2
    <2>2. i - 1 \in 1..Len(p) /\ (i - 1) + 1 = i
      BY <1>1, <2>1
    <2> QED BY <1>1, <2>2
  <1>3. ASSUME NEW w, WRPolled(p, w) PROVE WRPolled(r, w)
    <2> SUFFICES ASSUME NEW i \in 1..Len(r), IsWR(r[i])
                 PROVE  /\ r[i].src \in w
                        /\ \A j \in 1..Len(r) : IsWR(r[j]) /\ r[j].src = r[i].src => i = j
      BY DEF WRPolled
    <2>1. i - 1 \in 1..Len(p) /\ r[i] = p[i - 1]
      BY <1>2
    <2>2. r[i].src \in w
      BY <1>3, <2>1 DEF WRPolled
    <2>3. ASSUME NEW j \in 1..Len(r), IsWR(r[j]), r[j].src = r[i].src PROVE i = j
      <3>1. j - 1 \in 1..Len(p) /\ r[j] = p[j - 1]
        BY <1>2, <2>3
      <3>2. i - 1 = j - 1
        BY <1>3, <2>1, <2>3, <3>1 DEF WRPolled
      <3> QED BY <3>2
    <2> QED BY <2>2, <2>3
  <1>4. ASSUME NEW s, NoWR(p, s) PROVE NoWR(r, s)
    BY <1>2, <1>4 DEF NoWR
  <1> QED BY <1>1, <1>3, <1>4 DEF r, Milder

(* Nor does the event that is taken from a list.                              *)
LEMMA TailIsMilder ==
    ASSUME NEW p, IsList(p), p # <<>>
    PROVE  Milder(p, Tail(p))
  <1> DEFINE r == Tail(p)
  <1>1. /\ IsList(r) /\ Len(r) = Len(p) - 1 /\ Len(p) \in Nat \ {0}
        /\ \A i \in 1..Len(r) : r[i] = p[i + 1] /\ i + 1 \in 1..Len(p)
    BY TakeIs
  <1> HIDE DEF r
  <1>2. ASSUME NEW w, WRPolled(p, w) PROVE WRPolled(r, w)
    <2> SUFFICES ASSUME NEW i \in 1..Len(r), IsWR(r[i])
                 PROVE  /\ r[i].src \in w
                        /\ \A j \in 1..Len(r) : IsWR(r[j]) /\ r[j].src = r[i].src => i = j
      BY DEF WRPolled
    <2>1. r[i] = p[i + 1] /\ i + 1 \in 1..Len(p) /\ r[i].src \in w
      BY <1>1, <1>2 DEF WRPolled
    <2>2. ASSUME NEW j \in 1..Len(r), IsWR(r[j]), r[j].src = r[i].src PROVE i = j
      <3>1. r[j] = p[j + 1] /\ j + 1 \in 1..Len(p)
        BY <1>1
      <3>2. i + 1 = j + 1
        BY <1>2, <2>1, <2>2, <3>1 DEF WRPolled
      <3> QED BY <3>2
    <2> QED BY <2>1, <2>2
  <1>3. ASSUME NEW s, NoWR(p, s) PROVE NoWR(r, s)
    BY <1>1, <1>3 DEF NoWR
  <1> QED BY <1>1, <1>2, <1>3 DEF r, Milder

(* The first of the writable events of a source is the only one.              *)
LEMMA HeadIsOnly ==
    ASSUME NEW p, IsList(p), p # <<>>, NEW w, WRPolled(p, w), IsWR(Head(p))
    PROVE  Head(p).src \in w /\ NoWR(Tail(p), Head(p).src)
  <1>1. /\ Len(Tail(p)) = Len(p) - 1 /\ Len(p) \in Nat \ {0} /\ Head(p) = p[1]
        /\ \A i \in 1..Len(Tail(p)) : Tail(p)[i] = p[i + 1] /\ i + 1 \in 1..Len(p)
    BY TakeIs
  <1>2. 1 \in 1..Len(p) /\ IsWR(p[1])
    BY <1>1
  <1>3. ASSUME NEW i \in 1..Len(Tail(p)), IsWR(Tail(p)[i]), Tail(p)[i].src = Head(p).src
        PROVE  FALSE
    <2>1. i + 1 = 1
      BY <1>1, <1>2, <1>3 DEF WRPolled
    <2> QED BY <2>1, <1>1
  <1> QED BY <1>1, <1>2, <1>3 DEF WRPolled, NoWR

(* More sources may be polled; a source none of the events is of need not be. *)
LEMMA PolledGrows ==
    ASSUME NEW p, NEW w, WRPolled(p, w), NEW v, w \subseteq v
    PROVE  WRPolled(p, v)
  BY DEF WRPolled

(* A source none of the events is of need not be polled.                      *)
LEMMA PolledShrinks ==
    ASSUME NEW p, NEW w, WRPolled(p, w), NEW s, NoWR(p, s)
    PROVE  WRPolled(p, w \ {s})
  BY DEF WRPolled, NoWR
-----------------------------------------------------------------------------
(* Initially nothing is queued and nothing waits.                             *)
LEMMA PolledInit == Init => PolledInv
  <1> SUFFICES ASSUME Init PROVE PolledInv
    OBVIOUS
  <1>1. IsHeap(h) /\ \A s \in Src : h.wrq[s] = NULL
    BY DEF Init, IsHeap, HeapFields
  <1>2. IsList(events) /\ IsList(batch) /\ Len(events) = 0 /\ Len(batch) = 0
    BY EmptyIs DEF Init
  <1>3. ShapeInv
    BY <1>1, <1>2 DEF ShapeInv, Init, PCs
  <1>4. EventInv
    BY <1>2 DEF EventInv, WRPolled
  <1>5. ActInv /\ QueueInv
    BY <1>1 DEF ActInv, QueueInv, Writing, Init
  <1> QED BY <1>3, <1>4, <1>5 DEF PolledInv

(* What the client's writes have in common: they post synchronous events, and *)
(* change the queue of one source only when they poll it.                     *)
LEMMA PolledWrite ==
    ASSUME PolledInv, NEW s \in Src, IsHeap(h'), \A t \in Src \ {s} : h'.wrq[t] = h.wrq[t],
           \/ wr' = wr \cup {s} /\ halted' = halted \ {s}
           \/ h'.wrq[s] = h.wrq[s] /\ wr' = wr /\ halted' = halted,
           Milder(events, events'), batch' = batch, pc' = pc, act' = act
    PROVE  PolledInv'
  <1>1. IsList(events') /\ wr \subseteq wr' /\ wr' \subseteq Src
    BY DEF Milder, PolledInv, ShapeInv
  <1>2. ShapeInv'
    BY <1>1 DEF PolledInv, ShapeInv
  <1>3. WRPolled(events', wr')
    <2>1. WRPolled(events', wr)
      BY DEF Milder, PolledInv, EventInv
    <2> QED BY <1>1, <2>1, PolledGrows
  <1>4. WRPolled(batch', wr')
    BY <1>1, PolledGrows DEF PolledInv, EventInv
  <1>5. ASSUME NEW i \in 1..Len(batch'), IsWR(batch'[i])
        PROVE  NoWR(events', batch'[i].src)
    BY <1>5 DEF Milder, PolledInv, EventInv
  <1>6. EventInv'
    BY <1>3, <1>4, <1>5 DEF EventInv
  <1>7. ActInv'
    BY <1>1 DEF PolledInv, ActInv, Writing, Milder
  <1>8. ASSUME NEW t \in Src \ halted', h'.wrq[t] # NULL PROVE t \in wr'
    BY <1>1, <1>8 DEF PolledInv, QueueInv
  <1> QED BY <1>2, <1>6, <1>7, <1>8 DEF PolledInv, QueueInv

(* A list says no more than itself.                                           *)
LEMMA Unchanged == ASSUME NEW p, IsList(p) PROVE Milder(p, p)
  BY DEF Milder

(* Milder is transitive.                                                      *)
LEMMA MilderTwice ==
    ASSUME NEW p, NEW q1, NEW q2, Milder(p, q1), Milder(q1, q2)
    PROVE  Milder(p, q2)
  BY DEF Milder

(* An event of gwpr_write.                                                    *)
LEMMA EvtIs ==
    ASSUME NEW k, NEW s, NEW c, NEW r
    PROVE  Evt(k, s, c, r).kind = k /\ Evt(k, s, c, r).src = s
  BY DEF Evt

(* gwpr_write posts synchronous events only.                                  *)
LEMMA PostsSync ==
    ASSUME NEW p, IsList(p), NEW k \in Kinds \ {"WR"}, NEW s, NEW c, NEW r
    PROVE  Milder(p, <<Evt(k, s, c, r)>> \o p)
  BY PushSync, EvtIs DEF IsWR

(* A queued write polls its source.                                           *)
LEMMA PolledQueued ==
    ASSUME PolledInv, NEW s \in Src, WriteQueued(s) PROVE PolledInv'
  <1>1. IsHeap(h') /\ \A t \in Src \ {s} : h'.wrq[t] = h.wrq[t]
    BY QueueKeeps DEF WriteQueued, PolledInv, ShapeInv
  <1>2. Milder(events, events') /\ events' = events
    BY Unchanged DEF WriteQueued, PolledInv, ShapeInv
  <1>3. /\ wr' = wr \cup {s} /\ halted' = halted \ {s}
        /\ batch' = batch /\ pc' = pc /\ act' = act
    BY DEF WriteQueued, WantsWrite, actVars
  <1> QED BY <1>1, <1>2, <1>3, PolledWrite

(* A cell taken for a synchronous event.                                      *)
LEMMA TakenKeeps ==
    ASSUME NEW g, IsHeap(g), NEW c, NEW b
    PROVE  /\ IsHeap([gwprwrq_get(g) EXCEPT !.buf[c] = b])
           /\ [gwprwrq_get(g) EXCEPT !.buf[c] = b].wrq = g.wrq
  <1>1. IsHeap(gwprwrq_get(g)) /\ gwprwrq_get(g).wrq = g.wrq
    BY GetKeeps
  <1>2. ASSUME NEW f, IsHeap(f)
        PROVE  IsHeap([f EXCEPT !.buf[c] = b]) /\ [f EXCEPT !.buf[c] = b].wrq = f.wrq
    BY <1>2, BufKeeps
  <1> QED BY <1>1, <1>2

(* A synchronous write that took everything queues nothing.                   *)
LEMMA PolledSyncFull ==
    ASSUME PolledInv, NEW s \in Src, SyncFull(s) PROVE PolledInv'
  <1>1. IsHeap(h') /\ h'.wrq = h.wrq
    BY TakenKeeps DEF SyncFull, PolledInv, ShapeInv
  <1>2. Milder(events, events')
    BY PostsSync DEF SyncFull, PolledInv, ShapeInv, Kinds
  <1>3. wr' = wr /\ halted' = halted /\ batch' = batch /\ pc' = pc /\ act' = act
    BY DEF SyncFull, actVars
  <1> QED BY <1>1, <1>2, <1>3, PolledWrite

(* One that fell short queues the rest or posts the error.                    *)
LEMMA PolledSyncShort ==
    ASSUME PolledInv, NEW s \in Src, SyncShort(s) PROVE PolledInv'
  <1> DEFINE b == Data(nwrites + 1)
             c == GetCell(h)
             ev == <<Evt("SYNC_WRITE", s, c, <<>>)>> \o events
  <1>1. PICK o \in Outcomes(s, b) :
          LET done == Take(b, o[1])
              g == [gwprwrq_get(h) EXCEPT !.buf[c] = done]
              c2 == GetCell(g)
          IN  \/ /\ h' = IF o[1] = 0 THEN Queue(Queue(g, s, done), s, done)
                         ELSE Queue(g, s, done)
                 /\ wr' = WantsWrite(s) /\ halted' = halted \ {s}
                 /\ events' = IF o[1] = 0 THEN ev
                              ELSE <<Evt("SYNC_ERROR", s, NULL, Rest(b, o[1]))>> \o ev
              \/ /\ h' = [gwprwrq_get(g) EXCEPT !.buf[c2] = Rest(b, o[1])]
                 /\ events' = <<Evt("SYNC_CLOSE", s, c2, <<>>)>> \o ev
                 /\ wr' = wr /\ halted' = halted
              \/ /\ h' = g
                 /\ events' = <<Evt("SYNC_ERROR", s, NULL, Rest(b, o[1]))>> \o ev
                 /\ wr' = wr /\ halted' = halted
    BY DEF SyncShort
  <1>2. batch' = batch /\ pc' = pc /\ act' = act
    BY DEF SyncShort, actVars
  <1> DEFINE done == Take(b, o[1])
             g == [gwprwrq_get(h) EXCEPT !.buf[c] = done]
             c2 == GetCell(g)
             er == <<Evt("SYNC_ERROR", s, NULL, Rest(b, o[1]))>> \o ev
             cl == <<Evt("SYNC_CLOSE", s, c2, <<>>)>> \o ev
  <1>3. IsHeap(h) /\ IsList(events)
    BY DEF PolledInv, ShapeInv
  <1>4. IsHeap(g) /\ g.wrq = h.wrq
    BY <1>3, TakenKeeps
  <1>5. Milder(events, ev) /\ IsList(ev)
    BY <1>3, PostsSync DEF Kinds, Milder
  <1>6. Milder(ev, er) /\ Milder(ev, cl)
    <2> HIDE DEF ev, c2
    <2> QED BY <1>5, PostsSync DEF Kinds
  <1>7. \/ /\ h' = Queue(Queue(g, s, done), s, done) \/ h' = Queue(g, s, done)
           /\ wr' = wr \cup {s} /\ halted' = halted \ {s} /\ events' \in {ev, er}
        \/ /\ h' = [gwprwrq_get(g) EXCEPT !.buf[c2] = Rest(b, o[1])]
           /\ wr' = wr /\ halted' = halted /\ events' = cl
        \/ h' = g /\ wr' = wr /\ halted' = halted /\ events' = er
    BY <1>1 DEF WantsWrite
  <1> HIDE DEF g, done, c2, er, cl, ev, b, c
  <1>8. Milder(events, events')
    BY <1>5, <1>6, <1>7, MilderTwice
  <1>9. CASE /\ h' = Queue(Queue(g, s, done), s, done) \/ h' = Queue(g, s, done)
             /\ wr' = wr \cup {s} /\ halted' = halted \ {s}
    <2>1. ASSUME NEW f, IsHeap(f), \A t \in Src \ {s} : f.wrq[t] = h.wrq[t]
          PROVE  /\ IsHeap(Queue(f, s, done))
                 /\ \A t \in Src \ {s} : Queue(f, s, done).wrq[t] = h.wrq[t]
      BY <2>1, QueueKeeps
    <2>2. IsHeap(Queue(g, s, done)) /\ \A t \in Src \ {s} : Queue(g, s, done).wrq[t] = h.wrq[t]
      BY <1>4, <2>1
    <2>3. /\ IsHeap(Queue(Queue(g, s, done), s, done))
          /\ \A t \in Src \ {s} : Queue(Queue(g, s, done), s, done).wrq[t] = h.wrq[t]
      BY <2>1, <2>2
    <2>4. IsHeap(h') /\ \A t \in Src \ {s} : h'.wrq[t] = h.wrq[t]
      BY <1>9, <2>2, <2>3
    <2> QED BY <1>2, <1>8, <1>9, <2>4, PolledWrite
  <1>10. CASE /\ h' = [gwprwrq_get(g) EXCEPT !.buf[c2] = Rest(b, o[1])] \/ h' = g
              /\ wr' = wr /\ halted' = halted
    <2>1. IsHeap(h') /\ h'.wrq = h.wrq
      <3>1. CASE h' = g
        BY <1>4, <3>1
      <3>2. CASE h' = [gwprwrq_get(g) EXCEPT !.buf[c2] = Rest(b, o[1])]
        <4>1. ASSUME NEW x, NEW y
              PROVE  /\ IsHeap([gwprwrq_get(g) EXCEPT !.buf[x] = y])
                     /\ [gwprwrq_get(g) EXCEPT !.buf[x] = y].wrq = h.wrq
          BY <1>4, TakenKeeps
        <4> QED BY <3>2, <4>1
      <3> QED BY <1>10, <3>1, <3>2
    <2> QED BY <1>2, <1>8, <1>10, <2>1, PolledWrite
  <1> QED BY <1>7, <1>9, <1>10

(* The backend posts an event only of a source that has none.                 *)
LEMMA PolledWritable ==
    ASSUME PolledInv, NEW s \in Src, Writable(s) PROVE PolledInv'
  <1> DEFINE e == Evt("WR", s, NULL, <<>>)
  <1>1. /\ pc = "idle" /\ batch = <<>> /\ s \in wr /\ events' = <<e>> \o events
        /\ NoWR(events, s)
        /\ UNCHANGED <<h, wr, batch, pc, act, halted>>
    BY DEF Writable, NoWR, IsWR, actVars, histVars
  <1>2. IsWR(e) /\ e.src = s
    BY EvtIs DEF IsWR
  <1>3. IsList(events) /\ Len(batch) = 0
    BY <1>1, EmptyIs DEF PolledInv, ShapeInv
  <1> HIDE DEF e
  <1>4. /\ IsList(events') /\ Len(events') = Len(events) + 1 /\ Len(events) \in Nat
        /\ events'[1] = e /\ \A i \in 1..Len(events) : events'[i + 1] = events[i]
    BY <1>1, <1>3, PushIs
  <1>5. ASSUME NEW i \in 1..Len(events'), i # 1
        PROVE  i - 1 \in 1..Len(events) /\ events'[i] = events[i - 1]
    <2>1. i - 1 \in 1..Len(events) /\ (i - 1) + 1 = i
      BY <1>4, <1>5
    <2> QED BY <1>4, <2>1
  <1>6. WRPolled(events', wr')
    <2>1. ASSUME NEW i \in 1..Len(events'), IsWR(events'[i]) PROVE events'[i].src \in wr'
      <3>1. CASE i = 1
        BY <1>1, <1>2, <1>4, <3>1
      <3>2. CASE i # 1
        BY <1>1, <1>5, <2>1, <3>2 DEF PolledInv, EventInv, WRPolled
      <3> QED BY <3>1, <3>2
    <2>2. ASSUME NEW i \in 1..Len(events'), NEW j \in 1..Len(events'),
                 IsWR(events'[i]), IsWR(events'[j]), events'[j].src = events'[i].src
          PROVE  i = j
      <3>1. CASE i # 1 /\ j # 1
        <4>1. i - 1 = j - 1
          BY <1>5, <2>2, <3>1 DEF PolledInv, EventInv, WRPolled
        <4> QED BY <4>1
      <3>2. ASSUME NEW k \in 1..Len(events'), k # 1, IsWR(events'[k]) PROVE events'[k].src # s
        BY <1>1, <1>5, <3>2 DEF NoWR
      <3>3. CASE i = 1 /\ j # 1
        BY <1>2, <1>4, <2>2, <3>2, <3>3
      <3>4. CASE i # 1 /\ j = 1
        BY <1>2, <1>4, <2>2, <3>2, <3>4
      <3> QED BY <3>1, <3>3, <3>4
    <2> QED BY <2>1, <2>2 DEF WRPolled
  <1>7. EventInv'
    <2>1. 1..Len(batch') = {}
      BY <1>1, <1>3
    <2>2. WRPolled(batch', wr')
      BY <2>1 DEF WRPolled
    <2> QED BY <1>6, <2>1, <2>2 DEF EventInv
  <1>8. ShapeInv'
    BY <1>1, <1>4 DEF PolledInv, ShapeInv
  <1>9. ActInv' /\ QueueInv'
    BY <1>1 DEF PolledInv, ActInv, QueueInv, Writing
  <1> QED BY <1>7, <1>8, <1>9 DEF PolledInv

(* gwrl_dispatch takes what was posted.                                       *)
LEMMA PolledNextBatch ==
    ASSUME PolledInv, NextBatch PROVE PolledInv'
  <1>1. /\ pc = "idle" /\ batch' = events /\ events' = <<>>
        /\ UNCHANGED <<h, wr, pc, act, halted>>
    BY DEF NextBatch, actVars, histVars
  <1>2. IsList(events') /\ Len(events') = 0
    BY <1>1, EmptyIs
  <1>3. ShapeInv'
    BY <1>1, <1>2 DEF PolledInv, ShapeInv
  <1>4. EventInv'
    BY <1>1, <1>2 DEF PolledInv, EventInv, WRPolled, NoWR
  <1>5. ActInv' /\ QueueInv'
    BY <1>1 DEF PolledInv, ActInv, QueueInv, Writing
  <1> QED BY <1>3, <1>4, <1>5 DEF PolledInv

(* What taking the next event of the batch leaves.                            *)
LEMMA BatchShrinks ==
    ASSUME PolledInv, wr' = wr, events' = events, batch # <<>>, batch' = Tail(batch)
    PROVE  IsList(events') /\ IsList(batch') /\ EventInv'
  <1>1. Milder(batch, batch') /\ IsList(batch) /\ IsList(events)
    BY TailIsMilder DEF PolledInv, ShapeInv
  <1>2. WRPolled(events', wr') /\ WRPolled(batch', wr')
    BY <1>1 DEF PolledInv, EventInv, Milder
  <1>3. ASSUME NEW i \in 1..Len(batch'), IsWR(batch'[i]) PROVE NoWR(events', batch'[i].src)
    <2>1. batch'[i] = batch[i + 1] /\ i + 1 \in 1..Len(batch)
      BY <1>1, TakeIs
    <2> QED BY <1>3, <2>1 DEF PolledInv, EventInv
  <1> QED BY <1>1, <1>2, <1>3 DEF EventInv, Milder

(* A writable event is taken, and with it its queue.                          *)
LEMMA PolledActivityWrite ==
    ASSUME PolledInv, ActivityWrite PROVE PolledInv'
  <1> DEFINE s == Head(batch).src
  <1>1. /\ batch # <<>> /\ IsWR(Head(batch)) /\ batch' = Tail(batch)
        /\ pc' = "item" /\ act' = s /\ h' = [h EXCEPT !.wrq[s] = NULL]
        /\ UNCHANGED <<wr, events, halted>>
    BY DEF ActivityWrite, Called, IsWR, histVars
  <1>2. IsHeap(h) /\ IsList(batch) /\ WRPolled(batch, wr) /\ wr \subseteq Src
    BY DEF PolledInv, ShapeInv, EventInv
  <1>3. s \in wr /\ NoWR(batch', s)
    BY <1>1, <1>2, HeadIsOnly
  <1>4. NoWR(events', s)
    <2>1. Head(batch) = batch[1] /\ 1 \in 1..Len(batch)
      BY <1>1, <1>2, TakeIs
    <2> QED BY <1>1, <2>1 DEF PolledInv, EventInv
  <1>5. IsList(events') /\ IsList(batch') /\ EventInv'
    BY <1>1, BatchShrinks
  <1> HIDE DEF s
  <1>6. IsHeap(h') /\ \A t \in Src : h'.wrq[t] = IF t = s THEN NULL ELSE h.wrq[t]
    BY <1>1, <1>2 DEF IsHeap, HeapFields
  <1>7. ShapeInv'
    BY <1>1, <1>2, <1>5, <1>6 DEF ShapeInv, PCs
  <1>8. ActInv'
    BY <1>1, <1>3, <1>4 DEF ActInv
  <1>9. QueueInv'
    BY <1>1, <1>6 DEF PolledInv, QueueInv
  <1> QED BY <1>5, <1>7, <1>8, <1>9 DEF PolledInv

(* The synchronous events change no queue and nothing of what is polled.      *)
LEMMA PolledSync ==
    ASSUME PolledInv, ActivitySyncWrite \/ ActivitySyncClose \/ ActivitySyncError
    PROVE  PolledInv'
  <1>1. /\ pc = "idle" /\ batch # <<>> /\ batch' = Tail(batch) /\ pc' \in {"idle", "synccb"}
        /\ UNCHANGED <<h, wr, events, halted>>
    BY DEF ActivitySyncWrite, ActivitySyncClose, ActivitySyncError, Called, actVars
  <1>2. IsList(events') /\ IsList(batch') /\ EventInv'
    BY <1>1, BatchShrinks
  <1>3. ShapeInv'
    BY <1>1, <1>2 DEF PolledInv, ShapeInv, PCs
  <1>4. ActInv' /\ QueueInv'
    BY <1>1 DEF PolledInv, ActInv, QueueInv, Writing
  <1> QED BY <1>2, <1>3, <1>4 DEF PolledInv

(* The end of the callback of a synchronous write.                            *)
LEMMA PolledSyncEnd ==
    ASSUME PolledInv, SyncWriteEnd PROVE PolledInv'
  <1>1. /\ pc' = "idle" /\ h' = gwprwrq_free(h, q)
        /\ UNCHANGED <<wr, events, batch, act, halted>>
    BY DEF SyncWriteEnd, histVars
  <1>2. IsHeap(h') /\ h'.wrq = h.wrq
    BY <1>1, FreeKeeps DEF PolledInv, ShapeInv
  <1>3. ShapeInv'
    BY <1>1, <1>2 DEF PolledInv, ShapeInv, PCs
  <1>4. EventInv'
    BY <1>1 DEF PolledInv, EventInv
  <1>5. ActInv' /\ QueueInv'
    BY <1>1, <1>2 DEF PolledInv, ActInv, QueueInv, Writing
  <1> QED BY <1>3, <1>4, <1>5 DEF PolledInv

(* The loop over the queue changes the queue of its own source only, which    *)
(* stays polled.                                                              *)
LEMMA PolledLoop ==
    ASSUME PolledInv, Writing, Writing', pc' \in PCs, IsHeap(h'),
           \A t \in Src \ {act} : h'.wrq[t] = h.wrq[t],
           UNCHANGED <<wr, events, batch, act, halted>>
    PROVE  PolledInv'
  <1>1. act \in wr
    BY DEF PolledInv, ActInv
  <1>2. ShapeInv' /\ EventInv' /\ ActInv'
    BY DEF PolledInv, ShapeInv, EventInv, ActInv
  <1>3. QueueInv'
    BY <1>1 DEF PolledInv, QueueInv
  <1> QED BY <1>2, <1>3 DEF PolledInv

(* Every step of gwpr_src_activity but its end.                               *)
LEMMA PolledActivity ==
    ASSUME PolledInv, Activity, ~ActivityEnd PROVE PolledInv'
  <1>1. IsHeap(h) /\ wr \subseteq Src
    BY DEF PolledInv, ShapeInv
  <1>2. CASE WriteItem \/ LoopEnd
    <2>1. /\ Writing /\ Writing' /\ pc' \in PCs /\ h' = h
          /\ UNCHANGED <<wr, events, batch, act, halted>>
      BY <1>2 DEF WriteItem, LoopEnd, Writing, PCs, histVars
    <2> QED BY <1>1, <2>1, PolledLoop
  <1>3. CASE ResultWritten \/ ResultClosed
    <2>1. /\ Writing /\ Writing' /\ pc' \in PCs /\ h' = gwprwrq_free(h, q)
          /\ UNCHANGED <<wr, events, batch, act, halted>>
      BY <1>3 DEF ResultWritten, ResultClosed, Result, Writing, PCs, histVars
    <2>2. IsHeap(h') /\ h'.wrq = h.wrq
      BY <1>1, <2>1, FreeKeeps
    <2> QED BY <2>1, <2>2, PolledLoop
  <1>4. CASE ResultBlocked
    <2>1. /\ Writing /\ Writing' /\ pc' \in PCs /\ h' = gwprwrq_putback(h, act, q)
          /\ UNCHANGED <<wr, events, batch, act, halted>>
      BY <1>4 DEF ResultBlocked, Result, Writing, PCs, histVars
    <2>2. act \in Src
      BY <1>1, <2>1 DEF PolledInv, ActInv
    <2>3. IsHeap(h') /\ \A t \in Src \ {act} : h'.wrq[t] = h.wrq[t]
      BY <1>1, <2>1, <2>2, PutbackKeeps
    <2> QED BY <2>1, <2>3, PolledLoop
  <1>5. CASE ResultPartial
    <2> DEFINE c == GetCell(h)
               g == [gwprwrq_get(h) EXCEPT !.buf[c] = Rem, !.next[c] = h.next[q]]
    <2>1. /\ Writing /\ Writing' /\ pc' \in PCs /\ h' = gwprwrq_putback(g, act, c)
          /\ UNCHANGED <<wr, events, batch, act, halted>>
      BY <1>5 DEF ResultPartial, Result, Writing, PCs
    <2>2. act \in Src
      BY <1>1, <2>1 DEF PolledInv, ActInv
    <2>3. IsHeap(h') /\ \A t \in Src \ {act} : h'.wrq[t] = h.wrq[t]
      <3>1. IsHeap(gwprwrq_get(h)) /\ gwprwrq_get(h).wrq = h.wrq
        BY <1>1, GetKeeps
      <3> DEFINE f == gwprwrq_get(h)
                 b == Rem
                 n == h.next[q]
      <3> HIDE DEF f, b, n, c
      <3>2. /\ IsHeap([f EXCEPT !.buf[c] = b, !.next[c] = n])
            /\ [f EXCEPT !.buf[c] = b, !.next[c] = n].wrq = f.wrq
        BY <3>1 DEF f, IsHeap, HeapFields
      <3>3. IsHeap(g) /\ g.wrq = h.wrq
        BY <3>1, <3>2 DEF f, b, n
      <3> HIDE DEF g, c
      <3> QED BY <2>1, <2>2, <3>3, PutbackKeeps
    <2> QED BY <2>1, <2>3, PolledLoop
  <1>6. CASE ResultError
    <2> DEFINE g == IF written > 0 THEN [h EXCEPT !.buf[q] = Take(@, written)] ELSE h
    <2>1. /\ Writing /\ Writing' /\ pc' \in PCs
          /\ h' = gwprwrq_putback(g, act, q) \/ h' = gwprwrq_free(h, q)
          /\ UNCHANGED <<wr, events, batch, act, halted>>
      BY <1>6 DEF ResultError, Result, Writing, PCs
    <2>2. act \in Src
      BY <1>1, <2>1 DEF PolledInv, ActInv
    <2>3. IsHeap(g) /\ g.wrq = h.wrq
      BY <1>1 DEF IsHeap, HeapFields
    <2> HIDE DEF g
    <2>4. CASE h' = gwprwrq_putback(g, act, q)
      <3>1. IsHeap(h') /\ \A t \in Src \ {act} : h'.wrq[t] = h.wrq[t]
        BY <2>2, <2>3, <2>4, PutbackKeeps
      <3> QED BY <2>1, <3>1, PolledLoop
    <2>5. CASE h' = gwprwrq_free(h, q)
      <3>1. IsHeap(h') /\ h'.wrq = h.wrq
        BY <1>1, <2>5, FreeKeeps
      <3> QED BY <2>1, <3>1, PolledLoop
    <2> QED BY <2>1, <2>4, <2>5
  <1> QED BY <1>2, <1>3, <1>4, <1>5, <1>6 DEF Activity

(* The end shuts the write events off only when nothing is queued, or for an  *)
(* error, after which the source is one of halted; no event of it waits.      *)
LEMMA PolledEnd ==
    ASSUME PolledInv, ActivityEnd PROVE PolledInv'
  <1>1. /\ pc = "end" /\ pc' = "idle" /\ UNCHANGED <<h, events, batch, act>>
        /\ wr' = IF h.wrq[act] = NULL \/ stopwrite THEN wr \ {act} ELSE wr
        /\ halted' = IF stopwrite /\ h.wrq[act] # NULL THEN halted \cup {act} ELSE halted
    BY DEF ActivityEnd
  <1>2. /\ act \in wr /\ NoWR(events, act) /\ NoWR(batch, act)
        /\ WRPolled(events, wr) /\ WRPolled(batch, wr)
    BY <1>1 DEF PolledInv, ActInv, EventInv, Writing
  <1>3. WRPolled(events, wr') /\ WRPolled(batch, wr')
    BY <1>1, <1>2, PolledShrinks
  <1>4. EventInv'
    BY <1>1, <1>3 DEF PolledInv, EventInv
  <1>5. ShapeInv'
    BY <1>1 DEF PolledInv, ShapeInv, PCs
  <1>6. ActInv'
    BY <1>1 DEF ActInv, Writing
  <1>7. QueueInv'
    BY <1>1 DEF PolledInv, QueueInv
  <1> QED BY <1>4, <1>5, <1>6, <1>7 DEF PolledInv

(* A source is deleted when no event of it waits.                             *)
LEMMA PolledDel ==
    ASSUME PolledInv, NEW s \in Src, gwpr_src_del(s) PROVE PolledInv'
  <1>1. /\ pc = "idle" /\ UNCHANGED <<events, batch, pc, act>>
        /\ h' = [h EXCEPT !.wrq[s] = NULL, !.wrqlast[s] = NULL]
        /\ wr' = wr \ {s} /\ halted' = halted \ {s}
        /\ \A i \in 1..Len(events \o batch) : (events \o batch)[i].src # s
    BY DEF gwpr_src_del, Pending, actVars
  <1>2. IsHeap(h) /\ IsList(events) /\ IsList(batch)
    BY DEF PolledInv, ShapeInv
  <1>3. NoWR(events, s) /\ NoWR(batch, s)
    <2> DEFINE S == {events[i] : i \in 1..Len(events)} \cup {batch[i] : i \in 1..Len(batch)}
    <2>1. events \in Seq(S) /\ batch \in Seq(S)
      <3>1. events \in Seq({events[i] : i \in 1..Len(events)})
            /\ batch \in Seq({batch[i] : i \in 1..Len(batch)})
        BY <1>2 DEF IsList
      <3> QED BY <3>1, SeqMonotonic
    <2> HIDE DEF S
    <2>2. /\ Len(events \o batch) = Len(events) + Len(batch)
          /\ Len(events) \in Nat /\ Len(batch) \in Nat
          /\ \A i \in 1..(Len(events) + Len(batch)) : (events \o batch)[i] =
                IF i <= Len(events) THEN events[i] ELSE batch[i - Len(events)]
      BY <2>1, ConcatProperties, LenProperties
    <2>3. ASSUME NEW i \in 1..Len(events) PROVE events[i].src # s
      <3>1. i \in 1..(Len(events) + Len(batch)) /\ (events \o batch)[i] = events[i]
        BY <2>2
      <3> QED BY <1>1, <2>2, <3>1
    <2>4. ASSUME NEW i \in 1..Len(batch) PROVE batch[i].src # s
      <3> DEFINE j == Len(events) + i
      <3>1. j \in 1..(Len(events) + Len(batch)) /\ ~(j <= Len(events)) /\ j - Len(events) = i
        BY <2>2
      <3>2. (events \o batch)[j] = batch[i]
        BY <2>2, <3>1
      <3> QED BY <1>1, <2>2, <3>1, <3>2
    <2> QED BY <2>3, <2>4 DEF NoWR
  <1>4. WRPolled(events, wr') /\ WRPolled(batch, wr')
    BY <1>1, <1>3, PolledShrinks DEF PolledInv, EventInv
  <1>5. EventInv'
    BY <1>1, <1>4 DEF PolledInv, EventInv
  <1>6. IsHeap(h') /\ \A t \in Src : h'.wrq[t] = IF t = s THEN NULL ELSE h.wrq[t]
    BY <1>1, <1>2 DEF IsHeap, HeapFields
  <1>7. ShapeInv'
    BY <1>1, <1>6 DEF PolledInv, ShapeInv
  <1>8. ActInv' /\ QueueInv'
    BY <1>1, <1>6 DEF PolledInv, ActInv, QueueInv, Writing
  <1> QED BY <1>5, <1>7, <1>8 DEF PolledInv

(* gwpr_free leaves no queue.                                                 *)
LEMMA PolledFree ==
    ASSUME PolledInv, gwpr_free PROVE PolledInv'
  <1>1. /\ pc' = "freed" /\ Pending = <<>> /\ UNCHANGED <<events, batch, act, halted>> /\ wr' = {}
        /\ h'.wrq = [s \in Src |-> NULL] /\ DOMAIN h' = DOMAIN h
    BY DEF gwpr_free, histVars, PolledInv, ShapeInv, IsHeap, HeapFields
  <1>2. IsList(events) /\ IsList(batch)
    BY DEF PolledInv, ShapeInv
  <1>3. Len(events) = 0 /\ Len(batch) = 0
    <2> DEFINE S == {events[i] : i \in 1..Len(events)} \cup {batch[i] : i \in 1..Len(batch)}
    <2>1. events \in Seq(S) /\ batch \in Seq(S)
      <3>1. events \in Seq({events[i] : i \in 1..Len(events)})
            /\ batch \in Seq({batch[i] : i \in 1..Len(batch)})
        BY <1>2 DEF IsList
      <3> QED BY <3>1, SeqMonotonic
    <2> HIDE DEF S
    <2>2. Len(events \o batch) = Len(events) + Len(batch) /\ Len(events) \in Nat
          /\ Len(batch) \in Nat
      BY <2>1, ConcatProperties, LenProperties
    <2>3. Len(events \o batch) = 0
      BY <1>1, EmptyIs DEF Pending
    <2> QED BY <2>2, <2>3
  <1>4. ShapeInv'
    BY <1>1 DEF PolledInv, ShapeInv, PCs, IsHeap
  <1>5. EventInv'
    BY <1>1, <1>3 DEF EventInv, WRPolled
  <1>6. ActInv' /\ QueueInv'
    BY <1>1 DEF ActInv, QueueInv, Writing
  <1> QED BY <1>4, <1>5, <1>6 DEF PolledInv

(* Every step of the model.                                                   *)
LEMMA PolledNext == PolledInv /\ [Next]_vars => PolledInv'
  <1> SUFFICES ASSUME PolledInv, [Next]_vars PROVE PolledInv'
    OBVIOUS
  <1>1. CASE Activity
    BY <1>1, PolledActivity, PolledEnd
  <1>2. CASE Dispatch
    BY <1>2, PolledNextBatch, PolledActivityWrite, PolledSync, PolledSyncEnd DEF Dispatch
  <1>3. CASE gwpr_free
    BY <1>3, PolledFree
  <1>4. CASE \E s \in Src : gwpr_write(s) \/ Writable(s) \/ gwpr_src_del(s)
    BY <1>4, PolledQueued, PolledSyncFull, PolledSyncShort, PolledWritable, PolledDel
    DEF gwpr_write
  <1>5. CASE UNCHANGED vars
    BY <1>5 DEF vars, actVars, histVars, clientVars, PolledInv, ShapeInv, EventInv, ActInv,
        QueueInv, Writing
  <1> QED BY <1>1, <1>2, <1>3, <1>4, <1>5 DEF Next, Ended
-----------------------------------------------------------------------------
(* Which sources are polled, which have a writable event waiting, and which   *)
(* queue is being written: gwprwrq_add and gwprwrq_putback fill a queue only  *)
(* while its source is polled, and gwpr_src_activity shuts polling off only   *)
(* after its queue is empty or an error stopped it.                           *)
THEOREM WritePolling == Spec => []PolledInv
  <1>1. Init => PolledInv
    BY PolledInit
  <1>2. PolledInv /\ [Next]_vars => PolledInv'
    BY PolledNext
  <1> QED BY <1>1, <1>2, PTL DEF Spec

(* QueueIsPolled for any sources, kernel and clients: data that gwpr_write    *)
(* has queued is never left with write events shut off, unless an error       *)
(* stopped the write.                                                         *)
THEOREM QueuedIsPolled == Spec => []QueueIsPolled
  <1>1. PolledInv => QueueIsPolled
    BY DEF PolledInv, QueueInv, QueueIsPolled
  <1> QED BY <1>1, WritePolling, PTL

-----------------------------------------------------------------------------
(* What the recursive functions of the model compute: by least counter-       *)
(* examples, as a set of sets 1..k has a least member.                        *)
LEMMA LeastNat ==
    ASSUME NEW N \in Nat, NEW T, T \subseteq 0..N, T # {}
    PROVE  \E n \in T : \A m \in T : n =< m
  <1> DEFINE U == {1..k : k \in T}
             R == StrictSubsetOrdering(1..N)
  <1>1. IsFiniteSet(1..N)
    BY FS_Interval
  <1>2. IsWellFoundedOn(R, SUBSET (1..N))
    <2>1. FiniteSubsetsOf(1..N) = SUBSET (1..N)
      BY <1>1, FS_FiniteSubsetsOfFinite
    <2> QED BY <2>1, FS_StrictSubsetOrderingWellFounded
  <1>3. U \subseteq SUBSET (1..N) /\ U # {}
    <2>1. \A k \in T : 1..k \subseteq 1..N
      OBVIOUS
    <2> QED BY <2>1
  <1> HIDE DEF R
  <1>4. PICK u \in U : \A v \in U : <<v, u>> \notin R
    <2> HIDE DEF U
    <2> QED BY <1>2, <1>3, WFMin, Zenon
  <1>5. PICK n \in T : u = 1..n
    BY <1>4
  <1>6. ASSUME NEW m \in T, m < n PROVE FALSE
    <2>1. 1..m \in U
      OBVIOUS
    <2>2. /\ n \in 1..n /\ n \notin 1..m /\ 1..m \subseteq 1..n
          /\ 1..m \subseteq 1..N /\ 1..n \subseteq 1..N
      BY <1>6
    <2>3. 1..m # 1..n
      BY <2>2
    <2>4. <<1..m, 1..n>> \in R
      BY <2>2, <2>3 DEF R, StrictSubsetOrdering
    <2> QED BY <1>4, <1>5, <2>1, <2>4
  <1> QED BY <1>6

(* Concatenation, as an operator that the provers need not look into.         *)
Cat(a, b) == a \o b
(* Concatenation of sequences over S is one over S.                           *)
LEMMA CatType ==
    ASSUME NEW S, NEW a \in Seq(S), NEW b \in Seq(S)
    PROVE  Cat(a, b) \in Seq(S)
  BY ConcatProperties DEF Cat
(* It is associative.                                                         *)
LEMMA CatAssoc ==
    ASSUME NEW S, NEW a \in Seq(S), NEW b \in Seq(S), NEW c \in Seq(S)
    PROVE  Cat(Cat(a, b), c) = Cat(a, Cat(b, c))
  BY ConcatAssociative DEF Cat
(* The empty sequence is its unit.                                            *)
LEMMA CatEmpty ==
    ASSUME NEW S, NEW a \in Seq(S)
    PROVE  Cat(a, <<>>) = a /\ Cat(<<>>, a) = a
  BY ConcatEmptySeq DEF Cat

(* g[k] joins the first k sequences of f.                                     *)
Joins(S, f, n, g) ==
    /\ g \in [1..n -> Seq(S)]
    /\ \A i \in 1..n : g[i] = IF i = 1 THEN f[i] ELSE Cat(g[i - 1], f[i])

(* What g joins, one sequence at a time.                                      *)
LEMMA JoinAt ==
    ASSUME NEW S, NEW f, NEW n \in Nat, NEW g, Joins(S, f, n, g), NEW i \in 1..n
    PROVE  /\ g[i] \in Seq(S) /\ (i = 1 => g[i] = f[i])
           /\ i # 1 => i - 1 \in 1..n /\ g[i - 1] \in Seq(S) /\ g[i] = Cat(g[i - 1], f[i])
  BY DEF Joins

(* Every f can be joined: else some least prefix of it could not.             *)
LEMMA JoinExists ==
    ASSUME NEW S, NEW f \in Seq(Seq(S))
    PROVE  \E g : Joins(S, f, Len(f), g)
  <1> DEFINE N == Len(f)
             T == {k \in 0..N : ~\E g : Joins(S, f, k, g)}
  <1>1. N \in Nat /\ \A i \in 1..N : f[i] \in Seq(S)
    BY LenProperties, ElementOfSeq
  <1> SUFFICES ASSUME T # {} PROVE FALSE
    BY <1>1
  <1>2. PICK k \in T : \A m \in T : k =< m
    BY <1>1, LeastNat
  <1>3. k # 0
    <2>1. Joins(S, f, 0, <<>>)
      BY DEF Joins
    <2> QED BY <2>1
  <1>4. k \in 1..N /\ k - 1 \in 0..N /\ k - 1 \notin T
    <2>1. k \in 1..N /\ k - 1 \in 0..N
      BY <1>1, <1>3
    <2> HIDE DEF T
    <2>2. k - 1 \notin T
      BY <1>2, <2>1
    <2> QED BY <2>1, <2>2
  <1>5. PICK g : Joins(S, f, k - 1, g)
    BY <1>4
  <1> HIDE DEF T
  <1> DEFINE x == IF k = 1 THEN f[k] ELSE Cat(g[k - 1], f[k])
             r == [i \in 1..k |-> IF i = k THEN x ELSE g[i]]
  <1>6. x \in Seq(S)
    <2>1. k # 1 => g[k - 1] \in Seq(S)
      BY <1>4, <1>5 DEF Joins
    <2> QED BY <1>1, <1>4, <2>1, CatType
  <1>9. x = IF k = 1 THEN f[k] ELSE Cat(g[k - 1], f[k])
    OBVIOUS
  <1> HIDE DEF x
  <1>7. Joins(S, f, k, r)
    <2>1. r \in [1..k -> Seq(S)]
      BY <1>4, <1>5, <1>6 DEF Joins
    <2>2. ASSUME NEW i \in 1..k PROVE r[i] = IF i = 1 THEN f[i] ELSE Cat(r[i - 1], f[i])
      <3>1. CASE i = k
        <4>1. k # 1 => r[k - 1] = g[k - 1]
          BY <1>4
        <4> QED BY <1>9, <3>1, <4>1
      <3>2. CASE i # k
        <4>1. i \in 1..(k - 1) /\ r[i] = g[i] /\ (i # 1 => r[i - 1] = g[i - 1])
          BY <1>4, <3>2
        <4> QED BY <1>5, <4>1 DEF Joins
      <3> QED BY <3>1, <3>2
    <2> QED BY <2>1, <2>2 DEF Joins
  <1> QED BY <1>7, <1>2 DEF T

(* FlattenSeq is what any such g computes, by the least counterexample.       *)
LEMMA FlattenIs ==
    ASSUME NEW S, NEW f \in Seq(Seq(S)), f # <<>>, NEW g, Joins(S, f, Len(f), g)
    PROVE  FlattenSeq(f) = g[Len(f)]
  <1> DEFINE N == Len(f)
             Is(r) == r = [i \in 1..N |-> IF i = 1 THEN f[i] ELSE Cat(r[i - 1], f[i])]
             G == CHOOSE r : Is(r)
  <1>1. N \in Nat \ {0}
    BY LenProperties, EmptySeq
  <1>2. FlattenSeq(f) = G[N]
    BY <1>1 DEF FlattenSeq, Cat
  <1>3. Is(g)
    BY DEF Joins
  <1>4. Is(G)
    <2> HIDE DEF Is
    <2> QED BY <1>3
  <1>5. /\ \A i \in 1..N : G[i] = IF i = 1 THEN f[i] ELSE Cat(G[i - 1], f[i])
        /\ \A i \in 1..N : g[i] = IF i = 1 THEN f[i] ELSE Cat(g[i - 1], f[i])
    BY <1>3, <1>4
  <1> HIDE DEF G, Is
  <1> DEFINE T == {k \in 1..N : G[k] # g[k]}
  <1>6. T = {}
    <2> SUFFICES ASSUME T # {} PROVE FALSE
      OBVIOUS
    <2>1. PICK k \in T : \A m \in T : k =< m
      <3>1. T \subseteq 0..N
        OBVIOUS
      <3> HIDE DEF T
      <3> QED BY <1>1, <3>1, LeastNat
    <2>2. k # 1
      BY <1>5
    <2>3. k - 1 \in 1..N
      BY <1>1, <2>2
    <2>4. k - 1 \notin T
      <3>1. k \in 1..N
        OBVIOUS
      <3> HIDE DEF T
      <3> QED BY <1>1, <2>1, <3>1
    <2> QED BY <1>5, <2>2, <2>3, <2>4
  <1> QED BY <1>1, <1>2, <1>6

(* FlattenSeq of a longer list of buffers.                                    *)
LEMMA FlattenAppend ==
    ASSUME NEW S, NEW f \in Seq(Seq(S)), NEW b \in Seq(S)
    PROVE  FlattenSeq(Append(f, b)) = Cat(FlattenSeq(f), b)
  <1> DEFINE r == Append(f, b)
             n == Len(f)
  <1>1. /\ r \in Seq(Seq(S)) /\ Len(r) = n + 1 /\ n \in Nat /\ r # <<>>
        /\ \A i \in 1..n : r[i] = f[i]
        /\ r[n + 1] = b
    BY AppendProperties, LenProperties
  <1> HIDE DEF r
  <1>2. PICK g : Joins(S, r, n + 1, g)
    BY <1>1, JoinExists
  <1>3. FlattenSeq(r) = g[n + 1]
    BY <1>1, <1>2, FlattenIs
  <1>4. (n = 0 => g[n + 1] = b) /\ (n # 0 => g[n + 1] = Cat(g[n], b))
    <2>1. n + 1 \in 1..(n + 1) /\ n + 1 \in Nat /\ (n + 1) - 1 = n /\ (n + 1 = 1 <=> n = 0)
      BY <1>1
    <2>2. g[n + 1] = IF n + 1 = 1 THEN r[n + 1] ELSE Cat(g[(n + 1) - 1], r[n + 1])
      BY <1>2, <2>1 DEF Joins
    <2> QED BY <1>1, <2>1, <2>2
  <1>5. CASE f = <<>>
    <2>1. FlattenSeq(f) = <<>> /\ n = 0
      BY <1>5 DEF FlattenSeq
    <2>2. Cat(<<>>, b) = b
      BY CatEmpty
    <2> QED BY <1>3, <1>4, <2>1, <2>2 DEF r
  <1>6. CASE f # <<>>
    <2> DEFINE k == [i \in 1..n |-> g[i]]
    <2>1. n # 0
      BY <1>6, EmptySeq
    <2>5. \A i \in 1..n : i \in 1..(n + 1) /\ n + 1 \in Nat /\ (i # 1 => i - 1 \in 1..n)
      BY <1>1
    <2>6. ASSUME NEW i \in 1..n PROVE k[i] \in Seq(S)
      BY <1>1, <1>2, <2>5, JoinAt
    <2>7. ASSUME NEW i \in 1..n PROVE k[i] = IF i = 1 THEN f[i] ELSE Cat(k[i - 1], f[i])
      <3>1. k[i] = g[i] /\ (i # 1 => k[i - 1] = g[i - 1]) /\ r[i] = f[i]
        BY <1>1, <2>5
      <3>2. g[i] = IF i = 1 THEN r[i] ELSE Cat(g[i - 1], r[i])
        BY <1>2, <2>5 DEF Joins
      <3> HIDE DEF k
      <3> QED BY <3>1, <3>2
    <2>2. Joins(S, f, n, k)
      BY <2>6, <2>7 DEF Joins
    <2>3. k[n] = g[n] /\ (n + 1) - 1 = n
      BY <1>1, <2>1
    <2> HIDE DEF k
    <2>4. FlattenSeq(f) = g[n]
      BY <1>6, <2>2, <2>3, FlattenIs
    <2> QED BY <1>1, <1>3, <1>4, <2>1, <2>4 DEF r
  <1> QED BY <1>5, <1>6

(* FlattenSeq gives a sequence over S.                                        *)
LEMMA FlattenType ==
    ASSUME NEW S, NEW f \in Seq(Seq(S))
    PROVE  FlattenSeq(f) \in Seq(S)
  <1>1. CASE f = <<>>
    BY <1>1 DEF FlattenSeq
  <1>2. CASE f # <<>>
    <2>1. PICK g : Joins(S, f, Len(f), g)
      BY JoinExists
    <2>2. Len(f) \in 1..Len(f) /\ Len(f) \in Nat
      <3>1. Len(f) \in Nat /\ Len(f) # 0
        BY <1>2, LenProperties, EmptySeq
      <3> QED BY <3>1
    <2>3. g[Len(f)] \in Seq(S)
      BY <2>1, <2>2, JoinAt
    <2> QED BY <1>2, <2>1, <2>3, FlattenIs
  <1> QED BY <1>1, <1>2

(* FlattenSeq, from the front.                                                *)
LEMMA FlattenCons ==
    ASSUME NEW S, NEW f \in Seq(Seq(S)), NEW b \in Seq(S)
    PROVE  FlattenSeq(<<b>> \o f) = Cat(b, FlattenSeq(f))
  <1> DEFINE r == <<b>> \o f
             n == Len(f)
  <1>1. /\ r \in Seq(Seq(S)) /\ Len(r) = n + 1 /\ n \in Nat /\ r # <<>> /\ r[1] = b
        /\ \A i \in 2..(n + 1) : i - 1 \in 1..n /\ r[i] = f[i - 1]
    BY ConsIs
  <1> HIDE DEF r
  <1>2. PICK g : Joins(S, f, n, g)
    BY JoinExists
  <1> DEFINE k == [i \in 1..(n + 1) |-> IF i = 1 THEN b ELSE Cat(b, g[i - 1])]
  <1>3. Joins(S, r, n + 1, k)
    <2>1. ASSUME NEW i \in 1..(n + 1) PROVE k[i] \in Seq(S)
      <3>1. i # 1 => i - 1 \in 1..n
        BY <1>1
      <3> QED BY <1>2, <3>1, CatType, JoinAt
    <2>2. ASSUME NEW i \in 1..(n + 1) PROVE k[i] = IF i = 1 THEN r[i] ELSE Cat(k[i - 1], r[i])
      <3>1. CASE i = 1
        BY <1>1, <3>1
      <3>2. CASE i = 2
        <4>1. 1 \in 1..n /\ 1 \in 1..(n + 1) /\ 2 \in 2..(n + 1) /\ 2 - 1 = 1
          BY <1>1, <3>2
        <4>2. g[1] = f[1]
          BY <1>1, <1>2, <4>1, JoinAt
        <4>3. k[2] = Cat(b, g[1]) /\ k[1] = b /\ r[2] = f[1]
          BY <1>1, <3>2, <4>1
        <4> HIDE DEF k
        <4> QED BY <3>2, <4>1, <4>2, <4>3
      <3>3. CASE i \notin {1, 2}
        <4>1. i - 1 \in 2..n /\ i - 2 \in 1..n /\ (i - 1) - 1 = i - 2 /\ i \in 2..(n + 1)
              /\ i - 1 \in 1..n /\ i - 1 \in 1..(n + 1)
          BY <1>1, <3>3
        <4>2. k[i] = Cat(b, g[i - 1]) /\ k[i - 1] = Cat(b, g[i - 2]) /\ r[i] = f[i - 1]
          BY <1>1, <3>3, <4>1
        <4>4. g[i - 1] = Cat(g[i - 2], f[i - 1]) /\ g[i - 2] \in Seq(S)
          <5>1. i - 1 # 1
            BY <1>1, <3>3
          <5> QED BY <1>1, <1>2, <4>1, <5>1, JoinAt
        <4>5. f[i - 1] \in Seq(S)
          BY <4>1, ElementOfSeq
        <4> HIDE DEF k
        <4> DEFINE u == g[i - 2]
                   v == f[i - 1]
        <4>6. u \in Seq(S) /\ v \in Seq(S) /\ k[i] = Cat(b, Cat(u, v)) /\ k[i - 1] = Cat(b, u)
              /\ r[i] = v
          BY <4>2, <4>4, <4>5
        <4> HIDE DEF u, v
        <4>3. Cat(b, Cat(u, v)) = Cat(Cat(b, u), v)
          BY <4>6, CatAssoc
        <4> QED BY <3>3, <4>6, <4>3
      <3> QED BY <3>1, <3>2, <3>3
    <2> QED BY <2>1, <2>2 DEF Joins
  <1>4. FlattenSeq(r) = k[n + 1]
    <2> HIDE DEF k
    <2> QED BY <1>1, <1>3, FlattenIs
  <1>5. CASE f = <<>>
    <2>1. FlattenSeq(f) = <<>> /\ n = 0 /\ k[n + 1] = b
      BY <1>5 DEF FlattenSeq
    <2>2. Cat(b, <<>>) = b
      BY CatEmpty
    <2> QED BY <1>4, <2>1, <2>2 DEF r
  <1>6. CASE f # <<>>
    <2>1. n # 0 /\ (n + 1) - 1 = n /\ n + 1 # 1
      BY <1>1, <1>6, EmptySeq
    <2>2. FlattenSeq(f) = g[n]
      BY <1>2, <1>6, FlattenIs
    <2>3. k[n + 1] = Cat(b, g[n])
      BY <1>1, <2>1
    <2> QED BY <1>4, <2>2, <2>3 DEF r
  <1> QED BY <1>5, <1>6

-----------------------------------------------------------------------------
(* Chain gives the list of cells.                                             *)

(* The first k members of a list.                                             *)
LEMMA PrefixIs ==
    ASSUME NEW S, NEW l \in Seq(S), NEW k \in 0..Len(l)
    PROVE  /\ SubSeq(l, 1, k) \in Seq(S) /\ Len(SubSeq(l, 1, k)) = k
           /\ \A i \in 1..k : SubSeq(l, 1, k)[i] = l[i]
           /\ SubSeq(l, 1, 0) = <<>> /\ SubSeq(l, 1, Len(l)) = l
           /\ k # 0 => SubSeq(l, 1, k) # <<>> /\ Last(SubSeq(l, 1, k)) = l[k]
  <1> DEFINE r == SubSeq(l, 1, k)
  <1>1. Len(l) \in Nat /\ \A i \in 1..Len(l) : l[i] \in S
    BY LenProperties, ElementOfSeq
  <1>2. r \in Seq(S) /\ Len(r) = k /\ \A i \in 1..k : r[i] = l[i]
    BY <1>1, SubSeqProperties
  <1>3. SubSeq(l, 1, 0) = <<>> /\ SubSeq(l, 1, Len(l)) = l
    BY <1>1, SubSeqEmpty, SubSeqFull
  <1> HIDE DEF r
  <1>4. k # 0 => r # <<>> /\ Last(r) = l[k]
    BY <1>1, <1>2, EmptySeq DEF Last
  <1> QED BY <1>2, <1>3, <1>4 DEF r

(* One more of them.                                                          *)
LEMMA PrefixAppend ==
    ASSUME NEW S, NEW l \in Seq(S), NEW k \in 0..(Len(l) - 1)
    PROVE  Append(SubSeq(l, 1, k), l[k + 1]) = SubSeq(l, 1, k + 1)
  <1> DEFINE r == SubSeq(l, 1, k)
             t == SubSeq(l, 1, k + 1)
             a == Append(r, l[k + 1])
  <1>1. Len(l) \in Nat /\ l[k + 1] \in S /\ k \in 0..Len(l) /\ k + 1 \in 0..Len(l)
    BY LenProperties, ElementOfSeq
  <1>2. r \in Seq(S) /\ Len(r) = k /\ \A i \in 1..k : r[i] = l[i]
    BY <1>1, PrefixIs
  <1>3. t \in Seq(S) /\ Len(t) = k + 1 /\ \A i \in 1..(k + 1) : t[i] = l[i]
    BY <1>1, PrefixIs
  <1> HIDE DEF r, t
  <1>4. /\ a \in Seq(S) /\ Len(a) = k + 1 /\ a[k + 1] = l[k + 1]
        /\ \A i \in 1..k : a[i] = r[i]
    BY <1>1, <1>2, AppendProperties
  <1> HIDE DEF a
  <1>5. \A i \in 1..Len(a) : a[i] = t[i]
    BY <1>1, <1>2, <1>3, <1>4
  <1>6. a = t
    BY <1>1, <1>3, <1>4, <1>5, SeqEqual
  <1> QED BY <1>6 DEF a, r, t

(* A list of distinct cells is no longer than there are cells.                *)
LEMMA ListIsShort ==
    ASSUME NEW l \in Seq(Cell), Once(l)
    PROVE  /\ Len(l) \in 0..NCells /\ IsFiniteSet(Items(l)) /\ Cardinality(Items(l)) = Len(l)
           /\ Items(l) \subseteq Cell
  <1>1. Len(l) \in Nat /\ \A i \in 1..Len(l) : l[i] \in Cell
    BY LenProperties, ElementOfSeq
  <1>2. IsFiniteSet(1..Len(l)) /\ Cardinality(1..Len(l)) = Len(l)
    <2>1. 1 \in Int /\ Len(l) \in Int
      BY <1>1
    <2>2. /\ IsFiniteSet(1..Len(l))
          /\ Cardinality(1..Len(l)) = IF 1 > Len(l) THEN 0 ELSE Len(l) - 1 + 1
      BY <2>1, FS_Interval
    <2> QED BY <1>1, <2>2
  <1>3. IsFiniteSet(Cell) /\ Cardinality(Cell) = NCells
    BY BoundAssumption, FS_Interval DEF Cell
  <1> DEFINE f == [i \in 1..Len(l) |-> l[i]]
  <1>4. f \in Injection(1..Len(l), Items(l)) /\ f \in Surjection(1..Len(l), Items(l))
    BY DEF Injection, Surjection, IsInjective, Once, Items
  <1>5. IsFiniteSet(Items(l)) /\ Cardinality(Items(l)) = Len(l)
    BY <1>2, <1>4, FS_Surjection
  <1>6. Items(l) \subseteq Cell
    BY <1>1 DEF Items
  <1>7. Cardinality(Items(l)) =< NCells
    BY <1>3, <1>6, FS_Subset
  <1> QED BY <1>1, <1>5, <1>6, <1>7, BoundAssumption

(* Chain follows next through a whole list and stops at its end.              *)
LEMMA ChainIs ==
    ASSUME NEW nx \in [Cell -> Ptr], NEW p \in Ptr, NEW l, IsChain(nx, p, l), Once(l)
    PROVE  Chain(nx, p) = l /\ ~Cyclic(nx, p)
  <1>1. /\ l \in Seq(Cell) /\ Len(l) \in 0..NCells /\ NULL \notin Cell
        /\ \A i \in 1..Len(l) : l[i] \in Cell
    <2>1. l \in Seq(Cell) /\ NULL \notin Cell
      BY NullAssumption DEF IsChain, Cell
    <2> QED BY <2>1, ListIsShort, ElementOfSeq
  <1>2. /\ p = NULL <=> l = <<>>
        /\ l # <<>> => p = l[1] /\ Len(l) # 0 /\ nx[l[Len(l)]] = NULL
        /\ \A i \in 1..(Len(l) - 1) : nx[l[i]] = l[i + 1] /\ nx[l[i]] # NULL
    <2>1. l = <<>> => p = NULL
      BY DEF IsChain, Ptr
    <2>2. l # <<>> => p = l[1] /\ Len(l) # 0
      BY <1>1, EmptySeq DEF IsChain
    <2>3. l # <<>> => p # NULL /\ nx[l[Len(l)]] = NULL
      BY <1>1, <2>2 DEF IsChain, Ptr
    <2>4. \A i \in 1..(Len(l) - 1) : nx[l[i]] = l[i + 1] /\ l[i + 1] \in Cell
      BY <1>1 DEF IsChain
    <2> QED BY <1>1, <2>1, <2>2, <2>3, <2>4
  <1> DEFINE e(n) == IF n + 1 =< Len(l) THEN n + 1 ELSE Len(l)
             m(n) == SubSeq(l, 1, e(n))
             Step(c) == IF c = <<>> \/ nx[Last(c)] = NULL THEN c ELSE Append(c, nx[Last(c)])
             Is(r) == r = [n \in 0..NCells |->
                             IF n = 0 THEN IF p = NULL THEN <<>> ELSE <<p>> ELSE Step(r[n - 1])]
             g == [n \in 0..NCells |-> m(n)]
             G == CHOOSE r : Is(r)
  <1>3. Chain(nx, p) = G[NCells]
    BY DEF Chain
  <1>4. m(0) = IF p = NULL THEN <<>> ELSE <<p>>
    <2>1. CASE l = <<>>
      <3>1. e(0) = 0
        BY <2>1
      <3> QED BY <1>1, <1>2, <2>1, <3>1, PrefixIs
    <2>2. CASE l # <<>>
      <3>1. e(0) = 1 /\ 0 \in 0..(Len(l) - 1) /\ 0 + 1 = 1
        BY <1>1, <1>2, <2>2
      <3>2. SubSeq(l, 1, 1) = Append(SubSeq(l, 1, 0), l[1])
        BY <1>1, <3>1, PrefixAppend
      <3>3. SubSeq(l, 1, 0) = <<>>
        BY <1>1, <3>1, PrefixIs
      <3> QED BY <1>2, <2>2, <3>1, <3>2, <3>3
    <2> QED BY <2>1, <2>2
  <1>5. ASSUME NEW n \in 1..NCells PROVE m(n) = Step(m(n - 1))
    <2>1. CASE l = <<>>
      <3>1. e(n) = 0 /\ e(n - 1) = 0
        BY <2>1
      <3>2. SubSeq(l, 1, 0) = <<>>
        BY <1>1, PrefixIs
      <3> QED BY <3>1, <3>2
    <2>2. CASE l # <<>> /\ n < Len(l)
      <3>1. /\ e(n) = n + 1 /\ e(n - 1) = n /\ n \in 0..(Len(l) - 1) /\ n # 0
            /\ n \in 0..Len(l) /\ n \in 1..(Len(l) - 1)
        BY <1>1, <2>2
      <3>2. SubSeq(l, 1, n) # <<>> /\ Last(SubSeq(l, 1, n)) = l[n]
        BY <1>1, <3>1, PrefixIs
      <3>3. nx[l[n]] = l[n + 1] /\ nx[l[n]] # NULL
        BY <1>2, <3>1
      <3>4. SubSeq(l, 1, n + 1) = Append(SubSeq(l, 1, n), l[n + 1])
        BY <1>1, <3>1, PrefixAppend
      <3> QED BY <3>1, <3>2, <3>3, <3>4
    <2>3. CASE l # <<>> /\ Len(l) =< n
      <3>1. e(n) = Len(l) /\ e(n - 1) = Len(l) /\ Len(l) \in 0..Len(l) /\ Len(l) # 0
        BY <1>1, <1>2, <2>3
      <3>2. SubSeq(l, 1, Len(l)) # <<>> /\ Last(SubSeq(l, 1, Len(l))) = l[Len(l)]
        BY <1>1, <3>1, PrefixIs
      <3> QED BY <1>2, <2>3, <3>1, <3>2
    <2> QED BY <1>1, <2>1, <2>2, <2>3
  <1> HIDE DEF m, Step
  <1>6. Is(g)
    <2>1. \A n \in 0..NCells : n # 0 => n \in 1..NCells /\ n - 1 \in 0..NCells
      BY BoundAssumption
    <2> QED BY <1>4, <1>5, <2>1
  <1>7. Is(G)
    <2> HIDE DEF Is, g
    <2> QED BY <1>6
  <1>8. /\ G[0] = (IF p = NULL THEN <<>> ELSE <<p>>)
        /\ \A n \in 1..NCells : G[n] = Step(G[n - 1])
        /\ \A n \in 0..NCells : g[n] = m(n)
    <2>1. \A n \in 1..NCells : n \in 0..NCells /\ n # 0
      OBVIOUS
    <2>2. 0 \in 0..NCells
      BY BoundAssumption
    <2>3. \A n \in 0..NCells : G[n] = IF n = 0 THEN IF p = NULL THEN <<>> ELSE <<p>>
          ELSE Step(G[n - 1])
      BY <1>7
    <2> QED BY <2>1, <2>2, <2>3
  <1> HIDE DEF G, Is, g
  <1> DEFINE T == {n \in 0..NCells : G[n] # m(n)}
  <1>9. T = {}
    <2> SUFFICES ASSUME T # {} PROVE FALSE
      OBVIOUS
    <2>1. PICK n \in T : \A k \in T : n =< k
      <3>1. T \subseteq 0..NCells
        OBVIOUS
      <3> HIDE DEF T
      <3> QED BY <3>1, LeastNat, BoundAssumption
    <2>2. n \in 1..NCells /\ n - 1 \in 0..NCells
      BY <1>4, <1>8, BoundAssumption
    <2>3. n - 1 \notin T
      <3> HIDE DEF T
      <3> QED BY <2>1, <2>2
    <2>4. G[n - 1] = m(n - 1)
      BY <2>2, <2>3
    <2> QED BY <1>5, <1>8, <2>2, <2>4
  <1>10. m(NCells) = l
    <2>1. e(NCells) = Len(l)
      BY <1>1, BoundAssumption
    <2>2. SubSeq(l, 1, Len(l)) = l
      BY <1>1, PrefixIs
    <2> QED BY <2>1, <2>2 DEF m
  <1>11. Chain(nx, p) = l
    BY <1>3, <1>9, <1>10, BoundAssumption
  <1> QED BY <1>1, <1>11, BoundAssumption DEF Cyclic

-----------------------------------------------------------------------------
(* Where the cells are: in the cache, in the queue of a source, or in the     *)
(* part of a queue that gwpr_src_activity is writing.                         *)
Cached == <<"cache">>
Active == <<"active">>
QueueOf(s) == <<"queue", s>>
Place == {Cached, Active} \cup {QueueOf(s) : s \in Src}

(* The pointer to the first cell of each list; a is that of the active one.   *)
Firsts(g, a) ==
    [p \in Place |-> IF p = Cached THEN g.cache ELSE IF p = Active THEN a ELSE g.wrq[p[2]]]

HeapType(g) ==
    /\ DOMAIN g = HeapFields
    /\ g.next \in [Cell -> Ptr] /\ g.buf \in [Cell -> Seq(Byte)] /\ g.alloc \subseteq Cell
    /\ g.wrq \in [Src -> Ptr] /\ g.wrqlast \in [Src -> Ptr] /\ g.cache \in Ptr

(* The lists L have no cell in common, O holds the other cells that are not   *)
(* free, and the cells of the cache are counted.                              *)
Accounted(g, a, L, O) ==
    /\ HeapType(g) /\ a \in Ptr /\ L \in [Place -> Seq(Cell)]
    /\ Laid(g.next, Firsts(g, a), L)
    /\ g.alloc = CellsIn(L) \cup O /\ CellsIn(L) \cap O = {}
    /\ g.ncache = Len(L[Cached]) /\ client.cache \in Nat /\ g.ncache =< client.cache
    /\ g.fault = FALSE

(* The places are different.                                                  *)
LEMMA Places ==
    /\ Cached \in Place /\ Active \in Place /\ Cached # Active
    /\ \A s \in Src : /\ QueueOf(s) \in Place /\ QueueOf(s) # Cached /\ QueueOf(s) # Active
                      /\ \A t \in Src : QueueOf(s) = QueueOf(t) => s = t
    /\ \A p \in Place : p = Cached \/ p = Active \/ \E s \in Src : p = QueueOf(s)
  <1>1. /\ Cached \in Place /\ Active \in Place /\ \A s \in Src : QueueOf(s) \in Place
        /\ \A p \in Place : p = Cached \/ p = Active \/ \E s \in Src : p = QueueOf(s)
    BY DEF Place
  <1>2. Cached # Active
    BY DEF Cached, Active
  <1>3. ASSUME NEW s PROVE QueueOf(s) # Cached /\ QueueOf(s) # Active
    BY DEF QueueOf, Cached, Active
  <1>4. ASSUME NEW s, NEW t, QueueOf(s) = QueueOf(t) PROVE s = t
    BY <1>4 DEF QueueOf
  <1> QED BY <1>1, <1>2, <1>3, <1>4

(* Where each list starts.                                                    *)
LEMMA FirstsAre ==
    ASSUME NEW g, NEW a
    PROVE  /\ DOMAIN Firsts(g, a) = Place
           /\ Firsts(g, a)[Cached] = g.cache /\ Firsts(g, a)[Active] = a
           /\ \A s \in Src : Firsts(g, a)[QueueOf(s)] = g.wrq[s]
  <1>1. \A s \in Src : QueueOf(s)[2] = s
    BY DEF QueueOf
  <1> QED BY <1>1, Places DEF Firsts

(* What Accounted says, list by list.                                         *)
LEMMA AccountedHas ==
    ASSUME NEW g, NEW a, NEW L, NEW O, Accounted(g, a, L, O)
    PROVE  /\ HeapType(g) /\ a \in Ptr /\ L \in [Place -> Seq(Cell)]
           /\ g.alloc = CellsIn(L) \cup O /\ CellsIn(L) \cap O = {} /\ g.fault = FALSE
           /\ \A p \in Place : Once(L[p]) /\ Items(L[p]) \subseteq Cell
                               /\ Items(L[p]) \subseteq CellsIn(L) /\ L[p] \in Seq(Cell)
                               /\ IsChain(g.next, Firsts(g, a)[p], L[p])
           /\ \A p, r \in Place : p # r => Items(L[p]) \cap Items(L[r]) = {}
           /\ Laid(g.next, Firsts(g, a), L)
           /\ g.ncache = Len(L[Cached]) /\ client.cache \in Nat /\ g.ncache =< client.cache
  <1>1. /\ HeapType(g) /\ a \in Ptr /\ L \in [Place -> Seq(Cell)]
        /\ g.alloc = CellsIn(L) \cup O /\ CellsIn(L) \cap O = {} /\ g.fault = FALSE
        /\ Laid(g.next, Firsts(g, a), L)
        /\ g.ncache = Len(L[Cached]) /\ client.cache \in Nat /\ g.ncache =< client.cache
    BY DEF Accounted
  <1>2. ASSUME NEW p \in Place
        PROVE  /\ Once(L[p]) /\ IsChain(g.next, Firsts(g, a)[p], L[p])
               /\ Items(L[p]) \subseteq CellsIn(L) /\ L[p] \in Seq(Cell)
    BY <1>1, InCells DEF Laid, Apart
  <1>3. ASSUME NEW p \in Place PROVE Items(L[p]) \subseteq Cell
    BY <1>2, ElementOfSeq DEF Items
  <1>4. \A p, r \in Place : p # r => Items(L[p]) \cap Items(L[r]) = {}
    BY <1>1 DEF Laid, Apart
  <1> QED BY <1>1, <1>2, <1>3, <1>4

(* The first cell of a list, and what Chain gives for it.                     *)
LEMMA HeadCell ==
    ASSUME NEW g, NEW a, NEW L, NEW O, Accounted(g, a, L, O), NEW p \in Place
    PROVE  /\ Firsts(g, a)[p] \in Ptr
           /\ Firsts(g, a)[p] = NULL <=> L[p] = <<>>
           /\ L[p] # <<>> => Firsts(g, a)[p] = L[p][1] /\ L[p][1] \in Cell
           /\ Chain(g.next, Firsts(g, a)[p]) = L[p] /\ ~Cyclic(g.next, Firsts(g, a)[p])
  <1> DEFINE f == Firsts(g, a)[p]
             l == L[p]
  <1>1. /\ IsChain(g.next, f, l) /\ Once(l) /\ g.next \in [Cell -> Ptr] /\ DOMAIN g.next = Cell
        /\ l \in Seq(Cell)
    BY AccountedHas DEF HeapType
  <1>2. f \in Ptr
    <2>1. g.cache \in Ptr /\ a \in Ptr /\ \A s \in Src : g.wrq[s] \in Ptr
      BY DEF Accounted, HeapType
    <2> QED BY <2>1, FirstsAre, Places
  <1> HIDE DEF f, l
  <1>3. NULL \notin Cell
    BY NullAssumption DEF Cell
  <1>4. l = <<>> => f = NULL
    BY <1>1, <1>2 DEF IsChain, Ptr
  <1>5. l # <<>> => f = l[1] /\ f \in Cell
    BY <1>1, ChainTail
  <1>6. Chain(g.next, f) = l /\ ~Cyclic(g.next, f)
    BY <1>1, <1>2, ChainIs
  <1> QED BY <1>2, <1>3, <1>4, <1>5, <1>6 DEF f, l

(* The lists are what Chain gives.                                            *)
LEMMA ListsAre ==
    ASSUME NEW g, NEW a, NEW L, NEW O, Accounted(g, a, L, O)
    PROVE  [p \in Place |-> Chain(g.next, Firsts(g, a)[p])] = L
  <1>1. \A p \in Place : Chain(g.next, Firsts(g, a)[p]) = L[p]
    BY HeadCell
  <1>2. L \in [Place -> Seq(Cell)]
    BY DEF Accounted
  <1> QED BY <1>1, <1>2

(* A pointer is NULL or the first cell of its list.                           *)
LEMMA HeadCells ==
    ASSUME NEW g, NEW a, NEW L, NEW O, Accounted(g, a, L, O)
    PROVE  /\ a = NULL <=> L[Active] = <<>>
           /\ a # NULL => a = L[Active][1] /\ a \in Cell /\ a \in Items(L[Active])
           /\ g.cache = NULL <=> L[Cached] = <<>>
           /\ g.cache # NULL => g.cache = L[Cached][1] /\ g.cache \in Cell
           /\ \A s \in Src :
                /\ g.wrq[s] = NULL <=> L[QueueOf(s)] = <<>>
                /\ g.wrq[s] # NULL => g.wrq[s] = L[QueueOf(s)][1] /\ g.wrq[s] \in Cell
  <1>1. \A p \in Place : /\ Firsts(g, a)[p] = NULL <=> L[p] = <<>>
                         /\ L[p] # <<>> => Firsts(g, a)[p] = L[p][1] /\ L[p][1] \in Cell
    BY HeadCell
  <1>2. ASSUME a # NULL PROVE a \in Items(L[Active])
    <2>5. Firsts(g, a)[Active] = a /\ Active \in Place
      BY FirstsAre, Places
    <2>6. L[Active] # <<>> /\ a = L[Active][1]
      BY <1>1, <1>2, <2>5
    <2>7. L[Active] \in Seq(Cell)
      BY <2>5, AccountedHas
    <2>1. L[Active] \in Seq(Cell) /\ L[Active] # <<>> /\ a = L[Active][1]
      BY <2>6, <2>7
    <2> DEFINE l == L[Active]
    <2>2. l \in Seq(Cell) /\ l # <<>> /\ a = l[1]
      BY <2>1
    <2> HIDE DEF l
    <2>3. Len(l) \in Nat \ {0}
      BY <2>2, EmptySeq, LenProperties
    <2>4. a \in Items(l)
      BY <2>2, <2>3 DEF Items
    <2> QED BY <2>4 DEF l
  <1> QED BY <1>1, <1>2, FirstsAre, Places

-----------------------------------------------------------------------------
(* What the operations on cells and lists do to the lists.                    *)

(* What does not change when only cells and lists do.                         *)
Kept(g, f) == f.buf = g.buf /\ f.wrqlast = g.wrqlast

(* While not every cell is allocated another one is free.                     *)
LEMMA CellsBound ==
    /\ IsFiniteSet(Cell) /\ Cardinality(Cell) = NCells
    /\ \A A : A \subseteq Cell =>
        /\ IsFiniteSet(A) /\ Cardinality(A) \in Nat
        /\ Cardinality(A) < NCells => \E c \in Cell : c \notin A
        /\ \A c : Cardinality(A \cup {c}) =< Cardinality(A) + 1
  <1>1. IsFiniteSet(Cell) /\ Cardinality(Cell) = NCells
    <2>1. 1 \in Int /\ NCells \in Int /\ NCells \in Nat
      BY BoundAssumption
    <2>2. /\ IsFiniteSet(1..NCells)
          /\ Cardinality(1..NCells) = IF 1 > NCells THEN 0 ELSE NCells - 1 + 1
      BY <2>1, FS_Interval
    <2> QED BY <2>1, <2>2 DEF Cell
  <1>2. ASSUME NEW A, A \subseteq Cell
        PROVE  /\ IsFiniteSet(A) /\ Cardinality(A) \in Nat
               /\ Cardinality(A) < NCells => \E c \in Cell : c \notin A
    <2>1. IsFiniteSet(A) /\ Cardinality(A) \in Nat
      BY <1>1, <1>2, FS_Subset, FS_CardinalityType
    <2>2. (\A c \in Cell : c \in A) => A = Cell
      BY <1>2
    <2> QED BY <1>1, <2>1, <2>2, BoundAssumption
  <1>3. ASSUME NEW A, A \subseteq Cell, NEW c PROVE Cardinality(A \cup {c}) =< Cardinality(A) + 1
    BY <1>2, <1>3, FS_AddElement
  <1> QED BY <1>1, <1>2, <1>3

(* The cell that gwprwrq_get gives: the first of the cache, or a new one.     *)
LEMMA GetCellIs ==
    ASSUME NEW g, NEW a, NEW L, NEW O, Accounted(g, a, L, O), Cardinality(g.alloc) < NCells
    PROVE  /\ GetCell(g) \in Cell /\ GetCell(g) \notin O
           /\ L[Cached] # <<>> => g.cache # NULL /\ GetCell(g) = g.cache /\ g.cache = L[Cached][1]
           /\ L[Cached] = <<>> => g.cache = NULL /\ GetCell(g) \notin g.alloc
  <1>1. /\ g.cache = NULL <=> L[Cached] = <<>>
        /\ g.cache # NULL => g.cache = L[Cached][1] /\ g.cache \in Cell
    BY HeadCells
  <1>2. CASE g.cache # NULL
    <2>1. g.cache \in Items(L[Cached])
      <3> DEFINE l == L[Cached]
      <3>1. l \in Seq(Cell) /\ l # <<>> /\ g.cache = l[1]
        BY <1>1, <1>2, AccountedHas, Places
      <3> HIDE DEF l
      <3>2. Len(l) \in Nat \ {0}
        BY <3>1, EmptySeq, LenProperties
      <3>3. g.cache \in Items(l)
        BY <3>1, <3>2 DEF Items
      <3> QED BY <3>3 DEF l
    <2>2. g.cache \in CellsIn(L) /\ CellsIn(L) \cap O = {}
      BY <2>1, AccountedHas, Places
    <2> QED BY <1>1, <1>2, <2>2 DEF GetCell
  <1>3. CASE g.cache = NULL
    <2>3. HeapType(g) /\ g.alloc = CellsIn(L) \cup O
      BY AccountedHas
    <2>1. g.alloc \subseteq Cell /\ O \subseteq g.alloc
      BY <2>3 DEF HeapType
    <2>2. \E c \in Cell : c \notin g.alloc
      BY <2>1, CellsBound
    <2> QED BY <1>1, <1>3, <2>1, <2>2 DEF GetCell
  <1> QED BY <1>2, <1>3

(* What gwprwrq_get changes.                                                  *)
LEMMA GetFields ==
    ASSUME NEW g, HeapType(g), GetCell(g) \in Cell
    PROVE  /\ HeapType(gwprwrq_get(g)) /\ Kept(g, gwprwrq_get(g))
           /\ gwprwrq_get(g).next = [g.next EXCEPT ![GetCell(g)] = NULL]
           /\ gwprwrq_get(g).alloc = g.alloc \cup {GetCell(g)}
           /\ gwprwrq_get(g).wrq = g.wrq /\ gwprwrq_get(g).fault = g.fault
           /\ g.cache = NULL => /\ gwprwrq_get(g).cache = NULL
                                /\ gwprwrq_get(g).ncache = g.ncache
           /\ g.cache # NULL => /\ gwprwrq_get(g).cache = g.next[GetCell(g)]
                                /\ gwprwrq_get(g).ncache = g.ncache - 1
  <1>1. \A c \in Cell : g.next[c] \in Ptr
    BY DEF HeapType
  <1>2. NULL \in Ptr
    BY DEF Ptr
  <1> QED BY <1>1, <1>2 DEF gwprwrq_get, HeapType, HeapFields, Kept

(* The cache without the cell that gwprwrq_get takes.                         *)
Gotten(L) == [L EXCEPT ![Cached] = IF @ = <<>> THEN @ ELSE Tail(@)]

(* gwprwrq_get gives c and leaves f.                                          *)
Gets(g, a, L, O, c, f) ==
    /\ c \in Cell /\ c \notin O /\ f.next[c] = NULL /\ Kept(g, f)
    /\ \A p \in Place : c \in Items(L[p]) => p = Cached
    /\ L[Cached] # <<>> => c = L[Cached][1]
    /\ Accounted(f, a, Gotten(L), O \cup {c})
    /\ \A d \in Cell : d # c => f.next[d] = g.next[d]
    /\ Cardinality(f.alloc) =< Cardinality(g.alloc) + 1

(* The cell comes from the cache, if there is one.                            *)
LEMMA GetAccounted ==
    ASSUME NEW g, NEW a, NEW L, NEW O, Accounted(g, a, L, O), Cardinality(g.alloc) < NCells
    PROVE  Gets(g, a, L, O, GetCell(g), gwprwrq_get(g))
  <1> DEFINE c == GetCell(g)
             f == gwprwrq_get(g)
             M == Gotten(L)
             hd == Firsts(g, a)
             hm == Firsts(f, a)
  <1>1. /\ c \in Cell /\ c \notin O
        /\ L[Cached] # <<>> => g.cache # NULL /\ c = g.cache /\ g.cache = L[Cached][1]
        /\ L[Cached] = <<>> => g.cache = NULL /\ c \notin g.alloc
    BY GetCellIs
  <1>2. /\ HeapType(g) /\ a \in Ptr /\ L \in [Place -> Seq(Cell)]
        /\ g.alloc = CellsIn(L) \cup O /\ CellsIn(L) \cap O = {} /\ g.fault = FALSE
        /\ Laid(g.next, hd, L) /\ g.ncache = Len(L[Cached]) /\ client.cache \in Nat
            /\ g.ncache =< client.cache
        /\ \A p \in Place : Items(L[p]) \subseteq CellsIn(L)
        /\ \A p, r \in Place : p # r => Items(L[p]) \cap Items(L[r]) = {}
    BY AccountedHas
  <1>3. /\ HeapType(f) /\ Kept(g, f) /\ f.next = [g.next EXCEPT ![c] = NULL]
        /\ f.alloc = g.alloc \cup {c} /\ f.wrq = g.wrq /\ f.fault = g.fault
        /\ g.cache = NULL => f.cache = NULL /\ f.ncache = g.ncache
        /\ g.cache # NULL => f.cache = g.next[c] /\ f.ncache = g.ncache - 1
    BY <1>1, <1>2, GetFields
  <1> HIDE DEF c, f
  <1>4. f.next[c] = NULL /\ \A d \in Cell : d # c => f.next[d] = g.next[d]
    BY <1>1, <1>2, <1>3 DEF HeapType
  <1>5. Cardinality(f.alloc) =< Cardinality(g.alloc) + 1
    <2>1. g.alloc \subseteq Cell
      BY <1>2 DEF HeapType
    <2> QED BY <1>3, <2>1, CellsBound
  <1>6. CASE L[Cached] = <<>>
    <2>1. c \notin CellsIn(L) /\ f.cache = g.cache /\ f.ncache = g.ncache
      BY <1>1, <1>2, <1>3, <1>6
    <2>2. M = L
      BY <1>2, <1>6, Places DEF Gotten
    <2>3. hm = hd
      BY <1>3, <2>1 DEF Firsts
    <2>4. Laid(f.next, hd, L)
      <3> HIDE DEF hd
      <3>1. Laid([g.next EXCEPT ![c] = NULL], hd, L)
        BY <1>2, <2>1, LaidStore
      <3> QED BY <1>3, <3>1
    <2>5. f.alloc = CellsIn(L) \cup (O \cup {c}) /\ CellsIn(L) \cap (O \cup {c}) = {}
      BY <1>2, <1>3, <2>1
    <2>6. Accounted(f, a, L, O \cup {c})
      BY <1>2, <1>3, <2>1, <2>3, <2>4, <2>5 DEF Accounted
    <2>7. \A p \in Place : c \notin Items(L[p])
      BY <1>2, <2>1
    <2> QED BY <1>1, <1>3, <1>4, <1>5, <1>6, <2>2, <2>6, <2>7 DEF Gets, c, f
  <1>7. CASE L[Cached] # <<>>
    <2>1. g.cache # NULL /\ c = g.cache /\ c = L[Cached][1]
      BY <1>1, <1>7
    <2> DEFINE l == L[Cached]
               t == Tail(l)
    <2>2. /\ DOMAIN hd = Place /\ DOMAIN hm = Place /\ hd[Cached] = c
          /\ hm[Cached] = g.next[c] /\ \A p \in Place \ {Cached} : hm[p] = hd[p]
      <3>1. \A p \in Place \ {Cached} : hm[p] = hd[p]
        BY <1>3, FirstsAre, Places
      <3>2. /\ hm[Cached] = f.cache /\ hd[Cached] = g.cache
            /\ DOMAIN hd = Place /\ DOMAIN hm = Place
        BY FirstsAre
      <3> HIDE DEF hm, hd
      <3> QED BY <1>3, <2>1, <3>1, <3>2
    <2>3. Repl(hd, hm, Cached, g.next[hd[Cached]])
      <3> HIDE DEF hd, hm
      <3> QED BY <2>2 DEF Repl
    <2>4. l \in Seq(Cell) /\ l = L[Cached] /\ DOMAIN L = Place /\ Cached \in Place
      BY <1>2, Places
    <2>5. M = [L EXCEPT ![Cached] = t]
      BY <1>7 DEF Gotten
    <2>6. t \in Seq(Cell) /\ Len(t) = Len(l) - 1
      BY <1>7, <2>4, TailOf
    <2>11. l # <<>> /\ t = Tail(l)
      BY <1>7
    <2> HIDE DEF M, t, l, hd, hm
    <2>7. Repl(L, M, Cached, t) /\ M \in [Place -> Seq(Cell)] /\ M[Cached] = t
      BY <1>2, <2>4, <2>5, <2>6 DEF Repl
    <2>15. Popped(g.next, hd, L, Cached, l, t, hm, M)
      BY <1>2, <2>3, <2>4, <2>7, <2>11 DEF Popped
    <2>8. /\ Laid(g.next, hm, M) /\ CellsIn(M) = CellsIn(L) \ {c}
          /\ c \in CellsIn(L)
      BY <1>2, <2>2, <2>15, <2>4, LaidPop
    <2>9. Laid(f.next, hm, M)
      <3>1. Laid([g.next EXCEPT ![c] = NULL], hm, M)
        BY <2>8, LaidStore
      <3> QED BY <1>3, <3>1
    <2>10. f.alloc = CellsIn(M) \cup (O \cup {c}) /\ CellsIn(M) \cap (O \cup {c}) = {}
      BY <1>2, <1>3, <2>8
    <2>12. f.ncache = Len(M[Cached]) /\ f.ncache =< client.cache
      <3>1. Len(l) \in Nat
        BY <2>4, LenProperties
      <3> QED BY <1>2, <1>3, <2>1, <2>4, <2>6, <2>7, <3>1
    <2>13. Accounted(f, a, M, O \cup {c})
      BY <1>2, <1>3, <2>7, <2>9, <2>10, <2>12 DEF Accounted, hm
    <2>14. \A p \in Place : c \in Items(L[p]) => p = Cached
      <3>1. c \in Items(l)
        <4>1. Len(l) \in Nat \ {0} /\ c = l[1]
          BY <2>1, <2>4, <2>11, EmptySeq, LenProperties
        <4> QED BY <4>1 DEF Items
      <3> QED BY <1>2, <2>4, <3>1
    <2> QED BY <1>1, <1>3, <1>4, <1>5, <2>1, <2>13, <2>14 DEF M, Gets, c, f
  <1> QED BY <1>6, <1>7

(* In f the buffer of c is b.                                                 *)
Stores(g, a, L, O, c, b, f) ==
    /\ Accounted(f, a, L, O) /\ f.buf = [g.buf EXCEPT ![c] = b] /\ f.next = g.next
    /\ f.alloc = g.alloc /\ f.wrq = g.wrq /\ f.wrqlast = g.wrqlast /\ f.cache = g.cache

(* Buffers are not links.                                                     *)
LEMMA BufAccounted ==
    ASSUME NEW g, NEW a, NEW L, NEW O, Accounted(g, a, L, O), NEW c \in Cell, NEW b \in Seq(Byte)
    PROVE  Stores(g, a, L, O, c, b, [g EXCEPT !.buf[c] = b])
  <1> DEFINE f == [g EXCEPT !.buf[c] = b]
  <1>1. HeapType(g)
    BY AccountedHas
  <1>2. /\ HeapType(f) /\ f.buf = [g.buf EXCEPT ![c] = b] /\ f.next = g.next
        /\ f.alloc = g.alloc /\ f.wrq = g.wrq /\ f.wrqlast = g.wrqlast /\ f.cache = g.cache
        /\ f.ncache = g.ncache /\ f.fault = g.fault
    BY <1>1 DEF HeapType, HeapFields
  <1>3. Firsts(f, a) = Firsts(g, a)
    BY <1>2 DEF Firsts
  <1> HIDE DEF f
  <1>4. Accounted(f, a, L, O)
    BY <1>2, <1>3 DEF Accounted
  <1>5. Stores(g, a, L, O, c, b, f)
    BY <1>2, <1>4 DEF Stores
  <1> QED BY <1>5 DEF f

(* A cell that is in no list is put behind the queue of s.                    *)
AddsFirst(g, a, L, O, s, c, f) ==
    /\ Accounted(f, a, [L EXCEPT ![QueueOf(s)] = <<c>>], O \ {c})
    /\ Kept(g, f) /\ f.alloc = g.alloc

(* gwprwrq_add to an empty queue.                                             *)
LEMMA AddFirst ==
    ASSUME NEW g, NEW a, NEW L, NEW O, Accounted(g, a, L, O), NEW s \in Src, g.wrq[s] = NULL,
           NEW c \in O
    PROVE  AddsFirst(g, a, L, O, s, c, gwprwrq_add(g, s, c))
  <1> DEFINE f == gwprwrq_add(g, s, c)
             M == [L EXCEPT ![QueueOf(s)] = <<c>>]
             Q == QueueOf(s)
             hd == Firsts(g, a)
             hm == Firsts(f, a)
  <1>1. /\ HeapType(g) /\ a \in Ptr /\ L \in [Place -> Seq(Cell)]
        /\ g.alloc = CellsIn(L) \cup O /\ CellsIn(L) \cap O = {} /\ g.fault = FALSE
        /\ Laid(g.next, hd, L) /\ g.ncache = Len(L[Cached])
        /\ client.cache \in Nat /\ g.ncache =< client.cache
    BY AccountedHas
  <1>2. c \in Cell /\ c \notin CellsIn(L)
    BY <1>1 DEF HeapType
  <1>3. /\ Q \in Place /\ Q # Cached /\ Q # Active
        /\ \A t \in Src : QueueOf(t) = Q => s = t
    BY Places
  <1>4. /\ HeapType(f) /\ Kept(g, f) /\ f.next = [g.next EXCEPT ![c] = NULL]
        /\ f.alloc = g.alloc /\ f.wrq = [g.wrq EXCEPT ![s] = c] /\ f.cache = g.cache
        /\ f.ncache = g.ncache /\ f.fault = g.fault
    <2>1. NULL \in Ptr /\ c \in Ptr
      BY <1>2 DEF Ptr
    <2> QED BY <1>1, <1>2, <2>1 DEF gwprwrq_add, HeapType, HeapFields, Kept
  <1> HIDE DEF f
  <1>5. /\ f.next[c] = NULL /\ DOMAIN f.next = Cell
        /\ \A d \in Cell : d # c => f.next[d] = g.next[d]
    BY <1>1, <1>2, <1>4 DEF HeapType
  <1>6. L[Q] = <<>>
    BY HeadCells
  <1>7. /\ DOMAIN hd = Place /\ DOMAIN hm = Place /\ hd[Q] = NULL /\ hm[Q] = c
        /\ \A p \in Place \ {Q} : hm[p] = hd[p]
    <2>1. \A t \in Src : f.wrq[t] = IF t = s THEN c ELSE g.wrq[t]
      BY <1>1, <1>4 DEF HeapType
    <2>2. /\ DOMAIN hd = Place /\ DOMAIN hm = Place
          /\ hd[Cached] = g.cache /\ hd[Active] = a /\ \A t \in Src : hd[QueueOf(t)] = g.wrq[t]
          /\ hm[Cached] = f.cache /\ hm[Active] = a /\ \A t \in Src : hm[QueueOf(t)] = f.wrq[t]
      BY FirstsAre
    <2> HIDE DEF hd, hm, Q
    <2>3. ASSUME NEW p \in Place \ {Q} PROVE hm[p] = hd[p]
      <3>1. CASE p = Cached \/ p = Active
        BY <1>4, <2>2, <3>1
      <3>2. CASE \E t \in Src : p = QueueOf(t)
        <4>1. PICK t \in Src : p = QueueOf(t)
          BY <3>2
        <4>2. t # s
          BY <4>1 DEF Q
        <4> QED BY <2>1, <2>2, <4>1, <4>2
      <3> QED BY <3>1, <3>2, Places
    <2> QED BY <2>1, <2>2, <2>3 DEF Q
  <1>8. Laid(f.next, hd, L)
    <2> HIDE DEF hd
    <2>1. Laid([g.next EXCEPT ![c] = NULL], hd, L)
      BY <1>1, <1>2, LaidStore
    <2> QED BY <1>4, <2>1
  <1>9. /\ M \in [Place -> Seq(Cell)] /\ M[Q] = <<c>> /\ M[Cached] = L[Cached]
        /\ \A p \in Place \ {Q} : M[p] = L[p]
    BY <1>1, <1>2, <1>3
  <1> HIDE DEF hd, hm, Q, M
  <1>10. Headed(f.next, hd, L, Q, <<>>, c, <<c>>, hm, M)
    <2>1. Repl(hd, hm, Q, c)
      BY <1>7 DEF Repl
    <2>2. Repl(L, M, Q, <<c>>)
      BY <1>1, <1>9 DEF Repl
    <2>3. <<c>> = <<c>> \o <<>>
      OBVIOUS
    <2> QED BY <1>1, <1>2, <1>3, <1>5, <1>6, <1>7, <1>8, <2>1, <2>2, <2>3 DEF Headed
  <1>11. Laid(f.next, hm, M) /\ CellsIn(M) = CellsIn(L) \cup {c}
    <2> DEFINE r == <<c>>
               nx == f.next
               l == <<>>
    <2>1. Headed(nx, hd, L, Q, l, c, r, hm, M)
      BY <1>10
    <2> HIDE DEF r, nx, l
    <2>2. Laid(nx, hm, M)
      BY <2>1, LaidPush
    <2>3. CellsIn(M) = CellsIn(L) \cup {c}
      BY <2>1, LaidPush
    <2> QED BY <2>2, <2>3 DEF nx
  <1>12. f.alloc = CellsIn(M) \cup (O \ {c}) /\ CellsIn(M) \cap (O \ {c}) = {}
    BY <1>1, <1>4, <1>11
  <1>13. Accounted(f, a, M, O \ {c})
    BY <1>1, <1>4, <1>9, <1>11, <1>12 DEF Accounted, hm
  <1> QED BY <1>4, <1>13 DEF AddsFirst, f, M

(* When wrqlast is the last cell of the list l.                               *)
EndIs(last, l) == l = <<>> \/ last = l[Len(l)] \/ (last = NULL /\ Len(l) = 1)
AddsNext(g, a, L, O, s, c, f) ==
    /\ Accounted(f, a, [L EXCEPT ![QueueOf(s)] = Append(L[QueueOf(s)], c)], O \ {c})
    /\ f.buf = g.buf /\ f.alloc = g.alloc
    /\ f.wrqlast = [g.wrqlast EXCEPT ![s] = c]

(* gwprwrq_add through wrqlast appends to the queue, when wrqlast is its end. *)
LEMMA AddNext ==
    ASSUME NEW g, NEW a, NEW L, NEW O, Accounted(g, a, L, O), NEW s \in Src, g.wrq[s] # NULL,
           EndIs(g.wrqlast[s], L[QueueOf(s)]), NEW c \in O, g.next[c] = NULL
    PROVE  AddsNext(g, a, L, O, s, c, gwprwrq_add(g, s, c))
  <1> DEFINE f == gwprwrq_add(g, s, c)
             Q == QueueOf(s)
             l == L[QueueOf(s)]
             e == l[Len(l)]
             M == [L EXCEPT ![QueueOf(s)] = Append(l, c)]
             hd == Firsts(g, a)
  <1>1. /\ HeapType(g) /\ a \in Ptr /\ L \in [Place -> Seq(Cell)]
        /\ g.alloc = CellsIn(L) \cup O /\ CellsIn(L) \cap O = {} /\ g.fault = FALSE
        /\ Laid(g.next, hd, L) /\ g.ncache = Len(L[Cached])
        /\ client.cache \in Nat /\ g.ncache =< client.cache
        /\ \A p \in Place : Items(L[p]) \subseteq CellsIn(L)
    BY AccountedHas
  <1>2. c \in Cell /\ c \notin CellsIn(L) /\ DOMAIN g.next = Cell /\ NULL \notin Cell
    BY <1>1, NullAssumption DEF HeapType, Cell
  <1>3. Q \in Place /\ Q # Cached
    BY Places
  <1>4. l # <<>> /\ g.wrq[s] = l[1] /\ l \in Seq(Cell) /\ l = L[Q]
    BY <1>1, <1>3, HeadCells
  <1>5. Len(l) \in Nat \ {0} /\ e \in Items(l) /\ e \in Cell /\ e \in g.alloc /\ e # c /\ e # NULL
    <2>1. Len(l) \in Nat \ {0}
      BY <1>4, EmptySeq, LenProperties
    <2>2. e \in Items(l) /\ e \in Cell
      BY <1>4, <2>1, ElementOfSeq DEF Items
    <2> QED BY <1>1, <1>2, <1>3, <1>4, <2>1, <2>2
  <1>6. /\ HeapType(f) /\ f.buf = g.buf /\ f.next = [g.next EXCEPT ![e] = c]
        /\ f.alloc = g.alloc /\ f.wrq = g.wrq /\ f.cache = g.cache
        /\ f.ncache = g.ncache /\ f.fault = FALSE
        /\ f.wrqlast = [g.wrqlast EXCEPT ![s] = c]
    <2>1. c \in Ptr
      BY <1>2 DEF Ptr
    <2>2. CASE g.wrqlast[s] = e
      <3>1. f = [g EXCEPT !.next[e] = c, !.wrqlast[s] = c, !.fault = @ \/ e \notin g.alloc]
        BY <1>5, <2>2 DEF gwprwrq_add
      <3>2. f = [g EXCEPT !.next[e] = c, !.wrqlast[s] = c, !.fault = FALSE]
        BY <1>1, <1>5, <3>1 DEF HeapType, HeapFields
      <3> QED BY <1>1, <1>2, <1>5, <2>1, <3>2 DEF HeapType, HeapFields
    <2>3. CASE g.wrqlast[s] = NULL /\ Len(l) = 1
      <3>1. e = g.wrq[s]
        BY <1>4, <2>3
      <3>2. f = [g EXCEPT !.wrqlast[s] = c, !.next[e] = c]
        BY <2>3, <3>1 DEF gwprwrq_add
      <3> QED BY <1>1, <1>2, <1>5, <2>1, <3>2 DEF HeapType, HeapFields
    <2>4. g.wrqlast[s] = e \/ (g.wrqlast[s] = NULL /\ Len(l) = 1)
      BY <1>4 DEF EndIs
    <2> QED BY <2>2, <2>3, <2>4
  <1> HIDE DEF f
  <1>7. Firsts(f, a) = hd
    BY <1>6 DEF Firsts
  <1>8. M[Q] = Append(l, c) /\ M \in [Place -> Seq(Cell)] /\ M[Cached] = L[Cached]
        /\ \A p \in Place \ {Q} : M[p] = L[p]
    <2>1. Append(l, c) \in Seq(Cell)
      BY <1>2, <1>4, AppendProperties
    <2> QED BY <1>1, <1>3, <2>1
  <1>13. e = l[Len(l)]
    OBVIOUS
  <1> HIDE DEF hd, Q, M, l, e
  <1>9. Appended(g.next, hd, L, Q, l, c, Append(l, c), e, f.next, M)
    <2>1. Repl(L, M, Q, Append(l, c))
      BY <1>1, <1>8 DEF Repl
    <2> QED BY <1>1, <1>2, <1>3, <1>4, <1>6, <1>13, <2>1 DEF Appended
  <1>10. Laid(f.next, hd, M) /\ CellsIn(M) = CellsIn(L) \cup {c}
    <2> DEFINE r == Append(l, c)
               nx == f.next
               my == g.next
    <2>1. Appended(my, hd, L, Q, l, c, r, e, nx, M)
      BY <1>9
    <2> HIDE DEF r, nx, my
    <2>2. Laid(nx, hd, M)
      BY <2>1, LaidAppend
    <2>3. CellsIn(M) = CellsIn(L) \cup {c}
      BY <2>1, LaidAppend
    <2> QED BY <2>2, <2>3 DEF nx
  <1>11. f.alloc = CellsIn(M) \cup (O \ {c}) /\ CellsIn(M) \cap (O \ {c}) = {}
    BY <1>1, <1>6, <1>10
  <1>12. Accounted(f, a, M, O \ {c})
    BY <1>1, <1>6, <1>7, <1>8, <1>10, <1>11 DEF Accounted
  <1> QED BY <1>6, <1>12 DEF AddsNext, f, M, l

(* What Queue does to the lists.                                              *)
Queued(L, s, c) == [Gotten(L) EXCEPT ![QueueOf(s)] = Append(L[QueueOf(s)], c)]

(* The lists after gwprwrq_get.                                               *)
LEMMA GottenIs ==
    ASSUME NEW L \in [Place -> Seq(Cell)]
    PROVE  /\ Gotten(L) \in [Place -> Seq(Cell)]
           /\ \A p \in Place : p # Cached => Gotten(L)[p] = L[p]
           /\ L[Cached] = <<>> => Gotten(L) = L
           /\ L[Cached] # <<>> => Gotten(L)[Cached] = Tail(L[Cached])
                                  /\ Len(Gotten(L)[Cached]) = Len(L[Cached]) - 1
  <1> DEFINE l == L[Cached]
             t == Tail(l)
  <1>1. l \in Seq(Cell) /\ Cached \in Place
    BY Places
  <1>2. l # <<>> => t \in Seq(Cell) /\ Len(t) = Len(l) - 1
    BY <1>1, TailOf
  <1>3. Gotten(L) = [L EXCEPT ![Cached] = IF l = <<>> THEN l ELSE t]
    BY DEF Gotten
  <1>4. l = L[Cached] /\ t = Tail(L[Cached])
    OBVIOUS
  <1> HIDE DEF l, t
  <1> QED BY <1>1, <1>2, <1>3, <1>4

(* A cell c taken for b is the last of the queue of s.                        *)
Queues(g, a, L, O, s, b, c, f) ==
    /\ c \in Cell /\ c \notin O /\ \A p \in Place : c \in Items(L[p]) => p = Cached
    /\ L[Cached] # <<>> => c = L[Cached][1]
    /\ Accounted(f, a, Queued(L, s, c), O)
    /\ f.buf = [g.buf EXCEPT ![c] = b]
    /\ f.wrqlast = IF L[QueueOf(s)] = <<>> THEN g.wrqlast ELSE [g.wrqlast EXCEPT ![s] = c]
    /\ Cardinality(f.alloc) =< Cardinality(g.alloc) + 1

(* gwprwrq_get, the buffer and gwprwrq_add together.                          *)
LEMMA QueueAccounted ==
    ASSUME NEW g, NEW a, NEW L, NEW O, Accounted(g, a, L, O), Cardinality(g.alloc) < NCells,
           NEW s \in Src, NEW b \in Seq(Byte), EndIs(g.wrqlast[s], L[QueueOf(s)])
    PROVE  Queues(g, a, L, O, s, b, GetCell(g), Queue(g, s, b))
  <1> DEFINE c == GetCell(g)
             f == Queue(g, s, b)
             k == gwprwrq_get(g)
             m == [k EXCEPT !.buf[c] = b]
             K == Gotten(L)
             Q == QueueOf(s)
  <1>2. f = gwprwrq_add(m, s, c)
    BY DEF Queue
  <1>0. Gets(g, a, L, O, c, k)
    BY GetAccounted
  <1> HIDE DEF k, c, f
  <1>1. /\ c \in Cell /\ c \notin O /\ k.next[c] = NULL /\ Kept(g, k)
        /\ \A p \in Place : c \in Items(L[p]) => p = Cached
        /\ L[Cached] # <<>> => c = L[Cached][1]
        /\ Accounted(k, a, K, O \cup {c})
        /\ Cardinality(k.alloc) =< Cardinality(g.alloc) + 1
    BY <1>0 DEF Gets
  <1>9. Stores(k, a, K, O \cup {c}, c, b, m)
    <2> HIDE DEF K
    <2> QED BY <1>1, BufAccounted
  <1> HIDE DEF m
  <1>3. /\ Accounted(m, a, K, O \cup {c}) /\ m.buf = [k.buf EXCEPT ![c] = b]
        /\ m.next = k.next /\ m.alloc = k.alloc /\ m.wrq = k.wrq /\ m.wrqlast = k.wrqlast
    BY <1>9 DEF Stores
  <1>4. /\ L \in [Place -> Seq(Cell)] /\ Q \in Place /\ Q # Cached
        /\ K \in [Place -> Seq(Cell)] /\ K[Q] = L[Q]
    BY AccountedHas, GottenIs, Places
  <1> HIDE DEF K
  <1>5. (m.wrq[s] = NULL <=> K[Q] = <<>>)
    BY <1>3, HeadCells
  <1>6. (O \cup {c}) \ {c} = O /\ c \in O \cup {c}
    BY <1>1
  <1>7. CASE L[Q] = <<>>
    <2>1. Queued(L, s, c) = [K EXCEPT ![Q] = <<c>>]
      BY <1>7 DEF Queued, K
    <2>2. m.wrq[s] = NULL
      BY <1>4, <1>5, <1>7
    <2>3. AddsFirst(m, a, K, O \cup {c}, s, c, gwprwrq_add(m, s, c))
      BY <1>3, <1>6, <2>2, AddFirst
    <2>4. /\ Accounted(f, a, Queued(L, s, c), O)
          /\ Kept(m, f) /\ f.alloc = m.alloc
      BY <1>2, <1>6, <2>1, <2>3 DEF AddsFirst
    <2>5. Queues(g, a, L, O, s, b, c, f)
      BY <1>1, <1>3, <1>7, <2>4 DEF Kept, Queues
    <2> QED BY <2>5 DEF c, f
  <1>8. CASE L[Q] # <<>>
    <2>1. Queued(L, s, c) = [K EXCEPT ![Q] = Append(K[Q], c)]
      BY <1>4 DEF Queued, K
    <2>2. m.wrq[s] # NULL /\ m.next[c] = NULL /\ EndIs(m.wrqlast[s], K[Q])
      BY <1>1, <1>3, <1>4, <1>5, <1>8 DEF Kept
    <2>3. AddsNext(m, a, K, O \cup {c}, s, c, gwprwrq_add(m, s, c))
      BY <1>3, <1>6, <2>2, AddNext
    <2>4. /\ Accounted(f, a, Queued(L, s, c), O)
          /\ f.buf = m.buf /\ f.alloc = m.alloc
          /\ f.wrqlast = [m.wrqlast EXCEPT ![s] = c]
      BY <1>2, <1>6, <2>1, <2>3 DEF AddsNext
    <2>5. Queues(g, a, L, O, s, b, c, f)
      BY <1>1, <1>3, <1>8, <2>4 DEF Kept, Queues
    <2> QED BY <2>5 DEF c, f
  <1> QED BY <1>7, <1>8

(* The cache with the cell that gwprwrq_free keeps.                           *)
Freed(g, L, c) ==
    IF g.ncache = client.cache THEN L ELSE [L EXCEPT ![Cached] = <<c>> \o L[Cached]]

(* The cell c is in the cache, or free.                                       *)
Frees(g, a, L, O, c, f) ==
    /\ Accounted(f, a, Freed(g, L, c), O \ {c})
    /\ f.buf \in [Cell -> Seq(Byte)] /\ \A d \in Cell : d # c => f.buf[d] = g.buf[d]
    /\ f.wrq = g.wrq /\ f.wrqlast = g.wrqlast

(* gwprwrq_free while the cache has room, and when it is full.                *)
LEMMA FreeAccounted ==
    ASSUME NEW g, NEW a, NEW L, NEW O, Accounted(g, a, L, O), NEW c \in O
    PROVE  Frees(g, a, L, O, c, gwprwrq_free(g, c))
  <1> DEFINE f == gwprwrq_free(g, c)
             hd == Firsts(g, a)
             hm == Firsts(f, a)
             r  == <<c>> \o L[Cached]
             M  == [L EXCEPT ![Cached] = r]
  <1>1. /\ HeapType(g) /\ a \in Ptr /\ L \in [Place -> Seq(Cell)]
        /\ g.alloc = CellsIn(L) \cup O /\ CellsIn(L) \cap O = {} /\ g.fault = FALSE
        /\ Laid(g.next, hd, L) /\ g.ncache = Len(L[Cached])
        /\ client.cache \in Nat /\ g.ncache =< client.cache
    BY AccountedHas
  <1>2. c \in Cell /\ c \notin CellsIn(L) /\ Cached \in Place
    BY <1>1, Places DEF HeapType
  <1>3. CASE g.ncache = client.cache
    <2>1. f = [g EXCEPT !.alloc = @ \ {c}]
      BY <1>3 DEF gwprwrq_free
    <2>2. /\ HeapType(f) /\ f.next = g.next /\ f.buf = g.buf /\ f.alloc = g.alloc \ {c}
          /\ f.wrq = g.wrq /\ f.wrqlast = g.wrqlast /\ f.cache = g.cache
          /\ f.ncache = g.ncache /\ f.fault = g.fault
      BY <1>1, <2>1 DEF HeapType, HeapFields
    <2>3. hm = hd
      BY <2>2 DEF Firsts
    <2>4. f.alloc = CellsIn(L) \cup (O \ {c}) /\ CellsIn(L) \cap (O \ {c}) = {}
      BY <1>1, <1>2, <2>2
    <2>5. Accounted(f, a, L, O \ {c})
      BY <1>1, <2>2, <2>3, <2>4 DEF Accounted
    <2> QED BY <1>1, <1>3, <2>2, <2>5 DEF Freed, HeapType, Frees
  <1>4. CASE g.ncache # client.cache
    <2>1. f = [g EXCEPT !.next[c] = g.cache, !.buf[c] = <<>>, !.cache = c, !.ncache = @ + 1]
      BY <1>4 DEF gwprwrq_free
    <2> HIDE DEF M, r
    <2>2. /\ HeapType(f) /\ f.next = [g.next EXCEPT ![c] = g.cache]
          /\ f.buf \in [Cell -> Seq(Byte)] /\ \A d \in Cell : d # c => f.buf[d] = g.buf[d]
          /\ f.alloc = g.alloc /\ f.wrq = g.wrq /\ f.wrqlast = g.wrqlast /\ f.cache = c
          /\ f.ncache = g.ncache + 1 /\ f.fault = g.fault
      <3>1. c \in Ptr /\ <<>> \in Seq(Byte)
        BY <1>2 DEF Ptr
      <3> QED BY <1>1, <1>2, <2>1, <3>1 DEF HeapType, HeapFields
    <2>3. /\ f.next[c] = g.cache /\ DOMAIN f.next = Cell
      BY <1>1, <1>2, <2>2 DEF HeapType
    <2>4. /\ DOMAIN hd = Place /\ DOMAIN hm = Place /\ hd[Cached] = g.cache /\ hm[Cached] = c
          /\ \A p \in Place \ {Cached} : hm[p] = hd[p]
      <3>1. \A p \in Place \ {Cached} : hm[p] = hd[p]
        BY <2>2, FirstsAre, Places
      <3>2. /\ hm[Cached] = f.cache /\ hd[Cached] = g.cache
            /\ DOMAIN hd = Place /\ DOMAIN hm = Place
        BY FirstsAre
      <3> HIDE DEF hm, hd
      <3> QED BY <2>2, <3>1, <3>2
    <2>5. Laid(f.next, hd, L)
      <3> HIDE DEF hd
      <3>1. Laid([g.next EXCEPT ![c] = g.cache], hd, L)
        BY <1>1, <1>2, LaidStore
      <3> QED BY <2>2, <3>1
    <2>6. r \in Seq(Cell) /\ Len(r) = Len(L[Cached]) + 1 /\ Len(L[Cached]) \in Nat
      <3> DEFINE l == L[Cached]
      <3>1. l \in Seq(Cell)
        BY <1>1, <1>2
      <3> HIDE DEF l
      <3>2. <<c>> \o l \in Seq(Cell) /\ Len(<<c>> \o l) = Len(l) + 1 /\ Len(l) \in Nat
        BY <1>2, <3>1, ConsIs
      <3> QED BY <3>2 DEF l, r
    <2>12. r = <<c>> \o L[Cached] /\ M = Freed(g, L, c)
      BY <1>4 DEF Freed, M, r
    <2>7. M \in [Place -> Seq(Cell)] /\ M[Cached] = r /\ \A p \in Place \ {Cached} : M[p] = L[p]
      <3> QED BY <1>1, <1>2, <2>6 DEF M
    <2> HIDE DEF f, hd, hm, r, M
    <2>8. Headed(f.next, hd, L, Cached, L[Cached], c, r, hm, M)
      <3>1. Repl(hd, hm, Cached, c)
        BY <2>4 DEF Repl
      <3>2. Repl(L, M, Cached, r)
        BY <1>1, <2>7 DEF Repl
      <3> QED BY <1>1, <1>2, <2>3, <2>4, <2>5, <2>12, <3>1, <3>2 DEF Headed
    <2>9. Laid(f.next, hm, M) /\ CellsIn(M) = CellsIn(L) \cup {c}
      <3> DEFINE nx == f.next
                 l == L[Cached]
      <3>1. Headed(nx, hd, L, Cached, l, c, r, hm, M)
        BY <2>8
      <3> HIDE DEF nx, l
      <3>2. Laid(nx, hm, M)
        BY <3>1, LaidPush
      <3>3. CellsIn(M) = CellsIn(L) \cup {c}
        BY <3>1, LaidPush
      <3> QED BY <3>2, <3>3 DEF nx
    <2>10. f.alloc = CellsIn(M) \cup (O \ {c}) /\ CellsIn(M) \cap (O \ {c}) = {}
      BY <1>1, <2>2, <2>9
    <2>11. Accounted(f, a, M, O \ {c})
      <3>1. f.ncache = Len(M[Cached]) /\ f.ncache =< client.cache
        BY <1>1, <1>4, <2>2, <2>6, <2>7
      <3> QED BY <1>1, <2>2, <2>7, <2>9, <2>10, <3>1 DEF Accounted, hm
    <2> QED BY <2>2, <2>11, <2>12 DEF Frees, f
  <1> QED BY <1>3, <1>4

(* The first cell of the active list is taken from it, and put before it.     *)
PopsActive(g, a, L, O) ==
    /\ Accounted(g, g.next[a], [L EXCEPT ![Active] = Tail(L[Active])], O \cup {a})
    /\ a \in Cell /\ a \notin O /\ \A p \in Place : a \in Items(L[p]) => p = Active

(* gwpr_src_activity goes to the next item.                                   *)
LEMMA PopActive ==
    ASSUME NEW g, NEW a, NEW L, NEW O, Accounted(g, a, L, O), a # NULL
    PROVE  PopsActive(g, a, L, O)
  <1> DEFINE b == g.next[a]
             hd == Firsts(g, a)
             hm == Firsts(g, b)
             l == L[Active]
             t == Tail(l)
             M == [L EXCEPT ![Active] = t]
  <1>1. /\ HeapType(g) /\ L \in [Place -> Seq(Cell)]
        /\ g.alloc = CellsIn(L) \cup O /\ CellsIn(L) \cap O = {} /\ g.fault = FALSE
        /\ Laid(g.next, hd, L) /\ g.ncache = Len(L[Cached])
        /\ client.cache \in Nat /\ g.ncache =< client.cache
        /\ \A p, r \in Place : p # r => Items(L[p]) \cap Items(L[r]) = {}
        /\ \A p \in Place : Items(L[p]) \subseteq CellsIn(L)
    BY AccountedHas
  <1>2. l # <<>> /\ a = l[1] /\ a \in Cell /\ a \in Items(l)
    BY HeadCells
  <1>3. Active \in Place /\ Cached \in Place /\ Active # Cached
    BY Places
  <1>4. b \in Ptr
    BY <1>1, <1>2 DEF HeapType
  <1>5. /\ DOMAIN hd = Place /\ DOMAIN hm = Place /\ hd[Active] = a /\ hm[Active] = b
        /\ \A p \in Place \ {Active} : hm[p] = hd[p]
    <2>1. \A p \in Place \ {Active} : hm[p] = hd[p]
      BY DEF Firsts
    <2>2. DOMAIN hd = Place /\ DOMAIN hm = Place /\ hd[Active] = a /\ hm[Active] = b
      BY FirstsAre
    <2> QED BY <2>1, <2>2
  <1>6. l \in Seq(Cell) /\ t \in Seq(Cell) /\ l = L[Active] /\ t = Tail(l)
    <2>1. l \in Seq(Cell)
      BY <1>1, <1>3
    <2> HIDE DEF l
    <2>2. t \in Seq(Cell)
      BY <1>2, <2>1, TailOf
    <2> QED BY <2>1, <2>2 DEF l
  <1> HIDE DEF hd, hm, l, t, b
  <1>7. /\ M \in [Place -> Seq(Cell)] /\ M[Active] = t /\ M[Cached] = L[Cached]
        /\ \A p \in Place \ {Active} : M[p] = L[p]
    BY <1>1, <1>3, <1>6
  <1> HIDE DEF M
  <1>8. Popped(g.next, hd, L, Active, l, t, hm, M)
    <2>1. Repl(hd, hm, Active, g.next[hd[Active]])
      BY <1>5 DEF Repl, b
    <2>2. Repl(L, M, Active, t)
      BY <1>1, <1>7 DEF Repl
    <2> QED BY <1>1, <1>2, <1>3, <1>6, <2>1, <2>2 DEF Popped
  <1>9. Laid(g.next, hm, M) /\ CellsIn(M) = CellsIn(L) \ {a} /\ a \in CellsIn(L)
    <2> DEFINE nx == g.next
    <2>1. Popped(nx, hd, L, Active, l, t, hm, M)
      BY <1>8
    <2> HIDE DEF nx
    <2>2. Laid(nx, hm, M)
      BY <2>1, LaidPop
    <2>3. CellsIn(M) = CellsIn(L) \ {hd[Active]}
      BY <2>1, LaidPop
    <2>4. hd[Active] \in CellsIn(L)
      BY <2>1, LaidPop
    <2> QED BY <1>5, <2>2, <2>3, <2>4 DEF nx
  <1>10. g.alloc = CellsIn(M) \cup (O \cup {a}) /\ CellsIn(M) \cap (O \cup {a}) = {}
    BY <1>1, <1>9
  <1>11. Accounted(g, b, M, O \cup {a})
    BY <1>1, <1>4, <1>7, <1>9, <1>10 DEF Accounted, hm
  <1>12. \A p \in Place : a \in Items(L[p]) => p = Active
    BY <1>1, <1>2, <1>3, <1>6
  <1>13. a \notin O
    BY <1>1, <1>9
  <1> QED BY <1>2, <1>11, <1>12, <1>13 DEF PopsActive, M, b, t, l

(* The cell c is the first item.                                              *)
PushesActive(g, a, L, O, c, f) ==
    /\ Accounted(f, c, [L EXCEPT ![Active] = <<c>> \o L[Active]], O \ {c})
    /\ Kept(g, f) /\ f.wrq = g.wrq /\ f.alloc = g.alloc

(* An item is put before the others.                                          *)
LEMMA PushActive ==
    ASSUME NEW g, NEW a, NEW L, NEW O, Accounted(g, a, L, O), NEW c \in O
    PROVE  PushesActive(g, a, L, O, c, [g EXCEPT !.next[c] = a])
  <1> DEFINE f == [g EXCEPT !.next[c] = a]
             hd == Firsts(g, a)
             hm == Firsts(f, c)
             l == L[Active]
             r == <<c>> \o l
             M == [L EXCEPT ![Active] = r]
  <1>1. /\ HeapType(g) /\ L \in [Place -> Seq(Cell)] /\ a \in Ptr
        /\ g.alloc = CellsIn(L) \cup O /\ CellsIn(L) \cap O = {} /\ g.fault = FALSE
        /\ Laid(g.next, hd, L) /\ g.ncache = Len(L[Cached])
        /\ client.cache \in Nat /\ g.ncache =< client.cache
    BY AccountedHas
  <1>2. c \in Cell /\ c \notin CellsIn(L)
    BY <1>1 DEF HeapType
  <1>3. Active \in Place /\ Cached \in Place /\ Active # Cached
    BY Places
  <1>4. /\ HeapType(f) /\ f.next = [g.next EXCEPT ![c] = a] /\ Kept(g, f)
        /\ f.alloc = g.alloc /\ f.wrq = g.wrq /\ f.cache = g.cache
        /\ f.ncache = g.ncache /\ f.fault = g.fault
    BY <1>1, <1>2 DEF HeapType, HeapFields, Kept
  <1> HIDE DEF f
  <1>5. f.next[c] = a /\ DOMAIN f.next = Cell /\ c \in Ptr
    BY <1>1, <1>2, <1>4 DEF HeapType, Ptr
  <1>6. /\ DOMAIN hd = Place /\ DOMAIN hm = Place /\ hd[Active] = a /\ hm[Active] = c
        /\ \A p \in Place \ {Active} : hm[p] = hd[p]
    <2>1. \A p \in Place \ {Active} : hm[p] = hd[p]
      BY <1>4 DEF Firsts
    <2>2. DOMAIN hd = Place /\ DOMAIN hm = Place /\ hd[Active] = a /\ hm[Active] = c
      BY FirstsAre
    <2> QED BY <2>1, <2>2
  <1>7. l \in Seq(Cell) /\ r \in Seq(Cell) /\ l = L[Active] /\ r = <<c>> \o l
    <2>1. l \in Seq(Cell)
      BY <1>1, <1>3
    <2> HIDE DEF l
    <2>2. r \in Seq(Cell)
      BY <1>2, <2>1, ConsIs
    <2> QED BY <2>1, <2>2 DEF l
  <1> HIDE DEF hd, hm, l, r
  <1>8. /\ M \in [Place -> Seq(Cell)] /\ M[Active] = r /\ M[Cached] = L[Cached]
        /\ \A p \in Place \ {Active} : M[p] = L[p]
    BY <1>1, <1>3, <1>7
  <1> HIDE DEF M
  <1>9. Laid(f.next, hd, L)
    <2>1. Laid([g.next EXCEPT ![c] = a], hd, L)
      BY <1>1, <1>2, LaidStore
    <2> QED BY <1>4, <2>1
  <1>10. Headed(f.next, hd, L, Active, l, c, r, hm, M)
    <2>1. Repl(hd, hm, Active, c)
      BY <1>6 DEF Repl
    <2>2. Repl(L, M, Active, r)
      BY <1>1, <1>8 DEF Repl
    <2> QED BY <1>1, <1>2, <1>3, <1>5, <1>6, <1>7, <1>9, <2>1, <2>2 DEF Headed
  <1>11. Laid(f.next, hm, M) /\ CellsIn(M) = CellsIn(L) \cup {c}
    <2> DEFINE nx == f.next
    <2>1. Headed(nx, hd, L, Active, l, c, r, hm, M)
      BY <1>10
    <2> HIDE DEF nx
    <2>2. Laid(nx, hm, M)
      BY <2>1, LaidPush
    <2>3. CellsIn(M) = CellsIn(L) \cup {c}
      BY <2>1, LaidPush
    <2> QED BY <2>2, <2>3 DEF nx
  <1>12. f.alloc = CellsIn(M) \cup (O \ {c}) /\ CellsIn(M) \cap (O \ {c}) = {}
    BY <1>1, <1>4, <1>11
  <1>13. Accounted(f, c, M, O \ {c})
    BY <1>1, <1>4, <1>5, <1>8, <1>11, <1>12 DEF Accounted, hm
  <1> QED BY <1>4, <1>13 DEF PushesActive, f, M, r, l

(* The active list becomes the queue of s, and the other way round.           *)
PutsBack(g, a, L, O, s, f) ==
    /\ Accounted(f, NULL, [L EXCEPT ![Active] = <<>>, ![QueueOf(s)] = L[Active]], O)
    /\ Kept(g, f) /\ f.alloc = g.alloc

(* gwprwrq_putback to an empty queue gives it the list whole.                 *)
LEMMA PutBack ==
    ASSUME NEW g, NEW a, NEW L, NEW O, Accounted(g, a, L, O), NEW s \in Src, g.wrq[s] = NULL
    PROVE  PutsBack(g, a, L, O, s, gwprwrq_putback(g, s, a))
  <1> DEFINE f == gwprwrq_putback(g, s, a)
             Q == QueueOf(s)
             hd == Firsts(g, a)
             hm == Firsts(f, NULL)
             M == [L EXCEPT ![Active] = <<>>, ![Q] = L[Active]]
  <1>1. /\ HeapType(g) /\ L \in [Place -> Seq(Cell)] /\ a \in Ptr
        /\ g.alloc = CellsIn(L) \cup O /\ CellsIn(L) \cap O = {} /\ g.fault = FALSE
        /\ Laid(g.next, hd, L) /\ g.ncache = Len(L[Cached])
        /\ client.cache \in Nat /\ g.ncache =< client.cache
    BY AccountedHas
  <1>2. /\ Active \in Place /\ Cached \in Place /\ Active # Cached /\ Q \in Place
        /\ Q # Active /\ Q # Cached /\ \A t \in Src : QueueOf(t) = Q => s = t
    BY Places
  <1>3. L[Q] = <<>>
    BY HeadCells
  <1>4. /\ HeapType(f) /\ f.next = g.next /\ Kept(g, f) /\ f.alloc = g.alloc
        /\ f.wrq = [g.wrq EXCEPT ![s] = a] /\ f.cache = g.cache
        /\ f.ncache = g.ncache /\ f.fault = g.fault
    <2>1. f = [g EXCEPT !.wrq[s] = a]
      BY DEF gwprwrq_putback
    <2> HIDE DEF f
    <2> QED BY <1>1, <2>1 DEF HeapType, HeapFields, Kept
  <1> HIDE DEF f
  <1>5. NULL \notin DOMAIN g.next /\ NULL \in Ptr
    <2>1. DOMAIN g.next = Cell
      BY <1>1 DEF HeapType
    <2>2. NULL \notin Cell
      BY NullAssumption DEF Cell
    <2> QED BY <2>1, <2>2 DEF Ptr
  <1>6. /\ DOMAIN hd = Place /\ DOMAIN hm = Place /\ hd[Active] = a /\ hm[Active] = NULL
        /\ hm[Q] = a /\ \A p \in Place \ {Active, Q} : hm[p] = hd[p]
    <2>1. \A t \in Src : f.wrq[t] = IF t = s THEN a ELSE g.wrq[t]
      BY <1>1, <1>4 DEF HeapType
    <2>2. /\ DOMAIN hd = Place /\ DOMAIN hm = Place
          /\ hd[Cached] = g.cache /\ hd[Active] = a /\ \A t \in Src : hd[QueueOf(t)] = g.wrq[t]
          /\ hm[Cached] = f.cache /\ hm[Active] = NULL
          /\ \A t \in Src : hm[QueueOf(t)] = f.wrq[t]
      BY FirstsAre
    <2> HIDE DEF hd, hm, Q
    <2>3. ASSUME NEW p \in Place \ {Active, Q} PROVE hm[p] = hd[p]
      <3>1. CASE p = Cached
        BY <1>4, <2>2, <3>1
      <3>2. CASE \E t \in Src : p = QueueOf(t)
        <4>1. PICK t \in Src : p = QueueOf(t)
          BY <3>2
        <4>2. t # s
          BY <4>1 DEF Q
        <4> QED BY <2>1, <2>2, <4>1, <4>2
      <3> QED BY <3>1, <3>2, Places
    <2> QED BY <2>1, <2>2, <2>3 DEF Q
  <1> HIDE DEF hd, hm, Q
  <1>7. /\ M \in [Place -> Seq(Cell)] /\ M[Active] = <<>> /\ M[Q] = L[Active]
        /\ M[Cached] = L[Cached] /\ \A p \in Place \ {Active, Q} : M[p] = L[p]
    <2>1. L[Active] \in Seq(Cell) /\ <<>> \in Seq(Cell)
      BY <1>1, <1>2
    <2> QED BY <1>1, <1>2, <2>1
  <1> HIDE DEF M
  <1>8. Moved(g.next, hd, L, Active, Q, NULL, hm, M)
    BY <1>1, <1>2, <1>3, <1>5, <1>6, <1>7 DEF Moved
  <1>9. Laid(g.next, hm, M) /\ CellsIn(M) = CellsIn(L)
    <2> DEFINE nx == g.next
    <2>1. Moved(nx, hd, L, Active, Q, NULL, hm, M)
      BY <1>8
    <2> HIDE DEF nx
    <2>2. Laid(nx, hm, M)
      BY <2>1, LaidMove
    <2>3. CellsIn(M) = CellsIn(L)
      BY <2>1, LaidMove
    <2> QED BY <2>2, <2>3 DEF nx
  <1>10. Accounted(f, NULL, M, O)
    BY <1>1, <1>4, <1>5, <1>7, <1>9 DEF Accounted, hm
  <1> QED BY <1>4, <1>10 DEF PutsBack, f, M, Q

(* The queue of s is the active list.                                         *)
TakesQueue(g, L, O, s, f) ==
    /\ Accounted(f, g.wrq[s], [L EXCEPT ![QueueOf(s)] = <<>>, ![Active] = L[QueueOf(s)]], O)
    /\ Kept(g, f) /\ f.alloc = g.alloc /\ f.next = g.next

(* gwpr_src_activity takes the queue and leaves none.                         *)
LEMMA TakeQueue ==
    ASSUME NEW g, NEW L, NEW O, Accounted(g, NULL, L, O), NEW s \in Src
    PROVE  TakesQueue(g, L, O, s, [g EXCEPT !.wrq[s] = NULL])
  <1> DEFINE f == [g EXCEPT !.wrq[s] = NULL]
             Q == QueueOf(s)
             a == g.wrq[s]
             hd == Firsts(g, NULL)
             hm == Firsts(f, a)
             M == [L EXCEPT ![Q] = <<>>, ![Active] = L[Q]]
  <1>1. /\ HeapType(g) /\ L \in [Place -> Seq(Cell)] /\ NULL \in Ptr
        /\ g.alloc = CellsIn(L) \cup O /\ CellsIn(L) \cap O = {} /\ g.fault = FALSE
        /\ Laid(g.next, hd, L) /\ g.ncache = Len(L[Cached])
        /\ client.cache \in Nat /\ g.ncache =< client.cache
    BY AccountedHas
  <1>2. /\ Active \in Place /\ Cached \in Place /\ Active # Cached /\ Q \in Place
        /\ Q # Active /\ Q # Cached /\ \A t \in Src : QueueOf(t) = Q => s = t
    BY Places
  <1>3. L[Active] = <<>>
    BY HeadCells
  <1>4. /\ HeapType(f) /\ f.next = g.next /\ Kept(g, f) /\ f.alloc = g.alloc
        /\ f.wrq = [g.wrq EXCEPT ![s] = NULL] /\ f.cache = g.cache
        /\ f.ncache = g.ncache /\ f.fault = g.fault /\ a \in Ptr
    BY <1>1 DEF HeapType, HeapFields, Kept
  <1> HIDE DEF f
  <1>5. NULL \notin DOMAIN g.next
    <2>1. DOMAIN g.next = Cell
      BY <1>1 DEF HeapType
    <2>2. NULL \notin Cell
      BY NullAssumption DEF Cell
    <2> QED BY <2>1, <2>2
  <1>6. /\ DOMAIN hd = Place /\ DOMAIN hm = Place /\ hd[Q] = a /\ hm[Active] = a
        /\ hm[Q] = NULL /\ \A p \in Place \ {Active, Q} : hm[p] = hd[p]
    <2>1. \A t \in Src : f.wrq[t] = IF t = s THEN NULL ELSE g.wrq[t]
      BY <1>1, <1>4 DEF HeapType
    <2>2. /\ DOMAIN hd = Place /\ DOMAIN hm = Place
          /\ hd[Cached] = g.cache /\ \A t \in Src : hd[QueueOf(t)] = g.wrq[t]
          /\ hm[Cached] = f.cache /\ hm[Active] = a
          /\ \A t \in Src : hm[QueueOf(t)] = f.wrq[t]
      BY FirstsAre
    <2>4. hd[Q] = a
      BY <2>2
    <2> HIDE DEF hd, hm, Q, a
    <2>3. ASSUME NEW p \in Place \ {Active, Q} PROVE hm[p] = hd[p]
      <3>1. CASE p = Cached
        BY <1>4, <2>2, <3>1
      <3>2. CASE \E t \in Src : p = QueueOf(t)
        <4>1. PICK t \in Src : p = QueueOf(t)
          BY <3>2
        <4>2. t # s
          BY <4>1 DEF Q
        <4> QED BY <2>1, <2>2, <4>1, <4>2
      <3> QED BY <3>1, <3>2, Places
    <2>5. hm[Q] = NULL
      BY <2>1, <2>2 DEF Q
    <2> QED BY <2>2, <2>3, <2>4, <2>5
  <1> HIDE DEF hd, hm, Q, a
  <1>7. /\ M \in [Place -> Seq(Cell)] /\ M[Q] = <<>> /\ M[Active] = L[Q]
        /\ M[Cached] = L[Cached] /\ \A p \in Place \ {Active, Q} : M[p] = L[p]
    <2>1. L[Q] \in Seq(Cell) /\ <<>> \in Seq(Cell)
      BY <1>1, <1>2
    <2> QED BY <1>1, <1>2, <2>1
  <1> HIDE DEF M
  <1>8. Moved(g.next, hd, L, Q, Active, NULL, hm, M)
    BY <1>1, <1>2, <1>3, <1>5, <1>6, <1>7 DEF Moved
  <1>9. Laid(g.next, hm, M) /\ CellsIn(M) = CellsIn(L)
    <2> DEFINE nx == g.next
    <2>1. Moved(nx, hd, L, Q, Active, NULL, hm, M)
      BY <1>8
    <2> HIDE DEF nx
    <2>2. Laid(nx, hm, M)
      BY <2>1, LaidMove
    <2>3. CellsIn(M) = CellsIn(L)
      BY <2>1, LaidMove
    <2> QED BY <2>2, <2>3 DEF nx
  <1>10. Accounted(f, a, M, O)
    BY <1>1, <1>4, <1>7, <1>9 DEF Accounted, hm
  <1> QED BY <1>4, <1>10 DEF TakesQueue, f, M, Q, a

(* The queue of s is lost.                                                    *)
DropsQueue(g, a, L, O, s, f) ==
    /\ Accounted(f, a, [L EXCEPT ![QueueOf(s)] = <<>>], O \cup Items(L[QueueOf(s)]))
    /\ Items(L[QueueOf(s)]) \cap O = {}
    /\ f.buf = g.buf /\ f.alloc = g.alloc /\ f.wrqlast = [g.wrqlast EXCEPT ![s] = NULL]

(* gwpr_src_del leaves the cells of a queue to nobody.                        *)
LEMMA DropQueue ==
    ASSUME NEW g, NEW a, NEW L, NEW O, Accounted(g, a, L, O), NEW s \in Src
    PROVE  DropsQueue(g, a, L, O, s, [g EXCEPT !.wrq[s] = NULL, !.wrqlast[s] = NULL])
  <1> DEFINE f == [g EXCEPT !.wrq[s] = NULL, !.wrqlast[s] = NULL]
             Q == QueueOf(s)
             hd == Firsts(g, a)
             hm == Firsts(f, a)
             M == [L EXCEPT ![Q] = <<>>]
  <1>1. /\ HeapType(g) /\ L \in [Place -> Seq(Cell)] /\ a \in Ptr
        /\ g.alloc = CellsIn(L) \cup O /\ CellsIn(L) \cap O = {} /\ g.fault = FALSE
        /\ Laid(g.next, hd, L) /\ g.ncache = Len(L[Cached])
        /\ client.cache \in Nat /\ g.ncache =< client.cache
        /\ \A p \in Place : Items(L[p]) \subseteq CellsIn(L)
    BY AccountedHas
  <1>2. /\ Active \in Place /\ Cached \in Place /\ Active # Cached /\ Q \in Place
        /\ Q # Active /\ Q # Cached /\ \A t \in Src : QueueOf(t) = Q => s = t
    BY Places
  <1>3. NULL \in Ptr /\ NULL \notin DOMAIN g.next
    <2>1. DOMAIN g.next = Cell
      BY <1>1 DEF HeapType
    <2>2. NULL \notin Cell
      BY NullAssumption DEF Cell
    <2> QED BY <2>1, <2>2 DEF Ptr
  <1>4. /\ HeapType(f) /\ f.next = g.next /\ f.buf = g.buf /\ f.alloc = g.alloc
        /\ f.wrq = [g.wrq EXCEPT ![s] = NULL] /\ f.cache = g.cache
        /\ f.wrqlast = [g.wrqlast EXCEPT ![s] = NULL]
        /\ f.ncache = g.ncache /\ f.fault = g.fault
    BY <1>1, <1>3 DEF HeapType, HeapFields
  <1> HIDE DEF f
  <1>6. /\ DOMAIN hd = Place /\ DOMAIN hm = Place
        /\ hm[Q] = NULL /\ \A p \in Place \ {Q} : hm[p] = hd[p]
    <2>1. \A t \in Src : f.wrq[t] = IF t = s THEN NULL ELSE g.wrq[t]
      BY <1>1, <1>4 DEF HeapType
    <2>2. /\ DOMAIN hd = Place /\ DOMAIN hm = Place
          /\ hd[Cached] = g.cache /\ hd[Active] = a /\ \A t \in Src : hd[QueueOf(t)] = g.wrq[t]
          /\ hm[Cached] = f.cache /\ hm[Active] = a
          /\ \A t \in Src : hm[QueueOf(t)] = f.wrq[t]
      BY FirstsAre
    <2> HIDE DEF hd, hm, Q
    <2>3. ASSUME NEW p \in Place \ {Q} PROVE hm[p] = hd[p]
      <3>1. CASE p = Cached \/ p = Active
        BY <1>4, <2>2, <3>1
      <3>2. CASE \E t \in Src : p = QueueOf(t)
        <4>1. PICK t \in Src : p = QueueOf(t)
          BY <3>2
        <4>2. t # s
          BY <4>1 DEF Q
        <4> QED BY <2>1, <2>2, <4>1, <4>2
      <3> QED BY <3>1, <3>2, Places
    <2>5. hm[Q] = NULL
      BY <2>1, <2>2 DEF Q
    <2> QED BY <2>2, <2>3, <2>5
  <1> HIDE DEF hd, hm, Q
  <1>7. /\ M \in [Place -> Seq(Cell)] /\ M[Q] = <<>>
        /\ M[Cached] = L[Cached] /\ \A p \in Place \ {Q} : M[p] = L[p]
    <2>1. <<>> \in Seq(Cell)
      OBVIOUS
    <2> QED BY <1>1, <1>2, <2>1
  <1> HIDE DEF M
  <1>8. Dropped(g.next, hd, L, Q, NULL, hm, M)
    <2>1. Repl(hd, hm, Q, NULL)
      BY <1>6 DEF Repl
    <2>2. Repl(L, M, Q, <<>>)
      BY <1>1, <1>7 DEF Repl
    <2> QED BY <1>1, <1>2, <1>3, <2>1, <2>2 DEF Dropped
  <1>9. Laid(g.next, hm, M) /\ CellsIn(M) = CellsIn(L) \ Items(L[Q])
    <2> DEFINE nx == g.next
    <2>1. Dropped(nx, hd, L, Q, NULL, hm, M)
      BY <1>8
    <2> HIDE DEF nx
    <2>2. Laid(nx, hm, M)
      BY <2>1, LaidDrop
    <2>3. CellsIn(M) = CellsIn(L) \ Items(L[Q])
      BY <2>1, LaidDrop
    <2> QED BY <2>2, <2>3 DEF nx
  <1>10. /\ f.alloc = CellsIn(M) \cup (O \cup Items(L[Q]))
         /\ CellsIn(M) \cap (O \cup Items(L[Q])) = {} /\ Items(L[Q]) \cap O = {}
    BY <1>1, <1>2, <1>4, <1>9
  <1>11. Accounted(f, a, M, O \cup Items(L[Q]))
    BY <1>1, <1>4, <1>7, <1>9, <1>10 DEF Accounted, hm
  <1> QED BY <1>4, <1>10, <1>11 DEF DropsQueue, f, M, Q

-----------------------------------------------------------------------------
(* Streams of bytes: what is sent, what remains, and what is lost.            *)
Joined(S, a, b, c) ==
    /\ c \in Seq(S) /\ Len(a) \in Nat /\ Len(b) \in Nat /\ Len(c) = Len(a) + Len(b)
    /\ \A i \in 1..Len(a) : c[i] = a[i]
    /\ \A i \in 1..Len(b) : c[Len(a) + i] = b[i]
    /\ Items(c) = Items(a) \cup Items(b)
    /\ Len(a) = 0 <=> a = <<>>
    /\ Len(b) = 0 <=> b = <<>>

(* So is their concatenation.                                                 *)
LEMMA CatIs ==
    ASSUME NEW S, NEW a \in Seq(S), NEW b \in Seq(S)
    PROVE  Joined(S, a, b, Cat(a, b))
  <1> DEFINE c == Cat(a, b)
  <1>1. /\ c \in Seq(S) /\ Len(c) = Len(a) + Len(b) /\ Len(a) \in Nat /\ Len(b) \in Nat
        /\ \A i \in 1..(Len(a) + Len(b)) : c[i] = IF i <= Len(a) THEN a[i] ELSE b[i - Len(a)]
    BY ConcatProperties, LenProperties DEF Cat
  <1> HIDE DEF c
  <1>2. \A i \in 1..Len(a) : c[i] = a[i]
    BY <1>1
  <1>3. ASSUME NEW i \in 1..Len(b) PROVE c[Len(a) + i] = b[i]
    <2>1. /\ Len(a) + i \in 1..(Len(a) + Len(b)) /\ ~(Len(a) + i <= Len(a))
          /\ (Len(a) + i) - Len(a) = i
      BY <1>1
    <2> QED BY <1>1, <2>1
  <1>4. Items(c) = Items(a) \cup Items(b)
    <2>1. ASSUME NEW i \in 1..Len(c) PROVE c[i] \in Items(a) \cup Items(b)
      <3>1. CASE i =< Len(a)
        BY <1>1, <1>2, <3>1 DEF Items
      <3>2. CASE i > Len(a)
        <4>1. i - Len(a) \in 1..Len(b) /\ i = Len(a) + (i - Len(a))
          BY <1>1, <3>2
        <4> QED BY <1>1, <4>1, <3>2 DEF Items
      <3> QED BY <1>1, <3>1, <3>2
    <2>2. ASSUME NEW i \in 1..Len(a) PROVE a[i] \in Items(c)
      BY <1>1, <1>2 DEF Items
    <2>3. ASSUME NEW i \in 1..Len(b) PROVE b[i] \in Items(c)
      <3>1. Len(a) + i \in 1..Len(c)
        BY <1>1
      <3> QED BY <1>3, <3>1 DEF Items
    <2> QED BY <2>1, <2>2, <2>3 DEF Items
  <1>5. (Len(a) = 0 <=> a = <<>>) /\ (Len(b) = 0 <=> b = <<>>)
    BY EmptySeq
  <1> QED BY <1>1, <1>2, <1>3, <1>4, <1>5 DEF c, Joined

(* A buffer is what was taken of it and the rest.                             *)
LEMMA TakeRest ==
    ASSUME NEW S, NEW b \in Seq(S), NEW n \in 0..Len(b)
    PROVE  /\ Take(b, n) \in Seq(S) /\ Rest(b, n) \in Seq(S) /\ Cat(Take(b, n), Rest(b, n)) = b
           /\ Len(Take(b, n)) = n /\ Len(Rest(b, n)) = Len(b) - n /\ Len(b) \in Nat
           /\ n = 0 => Take(b, n) = <<>> /\ Rest(b, n) = b
           /\ n = Len(b) => Take(b, n) = b /\ Rest(b, n) = <<>>
           /\ n # Len(b) => Rest(b, n) # <<>>
           /\ \A i \in 1..n : Take(b, n)[i] = b[i]
           /\ Items(Take(b, n)) \subseteq Items(b) /\ Items(Rest(b, n)) \subseteq Items(b)
  <1> DEFINE t == Take(b, n)
             r == Rest(b, n)
  <1>1. Len(b) \in Nat /\ \A i \in 1..Len(b) : b[i] \in S
    BY LenProperties, ElementOfSeq
  <1>2. t \in Seq(S) /\ Len(t) = n /\ \A i \in 1..n : t[i] = b[i]
    BY PrefixIs DEF Take
  <1>3. r \in Seq(S) /\ Len(r) = Len(b) - n
    <2>1. n + 1 \in Int /\ Len(b) \in Int /\ \A i \in (n + 1)..Len(b) : b[i] \in S
      BY <1>1
    <2>2. SubSeq(b, n + 1, Len(b)) \in Seq(S)
      BY <2>1, SubSeqProperties
    <2>3. Len(SubSeq(b, n + 1, Len(b))) =
            IF n + 1 <= Len(b) THEN Len(b) - (n + 1) + 1 ELSE 0
      BY <2>1, SubSeqProperties
    <2> QED BY <1>1, <2>2, <2>3 DEF Rest
  <1>4. Cat(t, r) = b
    <2>1. 1 \in 1..(Len(b) + 1) /\ n \in (1 - 1)..Len(b) /\ Len(b) \in n..Len(b)
      BY <1>1
    <2>2. SubSeq(b, 1, n) \o SubSeq(b, n + 1, Len(b)) = SubSeq(b, 1, Len(b))
      BY <2>1, ConcatAdjacentSubSeq
    <2> QED BY <2>2, SubSeqFull DEF Cat, Take, Rest
  <1> HIDE DEF t, r
  <1>5. Items(t) \subseteq Items(b) /\ Items(r) \subseteq Items(b)
    <2>1. Joined(S, t, r, b)
      BY <1>2, <1>3, <1>4, CatIs
    <2> QED BY <2>1 DEF Joined
  <1>6. (Len(t) = 0 <=> t = <<>>) /\ (Len(r) = 0 <=> r = <<>>)
    BY <1>2, <1>3, EmptySeq
  <1>7. n = 0 => t = <<>> /\ r = b
    BY <1>2, <1>3, <1>4, <1>6, CatEmpty
  <1>8. n = Len(b) => t = b /\ r = <<>>
    <2>1. n = Len(b) => r = <<>>
      BY <1>1, <1>3, <1>6
    <2> QED BY <1>2, <1>4, <2>1, CatEmpty
  <1>9. n # Len(b) => r # <<>>
    BY <1>1, <1>3, <1>6
  <1> QED BY <1>1, <1>2, <1>3, <1>4, <1>5, <1>7, <1>8, <1>9 DEF t, r

(* The last byte of b is not in a.                                            *)
Lacks(a, b) == b[Len(b)] \notin Items(a)
Disjoint(a, b) == Items(a) \cap Items(b) = {}
Begins(a, b) == Len(a) =< Len(b) /\ \A i \in 1..Len(a) : a[i] = b[i]

(* The bytes of a stream are distinct, and those of the next write are new.   *)
Fresh(t, n) ==
    \A i, j \in 1..Len(t) : t[i][1] =< n /\ (t[i] = t[j] => i = j)

(* Nothing has no elements.                                                   *)
LEMMA EmptyBytes ==
    /\ Items(<<>>) = {} /\ Len(<<>>) = 0
    /\ \A a : Lacks(<<>>, a) /\ Disjoint(<<>>, a) /\ Disjoint(a, <<>>)
  BY DEF Items, Lacks, Disjoint

(* A stream begins with its parts.                                            *)
LEMMA BeginsIs ==
    ASSUME NEW a \in Seq(Byte), NEW b \in Seq(Byte)
    PROVE  Begins(a, Cat(a, b))
  <1>1. Joined(Byte, a, b, Cat(a, b))
    BY CatIs
  <1> QED BY <1>1 DEF Begins, Joined

(* And still does when it grows.                                              *)
LEMMA BeginsLonger ==
    ASSUME NEW a \in Seq(Byte), NEW b \in Seq(Byte), Begins(a, b), NEW c \in Seq(Byte)
    PROVE  Begins(a, Cat(b, c))
  <1>1. Joined(Byte, b, c, Cat(b, c)) /\ Len(a) \in Nat
    BY CatIs, LenProperties
  <1> DEFINE d == Cat(b, c)
  <1> HIDE DEF d
  <1>2. Joined(Byte, b, c, d)
    BY <1>1 DEF d
  <1>3. \A i \in 1..Len(a) : i \in 1..Len(b)
    BY <1>1, <1>2 DEF Begins, Joined
  <1>4. Begins(a, d)
    BY <1>1, <1>2, <1>3 DEF Begins, Joined
  <1> QED BY <1>4 DEF d

(* A stream of distinct bytes without its end.                                *)
LEMMA FreshLoss ==
    ASSUME NEW n, NEW a \in Seq(Byte), NEW b \in Seq(Byte), Fresh(Cat(a, b), n)
    PROVE  /\ Disjoint(b, a) /\ Begins(a, Cat(a, b))
           /\ b # <<>> => Cat(a, b) # <<>> /\ Lacks(a, Cat(a, b))
  <1> DEFINE t == Cat(a, b)
  <1>1. /\ t \in Seq(Byte) /\ Len(a) \in Nat /\ Len(b) \in Nat /\ Len(t) = Len(a) + Len(b)
        /\ \A i \in 1..Len(a) : t[i] = a[i]
        /\ \A i \in 1..Len(b) : t[Len(a) + i] = b[i]
        /\ Len(b) = 0 <=> b = <<>>
    <2>1. Joined(Byte, a, b, t)
      BY CatIs
    <2> QED BY <2>1 DEF Joined
  <1>2. \A i, j \in 1..Len(t) : t[i] = t[j] => i = j
    BY DEF Fresh
  <1> HIDE DEF t
  <1>3. ASSUME NEW i \in 1..Len(a), NEW j \in 1..Len(b) PROVE a[i] # b[j]
    <2>1. i \in 1..Len(t) /\ Len(a) + j \in 1..Len(t) /\ i # Len(a) + j
      BY <1>1
    <2>2. t[i] # t[Len(a) + j]
      BY <1>2, <2>1
    <2> QED BY <1>1, <2>2
  <1>4. Disjoint(b, a)
    BY <1>3 DEF Disjoint, Items
  <1>5. ASSUME b # <<>> PROVE t # <<>> /\ Lacks(a, t)
    <2>1. Len(b) \in 1..Len(b) /\ Len(t) # 0
      BY <1>1, <1>5
    <2>2. t[Len(t)] = b[Len(b)]
      BY <1>1, <2>1
    <2>3. b[Len(b)] \notin Items(a)
      BY <1>3, <2>1 DEF Items
    <2> QED BY <2>1, <2>2, <2>3, EmptyBytes DEF Lacks
  <1> QED BY <1>4, <1>5, BeginsIs DEF t

(* The next write.                                                            *)
IsWrite(k, d) ==
    /\ d \in Seq(Byte) /\ Len(d) = client.len /\ d # <<>>
    /\ \A i \in 1..client.len : d[i] = <<k, i>>

(* The bytes of a write, of which no other write has one.                     *)
LEMMA DataIs ==
    ASSUME NEW k \in Nat, client.len \in Nat \ {0}
    PROVE  IsWrite(k, Data(k))
  <1> DEFINE d == Data(k)
  <1>1. d \in [1..client.len -> Byte] /\ \A i \in 1..client.len : d[i] = <<k, i>>
    BY DEF Data, Byte
  <1> HIDE DEF d
  <1>2. d \in Seq(Byte) /\ Len(d) = client.len
    BY <1>1, SeqDef
  <1>3. d # <<>>
    BY <1>2, EmptySeq
  <1> QED BY <1>1, <1>2, <1>3 DEF d, IsWrite

(* A write adds new bytes to a stream, the last of which no prefix has.       *)
LEMMA FreshWrite ==
    ASSUME NEW n \in Nat, NEW t \in Seq(Byte), Fresh(t, n), client.len \in Nat \ {0}
    PROVE  /\ Fresh(Cat(t, Data(n + 1)), n + 1) /\ Fresh(t, n + 1)
           /\ \A m \in 0..(client.len - 1) :
                /\ Lacks(t, Cat(t, Data(n + 1)))
                /\ Lacks(Take(Data(n + 1), m), Cat(t, Data(n + 1)))
  <1> DEFINE d == Data(n + 1)
             u == Cat(t, d)
             l == client.len
  <1>1. /\ d \in Seq(Byte) /\ Len(d) = l /\ l \in Nat \ {0}
        /\ \A i \in 1..l : d[i] = <<n + 1, i>>
    <2>1. IsWrite(n + 1, d)
      BY DataIs
    <2> QED BY <2>1 DEF IsWrite
  <1> HIDE DEF d, l
  <1>2. /\ u \in Seq(Byte) /\ Len(t) \in Nat /\ Len(u) = Len(t) + l
        /\ \A i \in 1..Len(t) : u[i] = t[i]
        /\ \A i \in 1..l : u[Len(t) + i] = d[i]
    <2>1. Joined(Byte, t, d, u)
      BY <1>1, CatIs
    <2> QED BY <1>1, <2>1 DEF Joined
  <1> HIDE DEF u
  <1>3. ASSUME NEW i \in 1..Len(t) PROVE t[i] \in Byte /\ t[i][1] \in Nat /\ t[i][1] =< n
    <2>1. t[i] \in Byte
      BY ElementOfSeq
    <2>2. t[i][1] \in Nat
      BY <2>1 DEF Byte
    <2> QED BY <2>1, <2>2 DEF Fresh
  <1>4. \A i, j \in 1..Len(t) : t[i] = t[j] => i = j
    BY DEF Fresh
  <1>5. \A i \in 1..l : d[i][1] = n + 1 /\ d[i][2] = i
    BY <1>1
  <1>6. \A i \in 1..Len(t), j \in 1..l : t[i] # d[j]
    BY <1>3, <1>5
  <1>7. ASSUME NEW i \in 1..Len(u)
        PROVE  \/ i \in 1..Len(t)
               \/ \E k \in 1..l : i = Len(t) + k
    <2>1. i > Len(t) => i - Len(t) \in 1..l /\ i = Len(t) + (i - Len(t))
      BY <1>1, <1>2
    <2> QED BY <1>2, <2>1
  <1>8. ASSUME NEW i \in 1..Len(u) PROVE u[i][1] =< n + 1
    <2>1. CASE i \in 1..Len(t)
      BY <1>2, <1>3, <2>1
    <2>2. CASE \E k \in 1..l : i = Len(t) + k
      <3>1. PICK k \in 1..l : i = Len(t) + k
        BY <2>2
      <3> QED BY <1>2, <1>5, <3>1
    <2> QED BY <1>7, <2>1, <2>2
  <1>9. ASSUME NEW i \in 1..Len(u), NEW j \in 1..Len(u), u[i] = u[j] PROVE i = j
    <2>1. CASE i \in 1..Len(t) /\ j \in 1..Len(t)
      BY <1>2, <1>4, <1>9, <2>1
    <2>2. CASE i \notin 1..Len(t) /\ j \notin 1..Len(t)
      <3>1. PICK k \in 1..l : i = Len(t) + k
        BY <1>7, <2>2
      <3>2. PICK m \in 1..l : j = Len(t) + m
        BY <1>7, <2>2
      <3>3. d[k] = d[m]
        BY <1>2, <1>9, <3>1, <3>2
      <3> QED BY <1>5, <3>1, <3>2, <3>3
    <2>3. CASE i \in 1..Len(t) /\ j \notin 1..Len(t)
      <3>1. PICK m \in 1..l : j = Len(t) + m
        BY <1>7, <2>3
      <3> QED BY <1>2, <1>6, <1>9, <2>3, <3>1
    <2>4. CASE i \notin 1..Len(t) /\ j \in 1..Len(t)
      <3>1. PICK m \in 1..l : i = Len(t) + m
        BY <1>7, <2>4
      <3> QED BY <1>2, <1>6, <1>9, <2>4, <3>1
    <2> QED BY <2>1, <2>2, <2>3, <2>4
  <1>10. Fresh(u, n + 1)
    BY <1>8, <1>9 DEF Fresh
  <1>11. Fresh(t, n + 1)
    BY <1>3, <1>4 DEF Fresh
  <1>12. ASSUME NEW m \in 0..(l - 1) PROVE Lacks(t, u) /\ Lacks(Take(d, m), u)
    <2>1. m \in 0..Len(d) /\ l \in 1..l
      BY <1>1
    <2>2. u[Len(u)] = d[l]
      BY <1>2, <2>1
    <2>3. Lacks(t, u)
      BY <1>6, <2>1, <2>2 DEF Lacks, Items
    <2>4. Len(Take(d, m)) = m /\ \A i \in 1..m : Take(d, m)[i] = d[i]
      BY <1>1, <2>1, TakeRest
    <2>5. \A i \in 1..m : i \in 1..l /\ i # l
      BY <1>1
    <2>6. \A i \in 1..m : d[i] # d[l]
      BY <1>5, <2>1, <2>5
    <2>7. Lacks(Take(d, m), u)
      BY <2>2, <2>4, <2>6 DEF Lacks, Items
    <2> QED BY <2>3, <2>7
  <1> QED BY <1>10, <1>11, <1>12 DEF u, d, l

-----------------------------------------------------------------------------
(* The state of the write side in terms of lists and buffers.                 *)
Looping == pc \in {"item", "cb", "result"}
Taken == pc \in {"cb", "result"}
First == IF Looping THEN q ELSE NULL
Lists == [p \in Place |-> Chain(h.next, Firsts(h, First)[p])]

(* The events that wait, the cells that the synchronous ones hold, and the     *)
(* cell whose did_write is called.                                            *)
Waiting == Items(Pending)
HasCell(e) == e.kind \in {"SYNC_WRITE", "SYNC_CLOSE"}
EventCells == {e.cell : e \in {f \in Waiting : HasCell(f)}}
Loose == EventCells \cup (IF pc = "synccb" THEN {q} ELSE {})

(* The buffers of the cells of a list.                                        *)
Bufs(b, l) == [i \in 1..Len(l) |-> b[l[i]]]

(* What gwpr_src_activity has yet to write, without what the kernel took.     *)
Hand ==
    IF Taken THEN <<Rem>> \o Bufs(h.buf, Tail(Lists[Active])) ELSE Bufs(h.buf, Lists[Active])

(* All there is of a source: the buffers being written, how the last write    *)
(* ended and what it took, the buffers in the queue, those in cells of        *)
(* synchronous writes, and whether its queue is not polled.                   *)
HandOf(s) == IF act = s THEN Hand ELSE <<>>
ErrOf(s) == IF act = s /\ Taken THEN errnm ELSE "none"
TakenOf(s) == IF act = s /\ Taken THEN Take(h.buf[q], written) ELSE <<>>
LineOf(s) == Bufs(h.buf, Lists[QueueOf(s)])
WaitsOf(s) == {h.buf[e.cell] : e \in {f \in Waiting : f.kind = "SYNC_WRITE" /\ f.src = s}}
Off(s) == s \notin wr \/ (act = s /\ pc = "end" /\ stopwrite)

(* A client that waits has one write outstanding: none, in the queue, being   *)
(* written, or in the cell of an event.                                       *)
Fine(s) == s \notin failed \cup short \cup closed \cup deleted /\ returned[s] = <<>>
Done(s) == HandOf(s) = <<>> \/ (ErrOf(s) = "ok" /\ HandOf(s) = <<<<>>>>)
Quiet(s) ==
    /\ Fine(s) /\ Done(s) /\ LineOf(s) = <<>> /\ WaitsOf(s) = {}
    /\ sent[s] = submitted[s] /\ reported[s] = submitted[s]
InQueue(s) ==
    /\ Fine(s) /\ Done(s) /\ WaitsOf(s) = {} /\ reported[s] = sent[s]
    /\ Len(LineOf(s)) = 1 /\ LineOf(s)[1] # <<>> /\ submitted[s] = Cat(sent[s], LineOf(s)[1])
InHand(s) ==
    /\ Fine(s) /\ LineOf(s) = <<>> /\ WaitsOf(s) = {} /\ reported[s] = sent[s]
    /\ Len(HandOf(s)) = 1 /\ HandOf(s)[1] # <<>> /\ submitted[s] = Cat(sent[s], HandOf(s)[1])
Synced(s) ==
    /\ Fine(s) /\ Done(s) /\ LineOf(s) = <<>> /\ sent[s] = submitted[s]
    /\ \E b \in WaitsOf(s) : WaitsOf(s) = {b} /\ b # <<>> /\ submitted[s] = Cat(reported[s], b)

(* Of a source in trouble the last byte is never sent.                        *)
Lossy(s) == submitted[s] # <<>> /\ Lacks(sent[s], submitted[s])
Short(s) ==
    /\ s \in short \ deleted /\ Lossy(s) /\ Lacks(reported[s], submitted[s])
    /\ ErrOf(s) = "ok" \/ Lacks(TakenOf(s), submitted[s])
    /\ \A i \in 1..Len(HandOf(s)) : Lacks(HandOf(s)[i], submitted[s])
    /\ \A i \in 1..Len(LineOf(s)) : Lacks(LineOf(s)[i], submitted[s])
    /\ \A b \in WaitsOf(s) :
        Lacks(b, submitted[s]) /\ Len(sent[s]) = Len(reported[s]) + Len(b)
    /\ WaitsOf(s) = {} => Len(sent[s]) = Len(reported[s])
    /\ Done(s) \/ LineOf(s) = <<>>
Failed(s) ==
    /\ s \in failed \ (short \cup deleted) /\ Lossy(s) /\ reported[s] = sent[s]
    /\ WaitsOf(s) = {} /\ HandOf(s) = <<>> /\ (LineOf(s) = <<>> \/ Off(s))
    /\ Disjoint(returned[s], sent[s])
Closed(s) ==
    /\ s \in closed \ (failed \cup short \cup deleted) /\ Lossy(s) /\ reported[s] = sent[s]
    /\ WaitsOf(s) = {} /\ LineOf(s) = <<>>
    /\ Begins(sent[s], submitted[s]) /\ Disjoint(returned[s], sent[s])
    /\ \/ HandOf(s) = <<>>
       \/ /\ ErrOf(s) = "closed" /\ returned[s] = <<>>
          /\ Len(HandOf(s)) = 1 /\ submitted[s] = Cat(sent[s], HandOf(s)[1])
Deleted(s) ==
    /\ s \in deleted /\ HandOf(s) = <<>> /\ LineOf(s) = <<>> /\ WaitsOf(s) = {}
    /\ Len(sent[s]) = Len(reported[s])
    /\ s \notin short => reported[s] = sent[s] /\ Disjoint(returned[s], sent[s])
WaitsInv(s) ==
    \/ Quiet(s) \/ InQueue(s) \/ InHand(s) \/ Synced(s)
    \/ Short(s) \/ Failed(s) \/ Closed(s) \/ Deleted(s)

(* One that pipelines has the rest of its stream in the queue.                *)
Unsent(s) == Cat(FlattenSeq(HandOf(s)), FlattenSeq(LineOf(s)))
WholeInv(s) ==
    /\ s \notin short /\ WaitsOf(s) = {} /\ reported[s] = sent[s] /\ returned[s] = <<>>
    /\ HandOf(s) = <<>> \/ LineOf(s) = <<>>
    /\ s \notin failed \cup deleted => Begins(sent[s], submitted[s])
    /\ s \notin failed \cup closed \cup deleted =>
        submitted[s] = Cat(sent[s], Unsent(s))

(* Each source is as the client treats it.                                    *)
SourceInv == \A s \in Src : IF client.pipelined THEN WholeInv(s) ELSE WaitsInv(s)

(* The cells are accounted for, with those of events and the leaked ones.     *)
CellsInv ==
    /\ Accounted(h, First, Lists, Loose \cup leaked)
    /\ Loose \cap leaked = {}

(* Of every kind a source has at most one event waiting, and each has its own *)
(* cell.                                                                      *)
Distinct(p) == \A i, j \in 1..Len(p) : p[i].kind = p[j].kind /\ p[i].src = p[j].src => i = j
EventsInv ==
    /\ Distinct(Pending)
    /\ \A e \in Waiting :
        /\ HasCell(e) => e.cell \in Cell /\ (pc = "synccb" => e.cell # q)
        /\ e.kind \in {"SYNC_CLOSE", "SYNC_ERROR"} => e.src \in short
    /\ \A e, f \in Waiting : HasCell(e) /\ HasCell(f) /\ e.cell = f.cell => e = f

(* gwpr_src_activity after it wrote an item.                                  *)
TakenInv ==
    /\ Taken =>
        /\ q # NULL /\ qn = h.next[q] /\ written \in 0..Len(h.buf[q])
        /\ errnm = "ok" <=> written = Len(h.buf[q])
        /\ errnm = "closed" => act \in closed
        /\ client.partial \/ written = 0 \/ errnm = "ok"
    /\ pc = "synccb" => q \in Cell

(* No buffer is longer than a write.                                          *)
LengthInv == \A c \in Cell : Len(h.buf[c]) =< client.len

(* wrqlast: a client that waits needs it only after a short synchronous       *)
(* write, of one that pipelines whole writes it is the last cell of the line, *)
(* or, when the line is empty, the cell that gwprwrq_get returns next.        *)
Line(s) ==
    IF act = s /\ Lists[Active] # <<>> THEN Lists[Active] ELSE Lists[QueueOf(s)]
LastOf(l) == l[Len(l)]
TailInv(s) ==
    IF ~client.pipelined THEN h.wrqlast[s] = NULL \/ s \in short \cup deleted
    ELSE IF h.wrqlast[s] = NULL THEN Len(Line(s)) =< 1
    ELSE IF Line(s) # <<>> THEN h.wrqlast[s] = LastOf(Line(s))
    ELSE Lists[Cached] # <<>> /\ h.wrqlast[s] = Lists[Cached][1]
LastInv == \A s \in Src : TailInv(s)

(* A client that pipelines makes no synchronous writes, writes to its sources *)
(* only, and needs no more cells than it made writes.                         *)
PipeInv ==
    client.pipelined =>
        /\ pc # "synccb"
        /\ \A s \in Src \ client.src : Line(s) = <<>> /\ h.wrqlast[s] = NULL
        /\ \A s \in client.src : Len(Lists[Cached]) + Len(Line(s)) =< nwrites

(* What was submitted is distinct, up to the last write.                      *)
FreshInv == \A s \in Src : Fresh(submitted[s], nwrites)

(* All of it until gwpr_free.                                                 *)
LiveInv ==
    /\ CellsInv /\ EventsInv /\ TakenInv /\ LengthInv /\ LastInv /\ PipeInv /\ SourceInv

(* What stays true after gwpr_free.                                           *)
StreamInv ==
    \A s \in Src :
        /\ s \notin failed \cup short \cup deleted => Begins(sent[s], submitted[s])
        /\ s \notin short => Disjoint(returned[s], sent[s])

(* The inductive invariant of careful clients.                                *)
WriteInv ==
    /\ TypeOK /\ FreshInv
    /\ pc # "freed" => LiveInv
    /\ pc = "freed" => h.alloc = leaked /\ StreamInv

-----------------------------------------------------------------------------
(* What the actions do to a source, apart from cells and links.               *)
SourceType(s) ==
    /\ HandOf(s) \in Seq(Seq(Byte)) /\ LineOf(s) \in Seq(Seq(Byte))
    /\ WaitsOf(s) \subseteq Seq(Byte) /\ TakenOf(s) \in Seq(Byte)
    /\ sent[s] \in Seq(Byte) /\ reported[s] \in Seq(Byte)
    /\ submitted[s] \in Seq(Byte) /\ returned[s] \in Seq(Byte)

(* Nothing changes of what is being written, sent, reported or returned, and  *)
(* of the flags.                                                              *)
SameHand(s) == HandOf(s)' = HandOf(s) /\ ErrOf(s)' = ErrOf(s) /\ TakenOf(s)' = TakenOf(s)
SameSent(s) == sent'[s] = sent[s] /\ reported'[s] = reported[s]
SameFlags(s) ==
    /\ s \in failed' <=> s \in failed
    /\ s \in short' <=> s \in short
    /\ s \in closed' <=> s \in closed
    /\ s \in deleted' <=> s \in deleted
(* A source that is not polled is not polled after the step.                  *)
OffStays(s) == Off(s) => Off(s)'

(* The step is about another source.                                          *)
Stays(s) ==
    /\ SameHand(s) /\ LineOf(s)' = LineOf(s) /\ WaitsOf(s)' = WaitsOf(s) /\ OffStays(s)
    /\ SameSent(s) /\ submitted'[s] = submitted[s] /\ returned'[s] = returned[s]
    /\ SameFlags(s)

(* A step about another source keeps a source of a client that waits.         *)
LEMMA StaysWaits ==
    ASSUME NEW s, Stays(s), WaitsInv(s)
    PROVE  WaitsInv(s)'
  <1>1. CASE Quiet(s)
    BY <1>1 DEF Stays, SameHand, SameSent, SameFlags, WaitsInv, Quiet, Fine, Done
  <1>2. CASE InQueue(s)
    BY <1>2 DEF Stays, SameHand, SameSent, SameFlags, WaitsInv, InQueue, Fine, Done
  <1>3. CASE InHand(s)
    BY <1>3 DEF Stays, SameHand, SameSent, SameFlags, WaitsInv, InHand, Fine
  <1>4. CASE Synced(s)
    BY <1>4 DEF Stays, SameHand, SameSent, SameFlags, WaitsInv, Synced, Fine, Done
  <1>5. CASE Short(s)
    BY <1>5 DEF Stays, SameHand, SameSent, SameFlags, WaitsInv, Short, Lossy, Done
  <1>6. CASE Failed(s)
    BY <1>6 DEF Stays, SameHand, SameSent, SameFlags, OffStays, WaitsInv, Failed, Lossy
  <1>7. CASE Closed(s)
    BY <1>7 DEF Stays, SameHand, SameSent, SameFlags, WaitsInv, Closed, Lossy
  <1>8. CASE Deleted(s)
    BY <1>8 DEF Stays, SameHand, SameSent, SameFlags, WaitsInv, Deleted
  <1> QED BY <1>1, <1>2, <1>3, <1>4, <1>5, <1>6, <1>7, <1>8 DEF WaitsInv

(* And one of a client that pipelines.                                        *)
LEMMA StaysWhole ==
    ASSUME NEW s, Stays(s), WholeInv(s)
    PROVE  WholeInv(s)'
  BY DEF Stays, SameHand, SameSent, SameFlags, WholeInv, Unsent

(* A list of one.                                                             *)
LEMMA SingleIs ==
    ASSUME NEW S, NEW f \in Seq(S), Len(f) = 1
    PROVE  f[1] \in S /\ f # <<>> /\ f = <<f[1]>> /\ Tail(f) = <<>>
  <1>1. f[1] \in S
    BY ElementOfSeq
  <1>2. f # <<>> /\ f = <<f[1]>>
    <2>1. DOMAIN f = 1..1 /\ f \in [1..1 -> S]
      BY LenProperties
    <2> QED BY <1>1, <2>1
  <1>3. Tail(f) \in Seq(S) /\ Len(Tail(f)) = 0
    BY <1>2, HeadTailProperties
  <1> QED BY <1>1, <1>2, <1>3, EmptySeq

(* A client that waits may write when nothing is outstanding.                 *)
LEMMA MayWriteQuiet ==
    ASSUME NEW s, SourceType(s), WaitsInv(s), reported[s] = submitted[s], s \notin deleted
    PROVE  Quiet(s)
  <1>1. CASE InQueue(s)
    <2> DEFINE b == LineOf(s)[1]
    <2>3. b \in Seq(Byte)
      BY <1>1, SingleIs DEF InQueue, SourceType
    <2>1. sent[s] \in Seq(Byte) /\ b # <<>> /\ sent[s] = Cat(sent[s], b)
      BY <1>1 DEF InQueue, SourceType
    <2> HIDE DEF b
    <2>2. Joined(Byte, sent[s], b, sent[s])
      BY <2>1, <2>3, CatIs
    <2> QED BY <2>1, <2>2 DEF Joined
  <1>2. CASE InHand(s)
    <2> DEFINE b == HandOf(s)[1]
    <2>3. b \in Seq(Byte)
      BY <1>2, SingleIs DEF InHand, SourceType
    <2>1. sent[s] \in Seq(Byte) /\ b # <<>> /\ sent[s] = Cat(sent[s], b)
      BY <1>2 DEF InHand, SourceType
    <2> HIDE DEF b
    <2>2. Joined(Byte, sent[s], b, sent[s])
      BY <2>1, <2>3, CatIs
    <2> QED BY <2>1, <2>2 DEF Joined
  <1>3. CASE Synced(s)
    <2>1. PICK b \in WaitsOf(s) : b # <<>> /\ submitted[s] = Cat(reported[s], b)
      BY <1>3 DEF Synced
    <2>2. reported[s] \in Seq(Byte) /\ b \in Seq(Byte)
      BY DEF SourceType
    <2>3. Joined(Byte, reported[s], b, reported[s])
      BY <2>1, <2>2, CatIs
    <2> QED BY <2>1, <2>3 DEF Joined
  <1>4. submitted[s] # <<>> => ~Lacks(reported[s], submitted[s])
    <2> DEFINE t == submitted[s]
    <2>1. t \in Seq(Byte) /\ reported[s] = t
      BY DEF SourceType
    <2> HIDE DEF t
    <2>2. t # <<>> => Len(t) \in 1..Len(t)
      BY <2>1, EmptySeq, LenProperties
    <2>3. t # <<>> => ~Lacks(t, t)
      BY <2>2 DEF Lacks, Items
    <2> QED BY <2>1, <2>3 DEF t
  <1>5. CASE Short(s)
    BY <1>4, <1>5 DEF Short, Lossy
  <1>6. CASE Failed(s)
    BY <1>4, <1>6 DEF Failed, Lossy
  <1>7. CASE Closed(s)
    BY <1>4, <1>7 DEF Closed, Lossy
  <1> QED BY <1>1, <1>2, <1>3, <1>5, <1>6, <1>7 DEF WaitsInv, Deleted

(* A write is queued.                                                         *)
Puts(s, d) ==
    /\ SameHand(s) /\ LineOf(s)' = Append(LineOf(s), d) /\ WaitsOf(s)' = WaitsOf(s)
    /\ SameSent(s) /\ submitted'[s] = Cat(submitted[s], d) /\ returned'[s] = returned[s]
    /\ SameFlags(s) /\ d \in Seq(Byte) /\ d # <<>>

(* A write is queued when nothing is outstanding.                             *)
LEMMA PutsWaits ==
    ASSUME NEW s, SourceType(s), Quiet(s), NEW d, Puts(s, d)
    PROVE  WaitsInv(s)'
  <1>1. /\ Fine(s)' /\ Done(s)' /\ WaitsOf(s)' = {} /\ reported'[s] = sent'[s]
        /\ submitted'[s] = Cat(sent'[s], d)
    BY DEF Quiet, Fine, Done, Puts, SameHand, SameSent, SameFlags
  <1>2. LineOf(s)' = Append(<<>>, d) /\ d # <<>> /\ d \in Seq(Byte)
    BY DEF Quiet, Puts
  <1>3. Len(LineOf(s)') = 1 /\ LineOf(s)'[1] = d
    <2>1. Len(Append(<<>>, d)) = 1 /\ Append(<<>>, d)[1] = d
      OBVIOUS
    <2> QED BY <1>2, <2>1
  <1>4. InQueue(s)'
    BY <1>1, <1>2, <1>3 DEF InQueue
  <1> QED BY <1>4 DEF WaitsInv

(* A write is queued behind the others.                                       *)
LEMMA PutsWhole ==
    ASSUME NEW s, SourceType(s), WholeInv(s), HandOf(s) = <<>>, NEW d, Puts(s, d)
    PROVE  WholeInv(s)'
  <1> DEFINE t == submitted[s]
             u == sent[s]
             f == FlattenSeq(LineOf(s))
             e == FlattenSeq(HandOf(s))
  <1>1. /\ t \in Seq(Byte) /\ u \in Seq(Byte) /\ d \in Seq(Byte)
        /\ f \in Seq(Byte) /\ e \in Seq(Byte)
    BY FlattenType DEF SourceType, Puts
  <1>2. FlattenSeq(LineOf(s)') = Cat(f, d)
    BY FlattenAppend DEF SourceType, Puts
  <1>3. Unsent(s)' = Cat(e, Cat(f, d))
    BY <1>2 DEF Unsent, Puts, SameHand
  <1>4. s \notin failed \cup deleted => Begins(u, Cat(t, d))
    <2>1. s \notin failed \cup deleted => Begins(u, t)
      BY DEF WholeInv
    <2> HIDE DEF t, u
    <2> QED BY <1>1, <2>1, BeginsLonger
  <1>5. s \notin failed \cup closed \cup deleted => Cat(t, d) = Cat(u, Cat(e, Cat(f, d)))
    <2>1. s \notin failed \cup closed \cup deleted => t = Cat(u, Cat(e, f))
      BY DEF WholeInv, Unsent
    <2> HIDE DEF t, u, e, f
    <2>2. Cat(e, f) \in Seq(Byte)
      BY <1>1, CatType
    <2>3. Cat(Cat(u, Cat(e, f)), d) = Cat(u, Cat(Cat(e, f), d))
      BY <1>1, <2>2, CatAssoc
    <2>4. Cat(Cat(e, f), d) = Cat(e, Cat(f, d))
      BY <1>1, CatAssoc
    <2> QED BY <2>1, <2>3, <2>4
  <1> QED BY <1>3, <1>4, <1>5 DEF WholeInv, Puts, SameHand, SameSent, SameFlags

(* FlattenSeq of nothing.                                                     *)
LEMMA FlattenNone == FlattenSeq(<<>>) = <<>>
  <1>1. Len(<<>>) = 0
    BY EmptyBytes
  <1> QED BY <1>1 DEF FlattenSeq

(* A synchronous write took everything; an event waits with it.               *)
Sends(s, d) ==
    /\ SameHand(s) /\ LineOf(s)' = LineOf(s) /\ WaitsOf(s)' = WaitsOf(s) \cup {d}
    /\ sent'[s] = Cat(sent[s], d) /\ submitted'[s] = Cat(submitted[s], d)
    /\ reported'[s] = reported[s] /\ returned'[s] = returned[s]
    /\ SameFlags(s) /\ d # <<>>

(* The kernel took a synchronous write whole.                                 *)
LEMMA SendsWaits ==
    ASSUME NEW s, Quiet(s), NEW d, Sends(s, d)
    PROVE  WaitsInv(s)'
  <1>1. /\ Fine(s)' /\ Done(s)' /\ LineOf(s)' = <<>> /\ sent'[s] = submitted'[s]
        /\ WaitsOf(s)' = {d} /\ d # <<>> /\ submitted'[s] = Cat(reported'[s], d)
    BY DEF Quiet, Fine, Done, Sends, SameHand, SameFlags
  <1>2. Synced(s)'
    BY <1>1 DEF Synced
  <1> QED BY <1>2 DEF WaitsInv

(* One that fell short: what it took waits in an event, and may be queued.    *)
Cuts(s, d, c) ==
    /\ SameHand(s) /\ WaitsOf(s)' = WaitsOf(s) \cup {c}
    /\ \A i \in 1..Len(LineOf(s)') : LineOf(s)'[i] = c
    /\ sent'[s] = Cat(sent[s], c) /\ submitted'[s] = Cat(submitted[s], d)
    /\ reported'[s] = reported[s]
    /\ s \in short' /\ (s \in deleted' <=> s \in deleted)
    /\ d \in Seq(Byte) /\ d # <<>> /\ c \in Seq(Byte)
    /\ Lacks(submitted[s], Cat(submitted[s], d)) /\ Lacks(c, Cat(submitted[s], d))

(* A synchronous write fell short, of a source with nothing outstanding.      *)
LEMMA CutsWaits ==
    ASSUME NEW s, SourceType(s), Quiet(s), NEW d, NEW c, Cuts(s, d, c),
           ErrOf(s) = "ok" \/ TakenOf(s) = <<>>
    PROVE  WaitsInv(s)'
  <1> DEFINE t == submitted[s]
             u == Cat(t, d)
  <1>1. /\ t \in Seq(Byte) /\ d \in Seq(Byte) /\ c \in Seq(Byte)
        /\ sent'[s] = Cat(t, c) /\ submitted'[s] = u /\ reported'[s] = t
        /\ Lacks(t, u) /\ Lacks(c, u) /\ d # <<>>
    BY DEF Quiet, Cuts, SourceType
  <1>2. Joined(Byte, t, d, u) /\ Joined(Byte, t, c, Cat(t, c))
    BY <1>1, CatIs
  <1>3. u # <<>> /\ Lacks(Cat(t, c), u) /\ Len(Cat(t, c)) = Len(t) + Len(c)
    <2>1. Len(u) # 0
      BY <1>1, <1>2 DEF Joined
    <2> HIDE DEF t, u
    <2> QED BY <1>1, <1>2, <2>1, EmptyBytes DEF Joined, Lacks
  <1>4. WaitsOf(s)' = {c} /\ (ErrOf(s)' = "ok" \/ TakenOf(s)' = <<>>)
    BY DEF Cuts, Quiet, SameHand
  <1>5. \A i \in 1..Len(HandOf(s)') : Lacks(HandOf(s)'[i], u)
    <2>1. HandOf(s)' = <<>> \/ HandOf(s)' = <<<<>>>>
      BY DEF Quiet, Done, Cuts, SameHand
    <2>2. CASE HandOf(s)' = <<>>
      BY <2>2
    <2>3. CASE HandOf(s)' = <<<<>>>>
      <3>1. Len(<<<<>>>>) = 1 /\ <<<<>>>>[1] = <<>>
        OBVIOUS
      <3> HIDE DEF u
      <3>2. Lacks(<<>>, u)
        BY EmptyBytes
      <3>3. \A i \in 1..Len(HandOf(s)') : HandOf(s)'[i] = <<>>
        BY <2>3, <3>1
      <3> QED BY <3>2, <3>3
    <2> QED BY <2>1, <2>2, <2>3
  <1>6. \A i \in 1..Len(LineOf(s)') : Lacks(LineOf(s)'[i], u)
    BY <1>1 DEF Cuts
  <1>7. Done(s)' /\ s \in short' /\ s \notin deleted'
    BY DEF Quiet, Fine, Done, Cuts, SameHand
  <1>8. Lacks(<<>>, u)
    <2> HIDE DEF u
    <2> QED BY EmptyBytes
  <1> HIDE DEF t, u
  <1>9. Short(s)'
    BY <1>1, <1>3, <1>4, <1>5, <1>6, <1>7, <1>8 DEF Short, Lossy
  <1> QED BY <1>9 DEF WaitsInv

(* The event is dispatched.                                                   *)
Reports(s, b) ==
    /\ SameHand(s) /\ LineOf(s)' = LineOf(s) /\ WaitsOf(s) = {b} /\ WaitsOf(s)' = {}
    /\ reported'[s] = Cat(reported[s], b) /\ sent'[s] = sent[s]
    /\ submitted'[s] = submitted[s] /\ returned'[s] = returned[s] /\ SameFlags(s)

(* did_write is called for a synchronous write.                               *)
LEMMA ReportsWaits ==
    ASSUME NEW s, SourceType(s), WaitsInv(s), NEW b, Reports(s, b)
    PROVE  WaitsInv(s)'
  <1>1. b \in Seq(Byte) /\ reported[s] \in Seq(Byte)
    BY DEF Reports, SourceType
  <1>2. Joined(Byte, reported[s], b, Cat(reported[s], b))
    BY <1>1, CatIs
  <1>3. CASE Synced(s)
    <2>1. /\ Fine(s)' /\ Done(s)' /\ LineOf(s)' = <<>> /\ sent'[s] = submitted'[s]
          /\ WaitsOf(s)' = {} /\ reported'[s] = submitted'[s]
      BY <1>3 DEF Synced, Fine, Done, Reports, SameHand, SameFlags
    <2>2. Quiet(s)'
      BY <2>1 DEF Quiet
    <2> QED BY <2>2 DEF WaitsInv
  <1>4. CASE Short(s)
    <2>1. Lacks(b, submitted[s]) /\ Len(sent[s]) = Len(reported[s]) + Len(b)
      BY <1>4 DEF Short, Reports
    <2>2. Lacks(reported'[s], submitted'[s]) /\ Len(sent'[s]) = Len(reported'[s])
      BY <1>2, <1>4, <2>1 DEF Short, Reports, Lacks, Joined
    <2>3. Short(s)'
      BY <1>4, <2>2 DEF Short, Lossy, Done, Reports, SameHand, SameFlags
    <2> QED BY <2>3 DEF WaitsInv
  <1> QED BY <1>3, <1>4 DEF WaitsInv, Quiet, InQueue, InHand, Failed, Closed, Deleted, Reports

(* The error callback gets the rest of a short write.                         *)
Returns(s) ==
    /\ SameHand(s) /\ LineOf(s)' = LineOf(s) /\ WaitsOf(s)' = WaitsOf(s)
    /\ SameSent(s) /\ submitted'[s] = submitted[s] /\ SameFlags(s) /\ s \in short

(* A callback got what was not sent.                                          *)
LEMMA ReturnsWaits ==
    ASSUME NEW s, WaitsInv(s), Returns(s)
    PROVE  WaitsInv(s)'
  <1>1. CASE Short(s)
    BY <1>1 DEF Short, Lossy, Done, Returns, SameHand, SameSent, SameFlags, WaitsInv
  <1>2. CASE Deleted(s)
    BY <1>2 DEF Deleted, Returns, SameHand, SameSent, SameFlags, WaitsInv
  <1> QED BY <1>1, <1>2 DEF WaitsInv, Quiet, InQueue, InHand, Synced, Failed, Closed, Fine, Returns

(* The source is deleted.                                                     *)
Leaves(s) ==
    /\ HandOf(s) = <<>> /\ HandOf(s)' = <<>> /\ LineOf(s)' = <<>>
    /\ WaitsOf(s) = {} /\ WaitsOf(s)' = {} /\ SameSent(s)
    /\ submitted'[s] = submitted[s] /\ returned'[s] = returned[s]
    /\ s \notin deleted /\ s \in deleted'
    /\ (s \in failed' <=> s \in failed) /\ (s \in short' <=> s \in short)

(* A deleted source has nothing left.                                         *)
LEMMA LeavesWaits ==
    ASSUME NEW s, WaitsInv(s), Leaves(s)
    PROVE  WaitsInv(s)'
  <1>1. Len(sent[s]) = Len(reported[s])
    BY DEF WaitsInv, Quiet, InQueue, InHand, Synced, Short, Failed, Closed, Deleted, Leaves
  <1>2. ASSUME s \notin short PROVE reported[s] = sent[s] /\ Disjoint(returned[s], sent[s])
    <2>1. Disjoint(<<>>, sent[s])
      BY EmptyBytes
    <2> QED BY <1>2, <2>1
         DEF WaitsInv, Quiet, InQueue, InHand, Synced, Short, Failed, Closed, Deleted, Leaves, Fine
  <1>3. Deleted(s)'
    BY <1>1, <1>2 DEF Deleted, Leaves, SameSent
  <1> QED BY <1>3 DEF WaitsInv

(* Also of a client that pipelines.                                           *)
LEMMA LeavesWhole ==
    ASSUME NEW s, WholeInv(s), Leaves(s)
    PROVE  WholeInv(s)'
  BY DEF WholeInv, Leaves, SameSent

(* gwpr_src_activity takes the queue.                                         *)
Takes(s) ==
    /\ HandOf(s) = <<>> /\ HandOf(s)' = LineOf(s) /\ LineOf(s)' = <<>>
    /\ ErrOf(s) = "none" /\ ErrOf(s)' = "none" /\ TakenOf(s)' = <<>>
    /\ WaitsOf(s)' = WaitsOf(s) /\ SameSent(s)
    /\ submitted'[s] = submitted[s] /\ returned'[s] = returned[s] /\ SameFlags(s) /\ ~Off(s)

(* The queue of the one write is taken.                                       *)
LEMMA TakesWaits ==
    ASSUME NEW s, WaitsInv(s), Takes(s)
    PROVE  WaitsInv(s)'
  <1>1. CASE Quiet(s)
    BY <1>1 DEF Takes, SameSent, SameFlags, WaitsInv, Quiet, Fine, Done
  <1>2. CASE InQueue(s)
    <2>1. InHand(s)'
      BY <1>2 DEF Takes, SameSent, SameFlags, InQueue, InHand, Fine
    <2> QED BY <2>1 DEF WaitsInv
  <1>3. CASE InHand(s)
    BY <1>3 DEF Takes, InHand
  <1>4. CASE Synced(s)
    <2>1. Synced(s)'
      BY <1>4 DEF Takes, SameSent, SameFlags, Synced, Fine, Done
    <2> QED BY <2>1 DEF WaitsInv
  <1>5. CASE Short(s)
    <2>1. Lacks(<<>>, submitted[s])
      BY EmptyBytes
    <2>2. LineOf(s)' = <<>> /\ Len(<<>>) = 0
      BY DEF Takes
    <2>3. \A i \in 1..Len(LineOf(s)') : Lacks(LineOf(s)'[i], submitted[s])
      BY <2>2
    <2>4. Short(s)'
      BY <1>5, <2>1, <2>3 DEF Takes, SameSent, SameFlags, Short, Lossy
    <2> QED BY <2>4 DEF WaitsInv
  <1>6. CASE Failed(s)
    BY <1>6 DEF Takes, SameSent, SameFlags, WaitsInv, Failed, Lossy
  <1>7. CASE Closed(s)
    BY <1>7 DEF Takes, SameSent, SameFlags, WaitsInv, Closed, Lossy
  <1>8. CASE Deleted(s)
    BY <1>8 DEF Takes, SameSent, SameFlags, WaitsInv, Deleted
  <1> QED BY <1>1, <1>2, <1>3, <1>4, <1>5, <1>6, <1>7, <1>8 DEF WaitsInv

(* The queue of many writes is taken.                                         *)
LEMMA TakesWhole ==
    ASSUME NEW s, SourceType(s), WholeInv(s), Takes(s)
    PROVE  WholeInv(s)'
  <1> DEFINE f == FlattenSeq(LineOf(s))
             e == FlattenSeq(HandOf(s))
  <1>1. f \in Seq(Byte) /\ e \in Seq(Byte) /\ e = FlattenSeq(<<>>)
    BY FlattenType DEF SourceType, Takes
  <1>2. Unsent(s)' = Cat(f, e)
    BY <1>1 DEF Unsent, Takes
  <1>3. e = <<>>
    BY <1>1, FlattenNone
  <1>4. Unsent(s)' = Unsent(s)
    BY <1>1, <1>2, <1>3, CatEmpty DEF Unsent
  <1> QED BY <1>4 DEF WholeInv, Takes, SameSent, SameFlags

(* Nothing is queued behind cells that are being written, but in the did_write *)
(* callback of the last one.                                                  *)
LEMMA BehindWaits ==
    ASSUME NEW s, WaitsInv(s), HandOf(s) # <<>>, ErrOf(s) # "ok"
    PROVE  LineOf(s) = <<>>
  BY DEF WaitsInv, Quiet, InQueue, InHand, Synced, Short, Failed, Closed, Deleted, Done

(* An item is written: the kernel takes n bytes of it.                        *)
Writes(s, n, o) ==
    /\ HandOf(s) # <<>> /\ ErrOf(s) = "none" /\ n \in 0..Len(HandOf(s)[1])
    /\ HandOf(s)' = <<Rest(HandOf(s)[1], n)>> \o Tail(HandOf(s))
    /\ ErrOf(s)' = o /\ TakenOf(s)' = Take(HandOf(s)[1], n)
    /\ LineOf(s)' = LineOf(s) /\ WaitsOf(s)' = WaitsOf(s)
    /\ sent'[s] = Cat(sent[s], Take(HandOf(s)[1], n))
    /\ reported'[s] = Cat(reported[s], Take(HandOf(s)[1], n))
    /\ submitted'[s] = submitted[s] /\ returned'[s] = returned[s]
    /\ n = Len(HandOf(s)[1]) <=> o = "ok"
    /\ s \in failed' <=> s \in failed
    /\ s \in short' <=> s \in short
    /\ s \in deleted' <=> s \in deleted
    /\ s \in closed' <=> s \in closed \/ o = "closed"
    /\ s \in closed /\ HandOf(s)[1] # <<>> => n = 0 /\ o = "closed"

(* The sequences it is about.                                                 *)
Split(s, n, b, t, r, f) ==
    /\ b \in Seq(Byte) /\ t \in Seq(Byte) /\ r \in Seq(Byte) /\ f \in Seq(Seq(Byte))
    /\ b = HandOf(s)[1] /\ t = Take(b, n) /\ r = Rest(b, n) /\ b = Cat(t, r) /\ f = Tail(HandOf(s))
    /\ n = 0 => t = <<>> /\ r = b
    /\ r = <<>> <=> n = Len(b)
    /\ Items(t) \subseteq Items(b) /\ Items(r) \subseteq Items(b)
    /\ HandOf(s) = <<b>> \o f /\ Len(HandOf(s)) = 1 + Len(f) /\ Len(f) \in Nat
    /\ HandOf(s)' = <<r>> \o f /\ Len(HandOf(s)') = 1 + Len(f) /\ HandOf(s)'[1] = r
    /\ \A i \in 1..Len(f) : HandOf(s)[i + 1] = f[i] /\ HandOf(s)'[i + 1] = f[i]
    /\ sent'[s] = Cat(sent[s], t) /\ reported'[s] = Cat(reported[s], t)

(* A list is its first and the rest.                                          *)
LEMMA ConsOf ==
    ASSUME NEW S, NEW l \in Seq(S), l # <<>>
    PROVE  l = <<l[1]>> \o Tail(l)
  <1> DEFINE r == <<l[1]>> \o Tail(l)
  <1>1. /\ Tail(l) \in Seq(S) /\ Len(Tail(l)) = Len(l) - 1 /\ Len(l) \in Nat \ {0}
        /\ l[1] \in S /\ \A i \in 1..(Len(l) - 1) : Tail(l)[i] = l[i + 1]
    BY TailOf
  <1>2. /\ r \in Seq(S) /\ Len(r) = Len(Tail(l)) + 1 /\ r[1] = l[1]
        /\ \A i \in 1..Len(Tail(l)) : r[i + 1] = Tail(l)[i]
    BY <1>1, ConsIs
  <1> HIDE DEF r
  <1>3. ASSUME NEW i \in 1..Len(l) PROVE l[i] = r[i]
    <2>1. CASE i = 1
      BY <1>2, <2>1
    <2>2. CASE i # 1
      <3>1. i - 1 \in 1..(Len(l) - 1) /\ (i - 1) + 1 = i
        BY <1>1, <2>2
      <3>2. Tail(l)[i - 1] = l[i] /\ r[i] = Tail(l)[i - 1]
        BY <1>1, <1>2, <3>1
      <3> QED BY <3>2
    <2> QED BY <2>1, <2>2
  <1>4. l = r
    BY <1>1, <1>2, <1>3, SeqEqual
  <1> QED BY <1>4 DEF r

(* What write took of an item, and what it left.                              *)
LEMMA WriteSplit ==
    ASSUME NEW s, SourceType(s), NEW n, NEW o, Writes(s, n, o)
    PROVE  Split(s, n, HandOf(s)[1], Take(HandOf(s)[1], n), Rest(HandOf(s)[1], n), Tail(HandOf(s)))
  <1> DEFINE l == HandOf(s)
             b == l[1]
             f == Tail(l)
             t == Take(b, n)
             r == Rest(b, n)
  <1>1. l \in Seq(Seq(Byte)) /\ l # <<>>
    BY DEF SourceType, Writes
  <1>2. /\ b \in Seq(Byte) /\ f \in Seq(Seq(Byte)) /\ Len(f) = Len(l) - 1 /\ Len(l) \in Nat \ {0}
        /\ l = <<b>> \o f
    BY <1>1, TailOf, ConsOf
  <1>3. n \in 0..Len(b)
    BY DEF Writes
  <1>4. HandOf(s)' = <<r>> \o f
    BY DEF Writes
  <1>9. sent'[s] = Cat(sent[s], t) /\ reported'[s] = Cat(reported[s], t)
    BY DEF Writes
  <1>8. \A i \in 1..(Len(l) - 1) : f[i] = l[i + 1]
    BY <1>1, TailOf
  <1> HIDE DEF b, f, l
  <1>5. /\ t \in Seq(Byte) /\ r \in Seq(Byte) /\ Cat(t, r) = b
        /\ n = 0 => t = <<>> /\ r = b
        /\ r = <<>> <=> n = Len(b)
        /\ Items(t) \subseteq Items(b) /\ Items(r) \subseteq Items(b)
    BY <1>2, <1>3, TakeRest
  <1> HIDE DEF t, r
  <1>6. /\ Len(<<r>> \o f) = Len(f) + 1 /\ Len(f) \in Nat /\ (<<r>> \o f)[1] = r
        /\ \A i \in 1..Len(f) : (<<r>> \o f)[i + 1] = f[i]
    BY <1>2, <1>5, ConsIs
  <1>7. Len(l) = 1 + Len(f) /\ \A i \in 1..Len(f) : l[i + 1] = f[i]
    BY <1>2, <1>8
  <1> QED BY <1>2, <1>4, <1>5, <1>6, <1>7, <1>9 DEF Split, t, r, b, f, l

(* An item is written by a client that waits.                                 *)
LEMMA WritesWaits ==
    ASSUME NEW s, SourceType(s), WaitsInv(s), NEW m, Fresh(submitted[s], m),
           NEW n, NEW o, Writes(s, n, o)
    PROVE  WaitsInv(s)'
  <1> DEFINE b == HandOf(s)[1]
             t == Take(b, n)
             r == Rest(b, n)
             f == Tail(HandOf(s))
             u == submitted[s]
  <1>1. Split(s, n, b, t, r, f)
    BY WriteSplit
  <1>2. /\ u \in Seq(Byte) /\ sent[s] \in Seq(Byte) /\ reported[s] \in Seq(Byte)
        /\ submitted'[s] = u
    BY DEF SourceType, Writes
  <1> HIDE DEF b, t, r, f, u
  <1>3. /\ n = Len(b) <=> o = "ok"
        /\ HandOf(s) # <<>> /\ ErrOf(s) = "none" /\ ErrOf(s)' = o /\ TakenOf(s)' = t
        /\ LineOf(s)' = LineOf(s) /\ WaitsOf(s)' = WaitsOf(s) /\ returned'[s] = returned[s]
    BY DEF Writes, b, t
  <1>4. Joined(Byte, sent[s], t, sent'[s]) /\ Joined(Byte, reported[s], t, reported'[s])
    BY <1>1, <1>2, CatIs DEF Split
  <1>5. CASE InHand(s)
    <2>1. /\ b # <<>> /\ u = Cat(sent[s], b) /\ reported[s] = sent[s] /\ Len(f) = 0
          /\ LineOf(s) = <<>> /\ WaitsOf(s) = {}
      BY <1>1, <1>5 DEF InHand, Split, b, u
    <2>2. u = Cat(sent'[s], r) /\ sent'[s] \in Seq(Byte) /\ r \in Seq(Byte)
      <3>1. sent'[s] \in Seq(Byte)
        BY <1>4 DEF Joined
      <3>2. t \in Seq(Byte) /\ r \in Seq(Byte) /\ b = Cat(t, r) /\ sent'[s] = Cat(sent[s], t)
        BY <1>1 DEF Split
      <3>3. Cat(Cat(sent[s], t), r) = Cat(sent[s], Cat(t, r))
        BY <1>2, <3>2, CatAssoc
      <3> QED BY <2>1, <3>1, <3>2, <3>3
    <2>3. Len(HandOf(s)') = 1 /\ HandOf(s)'[1] = r
      BY <1>1, <2>1 DEF Split
    <2>4. CASE o = "ok"
      <3>1. HandOf(s)' = <<r>>
        <4>1. HandOf(s)' \in Seq(Seq(Byte))
          <5>1. r \in Seq(Byte) /\ f \in Seq(Seq(Byte)) /\ HandOf(s)' = <<r>> \o f
            BY <1>1 DEF Split
          <5> QED BY <5>1, ConsIs
        <4> QED BY <2>3, <4>1, SingleIs
      <3>2. r = <<>>
        BY <1>1, <1>3, <2>4 DEF Split
      <3>3. Fine(s)'
        BY <1>5, <2>4 DEF InHand, Fine, Writes
      <3>4. sent'[s] = u /\ reported'[s] = u
        BY <1>1, <2>1, <2>2, <3>2, CatEmpty DEF Split
      <3>5. Quiet(s)'
        BY <1>2, <1>3, <2>1, <2>4, <3>1, <3>2, <3>3, <3>4 DEF Quiet, Done
      <3> QED BY <3>5 DEF WaitsInv
    <2>5. CASE o # "ok" /\ o # "closed"
      <3>1. r # <<>>
        BY <1>1, <1>3, <2>5 DEF Split
      <3>2. Fine(s)'
        BY <1>5, <2>5 DEF InHand, Fine, Writes
      <3>3. InHand(s)'
        BY <1>1, <1>2, <1>3, <2>1, <2>2, <2>3, <3>1, <3>2 DEF InHand, Split
      <3> QED BY <3>3 DEF WaitsInv
    <2>6. CASE o = "closed"
      <3>1. r # <<>>
        BY <1>1, <1>3, <2>6 DEF Split
      <3>2. Begins(sent'[s], u) /\ u # <<>> /\ Lacks(sent'[s], u)
        <4> DEFINE z == sent'[s]
        <4>1. u = Cat(z, r) /\ z \in Seq(Byte) /\ r \in Seq(Byte) /\ Fresh(Cat(z, r), m)
          BY <2>2 DEF u
        <4> HIDE DEF z
        <4>2. Begins(z, Cat(z, r)) /\ Cat(z, r) # <<>> /\ Lacks(z, Cat(z, r))
          BY <3>1, <4>1, FreshLoss
        <4> QED BY <4>1, <4>2 DEF z
      <3>3. /\ s \in closed' \ (failed' \cup short' \cup deleted')
            /\ returned'[s] = <<>> /\ reported'[s] = sent'[s]
        BY <1>1, <1>5, <2>1, <2>6 DEF InHand, Fine, Writes, Split
      <3>4. Disjoint(returned'[s], sent'[s])
        BY <3>3, EmptyBytes
      <3>5. Closed(s)'
        BY <1>2, <1>3, <2>1, <2>2, <2>3, <2>6, <3>2, <3>3, <3>4 DEF Closed, Lossy
      <3> QED BY <3>5 DEF WaitsInv
    <2> QED BY <2>4, <2>5, <2>6
  <1>6. CASE Short(s)
    <2>1. Lacks(b, u) /\ \A i \in 1..Len(f) : Lacks(f[i], u)
      <3>1. 1 \in 1..Len(HandOf(s)) /\ \A i \in 1..Len(f) : i + 1 \in 1..Len(HandOf(s))
        BY <1>1 DEF Split
      <3> QED BY <1>1, <1>6, <3>1 DEF Short, Split, b, u
    <2>2. Lacks(t, u) /\ Lacks(r, u)
      BY <1>1, <2>1 DEF Split, Lacks
    <2>3. Lacks(sent'[s], u) /\ Lacks(reported'[s], u)
      BY <1>4, <1>6, <2>2 DEF Short, Lossy, Joined, Lacks, u
    <2>4. ASSUME NEW i \in 1..Len(HandOf(s)') PROVE Lacks(HandOf(s)'[i], u)
      <3>1. CASE i = 1
        BY <1>1, <2>2, <3>1 DEF Split
      <3>2. CASE i # 1
        <4>1. i - 1 \in 1..Len(f) /\ (i - 1) + 1 = i
          BY <1>1, <3>2 DEF Split
        <4> QED BY <1>1, <2>1, <4>1 DEF Split
      <3> QED BY <3>1, <3>2
    <2>5. /\ \A e \in WaitsOf(s)' :
                Lacks(e, u) /\ Len(sent'[s]) = Len(reported'[s]) + Len(e)
          /\ WaitsOf(s)' = {} => Len(sent'[s]) = Len(reported'[s])
      <3>1. \A e \in WaitsOf(s) : Len(sent[s]) = Len(reported[s]) + Len(e) /\ Len(e) \in Nat
        BY <1>6, LenProperties DEF Short, SourceType
      <3>3. /\ Len(sent'[s]) = Len(sent[s]) + Len(t) /\ Len(t) \in Nat
            /\ Len(reported'[s]) = Len(reported[s]) + Len(t) /\ Len(reported[s]) \in Nat
        BY <1>4 DEF Joined
      <3>2. ASSUME NEW e \in WaitsOf(s) PROVE Len(sent'[s]) = Len(reported'[s]) + Len(e)
        <4>1. Len(sent[s]) = Len(reported[s]) + Len(e) /\ Len(e) \in Nat
          BY <3>1
        <4> QED BY <3>3, <4>1
      <3> QED BY <1>3, <1>4, <1>6, <3>2 DEF Short, Joined, u
    <2>6. LineOf(s) = <<>>
      BY <1>3, BehindWaits
    <2>7. s \in short' \ deleted' /\ u # <<>>
      BY <1>6 DEF Short, Lossy, Writes, u
    <2>8. Len(LineOf(s)') = 0
      BY <1>3, <2>6, EmptyBytes
    <2>9. \A i \in 1..Len(LineOf(s)') : Lacks(LineOf(s)'[i], u)
      BY <2>8
    <2>10. Short(s)'
      BY <1>2, <1>3, <2>2, <2>3, <2>4, <2>5, <2>6, <2>7, <2>9 DEF Short, Lossy
    <2> QED BY <2>10 DEF WaitsInv
  <1> QED BY <1>3, <1>5, <1>6
       DEF WaitsInv, Quiet, InQueue, Synced, Failed, Closed, Deleted, Done

(* The item is done with: written, given up as the connection is closed, or   *)
(* dropped for want of an error callback.                                     *)
Drops(s) ==
    /\ HandOf(s) # <<>> /\ HandOf(s)' = Tail(HandOf(s))
    /\ ErrOf(s)' = "none" /\ TakenOf(s)' = <<>>
    /\ LineOf(s)' = LineOf(s) /\ WaitsOf(s)' = WaitsOf(s)
    /\ SameSent(s) /\ submitted'[s] = submitted[s]
    /\ s \in short' <=> s \in short
    /\ s \in closed' <=> s \in closed
    /\ s \in deleted' <=> s \in deleted
    /\ \/ /\ ErrOf(s) = "ok" /\ HandOf(s)[1] = <<>> /\ (s \in failed' <=> s \in failed)
          /\ returned'[s] = returned[s]
       \/ /\ ErrOf(s) = "closed" /\ s \in closed /\ (s \in failed' <=> s \in failed)
          /\ returned'[s] \in {returned[s], Cat(returned[s], HandOf(s)[1])}
       \/ /\ ErrOf(s) = "other" /\ s \in failed' /\ returned'[s] = returned[s]

(* And done with.                                                             *)
LEMMA DropsWaits ==
    ASSUME NEW s, SourceType(s), WaitsInv(s), NEW m, Fresh(submitted[s], m), Drops(s)
    PROVE  WaitsInv(s)'
  <1>1. Done(s) => ErrOf(s) = "ok" /\ HandOf(s)' = <<>>
    <2>1. Tail(<<<<>>>>) = <<>>
      OBVIOUS
    <2> QED BY <2>1 DEF Done, Drops
  <1>2. CASE Quiet(s)
    BY <1>1, <1>2 DEF Quiet, Fine, Done, Drops, SameSent, WaitsInv
  <1>3. CASE InQueue(s)
    BY <1>1, <1>3 DEF InQueue, Fine, Done, Drops, SameSent, WaitsInv
  <1>4. CASE Synced(s)
    BY <1>1, <1>4 DEF Synced, Fine, Done, Drops, SameSent, WaitsInv
  <1>5. CASE InHand(s)
    <2> DEFINE b == HandOf(s)[1]
    <2>1. /\ b \in Seq(Byte) /\ HandOf(s)' = <<>> /\ b # <<>>
          /\ ErrOf(s) = "other" /\ s \in failed' /\ returned'[s] = <<>>
      <3>1. b \in Seq(Byte) /\ Tail(HandOf(s)) = <<>>
        BY <1>5, SingleIs DEF InHand, SourceType
      <3> QED BY <1>5, <3>1 DEF InHand, Fine, Drops
    <2>2. submitted[s] # <<>> /\ Lacks(sent[s], submitted[s])
      <3> DEFINE z == sent[s]
                 t == submitted[s]
      <3>1. z \in Seq(Byte) /\ t = Cat(z, b) /\ Fresh(t, m)
        BY <1>5 DEF InHand, SourceType
      <3> HIDE DEF z, t, b
      <3>2. Cat(z, b) # <<>> /\ Lacks(z, Cat(z, b))
        BY <2>1, <3>1, FreshLoss
      <3> QED BY <3>1, <3>2 DEF z, t
    <2>3. Disjoint(returned'[s], sent'[s])
      BY <2>1, EmptyBytes
    <2>4. Failed(s)'
      BY <1>5, <2>1, <2>2, <2>3 DEF InHand, Fine, Failed, Lossy, Drops, SameSent
    <2> QED BY <2>4 DEF WaitsInv
  <1>6. CASE Short(s)
    <2>1. /\ Tail(HandOf(s)) \in Seq(Seq(Byte)) /\ Len(HandOf(s)) \in Nat \ {0}
          /\ Len(Tail(HandOf(s))) = Len(HandOf(s)) - 1
          /\ \A i \in 1..(Len(HandOf(s)) - 1) : Tail(HandOf(s))[i] = HandOf(s)[i + 1]
      BY TailOf DEF SourceType, Drops
    <2>2. ASSUME NEW i \in 1..Len(HandOf(s)') PROVE Lacks(HandOf(s)'[i], submitted[s])
      <3>1. HandOf(s)' = Tail(HandOf(s)) /\ i \in 1..(Len(HandOf(s)) - 1)
        BY <2>1 DEF Drops
      <3>2. i + 1 \in 1..Len(HandOf(s)) /\ HandOf(s)'[i] = HandOf(s)[i + 1]
        BY <2>1, <3>1
      <3> QED BY <1>6, <3>2 DEF Short
    <2>3. Done(s)' \/ LineOf(s)' = <<>>
      BY <1>1, <1>6 DEF Short, Done, Drops
    <2>4. Lacks(<<>>, submitted[s])
      BY EmptyBytes
    <2>5. Short(s)'
      BY <1>6, <2>2, <2>3, <2>4 DEF Short, Lossy, Drops, SameSent
    <2> QED BY <2>5 DEF WaitsInv
  <1>7. CASE Closed(s)
    <2> DEFINE b == HandOf(s)[1]
    <2>1. /\ ErrOf(s) = "closed" /\ returned[s] = <<>> /\ Len(HandOf(s)) = 1
          /\ submitted[s] = Cat(sent[s], b)
          /\ LineOf(s)' = <<>> /\ ErrOf(s)' = "none"
      BY <1>7 DEF Closed, Drops
    <2>2. b \in Seq(Byte) /\ HandOf(s)' = <<>>
      <3>1. b \in Seq(Byte) /\ Tail(HandOf(s)) = <<>>
        BY <2>1, SingleIs DEF SourceType
      <3> QED BY <3>1 DEF Drops
    <2>3. Disjoint(b, sent[s])
      <3> DEFINE z == sent[s]
                 t == submitted[s]
      <3>1. z \in Seq(Byte) /\ t = Cat(z, b) /\ Fresh(t, m)
        BY <2>1 DEF SourceType
      <3> HIDE DEF z, t, b
      <3>2. Disjoint(b, z)
        BY <2>2, <3>1, FreshLoss
      <3> QED BY <3>2 DEF z
    <2>4. returned'[s] = <<>> \/ returned'[s] = b
      <3>1. returned'[s] \in {<<>>, Cat(<<>>, b)}
        BY <2>1 DEF Drops
      <3> QED BY <2>2, <3>1, CatEmpty
    <2>5. Disjoint(returned'[s], sent'[s])
      BY <2>3, <2>4, EmptyBytes DEF Drops, SameSent
    <2>6. s \notin failed'
      BY <1>7, <2>1 DEF Closed, Drops
    <2>7. Closed(s)'
      BY <1>7, <2>2, <2>5, <2>6 DEF Closed, Lossy, Drops, SameSent
    <2> QED BY <2>7 DEF WaitsInv
  <1> QED BY <1>2, <1>3, <1>4, <1>5, <1>6, <1>7 DEF WaitsInv, Failed, Deleted, Drops

(* The queue is restored from what is left of the item on.  With an error, an *)
(* item of which something was taken stays with that instead.                 *)
Restores(s) ==
    /\ HandOf(s) # <<>> /\ HandOf(s)' = <<>>
    /\ ErrOf(s)' = "none" /\ TakenOf(s)' = <<>>
    /\ WaitsOf(s)' = WaitsOf(s)
    /\ SameSent(s) /\ submitted'[s] = submitted[s]
    /\ s \in short' <=> s \in short
    /\ s \in closed' <=> s \in closed
    /\ s \in deleted' <=> s \in deleted
    /\ \/ /\ ErrOf(s) \in {"again", "other"} /\ LineOf(s)' = HandOf(s)
          /\ returned'[s] = returned[s] /\ (s \in failed' <=> s \in failed)
       \/ /\ ErrOf(s) = "other" /\ Off(s)' /\ s \in failed'
          /\ LineOf(s)' = <<TakenOf(s)>> \o Tail(HandOf(s))
          /\ returned'[s] = Cat(returned[s], HandOf(s)[1])

(* Or restored to the queue.                                                  *)
LEMMA RestoresWaits ==
    ASSUME NEW s, SourceType(s), WaitsInv(s), NEW m, Fresh(submitted[s], m), Restores(s)
    PROVE  WaitsInv(s)'
  <1>1. ErrOf(s) \in {"again", "other"} /\ ~Done(s)
    BY DEF Restores, Done
  <1>2. CASE InHand(s)
    <2> DEFINE b == HandOf(s)[1]
    <2>1. CASE LineOf(s)' = HandOf(s) /\ returned'[s] = returned[s]
               /\ (s \in failed' <=> s \in failed)
      <3>1. InQueue(s)'
        BY <1>2, <2>1 DEF InHand, InQueue, Fine, Done, Restores, SameSent
      <3> QED BY <3>1 DEF WaitsInv
    <2>2. CASE Off(s)' /\ s \in failed' /\ returned'[s] = Cat(returned[s], b)
      <3>1. b \in Seq(Byte) /\ b # <<>> /\ returned[s] = <<>>
        BY <1>2, SingleIs DEF InHand, SourceType, Fine
      <3>2. submitted[s] # <<>> /\ Lacks(sent[s], submitted[s]) /\ Disjoint(b, sent[s])
        <4> DEFINE z == sent[s]
                   t == submitted[s]
        <4>1. z \in Seq(Byte) /\ t = Cat(z, b) /\ Fresh(t, m)
          BY <1>2 DEF InHand, SourceType
        <4> HIDE DEF z, t, b
        <4>2. Cat(z, b) # <<>> /\ Lacks(z, Cat(z, b)) /\ Disjoint(b, z)
          BY <3>1, <4>1, FreshLoss
        <4> QED BY <4>1, <4>2 DEF z, t
      <3>3. returned'[s] = b
        BY <2>2, <3>1, CatEmpty
      <3>4. Failed(s)'
        BY <1>2, <2>2, <3>2, <3>3 DEF InHand, Fine, Failed, Lossy, Restores, SameSent
      <3> QED BY <3>4 DEF WaitsInv
    <2> QED BY <2>1, <2>2 DEF Restores
  <1>3. CASE Short(s)
    <2> DEFINE l == HandOf(s)
               k == TakenOf(s)
               f == Tail(l)
               u == submitted[s]
    <2>1. /\ f \in Seq(Seq(Byte)) /\ Len(l) \in Nat \ {0} /\ Len(f) = Len(l) - 1
          /\ \A i \in 1..(Len(l) - 1) : f[i] = l[i + 1]
      BY TailOf DEF SourceType, Restores
    <2>2. k \in Seq(Byte) /\ Lacks(k, u) /\ \A i \in 1..Len(l) : Lacks(l[i], u)
      BY <1>1, <1>3 DEF Short, SourceType
    <2>3. ASSUME LineOf(s)' = <<k>> \o f, NEW i \in 1..Len(LineOf(s)')
          PROVE  Lacks(LineOf(s)'[i], u)
      <3> HIDE DEF l, k, f, u
      <3>1. /\ Len(<<k>> \o f) = Len(f) + 1 /\ (<<k>> \o f)[1] = k
            /\ \A j \in 1..Len(f) : (<<k>> \o f)[j + 1] = f[j]
        BY <2>1, <2>2, ConsIs
      <3>2. CASE i = 1
        BY <2>2, <2>3, <3>1, <3>2
      <3>3. CASE i # 1
        <4>1. /\ i - 1 \in 1..Len(f) /\ (i - 1) + 1 = i /\ i - 1 \in 1..(Len(l) - 1)
              /\ i \in 1..Len(l)
          BY <2>1, <2>3, <3>1, <3>3
        <4>2. LineOf(s)'[i] = f[i - 1] /\ f[i - 1] = l[i]
          BY <2>1, <2>3, <3>1, <4>1
        <4> QED BY <2>2, <4>1, <4>2
      <3> QED BY <3>2, <3>3
    <2>4. \A i \in 1..Len(LineOf(s)') : Lacks(LineOf(s)'[i], submitted[s])
      BY <2>2, <2>3 DEF Restores
    <2>5. Lacks(<<>>, submitted[s]) /\ Len(<<>>) = 0
      BY EmptyBytes
    <2>7. \A i \in 1..Len(HandOf(s)') : Lacks(HandOf(s)'[i], submitted[s])
      BY <2>5 DEF Restores
    <2>6. Short(s)'
      BY <1>3, <2>4, <2>5, <2>7 DEF Short, Lossy, Done, Restores, SameSent
    <2> QED BY <2>6 DEF WaitsInv
  <1> QED BY <1>1, <1>2, <1>3
       DEF WaitsInv, Quiet, InQueue, Synced, Failed, Closed, Deleted, Restores

(* The same for a client that pipelines whole writes.                         *)
LEMMA WritesWhole ==
    ASSUME NEW s, SourceType(s), WholeInv(s), NEW n, NEW o, Writes(s, n, o), n = 0 \/ o = "ok"
    PROVE  WholeInv(s)'
  <1> DEFINE b == HandOf(s)[1]
             t == Take(b, n)
             r == Rest(b, n)
             f == Tail(HandOf(s))
             u == sent[s]
             c == FlattenSeq(f)
  <1>1. Split(s, n, b, t, r, f)
    BY WriteSplit
  <1>2. /\ LineOf(s) = <<>> /\ LineOf(s)' = <<>> /\ HandOf(s) # <<>>
        /\ u \in Seq(Byte) /\ submitted[s] \in Seq(Byte) /\ submitted'[s] = submitted[s]
        /\ reported[s] = u /\ s \notin short /\ WaitsOf(s)' = {} /\ returned'[s] = <<>>
    BY DEF WholeInv, SourceType, Writes
  <1>3. /\ (n = Len(b) <=> o = "ok")
        /\ (s \in closed /\ b # <<>> => n = 0)
    BY DEF Writes
  <1>4. sent'[s] = Cat(u, t) /\ reported'[s] = Cat(u, t)
    BY <1>1, <1>2 DEF Split
  <1>5. s \notin failed \cup deleted => Begins(u, submitted[s])
    BY DEF WholeInv
  <1>6. s \notin failed \cup closed \cup deleted => submitted[s] = Cat(u, Unsent(s))
    BY DEF WholeInv
  <1> HIDE DEF b, t, r, f, u
  <1>7. /\ b \in Seq(Byte) /\ t \in Seq(Byte) /\ r \in Seq(Byte) /\ f \in Seq(Seq(Byte))
        /\ b = Cat(t, r) /\ HandOf(s) = <<b>> \o f /\ HandOf(s)' = <<r>> \o f
        /\ (n = 0 => t = <<>> /\ r = b) /\ (r = <<>> <=> n = Len(b))
    BY <1>1 DEF Split
  <1>8. c \in Seq(Byte) /\ FlattenSeq(<<b>> \o f) = Cat(b, c) /\ FlattenSeq(<<r>> \o f) = Cat(r, c)
    BY <1>7, FlattenType, FlattenCons
  <1> HIDE DEF c
  <1>9. Unsent(s) = Cat(b, c) /\ Unsent(s)' = Cat(r, c)
    <2>1. Unsent(s) = Cat(Cat(b, c), <<>>) /\ Unsent(s)' = Cat(Cat(r, c), <<>>)
      BY <1>2, <1>7, <1>8, FlattenNone DEF Unsent
    <2>2. Cat(b, c) \in Seq(Byte) /\ Cat(r, c) \in Seq(Byte)
      BY <1>7, <1>8, CatType
    <2> QED BY <2>1, <2>2, CatEmpty
  <1>10. Cat(Cat(u, t), Cat(r, c)) = Cat(u, Cat(b, c))
    <2>1. Cat(Cat(u, t), Cat(r, c)) = Cat(u, Cat(t, Cat(r, c)))
      BY <1>2, <1>7, <1>8, CatType, CatAssoc
    <2>2. Cat(t, Cat(r, c)) = Cat(Cat(t, r), c)
      BY <1>7, <1>8, CatAssoc
    <2> QED BY <1>7, <2>1, <2>2
  <1>11. s \notin failed' \cup closed' \cup deleted' => submitted'[s] = Cat(sent'[s], Unsent(s)')
    BY <1>2, <1>4, <1>6, <1>9, <1>10 DEF Writes
  <1>12. s \notin failed' \cup deleted' => Begins(sent'[s], submitted'[s])
    <2>1. CASE s \in closed \/ o = "closed"
      <3>1. CASE n = 0 \/ b = <<>>
        <4>1. t = <<>>
          <5>1. CASE n = 0
            BY <1>7, <5>1
          <5>2. CASE b = <<>>
            <6>1. n = 0
              BY <5>2, EmptyBytes DEF Writes, b
            <6> QED BY <1>7, <6>1
          <5> QED BY <3>1, <5>1, <5>2
        <4>2. sent'[s] = u
          BY <1>2, <1>4, <4>1, CatEmpty
        <4> QED BY <1>2, <1>5, <4>2 DEF Writes
      <3> QED BY <1>3, <2>1, <3>1
    <2>2. CASE s \notin failed \cup closed \cup deleted
      <3>1. Cat(r, c) \in Seq(Byte) /\ Cat(u, t) \in Seq(Byte)
        BY <1>2, <1>7, <1>8, CatType
      <3>2. Begins(Cat(u, t), Cat(Cat(u, t), Cat(r, c)))
        BY <3>1, BeginsIs
      <3> QED BY <1>2, <1>4, <1>6, <1>9, <1>10, <2>2, <3>2
    <2> QED BY <2>1, <2>2 DEF Writes
  <1> QED BY <1>2, <1>4, <1>11, <1>12 DEF WholeInv, Writes

(* An item of a client that pipelines is done with.                           *)
LEMMA DropsWhole ==
    ASSUME NEW s, SourceType(s), WholeInv(s), Drops(s), returned'[s] = returned[s]
    PROVE  WholeInv(s)'
  <1> DEFINE b == HandOf(s)[1]
             f == Tail(HandOf(s))
             c == FlattenSeq(f)
  <1>1. HandOf(s) \in Seq(Seq(Byte)) /\ HandOf(s) # <<>> /\ LineOf(s) = <<>>
    BY DEF SourceType, WholeInv, Drops
  <1>2. b \in Seq(Byte) /\ f \in Seq(Seq(Byte)) /\ HandOf(s) = <<b>> \o f /\ HandOf(s)' = f
    BY <1>1, TailOf, ConsOf DEF Drops
  <1>3. ErrOf(s) = "ok" => b = <<>>
    BY DEF Drops
  <1>4. ErrOf(s) # "ok" => s \in failed' \cup closed'
    BY DEF Drops
  <1>5. s \notin failed' => s \notin failed
    BY DEF Drops
  <1> HIDE DEF b, f
  <1>6. c \in Seq(Byte) /\ FlattenSeq(<<b>> \o f) = Cat(b, c)
    BY <1>2, FlattenType, FlattenCons
  <1>7. ErrOf(s) = "ok" => Unsent(s)' = Unsent(s)
    <2>1. FlattenSeq(HandOf(s)) = Cat(b, c) /\ FlattenSeq(HandOf(s)') = c
      BY <1>2, <1>6
    <2>2. ErrOf(s) = "ok" => Cat(b, c) = c
      BY <1>3, <1>6, CatEmpty
    <2> HIDE DEF c
    <2> QED BY <1>1, <2>1, <2>2 DEF Unsent, Drops
  <1> QED BY <1>1, <1>4, <1>5, <1>7 DEF WholeInv, Drops, SameSent

(* Or restored, with everything behind it.                                    *)
LEMMA RestoresWhole ==
    ASSUME NEW s, SourceType(s), WholeInv(s), Restores(s), LineOf(s)' = HandOf(s),
           returned'[s] = returned[s], s \in failed' <=> s \in failed
    PROVE  WholeInv(s)'
  <1>1. LineOf(s) = <<>> /\ HandOf(s)' = <<>>
    BY DEF WholeInv, Restores
  <1>2. FlattenSeq(HandOf(s)) \in Seq(Byte)
    BY FlattenType DEF SourceType
  <1>3. Unsent(s)' = Unsent(s)
    BY <1>1, <1>2, CatEmpty, FlattenNone DEF Unsent
  <1> QED BY <1>1, <1>3 DEF WholeInv, Restores, SameSent

-----------------------------------------------------------------------------
(* The buffers of a list of cells.                                            *)
LEMMA BufsIs ==
    ASSUME NEW b \in [Cell -> Seq(Byte)], NEW l \in Seq(Cell)
    PROVE  /\ Bufs(b, l) \in Seq(Seq(Byte)) /\ Len(Bufs(b, l)) = Len(l) /\ Len(l) \in Nat
           /\ \A i \in 1..Len(l) : Bufs(b, l)[i] = b[l[i]]
           /\ Bufs(b, l) = <<>> <=> l = <<>>
  <1>1. Len(l) \in Nat /\ \A i \in 1..Len(l) : l[i] \in Cell
    BY LenProperties, ElementOfSeq
  <1>2. Bufs(b, l) \in [1..Len(l) -> Seq(Byte)] /\ \A i \in 1..Len(l) : Bufs(b, l)[i] = b[l[i]]
    BY <1>1 DEF Bufs
  <1>3. Bufs(b, l) \in Seq(Seq(Byte))
    <2> DEFINE f == Bufs(b, l)
               n == Len(l)
    <2>1. n \in Nat /\ f \in [1..n -> Seq(Byte)]
      BY <1>1, <1>2
    <2> HIDE DEF f, n
    <2>2. f \in Seq(Seq(Byte))
      BY <2>1, SeqDef
    <2> QED BY <2>2 DEF f
  <1>4. Len(Bufs(b, l)) = Len(l)
    BY <1>1, <1>2, <1>3, LenProperties
  <1> QED BY <1>1, <1>2, <1>3, <1>4, EmptySeq

(* The buffers depend on those of the list only.                              *)
LEMMA BufsSame ==
    ASSUME NEW l \in Seq(Cell), NEW b, NEW d, \A c \in Items(l) : d[c] = b[c]
    PROVE  Bufs(d, l) = Bufs(b, l)
  <1>1. \A i \in 1..Len(l) : d[l[i]] = b[l[i]]
    BY DEF Items
  <1> QED BY <1>1 DEF Bufs

(* The buffers of a longer list.                                              *)
LEMMA BufsAppend ==
    ASSUME NEW b \in [Cell -> Seq(Byte)], NEW l \in Seq(Cell), NEW c \in Cell
    PROVE  Bufs(b, Append(l, c)) = Append(Bufs(b, l), b[c])
  <1> DEFINE m == Append(l, c)
             f == Bufs(b, l)
             r == Append(f, b[c])
             t == Bufs(b, m)
  <1>1. m \in Seq(Cell) /\ Len(m) = Len(l) + 1 /\ m[Len(l) + 1] = c
        /\ \A i \in 1..Len(l) : m[i] = l[i]
    BY AppendIs
  <1>2. f \in Seq(Seq(Byte)) /\ Len(f) = Len(l) /\ Len(l) \in Nat
        /\ \A i \in 1..Len(l) : f[i] = b[l[i]]
    BY BufsIs
  <1>3. b[c] \in Seq(Byte)
    OBVIOUS
  <1> HIDE DEF m, f
  <1>4. /\ r \in Seq(Seq(Byte)) /\ Len(r) = Len(f) + 1 /\ r[Len(f) + 1] = b[c]
        /\ \A i \in 1..Len(f) : r[i] = f[i]
    BY <1>2, <1>3, AppendIs
  <1>5. t \in Seq(Seq(Byte)) /\ Len(t) = Len(m) /\ \A i \in 1..Len(m) : t[i] = b[m[i]]
    BY <1>1, BufsIs
  <1> HIDE DEF r, t
  <1>6. ASSUME NEW i \in 1..Len(t) PROVE t[i] = r[i]
    <2>1. i \in 1..Len(m) /\ t[i] = b[m[i]]
      BY <1>5
    <2>2. CASE i = Len(l) + 1
      BY <2>1, <2>2, <1>1, <1>2, <1>4
    <2>3. CASE i # Len(l) + 1
      <3>1. i \in 1..Len(l)
        BY <2>1, <2>3, <1>1, <1>2
      <3>2. m[i] = l[i] /\ r[i] = f[i] /\ f[i] = b[l[i]]
        BY <3>1, <1>1, <1>2, <1>4
      <3> QED BY <2>1, <3>2
    <2> QED BY <2>2, <2>3
  <1>7. t = r
    <2>1. Len(t) = Len(r)
      BY <1>1, <1>2, <1>4, <1>5
    <2>2. t \in Seq(Seq(Byte)) /\ r \in Seq(Seq(Byte))
      BY <1>4, <1>5
    <2>3. \A i \in 1..Len(t) : t[i] = r[i]
      BY <1>6
    <2> HIDE DEF Byte
    <2> QED BY <2>1, <2>2, <2>3, SeqEqual
  <1> QED BY <1>7 DEF t, r, m, f

(* The buffers, from the front.                                               *)
LEMMA BufsCons ==
    ASSUME NEW b \in [Cell -> Seq(Byte)], NEW l \in Seq(Cell), NEW c \in Cell
    PROVE  Bufs(b, <<c>> \o l) = <<b[c]>> \o Bufs(b, l)
  <1> DEFINE m == <<c>> \o l
             f == Bufs(b, l)
             r == <<b[c]>> \o f
             t == Bufs(b, m)
  <1>1. m \in Seq(Cell) /\ Len(m) = Len(l) + 1 /\ m[1] = c
        /\ \A i \in 2..(Len(l) + 1) : i - 1 \in 1..Len(l) /\ m[i] = l[i - 1]
    BY ConsIs
  <1>2. f \in Seq(Seq(Byte)) /\ Len(f) = Len(l) /\ Len(l) \in Nat
        /\ \A i \in 1..Len(l) : f[i] = b[l[i]]
    BY BufsIs
  <1>3. b[c] \in Seq(Byte)
    OBVIOUS
  <1> HIDE DEF m, f
  <1>4. /\ r \in Seq(Seq(Byte)) /\ Len(r) = Len(f) + 1 /\ r[1] = b[c]
        /\ \A i \in 2..(Len(f) + 1) : i - 1 \in 1..Len(f) /\ r[i] = f[i - 1]
    BY <1>2, <1>3, ConsIs
  <1>5. t \in Seq(Seq(Byte)) /\ Len(t) = Len(m) /\ \A i \in 1..Len(m) : t[i] = b[m[i]]
    BY <1>1, BufsIs
  <1> HIDE DEF r, t
  <1>6. ASSUME NEW i \in 1..Len(t) PROVE t[i] = r[i]
    <2>1. CASE i = 1
      BY <2>1, <1>1, <1>2, <1>4, <1>5
    <2>2. CASE i # 1
      <3>1. i \in 2..(Len(l) + 1) /\ i \in 1..Len(m)
        BY <2>2, <1>1, <1>2, <1>5
      <3>2. i - 1 \in 1..Len(l) /\ m[i] = l[i - 1] /\ t[i] = b[m[i]]
        BY <3>1, <1>1, <1>5
      <3>3. r[i] = f[i - 1] /\ f[i - 1] = b[l[i - 1]]
        BY <3>1, <3>2, <1>2, <1>4
      <3> QED BY <3>2, <3>3
    <2> QED BY <2>1, <2>2
  <1>7. t = r
    <2>1. Len(t) = Len(r)
      BY <1>1, <1>2, <1>4, <1>5
    <2>2. t \in Seq(Seq(Byte)) /\ r \in Seq(Seq(Byte))
      BY <1>4, <1>5
    <2>3. \A i \in 1..Len(t) : t[i] = r[i]
      BY <1>6
    <2> HIDE DEF Byte
    <2> QED BY <2>1, <2>2, <2>3, SeqEqual
  <1> QED BY <1>7 DEF t, r, m, f

(* The first buffer and the others.                                           *)
LEMMA BufsHead ==
    ASSUME NEW b \in [Cell -> Seq(Byte)], NEW l \in Seq(Cell), l # <<>>
    PROVE  /\ Bufs(b, l) = <<b[l[1]]>> \o Bufs(b, Tail(l)) /\ Bufs(b, l) # <<>>
           /\ Bufs(b, l)[1] = b[l[1]] /\ Tail(Bufs(b, l)) = Bufs(b, Tail(l))
           /\ l[1] \in Cell /\ b[l[1]] \in Seq(Byte) /\ Tail(l) \in Seq(Cell)
  <1> DEFINE m == Tail(l)
             f == Bufs(b, m)
             x == b[l[1]]
             t == Bufs(b, l)
  <1>1. m \in Seq(Cell) /\ l[1] \in Cell /\ x \in Seq(Byte)
    BY TailOf
  <1>2. l = <<l[1]>> \o m
    BY ConsOf
  <1>3. f \in Seq(Seq(Byte))
    BY <1>1, BufsIs
  <1> HIDE DEF f, m
  <1>4. t = <<x>> \o f
    BY <1>1, <1>2, BufsCons DEF f
  <1> HIDE DEF x, t
  <1>5. t \in Seq(Seq(Byte)) /\ t[1] = x /\ t # <<>> /\ Len(t) = Len(f) + 1 /\ Len(f) \in Nat
        /\ \A i \in 1..Len(f) : t[i + 1] = f[i]
    BY <1>1, <1>3, <1>4, ConsIs
  <1>6. Tail(t) \in Seq(Seq(Byte)) /\ Len(Tail(t)) = Len(t) - 1
        /\ \A i \in 1..(Len(t) - 1) : Tail(t)[i] = t[i + 1]
    BY <1>5, TailOf
  <1>7. Len(Tail(t)) = Len(f) /\ \A i \in 1..Len(f) : Tail(t)[i] = f[i]
    BY <1>5, <1>6
  <1>8. Tail(t) = f
    BY <1>3, <1>6, <1>7, SeqEqual
  <1> QED BY <1>1, <1>4, <1>5, <1>8 DEF f, m, x, t

-----------------------------------------------------------------------------
(* The events that wait.  Posting one, of which there was none of its kind    *)
(* and source.                                                                *)
News(e, W) == \A f \in W : f.kind # e.kind \/ f.src # e.src

(* The events p when e was posted to ev.                                      *)
Posted(ev, ba, e) ==
    /\ <<e>> \o ev \in Seq(Event)
    /\ Items((<<e>> \o ev) \o ba) = {e} \cup Items(ev \o ba)
    /\ Distinct(ev \o ba) /\ News(e, Items(ev \o ba)) => Distinct((<<e>> \o ev) \o ba)

(* gwrl_post_evt of one more event.                                           *)
LEMMA PostIs ==
    ASSUME NEW ev \in Seq(Event), NEW ba \in Seq(Event), NEW e \in Event
    PROVE  Posted(ev, ba, e)
  <1> DEFINE p == ev \o ba
             r == <<e>> \o p
  <1>1. p \in Seq(Event)
    BY ConcatProperties
  <1>2. (<<e>> \o ev) \o ba = r
    <2>1. <<e>> \in Seq(Event)
      OBVIOUS
    <2> QED BY <2>1, ConcatAssociative
  <1>3. <<e>> \o ev \in Seq(Event)
    BY ConsIs
  <1> HIDE DEF p, r
  <1>4. /\ Len(r) = Len(p) + 1 /\ Len(p) \in Nat /\ r[1] = e
        /\ \A i \in 2..(Len(p) + 1) : i - 1 \in 1..Len(p) /\ r[i] = p[i - 1]
        /\ Items(r) = {e} \cup Items(p)
    BY <1>1, ConsIs DEF r
  <1>5. ASSUME Distinct(p), News(e, Items(p)) PROVE Distinct(r)
    <2> SUFFICES ASSUME NEW i \in 1..Len(r), NEW j \in 1..Len(r),
                        r[i].kind = r[j].kind, r[i].src = r[j].src
                 PROVE  i = j
      BY DEF Distinct
    <2>1. \A k \in 1..Len(r) : k # 1 =>
            k - 1 \in 1..Len(p) /\ r[k] = p[k - 1] /\ r[k] \in Items(p)
      <3> TAKE k \in 1..Len(r)
      <3> HAVE k # 1
      <3>1. k \in 2..(Len(p) + 1)
        BY <1>4
      <3>2. k - 1 \in 1..Len(p) /\ r[k] = p[k - 1]
        BY <3>1, <1>4
      <3> QED BY <3>2 DEF Items
    <2>2. CASE i = 1 /\ j # 1
      BY <2>1, <2>2, <1>4, <1>5 DEF News
    <2>3. CASE i # 1 /\ j = 1
      BY <2>1, <2>3, <1>4, <1>5 DEF News
    <2>4. CASE i # 1 /\ j # 1
      <3>1. i - 1 \in 1..Len(p) /\ j - 1 \in 1..Len(p) /\ r[i] = p[i - 1] /\ r[j] = p[j - 1]
        BY <2>1, <2>4
      <3>2. i - 1 = j - 1
        BY <3>1, <1>5 DEF Distinct
      <3> QED BY <3>2, <1>4
    <2> QED BY <2>2, <2>3, <2>4
  <1> QED BY <1>2, <1>3, <1>4, <1>5 DEF Posted, p, r

(* Taking the first of the batch.                                             *)
TookEvent(ev, ba, e) ==
    /\ e \in Event /\ e \in Items(ev \o ba)
    /\ Items(ev \o ba) = {e} \cup Items(ev \o Tail(ba))
    /\ Distinct(ev \o ba) => /\ Distinct(ev \o Tail(ba)) /\ News(e, Items(ev \o Tail(ba)))

(* gwrl_dispatch takes the first event.                                       *)
LEMMA TookIs ==
    ASSUME NEW ev \in Seq(Event), NEW ba \in Seq(Event), ba # <<>>
    PROVE  TookEvent(ev, ba, Head(ba))
  <1> DEFINE p == ev \o ba
             t == Tail(ba)
             r == ev \o t
             n == Len(ev)
             e == ba[1]
  <1>1. /\ t \in Seq(Event) /\ Len(t) = Len(ba) - 1 /\ Len(ba) \in Nat \ {0} /\ e \in Event
        /\ Head(ba) = e /\ \A i \in 1..(Len(ba) - 1) : t[i] = ba[i + 1]
    BY TailOf
  <1> HIDE DEF t, e
  <1>2. /\ Len(p) = n + Len(ba) /\ n \in Nat
        /\ \A i \in 1..n : p[i] = ev[i]
        /\ \A i \in 1..Len(ba) : p[n + i] = ba[i]
    <2>1. Joined(Event, ev, ba, p)
      BY CatIs DEF Cat
    <2> QED BY <2>1 DEF Joined
  <1>3. /\ Len(r) = n + Len(t)
        /\ \A i \in 1..n : r[i] = ev[i]
        /\ \A i \in 1..Len(t) : r[n + i] = t[i]
    <2>1. Joined(Event, ev, t, r)
      BY <1>1, CatIs DEF Cat
    <2> QED BY <2>1 DEF Joined
  <1> HIDE DEF p, r, n
  <1> DEFINE at(i) == IF i =< n THEN i ELSE i + 1
  <1>4. ASSUME NEW i \in 1..Len(r)
        PROVE  at(i) \in 1..Len(p) /\ at(i) # n + 1 /\ r[i] = p[at(i)]
    <2>1. CASE i =< n
      BY <2>1, <1>1, <1>2, <1>3
    <2>2. CASE ~(i =< n)
      <3> DEFINE k == i - n
      <3>1. k \in 1..Len(t) /\ k \in 1..(Len(ba) - 1) /\ i = n + k /\ k + 1 \in 1..Len(ba)
        BY <2>2, <1>1, <1>2, <1>3
      <3>2. r[i] = t[k] /\ t[k] = ba[k + 1] /\ p[n + (k + 1)] = ba[k + 1]
        BY <3>1, <1>1, <1>2, <1>3
      <3>3. at(i) = n + (k + 1) /\ at(i) \in 1..Len(p) /\ at(i) # n + 1
        BY <3>1, <2>2, <1>1, <1>2, <1>3
      <3> QED BY <3>2, <3>3
    <2> QED BY <2>1, <2>2
  <1>5. n + 1 \in 1..Len(p) /\ p[n + 1] = e
    BY <1>1, <1>2 DEF e
  <1>6. ASSUME NEW i \in 1..Len(p), i # n + 1 PROVE \E j \in 1..Len(r) : p[i] = r[j]
    <2>1. CASE i =< n
      <3>1. i \in 1..Len(r) /\ at(i) = i
        BY <2>1, <1>1, <1>2, <1>3
      <3> QED BY <3>1, <1>4
    <2>2. CASE ~(i =< n)
      <3>1. i - 1 \in 1..Len(r) /\ at(i - 1) = i
        BY <2>2, <1>6, <1>1, <1>2, <1>3
      <3> QED BY <3>1, <1>4
    <2> QED BY <2>1, <2>2
  <1>7. Items(p) = {e} \cup Items(r)
    <2>1. Items(p) \subseteq {e} \cup Items(r)
      BY <1>5, <1>6 DEF Items
    <2>2. {e} \cup Items(r) \subseteq Items(p)
      BY <1>4, <1>5 DEF Items
    <2> QED BY <2>1, <2>2
  <1>8. ASSUME Distinct(p) PROVE Distinct(r) /\ News(e, Items(r))
    <2>1. Distinct(r)
      <3> SUFFICES ASSUME NEW i \in 1..Len(r), NEW j \in 1..Len(r),
                          r[i].kind = r[j].kind, r[i].src = r[j].src
                   PROVE  i = j
        BY DEF Distinct
      <3>1. at(i) = at(j)
        BY <1>4, <1>8 DEF Distinct
      <3> QED BY <3>1, <1>2, <1>3, <1>1
    <2>2. News(e, Items(r))
      <3> SUFFICES ASSUME NEW i \in 1..Len(r), r[i].kind = e.kind, r[i].src = e.src
                   PROVE  FALSE
        BY DEF News, Items
      <3>1. at(i) = n + 1
        BY <1>4, <1>5, <1>8 DEF Distinct
      <3> QED BY <3>1, <1>4
    <2> QED BY <2>1, <2>2
  <1> QED BY <1>1, <1>7, <1>8 DEF TookEvent, p, r, t

(* The rest of a list after the first.                                        *)
LEMMA TailCons ==
    ASSUME NEW S, NEW f \in Seq(S), NEW x \in S
    PROVE  Tail(<<x>> \o f) = f
  <1> DEFINE t == <<x>> \o f
  <1>1. /\ t \in Seq(S) /\ t # <<>> /\ Len(t) = Len(f) + 1 /\ Len(f) \in Nat
        /\ \A i \in 1..Len(f) : t[i + 1] = f[i]
    BY ConsIs
  <1> HIDE DEF t
  <1>2. Tail(t) \in Seq(S) /\ Len(Tail(t)) = Len(t) - 1
        /\ \A i \in 1..(Len(t) - 1) : Tail(t)[i] = t[i + 1]
    BY <1>1, TailOf
  <1>3. Len(Tail(t)) = Len(f) /\ \A i \in 1..Len(f) : Tail(t)[i] = f[i]
    BY <1>1, <1>2
  <1>4. Tail(t) = f
    BY <1>2, <1>3, SeqEqual
  <1> QED BY <1>4 DEF t

-----------------------------------------------------------------------------
(* What is assumed of clients that write before their last write is reported  *)
(* whole: they use one source, their writes are queued and not partial, they  *)
(* do not write in a callback, and no more often than the cache has room for  *)
(* cells.  With other such clients wrqlast may be left in a cell that is not  *)
(* in the queue.                                                              *)
Careful ==
    \A c \in Clients : c.pipelined =>
        /\ \A s, t \in c.src : s = t
        /\ ~c.partial /\ c.sync = {FALSE} /\ ~c.inCallback /\ c.writes =< c.cache

(* The state before a step, while the proactor is not freed; the cells that   *)
(* are in no list.                                                            *)
Live == TypeOK /\ FreshInv /\ LiveInv /\ PolledInv /\ Careful /\ pc # "freed"
Others == Loose \cup leaked

(* What ClientAssumption and Careful say of the client of the run.            *)
LEMMA ClientIs ==
    ASSUME TypeOK
    PROVE  /\ client \in Clients /\ client.len \in Nat \ {0} /\ client.cache \in Nat
           /\ client.writes \in Nat /\ client.src \subseteq Src /\ nwrites \in Nat
           /\ Careful /\ client.pipelined =>
                /\ \A s, t \in client.src : s = t
                /\ ~client.partial /\ client.sync = {FALSE} /\ ~client.inCallback
                /\ client.writes =< client.cache
  <1>1. client \in Clients /\ nwrites \in 0..client.writes
    BY DEF TypeOK
  <1>2. /\ client.src \subseteq Src /\ client.len \in Nat \ {0} /\ client.writes \in Nat
        /\ client.cache \in Nat
    BY <1>1, ClientAssumption
  <1>3. nwrites \in Nat
    BY <1>1, <1>2
  <1> QED BY <1>1, <1>2, <1>3 DEF Careful

(* NULL is no cell.                                                           *)
LEMMA NoneIsNotCell == NULL \notin Cell
  BY NullAssumption, BoundAssumption DEF Cell

(* What the invariant says of the heap.                                       *)
LEMMA HeapIs ==
    ASSUME TypeOK, CellsInv
    PROVE  /\ Accounted(h, First, Lists, Others)
           /\ HeapType(h) /\ h.fault = FALSE /\ Lists \in [Place -> Seq(Cell)]
           /\ Cached \in Place /\ Active \in Place /\ \A s \in Src : QueueOf(s) \in Place
           /\ h.buf \in [Cell -> Seq(Byte)]
           /\ \A p \in Place : Lists[p] \in Seq(Cell)
                               /\ \A c \in Items(Lists[p]) : c \in Cell /\ c \notin Others
  <1>1. Accounted(h, First, Lists, Others)
    BY DEF CellsInv, Others
  <1>2. /\ HeapType(h) /\ h.fault = FALSE /\ Lists \in [Place -> Seq(Cell)]
        /\ CellsIn(Lists) \cap Others = {}
        /\ \A p \in Place : Items(Lists[p]) \subseteq Cell
            /\ Items(Lists[p]) \subseteq CellsIn(Lists)
    BY <1>1, AccountedHas
  <1>3. h.buf \in [Cell -> Seq(Byte)]
    BY <1>2 DEF HeapType
  <1>4. \A p \in Place : Lists[p] \in Seq(Cell)
    BY <1>2
  <1> QED BY <1>1, <1>2, <1>3, <1>4, Places

(* Outside the loop nothing is being written.                                 *)
LEMMA IdleHand ==
    ASSUME TypeOK, CellsInv, ~Looping
    PROVE  /\ First = NULL /\ Lists[Active] = <<>> /\ ~Taken
           /\ \A s \in Src : HandOf(s) = <<>> /\ ErrOf(s) = "none" /\ TakenOf(s) = <<>>
  <1>1. First = NULL /\ ~Taken
    BY DEF First, Looping, Taken
  <1>2. Lists[Active] = <<>>
    BY <1>1, HeapIs, HeadCells
  <1>3. Hand = <<>>
    <2>1. Hand = Bufs(h.buf, <<>>)
      BY <1>1, <1>2 DEF Hand
    <2>2. <<>> \in Seq(Cell)
      OBVIOUS
    <2> QED BY <2>1, <2>2, HeapIs, BufsIs
  <1> QED BY <1>1, <1>2, <1>3 DEF HandOf, ErrOf, TakenOf

(* The cell that is being written, and what remains of it and behind it.      *)
Item == IF Taken THEN Rem ELSE h.buf[q]
Behind == Bufs(h.buf, Tail(Lists[Active]))
(* What is being written, from its cell.                                      *)
LEMMA LoopHand ==
    ASSUME TypeOK, CellsInv, TakenInv, Looping, q # NULL
    PROVE  /\ First = q /\ q \in Cell /\ Lists[Active] # <<>> /\ q = Lists[Active][1]
           /\ q \in Items(Lists[Active]) /\ q \notin Others
           /\ \A p \in Place : q \in Items(Lists[p]) => p = Active
           /\ h.buf[q] \in Seq(Byte) /\ Tail(Lists[Active]) \in Seq(Cell)
           /\ Behind \in Seq(Seq(Byte)) /\ Item \in Seq(Byte)
           /\ Hand = <<Item>> \o Behind /\ Hand \in Seq(Seq(Byte)) /\ Hand # <<>>
           /\ HandOf(act) = Hand /\ Hand[1] = Item /\ Tail(Hand) = Behind
           /\ ~Taken => Hand = Bufs(h.buf, Lists[Active])
  <1>1. First = q
    BY DEF First
  <1>2. q \in Cell /\ Lists[Active] # <<>> /\ q = Lists[Active][1] /\ q \in Items(Lists[Active])
    BY <1>1, HeapIs, HeadCells
  <1>3. q \notin Others /\ \A p \in Place : q \in Items(Lists[p]) => p = Active
    <2>1. q \notin Others
      BY <1>2, HeapIs
    <2>2. \A p \in Place : p # Active => Items(Lists[p]) \cap Items(Lists[Active]) = {}
      BY HeapIs, AccountedHas
    <2> QED BY <1>2, <2>1, <2>2
  <1>4. /\ Bufs(h.buf, Lists[Active]) = <<h.buf[q]>> \o Behind
        /\ h.buf[q] \in Seq(Byte) /\ Tail(Lists[Active]) \in Seq(Cell)
    BY <1>2, HeapIs, BufsHead DEF Behind
  <1>5. Behind \in Seq(Seq(Byte))
    BY <1>4, HeapIs, BufsIs DEF Behind
  <1>6. Item \in Seq(Byte)
    <2>1. CASE Taken
      <3>1. written \in 0..Len(h.buf[q])
        BY <2>1 DEF TakenInv
      <3> QED BY <2>1, <3>1, <1>4, TakeRest DEF Item, Rem
    <2> QED BY <2>1, <1>4 DEF Item
  <1>7. Hand = <<Item>> \o Behind /\ (~Taken => Hand = Bufs(h.buf, Lists[Active]))
    BY <1>4 DEF Hand, Item, Behind
  <1>8. Hand \in Seq(Seq(Byte)) /\ Hand # <<>> /\ Hand[1] = Item /\ Tail(Hand) = Behind
    <2> DEFINE x == Item
               f == Behind
    <2>1. x \in Seq(Byte) /\ f \in Seq(Seq(Byte))
      BY <1>5, <1>6
    <2> HIDE DEF x, f
    <2>2. <<x>> \o f \in Seq(Seq(Byte)) /\ <<x>> \o f # <<>> /\ (<<x>> \o f)[1] = x
      BY <2>1, ConsIs
    <2>3. Tail(<<x>> \o f) = f
      BY <2>1, <2>2, TailCons
    <2> QED BY <2>2, <2>3, <1>7 DEF x, f
  <1>9. HandOf(act) = Hand
    BY DEF HandOf
  <1> QED BY <1>1, <1>2, <1>3, <1>4, <1>5, <1>6, <1>7, <1>8, <1>9

(* The values that describe a source.                                         *)
LEMMA SourceTypes ==
    ASSUME TypeOK, CellsInv, TakenInv, EventsInv, NEW s \in Src
    PROVE  SourceType(s)
  <1>1. Hand \in Seq(Seq(Byte))
    <2>1. CASE Looping /\ q # NULL
      BY <2>1, LoopHand
    <2>2. CASE ~Looping
      <3>1. HandOf(act) = <<>> /\ HandOf(act) = Hand
        <4>1. act \in Src
          BY DEF TypeOK
        <4> QED BY <2>2, <4>1, IdleHand DEF HandOf
      <3>2. Hand = <<>>
        BY <3>1
      <3> QED BY <3>2, EmptySeq
    <2>3. CASE Looping /\ q = NULL
      <3>1. ~Taken
        BY <2>3 DEF TakenInv
      <3>2. Hand = Bufs(h.buf, Lists[Active])
        BY <3>1 DEF Hand
      <3> QED BY <3>2, HeapIs, BufsIs
    <2> QED BY <2>1, <2>2, <2>3
  <1>2. HandOf(s) \in Seq(Seq(Byte))
    BY <1>1 DEF HandOf
  <1>3. LineOf(s) \in Seq(Seq(Byte))
    BY HeapIs, BufsIs DEF LineOf
  <1>4. WaitsOf(s) \subseteq Seq(Byte)
    BY HeapIs DEF WaitsOf, EventsInv, HasCell
  <1>5. TakenOf(s) \in Seq(Byte)
    <2>1. CASE act = s /\ Taken
      <3>1. Looping /\ q # NULL /\ written \in 0..Len(h.buf[q])
        BY <2>1 DEF TakenInv, Looping, Taken
      <3>2. h.buf[q] \in Seq(Byte)
        BY <3>1, LoopHand
      <3> QED BY <2>1, <3>1, <3>2, TakeRest DEF TakenOf
    <2> QED BY <2>1 DEF TakenOf
  <1>6. /\ sent[s] \in Seq(Byte) /\ reported[s] \in Seq(Byte)
        /\ submitted[s] \in Seq(Byte) /\ returned[s] \in Seq(Byte)
    BY DEF TypeOK
  <1> QED BY <1>2, <1>3, <1>4, <1>5, <1>6 DEF SourceType

(* The lists after a step.                                                    *)
LEMMA Relist ==
    ASSUME NEW M, Accounted(h', First', M, Others'), Loose' \cap leaked' = {}, client' = client
    PROVE  Lists' = M /\ CellsInv'
  <1>1. [p \in Place |-> Chain(h'.next, Firsts(h', First')[p])] = M
    BY ListsAre
  <1>2. Lists' = M
    BY <1>1 DEF Lists
  <1>3. Accounted(h, First, Lists, Loose \cup leaked)'
    BY <1>2 DEF Accounted, Others
  <1> QED BY <1>2, <1>3 DEF CellsInv

(* The type of the state after a step.                                        *)
LEMMA HeapTypeOK ==
    ASSUME CellsInv', client' = client
    PROVE  /\ h'.next \in [Cell -> Ptr] /\ h'.buf \in [Cell -> Seq(Byte)] /\ h'.alloc \subseteq Cell
           /\ h'.wrq \in [Src -> Ptr] /\ h'.wrqlast \in [Src -> Ptr]
           /\ h'.cache \in Ptr /\ h'.ncache \in 0..client'.cache /\ h'.fault \in BOOLEAN
           /\ h'.fault = FALSE
  <1>1. Accounted(h', First', Lists', Others')
    BY DEF CellsInv, Accounted, Others
  <1>2. /\ HeapType(h') /\ h'.fault = FALSE /\ h'.ncache = Len(Lists'[Cached])
        /\ h'.ncache =< client.cache /\ client.cache \in Nat
        /\ \A p \in Place : Lists'[p] \in Seq(Cell)
    BY <1>1, AccountedHas
  <1>3. Len(Lists'[Cached]) \in Nat
    <2>1. Lists'[Cached] \in Seq(Cell)
      BY <1>2, Places
    <2> QED BY <2>1, LenProperties
  <1>4. h'.ncache \in 0..client'.cache
    BY <1>2, <1>3
  <1> QED BY <1>2, <1>4 DEF HeapType

(* The step is about another source.                                          *)
SameBufs(s) == \A c \in Items(Lists[QueueOf(s)]) \cup EventCells : h'.buf[c] = h.buf[c]
SyncOf(s) == {f \in Waiting : f.kind = "SYNC_WRITE" /\ f.src = s}
SameQueue(s) == Lists'[QueueOf(s)] = Lists[QueueOf(s)]
SameBytes(s) ==
    /\ SameSent(s) /\ submitted'[s] = submitted[s] /\ returned'[s] = returned[s] /\ SameFlags(s)

(* The buffers in a queue stay.                                               *)
LEMMA LineSame ==
    ASSUME TypeOK, CellsInv, NEW s \in Src, SameQueue(s), SameBufs(s)
    PROVE  LineOf(s)' = LineOf(s)
  <1>1. Bufs(h'.buf, Lists[QueueOf(s)]) = Bufs(h.buf, Lists[QueueOf(s)])
    BY HeapIs, BufsSame DEF SameBufs
  <1> QED BY <1>1 DEF LineOf, SameQueue

(* So do those of synchronous events.                                         *)
LEMMA WaitsSame ==
    ASSUME NEW s, SyncOf(s)' = SyncOf(s), SameBufs(s)
    PROVE  WaitsOf(s)' = WaitsOf(s)
  <1>1. WaitsOf(s) = {h.buf[e.cell] : e \in SyncOf(s)}
    BY DEF WaitsOf, SyncOf
  <1>2. WaitsOf(s)' = {h'.buf[e.cell] : e \in SyncOf(s)'}
    BY DEF WaitsOf, SyncOf
  <1>3. \A e \in SyncOf(s) : h'.buf[e.cell] = h.buf[e.cell]
    BY DEF SyncOf, SameBufs, EventCells, HasCell
  <1> QED BY <1>1, <1>2, <1>3

(* The step is about another source if these stay.                            *)
LEMMA StaysIf ==
    ASSUME TypeOK, CellsInv, NEW s \in Src, SameHand(s), SameQueue(s), SameBufs(s),
           SyncOf(s)' = SyncOf(s), OffStays(s), SameBytes(s)
    PROVE  Stays(s)
  BY LineSame, WaitsSame DEF Stays, SameBytes

(* The part of a queue that is being written stays.                           *)
LEMMA HandSame ==
    ASSUME TypeOK, CellsInv, TakenInv, NEW s \in Src,
           UNCHANGED <<pc, act, q, written, errnm>>, Lists'[Active] = Lists[Active],
           \A c \in Items(Lists[Active]) : h'.buf[c] = h.buf[c]
    PROVE  SameHand(s)
  <1>1. Taken' = Taken
    BY DEF Taken
  <1>2. Taken => h'.buf[q] = h.buf[q]
    <2>1. Taken => Looping /\ q # NULL
      BY DEF Taken, Looping, TakenInv
    <2> QED BY <2>1, LoopHand
  <1>3. Bufs(h'.buf, Lists[Active]) = Bufs(h.buf, Lists[Active])
    BY HeapIs, BufsSame
  <1>4. Taken => Bufs(h'.buf, Tail(Lists[Active])) = Bufs(h.buf, Tail(Lists[Active]))
    <2> SUFFICES ASSUME Taken
                 PROVE  Bufs(h'.buf, Tail(Lists[Active])) = Bufs(h.buf, Tail(Lists[Active]))
      OBVIOUS
    <2>1. Looping /\ q # NULL
      BY DEF Taken, Looping, TakenInv
    <2>2. Lists[Active] # <<>> /\ Lists[Active] \in Seq(Cell)
      BY <2>1, LoopHand, HeapIs
    <2>3. Tail(Lists[Active]) \in Seq(Cell)
          /\ Items(Tail(Lists[Active])) \subseteq Items(Lists[Active])
      BY <2>2, TailOf
    <2> QED BY <2>3, BufsSame
  <1>5. Hand' = Hand
    BY <1>1, <1>2, <1>3, <1>4 DEF Hand, Rem
  <1>6. HandOf(s)' = HandOf(s) /\ ErrOf(s)' = ErrOf(s)
    BY <1>1, <1>5 DEF HandOf, ErrOf
  <1>7. TakenOf(s)' = TakenOf(s)
    BY <1>1, <1>2 DEF TakenOf
  <1> QED BY <1>6, <1>7 DEF SameHand

(* One source is acted on, and the others stay.                               *)
SourceOk(s) == IF client.pipelined THEN WholeInv(s) ELSE WaitsInv(s)
(* One source changes, and keeps its invariant.                               *)
LEMMA OneSource ==
    ASSUME SourceInv, NEW s, SourceOk(s)', \A t \in Src : t # s => Stays(t), client' = client
    PROVE  SourceInv'
  <1> SUFFICES ASSUME NEW t \in Src PROVE SourceOk(t)'
    BY DEF SourceInv, SourceOk
  <1>1. CASE t # s
    <2>1. SourceOk(t) /\ Stays(t)
      BY <1>1 DEF SourceInv, SourceOk
    <2> QED BY <2>1, StaysWaits, StaysWhole DEF SourceOk
  <1> QED BY <1>1

(* None changes.                                                              *)
LEMMA NoSource ==
    ASSUME SourceInv, \A t \in Src : Stays(t), client' = client
    PROVE  SourceInv'
  <1> SUFFICES ASSUME NEW t \in Src PROVE SourceOk(t)'
    BY DEF SourceInv, SourceOk
  <1>1. SourceOk(t) /\ Stays(t)
    BY DEF SourceInv, SourceOk
  <1> QED BY <1>1, StaysWaits, StaysWhole DEF SourceOk

(* wrqlast of a client that waits, and of one that pipelines, when it and the *)
(* lists stay.                                                                *)
LEMMA LastWaits ==
    ASSUME LastInv, ~client.pipelined, client' = client,
           short \subseteq short', deleted \subseteq deleted',
           \A s \in Src : h'.wrqlast[s] = h.wrqlast[s] \/ s \in short' \cup deleted'
    PROVE  LastInv' /\ PipeInv'
  BY DEF LastInv, TailInv, PipeInv

(* No cell is put in a queue.                                                 *)
LEMMA LastStays ==
    ASSUME LastInv, PipeInv, client' = client, nwrites' = nwrites, client.src \subseteq Src,
           short \subseteq short', deleted \subseteq deleted', h'.wrqlast = h.wrqlast,
           Lists'[Cached] = Lists[Cached], \A s \in Src : Line(s)' = Line(s),
           ~client.pipelined \/ pc' # "synccb"
    PROVE  LastInv' /\ PipeInv'
  <1>1. LastInv'
    BY DEF LastInv, TailInv
  <1>2. PipeInv'
    BY DEF PipeInv
  <1> QED BY <1>1, <1>2

(* The link of the first item.                                                *)
LEMMA ActiveNext ==
    ASSUME NEW g, NEW a, NEW L, NEW O, Accounted(g, a, L, O), a # NULL
    PROVE  g.next[a] = IF Len(L[Active]) = 1 THEN NULL ELSE L[Active][2]
  <1> DEFINE l == L[Active]
  <1>1. a = l[1] /\ l # <<>> /\ l \in Seq(Cell) /\ IsChain(g.next, Firsts(g, a)[Active], l)
        /\ g.next \in [Cell -> Ptr] /\ a \in Cell
    <2>1. a = l[1] /\ l # <<>> /\ a \in Cell
      BY HeadCells
    <2>2. Active \in Place
      BY Places
    <2>3. /\ HeapType(g) /\ \A p \in Place : L[p] \in Seq(Cell)
          /\ \A p \in Place : IsChain(g.next, Firsts(g, a)[p], L[p])
      BY AccountedHas
    <2>4. l \in Seq(Cell) /\ IsChain(g.next, Firsts(g, a)[Active], l)
      BY <2>2, <2>3
    <2>5. g.next \in [Cell -> Ptr]
      BY <2>3 DEF HeapType
    <2> QED BY <2>1, <2>4, <2>5
  <1> HIDE DEF l
  <1>2. DOMAIN g.next = Cell /\ Len(l) \in Nat /\ Len(l) # 0
    BY <1>1, TailOf
  <1>3. CASE Len(l) = 1
    <2>1. g.next[l[Len(l)]] \notin Cell
      BY <1>1, <1>2 DEF IsChain
    <2> QED BY <2>1, <1>1, <1>3 DEF Ptr, l
  <1>4. CASE Len(l) # 1
    <2>1. 1 \in 1..(Len(l) - 1)
      <3> DEFINE n == Len(l)
      <3>1. n \in Nat /\ n # 0 /\ n # 1
        BY <1>2, <1>4
      <3> HIDE DEF n
      <3>2. 1 \in 1..(n - 1)
        BY <3>1
      <3> QED BY <3>2 DEF n
    <2>2. g.next[l[1]] = l[1 + 1]
      BY <2>1, <1>1 DEF IsChain
    <2> QED BY <2>2, <1>1, <1>4 DEF l
  <1> QED BY <1>3, <1>4

-----------------------------------------------------------------------------
(* The actions.  What most of them have in common.                            *)
LEMMA EventsSame ==
    ASSUME EventsInv, events' = events, batch' = batch, short \subseteq short',
           pc' = "synccb" => pc = "synccb" /\ q' = q
    PROVE  /\ Waiting' = Waiting /\ EventCells' = EventCells /\ EventsInv'
           /\ \A s : SyncOf(s)' = SyncOf(s)
  <1>1. Pending' = Pending
    BY DEF Pending
  <1>2. Waiting' = Waiting
    BY <1>1 DEF Waiting
  <1>3. EventCells' = EventCells /\ \A s : SyncOf(s)' = SyncOf(s)
    BY <1>2 DEF EventCells, SyncOf
  <1>4. EventsInv'
    BY <1>1, <1>2 DEF EventsInv
  <1> QED BY <1>2, <1>3, <1>4

(* The first of the batch is called.                                          *)
Calls(e) ==
    /\ e \in Event /\ e \in Waiting /\ Waiting' = Waiting \ {e}
    /\ Distinct(Pending)' /\ batch' \in Seq(Event)
    /\ \A f \in Waiting : f.kind = e.kind /\ f.src = e.src => f = e
    /\ ~HasCell(e) => EventCells' = EventCells
    /\ HasCell(e) => e.cell \in EventCells /\ EventCells' = EventCells \ {e.cell}
    /\ \A s : e.kind # "SYNC_WRITE" \/ s # e.src => SyncOf(s)' = SyncOf(s)

(* The event is of its kind, the only one, and waits no more.                 *)
LEMMA CallIs ==
    ASSUME TypeOK, EventsInv, batch # <<>>, batch' = Tail(batch), events' = events
    PROVE  Calls(Head(batch))
  <1> DEFINE e == Head(batch)
  <1>1. TookEvent(events, batch, e)
    BY TookIs DEF TypeOK
  <1>2. Pending' = events \o Tail(batch)
    BY DEF Pending
  <1> HIDE DEF e
  <1>3. /\ e \in Event /\ e \in Waiting /\ Waiting = {e} \cup Waiting' /\ Distinct(Pending)'
        /\ News(e, Waiting')
    BY <1>1, <1>2 DEF TookEvent, Waiting, Pending, EventsInv
  <1>4. Waiting' = Waiting \ {e} /\ \A f \in Waiting : f.kind = e.kind /\ f.src = e.src => f = e
    BY <1>3 DEF News
  <1>5. ~HasCell(e) => EventCells' = EventCells
    BY <1>4 DEF EventCells, HasCell
  <1>6. HasCell(e) => e.cell \in EventCells /\ EventCells' = EventCells \ {e.cell}
    <2> SUFFICES ASSUME HasCell(e)
                 PROVE  e.cell \in EventCells /\ EventCells' = EventCells \ {e.cell}
      OBVIOUS
    <2>1. e.cell \in EventCells
      BY <1>3 DEF EventCells
    <2>2. \A f \in Waiting : HasCell(f) /\ f.cell = e.cell => f = e
      BY <1>3 DEF EventsInv
    <2>3. EventCells' = {f.cell : f \in {g \in Waiting : g # e /\ HasCell(g)}}
      BY <1>4 DEF EventCells, HasCell
    <2>4. EventCells' \subseteq EventCells \ {e.cell}
      BY <2>2, <2>3 DEF EventCells
    <2>5. EventCells \ {e.cell} \subseteq EventCells'
      BY <2>3 DEF EventCells
    <2> QED BY <2>1, <2>4, <2>5
  <1>7. \A s : e.kind # "SYNC_WRITE" \/ s # e.src => SyncOf(s)' = SyncOf(s)
    BY <1>4 DEF SyncOf
  <1>8. batch' \in Seq(Event)
    BY TailOf DEF TypeOK
  <1> QED BY <1>3, <1>4, <1>5, <1>6, <1>7, <1>8 DEF Calls, e

(* The other events keep their cells.                                         *)
LEMMA CallEvents ==
    ASSUME EventsInv, NEW e, Calls(e), short \subseteq short',
           pc' # "synccb" \/ (HasCell(e) /\ q' = e.cell)
    PROVE  EventsInv'
  <1>1. \A f \in Waiting' : f \in Waiting /\ f # e
    BY DEF Calls
  <1>2. Distinct(Pending)' /\ e \in Waiting
    BY DEF Calls
  <1>3. \A f \in Waiting' :
          /\ HasCell(f) => f.cell \in Cell /\ (pc' = "synccb" => f.cell # q')
          /\ f.kind \in {"SYNC_CLOSE", "SYNC_ERROR"} => f.src \in short'
    BY <1>1, <1>2 DEF EventsInv
  <1>4. \A f, g \in Waiting' : HasCell(f) /\ HasCell(g) /\ f.cell = g.cell => f = g
    BY <1>1 DEF EventsInv
  <1> QED BY <1>2, <1>3, <1>4 DEF EventsInv, HasCell

(* The heap stays as it is.                                                   *)
LEMMA HeapStays ==
    ASSUME TypeOK, CellsInv, h' = h, First' = First, Others' = Others,
           Loose' \cap leaked' = {}, client' = client
    PROVE  Lists' = Lists /\ CellsInv'
  <1>1. Accounted(h', First', Lists, Others')
    BY HeapIs
  <1> QED BY <1>1, Relist

(* Nothing is submitted.                                                      *)
LEMMA FreshSame ==
    ASSUME FreshInv, submitted' = submitted, nwrites' = nwrites
    PROVE  FreshInv'
  BY DEF FreshInv, Fresh

(* The parts of the invariant after a step.                                   *)
LEMMA LiveWrite ==
    ASSUME TypeOK', FreshInv', CellsInv', EventsInv', TakenInv', LengthInv', LastInv', PipeInv',
           SourceInv', pc' # "freed"
    PROVE  WriteInv'
  BY DEF WriteInv, LiveInv

(* And before it.                                                             *)
LEMMA LiveHas ==
    ASSUME Live
    PROVE  /\ TypeOK /\ FreshInv /\ CellsInv /\ EventsInv /\ TakenInv /\ LengthInv
           /\ LastInv /\ PipeInv /\ SourceInv /\ PolledInv /\ Careful /\ pc # "freed"
  BY DEF Live, LiveInv

(* The dispatch of a batch, and writability.                                  *)
LEMMA LiveNextBatch ==
    ASSUME Live, NextBatch PROVE WriteInv'
  <1> USE LiveHas
  <1>1. Pending' = Pending
    <2>1. events \in Seq(Event) /\ batch = <<>> /\ batch' = events /\ events' = <<>>
      BY DEF NextBatch, TypeOK
    <2>2. <<>> \o events = events /\ events \o <<>> = events
      BY <2>1, ConcatEmptySeq
    <2> QED BY <2>1, <2>2 DEF Pending
  <1>2. /\ h' = h /\ client' = client /\ First' = First /\ pc' = pc /\ pc = "idle" /\ pc' # "synccb"
        /\ UNCHANGED <<q, act, written, errnm, stopwrite, wr, leaked, submitted, nwrites>>
        /\ short' = short /\ deleted' = deleted
    BY DEF NextBatch, actVars, histVars, clientVars, failVars, First, Looping
  <1>3. Waiting' = Waiting
    BY <1>1 DEF Waiting
  <1>4. EventCells' = EventCells /\ \A s : SyncOf(s)' = SyncOf(s)
    BY <1>3 DEF EventCells, SyncOf
  <1>5. Loose' = Loose /\ Others' = Others
    BY <1>2, <1>4 DEF Loose, Others
  <1>6. Lists' = Lists /\ CellsInv'
    BY <1>2, <1>5, HeapStays DEF CellsInv
  <1>7. EventsInv'
    BY <1>1, <1>2, <1>3 DEF EventsInv
  <1>8. TakenInv' /\ LengthInv'
    BY <1>2 DEF TakenInv, LengthInv, Taken, NextBatch, clientVars
  <1>9. \A s \in Src : Stays(s)
    <2> TAKE s \in Src
    <2>1. SameHand(s)
      BY <1>2, <1>6, HandSame
    <2>2. SameQueue(s) /\ SameBufs(s) /\ OffStays(s)
      BY <1>2, <1>6 DEF SameQueue, SameBufs, OffStays, Off
    <2>3. SameBytes(s)
      BY DEF SameBytes, SameSent, SameFlags, NextBatch, histVars, failVars, clientVars
    <2> QED BY <2>1, <2>2, <2>3, <1>4, StaysIf
  <1>10. SourceInv'
    BY <1>2, <1>9, NoSource
  <1>11. LastInv' /\ PipeInv'
    <2>1. \A s \in Src : Line(s)' = Line(s)
      BY <1>2, <1>6 DEF Line
    <2> QED BY <1>2, <1>6, <2>1, ClientIs, LastStays
  <1>12. TypeOK'
    <2>1. events' \in Seq(Event) /\ batch' \in Seq(Event)
      BY DEF NextBatch, TypeOK
    <2> QED BY <2>1 DEF NextBatch, TypeOK, actVars, histVars, failVars, clientVars
  <1>13. FreshInv'
    BY <1>2, FreshSame
  <1> QED BY <1>2, <1>6, <1>7, <1>8, <1>10, <1>11, <1>12, <1>13, LiveWrite

(* An event is posted, to which a cell may belong.                            *)
LEMMA PostEvents ==
    ASSUME TypeOK, EventsInv, NEW e \in Event, events' = <<e>> \o events, batch' = batch,
           News(e, Waiting)
    PROVE  /\ events' \in Seq(Event) /\ Waiting' = Waiting \cup {e} /\ Distinct(Pending)'
           /\ ~HasCell(e) => EventCells' = EventCells
           /\ HasCell(e) => EventCells' = EventCells \cup {e.cell}
           /\ \A s : e.kind # "SYNC_WRITE" \/ e.src # s => SyncOf(s)' = SyncOf(s)
           /\ e.kind = "SYNC_WRITE" => SyncOf(e.src)' = SyncOf(e.src) \cup {e}
  <1>1. Posted(events, batch, e)
    BY PostIs DEF TypeOK
  <1>2. Pending' = (<<e>> \o events) \o batch
    BY DEF Pending
  <1>3. events' \in Seq(Event) /\ Waiting' = Waiting \cup {e} /\ Distinct(Pending)'
    BY <1>1, <1>2 DEF Posted, Waiting, Pending, EventsInv
  <1>4. ~HasCell(e) => EventCells' = EventCells
    BY <1>3 DEF EventCells, HasCell
  <1>5. HasCell(e) => EventCells' = EventCells \cup {e.cell}
    BY <1>3 DEF EventCells, HasCell
  <1>6. \A s : e.kind # "SYNC_WRITE" \/ e.src # s => SyncOf(s)' = SyncOf(s)
    BY <1>3 DEF SyncOf
  <1>7. e.kind = "SYNC_WRITE" => SyncOf(e.src)' = SyncOf(e.src) \cup {e}
    BY <1>3 DEF SyncOf
  <1> QED BY <1>3, <1>4, <1>5, <1>6, <1>7

(* The fields of an event of gwpr_write.                                      *)
LEMMA EvtHas ==
    ASSUME NEW k, NEW s, NEW c, NEW r
    PROVE  /\ Evt(k, s, c, r).kind = k /\ Evt(k, s, c, r).src = s
           /\ Evt(k, s, c, r).cell = c /\ Evt(k, s, c, r).rest = r
  BY DEF Evt

(* And its type.                                                              *)
LEMMA EvtType ==
    ASSUME NEW k \in Kinds, NEW s \in Src, NEW c \in Ptr, NEW r \in Seq(Byte)
    PROVE  Evt(k, s, c, r) \in Event
  BY DEF Evt, Event

(* epoll, poll or select found the source writable.                           *)
LEMMA LiveWritable ==
    ASSUME Live, NEW x \in Src, Writable(x) PROVE WriteInv'
  <1> USE LiveHas
  <1> DEFINE e == Evt("WR", x, NULL, <<>>)
  <1>1. e \in Event /\ e.kind = "WR" /\ e.src = x /\ ~HasCell(e)
    <2>1. <<>> \in Seq(Byte) /\ "WR" \in Kinds /\ NULL \in Ptr
      BY DEF Kinds, Ptr
    <2>2. e.kind = "WR" /\ e.src = x
      BY EvtHas
    <2>3. e \in Event
      BY <2>1, EvtType
    <2> QED BY <2>2, <2>3 DEF HasCell
  <1>2. events' = <<e>> \o events /\ batch' = batch
    BY DEF Writable
  <1>3. News(e, Waiting)
    <2>1. Pending = events
      <3>1. events \in Seq(Event) /\ batch = <<>>
        BY DEF Writable, TypeOK
      <3> QED BY <3>1, ConcatEmptySeq DEF Pending
    <2> QED BY <2>1, <1>1 DEF Writable, News, Waiting, Items
  <1> HIDE DEF e
  <1>4. /\ events' \in Seq(Event) /\ Waiting' = Waiting \cup {e} /\ Distinct(Pending)'
        /\ EventCells' = EventCells /\ \A s : SyncOf(s)' = SyncOf(s)
    BY <1>1, <1>2, <1>3, PostEvents
  <1>5. /\ h' = h /\ client' = client /\ First' = First /\ pc' = pc /\ pc = "idle" /\ pc' # "synccb"
        /\ UNCHANGED <<q, act, written, errnm, stopwrite, wr, leaked, submitted, nwrites>>
        /\ short' = short /\ deleted' = deleted
    BY DEF Writable, actVars, histVars, clientVars, failVars, First, Looping
  <1>6. Loose' = Loose /\ Others' = Others
    BY <1>5, <1>4 DEF Loose, Others
  <1>7. Lists' = Lists /\ CellsInv'
    BY <1>5, <1>6, HeapStays DEF CellsInv
  <1>8. EventsInv'
    BY <1>1, <1>4, <1>5 DEF EventsInv, HasCell
  <1>9. TakenInv' /\ LengthInv'
    BY <1>5 DEF TakenInv, LengthInv, Taken, Writable, clientVars
  <1>10. \A s \in Src : Stays(s)
    <2> TAKE s \in Src
    <2>1. SameHand(s)
      BY <1>5, <1>7, HandSame
    <2>2. SameQueue(s) /\ SameBufs(s) /\ OffStays(s)
      BY <1>5, <1>7 DEF SameQueue, SameBufs, OffStays, Off
    <2>3. SameBytes(s)
      BY DEF SameBytes, SameSent, SameFlags, Writable, histVars, failVars, clientVars
    <2> QED BY <2>1, <2>2, <2>3, <1>4, StaysIf
  <1>11. SourceInv'
    BY <1>5, <1>10, NoSource
  <1>12. LastInv' /\ PipeInv'
    <2>1. \A s \in Src : Line(s)' = Line(s)
      BY <1>5, <1>7 DEF Line
    <2> QED BY <1>5, <1>7, <2>1, ClientIs, LastStays
  <1>13. TypeOK'
    BY <1>4 DEF Writable, TypeOK, actVars, histVars, failVars, clientVars
  <1>14. FreshInv'
    BY <1>5, FreshSame
  <1> QED BY <1>5, <1>7, <1>8, <1>9, <1>11, <1>12, <1>13, <1>14, LiveWrite

(* The callbacks of synchronous writes that were closed, or failed.           *)
LEMMA LiveSyncClose ==
    ASSUME Live, ActivitySyncClose PROVE WriteInv'
  <1> USE LiveHas
  <1> PICK e : e = Head(batch)
    OBVIOUS
  <1>1. Calls(e) /\ e.kind = "SYNC_CLOSE"
    BY CallIs DEF ActivitySyncClose, Called
  <1>2. leaked' = leaked \cup {e.cell}
    BY DEF ActivitySyncClose
  <1>3. /\ h' = h /\ client' = client /\ First' = First /\ pc' = pc /\ pc = "idle" /\ pc' # "synccb"
        /\ UNCHANGED <<q, act, written, errnm, stopwrite, wr, submitted, nwrites>>
        /\ short' = short /\ deleted' = deleted
    BY DEF ActivitySyncClose, Called, actVars, histVars, clientVars, failVars, First, Looping
  <1>4. HasCell(e) /\ e.cell \in EventCells /\ EventCells' = EventCells \ {e.cell}
        /\ \A s : SyncOf(s)' = SyncOf(s)
    BY <1>1 DEF Calls, HasCell
  <1>5. Others' = Others /\ Loose' \cap leaked' = {}
    BY <1>2, <1>3, <1>4 DEF Loose, Others, CellsInv
  <1>6. Lists' = Lists /\ CellsInv'
    BY <1>3, <1>5, HeapStays
  <1>7. EventsInv'
    BY <1>1, <1>3, CallEvents
  <1>8. TakenInv' /\ LengthInv'
    BY <1>3 DEF TakenInv, LengthInv, Taken
  <1>9. \A s \in Src : Stays(s)
    <2> TAKE s \in Src
    <2>1. SameHand(s)
      BY <1>3, <1>6, HandSame
    <2>2. SameQueue(s) /\ SameBufs(s) /\ OffStays(s)
      BY <1>3, <1>6 DEF SameQueue, SameBufs, OffStays, Off
    <2>3. SameBytes(s)
      BY DEF SameBytes, SameSent, SameFlags, ActivitySyncClose, failVars, clientVars
    <2> QED BY <2>1, <2>2, <2>3, <1>4, StaysIf
  <1>10. SourceInv'
    BY <1>3, <1>9, NoSource
  <1>11. LastInv' /\ PipeInv'
    <2>1. \A s \in Src : Line(s)' = Line(s)
      BY <1>3, <1>6 DEF Line
    <2> QED BY <1>3, <1>6, <2>1, ClientIs, LastStays
  <1>12. TypeOK'
    <2>1. e.cell \in Cell
      BY <1>1, <1>4 DEF Calls, EventsInv
    <2> QED BY <1>1, <1>2, <2>1
        DEF Calls, ActivitySyncClose, TypeOK, actVars, failVars, clientVars
  <1>13. FreshInv'
    BY <1>3, FreshSame
  <1> QED BY <1>3, <1>6, <1>7, <1>8, <1>10, <1>11, <1>12, <1>13, LiveWrite

(* The error callback of a synchronous write.                                 *)
LEMMA LiveSyncError ==
    ASSUME Live, ActivitySyncError PROVE WriteInv'
  <1> USE LiveHas
  <1> PICK e : e = Head(batch)
    OBVIOUS
  <1>1. Calls(e) /\ e.kind = "SYNC_ERROR"
    BY CallIs DEF ActivitySyncError, Called
  <1>2. returned' \in {returned, [returned EXCEPT ![e.src] = @ \o e.rest]}
    BY DEF ActivitySyncError
  <1>3. /\ h' = h /\ client' = client /\ First' = First /\ pc' = pc /\ pc = "idle" /\ pc' # "synccb"
        /\ UNCHANGED <<q, act, written, errnm, stopwrite, wr, submitted, nwrites, leaked>>
        /\ short' = short /\ deleted' = deleted
    BY DEF ActivitySyncError, Called, actVars, histVars, clientVars, failVars, First, Looping
  <1>4. ~HasCell(e) /\ EventCells' = EventCells /\ \A s : SyncOf(s)' = SyncOf(s)
    BY <1>1 DEF Calls, HasCell
  <1>5. Loose' = Loose /\ Others' = Others
    BY <1>3, <1>4 DEF Loose, Others
  <1>6. Lists' = Lists /\ CellsInv'
    BY <1>3, <1>5, HeapStays DEF CellsInv
  <1>7. EventsInv'
    BY <1>1, <1>3, CallEvents
  <1>8. TakenInv' /\ LengthInv'
    BY <1>3 DEF TakenInv, LengthInv, Taken, ActivitySyncError
  <1>9. ASSUME NEW s \in Src
        PROVE  /\ SameHand(s) /\ SameQueue(s) /\ SameBufs(s) /\ OffStays(s)
               /\ SameSent(s) /\ submitted'[s] = submitted[s] /\ SameFlags(s)
    <2>1. SameHand(s)
      BY <1>3, <1>6, HandSame
    <2>2. SameQueue(s) /\ SameBufs(s) /\ OffStays(s)
      BY <1>3, <1>6 DEF SameQueue, SameBufs, OffStays, Off
    <2>3. SameSent(s) /\ submitted'[s] = submitted[s] /\ SameFlags(s)
      BY DEF SameSent, SameFlags, ActivitySyncError, failVars, clientVars
    <2> QED BY <2>1, <2>2, <2>3
  <1>10. e.src \in Src /\ e.rest \in Seq(Byte) /\ e.src \in short
    BY <1>1 DEF Calls, Event, EventsInv
  <1>11. \A s \in Src : s # e.src => Stays(s)
    <2> TAKE s \in Src
    <2> HAVE s # e.src
    <2>1. returned'[s] = returned[s]
      BY <1>2, <1>10 DEF TypeOK
    <2> QED BY <2>1, <1>4, <1>9, StaysIf DEF SameBytes
  <1> PICK x : x = e.src
    OBVIOUS
  <1>12. SourceOk(x)'
    <2>1. ~WholeInv(x) /\ x \in Src
      BY <1>10 DEF WholeInv
    <2>2. ~client.pipelined /\ WaitsInv(x)
      BY <2>1 DEF SourceInv
    <2>3. LineOf(x)' = LineOf(x) /\ WaitsOf(x)' = WaitsOf(x)
      BY <2>1, <1>4, <1>9, LineSame, WaitsSame
    <2>4. Returns(x)
      BY <2>1, <2>3, <1>9, <1>10 DEF Returns
    <2> QED BY <2>2, <2>4, <1>3, ReturnsWaits DEF SourceOk
  <1>13. SourceInv'
    BY <1>3, <1>11, <1>12, OneSource
  <1>14. LastInv' /\ PipeInv'
    <2>1. \A s \in Src : Line(s)' = Line(s)
      BY <1>3, <1>6 DEF Line
    <2> QED BY <1>3, <1>6, <2>1, ClientIs, LastStays
  <1>15. TypeOK'
    <2>1. returned' \in [Src -> Seq(Byte)]
      <3>1. returned \in [Src -> Seq(Byte)] /\ returned[e.src] \in Seq(Byte)
        BY <1>10 DEF TypeOK
      <3>2. returned[e.src] \o e.rest \in Seq(Byte)
        BY <3>1, <1>10, ConcatProperties
      <3> QED BY <3>1, <3>2, <1>2, <1>10
    <2> QED BY <1>1, <2>1
        DEF Calls, ActivitySyncError, TypeOK, actVars, failVars, clientVars
  <1>16. FreshInv'
    BY <1>3, FreshSame
  <1> QED BY <1>3, <1>6, <1>7, <1>8, <1>13, <1>14, <1>15, <1>16, LiveWrite

(* Nothing is being written after the step.                                   *)
LEMMA BufsNone == ASSUME NEW b PROVE Bufs(b, <<>>) = <<>>
  <1>1. Bufs(b, <<>>) \in [1..0 -> {}] /\ Len(<<>>) = 0
    BY DEF Bufs
  <1>2. Bufs(b, <<>>) \in Seq({})
    BY <1>1, SeqDef
  <1>3. Len(Bufs(b, <<>>)) = 0
    BY <1>1, <1>2, LenProperties
  <1> QED BY <1>2, <1>3, EmptySeq

(* Nothing is being written after the step.                                   *)
LEMMA NoHand ==
    ASSUME NEW s, ~Looping', Lists'[Active] = <<>>
    PROVE  HandOf(s)' = <<>> /\ ErrOf(s)' = "none" /\ TakenOf(s)' = <<>>
  <1>1. ~Taken'
    BY DEF Taken, Looping
  <1>2. Hand' = <<>>
    BY <1>1, BufsNone DEF Hand
  <1> QED BY <1>1, <1>2 DEF HandOf, ErrOf, TakenOf

(* Nor was before.                                                            *)
LEMMA IdleSame ==
    ASSUME TypeOK, CellsInv, ~Looping, ~Looping', Lists'[Active] = <<>>, NEW s \in Src
    PROVE  SameHand(s)
  BY IdleHand, NoHand DEF SameHand

(* did_write is called for a synchronous write.                               *)
LEMMA LiveSyncWrite ==
    ASSUME Live, ActivitySyncWrite PROVE WriteInv'
  <1> USE LiveHas
  <1> PICK e : e = Head(batch)
    OBVIOUS
  <1> PICK x : x = e.src
    OBVIOUS
  <1>1. Calls(e) /\ e.kind = "SYNC_WRITE"
    BY CallIs DEF ActivitySyncWrite, Called
  <1>2. /\ pc = "idle" /\ pc' = "synccb" /\ act' = x /\ q' = e.cell
        /\ reported' = [reported EXCEPT ![x] = @ \o h.buf[e.cell]]
    BY DEF ActivitySyncWrite, Called
  <1>3. /\ h' = h /\ client' = client /\ First' = First /\ ~Looping /\ ~Looping'
        /\ UNCHANGED <<written, errnm, stopwrite, wr, submitted, nwrites, leaked>>
        /\ short' = short /\ deleted' = deleted
    BY <1>2 DEF ActivitySyncWrite, clientVars, failVars, First, Looping
  <1>4. /\ HasCell(e) /\ e.cell \in EventCells /\ EventCells' = EventCells \ {e.cell}
        /\ \A s : s # x => SyncOf(s)' = SyncOf(s)
    BY <1>1 DEF Calls, HasCell
  <1>5. x \in Src /\ e \in Waiting /\ e.cell \in Cell
    BY <1>1, <1>4 DEF Calls, Event, EventsInv
  <1>6. Loose' = Loose /\ Others' = Others
    BY <1>2, <1>3, <1>4 DEF Loose, Others
  <1>7. Lists' = Lists /\ CellsInv'
    BY <1>3, <1>6, HeapStays DEF CellsInv
  <1>8. EventsInv'
    BY <1>1, <1>2, <1>3, <1>4, CallEvents
  <1>9. TakenInv' /\ LengthInv'
    BY <1>2, <1>3, <1>5 DEF TakenInv, LengthInv, Taken
  <1>10. ASSUME NEW s \in Src
         PROVE  /\ SameHand(s) /\ SameQueue(s) /\ SameBufs(s) /\ OffStays(s)
                /\ sent'[s] = sent[s] /\ submitted'[s] = submitted[s]
                /\ returned'[s] = returned[s] /\ SameFlags(s)
    <2>1. SameHand(s)
      BY <1>3, <1>7, IdleHand, IdleSame
    <2>2. SameQueue(s) /\ SameBufs(s) /\ OffStays(s)
      BY <1>2, <1>3, <1>7 DEF SameQueue, SameBufs, OffStays, Off
    <2>3. /\ sent'[s] = sent[s] /\ submitted'[s] = submitted[s]
          /\ returned'[s] = returned[s] /\ SameFlags(s)
      BY DEF SameFlags, ActivitySyncWrite, failVars, clientVars
    <2> QED BY <2>1, <2>2, <2>3
  <1>11. \A s \in Src : s # x => Stays(s)
    <2> TAKE s \in Src
    <2> HAVE s # x
    <2>1. SameBytes(s)
      BY <1>2, <1>5, <1>10 DEF TypeOK, SameBytes, SameSent
    <2> QED BY <2>1, <1>4, <1>10, StaysIf
  <1>12. ~client.pipelined /\ WaitsInv(x)
    <2>1. WaitsOf(x) # {}
      BY <1>1, <1>5 DEF WaitsOf
    <2> QED BY <2>1, <1>5 DEF SourceInv, WholeInv
  <1> PICK b : b = h.buf[e.cell]
    OBVIOUS
  <1>13. WaitsInv(x)'
    <2>1. SyncOf(x) = {e}
      BY <1>1, <1>5 DEF SyncOf, Calls
    <2>2. WaitsOf(x) = {b}
      BY <2>1 DEF WaitsOf, SyncOf
    <2>3. SyncOf(x)' = {}
      BY <1>1, <2>1 DEF SyncOf, Calls
    <2>4. WaitsOf(x)' = {}
      BY <2>3 DEF WaitsOf, SyncOf
    <2>5. reported'[x] = Cat(reported[x], b)
      BY <1>2, <1>5 DEF TypeOK, Cat
    <2>6. LineOf(x)' = LineOf(x)
      BY <1>5, <1>10, LineSame
    <2>7. Reports(x, b)
      BY <2>2, <2>4, <2>5, <2>6, <1>5, <1>10 DEF Reports
    <2> QED BY <2>7, <1>5, <1>12, SourceTypes, ReportsWaits
  <1>14. SourceInv'
    <2>1. SourceOk(x)'
      BY <1>3, <1>12, <1>13 DEF SourceOk
    <2> QED BY <2>1, <1>3, <1>11, OneSource
  <1>15. LastInv' /\ PipeInv'
    BY <1>3, <1>12, LastWaits
  <1>16. TypeOK'
    <2>1. reported' \in [Src -> Seq(Byte)]
      <3>1. reported \in [Src -> Seq(Byte)] /\ reported[x] \in Seq(Byte)
            /\ h.buf[e.cell] \in Seq(Byte)
        BY <1>5, HeapIs DEF TypeOK
      <3>2. reported[x] \o h.buf[e.cell] \in Seq(Byte)
        BY <3>1, ConcatProperties
      <3> QED BY <3>1, <3>2, <1>2, <1>5
    <2>2. pc' \in PCs /\ q' \in Ptr /\ act' \in Src
      BY <1>2, <1>5 DEF PCs, Ptr
    <2> QED BY <1>1, <2>1, <2>2
        DEF Calls, ActivitySyncWrite, TypeOK, failVars, clientVars
  <1>17. FreshInv'
    BY <1>3, FreshSame
  <1> QED BY <1>2, <1>7, <1>8, <1>9, <1>14, <1>15, <1>16, <1>17, LiveWrite

(* The loop over the queue ends, and then the activity.                       *)
LEMMA LiveLoopEnd ==
    ASSUME Live, LoopEnd PROVE WriteInv'
  <1> USE LiveHas
  <1>1. /\ pc = "item" /\ q = NULL /\ pc' = "end"
        /\ h' = h /\ client' = client /\ short' = short /\ deleted' = deleted
        /\ UNCHANGED <<wr, events, batch, act, q, written, errnm, stopwrite, submitted, nwrites,
                       leaked>>
    BY DEF LoopEnd, histVars, clientVars, failVars
  <1>2. First' = NULL /\ First = NULL /\ ~Looping' /\ ~Taken
    BY <1>1 DEF First, Looping, Taken
  <1>3. Waiting' = Waiting /\ EventCells' = EventCells /\ EventsInv'
        /\ \A s : SyncOf(s)' = SyncOf(s)
    BY <1>1, EventsSame
  <1>4. Loose' = Loose /\ Others' = Others
    BY <1>1, <1>3 DEF Loose, Others
  <1>5. Lists' = Lists /\ CellsInv'
    BY <1>1, <1>2, <1>4, HeapStays DEF CellsInv
  <1>6. Lists[Active] = <<>>
    BY <1>2, HeapIs, HeadCells
  <1>7. TakenInv' /\ LengthInv'
    BY <1>1 DEF TakenInv, LengthInv, Taken
  <1>8. \A s \in Src : Stays(s)
    <2> TAKE s \in Src
    <2>1. HandOf(s) = <<>> /\ ErrOf(s) = "none" /\ TakenOf(s) = <<>>
      BY <1>2, <1>6, BufsNone DEF HandOf, Hand, ErrOf, TakenOf
    <2>2. SameHand(s)
      BY <2>1, <1>2, <1>5, <1>6, NoHand DEF SameHand
    <2>3. SameQueue(s) /\ SameBufs(s) /\ OffStays(s)
      BY <1>1, <1>5 DEF SameQueue, SameBufs, OffStays, Off
    <2>4. SameBytes(s)
      BY DEF SameBytes, SameSent, SameFlags, LoopEnd, histVars, failVars, clientVars
    <2> QED BY <2>2, <2>3, <2>4, <1>3, StaysIf
  <1>9. SourceInv'
    BY <1>1, <1>8, NoSource
  <1>10. LastInv' /\ PipeInv'
    <2>1. \A s \in Src : Line(s)' = Line(s)
      BY <1>1, <1>5 DEF Line
    <2> QED BY <1>1, <1>5, <2>1, ClientIs, LastStays
  <1>11. TypeOK'
    BY DEF LoopEnd, TypeOK, PCs, histVars, failVars, clientVars
  <1>12. FreshInv'
    BY <1>1, FreshSame
  <1> QED BY <1>1, <1>5, <1>3, <1>7, <1>9, <1>10, <1>11, <1>12, LiveWrite

(* The source is polled on if something is queued.                            *)
LEMMA LiveActivityEnd ==
    ASSUME Live, ActivityEnd PROVE WriteInv'
  <1> USE LiveHas
  <1>1. /\ pc = "end" /\ pc' = "idle" /\ q' = NULL
        /\ h' = h /\ client' = client /\ short' = short /\ deleted' = deleted
        /\ wr' = IF h.wrq[act] = NULL \/ stopwrite THEN wr \ {act} ELSE wr
        /\ UNCHANGED <<events, batch, act, submitted, nwrites, leaked>>
    BY DEF ActivityEnd, clientVars, failVars
  <1>2. First' = First /\ ~Looping' /\ ~Looping
    BY <1>1 DEF First, Looping
  <1>3. Waiting' = Waiting /\ EventCells' = EventCells /\ EventsInv'
        /\ \A s : SyncOf(s)' = SyncOf(s)
    BY <1>1, EventsSame
  <1>4. Loose' = Loose /\ Others' = Others
    BY <1>1, <1>3 DEF Loose, Others
  <1>5. Lists' = Lists /\ CellsInv'
    BY <1>1, <1>2, <1>4, HeapStays DEF CellsInv
  <1>6. Lists[Active] = <<>>
    BY <1>2, IdleHand
  <1>7. TakenInv' /\ LengthInv'
    BY <1>1 DEF TakenInv, LengthInv, Taken
  <1>8. \A s \in Src : Stays(s)
    <2> TAKE s \in Src
    <2>1. SameHand(s)
      BY <1>2, <1>5, <1>6, IdleSame
    <2>2. SameQueue(s) /\ SameBufs(s)
      BY <1>1, <1>5 DEF SameQueue, SameBufs
    <2>3. OffStays(s)
      BY <1>1 DEF OffStays, Off
    <2>4. SameBytes(s)
      BY DEF SameBytes, SameSent, SameFlags, ActivityEnd, failVars, clientVars
    <2> QED BY <2>1, <2>2, <2>3, <2>4, <1>3, StaysIf
  <1>9. SourceInv'
    BY <1>1, <1>8, NoSource
  <1>10. LastInv' /\ PipeInv'
    <2>1. \A s \in Src : Line(s)' = Line(s)
      BY <1>1, <1>5 DEF Line
    <2> QED BY <1>1, <1>5, <2>1, ClientIs, LastStays
  <1>11. TypeOK'
    <2>1. 0 \in 0..client.len /\ NULL \in Ptr /\ "idle" \in PCs
      BY ClientIs DEF Ptr, PCs
    <2> QED BY <2>1 DEF ActivityEnd, TypeOK, failVars, clientVars
  <1>12. FreshInv'
    BY <1>1, FreshSame
  <1> QED BY <1>1, <1>5, <1>3, <1>7, <1>9, <1>10, <1>11, <1>12, LiveWrite

(* The part of the type invariant that is about the heap.                     *)
HeapOK(g, c) ==
    /\ g.next \in [Cell -> Ptr] /\ g.buf \in [Cell -> Seq(Byte)] /\ g.alloc \subseteq Cell
    /\ g.wrq \in [Src -> Ptr] /\ g.wrqlast \in [Src -> Ptr]
    /\ g.cache \in Ptr /\ g.ncache \in 0..c.cache /\ g.fault \in BOOLEAN

(* The cell of a synchronous write is released after did_write.               *)
LEMMA FreedIs ==
    ASSUME NEW g, NEW L \in [Place -> Seq(Cell)], NEW c \in Cell
    PROVE  /\ \A p \in Place : p # Cached => Freed(g, L, c)[p] = L[p]
           /\ g.ncache = client.cache => Freed(g, L, c)[Cached] = L[Cached]
           /\ g.ncache # client.cache => Freed(g, L, c)[Cached] = <<c>> \o L[Cached]
  BY Places DEF Freed

(* gwprwrq_free clears the buffer of a cell it keeps.                         *)
LEMMA FreeBuf ==
    ASSUME NEW g, HeapType(g), NEW c \in Cell
    PROVE  gwprwrq_free(g, c).buf \in {g.buf, [g.buf EXCEPT ![c] = <<>>]}
  BY DEF gwprwrq_free, HeapType, HeapFields

(* Which makes no buffer longer.                                              *)
LEMMA FreeLength ==
    ASSUME LengthInv, HeapType(h), NEW c \in Cell, h'.buf = gwprwrq_free(h, c).buf,
           client' = client,
           client.len \in Nat
    PROVE  LengthInv'
  <1> SUFFICES ASSUME NEW d \in Cell PROVE Len(h'.buf[d]) =< client.len
    BY DEF LengthInv
  <1>1. h.buf \in [Cell -> Seq(Byte)] /\ Len(h.buf[d]) =< client.len
    BY DEF LengthInv, HeapType
  <1>2. h'.buf[d] = h.buf[d] \/ h'.buf[d] = <<>>
    <2>1. h'.buf = h.buf \/ h'.buf = [h.buf EXCEPT ![c] = <<>>]
      BY FreeBuf
    <2> QED BY <1>1, <2>1
  <1> QED BY <1>1, <1>2, EmptyBytes

(* The cell of a synchronous write is freed after did_write.                  *)
LEMMA LiveSyncWriteEnd ==
    ASSUME Live, SyncWriteEnd PROVE WriteInv'
  <1> USE LiveHas
  <1> PICK c : c = q
    OBVIOUS
  <1>1. /\ pc = "synccb" /\ pc' = "idle" /\ q' = NULL /\ h' = gwprwrq_free(h, c)
        /\ client' = client /\ short' = short /\ deleted' = deleted
        /\ UNCHANGED <<wr, events, batch, act, written, errnm, stopwrite, submitted, nwrites,
                       leaked>>
    BY DEF SyncWriteEnd, histVars, clientVars, failVars
  <1>2. First' = First /\ ~Looping' /\ ~Looping
    BY <1>1 DEF First, Looping
  <1>3. Waiting' = Waiting /\ EventCells' = EventCells /\ EventsInv'
        /\ \A s : SyncOf(s)' = SyncOf(s)
    BY <1>1, EventsSame
  <1>4. c \in Cell /\ c \in Others /\ c \notin EventCells /\ Others' = Others \ {c}
        /\ Loose' \cap leaked' = {}
    <2>1. c \in Cell /\ c \in Loose /\ c \notin EventCells
      BY <1>1 DEF TakenInv, Loose, EventsInv, EventCells
    <2>2. Loose' = EventCells /\ Loose = EventCells \cup {c}
      BY <1>1, <1>3 DEF Loose
    <2> QED BY <2>1, <2>2, <1>1 DEF Others, CellsInv
  <1> DEFINE M == Freed(h, Lists, c)
  <1>5. Frees(h, First, Lists, Others, c, h')
    BY <1>1, <1>4, HeapIs, FreeAccounted
  <1>6. Lists' = M /\ CellsInv'
    BY <1>1, <1>2, <1>4, <1>5, Relist DEF Frees
  <1>7. \A p \in Place : p # Cached => Lists'[p] = Lists[p]
    <2>1. Lists \in [Place -> Seq(Cell)]
      BY HeapIs
    <2>3. c \in Cell
      BY <1>4
    <2>2. \A p \in Place : p # Cached => Freed(h, Lists, c)[p] = Lists[p]
      BY <2>1, <2>3, FreedIs
    <2> QED BY <1>6, <2>2
  <1> HIDE DEF M
  <1>8. /\ Lists'[Active] = Lists[Active]
        /\ \A s \in Src : Lists'[QueueOf(s)] = Lists[QueueOf(s)]
    BY <1>7, Places
  <1>9. TakenInv'
    BY <1>1 DEF TakenInv, Taken
  <1>10. LengthInv'
    BY <1>1, <1>4, HeapIs, ClientIs, FreeLength
  <1>11. \A s \in Src : Stays(s)
    <2> TAKE s \in Src
    <2>1. SameHand(s)
      BY <1>2, <1>8, IdleHand, IdleSame
    <2>2. SameQueue(s) /\ OffStays(s)
      BY <1>1, <1>8 DEF SameQueue, OffStays, Off
    <2>3. SameBufs(s)
      <3>1. c \notin Items(Lists[QueueOf(s)])
        BY <1>4, HeapIs
      <3>2. \A d \in Items(Lists[QueueOf(s)]) \cup EventCells : d \in Cell /\ d # c
        BY <3>1, <1>4, HeapIs DEF EventCells, EventsInv
      <3> QED BY <3>2, <1>5 DEF SameBufs, Frees
    <2>4. SameBytes(s)
      BY DEF SameBytes, SameSent, SameFlags, SyncWriteEnd, histVars, failVars, clientVars
    <2> QED BY <2>1, <2>2, <2>3, <2>4, <1>3, StaysIf
  <1>12. SourceInv'
    BY <1>1, <1>11, NoSource
  <1>13. LastInv' /\ PipeInv'
    <2>1. ~client.pipelined
      BY <1>1 DEF PipeInv
    <2> QED BY <1>1, <1>5, <2>1, LastWaits DEF Frees
  <1>14. TypeOK'
    <2>1. NULL \in Ptr /\ "idle" \in PCs
      BY DEF Ptr, PCs
    <2> QED BY <1>1, <1>6, <2>1, HeapTypeOK DEF SyncWriteEnd, TypeOK, histVars, failVars, clientVars
  <1>15. FreshInv'
    BY <1>1, FreshSame
  <1> QED BY <1>1, <1>6, <1>3, <1>9, <1>10, <1>12, <1>13, <1>14, <1>15, LiveWrite

(* gwpr_src_activity takes the queue of a source that is polled.              *)
LEMMA LiveActivityWrite ==
    ASSUME Live, ActivityWrite PROVE WriteInv'
  <1> USE LiveHas
  <1> PICK e : e = Head(batch)
    OBVIOUS
  <1> PICK x : x = e.src
    OBVIOUS
  <1>1. Calls(e) /\ e.kind = "WR"
    BY CallIs DEF ActivityWrite, Called
  <1>2. x \in Src /\ x \in wr
    <2>1. x \in Src
      BY <1>1 DEF Calls, Event
    <2>2. IsList(batch) /\ batch # <<>> /\ WRPolled(batch, wr) /\ IsWR(Head(batch))
      BY <1>1 DEF PolledInv, ShapeInv, EventInv, ActivityWrite, Called, IsWR
    <2> QED BY <2>1, <2>2, HeadIsOnly
  <1>3. /\ pc = "idle" /\ pc' = "item" /\ act' = x /\ q' = h.wrq[x]
        /\ h' = [h EXCEPT !.wrq[x] = NULL]
        /\ client' = client /\ short' = short /\ deleted' = deleted
        /\ UNCHANGED <<wr, submitted, nwrites, leaked>>
    BY DEF ActivityWrite, Called, histVars, clientVars, failVars
  <1>4. First = NULL /\ First' = h.wrq[x] /\ ~Looping
    BY <1>3 DEF First, Looping
  <1>5. EventCells' = EventCells /\ \A s : SyncOf(s)' = SyncOf(s)
    BY <1>1 DEF Calls, HasCell
  <1>6. Loose' = Loose /\ Others' = Others
    BY <1>3, <1>5 DEF Loose, Others
  <1> DEFINE M == [Lists EXCEPT ![QueueOf(x)] = <<>>, ![Active] = Lists[QueueOf(x)]]
  <1>7. TakesQueue(h, Lists, Others, x, h')
    BY <1>2, <1>3, <1>4, HeapIs, TakeQueue
  <1>8. Lists' = M /\ CellsInv'
    BY <1>3, <1>4, <1>6, <1>7, Relist DEF TakesQueue, CellsInv
  <1>9. /\ Lists'[Active] = Lists[QueueOf(x)] /\ Lists'[QueueOf(x)] = <<>>
        /\ Lists'[Cached] = Lists[Cached]
        /\ \A s \in Src : s # x => Lists'[QueueOf(s)] = Lists[QueueOf(s)]
    BY <1>2, <1>8, HeapIs, Places
  <1> HIDE DEF M
  <1>10. h'.buf = h.buf /\ h'.wrqlast = h.wrqlast
    BY <1>7 DEF TakesQueue, Kept
  <1>11. EventsInv'
    BY <1>1, <1>3, CallEvents
  <1>12. TakenInv' /\ LengthInv'
    BY <1>3, <1>10 DEF TakenInv, LengthInv, Taken
  <1>13. Lists[Active] = <<>> /\ \A s \in Src : HandOf(s) = <<>> /\ ErrOf(s) = "none"
         /\ TakenOf(s) = <<>>
    BY <1>4, IdleHand
  <1>14. ~Taken' /\ Hand' = LineOf(x)
    <2>1. ~Taken'
      BY <1>3 DEF Taken
    <2> QED BY <2>1, <1>9, <1>10 DEF Hand, LineOf
  <1>15. ASSUME NEW s \in Src PROVE SameBytes(s) /\ SameBufs(s) /\ OffStays(s)
    <2>1. SameBytes(s)
      BY DEF SameBytes, SameSent, SameFlags, ActivityWrite, histVars, failVars, clientVars
    <2>2. SameBufs(s) /\ OffStays(s)
      BY <1>3, <1>10 DEF SameBufs, OffStays, Off
    <2> QED BY <2>1, <2>2
  <1>16. \A s \in Src : s # x => Stays(s)
    <2> TAKE s \in Src
    <2> HAVE s # x
    <2>1. SameHand(s)
      BY <1>3, <1>13, <1>14 DEF SameHand, HandOf, ErrOf, TakenOf
    <2>2. SameQueue(s)
      BY <1>9 DEF SameQueue
    <2> QED BY <2>1, <2>2, <1>5, <1>15, StaysIf
  <1>17. Takes(x)
    <2>1. HandOf(x)' = LineOf(x) /\ ErrOf(x)' = "none" /\ TakenOf(x)' = <<>>
      BY <1>3, <1>14 DEF HandOf, ErrOf, TakenOf
    <2>2. LineOf(x)' = <<>>
      BY <1>9, BufsNone DEF LineOf
    <2>3. WaitsOf(x)' = WaitsOf(x)
      BY <1>2, <1>5, <1>15, WaitsSame
    <2>4. ~Off(x)
      BY <1>2, <1>3 DEF Off
    <2> QED BY <1>2, <1>13, <1>15, <2>1, <2>2, <2>3, <2>4 DEF Takes, SameBytes
  <1>18. SourceInv'
    <2>1. SourceOk(x)
      BY <1>2 DEF SourceInv, SourceOk
    <2>2. SourceOk(x)'
      BY <2>1, <1>2, <1>3, <1>17, SourceTypes, TakesWaits, TakesWhole DEF SourceOk
    <2> QED BY <2>2, <1>3, <1>16, OneSource
  <1>19. LastInv' /\ PipeInv'
    <2>1. \A s \in Src : Line(s)' = Line(s)
      BY <1>3, <1>9, <1>13 DEF Line
    <2> QED BY <1>3, <1>9, <1>10, <2>1, ClientIs, LastStays
  <1>20. TypeOK'
    <2>1. "item" \in PCs /\ h.wrq[x] \in Ptr
      BY <1>2, HeapIs DEF HeapType, PCs
    <2>2. batch' \in Seq(Event) /\ pc' \in PCs /\ act' \in Src /\ q' \in Ptr
          /\ stopwrite' \in BOOLEAN
      BY <1>1, <1>2, <1>3, <2>1 DEF Calls, ActivityWrite
    <2>3. UNCHANGED <<wr, events, qn, written, errnm, closed, nwrites, histVars, clientVars>>
      BY DEF ActivityWrite
    <2>4. HeapOK(h', client')
      BY <1>3, <1>8, HeapTypeOK DEF HeapOK
    <2> QED BY <2>2, <2>3, <2>4 DEF TypeOK, HeapOK, histVars, failVars, clientVars
  <1>21. FreshInv'
    BY <1>3, FreshSame
  <1> QED BY <1>3, <1>8, <1>11, <1>12, <1>18, <1>19, <1>20, <1>21, LiveWrite

(* The cells that the program reaches.                                        *)
LEMMA ReachIs ==
    ASSUME TypeOK, CellsInv
    PROVE  /\ Reach(h.cache) = Items(Lists[Cached])
           /\ \A s \in Src : Reach(h.wrq[s]) = Items(Lists[QueueOf(s)])
  <1>1. \A p \in Place : Chain(h.next, Firsts(h, First)[p]) = Lists[p] /\ Lists[p] \in Seq(Cell)
    BY HeapIs, HeadCell
  <1>2. \A l \in Seq(Cell) : ToSet(l) = Items(l)
    BY LenProperties DEF ToSet, Items
  <1>3. Chain(h.next, h.cache) = Lists[Cached] /\ Lists[Cached] \in Seq(Cell)
    BY <1>1, FirstsAre, Places
  <1>4. \A s \in Src : Chain(h.next, h.wrq[s]) = Lists[QueueOf(s)]
        /\ Lists[QueueOf(s)] \in Seq(Cell)
    BY <1>1, FirstsAre, Places
  <1> QED BY <1>2, <1>3, <1>4 DEF Reach

(* A source is deleted.                                                       *)
LEMMA LiveDel ==
    ASSUME Live, NEW x \in Src, gwpr_src_del(x) PROVE WriteInv'
  <1> USE LiveHas
  <1>1. /\ pc = "idle" /\ pc' = pc /\ q' = q /\ act' = act
        /\ x \in client.src \ deleted /\ deleted' = deleted \cup {x}
        /\ h' = [h EXCEPT !.wrq[x] = NULL, !.wrqlast[x] = NULL]
        /\ leaked' = leaked \cup Items(Lists[QueueOf(x)])
        /\ client' = client /\ short' = short
        /\ wr' = wr \ {x} /\ halted' = halted \ {x}
        /\ UNCHANGED <<events, batch, submitted, nwrites, closed>>
    BY ReachIs DEF gwpr_src_del, actVars, failVars
  <1>2. First' = First /\ ~Looping /\ ~Looping'
    BY <1>1 DEF First, Looping
  <1>3. Waiting' = Waiting /\ EventCells' = EventCells /\ EventsInv'
        /\ \A s : SyncOf(s)' = SyncOf(s)
    BY <1>1, EventsSame
  <1> DEFINE M == [Lists EXCEPT ![QueueOf(x)] = <<>>]
  <1>4. DropsQueue(h, First, Lists, Others, x, h')
    BY <1>1, HeapIs, DropQueue
  <1>5. Others' = Others \cup Items(Lists[QueueOf(x)]) /\ Loose' \cap leaked' = {}
    BY <1>1, <1>3, <1>4 DEF Loose, Others, DropsQueue, CellsInv
  <1>6. Lists' = M /\ CellsInv'
    BY <1>1, <1>2, <1>4, <1>5, Relist DEF DropsQueue
  <1>7. /\ Lists'[Active] = Lists[Active] /\ Lists'[QueueOf(x)] = <<>>
        /\ Lists'[Cached] = Lists[Cached]
        /\ \A s \in Src : s # x => Lists'[QueueOf(s)] = Lists[QueueOf(s)]
    BY <1>6, HeapIs, Places
  <1> HIDE DEF M
  <1>8. h'.buf = h.buf /\ h'.wrqlast = [h.wrqlast EXCEPT ![x] = NULL]
    BY <1>4 DEF DropsQueue
  <1>9. TakenInv' /\ LengthInv'
    BY <1>1, <1>8 DEF TakenInv, LengthInv, Taken
  <1>10. \A s \in Src : HandOf(s) = <<>> /\ SameHand(s)
    BY <1>2, <1>7, IdleHand, IdleSame
  <1>11. ASSUME NEW s \in Src
         PROVE  /\ SameSent(s) /\ submitted'[s] = submitted[s] /\ returned'[s] = returned[s]
                /\ (s \in failed' <=> s \in failed) /\ (s \in short' <=> s \in short)
                /\ (s \in closed' <=> s \in closed) /\ SameBufs(s)
    BY <1>8 DEF SameSent, SameBufs, gwpr_src_del, failVars
  <1>12. \A s \in Src : s # x => Stays(s)
    <2> TAKE s \in Src
    <2> HAVE s # x
    <2>1. SameQueue(s) /\ OffStays(s)
      BY <1>1, <1>7 DEF SameQueue, OffStays, Off
    <2>2. SameBytes(s)
      BY <1>1, <1>11 DEF SameBytes, SameFlags
    <2> QED BY <2>1, <2>2, <1>3, <1>10, <1>11, StaysIf
  <1>13. Leaves(x)
    <2>1. SyncOf(x) = {}
      BY DEF gwpr_src_del, SyncOf, Waiting, Items
    <2>2. WaitsOf(x) = {}
      BY <2>1 DEF WaitsOf, SyncOf
    <2>3. WaitsOf(x)' = {}
      BY <2>2, <1>3, <1>11, WaitsSame
    <2>4. LineOf(x)' = <<>>
      BY <1>7, BufsNone DEF LineOf
    <2>5. HandOf(x) = <<>> /\ HandOf(x)' = <<>>
      BY <1>10 DEF SameHand
    <2> QED BY <2>2, <2>3, <2>4, <2>5, <1>1, <1>11 DEF Leaves
  <1>14. SourceInv'
    <2>1. SourceOk(x)
      BY DEF SourceInv, SourceOk
    <2>2. SourceOk(x)'
      BY <2>1, <1>1, <1>13, LeavesWaits, LeavesWhole DEF SourceOk
    <2> QED BY <2>2, <1>1, <1>12, OneSource
  <1>15. LastInv' /\ PipeInv'
    <2>1. CASE ~client.pipelined
      <3>1. \A s \in Src : h'.wrqlast[s] = h.wrqlast[s] \/ s \in short' \cup deleted'
        BY <1>1, <1>8, HeapIs DEF HeapType
      <3> QED BY <2>1, <3>1, <1>1, LastWaits
    <2>2. CASE client.pipelined
      <3>1. Lists[Active] = <<>> /\ Len(<<>>) = 0
        BY <1>2, IdleHand, EmptyBytes
      <3>2. /\ Line(x)' = <<>> /\ h'.wrqlast[x] = NULL
            /\ \A s \in Src : s # x => Line(s)' = Line(s) /\ h'.wrqlast[s] = h.wrqlast[s]
        BY <3>1, <1>1, <1>7, <1>8, HeapIs DEF Line, HeapType
      <3>3. LastInv'
        <4> SUFFICES ASSUME NEW s \in Src PROVE TailInv(s)'
          BY DEF LastInv
        <4>1. CASE s = x
          BY <4>1, <2>2, <3>1, <3>2, <1>1 DEF TailInv
        <4>2. CASE s # x
          <5>1. TailInv(s)
            BY DEF LastInv
          <5> QED BY <5>1, <4>2, <2>2, <3>2, <1>1, <1>7 DEF TailInv
        <4> QED BY <4>1, <4>2
      <3>4. PipeInv'
        <4>1. client.src \subseteq Src
          BY ClientIs
        <4>2. Len(Lists[Cached]) + Len(Line(x)) =< nwrites
          BY <2>2, <1>1 DEF PipeInv
        <4>3. Len(Lists'[Cached]) + Len(Line(x)') =< nwrites
          <5>1. Line(x) \in Seq(Cell) /\ Lists[Cached] \in Seq(Cell)
            BY HeapIs DEF Line
          <5>2. Len(Line(x)) \in Nat /\ Len(Lists[Cached]) \in Nat /\ nwrites \in Nat
            BY <5>1, LenProperties, ClientIs
          <5>3. Len(Lists'[Cached]) = Len(Lists[Cached]) /\ Len(Line(x)') = 0
            BY <1>7, <3>1, <3>2
          <5> QED BY <4>2, <5>2, <5>3
        <4>4. pc # "synccb" /\ \A s \in Src \ client.src : Line(s) = <<>> /\ h.wrqlast[s] = NULL
          BY <2>2 DEF PipeInv
        <4>5. \A s \in client.src : s # x => Len(Lists[Cached]) + Len(Line(s)) =< nwrites
          BY <2>2 DEF PipeInv
        <4> QED BY <4>1, <4>3, <4>4, <4>5, <3>2, <1>1, <1>7 DEF PipeInv
      <3> QED BY <3>3, <3>4
    <2> QED BY <2>1, <2>2
  <1>16. TypeOK'
    <2>1. HeapOK(h', client')
      BY <1>1, <1>6, HeapTypeOK DEF HeapOK
    <2>2. Items(Lists[QueueOf(x)]) \subseteq Cell
      BY HeapIs
    <2>3. UNCHANGED <<actVars, events, batch, closed, nwrites, client, submitted, sent, reported,
                      returned, failVars>>
      BY DEF gwpr_src_del
    <2> QED BY <2>1, <2>2, <2>3, <1>1 DEF TypeOK, HeapOK, actVars, failVars
  <1>17. FreshInv'
    BY <1>1, FreshSame
  <1> QED BY <1>1, <1>6, <1>3, <1>9, <1>14, <1>15, <1>16, <1>17, LiveWrite

(* What was sent is the start of what was submitted, and nothing that was sent *)
(* was given back.                                                            *)
LEMMA StreamHolds ==
    ASSUME TypeOK, CellsInv, TakenInv, EventsInv, SourceInv
    PROVE  StreamInv
  <1> SUFFICES ASSUME NEW s \in Src
               PROVE  /\ s \notin failed \cup short \cup deleted => Begins(sent[s], submitted[s])
                      /\ s \notin short => Disjoint(returned[s], sent[s])
    BY DEF StreamInv
  <1>1. SourceType(s)
    BY SourceTypes
  <1>2. /\ sent[s] \in Seq(Byte) /\ submitted[s] \in Seq(Byte)
        /\ \A b \in Seq(Byte) : submitted[s] = Cat(sent[s], b) => Begins(sent[s], submitted[s])
    BY <1>1, BeginsIs DEF SourceType
  <1>3. Begins(sent[s], sent[s])
    BY <1>2, LenProperties DEF Begins
  <1>4. returned[s] = <<>> => Disjoint(returned[s], sent[s])
    BY EmptyBytes
  <1>5. CASE client.pipelined
    <2>1. WholeInv(s)
      BY <1>5 DEF SourceInv
    <2> QED BY <2>1, <1>4 DEF WholeInv
  <1>6. CASE ~client.pipelined
    <2>1. WaitsInv(s)
      BY <1>6 DEF SourceInv
    <2>2. CASE Quiet(s)
      BY <2>2, <1>3, <1>4 DEF Quiet, Fine
    <2>3. CASE InQueue(s)
      <3>1. LineOf(s)[1] \in Seq(Byte)
        BY <2>3, <1>1, SingleIs DEF InQueue, SourceType
      <3> QED BY <3>1, <2>3, <1>2, <1>4 DEF InQueue, Fine
    <2>4. CASE InHand(s)
      <3>1. HandOf(s)[1] \in Seq(Byte)
        BY <2>4, <1>1, SingleIs DEF InHand, SourceType
      <3> QED BY <3>1, <2>4, <1>2, <1>4 DEF InHand, Fine
    <2>5. CASE Synced(s)
      BY <2>5, <1>3, <1>4 DEF Synced, Fine
    <2> QED BY <2>1, <2>2, <2>3, <2>4, <2>5 DEF WaitsInv, Short, Failed, Closed, Deleted
  <1> QED BY <1>5, <1>6

(* The queues and the cache are released.                                     *)
LEMMA LiveFree ==
    ASSUME Live, gwpr_free PROVE WriteInv'
  <1> USE LiveHas
  <1>1. /\ pc = "idle" /\ Pending = <<>> /\ pc' = "freed" /\ wr' = {}
        /\ h' = [h EXCEPT !.alloc = @ \ (Reach(h.cache) \cup UNION {Reach(h.wrq[s]) : s \in Src}),
                          !.wrq = [s \in Src |-> NULL], !.wrqlast = [s \in Src |-> NULL]]
        /\ UNCHANGED <<events, batch, act, q, qn, written, errnm, stopwrite, closed, nwrites,
                       histVars, clientVars>>
    BY DEF gwpr_free
  <1>2. Loose = {} /\ ~Looping
    BY <1>1, EmptyBytes DEF Loose, EventCells, Waiting, Looping
  <1>3. /\ HeapType(h) /\ h.alloc = CellsIn(Lists) \cup leaked /\ CellsIn(Lists) \cap leaked = {}
        /\ Lists \in [Place -> Seq(Cell)]
    <2>1. Others = leaked
      BY <1>2 DEF Others
    <2>2. Accounted(h, First, Lists, leaked)
      BY <2>1, HeapIs
    <2> QED BY <2>2, AccountedHas
  <1> DEFINE R == Reach(h.cache) \cup UNION {Reach(h.wrq[s]) : s \in Src}
  <1>4. CellsIn(Lists) = R
    <2>1. R = Items(Lists[Cached]) \cup UNION {Items(Lists[QueueOf(s)]) : s \in Src}
      BY ReachIs
    <2>2. Items(Lists[Active]) = {}
      BY <1>2, IdleHand, EmptyBytes
    <2> HIDE DEF R
    <2>3. CellsIn(Lists) \subseteq R
      <3> SUFFICES ASSUME NEW c \in CellsIn(Lists) PROVE c \in R
        OBVIOUS
      <3>1. PICK p \in Place : c \in Items(Lists[p])
        BY <1>3, InCells
      <3> QED BY <3>1, <2>1, <2>2, Places
    <2>4. R \subseteq CellsIn(Lists)
      <3>1. \A p \in Place : Items(Lists[p]) \subseteq CellsIn(Lists)
        BY <1>3, InCells
      <3> QED BY <3>1, <2>1, Places
    <2> QED BY <2>3, <2>4
  <1>5. h'.alloc = h.alloc \ R
    BY <1>1, <1>3 DEF HeapType, HeapFields
  <1>6. h'.alloc = leaked'
    <2>1. leaked' = leaked
      BY <1>1 DEF histVars
    <2> HIDE DEF R
    <2> QED BY <2>1, <1>3, <1>4, <1>5
  <1>7. StreamInv'
    <2>1. StreamInv
      BY StreamHolds
    <2> QED BY <2>1, <1>1 DEF StreamInv, histVars, failVars, clientVars
  <1>8. TypeOK'
    <2>1. HeapOK(h, client)
      BY DEF TypeOK, HeapOK
    <2>2. HeapOK(h', client')
      <3> HIDE DEF R
      <3>1. /\ h'.next = h.next /\ h'.buf = h.buf /\ h'.cache = h.cache /\ h'.ncache = h.ncache
            /\ h'.fault = h.fault /\ h'.wrq = [s \in Src |-> NULL]
            /\ h'.wrqlast = [s \in Src |-> NULL]
        BY <1>1, <1>3 DEF HeapType, HeapFields
      <3> QED BY <2>1, <3>1, <1>1, <1>5 DEF HeapOK, Ptr, clientVars
    <2> QED BY <2>2, <1>1 DEF TypeOK, HeapOK, PCs, histVars, failVars, clientVars
  <1>9. FreshInv'
    BY <1>1, FreshSame DEF histVars
  <1> QED BY <1>1, <1>6, <1>7, <1>8, <1>9 DEF WriteInv

(* An item is written.                                                        *)
LEMMA LiveWriteItem ==
    ASSUME Live, WriteItem PROVE WriteInv'
  <1> USE LiveHas
  <1> PICK x : x = act
    OBVIOUS
  <1> PICK b : b = h.buf[q]
    OBVIOUS
  <1>1. PICK o \in Outcomes(x, b) :
          /\ written' = o[1] /\ errnm' = o[2]
          /\ closed' = IF o[2] = "closed" THEN closed \cup {x} ELSE closed
          /\ sent' = [sent EXCEPT ![x] = @ \o SubSeq(b, 1, o[1])]
          /\ reported' = [reported EXCEPT ![x] = @ \o Take(b, o[1])]
          /\ pc' = IF o[1] > 0 \/ o[2] = "ok" THEN "cb" ELSE "result"
    BY DEF WriteItem
  <1> PICK n : n = o[1]
    OBVIOUS
  <1> PICK r : r = o[2]
    OBVIOUS
  <1>2. /\ n \in 0..Len(b) /\ r \in Errno \cup {"ok"} /\ (n = Len(b) <=> r = "ok")
        /\ n \in {0, Len(b)} \/ client.partial
        /\ x \in closed /\ b # <<>> => n = 0 /\ r = "closed"
    BY <1>1 DEF Outcomes
  <1>3. /\ pc = "item" /\ q # NULL /\ q' = q /\ act' = act /\ h' = h /\ qn' = h.next[q]
        /\ UNCHANGED <<wr, events, batch, stopwrite, nwrites, submitted, returned, halted, leaked>>
        /\ client' = client /\ short' = short /\ deleted' = deleted /\ failed' = failed
    BY DEF WriteItem, failVars, clientVars
  <1>4. Looping /\ Looping' /\ Taken' /\ ~Taken /\ pc' \in {"cb", "result"}
    BY <1>1, <1>3 DEF Looping, Taken
  <1>5. First' = First
    BY <1>3, <1>4 DEF First
  <1>6. Waiting' = Waiting /\ EventCells' = EventCells /\ EventsInv'
        /\ \A s : SyncOf(s)' = SyncOf(s)
    BY <1>3, <1>4, EventsSame
  <1>7. Loose' = Loose /\ Others' = Others
    BY <1>3, <1>4, <1>6 DEF Loose, Others
  <1>8. Lists' = Lists /\ CellsInv'
    BY <1>3, <1>5, <1>7, HeapStays DEF CellsInv
  <1>9. /\ Hand = <<b>> \o Behind /\ Hand # <<>> /\ Hand[1] = b /\ Tail(Hand) = Behind
        /\ HandOf(x) = Hand /\ b \in Seq(Byte) /\ q \in Cell
    BY <1>3, <1>4, LoopHand DEF Item
  <1>10. x \in Src
    BY DEF TypeOK
  <1>11. Hand' = <<Rest(b, n)>> \o Behind
    BY <1>1, <1>3, <1>4, <1>8 DEF Hand, Rem, Behind
  <1>12. Len(b) \in Nat /\ Len(b) =< client.len
    BY <1>9, LenProperties DEF LengthInv
  <1>13. TakenInv' /\ LengthInv'
    BY <1>1, <1>2, <1>3, <1>4 DEF TakenInv, LengthInv, Taken
  <1>14. ASSUME NEW s \in Src
         PROVE  /\ SameQueue(s) /\ SameBufs(s) /\ OffStays(s)
                /\ submitted'[s] = submitted[s] /\ returned'[s] = returned[s]
                /\ (s \in failed' <=> s \in failed) /\ (s \in short' <=> s \in short)
                /\ (s \in deleted' <=> s \in deleted)
    <2>1. OffStays(s)
      BY <1>3 DEF OffStays, Off
    <2> QED BY <2>1, <1>3, <1>8 DEF SameQueue, SameBufs
  <1>15. \A s \in Src : s # x => Stays(s)
    <2> TAKE s \in Src
    <2> HAVE s # x
    <2>1. SameHand(s)
      BY <1>3 DEF SameHand, HandOf, ErrOf, TakenOf
    <2>2. sent'[s] = sent[s] /\ reported'[s] = reported[s] /\ (s \in closed' <=> s \in closed)
      BY <1>1, <1>10 DEF TypeOK
    <2> QED BY <2>1, <2>2, <1>6, <1>14, StaysIf DEF SameBytes, SameSent, SameFlags
  <1>16. Writes(x, n, r)
    <2>1. HandOf(x)' = <<Rest(b, n)>> \o Tail(HandOf(x)) /\ HandOf(x)[1] = b /\ HandOf(x) # <<>>
      BY <1>3, <1>9, <1>11 DEF HandOf
    <2>2. ErrOf(x) = "none" /\ ErrOf(x)' = r /\ TakenOf(x)' = Take(b, n)
      BY <1>1, <1>3, <1>4 DEF ErrOf, TakenOf
    <2>3. LineOf(x)' = LineOf(x) /\ WaitsOf(x)' = WaitsOf(x)
      BY <1>6, <1>10, <1>14, LineSame, WaitsSame
    <2>4. sent'[x] = Cat(sent[x], Take(b, n)) /\ reported'[x] = Cat(reported[x], Take(b, n))
      BY <1>1, <1>10 DEF TypeOK, Cat, Take
    <2>5. x \in closed' <=> x \in closed \/ r = "closed"
      BY <1>1
    <2> QED BY <2>1, <2>2, <2>3, <2>4, <2>5, <1>2, <1>10, <1>14 DEF Writes
  <1>17. SourceInv'
    <2>1. SourceOk(x) /\ SourceType(x) /\ Fresh(submitted[x], nwrites)
      BY <1>10, SourceTypes DEF SourceInv, SourceOk, FreshInv
    <2>2. client.pipelined => n = 0 \/ r = "ok"
      BY <1>2, ClientIs
    <2>3. SourceOk(x)'
      BY <2>1, <2>2, <1>3, <1>16, WritesWaits, WritesWhole DEF SourceOk
    <2> QED BY <2>3, <1>3, <1>15, OneSource
  <1>18. LastInv' /\ PipeInv'
    <2>1. \A s \in Src : Line(s)' = Line(s)
      BY <1>3, <1>8 DEF Line
    <2> QED BY <1>3, <1>4, <1>8, <2>1, ClientIs, LastStays
  <1>19. TypeOK'
    <2>1. Take(b, n) \in Seq(Byte)
      BY <1>2, <1>9, TakeRest
    <2>2. sent' \in [Src -> Seq(Byte)] /\ reported' \in [Src -> Seq(Byte)]
      <3>1. sent \in [Src -> Seq(Byte)] /\ reported \in [Src -> Seq(Byte)]
        BY DEF TypeOK
      <3>2. sent[x] \o Take(b, n) \in Seq(Byte) /\ reported[x] \o Take(b, n) \in Seq(Byte)
        BY <3>1, <1>10, <2>1, ConcatProperties
      <3> QED BY <3>1, <3>2, <1>1, <1>10 DEF Take
    <2>3. written' \in 0..client.len
      BY <1>1, <1>2, <1>12, ClientIs
    <2>4. qn' \in Ptr
      BY <1>3, <1>9, HeapIs DEF HeapType
    <2>5. errnm' \in Errno \cup {"ok"} /\ closed' \subseteq Src /\ pc' \in PCs
      BY <1>1, <1>2, <1>10 DEF TypeOK, PCs
    <2> QED BY <2>2, <2>3, <2>4, <2>5, <1>3 DEF TypeOK
  <1>20. FreshInv'
    BY <1>3, FreshSame
  <1>21. pc' # "freed"
    BY <1>4
  <1> QED BY <1>21, <1>8, <1>6, <1>13, <1>17, <1>18, <1>19, <1>20, LiveWrite

(* The cell of the item is released, and the next one is taken up.            *)
FreesItem ==
    /\ pc \in {"cb", "result"} /\ pc' = "item" /\ q' = qn /\ h' = gwprwrq_free(h, q)
    /\ client' = client /\ short' = short /\ deleted' = deleted /\ closed' = closed
    /\ UNCHANGED <<wr, events, batch, act, qn, written, errnm, stopwrite, nwrites, submitted,
                   sent, reported, halted, leaked>>

(* What this does to the lists.                                               *)
ItemLists(c) ==
    /\ CellsInv' /\ First' = q'
    /\ Lists'[Active] = Tail(Lists[Active])
    /\ \A s \in Src : SameQueue(s) /\ SameBufs(s) /\ SyncOf(s)' = SyncOf(s)
    /\ h'.wrqlast = h.wrqlast /\ h'.buf \in [Cell -> Seq(Byte)]
    /\ \A d \in Cell : d # c => h'.buf[d] = h.buf[d]
    /\ h.ncache # client.cache => Lists'[Cached] = <<c>> \o Lists[Cached]
    /\ c \in Cell /\ c = Lists[Active][1] /\ Lists[Active] # <<>>
    /\ c \notin Items(Tail(Lists[Active]))

(* The lists after an item was freed.                                         *)
LEMMA ItemListsAre ==
    ASSUME Live, FreesItem, NEW c, c = q
    PROVE  ItemLists(c) /\ EventsInv' /\ TakenInv' /\ LengthInv' /\ FreshInv'
  <1> USE LiveHas
  <1>1. Looping /\ Looping' /\ Taken /\ ~Taken' /\ pc # "synccb" /\ pc' # "synccb"
    BY DEF FreesItem, Looping, Taken
  <1>2. /\ First = c /\ c # NULL /\ First' = h.next[c] /\ First' = q' /\ c \in Cell
        /\ Lists[Active] # <<>> /\ c = Lists[Active][1] /\ c \notin Others
        /\ \A p \in Place : c \in Items(Lists[p]) => p = Active
    <2>1. q # NULL /\ qn = h.next[q]
      BY <1>1 DEF TakenInv
    <2> QED BY <2>1, <1>1, LoopHand DEF FreesItem, First
  <1>3. Waiting' = Waiting /\ EventCells' = EventCells /\ EventsInv'
        /\ \A s : SyncOf(s)' = SyncOf(s)
    BY <1>1, EventsSame DEF FreesItem
  <1>4. Loose' = Loose /\ Others' = Others /\ Loose' \cap leaked' = {}
    BY <1>1, <1>3 DEF Loose, Others, CellsInv, FreesItem
  <1> DEFINE L == [Lists EXCEPT ![Active] = Tail(Lists[Active])]
             O == Others \cup {c}
             M == Freed(h, L, c)
  <1>5. Accounted(h, h.next[c], L, O)
    <2>1. Accounted(h, c, Lists, Others)
      BY <1>2, HeapIs
    <2> QED BY <2>1, <1>2, PopActive DEF PopsActive
  <1>6. Frees(h, h.next[c], L, O, c, gwprwrq_free(h, c))
    <2> HIDE DEF L
    <2>1. c \in O
      OBVIOUS
    <2> HIDE DEF O
    <2> QED BY <2>1, <1>5, FreeAccounted
  <1>7. O \ {c} = Others'
    BY <1>2, <1>4
  <1>8. /\ Accounted(h', First', M, Others')
        /\ h'.buf \in [Cell -> Seq(Byte)] /\ \A d \in Cell : d # c => h'.buf[d] = h.buf[d]
        /\ h'.wrqlast = h.wrqlast
    <2> HIDE DEF O, L, M
    <2>1. h' = gwprwrq_free(h, c)
      BY DEF FreesItem
    <2> QED BY <2>1, <1>2, <1>6, <1>7 DEF Frees, M
  <1>9. Lists' = M /\ CellsInv'
    <2> HIDE DEF M
    <2> QED BY <1>8, <1>4, Relist DEF FreesItem
  <1>10. /\ Lists'[Active] = Tail(Lists[Active])
         /\ \A s \in Src : SameQueue(s)
         /\ h.ncache # client.cache => Lists'[Cached] = <<c>> \o Lists[Cached]
    <2>1. Lists \in [Place -> Seq(Cell)]
      BY HeapIs
    <2>2. L \in [Place -> Seq(Cell)]
      <3> HIDE DEF L, O
      <3> QED BY <1>5, AccountedHas
    <2>3. /\ L[Active] = Tail(Lists[Active]) /\ L[Cached] = Lists[Cached]
          /\ \A s \in Src : L[QueueOf(s)] = Lists[QueueOf(s)]
      BY <2>1, Places
    <2> HIDE DEF L
    <2>4. /\ \A p \in Place : p # Cached => Freed(h, L, c)[p] = L[p]
          /\ h.ncache # client.cache => Freed(h, L, c)[Cached] = <<c>> \o L[Cached]
      <3>1. c \in Cell
        BY <1>2
      <3> QED BY <3>1, <2>2, FreedIs
    <2> QED BY <2>3, <2>4, <1>9, Places DEF SameQueue
  <1>11. \A s \in Src : SameBufs(s)
    <2> TAKE s \in Src
    <2>1. c \notin Items(Lists[QueueOf(s)])
      BY <1>2, Places
    <2>2. c \notin EventCells
      BY <1>2 DEF Others, Loose
    <2>3. \A d \in Items(Lists[QueueOf(s)]) \cup EventCells : d \in Cell /\ d # c
      BY <2>1, <2>2, HeapIs DEF EventCells, EventsInv
    <2> QED BY <2>3, <1>8 DEF SameBufs
  <1>12. c \notin Items(Tail(Lists[Active]))
    <2>1. Once(Lists[Active]) /\ Lists[Active] \in Seq(Cell)
      BY HeapIs, AccountedHas, Places
    <2> QED BY <2>1, <1>2, TailOf
  <1>13. ItemLists(c)
    <2> HIDE DEF L, O, M
    <2> QED BY <1>2, <1>3, <1>8, <1>9, <1>10, <1>11, <1>12 DEF ItemLists
  <1>14. TakenInv'
    BY <1>1 DEF TakenInv
  <1>15. LengthInv'
    <2>1. h'.buf = gwprwrq_free(h, c).buf /\ client' = client
      BY DEF FreesItem
    <2> QED BY <2>1, <1>2, HeapIs, ClientIs, FreeLength
  <1>16. FreshInv'
    BY FreshSame DEF FreesItem
  <1> QED BY <1>3, <1>13, <1>14, <1>15, <1>16

(* And to wrqlast.                                                            *)
LEMMA ItemLast ==
    ASSUME Live, FreesItem, NEW c, c = q, ItemLists(c)
    PROVE  LastInv' /\ PipeInv'
  <1> USE LiveHas
  <1> PICK x : x = act
    OBVIOUS
  <1>1. /\ client' = client /\ short' = short /\ deleted' = deleted /\ nwrites' = nwrites
        /\ act' = x /\ pc' = "item" /\ x \in Src
    BY DEF FreesItem, TypeOK
  <1>2. CASE ~client.pipelined
    BY <1>1, <1>2, LastWaits DEF ItemLists
  <1>3. CASE client.pipelined
    <2> DEFINE l == Lists[Active]
               k == Lists[Cached]
    <2>1. /\ l \in Seq(Cell) /\ l # <<>> /\ c = l[1] /\ c \in Cell /\ k \in Seq(Cell)
          /\ Lists'[Active] = Tail(l) /\ h'.wrqlast = h.wrqlast
      BY HeapIs DEF ItemLists
    <2>2. Line(x) = l /\ x \in client.src /\ \A s \in client.src : s = x
      <3>1. Line(x) = l
        BY <2>1 DEF Line
      <3>2. x \in client.src
        BY <3>1, <2>1, <1>1, <1>3 DEF PipeInv
      <3> QED BY <3>1, <3>2, <1>3, ClientIs
    <2>3. Lists[QueueOf(x)] = <<>>
      <3>1. WholeInv(x)
        BY <1>1, <1>3 DEF SourceInv
      <3>2. HandOf(x) # <<>>
        <4>1. Looping /\ q # NULL
          BY DEF FreesItem, Looping, Taken, TakenInv
        <4> QED BY <4>1, LoopHand
      <3> QED BY <3>1, <3>2, <1>1, HeapIs, BufsIs DEF WholeInv, LineOf
    <2>4. Len(k) + Len(l) =< nwrites /\ nwrites =< client.cache /\ h.ncache = Len(k)
      <3>1. Len(k) + Len(l) =< nwrites
        BY <2>2, <1>3 DEF PipeInv
      <3>2. client.writes \in Nat /\ client.cache \in Nat /\ nwrites \in 0..client.writes
        BY ClientIs DEF TypeOK
      <3>3. client.writes =< client.cache
        BY <1>3, ClientIs
      <3>4. nwrites =< client.cache
        BY <3>2, <3>3
      <3>5. h.ncache = Len(k)
        BY HeapIs, AccountedHas
      <3> QED BY <3>1, <3>4, <3>5
    <2> HIDE DEF l, k
    <2>5. /\ Tail(l) \in Seq(Cell) /\ Len(Tail(l)) = Len(l) - 1 /\ Len(l) \in Nat /\ Len(l) # 0
          /\ \A i \in 1..(Len(l) - 1) : Tail(l)[i] = l[i + 1]
      BY <2>1, TailOf
    <2>6. Lists'[Cached] = <<c>> \o k
      <3>1. Len(k) \in Nat /\ nwrites \in Nat /\ client.cache \in Nat
        BY <2>1, LenProperties, ClientIs
      <3>2. h.ncache # client.cache
        BY <3>1, <2>4, <2>5
      <3> QED BY <3>2 DEF ItemLists, k
    <2>7. Lists'[Cached] # <<>> /\ Lists'[Cached][1] = c /\ Len(Lists'[Cached]) = Len(k) + 1
          /\ Len(k) \in Nat
      BY <2>1, <2>6, ConsIs
    <2>8. Line(x)' = Tail(l)
      <3>1. Lists'[QueueOf(x)] = <<>>
        BY <2>3, <1>1 DEF ItemLists, SameQueue
      <3> QED BY <3>1, <2>1, <1>1 DEF Line
    <2>9. \A s \in Src : s # x =>
            Line(s) = <<>> /\ Line(s)' = <<>> /\ h.wrqlast[s] = NULL /\ Len(<<>>) = 0
      <3> TAKE s \in Src
      <3> HAVE s # x
      <3>1. Line(s) = <<>> /\ h.wrqlast[s] = NULL
        BY <2>2, <1>3 DEF PipeInv
      <3>2. Line(s) = Lists[QueueOf(s)] /\ Line(s)' = Lists'[QueueOf(s)]
        BY <1>1 DEF Line
      <3> QED BY <3>1, <3>2, EmptyBytes DEF ItemLists, SameQueue
    <2>10. TailInv(x)'
      <3>1. TailInv(x)
        BY <1>1 DEF LastInv
      <3>2. CASE h.wrqlast[x] = NULL
        <4>1. Len(l) =< 1
          BY <3>1, <3>2, <1>3, <2>2 DEF TailInv
        <4>2. Len(Tail(l)) =< 1
          BY <4>1, <2>5
        <4> QED BY <4>2, <3>2, <1>1, <1>3, <2>1, <2>8 DEF TailInv
      <3>3. CASE h.wrqlast[x] # NULL
        <4>1. h.wrqlast[x] = l[Len(l)]
          BY <3>1, <3>3, <1>3, <2>1, <2>2 DEF TailInv, LastOf
        <4>2. CASE Tail(l) = <<>>
          <5>1. Len(l) = 1
            BY <4>2, <2>5, EmptyBytes
          <5> QED BY <5>1, <4>1, <4>2, <3>3, <1>1, <1>3, <2>1, <2>7, <2>8 DEF TailInv
        <4>3. CASE Tail(l) # <<>>
          <5>1. Len(Tail(l)) # 0
            BY <4>3, <2>5, EmptySeq
          <5>2. Len(l) - 1 \in 1..(Len(l) - 1) /\ Len(l) - 1 + 1 = Len(l)
            BY <5>1, <2>5
          <5>3. Tail(l)[Len(Tail(l))] = l[Len(l)]
            BY <5>2, <2>5
          <5> QED BY <5>3, <4>1, <4>3, <3>3, <1>1, <1>3, <2>1, <2>8 DEF TailInv, LastOf
        <4> QED BY <4>2, <4>3
      <3> QED BY <3>2, <3>3
    <2>11. LastInv'
      <3> SUFFICES ASSUME NEW s \in Src PROVE TailInv(s)'
        BY DEF LastInv
      <3>1. CASE s # x
        BY <3>1, <2>9, <2>1, <1>1, <1>3 DEF TailInv
      <3> QED BY <3>1, <2>10
    <2>12. PipeInv'
      <3>1. Len(Lists'[Cached]) + Len(Line(x)') =< nwrites
        BY <2>4, <2>5, <2>7, <2>8
      <3>2. client.src \subseteq Src
        BY ClientIs
      <3> QED BY <3>1, <3>2, <2>1, <2>2, <2>9, <1>1 DEF PipeInv
    <2> QED BY <2>11, <2>12
  <1> QED BY <1>2, <1>3

(* And to the sources, but for the item.                                      *)
ItemDone(x) ==
    /\ x \in Src /\ SourceType(x) /\ SourceOk(x) /\ Fresh(submitted[x], nwrites)
    /\ HandOf(x) # <<>> /\ HandOf(x)' = Tail(HandOf(x)) /\ HandOf(x)[1] = Rem
    /\ ErrOf(x) = errnm /\ ErrOf(x)' = "none" /\ TakenOf(x)' = <<>>
    /\ LineOf(x)' = LineOf(x) /\ WaitsOf(x)' = WaitsOf(x)
    /\ SameSent(x) /\ submitted'[x] = submitted[x]
    /\ (x \in short' <=> x \in short) /\ (x \in closed' <=> x \in closed)
    /\ (x \in deleted' <=> x \in deleted)
    /\ \A s \in Src :
         s # x /\ returned'[s] = returned[s] /\ (s \in failed' <=> s \in failed) => Stays(s)

(* The source after an item was freed.                                        *)
LEMMA ItemDoneIs ==
    ASSUME Live, FreesItem, NEW c, c = q, ItemLists(c), NEW x, x = act
    PROVE  ItemDone(x)
  <1> USE LiveHas
  <1>1. Looping /\ Taken /\ ~Taken' /\ q # NULL /\ act' = x
    BY DEF FreesItem, Looping, Taken, TakenInv
  <1>2. x \in Src
    BY DEF TypeOK
  <1>3. /\ Hand # <<>> /\ Hand[1] = Rem /\ Tail(Hand) = Behind /\ HandOf(x) = Hand
        /\ Tail(Lists[Active]) \in Seq(Cell)
    BY <1>1, LoopHand DEF Item
  <1>4. Hand' = Behind
    <2>1. \A d \in Items(Tail(Lists[Active])) : h'.buf[d] = h.buf[d]
      <3>1. \A d \in Items(Tail(Lists[Active])) : d \in Cell
        BY <1>3, ElementOfSeq DEF Items
      <3> QED BY <3>1 DEF ItemLists
    <2>2. Bufs(h'.buf, Tail(Lists[Active])) = Behind
      BY <2>1, <1>3, BufsSame DEF Behind
    <2> QED BY <2>2, <1>1 DEF Hand, ItemLists
  <1>5. HandOf(x)' = Tail(HandOf(x)) /\ ErrOf(x) = errnm /\ ErrOf(x)' = "none" /\ TakenOf(x)' = <<>>
    BY <1>1, <1>3, <1>4 DEF HandOf, ErrOf, TakenOf
  <1>6. \A s \in Src : SameQueue(s) /\ SameBufs(s) /\ SyncOf(s)' = SyncOf(s)
    BY DEF ItemLists
  <1>7. LineOf(x)' = LineOf(x) /\ WaitsOf(x)' = WaitsOf(x)
    BY <1>2, <1>6, LineSame, WaitsSame
  <1>8. ASSUME NEW s \in Src
        PROVE  /\ SameSent(s) /\ submitted'[s] = submitted[s] /\ OffStays(s)
               /\ (s \in short' <=> s \in short) /\ (s \in closed' <=> s \in closed)
               /\ (s \in deleted' <=> s \in deleted)
    <2>1. OffStays(s)
      BY DEF OffStays, Off, FreesItem
    <2> QED BY <2>1 DEF SameSent, FreesItem
  <1>9. ASSUME NEW s \in Src, s # x, returned'[s] = returned[s], s \in failed' <=> s \in failed
        PROVE  Stays(s)
    <2>1. SameHand(s)
      BY <1>1, <1>9 DEF SameHand, HandOf, ErrOf, TakenOf
    <2>2. SameBytes(s)
      BY <1>8, <1>9 DEF SameBytes, SameFlags
    <2> QED BY <2>1, <2>2, <1>6, <1>8, StaysIf
  <1>10. SourceType(x) /\ SourceOk(x) /\ Fresh(submitted[x], nwrites)
    BY <1>2, SourceTypes DEF SourceInv, SourceOk, FreshInv
  <1> QED BY <1>2, <1>3, <1>5, <1>7, <1>8, <1>9, <1>10 DEF ItemDone

(* The invariant after the item.                                              *)
LEMMA LiveItem ==
    ASSUME Live, FreesItem, NEW x, x = act, ItemDone(x), Drops(x),
           client.pipelined => returned'[x] = returned[x],
           \A s \in Src : s # x => returned'[s] = returned[s] /\ (s \in failed' <=> s \in failed),
           returned' \in [Src -> Seq(Byte)], failed' \subseteq Src, halted' = halted
    PROVE  WriteInv'
  <1> USE LiveHas
  <1> PICK c : c = q
    OBVIOUS
  <1>1. ItemLists(c) /\ EventsInv' /\ TakenInv' /\ LengthInv' /\ FreshInv'
    BY ItemListsAre
  <1>2. LastInv' /\ PipeInv'
    BY <1>1, ItemLast
  <1>3. client' = client /\ pc' = "item"
    BY DEF FreesItem
  <1>4. SourceInv'
    <2>1. SourceOk(x)'
      BY <1>3, DropsWaits, DropsWhole DEF SourceOk, ItemDone
    <2> QED BY <2>1, <1>3, OneSource DEF ItemDone
  <1>5. CellsInv'
    BY <1>1 DEF ItemLists
  <1>6. TypeOK'
    <2>1. HeapOK(h', client')
      BY <1>3, <1>5, HeapTypeOK DEF HeapOK
    <2> QED BY <2>1 DEF FreesItem, TypeOK, HeapOK, PCs
  <1> QED BY <1>1, <1>2, <1>3, <1>4, <1>5, <1>6, LiveWrite

(* Everything was written.                                                    *)
LEMMA LiveWritten ==
    ASSUME Live, ResultWritten PROVE WriteInv'
  <1> USE LiveHas
  <1> PICK c : c = q
    OBVIOUS
  <1> PICK x : x = act
    OBVIOUS
  <1>1. FreesItem /\ errnm = "ok"
    BY DEF FreesItem, ResultWritten, Result, histVars, clientVars, failVars
  <1>2. ItemDone(x)
    BY <1>1, ItemListsAre, ItemDoneIs
  <1>3. returned' = returned /\ failed' = failed /\ halted' = halted
    BY DEF ResultWritten, histVars, failVars
  <1>4. Rem = <<>>
    <2>1. Looping /\ q # NULL /\ written = Len(h.buf[q])
      BY <1>1 DEF FreesItem, Looping, Taken, TakenInv
    <2>2. h.buf[q] \in Seq(Byte)
      BY <2>1, LoopHand
    <2>3. written \in 0..Len(h.buf[q])
      BY <2>1, <2>2, LenProperties
    <2> QED BY <2>1, <2>2, <2>3, TakeRest DEF Rem
  <1>5. Drops(x)
    BY <1>1, <1>2, <1>3, <1>4 DEF Drops, ItemDone
  <1>6. returned' \in [Src -> Seq(Byte)] /\ failed' \subseteq Src
    BY <1>3 DEF TypeOK
  <1> QED BY <1>1, <1>2, <1>3, <1>5, <1>6, LiveItem

(* The connection is closed.                                                  *)
LEMMA LiveClosed ==
    ASSUME Live, ResultClosed PROVE WriteInv'
  <1> USE LiveHas
  <1> PICK c : c = q
    OBVIOUS
  <1> PICK x : x = act
    OBVIOUS
  <1>1. FreesItem /\ errnm = "closed"
    BY DEF FreesItem, ResultClosed, Result, clientVars, failVars
  <1>2. ItemDone(x)
    BY <1>1, ItemListsAre, ItemDoneIs
  <1>3. /\ returned' = returned \/ (written > 0 /\ returned' = [returned EXCEPT ![x] = @ \o Rem])
        /\ failed' = failed /\ halted' = halted
    BY DEF ResultClosed, failVars
  <1>4. x \in closed /\ (client.pipelined => written = 0)
    BY <1>1, ClientIs DEF FreesItem, Taken, TakenInv
  <1>5. x \in Src /\ Rem \in Seq(Byte)
    <2>1. Looping /\ q # NULL /\ Taken
      BY <1>1 DEF FreesItem, Looping, Taken, TakenInv
    <2> QED BY <1>2, <2>1, LoopHand DEF Item, ItemDone
  <1>6. /\ returned'[x] \in {returned[x], Cat(returned[x], Rem)}
        /\ \A s \in Src : s # x => returned'[s] = returned[s]
    BY <1>3, <1>5 DEF TypeOK, Cat
  <1>7. Drops(x)
    BY <1>1, <1>2, <1>3, <1>4, <1>6 DEF Drops, ItemDone
  <1>8. returned' \in [Src -> Seq(Byte)] /\ failed' \subseteq Src
    <2>1. returned \in [Src -> Seq(Byte)]
      BY DEF TypeOK
    <2>2. returned[x] \o Rem \in Seq(Byte)
      BY <2>1, <1>5, ConcatProperties
    <2> QED BY <2>1, <2>2, <1>3, <1>5 DEF TypeOK
  <1>9. client.pipelined => returned'[x] = returned[x]
    <2>1. client.pipelined => ~(written > 0)
      BY <1>4
    <2> QED BY <2>1, <1>3
  <1> QED BY <1>1, <1>2, <1>3, <1>6, <1>7, <1>8, <1>9, LiveItem

(* Without an error callback the item is dropped.                             *)
LEMMA LiveDropped ==
    ASSUME Live, ResultError, "error" \notin Callbacks PROVE WriteInv'
  <1> USE LiveHas
  <1> PICK c : c = q
    OBVIOUS
  <1> PICK x : x = act
    OBVIOUS
  <1>1. FreesItem /\ errnm = "other"
    BY DEF FreesItem, ResultError, Result, clientVars
  <1>2. ItemDone(x)
    BY <1>1, ItemListsAre, ItemDoneIs
  <1>3. returned' = returned /\ failed' = failed \cup {x} /\ halted' = halted
    BY DEF ResultError
  <1>4. Drops(x)
    BY <1>1, <1>2, <1>3 DEF Drops, ItemDone
  <1>5. returned' \in [Src -> Seq(Byte)] /\ failed' \subseteq Src
    BY <1>3 DEF TypeOK
  <1>6. \A s \in Src : s # x => returned'[s] = returned[s] /\ (s \in failed' <=> s \in failed)
    BY <1>3
  <1> QED BY <1>1, <1>2, <1>3, <1>4, <1>5, <1>6, LiveItem

(* After an error the queue of the source is what was taken from it, or what  *)
(* is left of that.                                                           *)
LEMMA QueueIsEmpty ==
    ASSUME Live, Taken, errnm # "ok", NEW x, x = act
    PROVE  /\ x \in Src /\ LineOf(x) = <<>> /\ Lists[QueueOf(x)] = <<>> /\ h.wrq[x] = NULL
           /\ SourceOk(x) /\ SourceType(x) /\ Fresh(submitted[x], nwrites)
  <1> USE LiveHas
  <1>1. x \in Src
    BY DEF TypeOK
  <1>2. HandOf(x) # <<>> /\ ErrOf(x) = errnm
    <2>1. Looping /\ q # NULL
      BY DEF Taken, Looping, TakenInv
    <2> QED BY <2>1, LoopHand DEF ErrOf
  <1>3. SourceOk(x) /\ SourceType(x) /\ Fresh(submitted[x], nwrites)
    BY <1>1, SourceTypes DEF SourceInv, SourceOk, FreshInv
  <1>4. LineOf(x) = <<>>
    BY <1>2, <1>3, BehindWaits DEF SourceOk, WholeInv
  <1>5. Lists[QueueOf(x)] = <<>>
    BY <1>1, <1>4, HeapIs, BufsIs DEF LineOf
  <1>6. h.wrq[x] = NULL
    BY <1>1, <1>5, HeapIs, HeadCells
  <1> QED BY <1>1, <1>3, <1>4, <1>5, <1>6

(* The item and those behind it go back to the queue.                         *)
PutsItem ==
    /\ pc \in {"cb", "result"} /\ pc' = "end"
    /\ client' = client /\ short' = short /\ deleted' = deleted /\ closed' = closed
    /\ UNCHANGED <<wr, events, batch, act, q, qn, written, errnm, nwrites, submitted,
                   sent, reported, halted>>

(* No event is posted or taken by it.                                         *)
LEMMA PutsEvents ==
    ASSUME Live, PutsItem
    PROVE  /\ Looping /\ Taken /\ q # NULL /\ First = q /\ First' = NULL /\ ~Looping'
           /\ EventsInv' /\ TakenInv' /\ FreshInv' /\ Loose' = Loose
           /\ \A s : SyncOf(s)' = SyncOf(s)
  <1> USE LiveHas
  <1>1. Looping /\ Taken /\ q # NULL /\ First = q /\ First' = NULL /\ ~Looping'
    BY DEF PutsItem, Looping, Taken, TakenInv, First
  <1>2. EventCells' = EventCells /\ EventsInv' /\ \A s : SyncOf(s)' = SyncOf(s)
    BY EventsSame DEF PutsItem
  <1>3. Loose' = Loose
    BY <1>2 DEF Loose, PutsItem
  <1>4. TakenInv'
    BY DEF TakenInv, Taken, PutsItem
  <1>5. FreshInv'
    BY FreshSame DEF PutsItem
  <1> QED BY <1>1, <1>2, <1>3, <1>4, <1>5

(* The list l becomes the queue of x.                                         *)
PutLists(x, l) ==
    /\ CellsInv' /\ LengthInv'
    /\ Lists'[Active] = <<>> /\ Lists'[QueueOf(x)] = l
    /\ \A s \in Src : s # x => SameQueue(s)
    /\ \A s \in Src : SameBufs(s)
    /\ h'.wrqlast = h.wrqlast

(* The queue restored keeps the invariant if its source does.                 *)
LEMMA LivePut ==
    ASSUME Live, PutsItem, NEW x, x = act, NEW l, PutLists(x, l),
           errnm # "ok", Restores(x), LastInv', PipeInv',
           client.pipelined =>
              LineOf(x)' = HandOf(x) /\ returned'[x] = returned[x]
                   /\ (x \in failed' <=> x \in failed),
           \A s \in Src : s # x => returned'[s] = returned[s] /\ (s \in failed' <=> s \in failed),
           returned' \in [Src -> Seq(Byte)], failed' \subseteq Src, leaked' \subseteq Cell,
           stopwrite' \in BOOLEAN
    PROVE  WriteInv'
  <1> USE LiveHas, PutsEvents
  <1>1. SourceOk(x) /\ SourceType(x) /\ Fresh(submitted[x], nwrites)
    BY QueueIsEmpty
  <1>2. SourceOk(x)'
    BY <1>1, RestoresWaits, RestoresWhole DEF PutsItem, SourceOk
  <1>3. \A s \in Src : s # x => Stays(s)
    <2> TAKE s \in Src
    <2> HAVE s # x
    <2>1. SameHand(s) /\ OffStays(s)
      BY DEF PutsItem, SameHand, HandOf, ErrOf, TakenOf, OffStays, Off
    <2>2. SameBytes(s)
      BY DEF PutsItem, SameBytes, SameSent, SameFlags
    <2> QED BY <2>1, <2>2, StaysIf DEF PutLists
  <1>4. SourceInv'
    BY <1>2, <1>3, OneSource DEF PutsItem
  <1>5. TypeOK'
    <2>1. HeapOK(h', client')
      BY HeapTypeOK DEF PutLists, PutsItem, HeapOK
    <2> QED BY <2>1 DEF PutsItem, TypeOK, HeapOK, PCs
  <1> QED BY <1>4, <1>5, LiveWrite DEF PutLists, PutsItem

(* What does not depend on the buffers.                                       *)
PutFlags(x) ==
    /\ HandOf(x) # <<>> /\ HandOf(x) = <<Rem>> \o Behind /\ HandOf(x)' = <<>>
    /\ HandOf(x)[1] = Rem /\ Tail(HandOf(x)) = Behind
    /\ ErrOf(x) = errnm /\ ErrOf(x)' = "none" /\ TakenOf(x)' = <<>>
    /\ TakenOf(x) = Take(h.buf[q], written)
    /\ WaitsOf(x)' = WaitsOf(x) /\ SameSent(x) /\ submitted'[x] = submitted[x]
    /\ (x \in short' <=> x \in short) /\ (x \in closed' <=> x \in closed)
    /\ (x \in deleted' <=> x \in deleted)

(* The flags of the source whose queue is restored.                           *)
LEMMA PutFlagsAre ==
    ASSUME Live, PutsItem, NEW x, x = act, NEW l, PutLists(x, l)
    PROVE  PutFlags(x)
  <1> USE LiveHas, PutsEvents
  <1>1. x \in Src
    BY DEF TypeOK
  <1>2. /\ HandOf(x) # <<>> /\ HandOf(x) = <<Rem>> \o Behind
        /\ HandOf(x)[1] = Rem /\ Tail(HandOf(x)) = Behind
    BY LoopHand DEF Item
  <1>3. HandOf(x)' = <<>> /\ ErrOf(x)' = "none" /\ TakenOf(x)' = <<>>
    BY NoHand DEF PutLists
  <1>4. ErrOf(x) = errnm /\ TakenOf(x) = Take(h.buf[q], written)
    BY DEF ErrOf, TakenOf
  <1>5. WaitsOf(x)' = WaitsOf(x)
    BY <1>1, WaitsSame DEF PutLists
  <1> QED BY <1>2, <1>3, <1>4, <1>5 DEF PutFlags, PutsItem, SameSent

(* The queue is restored from the item on, whose buffer may be cut.           *)
LEMMA PutListsAre ==
    ASSUME Live, PutsItem, errnm # "ok", leaked' = leaked, NEW x, x = act, NEW b \in Seq(Byte),
           Len(b) =< client.len, NEW c, c = q, NEW g, Stores(h, c, Lists, Others, c, b, g),
           h' = gwprwrq_putback(g, x, c)
    PROVE  /\ PutLists(x, Lists[Active]) /\ LineOf(x)' = <<b>> \o Behind
           /\ LastInv' /\ PipeInv'
  <1> USE LiveHas, PutsEvents
  <1>1. x \in Src /\ Lists[QueueOf(x)] = <<>> /\ h.wrq[x] = NULL
    BY QueueIsEmpty
  <1>2. /\ c \in Cell /\ c \notin Others /\ \A p \in Place : c \in Items(Lists[p]) => p = Active
        /\ Lists[Active] # <<>> /\ Lists[Active][1] = c
    BY LoopHand
  <1> DEFINE M == [Lists EXCEPT ![Active] = <<>>, ![QueueOf(x)] = Lists[Active]]
  <1>3. PutsBack(g, c, Lists, Others, x, h')
    <2>1. Accounted(g, c, Lists, Others) /\ g.wrq = h.wrq
      BY DEF Stores
    <2> QED BY <1>1, <2>1, PutBack
  <1>4. Others' = Others /\ Loose' \cap leaked' = {}
    BY DEF Others, CellsInv
  <1>5. Lists' = M /\ CellsInv'
    BY <1>3, <1>4, Relist DEF PutsBack, PutsItem
  <1>6. /\ Lists'[Active] = <<>> /\ Lists'[QueueOf(x)] = Lists[Active]
        /\ Lists'[Cached] = Lists[Cached] /\ \A s \in Src : s # x => SameQueue(s)
    BY <1>1, <1>5, HeapIs, Places DEF SameQueue
  <1> HIDE DEF M
  <1>7. h'.buf = [h.buf EXCEPT ![c] = b] /\ h'.wrqlast = h.wrqlast
    BY <1>3 DEF PutsBack, Stores, Kept
  <1>8. h.buf \in [Cell -> Seq(Byte)] /\ h'.buf[c] = b
        /\ \A d \in Cell : d # c => h'.buf[d] = h.buf[d]
    BY <1>2, <1>7, HeapIs
  <1>9. LengthInv'
    BY <1>8 DEF LengthInv, PutsItem
  <1>10. \A s \in Src : SameBufs(s)
    <2> TAKE s \in Src
    <2>1. c \notin Items(Lists[QueueOf(s)])
      BY <1>2, Places
    <2>2. c \notin EventCells
      BY <1>2 DEF Others, Loose
    <2>3. \A d \in Items(Lists[QueueOf(s)]) \cup EventCells : d \in Cell /\ d # c
      BY <2>1, <2>2, HeapIs DEF EventCells, EventsInv
    <2> QED BY <2>3, <1>8 DEF SameBufs
  <1>11. LineOf(x)' = <<b>> \o Behind
    <2> DEFINE t == Tail(Lists[Active])
    <2>1. Lists[Active] \in Seq(Cell) /\ Once(Lists[Active])
      <3>1. Accounted(h, First, Lists, Others) /\ Active \in Place
        BY HeapIs
      <3> QED BY <3>1, AccountedHas
    <2>5. h'.buf \in [Cell -> Seq(Byte)]
      BY <1>7, <1>8
    <2>2. Bufs(h'.buf, Lists[Active]) = <<b>> \o Bufs(h'.buf, t) /\ t \in Seq(Cell)
      <3>1. Lists[Active] # <<>> /\ h'.buf[Lists[Active][1]] = b
        BY <1>2, <1>8
      <3> DEFINE l == Lists[Active]
                 m == h'.buf
      <3>2. l \in Seq(Cell) /\ m \in [Cell -> Seq(Byte)] /\ l # <<>> /\ m[l[1]] = b
        BY <2>1, <2>5, <3>1
      <3> HIDE DEF l, m
      <3>3. Bufs(m, l) = <<b>> \o Bufs(m, Tail(l)) /\ Tail(l) \in Seq(Cell)
        BY <3>2, BufsHead
      <3> QED BY <3>3 DEF l, m
    <2>3. \A d \in Items(t) : d \in Cell /\ d # c
      <3>1. c \notin Items(t)
        BY <2>1, <1>2, TailOf
      <3> QED BY <3>1, <2>2, ElementOfSeq DEF Items
    <2>4. Bufs(h'.buf, t) = Behind
      BY <2>2, <2>3, <1>8, BufsSame DEF Behind
    <2> QED BY <2>2, <2>4, <1>6 DEF LineOf
  <1>12. PutLists(x, Lists[Active])
    BY <1>5, <1>6, <1>7, <1>9, <1>10 DEF PutLists
  <1>13. LastInv' /\ PipeInv'
    <2>1. \A s \in Src : Line(s)' = Line(s)
      BY <1>2, <1>6 DEF Line, PutsItem, SameQueue
    <2> QED BY <2>1, <1>6, <1>7, ClientIs, LastStays DEF PutsItem
  <1> QED BY <1>11, <1>12, <1>13

(* A part of the first cell of the active list was written: a new cell d with *)
(* the rest of its buffer, b, takes its place.                                *)
NewFirst(g, a, L, O, b, d, k, K) ==
    /\ Accounted(k, d, K, O \cup {a}) /\ k.wrq = g.wrq
    /\ a \in Cell /\ a \notin O /\ L[Active] # <<>> /\ Tail(L[Active]) \in Seq(Cell)
    /\ d \in Cell /\ d \notin O /\ d # a
    /\ \A p \in Place : d \in Items(L[p]) => p = Cached
    /\ K \in [Place -> Seq(Cell)] /\ K[Active] = <<d>> \o Tail(L[Active])
    /\ \A r \in Src : K[QueueOf(r)] = L[QueueOf(r)]
    /\ k.buf = [g.buf EXCEPT ![d] = b] /\ k.wrqlast = g.wrqlast

(* The cell with the rest of an item goes in front of the next item.          *)
LEMMA NewFirstIs ==
    ASSUME NEW g, NEW a, NEW L, NEW O, Accounted(g, a, L, O), a # NULL,
           Cardinality(g.alloc) < NCells, NEW b \in Seq(Byte), NEW d, d = GetCell(g),
           NEW k, k = [gwprwrq_get(g) EXCEPT !.buf[d] = b, !.next[d] = g.next[a]]
    PROVE  \E K : NewFirst(g, a, L, O, b, d, k, K)
  <1> DEFINE t == Tail(L[Active])
             n == g.next[a]
             N == [L EXCEPT ![Active] = t]
             R == O \cup {a}
             f == gwprwrq_get(g)
             G == Gotten(N)
             Q == R \cup {d}
             e == [f EXCEPT !.buf[d] = b]
             K == [G EXCEPT ![Active] = <<d>> \o G[Active]]
  <1>1. /\ Accounted(g, n, N, R) /\ a \in Cell /\ a \notin O
        /\ \A p \in Place : a \in Items(L[p]) => p = Active
    BY PopActive DEF PopsActive
  <1>2. L[Active] # <<>> /\ t \in Seq(Cell) /\ L \in [Place -> Seq(Cell)]
    <2>1. L \in [Place -> Seq(Cell)]
      BY AccountedHas
    <2>2. L[Active] \in Seq(Cell)
      BY <2>1, Places
    <2>3. L[Active] # <<>>
      BY HeadCells
    <2> QED BY <2>1, <2>2, <2>3, HeadTailProperties
  <1>3. Gets(g, n, N, R, d, f)
    <2> HIDE DEF N, R, n, f
    <2>1. Gets(g, n, N, R, GetCell(g), gwprwrq_get(g))
      BY <1>1, GetAccounted
    <2> QED BY <2>1 DEF f
  <1>4. Accounted(f, n, G, Q) /\ d \in Cell /\ d \in Q /\ d \notin R
    BY <1>3 DEF Gets
  <1>5. Stores(f, n, G, Q, d, b, e)
    <2> HIDE DEF G, Q, n, f
    <2> QED BY <1>4, BufAccounted
  <1>6. PushesActive(e, n, G, Q, d, k)
    <2>1. Accounted(e, n, G, Q) /\ d \in Q
      BY <1>4, <1>5 DEF Stores
    <2>2. k = [e EXCEPT !.next[d] = n]
      OBVIOUS
    <2> HIDE DEF G, Q, n, e
    <2>3. PushesActive(e, n, G, Q, d, [e EXCEPT !.next[d] = n])
      BY <2>1, PushActive
    <2> QED BY <2>2, <2>3
  <1>7. Q \ {d} = R
    BY <1>4
  <1>8. Accounted(k, d, K, R) /\ k.wrq = g.wrq
    <2>1. f.wrq = g.wrq
      <3>1. HeapType(g) /\ GetCell(g) \in Cell
        BY <1>4, AccountedHas
      <3> QED BY <3>1, GetFields
    <2>2. e.wrq = f.wrq
      BY <1>5 DEF Stores
    <2> HIDE DEF G, Q, n, e, f, R
    <2> QED BY <2>1, <2>2, <1>6, <1>7 DEF PushesActive
  <1>10. /\ K \in [Place -> Seq(Cell)] /\ K[Active] = <<d>> \o t
         /\ \A r \in Src : K[QueueOf(r)] = L[QueueOf(r)]
    <2>1. N \in [Place -> Seq(Cell)] /\ N[Active] = t
          /\ \A r \in Src : N[QueueOf(r)] = L[QueueOf(r)]
      BY <1>2, Places
    <2> HIDE DEF N
    <2>2. G \in [Place -> Seq(Cell)] /\ \A p \in Place : p # Cached => G[p] = N[p]
      BY <2>1, GottenIs
    <2>3. <<d>> \o t \in Seq(Cell)
      BY <1>2, <1>4, ConsIs
    <2>4. G[Active] = t /\ \A r \in Src : G[QueueOf(r)] = L[QueueOf(r)]
      BY <2>1, <2>2, Places
    <2> HIDE DEF G, t
    <2> QED BY <2>2, <2>3, <2>4, Places
  <1>12. k.buf = [g.buf EXCEPT ![d] = b] /\ k.wrqlast = g.wrqlast
    <2>2. k.buf = e.buf /\ k.wrqlast = e.wrqlast
      BY <1>6 DEF PushesActive, Kept
    <2>3. e.buf = [f.buf EXCEPT ![d] = b] /\ e.wrqlast = f.wrqlast
      BY <1>5 DEF Stores
    <2>4. f.buf = g.buf /\ f.wrqlast = g.wrqlast
      BY <1>3 DEF Gets, Kept
    <2> HIDE DEF e, f
    <2> QED BY <2>2, <2>3, <2>4
  <1>13. \A p \in Place : d \in Items(L[p]) => p = Cached
    <2>1. d # a /\ \A p \in Place : d \in Items(N[p]) => p = Cached
      BY <1>3, <1>4 DEF Gets
    <2>2. \A p \in Place : p # Active => N[p] = L[p]
      BY <1>2
    <2>3. d \notin Items(L[Active])
      <3>1. d \notin Items(t)
        BY <2>1, <1>2, Places
      <3>2. a = L[Active][1]
        BY HeadCells
      <3>3. Active \in Place
        BY Places
      <3>4. L[Active] \in Seq(Cell) /\ Once(L[Active])
        BY <3>3, AccountedHas
      <3> QED BY <3>1, <3>2, <3>4, <2>1, <1>2, TailOf
    <2> HIDE DEF N
    <2> QED BY <2>1, <2>2, <2>3
  <1>14. NewFirst(g, a, L, O, b, d, k, K)
    <2> HIDE DEF K
    <2> QED BY <1>1, <1>2, <1>4, <1>8, <1>10, <1>12, <1>13 DEF NewFirst
  <1> QED BY <1>14

(* And the list becomes the queue of s.                                       *)
PutsRest(g, a, L, O, s, b, d, f) ==
    /\ a \in Cell /\ a \notin O /\ L[Active] # <<>> /\ Tail(L[Active]) \in Seq(Cell)
    /\ d \in Cell /\ d \notin O /\ d # a
    /\ \A p \in Place : d \in Items(L[p]) => p = Cached
    /\ \E M : /\ Accounted(f, NULL, M, O \cup {a})
              /\ M[Active] = <<>> /\ M[QueueOf(s)] = <<d>> \o Tail(L[Active])
              /\ \A r \in Src : r # s => M[QueueOf(r)] = L[QueueOf(r)]
    /\ f.buf = [g.buf EXCEPT ![d] = b] /\ f.wrqlast = g.wrqlast

(* This list becomes the queue.                                               *)
LEMMA PutRestIs ==
    ASSUME NEW g, NEW a, NEW L, NEW O, NEW s \in Src, g.wrq[s] = NULL, NEW b, NEW d, NEW k,
           NEW K, NewFirst(g, a, L, O, b, d, k, K)
    PROVE  PutsRest(g, a, L, O, s, b, d, gwprwrq_putback(k, s, d))
  <1> DEFINE M == [K EXCEPT ![Active] = <<>>, ![QueueOf(s)] = K[Active]]
             R == O \cup {a}
             m == gwprwrq_putback(k, s, d)
  <1>1. Accounted(k, d, K, R) /\ k.wrq[s] = NULL
    BY DEF NewFirst
  <1>2. PutsBack(k, d, K, R, s, m)
    <2> HIDE DEF R
    <2> QED BY <1>1, PutBack
  <1>3. Accounted(m, NULL, M, R) /\ Kept(k, m)
    <2> HIDE DEF R, m
    <2> QED BY <1>2 DEF PutsBack
  <1>4. /\ M[Active] = <<>> /\ M[QueueOf(s)] = <<d>> \o Tail(L[Active])
        /\ \A r \in Src : r # s => M[QueueOf(r)] = L[QueueOf(r)]
    BY Places DEF NewFirst
  <1>5. \E Z : /\ Accounted(m, NULL, Z, O \cup {a})
              /\ Z[Active] = <<>> /\ Z[QueueOf(s)] = <<d>> \o Tail(L[Active])
              /\ \A r \in Src : r # s => Z[QueueOf(r)] = L[QueueOf(r)]
    <2> HIDE DEF M, m
    <2> QED BY <1>3, <1>4
  <1> HIDE DEF M, m
  <1>6. m.buf = [g.buf EXCEPT ![d] = b] /\ m.wrqlast = g.wrqlast
    BY <1>3 DEF NewFirst, Kept
  <1>7. PutsRest(g, a, L, O, s, b, d, m)
    BY <1>5, <1>6 DEF PutsRest, NewFirst
  <1> QED BY <1>7 DEF m

(* The two together.                                                          *)
LEMMA PutRest ==
    ASSUME NEW g, NEW a, NEW L, NEW O, Accounted(g, a, L, O), a # NULL,
           Cardinality(g.alloc) < NCells, NEW s \in Src, g.wrq[s] = NULL,
           NEW b \in Seq(Byte), NEW d, d = GetCell(g),
           NEW k, k = [gwprwrq_get(g) EXCEPT !.buf[d] = b, !.next[d] = g.next[a]]
    PROVE  PutsRest(g, a, L, O, s, b, d, gwprwrq_putback(k, s, d))
  <1>1. PICK K : NewFirst(g, a, L, O, b, d, k, K)
    BY NewFirstIs
  <1> QED BY <1>1, PutRestIs
(* The parts of a buffer.                                                     *)
LEMMA TakeTypes ==
    ASSUME NEW b \in Seq(Byte), NEW n \in 0..Len(b)
    PROVE  /\ Take(b, n) \in Seq(Byte) /\ Rest(b, n) \in Seq(Byte)
           /\ Len(Take(b, n)) = n /\ Len(Rest(b, n)) = Len(b) - n
           /\ Len(b) \in Nat /\ (n = 0 => Rest(b, n) = b)
  BY TakeRest

(* Nothing was written: the item stays as it is.                              *)
LEMMA KeptWhole ==
    ASSUME Live, Taken, NEW c, c = q
    PROVE  /\ h.buf[c] \in Seq(Byte) /\ Len(h.buf[c]) =< client.len /\ Rem \in Seq(Byte)
           /\ Stores(h, c, Lists, Others, c, h.buf[c], h) /\ (written = 0 => Rem = h.buf[c])
           /\ Accounted(h, c, Lists, Others) /\ c \in Cell
           /\ Take(h.buf[c], written) \in Seq(Byte) /\ Len(Take(h.buf[c], written)) =< client.len
           /\ Len(Rem) =< client.len
  <1> USE LiveHas
  <1>1. Looping /\ q # NULL /\ written \in 0..Len(h.buf[q])
    BY DEF Taken, Looping, TakenInv
  <1>2. First = c /\ c \in Cell /\ h.buf[c] \in Seq(Byte)
    BY <1>1, LoopHand
  <1>3. Accounted(h, c, Lists, Others)
    BY <1>2, HeapIs
  <1>4. Stores(h, c, Lists, Others, c, h.buf[c], h)
    <2>1. h.buf = [h.buf EXCEPT ![c] = h.buf[c]]
      BY <1>2, HeapIs
    <2> QED BY <2>1, <1>3 DEF Stores
  <1> PICK b : b = h.buf[c]
    OBVIOUS
  <1>5. b \in Seq(Byte) /\ written \in 0..Len(b)
    BY <1>1, <1>2
  <1>6. /\ Take(b, written) \in Seq(Byte) /\ Rest(b, written) \in Seq(Byte)
        /\ Len(Take(b, written)) = written /\ Len(Rest(b, written)) = Len(b) - written
        /\ Len(b) \in Nat /\ (written = 0 => Rest(b, written) = b)
    <2> PICK n : n = written
      OBVIOUS
    <2>1. b \in Seq(Byte) /\ n \in 0..Len(b)
      BY <1>5
    <2> HIDE <1>5
    <2>2. /\ Take(b, n) \in Seq(Byte) /\ Rest(b, n) \in Seq(Byte)
          /\ Len(Take(b, n)) = n /\ Len(Rest(b, n)) = Len(b) - n
          /\ Len(b) \in Nat /\ (n = 0 => Rest(b, n) = b)
      BY <2>1, TakeTypes
    <2> QED BY <2>2
  <1>7. Len(b) =< client.len /\ client.len \in Nat
    BY <1>2, ClientIs DEF LengthInv
  <1>8. Rem = Rest(b, written)
    BY DEF Rem
  <1>9. Len(Take(b, written)) =< client.len /\ Len(Rest(b, written)) =< client.len
    <2> PICK n, m, k, j : n = Len(b) /\ m = written /\ k = client.len /\ j = Len(Rest(b, written))
      OBVIOUS
    <2>1. n \in Nat /\ m \in 0..n /\ k \in Nat /\ n =< k /\ j = n - m
      BY <1>5, <1>6, <1>7
    <2>2. m =< k /\ j =< k
      BY <2>1
    <2> QED BY <1>6, <2>2
  <1> QED BY <1>2, <1>3, <1>4, <1>6, <1>7, <1>8, <1>9

(* Writing would block.                                                       *)
LEMMA LiveBlocked ==
    ASSUME Live, ResultBlocked PROVE WriteInv'
  <1> USE LiveHas
  <1> PICK c : c = q
    OBVIOUS
  <1> PICK x : x = act
    OBVIOUS
  <1> PICK b : b = h.buf[c]
    OBVIOUS
  <1> PICK l : l = Lists[Active]
    OBVIOUS
  <1>1. PutsItem /\ errnm = "again" /\ written = 0 /\ Taken
    BY DEF PutsItem, ResultBlocked, Result, histVars, clientVars, failVars, Taken
  <1>2. /\ leaked' = leaked /\ returned' = returned /\ failed' = failed /\ stopwrite' = stopwrite
        /\ h' = gwprwrq_putback(h, x, c)
    BY DEF ResultBlocked, histVars, failVars
  <1>3. /\ b \in Seq(Byte) /\ Len(b) =< client.len /\ Rem = b
        /\ Stores(h, c, Lists, Others, c, b, h)
    BY <1>1, KeptWhole
  <1>4. PutLists(x, l) /\ LineOf(x)' = <<b>> \o Behind /\ LastInv' /\ PipeInv'
    BY <1>1, <1>2, <1>3, PutListsAre
  <1>5. PutFlags(x)
    BY <1>1, <1>4, PutFlagsAre
  <1>6. LineOf(x)' = HandOf(x)
    BY <1>3, <1>4, <1>5 DEF PutFlags
  <1>7. Restores(x)
    BY <1>1, <1>2, <1>5, <1>6 DEF Restores, PutFlags
  <1> QED BY <1>1, <1>2, <1>4, <1>6, <1>7, LivePut DEF TypeOK

(* The error callback is given what remains of the item.                      *)
LEMMA LiveErrorBack ==
    ASSUME Live, ResultError, "error" \in Callbacks PROVE WriteInv'
  <1> USE LiveHas
  <1> PICK c : c = q
    OBVIOUS
  <1> PICK x : x = act
    OBVIOUS
  <1> PICK l : l = Lists[Active]
    OBVIOUS
  <1>1. PutsItem /\ errnm = "other" /\ Taken
    BY DEF PutsItem, ResultError, Result, clientVars, Taken
  <1>2. leaked' = leaked /\ stopwrite' = TRUE /\ stopwrite' \in BOOLEAN /\ leaked' \subseteq Cell
        /\ x \in Src
    BY DEF ResultError, TypeOK
  <1>3. CASE ~(written > 0)
    <2> PICK b : b = h.buf[c]
      OBVIOUS
    <2>1. written = 0
      <3>1. written \in 0..Len(h.buf[q]) /\ Len(h.buf[c]) \in Nat
        BY <1>1, KeptWhole, LenProperties DEF TakenInv
      <3> QED BY <3>1, <1>3
    <2>2. returned' = returned /\ failed' = failed /\ h' = gwprwrq_putback(h, x, c)
      BY <1>3 DEF ResultError
    <2>3. /\ b \in Seq(Byte) /\ Len(b) =< client.len /\ Rem = b
          /\ Stores(h, c, Lists, Others, c, b, h)
      BY <1>1, <2>1, KeptWhole
    <2>4. PutLists(x, l) /\ LineOf(x)' = <<b>> \o Behind /\ LastInv' /\ PipeInv'
      BY <1>1, <1>2, <2>2, <2>3, PutListsAre
    <2>5. PutFlags(x)
      BY <1>1, <2>4, PutFlagsAre
    <2>6. LineOf(x)' = HandOf(x)
      BY <2>3, <2>4, <2>5 DEF PutFlags
    <2>7. Restores(x)
      BY <1>1, <2>2, <2>5, <2>6 DEF Restores, PutFlags
    <2> QED BY <1>1, <1>2, <2>2, <2>4, <2>6, <2>7, LivePut DEF TypeOK
  <1>4. CASE written > 0
    <2> PICK b : b = Take(h.buf[c], written)
      OBVIOUS
    <2> PICK g : g = [h EXCEPT !.buf[c] = b]
      OBVIOUS
    <2>1. /\ returned' = [returned EXCEPT ![x] = @ \o Rem] /\ failed' = failed \cup {x}
          /\ h' = gwprwrq_putback(g, x, c)
      BY <1>4 DEF ResultError
    <2>2. b \in Seq(Byte) /\ Len(b) =< client.len /\ Rem \in Seq(Byte)
          /\ Accounted(h, c, Lists, Others)
          /\ c \in Cell
      BY <1>1, KeptWhole
    <2>3. Stores(h, c, Lists, Others, c, b, g)
      BY <2>2, BufAccounted
    <2>4. PutLists(x, l) /\ LineOf(x)' = <<b>> \o Behind /\ LastInv' /\ PipeInv'
      BY <1>1, <1>2, <2>1, <2>2, <2>3, PutListsAre
    <2>5. PutFlags(x)
      BY <1>1, <2>4, PutFlagsAre
    <2>6. LineOf(x)' = <<TakenOf(x)>> \o Tail(HandOf(x))
      BY <2>4, <2>5 DEF PutFlags
    <2>7. /\ returned'[x] = Cat(returned[x], Rem) /\ returned' \in [Src -> Seq(Byte)]
          /\ \A s \in Src : s # x => returned'[s] = returned[s]
      <3>1. returned \in [Src -> Seq(Byte)] /\ returned[x] \o Rem \in Seq(Byte)
        BY <1>2, <2>2, ConcatProperties DEF TypeOK
      <3> QED BY <3>1, <2>1, <1>2 DEF Cat
    <2>8. Off(x)'
      BY <1>1, <1>2 DEF Off, PutsItem
    <2>9. Restores(x)
      BY <1>1, <2>1, <2>5, <2>6, <2>7, <2>8 DEF Restores, PutFlags
    <2>10. ~client.pipelined
      <3>1. written # 0 /\ errnm # "ok"
        BY <1>1, <1>4
      <3>2. client.partial
        BY <1>1, <3>1 DEF TakenInv
      <3> QED BY <3>2, ClientIs
    <2>11. failed' \subseteq Src /\ \A s \in Src : s # x => (s \in failed' <=> s \in failed)
      BY <2>1, <1>2 DEF TypeOK
    <2> QED BY <1>1, <1>2, <2>4, <2>7, <2>9, <2>10, <2>11, LivePut
  <1> QED BY <1>3, <1>4

(* A part was written: a new cell takes the place of the item.                *)
LEMMA PartialLists ==
    ASSUME Live, PutsItem, errnm # "ok", NEW x, x = act, NEW b \in Seq(Byte), Len(b) =< client.len,
           NEW c, c = q, leaked' = leaked \cup {c},
           NEW d, PutsRest(h, c, Lists, Others, x, b, d, h')
    PROVE  PutLists(x, <<d>> \o Tail(Lists[Active])) /\ LineOf(x)' = <<b>> \o Behind
  <1> USE LiveHas, PutsEvents
  <1> PICK t : t = Tail(Lists[Active])
    OBVIOUS
  <1>1. /\ c \in Cell /\ c \notin Others /\ t \in Seq(Cell)
        /\ d \in Cell /\ d \notin Others /\ d # c
        /\ \A p \in Place : d \in Items(Lists[p]) => p = Cached
        /\ h'.buf = [h.buf EXCEPT ![d] = b] /\ h'.wrqlast = h.wrqlast
    BY DEF PutsRest
  <1>2. PICK M : /\ Accounted(h', NULL, M, Others \cup {c})
                 /\ M[Active] = <<>> /\ M[QueueOf(x)] = <<d>> \o t
                 /\ \A r \in Src : r # x => M[QueueOf(r)] = Lists[QueueOf(r)]
    BY DEF PutsRest
  <1>3. Others' = Others \cup {c} /\ Loose' \cap leaked' = {}
    BY <1>1 DEF Others, CellsInv
  <1>4. Lists' = M /\ CellsInv'
    BY <1>2, <1>3, Relist DEF PutsItem
  <1>5. /\ Lists'[Active] = <<>> /\ Lists'[QueueOf(x)] = <<d>> \o t
        /\ \A s \in Src : s # x => SameQueue(s)
    BY <1>2, <1>4 DEF SameQueue
  <1>6. h'.buf \in [Cell -> Seq(Byte)] /\ h'.buf[d] = b
        /\ \A a \in Cell : a # d => h'.buf[a] = h.buf[a]
    <2>1. h.buf \in [Cell -> Seq(Byte)]
      BY HeapIs
    <2> QED BY <1>1, <2>1
  <1>7. LengthInv'
    BY <1>6 DEF LengthInv, PutsItem
  <1>8. \A s \in Src : SameBufs(s)
    <2> TAKE s \in Src
    <2>1. d \notin Items(Lists[QueueOf(s)])
      BY <1>1, Places
    <2>2. d \notin EventCells
      BY <1>1 DEF Others, Loose
    <2>3. \A a \in Items(Lists[QueueOf(s)]) \cup EventCells : a \in Cell /\ a # d
      BY <2>1, <2>2, HeapIs DEF EventCells, EventsInv
    <2> QED BY <2>3, <1>6 DEF SameBufs
  <1>9. LineOf(x)' = <<b>> \o Behind
    <2>1. d \notin Items(t)
      <3>1. Active \in Place /\ Lists[Active] \in Seq(Cell) /\ Lists[Active] # <<>>
            /\ Active # Cached
        BY HeapIs, LoopHand, Places
      <3>2. Items(t) \subseteq Items(Lists[Active])
        <4> PICK l : l = Lists[Active]
          OBVIOUS
        <4>1. l \in Seq(Cell) /\ l # <<>> /\ t = Tail(l)
          BY <3>1
        <4> QED BY <4>1, TailOf
      <3> QED BY <3>1, <3>2, <1>1
    <2>2. \A a \in Items(t) : a \in Cell /\ a # d
      BY <2>1, <1>1, ElementOfSeq DEF Items
    <2> PICK m : m = h'.buf
      OBVIOUS
    <2>3. Bufs(m, t) = Behind
      <3>1. \A a \in Items(t) : m[a] = h.buf[a]
        BY <2>2, <1>6
      <3>2. Bufs(m, t) = Bufs(h.buf, t)
        BY <3>1, <1>1, BufsSame
      <3> QED BY <3>2 DEF Behind
    <2>4. Bufs(m, <<d>> \o t) = <<b>> \o Bufs(m, t)
      <3>1. m \in [Cell -> Seq(Byte)] /\ m[d] = b
        BY <1>6
      <3>2. Bufs(m, <<d>> \o t) = <<m[d]>> \o Bufs(m, t)
        BY <3>1, <1>1, BufsCons
      <3> QED BY <3>1, <3>2
    <2>5. LineOf(x)' = Bufs(m, <<d>> \o t)
      BY <1>5 DEF LineOf
    <2> QED BY <2>3, <2>4, <2>5
  <1> QED BY <1>1, <1>4, <1>5, <1>7, <1>8, <1>9 DEF PutLists

(* An item of which a part was taken (gwprwrq_putback of a new cell).         *)
LEMMA LivePartial ==
    ASSUME Live, ResultPartial PROVE WriteInv'
  <1> USE LiveHas
  <1> PICK c : c = q
    OBVIOUS
  <1> PICK x : x = act
    OBVIOUS
  <1> PICK b : b = Rem
    OBVIOUS
  <1> PICK d : d = GetCell(h)
    OBVIOUS
  <1> PICK g : g = [gwprwrq_get(h) EXCEPT !.buf[d] = b, !.next[d] = h.next[c]]
    OBVIOUS
  <1> PICK l : l = <<d>> \o Tail(Lists[Active])
    OBVIOUS
  <1>1. PutsItem /\ errnm = "again" /\ written > 0 /\ Taken
    BY DEF PutsItem, ResultPartial, Result, clientVars, failVars, Taken
  <1>2. /\ leaked' = leaked \cup {c} /\ returned' = returned /\ failed' = failed
        /\ stopwrite' = stopwrite /\ h' = gwprwrq_putback(g, x, d) /\ HeapHas(1)
    BY DEF ResultPartial, failVars
  <1>3. Cardinality(h.alloc) < NCells
    <2>1. Cardinality(h.alloc) \in Nat
      BY HeapIs, CellsBound DEF HeapType
    <2> QED BY <2>1, <1>2, BoundAssumption DEF HeapHas
  <1>4. b \in Seq(Byte) /\ Len(b) =< client.len
    BY <1>1, KeptWhole
  <1>12. PutsRest(h, c, Lists, Others, x, b, d, h')
    <2>1. Accounted(h, c, Lists, Others)
      BY <1>1, KeptWhole
    <2>2. x \in Src /\ h.wrq[x] = NULL
      BY <1>1, QueueIsEmpty
    <2>3. c # NULL
      BY <1>1 DEF TakenInv
    <2>4. PutsRest(h, c, Lists, Others, x, b, d, gwprwrq_putback(g, x, d))
      BY <2>1, <2>2, <2>3, <1>3, <1>4, PutRest
    <2> QED BY <2>4, <1>2
  <1>5. PutLists(x, l) /\ LineOf(x)' = <<b>> \o Behind /\ c \in Cell
    <2>1. c \in Cell
      BY <1>12 DEF PutsRest
    <2> QED BY <2>1, <1>1, <1>2, <1>12, <1>4, PartialLists
  <1>6. PutFlags(x)
    BY <1>1, <1>5, PutFlagsAre
  <1>7. LineOf(x)' = HandOf(x)
    BY <1>5, <1>6 DEF PutFlags
  <1>8. Restores(x)
    BY <1>1, <1>2, <1>6, <1>7 DEF Restores, PutFlags
  <1>9. ~client.pipelined
    <2>1. written # 0 /\ errnm # "ok"
      BY <1>1
    <2>2. client.partial
      BY <1>1, <2>1 DEF TakenInv
    <2> QED BY <2>2, ClientIs
  <1>10. LastInv' /\ PipeInv'
    <2>1. short' = short /\ deleted' = deleted /\ client' = client
      BY <1>1 DEF PutsItem
    <2>2. h'.wrqlast = h.wrqlast
      BY <1>5 DEF PutLists
    <2> QED BY <1>9, <2>1, <2>2, LastWaits
  <1>11. leaked' \subseteq Cell /\ returned' \in [Src -> Seq(Byte)] /\ failed' \subseteq Src
         /\ stopwrite' \in BOOLEAN
    BY <1>2, <1>5 DEF TypeOK
  <1> QED BY <1>1, <1>2, <1>5, <1>7, <1>8, <1>10, <1>11, LivePut

-----------------------------------------------------------------------------
(* A write of the client.  From g to f the queue of s grows and the cells X   *)
(* leave the cache or the heap; the buffers of other cells in use stay, and   *)
(* every buffer that changes is one of B.                                     *)
Grows(g, a, L, O, s, B, f, M, X) ==
    /\ Accounted(f, a, M, O \cup X) /\ X \subseteq Cell /\ X \cap O = {}
    /\ \A p \in Place : p # Cached => \A e \in Items(L[p]) : f.buf[e] = g.buf[e]
    /\ \A e \in O : f.buf[e] = g.buf[e]
    /\ \A e \in Cell : f.buf[e] = g.buf[e] \/ f.buf[e] \in B
    /\ \A p \in Place : p # Cached /\ p # QueueOf(s) => M[p] = L[p]
    /\ Items(L[QueueOf(s)]) \subseteq Items(M[QueueOf(s)])
    /\ \A t \in Src : t # s => f.wrqlast[t] = g.wrqlast[t]

(* Two cells one after the other.                                             *)
LEMMA GrowsMore ==
    ASSUME NEW g, NEW a, NEW L, NEW O, NEW s \in Src, NEW B, NEW f, NEW M, NEW X,
           Grows(g, a, L, O, s, B, f, M, X),
           NEW C, NEW k, NEW N, NEW Y, Grows(f, a, M, O \cup X, s, C, k, N, Y)
    PROVE  Grows(g, a, L, O, s, B \cup C, k, N, X \cup Y)
  <1>1. Accounted(k, a, N, O \cup (X \cup Y))
    <2>1. (O \cup X) \cup Y = O \cup (X \cup Y)
      OBVIOUS
    <2>2. Accounted(k, a, N, (O \cup X) \cup Y)
      BY DEF Grows
    <2> QED BY <2>1, <2>2
  <1>2. X \cup Y \subseteq Cell /\ (X \cup Y) \cap O = {}
    BY DEF Grows
  <1>3. \A p \in Place : p # Cached => \A e \in Items(L[p]) : k.buf[e] = g.buf[e]
    <2> TAKE p \in Place
    <2> HAVE p # Cached
    <2> TAKE e \in Items(L[p])
    <2>1. f.buf[e] = g.buf[e]
      BY DEF Grows
    <2>2. e \in Items(M[p])
      BY DEF Grows
    <2>3. k.buf[e] = f.buf[e]
      BY <2>2 DEF Grows
    <2> QED BY <2>1, <2>3
  <1>4. \A e \in O : k.buf[e] = g.buf[e]
    BY DEF Grows
  <1>5. \A e \in Cell : k.buf[e] = g.buf[e] \/ k.buf[e] \in B \cup C
    BY DEF Grows
  <1>6. \A p \in Place : p # Cached /\ p # QueueOf(s) => N[p] = L[p]
    BY DEF Grows
  <1>7. Items(L[QueueOf(s)]) \subseteq Items(N[QueueOf(s)])
    BY DEF Grows
  <1>8. \A t \in Src : t # s => k.wrqlast[t] = g.wrqlast[t]
    BY DEF Grows
  <1> QED BY <1>1, <1>2, <1>3, <1>4, <1>5, <1>6, <1>7, <1>8 DEF Grows

(* A cell c is taken for the buffer b.                                        *)
TakesCell(g, a, L, O, s, b, c, f) ==
    /\ Grows(g, a, L, O, s, {b}, f, Gotten(L), {c})
    /\ Gotten(L)[QueueOf(s)] = L[QueueOf(s)]
    /\ f.buf[c] = b /\ f.wrqlast = g.wrqlast /\ f.wrq = g.wrq /\ c \in Cell /\ c \notin O
    /\ Cardinality(f.alloc) =< Cardinality(g.alloc) + 1

(* A cell with a buffer for an event.                                         *)
LEMMA TakeCell ==
    ASSUME NEW g, NEW a, NEW L, NEW O, Accounted(g, a, L, O), Cardinality(g.alloc) < NCells,
           NEW s \in Src, NEW b \in Seq(Byte)
    PROVE  TakesCell(g, a, L, O, s, b, GetCell(g), [gwprwrq_get(g) EXCEPT !.buf[GetCell(g)] = b])
  <1> PICK c : c = GetCell(g)
    OBVIOUS
  <1> PICK k : k = gwprwrq_get(g)
    OBVIOUS
  <1> PICK f : f = [k EXCEPT !.buf[c] = b]
    OBVIOUS
  <1>1. Gets(g, a, L, O, c, k)
    <2>1. Gets(g, a, L, O, GetCell(g), gwprwrq_get(g))
      BY GetAccounted
    <2> QED BY <2>1
  <1>2. /\ c \in Cell /\ c \notin O /\ k.buf = g.buf /\ k.wrqlast = g.wrqlast
        /\ \A p \in Place : c \in Items(L[p]) => p = Cached
        /\ Accounted(k, a, Gotten(L), O \cup {c})
        /\ Cardinality(k.alloc) =< Cardinality(g.alloc) + 1
    BY <1>1 DEF Gets, Kept
  <1>3. Stores(k, a, Gotten(L), O \cup {c}, c, b, f)
    <2>1. Stores(k, a, Gotten(L), O \cup {c}, c, b, [k EXCEPT !.buf[c] = b])
      BY <1>2, BufAccounted
    <2> QED BY <2>1
  <1>4. /\ Accounted(f, a, Gotten(L), O \cup {c}) /\ f.wrqlast = g.wrqlast
        /\ f.alloc = k.alloc /\ f.wrq = k.wrq /\ f.buf = [g.buf EXCEPT ![c] = b]
    BY <1>2, <1>3 DEF Stores
  <1>5. k.wrq = g.wrq /\ g.buf \in [Cell -> Seq(Byte)]
    <2>1. HeapType(g) /\ GetCell(g) \in Cell
      BY <1>2, AccountedHas
    <2> QED BY <2>1, GetFields DEF HeapType
  <1>6. f.buf[c] = b /\ \A e \in Cell : e # c => f.buf[e] = g.buf[e]
    BY <1>2, <1>4, <1>5
  <1>7. L \in [Place -> Seq(Cell)] /\ O \subseteq Cell
        /\ \A p \in Place : Items(L[p]) \subseteq Cell
    <2>1. HeapType(g) /\ L \in [Place -> Seq(Cell)] /\ g.alloc = CellsIn(L) \cup O
      BY AccountedHas
    <2>2. \A p \in Place : Items(L[p]) \subseteq Cell
      BY AccountedHas
    <2> QED BY <2>1, <2>2 DEF HeapType
  <1>8. \A p \in Place : p # Cached => Gotten(L)[p] = L[p]
    BY <1>7, GottenIs
  <1>9. QueueOf(s) \in Place /\ QueueOf(s) # Cached
    BY Places
  <1>10. Grows(g, a, L, O, s, {b}, f, Gotten(L), {c})
    <2>1. \A p \in Place : p # Cached => \A e \in Items(L[p]) : f.buf[e] = g.buf[e]
      <3> TAKE p \in Place
      <3> HAVE p # Cached
      <3> TAKE e \in Items(L[p])
      <3>1. e \in Cell /\ e # c
        BY <1>2, <1>7
      <3> QED BY <3>1, <1>6
    <2>2. \A e \in O : f.buf[e] = g.buf[e]
      BY <1>2, <1>6, <1>7
    <2>3. \A e \in Cell : f.buf[e] = g.buf[e] \/ f.buf[e] \in {b}
      BY <1>6
    <2>4. Items(L[QueueOf(s)]) \subseteq Items(Gotten(L)[QueueOf(s)])
      BY <1>8, <1>9
    <2> QED BY <1>2, <1>4, <1>8, <2>1, <2>2, <2>3, <2>4 DEF Grows
  <1>11. TakesCell(g, a, L, O, s, b, c, f)
    BY <1>2, <1>4, <1>5, <1>6, <1>8, <1>9, <1>10 DEF TakesCell
  <1> QED BY <1>11

(* A cell c with the buffer b is put behind the queue of s.                   *)
QueuesCell(g, a, L, O, s, b, c, f) ==
    /\ Grows(g, a, L, O, s, {b}, f, Queued(L, s, c), {})
    /\ Queued(L, s, c)[QueueOf(s)] = Append(L[QueueOf(s)], c)
    /\ Queued(L, s, c)[Cached] = Gotten(L)[Cached]
    /\ L[Cached] # <<>> => c = L[Cached][1]
    /\ f.buf[c] = b /\ c \in Cell /\ c \notin O
    /\ f.wrqlast = IF L[QueueOf(s)] = <<>> THEN g.wrqlast ELSE [g.wrqlast EXCEPT ![s] = c]
    /\ Cardinality(f.alloc) =< Cardinality(g.alloc) + 1

(* A cell with a buffer for the queue.                                        *)
LEMMA QueueCell ==
    ASSUME NEW g, NEW a, NEW L, NEW O, Accounted(g, a, L, O), Cardinality(g.alloc) < NCells,
           NEW s \in Src, NEW b \in Seq(Byte), EndIs(g.wrqlast[s], L[QueueOf(s)])
    PROVE  QueuesCell(g, a, L, O, s, b, GetCell(g), Queue(g, s, b))
  <1> PICK c : c = GetCell(g)
    OBVIOUS
  <1> PICK f : f = Queue(g, s, b)
    OBVIOUS
  <1>1. Queues(g, a, L, O, s, b, c, f)
    <2>1. Queues(g, a, L, O, s, b, GetCell(g), Queue(g, s, b))
      BY QueueAccounted
    <2> QED BY <2>1
  <1> DEFINE M == Queued(L, s, c)
             Q == QueueOf(s)
  <1>2. /\ c \in Cell /\ c \notin O /\ \A p \in Place : c \in Items(L[p]) => p = Cached
        /\ L[Cached] # <<>> => c = L[Cached][1]
        /\ Accounted(f, a, M, O) /\ f.buf = [g.buf EXCEPT ![c] = b]
        /\ f.wrqlast = IF L[Q] = <<>> THEN g.wrqlast ELSE [g.wrqlast EXCEPT ![s] = c]
        /\ Cardinality(f.alloc) =< Cardinality(g.alloc) + 1
    BY <1>1 DEF Queues
  <1>3. /\ L \in [Place -> Seq(Cell)] /\ O \subseteq Cell /\ g.buf \in [Cell -> Seq(Byte)]
        /\ g.wrqlast \in [Src -> Ptr] /\ \A p \in Place : Items(L[p]) \subseteq Cell
    <2>1. HeapType(g) /\ L \in [Place -> Seq(Cell)] /\ g.alloc = CellsIn(L) \cup O
      BY AccountedHas
    <2>2. \A p \in Place : Items(L[p]) \subseteq Cell
      BY AccountedHas
    <2> QED BY <2>1, <2>2 DEF HeapType
  <1>4. f.buf[c] = b /\ \A e \in Cell : e # c => f.buf[e] = g.buf[e]
    BY <1>2, <1>3
  <1>5. /\ M[Q] = Append(L[Q], c) /\ M[Cached] = Gotten(L)[Cached]
        /\ \A p \in Place : p # Cached /\ p # Q => M[p] = L[p]
        /\ Q \in Place /\ Q # Cached /\ L[Q] \in Seq(Cell)
    <2>1. /\ Gotten(L) \in [Place -> Seq(Cell)]
          /\ \A p \in Place : p # Cached => Gotten(L)[p] = L[p]
          /\ Q \in Place /\ Q # Cached /\ Cached \in Place
      BY <1>3, GottenIs, Places
    <2> HIDE DEF Q
    <2> QED BY <2>1, <1>3 DEF Queued, Q
  <1>6. Items(L[Q]) \subseteq Items(M[Q])
    <2> PICK l : l = L[Q]
      OBVIOUS
    <2>1. l \in Seq(Cell) /\ M[Q] = Append(l, c)
      BY <1>5
    <2> HIDE DEF M, Q
    <2>2. Items(Append(l, c)) = Items(l) \cup {c}
      BY <2>1, <1>2, AppendIs
    <2> QED BY <2>1, <2>2
  <1> HIDE DEF M, Q
  <1>7. \A p \in Place : p # Cached => \A e \in Items(L[p]) : f.buf[e] = g.buf[e]
    <2> TAKE p \in Place
    <2> HAVE p # Cached
    <2> TAKE e \in Items(L[p])
    <2>1. e \in Cell /\ e # c
      BY <1>2, <1>3
    <2> QED BY <2>1, <1>4
  <1>8. \A e \in O : f.buf[e] = g.buf[e]
    BY <1>2, <1>3, <1>4
  <1>9. \A e \in Cell : f.buf[e] = g.buf[e] \/ f.buf[e] \in {b}
    BY <1>4
  <1>10. \A t \in Src : t # s => f.wrqlast[t] = g.wrqlast[t]
    BY <1>2, <1>3
  <1>11. O \cup {} = O /\ {} \subseteq Cell /\ {} \cap O = {}
    OBVIOUS
  <1>12. Grows(g, a, L, O, s, {b}, f, M, {})
    BY <1>2, <1>5, <1>6, <1>7, <1>8, <1>9, <1>10, <1>11 DEF Grows, Q
  <1>13. QueuesCell(g, a, L, O, s, b, c, f)
    BY <1>2, <1>4, <1>5, <1>12 DEF QueuesCell, M, Q
  <1> QED BY <1>13

(* What such a step leaves as it was.                                         *)
SameWork ==
    /\ UNCHANGED <<pc, act, q, qn, written, errnm>>
    /\ client' = client /\ leaked' = leaked /\ closed \subseteq closed'
Grown(s, M) ==
    /\ CellsInv' /\ Lists' = M /\ TakenInv' /\ LengthInv' /\ h'.buf \in [Cell -> Seq(Byte)]
    /\ \A t \in Src : SameHand(t) /\ SameBufs(t)
    /\ \A t \in Src : t # s => SameQueue(t)

(* After a write the lists are as before, but for the new cells.              *)
LEMMA GrownIs ==
    ASSUME Live, NEW s \in Src, NEW B, NEW M, NEW X, Grows(h, First, Lists, Others, s, B, h', M, X),
           \A b \in B : Len(b) =< client.len, SameWork, Loose' = Loose \cup X
    PROVE  Grown(s, M)
  <1> USE LiveHas
  <1>1. First' = First /\ (Looping' <=> Looping) /\ (Taken' <=> Taken) /\ client' = client
    BY DEF SameWork, First, Looping, Taken
  <1>2. Others' = Others \cup X /\ Loose' \cap leaked' = {}
    BY DEF Others, CellsInv, SameWork, Grows
  <1>3. Accounted(h', First, M, Others \cup X)
    BY DEF Grows
  <1>4. Lists' = M /\ CellsInv'
    BY <1>1, <1>2, <1>3, Relist
  <1>5. /\ Active \in Place /\ Active # Cached
        /\ \A t \in Src : QueueOf(t) \in Place /\ QueueOf(t) # Cached /\ QueueOf(t) # Active
                          /\ (t # s => QueueOf(t) # QueueOf(s))
    BY Places
  <1>6. Lists'[Active] = Lists[Active] /\ \A t \in Src : t # s => SameQueue(t)
    BY <1>4, <1>5 DEF Grows, SameQueue
  <1>7. \A t \in Src : SameBufs(t)
    <2> TAKE t \in Src
    <2>1. \A e \in Items(Lists[QueueOf(t)]) : h'.buf[e] = h.buf[e]
      BY <1>5 DEF Grows
    <2>2. \A e \in EventCells : h'.buf[e] = h.buf[e]
      <3>1. EventCells \subseteq Others
        BY DEF Others, Loose
      <3> QED BY <3>1 DEF Grows
    <2> QED BY <2>1, <2>2 DEF SameBufs
  <1>8. \A e \in Items(Lists[Active]) : h'.buf[e] = h.buf[e]
    BY <1>5 DEF Grows
  <1>9. \A t \in Src : SameHand(t)
    BY <1>6, <1>8, HandSame DEF SameWork
  <1>10. h'.buf \in [Cell -> Seq(Byte)]
    <2> PICK f : f = h'
      OBVIOUS
    <2>1. Accounted(f, First, M, Others \cup X)
      BY <1>3
    <2>2. HeapType(f)
      BY <2>1, AccountedHas
    <2> QED BY <2>2 DEF HeapType
  <1>11. LengthInv'
    <2> SUFFICES ASSUME NEW e \in Cell PROVE Len(h'.buf[e]) =< client'.len
      BY DEF LengthInv
    <2>1. h'.buf[e] = h.buf[e] \/ h'.buf[e] \in B
      BY DEF Grows
    <2> QED BY <2>1, <1>1 DEF LengthInv
  <1>12. TakenInv'
    <2>1. CASE Taken
      <3> PICK f, c : f = h' /\ c = q
        OBVIOUS
      <3>1. Looping /\ q # NULL /\ First = q
        BY <2>1 DEF Looping, Taken, TakenInv, First
      <3>2. Lists[Active] # <<>> /\ q \in Items(Lists[Active])
        BY <3>1, LoopHand
      <3>3. h.next[c] = IF Len(Lists[Active]) = 1 THEN NULL ELSE Lists[Active][2]
        <4>1. Accounted(h, c, Lists, Others)
          BY <3>1, HeapIs
        <4> QED BY <3>1, <4>1, ActiveNext
      <3>4. f.next[c] = IF Len(M[Active]) = 1 THEN NULL ELSE M[Active][2]
        <4>1. Accounted(f, c, M, Others \cup X)
          BY <3>1, <1>3
        <4> QED BY <3>1, <4>1, ActiveNext
      <3>5. M[Active] = Lists[Active]
        BY <1>4, <1>6
      <3>6. f.next[c] = h.next[c]
        BY <3>3, <3>4, <3>5
      <3>7. h'.buf[q] = h.buf[q]
        BY <3>2, <1>8
      <3>8. h'.next[q] = h.next[q]
        BY <3>6
      <3>9. /\ q # NULL /\ qn = h.next[q] /\ written \in 0..Len(h.buf[q])
            /\ errnm = "ok" <=> written = Len(h.buf[q])
            /\ errnm = "closed" => act \in closed
            /\ client.partial \/ written = 0 \/ errnm = "ok"
        BY <2>1 DEF TakenInv
      <3>10. pc # "synccb"
        BY <2>1 DEF Taken
      <3> QED BY <1>1, <3>7, <3>8, <3>9, <3>10 DEF TakenInv, SameWork
    <2>2. CASE ~Taken
      BY <1>1, <2>2 DEF TakenInv, SameWork
    <2> QED BY <2>1, <2>2
  <1> QED BY <1>4, <1>6, <1>7, <1>9, <1>10, <1>11, <1>12 DEF Grown

(* A call of a write function on s.                                           *)
Wrote(s, d) ==
    /\ s \in Src /\ s \in client.src /\ d = Data(nwrites + 1) /\ IsWrite(nwrites + 1, d)
    /\ nwrites < client.writes /\ nwrites' = nwrites + 1 /\ nwrites' \in Nat
    /\ submitted' = [submitted EXCEPT ![s] = Cat(@, d)]
    /\ submitted' \in [Src -> Seq(Byte)] /\ submitted'[s] = Cat(submitted[s], d)
    /\ \A t \in Src : t # s => submitted'[t] = submitted[t]
    /\ SourceOk(s) /\ SourceType(s) /\ FreshInv'
    /\ ~client.pipelined => Quiet(s)
    /\ client.pipelined => pc = "idle" /\ client.sync = {FALSE}
    /\ Cardinality(h.alloc) \in Nat /\ Cardinality(h.alloc) + 3 =< NCells
    /\ \A m \in 0..(client.len - 1) :
         Lacks(submitted[s], submitted'[s]) /\ Lacks(Take(d, m), submitted'[s])

(* The stream after gwpr_write.                                               *)
LEMMA WroteIs ==
    ASSUME Live, NEW s \in Src, Submit(s), NEW d, d = Data(nwrites + 1)
    PROVE  Wrote(s, d)
  <1> USE LiveHas
  <1>1. /\ nwrites \in Nat /\ client.len \in Nat \ {0} /\ nwrites + 1 \in Nat
        /\ (client.pipelined => ~client.inCallback /\ client.sync = {FALSE})
    <2>1. nwrites \in Nat /\ client.len \in Nat \ {0}
      BY ClientIs
    <2>2. client.pipelined => ~client.inCallback /\ client.sync = {FALSE}
      BY ClientIs
    <2>3. nwrites + 1 \in Nat
      BY <2>1
    <2> HIDE LiveHas
    <2> QED BY <2>1, <2>2, <2>3
  <1>2. IsWrite(nwrites + 1, d)
    BY <1>1, DataIs
  <1>3. d \in Seq(Byte)
    BY <1>2 DEF IsWrite
  <1>4. /\ s \in client.src /\ nwrites < client.writes /\ nwrites' = nwrites + 1 /\ s \notin deleted
        /\ (client.pipelined \/ reported[s] = submitted[s]) /\ HeapHas(3)
        /\ (pc = "idle" \/ client.inCallback)
        /\ submitted' = [submitted EXCEPT ![s] = @ \o d]
    BY DEF Submit, MayWrite
  <1>5. submitted \in [Src -> Seq(Byte)] /\ submitted[s] \in Seq(Byte)
    BY DEF TypeOK
  <1>6. Cat(submitted[s], d) \in Seq(Byte)
    BY <1>3, <1>5, CatType
  <1>7. /\ submitted' = [submitted EXCEPT ![s] = Cat(@, d)]
        /\ submitted' \in [Src -> Seq(Byte)] /\ submitted'[s] = Cat(submitted[s], d)
        /\ \A t \in Src : t # s => submitted'[t] = submitted[t]
    <2>1. submitted' = [submitted EXCEPT ![s] = Cat(@, d)]
      BY <1>4 DEF Cat
    <2> QED BY <2>1, <1>5, <1>6
  <1>8. SourceType(s) /\ SourceOk(s)
    BY SourceTypes DEF SourceInv, SourceOk
  <1>9. ~client.pipelined => Quiet(s)
    BY <1>4, <1>8, MayWriteQuiet DEF SourceOk
  <1>10. client.pipelined => pc = "idle" /\ client.sync = {FALSE}
    BY <1>1, <1>4
  <1>11. Cardinality(h.alloc) \in Nat /\ Cardinality(h.alloc) + 3 =< NCells
    <2>1. Cardinality(h.alloc) \in Nat
      BY HeapIs, CellsBound DEF HeapType
    <2> QED BY <2>1, <1>4 DEF HeapHas
  <1>12. /\ Fresh(Cat(submitted[s], d), nwrites + 1)
         /\ \A m \in 0..(client.len - 1) :
              Lacks(submitted[s], submitted'[s]) /\ Lacks(Take(d, m), submitted'[s])
    <2>1. Fresh(submitted[s], nwrites)
      BY DEF FreshInv
    <2> QED BY <2>1, <1>1, <1>5, <1>7, FreshWrite
  <1>13. FreshInv'
    <2> SUFFICES ASSUME NEW t \in Src PROVE Fresh(submitted'[t], nwrites')
      BY DEF FreshInv
    <2>1. CASE t = s
      BY <2>1, <1>4, <1>7, <1>12
    <2>2. CASE t # s
      <3>1. Fresh(submitted[t], nwrites) /\ submitted[t] \in Seq(Byte)
        BY DEF FreshInv, TypeOK
      <3>2. Fresh(submitted[t], nwrites + 1)
        BY <3>1, <1>1, FreshWrite
      <3> QED BY <3>2, <2>2, <1>4, <1>7
    <2> QED BY <2>1, <2>2
  <1> QED BY <1>1, <1>2, <1>4, <1>7, <1>8, <1>9, <1>10, <1>11, <1>12, <1>13 DEF Wrote

(* The other sources.                                                         *)
OthersStay(s) ==
    /\ UNCHANGED <<batch, stopwrite, deleted, reported, returned, failed>>
    /\ \A t \in Src : t # s =>
         /\ sent'[t] = sent[t] /\ SyncOf(t)' = SyncOf(t)
         /\ t \in closed' <=> t \in closed
         /\ t \in short' <=> t \in short
         /\ t \in wr' <=> t \in wr
    /\ sent' \in [Src -> Seq(Byte)] /\ closed' \subseteq Src /\ short' \subseteq Src
    /\ wr' \subseteq Src /\ halted' \subseteq Src /\ events' \in Seq(Event)

(* gwpr_write keeps the invariant if its source, the events and wrqlast do.   *)
LEMMA LiveWrote ==
    ASSUME Live, NEW s, NEW d, Wrote(s, d), NEW M, Grown(s, M), SameWork, OthersStay(s),
           SourceOk(s)', EventsInv', LastInv', PipeInv'
    PROVE  WriteInv'
  <1> USE LiveHas
  <1>1. \A t \in Src : t # s => Stays(t)
    <2> TAKE t \in Src
    <2> HAVE t # s
    <2>1. SameHand(t) /\ SameQueue(t) /\ SameBufs(t)
      BY DEF Grown
    <2>2. SyncOf(t)' = SyncOf(t)
      BY DEF OthersStay
    <2>3. OffStays(t)
      BY DEF OffStays, Off, OthersStay, SameWork
    <2>4. SameBytes(t)
      BY DEF SameBytes, SameSent, SameFlags, OthersStay, Wrote
    <2> QED BY <2>1, <2>2, <2>3, <2>4, StaysIf
  <1>2. SourceInv'
    BY <1>1, OneSource DEF SameWork
  <1>3. TypeOK'
    <2>1. HeapOK(h', client')
      BY HeapTypeOK DEF Grown, SameWork, HeapOK
    <2>2. nwrites' \in 0..client'.writes
      BY ClientIs DEF Wrote, SameWork
    <2>3. submitted' \in [Src -> Seq(Byte)]
      BY DEF Wrote
    <2> QED BY <2>1, <2>2, <2>3 DEF OthersStay, SameWork, TypeOK, HeapOK
  <1>4. pc' # "freed"
    BY DEF SameWork
  <1>5. FreshInv'
    BY DEF Wrote
  <1> QED BY <1>2, <1>3, <1>4, <1>5, LiveWrite DEF Grown

(* A count that grows with its bound.                                         *)
LEMMA SumBound ==
    ASSUME NEW a \in Nat, NEW b \in Nat, NEW e \in Nat, NEW n \in Nat, a =< b, b + e =< n
    PROVE  a + (e + 1) =< n + 1
  OBVIOUS

(* wrqlast when a client that pipelines queues a write.                       *)
LEMMA QueuedLast ==
    ASSUME Live, NEW s, NEW d, Wrote(s, d), client.pipelined, NEW c, NEW M,
           QueuesCell(h, First, Lists, Others, s, d, c, h'), M = Queued(Lists, s, c),
           Lists' = M, SameWork, short' = short, deleted' = deleted
    PROVE  LastInv' /\ PipeInv'
  <1> USE LiveHas
  <1>1. pc = "idle" /\ pc' = "idle" /\ client' = client /\ act' = act /\ s \in Src
    BY DEF Wrote, SameWork
  <1>2. Lists[Active] = <<>>
    BY <1>1, IdleHand DEF Looping
  <1>3. /\ Active \in Place /\ Active # Cached /\ Active # QueueOf(s)
        /\ \A t \in Src : /\ QueueOf(t) \in Place /\ QueueOf(t) # Cached
                          /\ (t # s => QueueOf(t) # QueueOf(s))
    BY <1>1, Places
  <1>4. /\ M[Active] = <<>> /\ \A t \in Src : t # s => M[QueueOf(t)] = Lists[QueueOf(t)]
        /\ \A t \in Src : t # s => h'.wrqlast[t] = h.wrqlast[t]
    BY <1>2, <1>3 DEF QueuesCell, Grows
  <1>5. \A t \in Src : Line(t) = Lists[QueueOf(t)] /\ Line(t)' = M[QueueOf(t)]
    BY <1>2, <1>4 DEF Line
  <1>6. /\ client.src \subseteq Src /\ s \in client.src /\ nwrites \in Nat /\ nwrites' = nwrites + 1
        /\ \A t \in client.src : t = s
    <2>1. client.src \subseteq Src /\ nwrites \in Nat /\ \A t, r \in client.src : t = r
      BY ClientIs
    <2> QED BY <2>1 DEF Wrote
  <1>7. \A t \in Src : t # s => Line(t) = <<>> /\ h.wrqlast[t] = NULL
    BY <1>6 DEF PipeInv
  <1>8. \A t \in Src : t # s => Line(t)' = <<>> /\ h'.wrqlast[t] = NULL
    BY <1>4, <1>5, <1>7
  <1> PICK l : l = Lists[QueueOf(s)]
    OBVIOUS
  <1> PICK k : k = Lists[Cached]
    OBVIOUS
  <1> PICK j : j = M[Cached]
    OBVIOUS
  <1>9. /\ l \in Seq(Cell) /\ Line(s) = l /\ Line(s)' = Append(l, c) /\ c \in Cell
        /\ k \in Seq(Cell) /\ (k # <<>> => c = k[1])
    <2>1. Lists \in [Place -> Seq(Cell)] /\ Cached \in Place /\ QueueOf(s) \in Place
      BY <1>1, HeapIs
    <2>2. M[QueueOf(s)] = Append(Lists[QueueOf(s)], c) /\ c \in Cell
          /\ (Lists[Cached] # <<>> => c = Lists[Cached][1])
      BY DEF QueuesCell
    <2> QED BY <2>1, <2>2, <1>1, <1>5
  <1>10. Len(k) \in Nat /\ Len(j) \in Nat /\ Len(j) =< Len(k)
    <2>1. j = Gotten(Lists)[Cached] /\ Lists \in [Place -> Seq(Cell)] /\ Cached \in Place
      BY HeapIs DEF QueuesCell
    <2>2. Gotten(Lists) \in [Place -> Seq(Cell)]
      BY <2>1, GottenIs
    <2>3. j \in Seq(Cell)
      BY <2>1, <2>2
    <2>4. CASE k = <<>>
      <3>1. j = k
        BY <2>1, <2>4, GottenIs
      <3> QED BY <3>1, <2>3, LenProperties
    <2>5. CASE k # <<>>
      <3>1. Len(j) = Len(k) - 1
        BY <2>1, <2>5, GottenIs
      <3> QED BY <3>1, <2>3, <1>9, LenProperties
    <2> QED BY <2>4, <2>5
  <1> PICK m : m = Append(l, c)
    OBVIOUS
  <1>11. /\ Len(m) = Len(l) + 1 /\ Len(l) \in Nat /\ m # <<>> /\ m[Len(l) + 1] = c
         /\ (l = <<>> => Len(l) = 0)
    BY <1>9, AppendIs, EmptyBytes
  <1>12. LastOf(m) = c
    BY <1>11 DEF LastOf
  <1>13. PipeInv'
    <2>1. Len(k) + Len(l) =< nwrites
      BY <1>6, <1>9 DEF PipeInv
    <2>2. Len(j) + Len(m) =< nwrites + 1
      <3> PICK a, b, e, f, n : a = Len(j) /\ b = Len(k) /\ e = Len(l) /\ f = Len(m) /\ n = nwrites
        OBVIOUS
      <3>1. a \in Nat /\ b \in Nat /\ e \in Nat /\ n \in Nat /\ a =< b /\ f = e + 1 /\ b + e =< n
        BY <2>1, <1>6, <1>10, <1>11
      <3>2. a + f =< n + 1
        BY <3>1, SumBound
      <3> QED BY <3>2
    <2>3. Lists'[Cached] = j /\ Line(s)' = m
      BY <1>9
    <2>4. \A t \in client.src : Len(Lists'[Cached]) + Len(Line(t)') =< nwrites'
      BY <2>2, <2>3, <1>6
    <2> QED BY <2>4, <1>1, <1>6, <1>8 DEF PipeInv
  <1>14. TailInv(s)'
    <2>1. h.wrqlast \in [Src -> Ptr]
          /\ h'.wrqlast = IF l = <<>> THEN h.wrqlast ELSE [h.wrqlast EXCEPT ![s] = c]
      BY HeapIs DEF QueuesCell, HeapType
    <2>2. CASE l = <<>> /\ h.wrqlast[s] = NULL
      <3>1. h'.wrqlast[s] = NULL /\ Len(m) = 1
        BY <2>1, <2>2, <1>11
      <3> QED BY <3>1, <1>1, <1>9 DEF TailInv
    <2>3. CASE l = <<>> /\ h.wrqlast[s] # NULL
      <3>1. Lists[Cached] # <<>> /\ h.wrqlast[s] = Lists[Cached][1]
        BY <2>3, <1>1, <1>9 DEF LastInv, TailInv
      <3>2. h'.wrqlast[s] = c /\ h'.wrqlast[s] # NULL
        BY <2>1, <2>3, <3>1, <1>9
      <3> QED BY <3>2, <1>1, <1>9, <1>11, <1>12 DEF TailInv
    <2>4. CASE l # <<>>
      <3>1. h'.wrqlast[s] = c
        BY <2>1, <2>4, <1>1
      <3>2. c # NULL
        BY <1>9, NoneIsNotCell
      <3> QED BY <3>1, <3>2, <1>1, <1>9, <1>11, <1>12 DEF TailInv
    <2> QED BY <2>2, <2>3, <2>4
  <1>15. LastInv'
    <2> SUFFICES ASSUME NEW t \in Src PROVE TailInv(t)'
      BY DEF LastInv
    <2>1. CASE t = s
      BY <2>1, <1>14
    <2>2. CASE t # s
      BY <2>2, <1>1, <1>8, EmptyBytes DEF TailInv
    <2> QED BY <2>1, <2>2
  <1> QED BY <1>13, <1>15

(* A short list.                                                              *)
LEMMA OneOrNone ==
    ASSUME NEW S, NEW l \in Seq(S), Len(l) =< 1
    PROVE  l = <<>> \/ Len(l) = 1
  <1>1. Len(l) \in Nat
    BY LenProperties
  <1>2. Len(l) = 0 \/ Len(l) = 1
    <2>1. \A n \in Nat : n =< 1 => n = 0 \/ n = 1
      OBVIOUS
    <2> QED BY <1>1, <2>1
  <1> QED BY <1>2, EmptySeq

(* Where the next cell of a queue goes.                                       *)
LEMMA WroteEnd ==
    ASSUME Live, NEW s, NEW d, Wrote(s, d)
    PROVE  /\ EndIs(h.wrqlast[s], Lists[QueueOf(s)])
           /\ ~client.pipelined => Lists[QueueOf(s)] = <<>>
           /\ Lists[QueueOf(s)] \in Seq(Cell)
  <1> USE LiveHas
  <1>1. s \in Src
    BY DEF Wrote
  <1> PICK l : l = Lists[QueueOf(s)]
    OBVIOUS
  <1>2. l \in Seq(Cell)
    BY <1>1, HeapIs
  <1>3. ASSUME ~client.pipelined PROVE l = <<>>
    <2>1. LineOf(s) = <<>>
      BY <1>3 DEF Wrote, Quiet
    <2>2. Bufs(h.buf, l) = <<>> /\ h.buf \in [Cell -> Seq(Byte)]
      BY <2>1, HeapIs DEF LineOf
    <2> QED BY <2>2, <1>2, BufsIs
  <1>4. ASSUME client.pipelined PROVE EndIs(h.wrqlast[s], l)
    <2>1. pc = "idle"
      BY <1>4 DEF Wrote
    <2>2. Lists[Active] = <<>>
      BY <2>1, IdleHand DEF Looping
    <2>3. Line(s) = l
      BY <2>2 DEF Line
    <2>4. TailInv(s)
      BY <1>1 DEF LastInv
    <2>5. CASE h.wrqlast[s] = NULL
      <3>1. Len(l) =< 1
        BY <1>4, <2>3, <2>4, <2>5 DEF TailInv
      <3>2. l = <<>> \/ Len(l) = 1
        BY <1>2, <3>1, OneOrNone
      <3> QED BY <2>5, <3>2 DEF EndIs
    <2>6. CASE h.wrqlast[s] # NULL
      BY <1>4, <2>3, <2>4, <2>6 DEF TailInv, EndIs, LastOf
    <2> QED BY <2>5, <2>6
  <1> QED BY <1>2, <1>3, <1>4 DEF EndIs

(* gwpr_write of a queued write.                                              *)
LEMMA LiveWriteQueued ==
    ASSUME Live, NEW s \in Src, WriteQueued(s) PROVE WriteInv'
  <1> USE LiveHas
  <1> PICK d : d = Data(nwrites + 1)
    OBVIOUS
  <1> PICK c : c = GetCell(h)
    OBVIOUS
  <1> PICK M : M = Queued(Lists, s, c)
    OBVIOUS
  <1> PICK l : l = Lists[QueueOf(s)]
    OBVIOUS
  <1>1. Wrote(s, d)
    BY WroteIs DEF WriteQueued
  <1>2. /\ h' = Queue(h, s, d) /\ wr' = wr \cup {s} /\ halted' = halted \ {s}
        /\ UNCHANGED <<events, batch, actVars, closed, sent, reported, returned, leaked, failVars,
                       clientVars>>
    BY DEF WriteQueued, WantsWrite
  <1>3. SameWork /\ short' = short /\ deleted' = deleted /\ events' = events /\ batch' = batch
    BY <1>2 DEF SameWork, actVars, failVars, clientVars
  <1>4. /\ EventsInv' /\ Loose' = Loose /\ \A t \in Src : SyncOf(t)' = SyncOf(t)
    <2>1. EventCells' = EventCells /\ EventsInv' /\ \A t : SyncOf(t)' = SyncOf(t)
      BY <1>3, EventsSame DEF SameWork
    <2> QED BY <2>1, <1>3 DEF Loose, SameWork
  <1>5. EndIs(h.wrqlast[s], l) /\ (~client.pipelined => l = <<>>) /\ l \in Seq(Cell)
    BY <1>1, WroteEnd
  <1>6. IsWrite(nwrites + 1, d) /\ d \in Seq(Byte) /\ d # <<>> /\ Len(d) = client.len
        /\ client.len \in Nat
    BY <1>1, ClientIs DEF Wrote, IsWrite
  <1>7. QueuesCell(h, First, Lists, Others, s, d, c, h')
    <2>1. Accounted(h, First, Lists, Others)
      BY HeapIs
    <2>2. Cardinality(h.alloc) < NCells
      BY <1>1, BoundAssumption DEF Wrote
    <2>3. QueuesCell(h, First, Lists, Others, s, d, GetCell(h), Queue(h, s, d))
      BY <2>1, <2>2, <1>5, <1>6, QueueCell
    <2> QED BY <2>3, <1>2
  <1>8. Grown(s, M)
    <2>1. Grows(h, First, Lists, Others, s, {d}, h', M, {})
      BY <1>7 DEF QueuesCell
    <2>2. \A b \in {d} : Len(b) =< client.len
      BY <1>6
    <2>3. Loose' = Loose \cup {}
      BY <1>4
    <2> QED BY <1>3, <2>1, <2>2, <2>3, GrownIs
  <1>9. LineOf(s)' = Append(LineOf(s), d)
    <2> PICK m : m = h'.buf
      OBVIOUS
    <2>1. m \in [Cell -> Seq(Byte)] /\ c \in Cell /\ m[c] = d
      BY <1>7, <1>8 DEF Grown, QueuesCell
    <2>2. \A e \in Items(l) : m[e] = h.buf[e]
      BY <1>8 DEF Grown, SameBufs
    <2>3. Bufs(m, l) = Bufs(h.buf, l)
      BY <2>2, <1>5, BufsSame
    <2>4. Bufs(m, Append(l, c)) = Append(Bufs(m, l), m[c])
      BY <2>1, <1>5, BufsAppend
    <2>5. LineOf(s)' = Bufs(m, Append(l, c))
      BY <1>7, <1>8 DEF LineOf, Grown, QueuesCell
    <2> QED BY <2>1, <2>3, <2>4, <2>5 DEF LineOf
  <1>10. Puts(s, d)
    <2>1. SameHand(s)
      BY <1>8 DEF Grown
    <2>2. WaitsOf(s)' = WaitsOf(s)
      BY <1>4, <1>8, WaitsSame DEF Grown
    <2>3. SameSent(s) /\ SameFlags(s) /\ returned'[s] = returned[s]
      BY <1>2 DEF SameSent, SameFlags, failVars, clientVars
    <2>4. submitted'[s] = Cat(submitted[s], d)
      BY <1>1 DEF Wrote
    <2> QED BY <1>6, <1>9, <2>1, <2>2, <2>3, <2>4 DEF Puts
  <1>11. SourceOk(s)'
    <2>1. client' = client
      BY <1>3 DEF SameWork
    <2>2. CASE client.pipelined
      <3>1. pc = "idle" /\ SourceType(s) /\ WholeInv(s)
        BY <1>1, <2>2 DEF Wrote, SourceOk
      <3>2. HandOf(s) = <<>>
        BY <3>1, IdleHand DEF Looping
      <3>3. WholeInv(s)'
        BY <1>10, <3>1, <3>2, PutsWhole
      <3> QED BY <2>1, <2>2, <3>3 DEF SourceOk
    <2>3. CASE ~client.pipelined
      <3>1. Quiet(s) /\ SourceType(s)
        BY <1>1, <2>3 DEF Wrote
      <3>2. WaitsInv(s)'
        BY <1>10, <3>1, PutsWaits
      <3> QED BY <2>1, <2>3, <3>2 DEF SourceOk
    <2> QED BY <2>2, <2>3
  <1>12. LastInv' /\ PipeInv'
    <2>1. CASE client.pipelined
      <3>1. Lists' = M
        BY <1>8 DEF Grown
      <3> QED BY <2>1, <3>1, <1>1, <1>3, <1>7, QueuedLast
    <2>2. CASE ~client.pipelined
      <3>1. h'.wrqlast = h.wrqlast
        BY <1>5, <1>7, <2>2 DEF QueuesCell
      <3>2. client' = client
        BY <1>3 DEF SameWork
      <3> QED BY <2>2, <3>1, <3>2, <1>3, LastWaits
    <2> QED BY <2>1, <2>2
  <1>13. OthersStay(s)
    <2>1. UNCHANGED <<batch, stopwrite, deleted, reported, returned, failed>>
      BY <1>2 DEF actVars, failVars, clientVars
    <2>2. \A t \in Src : t # s =>
         /\ sent'[t] = sent[t] /\ SyncOf(t)' = SyncOf(t)
         /\ t \in closed' <=> t \in closed
         /\ t \in short' <=> t \in short
         /\ t \in wr' <=> t \in wr
      BY <1>2, <1>3, <1>4
    <2>3. /\ sent' \in [Src -> Seq(Byte)] /\ closed' \subseteq Src /\ short' \subseteq Src
          /\ wr' \subseteq Src /\ halted' \subseteq Src /\ events' \in Seq(Event)
      BY <1>2, <1>3 DEF TypeOK
    <2> QED BY <2>1, <2>2, <2>3 DEF OthersStay
  <1> QED BY <1>1, <1>3, <1>4, <1>8, <1>11, <1>12, <1>13, LiveWrote

-----------------------------------------------------------------------------
(* Synchronous writes post an event, or two, of a source that has none.       *)
PostsTwo(e, f, ev, ba) ==
    /\ <<f>> \o (<<e>> \o ev) \in Seq(Event)
    /\ Items((<<f>> \o (<<e>> \o ev)) \o ba) = Items(ev \o ba) \cup {e, f}
    /\ Distinct((<<f>> \o (<<e>> \o ev)) \o ba)

(* Two events of one source, of different kinds.                              *)
LEMMA PostTwo ==
    ASSUME NEW ev \in Seq(Event), NEW ba \in Seq(Event), NEW e \in Event, NEW f \in Event,
           Distinct(ev \o ba), News(e, Items(ev \o ba)), News(f, Items(ev \o ba)), f.kind # e.kind
    PROVE  PostsTwo(e, f, ev, ba)
  <1> PICK u : u = <<e>> \o ev
    OBVIOUS
  <1>1. u \in Seq(Event) /\ Items(u \o ba) = {e} \cup Items(ev \o ba) /\ Distinct(u \o ba)
    <2>1. Posted(ev, ba, e)
      BY PostIs
    <2> QED BY <2>1 DEF Posted
  <1>2. News(f, Items(u \o ba))
    BY <1>1 DEF News
  <1> PICK v : v = <<f>> \o u
    OBVIOUS
  <1>3. v \in Seq(Event) /\ Items(v \o ba) = {f} \cup Items(u \o ba) /\ Distinct(v \o ba)
    <2>1. Posted(u, ba, f)
      BY <1>1, PostIs
    <2> QED BY <2>1, <1>1, <1>2 DEF Posted
  <1>4. Items(v \o ba) = Items(ev \o ba) \cup {e, f}
    BY <1>1, <1>3
  <1> QED BY <1>3, <1>4 DEF PostsTwo

(* The events X of s are posted.                                              *)
CellsOf(X) == {e.cell : e \in {f \in X : HasCell(f)}}
Posts(s, X) ==
    /\ events' \in Seq(Event) /\ Waiting' = Waiting \cup X /\ Distinct(Pending)'
    /\ \A e \in X :
        /\ e.src = s /\ (HasCell(e) => e.cell \in Cell /\ e.cell \notin Others)
        /\ e.kind \in {"SYNC_CLOSE", "SYNC_ERROR"} => s \in short'
    /\ \A e, f \in X : HasCell(e) /\ HasCell(f) /\ e.cell = f.cell => e = f

(* The events of gwpr_write and their cells.                                  *)
LEMMA PostsIs ==
    ASSUME Live, NEW s, NEW X, Posts(s, X), short \subseteq short', pc' = pc, q' = q
    PROVE  /\ EventsInv' /\ Loose' = Loose \cup CellsOf(X)
           /\ SyncOf(s)' = SyncOf(s) \cup {e \in X : e.kind = "SYNC_WRITE"}
           /\ \A t : t # s => SyncOf(t)' = SyncOf(t)
  <1> USE LiveHas
  <1>1. EventCells' = EventCells \cup CellsOf(X)
    BY DEF EventCells, CellsOf, Posts
  <1>2. Loose' = Loose \cup CellsOf(X)
    BY <1>1 DEF Loose
  <1>3. SyncOf(s)' = SyncOf(s) \cup {e \in X : e.kind = "SYNC_WRITE"}
    BY DEF SyncOf, Posts
  <1>4. \A t : t # s => SyncOf(t)' = SyncOf(t)
    BY DEF SyncOf, Posts
  <1>5. \A e \in Waiting' :
          /\ HasCell(e) => e.cell \in Cell /\ (pc' = "synccb" => e.cell # q')
          /\ e.kind \in {"SYNC_CLOSE", "SYNC_ERROR"} => e.src \in short'
    <2> TAKE e \in Waiting'
    <2>1. CASE e \in Waiting
      BY <2>1 DEF EventsInv
    <2>2. CASE e \in X
      <3>1. pc = "synccb" => q \in Others
        BY DEF Others, Loose
      <3> QED BY <2>2, <3>1 DEF Posts
    <2> QED BY <2>1, <2>2 DEF Posts
  <1>6. \A e, f \in Waiting' : HasCell(e) /\ HasCell(f) /\ e.cell = f.cell => e = f
    <2>1. \A e \in Waiting : HasCell(e) => e.cell \in Others
      BY DEF Others, Loose, EventCells
    <2>2. \A e \in X : HasCell(e) => e.cell \notin Others
      BY DEF Posts
    <2>3. \A e, f \in Waiting : HasCell(e) /\ HasCell(f) /\ e.cell = f.cell => e = f
      BY DEF EventsInv
    <2>4. \A e, f \in X : HasCell(e) /\ HasCell(f) /\ e.cell = f.cell => e = f
      BY DEF Posts
    <2>5. Waiting' = Waiting \cup X
      BY DEF Posts
    <2> QED BY <2>1, <2>2, <2>3, <2>4, <2>5
  <1>7. EventsInv'
    BY <1>5, <1>6 DEF EventsInv, Posts
  <1> QED BY <1>2, <1>3, <1>4, <1>7

(* No event of s waits.                                                       *)
LEMMA NoEvents ==
    ASSUME Live, NEW s, Quiet(s)
    PROVE  /\ SyncOf(s) = {} /\ s \notin short /\ s \notin deleted
           /\ \A k \in {"SYNC_WRITE", "SYNC_CLOSE", "SYNC_ERROR"} :
                \A c, r : News(Evt(k, s, c, r), Waiting)
  <1> USE LiveHas
  <1>1. SyncOf(s) = {} /\ s \notin short /\ s \notin deleted
    BY DEF Quiet, Fine, WaitsOf, SyncOf
  <1>2. \A e \in Waiting : e.src = s => e.kind \notin {"SYNC_WRITE", "SYNC_CLOSE", "SYNC_ERROR"}
    BY <1>1 DEF EventsInv, SyncOf
  <1>3. \A k, c, r : Evt(k, s, c, r).kind = k /\ Evt(k, s, c, r).src = s
    BY EvtHas
  <1> QED BY <1>1, <1>2, <1>3 DEF News

(* What WaitsOf is when the only event is that of the cell c.                 *)
LEMMA WaitsOne ==
    ASSUME NEW s, NEW e, NEW b, SyncOf(s)' = {e}, h'.buf[e.cell] = b
    PROVE  WaitsOf(s)' = {b}
  BY DEF WaitsOf, SyncOf

(* A synchronous write whose source is Synced, Short or Failed after it.      *)
LEMMA LiveSynced ==
    ASSUME Live, NEW s, NEW d, Wrote(s, d), ~client.pipelined, NEW M, Grown(s, M), SameWork,
           OthersStay(s), EventsInv', WaitsInv(s)', short \subseteq short',
           \A t \in Src : h'.wrqlast[t] = h.wrqlast[t] \/ t \in short'
    PROVE  WriteInv'
  <1> USE LiveHas
  <1>1. client' = client /\ deleted' = deleted
    BY DEF SameWork, OthersStay
  <1>2. SourceOk(s)'
    BY <1>1 DEF SourceOk
  <1>3. LastInv' /\ PipeInv'
    BY <1>1, LastWaits
  <1> QED BY <1>2, <1>3, LiveWrote

(* A synchronous write that takes everything.                                 *)
LEMMA LiveSyncFull ==
    ASSUME Live, NEW s \in Src, SyncFull(s) PROVE WriteInv'
  <1> USE LiveHas
  <1> PICK d : d = Data(nwrites + 1)
    OBVIOUS
  <1> PICK c : c = GetCell(h)
    OBVIOUS
  <1> PICK M : M = Gotten(Lists)
    OBVIOUS
  <1> PICK e : e = Evt("SYNC_WRITE", s, c, <<>>)
    OBVIOUS
  <1>1. Wrote(s, d) /\ TRUE \in client.sync
    BY WroteIs DEF SyncFull
  <1>2. /\ sent' = [sent EXCEPT ![s] = @ \o d] /\ events' = <<e>> \o events
        /\ h' = [gwprwrq_get(h) EXCEPT !.buf[c] = d]
        /\ UNCHANGED <<wr, batch, actVars, closed, reported, returned, halted, leaked,
                       failVars, clientVars>>
    BY DEF SyncFull
  <1>3. SameWork /\ short' = short /\ deleted' = deleted /\ batch' = batch
    BY <1>2 DEF SameWork, actVars, failVars, clientVars
  <1>4. ~client.pipelined
    BY <1>1 DEF Wrote
  <1>5. Quiet(s) /\ SourceType(s)
    BY <1>1, <1>4 DEF Wrote
  <1>6. IsWrite(nwrites + 1, d) /\ d \in Seq(Byte) /\ d # <<>> /\ Len(d) = client.len
        /\ client.len \in Nat
    BY <1>1, ClientIs DEF Wrote, IsWrite
  <1>7. TakesCell(h, First, Lists, Others, s, d, c, h')
    <2>1. Accounted(h, First, Lists, Others)
      BY HeapIs
    <2>2. Cardinality(h.alloc) < NCells
      BY <1>1, BoundAssumption DEF Wrote
    <2>3. TakesCell(h, First, Lists, Others, s, d, GetCell(h),
          [gwprwrq_get(h) EXCEPT !.buf[GetCell(h)] = d])
      BY <2>1, <2>2, <1>6, TakeCell
    <2> QED BY <2>3, <1>2
  <1>8. /\ c \in Cell /\ c \notin Others /\ M[QueueOf(s)] = Lists[QueueOf(s)]
        /\ h'.buf[c] = d /\ h'.wrqlast = h.wrqlast
        /\ Grows(h, First, Lists, Others, s, {d}, h', M, {c})
    BY <1>7 DEF TakesCell
  <1>9. e.kind = "SYNC_WRITE" /\ e.src = s /\ e.cell = c /\ HasCell(e) /\ e \in Event
    <2>1. e.kind = "SYNC_WRITE" /\ e.src = s /\ e.cell = c
      BY EvtHas
    <2>2. "SYNC_WRITE" \in Kinds /\ c \in Ptr /\ <<>> \in Seq(Byte)
      BY <1>8 DEF Kinds, Ptr
    <2>3. e \in Event
      BY <2>2, EvtType
    <2> QED BY <2>1, <2>3 DEF HasCell
  <1>10. SyncOf(s) = {} /\ s \notin short /\ News(e, Waiting)
    BY <1>5, NoEvents
  <1>11. Posts(s, {e})
    <2>1. events' \in Seq(Event) /\ Waiting' = Waiting \cup {e} /\ Distinct(Pending)'
      BY <1>2, <1>3, <1>9, <1>10, PostEvents
    <2> QED BY <2>1, <1>8, <1>9 DEF Posts
  <1>12. /\ EventsInv' /\ Loose' = Loose \cup {c} /\ SyncOf(s)' = {e}
         /\ \A t : t # s => SyncOf(t)' = SyncOf(t)
    <2>1. /\ EventsInv' /\ Loose' = Loose \cup CellsOf({e})
          /\ SyncOf(s)' = SyncOf(s) \cup {f \in {e} : f.kind = "SYNC_WRITE"}
          /\ \A t : t # s => SyncOf(t)' = SyncOf(t)
      BY <1>3, <1>11, PostsIs DEF SameWork
    <2>2. CellsOf({e}) = {c}
      BY <1>9 DEF CellsOf
    <2> QED BY <2>1, <2>2, <1>9, <1>10
  <1>13. Grown(s, M)
    <2>1. \A b \in {d} : Len(b) =< client.len
      BY <1>6
    <2> QED BY <1>3, <1>8, <1>12, <2>1, GrownIs
  <1>14. WaitsOf(s)' = WaitsOf(s) \cup {d}
    <2>1. WaitsOf(s)' = {d}
      BY <1>8, <1>9, <1>12, WaitsOne
    <2> QED BY <2>1, <1>5 DEF Quiet
  <1>15. LineOf(s)' = LineOf(s)
    <2>1. SameQueue(s) /\ SameBufs(s)
      BY <1>8, <1>13 DEF Grown, SameQueue
    <2> QED BY <2>1, LineSame
  <1>16. sent' \in [Src -> Seq(Byte)] /\ sent'[s] = Cat(sent[s], d)
         /\ \A t \in Src : t # s => sent'[t] = sent[t]
    <2>1. sent \in [Src -> Seq(Byte)] /\ sent[s] \o d \in Seq(Byte)
      BY <1>6, ConcatProperties DEF TypeOK
    <2> QED BY <2>1, <1>2 DEF Cat
  <1>17. Sends(s, d)
    <2>1. SameHand(s)
      BY <1>13 DEF Grown
    <2>2. SameFlags(s) /\ reported'[s] = reported[s] /\ returned'[s] = returned[s]
      BY <1>2 DEF SameFlags, failVars, clientVars
    <2>3. submitted'[s] = Cat(submitted[s], d)
      BY <1>1 DEF Wrote
    <2> QED BY <1>6, <1>14, <1>15, <1>16, <2>1, <2>2, <2>3 DEF Sends
  <1>18. WaitsInv(s)'
    BY <1>5, <1>17, SendsWaits
  <1>19. OthersStay(s)
    <2>1. UNCHANGED <<batch, stopwrite, deleted, reported, returned, failed>>
      BY <1>2 DEF actVars, failVars, clientVars
    <2>2. \A t \in Src : t # s =>
         /\ sent'[t] = sent[t] /\ SyncOf(t)' = SyncOf(t)
         /\ t \in closed' <=> t \in closed
         /\ t \in short' <=> t \in short
         /\ t \in wr' <=> t \in wr
      BY <1>2, <1>3, <1>12, <1>16
    <2>3. /\ sent' \in [Src -> Seq(Byte)] /\ closed' \subseteq Src /\ short' \subseteq Src
          /\ wr' \subseteq Src /\ halted' \subseteq Src /\ events' \in Seq(Event)
      BY <1>2, <1>3, <1>11, <1>16 DEF TypeOK, Posts
    <2> QED BY <2>1, <2>2, <2>3 DEF OthersStay
  <1>20. short \subseteq short' /\ \A t \in Src : h'.wrqlast[t] = h.wrqlast[t] \/ t \in short'
    BY <1>3, <1>8
  <1> QED BY <1>1, <1>3, <1>4, <1>12, <1>13, <1>18, <1>19, <1>20, LiveSynced

(* The elements of a list with one more.                                      *)
LEMMA AppendItems ==
    ASSUME NEW i \in Cell
    PROVE  /\ Items(Append(<<>>, i)) = Items(<<>>) \cup {i}
           /\ \A j \in Cell : Items(Append(<<i>>, j)) = Items(<<i>>) \cup {j}
  <1>1. ASSUME NEW l \in Seq(Cell), NEW j \in Cell
        PROVE  Items(Append(l, j)) = Items(l) \cup {j}
    BY AppendIs
  <1>2. <<>> \in Seq(Cell) /\ <<i>> \in Seq(Cell)
    OBVIOUS
  <1> QED BY <1>1, <1>2

(* The heap after a synchronous write that fell short: the cell c of its event *)
(* has the buffer b, and so have the cells that are queued; the cells E are   *)
(* those of another event.                                                    *)
ShortHeap(g, a, L, O, s, B, b, c, E, f) ==
    \E M : /\ Grows(g, a, L, O, s, B, f, M, {c} \cup E)
           /\ f.buf[c] = b /\ \A e \in Items(M[QueueOf(s)]) : f.buf[e] = b

(* A short write that queues nothing.                                         *)
LEMMA ShortTake ==
    ASSUME NEW g, NEW a, NEW L, NEW O, NEW s \in Src, L[QueueOf(s)] = <<>>, NEW b, NEW c, NEW k,
           TakesCell(g, a, L, O, s, b, c, k)
    PROVE  ShortHeap(g, a, L, O, s, {b}, b, c, {}, k)
  <1>1. Grows(g, a, L, O, s, {b}, k, Gotten(L), {c} \cup {}) /\ k.buf[c] = b
    <2>1. {c} \cup {} = {c}
      OBVIOUS
    <2> QED BY <2>1 DEF TakesCell
  <1>2. \A e \in Items(Gotten(L)[QueueOf(s)]) : k.buf[e] = b
    BY EmptyBytes DEF TakesCell
  <1> QED BY <1>1, <1>2 DEF ShortHeap

(* What was taken is queued.                                                  *)
LEMMA ShortQueue ==
    ASSUME NEW g, NEW a, NEW L, NEW O, NEW s \in Src, L[QueueOf(s)] = <<>>, NEW b \in Seq(Byte),
           NEW c, NEW k, TakesCell(g, a, L, O, s, b, c, k), Cardinality(g.alloc) \in Nat,
           Cardinality(g.alloc) + 3 =< NCells, g.wrqlast[s] = NULL
    PROVE  /\ ShortHeap(g, a, L, O, s, {b}, b, c, {}, Queue(k, s, b))
           /\ ShortHeap(g, a, L, O, s, {b}, b, c, {}, Queue(Queue(k, s, b), s, b))
           /\ \A t \in Src : t # s => /\ Queue(k, s, b).wrqlast[t] = g.wrqlast[t]
                                      /\ Queue(Queue(k, s, b), s, b).wrqlast[t] = g.wrqlast[t]
  <1> DEFINE Q == QueueOf(s)
             G == Gotten(L)
  <1> PICK P : P = O \cup {c}
    OBVIOUS
  <1>1. /\ Grows(g, a, L, O, s, {b}, k, G, {c}) /\ k.buf[c] = b /\ c \in Cell
        /\ G[Q] = <<>> /\ k.wrqlast[s] = NULL
        /\ Cardinality(k.alloc) =< Cardinality(g.alloc) + 1
    BY DEF TakesCell
  <1>2. Accounted(k, a, G, P) /\ Q \in Place /\ Q # Cached
    BY <1>1, Places DEF Grows
  <1>3. Cardinality(k.alloc) \in Nat
    <2>1. HeapType(k)
      BY <1>2, AccountedHas
    <2> QED BY <2>1, CellsBound DEF HeapType
  <1>4. Cardinality(k.alloc) + 2 =< NCells /\ Cardinality(k.alloc) < NCells
    <2> PICK m, n, z : m = Cardinality(k.alloc) /\ n = Cardinality(g.alloc) /\ z = NCells
      OBVIOUS
    <2>1. m \in Nat /\ n \in Nat /\ z \in Nat /\ m =< n + 1 /\ n + 3 =< z
      BY <1>1, <1>3, BoundAssumption
    <2>2. m + 2 =< z /\ m < z
      BY <2>1
    <2> QED BY <2>2
  <1> HIDE DEF G, Q
  <1> PICK i : i = GetCell(k)
    OBVIOUS
  <1> PICK f : f = Queue(k, s, b)
    OBVIOUS
  <1> PICK M : M = Queued(G, s, i)
    OBVIOUS
  <1>5. QueuesCell(k, a, G, P, s, b, i, f)
    <2>1. EndIs(k.wrqlast[s], G[QueueOf(s)])
      BY <1>1 DEF EndIs, Q
    <2>2. QueuesCell(k, a, G, P, s, b, GetCell(k), Queue(k, s, b))
      BY <1>2, <1>4, <2>1, QueueCell
    <2> QED BY <2>2
  <1>6. /\ Grows(k, a, G, P, s, {b}, f, M, {}) /\ M[Q] = Append(G[Q], i) /\ f.buf[i] = b
        /\ i \in Cell /\ i \notin P /\ f.wrqlast = k.wrqlast
        /\ Cardinality(f.alloc) =< Cardinality(k.alloc) + 1
    BY <1>1, <1>5 DEF QueuesCell, Q
  <1>7. M[Q] = <<i>> /\ Len(<<i>>) = 1 /\ Items(<<i>>) = {i} /\ <<i>>[1] = i
    <2>1. <<>> \in Seq(Cell) /\ Append(<<>>, i) = <<i>>
      OBVIOUS
    <2>2. Items(Append(<<>>, i)) = Items(<<>>) \cup {i}
      BY <1>6, AppendItems
    <2>3. M[Q] = <<i>>
      BY <1>1, <1>6, <2>1
    <2>4. Items(<<i>>) = {i}
      BY <2>1, <2>2, EmptyBytes
    <2> QED BY <2>3, <2>4
  <1>8. f.buf[c] = b
    <2>1. c \in P
      OBVIOUS
    <2> QED BY <1>1, <1>6, <2>1 DEF Grows
  <1>9. {b} \cup {b} = {b} /\ {c} \cup {} = {c} /\ {} \cup {} = {}
    OBVIOUS
  <1>10. Grows(g, a, L, O, s, {b}, f, M, {c} \cup {})
    <2>1. Grows(g, a, L, O, s, {b} \cup {b}, f, M, {c} \cup {})
      BY <1>1, <1>6, GrowsMore
    <2> QED BY <2>1, <1>9
  <1>11. ShortHeap(g, a, L, O, s, {b}, b, c, {}, f)
    BY <1>6, <1>7, <1>8, <1>10 DEF ShortHeap, Q
  <1> PICK j : j = GetCell(f)
    OBVIOUS
  <1> PICK r : r = Queue(f, s, b)
    OBVIOUS
  <1> PICK N : N = Queued(M, s, j)
    OBVIOUS
  <1>12. QueuesCell(f, a, M, P, s, b, j, r)
    <2>1. EndIs(f.wrqlast[s], M[QueueOf(s)])
      BY <1>1, <1>6, <1>7 DEF EndIs, Q
    <2>2. Accounted(f, a, M, P)
      <3>1. P \cup {} = P
        OBVIOUS
      <3>2. Accounted(f, a, M, P \cup {})
        BY <1>6 DEF Grows
      <3> QED BY <3>1, <3>2
    <2>3. Cardinality(f.alloc) < NCells
      <3> PICK m, n, z : m = Cardinality(f.alloc) /\ n = Cardinality(k.alloc) /\ z = NCells
        OBVIOUS
      <3>1. HeapType(f)
        BY <2>2, AccountedHas
      <3>2. m \in Nat
        BY <3>1, CellsBound DEF HeapType
      <3>3. n \in Nat /\ z \in Nat /\ m =< n + 1 /\ n + 2 =< z
        BY <1>3, <1>4, <1>6, BoundAssumption
      <3>4. m < z
        BY <3>2, <3>3
      <3> QED BY <3>4
    <2>4. QueuesCell(f, a, M, P, s, b, GetCell(f), Queue(f, s, b))
      BY <2>1, <2>2, <2>3, QueueCell
    <2> QED BY <2>4
  <1>13. /\ Grows(f, a, M, P, s, {b}, r, N, {}) /\ N[Q] = Append(M[Q], j) /\ r.buf[j] = b
         /\ j \in Cell /\ j \notin P
    BY <1>12 DEF QueuesCell, Q
  <1>14. Items(N[Q]) = {i, j}
    <2>1. <<i>> \in Seq(Cell)
      BY <1>6
    <2>2. Items(Append(<<i>>, j)) = Items(<<i>>) \cup {j}
      BY <1>6, <1>13, AppendItems
    <2> QED BY <2>2, <1>7, <1>13
  <1>15. r.buf[c] = b /\ r.buf[i] = b
    <2>1. c \in P /\ i \in Items(M[Q])
      BY <1>7
    <2> QED BY <1>2, <1>6, <1>8, <1>13, <2>1 DEF Grows
  <1>16. Grows(g, a, L, O, s, {b}, r, N, {c} \cup {})
    <2>1. Grows(g, a, L, O, s, {b}, f, M, {c})
      BY <1>9, <1>10
    <2>2. Grows(g, a, L, O, s, {b} \cup {b}, r, N, {c} \cup {})
      BY <2>1, <1>13, GrowsMore
    <2> QED BY <2>2, <1>9
  <1>17. ShortHeap(g, a, L, O, s, {b}, b, c, {}, r)
    BY <1>13, <1>14, <1>15, <1>16 DEF ShortHeap, Q
  <1>18. \A t \in Src : t # s => f.wrqlast[t] = g.wrqlast[t] /\ r.wrqlast[t] = g.wrqlast[t]
    BY <1>10, <1>16 DEF Grows
  <1> QED BY <1>11, <1>17, <1>18

(* What was not taken waits for the closed callback.                          *)
LEMMA ShortClose ==
    ASSUME NEW g, NEW a, NEW L, NEW O, NEW s \in Src, L[QueueOf(s)] = <<>>, NEW b, NEW c, NEW k,
           TakesCell(g, a, L, O, s, b, c, k), Cardinality(g.alloc) \in Nat,
           Cardinality(g.alloc) + 3 =< NCells, NEW r \in Seq(Byte),
           NEW j, j = GetCell(k), NEW f, f = [gwprwrq_get(k) EXCEPT !.buf[j] = r]
    PROVE  /\ ShortHeap(g, a, L, O, s, {b, r}, b, c, {j}, f) /\ f.wrqlast = g.wrqlast
           /\ j \in Cell /\ j \notin O /\ j # c
  <1> DEFINE Q == QueueOf(s)
             G == Gotten(L)
  <1> PICK P : P = O \cup {c}
    OBVIOUS
  <1>1. /\ Grows(g, a, L, O, s, {b}, k, G, {c}) /\ k.buf[c] = b /\ c \in Cell
        /\ G[Q] = <<>> /\ k.wrqlast = g.wrqlast
        /\ Cardinality(k.alloc) =< Cardinality(g.alloc) + 1
    BY DEF TakesCell
  <1>2. Accounted(k, a, G, P)
    BY <1>1 DEF Grows
  <1>3. Cardinality(k.alloc) \in Nat
    <2>1. HeapType(k)
      BY <1>2, AccountedHas
    <2> QED BY <2>1, CellsBound DEF HeapType
  <1>4. Cardinality(k.alloc) < NCells
    <2> PICK m, n, z : m = Cardinality(k.alloc) /\ n = Cardinality(g.alloc) /\ z = NCells
      OBVIOUS
    <2>1. m \in Nat /\ n \in Nat /\ z \in Nat /\ m =< n + 1 /\ n + 3 =< z
      BY <1>1, <1>3, BoundAssumption
    <2>2. m < z
      BY <2>1
    <2> QED BY <2>2
  <1> HIDE DEF G, Q
  <1>5. TakesCell(k, a, G, P, s, r, j, f)
    <2>1. TakesCell(k, a, G, P, s, r, GetCell(k), [gwprwrq_get(k) EXCEPT !.buf[GetCell(k)] = r])
      BY <1>2, <1>4, TakeCell
    <2> QED BY <2>1
  <1>6. /\ Grows(k, a, G, P, s, {r}, f, Gotten(G), {j}) /\ Gotten(G)[Q] = <<>>
        /\ f.wrqlast = g.wrqlast /\ j \in Cell /\ j \notin P
    BY <1>1, <1>5 DEF TakesCell, Q
  <1>7. f.buf[c] = b
    <2>1. c \in P
      OBVIOUS
    <2> QED BY <1>1, <1>6, <2>1 DEF Grows
  <1>8. Grows(g, a, L, O, s, {b, r}, f, Gotten(G), {c} \cup {j})
    <2>1. Grows(g, a, L, O, s, {b} \cup {r}, f, Gotten(G), {c} \cup {j})
      BY <1>1, <1>6, GrowsMore
    <2>2. {b} \cup {r} = {b, r}
      OBVIOUS
    <2> QED BY <2>1, <2>2
  <1>9. \A e \in Items(Gotten(G)[Q]) : f.buf[e] = b
    BY <1>6, EmptyBytes
  <1>10. ShortHeap(g, a, L, O, s, {b, r}, b, c, {j}, f)
    BY <1>7, <1>8, <1>9 DEF ShortHeap, Q
  <1> QED BY <1>6, <1>10

(* A synchronous write that took b of d.                                      *)
ShortFlags(s, b) ==
    /\ UNCHANGED <<batch, stopwrite, deleted, reported, returned, failed>> /\ SameWork
    /\ sent' = [sent EXCEPT ![s] = @ \o b] /\ short' = short \cup {s}
    /\ \A t \in Src : t # s => (t \in closed' <=> t \in closed) /\ (t \in wr' <=> t \in wr)
    /\ closed' \subseteq Src /\ wr' \subseteq Src /\ halted' \subseteq Src

(* n bytes of the d of a synchronous write of s were taken, and the cell of   *)
(* its event has b.                                                           *)
WroteShort(s, d, n, b) ==
    /\ s \in Src /\ Wrote(s, d) /\ ~client.pipelined
    /\ n \in 0..(client.len - 1) /\ b \in Seq(Byte) /\ b = Take(d, n)
(* The events X are of s, and e has the cell c.                               *)
PostsFor(s, X, e, c, E) ==
    /\ Posts(s, X) /\ CellsOf(X) = {c} \cup E
    /\ {f \in X : f.kind = "SYNC_WRITE"} = {e} /\ e.cell = c

(* The queue that has grown is a list.                                        *)
LEMMA GrowsList ==
    ASSUME NEW g, NEW a, NEW L, NEW O, NEW s \in Src, NEW B, NEW f, NEW M, NEW X,
           Grows(g, a, L, O, s, B, f, M, X)
    PROVE  M[QueueOf(s)] \in Seq(Cell)
  <1>1. Accounted(f, a, M, O \cup X) /\ QueueOf(s) \in Place
    BY Places DEF Grows
  <1>2. M \in [Place -> Seq(Cell)]
    BY <1>1, AccountedHas
  <1> QED BY <1>1, <1>2

(* A synchronous write that fell short keeps the invariant.                   *)
LEMMA LiveShort ==
    ASSUME Live, NEW s, NEW d, NEW n, NEW b, WroteShort(s, d, n, b),
           NEW c, NEW B, NEW E, ShortHeap(h, First, Lists, Others, s, B, b, c, E, h'),
           \A r \in B : Len(r) =< client.len,
           NEW X, NEW e, PostsFor(s, X, e, c, E), ShortFlags(s, b)
    PROVE  WriteInv'
  <1> USE LiveHas
  <1>17. /\ s \in Src /\ Wrote(s, d) /\ ~client.pipelined
         /\ n \in 0..(client.len - 1) /\ b \in Seq(Byte) /\ b = Take(d, n)
    BY DEF WroteShort
  <1>18. /\ Posts(s, X) /\ CellsOf(X) = {c} \cup E
         /\ {f \in X : f.kind = "SYNC_WRITE"} = {e} /\ e.cell = c
    BY DEF PostsFor
  <1> USE <1>17, <1>18
  <1>1. /\ SameWork /\ short' = short \cup {s} /\ deleted' = deleted
        /\ UNCHANGED <<batch, stopwrite, reported, returned, failed>>
        /\ sent' = [sent EXCEPT ![s] = @ \o b]
    BY DEF ShortFlags
  <1>2. Quiet(s) /\ SourceType(s) /\ IsWrite(nwrites + 1, d)
    BY DEF Wrote
  <1>3. d \in Seq(Byte) /\ d # <<>>
    BY <1>2 DEF IsWrite
  <1>4. /\ Lacks(submitted[s], Cat(submitted[s], d)) /\ Lacks(b, Cat(submitted[s], d))
        /\ submitted'[s] = Cat(submitted[s], d)
    BY DEF Wrote
  <1>5. SyncOf(s) = {} /\ s \notin deleted
    BY <1>2, NoEvents
  <1>6. /\ EventsInv' /\ Loose' = Loose \cup ({c} \cup E) /\ SyncOf(s)' = {e}
        /\ \A t : t # s => SyncOf(t)' = SyncOf(t)
    <2>1. pc' = pc /\ q' = q /\ short \subseteq short'
      BY <1>1 DEF SameWork
    <2> QED BY <1>5, <2>1, PostsIs
  <1>7. PICK M : /\ Grows(h, First, Lists, Others, s, B, h', M, {c} \cup E)
                 /\ h'.buf[c] = b /\ \A i \in Items(M[QueueOf(s)]) : h'.buf[i] = b
    BY DEF ShortHeap
  <1>8. Grown(s, M)
    BY <1>1, <1>6, <1>7, GrownIs
  <1>9. WaitsOf(s)' = WaitsOf(s) \cup {b}
    <2>1. WaitsOf(s)' = {b}
      BY <1>6, <1>7, WaitsOne
    <2> QED BY <2>1, <1>2 DEF Quiet
  <1>10. \A i \in 1..Len(LineOf(s)') : LineOf(s)'[i] = b
    <2> PICK m, l : m = h'.buf /\ l = M[QueueOf(s)]
      OBVIOUS
    <2>1. m \in [Cell -> Seq(Byte)] /\ LineOf(s)' = Bufs(m, l)
      BY <1>8 DEF Grown, LineOf
    <2>2. l \in Seq(Cell)
      <3>1. M[QueueOf(s)] \in Seq(Cell)
        BY <1>7, GrowsList
      <3> QED BY <3>1
    <2>3. Len(Bufs(m, l)) = Len(l) /\ \A i \in 1..Len(l) : Bufs(m, l)[i] = m[l[i]]
      BY <2>1, <2>2, BufsIs
    <2>4. \A i \in 1..Len(l) : m[l[i]] = b
      BY <1>7 DEF Items
    <2> QED BY <2>1, <2>3, <2>4
  <1>11. sent' \in [Src -> Seq(Byte)] /\ sent'[s] = Cat(sent[s], b)
         /\ \A t \in Src : t # s => sent'[t] = sent[t]
    <2>1. sent \in [Src -> Seq(Byte)] /\ sent[s] \o b \in Seq(Byte)
      BY ConcatProperties DEF TypeOK
    <2> QED BY <2>1, <1>1 DEF Cat
  <1>12. ErrOf(s) = "ok" \/ TakenOf(s) = <<>>
    <2>1. CASE HandOf(s) = <<>>
      <3>1. ~(act = s /\ Taken)
        <4> SUFFICES ASSUME act = s, Taken PROVE FALSE
          OBVIOUS
        <4>1. Looping /\ q # NULL
          BY DEF Taken, Looping, TakenInv
        <4> QED BY <4>1, <2>1, LoopHand
      <3> QED BY <3>1 DEF TakenOf
    <2>2. CASE HandOf(s) # <<>>
      BY <2>2, <1>2 DEF Quiet, Done
    <2> QED BY <2>1, <2>2
  <1>13. Cuts(s, d, b)
    <2>1. SameHand(s)
      BY <1>8 DEF Grown
    <2> QED BY <1>1, <1>3, <1>4, <1>9, <1>10, <1>11, <2>1 DEF Cuts
  <1>14. WaitsInv(s)'
    BY <1>2, <1>12, <1>13, CutsWaits
  <1>15. OthersStay(s)
    <2>1. \A t \in Src : t # s =>
         /\ sent'[t] = sent[t] /\ SyncOf(t)' = SyncOf(t)
         /\ t \in closed' <=> t \in closed
         /\ t \in short' <=> t \in short
         /\ t \in wr' <=> t \in wr
      BY <1>1, <1>6, <1>11 DEF ShortFlags
    <2>2. short' \subseteq Src
      BY <1>1 DEF TypeOK
    <2>3. events' \in Seq(Event)
      BY DEF Posts
    <2> QED BY <1>1, <1>11, <2>1, <2>2, <2>3 DEF OthersStay, ShortFlags
  <1>16. short \subseteq short' /\ \A t \in Src : h'.wrqlast[t] = h.wrqlast[t] \/ t \in short'
    BY <1>1, <1>7 DEF Grows
  <1> QED BY <1>1, <1>6, <1>8, <1>14, <1>15, <1>16, LiveSynced

(* The events of a short write.                                               *)
Shorten(s, c) ==
    /\ s \in Src /\ Quiet(s) /\ c \in Cell /\ c \notin Others /\ s \in short' /\ batch' = batch

(* It posts SYNC_WRITE for the bytes it took.                                 *)
LEMMA ShortOne ==
    ASSUME Live, NEW s, NEW c, Shorten(s, c), NEW e, e = Evt("SYNC_WRITE", s, c, <<>>),
           events' = <<e>> \o events
    PROVE  PostsFor(s, {e}, e, c, {})
  <1> USE LiveHas DEF Shorten
  <1>1. e.kind = "SYNC_WRITE" /\ e.src = s /\ e.cell = c /\ HasCell(e)
    <2>1. e.kind = "SYNC_WRITE" /\ e.src = s /\ e.cell = c
      BY EvtHas
    <2> QED BY <2>1 DEF HasCell
  <1>2. e \in Event
    <2>1. "SYNC_WRITE" \in Kinds /\ c \in Ptr /\ <<>> \in Seq(Byte)
      BY DEF Kinds, Ptr
    <2> QED BY <2>1, EvtType
  <1>3. News(e, Waiting)
    BY NoEvents
  <1>4. {i \in {e} : i.kind = "SYNC_WRITE"} = {e}
    BY <1>1
  <1>5. CellsOf({e}) = {c} \cup {}
    BY <1>1 DEF CellsOf
  <1>6. events' \in Seq(Event) /\ Waiting' = Waiting \cup {e} /\ Distinct(Pending)'
    BY <1>2, <1>3, PostEvents
  <1>7. Posts(s, {e})
    BY <1>1, <1>6 DEF Posts
  <1> QED BY <1>1, <1>4, <1>5, <1>7 DEF PostsFor

(* And another event for those it did not.                                    *)
LEMMA ShortTwo ==
    ASSUME Live, NEW s, NEW c, Shorten(s, c), NEW x \in {"SYNC_CLOSE", "SYNC_ERROR"}, NEW j \in Ptr,
           x = "SYNC_CLOSE" => j \in Cell /\ j \notin Others /\ j # c, NEW r \in Seq(Byte),
           NEW E, E = IF x = "SYNC_CLOSE" THEN {j} ELSE {},
           NEW e, e = Evt("SYNC_WRITE", s, c, <<>>), NEW f, f = Evt(x, s, j, r),
           events' = <<f>> \o (<<e>> \o events)
    PROVE  PostsFor(s, {e, f}, e, c, E)
  <1> USE LiveHas DEF Shorten
  <1>1. /\ e.kind = "SYNC_WRITE" /\ e.src = s /\ e.cell = c /\ HasCell(e)
        /\ f.kind = x /\ f.src = s /\ f.cell = j /\ (HasCell(f) <=> x = "SYNC_CLOSE")
        /\ f.kind # e.kind /\ f # e
    <2>1. /\ e.kind = "SYNC_WRITE" /\ e.src = s /\ e.cell = c
          /\ f.kind = x /\ f.src = s /\ f.cell = j
      BY EvtHas
    <2> QED BY <2>1 DEF HasCell
  <1>2. e \in Event /\ f \in Event
    <2>1. "SYNC_WRITE" \in Kinds /\ x \in Kinds /\ c \in Ptr /\ <<>> \in Seq(Byte)
      BY DEF Kinds, Ptr
    <2> QED BY <2>1, EvtType
  <1>3. News(e, Waiting) /\ News(f, Waiting)
    BY NoEvents
  <1>4. {i \in {e, f} : i.kind = "SYNC_WRITE"} = {e}
    BY <1>1
  <1>6. CellsOf({e, f}) = {c} \cup E
    <2>1. CASE x = "SYNC_CLOSE"
      <3>1. {i \in {e, f} : HasCell(i)} = {e, f}
        BY <1>1, <2>1
      <3> QED BY <1>1, <2>1, <3>1 DEF CellsOf
    <2>2. CASE x # "SYNC_CLOSE"
      <3>1. {i \in {e, f} : HasCell(i)} = {e}
        BY <1>1, <2>2
      <3> QED BY <1>1, <2>2, <3>1 DEF CellsOf
    <2> QED BY <2>1, <2>2
  <1>8. Posts(s, {e, f})
    <2> PICK ev, ba : ev = events /\ ba = batch
      OBVIOUS
    <2>1. /\ ev \in Seq(Event) /\ ba \in Seq(Event) /\ Distinct(ev \o ba)
          /\ Items(ev \o ba) = Waiting
      BY DEF TypeOK, EventsInv, Pending, Waiting
    <2>2. News(e, Items(ev \o ba)) /\ News(f, Items(ev \o ba)) /\ f.kind # e.kind
      BY <1>1, <1>3, <2>1
    <2>3. PostsTwo(e, f, ev, ba)
      BY <1>2, <2>1, <2>2, PostTwo
    <2>4. events' \in Seq(Event) /\ Waiting' = Waiting \cup {e, f} /\ Distinct(Pending)'
      BY <2>1, <2>3 DEF PostsTwo, Pending, Waiting
    <2>5. \A i \in {e, f} :
            /\ i.src = s /\ (HasCell(i) => i.cell \in Cell /\ i.cell \notin Others)
            /\ i.kind \in {"SYNC_CLOSE", "SYNC_ERROR"} => s \in short'
      BY <1>1
    <2>6. \A i, k \in {e, f} : HasCell(i) /\ HasCell(k) /\ i.cell = k.cell => i = k
      BY <1>1
    <2> QED BY <2>4, <2>5, <2>6 DEF Posts
  <1> QED BY <1>1, <1>4, <1>6, <1>8 DEF PostsFor

(* The heap after one that is closed.                                         *)
ClosesHeap(g, a, L, O, s, b, r, c, j, f) ==
    /\ ShortHeap(g, a, L, O, s, {b, r}, b, c, {j}, f)
    /\ j \in Cell /\ j \notin O /\ j # c

(* Two cells are taken, for b and for r.                                      *)
TakesTwo(g, a, L, O, s, b, r, c, j, k, f) ==
    /\ L[QueueOf(s)] = <<>> /\ TakesCell(g, a, L, O, s, b, c, k)
    /\ Cardinality(g.alloc) \in Nat /\ Cardinality(g.alloc) + 3 =< NCells /\ r \in Seq(Byte)
    /\ j = GetCell(k) /\ f = [gwprwrq_get(k) EXCEPT !.buf[j] = r]

(* The cells of a short write whose connection was closed.                    *)
LEMMA ShortClosed ==
    ASSUME NEW g, NEW a, NEW L, NEW O, NEW s \in Src, NEW b, NEW r, NEW c, NEW j, NEW k, NEW f,
           TakesTwo(g, a, L, O, s, b, r, c, j, k, f)
    PROVE  ClosesHeap(g, a, L, O, s, b, r, c, j, f)
  <1>1. /\ L[QueueOf(s)] = <<>> /\ TakesCell(g, a, L, O, s, b, c, k)
        /\ Cardinality(g.alloc) \in Nat /\ Cardinality(g.alloc) + 3 =< NCells
        /\ r \in Seq(Byte) /\ j = GetCell(k)
        /\ f = [gwprwrq_get(k) EXCEPT !.buf[j] = r]
    BY DEF TakesTwo
  <1>2. ASSUME NEW i, i = GetCell(k), NEW e, e = [gwprwrq_get(k) EXCEPT !.buf[i] = r]
        PROVE  /\ ShortHeap(g, a, L, O, s, {b, r}, b, c, {i}, e)
               /\ i \in Cell /\ i \notin O /\ i # c
    BY <1>1, <1>2, ShortClose
  <1> QED BY <1>1, <1>2 DEF ClosesHeap

(* A synchronous write that falls short.                                      *)
LEMMA LiveSyncShort ==
    ASSUME Live, NEW s \in Src, SyncShort(s) PROVE WriteInv'
  <1> USE LiveHas
  <1> PICK d : d = Data(nwrites + 1)
    OBVIOUS
  <1> PICK c : c = GetCell(h)
    OBVIOUS
  <1> PICK e : e = Evt("SYNC_WRITE", s, c, <<>>)
    OBVIOUS
  <1>1. PICK o \in Outcomes(s, d) :
            LET done == Take(d, o[1])
                g    == [gwprwrq_get(h) EXCEPT !.buf[c] = done]
                c2   == GetCell(g)
                ev   == <<Evt("SYNC_WRITE", s, c, <<>>)>> \o events
            IN  /\ o[2] # "ok"
                /\ sent' = [sent EXCEPT ![s] = @ \o SubSeq(d, 1, o[1])]
                /\ closed' = IF o[2] = "closed" THEN closed \cup {s} ELSE closed
                /\ short' = short \cup {s}
                /\ \/ /\ o[2] = "again"
                      /\ h' = IF o[1] = 0 THEN Queue(Queue(g, s, done), s, done)
                              ELSE Queue(g, s, done)
                      /\ wr' = WantsWrite(s) /\ halted' = halted \ {s}
                      /\ events' = IF o[1] = 0 THEN ev
                                   ELSE <<Evt("SYNC_ERROR", s, NULL, Rest(d, o[1]))>> \o ev
                   \/ /\ o[2] = "closed"
                      /\ h' = [gwprwrq_get(g) EXCEPT !.buf[c2] = Rest(d, o[1])]
                      /\ events' = <<Evt("SYNC_CLOSE", s, c2, <<>>)>> \o ev
                      /\ UNCHANGED <<wr, halted, clientVars>>
                   \/ /\ o[2] = "other"
                      /\ h' = g
                      /\ events' = <<Evt("SYNC_ERROR", s, NULL, Rest(d, o[1]))>> \o ev
                      /\ UNCHANGED <<wr, halted, clientVars>>
    BY DEF SyncShort
  <1> PICK n : n = o[1]
    OBVIOUS
  <1> PICK b : b = Take(d, n)
    OBVIOUS
  <1> PICK r : r = Rest(d, n)
    OBVIOUS
  <1> PICK g : g = [gwprwrq_get(h) EXCEPT !.buf[c] = b]
    OBVIOUS
  <1> PICK j : j = GetCell(g)
    OBVIOUS
  <1>2. Wrote(s, d) /\ TRUE \in client.sync
        /\ UNCHANGED <<batch, actVars, reported, returned, leaked, failed, clientVars>>
    BY WroteIs DEF SyncShort
  <1>3. ~client.pipelined
    BY <1>2 DEF Wrote
  <1>4. Quiet(s) /\ s \notin short
    BY <1>2, <1>3, NoEvents DEF Wrote
  <1>5. d \in Seq(Byte) /\ Len(d) = client.len /\ client.len \in Nat /\ client.len # 0
    BY <1>2, ClientIs DEF Wrote, IsWrite
  <1>6. n \in 0..Len(d) /\ n # Len(d)
    BY <1>1 DEF Outcomes
  <1>7. n \in 0..(client.len - 1)
    BY <1>5, <1>6
  <1>8. b \in Seq(Byte) /\ r \in Seq(Byte) /\ Len(b) =< client.len /\ Len(r) =< client.len
    <2>1. b \in Seq(Byte) /\ r \in Seq(Byte) /\ Len(b) = n /\ Len(r) = Len(d) - n
      BY <1>5, <1>6, TakeTypes
    <2> QED BY <2>1, <1>5, <1>6
  <1>9. /\ SameWork /\ batch' = batch /\ short' = short \cup {s} /\ s \in short'
        /\ sent' = [sent EXCEPT ![s] = @ \o b]
        /\ UNCHANGED <<batch, stopwrite, deleted, reported, returned, failed>>
        /\ closed' \subseteq Src /\ \A t \in Src : t # s => (t \in closed' <=> t \in closed)
    BY <1>1, <1>2 DEF SameWork, actVars, clientVars, Take, TypeOK
  <1>10. /\ TakesCell(h, First, Lists, Others, s, b, c, g)
         /\ Cardinality(h.alloc) \in Nat /\ Cardinality(h.alloc) + 3 =< NCells
    <2>1. Accounted(h, First, Lists, Others)
      BY HeapIs
    <2>2. /\ Cardinality(h.alloc) < NCells /\ Cardinality(h.alloc) \in Nat
          /\ Cardinality(h.alloc) + 3 =< NCells
      BY <1>2, BoundAssumption DEF Wrote
    <2>3. TakesCell(h, First, Lists, Others, s, b, GetCell(h),
          [gwprwrq_get(h) EXCEPT !.buf[GetCell(h)] = b])
      BY <2>1, <2>2, <1>8, TakeCell
    <2> QED BY <2>2, <2>3
  <1>11. c \in Cell /\ c \notin Others /\ g.wrqlast = h.wrqlast
    BY <1>10 DEF TakesCell
  <1>12. Lists[QueueOf(s)] = <<>>
    BY <1>2, <1>3, WroteEnd
  <1>13. h.wrqlast[s] = NULL
    BY <1>3, <1>4, NoEvents DEF LastInv, TailInv
  <1>14. Shorten(s, c) /\ WroteShort(s, d, n, b)
    BY <1>2, <1>3, <1>4, <1>7, <1>8, <1>9, <1>11 DEF Shorten, WroteShort
  <1>15. CASE o[2] = "again" /\ n = 0
    <2>1. h' = Queue(Queue(g, s, b), s, b) /\ wr' = wr \cup {s} /\ halted' = halted \ {s}
          /\ events' = <<e>> \o events
      BY <1>1, <1>15 DEF WantsWrite
    <2>2. ShortHeap(h, First, Lists, Others, s, {b}, b, c, {}, h')
      <3>1. ShortHeap(h, First, Lists, Others, s, {b}, b, c, {}, Queue(Queue(g, s, b), s, b))
        BY <1>8, <1>10, <1>12, <1>13, ShortQueue
      <3> QED BY <3>1, <2>1
    <2>3. ShortFlags(s, b)
      BY <1>9, <2>1 DEF ShortFlags, TypeOK
    <2>4. \A a \in {b} : Len(a) =< client.len
      BY <1>8
    <2>5. PostsFor(s, {e}, e, c, {})
      BY <1>14, <2>1, ShortOne
    <2> QED BY <1>14, <2>2, <2>3, <2>4, <2>5, LiveShort
  <1>16. ASSUME NEW f, f = Evt("SYNC_ERROR", s, NULL, r), events' = <<f>> \o (<<e>> \o events)
         PROVE  PostsFor(s, {e, f}, e, c, {})
    <2> PICK x, k, E : x = "SYNC_ERROR" /\ k = NULL /\ E = {}
      OBVIOUS
    <2>1. /\ k \in Ptr /\ x \in {"SYNC_CLOSE", "SYNC_ERROR"} /\ x # "SYNC_CLOSE"
          /\ E = IF x = "SYNC_CLOSE" THEN {k} ELSE {}
      BY DEF Ptr
    <2>2. PostsFor(s, {e, f}, e, c, E)
      BY <2>1, <1>8, <1>14, <1>16, ShortTwo
    <2> QED BY <2>2
  <1>17. CASE o[2] = "again" /\ n # 0
    <2> PICK f : f = Evt("SYNC_ERROR", s, NULL, r)
      OBVIOUS
    <2>1. h' = Queue(g, s, b) /\ wr' = wr \cup {s} /\ halted' = halted \ {s}
          /\ events' = <<f>> \o (<<e>> \o events)
      BY <1>1, <1>17 DEF WantsWrite
    <2>2. ShortHeap(h, First, Lists, Others, s, {b}, b, c, {}, h')
      <3>1. ShortHeap(h, First, Lists, Others, s, {b}, b, c, {}, Queue(g, s, b))
        BY <1>8, <1>10, <1>12, <1>13, ShortQueue
      <3> QED BY <3>1, <2>1
    <2>3. ShortFlags(s, b)
      BY <1>9, <2>1 DEF ShortFlags, TypeOK
    <2>4. \A a \in {b} : Len(a) =< client.len
      BY <1>8
    <2>5. PostsFor(s, {e, f}, e, c, {})
      BY <1>16, <2>1
    <2> QED BY <1>14, <2>2, <2>3, <2>4, <2>5, LiveShort
  <1>18. CASE o[2] = "closed"
    <2> PICK f : f = Evt("SYNC_CLOSE", s, j, <<>>)
      OBVIOUS
    <2>1. h' = [gwprwrq_get(g) EXCEPT !.buf[j] = r] /\ wr' = wr /\ halted' = halted
          /\ events' = <<f>> \o (<<e>> \o events)
      BY <1>1, <1>18
    <2>2. /\ ShortHeap(h, First, Lists, Others, s, {b, r}, b, c, {j}, h')
          /\ j \in Cell /\ j \notin Others /\ j # c
      <3>1. TakesTwo(h, First, Lists, Others, s, b, r, c, j, g, h')
        BY <2>1, <1>8, <1>10, <1>12 DEF TakesTwo
      <3>2. ClosesHeap(h, First, Lists, Others, s, b, r, c, j, h')
        BY <3>1, ShortClosed
      <3> QED BY <3>2 DEF ClosesHeap
    <2>3. ShortFlags(s, b)
      BY <1>9, <2>1 DEF ShortFlags, TypeOK
    <2>4. PostsFor(s, {e, f}, e, c, {j})
      <3> PICK x, t, E : x = "SYNC_CLOSE" /\ t = <<>> /\ E = {j}
        OBVIOUS
      <3>1. /\ j \in Ptr /\ t \in Seq(Byte) /\ x \in {"SYNC_CLOSE", "SYNC_ERROR"}
            /\ E = IF x = "SYNC_CLOSE" THEN {j} ELSE {}
        BY <2>2 DEF Ptr
      <3>2. PostsFor(s, {e, f}, e, c, E)
        BY <3>1, <1>14, <2>1, <2>2, ShortTwo
      <3> QED BY <3>2
    <2>5. \A a \in {b, r} : Len(a) =< client.len
      BY <1>8
    <2> QED BY <1>14, <2>2, <2>3, <2>4, <2>5, LiveShort
  <1>19. CASE o[2] = "other"
    <2> PICK f : f = Evt("SYNC_ERROR", s, NULL, r)
      OBVIOUS
    <2>1. h' = g /\ wr' = wr /\ halted' = halted /\ events' = <<f>> \o (<<e>> \o events)
      BY <1>1, <1>19
    <2>2. ShortHeap(h, First, Lists, Others, s, {b}, b, c, {}, h')
      <3>1. ShortHeap(h, First, Lists, Others, s, {b}, b, c, {}, g)
        BY <1>10, <1>12, ShortTake
      <3> QED BY <3>1, <2>1
    <2>3. ShortFlags(s, b)
      BY <1>9, <2>1 DEF ShortFlags, TypeOK
    <2>4. \A a \in {b} : Len(a) =< client.len
      BY <1>8
    <2>5. PostsFor(s, {e, f}, e, c, {})
      BY <1>16, <2>1
    <2> QED BY <1>14, <2>2, <2>3, <2>4, <2>5, LiveShort
  <1> QED BY <1>1, <1>15, <1>17, <1>18, <1>19

-----------------------------------------------------------------------------
(* At the start there are no cells, no events and no bytes.                   *)
NoLists == [p \in Place |-> <<>>]

(* At first there are no cells.                                               *)
LEMMA InitHeap ==
    ASSUME Init, TypeOK
    PROVE  CellsInv /\ Lists = NoLists /\ Waiting = {} /\ Pending = <<>> /\ Loose = {}
  <1>1. /\ h.next = [c \in Cell |-> NULL] /\ h.buf = [c \in Cell |-> <<>>] /\ h.alloc = {}
        /\ h.wrq = [s \in Src |-> NULL] /\ h.wrqlast = [s \in Src |-> NULL]
        /\ h.cache = NULL /\ h.ncache = 0 /\ h.fault = FALSE /\ DOMAIN h = HeapFields
    BY DEF Init, HeapFields
  <1>2. First = NULL
    BY DEF Init, First, Looping
  <1>3. Pending = <<>>
    BY DEF Init, Pending
  <1>4. Waiting = {}
    BY <1>3, EmptyBytes DEF Waiting
  <1>5. Loose = {} /\ leaked = {}
    BY <1>4 DEF Loose, EventCells, Init
  <1>6. HeapType(h)
    BY <1>1 DEF TypeOK, HeapType
  <1>7. NoLists \in [Place -> Seq(Cell)] /\ \A p \in Place : NoLists[p] = <<>>
    BY DEF NoLists
  <1>8. CellsIn(NoLists) = {}
    BY <1>7, EmptyBytes DEF CellsIn
  <1>9. Laid(h.next, Firsts(h, NULL), NoLists)
    <2>1. \A p \in Place : Firsts(h, NULL)[p] = NULL
      BY <1>1, Places, FirstsAre
    <2>2. DOMAIN h.next = Cell /\ NULL \notin Cell
      BY <1>1, NoneIsNotCell
    <2>3. IsChain(h.next, NULL, <<>>)
      BY <2>2, NullChain
    <2>4. Once(<<>>)
      BY EmptyBytes DEF Once
    <2>5. \A p, r \in Place : Items(NoLists[p]) \cap Items(NoLists[r]) = {}
      BY <1>7, EmptyBytes
    <2> QED BY <1>7, <2>1, <2>3, <2>4, <2>5, FirstsAre DEF Laid, Apart
  <1>10. Len(NoLists[Cached]) = 0
    BY <1>7, Places, EmptyBytes
  <1>11. client.cache \in Nat
    BY ClientIs
  <1>12. Accounted(h, NULL, NoLists, {})
    BY <1>1, <1>6, <1>7, <1>8, <1>9, <1>10, <1>11 DEF Accounted, Ptr
  <1>13. Lists = NoLists
    <2>1. [p \in Place |-> Chain(h.next, Firsts(h, NULL)[p])] = NoLists
      BY <1>12, ListsAre
    <2> QED BY <1>2, <2>1 DEF Lists
  <1>14. CellsInv
    BY <1>2, <1>5, <1>12, <1>13 DEF CellsInv
  <1> QED BY <1>3, <1>4, <1>5, <1>13, <1>14

(* The initial state has its type.                                            *)
LEMMA InitType == Init => TypeOK
  <1> SUFFICES ASSUME Init PROVE TypeOK
    OBVIOUS
  <1>1. client \in Clients /\ client.len \in Nat \ {0} /\ client.writes \in Nat
        /\ client.cache \in Nat
    BY ClientAssumption DEF Init
  <1>2. act \in Src
    BY SrcAssumption DEF Init
  <1>3. \A f \in {submitted, sent, reported, returned} : f \in [Src -> Seq(Byte)]
    <2>1. [s \in Src |-> <<>>] \in [Src -> Seq(Byte)]
      OBVIOUS
    <2>2. submitted = [s \in Src |-> <<>>] /\ sent = submitted /\ reported = submitted
          /\ returned = submitted
      BY DEF Init
    <2> QED BY <2>1, <2>2
  <1>4. NULL \in Ptr /\ h.alloc \subseteq Cell
    BY DEF Ptr, Init
  <1>5. written \in 0..client.len /\ nwrites \in 0..client.writes /\ h.ncache \in 0..client.cache
    BY <1>1 DEF Init
  <1>6. h.next \in [Cell -> Ptr] /\ h.buf \in [Cell -> Seq(Byte)]
    BY <1>4 DEF Init
  <1>7. h.wrq \in [Src -> Ptr] /\ h.wrqlast \in [Src -> Ptr] /\ h.cache \in Ptr
    BY <1>4 DEF Init
  <1>8. wr \subseteq Src /\ events \in Seq(Event) /\ batch \in Seq(Event) /\ h.fault \in BOOLEAN
    BY DEF Init
  <1>9. /\ pc \in PCs /\ q \in Ptr /\ qn \in Ptr /\ errnm \in Errno \cup {"ok"}
        /\ stopwrite \in BOOLEAN /\ deleted \subseteq Src /\ closed \subseteq Src
        /\ halted \subseteq Src /\ leaked \subseteq Cell /\ failed \subseteq Src
        /\ short \subseteq Src
    BY <1>4 DEF Init, PCs
  <1> QED BY <1>1, <1>2, <1>3, <1>4, <1>5, <1>6, <1>7, <1>8, <1>9 DEF TypeOK

(* And the invariant.                                                         *)
LEMMA WriteInit == Init => WriteInv
  <1> SUFFICES ASSUME Init PROVE WriteInv
    OBVIOUS
  <1> USE InitType
  <1>1. CellsInv /\ Lists = NoLists /\ Waiting = {} /\ Pending = <<>> /\ Loose = {}
    BY InitHeap
  <1>2. /\ \A s \in Src : Lists[QueueOf(s)] = <<>>
        /\ Lists[Active] = <<>>
    BY <1>1, Places DEF NoLists
  <1>3. pc = "idle"
    BY DEF Init
  <1>4. ~Looping /\ ~Taken
    BY <1>3 DEF Looping, Taken
  <1>5. EventsInv
    BY <1>1, EmptyBytes DEF EventsInv, Distinct
  <1>6. TakenInv
    BY <1>3, <1>4 DEF TakenInv
  <1>7. LengthInv
    BY EmptyBytes, ClientIs DEF LengthInv, Init
  <1>8. \A s \in Src : Line(s) = <<>> /\ h.wrqlast[s] = NULL /\ Len(<<>>) = 0
    BY <1>2, EmptyBytes DEF Line, Init
  <1>9. LastInv
    BY <1>8 DEF LastInv, TailInv
  <1>10. PipeInv
    <2>1. Len(Lists[Cached]) = 0 /\ nwrites = 0 /\ client.src \subseteq Src
      BY <1>1, Places, EmptyBytes, ClientIs DEF NoLists, Init
    <2> QED BY <2>1, <1>3, <1>8 DEF PipeInv
  <1>11. FreshInv
    BY EmptyBytes DEF FreshInv, Fresh, Init
  <1>12. SourceInv
    <2> SUFFICES ASSUME NEW s \in Src
                 PROVE  IF client.pipelined THEN WholeInv(s) ELSE WaitsInv(s)
      BY DEF SourceInv
    <2>1. HandOf(s) = <<>> /\ ErrOf(s) = "none"
      BY <1>1, <1>4, IdleHand
    <2>2. LineOf(s) = <<>>
      BY <1>2, BufsNone DEF LineOf
    <2>3. WaitsOf(s) = {}
      BY <1>1 DEF WaitsOf
    <2>4. /\ submitted[s] = <<>> /\ sent[s] = <<>> /\ reported[s] = <<>> /\ returned[s] = <<>>
          /\ s \notin failed \cup short \cup closed \cup deleted
      BY DEF Init
    <2>5. Quiet(s)
      BY <2>1, <2>2, <2>3, <2>4 DEF Quiet, Fine, Done
    <2>6. Cat(<<>>, <<>>) = <<>>
      BY DEF Cat
    <2>7. Begins(<<>>, <<>>)
      BY EmptyBytes DEF Begins
    <2>8. WholeInv(s)
      BY <2>1, <2>2, <2>3, <2>4, <2>6, <2>7, FlattenNone DEF WholeInv, Unsent
    <2> QED BY <2>5, <2>8 DEF WaitsInv
  <1> QED BY <1>1, <1>3, <1>5, <1>6, <1>7, <1>9, <1>10, <1>11, <1>12 DEF WriteInv, LiveInv

-----------------------------------------------------------------------------
(* The inductive invariant.                                                   *)
CarefulInv == Careful /\ WriteInv /\ PolledInv

(* A stuttering step keeps it.                                                *)
LEMMA WriteStutter == WriteInv /\ UNCHANGED vars => WriteInv'
  <1> SUFFICES ASSUME WriteInv, UNCHANGED vars PROVE WriteInv'
    OBVIOUS
  <1> USE DEF vars, actVars, histVars, failVars, clientVars
  <1>1. Lists' = Lists /\ First' = First
    BY DEF Lists, First, Looping
  <1>2. Waiting' = Waiting /\ Loose' = Loose /\ Pending' = Pending
    BY DEF Waiting, Loose, EventCells, Pending
  <1>3. CellsInv => CellsInv'
    <2> SUFFICES ASSUME CellsInv PROVE CellsInv'
      OBVIOUS
    <2>1. TypeOK /\ Others' = Others /\ Loose' \cap leaked' = {} /\ client' = client /\ h' = h
      BY <1>2 DEF WriteInv, Others, CellsInv
    <2> QED BY <1>1, <2>1, HeapStays
  <1>4. EventsInv => EventsInv'
    BY <1>2 DEF EventsInv
  <1>5. TakenInv => TakenInv'
    BY DEF TakenInv, Taken
  <1>6. LengthInv => LengthInv'
    BY DEF LengthInv
  <1>7. \A s \in Src : Line(s)' = Line(s)
    BY <1>1 DEF Line
  <1>8. LastInv => LastInv'
    BY <1>1, <1>7 DEF LastInv, TailInv
  <1>9. PipeInv => PipeInv'
    BY <1>1 DEF PipeInv, Line
  <1>10. \A s \in Src : Stays(s)
    <2> TAKE s \in Src
    <2>1. SameHand(s)
      BY <1>1 DEF SameHand, HandOf, ErrOf, TakenOf, Hand, Taken, Rem
    <2>2. LineOf(s)' = LineOf(s) /\ WaitsOf(s)' = WaitsOf(s) /\ OffStays(s)
      BY <1>1, <1>2 DEF LineOf, WaitsOf, OffStays, Off
    <2> QED BY <2>1, <2>2 DEF Stays, SameSent, SameFlags
  <1>11. SourceInv => SourceInv'
    BY <1>10, NoSource
  <1>12. TypeOK' /\ FreshInv' /\ (StreamInv => StreamInv')
    BY DEF TypeOK, FreshInv, StreamInv, WriteInv
  <1> QED BY <1>3, <1>4, <1>5, <1>6, <1>8, <1>9, <1>11, <1>12 DEF WriteInv, LiveInv

(* Every step of a careful client, the proactor and the kernel keeps the      *)
(* invariant, one action after the other.                                     *)
LEMMA WriteNext == CarefulInv /\ [Next]_vars => CarefulInv'
  <1> SUFFICES ASSUME CarefulInv, [Next]_vars PROVE CarefulInv'
    OBVIOUS
  <1>1. PolledInv' /\ Careful'
    BY PolledNext DEF CarefulInv, Careful
  <1>2. CASE UNCHANGED vars
    BY <1>1, <1>2, WriteStutter DEF CarefulInv
  <1>3. CASE Next /\ pc # "freed" /\ ~Ended
    <2>1. Live
      BY <1>3 DEF CarefulInv, WriteInv, Live
    <2>2. CASE Activity
      BY <2>1, <2>2, LiveWriteItem, LiveWritten, LivePartial, LiveBlocked, LiveClosed,
         LiveDropped, LiveErrorBack, LiveLoopEnd, LiveActivityEnd, <1>1 DEF Activity, CarefulInv
    <2>3. CASE Dispatch
      BY <2>1, <2>3, LiveNextBatch, LiveActivityWrite, LiveSyncWrite, LiveSyncWriteEnd,
         LiveSyncClose, LiveSyncError, <1>1 DEF Dispatch, CarefulInv
    <2>4. CASE gwpr_free
      BY <2>1, <2>4, LiveFree, <1>1 DEF CarefulInv
    <2>5. CASE \E s \in Src : gwpr_write(s) \/ Writable(s) \/ gwpr_src_del(s)
      BY <2>1, <2>5, LiveWriteQueued, LiveSyncFull, LiveSyncShort, LiveWritable, LiveDel, <1>1
      DEF gwpr_write, CarefulInv
    <2> QED BY <1>3, <2>2, <2>3, <2>4, <2>5 DEF Next
  <1>4. CASE Next /\ pc = "freed" /\ ~Ended
    <2>1. ~Activity
      BY <1>4 DEF Activity, WriteItem, ResultWritten, ResultPartial, ResultBlocked, ResultClosed,
         ResultError, LoopEnd, ActivityEnd, Result
    <2>2. ~Dispatch /\ ~gwpr_free
      BY <1>4 DEF Dispatch, NextBatch, ActivityWrite, ActivitySyncWrite, SyncWriteEnd,
         ActivitySyncClose, ActivitySyncError, Called, gwpr_free
    <2>3. ~\E s \in Src : gwpr_write(s) \/ Writable(s) \/ gwpr_src_del(s)
      BY <1>4 DEF gwpr_write, WriteQueued, SyncFull, SyncShort, Submit, MayWrite, Writable,
         gwpr_src_del
    <2> QED BY <1>4, <2>1, <2>2, <2>3 DEF Next
  <1>5. CASE Ended
    BY <1>1, <1>5, WriteStutter DEF Ended, CarefulInv
  <1> QED BY <1>2, <1>3, <1>4, <1>5

(* What the proactor keeps of the writes of careful clients.                  *)
THEOREM WriteKeeps == Careful /\ Spec => []CarefulInv
  <1>1. Careful /\ Init => CarefulInv
    BY WriteInit, PolledInit DEF CarefulInv
  <1>2. CarefulInv /\ [Next]_vars => CarefulInv'
    BY WriteNext
  <1> QED BY <1>1, <1>2, PTL DEF Spec

-----------------------------------------------------------------------------
(* What the invariant says of the properties.                                 *)
LEMMA CarefulStream == CarefulInv => TypeOK /\ StreamInv
  <1> SUFFICES ASSUME CarefulInv PROVE TypeOK /\ StreamInv
    OBVIOUS
  <1>1. CASE pc = "freed"
    BY <1>1 DEF CarefulInv, WriteInv
  <1>2. CASE pc # "freed"
    BY <1>2, StreamHolds DEF CarefulInv, WriteInv, LiveInv
  <1> QED BY <1>1, <1>2

(* Prefixes and elements, as the properties state them.                       *)
LEMMA BeginsPrefix ==
    ASSUME NEW S, NEW a \in Seq(S), NEW b \in Seq(S), Begins(a, b)
    PROVE  IsPrefix(a, b)
  <1>1. Len(a) \in Nat /\ Len(b) \in Nat /\ Len(a) =< Len(b)
    BY LenProperties DEF Begins
  <1>2. Len(a) \in 0..Len(a) /\ Len(a) \in 0..Len(b)
    BY <1>1
  <1> DEFINE l == SubSeq(a, 1, Len(a))
             r == SubSeq(b, 1, Len(a))
  <1>3. /\ l \in Seq(S) /\ Len(l) = Len(a) /\ \A i \in 1..Len(a) : l[i] = a[i]
    BY <1>2, PrefixIs
  <1>4. /\ r \in Seq(S) /\ Len(r) = Len(a) /\ \A i \in 1..Len(a) : r[i] = b[i]
    BY <1>2, PrefixIs
  <1> HIDE DEF l, r
  <1>5. \A i \in 1..Len(l) : l[i] = r[i]
    BY <1>3, <1>4 DEF Begins
  <1>6. l = r
    BY <1>3, <1>4, <1>5, SeqEqual
  <1> QED BY <1>1, <1>6 DEF IsPrefix, l, r

(* The elements of a sequence, as SequencesExt writes them.                   *)
LEMMA ToSetIs ==
    ASSUME NEW S, NEW a \in Seq(S)
    PROVE  ToSet(a) = Items(a)
  BY LenProperties DEF ToSet, Items

(* Between two activities the queue of a source is its line.                  *)
LEMMA ContentsAre ==
    ASSUME TypeOK, CellsInv, NEW s \in Src
    PROVE  Contents(s) = FlattenSeq(LineOf(s))
  <1>1. Chain(h.next, h.wrq[s]) = Lists[QueueOf(s)]
    <2>1. Chain(h.next, Firsts(h, First)[QueueOf(s)]) = Lists[QueueOf(s)]
      BY HeapIs, HeadCell
    <2> QED BY <2>1, FirstsAre
  <1> QED BY <1>1 DEF Contents, LineOf, Bufs

(* FlattenSeq of a single buffer.                                             *)
LEMMA FlattenOne ==
    ASSUME NEW S, NEW b \in Seq(S)
    PROVE  FlattenSeq(<<b>>) = b
  <1>1. <<>> \in Seq(Seq(S)) /\ <<b>> \o <<>> = <<b>>
    OBVIOUS
  <1>2. FlattenSeq(<<b>> \o <<>>) = Cat(b, FlattenSeq(<<>>))
    BY <1>1, FlattenCons
  <1> QED BY <1>1, <1>2, FlattenNone, CatEmpty

(* From SourceInv: what was sent and what is in the queue.                    *)
LEMMA StreamIsIntact == CarefulInv => StreamIntact
  <1> SUFFICES ASSUME CarefulInv PROVE StreamIntact
    OBVIOUS
  <1> SUFFICES ASSUME NEW s \in Src \ (failed \cup short \cup deleted)
               PROVE  /\ IsPrefix(sent[s], submitted[s])
                      /\ pc = "idle" /\ s \notin closed => sent[s] \o Contents(s) = submitted[s]
    BY DEF StreamIntact, Intact
  <1>1. TypeOK /\ StreamInv
    BY CarefulStream
  <1>2. sent[s] \in Seq(Byte) /\ submitted[s] \in Seq(Byte)
    BY <1>1 DEF TypeOK
  <1>3. IsPrefix(sent[s], submitted[s])
    <2>1. Begins(sent[s], submitted[s])
      BY <1>1 DEF StreamInv
    <2> QED BY <1>2, <2>1, BeginsPrefix
  <1>4. ASSUME pc = "idle", s \notin closed
        PROVE  sent[s] \o Contents(s) = submitted[s]
    <2>1. LiveInv
      BY <1>4 DEF CarefulInv, WriteInv
    <2>2. CellsInv /\ TakenInv /\ EventsInv /\ SourceInv
      BY <2>1 DEF LiveInv
    <2>3. SourceType(s)
      BY <1>1, <2>2, SourceTypes
    <2>4. HandOf(s) = <<>> /\ Len(<<>>) = 0
      BY <1>1, <1>4, <2>2, IdleHand, EmptyBytes DEF Looping
    <2> PICK l : l = LineOf(s)
      OBVIOUS
    <2>5. Contents(s) = FlattenSeq(l) /\ l \in Seq(Seq(Byte))
      BY <1>1, <2>2, <2>3, ContentsAre DEF SourceType
    <2>6. \A b \in Seq(Byte) : sent[s] \o b = Cat(sent[s], b)
      BY DEF Cat
    <2>7. submitted[s] = Cat(sent[s], FlattenSeq(l))
      <3>1. CASE client.pipelined
        <4>1. WholeInv(s)
          BY <3>1, <2>2 DEF SourceInv
        <4>2. submitted[s] = Cat(sent[s], Unsent(s))
          BY <4>1, <1>4 DEF WholeInv
        <4>3. Unsent(s) = Cat(<<>>, FlattenSeq(l))
          BY <2>4, FlattenNone DEF Unsent
        <4> QED BY <4>2, <4>3, <2>5, FlattenType, CatEmpty
      <3>2. CASE ~client.pipelined
        <4>1. WaitsInv(s)
          BY <3>2, <2>2 DEF SourceInv
        <4>2. Quiet(s) \/ InQueue(s) \/ Synced(s)
          BY <4>1, <1>4, <2>4 DEF WaitsInv, InHand, Short, Failed, Closed, Deleted
        <4>3. CASE l = <<>> /\ sent[s] = submitted[s]
          BY <4>3, <1>2, FlattenNone, CatEmpty
        <4>4. CASE Len(l) = 1 /\ submitted[s] = Cat(sent[s], l[1])
          <5>1. l[1] \in Seq(Byte) /\ l = <<l[1]>>
            BY <4>4, <2>5, SingleIs
          <5> QED BY <5>1, <4>4, FlattenOne
        <4> QED BY <4>2, <4>3, <4>4 DEF Quiet, InQueue, Synced
      <3> QED BY <3>1, <3>2
    <2> QED BY <2>5, <2>6, <2>7, FlattenType
  <1> QED BY <1>3, <1>4

(* From LastInv, for a client that pipelines.                                 *)
LEMMA TailsAreLast == CarefulInv => TailIsLast
  <1> SUFFICES ASSUME CarefulInv, pc = "idle", client.pipelined, NEW s \in Src,
                      h.wrq[s] # NULL, h.wrqlast[s] # NULL
               PROVE  /\ Chain(h.next, h.wrq[s]) # <<>>
                      /\ h.wrqlast[s] = Last(Chain(h.next, h.wrq[s]))
    BY DEF TailIsLast
  <1>1. TypeOK /\ CellsInv /\ LastInv
    BY DEF CarefulInv, WriteInv, LiveInv
  <1>2. Lists[Active] = <<>>
    BY <1>1, IdleHand DEF Looping
  <1>3. Line(s) = Lists[QueueOf(s)]
    BY <1>2 DEF Line
  <1>4. Chain(h.next, h.wrq[s]) = Lists[QueueOf(s)] /\ Lists[QueueOf(s)] # <<>>
    <2>1. Chain(h.next, Firsts(h, First)[QueueOf(s)]) = Lists[QueueOf(s)]
      BY <1>1, HeapIs, HeadCell
    <2>2. h.wrq[s] = NULL <=> Lists[QueueOf(s)] = <<>>
      BY <1>1, HeapIs, HeadCells
    <2> QED BY <2>1, <2>2, FirstsAre
  <1>5. h.wrqlast[s] = LastOf(Line(s))
    BY <1>1, <1>3, <1>4 DEF LastInv, TailInv
  <1> QED BY <1>3, <1>4, <1>5 DEF LastOf, Last

(* From SourceInv and EventsInv: what waits to be reported is Synced or       *)
(* Short.                                                                     *)
LEMMA ReportsAreSent == CarefulInv => ReportedIsSent
  <1> SUFFICES ASSUME CarefulInv, pc # "freed", NEW s \in Src
               PROVE  LET pending == \E i \in 1..Len(Pending) :
                          Pending[i].kind = "SYNC_WRITE" /\ Pending[i].src = s
                      IN  /\ Len(reported[s]) =< Len(sent[s])
                          /\ ~pending => Len(reported[s]) = Len(sent[s])
                          /\ s \notin short => IsPrefix(reported[s], sent[s])
    BY DEF ReportedIsSent
  <1>1. TypeOK /\ CellsInv /\ TakenInv /\ EventsInv /\ SourceInv
    BY DEF CarefulInv, WriteInv, LiveInv
  <1>2. SourceType(s)
    BY <1>1, SourceTypes
  <1>3. /\ sent[s] \in Seq(Byte) /\ reported[s] \in Seq(Byte)
        /\ Len(sent[s]) \in Nat /\ Len(reported[s]) \in Nat
    BY <1>2, LenProperties DEF SourceType
  <1>4. IsPrefix(sent[s], sent[s])
    <2>1. Begins(sent[s], sent[s])
      BY <1>3 DEF Begins
    <2> QED BY <1>3, <2>1, BeginsPrefix
  <1>5. ASSUME ~\E i \in 1..Len(Pending) : Pending[i].kind = "SYNC_WRITE" /\ Pending[i].src = s
        PROVE  WaitsOf(s) = {}
    BY <1>5 DEF WaitsOf, Waiting, Items
  <1>6. \/ reported[s] = sent[s]
        \/ /\ WaitsOf(s) # {} /\ Len(reported[s]) =< Len(sent[s])
           /\ IsPrefix(reported[s], sent[s])
        \/ /\ s \in short /\ Len(reported[s]) =< Len(sent[s])
           /\ WaitsOf(s) = {} => Len(reported[s]) = Len(sent[s])
    <2>1. CASE client.pipelined
      BY <2>1, <1>1 DEF SourceInv, WholeInv
    <2>2. CASE ~client.pipelined
      <3>1. WaitsInv(s)
        BY <2>2, <1>1 DEF SourceInv
      <3>2. CASE Synced(s)
        <4>1. PICK b \in WaitsOf(s) : sent[s] = Cat(reported[s], b)
          BY <3>2 DEF Synced
        <4>2. b \in Seq(Byte)
          BY <1>2 DEF SourceType
        <4>3. Begins(reported[s], sent[s])
          BY <1>3, <4>1, <4>2, BeginsIs
        <4> QED BY <1>3, <4>3, BeginsPrefix DEF Begins
      <3>3. CASE Short(s)
        <4>1. CASE WaitsOf(s) = {}
          BY <3>3, <4>1, <1>3 DEF Short
        <4>2. CASE WaitsOf(s) # {}
          <5>1. PICK b \in WaitsOf(s) : Len(sent[s]) = Len(reported[s]) + Len(b)
            BY <3>3, <4>2 DEF Short
          <5>2. Len(b) \in Nat
            BY <1>2, LenProperties DEF SourceType
          <5>3. Len(reported[s]) =< Len(sent[s])
            BY <1>3, <5>1, <5>2
          <5> QED BY <5>3, <4>2, <3>3 DEF Short
        <4> QED BY <4>1, <4>2
      <3>4. CASE Deleted(s)
        BY <3>4, <1>3 DEF Deleted
      <3> QED BY <3>1, <3>2, <3>3, <3>4 DEF WaitsInv, Quiet, InQueue, InHand, Failed, Closed
    <2> QED BY <2>1, <2>2
  <1> QED BY <1>3, <1>4, <1>5, <1>6

(* From StreamInv.                                                            *)
LEMMA ReturnsAreUnsent == CarefulInv => ReturnedIsUnsent
  <1> SUFFICES ASSUME CarefulInv, NEW s \in Src \ short
               PROVE  ToSet(returned[s]) \cap ToSet(sent[s]) = {}
    BY DEF ReturnedIsUnsent
  <1>1. TypeOK /\ StreamInv
    BY CarefulStream
  <1>2. returned[s] \in Seq(Byte) /\ sent[s] \in Seq(Byte)
    BY <1>1 DEF TypeOK
  <1>3. Disjoint(returned[s], sent[s])
    BY <1>1 DEF StreamInv
  <1> QED BY <1>2, <1>3, ToSetIs DEF Disjoint

(* From CellsInv: no cell belongs to an event or to a list being written.     *)
LEMMA CellsAreAccounted == CarefulInv => CellsAccounted
  <1> SUFFICES ASSUME CarefulInv PROVE CellsAccounted
    OBVIOUS
  <1>1. pc = "freed" => h.alloc = leaked
    BY DEF CarefulInv, WriteInv
  <1>2. ASSUME pc = "idle", Pending = <<>>
        PROVE  /\ h.alloc = Reach(h.cache) \cup leaked \cup UNION {Reach(h.wrq[s]) : s \in Src}
               /\ \A s \in Src : Reach(h.wrq[s]) \cap (Reach(h.cache) \cup leaked) = {}
               /\ \A s, t \in Src : s # t => Reach(h.wrq[s]) \cap Reach(h.wrq[t]) = {}
               /\ h.ncache = Cardinality(Reach(h.cache)) /\ ~h.fault
    <2>1. TypeOK /\ CellsInv
      BY <1>2 DEF CarefulInv, WriteInv, LiveInv
    <2>2. Lists[Active] = <<>>
      BY <1>2, <2>1, IdleHand DEF Looping
    <2>3. Others = leaked
      BY <1>2, EmptyBytes DEF Others, Loose, EventCells, Waiting
    <2> PICK L : L = Lists
      OBVIOUS
    <2>4. /\ Reach(h.cache) = Items(L[Cached])
          /\ \A s \in Src : Reach(h.wrq[s]) = Items(L[QueueOf(s)])
      BY <2>1, ReachIs
    <2>5. /\ L \in [Place -> Seq(Cell)] /\ h.alloc = CellsIn(L) \cup leaked
          /\ CellsIn(L) \cap leaked = {} /\ h.fault = FALSE
          /\ \A p \in Place : Once(L[p]) /\ L[p] \in Seq(Cell) /\ Items(L[p]) \subseteq CellsIn(L)
          /\ \A p, r \in Place : p # r => Items(L[p]) \cap Items(L[r]) = {}
          /\ h.ncache = Len(L[Cached])
      <3>1. Accounted(h, First, L, leaked)
        BY <2>1, <2>3, HeapIs
      <3> QED BY <3>1, AccountedHas
    <2>6. CellsIn(L) = Items(L[Cached]) \cup UNION {Items(L[QueueOf(s)]) : s \in Src}
      <3>1. \A c : c \in CellsIn(L) <=> \E p \in Place : c \in Items(L[p])
        BY <2>5, InCells
      <3>2. Items(L[Active]) = {}
        BY <2>2, EmptyBytes
      <3> QED BY <3>1, <3>2, Places
    <2>7. Cardinality(Items(L[Cached])) = Len(L[Cached])
      BY <2>5, Places, ListIsShort
    <2>8. \A s \in Src : Items(L[QueueOf(s)]) \cap (Items(L[Cached]) \cup leaked) = {}
      BY <2>5, Places
    <2>9. \A s, t \in Src : s # t => Items(L[QueueOf(s)]) \cap Items(L[QueueOf(t)]) = {}
      BY <2>5, Places
    <2>10. h.alloc = Reach(h.cache) \cup leaked \cup UNION {Reach(h.wrq[s]) : s \in Src}
      BY <2>4, <2>5, <2>6
    <2> QED BY <2>4, <2>5, <2>7, <2>8, <2>9, <2>10
  <1> QED BY <1>1, <1>2 DEF CellsAccounted
-----------------------------------------------------------------------------
(* The properties of the runs, for every source set, client of Careful,       *)
(* kernel and order of events.                                                *)

(* Types of the heap, the queues, the events and what the client and the      *)
(* kernel remember, through gwpr_write, its short and synchronous forms, the  *)
(* activity of the proactor, gwpr_src_del and gwpr_free.                      *)
THEOREM WriteTypes == Careful /\ Spec => []TypeOK
  BY WriteKeeps, CarefulStream, PTL

(* For the clients of Careful - one write at a time, in callbacks too, with   *)
(* every partial write and error, or whole writes pipelined outside callbacks *)
(* on one source - what the kernel took of a source is what gwpr_write was    *)
(* given, in order, and the rest is in the queue, unless a synchronous write  *)
(* of the source fell short, an error cut one of its buffers, or it was       *)
(* deleted.                                                                   *)
THEOREM StreamKept == Careful /\ Spec => []StreamIntact
  BY WriteKeeps, StreamIsIntact, PTL

(* wrqlast of a source is NULL or the last cell of its own queue, so that     *)
(* gwprwrq_add appends to this queue.                                         *)
THEOREM TailsKept == Careful /\ Spec => []TailIsLast
  BY WriteKeeps, TailsAreLast, PTL

(* did_write reports the bytes the kernel took, in order, and as many of them.*)
THEOREM ReportsMatch == Careful /\ Spec => []ReportedIsSent
  BY WriteKeeps, ReportsAreSent, PTL

(* The data given back with the closed and the error callback was not sent    *)
(* and is not sent later.                                                     *)
THEOREM ReturnsMatch == Careful /\ Spec => []ReturnedIsUnsent
  BY WriteKeeps, ReturnsAreUnsent, PTL

(* A cell is in the cache, in the queue of one source, or leaked; the cache   *)
(* is counted, gwpr_free releases the rest, and no freed cell is touched.     *)
THEOREM CellsKept == Careful /\ Spec => []CellsAccounted
  BY WriteKeeps, CellsAreAccounted, PTL
=============================================================================
