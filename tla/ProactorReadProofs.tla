------------------------- MODULE ProactorReadProofs -------------------------
(* TLAPS proofs about ProactorRead: the proactor uses no freed memory but in  *)
(* the two cases named hasty, hands every connection over once, reports it    *)
(* once, gives all data before the end, and reads nothing after a stop, for   *)
(* any set of listeners and connections, any limits, any behaviour of the     *)
(* network and any client.                                                    *)
EXTENDS ProactorRead, FiniteSetTheorems, TLAPS

\* The part of TypeOK that the argument needs
MemTypes ==
    /\ life \in [Src -> {"none", "created", "added", "removed", "deleted"}]
    /\ flags \in [Src -> SUBSET {"RD", "WR"}] /\ interest \in [Src -> SUBSET {"RD", "WR"}]
    /\ sock \in [Src -> {"new", "connecting", "up", "refused", "eof", "reset", "listening"}]
    /\ batch \in Seq(Event) /\ backlog \in Seq(Peers) /\ evt \in Event
    /\ dangling \in BOOLEAN /\ fault \in BOOLEAN /\ hasty \subseteq Src

IInv == MemTypes /\ ReadInv

(* What taking the first event or connection leaves of a sequence.            *)
LEMMA TailFacts ==
    ASSUME NEW S, NEW s \in Seq(S), s # <<>>
    PROVE  /\ Head(s) \in S /\ Head(s) = s[1] /\ 1 \in 1..Len(s)
           /\ Tail(s) \in Seq(S)
           /\ \A k \in 1..Len(Tail(s)) :
                Tail(s)[k] = s[k + 1] /\ k + 1 \in 1..Len(s) /\ k + 1 # 1
    OBVIOUS

(* The events of a batch are events of sources.                               *)
LEMMA BatchSrc == ASSUME MemTypes, NEW k \in 1..Len(batch) PROVE batch[k].src \in Src
  <1>1. batch[k] \in Event
    BY DEF MemTypes
  <1> QED BY <1>1 DEF Event

LEMMA NoEventType == NoEvent \in Event
  BY RoleAssumption DEF RoleAssumption, NoEvent, Event

LEMMA InitIInv == Init => IInv
  <1> SUFFICES ASSUME Init PROVE IInv
    OBVIOUS
  <1>1. MemTypes
    <2>1. dangling \in BOOLEAN /\ fault \in BOOLEAN
      BY Zenon DEF Init
    <2> QED BY <2>1, NoEventType DEF Init, MemTypes
  <1>2. HandInv /\ MemoryInv
    <2>1. ~fault /\ ~dangling
      BY Zenon DEF Init
    <2> QED BY <2>1, RoleAssumption DEF RoleAssumption, Init, HandInv, MemoryInv, Src
  <1> QED BY <1>1, <1>2 DEF IInv, ReadInv

(* A step that leaves the sources, the batch and the backlog alone preserves  *)
(* the invariant if it uses no freed data and keeps track of what a callback  *)
(* freed.                                                                     *)
LEMMA Frame ==
    ASSUME IInv, UNCHANGED <<life, flags, interest, sock, backlog, batch, hasty>>, evt' \in Event,
           dangling' \in BOOLEAN, fault' \in BOOLEAN,
           hasty = {} => ~fault' /\ (dangling' => pc' \in {"readcb", "wr"} /\ "WR" \notin evt'.flags)
    PROVE  IInv'
  <1>1. MemTypes'
    BY DEF IInv, MemTypes
  <1>2. HandInv'
    BY DEF IInv, ReadInv, HandInv
  <1>3. hasty' = {} => MemoryInv'
    BY DEF IInv, ReadInv, MemoryInv
  <1> QED BY <1>1, <1>2, <1>3 DEF IInv, ReadInv

(* The steps of gwpr_src_activity and the calls that leave the sources alone. *)
LEMMA QuietSteps ==
    ASSUME IInv,
           \/ ReadData \/ ReadBlocked \/ ReadClosed \/ ReadError \/ ReadOther \/ ReadReturn
           \/ AcceptBlocked \/ AcceptReturn \/ AcceptEnd \/ ActivityEnd \/ WriteActivity
           \/ ConnectReturn \/ Ended \/ UNCHANGED vars
           \/ \E s \in Src : NetData(s) \/ gwpr_connect(s) \/ ConnectRetries(s)
           \/ \E s \in Src, c \in CbIds : gwpr_set_cb(s, c)
    PROVE  IInv'
  <1> USE DEF srcVars, actVars, netVars, histVars, At
  <1>0. /\ evt \in Event /\ dangling \in BOOLEAN /\ fault \in BOOLEAN
        /\ hasty = {} => ~fault /\ (dangling => pc \in {"readcb", "wr"} /\ "WR" \notin evt.flags)
    BY DEF IInv, ReadInv, MemTypes, MemoryInv
  <1>1. CASE ReadData \/ ReadBlocked \/ ReadClosed \/ ReadError \/ ReadOther
    BY <1>0, <1>1, Frame DEF ReadData, ReadBlocked, ReadClosed, ReadError, ReadOther
  <1>2. CASE ReadReturn \/ AcceptBlocked \/ AcceptReturn \/ AcceptEnd
    BY <1>0, <1>2, Frame DEF ReadReturn, AcceptBlocked, AcceptReturn, AcceptEnd
  <1>3. CASE ActivityEnd
    <2>1. dangling' \in BOOLEAN /\ fault' \in BOOLEAN /\ ~dangling' /\ ~fault'
      BY <1>3, <1>0, Zenon DEF ActivityEnd, Return
    <2> QED BY <2>1, <1>3, NoEventType, Frame DEF ActivityEnd, Return
  <1>7. CASE WriteActivity \/ ConnectReturn
    <2>1. dangling' = dangling /\ fault' = dangling /\ evt' = evt
      BY <1>7 DEF WriteActivity, ConnectReturn
    <2>2. hasty = {} => ~dangling
      BY <1>7, <1>0 DEF WriteActivity, ConnectReturn
    <2>3. UNCHANGED <<life, flags, interest, sock, backlog, batch, hasty>>
      BY <1>7 DEF WriteActivity, ConnectReturn
    <2> QED BY <2>1, <2>2, <2>3, <1>0, Frame
  <1>4. CASE Ended \/ UNCHANGED vars \/ \E s \in Src : ConnectRetries(s)
    BY <1>0, <1>4, Frame DEF Ended, ConnectRetries, vars
  <1>5. CASE \E s \in Src : NetData(s) \/ gwpr_connect(s)
    BY <1>0, <1>5, Frame DEF NetData, gwpr_connect
  <1>6. CASE \E s \in Src, c \in CbIds : gwpr_set_cb(s, c)
    BY <1>0, <1>6, Frame DEF gwpr_set_cb
  <1> QED BY <1>1, <1>2, <1>3, <1>4, <1>5, <1>6, <1>7

(* An event is taken from the batch; its source has not been freed.           *)
LEMMA StartStep == ASSUME IInv, ActivityStart PROVE IInv'
  <1> USE DEF srcVars, netVars, At
  <1>1. /\ batch # <<>> /\ batch' = Tail(batch) /\ ~fault /\ pc = "idle"
        /\ fault' = (life[Head(batch).src] = "deleted")
        /\ evt' \in {evt, Head(batch)} /\ dangling' = dangling
        /\ UNCHANGED <<life, flags, interest, sock, backlog, hasty>>
    BY DEF ActivityStart
  <1>2. /\ Head(batch) \in Event /\ Head(batch) = batch[1] /\ 1 \in 1..Len(batch)
        /\ Tail(batch) \in Seq(Event)
        /\ \A k \in 1..Len(Tail(batch)) :
             Tail(batch)[k] = batch[k + 1] /\ k + 1 \in 1..Len(batch)
    BY <1>1, TailFacts DEF IInv, MemTypes
  <1>3. MemTypes'
    BY <1>1, <1>2 DEF IInv, MemTypes
  <1>4. HandInv'
    BY <1>1 DEF IInv, ReadInv, HandInv
  <1>5. ASSUME hasty' = {} PROVE MemoryInv'
    <2>1. MemoryInv
      BY <1>1, <1>5 DEF IInv, ReadInv
    <2>2. ~fault'
      BY <2>1, <1>1, <1>2 DEF MemoryInv
    <2>3. \A k \in 1..Len(batch') : life'[batch'[k].src] # "deleted"
      BY <2>1, <1>1, <1>2 DEF MemoryInv
    <2>4. ~dangling'
      BY <2>1, <1>1 DEF MemoryInv
    <2> QED BY <2>1, <2>2, <2>3, <2>4, <1>1 DEF MemoryInv
  <1> QED BY <1>3, <1>4, <1>5 DEF IInv, ReadInv

(* A connection leaves the backlog, handed over or after an error.            *)
LEMMA AcceptSteps == ASSUME IInv, AcceptPeer \/ AcceptError PROVE IInv'
  <1> USE DEF srcVars, histVars, At
  <1>1. /\ backlog # <<>> /\ backlog' = Tail(backlog) /\ pc = "accept"
        /\ \/ life' = [life EXCEPT ![Head(backlog)] = "created"]
           \/ life' = life
        /\ UNCHANGED <<flags, interest, batch, evt, dangling, fault, sock, hasty>>
    BY DEF AcceptPeer, AcceptError
  <1>2. /\ Head(backlog) \in Peers /\ Head(backlog) = backlog[1] /\ 1 \in 1..Len(backlog)
        /\ Tail(backlog) \in Seq(Peers)
        /\ \A k \in 1..Len(Tail(backlog)) :
             Tail(backlog)[k] = backlog[k + 1] /\ k + 1 \in 1..Len(backlog) /\ k + 1 # 1
    BY <1>1, TailFacts DEF IInv, MemTypes
  <1>3. MemTypes'
    BY <1>1, <1>2 DEF IInv, MemTypes
  <1>4. HandInv'
    <2> USE <1>1, <1>2 DEF IInv, ReadInv, MemTypes
    <2>1. \A p \in Peers : sock'[p] = "new" => life'[p] = "none"
      BY DEF HandInv, Src
    <2>2. \A k \in 1..Len(backlog') : /\ backlog'[k] \in Peers /\ backlog'[k] # Head(backlog)
                                      /\ sock'[backlog'[k]] # "new"
      BY DEF HandInv
    <2>3. \A k \in 1..Len(backlog') : life'[backlog'[k]] = "none"
      BY <2>2 DEF HandInv, Src
    <2>4. \A j, k \in 1..Len(backlog') : j # k => backlog'[j] # backlog'[k]
      <3> SUFFICES ASSUME NEW j \in 1..Len(backlog'), NEW k \in 1..Len(backlog'), j # k
                   PROVE  backlog'[j] # backlog'[k]
        OBVIOUS
      <3>1. j + 1 # k + 1
        OBVIOUS
      <3> QED BY <3>1 DEF HandInv
    <2> QED BY <2>1, <2>2, <2>3, <2>4 DEF HandInv
  <1>5. ASSUME hasty' = {} PROVE MemoryInv'
    <2>1. MemoryInv /\ ~dangling
      BY <1>5, <1>1 DEF IInv, ReadInv, MemoryInv
    <2>2. life[Head(backlog)] = "none" /\ Head(backlog) \in Src
      BY <1>2 DEF IInv, ReadInv, HandInv, Src
    <2>3. \A s \in Src : /\ life'[s] = "deleted" => life[s] = "deleted"
                         /\ life[s] = "added" => life'[s] = "added"
      BY <2>2, <1>1 DEF IInv, MemTypes
    <2>4. \A k \in 1..Len(batch) : batch[k].src \in Src
      BY BatchSrc DEF IInv
    <2>u. UNCHANGED <<batch, interest, fault, dangling>>
      BY <1>1
    <2>5. ~fault' /\ ~dangling'
      BY <2>1, <2>u DEF MemoryInv
    <2>6. \A k \in 1..Len(batch') : life'[batch'[k].src] # "deleted"
      BY <2>1, <2>3, <2>4, <2>u DEF MemoryInv
    <2>7. \A s \in Src : life'[s] # "added" => interest'[s] = {}
      BY <2>1, <2>3, <2>u DEF MemoryInv
    <2> QED BY <2>5, <2>6, <2>7 DEF MemoryInv
  <1> QED BY <1>3, <1>4, <1>5 DEF IInv, ReadInv

(* The backend posts events only of sources it polls, which are added.        *)
LEMMA GatherStep == ASSUME IInv, gwrl_bkd_gather PROVE IInv'
  <1> USE DEF srcVars, netVars, histVars, At
  <1>1. /\ UNCHANGED <<life, flags, interest, sock, backlog, evt, dangling, fault, pc, hasty>>
    BY DEF gwrl_bkd_gather
  <1>2. PICK n \in Nat : \E order \in [1..n -> {s \in Src : Ready(s) # {}}] :
            batch' = [k \in 1..n |-> [src |-> order[k], flags |-> Ready(order[k])]]
    <2> DEFINE ready == {s \in Src : Ready(s) # {}}
    <2>1. PICK order \in SetToSeqs(ready) :
            batch' = [k \in 1..Len(order) |-> [src |-> order[k], flags |-> Ready(order[k])]]
      BY DEF gwrl_bkd_gather
    <2>2. order \in [1..Cardinality(ready) -> ready]
      BY DEF SetToSeqs
    <2>3. Cardinality(ready) \in Nat
      BY RoleAssumption, FS_CardinalityType, FS_Subset DEF RoleAssumption
    <2>4. Len(order) = Cardinality(ready)
      BY <2>2, <2>3
    <2> QED BY <2>1, <2>2, <2>3, <2>4
  <1>3. /\ batch' \in Seq(Event)
        /\ \A k \in 1..Len(batch') : interest[batch'[k].src] # {} /\ batch'[k].src \in Src
    <2>1. \A s \in Src : Ready(s) \in SUBSET {"RD", "WR"} /\ (Ready(s) # {} => interest[s] # {})
      BY DEF Ready, IInv, MemTypes
    <2> QED BY <1>2, <2>1 DEF Event
  <1>4. MemTypes'
    BY <1>1, <1>3 DEF IInv, MemTypes
  <1>5. HandInv'
    BY <1>1 DEF IInv, ReadInv, HandInv
  <1>6. ASSUME hasty' = {} PROVE MemoryInv'
    BY <1>1, <1>3, <1>6 DEF IInv, ReadInv, MemoryInv
  <1> QED BY <1>4, <1>5, <1>6 DEF IInv, ReadInv

(* New flags reach only a descriptor that is registered.                      *)
LEMMA FlagsStep ==
    ASSUME IInv, NEW s \in Src, NEW fl \in SUBSET {"RD", "WR"},
           gwrl_src_file_update_flags(s, fl),
           UNCHANGED <<life, backlog, batch, hasty>>, evt' \in Event,
           dangling' \in BOOLEAN, fault' \in BOOLEAN,
           sock' = sock \/ (s \in Clients /\ \E r \in {"up", "connecting"} :
                                sock' = [sock EXCEPT ![s] = r]),
           hasty = {} => ~fault' /\ (dangling' => pc' \in {"readcb", "wr"} /\ "WR" \notin evt'.flags)
    PROVE  IInv'
  <1>1. MemTypes'
    BY DEF IInv, MemTypes, gwrl_src_file_update_flags
  <1>2. \A p \in Peers : sock'[p] = sock[p]
    BY RoleAssumption DEF RoleAssumption, IInv, MemTypes, Src
  <1>3. HandInv'
    BY <1>2 DEF IInv, ReadInv, HandInv
  <1>4. ASSUME hasty' = {} PROVE MemoryInv'
    <2>1. MemoryInv
      BY <1>4 DEF IInv, ReadInv
    <2>2. \A t \in Src : life[t] # "added" => interest'[t] = {}
      BY <2>1 DEF MemoryInv, IInv, MemTypes, gwrl_src_file_update_flags
    <2> QED BY <2>1, <2>2, <1>4 DEF MemoryInv
  <1> QED BY <1>1, <1>3, <1>4 DEF IInv, ReadInv

(* gwpr_read, gwpr_accept, gwpr_stop_read, the return of gwsk_connect, and    *)
(* the end of gwpr_src_activity, which shuts write events off.                *)
LEMMA FlagsSteps ==
    ASSUME IInv,
           \/ Drain
           \/ \E s \in Src : gwpr_accept(s) \/ gwpr_stop_read(s) \/ \E n \in BufSizes : gwpr_read(s, n)
           \/ \E s \in Clients : ConnectReturns(s)
    PROVE  IInv'
  <1> USE DEF srcVars, actVars, netVars, histVars, At
  <1>0. /\ evt \in Event /\ dangling \in BOOLEAN /\ fault \in BOOLEAN
        /\ hasty = {} => ~fault /\ (dangling => pc \in {"readcb", "wr"} /\ "WR" \notin evt.flags)
        /\ flags \in [Src -> SUBSET {"RD", "WR"}]
    BY DEF IInv, ReadInv, MemTypes, MemoryInv
  <1>1. CASE Drain
    <2>1. /\ dangling' \in BOOLEAN /\ fault' \in BOOLEAN /\ ~dangling' /\ ~fault'
      BY <1>1, <1>0, Zenon DEF Drain, Return
    <2>2. evt' \in Event /\ UNCHANGED <<life, backlog, batch, sock, hasty>>
      BY <1>1, NoEventType DEF Drain, Return
    <2>3. Me \in Src /\ flags[Me] \ {"WR"} \in SUBSET {"RD", "WR"}
      BY <1>0 DEF Me, Event
    <2>4. CASE "write" \in cbs[Me]
      <3>1. gwrl_src_file_update_flags(Me, flags[Me] \ {"WR"})
        BY <1>1, <2>4 DEF Drain
      <3> QED BY <3>1, <2>1, <2>2, <2>3, FlagsStep
    <2>5. CASE "write" \notin cbs[Me]
      <3>1. UNCHANGED <<flags, interest>>
        BY <1>1, <2>5 DEF Drain
      <3> QED BY <3>1, <2>1, <2>2, Frame
    <2> QED BY <2>4, <2>5
  <1>2. CASE \E s \in Src : gwpr_accept(s) \/ gwpr_stop_read(s) \/ \E n \in BufSizes : gwpr_read(s, n)
    <2>1. PICK s \in Src : gwpr_accept(s) \/ gwpr_stop_read(s) \/ \E n \in BufSizes : gwpr_read(s, n)
      BY <1>2
    <2>2. /\ \/ gwrl_src_file_update_flags(s, flags[s] \cup {"RD"})
             \/ gwrl_src_file_update_flags(s, flags[s] \ {"RD"})
          /\ UNCHANGED <<life, backlog, batch, sock, evt, pc, dangling, fault, hasty>>
      BY <2>1 DEF gwpr_accept, gwpr_stop_read, gwpr_read
    <2>3. /\ flags[s] \cup {"RD"} \in SUBSET {"RD", "WR"}
          /\ flags[s] \ {"RD"} \in SUBSET {"RD", "WR"}
      BY <1>0
    <2> QED BY <2>2, <2>3, <1>0, FlagsStep
  <1>3. CASE \E s \in Clients : ConnectReturns(s)
    <2>1. PICK s \in Clients : ConnectReturns(s)
      BY <1>3
    <2>2. s \in Src /\ flags[s] \cup {"RD", "WR"} \in SUBSET {"RD", "WR"}
      BY <1>0 DEF Src
    <2>3. /\ gwrl_src_file_update_flags(s, flags[s] \cup {"RD", "WR"})
          /\ \E r \in {"up", "connecting"} : sock' = [sock EXCEPT ![s] = r]
          /\ UNCHANGED <<life, backlog, batch, evt, pc, dangling, fault, hasty>>
      BY <2>1 DEF ConnectReturns
    <2> QED BY <2>2, <2>3, <1>0, FlagsStep
  <1> QED BY <1>1, <1>2, <1>3

(* A source that is added was not in the backlog: gwpr_set_fd makes no source *)
(* of an accepted connection, and gwpr_src_add is given one that exists.      *)
LEMMA AddSteps == ASSUME IInv, NEW s \in Src, gwpr_set_fd(s) \/ gwpr_src_add(s) PROVE IInv'
  <1> USE DEF srcVars, actVars, netVars
  <1>1. /\ s \notin Peers \/ life[s] # "none"
        /\ life' = [life EXCEPT ![s] = "added"]
        /\ flags' = [flags EXCEPT ![s] = {"RD"}] /\ interest' = [interest EXCEPT ![s] = {"RD"}]
        /\ UNCHANGED <<sock, backlog, batch, evt, pc, dangling, fault, hasty>>
    BY DEF gwpr_set_fd, gwpr_src_add, AddSource
  <1>2. MemTypes'
    BY <1>1 DEF IInv, MemTypes
  <1>3. \A p \in Peers : life[p] = "none" => life'[p] = "none"
    BY <1>1 DEF IInv, MemTypes, Src
  <1>4. HandInv'
    BY <1>1, <1>3 DEF IInv, ReadInv, HandInv
  <1>5. ASSUME hasty' = {} PROVE MemoryInv'
    <2>1. MemoryInv
      BY <1>1, <1>5 DEF IInv, ReadInv
    <2>2. \A k \in 1..Len(batch) : batch[k].src \in Src
      BY BatchSrc DEF IInv
    <2>3. \A t \in Src : life'[t] = IF t = s THEN "added" ELSE life[t]
      BY <1>1 DEF IInv, MemTypes
    <2>4. \A t \in Src : t # s => interest'[t] = interest[t]
      BY <1>1 DEF IInv, MemTypes
    <2>5. UNCHANGED <<batch, evt, pc, dangling, fault>>
      BY <1>1
    <2> QED BY <2>1, <2>2, <2>3, <2>4, <2>5 DEF MemoryInv
  <1> QED BY <1>2, <1>4, <1>5 DEF IInv, ReadInv

(* Removing and deleting: the descriptor leaves the backend, no event of a    *)
(* deleted source waits, and data freed in a callback is not used after it.   *)
LEMMA ReleaseSteps == ASSUME IInv, NEW s \in Src, gwpr_src_remove(s) \/ gwpr_src_del(s) PROVE IInv'
  <1> USE DEF netVars
  <1>0. PICK to \in {"removed", "deleted"} :
            /\ Release(s, to)
            /\ hasty \subseteq hasty' /\ hasty' \subseteq hasty \cup {s}
            /\ hasty' = {} => Finished(s) /\ (to = "deleted" => Waiting(s) = {})
    BY DEF gwpr_src_remove, gwpr_src_del, Release
  <1>1. /\ life[s] \in {"added", "removed"}
        /\ life' = [life EXCEPT ![s] = to] /\ interest' = [interest EXCEPT ![s] = {}]
        /\ dangling' = (dangling \/ (s = Me /\ pc # "idle" /\ life[s] = "added"))
        /\ UNCHANGED <<flags, sock, backlog, batch, evt, pc, fault>>
    BY <1>0 DEF Release
  <1>2. MemTypes'
    <2>1. dangling' \in BOOLEAN
      BY <1>1, Zenon
    <2> QED BY <2>1, <1>0, <1>1 DEF IInv, MemTypes
  <1>3. \A p \in Peers : life[p] = "none" => life'[p] = "none"
    BY <1>1 DEF IInv, MemTypes, Src
  <1>4. HandInv'
    BY <1>1, <1>3 DEF IInv, ReadInv, HandInv
  <1>5. ASSUME hasty' = {} PROVE MemoryInv'
    <2>1. MemoryInv
      BY <1>0, <1>5 DEF IInv, ReadInv
    <2>2. \A k \in 1..Len(batch) : batch[k].src \in Src
      BY BatchSrc DEF IInv
    <2>3. \A t \in Src : /\ life'[t] = IF t = s THEN to ELSE life[t]
                         /\ interest'[t] = IF t = s THEN {} ELSE interest[t]
      BY <1>1 DEF IInv, MemTypes
    <2>4. UNCHANGED <<batch, evt, pc, fault>>
      BY <1>1
    <2>5. \A k \in 1..Len(batch') : life'[batch'[k].src] # "deleted"
      BY <2>1, <2>2, <2>3, <2>4, <1>0, <1>5 DEF MemoryInv, Waiting
    <2>6. dangling' => pc' \in {"readcb", "wr"} /\ "WR" \notin evt'.flags
      BY <2>1, <2>4, <1>0, <1>1, <1>5 DEF MemoryInv, Finished
    <2> QED BY <2>1, <2>3, <2>4, <2>5, <2>6 DEF MemoryInv
  <1> QED BY <1>2, <1>4, <1>5 DEF IInv, ReadInv

LEMMA FreeStep == ASSUME IInv, gwpr_free PROVE IInv'
  <1> USE DEF netVars, histVars, At
  <1>1. /\ life' = [s \in Src |-> IF life[s] = "added" THEN "removed" ELSE life[s]]
        /\ interest' = [s \in Src |-> {}] /\ batch = <<>> /\ pc = "idle"
        /\ UNCHANGED <<flags, sock, backlog, batch, evt, dangling, fault, hasty>>
    BY DEF gwpr_free
  <1>2. MemTypes'
    BY <1>1 DEF IInv, MemTypes
  <1>3. \A p \in Peers : life[p] = "none" => life'[p] = "none"
    BY <1>1 DEF Src
  <1>4. HandInv'
    BY <1>1, <1>3 DEF IInv, ReadInv, HandInv
  <1>5. ASSUME hasty' = {} PROVE MemoryInv'
    BY <1>1, <1>5 DEF IInv, ReadInv, MemoryInv
  <1> QED BY <1>2, <1>4, <1>5 DEF IInv, ReadInv

(* The network: a new connection enters the backlog once.                     *)
LEMMA NetSteps ==
    ASSUME IInv, NEW s \in Src, NetConnect(s) \/ NetAnswer(s) \/ NetClose(s)
    PROVE  IInv'
  <1> USE DEF srcVars, actVars, histVars
  <1>0. UNCHANGED <<life, flags, interest, batch, evt, pc, dangling, fault, hasty>>
    BY DEF NetConnect, NetAnswer, NetClose
  <1>1. ASSUME hasty' = {} PROVE MemoryInv'
    BY <1>0, <1>1 DEF IInv, ReadInv, MemoryInv
  <1>2. CASE NetAnswer(s) \/ NetClose(s)
    <2>1. /\ backlog' = backlog
          /\ sock[s] # "new"
          /\ \E r \in {"up", "refused", "eof", "reset"} : sock' = [sock EXCEPT ![s] = r]
      BY <1>2 DEF NetAnswer, NetClose
    <2>2. MemTypes'
      BY <1>0, <2>1 DEF IInv, MemTypes
    <2>3. \A p \in Src : sock'[p] = "new" <=> sock[p] = "new"
      BY <2>1 DEF IInv, MemTypes
    <2>4. Peers \subseteq Src
      BY DEF Src
    <2>5. HandInv'
      BY <1>0, <2>1, <2>3, <2>4 DEF IInv, ReadInv, HandInv
    <2> QED BY <1>1, <2>2, <2>5 DEF IInv, ReadInv
  <1>3. CASE NetConnect(s)
    <2>1. /\ s \in Peers /\ sock[s] = "new" /\ backlog' = Append(backlog, s)
          /\ sock' = [sock EXCEPT ![s] = "up"]
      BY <1>3 DEF NetConnect
    <2>2. MemTypes'
      BY <1>0, <2>1 DEF IInv, MemTypes
    <2>3. /\ Len(backlog') = Len(backlog) + 1 /\ Len(backlog) \in Nat
          /\ backlog'[Len(backlog) + 1] = s
          /\ \A k \in 1..Len(backlog) : backlog'[k] = backlog[k]
      BY <2>1 DEF IInv, MemTypes
    <2>4. \A p \in Peers : sock'[p] = IF p = s THEN "up" ELSE sock[p]
      BY <2>1 DEF IInv, MemTypes, Src
    <2>5. HandInv /\ life' = life
      BY <1>0 DEF IInv, ReadInv
    <2>6. \A k \in 1..Len(backlog') : /\ backlog'[k] \in Peers /\ sock'[backlog'[k]] # "new"
                                      /\ life'[backlog'[k]] = "none"
      BY <2>1, <2>3, <2>4, <2>5 DEF HandInv
    <2>7. \A j, k \in 1..Len(backlog') : j # k => backlog'[j] # backlog'[k]
      BY <2>1, <2>3, <2>5 DEF HandInv
    <2>8. \A p \in Peers : sock'[p] = "new" => life'[p] = "none"
      BY <2>4, <2>5 DEF HandInv
    <2>9. HandInv'
      BY <2>6, <2>7, <2>8 DEF HandInv
    <2> QED BY <1>1, <2>2, <2>9 DEF IInv, ReadInv
  <1> QED BY <1>2, <1>3

(* Every step of the system preserves the invariant.                          *)
LEMMA NextIInv == IInv /\ [Next]_vars => IInv'
  <1> SUFFICES ASSUME IInv, [Next]_vars PROVE IInv'
    OBVIOUS
  <1>1. CASE Activity
    BY <1>1, StartStep, QuietSteps, AcceptSteps, FlagsSteps DEF Activity
  <1>2. CASE gwrl_bkd_gather \/ gwpr_free
    BY <1>2, GatherStep, FreeStep
  <1>3. CASE Client
    BY <1>3, AddSteps, FlagsSteps, QuietSteps, ReleaseSteps DEF Client
  <1>4. CASE Network
    BY <1>4, NetSteps, QuietSteps DEF Network
  <1>5. CASE Ended \/ UNCHANGED vars \/ \E s \in Clients : ConnectReturns(s) \/ ConnectRetries(s)
    BY <1>5, QuietSteps, FlagsSteps DEF Src
  <1> QED BY <1>1, <1>2, <1>3, <1>4, <1>5 DEF Next

(* The backend polls only sources that are added, a batch has no event of a   *)
(* deleted source unless the client was hasty, and the backlog holds only     *)
(* connections that were not handed over, in every state gwpr_src_activity,   *)
(* the backend and the client can reach.                                      *)
THEOREM ReadInvariant == Spec => []ReadInv
  <1>1. IInv => ReadInv
    BY DEF IInv
  <1> QED BY <1>1, InitIInv, NextIInv, PTL DEF Spec

(* Whatever the client removes and deletes, in callbacks and between events,  *)
(* whatever the network does and in whatever order the events of a batch      *)
(* come, gwpr_src_activity, a later event and the backend use no freed memory *)
(* before a source is removed in a callback of its own with work left to do   *)
(* for the event, or deleted while an event of it waits.                      *)
THEOREM OnlyHasteUsesFreed == Spec => []NoUseAfterFree
  <1>1. IInv => NoUseAfterFree
    BY DEF IInv, ReadInv, MemoryInv, NoUseAfterFree
  <1> QED BY <1>1, InitIInv, NextIInv, PTL DEF Spec

(* The accept loop hands each connection to the accept callback at most once, *)
(* for any max_accept, while connections arrive, fail and are deleted.        *)
THEOREM AcceptedOnce == Spec => []AcceptOnce
  <1>1. IInv => AcceptOnce
    BY DEF IInv, ReadInv, HandInv, AcceptOnce
  <1> QED BY <1>1, InitIInv, NextIInv, PTL DEF Spec
-----------------------------------------------------------------------------
(* Data, stops and connections, for any client.                              *)

\* What arrived was read or waits, unless a reset discarded it; the closed
\* callback is called when nothing waits any more, and gwsk_connect is called
\* for a socket that was not connected.
StreamInv ==
    /\ arrived \in [Src -> 0..MaxBytes] /\ rcv \in [Src -> Nat] /\ got \in [Src -> Nat]
    /\ seen \subseteq Src /\ trying \subseteq Clients
    /\ \A s \in Src :
        /\ rcv[s] + got[s] <= arrived[s]
        /\ sock[s] # "reset" => rcv[s] + got[s] = arrived[s]
        /\ s \in seen => sock[s] = "reset" \/ (sock[s] = "eof" /\ rcv[s] = 0)
        /\ s \in trying => sock[s] = "new"

\* A source has one event in a batch at most.  One that is stopped is not
\* polled for reading, and late counts its read event if there is one.
StopInv ==
    /\ stopped \subseteq Src /\ late \in [Src -> Int]
    /\ \A j, k \in 1..Len(batch) : j # k => batch[j].src # batch[k].src
    /\ \A s \in stopped :
        /\ "RD" \notin flags[s] /\ late[s] >= 0
        /\ late[s] = 0 => \A k \in 1..Len(batch) : batch[k].src = s => "RD" \notin batch[k].flags

\* Write events are asked for by gwpr_connect only, and posted for a connection
\* that was answered; the connect callback is unset before the next event.
Answered(s) == sock[s] \notin {"new", "connecting"}
ConnectInv ==
    /\ connects \in [Src -> Nat] /\ cbs \in [Src -> SUBSET CbIds]
    /\ \A s \in Src :
        /\ connects[s] <= 1 /\ (connects[s] = 1 => Answered(s))
        /\ connects[s] = 1 /\ "connect" \in cbs[s] => fault \/ (pc = "connectcb" /\ evt.src = s)
        /\ "WR" \in flags[s] => sock[s] # "new"
    /\ \A k \in 1..Len(batch) : "WR" \in batch[k].flags => Answered(batch[k].src)
    /\ "WR" \in evt.flags => Answered(evt.src)

\* The rest of TypeOK
RestTypes ==
    /\ rdbuf \in [Src -> {DefaultBuf} \cup BufSizes] /\ pc \in PCs /\ i \in 0..MaxAccept
    /\ again \in 0..MaxAgain /\ nops \in 0..MaxOps /\ dead \subseteq Clients

DataInv == StreamInv /\ StopInv /\ ConnectInv /\ RestTypes

LEMMA DataInit == Init => DataInv
  <1> SUFFICES ASSUME Init PROVE DataInv
    OBVIOUS
  <1>1. StreamInv
    BY BoundAssumption DEF BoundAssumption, Init, StreamInv
  <1>2. StopInv
    BY DEF Init, StopInv
  <1>3. ConnectInv
    <2>1. NoEvent.flags = {}
      BY DEF NoEvent
    <2> QED BY <2>1 DEF Init, ConnectInv, Answered
  <1>4. RestTypes
    BY BoundAssumption DEF BoundAssumption, Init, RestTypes, PCs
  <1> QED BY <1>1, <1>2, <1>3, <1>4 DEF DataInv

\* The steps of gwpr_src_activity that only move on to the next part of it
Moves ==
    \/ ReadBlocked \/ ReadError \/ ReadOther \/ ReadReturn \/ AcceptBlocked \/ AcceptReturn
    \/ AcceptEnd \/ Ended \/ UNCHANGED vars \/ \E s \in Src : ConnectRetries(s)

LEMMA MovesFrame ==
    ASSUME Moves
    PROVE  /\ UNCHANGED <<life, flags, interest, cbs, rdbuf, batch, evt, trying, sock, rcv, backlog,
                          nops, arrived, got, seen, connects, stopped, late, hasty, dead>>
           /\ pc' = pc \/ (pc # "connectcb" /\ pc' \in {"wr", "readcb", "accept"})
           /\ again' = again \/ (again < MaxAgain /\ again' = again + 1)
           /\ i' = i \/ (i < MaxAccept /\ i' = i + 1)
           /\ fault => fault'
  <1> USE DEF srcVars, actVars, netVars, histVars, At
  <1>1. CASE ReadBlocked \/ ReadError \/ ReadOther \/ ReadReturn
    BY <1>1 DEF ReadBlocked, ReadError, ReadOther, ReadReturn
  <1>2. CASE AcceptBlocked \/ AcceptReturn \/ AcceptEnd
    BY <1>2 DEF AcceptBlocked, AcceptReturn, AcceptEnd
  <1>3. CASE Ended \/ UNCHANGED vars \/ \E s \in Src : ConnectRetries(s)
    BY <1>3 DEF Ended, ConnectRetries, vars
  <1> QED BY <1>1, <1>2, <1>3 DEF Moves

-----------------------------------------------------------------------------
(* Data.                                                                     *)

LEMMA StreamFrame ==
    ASSUME StreamInv, UNCHANGED <<arrived, rcv, got, seen, sock, trying>>
    PROVE  StreamInv'
  BY DEF StreamInv

\* Calls of the client that do not connect, and the steps that touch no data
LEMMA StreamQuiet ==
    ASSUME StreamInv,
           \/ Moves \/ ActivityStart \/ AcceptPeer \/ AcceptError \/ ActivityEnd \/ WriteActivity
           \/ ConnectReturn \/ Drain \/ gwrl_bkd_gather \/ gwpr_free
           \/ \E s \in Src :
                \/ gwpr_set_fd(s) \/ gwpr_src_add(s) \/ gwpr_accept(s) \/ gwpr_stop_read(s)
                \/ gwpr_src_remove(s) \/ gwpr_src_del(s)
                \/ \E c \in CbIds : gwpr_set_cb(s, c)
                \/ \E n \in BufSizes : gwpr_read(s, n)
    PROVE  StreamInv'
  <1> USE DEF srcVars, actVars, netVars, histVars
  <1>1. CASE Moves
    BY <1>1, MovesFrame, StreamFrame
  <1>2. CASE ActivityStart \/ AcceptPeer \/ AcceptError \/ ActivityEnd
    BY <1>2, StreamFrame DEF ActivityStart, AcceptPeer, AcceptError, ActivityEnd
  <1>3. CASE WriteActivity \/ ConnectReturn \/ Drain \/ gwrl_bkd_gather \/ gwpr_free
    BY <1>3, StreamFrame DEF WriteActivity, ConnectReturn, Drain, gwrl_bkd_gather, gwpr_free
  <1>4. CASE \E s \in Src : gwpr_set_fd(s) \/ gwpr_src_add(s)
    BY <1>4, StreamFrame DEF gwpr_set_fd, gwpr_src_add, AddSource
  <1>5. CASE \E s \in Src : gwpr_accept(s) \/ gwpr_stop_read(s) \/ \E n \in BufSizes : gwpr_read(s, n)
    BY <1>5, StreamFrame DEF gwpr_accept, gwpr_stop_read, gwpr_read
  <1>6. CASE \E s \in Src : gwpr_src_remove(s) \/ gwpr_src_del(s)
    BY <1>6, StreamFrame DEF gwpr_src_remove, gwpr_src_del, Release
  <1>7. CASE \E s \in Src, c \in CbIds : gwpr_set_cb(s, c)
    BY <1>7, StreamFrame DEF gwpr_set_cb
  <1> QED BY <1>1, <1>2, <1>3, <1>4, <1>5, <1>6, <1>7

(* Reading: the bytes that leave the kernel are the bytes given to did_read,  *)
(* and the closed callback is called when none is left.                       *)
LEMMA StreamReads ==
    ASSUME MemTypes, StreamInv, RestTypes, ReadData \/ ReadClosed
    PROVE  StreamInv'
  <1> USE DEF srcVars, netVars
  <1>0. Me \in Src
    BY DEF Me, Event, MemTypes
  <1>1. CASE ReadData
    <2> DEFINE n == IF rcv[Me] < rdbuf[Me] THEN rcv[Me] ELSE rdbuf[Me]
    <2>1. n \in Nat /\ n <= rcv[Me] /\ n > 0
      <3>1. rdbuf[Me] \in Nat /\ rcv[Me] \in Nat
        BY <1>0, BoundAssumption DEF BoundAssumption, RestTypes, StreamInv
      <3> QED BY <3>1, <1>1 DEF ReadData
    <2>2. /\ rcv' = [rcv EXCEPT ![Me] = @ - n] /\ got' = [got EXCEPT ![Me] = @ + n]
          /\ UNCHANGED <<arrived, seen, sock, trying>>
      BY <1>1 DEF ReadData
    <2> HIDE DEF n
    <2>3. rcv' \in [Src -> Nat] /\ got' \in [Src -> Nat]
      BY <2>1, <2>2, <1>0 DEF StreamInv
    <2>4. rcv'[Me] = rcv[Me] - n /\ got'[Me] = got[Me] + n
      BY <2>2, <1>0 DEF StreamInv
    <2>5. \A s \in Src : s # Me => rcv'[s] = rcv[s] /\ got'[s] = got[s]
      BY <2>2 DEF StreamInv
    <2>6. Me \in seen => sock[Me] = "reset"
      BY <2>1, <1>0 DEF StreamInv
    <2>7. /\ rcv'[Me] + got'[Me] = rcv[Me] + got[Me]
          /\ arrived[Me] \in Nat
      BY <2>1, <2>4, <1>0 DEF StreamInv
    <2> QED BY <2>2, <2>3, <2>5, <2>6, <2>7, <1>0 DEF StreamInv
  <1>2. CASE ReadClosed
    <2>1. /\ seen' \subseteq seen \cup {Me} /\ rcv[Me] = 0 /\ sock[Me] \in {"eof", "reset"}
          /\ UNCHANGED <<arrived, rcv, got, sock, trying>>
      BY <1>2 DEF ReadClosed
    <2> QED BY <2>1, <1>0 DEF StreamInv
  <1> QED BY <1>1, <1>2

(* The network, and gwpr_connect.                                             *)
LEMMA StreamNet ==
    ASSUME MemTypes, StreamInv,
           \/ \E s \in Src : NetConnect(s) \/ NetAnswer(s) \/ NetData(s) \/ NetClose(s) \/ gwpr_connect(s)
           \/ \E s \in Clients : ConnectReturns(s)
    PROVE  StreamInv'
  <1> USE DEF srcVars, actVars, netVars, histVars
  <1>1. ASSUME NEW s \in Src, NetConnect(s) \/ NetAnswer(s) PROVE StreamInv'
    <2>1. /\ sock[s] \in {"new", "connecting"} /\ (sock[s] = "new" => s \in Peers)
          /\ \E r \in {"up", "refused"} : sock' = [sock EXCEPT ![s] = r]
          /\ UNCHANGED <<arrived, rcv, got, seen, trying>>
      BY <1>1 DEF NetConnect, NetAnswer
    <2>2. s \notin trying /\ s \notin seen
      BY <2>1, RoleAssumption DEF RoleAssumption, StreamInv
    <2>3. /\ \A t \in Src : t # s => sock'[t] = sock[t]
          /\ sock'[s] \in {"up", "refused"}
      BY <2>1 DEF MemTypes
    <2>4. sock[s] # "reset" /\ sock'[s] # "reset"
      BY <2>1, <2>3
    <2>5. trying \subseteq Src
      BY DEF StreamInv, Src
    <2> QED BY <2>1, <2>2, <2>3, <2>4, <2>5 DEF StreamInv
  <1>2. ASSUME NEW s \in Src, NetData(s) PROVE StreamInv'
    <2>1. /\ sock[s] = "up" /\ arrived[s] < MaxBytes
          /\ rcv' = [rcv EXCEPT ![s] = @ + 1] /\ arrived' = [arrived EXCEPT ![s] = @ + 1]
          /\ UNCHANGED <<got, seen, sock, trying>>
      BY <1>2 DEF NetData
    <2>2. arrived[s] + 1 \in 0..MaxBytes /\ rcv[s] \in Nat /\ got[s] \in Nat
      BY <2>1, BoundAssumption DEF BoundAssumption, StreamInv
    <2>3. /\ arrived' \in [Src -> 0..MaxBytes] /\ rcv' \in [Src -> Nat]
          /\ arrived'[s] = arrived[s] + 1 /\ rcv'[s] = rcv[s] + 1
      BY <2>1, <2>2 DEF StreamInv
    <2>4. \A t \in Src : t # s => rcv'[t] = rcv[t] /\ arrived'[t] = arrived[t]
      BY <2>1 DEF StreamInv
    <2>5. rcv'[s] + got[s] = arrived'[s] /\ s \notin seen
      BY <2>1, <2>2, <2>3 DEF StreamInv
    <2>6. rcv'[s] + got[s] <= arrived'[s]
      BY <2>3, <2>5
    <2> QED BY <2>1, <2>3, <2>4, <2>5, <2>6 DEF StreamInv
  <1>3. ASSUME NEW s \in Src, NetClose(s) PROVE StreamInv'
    <2>1. /\ sock[s] = "up"
          /\ \/ sock' = [sock EXCEPT ![s] = "eof"] /\ rcv' = rcv
             \/ sock' = [sock EXCEPT ![s] = "reset"] /\ rcv' = [rcv EXCEPT ![s] = 0]
          /\ UNCHANGED <<arrived, got, seen, trying>>
      BY <1>3 DEF NetClose
    <2>2. /\ \A t \in Src : t # s => sock'[t] = sock[t] /\ rcv'[t] = rcv[t]
          /\ rcv' \in [Src -> Nat]
          /\ \/ sock'[s] = "eof" /\ rcv'[s] = rcv[s]
             \/ sock'[s] = "reset" /\ rcv'[s] = 0
      <3>0. sock \in [Src -> {"new", "connecting", "up", "refused", "eof", "reset", "listening"}]
            /\ rcv \in [Src -> Nat]
        BY DEF StreamInv, MemTypes
      <3>1. CASE sock' = [sock EXCEPT ![s] = "eof"] /\ rcv' = rcv
        BY <3>0, <3>1
      <3>2. CASE sock' = [sock EXCEPT ![s] = "reset"] /\ rcv' = [rcv EXCEPT ![s] = 0]
        BY <3>0, <3>2
      <3> QED BY <3>1, <3>2, <2>1
    <2>3. s \notin seen /\ s \notin trying /\ got[s] \in Nat /\ rcv[s] \in Nat /\ arrived[s] \in Nat
      BY <2>1 DEF StreamInv
    <2>4. rcv'[s] + got[s] <= arrived[s] /\ (sock'[s] # "reset" => rcv'[s] + got[s] = arrived[s])
      BY <2>1, <2>2, <2>3 DEF StreamInv
    <2> QED BY <2>1, <2>2, <2>3, <2>4 DEF StreamInv
  <1>4. ASSUME NEW s \in Src, gwpr_connect(s) PROVE StreamInv'
    <2>1. /\ s \in Clients /\ sock[s] = "new" /\ trying' = {s}
          /\ UNCHANGED <<arrived, rcv, got, seen, sock>>
      BY <1>4 DEF gwpr_connect
    <2> QED BY <2>1 DEF StreamInv
  <1>5. ASSUME NEW s \in Clients, ConnectReturns(s) PROVE StreamInv'
    <2>1. /\ s \in trying /\ trying' = {} /\ UNCHANGED <<arrived, rcv, got, seen>>
          /\ \E r \in {"up", "connecting"} : sock' = [sock EXCEPT ![s] = r]
      BY <1>5 DEF ConnectReturns
    <2>2. s \in Src /\ sock[s] = "new" /\ s \notin seen
      BY <2>1 DEF StreamInv, Src
    <2>3. /\ \A t \in Src : t # s => sock'[t] = sock[t]
          /\ sock'[s] # "reset"
      BY <2>1, <2>2 DEF MemTypes
    <2> QED BY <2>1, <2>2, <2>3 DEF StreamInv
  <1> QED BY <1>1, <1>2, <1>3, <1>4, <1>5
-----------------------------------------------------------------------------
(* Stops.                                                                    *)

LEMMA StopFrame ==
    ASSUME StopInv, UNCHANGED <<batch, flags, stopped, late>>
    PROVE  StopInv'
  BY DEF StopInv

LEMMA StopQuiet ==
    ASSUME StopInv,
           \/ Moves \/ ReadData \/ ReadClosed \/ AcceptPeer \/ AcceptError \/ ActivityEnd
           \/ WriteActivity \/ ConnectReturn \/ gwpr_free
           \/ \E s \in Src :
                \/ NetConnect(s) \/ NetAnswer(s) \/ NetData(s) \/ NetClose(s) \/ gwpr_connect(s)
                \/ gwpr_src_remove(s) \/ gwpr_src_del(s)
                \/ \E c \in CbIds : gwpr_set_cb(s, c)
    PROVE  StopInv'
  <1> USE DEF srcVars, actVars, netVars, histVars
  <1>1. CASE Moves
    BY <1>1, MovesFrame, StopFrame
  <1>2. CASE ReadData \/ ReadClosed \/ AcceptPeer \/ AcceptError \/ ActivityEnd
    BY <1>2, StopFrame DEF ReadData, ReadClosed, AcceptPeer, AcceptError, ActivityEnd
  <1>3. CASE WriteActivity \/ ConnectReturn \/ gwpr_free
    BY <1>3, StopFrame DEF WriteActivity, ConnectReturn, gwpr_free
  <1>4. CASE \E s \in Src : NetConnect(s) \/ NetAnswer(s) \/ NetData(s) \/ NetClose(s)
    BY <1>4, StopFrame DEF NetConnect, NetAnswer, NetData, NetClose
  <1>5. CASE \E s \in Src : gwpr_connect(s) \/ gwpr_src_remove(s) \/ gwpr_src_del(s)
    BY <1>5, StopFrame DEF gwpr_connect, gwpr_src_remove, gwpr_src_del, Release
  <1>6. CASE \E s \in Src, c \in CbIds : gwpr_set_cb(s, c)
    BY <1>6, StopFrame DEF gwpr_set_cb
  <1> QED BY <1>1, <1>2, <1>3, <1>4, <1>5, <1>6

(* An event is taken: if it is the read event of a stopped source, it is the  *)
(* only one of it and was counted.                                            *)
LEMMA StopStart == ASSUME MemTypes, StopInv, ActivityStart PROVE StopInv'
  <1> USE DEF srcVars, netVars
  <1> DEFINE e == Head(batch)
  <1>1. /\ batch # <<>> /\ batch' = Tail(batch) /\ Noticed(e) /\ UNCHANGED <<flags, stopped>>
    BY DEF ActivityStart
  <1>2. /\ e \in Event /\ e = batch[1] /\ 1 \in 1..Len(batch)
        /\ \A k \in 1..Len(batch') :
             batch'[k] = batch[k + 1] /\ k + 1 \in 1..Len(batch) /\ k + 1 # 1
    BY <1>1, TailFacts DEF MemTypes
  <1> HIDE DEF e
  <1>3. e.src \in Src
    BY <1>2 DEF Event
  <1>4. /\ late' \in [Src -> Int]
        /\ \A s \in Src : late'[s] = IF s = e.src /\ s \in stopped /\ "RD" \in e.flags
                                     THEN late[s] - 1 ELSE late[s]
    BY <1>1, <1>3 DEF Noticed, StopInv
  <1>5. \A j, k \in 1..Len(batch') : j # k => batch'[j].src # batch'[k].src
    <2> SUFFICES ASSUME NEW j \in 1..Len(batch'), NEW k \in 1..Len(batch'), j # k
                 PROVE  batch'[j].src # batch'[k].src
      OBVIOUS
    <2>1. j + 1 # k + 1
      OBVIOUS
    <2> QED BY <2>1, <1>2 DEF StopInv
  <1>6. \A k \in 1..Len(batch') : batch'[k].src # e.src
    BY <1>2 DEF StopInv
  <1>7. ASSUME NEW s \in stopped
        PROVE  /\ "RD" \notin flags[s] /\ late'[s] >= 0
               /\ late'[s] = 0 =>
                    \A k \in 1..Len(batch') : batch'[k].src = s => "RD" \notin batch'[k].flags
    <2>1. s \in Src /\ late[s] \in Int /\ late[s] >= 0 /\ "RD" \notin flags[s]
      BY DEF StopInv
    <2>2. CASE s = e.src /\ "RD" \in e.flags
      <3>1. late[s] # 0
        BY <2>2, <1>2 DEF StopInv
      <3>2. late'[s] = late[s] - 1
        BY <2>1, <2>2, <1>4
      <3> QED BY <3>1, <3>2, <2>1, <2>2, <1>6
    <2>3. CASE ~(s = e.src /\ "RD" \in e.flags)
      <3>1. late'[s] = late[s]
        BY <2>1, <2>3, <1>4
      <3> QED BY <3>1, <2>1, <1>2 DEF StopInv
    <2> QED BY <2>2, <2>3
  <1> QED BY <1>1, <1>4, <1>5, <1>7 DEF StopInv

(* What gwrl_bkd_gather posts: the ready flags of each source, in one event.  *)
LEMMA Gathered ==
    ASSUME gwrl_bkd_gather
    PROVE  /\ \A k \in 1..Len(batch') :
                batch'[k].src \in Src /\ batch'[k].flags = Ready(batch'[k].src)
           /\ \A j, k \in 1..Len(batch') : j # k => batch'[j].src # batch'[k].src
  <1> DEFINE ready == {s \in Src : Ready(s) # {}}
  <1>2. PICK order \in SetToSeqs(ready) :
          batch' = [k \in 1..Len(order) |-> [src |-> order[k], flags |-> Ready(order[k])]]
    BY DEF gwrl_bkd_gather
  <1>3. Cardinality(ready) \in Nat
    BY RoleAssumption, FS_CardinalityType, FS_Subset DEF RoleAssumption
  <1>4. /\ order \in [1..Cardinality(ready) -> ready]
        /\ \A j, k \in 1..Cardinality(ready) : j # k => order[j] # order[k]
    BY DEF SetToSeqs
  <1> HIDE DEF ready
  <1>5. Len(order) = Cardinality(ready)
    BY <1>3, <1>4
  <1>6. /\ Len(batch') = Len(order)
        /\ \A k \in 1..Len(batch') : batch'[k].src = order[k] /\ batch'[k].flags = Ready(order[k])
    BY <1>2, <1>3, <1>5
  <1>8. \A k \in 1..Len(batch') : batch'[k].src \in Src
    BY <1>4, <1>5, <1>6 DEF ready
  <1>9. \A j, k \in 1..Len(batch') : j # k => batch'[j].src # batch'[k].src
    BY <1>4, <1>5, <1>6
  <1> QED BY <1>6, <1>8, <1>9

(* The backend posts none for reading of a source that is stopped.            *)
LEMMA StopGather == ASSUME MemTypes, StopInv, gwrl_bkd_gather PROVE StopInv'
  <1>1. UNCHANGED <<flags, stopped, late>>
    BY DEF gwrl_bkd_gather, srcVars, histVars
  <1>2. \A s \in Src : Ready(s) \subseteq flags[s]
    BY DEF Ready
  <1>3. \A k \in 1..Len(batch') : batch'[k].src \in Src /\ batch'[k].flags \subseteq flags[batch'[k].src]
    BY <1>2, Gathered
  <1>4. \A j, k \in 1..Len(batch') : j # k => batch'[j].src # batch'[k].src
    BY Gathered
  <1> QED BY <1>1, <1>3, <1>4 DEF StopInv

(* New flags without GWRL_RD, or flags of a source that is not stopped.       *)
LEMMA StopFlags ==
    ASSUME MemTypes, StopInv, NEW s \in Src, NEW fl \in SUBSET {"RD", "WR"},
           flags' = [flags EXCEPT ![s] = fl], batch' = batch,
           \/ Unstop(s)
           \/ UNCHANGED <<stopped, late>> /\ ("RD" \in fl => "RD" \in flags[s])
    PROVE  StopInv'
  <1>1. \A t \in Src : flags'[t] = IF t = s THEN fl ELSE flags[t]
    BY DEF MemTypes
  <1>2. CASE Unstop(s)
    <2>1. late' \in [Src -> Int] /\ stopped' = stopped \ {s}
      BY <1>2 DEF Unstop, StopInv
    <2>2. \A t \in Src : t # s => late'[t] = late[t]
      BY <1>2 DEF Unstop, StopInv
    <2> QED BY <2>1, <2>2, <1>1 DEF StopInv
  <1>3. CASE UNCHANGED <<stopped, late>> /\ ("RD" \in fl => "RD" \in flags[s])
    BY <1>1, <1>3 DEF StopInv
  <1> QED BY <1>2, <1>3

LEMMA StopFlagsSteps ==
    ASSUME MemTypes, StopInv,
           \/ Drain
           \/ \E s \in Src : gwpr_set_fd(s) \/ gwpr_src_add(s) \/ gwpr_accept(s)
                             \/ \E n \in BufSizes : gwpr_read(s, n)
           \/ \E s \in Clients : ConnectReturns(s)
    PROVE  StopInv'
  <1> USE DEF srcVars, actVars, netVars, histVars
  <1>0. \A s \in Src : flags[s] \in SUBSET {"RD", "WR"}
    BY DEF MemTypes
  <1>1. CASE Drain
    <2>1. UNCHANGED <<batch, stopped, late>> /\ Me \in Src
      BY <1>1 DEF Drain, MemTypes, Event, Me
    <2>2. flags' = flags \/ flags' = [flags EXCEPT ![Me] = flags[Me] \ {"WR"}]
      BY <1>1 DEF Drain, gwrl_src_file_update_flags
    <2>3. flags[Me] \ {"WR"} \in SUBSET {"RD", "WR"}
      BY <2>1, <1>0
    <2> QED BY <2>1, <2>2, <2>3, StopFrame, StopFlags
  <1>2. ASSUME NEW s \in Src, gwpr_set_fd(s) \/ gwpr_src_add(s) PROVE StopInv'
    <2>1. flags' = [flags EXCEPT ![s] = {"RD"}] /\ batch' = batch /\ Unstop(s)
      BY <1>2 DEF gwpr_set_fd, gwpr_src_add, AddSource
    <2> QED BY <2>1, StopFlags
  <1>3. ASSUME NEW s \in Src, gwpr_accept(s) \/ \E n \in BufSizes : gwpr_read(s, n) PROVE StopInv'
    <2>1. flags' = [flags EXCEPT ![s] = flags[s] \cup {"RD"}] /\ batch' = batch /\ Unstop(s)
      BY <1>3 DEF gwpr_accept, gwpr_read, gwrl_src_file_update_flags
    <2>2. flags[s] \cup {"RD"} \in SUBSET {"RD", "WR"}
      BY <1>0
    <2> QED BY <2>1, <2>2, StopFlags
  <1>4. ASSUME NEW s \in Clients, ConnectReturns(s) PROVE StopInv'
    <2>1. flags' = [flags EXCEPT ![s] = flags[s] \cup {"RD", "WR"}] /\ batch' = batch /\ Unstop(s)
      BY <1>4 DEF ConnectReturns, gwrl_src_file_update_flags
    <2>2. s \in Src /\ flags[s] \cup {"RD", "WR"} \in SUBSET {"RD", "WR"}
      BY <1>0 DEF Src
    <2> QED BY <2>1, <2>2, StopFlags
  <1> QED BY <1>1, <1>2, <1>3, <1>4

(* gwpr_stop_read: the events of the batch are those counted.                 *)
LEMMA StopStep == ASSUME MemTypes, StopInv, NEW s \in Src, gwpr_stop_read(s) PROVE StopInv'
  <1> USE DEF actVars
  <1> DEFINE W == {k \in Waiting(s) : "RD" \in batch[k].flags}
  <1>1. /\ flags' = [flags EXCEPT ![s] = flags[s] \ {"RD"}] /\ batch' = batch
        /\ stopped' = stopped \cup {s} /\ late' = [late EXCEPT ![s] = Cardinality(W)]
    BY DEF gwpr_stop_read, gwrl_src_file_update_flags
  <1>2. IsFiniteSet(W)
    <2>1. IsFiniteSet(1..Len(batch)) /\ W \in SUBSET (1..Len(batch))
      BY FS_Interval DEF MemTypes, Waiting
    <2> QED BY <2>1, FS_Subset
  <1>3. Cardinality(W) \in Nat /\ (Cardinality(W) = 0 => W = {})
    BY <1>2, FS_CardinalityType, FS_EmptySet
  <1>4. W = {} => \A k \in 1..Len(batch) : batch[k].src = s => "RD" \notin batch[k].flags
    BY DEF Waiting
  <1> HIDE DEF W
  <1>5. late' \in [Src -> Int] /\ late'[s] = Cardinality(W)
    BY <1>1, <1>3 DEF StopInv
  <1>6. \A t \in Src : t # s => late'[t] = late[t] /\ flags'[t] = flags[t]
    BY <1>1 DEF StopInv, MemTypes
  <1>7. "RD" \notin flags'[s]
    BY <1>1 DEF MemTypes
  <1>8. stopped' \subseteq Src
    BY <1>1 DEF StopInv
  <1>9. ASSUME NEW t \in stopped'
        PROVE  /\ "RD" \notin flags'[t] /\ late'[t] >= 0
               /\ late'[t] = 0 =>
                    \A k \in 1..Len(batch) : batch[k].src = t => "RD" \notin batch[k].flags
    <2>1. CASE t = s
      BY <2>1, <1>3, <1>4, <1>5, <1>7
    <2>2. CASE t # s
      BY <2>2, <1>1, <1>6, <1>8 DEF StopInv
    <2> QED BY <2>1, <2>2
  <1> QED BY <1>1, <1>5, <1>8, <1>9 DEF StopInv
-----------------------------------------------------------------------------
(* Connections.                                                              *)

(* A step that leaves sockets, flags and events alone, sets no callback and   *)
(* stays in the connect callback if it is there.                              *)
LEMMA ConnectFrame ==
    ASSUME ConnectInv, UNCHANGED <<sock, flags, batch, evt, connects>>,
           cbs' \in [Src -> SUBSET CbIds], \A s \in Src : cbs'[s] \subseteq cbs[s],
           fault => fault', pc = "connectcb" /\ ~fault => pc' = "connectcb"
    PROVE  ConnectInv'
  BY DEF ConnectInv, Answered

LEMMA ConnectQuiet ==
    ASSUME ConnectInv,
           \/ Moves \/ ReadData \/ ReadClosed \/ AcceptPeer \/ AcceptError \/ gwpr_free
           \/ \E s \in Src : NetData(s) \/ gwpr_connect(s) \/ gwpr_src_remove(s) \/ gwpr_src_del(s)
    PROVE  ConnectInv'
  <1> USE DEF srcVars, actVars, netVars, histVars, At
  <1>0. cbs \in [Src -> SUBSET CbIds]
    BY DEF ConnectInv
  <1>1. CASE Moves
    BY <1>0, <1>1, MovesFrame, ConnectFrame
  <1>2. CASE ReadData \/ ReadClosed \/ AcceptPeer \/ AcceptError
    BY <1>0, <1>2, ConnectFrame DEF ReadData, ReadClosed, AcceptPeer, AcceptError
  <1>3. CASE gwpr_free
    BY <1>0, <1>3, ConnectFrame DEF gwpr_free
  <1>4. CASE \E s \in Src : NetData(s) \/ gwpr_connect(s)
    BY <1>0, <1>4, ConnectFrame DEF NetData, gwpr_connect
  <1>5. ASSUME NEW s \in Src, gwpr_src_remove(s) \/ gwpr_src_del(s) PROVE ConnectInv'
    <2>1. /\ cbs' = [cbs EXCEPT ![s] = {}]
          /\ UNCHANGED <<sock, flags, batch, evt, connects, fault, pc>>
      BY <1>5 DEF gwpr_src_remove, gwpr_src_del, Release
    <2> QED BY <1>0, <2>1, ConnectFrame
  <1> QED BY <1>1, <1>2, <1>3, <1>4, <1>5

(* An event with a write part is of a connection that was answered, when it   *)
(* is posted and until it is handled.                                         *)
LEMMA ConnectEvents ==
    ASSUME MemTypes, ConnectInv, ActivityStart \/ ActivityEnd \/ gwrl_bkd_gather
    PROVE  ConnectInv'
  <1> USE DEF srcVars, netVars, histVars, At
  <1>1. CASE ActivityStart
    <2>1. /\ batch # <<>> /\ batch' = Tail(batch) /\ evt' \in {evt, Head(batch)}
          /\ pc = "idle" /\ ~fault /\ UNCHANGED <<sock, flags, cbs, connects>>
      BY <1>1 DEF ActivityStart
    <2>2. /\ Head(batch) = batch[1] /\ 1 \in 1..Len(batch)
          /\ \A k \in 1..Len(batch') : batch'[k] = batch[k + 1] /\ k + 1 \in 1..Len(batch)
      BY <2>1, TailFacts DEF MemTypes
    <2>3. \A s \in Src : ~(connects[s] = 1 /\ "connect" \in cbs[s])
      BY <2>1 DEF ConnectInv
    <2>4. \A k \in 1..Len(batch') : "WR" \in batch'[k].flags => Answered(batch'[k].src)
      BY <2>2 DEF ConnectInv
    <2>5. "WR" \in evt'.flags => Answered(evt'.src)
      BY <2>1, <2>2 DEF ConnectInv
    <2> QED BY <2>1, <2>3, <2>4, <2>5 DEF ConnectInv, Answered
  <1>2. CASE ActivityEnd
    <2>1. /\ pc = "wr" /\ ~fault /\ evt' = NoEvent
          /\ UNCHANGED <<sock, flags, cbs, connects, batch>>
      BY <1>2 DEF ActivityEnd, Return
    <2>2. \A s \in Src : ~(connects[s] = 1 /\ "connect" \in cbs[s])
      BY <2>1 DEF ConnectInv
    <2>3. evt'.flags = {}
      BY <2>1 DEF NoEvent
    <2> QED BY <2>1, <2>2, <2>3 DEF ConnectInv, Answered
  <1>3. CASE gwrl_bkd_gather
    <2>1. UNCHANGED <<sock, flags, cbs, connects, evt, pc, fault>>
      BY <1>3 DEF gwrl_bkd_gather
    <2>5. \A s \in Src : "WR" \in Ready(s) => Answered(s)
      BY DEF Ready, Writable, Answered, ConnectInv
    <2>6. \A k \in 1..Len(batch') : /\ batch'[k].src \in Src
                                    /\ batch'[k].flags = Ready(batch'[k].src)
      BY <1>3, Gathered
    <2>7. \A k \in 1..Len(batch') : "WR" \in batch'[k].flags => Answered(batch'[k].src)
      BY <2>5, <2>6
    <2> QED BY <2>1, <2>7 DEF ConnectInv, Answered
  <1> QED BY <1>1, <1>2, <1>3

(* The connect callback is called for an event with a write part, and unset   *)
(* when it returns.                                                           *)
LEMMA ConnectCalls ==
    ASSUME MemTypes, ConnectInv, WriteActivity \/ ConnectReturn \/ Drain
    PROVE  ConnectInv'
  <1> USE DEF srcVars, actVars, netVars, histVars, At
  <1>0. Me \in Src /\ Me = evt.src
    BY DEF Me, Event, MemTypes
  <1>1. CASE WriteActivity
    <2>1. /\ pc = "wr" /\ "WR" \in evt.flags /\ ~fault
          /\ UNCHANGED <<sock, flags, cbs, batch, evt>>
          /\ \/ /\ "connect" \in cbs[Me] /\ pc' = "connectcb"
                /\ connects' = [connects EXCEPT ![Me] = @ + 1]
             \/ /\ "connect" \notin cbs[Me] /\ connects' = connects
      BY <1>1 DEF WriteActivity
    <2>2. \A s \in Src : ~(connects[s] = 1 /\ "connect" \in cbs[s])
      BY <2>1 DEF ConnectInv
    <2>3. CASE connects' = connects
      BY <2>1, <2>2, <2>3 DEF ConnectInv, Answered
    <2>4. CASE "connect" \in cbs[Me] /\ pc' = "connectcb" /\ connects' = [connects EXCEPT ![Me] = @ + 1]
      <3>1. connects[Me] \in Nat /\ connects[Me] <= 1 /\ connects[Me] # 1
        BY <2>2, <2>4, <1>0 DEF ConnectInv
      <3>2. connects' \in [Src -> Nat] /\ connects'[Me] = 1
        BY <3>1, <2>4, <1>0 DEF ConnectInv
      <3>3. \A s \in Src : s # Me => connects'[s] = connects[s]
        BY <2>4 DEF ConnectInv
      <3>4. Answered(Me)
        BY <2>1, <1>0 DEF ConnectInv
      <3> QED BY <3>2, <3>3, <3>4, <2>1, <2>2, <2>4, <1>0 DEF ConnectInv, Answered
    <2> QED BY <2>1, <2>3, <2>4
  <1>2. CASE ConnectReturn
    <2>1. /\ pc = "connectcb" /\ ~fault /\ fault' = dangling
          /\ cbs' = IF dangling THEN cbs ELSE [cbs EXCEPT ![Me] = @ \ {"connect"}]
          /\ UNCHANGED <<sock, flags, batch, evt, connects>>
      BY <1>2 DEF ConnectReturn
    <2>2. \A s \in Src : connects[s] = 1 /\ "connect" \in cbs[s] => s = Me
      BY <2>1, <1>0 DEF ConnectInv
    <2>3. CASE dangling
      BY <2>1, <2>3 DEF ConnectInv, Answered
    <2>4. CASE ~dangling
      <3>1. cbs' = [cbs EXCEPT ![Me] = @ \ {"connect"}]
        BY <2>1, <2>4
      <3>2. cbs' \in [Src -> SUBSET CbIds] /\ "connect" \notin cbs'[Me]
        BY <3>1, <1>0 DEF ConnectInv
      <3>3. \A s \in Src : s # Me => cbs'[s] = cbs[s]
        BY <3>1 DEF ConnectInv
      <3> QED BY <3>2, <3>3, <2>1, <2>2 DEF ConnectInv, Answered
    <2> QED BY <2>3, <2>4
  <1>3. CASE Drain
    <2>1. /\ pc = "drain" /\ ~fault /\ evt' = NoEvent
          /\ UNCHANGED <<sock, cbs, connects, batch>>
          /\ flags' = flags \/ flags' = [flags EXCEPT ![Me] = flags[Me] \ {"WR"}]
      BY <1>3 DEF Drain, Return, gwrl_src_file_update_flags
    <2>2. \A s \in Src : ~(connects[s] = 1 /\ "connect" \in cbs[s])
      BY <2>1 DEF ConnectInv
    <2>3. evt'.flags = {}
      BY <2>1 DEF NoEvent
    <2>4. \A s \in Src : flags'[s] \subseteq flags[s]
      BY <2>1 DEF MemTypes
    <2> QED BY <2>1, <2>2, <2>3, <2>4 DEF ConnectInv, Answered
  <1> QED BY <1>1, <1>2, <1>3

(* Sources that are added, callbacks that are set and flags that are given:   *)
(* the connect callback is set on a socket that was never connected.          *)
LEMMA ConnectClient ==
    ASSUME MemTypes, ConnectInv, NEW s \in Src,
           \/ gwpr_set_fd(s) \/ gwpr_src_add(s) \/ gwpr_accept(s) \/ gwpr_stop_read(s)
           \/ \E c \in CbIds : gwpr_set_cb(s, c)
           \/ \E n \in BufSizes : gwpr_read(s, n)
    PROVE  ConnectInv'
  <1> USE DEF srcVars, actVars, netVars, histVars
  <1>1. CASE \/ gwpr_set_fd(s) \/ gwpr_src_add(s) \/ gwpr_accept(s) \/ gwpr_stop_read(s)
             \/ \E n \in BufSizes : gwpr_read(s, n)
    <2>1. UNCHANGED <<sock, batch, evt, connects, fault, pc>>
      BY <1>1 DEF gwpr_set_fd, gwpr_src_add, AddSource, gwpr_accept, gwpr_stop_read, gwpr_read
    <2>2. \/ flags' = [flags EXCEPT ![s] = {"RD"}]
          \/ flags' = [flags EXCEPT ![s] = flags[s] \cup {"RD"}]
          \/ flags' = [flags EXCEPT ![s] = flags[s] \ {"RD"}]
      BY <1>1 DEF gwpr_set_fd, gwpr_src_add, AddSource, gwpr_accept, gwpr_stop_read, gwpr_read,
                  gwrl_src_file_update_flags
    <2>3. \A t \in Src : "WR" \in flags'[t] => "WR" \in flags[t]
      BY <2>2 DEF MemTypes
    <2>4. cbs' = cbs \/ cbs' = [cbs EXCEPT ![s] = {}]
      BY <1>1 DEF gwpr_set_fd, gwpr_src_add, AddSource, gwprdata_create, gwpr_accept,
                  gwpr_stop_read, gwpr_read
    <2>5. cbs' \in [Src -> SUBSET CbIds] /\ \A t \in Src : cbs'[t] \subseteq cbs[t]
      BY <2>4 DEF ConnectInv
    <2> QED BY <2>1, <2>3, <2>5 DEF ConnectInv, Answered
  <1>2. ASSUME NEW c \in CbIds, gwpr_set_cb(s, c) PROVE ConnectInv'
    <2>1. /\ cbs' = [cbs EXCEPT ![s] = @ \cup {c}]
          /\ UNCHANGED <<sock, flags, batch, evt, connects, fault, pc>>
          /\ c = "connect" => sock[s] = "new"
      BY <1>2 DEF gwpr_set_cb, Suits
    <2>2. /\ cbs' \in [Src -> SUBSET CbIds] /\ cbs'[s] = cbs[s] \cup {c}
          /\ \A t \in Src : t # s => cbs'[t] = cbs[t]
      BY <2>1 DEF ConnectInv
    <2>3. c = "connect" => connects[s] # 1
      BY <2>1 DEF ConnectInv, Answered
    <2> QED BY <2>1, <2>2, <2>3 DEF ConnectInv, Answered
  <1> QED BY <1>1, <1>2

(* A connection that was answered stays answered, and gwpr_connect gives the  *)
(* backend the write flag of a socket that is being connected.                *)
LEMMA ConnectNet ==
    ASSUME MemTypes, StreamInv, ConnectInv,
           \/ \E s \in Src : NetConnect(s) \/ NetAnswer(s) \/ NetClose(s)
           \/ \E s \in Clients : ConnectReturns(s)
    PROVE  ConnectInv'
  <1> USE DEF srcVars, actVars, netVars, histVars
  <1>0. evt.src \in Src /\ \A k \in 1..Len(batch) : batch[k].src \in Src
    BY BatchSrc DEF MemTypes, Event
  <1>1. ASSUME NEW s \in Src, NetConnect(s) \/ NetAnswer(s) \/ NetClose(s) PROVE ConnectInv'
    <2>1. /\ UNCHANGED <<cbs, flags, batch, evt, connects, fault, pc>>
          /\ \E r \in {"up", "refused", "eof", "reset"} : sock' = [sock EXCEPT ![s] = r]
      BY <1>1 DEF NetConnect, NetAnswer, NetClose
    <2>2. \A t \in Src : sock'[t] = sock[t] \/ sock'[t] \in {"up", "refused", "eof", "reset"}
      BY <2>1 DEF MemTypes
    <2> QED BY <2>1, <2>2, <1>0 DEF ConnectInv, Answered
  <1>2. ASSUME NEW s \in Clients, ConnectReturns(s) PROVE ConnectInv'
    <2>1. /\ UNCHANGED <<cbs, batch, evt, connects, fault, pc>>
          /\ \E r \in {"up", "connecting"} : sock' = [sock EXCEPT ![s] = r]
          /\ flags' = [flags EXCEPT ![s] = flags[s] \cup {"RD", "WR"}] /\ s \in trying
      BY <1>2 DEF ConnectReturns, gwrl_src_file_update_flags
    <2>2. s \in Src /\ sock[s] = "new"
      BY <2>1 DEF StreamInv, Src
    <2>3. /\ \A t \in Src : t # s => sock'[t] = sock[t] /\ flags'[t] = flags[t]
          /\ sock'[s] # "new"
      BY <2>1, <2>2 DEF MemTypes
    <2>4. ~Answered(s)
      BY <2>2 DEF Answered
    <2>5. connects[s] # 1
      BY <2>2, <2>4 DEF ConnectInv
    <2>6. \A k \in 1..Len(batch) : "WR" \in batch[k].flags => batch[k].src # s
      BY <2>4 DEF ConnectInv
    <2>7. "WR" \in evt.flags => evt.src # s
      BY <2>4 DEF ConnectInv
    <2> QED BY <2>1, <2>2, <2>3, <2>5, <2>6, <2>7, <1>0 DEF ConnectInv, Answered
  <1> QED BY <1>1, <1>2
-----------------------------------------------------------------------------
(* The rest of TypeOK, and the theorems.                                     *)

LEMMA RestFrame ==
    ASSUME RestTypes,
           rdbuf' = rdbuf \/ \E s \in Src, n \in {DefaultBuf} \cup BufSizes :
                                rdbuf' = [rdbuf EXCEPT ![s] = n],
           pc' \in PCs, i' \in {0, i} \/ (i < MaxAccept /\ i' = i + 1),
           again' = again \/ (again < MaxAgain /\ again' = again + 1),
           nops' = nops \/ (nops < MaxOps /\ nops' = nops + 1), dead' = dead
    PROVE  RestTypes'
  <1>1. rdbuf' \in [Src -> {DefaultBuf} \cup BufSizes]
    BY DEF RestTypes
  <1>2. i' \in 0..MaxAccept /\ again' \in 0..MaxAgain /\ nops' \in 0..MaxOps
    BY BoundAssumption DEF BoundAssumption, RestTypes
  <1> QED BY <1>1, <1>2 DEF RestTypes

LEMMA RestNext == ASSUME RestTypes, [Next]_vars PROVE RestTypes'
  <1> USE DEF srcVars, actVars, netVars, histVars, At
  <1>0. pc \in PCs /\ {"wr", "readcb", "accept"} \subseteq PCs
    BY DEF RestTypes, PCs
  <1>1. CASE Moves
    <2>1. pc' \in PCs
      BY <1>0, <1>1, MovesFrame
    <2> QED BY <2>1, <1>1, MovesFrame, RestFrame
  <1>2. CASE ActivityStart \/ ReadData \/ ReadClosed \/ AcceptPeer \/ AcceptError
    <2>1. pc' \in PCs
      BY <1>0, <1>2 DEF ActivityStart, ReadData, ReadClosed, AcceptPeer, AcceptError, PCs
    <2> QED BY <2>1, <1>2, RestFrame
            DEF ActivityStart, ReadData, ReadClosed, AcceptPeer, AcceptError
  <1>3. CASE ActivityEnd \/ WriteActivity \/ ConnectReturn \/ Drain \/ gwrl_bkd_gather \/ gwpr_free
    <2>1. pc' \in PCs
      BY <1>0, <1>3 DEF ActivityEnd, Return, WriteActivity, ConnectReturn, Drain,
                        gwrl_bkd_gather, gwpr_free, PCs
    <2> QED BY <2>1, <1>3, RestFrame DEF ActivityEnd, Return, WriteActivity, ConnectReturn, Drain,
                                         gwrl_bkd_gather, gwpr_free
  <1>4. ASSUME NEW s \in Src, gwpr_set_fd(s) \/ gwpr_src_add(s) \/ gwpr_accept(s) \/ gwpr_connect(s)
        PROVE  RestTypes'
    BY <1>0, <1>4, RestFrame DEF gwpr_set_fd, gwpr_src_add, AddSource, gwprdata_create, gwpr_accept,
                                 gwpr_connect
  <1>5. ASSUME NEW s \in Src, gwpr_stop_read(s) \/ gwpr_src_remove(s) \/ gwpr_src_del(s)
        PROVE  RestTypes'
    BY <1>0, <1>5, RestFrame DEF gwpr_stop_read, gwpr_src_remove, gwpr_src_del, Release
  <1>6. ASSUME NEW s \in Src, (\E c \in CbIds : gwpr_set_cb(s, c)) \/ \E n \in BufSizes : gwpr_read(s, n)
        PROVE  RestTypes'
    BY <1>0, <1>6, RestFrame DEF gwpr_set_cb, gwpr_read
  <1>7. CASE Network
    BY <1>0, <1>7, RestFrame DEF Network, NetConnect, NetAnswer, NetData, NetClose
  <1>8. ASSUME NEW s \in Clients, ConnectReturns(s) PROVE RestTypes'
    BY <1>0, <1>8, RestFrame DEF ConnectReturns
  <1>9. CASE \E s \in Clients : ConnectRetries(s)
    BY <1>9, <1>1 DEF Moves, Src
  <1> QED BY <1>1, <1>2, <1>3, <1>4, <1>5, <1>6, <1>7, <1>8, <1>9
          DEF Next, Activity, Client, Moves

(* Every step preserves the invariant.                                        *)
LEMMA DataNext == ASSUME IInv, DataInv, [Next]_vars PROVE DataInv'
  <1>0. MemTypes /\ StreamInv /\ StopInv /\ ConnectInv /\ RestTypes /\ RestTypes'
    BY RestNext DEF IInv, DataInv
  <1>1. CASE Moves \/ ReadData \/ ReadClosed \/ AcceptPeer \/ AcceptError \/ gwpr_free
    BY <1>0, <1>1, StreamQuiet, StreamReads, StopQuiet, ConnectQuiet DEF DataInv
  <1>2. CASE ActivityStart \/ ActivityEnd \/ gwrl_bkd_gather
    BY <1>0, <1>2, StreamQuiet, StopStart, StopGather, StopQuiet, ConnectEvents DEF DataInv
  <1>3. CASE WriteActivity \/ ConnectReturn \/ Drain
    BY <1>0, <1>3, StreamQuiet, StopQuiet, StopFlagsSteps, ConnectCalls DEF DataInv
  <1>4. CASE Client
    <2>1. PICK s \in Src :
            \/ gwpr_set_fd(s) \/ gwpr_src_add(s) \/ gwpr_accept(s) \/ gwpr_connect(s)
            \/ gwpr_stop_read(s) \/ gwpr_src_remove(s) \/ gwpr_src_del(s)
            \/ \E c \in CbIds : gwpr_set_cb(s, c)
            \/ \E n \in BufSizes : gwpr_read(s, n)
      BY <1>4 DEF Client
    <2>2. CASE \/ gwpr_set_fd(s) \/ gwpr_src_add(s) \/ gwpr_accept(s) \/ gwpr_stop_read(s)
               \/ \E c \in CbIds : gwpr_set_cb(s, c)
               \/ \E n \in BufSizes : gwpr_read(s, n)
      BY <1>0, <2>2, StreamQuiet, StopQuiet, StopFlagsSteps, StopStep, ConnectClient DEF DataInv
    <2>3. CASE gwpr_connect(s) \/ gwpr_src_remove(s) \/ gwpr_src_del(s)
      BY <1>0, <2>3, StreamQuiet, StreamNet, StopQuiet, ConnectQuiet DEF DataInv
    <2> QED BY <2>1, <2>2, <2>3
  <1>5. CASE Network \/ \E s \in Clients : ConnectReturns(s)
    BY <1>0, <1>5, StreamNet, StopQuiet, StopFlagsSteps, ConnectNet, ConnectQuiet DEF DataInv, Network
  <1>6. CASE \E s \in Clients : ConnectRetries(s)
    BY <1>6, <1>1 DEF Moves, Src
  <1> QED BY <1>1, <1>2, <1>3, <1>4, <1>5, <1>6 DEF Next, Activity, Moves

(* Accounting for every byte, every stopped source and every connection: the  *)
(* invariant of the reading side, for any client, careful or not.             *)
THEOREM DataInvariant == Spec => [](IInv /\ DataInv)
  <1>1. Init => IInv /\ DataInv
    BY InitIInv, DataInit
  <1>2. IInv /\ DataInv /\ [Next]_vars => (IInv /\ DataInv)'
    BY NextIInv, DataNext
  <1> QED BY <1>1, <1>2, PTL DEF Spec

(* Reads, accepts, callbacks and calls keep every variable in its range; no   *)
(* byte count leaves the range of what arrived.                               *)
THEOREM ReadTypes == Spec => []TypeOK
  <1>1. ASSUME IInv, DataInv PROVE TypeOK
    <2>1. rcv \in [Src -> 0..MaxBytes] /\ got \in [Src -> 0..MaxBytes]
      BY <1>1, BoundAssumption DEF BoundAssumption, DataInv, StreamInv
    <2> QED BY <1>1, <2>1
            DEF IInv, MemTypes, DataInv, StreamInv, StopInv, ConnectInv, RestTypes, TypeOK
  <1> QED BY <1>1, DataInvariant, PTL

(* The closed callback comes after the last byte of the connection, for any   *)
(* buffer sizes and any number of stops, restarts and spurious wake-ups.      *)
THEOREM ClosedComesLast == Spec => []ClosedAfterData
  <1>1. ASSUME DataInv PROVE ClosedAfterData
    <2>1. StreamInv
      BY <1>1 DEF DataInv
    <2>2. ASSUME NEW s \in seen, sock[s] # "reset" PROVE sock[s] = "eof" /\ got[s] = arrived[s]
      BY <2>1, <2>2 DEF StreamInv
    <2> QED BY <2>2 DEF ClosedAfterData
  <1> QED BY <1>1, DataInvariant, PTL

(* After gwpr_stop_read no read event is handled but one that waited in the   *)
(* batch when it was called.                                                  *)
THEOREM StoppedIsStopped == Spec => []StopReadHolds
  <1>1. DataInv => StopReadHolds
    BY DEF DataInv, StopInv, StopReadHolds
  <1> QED BY <1>1, DataInvariant, PTL

(* A connection is reported once, after it was answered, also by a client     *)
(* that removes sources and adds them again.                                  *)
THEOREM ConnectReportedOnce == Spec => []ConnectOnce
  <1>1. DataInv => ConnectOnce
    BY DEF DataInv, ConnectInv, Answered, ConnectOnce
  <1> QED BY <1>1, DataInvariant, PTL
=============================================================================
