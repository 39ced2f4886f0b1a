-------------------------- MODULE EventCacheProofs --------------------------
(* gwrl_evt_create and gwrl_evt_free, on any number of threads.  As long as  *)
(* one thread at a time is inside the cache, every cell has one owner and    *)
(* rl->ncevents counts the cached cells; with gwrl_event_cache_max = 0 no    *)
(* thread is ever inside.                                                    *)
EXTENDS EventCache, HeapListProofs, FiniteSetTheorems, TLAPS

LEMMA CounterFacts == 0 \in Counter /\ \A k \in Counter : k \in Nat
  BY SMT DEF Counter

(* rl->ncevents is 16 bits wide.                                              *)
LEMMA CounterRange == ASSUME NEW k \in Counter PROVE k \in Nat /\ k < 65536
  BY SMT DEF Counter
LEMMA WrapRange == ASSUME NEW k \in Nat PROVE Wrap(k) \in Counter
  BY SMT DEF Wrap, Counter
LEMMA WrapUp == ASSUME NEW k \in Nat, k < 65535 PROVE Wrap(k + 1) = k + 1
  BY SMT DEF Wrap
LEMMA WrapDown == ASSUME NEW k \in Nat, 0 < k, k < 65536 PROVE Wrap(k + 65535) = k - 1
  BY SMT DEF Wrap
LEMMA WrapStays ==
    ASSUME NEW k \in Counter PROVE Wrap(k + 65535) \in Counter /\ Wrap(k + 1) \in Counter
  <1>1. k + 65535 \in Nat /\ k + 1 \in Nat
    BY CounterRange
  <1> QED BY <1>1, WrapRange
-----------------------------------------------------------------------------
(* Types, whatever the threads do.                                           *)

LEMMA TypeInit == Init => TypeInv
  BY CounterFacts DEF Init, TypeInv, TypeOK, PtrTo, MovingPCs

LEMMA TypeCreate ==
    ASSUME TypeInv, NEW t \in Thread, gwrl_evt_create(t) \/ HandOver(t)
    PROVE  TypeInv'
  <1> USE DEF TypeInv
  <1>1. CASE CreateTest(t)
    <2>1. /\ UNCHANGED <<cacheMax, next, cevents, ncevents, evt, n, posted, fault>>
          /\ \/ /\ pc' = [pc EXCEPT ![t] = "load"] /\ UNCHANGED <<alloc, held>>
                /\ raced' \in BOOLEAN
             \/ /\ UNCHANGED <<pc, raced>>
                /\ \E c \in Cell : alloc' = alloc \cup {c} /\ held' = [held EXCEPT ![t] = {c}]
      BY <1>1 DEF CreateTest, Goto, Enters
    <2>2. TypeOK'
      BY <2>1 DEF TypeOK, CreatePCs
    <2> QED BY <2>1, <2>2 DEF TypeOK, MovingPCs
  <1>2. CASE CreateLoad(t)
    BY <1>2 DEF CreateLoad, Goto, TypeOK, CreatePCs, FreePCs, PtrTo, MovingPCs
  <1>3. CASE CreateUnlink(t)
    BY <1>3 DEF CreateUnlink, TypeOK, CreatePCs, FreePCs, PtrTo, MovingPCs
  <1>4. CASE CreateCountRead(t)
    BY <1>4 DEF CreateCountRead, Goto, TypeOK, CreatePCs, FreePCs, PtrTo, MovingPCs
  <1>5. CASE CreateCountWrite(t)
    BY <1>5, WrapStays DEF CreateCountWrite, Goto, TypeOK, CreatePCs, FreePCs, PtrTo, MovingPCs
  <1>6. CASE CreateReturn(t)
    BY <1>6 DEF CreateReturn, Goto, TypeOK, CreatePCs, FreePCs, PtrTo, MovingPCs
  <1>7. CASE HandOver(t)
    BY <1>7 DEF HandOver, TypeOK, CreatePCs, FreePCs, PtrTo, MovingPCs
  <1> QED BY <1>1, <1>2, <1>3, <1>4, <1>5, <1>6, <1>7 DEF gwrl_evt_create

LEMMA TypeFree == ASSUME TypeInv, gwrl_evt_free PROVE TypeInv'
  <1> USE ThreadAssumption, CellAssumption
      DEF TypeInv, ThreadAssumption, CellAssumption, CreatePCs, FreePCs, PtrTo, MovingPCs
  <1>1. CASE FreeTest
    <2>1. PICK c \in posted :
            /\ posted' = posted \ {c}
            /\ UNCHANGED <<cacheMax, cevents, ncevents, n, held, fault>>
            /\ \/ alloc' = alloc \ {c} /\ UNCHANGED <<next, pc, evt, raced>>
               \/ /\ next' = [next EXCEPT ![c] = NULL] /\ evt' = [evt EXCEPT ![RL] = c]
                  /\ pc' = [pc EXCEPT ![RL] = "link"] /\ alloc' = alloc /\ raced' \in BOOLEAN
      BY <1>1 DEF FreeTest, Enters
    <2>2. c \in Cell /\ c # NULL
      BY DEF TypeOK
    <2>3. TypeOK'
      BY <2>1, <2>2 DEF TypeOK
    <2> QED BY <2>1, <2>2, <2>3 DEF TypeOK
  <1>2. CASE FreeLink
    BY <1>2 DEF FreeLink, Goto, TypeOK
  <1>3. CASE FreeHead
    BY <1>3 DEF FreeHead, Goto, TypeOK
  <1>4. CASE FreeCountRead
    BY <1>4 DEF FreeCountRead, Goto, TypeOK
  <1>5. CASE FreeCountWrite
    BY <1>5, WrapStays DEF FreeCountWrite, Goto, TypeOK
  <1> QED BY <1>1, <1>2, <1>3, <1>4, <1>5 DEF gwrl_evt_free

LEMMA TypeNext == TypeInv /\ [Next]_vars => TypeInv'
  <1> SUFFICES ASSUME TypeInv, [Next]_vars PROVE TypeInv'
    OBVIOUS
  <1>1. CASE UNCHANGED vars
    BY <1>1 DEF vars, TypeInv, TypeOK
  <1> QED BY <1>1, TypeCreate, TypeFree DEF Next
-----------------------------------------------------------------------------
(* The cache switched off.                                                   *)

LEMMA LimitIsFixed == [Next]_vars => cacheMax' = cacheMax
  BY DEF Next, vars, gwrl_evt_free, gwrl_evt_create, FreeTest, FreeLink, FreeHead,
     FreeCountRead, FreeCountWrite, CreateTest, CreateLoad, CreateUnlink,
     CreateCountRead, CreateCountWrite, CreateReturn, HandOver

LEMMA OffInit == Init => OffInv
  BY DEF Init, OffInv, OffBody

(* Without cached cells gwrl_evt_create calls calloc, and gwrl_evt_free frees,*)
(* as the cache admits none.                                                 *)
LEMMA OffNext == TypeInv /\ OffInv /\ [Next]_vars => OffInv'
  <1> SUFFICES ASSUME cacheMax = 0, TypeInv, OffBody, [Next]_vars PROVE OffBody'
    BY LimitIsFixed DEF OffInv
  <1>0. /\ RL \in Thread /\ \A t \in Thread : pc[t] = "idle"
        /\ ncevents >= cacheMax /\ cevents = NULL
    BY ThreadAssumption, CounterFacts DEF ThreadAssumption, OffBody, TypeInv, TypeOK
  <1>1. CASE UNCHANGED vars
    BY <1>1 DEF vars, OffBody
  <1>2. CASE gwrl_evt_free
    BY <1>0, <1>2 DEF gwrl_evt_free, FreeTest, FreeLink, FreeHead, FreeCountRead,
                      FreeCountWrite, Goto, OffBody
  <1>3. CASE \E t \in Thread : gwrl_evt_create(t) \/ HandOver(t)
    BY <1>0, <1>3
    DEF gwrl_evt_create, CreateTest, CreateLoad, CreateUnlink, CreateCountRead,
        CreateCountWrite, CreateReturn, HandOver, Goto, OffBody
  <1> QED BY <1>1, <1>2, <1>3 DEF Next
-----------------------------------------------------------------------------
(* The cells, while one thread at a time is inside.                          *)

Alone(t) == \A u \in Thread \ {t} : pc[u] = "idle"

LEMMA AloneInside ==
    ASSUME OnBody, NEW t \in Thread, pc[t] # "idle" PROVE Alone(t)
  BY DEF OnBody, OneInside, Alone

(* The thread inside is the only one with a cell on the move.                *)
LEMMA MovingAlone ==
    ASSUME NEW p, NEW e, NEW t \in Thread, \A u \in Thread \ {t} : p[u] = "idle"
    PROVE  {e[v] : v \in {u \in Thread : p[u] \in MovingPCs}}
           = IF p[t] \in MovingPCs THEN {e[t]} ELSE {}
  BY DEF MovingPCs

LEMMA MovingNext ==
    ASSUME NEW t \in Thread, \A u \in Thread \ {t} : pc'[u] = "idle"
    PROVE  Moving' = IF pc'[t] \in MovingPCs THEN {evt'[t]} ELSE {}
  BY MovingAlone DEF Moving

(* What all threads hold, when one of them comes to hold S.                  *)
LEMMA HandedPut ==
    ASSUME NEW h \in [Thread -> SUBSET Cell], NEW t \in Thread, NEW S, NEW g,
           g = [h EXCEPT ![t] = S], \A u, v \in Thread : u # v => h[u] \cap h[v] = {}
    PROVE  /\ UNION {g[u] : u \in Thread} = ((UNION {h[u] : u \in Thread}) \ h[t]) \cup S
           /\ S \cap ((UNION {h[u] : u \in Thread}) \ h[t]) = {}
                => \A u, v \in Thread : u # v => g[u] \cap g[v] = {}
  <1>1. \A u \in Thread : g[u] = IF u = t THEN S ELSE h[u]
    OBVIOUS
  <1> QED BY <1>1

(* An idle thread is where it should be.                                     *)
LEMMA IdleInPlace ==
    ASSUME NEW t \in Thread, pc'[t] = "idle" PROVE InPlace(t)'
  BY DEF InPlace, CreatePCs, MovingPCs, FreePCs

LEMMA OneInsideNext ==
    ASSUME NEW t \in Thread, \A u \in Thread \ {t} : pc'[u] = "idle" PROVE OneInside'
  BY DEF OneInside

LEMMA OnInit == Init => OnBody
  <1> SUFFICES ASSUME Init PROVE OnBody
    OBVIOUS
  <1>1. Cached = {} /\ Acyclic(next, cevents)
    <2>1. cevents \notin DOMAIN next
      BY CellAssumption DEF CellAssumption, Init
    <2> QED BY <2>1, NullIsAcyclic DEF Cached
  <1>2. \A t \in Thread : pc[t] = "idle" /\ held[t] = {}
    BY DEF Init
  <1>3. Moving = {} /\ Handed = {} /\ OneInside
    BY <1>2 DEF Moving, MovingPCs, Handed, OneInside
  <1>4. Placed
    BY <1>1, <1>2, <1>3 DEF Placed, Init
  <1>5. \A t \in Thread : InPlace(t)
    BY <1>2 DEF InPlace, CreatePCs, MovingPCs, FreePCs
  <1> QED BY <1>1, <1>3, <1>4, <1>5, FS_EmptySet DEF OnBody, Init

(* Steps that leave the cells where they are.                                *)
LEMMA OnQuiet ==
    ASSUME TypeInv, OnBody, NEW t \in Thread, Alone(t),
           UNCHANGED <<next, alloc, cevents, held, posted, fault>>,
           NEW q, pc' = [pc EXCEPT ![t] = q],
           \/ pc[t] = "idle" /\ q = "load" /\ held[t] = {} /\ cevents # NULL /\ evt' = evt
           \/ pc[t] = "load" /\ q = "unlink" /\ evt' = [evt EXCEPT ![t] = cevents]
           \/ pc[t] = "nread" /\ q = "nwrite" /\ evt' = evt
           \/ pc[t] = "nwrite" /\ q = "give" /\ evt' = evt
           \/ pc[t] = "cread" /\ q = "cwrite" /\ evt' = evt
           \/ pc[t] = "cwrite" /\ q = "idle" /\ evt' = evt
    PROVE  OnBody'
  <1>1. Cached' = Cached /\ (Acyclic(next, cevents) <=> Acyclic(next', cevents')) /\ Handed' = Handed
    BY DEF Cached, Handed
  <1>2. pc'[t] = q /\ \A u \in Thread \ {t} : pc'[u] = "idle"
    BY DEF TypeInv, TypeOK, Alone
  <1>3. evt'[t] = IF q = "unlink" THEN cevents ELSE evt[t]
    BY DEF TypeInv, TypeOK
  <1>4. /\ Moving = IF pc[t] \in MovingPCs THEN {evt[t]} ELSE {}
        /\ Moving' = IF pc'[t] \in MovingPCs THEN {evt'[t]} ELSE {}
    <2>1. Moving = IF pc[t] \in MovingPCs THEN {evt[t]} ELSE {}
      BY MovingAlone DEF Moving, Alone
    <2>2. Moving' = IF pc'[t] \in MovingPCs THEN {evt'[t]} ELSE {}
      BY <1>2, MovingNext
    <2> QED BY <2>1, <2>2
  <1>5. Moving' = Moving
    BY <1>2, <1>3, <1>4 DEF MovingPCs
  <1>6. Placed'
    BY <1>1, <1>5 DEF Placed, OnBody
  <1>7. InPlace(t)'
    <2>1. InPlace(t)
      BY DEF OnBody
    <2> QED BY <2>1, <1>2, <1>3 DEF InPlace, CreatePCs, FreePCs
  <1>8. \A u \in Thread : InPlace(u)'
    BY <1>2, <1>7, IdleInPlace
  <1> QED BY <1>1, <1>2, <1>6, <1>8, OneInsideNext DEF OnBody

(* gwrl_evt_create: calloc, whoever is inside the cache, or its head.        *)
LEMMA OnCalloc ==
    ASSUME TypeInv, OnBody, NEW t \in Thread, CreateTest(t), cevents = NULL
    PROVE  OnBody' /\ UNCHANGED <<cacheMax, next, cevents, ncevents, pc, evt, n>>
  <1>1. PICK c \in Cell \ alloc : alloc' = alloc \cup {c} /\ held' = [held EXCEPT ![t] = {c}]
    BY DEF CreateTest
  <1>2. /\ UNCHANGED <<cacheMax, next, cevents, ncevents, pc, evt, n, posted, fault>>
        /\ pc[t] = "idle" /\ held[t] = {}
    BY DEF CreateTest
  <1>3. /\ Cached' = Cached /\ Moving' = Moving /\ OneInside'
        /\ (Acyclic(next, cevents) => Acyclic(next', cevents'))
    BY <1>2 DEF Cached, Moving, OnBody, OneInside
  <1>4. /\ Handed' = Handed \cup {c} /\ c \notin Handed
        /\ \A u, v \in Thread : u # v => held'[u] \cap held'[v] = {}
    <2>1. c \notin Handed /\ \A u, v \in Thread : u # v => held[u] \cap held[v] = {}
      BY DEF OnBody, Placed
    <2> QED BY <2>1, <1>1, <1>2, HandedPut DEF Handed, TypeInv, TypeOK
  <1>5. Placed'
    BY <1>1, <1>2, <1>3, <1>4 DEF Placed, OnBody
  <1>6. \A u \in Thread : InPlace(u)'
    <2>1. ASSUME NEW u \in Thread \ {t} PROVE InPlace(u)'
      <3>1. held'[u] = held[u]
        BY <1>1, <2>1 DEF TypeInv, TypeOK
      <3>2. InPlace(u)
        BY <2>1 DEF OnBody
      <3> QED BY <3>1, <3>2, <1>2 DEF InPlace
    <2>2. InPlace(t)'
      BY <1>2, IdleInPlace
    <2> QED BY <2>1, <2>2
  <1> QED BY <1>2, <1>3, <1>5, <1>6 DEF OnBody

LEMMA OnUnlink ==
    ASSUME TypeInv, OnBody, NEW t \in Thread, CreateUnlink(t)
    PROVE  /\ OnBody' /\ Cached' = Cached \ {evt[t]} /\ evt[t] \in Cached
           /\ Alone(t) /\ pc[t] = "unlink" /\ pc' = [pc EXCEPT ![t] = "nread"]
  <1>0. pc[t] = "unlink" /\ evt[t] = cevents /\ cevents # NULL /\ held[t] = {} /\ Alone(t)
    BY AloneInside DEF OnBody, InPlace, CreateUnlink, CreatePCs
  <1>1. /\ cevents' = next[cevents] /\ pc' = [pc EXCEPT ![t] = "nread"]
        /\ UNCHANGED <<cacheMax, next, alloc, ncevents, evt, n, held, posted, fault>>
    BY <1>0 DEF CreateUnlink
  <1>2. cevents \in DOMAIN next /\ next[cevents] \in PtrTo(Cell)
    BY <1>0 DEF TypeInv, TypeOK, PtrTo
  <1>3. cevents \in Cached /\ Cached' = Cached \ {cevents} /\ Acyclic(next', cevents')
    BY <1>1, <1>2, PopCell DEF OnBody, Cached
  <1>4. IsFiniteSet(Cached')
    BY <1>3, FS_RemoveElement DEF OnBody
  <1>5. pc'[t] = "nread" /\ \A u \in Thread \ {t} : pc'[u] = "idle"
    BY <1>0, <1>1 DEF TypeInv, TypeOK, Alone
  <1>6. Moving = {} /\ Moving' = {cevents}
    BY <1>0, <1>1, <1>5, MovingAlone DEF Moving, MovingPCs, Alone
  <1>7. Placed'
    <2>1. Handed' = Handed
      BY <1>1 DEF Handed
    <2> QED BY <2>1, <1>1, <1>3, <1>6 DEF Placed, OnBody
  <1>8. InPlace(t)'
    BY <1>0, <1>1, <1>5 DEF InPlace, MovingPCs, FreePCs
  <1>9. OnBody'
    BY <1>1, <1>3, <1>4, <1>5, <1>7, <1>8, IdleInPlace, OneInsideNext DEF OnBody
  <1> QED BY <1>0, <1>1, <1>3, <1>9

(* A store to the cell that is being moved does not reach the cache.         *)
LEMMA StoreOutside ==
    ASSUME Acyclic(next, cevents), NEW c, NEW x, c \notin Cached,
           next' = [next EXCEPT ![c] = x], cevents' = cevents
    PROVE  Cached' = Cached /\ Acyclic(next', cevents')
  <1>1. Acyclic(next, cevents) /\ DOMAIN next' = DOMAIN next /\ Cached \subseteq DOMAIN next
    BY WalkIsClosed DEF Cached
  <1>2. \A d \in Cached : next'[d] = next[d]
    BY <1>1
  <1> QED BY <1>1, <1>2, WalkIsLocal DEF Cached

LEMMA OnReturn ==
    ASSUME TypeInv, OnBody, NEW t \in Thread, CreateReturn(t)
    PROVE  /\ OnBody' /\ Cached' = Cached /\ Alone(t)
           /\ pc[t] = "give" /\ pc' = [pc EXCEPT ![t] = "idle"]
  <1>0. /\ pc[t] = "give" /\ held[t] = {} /\ Alone(t) /\ Moving = {evt[t]}
        /\ evt[t] \in Cell /\ evt[t] \notin Cached
    <2>1. pc[t] = "give" /\ Alone(t)
      BY AloneInside DEF CreateReturn, Goto
    <2>2. held[t] = {} /\ evt[t] \in Cell
      BY <2>1 DEF OnBody, InPlace, CreatePCs, TypeInv, TypeOK, PtrTo, MovingPCs
    <2>3. Moving = {evt[t]}
      BY <2>1, MovingAlone DEF Moving, MovingPCs, Alone
    <2> QED BY <2>1, <2>2, <2>3 DEF OnBody, Placed
  <1>1. /\ next' = [next EXCEPT ![evt[t]] = NULL] /\ held' = [held EXCEPT ![t] = {evt[t]}]
        /\ pc' = [pc EXCEPT ![t] = "idle"]
        /\ UNCHANGED <<cacheMax, alloc, cevents, ncevents, evt, n, posted, fault>>
    BY <1>0 DEF CreateReturn, Goto
  <1>2. \A u \in Thread : pc'[u] = "idle"
    BY <1>0, <1>1 DEF TypeInv, TypeOK, Alone
  <1>3. Cached' = Cached /\ Acyclic(next', cevents')
    BY <1>0, <1>1, StoreOutside DEF OnBody
  <1>4. Moving' = {}
    BY <1>2 DEF Moving, MovingPCs
  <1>5. /\ Handed' = Handed \cup {evt[t]}
        /\ \A u, v \in Thread : u # v => held'[u] \cap held'[v] = {}
    <2>1. evt[t] \notin Handed /\ \A u, v \in Thread : u # v => held[u] \cap held[v] = {}
      BY <1>0 DEF OnBody, Placed
    <2> QED BY <2>1, <1>0, <1>1, HandedPut DEF Handed, TypeInv, TypeOK
  <1>6. Placed'
    BY <1>0, <1>1, <1>3, <1>4, <1>5 DEF Placed, OnBody
  <1>7. OnBody'
    BY <1>1, <1>2, <1>3, <1>6, IdleInPlace DEF OnBody, OneInside
  <1> QED BY <1>0, <1>1, <1>3, <1>7

LEMMA OnHandOver ==
    ASSUME TypeInv, OnBody, NEW t \in Thread, HandOver(t)
    PROVE  OnBody' /\ UNCHANGED <<next, cevents, ncevents, pc, n>>
  <1>1. /\ posted' = posted \cup held[t] /\ held' = [held EXCEPT ![t] = {}] /\ pc[t] = "idle"
        /\ UNCHANGED <<cacheMax, next, alloc, cevents, ncevents, pc, evt, n, fault>>
    BY DEF HandOver
  <1>2. /\ Cached' = Cached /\ Moving' = Moving /\ OneInside'
        /\ (Acyclic(next, cevents) => Acyclic(next', cevents'))
    BY <1>1 DEF Cached, Moving, OnBody, OneInside
  <1>3. /\ Handed' = Handed \ held[t] /\ held[t] \subseteq Handed
        /\ \A u, v \in Thread : u # v => held'[u] \cap held'[v] = {}
    <2>1. \A u, v \in Thread : u # v => held[u] \cap held[v] = {}
      BY DEF OnBody, Placed
    <2> QED BY <2>1, <1>1, HandedPut DEF Handed, TypeInv, TypeOK
  <1>4. Placed'
    BY <1>1, <1>2, <1>3 DEF Placed, OnBody
  <1>5. ASSUME NEW u \in Thread PROVE InPlace(u)'
    <2>1. held'[u] \subseteq held[u] /\ InPlace(u)
      BY <1>1 DEF TypeInv, TypeOK, OnBody
    <2> QED BY <2>1, <1>1 DEF InPlace
  <1> QED BY <1>1, <1>2, <1>4, <1>5 DEF OnBody

(* gwrl_evt_free: free(), whoever is inside the cache, or the cell is to     *)
(* become its head.                                                          *)
LEMMA OnFreeTest ==
    ASSUME TypeInv, OnBody, FreeTest, ~raced'
    PROVE  /\ OnBody' /\ Cached' = Cached /\ UNCHANGED <<ncevents, n>> /\ pc[RL] = "idle"
           /\ \/ pc' = pc
              \/ /\ Alone(RL) /\ pc' = [pc EXCEPT ![RL] = "link"] /\ ~(ncevents >= cacheMax)
  <1>0. RL \in Thread /\ pc[RL] = "idle" /\ UNCHANGED <<cacheMax, cevents, ncevents, n, held, fault>>
    BY ThreadAssumption DEF ThreadAssumption, FreeTest
  <1>1. PICK c \in posted :
            /\ posted' = posted \ {c}
            /\ \/ /\ ncevents >= cacheMax
                  /\ alloc' = alloc \ {c} /\ UNCHANGED <<next, pc, evt>>
               \/ /\ ~(ncevents >= cacheMax) /\ next' = [next EXCEPT ![c] = NULL]
                  /\ evt' = [evt EXCEPT ![RL] = c] /\ pc' = [pc EXCEPT ![RL] = "link"]
                  /\ alloc' = alloc /\ Enters(RL)
    BY DEF FreeTest
  <1>2. c \in Cell /\ c \notin Cached /\ c \notin Handed /\ c \notin Moving /\ Handed' = Handed
    BY <1>0 DEF TypeInv, TypeOK, OnBody, Placed, Handed
  <1>3. CASE ncevents >= cacheMax /\ alloc' = alloc \ {c} /\ UNCHANGED <<next, pc, evt>>
    <2>1. /\ Cached' = Cached /\ Moving' = Moving /\ OneInside'
          /\ (Acyclic(next, cevents) => Acyclic(next', cevents'))
      BY <1>0, <1>3 DEF Cached, Moving, OnBody, OneInside
    <2>2. Placed'
      BY <1>0, <1>1, <1>2, <1>3, <2>1 DEF Placed, OnBody
    <2>3. \A u \in Thread : InPlace(u)'
      BY <1>0, <1>3 DEF InPlace, OnBody
    <2> QED BY <1>0, <1>3, <2>1, <2>2, <2>3 DEF OnBody
  <1>4. CASE /\ ~(ncevents >= cacheMax) /\ next' = [next EXCEPT ![c] = NULL]
             /\ evt' = [evt EXCEPT ![RL] = c] /\ pc' = [pc EXCEPT ![RL] = "link"]
             /\ alloc' = alloc /\ Enters(RL)
    <2>1. Alone(RL)
      BY <1>0, <1>4 DEF Enters, Alone
    <2>2. pc'[RL] = "link" /\ evt'[RL] = c /\ \A u \in Thread \ {RL} : pc'[u] = "idle"
      BY <1>0, <1>4, <2>1 DEF TypeInv, TypeOK, Alone
    <2>3. Cached' = Cached /\ Acyclic(next', cevents')
      BY <1>0, <1>2, <1>4, StoreOutside DEF OnBody
    <2>4. Moving = {} /\ Moving' = {c}
      BY <1>0, <2>1, <2>2, MovingAlone DEF Moving, MovingPCs, Alone
    <2>5. Placed'
      BY <1>0, <1>1, <1>2, <1>4, <2>3, <2>4 DEF Placed, OnBody
    <2>6. InPlace(RL)'
      BY <2>2 DEF InPlace, CreatePCs
    <2>7. OnBody'
      BY <1>0, <2>2, <2>3, <2>5, <2>6, IdleInPlace, OneInsideNext DEF OnBody
    <2> QED BY <1>0, <1>4, <2>1, <2>3, <2>7
  <1> QED BY <1>1, <1>3, <1>4

LEMMA OnLink ==
    ASSUME TypeInv, OnBody, FreeLink
    PROVE  /\ OnBody' /\ Cached' = Cached /\ Alone(RL)
           /\ pc[RL] = "link" /\ pc' = [pc EXCEPT ![RL] = "head"]
  <1>0. /\ RL \in Thread /\ pc[RL] = "link" /\ Alone(RL) /\ Moving = {evt[RL]}
        /\ evt[RL] \in Cell /\ evt[RL] \notin Cached
    <2>1. RL \in Thread /\ pc[RL] = "link" /\ Alone(RL)
      BY ThreadAssumption, AloneInside DEF ThreadAssumption, FreeLink, Goto
    <2>2. Moving = {evt[RL]} /\ evt[RL] \in Cell
      BY <2>1, MovingAlone DEF Moving, MovingPCs, Alone, TypeInv, TypeOK, PtrTo
    <2> QED BY <2>1, <2>2 DEF OnBody, Placed
  <1>1. /\ next' = [next EXCEPT ![evt[RL]] = cevents] /\ pc' = [pc EXCEPT ![RL] = "head"]
        /\ UNCHANGED <<cacheMax, alloc, cevents, ncevents, evt, n, held, posted, fault>>
    BY DEF FreeLink, Goto
  <1>2. pc'[RL] = "head" /\ next'[evt[RL]] = cevents /\ \A u \in Thread \ {RL} : pc'[u] = "idle"
    BY <1>0, <1>1 DEF TypeInv, TypeOK, Alone
  <1>3. Cached' = Cached /\ Acyclic(next', cevents')
    BY <1>0, <1>1, StoreOutside DEF OnBody
  <1>4. Moving' = Moving /\ Handed' = Handed
    BY <1>0, <1>1, <1>2, MovingAlone DEF Moving, MovingPCs, Handed
  <1>5. Placed'
    BY <1>1, <1>3, <1>4 DEF Placed, OnBody
  <1>6. InPlace(RL)'
    BY <1>1, <1>2 DEF InPlace, CreatePCs
  <1>7. OnBody'
    BY <1>0, <1>1, <1>2, <1>3, <1>5, <1>6, IdleInPlace, OneInsideNext DEF OnBody
  <1> QED BY <1>0, <1>1, <1>3, <1>7

LEMMA OnHead ==
    ASSUME TypeInv, OnBody, FreeHead
    PROVE  /\ OnBody' /\ Cached' = Cached \cup {evt[RL]} /\ evt[RL] \notin Cached
           /\ Alone(RL) /\ pc[RL] = "head" /\ pc' = [pc EXCEPT ![RL] = "cread"]
  <1>0. /\ RL \in Thread /\ pc[RL] = "head" /\ Alone(RL) /\ Moving = {evt[RL]}
        /\ evt[RL] \in Cell /\ evt[RL] \notin Cached /\ next[evt[RL]] = cevents
    <2>1. RL \in Thread /\ pc[RL] = "head" /\ Alone(RL)
      BY ThreadAssumption, AloneInside DEF ThreadAssumption, FreeHead, Goto
    <2>2. Moving = {evt[RL]} /\ evt[RL] \in Cell
      BY <2>1, MovingAlone DEF Moving, MovingPCs, Alone, TypeInv, TypeOK, PtrTo
    <2>3. next[evt[RL]] = cevents
      BY <2>1 DEF OnBody, InPlace
    <2> QED BY <2>1, <2>2, <2>3 DEF OnBody, Placed
  <1>1. /\ cevents' = evt[RL] /\ pc' = [pc EXCEPT ![RL] = "cread"]
        /\ UNCHANGED <<cacheMax, next, alloc, ncevents, evt, n, held, posted, fault>>
    BY DEF FreeHead, Goto
  <1>2. pc'[RL] = "cread" /\ \A u \in Thread \ {RL} : pc'[u] = "idle"
    BY <1>0, <1>1 DEF TypeInv, TypeOK, Alone
  <1>3. Cached' = Cached \cup {evt[RL]} /\ Acyclic(next', cevents')
    <2>1. Acyclic(next, cevents) /\ evt[RL] \in DOMAIN next /\ next = [next EXCEPT ![evt[RL]] = cevents]
      BY <1>0 DEF OnBody, TypeInv, TypeOK
    <2>2. evt[RL] \notin Reachable(next, cevents)
      BY <1>0 DEF Cached
    <2>3. Reachable(next, evt[RL]) = {evt[RL]} \cup Reachable(next, cevents) /\ Acyclic(next, evt[RL])
      BY <2>1, <2>2, PushCell
    <2> QED BY <2>3, <1>1 DEF Cached
  <1>4. IsFiniteSet(Cached')
    BY <1>3, FS_AddElement DEF OnBody
  <1>5. Moving' = {} /\ Handed' = Handed
    BY <1>0, <1>1, <1>2, MovingAlone DEF Moving, MovingPCs, Handed
  <1>6. Placed'
    BY <1>0, <1>1, <1>3, <1>5 DEF Placed, OnBody
  <1>7. InPlace(RL)'
    BY <1>2 DEF InPlace, CreatePCs, MovingPCs
  <1>8. OnBody'
    BY <1>0, <1>1, <1>2, <1>3, <1>4, <1>6, <1>7, IdleInPlace, OneInsideNext DEF OnBody
  <1> QED BY <1>0, <1>1, <1>3, <1>8

\* A step of one thread inside the cache that leaves the cells where they are.
Quietly(t, from, to) == Alone(t) /\ pc[t] = from /\ pc' = [pc EXCEPT ![t] = to]

LEMMA OnLoad ==
    ASSUME TypeInv, OnBody, NEW t \in Thread, ~raced',
           (CreateTest(t) /\ cevents # NULL) \/ CreateLoad(t)
    PROVE  /\ OnBody' /\ Cached' = Cached /\ ncevents' = ncevents /\ n' = n
           /\ Quietly(t, "idle", "load") \/ Quietly(t, "load", "unlink")
  <1>1. CASE CreateTest(t) /\ cevents # NULL
    <2>1. /\ pc[t] = "idle" /\ pc' = [pc EXCEPT ![t] = "load"] /\ held[t] = {} /\ Enters(t)
          /\ UNCHANGED <<next, alloc, cevents, ncevents, n, evt, held, posted, fault>>
      BY <1>1 DEF CreateTest, Goto
    <2>2. Alone(t)
      BY <2>1 DEF Enters, Alone
    <2> QED BY <1>1, <2>1, <2>2, OnQuiet DEF Quietly, Cached
  <1>2. CASE CreateLoad(t)
    <2>1. /\ pc[t] = "load" /\ pc' = [pc EXCEPT ![t] = "unlink"]
          /\ evt' = [evt EXCEPT ![t] = cevents]
          /\ UNCHANGED <<next, alloc, cevents, ncevents, n, held, posted, fault>>
      BY <1>2 DEF CreateLoad, Goto
    <2>2. Alone(t)
      BY <2>1, AloneInside
    <2> QED BY <2>1, <2>2, OnQuiet DEF Quietly, Cached
  <1> QED BY <1>1, <1>2

LEMMA OnCount ==
    ASSUME TypeInv, OnBody, NEW t \in Thread, NEW from, NEW to, Goto(t, from, to),
           <<from, to>> \in {<<"nread", "nwrite">>, <<"nwrite", "give">>, <<"cread", "cwrite">>,
                             <<"cwrite", "idle">>},
           UNCHANGED <<next, alloc, cevents, evt, held, posted, fault>>
    PROVE  OnBody' /\ Cached' = Cached /\ Quietly(t, from, to)
  <1>1. pc[t] = from /\ pc' = [pc EXCEPT ![t] = to] /\ Alone(t)
    BY AloneInside DEF Goto
  <1> QED BY <1>1, OnQuiet DEF Quietly, Cached

LEMMA OnCounts ==
    ASSUME TypeInv, OnBody, NEW t \in Thread
    PROVE  /\ CreateCountRead(t) => OnBody' /\ Cached' = Cached /\ Quietly(t, "nread", "nwrite")
           /\ CreateCountWrite(t) => OnBody' /\ Cached' = Cached /\ Quietly(t, "nwrite", "give")
  <1>1. ASSUME CreateCountRead(t)
        PROVE  OnBody' /\ Cached' = Cached /\ Quietly(t, "nread", "nwrite")
    BY <1>1, OnCount DEF CreateCountRead
  <1>2. ASSUME CreateCountWrite(t)
        PROVE  OnBody' /\ Cached' = Cached /\ Quietly(t, "nwrite", "give")
    BY <1>2, OnCount DEF CreateCountWrite
  <1> QED BY <1>1, <1>2

LEMMA OnFreeCounts ==
    ASSUME TypeInv, OnBody, RL \in Thread
    PROVE  /\ FreeCountRead => OnBody' /\ Cached' = Cached /\ Quietly(RL, "cread", "cwrite")
           /\ FreeCountWrite => OnBody' /\ Cached' = Cached /\ Quietly(RL, "cwrite", "idle")
  <1>1. ASSUME FreeCountRead
        PROVE  OnBody' /\ Cached' = Cached /\ Quietly(RL, "cread", "cwrite")
    BY <1>1, OnCount DEF FreeCountRead
  <1>2. ASSUME FreeCountWrite
        PROVE  OnBody' /\ Cached' = Cached /\ Quietly(RL, "cwrite", "idle")
    BY <1>2, OnCount DEF FreeCountWrite
  <1> QED BY <1>1, <1>2

(* A race, once it happened, has happened.                                   *)
LEMMA RaceKept ==
    ASSUME NEW t \in Thread, gwrl_evt_create(t) \/ HandOver(t)
    PROVE  raced' = raced \/ Enters(t)
  <1>1. CASE CreateTest(t)
    BY <1>1, Zenon DEF CreateTest
  <1>2. CASE CreateLoad(t) \/ CreateUnlink(t) \/ CreateCountRead(t)
    <2>1. raced' = raced
      BY <1>2 DEF CreateLoad, CreateUnlink, CreateCountRead
    <2> QED BY <2>1
  <1>3. CASE CreateCountWrite(t) \/ CreateReturn(t) \/ HandOver(t)
    <2>1. raced' = raced
      BY <1>3 DEF CreateCountWrite, CreateReturn, HandOver
    <2> QED BY <2>1
  <1> QED BY <1>1, <1>2, <1>3 DEF gwrl_evt_create

LEMMA RaceStays == ASSUME [Next]_vars, raced \in BOOLEAN PROVE raced => raced'
  <1>1. ASSUME gwrl_evt_free PROVE raced' = raced \/ Enters(RL)
    BY <1>1 DEF gwrl_evt_free, FreeTest, FreeLink, FreeHead, FreeCountRead, FreeCountWrite
  <1>2. \A t : raced /\ Enters(t) => raced'
    BY Zenon DEF Enters
  <1>3. UNCHANGED vars => raced' = raced
    BY DEF vars
  <1> QED BY RaceKept, <1>1, <1>2, <1>3, Zenon DEF Next

LEMMA OnNext == TypeInv /\ OnInv /\ [Next]_vars => OnInv'
  <1> SUFFICES ASSUME TypeInv, OnBody, ~raced', [Next]_vars PROVE OnBody'
    BY RaceStays DEF OnInv, TypeInv, TypeOK
  <1>0. RL \in Thread
    BY ThreadAssumption DEF ThreadAssumption
  <1>1. CASE UNCHANGED vars
    <2>1. /\ Cached' = Cached /\ Moving' = Moving /\ Handed' = Handed
          /\ UNCHANGED <<next, alloc, cevents, pc, evt, held, posted, fault>>
      BY <1>1 DEF vars, Cached, Moving, Handed
    <2>2. Placed' /\ OneInside' /\ \A t \in Thread : InPlace(t)'
      BY <2>1 DEF OnBody, Placed, OneInside, InPlace
    <2> QED BY <2>1, <2>2 DEF OnBody
  <1>2. CASE gwrl_evt_free
    BY <1>0, <1>2, OnFreeTest, OnLink, OnHead, OnFreeCounts DEF gwrl_evt_free
  <1>3. CASE \E t \in Thread : gwrl_evt_create(t) \/ HandOver(t)
    BY <1>3, OnCalloc, OnLoad, OnUnlink, OnCounts, OnReturn, OnHandOver DEF gwrl_evt_create
  <1> QED BY <1>1, <1>2, <1>3 DEF Next

(* As long as no thread goes into the cache while another is inside, every   *)
(* cell gwrl_evt_create returns is allocated, does not wait to be called and *)
(* has no other owner, and no null pointer is followed.                      *)
THEOREM HandoutIsDistinct == Spec => []DistinctHandout
  <1>1. OnBody => OneOwner
    BY DEF OnBody, Placed, OneOwner, Handed
  <1>2. OnInv => DistinctHandout
    BY <1>1 DEF OnInv, DistinctHandout
  <1>3. Init => OnInv
    BY OnInit DEF OnInv
  <1> QED BY <1>2, <1>3, TypeInit, TypeNext, OnNext, PTL DEF Spec

(* With the cache switched off the guarantee is unconditional: no thread is  *)
(* ever inside the cache, whatever the number of threads in                  *)
(* gwrl_post_function_safely, and no two owners share a cell.                *)
THEOREM SafeWithoutCache == Spec => [](cacheMax = 0 => ~raced /\ OneOwner)
  <1>1. OffInv /\ DistinctHandout => (cacheMax = 0 => ~raced /\ OneOwner)
    BY DEF OffInv, OffBody, DistinctHandout
  <1> QED BY <1>1, HandoutIsDistinct, TypeInit, TypeNext, OffInit, OffNext, PTL DEF Spec
-----------------------------------------------------------------------------
(* The count.                                                                *)

LEMMA CountLess ==
    ASSUME NEW S, IsFiniteSet(S), NEW x \in S PROVE Cardinality(S \ {x}) = Cardinality(S) - 1
  BY FS_RemoveElement

(* Which thread is between the list and its counter.                         *)
LEMMA BetweenAlone ==
    ASSUME NEW p, NEW S, "idle" \notin S, NEW t \in Thread,
           \A u \in Thread \ {t} : p[u] = "idle"
    PROVE  ({u \in Thread : p[u] \in S} # {}) <=> p[t] \in S
  OBVIOUS

\* CountBody, read from the only thread that may be inside.
CountAt(t) ==
    /\ Cardinality(Cached) = CASE pc[t] \in {"nread", "nwrite"} -> ncevents - 1
                               [] pc[t] \in {"cread", "cwrite"} -> ncevents + 1
                               [] OTHER -> ncevents
    /\ Cardinality(Cached) <= cacheMax
    /\ pc[t] \in {"nwrite", "cwrite"} => n[t] = ncevents
    /\ pc[t] \in {"link", "head"} => ncevents < cacheMax

LEMMA CountOne ==
    ASSUME CountBody, NEW t \in Thread, Alone(t) PROVE CountAt(t)
  <1>1. Behind # {} <=> pc[t] \in {"nread", "nwrite"}
    BY BetweenAlone DEF Behind, Alone
  <1>2. Ahead # {} <=> pc[t] \in {"cread", "cwrite"}
    BY BetweenAlone DEF Ahead, Alone
  <1> QED BY <1>1, <1>2 DEF CountBody, CountAt

LEMMA CountOneNext ==
    ASSUME NEW t \in Thread, CountAt(t)', \A u \in Thread \ {t} : pc'[u] = "idle"
    PROVE  CountBody'
  <1>1. Behind' # {} <=> pc'[t] \in {"nread", "nwrite"}
    BY BetweenAlone DEF Behind
  <1>2. Ahead' # {} <=> pc'[t] \in {"cread", "cwrite"}
    BY BetweenAlone DEF Ahead
  <1> QED BY <1>1, <1>2 DEF CountBody, CountAt

LEMMA CountInit == Init => CountInv
  <1> SUFFICES ASSUME Init PROVE CountBody
    BY DEF CountInv
  <1>1. Cached = {} /\ Cardinality(Cached) = 0
    <2>1. cevents \notin DOMAIN next
      BY CellAssumption DEF CellAssumption, Init
    <2> QED BY <2>1, NullIsAcyclic, FS_EmptySet DEF Cached
  <1>2. Behind = {} /\ Ahead = {} /\ ncevents = 0 /\ cacheMax >= 0
    BY CacheMaxAssumption DEF Behind, Ahead, Init, CacheMaxAssumption
  <1> QED BY <1>1, <1>2 DEF CountBody, Init

LEMMA CountSame ==
    ASSUME CountBody, UNCHANGED <<cacheMax, ncevents, pc, n>>, Cached' = Cached PROVE CountBody'
  BY DEF CountBody, Behind, Ahead

(* rl->ncevents follows the list, one step behind it.                        *)
LEMMA CountCreate ==
    ASSUME TypeInv, TypeInv', OnBody, OnBody', CountBody, ~raced', cacheMax' = cacheMax,
           cacheMax \in Counter, NEW t \in Thread, gwrl_evt_create(t) \/ HandOver(t)
    PROVE  CountBody'
  <1>0. /\ IsFiniteSet(Cached) /\ Cardinality(Cached) \in Nat /\ cacheMax \in Nat
        /\ cacheMax < 65536 /\ ncevents \in Nat /\ ncevents < 65536
    BY FS_CardinalityType, CounterRange DEF OnBody, TypeInv, TypeOK
  <1>1. CASE (CreateTest(t) /\ cevents = NULL) \/ HandOver(t)
    <2>1. UNCHANGED <<ncevents, pc, n>> /\ Cached' = Cached
      BY <1>1, OnCalloc, OnHandOver DEF Cached
    <2> QED BY <2>1, CountSame
  <1>2. ASSUME NEW from, NEW to, Quietly(t, from, to)
        PROVE  /\ CountAt(t) /\ pc[t] = from /\ pc'[t] = to
               /\ CountAt(t)' => CountBody'
    <2>1. \A u \in Thread \ {t} : pc'[u] = "idle"
      BY <1>2 DEF Quietly, Alone, TypeInv, TypeOK
    <2>2. pc[t] = from /\ pc'[t] = to
      BY <1>2 DEF Quietly, TypeInv, TypeOK
    <2>3. CountAt(t)
      BY <1>2, CountOne DEF Quietly
    <2>4. CountAt(t)' => CountBody'
      BY <2>1, CountOneNext
    <2> QED BY <2>2, <2>3, <2>4
  <1>3. CASE (CreateTest(t) /\ cevents # NULL) \/ CreateLoad(t)
    <2>1. /\ Cached' = Cached /\ ncevents' = ncevents /\ n' = n
          /\ Quietly(t, "idle", "load") \/ Quietly(t, "load", "unlink")
      BY <1>3, OnLoad
    <2>2. /\ CountAt(t) /\ pc[t] \in {"idle", "load"} /\ pc'[t] \in {"load", "unlink"}
          /\ CountAt(t)' => CountBody'
      BY <2>1, <1>2
    <2> QED BY <2>1, <2>2 DEF CountAt
  <1>4. CASE CreateUnlink(t)
    <2>1. /\ Cached' = Cached \ {evt[t]} /\ evt[t] \in Cached /\ Quietly(t, "unlink", "nread")
          /\ ncevents' = ncevents
      BY <1>4, OnUnlink DEF CreateUnlink, Quietly
    <2>2. CountAt(t) /\ pc[t] = "unlink" /\ pc'[t] = "nread" /\ (CountAt(t)' => CountBody')
      BY <2>1, <1>2
    <2>3. Cardinality(Cached \ {evt[t]}) = Cardinality(Cached) - 1
      BY <1>0, <2>1, CountLess
    <2> QED BY <1>0, <2>1, <2>2, <2>3 DEF CountAt
  <1>5. CASE CreateCountRead(t)
    <2>1. /\ Cached' = Cached /\ Quietly(t, "nread", "nwrite") /\ ncevents' = ncevents
          /\ n'[t] = ncevents
      BY <1>5, OnCounts DEF CreateCountRead, TypeInv, TypeOK
    <2>2. CountAt(t) /\ pc[t] = "nread" /\ pc'[t] = "nwrite" /\ (CountAt(t)' => CountBody')
      BY <2>1, <1>2
    <2> QED BY <2>1, <2>2 DEF CountAt
  <1>6. CASE CreateCountWrite(t)
    <2>1. /\ Cached' = Cached /\ Quietly(t, "nwrite", "give") /\ ncevents' = Wrap(n[t] + 65535)
      BY <1>6, OnCounts DEF CreateCountWrite
    <2>2. CountAt(t) /\ pc[t] = "nwrite" /\ pc'[t] = "give" /\ (CountAt(t)' => CountBody')
      BY <2>1, <1>2
    <2>3. n[t] = ncevents /\ Cardinality(Cached) = ncevents - 1
      BY <2>2 DEF CountAt
    <2>4. ncevents' = ncevents - 1
      BY <1>0, <2>1, <2>3, WrapDown
    <2> QED BY <1>0, <2>1, <2>2, <2>3, <2>4 DEF CountAt
  <1>7. CASE CreateReturn(t)
    <2>1. Cached' = Cached /\ ncevents' = ncevents /\ Quietly(t, "give", "idle")
      BY <1>7, OnReturn DEF CreateReturn, Quietly
    <2>2. CountAt(t) /\ pc[t] = "give" /\ pc'[t] = "idle" /\ (CountAt(t)' => CountBody')
      BY <2>1, <1>2
    <2> QED BY <2>1, <2>2 DEF CountAt
  <1> QED BY <1>1, <1>3, <1>4, <1>5, <1>6, <1>7 DEF gwrl_evt_create

LEMMA CountFree ==
    ASSUME TypeInv, TypeInv', OnBody, OnBody', CountBody, ~raced', cacheMax' = cacheMax,
           cacheMax \in Counter, RL \in Thread, gwrl_evt_free
    PROVE  CountBody'
  <1>0. /\ IsFiniteSet(Cached) /\ Cardinality(Cached) \in Nat /\ cacheMax \in Nat
        /\ cacheMax < 65536 /\ ncevents \in Nat /\ ncevents < 65536
    BY FS_CardinalityType, CounterRange DEF OnBody, TypeInv, TypeOK
  <1>1. ASSUME NEW from, NEW to, Quietly(RL, from, to)
        PROVE  /\ CountAt(RL) /\ pc[RL] = from /\ pc'[RL] = to
               /\ CountAt(RL)' => CountBody'
    <2>1. \A u \in Thread \ {RL} : pc'[u] = "idle"
      BY <1>1 DEF Quietly, Alone, TypeInv, TypeOK
    <2>2. pc[RL] = from /\ pc'[RL] = to
      BY <1>1 DEF Quietly, TypeInv, TypeOK
    <2>3. CountAt(RL)
      BY <1>1, CountOne DEF Quietly
    <2>4. CountAt(RL)' => CountBody'
      BY <2>1, CountOneNext
    <2> QED BY <2>2, <2>3, <2>4
  <1>3. CASE FreeTest
    <2>1. /\ Cached' = Cached /\ UNCHANGED <<ncevents, n>>
          /\ \/ pc' = pc
             \/ Quietly(RL, "idle", "link") /\ ~(ncevents >= cacheMax)
      BY <1>3, OnFreeTest DEF Quietly
    <2>2. CASE pc' = pc
      BY <2>1, <2>2, CountSame
    <2>3. CASE Quietly(RL, "idle", "link") /\ ~(ncevents >= cacheMax)
      <3>1. CountAt(RL) /\ pc[RL] = "idle" /\ pc'[RL] = "link" /\ (CountAt(RL)' => CountBody')
        BY <2>3, <1>1
      <3> QED BY <1>0, <2>1, <2>3, <3>1 DEF CountAt
    <2> QED BY <2>1, <2>2, <2>3
  <1>4. CASE FreeLink
    <2>1. Cached' = Cached /\ UNCHANGED <<ncevents, n>> /\ Quietly(RL, "link", "head")
      BY <1>4, OnLink DEF FreeLink, Quietly
    <2>2. CountAt(RL) /\ pc[RL] = "link" /\ pc'[RL] = "head" /\ (CountAt(RL)' => CountBody')
      BY <2>1, <1>1
    <2> QED BY <2>1, <2>2 DEF CountAt
  <1>5. CASE FreeHead
    <2>1. /\ Cached' = Cached \cup {evt[RL]} /\ evt[RL] \notin Cached
          /\ Quietly(RL, "head", "cread") /\ ncevents' = ncevents
      BY <1>5, OnHead DEF FreeHead, Quietly
    <2>2. CountAt(RL) /\ pc[RL] = "head" /\ pc'[RL] = "cread" /\ (CountAt(RL)' => CountBody')
      BY <2>1, <1>1
    <2>3. Cardinality(Cached \cup {evt[RL]}) = Cardinality(Cached) + 1
      BY <1>0, <2>1, FS_AddElement
    <2> QED BY <1>0, <2>1, <2>2, <2>3 DEF CountAt
  <1>6. CASE FreeCountRead
    <2>1. /\ Cached' = Cached /\ Quietly(RL, "cread", "cwrite") /\ ncevents' = ncevents
          /\ n'[RL] = ncevents
      BY <1>6, OnFreeCounts DEF FreeCountRead, TypeInv, TypeOK
    <2>2. CountAt(RL) /\ pc[RL] = "cread" /\ pc'[RL] = "cwrite" /\ (CountAt(RL)' => CountBody')
      BY <2>1, <1>1
    <2> QED BY <2>1, <2>2 DEF CountAt
  <1>7. CASE FreeCountWrite
    <2>1. Cached' = Cached /\ Quietly(RL, "cwrite", "idle") /\ ncevents' = Wrap(n[RL] + 1)
      BY <1>7, OnFreeCounts DEF FreeCountWrite
    <2>2. CountAt(RL) /\ pc[RL] = "cwrite" /\ pc'[RL] = "idle" /\ (CountAt(RL)' => CountBody')
      BY <2>1, <1>1
    <2>3. n[RL] = ncevents /\ Cardinality(Cached) = ncevents + 1 /\ Cardinality(Cached) <= cacheMax
      BY <2>2 DEF CountAt
    <2>4. ncevents' = ncevents + 1
      BY <1>0, <2>1, <2>3, WrapUp
    <2> QED BY <1>0, <2>1, <2>2, <2>3, <2>4 DEF CountAt
  <1> QED BY <1>3, <1>4, <1>5, <1>6, <1>7 DEF gwrl_evt_free

LEMMA CountNext == TypeInv /\ OnInv /\ CountInv /\ [Next]_vars => CountInv'
  <1> SUFFICES ASSUME TypeInv, TypeInv', OnBody, OnBody', CountBody, ~raced',
                      cacheMax \in Counter, cacheMax' = cacheMax, [Next]_vars
               PROVE  CountBody'
    BY RaceStays, LimitIsFixed, OnNext, TypeNext DEF OnInv, CountInv, TypeInv, TypeOK
  <1>1. CASE UNCHANGED vars
    BY <1>1, CountSame DEF vars, Cached
  <1>2. RL \in Thread
    BY ThreadAssumption DEF ThreadAssumption
  <1> QED BY <1>1, <1>2, CountCreate, CountFree DEF Next

(* As long as the cache is entered by one thread at a time, and its limit is *)
(* one rl->ncevents can count to, the cache is exact whenever no thread is   *)
(* inside: rl->ncevents is the length of rl->cevents, within the limit, and  *)
(* every allocated cell is in the cache, waits to be called or is a          *)
(* thread's, in one place only.                                              *)
THEOREM CacheIsExact == Spec => [](cacheMax \in Counter => CacheExact)
  <1>1. ASSUME OnBody, CountBody, TypeInv, \A t \in Thread : pc[t] = "idle"
        PROVE  /\ ncevents = Cardinality(Cached) /\ ncevents <= cacheMax
               /\ alloc = Cached \cup posted \cup Handed
               /\ Cached \cap (posted \cup Handed) = {}
    <2>1. Moving = {} /\ Behind = {} /\ Ahead = {}
      BY <1>1 DEF Moving, MovingPCs, Behind, Ahead
    <2>2. ncevents = Cardinality(Cached) /\ ncevents <= cacheMax
      BY <1>1, <2>1 DEF CountBody
    <2> QED BY <1>1, <2>1, <2>2 DEF OnBody, Placed
  <1>2. TypeInv /\ OnInv /\ CountInv => (cacheMax \in Counter => CacheExact)
    BY <1>1 DEF OnInv, CountInv, CacheExact, Handed
  <1>3. Init => OnInv
    BY OnInit DEF OnInv
  <1> QED BY <1>2, <1>3, TypeInit, TypeNext, OnNext, CountInit, CountNext, PTL DEF Spec
=============================================================================
