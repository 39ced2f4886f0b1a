----------------------------- MODULE EventCache -----------------------------
(* The cache of event cells rl->cevents, at the grain of single reads and    *)
(* writes.  gwrl_post_function_safely calls gwrl_evt_create on the posting   *)
(* thread, which takes a cell from the cache without any lock, while the     *)
(* reactor thread gives cells back with gwrl_evt_free and takes cells for    *)
(* its own events.                                                           *)
EXTENDS Integers, FiniteSets, HeapLists

CONSTANTS
    Thread,    \* threads that call gwrl_evt_create
    RL,        \* the reactor thread, the only one that calls gwrl_evt_free
    Cell,      \* the event cells calloc can provide
    NULL,      \* the null pointer
    CacheMaxes \* values of options.gwrl_event_cache_max

ASSUME ThreadAssumption == RL \in Thread
ASSUME CellAssumption == NULL \notin Cell
ASSUME CacheMaxAssumption == CacheMaxes \subseteq Nat

VARIABLES
    cacheMax,  \* options.gwrl_event_cache_max, set before the loop runs
    next,      \* evt->next
    alloc,     \* cells obtained from calloc and not freed
    cevents,   \* rl->cevents
    ncevents,  \* rl->ncevents, a uint16_t
    pc,        \* program counter of each thread
    evt,       \* local evt of each thread
    n,         \* the value of ncevents a thread has read and not yet written
    held,      \* cells gwrl_evt_create returned to each thread, not posted yet
    posted,    \* cells the reactor owns, to be called and freed
    fault,     \* history: a null pointer was dereferenced
    raced      \* history: a thread entered the cache while another was inside
vars == <<cacheMax, next, alloc, cevents, ncevents, pc, evt, n, held, posted, fault, raced>>

PtrTo(S) == S \cup {NULL}
CreatePCs == {"load", "unlink", "nread", "nwrite", "give"}
FreePCs == {"link", "head", "cread", "cwrite"}
Counter == {k \in Nat : k < 65536}          \* uint16_t
Wrap(k) == k % 65536

TypeOK ==
    /\ cacheMax \in CacheMaxes
    /\ next \in [Cell -> PtrTo(Cell)] /\ alloc \in SUBSET Cell
    /\ cevents \in PtrTo(Cell) /\ ncevents \in Counter
    /\ pc \in [Thread -> {"idle"} \cup CreatePCs \cup FreePCs]
    /\ evt \in [Thread -> PtrTo(Cell)] /\ n \in [Thread -> Counter]
    /\ held \in [Thread -> SUBSET Cell] /\ posted \in SUBSET Cell
    /\ fault \in BOOLEAN /\ raced \in BOOLEAN

Init ==
    /\ cacheMax \in CacheMaxes
    /\ next = [c \in Cell |-> NULL] /\ alloc = {}
    /\ cevents = NULL /\ ncevents = 0
    /\ pc = [t \in Thread |-> "idle"] /\ evt = [t \in Thread |-> NULL]
    /\ n = [t \in Thread |-> 0]
    /\ held = [t \in Thread |-> {}] /\ posted = {}
    /\ fault = FALSE /\ raced = FALSE

Goto(t, from, to) == pc[t] = from /\ pc' = [pc EXCEPT ![t] = to]

\* A thread goes into the cache.  No lock keeps it out while another is there.
Enters(t) == raced' = (raced \/ \E u \in Thread \ {t} : pc[u] # "idle")

-----------------------------------------------------------------------------
(* gwrl_evt_create                                                           *)

\* if(rl->cevents); the else branch is calloc
CreateTest(t) ==
    /\ held[t] = {}
    /\ \/ /\ cevents # NULL
          /\ Goto(t, "idle", "load") /\ Enters(t)
          /\ UNCHANGED <<alloc, held>>
       \/ /\ cevents = NULL /\ pc[t] = "idle"
          /\ \E c \in Cell \ alloc :
                alloc' = alloc \cup {c} /\ held' = [held EXCEPT ![t] = {c}]
          /\ UNCHANGED <<pc, raced>>
    /\ UNCHANGED <<cacheMax, next, cevents, ncevents, evt, n, posted, fault>>

\* evt = rl->cevents
CreateLoad(t) ==
    /\ Goto(t, "load", "unlink")
    /\ evt' = [evt EXCEPT ![t] = cevents]
    /\ UNCHANGED <<cacheMax, next, alloc, cevents, ncevents, n, held, posted, fault, raced>>

\* Seeded fault: the cell stays at the head of the cache.
CreateUnlinkKeeps(t) ==
    /\ Goto(t, "unlink", "nread")
    /\ UNCHANGED <<cacheMax, next, alloc, cevents, ncevents, evt, n, held, posted, fault, raced>>

\* rl->cevents = evt->next, a fault if another thread has emptied the cache
CreateUnlink(t) ==
    /\ pc[t] = "unlink"
    /\ IF evt[t] = NULL
       THEN fault' = TRUE /\ pc' = [pc EXCEPT ![t] = "idle"] /\ UNCHANGED cevents
       ELSE cevents' = next[evt[t]] /\ pc' = [pc EXCEPT ![t] = "nread"] /\ UNCHANGED fault
    /\ UNCHANGED <<cacheMax, next, alloc, ncevents, evt, n, held, posted, raced>>

\* Seeded fault: the counter is not decremented.
CreateCountMissing(t) ==
    /\ Goto(t, "nread", "nwrite")
    /\ n' = [n EXCEPT ![t] = Wrap(ncevents + 1)]
    /\ UNCHANGED <<cacheMax, next, alloc, cevents, ncevents, evt, held, posted, fault, raced>>

\* rl->ncevents--: the load and the store
CreateCountRead(t) ==
    /\ Goto(t, "nread", "nwrite")
    /\ n' = [n EXCEPT ![t] = ncevents]
    /\ UNCHANGED <<cacheMax, next, alloc, cevents, ncevents, evt, held, posted, fault, raced>>
CreateCountWrite(t) ==
    /\ Goto(t, "nwrite", "give")
    /\ ncevents' = Wrap(n[t] + 65535)
    /\ UNCHANGED <<cacheMax, next, alloc, cevents, evt, n, held, posted, fault, raced>>

\* evt->next = NULL; the fields; return evt
CreateReturn(t) ==
    /\ Goto(t, "give", "idle")
    /\ next' = [next EXCEPT ![evt[t]] = NULL]
    /\ held' = [held EXCEPT ![t] = @ \cup {evt[t]}]
    /\ UNCHANGED <<cacheMax, alloc, cevents, ncevents, evt, n, posted, fault, raced>>

\* The event is posted: from now on it belongs to the reactor.
HandOver(t) ==
    /\ pc[t] = "idle" /\ held[t] # {}
    /\ posted' = posted \cup held[t]
    /\ held' = [held EXCEPT ![t] = {}]
    /\ UNCHANGED <<cacheMax, next, alloc, cevents, ncevents, pc, evt, n, fault, raced>>

-----------------------------------------------------------------------------
(* gwrl_evt_free, by the reactor thread, for an event it has called          *)

\* if(rl->ncevents >= gwrl_event_cache_max) free(evt); else bzero(evt)
FreeTest ==
    /\ pc[RL] = "idle"
    /\ \E c \in posted :
        /\ posted' = posted \ {c}
        /\ IF ncevents >= cacheMax
           THEN alloc' = alloc \ {c} /\ UNCHANGED <<next, pc, evt, raced>>
           ELSE /\ next' = [next EXCEPT ![c] = NULL]
                /\ evt' = [evt EXCEPT ![RL] = c]
                /\ pc' = [pc EXCEPT ![RL] = "link"] /\ Enters(RL)
                /\ UNCHANGED alloc
    /\ UNCHANGED <<cacheMax, cevents, ncevents, n, held, fault>>

\* if(rl->cevents) evt->next = rl->cevents.  Only this thread makes the head
\* non-null, so the test and the load are one read of the head.
FreeLink ==
    /\ Goto(RL, "link", "head")
    /\ next' = [next EXCEPT ![evt[RL]] = cevents]
    /\ UNCHANGED <<cacheMax, alloc, cevents, ncevents, evt, n, held, posted, fault, raced>>

\* rl->cevents = evt
FreeHead ==
    /\ Goto(RL, "head", "cread")
    /\ cevents' = evt[RL]
    /\ UNCHANGED <<cacheMax, next, alloc, ncevents, evt, n, held, posted, fault, raced>>

\* rl->ncevents++
FreeCountRead ==
    /\ Goto(RL, "cread", "cwrite")
    /\ n' = [n EXCEPT ![RL] = ncevents]
    /\ UNCHANGED <<cacheMax, next, alloc, cevents, ncevents, evt, held, posted, fault, raced>>
FreeCountWrite ==
    /\ Goto(RL, "cwrite", "idle")
    /\ ncevents' = Wrap(n[RL] + 1)
    /\ UNCHANGED <<cacheMax, next, alloc, cevents, evt, n, held, posted, fault, raced>>

gwrl_evt_create(t) ==
    \/ CreateTest(t) \/ CreateLoad(t) \/ CreateUnlink(t) \/ CreateCountRead(t)
    \/ CreateCountWrite(t) \/ CreateReturn(t)
gwrl_evt_free == FreeTest \/ FreeLink \/ FreeHead \/ FreeCountRead \/ FreeCountWrite

Next == gwrl_evt_free \/ \E t \in Thread : gwrl_evt_create(t) \/ HandOver(t)

Spec == Init /\ [][Next]_vars

-----------------------------------------------------------------------------

Cached == Reachable(next, cevents)

(* The documentation lists gwrl_post_function_safely as thread safe, "at any *)
(* time" (doc.pod:1344-1350).  As long as no thread went into the cache while*)
(* another was inside, no cell is given to two owners, a thread never gets a *)
(* cell whose event still waits to be called, and no null pointer is         *)
(* followed.  After such a race nothing is claimed: TLC finds two owners and *)
(* a null pointer there, so the promise is not kept.                         *)
OneOwner ==
    /\ ~fault
    /\ \A t \in Thread : held[t] \subseteq alloc \ posted
    /\ \A t, u \in Thread : t # u => held[t] \cap held[u] = {}
DistinctHandout == ~raced => OneOwner

(* As long as the cache was entered by one thread at a time: when no thread  *)
(* is inside, rl->ncevents counts the cached cells, the cache is within its  *)
(* limit, and every cell is in one place.                                    *)
CacheExact ==
    ~raced /\ (\A t \in Thread : pc[t] = "idle") =>
        /\ ncevents = Cardinality(Cached) /\ ncevents <= cacheMax
        /\ alloc = Cached \cup posted \cup UNION {held[t] : t \in Thread}
        /\ Cached \cap (posted \cup UNION {held[t] : t \in Thread}) = {}

\* The locals of a thread that moves a cell.
MovingPCs == {"nread", "nwrite", "give", "link", "head"}
TypeInv == TypeOK /\ \A t \in Thread : pc[t] \in MovingPCs => evt[t] # NULL

(* With the cache switched off no thread is ever inside the cache.           *)
OffBody == cevents = NULL /\ ncevents = 0 /\ ~raced /\ \A t \in Thread : pc[t] = "idle"
OffInv == cacheMax = 0 => OffBody

(* Without a race at most one thread is inside.  The cache is a list, and a  *)
(* cell is in it, waits to be called, is a thread's, or is the one being     *)
(* moved.                                                                    *)
Moving == {evt[t] : t \in {u \in Thread : pc[u] \in MovingPCs}}
Handed == UNION {held[t] : t \in Thread}
OneInside == \A t, u \in Thread : pc[t] # "idle" /\ pc[u] # "idle" => t = u
Placed ==
    /\ Cached \cap (posted \cup Handed \cup Moving) = {}
    /\ posted \cap (Handed \cup Moving) = {} /\ Handed \cap Moving = {}
    /\ alloc = Cached \cup posted \cup Handed \cup Moving
    /\ \A t, u \in Thread : t # u => held[t] \cap held[u] = {}
InPlace(t) ==
    /\ pc[t] \in CreatePCs => held[t] = {}
    /\ pc[t] \in {"load", "unlink"} => cevents # NULL
    /\ pc[t] = "unlink" => evt[t] = cevents
    /\ pc[t] = "head" => next[evt[t]] = cevents
    /\ pc[t] \in FreePCs => t = RL
OnBody ==
    /\ ~fault /\ IsFiniteSet(Cached) /\ Acyclic(next, cevents)
    /\ OneInside /\ Placed /\ \A t \in Thread : InPlace(t)
OnInv == ~raced => OnBody

\* What rl->ncevents is between the change of the list and its own.
Behind == {t \in Thread : pc[t] \in {"nread", "nwrite"}}
Ahead == {t \in Thread : pc[t] \in {"cread", "cwrite"}}
CountBody ==
    /\ Cardinality(Cached) = CASE Behind # {} -> ncevents - 1
                               [] Ahead # {} -> ncevents + 1
                               [] OTHER -> ncevents
    /\ Cardinality(Cached) <= cacheMax
    /\ \A t \in Thread : /\ pc[t] \in {"nwrite", "cwrite"} => n[t] = ncevents
                         /\ pc[t] \in {"link", "head"} => ncevents < cacheMax
CountInv == ~raced /\ cacheMax \in Counter => CountBody
=============================================================================
