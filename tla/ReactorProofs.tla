--------------------------- MODULE ReactorProofs ---------------------------
(* TLAPS proofs about Reactor: type correctness, and that the queue of       *)
(* thread-safe posting keeps every posted event except the ones dropped in   *)
(* the window of gwrl_install_queued_events, for any number of posters.      *)
EXTENDS Reactor, HeapListProofs, TLAPS

(* What PPush does to the sequence of queued events.                         *)
LEMMA ConsFacts ==
    ASSUME NEW S, NEW e \in S, NEW s \in Seq(S)
    PROVE  LET t == <<e>> \o s IN
           /\ t \in Seq(S) /\ Len(t) = Len(s) + 1 /\ t # <<>> /\ t[1] = e
           /\ \A i \in 1..Len(s) : t[i + 1] = s[i]
           /\ \A i \in 1..Len(t) : t[i] = IF i = 1 THEN e ELSE s[i - 1]
    OBVIOUS

(* What one step of the install loop does to the sequence still to walk.     *)
LEMMA TailFacts ==
    ASSUME NEW S, NEW s \in Seq(S), s # <<>>
    PROVE  /\ Tail(s) \in Seq(S) /\ Len(Tail(s)) = Len(s) - 1
           /\ Len(s) \in Nat \ {0}
           /\ \A i \in 1..Len(Tail(s)) : Tail(s)[i] = s[i + 1]
    OBVIOUS

(* The set of the elements of a sequence.                                    *)
LEMMA ElemsFacts ==
    ASSUME NEW S, NEW s \in Seq(S)
    PROVE  /\ Elems(s) = {s[i] : i \in 1..Len(s)}
           /\ Elems(s) \subseteq S
           /\ \A x : x \in Elems(s) <=> \E i \in 1..Len(s) : x = s[i]
    BY DEF Elems

LEMMA ConsElems ==
    ASSUME NEW S, NEW e \in S, NEW s \in Seq(S)
    PROVE  Elems(<<e>> \o s) = Elems(s) \cup {e}
  <1> DEFINE t == <<e>> \o s
  <1>1. /\ t \in Seq(S) /\ Len(t) = Len(s) + 1 /\ t[1] = e /\ Len(s) \in Nat
        /\ \A i \in 1..Len(s) : t[i + 1] = s[i]
        /\ \A i \in 1..Len(t) : t[i] = IF i = 1 THEN e ELSE s[i - 1]
    BY ConsFacts
  <1> HIDE DEF t
  <1>2. /\ \A x : x \in Elems(s) <=> \E i \in 1..Len(s) : x = s[i]
        /\ \A x : x \in Elems(t) <=> \E i \in 1..Len(t) : x = t[i]
    BY <1>1, ElemsFacts
  <1>3. ASSUME NEW x, x \in Elems(t) PROVE x \in Elems(s) \/ x = e
    <2>1. PICK i \in 1..Len(t) : x = t[i]
      BY <1>2, <1>3
    <2>2. CASE i # 1
      <3>1. i - 1 \in 1..Len(s) /\ x = s[i - 1]
        BY <1>1, <2>1, <2>2
      <3> QED BY <1>2, <3>1
    <2> QED BY <1>1, <2>1, <2>2
  <1>4. ASSUME NEW x, x \in Elems(s) PROVE x \in Elems(t)
    <2>1. PICK i \in 1..Len(s) : x = s[i]
      BY <1>2, <1>4
    <2>2. i + 1 \in 1..Len(t) /\ x = t[i + 1]
      BY <1>1, <2>1
    <2> QED BY <1>2, <2>2
  <1>5. e \in Elems(t)
    <2>1. 1 \in 1..Len(t) /\ e = t[1]
      BY <1>1
    <2> QED BY <1>2, <2>1
  <1>6. Elems(t) = Elems(s) \cup {e}
    BY <1>3, <1>4, <1>5
  <1> QED BY <1>6 DEF t

LEMMA InitQueueInv == Init => QueueInv
  <1> SUFFICES ASSUME Init PROVE QueueInv
    OBVIOUS
  <1> USE CellAssumption, DisjointAssumption, BoundAssumption, SwitchAssumption
  <1>1. TypeOK
    <2>1. FlagType
      BY Zenon DEF Init, FlagType
    <2>2. ControlType
      BY DEF Init, ControlType, RPCs, PPCs, BoundAssumption
    <2>3. HeapType /\ QueueType
      BY DEF Init, HeapType, QueueType, PtrTo, Kinds, Evt
    <2> QED BY <2>1, <2>2, <2>3 DEF TypeOK
  <1>2. ControlInv /\ LockInv
    BY DEF Init, ControlInv, LockInv, FreePCs, DispatchPCs, Evt
  <1>3. CellInv /\ PtrInv
    BY DEF Init, CellInv, PtrInv, Foreign, ReactorPtr, Pushed, WalkPCs, Evt
  <1>4. SeqInv /\ QueueIsList /\ PushIsFresh /\ PostedIsAccounted
    BY DEF Init, SeqInv, SeqOwned, WalkPCs, QueueIsList, IsList, PushIsFresh,
           PostedIsAccounted, Pushed, Elems
  <1> QED BY <1>1, <1>2, <1>3, <1>4 DEF QueueInv

(* A step of the reactor thread outside the walks over the queue that keeps  *)
(* the queue and touches no foreign cell preserves the invariant.            *)
LEMMA Frame ==
    ASSUME QueueInv, TypeOK', ControlInv',
           UNCHANGED <<qevt, qevtlk, ppc, qseq, tseq, installed, raced>>,
           rpc \notin WalkPCs, rpc' \notin WalkPCs, mode' # "free" => mode # "free",
           \A c \in Evt : /\ Foreign(c) => next'[c] = next[c] /\ what'[c] = what[c] /\ c \in alloc'
                          /\ ~Foreign(c) => ~Foreign(c)' /\ ReactorPtr(next[c])'
                          /\ what'[c] = "post" => what[c] = "post",
           ReactorPtr(events)', ReactorPtr(cevents)', ReactorPtr(del)', ReactorPtr(evt)',
           rpc' = "adv" => evt' # NULL
    PROVE  QueueInv'
  <1> USE CellAssumption DEF CellAssumption
  <1>0. \A e \in Post : e \in Evt
    BY DEF Evt
  <1>1. \A c \in Evt : Foreign(c)' <=> Foreign(c)
    BY DEF Foreign
  <1>2. LockInv'
    BY DEF QueueInv, LockInv, WalkPCs
  <1>3. CellInv'
    BY <1>0, <1>1 DEF QueueInv, CellInv, Pushed
  <1>4. PtrInv'
    BY <1>1 DEF QueueInv, PtrInv
  <1>5. SeqInv'
    BY <1>0, <1>1 DEF QueueInv, TypeOK, QueueType, SeqInv, SeqOwned, Pushed, WalkPCs
  <1>6. PushIsFresh'
    BY <1>0, <1>1 DEF QueueInv, CellInv, PushIsFresh, Pushed
  <1>7. QueueIsList'
    BY <1>0, <1>1 DEF QueueInv, TypeOK, QueueType, SeqInv, SeqOwned, QueueIsList, IsList, WalkPCs
  <1>8. PostedIsAccounted'
    BY DEF QueueInv, PostedIsAccounted, Pushed, Elems
  <1> QED BY <1>2, <1>3, <1>4, <1>5, <1>6, <1>7, <1>8 DEF QueueInv

(* The same for a step that changes no cell at all.                          *)
LEMMA QuietFrame ==
    ASSUME QueueInv, TypeOK', ControlInv',
           UNCHANGED <<next, what, alloc, qevt, qevtlk, ppc, qseq, tseq, installed, raced>>,
           rpc \notin WalkPCs, rpc' \notin WalkPCs, mode' # "free" => mode # "free",
           ReactorPtr(events'), ReactorPtr(cevents'), ReactorPtr(del'), ReactorPtr(evt'),
           rpc' = "adv" => evt' # NULL
    PROVE  QueueInv'
  <1>1. \A c \in Evt : /\ Foreign(c) => c \in alloc
                       /\ ~Foreign(c) => ReactorPtr(next[c])
    BY DEF QueueInv, CellInv, PtrInv, WalkPCs
  <1>2. \A c \in Evt : Foreign(c)' <=> Foreign(c)
    BY DEF Foreign
  <1>3. \A x : ReactorPtr(x)' <=> ReactorPtr(x')
    BY DEF ReactorPtr, Foreign
  <1> QED BY <1>1, <1>2, Frame DEF ReactorPtr, Foreign

(* Steps that change no cell: calls of the client, tests of flags and heads,  *)
(* moving a list from one head to another.                                    *)
LEMMA QuietSteps ==
    ASSUME QueueInv,
           \/ gwrl_run \/ gwrl_run_once \/ gwrl_allow_poll_sleep \/ gwrl_free
           \/ CheckQueue \/ DispatchStart \/ WakeActivity \/ DispatchNext
           \/ Redispatch \/ DispatchLoopEnd \/ DispatchReturn \/ CheckStop
           \/ SetSleeping \/ PollReturns \/ PollInterrupted \/ ClearSleeping
           \/ FreeFirst
    PROVE  QueueInv'
  <1> USE CellAssumption, BoundAssumption DEF CellAssumption, BoundAssumption
  <1> USE DEF RGoto, heapVars, listVars, queueVars, flagVars, localVars, histVars
  <1>0. /\ TypeOK /\ FlagType /\ ControlType /\ HeapType /\ QueueType /\ ControlInv /\ PtrInv
    BY DEF QueueInv, TypeOK
  <1>1. CASE gwrl_run
    <2>1. FlagType'
      BY <1>0, <1>1, Zenon DEF gwrl_run, FlagType
    <2>2. ControlType' /\ HeapType' /\ QueueType' /\ ControlInv'
      BY <1>0, <1>1 DEF gwrl_run, ControlType, HeapType, QueueType, ControlInv, PtrInv,
         RPCs, InstallPCs, DispatchPCs, GatherPCs, FreePCs, PtrTo
    <2>3. /\ ReactorPtr(events') /\ ReactorPtr(cevents') /\ ReactorPtr(del') /\ ReactorPtr(evt')
          /\ rpc' = "adv" => evt' # NULL
      BY <1>0, <1>1 DEF gwrl_run, HeapType, PtrInv, ReactorPtr, WalkPCs, PtrTo
    <2>4. rpc \notin WalkPCs /\ rpc' \notin WalkPCs /\ (mode' # "free" => mode # "free")
      BY <1>0, <1>1 DEF gwrl_run, ControlInv, WalkPCs, DispatchPCs, FreePCs
    <2> QED BY <1>1, <2>1, <2>2, <2>3, <2>4, QuietFrame DEF gwrl_run, TypeOK
  <1>2. CASE gwrl_run_once
    <2>1. FlagType'
      BY <1>0, <1>2, Zenon DEF gwrl_run_once, FlagType
    <2>2. ControlType' /\ HeapType' /\ QueueType' /\ ControlInv'
      BY <1>0, <1>2 DEF gwrl_run_once, ControlType, HeapType, QueueType, ControlInv, PtrInv,
         RPCs, InstallPCs, DispatchPCs, GatherPCs, FreePCs, PtrTo
    <2>3. /\ ReactorPtr(events') /\ ReactorPtr(cevents') /\ ReactorPtr(del') /\ ReactorPtr(evt')
          /\ rpc' = "adv" => evt' # NULL
      BY <1>0, <1>2 DEF gwrl_run_once, HeapType, PtrInv, ReactorPtr, WalkPCs, PtrTo
    <2>4. rpc \notin WalkPCs /\ rpc' \notin WalkPCs /\ (mode' # "free" => mode # "free")
      BY <1>0, <1>2 DEF gwrl_run_once, ControlInv, WalkPCs, DispatchPCs, FreePCs
    <2> QED BY <1>2, <2>1, <2>2, <2>3, <2>4, QuietFrame DEF gwrl_run_once, TypeOK
  <1>3. CASE gwrl_allow_poll_sleep
    <2>1. FlagType'
      BY <1>0, <1>3, Zenon DEF gwrl_allow_poll_sleep, FlagType
    <2>2. ControlType' /\ HeapType' /\ QueueType' /\ ControlInv'
      BY <1>0, <1>3 DEF gwrl_allow_poll_sleep, ControlType, HeapType, QueueType, ControlInv, PtrInv,
         RPCs, InstallPCs, DispatchPCs, GatherPCs, FreePCs, PtrTo
    <2>3. /\ ReactorPtr(events') /\ ReactorPtr(cevents') /\ ReactorPtr(del') /\ ReactorPtr(evt')
          /\ rpc' = "adv" => evt' # NULL
      BY <1>0, <1>3 DEF gwrl_allow_poll_sleep, HeapType, PtrInv, ReactorPtr, WalkPCs, PtrTo
    <2>4. rpc \notin WalkPCs /\ rpc' \notin WalkPCs /\ (mode' # "free" => mode # "free")
      BY <1>0, <1>3 DEF gwrl_allow_poll_sleep, ControlInv, WalkPCs, DispatchPCs, FreePCs
    <2> QED BY <1>3, <2>1, <2>2, <2>3, <2>4, QuietFrame DEF gwrl_allow_poll_sleep, TypeOK
  <1>4. CASE gwrl_free
    <2>1. FlagType'
      BY <1>0, <1>4, Zenon DEF gwrl_free, FlagType
    <2>2. ControlType' /\ HeapType' /\ QueueType' /\ ControlInv'
      BY <1>0, <1>4 DEF gwrl_free, ControlType, HeapType, QueueType, ControlInv, PtrInv,
         RPCs, InstallPCs, DispatchPCs, GatherPCs, FreePCs, PtrTo
    <2>3. /\ ReactorPtr(events') /\ ReactorPtr(cevents') /\ ReactorPtr(del') /\ ReactorPtr(evt')
          /\ rpc' = "adv" => evt' # NULL
      BY <1>0, <1>4 DEF gwrl_free, HeapType, PtrInv, ReactorPtr, WalkPCs, PtrTo
    <2>4. rpc \notin WalkPCs /\ rpc' \notin WalkPCs /\ (mode' # "free" => mode # "free")
      BY <1>0, <1>4 DEF gwrl_free, ControlInv, WalkPCs, DispatchPCs, FreePCs
    <2> QED BY <1>4, <2>1, <2>2, <2>3, <2>4, QuietFrame DEF gwrl_free, TypeOK
  <1>5. CASE CheckQueue
    <2>1. FlagType'
      BY <1>0, <1>5, Zenon DEF CheckQueue, FlagType
    <2>2. ControlType' /\ HeapType' /\ QueueType' /\ ControlInv'
      BY <1>0, <1>5 DEF CheckQueue, ControlType, HeapType, QueueType, ControlInv, PtrInv,
         RPCs, InstallPCs, DispatchPCs, GatherPCs, FreePCs, PtrTo
    <2>3. /\ ReactorPtr(events') /\ ReactorPtr(cevents') /\ ReactorPtr(del') /\ ReactorPtr(evt')
          /\ rpc' = "adv" => evt' # NULL
      BY <1>0, <1>5 DEF CheckQueue, HeapType, PtrInv, ReactorPtr, WalkPCs, PtrTo
    <2>4. rpc \notin WalkPCs /\ rpc' \notin WalkPCs /\ (mode' # "free" => mode # "free")
      BY <1>0, <1>5 DEF CheckQueue, ControlInv, WalkPCs, DispatchPCs, FreePCs
    <2> QED BY <1>5, <2>1, <2>2, <2>3, <2>4, QuietFrame DEF CheckQueue, TypeOK
  <1>6. CASE DispatchStart
    <2>1. FlagType'
      BY <1>0, <1>6, Zenon DEF DispatchStart, FlagType
    <2>2. ControlType' /\ HeapType' /\ QueueType' /\ ControlInv'
      BY <1>0, <1>6 DEF DispatchStart, ControlType, HeapType, QueueType, ControlInv, PtrInv,
         RPCs, InstallPCs, DispatchPCs, GatherPCs, FreePCs, PtrTo
    <2>3. /\ ReactorPtr(events') /\ ReactorPtr(cevents') /\ ReactorPtr(del') /\ ReactorPtr(evt')
          /\ rpc' = "adv" => evt' # NULL
      BY <1>0, <1>6 DEF DispatchStart, HeapType, PtrInv, ReactorPtr, WalkPCs, PtrTo
    <2>4. rpc \notin WalkPCs /\ rpc' \notin WalkPCs /\ (mode' # "free" => mode # "free")
      BY <1>0, <1>6 DEF DispatchStart, ControlInv, WalkPCs, DispatchPCs, FreePCs
    <2> QED BY <1>6, <2>1, <2>2, <2>3, <2>4, QuietFrame DEF DispatchStart, TypeOK
  <1>7. CASE WakeActivity
    <2>1. FlagType'
      BY <1>0, <1>7, Zenon DEF WakeActivity, FlagType
    <2>2. ControlType' /\ HeapType' /\ QueueType' /\ ControlInv'
      BY <1>0, <1>7 DEF WakeActivity, ControlType, HeapType, QueueType, ControlInv, PtrInv,
         RPCs, InstallPCs, DispatchPCs, GatherPCs, FreePCs, PtrTo
    <2>3. /\ ReactorPtr(events') /\ ReactorPtr(cevents') /\ ReactorPtr(del') /\ ReactorPtr(evt')
          /\ rpc' = "adv" => evt' # NULL
      BY <1>0, <1>7 DEF WakeActivity, HeapType, PtrInv, ReactorPtr, WalkPCs, PtrTo
    <2>4. rpc \notin WalkPCs /\ rpc' \notin WalkPCs /\ (mode' # "free" => mode # "free")
      BY <1>0, <1>7 DEF WakeActivity, ControlInv, WalkPCs, DispatchPCs, FreePCs
    <2> QED BY <1>7, <2>1, <2>2, <2>3, <2>4, QuietFrame DEF WakeActivity, TypeOK
  <1>8. CASE DispatchNext
    <2>1. FlagType'
      BY <1>0, <1>8, Zenon DEF DispatchNext, FlagType
    <2>2. ControlType' /\ HeapType' /\ QueueType' /\ ControlInv'
      BY <1>0, <1>8 DEF DispatchNext, ControlType, HeapType, QueueType, ControlInv, PtrInv,
         RPCs, InstallPCs, DispatchPCs, GatherPCs, FreePCs, PtrTo
    <2>3. /\ ReactorPtr(events') /\ ReactorPtr(cevents') /\ ReactorPtr(del') /\ ReactorPtr(evt')
          /\ rpc' = "adv" => evt' # NULL
      BY <1>0, <1>8 DEF DispatchNext, HeapType, PtrInv, ReactorPtr, WalkPCs, PtrTo
    <2>4. rpc \notin WalkPCs /\ rpc' \notin WalkPCs /\ (mode' # "free" => mode # "free")
      BY <1>0, <1>8 DEF DispatchNext, ControlInv, WalkPCs, DispatchPCs, FreePCs
    <2> QED BY <1>8, <2>1, <2>2, <2>3, <2>4, QuietFrame DEF DispatchNext, TypeOK
  <1>9. CASE Redispatch
    <2>1. FlagType'
      BY <1>0, <1>9, Zenon DEF Redispatch, FlagType
    <2>2. ControlType' /\ HeapType' /\ QueueType' /\ ControlInv'
      BY <1>0, <1>9 DEF Redispatch, ControlType, HeapType, QueueType, ControlInv, PtrInv,
         RPCs, InstallPCs, DispatchPCs, GatherPCs, FreePCs, PtrTo
    <2>3. /\ ReactorPtr(events') /\ ReactorPtr(cevents') /\ ReactorPtr(del') /\ ReactorPtr(evt')
          /\ rpc' = "adv" => evt' # NULL
      BY <1>0, <1>9 DEF Redispatch, HeapType, PtrInv, ReactorPtr, WalkPCs, PtrTo
    <2>4. rpc \notin WalkPCs /\ rpc' \notin WalkPCs /\ (mode' # "free" => mode # "free")
      BY <1>0, <1>9 DEF Redispatch, ControlInv, WalkPCs, DispatchPCs, FreePCs
    <2> QED BY <1>9, <2>1, <2>2, <2>3, <2>4, QuietFrame DEF Redispatch, TypeOK
  <1>10. CASE DispatchLoopEnd
    <2>1. FlagType'
      BY <1>0, <1>10, Zenon DEF DispatchLoopEnd, FlagType
    <2>2. ControlType' /\ HeapType' /\ QueueType' /\ ControlInv'
      BY <1>0, <1>10 DEF DispatchLoopEnd, ControlType, HeapType, QueueType, ControlInv, PtrInv,
         RPCs, InstallPCs, DispatchPCs, GatherPCs, FreePCs, PtrTo
    <2>3. /\ ReactorPtr(events') /\ ReactorPtr(cevents') /\ ReactorPtr(del') /\ ReactorPtr(evt')
          /\ rpc' = "adv" => evt' # NULL
      BY <1>0, <1>10 DEF DispatchLoopEnd, HeapType, PtrInv, ReactorPtr, WalkPCs, PtrTo
    <2>4. rpc \notin WalkPCs /\ rpc' \notin WalkPCs /\ (mode' # "free" => mode # "free")
      BY <1>0, <1>10 DEF DispatchLoopEnd, ControlInv, WalkPCs, DispatchPCs, FreePCs
    <2> QED BY <1>10, <2>1, <2>2, <2>3, <2>4, QuietFrame DEF DispatchLoopEnd, TypeOK
  <1>11. CASE DispatchReturn
    <2>1. FlagType'
      BY <1>0, <1>11, Zenon DEF DispatchReturn, FlagType
    <2>2. ControlType' /\ HeapType' /\ QueueType' /\ ControlInv'
      BY <1>0, <1>11 DEF DispatchReturn, ControlType, HeapType, QueueType, ControlInv, PtrInv,
         RPCs, InstallPCs, DispatchPCs, GatherPCs, FreePCs, PtrTo
    <2>3. /\ ReactorPtr(events') /\ ReactorPtr(cevents') /\ ReactorPtr(del') /\ ReactorPtr(evt')
          /\ rpc' = "adv" => evt' # NULL
      BY <1>0, <1>11 DEF DispatchReturn, HeapType, PtrInv, ReactorPtr, WalkPCs, PtrTo
    <2>4. rpc \notin WalkPCs /\ rpc' \notin WalkPCs /\ (mode' # "free" => mode # "free")
      BY <1>0, <1>11 DEF DispatchReturn, ControlInv, WalkPCs, DispatchPCs, FreePCs
    <2> QED BY <1>11, <2>1, <2>2, <2>3, <2>4, QuietFrame DEF DispatchReturn, TypeOK
  <1>12. CASE CheckStop
    <2>1. FlagType'
      BY <1>0, <1>12, Zenon DEF CheckStop, FlagType
    <2>2. ControlType' /\ HeapType' /\ QueueType' /\ ControlInv'
      BY <1>0, <1>12 DEF CheckStop, ControlType, HeapType, QueueType, ControlInv, PtrInv,
         RPCs, InstallPCs, DispatchPCs, GatherPCs, FreePCs, PtrTo
    <2>3. /\ ReactorPtr(events') /\ ReactorPtr(cevents') /\ ReactorPtr(del') /\ ReactorPtr(evt')
          /\ rpc' = "adv" => evt' # NULL
      BY <1>0, <1>12 DEF CheckStop, HeapType, PtrInv, ReactorPtr, WalkPCs, PtrTo
    <2>4. rpc \notin WalkPCs /\ rpc' \notin WalkPCs /\ (mode' # "free" => mode # "free")
      BY <1>0, <1>12 DEF CheckStop, ControlInv, WalkPCs, DispatchPCs, FreePCs
    <2> QED BY <1>12, <2>1, <2>2, <2>3, <2>4, QuietFrame DEF CheckStop, TypeOK
  <1>13. CASE SetSleeping
    <2>1. FlagType'
      BY <1>0, <1>13, Zenon DEF SetSleeping, FlagType
    <2>2. ControlType' /\ HeapType' /\ QueueType' /\ ControlInv'
      BY <1>0, <1>13 DEF SetSleeping, ControlType, HeapType, QueueType, ControlInv, PtrInv,
         RPCs, InstallPCs, DispatchPCs, GatherPCs, FreePCs, PtrTo
    <2>3. /\ ReactorPtr(events') /\ ReactorPtr(cevents') /\ ReactorPtr(del') /\ ReactorPtr(evt')
          /\ rpc' = "adv" => evt' # NULL
      BY <1>0, <1>13 DEF SetSleeping, HeapType, PtrInv, ReactorPtr, WalkPCs, PtrTo
    <2>4. rpc \notin WalkPCs /\ rpc' \notin WalkPCs /\ (mode' # "free" => mode # "free")
      BY <1>0, <1>13 DEF SetSleeping, ControlInv, WalkPCs, DispatchPCs, FreePCs
    <2> QED BY <1>13, <2>1, <2>2, <2>3, <2>4, QuietFrame DEF SetSleeping, TypeOK
  <1>14. CASE PollReturns
    <2>1. FlagType'
      BY <1>0, <1>14, Zenon DEF PollReturns, FlagType
    <2>2. ControlType' /\ HeapType' /\ QueueType' /\ ControlInv'
      BY <1>0, <1>14 DEF PollReturns, ControlType, HeapType, QueueType, ControlInv, PtrInv,
         RPCs, InstallPCs, DispatchPCs, GatherPCs, FreePCs, PtrTo
    <2>3. /\ ReactorPtr(events') /\ ReactorPtr(cevents') /\ ReactorPtr(del') /\ ReactorPtr(evt')
          /\ rpc' = "adv" => evt' # NULL
      BY <1>0, <1>14 DEF PollReturns, HeapType, PtrInv, ReactorPtr, WalkPCs, PtrTo
    <2>4. rpc \notin WalkPCs /\ rpc' \notin WalkPCs /\ (mode' # "free" => mode # "free")
      BY <1>0, <1>14 DEF PollReturns, ControlInv, WalkPCs, DispatchPCs, FreePCs
    <2> QED BY <1>14, <2>1, <2>2, <2>3, <2>4, QuietFrame DEF PollReturns, TypeOK
  <1>15. CASE PollInterrupted
    <2>1. FlagType'
      BY <1>0, <1>15, Zenon DEF PollInterrupted, FlagType
    <2>2. ControlType' /\ HeapType' /\ QueueType' /\ ControlInv'
      BY <1>0, <1>15 DEF PollInterrupted, ControlType, HeapType, QueueType, ControlInv, PtrInv,
         RPCs, InstallPCs, DispatchPCs, GatherPCs, FreePCs, PtrTo
    <2>3. /\ ReactorPtr(events') /\ ReactorPtr(cevents') /\ ReactorPtr(del') /\ ReactorPtr(evt')
          /\ rpc' = "adv" => evt' # NULL
      BY <1>0, <1>15 DEF PollInterrupted, HeapType, PtrInv, ReactorPtr, WalkPCs, PtrTo
    <2>4. rpc \notin WalkPCs /\ rpc' \notin WalkPCs /\ (mode' # "free" => mode # "free")
      BY <1>0, <1>15 DEF PollInterrupted, ControlInv, WalkPCs, DispatchPCs, FreePCs
    <2> QED BY <1>15, <2>1, <2>2, <2>3, <2>4, QuietFrame DEF PollInterrupted, TypeOK
  <1>16. CASE ClearSleeping
    <2>1. FlagType'
      BY <1>0, <1>16, Zenon DEF ClearSleeping, FlagType
    <2>2. ControlType' /\ HeapType' /\ QueueType' /\ ControlInv'
      BY <1>0, <1>16 DEF ClearSleeping, ControlType, HeapType, QueueType, ControlInv, PtrInv,
         RPCs, InstallPCs, DispatchPCs, GatherPCs, FreePCs, PtrTo
    <2>3. /\ ReactorPtr(events') /\ ReactorPtr(cevents') /\ ReactorPtr(del') /\ ReactorPtr(evt')
          /\ rpc' = "adv" => evt' # NULL
      BY <1>0, <1>16 DEF ClearSleeping, HeapType, PtrInv, ReactorPtr, WalkPCs, PtrTo
    <2>4. rpc \notin WalkPCs /\ rpc' \notin WalkPCs /\ (mode' # "free" => mode # "free")
      BY <1>0, <1>16 DEF ClearSleeping, ControlInv, WalkPCs, DispatchPCs, FreePCs
    <2> QED BY <1>16, <2>1, <2>2, <2>3, <2>4, QuietFrame DEF ClearSleeping, TypeOK
  <1>17. CASE FreeFirst
    <2>1. FlagType'
      BY <1>0, <1>17, Zenon DEF FreeFirst, FlagType
    <2>2. ControlType' /\ HeapType' /\ QueueType' /\ ControlInv'
      BY <1>0, <1>17 DEF FreeFirst, ControlType, HeapType, QueueType, ControlInv, PtrInv,
         RPCs, InstallPCs, DispatchPCs, GatherPCs, FreePCs, PtrTo
    <2>3. /\ ReactorPtr(events') /\ ReactorPtr(cevents') /\ ReactorPtr(del') /\ ReactorPtr(evt')
          /\ rpc' = "adv" => evt' # NULL
      BY <1>0, <1>17 DEF FreeFirst, HeapType, PtrInv, ReactorPtr, WalkPCs, PtrTo
    <2>4. rpc \notin WalkPCs /\ rpc' \notin WalkPCs /\ (mode' # "free" => mode # "free")
      BY <1>0, <1>17 DEF FreeFirst, ControlInv, WalkPCs, DispatchPCs, FreePCs
    <2> QED BY <1>17, <2>1, <2>2, <2>3, <2>4, QuietFrame DEF FreeFirst, TypeOK
  <1> QED BY <1>1, <1>2, <1>3, <1>4, <1>5, <1>6, <1>7, <1>8, <1>9, <1>10, <1>11, <1>12, <1>13, <1>14, <1>15, <1>16, <1>17

(* gwrl_evt_create takes a cell of the cache or of the heap, never a queued  *)
(* one, and gwrl_post_evt links it to cells of the reactor only.             *)
LEMMA CreateFrame ==
    ASSUME QueueInv, NEW k \in Kinds \ {"post"}, CreateAndPost(k),
           installed' = installed, rpc \notin WalkPCs
    PROVE  /\ next' \in [Evt -> PtrTo(Evt)] /\ what' \in [Evt -> Kinds]
           /\ alloc' \in SUBSET Evt /\ events' \in PtrTo(Evt)
           /\ cevents' \in PtrTo(Evt) /\ ncevents' \in Int
           /\ \A c \in Evt : /\ Foreign(c) => next'[c] = next[c] /\ what'[c] = what[c] /\ c \in alloc'
                             /\ ~Foreign(c) => ~Foreign(c)' /\ ReactorPtr(next[c])'
                             /\ what'[c] = "post" => what[c] = "post"
           /\ ReactorPtr(events)' /\ ReactorPtr(cevents)'
           /\ \A p \in PtrTo(Evt) : ReactorPtr(p) => p = NULL \/ ~(what'[p] = "post" /\ p \notin installed')
  <1> USE CellAssumption, BoundAssumption DEF CellAssumption, BoundAssumption
  <1> USE DEF RGoto, heapVars, listVars, queueVars, flagVars, localVars, histVars
  <1>0. /\ TypeOK /\ FlagType /\ ControlType /\ HeapType /\ QueueType
        /\ ControlInv /\ CellInv /\ PtrInv /\ SeqInv /\ LockInv
        /\ PushIsFresh /\ QueueIsList /\ PostedIsAccounted
    BY DEF QueueInv, TypeOK
  <1>1. PICK c \in Evt :
          /\ c \in IF cevents # NULL THEN {cevents} ELSE Evt \ alloc
          /\ cevents' = IF cevents # NULL THEN next[cevents] ELSE cevents
          /\ ncevents' = IF cevents # NULL THEN ncevents - 1 ELSE ncevents
          /\ alloc' = alloc \cup {c}
          /\ what' = [what EXCEPT ![c] = k]
          /\ next' = PostLink([next EXCEPT ![c] = NULL], events, c)
          /\ events' = c
    BY <1>0 DEF CreateAndPost, HeapType, PtrTo
  <1>2. ~Foreign(c)
    BY <1>0, <1>1 DEF PtrInv, ReactorPtr, CellInv, HeapType, PtrTo
  <1>3. /\ next' \in [Evt -> PtrTo(Evt)] /\ what' \in [Evt -> Kinds]
        /\ alloc' \in SUBSET Evt /\ events' \in PtrTo(Evt)
        /\ cevents' \in PtrTo(Evt) /\ ncevents' \in Int
    BY <1>0, <1>1 DEF HeapType, PtrTo, PostLink
  <1>4. \A x \in Evt : /\ what'[x] = IF x = c THEN k ELSE what[x]
                       /\ next'[x] = IF x = c THEN events ELSE next[x]
    BY <1>0, <1>1 DEF HeapType, PtrTo, PostLink
  <1>5. \A x \in Evt : Foreign(x)' <=> Foreign(x)
    BY <1>2, <1>4 DEF Foreign
  <1>6. \A p \in PtrTo(Evt) : ReactorPtr(p) => p = NULL \/ ~(what'[p] = "post" /\ p \notin installed')
    BY <1>5 DEF ReactorPtr, Foreign, PtrTo
  <1>7. \A x \in Evt : ~Foreign(x) => ReactorPtr(next[x]) /\ next[x] \in PtrTo(Evt)
    BY <1>0 DEF PtrInv, HeapType, WalkPCs
  <1>8. \A x \in Evt : ~Foreign(x) => ReactorPtr(next[x])'
    BY <1>0, <1>4, <1>6, <1>7 DEF ReactorPtr, Foreign, PtrInv, HeapType
  <1>9. ReactorPtr(events)' /\ ReactorPtr(cevents)'
    BY <1>0, <1>1, <1>2, <1>5, <1>6, <1>7 DEF ReactorPtr, Foreign, PtrInv, HeapType, PtrTo
  <1>10. \A x \in Evt : Foreign(x) => x \in alloc'
    BY <1>0, <1>1 DEF CellInv
  <1> QED BY <1>2, <1>3, <1>4, <1>5, <1>6, <1>8, <1>9, <1>10

(* The steps that create and post an event.                                  *)
LEMMA CreateSteps ==
    ASSUME QueueInv, UserCallback \/ TimeGather \/ Gather \/ GatherFnc
    PROVE  QueueInv'
  <1> USE CellAssumption, BoundAssumption DEF CellAssumption, BoundAssumption
  <1> USE DEF RGoto, heapVars, listVars, queueVars, flagVars, localVars, histVars
  <1>0. /\ TypeOK /\ FlagType /\ ControlType /\ HeapType /\ QueueType
        /\ ControlInv /\ CellInv /\ PtrInv /\ SeqInv /\ LockInv
        /\ PushIsFresh /\ QueueIsList /\ PostedIsAccounted
    BY DEF QueueInv, TypeOK
  <1>1. CASE UserCallback
    <2>1. FlagType'
      BY <1>0, <1>1, Zenon DEF UserCallback, FlagType
    <2>2. ControlType' /\ QueueType' /\ ControlInv'
      <3>1. calls' \in [Post -> 0..2]
        <4>1. CASE what[evt] = "post"
          <5>1. evt \in Post
            BY <1>0, <1>1, <4>1 DEF UserCallback, CellInv, HeapType, PtrTo
          <5>2. (IF calls[evt] < 2 THEN calls[evt] + 1 ELSE calls[evt]) \in 0..2
            BY <1>0, <5>1 DEF ControlType
          <5> QED BY <1>0, <1>1, <4>1, <5>1, <5>2 DEF UserCallback, ControlType
        <4>2. CASE what[evt] # "post"
          BY <1>0, <1>1, <4>2 DEF UserCallback, ControlType
        <4> QED BY <4>1, <4>2
      <3>2. nfn' \in 0..MaxFn
        BY <1>0, <1>1 DEF UserCallback, ControlType
      <3> QED
        BY <1>0, <1>1, <3>1, <3>2 DEF UserCallback, ControlType, QueueType, ControlInv,
           RPCs, InstallPCs, DispatchPCs, GatherPCs, FreePCs
    <2>3. /\ rpc \notin WalkPCs /\ rpc' \notin WalkPCs /\ (mode' # "free" => mode # "free")
          /\ UNCHANGED <<qevt, qevtlk, ppc, qseq, tseq, installed, raced>>
          /\ rpc' = "adv" => evt' # NULL
      BY <1>0, <1>1 DEF UserCallback, ControlInv, WalkPCs, DispatchPCs, FreePCs
    <2>4. CASE UNCHANGED <<heapVars, listVars>>
      <3>1. HeapType'
        BY <1>0, <1>1, <2>4 DEF UserCallback, HeapType
      <3>2. ReactorPtr(events') /\ ReactorPtr(cevents') /\ ReactorPtr(del') /\ ReactorPtr(evt')
        BY <1>0, <1>1, <2>3, <2>4 DEF UserCallback, PtrInv, ReactorPtr, WalkPCs
      <3> QED BY <1>1, <2>1, <2>2, <2>3, <2>4, <3>1, <3>2, QuietFrame DEF TypeOK
    <2>5. CASE CreateAndPost("fn")
      <3>1. "fn" \in Kinds \ {"post"}
        BY DEF Kinds
      <3>2. /\ next' \in [Evt -> PtrTo(Evt)] /\ what' \in [Evt -> Kinds]
            /\ alloc' \in SUBSET Evt /\ events' \in PtrTo(Evt)
            /\ cevents' \in PtrTo(Evt) /\ ncevents' \in Int
            /\ \A c \in Evt : /\ Foreign(c) => next'[c] = next[c] /\ what'[c] = what[c] /\ c \in alloc'
                              /\ ~Foreign(c) => ~Foreign(c)' /\ ReactorPtr(next[c])'
                              /\ what'[c] = "post" => what[c] = "post"
            /\ ReactorPtr(events)' /\ ReactorPtr(cevents)'
            /\ \A p \in PtrTo(Evt) : ReactorPtr(p) =>
                   p = NULL \/ ~(what'[p] = "post" /\ p \notin installed')
        BY <2>3, <2>5, <3>1, CreateFrame
      <3>3. HeapType'
        BY <1>0, <1>1, <3>2 DEF UserCallback, HeapType
      <3>4. ReactorPtr(del)' /\ ReactorPtr(evt)'
        BY <1>0, <1>1, <2>3, <3>2 DEF UserCallback, PtrInv, HeapType, ReactorPtr, Foreign
      <3>5. TypeOK'
        BY <2>1, <2>2, <3>3 DEF TypeOK
      <3> QED BY <2>2, <2>3, <3>2, <3>4, <3>5, Frame
    <2> QED BY <1>1, <2>4, <2>5 DEF UserCallback
  <1>2. CASE TimeGather
    <2>1. FlagType'
      BY <1>0, <1>2, Zenon DEF TimeGather, FlagType
    <2>2. ControlType' /\ QueueType' /\ ControlInv'
      BY <1>0, <1>2 DEF TimeGather, ControlType, QueueType, ControlInv,
         RPCs, InstallPCs, DispatchPCs, GatherPCs, FreePCs
    <2>3. /\ rpc \notin WalkPCs /\ rpc' \notin WalkPCs /\ (mode' # "free" => mode # "free")
          /\ UNCHANGED <<qevt, qevtlk, ppc, qseq, tseq, installed, raced>>
          /\ rpc' = "adv" => evt' # NULL
      BY <1>0, <1>2 DEF TimeGather, ControlInv, WalkPCs, DispatchPCs, FreePCs
    <2>4. CASE UNCHANGED <<heapVars, listVars>>
      <3>1. HeapType'
        BY <1>0, <1>2, <2>4 DEF TimeGather, HeapType
      <3>2. ReactorPtr(events') /\ ReactorPtr(cevents') /\ ReactorPtr(del') /\ ReactorPtr(evt')
        BY <1>0, <1>2, <2>3, <2>4 DEF TimeGather, PtrInv, ReactorPtr, WalkPCs
      <3> QED BY <1>2, <2>1, <2>2, <2>3, <2>4, <3>1, <3>2, QuietFrame DEF TypeOK
    <2>5. CASE CreateAndPost("timer")
      <3>1. "timer" \in Kinds \ {"post"}
        BY DEF Kinds
      <3>2. /\ next' \in [Evt -> PtrTo(Evt)] /\ what' \in [Evt -> Kinds]
            /\ alloc' \in SUBSET Evt /\ events' \in PtrTo(Evt)
            /\ cevents' \in PtrTo(Evt) /\ ncevents' \in Int
            /\ \A c \in Evt : /\ Foreign(c) => next'[c] = next[c] /\ what'[c] = what[c] /\ c \in alloc'
                              /\ ~Foreign(c) => ~Foreign(c)' /\ ReactorPtr(next[c])'
                              /\ what'[c] = "post" => what[c] = "post"
            /\ ReactorPtr(events)' /\ ReactorPtr(cevents)'
            /\ \A p \in PtrTo(Evt) : ReactorPtr(p) =>
                   p = NULL \/ ~(what'[p] = "post" /\ p \notin installed')
        BY <2>3, <2>5, <3>1, CreateFrame
      <3>3. HeapType'
        BY <1>0, <1>2, <3>2 DEF TimeGather, HeapType
      <3>4. ReactorPtr(del)' /\ ReactorPtr(evt)'
        BY <1>0, <1>2, <2>3, <3>2 DEF TimeGather, PtrInv, HeapType, ReactorPtr, Foreign
      <3>5. TypeOK'
        BY <2>1, <2>2, <3>3 DEF TypeOK
      <3> QED BY <2>2, <2>3, <3>2, <3>4, <3>5, Frame
    <2> QED BY <1>2, <2>4, <2>5 DEF TimeGather
  <1>3. CASE Gather
    <2>1. FlagType'
      BY <1>0, <1>3, Zenon DEF Gather, FlagType
    <2>2. ControlType' /\ QueueType' /\ ControlInv'
      BY <1>0, <1>3 DEF Gather, ControlType, QueueType, ControlInv,
         RPCs, InstallPCs, DispatchPCs, GatherPCs, FreePCs
    <2>3. /\ rpc \notin WalkPCs /\ rpc' \notin WalkPCs /\ (mode' # "free" => mode # "free")
          /\ UNCHANGED <<qevt, qevtlk, ppc, qseq, tseq, installed, raced>>
          /\ rpc' = "adv" => evt' # NULL
      BY <1>0, <1>3 DEF Gather, ControlInv, WalkPCs, DispatchPCs, FreePCs
    <2>4. CASE UNCHANGED <<heapVars, listVars>>
      <3>1. HeapType'
        BY <1>0, <1>3, <2>4 DEF Gather, HeapType
      <3>2. ReactorPtr(events') /\ ReactorPtr(cevents') /\ ReactorPtr(del') /\ ReactorPtr(evt')
        BY <1>0, <1>3, <2>3, <2>4 DEF Gather, PtrInv, ReactorPtr, WalkPCs
      <3> QED BY <1>3, <2>1, <2>2, <2>3, <2>4, <3>1, <3>2, QuietFrame DEF TypeOK
    <2>5. CASE CreateAndPost("wake")
      <3>1. "wake" \in Kinds \ {"post"}
        BY DEF Kinds
      <3>2. /\ next' \in [Evt -> PtrTo(Evt)] /\ what' \in [Evt -> Kinds]
            /\ alloc' \in SUBSET Evt /\ events' \in PtrTo(Evt)
            /\ cevents' \in PtrTo(Evt) /\ ncevents' \in Int
            /\ \A c \in Evt : /\ Foreign(c) => next'[c] = next[c] /\ what'[c] = what[c] /\ c \in alloc'
                              /\ ~Foreign(c) => ~Foreign(c)' /\ ReactorPtr(next[c])'
                              /\ what'[c] = "post" => what[c] = "post"
            /\ ReactorPtr(events)' /\ ReactorPtr(cevents)'
            /\ \A p \in PtrTo(Evt) : ReactorPtr(p) =>
                   p = NULL \/ ~(what'[p] = "post" /\ p \notin installed')
        BY <2>3, <2>5, <3>1, CreateFrame
      <3>3. HeapType'
        BY <1>0, <1>3, <3>2 DEF Gather, HeapType
      <3>4. ReactorPtr(del)' /\ ReactorPtr(evt)'
        BY <1>0, <1>3, <2>3, <3>2 DEF Gather, PtrInv, HeapType, ReactorPtr, Foreign
      <3>5. TypeOK'
        BY <2>1, <2>2, <3>3 DEF TypeOK
      <3> QED BY <2>2, <2>3, <3>2, <3>4, <3>5, Frame
    <2> QED BY <1>3, <2>4, <2>5 DEF Gather
  <1>4. CASE GatherFnc
    <2>1. FlagType'
      BY <1>0, <1>4, Zenon DEF GatherFnc, FlagType
    <2>2. ControlType' /\ QueueType' /\ ControlInv'
      BY <1>0, <1>4 DEF GatherFnc, ControlType, QueueType, ControlInv,
         RPCs, InstallPCs, DispatchPCs, GatherPCs, FreePCs
    <2>3. /\ rpc \notin WalkPCs /\ rpc' \notin WalkPCs /\ (mode' # "free" => mode # "free")
          /\ UNCHANGED <<qevt, qevtlk, ppc, qseq, tseq, installed, raced>>
          /\ rpc' = "adv" => evt' # NULL
      BY <1>0, <1>4 DEF GatherFnc, ControlInv, WalkPCs, DispatchPCs, FreePCs
    <2>4. CASE UNCHANGED <<heapVars, listVars>>
      <3>1. HeapType'
        BY <1>0, <1>4, <2>4 DEF GatherFnc, HeapType
      <3>2. ReactorPtr(events') /\ ReactorPtr(cevents') /\ ReactorPtr(del') /\ ReactorPtr(evt')
        BY <1>0, <1>4, <2>3, <2>4 DEF GatherFnc, PtrInv, ReactorPtr, WalkPCs
      <3> QED BY <1>4, <2>1, <2>2, <2>3, <2>4, <3>1, <3>2, QuietFrame DEF TypeOK
    <2>5. CASE CreateAndPost("fn")
      <3>1. "fn" \in Kinds \ {"post"}
        BY DEF Kinds
      <3>2. /\ next' \in [Evt -> PtrTo(Evt)] /\ what' \in [Evt -> Kinds]
            /\ alloc' \in SUBSET Evt /\ events' \in PtrTo(Evt)
            /\ cevents' \in PtrTo(Evt) /\ ncevents' \in Int
            /\ \A c \in Evt : /\ Foreign(c) => next'[c] = next[c] /\ what'[c] = what[c] /\ c \in alloc'
                              /\ ~Foreign(c) => ~Foreign(c)' /\ ReactorPtr(next[c])'
                              /\ what'[c] = "post" => what[c] = "post"
            /\ ReactorPtr(events)' /\ ReactorPtr(cevents)'
            /\ \A p \in PtrTo(Evt) : ReactorPtr(p) =>
                   p = NULL \/ ~(what'[p] = "post" /\ p \notin installed')
        BY <2>3, <2>5, <3>1, CreateFrame
      <3>3. HeapType'
        BY <1>0, <1>4, <3>2 DEF GatherFnc, HeapType
      <3>4. ReactorPtr(del)' /\ ReactorPtr(evt)'
        BY <1>0, <1>4, <2>3, <3>2 DEF GatherFnc, PtrInv, HeapType, ReactorPtr, Foreign
      <3>5. TypeOK'
        BY <2>1, <2>2, <3>3 DEF TypeOK
      <3> QED BY <2>2, <2>3, <3>2, <3>4, <3>5, Frame
    <2> QED BY <1>4, <2>4, <2>5 DEF GatherFnc
  <1> QED BY <1>1, <1>2, <1>3, <1>4

(* Freeing a cell of the reactor leaves the queue alone.                     *)
LEMMA FreeSteps ==
    ASSUME QueueInv, FreeListOne \/ FreeEvent
    PROVE  QueueInv'
  <1> USE CellAssumption, BoundAssumption DEF CellAssumption, BoundAssumption
  <1> USE DEF RGoto, heapVars, listVars, queueVars, flagVars, localVars, histVars
  <1>0. /\ TypeOK /\ FlagType /\ ControlType /\ HeapType /\ QueueType
        /\ ControlInv /\ CellInv /\ PtrInv /\ SeqInv /\ LockInv
        /\ PushIsFresh /\ QueueIsList /\ PostedIsAccounted
    BY DEF QueueInv, TypeOK
  <1>1. CASE FreeListOne
    <2>1. FlagType'
      BY <1>0, <1>1, Zenon DEF FreeListOne, FlagType
    <2>2. ControlType' /\ QueueType' /\ ControlInv'
      BY <1>0, <1>1 DEF FreeListOne, ControlType, QueueType, ControlInv,
         RPCs, InstallPCs, DispatchPCs, GatherPCs, FreePCs
    <2>3. /\ rpc \notin WalkPCs /\ rpc' \notin WalkPCs /\ (mode' # "free" => mode # "free")
          /\ UNCHANGED <<qevt, qevtlk, ppc, qseq, tseq, installed, raced>>
          /\ rpc' = "adv" => evt' # NULL
      BY <1>0, <1>1 DEF FreeListOne, ControlInv, WalkPCs, DispatchPCs, FreePCs
    <2>4. del \in Evt /\ ~Foreign(del)
      BY <1>0, <1>1, <2>3 DEF FreeListOne, PtrInv, ReactorPtr, HeapType, PtrTo
    <2>5. /\ HeapType'
          /\ \A x \in Evt : /\ what'[x] = IF x = del THEN "none" ELSE what[x]
                            /\ next'[x] = next[x] \/ (x = del /\ next'[x] = cevents)
                            /\ x \in alloc /\ x # del => x \in alloc'
      BY <1>0, <1>1, <2>4 DEF FreeListOne, gwrl_evt_free, HeapType, PtrTo, Kinds
    <2>6. \A x \in Evt : Foreign(x)' <=> Foreign(x)
      BY <2>3, <2>4, <2>5 DEF Foreign
    <2>7. \A q \in PtrTo(Evt) : ReactorPtr(q) => q = NULL \/ ~(what'[q] = "post" /\ q \notin installed')
      BY <2>6 DEF ReactorPtr, Foreign, PtrTo
    <2>8. \A x \in Evt : ~Foreign(x) => ReactorPtr(next[x]) /\ next[x] \in PtrTo(Evt)
      BY <1>0, <2>3 DEF PtrInv, HeapType, WalkPCs
    <2>9. \A x \in Evt : /\ Foreign(x) => next'[x] = next[x] /\ what'[x] = what[x] /\ x \in alloc'
                         /\ ~Foreign(x) => ~Foreign(x)' /\ ReactorPtr(next[x])'
                         /\ what'[x] = "post" => what[x] = "post"
      <3> SUFFICES ASSUME NEW x \in Evt
                   PROVE  /\ Foreign(x) => next'[x] = next[x] /\ what'[x] = what[x] /\ x \in alloc'
                          /\ ~Foreign(x) => ~Foreign(x)' /\ ReactorPtr(next[x])'
                          /\ what'[x] = "post" => what[x] = "post"
        OBVIOUS
      <3>1. Foreign(x) => next'[x] = next[x] /\ what'[x] = what[x] /\ x \in alloc'
        BY <1>0, <2>4, <2>5 DEF CellInv
      <3>2. ~Foreign(x) => ReactorPtr(next[x])'
        BY <1>0, <2>5, <2>7, <2>8 DEF PtrInv, ReactorPtr, Foreign, HeapType
      <3> QED BY <2>5, <2>6, <3>1, <3>2
    <2>10. ReactorPtr(events)' /\ ReactorPtr(cevents)' /\ ReactorPtr(del)' /\ ReactorPtr(evt)'
      BY <1>0, <1>1, <2>3, <2>4, <2>7, <2>8
      DEF FreeListOne, gwrl_evt_free, PtrInv, ReactorPtr, Foreign, HeapType, PtrTo
    <2>11. TypeOK'
      BY <2>1, <2>2, <2>5 DEF TypeOK
    <2> QED BY <2>2, <2>3, <2>9, <2>10, <2>11, Frame
  <1>2. CASE FreeEvent
    <2>1. FlagType'
      BY <1>0, <1>2, Zenon DEF FreeEvent, FlagType
    <2>2. ControlType' /\ QueueType' /\ ControlInv'
      BY <1>0, <1>2 DEF FreeEvent, ControlType, QueueType, ControlInv,
         RPCs, InstallPCs, DispatchPCs, GatherPCs, FreePCs
    <2>3. /\ rpc \notin WalkPCs /\ rpc' \notin WalkPCs /\ (mode' # "free" => mode # "free")
          /\ UNCHANGED <<qevt, qevtlk, ppc, qseq, tseq, installed, raced>>
          /\ rpc' = "adv" => evt' # NULL
      BY <1>0, <1>2 DEF FreeEvent, ControlInv, WalkPCs, DispatchPCs, FreePCs
    <2>4. evt \in Evt /\ ~Foreign(evt)
      BY <1>0, <1>2, <2>3 DEF FreeEvent, PtrInv, ReactorPtr, HeapType, PtrTo
    <2>5. /\ HeapType'
          /\ \A x \in Evt : /\ what'[x] = IF x = evt THEN "none" ELSE what[x]
                            /\ next'[x] = next[x] \/ (x = evt /\ next'[x] = cevents)
                            /\ x \in alloc /\ x # evt => x \in alloc'
      BY <1>0, <1>2, <2>4 DEF FreeEvent, FreeCell, HeapType, PtrTo, Kinds
    <2>6. \A x \in Evt : Foreign(x)' <=> Foreign(x)
      BY <2>3, <2>4, <2>5 DEF Foreign
    <2>7. \A q \in PtrTo(Evt) : ReactorPtr(q) => q = NULL \/ ~(what'[q] = "post" /\ q \notin installed')
      BY <2>6 DEF ReactorPtr, Foreign, PtrTo
    <2>8. \A x \in Evt : ~Foreign(x) => ReactorPtr(next[x]) /\ next[x] \in PtrTo(Evt)
      BY <1>0, <2>3 DEF PtrInv, HeapType, WalkPCs
    <2>9. \A x \in Evt : /\ Foreign(x) => next'[x] = next[x] /\ what'[x] = what[x] /\ x \in alloc'
                         /\ ~Foreign(x) => ~Foreign(x)' /\ ReactorPtr(next[x])'
                         /\ what'[x] = "post" => what[x] = "post"
      <3> SUFFICES ASSUME NEW x \in Evt
                   PROVE  /\ Foreign(x) => next'[x] = next[x] /\ what'[x] = what[x] /\ x \in alloc'
                          /\ ~Foreign(x) => ~Foreign(x)' /\ ReactorPtr(next[x])'
                          /\ what'[x] = "post" => what[x] = "post"
        OBVIOUS
      <3>1. Foreign(x) => next'[x] = next[x] /\ what'[x] = what[x] /\ x \in alloc'
        BY <1>0, <2>4, <2>5 DEF CellInv
      <3>2. ~Foreign(x) => ReactorPtr(next[x])'
        BY <1>0, <2>5, <2>7, <2>8 DEF PtrInv, ReactorPtr, Foreign, HeapType
      <3> QED BY <2>5, <2>6, <3>1, <3>2
    <2>10. ReactorPtr(events)' /\ ReactorPtr(cevents)' /\ ReactorPtr(del)' /\ ReactorPtr(evt)'
      BY <1>0, <1>2, <2>3, <2>4, <2>7, <2>8
      DEF FreeEvent, FreeCell, PtrInv, ReactorPtr, Foreign, HeapType, PtrTo
    <2>11. TypeOK'
      BY <2>1, <2>2, <2>5 DEF TypeOK
    <2> QED BY <2>2, <2>3, <2>9, <2>10, <2>11, Frame
  <1> QED BY <1>1, <1>2

(* The steps of a poster that only move it on, or take the lock.             *)
LEMMA PosterSteps ==
    ASSUME QueueInv, NEW e \in Post, PStart(e) \/ PLock(e) \/ PTest(e) \/ PWrite(e)
    PROVE  QueueInv'
  <1> USE CellAssumption, BoundAssumption DEF CellAssumption, BoundAssumption
  <1> USE DEF RGoto, PGoto, heapVars, listVars, queueVars, flagVars, localVars, histVars
  <1>0. /\ TypeOK /\ FlagType /\ ControlType /\ HeapType /\ QueueType
        /\ ControlInv /\ CellInv /\ PtrInv /\ SeqInv /\ LockInv
        /\ PushIsFresh /\ QueueIsList /\ PostedIsAccounted
    BY DEF QueueInv, TypeOK
  <1> USE DEF PStart, PLock, PTest, PWrite
  <1>e. \A x \in Post : x \in Evt
    BY DEF Evt
  <1>1. FlagType'
    <2>1. CASE PStart(e) \/ PLock(e) \/ PTest(e)
      BY <1>0, <2>1, Zenon DEF FlagType
    <2>2. CASE PWrite(e)
      BY <1>0, <2>2, Zenon DEF FlagType
    <2> QED BY <2>1, <2>2
  <1>2. /\ UNCHANGED <<heapVars, listVars, qevt, rpc, mode, evt, del, repost, qseq, tseq,
                      installed, raced, calls, nfn>>
        /\ ppc' \in [Post -> PPCs]
        /\ \A x \in Post : /\ Pushed(x)' <=> Pushed(x)
                           /\ ppc'[x] = "push" <=> ppc[x] = "push"
        /\ unwoken' \in SUBSET Post
    BY <1>0 DEF ControlType, QueueType, PPCs, Pushed
  <1>3. ControlType' /\ HeapType' /\ ControlInv'
    BY <1>0, <1>2 DEF ControlType, HeapType, ControlInv
  <1>4. LockInv' /\ qevtlk' \in PtrTo(Post) \cup {RL}
    <2>1. CASE PLock(e)
      BY <1>0, <1>e, <2>1 DEF LockInv, ControlType, QueueType, PtrTo
    <2>2. CASE PStart(e) \/ PTest(e) \/ PWrite(e)
      BY <1>0, <2>2 DEF LockInv, ControlType, QueueType
    <2> QED BY <2>1, <2>2
  <1>5. TypeOK'
    BY <1>0, <1>1, <1>2, <1>3, <1>4 DEF TypeOK, QueueType
  <1>6. \A c \in Evt : Foreign(c)' <=> Foreign(c)
    BY <1>2 DEF Foreign
  <1>7. CellInv' /\ PtrInv'
    BY <1>0, <1>2, <1>6 DEF CellInv, PtrInv, ReactorPtr, Foreign
  <1>8. SeqInv'
    BY <1>0, <1>e, <1>2, <1>6 DEF SeqInv, SeqOwned, QueueType, Elems
  <1>9. PushIsFresh' /\ QueueIsList' /\ PostedIsAccounted'
    BY <1>0, <1>2 DEF PushIsFresh, QueueIsList, IsList, PostedIsAccounted, Elems
  <1> QED BY <1>3, <1>4, <1>5, <1>7, <1>8, <1>9 DEF QueueInv

(* evt->next = head: the event is not linked anywhere yet.                   *)
LEMMA LinkStep ==
    ASSUME QueueInv, NEW e \in Post, PLink(e)
    PROVE  QueueInv'
  <1> USE CellAssumption, BoundAssumption DEF CellAssumption, BoundAssumption
  <1> USE DEF RGoto, PGoto, heapVars, listVars, queueVars, flagVars, localVars, histVars
  <1>0. /\ TypeOK /\ FlagType /\ ControlType /\ HeapType /\ QueueType
        /\ ControlInv /\ CellInv /\ PtrInv /\ SeqInv /\ LockInv
        /\ PushIsFresh /\ QueueIsList /\ PostedIsAccounted
    BY DEF QueueInv, TypeOK
  <1> USE DEF PLink
  <1>e. \A x \in Post : x \in Evt
    BY DEF Evt
  <1>1. FlagType'
    BY <1>0, Zenon DEF FlagType
  <1>2. /\ ppc' \in [Post -> PPCs]
        /\ \A x \in Post : /\ Pushed(x)' <=> Pushed(x)
                           /\ x # e => ppc'[x] = ppc[x]
    BY <1>0 DEF ControlType, PPCs, Pushed
  <1>3. /\ next' \in [Evt -> PtrTo(Evt)]
        /\ \A x \in Evt : next'[x] = IF x = e THEN qevt ELSE next[x]
    BY <1>0, <1>e DEF HeapType, QueueType, PtrTo
  <1>4. TypeOK' /\ ControlInv'
    BY <1>0, <1>1, <1>2, <1>3 DEF TypeOK, ControlType, HeapType, QueueType, ControlInv
  <1>5. ~Pushed(e) /\ Foreign(e) /\ qevtlk = e
    BY <1>0 DEF Pushed, CellInv, LockInv
  <1>6. \A c \in Evt : Foreign(c)' <=> Foreign(c)
    BY DEF Foreign
  <1>7. LockInv' /\ PushIsFresh'
    <2>1. LockInv'
      BY <1>0, <1>2, <1>5 DEF LockInv, ControlType
    <2>2. ASSUME NEW x \in Post, ppc'[x] = "push"
          PROVE  next'[x] = qevt
      <3>1. CASE x = e
        BY <1>e, <1>3, <3>1
      <3>2. CASE x # e
        BY <1>0, <1>2, <1>5, <2>2, <3>2 DEF LockInv
      <3> QED BY <3>1, <3>2
    <2> QED BY <2>1, <2>2 DEF PushIsFresh
  <1>8. CellInv' /\ PtrInv'
    BY <1>0, <1>2, <1>3, <1>5, <1>6 DEF CellInv, PtrInv, ReactorPtr, Foreign
  <1>9. SeqInv'
    <2>1. /\ \A i \in 1..Len(qseq) : qseq[i] \in Post
          /\ \A i \in 1..Len(tseq) : tseq[i] \in Post
      BY <1>0 DEF QueueType
    <2>2. SeqOwned(qseq)' /\ SeqOwned(tseq)'
      BY <1>0, <1>e, <1>2, <1>6, <2>1 DEF SeqInv, SeqOwned
    <2> QED BY <1>0, <2>2 DEF SeqInv, Elems
  <1>10. QueueIsList'
    <2>1. /\ \A i \in 1..Len(qseq) : qseq[i] # e /\ qseq[i] \in Evt
          /\ \A i \in 1..Len(tseq) : tseq[i] # e /\ tseq[i] \in Evt
      BY <1>0, <1>e, <1>5 DEF SeqInv, SeqOwned, QueueType
    <2> QED BY <1>0, <1>3, <2>1 DEF QueueIsList, IsList
  <1>11. PostedIsAccounted'
    BY <1>0, <1>2 DEF PostedIsAccounted, Elems
  <1> QED BY <1>4, <1>7, <1>8, <1>9, <1>10, <1>11 DEF QueueInv

(* rl->_qevt = evt under the lock: the queue grows by exactly this event.    *)
LEMMA PushStep ==
    ASSUME QueueInv, NEW e \in Post, PPush(e)
    PROVE  QueueInv'
  <1> USE CellAssumption, BoundAssumption DEF CellAssumption, BoundAssumption
  <1> USE DEF RGoto, PGoto, heapVars, listVars, queueVars, flagVars, localVars, histVars
  <1>0. /\ TypeOK /\ FlagType /\ ControlType /\ HeapType /\ QueueType
        /\ ControlInv /\ CellInv /\ PtrInv /\ SeqInv /\ LockInv
        /\ PushIsFresh /\ QueueIsList /\ PostedIsAccounted
    BY DEF QueueInv, TypeOK
  <1> USE DEF PPush
  <1>e. \A x \in Post : x \in Evt
    BY DEF Evt
  <1>1. FlagType'
    BY <1>0, Zenon DEF FlagType
  <1>2. /\ ppc' \in [Post -> PPCs]
        /\ ~Pushed(e) /\ ppc'[e] = "test"
        /\ \A x \in Post : /\ Pushed(x)' <=> Pushed(x) \/ x = e
                           /\ x # e => ppc'[x] = ppc[x]
    BY <1>0 DEF ControlType, PPCs, Pushed
  <1>3. /\ qseq' \in Seq(Post) /\ Len(qseq') = Len(qseq) + 1 /\ qseq' # <<>> /\ qseq'[1] = e
        /\ \A i \in 1..Len(qseq') : qseq'[i] = IF i = 1 THEN e ELSE qseq[i - 1]
        /\ \A i \in 1..Len(qseq) : qseq'[i + 1] = qseq[i]
    <2>1. qseq \in Seq(Post) /\ qseq' = <<e>> \o qseq
      BY <1>0 DEF QueueType
    <2> QED BY <2>1, ConsFacts
  <1>4. TypeOK' /\ ControlInv'
    BY <1>0, <1>1, <1>2, <1>3 DEF TypeOK, ControlType, HeapType, QueueType, ControlInv, PtrTo
  <1>5. Foreign(e) /\ qevtlk = e /\ next[e] = qevt /\ rpc # "clear"
    BY <1>0, <1>e, <1>2 DEF CellInv, LockInv, PushIsFresh
  <1>6. \A c \in Evt : Foreign(c)' <=> Foreign(c)
    BY DEF Foreign
  <1>7. LockInv' /\ PushIsFresh'
    BY <1>0, <1>e, <1>2, <1>5 DEF LockInv, PushIsFresh
  <1>8. CellInv' /\ PtrInv'
    BY <1>0, <1>2, <1>5, <1>6 DEF CellInv, PtrInv, ReactorPtr, Foreign
  <1>9. /\ \A i \in 1..Len(qseq) : qseq[i] # e /\ qseq[i] \in Post
        /\ \A i \in 1..Len(tseq) : tseq[i] # e /\ tseq[i] \in Post
    BY <1>0, <1>2 DEF SeqInv, SeqOwned, QueueType
  <1>10. Elems(qseq') = Elems(qseq) \cup {e}
    BY <1>0, ConsElems DEF QueueType, PPush
  <1>11. SeqInv'
    <2>1. SeqOwned(tseq)'
      BY <1>0, <1>e, <1>2, <1>6, <1>9 DEF SeqInv, SeqOwned
    <2>2. SeqOwned(qseq)'
      <3>1. \A i \in 1..Len(qseq') : Foreign(qseq[i])' /\ Pushed(qseq[i])'
        <4> SUFFICES ASSUME NEW i \in 1..Len(qseq') PROVE Foreign(qseq[i])' /\ Pushed(qseq[i])'
          OBVIOUS
        <4>1. CASE i = 1
          BY <1>e, <1>2, <1>3, <1>5, <1>6, <4>1
        <4>2. CASE i # 1
          <5>1. i - 1 \in 1..Len(qseq) /\ qseq'[i] = qseq[i - 1]
            BY <1>0, <1>3, <4>2 DEF QueueType
          <5>2. Foreign(qseq[i - 1]) /\ Pushed(qseq[i - 1]) /\ qseq[i - 1] \in Post
            BY <1>0, <1>9, <5>1 DEF SeqInv, SeqOwned
          <5> QED BY <1>e, <1>2, <1>6, <5>1, <5>2
        <4> QED BY <4>1, <4>2
      <3>2. \A i, j \in 1..Len(qseq') : qseq'[i] = qseq'[j] => i = j
        BY <1>0, <1>3, <1>9 DEF SeqInv, SeqOwned, QueueType
      <3> QED BY <3>1, <3>2 DEF SeqOwned
    <2>3. rpc \in {"inst", "fqevt"} => Elems(qseq') \cap Elems(tseq') = {}
      <3>1. e \notin Elems(tseq)
        BY <1>0, <1>9, ElemsFacts DEF QueueType
      <3> QED BY <1>0, <1>10, <3>1 DEF SeqInv
    <2> QED BY <1>0, <2>1, <2>2, <2>3 DEF SeqInv, Elems
  <1>12. QueueIsList'
    <2>1. qevt' = qseq'[1] /\ qseq' # <<>>
      BY <1>3
    <2>2. ASSUME NEW i \in 1..Len(qseq')
          PROVE  next[qseq'[i]] = IF i = Len(qseq') THEN NULL ELSE qseq'[i + 1]
      <3>1. CASE i = 1
        <4>1. qevt = IF qseq = <<>> THEN NULL ELSE qseq[1]
          BY <1>0 DEF QueueIsList, IsList
        <4>2. qseq = <<>> <=> Len(qseq) = 0
          BY <1>0 DEF QueueType
        <4> QED BY <1>0, <1>3, <1>5, <3>1, <4>1, <4>2 DEF QueueType
      <3>2. CASE i # 1
        <4>1. i - 1 \in 1..Len(qseq) /\ qseq'[i] = qseq[i - 1]
          BY <1>0, <1>3, <2>2, <3>2 DEF QueueType
        <4>2. next[qseq[i - 1]] = IF i - 1 = Len(qseq) THEN NULL ELSE qseq[(i - 1) + 1]
          BY <1>0, <4>1 DEF QueueIsList, IsList
        <4> QED BY <1>0, <1>3, <4>1, <4>2 DEF QueueType
      <3> QED BY <3>1, <3>2
    <2> QED BY <1>0, <2>1, <2>2 DEF QueueIsList, IsList
  <1>13. PostedIsAccounted'
    <2>1. Elems(qseq)' = Elems(qseq') /\ Elems(tseq)' = Elems(tseq)
      BY DEF Elems
    <2> QED BY <1>0, <1>2, <1>10, <2>1 DEF PostedIsAccounted
  <1> QED BY <1>4, <1>7, <1>8, <1>11, <1>12, <1>13 DEF QueueInv

(* Reading the head of the queue, the lock, and clearing the queue.          *)
LEMMA TakeSteps ==
    ASSUME QueueInv, TakeHead \/ TakeLock \/ ClearQueue \/ FreeQueue
    PROVE  QueueInv'
  <1> USE CellAssumption, BoundAssumption DEF CellAssumption, BoundAssumption
  <1> USE DEF RGoto, heapVars, listVars, queueVars, flagVars, localVars, histVars
  <1>0. /\ TypeOK /\ FlagType /\ ControlType /\ HeapType /\ QueueType
        /\ ControlInv /\ CellInv /\ PtrInv /\ SeqInv /\ LockInv
        /\ PushIsFresh /\ QueueIsList /\ PostedIsAccounted
    BY DEF QueueInv, TypeOK
  <1>e. \A x \in Post : x \in Evt
    BY DEF Evt
  <1> USE DEF TakeHead, TakeLock, ClearQueue, FreeQueue
  <1>1. FlagType'
    BY <1>0, Zenon DEF FlagType
  <1>2. ControlType' /\ ControlInv'
    BY <1>0 DEF ControlType, ControlInv, RPCs, InstallPCs, DispatchPCs, GatherPCs, FreePCs
  <1>3. /\ UNCHANGED <<next, what, alloc, ppc, installed, events, cevents, del, mode>>
        /\ evt' = evt \/ evt' = qevt
    OBVIOUS
  <1>4. HeapType' /\ QueueType'
    <2>1. HeapType'
      BY <1>0, <1>e, <1>3 DEF HeapType, QueueType, PtrTo
    <2>2. Elems(qseq) \in SUBSET Post
      BY <1>0, ElemsFacts DEF QueueType
    <2>3. qevt' \in PtrTo(Post) /\ qevtlk' \in PtrTo(Post) \cup {RL}
      BY <1>0 DEF QueueType, PtrTo
    <2>4. qseq' \in Seq(Post) /\ tseq' \in Seq(Post)
      <3>1. (qseq' = qseq \/ qseq' = <<>>) /\ (tseq' = tseq \/ tseq' = qseq)
        OBVIOUS
      <3>2. <<>> \in Seq(Post)
        OBVIOUS
      <3> HIDE DEF TakeHead, TakeLock, ClearQueue, FreeQueue
      <3> QED BY <1>0, <3>1, <3>2 DEF QueueType
    <2>5. installed' \in SUBSET Post /\ unwoken' \in SUBSET Post
      BY <1>0 DEF QueueType
    <2>6. raced' = raced \/ raced' = raced \cup (Elems(qseq) \ Elems(tseq))
      OBVIOUS
    <2>7. raced' \in SUBSET Post
      BY <1>0, <2>2, <2>6 DEF QueueType
    <2> QED BY <2>1, <2>3, <2>4, <2>5, <2>7 DEF QueueType
  <1>5. \A c \in Evt : Foreign(c)' <=> Foreign(c)
    BY <1>3 DEF Foreign
  <1>6. \A x \in Post : Pushed(x)' <=> Pushed(x)
    BY <1>3 DEF Pushed
  <1>7. CellInv'
    BY <1>0, <1>e, <1>3, <1>5, <1>6 DEF CellInv
  <1>8. PtrInv'
    BY <1>0, <1>3, <1>5 DEF PtrInv, ReactorPtr, Foreign, WalkPCs
  <1>9. LockInv' /\ PushIsFresh'
    <2>1. CASE TakeHead
      BY <1>0, <1>e, <2>1 DEF LockInv, PushIsFresh, ControlType
    <2>4. CASE FreeQueue
      <3>1. \A x \in Post : ppc[x] # "push" /\ ppc[x] # "link"
        BY <1>0, <1>e, <2>4 DEF LockInv
      <3> QED BY <1>0, <1>e, <2>4, <3>1 DEF LockInv, PushIsFresh
    <2>2. CASE TakeLock
      BY <1>0, <1>e, <2>2 DEF LockInv, PushIsFresh, ControlType
    <2>3. CASE ClearQueue
      BY <1>0, <1>e, <2>3 DEF LockInv, PushIsFresh, ControlType
    <2> QED BY <2>1, <2>2, <2>3, <2>4
  <1>10. SeqInv' /\ QueueIsList'
    <2>1. SeqOwned(qseq) /\ SeqOwned(tseq)
      BY <1>0 DEF SeqInv
    <2>2. /\ qseq' = qseq \/ qseq' = <<>>
          /\ tseq' = tseq \/ tseq' = qseq
      OBVIOUS
    <2>3. SeqOwned(qseq)' /\ SeqOwned(tseq)'
      BY <1>3, <2>1, <2>2 DEF SeqOwned, Foreign, Pushed
    <2>4. rpc' \in WalkPCs
      BY DEF WalkPCs
    <2>5. rpc' \in {"inst", "fqevt"} => Elems(qseq)' \cap Elems(tseq)' = {}
      BY DEF Elems
    <2>6. SeqInv'
      BY <2>3, <2>4, <2>5 DEF SeqInv, Elems
    <2>7. QueueIsList'
      BY <1>0 DEF QueueIsList, IsList
    <2> QED BY <2>6, <2>7
  <1>11. PostedIsAccounted'
    <2>1. CASE TakeHead \/ TakeLock
      <3>1. tseq = <<>> \/ tseq' = tseq
        BY <1>0, <2>1 DEF SeqInv, WalkPCs
      <3> QED BY <1>0, <2>1, <3>1 DEF PostedIsAccounted, Elems, Pushed
    <2>2. CASE ClearQueue
      <3>1. raced' = raced \cup (Elems(qseq) \ Elems(tseq)) /\ Elems(tseq)' = Elems(tseq)
        BY <2>2 DEF Elems
      <3> QED BY <1>0, <1>3, <2>2, <3>1 DEF PostedIsAccounted, Pushed
    <2>3. CASE FreeQueue
      BY <1>0, <2>3 DEF PostedIsAccounted, ControlInv, FreePCs
    <2> QED BY <2>1, <2>2, <2>3
  <1> QED BY <1>1, <1>2, <1>4, <1>7, <1>8, <1>9, <1>10, <1>11 DEF QueueInv, TypeOK

(* While a walk over the queued events is not finished, the local evt is the *)
(* first event still to walk, and what follows it is the rest of them.       *)
LEMMA WalkFacts ==
    ASSUME QueueInv, rpc \in {"inst", "fqevt"}, evt # NULL
    PROVE  /\ tseq # <<>> /\ evt = tseq[1] /\ evt \in Post /\ evt \in Evt
           /\ Foreign(evt) /\ Pushed(evt)
           /\ Tail(tseq) \in Seq(Post) /\ SeqOwned(Tail(tseq))
           /\ Elems(tseq) = Elems(Tail(tseq)) \cup {evt}
           /\ evt \notin Elems(qseq) \cup Elems(Tail(tseq))
           /\ IsList(next[evt], Tail(tseq))
  <1> USE CellAssumption, BoundAssumption DEF CellAssumption, BoundAssumption
  <1> USE DEF RGoto, heapVars, listVars, queueVars, flagVars, localVars, histVars
  <1>0. /\ TypeOK /\ FlagType /\ ControlType /\ HeapType /\ QueueType
        /\ ControlInv /\ CellInv /\ PtrInv /\ SeqInv /\ LockInv
        /\ PushIsFresh /\ QueueIsList /\ PostedIsAccounted
    BY DEF QueueInv, TypeOK
  <1>e. \A x \in Post : x \in Evt
    BY DEF Evt
  <1> DEFINE t == Tail(tseq)
  <1>1. /\ IsList(evt, tseq) /\ tseq \in Seq(Post) /\ qseq \in Seq(Post)
        /\ SeqOwned(tseq) /\ Elems(qseq) \cap Elems(tseq) = {}
    BY <1>0 DEF QueueIsList, QueueType, SeqInv
  <1>2. tseq # <<>> /\ evt = tseq[1]
    BY <1>1 DEF IsList
  <1>3. /\ t \in Seq(Post) /\ Len(t) = Len(tseq) - 1 /\ Len(tseq) \in Nat \ {0}
        /\ \A i \in 1..Len(t) : t[i] = tseq[i + 1]
    BY <1>1, <1>2, TailFacts
  <1> HIDE DEF t
  <1>4. 1 \in 1..Len(tseq) /\ \A i \in 1..Len(t) : i + 1 \in 1..Len(tseq)
    BY <1>3
  <1>5. evt \in Post /\ evt \in Evt /\ Foreign(evt) /\ Pushed(evt)
    BY <1>e, <1>1, <1>2, <1>4 DEF SeqOwned
  <1>6. SeqOwned(t)
    <2>1. ASSUME NEW i \in 1..Len(t) PROVE Foreign(t[i]) /\ Pushed(t[i])
      <3>1. i + 1 \in 1..Len(tseq) /\ t[i] = tseq[i + 1]
        BY <1>3, <1>4
      <3>2. Foreign(tseq[i + 1]) /\ Pushed(tseq[i + 1])
        BY <1>1, <3>1 DEF SeqOwned
      <3> QED BY <3>1, <3>2
    <2>2. ASSUME NEW i \in 1..Len(t), NEW j \in 1..Len(t), t[i] = t[j] PROVE i = j
      <3>1. /\ i + 1 \in 1..Len(tseq) /\ j + 1 \in 1..Len(tseq)
            /\ tseq[i + 1] = tseq[j + 1]
        BY <1>3, <1>4, <2>2
      <3>2. i + 1 = j + 1
        BY <1>1, <3>1 DEF SeqOwned
      <3> QED BY <1>3, <3>2
    <2> QED BY <2>1, <2>2 DEF SeqOwned
  <1>7. /\ \A x : x \in Elems(tseq) <=> \E i \in 1..Len(tseq) : x = tseq[i]
        /\ \A x : x \in Elems(t) <=> \E i \in 1..Len(t) : x = t[i]
    BY <1>1, <1>3, ElemsFacts
  <1>8. evt \notin Elems(t)
    <2> SUFFICES ASSUME NEW i \in 1..Len(t), evt = t[i] PROVE FALSE
      BY <1>7
    <2>1. evt = tseq[i + 1]
      BY <1>3
    <2>2. tseq[1] = tseq[i + 1]
      BY <1>2, <2>1
    <2>3. 1 = i + 1
      BY <1>1, <1>4, <2>2 DEF SeqOwned
    <2>4. i \in Nat /\ i # 0
      BY <1>3
    <2> QED BY <2>3, <2>4
  <1>9. Elems(tseq) = Elems(t) \cup {evt}
    <2>1. ASSUME NEW x, x \in Elems(tseq) PROVE x \in Elems(t) \/ x = evt
      <3>1. PICK i \in 1..Len(tseq) : x = tseq[i]
        BY <1>7, <2>1
      <3>2. CASE i # 1
        <4>1. i - 1 \in 1..Len(t) /\ x = t[i - 1]
          BY <1>3, <3>1, <3>2
        <4> QED BY <1>7, <4>1
      <3> QED BY <1>2, <3>1, <3>2
    <2>2. ASSUME NEW x, x \in Elems(t) PROVE x \in Elems(tseq)
      BY <1>3, <1>4, <1>7, <2>2
    <2>3. evt \in Elems(tseq)
      BY <1>2, <1>4, <1>7
    <2> QED BY <2>1, <2>2, <2>3
  <1>10. IsList(next[evt], t)
    <2>1. next[evt] = IF t = <<>> THEN NULL ELSE t[1]
      <3>1. t = <<>> <=> Len(tseq) = 1
        BY <1>3
      <3>2. next[tseq[1]] = IF 1 = Len(tseq) THEN NULL ELSE tseq[1 + 1]
        BY <1>1, <1>4 DEF IsList
      <3> QED BY <1>2, <1>3, <3>1, <3>2
    <2>2. ASSUME NEW i \in 1..Len(t)
          PROVE  next[t[i]] = IF i = Len(t) THEN NULL ELSE t[i + 1]
      <3>1. next[tseq[i + 1]] = IF i + 1 = Len(tseq) THEN NULL ELSE tseq[(i + 1) + 1]
        BY <1>1, <1>4 DEF IsList
      <3> QED BY <1>3, <3>1
    <2> QED BY <2>1, <2>2 DEF IsList
  <1> QED BY <1>1, <1>2, <1>3, <1>5, <1>6, <1>8, <1>9, <1>10 DEF t

(* gwrl_post_evt of one queued event hands its cell to the reactor.          *)
LEMMA InstallStepInv ==
    ASSUME QueueInv, InstallOne
    PROVE  QueueInv'
  <1> USE CellAssumption, BoundAssumption DEF CellAssumption, BoundAssumption
  <1> USE DEF RGoto, heapVars, listVars, queueVars, flagVars, localVars, histVars
  <1>0. /\ TypeOK /\ FlagType /\ ControlType /\ HeapType /\ QueueType
        /\ ControlInv /\ CellInv /\ PtrInv /\ SeqInv /\ LockInv
        /\ PushIsFresh /\ QueueIsList /\ PostedIsAccounted
    BY DEF QueueInv, TypeOK
  <1>e. \A x \in Post : x \in Evt
    BY DEF Evt
  <1> USE DEF InstallOne
  <1>1. rpc = "inst" /\ rpc' = rpc /\ evt # NULL
    OBVIOUS
  <1>2. /\ tseq # <<>> /\ evt = tseq[1] /\ evt \in Post /\ evt \in Evt
        /\ Foreign(evt) /\ Pushed(evt)
        /\ Tail(tseq) \in Seq(Post) /\ SeqOwned(Tail(tseq))
        /\ Elems(tseq) = Elems(Tail(tseq)) \cup {evt}
        /\ evt \notin Elems(qseq) \cup Elems(Tail(tseq))
        /\ IsList(next[evt], Tail(tseq))
    BY <1>1, WalkFacts
  <1> DEFINE t == Tail(tseq)
  <1>3. tseq' = t /\ evt' = next[evt]
    OBVIOUS
  <1> HIDE DEF t
  <1>4. FlagType'
    <2>1. tangled' \in BOOLEAN
      BY <1>0, Zenon DEF FlagType
    <2> QED BY <1>0, <2>1, Zenon DEF FlagType
  <1>5. ControlType' /\ ControlInv'
    BY <1>0 DEF ControlType, ControlInv
  <1>6. /\ next' \in [Evt -> PtrTo(Evt)]
        /\ \A x \in Evt : x # evt => next'[x] = next[x]
        /\ next'[evt] = IF events # NULL THEN events ELSE next[evt]
    BY <1>0, <1>2 DEF HeapType, PtrTo, PostLink
  <1>7. what' = what /\ alloc' = alloc /\ installed' = installed \cup {evt}
    OBVIOUS
  <1>8. TypeOK'
    <2>1. HeapType'
      BY <1>0, <1>2, <1>6, <1>7 DEF HeapType, PtrTo
    <2>2. QueueType'
      BY <1>0, <1>2, <1>3 DEF QueueType, t
    <2> QED BY <1>4, <1>5, <2>1, <2>2 DEF TypeOK
  <1>9. /\ \A x \in Evt : Foreign(x)' <=> (x # evt /\ Foreign(x))
        /\ ~(what'[evt] = "post" /\ evt \notin installed')
    <2>1. ~(what'[evt] = "post" /\ evt \notin installed')
      BY <1>7
    <2>2. ASSUME NEW x \in Evt, x # evt PROVE Foreign(x)' <=> Foreign(x)
      <3>1. what'[x] = what[x] /\ (x \in installed' <=> x \in installed)
        BY <1>6, <1>7, <2>2
      <3> QED BY <3>1 DEF Foreign
    <2>3. ASSUME NEW x \in Evt, x = evt PROVE ~Foreign(x)'
      BY <2>1, <2>3 DEF Foreign
    <2> QED BY <2>1, <2>2, <2>3
  <1>10. \A x \in Post : Pushed(x)' <=> Pushed(x)
    BY DEF Pushed
  <1>11. LockInv' /\ CellInv' /\ PushIsFresh'
    <2>1. LockInv'
      BY <1>0, <1>1 DEF LockInv
    <2>2. CellInv'
      <3>1. \A c \in Evt : what'[c] = "post" => c \in Post
        BY <1>0, <1>2, <1>6, <1>7 DEF CellInv
      <3>2. \A c \in Evt : Foreign(c)' => c \in alloc'
        BY <1>0, <1>6, <1>7, <1>9 DEF CellInv
      <3>3. \A x \in Post : ~Pushed(x)' => Foreign(x)'
        BY <1>0, <1>e, <1>2, <1>9, <1>10 DEF CellInv
      <3> QED BY <3>1, <3>2, <3>3 DEF CellInv
    <2>3. PushIsFresh'
      BY <1>0, <1>e, <1>2, <1>6, <1>7 DEF PushIsFresh, Pushed
    <2> QED BY <2>1, <2>2, <2>3
  <1>12. \A q \in PtrTo(Evt) : ReactorPtr(q) => q = NULL \/ ~(what'[q] = "post" /\ q \notin installed')
    BY <1>6, <1>7, <1>9 DEF ReactorPtr, Foreign, PtrTo
  <1>13. PtrInv'
    <2>1. ReactorPtr(events)' /\ ReactorPtr(cevents)' /\ ReactorPtr(del)'
      BY <1>0, <1>2, <1>9, <1>12 DEF PtrInv, ReactorPtr, Foreign, HeapType
    <2>2. rpc' \in WalkPCs /\ rpc' # "adv"
      BY <1>1 DEF WalkPCs
    <2>3. ASSUME NEW c \in Evt
          PROVE  Foreign(c)' \/ ReactorPtr(next[c])' \/ next'[c] = evt'
      <3>1. CASE c = evt
        BY <1>0, <1>2, <1>3, <1>6, <1>7, <1>12, <3>1 DEF PtrInv, ReactorPtr, Foreign, HeapType
      <3>2. CASE c # evt
        <4>1. next'[c] = next[c] /\ next[c] \in PtrTo(Evt)
          BY <1>0, <1>6, <1>7, <3>2 DEF HeapType
        <4>2. Foreign(c) \/ ReactorPtr(next[c]) \/ next[c] = evt
          BY <1>0 DEF PtrInv
        <4> QED BY <1>9, <1>12, <3>2, <4>1, <4>2 DEF ReactorPtr, Foreign
      <3> QED BY <3>1, <3>2
    <2> QED BY <1>1, <2>1, <2>2, <2>3 DEF PtrInv
  <1>14. /\ \A i \in 1..Len(qseq) : qseq[i] \in Evt /\ qseq[i] \in Post /\ qseq[i] # evt
         /\ \A i \in 1..Len(t) : t[i] \in Evt /\ t[i] \in Post /\ t[i] # evt
    <2>1. /\ \A i \in 1..Len(qseq) : qseq[i] \in Elems(qseq)
          /\ \A i \in 1..Len(t) : t[i] \in Elems(t)
      BY <1>0, <1>2, ElemsFacts DEF QueueType, t
    <2> QED BY <1>0, <1>e, <1>2, <2>1, ElemsFacts DEF QueueType, t
  <1>15. SeqInv'
    <2>1. SeqOwned(qseq) /\ SeqOwned(t) /\ Elems(qseq) \cap Elems(tseq) = {}
      BY <1>0, <1>1, <1>2 DEF SeqInv, t
    <2>2. SeqOwned(qseq)'
      BY <1>9, <1>10, <1>14, <2>1 DEF SeqOwned
    <2>3. SeqOwned(tseq)'
      BY <1>3, <1>9, <1>10, <1>14, <2>1 DEF SeqOwned
    <2>4. Elems(qseq)' = Elems(qseq) /\ Elems(tseq)' = Elems(t)
      BY <1>3 DEF Elems
    <2>5. Elems(qseq)' \cap Elems(tseq)' = {}
      BY <1>2, <2>1, <2>4 DEF t
    <2> QED BY <1>1, <2>2, <2>3, <2>5 DEF SeqInv, WalkPCs
  <1>16. QueueIsList'
    <2>1. IsList(qevt, qseq) /\ IsList(next[evt], t)
      BY <1>0, <1>2 DEF QueueIsList, t
    <2>2. IsList(qevt, qseq)'
      BY <1>6, <1>7, <1>14, <2>1 DEF IsList
    <2>3. IsList(evt, tseq)'
      <3>1. evt' = (IF t = <<>> THEN NULL ELSE t[1])
        BY <1>3, <2>1 DEF IsList
      <3>2. \A i \in 1..Len(t) : next'[t[i]] = IF i = Len(t) THEN NULL ELSE t[i + 1]
        BY <1>6, <1>14, <2>1 DEF IsList
      <3> QED BY <1>3, <3>1, <3>2 DEF IsList
    <2> QED BY <2>2, <2>3 DEF QueueIsList
  <1>17. PostedIsAccounted'
    <2>1. Elems(qseq)' = Elems(qseq) /\ Elems(tseq)' = Elems(t)
      BY <1>3 DEF Elems
    <2> QED BY <1>0, <1>2, <1>7, <1>10, <2>1 DEF PostedIsAccounted, t
  <1> QED BY <1>5, <1>8, <1>11, <1>13, <1>15, <1>16, <1>17 DEF QueueInv

(* gwrl_free releases one queued event.                                      *)
LEMMA FreeQueuedInv ==
    ASSUME QueueInv, FreeQueued
    PROVE  QueueInv'
  <1> USE CellAssumption, BoundAssumption DEF CellAssumption, BoundAssumption
  <1> USE DEF RGoto, heapVars, listVars, queueVars, flagVars, localVars, histVars
  <1>0. /\ TypeOK /\ FlagType /\ ControlType /\ HeapType /\ QueueType
        /\ ControlInv /\ CellInv /\ PtrInv /\ SeqInv /\ LockInv
        /\ PushIsFresh /\ QueueIsList /\ PostedIsAccounted
    BY DEF QueueInv, TypeOK
  <1>e. \A x \in Post : x \in Evt
    BY DEF Evt
  <1> USE DEF FreeQueued
  <1>1. rpc = "fqevt" /\ rpc' = rpc /\ evt # NULL
    OBVIOUS
  <1>2. /\ tseq # <<>> /\ evt = tseq[1] /\ evt \in Post /\ evt \in Evt
        /\ Foreign(evt) /\ Pushed(evt)
        /\ Tail(tseq) \in Seq(Post) /\ SeqOwned(Tail(tseq))
        /\ Elems(tseq) = Elems(Tail(tseq)) \cup {evt}
        /\ evt \notin Elems(qseq) \cup Elems(Tail(tseq))
        /\ IsList(next[evt], Tail(tseq))
    BY <1>1, WalkFacts
  <1> DEFINE t == Tail(tseq)
  <1>3. tseq' = t /\ evt' = next[evt]
    OBVIOUS
  <1> HIDE DEF t
  <1>4. FlagType'
    BY <1>0, Zenon DEF FlagType
  <1>5. ControlType' /\ ControlInv'
    BY <1>0 DEF ControlType, ControlInv
  <1>6. /\ what' \in [Evt -> Kinds] /\ alloc' \in SUBSET Evt
        /\ \A x \in Evt : x # evt => what'[x] = what[x] /\ (x \in alloc => x \in alloc')
        /\ what'[evt] = "none"
    BY <1>0, <1>2 DEF HeapType, FreeCell, Kinds
  <1>7. next' = next /\ installed' = installed
    BY DEF FreeCell
  <1>8. TypeOK'
    <2>1. HeapType'
      BY <1>0, <1>2, <1>6, <1>7 DEF HeapType, PtrTo
    <2>2. QueueType'
      BY <1>0, <1>2, <1>3 DEF QueueType, t
    <2> QED BY <1>4, <1>5, <2>1, <2>2 DEF TypeOK
  <1>9. /\ \A x \in Evt : Foreign(x)' <=> (x # evt /\ Foreign(x))
        /\ ~(what'[evt] = "post" /\ evt \notin installed')
    <2>1. ~(what'[evt] = "post" /\ evt \notin installed')
      BY <1>6
    <2>2. ASSUME NEW x \in Evt, x # evt PROVE Foreign(x)' <=> Foreign(x)
      <3>1. what'[x] = what[x] /\ (x \in installed' <=> x \in installed)
        BY <1>6, <1>7, <2>2
      <3> QED BY <3>1 DEF Foreign
    <2>3. ASSUME NEW x \in Evt, x = evt PROVE ~Foreign(x)'
      BY <2>1, <2>3 DEF Foreign
    <2> QED BY <2>1, <2>2, <2>3
  <1>10. \A x \in Post : Pushed(x)' <=> Pushed(x)
    BY DEF Pushed
  <1>11. LockInv' /\ CellInv' /\ PushIsFresh'
    <2>1. LockInv'
      BY <1>0, <1>1 DEF LockInv
    <2>2. CellInv'
      <3>1. \A c \in Evt : what'[c] = "post" => c \in Post
        BY <1>0, <1>2, <1>6, <1>7 DEF CellInv
      <3>2. \A c \in Evt : Foreign(c)' => c \in alloc'
        BY <1>0, <1>6, <1>7, <1>9 DEF CellInv
      <3>3. \A x \in Post : ~Pushed(x)' => Foreign(x)'
        BY <1>0, <1>e, <1>2, <1>9, <1>10 DEF CellInv
      <3> QED BY <3>1, <3>2, <3>3 DEF CellInv
    <2>3. PushIsFresh'
      BY <1>0, <1>e, <1>2, <1>6, <1>7 DEF PushIsFresh, Pushed
    <2> QED BY <2>1, <2>2, <2>3
  <1>12. \A q \in PtrTo(Evt) : ReactorPtr(q) => q = NULL \/ ~(what'[q] = "post" /\ q \notin installed')
    BY <1>6, <1>7, <1>9 DEF ReactorPtr, Foreign, PtrTo
  <1>13. PtrInv'
    <2>1. ReactorPtr(events)' /\ ReactorPtr(cevents)' /\ ReactorPtr(del)'
      BY <1>0, <1>2, <1>9, <1>12 DEF PtrInv, ReactorPtr, Foreign, HeapType
    <2>2. rpc' \in WalkPCs /\ rpc' # "adv"
      BY <1>1 DEF WalkPCs
    <2>3. ASSUME NEW c \in Evt
          PROVE  Foreign(c)' \/ ReactorPtr(next[c])' \/ next'[c] = evt'
      <3>1. CASE c = evt
        BY <1>0, <1>2, <1>3, <1>6, <1>7, <1>12, <3>1 DEF PtrInv, ReactorPtr, Foreign, HeapType
      <3>2. CASE c # evt
        <4>1. next'[c] = next[c] /\ next[c] \in PtrTo(Evt)
          BY <1>0, <1>6, <1>7, <3>2 DEF HeapType
        <4>2. Foreign(c) \/ ReactorPtr(next[c]) \/ next[c] = evt
          BY <1>0 DEF PtrInv
        <4> QED BY <1>9, <1>12, <3>2, <4>1, <4>2 DEF ReactorPtr, Foreign
      <3> QED BY <3>1, <3>2
    <2> QED BY <1>1, <2>1, <2>2, <2>3 DEF PtrInv
  <1>14. /\ \A i \in 1..Len(qseq) : qseq[i] \in Evt /\ qseq[i] \in Post /\ qseq[i] # evt
         /\ \A i \in 1..Len(t) : t[i] \in Evt /\ t[i] \in Post /\ t[i] # evt
    <2>1. /\ \A i \in 1..Len(qseq) : qseq[i] \in Elems(qseq)
          /\ \A i \in 1..Len(t) : t[i] \in Elems(t)
      BY <1>0, <1>2, ElemsFacts DEF QueueType, t
    <2> QED BY <1>0, <1>e, <1>2, <2>1, ElemsFacts DEF QueueType, t
  <1>15. SeqInv'
    <2>1. SeqOwned(qseq) /\ SeqOwned(t) /\ Elems(qseq) \cap Elems(tseq) = {}
      BY <1>0, <1>1, <1>2 DEF SeqInv, t
    <2>2. SeqOwned(qseq)'
      BY <1>9, <1>10, <1>14, <2>1 DEF SeqOwned
    <2>3. SeqOwned(tseq)'
      BY <1>3, <1>9, <1>10, <1>14, <2>1 DEF SeqOwned
    <2>4. Elems(qseq)' = Elems(qseq) /\ Elems(tseq)' = Elems(t)
      BY <1>3 DEF Elems
    <2>5. Elems(qseq)' \cap Elems(tseq)' = {}
      BY <1>2, <2>1, <2>4 DEF t
    <2> QED BY <1>1, <2>2, <2>3, <2>5 DEF SeqInv, WalkPCs
  <1>16. QueueIsList'
    <2>1. IsList(qevt, qseq) /\ IsList(next[evt], t)
      BY <1>0, <1>2 DEF QueueIsList, t
    <2>2. IsList(qevt, qseq)'
      BY <1>6, <1>7, <1>14, <2>1 DEF IsList
    <2>3. IsList(evt, tseq)'
      BY <1>3, <1>6, <1>7, <1>14, <2>1 DEF IsList
    <2> QED BY <2>2, <2>3 DEF QueueIsList
  <1>17. PostedIsAccounted'
    BY <1>0, <1>1 DEF PostedIsAccounted, ControlInv, FreePCs
  <1> QED BY <1>5, <1>8, <1>11, <1>13, <1>15, <1>16, <1>17 DEF QueueInv

(* The end of a walk: nothing is left to walk.                               *)
LEMMA WalkEnds ==
    ASSUME QueueInv, InstallDone \/ FreeDone
    PROVE  QueueInv'
  <1> USE CellAssumption, BoundAssumption DEF CellAssumption, BoundAssumption
  <1> USE DEF RGoto, heapVars, listVars, queueVars, flagVars, localVars, histVars
  <1>0. /\ TypeOK /\ FlagType /\ ControlType /\ HeapType /\ QueueType
        /\ ControlInv /\ CellInv /\ PtrInv /\ SeqInv /\ LockInv
        /\ PushIsFresh /\ QueueIsList /\ PostedIsAccounted
    BY DEF QueueInv, TypeOK
  <1>e. \A x \in Post : x \in Evt
    BY DEF Evt
  <1> USE DEF InstallDone, FreeDone
  <1>1. FlagType'
    BY <1>0, Zenon DEF FlagType
  <1>2. tseq = <<>>
    <2>1. IsList(NULL, tseq) /\ tseq \in Seq(Post)
      BY <1>0 DEF QueueIsList, QueueType
    <2>2. ASSUME tseq # <<>> PROVE FALSE
      BY <1>e, <2>1, <2>2 DEF IsList
    <2> QED BY <2>2
  <1>3. TypeOK' /\ ControlInv'
    BY <1>0, <1>1 DEF TypeOK, ControlType, HeapType, QueueType, ControlInv, RPCs, InstallPCs, DispatchPCs, GatherPCs, FreePCs
  <1>4. LockInv' /\ CellInv' /\ PushIsFresh'
    BY <1>0 DEF LockInv, CellInv, PushIsFresh, Foreign, Pushed
  <1>5. PtrInv'
    BY <1>0 DEF PtrInv, ReactorPtr, Foreign
  <1>6. SeqInv'
    BY <1>0, <1>2 DEF SeqInv, SeqOwned, Foreign, Pushed
  <1>7. QueueIsList' /\ PostedIsAccounted'
    BY <1>0 DEF QueueIsList, IsList, PostedIsAccounted, Elems, Pushed
  <1> QED BY <1>3, <1>4, <1>5, <1>6, <1>7 DEF QueueInv

(* Every step of the system preserves the invariant.                         *)
LEMMA NextQueueInv == QueueInv /\ [Next]_vars => QueueInv'
  <1> SUFFICES ASSUME QueueInv, [Next]_vars PROVE QueueInv'
    OBVIOUS
  <1>1. CASE ReactorStep \/ PollInterrupted \/ ClientCall
    BY <1>1, QuietSteps, CreateSteps, FreeSteps, TakeSteps, InstallStepInv, FreeQueuedInv, WalkEnds
    DEF ReactorStep, ClientCall, InstallStep, DispatchStep, GatherStep, FreeStep
  <1>2. CASE \E e \in Post : PStart(e) \/ PosterStep(e)
    BY <1>2, PosterSteps, LinkStep, PushStep DEF PosterStep
  <1>3. CASE Freed \/ UNCHANGED vars
    <2> USE DEF Freed, vars, heapVars, listVars, queueVars, flagVars, localVars, histVars
    <2>0. QueueInv /\ UNCHANGED vars
      BY <1>3
    <2>1. TypeOK'
      BY <2>0, Zenon DEF QueueInv, TypeOK, FlagType, ControlType, HeapType, QueueType
    <2>2. ControlInv' /\ LockInv'
      BY <2>0, Zenon DEF QueueInv, ControlInv, LockInv
    <2>3. CellInv' /\ PtrInv'
      BY <2>0 DEF QueueInv, CellInv, PtrInv, Foreign, Pushed, ReactorPtr
    <2>4. SeqInv'
      BY <2>0 DEF QueueInv, SeqInv, SeqOwned, Foreign, Pushed, Elems
    <2>5. PushIsFresh' /\ QueueIsList' /\ PostedIsAccounted'
      BY <2>0 DEF QueueInv, PushIsFresh, QueueIsList, IsList, PostedIsAccounted, Elems, Pushed
    <2> QED BY <2>1, <2>2, <2>3, <2>4, <2>5 DEF QueueInv
  <1> QED BY <1>1, <1>2, <1>3 DEF Next

(* The values of the reactor's state keep their types.                       *)
THEOREM TypeCorrect == Spec => []TypeOK
  <1>1. QueueInv => TypeOK
    BY DEF QueueInv
  <1> QED BY <1>1, InitQueueInv, NextQueueInv, PTL DEF Spec

(* With any number of threads in gwrl_post_evt_safely the queue lock keeps    *)
(* them apart: no push overwrites the push of another thread.                 *)
THEOREM PushesDoNotCollide == Spec => []PushIsFresh
  <1>1. QueueInv => PushIsFresh
    BY DEF QueueInv
  <1> QED BY <1>1, InitQueueInv, NextQueueInv, PTL DEF Spec

(* rl->_qevt heads exactly the events pushed since the reactor cleared it,    *)
(* and the reactor walks exactly the events it saw there.                     *)
THEOREM QueueWellFormed == Spec => []QueueIsList
  <1>1. QueueInv => QueueIsList
    BY DEF QueueInv
  <1> QED BY <1>1, InitQueueInv, NextQueueInv, PTL DEF Spec

(* Every event a thread posted is queued, being walked, handed to             *)
(* gwrl_post_evt, or was dropped in the window between the unlocked read of   *)
(* rl->_qevt and the store of NULL: there is no other way to lose one.        *)
THEOREM PostingLosesOnlyInWindow == Spec => []PostedIsAccounted
  <1>1. QueueInv => PostedIsAccounted
    BY DEF QueueInv
  <1> QED BY <1>1, InitQueueInv, NextQueueInv, PTL DEF Spec

(* The invariant itself: who owns each cell of the queue, the walk and the    *)
(* reactor's lists while gwrl_post_evt_safely and gwrl_run interleave.        *)
THEOREM QueueInvariant == Spec => []QueueInv
  BY InitQueueInv, NextQueueInv, PTL DEF Spec

-----------------------------------------------------------------------------
(* The lists of the reactor.  The proofs above show who may touch a cell of  *)
(* the queue; here the lists rl->events, rl->cevents and the batch gwrl_dispatch *)
(* is working on are followed cell by cell, from gwrl_post_evt to            *)
(* gwrl_evt_free and gwrl_free.                                              *)

Queued == Elems(qseq)
Taken == Elems(tseq)
Unposted == {e \in Post : ~Pushed(e)}
\* The batch, from the event being called.
Batch == IF rpc \in {"loop", "adv", "fevt"} THEN Reach(evt) ELSE {}

(* An event dropped in the window of install_queued_events is nobody's.       *)
RacedInv == \A c \in raced : Foreign(c) /\ Pushed(c) /\ c \notin Queued \cup Taken

(* Walking rl->_qevt, or the queued events that were taken from it, visits    *)
(* exactly the events pushed there.                                           *)
WalkInv == /\ Acyclic(next, qevt) /\ Reach(qevt) = Queued
           /\ rpc \in WalkPCs => Acyclic(next, evt) /\ Reach(evt) = Taken

(* The cache is a list of allocated cells that the posting side does not own. *)
CacheInv ==
    /\ Acyclic(next, cevents) /\ Reach(cevents) \subseteq alloc
    /\ \A c \in Reach(cevents) : ~Foreign(c)

(* Until gwrl_free releases the cells, rl->events and the batch are lists,    *)
(* no cell is on two of the lists, and every allocated cell is somewhere.     *)
LoopInv == rpc \notin FreePCs \ {"ffirst"} =>
    /\ Acyclic(next, events) /\ Acyclic(next, del)
    /\ \A c \in Reach(events) \cup Reach(del) : ~Foreign(c)
    /\ Reach(events) \cap Reach(cevents) = {}
    /\ Reach(del) \cap (Reach(events) \cup Reach(cevents)) = {}
    /\ alloc = Reach(events) \cup Reach(del) \cup Reach(cevents) \cup Queued \cup Taken
                  \cup raced \cup Unposted
    /\ rpc \in {"loop", "adv"} => Reach(evt) \subseteq Reach(del)
    /\ rpc \in {"refree", "lastfree", "ffirst"} => evt = NULL
    /\ rpc \notin DispatchPCs \ {"disp"} => del = NULL

(* gwrl_free walks the events and then the cache.                             *)
ReleaseInv ==
    /\ rpc = "fevt" =>
          /\ Acyclic(next, evt) /\ \A c \in Reach(evt) : ~Foreign(c)
          /\ Reach(evt) \cap Reach(cevents) = {}
          /\ alloc = Reach(evt) \cup Reach(cevents) \cup Queued \cup raced \cup Unposted
          /\ evt = NULL => cevents = NULL
    /\ rpc \in {"fqevt", "freed"} => /\ cevents = NULL /\ Queued = {}
                                     /\ alloc = Taken \cup raced \cup Unposted

(* An event that waits for its callback is on its way to it.                  *)
PendingInv ==
    /\ \A e \in Post : Pending(e) /\ e \notin raced =>
          e \in Queued \cup Taken \cup Batch
                  \cup (IF rpc \in FreePCs \ {"ffirst"} THEN {} ELSE Reach(events))
    /\ rpc = "adv" /\ what[evt] = "post" => calls[evt] > 0

ListInv == CacheInv /\ LoopInv /\ ReleaseInv /\ PendingInv

(* A cell put on the empty list with a stale next makes the list a circle: no *)
(* walk over it ends, so the reactor never leaves gwrl_dispatch again.        *)
Circle(S) == \A c \in S : /\ c \in alloc \ Reach(cevents) /\ ~Foreign(c)
                          /\ next[c] \in S
Endless(p) == \E S \in SUBSET Evt : p \in S /\ Circle(S)
TangledInv ==
    /\ CacheInv
    /\ \/ /\ rpc = "inst" /\ evt # NULL /\ events # NULL /\ next[events] = evt
          /\ events \in alloc \ Reach(cevents) /\ ~Foreign(events)
       \/ rpc \in {"inst", "disp"} /\ Endless(events)
       \/ rpc \in {"loop", "adv"} /\ Endless(evt)

HeapInv == /\ RacedInv /\ WalkInv
           /\ mode = "free" => \A e \in Post : ppc[e] \in {"new", "done"}
           /\ IF tangled THEN TangledInv ELSE ListInv

(* The reactor is asleep over a queued event only if its post missed the      *)
(* flag, or has filled the pipe.                                              *)
Woken(e) == ppc[e] = "write" \/ (ppc[e] = "done" /\ e \notin unwoken)
AwakePCs == {"poll", "flclr", "gather", "gatherfn", "check", "idle", "take", "lock", "clear"}
SleepInv ==
    /\ sleeping => rpc \in {"poll", "flclr"}
    /\ mode # "free" => \A e \in Post : e \in Queued /\ Woken(e) =>
          rpc \in AwakePCs /\ (ppc[e] = "done" => pipe)
    /\ events # NULL /\ repost # RedispatchMax =>
          /\ rpc = "loop" => evt # NULL
          /\ rpc \notin {"lastfree", "stopchk", "time"}
          /\ rpc = "flset" => timeout = "zero"
          /\ rpc = "poll" => timeout # "inf"

(* An event that the reactor is going to call has not been called before.     *)
Fresh(c) == what[c] = "post" => calls[c] = 0
FreshInv ==
    /\ \A c \in Post : Foreign(c) => calls[c] = 0
    /\ ~tangled => \A c \in Post : calls[c] \in {0, 1}
    /\ ~tangled /\ rpc \notin FreePCs \ {"ffirst"} =>
          /\ \A c \in Reach(events) : Fresh(c)
          /\ rpc = "loop" => \A c \in Reach(evt) : Fresh(c)
          /\ rpc = "adv" => \A c \in Reach(evt) \ {evt} : Fresh(c)

(* A synchronous client has one event under way, so that no list is tangled.  *)
Finished(e) == ppc[e] = "done" /\ calls[e] > 0
SyncInv == Sync => /\ ~tangled
                   /\ \A d, e \in Post : d # e /\ ppc[d] # "new" /\ ppc[e] # "new" =>
                         Finished(d) \/ Finished(e)
-----------------------------------------------------------------------------
(* Facts about the constants and the invariant that every step uses.          *)
LEMMA Basics ==
    ASSUME QueueInv
    PROVE  /\ DOMAIN next = Evt /\ NULL \notin Evt /\ RL \notin Evt /\ Post \subseteq Evt
           /\ next \in [Evt -> PtrTo(Evt)] /\ alloc \subseteq Evt
           /\ evt \in PtrTo(Evt) /\ events \in PtrTo(Evt) /\ cevents \in PtrTo(Evt)
           /\ del \in PtrTo(Evt) /\ qevt \in PtrTo(Evt)
           /\ Queued \subseteq Post /\ Taken \subseteq Post /\ raced \subseteq Post
           /\ \A c \in Queued \cup Taken : Foreign(c) /\ Pushed(c)
           /\ \A c \in Evt : Foreign(c) => c \in alloc /\ c \in Post
           /\ \A e \in Post : ~Pushed(e) => Foreign(e)
           /\ Reach(NULL) = {} /\ Acyclic(next, NULL)
           /\ \A p : Reach(p) \subseteq Evt /\ (p \in Evt => p \in Reach(p))
  <1>1. /\ HeapType /\ QueueType /\ CellInv /\ SeqInv
    BY DEF QueueInv, TypeOK
  <1>2. DOMAIN next = Evt /\ NULL \notin Evt /\ RL \notin Evt /\ Post \subseteq Evt
    BY <1>1, CellAssumption DEF CellAssumption, HeapType, Evt
  <1>3. /\ next \in [Evt -> PtrTo(Evt)] /\ alloc \subseteq Evt
        /\ evt \in PtrTo(Evt) /\ events \in PtrTo(Evt) /\ cevents \in PtrTo(Evt)
        /\ del \in PtrTo(Evt) /\ qevt \in PtrTo(Evt) /\ raced \subseteq Post
    BY <1>1, <1>2 DEF HeapType, QueueType, PtrTo
  <1>4. Queued = {qseq[i] : i \in 1..Len(qseq)} /\ Taken = {tseq[i] : i \in 1..Len(tseq)}
    BY <1>1, ElemsFacts DEF QueueType, Queued, Taken
  <1>5. /\ Queued \subseteq Post /\ Taken \subseteq Post
    BY <1>1, ElemsFacts DEF QueueType, Queued, Taken
  <1>6. \A c \in Queued \cup Taken : Foreign(c) /\ Pushed(c)
    BY <1>1, <1>4 DEF SeqInv, SeqOwned
  <1>7. /\ \A c \in Evt : Foreign(c) => c \in alloc /\ c \in Post
        /\ \A e \in Post : ~Pushed(e) => Foreign(e)
    BY <1>1 DEF CellInv, Foreign
  <1>8. Reach(NULL) = {} /\ Acyclic(next, NULL)
    BY <1>2, NullIsAcyclic DEF Reach
  <1>9. \A p : Reach(p) \subseteq Evt /\ (p \in Evt => p \in Reach(p))
    BY <1>2, WalkIsClosed DEF Reach
  <1> QED BY <1>2, <1>3, <1>5, <1>6, <1>7, <1>8, <1>9

(* A store to the next field of c: the lists c is not on stay as they are,    *)
(* and c can be put before one of them.                                       *)
LEMMA Store ==
    ASSUME QueueInv, NEW c \in Evt, NEW x, next' = [next EXCEPT ![c] = x]
    PROVE  /\ \A h : c \notin Reach(h) => /\ Reachable(next', h) = Reach(h)
                                          /\ Acyclic(next, h) => Acyclic(next', h)
           /\ c \notin Reach(x) /\ Acyclic(next, x) =>
                 Reachable(next', c) = {c} \cup Reach(x) /\ Acyclic(next', c)
  <1>1. DOMAIN next = Evt /\ DOMAIN next' = DOMAIN next /\ next'[c] = x
    BY Basics
  <1>2. ASSUME NEW h, c \notin Reach(h)
        PROVE  Reachable(next', h) = Reach(h) /\ (Acyclic(next, h) => Acyclic(next', h))
    <2>1. \A d \in Reachable(next, h) : next'[d] = next[d]
      BY <1>1, <1>2, WalkIsClosed DEF Reach
    <2> QED BY <1>1, <2>1, WalkIsLocal DEF Reach
  <1>3. ASSUME c \notin Reach(x), Acyclic(next, x)
        PROVE  Reachable(next', c) = {c} \cup Reach(x) /\ Acyclic(next', c)
    <2>1. c \in DOMAIN next'
      BY <1>1
    <2>2. Reachable(next', x) = Reachable(next, x) /\ Acyclic(next', x)
      BY <1>2, <1>3 DEF Reach
    <2>3. Reachable(next', c) = {c} \cup Reachable(next', x) /\ c \notin Reachable(next', x)
      BY <1>1, <1>3, <2>1, <2>2, WalkFromCell DEF Reach
    <2>4. Acyclic(next', c)
      BY <1>1, <2>2, <2>3 DEF Acyclic
    <2> QED BY <2>2, <2>3, <2>4 DEF Reach
  <1> QED BY <1>2, <1>3

(* A callback of user code counts as a call of its event.                     *)
LEMMA CallCounts ==
    ASSUME QueueInv, UserCallback
    PROVE  /\ \A e \in Post : calls'[e] = 0 => calls[e] = 0
           /\ what[evt] = "post" => calls'[evt] > 0
  <1>1. CASE what[evt] # "post"
    BY <1>1 DEF UserCallback
  <1>2. CASE what[evt] = "post"
    <2>1. evt \in Post
      BY <1>2, Basics DEF QueueInv, CellInv, PtrTo, UserCallback
    <2>2. calls' = [calls EXCEPT ![evt] = IF @ < 2 THEN @ + 1 ELSE @] /\ calls \in [Post -> 0..2]
      BY <1>2 DEF UserCallback, QueueInv, TypeOK, ControlType
    <2>3. \A e \in Post : calls'[e] = 0 => calls[e] = 0
      BY <2>1, <2>2
    <2>4. calls'[evt] > 0
      BY <2>1, <2>2
    <2> QED BY <2>3, <2>4
  <1> QED BY <1>1, <1>2

(* Steps that move no cell and no pointer.                                    *)
LEMMA QuietHeap ==
    ASSUME QueueInv, HeapInv,
           \/ gwrl_run \/ gwrl_run_once \/ gwrl_allow_poll_sleep \/ gwrl_free
           \/ CheckQueue \/ TakeLock \/ InstallDone \/ WakeActivity \/ DispatchLoopEnd
           \/ DispatchReturn \/ CheckStop \/ SetSleeping \/ PollReturns \/ PollInterrupted
           \/ ClearSleeping \/ FreeDone \/ Freed \/ UNCHANGED vars
           \/ (UserCallback \/ TimeGather \/ Gather \/ GatherFnc) /\ UNCHANGED <<heapVars, listVars>>
           \/ \E e \in Post : PStart(e) \/ PLock(e) \/ PTest(e) \/ PWrite(e)
    PROVE  HeapInv'
  <1> USE DEF RGoto, PGoto, heapVars, listVars, queueVars, flagVars, localVars, histVars, vars
  <1> USE DEF gwrl_run, gwrl_run_once, gwrl_allow_poll_sleep, gwrl_free, CheckQueue, TakeLock,
              InstallDone, WakeActivity, DispatchLoopEnd, DispatchReturn, CheckStop, SetSleeping,
              PollReturns, PollInterrupted, ClearSleeping, FreeDone, Freed, UserCallback,
              TimeGather, Gather, GatherFnc, PStart, PLock, PTest, PWrite
  <1>0. QueueInv /\ ControlType /\ RacedInv /\ WalkInv
    BY DEF QueueInv, TypeOK, HeapInv
  <1>1. UNCHANGED <<next, what, alloc, events, cevents, del, qevt, qseq, tseq, installed, raced,
                    tangled, evt>>
    OBVIOUS
  <1>2. /\ \A e \in Post : Pushed(e)' <=> Pushed(e)
        /\ (mode' = "free" => mode = "free" \/ \A e \in Post : ppc'[e] \in {"new", "done"})
        /\ mode = "free" => \A e \in Post : ppc[e] = "done" => ppc'[e] = "done"
        /\ mode = "free" => \A e \in Post : ppc[e] = "new" => ppc'[e] = "new"
    BY <1>0 DEF ControlType, Pushed, PPCs
  <1>3. \/ rpc' = rpc
        \/ rpc = "idle" /\ rpc' \in {"check", "disp"}
        \/ rpc = "check" /\ rpc' \in {"take", "disp"}
        \/ rpc = "lock" /\ rpc' = "clear"
        \/ rpc = "inst" /\ rpc' = "disp" /\ evt = NULL
        \/ rpc = "loop" /\ rpc' = "adv"
        \/ rpc = "loop" /\ rpc' = "lastfree" /\ evt = NULL
        \/ rpc = "lastfree" /\ rpc' \in {"ffirst", "stopchk"} /\ del = NULL
        \/ /\ rpc \in {"stopchk", "time", "flset", "poll", "flclr", "gather", "gatherfn"}
           /\ rpc' \in {"idle", "check", "time", "flset", "poll", "flclr", "gather", "gatherfn"}
        \/ rpc = "fqevt" /\ rpc' = "freed"
    OBVIOUS
  <1>4. /\ Queued' = Queued /\ Taken' = Taken /\ Unposted' = Unposted
        /\ \A p : Reachable(next', p) = Reach(p)
        /\ \A c : Foreign(c)' <=> Foreign(c)
        /\ \A p : Acyclic(next, p) => Acyclic(next', p)
    BY <1>1, <1>2, Zenon DEF Queued, Taken, Unposted, Elems, Reach, Foreign
  <1>9. /\ \A e \in Post : calls'[e] = 0 => calls[e] = 0
        /\ rpc' = "adv" => \/ rpc = "adv" /\ calls' = calls
                           \/ what[evt] = "post" => calls'[evt] > 0
    <2>1. CASE calls' = calls /\ (rpc' = "adv" => rpc = "adv" \/ what[evt] = "wake")
      BY <2>1
    <2>2. CASE UserCallback
      BY <2>2, CallCounts
    <2> QED BY <2>1, <2>2
  <1> HIDE DEF gwrl_run, gwrl_run_once, gwrl_allow_poll_sleep, gwrl_free, CheckQueue, TakeLock,
              InstallDone, WakeActivity, DispatchLoopEnd, DispatchReturn, CheckStop, SetSleeping,
              PollReturns, PollInterrupted, ClearSleeping, FreeDone, Freed, UserCallback,
              TimeGather, Gather, GatherFnc, PStart, PLock, PTest, PWrite
  <1>5. RacedInv'
    <2>1. \A c \in raced : c \in Post
      BY Basics
    <2> QED BY <1>0, <1>1, <1>2, <1>4, <2>1 DEF RacedInv
  <1>6. WalkInv'
    BY <1>0, <1>1, <1>3, <1>4 DEF WalkInv, Reach, WalkPCs
  <1>7. CASE tangled
    <2>1. TangledInv
      BY <1>7 DEF HeapInv
    <2>2. CacheInv'
      BY <1>1, <1>4, <2>1 DEF TangledInv, CacheInv, Reach
    <2>3. /\ Endless(events) => Endless(events)'
          /\ Endless(evt) => Endless(evt)' /\ evt # NULL
      BY <1>1, <1>4, Basics DEF Endless, Circle, Reach
    <2>4. TangledInv'
      <3>1. CASE rpc = "inst" /\ evt # NULL /\ events # NULL /\ next[events] = evt
                 /\ events \in alloc \ Reach(cevents) /\ ~Foreign(events)
        BY <1>1, <1>3, <1>4, <2>2, <3>1 DEF TangledInv, Reach
      <3>2. CASE rpc \in {"inst", "disp"} /\ Endless(events)
        BY <1>3, <2>2, <2>3, <3>2 DEF TangledInv
      <3>3. CASE rpc \in {"loop", "adv"} /\ Endless(evt)
        BY <1>3, <2>2, <2>3, <3>3 DEF TangledInv
      <3> QED BY <2>1, <3>1, <3>2, <3>3 DEF TangledInv
    <2> QED BY <1>1, <1>2, <1>5, <1>6, <1>7, <2>4 DEF HeapInv
  <1>8. CASE ~tangled
    <2>0. CacheInv /\ LoopInv /\ ReleaseInv /\ PendingInv
      BY <1>8 DEF HeapInv, ListInv
    <2>1. CacheInv'
      BY <1>1, <1>4, <2>0 DEF CacheInv, Reach
    <2>2. LoopInv'
      BY <1>1, <1>3, <1>4, <2>0 DEF LoopInv, Reach, FreePCs, DispatchPCs
    <2>3. ReleaseInv'
      BY <1>1, <1>3, <1>4, <2>0 DEF ReleaseInv, Reach
    <2>4. PendingInv'
      <3>1. Batch \subseteq Batch'
        BY <1>1, <1>3, <1>4, Basics DEF Batch, Reach
      <3>2. rpc' \in FreePCs \ {"ffirst"} <=> rpc \in FreePCs \ {"ffirst"}
        BY <1>3 DEF FreePCs
      <3>3. \A e \in Post : Pending(e)' => Pending(e)
        BY <1>1, <1>2, <1>9 DEF Pending
      <3>4. rpc' = "adv" /\ what'[evt'] = "post" => calls'[evt'] > 0
        BY <1>1, <1>9, <2>0 DEF PendingInv
      <3> QED BY <1>1, <1>4, <2>0, <3>1, <3>2, <3>3, <3>4 DEF PendingInv, Reach
    <2> QED BY <1>1, <1>2, <1>5, <1>6, <1>8, <2>1, <2>2, <2>3, <2>4 DEF HeapInv, ListInv
  <1> QED BY <1>7, <1>8
(* A reactor thread's gwrl_evt_create and gwrl_post_evt: the head of the      *)
(* cache, or a new cell, becomes the head of rl->events.                      *)
LEMMA CreateHeap ==
    ASSUME QueueInv, HeapInv, NEW k \in Kinds \ {"post"}, CreateAndPost(k),
           UNCHANGED <<evt, del, qevt, qseq, tseq, installed, raced, tangled, ppc>>,
           mode' = "free" => mode = "free",
           \A e \in Post : calls'[e] = 0 => calls[e] = 0,
           \/ rpc = "loop" /\ rpc' = "adv" /\ (what[evt] = "post" => calls'[evt] > 0)
           \/ /\ rpc \in {"time", "gather", "gatherfn"}
              /\ rpc' \in {"flset", "gatherfn", "check", "idle"}
    PROVE  /\ HeapInv'
           /\ \E c \in Evt :
                 /\ what' = [what EXCEPT ![c] = k] /\ ~Foreign(c)
                 /\ ~tangled => /\ Reach(events)' = Reach(events) \cup {c}
                                /\ rpc = "loop" => Reach(evt)' = Reach(evt)
  <1>0. RacedInv /\ WalkInv /\ CacheInv /\ what \in [Evt -> Kinds] /\ cevents \in PtrTo(Evt)
    BY DEF HeapInv, ListInv, TangledInv, QueueInv, TypeOK, HeapType
  <1>1. PICK c \in IF cevents # NULL THEN {cevents} ELSE Evt \ alloc :
        /\ cevents' = IF cevents # NULL THEN next[cevents] ELSE cevents
        /\ alloc' = alloc \cup {c}
        /\ what' = [what EXCEPT ![c] = k]
        /\ next' = PostLink([next EXCEPT ![c] = NULL], events, c)
        /\ events' = c
    BY DEF CreateAndPost
  <1>2. c \in Evt /\ ~Foreign(c)
    BY <1>0, <1>1, Basics DEF CacheInv, PtrTo
  <1>3. next' = [next EXCEPT ![c] = events]
    BY <1>1, <1>2, Basics DEF PostLink
  <1>4. c \notin Queued \cup Taken \cup raced \cup Unposted
    BY <1>0, <1>2, Basics DEF RacedInv, Unposted
  <1>5. /\ Queued' = Queued /\ Taken' = Taken /\ Unposted' = Unposted /\ raced' = raced
        /\ \A e \in Post : Pushed(e)' <=> Pushed(e)
    BY Zenon DEF Queued, Taken, Unposted, Elems, Pushed
  <1>6. \A d \in Evt : Foreign(d)' <=> Foreign(d)
    BY <1>0, <1>1, <1>2 DEF Foreign
  <1>7. Reach(cevents)' = Reach(cevents) \ {c} /\ Acyclic(next', cevents')
    <2>1. CASE cevents # NULL
      <3>1. /\ Reachable(next, next[c]) = Reach(cevents) \ {c} /\ Acyclic(next, next[c])
            /\ c = cevents
        BY <1>0, <1>1, <1>2, <2>1, Basics, PopCell DEF CacheInv, Reach
      <3>2. c \notin Reachable(next, next[c])
        BY <3>1
      <3>3. Reachable(next', next[c]) = Reachable(next, next[c]) /\ Acyclic(next', next[c])
        BY <1>2, <1>3, <3>1, <3>2, Store DEF Reach
      <3> QED BY <1>1, <2>1, <3>1, <3>3 DEF Reach
    <2>2. CASE cevents = NULL
      <3>1. Reachable(next, NULL) = {} /\ Acyclic(next, NULL)
        BY Basics DEF Reach
      <3>2. Reachable(next', NULL) = {} /\ Acyclic(next', NULL)
        BY <1>2, <1>3, <3>1, Store DEF Reach
      <3> QED BY <1>1, <2>2, <3>1, <3>2 DEF Reach
    <2> QED BY <2>1, <2>2
  <1>8. CacheInv'
    BY <1>0, <1>1, <1>6, <1>7, Basics DEF CacheInv
  <1>9. RacedInv'
    BY <1>0, <1>5, <1>6, Basics DEF RacedInv
  <1>10. WalkInv'
    <2>1. c \notin Reachable(next, qevt) /\ Acyclic(next, qevt)
      BY <1>0, <1>4 DEF WalkInv, Reach
    <2>2. Reachable(next', qevt) = Reachable(next, qevt) /\ Acyclic(next', qevt)
      BY <1>2, <1>3, <2>1, Store DEF Reach
    <2> QED BY <1>0, <1>5, <2>2 DEF WalkInv, Reach, WalkPCs
  <1>11. mode' = "free" => \A e \in Post : ppc'[e] \in {"new", "done"}
    BY DEF HeapInv
  <1>12. CASE tangled
    <2>1. rpc = "loop" /\ rpc' = "adv" /\ Endless(evt)
      BY <1>12 DEF HeapInv, TangledInv
    <2>2. PICK S \in SUBSET Evt : evt \in S /\ Circle(S)
      BY <2>1 DEF Endless
    <2>3. c \notin S
      BY <1>1, <2>2, Basics DEF Circle, PtrTo
    <2>4. \A d \in S : next'[d] = next[d]
      BY <1>3, <2>2, <2>3, Basics
    <2>5. Circle(S)'
      BY <1>1, <1>6, <1>7, <2>2, <2>4 DEF Circle
    <2>6. Endless(evt)'
      BY <2>2, <2>5 DEF Endless
    <2> QED BY <1>1, <1>2, <1>8, <1>9, <1>10, <1>11, <1>12, <2>1, <2>6 DEF HeapInv, TangledInv
  <1>13. CASE ~tangled
    <2>0. LoopInv /\ ReleaseInv /\ PendingInv
      BY <1>13 DEF HeapInv, ListInv
    <2>1. rpc \notin FreePCs \ {"ffirst"} /\ rpc' \notin FreePCs
      BY DEF FreePCs
    <2>2. c \notin Reach(events) /\ c \notin Reach(del)
      BY <1>1, <2>0, <2>1, Basics DEF LoopInv, PtrTo
    <2>3. Reach(events)' = Reach(events) \cup {c} /\ Acyclic(next', events')
      <3>1. c \notin Reachable(next, events) /\ Acyclic(next, events) /\ c \in DOMAIN next
        BY <1>2, <2>0, <2>1, <2>2, Basics DEF LoopInv, Reach
      <3>2. Reachable(next', c) = {c} \cup Reachable(next, events) /\ Acyclic(next', c)
        BY <1>2, <1>3, <3>1, Store DEF Reach
      <3> QED BY <1>1, <3>2 DEF Reach
    <2>4. Reach(del)' = Reach(del) /\ Acyclic(next', del')
      <3>1. c \notin Reachable(next, del) /\ Acyclic(next, del)
        BY <2>0, <2>1, <2>2 DEF LoopInv, Reach
      <3>2. Reachable(next', del) = Reachable(next, del) /\ Acyclic(next', del)
        BY <1>2, <1>3, <3>1, Store DEF Reach
      <3> QED BY <3>2 DEF Reach
    <2>5. rpc = "loop" => Reach(evt)' = Reach(evt) /\ Reach(evt) \subseteq Reach(del)
      <3>1. rpc = "loop" => Reach(evt) \subseteq Reach(del)
        BY <2>0, <2>1 DEF LoopInv
      <3>2. rpc = "loop" => Reachable(next', evt) = Reachable(next, evt)
        BY <1>2, <1>3, <2>2, <3>1, Store DEF Reach
      <3> QED BY <3>1, <3>2 DEF Reach
    <2>6. LoopInv'
      <3>1. \A d \in Reach(events)' \cup Reach(del)' : ~Foreign(d)'
        BY <1>2, <1>6, <2>0, <2>1, <2>3, <2>4, Basics DEF LoopInv
      <3>2. /\ Reach(events)' \cap Reach(cevents)' = {}
            /\ Reach(del)' \cap (Reach(events)' \cup Reach(cevents)') = {}
        BY <1>7, <2>0, <2>1, <2>2, <2>3, <2>4 DEF LoopInv
      <3>3. alloc' = Reach(events)' \cup Reach(del)' \cup Reach(cevents)' \cup Queued' \cup Taken'
                  \cup raced' \cup Unposted'
        BY <1>1, <1>5, <1>7, <2>0, <2>1, <2>3, <2>4 DEF LoopInv
      <3>4. /\ rpc' \in {"loop", "adv"} => Reach(evt)' \subseteq Reach(del)'
            /\ rpc' \notin {"refree", "lastfree", "ffirst"}
            /\ rpc' \notin DispatchPCs \ {"disp"} => del' = NULL
        BY <2>0, <2>1, <2>4, <2>5 DEF LoopInv, DispatchPCs
      <3> QED BY <2>3, <2>4, <3>1, <3>2, <3>3, <3>4 DEF LoopInv
    <2>7. ReleaseInv'
      BY DEF ReleaseInv
    <2>8. PendingInv'
      <3>1. \A e \in Post : Pending(e)' => Pending(e)
        BY <1>0, <1>1, <1>2, <1>5, Basics DEF Pending
      <3>2. Batch \subseteq Batch'
        BY <2>1, <2>5 DEF Batch
      <3>3. rpc' = "adv" /\ what'[evt'] = "post" => calls'[evt'] > 0
        BY <1>0, <1>1, <1>2
      <3>4. ASSUME NEW e \in Post, Pending(e)', e \notin raced'
            PROVE  e \in Queued' \cup Taken' \cup Batch' \cup Reach(events)'
        BY <1>5, <2>0, <2>1, <2>3, <3>1, <3>2, <3>4 DEF PendingInv
      <3> QED BY <2>1, <3>3, <3>4 DEF PendingInv
    <2>9. HeapInv'
      BY <1>8, <1>9, <1>10, <1>11, <1>13, <2>6, <2>7, <2>8 DEF HeapInv, ListInv
    <2> QED BY <1>1, <1>2, <2>3, <2>5, <2>9
  <1> QED BY <1>12, <1>13
LEMMA Pop ==
    ASSUME QueueInv, NEW h \in Evt, Acyclic(next, h)
    PROVE  Reach(next[h]) = Reach(h) \ {h} /\ Acyclic(next, next[h]) /\ h \in Reach(h)
  <1>1. h \in DOMAIN next
    BY Basics
  <1> QED BY <1>1, PopCell DEF Reach

(* gwrl_evt_free_list: a called event goes to the cache, or back to the heap. *)
LEMMA FreeListHeap ==
    ASSUME QueueInv, HeapInv, FreeListOne
    PROVE  HeapInv' /\ Reach(events)' = Reach(events) /\ ~Foreign(del) /\ del \in Evt
  <1> USE DEF heapVars, listVars, queueVars, flagVars, localVars, histVars
  <1>0. ~tangled /\ RacedInv /\ WalkInv /\ CacheInv /\ LoopInv /\ ReleaseInv /\ PendingInv
    BY DEF HeapInv, TangledInv, ListInv, FreeListOne
  <1>1. /\ rpc \in {"refree", "lastfree"} /\ rpc' = rpc /\ del \in Evt /\ del' = next[del]
        /\ what' = [what EXCEPT ![del] = "none"]
        /\ UNCHANGED <<events, qevt, evt, mode, ppc, calls, qseq, tseq, installed, raced, tangled>>
        /\ \/ alloc' = alloc \ {del} /\ UNCHANGED <<next, cevents>>
           \/ next' = [next EXCEPT ![del] = cevents] /\ cevents' = del /\ alloc' = alloc
    BY Basics DEF FreeListOne, gwrl_evt_free, PtrTo
  <1>2. /\ evt = NULL /\ Acyclic(next, events) /\ Acyclic(next, del) /\ Acyclic(next, cevents)
        /\ ~Foreign(del) /\ del \notin Reach(events) /\ del \notin Reach(cevents)
        /\ \A d \in Reach(events) \cup Reach(del) \cup Reach(cevents) : ~Foreign(d)
        /\ alloc = Reach(events) \cup Reach(del) \cup Reach(cevents) \cup Queued \cup Taken
                  \cup raced \cup Unposted
        /\ Reach(events) \cap Reach(cevents) = {}
        /\ Reach(del) \cap (Reach(events) \cup Reach(cevents)) = {}
    BY <1>0, <1>1, Basics DEF LoopInv, CacheInv, FreePCs
  <1>3. Reach(next[del]) = Reach(del) \ {del} /\ Acyclic(next, next[del]) /\ del \in Reach(del)
    BY <1>1, <1>2, Pop
  <1>4. /\ del \notin Queued \cup Taken \cup raced \cup Unposted
        /\ Queued' = Queued /\ Taken' = Taken /\ Unposted' = Unposted
        /\ \A e \in Post : Pushed(e)' <=> Pushed(e)
    <2>1. del \notin Queued \cup Taken \cup raced \cup Unposted
      BY <1>0, <1>2, Basics DEF RacedInv, Unposted
    <2>2. /\ Queued' = Queued /\ Taken' = Taken /\ Unposted' = Unposted
          /\ \A e \in Post : Pushed(e)' <=> Pushed(e)
      BY <1>1, Zenon DEF Queued, Taken, Unposted, Elems, Pushed
    <2> QED BY <2>1, <2>2
  <1>5. \A d \in Evt : Foreign(d)' <=> Foreign(d)
    <2>1. what \in [Evt -> Kinds]
      BY DEF QueueInv, TypeOK, HeapType
    <2> QED BY <1>1, <1>2, <2>1 DEF Foreign
  <1>6. \A h : del \notin Reach(h) => /\ Reachable(next', h) = Reach(h)
                                      /\ Acyclic(next, h) => Acyclic(next', h)
    <2>1. CASE next' = next
      BY <2>1 DEF Reach
    <2>2. CASE next' = [next EXCEPT ![del] = cevents]
      BY <1>1, <2>2, Store
    <2> QED BY <1>1, <2>1, <2>2
  <1>7. /\ Reach(events)' = Reach(events) /\ Acyclic(next', events')
        /\ Reach(del)' = Reach(del) \ {del} /\ Acyclic(next', del')
    <2>1. Reachable(next', events) = Reach(events) /\ Acyclic(next', events)
      BY <1>2, <1>6
    <2>2. del \notin Reach(next[del])
      BY <1>3
    <2>3. Reachable(next', next[del]) = Reach(next[del]) /\ Acyclic(next', next[del])
      BY <1>3, <1>6, <2>2
    <2> QED BY <1>1, <1>3, <2>1, <2>3 DEF Reach
  <1>8. /\ Acyclic(next', cevents')
        /\ \/ alloc' = alloc \ {del} /\ Reach(cevents)' = Reach(cevents)
           \/ alloc' = alloc /\ Reach(cevents)' = Reach(cevents) \cup {del}
    <2>1. CASE alloc' = alloc \ {del} /\ UNCHANGED <<next, cevents>>
      BY <1>2, <2>1 DEF Reach
    <2>2. CASE next' = [next EXCEPT ![del] = cevents] /\ cevents' = del /\ alloc' = alloc
      <3>1. Reachable(next', del) = {del} \cup Reach(cevents) /\ Acyclic(next', del)
        BY <1>1, <1>2, <2>2, Store
      <3> QED BY <2>2, <3>1 DEF Reach
    <2> QED BY <1>1, <2>1, <2>2
  <1>9. CacheInv'
    BY <1>0, <1>1, <1>2, <1>5, <1>8, Basics DEF CacheInv
  <1>10. RacedInv'
    BY <1>0, <1>1, <1>4, <1>5, Basics DEF RacedInv
  <1>11. WalkInv'
    <2>1. Reachable(next', qevt) = Reach(qevt) /\ Acyclic(next', qevt) /\ Reach(qevt) = Queued
      BY <1>0, <1>4, <1>6 DEF WalkInv
    <2> QED BY <1>1, <1>4, <2>1 DEF WalkInv, WalkPCs, Reach
  <1>12. LoopInv'
    <2>1. alloc' = Reach(events)' \cup Reach(del)' \cup Reach(cevents)' \cup Queued' \cup Taken'
                  \cup raced' \cup Unposted'
      BY <1>1, <1>2, <1>3, <1>4, <1>7, <1>8
    <2>2. /\ Reach(events)' \cap Reach(cevents)' = {}
          /\ Reach(del)' \cap (Reach(events)' \cup Reach(cevents)') = {}
      BY <1>2, <1>7, <1>8
    <2>3. \A c \in Reach(events)' \cup Reach(del)' : ~Foreign(c)'
      BY <1>2, <1>5, <1>7, Basics
    <2> QED BY <1>1, <1>2, <1>7, <2>1, <2>2, <2>3 DEF LoopInv, DispatchPCs
  <1>13. ReleaseInv'
    BY <1>1 DEF ReleaseInv
  <1>14. PendingInv'
    <2>1. \A e \in Post : Pending(e)' => Pending(e)
      <3>1. what \in [Evt -> Kinds]
        BY DEF QueueInv, TypeOK, HeapType
      <3> QED BY <1>1, <1>4, <3>1, Basics DEF Pending
    <2>2. Batch = {} /\ rpc \notin FreePCs /\ rpc' \notin FreePCs
      BY <1>1 DEF Batch, FreePCs
    <2>3. ASSUME NEW e \in Post, Pending(e)', e \notin raced'
          PROVE  e \in Queued' \cup Taken' \cup Batch' \cup Reach(events)'
      BY <1>0, <1>1, <1>4, <1>7, <2>1, <2>2, <2>3 DEF PendingInv
    <2> QED BY <1>1, <2>2, <2>3 DEF PendingInv
  <1>15. HeapInv'
    BY <1>0, <1>1, <1>9, <1>10, <1>11, <1>12, <1>13, <1>14 DEF HeapInv, ListInv
  <1> QED BY <1>1, <1>2, <1>7, <1>15
(* gwrl_dispatch takes rl->events as its batch, walks it, and takes the next. *)
LEMMA BatchHeap ==
    ASSUME QueueInv, HeapInv, DispatchStart \/ Redispatch \/ DispatchNext \/ FreeFirst
    PROVE  HeapInv'
  <1> USE DEF heapVars, listVars, queueVars, flagVars, localVars, histVars, RGoto
  <1>0. RacedInv /\ WalkInv
    BY DEF HeapInv
  <1>1. UNCHANGED <<next, what, alloc, qevt, mode, ppc, calls, qseq, tseq, installed, raced, tangled>>
    BY DEF DispatchStart, Redispatch, DispatchNext, FreeFirst
  <1>2. /\ Queued' = Queued /\ Taken' = Taken /\ Unposted' = Unposted
        /\ \A p : Reachable(next', p) = Reach(p)
        /\ \A c : Foreign(c)' <=> Foreign(c)
        /\ \A e \in Post : (Pushed(e)' <=> Pushed(e)) /\ (Pending(e)' <=> Pending(e))
    BY <1>1, Zenon DEF Queued, Taken, Unposted, Elems, Reach, Foreign, Pushed, Pending
  <1>3. rpc' \in {"loop", "refree", "fevt"}
    BY DEF DispatchStart, Redispatch, DispatchNext, FreeFirst
  <1>4. RacedInv' /\ WalkInv'
    BY <1>0, <1>1, <1>2, <1>3, Basics DEF RacedInv, WalkInv, Reach, WalkPCs
  <1>5. Taken = {}
    <2>1. rpc \notin WalkPCs
      BY DEF DispatchStart, Redispatch, DispatchNext, FreeFirst, WalkPCs
    <2> QED BY <2>1 DEF QueueInv, SeqInv, Taken, Elems
  <1>6. CASE tangled
    <2>1. TangledInv
      BY <1>6 DEF HeapInv
    <2>2. \A S : Circle(S) /\ cevents' = cevents => Circle(S)'
      BY <1>1, <1>2 DEF Circle, Reach
    <2>3. CASE DispatchStart
      <3>1. PICK S \in SUBSET Evt : events \in S /\ Circle(S)
        BY <2>1, <2>3 DEF TangledInv, DispatchStart, Endless
      <3>2. cevents' = cevents /\ evt' = events /\ rpc' = "loop"
        BY <2>3 DEF DispatchStart
      <3>3. Endless(evt)' /\ CacheInv'
        BY <1>1, <1>2, <2>1, <2>2, <3>1, <3>2 DEF Endless, TangledInv, CacheInv, Reach
      <3> QED BY <1>1, <1>4, <1>6, <3>2, <3>3 DEF HeapInv, TangledInv
    <2>4. CASE DispatchNext
      <3>1. PICK S \in SUBSET Evt : evt \in S /\ Circle(S)
        BY <2>1, <2>4 DEF TangledInv, DispatchNext, Endless
      <3>2. next[evt] \in S /\ next[evt] # NULL
        BY <3>1, Basics DEF Circle
      <3>3. cevents' = cevents /\ evt' = next[evt] /\ rpc' = "loop"
        BY <2>4, <3>2 DEF DispatchNext
      <3>4. Endless(evt)' /\ CacheInv'
        BY <1>1, <1>2, <2>1, <2>2, <3>1, <3>2, <3>3 DEF Endless, TangledInv, CacheInv, Reach
      <3> QED BY <1>1, <1>4, <1>6, <3>3, <3>4 DEF HeapInv, TangledInv
    <2> QED BY <2>1, <2>3, <2>4 DEF TangledInv, Redispatch, FreeFirst
  <1>7. CASE ~tangled
    <2>0. CacheInv /\ LoopInv /\ ReleaseInv /\ PendingInv
      BY <1>7 DEF HeapInv, ListInv
    <2>1. CASE DispatchStart \/ Redispatch
      <3>1. /\ rpc \in {"disp", "refree"} /\ rpc' = "loop" /\ del = NULL
            /\ evt' = events /\ del' = events /\ events' = NULL /\ cevents' = cevents
        BY <2>0, <2>1 DEF DispatchStart, Redispatch, LoopInv, DispatchPCs, FreePCs
      <3>2. CacheInv'
        BY <1>1, <1>2, <2>0, <3>1 DEF CacheInv, Reach
      <3>3. LoopInv'
        <4>1. Reach(del) = {} /\ Reach(NULL) = {} /\ Acyclic(next, NULL)
          BY <3>1, Basics
        <4> QED BY <1>1, <1>2, <2>0, <3>1, <4>1 DEF LoopInv, Reach, FreePCs, DispatchPCs
      <3>4. ReleaseInv'
        BY <3>1 DEF ReleaseInv
      <3>5. PendingInv'
        <4>1. Batch = {} /\ Batch' = Reach(events) /\ Reach(events)' = {}
          BY <1>2, <3>1, Basics DEF Batch, Reach
        <4> QED BY <1>1, <1>2, <2>0, <3>1, <4>1 DEF PendingInv, FreePCs
      <3> QED BY <1>1, <1>4, <1>7, <3>2, <3>3, <3>4, <3>5 DEF HeapInv, ListInv
    <2>2. CASE DispatchNext
      <3>1. /\ rpc = "adv" /\ evt \in Evt /\ evt' = next[evt] /\ UNCHANGED <<events, cevents, del>>
            /\ rpc' = "loop" \/ (rpc' = "refree" /\ evt' = NULL)
        BY <2>2, Basics DEF DispatchNext, QueueInv, PtrInv, PtrTo
      <3>2. Reach(evt) \subseteq Reach(del) /\ Acyclic(next, evt)
        BY <2>0, <3>1 DEF LoopInv, FreePCs, Acyclic, Reach
      <3>3. Reach(next[evt]) = Reach(evt) \ {evt}
        BY <3>1, <3>2, Pop
      <3>4. CacheInv'
        BY <1>1, <1>2, <2>0, <3>1 DEF CacheInv, Reach
      <3>5. LoopInv'
        <4>1. Reach(evt)' \subseteq Reach(del)
          BY <1>2, <3>1, <3>2, <3>3 DEF Reach
        <4> QED BY <1>1, <1>2, <2>0, <3>1, <4>1 DEF LoopInv, Reach, FreePCs, DispatchPCs
      <3>6. ReleaseInv'
        BY <3>1 DEF ReleaseInv
      <3>7. PendingInv'
        <4>1. Batch = Reach(evt) /\ Reach(events)' = Reach(events)
          BY <1>2, <3>1 DEF Batch, Reach
        <4>2. Reach(evt) \ {evt} \subseteq Batch'
          <5>1. Reach(evt)' = Reach(evt) \ {evt}
            BY <1>2, <3>1, <3>3 DEF Reach
          <5>2. rpc' = "refree" => Reach(evt)' = {}
            BY <1>2, <3>1, Basics DEF Reach
          <5> QED BY <3>1, <5>1, <5>2 DEF Batch
        <4>3. \A e \in Post : Pending(e) => e # evt
          <5>1. what[evt] = "post" => calls[evt] > 0
            BY <2>0, <3>1 DEF PendingInv
          <5> QED BY <5>1 DEF Pending
        <4> QED BY <1>1, <1>2, <2>0, <3>1, <4>1, <4>2, <4>3 DEF PendingInv, FreePCs
      <3> QED BY <1>1, <1>4, <1>7, <3>4, <3>5, <3>6, <3>7 DEF HeapInv, ListInv
    <2>3. CASE FreeFirst
      <3>1. /\ rpc = "ffirst" /\ rpc' = "fevt" /\ del = NULL
            /\ \/ events # NULL /\ evt' = events /\ cevents' = cevents
               \/ events = NULL /\ evt' = cevents /\ cevents' = NULL
        BY <2>0, <2>3 DEF FreeFirst, LoopInv, FreePCs, DispatchPCs
      <3>2. Reach(del) = {} /\ Reach(NULL) = {} /\ Acyclic(next, NULL)
        BY <3>1, Basics
      <3>3. /\ Acyclic(next, events) /\ Reach(events) \cap Reach(cevents) = {}
            /\ \A c \in Reach(events) : ~Foreign(c)
            /\ alloc = Reach(events) \cup Reach(cevents) \cup Queued \cup raced \cup Unposted
        BY <1>5, <2>0, <3>1, <3>2 DEF LoopInv
      <3>4. CacheInv'
        BY <1>1, <1>2, <2>0, <3>1, <3>2 DEF CacheInv, Reach
      <3>5. ReleaseInv'
        BY <1>1, <1>2, <2>0, <3>1, <3>2, <3>3 DEF ReleaseInv, CacheInv, Reach
      <3>6. PendingInv'
        <4>1. Batch = {} /\ Reach(events) \subseteq Batch'
          BY <1>2, <3>1, <3>2 DEF Batch, Reach
        <4> QED BY <1>1, <1>2, <2>0, <3>1, <4>1 DEF PendingInv, FreePCs
      <3>7. LoopInv'
        BY <3>1 DEF LoopInv, FreePCs
      <3> QED BY <1>1, <1>4, <1>7, <3>4, <3>5, <3>6, <3>7 DEF HeapInv, ListInv
    <2> QED BY <2>1, <2>2, <2>3
  <1> QED BY <1>6, <1>7

(* gwrl_free: one event of the list, or of the cache, goes back to the heap.  *)
LEMMA FreeEventHeap ==
    ASSUME QueueInv, HeapInv, FreeEvent
    PROVE  HeapInv'
  <1> USE DEF heapVars, listVars, queueVars, flagVars, localVars, histVars
  <1>0. ~tangled /\ RacedInv /\ WalkInv /\ CacheInv /\ LoopInv /\ ReleaseInv /\ PendingInv
    BY DEF HeapInv, TangledInv, ListInv, FreeEvent
  <1>1. /\ rpc = "fevt" /\ rpc' = "fevt" /\ evt \in Evt
        /\ what' = [what EXCEPT ![evt] = "none"] /\ alloc' = alloc \ {evt} /\ next' = next
        /\ \/ next[evt] # NULL /\ evt' = next[evt] /\ cevents' = cevents
           \/ next[evt] = NULL /\ evt' = cevents /\ cevents' = NULL
        /\ UNCHANGED <<qevt, mode, ppc, calls, qseq, tseq, installed, raced, tangled>>
    BY Basics DEF FreeEvent, FreeCell, PtrTo
  <1>2. /\ Acyclic(next, evt) /\ Reach(evt) \cap Reach(cevents) = {}
        /\ \A c \in Reach(evt) \cup Reach(cevents) : ~Foreign(c)
        /\ Acyclic(next, cevents)
        /\ alloc = Reach(evt) \cup Reach(cevents) \cup Queued \cup raced \cup Unposted
    BY <1>0, <1>1 DEF ReleaseInv, CacheInv
  <1>3. Reach(next[evt]) = Reach(evt) \ {evt} /\ Acyclic(next, next[evt]) /\ evt \in Reach(evt)
    BY <1>1, <1>2, Pop
  <1>4. Reach(NULL) = {} /\ Acyclic(next, NULL)
    BY Basics
  <1>5. /\ evt \notin Queued \cup raced \cup Unposted
        /\ Queued' = Queued /\ Taken' = Taken /\ Unposted' = Unposted
        /\ \A e \in Post : Pushed(e)' <=> Pushed(e)
    <2>1. evt \notin Queued \cup raced \cup Unposted
      BY <1>0, <1>2, <1>3, Basics DEF RacedInv, Unposted
    <2>2. /\ Queued' = Queued /\ Taken' = Taken /\ Unposted' = Unposted
          /\ \A e \in Post : Pushed(e)' <=> Pushed(e)
      BY <1>1, Zenon DEF Queued, Taken, Unposted, Elems, Pushed
    <2> QED BY <2>1, <2>2
  <1>6. \A d \in Evt : Foreign(d)' <=> Foreign(d)
    <2>1. what \in [Evt -> Kinds]
      BY DEF QueueInv, TypeOK, HeapType
    <2> QED BY <1>1, <1>2, <1>3, <2>1 DEF Foreign
  <1>7. \A p : Reachable(next', p) = Reach(p)
    BY <1>1 DEF Reach
  <1>8. /\ Reach(evt)' \cup Reach(cevents)' = (Reach(evt) \cup Reach(cevents)) \ {evt}
        /\ Reach(evt)' \cap Reach(cevents)' = {}
        /\ Acyclic(next', evt') /\ Acyclic(next', cevents')
        /\ Reach(evt) \ {evt} \subseteq Reach(evt)'
        /\ evt' = NULL => cevents' = NULL
    BY <1>1, <1>2, <1>3, <1>4, <1>7 DEF Reach
  <1>9. CacheInv'
    BY <1>1, <1>2, <1>5, <1>6, <1>8, Basics DEF CacheInv
  <1>10. RacedInv' /\ WalkInv'
    BY <1>0, <1>1, <1>5, <1>6, <1>7, Basics DEF RacedInv, WalkInv, WalkPCs, Reach
  <1>11. LoopInv'
    BY <1>1 DEF LoopInv, FreePCs
  <1>12. ReleaseInv'
    <2>1. \A c \in Reach(evt)' : ~Foreign(c)'
      BY <1>2, <1>6, <1>8, Basics
    <2>2. alloc' = Reach(evt)' \cup Reach(cevents)' \cup Queued' \cup raced' \cup Unposted'
      BY <1>1, <1>2, <1>5, <1>8
    <2> QED BY <1>1, <1>8, <2>1, <2>2 DEF ReleaseInv
  <1>13. PendingInv'
    <2>1. \A e \in Post : Pending(e)' => Pending(e) /\ e # evt
      <3>1. what \in [Evt -> Kinds]
        BY DEF QueueInv, TypeOK, HeapType
      <3> QED BY <1>1, <1>5, <3>1, Basics DEF Pending
    <2>2. Batch = Reach(evt) /\ Batch' = Reach(evt)' /\ rpc \in FreePCs \ {"ffirst"}
      BY <1>1 DEF Batch, FreePCs
    <2>3. ASSUME NEW e \in Post, Pending(e)', e \notin raced'
          PROVE  e \in Queued' \cup Taken' \cup Batch'
      BY <1>0, <1>1, <1>5, <1>8, <2>1, <2>2, <2>3 DEF PendingInv
    <2> QED BY <1>1, <2>2, <2>3 DEF PendingInv
  <1> QED BY <1>0, <1>1, <1>9, <1>10, <1>11, <1>12, <1>13 DEF HeapInv, ListInv
(* The queue is taken over: the head is read, and set to NULL.                *)
LEMMA TakeHeap ==
    ASSUME QueueInv, HeapInv, TakeHead \/ ClearQueue \/ FreeQueue
    PROVE  HeapInv'
  <1> USE DEF heapVars, listVars, queueVars, flagVars, localVars, histVars, RGoto
  <1>0. ~tangled /\ RacedInv /\ WalkInv /\ CacheInv /\ LoopInv /\ ReleaseInv /\ PendingInv
    BY DEF HeapInv, TangledInv, ListInv, TakeHead, ClearQueue, FreeQueue
  <1>1. UNCHANGED <<next, what, alloc, events, cevents, del, mode, ppc, calls, installed, tangled>>
    BY DEF TakeHead, ClearQueue, FreeQueue
  <1>2. /\ Unposted' = Unposted
        /\ \A p : Reachable(next', p) = Reach(p)
        /\ \A c : Foreign(c)' <=> Foreign(c)
        /\ \A e \in Post : (Pushed(e)' <=> Pushed(e)) /\ (Pending(e)' <=> Pending(e))
    BY <1>1, Zenon DEF Unposted, Reach, Foreign, Pushed, Pending
  <1>3. \/ /\ rpc = "take" /\ rpc' = "lock" /\ evt' = qevt /\ qevt' = qevt
           /\ Taken = {} /\ Taken' = Queued /\ Queued' = Queued /\ raced' = raced
        \/ /\ rpc = "clear" /\ rpc' = "inst" /\ evt' = evt /\ qevt' = NULL
           /\ Taken' = Taken /\ Queued' = {} /\ raced' = raced \cup (Queued \ Taken)
        \/ /\ rpc = "fevt" /\ rpc' = "fqevt" /\ evt = NULL /\ evt' = qevt /\ qevt' = NULL
           /\ Taken = {} /\ Taken' = Queued /\ Queued' = {} /\ raced' = raced
    <2>1. Elems(<<>>) = {}
      BY DEF Elems
    <2>2. rpc \in {"take", "fevt"} => Taken = {}
      BY <2>1 DEF QueueInv, SeqInv, WalkPCs, Taken
    <2>3. CASE TakeHead
      BY <2>2, <2>3 DEF TakeHead, Taken, Queued, Elems
    <2>4. CASE ClearQueue
      BY <2>1, <2>4 DEF ClearQueue, Taken, Queued, Elems
    <2>5. CASE FreeQueue
      BY <2>1, <2>2, <2>5 DEF FreeQueue, Taken, Queued, Elems
    <2> QED BY <2>3, <2>4, <2>5
  <1>4. Reach(NULL) = {} /\ Acyclic(next, NULL)
    BY Basics
  <1>5. CacheInv'
    BY <1>0, <1>1, <1>2 DEF CacheInv, Reach
  <1>6. RacedInv'
    BY <1>0, <1>2, <1>3, Basics DEF RacedInv
  <1>7. WalkInv'
    BY <1>0, <1>1, <1>2, <1>3, <1>4 DEF WalkInv, WalkPCs, Reach
  <1>8. LoopInv'
    <2>1. CASE rpc = "fevt" /\ rpc' = "fqevt"
      BY <2>1 DEF LoopInv, FreePCs
    <2>2. CASE rpc \in {"take", "clear"}
      <3>1. rpc' \in {"lock", "inst"} /\ rpc \notin FreePCs \ {"ffirst"}
        BY <1>3, <2>2 DEF FreePCs
      <3>2. Queued \cup Taken \cup raced = Queued' \cup Taken' \cup raced'
        BY <1>3, <2>2
      <3> QED BY <1>0, <1>1, <1>2, <2>2, <3>1, <3>2 DEF LoopInv, Reach, DispatchPCs
    <2> QED BY <1>3, <2>1, <2>2
  <1>9. ReleaseInv'
    BY <1>0, <1>1, <1>2, <1>3, <1>4 DEF ReleaseInv, Reach
  <1>10. PendingInv'
    <2>1. Batch = {}
      BY <1>3, <1>4 DEF Batch
    <2>2. ASSUME NEW e \in Post, Pending(e)', e \notin raced'
          PROVE  e \in Queued' \cup Taken' \cup Batch'
                         \cup (IF rpc' \in FreePCs \ {"ffirst"} THEN {} ELSE Reach(events)')
      <3>1. e \in Queued \cup Taken \cup (IF rpc \in FreePCs \ {"ffirst"} THEN {} ELSE Reach(events))
        BY <1>0, <1>2, <1>3, <2>1, <2>2 DEF PendingInv
      <3>2. Reach(events)' = Reach(events)
        BY <1>1, <1>2 DEF Reach
      <3> QED BY <1>3, <2>2, <3>1, <3>2 DEF FreePCs
    <2> QED BY <1>3, <2>2 DEF PendingInv
  <1> QED BY <1>0, <1>1, <1>5, <1>6, <1>7, <1>8, <1>9, <1>10 DEF HeapInv, ListInv

(* The walk over the queued events: each is taken off the list it was on.     *)
LEMMA WalkStepHeap ==
    ASSUME QueueInv, HeapInv, rpc \in {"inst", "fqevt"}, evt # NULL, tseq' = Tail(tseq),
           evt' = next[evt]
    PROVE  /\ evt \in Evt /\ Foreign(evt) /\ evt \in Taken /\ evt \notin Queued \cup raced \cup Unposted
           /\ Taken' = Taken \ {evt} /\ evt \in Post
           /\ Reach(evt) = Taken /\ Reach(next[evt]) = Taken \ {evt} /\ Acyclic(next, next[evt])
  <1>1. RacedInv /\ WalkInv
    BY DEF HeapInv
  <1>2. Acyclic(next, evt) /\ Reach(evt) = Taken
    BY <1>1 DEF WalkInv, WalkPCs
  <1>3. evt \in Evt
    BY Basics DEF PtrTo
  <1>4. Reach(next[evt]) = Taken \ {evt} /\ Acyclic(next, next[evt]) /\ evt \in Taken
    BY <1>2, <1>3, Pop
  <1>5. Taken' = Taken \ {evt} /\ evt \notin Queued
    BY WalkFacts DEF Taken, Queued, Elems
  <1>6. Foreign(evt) /\ Pushed(evt) /\ evt \in Post
    BY <1>4, Basics
  <1>7. evt \notin raced \cup Unposted
    BY <1>1, <1>4, <1>6 DEF RacedInv, Unposted
  <1> QED BY <1>2, <1>3, <1>4, <1>5, <1>6, <1>7
(* gwrl_post_evt for a queued event.  On an empty list it leaves evt->next as *)
(* it was, which closes a circle when another event follows.                  *)
LEMMA InstallHeap ==
    ASSUME QueueInv, HeapInv, InstallOne
    PROVE  /\ HeapInv' /\ Foreign(evt) /\ evt \in Post
           /\ ~tangled' => Reach(events)' = Reach(events) \cup {evt}
  <1> USE DEF heapVars, listVars, queueVars, flagVars, localVars, histVars
  <1>0. RacedInv /\ WalkInv /\ CacheInv
    BY DEF HeapInv, TangledInv, ListInv
  <1>1. /\ rpc = "inst" /\ rpc' = "inst" /\ evt # NULL /\ evt' = next[evt] /\ tseq' = Tail(tseq)
        /\ next' = PostLink(next, events, evt) /\ events' = evt
        /\ installed' = installed \cup {evt}
        /\ tangled' = (tangled \/ (events = NULL /\ next[evt] # NULL))
        /\ UNCHANGED <<what, alloc, cevents, del, qevt, mode, ppc, calls, qseq, raced>>
    BY DEF InstallOne
  <1>2. /\ evt \in Evt /\ Foreign(evt) /\ evt \in Taken /\ evt \notin Queued \cup raced \cup Unposted
        /\ Taken' = Taken \ {evt} /\ evt \in Post
        /\ Reach(evt) = Taken /\ Reach(next[evt]) = Taken \ {evt} /\ Acyclic(next, next[evt])
    BY <1>1, WalkStepHeap
  <1>3. /\ Queued' = Queued /\ Unposted' = Unposted
        /\ \A e \in Post : (Pushed(e)' <=> Pushed(e)) /\ (Pending(e)' <=> Pending(e))
        /\ \A d : Foreign(d)' <=> Foreign(d) /\ d # evt
    BY <1>1 DEF Queued, Unposted, Elems, Pushed, Pending, Foreign
  <1>4. next' = next \/ next' = [next EXCEPT ![evt] = events]
    BY <1>1 DEF PostLink
  <1>5. \A h : evt \notin Reach(h) => /\ Reachable(next', h) = Reach(h)
                                      /\ Acyclic(next, h) => Acyclic(next', h)
    <2>1. CASE next' = next
      BY <2>1 DEF Reach
    <2>2. CASE next' = [next EXCEPT ![evt] = events]
      BY <1>2, <2>2, Store
    <2> QED BY <1>4, <2>1, <2>2
  <1>6. evt \notin Reach(cevents) /\ evt \in alloc
    BY <1>0, <1>2, Basics DEF CacheInv
  <1>7. Reach(cevents)' = Reach(cevents) /\ CacheInv'
    <2>1. Reachable(next', cevents) = Reach(cevents) /\ Acyclic(next', cevents)
      BY <1>0, <1>5, <1>6 DEF CacheInv
    <2> QED BY <1>0, <1>1, <1>3, <2>1 DEF CacheInv, Reach
  <1>8. RacedInv'
    BY <1>0, <1>1, <1>2, <1>3, Basics DEF RacedInv
  <1>9. WalkInv'
    <2>1. Reachable(next', qevt) = Queued /\ Acyclic(next', qevt)
      BY <1>0, <1>2, <1>5 DEF WalkInv
    <2>2. Reachable(next', next[evt]) = Taken \ {evt} /\ Acyclic(next', next[evt])
      BY <1>2, <1>5
    <2> QED BY <1>1, <1>2, <1>3, <2>1, <2>2 DEF WalkInv, Reach
  <1>10. mode' = "free" => \A e \in Post : ppc'[e] \in {"new", "done"}
    BY <1>1 DEF HeapInv
  <1>11. CASE ~tangled /\ ~(events = NULL /\ next[evt] # NULL)
    <2>0. LoopInv /\ ReleaseInv /\ PendingInv
      BY <1>11 DEF HeapInv, ListInv
    <2>1. ~tangled'
      BY <1>1, <1>11
    <2>2. next' = [next EXCEPT ![evt] = events]
      BY <1>1, <1>2, <1>11, Basics DEF PostLink
    <2>3. /\ evt \notin Reach(events) /\ Acyclic(next, events) /\ del = NULL
          /\ \A c \in Reach(events) : ~Foreign(c)
          /\ Reach(events) \cap Reach(cevents) = {}
          /\ alloc = Reach(events) \cup Reach(del) \cup Reach(cevents) \cup Queued \cup Taken
                  \cup raced \cup Unposted
      BY <1>1, <1>2, <2>0 DEF LoopInv, FreePCs, DispatchPCs
    <2>4. Reach(events)' = Reach(events) \cup {evt} /\ Acyclic(next', events')
      <3>1. Reachable(next', evt) = {evt} \cup Reach(events) /\ Acyclic(next', evt)
        BY <1>2, <2>2, <2>3, Store
      <3> QED BY <1>1, <3>1 DEF Reach
    <2>5. Reach(del)' = {} /\ Reach(del) = {} /\ Acyclic(next', del')
      <3>1. Reach(NULL) = {} /\ Acyclic(next, NULL)
        BY Basics
      <3>2. Reachable(next', NULL) = {} /\ Acyclic(next', NULL)
        BY <1>5, <3>1
      <3> QED BY <1>1, <2>3, <3>1, <3>2 DEF Reach
    <2>6. LoopInv'
      <3>1. alloc' = Reach(events)' \cup Reach(del)' \cup Reach(cevents)' \cup Queued' \cup Taken'
                  \cup raced' \cup Unposted'
        BY <1>1, <1>2, <1>3, <1>7, <2>3, <2>4, <2>5
      <3>2. \A c \in Reach(events)' \cup Reach(del)' : ~Foreign(c)'
        BY <1>3, <2>3, <2>4, <2>5
      <3>3. Reach(events)' \cap Reach(cevents)' = {}
        BY <1>6, <1>7, <2>3, <2>4
      <3> QED BY <1>1, <2>3, <2>4, <2>5, <3>1, <3>2, <3>3 DEF LoopInv
    <2>7. ReleaseInv'
      BY <1>1 DEF ReleaseInv
    <2>8. PendingInv'
      <3>1. Batch = {} /\ rpc \notin FreePCs
        BY <1>1 DEF Batch, FreePCs
      <3>2. ASSUME NEW e \in Post, Pending(e)', e \notin raced'
            PROVE  e \in Queued' \cup Taken' \cup Reach(events)'
        BY <1>1, <1>2, <1>3, <2>0, <2>4, <3>1, <3>2 DEF PendingInv
      <3> QED BY <1>1, <3>1, <3>2 DEF PendingInv
    <2>9. HeapInv'
      BY <1>7, <1>8, <1>9, <1>10, <2>1, <2>6, <2>7, <2>8 DEF HeapInv, ListInv
    <2> QED BY <1>2, <2>4, <2>9
  <1>12. CASE ~tangled /\ events = NULL /\ next[evt] # NULL
    <2>1. tangled' /\ next' = next
      BY <1>1, <1>12 DEF PostLink
    <2>2. /\ rpc' = "inst" /\ evt' # NULL /\ events' # NULL /\ next'[events'] = evt'
          /\ events' \in alloc' \ Reach(cevents)' /\ ~Foreign(events)'
      BY <1>1, <1>3, <1>6, <1>7, <1>12, <2>1 DEF Foreign
    <2> QED BY <1>2, <1>7, <1>8, <1>9, <1>10, <2>1, <2>2 DEF HeapInv, TangledInv
  <1>13. CASE tangled
    <2>0. TangledInv /\ tangled'
      BY <1>1, <1>13 DEF HeapInv
    <2>1. PICK S \in SUBSET Evt :
              /\ events \in S /\ evt \notin S
              /\ \A c \in S : /\ c \in alloc \ Reach(cevents) /\ ~Foreign(c)
                              /\ next[c] \in S \cup {evt}
      <3>1. CASE /\ evt # NULL /\ events # NULL /\ next[events] = evt
                 /\ events \in alloc \ Reach(cevents) /\ ~Foreign(events)
        <4>1. {events} \in SUBSET Evt /\ evt \notin {events}
          BY <1>2, <3>1, Basics
        <4> USE <4>1
        <4> WITNESS {events} \in SUBSET Evt
        <4> QED BY <3>1, <4>1
      <3>2. CASE Endless(events)
        <4>1. PICK S \in SUBSET Evt : events \in S /\ Circle(S)
          BY <3>2 DEF Endless
        <4>2. evt \notin S
          BY <1>2, <4>1 DEF Circle
        <4> QED BY <4>1, <4>2 DEF Circle
      <3> QED BY <1>1, <2>0, <3>1, <3>2 DEF TangledInv
    <2>2. next' = [next EXCEPT ![evt] = events]
      BY <1>1, <2>1, Basics DEF PostLink
    <2>3. next'[evt] = events /\ \A c \in S : next'[c] = next[c]
      BY <1>2, <2>1, <2>2, Basics
    <2>4. PICK T \in SUBSET Evt : T = S \cup {evt}
      BY <1>2
    <2>5. Circle(T)'
      BY <1>1, <1>3, <1>6, <1>7, <2>1, <2>3, <2>4 DEF Circle
    <2>6. Endless(events)'
      BY <1>1, <2>4, <2>5 DEF Endless
    <2> QED BY <1>1, <1>2, <1>7, <1>8, <1>9, <1>10, <2>0, <2>6 DEF HeapInv, TangledInv
  <1> QED BY <1>11, <1>12, <1>13

(* gwrl_free releases a queued event.                                         *)
LEMMA FreeQueuedHeap ==
    ASSUME QueueInv, HeapInv, FreeQueued
    PROVE  HeapInv'
  <1> USE DEF heapVars, listVars, queueVars, flagVars, localVars, histVars
  <1>0. ~tangled /\ RacedInv /\ WalkInv /\ CacheInv /\ LoopInv /\ ReleaseInv /\ PendingInv
    BY DEF HeapInv, TangledInv, ListInv, FreeQueued
  <1>1. /\ rpc = "fqevt" /\ rpc' = "fqevt" /\ evt # NULL /\ evt' = next[evt] /\ tseq' = Tail(tseq)
        /\ what' = [what EXCEPT ![evt] = "none"] /\ alloc' = alloc \ {evt} /\ next' = next
        /\ UNCHANGED <<cevents, qevt, mode, ppc, calls, qseq, installed, raced, tangled>>
    BY DEF FreeQueued, FreeCell
  <1>2. /\ evt \in Evt /\ Foreign(evt) /\ evt \in Taken /\ evt \notin Queued \cup raced \cup Unposted
        /\ Taken' = Taken \ {evt} /\ evt \in Post
        /\ Reach(evt) = Taken /\ Reach(next[evt]) = Taken \ {evt} /\ Acyclic(next, next[evt])
    BY <1>1, WalkStepHeap
  <1>3. /\ Queued' = Queued /\ Unposted' = Unposted
        /\ \A e \in Post : Pushed(e)' <=> Pushed(e)
    BY <1>1, Zenon DEF Queued, Unposted, Elems, Pushed
  <1>4. what \in [Evt -> Kinds]
    BY DEF QueueInv, TypeOK, HeapType
  <1>5. \A d \in Evt : Foreign(d)' <=> Foreign(d) /\ d # evt
    BY <1>1, <1>2, <1>4 DEF Foreign
  <1>6. CacheInv'
    BY <1>0, <1>1, <1>4, <1>5, Basics DEF CacheInv, Reach, ReleaseInv
  <1>7. RacedInv'
    BY <1>0, <1>1, <1>2, <1>3, <1>5, Basics DEF RacedInv
  <1>8. WalkInv'
    BY <1>0, <1>1, <1>2, <1>3 DEF WalkInv, Reach
  <1>9. LoopInv'
    BY <1>1 DEF LoopInv, FreePCs
  <1>10. ReleaseInv'
    <2>1. cevents = NULL /\ Queued = {} /\ alloc = Taken \cup raced \cup Unposted
      BY <1>0, <1>1 DEF ReleaseInv
    <2> QED BY <1>1, <1>2, <1>3, <2>1 DEF ReleaseInv
  <1>11. PendingInv'
    <2>1. \A e \in Post : Pending(e)' => Pending(e) /\ e # evt
      BY <1>1, <1>3, <1>4, Basics DEF Pending
    <2>2. Batch = {} /\ rpc \in FreePCs \ {"ffirst"}
      BY <1>1 DEF Batch, FreePCs
    <2>3. ASSUME NEW e \in Post, Pending(e)', e \notin raced'
          PROVE  e \in Queued' \cup Taken'
      BY <1>0, <1>1, <1>2, <1>3, <2>1, <2>2, <2>3 DEF PendingInv
    <2> QED BY <1>1, <2>3 DEF PendingInv
  <1> QED BY <1>0, <1>1, <1>6, <1>7, <1>8, <1>9, <1>10, <1>11 DEF HeapInv, ListInv
(* gwrl_post_evt_safely: the event is linked and becomes the head of the      *)
(* queue.  Its cell is the posting side's, so no list of the reactor changes. *)
LEMMA LinkHeap ==
    ASSUME QueueInv, HeapInv, NEW e \in Post, PLink(e)
    PROVE  /\ HeapInv'
           /\ ~tangled => /\ Reach(events)' = Reach(events)
                          /\ rpc \in {"loop", "adv"} => Reach(evt)' = Reach(evt)
  <1> USE DEF heapVars, listVars, queueVars, flagVars, localVars, histVars, PGoto
  <1>0. RacedInv /\ WalkInv /\ CacheInv
    BY DEF HeapInv, TangledInv, ListInv
  <1>1. /\ ppc[e] = "link" /\ ppc' = [ppc EXCEPT ![e] = "push"]
        /\ next' = [next EXCEPT ![e] = qevt]
        /\ UNCHANGED <<what, alloc, events, cevents, del, evt, qevt, rpc, mode, calls, qseq, tseq,
                       installed, raced, tangled>>
    BY DEF PLink
  <1>2. ~Pushed(e) /\ Foreign(e) /\ e \in Evt
    BY <1>1, Basics DEF Pushed
  <1>3. ppc \in [Post -> PPCs]
    BY DEF QueueInv, TypeOK, ControlType
  <1>4. \A d \in Post : Pushed(d)' <=> Pushed(d)
    BY <1>1, <1>3 DEF Pushed
  <1>5. /\ Queued' = Queued /\ Taken' = Taken /\ Unposted' = Unposted
        /\ \A d : Foreign(d)' <=> Foreign(d)
        /\ \A d \in Post : Pending(d)' <=> Pending(d)
    BY <1>1, <1>4, Zenon DEF Queued, Taken, Unposted, Elems, Foreign, Pending
  <1>6. \A h : e \notin Reach(h) => /\ Reachable(next', h) = Reach(h)
                                    /\ Acyclic(next, h) => Acyclic(next', h)
    BY <1>1, <1>2, Store
  <1>7. mode # "free" /\ rpc \notin FreePCs
    BY <1>1 DEF HeapInv, QueueInv, ControlInv
  <1>8. e \notin Reach(cevents) /\ e \notin Queued \cup Taken
    BY <1>0, <1>2, Basics DEF CacheInv
  <1>9. Reach(cevents)' = Reach(cevents) /\ CacheInv'
    <2>1. Reachable(next', cevents) = Reach(cevents) /\ Acyclic(next', cevents)
      BY <1>0, <1>6, <1>8 DEF CacheInv
    <2> QED BY <1>0, <1>1, <1>5, <2>1 DEF CacheInv, Reach
  <1>10. RacedInv'
    BY <1>0, <1>1, <1>4, <1>5, Basics DEF RacedInv
  <1>11. WalkInv'
    <2>1. Reachable(next', qevt) = Queued /\ Acyclic(next', qevt)
      BY <1>0, <1>6, <1>8 DEF WalkInv
    <2>2. rpc \in WalkPCs => Reachable(next', evt) = Taken /\ Acyclic(next', evt)
      BY <1>0, <1>6, <1>8 DEF WalkInv
    <2> QED BY <1>1, <1>5, <2>1, <2>2 DEF WalkInv, Reach
  <1>12. CASE tangled
    <2>0. TangledInv
      BY <1>12 DEF HeapInv
    <2>1. ASSUME NEW S \in SUBSET Evt, Circle(S) PROVE Circle(S)'
      <3>1. e \notin S
        BY <1>2, <2>1 DEF Circle
      <3>2. \A c \in S : next'[c] = next[c]
        BY <1>1, <3>1, Basics
      <3> QED BY <1>1, <1>5, <1>9, <2>1, <3>2 DEF Circle
    <2>2. (Endless(events) => Endless(events)') /\ (Endless(evt) => Endless(evt)')
      BY <1>1, <2>1 DEF Endless
    <2>3. events # NULL /\ ~Foreign(events) => next'[events] = next[events]
      BY <1>1, <1>2, Basics DEF PtrTo
    <2>4. TangledInv'
      <3>1. CASE rpc = "inst" /\ evt # NULL /\ events # NULL /\ next[events] = evt
                 /\ events \in alloc \ Reach(cevents) /\ ~Foreign(events)
        <4>1. ~Foreign(events)'
          BY <1>1, <3>1 DEF Foreign
        <4> QED BY <1>1, <1>9, <2>3, <3>1, <4>1 DEF TangledInv
      <3>2. CASE rpc \in {"inst", "disp"} /\ Endless(events)
        BY <1>1, <1>9, <2>2, <3>2 DEF TangledInv
      <3>3. CASE rpc \in {"loop", "adv"} /\ Endless(evt)
        BY <1>1, <1>9, <2>2, <3>3 DEF TangledInv
      <3> QED BY <2>0, <3>1, <3>2, <3>3 DEF TangledInv
    <2> QED BY <1>1, <1>7, <1>10, <1>11, <1>12, <2>4 DEF HeapInv
  <1>13. CASE ~tangled
    <2>0. LoopInv /\ ReleaseInv /\ PendingInv
      BY <1>13 DEF HeapInv, ListInv
    <2>1. /\ e \notin Reach(events) /\ e \notin Reach(del)
          /\ rpc \in {"loop", "adv"} => e \notin Reach(evt)
      BY <1>2, <1>7, <2>0 DEF LoopInv
    <2>2. /\ Reach(events)' = Reach(events) /\ (Acyclic(next, events) => Acyclic(next', events'))
          /\ Reach(del)' = Reach(del) /\ (Acyclic(next, del) => Acyclic(next', del'))
          /\ rpc \in {"loop", "adv"} => Reach(evt)' = Reach(evt)
      <3>1. Reachable(next', events) = Reach(events) /\ (Acyclic(next, events) => Acyclic(next', events))
        BY <1>6, <2>1
      <3>2. Reachable(next', del) = Reach(del) /\ (Acyclic(next, del) => Acyclic(next', del))
        BY <1>6, <2>1
      <3>3. rpc \in {"loop", "adv"} => Reachable(next', evt) = Reach(evt)
        BY <1>6, <2>1
      <3> QED BY <1>1, <3>1, <3>2, <3>3 DEF Reach
    <2>3. LoopInv'
      BY <1>1, <1>5, <1>7, <1>9, <2>0, <2>2 DEF LoopInv
    <2>4. ReleaseInv'
      BY <1>1, <1>7 DEF ReleaseInv, FreePCs
    <2>5. PendingInv'
      <3>1. Batch' = Batch
        BY <1>1, <1>7, <2>2 DEF Batch, FreePCs
      <3> QED BY <1>1, <1>5, <2>0, <2>2, <3>1 DEF PendingInv
    <2>6. HeapInv'
      BY <1>1, <1>7, <1>9, <1>10, <1>11, <1>13, <2>3, <2>4, <2>5 DEF HeapInv, ListInv
    <2> QED BY <2>2, <2>6
  <1> QED BY <1>12, <1>13

LEMMA PushHeap ==
    ASSUME QueueInv, HeapInv, NEW e \in Post, PPush(e)
    PROVE  HeapInv'
  <1> USE DEF heapVars, listVars, queueVars, flagVars, localVars, histVars, PGoto
  <1>0. RacedInv /\ WalkInv /\ next[e] = qevt
    BY DEF HeapInv, QueueInv, PushIsFresh, PPush
  <1>1. /\ ppc[e] = "push" /\ ppc' = [ppc EXCEPT ![e] = "test"] /\ qevt' = e
        /\ qseq' = <<e>> \o qseq
        /\ UNCHANGED <<next, what, alloc, events, cevents, del, evt, rpc, mode, calls, tseq,
                       installed, raced, tangled>>
    BY DEF PPush
  <1>2. ~Pushed(e) /\ Foreign(e) /\ e \in Evt
    BY <1>1, Basics DEF Pushed
  <1>3. ppc \in [Post -> PPCs] /\ qseq \in Seq(Post)
    BY DEF QueueInv, TypeOK, ControlType, QueueType
  <1>4. \A d \in Post : Pushed(d)' <=> Pushed(d) \/ d = e
    BY <1>1, <1>3 DEF Pushed
  <1>5. /\ Queued' = Queued \cup {e} /\ Taken' = Taken /\ Unposted' = Unposted \ {e}
        /\ e \in Unposted /\ \A d : Foreign(d)' <=> Foreign(d)
        /\ \A p : Reachable(next', p) = Reach(p)
    <2>1. Queued' = Queued \cup {e}
      <3>1. Elems(qseq') = Elems(qseq) \cup {e}
        BY <1>1, <1>3, ConsElems
      <3> QED BY <3>1 DEF Queued, Elems
    <2>2. Taken' = Taken /\ (\A d : Foreign(d)' <=> Foreign(d)) /\ \A p : Reachable(next', p) = Reach(p)
      BY <1>1, Zenon DEF Taken, Elems, Foreign, Reach
    <2>3. Unposted' = Unposted \ {e} /\ e \in Unposted
      BY <1>2, <1>4 DEF Unposted
    <2> QED BY <2>1, <2>2, <2>3
  <1>6. mode # "free" /\ rpc \notin FreePCs
    BY <1>1 DEF HeapInv, QueueInv, ControlInv
  <1>7. e \notin Queued \cup Taken \cup raced
    BY <1>0, <1>2, Basics DEF RacedInv
  <1>8. RacedInv'
    BY <1>0, <1>1, <1>4, <1>5, <1>7, Basics DEF RacedInv
  <1>9. WalkInv'
    <2>1. Reach(qevt) = Queued /\ Acyclic(next, qevt)
      BY <1>0 DEF WalkInv
    <2>2. Reachable(next, e) = {e} \cup Queued
      BY <1>0, <1>2, <2>1, WalkFromCell, Basics DEF Reach
    <2>3. Acyclic(next, e)
      BY <1>0, <1>7, <2>1, <2>2 DEF Acyclic, Reach
    <2> QED BY <1>0, <1>1, <1>5, <2>2, <2>3 DEF WalkInv, Reach
  <1>10. CASE tangled
    <2>0. TangledInv
      BY <1>10 DEF HeapInv
    <2>1. TangledInv'
      BY <2>0, <1>1, <1>5 DEF TangledInv, CacheInv, Endless, Circle, Reach, Foreign
    <2> QED BY <1>1, <1>6, <1>8, <1>9, <1>10, <2>1 DEF HeapInv
  <1>11. CASE ~tangled
    <2>0. CacheInv /\ LoopInv /\ ReleaseInv /\ PendingInv
      BY <1>11 DEF HeapInv, ListInv
    <2>1. CacheInv'
      BY <1>1, <1>5, <2>0 DEF CacheInv, Reach
    <2>2. LoopInv'
      <3>1. Queued' \cup Unposted' = Queued \cup Unposted
        BY <1>5
      <3> QED BY <1>1, <1>5, <1>6, <2>0, <3>1 DEF LoopInv, Reach
    <2>3. ReleaseInv'
      BY <1>1, <1>6 DEF ReleaseInv, FreePCs
    <2>4. PendingInv'
      <3>1. Batch' = Batch /\ Reach(events)' = Reach(events)
        BY <1>1, <1>5 DEF Batch, Reach
      <3>2. \A d \in Post : Pending(d)' => Pending(d) \/ d = e
        BY <1>1, <1>4 DEF Pending
      <3> QED BY <1>1, <1>5, <2>0, <3>1, <3>2 DEF PendingInv
    <2> QED BY <1>1, <1>6, <1>8, <1>9, <1>11, <2>1, <2>2, <2>3, <2>4 DEF HeapInv, ListInv
  <1> QED BY <1>10, <1>11
-----------------------------------------------------------------------------
LEMMA HeapInit == Init => HeapInv
  <1> SUFFICES ASSUME Init PROVE HeapInv
    OBVIOUS
  <1>1. QueueInv
    BY InitQueueInv
  <1>2. Reach(NULL) = {} /\ Acyclic(next, NULL)
    BY <1>1, Basics
  <1>3. Queued = {} /\ Taken = {} /\ raced = {} /\ Unposted = Post /\ Batch = {}
    BY DEF Init, Queued, Taken, Elems, Unposted, Pushed, Batch
  <1>4. RacedInv /\ WalkInv /\ CacheInv /\ ReleaseInv
    BY <1>2, <1>3 DEF Init, RacedInv, WalkInv, CacheInv, ReleaseInv, WalkPCs
  <1>5. LoopInv
    BY <1>2, <1>3 DEF Init, LoopInv
  <1>6. PendingInv
    BY DEF Init, PendingInv, Pending, Pushed
  <1>7. mode # "free" /\ ~tangled
    BY DEF Init
  <1> QED BY <1>4, <1>5, <1>6, <1>7 DEF HeapInv, ListInv

LEMMA CreateStepHeap ==
    ASSUME QueueInv, HeapInv, UserCallback \/ TimeGather \/ Gather \/ GatherFnc
    PROVE  HeapInv'
  <1> USE DEF RGoto, heapVars, listVars, queueVars, flagVars, localVars, histVars
  <1>1. \/ UNCHANGED <<heapVars, listVars>>
        \/ \E k \in Kinds \ {"post"} : CreateAndPost(k)
    BY DEF UserCallback, TimeGather, Gather, GatherFnc, Kinds
  <1>2. CASE UNCHANGED <<heapVars, listVars>>
    BY <1>2, QuietHeap
  <1>3. CASE \E k \in Kinds \ {"post"} : CreateAndPost(k)
    <2>1. PICK k \in Kinds \ {"post"} : CreateAndPost(k)
      BY <1>3
    <2>2. /\ UNCHANGED <<evt, del, qevt, qseq, tseq, installed, raced, tangled, ppc>>
          /\ mode' = "free" => mode = "free"
      BY DEF UserCallback, TimeGather, Gather, GatherFnc
    <2>3. CASE UserCallback
      <3>1. /\ \A e \in Post : calls'[e] = 0 => calls[e] = 0
            /\ what[evt] = "post" => calls'[evt] > 0
            /\ rpc = "loop" /\ rpc' = "adv"
        BY <2>3, CallCounts DEF UserCallback
      <3> QED BY <2>1, <2>2, <3>1, CreateHeap
    <2>4. CASE TimeGather \/ Gather \/ GatherFnc
      <3>1. /\ calls' = calls /\ rpc \in {"time", "gather", "gatherfn"}
            /\ rpc' \in {"flset", "gatherfn", "check", "idle"}
        BY <2>4 DEF TimeGather, Gather, GatherFnc
      <3>2. \A e \in Post : calls'[e] = 0 => calls[e] = 0
        BY <3>1
      <3> QED BY <2>1, <2>2, <3>1, <3>2, CreateHeap
    <2> QED BY <2>3, <2>4
  <1> QED BY <1>1, <1>2, <1>3

(* Every step keeps the cells in place.                                       *)
LEMMA HeapNext == QueueInv /\ HeapInv /\ [Next]_vars => HeapInv'
  <1> SUFFICES ASSUME QueueInv, HeapInv, [Next]_vars PROVE HeapInv'
    OBVIOUS
  <1>1. CASE ReactorStep \/ PollInterrupted \/ ClientCall
    BY <1>1, QuietHeap, CreateStepHeap, FreeListHeap, BatchHeap, FreeEventHeap, TakeHeap,
       InstallHeap, FreeQueuedHeap
    DEF ReactorStep, ClientCall, InstallStep, DispatchStep, GatherStep, FreeStep
  <1>2. CASE \E e \in Post : PStart(e) \/ PosterStep(e)
    BY <1>2, QuietHeap, LinkHeap, PushHeap DEF PosterStep
  <1>3. CASE Freed \/ UNCHANGED vars
    BY <1>3, QuietHeap
  <1> QED BY <1>1, <1>2, <1>3 DEF Next

LEMMA SleepInit == Init => SleepInv
  BY DEF Init, SleepInv, Queued, Elems

(* The reactor thread takes the queue once per iteration, before it can read  *)
(* the pipe empty.                                                            *)
LEMMA SleepReactor ==
    ASSUME QueueInv, WalkInv, SleepInv, ReactorStep \/ PollInterrupted \/ ClientCall
    PROVE  SleepInv'
  <1> USE DEF RGoto, heapVars, listVars, queueVars, flagVars, localVars, histVars
  <1> USE DEF ReactorStep, ClientCall, InstallStep, DispatchStep, GatherStep, FreeStep,
              gwrl_run, gwrl_run_once, gwrl_allow_poll_sleep, gwrl_free, CheckQueue, TakeHead,
              TakeLock, ClearQueue, InstallOne, InstallDone, DispatchStart, UserCallback,
              WakeActivity, DispatchNext, FreeListOne, Redispatch, DispatchLoopEnd,
              DispatchReturn, CheckStop, TimeGather, SetSleeping, PollReturns, PollInterrupted,
              ClearSleeping, Gather, GatherFnc, FreeFirst, FreeEvent, FreeQueue, FreeQueued, FreeDone
  <1>0. ControlInv /\ repost \in 0..RedispatchMax /\ RedispatchMax \in Nat
    BY BoundAssumption DEF QueueInv, TypeOK, ControlType, BoundAssumption
  <1>1. (sleeping => rpc \in {"poll", "flclr"}) => (sleeping' => rpc' \in {"poll", "flclr"})
    OBVIOUS
  <1>2. /\ UNCHANGED <<ppc, unwoken>>
        /\ mode' # "free" => mode # "free"
    BY <1>0 DEF ControlInv, DispatchPCs, FreePCs
  <1>3. /\ qseq' = qseq \/ qseq' = <<>>
        /\ rpc = "check" /\ rpc' = "disp" => qevt = NULL
        /\ mode' # "free" /\ rpc \in AwakePCs =>
              \/ rpc' \in AwakePCs /\ pipe' = pipe
              \/ rpc = "check" /\ rpc' = "disp" /\ qseq' = qseq
              \/ qseq' = <<>>
    BY DEF AwakePCs
  <1>4. (events # NULL /\ repost # RedispatchMax =>
          /\ rpc = "loop" => evt # NULL
          /\ rpc \notin {"lastfree", "stopchk", "time"}
          /\ rpc = "flset" => timeout = "zero"
          /\ rpc = "poll" => timeout # "inf")
        => (events' # NULL /\ repost' # RedispatchMax =>
          /\ rpc' = "loop" => evt' # NULL
          /\ rpc' \notin {"lastfree", "stopchk", "time"}
          /\ rpc' = "flset" => timeout' = "zero"
          /\ rpc' = "poll" => timeout' # "inf")
    BY <1>0
  <1> HIDE DEF ReactorStep, ClientCall, InstallStep, DispatchStep, GatherStep, FreeStep
  <1>5. ASSUME mode' # "free", NEW e \in Post, e \in Queued', Woken(e)'
        PROVE  rpc' \in AwakePCs /\ (ppc'[e] = "done" => pipe')
    <2>1. qseq' = qseq /\ e \in Queued /\ Woken(e)
      BY <1>2, <1>3, <1>5 DEF Queued, Elems, Woken
    <2>2. rpc \in AwakePCs /\ (ppc[e] = "done" => pipe)
      BY <1>2, <1>5, <2>1 DEF SleepInv
    <2>3. qevt # NULL
      BY <2>1, Basics DEF WalkInv
    <2>4. qseq' # <<>>
      BY <2>1 DEF Queued, Elems
    <2> QED BY <1>2, <1>3, <1>5, <2>2, <2>3, <2>4
  <1> QED BY <1>1, <1>4, <1>5 DEF SleepInv

(* A posting thread that finds GWRL_SLEEPING set fills the pipe.              *)
LEMMA SleepPoster ==
    ASSUME QueueInv, SleepInv, NEW e \in Post, PStart(e) \/ PosterStep(e)
    PROVE  SleepInv'
  <1> USE DEF PGoto, heapVars, listVars, queueVars, flagVars, localVars, histVars
  <1>0. ppc \in [Post -> PPCs] /\ qseq \in Seq(Post)
    BY DEF QueueInv, TypeOK, ControlType, QueueType
  <1>1. UNCHANGED <<sleeping, rpc, mode, events, repost, evt, timeout>>
    BY DEF PStart, PosterStep, PLock, PLink, PPush, PTest, PWrite
  <1>2. ASSUME NEW d \in Post, d \in Queued', Woken(d)', mode # "free"
        PROVE  rpc \in AwakePCs /\ (ppc'[d] = "done" => pipe')
    <2>1. CASE PPush(e)
      <3>1. Queued' = Queued \cup {e}
        <4>1. Elems(qseq') = Elems(qseq) \cup {e}
          BY <1>0, <2>1, ConsElems DEF PPush
        <4> QED BY <4>1 DEF Queued, Elems
      <3>2. d # e /\ Woken(d) /\ ppc'[d] = ppc[d] /\ pipe' = pipe
        BY <1>0, <1>2, <2>1 DEF PPush, Woken
      <3> QED BY <1>2, <3>1, <3>2 DEF SleepInv
    <2>2. CASE PStart(e) \/ PLock(e) \/ PLink(e)
      <3>1. Queued' = Queued /\ Woken(d) /\ ppc'[d] = ppc[d] /\ pipe' = pipe
        BY <1>0, <1>2, <2>2 DEF PStart, PLock, PLink, Woken, Queued, Elems
      <3> QED BY <1>2, <3>1 DEF SleepInv
    <2>3. CASE PTest(e)
      <3>1. Queued' = Queued /\ pipe' = pipe
        BY <2>3 DEF PTest, Queued, Elems
      <3>2. CASE d # e
        <4>1. Woken(d) /\ ppc'[d] = ppc[d]
          BY <1>0, <1>2, <2>3, <3>2 DEF PTest, Woken
        <4> QED BY <1>2, <3>1, <4>1 DEF SleepInv
      <3>3. CASE d = e
        <4>1. sleeping /\ ppc'[d] = "write"
          BY <1>0, <1>2, <2>3, <3>3 DEF PTest, Woken
        <4> QED BY <4>1 DEF SleepInv, AwakePCs
      <3> QED BY <3>2, <3>3
    <2>4. CASE PWrite(e)
      <3>1. Queued' = Queued /\ pipe' /\ Woken(d)
        BY <1>0, <1>2, <2>4 DEF PWrite, Woken, Queued, Elems
      <3> QED BY <1>2, <3>1 DEF SleepInv
    <2> QED BY <2>1, <2>2, <2>3, <2>4 DEF PosterStep
  <1> QED BY <1>1, <1>2 DEF SleepInv

LEMMA SleepNext == QueueInv /\ HeapInv /\ SleepInv /\ [Next]_vars => SleepInv'
  <1> SUFFICES ASSUME QueueInv, HeapInv, SleepInv, [Next]_vars PROVE SleepInv'
    OBVIOUS
  <1>1. CASE ReactorStep \/ PollInterrupted \/ ClientCall
    BY <1>1, SleepReactor DEF HeapInv
  <1>2. CASE \E e \in Post : PStart(e) \/ PosterStep(e)
    BY <1>2, SleepPoster
  <1>3. CASE Freed \/ UNCHANGED vars
    BY <1>3 DEF Freed, vars, heapVars, listVars, queueVars, flagVars, localVars, histVars,
                SleepInv, Queued, Elems, Woken
  <1> QED BY <1>1, <1>2, <1>3 DEF Next
-----------------------------------------------------------------------------
(* Where every event cell is, at every step of the posting threads and of     *)
(* gwrl_run, gwrl_run_once and gwrl_free: the invariant behind the theorems   *)
(* below.                                                                     *)
THEOREM CellsAreOwned == Spec => [](QueueInv /\ HeapInv /\ SleepInv)
  BY InitQueueInv, NextQueueInv, HeapInit, HeapNext, SleepInit, SleepNext, PTL DEF Spec

(* No event cell is on two of the lists rl->_qevt, the events being           *)
(* installed, rl->events, rl->cevents and the batch being called, and all are *)
(* allocated: gwrl_evt_free is applied to no cell twice.                      *)
THEOREM ListsAreDisjoint == Spec => []OwnedOnce
  <1>1. QueueInv /\ HeapInv => OwnedOnce
    <2> SUFFICES ASSUME QueueInv, HeapInv, ~tangled, rpc \notin FreePCs PROVE OwnedOnce
      BY DEF OwnedOnce
    <2> DEFINE queue == IF rpc \in {"lock", "clear"} THEN {} ELSE Reach(qevt)
               taken == IF rpc \in {"lock", "clear", "inst"} THEN Reach(evt) ELSE {}
               lists == <<queue, taken, Reach(events), Reach(cevents), Reach(del)>>
    <2>1. CacheInv /\ LoopInv /\ WalkInv
      BY DEF HeapInv, ListInv
    <2>2. /\ Reach(events) \cap Reach(cevents) = {}
          /\ Reach(del) \cap (Reach(events) \cup Reach(cevents)) = {}
          /\ Reach(events) \cup Reach(cevents) \cup Reach(del) \subseteq alloc
          /\ \A c \in Reach(events) \cup Reach(cevents) \cup Reach(del) : ~Foreign(c)
      BY <2>1 DEF CacheInv, LoopInv
    <2>3. /\ queue \subseteq Queued /\ taken \subseteq Taken /\ queue \cap taken = {}
      <3>1. rpc = "inst" => Queued \cap Taken = {}
        BY DEF QueueInv, SeqInv, Queued, Taken
      <3> QED BY <2>1, <3>1 DEF WalkInv, WalkPCs
    <2>4. /\ queue \cup taken \subseteq alloc
          /\ (queue \cup taken) \cap (Reach(events) \cup Reach(cevents) \cup Reach(del)) = {}
      BY <2>2, <2>3, Basics
    <2> HIDE DEF queue, taken
    <2>5. \A i \in 1..5 : /\ lists[i] \subseteq alloc
                          /\ \A j \in 1..5 : i # j => lists[i] \cap lists[j] = {}
      <3>1. \A i \in 1..5 : i = 1 \/ i = 2 \/ i = 3 \/ i = 4 \/ i = 5
        OBVIOUS
      <3>2. /\ lists[1] = queue /\ lists[2] = taken /\ lists[3] = Reach(events)
            /\ lists[4] = Reach(cevents) /\ lists[5] = Reach(del)
        OBVIOUS
      <3> HIDE DEF lists
      <3>3. \A i \in 1..5 : lists[i] \subseteq alloc
        BY <2>2, <2>4, <3>1, <3>2
      <3>4. \A i, j \in 1..5 : i # j => lists[i] \cap lists[j] = {}
        BY <2>2, <2>3, <2>4, <3>1, <3>2
      <3> QED BY <3>3, <3>4
    <2> QED BY <2>5 DEF OwnedOnce, queue, taken
  <1> QED BY <1>1, CellsAreOwned, PTL

(* A posted event that has not been called is on a list the reactor will      *)
(* still walk, unless it was dropped in the window of install_queued_events.  *)
THEOREM PostedStaysReachable == Spec => []PostedIsReachable
  <1>1. QueueInv /\ HeapInv => PostedIsReachable
    <2> SUFFICES ASSUME QueueInv, HeapInv, ~tangled, NEW e \in Post, Pending(e), e \notin raced
                 PROVE  e \in Reach(qevt) \cup Reach(events) \cup Reach(evt)
      BY DEF PostedIsReachable
    <2>1. PendingInv /\ WalkInv
      BY DEF HeapInv, ListInv
    <2>2. Taken \subseteq Reach(evt)
      <3>1. rpc \notin WalkPCs => Taken = {}
        BY DEF QueueInv, SeqInv, Taken, Elems
      <3> QED BY <2>1, <3>1 DEF WalkInv
    <2>3. Queued = Reach(qevt) /\ Batch \subseteq Reach(evt)
      BY <2>1 DEF WalkInv, Batch
    <2> QED BY <2>1, <2>2, <2>3 DEF PendingInv
  <1> QED BY <1>1, CellsAreOwned, PTL

(* gwrl_free releases every event the reactor was given, the queued ones and  *)
(* those left by the redispatch limit included.                               *)
THEOREM FreeIsComplete == Spec => []FreeReleasesAll
  <1>1. QueueInv /\ HeapInv => FreeReleasesAll
    <2> SUFFICES ASSUME QueueInv, HeapInv, rpc = "freed"
                 PROVE  alloc = raced \cup {e \in Post : ppc[e] = "new"}
      BY DEF FreeReleasesAll
    <2>1. ~tangled /\ ReleaseInv
      BY DEF HeapInv, TangledInv, ListInv
    <2>2. Taken = {} /\ mode = "free"
      BY DEF QueueInv, SeqInv, WalkPCs, Taken, Elems, ControlInv, FreePCs
    <2>3. Unposted = {e \in Post : ppc[e] = "new"}
      BY <2>2 DEF HeapInv, Unposted, Pushed
    <2> QED BY <2>1, <2>2, <2>3 DEF ReleaseInv
  <1> QED BY <1>1, CellsAreOwned, PTL

(* The loop sleeps over undispatched events only at the redispatch limit, and *)
(* over a queued event only when its poster found GWRL_SLEEPING clear, the    *)
(* pipe being readable in every other case.                                   *)
THEOREM SleepsOnlyJustified == Spec => []SleepIsJustified
  <1>1. QueueInv /\ HeapInv /\ SleepInv => SleepIsJustified
    <2> SUFFICES ASSUME QueueInv, HeapInv, SleepInv, rpc = "poll"
                 PROVE  /\ timeout = "inf" /\ events # NULL => repost = RedispatchMax
                        /\ \A e \in Post :
                              e \in Reach(qevt) /\ ppc[e] = "done" /\ e \notin unwoken => pipe
      BY DEF SleepIsJustified
    <2>1. timeout = "inf" /\ events # NULL => repost = RedispatchMax
      BY DEF SleepInv
    <2>2. Reach(qevt) = Queued /\ mode # "free"
      BY DEF HeapInv, WalkInv, QueueInv, ControlInv, DispatchPCs, FreePCs
    <2>3. ASSUME NEW e \in Post, e \in Reach(qevt), ppc[e] = "done", e \notin unwoken PROVE pipe
      BY <2>2, <2>3 DEF SleepInv, Woken
    <2> QED BY <2>1, <2>3
  <1> QED BY <1>1, CellsAreOwned, PTL

(* When install_queued_events puts the first of several events on an empty    *)
(* rl->events, gwrl_post_evt keeps its stale next and the list becomes a      *)
(* circle: from then on the reactor never gets past gwrl_dispatch, so neither *)
(* gwrl_stop nor gwrl_free takes effect.                                      *)
THEOREM TangledListNeverEnds ==
    Spec => [](tangled => rpc \in {"inst", "disp", "loop", "adv"})
  <1>1. HeapInv => (tangled => rpc \in {"inst", "disp", "loop", "adv"})
    BY DEF HeapInv, TangledInv
  <1> QED BY <1>1, CellsAreOwned, PTL
-----------------------------------------------------------------------------
(* Each event is called once.                                                 *)

LEMMA FreshInit == Init => FreshInv /\ SyncInv
  <1> SUFFICES ASSUME Init PROVE FreshInv /\ SyncInv
    OBVIOUS
  <1>1. Reach(NULL) = {}
    BY InitQueueInv, Basics
  <1> QED BY <1>1 DEF Init, FreshInv, SyncInv

(* Steps that leave rl->events and the rest of the batch alone.               *)
LEMMA FreshFrame ==
    ASSUME QueueInv, FreshInv, UNCHANGED <<next, what, calls, events, installed, tangled>>,
           rpc' \in {"loop", "adv"} => /\ evt' = evt /\ rpc \in {"loop", "adv"}
                                       /\ rpc' = "loop" => rpc = "loop",
           rpc \in FreePCs \ {"ffirst"} => rpc' \in FreePCs \ {"ffirst"}
    PROVE  FreshInv'
  <1>1. /\ \A c : (Foreign(c)' <=> Foreign(c)) /\ (Fresh(c)' <=> Fresh(c))
        /\ \A p : Reachable(next', p) = Reach(p)
    BY Zenon DEF Foreign, Fresh, Reach
  <1>2. Reach(events)' = Reach(events) /\ (evt' = evt => Reach(evt)' = Reach(evt))
    BY <1>1 DEF Reach
  <1>3. /\ \A c \in Post : Foreign(c)' => calls'[c] = 0
        /\ ~tangled' => \A c \in Post : calls'[c] \in {0, 1}
    BY <1>1 DEF FreshInv
  <1>4. ASSUME ~tangled', rpc' \notin FreePCs \ {"ffirst"}
        PROVE  /\ \A c \in Reach(events)' : Fresh(c)'
               /\ rpc' = "loop" => \A c \in Reach(evt)' : Fresh(c)'
               /\ rpc' = "adv" => \A c \in Reach(evt)' \ {evt'} : Fresh(c)'
    BY <1>1, <1>2, <1>4 DEF FreshInv
  <1> QED BY <1>3, <1>4 DEF FreshInv

LEMMA FreshQuiet ==
    ASSUME QueueInv, FreshInv,
           \/ gwrl_run \/ gwrl_run_once \/ gwrl_allow_poll_sleep \/ gwrl_free
           \/ CheckQueue \/ TakeHead \/ TakeLock \/ ClearQueue \/ InstallDone \/ WakeActivity
           \/ DispatchLoopEnd \/ DispatchReturn \/ CheckStop \/ SetSleeping \/ PollReturns
           \/ PollInterrupted \/ ClearSleeping \/ FreeFirst \/ FreeQueue \/ FreeDone
           \/ Freed \/ UNCHANGED vars
           \/ (TimeGather \/ Gather \/ GatherFnc) /\ UNCHANGED <<heapVars, listVars>>
           \/ \E e \in Post : PStart(e) \/ PLock(e) \/ PPush(e) \/ PTest(e) \/ PWrite(e)
    PROVE  FreshInv'
  <1> USE DEF RGoto, PGoto, heapVars, listVars, queueVars, flagVars, localVars, histVars, vars,
              gwrl_run, gwrl_run_once, gwrl_allow_poll_sleep, gwrl_free, CheckQueue, TakeHead,
              TakeLock, ClearQueue, InstallDone, WakeActivity, DispatchLoopEnd, DispatchReturn,
              CheckStop, SetSleeping, PollReturns, PollInterrupted, ClearSleeping, FreeFirst,
              FreeQueue, FreeDone, Freed, TimeGather, Gather, GatherFnc, PStart, PLock, PPush,
              PTest, PWrite
  <1>1. UNCHANGED <<next, what, calls, events, installed, tangled>>
    OBVIOUS
  <1>2. rpc' \in {"loop", "adv"} => /\ evt' = evt /\ rpc \in {"loop", "adv"}
                                    /\ rpc' = "loop" => rpc = "loop"
    OBVIOUS
  <1>3. rpc \in FreePCs \ {"ffirst"} => rpc' \in FreePCs \ {"ffirst"}
    BY DEF FreePCs
  <1> QED BY <1>1, <1>2, <1>3, FreshFrame

LEMMA FreshBatch ==
    ASSUME QueueInv, HeapInv, FreshInv, DispatchStart \/ Redispatch \/ DispatchNext
    PROVE  FreshInv'
  <1> USE DEF heapVars, listVars, queueVars, flagVars, localVars, histVars, RGoto
  <1>1. UNCHANGED <<next, what, calls, installed, tangled>> /\ rpc \notin FreePCs
    BY DEF DispatchStart, Redispatch, DispatchNext, FreePCs
  <1>2. /\ \A c : (Foreign(c)' <=> Foreign(c)) /\ (Fresh(c)' <=> Fresh(c))
        /\ \A p : Reachable(next', p) = Reach(p)
    BY <1>1, Zenon DEF Foreign, Fresh, Reach
  <1>3. /\ \A c \in Post : Foreign(c)' => calls'[c] = 0
        /\ ~tangled' => \A c \in Post : calls'[c] \in {0, 1}
    BY <1>1, <1>2 DEF FreshInv
  <1>4. ASSUME ~tangled'
        PROVE  /\ \A c \in Reach(events)' : Fresh(c)'
               /\ rpc' = "loop" => \A c \in Reach(evt)' : Fresh(c)'
               /\ rpc' # "adv"
    <2>0. LoopInv /\ ~tangled
      BY <1>1, <1>4 DEF HeapInv, ListInv
    <2>1. CASE DispatchStart \/ Redispatch
      <3>1. evt' = events /\ events' = NULL /\ rpc' = "loop"
        BY <2>1 DEF DispatchStart, Redispatch
      <3>2. Reach(events)' = {} /\ Reach(evt)' = Reach(events)
        BY <1>2, <3>1, Basics DEF Reach
      <3> QED BY <1>1, <1>2, <2>0, <3>1, <3>2 DEF FreshInv
    <2>2. CASE DispatchNext
      <3>1. rpc = "adv" /\ evt \in Evt /\ evt' = next[evt] /\ events' = events /\ rpc' # "adv"
        BY <2>2, Basics DEF DispatchNext, QueueInv, PtrInv, PtrTo
      <3>2. Acyclic(next, evt)
        BY <1>1, <2>0, <3>1 DEF LoopInv, Acyclic, Reach
      <3>3. Reach(evt)' = Reach(evt) \ {evt} /\ Reach(events)' = Reach(events)
        BY <1>2, <3>1, <3>2, Pop DEF Reach
      <3> QED BY <1>1, <1>2, <2>0, <3>1, <3>3 DEF FreshInv
    <2> QED BY <2>1, <2>2
  <1> QED BY <1>3, <1>4 DEF FreshInv

(* A callback is made for an event that was not called before.                *)
LEMMA FreshCall ==
    ASSUME QueueInv, HeapInv, FreshInv, UserCallback, what[evt] = "post"
    PROVE  /\ evt \in Post /\ Pushed(evt) /\ ~Foreign(evt)
           /\ calls' = [calls EXCEPT ![evt] = IF @ < 2 THEN @ + 1 ELSE @]
           /\ ~tangled => /\ calls[evt] = 0 /\ calls' = [calls EXCEPT ![evt] = 1]
                          /\ evt \notin Reach(events)
  <1>1. rpc = "loop" /\ evt \in Evt
    BY Basics DEF UserCallback, RGoto, PtrTo
  <1>2. evt \in Post /\ ~Foreign(evt)
    <2>1. evt \in Post
      BY <1>1 DEF QueueInv, CellInv
    <2>2. ~Foreign(evt)
      BY <1>1, Basics DEF QueueInv, PtrInv, WalkPCs, ReactorPtr
    <2> QED BY <2>1, <2>2
  <1>3. Pushed(evt)
    BY <1>2, Basics
  <1>4. calls' = [calls EXCEPT ![evt] = IF @ < 2 THEN @ + 1 ELSE @]
    BY DEF UserCallback
  <1>5. ASSUME ~tangled PROVE calls[evt] = 0 /\ evt \notin Reach(events)
    <2>1. evt \in Reach(evt) /\ LoopInv /\ rpc \notin FreePCs
      BY <1>1, <1>5, Basics DEF HeapInv, ListInv, FreePCs
    <2>2. calls[evt] = 0
      BY <1>1, <1>5, <2>1 DEF FreshInv, Fresh
    <2>3. evt \notin Reach(events)
      BY <1>1, <2>1 DEF LoopInv
    <2> QED BY <2>2, <2>3
  <1>6. ~tangled => calls' = [calls EXCEPT ![evt] = 1]
    <2>1. ~tangled => (IF calls[evt] < 2 THEN calls[evt] + 1 ELSE calls[evt]) = 1
      BY <1>5
    <2> QED BY <1>4, <2>1, Zenon
  <1> QED BY <1>2, <1>3, <1>4, <1>5, <1>6

LEMMA FreshCreate ==
    ASSUME QueueInv, HeapInv, FreshInv, UserCallback \/ TimeGather \/ Gather \/ GatherFnc
    PROVE  FreshInv'
  <1> USE DEF RGoto, heapVars, listVars, queueVars, flagVars, localVars, histVars
  <1>0. what \in [Evt -> Kinds] /\ calls \in [Post -> 0..2]
    BY DEF QueueInv, TypeOK, HeapType, ControlType
  <1>1. /\ UNCHANGED <<evt, del, qevt, qseq, tseq, installed, raced, tangled, ppc>>
        /\ rpc \notin FreePCs \ {"ffirst"}
        /\ rpc' \in {"loop", "adv"} => rpc = "loop" /\ rpc' = "adv"
    BY DEF UserCallback, TimeGather, Gather, GatherFnc, FreePCs
  <1>2. /\ \A c \in Post : Foreign(c) => calls'[c] = 0
        /\ ~tangled => \A c \in Post : calls'[c] \in {0, 1}
        /\ ~tangled => \A c \in Reach(events) : Fresh(c) /\ (what[c] = "post" => calls'[c] = 0)
        /\ ~tangled /\ rpc = "loop" =>
              \A c \in Reach(evt) \ {evt} : what[c] = "post" => calls'[c] = 0
    <2>1. CASE calls' = calls
      BY <1>1, <2>1 DEF FreshInv, Fresh
    <2>2. CASE UserCallback /\ what[evt] = "post"
      <3>1. \A c \in Post : c # evt => calls'[c] = calls[c]
        BY <1>0, <2>2, FreshCall
      <3>2. ~tangled => calls'[evt] = 1 /\ evt \notin Reach(events)
        BY <1>0, <2>2, FreshCall
      <3>3. \A c \in Evt : what[c] = "post" => c \in Post
        BY DEF QueueInv, CellInv
      <3>4. Reach(events) \subseteq Evt /\ Reach(evt) \subseteq Evt /\ ~Foreign(evt)
        BY <2>2, Basics, FreshCall
      <3>5. /\ ~tangled => \A c \in Reach(events) : Fresh(c)
            /\ ~tangled /\ rpc = "loop" => \A c \in Reach(evt) : Fresh(c)
            /\ \A c \in Post : Foreign(c) => calls[c] = 0
            /\ ~tangled => \A c \in Post : calls[c] \in {0, 1}
        BY <1>1 DEF FreshInv
      <3> QED BY <3>1, <3>2, <3>3, <3>4, <3>5 DEF Fresh
    <2> QED BY <2>1, <2>2 DEF UserCallback, TimeGather, Gather, GatherFnc
  <1>3. CASE UNCHANGED <<heapVars, listVars>>
    <2>1. /\ \A c : Foreign(c)' <=> Foreign(c)
          /\ Reach(events)' = Reach(events) /\ Reach(evt)' = Reach(evt)
      BY <1>1, <1>3 DEF Foreign, Reach
    <2> QED BY <1>1, <1>2, <1>3, <2>1 DEF FreshInv, Fresh
  <1>4. CASE ~UNCHANGED <<heapVars, listVars>>
    <2>1. PICK k \in Kinds \ {"post"} : CreateAndPost(k)
      BY <1>4 DEF UserCallback, TimeGather, Gather, GatherFnc, Kinds
    <2>2. PICK d \in Evt :
              /\ what' = [what EXCEPT ![d] = k] /\ ~Foreign(d)
              /\ ~tangled => /\ Reach(events)' = Reach(events) \cup {d}
                             /\ rpc = "loop" => Reach(evt)' = Reach(evt)
      <3>1. mode' = "free" => mode = "free"
        BY DEF UserCallback, TimeGather, Gather, GatherFnc
      <3>2. CASE UserCallback
        <4>1. /\ \A e \in Post : calls'[e] = 0 => calls[e] = 0
              /\ what[evt] = "post" => calls'[evt] > 0
              /\ rpc = "loop" /\ rpc' = "adv"
          BY <3>2, CallCounts DEF UserCallback
        <4> QED BY <1>1, <2>1, <3>1, <4>1, CreateHeap
      <3>3. CASE TimeGather \/ Gather \/ GatherFnc
        <4>1. /\ calls' = calls /\ rpc \in {"time", "gather", "gatherfn"}
              /\ rpc' \in {"flset", "gatherfn", "check", "idle"}
          BY <3>3 DEF TimeGather, Gather, GatherFnc
        <4>2. \A e \in Post : calls'[e] = 0 => calls[e] = 0
          BY <4>1
        <4> QED BY <1>1, <2>1, <3>1, <4>1, <4>2, CreateHeap
      <3> QED BY <3>2, <3>3
    <2>3. \A c \in Evt : what'[c] = "post" => what[c] = "post" /\ c # d
      BY <1>0, <2>2
    <2>4. \A c \in Post : Foreign(c)' => Foreign(c)
      BY <1>1, <2>3, Basics DEF Foreign
    <2>5. ~tangled => \A c \in Reach(events)' : Fresh(c)'
      BY <1>2, <2>2, <2>3, Basics DEF Fresh
    <2>6. ~tangled /\ rpc' = "adv" => \A c \in Reach(evt)' \ {evt'} : Fresh(c)'
      BY <1>1, <1>2, <2>2, <2>3, Basics DEF Fresh
    <2> QED BY <1>1, <1>2, <2>4, <2>5, <2>6 DEF FreshInv
  <1> QED BY <1>3, <1>4
LEMMA FreshFree ==
    ASSUME QueueInv, HeapInv, FreshInv, FreeListOne \/ FreeEvent \/ FreeQueued
    PROVE  FreshInv'
  <1> USE DEF heapVars, listVars, queueVars, flagVars, localVars, histVars
  <1>1. UNCHANGED <<rpc, events, calls, installed, tangled>>
    BY DEF FreeListOne, FreeEvent, FreeQueued
  <1>2. PICK d \in Evt : what' = [what EXCEPT ![d] = "none"]
    BY Basics DEF FreeListOne, FreeEvent, FreeQueued, gwrl_evt_free, FreeCell, PtrTo
  <1>3. \A c \in Evt : what'[c] = "post" => what[c] = "post"
    BY <1>2 DEF QueueInv, TypeOK, HeapType
  <1>4. /\ \A c \in Post : Foreign(c)' => calls'[c] = 0
        /\ ~tangled' => \A c \in Post : calls'[c] \in {0, 1}
    BY <1>1, <1>3, Basics DEF FreshInv, Foreign
  <1>5. CASE FreeListOne
    <2>1. Reach(events)' = Reach(events) /\ rpc \in {"refree", "lastfree"}
      BY <1>5, FreeListHeap DEF FreeListOne
    <2>2. ~tangled' => \A c \in Reach(events)' : Fresh(c)'
      BY <1>1, <1>3, <2>1, Basics DEF FreshInv, Fresh, FreePCs
    <2> QED BY <1>1, <1>4, <2>1, <2>2 DEF FreshInv
  <1>6. CASE FreeEvent \/ FreeQueued
    <2>1. rpc' \in FreePCs \ {"ffirst"}
      BY <1>1, <1>6 DEF FreeEvent, FreeQueued, FreePCs
    <2> QED BY <1>4, <2>1 DEF FreshInv
  <1> QED BY <1>5, <1>6

LEMMA FreshInstall ==
    ASSUME QueueInv, HeapInv, FreshInv, InstallOne
    PROVE  FreshInv'
  <1> USE DEF heapVars, listVars, queueVars, flagVars, localVars, histVars
  <1>1. /\ UNCHANGED <<rpc, what, calls>> /\ installed' = installed \cup {evt}
        /\ rpc = "inst" /\ (~tangled' => ~tangled)
    BY DEF InstallOne
  <1>2. /\ Foreign(evt) /\ evt \in Post
        /\ ~tangled' => Reach(events)' = Reach(events) \cup {evt}
    BY InstallHeap
  <1>3. /\ \A c \in Post : Foreign(c)' => calls'[c] = 0
        /\ ~tangled' => \A c \in Post : calls'[c] \in {0, 1}
    BY <1>1 DEF FreshInv, Foreign
  <1>4. ~tangled' => \A c \in Reach(events)' : Fresh(c)'
    BY <1>1, <1>2 DEF FreshInv, Fresh, FreePCs
  <1> QED BY <1>1, <1>3, <1>4 DEF FreshInv

LEMMA FreshLink ==
    ASSUME QueueInv, HeapInv, FreshInv, NEW e \in Post, PLink(e)
    PROVE  FreshInv'
  <1> USE DEF heapVars, listVars, queueVars, flagVars, localVars, histVars
  <1>1. UNCHANGED <<rpc, what, calls, evt, events, installed, tangled>>
    BY DEF PLink
  <1>2. ~tangled => /\ Reach(events)' = Reach(events)
                    /\ rpc \in {"loop", "adv"} => Reach(evt)' = Reach(evt)
    BY LinkHeap
  <1>3. \A c : (Foreign(c)' <=> Foreign(c)) /\ (Fresh(c)' <=> Fresh(c))
    BY <1>1, Zenon DEF Foreign, Fresh
  <1> QED BY <1>1, <1>2, <1>3 DEF FreshInv

LEMMA FreshNext == QueueInv /\ HeapInv /\ FreshInv /\ [Next]_vars => FreshInv'
  <1> SUFFICES ASSUME QueueInv, HeapInv, FreshInv, [Next]_vars PROVE FreshInv'
    OBVIOUS
  <1>1. CASE \E e \in Post : PLink(e)
    BY <1>1, FreshLink
  <1>2. CASE \E e \in Post : PStart(e) \/ PLock(e) \/ PPush(e) \/ PTest(e) \/ PWrite(e)
    BY <1>2, FreshQuiet
  <1>3. CASE ReactorStep
    BY <1>3, FreshQuiet, FreshBatch, FreshCreate, FreshFree, FreshInstall
       DEF ReactorStep, InstallStep, DispatchStep, GatherStep, FreeStep
  <1>4. CASE PollInterrupted \/ ClientCall \/ Freed \/ UNCHANGED vars
    BY <1>4, FreshQuiet DEF ClientCall
  <1> QED BY <1>1, <1>2, <1>3, <1>4 DEF Next, PosterStep

LEMMA SyncFrame ==
    ASSUME SyncInv, tangled' = tangled,
           \A e \in Post : Finished(e) => Finished(e)',
           \A e \in Post : ppc'[e] # "new" => ppc[e] # "new"
    PROVE  SyncInv'
  BY DEF SyncInv

(* With one event under way, install_queued_events has one to install.        *)
LEMMA SyncInstall ==
    ASSUME QueueInv, HeapInv, FreshInv, SyncInv, InstallOne
    PROVE  SyncInv'
  <1> USE DEF heapVars, listVars, queueVars, flagVars, localVars, histVars
  <1>1. UNCHANGED <<calls, ppc>> /\ rpc = "inst" /\ evt # NULL
    BY DEF InstallOne
  <1>2. CASE tangled' = tangled
    BY <1>1, <1>2, SyncFrame DEF Finished
  <1>3. CASE tangled' # tangled
    <2>1. next[evt] # NULL
      BY <1>3 DEF InstallOne, QueueInv, TypeOK, FlagType
    <2>2. tseq \in Seq(Post) /\ IsList(evt, tseq) /\ SeqOwned(tseq)
      BY <1>1 DEF QueueInv, TypeOK, QueueType, QueueIsList, SeqInv
    <2>3. Len(tseq) \in Nat /\ Len(tseq) > 1
      <3>1. Len(tseq) \in Nat /\ (tseq # <<>> => Len(tseq) > 0)
        BY <2>2
      <3>2. tseq # <<>> /\ evt = tseq[1]
        BY <1>1, <2>2 DEF IsList
      <3>3. Len(tseq) # 1
        BY <2>1, <2>2, <3>2 DEF IsList
      <3> DEFINE n == Len(tseq)
      <3>4. n \in Nat /\ n > 0 /\ n # 1
        BY <3>1, <3>2, <3>3
      <3> HIDE DEF n
      <3>5. n \in Nat /\ n > 1
        BY <3>4
      <3> QED BY <3>5 DEF n
    <2> DEFINE a == tseq[1]
    <2> DEFINE b == tseq[2]
    <2>4. a \in Post /\ b \in Post /\ a # b
      BY <2>2, <2>3 DEF SeqOwned
    <2>5. Foreign(a) /\ Foreign(b) /\ Pushed(a) /\ Pushed(b)
      BY <2>2, <2>3 DEF SeqOwned
    <2>6. calls[a] = 0 /\ calls[b] = 0 /\ ppc[a] # "new" /\ ppc[b] # "new"
      BY <2>4, <2>5 DEF FreshInv, Pushed
    <2>7. ~Sync
      BY <2>4, <2>6 DEF SyncInv, Finished
    <2> QED BY <2>7 DEF SyncInv
  <1> QED BY <1>2, <1>3

LEMMA SyncNext ==
    QueueInv /\ HeapInv /\ FreshInv /\ SyncInv /\ [Next]_vars => SyncInv'
  <1> SUFFICES ASSUME QueueInv, HeapInv, FreshInv, SyncInv, [Next]_vars PROVE SyncInv'
    OBVIOUS
  <1> USE DEF RGoto, PGoto, heapVars, listVars, queueVars, flagVars, localVars, histVars, vars
  <1>0. ppc \in [Post -> PPCs] /\ calls \in [Post -> 0..2]
    BY DEF QueueInv, TypeOK, ControlType
  <1>1. CASE InstallOne
    BY <1>1, SyncInstall
  <1>2. CASE UserCallback
    <2>1. UNCHANGED <<ppc, tangled>> /\ \A e \in Post : calls'[e] = 0 => calls[e] = 0
      BY <1>2, CallCounts DEF UserCallback
    <2>2. calls' \in [Post -> 0..2]
      <3>1. CASE what[evt] # "post"
        BY <1>0, <1>2, <3>1 DEF UserCallback
      <3>2. CASE what[evt] = "post"
        BY <1>0, <1>2, <3>2, FreshCall
      <3> QED BY <3>1, <3>2
    <2>3. \A e \in Post : Finished(e) => Finished(e)'
      BY <1>0, <2>1, <2>2 DEF Finished
    <2> QED BY <2>1, <2>3, SyncFrame
  <1>3. CASE \E e \in Post : PStart(e)
    <2>1. PICK e \in Post : PStart(e)
      BY <1>3
    <2>2. UNCHANGED <<calls, tangled>> /\ \A d \in Post : d # e => ppc'[d] = ppc[d]
      BY <1>0, <2>1 DEF PStart
    <2>3. Sync => \A d \in Post : ppc[d] = "new" \/ Finished(d)
      BY <2>1 DEF PStart, Finished
    <2>4. Sync => \A d \in Post : d # e /\ ppc'[d] # "new" => Finished(d)'
      BY <2>2, <2>3 DEF Finished
    <2> QED BY <2>2, <2>4 DEF SyncInv
  <1>4. CASE \E e \in Post : PosterStep(e)
    <2>1. PICK e \in Post : PosterStep(e)
      BY <1>4
    <2>2. /\ UNCHANGED <<calls, tangled>> /\ ppc[e] \notin {"new", "done"}
          /\ \A d \in Post : d # e => ppc'[d] = ppc[d]
      BY <1>0, <2>1 DEF PosterStep, PLock, PLink, PPush, PTest, PWrite
    <2>3. \A d \in Post : Finished(d) => Finished(d)'
      BY <2>2 DEF Finished
    <2>4. \A d \in Post : ppc'[d] # "new" => ppc[d] # "new"
      BY <2>2
    <2> QED BY <2>2, <2>3, <2>4, SyncFrame
  <1>5. CASE UNCHANGED <<calls, ppc, tangled>>
    BY <1>5, SyncFrame DEF Finished
  <1>6. ReactorStep => UNCHANGED <<calls, ppc, tangled>> \/ InstallOne \/ UserCallback
    BY DEF ReactorStep, InstallStep, DispatchStep, GatherStep, FreeStep, CheckQueue, TakeHead,
           TakeLock, ClearQueue, InstallDone, DispatchStart, WakeActivity, DispatchNext,
           FreeListOne, Redispatch, DispatchLoopEnd, DispatchReturn, CheckStop, TimeGather,
           SetSleeping, PollReturns, ClearSleeping, Gather, GatherFnc, FreeFirst, FreeEvent,
           FreeQueue, FreeQueued, FreeDone
  <1>7. PollInterrupted \/ ClientCall \/ Freed \/ UNCHANGED vars => UNCHANGED <<calls, ppc, tangled>>
    BY DEF PollInterrupted, ClientCall, gwrl_run, gwrl_run_once, gwrl_allow_poll_sleep,
           gwrl_free, Freed
  <1> QED BY <1>1, <1>2, <1>3, <1>4, <1>5, <1>6, <1>7 DEF Next
(* The events ahead of gwrl_dispatch have not been called, and a client that  *)
(* waits for each callback never has two events under way.                    *)
THEOREM FreshAndSync == Spec => [](QueueInv /\ HeapInv /\ FreshInv /\ SyncInv)
  <1>1. Init => FreshInv /\ SyncInv
    BY FreshInit
  <1>2. QueueInv /\ HeapInv /\ FreshInv /\ SyncInv /\ [Next]_vars => FreshInv' /\ SyncInv'
    BY FreshNext, SyncNext
  <1> QED BY <1>1, <1>2, CellsAreOwned, PTL DEF Spec

(* No event is called twice, unless the queue was tangled: gwrl_dispatch has  *)
(* taken an event off its list for good before it makes the next call.        *)
THEOREM CalledOnce == Spec => [](~tangled => \A e \in Post : calls[e] \in {0, 1})
  <1>1. FreshInv => (~tangled => \A e \in Post : calls[e] \in {0, 1})
    BY DEF FreshInv
  <1> QED BY <1>1, FreshAndSync, PTL

(* The steps of the reactor and its posters, seen through the mailbox: the    *)
(* store of rl->_qevt puts an event, its callback delivers it, gwrl_free      *)
(* closes the box, and nothing else shows.                                    *)
LEMMA MailboxStep ==
    QueueInv /\ HeapInv /\ FreshInv /\ ~tangled /\ [Next]_vars => [MB!Next]_(MB!vars)
  <1> SUFFICES ASSUME QueueInv, HeapInv, FreshInv, ~tangled, [Next]_vars
               PROVE  [MB!Next]_(MB!vars)
    OBVIOUS
  <1> USE DEF RGoto, PGoto, heapVars, listVars, queueVars, flagVars, localVars, histVars, vars
  <1> DEFINE Box == {e \in Post : Pushed(e)}
  <1>0. ppc \in [Post -> PPCs] /\ ControlInv
    BY DEF QueueInv, TypeOK, ControlType
  <1>1. ASSUME \A e \in Post : Pushed(e)' <=> Pushed(e), calls' = calls,
               (mode = "free")' = (mode = "free")
        PROVE  UNCHANGED MB!vars
    BY <1>1 DEF MB!vars
  <1>2. CASE UserCallback /\ what[evt] = "post"
    <2>1. evt \in Post /\ Pushed(evt) /\ calls[evt] = 0 /\ calls' = [calls EXCEPT ![evt] = 1]
      BY <1>2, FreshCall
    <2>2. UNCHANGED <<ppc, mode>>
      BY <1>2 DEF UserCallback
    <2>3. MB!Deliver(evt)
      BY <2>1, <2>2 DEF MB!Deliver, Pushed
    <2> QED BY <2>1, <2>3 DEF MB!Next
  <1>3. CASE gwrl_free
    <2>1. UNCHANGED <<ppc, calls>> /\ mode' = "free"
      BY <1>3 DEF gwrl_free
    <2>2. MB!Close
      BY <2>1 DEF MB!Close, Pushed
    <2> QED BY <2>2 DEF MB!Next
  <1>4. CASE \E e \in Post : PPush(e)
    <2>1. PICK e \in Post : PPush(e)
      BY <1>4
    <2>2. UNCHANGED <<calls, mode>> /\ ppc' = [ppc EXCEPT ![e] = "test"]
      BY <2>1 DEF PPush
    <2>3. Box' = Box \cup {e}
      BY <1>0, <2>2 DEF Pushed
    <2>4. MB!Put(e)
      BY <2>2, <2>3 DEF MB!Put
    <2> QED BY <2>4 DEF MB!Next
  <1>5. CASE \E e \in Post : PStart(e) \/ PLock(e) \/ PLink(e) \/ PTest(e) \/ PWrite(e)
    <2>1. UNCHANGED <<calls, mode>> /\ \A e \in Post : Pushed(e)' <=> Pushed(e)
      BY <1>0, <1>5 DEF PStart, PLock, PLink, PTest, PWrite, Pushed, PPCs
    <2> QED BY <1>1, <2>1
  <1>6. CASE ReactorStep /\ ~(UserCallback /\ what[evt] = "post")
    <2>1. UNCHANGED <<calls, ppc>>
      BY <1>6 DEF ReactorStep, InstallStep, DispatchStep, GatherStep, FreeStep, CheckQueue,
           TakeHead, TakeLock, ClearQueue, InstallOne, InstallDone, DispatchStart, UserCallback,
           WakeActivity, DispatchNext, FreeListOne, Redispatch, DispatchLoopEnd, DispatchReturn,
           CheckStop, TimeGather, SetSleeping, PollReturns, ClearSleeping, Gather, GatherFnc,
           FreeFirst, FreeEvent, FreeQueue, FreeQueued, FreeDone
    <2>2. mode' = mode \/ (rpc \in {"stopchk", "gatherfn"} /\ mode' # "free")
      BY <1>6 DEF ReactorStep, InstallStep, DispatchStep, GatherStep, FreeStep, CheckQueue,
           TakeHead, TakeLock, ClearQueue, InstallOne, InstallDone, DispatchStart, UserCallback,
           WakeActivity, DispatchNext, FreeListOne, Redispatch, DispatchLoopEnd, DispatchReturn,
           CheckStop, TimeGather, SetSleeping, PollReturns, ClearSleeping, Gather, GatherFnc,
           FreeFirst, FreeEvent, FreeQueue, FreeQueued, FreeDone
    <2>3. (mode = "free")' = (mode = "free")
      BY <1>0, <2>2 DEF ControlInv, DispatchPCs, FreePCs
    <2>4. \A e \in Post : Pushed(e)' <=> Pushed(e)
      BY <2>1 DEF Pushed
    <2> QED BY <1>1, <2>1, <2>3, <2>4
  <1>7. CASE \/ PollInterrupted \/ gwrl_run \/ gwrl_run_once \/ gwrl_allow_poll_sleep \/ Freed
             \/ UNCHANGED vars
    <2>1. UNCHANGED <<calls, ppc>> /\ (mode' = mode \/ (rpc = "idle" /\ mode' # "free"))
      BY <1>7 DEF PollInterrupted, gwrl_run, gwrl_run_once, gwrl_allow_poll_sleep, Freed
    <2>2. (mode = "free")' = (mode = "free")
      BY <1>0, <2>1 DEF ControlInv, DispatchPCs, FreePCs
    <2>3. \A e \in Post : Pushed(e)' <=> Pushed(e)
      BY <2>1 DEF Pushed
    <2> QED BY <1>1, <2>1, <2>2, <2>3
  <1> QED BY <1>2, <1>3, <1>4, <1>5, <1>6, <1>7 DEF Next, ClientCall, PosterStep

(* As long as the list is not tangled the reactor is a mailbox: an event is   *)
(* called only after it was posted, and once.                                 *)
THEOREM UntangledIsMailbox == Spec /\ []~tangled => MB!Init /\ [][MB!Next]_(MB!vars)
  <1>1. Init => MB!Init
    BY DEF Init, MB!Init, Pushed
  <1> QED BY <1>1, MailboxStep, FreshAndSync, PTL DEF Spec

(* A client that posts one event at a time never tangles the list, and so     *)
(* always has a mailbox.                                                      *)
THEOREM SynchronousIsMailbox ==
    ASSUME Sync
    PROVE  Spec => /\ []~tangled
                   /\ MB!Init /\ [][MB!Next]_(MB!vars)
  <1>1. SyncInv => ~tangled
    BY DEF SyncInv
  <1> QED BY <1>1, UntangledIsMailbox, FreshAndSync, PTL
=============================================================================
