---------------------------- MODULE SkctlProofs ----------------------------
(* skctl leaks nothing and its result can be relied on, for address lists of *)
(* any length, any set of descriptors, any sequence of calls of a careful    *)
(* client and any failures of the system calls.                              *)
EXTENDS Skctl, TLAPS

(* The steps of skctl as a set.                                              *)
LEMMA StepSet ==
    /\ ToSet(Steps) = {"SOCKET", "NOBLOCK", "REUSE_ADDR", "BIND", "LISTEN", "CONNECT"}
    /\ SkFlags = ToSet(Steps) \cup {"GETADDRINFO"}
<1>1. \A x : x \in ToSet(Steps) <=>
          x \in {"SOCKET", "NOBLOCK", "REUSE_ADDR", "BIND", "LISTEN", "CONNECT"}
  BY SMT DEF ToSet, Steps
<1> QED
  BY <1>1 DEF SkFlags

(* A step other than the first is reached when no socket is to be made.      *)
LEMMA SocketIsFirst ==
    ASSUME NEW f, At(f), f # "SOCKET"
    PROVE  "SOCKET" \notin todo
<1>1. PICK i \in DOMAIN Steps : Steps[i] = f /\ \A j \in 1..(i - 1) : Steps[j] \notin todo
  BY DEF At
<1>2. i # 1 /\ i \in 1..6
  BY SMT, <1>1 DEF Steps
<1>3. Steps[1] = "SOCKET" /\ 1 \in 1..(i - 1)
  BY SMT, <1>2 DEF Steps
<1> QED
  BY <1>1, <1>3

LEMMA SkInit == Init => SkInv
<1> SUFFICES ASSUME Init PROVE SkInv
  OBVIOUS
<1>1. SkType
  <2>1. did \in [Fds -> SUBSET (SkFlags \X Nat)]
    BY DEF Init
  <2>2. existed \in BOOLEAN /\ pc \in PCs /\ open \subseteq Fds
    BY DEF Init, PCs
  <2>3. list \in Nat /\ used \in Nat /\ ap \in Nat /\ (list # 0 => used <= list)
        /\ sockfd \in Int /\ res \in {0, -1} /\ lists \in Nat
    BY SMT DEF Init
  <2>4. flags \subseteq SkFlags /\ todo \subseteq flags \cap ToSet(Steps)
        /\ (pc = "idle" => todo = {})
    BY DEF Init
  <2> QED
    BY <2>1, <2>2, <2>3, <2>4 DEF SkType
<1>2. AddrInv /\ FailInv /\ WorkInv
  BY DEF Init, AddrInv, FailInv, WorkInv
<1>3. NoLeak /\ ResultIsTrue
  BY DEF Init, NoLeak, ResultIsTrue, Tried
<1> QED
  BY <1>1, <1>2, <1>3 DEF SkInv

LEMMA CallKeeps ==
    ASSUME SkInv, NEW f \in SUBSET SkFlags, skctl(f)
    PROVE  SkInv'
<1>0. /\ pc = "idle" /\ flags' = f /\ existed' = (used # 0) /\ ap' = used /\ failed' = {}
      /\ UNCHANGED <<list, used, sockfd, serrnoflag, todo, open, lists, did>>
      /\ f # {} => MayAsk(f)
      /\ pc' = IF f = {} THEN "done"
               ELSE IF used = 0 /\ "GETADDRINFO" \in f THEN "gai" ELSE "walk"
      /\ res' = IF f = {} THEN -1 ELSE 0
  BY DEF skctl, sysVars
<1>1. SkType /\ AddrInv /\ NoLeak /\ todo = {}
  BY <1>0 DEF SkInv, SkType
<1>2. SkType'
  BY <1>0, <1>1 DEF SkType, PCs
<1>3. AddrInv'
  BY <1>0, <1>1, <1>2 DEF AddrInv, SkType, MayAsk
<1>4. FailInv'
  BY <1>0, <1>1 DEF FailInv, AddrInv, SkType, MayAsk
<1>5. WorkInv'
  BY <1>0, <1>1 DEF WorkInv, AddrInv, MayAsk
<1>6. NoLeak'
  BY <1>0, <1>1 DEF NoLeak
<1>7. ResultIsTrue'
  BY <1>0 DEF ResultIsTrue, Tried
<1> QED
  BY <1>2, <1>3, <1>4, <1>5, <1>6, <1>7 DEF SkInv
LEMMA LookUpKeeps ==
    ASSUME SkInv, LookUp
    PROVE  SkInv'
<1>0. /\ pc = "gai" /\ pc' \in {"walk", "done", "gai"}
      /\ UNCHANGED <<flags, used, sockfd, existed, todo, open, did, failed>>
      /\ \/ /\ pc' = "walk" /\ lists' = lists + 1 /\ ap' = 1 /\ list' \in Nat \ {0} /\ res' = res
         \/ /\ pc' = "done" /\ res' = -1 /\ UNCHANGED <<list, ap, lists>>
         \/ /\ pc' = "gai" /\ UNCHANGED <<list, ap, lists, res>>
  BY AddrAssumption, SMT DEF LookUp, AddrAssumption
<1>1. SkType /\ AddrInv /\ FailInv /\ WorkInv /\ NoLeak
  BY DEF SkInv
<1>2. ~existed /\ list = 0 /\ used = 0 /\ failed = {} /\ sockfd \notin open
  BY <1>0, <1>1 DEF AddrInv, FailInv
<1>3. SkType'
  BY <1>0, <1>1, <1>2 DEF SkType, PCs
<1>4. AddrInv'
  BY <1>0, <1>1, <1>2 DEF AddrInv, SkType
<1>5. FailInv'
  <2>1. ap' = 1 => 1..(ap' - 1) = {}
    BY SMT
  <2> QED
    BY <1>0, <1>2, <2>1 DEF FailInv
<1>6. WorkInv'
  BY <1>0, <1>1, <1>2 DEF WorkInv
<1>7. NoLeak'
  BY <1>0, <1>1, <1>2 DEF NoLeak
<1>8. ResultIsTrue'
  BY <1>0, <1>2 DEF ResultIsTrue, Tried
<1> QED
  BY <1>3, <1>4, <1>5, <1>6, <1>7, <1>8 DEF SkInv

LEMMA NoListKeeps ==
    ASSUME SkInv, NoList
    PROVE  SkInv'
<1>0. /\ pc = "walk" /\ list = 0 /\ pc' = "done" /\ res' = -1
      /\ UNCHANGED <<flags, list, used, sockfd, serrnoflag, ap, existed, todo, open, lists,
                     did, failed>>
  BY DEF NoList, infoVars, sysVars
<1>1. SkType /\ AddrInv /\ FailInv /\ WorkInv /\ NoLeak
  BY DEF SkInv
<1>2. existed /\ used # 0 /\ failed = {}
  BY <1>0, <1>1 DEF AddrInv, FailInv
<1>3. SkType'
  BY <1>0, <1>1 DEF SkType, PCs
<1>4. AddrInv' /\ FailInv' /\ WorkInv'
  BY <1>0, <1>2 DEF AddrInv, FailInv, WorkInv
<1>5. NoLeak'
  BY <1>0, <1>1 DEF NoLeak
<1>6. ResultIsTrue'
  BY <1>0, <1>2 DEF ResultIsTrue, Tried
<1> QED
  BY <1>3, <1>4, <1>5, <1>6 DEF SkInv

LEMMA NextAddrKeeps ==
    ASSUME SkInv, NextAddr
    PROVE  SkInv'
<1>0. /\ pc = "walk" /\ list # 0
      /\ UNCHANGED <<flags, list, sockfd, ap, existed, res, open, lists, did, failed>>
  BY DEF NextAddr, sysVars
<1>1. SkType /\ AddrInv /\ FailInv /\ WorkInv /\ NoLeak
  BY DEF SkInv
<1>2. CASE ap = 0
  <2>0. pc' = "done" /\ UNCHANGED <<used, serrnoflag, todo>>
    BY <1>2 DEF NextAddr
  <2>1. /\ ~existed /\ used = 0 /\ failed = 1..list
    BY <1>0, <1>1, <1>2 DEF AddrInv, FailInv
  <2>2. failed # {}
    BY <1>0, <1>1, <2>1, SMT DEF SkType
  <2>3. sockfd = -1 /\ res = -1 /\ serrnoflag \in flags
    BY <1>0, <1>1, <2>2 DEF FailInv
  <2>4. sockfd \notin open
    BY <1>1, <2>3, FdAssumption, SMT DEF FdAssumption, SkType
  <2>5. SkType'
    BY <1>0, <1>1, <2>0 DEF SkType, PCs
  <2>6. AddrInv' /\ FailInv' /\ WorkInv'
    BY <1>0, <2>0, <2>1, <2>4 DEF AddrInv, FailInv, WorkInv
  <2>7. NoLeak'
    BY <1>0, <1>1, <2>0 DEF NoLeak
  <2>8. res # 0
    BY <2>3, SMT
  <2>9. ResultIsTrue'
    BY <1>0, <2>0, <2>1, <2>3, <2>8 DEF ResultIsTrue, Tried
  <2> QED
    BY <2>5, <2>6, <2>7, <2>9 DEF SkInv
<1>3. CASE ap # 0
  <2>0. /\ pc' = "step" /\ used' = 0 /\ todo' = flags \cap ToSet(Steps)
    BY <1>3 DEF NextAddr
  <2>1. ap \in 1..list
    BY <1>0, <1>1, <1>3, SMT DEF AddrInv, SkType
  <2>2. failed = IF existed THEN {} ELSE 1..(ap - 1)
    BY <1>0, <1>1, <1>3 DEF FailInv
  <2>3. SkType'
    BY <1>0, <1>1, <2>0 DEF SkType, PCs
  <2>4. AddrInv' /\ FailInv'
    BY <1>0, <1>3, <2>0, <2>1, <2>2 DEF AddrInv, FailInv
  <2>5. WorkInv'
    BY <1>0, <1>1, <2>0, StepSet DEF WorkInv
  <2>6. NoLeak' /\ ResultIsTrue'
    BY <1>0, <1>1, <2>0 DEF NoLeak, ResultIsTrue, Tried
  <2> QED
    BY <2>3, <2>4, <2>5, <2>6 DEF SkInv
<1> QED
  BY <1>2, <1>3

(* A socket is made when none is open, so that the new one is the only one.  *)
LEMMA SocketKeeps ==
    ASSUME SkInv, Socket
    PROVE  SkInv'
<1>0. /\ pc = "step" /\ "SOCKET" \in todo
      /\ UNCHANGED <<flags, list, used, ap, existed, lists, failed>>
  BY DEF Socket, At
<1>1. SkType /\ AddrInv /\ FailInv /\ WorkInv /\ NoLeak
  BY DEF SkInv
<1>2. sockfd \notin open /\ todo = flags \cap ToSet(Steps) /\ "SOCKET" \in flags
  BY <1>0, <1>1 DEF WorkInv, SkType
<1>3. open = {}
  BY <1>1, <1>2 DEF NoLeak
<1>4. CASE \E d \in Fds \ open :
            /\ sockfd' = d /\ open' = open \cup {d}
            /\ did' = [did EXCEPT ![d] = {<<"SOCKET", ap>>}]
            /\ todo' = todo \ {"SOCKET"} /\ UNCHANGED <<pc, res, serrnoflag>>
  <2>0. PICK d \in Fds : /\ sockfd' = d /\ open' = {d}
                         /\ did' = [did EXCEPT ![d] = {<<"SOCKET", ap>>}]
                         /\ todo' = todo \ {"SOCKET"} /\ UNCHANGED <<pc, res, serrnoflag>>
    BY <1>3, <1>4
  <2>1. d \in Int /\ <<"SOCKET", ap>> \in SkFlags \X Nat
    BY <1>1, FdAssumption, StepSet DEF FdAssumption, SkType
  <2>2. did' \in [Fds -> SUBSET (SkFlags \X Nat)]
    BY <1>1, <2>0, <2>1 DEF SkType
  <2>3. SkType'
    BY <1>0, <1>1, <2>0, <2>1, <2>2 DEF SkType
  <2>4. AddrInv' /\ FailInv'
    BY <1>0, <1>1, <2>0 DEF AddrInv, FailInv
  <2>5. did'[d] = {<<"SOCKET", ap>>}
    BY <1>1, <2>0 DEF SkType
  <2>6. WorkInv'
    BY <1>0, <1>1, <1>2, <2>0, <2>5 DEF WorkInv
  <2>7. NoLeak' /\ ResultIsTrue'
    BY <1>0, <1>1, <2>0 DEF NoLeak, ResultIsTrue, Tried
  <2> QED
    BY <2>3, <2>4, <2>6, <2>7 DEF SkInv
<1>5. CASE /\ sockfd' = -1 /\ res' = -1 /\ serrnoflag' = "SOCKET" /\ pc' = "next"
           /\ UNCHANGED <<open, did, todo>>
  <2>1. SkType'
    BY <1>0, <1>1, <1>5 DEF SkType, PCs
  <2>2. AddrInv' /\ FailInv' /\ WorkInv'
    BY <1>0, <1>1, <1>2, <1>5 DEF AddrInv, FailInv, WorkInv
  <2>3. NoLeak' /\ ResultIsTrue'
    BY <1>0, <1>1, <1>3, <1>5 DEF NoLeak, ResultIsTrue, Tried
  <2> QED
    BY <2>1, <2>2, <2>3 DEF SkInv
<1> QED
  BY <1>4, <1>5 DEF Socket

LEMMA StepDoneKeeps ==
    ASSUME SkInv, NEW f \in ToSet(Steps), StepDone(f)
    PROVE  SkInv'
<1>0. /\ pc = "step" /\ f \in todo /\ f # "SOCKET" /\ todo' = todo \ {f} /\ res' = 0
      /\ did' = [did EXCEPT ![sockfd] = @ \cup {<<f, ap>>}]
      /\ UNCHANGED <<flags, list, used, sockfd, serrnoflag, pc, ap, existed, open, lists, failed>>
  BY DEF StepDone, At, infoVars
<1>1. SkType /\ AddrInv /\ FailInv /\ WorkInv /\ NoLeak
  BY DEF SkInv
<1>2. "SOCKET" \notin todo
  BY SocketIsFirst DEF StepDone
<1>3. sockfd \in open /\ sockfd \in Fds /\ f \in flags /\ f \in SkFlags
  BY <1>0, <1>1, <1>2, StepSet DEF WorkInv, SkType
<1>4. /\ did' \in [Fds -> SUBSET (SkFlags \X Nat)]
      /\ did'[sockfd] = did[sockfd] \cup {<<f, ap>>}
  BY <1>0, <1>1, <1>3 DEF SkType
<1>5. SkType'
  BY <1>0, <1>1, <1>4 DEF SkType
<1>6. AddrInv' /\ FailInv'
  BY <1>0, <1>1 DEF AddrInv, FailInv
<1>7. WorkInv'
  BY <1>0, <1>1, <1>2, <1>3, <1>4 DEF WorkInv
<1>8. NoLeak' /\ ResultIsTrue'
  BY <1>0, <1>1 DEF NoLeak, ResultIsTrue, Tried
<1> QED
  BY <1>5, <1>6, <1>7, <1>8 DEF SkInv

(* A step that fails closes the socket, which is the only one.               *)
LEMMA StepFailsKeeps ==
    ASSUME SkInv, NEW f \in ToSet(Steps), StepFails(f)
    PROVE  SkInv'
<1>0. /\ pc = "step" /\ f \in todo /\ pc' = "next"
      /\ sockfd' = -1 /\ res' = -1 /\ serrnoflag' = f
      /\ open' = open \ {sockfd} /\ did' = [did EXCEPT ![sockfd] = {}]
      /\ UNCHANGED <<flags, list, used, ap, existed, todo, lists, failed>>
  BY DEF StepFails, At, Closed
<1>1. SkType /\ AddrInv /\ FailInv /\ WorkInv /\ NoLeak /\ f \in flags
  BY <1>0 DEF SkInv, SkType
<1>2. did' \in [Fds -> SUBSET (SkFlags \X Nat)]
  BY <1>0, <1>1 DEF SkType
<1>3. SkType'
  BY <1>0, <1>1, <1>2 DEF SkType, PCs
<1>4. AddrInv' /\ FailInv' /\ WorkInv'
  BY <1>0, <1>1 DEF AddrInv, FailInv, WorkInv
<1>5. NoLeak' /\ ResultIsTrue'
  BY <1>0, <1>1 DEF NoLeak, ResultIsTrue, Tried
<1> QED
  BY <1>3, <1>4, <1>5 DEF SkInv

LEMMA UsedKeeps ==
    ASSUME SkInv, Used
    PROVE  SkInv'
<1>0. /\ pc = "step" /\ todo = {} /\ res' = 0 /\ used' = ap /\ pc' = "done"
      /\ UNCHANGED <<flags, list, sockfd, serrnoflag, ap, existed, todo, open, lists, did,
                     failed>>
  BY DEF Used, sysVars
<1>1. SkType /\ AddrInv /\ FailInv /\ WorkInv /\ NoLeak
  BY DEF SkInv
<1>2. ap # 0 /\ ap <= list /\ ap \in Nat
  BY <1>0, <1>1, SMT DEF AddrInv, SkType
<1>3. ap \notin failed
  <2>1. ap \notin 1..(ap - 1)
    BY <1>2, SMT
  <2> QED
    BY <1>0, <1>1, <1>2, <2>1 DEF FailInv
<1>4. SkType'
  BY <1>0, <1>1, <1>2 DEF SkType, PCs
<1>5. AddrInv' /\ FailInv' /\ WorkInv'
  BY <1>0, <1>2 DEF AddrInv, FailInv, WorkInv
<1>6. NoLeak'
  BY <1>0, <1>1 DEF NoLeak
<1>7. \A f \in flags \cap ToSet(Steps) : sockfd \in open /\ <<f, ap>> \in did[sockfd]
  BY <1>0, <1>1, StepSet DEF WorkInv, SkType
<1>8. ResultIsTrue'
  BY <1>0, <1>2, <1>3, <1>7 DEF ResultIsTrue
<1> QED
  BY <1>4, <1>5, <1>6, <1>8 DEF SkInv

LEMMA GiveUpKeeps ==
    ASSUME SkInv, GiveUp
    PROVE  SkInv'
<1>0. /\ pc = "next" /\ failed' = failed \cup {ap}
      /\ UNCHANGED <<flags, list, sockfd, serrnoflag, existed, todo, res, open, lists, did>>
  BY DEF GiveUp, sysVars
<1>1. SkType /\ AddrInv /\ FailInv /\ NoLeak
  BY DEF SkInv
<1>2. /\ ap \in 1..list /\ ap \in Nat /\ list \in Nat /\ ap # 0 /\ ap <= list /\ used = 0
      /\ sockfd = -1 /\ res = -1 /\ serrnoflag \in flags /\ res # 0
  BY <1>0, <1>1, SMT DEF AddrInv, FailInv, SkType
<1>3. sockfd \notin open
  BY <1>1, <1>2, FdAssumption, SMT DEF FdAssumption, SkType
<1>4. NoLeak'
  BY <1>0, <1>1 DEF NoLeak
<1>5. CASE existed
  <2>0. used' = ap /\ pc' = "done" /\ ap' = ap /\ failed' = {ap}
    BY <1>0, <1>1, <1>5 DEF GiveUp, FailInv
  <2>1. SkType'
    BY <1>0, <1>1, <1>2, <2>0 DEF SkType, PCs
  <2>2. AddrInv' /\ FailInv' /\ WorkInv'
    BY <1>0, <1>2, <1>3, <2>0 DEF AddrInv, FailInv, WorkInv
  <2>3. ResultIsTrue'
    BY <1>0, <1>2, <1>5, <2>0 DEF ResultIsTrue
  <2> QED
    BY <1>4, <2>1, <2>2, <2>3 DEF SkInv
<1>6. CASE ~existed
  <2>0. /\ ap' = (IF ap = list THEN 0 ELSE ap + 1) /\ pc' = "walk" /\ used' = used
        /\ failed = 1..(ap - 1)
    BY <1>0, <1>1, <1>2, <1>6 DEF GiveUp, FailInv
  <2>1. failed' = 1..ap
    <3>1. 1..ap = 1..(ap - 1) \cup {ap}
      BY <1>2, SMT
    <3> QED
      BY <1>0, <2>0, <3>1
  <2>2. failed' = IF ap' = 0 THEN 1..list ELSE 1..(ap' - 1)
    <3>1. ap + 1 # 0 /\ (ap + 1) - 1 = ap
      BY <1>2, SMT
    <3> QED
      BY <2>0, <2>1, <3>1
  <2>3. ap' \in Nat /\ ap' <= list
    BY <1>2, <2>0, SMT
  <2>4. SkType'
    BY <1>0, <1>1, <1>2, <2>0, <2>3 DEF SkType, PCs
  <2>5. AddrInv' /\ FailInv'
    BY <1>0, <1>2, <1>6, <2>0, <2>2, <2>3 DEF AddrInv, FailInv
  <2>6. WorkInv'
    BY <1>0, <1>3, <1>6, <2>0 DEF SkInv, WorkInv
  <2>7. ResultIsTrue'
    BY <2>0 DEF ResultIsTrue, Tried
  <2> QED
    BY <1>4, <2>4, <2>5, <2>6, <2>7 DEF SkInv
<1> QED
  BY <1>5, <1>6

LEMMA ReturnKeeps ==
    ASSUME SkInv, Return
    PROVE  SkInv'
<1>0. /\ pc = "done" /\ pc' = "idle" /\ ap' = 0 /\ existed' = FALSE /\ todo' = {} /\ res' = 0
      /\ failed' = {} /\ UNCHANGED <<flags, list, used, sockfd, serrnoflag, open, lists, did>>
  BY DEF Return, infoVars, sysVars
<1>1. SkType /\ AddrInv /\ NoLeak
  BY DEF SkInv
<1>2. SkType'
  BY <1>0, <1>1 DEF SkType, PCs
<1>3. AddrInv' /\ FailInv' /\ WorkInv'
  BY <1>0, <1>1 DEF AddrInv, FailInv, WorkInv
<1>4. NoLeak' /\ ResultIsTrue'
  BY <1>0, <1>1 DEF NoLeak, ResultIsTrue, Tried
<1> QED
  BY <1>2, <1>3, <1>4 DEF SkInv

(* skctlinfo_free, gwsk_close and zeroing the structure, between calls.      *)
LEMMA ClientKeeps ==
    ASSUME SkInv, skctlinfo_free \/ gwsk_close \/ Zero
    PROVE  SkInv'
<1>0. /\ pc = "idle" /\ UNCHANGED <<pc, ap, existed, todo, res, failed>>
  BY DEF skctlinfo_free, gwsk_close, Zero
<1>1. SkType /\ AddrInv /\ FailInv /\ NoLeak /\ todo = {}
  BY <1>0 DEF SkInv, SkType
<1>2. CASE skctlinfo_free
  <2>0. /\ list # 0 /\ list' = 0 /\ lists = 1 /\ lists' = 0
        /\ UNCHANGED <<flags, used, sockfd, serrnoflag, open, did>>
    BY <1>1, <1>2, SMT DEF skctlinfo_free, NoLeak
  <2>1. SkType'
    BY <1>0, <1>1, <2>0 DEF SkType
  <2>2. AddrInv' /\ FailInv' /\ WorkInv' /\ NoLeak' /\ ResultIsTrue'
    BY <1>0, <1>1, <2>0 DEF AddrInv, FailInv, WorkInv, NoLeak, ResultIsTrue, Tried
  <2> QED
    BY <2>1, <2>2 DEF SkInv
<1>3. CASE gwsk_close
  <2>0. /\ open' = open \ {sockfd} /\ did' = [did EXCEPT ![sockfd] = {}]
        /\ UNCHANGED <<flags, list, used, sockfd, serrnoflag, lists>>
    BY <1>3 DEF gwsk_close, Closed, infoVars
  <2>1. did' \in [Fds -> SUBSET (SkFlags \X Nat)]
    BY <1>1, <2>0 DEF SkType
  <2>2. SkType'
    BY <1>0, <1>1, <2>0, <2>1 DEF SkType
  <2>3. AddrInv' /\ FailInv' /\ WorkInv' /\ NoLeak' /\ ResultIsTrue'
    BY <1>0, <1>1, <2>0 DEF AddrInv, FailInv, WorkInv, NoLeak, ResultIsTrue, Tried
  <2> QED
    BY <2>2, <2>3 DEF SkInv
<1>4. CASE Zero
  <2>0. /\ flags' = {} /\ used' = 0 /\ sockfd' = 0 /\ sockfd \notin open
        /\ UNCHANGED <<list, open, lists, did>>
    BY <1>4 DEF Zero, sysVars
  <2>1. open = {} /\ 0 \notin open
    BY <1>1, <2>0 DEF NoLeak
  <2>2. SkType'
    BY <1>0, <1>1, <2>0 DEF SkType
  <2>3. AddrInv' /\ FailInv' /\ WorkInv' /\ NoLeak' /\ ResultIsTrue'
    BY <1>0, <1>1, <2>0, <2>1 DEF AddrInv, FailInv, WorkInv, NoLeak, ResultIsTrue, Tried
  <2> QED
    BY <2>2, <2>3 DEF SkInv
<1> QED
  BY <1>2, <1>3, <1>4

LEMMA SkNext == SkInv /\ [Next]_vars => SkInv'
<1> SUFFICES ASSUME SkInv, [Next]_vars PROVE SkInv'
  OBVIOUS
<1>1. CASE Call
  <2>1. \E f \in SUBSET SkFlags : skctl(f)
    BY <1>1, StepSet, RequestAssumption
    DEF Call, skctl_tcp_server, skctl_udp_server, skctl_tcp_client, skctl_udp_client,
        skctl_udp_connected_client, SKCTL_TCP_SERVER, SKCTL_UDP_SERVER, SKCTL_TCP_CLIENT,
        SKCTL_UDP_CLIENT, RequestAssumption
  <2> QED
    BY <2>1, CallKeeps
<1>2. CASE LookUp \/ NoList \/ NextAddr \/ Socket \/ Used \/ GiveUp \/ Return
  BY <1>2, LookUpKeeps, NoListKeeps, NextAddrKeeps, SocketKeeps, UsedKeeps, GiveUpKeeps,
     ReturnKeeps
<1>3. CASE \E f \in ToSet(Steps) : StepDone(f) \/ StepFails(f)
  BY <1>3, StepDoneKeeps, StepFailsKeeps
<1>4. CASE skctlinfo_free \/ gwsk_close \/ Zero
  BY <1>4, ClientKeeps
<1>5. CASE gwsk_connect_again \/ UNCHANGED vars
  <2>1. UNCHANGED <<flags, list, used, sockfd, serrnoflag, pc, ap, existed, todo, res, open,
                    lists, did, failed>>
    BY <1>5 DEF gwsk_connect_again, vars, infoVars, sysVars
  <2>2. SkType' /\ AddrInv' /\ FailInv' /\ WorkInv' /\ NoLeak' /\ ResultIsTrue'
    BY <2>1 DEF SkInv, SkType, AddrInv, FailInv, WorkInv, NoLeak, ResultIsTrue, Tried
  <2> QED
    BY <2>2 DEF SkInv
<1> QED
  BY <1>1, <1>2, <1>3, <1>4, <1>5 DEF Next

(* The invariant of skctl: addresses are given up in order, each with its    *)
(* socket closed, and what was asked for and is not left was done.           *)
THEOREM SkctlInvariant == Spec => []SkInv
  BY SkInit, SkNext, PTL DEF Spec

(* No call of skctl, and no sequence of calls, leaves a socket open that     *)
(* arg->sockfd does not name or a list allocated that arg->list does not.    *)
THEOREM SkctlLeaksNothing == Spec => []NoLeak
<1>1. SkInv => NoLeak
  BY DEF SkInv
<1> QED
  BY <1>1, SkctlInvariant, PTL

(* A result of 0 means that everything asked for was done to one socket for  *)
(* one address; a result of -1 that every address was tried and its socket   *)
(* closed.                                                                   *)
THEOREM SkctlResultIsTrue == Spec => []ResultIsTrue
<1>1. SkInv => ResultIsTrue
  BY DEF SkInv
<1> QED
  BY <1>1, SkctlInvariant, PTL
=============================================================================
