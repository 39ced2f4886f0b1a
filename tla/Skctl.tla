------------------------------- MODULE Skctl -------------------------------
(* skctl (src/src/gwrl/socket.c): a socket is made from a structure that     *)
(* says what to do.  The addresses of a name are tried in turn, and the      *)
(* first one for which every system call asked for succeeds is used.  A      *)
(* client calls it again with the same structure to do more to the socket,   *)
(* or to try again after a failure.                                          *)
(*                                                                           *)
(* An address is its position in the list of getaddrinfo.  What was done to  *)
(* a descriptor is recorded, to compare it with what was asked for.  Other   *)
(* threads do not touch the structure.                                       *)
EXTENDS Integers, Sequences, SequencesExt, FiniteSets

CONSTANTS
    MaxAddrs,  \* the longest list getaddrinfo returns
    Fds,       \* descriptors
    Further    \* values of arg->flags in calls that go on with a structure

\* What is done for one address, in the order of the code.
Steps == <<"SOCKET", "NOBLOCK", "REUSE_ADDR", "BIND", "LISTEN", "CONNECT">>
SkFlags == ToSet(Steps) \cup {"GETADDRINFO"}

ASSUME AddrAssumption == MaxAddrs \in Nat \ {0}
ASSUME FdAssumption == Fds \subseteq Nat \ {0} /\ IsFiniteSet(Fds)
ASSUME RequestAssumption == Further \subseteq SUBSET SkFlags

VARIABLES
    flags,       \* arg->flags
    list,        \* arg->list: the number of its addresses, 0 for NULL
    used,        \* arg->used, 0 for NULL
    sockfd,      \* arg->sockfd
    serrnoflag,  \* arg->serrnoflag
    pc,          \* "idle", "gai", "walk", "step", "next" or "done"
    ap,          \* the address at hand, 0 for NULL
    existed,     \* addr_existed
    todo,        \* steps asked for that are left for this address
    res,         \* the result
    open,        \* open descriptors
    lists,       \* address lists allocated and not freed
    did,         \* history: for each descriptor, the steps and their addresses
    failed       \* history: addresses this call has given up

infoVars == <<flags, list, used, sockfd, serrnoflag>>
sysVars == <<open, lists, did>>
vars == <<infoVars, pc, ap, existed, todo, res, sysVars, failed>>

\* The client has zeroed the structure.
Init ==
    /\ flags = {} /\ list = 0 /\ used = 0 /\ sockfd = 0 /\ serrnoflag = "none"
    /\ pc = "idle" /\ ap = 0 /\ existed = FALSE /\ todo = {} /\ res = 0
    /\ open = {} /\ lists = 0 /\ did = [d \in Fds |-> {}] /\ failed = {}

-----------------------------------------------------------------------------
(* The call.                                                                 *)

\* A careful client looks a name up when it has no address, and has freed the
\* last list then; it asks for a socket when it has none, and for other steps
\* only with one.
MayAsk(f) ==
    /\ used = 0 => "GETADDRINFO" \in f /\ list = 0
    /\ IF "SOCKET" \in f THEN sockfd \notin open
                         ELSE sockfd \in open \/ f \subseteq {"GETADDRINFO"}

\* Flags of 0 are refused.  An address from an earlier call is used again and
\* nothing is looked up.
skctl(f) ==
    /\ pc = "idle" /\ (f # {} => MayAsk(f))
    /\ flags' = f
    /\ existed' = (used # 0) /\ ap' = used
    /\ pc' = CASE f = {} -> "done"
               [] used = 0 /\ "GETADDRINFO" \in f -> "gai"
               [] OTHER -> "walk"
    /\ res' = IF f = {} THEN -1 ELSE 0
    /\ failed' = {}
    /\ UNCHANGED <<list, used, sockfd, serrnoflag, todo, sysVars>>

\* getaddrinfo.  EAI_AGAIN, and EINTR, repeat the call without end.
LookUp ==
    /\ pc = "gai"
    /\ \/ \E n \in 1..MaxAddrs :
            /\ list' = n /\ ap' = 1 /\ lists' = lists + 1
            /\ pc' = "walk" /\ serrnoflag' = "none" /\ UNCHANGED res
       \/ /\ res' = -1 /\ serrnoflag' = "GETADDRINFO"
          /\ pc' = "done" /\ UNCHANGED <<list, ap, lists>>
       \/ /\ serrnoflag' = "none" /\ UNCHANGED <<list, ap, lists, pc, res>>
    /\ UNCHANGED <<flags, used, sockfd, existed, todo, open, did, failed>>

\* Without a list the call fails: a list that was freed leaves arg->used
\* behind, and nothing is looked up then.
NoList ==
    /\ pc = "walk" /\ list = 0
    /\ res' = -1 /\ pc' = "done"
    /\ UNCHANGED <<infoVars, ap, existed, todo, sysVars, failed>>

\* The head of the loop over the addresses.
NextAddr ==
    /\ pc = "walk" /\ list # 0
    /\ IF ap = 0 THEN pc' = "done" /\ UNCHANGED <<used, serrnoflag, todo>>
       ELSE /\ pc' = "step" /\ used' = 0 /\ serrnoflag' = "none"
            /\ todo' = flags \cap ToSet(Steps)
    /\ UNCHANGED <<flags, list, sockfd, ap, existed, res, sysVars, failed>>

\* The step f is next.
At(f) ==
    /\ pc = "step" /\ f \in todo
    /\ \E i \in DOMAIN Steps : Steps[i] = f /\ \A j \in 1..(i - 1) : Steps[j] \notin todo

\* socket; its failure leaves -1
Socket ==
    /\ At("SOCKET")
    /\ \/ \E d \in Fds \ open :
            /\ sockfd' = d /\ open' = open \cup {d}
            /\ did' = [did EXCEPT ![d] = {<<"SOCKET", ap>>}]
            /\ todo' = todo \ {"SOCKET"} /\ UNCHANGED <<pc, res, serrnoflag>>
       \/ /\ sockfd' = -1 /\ res' = -1 /\ serrnoflag' = "SOCKET" /\ pc' = "next"
          /\ UNCHANGED <<open, did, todo>>
    /\ UNCHANGED <<flags, list, used, ap, existed, lists, failed>>

\* One of the other steps succeeds.  connect may also be in progress.
StepDone(f) ==
    /\ At(f) /\ f # "SOCKET"
    /\ did' = [did EXCEPT ![sockfd] = @ \cup {<<f, ap>>}]
    /\ todo' = todo \ {f}
    /\ res' = 0
    /\ UNCHANGED <<infoVars, pc, ap, existed, open, lists, failed>>

\* close of d
Closed(d) == open' = open \ {d} /\ did' = [did EXCEPT ![d] = {}]

\* Seeded fault: the socket is not closed.
StepFailsOpen(f) ==
    /\ At(f) /\ f \notin {"SOCKET", "CONNECT"}
    /\ sockfd' = -1
    /\ res' = -1 /\ serrnoflag' = f /\ pc' = "next"
    /\ UNCHANGED <<flags, list, used, ap, existed, todo, sysVars, failed>>

\* LOOP_ENTRY_CLOSE.  A failing connect does not come here: gwsk_connect calls
\* connect until it succeeds or is in progress.
StepFails(f) ==
    /\ At(f) /\ f \notin {"SOCKET", "CONNECT"}
    /\ Closed(sockfd) /\ sockfd' = -1
    /\ res' = -1 /\ serrnoflag' = f /\ pc' = "next"
    /\ UNCHANGED <<flags, list, used, ap, existed, todo, lists, failed>>

gwsk_connect_again ==
    /\ At("CONNECT")
    /\ UNCHANGED vars

Used ==
    /\ pc = "step" /\ todo = {}
    /\ res' = 0 /\ used' = ap /\ pc' = "done"
    /\ UNCHANGED <<flags, list, sockfd, serrnoflag, ap, existed, todo, sysVars, failed>>

\* Seeded fault: the result of the last address is forgotten.
GiveUpForgets ==
    /\ pc = "next" /\ pc' = "walk" /\ failed' = failed \cup {ap}
    /\ ap' = IF existed \/ ap = list THEN 0 ELSE ap + 1
    /\ used' = IF existed THEN ap ELSE used
    /\ res' = 0
    /\ UNCHANGED <<flags, list, sockfd, serrnoflag, existed, todo, sysVars>>

\* nextap: the next address, or the end if the address was given
GiveUp ==
    /\ pc = "next" /\ failed' = failed \cup {ap}
    /\ IF existed THEN used' = ap /\ pc' = "done" /\ UNCHANGED ap
       ELSE ap' = (IF ap = list THEN 0 ELSE ap + 1) /\ pc' = "walk" /\ UNCHANGED used
    /\ UNCHANGED <<flags, list, sockfd, serrnoflag, existed, todo, res, sysVars>>

-----------------------------------------------------------------------------
(* The client.                                                               *)

SKCTL_TCP_CLIENT == {"GETADDRINFO", "SOCKET", "CONNECT"}
SKCTL_UDP_CLIENT == {"GETADDRINFO", "SOCKET"}
SKCTL_TCP_SERVER == {"GETADDRINFO", "SOCKET", "BIND", "LISTEN", "REUSE_ADDR"}
SKCTL_UDP_SERVER == {"GETADDRINFO", "SOCKET", "BIND", "REUSE_ADDR"}

\* The wrappers, noblock as {} or {"NOBLOCK"}.
skctl_tcp_server(nb) == skctl(SKCTL_TCP_SERVER \cup nb)
skctl_udp_server(nb) == skctl(SKCTL_UDP_SERVER \cup nb)
skctl_tcp_client(nb) == skctl(SKCTL_TCP_CLIENT \cup nb)
skctl_udp_client(nb) == skctl(SKCTL_UDP_CLIENT \cup nb)
skctl_udp_connected_client(nb) == skctl(SKCTL_TCP_CLIENT \cup nb)

\* The locals of the call are gone.
Return ==
    /\ pc = "done" /\ pc' = "idle"
    /\ ap' = 0 /\ existed' = FALSE /\ todo' = {} /\ res' = 0 /\ failed' = {}
    /\ UNCHANGED <<infoVars, sysVars>>

\* skctlinfo_free: arg->used stays
skctlinfo_free ==
    /\ pc = "idle" /\ list # 0
    /\ list' = 0 /\ lists' = lists - 1
    /\ UNCHANGED <<flags, used, sockfd, serrnoflag, pc, ap, existed, todo, res, open, did, failed>>

gwsk_close ==
    /\ pc = "idle" /\ sockfd \in open
    /\ Closed(sockfd)
    /\ UNCHANGED <<infoVars, pc, ap, existed, todo, res, lists, failed>>

\* The structure is zeroed for another use.
Zero ==
    /\ pc = "idle" /\ list = 0 /\ sockfd \notin open
    /\ flags' = {} /\ used' = 0 /\ sockfd' = 0 /\ serrnoflag' = "none"
    /\ UNCHANGED <<list, pc, ap, existed, todo, res, sysVars, failed>>

Call ==
    \/ \E nb \in {{}, {"NOBLOCK"}} :
        \/ skctl_tcp_server(nb) \/ skctl_udp_server(nb) \/ skctl_tcp_client(nb)
        \/ skctl_udp_client(nb) \/ skctl_udp_connected_client(nb)
    \/ \E f \in Further \cup {{}} : skctl(f)

Next ==
    \/ Call \/ LookUp \/ NoList \/ NextAddr \/ Socket
    \/ (\E f \in ToSet(Steps) : StepDone(f) \/ StepFails(f)) \/ gwsk_connect_again
    \/ Used \/ GiveUp \/ Return \/ skctlinfo_free \/ gwsk_close \/ Zero

Spec == Init /\ [][Next]_vars

-----------------------------------------------------------------------------

(* However a call of skctl ends, and whatever calls go before it, no socket   *)
(* but arg->sockfd is open and no address list but arg->list is allocated:    *)
(* the sockets of the addresses that were given up are closed, once each.     *)
NoLeak ==
    /\ open \subseteq {sockfd}
    /\ lists = IF list # 0 THEN 1 ELSE 0

\* A call that got as far as trying an address has just ended.
Tried == pc = "done" /\ (failed # {} \/ res = 0)

(* The result can be relied on.  A call that returns 0 has done every step    *)
(* asked for on one open socket and for one address, arg->used; a call that   *)
(* returns -1 has tried all addresses it could, leaves no socket and names    *)
(* a step that was asked for.                                                 *)
ResultIsTrue ==
    Tried =>
        IF res = 0
        THEN /\ used # 0 /\ used \notin failed
             /\ \A f \in flags \cap ToSet(Steps) : sockfd \in open /\ <<f, used>> \in did[sockfd]
        ELSE /\ sockfd = -1 /\ serrnoflag \in flags
             /\ failed = IF existed THEN {used} ELSE 1..list
             /\ ~existed => used = 0

-----------------------------------------------------------------------------
(* The inductive invariant of the two.                                       *)

PCs == {"idle", "gai", "walk", "step", "next", "done"}

SkType ==
    /\ flags \subseteq SkFlags /\ todo \subseteq flags \cap ToSet(Steps)
    /\ pc = "idle" => todo = {}
    /\ list \in Nat /\ used \in Nat /\ ap \in Nat /\ (list # 0 => used <= list)
    /\ sockfd \in Int /\ open \subseteq Fds /\ pc \in PCs
    /\ existed \in BOOLEAN /\ res \in {0, -1} /\ lists \in Nat
    /\ did \in [Fds -> SUBSET (SkFlags \X Nat)]

\* An open socket belongs to an address; a call that found one uses no other.
AddrInv ==
    /\ (pc \in {"idle", "gai", "done"} /\ used = 0) => sockfd \notin open
    /\ pc = "gai" => ~existed /\ list = 0
    /\ pc \in {"gai", "walk", "step", "next"} /\ ~existed => used = 0
    /\ pc = "walk" => (IF existed THEN ap = used /\ ap # 0 ELSE list # 0 /\ ap <= list)
    /\ pc \in {"step", "next"} => ap \in 1..list /\ used = 0

\* The addresses before this one were given up, each with its socket closed.
FailInv ==
    /\ pc \in {"gai", "idle"} => failed = {}
    /\ pc \in {"walk", "step", "next"} =>
          failed = IF existed THEN {} ELSE IF ap = 0 THEN 1..list ELSE 1..(ap - 1)
    /\ (pc = "walk" /\ failed # {}) \/ pc = "next" =>
          sockfd = -1 /\ res = -1 /\ serrnoflag \in flags

\* What is not left to do was done, for this address and this socket.
WorkInv ==
    /\ pc \in {"gai", "walk", "step"} =>
          IF "SOCKET" \in flags THEN pc # "step" \/ "SOCKET" \in todo => sockfd \notin open
          ELSE flags \subseteq {"GETADDRINFO"} \/ sockfd \in open
    /\ pc \in {"gai", "walk", "step", "next"} /\ ~existed =>
          "SOCKET" \in flags \/ flags \subseteq {"GETADDRINFO"}
    /\ pc = "step" =>
          /\ "SOCKET" \in todo => todo = flags \cap ToSet(Steps)
          /\ "SOCKET" \in flags \ todo => sockfd \in open
          /\ \A f \in (flags \cap ToSet(Steps)) \ todo : <<f, ap>> \in did[sockfd]

SkInv == SkType /\ AddrInv /\ FailInv /\ WorkInv /\ NoLeak /\ ResultIsTrue
=============================================================================
