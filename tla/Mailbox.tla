------------------------------ MODULE Mailbox ------------------------------
(* What gwrl_post_evt_safely promises the threads that call it: an event     *)
(* that was posted is delivered, by one call of its callback, unless the     *)
(* reactor is being freed.                                                   *)
EXTENDS Naturals

CONSTANT Post  \* events

VARIABLES
    posted,  \* events the reactor has been given
    calls,   \* how often the callback of each has run
    closed   \* gwrl_free has been called

vars == <<posted, calls, closed>>

Init == posted = {} /\ calls = [e \in Post |-> 0] /\ closed = FALSE

Put(e) == posted' = posted \cup {e} /\ UNCHANGED <<calls, closed>>

\* gwrl_free dispatches what is there, and may be called meanwhile
Deliver(e) ==
    /\ e \in posted /\ calls[e] = 0
    /\ calls' = [calls EXCEPT ![e] = 1]
    /\ UNCHANGED <<posted, closed>>

Close == closed' = TRUE /\ UNCHANGED <<posted, calls>>

Next == Close \/ \E e \in Post : Put(e) \/ Deliver(e)

Delivered(e) == (e \in posted) ~> (calls[e] = 1 \/ closed)

Spec == Init /\ [][Next]_vars /\ \A e \in Post : Delivered(e)
=============================================================================
