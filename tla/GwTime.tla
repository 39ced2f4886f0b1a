------------------------------- MODULE GwTime -------------------------------
(* The time arithmetic of libgwrl (src/src/gwrl/time.c): struct timespec and *)
(* struct timeval as records of the two C fields, with C's division, which   *)
(* truncates towards zero, and the carry loops of the code in closed form.   *)
EXTENDS Integers

NANOSECONDS_WC == 1000000000
MICROSECONDS_WC == 1000000

\* sec_min, nsec_min: no time has been set (event_private.h)
Unset == [sec |-> -1, nsec |-> -1]

\* a / b and a % b of C, for b > 0
CDiv(a, b) == IF a >= 0 THEN a \div b ELSE -((-a) \div b)
CRem(a, b) == a - b * CDiv(a, b)

\* Seeded fault: no carry.
CarryLost(ts) == ts

\* while(nsec >= _NANOSECONDS_WC) { sec += 1; nsec -= _NANOSECONDS_WC }
Carry(ts) ==
    IF ts.nsec < NANOSECONDS_WC THEN ts
    ELSE [sec |-> ts.sec + ts.nsec \div NANOSECONDS_WC, nsec |-> ts.nsec % NANOSECONDS_WC]

\* Seeded fault: no borrow.
BorrowLost(ts) == ts

\* while(nsec < 0) { sec -= 1; nsec += _NANOSECONDS_WC }
Borrow(ts) ==
    IF ts.nsec >= 0 THEN ts
    ELSE [sec |-> ts.sec + ts.nsec \div NANOSECONDS_WC, nsec |-> ts.nsec % NANOSECONDS_WC]

\* the carry test of gwtm_ms_to_timespec is never true: the remainder is below
\* 1000
gwtm_ms_to_timespec(ms) == [sec |-> CDiv(ms, 1000), nsec |-> 1000000 * CRem(ms, 1000)]

\* Seeded fault: the fraction of the last second is dropped.
ToMsWholeSeconds(ts) == ts.sec * 1000

gwtm_timespec_to_ms(ts) ==
    IF ts.sec = 0 /\ ts.nsec = 0 THEN 0 ELSE ts.sec * 1000 + CDiv(ts.nsec, 1000000)

gwtm_add_ms_to_timespec(ms, ts) ==
    IF ms = 0 THEN ts
    ELSE Carry([sec |-> ts.sec + CDiv(ms, 1000), nsec |-> ts.nsec + 1000000 * CRem(ms, 1000)])

\* gwtm_timespec_cmp(ts1,ts2) returns ts1
Smaller(ts1, ts2) ==
    \/ ts1.sec < ts2.sec
    \/ ts1.sec = ts2.sec /\ ts1.nsec < ts2.nsec

\* the value of *update afterwards
gwtm_timespec_copy_if_smaller(source, update) ==
    IF Smaller(source, update) THEN source ELSE update

gwtm_timespec_sub_into(ts1, ts2) ==
    Borrow([sec |-> ts1.sec - ts2.sec, nsec |-> ts1.nsec - ts2.nsec])

gwtm_timespec_is_expired(ts) ==
    \/ ts.sec < 0
    \/ ts.sec <= 0 /\ ts.nsec <= 0

gwtm_ms_to_timeval(ms) == [sec |-> CDiv(ms, 1000), usec |-> 1000 * CRem(ms, 1000)]

gwtm_timeval_to_ms(tv) ==
    IF tv.sec = 0 /\ tv.usec = 0 THEN 0 ELSE tv.sec * 1000 + CDiv(tv.usec, 1000)

gwtm_add_ms_to_timeval(ms, tv) ==
    LET usec == tv.usec + 1000 * CRem(ms, 1000)
        sec  == tv.sec + CDiv(ms, 1000)
    IN  IF ms = 0 \/ usec < MICROSECONDS_WC THEN [sec |-> sec, usec |-> usec]
        ELSE [sec |-> sec + usec \div MICROSECONDS_WC, usec |-> usec % MICROSECONDS_WC]

gwtm_timeval_to_timespec(tv) == [sec |-> tv.sec, nsec |-> tv.usec * 1000]

gwtm_timespec_to_timeval(ts) == [sec |-> ts.sec, usec |-> CDiv(ts.nsec, 1000)]

-----------------------------------------------------------------------------
(* What the fields stand for.                                                *)

\* struct timespec
TimeSpec == [sec : Int, nsec : Int]
\* a timespec the system could have returned
Normal(ts) == ts.sec \in Int /\ ts.nsec \in Nat /\ ts.nsec < NANOSECONDS_WC
\* in microseconds, rounded down
Micros(ts) == ts.sec * MICROSECONDS_WC + ts.nsec \div 1000
=============================================================================
