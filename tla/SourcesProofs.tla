--------------------------- MODULE SourcesProofs ---------------------------
(* The lists of input sources and the time sources, for any number of them,  *)
(* any clock and any durations, as long as the client does not call          *)
(* gwrl_del_persistent_timeouts.                                             *)
EXTENDS Sources, HeapListProofs

-----------------------------------------------------------------------------
(* The time arithmetic is exact: what gwrl_time_gather computes from the     *)
(* clock and a duration in milliseconds, for every clock and every duration, *)
(* negative ones included.                                                   *)

\* nanoseconds
Value(ts) == ts.sec * 1000000000 + ts.nsec

(* The fields of a timespec, and of the record the code builds from two      *)
(* sums, are integers.                                                       *)
LEMMA Fields ==
    ASSUME NEW ts \in TimeSpec
    PROVE  ts.sec \in Int /\ ts.nsec \in Int
BY SMT DEF TimeSpec

LEMMA Built ==
    ASSUME NEW s \in Int, NEW n \in Int
    PROVE  /\ [sec |-> s, nsec |-> n] \in TimeSpec
           /\ Value([sec |-> s, nsec |-> n]) = s * 1000000000 + n
           /\ [sec |-> s, nsec |-> n].sec = s
           /\ [sec |-> s, nsec |-> n].nsec = n
BY SMT DEF TimeSpec, Value

(* C division by a positive constant splits a number exactly; the remainder  *)
(* has the sign of the dividend.                                             *)
LEMMA SplitMs ==
    ASSUME NEW dur \in Int
    PROVE  /\ CDiv(dur, 1000) \in Int /\ CRem(dur, 1000) \in Int
           /\ dur = 1000 * CDiv(dur, 1000) + CRem(dur, 1000)
           /\ dur >= 0 => 0 <= CRem(dur, 1000) /\ CRem(dur, 1000) < 1000
           /\ CRem(dur, 1000) < 1000
<1>1. CDiv(dur, 1000) \in Int
  BY SMT DEF CDiv
<1>2. CRem(dur, 1000) \in Int /\ dur = 1000 * CDiv(dur, 1000) + CRem(dur, 1000)
  BY SMT, <1>1 DEF CRem
<1>3. dur >= 0 => 0 <= CRem(dur, 1000) /\ CRem(dur, 1000) < 1000
  BY SMT DEF CRem, CDiv
<1>4. CRem(dur, 1000) < 1000
  BY SMT DEF CRem, CDiv
<1> QED
  BY SMT, <1>1, <1>2, <1>3, <1>4

(* Division by the nanoseconds of a second, as the loops in closed form do.  *)
LEMMA SplitNs ==
    ASSUME NEW n \in Int
    PROVE  /\ n \div 1000000000 \in Int /\ n % 1000000000 \in Int
           /\ n = 1000000000 * (n \div 1000000000) + (n % 1000000000)
           /\ 0 <= n % 1000000000 /\ n % 1000000000 < 1000000000
BY SMT

(* The carry loop of gwtm_add_ms_to_timespec and the borrow loop of          *)
(* gwtm_timespec_sub_into keep the value and complete the normal form.       *)
LEMMA CarryExact ==
    ASSUME NEW ts \in TimeSpec
    PROVE  /\ Carry(ts) \in TimeSpec /\ Value(Carry(ts)) = Value(ts)
           /\ Carry(ts).nsec < 1000000000
           /\ ts.nsec >= 0 => Carry(ts).nsec >= 0
<1> DEFINE s == ts.sec + ts.nsec \div 1000000000
           n == ts.nsec % 1000000000
<1>1. ts.sec \in Int /\ ts.nsec \in Int
  BY SMT, Fields
<1>2. s \in Int /\ n \in Int /\ 0 <= n /\ n < 1000000000
  BY SMT, <1>1, SplitNs
<1>3. s * 1000000000 + n = ts.sec * 1000000000 + ts.nsec
  BY SMT, <1>1, SplitNs
<1>4. CASE ts.nsec < 1000000000
  BY SMT, <1>1, <1>4 DEF Carry, NANOSECONDS_WC
<1>5. CASE ~(ts.nsec < 1000000000)
  <2>1. Carry(ts) = [sec |-> s, nsec |-> n]
    BY SMT, <1>5 DEF Carry, NANOSECONDS_WC
  <2> HIDE DEF s, n
  <2> QED
    BY SMT, <1>2, <1>3, <2>1, Built DEF Value
<1> QED
  BY SMT, <1>4, <1>5

LEMMA BorrowExact ==
    ASSUME NEW ts \in TimeSpec
    PROVE  /\ Borrow(ts) \in TimeSpec /\ Value(Borrow(ts)) = Value(ts)
           /\ Borrow(ts).nsec >= 0
           /\ ts.nsec < 1000000000 => Borrow(ts).nsec < 1000000000
<1> DEFINE s == ts.sec + ts.nsec \div 1000000000
           n == ts.nsec % 1000000000
<1>1. ts.sec \in Int /\ ts.nsec \in Int
  BY SMT, Fields
<1>2. s \in Int /\ n \in Int /\ 0 <= n /\ n < 1000000000
  BY SMT, <1>1, SplitNs
<1>3. s * 1000000000 + n = ts.sec * 1000000000 + ts.nsec
  BY SMT, <1>1, SplitNs
<1>4. CASE ts.nsec >= 0
  BY SMT, <1>1, <1>4 DEF Borrow
<1>5. CASE ~(ts.nsec >= 0)
  <2>1. Borrow(ts) = [sec |-> s, nsec |-> n]
    BY SMT, <1>5 DEF Borrow, NANOSECONDS_WC
  <2> HIDE DEF s, n
  <2> QED
    BY SMT, <1>2, <1>3, <2>1, Built DEF Value
<1> QED
  BY SMT, <1>4, <1>5

(* What Normal says of the two fields.                                       *)
LEMMA NormalFields ==
    ASSUME NEW ts \in TimeSpec
    PROVE  Normal(ts) <=> 0 <= ts.nsec /\ ts.nsec < 1000000000
BY SMT, Fields DEF Normal, NANOSECONDS_WC

(* gwtm_add_ms_to_timespec adds exactly dur milliseconds; a duration that is *)
(* not negative keeps the normal form, and after a negative one tv_nsec may  *)
(* be below zero but is never a second or more.                              *)
THEOREM AddIsExact ==
    ASSUME NEW dur \in Int, NEW ts \in TimeSpec, Normal(ts)
    PROVE  /\ gwtm_add_ms_to_timespec(dur, ts) \in TimeSpec
           /\ Value(gwtm_add_ms_to_timespec(dur, ts)) = Value(ts) + 1000000 * dur
           /\ gwtm_add_ms_to_timespec(dur, ts).nsec < 1000000000
           /\ dur >= 0 => Normal(gwtm_add_ms_to_timespec(dur, ts))
<1> DEFINE s == ts.sec + CDiv(dur, 1000)
           n == ts.nsec + 1000000 * CRem(dur, 1000)
<1>1. ts.sec \in Int /\ ts.nsec \in Int /\ 0 <= ts.nsec /\ ts.nsec < 1000000000
  BY SMT, Fields, NormalFields
<1>2. CASE dur = 0
  BY SMT, <1>1, <1>2 DEF gwtm_add_ms_to_timespec, Value
<1>3. CASE dur # 0
  <2> DEFINE q == CDiv(dur, 1000)
             r == CRem(dur, 1000)
  <2>0. q \in Int /\ r \in Int /\ dur = 1000 * q + r /\ (dur >= 0 => 0 <= r)
    BY SMT, SplitMs
  <2>1. s \in Int /\ n \in Int
    <3>1. s = ts.sec + q /\ n = ts.nsec + 1000000 * r
      BY SMT
    <3> HIDE DEF q, r, s, n
    <3> QED
      BY SMT, <1>1, <2>0, <3>1
  <2>2. s * 1000000000 + n = ts.sec * 1000000000 + ts.nsec + 1000000 * dur
    <3>1. s = ts.sec + q /\ n = ts.nsec + 1000000 * r
      BY SMT
    <3> HIDE DEF q, r, s, n
    <3> QED
      BY SMT, <1>1, <2>0, <3>1
  <2>3. dur >= 0 => n >= 0
    <3>1. n = ts.nsec + 1000000 * r
      BY SMT
    <3> HIDE DEF q, r, s, n
    <3> QED
      BY SMT, <1>1, <2>0, <3>1
  <2>4. gwtm_add_ms_to_timespec(dur, ts) = Carry([sec |-> s, nsec |-> n])
    BY SMT, <1>3 DEF gwtm_add_ms_to_timespec
  <2> HIDE DEF s, n
  <2>5. /\ [sec |-> s, nsec |-> n] \in TimeSpec
        /\ Value([sec |-> s, nsec |-> n]) = Value(ts) + 1000000 * dur
        /\ dur >= 0 => [sec |-> s, nsec |-> n].nsec >= 0
    BY SMT, <2>1, <2>2, <2>3, Built DEF Value
  <2>6. /\ gwtm_add_ms_to_timespec(dur, ts) \in TimeSpec
        /\ Value(gwtm_add_ms_to_timespec(dur, ts)) = Value(ts) + 1000000 * dur
        /\ gwtm_add_ms_to_timespec(dur, ts).nsec < 1000000000
        /\ dur >= 0 => gwtm_add_ms_to_timespec(dur, ts).nsec >= 0
    BY SMT, <2>4, <2>5, CarryExact
  <2> QED
    BY SMT, <2>6, NormalFields
<1> QED
  BY SMT, <1>2, <1>3

(* gwtm_timespec_sub_into subtracts exactly and returns the normal form, also *)
(* for the negative tv_nsec that a negative duration leaves behind.           *)
THEOREM SubIsExact ==
    ASSUME NEW a \in TimeSpec, NEW b \in TimeSpec, Normal(b), a.nsec < 1000000000
    PROVE  /\ gwtm_timespec_sub_into(a, b) \in TimeSpec
           /\ Value(gwtm_timespec_sub_into(a, b)) = Value(a) - Value(b)
           /\ Normal(gwtm_timespec_sub_into(a, b))
<1> DEFINE s == a.sec - b.sec
           n == a.nsec - b.nsec
<1>1. a.sec \in Int /\ a.nsec \in Int /\ b.sec \in Int /\ b.nsec \in Int /\ 0 <= b.nsec
  BY SMT, Fields, NormalFields
<1>2. s \in Int /\ n \in Int /\ n < 1000000000
  BY SMT, <1>1
<1>3. s * 1000000000 + n = Value(a) - Value(b)
  BY SMT, <1>1 DEF Value
<1>4. gwtm_timespec_sub_into(a, b) = Borrow([sec |-> s, nsec |-> n])
  BY SMT DEF gwtm_timespec_sub_into
<1> HIDE DEF s, n
<1>5. /\ [sec |-> s, nsec |-> n] \in TimeSpec
      /\ Value([sec |-> s, nsec |-> n]) = Value(a) - Value(b)
      /\ [sec |-> s, nsec |-> n].nsec < 1000000000
  BY SMT, <1>2, <1>3, Built
<1> QED
  BY SMT, <1>4, <1>5, BorrowExact, NormalFields

(* gwtm_timespec_is_expired decides by the value.                            *)
THEOREM ExpiredIffPast ==
    ASSUME NEW ts \in TimeSpec, Normal(ts)
    PROVE  gwtm_timespec_is_expired(ts) <=> Value(ts) <= 0
<1>1. ts.sec \in Int /\ ts.nsec \in Int /\ 0 <= ts.nsec /\ ts.nsec < 1000000000
  BY SMT, Fields, NormalFields
<1> QED
  BY SMT, <1>1 DEF gwtm_timespec_is_expired, Value

(* gwtm_timespec_cmp, and with it the choice of the nearest time source in   *)
(* gwrl_time_gather, orders by the value.                                    *)
THEOREM SmallerIffLess ==
    ASSUME NEW a \in TimeSpec, NEW b \in TimeSpec, Normal(a), Normal(b)
    PROVE  Smaller(a, b) <=> Value(a) < Value(b)
<1>1. a.sec \in Int /\ a.nsec \in Int /\ 0 <= a.nsec /\ a.nsec < 1000000000
  BY SMT, Fields, NormalFields
<1>2. b.sec \in Int /\ b.nsec \in Int /\ 0 <= b.nsec /\ b.nsec < 1000000000
  BY SMT, Fields, NormalFields
<1> QED
  BY SMT, <1>1, <1>2 DEF Smaller, Value

(* The test gwrl_time_gather makes: a time source of dur milliseconds armed  *)
(* at t is expired at c exactly when dur milliseconds have passed, for every *)
(* dur, and the time left is never mistaken for "no timeout".                 *)
THEOREM ExpiryIsExact ==
    ASSUME NEW dur \in Int, NEW t \in TimeSpec, NEW c \in TimeSpec, Normal(t), Normal(c)
    PROVE  LET left == gwtm_timespec_sub_into(gwtm_add_ms_to_timespec(dur, t), c)
           IN  /\ gwtm_timespec_is_expired(left) <=> Value(t) + 1000000 * dur <= Value(c)
               /\ left # Unset
<1> DEFINE due == gwtm_add_ms_to_timespec(dur, t)
           left == gwtm_timespec_sub_into(due, c)
<1>1. due \in TimeSpec /\ Value(due) = Value(t) + 1000000 * dur /\ due.nsec < 1000000000
  BY SMT, AddIsExact
<1>2. left \in TimeSpec /\ Value(left) = Value(due) - Value(c) /\ Normal(left)
  BY SMT, <1>1, SubIsExact
<1>3. Value(due) \in Int /\ Value(c) \in Int
  BY SMT, <1>1, Fields DEF Value
<1>4. gwtm_timespec_is_expired(left) <=> Value(left) <= 0
  BY SMT, <1>2, ExpiredIffPast
<1>5. gwtm_timespec_is_expired(left) <=> Value(t) + 1000000 * dur <= Value(c)
  <2> HIDE DEF due, left
  <2> QED
    BY SMT, <1>1, <1>2, <1>3, <1>4
<1>6. left # Unset
  BY SMT, <1>2, NormalFields DEF Unset
<1> QED
  BY SMT, <1>5, <1>6

(* gwtm_timespec_to_ms cuts a time that is left to whole milliseconds, rounding *)
(* down, and is never negative, which poll and epoll_wait would take for no     *)
(* limit: the wait ends at most one millisecond before the time source is due,  *)
(* never after it.                                                              *)
THEOREM WaitIsRoundedDown ==
    ASSUME NEW ts \in TimeSpec, Normal(ts), Value(ts) >= 0
    PROVE  /\ gwtm_timespec_to_ms(ts) >= 0
           /\ 1000000 * gwtm_timespec_to_ms(ts) <= Value(ts)
           /\ Value(ts) < 1000000 * (gwtm_timespec_to_ms(ts) + 1)
<1> DEFINE s == ts.sec
           n == ts.nsec
<1>1. s \in Int /\ n \in Int /\ 0 <= n /\ n < 1000000000
  BY SMT, Fields, NormalFields
<1>2. s >= 0
  BY SMT, <1>1 DEF Value
<1>3. /\ n \div 1000000 \in Int /\ n \div 1000000 >= 0
      /\ 1000000 * (n \div 1000000) <= n /\ n < 1000000 * (n \div 1000000) + 1000000
  BY SMT, <1>1
<1>4. gwtm_timespec_to_ms(ts) = s * 1000 + n \div 1000000
  <2>1. CASE s = 0 /\ n = 0
    BY SMT, <2>1 DEF gwtm_timespec_to_ms
  <2>2. CASE ~(s = 0 /\ n = 0)
    BY SMT, <1>1, <2>2 DEF gwtm_timespec_to_ms, CDiv
  <2> QED
    BY SMT, <2>1, <2>2
<1>5. Value(ts) = s * 1000000000 + n
  BY SMT DEF Value
<1> HIDE DEF s, n
<1> QED
  BY SMT, <1>1, <1>2, <1>3, <1>4, <1>5

-----------------------------------------------------------------------------
(* The inductive invariant of the sources.                                   *)

(* The times that are needed are set.                                         *)
DataInv == \A s \in Src : kind[s] = "date" => s \in Timer /\ when[s] # Unset

ControlInv ==
    /\ tangled => pc \in {"inst", "user"}
    /\ pc \in {"clear", "inst", "walk"} => cur # NULL
    /\ pc = "poll" => cur = NULL
    /\ gstart <= now

(* A source is registered, queued, lost, or the client's.                     *)
CellsInv ==
    /\ registered \cup queued \cup raced \subseteq alloc
    /\ registered \cap (queued \cup raced) = {} /\ queued \cap raced = {}

(* rl->_qsrc, and the list being installed, hold exactly the queued sources.  *)
QueueInv ==
    /\ Acyclic(next, qsrc)
    /\ pc # "inst" => Reach(qsrc) = queued
    /\ pc \in {"clear", "inst"} => Acyclic(next, cur)
    /\ pc = "clear" => Reach(cur) \subseteq queued
    /\ pc = "inst" => Reach(cur) \cap Reach(qsrc) = {} /\ queued = Reach(cur) \cup Reach(qsrc)

(* The lists hold exactly the registered sources, and gwrl_time_gather walks  *)
(* along the list of time sources.                                            *)
Types == {"time", "file"}
OfType(t) == {s \in registered : TypeOf(s) = t}
ListInv == ~tangled =>
    /\ \A t \in Types : Acyclic(next, head[t]) /\ Reach(head[t]) = OfType(t)
    /\ \A s \in alloc \ (registered \cup queued \cup raced) : next[s] = NULL
    /\ pc \in {"read", "walk"} =>
          /\ cur # NULL => cur \in OfType("time")
          /\ prev # NULL => prev \in OfType("time") /\ next[prev] = cur

SourceInv == TypeOK /\ DataInv /\ ControlInv /\ CellsInv /\ QueueInv /\ ListInv

(* The time sources gwrl_time_gather has passed are taken into account.       *)
Zero == [sec |-> 0, nsec |-> 0]
Accounted(s) ==
    /\ when[s] # Unset /\ timeout # Unset
    /\ posted \/ Value(timeout) + 1000 * Us(gstart) <= Value(when[s])
GatherInv == pc \in {"read", "walk", "poll"} =>
    /\ pending # <<>> => posted
    /\ posted \/ timeout = Unset \/ Value(timeout) >= 0
    /\ pc = "poll" /\ posted => timeout = Zero
    /\ pc = "walk" => /\ cur \in enabled /\ current # Unset
                      /\ 1000 * Us(gstart) <= Value(current)
                      /\ Value(current) <= 1000 * Us(now)
    /\ \A s \in Armed \ Reach(cur) : Accounted(s)

(* What the expiry of a time source stands for.                               *)
Due(s) ==
    /\ kind[s] # "interval" /\ s \in enabled => fires[s] = 0
    /\ kind[s] = "interval" /\ when[s] = Unset => fires[s] = 0
    /\ kind[s] = "date" => Value(when[s]) = 1000000 * ms[s]
    /\ kind[s] # "date" /\ when[s] # Unset =>
          Value(when[s]) >= 1000 * (Us(armedAt[s]) + (fires[s] + 1) * ms[s] * 1000)
DueInv == \A s \in Timer \cap alloc : Due(s)

(* Unless an event was posted, the timeout is that of an enabled source.      *)
SpinInv ==
    /\ posted => pc \in {"read", "walk", "poll"} /\ pending # <<>>
    /\ pc \in {"read", "walk"} /\ ~posted /\ timeout # Unset =>
          \E s \in Armed : when[s] # Unset /\ Value(when[s]) <= Value(timeout) + 1000 * Us(now)
-----------------------------------------------------------------------------
(* Facts about the constants and the invariant that every step uses.          *)
LEMMA Basics ==
    ASSUME HeapType
    PROVE  /\ DOMAIN next = Src /\ NULL \notin Src /\ Timer \subseteq Src /\ File \subseteq Src
           /\ Reach(NULL) = {} /\ Acyclic(next, NULL)
           /\ \A p : Reach(p) \subseteq Src /\ (p \in Src => p \in Reach(p))
           /\ \A p \in PtrTo(Src) : p # NULL => p \in Src
  <1>1. DOMAIN next = Src /\ NULL \notin Src /\ Timer \subseteq Src /\ File \subseteq Src
    BY CellAssumption DEF CellAssumption, HeapType, Src
  <1>2. Reach(NULL) = {} /\ Acyclic(next, NULL)
    BY <1>1, NullIsAcyclic DEF Reach
  <1>3. \A p : Reach(p) \subseteq Src /\ (p \in Src => p \in Reach(p))
    BY <1>1, WalkIsClosed DEF Reach
  <1> QED BY <1>1, <1>2, <1>3 DEF PtrTo

(* A store to the next field of c: the lists c is not on stay as they are,    *)
(* and c can be put before one of them.                                       *)
LEMMA Store ==
    ASSUME HeapType, NEW c \in Src, NEW x, next' = [next EXCEPT ![c] = x]
    PROVE  /\ \A h : c \notin Reach(h) => /\ Reachable(next', h) = Reach(h)
                                          /\ Acyclic(next, h) => Acyclic(next', h)
           /\ c \notin Reach(x) /\ Acyclic(next, x) =>
                 Reachable(next', c) = {c} \cup Reach(x) /\ Acyclic(next', c)
  <1>1. DOMAIN next = Src /\ DOMAIN next' = DOMAIN next /\ next'[c] = x
    BY Basics
  <1>2. ASSUME NEW h, c \notin Reach(h)
        PROVE  Reachable(next', h) = Reach(h) /\ (Acyclic(next, h) => Acyclic(next', h))
    <2>1. \A d \in Reachable(next, h) : next'[d] = next[d]
      BY <1>1, <1>2, WalkIsClosed DEF Reach
    <2> QED BY <1>1, <2>1, WalkIsLocal DEF Reach
  <1>3. ASSUME c \notin Reach(x), Acyclic(next, x)
        PROVE  Reachable(next', c) = {c} \cup Reach(x) /\ Acyclic(next', c)
    <2>1. c \in DOMAIN next'
      BY <1>1
    <2>2. Reachable(next', x) = Reachable(next, x) /\ Acyclic(next', x)
      BY <1>2, <1>3 DEF Reach
    <2>3. Reachable(next', c) = {c} \cup Reachable(next', x) /\ c \notin Reachable(next', x)
      BY <1>1, <1>3, <2>1, <2>2, WalkFromCell DEF Reach
    <2>4. Acyclic(next', c)
      BY <1>1, <2>2, <2>3 DEF Acyclic
    <2> QED BY <2>2, <2>3, <2>4 DEF Reach
  <1> QED BY <1>2, <1>3

(* Taking the first cell of a list.                                           *)
LEMMA Pop ==
    ASSUME HeapType, NEW c \in Src, Acyclic(next, c)
    PROVE  /\ Reach(next[c]) = Reach(c) \ {c} /\ Acyclic(next, next[c]) /\ c \in Reach(c)
           /\ next[c] \in PtrTo(Src)
  <1>1. c \in DOMAIN next
    BY Basics
  <1> QED BY <1>1, PopCell DEF Reach, HeapType

-----------------------------------------------------------------------------
(* Times.                                                                     *)

LEMMA NormalIsSet == \A ts : Normal(ts) => ts # Unset
  BY DEF Normal, Unset

LEMMA UsFacts ==
    ASSUME NEW t \in Nat
    PROVE  Us(t) \in Nat /\ (\A u \in Nat : t <= u => Us(t) <= Us(u))
  <1>1. StartUs \in Nat /\ TickUs \in Nat
    BY ClockAssumption DEF ClockAssumption
  <1>2. t * TickUs \in Nat
    BY <1>1
  <1>3. ASSUME NEW u \in Nat, t <= u PROVE t * TickUs <= u * TickUs
    <2>1. (u - t) * TickUs >= 0 /\ u - t \in Nat
      BY <1>1, <1>3
    <2>2. u * TickUs = t * TickUs + (u - t) * TickUs
      BY <1>1, <2>1
    <2> QED BY <1>1, <2>1, <2>2
  <1>4. \A u \in Nat : t <= u => Us(t) <= Us(u)
    BY <1>1, <1>2, <1>3 DEF Us
  <1> QED BY <1>1, <1>2, <1>4 DEF Us

(* The clock of tick t is a normal timespec.                                  *)
LEMMA ClockFacts ==
    ASSUME NEW t \in Nat
    PROVE  /\ Clock(t) \in TimeSpec /\ Normal(Clock(t)) /\ Clock(t) # Unset
           /\ Value(Clock(t)) = 1000 * Us(t)
  <1> DEFINE u == Us(t)
             q == u \div 1000000
             r == u % 1000000
  <1>1. u \in Nat
    BY UsFacts
  <1> HIDE DEF u
  <1>2. q \in Int /\ r \in Int /\ u = 1000000 * q + r /\ 0 <= r /\ r < 1000000
    BY <1>1
  <1>3. Clock(t) = [sec |-> q, nsec |-> r * 1000]
    BY DEF Clock, gwtm_timeval_to_timespec, MICROSECONDS_WC, u
  <1> HIDE DEF q, r
  <1>4. r * 1000 \in Int /\ 0 <= r * 1000 /\ r * 1000 < 1000000000
    BY <1>2
  <1>5. /\ Clock(t) \in TimeSpec /\ Value(Clock(t)) = q * 1000000000 + r * 1000
        /\ Clock(t).nsec = r * 1000
    BY <1>2, <1>3, <1>4, Built
  <1>6. Normal(Clock(t))
    BY <1>4, <1>5, NormalFields
  <1>7. Value(Clock(t)) = 1000 * u
    BY <1>2, <1>5
  <1> QED BY <1>5, <1>6, <1>7, NormalIsSet DEF u

LEMMA DateFacts ==
    ASSUME NEW m \in Nat
    PROVE  /\ gwtm_ms_to_timespec(m) \in TimeSpec /\ Normal(gwtm_ms_to_timespec(m))
           /\ Value(gwtm_ms_to_timespec(m)) = 1000000 * m
  <1> DEFINE q == CDiv(m, 1000)
             r == CRem(m, 1000)
  <1>1. q \in Int /\ r \in Int /\ m = 1000 * q + r /\ 0 <= r /\ r < 1000
    BY SplitMs
  <1>2. gwtm_ms_to_timespec(m) = [sec |-> q, nsec |-> 1000000 * r]
    BY DEF gwtm_ms_to_timespec
  <1> HIDE DEF q, r
  <1>3. 1000000 * r \in Int /\ 0 <= 1000000 * r /\ 1000000 * r < 1000000000
    BY <1>1
  <1>4. /\ gwtm_ms_to_timespec(m) \in TimeSpec /\ gwtm_ms_to_timespec(m).nsec = 1000000 * r
        /\ Value(gwtm_ms_to_timespec(m)) = q * 1000000000 + 1000000 * r
    BY <1>1, <1>2, <1>3, Built
  <1> QED BY <1>1, <1>3, <1>4, NormalFields

(* The backend's wait, in whole milliseconds or not, is no longer than the    *)
(* timeout.                                                                   *)
LEMMA WaitFacts ==
    ASSUME NEW ts \in TimeSpec, Normal(ts), Value(ts) >= 0
    PROVE  /\ Wait(ts) \in Nat /\ 1000 * Wait(ts) <= Value(ts)
           /\ ts = Zero => Wait(ts) = 0
  <1> DEFINE s == ts.sec
             n == ts.nsec
             d == n \div 1000
  <1>1. s \in Int /\ n \in Int /\ 0 <= n /\ n < 1000000000 /\ Value(ts) = s * 1000000000 + n
    BY Fields, NormalFields DEF Value
  <1>2. d \in Int /\ 0 <= d /\ 1000 * d <= n /\ (n = 0 => d = 0)
    BY <1>1
  <1>3. ts = Zero => s = 0 /\ n = 0
    BY DEF Zero
  <1>4. s >= 0
    BY <1>1
  <1>5. CASE Backend \in {"epoll", "poll"}
    <2> DEFINE m == gwtm_timespec_to_ms(ts)
    <2>1. Wait(ts) = m * 1000
      BY <1>5 DEF Wait
    <2>2. m \in Int
      BY <1>1 DEF gwtm_timespec_to_ms, CDiv
    <2>3. m >= 0 /\ 1000000 * m <= Value(ts)
      BY WaitIsRoundedDown
    <2>4. ts = Zero => m = 0
      BY DEF gwtm_timespec_to_ms, Zero
    <2> HIDE DEF m
    <2> QED BY <1>1, <2>1, <2>2, <2>3, <2>4
  <1>6. CASE Backend = "select"
    <2>1. Wait(ts) = s * 1000000 + CDiv(n, 1000)
      BY <1>6 DEF Wait, gwtm_timespec_to_timeval, MICROSECONDS_WC
    <2>2. CDiv(n, 1000) = d
      BY <1>1 DEF CDiv
    <2> HIDE DEF s, n, d
    <2> QED BY <1>1, <1>2, <1>3, <1>4, <2>1, <2>2
  <1>7. CASE Backend = "kqueue"
    <2>1. Wait(ts) = s * 1000000 + d
      BY <1>7 DEF Wait, Micros, MICROSECONDS_WC
    <2> HIDE DEF s, n, d
    <2> QED BY <1>1, <1>2, <1>3, <1>4, <2>1
  <1> QED BY <1>5, <1>6, <1>7, BackendAssumption DEF BackendAssumption

LEMMA MicrosFacts ==
    ASSUME NEW ts \in TimeSpec, Normal(ts), NEW u \in Int, 1000 * u <= Value(ts)
    PROVE  u <= Micros(ts) /\ Micros(ts) \in Int
  <1> DEFINE s == ts.sec
             n == ts.nsec
             d == n \div 1000
  <1>1. s \in Int /\ n \in Int /\ 0 <= n /\ n < 1000000000 /\ Value(ts) = s * 1000000000 + n
    BY Fields, NormalFields DEF Value
  <1>2. d \in Int /\ n < 1000 * d + 1000
    BY <1>1
  <1>3. Micros(ts) = s * 1000000 + d
    BY DEF Micros, MICROSECONDS_WC
  <1> HIDE DEF s, n, d
  <1> QED BY <1>1, <1>2, <1>3

LEMMA MicrosBelow ==
    ASSUME NEW ts \in TimeSpec, Normal(ts), NEW u \in Int, Value(ts) < 1000 * u
    PROVE  Micros(ts) < u
  <1> DEFINE s == ts.sec
             n == ts.nsec
             d == n \div 1000
  <1>1. s \in Int /\ n \in Int /\ 0 <= n /\ n < 1000000000 /\ Value(ts) = s * 1000000000 + n
    BY SMT, Fields, NormalFields DEF Value
  <1>2. d \in Int /\ 1000 * d <= n
    BY SMT, <1>1
  <1>3. Micros(ts) = s * 1000000 + d
    BY DEF Micros, MICROSECONDS_WC
  <1> HIDE DEF s, n, d
  <1> QED BY SMT, <1>1, <1>2, <1>3

(* The backend does not wait only if less than a millisecond is left.         *)
LEMMA NoWait ==
    ASSUME NEW ts \in TimeSpec, Normal(ts), Value(ts) >= 0, Wait(ts) = 0
    PROVE  Value(ts) < 1000000
  <1> DEFINE s == ts.sec
             n == ts.nsec
             d == n \div 1000
  <1>1. s \in Int /\ n \in Int /\ 0 <= n /\ n < 1000000000 /\ Value(ts) = s * 1000000000 + n
    BY SMT, Fields, NormalFields DEF Value
  <1>2. d \in Int /\ 0 <= d /\ n < 1000 * d + 1000
    BY SMT, <1>1
  <1>3. s >= 0
    BY SMT, <1>1
  <1>4. CASE Backend \in {"epoll", "poll"}
    <2> DEFINE m == gwtm_timespec_to_ms(ts)
    <2>1. Wait(ts) = m * 1000
      BY <1>4 DEF Wait
    <2>2. m \in Int
      BY SMT, <1>1 DEF gwtm_timespec_to_ms, CDiv
    <2>3. Value(ts) < 1000000 * (m + 1)
      BY SMT, WaitIsRoundedDown
    <2> HIDE DEF m
    <2> QED BY SMT, <1>1, <2>1, <2>2, <2>3
  <1>5. CASE Backend \in {"select", "kqueue"}
    <2>1. CDiv(n, 1000) = d
      BY SMT, <1>1 DEF CDiv
    <2>2. Wait(ts) = s * 1000000 + d
      BY <1>5, <2>1 DEF Wait, Micros, gwtm_timespec_to_timeval, MICROSECONDS_WC
    <2> HIDE DEF s, n, d
    <2> QED BY SMT, <1>1, <1>2, <1>3, <2>2
  <1> QED BY <1>4, <1>5, BackendAssumption DEF BackendAssumption
-----------------------------------------------------------------------------
(* The lists, step by step.                                                   *)

Structure == HeapType /\ ControlType /\ ControlInv /\ CellsInv /\ QueueInv /\ ListInv

LEMMA TypeOfFacts == \A s : TypeOf(s) \in Types /\ (TypeOf(s) = "time" <=> s \in Timer)
  BY DEF TypeOf, Types

(* The local variables of the reactor move along the lists.                   *)
LEMMA WalkLists ==
    ASSUME Structure,
           UNCHANGED <<next, alloc, head, qsrc, registered, queued, raced, tangled>>,
           gstart' \in {gstart, now, 0}, gstart \in Nat, now' \in Nat, now' >= now,
           \/ pc' = pc /\ UNCHANGED <<cur, prev>>
           \/ pc = "check" /\ cur' = qsrc /\ pc' = IF qsrc # NULL THEN "clear" ELSE "user"
           \/ pc = "user" /\ pc' = "read" /\ cur' = head["time"] /\ prev' = NULL /\ ~tangled
           \/ pc \in {"read", "walk"} /\ pc' = "read" /\ cur # NULL /\ prev' = cur /\ cur' = next[cur]
           \/ pc = "read" /\ pc' = "walk" /\ cur # NULL /\ UNCHANGED <<cur, prev>>
           \/ pc = "read" /\ pc' = "poll" /\ cur = NULL /\ UNCHANGED cur
           \/ pc = "poll" /\ pc' = "check" /\ UNCHANGED <<cur, prev>>
    PROVE  ControlInv' /\ CellsInv' /\ QueueInv' /\ ListInv'
  <1> USE DEF Structure
  <1>1. /\ \A p : Reachable(next', p) = Reach(p)
        /\ \A p : Acyclic(next', p) <=> Acyclic(next, p)
        /\ \A t : OfType(t)' = OfType(t)
    BY Zenon DEF Reach, OfType
  <1>2. ControlInv'
    BY DEF ControlInv, ControlType
  <1>3. CellsInv'
    BY DEF CellsInv
  <1>4. QueueInv'
    BY <1>1 DEF QueueInv, Reach
  <1>5. ASSUME ~tangled, pc' \in {"read", "walk"}
        PROVE  /\ cur' # NULL => cur' \in OfType("time")
               /\ prev' # NULL => prev' \in OfType("time") /\ next[prev'] = cur'
    <2>1. /\ \A t \in Types : Reach(head[t]) = OfType(t)
          /\ pc \in {"read", "walk"} =>
                /\ cur # NULL => cur \in OfType("time")
                /\ prev # NULL => prev \in OfType("time") /\ next[prev] = cur
      BY <1>5 DEF ListInv
    <2>2. Reach(head["time"]) = OfType("time") /\ head["time"] \in PtrTo(Src)
      BY <2>1 DEF Types, HeapType
    <2>3. CASE pc = "user"
      BY <1>5, <2>2, <2>3, Basics DEF PtrTo
    <2>4. CASE pc \in {"read", "walk"} /\ cur' = next[cur] /\ cur # NULL /\ prev' = cur
      <3>1. cur \in OfType("time") /\ cur \in Src
        BY <2>1, <2>4, Basics DEF HeapType
      <3>2. next[cur] # NULL => next[cur] \in OfType("time")
        <4>1. next[cur] \in PtrTo(Src) /\ ClosedUnder(next, Reach(head["time"]))
          BY <3>1, WalkIsClosed DEF HeapType, Reach
        <4> QED BY <2>2, <3>1, <4>1, Basics DEF ClosedUnder, PtrTo
      <3> QED BY <2>4, <3>1, <3>2
    <2>5. CASE pc \in {"read", "walk"} /\ cur' = cur /\ prev' = prev
      BY <2>1, <2>5
    <2> QED BY <1>5, <2>3, <2>4, <2>5
  <1>6. ListInv'
    BY <1>1, <1>5 DEF ListInv, Reach
  <1> QED BY <1>2, <1>3, <1>4, <1>6

LEMMA ClearLists ==
    ASSUME Structure, ClearQueue
    PROVE  ControlInv' /\ CellsInv' /\ QueueInv' /\ ListInv'
  <1> USE DEF Structure, heapVars, timeVars
  <1>1. /\ UNCHANGED <<next, alloc, head, cur, prev, registered, tangled, now, gstart>>
        /\ pc = "clear" /\ pc' = "inst" /\ qsrc' = NULL
        /\ raced' = raced \cup (queued \ Reach(cur)) /\ queued' = queued \cap Reach(cur)
    BY DEF ClearQueue
  <1>2. /\ \A p : Reachable(next', p) = Reach(p)
        /\ \A p : Acyclic(next', p) <=> Acyclic(next, p)
        /\ \A t : OfType(t)' = OfType(t)
    BY <1>1, Zenon DEF Reach, OfType
  <1>3. ~tangled
    BY <1>1 DEF ControlInv
  <1>4. ControlInv'
    BY <1>1 DEF ControlInv
  <1>5. CellsInv'
    BY <1>1 DEF CellsInv
  <1>6. QueueInv'
    BY <1>1, <1>2, Basics DEF QueueInv, Reach
  <1>7. ListInv'
    BY <1>1, <1>2, <1>3 DEF ListInv, Reach
  <1> QED BY <1>4, <1>5, <1>6, <1>7

(* gwrl_src_add puts a source that is nowhere in front of its list.           *)
LEMMA AddLists ==
    ASSUME Structure, ~tangled, pc \in {"user", "inst"}, NEW s \in Src,
           s \notin registered \cup raced,
           next' = [next EXCEPT ![s] = head[TypeOf(s)]],
           head' = [head EXCEPT ![TypeOf(s)] = s],
           registered' = registered \cup {s}
    PROVE  /\ \A t \in Types : /\ Acyclic(next', head'[t])
                               /\ Reach(head[t])' = OfType(t)'
           /\ \A h : s \notin Reach(h) => /\ Reachable(next', h) = Reach(h)
                                          /\ Acyclic(next, h) => Acyclic(next', h)
  <1> USE DEF Structure
  <1> DEFINE u == TypeOf(s)
  <1>1. u \in Types /\ head \in [Types -> PtrTo(Src)]
    BY TypeOfFacts DEF HeapType, Types
  <1>2. \A t \in Types : Acyclic(next, head[t]) /\ Reach(head[t]) = OfType(t)
    BY DEF ListInv
  <1>3. \A t \in Types : s \notin Reach(head[t])
    BY <1>2 DEF OfType
  <1>4. /\ \A h : s \notin Reach(h) => /\ Reachable(next', h) = Reach(h)
                                       /\ Acyclic(next, h) => Acyclic(next', h)
        /\ Reachable(next', s) = {s} \cup Reach(head[u]) /\ Acyclic(next', s)
    BY <1>1, <1>2, <1>3, Store
  <1>5. ASSUME NEW t \in Types PROVE Acyclic(next', head'[t]) /\ Reach(head[t])' = OfType(t)'
    <2>1. CASE t = u
      <3>1. head'[t] = s /\ OfType(t)' = OfType(t) \cup {s}
        BY <1>1, <2>1 DEF OfType
      <3> QED BY <1>2, <1>4, <2>1, <3>1 DEF Reach
    <2>2. CASE t # u
      <3>1. head'[t] = head[t] /\ OfType(t)' = OfType(t)
        BY <1>1, <2>2 DEF OfType
      <3> QED BY <1>2, <1>3, <1>4, <3>1 DEF Reach
    <2> QED BY <2>1, <2>2
  <1> QED BY <1>4, <1>5
LEMMA ClientAddLists ==
    ASSUME Structure,
           \/ \E s \in Timer, k \in Kinds \ {"file"}, m \in Ms : SetTimer(s, k, m)
           \/ \E s \in Src : gwrl_set_fd(s) \/ gwrl_src_add(s)
    PROVE  ControlInv' /\ CellsInv' /\ QueueInv' /\ ListInv'
  <1> USE DEF Structure, localVars, timeVars, Call
  <1>1. /\ UNCHANGED <<qsrc, pc, cur, prev, queued, raced, tangled, now, gstart>>
        /\ pc = "user" /\ ~tangled
    BY DEF SetTimer, gwrl_set_fd, gwrl_src_add
  <1>2. PICK s \in Src :
          /\ s \notin registered \cup queued \cup raced
          /\ next' = [next EXCEPT ![s] = head[TypeOf(s)]]
          /\ head' = [head EXCEPT ![TypeOf(s)] = s]
          /\ registered' = registered \cup {s} /\ alloc' = alloc \cup {s}
    <2>1. CASE \E s \in Timer, k \in Kinds \ {"file"}, m \in Ms : SetTimer(s, k, m)
      <3>1. PICK s \in Timer, k \in Kinds \ {"file"}, m \in Ms : SetTimer(s, k, m)
        BY <2>1
      <3>2. /\ s \in Src /\ s \notin alloc /\ alloc' = alloc \cup {s}
            /\ SrcAdd([next EXCEPT ![s] = NULL], s)
        BY <3>1, Basics DEF SetTimer, TimeCreate
      <3>3. next' = [next EXCEPT ![s] = head[TypeOf(s)]]
        BY <3>2, Basics DEF SrcAdd, Linked
      <3> QED BY <3>2, <3>3 DEF SrcAdd, CellsInv
    <2>2. CASE \E s \in Src : gwrl_set_fd(s)
      <3>1. PICK s \in Src : gwrl_set_fd(s)
        BY <2>2
      <3>2. /\ s \notin alloc /\ alloc' = alloc \cup {s}
            /\ SrcAdd([next EXCEPT ![s] = NULL], s)
        BY <3>1 DEF gwrl_set_fd
      <3>3. next' = [next EXCEPT ![s] = head[TypeOf(s)]]
        BY <3>2, Basics DEF SrcAdd, Linked
      <3> QED BY <3>2, <3>3 DEF SrcAdd, CellsInv
    <2>3. CASE \E s \in Src : gwrl_src_add(s)
      <3>1. PICK s \in Src : gwrl_src_add(s)
        BY <2>3
      <3>2. /\ s \in alloc \ (registered \cup queued \cup raced) /\ alloc' = alloc \cup {s}
            /\ SrcAdd(next, s)
        BY <3>1 DEF gwrl_src_add, Mine
      <3>3. next[s] = NULL
        BY <1>1, <3>2 DEF ListInv
      <3>4. next' = [next EXCEPT ![s] = head[TypeOf(s)]]
        <4>1. CASE head[TypeOf(s)] # NULL
          BY <3>2, <4>1 DEF SrcAdd, Linked
        <4>2. CASE head[TypeOf(s)] = NULL
          <5>1. next' = next
            BY <3>2, <4>2 DEF SrcAdd, Linked
          <5> QED BY <3>3, <4>2, <5>1, Basics DEF HeapType
        <4> QED BY <4>1, <4>2
      <3> QED BY <3>2, <3>4 DEF SrcAdd
    <2> QED BY <2>1, <2>2, <2>3
  <1>3. /\ \A t \in Types : /\ Acyclic(next', head'[t])
                            /\ Reach(head[t])' = OfType(t)'
        /\ \A h : s \notin Reach(h) => /\ Reachable(next', h) = Reach(h)
                                       /\ Acyclic(next, h) => Acyclic(next', h)
    BY <1>1, <1>2, AddLists
  <1>4. ControlInv'
    BY <1>1 DEF ControlInv
  <1>5. CellsInv'
    BY <1>1, <1>2 DEF CellsInv
  <1>6. QueueInv'
    BY <1>1, <1>2, <1>3 DEF QueueInv, Reach
  <1>7. ListInv'
    BY <1>1, <1>2, <1>3, Basics DEF ListInv, HeapType
  <1> QED BY <1>4, <1>5, <1>6, <1>7

(* install_queued_srcs: one source moves from the queue to its list.          *)
LEMMA InstallLists ==
    ASSUME Structure, InstallOne
    PROVE  ControlInv' /\ CellsInv' /\ QueueInv' /\ ListInv'
  <1> USE DEF Structure, timeVars
  <1> DEFINE s == cur
  <1>1. /\ pc = "inst" /\ pc' = IF next[s] = NULL THEN "user" ELSE "inst"
        /\ cur' = next[s] /\ queued' = queued \ {s} /\ registered' = registered \cup {s}
        /\ head' = [head EXCEPT ![TypeOf(s)] = s] /\ next' = Linked(next, head[TypeOf(s)], s)
        /\ tangled' = (tangled \/ (head[TypeOf(s)] = NULL /\ next[s] # NULL))
        /\ UNCHANGED <<alloc, qsrc, raced, now, gstart>>
    BY DEF InstallOne, SrcAdd
  <1>2. s \in Src /\ s \in queued /\ s \notin registered \cup raced
    BY <1>1, Basics DEF ControlInv, HeapType, QueueInv, CellsInv
  <1>3. /\ Reach(next[s]) = Reach(s) \ {s} /\ Acyclic(next, next[s]) /\ s \in Reach(s)
        /\ Acyclic(next, qsrc) /\ s \notin Reach(qsrc)
        /\ Reach(s) \cap Reach(qsrc) = {} /\ queued = Reach(s) \cup Reach(qsrc)
    BY <1>1, <1>2, Pop DEF QueueInv
  <1>4. \A h : s \notin Reach(h) => /\ Reachable(next', h) = Reach(h)
                                    /\ Acyclic(next, h) => Acyclic(next', h)
    <2>1. CASE head[TypeOf(s)] = NULL
      BY <1>1, <2>1, Zenon DEF Linked, Reach
    <2>2. CASE head[TypeOf(s)] # NULL
      <3>1. next' = [next EXCEPT ![s] = head[TypeOf(s)]]
        BY <1>1, <2>2 DEF Linked
      <3> QED BY <1>2, <3>1, Store
    <2> QED BY <2>1, <2>2
  <1>5. ControlInv'
    BY <1>1 DEF ControlInv, ControlType
  <1>6. CellsInv'
    BY <1>1, <1>2 DEF CellsInv
  <1>7. QueueInv'
    <2>1. /\ Reach(qsrc)' = Reach(qsrc) /\ Acyclic(next', qsrc')
          /\ Reach(cur)' = Reach(s) \ {s} /\ Acyclic(next', cur')
      BY <1>1, <1>3, <1>4 DEF Reach
    <2>2. queued' = Reach(cur)' \cup Reach(qsrc)'
      BY <1>1, <1>3, <2>1
    <2>3. pc' # "inst" => Reach(cur)' = {}
      BY <1>1, <1>3, <2>1, Basics
    <2> QED BY <1>1, <1>3, <2>1, <2>2, <2>3 DEF QueueInv
  <1>8. ASSUME ~tangled' PROVE ListInv'
    <2>1. ~tangled /\ (head[TypeOf(s)] = NULL => next[s] = NULL)
      BY <1>1, <1>8
    <2>2. next' = [next EXCEPT ![s] = head[TypeOf(s)]]
      <3>1. CASE head[TypeOf(s)] # NULL
        BY <1>1, <3>1 DEF Linked
      <3>2. CASE head[TypeOf(s)] = NULL
        <4>1. next' = next
          BY <1>1, <3>2 DEF Linked
        <4> QED BY <1>2, <2>1, <3>2, <4>1, Basics DEF HeapType
      <3> QED BY <3>1, <3>2
    <2>3. \A t \in Types : Acyclic(next', head'[t]) /\ Reach(head[t])' = OfType(t)'
      BY <1>1, <1>2, <2>1, <2>2, AddLists
    <2>4. \A c \in alloc' \ (registered' \cup queued' \cup raced') : next'[c] = NULL
      BY <1>1, <1>2, <2>1, <2>2, Basics DEF ListInv, HeapType
    <2> QED BY <1>1, <2>3, <2>4 DEF ListInv
  <1> QED BY <1>5, <1>6, <1>7, <1>8 DEF ListInv

(* gwrl_src_add_safely by another thread.                                     *)
LEMMA PushLists ==
    ASSUME Structure, NEW s \in Src, s \notin alloc, alloc' = alloc \cup {s}, PushSource(s)
    PROVE  ControlInv' /\ CellsInv' /\ QueueInv' /\ ListInv'
  <1> USE DEF Structure, localVars
  <1>1. /\ next' = [next EXCEPT ![s] = qsrc] /\ qsrc' = s /\ queued' = queued \cup {s}
        /\ UNCHANGED <<head, pc, cur, prev, registered, raced, tangled, now, gstart>>
    BY DEF PushSource
  <1>2. Reach(qsrc) \subseteq queued /\ s \notin queued \cup registered \cup raced
    BY DEF QueueInv, CellsInv
  <1>3. /\ \A h : s \notin Reach(h) => /\ Reachable(next', h) = Reach(h)
                                       /\ Acyclic(next, h) => Acyclic(next', h)
        /\ Reachable(next', s) = {s} \cup Reach(qsrc) /\ Acyclic(next', s)
    BY <1>1, <1>2, Store DEF QueueInv
  <1>4. ControlInv'
    BY <1>1 DEF ControlInv
  <1>5. CellsInv'
    BY <1>1, <1>2 DEF CellsInv
  <1>6. QueueInv'
    <2>1. Reach(qsrc)' = {s} \cup Reach(qsrc) /\ Acyclic(next', qsrc')
      BY <1>1, <1>3 DEF Reach
    <2>2. pc \in {"clear", "inst"} => /\ Reach(cur) \subseteq queued
                                      /\ Reach(cur)' = Reach(cur) /\ Acyclic(next', cur')
      BY <1>1, <1>2, <1>3 DEF QueueInv, Reach
    <2> QED BY <1>1, <1>2, <2>1, <2>2 DEF QueueInv
  <1>7. ASSUME ~tangled PROVE ListInv'
    <2>1. \A t \in Types : s \notin Reach(head[t])
      BY <1>2, <1>7 DEF ListInv, OfType
    <2>2. \A t \in Types : Acyclic(next', head'[t]) /\ Reach(head[t])' = OfType(t)'
      BY <1>1, <1>3, <1>7, <2>1 DEF ListInv, OfType, Reach
    <2>3. \A c \in alloc' \ (registered' \cup queued' \cup raced') : next'[c] = NULL
      BY <1>1, <1>7, Basics DEF ListInv, HeapType
    <2>4. pc \in {"read", "walk"} =>
              /\ cur' # NULL => cur' \in OfType("time")'
              /\ prev' # NULL => prev' \in OfType("time")' /\ next'[prev'] = cur'
      BY <1>1, <1>2, <1>7, Basics DEF ListInv, HeapType, OfType
    <2> QED BY <1>1, <2>2, <2>3, <2>4 DEF ListInv
  <1> QED BY <1>1, <1>4, <1>5, <1>6, <1>7 DEF ListInv
(* gwrl_src_del and gwrl_src_remove, with the predecessor given or searched.  *)
LEMMA UnlinkLists ==
    ASSUME Structure, ~tangled, NEW s \in alloc \ (queued \cup raced), NEW p \in PtrTo(Src),
           p # NULL => p \in OfType(TypeOf(s)) /\ next[p] = s,
           SrcUnlink(s, p)
    PROVE  /\ \A t \in Types : Acyclic(next', head'[t]) /\ Reach(head[t])' = OfType(t)'
           /\ \A g : Reach(g) \cap (registered \cup {s}) = {} =>
                 Reachable(next', g) = Reach(g) /\ (Acyclic(next, g) => Acyclic(next', g))
           /\ \A x \in Src \ registered : x # s => next'[x] = next[x]
           /\ next'[s] = NULL /\ registered' = registered \ {s}
  <1> USE DEF Structure
  <1> DEFINE u == TypeOf(s)
             h == head[u]
             R == Reach(h)
             before == IF p # NULL THEN {p}
                       ELSE IF s = h THEN {} ELSE {x \in R : next[x] = s}
  <1>0. /\ head' = IF p = NULL /\ s = h THEN [head EXCEPT ![u] = next[s]] ELSE head
        /\ next' = IF before = {} /\ s # h THEN next
                   ELSE [x \in Src |-> IF x = s THEN NULL
                                       ELSE IF x \in before THEN next[s] ELSE next[x]]
        /\ registered' = registered \ {s}
    BY DEF SrcUnlink
  <1>1. /\ s \in Src /\ u \in Types /\ head \in [Types -> PtrTo(Src)]
        /\ next \in [Src -> PtrTo(Src)] /\ DOMAIN next = Src /\ NULL \notin Src
    BY TypeOfFacts, Basics DEF HeapType, Types
  <1>2. /\ \A t \in Types : Acyclic(next, head[t]) /\ Reach(head[t]) = OfType(t)
        /\ \A c \in alloc \ (registered \cup queued \cup raced) : next[c] = NULL
    BY DEF ListInv
  <1>3. /\ Acyclic(next, h) /\ R = OfType(u) /\ ClosedUnder(next, R) /\ R \subseteq Src
        /\ h \in Src => h \in R
    BY <1>1, <1>2, WalkIsClosed DEF Reach
  <1>4. \A x \in R : next[x] = s => s \in R
    BY <1>1, <1>3 DEF ClosedUnder
  <1>5. /\ s \in registered <=> s \in R
        /\ \A t \in Types : t # u => R \cap Reach(head[t]) = {} /\ s \notin Reach(head[t])
        /\ R \subseteq registered
    BY <1>2, <1>3 DEF OfType
  <1>6. CASE s \notin registered
    <2>1. p = NULL /\ s # h /\ before = {}
      BY <1>1, <1>3, <1>4, <1>5, <1>6
    <2>2. next' = next /\ head' = head /\ registered' = registered
      BY <1>0, <1>6, <2>1
    <2>3. next[s] = NULL
      BY <1>2, <1>6
    <2>4. /\ \A g : Reachable(next', g) = Reach(g) /\ (Acyclic(next', g) <=> Acyclic(next, g))
          /\ \A t : OfType(t)' = OfType(t)
      BY <2>2, Zenon DEF Reach, OfType
    <2> QED BY <1>0, <1>2, <2>2, <2>3, <2>4 DEF Reach
  <1>7. ASSUME s \in registered,
               DOMAIN next' = Src /\ next'[s] = NULL,
               \A x \in Src \ R : next'[x] = next[x],
               \A t \in Types : t # u => head'[t] = head[t],
               Reachable(next', head'[u]) = R \ {s} /\ Acyclic(next', head'[u])
        PROVE  /\ \A t \in Types : Acyclic(next', head'[t]) /\ Reach(head[t])' = OfType(t)'
               /\ \A g : Reach(g) \cap (registered \cup {s}) = {} =>
                     Reachable(next', g) = Reach(g) /\ (Acyclic(next, g) => Acyclic(next', g))
               /\ \A x \in Src \ registered : x # s => next'[x] = next[x]
    <2>1. ASSUME NEW g, Reach(g) \cap R = {}
          PROVE  Reachable(next', g) = Reach(g) /\ (Acyclic(next, g) => Acyclic(next', g))
      <3>1. \A c \in Reachable(next, g) : next'[c] = next[c]
        BY <1>1, <1>7, <2>1, WalkIsClosed DEF Reach
      <3> QED BY <1>1, <1>7, <3>1, WalkIsLocal DEF Reach
    <2>2. ASSUME NEW t \in Types PROVE Acyclic(next', head'[t]) /\ Reach(head[t])' = OfType(t)'
      <3>1. CASE t = u
        <4>1. OfType(t)' = OfType(t) \ {s}
          BY <1>0 DEF OfType
        <4> QED BY <1>3, <1>7, <3>1, <4>1 DEF Reach
      <3>2. CASE t # u
        <4>1. OfType(t)' = OfType(t)
          BY <1>0, <3>2 DEF OfType
        <4> QED BY <1>2, <1>5, <1>7, <2>1, <3>2, <4>1 DEF Reach
      <3> QED BY <3>1, <3>2
    <2> QED BY <1>5, <1>7, <2>1, <2>2
  <1>8. CASE s \in registered /\ s = h
    <2>1. p = NULL
      <3>1. \A x \in R : next[x] \in Src => next[x] # h
        BY <1>1, <1>3, HeadHasNone DEF Reach
      <3> QED BY <1>1, <1>3, <1>8, <3>1
    <2>2. head' = [head EXCEPT ![u] = next[s]] /\ next' = [next EXCEPT ![s] = NULL]
      BY <1>0, <1>1, <1>8, <2>1
    <2>3. Reach(next[s]) = R \ {s} /\ Acyclic(next, next[s])
      BY <1>1, <1>3, <1>8, Pop
    <2>4. Reachable(next', next[s]) = R \ {s} /\ Acyclic(next', next[s])
      BY <1>1, <2>2, <2>3, Store
    <2>5. /\ DOMAIN next' = Src /\ next'[s] = NULL
          /\ \A x \in Src \ R : next'[x] = next[x]
          /\ \A t \in Types : t # u => head'[t] = head[t]
          /\ head'[u] = next[s]
      BY <1>1, <1>5, <1>8, <2>2
    <2> QED BY <1>0, <1>7, <1>8, <2>4, <2>5
  <1>9. CASE s \in registered /\ s # h
    <2>1. h \in Src
      BY <1>1, <1>5, <1>9, Basics DEF PtrTo
    <2>2. before = {x \in R : next[x] = s} /\ before # {}
      <3>1. \A x, y \in R : next[x] = s /\ next[y] = s => x = y
        BY <1>1, <1>3, OnePredecessor DEF Reach
      <3>2. \E x \in R : next[x] = s
        BY <1>5, <1>9, HasPredecessor DEF Reach
      <3> QED BY <1>3, <1>9, <3>1, <3>2
    <2>3. head' = head /\ next' = [x \in Src |-> IF x = s THEN NULL
                                                ELSE IF x \in before THEN next[s] ELSE next[x]]
      BY <1>0, <1>9, <2>2
    <2>4. /\ DOMAIN next' = Src /\ next'[s] = NULL
          /\ \A x \in Src \ R : next'[x] = next[x]
          /\ \A x \in R \ {s} : next'[x] = IF next[x] = s THEN next[s] ELSE next[x]
      BY <1>1, <1>3, <1>5, <1>9, <2>2, <2>3
    <2>5. Reachable(next', h) = R \ {s} /\ Acyclic(next', h)
      BY <1>1, <1>3, <1>5, <1>9, <2>1, <2>4, UnlinkCell DEF Reach
    <2> QED BY <1>0, <1>7, <1>9, <2>3, <2>4, <2>5
  <1> QED BY <1>6, <1>8, <1>9

LEMMA DeleteLists ==
    ASSUME Structure, \E s \in Src : gwrl_src_remove(s) \/ gwrl_src_del(s)
    PROVE  ControlInv' /\ CellsInv' /\ QueueInv' /\ ListInv'
  <1> USE DEF Structure, localVars, timeVars, Call
  <1>1. PICK s \in Src : gwrl_src_remove(s) \/ gwrl_src_del(s)
    OBVIOUS
  <1>2. /\ UNCHANGED <<qsrc, pc, cur, prev, queued, raced, tangled, now, gstart>>
        /\ pc = "user" /\ ~tangled /\ SrcUnlink(s, NULL)
        /\ s \in alloc \ (queued \cup raced) /\ alloc' \in {alloc, alloc \ {s}}
    BY <1>1 DEF gwrl_src_remove, gwrl_src_del, FreeSrc, Mine
  <1>3. /\ \A t \in Types : Acyclic(next', head'[t]) /\ Reach(head[t])' = OfType(t)'
        /\ \A g : Reach(g) \cap (registered \cup {s}) = {} =>
              Reachable(next', g) = Reach(g) /\ (Acyclic(next, g) => Acyclic(next', g))
        /\ \A x \in Src \ registered : x # s => next'[x] = next[x]
        /\ next'[s] = NULL /\ registered' = registered \ {s}
    BY <1>2, UnlinkLists DEF PtrTo
  <1>4. ControlInv'
    BY <1>2 DEF ControlInv
  <1>5. CellsInv'
    BY <1>2, <1>3 DEF CellsInv
  <1>6. QueueInv'
    BY <1>2, <1>3 DEF QueueInv, CellsInv, Reach
  <1>7. ListInv'
    BY <1>2, <1>3 DEF ListInv, HeapType
  <1> QED BY <1>4, <1>5, <1>6, <1>7

(* An expired timeout is unlinked under the walk of gwrl_time_gather.         *)
LEMMA OnceLists ==
    ASSUME Structure, GatherOnce
    PROVE  /\ ControlInv' /\ CellsInv' /\ QueueInv' /\ ListInv'
           /\ cur \in OfType("time") /\ Reach(cur)' = Reach(cur) \ {cur}
           /\ registered' = registered \ {cur}
  <1> USE DEF Structure
  <1>1. /\ UNCHANGED <<qsrc, queued, raced, tangled, now, gstart>>
        /\ pc = "walk" /\ pc' = "read" /\ SrcUnlink(cur, prev) /\ alloc' = alloc \ {cur}
        /\ cur' = next[cur] /\ prev' = NULL
    BY DEF GatherOnce, Fire, FreeSrc
  <1>2. ~tangled /\ cur # NULL /\ cur \in Src
    BY <1>1, Basics DEF ControlInv, HeapType
  <1>3. cur \in OfType("time") /\ (prev # NULL => prev \in OfType("time") /\ next[prev] = cur)
    BY <1>1, <1>2 DEF ListInv
  <1>4. TypeOf(cur) = "time" /\ cur \in alloc \ (queued \cup raced) /\ prev \in PtrTo(Src)
    BY <1>3 DEF OfType, CellsInv, HeapType
  <1>5. /\ \A t \in Types : Acyclic(next', head'[t]) /\ Reach(head[t])' = OfType(t)'
        /\ \A g : Reach(g) \cap (registered \cup {cur}) = {} =>
              Reachable(next', g) = Reach(g) /\ (Acyclic(next, g) => Acyclic(next', g))
        /\ \A x \in Src \ registered : x # cur => next'[x] = next[x]
        /\ next'[cur] = NULL /\ registered' = registered \ {cur}
    BY <1>2, <1>3, <1>4, <1>1, UnlinkLists
  <1>6. cur' # NULL => cur' \in OfType("time")'
    <2>1. /\ Reach(head["time"]) = OfType("time") /\ Acyclic(next, head["time"])
          /\ ClosedUnder(next, Reach(head["time"]))
      BY <1>2, WalkIsClosed DEF ListInv, Types, Reach
    <2>2. next[cur] \in PtrTo(Src) /\ next[cur] # cur
      BY <1>2, <1>3, <2>1, WalkIsClosed, Basics DEF Acyclic, HeapType, Reach
    <2>3. next[cur] # NULL => next[cur] \in OfType("time") \ {cur}
      BY <1>2, <1>3, <2>1, <2>2, Basics DEF ClosedUnder
    <2> QED BY <1>1, <1>5, <2>3 DEF OfType
  <1>7. ControlInv'
    BY <1>1, <1>2 DEF ControlInv
  <1>8. CellsInv'
    BY <1>1, <1>4, <1>5 DEF CellsInv
  <1>9. QueueInv'
    BY <1>1, <1>3, <1>5 DEF QueueInv, CellsInv, Reach, OfType
  <1>10. ListInv'
    BY <1>1, <1>2, <1>5, <1>6 DEF ListInv, HeapType
  <1>11. Reach(cur)' = Reach(cur) \ {cur}
    <2>1. Acyclic(next, cur)
      <3>1. Acyclic(next, head["time"]) /\ cur \in Reachable(next, head["time"])
        BY <1>2, <1>3 DEF ListInv, Types, Reach
      <3>2. Reachable(next, cur) \subseteq Reachable(next, head["time"])
        BY <3>1, WalkFromInside
      <3> QED BY <3>1, <3>2 DEF Acyclic
    <2>2. Reach(next[cur]) = Reach(cur) \ {cur}
      BY <1>2, <2>1, Pop
    <2>3. \A c \in Reachable(next, next[cur]) : next'[c] = next[c]
      <3>0. prev # NULL => prev \notin Reach(cur)
        <4>1. Acyclic(next, head["time"]) /\ Reach(head["time"]) = OfType("time")
          BY <1>2 DEF ListInv, Types
        <4> QED BY <1>3, <4>1 DEF Acyclic, Reach
      <3>1. \A c \in Reach(cur) : next[c] # cur
        BY <1>2, <2>1, HeadHasNone, Basics DEF Reach
      <3>2. \A c \in Src : c \notin {cur, prev} /\ next[c] # cur => next'[c] = next[c]
        BY <1>1 DEF SrcUnlink
      <3> QED BY <1>2, <2>2, <3>0, <3>1, <3>2, Basics DEF Reach
    <2>4. DOMAIN next' = DOMAIN next
      BY <1>1, Basics DEF SrcUnlink
    <2> QED BY <1>1, <2>2, <2>3, <2>4, WalkIsLocal DEF Reach
  <1> QED BY <1>3, <1>5, <1>7, <1>8, <1>9, <1>10, <1>11
(* The client does not call gwrl_del_persistent_timeouts in this step.        *)
Step == [Next /\ ~gwrl_del_persistent_timeouts]_vars

LEMMA ListsNext ==
    ASSUME Structure, TimeType, Step
    PROVE  ControlInv' /\ CellsInv' /\ QueueInv' /\ ListInv'
  <1> USE DEF Structure, heapVars, rlVars, localVars, timeVars, vars
  <1>0. now \in Nat /\ gstart \in Nat
    <2>1. client.time \in Nat
      BY BoundAssumption DEF BoundAssumption, ControlType
    <2> QED BY <2>1 DEF ControlType, TimeType
  <1>1. CASE \/ CheckQueue \/ Dispatch \/ GatherStart \/ GatherRead \/ GatherWaiting
             \/ GatherInterval \/ GatherPersist \/ GatherEnd \/ PollTimeout \/ PollFile \/ Tick
             \/ (\E s \in Src : gwrl_src_enable(s) \/ gwrl_src_disable(s))
             \/ UNCHANGED vars
    <2>1. UNCHANGED <<next, alloc, head, qsrc, registered, queued, raced, tangled>>
      BY <1>1 DEF CheckQueue, Dispatch, GatherStart, GatherRead, GatherWaiting, GatherInterval,
           GatherPersist, GatherEnd, PollTimeout, PollFile, Tick, gwrl_src_enable,
           gwrl_src_disable, Fire, Return, Counted
    <2>2. gstart' \in {gstart, now, 0} /\ now' \in Nat /\ now' >= now
      BY <1>0, <1>1 DEF CheckQueue, Dispatch, GatherStart, GatherRead, GatherWaiting,
           GatherInterval, GatherPersist, GatherEnd, PollTimeout, PollFile, Tick,
           gwrl_src_enable, gwrl_src_disable, Return, Counted
    <2>3. pc = "walk" => cur # NULL
      BY DEF ControlInv
    <2>4. \/ pc' = pc /\ UNCHANGED <<cur, prev>>
          \/ pc = "check" /\ cur' = qsrc /\ pc' = IF qsrc # NULL THEN "clear" ELSE "user"
          \/ pc = "user" /\ pc' = "read" /\ cur' = head["time"] /\ prev' = NULL /\ ~tangled
          \/ pc \in {"read", "walk"} /\ pc' = "read" /\ cur # NULL /\ prev' = cur /\ cur' = next[cur]
          \/ pc = "read" /\ pc' = "walk" /\ cur # NULL /\ UNCHANGED <<cur, prev>>
          \/ pc = "read" /\ pc' = "poll" /\ cur = NULL /\ UNCHANGED cur
          \/ pc = "poll" /\ pc' = "check" /\ UNCHANGED <<cur, prev>>
      BY <1>1, <2>3 DEF CheckQueue, Dispatch, GatherStart, GatherRead, GatherWaiting,
           GatherInterval, GatherPersist, GatherEnd, PollTimeout, PollFile, Tick,
           gwrl_src_enable, gwrl_src_disable, Fire, Return
    <2> QED BY <1>0, <2>1, <2>2, <2>4, WalkLists
  <1>2. CASE OtherThread
    <2>1. PICK s \in Src : s \notin alloc /\ alloc' = alloc \cup {s} /\ PushSource(s)
      BY <1>2, Basics DEF OtherThread, AddTimerSafely, AddFileSafely, TimeCreate
    <2> QED BY <2>1, PushLists
  <1>3. CASE \/ \E s \in Timer, k \in Kinds \ {"file"}, m \in Ms : SetTimer(s, k, m)
             \/ \E s \in Src : gwrl_set_fd(s) \/ gwrl_src_add(s)
    BY <1>3, ClientAddLists
  <1>4. CASE \E s \in Src : gwrl_src_remove(s) \/ gwrl_src_del(s)
    BY <1>4, DeleteLists
  <1>5. CASE ClearQueue \/ InstallOne \/ GatherOnce
    BY <1>5, ClearLists, InstallLists, OnceLists
  <1> QED BY <1>1, <1>2, <1>3, <1>4, <1>5
          DEF Step, Next, Reactor, TimeGather, Client, Undefined

LEMMA SourceInit == Init => SourceInv /\ GatherInv /\ DueInv /\ SpinInv
  <1> SUFFICES ASSUME Init PROVE SourceInv /\ GatherInv /\ DueInv /\ SpinInv
    OBVIOUS
  <1> USE DEF Init
  <1>0. Wake \in Src /\ NULL \notin Src /\ TypeOf(Wake) = "file" /\ Timer \subseteq Src
    BY CellAssumption DEF CellAssumption, Src, TypeOf
  <1>1. HeapType
    BY <1>0 DEF HeapType, PtrTo, Kinds
  <1>2. TimeType
    BY DEF TimeType, MaybeTime, Unset
  <1>3. ControlType
    <2>1. client.time \in Nat /\ client.ops \in Nat
      BY BoundAssumption DEF BoundAssumption
    <2>2. now \in 0..client.time /\ ops \in 0..client.ops
      BY <2>1
    <2>3. pending \in Seq(Src)
      OBVIOUS
    <2> QED BY <1>0, <2>2, <2>3 DEF ControlType, PCs
  <1>4. DataInv /\ ControlInv /\ CellsInv
    BY <1>0 DEF DataInv, ControlInv, CellsInv
  <1>5. Reach(NULL) = {} /\ Acyclic(next, NULL)
    BY <1>1, Basics
  <1>6. QueueInv
    BY <1>5 DEF QueueInv
  <1>7. Reach(Wake) = {Wake} /\ Acyclic(next, Wake)
    <2>1. Wake \in DOMAIN next /\ next[Wake] = NULL
      BY <1>0
    <2>2. Reach(Wake) = {Wake}
      BY <1>5, <2>1, WalkFromCell DEF Reach
    <2> QED BY <1>5, <2>1, <2>2 DEF Acyclic, Reach
  <1>8. ListInv
    <2>1. ASSUME NEW t \in Types PROVE Acyclic(next, head[t]) /\ Reach(head[t]) = OfType(t)
      <3>1. CASE t = "time"
        BY <1>0, <1>5, <3>1 DEF OfType
      <3>2. CASE t = "file"
        BY <1>0, <1>7, <3>2 DEF OfType
      <3> QED BY <3>1, <3>2 DEF Types
    <2> QED BY <1>0, <2>1 DEF ListInv
  <1>9. GatherInv /\ DueInv /\ SpinInv
    BY <1>0, CellAssumption DEF GatherInv, DueInv, SpinInv, CellAssumption
  <1> QED BY <1>1, <1>2, <1>3, <1>4, <1>6, <1>8, <1>9 DEF SourceInv, TypeOK
-----------------------------------------------------------------------------
(* The types.                                                                 *)

LEMMA NowIsNat ==
    ASSUME ControlType
    PROVE  now \in Nat /\ client.time \in Nat /\ client.ops \in Nat
  <1>1. client.time \in Nat /\ client.ops \in Nat
    BY BoundAssumption DEF BoundAssumption, ControlType
  <1> QED BY <1>1 DEF ControlType

LEMMA DueFacts ==
    ASSUME TypeOK, DataInv, NEW s \in Src
    PROVE  /\ DueAt(s) \in TimeSpec /\ Normal(DueAt(s)) /\ DueAt(s) # Unset
           /\ when[s] # Unset => DueAt(s) = when[s]
           /\ when[s] = Unset => Value(DueAt(s)) = 1000 * Us(now) + 1000000 * ms[s]
  <1>1. now \in Nat /\ ms[s] \in Nat /\ MaybeTime(when[s])
    BY NowIsNat DEF TypeOK, HeapType, TimeType
  <1>2. CASE when[s] # Unset
    BY <1>1, <1>2 DEF DueAt, MaybeTime
  <1>3. CASE when[s] = Unset
    <2>1. DueAt(s) = gwtm_add_ms_to_timespec(ms[s], Clock(now))
      BY <1>3 DEF DueAt, DataInv
    <2>2. /\ Clock(now) \in TimeSpec /\ Normal(Clock(now)) /\ Value(Clock(now)) = 1000 * Us(now)
      BY <1>1, ClockFacts
    <2>3. /\ DueAt(s) \in TimeSpec /\ Normal(DueAt(s))
          /\ Value(DueAt(s)) = 1000 * Us(now) + 1000000 * ms[s]
      BY <1>1, <2>1, <2>2, AddIsExact
    <2> QED BY <1>3, <2>3, NormalIsSet
  <1> QED BY <1>2, <1>3

LEMMA LeftFacts ==
    ASSUME TypeOK, DataInv, NEW s \in Src, current # Unset
    PROVE  /\ Left(s) \in TimeSpec /\ Normal(Left(s)) /\ Left(s) # Unset
           /\ Value(Left(s)) = Value(DueAt(s)) - Value(current)
           /\ gwtm_timespec_is_expired(Left(s)) <=> Value(Left(s)) <= 0
           /\ Value(DueAt(s)) \in Int /\ Value(current) \in Int
  <1>1. current \in TimeSpec /\ Normal(current)
    BY DEF TypeOK, TimeType, MaybeTime
  <1>2. DueAt(s) \in TimeSpec /\ Normal(DueAt(s)) /\ DueAt(s).nsec < 1000000000
    BY DueFacts, NormalFields
  <1>3. /\ Left(s) \in TimeSpec /\ Normal(Left(s))
        /\ Value(Left(s)) = Value(DueAt(s)) - Value(current)
    BY <1>1, <1>2, SubIsExact DEF Left
  <1>4. \A ts \in TimeSpec : Value(ts) \in Int
    BY Fields DEF Value
  <1> QED BY <1>1, <1>2, <1>3, <1>4, ExpiredIffPast, NormalIsSet

(* The nearest expiry is kept.                                                *)
LEMMA ShorterFacts ==
    ASSUME MaybeTime(timeout), NEW d \in TimeSpec, Normal(d)
    PROVE  /\ Shorter(d) \in TimeSpec /\ Normal(Shorter(d)) /\ Shorter(d) # Unset
           /\ Value(Shorter(d)) <= Value(d)
           /\ timeout # Unset => Value(Shorter(d)) <= Value(timeout)
           /\ Value(d) >= 0 /\ (timeout = Unset \/ Value(timeout) >= 0) => Value(Shorter(d)) >= 0
           /\ Value(Shorter(d)) \in Int /\ Value(d) \in Int
           /\ timeout # Unset => Value(timeout) \in Int
  <1>0. \A ts \in TimeSpec : Value(ts) \in Int
    BY Fields DEF Value
  <1>1. CASE timeout = Unset
    BY <1>0, <1>1, NormalIsSet DEF Shorter
  <1>2. CASE timeout # Unset
    <2>1. timeout \in TimeSpec /\ Normal(timeout)
      BY <1>2 DEF MaybeTime
    <2>2. Shorter(d) = IF Smaller(d, timeout) THEN d ELSE timeout
      BY <1>2 DEF Shorter, gwtm_timespec_copy_if_smaller
    <2>3. Smaller(d, timeout) <=> Value(d) < Value(timeout)
      BY <2>1, SmallerIffLess
    <2>4. Value(d) \in Int /\ Value(timeout) \in Int
      BY <1>0, <2>1
    <2>5. CASE Smaller(d, timeout)
      BY <2>1, <2>2, <2>3, <2>4, <2>5, NormalIsSet
    <2>6. CASE ~Smaller(d, timeout)
      BY <1>2, <2>1, <2>2, <2>3, <2>4, <2>6
    <2> QED BY <2>5, <2>6
  <1> QED BY <1>1, <1>2

LEMMA HeapTypeNext ==
    ASSUME TypeOK, ControlInv, Step
    PROVE  HeapType'
  <1> USE DEF heapVars, rlVars, localVars, timeVars, vars, PtrTo
  <1>0. HeapType /\ now \in Nat
    BY NowIsNat DEF TypeOK
  <1>1. NULL \notin Src /\ Timer \subseteq Src /\ File \subseteq Src /\ DOMAIN next = Src
    BY <1>0, Basics
  <1>2. \A s : TypeOf(s) \in {"time", "file"}
    BY DEF TypeOf
  <1>3. ASSUME UNCHANGED <<next, alloc, kind, ms, head, qsrc>>,
               enabled' \in {enabled} \cup {enabled \cup {s} : s \in Src} \cup {enabled \ {s} : s \in Src},
               \/ UNCHANGED <<cur, prev>>
               \/ cur' \in {qsrc, head["time"]} /\ prev' \in {prev, NULL}
               \/ cur \in Src /\ cur' = next[cur] /\ prev' = cur
               \/ UNCHANGED cur /\ prev' = NULL
        PROVE  HeapType'
    BY <1>0, <1>3 DEF HeapType
  <1>4. CASE \/ CheckQueue \/ ClearQueue \/ Dispatch \/ GatherStart \/ GatherRead \/ GatherWaiting
             \/ GatherInterval \/ GatherPersist \/ GatherEnd \/ PollTimeout \/ PollFile \/ Tick
             \/ (\E s \in Src : gwrl_src_enable(s) \/ gwrl_src_disable(s))
             \/ UNCHANGED vars
    <2>1. pc = "walk" => cur # NULL
      BY DEF ControlInv
    <2>2. cur # NULL => cur \in Src
      BY <1>0 DEF HeapType
    <2>3. CASE ClearQueue
      BY <1>0, <2>3 DEF ClearQueue, HeapType
    <2>4. CASE ~ClearQueue
      <3>1. UNCHANGED <<next, alloc, kind, ms, head, qsrc>>
        BY <1>4, <2>4 DEF CheckQueue, Dispatch, GatherStart, GatherRead, GatherWaiting,
           GatherInterval, GatherPersist, GatherEnd, PollTimeout, PollFile, Tick,
           gwrl_src_enable, gwrl_src_disable
      <3>2. enabled' \in {enabled} \cup {enabled \cup {s} : s \in Src} \cup {enabled \ {s} : s \in Src}
        BY <1>4, <2>1, <2>2, <2>4 DEF CheckQueue, Dispatch, GatherStart, GatherRead, GatherWaiting,
           GatherInterval, GatherPersist, GatherEnd, PollTimeout, PollFile, Tick,
           gwrl_src_enable, gwrl_src_disable, Fire
      <3>3. \/ UNCHANGED <<cur, prev>>
            \/ cur' \in {qsrc, head["time"]} /\ prev' \in {prev, NULL}
            \/ cur \in Src /\ cur' = next[cur] /\ prev' = cur
            \/ UNCHANGED cur /\ prev' = NULL
        BY <1>4, <2>1, <2>2, <2>4 DEF CheckQueue, Dispatch, GatherStart, GatherRead, GatherWaiting,
           GatherInterval, GatherPersist, GatherEnd, PollTimeout, PollFile, Tick,
           gwrl_src_enable, gwrl_src_disable, Fire
      <3> QED BY <1>3, <3>1, <3>2, <3>3
    <2> QED BY <2>3, <2>4
  <1>5. ASSUME NEW s \in Src, NEW nx \in [Src -> PtrTo(Src)], SrcAdd(nx, s)
        PROVE  next' \in [Src -> PtrTo(Src)] /\ head' \in [{"time", "file"} -> PtrTo(Src)]
    <2>1. head \in [{"time", "file"} -> PtrTo(Src)] /\ TypeOf(s) \in {"time", "file"}
      BY <1>0, <1>2 DEF HeapType
    <2> QED BY <1>5, <2>1 DEF SrcAdd, Linked
  <1>6. ASSUME NEW s \in Timer, NEW k \in Kinds, NEW m \in Nat, TimeCreate(s, k, m)
        PROVE  /\ alloc' \in SUBSET Src /\ enabled' \in SUBSET Src
               /\ kind' \in [Src -> Kinds] /\ ms' \in [Src -> Nat]
    BY <1>0, <1>1, <1>6 DEF TimeCreate, HeapType
  <1>7. CASE \E s \in Timer, k \in Kinds \ {"file"}, m \in Ms : SetTimer(s, k, m)
    <2>1. PICK s \in Timer, k \in Kinds \ {"file"}, m \in Ms : SetTimer(s, k, m)
      BY <1>7
    <2>2. m \in Nat /\ Us(now) \div 1000 + m \in Nat
      <3>1. m \in Nat /\ Us(now) \in Nat
        BY <1>0, UsFacts, BoundAssumption DEF BoundAssumption
      <3> DEFINE u == Us(now)
      <3> HIDE DEF u
      <3>2. u \div 1000 + m \in Nat
        BY <3>1 DEF u
      <3> QED BY <3>1, <3>2 DEF u
    <2>3. /\ TimeCreate(s, k, IF k = "date" THEN Us(now) \div 1000 + m ELSE m)
          /\ SrcAdd([next EXCEPT ![s] = NULL], s) /\ UNCHANGED <<qsrc, cur, prev>>
      BY <2>1 DEF SetTimer
    <2>4. [next EXCEPT ![s] = NULL] \in [Src -> PtrTo(Src)] /\ s \in Src
      BY <1>0, <1>1 DEF HeapType
    <2>5. next' \in [Src -> PtrTo(Src)] /\ head' \in [{"time", "file"} -> PtrTo(Src)]
      BY <1>5, <2>3, <2>4
    <2>6. /\ alloc' \in SUBSET Src /\ enabled' \in SUBSET Src
          /\ kind' \in [Src -> Kinds] /\ ms' \in [Src -> Nat]
      BY <1>6, <2>2, <2>3
    <2> QED BY <1>0, <2>3, <2>5, <2>6 DEF HeapType
  <1>8. CASE \E s \in Src : gwrl_set_fd(s) \/ gwrl_src_add(s)
    <2>1. PICK s \in Src : gwrl_set_fd(s) \/ gwrl_src_add(s)
      BY <1>8
    <2>2. /\ SrcAdd([next EXCEPT ![s] = NULL], s) \/ SrcAdd(next, s)
          /\ UNCHANGED <<kind, ms, qsrc, cur, prev>>
          /\ alloc' \in {alloc, alloc \cup {s}} /\ enabled' \in {enabled, enabled \cup {s}}
      BY <2>1 DEF gwrl_set_fd, gwrl_src_add
    <2>3. [next EXCEPT ![s] = NULL] \in [Src -> PtrTo(Src)] /\ next \in [Src -> PtrTo(Src)]
      BY <1>0 DEF HeapType
    <2>4. next' \in [Src -> PtrTo(Src)] /\ head' \in [{"time", "file"} -> PtrTo(Src)]
      BY <1>5, <2>2, <2>3
    <2> QED BY <1>0, <2>2, <2>4 DEF HeapType
  <1>9. ASSUME NEW s \in Src, NEW p \in PtrTo(Src), SrcUnlink(s, p)
        PROVE  next' \in [Src -> PtrTo(Src)] /\ head' \in [{"time", "file"} -> PtrTo(Src)]
    <2>1. /\ head \in [{"time", "file"} -> PtrTo(Src)] /\ TypeOf(s) \in {"time", "file"}
          /\ next \in [Src -> PtrTo(Src)]
      BY <1>0, <1>2 DEF HeapType
    <2>2. head' \in [{"time", "file"} -> PtrTo(Src)]
      BY <1>9, <2>1 DEF SrcUnlink
    <2>3. next' \in [Src -> PtrTo(Src)]
      BY <1>9, <2>1 DEF SrcUnlink
    <2> QED BY <2>2, <2>3
  <1>10. ASSUME NEW S \in SUBSET Src, FreeSrc(S)
         PROVE  /\ alloc' \in SUBSET Src /\ enabled' \in SUBSET Src
                /\ kind' \in [Src -> Kinds] /\ ms' \in [Src -> Nat]
    BY <1>0, <1>10 DEF FreeSrc, Reset, HeapType, Kinds
  <1>11. CASE \E s \in Src : gwrl_src_remove(s) \/ gwrl_src_del(s)
    <2>1. PICK s \in Src : gwrl_src_remove(s) \/ gwrl_src_del(s)
      BY <1>11
    <2>2. SrcUnlink(s, NULL) /\ UNCHANGED <<qsrc, cur, prev>>
          /\ (FreeSrc({s}) \/ UNCHANGED <<alloc, kind, ms, enabled>>)
      BY <2>1 DEF gwrl_src_remove, gwrl_src_del
    <2> QED BY <1>0, <1>9, <1>10, <2>2 DEF HeapType
  <1>12. CASE GatherOnce
    <2>1. /\ SrcUnlink(cur, prev) /\ FreeSrc({cur}) /\ cur \in Src /\ prev \in PtrTo(Src)
          /\ cur' = next[cur] /\ prev' = NULL /\ UNCHANGED qsrc
      BY <1>0, <1>12 DEF GatherOnce, Fire, ControlInv, HeapType
    <2>2. cur' \in PtrTo(Src)
      BY <1>0, <2>1 DEF HeapType
    <2>3. next' \in [Src -> PtrTo(Src)] /\ head' \in [{"time", "file"} -> PtrTo(Src)]
      BY <1>9, <2>1
    <2>4. /\ alloc' \in SUBSET Src /\ enabled' \in SUBSET Src
          /\ kind' \in [Src -> Kinds] /\ ms' \in [Src -> Nat]
      BY <1>10, <2>1
    <2> QED BY <1>0, <2>1, <2>2, <2>3, <2>4 DEF HeapType
  <1>13. CASE InstallOne
    <2>1. SrcAdd(next, cur) /\ cur \in Src /\ cur' = next[cur]
          /\ UNCHANGED <<alloc, kind, ms, enabled, qsrc, prev>>
      BY <1>0, <1>13 DEF InstallOne, ControlInv, HeapType
    <2>2. next \in [Src -> PtrTo(Src)] /\ cur' \in PtrTo(Src)
      BY <1>0, <2>1 DEF HeapType
    <2>3. next' \in [Src -> PtrTo(Src)] /\ head' \in [{"time", "file"} -> PtrTo(Src)]
      BY <1>5, <2>1, <2>2
    <2> QED BY <1>0, <2>1, <2>2, <2>3 DEF HeapType
  <1>14. CASE OtherThread
    <2>1. PICK s \in Src : /\ PushSource(s)
                           /\ alloc' = alloc \cup {s} /\ enabled' = enabled \cup {s}
                           /\ kind' \in [Src -> Kinds] /\ ms' \in [Src -> Nat]
      <3>1. CASE \E s \in File : AddFileSafely(s)
        BY <1>0, <1>1, <3>1 DEF AddFileSafely, HeapType
      <3>2. CASE \E s \in Timer, k \in Kinds \ {"file"}, m \in Ms : AddTimerSafely(s, k, m)
        <4>1. PICK s \in Timer, k \in Kinds \ {"file"}, m \in Ms : AddTimerSafely(s, k, m)
          BY <3>2
        <4>2. m \in Nat
          BY BoundAssumption DEF BoundAssumption
        <4>3. PushSource(s) /\ TimeCreate(s, k, m)
          BY <4>1 DEF AddTimerSafely
        <4> QED BY <1>1, <1>6, <4>2, <4>3 DEF TimeCreate
      <3> QED BY <1>14, <3>1, <3>2 DEF OtherThread
    <2>2. next' = [next EXCEPT ![s] = qsrc] /\ qsrc' = s /\ UNCHANGED <<head, cur, prev>>
      BY <2>1 DEF PushSource
    <2> QED BY <1>0, <2>1, <2>2 DEF HeapType
  <1> QED BY <1>4, <1>7, <1>8, <1>11, <1>12, <1>13, <1>14
          DEF Step, Next, Reactor, TimeGather, Client, Undefined

(* Every time that is set stays normalised, and a date keeps its time.        *)
LEMMA TimeTypeNext ==
    ASSUME TypeOK, DataInv, ControlInv, GatherInv, Step
    PROVE  TimeType' /\ DataInv'
  <1> USE DEF heapVars, rlVars, localVars, timeVars, vars
  <1>0. TimeType /\ HeapType /\ now \in Nat /\ MaybeTime(timeout) /\ MaybeTime(Unset)
    BY SMT, NowIsNat DEF TypeOK, TimeType, MaybeTime
  <1>1. Timer \subseteq Src /\ File \subseteq Src /\ NULL \notin Src
    BY SMT, <1>0, Basics
  <1>2. /\ armedAt \in [Src -> Nat] /\ fires \in [Src -> Nat] /\ gstart \in Nat
        /\ wakeAt \in Nat \cup {Forever} /\ MaybeTime(current)
        /\ DOMAIN when = Src /\ \A c \in Src : MaybeTime(when[c])
    BY SMT, <1>0 DEF TimeType
  <1>3. \A s \in Src : DOMAIN when' = Src /\ MaybeTime(when'[s])
                       /\ (\A c \in Src : c # s => when'[c] = when[c])
                       => \A c \in Src : MaybeTime(when'[c])
    BY SMT, <1>2
  <1>4. CASE UNCHANGED <<kind, when, timeout, current, wakeAt, gstart, armedAt, fires>>
    BY SMT, <1>0, <1>4 DEF TimeType, DataInv
  <1>5. CASE GatherStart \/ GatherRead \/ GatherEnd \/ PollTimeout \/ PollFile
    <2>1. UNCHANGED <<kind, when, armedAt, fires>>
      BY SMT, <1>5 DEF GatherStart, GatherRead, GatherEnd, PollTimeout, PollFile
    <2>2. Normal(Zero) /\ Zero \in TimeSpec /\ Value(Zero) >= 0
      <3>1. Zero \in TimeSpec /\ Value(Zero) = 0 /\ Zero.nsec = 0
        BY SMT, Built DEF Zero
      <3> QED BY SMT, <3>1, NormalFields
    <2>3. MaybeTime(timeout') /\ gstart' \in Nat
      BY SMT, <1>0, <1>2, <1>5, <2>2 DEF GatherStart, GatherRead, GatherEnd, PollTimeout, PollFile,
           Return, MaybeTime, Zero
    <2>4. MaybeTime(current')
      BY SMT, <1>0, <1>2, <1>5, ClockFacts DEF GatherStart, GatherRead, GatherEnd, PollTimeout,
           PollFile, MaybeTime
    <2>5. wakeAt' \in Nat \cup {Forever}
      <3>1. CASE GatherEnd
        <4>1. timeout' = IF posted THEN Zero ELSE timeout
          BY SMT, <3>1 DEF GatherEnd, Zero
        <4>2. wakeAt' = IF timeout' = Unset THEN Forever ELSE Us(now) + Wait(timeout')
          BY SMT, <3>1 DEF GatherEnd
        <4>3. CASE timeout' = Unset
          BY SMT, <4>2, <4>3
        <4>4. CASE timeout' # Unset
          <5>1. timeout' \in TimeSpec /\ Normal(timeout')
            BY SMT, <2>3, <4>4 DEF MaybeTime
          <5>2. Value(timeout') >= 0
            BY SMT, <2>2, <3>1, <4>1, <4>4 DEF GatherInv, GatherEnd
          <5>3. PICK ts \in TimeSpec : ts = timeout' /\ Normal(ts) /\ Value(ts) >= 0
            BY SMT, <5>1, <5>2
          <5>4. Wait(ts) \in Nat /\ Us(now) \in Nat
            BY SMT, <1>0, <5>3, WaitFacts, UsFacts
          <5> QED BY SMT, <4>2, <4>4, <5>3, <5>4
        <4> QED BY SMT, <4>3, <4>4
      <3>2. CASE ~GatherEnd
        BY SMT, <1>2, <1>5, <3>2 DEF GatherStart, GatherRead, PollTimeout, PollFile, Return
      <3> QED BY SMT, <3>1, <3>2
    <2> QED BY SMT, <1>0, <2>1, <2>3, <2>4, <2>5 DEF TimeType, DataInv
  <1>6. CASE GatherWaiting \/ GatherInterval \/ GatherPersist
    <2>1. /\ pc = "walk" /\ UNCHANGED <<kind, current, wakeAt, gstart>>
      BY SMT, <1>6 DEF GatherWaiting, GatherInterval, GatherPersist, Fire
    <2>2. cur \in Src /\ current # Unset /\ ms[cur] \in Nat
      BY SMT, <1>0, <2>1 DEF ControlInv, GatherInv, HeapType, PtrTo
    <2>3. armedAt' \in [Src -> Nat] /\ fires' \in [Src -> Nat]
      BY SMT, <1>0, <1>2, <1>6, <2>2 DEF GatherWaiting, GatherInterval, GatherPersist, Counted
    <2>4. /\ DueAt(cur) \in TimeSpec /\ Normal(DueAt(cur))
          /\ Left(cur) \in TimeSpec /\ Normal(Left(cur))
          /\ current \in TimeSpec /\ Normal(current)
      BY SMT, <1>2, <2>2, DueFacts, LeftFacts DEF MaybeTime
    <2>5. CASE GatherWaiting
      <3>1. when' = [when EXCEPT ![cur] = DueAt(cur)] /\ timeout' = Shorter(Left(cur))
        BY SMT, <2>5 DEF GatherWaiting
      <3>4. /\ DOMAIN when' = Src /\ when'[cur] = DueAt(cur)
            /\ \A c \in Src : c # cur => when'[c] = when[c]
        BY SMT, <1>2, <2>2, <3>1
      <3>5. MaybeTime(when'[cur]) /\ when'[cur] # Unset
        BY SMT, <2>4, <3>4, NormalIsSet DEF MaybeTime
      <3>2. DOMAIN when' = Src /\ (\A c \in Src : MaybeTime(when'[c])) /\ when'[cur] # Unset
        BY SMT, <1>3, <2>2, <3>4, <3>5
      <3>3. MaybeTime(timeout')
        BY SMT, <1>0, <2>4, <3>1, ShorterFacts DEF MaybeTime
      <3> QED BY SMT, <1>2, <2>1, <2>3, <3>2, <3>3, <3>4 DEF TimeType, DataInv
    <2>6. CASE GatherInterval
      <3> DEFINE v == gwtm_add_ms_to_timespec(ms[cur], DueAt(cur))
      <3>1. v \in TimeSpec /\ Normal(v) /\ v.nsec < 1000000000
        BY SMT, <2>2, <2>4, AddIsExact
      <3>2. when' = [when EXCEPT ![cur] = v] /\ when'[cur] = v
        BY SMT, <1>2, <2>2, <2>6 DEF GatherInterval
      <3>3. timeout' = Shorter(gwtm_timespec_sub_into(v, current))
        BY SMT, <2>6, <3>2 DEF GatherInterval
      <3> HIDE DEF v
      <3>6. DOMAIN when' = Src /\ \A c \in Src : c # cur => when'[c] = when[c]
        BY SMT, <1>2, <3>2
      <3>7. MaybeTime(when'[cur]) /\ when'[cur] # Unset
        BY SMT, <3>1, <3>2, NormalIsSet DEF MaybeTime
      <3>4. DOMAIN when' = Src /\ (\A c \in Src : MaybeTime(when'[c])) /\ when'[cur] # Unset
        BY SMT, <1>3, <2>2, <3>6, <3>7
      <3>5. MaybeTime(timeout')
        <4>1. /\ gwtm_timespec_sub_into(v, current) \in TimeSpec
              /\ Normal(gwtm_timespec_sub_into(v, current))
          BY SMT, <2>4, <3>1, SubIsExact
        <4> QED BY SMT, <1>0, <3>3, <4>1, ShorterFacts DEF MaybeTime
      <3> QED BY SMT, <1>2, <2>1, <2>3, <3>4, <3>5, <3>6 DEF TimeType, DataInv
    <2>7. CASE GatherPersist
      <3>1. /\ when' = [when EXCEPT ![cur] = Unset] /\ timeout' = timeout
            /\ kind[cur] = "persist"
        BY SMT, <2>7 DEF GatherPersist
      <3>3. /\ DOMAIN when' = Src /\ when'[cur] = Unset
            /\ \A c \in Src : c # cur => when'[c] = when[c]
        BY SMT, <1>2, <2>2, <3>1
      <3>2. DOMAIN when' = Src /\ (\A c \in Src : MaybeTime(when'[c]))
        BY SMT, <1>0, <1>3, <2>2, <3>3
      <3> QED BY SMT, <1>0, <1>2, <2>1, <2>3, <3>1, <3>2, <3>3 DEF TimeType, DataInv
    <2> QED BY SMT, <1>6, <2>5, <2>6, <2>7
  <1>7. CASE GatherOnce \/ \E s \in Src : gwrl_src_del(s)
    <2>1. PICK s : FreeSrc({s}) /\ UNCHANGED <<timeout, current, wakeAt, gstart>>
      BY SMT, <1>7 DEF GatherOnce, gwrl_src_del
    <2>2. /\ when' = [c \in Src |-> IF c = s THEN Unset ELSE when[c]]
          /\ armedAt' = [c \in Src |-> IF c = s THEN 0 ELSE armedAt[c]]
          /\ fires' = [c \in Src |-> IF c = s THEN 0 ELSE fires[c]]
          /\ kind' = [c \in Src |-> IF c = s /\ c \in Timer THEN "timeout" ELSE kind[c]]
      BY SMT, <2>1 DEF FreeSrc, Reset
    <2>3. DOMAIN when' = Src /\ \A c \in Src : MaybeTime(when'[c])
      BY SMT, <1>0, <1>2, <2>2
    <2>4. armedAt' \in [Src -> Nat] /\ fires' \in [Src -> Nat]
      BY SMT, <1>2, <2>2
    <2>5. DataInv'
      BY SMT, <2>2 DEF DataInv
    <2> QED BY SMT, <1>0, <1>2, <2>1, <2>3, <2>4, <2>5 DEF TimeType
  <1>8. CASE \/ \E s \in Timer, k \in Kinds \ {"file"}, m \in Ms : SetTimer(s, k, m)
             \/ \E s \in Timer, k \in Kinds \ {"file"}, m \in Ms : AddTimerSafely(s, k, m)
    <2>0. \A m \in Ms : m \in Nat /\ Us(now) \div 1000 + m \in Nat
      <3> DEFINE u == Us(now)
      <3>1. u \in Nat /\ Ms \subseteq Nat
        BY SMT, <1>0, UsFacts, BoundAssumption DEF BoundAssumption
      <3> HIDE DEF u
      <3>2. \A m \in Ms : m \in Nat /\ u \div 1000 + m \in Nat
        BY SMT, <3>1
      <3> QED BY SMT, <3>2 DEF u
    <2>1. PICK s \in Timer, k \in Kinds, n \in Nat :
              TimeCreate(s, k, n) /\ UNCHANGED <<timeout, current, wakeAt, gstart>>
      <3>1. ASSUME NEW s \in Timer, NEW k \in Kinds \ {"file"}, NEW m \in Ms,
                   SetTimer(s, k, m) \/ AddTimerSafely(s, k, m)
            PROVE  \E n \in Nat :
                       TimeCreate(s, k, n) /\ UNCHANGED <<timeout, current, wakeAt, gstart>>
        <4>1. \A n : (n = IF k = "date" THEN Us(now) \div 1000 + m ELSE m) => n \in Nat
          BY SMT, <2>0
        <4>2. CASE SetTimer(s, k, m)
          BY SMT, <4>1, <4>2 DEF SetTimer
        <4>3. CASE AddTimerSafely(s, k, m)
          BY SMT, <2>0, <4>3 DEF AddTimerSafely, PushSource
        <4> QED BY SMT, <3>1, <4>2, <4>3
      <3> QED BY SMT, <1>8, <3>1
    <2>2. /\ kind' = [kind EXCEPT ![s] = k]
          /\ when' = [when EXCEPT ![s] = IF k = "date" THEN gwtm_ms_to_timespec(n) ELSE Unset]
          /\ fires' = [fires EXCEPT ![s] = 0] /\ armedAt' = [armedAt EXCEPT ![s] = 0]
          /\ s \in Src
      BY SMT, <1>1, <2>1 DEF TimeCreate
    <2> DEFINE v == IF k = "date" THEN gwtm_ms_to_timespec(n) ELSE Unset
    <2>3. MaybeTime(v) /\ (k = "date" => v # Unset)
      BY SMT, <1>0, DateFacts, NormalIsSet DEF MaybeTime
    <2> HIDE DEF v
    <2>7. /\ DOMAIN when' = Src /\ when'[s] = v
          /\ \A c \in Src : c # s => when'[c] = when[c]
      BY SMT, <1>2, <2>2 DEF v
    <2>4. DOMAIN when' = Src /\ \A c \in Src : MaybeTime(when'[c])
      BY SMT, <1>3, <2>2, <2>3, <2>7
    <2>5. armedAt' \in [Src -> Nat] /\ fires' \in [Src -> Nat]
      BY SMT, <1>2, <2>2
    <2>6. DataInv'
      <3>1. kind \in [Src -> Kinds]
        BY SMT, <1>0 DEF HeapType
      <3>2. kind'[s] = k /\ \A c \in Src : c # s => kind'[c] = kind[c]
        BY SMT, <2>2, <3>1
      <3> QED BY SMT, <2>3, <2>7, <3>2 DEF DataInv
    <2> QED BY SMT, <1>0, <1>2, <2>1, <2>4, <2>5, <2>6 DEF TimeType
  <1>9. CASE \E s \in Src : gwrl_src_enable(s)
    <2>1. PICK s \in Src : gwrl_src_enable(s)
      BY SMT, <1>9
    <2>2. UNCHANGED <<kind, timeout, current, wakeAt, gstart>>
      BY SMT, <2>1 DEF gwrl_src_enable
    <2>3. CASE s \in Timer
      <3> DEFINE v == gwtm_add_ms_to_timespec(ms[s], Clock(now))
      <3>1. /\ when' = IF kind[s] = "date" THEN when ELSE [when EXCEPT ![s] = v]
            /\ armedAt' = [armedAt EXCEPT ![s] = now] /\ fires' = [fires EXCEPT ![s] = 0]
        BY SMT, <2>1, <2>3 DEF gwrl_src_enable
      <3>2. MaybeTime(v)
        <4>1. Clock(now) \in TimeSpec /\ Normal(Clock(now)) /\ ms[s] \in Nat
          BY SMT, <1>0, ClockFacts DEF HeapType
        <4> QED BY SMT, <4>1, AddIsExact DEF MaybeTime
      <3> HIDE DEF v
      <3>3. armedAt' \in [Src -> Nat] /\ fires' \in [Src -> Nat]
        BY SMT, <1>0, <1>2, <3>1
      <3>4. DOMAIN when' = Src /\ \A c \in Src : MaybeTime(when'[c])
        BY SMT, <1>2, <1>3, <3>1, <3>2
      <3>5. DataInv'
        BY SMT, <1>2, <2>2, <3>1 DEF DataInv
      <3> QED BY SMT, <1>0, <1>2, <2>2, <3>3, <3>4, <3>5 DEF TimeType
    <2>4. CASE s \notin Timer
      <3>1. UNCHANGED <<when, armedAt, fires>>
        BY SMT, <2>1, <2>4 DEF gwrl_src_enable
      <3> QED BY SMT, <1>4, <2>2, <3>1
    <2> QED BY SMT, <2>3, <2>4
  <1>10. \/ UNCHANGED <<kind, when, timeout, current, wakeAt, gstart, armedAt, fires>>
         \/ GatherStart \/ GatherRead \/ GatherEnd \/ PollTimeout \/ PollFile
         \/ GatherWaiting \/ GatherInterval \/ GatherPersist
         \/ GatherOnce \/ (\E s \in Src : gwrl_src_del(s))
         \/ (\E s \in Timer, k \in Kinds \ {"file"}, m \in Ms : SetTimer(s, k, m))
         \/ (\E s \in Timer, k \in Kinds \ {"file"}, m \in Ms : AddTimerSafely(s, k, m))
         \/ (\E s \in Src : gwrl_src_enable(s))
    <2>1. CASE CheckQueue \/ ClearQueue \/ InstallOne \/ Dispatch \/ Tick
      BY SMT, <2>1 DEF CheckQueue, ClearQueue, InstallOne, Dispatch, Tick
    <2>2. ASSUME NEW s \in Src, \/ gwrl_set_fd(s) \/ gwrl_src_add(s) \/ gwrl_src_remove(s)
                                \/ gwrl_src_disable(s) \/ AddFileSafely(s)
          PROVE  UNCHANGED <<kind, when, timeout, current, wakeAt, gstart, armedAt, fires>>
      BY SMT, <2>2 DEF gwrl_set_fd, gwrl_src_add, gwrl_src_remove, gwrl_src_disable,
           AddFileSafely, PushSource
    <2>3. CASE UNCHANGED vars
      BY SMT, <2>3
    <2> QED BY SMT, <1>1, <2>1, <2>2, <2>3
            DEF Step, Next, Reactor, TimeGather, Client, OtherThread, Undefined
  <1> QED BY SMT, <1>4, <1>5, <1>6, <1>7, <1>8, <1>9, <1>10
LEMMA ControlTypeNext ==
    ASSUME TypeOK, ControlInv, Step
    PROVE  ControlType'
  <1> USE DEF heapVars, rlVars, localVars, timeVars, vars
  <1>0. /\ ControlType /\ HeapType /\ now \in Nat /\ Timer \subseteq Src /\ File \subseteq Src
        /\ client \in Clients /\ client.time \in Nat /\ client.ops \in Nat
    BY NowIsNat, BoundAssumption, CellAssumption
       DEF TypeOK, ControlType, BoundAssumption, CellAssumption, Src
  <1>1. /\ pc \in PCs /\ posted \in BOOLEAN /\ tangled \in BOOLEAN
        /\ now \in 0..client.time /\ ops \in 0..client.ops /\ watched \in SUBSET Src
        /\ pending \in Seq(Src)
        /\ registered \in SUBSET Src /\ queued \in SUBSET Src /\ raced \in SUBSET Src
    BY <1>0 DEF ControlType
  <1>2. /\ cur \in PtrTo(Src) /\ (pc \in {"walk", "inst"} => cur \in Src)
    BY <1>0 DEF HeapType, ControlInv, PtrTo
  <1>3. CASE UNCHANGED vars
    BY <1>0, <1>3 DEF ControlType
  <1>4. CASE Tick
    BY <1>0, <1>1, <1>4 DEF Tick, ControlType
  <1>5. CASE CheckQueue \/ ClearQueue
    BY <1>0, <1>1, <1>5 DEF CheckQueue, ClearQueue, ControlType, PCs
  <1>6. CASE InstallOne
    BY <1>0, <1>1, <1>2, <1>6 DEF InstallOne, SrcAdd, ControlType, PCs
  <1>7. CASE Dispatch
    <2>1. /\ pending # <<>> /\ pending' = Tail(pending)
          /\ UNCHANGED <<watched, localVars, now, client, ops, registered, queued, raced, tangled>>
      BY <1>7 DEF Dispatch
    <2>2. pending' \in Seq(Src)
      BY <1>1, <2>1
    <2> QED BY <1>0, <1>1, <2>1, <2>2 DEF ControlType
  <1>8. CASE GatherStart \/ GatherRead \/ GatherWaiting \/ GatherEnd \/ PollTimeout
    BY <1>0, <1>1, <1>8 DEF GatherStart, GatherRead, GatherWaiting, GatherEnd, PollTimeout,
       Return, ControlType, PCs
  <1>9. CASE PollFile
    <2>1. PICK s \in watched : pending' = <<s>> \o pending
      BY <1>9 DEF PollFile
    <2>2. pending' \in Seq(Src)
      BY <1>1, <2>1
    <2> QED BY <1>0, <1>1, <1>9, <2>2 DEF PollFile, Return, ControlType, PCs
  <1>10. CASE GatherInterval \/ GatherPersist \/ GatherOnce
    <2>1. Fire
      BY <1>10 DEF GatherInterval, GatherPersist, GatherOnce
    <2>2. pc' = "read" /\ posted' = TRUE /\ pending' = <<cur>> \o pending /\ cur \in Src
      BY <1>2, <2>1 DEF Fire
    <2>3. pending' \in Seq(Src)
      BY <1>1, <2>2
    <2>4. UNCHANGED <<now, client, ops, queued, raced, tangled>>
      BY <1>10 DEF GatherInterval, GatherPersist, GatherOnce
    <2>5. watched' \in SUBSET Src /\ registered' \in SUBSET Src
      <3>1. CASE GatherInterval \/ GatherPersist
        BY <1>1, <3>1 DEF GatherInterval, GatherPersist
      <3>2. CASE GatherOnce
        BY <1>1, <3>2 DEF GatherOnce, SrcUnlink
      <3> QED BY <1>10, <3>1, <3>2
    <2> QED BY <1>0, <1>1, <2>2, <2>3, <2>4, <2>5 DEF ControlType, PCs
  <1>11. ASSUME NEW s \in Src, NEW k, NEW m, SetTimer(s, k, m) PROVE ControlType'
    BY <1>0, <1>1, <1>11 DEF SetTimer, Call, SrcAdd, ControlType
  <1>12. ASSUME NEW s \in Src, gwrl_set_fd(s) \/ gwrl_src_add(s) PROVE ControlType'
    BY <1>0, <1>1, <1>12 DEF gwrl_set_fd, gwrl_src_add, Call, SrcAdd, ControlType
  <1>13. ASSUME NEW s \in Src, gwrl_src_remove(s) \/ gwrl_src_del(s) PROVE ControlType'
    <2>1. /\ ops < client.ops /\ ops' = ops + 1
          /\ watched' = watched \ {s} /\ registered' = registered \ {s}
          /\ UNCHANGED <<pending, localVars, now, client, queued, raced, tangled>>
      BY <1>13 DEF gwrl_src_remove, gwrl_src_del, Call, SrcUnlink
    <2> QED BY <1>0, <1>1, <2>1 DEF ControlType
  <1>14. ASSUME NEW s \in Src, gwrl_src_enable(s) \/ gwrl_src_disable(s) PROVE ControlType'
    BY <1>0, <1>1, <1>14 DEF gwrl_src_enable, gwrl_src_disable, Call, ControlType
  <1>15. ASSUME NEW s \in Src, PushSource(s) PROVE ControlType'
    BY <1>0, <1>1, <1>15 DEF PushSource, ControlType
  <1> QED BY <1>0, <1>3, <1>4, <1>5, <1>6, <1>7, <1>8, <1>9, <1>10, <1>11, <1>12, <1>13,
             <1>14, <1>15
          DEF Step, Next, Reactor, TimeGather, Client, OtherThread, Undefined,
              AddTimerSafely, AddFileSafely
-----------------------------------------------------------------------------
(* gwrl_time_gather.                                                          *)

(* The walk takes the next source of the list.                                *)
LEMMA WalkOn ==
    ASSUME Structure, pc \in {"read", "walk"}, cur # NULL
    PROVE  /\ ~tangled /\ cur \in OfType("time") /\ cur \in Src
           /\ Reach(next[cur]) = Reach(cur) \ {cur} /\ Reach(cur) \subseteq OfType("time")
  <1> USE DEF Structure
  <1>1. ~tangled /\ cur \in Src
    BY Basics DEF ControlInv, HeapType
  <1>2. cur \in OfType("time") /\ Acyclic(next, head["time"]) /\ Reach(head["time"]) = OfType("time")
    BY <1>1 DEF ListInv, Types
  <1>3. Reachable(next, cur) \subseteq Reachable(next, head["time"])
    BY <1>2, WalkFromInside DEF Reach
  <1>4. Acyclic(next, cur)
    BY <1>2, <1>3 DEF Acyclic
  <1> QED BY <1>1, <1>2, <1>3, <1>4, Pop DEF Reach

LEMMA ValueIsInt ==
    /\ \A ts \in TimeSpec : Value(ts) \in Int
    /\ \A ts : MaybeTime(ts) /\ ts # Unset => ts \in TimeSpec /\ Normal(ts) /\ Value(ts) \in Int
  BY SMT, Fields DEF Value, MaybeTime

(* When the walk passes cur, the sources passed before stay accounted for.    *)
LEMMA PassOne ==
    ASSUME GatherInv, TypeOK, pc \in {"read", "walk"}, gstart' = gstart, NEW d, d = cur,
           Reach(cur)' = Reach(cur) \ {cur}, Armed' \ {d} \subseteq Armed,
           \A c \in Src : c # d => when'[c] = when[c],
           posted => posted',
           timeout # Unset => /\ timeout' # Unset /\ Value(timeout') \in Int
                              /\ posted' \/ Value(timeout') <= Value(timeout),
           d \in Armed' => Accounted(d)'
    PROVE  \A s \in (Armed \ Reach(cur))' : Accounted(s)'
  <1>1. SUFFICES ASSUME NEW s \in (Armed \ Reach(cur))', s # d PROVE Accounted(s)'
    OBVIOUS
  <1>2. s \in Armed /\ s \notin Reach(cur) /\ s \in Src
    BY <1>1 DEF Armed, Src
  <1>3. Accounted(s) /\ when'[s] = when[s]
    BY <1>1, <1>2 DEF GatherInv
  <1> DEFINE g == 1000 * Us(gstart)
  <1>4. g \in Int /\ Us(gstart)' = Us(gstart)
    <2>1. gstart \in Nat
      BY DEF TypeOK, TimeType
    <2>2. Us(gstart) \in Nat
      BY <2>1, UsFacts
    <2> QED BY <2>2 DEF Us
  <1>5. Value(when[s]) \in Int /\ Value(timeout) \in Int
    BY <1>2, <1>3, ValueIsInt DEF TypeOK, TimeType, Accounted
  <1>6. /\ when[s] # Unset /\ timeout # Unset /\ (posted \/ Value(timeout) + g <= Value(when[s]))
    BY <1>3 DEF Accounted
  <1> HIDE DEF g
  <1>7. posted' \/ Value(timeout') + g <= Value(when[s])
    BY SMT, <1>4, <1>5, <1>6
  <1> QED BY <1>3, <1>4, <1>6, <1>7 DEF Accounted, g
(* The steps as gwrl_time_gather sees them.                                   *)
LEMMA GatherSteps ==
    ASSUME HeapType, TimeType, Step
    PROVE  \/ /\ pc' \notin {"read", "walk", "poll"}
              /\ posted' => posted /\ pc \notin {"read", "walk", "poll"}
           \/ UNCHANGED vars \/ Tick \/ GatherStart \/ GatherRead \/ GatherEnd
           \/ GatherWaiting \/ GatherInterval \/ GatherPersist \/ GatherOnce
           \/ \E s \in Src \ alloc : /\ PushSource(s) /\ enabled' = enabled \cup {s}
                                     /\ \A c \in Src : c # s => when'[c] = when[c]
  <1> USE DEF heapVars, rlVars, localVars, timeVars, vars
  <1>1. CASE CheckQueue \/ ClearQueue \/ InstallOne \/ Dispatch \/ PollTimeout \/ PollFile
    BY SMT, <1>1 DEF CheckQueue, ClearQueue, InstallOne, Dispatch, PollTimeout, PollFile, Return
  <1>2. ASSUME Client, ~gwrl_del_persistent_timeouts 
        PROVE  pc = "user" /\ pc' = "user" /\ posted' = posted
    <2>1. ASSUME NEW s \in Src, NEW k, NEW m, SetTimer(s, k, m)
          PROVE  pc = "user" /\ pc' = "user" /\ posted' = posted
      BY SMT, <2>1 DEF SetTimer, Call
    <2>2. ASSUME NEW s \in Src,
                 \/ gwrl_set_fd(s) \/ gwrl_src_add(s) \/ gwrl_src_remove(s)
                 \/ gwrl_src_del(s) \/ gwrl_src_enable(s) \/ gwrl_src_disable(s)
          PROVE  pc = "user" /\ pc' = "user" /\ posted' = posted
      BY SMT, <2>2 DEF gwrl_set_fd, gwrl_src_add, gwrl_src_remove, gwrl_src_del, gwrl_src_enable,
           gwrl_src_disable, Call
    <2> QED BY SMT, <1>2, <2>1, <2>2, Basics DEF Client
  <1>3. ASSUME OtherThread
        PROVE  \E s \in Src \ alloc : /\ PushSource(s) /\ enabled' = enabled \cup {s}
                                      /\ \A c \in Src : c # s => when'[c] = when[c]
    <2>1. ASSUME NEW s \in Timer, NEW k, NEW m, AddTimerSafely(s, k, m)
          PROVE  /\ s \in Src \ alloc /\ PushSource(s) /\ enabled' = enabled \cup {s}
                 /\ \A c \in Src : c # s => when'[c] = when[c]
      BY SMT, <2>1, Basics DEF AddTimerSafely, TimeCreate, TimeType
    <2>2. ASSUME NEW s \in File, AddFileSafely(s)
          PROVE  /\ s \in Src \ alloc /\ PushSource(s) /\ enabled' = enabled \cup {s}
                 /\ \A c \in Src : c # s => when'[c] = when[c]
      BY SMT, <2>2, Basics DEF AddFileSafely
    <2> QED BY SMT, <1>3, <2>1, <2>2 DEF OtherThread
  <1> QED BY SMT, <1>1, <1>2, <1>3 DEF Step, Next, Reactor, TimeGather, Undefined

(* What gwrl_time_gather knows of the sources it has passed holds after every *)
(* step: of its own, of the clock and of the threads that queue sources.      *)
LEMMA GatherNext ==
    ASSUME SourceInv, GatherInv, Step
    PROVE  GatherInv'
  <1> USE DEF heapVars, rlVars, localVars, timeVars, vars
  <1>0. /\ TypeOK /\ Structure /\ HeapType /\ TimeType /\ DataInv /\ ControlInv /\ CellsInv
        /\ now \in Nat /\ gstart \in Nat /\ gstart <= now
    BY NowIsNat DEF SourceInv, Structure, TypeOK, TimeType, ControlInv
  <1>1. /\ Us(gstart) \in Nat /\ Us(now) \in Nat /\ Us(gstart) <= Us(now)
        /\ Us(now + 1) \in Nat /\ Us(now) <= Us(now + 1)
    BY SMT, <1>0, UsFacts
  <1>2. CASE pc' \notin {"read", "walk", "poll"}
    BY SMT, <1>2 DEF GatherInv
  <1>3. CASE UNCHANGED vars
    BY SMT, <1>3 DEF GatherInv, Armed, Accounted, Reach, Us, Reachable
  <1>4. CASE Tick
    <2>1. /\ now' = now + 1 /\ UNCHANGED <<heapVars, rlVars, localVars, registered, gstart>>
      BY SMT, <1>4 DEF Tick
    <2>2. /\ Us(now)' = Us(now + 1) /\ Us(gstart)' = Us(gstart) /\ Armed' = Armed
          /\ Reach(cur)' = Reach(cur) /\ \A s : Accounted(s)' <=> Accounted(s)
      BY SMT, <2>1 DEF Us, Armed, Reach, Accounted
    <2>3. pc = "walk" => /\ Value(current) \in Int /\ 1000 * Us(gstart) <= Value(current)
                         /\ Value(current) <= 1000 * Us(now)
      BY SMT, <1>0, ValueIsInt DEF GatherInv, TimeType
    <2>4. pc = "walk" => Value(current) <= 1000 * Us(now + 1)
      BY SMT, <1>1, <2>3
    <2> QED BY SMT, <2>1, <2>2, <2>3, <2>4 DEF GatherInv
  <1>5. ASSUME NEW s \in Src \ alloc, PushSource(s), enabled' = enabled \cup {s},
               \A c \in Src : c # s => when'[c] = when[c]
        PROVE  GatherInv'
    <2>1. /\ next' = [next EXCEPT ![s] = qsrc]
          /\ UNCHANGED <<timeout, pending, localVars, now, registered, gstart>>
      BY SMT, <1>5 DEF PushSource
    <2>2. s \notin registered
      BY SMT, <1>0, <1>5 DEF CellsInv
    <2>3. Armed' = Armed /\ Us(now)' = Us(now) /\ Us(gstart)' = Us(gstart)
      BY SMT, <1>5, <2>1, <2>2 DEF Armed, Us
    <2>4. \A c \in Armed : Accounted(c)' <=> Accounted(c)
      <3>1. \A c \in Armed : c \in Src /\ c # s
        BY SMT, <2>2 DEF Armed, Src
      <3> QED BY SMT, <1>5, <2>1, <2>3, <3>1 DEF Accounted
    <2>5. SUFFICES ASSUME pc \in {"read", "walk", "poll"} PROVE GatherInv'
      BY SMT, <2>1 DEF GatherInv
    <2>6. Reach(cur)' = Reach(cur)
      <3>1. s \notin Reach(cur)
        <4>1. CASE cur = NULL
          BY SMT, <1>0, <4>1, Basics
        <4>2. CASE cur # NULL
          <5>1. pc # "poll"
            BY SMT, <1>0, <4>2 DEF ControlInv
          <5> QED BY SMT, <1>0, <2>2, <2>5, <4>2, <5>1, WalkOn DEF OfType
        <4> QED BY <4>1, <4>2
      <3>2. Reachable(next', cur) = Reach(cur)
        BY <1>0, <1>5, <2>1, <3>1, Store
      <3> QED BY SMT, <2>1, <3>2 DEF Reach
    <2>7. pc = "walk" => cur \in enabled'
      BY SMT, <1>5 DEF GatherInv
    <2> QED BY SMT, <2>1, <2>3, <2>4, <2>6, <2>7 DEF GatherInv
  <1>6. CASE GatherStart
    <2>1. /\ pc = "user" /\ ~tangled /\ pending = <<>> /\ timeout' = Unset /\ posted' = FALSE
          /\ cur' = head["time"] /\ pc' = "read"
          /\ UNCHANGED <<next, enabled, registered, pending>>
      BY SMT, <1>6 DEF GatherStart
    <2>2. Reach(cur)' = Reach(head["time"]) /\ Reach(head["time"]) = OfType("time")
      BY SMT, <1>0, <2>1 DEF Reach, Structure, ListInv, Types
    <2>3. Armed' \subseteq OfType("time")
      BY SMT, <2>1, TypeOfFacts DEF Armed, OfType
    <2> QED BY SMT, <2>1, <2>2, <2>3 DEF GatherInv
  <1>7. CASE GatherRead
    <2>1. /\ pc = "read" /\ cur # NULL
          /\ UNCHANGED <<heapVars, rlVars, posted, now, registered, gstart>>
      BY SMT, <1>7 DEF GatherRead
    <2>2. /\ Us(now)' = Us(now) /\ Us(gstart)' = Us(gstart) /\ Armed' = Armed
          /\ \A s : Accounted(s)' <=> Accounted(s)
      BY SMT, <2>1 DEF Us, Armed, Reach, Accounted
    <2>3. CASE cur \in enabled
      <3>1. current' = Clock(now) /\ pc' = "walk" /\ cur' = cur
        BY SMT, <1>7, <2>3 DEF GatherRead
      <3>2. Clock(now) # Unset /\ Value(Clock(now)) = 1000 * Us(now)
        BY SMT, <1>0, ClockFacts
      <3>3. /\ current' # Unset /\ 1000 * Us(gstart) <= Value(current')
            /\ Value(current') <= 1000 * Us(now)
        BY SMT, <1>1, <3>1, <3>2
      <3>4. Reach(cur)' = Reach(cur)
        BY SMT, <2>1, <3>1 DEF Reach
      <3> QED BY SMT, <2>1, <2>2, <2>3, <3>1, <3>3, <3>4 DEF GatherInv
    <2>4. CASE cur \notin enabled
      <3>1. cur' = next[cur] /\ pc' = "read"
        BY SMT, <1>7, <2>4, <2>1 DEF GatherRead
      <3>2. Reach(cur)' = Reach(cur) \ {cur}
        BY SMT, <1>0, <2>1, <3>1, WalkOn DEF Reach
      <3>3. cur \notin Armed
        BY SMT, <2>4 DEF Armed
      <3> QED BY SMT, <2>1, <2>2, <3>1, <3>2, <3>3 DEF GatherInv
    <2> QED BY <2>3, <2>4
  <1>8. CASE GatherEnd
    <2>1. /\ pc = "read" /\ cur = NULL /\ pc' = "poll" /\ timeout' = IF posted THEN Zero ELSE timeout
          /\ UNCHANGED <<heapVars, pending, cur, posted, registered, gstart>>
      BY SMT, <1>8 DEF GatherEnd, Zero
    <2>2. Zero # Unset
      BY SMT DEF Zero, Unset
    <2>3. Armed' = Armed /\ Reach(cur)' = Reach(cur) /\ Us(gstart)' = Us(gstart)
      BY SMT, <2>1 DEF Us, Armed, Reach
    <2>4. \A s : Accounted(s) => Accounted(s)'
      BY SMT, <2>1, <2>2, <2>3 DEF Accounted
    <2> QED BY SMT, <2>1, <2>3, <2>4 DEF GatherInv
  <1>9. CASE GatherWaiting \/ GatherInterval \/ GatherPersist \/ GatherOnce
    <2>0. PICK c : c = cur
      OBVIOUS
    <2>1. /\ pc = "walk" /\ pc' = "read" /\ UNCHANGED <<current, now, gstart>>
          /\ pending' # <<>> => posted'
          /\ c \in enabled /\ current # Unset /\ 1000 * Us(gstart) <= Value(current)
      BY SMT, <2>0, <1>9 DEF GatherWaiting, GatherInterval, GatherPersist, GatherOnce, Fire, GatherInv
    <2>2. /\ cur # NULL /\ c \in Src /\ c \in OfType("time")
          /\ Reach(next[cur]) = Reach(cur) \ {cur} /\ ms[c] \in Nat
      BY SMT, <2>0, <1>0, <2>1, WalkOn DEF ControlInv, HeapType
    <2>3. /\ Left(c) \in TimeSpec /\ Normal(Left(c)) /\ Value(Left(c)) = Value(DueAt(c)) - Value(current)
          /\ gwtm_timespec_is_expired(Left(c)) <=> Value(Left(c)) <= 0
          /\ Value(DueAt(c)) \in Int /\ Value(current) \in Int
          /\ DueAt(c) \in TimeSpec /\ Normal(DueAt(c)) /\ DueAt(c) # Unset
      BY SMT, <2>0, <1>0, <2>1, <2>2, LeftFacts, DueFacts
    <2>4. Us(gstart)' = Us(gstart)
      BY SMT, <2>0, <2>1 DEF Us
    <2>10. DOMAIN when = Src /\ MaybeTime(timeout) /\ current \in TimeSpec /\ Normal(current)
      BY SMT, <2>0, <1>0, <2>1 DEF TimeType, MaybeTime
    <2>5. CASE GatherWaiting
      <3>1. /\ ~gwtm_timespec_is_expired(Left(c)) /\ when' = [when EXCEPT ![c] = DueAt(c)]
            /\ timeout' = Shorter(Left(c)) /\ cur' = next[cur]
            /\ UNCHANGED <<next, enabled, registered, pending, posted>>
        BY SMT, <2>0, <2>5 DEF GatherWaiting
      <3>2. /\ Reach(cur)' = Reach(cur) \ {cur} /\ Armed' = Armed
            /\ when'[c] = DueAt(c) /\ \A s \in Src : s # c => when'[s] = when[s]
        BY SMT, <2>0, <2>2, <2>10, <3>1 DEF Reach, Armed
      <3>3. /\ timeout' # Unset /\ Value(timeout') \in Int /\ Value(timeout') <= Value(Left(c))
            /\ timeout # Unset => Value(timeout') <= Value(timeout)
            /\ (timeout = Unset \/ Value(timeout) >= 0) => Value(timeout') >= 0
        BY SMT, <2>0, <2>3, <2>10, <3>1, ShorterFacts
      <3>4. Value(timeout') + 1000 * Us(gstart) <= Value(DueAt(c))
        BY SMT, <2>0, <1>1, <2>1, <2>3, <3>3
      <3>5. Accounted(c)'
        BY SMT, <2>0, <2>3, <2>4, <3>2, <3>3, <3>4 DEF Accounted
      <3>6. \A s \in (Armed \ Reach(cur))' : Accounted(s)'
        BY SMT, <2>0, <1>0, <2>1, <3>1, <3>2, <3>3, <3>5, PassOne
      <3> QED BY SMT, <2>0, <2>1, <3>1, <3>3, <3>6 DEF GatherInv
    <2>6. CASE GatherInterval
      <3> DEFINE v == gwtm_add_ms_to_timespec(ms[cur], DueAt(cur))
      <3>0. v \in TimeSpec /\ Normal(v) /\ v.nsec < 1000000000 /\ v # Unset
        <4>1. v \in TimeSpec /\ Normal(v) /\ v.nsec < 1000000000
          BY SMT, <2>0, <2>2, <2>3, AddIsExact
        <4> QED BY <4>1, NormalIsSet
      <3>1. /\ when' = [when EXCEPT ![c] = v] /\ cur' = next[cur] /\ posted' = TRUE
            /\ UNCHANGED <<next, enabled, registered>>
        BY SMT, <2>0, <2>6 DEF GatherInterval, Fire
      <3>7. timeout' = Shorter(gwtm_timespec_sub_into(when'[c], current))
        BY SMT, <2>0, <2>6 DEF GatherInterval
      <3> HIDE DEF v
      <3>2. /\ Reach(cur)' = Reach(cur) \ {cur} /\ Armed' = Armed
            /\ when'[c] = v /\ \A s \in Src : s # c => when'[s] = when[s]
        BY SMT, <2>0, <2>2, <2>10, <3>1 DEF Reach, Armed
      <3>8. /\ gwtm_timespec_sub_into(v, current) \in TimeSpec
            /\ Normal(gwtm_timespec_sub_into(v, current))
        BY SMT, <2>0, <2>10, <3>0, SubIsExact
      <3>3. timeout' # Unset /\ Value(timeout') \in Int
        BY SMT, <2>0, <2>10, <3>2, <3>7, <3>8, ShorterFacts
      <3>5. Accounted(c)'
        BY SMT, <2>0, <3>0, <3>1, <3>2, <3>3 DEF Accounted
      <3>6. \A s \in (Armed \ Reach(cur))' : Accounted(s)'
        BY SMT, <2>0, <1>0, <2>1, <3>1, <3>2, <3>3, <3>5, PassOne
      <3> QED BY SMT, <2>0, <2>1, <3>1, <3>6 DEF GatherInv
    <2>7. CASE GatherPersist
      <3>1. /\ when' = [when EXCEPT ![c] = Unset] /\ cur' = next[cur] /\ posted' = TRUE
            /\ enabled' = enabled \ {c} /\ UNCHANGED <<next, timeout, registered>>
        BY SMT, <2>0, <2>7 DEF GatherPersist, Fire
      <3>2. /\ Reach(cur)' = Reach(cur) \ {cur} /\ Armed' = Armed \ {c}
            /\ \A s \in Src : s # c => when'[s] = when[s]
        BY SMT, <2>0, <2>2, <2>10, <3>1 DEF Reach, Armed
      <3>3. timeout # Unset => Value(timeout') \in Int
        BY SMT, <2>0, <2>10, <3>1, ValueIsInt
      <3>6. \A s \in (Armed \ Reach(cur))' : Accounted(s)'
        BY SMT, <2>0, <1>0, <2>1, <3>1, <3>2, <3>3, PassOne
      <3> QED BY SMT, <2>0, <2>1, <3>1, <3>6 DEF GatherInv
    <2>8. CASE GatherOnce
      <3>1. /\ posted' = TRUE /\ FreeSrc({c}) /\ UNCHANGED timeout
        BY SMT, <2>0, <2>8 DEF GatherOnce, Fire
      <3>2. Reach(cur)' = Reach(cur) \ {cur} /\ registered' = registered \ {c}
        BY SMT, <2>0, <1>0, <2>8, OnceLists
      <3>4. /\ Armed' \ {c} \subseteq Armed /\ c \notin Armed'
            /\ \A s \in Src : s # c => when'[s] = when[s]
        BY SMT, <2>0, <3>1, <3>2 DEF Armed, FreeSrc, Reset
      <3>3. timeout # Unset => Value(timeout') \in Int
        BY SMT, <2>0, <2>10, <3>1, ValueIsInt
      <3>6. \A s \in (Armed \ Reach(cur))' : Accounted(s)'
        BY SMT, <2>0, <1>0, <2>1, <3>1, <3>2, <3>3, <3>4, PassOne
      <3> QED BY SMT, <2>0, <2>1, <3>1, <3>6 DEF GatherInv
    <2> QED BY <1>9, <2>5, <2>6, <2>7, <2>8
  <1>10. HeapType /\ TimeType
    BY <1>0
  <1> QED BY <1>2, <1>3, <1>4, <1>5, <1>6, <1>7, <1>8, <1>9, <1>10, GatherSteps
-----------------------------------------------------------------------------
(* When time sources fire.                                                    *)

(* One more event moves the bound of Due by one period.                       *)
LEMMA PeriodFacts ==
    ASSUME NEW u \in Nat, NEW f \in Nat, NEW m \in Nat
    PROVE  /\ 1000 * (u + (f + 1) * m * 1000) \in Int
           /\ 1000 * (u + (0 + 1) * m * 1000) = 1000 * u + 1000000 * m
           /\ 1000 * (u + ((f + 1) + 1) * m * 1000)
                = 1000 * (u + (f + 1) * m * 1000) + 1000000 * m
           /\ (f + 1) * m * 1000 \in Nat
  <1> DEFINE p == (f + 1) * m
             q == ((f + 1) + 1) * m
  <1>1. p \in Nat /\ q = p + m /\ (0 + 1) * m = m
    BY SMT
  <1> HIDE DEF p, q
  <1>2. /\ 1000 * (u + p * 1000) \in Int /\ p * 1000 \in Nat
        /\ 1000 * (u + m * 1000) = 1000 * u + 1000000 * m
        /\ 1000 * (u + q * 1000) = 1000 * (u + p * 1000) + 1000000 * m
    BY SMT, <1>1
  <1> QED BY <1>1, <1>2 DEF p, q

(* A step that changes at most the source s.                                  *)
LEMMA DueElsewhere ==
    ASSUME DueInv, NEW s, s \in (Timer \cap alloc)' => Due(s)',
           \A c \in Timer : c # s => /\ kind'[c] = kind[c] /\ when'[c] = when[c] /\ ms'[c] = ms[c]
                                     /\ armedAt'[c] = armedAt[c] /\ fires'[c] = fires[c]
                                     /\ c \in alloc' => c \in alloc
                                     /\ c \in enabled' => c \in enabled
    PROVE  DueInv'
  <1>1. SUFFICES ASSUME NEW c \in Timer, c \in alloc', c # s PROVE Due(c)'
    BY DEF DueInv
  <1>2. Due(c) /\ c \in alloc
    BY <1>1 DEF DueInv
  <1>3. /\ kind'[c] = kind[c] /\ when'[c] = when[c] /\ ms'[c] = ms[c]
        /\ armedAt'[c] = armedAt[c] /\ fires'[c] = fires[c] /\ (c \in enabled' => c \in enabled)
    BY <1>1
  <1> QED BY SMT, <1>2, <1>3 DEF Due

(* An expiry never comes before the periods it stands for have passed.        *)
LEMMA DueNext ==
    ASSUME SourceInv, GatherInv, DueInv, Step
    PROVE  DueInv'
  <1> USE DEF heapVars, rlVars, localVars, timeVars, vars
  <1>0. /\ TypeOK /\ Structure /\ HeapType /\ TimeType /\ DataInv /\ ControlInv /\ CellsInv
        /\ now \in Nat /\ Us(now) \in Nat
    BY NowIsNat, UsFacts DEF SourceInv, Structure, TypeOK
  <1>1. /\ DOMAIN when = Src /\ armedAt \in [Src -> Nat] /\ fires \in [Src -> Nat]
        /\ ms \in [Src -> Nat] /\ kind \in [Src -> Kinds]
        /\ Timer \subseteq Src /\ File \cap Timer = {} /\ File \subseteq Src
    BY <1>0, CellAssumption DEF TimeType, HeapType, CellAssumption, Src
  <1>2. ASSUME UNCHANGED <<kind, when, ms, armedAt, fires>>,
               \A c \in Timer : (c \in alloc' => c \in alloc) /\ (c \in enabled' => c \in enabled)
        PROVE  DueInv'
    <2>1. NULL \notin Timer
      BY <1>1, CellAssumption DEF CellAssumption
    <2> QED BY SMT, <1>2, <2>1, DueElsewhere
  <1>3. ASSUME NEW s \in Timer, NEW k \in Kinds, NEW m \in Nat, TimeCreate(s, k, m)
        PROVE  DueInv'
    <2>1. /\ alloc' = alloc \cup {s} /\ enabled' = enabled \cup {s} /\ kind' = [kind EXCEPT ![s] = k]
          /\ ms' = [ms EXCEPT ![s] = m]
          /\ when' = [when EXCEPT ![s] = IF k = "date" THEN gwtm_ms_to_timespec(m) ELSE Unset]
          /\ fires' = [fires EXCEPT ![s] = 0] /\ armedAt' = [armedAt EXCEPT ![s] = 0]
      BY <1>3 DEF TimeCreate
    <2>2. /\ kind'[s] = k /\ ms'[s] = m /\ fires'[s] = 0 /\ armedAt'[s] = 0
          /\ when'[s] = IF k = "date" THEN gwtm_ms_to_timespec(m) ELSE Unset
      BY SMT, <1>1, <2>1
    <2>3. Value(gwtm_ms_to_timespec(m)) = 1000000 * m
      BY DateFacts
    <2>4. Due(s)'
      BY SMT, <2>2, <2>3 DEF Due
    <2>5. \A c \in Timer : c # s => /\ kind'[c] = kind[c] /\ when'[c] = when[c] /\ ms'[c] = ms[c]
                                    /\ armedAt'[c] = armedAt[c] /\ fires'[c] = fires[c]
                                    /\ c \in alloc' => c \in alloc
                                    /\ c \in enabled' => c \in enabled
      BY SMT, <1>1, <2>1
    <2> QED BY <2>4, <2>5, DueElsewhere
  <1>4. ASSUME NEW s \in Src, FreeSrc({s})
        PROVE  DueInv'
    <2>1. \A c \in Timer : c # s => /\ kind'[c] = kind[c] /\ when'[c] = when[c] /\ ms'[c] = ms[c]
                                    /\ armedAt'[c] = armedAt[c] /\ fires'[c] = fires[c]
                                    /\ c \in alloc' => c \in alloc
                                    /\ c \in enabled' => c \in enabled
      BY SMT, <1>1, <1>4 DEF FreeSrc, Reset
    <2>2. s \notin alloc'
      BY <1>4 DEF FreeSrc
    <2> QED BY <2>1, <2>2, DueElsewhere
  <1>5. ASSUME NEW s \in Src, gwrl_src_enable(s)
        PROVE  DueInv'
    <2>1. enabled' = enabled \cup {s} /\ UNCHANGED <<alloc, kind, ms>> /\ s \in alloc
      BY <1>5 DEF gwrl_src_enable, Mine
    <2>2. CASE s \notin Timer
      <3>1. UNCHANGED <<when, armedAt, fires>>
        BY <1>5, <2>2 DEF gwrl_src_enable
      <3> QED BY <1>2, <2>1, <2>2, <3>1
    <2>3. CASE s \in Timer
      <3> DEFINE v == gwtm_add_ms_to_timespec(ms[s], Clock(now))
      <3>1. /\ when' = IF kind[s] = "date" THEN when ELSE [when EXCEPT ![s] = v]
            /\ armedAt' = [armedAt EXCEPT ![s] = now] /\ fires' = [fires EXCEPT ![s] = 0]
        BY <1>5, <2>3 DEF gwrl_src_enable
      <3>2. Value(v) = 1000 * Us(now) + 1000000 * ms[s]
        <4>1. /\ Clock(now) \in TimeSpec /\ Normal(Clock(now)) /\ ms[s] \in Nat
              /\ Value(Clock(now)) = 1000 * Us(now)
          BY SMT, <1>0, <1>1, ClockFacts
        <4> QED BY SMT, <4>1, AddIsExact
      <3> HIDE DEF v
      <3>3. /\ fires'[s] = 0 /\ armedAt'[s] = now /\ (kind[s] = "date" => when'[s] = when[s])
            /\ (kind[s] # "date" => when'[s] = v)
        BY SMT, <1>1, <3>1
      <3>4. Due(s)
        BY <2>1, <2>3 DEF DueInv
      <3>5. Value(v) >= 1000 * (Us(now) + (0 + 1) * ms[s] * 1000)
        <4>1. ms[s] \in Nat
          BY <1>1
        <4>2. 1000 * (Us(now) + (0 + 1) * ms[s] * 1000) = 1000 * Us(now) + 1000000 * ms[s]
          BY SMT, <1>0, <4>1, PeriodFacts
        <4> QED BY SMT, <1>0, <4>1, <4>2, <3>2
      <3>6. Due(s)'
        BY SMT, <2>1, <3>3, <3>4, <3>5 DEF Due
      <3>7. \A c \in Timer : c # s => /\ kind'[c] = kind[c] /\ when'[c] = when[c] /\ ms'[c] = ms[c]
                                      /\ armedAt'[c] = armedAt[c] /\ fires'[c] = fires[c]
                                      /\ c \in alloc' => c \in alloc
                                      /\ c \in enabled' => c \in enabled
        BY SMT, <1>1, <2>1, <3>1
      <3> QED BY <3>6, <3>7, DueElsewhere
    <2> QED BY <2>2, <2>3
  <1>6. CASE GatherWaiting \/ GatherInterval \/ GatherPersist
    <2>0. PICK s : s = cur
      OBVIOUS
    <2>1. /\ pc = "walk" /\ UNCHANGED <<alloc, kind, ms>>
          /\ armedAt' = [armedAt EXCEPT ![s] = IF when[s] = Unset THEN now ELSE @]
      BY SMT, <1>6, <2>0 DEF GatherWaiting, GatherInterval, GatherPersist, Fire, Counted
    <2>2. s \in Timer /\ s \in Src /\ s \in alloc /\ s \in enabled
      <3>1. cur # NULL /\ cur \in enabled
        BY SMT, <1>0, <2>1 DEF ControlInv, GatherInv
      <3> QED BY SMT, <1>0, <2>0, <2>1, <3>1, WalkOn, TypeOfFacts DEF OfType, CellsInv
    <2>3. Due(s) /\ ms[s] \in Nat /\ fires[s] \in Nat /\ armedAt[s] \in Nat
      BY <1>1, <2>2 DEF DueInv
    <2>4. /\ DueAt(s) \in TimeSpec /\ Normal(DueAt(s)) /\ DueAt(s) # Unset
          /\ when[s] # Unset => DueAt(s) = when[s]
          /\ when[s] = Unset => Value(DueAt(s)) = 1000 * Us(now) + 1000000 * ms[s]
          /\ Value(DueAt(s)) \in Int
      BY SMT, <1>0, <2>2, DueFacts, ValueIsInt
    <2> DEFINE a == IF when[s] = Unset THEN now ELSE armedAt[s]
    <2>5. armedAt'[s] = a /\ a \in Nat /\ Us(a) \in Nat
      BY SMT, <1>0, <1>1, <2>1, <2>2, <2>3, UsFacts
    <2> DEFINE b == 1000 * (Us(a) + (fires[s] + 1) * ms[s] * 1000)
    <2>6. kind[s] # "date" => Value(DueAt(s)) >= b
      <3>1. CASE when[s] = Unset
        <4>1. fires[s] = 0
          BY SMT, <2>2, <2>3, <3>1 DEF Due
        <4>2. a = now
          BY <3>1
        <4>3. 1000 * (Us(now) + (0 + 1) * ms[s] * 1000) = 1000 * Us(now) + 1000000 * ms[s]
          BY SMT, <1>0, <2>3, PeriodFacts
        <4>4. b = 1000 * (Us(now) + (0 + 1) * ms[s] * 1000)
          BY <4>1, <4>2
        <4> HIDE DEF a, b
        <4> QED BY SMT, <1>0, <2>3, <2>4, <3>1, <4>3, <4>4
      <3>2. CASE when[s] # Unset
        <4>1. a = armedAt[s] /\ DueAt(s) = when[s]
          BY <2>4, <3>2
        <4> QED BY <2>3, <3>2, <4>1 DEF Due
      <3> QED BY <3>1, <3>2
    <2> HIDE DEF a
    <2>7. b \in Int
      BY SMT, <2>3, <2>5, PeriodFacts
    <2>8. ASSUME NEW v, when' = [when EXCEPT ![s] = v]
          PROVE  /\ when'[s] = v
                 /\ \A c \in Timer : c # s => when'[c] = when[c] /\ armedAt'[c] = armedAt[c]
      BY SMT, <1>1, <2>1, <2>2, <2>8
    <2>9. CASE GatherWaiting
      <3>1. when' = [when EXCEPT ![s] = DueAt(s)] /\ UNCHANGED <<fires, enabled>>
        BY SMT, <2>0, <2>9 DEF GatherWaiting
      <3>2. when'[s] = DueAt(s) /\ \A c \in Timer : c # s => when'[c] = when[c] /\ armedAt'[c] = armedAt[c]
        BY <2>8, <3>1
      <3>3. kind[s] = "date" => when[s] # Unset
        BY <1>0, <2>2 DEF DataInv
      <3>4. Due(s)'
        BY SMT, <2>1, <2>2, <2>3, <2>4, <2>5, <2>6, <3>1, <3>2, <3>3 DEF Due
      <3> QED BY SMT, <2>1, <3>1, <3>2, <3>4, DueElsewhere
    <2>10. CASE GatherInterval
      <3> DEFINE v == gwtm_add_ms_to_timespec(ms[s], DueAt(s))
      <3>1. /\ when' = [when EXCEPT ![s] = v] /\ UNCHANGED enabled /\ kind[s] = "interval"
            /\ fires' = [fires EXCEPT ![s] = @ + 1]
        BY SMT, <2>0, <2>10 DEF GatherInterval, Counted
      <3>2. Value(v) = Value(DueAt(s)) + 1000000 * ms[s] /\ v # Unset
        <4>1. Value(v) = Value(DueAt(s)) + 1000000 * ms[s] /\ Normal(v)
          BY SMT, <2>3, <2>4, AddIsExact
        <4> QED BY <4>1, NormalIsSet
      <3> HIDE DEF v
      <3>3. when'[s] = v /\ \A c \in Timer : c # s => when'[c] = when[c] /\ armedAt'[c] = armedAt[c]
        BY <2>8, <3>1
      <3>4. fires'[s] = fires[s] + 1 /\ \A c \in Timer : c # s => fires'[c] = fires[c]
        BY SMT, <1>1, <2>2, <3>1
      <3>5. 1000 * (Us(a) + ((fires[s] + 1) + 1) * ms[s] * 1000) = b + 1000000 * ms[s]
        BY SMT, <2>3, <2>5, PeriodFacts
      <3>6. Value(v) >= 1000 * (Us(a) + ((fires[s] + 1) + 1) * ms[s] * 1000)
        <4> HIDE DEF b
        <4> QED BY SMT, <2>3, <2>4, <2>6, <2>7, <3>1, <3>2, <3>5
      <3>7. Due(s)'
        BY SMT, <2>1, <2>5, <3>1, <3>2, <3>3, <3>4, <3>6 DEF Due
      <3> QED BY SMT, <2>1, <3>1, <3>3, <3>4, <3>7, DueElsewhere
    <2>11. CASE GatherPersist
      <3>1. /\ when' = [when EXCEPT ![s] = Unset] /\ enabled' = enabled \ {s} /\ kind[s] = "persist"
            /\ fires' = [fires EXCEPT ![s] = @ + 1]
        BY SMT, <2>0, <2>11 DEF GatherPersist, Counted
      <3>3. when'[s] = Unset /\ \A c \in Timer : c # s => when'[c] = when[c] /\ armedAt'[c] = armedAt[c]
        BY <2>8, <3>1
      <3>4. \A c \in Timer : c # s => fires'[c] = fires[c]
        BY SMT, <1>1, <2>2, <3>1
      <3>7. Due(s)'
        BY SMT, <2>1, <3>1, <3>3 DEF Due
      <3> QED BY SMT, <2>1, <3>1, <3>3, <3>4, <3>7, DueElsewhere
    <2> QED BY <1>6, <2>9, <2>10, <2>11
  <1>7. CASE \/ CheckQueue \/ ClearQueue \/ InstallOne \/ Dispatch \/ GatherStart \/ GatherRead
             \/ GatherEnd \/ PollTimeout \/ PollFile \/ Tick \/ UNCHANGED vars
    <2>1. UNCHANGED <<kind, when, ms, armedAt, fires, alloc, enabled>>
      BY SMT, <1>7 DEF CheckQueue, ClearQueue, InstallOne, Dispatch, GatherStart, GatherRead,
         GatherEnd, PollTimeout, PollFile, Tick
    <2> QED BY <1>2, <2>1
  <1>8. ASSUME NEW s \in Src, \/ gwrl_set_fd(s) \/ gwrl_src_add(s) \/ gwrl_src_remove(s)
                              \/ gwrl_src_disable(s) \/ AddFileSafely(s)
        PROVE  DueInv'
    <2>1. UNCHANGED <<kind, when, ms, armedAt, fires>>
      BY SMT, <1>8 DEF gwrl_set_fd, gwrl_src_add, gwrl_src_remove, gwrl_src_disable, AddFileSafely
    <2>2. \A c \in Timer : (c \in alloc' => c \in alloc) /\ (c \in enabled' => c \in enabled)
      BY SMT, <1>1, <1>8 DEF gwrl_set_fd, gwrl_src_add, gwrl_src_remove, gwrl_src_disable,
         AddFileSafely
    <2> QED BY <1>2, <2>1, <2>2
  <1>9. ASSUME NEW s \in Timer, NEW k \in Kinds, NEW m \in Ms,
               SetTimer(s, k, m) \/ AddTimerSafely(s, k, m)
        PROVE  DueInv'
    <2> DEFINE u == Us(now) \div 1000
    <2>1. u \in Nat /\ m \in Nat
      BY SMT, <1>0, BoundAssumption DEF BoundAssumption
    <2>2. TimeCreate(s, k, IF k = "date" THEN u + m ELSE m) \/ TimeCreate(s, k, m)
      BY <1>9 DEF SetTimer, AddTimerSafely
    <2> HIDE DEF u
    <2>3. PICK n \in Nat : TimeCreate(s, k, n)
      <3>1. u + m \in Nat
        BY SMT, <2>1
      <3> QED BY <2>1, <2>2, <3>1
    <2> QED BY <1>3, <2>3
  <1>10. CASE GatherOnce \/ \E s \in Src : gwrl_src_del(s)
    <2>1. PICK s \in Src : FreeSrc({s})
      <3>1. pc = "walk" => cur \in Src
        BY <1>0, Basics DEF ControlInv, HeapType
      <3> QED BY <1>10, <3>1 DEF GatherOnce, Fire, gwrl_src_del
    <2> QED BY <1>4, <2>1
  <1> QED BY <1>1, <1>5, <1>6, <1>7, <1>8, <1>9, <1>10
          DEF Step, Next, Reactor, TimeGather, Client, OtherThread, Undefined
(* The timeout gwrl_time_gather leaves is that of a source it has passed.     *)
LEMMA SpinNext ==
    ASSUME SourceInv, GatherInv, SpinInv, Step
    PROVE  SpinInv'
  <1> USE DEF heapVars, rlVars, localVars, timeVars, vars
  <1> DEFINE Near(s) == when[s] # Unset /\ Value(when[s]) <= Value(timeout) + 1000 * Us(now)
  <1>0. /\ TypeOK /\ Structure /\ HeapType /\ TimeType /\ DataInv /\ ControlInv /\ CellsInv
        /\ now \in Nat /\ Us(now) \in Nat /\ Us(now + 1) \in Nat /\ Us(now) <= Us(now + 1)
    BY SMT, NowIsNat, UsFacts DEF SourceInv, Structure, TypeOK
  <1>1. /\ posted => pc \in {"read", "walk", "poll"} /\ pending # <<>>
        /\ pc \in {"read", "walk"} /\ ~posted /\ timeout # Unset => \E s \in Armed : Near(s)
    BY DEF SpinInv
  <1>2. CASE pc' \notin {"read", "walk", "poll"} /\ (posted' => posted /\ pc \notin {"read", "walk", "poll"})
    BY <1>1, <1>2 DEF SpinInv
  <1>3. CASE UNCHANGED vars
    BY <1>3 DEF SpinInv, Armed, Us
  <1>4. CASE Tick
    <2>1. now' = now + 1 /\ UNCHANGED <<heapVars, rlVars, localVars, registered>>
      BY <1>4 DEF Tick
    <2>2. ASSUME NEW s \in Armed, Near(s), timeout # Unset PROVE Near(s)'
      <3>1. s \in Src /\ Value(when[s]) \in Int /\ Value(timeout) \in Int
        BY SMT, <1>0, <2>2, ValueIsInt DEF Armed, Src, TimeType
      <3>2. Value(when[s]) <= Value(timeout) + 1000 * Us(now + 1)
        BY SMT, <1>0, <2>2, <3>1
      <3> QED BY SMT, <2>1, <2>2, <3>2 DEF Us
    <2>3. Armed' = Armed
      BY <2>1 DEF Armed
    <2> HIDE DEF Near
    <2>4. pc' \in {"read", "walk"} /\ ~posted' /\ timeout' # Unset => \E s \in Armed' : Near(s)'
      BY <1>1, <2>1, <2>2, <2>3
    <2> QED BY <1>1, <2>1, <2>4 DEF SpinInv, Near
  <1>5. ASSUME NEW s \in Src \ alloc, PushSource(s), enabled' = enabled \cup {s},
               \A c \in Src : c # s => when'[c] = when[c]
        PROVE  SpinInv'
    <2>1. UNCHANGED <<timeout, pending, localVars, now, registered>>
      BY <1>5 DEF PushSource
    <2>2. s \notin registered
      BY <1>0, <1>5 DEF CellsInv
    <2>3. Armed' = Armed /\ \A c \in Armed : c \in Src /\ c # s
      BY <1>5, <2>1, <2>2 DEF Armed, Src
    <2>4. \A c \in Armed : Near(c) => Near(c)'
      BY SMT, <1>5, <2>1, <2>3 DEF Us
    <2> HIDE DEF Near
    <2>5. pc' \in {"read", "walk"} /\ ~posted' /\ timeout' # Unset => \E c \in Armed' : Near(c)'
      BY <1>1, <2>1, <2>3, <2>4
    <2> QED BY <1>1, <2>1, <2>5 DEF SpinInv, Near
  <1>6. CASE GatherStart
    BY SMT, <1>6 DEF GatherStart, SpinInv
  <1>7. CASE GatherRead
    <2>1. /\ pc = "read" /\ pc' \in {"read", "walk"}
          /\ UNCHANGED <<heapVars, rlVars, posted, now, registered>>
      BY SMT, <1>7 DEF GatherRead
    <2>2. Armed' = Armed /\ \A c : Near(c)' <=> Near(c)
      BY SMT, <2>1 DEF Armed, Us
    <2> HIDE DEF Near
    <2>3. pc' \in {"read", "walk"} /\ ~posted' /\ timeout' # Unset => \E c \in Armed' : Near(c)'
      BY <1>1, <2>1, <2>2
    <2> QED BY <1>1, <2>1, <2>3 DEF SpinInv, Near
  <1>8. CASE GatherEnd
    BY <1>1, <1>8 DEF GatherEnd, SpinInv
  <1>9. CASE GatherInterval \/ GatherPersist \/ GatherOnce
    <2>1. Fire
      BY <1>9 DEF GatherInterval, GatherPersist, GatherOnce
    <2>2. pc' = "read" /\ posted' = TRUE /\ pending' = <<cur>> \o pending
      BY <2>1 DEF Fire
    <2>3. pending' # <<>>
      <3>1. cur \in Src /\ pending \in Seq(Src)
        BY SMT, <1>0, <2>1, WalkOn DEF Fire, TypeOK, ControlType, ControlInv
      <3> QED BY SMT, <2>2, <3>1
    <2> QED BY <2>2, <2>3 DEF SpinInv
  <1>10. CASE GatherWaiting
    <2>0. PICK c : c = cur
      OBVIOUS
    <2>1. /\ pc = "walk" /\ pc' = "read" /\ ~gwtm_timespec_is_expired(Left(c))
          /\ when' = [when EXCEPT ![c] = DueAt(c)] /\ timeout' = Shorter(Left(c))
          /\ UNCHANGED <<enabled, registered, pending, posted, now>>
      BY SMT, <2>0, <1>10 DEF GatherWaiting
    <2>2. /\ c \in enabled /\ current # Unset /\ Value(current) <= 1000 * Us(now) /\ cur # NULL
      BY SMT, <1>0, <2>0, <2>1 DEF GatherInv, ControlInv
    <2>3. c \in Armed /\ c \in Src
      BY SMT, <1>0, <2>0, <2>1, <2>2, WalkOn, TypeOfFacts DEF Armed, OfType
    <2>4. /\ Left(c) \in TimeSpec /\ Value(Left(c)) = Value(DueAt(c)) - Value(current)
          /\ Value(DueAt(c)) \in Int /\ Value(current) \in Int /\ DueAt(c) # Unset
          /\ (when[c] # Unset => DueAt(c) = when[c]) /\ Value(Left(c)) \in Int
      BY SMT, <1>0, <2>2, <2>3, LeftFacts, DueFacts, ValueIsInt
    <2>5. /\ Armed' = Armed /\ when'[c] = DueAt(c) /\ Us(now)' = Us(now)
          /\ \A s \in Src : s # c => when'[s] = when[s]
      BY SMT, <1>0, <2>1, <2>3 DEF Armed, Us, TimeType
    <2>6. timeout' = Left(c) \/ (timeout # Unset /\ timeout' = timeout)
      BY SMT, <2>1 DEF Shorter, gwtm_timespec_copy_if_smaller
    <2>7. SUFFICES ASSUME ~posted PROVE \E s \in Armed : Near(s)'
      <3> HIDE DEF Near
      <3> QED BY <1>1, <2>1, <2>5, <2>7 DEF SpinInv, Near
    <2>8. CASE timeout' = Left(c)
      <3>1. Value(DueAt(c)) <= Value(Left(c)) + 1000 * Us(now)
        BY SMT, <1>0, <2>2, <2>4
      <3>2. Near(c)'
        BY <2>4, <2>5, <2>8, <3>1
      <3> HIDE DEF Near
      <3> QED BY <2>3, <3>2
    <2>9. CASE timeout # Unset /\ timeout' = timeout
      <3>1. PICK s \in Armed : Near(s)
        BY <1>1, <2>1, <2>7, <2>9
      <3>2. when'[s] = when[s]
        BY <2>4, <2>5, <3>1 DEF Armed, Src
      <3>3. Near(s)'
        BY <2>5, <2>9, <3>1, <3>2
      <3> HIDE DEF Near
      <3> QED BY <3>1, <3>3
    <2> QED BY <2>6, <2>8, <2>9
  <1> HIDE DEF Near
  <1> QED BY <1>0, <1>2, <1>3, <1>4, <1>5, <1>6, <1>7, <1>8, <1>9, <1>10, GatherSteps

-----------------------------------------------------------------------------
(* The theorems.                                                              *)

Inv == SourceInv /\ GatherInv /\ DueInv /\ SpinInv
NoPurge == [][~gwrl_del_persistent_timeouts]_vars

LEMMA InvNext == Inv /\ Step => Inv'
  <1> SUFFICES ASSUME Inv, Step PROVE Inv'
    OBVIOUS
  <1>1. /\ SourceInv /\ GatherInv /\ DueInv /\ SpinInv /\ TypeOK /\ DataInv /\ ControlInv
        /\ Structure /\ TimeType
    BY DEF Inv, SourceInv, Structure, TypeOK
  <1>2. ControlInv' /\ CellsInv' /\ QueueInv' /\ ListInv'
    BY <1>1, ListsNext
  <1>3. HeapType' /\ TimeType' /\ DataInv' /\ ControlType'
    BY <1>1, HeapTypeNext, TimeTypeNext, ControlTypeNext
  <1>4. GatherInv' /\ DueInv' /\ SpinInv'
    BY <1>1, GatherNext, DueNext, SpinNext
  <1> QED BY <1>2, <1>3, <1>4 DEF Inv, SourceInv, TypeOK

(* The inductive invariant holds as long as the client does not call          *)
(* gwrl_del_persistent_timeouts.                                              *)
THEOREM SourcesInvariant == Spec /\ NoPurge => []Inv
  <1>1. Init => Inv
    BY SourceInit DEF Inv
  <1>2. [Next]_vars /\ [~gwrl_del_persistent_timeouts]_vars => Step
    BY DEF Step
  <1> QED BY <1>1, <1>2, InvNext, PTL DEF Spec, NoPurge
(* Every time that gwrl_time_gather sets, in an expiry or in the backend's    *)
(* timeout, is a normalised timespec, whatever the durations and the clock.   *)
THEOREM TimesAreNormal == Spec /\ NoPurge => []TypeOK
  <1>1. Inv => TypeOK
    BY DEF Inv, SourceInv
  <1> QED BY <1>1, SourcesInvariant, PTL

(* rl->sources holds exactly the registered sources, each under its own type: *)
(* adding, deleting, expiry under the walk of gwrl_time_gather and            *)
(* installation from the queue keep every list whole, until gwrl_src_add has  *)
(* kept a stale next.                                                         *)
THEOREM ListsAreWhole == Spec /\ NoPurge => []RegisteredIsListed
  <1>1. Inv => RegisteredIsListed
    <2> SUFFICES ASSUME Inv, ~tangled PROVE RegisteredIsListed
      BY DEF RegisteredIsListed
    <2>1. ListInv /\ CellsInv
      BY DEF Inv, SourceInv
    <2>2. \A t \in Types : Reach(head[t]) = OfType(t)
      BY <2>1 DEF ListInv
    <2>3. registered \subseteq alloc
      BY <2>1 DEF CellsInv
    <2> QED BY <2>2, <2>3 DEF RegisteredIsListed, OfType, Types
  <1> QED BY <1>1, SourcesInvariant, PTL

(* A source given to gwrl_src_add_safely is on rl->_qsrc, or on the list      *)
(* being installed, until it is registered.                                   *)
THEOREM QueueIsWhole == Spec /\ NoPurge => []QueuedIsKept
  <1>1. Inv => QueuedIsKept
    <2> SUFFICES ASSUME Inv PROVE QueuedIsKept
      OBVIOUS
    <2>1. QueueInv
      BY DEF Inv, SourceInv
    <2>2. CASE pc # "inst"
      BY <2>1, <2>2 DEF QueueInv, QueuedIsKept
    <2>3. CASE pc = "inst"
      BY <2>1, <2>3 DEF QueueInv, QueuedIsKept
    <2> QED BY <2>2, <2>3
  <1> QED BY <1>1, SourcesInvariant, PTL

(* Whatever the backend, its wait ends before any enabled time source is due, *)
(* up to the time gwrl_time_gather took, and it does not wait when events     *)
(* were posted.                                                               *)
THEOREM NeverOversleeps == Spec /\ NoPurge => []NoOversleep
  <1>1. Inv => NoOversleep
    <2> SUFFICES ASSUME Inv, pc = "poll", NEW s \in Armed
                 PROVE  /\ timeout # Unset /\ when[s] # Unset
                        /\ Wait(timeout) = 0 \/ Wait(timeout) <= Micros(when[s]) - Us(gstart)
                        /\ pending # <<>> => Wait(timeout) = 0
      BY DEF NoOversleep
    <2>1. /\ TypeOK /\ HeapType /\ TimeType /\ GatherInv /\ cur = NULL /\ s \in Src
          /\ gstart \in Nat
      BY DEF Inv, SourceInv, TypeOK, TimeType, ControlInv, Armed, Src
    <2>2. Accounted(s)
      <3>1. Reach(cur) = {}
        BY <2>1, Basics
      <3> QED BY <2>1, <3>1 DEF GatherInv
    <2>3. when[s] # Unset /\ timeout # Unset
      BY <2>2 DEF Accounted
    <2>4. /\ timeout \in TimeSpec /\ Normal(timeout) /\ Value(timeout) \in Int
          /\ when[s] \in TimeSpec /\ Normal(when[s]) /\ Value(when[s]) \in Int
      BY SMT, <2>1, <2>3, ValueIsInt DEF TimeType
    <2>5. /\ pending # <<>> => posted
          /\ posted => timeout = Zero
          /\ posted \/ Value(timeout) >= 0
      BY <2>1, <2>3 DEF GatherInv
    <2>6. CASE posted
      <3>1. Value(Zero) = 0
        BY SMT, Built DEF Zero
      <3>2. timeout = Zero /\ Value(timeout) >= 0
        BY SMT, <2>5, <2>6, <3>1
      <3>3. Wait(timeout) = 0
        BY SMT, <2>4, <3>2, WaitFacts
      <3> QED BY <2>3, <3>3
    <2>7. CASE ~posted
      <3>1. Value(timeout) >= 0 /\ Value(timeout) + 1000 * Us(gstart) <= Value(when[s])
        BY <2>2, <2>5, <2>7 DEF Accounted
      <3>2. Wait(timeout) \in Nat /\ 1000 * Wait(timeout) <= Value(timeout) /\ Us(gstart) \in Nat
        BY SMT, <2>1, <2>4, <3>1, WaitFacts, UsFacts
      <3>3. 1000 * (Wait(timeout) + Us(gstart)) <= Value(when[s]) /\ Wait(timeout) + Us(gstart) \in Int
        BY SMT, <2>4, <3>1, <3>2
      <3>4. Wait(timeout) + Us(gstart) <= Micros(when[s]) /\ Micros(when[s]) \in Int
        BY SMT, <2>4, <3>3, MicrosFacts
      <3>5. Wait(timeout) <= Micros(when[s]) - Us(gstart)
        BY SMT, <3>2, <3>4
      <3> QED BY <2>3, <2>5, <2>7, <3>5
    <2> QED BY <2>6, <2>7
  <1> QED BY <1>1, SourcesInvariant, PTL

(* No time source fires before it is due: an interval has let as many periods *)
(* pass as it has fired, a timeout or date fires once for each arming.        *)
THEOREM NeverFiresEarly == Spec /\ NoPurge => FiresOnTime
  <1>1. ASSUME Inv, Step, pc = "walk", pending' # pending
        PROVE  IsDue
    <2> USE DEF heapVars, rlVars, localVars, timeVars, vars
    <2>0. /\ TypeOK /\ Structure /\ HeapType /\ TimeType /\ DataInv /\ ControlInv /\ GatherInv
          /\ CellsInv /\ DueInv /\ now \in Nat /\ Us(now) \in Nat
      BY SMT, <1>1, NowIsNat, UsFacts DEF Inv, SourceInv, Structure, TypeOK
    <2>1. Fire
      <3>1. ~UNCHANGED vars /\ ~Tick /\ ~GatherWaiting /\ \A s : ~PushSource(s)
        BY <1>1 DEF Tick, GatherWaiting, PushSource
      <3>2. pc' \in {"read", "walk", "poll"}
        BY <1>1, <3>1 DEF Step, Next, Reactor, TimeGather, Client, OtherThread, Undefined,
           CheckQueue, ClearQueue, InstallOne, Dispatch, GatherStart, GatherRead, GatherEnd,
           GatherInterval, GatherPersist, GatherOnce, Fire, PollTimeout, PollFile, Return,
           SetTimer, gwrl_set_fd, gwrl_src_add, gwrl_src_remove, gwrl_src_del, gwrl_src_enable,
           gwrl_src_disable, Call, AddTimerSafely, AddFileSafely
      <3>3. ~GatherStart /\ ~GatherRead /\ ~GatherEnd
        BY <1>1 DEF GatherStart, GatherRead, GatherEnd
      <3> QED BY <1>1, <2>0, <3>1, <3>2, <3>3, GatherSteps
              DEF GatherInterval, GatherPersist, GatherOnce
    <2>2. /\ gwtm_timespec_is_expired(Left(cur)) /\ cur \in enabled /\ current # Unset
          /\ Value(current) <= 1000 * Us(now) /\ cur # NULL
      BY <1>1, <2>0, <2>1 DEF Fire, GatherInv, ControlInv
    <2>3. cur \in Armed /\ cur \in Src /\ cur \in alloc /\ cur \in Timer
      BY SMT, <1>1, <2>0, <2>2, WalkOn, TypeOfFacts DEF Armed, OfType, CellsInv
    <2>4. /\ Value(DueAt(cur)) \in Int /\ Value(current) \in Int /\ Value(DueAt(cur)) <= Value(current)
          /\ when[cur] # Unset => DueAt(cur) = when[cur]
          /\ when[cur] = Unset => Value(DueAt(cur)) = 1000 * Us(now) + 1000000 * ms[cur]
      <3>1. /\ Value(Left(cur)) = Value(DueAt(cur)) - Value(current)
            /\ gwtm_timespec_is_expired(Left(cur)) <=> Value(Left(cur)) <= 0
            /\ Value(DueAt(cur)) \in Int /\ Value(current) \in Int
        BY SMT, <2>0, <2>2, <2>3, LeftFacts
      <3> QED BY SMT, <2>0, <2>2, <2>3, <3>1, DueFacts
    <2>5. Value(DueAt(cur)) <= 1000 * Us(now)
      BY SMT, <2>0, <2>2, <2>4
    <2>6. Due(cur) /\ ms[cur] \in Nat /\ fires[cur] \in Nat /\ armedAt[cur] \in Nat
      BY <2>0, <2>3 DEF DueInv, HeapType, TimeType
    <2>7. kind[cur] # "interval" => fires[cur] = 0
      BY <2>2, <2>6 DEF Due
    <2>8. kind[cur] = "date" => Us(now) >= ms[cur] * 1000
      <3>1. kind[cur] = "date" => when[cur] # Unset /\ Value(when[cur]) = 1000000 * ms[cur]
        BY SMT, <2>0, <2>3, <2>6 DEF DataInv, Due
      <3> QED BY SMT, <2>0, <2>4, <2>5, <2>6, <3>1
    <2>9. ASSUME kind[cur] # "date", when[cur] # Unset
          PROVE  Us(now) >= Us(armedAt[cur]) + (fires[cur] + 1) * ms[cur] * 1000
      <3> DEFINE x == Us(armedAt[cur])
                 y == (fires[cur] + 1) * ms[cur] * 1000
      <3>1. Value(when[cur]) >= 1000 * (x + y)
        BY <2>6, <2>9 DEF Due
      <3>2. x \in Nat /\ y \in Nat
        BY SMT, <2>6, UsFacts, PeriodFacts
      <3> HIDE DEF x, y
      <3>3. Us(now) >= x + y
        BY SMT, <2>0, <2>4, <2>5, <2>9, <3>1, <3>2
      <3> QED BY <3>3 DEF x, y
    <2>10. ASSUME kind[cur] # "date", when[cur] = Unset
           PROVE  Us(now) >= Us(now) + (fires[cur] + 1) * ms[cur] * 1000
      <3>1. fires[cur] = 0
        BY <2>6, <2>7, <2>10 DEF Due
      <3>2. ms[cur] = 0
        BY SMT, <2>0, <2>4, <2>5, <2>6, <2>10
      <3>3. (fires[cur] + 1) * ms[cur] * 1000 = 0
        BY SMT, <3>1, <3>2
      <3> QED BY SMT, <2>0, <3>3
    <2> QED BY <2>3, <2>7, <2>8, <2>9, <2>10 DEF IsDue
  <1>2. Inv /\ Step => [pc = "walk" /\ pending' # pending => IsDue]_vars
    BY <1>1
  <1>3. [Next]_vars /\ [~gwrl_del_persistent_timeouts]_vars => Step
    BY DEF Step
  <1> QED BY <1>2, <1>3, SourcesInvariant, PTL DEF Spec, NoPurge, FiresOnTime

(* A wait of no length is started only after an event was posted, or when an  *)
(* enabled time source is due within a millisecond.                           *)
THEOREM NeverSpins == Spec /\ NoPurge => SpinsOnlyWhenDue
  <1>1. ASSUME Inv, Step, wakeAt' # wakeAt, SpinStep
        PROVE  \E s \in Armed : Micros(when[s]) < Us(now) + 1000
    <2> USE DEF heapVars, rlVars, localVars, timeVars, vars
    <2>0. /\ TypeOK /\ HeapType /\ TimeType /\ GatherInv /\ SpinInv /\ now \in Nat /\ Us(now) \in Nat
      BY SMT, <1>1, NowIsNat, UsFacts DEF Inv, SourceInv, TypeOK
    <2>1. GatherEnd
      <3>1. pc' = "poll"
        BY <1>1 DEF SpinStep
      <3>2. /\ ~UNCHANGED vars /\ ~Tick /\ ~GatherStart /\ ~GatherRead /\ ~GatherWaiting
            /\ ~GatherInterval /\ ~GatherPersist /\ ~GatherOnce /\ \A s : ~PushSource(s)
        BY <1>1 DEF Tick, GatherStart, GatherRead, GatherWaiting, GatherInterval, GatherPersist,
           GatherOnce, PushSource
      <3> QED BY <1>1, <2>0, <3>1, <3>2, GatherSteps
    <2>2. /\ pc = "read" /\ pending' = pending /\ timeout' = IF posted THEN Zero ELSE timeout
          /\ wakeAt' = IF timeout' = Unset THEN Forever ELSE Us(now) + Wait(timeout')
          /\ wakeAt' = Us(now) /\ pending' = <<>>
      BY <1>1, <2>1 DEF GatherEnd, SpinStep, Zero
    <2>3. ~posted
      BY <2>0, <2>2 DEF SpinInv
    <2>4. timeout # Unset /\ Us(now) = Us(now) + Wait(timeout)
      BY SMT, <2>0, <2>2, <2>3 DEF Forever
    <2>5. PICK s \in Armed : when[s] # Unset /\ Value(when[s]) <= Value(timeout) + 1000 * Us(now)
      BY <2>0, <2>2, <2>3, <2>4 DEF SpinInv
    <2>6. /\ timeout \in TimeSpec /\ Normal(timeout) /\ Value(timeout) \in Int
          /\ when[s] \in TimeSpec /\ Normal(when[s]) /\ Value(when[s]) \in Int
          /\ Value(timeout) >= 0
      <3>1. s \in Src /\ MaybeTime(when[s]) /\ MaybeTime(timeout)
        BY <2>0 DEF Armed, Src, TimeType
      <3>2. Value(timeout) >= 0
        BY <2>0, <2>2, <2>3, <2>4 DEF GatherInv
      <3> QED BY SMT, <2>4, <2>5, <3>1, <3>2, ValueIsInt
    <2>7. Wait(timeout) = 0
      <3>1. Wait(timeout) \in Nat
        BY SMT, <2>6, WaitFacts
      <3> QED BY SMT, <2>0, <2>4, <3>1
    <2>8. Value(timeout) < 1000000
      BY SMT, <2>6, <2>7, NoWait
    <2>9. Value(when[s]) < 1000 * (Us(now) + 1000)
      BY SMT, <2>0, <2>5, <2>6, <2>8
    <2>10. Micros(when[s]) < Us(now) + 1000
      BY SMT, <2>0, <2>6, <2>9, MicrosBelow
    <2> QED BY <2>10
  <1>2. Inv /\ Step => [SpinStep => \E s \in Armed : Micros(when[s]) < Us(now) + 1000]_wakeAt
    BY <1>1
  <1>3. [Next]_vars /\ [~gwrl_del_persistent_timeouts]_vars => Step
    BY DEF Step
  <1> QED BY <1>2, <1>3, SourcesInvariant, PTL DEF Spec, NoPurge, SpinsOnlyWhenDue
=============================================================================
