--------------------------- MODULE HeapListProofs ---------------------------
(* What walks over linked lists visit, and what pushing and popping a cell    *)
(* does to them, for heaps of any size.                                       *)
EXTENDS Integers, Sequences, HeapLists, SequenceTheorems, FiniteSetTheorems, TLAPS

(* A walk visits its first cell and the successors of the cells it visits,    *)
(* and nothing else.                                                          *)
LEMMA WalkIsClosed ==
    ASSUME NEW nx, NEW h
    PROVE  /\ h \in DOMAIN nx => h \in Reachable(nx, h)
           /\ Reachable(nx, h) \subseteq DOMAIN nx
           /\ ClosedUnder(nx, Reachable(nx, h))
  BY DEF Reachable, ClosedUnder

LEMMA WalkIsLeast ==
    ASSUME NEW nx, NEW h, NEW S \in SUBSET DOMAIN nx,
           h \in DOMAIN nx => h \in S, ClosedUnder(nx, S)
    PROVE  Reachable(nx, h) \subseteq S
  BY DEF Reachable

(* A null pointer leads nowhere.                                              *)
LEMMA WalkFromNull ==
    ASSUME NEW nx, NEW h, h \notin DOMAIN nx
    PROVE  Reachable(nx, h) = {}
  <1>1. ClosedUnder(nx, {})
    BY DEF ClosedUnder
  <1> QED BY <1>1, WalkIsLeast

LEMMA WalkFromCell ==
    ASSUME NEW nx, NEW h \in DOMAIN nx
    PROVE  Reachable(nx, h) = {h} \cup Reachable(nx, nx[h])
  <1> DEFINE R == Reachable(nx, nx[h])
  <1>1. ClosedUnder(nx, {h} \cup R)
    BY WalkIsClosed DEF ClosedUnder
  <1>2. {h} \cup R \in SUBSET DOMAIN nx
    BY WalkIsClosed
  <1>3. Reachable(nx, h) \subseteq {h} \cup R
    BY <1>1, <1>2, WalkIsLeast
  <1>4. h \in Reachable(nx, h) /\ ClosedUnder(nx, Reachable(nx, h))
        /\ Reachable(nx, h) \in SUBSET DOMAIN nx
    BY WalkIsClosed
  <1>5. nx[h] \in DOMAIN nx => nx[h] \in Reachable(nx, h)
    BY <1>4 DEF ClosedUnder
  <1>6. R \subseteq Reachable(nx, h)
    BY <1>4, <1>5, WalkIsLeast
  <1> QED BY <1>3, <1>4, <1>6

(* The walk from a cell that was visited stays inside the walk.               *)
LEMMA WalkFromInside ==
    ASSUME NEW nx, NEW h, NEW c \in Reachable(nx, h)
    PROVE  Reachable(nx, c) \subseteq Reachable(nx, h)
  <1>1. ClosedUnder(nx, Reachable(nx, h)) /\ Reachable(nx, h) \in SUBSET DOMAIN nx
    BY WalkIsClosed
  <1> QED BY <1>1, WalkIsLeast

LEMMA NextFromInside ==
    ASSUME NEW nx, NEW h, NEW c \in Reachable(nx, h)
    PROVE  Reachable(nx, nx[c]) \subseteq Reachable(nx, h)
  <1>1. ClosedUnder(nx, Reachable(nx, h)) /\ Reachable(nx, h) \in SUBSET DOMAIN nx
    BY WalkIsClosed
  <1>2. nx[c] \in DOMAIN nx => nx[c] \in Reachable(nx, h)
    BY <1>1 DEF ClosedUnder
  <1> QED BY <1>1, <1>2, WalkIsLeast

(* A store to a cell that is not visited changes no walk.                     *)
LEMMA WalkIsLocal ==
    ASSUME NEW nx, NEW my, NEW h, DOMAIN my = DOMAIN nx,
           \A c \in Reachable(nx, h) : my[c] = nx[c]
    PROVE  /\ Reachable(my, h) = Reachable(nx, h)
           /\ \A c \in Reachable(nx, h) : Reachable(my, my[c]) = Reachable(nx, nx[c])
           /\ Acyclic(nx, h) => Acyclic(my, h)
  <1>1. ASSUME NEW g, \A c \in Reachable(nx, g) : my[c] = nx[c]
        PROVE  Reachable(my, g) = Reachable(nx, g)
    <2>1. /\ Reachable(nx, g) \in SUBSET DOMAIN my
          /\ g \in DOMAIN my => g \in Reachable(nx, g)
          /\ ClosedUnder(nx, Reachable(nx, g))
      BY WalkIsClosed
    <2>2. ClosedUnder(my, Reachable(nx, g))
      BY <1>1, <2>1 DEF ClosedUnder
    <2>3. Reachable(my, g) \subseteq Reachable(nx, g)
      BY <2>1, <2>2, WalkIsLeast
    <2>4. /\ Reachable(my, g) \in SUBSET DOMAIN nx
          /\ g \in DOMAIN nx => g \in Reachable(my, g)
          /\ ClosedUnder(my, Reachable(my, g))
      BY WalkIsClosed
    <2>5. ClosedUnder(nx, Reachable(my, g))
      BY <1>1, <2>3, <2>4 DEF ClosedUnder
    <2>6. Reachable(nx, g) \subseteq Reachable(my, g)
      BY <2>4, <2>5, WalkIsLeast
    <2> QED BY <2>3, <2>6
  <1>2. Reachable(my, h) = Reachable(nx, h)
    BY <1>1
  <1>3. ASSUME NEW c \in Reachable(nx, h) PROVE Reachable(my, my[c]) = Reachable(nx, nx[c])
    <2>1. \A d \in Reachable(nx, nx[c]) : my[d] = nx[d]
      BY NextFromInside
    <2> QED BY <2>1, <1>1
  <1> QED BY <1>2, <1>3 DEF Acyclic

(* Pushing a cell before a list it is not in.                                 *)
LEMMA PushCell ==
    ASSUME NEW nx, NEW h, NEW c \in DOMAIN nx, c \notin Reachable(nx, h), Acyclic(nx, h),
           NEW my, my = [nx EXCEPT ![c] = h]
    PROVE  /\ Reachable(my, c) = {c} \cup Reachable(nx, h)
           /\ Reachable(my, h) = Reachable(nx, h)
           /\ Acyclic(my, c)
  <1>1. DOMAIN my = DOMAIN nx /\ my[c] = h /\ \A d \in DOMAIN nx : d # c => my[d] = nx[d]
    OBVIOUS
  <1>2. Reachable(nx, h) \subseteq DOMAIN nx
    BY WalkIsClosed
  <1>3. \A d \in Reachable(nx, h) : my[d] = nx[d]
    BY <1>1, <1>2
  <1>4. Reachable(my, h) = Reachable(nx, h) /\ Acyclic(my, h)
    BY <1>1, <1>3, WalkIsLocal
  <1>5. Reachable(my, c) = {c} \cup Reachable(my, h)
    BY <1>1, WalkFromCell
  <1>6. c \notin Reachable(my, my[c])
    BY <1>1, <1>4
  <1> QED BY <1>4, <1>5, <1>6 DEF Acyclic

(* Taking the first cell of a list.                                           *)
LEMMA PopCell ==
    ASSUME NEW nx, NEW h \in DOMAIN nx, Acyclic(nx, h)
    PROVE  /\ h \in Reachable(nx, h)
           /\ Reachable(nx, nx[h]) = Reachable(nx, h) \ {h}
           /\ Acyclic(nx, nx[h])
  <1>1. Reachable(nx, h) = {h} \cup Reachable(nx, nx[h])
    BY WalkFromCell
  <1>2. h \notin Reachable(nx, nx[h])
    BY <1>1 DEF Acyclic
  <1> QED BY <1>1, <1>2 DEF Acyclic

(* The last cell of a list leads nowhere.                                     *)
LEMMA NullIsAcyclic ==
    ASSUME NEW nx, NEW h, h \notin DOMAIN nx
    PROVE  Reachable(nx, h) = {} /\ Acyclic(nx, h)
  BY WalkFromNull DEF Acyclic
(* Of two cells on a list one comes before the other.                         *)
LEMMA WalkIsLinear ==
    ASSUME NEW nx, NEW h, NEW c \in Reachable(nx, h), NEW d \in Reachable(nx, h)
    PROVE  d \in Reachable(nx, c) \/ c \in Reachable(nx, d)
  <1> DEFINE S == {x \in Reachable(nx, h) : c \in Reachable(nx, x)} \cup Reachable(nx, c)
  <1>1. /\ ClosedUnder(nx, Reachable(nx, h)) /\ Reachable(nx, h) \subseteq DOMAIN nx
        /\ h \in DOMAIN nx => h \in Reachable(nx, h)
        /\ ClosedUnder(nx, Reachable(nx, c)) /\ Reachable(nx, c) \subseteq DOMAIN nx
    BY WalkIsClosed
  <1>2. S \in SUBSET DOMAIN nx
    BY <1>1
  <1>3. h \in DOMAIN nx => h \in S
    BY <1>1
  <1>4. ASSUME NEW x \in S, nx[x] \in DOMAIN nx PROVE nx[x] \in S
    <2>1. CASE x \in Reachable(nx, c)
      BY <1>1, <1>4, <2>1 DEF ClosedUnder
    <2>2. CASE x \notin Reachable(nx, c)
      <3>1. x \in Reachable(nx, h) /\ c \in Reachable(nx, x) /\ x \in DOMAIN nx
        BY <1>1, <2>2
      <3>2. x # c
        BY <1>1, <2>2, <3>1, WalkIsClosed
      <3>3. c \in Reachable(nx, nx[x])
        BY <3>1, <3>2, WalkFromCell
      <3> QED BY <1>1, <1>4, <3>1, <3>3 DEF ClosedUnder
    <2> QED BY <2>1, <2>2
  <1>5. Reachable(nx, h) \subseteq S
    BY <1>2, <1>3, <1>4, WalkIsLeast DEF ClosedUnder
  <1> QED BY <1>5

(* A cell of a list has one predecessor, and the first has none.              *)
LEMMA OnePredecessor ==
    ASSUME NEW nx, NEW h, Acyclic(nx, h), NEW c \in Reachable(nx, h), NEW d \in Reachable(nx, h),
           nx[c] = nx[d], nx[c] \in DOMAIN nx
    PROVE  c = d
  <1>1. ASSUME NEW x \in Reachable(nx, h), NEW y \in Reachable(nx, h), nx[x] = nx[y],
               y \in Reachable(nx, x), x # y
        PROVE  FALSE
    <2>1. x \in DOMAIN nx
      BY WalkIsClosed
    <2>2. y \in Reachable(nx, nx[x])
      BY <1>1, <2>1, WalkFromCell
    <2> QED BY <1>1, <2>2 DEF Acyclic
  <1>2. d \in Reachable(nx, c) \/ c \in Reachable(nx, d)
    BY WalkIsLinear
  <1> QED BY <1>1, <1>2

LEMMA HeadHasNone ==
    ASSUME NEW nx, NEW h, Acyclic(nx, h), NEW c \in Reachable(nx, h), nx[c] \in DOMAIN nx
    PROVE  nx[c] # h
  BY DEF Acyclic

(* Taking out a cell that is not the first.                                   *)
LEMMA UnlinkCell ==
    ASSUME NEW nx, NEW my, NEW h, NEW s \in Reachable(nx, h), s # h, Acyclic(nx, h),
           DOMAIN my = DOMAIN nx, h \in DOMAIN nx,
           my[s] \notin DOMAIN nx,
           \A x \in Reachable(nx, h) \ {s} : my[x] = IF nx[x] = s THEN nx[s] ELSE nx[x]
    PROVE  Reachable(my, h) = Reachable(nx, h) \ {s} /\ Acyclic(my, h)
  <1> DEFINE R == Reachable(nx, h)
  <1> DEFINE Q == Reachable(my, h)
  <1>1. ClosedUnder(nx, R) /\ R \subseteq DOMAIN nx /\ h \in R
    BY WalkIsClosed
  <1>2. ClosedUnder(my, Q) /\ Q \subseteq DOMAIN nx /\ h \in Q
    BY WalkIsClosed
  <1>3. nx[s] # s
    BY <1>1, WalkIsClosed DEF Acyclic
  <1>4. ClosedUnder(my, R \ {s})
    BY <1>1, <1>3 DEF ClosedUnder
  <1>5. Q \subseteq R \ {s}
    BY <1>1, <1>4, WalkIsLeast
  <1>6. PICK p \in Q : nx[p] = s
    <2>1. SUFFICES ASSUME \A p \in Q : nx[p] # s PROVE FALSE
      OBVIOUS
    <2>2. ClosedUnder(nx, Q)
      BY <1>2, <1>5, <2>1 DEF ClosedUnder
    <2>3. R \subseteq Q
      BY <1>2, <2>2, WalkIsLeast
    <2> QED BY <1>5, <2>3
  <1>7. my[p] = nx[s]
    BY <1>5, <1>6
  <1>8. ClosedUnder(nx, Q \cup {s})
    <2>1. nx[s] \in DOMAIN nx => nx[s] \in Q
      BY <1>2, <1>6, <1>7 DEF ClosedUnder
    <2>2. ASSUME NEW x \in Q, nx[x] \in DOMAIN nx PROVE nx[x] \in Q \cup {s}
      BY <1>2, <1>5, <2>2 DEF ClosedUnder
    <2> QED BY <2>1, <2>2 DEF ClosedUnder
  <1>9. R \subseteq Q \cup {s}
    BY <1>1, <1>2, <1>8, WalkIsLeast
  <1>10. ASSUME NEW c \in Q PROVE c \notin Reachable(my, my[c])
    <2>1. c \in R \ {s} /\ c \in DOMAIN nx
      BY <1>1, <1>5
    <2>2. c \notin Reachable(nx, nx[c]) /\ Reachable(nx, nx[c]) \subseteq R
      BY <2>1, NextFromInside DEF Acyclic
    <2>3. /\ ClosedUnder(nx, Reachable(nx, nx[c])) /\ Reachable(nx, nx[c]) \subseteq DOMAIN my
          /\ nx[c] \in DOMAIN nx => nx[c] \in Reachable(nx, nx[c])
      BY WalkIsClosed
    <2>4. ClosedUnder(my, Reachable(nx, nx[c]))
      <3> SUFFICES ASSUME NEW x \in Reachable(nx, nx[c]), my[x] \in DOMAIN my
                   PROVE  my[x] \in Reachable(nx, nx[c])
        BY DEF ClosedUnder
      <3>1. x \in R \ {s}
        BY <2>2
      <3>2. CASE nx[x] = s
        <4>1. s \in Reachable(nx, nx[c]) /\ my[x] = nx[s]
          BY <1>1, <2>3, <3>1, <3>2 DEF ClosedUnder
        <4> QED BY <2>3, <4>1 DEF ClosedUnder
      <3>3. CASE nx[x] # s
        BY <2>3, <3>1, <3>3 DEF ClosedUnder
      <3> QED BY <3>2, <3>3
    <2>5. my[c] \in DOMAIN my => my[c] \in Reachable(nx, nx[c])
      <3>1. CASE nx[c] = s
        BY <1>1, <2>1, <2>3, <3>1 DEF ClosedUnder
      <3>2. CASE nx[c] # s
        BY <2>1, <2>3, <3>2
      <3> QED BY <3>1, <3>2
    <2>6. Reachable(my, my[c]) \subseteq Reachable(nx, nx[c])
      BY <2>3, <2>4, <2>5, WalkIsLeast
    <2> QED BY <2>2, <2>6
  <1> QED BY <1>5, <1>9, <1>10 DEF Acyclic
LEMMA HasPredecessor ==
    ASSUME NEW nx, NEW h, NEW s \in Reachable(nx, h), s # h
    PROVE  \E c \in Reachable(nx, h) : nx[c] = s
  <1> DEFINE R == Reachable(nx, h)
  <1>1. SUFFICES ASSUME \A c \in R : nx[c] # s PROVE FALSE
    OBVIOUS
  <1>2. ClosedUnder(nx, R) /\ R \subseteq DOMAIN nx /\ (h \in DOMAIN nx => h \in R)
    BY WalkIsClosed
  <1>3. ClosedUnder(nx, R \ {s})
    BY <1>1, <1>2 DEF ClosedUnder
  <1>4. R \subseteq R \ {s}
    BY <1>2, <1>3, WalkIsLeast
  <1> QED BY <1>4
-----------------------------------------------------------------------------
(* Lists as sequences of cells.                                               *)

(* l is the list of the cells from p on.                                      *)
IsChain(nx, p, l) ==
    /\ l \in Seq(DOMAIN nx)
    /\ IF l = <<>> THEN p \notin DOMAIN nx ELSE p = l[1] /\ nx[l[Len(l)]] \notin DOMAIN nx
    /\ \A i \in 1..(Len(l) - 1) : nx[l[i]] = l[i + 1]

(* The cells of a list, and a list that has none of them twice.               *)
Items(l) == {l[i] : i \in 1..Len(l)}
Once(l) == \A i, j \in 1..Len(l) : l[i] = l[j] => i = j

LEMMA ConsIs ==
    ASSUME NEW S, NEW l \in Seq(S), NEW c \in S
    PROVE  /\ <<c>> \o l \in Seq(S) /\ Len(<<c>> \o l) = Len(l) + 1 /\ Len(l) \in Nat
           /\ (<<c>> \o l)[1] = c /\ <<c>> \o l # <<>>
           /\ \A i \in 1..Len(l) : (<<c>> \o l)[i + 1] = l[i]
           /\ \A i \in 2..(Len(l) + 1) : i - 1 \in 1..Len(l) /\ (<<c>> \o l)[i] = l[i - 1]
           /\ Items(<<c>> \o l) = {c} \cup Items(l)
  <1> DEFINE r == <<c>> \o l
  <1>1. <<c>> \in Seq(S) /\ Len(<<c>>) = 1 /\ <<c>>[1] = c
    OBVIOUS
  <1>2. /\ r \in Seq(S) /\ Len(l) \in Nat /\ Len(r) = Len(l) + 1
        /\ \A i \in 1..Len(r) : r[i] = IF i <= 1 THEN c ELSE l[i - 1]
    BY <1>1, ConcatProperties, LenProperties
  <1> HIDE DEF r
  <1>3. /\ r[1] = c /\ r # <<>> /\ \A i \in 1..Len(l) : r[i + 1] = l[i]
        /\ \A i \in 2..(Len(l) + 1) : i - 1 \in 1..Len(l) /\ r[i] = l[i - 1]
    BY <1>2, EmptySeq
  <1>4. Items(r) = {c} \cup Items(l)
    <2>1. ASSUME NEW i \in 1..Len(r) PROVE r[i] \in {c} \cup Items(l)
      <3>1. i = 1 \/ i \in 2..(Len(l) + 1)
        BY <1>2
      <3> QED BY <1>3, <3>1 DEF Items
    <2>2. c \in Items(r)
      BY <1>2, <1>3 DEF Items
    <2>3. ASSUME NEW i \in 1..Len(l) PROVE l[i] \in Items(r)
      <3>1. i + 1 \in 1..Len(r) /\ r[i + 1] = l[i]
        BY <1>2, <1>3
      <3> QED BY <3>1 DEF Items
    <2> QED BY <2>1, <2>2, <2>3 DEF Items
  <1> QED BY <1>2, <1>3, <1>4 DEF r

LEMMA TailOf ==
    ASSUME NEW S, NEW l \in Seq(S), l # <<>>
    PROVE  /\ Tail(l) \in Seq(S) /\ Len(Tail(l)) = Len(l) - 1 /\ Len(l) \in Nat \ {0}
           /\ l[1] \in S /\ Head(l) = l[1]
           /\ \A i \in 1..(Len(l) - 1) : Tail(l)[i] = l[i + 1]
           /\ Items(l) = {l[1]} \cup Items(Tail(l))
           /\ Once(l) => Once(Tail(l)) /\ l[1] \notin Items(Tail(l))
  <1> DEFINE r == Tail(l)
  <1>1. /\ r \in Seq(S) /\ Len(l) \in Nat \ {0} /\ Len(r) = Len(l) - 1
        /\ Head(l) = l[1] /\ l[1] \in S
        /\ \A i \in 1..Len(r) : r[i] = l[i + 1]
    BY HeadTailProperties, LenProperties, EmptySeq
  <1> HIDE DEF r
  <1>2. Items(l) = {l[1]} \cup Items(r)
    <2>1. ASSUME NEW i \in 1..Len(l), i # 1 PROVE l[i] \in Items(r)
      <3>1. i - 1 \in 1..Len(r) /\ (i - 1) + 1 = i
        BY <1>1, <2>1
      <3>2. r[i - 1] = l[i]
        BY <1>1, <3>1
      <3> QED BY <3>1, <3>2 DEF Items
    <2>2. ASSUME NEW i \in 1..Len(r) PROVE r[i] \in Items(l)
      <3>1. i + 1 \in 1..Len(l) /\ r[i] = l[i + 1]
        BY <1>1
      <3> QED BY <3>1 DEF Items
    <2>3. l[1] \in Items(l)
      BY <1>1 DEF Items
    <2> QED BY <2>1, <2>2, <2>3 DEF Items
  <1>3. ASSUME Once(l) PROVE Once(r) /\ l[1] \notin Items(r)
    <2>1. ASSUME NEW i \in 1..Len(r), NEW j \in 1..Len(r), r[i] = r[j] PROVE i = j
      <3>1. i + 1 \in 1..Len(l) /\ j + 1 \in 1..Len(l) /\ l[i + 1] = l[j + 1]
        BY <1>1, <2>1
      <3>2. i + 1 = j + 1
        BY <1>3, <3>1 DEF Once
      <3> QED BY <3>2
    <2>2. ASSUME NEW i \in 1..Len(r), r[i] = l[1] PROVE FALSE
      <3>1. i + 1 \in 1..Len(l) /\ 1 \in 1..Len(l) /\ l[i + 1] = l[1]
        BY <1>1, <2>2
      <3>2. i + 1 = 1
        BY <1>3, <3>1 DEF Once
      <3> QED BY <3>2
    <2> QED BY <2>1, <2>2 DEF Once, Items
  <1> QED BY <1>1, <1>2, <1>3 DEF r

LEMMA AppendIs ==
    ASSUME NEW S, NEW l \in Seq(S), NEW c \in S
    PROVE  /\ Append(l, c) \in Seq(S) /\ Len(Append(l, c)) = Len(l) + 1 /\ Len(l) \in Nat
           /\ \A i \in 1..Len(l) : Append(l, c)[i] = l[i]
           /\ Append(l, c)[Len(l) + 1] = c /\ Append(l, c) # <<>>
           /\ Items(Append(l, c)) = Items(l) \cup {c}
           /\ Once(l) /\ c \notin Items(l) => Once(Append(l, c))
  <1> DEFINE r == Append(l, c)
  <1>1. /\ r \in Seq(S) /\ Len(l) \in Nat /\ Len(r) = Len(l) + 1
        /\ \A i \in 1..Len(l) : r[i] = l[i]
        /\ r[Len(l) + 1] = c
    OBVIOUS
  <1> HIDE DEF r
  <1>2. r # <<>>
    BY <1>1, EmptySeq
  <1>3. \A i \in 1..Len(r) : i \in 1..Len(l) \/ i = Len(l) + 1
    BY <1>1
  <1>4. 1..Len(l) \subseteq 1..Len(r) /\ Len(l) + 1 \in 1..Len(r)
    BY <1>1
  <1>5. Items(r) = Items(l) \cup {c}
    BY <1>1, <1>3, <1>4 DEF Items
  <1>6. Once(l) /\ c \notin Items(l) => Once(r)
    BY <1>1, <1>3, <1>4 DEF Items, Once
  <1> QED BY <1>1, <1>2, <1>5, <1>6 DEF r

(* Pushing, popping and appending a cell, and stores elsewhere.               *)
LEMMA ChainCons ==
    ASSUME NEW nx, NEW p, NEW l, IsChain(nx, p, l), NEW c \in DOMAIN nx, nx[c] = p
    PROVE  IsChain(nx, c, <<c>> \o l)
  <1> DEFINE r == <<c>> \o l
  <1>1. l \in Seq(DOMAIN nx)
    BY DEF IsChain
  <1>2. /\ r \in Seq(DOMAIN nx) /\ Len(r) = Len(l) + 1 /\ Len(l) \in Nat /\ r[1] = c /\ r # <<>>
        /\ \A i \in 1..Len(l) : r[i + 1] = l[i]
        /\ \A i \in 2..(Len(l) + 1) : i - 1 \in 1..Len(l) /\ r[i] = l[i - 1]
    BY <1>1, ConsIs
  <1> HIDE DEF r
  <1>3. CASE l = <<>>
    <2>1. Len(l) = 0 /\ p \notin DOMAIN nx
      BY <1>3 DEF IsChain
    <2> QED BY <1>2, <2>1 DEF IsChain, r
  <1>4. CASE l # <<>>
    <2>1. /\ p = l[1] /\ nx[l[Len(l)]] \notin DOMAIN nx /\ Len(l) \in Nat \ {0}
          /\ \A i \in 1..(Len(l) - 1) : nx[l[i]] = l[i + 1]
      BY <1>1, <1>4, EmptySeq DEF IsChain
    <2>2. nx[r[Len(r)]] \notin DOMAIN nx
      BY <1>2, <2>1
    <2>3. ASSUME NEW i \in 1..(Len(r) - 1) PROVE nx[r[i]] = r[i + 1]
      <3>1. CASE i = 1
        BY <1>2, <2>1, <3>1
      <3>2. CASE i # 1
        <4>1. i - 1 \in 1..(Len(l) - 1) /\ (i - 1) + 1 = i /\ i \in 2..(Len(l) + 1)
              /\ i \in 1..Len(l)
          BY <1>2, <3>2
        <4>2. r[i] = l[i - 1] /\ r[i + 1] = l[i] /\ nx[l[i - 1]] = l[i]
          BY <1>2, <2>1, <4>1
        <4> QED BY <4>2
      <3> QED BY <3>1, <3>2
    <2> QED BY <1>2, <2>2, <2>3 DEF IsChain, r
  <1> QED BY <1>3, <1>4

LEMMA ChainTail ==
    ASSUME NEW nx, NEW p, NEW l, IsChain(nx, p, l), l # <<>>
    PROVE  p \in DOMAIN nx /\ p = l[1] /\ IsChain(nx, nx[p], Tail(l))
  <1> DEFINE r == Tail(l)
  <1>1. /\ l \in Seq(DOMAIN nx) /\ p = l[1] /\ nx[l[Len(l)]] \notin DOMAIN nx
        /\ \A i \in 1..(Len(l) - 1) : nx[l[i]] = l[i + 1]
    BY DEF IsChain
  <1>2. /\ r \in Seq(DOMAIN nx) /\ Len(r) = Len(l) - 1 /\ Len(l) \in Nat \ {0}
        /\ l[1] \in DOMAIN nx /\ \A i \in 1..(Len(l) - 1) : r[i] = l[i + 1]
    BY <1>1, TailOf
  <1> HIDE DEF r
  <1>3. CASE Len(l) = 1
    <2>1. r = <<>> /\ nx[p] \notin DOMAIN nx /\ Len(r) = 0
      BY <1>1, <1>2, <1>3, EmptySeq
    <2>2. IsChain(nx, nx[p], r)
      BY <1>2, <2>1 DEF IsChain
    <2> QED BY <1>1, <1>2, <2>2 DEF r
  <1>4. CASE Len(l) # 1
    <2>1. r # <<>> /\ nx[p] = r[1]
      BY <1>1, <1>2, <1>4, EmptySeq
    <2>2. nx[r[Len(r)]] \notin DOMAIN nx
      BY <1>1, <1>2, <1>4
    <2>3. ASSUME NEW i \in 1..(Len(r) - 1) PROVE nx[r[i]] = r[i + 1]
      BY <1>1, <1>2
    <2>4. IsChain(nx, nx[p], r)
      BY <1>2, <2>1, <2>2, <2>3 DEF IsChain
    <2> QED BY <1>1, <1>2, <2>4 DEF r
  <1> QED BY <1>3, <1>4

LEMMA ChainAppend ==
    ASSUME NEW nx, NEW p, NEW l, IsChain(nx, p, l), l # <<>>, Once(l),
           NEW c \in DOMAIN nx, c \notin Items(l), nx[c] \notin DOMAIN nx,
           NEW my, my = [nx EXCEPT ![l[Len(l)]] = c]
    PROVE  IsChain(my, p, Append(l, c))
  <1> DEFINE r == Append(l, c)
  <1>1. /\ l \in Seq(DOMAIN nx) /\ p = l[1] /\ nx[l[Len(l)]] \notin DOMAIN nx
        /\ \A i \in 1..(Len(l) - 1) : nx[l[i]] = l[i + 1]
        /\ Len(l) \in Nat \ {0}
    BY EmptySeq DEF IsChain
  <1>2. /\ r \in Seq(DOMAIN nx) /\ Len(r) = Len(l) + 1
        /\ \A i \in 1..Len(l) : r[i] = l[i]
        /\ r[Len(l) + 1] = c /\ r # <<>>
    BY <1>1, AppendIs
  <1> HIDE DEF r
  <1>3. /\ DOMAIN my = DOMAIN nx /\ \A i \in 1..Len(l) : l[i] \in DOMAIN nx
        /\ \A x \in DOMAIN nx : my[x] = IF x = l[Len(l)] THEN c ELSE nx[x]
    BY <1>1, ElementOfSeq
  <1>4. my[c] \notin DOMAIN my
    BY <1>1, <1>3 DEF Items
  <1>5. ASSUME NEW i \in 1..(Len(r) - 1) PROVE my[r[i]] = r[i + 1]
    <2>1. CASE i = Len(l)
      BY <1>1, <1>2, <1>3, <2>1
    <2>2. CASE i # Len(l)
      <3>1. i \in 1..(Len(l) - 1) /\ i + 1 \in 1..Len(l) /\ i \in 1..Len(l) /\ Len(l) \in 1..Len(l)
        BY <1>1, <1>2, <2>2
      <3>2. l[i] # l[Len(l)]
        BY <2>2, <3>1 DEF Once
      <3> QED BY <1>1, <1>2, <1>3, <3>1, <3>2
    <2> QED BY <2>1, <2>2
  <1>6. p = r[1] /\ my[r[Len(r)]] \notin DOMAIN my /\ r \in Seq(DOMAIN my)
    BY <1>1, <1>2, <1>3, <1>4
  <1> QED BY <1>2, <1>5, <1>6 DEF IsChain, r

LEMMA ChainLocal ==
    ASSUME NEW nx, NEW p, NEW l, IsChain(nx, p, l), NEW my, DOMAIN my = DOMAIN nx,
           \A c \in Items(l) : my[c] = nx[c]
    PROVE  IsChain(my, p, l)
  <1>1. l \in Seq(DOMAIN nx) /\ Len(l) \in Nat /\ (l # <<>> => Len(l) \in Nat \ {0})
    BY EmptySeq, LenProperties DEF IsChain
  <1>2. \A i \in 1..Len(l) : my[l[i]] = nx[l[i]]
    BY DEF Items
  <1>3. l # <<>> => my[l[Len(l)]] = nx[l[Len(l)]]
    BY <1>1, <1>2
  <1> QED BY <1>1, <1>2, <1>3 DEF IsChain

LEMMA NullChain ==
    ASSUME NEW nx, NEW p, p \notin DOMAIN nx
    PROVE  /\ IsChain(nx, p, <<>>)
           /\ \A l : IsChain(nx, p, l) => l = <<>>
  <1>1. IsChain(nx, p, <<>>)
    BY DEF IsChain
  <1>2. ASSUME NEW l, IsChain(nx, p, l), l # <<>> PROVE FALSE
    BY <1>2, ChainTail
  <1> QED BY <1>1, <1>2
-----------------------------------------------------------------------------
(* Several lists: the first cells are hd, no two lists share a cell and none  *)
(* has a cell twice.                                                          *)
Apart(L) ==
    /\ \A p \in DOMAIN L : Once(L[p])
    /\ \A p, r \in DOMAIN L : p # r => Items(L[p]) \cap Items(L[r]) = {}
Laid(nx, hd, L) ==
    DOMAIN hd = DOMAIN L /\ Apart(L) /\ \A p \in DOMAIN L : IsChain(nx, hd[p], L[p])
CellsIn(L) == UNION {Items(L[p]) : p \in DOMAIN L}

LEMMA InCells ==
    ASSUME NEW L, NEW c
    PROVE  c \in CellsIn(L) <=> \E p \in DOMAIN L : c \in Items(L[p])
  BY DEF CellsIn

(* m is f but for its value at p.                                             *)
Repl(f, m, p, x) ==
    DOMAIN m = DOMAIN f /\ \A r \in DOMAIN f : m[r] = IF r = p THEN x ELSE f[r]

(* The cells of L when l is in the place of L[p].                             *)
Swapped(L, p, l) == (CellsIn(L) \ Items(L[p])) \cup Items(l)

(* In my the list l from x on may be put in the place of L[p].                *)
Fits(nx, L, my, p, x, l) ==
    /\ p \in DOMAIN L /\ DOMAIN my = DOMAIN nx /\ IsChain(my, x, l) /\ Once(l)
    /\ \A r \in DOMAIN L \ {p} :
        Items(l) \cap Items(L[r]) = {} /\ \A c \in Items(L[r]) : my[c] = nx[c]

(* One list is replaced by another, of its own cells and new ones.            *)
Replaced(nx, hd, L, my, hm, M, p, x, l) ==
    /\ Laid(nx, hd, L) /\ Fits(nx, L, my, p, x, l)
    /\ Repl(hd, hm, p, x) /\ Repl(L, M, p, l)
LEMMA LaidSet ==
    ASSUME NEW nx, NEW hd, NEW L, NEW my, NEW hm, NEW M, NEW p, NEW x, NEW l,
           Replaced(nx, hd, L, my, hm, M, p, x, l)
    PROVE  /\ Laid(my, hm, M)
           /\ CellsIn(M) = Swapped(L, p, l)
  <1>6. /\ Laid(nx, hd, L) /\ Fits(nx, L, my, p, x, l)
        /\ Repl(hd, hm, p, x) /\ Repl(L, M, p, l)
    BY DEF Replaced
  <1>1. /\ DOMAIN M = DOMAIN L /\ DOMAIN hm = DOMAIN L
        /\ \A r \in DOMAIN L : M[r] = IF r = p THEN l ELSE L[r]
        /\ \A r \in DOMAIN L : hm[r] = IF r = p THEN x ELSE hd[r]
    BY <1>6 DEF Laid, Repl, Fits
  <1>2. Apart(M)
    BY <1>1, <1>6 DEF Laid, Apart, Fits
  <1>3. ASSUME NEW r \in DOMAIN L PROVE IsChain(my, hm[r], M[r])
    <2>1. CASE r = p
      BY <1>1, <1>6, <2>1 DEF Fits
    <2>2. CASE r # p
      <3>1. IsChain(nx, hd[r], L[r]) /\ \A c \in Items(L[r]) : my[c] = nx[c]
        BY <1>6, <2>2 DEF Laid, Fits
      <3> QED BY <1>1, <2>2, <1>6, <3>1, ChainLocal DEF Fits
    <2> QED BY <2>1, <2>2
  <1>4. Laid(my, hm, M)
    BY <1>1, <1>2, <1>3, <1>6 DEF Laid, Fits
  <1>5. ASSUME NEW c PROVE c \in CellsIn(M) <=> c \in (CellsIn(L) \ Items(L[p])) \cup Items(l)
    <2>1. c \in CellsIn(M) <=> c \in Items(l) \/ \E r \in DOMAIN L \ {p} : c \in Items(L[r])
      BY <1>1, <1>6, InCells DEF Fits
    <2>2. c \in CellsIn(L) \ Items(L[p]) <=> \E r \in DOMAIN L \ {p} : c \in Items(L[r])
      BY <1>6, InCells DEF Laid, Apart, Fits
    <2> QED BY <2>1, <2>2
  <1> QED BY <1>4, <1>5 DEF Swapped

LEMMA LaidStore ==
    ASSUME NEW nx, NEW hd, NEW L, Laid(nx, hd, L), NEW c, c \notin CellsIn(L), NEW x
    PROVE  Laid([nx EXCEPT ![c] = x], hd, L)
  <1> DEFINE my == [nx EXCEPT ![c] = x]
  <1>1. DOMAIN my = DOMAIN nx /\ \A d \in CellsIn(L) : d \in DOMAIN nx => my[d] = nx[d]
    OBVIOUS
  <1> HIDE DEF my
  <1>2. ASSUME NEW p \in DOMAIN L PROVE IsChain(my, hd[p], L[p])
    <2>1. IsChain(nx, hd[p], L[p]) /\ Items(L[p]) \subseteq CellsIn(L)
      BY InCells DEF Laid
    <2>2. Items(L[p]) \subseteq DOMAIN nx
      BY <2>1, ElementOfSeq DEF Items, IsChain
    <2>3. \A d \in Items(L[p]) : my[d] = nx[d]
      BY <1>1, <2>1, <2>2
    <2> QED BY <1>1, <2>1, <2>3, ChainLocal
  <1> QED BY <1>2 DEF Laid, my

(* The first cell of the list at p is taken away.                             *)
Popped(nx, hd, L, p, l, t, hm, M) ==
    /\ Laid(nx, hd, L) /\ p \in DOMAIN L /\ l = L[p] /\ l # <<>> /\ t = Tail(l)
    /\ Repl(hd, hm, p, nx[hd[p]]) /\ Repl(L, M, p, t)

LEMMA LaidPop ==
    ASSUME NEW nx, NEW hd, NEW L, NEW p, NEW l, NEW t, NEW hm, NEW M,
           Popped(nx, hd, L, p, l, t, hm, M)
    PROVE  /\ hd[p] = l[1] /\ hd[p] \in DOMAIN nx /\ hd[p] \in CellsIn(L)
           /\ Laid(nx, hm, M) /\ CellsIn(M) = CellsIn(L) \ {hd[p]}
  <1>0. /\ Laid(nx, hd, L) /\ p \in DOMAIN L /\ l = L[p] /\ l # <<>> /\ t = Tail(l)
        /\ Repl(hd, hm, p, nx[hd[p]]) /\ Repl(L, M, p, t)
    BY DEF Popped
  <1>1. IsChain(nx, hd[p], l) /\ Once(l) /\ l \in Seq(DOMAIN nx)
    BY <1>0 DEF Laid, Apart, IsChain
  <1>2. hd[p] \in DOMAIN nx /\ hd[p] = l[1] /\ IsChain(nx, nx[hd[p]], t)
    BY <1>0, <1>1, ChainTail
  <1>3. Items(l) = {l[1]} \cup Items(t) /\ Once(t) /\ l[1] \notin Items(t)
    BY <1>0, <1>1, TailOf
  <1>4. \A r \in DOMAIN L \ {p} : Items(t) \cap Items(L[r]) = {}
    BY <1>0, <1>3 DEF Laid, Apart
  <1>9. Fits(nx, L, nx, p, nx[hd[p]], t)
    BY <1>0, <1>2, <1>3, <1>4 DEF Fits
  <1>5. Laid(nx, hm, M) /\ CellsIn(M) = Swapped(L, p, t)
    <2>1. Replaced(nx, hd, L, nx, hm, M, p, nx[hd[p]], t)
      BY <1>0, <1>9 DEF Replaced
    <2> QED BY <2>1, LaidSet
  <1>6. Items(l) \subseteq CellsIn(L)
    BY <1>0, InCells
  <1>7. CellsIn(M) = CellsIn(L) \ {hd[p]} /\ hd[p] \in CellsIn(L)
    BY <1>0, <1>2, <1>3, <1>5, <1>6 DEF Swapped
  <1> QED BY <1>0, <1>2, <1>5, <1>7

(* The cell c is put before the list at p.                                    *)
Headed(nx, hd, L, p, l, c, r, hm, M) ==
    /\ Laid(nx, hd, L) /\ p \in DOMAIN L /\ l = L[p]
    /\ c \in DOMAIN nx /\ c \notin CellsIn(L) /\ nx[c] = hd[p]
    /\ r = <<c>> \o l /\ Repl(hd, hm, p, c) /\ Repl(L, M, p, r)

LEMMA LaidPush ==
    ASSUME NEW nx, NEW hd, NEW L, NEW p, NEW l, NEW c, NEW r, NEW hm, NEW M,
           Headed(nx, hd, L, p, l, c, r, hm, M)
    PROVE  Laid(nx, hm, M) /\ CellsIn(M) = CellsIn(L) \cup {c}
  <1>0. /\ Laid(nx, hd, L) /\ p \in DOMAIN L /\ l = L[p]
        /\ c \in DOMAIN nx /\ c \notin CellsIn(L) /\ nx[c] = hd[p]
        /\ r = <<c>> \o l /\ Repl(hd, hm, p, c) /\ Repl(L, M, p, r)
    BY DEF Headed
  <1>1. IsChain(nx, hd[p], l) /\ Once(l) /\ l \in Seq(DOMAIN nx)
    BY <1>0 DEF Laid, Apart, IsChain
  <1>2. IsChain(nx, c, r)
    BY <1>0, <1>1, ChainCons
  <1>3. /\ r[1] = c /\ Len(r) = Len(l) + 1 /\ Len(l) \in Nat /\ Items(r) = {c} \cup Items(l)
        /\ \A i \in 2..(Len(l) + 1) : i - 1 \in 1..Len(l) /\ r[i] = l[i - 1]
    BY <1>0, <1>1, ConsIs
  <1>4. \A d \in Items(l) : d \in CellsIn(L) /\ d # c
    BY <1>0, InCells
  <1>5. Once(r)
    <2> SUFFICES ASSUME NEW i \in 1..Len(r), NEW j \in 1..Len(r), r[i] = r[j], i # j PROVE FALSE
      BY DEF Once
    <2>1. ASSUME NEW k \in 1..Len(r), k # 1
          PROVE  k - 1 \in 1..Len(l) /\ r[k] = l[k - 1] /\ r[k] # c
      <3>1. k \in 2..(Len(l) + 1)
        BY <1>0, <1>3, <2>1
      <3>2. k - 1 \in 1..Len(l) /\ r[k] = l[k - 1]
        BY <1>0, <1>3, <3>1
      <3> QED BY <1>4, <3>2 DEF Items
    <2>2. i # 1 /\ j # 1
      BY <1>0, <1>3, <2>1
    <2>4. i - 1 \in 1..Len(l) /\ j - 1 \in 1..Len(l) /\ l[i - 1] = l[j - 1]
      BY <2>1, <2>2
    <2>3. i - 1 = j - 1
      BY <1>0, <1>1, <2>4 DEF Once
    <2> QED BY <2>3
  <1>6. \A s \in DOMAIN L \ {p} : Items(r) \cap Items(L[s]) = {}
    BY <1>0, <1>3, InCells DEF Laid, Apart
  <1>9. Fits(nx, L, nx, p, c, r)
    BY <1>0, <1>2, <1>5, <1>6 DEF Fits
  <1>7. Laid(nx, hm, M) /\ CellsIn(M) = Swapped(L, p, r)
    <2>1. Replaced(nx, hd, L, nx, hm, M, p, c, r)
      BY <1>0, <1>9 DEF Replaced
    <2> QED BY <2>1, LaidSet
  <1>8. CellsIn(M) = CellsIn(L) \cup {c}
    BY <1>0, <1>3, <1>7, InCells DEF Swapped
  <1> QED BY <1>7, <1>8

(* The cell c is put behind the list at p.                                    *)
Appended(nx, hd, L, p, l, c, r, e, my, M) ==
    /\ Laid(nx, hd, L) /\ p \in DOMAIN L /\ l = L[p] /\ l # <<>> /\ e = l[Len(l)]
    /\ c \in DOMAIN nx /\ c \notin CellsIn(L) /\ nx[c] \notin DOMAIN nx
    /\ my = [nx EXCEPT ![e] = c] /\ r = Append(l, c) /\ Repl(L, M, p, r)

LEMMA LaidAppend ==
    ASSUME NEW nx, NEW hd, NEW L, NEW p, NEW l, NEW c, NEW r, NEW e, NEW my, NEW M,
           Appended(nx, hd, L, p, l, c, r, e, my, M)
    PROVE  /\ e \in CellsIn(L)
           /\ Laid(my, hd, M) /\ CellsIn(M) = CellsIn(L) \cup {c}
  <1>0. /\ Laid(nx, hd, L) /\ p \in DOMAIN L /\ l = L[p] /\ l # <<>> /\ e = l[Len(l)]
        /\ c \in DOMAIN nx /\ c \notin CellsIn(L) /\ nx[c] \notin DOMAIN nx
        /\ my = [nx EXCEPT ![e] = c] /\ r = Append(l, c) /\ Repl(L, M, p, r)
    BY DEF Appended
  <1>1. IsChain(nx, hd[p], l) /\ Once(l) /\ l \in Seq(DOMAIN nx) /\ Len(l) \in Nat \ {0}
    BY <1>0, EmptySeq DEF Laid, Apart, IsChain
  <1>2. e \in Items(l) /\ \A d \in Items(l) : d \in CellsIn(L) /\ d # c
    BY <1>0, <1>1, InCells DEF Items
  <1>3. IsChain(my, hd[p], r)
    BY <1>0, <1>1, <1>2, ChainAppend
  <1>4. Items(r) = Items(l) \cup {c} /\ Once(r)
    BY <1>0, <1>1, <1>2, AppendIs
  <1>5. DOMAIN my = DOMAIN nx /\ \A d \in DOMAIN nx : d # e => my[d] = nx[d]
    BY <1>0
  <1>6. ASSUME NEW s \in DOMAIN L \ {p}
        PROVE  /\ Items(r) \cap Items(L[s]) = {} /\ \A d \in Items(L[s]) : my[d] = nx[d]
    <2>1. Items(L[s]) \cap Items(l) = {} /\ c \notin Items(L[s])
      BY <1>0, <1>6, InCells DEF Laid, Apart
    <2>2. Items(L[s]) \subseteq DOMAIN nx
      BY <1>0, <1>6, ElementOfSeq DEF Items, Laid, IsChain
    <2> QED BY <1>0, <1>2, <1>4, <1>5, <2>1, <2>2
  <1>7. Repl(hd, hd, p, hd[p])
    BY <1>0 DEF Repl, Laid
  <1>8. Laid(my, hd, M) /\ CellsIn(M) = Swapped(L, p, r)
    <2>1. Fits(nx, L, my, p, hd[p], r)
      BY <1>0, <1>3, <1>4, <1>5, <1>6 DEF Fits
    <2>2. Replaced(nx, hd, L, my, hd, M, p, hd[p], r)
      BY <1>0, <1>7, <2>1 DEF Replaced
    <2> QED BY <2>2, LaidSet
  <1>9. CellsIn(M) = CellsIn(L) \cup {c}
    BY <1>0, <1>2, <1>4, <1>8 DEF Swapped
  <1> QED BY <1>0, <1>2, <1>8, <1>9

(* The list at p becomes empty.                                               *)
Dropped(nx, hd, L, p, x, hm, M) ==
    /\ Laid(nx, hd, L) /\ p \in DOMAIN L /\ x \notin DOMAIN nx
    /\ Repl(hd, hm, p, x) /\ Repl(L, M, p, <<>>)

LEMMA LaidDrop ==
    ASSUME NEW nx, NEW hd, NEW L, NEW p, NEW x, NEW hm, NEW M, Dropped(nx, hd, L, p, x, hm, M)
    PROVE  Laid(nx, hm, M) /\ CellsIn(M) = CellsIn(L) \ Items(L[p])
  <1>0. /\ Laid(nx, hd, L) /\ p \in DOMAIN L /\ x \notin DOMAIN nx
        /\ Repl(hd, hm, p, x) /\ Repl(L, M, p, <<>>)
    BY DEF Dropped
  <1>1. IsChain(nx, x, <<>>) /\ Items(<<>>) = {} /\ Once(<<>>)
    BY <1>0, NullChain DEF Items, Once
  <1>2. Laid(nx, hm, M) /\ CellsIn(M) = Swapped(L, p, <<>>)
    <2>1. Fits(nx, L, nx, p, x, <<>>)
      BY <1>0, <1>1 DEF Fits
    <2>2. Replaced(nx, hd, L, nx, hm, M, p, x, <<>>)
      BY <1>0, <2>1 DEF Replaced
    <2> QED BY <2>2, LaidSet
  <1> QED BY <1>1, <1>2 DEF Swapped

(* The list at p becomes the one at r, which was empty.                       *)
Moved(nx, hd, L, p, r, x, hm, M) ==
    /\ Laid(nx, hd, L) /\ p \in DOMAIN L /\ r \in DOMAIN L /\ p # r /\ L[r] = <<>>
    /\ x \notin DOMAIN nx /\ DOMAIN hm = DOMAIN L /\ hm[p] = x /\ hm[r] = hd[p]
    /\ DOMAIN M = DOMAIN L /\ M[p] = <<>> /\ M[r] = L[p]
    /\ \A s \in DOMAIN L \ {p, r} : hm[s] = hd[s] /\ M[s] = L[s]

LEMMA LaidMove ==
    ASSUME NEW nx, NEW hd, NEW L, NEW p, NEW r, NEW x, NEW hm, NEW M,
           Moved(nx, hd, L, p, r, x, hm, M)
    PROVE  Laid(nx, hm, M) /\ CellsIn(M) = CellsIn(L)
  <1> DEFINE K == [s \in DOMAIN L |-> IF s = p THEN <<>> ELSE L[s]]
             hk == [s \in DOMAIN L |-> IF s = p THEN x ELSE hd[s]]
  <1>0. /\ Laid(nx, hd, L) /\ p \in DOMAIN L /\ r \in DOMAIN L /\ p # r /\ L[r] = <<>>
        /\ x \notin DOMAIN nx /\ DOMAIN hm = DOMAIN L /\ hm[p] = x /\ hm[r] = hd[p]
        /\ DOMAIN M = DOMAIN L /\ M[p] = <<>> /\ M[r] = L[p]
        /\ \A s \in DOMAIN L \ {p, r} : hm[s] = hd[s] /\ M[s] = L[s]
        /\ DOMAIN hd = DOMAIN L
    BY DEF Moved, Laid
  <1>1. Repl(L, K, p, <<>>) /\ Repl(hd, hk, p, x)
    BY <1>0 DEF Repl
  <1>2. Repl(K, M, r, L[p]) /\ Repl(hk, hm, r, hd[p]) /\ K[r] = <<>> /\ r \in DOMAIN K
    BY <1>0 DEF Repl
  <1>3. /\ DOMAIN K = DOMAIN L /\ Items(<<>>) = {}
        /\ \A s \in DOMAIN L : K[s] = IF s = p THEN <<>> ELSE L[s]
    BY DEF Items
  <1> HIDE DEF K, hk
  <1>4. Laid(nx, hk, K) /\ CellsIn(K) = CellsIn(L) \ Items(L[p])
    <2>1. Dropped(nx, hd, L, p, x, hk, K)
      BY <1>0, <1>1 DEF Dropped
    <2>2. Laid(nx, hk, K)
      BY <2>1, LaidDrop
    <2>3. CellsIn(K) = CellsIn(L) \ Items(L[p])
      BY <2>1, LaidDrop
    <2> QED BY <2>2, <2>3
  <1>5. IsChain(nx, hd[p], L[p]) /\ Once(L[p])
    BY <1>0 DEF Laid, Apart
  <1>6. \A s \in DOMAIN K \ {r} : Items(L[p]) \cap Items(K[s]) = {}
    BY <1>0, <1>3 DEF Laid, Apart
  <1>7. Laid(nx, hm, M) /\ CellsIn(M) = Swapped(K, r, L[p])
    <2>1. Fits(nx, K, nx, r, hd[p], L[p])
      BY <1>2, <1>5, <1>6 DEF Fits
    <2>2. Replaced(nx, hk, K, nx, hm, M, r, hd[p], L[p])
      BY <1>2, <1>4, <2>1 DEF Replaced
    <2> QED BY <2>2, LaidSet
  <1>8. Items(K[r]) = {} /\ Items(L[p]) \subseteq CellsIn(L)
    BY <1>0, <1>2, <1>3, InCells
  <1>9. CellsIn(M) = CellsIn(L)
    BY <1>4, <1>7, <1>8 DEF Swapped
  <1> QED BY <1>7, <1>9
=============================================================================
