--------------------------- MODULE BackendsProofs ---------------------------
(* Each of the four backends watches what the flags of the sources say and   *)
(* does what Watcher asks of a backend, for any number of sources, any flags *)
(* and conditions, and tables and buffers of any size.                       *)
EXTENDS Backends, FiniteSetTheorems, FunctionTheorems, SequenceTheorems, TLAPS

RW == {"RD", "WR"}

(* A source that is switched off is disabled, and not one just added.         *)
OffInv == /\ \A s \in off : "EN" \notin flags[s]
          /\ off \cap fresh = {}

(* select: a bit is set exactly for a registered source that asks for it, and *)
(* the highest descriptor covers the enabled ones and those just added, but   *)
(* not those whose flags were updated while they were disabled.               *)
SelectTables == [rd : SUBSET Src, wr : SUBSET Src, ex : SUBSET Src, maxfd : Int]
SelectInv == kind = "select" =>
    /\ tbl \in SelectTables
    /\ \A s \in Src : /\ s \in tbl.rd <=> s \in Listed /\ "RD" \in flags[s]
                      /\ s \in tbl.wr <=> s \in Listed /\ "WR" \in flags[s]
    /\ \A s \in Listed : "EN" \in flags[s] \/ s \in fresh => s <= tbl.maxfd \/ s \in muted

(* kqueue: the filters a source asks for are there, active when it is         *)
(* enabled; no other filter is active.                                        *)
KqueueTables == [filt : [Src -> [RW -> {"none", "on", "off"}]], max : Nat]
KqueueInv == kind = "kqueue" =>
    /\ tbl \in KqueueTables /\ count <= tbl.max
    /\ \A s \in Src, g \in RW :
        IF s \in Listed \ bad /\ g \in flags[s]
        THEN tbl.filt[s][g] = IF "EN" \in flags[s] THEN "on" ELSE "off"
        ELSE tbl.filt[s][g] # "on"

(* epoll: the registered sources that are open, not switched off and not      *)
(* muted are in the interest list, with the flags they ask for.               *)
EpollTables == [interest : [Src -> SUBSET RW], in : SUBSET Src, max : Nat]
EpollInv == kind = "epoll" =>
    /\ tbl \in EpollTables
    /\ tbl.in = Listed \ (bad \cup off \cup muted)
    /\ \A s \in Src : tbl.interest[s] = IF s \in tbl.in THEN Ask(flags[s]) ELSE {}

(* poll, as long as it wrote to its own slots only: the slots are within the  *)
(* array and have different sources, none of them switched off; every enabled *)
(* source has one; the pointer of a source with a slot leads to it; a slot    *)
(* asks for what the source asks for, and for more only if its memory was not *)
(* initialised.                                                               *)
PollTables ==
    [fds : Seq([fd : Src, events : SUBSET RW]), max : Nat, clean : Nat,
     lkp : SUBSET Src, pfd : [Src -> Nat], lost : SUBSET Src]
Slots == 1..Len(tbl.fds)
PollInv == kind = "poll" /\ astray = {} =>
    /\ tbl \in PollTables /\ Len(tbl.fds) <= tbl.max /\ tbl.lkp = Listed
    /\ \A i \in Slots :
        /\ tbl.fds[i].fd \in Listed \ off /\ Ask(flags[tbl.fds[i].fd]) \subseteq tbl.fds[i].events
        /\ tbl.fds[i].events \subseteq flags[tbl.fds[i].fd] \/ tbl.fds[i].fd \in unclear
        /\ \A j \in Slots : tbl.fds[i].fd = tbl.fds[j].fd => i = j
        /\ tbl.pfd[tbl.fds[i].fd] # 0
    /\ \A s \in Listed : "EN" \in flags[s] => \E i \in Slots : tbl.fds[i].fd = s
    /\ \A s \in Src : tbl.pfd[s] # 0 => tbl.pfd[s] \in Slots /\ tbl.fds[tbl.pfd[s]].fd = s

TableInv == SelectInv /\ KqueueInv /\ EpollInv /\ PollInv
Inv == TypeOK /\ OffInv /\ TableInv
-----------------------------------------------------------------------------
(* Facts about the constants and about sequences without repetition.          *)

LEMMA SrcFacts ==
    /\ IsFiniteSet(Src) /\ Src \subseteq Nat /\ Wake \in Src /\ Client \subseteq Src
    /\ Wake \notin Client /\ Src = Client \cup {Wake}
    /\ Flags = SUBSET {"EN", "RD", "WR"} /\ Count \in Nat \ {0} /\ Counts \subseteq Nat \ {0}
    /\ \A s \in Client : /\ \A f \in Asks[s] : f \subseteq RW /\ f \cup {"EN"} \in Flags
                         /\ Conds[s] \subseteq SUBSET Conditions
  BY SrcAssumption, CountAssumption, AskAssumption
  DEF SrcAssumption, CountAssumption, AskAssumption, Client, Flags, RW

LEMMA SeqOfSources ==
    ASSUME NEW l \in Seq(Src)
    PROVE  ToSet(l) \subseteq Src
  BY LenProperties, ElementOfSeq DEF ToSet

LEMMA ListFacts ==
    ASSUME TypeOK
    PROVE  /\ Listed \subseteq Src /\ IsFiniteSet(Listed)
           /\ DOMAIN list = 1..Len(list) /\ Len(list) \in Nat
  <1>1. list \in Seq(Src) /\ DOMAIN list = 1..Len(list) /\ Len(list) \in Nat
    BY LenProperties DEF TypeOK
  <1>2. Listed \subseteq Src
    BY <1>1, ElementOfSeq DEF Listed, ToSet
  <1> QED BY <1>1, <1>2, SrcFacts, FS_Subset

(* A sequence of the members of S in some order has each of them once.        *)
LEMMA InOrderIs ==
    ASSUME NEW l, NEW S, IsFiniteSet(S), NEW q \in InOrder(l, S)
    PROVE  /\ q \in Seq(S) /\ Len(q) = Cardinality(S) /\ DOMAIN q = 1..Len(q) /\ ToSet(q) = S
           /\ \A i, j \in 1..Len(q) : q[i] = q[j] => i = j
  <1> DEFINE n == Cardinality(S)
  <1>1. n \in Nat /\ q \in [1..n -> S] /\ ToSet(q) = S
    BY FS_CardinalityType DEF InOrder
  <1>2. q \in Seq(S)
    BY <1>1, SeqDef
  <1>3. Len(q) \in Nat /\ DOMAIN q = 1..Len(q) /\ DOMAIN q = 1..n
    BY <1>1, <1>2, LenProperties
  <1>4. Len(q) = n
    BY <1>1, <1>3
  <1>5. q \in Surjection(1..n, S)
    BY <1>1 DEF Surjection, ToSet
  <1>6. IsFiniteSet(1..n) /\ Cardinality(1..n) = n
    BY <1>1, FS_Interval
  <1>7. q \in Injection(1..n, S)
    BY <1>5, <1>6, FS_SurjSameCardinalityImpliesInj
  <1> QED BY <1>1, <1>2, <1>3, <1>4, <1>7 DEF Injection, IsInjective

LEMMA AddedToList ==
    ASSUME TypeOK, NEW s \in Src, s \notin Listed, list' = <<s>> \o list
    PROVE  /\ list' \in Seq(Src) /\ Listed' = Listed \cup {s}
           /\ Cardinality(Listed') = Len(list')
  <1>1. list \in Seq(Src) /\ <<s>> \in Seq(Src) /\ Len(list) \in Nat
        /\ Len(<<s>>) = 1 /\ <<s>>[1] = s /\ DOMAIN list = 1..Len(list)
    BY LenProperties DEF TypeOK
  <1>2. /\ list' \in Seq(Src) /\ Len(list') = 1 + Len(list)
        /\ \A i \in 1..(1 + Len(list)) :
              list'[i] = IF i <= 1 THEN s ELSE list[i - 1]
    BY <1>1, ConcatProperties
  <1>3. DOMAIN list' = 1..(1 + Len(list))
    BY <1>2, LenProperties
  <1>4. ASSUME NEW x \in Listed' PROVE x \in Listed \cup {s}
    <2>1. PICK i \in DOMAIN list' : x = list'[i]
      BY <1>4 DEF Listed, ToSet
    <2>2. CASE i <= 1
      BY <2>1, <2>2, <1>2, <1>3
    <2>3. CASE ~(i <= 1)
      <3>1. i - 1 \in DOMAIN list /\ x = list[i - 1]
        BY <2>1, <2>3, <1>1, <1>2, <1>3
      <3> QED BY <3>1 DEF Listed, ToSet
    <2> QED BY <2>2, <2>3
  <1>5. ASSUME NEW x \in Listed \cup {s} PROVE x \in Listed'
    <2>1. CASE x = s
      <3>1. 1 \in DOMAIN list' /\ list'[1] = x
        BY <2>1, <1>1, <1>2, <1>3
      <3> QED BY <3>1 DEF Listed, ToSet
    <2>2. CASE x \in Listed
      <3>1. PICK i \in DOMAIN list : x = list[i]
        BY <2>2 DEF Listed, ToSet
      <3>2. i + 1 \in DOMAIN list' /\ list'[i + 1] = x
        BY <3>1, <1>1, <1>2, <1>3
      <3> QED BY <3>2 DEF Listed, ToSet
    <2> QED BY <1>5, <2>1, <2>2
  <1>6. Listed' = Listed \cup {s}
    BY <1>4, <1>5
  <1>7. Cardinality(Listed') = Cardinality(Listed) + 1
    BY <1>6, ListFacts, FS_AddElement
  <1> QED BY <1>1, <1>2, <1>6, <1>7 DEF TypeOK
-----------------------------------------------------------------------------
(* What a gathering posts: events of registered sources that are not          *)
(* switched off, for conditions that hold.                                    *)

Good(e) == /\ e \in [src : Src, flags : SUBSET RW]
           /\ e.src \in Listed \ off /\ e.flags # {}
           /\ e.flags \subseteq W!Deserved(e.src) \/ e.src \in unclear

LEMMA SelectPosts ==
    ASSUME Inv, kind = "select", NEW e \in SelectGather(tbl, list, flags, ready)
    PROVE  Good(e)
  <1>1. PICK s \in Listed : "EN" \in flags[s] /\ e = SelectEvent(tbl, s, ready) /\ e.flags # {}
    BY DEF SelectGather, Listed
  <1>2. s \in Src /\ s \notin off /\ e.src = s
    BY <1>1, ListFacts DEF Inv, OffInv, SelectEvent
  <1>3. e \in [src : Src, flags : SUBSET RW]
    BY <1>1, <1>2 DEF SelectEvent, SelectWatched, RW
  <1>4. ASSUME NEW f \in e.flags PROVE f \in W!Deserved(s)
    <2>1. CASE f \in SelectWatched(tbl, s) /\ ready[s] \cap {"hup", IF f = "RD" THEN "in" ELSE "out"} # {}
      <3>1. f \in {"RD", "WR"} /\ f \in flags[s]
        BY <1>1, <1>2, <2>1 DEF SelectWatched, Inv, TableInv, SelectInv
      <3> QED BY <2>1, <3>1 DEF W!Deserved
    <2>2. CASE f = "RD" /\ Exceptional(tbl, s, ready)
      BY <2>2 DEF Exceptional, W!Deserved
    <2> QED BY <1>1, <1>4, <2>1, <2>2 DEF SelectEvent
  <1> QED BY <1>1, <1>2, <1>3, <1>4 DEF Good

LEMMA EpollPosts ==
    ASSUME Inv, kind = "epoll", NEW ws \in Waited(tbl, ready), NEW e \in EpollGather(ws, flags, ready)
    PROVE  Good(e)
  <1>1. PICK s \in ws :
            /\ e = [src |-> s, flags |-> {f \in flags[s] \cap {"RD", "WR"} :
                                            (IF f = "RD" THEN "in" ELSE "out") \in ready[s]}]
            /\ e.flags # {}
    BY DEF EpollGather
  <1>2. s \in Listed \ off /\ s \in Src
    BY <1>1, ListFacts DEF Waited, Signalled, Inv, TableInv, EpollInv
  <1>3. e \in [src : Src, flags : SUBSET RW] /\ e.src = s
    BY <1>1, <1>2 DEF RW
  <1>4. ASSUME NEW f \in e.flags PROVE f \in W!Deserved(s)
    <2>1. /\ f \in {"RD", "WR"} /\ f \in flags[s]
          /\ (IF f = "RD" THEN "in" ELSE "out") \in ready[s]
      BY <1>1, <1>4
    <2> QED BY <2>1 DEF W!Deserved
  <1> QED BY <1>1, <1>2, <1>3, <1>4 DEF Good

(* A filter that is active belongs to an enabled source.                      *)
LEMMA ActiveIsEnabled ==
    ASSUME Inv, kind = "kqueue", NEW k \in Active(tbl, ready)
    PROVE  /\ k[1] \in Listed \ bad /\ k[1] \in Src /\ k[1] \notin off
           /\ "EN" \in flags[k[1]] /\ k[2] \in flags[k[1]] /\ k[2] \in RW
           /\ "hup" \in ready[k[1]] \/ (IF k[2] = "RD" THEN "in" ELSE "out") \in ready[k[1]]
  <1>1. /\ tbl \in KqueueTables
        /\ \A s \in Src, g \in RW :
             IF s \in Listed \ bad /\ g \in flags[s]
             THEN tbl.filt[s][g] = IF "EN" \in flags[s] THEN "on" ELSE "off"
             ELSE tbl.filt[s][g] # "on"
    BY DEF Inv, TableInv, KqueueInv
  <1>2. k \in Src \X RW
    BY <1>1 DEF Active, KqueueTables, RW
  <1>3. k[1] \in Src /\ k[2] \in RW /\ tbl.filt[k[1]][k[2]] = "on"
    BY <1>2 DEF Active
  <1>4. k[1] \in Listed \ bad /\ k[2] \in flags[k[1]] /\ "EN" \in flags[k[1]]
    BY <1>1, <1>3
  <1> QED BY <1>3, <1>4 DEF Active, Inv, OffInv

LEMMA KqueuePosts ==
    ASSUME Inv, kind = "kqueue", NEW ks \in Returned(tbl, ready, count),
           NEW e \in KqueueGather(ks, flags, ready)
    PROVE  Good(e)
  <1>1. PICK k \in ks :
            /\ e = [src   |-> k[1],
                    flags |-> IF "RD" \in flags[k[1]] /\ ("hup" \in ready[k[1]] \/ k[2] = "RD")
                              THEN {"RD"} ELSE {k[2]} \cap flags[k[1]] \cap {"WR"}]
            /\ e.flags # {}
    BY DEF KqueueGather
  <1>2. k \in Active(tbl, ready)
    BY <1>1 DEF Returned
  <1>3. e.src = k[1] /\ e \in [src : Src, flags : SUBSET RW]
    BY <1>1, <1>2, ActiveIsEnabled DEF RW
  <1>4. ASSUME NEW f \in e.flags PROVE f \in W!Deserved(k[1])
    <2>1. CASE "RD" \in flags[k[1]] /\ ("hup" \in ready[k[1]] \/ k[2] = "RD")
      BY <1>1, <1>2, <1>4, <2>1, ActiveIsEnabled DEF W!Deserved
    <2>2. CASE ~("RD" \in flags[k[1]] /\ ("hup" \in ready[k[1]] \/ k[2] = "RD"))
      <3>1. f = "WR" /\ k[2] = "WR"
        BY <1>1, <1>4, <2>2
      <3> QED BY <3>1, <1>2, ActiveIsEnabled DEF W!Deserved
    <2> QED BY <2>1, <2>2
  <1> QED BY <1>1, <1>2, <1>3, <1>4, ActiveIsEnabled DEF Good

LEMMA PollPosts ==
    ASSUME Inv, kind = "poll", astray = {}, NEW e \in PollGather(tbl, flags, ready, bad).events
    PROVE  Good(e)
  <1> DEFINE On(i)  == "EN" \in flags[tbl.fds[i].fd]
             Dead == {i \in 1..Len(tbl.fds) : On(i) /\ tbl.fds[i].fd \in bad}
  <1>1. PICK i \in Slots :
            /\ On(i) /\ e.flags # {}
            /\ e = [src   |-> tbl.fds[i].fd,
                    flags |-> IF i \in Dead THEN {"RD"}
                              ELSE NewFlags(Revents(tbl.fds[i], ready, bad))]
    BY DEF PollGather, Slots
  <1> DEFINE s == tbl.fds[i].fd
  <1>2. s \in Listed \ off /\ s \in Src /\ e.src = s
    BY <1>1, ListFacts DEF Inv, TableInv, PollInv
  <1>3. e \in [src : Src, flags : SUBSET RW]
    BY <1>1, <1>2 DEF NewFlags, RW
  <1>4. CASE i \in Dead
    <2>1. e.flags = {"RD"} /\ s \in bad
      BY <1>1, <1>4
    <2>2. e.flags \subseteq W!Deserved(s)
      BY <2>1 DEF W!Deserved
    <2> QED BY <1>1, <1>2, <1>3, <2>2 DEF Good
  <1>5. CASE i \notin Dead
    <2>1. s \notin bad /\ e.flags = NewFlags(Revents(tbl.fds[i], ready, bad))
      BY <1>1, <1>5 DEF Slots
    <2>2. CASE tbl.fds[i].events \subseteq flags[s]
      <3>1. ASSUME NEW f \in e.flags PROVE f \in W!Deserved(s)
        BY <2>1, <2>2, <3>1 DEF NewFlags, Revents, W!Deserved
      <3> QED BY <1>1, <1>2, <1>3, <3>1 DEF Good
    <2>3. CASE s \in unclear
      BY <1>1, <1>2, <1>3, <2>3 DEF Good
    <2> QED BY <1>1, <2>2, <2>3 DEF Inv, TableInv, PollInv
  <1> QED BY <1>4, <1>5
-----------------------------------------------------------------------------
(* The types, and which sources are switched off, step by step.               *)

(* The three ways to add a source, with the flags it gets.                    *)
Adding(s) == \E f \in Flags : Add(s, f)
LEMMA AddingIs ==
    ASSUME TypeOK, NEW s \in Client, gwrl_set_fd(s) \/ gwpr_set_fd(s) \/ gwrl_src_add(s)
    PROVE  Adding(s)
  <1>1. flags[s] \in Flags /\ {"RD"} \in Flags
    BY SrcFacts DEF TypeOK
  <1> QED BY <1>1, SrcFacts DEF Adding, gwrl_set_fd, gwpr_set_fd, gwrl_src_add

LEMMA TypeAdd ==
    ASSUME Inv, NEW s \in Client, NEW f \in Flags, Add(s, f)
    PROVE  TypeOK' /\ OffInv' /\ Listed' = Listed \cup {s} /\ s \notin Listed
  <1>1. TypeOK /\ s \in Src /\ s \notin Listed /\ off \subseteq Listed
    BY SrcFacts DEF Inv, TypeOK, Add
  <1>2. /\ list' \in Seq(Src) /\ Listed' = Listed \cup {s}
        /\ Cardinality(Listed') = Len(list')
    BY <1>1, AddedToList DEF Add
  <1>3. flags' \in [Src -> Flags] /\ ready' \in [Src -> SUBSET Conditions]
    BY <1>1 DEF Add, TypeOK, sysVars
  <1>4. fresh' \subseteq Listed' /\ unclear' \subseteq Src /\ off' \subseteq Listed'
        /\ bad' \subseteq Listed'
    BY <1>1, <1>2 DEF Add, TypeOK, Unclear, sysVars
  <1>5. TypeOK'
    BY <1>1, <1>2, <1>3, <1>4 DEF Add, TypeOK, sysVars
  <1>6. OffInv'
    BY <1>1, <1>3 DEF Add, OffInv, Inv, TypeOK
  <1> QED BY <1>1, <1>2, <1>5, <1>6

LEMMA TypeDel ==
    ASSUME Inv, NEW s \in Client, gwrl_src_del(s)
    PROVE  TypeOK' /\ OffInv' /\ Listed' = Listed \ {s} /\ s \in Listed
  <1>1. TypeOK /\ s \in Src /\ s \in Listed /\ IsFiniteSet(Listed \ {s})
        /\ Listed \subseteq Src /\ s # Wake
    BY SrcFacts, ListFacts, FS_RemoveElement DEF Inv, gwrl_src_del
  <1>2. list' \in Seq(Listed \ {s}) /\ Len(list') = Cardinality(Listed \ {s})
        /\ ToSet(list') = Listed \ {s}
    BY <1>1, InOrderIs DEF gwrl_src_del
  <1>3. Listed' = Listed \ {s} /\ list' \in Seq(Src)
    BY <1>1, <1>2, SeqMonotonic DEF Listed
  <1>4. flags' \in [Src -> Flags]
    BY <1>1 DEF gwrl_src_del, TypeOK, Flags
  <1>5. TypeOK'
    BY <1>1, <1>2, <1>3, <1>4 DEF gwrl_src_del, TypeOK, Unclear, Unmute
  <1>6. OffInv'
    BY <1>1 DEF gwrl_src_del, OffInv, Inv, TypeOK
  <1> QED BY <1>1, <1>3, <1>5, <1>6

LEMMA TypeEnable ==
    ASSUME Inv, NEW s \in Client, gwrl_src_enable(s)
    PROVE  TypeOK' /\ OffInv' /\ Listed' = Listed /\ s \in Listed
  <1>1. TypeOK /\ OffInv /\ s \in Src /\ s \in Listed
    BY SrcFacts DEF gwrl_src_enable, Inv
  <1>2. flags' \in [Src -> Flags] /\ (\A x \in Src : x # s => flags'[x] = flags[x])
        /\ (s \in off' => "EN" \notin flags'[s])
    BY <1>1 DEF gwrl_src_enable, TypeOK, Flags
  <1>3. Listed' = Listed /\ unclear' \subseteq Src /\ muted' \subseteq Listed /\ astray' \subseteq Src
        /\ off' \subseteq Listed /\ fresh' = {}
    BY <1>1 DEF gwrl_src_enable, TypeOK, Listed, Unclear, Unmute
  <1>4. TypeOK'
    BY <1>1, <1>2, <1>3 DEF gwrl_src_enable, TypeOK, sysVars
  <1>5. OffInv'
    <2>1. \A x \in off' : x = s \/ x \in off
      BY DEF gwrl_src_enable
    <2> QED BY <1>1, <1>2, <1>3, <2>1, ListFacts DEF OffInv, TypeOK
  <1> QED BY <1>1, <1>3, <1>4, <1>5

LEMMA TypeDisable ==
    ASSUME Inv, NEW s \in Client, gwrl_src_disable(s)
    PROVE  TypeOK' /\ OffInv' /\ Listed' = Listed /\ s \in Listed
  <1>1. TypeOK /\ OffInv /\ s \in Src /\ s \in Listed
    BY SrcFacts DEF gwrl_src_disable, Inv
  <1>2. flags' \in [Src -> Flags] /\ (\A x \in Src : x # s => flags'[x] = flags[x])
        /\ (s \in off' => "EN" \notin flags'[s])
    BY <1>1 DEF gwrl_src_disable, TypeOK, Flags
  <1>3. Listed' = Listed /\ unclear' \subseteq Src /\ muted' \subseteq Listed /\ astray' \subseteq Src
        /\ off' \subseteq Listed /\ fresh' = {}
    BY <1>1 DEF gwrl_src_disable, TypeOK, Listed, Unclear, Unmute
  <1>4. TypeOK'
    BY <1>1, <1>2, <1>3 DEF gwrl_src_disable, TypeOK, sysVars
  <1>5. OffInv'
    <2>1. \A x \in off' : x = s \/ x \in off
      BY DEF gwrl_src_disable
    <2> QED BY <1>1, <1>2, <1>3, <2>1, ListFacts DEF OffInv, TypeOK
  <1> QED BY <1>1, <1>3, <1>4, <1>5

LEMMA TypeUpdate ==
    ASSUME Inv, NEW s \in Client, NEW ask \in Asks[s], gwrl_src_file_update_flags(s, ask)
    PROVE  /\ TypeOK' /\ OffInv' /\ Listed' = Listed /\ s \in Listed
           /\ flags' = [flags EXCEPT ![s] = ask \cup {"EN"}]
  <1>1. ask \cup {"EN"} \in Flags /\ s \in Src
    BY SrcFacts
  <1>2. flags' = [flags EXCEPT ![s] = ask \cup {"EN"}]
    BY DEF gwrl_src_file_update_flags, UpdatedFlags
  <1>3. s \in Listed
    BY DEF gwrl_src_file_update_flags
  <1>4. Listed' = Listed
    BY DEF gwrl_src_file_update_flags, Listed
  <1>5. TypeOK'
    BY <1>1, <1>2, <1>4 DEF gwrl_src_file_update_flags, Inv, TypeOK, Unclear, sysVars
  <1>6. OffInv'
    BY <1>1, <1>2 DEF gwrl_src_file_update_flags, Inv, OffInv, TypeOK
  <1> QED BY <1>2, <1>3, <1>4, <1>5, <1>6

(* The steps that change neither the list nor the flags.                      *)
Still == UNCHANGED <<kind, list, flags, histVars>>

LEMMA TypeOptions ==
    ASSUME Inv, NEW n \in Counts, gwrl_set_options(n)
    PROVE  TypeOK' /\ OffInv' /\ Listed' = Listed /\ Still
  BY DEF gwrl_set_options, Inv, TypeOK, OffInv, Listed, sysVars, histVars, Still

LEMMA TypeCondition ==
    ASSUME Inv, NEW s \in Client, Condition(s)
    PROVE  TypeOK' /\ OffInv' /\ Listed' = Listed /\ Still
  <1>1. ready' \in [Src -> SUBSET Conditions]
    BY SrcFacts DEF Condition, Inv, TypeOK
  <1> QED BY <1>1 DEF Condition, Inv, TypeOK, OffInv, Listed, histVars, Still

LEMMA TypeClose ==
    ASSUME Inv, NEW s \in Client, Close(s)
    PROVE  TypeOK' /\ OffInv' /\ Listed' = Listed /\ Still
  <1>1. ready' \in [Src -> SUBSET Conditions] /\ bad' \subseteq Listed
    BY SrcFacts DEF Close, Inv, TypeOK
  <1> QED BY <1>1 DEF Close, Inv, TypeOK, OffInv, Listed, histVars, Still

LEMMA TypeGatherPoll ==
    ASSUME Inv, GatherPoll
    PROVE  /\ TypeOK' /\ OffInv' /\ Listed' = Listed
           /\ PollGather(tbl, flags, ready, bad).disabled \subseteq (Listed \cap bad) \ off
           /\ \A e \in events' : Good(e)
  <1> DEFINE g == PollGather(tbl, flags, ready, bad)
  <1>1. ASSUME NEW s \in g.disabled PROVE s \in (Listed \cap bad) \ off
    <2>1. PICK i \in Slots : "EN" \in flags[tbl.fds[i].fd] /\ tbl.fds[i].fd \in bad /\ s = tbl.fds[i].fd
      BY <1>1 DEF PollGather, Slots
    <2> QED BY <2>1 DEF Inv, TableInv, PollInv, OffInv, GatherPoll, Gathering, Calling
  <1>2. \A e \in events' : Good(e)
    BY PollPosts DEF GatherPoll, Gathering, Calling, Post
  <1>3. flags' \in [Src -> Flags] /\ unclear' \subseteq Src /\ Listed' = Listed
        /\ fresh' \subseteq Listed /\ off' = off \cup g.disabled
    BY DEF GatherPoll, Gathering, Inv, TypeOK, Flags, Unclear, Listed
  <1>4. TypeOK'
    <2>1. events' \subseteq [src : Src, flags : SUBSET {"RD", "WR"}]
      BY <1>2 DEF Good, RW
    <2> QED BY <1>1, <1>3, <2>1 DEF GatherPoll, Gathering, Post, Inv, TypeOK, sysVars
  <1>5. OffInv'
    <2>1. \A s \in off' : "EN" \notin flags'[s]
      BY <1>1, <1>3, ListFacts DEF GatherPoll, Inv, TypeOK, OffInv
    <2>2. off' \cap fresh' = {}
      BY <1>3 DEF GatherPoll, Inv, OffInv
    <2> QED BY <2>1, <2>2 DEF OffInv
  <1> QED BY <1>1, <1>2, <1>3, <1>4, <1>5

(* A gathering of another backend posts events or hangs.                      *)
LEMMA TypeGather ==
    ASSUME Inv, GatherSelect \/ FindBadfd \/ GatherKqueue \/ GatherEpoll
    PROVE  /\ TypeOK' /\ OffInv' /\ Listed' = Listed /\ Still
           /\ UNCHANGED <<tbl, count, sysVars>>
           /\ \/ UNCHANGED events
              \/ events = {} /\ \A e \in events' : Good(e)
  <1>1. /\ Still /\ UNCHANGED <<tbl, count, sysVars>> /\ hung' \in BOOLEAN
        /\ \/ UNCHANGED events
           \/ events = {} /\ \A e \in events' : Good(e)
    <2> USE DEF Gathering, Quiet, Post, Hang, Still, histVars, Calling
    <2>1. CASE GatherSelect
      BY <2>1, SelectPosts DEF GatherSelect, Inv, TypeOK
    <2>2. CASE FindBadfd
      BY <2>2 DEF FindBadfd
    <2>3. CASE GatherKqueue
      BY <2>3, KqueuePosts DEF GatherKqueue, Inv, TypeOK
    <2>4. CASE GatherEpoll
      BY <2>4, EpollPosts DEF GatherEpoll, Inv, TypeOK
    <2> QED BY <2>1, <2>2, <2>3, <2>4
  <1>2. events' \subseteq [src : Src, flags : SUBSET {"RD", "WR"}]
    BY <1>1 DEF Good, RW, Inv, TypeOK
  <1> QED BY <1>1, <1>2 DEF Still, histVars, Inv, TypeOK, OffInv, Listed, sysVars

LEMMA TypeDispatch ==
    ASSUME Inv, gwrl_dispatch \/ Ended \/ UNCHANGED vars
    PROVE  /\ TypeOK' /\ OffInv' /\ Listed' = Listed /\ Still
           /\ UNCHANGED <<tbl, count, sysVars>> /\ (events' = {} \/ UNCHANGED events)
  BY DEF gwrl_dispatch, Ended, vars, sysVars, histVars, Still, Inv, TypeOK, OffInv, Listed
-----------------------------------------------------------------------------
(* The tables, backend by backend.                                            *)

LEMMA SetBitsIs ==
    ASSUME NEW t \in SelectTables, NEW s \in Src, NEW f
    PROVE  /\ SetBits(t, s, f) \in SelectTables /\ SetBits(t, s, f).maxfd = t.maxfd
           /\ \A x \in Src :
                /\ x \in SetBits(t, s, f).rd <=> IF x = s THEN "RD" \in f ELSE x \in t.rd
                /\ x \in SetBits(t, s, f).wr <=> IF x = s THEN "WR" \in f ELSE x \in t.wr
  BY DEF SetBits, SelectTables

LEMMA SelectRecalcIs ==
    ASSUME NEW t \in SelectTables, NEW l, NEW fl, ToSet(l) \subseteq Src,
           NEW u \in SelectRecalc(t, l, fl)
    PROVE  /\ u \in SelectTables /\ u.rd = t.rd /\ u.wr = t.wr
           /\ \A s \in ToSet(l) : "EN" \in fl[s] => s <= u.maxfd
  <1> DEFINE on == {s \in ToSet(l) : "EN" \in fl[s]}
  <1>1. PICK m \in on \cup {-1} : u = [t EXCEPT !.maxfd = m] /\ \A s \in on : s <= m
    BY DEF SelectRecalc
  <1>2. m \in Int
    <2>1. \A s \in on : s \in Src
      OBVIOUS
    <2>2. \A s \in Src : s \in Int
      BY SrcAssumption DEF SrcAssumption
    <2> HIDE DEF on
    <2> QED BY <2>1, <2>2
  <1> QED BY <1>1, <1>2 DEF SelectTables

LEMMA SelectStep ==
    ASSUME Inv, [Next]_vars, kind = "select"
    PROVE  SelectInv'
  <1>0. /\ TypeOK /\ tbl \in SelectTables
        /\ \A s \in Src : /\ s \in tbl.rd <=> s \in Listed /\ "RD" \in flags[s]
                          /\ s \in tbl.wr <=> s \in Listed /\ "WR" \in flags[s]
        /\ \A s \in Listed : "EN" \in flags[s] \/ s \in fresh => s <= tbl.maxfd \/ s \in muted
        /\ Listed \subseteq Src /\ Src \subseteq Nat /\ Client \subseteq Src
        /\ flags \in [Src -> Flags]
    BY ListFacts, SrcFacts DEF Inv, TableInv, SelectInv, TypeOK
  <1>1. ASSUME NEW s \in Client, NEW f \in Flags, Add(s, f) PROVE SelectInv'
    <2>1. Listed' = Listed \cup {s} /\ s \notin Listed /\ s \in Src /\ s \in Nat
      BY <1>0, <1>1, TypeAdd
    <2>2. /\ flags' = [flags EXCEPT ![s] = f]
          /\ tbl' = SelectAdd(tbl, [flags EXCEPT ![s] = f], s)
          /\ fresh' \subseteq fresh \cup {s} /\ muted' = muted
      BY <1>1 DEF Add, gwrl_bkd_src_add
    <2> DEFINE b == SetBits(tbl, s, f)
    <2>3. tbl' = [b EXCEPT !.maxfd = IF s > @ THEN s ELSE @]
      BY <1>0, <2>1, <2>2 DEF SelectAdd
    <2>4. /\ b \in SelectTables /\ b.maxfd = tbl.maxfd
          /\ \A x \in Src : /\ x \in b.rd <=> IF x = s THEN "RD" \in f ELSE x \in tbl.rd
                            /\ x \in b.wr <=> IF x = s THEN "WR" \in f ELSE x \in tbl.wr
      BY <1>0, <2>1, SetBitsIs
    <2> HIDE DEF b
    <2>5. /\ tbl' \in SelectTables /\ tbl'.rd = b.rd /\ tbl'.wr = b.wr
          /\ tbl'.maxfd = IF s > tbl.maxfd THEN s ELSE tbl.maxfd
      BY <2>1, <2>3, <2>4 DEF SelectTables
    <2>6. \A x \in Listed' : "EN" \in flags'[x] \/ x \in fresh' => x <= tbl'.maxfd \/ x \in muted'
      BY <1>0, <2>1, <2>2, <2>5 DEF SelectTables
    <2> QED BY <1>0, <2>1, <2>2, <2>4, <2>5, <2>6 DEF SelectInv
  <1>2. ASSUME NEW s \in Client, gwrl_src_del(s) PROVE SelectInv'
    <2> DEFINE b == [tbl EXCEPT !.rd = @ \ {s}, !.wr = @ \ {s}, !.ex = @ \ {s}]
    <2>1. Listed' = Listed \ {s} /\ s \in Src /\ flags' = flags /\ fresh' = {}
          /\ tbl' \in SelectRecalc(b, list', flags)
      BY <1>0, <1>2, TypeDel DEF gwrl_src_del, gwrl_bkd_del_src, SelectDel
    <2>2. /\ b \in SelectTables
          /\ \A x \in Src : /\ x \in b.rd <=> x # s /\ x \in tbl.rd
                            /\ x \in b.wr <=> x # s /\ x \in tbl.wr
      BY <1>0, <2>1 DEF SelectTables
    <2>3. ToSet(list') = Listed'
      BY DEF Listed
    <2> HIDE DEF b
    <2>4. /\ tbl' \in SelectTables /\ tbl'.rd = b.rd /\ tbl'.wr = b.wr
          /\ \A x \in Listed' : "EN" \in flags[x] => x <= tbl'.maxfd
      BY <1>0, <2>1, <2>2, <2>3, SelectRecalcIs
    <2> QED BY <1>0, <2>1, <2>2, <2>4 DEF SelectInv
  <1>3. ASSUME NEW s \in Client, gwrl_src_enable(s) \/ gwrl_src_disable(s) PROVE SelectInv'
    <2>1. /\ Listed' = Listed /\ fresh' = {} /\ tbl' \in SelectRecalc(tbl, list, flags')
          /\ \A x \in Src : /\ "RD" \in flags'[x] <=> "RD" \in flags[x]
                            /\ "WR" \in flags'[x] <=> "WR" \in flags[x]
      BY <1>0, <1>3, TypeEnable, TypeDisable
      DEF gwrl_src_enable, gwrl_src_disable, gwrl_bkd_enable_src, gwrl_bkd_disable_src
    <2>2. /\ tbl' \in SelectTables /\ tbl'.rd = tbl.rd /\ tbl'.wr = tbl.wr
          /\ \A x \in Listed : "EN" \in flags'[x] => x <= tbl'.maxfd
      BY <1>0, <2>1, SelectRecalcIs DEF Listed
    <2> QED BY <1>0, <2>1, <2>2 DEF SelectInv
  <1>4. ASSUME NEW s \in Client, NEW ask \in Asks[s], gwrl_src_file_update_flags(s, ask)
        PROVE  SelectInv'
    <2> DEFINE f == ask \cup {"EN"}
    <2>1. /\ Listed' = Listed /\ s \in Listed /\ fresh' = fresh \ {s}
          /\ flags' = [flags EXCEPT ![s] = f] /\ tbl' = SetBits(tbl, s, f)
          /\ muted' = IF "EN" \notin flags[s] /\ s \notin fresh THEN muted \cup {s} ELSE muted
      BY <1>4, TypeUpdate DEF gwrl_src_file_update_flags, gwrl_bkd_update_flags, Unpolled
    <2>2. /\ tbl' \in SelectTables /\ tbl'.maxfd = tbl.maxfd
          /\ \A x \in Src : /\ x \in tbl'.rd <=> IF x = s THEN "RD" \in f ELSE x \in tbl.rd
                            /\ x \in tbl'.wr <=> IF x = s THEN "WR" \in f ELSE x \in tbl.wr
      BY <1>0, <2>1, SetBitsIs
    <2> HIDE DEF f
    <2> QED BY <1>0, <2>1, <2>2 DEF SelectInv
  <1>5. ASSUME Still, Listed' = Listed, tbl' = tbl PROVE SelectInv'
    BY <1>0, <1>5 DEF Still, histVars, SelectInv
  <1>6. CASE \E n \in Counts : gwrl_set_options(n)
    <2> PICK n \in Counts : gwrl_set_options(n)
      BY <1>6
    <2> QED BY <1>5, TypeOptions DEF gwrl_set_options
  <1>7. ASSUME NEW s \in Client, Condition(s) \/ Close(s) PROVE SelectInv'
    BY <1>5, <1>7, TypeCondition, TypeClose DEF Condition, Close
  <1>8. CASE gwrl_bkd_gather
    BY <1>5, <1>8, TypeGather DEF gwrl_bkd_gather, GatherPoll, Gathering
  <1>9. CASE gwrl_dispatch \/ Ended \/ UNCHANGED vars
    BY <1>5, <1>9, TypeDispatch
  <1> QED
    BY <1>0, <1>1, <1>2, <1>3, <1>4, <1>6, <1>7, <1>8, <1>9, AddingIs
    DEF Next, Operation, Adding

(* What a change of filters does: those of f on s, and no other.              *)
LEMMA KeventIs ==
    ASSUME NEW t \in KqueueTables, NEW s \in Src, NEW f,
           NEW to \in {"add", "addoff", "delete", "enable", "disable"}
    PROVE  /\ Kevent(t, s, f, to) \in KqueueTables /\ Kevent(t, s, f, to).max = t.max
           /\ \A x \in Src, g \in RW : Kevent(t, s, f, to).filt[x][g] =
                IF x # s \/ g \notin f THEN t.filt[x][g]
                ELSE CASE to = "add"     -> "on"
                       [] to = "addoff"  -> "off"
                       [] to = "delete"  -> "none"
                       [] to = "enable"  -> IF t.filt[x][g] = "none" THEN t.filt[x][g] ELSE "on"
                       [] to = "disable" -> IF t.filt[x][g] = "none" THEN t.filt[x][g] ELSE "off"
  <1> DEFINE h == [g \in RW |->
        IF g \notin f THEN t.filt[s][g]
        ELSE CASE to = "add"     -> "on"
               [] to = "addoff"  -> "off"
               [] to = "delete"  -> "none"
               [] to = "enable"  -> IF t.filt[s][g] = "none" THEN t.filt[s][g] ELSE "on"
               [] to = "disable" -> IF t.filt[s][g] = "none" THEN t.filt[s][g] ELSE "off"]
  <1>1. t.filt \in [Src -> [RW -> {"none", "on", "off"}]] /\ t.filt[s] \in [RW -> {"none", "on", "off"}]
    BY DEF KqueueTables
  <1>2. h \in [RW -> {"none", "on", "off"}]
    <2>1. ASSUME NEW g \in RW PROVE h[g] \in {"none", "on", "off"}
      BY <1>1
    <2> QED BY <2>1
  <1>3. Kevent(t, s, f, to) = [t EXCEPT !.filt[s] = h]
    BY DEF Kevent, RW, KqueueTables
  <1>4. \A g \in RW : h[g] =
        IF g \notin f THEN t.filt[s][g]
        ELSE CASE to = "add"     -> "on"
               [] to = "addoff"  -> "off"
               [] to = "delete"  -> "none"
               [] to = "enable"  -> IF t.filt[s][g] = "none" THEN t.filt[s][g] ELSE "on"
               [] to = "disable" -> IF t.filt[s][g] = "none" THEN t.filt[s][g] ELSE "off"
    OBVIOUS
  <1> HIDE DEF h
  <1>5. [t EXCEPT !.filt[s] = h] \in KqueueTables
        /\ [t EXCEPT !.filt[s] = h].max = t.max
        /\ [t EXCEPT !.filt[s] = h].filt = [t.filt EXCEPT ![s] = h]
    BY <1>1, <1>2 DEF KqueueTables
  <1>6. \A x \in Src : [t.filt EXCEPT ![s] = h][x] = IF x = s THEN h ELSE t.filt[x]
    BY <1>1
  <1> QED BY <1>3, <1>4, <1>5, <1>6

LEMMA KqueueStep ==
    ASSUME Inv, [Next]_vars, kind = "kqueue"
    PROVE  KqueueInv'
  <1> DEFINE Right(t, l, fl, b) == \A s \in Src, g \in RW :
        IF s \in l \ b /\ g \in fl[s]
        THEN t.filt[s][g] = IF "EN" \in fl[s] THEN "on" ELSE "off"
        ELSE t.filt[s][g] # "on"
  <1>0. /\ TypeOK /\ tbl \in KqueueTables /\ count <= tbl.max /\ Right(tbl, Listed, flags, bad)
        /\ Listed \subseteq Src /\ Client \subseteq Src /\ flags \in [Src -> Flags]
        /\ bad \subseteq Listed /\ count \in Nat /\ tbl.max \in Nat
    BY ListFacts, SrcFacts DEF Inv, TableInv, KqueueInv, TypeOK, KqueueTables
  <1>a. ASSUME tbl' \in KqueueTables, count' <= tbl'.max, Right(tbl', Listed', flags', bad')
        PROVE  KqueueInv'
    BY <1>a DEF KqueueInv
  <1>1. ASSUME NEW s \in Client, NEW f \in Flags, Add(s, f) PROVE KqueueInv'
    <2> DEFINE to == IF "EN" \in f THEN "add" ELSE "addoff"
    <2>1. Listed' = Listed \cup {s} /\ s \notin Listed /\ s \in Src /\ bad' = bad
          /\ flags' = [flags EXCEPT ![s] = f] /\ count' = count
          /\ tbl' = Kevent(tbl, s, f, to)
      BY <1>0, <1>1, TypeAdd DEF Add, gwrl_bkd_src_add, KqueueAdd, sysVars
    <2>2. /\ tbl' \in KqueueTables /\ tbl'.max = tbl.max
          /\ \A x \in Src, g \in RW : tbl'.filt[x][g] =
                IF x # s \/ g \notin f THEN tbl.filt[x][g]
                ELSE IF "EN" \in f THEN "on" ELSE "off"
      BY <1>0, <2>1, KeventIs
    <2>3. Right(tbl', Listed', flags', bad')
      BY <1>0, <2>1, <2>2
    <2> QED BY <1>a, <1>0, <2>1, <2>2, <2>3
  <1>2. ASSUME NEW s \in Client, gwrl_src_del(s) PROVE KqueueInv'
    <2>1. Listed' = Listed \ {s} /\ s \in Listed /\ s \in Src /\ bad' = bad \ {s} /\ count' = count
          /\ flags' = [flags EXCEPT ![s] = @ \ {"EN"}]
          /\ tbl' = IF s \in bad THEN tbl ELSE Kevent(tbl, s, flags[s], "delete")
      BY <1>0, <1>2, TypeDel DEF gwrl_src_del, gwrl_bkd_del_src, KqueueDel, Kernel
    <2>2. CASE s \in bad
      BY <1>a, <1>0, <2>1, <2>2
    <2>3. CASE s \notin bad
      <3>1. /\ tbl' \in KqueueTables /\ tbl'.max = tbl.max
            /\ \A x \in Src, g \in RW : tbl'.filt[x][g] =
                  IF x # s \/ g \notin flags[s] THEN tbl.filt[x][g] ELSE "none"
        BY <1>0, <2>1, <2>3, KeventIs
      <3>2. Right(tbl', Listed', flags', bad')
        BY <1>0, <2>1, <3>1
      <3> QED BY <1>a, <1>0, <2>1, <3>1, <3>2
    <2> QED BY <2>2, <2>3
  <1>3. ASSUME NEW s \in Client, gwrl_src_enable(s) PROVE KqueueInv'
    <2>1. Listed' = Listed /\ s \in Listed /\ s \in Src /\ bad' = bad /\ count' = count
          /\ flags' = [flags EXCEPT ![s] = @ \cup {"EN"}]
          /\ tbl' = IF s \in bad THEN tbl ELSE Kevent(tbl, s, flags'[s], "enable")
      BY <1>0, <1>3, TypeEnable DEF gwrl_src_enable, gwrl_bkd_enable_src, KqueueEnable, Kernel, sysVars
    <2>2. CASE s \in bad
      BY <1>a, <1>0, <2>1, <2>2
    <2>3. CASE s \notin bad
      <3>1. /\ tbl' \in KqueueTables /\ tbl'.max = tbl.max
            /\ \A x \in Src, g \in RW : tbl'.filt[x][g] =
                  IF x # s \/ g \notin flags'[s] THEN tbl.filt[x][g]
                  ELSE IF tbl.filt[x][g] = "none" THEN tbl.filt[x][g] ELSE "on"
        BY <1>0, <2>1, <2>3, KeventIs
      <3>2. "EN" \in flags'[s] /\ \A g \in RW : g \in flags'[s] <=> g \in flags[s]
        BY <1>0, <2>1 DEF RW
      <3>3. \A x \in Src : x # s => flags'[x] = flags[x]
        BY <1>0, <2>1
      <3>4. ASSUME NEW x \in Src, NEW g \in RW
            PROVE  IF x \in Listed' \ bad' /\ g \in flags'[x]
                   THEN tbl'.filt[x][g] = IF "EN" \in flags'[x] THEN "on" ELSE "off"
                   ELSE tbl'.filt[x][g] # "on"
        <4>1. CASE x = s
          <5>1. g \in flags[s] => tbl.filt[s][g] \in {"on", "off"}
            BY <1>0, <2>1, <2>3
          <5>2. g \notin flags[s] => tbl.filt[s][g] # "on"
            BY <1>0, <2>1
          <5> QED BY <2>1, <2>3, <3>1, <3>2, <4>1, <5>1, <5>2
        <4>2. CASE x # s
          <5>1. tbl'.filt[x][g] = tbl.filt[x][g] /\ flags'[x] = flags[x]
            BY <3>1, <3>3, <4>2
          <5>2. Listed' = Listed /\ bad' = bad
            BY <2>1
          <5> QED BY <1>0, <5>1, <5>2
        <4> QED BY <4>1, <4>2
      <3> QED BY <1>a, <1>0, <2>1, <3>1, <3>4
    <2> QED BY <2>2, <2>3
  <1>4. ASSUME NEW s \in Client, gwrl_src_disable(s) PROVE KqueueInv'
    <2>1. Listed' = Listed /\ s \in Listed /\ s \in Src /\ bad' = bad /\ count' = count
          /\ flags' = [flags EXCEPT ![s] = @ \ {"EN"}]
          /\ tbl' = IF s \in bad THEN tbl ELSE Kevent(tbl, s, flags'[s], "disable")
      BY <1>0, <1>4, TypeDisable DEF gwrl_src_disable, gwrl_bkd_disable_src, KqueueDisable, Kernel, sysVars
    <2>2. CASE s \in bad
      BY <1>a, <1>0, <2>1, <2>2
    <2>3. CASE s \notin bad
      <3>1. /\ tbl' \in KqueueTables /\ tbl'.max = tbl.max
            /\ \A x \in Src, g \in RW : tbl'.filt[x][g] =
                  IF x # s \/ g \notin flags'[s] THEN tbl.filt[x][g]
                  ELSE IF tbl.filt[x][g] = "none" THEN tbl.filt[x][g] ELSE "off"
        BY <1>0, <2>1, <2>3, KeventIs
      <3>2. "EN" \notin flags'[s] /\ \A g \in RW : g \in flags'[s] <=> g \in flags[s]
        BY <1>0, <2>1 DEF RW
      <3>3. \A x \in Src : x # s => flags'[x] = flags[x]
        BY <1>0, <2>1
      <3>4. ASSUME NEW x \in Src, NEW g \in RW
            PROVE  IF x \in Listed' \ bad' /\ g \in flags'[x]
                   THEN tbl'.filt[x][g] = IF "EN" \in flags'[x] THEN "on" ELSE "off"
                   ELSE tbl'.filt[x][g] # "on"
        <4>1. CASE x = s
          <5>1. g \in flags[s] => tbl.filt[s][g] \in {"on", "off"}
            BY <1>0, <2>1, <2>3
          <5>2. g \notin flags[s] => tbl.filt[s][g] # "on"
            BY <1>0, <2>1
          <5> QED BY <2>1, <2>3, <3>1, <3>2, <4>1, <5>1, <5>2
        <4>2. CASE x # s
          <5>1. tbl'.filt[x][g] = tbl.filt[x][g] /\ flags'[x] = flags[x]
            BY <3>1, <3>3, <4>2
          <5>2. Listed' = Listed /\ bad' = bad
            BY <2>1
          <5> QED BY <1>0, <5>1, <5>2
        <4> QED BY <4>1, <4>2
      <3> QED BY <1>a, <1>0, <2>1, <3>1, <3>4
    <2> QED BY <2>2, <2>3
  <1>5. ASSUME NEW s \in Client, NEW ask \in Asks[s], gwrl_src_file_update_flags(s, ask)
        PROVE  KqueueInv'
    <2> DEFINE f == ask \cup {"EN"}
    <2> DEFINE u == Kevent(tbl, s, f, "add")
    <2> DEFINE gone == flags[s] \ f
    <2>1. Listed' = Listed /\ s \in Listed /\ s \in Src /\ bad' = bad /\ count' = count
          /\ flags' = [flags EXCEPT ![s] = f] /\ "EN" \in f
          /\ tbl' = IF s \in bad THEN tbl ELSE Kevent(u, s, gone, "addoff")
      BY <1>0, <1>5, TypeUpdate
      DEF gwrl_src_file_update_flags, gwrl_bkd_update_flags, KqueueUpdate, Kernel, sysVars
    <2> HIDE DEF f
    <2>2. CASE s \in bad
      BY <1>a, <1>0, <2>1, <2>2
    <2>3. CASE s \notin bad
      <3>1. /\ u \in KqueueTables /\ u.max = tbl.max
            /\ \A x \in Src, g \in RW : u.filt[x][g] =
                  IF x # s \/ g \notin f THEN tbl.filt[x][g] ELSE "on"
        BY <1>0, <2>1, KeventIs
      <3>a. \A g : g \in gone <=> g \in flags[s] /\ g \notin f
        OBVIOUS
      <3> HIDE DEF u, gone
      <3>2. /\ tbl' \in KqueueTables /\ tbl'.max = u.max
            /\ \A x \in Src, g \in RW : tbl'.filt[x][g] =
                  IF x # s \/ g \notin gone THEN u.filt[x][g] ELSE "off"
        BY <2>1, <2>3, <3>1, KeventIs
      <3>3. Right(tbl', Listed', flags', bad')
        BY <1>0, <2>1, <2>3, <3>a, <3>1, <3>2
      <3> QED BY <1>a, <1>0, <2>1, <3>1, <3>2, <3>3
    <2> QED BY <2>2, <2>3
  <1>6. CASE \E n \in Counts : gwrl_set_options(n)
    <2> PICK n \in Counts : gwrl_set_options(n)
      BY <1>6
    <2>1. /\ count' = n /\ n \in Nat /\ Listed' = Listed /\ flags' = flags /\ bad' = bad
          /\ tbl' = [tbl EXCEPT !.max = IF n > @ THEN n ELSE @]
      BY SrcFacts, TypeOptions DEF gwrl_set_options, KqueueOptions, Still, histVars, sysVars
    <2>2. tbl' \in KqueueTables /\ tbl'.max = (IF n > tbl.max THEN n ELSE tbl.max)
          /\ tbl'.filt = tbl.filt
      BY <1>0, <2>1 DEF KqueueTables
    <2> QED BY <1>a, <1>0, <2>1, <2>2
  <1>7. ASSUME NEW s \in Client, Close(s) PROVE KqueueInv'
    <2> DEFINE f == {"RD", "WR"}
    <2>1. /\ count' = count /\ Listed' = Listed /\ flags' = flags /\ bad' = bad \cup {s} /\ s \in Src
          /\ tbl' = Kevent(tbl, s, f, "delete")
      BY <1>0, <1>7, TypeClose DEF Close, KqueueDel, Still
    <2>2. RW \subseteq f
      BY DEF RW
    <2> HIDE DEF f
    <2>3. /\ tbl' \in KqueueTables /\ tbl'.max = tbl.max
          /\ \A x \in Src, g \in RW : tbl'.filt[x][g] =
                IF x # s \/ g \notin f THEN tbl.filt[x][g] ELSE "none"
      BY <1>0, <2>1, KeventIs
    <2>4. Right(tbl', Listed', flags', bad')
      BY <1>0, <2>1, <2>2, <2>3
    <2> QED BY <1>a, <1>0, <2>1, <2>3, <2>4
  <1>8. ASSUME Still, Listed' = Listed, tbl' = tbl, count' = count, bad' = bad PROVE KqueueInv'
    BY <1>a, <1>0, <1>8 DEF Still, histVars
  <1>9. ASSUME NEW s \in Client, Condition(s) PROVE KqueueInv'
    BY <1>8, <1>9, TypeCondition DEF Condition
  <1>10. CASE gwrl_bkd_gather
    BY <1>8, <1>10, TypeGather DEF gwrl_bkd_gather, GatherPoll, Gathering, sysVars
  <1>11. CASE gwrl_dispatch \/ Ended \/ UNCHANGED vars
    BY <1>8, <1>11, TypeDispatch DEF sysVars
  <1> QED
    BY <1>0, <1>1, <1>2, <1>3, <1>4, <1>5, <1>6, <1>7, <1>9, <1>10, <1>11, AddingIs
    DEF Next, Operation, Adding

LEMMA EpollAdd ==
    ASSUME NEW t \in EpollTables, NEW fl, NEW s \in Src, NEW u, u = EpollCtl(t, fl, s, "ADD")
    PROVE  /\ u \in EpollTables /\ u.in = t.in \cup {s}
           /\ \A x \in Src : x # s \/ s \in t.in => u.interest[x] = t.interest[x]
           /\ s \notin t.in => u.interest[s] = Ask(fl[s])
  <1>1. CASE s \in t.in
    BY <1>1 DEF EpollCtl, EpollTables
  <1>2. CASE s \notin t.in
    <2> DEFINE ask == fl[s] \cap {"RD", "WR"}
    <2>1. u = [t EXCEPT !.in = @ \cup {s}, !.interest[s] = ask]
      BY <1>2 DEF EpollCtl
    <2>2. ask \in SUBSET RW /\ ask = Ask(fl[s])
      BY DEF RW, Ask
    <2> HIDE DEF ask
    <2>3. u = [interest |-> [t.interest EXCEPT ![s] = ask], in |-> t.in \cup {s}, max |-> t.max]
      BY <2>1 DEF EpollTables
    <2>4. [t.interest EXCEPT ![s] = ask] \in [Src -> SUBSET RW] /\ t.in \cup {s} \in SUBSET Src
          /\ t.max \in Nat /\ DOMAIN t.interest = Src
      BY <2>2 DEF EpollTables
    <2> QED BY <1>2, <2>2, <2>3, <2>4 DEF EpollTables
  <1> QED BY <1>1, <1>2

LEMMA EpollMod ==
    ASSUME NEW t \in EpollTables, NEW fl, NEW s \in Src, NEW u, u = EpollCtl(t, fl, s, "MOD")
    PROVE  /\ u \in EpollTables /\ u.in = t.in
           /\ \A x \in Src : x # s \/ s \notin t.in => u.interest[x] = t.interest[x]
           /\ s \in t.in => u.interest[s] = Ask(fl[s])
  <1>1. CASE s \notin t.in
    BY <1>1 DEF EpollCtl, EpollTables
  <1>2. CASE s \in t.in
    <2> DEFINE ask == fl[s] \cap {"RD", "WR"}
    <2>1. u = [t EXCEPT !.interest[s] = ask]
      BY <1>2 DEF EpollCtl
    <2>2. ask \in SUBSET RW /\ ask = Ask(fl[s])
      BY DEF RW, Ask
    <2> HIDE DEF ask
    <2> QED BY <1>2, <2>1, <2>2 DEF EpollTables
  <1> QED BY <1>1, <1>2

LEMMA EpollDel ==
    ASSUME NEW t \in EpollTables, NEW fl, NEW s \in Src, NEW u, u = EpollCtl(t, fl, s, "DEL")
    PROVE  /\ u \in EpollTables /\ u.in = t.in \ {s}
           /\ \A x \in Src : u.interest[x] = IF x # s THEN t.interest[x] ELSE {}
  <1>1. u = [t EXCEPT !.in = @ \ {s}, !.interest[s] = {}]
    BY DEF EpollCtl
  <1>2. u = [interest |-> [t.interest EXCEPT ![s] = {}], in |-> t.in \ {s}, max |-> t.max]
    BY <1>1 DEF EpollTables
  <1>3. [t.interest EXCEPT ![s] = {}] \in [Src -> SUBSET RW] /\ t.in \ {s} \in SUBSET Src
        /\ t.max \in Nat /\ DOMAIN t.interest = Src
    BY DEF EpollTables
  <1> QED BY <1>2, <1>3 DEF EpollTables

LEMMA EpollStep ==
    ASSUME Inv, [Next]_vars, kind = "epoll"
    PROVE  EpollInv'
  <1>0. /\ TypeOK /\ tbl \in EpollTables /\ tbl.in = Listed \ (bad \cup off \cup muted)
        /\ \A s \in Src : tbl.interest[s] = IF s \in tbl.in THEN Ask(flags[s]) ELSE {}
        /\ Listed \subseteq Src /\ Client \subseteq Src /\ flags \in [Src -> Flags]
        /\ bad \subseteq Listed /\ off \subseteq Listed /\ muted \subseteq Listed
    BY ListFacts, SrcFacts DEF Inv, TableInv, EpollInv, TypeOK
  <1>a. ASSUME tbl' \in EpollTables, tbl'.in = Listed' \ (bad' \cup off' \cup muted'),
               \A s \in Src : tbl'.interest[s] = IF s \in tbl'.in THEN Ask(flags'[s]) ELSE {}
        PROVE  EpollInv'
    BY <1>a DEF EpollInv
  <1>1. ASSUME NEW s \in Client, NEW f \in Flags, Add(s, f) PROVE EpollInv'
    <2> DEFINE fl == [flags EXCEPT ![s] = f]
    <2>1. Listed' = Listed \cup {s} /\ s \notin Listed /\ s \in Src /\ bad' = bad /\ off' = off
          /\ muted' = muted /\ flags' = fl /\ tbl' = EpollCtl(tbl, fl, s, "ADD")
      BY <1>0, <1>1, TypeAdd DEF Add, gwrl_bkd_src_add, sysVars
    <2>2. \A x \in Src : x # s => fl[x] = flags[x]
      BY <1>0
    <2> HIDE DEF fl
    <2>3. /\ tbl' \in EpollTables /\ tbl'.in = tbl.in \cup {s}
          /\ \A x \in Src : tbl'.interest[x] = IF x # s THEN tbl.interest[x] ELSE Ask(fl[s])
      BY <1>0, <2>1, EpollAdd
    <2> QED BY <1>a, <1>0, <2>1, <2>2, <2>3
  <1>2. ASSUME NEW s \in Client, gwrl_src_del(s) \/ gwrl_src_disable(s)
        PROVE  EpollInv'
    <2>1. /\ Listed' \ (bad' \cup off' \cup muted') = (Listed \ (bad \cup off \cup muted)) \ {s}
          /\ s \in Src
          /\ \A x \in Src : x # s => flags'[x] = flags[x]
          /\ tbl' \in {IF s \in bad THEN tbl ELSE EpollCtl(tbl, fl, s, "DEL") : fl \in {flags, flags'}}
      <3>1. CASE gwrl_src_del(s)
        BY <1>0, <3>1, TypeDel DEF gwrl_src_del, gwrl_bkd_del_src, Kernel, Unmute
      <3>2. CASE gwrl_src_disable(s)
        BY <1>0, <3>2, TypeDisable
        DEF gwrl_src_disable, gwrl_bkd_disable_src, Kernel, Unmute, sysVars
      <3> QED BY <1>2, <3>1, <3>2
    <2>2. CASE s \in bad
      BY <1>a, <1>0, <2>1, <2>2
    <2>3. CASE s \notin bad
      <3>1. PICK fl \in {flags, flags'} : tbl' = EpollCtl(tbl, fl, s, "DEL")
        BY <2>1, <2>3
      <3>2. /\ tbl' \in EpollTables /\ tbl'.in = tbl.in \ {s}
            /\ \A x \in Src : tbl'.interest[x] = IF x # s THEN tbl.interest[x] ELSE {}
        BY <1>0, <2>1, <3>1, EpollDel
      <3> QED BY <1>a, <1>0, <2>1, <3>2
    <2> QED BY <2>2, <2>3
  <1>3. ASSUME NEW s \in Client, gwrl_src_enable(s) PROVE EpollInv'
    <2>1. /\ Listed' = Listed /\ s \in Listed /\ s \in Src /\ bad' = bad /\ off' = off \ {s}
          /\ muted' = muted \ {s}
          /\ \A x \in Src : Ask(flags'[x]) = Ask(flags[x])
          /\ tbl' = IF s \in bad THEN tbl ELSE EpollCtl(tbl, flags', s, "ADD")
      <3>1. \A x \in Src : Ask(flags'[x]) = Ask(flags[x])
        <4> TAKE x \in Src
        <4>1. flags'[x] = flags[x] \/ flags'[x] = flags[x] \cup {"EN"}
          BY <1>0, <1>3 DEF gwrl_src_enable
        <4> QED BY <4>1 DEF Ask
      <3> QED
        BY <1>0, <1>3, <3>1, TypeEnable
        DEF gwrl_src_enable, gwrl_bkd_enable_src, Kernel, Unmute, sysVars
    <2>2. CASE s \in bad
      BY <1>a, <1>0, <2>1, <2>2
    <2>3. CASE s \notin bad
      <3>1. /\ tbl' \in EpollTables /\ tbl'.in = tbl.in \cup {s}
            /\ \A x \in Src : x # s \/ s \in tbl.in => tbl'.interest[x] = tbl.interest[x]
            /\ s \notin tbl.in => tbl'.interest[s] = Ask(flags'[s])
        BY <1>0, <2>1, <2>3, EpollAdd
      <3> QED BY <1>a, <1>0, <2>1, <2>3, <3>1
    <2> QED BY <2>2, <2>3
  <1>4. ASSUME NEW s \in Client, NEW ask \in Asks[s], gwrl_src_file_update_flags(s, ask)
        PROVE  EpollInv'
    <2> DEFINE fl == [flags EXCEPT ![s] = ask \cup {"EN"}]
    <2>1. Listed' = Listed /\ s \in Listed /\ s \in Src /\ bad' = bad /\ off' = off \ {s}
          /\ muted' = (IF s \in off THEN muted \cup {s} ELSE muted)
          /\ flags' = fl /\ tbl' = IF s \in bad THEN tbl ELSE EpollCtl(tbl, fl, s, "MOD")
      BY <1>0, <1>4, TypeUpdate
      DEF gwrl_src_file_update_flags, gwrl_bkd_update_flags, Kernel, Unpolled, sysVars
    <2>2. \A x \in Src : x # s => fl[x] = flags[x]
      BY <1>0
    <2> HIDE DEF fl
    <2>3. CASE s \in bad
      BY <1>a, <1>0, <2>1, <2>2, <2>3
    <2>4. CASE s \notin bad
      <3>1. /\ tbl' \in EpollTables /\ tbl'.in = tbl.in
            /\ \A x \in Src : x # s \/ s \notin tbl.in => tbl'.interest[x] = tbl.interest[x]
            /\ s \in tbl.in => tbl'.interest[s] = Ask(fl[s])
        BY <1>0, <2>1, <2>4, EpollMod
      <3> QED BY <1>a, <1>0, <2>1, <2>2, <2>4, <3>1
    <2> QED BY <2>3, <2>4
  <1>5. CASE \E n \in Counts : gwrl_set_options(n)
    <2> PICK n \in Counts : gwrl_set_options(n)
      BY <1>5
    <2>1. /\ n \in Nat /\ Listed' = Listed /\ flags' = flags /\ bad' = bad /\ off' = off
          /\ muted' = muted
          /\ tbl' = [tbl EXCEPT !.max = IF n > @ THEN n ELSE @]
      BY SrcFacts, TypeOptions DEF gwrl_set_options, EpollOptions, Still, histVars, sysVars
    <2>2. tbl' \in EpollTables /\ tbl'.in = tbl.in /\ tbl'.interest = tbl.interest
      BY <1>0, <2>1 DEF EpollTables
    <2> QED BY <1>a, <1>0, <2>1, <2>2
  <1>6. ASSUME NEW s \in Client, Close(s) PROVE EpollInv'
    <2>1. /\ Listed' = Listed /\ flags' = flags /\ bad' = bad \cup {s} /\ s \in Src /\ off' = off
          /\ muted' = muted /\ tbl' = EpollCtl(tbl, flags, s, "DEL")
      BY <1>0, <1>6, TypeClose DEF Close, Still, histVars
    <2>2. /\ tbl' \in EpollTables /\ tbl'.in = tbl.in \ {s}
          /\ \A x \in Src : tbl'.interest[x] = IF x # s THEN tbl.interest[x] ELSE {}
      BY <1>0, <2>1, EpollDel
    <2> QED BY <1>a, <1>0, <2>1, <2>2
  <1>7. ASSUME Still, Listed' = Listed, tbl' = tbl, bad' = bad PROVE EpollInv'
    BY <1>a, <1>0, <1>7 DEF Still, histVars
  <1>8. ASSUME NEW s \in Client, Condition(s) PROVE EpollInv'
    BY <1>7, <1>8, TypeCondition DEF Condition
  <1>9. CASE gwrl_bkd_gather
    BY <1>7, <1>9, TypeGather DEF gwrl_bkd_gather, GatherPoll, Gathering, sysVars
  <1>10. CASE gwrl_dispatch \/ Ended \/ UNCHANGED vars
    BY <1>7, <1>10, TypeDispatch DEF sysVars
  <1> QED
    BY <1>0, <1>1, <1>2, <1>3, <1>4, <1>5, <1>6, <1>8, <1>9, <1>10, AddingIs
    DEF Next, Operation, Adding

(* The array refilled with the sources of the sequence on.  Slots that were   *)
(* in use before are zeroed first.                                            *)
LEMMA FilledIs ==
    ASSUME NEW t \in PollTables, NEW on \in Seq(Src), NEW fl,
           \A i, j \in 1..Len(on) : on[i] = on[j] => i = j, NEW u \in Filled(t, on, fl)
    PROVE  /\ u \in PollTables /\ u.max = t.max /\ u.lkp = t.lkp /\ Len(u.fds) = Len(on)
           /\ \A i \in 1..Len(on) :
                /\ u.fds[i].fd = on[i] /\ Ask(fl[on[i]]) \subseteq u.fds[i].events
                /\ Len(on) <= Len(t.fds) => u.fds[i].events = Ask(fl[on[i]])
           /\ \A s \in Src : u.pfd[s] # 0 => u.pfd[s] \in 1..Len(on) /\ on[u.pfd[s]] = s
           /\ \A i \in 1..Len(on) : u.pfd[on[i]] # 0
  <1> DEFINE zeroed == IF Len(t.fds) > t.clean THEN Len(t.fds) ELSE t.clean
             Garbage == [{i \in 1..Len(on) : i > zeroed} -> SUBSET {"RD", "WR"}]
  <1>1. PICK old \in Garbage :
            u = [t EXCEPT !.fds = [i \in 1..Len(on) |->
                               [fd     |-> on[i],
                                events |-> Ask(fl[on[i]]) \cup
                                           (IF i > zeroed THEN old[i] ELSE {})]],
                   !.pfd = [s \in DOMAIN @ |-> IF s \in ToSet(on)
                                               THEN CHOOSE i \in 1..Len(on) : on[i] = s ELSE 0],
                   !.lost = {}, !.clean = zeroed]
    BY DEF Filled
  <1> DEFINE Events(i) == Ask(fl[on[i]]) \cup (IF i > zeroed THEN old[i] ELSE {})
             fds == [i \in 1..Len(on) |-> [fd |-> on[i], events |-> Events(i)]]
             pfd == [s \in Src |-> IF s \in ToSet(on)
                                   THEN CHOOSE i \in 1..Len(on) : on[i] = s ELSE 0]
  <1>2. /\ t = [fds |-> t.fds, max |-> t.max, clean |-> t.clean, lkp |-> t.lkp, pfd |-> t.pfd,
                lost |-> t.lost]
        /\ t.fds \in Seq([fd : Src, events : SUBSET RW]) /\ t.max \in Nat /\ t.clean \in Nat
        /\ t.lkp \in SUBSET Src /\ DOMAIN t.pfd = Src /\ Len(t.fds) \in Nat
    BY LenProperties DEF PollTables
  <1>3. u = [fds |-> fds, max |-> t.max, clean |-> zeroed, lkp |-> t.lkp, pfd |-> pfd,
             lost |-> {}]
    <2>1. u.fds = fds /\ u.max = t.max /\ u.clean = zeroed /\ u.lkp = t.lkp /\ u.pfd = pfd
          /\ u.lost = {}
      BY <1>1, <1>2
    <2> HIDE DEF fds, pfd, zeroed
    <2>2. u = [fds |-> u.fds, max |-> u.max, clean |-> u.clean, lkp |-> u.lkp, pfd |-> u.pfd,
               lost |-> u.lost]
      BY <1>1, <1>2 DEF PollTables
    <2> QED BY <2>1, <2>2
  <1>4. Len(on) \in Nat /\ DOMAIN on = 1..Len(on) /\ zeroed \in Nat /\ Len(t.fds) <= zeroed
        /\ \A i \in 1..Len(on) : on[i] \in Src
    BY <1>2, LenProperties, ElementOfSeq
  <1>5. \A i \in 1..Len(on) : Events(i) \in SUBSET RW /\ (i <= zeroed => Events(i) = Ask(fl[on[i]]))
    BY <1>1, <1>4 DEF Ask, RW
  <1>6. \A i \in 1..Len(on) : Ask(fl[on[i]]) \subseteq Events(i)
    OBVIOUS
  <1>7. /\ \A i \in 1..Len(on) : fds[i] = [fd |-> on[i], events |-> Events(i)]
        /\ DOMAIN fds = 1..Len(on)
    OBVIOUS
  <1>8. fds \in Seq([fd : Src, events : SUBSET RW]) /\ Len(fds) = Len(on)
    <2> HIDE DEF zeroed, Events
    <2>1. fds \in [1..Len(on) -> [fd : Src, events : SUBSET RW]]
      BY <1>4, <1>5
    <2>2. fds \in Seq([fd : Src, events : SUBSET RW])
      BY <2>1, <1>4, SeqDef
    <2> HIDE DEF fds
    <2>3. Len(fds) \in Nat /\ DOMAIN fds = 1..Len(fds)
      BY <2>2, LenProperties
    <2> QED BY <1>4, <1>7, <2>2, <2>3
  <1>9. \A s \in Src : /\ pfd[s] \in Nat
                       /\ pfd[s] # 0 => pfd[s] \in 1..Len(on) /\ on[pfd[s]] = s
                       /\ s \in ToSet(on) => pfd[s] # 0
    <2> TAKE s \in Src
    <2>1. CASE s \in ToSet(on)
      <3>1. \E i \in 1..Len(on) : on[i] = s
        BY <1>4, <2>1 DEF ToSet
      <3>2. pfd[s] = CHOOSE i \in 1..Len(on) : on[i] = s
        BY <2>1
      <3>3. pfd[s] \in 1..Len(on) /\ on[pfd[s]] = s
        BY <3>1, <3>2
      <3> QED BY <1>4, <3>3
    <2>2. CASE s \notin ToSet(on)
      BY <2>2
    <2> QED BY <2>1, <2>2
  <1>b. \A i \in 1..Len(on) : on[i] \in ToSet(on)
    BY <1>4 DEF ToSet
  <1>10. pfd \in [Src -> Nat]
    <2>1. DOMAIN pfd = Src /\ pfd = [s \in DOMAIN pfd |-> pfd[s]]
      OBVIOUS
    <2> HIDE DEF pfd
    <2> QED BY <2>1, <1>9
  <1> HIDE DEF fds, pfd, Events
  <1>11. u \in PollTables
    BY <1>2, <1>3, <1>4, <1>8, <1>10 DEF PollTables
  <1>12. ASSUME NEW i \in 1..Len(on)
         PROVE /\ u.fds[i].fd = on[i] /\ Ask(fl[on[i]]) \subseteq u.fds[i].events
               /\ Len(on) <= Len(t.fds) => u.fds[i].events = Ask(fl[on[i]])
    <2>1. u.fds[i].fd = on[i] /\ u.fds[i].events = Events(i)
      BY <1>3, <1>7
    <2>2. Len(on) <= Len(t.fds) => i <= zeroed
      BY <1>2, <1>4
    <2> QED BY <2>1, <2>2, <1>5, <1>6
  <1>13. \A i \in 1..Len(on) : u.pfd[on[i]] # 0
    BY <1>3, <1>4, <1>9, <1>b
  <1> QED BY <1>3, <1>8, <1>9, <1>11, <1>12, <1>13

(* gwrl_bkd_recalc_srcs gives a slot to each enabled source.                  *)
Recalculated(u, t, fl, S) ==
    /\ u \in PollTables /\ u.max = t.max /\ u.lkp = t.lkp /\ Len(u.fds) = Cardinality(S)
    /\ \A i \in 1..Len(u.fds) :
         /\ u.fds[i].fd \in S /\ Ask(fl[u.fds[i].fd]) \subseteq u.fds[i].events
         /\ Cardinality(S) <= Len(t.fds) => u.fds[i].events = Ask(fl[u.fds[i].fd])
         /\ \A j \in 1..Len(u.fds) : u.fds[i].fd = u.fds[j].fd => i = j
         /\ u.pfd[u.fds[i].fd] # 0
    /\ \A s \in S : \E i \in 1..Len(u.fds) : u.fds[i].fd = s
    /\ \A s \in Src : u.pfd[s] # 0 => u.pfd[s] \in 1..Len(u.fds) /\ u.fds[u.pfd[s]].fd = s

LEMMA RecalcIs ==
    ASSUME NEW t \in PollTables, NEW l, NEW fl, NEW S \in SUBSET Src,
           S = {s \in ToSet(l) : "EN" \in fl[s]}, NEW u \in gwrl_bkd_recalc_srcs(t, l, fl)
    PROVE  Recalculated(u, t, fl, S)
  <1>1. PICK on \in InOrder(l, S) : u \in Filled(t, on, fl)
    BY DEF gwrl_bkd_recalc_srcs
  <1>2. IsFiniteSet(S)
    BY SrcFacts, FS_Subset
  <1>3. /\ on \in Seq(S) /\ Len(on) = Cardinality(S) /\ DOMAIN on = 1..Len(on) /\ ToSet(on) = S
        /\ \A i, j \in 1..Len(on) : on[i] = on[j] => i = j
    BY <1>1, <1>2, InOrderIs
  <1>4. on \in Seq(Src)
    BY <1>3, SeqMonotonic
  <1>5. /\ u \in PollTables /\ u.max = t.max /\ u.lkp = t.lkp /\ Len(u.fds) = Len(on)
        /\ \A i \in 1..Len(on) :
             /\ u.fds[i].fd = on[i] /\ Ask(fl[on[i]]) \subseteq u.fds[i].events
             /\ Len(on) <= Len(t.fds) => u.fds[i].events = Ask(fl[on[i]])
        /\ \A s \in Src : u.pfd[s] # 0 => u.pfd[s] \in 1..Len(on) /\ on[u.pfd[s]] = s
        /\ \A i \in 1..Len(on) : u.pfd[on[i]] # 0
    <2>1. \A i, j \in 1..Len(on) : on[i] = on[j] => i = j
      BY <1>3
    <2>2. u \in Filled(t, on, fl)
      BY <1>1
    <2> QED BY <1>4, <2>1, <2>2, FilledIs
  <1>6. \A i \in 1..Len(on) : on[i] \in S
    BY <1>3, ElementOfSeq
  <1>7. \A s \in S : \E i \in 1..Len(on) : on[i] = s
    BY <1>3 DEF ToSet
  <1>8. ASSUME NEW i \in 1..Len(u.fds)
        PROVE  /\ u.fds[i].fd \in S /\ Ask(fl[u.fds[i].fd]) \subseteq u.fds[i].events
               /\ Cardinality(S) <= Len(t.fds) => u.fds[i].events = Ask(fl[u.fds[i].fd])
               /\ u.pfd[u.fds[i].fd] # 0
    <2>1. i \in 1..Len(on) /\ u.fds[i].fd = on[i]
      BY <1>5
    <2> QED BY <1>3, <1>5, <1>6, <2>1
  <1>9. ASSUME NEW i \in 1..Len(u.fds), NEW j \in 1..Len(u.fds), u.fds[i].fd = u.fds[j].fd
        PROVE  i = j
    <2>1. on[i] = on[j] /\ i \in 1..Len(on) /\ j \in 1..Len(on)
      BY <1>5, <1>9
    <2> QED BY <1>3, <2>1
  <1>10. \A s \in S : \E i \in 1..Len(u.fds) : u.fds[i].fd = s
    BY <1>5, <1>7
  <1>11. \A s \in Src : u.pfd[s] # 0 => u.pfd[s] \in 1..Len(u.fds) /\ u.fds[u.pfd[s]].fd = s
    BY <1>5
  <1> QED BY <1>3, <1>5, <1>8, <1>9, <1>10, <1>11 DEF Recalculated

LEMMA RecalcLength ==
    ASSUME NEW t \in PollTables, NEW l \in Seq(Src), NEW fl, NEW u \in gwrl_bkd_recalc_srcs(t, l, fl)
    PROVE  Len(u.fds) \in Nat
  <1> DEFINE S == {s \in ToSet(l) : "EN" \in fl[s]}
  <1>1. S \in SUBSET Src /\ IsFiniteSet(S)
    BY SeqOfSources, SrcFacts, FS_Subset
  <1> HIDE DEF S
  <1>2. S = {s \in ToSet(l) : "EN" \in fl[s]}
    BY DEF S
  <1>3. Len(u.fds) = Cardinality(S)
    BY <1>1, <1>2, RecalcIs DEF Recalculated
  <1> QED BY <1>1, <1>3, FS_CardinalityType

(* Every enabled source has a slot, so that there are enough of them.         *)
LEMMA EnabledFit ==
    ASSUME Inv, kind = "poll", astray = {}, NEW S, \A s \in S : s \in Listed /\ "EN" \in flags[s]
    PROVE  Cardinality(S) <= Len(tbl.fds)
  <1> DEFINE f == [i \in Slots |-> tbl.fds[i].fd]
             T == {tbl.fds[i].fd : i \in Slots}
  <1>1. Len(tbl.fds) \in Nat /\ Slots = 1..Len(tbl.fds)
    BY LenProperties DEF Inv, TableInv, PollInv, PollTables, Slots
  <1>2. f \in Surjection(Slots, T)
    BY DEF Surjection
  <1>3. IsFiniteSet(Slots) /\ Cardinality(Slots) = Len(tbl.fds)
    BY <1>1, FS_Interval
  <1>4. IsFiniteSet(T) /\ Cardinality(T) <= Cardinality(Slots)
    BY <1>2, <1>3, FS_Surjection
  <1>5. S \in SUBSET T
    BY DEF Inv, TableInv, PollInv
  <1>6. Cardinality(S) <= Cardinality(T) /\ Cardinality(S) \in Nat /\ Cardinality(T) \in Nat
    BY <1>4, <1>5, FS_Subset, FS_CardinalityType
  <1> QED BY <1>1, <1>3, <1>4, <1>6

(* A slot that asks for more than its source is one of an unclear source.     *)
LEMMA UnclearCovers ==
    ASSUME kind = "poll", unclear' = Unclear(tbl'), NEW i \in 1..Len(tbl'.fds), tbl'.fds[i].fd \in Src
    PROVE  tbl'.fds[i].events \subseteq flags'[tbl'.fds[i].fd] \/ tbl'.fds[i].fd \in unclear'
  BY DEF Unclear, PollWatched

(* A recalculation leaves a sound table, if the enabled sources fit.          *)
LEMMA PollRecalc ==
    ASSUME kind = "poll", kind' = kind, TypeOK', OffInv', NEW t \in PollTables,
           t.lkp = Listed', tbl' \in gwrl_bkd_recalc_srcs(t, list', flags'),
           unclear' = Unclear(tbl'), NEW S, S = {s \in Listed' : "EN" \in flags'[s]},
           Cardinality(S) <= t.max \/ (astray' = {} => Len(tbl'.fds) <= t.max)
    PROVE  /\ PollInv' /\ unclear' \subseteq Listed'
           /\ Cardinality(S) <= Len(t.fds) => unclear' = {}
  <1>1. Listed' \subseteq Src /\ flags' \in [Src -> Flags]
    BY SeqOfSources DEF TypeOK, Listed
  <1>2. S \in SUBSET Src /\ S = {s \in ToSet(list') : "EN" \in flags'[s]}
    BY <1>1 DEF Listed
  <1>3. /\ tbl' \in PollTables /\ tbl'.max = t.max /\ tbl'.lkp = t.lkp /\ Len(tbl'.fds) = Cardinality(S)
        /\ \A i \in 1..Len(tbl'.fds) :
             /\ tbl'.fds[i].fd \in S /\ Ask(flags'[tbl'.fds[i].fd]) \subseteq tbl'.fds[i].events
             /\ Cardinality(S) <= Len(t.fds) => tbl'.fds[i].events = Ask(flags'[tbl'.fds[i].fd])
             /\ \A j \in 1..Len(tbl'.fds) : tbl'.fds[i].fd = tbl'.fds[j].fd => i = j
             /\ tbl'.pfd[tbl'.fds[i].fd] # 0
        /\ \A s \in S : \E i \in 1..Len(tbl'.fds) : tbl'.fds[i].fd = s
        /\ \A s \in Src : tbl'.pfd[s] # 0 =>
              tbl'.pfd[s] \in 1..Len(tbl'.fds) /\ tbl'.fds[tbl'.pfd[s]].fd = s
    <2>1. Recalculated(tbl', t, flags', S)
      BY <1>2, RecalcIs
    <2> QED BY <2>1 DEF Recalculated
  <1>4. ASSUME NEW i \in 1..Len(tbl'.fds)
        PROVE  /\ tbl'.fds[i].fd \in Listed' \ off'
               /\ tbl'.fds[i].events \subseteq flags'[tbl'.fds[i].fd] \/ tbl'.fds[i].fd \in unclear'
    <2>1. tbl'.fds[i].fd \in S /\ tbl'.fds[i].fd \in Src
      BY <1>2, <1>3
    <2>2. tbl'.fds[i].fd \in Listed' \ off'
      BY <2>1 DEF OffInv
    <2> QED BY <2>1, <2>2, UnclearCovers
  <1>5. PollInv'
    BY <1>3, <1>4 DEF PollInv, Slots
  <1>6. unclear' \subseteq Listed'
    <2> SUFFICES ASSUME NEW s \in unclear' PROVE s \in Listed'
      OBVIOUS
    <2>1. ~(PollWatched(tbl', s) \subseteq flags'[s])
      BY DEF Unclear
    <2>2. PICK i \in 1..Len(tbl'.fds) : tbl'.fds[i].fd = s
      BY <2>1 DEF PollWatched
    <2> QED BY <1>4, <2>2
  <1>7. ASSUME Cardinality(S) <= Len(t.fds), NEW s \in unclear' PROVE FALSE
    <2>1. ~(PollWatched(tbl', s) \subseteq flags'[s])
      BY <1>7 DEF Unclear
    <2>2. PICK i \in 1..Len(tbl'.fds) : tbl'.fds[i].fd = s /\ ~(tbl'.fds[i].events \subseteq flags'[s])
      BY <2>1 DEF PollWatched
    <2> QED BY <1>3, <1>7, <2>2 DEF Ask
  <1> QED BY <1>5, <1>6, <1>7

(* One more slot; only a full array moves, and only memory that was not       *)
(* initialised holds events already.                                          *)
SlotAdded(u, t, fl, s, c, old) ==
    /\ Len(t.fds) + 1 <= t.clean => old = {}
    /\ u.fds = Append(t.fds, [fd |-> s, events |-> Ask(fl[s]) \cup old])
    /\ u.max = IF Len(t.fds) # t.max THEN t.max ELSE t.max + c
    /\ u.clean = t.clean /\ u.lkp = t.lkp \cup {s} /\ u.lost \in SUBSET Src
    /\ u.pfd = [t.pfd EXCEPT ![s] = Len(t.fds) + 1]
    /\ u = [fds |-> u.fds, max |-> u.max, clean |-> u.clean, lkp |-> u.lkp,
            pfd |-> u.pfd, lost |-> u.lost]

LEMMA PollAddIs ==
    ASSUME NEW t \in PollTables, NEW fl, NEW s \in Src, NEW c \in Nat, NEW u \in PollAdd(t, fl, s, c)
    PROVE  \E old \in SUBSET RW : SlotAdded(u, t, fl, s, c, old)
  <1> DEFINE n == Len(t.fds) + 1
             O == IF n <= t.clean THEN {{}} ELSE SUBSET {"RD", "WR"}
  <1>1. PICK g \in Grown(t, c) :
            u \in {[g EXCEPT !.pfd[s] = n, !.lost = @ \ {s}, !.lkp = @ \cup {s},
                             !.fds = Append(@, [fd |-> s, events |-> Ask(fl[s]) \cup old])] :
                      old \in O}
    BY DEF PollAdd
  <1>2. /\ g.fds = t.fds /\ g.max = IF Len(t.fds) # t.max THEN t.max ELSE t.max + c
        /\ g.clean = t.clean /\ g.lkp = t.lkp /\ g.pfd = t.pfd /\ g.lost \in SUBSET Src
        /\ g \in PollTables
    <2>1. CASE Len(t.fds) # t.max
      BY <2>1 DEF Grown, PollTables
    <2>2. CASE Len(t.fds) = t.max
      <3>1. PICK moved \in {t.lost, t.lkp} : g = [t EXCEPT !.max = @ + c, !.lost = moved]
        BY <2>2 DEF Grown
      <3>2. moved \in SUBSET Src /\ t.max + c \in Nat
        BY DEF PollTables
      <3> QED BY <2>2, <3>1, <3>2 DEF PollTables
    <2> QED BY <2>1, <2>2
  <1>3. O \subseteq SUBSET RW /\ (n <= t.clean => O = {{}})
    BY DEF RW
  <1> HIDE DEF n, O
  <1>4. PICK old \in O :
            u = [g EXCEPT !.pfd[s] = n, !.lost = @ \ {s}, !.lkp = @ \cup {s},
                          !.fds = Append(@, [fd |-> s, events |-> Ask(fl[s]) \cup old])]
    BY <1>1
  <1> DEFINE slot == [fd |-> s, events |-> Ask(fl[s]) \cup old]
  <1> HIDE DEF slot
  <1>5. u = [g EXCEPT !.pfd[s] = n, !.lost = @ \ {s}, !.lkp = @ \cup {s}, !.fds = Append(@, slot)]
    BY <1>4 DEF slot
  <1>6. /\ u.fds = Append(t.fds, slot) /\ u.max = g.max /\ u.clean = g.clean
        /\ u.lkp = g.lkp \cup {s} /\ u.lost = g.lost \ {s} /\ u.pfd = [g.pfd EXCEPT ![s] = n]
        /\ u = [fds |-> u.fds, max |-> u.max, clean |-> u.clean, lkp |-> u.lkp,
                pfd |-> u.pfd, lost |-> u.lost]
    BY <1>2, <1>5 DEF PollTables
  <1>7. SlotAdded(u, t, fl, s, c, old)
    BY <1>2, <1>3, <1>6 DEF SlotAdded, slot, n
  <1> QED BY <1>3, <1>7

(* What each operation leaves of the array of pollfds, and which sources it   *)
(* makes unclear.                                                             *)
LEMMA PollAdds ==
    ASSUME Inv, kind = "poll", NEW s \in Client, NEW f \in Flags, Add(s, f)
    PROVE  PollInv' /\ unclear' \subseteq unclear \cup {s}
  <1>0. /\ TypeOK /\ tbl \in PollTables /\ Len(tbl.fds) <= tbl.max /\ tbl.lkp = Listed
        /\ Listed \subseteq Src /\ s \in Src /\ flags \in [Src -> Flags] /\ off \subseteq Listed
        /\ tbl.fds \in Seq([fd : Src, events : SUBSET RW]) /\ tbl.max \in Nat /\ tbl.clean \in Nat
        /\ astray = {} /\ tbl.lost \in SUBSET Src
        /\ tbl.pfd \in [Src -> Nat] /\ Len(tbl.fds) \in Nat /\ count \in Nat \ {0}
    <2> USE ListFacts, SrcFacts
    <2>1. TypeOK /\ tbl \in PollTables /\ Len(tbl.fds) <= tbl.max /\ tbl.lkp = Listed
          /\ astray = {}
      BY DEF Inv, TableInv, PollInv, Add, Calling
    <2>2. tbl.fds \in Seq([fd : Src, events : SUBSET RW]) /\ Len(tbl.fds) \in Nat
      BY <2>1, LenProperties DEF PollTables
    <2> QED BY <2>1, <2>2 DEF PollTables, TypeOK
  <1> DEFINE full == Len(tbl.fds) = tbl.max
             n == Len(tbl.fds) + 1
             fl == [flags EXCEPT ![s] = f]
  <1>1. /\ Listed' = Listed \cup {s} /\ s \notin Listed /\ flags' = fl /\ off' = off
        /\ kind' = kind /\ tbl' \in PollAdd(tbl, fl, s, count) /\ unclear' = Unclear(tbl')
    BY TypeAdd DEF Add, gwrl_bkd_src_add
  <1>2. fl[s] = f /\ \A x \in Src : x # s => fl[x] = flags[x]
    BY <1>0
  <1>3. PICK old \in SUBSET RW :
            /\ tbl'.fds = Append(tbl.fds, [fd |-> s, events |-> Ask(fl[s]) \cup old])
            /\ tbl'.max = IF ~full THEN tbl.max ELSE tbl.max + count
            /\ tbl'.clean = tbl.clean /\ tbl'.lkp = tbl.lkp \cup {s} /\ tbl'.lost \in SUBSET Src
            /\ tbl'.pfd = [tbl.pfd EXCEPT ![s] = n]
            /\ tbl' = [fds |-> tbl'.fds, max |-> tbl'.max, clean |-> tbl'.clean, lkp |-> tbl'.lkp,
                       pfd |-> tbl'.pfd, lost |-> tbl'.lost]
    <2> HIDE DEF fl
    <2>1. PICK old \in SUBSET RW : SlotAdded(tbl', tbl, fl, s, count, old)
      BY <1>0, <1>1, PollAddIs
    <2> QED BY <2>1 DEF SlotAdded
  <1> DEFINE slot == [fd |-> s, events |-> Ask(f) \cup old]
             pfd == [tbl.pfd EXCEPT ![s] = n]
  <1>4. /\ tbl'.fds = Append(tbl.fds, slot) /\ tbl'.lkp = Listed \cup {s} /\ tbl'.pfd = pfd
        /\ tbl'.max = IF full THEN tbl.max + count ELSE tbl.max
        /\ tbl'.clean = tbl.clean /\ tbl'.lost \in SUBSET Src
    BY <1>0, <1>2, <1>3
  <1>5. tbl' = [fds |-> tbl'.fds, max |-> tbl'.max, clean |-> tbl'.clean, lkp |-> tbl'.lkp,
                pfd |-> tbl'.pfd, lost |-> tbl'.lost]
    BY <1>3
  <1>6. slot \in [fd : Src, events : SUBSET RW] /\ slot.fd = s /\ Ask(f) \subseteq slot.events
    BY <1>0 DEF Ask, RW
  <1>7. \A x \in Src : pfd[x] = IF x = s THEN n ELSE tbl.pfd[x]
    BY <1>0
  <1>8. pfd \in [Src -> Nat]
    BY <1>0
  <1> HIDE DEF slot, fl, pfd
  <1>9. /\ tbl'.fds \in Seq([fd : Src, events : SUBSET RW]) /\ Len(tbl'.fds) = n
        /\ tbl'.fds[n] = slot /\ \A i \in 1..Len(tbl.fds) : tbl'.fds[i] = tbl.fds[i]
    BY <1>0, <1>4, <1>6, AppendProperties
  <1>10. tbl' \in PollTables
    <2>1. tbl'.max \in Nat /\ tbl'.lkp \in SUBSET Src /\ tbl'.clean \in Nat
          /\ tbl'.lost \in SUBSET Src /\ tbl'.pfd \in [Src -> Nat]
      BY <1>0, <1>4, <1>8
    <2> QED BY <1>5, <1>9, <2>1 DEF PollTables
  <1>11. \A i \in 1..n : i = n \/ i \in Slots
    <2>1. Len(tbl.fds) \in Nat
      BY <1>0
    <2> QED BY <2>1 DEF Slots
  <1>12. ASSUME NEW i \in 1..n
         PROVE  /\ tbl'.fds[i].fd \in Listed' \ off'
                /\ Ask(flags'[tbl'.fds[i].fd]) \subseteq tbl'.fds[i].events
                /\ i # n => tbl'.fds[i].fd \in Listed
                /\ \A j \in Slots : tbl'.fds[i].fd = tbl'.fds[j].fd => i = j
                /\ tbl'.pfd[tbl'.fds[i].fd] # 0
    <2>1. CASE i = n
      <3>1. tbl'.fds[i].fd = s /\ flags'[s] = f /\ tbl'.fds[i].events = slot.events
        BY <1>1, <1>2, <1>6, <1>9, <2>1
      <3>2. \A j \in Slots : tbl'.fds[j].fd \in Listed
        BY <1>0, <1>1, <1>9 DEF Inv, TableInv, PollInv, Slots
      <3>3. tbl'.pfd[s] # 0
        BY <1>0, <1>4, <1>7
      <3> QED BY <1>0, <1>1, <1>6, <2>1, <3>1, <3>2, <3>3
    <2>2. CASE i \in Slots
      <3>1. tbl'.fds[i] = tbl.fds[i] /\ \A j \in Slots : tbl'.fds[j] = tbl.fds[j]
        BY <1>9, <2>2 DEF Slots
      <3>2. /\ tbl.fds[i].fd \in Listed \ off /\ Ask(flags[tbl.fds[i].fd]) \subseteq tbl.fds[i].events
            /\ \A j \in Slots : tbl.fds[i].fd = tbl.fds[j].fd => i = j
            /\ tbl.pfd[tbl.fds[i].fd] # 0
        BY <1>0, <2>2 DEF Inv, TableInv, PollInv
      <3>3. flags'[tbl.fds[i].fd] = flags[tbl.fds[i].fd]
        BY <1>0, <1>1, <1>2, <3>2
      <3>4. tbl'.pfd[tbl.fds[i].fd] # 0
        BY <1>0, <1>1, <1>4, <1>7, <3>2
      <3> QED BY <1>1, <3>1, <3>2, <3>3, <3>4
    <2> QED BY <1>11, <2>1, <2>2
  <1>13. ASSUME NEW i \in 1..n, NEW j \in 1..n, tbl'.fds[i].fd = tbl'.fds[j].fd PROVE i = j
    BY <1>11, <1>12, <1>13
  <1>14. ASSUME NEW x \in Listed', "EN" \in flags'[x] PROVE \E i \in 1..n : tbl'.fds[i].fd = x
    <2>1. CASE x = s
      <3>1. n \in 1..n
        BY <1>0
      <3> QED BY <1>6, <1>9, <2>1, <3>1
    <2>2. CASE x # s
      <3>1. x \in Listed /\ "EN" \in flags[x]
        BY <1>0, <1>1, <1>2, <1>14, <2>2
      <3>2. PICK i \in Slots : tbl.fds[i].fd = x
        BY <1>0, <3>1 DEF Inv, TableInv, PollInv
      <3>3. i \in 1..n /\ tbl'.fds[i].fd = x
        BY <1>0, <1>9, <3>2 DEF Slots
      <3> QED BY <3>3
    <2> QED BY <2>1, <2>2
  <1>15. ASSUME NEW x \in Src, tbl'.pfd[x] # 0
         PROVE  tbl'.pfd[x] \in 1..n /\ tbl'.fds[tbl'.pfd[x]].fd = x
    <2>1. CASE x = s
      BY <1>0, <1>4, <1>6, <1>7, <1>9, <2>1
    <2>2. CASE x # s
      <3>1. tbl'.pfd[x] = tbl.pfd[x] /\ tbl.pfd[x] # 0
        BY <1>4, <1>7, <1>15, <2>2
      <3>2. tbl.pfd[x] \in Slots /\ tbl.fds[tbl.pfd[x]].fd = x
        BY <1>0, <3>1 DEF Inv, TableInv, PollInv
      <3>3. tbl'.fds[tbl.pfd[x]] = tbl.fds[tbl.pfd[x]]
        BY <1>9, <3>2 DEF Slots
      <3>4. tbl.pfd[x] \in 1..n
        BY <1>0, <3>2 DEF Slots
      <3> QED BY <3>1, <3>2, <3>3, <3>4
    <2> QED BY <2>1, <2>2
  <1>16. Len(tbl'.fds) <= tbl'.max
    BY <1>0, <1>4, <1>9
  <1>17. \A i \in 1..n : tbl'.fds[i].events \subseteq flags'[tbl'.fds[i].fd] \/ tbl'.fds[i].fd \in unclear'
    <2> TAKE i \in 1..n
    <2>1. tbl'.fds[i].fd \in Src /\ i \in 1..Len(tbl'.fds)
      BY <1>0, <1>1, <1>9, <1>12
    <2> QED BY <1>1, <2>1, UnclearCovers
  <1>18. PollInv'
    BY <1>1, <1>4, <1>9, <1>10, <1>12, <1>13, <1>14, <1>15, <1>16, <1>17 DEF PollInv, Slots
  <1>19. ASSUME NEW x \in unclear', x # s PROVE x \in unclear
    <2>1. x \in Src /\ ~(PollWatched(tbl', x) \subseteq flags'[x])
      BY <1>1, <1>19 DEF Unclear
    <2>2. PICK i \in 1..n : tbl'.fds[i].fd = x /\ ~(tbl'.fds[i].events \subseteq flags'[x])
      BY <1>9, <2>1 DEF PollWatched
    <2>3. i \in Slots
      BY <1>6, <1>9, <1>11, <1>19, <2>2
    <2>4. tbl.fds[i].fd = x /\ ~(tbl.fds[i].events \subseteq flags[x])
      BY <1>1, <1>2, <1>9, <1>19, <2>1, <2>2, <2>3 DEF Slots
    <2> QED BY <1>0, <2>3, <2>4 DEF Inv, TableInv, PollInv
  <1> QED BY <1>18, <1>19

LEMMA PollDels ==
    ASSUME Inv, kind = "poll", NEW s \in Client, gwrl_src_del(s)
    PROVE  PollInv' /\ unclear' = {}
  <1> DEFINE t == [tbl EXCEPT !.lkp = @ \ {s}]
             S == {x \in Listed' : "EN" \in flags'[x]}
  <1>0. tbl \in PollTables /\ Len(tbl.fds) <= tbl.max /\ tbl.lkp = Listed /\ astray = {}
    BY DEF Inv, TableInv, PollInv, gwrl_src_del, Calling
  <1>1. t \in PollTables /\ t.lkp = Listed \ {s} /\ t.fds = tbl.fds /\ t.max = tbl.max
    BY <1>0 DEF PollTables
  <1>2. /\ TypeOK' /\ OffInv' /\ Listed' = Listed \ {s} /\ flags' = flags /\ kind' = kind
        /\ unclear' = Unclear(tbl') /\ tbl' \in gwrl_bkd_recalc_srcs(t, list', flags')
    BY TypeDel DEF gwrl_src_del, gwrl_bkd_del_src, PollDel
  <1>3. Cardinality(S) <= Len(tbl.fds)
    BY <1>0, <1>2, EnabledFit
  <1>4. Cardinality(S) <= t.max
    <2>1. Len(tbl.fds) \in Nat /\ tbl.max \in Nat /\ S \in SUBSET Listed
      BY <1>0, <1>2, LenProperties DEF PollTables
    <2>2. Cardinality(S) \in Nat
      BY <2>1, ListFacts, FS_Subset, FS_CardinalityType DEF Inv
    <2> QED BY <1>0, <1>1, <1>3, <2>1, <2>2
  <1> HIDE DEF t, S
  <1>5. S = {x \in Listed' : "EN" \in flags'[x]}
    BY DEF S
  <1> QED BY <1>1, <1>2, <1>3, <1>4, <1>5, PollRecalc

LEMMA PollEnables ==
    ASSUME Inv, kind = "poll", NEW s \in Client, gwrl_src_enable(s) \/ gwrl_src_disable(s)
    PROVE  PollInv' /\ unclear' \subseteq Listed'
  <1> DEFINE S == {x \in Listed' : "EN" \in flags'[x]}
  <1>0. tbl \in PollTables /\ Len(tbl.fds) <= tbl.max /\ tbl.lkp = Listed /\ astray = {}
    BY DEF Inv, TableInv, PollInv, gwrl_src_enable, gwrl_src_disable, Calling
  <1>1. /\ TypeOK' /\ OffInv' /\ Listed' = Listed /\ list' = list /\ kind' = kind
        /\ unclear' = Unclear(tbl') /\ tbl' \in gwrl_bkd_recalc_srcs(tbl, list', flags')
    BY TypeEnable, TypeDisable
    DEF gwrl_src_enable, gwrl_src_disable, gwrl_bkd_enable_src, gwrl_bkd_disable_src
  <1>2. Cardinality(S) <= tbl.max \/ (astray' = {} => Len(tbl'.fds) <= tbl.max)
    <2>1. CASE gwrl_src_enable(s)
      <3>1. astray' = {} => ~(Len(tbl'.fds) > tbl.max)
        BY <2>1 DEF gwrl_src_enable
      <3>2. Len(tbl'.fds) \in Nat /\ tbl.max \in Nat
        BY <1>0, <1>1, RecalcLength DEF PollTables, TypeOK
      <3> QED BY <3>1, <3>2
    <2>2. CASE gwrl_src_disable(s)
      <3>1. \A x \in S : x \in Listed /\ "EN" \in flags[x]
        BY <1>1, <2>2, ListFacts DEF gwrl_src_disable, Inv, TypeOK
      <3>2. Cardinality(S) <= Len(tbl.fds)
        BY <1>0, <3>1, EnabledFit
      <3>3. Len(tbl.fds) \in Nat /\ tbl.max \in Nat /\ S \in SUBSET Listed
        BY <1>0, <1>1, LenProperties DEF PollTables
      <3>4. Cardinality(S) \in Nat
        BY <3>3, ListFacts, FS_Subset, FS_CardinalityType DEF Inv
      <3> QED BY <1>0, <3>2, <3>3, <3>4
    <2> QED BY <2>1, <2>2
  <1> HIDE DEF S
  <1>3. S = {x \in Listed' : "EN" \in flags'[x]}
    BY DEF S
  <1> QED BY <1>0, <1>1, <1>2, <1>3, PollRecalc

LEMMA PollOwnUpdates ==
    ASSUME Inv, kind = "poll", NEW s \in Client, NEW ask \in Asks[s], gwrl_src_file_update_flags(s, ask),
           OwnsSlot(tbl, s)
    PROVE  PollInv' /\ unclear' \subseteq Listed'
  <1> DEFINE f == ask \cup {"EN"}
             k == tbl.pfd[s]
  <1>0. /\ tbl \in PollTables /\ Len(tbl.fds) <= tbl.max /\ tbl.lkp = Listed
        /\ tbl.fds \in Seq([fd : Src, events : SUBSET RW]) /\ Listed \subseteq Src /\ s \in Src
        /\ flags \in [Src -> Flags] /\ astray = {}
    BY ListFacts, SrcFacts
    DEF Inv, TableInv, PollInv, PollTables, TypeOK, gwrl_src_file_update_flags, Calling
  <1>1. /\ Listed' = Listed /\ s \in Listed /\ flags' = [flags EXCEPT ![s] = f]
        /\ off' = off \ {s} /\ kind' = kind /\ unclear' = Unclear(tbl')
        /\ tbl' = [tbl EXCEPT !.fds[k].events = Ask(f)]
    BY TypeUpdate
    DEF gwrl_src_file_update_flags, gwrl_bkd_update_flags, PollUpdate
  <1>2. k \in Slots /\ tbl.fds[k].fd = s
    BY DEF OwnsSlot, Slots
  <1> DEFINE slot == [tbl.fds[k] EXCEPT !.events = Ask(f)]
  <1>3. tbl.fds[k] \in [fd : Src, events : SUBSET RW]
    BY <1>0, <1>2, ElementOfSeq DEF Slots
  <1>4. slot \in [fd : Src, events : SUBSET RW] /\ slot.fd = s /\ slot.events = Ask(f)
    BY <1>2, <1>3 DEF Ask, RW
  <1>5. /\ tbl'.fds = [tbl.fds EXCEPT ![k] = slot] /\ tbl'.max = tbl.max /\ tbl'.clean = tbl.clean
        /\ tbl'.lkp = tbl.lkp /\ tbl'.pfd = tbl.pfd /\ tbl'.lost = tbl.lost
        /\ tbl' = [fds |-> tbl'.fds, max |-> tbl'.max, clean |-> tbl'.clean, lkp |-> tbl'.lkp,
                   pfd |-> tbl'.pfd, lost |-> tbl'.lost]
    BY <1>0, <1>1 DEF PollTables
  <1>6. \A x \in Src : x # s => flags'[x] = flags[x]
    BY <1>0, <1>1
  <1>7. flags'[s] = f
    BY <1>0, <1>1
  <1> HIDE DEF slot, k, f
  <1>8. /\ tbl'.fds \in Seq([fd : Src, events : SUBSET RW]) /\ Len(tbl'.fds) = Len(tbl.fds)
        /\ \A i \in Slots : tbl'.fds[i] = IF i = k THEN slot ELSE tbl.fds[i]
    BY <1>0, <1>2, <1>4, <1>5, ExceptSeq DEF Slots
  <1>9. tbl' \in PollTables
    BY <1>0, <1>5, <1>8 DEF PollTables
  <1>10. Slots' = Slots /\ \A i \in Slots : tbl'.fds[i].fd = tbl.fds[i].fd
    BY <1>2, <1>4, <1>8 DEF Slots
  <1>11. ASSUME NEW i \in Slots
         PROVE  /\ tbl'.fds[i].fd \in Listed' \ off'
                /\ Ask(flags'[tbl'.fds[i].fd]) \subseteq tbl'.fds[i].events
                /\ \A j \in Slots : tbl'.fds[i].fd = tbl'.fds[j].fd => i = j
                /\ tbl'.pfd[tbl'.fds[i].fd] # 0
    <2>1. /\ tbl.fds[i].fd \in Listed \ off /\ Ask(flags[tbl.fds[i].fd]) \subseteq tbl.fds[i].events
          /\ \A j \in Slots : tbl.fds[i].fd = tbl.fds[j].fd => i = j
          /\ tbl.pfd[tbl.fds[i].fd] # 0
      BY <1>0 DEF Inv, TableInv, PollInv
    <2>2. Ask(flags'[tbl'.fds[i].fd]) \subseteq tbl'.fds[i].events
      <3>1. CASE i = k
        BY <1>2, <1>4, <1>7, <1>8, <3>1
      <3>2. CASE i # k
        <4>1. tbl.fds[i].fd # s /\ tbl.fds[i].fd \in Src
          BY <1>0, <1>2, <2>1, <3>2
        <4> QED BY <1>6, <1>8, <2>1, <3>2, <4>1
      <3> QED BY <3>1, <3>2
    <2> QED BY <1>1, <1>5, <1>10, <2>1, <2>2
  <1>12. \A i \in Slots : tbl'.fds[i].events \subseteq flags'[tbl'.fds[i].fd] \/ tbl'.fds[i].fd \in unclear'
    <2> TAKE i \in Slots
    <2>1. tbl'.fds[i].fd \in Src /\ i \in 1..Len(tbl'.fds)
      BY <1>0, <1>1, <1>10, <1>11 DEF Slots
    <2> QED BY <1>1, <2>1, UnclearCovers
  <1>13. \A x \in Listed' : "EN" \in flags'[x] => \E i \in Slots : tbl'.fds[i].fd = x
    <2> SUFFICES ASSUME NEW x \in Listed', "EN" \in flags'[x] PROVE \E i \in Slots : tbl'.fds[i].fd = x
      OBVIOUS
    <2>1. CASE x = s
      BY <1>2, <1>10, <2>1
    <2>2. CASE x # s
      <3>1. x \in Listed /\ "EN" \in flags[x]
        BY <1>0, <1>1, <1>6, <2>2
      <3>2. \E i \in Slots : tbl.fds[i].fd = x
        BY <1>0, <3>1 DEF Inv, TableInv, PollInv
      <3> QED BY <1>10, <3>2
    <2> QED BY <2>1, <2>2
  <1>14. \A x \in Src : tbl'.pfd[x] # 0 => tbl'.pfd[x] \in Slots /\ tbl'.fds[tbl'.pfd[x]].fd = x
    BY <1>0, <1>5, <1>10 DEF Inv, TableInv, PollInv
  <1>15. Len(tbl'.fds) <= tbl'.max /\ tbl'.lkp = Listed'
    BY <1>0, <1>1, <1>5, <1>8
  <1>16. PollInv'
    <2>1. Slots' = Slots
      BY <1>10
    <2> QED BY <1>9, <1>11, <1>12, <1>13, <1>14, <1>15, <2>1 DEF PollInv
  <1>17. ASSUME NEW x \in unclear' PROVE x \in Listed'
    <2>1. ~(PollWatched(tbl', x) \subseteq flags'[x])
      BY <1>1, <1>17 DEF Unclear
    <2>2. PICK i \in 1..Len(tbl'.fds) : tbl'.fds[i].fd = x
      BY <2>1 DEF PollWatched
    <2> QED BY <1>10, <1>11, <2>2 DEF Slots
  <1> QED BY <1>16, <1>17

(* Elsewhere the slots stay as they are: nothing is claimed of the table, but  *)
(* the sources that are unclear are registered.                               *)
LEMMA PollUpdates ==
    ASSUME Inv, kind = "poll", NEW s \in Client, NEW ask \in Asks[s], gwrl_src_file_update_flags(s, ask)
    PROVE  PollInv' /\ unclear' \subseteq Listed'
  <1>1. CASE OwnsSlot(tbl, s)
    BY <1>1, PollOwnUpdates
  <1>2. CASE ~OwnsSlot(tbl, s)
    <2>1. astray = {} /\ astray' = {s} /\ tbl' = tbl /\ unclear' = Unclear(tbl') /\ Listed' = Listed
      BY <1>2, TypeUpdate
      DEF gwrl_src_file_update_flags, gwrl_bkd_update_flags, PollUpdate, Calling
    <2>2. PollInv'
      BY <2>1 DEF PollInv
    <2>3. ASSUME NEW x \in unclear' PROVE x \in Listed'
      <3>1. ~(PollWatched(tbl, x) \subseteq flags'[x])
        BY <2>1, <2>3 DEF Unclear
      <3>2. PICK i \in Slots : tbl.fds[i].fd = x
        BY <3>1 DEF PollWatched, Slots
      <3> QED BY <2>1, <3>2 DEF Inv, TableInv, PollInv
    <2> QED BY <2>2, <2>3
  <1> QED BY <1>1, <1>2

LEMMA PollGathers ==
    ASSUME Inv, GatherPoll
    PROVE  PollInv' /\ unclear' \subseteq unclear
  <1> DEFINE g == PollGather(tbl, flags, ready, bad)
             S == {x \in Listed' : "EN" \in flags'[x]}
  <1>0. /\ kind = "poll" /\ tbl \in PollTables /\ Len(tbl.fds) <= tbl.max /\ tbl.lkp = Listed
        /\ flags \in [Src -> Flags] /\ Listed \subseteq Src /\ astray = {} /\ astray' = {}
    BY ListFacts DEF GatherPoll, Gathering, Calling, Inv, TableInv, PollInv, TypeOK
  <1>1. TypeOK' /\ OffInv' /\ Listed' = Listed /\ list' = list /\ kind' = kind
    BY TypeGatherPoll DEF GatherPoll, Gathering
  <1>2. CASE g.disabled = {}
    <2>1. flags' = flags /\ off' = off /\ UNCHANGED <<tbl, unclear>>
      BY <1>0, <1>2 DEF GatherPoll, Gathering
    <2>2. PollInv
      BY DEF Inv, TableInv
    <2> QED BY <1>0, <1>1, <2>1, <2>2 DEF PollInv, Slots
  <1>3. CASE g.disabled # {}
    <2>1. tbl' \in gwrl_bkd_recalc_srcs(tbl, list', flags') /\ unclear' = Unclear(tbl')
      BY <1>1, <1>3 DEF GatherPoll, Gathering
    <2>2. \A x \in Src : "EN" \in flags'[x] => "EN" \in flags[x]
      BY <1>0 DEF GatherPoll
    <2>3. Cardinality(S) <= Len(tbl.fds)
      BY <1>0, <1>1, <2>2, EnabledFit
    <2>4. Cardinality(S) <= tbl.max
      <3>1. Len(tbl.fds) \in Nat /\ tbl.max \in Nat /\ S \in SUBSET Listed
        BY <1>0, <1>1, LenProperties DEF PollTables
      <3>2. Cardinality(S) \in Nat
        BY <3>1, ListFacts, FS_Subset, FS_CardinalityType DEF Inv
      <3> QED BY <1>0, <2>3, <3>1, <3>2
    <2> HIDE DEF S
    <2>5. S = {x \in Listed' : "EN" \in flags'[x]}
      BY DEF S
    <2>6. PollInv' /\ unclear' = {}
      BY <1>0, <1>1, <2>1, <2>3, <2>4, <2>5, PollRecalc
    <2> QED BY <2>6
  <1> QED BY <1>2, <1>3
-----------------------------------------------------------------------------
(* The invariant, and what follows from it.                                   *)

LEMMA InvInit == Init => Inv
  <1> SUFFICES ASSUME Init PROVE Inv
    OBVIOUS
  <1>1. /\ Wake \in Src /\ list = <<Wake>> /\ list \in Seq(Src) /\ Listed = {Wake} /\ Len(list) = 1
        /\ Cardinality(Listed) = 1
    <2>1. Wake \in Src /\ list = <<Wake>> /\ list \in Seq(Src) /\ Len(list) = 1 /\ list[1] = Wake
          /\ DOMAIN list = {1}
      BY SrcFacts DEF Init
    <2>2. Listed = {Wake}
      BY <2>1 DEF Listed, ToSet
    <2> QED BY <2>1, <2>2, FS_Singleton
  <1>2. /\ flags \in [Src -> Flags] /\ flags[Wake] = {"EN", "RD"} /\ off = {} /\ fresh = {}
        /\ muted = {} /\ astray = {} /\ unclear = {} /\ bad = {} /\ events = {} /\ count = Count /\ Count \in Nat \ {0}
        /\ \A s \in Src : s # Wake => flags[s] = {}
    BY SrcFacts DEF Init, Flags
  <1>3. TypeOK
    BY <1>1, <1>2 DEF Init, TypeOK
  <1>4. OffInv
    BY <1>2 DEF OffInv
  <1>5. SelectInv
    <2> SUFFICES ASSUME kind = "select" PROVE SelectInv
      BY DEF SelectInv
    <2>1. tbl = SelectAdd(SelectInit, flags, Wake)
      BY DEF Init
    <2>2. SelectInit \in SelectTables /\ SelectInit.rd = {} /\ SelectInit.wr = {}
          /\ SelectInit.maxfd = -1
      BY DEF SelectInit, SelectTables
    <2> DEFINE b == SetBits(SelectInit, Wake, flags[Wake])
    <2>3. /\ b \in SelectTables /\ b.maxfd = SelectInit.maxfd
          /\ \A x \in Src :
               /\ x \in b.rd <=> IF x = Wake THEN "RD" \in flags[Wake] ELSE x \in SelectInit.rd
               /\ x \in b.wr <=> IF x = Wake THEN "WR" \in flags[Wake] ELSE x \in SelectInit.wr
      BY <1>1, <2>2, SetBitsIs
    <2>4. tbl = [b EXCEPT !.maxfd = IF Wake > @ THEN Wake ELSE @]
      BY <2>1 DEF SelectAdd
    <2> HIDE DEF b
    <2>5. Wake \in Nat
      BY SrcFacts
    <2>6. tbl \in SelectTables /\ tbl.rd = b.rd /\ tbl.wr = b.wr /\ tbl.maxfd = Wake
      BY <2>2, <2>3, <2>4, <2>5 DEF SelectTables
    <2> QED BY <1>1, <1>2, <2>2, <2>3, <2>5, <2>6 DEF SelectInv
  <1>6. KqueueInv
    <2> SUFFICES ASSUME kind = "kqueue" PROVE KqueueInv
      BY DEF KqueueInv
    <2> DEFINE t == KqueueInit(Src, Count)
    <2>1. tbl = Kevent(t, Wake, flags[Wake], "add")
      BY <1>2 DEF Init, KqueueAdd
    <2>2. t \in KqueueTables /\ t.max = Count /\ \A s \in Src, g \in RW : t.filt[s][g] = "none"
      BY <1>2 DEF KqueueInit, KqueueTables, RW
    <2> HIDE DEF t
    <2>3. /\ tbl \in KqueueTables /\ tbl.max = t.max
          /\ \A x \in Src, g \in RW : tbl.filt[x][g] =
                IF x # Wake \/ g \notin flags[Wake] THEN t.filt[x][g] ELSE "on"
      BY <1>1, <2>1, <2>2, KeventIs
    <2> QED BY <1>1, <1>2, <2>2, <2>3 DEF KqueueInv
  <1>7. EpollInv
    <2> SUFFICES ASSUME kind = "epoll" PROVE EpollInv
      BY DEF EpollInv
    <2> DEFINE t == EpollInit(Src, Count)
    <2>1. tbl = EpollCtl(t, flags, Wake, "ADD")
      BY DEF Init
    <2>2. t \in EpollTables /\ t.in = {} /\ \A s \in Src : t.interest[s] = {}
      BY <1>2 DEF EpollInit, EpollTables
    <2> HIDE DEF t
    <2>3. /\ tbl \in EpollTables /\ tbl.in = {Wake} /\ tbl.interest[Wake] = Ask(flags[Wake])
          /\ \A x \in Src : x # Wake => tbl.interest[x] = {}
      BY <1>1, <2>1, <2>2, EpollAdd
    <2> QED BY <1>1, <1>2, <2>3 DEF EpollInv
  <1>8. PollInv
    <2> SUFFICES ASSUME kind = "poll" PROVE PollInv
      BY DEF PollInv
    <2> DEFINE t == PollInit(Src, Count)
               slot == [fd |-> Wake, events |-> Ask(flags[Wake]) \cup {}]
               pfd == [[x \in Src |-> 0] EXCEPT ![Wake] = 1]
    <2>1. tbl \in PollAdd(t, flags, Wake, Count)
      BY DEF Init
    <2>2. /\ t = [fds |-> <<>>, max |-> Count, clean |-> Count, lkp |-> {},
                pfd |-> [s \in Src |-> 0], lost |-> {}]
          /\ Len(<<>>) = 0 /\ Count # 0 /\ 1 <= Count
      BY <1>2, EmptySeq DEF PollInit
    <2>3. t \in PollTables
      BY <1>2, <2>2, EmptySeq DEF PollTables
    <2>4. tbl.fds = Append(<<>>, slot) /\ tbl.max = Count /\ tbl.clean = Count
          /\ tbl.lkp = {Wake} /\ tbl.pfd = pfd /\ tbl.lost \in SUBSET Src
          /\ tbl = [fds |-> tbl.fds, max |-> tbl.max, clean |-> tbl.clean, lkp |-> tbl.lkp,
                    pfd |-> tbl.pfd, lost |-> tbl.lost]
      <3>1. /\ Len(t.fds) + 1 <= t.clean /\ Len(t.fds) # t.max /\ Len(t.fds) + 1 = 1
            /\ t.fds = <<>> /\ t.max = Count /\ t.clean = Count /\ t.lkp = {}
            /\ [t.pfd EXCEPT ![Wake] = 1] = pfd
        BY <1>2, <2>2
      <3> HIDE DEF t, pfd
      <3>2. PICK old \in SUBSET RW : SlotAdded(tbl, t, flags, Wake, Count, old)
        BY <1>1, <1>2, <2>1, <2>3, PollAddIs
      <3> QED BY <3>1, <3>2 DEF SlotAdded
    <2> HIDE DEF slot
    <2>5. tbl = [fds |-> tbl.fds, max |-> tbl.max, clean |-> tbl.clean, lkp |-> tbl.lkp,
                 pfd |-> tbl.pfd, lost |-> tbl.lost]
      BY <2>4
    <2>6. slot \in [fd : Src, events : SUBSET RW] /\ slot.fd = Wake /\ slot.events = Ask(flags[Wake])
      BY <1>1 DEF slot, Ask, RW
    <2>7. tbl.fds \in Seq([fd : Src, events : SUBSET RW]) /\ Len(tbl.fds) = 1 /\ tbl.fds[1] = slot
      BY <2>2, <2>4, <2>6, EmptySeq, AppendProperties
    <2>8. /\ pfd \in [Src -> Nat] /\ pfd[Wake] = 1 /\ \A s \in Src : s # Wake => pfd[s] = 0
      BY <1>1
    <2> HIDE DEF pfd, t
    <2>9. tbl \in PollTables
      BY <1>1, <1>2, <2>4, <2>5, <2>7, <2>8 DEF PollTables
    <2>10. Slots = {1}
      BY <2>7 DEF Slots
    <2>11. Ask(flags[Wake]) \subseteq flags[Wake]
      BY DEF Ask
    <2>12. Len(tbl.fds) <= tbl.max /\ tbl.lkp = Listed
      BY <1>1, <2>2, <2>4, <2>7
    <2>13. /\ tbl.fds[1].fd = Wake /\ tbl.fds[1].events = Ask(flags[Wake])
           /\ tbl.pfd[Wake] # 0 /\ Wake \in Listed \ off /\ \A s \in Listed : s = Wake
      BY <1>1, <1>2, <2>4, <2>6, <2>7, <2>8
    <2>14. \A s \in Src : tbl.pfd[s] # 0 => tbl.pfd[s] = 1 /\ s = Wake
      BY <2>4, <2>8
    <2> QED BY <2>9, <2>10, <2>11, <2>12, <2>13, <2>14 DEF PollInv
  <1> QED BY <1>3, <1>4, <1>5, <1>6, <1>7, <1>8 DEF Inv, TableInv

LEMMA PollStep ==
    ASSUME Inv, [Next]_vars, kind = "poll"
    PROVE  PollInv'
  <1>0. TypeOK /\ PollInv
    BY DEF Inv, TableInv
  <1>1. ASSUME Still, Listed' = Listed, tbl' = tbl PROVE PollInv'
    BY <1>0, <1>1 DEF Still, histVars, PollInv, Slots
  <1>2. ASSUME NEW s \in Client, Adding(s) PROVE PollInv'
    BY <1>2, PollAdds DEF Adding
  <1>3. CASE \E n \in Counts : gwrl_set_options(n)
    <2> PICK n \in Counts : gwrl_set_options(n)
      BY <1>3
    <2> QED BY <1>1, TypeOptions DEF gwrl_set_options
  <1>4. ASSUME NEW s \in Client, Condition(s) \/ Close(s) PROVE PollInv'
    BY <1>1, <1>4, TypeCondition, TypeClose DEF Condition, Close
  <1>5. CASE gwrl_bkd_gather
    BY <1>1, <1>5, TypeGather, PollGathers DEF gwrl_bkd_gather
  <1>6. CASE gwrl_dispatch \/ Ended \/ UNCHANGED vars
    BY <1>1, <1>6, TypeDispatch
  <1> QED
    BY <1>0, <1>2, <1>3, <1>4, <1>5, <1>6, AddingIs, PollDels, PollEnables, PollUpdates
    DEF Next, Operation

LEMMA KindStays == [Next]_vars => kind' = kind
  BY DEF Next, Operation, gwrl_set_fd, gwpr_set_fd, gwrl_src_add, Add, gwrl_src_del,
     gwrl_src_enable, gwrl_src_disable, gwrl_src_file_update_flags, gwrl_set_options, Close,
     Condition, gwrl_bkd_gather, GatherPoll, GatherSelect, FindBadfd, GatherKqueue, GatherEpoll,
     Gathering, gwrl_dispatch, Ended, vars

LEMMA InvNext == Inv /\ [Next]_vars => Inv'
  <1> SUFFICES ASSUME Inv, [Next]_vars PROVE Inv'
    OBVIOUS
  <1>1. TypeOK' /\ OffInv'
    <2>1. CASE Operation
      <3>1. ASSUME NEW s \in Client, NEW f \in Flags, Add(s, f) PROVE TypeOK' /\ OffInv'
        BY <3>1, TypeAdd
      <3>2. TypeOK
        BY DEF Inv
      <3> QED BY <2>1, <3>1, <3>2, AddingIs, TypeDel, TypeEnable, TypeDisable, TypeUpdate,
                 TypeOptions, TypeClose DEF Operation, Adding
    <2>2. CASE ~Operation
      BY <2>2, TypeCondition, TypeGatherPoll, TypeGather, TypeDispatch DEF Next, gwrl_bkd_gather
    <2> QED BY <2>1, <2>2
  <1>2. SelectInv'
    BY SelectStep, KindStays DEF SelectInv
  <1>3. KqueueInv'
    BY KqueueStep, KindStays DEF KqueueInv
  <1>4. EpollInv'
    BY EpollStep, KindStays DEF EpollInv
  <1>5. PollInv'
    BY PollStep, KindStays DEF PollInv
  <1> QED BY <1>1, <1>2, <1>3, <1>4, <1>5 DEF Inv, TableInv

(* The inductive invariant of the four backends for every client: TypeOK,     *)
(* which sources are switched off, and the table of the backend that is       *)
(* built, operation by operation.  The poll table is claimed to be right      *)
(* until an operation on a source of astray wrote where it should not.        *)
THEOREM TablesAreRight == Spec => []Inv
  BY InvInit, InvNext, PTL DEF Spec

(* The types of Backends: the list of file sources has no source twice, and   *)
(* events carry GWRL_RD and GWRL_WR only.                                     *)
THEOREM BackendTypes == Spec => []TypeOK
  <1>1. Inv => TypeOK
    BY DEF Inv
  <1> QED BY <1>1, TablesAreRight, PTL

(* For every client: whatever gwrl_set_fd, gwrl_src_enable, gwrl_src_disable,  *)
(* gwrl_src_file_update_flags and gwrl_src_del are called for, each backend   *)
(* watches the enabled sources for exactly what they ask for and keeps within *)
(* its arrays, but for the five cases KernelSeesFlags names.                  *)
THEOREM KernelFollowsFlags == Spec => []KernelSeesFlags
  <1> SUFFICES ASSUME Inv PROVE KernelSeesFlags
    BY TablesAreRight, PTL
  <1> SUFFICES ASSUME astray = {} PROVE KernelSeesFlags
    BY DEF KernelSeesFlags
  <1>0. TypeOK /\ OffInv /\ SelectInv /\ KqueueInv /\ EpollInv /\ PollInv /\ Listed \subseteq Src
        /\ flags \in [Src -> Flags] /\ off \subseteq Listed
    BY ListFacts DEF Inv, TableInv, TypeOK
  <1>1. kind \in {"poll", "select", "kqueue", "epoll"}
    BY <1>0, KindAssumption DEF TypeOK, KindAssumption
  <1>2. kind = "kqueue" => count <= tbl.max
    BY <1>0 DEF KqueueInv
  <1>3. kind = "poll" => PollSound(tbl, list, flags)
    <2> SUFFICES ASSUME kind = "poll" PROVE PollSound(tbl, list, flags)
      OBVIOUS
    <2>1. ToSet(list) = Listed
      BY DEF Listed
    <2>2. \A s \in Listed : "EN" \in flags[s] => OwnsSlot(tbl, s) \/ s \in tbl.lost
      BY <1>0 DEF PollInv, OwnsSlot, Slots
    <2>3. \A i \in Slots : tbl.fds[i].fd \in tbl.lkp \cap Listed
      BY <1>0 DEF PollInv
    <2>4. \A s \in Listed : tbl.pfd[s] # 0 => tbl.pfd[s] \in Slots /\ tbl.fds[tbl.pfd[s]].fd = s
      BY <1>0 DEF PollInv
    <2> QED BY <1>0, <2>1, <2>2, <2>3, <2>4 DEF PollInv, PollSound, Slots
  <1>4. ASSUME NEW s \in Src
        PROVE  /\ (s \in Listed \ bad /\ "EN" \in flags[s]) =>
                     /\ flags[s] \cap {"RD", "WR"} \subseteq Watched(s) \/ s \in muted
                     /\ Watched(s) \subseteq flags[s] \/ s \in unclear
               /\ (s \notin Listed \/ (s \in off /\ kind # "select")) => Watched(s) = {}
    <2>1. CASE kind = "select"
      <3>1. Watched(s) = SelectWatched(tbl, s)
        BY <2>1 DEF Watched
      <3> QED BY <1>0, <2>1, <3>1 DEF SelectWatched, SelectInv
    <2>2. CASE kind = "kqueue"
      <3>1. Watched(s) = {f \in RW : tbl.filt[s][f] = "on"}
        BY <2>2 DEF Watched, KqueueWatched, RW
      <3>2. \A g \in RW : IF s \in Listed \ bad /\ g \in flags[s]
                          THEN tbl.filt[s][g] = IF "EN" \in flags[s] THEN "on" ELSE "off"
                          ELSE tbl.filt[s][g] # "on"
        BY <1>0, <2>2 DEF KqueueInv
      <3>3. s \in off => "EN" \notin flags[s]
        BY <1>0 DEF OffInv
      <3> QED BY <3>1, <3>2, <3>3 DEF RW
    <2>3. CASE kind = "epoll"
      <3>1. Watched(s) = tbl.interest[s]
        BY <2>3 DEF Watched
      <3>2. s \in off => "EN" \notin flags[s]
        BY <1>0 DEF OffInv
      <3> QED BY <1>0, <2>3, <3>1, <3>2 DEF EpollInv, Ask
    <2>4. CASE kind = "poll"
      <3>1. Watched(s) = UNION {tbl.fds[i].events : i \in {i \in Slots : tbl.fds[i].fd = s}}
        BY <2>4 DEF Watched, PollWatched, Slots
      <3>2. /\ \A i \in Slots :
                 /\ tbl.fds[i].fd \in Listed \ off
                 /\ Ask(flags[tbl.fds[i].fd]) \subseteq tbl.fds[i].events
                 /\ tbl.fds[i].events \subseteq flags[tbl.fds[i].fd] \/ tbl.fds[i].fd \in unclear
            /\ s \in Listed /\ "EN" \in flags[s] => \E i \in Slots : tbl.fds[i].fd = s
        BY <1>0, <2>4 DEF PollInv
      <3>3. ASSUME s \in Listed, "EN" \in flags[s]
            PROVE  flags[s] \cap {"RD", "WR"} \subseteq Watched(s)
        <4>1. PICK i \in Slots : tbl.fds[i].fd = s
          BY <3>2, <3>3
        <4>2. tbl.fds[i].events \subseteq Watched(s)
          BY <3>1, <4>1
        <4> QED BY <3>2, <4>1, <4>2 DEF Ask
      <3>4. Watched(s) \subseteq flags[s] \/ s \in unclear
        BY <3>1, <3>2
      <3>5. s \notin Listed \/ s \in off => Watched(s) = {}
        BY <3>1, <3>2
      <3> QED BY <3>3, <3>4, <3>5
    <2> QED BY <1>1, <2>1, <2>2, <2>3, <2>4
  <1> QED BY <1>2, <1>3, <1>4 DEF KernelSeesFlags

-----------------------------------------------------------------------------
(* The backends implement Watcher.                                            *)

(* Only the poll backend makes a source unclear.                              *)
LEMMA UnclearStep ==
    ASSUME kind # "poll", NEW t, unclear' = Unclear(t)
    PROVE  unclear' = {}
  BY DEF Unclear

LEMMA WatcherAdd ==
    ASSUME Inv, NEW s \in Client, NEW f \in Flags, Add(s, f)
    PROVE  W!Register(s)
  <1>1. Listed' = Listed \cup {s} /\ s \notin Listed
    BY TypeAdd
  <1>2. off' = off \ {s}
    BY <1>1 DEF Add, Inv, TypeOK
  <1>3. f \in SUBSET {"EN", "RD", "WR"} /\ flags' = [flags EXCEPT ![s] = f]
    BY DEF Add, Flags
  <1>4. unclear' \subseteq unclear \cup {s}
    BY PollAdds, UnclearStep DEF Add
  <1> QED BY <1>1, <1>2, <1>3, <1>4 DEF W!Register, Add, sysVars

LEMMA WatcherDel ==
    ASSUME Inv, NEW s \in Client, gwrl_src_del(s)
    PROVE  W!Unregister(s)
  <1>1. Listed' = Listed \ {s} /\ s \in Listed /\ s \in Src /\ flags \in [Src -> Flags]
    BY TypeDel, SrcFacts DEF Inv, TypeOK
  <1>2. \E f \in {flags[s], flags[s] \ {"EN"}} : flags' = [flags EXCEPT ![s] = f]
    <2>1. CASE kind = "kqueue"
      BY <2>1 DEF gwrl_src_del
    <2>2. CASE kind # "kqueue"
      <3>1. flags' = flags /\ flags = [flags EXCEPT ![s] = flags[s]]
        BY <1>1, <2>2 DEF gwrl_src_del
      <3> QED BY <3>1
    <2> QED BY <2>1, <2>2
  <1>3. unclear' \subseteq unclear
    BY PollDels, UnclearStep DEF gwrl_src_del
  <1> QED BY <1>1, <1>2, <1>3 DEF W!Unregister, gwrl_src_del

LEMMA WatcherEnable ==
    ASSUME Inv, NEW s \in Client, gwrl_src_enable(s) \/ gwrl_src_disable(s)
    PROVE  W!Change(s)
  <1>1. Listed' = Listed /\ s \in Listed /\ s \in Src /\ flags \in [Src -> Flags] /\ OffInv'
    BY TypeEnable, TypeDisable, SrcFacts DEF Inv, TypeOK
  <1>2. \E f \in SUBSET {"EN", "RD", "WR"} : flags' = [flags EXCEPT ![s] = f]
    <2>1. flags[s] \cup {"EN"} \in SUBSET {"EN", "RD", "WR"} /\ flags[s] \ {"EN"} \in SUBSET {"EN", "RD", "WR"}
      BY <1>1 DEF Flags
    <2> QED BY <2>1 DEF gwrl_src_enable, gwrl_src_disable
  <1>3. off' \in {off \cup {s}, off \ {s}} /\ (s \in off' => "EN" \notin flags'[s])
    BY <1>1 DEF gwrl_src_enable, gwrl_src_disable, OffInv
  <1>4. unclear' \subseteq Listed
    BY <1>1, PollEnables, UnclearStep DEF gwrl_src_enable, gwrl_src_disable
  <1> QED BY <1>1, <1>2, <1>3, <1>4 DEF W!Change, gwrl_src_enable, gwrl_src_disable, sysVars

LEMMA WatcherUpdate ==
    ASSUME Inv, NEW s \in Client, NEW ask \in Asks[s], gwrl_src_file_update_flags(s, ask)
    PROVE  W!Change(s)
  <1>1. /\ Listed' = Listed /\ s \in Listed /\ OffInv'
        /\ flags' = [flags EXCEPT ![s] = ask \cup {"EN"}]
        /\ ask \cup {"EN"} \in SUBSET {"EN", "RD", "WR"}
    BY TypeUpdate, SrcFacts DEF Flags
  <1>2. off' = off \ {s} /\ s \notin off'
    BY DEF gwrl_src_file_update_flags
  <1>3. unclear' \subseteq Listed
    BY <1>1, PollUpdates, UnclearStep DEF gwrl_src_file_update_flags
  <1> QED BY <1>1, <1>2, <1>3 DEF W!Change, gwrl_src_file_update_flags, sysVars

LEMMA WatcherSystem ==
    ASSUME Inv, NEW s \in Client, Condition(s) \/ Close(s)
    PROVE  W!System
  <1>1. TypeOK' /\ Listed' = Listed /\ Still /\ events' = events
    BY TypeCondition, TypeClose DEF Condition, Close
  <1>2. Listed \subseteq Src
    BY ListFacts DEF Inv
  <1> QED BY <1>1, <1>2 DEF W!System, TypeOK, Still, histVars, Conditions

LEMMA WatcherGatherPoll == ASSUME Inv, GatherPoll PROVE W!Gather
  <1> DEFINE D == PollGather(tbl, flags, ready, bad).disabled
  <1>1. Listed' = Listed /\ D \subseteq (Listed \cap bad) \ off /\ \A e \in events' : Good(e)
    BY TypeGatherPoll
  <1>2. off' = off \cup D /\ off' \ off = D
    BY <1>1 DEF GatherPoll
  <1>3. flags' = [s \in Src |-> IF s \in off' \ off THEN flags[s] \ {"EN"} ELSE flags[s]]
    BY <1>2 DEF GatherPoll
  <1>4. unclear' \subseteq unclear
    BY PollGathers
  <1>5. events = {} /\ UNCHANGED <<ready, bad>>
    BY DEF GatherPoll, Gathering, Calling, sysVars
  <1> HIDE DEF D
  <1> QED BY <1>1, <1>2, <1>3, <1>4, <1>5 DEF W!Gather, Good

LEMMA WatcherGather ==
    ASSUME Inv, GatherSelect \/ FindBadfd \/ GatherKqueue \/ GatherEpoll
    PROVE  W!Gather \/ UNCHANGED W!vars
  <1>1. /\ Listed' = Listed /\ UNCHANGED <<flags, off, unclear, ready, bad>>
        /\ \/ UNCHANGED events
           \/ events = {} /\ \A e \in events' : Good(e)
    BY TypeGather DEF Still, histVars, sysVars
  <1>2. flags = [s \in Src |-> flags[s]]
    BY DEF Inv, TypeOK
  <1>3. CASE UNCHANGED events
    BY <1>1, <1>3 DEF W!vars
  <1>4. CASE events = {} /\ \A e \in events' : Good(e)
    <2>1. off' \ off = {}
      BY <1>1
    <2>2. flags' = [s \in Src |-> IF s \in off' \ off THEN flags[s] \ {"EN"} ELSE flags[s]]
      BY <1>1, <1>2, <2>1
    <2> QED BY <1>1, <1>4, <2>1, <2>2 DEF W!Gather, Good
  <1> QED BY <1>1, <1>3, <1>4

LEMMA WatcherStep == Inv /\ [Next]_vars => [W!Next]_(W!vars)
  <1> SUFFICES ASSUME Inv, [Next]_vars PROVE [W!Next]_(W!vars)
    OBVIOUS
  <1>0. TypeOK /\ Client \subseteq Src
    BY SrcFacts DEF Inv
  <1>1. ASSUME NEW s \in Client, Adding(s) PROVE W!Register(s)
    BY <1>1, WatcherAdd DEF Adding
  <1>2. CASE \E s \in Client : \/ gwrl_set_fd(s) \/ gwpr_set_fd(s) \/ gwrl_src_add(s) \/ gwrl_src_del(s)
                               \/ gwrl_src_enable(s) \/ gwrl_src_disable(s)
                               \/ \E ask \in Asks[s] : gwrl_src_file_update_flags(s, ask)
    <2>1. \E s \in Src : W!Register(s) \/ W!Unregister(s) \/ W!Change(s)
      BY <1>0, <1>1, <1>2, AddingIs, WatcherDel, WatcherEnable, WatcherUpdate
    <2> QED BY <2>1 DEF W!Next
  <1>3. CASE \E s \in Client : Condition(s) \/ Close(s)
    BY <1>3, WatcherSystem DEF W!Next
  <1>4. CASE \E n \in Counts : gwrl_set_options(n)
    <2> PICK n \in Counts : gwrl_set_options(n)
      BY <1>4
    <2> QED BY TypeOptions DEF gwrl_set_options, W!vars, Still, histVars, sysVars
  <1>5. CASE gwrl_bkd_gather
    BY <1>5, WatcherGatherPoll, WatcherGather DEF gwrl_bkd_gather, W!Next
  <1>6. CASE gwrl_dispatch \/ Ended \/ UNCHANGED vars
    <2>1. /\ Listed' = Listed /\ UNCHANGED <<flags, off, unclear, ready, bad>>
          /\ events' = {} \/ UNCHANGED events
      BY <1>6, TypeDispatch DEF Still, histVars, sysVars
    <2> QED BY <2>1 DEF W!Dispatch, W!Next, W!vars
  <1> QED BY <1>2, <1>3, <1>4, <1>5, <1>6 DEF Next, Operation

(* Each of the four backends, with any tables and buffers, is a Watcher: the  *)
(* events gwrl_bkd_gather posts are of registered sources that are not        *)
(* switched off, for conditions that hold: those the source asked for,        *)
(* hang-ups and errors, and urgent data, which the select backend posts as    *)
(* GWRL_RD whatever the source asked for.                                     *)
THEOREM BackendsAreWatchers == Spec => Implements
  <1>1. Init => W!Init
    <2> SUFFICES ASSUME Init PROVE W!Init
      OBVIOUS
    <2>1. TypeOK /\ Listed \subseteq Src
      BY InvInit, ListFacts DEF Inv
    <2> QED BY <2>1 DEF Init, W!Init, TypeOK, Flags
  <1> QED BY <1>1, WatcherStep, TablesAreRight, PTL DEF Spec, Implements, W!Spec
=============================================================================
