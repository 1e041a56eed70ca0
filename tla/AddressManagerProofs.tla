----------------------- MODULE AddressManagerProofs -----------------------
(***************************************************************************)
(* Proofs about AddressManager, for any number of threads, addresses and   *)
(* buckets.                                                                *)
(***************************************************************************)
EXTENDS AddressManager, FiniteSetTheorems, TLAPS

-----------------------------------------------------------------------------
(* Where a call is, given what it does next *)

\* A call about to write is at one of these places.
WriteAt(c, l) ==
    \/ l = "new" /\ c.method = "add" /\ c.at = 3
    \/ l = "new" /\ c.method \in {"good", "attempt", "clear"} /\ c.at = 1
    \/ l = "tried" /\ c.method \in {"good", "attempt"} /\ c.at = 2
    \/ l = "tried" /\ c.method = "clear" /\ c.at = 3

\* A call that does anything else is at one of these.
DoAt(c, what) ==
    /\ what = "is_own"    => c.method = "add" /\ c.at = 1
    /\ what = "is_tried"  => c.method = "add" /\ c.at = 2
    /\ what = "insert"  => c.method = "add" /\ c.at = 4
    /\ what = "promote" => c.method = "good" /\ c.at = 3
    /\ what = "count"   => c.method = "attempt" /\ c.at = 3
    /\ what = "answer"  => c.method \in ReadingMethods
    /\ what = "own"     => c.method = "add_own_address"
    /\ what = "clear_new"   => c.method = "clear" /\ c.at = 2
    /\ what = "clear_tried" => c.method = "clear" /\ c.at = 4
    /\ what = "clear_new_buckets"   => c.method = "clear" /\ c.at = 5
    /\ what = "clear_tried_buckets" => c.method = "clear" /\ c.at = 6

\* The steps after which a call goes on to a further one.
Returning == {"insert", "promote", "count", "answer", "own", "clear_tried_buckets"}

LEMMA Shapes ==
    /\ \A l : Write(l).do = "write" /\ Write(l).lock = l
    /\ \A l : Read(l).do = "read" /\ Read(l).lock = l
    /\ \A what : Do(what).do = what
BY DEF Write, Read, Do

\* Program, read backwards.
LEMMA Places ==
    ASSUME NEW c, InProgram(c)
    PROVE  LET s == Program[c.method][c.at]
           IN /\ s.do = "write" => WriteAt(c, s.lock)
              /\ s.do = "read" => c.method \in ReadingMethods /\ s.lock \in Locks
              /\ DoAt(c, s.do)
              /\ s.do \notin Returning => c.at + 1 \in 1..Len(Program[c.method])
<1>1. CASE c.method = "add"
  <2>1. Program["add"] = <<Do("is_own"), Do("is_tried"), Write("new"), Do("insert")>>
    BY DEF Program
  <2>2. c.at \in 1..4 /\ Len(Program["add"]) = 4
    BY <1>1, <2>1 DEF InProgram
  <2>3. c.at = 1 => Program[c.method][c.at] = Do("is_own")
    BY <1>1, <2>1
  <2>4. c.at = 2 => Program[c.method][c.at] = Do("is_tried")
    BY <1>1, <2>1
  <2>5. c.at = 3 => Program[c.method][c.at] = Write("new")
    BY <1>1, <2>1
  <2>6. c.at = 4 => Program[c.method][c.at] = Do("insert")
    BY <1>1, <2>1
  <2> QED
    BY <1>1, <2>2, <2>3, <2>4, <2>5, <2>6, Shapes
    DEF WriteAt, DoAt, Returning
<1>2. CASE c.method = "good"
  <2>1. Program["good"] = <<Write("new"), Write("tried"), Do("promote")>>
    BY DEF Program
  <2>2. c.at \in 1..3 /\ Len(Program["good"]) = 3
    BY <1>2, <2>1 DEF InProgram
  <2>3. c.at = 1 => Program[c.method][c.at] = Write("new")
    BY <1>2, <2>1
  <2>4. c.at = 2 => Program[c.method][c.at] = Write("tried")
    BY <1>2, <2>1
  <2>5. c.at = 3 => Program[c.method][c.at] = Do("promote")
    BY <1>2, <2>1
  <2> QED
    BY <1>2, <2>2, <2>3, <2>4, <2>5, Shapes
    DEF WriteAt, DoAt, Returning, Locks, ReadingMethods
<1>3. CASE c.method = "attempt"
  <2>1. Program["attempt"] = <<Write("new"), Write("tried"), Do("count")>>
    BY DEF Program
  <2>2. c.at \in 1..3 /\ Len(Program["attempt"]) = 3
    BY <1>3, <2>1 DEF InProgram
  <2>3. c.at = 1 => Program[c.method][c.at] = Write("new")
    BY <1>3, <2>1
  <2>4. c.at = 2 => Program[c.method][c.at] = Write("tried")
    BY <1>3, <2>1
  <2>5. c.at = 3 => Program[c.method][c.at] = Do("count")
    BY <1>3, <2>1
  <2> QED
    BY <1>3, <2>2, <2>3, <2>4, <2>5, Shapes
    DEF WriteAt, DoAt, Returning, Locks, ReadingMethods
<1>4. CASE c.method = "select"
  <2>1. Program["select"] = <<Read("tried"), Read("new"), Do("answer")>>
    BY DEF Program
  <2>2. c.at \in 1..3 /\ Len(Program["select"]) = 3
    BY <1>4, <2>1 DEF InProgram
  <2>3. c.at = 1 => Program[c.method][c.at] = Read("tried")
    BY <1>4, <2>1
  <2>4. c.at = 2 => Program[c.method][c.at] = Read("new")
    BY <1>4, <2>1
  <2>5. c.at = 3 => Program[c.method][c.at] = Do("answer")
    BY <1>4, <2>1
  <2> QED
    BY <1>4, <2>2, <2>3, <2>4, <2>5, Shapes
    DEF WriteAt, DoAt, Returning, Locks, ReadingMethods
<1>5. CASE c.method = "get_addresses"
  <2>1. Program["get_addresses"] = <<Read("tried"), Read("new"), Do("answer")>>
    BY DEF Program
  <2>2. c.at \in 1..3 /\ Len(Program["get_addresses"]) = 3
    BY <1>5, <2>1 DEF InProgram
  <2>3. c.at = 1 => Program[c.method][c.at] = Read("tried")
    BY <1>5, <2>1
  <2>4. c.at = 2 => Program[c.method][c.at] = Read("new")
    BY <1>5, <2>1
  <2>5. c.at = 3 => Program[c.method][c.at] = Do("answer")
    BY <1>5, <2>1
  <2> QED
    BY <1>5, <2>2, <2>3, <2>4, <2>5, Shapes
    DEF WriteAt, DoAt, Returning, Locks, ReadingMethods
<1>6. CASE c.method = "get_stats"
  <2>1. Program["get_stats"] = <<Read("new"), Read("tried"), Read("new"),
                            Read("tried"), Do("answer")>>
    BY DEF Program
  <2>2. c.at \in 1..5 /\ Len(Program["get_stats"]) = 5
    BY <1>6, <2>1 DEF InProgram
  <2>3. c.at = 1 => Program[c.method][c.at] = Read("new")
    BY <1>6, <2>1
  <2>4. c.at = 2 => Program[c.method][c.at] = Read("tried")
    BY <1>6, <2>1
  <2>5. c.at = 3 => Program[c.method][c.at] = Read("new")
    BY <1>6, <2>1
  <2>6. c.at = 4 => Program[c.method][c.at] = Read("tried")
    BY <1>6, <2>1
  <2>7. c.at = 5 => Program[c.method][c.at] = Do("answer")
    BY <1>6, <2>1
  <2> QED
    BY <1>6, <2>2, <2>3, <2>4, <2>5, <2>6, <2>7, Shapes
    DEF WriteAt, DoAt, Returning, Locks, ReadingMethods
<1>7. CASE c.method = "add_own_address"
  <2>1. Program["add_own_address"] = <<Do("own")>>
    BY DEF Program
  <2>2. c.at \in 1..1 /\ Len(Program["add_own_address"]) = 1
    BY <1>7, <2>1 DEF InProgram
  <2>3. c.at = 1 => Program[c.method][c.at] = Do("own")
    BY <1>7, <2>1
  <2> QED
    BY <1>7, <2>2, <2>3, Shapes
    DEF WriteAt, DoAt, Returning, Locks, ReadingMethods
<1>8. CASE c.method = "clear"
  <2>1. Program["clear"] = <<Write("new"), Do("clear_new"), Write("tried"), Do("clear_tried"),
                            Do("clear_new_buckets"), Do("clear_tried_buckets")>>
    BY DEF Program
  <2>2. c.at \in 1..6 /\ Len(Program["clear"]) = 6
    BY <1>8, <2>1 DEF InProgram
  <2>3. c.at = 1 => Program[c.method][c.at] = Write("new")
    BY <1>8, <2>1
  <2>4. c.at = 2 => Program[c.method][c.at] = Do("clear_new")
    BY <1>8, <2>1
  <2>5. c.at = 3 => Program[c.method][c.at] = Write("tried")
    BY <1>8, <2>1
  <2>6. c.at = 4 => Program[c.method][c.at] = Do("clear_tried")
    BY <1>8, <2>1
  <2>7. c.at = 5 => Program[c.method][c.at] = Do("clear_new_buckets")
    BY <1>8, <2>1
  <2>8. c.at = 6 => Program[c.method][c.at] = Do("clear_tried_buckets")
    BY <1>8, <2>1
  <2> QED
    BY <1>8, <2>2, <2>3, <2>4, <2>5, <2>6, <2>7, <2>8, Shapes
    DEF WriteAt, DoAt, Returning, Locks, ReadingMethods
<1> QED
  BY <1>1, <1>2, <1>3, <1>4, <1>5, <1>6, <1>7, <1>8 DEF InProgram, Program

-----------------------------------------------------------------------------
(* Type correctness *)

\* A thread in a call is at a step of it.
LEMMA BusyTyped ==
    ASSUME CallsTyped, NEW t \in Threads, Busy(t)
    PROVE  InProgram(call[t])
BY DEF CallsTyped, Busy, Idle

LEMMA AdvanceTyped ==
    ASSUME CallsTyped, NEW t \in Threads, Busy(t), StepOf(t).do \notin Returning,
           Advance(t)
    PROVE  /\ CallsTyped'
           /\ call'[t].method = call[t].method /\ call'[t].at = call[t].at + 1
           /\ call'[t].addr = call[t].addr /\ call'[t].source = call[t].source
           /\ \A u \in Threads : u # t => call'[u] = call[u]
<1>1. InProgram(call[t])
  BY BusyTyped
<1>2. call[t].at + 1 \in 1..Len(Program[call[t].method])
  BY <1>1, Places DEF StepOf
<1>3. call' = [call EXCEPT ![t] = [call[t] EXCEPT !.at = call[t].at + 1]]
  BY DEF Advance
<1>4. call'[t] = [call[t] EXCEPT !.at = call[t].at + 1]
  BY <1>3 DEF CallsTyped
<1>5. InProgram(call'[t])
  BY <1>1, <1>2, <1>4 DEF InProgram
<1>6. \A u \in Threads : u # t => call'[u] = call[u]
  BY <1>3 DEF CallsTyped
<1>7. DOMAIN call' = Threads /\ call' = [u \in Threads |-> call'[u]]
  BY <1>3 DEF CallsTyped
<1>8. CallsTyped'
  BY <1>5, <1>6, <1>7 DEF CallsTyped, InProgram
<1> QED
  BY <1>1, <1>4, <1>6, <1>8 DEF InProgram

LEMMA ReturnTyped ==
    ASSUME CallsTyped, LocksTyped, NEW t \in Threads, Return(t)
    PROVE  /\ CallsTyped' /\ LocksTyped'
           /\ call'[t] = Idle
           /\ \A u \in Threads : u # t => call'[u] = call[u]
<1>1. call' = [call EXCEPT ![t] = Idle]
  BY DEF Return
<1>2. CallsTyped'
  BY <1>1 DEF CallsTyped, InProgram
<1>3. LocksTyped'
  BY DEF Return, Unlock, LocksTyped
<1> QED
  BY <1>1, <1>2, <1>3 DEF CallsTyped

LEMMA InsertTables ==
    ASSUME TablesTyped, CallsTyped, NEW t \in Threads, Insert(t)
    PROVE  TablesTyped'
<1> DEFINE a == call[t].addr
           s == call[t].source
           b == NewBucket[<<a, s>>]
<1>1. a \in Addrs /\ s \in Sources
  BY BusyTyped DEF Insert, At, InProgram
<1>2. b \in Buckets
  BY <1>1, AddressAssumption
<1>3. [source |-> s, attempts |-> 0] \in Infos
  BY <1>1, AddressAssumption DEF Infos
<1>4. CASE a \in DOMAIN new_addrs
  BY <1>4 DEF Insert, TablesTyped
<1>5. CASE a \notin DOMAIN new_addrs
  <2> DEFINE kept(E) == [y \in DOMAIN new_addrs \ E |-> new_addrs[y]]
  <2>1. PICK E \in Evictable(new_buckets[b]) :
          \/ /\ new_addrs' = With(kept(E), a, [source |-> s, attempts |-> 0])
             /\ new_buckets' = [new_buckets EXCEPT ![b] = (@ \ E) \cup {a}]
          \/ /\ new_addrs' = kept(E)
             /\ new_buckets' = [new_buckets EXCEPT ![b] = (@ \ E) \cup {}]
    BY <1>5 DEF Insert
  <2>2. new_buckets' \in [Buckets -> SUBSET Addrs]
    BY <1>1, <1>2, <2>1 DEF TablesTyped
  <2>3. /\ DOMAIN new_addrs' \subseteq Addrs
        /\ \A x \in DOMAIN new_addrs' : new_addrs'[x] \in Infos
    BY <1>1, <1>3, <2>1 DEF TablesTyped, With
  <2> QED
    BY <2>2, <2>3 DEF Insert, TablesTyped
<1> QED
  BY <1>4, <1>5

LEMMA PromoteTables ==
    ASSUME TablesTyped, CallsTyped, NEW t \in Threads, Promote(t)
    PROVE  TablesTyped'
<1> DEFINE a == call[t].addr
           b == TriedBucket[a]
<1>1. a \in Addrs /\ b \in Buckets
  BY BusyTyped, AddressAssumption DEF Promote, At, InProgram
<1>2. CASE a \in DOMAIN new_addrs
  <2> DEFINE info == [new_addrs[a] EXCEPT !.attempts = 0]
             from == NewBucket[<<a, new_addrs[a].source>>]
  <2>0. new_addrs[a] \in Infos /\ new_addrs[a].source \in Sources
    BY <1>2 DEF TablesTyped, Infos
  <2>1. info \in Infos /\ from \in Buckets
    <3>1. info \in Infos
      BY <2>0, AddressAssumption DEF Infos
    <3>2. from \in Buckets
      BY <1>1, <2>0, AddressAssumption
    <3> QED
      BY <3>1, <3>2
  <2>2. /\ new_addrs' = Without(new_addrs, a)
        /\ new_buckets' = [new_buckets EXCEPT ![from] = @ \ {a}]
    BY <1>2 DEF Promote
  <2>3. PICK E \in Evictable(tried_buckets[b]) :
          /\ tried_buckets' = [tried_buckets EXCEPT ![b] = (@ \ E) \cup {a}]
          /\ tried_addrs' = With([y \in DOMAIN tried_addrs \ E |-> tried_addrs[y]],
                                 a, info)
    BY <1>2 DEF Promote
  <2>4. new_buckets' \in [Buckets -> SUBSET Addrs] /\ tried_buckets' \in [Buckets -> SUBSET Addrs]
    BY <1>1, <2>1, <2>2, <2>3 DEF TablesTyped
  <2>5. /\ DOMAIN new_addrs' \subseteq Addrs
        /\ \A x \in DOMAIN new_addrs' : new_addrs'[x] \in Infos
    BY <2>2 DEF TablesTyped, Without
  <2>6. /\ DOMAIN tried_addrs' \subseteq Addrs
        /\ \A x \in DOMAIN tried_addrs' : tried_addrs'[x] \in Infos
    BY <1>1, <2>1, <2>3 DEF TablesTyped, With
  <2> QED
    BY <2>4, <2>5, <2>6 DEF Promote, TablesTyped
<1>3. CASE a \notin DOMAIN new_addrs
  <2>1. /\ tried_addrs' = [y \in DOMAIN tried_addrs |->
                IF y = a THEN [tried_addrs[y] EXCEPT !.attempts = 0] ELSE tried_addrs[y]]
        /\ UNCHANGED <<own_addrs, new_addrs, new_buckets, tried_buckets>>
    BY <1>3 DEF Promote
  <2>2. \A x \in DOMAIN tried_addrs' : tried_addrs'[x] \in Infos
    BY <2>1, AddressAssumption DEF TablesTyped, Infos
  <2> QED
    BY <2>1, <2>2 DEF TablesTyped
<1> QED
  BY <1>2, <1>3

LEMMA CountTables ==
    ASSUME TablesTyped, NEW t \in Threads, Count(t)
    PROVE  TablesTyped'
<1>1. ASSUME NEW f, NEW a, \A x \in DOMAIN f : f[x] \in Infos
      PROVE  /\ DOMAIN Counted(f, a) = DOMAIN f
             /\ \A x \in DOMAIN f : Counted(f, a)[x] \in Infos
                                 /\ Counted(f, a)[x].source = f[x].source
  BY <1>1, AddressAssumption DEF Counted, Infos
<1> QED
  BY <1>1 DEF Count, TablesTyped

LEMMA CallTyped ==
    ASSUME CallsTyped, NEW t \in Threads, NEW m \in Methods, NEW a \in Addrs,
           NEW s \in Sources, Call(t, m, a, s)
    PROVE  /\ CallsTyped'
           /\ call'[t].method = m /\ call'[t].at = 1
           /\ \A u \in Threads : u # t => call'[u] = call[u]
<1> DEFINE c == [method |-> m, addr |-> a, source |-> s, at |-> 1]
<1>1. call' = [call EXCEPT ![t] = c]
  BY DEF Call
<1>2. m \in DOMAIN Program
  BY MethodsAssumption
<1>3. 1 \in 1..Len(Program[m])
  <2>1. m \in {"add", "good", "attempt", "select", "get_addresses", "get_stats",
               "add_own_address", "clear"}
    BY <1>2 DEF Program
  <2>2. Len(Program["add"]) = 4 /\ Len(Program["add_own_address"]) = 1
    BY DEF Program
  <2>3. Len(Program["good"]) = 3 /\ Len(Program["attempt"]) = 3
    BY DEF Program
  <2>4. Len(Program["select"]) = 3 /\ Len(Program["get_addresses"]) = 3
    BY DEF Program
  <2>5. Len(Program["get_stats"]) = 5 /\ Len(Program["clear"]) = 6
    BY DEF Program
  <2>6. Len(Program[m]) \in {1, 3, 4, 5, 6}
    BY <2>1, <2>2, <2>3, <2>4, <2>5, Zenon
  <2>7. \A n \in {1, 3, 4, 5, 6} : 1 \in 1..n
    OBVIOUS
  <2> QED
    BY <2>6, <2>7, Zenon
<1>4. InProgram(c)
  BY <1>2, <1>3 DEF InProgram
<1>5. \A u \in Threads : call'[u] = Idle \/ InProgram(call'[u])
  BY <1>1, <1>4 DEF CallsTyped
<1>6. CallsTyped'
  BY <1>1, <1>5 DEF CallsTyped, InProgram
<1> QED
  BY <1>1, <1>6 DEF CallsTyped

\* The steps that lead from one step of a call to the next.
LEMMA GoesOn ==
    ASSUME NEW t \in Threads,
           \/ Enter(t) \/ Share(t) \/ ClearNew(t) \/ ClearTried(t) \/ ClearNewBuckets(t)
    PROVE  Busy(t) /\ StepOf(t).do \notin Returning /\ Advance(t)
BY DEF Enter, Share, ClearNew, ClearTried, ClearNewBuckets, At, Returning

LEMMA TypeStep ==
    ASSUME AMTypeOK, [AMNext]_amVars
    PROVE  AMTypeOK'
<1> USE DEF AMTypeOK
<1>1. CASE UNCHANGED amVars
  BY <1>1 DEF amVars, tableVars, lockVars, TablesTyped, LocksTyped, CallsTyped, InProgram
<1>2. ASSUME NEW t \in Threads, NEW m \in Methods, NEW a \in Addrs, NEW s \in Sources,
             Call(t, m, a, s)
      PROVE  AMTypeOK'
  <2>1. CallsTyped'
    BY <1>2, CallTyped
  <2> QED
    BY <1>2, <2>1 DEF Call, tableVars, lockVars, TablesTyped, LocksTyped
<1>3. ASSUME NEW t \in Threads, Proceed(t)
      PROVE  AMTypeOK'
  <2>1. CASE Claim(t)
    <3>1. StepOf(t).lock \in Locks
      BY <2>1, BusyTyped, Places DEF Claim, At, StepOf, WriteAt, Locks
    <3> QED
      BY <2>1, <3>1 DEF Claim, tableVars, TablesTyped, LocksTyped, CallsTyped, InProgram
  <2>2. CASE Enter(t)
    <3>1. CallsTyped'
      BY <2>2, GoesOn, AdvanceTyped
    <3> QED
      BY <2>2, <3>1 DEF Enter, tableVars, lockVars, TablesTyped, LocksTyped
  <2>3. CASE Share(t)
    <3>1. CallsTyped'
      BY <2>3, GoesOn, AdvanceTyped
    <3>2. StepOf(t).lock \in Locks
      BY <2>3, BusyTyped, Places DEF Share, At, StepOf
    <3> QED
      BY <2>3, <3>1, <3>2 DEF Share, tableVars, TablesTyped, LocksTyped
  <2>4. CASE SkipOwn(t) \/ SkipTried(t)
    <3>1. CASE Return(t)
      BY <2>4, <3>1, ReturnTyped DEF SkipOwn, SkipTried, tableVars, TablesTyped
    <3>2. CASE Advance(t) /\ UNCHANGED lockVars
      <4>1. Busy(t) /\ StepOf(t).do \notin Returning
        BY <2>4 DEF SkipOwn, SkipTried, At, Returning
      <4>2. CallsTyped'
        BY <3>2, <4>1, AdvanceTyped
      <4> QED
        BY <2>4, <3>2, <4>2 DEF SkipOwn, SkipTried, lockVars, tableVars, TablesTyped, LocksTyped
    <3> QED
      BY <2>4, <3>1, <3>2 DEF SkipOwn, SkipTried
  <2>5. CASE Insert(t)
    BY <2>5, InsertTables, ReturnTyped DEF Insert
  <2>6. CASE Promote(t)
    BY <2>6, PromoteTables, ReturnTyped DEF Promote
  <2>7. CASE Count(t)
    BY <2>7, CountTables, ReturnTyped DEF Count
  <2>8. CASE Answer(t)
    BY <2>8, ReturnTyped DEF Answer, tableVars, TablesTyped
  <2>9. CASE AddOwn(t)
    <3>1. call[t].addr \in Addrs
      BY <2>9, BusyTyped DEF AddOwn, At, InProgram
    <3> QED
      BY <2>9, <3>1, ReturnTyped DEF AddOwn, TablesTyped
  <2>10. CASE ClearNew(t) \/ ClearTried(t)
    <3>1. CallsTyped'
      BY <2>10, GoesOn, AdvanceTyped
    <3>2. LocksTyped'
      BY <2>10 DEF ClearNew, ClearTried, Unlock, LocksTyped
    <3>3. TablesTyped'
      BY <2>10 DEF ClearNew, ClearTried, Empty, TablesTyped
    <3> QED
      BY <3>1, <3>2, <3>3
  <2>11. CASE ClearNewBuckets(t)
    <3>1. CallsTyped'
      BY <2>11, GoesOn, AdvanceTyped
    <3> QED
      BY <2>11, <3>1 DEF ClearNewBuckets, lockVars, TablesTyped, LocksTyped
  <2>12. CASE ClearTriedBuckets(t)
    BY <2>12, ReturnTyped DEF ClearTriedBuckets, TablesTyped
  <2> QED
    BY <1>3, <2>1, <2>2, <2>3, <2>4, <2>5, <2>6, <2>7, <2>8, <2>9, <2>10, <2>11, <2>12
    DEF Proceed
<1> QED
  BY <1>1, <1>2, <1>3 DEF AMNext

\* The tables, the locks and the calls are always well formed, for any number of
\* threads calling any of the methods.
THEOREM AddressManagerTypeCorrect == AMSpec => []AMTypeOK
<1>1. AMInit => AMTypeOK
  BY DEF AMInit, AMTypeOK, TablesTyped, LocksTyped, CallsTyped, Empty
<1> QED
  BY <1>1, TypeStep, PTL DEF AMSpec

-----------------------------------------------------------------------------
(* The locks *)

\* LocksOwned survives when the locks of a thread are given up and nobody else
\* moves.
LEMMA UnlockOwned ==
    ASSUME AMTypeOK, LocksOwned, NEW t \in Threads, Unlock(t),
           \A u \in Threads : u # t => call'[u] = call[u]
    PROVE  LocksOwned'
<1>1. /\ writer'["new"] # NoThread => /\ writer["new"] \in Threads \ {t}
                                      /\ writer'["new"] = writer["new"]
      /\ writer'["tried"] # NoThread => /\ writer["tried"] \in Threads \ {t}
                                        /\ writer'["tried"] = writer["tried"]
  BY AddressAssumption DEF Unlock, AMTypeOK, LocksTyped, Locks
<1>2. \A l \in Locks : \A u \in readers'[l] : u \in readers[l] /\ u \in Threads \ {t}
  BY DEF Unlock, AMTypeOK, LocksTyped
<1>3. /\ writer'["new"] # NoThread => WriterOfNew(call'[writer'["new"]])
      /\ writer'["tried"] # NoThread => WriterOfTried(call'[writer'["tried"]])
  BY <1>1 DEF LocksOwned, WriterOfNew, WriterOfTried
<1>4. \A l \in Locks : \A u \in readers'[l] : call'[u].method \in ReadingMethods
  BY <1>2 DEF LocksOwned
<1> QED
  BY <1>3, <1>4 DEF LocksOwned, WriterOfNew, WriterOfTried

\* It survives when the locks stay as they are and a thread moves to another
\* place from which it may hold what it holds.
LEMMA MoveOwned ==
    ASSUME AMTypeOK, LocksOwned, NEW t \in Threads, UNCHANGED lockVars,
           \A u \in Threads : u # t => call'[u] = call[u],
           writer["new"] = t => WriterOfNew(call'[t]),
           writer["tried"] = t => WriterOfTried(call'[t]),
           \A l \in Locks : t \in readers[l] => call'[t].method \in ReadingMethods
    PROVE  LocksOwned'
<1>1. /\ writer["new"] # NoThread => writer["new"] \in Threads
      /\ writer["tried"] # NoThread => writer["tried"] \in Threads
      /\ \A l \in Locks : readers[l] \subseteq Threads
  BY DEF AMTypeOK, LocksTyped, Locks
<1>2. writer' = writer /\ readers' = readers
  BY DEF lockVars
<1>3. writer["new"] # NoThread => WriterOfNew(call'[writer["new"]])
  BY <1>1 DEF LocksOwned
<1>4. writer["tried"] # NoThread => WriterOfTried(call'[writer["tried"]])
  BY <1>1 DEF LocksOwned
<1>5. \A l \in Locks : \A u \in readers[l] : call'[u].method \in ReadingMethods
  BY <1>1 DEF LocksOwned
<1> QED
  BY <1>2, <1>3, <1>4, <1>5 DEF LocksOwned, WriterOfNew, WriterOfTried

LEMMA OwnedStep ==
    ASSUME AMTypeOK, LocksOwned, [AMNext]_amVars
    PROVE  LocksOwned'
<1> USE DEF AMTypeOK
<1>1. CASE UNCHANGED amVars
  BY <1>1 DEF amVars, lockVars, LocksOwned, WriterOfNew, WriterOfTried
<1>2. ASSUME NEW t \in Threads, NEW m \in Methods, NEW a \in Addrs, NEW s \in Sources,
             Call(t, m, a, s)
      PROVE  LocksOwned'
  <2>1. call[t].method = "none"
    BY <1>2 DEF Call, Busy
  <2>2. writer["new"] # t /\ writer["tried"] # t /\ \A l \in Locks : t \notin readers[l]
    BY <2>1, AddressAssumption
    DEF LocksOwned, WriterOfNew, WriterOfTried, ReadingMethods
  <2>3. \A u \in Threads : u # t => call'[u] = call[u]
    BY <1>2, CallTyped
  <2> QED
    BY <1>2, <2>2, <2>3, MoveOwned DEF Call
<1>3. ASSUME NEW t \in Threads, Proceed(t)
      PROVE  LocksOwned'
  <2>1. CASE Claim(t)
    <3>1. WriteAt(call[t], StepOf(t).lock)
      BY <2>1, BusyTyped, Places DEF Claim, At, StepOf
    <3>2. /\ StepOf(t).lock = "new" => WriterOfNew(call[t])
          /\ StepOf(t).lock = "tried" => WriterOfTried(call[t])
      BY <3>1 DEF WriteAt, WriterOfNew, WriterOfTried
    <3>3. StepOf(t).lock \in Locks
      BY <3>1 DEF WriteAt, Locks
    <3>4. /\ writer' = [writer EXCEPT ![StepOf(t).lock] = t]
          /\ call' = call /\ readers' = readers
      BY <2>1 DEF Claim
    <3>5. /\ writer'["new"] = (IF StepOf(t).lock = "new" THEN t ELSE writer["new"])
          /\ writer'["tried"] = (IF StepOf(t).lock = "tried" THEN t ELSE writer["tried"])
      BY <3>3, <3>4 DEF LocksTyped, Locks
    <3> QED
      BY <3>2, <3>4, <3>5 DEF LocksOwned, WriterOfNew, WriterOfTried
  <2>2. CASE Enter(t)
    <3>1. WriteAt(call[t], StepOf(t).lock)
      BY <2>2, BusyTyped, Places DEF Enter, At, StepOf
    <3>2. /\ call'[t].method = call[t].method /\ call'[t].at = call[t].at + 1
          /\ \A u \in Threads : u # t => call'[u] = call[u]
      BY <2>2, GoesOn, AdvanceTyped
    <3>3. writer["new"] = t => WriterOfNew(call'[t])
      BY <3>1, <3>2, AddressAssumption DEF LocksOwned, WriteAt, WriterOfNew
    <3>4. writer["tried"] = t => WriterOfTried(call'[t])
      BY <3>1, <3>2, AddressAssumption DEF LocksOwned, WriteAt, WriterOfTried
    <3>5. \A l \in Locks : t \in readers[l] => call'[t].method \in ReadingMethods
      BY <3>2 DEF LocksOwned
    <3> QED
      BY <2>2, <3>2, <3>3, <3>4, <3>5, MoveOwned DEF Enter
  <2>3. CASE Share(t)
    <3>1. call[t].method \in ReadingMethods /\ StepOf(t).lock \in Locks
      BY <2>3, BusyTyped, Places DEF Share, At, StepOf
    <3>2. /\ call'[t].method = call[t].method
          /\ \A u \in Threads : u # t => call'[u] = call[u]
      BY <2>3, GoesOn, AdvanceTyped
    <3>3. /\ writer["new"] # t /\ writer["tried"] # t
      BY <3>1, AddressAssumption DEF LocksOwned, WriterOfNew, WriterOfTried, ReadingMethods
    <3>4. /\ writer["new"] # NoThread => writer["new"] \in Threads
          /\ writer["tried"] # NoThread => writer["tried"] \in Threads
      BY DEF LocksTyped, Locks
    <3>5. \A l \in Locks : readers'[l] \subseteq readers[l] \cup {t} /\ readers[l] \subseteq Threads
      BY <2>3, <3>1 DEF Share, LocksTyped
    <3>6. \A l \in Locks : \A u \in readers'[l] : call'[u].method \in ReadingMethods
      BY <3>1, <3>2, <3>5 DEF LocksOwned
    <3>7. /\ writer["new"] # NoThread => call'[writer["new"]] = call[writer["new"]]
          /\ writer["tried"] # NoThread => call'[writer["tried"]] = call[writer["tried"]]
      BY <3>2, <3>3, <3>4
    <3>8. writer' = writer
      BY <2>3 DEF Share
    <3> QED
      BY <3>6, <3>7, <3>8 DEF LocksOwned, WriterOfNew, WriterOfTried
  <2>4. CASE Return(t)
    BY <2>4, ReturnTyped, UnlockOwned DEF Return
  <2>5. CASE (SkipOwn(t) \/ SkipTried(t)) /\ Advance(t) /\ UNCHANGED lockVars
    <3>1. Busy(t) /\ StepOf(t).do \notin Returning /\ DoAt(call[t], StepOf(t).do)
      BY <2>5, BusyTyped, Places DEF SkipOwn, SkipTried, At, Returning, StepOf
    <3>2. call[t].method = "add" /\ call[t].at \in {1, 2}
      BY <2>5, <3>1 DEF SkipOwn, SkipTried, At, DoAt
    <3>3. writer["new"] # t /\ writer["tried"] # t /\ \A l \in Locks : t \notin readers[l]
      BY <3>2, AddressAssumption DEF LocksOwned, WriterOfNew, WriterOfTried, ReadingMethods
    <3>4. \A u \in Threads : u # t => call'[u] = call[u]
      BY <2>5, <3>1, AdvanceTyped
    <3> QED
      BY <2>5, <3>3, <3>4, MoveOwned
  <2>6. CASE ClearNew(t) \/ ClearTried(t)
    <3>1. \A u \in Threads : u # t => call'[u] = call[u]
      BY <2>6, GoesOn, AdvanceTyped
    <3> QED
      BY <2>6, <3>1, UnlockOwned DEF ClearNew, ClearTried
  <2>7. CASE ClearNewBuckets(t)
    <3>1. call[t].method = "clear" /\ call[t].at = 5
      BY <2>7, BusyTyped, Places DEF ClearNewBuckets, At, StepOf, DoAt
    <3>2. writer["new"] # t /\ writer["tried"] # t /\ \A l \in Locks : t \notin readers[l]
      BY <3>1, AddressAssumption DEF LocksOwned, WriterOfNew, WriterOfTried, ReadingMethods
    <3>3. \A u \in Threads : u # t => call'[u] = call[u]
      BY <2>7, GoesOn, AdvanceTyped
    <3> QED
      BY <2>7, <3>2, <3>3, MoveOwned DEF ClearNewBuckets
  <2> QED
    BY <1>3, <2>1, <2>2, <2>3, <2>4, <2>5, <2>6, <2>7
    DEF Proceed, SkipOwn, SkipTried, Insert, Promote, Count, Answer, AddOwn, ClearTriedBuckets
<1> QED
  BY <1>1, <1>2, <1>3 DEF AMNext

\* Among threads that only change tables, the one that has claimed the tried
\* table waits for nobody, so nobody waits for it in a circle; and then the same
\* holds of the new table.
LEMMA NoCircle ==
    ASSUME AMTypeOK, LocksOwned
    PROVE  CircleNeedsReader
<1> SUFFICES ASSUME NEW S \in (SUBSET Threads) \ {{}},
                    \A t \in S : \E u \in S : WaitsFor(t, u),
                    \A t \in S : call[t].method \notin ReadingMethods
             PROVE  FALSE
  BY DEF CircleNeedsReader
<1>1. \A l \in Locks : readers[l] \cap S = {}
  BY DEF LocksOwned
<1>2. \A t \in S : Busy(t) => /\ InProgram(call[t])
                              /\ StepOf(t).do = "write" => WriteAt(call[t], StepOf(t).lock)
                              /\ StepOf(t).do = "read" => call[t].method \in ReadingMethods
                              /\ DoAt(call[t], StepOf(t).do)
  BY BusyTyped, Places DEF AMTypeOK, StepOf
<1>3. ASSUME NEW t \in S
      PROVE  \/ At(t, "write") /\ WriteAt(call[t], StepOf(t).lock)
                /\ StepOf(t).lock \in Locks
                /\ writer[StepOf(t).lock] # t /\ writer[StepOf(t).lock] \in S
             \/ At(t, "is_tried") /\ call[t].method = "add" /\ call[t].at = 2
                /\ writer["tried"] \in S
  <2>1. PICK u \in S : WaitsFor(t, u)
    OBVIOUS
  <2>2. Busy(t)
    BY <2>1 DEF WaitsFor
  <2>3. CASE At(t, "write")
    <3>1. WriteAt(call[t], StepOf(t).lock) /\ StepOf(t).lock \in Locks
      BY <1>2, <2>2, <2>3 DEF At, WriteAt, Locks
    <3>2. StepOf(t).do # "read" /\ StepOf(t).do # "is_tried"
      BY <2>3 DEF At
    <3>3. u \notin readers[StepOf(t).lock]
      BY <1>1, <3>1
    <3>4. writer[StepOf(t).lock] # t /\ u = writer[StepOf(t).lock]
      BY <2>1, <3>2, <3>3 DEF WaitsFor, At
    <3> QED
      BY <2>3, <3>1, <3>4
  <2>4. CASE At(t, "is_tried")
    <3>1. call[t].method = "add" /\ call[t].at = 2
      BY <1>2, <2>2, <2>4 DEF At, DoAt
    <3>2. u = writer["tried"]
      BY <2>1, <2>4 DEF WaitsFor, At
    <3> QED
      BY <2>4, <3>1, <3>2
  <2>5. CASE At(t, "read")
    BY <1>2, <2>2, <2>5 DEF At
  <2> QED
    BY <2>1, <2>3, <2>4, <2>5 DEF WaitsFor
<1>4. writer["tried"] \notin S
  <2> SUFFICES ASSUME writer["tried"] \in S PROVE FALSE
    OBVIOUS
  <2> DEFINE w == writer["tried"]
  <2>1. w # NoThread
    BY AddressAssumption
  <2>2. WriterOfTried(call[w])
    BY <2>1 DEF LocksOwned
  <2>3. WriteAt(call[w], StepOf(w).lock) /\ writer[StepOf(w).lock] # w
    BY <1>3, <2>2 DEF WriterOfTried
  <2>4. StepOf(w).lock = "tried"
    BY <2>2, <2>3 DEF WriterOfTried, WriteAt
  <2> QED
    BY <2>3, <2>4
<1>5. writer["new"] \notin S
  <2> SUFFICES ASSUME writer["new"] \in S PROVE FALSE
    OBVIOUS
  <2> DEFINE w == writer["new"]
  <2>1. w # NoThread
    BY AddressAssumption
  <2>2. WriterOfNew(call[w])
    BY <2>1 DEF LocksOwned
  <2>3. /\ WriteAt(call[w], StepOf(w).lock)
        /\ writer[StepOf(w).lock] # w /\ writer[StepOf(w).lock] \in S
    BY <1>3, <1>4
  <2>4. StepOf(w).lock = "new"
    BY <1>4, <2>3 DEF WriteAt
  <2> QED
    BY <2>3, <2>4
<1>6. PICK t \in S : TRUE
  OBVIOUS
<1> QED
  BY <1>3, <1>4, <1>5, <1>6 DEF WriteAt

\* However many threads call them, add, good, attempt, add_own_address and clear
\* never wait for each other in a circle: every deadlock of the address manager
\* has a thread in it that reads both tables (select, get_addresses, get_stats).
THEOREM DeadlockNeedsReader == AMSpec => []CircleNeedsReader
<1>1. AMInit => AMTypeOK /\ LocksOwned
  BY DEF AMInit, AMTypeOK, TablesTyped, LocksTyped, CallsTyped, Empty, LocksOwned, Locks
<1>2. (AMTypeOK /\ LocksOwned) /\ [AMNext]_amVars => (AMTypeOK /\ LocksOwned)'
  BY TypeStep, OwnedStep
<1>3. AMTypeOK /\ LocksOwned => CircleNeedsReader
  BY NoCircle
<1> QED
  BY <1>1, <1>2, <1>3, PTL DEF AMSpec
-----------------------------------------------------------------------------
(* The buckets *)

\* Making room in a bucket and putting one address in keeps it within its size.
LEMMA RoomMade ==
    ASSUME NEW B \in SUBSET Addrs, Cardinality(B) <= BUCKET_SIZE,
           NEW E \in Evictable(B), NEW a
    PROVE  /\ E \subseteq B
           /\ Cardinality((B \ E) \cup {a}) <= BUCKET_SIZE
           /\ Cardinality((B \ E) \cup {}) <= BUCKET_SIZE
<1>1. IsFiniteSet(B) /\ Cardinality(B) \in Nat
  BY AddressAssumption, FS_Subset, FS_CardinalityType
<1>2. CASE Cardinality(B) >= BUCKET_SIZE
  <2>1. PICK e \in B : E = {e}
    BY <1>2 DEF Evictable
  <2>2. IsFiniteSet(B \ {e}) /\ Cardinality(B \ {e}) = Cardinality(B) - 1
    BY <1>1, FS_RemoveElement
  <2>3. Cardinality((B \ {e}) \cup {a}) \in {Cardinality(B) - 1, Cardinality(B)}
    <3>1. Cardinality((B \ {e}) \cup {a}) = IF a \in B \ {e} THEN Cardinality(B \ {e})
                                            ELSE Cardinality(B \ {e}) + 1
      BY <2>2, FS_AddElement
    <3> QED
      BY <1>1, <2>2, <3>1
  <2>4. (B \ {e}) \cup {} = B \ {e}
    OBVIOUS
  <2> QED
    BY <1>1, <2>1, <2>2, <2>3, <2>4, AddressAssumption
<1>3. CASE ~(Cardinality(B) >= BUCKET_SIZE)
  <2>1. E = {}
    BY <1>3 DEF Evictable
  <2>2. Cardinality(B \cup {a}) = IF a \in B THEN Cardinality(B) ELSE Cardinality(B) + 1
    BY <1>1, FS_AddElement
  <2>3. B \ {} = B /\ B \cup {} = B
    OBVIOUS
  <2> QED
    BY <1>1, <1>3, <2>1, <2>2, <2>3, AddressAssumption
<1> QED
  BY <1>2, <1>3

\* A clear that has emptied a table, and not yet its buckets, stays in that
\* stretch until it empties them.
LEMMA ClearGoesOn ==
    ASSUME AMTypeOK, NEW t \in Threads,
           Proceed(t) \/ \E m \in Methods, a \in Addrs, s \in Sources : Call(t, m, a, s)
    PROVE  /\ \A u \in Threads : u # t => call'[u] = call[u]
           /\ \A u \in Threads : WillClearNewBuckets(u)
                => WillClearNewBuckets(u)' \/ ClearNewBuckets(t)
           /\ \A u \in Threads : WillClearTriedBuckets(u)
                => WillClearTriedBuckets(u)' \/ ClearTriedBuckets(t)
<1> USE DEF AMTypeOK
<1> DEFINE Others == \A u \in Threads : u # t => call'[u] = call[u]
           Clearing == call[t].method = "clear" /\ call[t].at \in 3..6
<1>1. CASE \E m \in Methods, a \in Addrs, s \in Sources : Call(t, m, a, s)
  <2>1. Others
    BY <1>1, CallTyped
  <2>2. ~Clearing
    BY <1>1 DEF Call, Busy
  <2> QED
    BY <2>1, <2>2 DEF WillClearNewBuckets, WillClearTriedBuckets
<1>2. CASE Claim(t)
  BY <1>2 DEF Claim, WillClearNewBuckets, WillClearTriedBuckets
<1>3. CASE Enter(t)
  <2>1. Busy(t) /\ StepOf(t).do \notin Returning /\ Advance(t)
    BY <1>3, GoesOn
  <2>2. Others /\ call'[t].method = call[t].method /\ call'[t].at = call[t].at + 1
    BY <2>1, AdvanceTyped
  <2>3. InProgram(call[t]) /\ WriteAt(call[t], StepOf(t).lock)
    BY <1>3, <2>1, BusyTyped, Places DEF Enter, At, StepOf
  <2>4. Clearing => call[t].at = 3
    BY <2>3 DEF WriteAt
  <2> QED
    BY <2>2, <2>4 DEF WillClearNewBuckets, WillClearTriedBuckets
<1>4. CASE Share(t)
  <2>1. Others
    BY <1>4, GoesOn, AdvanceTyped
  <2>2. call[t].method \in ReadingMethods
    BY <1>4, BusyTyped, Places DEF Share, At, StepOf
  <2> QED
    BY <2>1, <2>2 DEF WillClearNewBuckets, WillClearTriedBuckets, ReadingMethods
<1>5. CASE SkipOwn(t) \/ SkipTried(t)
  <2>1. Busy(t) /\ StepOf(t).do \notin Returning /\ DoAt(call[t], StepOf(t).do)
    BY <1>5, BusyTyped, Places DEF SkipOwn, SkipTried, At, Returning, StepOf
  <2>2. call[t].method = "add"
    BY <1>5, <2>1 DEF SkipOwn, SkipTried, At, DoAt
  <2>3. Others
    BY <1>5, <2>1, AdvanceTyped, ReturnTyped DEF SkipOwn, SkipTried
  <2> QED
    BY <2>2, <2>3 DEF WillClearNewBuckets, WillClearTriedBuckets
<1>6. CASE Insert(t) \/ Promote(t) \/ Count(t) \/ Answer(t) \/ AddOwn(t)
  <2>1. Busy(t) /\ DoAt(call[t], StepOf(t).do) /\ Return(t)
    BY <1>6, BusyTyped, Places DEF Insert, Promote, Count, Answer, AddOwn, At, StepOf
  <2>2. call[t].method # "clear"
    BY <1>6, <2>1 DEF Insert, Promote, Count, Answer, AddOwn, At, DoAt, ReadingMethods
  <2>3. Others
    BY <2>1, ReturnTyped
  <2> QED
    BY <2>2, <2>3 DEF WillClearNewBuckets, WillClearTriedBuckets
<1>7. CASE ClearNew(t) \/ ClearTried(t)
  <2>1. Busy(t) /\ StepOf(t).do \notin Returning /\ Advance(t)
    BY <1>7, GoesOn
  <2>2. Others /\ call'[t].method = call[t].method /\ call'[t].at = call[t].at + 1
    BY <2>1, AdvanceTyped
  <2>3. call[t].at \in {2, 4}
    BY <1>7, BusyTyped, Places DEF ClearNew, ClearTried, At, StepOf, DoAt
  <2> QED
    BY <2>2, <2>3 DEF WillClearNewBuckets, WillClearTriedBuckets
<1>8. CASE ClearNewBuckets(t)
  <2>1. Busy(t) /\ StepOf(t).do \notin Returning /\ Advance(t)
    BY <1>8, GoesOn
  <2>2. Others /\ call'[t].method = call[t].method /\ call'[t].at = call[t].at + 1
    BY <2>1, AdvanceTyped
  <2>3. call[t].at = 5
    BY <1>8, BusyTyped, Places DEF ClearNewBuckets, At, StepOf, DoAt
  <2> QED
    BY <1>8, <2>2, <2>3 DEF WillClearNewBuckets, WillClearTriedBuckets
<1>9. CASE ClearTriedBuckets(t)
  <2>1. Others
    BY <1>9, ReturnTyped DEF ClearTriedBuckets
  <2>2. call[t].at = 6
    BY <1>9, BusyTyped, Places DEF ClearTriedBuckets, At, StepOf, DoAt
  <2> QED
    BY <1>9, <2>1, <2>2 DEF WillClearNewBuckets, WillClearTriedBuckets
<1> QED
  BY <1>1, <1>2, <1>3, <1>4, <1>5, <1>6, <1>7, <1>8, <1>9 DEF Proceed

\* add keeps the buckets in step with the table.
LEMMA InsertBuckets ==
    ASSUME AMTypeOK, LimitsKept, NEW t \in Threads, Insert(t)
    PROVE  LimitsKept' /\ (NewIndexed => NewIndexed') /\ (TriedIndexed => TriedIndexed')
<1> USE DEF AMTypeOK
<1> DEFINE a == call[t].addr
           s == call[t].source
           b == NewBucket[<<a, s>>]
           info == [source |-> s, attempts |-> 0]
<1>1. a \in Addrs /\ s \in Sources
  BY BusyTyped DEF Insert, At, InProgram
<1>2. b \in Buckets
  BY <1>1, AddressAssumption
<1>3. TablesTyped'
  BY InsertTables
<1>4. UNCHANGED <<tried_addrs, tried_buckets>>
  BY DEF Insert
<1>5. CASE a \in DOMAIN new_addrs
  BY <1>4, <1>5 DEF Insert, LimitsKept, NewIndexed, TriedIndexed
<1>6. CASE a \notin DOMAIN new_addrs
  <2> DEFINE kept(E) == [y \in DOMAIN new_addrs \ E |-> new_addrs[y]]
  <2>1. PICK E \in Evictable(new_buckets[b]) :
          \/ /\ Cardinality(DOMAIN kept(E)) < MAX_ADDRESSES
             /\ new_addrs' = With(kept(E), a, info)
             /\ new_buckets' = [new_buckets EXCEPT ![b] = (@ \ E) \cup {a}]
          \/ /\ new_addrs' = kept(E)
             /\ new_buckets' = [new_buckets EXCEPT ![b] = (@ \ E) \cup {}]
    BY <1>6 DEF Insert
  <2>2. new_buckets[b] \in SUBSET Addrs /\ Cardinality(new_buckets[b]) <= BUCKET_SIZE
    BY <1>2 DEF TablesTyped, LimitsKept
  <2>3. /\ E \subseteq new_buckets[b]
        /\ Cardinality((new_buckets[b] \ E) \cup {a}) <= BUCKET_SIZE
        /\ Cardinality((new_buckets[b] \ E) \cup {}) <= BUCKET_SIZE
    BY <2>2, RoomMade
  <2>4. /\ IsFiniteSet(DOMAIN new_addrs) /\ Cardinality(DOMAIN new_addrs) \in Nat
        /\ IsFiniteSet(DOMAIN kept(E)) /\ Cardinality(DOMAIN kept(E)) \in Nat
        /\ Cardinality(DOMAIN kept(E)) <= Cardinality(DOMAIN new_addrs)
    <3>1. IsFiniteSet(DOMAIN new_addrs)
      BY AddressAssumption, FS_Subset DEF TablesTyped
    <3>2. DOMAIN kept(E) \in SUBSET DOMAIN new_addrs
      OBVIOUS
    <3> QED
      BY <3>1, <3>2, FS_Subset, FS_CardinalityType
  <2>5. Cardinality(DOMAIN kept(E) \cup {a}) \in {Cardinality(DOMAIN kept(E)),
                                                  Cardinality(DOMAIN kept(E)) + 1}
    BY <2>4, FS_AddElement
  <2>6. Cardinality(DOMAIN new_addrs') <= MAX_ADDRESSES
    <3>1. CASE new_addrs' = kept(E)
      BY <2>4, <3>1, AddressAssumption DEF LimitsKept
    <3>2. CASE /\ Cardinality(DOMAIN kept(E)) < MAX_ADDRESSES
               /\ new_addrs' = With(kept(E), a, info)
      <4>1. DOMAIN new_addrs' = DOMAIN kept(E) \cup {a}
        BY <3>2 DEF With
      <4> QED
        BY <2>4, <2>5, <3>2, <4>1, AddressAssumption
    <3> QED
      BY <2>1, <3>1, <3>2
  <2>7. \A x \in Buckets : Cardinality(new_buckets'[x]) <= BUCKET_SIZE
    <3>1. \A x \in Buckets : x # b => new_buckets'[x] = new_buckets[x]
      BY <2>1 DEF TablesTyped
    <3>2. \/ new_buckets'[b] = (new_buckets[b] \ E) \cup {a}
          \/ new_buckets'[b] = (new_buckets[b] \ E) \cup {}
      BY <1>2, <2>1 DEF TablesTyped
    <3> QED
      BY <2>3, <3>1, <3>2 DEF LimitsKept
  <2>8. ASSUME NewIndexed PROVE NewIndexed'
    <3> SUFFICES ASSUME NEW x \in Buckets, NEW y \in new_buckets'[x]
                 PROVE  y \in DOMAIN new_addrs' /\ x = NewBucket[<<y, new_addrs'[y].source>>]
      BY DEF NewIndexed
    <3>1. CASE y = a /\ new_addrs' = With(kept(E), a, info)
               /\ new_buckets' = [new_buckets EXCEPT ![b] = (@ \ E) \cup {a}]
      <4>1. a \in DOMAIN new_addrs' /\ new_addrs'[a] = info
        BY <3>1 DEF With
      <4>2. x = b
        BY <1>6, <2>8, <3>1 DEF NewIndexed, TablesTyped
      <4> QED
        BY <3>1, <4>1, <4>2
    <3>2. CASE \/ y # a
               \/ /\ new_addrs' = kept(E)
                  /\ new_buckets' = [new_buckets EXCEPT ![b] = (@ \ E) \cup {}]
      <4>1. y \in new_buckets[x] /\ (x = b => y \notin E)
        BY <1>2, <2>1, <3>2 DEF TablesTyped
      <4>2. y \in DOMAIN new_addrs /\ x = NewBucket[<<y, new_addrs[y].source>>]
        BY <2>8, <4>1 DEF NewIndexed
      <4>3. y \notin E
        BY <1>2, <2>3, <2>8, <4>1, <4>2 DEF NewIndexed
      <4>4. y # a
        BY <1>6, <4>2
      <4>5. y \in DOMAIN new_addrs' /\ new_addrs'[y] = new_addrs[y]
        BY <2>1, <4>2, <4>3, <4>4 DEF With
      <4> QED
        BY <4>2, <4>5
    <3> QED
      BY <2>1, <3>1, <3>2
  <2> QED
    BY <1>4, <2>6, <2>7, <2>8 DEF LimitsKept, TriedIndexed
<1> QED
  BY <1>5, <1>6

\* good keeps both sets of buckets in step with their tables.
LEMMA PromoteBuckets ==
    ASSUME AMTypeOK, LimitsKept, NEW t \in Threads, Promote(t)
    PROVE  LimitsKept' /\ (NewIndexed => NewIndexed') /\ (TriedIndexed => TriedIndexed')
<1> USE DEF AMTypeOK
<1> DEFINE a == call[t].addr
           b == TriedBucket[a]
<1>1. a \in Addrs /\ b \in Buckets
  BY BusyTyped, AddressAssumption DEF Promote, At, InProgram
<1>2. CASE a \in DOMAIN new_addrs
  <2> DEFINE info == [new_addrs[a] EXCEPT !.attempts = 0]
             from == NewBucket[<<a, new_addrs[a].source>>]
  <2>0. new_addrs[a].source \in Sources
    BY <1>2 DEF TablesTyped, Infos
  <2>1. from \in Buckets
    BY <1>1, <2>0, AddressAssumption
  <2>2. /\ new_addrs' = Without(new_addrs, a)
        /\ new_buckets' = [new_buckets EXCEPT ![from] = @ \ {a}]
    BY <1>2 DEF Promote
  <2>3. PICK E \in Evictable(tried_buckets[b]) :
          /\ tried_buckets' = [tried_buckets EXCEPT ![b] = (@ \ E) \cup {a}]
          /\ tried_addrs' = With([y \in DOMAIN tried_addrs \ E |-> tried_addrs[y]],
                                 a, info)
    BY <1>2 DEF Promote
  <2>4. /\ E \subseteq tried_buckets[b]
        /\ Cardinality((tried_buckets[b] \ E) \cup {a}) <= BUCKET_SIZE
    <3>1. tried_buckets[b] \in SUBSET Addrs /\ Cardinality(tried_buckets[b]) <= BUCKET_SIZE
      BY <1>1 DEF TablesTyped, LimitsKept
    <3> QED
      BY <3>1, RoomMade
  <2>5. Cardinality(DOMAIN new_addrs') <= MAX_ADDRESSES
    <3>1. IsFiniteSet(DOMAIN new_addrs)
      BY AddressAssumption, FS_Subset DEF TablesTyped
    <3>2. DOMAIN new_addrs' \in SUBSET DOMAIN new_addrs
      BY <2>2 DEF Without
    <3>3. /\ Cardinality(DOMAIN new_addrs') \in Nat /\ Cardinality(DOMAIN new_addrs) \in Nat
          /\ Cardinality(DOMAIN new_addrs') <= Cardinality(DOMAIN new_addrs)
      BY <3>1, <3>2, FS_Subset, FS_CardinalityType
    <3> QED
      BY <3>3, AddressAssumption DEF LimitsKept
  <2>6. \A x \in Buckets : Cardinality(new_buckets'[x]) <= BUCKET_SIZE
    <3>1. ASSUME NEW x \in Buckets
          PROVE  Cardinality(new_buckets'[x]) <= BUCKET_SIZE
      <4>1. IsFiniteSet(new_buckets[x])
        BY AddressAssumption, FS_Subset DEF TablesTyped
      <4>2. new_buckets'[x] \in SUBSET new_buckets[x]
        BY <2>2 DEF TablesTyped
      <4>3. /\ Cardinality(new_buckets'[x]) \in Nat /\ Cardinality(new_buckets[x]) \in Nat
            /\ Cardinality(new_buckets'[x]) <= Cardinality(new_buckets[x])
        BY <4>1, <4>2, FS_Subset, FS_CardinalityType
      <4> QED
        BY <4>3, AddressAssumption DEF LimitsKept
    <3> QED
      BY <3>1
  <2>7. \A x \in Buckets : Cardinality(tried_buckets'[x]) <= BUCKET_SIZE
    BY <1>1, <2>3, <2>4 DEF TablesTyped, LimitsKept
  <2>8. ASSUME NewIndexed PROVE NewIndexed'
    <3> SUFFICES ASSUME NEW x \in Buckets, NEW y \in new_buckets'[x]
                 PROVE  y \in DOMAIN new_addrs' /\ x = NewBucket[<<y, new_addrs'[y].source>>]
      BY DEF NewIndexed
    <3>1. y \in new_buckets[x] /\ (x = from => y # a)
      BY <2>1, <2>2 DEF TablesTyped
    <3>2. y \in DOMAIN new_addrs /\ x = NewBucket[<<y, new_addrs[y].source>>]
      BY <2>8, <3>1 DEF NewIndexed
    <3>3. y # a
      BY <3>1, <3>2
    <3> QED
      BY <2>2, <3>2, <3>3 DEF Without
  <2>9. ASSUME TriedIndexed PROVE TriedIndexed'
    <3> SUFFICES ASSUME NEW x \in Buckets, NEW y \in tried_buckets'[x]
                 PROVE  y \in DOMAIN tried_addrs' /\ x = TriedBucket[y]
      BY DEF TriedIndexed
    <3>1. CASE y = a
      <4>1. a \in DOMAIN tried_addrs'
        BY <2>3 DEF With
      <4>2. x = b
        BY <1>1, <2>3, <2>9, <3>1 DEF TriedIndexed, TablesTyped
      <4> QED
        BY <3>1, <4>1, <4>2
    <3>2. CASE y # a
      <4>1. y \in tried_buckets[x] /\ (x = b => y \notin E)
        BY <1>1, <2>3, <3>2 DEF TablesTyped
      <4>2. y \in DOMAIN tried_addrs /\ x = TriedBucket[y]
        BY <2>9, <4>1 DEF TriedIndexed
      <4>3. y \notin E
        BY <1>1, <2>4, <2>9, <4>1, <4>2 DEF TriedIndexed
      <4> QED
        BY <2>3, <4>2, <4>3 DEF With
    <3> QED
      BY <3>1, <3>2
  <2> QED
    BY <2>5, <2>6, <2>7, <2>8, <2>9 DEF LimitsKept
<1>3. CASE a \notin DOMAIN new_addrs
  <2>1. /\ DOMAIN tried_addrs' = DOMAIN tried_addrs
        /\ UNCHANGED <<new_addrs, new_buckets, tried_buckets>>
    BY <1>3 DEF Promote
  <2> QED
    BY <2>1 DEF LimitsKept, NewIndexed, TriedIndexed
<1> QED
  BY <1>2, <1>3

LEMMA BucketsStep ==
    ASSUME AMTypeOK, BucketsSound, [AMNext]_amVars
    PROVE  BucketsSound'
<1>1. CASE UNCHANGED amVars
  BY <1>1 DEF amVars, tableVars, BucketsSound, LimitsKept, NewIndexed, TriedIndexed,
     WillClearNewBuckets, WillClearTriedBuckets
<1>2. ASSUME NEW t \in Threads,
             Proceed(t) \/ \E m \in Methods, a \in Addrs, s \in Sources : Call(t, m, a, s)
      PROVE  BucketsSound'
  <2>1. /\ \A u \in Threads : u # t => call'[u] = call[u]
        /\ \A u \in Threads : WillClearNewBuckets(u)
             => WillClearNewBuckets(u)' \/ ClearNewBuckets(t)
        /\ \A u \in Threads : WillClearTriedBuckets(u)
             => WillClearTriedBuckets(u)' \/ ClearTriedBuckets(t)
    BY <1>2, ClearGoesOn
  <2>2. SUFFICES /\ LimitsKept'
                 /\ NewIndexed => NewIndexed' \/ \E u \in Threads : WillClearNewBuckets(u)'
                 /\ TriedIndexed => TriedIndexed' \/ \E u \in Threads : WillClearTriedBuckets(u)'
                 /\ ClearNewBuckets(t) => NewIndexed'
                 /\ ClearTriedBuckets(t) => TriedIndexed'
    BY <2>1 DEF BucketsSound
  <2>3. LimitsKept
    BY DEF BucketsSound
  <2>4. CASE UNCHANGED tableVars
    <3>1. ~ClearNewBuckets(t) \/ new_buckets = [b \in Buckets |-> {}]
      BY <2>4 DEF ClearNewBuckets, tableVars
    <3>2. ~ClearTriedBuckets(t) \/ tried_buckets = [b \in Buckets |-> {}]
      BY <2>4 DEF ClearTriedBuckets, tableVars
    <3> QED
      BY <2>3, <2>4, <3>1, <3>2 DEF tableVars, LimitsKept, NewIndexed, TriedIndexed
  <2>5. CASE AddOwn(t)
    BY <2>3, <2>5 DEF AddOwn, LimitsKept, NewIndexed, TriedIndexed, ClearNewBuckets,
       ClearTriedBuckets, At
  <2>6. CASE Insert(t)
    BY <2>3, <2>6, InsertBuckets DEF Insert, ClearNewBuckets, ClearTriedBuckets, At
  <2>7. CASE Promote(t)
    BY <2>3, <2>7, PromoteBuckets DEF Promote, ClearNewBuckets, ClearTriedBuckets, At
  <2>8. CASE Count(t)
    <3>1. ASSUME NEW f, NEW a, \A x \in DOMAIN f : f[x] \in Infos
          PROVE  /\ DOMAIN Counted(f, a) = DOMAIN f
                 /\ \A x \in DOMAIN f : Counted(f, a)[x].source = f[x].source
      BY <3>1 DEF Counted, Infos
    <3>2. /\ DOMAIN new_addrs' = DOMAIN new_addrs /\ DOMAIN tried_addrs' = DOMAIN tried_addrs
          /\ \A x \in DOMAIN new_addrs : new_addrs'[x].source = new_addrs[x].source
          /\ UNCHANGED <<new_buckets, tried_buckets>>
      BY <2>8, <3>1 DEF Count, AMTypeOK, TablesTyped
    <3>3. ~ClearNewBuckets(t) /\ ~ClearTriedBuckets(t)
      BY <2>8 DEF Count, ClearNewBuckets, ClearTriedBuckets, At
    <3> QED
      BY <2>3, <3>2, <3>3 DEF LimitsKept, NewIndexed, TriedIndexed
  <2>9. CASE ClearNew(t)
    <3>1. /\ call[t].method = "clear" /\ call[t].at = 2
          /\ call'[t].method = call[t].method /\ call'[t].at = call[t].at + 1
      BY <2>9, GoesOn, AdvanceTyped, BusyTyped, Places
      DEF AMTypeOK, ClearNew, At, StepOf, DoAt
    <3>2. WillClearNewBuckets(t)'
      BY <3>1 DEF WillClearNewBuckets
    <3>3. Cardinality(DOMAIN new_addrs') = 0
      BY <2>9, FS_EmptySet DEF ClearNew, Empty
    <3>4. ~ClearNewBuckets(t) /\ ~ClearTriedBuckets(t)
      BY <2>9 DEF ClearNew, ClearNewBuckets, ClearTriedBuckets, At
    <3> QED
      BY <2>3, <2>9, <3>2, <3>3, <3>4, AddressAssumption DEF ClearNew, LimitsKept, TriedIndexed
  <2>10. CASE ClearTried(t)
    <3>1. /\ call[t].method = "clear" /\ call[t].at = 4
          /\ call'[t].method = call[t].method /\ call'[t].at = call[t].at + 1
      BY <2>10, GoesOn, AdvanceTyped, BusyTyped, Places
      DEF AMTypeOK, ClearTried, At, StepOf, DoAt
    <3>2. WillClearTriedBuckets(t)'
      BY <3>1 DEF WillClearTriedBuckets
    <3>3. ~ClearNewBuckets(t) /\ ~ClearTriedBuckets(t)
      BY <2>10 DEF ClearTried, ClearNewBuckets, ClearTriedBuckets, At
    <3> QED
      BY <2>3, <2>10, <3>2, <3>3 DEF ClearTried, LimitsKept, NewIndexed
  <2>11. CASE ClearNewBuckets(t)
    <3>1. ~ClearTriedBuckets(t)
      BY <2>11 DEF ClearNewBuckets, ClearTriedBuckets, At
    <3> QED
      BY <2>3, <2>11, <3>1, FS_EmptySet, AddressAssumption
      DEF ClearNewBuckets, LimitsKept, NewIndexed, TriedIndexed
  <2>12. CASE ClearTriedBuckets(t)
    <3>1. ~ClearNewBuckets(t)
      BY <2>12 DEF ClearNewBuckets, ClearTriedBuckets, At
    <3> QED
      BY <2>3, <2>12, <3>1, FS_EmptySet, AddressAssumption
      DEF ClearTriedBuckets, LimitsKept, NewIndexed, TriedIndexed
  <2> QED
    BY <1>2, <2>4, <2>5, <2>6, <2>7, <2>8, <2>9, <2>10, <2>11, <2>12
    DEF Proceed, Call, Claim, Enter, Share, SkipOwn, SkipTried, Answer
<1> QED
  BY <1>1, <1>2 DEF AMNext

\* Buckets and tables stay in step and within their limits, whatever calls
\* interleave, except between the steps in which a clear empties a table and its
\* buckets.
THEOREM BucketsAlwaysSound == AMSpec => []BucketsSound
<1>1. AMInit => AMTypeOK
  BY DEF AMInit, AMTypeOK, TablesTyped, LocksTyped, CallsTyped, Empty
<1>2. AMInit => BucketsSound
  <2> SUFFICES ASSUME AMInit PROVE LimitsKept /\ NewIndexed /\ TriedIndexed
    BY DEF BucketsSound
  <2>1. Cardinality(DOMAIN new_addrs) = 0
    BY FS_EmptySet DEF AMInit, Empty
  <2> QED
    BY <2>1, FS_EmptySet, AddressAssumption DEF AMInit, LimitsKept, NewIndexed, TriedIndexed
<1>3. AMTypeOK /\ BucketsSound /\ [AMNext]_amVars => (AMTypeOK /\ BucketsSound)'
  BY TypeStep, BucketsStep
<1> QED
  BY <1>1, <1>2, <1>3, PTL DEF AMSpec

\* What a step forgets, a clear apart.
LEMMA ForgetStep ==
    ASSUME AMTypeOK, LimitsKept, NEW t \in Threads, Insert(t) \/ Promote(t)
    PROVE  \/ Known \subseteq Known'
           \/ /\ \E a \in Known : Known \ Known' = {a}
              /\ \/ ~(DOMAIN new_addrs' \subseteq DOMAIN new_addrs)
                 \/ ~(DOMAIN tried_addrs' \subseteq DOMAIN tried_addrs)
                 \/ \E a \in Twice : a \notin DOMAIN new_addrs'
<1> DEFINE a == call[t].addr
<1>0. ASSUME NEW B, NEW E \in Evictable(B)
      PROVE  E = {} \/ \E e : E = {e}
  BY DEF Evictable
<1>1. CASE Insert(t)
  <2> DEFINE b == NewBucket[<<a, call[t].source>>]
             kept(E) == [y \in DOMAIN new_addrs \ E |-> new_addrs[y]]
             info == [source |-> call[t].source, attempts |-> 0]
  <2>1. tried_addrs' = tried_addrs
    BY <1>1 DEF Insert
  <2>2. CASE a \in DOMAIN new_addrs
    BY <1>1, <2>1, <2>2 DEF Insert, Known
  <2>3. CASE a \notin DOMAIN new_addrs
    <3>1. PICK E \in Evictable(new_buckets[b]) :
            \/ new_addrs' = With(kept(E), a, info)
            \/ new_addrs' = kept(E) /\ ~(Cardinality(DOMAIN kept(E)) < MAX_ADDRESSES)
      BY <1>1, <2>3 DEF Insert
    <3>2. CASE new_addrs' = With(kept(E), a, info)
      <4>1. DOMAIN new_addrs' = (DOMAIN new_addrs \ E) \cup {a}
        BY <3>2 DEF With
      <4>2. Known \ Known' \subseteq E
        BY <2>1, <4>1 DEF Known
      <4>3. Known \subseteq Known' \/ \E e \in Known : Known \ Known' = {e}
        BY <1>0, <4>2
      <4> QED
        BY <2>3, <4>1, <4>3
    <3>3. CASE new_addrs' = kept(E) /\ ~(Cardinality(DOMAIN kept(E)) < MAX_ADDRESSES)
      <4>1. IsFiniteSet(DOMAIN new_addrs)
        BY AddressAssumption, FS_Subset DEF AMTypeOK, TablesTyped
      <4>2. DOMAIN kept(E) \in SUBSET DOMAIN new_addrs
        OBVIOUS
      <4>3. /\ Cardinality(DOMAIN kept(E)) \in Nat /\ Cardinality(DOMAIN new_addrs) \in Nat
            /\ Cardinality(DOMAIN kept(E)) <= Cardinality(DOMAIN new_addrs)
            /\ Cardinality(DOMAIN new_addrs) = Cardinality(DOMAIN kept(E))
                 => DOMAIN new_addrs = DOMAIN kept(E)
        BY <4>1, <4>2, FS_Subset, FS_CardinalityType
      <4>4. Cardinality(DOMAIN new_addrs) = Cardinality(DOMAIN kept(E))
        BY <3>3, <4>3, AddressAssumption DEF LimitsKept
      <4> QED
        BY <2>1, <3>3, <4>3, <4>4 DEF Known
    <3> QED
      BY <3>1, <3>2, <3>3
  <2> QED
    BY <2>2, <2>3
<1>2. CASE Promote(t)
  <2> DEFINE b == TriedBucket[a]
  <2>1. CASE a \in DOMAIN new_addrs
    <3>1. DOMAIN new_addrs' = DOMAIN new_addrs \ {a}
      BY <1>2, <2>1 DEF Promote, Without
    <3>2. PICK E \in Evictable(tried_buckets[b]) :
            tried_addrs' = With([y \in DOMAIN tried_addrs \ E |-> tried_addrs[y]],
                                a, [new_addrs[a] EXCEPT !.attempts = 0])
      BY <1>2, <2>1 DEF Promote
    <3>3. DOMAIN tried_addrs' = (DOMAIN tried_addrs \ E) \cup {a}
      BY <3>2 DEF With
    <3>4. Known \ Known' \subseteq E
      BY <3>1, <3>3 DEF Known
    <3>5. Known \subseteq Known' \/ \E e \in Known : Known \ Known' = {e}
      BY <1>0, <3>4
    <3> QED
      BY <2>1, <3>1, <3>3, <3>5 DEF Twice
  <2>2. CASE a \notin DOMAIN new_addrs
    BY <1>2, <2>2 DEF Promote, Known
  <2> QED
    BY <2>1, <2>2
<1> QED
  BY <1>1, <1>2

\* No interleaving of calls makes the address manager forget an address in vain,
\* with the one exception the property names.
THEOREM NothingForgottenInVain == AMSpec => ForgottenForAnother
<1> DEFINE Fine == \/ Known \subseteq Known'
                   \/ \E t \in Threads : ClearNew(t) \/ ClearTried(t)
                   \/ /\ \E a \in Known : Known \ Known' = {a}
                      /\ \/ ~(DOMAIN new_addrs' \subseteq DOMAIN new_addrs)
                         \/ ~(DOMAIN tried_addrs' \subseteq DOMAIN tried_addrs)
                         \/ \E a \in Twice : a \notin DOMAIN new_addrs'
<1>1. AMTypeOK /\ BucketsSound /\ [AMNext]_amVars => [Fine]_amVars
  <2> SUFFICES ASSUME AMTypeOK, BucketsSound, AMNext PROVE Fine
    OBVIOUS
  <2>1. LimitsKept
    BY DEF BucketsSound
  <2>2. PICK t \in Threads :
          Proceed(t) \/ \E m \in Methods, a \in Addrs, s \in Sources : Call(t, m, a, s)
    BY DEF AMNext
  <2>3. CASE Insert(t) \/ Promote(t)
    BY <2>1, <2>3, ForgetStep
  <2>4. CASE Count(t)
    BY <2>4 DEF Count, Counted, Known
  <2>5. CASE UNCHANGED <<new_addrs, tried_addrs>>
    BY <2>5 DEF Known
  <2>6. CASE ClearNew(t) \/ ClearTried(t)
    BY <2>6
  <2> QED
    BY <2>2, <2>3, <2>4, <2>5, <2>6
    DEF Proceed, Call, Claim, Enter, Share, SkipOwn, SkipTried, Answer, AddOwn,
        ClearNewBuckets, ClearTriedBuckets, tableVars
<1>2. AMSpec => []AMTypeOK /\ []BucketsSound
  BY AddressManagerTypeCorrect, BucketsAlwaysSound
<1> QED
  BY <1>1, <1>2, PTL DEF AMSpec, ForgottenForAnother

=============================================================================
