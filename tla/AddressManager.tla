-------------------------- MODULE AddressManager --------------------------
(***************************************************************************)
(* AddressManager of src/addrman.rs: a table of new and one of tried       *)
(* addresses, each with buckets that limit it, behind one RwLock per       *)
(* field.  All methods take &self, so calls of several threads interleave  *)
(* wherever a method holds no lock that excludes the others.               *)
(*                                                                         *)
(* A call is a list of steps (Program): acquire a lock, look something up  *)
(* under a lock that is given back at once, or do what the method does     *)
(* while it holds its locks.  The bucket locks are only ever taken under   *)
(* the table's write lock or for one statement, and need no steps.         *)
(*                                                                         *)
(* The locks are parking_lot's: a writer first claims the lock, which      *)
(* keeps every further reader out, a recursive one too, and then waits for *)
(* the readers inside to leave.                                            *)
(***************************************************************************)
EXTENDS Integers, Sequences, FiniteSets

CONSTANTS
    Threads, NoThread,
    Addrs, Sources,
    Buckets,
    NewBucket,      \* get_new_bucket: <<address, source>> -> bucket
    TriedBucket,    \* get_tried_bucket: address -> bucket
    BUCKET_SIZE,    \* 64 in the code
    MAX_ADDRESSES,  \* 20000 in the code
    Methods,        \* the methods the threads call
    MaxAttempts     \* bound: attempts counted per address

ASSUME AddressAssumption ==
    /\ NoThread \notin Threads
    /\ IsFiniteSet(Addrs)
    /\ NewBucket \in [Addrs \X Sources -> Buckets]
    /\ TriedBucket \in [Addrs -> Buckets]
    /\ BUCKET_SIZE \in Nat \ {0} /\ MAX_ADDRESSES \in Nat \ {0}
    /\ MaxAttempts \in Nat

VARIABLES
    own_addrs,
    new_addrs, tried_addrs,         \* maps: address -> source and attempts
    new_buckets, tried_buckets,     \* bucket -> set of addresses
    writer,     \* lock -> the thread that has claimed it for writing
    readers,    \* lock -> the threads that hold it for reading
    call        \* thread -> the call it is in and the step it has come to

tableVars == <<own_addrs, new_addrs, tried_addrs, new_buckets, tried_buckets>>
lockVars  == <<writer, readers>>
amVars    == <<tableVars, lockVars, call>>

Infos == [source : Sources, attempts : 0..MaxAttempts]

Without(f, x) == [y \in DOMAIN f \ {x} |-> f[y]]
With(f, x, v) == [y \in DOMAIN f \cup {x} |-> IF y = x THEN v ELSE f[y]]

-----------------------------------------------------------------------------
(* Calls and locks *)

Locks == {"new", "tried"}

Write(l) == [do |-> "write", lock |-> l]
Read(l)  == [do |-> "read",  lock |-> l]
Do(what) == [do |-> what,    lock |-> ""]

\* Mutant of Program: good takes its locks the other way round than attempt.
ProgramGoodReversed ==
    [add    |-> <<Do("is_own"), Do("is_tried"), Write("new"), Do("insert")>>,
     good   |-> <<Write("tried"), Write("new"), Do("promote")>>,
     attempt |-> <<Write("new"), Write("tried"), Do("count")>>,
     select |-> <<Read("tried"), Read("new"), Do("answer")>>,
     get_addresses |-> <<Read("tried"), Read("new"), Do("answer")>>,
     get_stats |-> <<Read("new"), Read("tried"), Read("new"), Read("tried"),
                     Do("answer")>>,
     add_own_address |-> <<Do("own")>>,
     clear  |-> <<Write("new"), Do("clear_new"), Write("tried"),
                  Do("clear_tried"), Do("clear_new_buckets"),
                  Do("clear_tried_buckets")>>]

\* The steps of each method.  The guards of get_stats are temporaries of one
\* expression and live to its end, so it locks both tables twice.
Program ==
    [add    |-> <<Do("is_own"), Do("is_tried"), Write("new"), Do("insert")>>,
     good   |-> <<Write("new"), Write("tried"), Do("promote")>>,
     attempt |-> <<Write("new"), Write("tried"), Do("count")>>,
     select |-> <<Read("tried"), Read("new"), Do("answer")>>,
     get_addresses |-> <<Read("tried"), Read("new"), Do("answer")>>,
     get_stats |-> <<Read("new"), Read("tried"), Read("new"), Read("tried"),
                     Do("answer")>>,
     add_own_address |-> <<Do("own")>>,
     clear  |-> <<Write("new"), Do("clear_new"), Write("tried"),
                  Do("clear_tried"), Do("clear_new_buckets"),
                  Do("clear_tried_buckets")>>]

ASSUME MethodsAssumption == Methods \subseteq DOMAIN Program

Idle == [method |-> "none", addr |-> CHOOSE a \in Addrs : TRUE,
         source |-> CHOOSE s \in Sources : TRUE, at |-> 0]

Busy(t)   == call[t].method # "none"
StepOf(t) == Program[call[t].method][call[t].at]
At(t, what) == Busy(t) /\ StepOf(t).do = what

Advance(t) == call' = [call EXCEPT ![t].at = @ + 1]

\* The guards of t are dropped.
Unlock(t) ==
    /\ writer'  = [l \in Locks |-> IF writer[l] = t THEN NoThread ELSE writer[l]]
    /\ readers' = [l \in Locks |-> readers[l] \ {t}]

Return(t) == Unlock(t) /\ call' = [call EXCEPT ![t] = Idle]

\* A thread calls a method; an argument the method does not have stays put.
Call(t, m, a, s) ==
    /\ ~Busy(t)
    /\ m \in {"select", "get_addresses", "get_stats", "clear"} => a = Idle.addr
    /\ m # "add" => s = Idle.source
    /\ call' = [call EXCEPT ![t] = [method |-> m, addr |-> a, source |-> s,
                                    at |-> 1]]
    /\ UNCHANGED <<tableVars, lockVars>>

\* A writer claims the lock, ...
Claim(t) ==
    /\ At(t, "write")
    /\ LET l == StepOf(t).lock
       IN writer[l] = NoThread /\ writer' = [writer EXCEPT ![l] = t]
    /\ UNCHANGED <<tableVars, readers, call>>

\* ... and has it when the readers are gone.
Enter(t) ==
    /\ At(t, "write")
    /\ LET l == StepOf(t).lock IN writer[l] = t /\ readers[l] = {}
    /\ Advance(t)
    /\ UNCHANGED <<tableVars, lockVars>>

Share(t) ==
    /\ At(t, "read")
    /\ LET l == StepOf(t).lock
       IN writer[l] = NoThread /\ readers' = [readers EXCEPT ![l] = @ \cup {t}]
    /\ Advance(t)
    /\ UNCHANGED <<tableVars, writer>>

-----------------------------------------------------------------------------
(* What the methods do *)

\* add: an address of our own, or one in the tried table, is skipped.  Neither
\* table is locked when the answer is used.
SkipOwn(t) ==
    /\ At(t, "is_own")
    /\ IF call[t].addr \in own_addrs THEN Return(t)
                                     ELSE Advance(t) /\ UNCHANGED lockVars
    /\ UNCHANGED tableVars

SkipTried(t) ==
    /\ At(t, "is_tried")
    /\ writer["tried"] = NoThread
    /\ IF call[t].addr \in DOMAIN tried_addrs THEN Return(t)
       ELSE Advance(t) /\ UNCHANGED lockVars
    /\ UNCHANGED tableVars

\* What is taken out of a bucket to make room in it: any one entry if it is full.
Evictable(bucket) ==
    IF Cardinality(bucket) >= BUCKET_SIZE THEN {{e} : e \in bucket} ELSE {{}}

\* Mutant of Insert: the limit is tested with the victim still counted.
InsertCountVictim(t) ==
    LET a == call[t].addr
        b == NewBucket[<<a, call[t].source>>]
        room == Cardinality(DOMAIN new_addrs) < MAX_ADDRESSES
    IN /\ At(t, "insert")
       /\ IF a \in DOMAIN new_addrs THEN UNCHANGED <<new_addrs, new_buckets>>
          ELSE \E E \in Evictable(new_buckets[b]) :
                 LET kept == [y \in DOMAIN new_addrs \ E |-> new_addrs[y]]
                 IN /\ new_addrs' = IF room THEN With(kept, a, [source |-> call[t].source,
                                                                attempts |-> 0])
                                            ELSE kept
                    /\ new_buckets' = [new_buckets EXCEPT ![b] =
                                         (@ \ E) \cup (IF room THEN {a} ELSE {})]
       /\ Return(t)
       /\ UNCHANGED <<own_addrs, tried_addrs, tried_buckets>>

\* The rest of add: an address already known as new keeps its entry; otherwise
\* it goes to its bucket, a full bucket giving up any one entry, unless there
\* are too many addresses.
Insert(t) ==
    LET a == call[t].addr
        b == NewBucket[<<a, call[t].source>>]
    IN /\ At(t, "insert")
       /\ IF a \in DOMAIN new_addrs THEN UNCHANGED <<new_addrs, new_buckets>>
          ELSE \E E \in Evictable(new_buckets[b]) :
                 LET kept == [y \in DOMAIN new_addrs \ E |-> new_addrs[y]]
                     room == Cardinality(DOMAIN kept) < MAX_ADDRESSES
                 IN /\ new_addrs' = IF room THEN With(kept, a, [source |-> call[t].source,
                                                                attempts |-> 0])
                                            ELSE kept
                    /\ new_buckets' = [new_buckets EXCEPT ![b] =
                                         (@ \ E) \cup (IF room THEN {a} ELSE {})]
       /\ Return(t)
       /\ UNCHANGED <<own_addrs, tried_addrs, tried_buckets>>

\* Mutant of Promote: the address stays in its new bucket.
PromoteLeaveBucket(t) ==
    LET a == call[t].addr
        b == TriedBucket[a]
    IN /\ At(t, "promote")
       /\ IF a \in DOMAIN new_addrs
          THEN \E E \in Evictable(tried_buckets[b]) :
                 /\ new_addrs' = Without(new_addrs, a)
                 /\ tried_buckets' = [tried_buckets EXCEPT ![b] = (@ \ E) \cup {a}]
                 /\ tried_addrs' = With([y \in DOMAIN tried_addrs \ E |-> tried_addrs[y]],
                                        a, [new_addrs[a] EXCEPT !.attempts = 0])
                 /\ UNCHANGED new_buckets
          ELSE UNCHANGED <<new_addrs, new_buckets, tried_buckets, tried_addrs>>
       /\ Return(t)
       /\ UNCHANGED own_addrs

\* good: a new address moves to the tried table, where a full bucket gives up
\* any one entry; a tried one starts again with no attempts.
Promote(t) ==
    LET a == call[t].addr
        b == TriedBucket[a]
        from == NewBucket[<<a, new_addrs[a].source>>]
    IN /\ At(t, "promote")
       /\ \/ /\ a \in DOMAIN new_addrs
             /\ new_addrs' = Without(new_addrs, a)
             /\ new_buckets' = [new_buckets EXCEPT ![from] = @ \ {a}]
             /\ \E E \in Evictable(tried_buckets[b]) :
                   /\ tried_buckets' = [tried_buckets EXCEPT ![b] = (@ \ E) \cup {a}]
                   /\ tried_addrs' =
                        With([y \in DOMAIN tried_addrs \ E |-> tried_addrs[y]],
                             a, [new_addrs[a] EXCEPT !.attempts = 0])
          \/ /\ a \notin DOMAIN new_addrs
             /\ tried_addrs' = [y \in DOMAIN tried_addrs |->
                   IF y = a THEN [tried_addrs[y] EXCEPT !.attempts = 0]
                   ELSE tried_addrs[y]]
             /\ UNCHANGED <<new_addrs, new_buckets, tried_buckets>>
       /\ Return(t)
       /\ UNCHANGED own_addrs

Counted(f, a) == [y \in DOMAIN f |->
    IF y = a /\ f[y].attempts < MaxAttempts THEN [f[y] EXCEPT !.attempts = @ + 1]
    ELSE f[y]]

\* attempt: counted in the new table if the address is there, else in the tried.
Count(t) ==
    LET a == call[t].addr
    IN /\ At(t, "count")
       /\ IF a \in DOMAIN new_addrs
          THEN new_addrs' = Counted(new_addrs, a) /\ UNCHANGED tried_addrs
          ELSE tried_addrs' = Counted(tried_addrs, a) /\ UNCHANGED new_addrs
       /\ Return(t)
       /\ UNCHANGED <<own_addrs, new_buckets, tried_buckets>>

\* select, get_addresses and get_stats change nothing.
Answer(t) ==
    /\ At(t, "answer")
    /\ Return(t)
    /\ UNCHANGED tableVars

AddOwn(t) ==
    /\ At(t, "own")
    /\ own_addrs' = own_addrs \cup {call[t].addr}
    /\ Return(t)
    /\ UNCHANGED <<new_addrs, tried_addrs, new_buckets, tried_buckets>>

Empty == [x \in {} |-> x]

\* clear empties one field after the other and holds one lock at a time.
ClearNew(t) ==
    /\ At(t, "clear_new")
    /\ new_addrs' = Empty
    /\ Unlock(t) /\ Advance(t)
    /\ UNCHANGED <<own_addrs, tried_addrs, new_buckets, tried_buckets>>

ClearTried(t) ==
    /\ At(t, "clear_tried")
    /\ tried_addrs' = Empty
    /\ Unlock(t) /\ Advance(t)
    /\ UNCHANGED <<own_addrs, new_addrs, new_buckets, tried_buckets>>

ClearNewBuckets(t) ==
    /\ At(t, "clear_new_buckets")
    /\ new_buckets' = [b \in Buckets |-> {}]
    /\ Advance(t)
    /\ UNCHANGED <<own_addrs, new_addrs, tried_addrs, tried_buckets, lockVars>>

ClearTriedBuckets(t) ==
    /\ At(t, "clear_tried_buckets")
    /\ tried_buckets' = [b \in Buckets |-> {}]
    /\ Return(t)
    /\ UNCHANGED <<own_addrs, new_addrs, tried_addrs, new_buckets>>

-----------------------------------------------------------------------------
AMInit ==
    /\ own_addrs = {}
    /\ new_addrs = Empty /\ tried_addrs = Empty
    /\ new_buckets = [b \in Buckets |-> {}]
    /\ tried_buckets = [b \in Buckets |-> {}]
    /\ writer = [l \in Locks |-> NoThread]
    /\ readers = [l \in Locks |-> {}]
    /\ call = [t \in Threads |-> Idle]

\* The steps of a call that is under way.
Proceed(t) ==
    \/ Claim(t) \/ Enter(t) \/ Share(t)
    \/ SkipOwn(t) \/ SkipTried(t) \/ Insert(t)
    \/ Promote(t) \/ Count(t) \/ Answer(t) \/ AddOwn(t)
    \/ ClearNew(t) \/ ClearTried(t) \/ ClearNewBuckets(t) \/ ClearTriedBuckets(t)

AMNext ==
    \E t \in Threads :
        \/ \E m \in Methods, a \in Addrs, s \in Sources : Call(t, m, a, s)
        \/ Proceed(t)

AMSpec == AMInit /\ [][AMNext]_amVars
-----------------------------------------------------------------------------
(* Properties *)

\* Call c is at a step of its method.
InProgram(c) ==
    /\ c \in [method : DOMAIN Program, addr : Addrs, source : Sources, at : Nat]
    /\ c.at \in 1..Len(Program[c.method])

TablesTyped ==
    /\ own_addrs \subseteq Addrs
    /\ DOMAIN new_addrs \subseteq Addrs /\ DOMAIN tried_addrs \subseteq Addrs
    /\ \A a \in DOMAIN new_addrs : new_addrs[a] \in Infos
    /\ \A a \in DOMAIN tried_addrs : tried_addrs[a] \in Infos
    /\ new_buckets \in [Buckets -> SUBSET Addrs]
    /\ tried_buckets \in [Buckets -> SUBSET Addrs]

LocksTyped ==
    /\ writer \in [Locks -> Threads \cup {NoThread}]
    /\ readers \in [Locks -> SUBSET Threads]

CallsTyped ==
    /\ DOMAIN call = Threads
    /\ call = [t \in Threads |-> call[t]]
    /\ \A t \in Threads : call[t] = Idle \/ InProgram(call[t])

\* The tables, the locks and the calls are what their declarations say.
AMTypeOK == TablesTyped /\ LocksTyped /\ CallsTyped

\* t is in clear and has still to empty the new, or the tried, buckets.
WillClearNewBuckets(t)   == call[t].method = "clear" /\ call[t].at \in 3..5
WillClearTriedBuckets(t) == call[t].method = "clear" /\ call[t].at \in 5..6

LimitsKept ==
    /\ Cardinality(DOMAIN new_addrs) <= MAX_ADDRESSES
    /\ \A b \in Buckets : Cardinality(new_buckets[b]) <= BUCKET_SIZE
    /\ \A b \in Buckets : Cardinality(tried_buckets[b]) <= BUCKET_SIZE

NewIndexed ==
    \A b \in Buckets : \A a \in new_buckets[b] :
        a \in DOMAIN new_addrs /\ b = NewBucket[<<a, new_addrs[a].source>>]

TriedIndexed ==
    \A b \in Buckets : \A a \in tried_buckets[b] :
        a \in DOMAIN tried_addrs /\ b = TriedBucket[a]

\* Outside of a clear, an address in a bucket is in the table and in no other
\* bucket, so that eviction always removes a table entry.  The limits on a
\* bucket and on the new table hold at any time.
BucketsSound ==
    /\ LimitsKept
    /\ NewIndexed   \/ \E t \in Threads : WillClearNewBuckets(t)
    /\ TriedIndexed \/ \E t \in Threads : WillClearTriedBuckets(t)

Known == DOMAIN new_addrs \cup DOMAIN tried_addrs

\* In both tables: an add that ran beside a good has put the address back.
Twice == DOMAIN new_addrs \cap DOMAIN tried_addrs

\* Whatever calls interleave, an address is forgotten only in a clear, or to make
\* room for another: one that the step enters in a table, or one that good finds
\* in both tables.  An add that enters nothing loses nothing.
ForgottenForAnother ==
    [][ \/ Known \subseteq Known'
        \/ \E t \in Threads : ClearNew(t) \/ ClearTried(t)
        \/ /\ \E a \in Known : Known \ Known' = {a}
           /\ \/ ~(DOMAIN new_addrs' \subseteq DOMAIN new_addrs)
              \/ ~(DOMAIN tried_addrs' \subseteq DOMAIN tried_addrs)
              \/ \E a \in Twice : a \notin DOMAIN new_addrs' ]_amVars

\* t cannot go on before u has.
WaitsFor(t, u) ==
    /\ Busy(t)
    /\ \/ /\ At(t, "write") /\ writer[StepOf(t).lock] # t
          /\ u = writer[StepOf(t).lock]
       \/ /\ At(t, "write") /\ writer[StepOf(t).lock] = t
          /\ u \in readers[StepOf(t).lock]
       \/ At(t, "read") /\ u = writer[StepOf(t).lock]
       \/ At(t, "is_tried") /\ u = writer["tried"]

ReadingMethods == {"select", "get_addresses", "get_stats"}

\* The methods that change a table take the locks in the same order: threads
\* that wait for each other in a circle include one that reads both tables.
CircleNeedsReader ==
    \A S \in (SUBSET Threads) \ {{}} :
        (\A t \in S : \E u \in S : WaitsFor(t, u))
            => \E t \in S : call[t].method \in ReadingMethods

-----------------------------------------------------------------------------
(* The inductive invariant behind CircleNeedsReader: where a thread can be   *)
(* that has claimed a lock, or reads under one.                              *)

WriterOfNew(c) ==
    \/ c.method = "add" /\ c.at \in {3, 4}
    \/ c.method \in {"good", "attempt"} /\ c.at \in {1, 2, 3}
    \/ c.method = "clear" /\ c.at \in {1, 2}

WriterOfTried(c) ==
    \/ c.method \in {"good", "attempt"} /\ c.at \in {2, 3}
    \/ c.method = "clear" /\ c.at \in {3, 4}

LocksOwned ==
    /\ writer["new"]   # NoThread => WriterOfNew(call[writer["new"]])
    /\ writer["tried"] # NoThread => WriterOfTried(call[writer["tried"]])
    /\ \A l \in Locks : \A t \in readers[l] : call[t].method \in ReadingMethods
=============================================================================
