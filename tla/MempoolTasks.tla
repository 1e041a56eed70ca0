--------------------------- MODULE MempoolTasks ---------------------------
(***************************************************************************)
(* The transaction pool as the node runs it.  The event loop spawns a task *)
(* for every Tx message, the runtime runs tasks in parallel, and add_tx    *)
(* takes no lock for its whole length: every map operation and every       *)
(* update of a total is atomic by itself.  Here add_tx, with the remove_tx *)
(* it calls, is cut into those operations; Mempool has it in one step.     *)
(*                                                                         *)
(* A loop over the inputs or the links of one transaction is one step, and *)
(* so are two reads in a row.  Nothing but add_tx is called by the node.   *)
(***************************************************************************)
EXTENDS Mempool, Sequences

CONSTANTS
    Tasks,          \* slots for tasks that run at the same time
    MaxCalls        \* bound: Tx messages received

ASSUME TaskAssumption == IsFiniteSet(Tasks) /\ MaxCalls \in Nat

VARIABLES
    task,           \* slot -> the call it runs and how far it has come
    calls,          \* number of calls so far
    overlap,        \* history: two calls have run at the same time ...
    raced,          \* history: ... that touched linked transactions
    settled         \* history: the pool when no call was last under way

mtVars == <<pool, task, calls, overlap, raced, settled>>

Free == [at |-> "free"]
Running(k) == task[k].at # "free"
Quiet == \A k \in Tasks : ~Running(k)

Goto(k, at) == task' = [task EXCEPT ![k].at = at]
Done(k)     == task' = [task EXCEPT ![k] = Free]

\* Two transactions that add_tx or remove_tx of one can touch on behalf of the
\* other: the same one, two that spend the same output, a parent and a child.
Linked(t, u) ==
    \/ t = u
    \/ Inputs[t] \cap Inputs[u] # {}
    \/ \E o \in Inputs[t] : o[1] = u
    \/ \E o \in Inputs[u] : o[1] = t

\* The transactions that the call in slot k works on just now.
Touched(k) == IF Running(k) THEN {task[k].tx} \cup task[k].gone ELSE {}

\* Slot k turns to transaction t.
NoteRace(k, t) ==
    raced' = (raced \/ \E j \in Tasks \ {k} : \E u \in Touched(j) : Linked(t, u))

\* A step that may end a call leaves the pool as it is.
NoteSettled ==
    settled' = IF \A k \in Tasks : task'[k].at = "free" THEN pool ELSE settled

-----------------------------------------------------------------------------
(* add_tx *)

\* A Tx message: its task starts.
ReceiveTx(k, t) ==
    /\ ~Running(k) /\ calls < MaxCalls
    /\ calls' = calls + 1
    /\ task' = [task EXCEPT ![k] =
                  [at |-> "check", tx |-> t, seen |-> << >>, parents |-> {},
                   anc |-> Own(t), queue |-> << >>, gone |-> {}, old |-> << >>,
                   then |-> "parents", cur |-> 0, evicted |-> 0]]
    /\ overlap' = (overlap \/ ~Quiet)
    /\ NoteRace(k, t)
    /\ UNCHANGED <<pool, settled>>

\* Already in the pool, or refused by kernel or policy whatever the pool holds.
Check(k) ==
    LET t == task[k].tx
    IN /\ task[k].at = "check"
       /\ IF /\ t \notin InPool(pool) /\ t \in WellFormed
             /\ Vsize[t] <= max_tx_size /\ Rate(t) >= min_relay_fee
          THEN Goto(k, "conflicts") ELSE Done(k)
       /\ NoteSettled
       /\ UNCHANGED <<pool, calls, overlap, raced>>

\* find_conflicts: the spenders of contested outpoints, as they are now.
FindConflicts(k) ==
    LET t == task[k].tx
        seen == [o \in Contested(pool, t) |-> pool.spends[o]]
    IN /\ task[k].at = "conflicts"
       /\ IF DOMAIN seen = {} THEN Goto(k, "parents")
          ELSE IF t \in Signals
          THEN task' = [task EXCEPT ![k].at = "replace", ![k].seen = seen]
          ELSE Done(k)
       /\ NoteSettled
       /\ UNCHANGED <<pool, calls, overlap, raced>>

\* All ways to list the members of S once each.
Lists(S) == {q \in [1..Cardinality(S) -> S] : \A x \in S : \E i \in DOMAIN q : q[i] = x}

\* handle_replacement up to the removals.  A conflict that has left the pool in
\* the meantime is not counted.
Replace(k) ==
    LET t    == task[k].tx
        seen == task[k].seen
        live == {o \in DOMAIN seen : seen[o] \in InPool(pool)}
        cost == Total([o \in live |-> Own(seen[o])], live)
        bump == IF Fee[t] > cost.fees THEN Fee[t] - cost.fees ELSE 0
        diff == IF Vsize[t] > cost.size THEN Vsize[t] - cost.size
                                        ELSE cost.size - Vsize[t]
    IN /\ task[k].at = "replace"
       /\ IF (\A o \in live : seen[o] \in Signals) /\ CheckRbf(t, bump, diff)
          THEN \E q \in Lists({seen[o] : o \in DOMAIN seen}) :
                  task' = [task EXCEPT ![k].at = "remove", ![k].queue = q]
          ELSE Done(k)
       /\ NoteSettled
       /\ UNCHANGED <<pool, calls, overlap, raced>>

\* find_parents, calculate_ancestors and check_ancestor_limits.
FindParents(k) ==
    LET t == task[k].tx
    IN /\ task[k].at = "parents"
       /\ IF WithinLimits(pool, t)
          THEN task' = [task EXCEPT ![k].at = "spend",
                                    ![k].parents = Parents(pool, t),
                                    ![k].anc = AncestorStats(pool, t)]
          ELSE Done(k)
       /\ NoteSettled
       /\ UNCHANGED <<pool, calls, overlap, raced>>

InsertSpends(k) ==
    LET t == task[k].tx
    IN /\ task[k].at = "spend"
       /\ pool' = [pool EXCEPT !.spends =
                     [o \in DOMAIN @ \cup Inputs[t] |->
                        IF o \in Inputs[t] THEN t ELSE @[o]]]
       /\ Goto(k, "tell")
       /\ UNCHANGED <<calls, overlap, raced, settled>>

\* The parents that are still there learn of their child.
TellParents(k) ==
    LET t == task[k].tx
        told(e) == [e EXCEPT !.children = @ \cup {t}, !.desc = Plus(@, Own(t))]
    IN /\ task[k].at = "tell"
       /\ pool' = [pool EXCEPT !.entries = [u \in DOMAIN @ |->
                     IF u \in task[k].parents THEN told(@[u]) ELSE @[u]]]
       /\ Goto(k, "total")
       /\ UNCHANGED <<calls, overlap, raced, settled>>

\* Mutant of AddTotals: the totals are counted when the entry is in, and the
\* entry goes in first.
AddTotalsLast(k) ==
    LET t == task[k].tx
    IN /\ task[k].at \in {"total", "count"}
       /\ IF task[k].at = "total"
          THEN /\ pool' = [pool EXCEPT !.entries = [u \in DOMAIN @ \cup {t} |->
                     IF u = t THEN [parents |-> task[k].parents, children |-> {},
                                    anc |-> task[k].anc, desc |-> Own(t)]
                     ELSE @[u]]]
               /\ Goto(k, "count")
          ELSE /\ pool' = [pool EXCEPT !.size = @ + Vsize[t], !.fees = @ + Fee[t]]
               /\ Goto(k, "evict")
       /\ UNCHANGED <<calls, overlap, raced, settled>>

AddTotals(k) ==
    LET t == task[k].tx
    IN /\ task[k].at = "total"
       /\ pool' = [pool EXCEPT !.size = @ + Vsize[t], !.fees = @ + Fee[t]]
       /\ Goto(k, "enter")
       /\ UNCHANGED <<calls, overlap, raced, settled>>

\* The entry goes in last, over one that another task has put there.
InsertEntry(k) ==
    LET t == task[k].tx
    IN /\ task[k].at = "enter"
       /\ pool' = [pool EXCEPT !.entries = [u \in DOMAIN @ \cup {t} |->
                     IF u = t THEN [parents |-> task[k].parents, children |-> {},
                                    anc |-> task[k].anc, desc |-> Own(t)]
                     ELSE @[u]]]
       /\ Goto(k, "evict")
       /\ UNCHANGED <<calls, overlap, raced, settled>>

-----------------------------------------------------------------------------
(* maybe_evict *)

MeasureSize(k) ==
    /\ task[k].at = "evict"
    /\ IF pool.size <= max_size THEN Done(k)
       ELSE task' = [task EXCEPT ![k].at = "list", ![k].cur = pool.size]
    /\ NoteSettled
    /\ UNCHANGED <<pool, calls, overlap, raced>>

\* A copy of all entries, lowest fee rate first.
ListEntries(k) ==
    /\ task[k].at = "list"
    /\ \E q \in Lists(InPool(pool)) :
          /\ \A i, j \in DOMAIN q : i < j => Rate(q[i]) <= Rate(q[j])
          /\ task' = [task EXCEPT ![k].at = "remove", ![k].queue = q,
                                  ![k].then = "return", ![k].evicted = 0]
    /\ UNCHANGED <<pool, calls, overlap, raced, settled>>

-----------------------------------------------------------------------------
(* remove_tx, for each transaction of the queue *)

\* Mutant of Enough: one transaction too many is evicted.
EnoughBelow(k) ==
    \/ task[k].queue = << >>
    \/ task[k].then = "return" /\ task[k].cur - task[k].evicted < max_size

Enough(k) ==
    \/ task[k].queue = << >>
    \/ task[k].then = "return" /\ task[k].cur - task[k].evicted <= max_size

\* The loop over the queue ends.
RemovedAll(k) ==
    /\ task[k].at = "remove" /\ Enough(k)
    /\ IF task[k].then = "parents" THEN Goto(k, "parents") ELSE Done(k)
    /\ NoteSettled
    /\ UNCHANGED <<pool, calls, overlap, raced>>

\* The entry is taken out of the map; nothing happens if another task was first.
RemoveEntry(k) ==
    LET c == Head(task[k].queue)
    IN /\ task[k].at = "remove" /\ ~Enough(k)
       /\ IF c \in InPool(pool)
          THEN /\ pool' = [pool EXCEPT !.entries = [u \in DOMAIN @ \ {c} |-> @[u]]]
               /\ task' = [task EXCEPT ![k].at = "unspend",
                                       ![k].queue = Tail(@),
                                       ![k].gone = {c},
                                       ![k].old = pool.entries[c]]
               /\ NoteRace(k, c)
          ELSE /\ task' = [task EXCEPT ![k].queue = Tail(@)]
               /\ UNCHANGED <<pool, raced>>
       /\ UNCHANGED <<calls, overlap, settled>>

Victim(k) == CHOOSE c \in task[k].gone : TRUE

\* Mutant of RemoveSpends: the outpoints stay in the map.
KeepSpends(k) ==
    /\ task[k].at = "unspend"
    /\ Goto(k, "unlink")
    /\ UNCHANGED <<pool, calls, overlap, raced, settled>>

\* The outpoints are freed, whoever they belong to by now.
RemoveSpends(k) ==
    /\ task[k].at = "unspend"
    /\ pool' = [pool EXCEPT !.spends =
                  [o \in DOMAIN @ \ Inputs[Victim(k)] |-> @[o]]]
    /\ Goto(k, "unlink")
    /\ UNCHANGED <<calls, overlap, raced, settled>>

RemoveLinks(k) ==
    LET c == Victim(k)
        old == task[k].old
        told(u, e) ==
            [parents  |-> IF u \in old.children THEN e.parents \ {c} ELSE e.parents,
             children |-> IF u \in old.parents THEN e.children \ {c} ELSE e.children,
             anc  |-> IF u \in old.children THEN Less(e.anc, Own(c)) ELSE e.anc,
             desc |-> IF u \in old.parents THEN Less(e.desc, Own(c)) ELSE e.desc]
    IN /\ task[k].at = "unlink"
       /\ pool' = [pool EXCEPT !.entries = [u \in DOMAIN @ |-> told(u, @[u])]]
       /\ Goto(k, "untotal")
       /\ UNCHANGED <<calls, overlap, raced, settled>>

SubtractTotals(k) ==
    LET c == Victim(k)
    IN /\ task[k].at = "untotal"
       /\ pool' = [pool EXCEPT !.size = @ - Vsize[c], !.fees = @ - Fee[c]]
       /\ task' = [task EXCEPT ![k].at = "remove", ![k].gone = {}, ![k].old = << >>,
                               ![k].evicted = @ + Vsize[c]]
       /\ UNCHANGED <<calls, overlap, raced, settled>>

-----------------------------------------------------------------------------
MTInit ==
    /\ pool = NewMempool
    /\ task = [k \in Tasks |-> Free]
    /\ calls = 0
    /\ overlap = FALSE /\ raced = FALSE
    /\ settled = NewMempool

MTStep(k) ==
    \/ Check(k) \/ FindConflicts(k) \/ Replace(k) \/ FindParents(k)
    \/ InsertSpends(k) \/ TellParents(k) \/ AddTotals(k) \/ InsertEntry(k)
    \/ MeasureSize(k) \/ ListEntries(k)
    \/ RemovedAll(k) \/ RemoveEntry(k) \/ RemoveSpends(k) \/ RemoveLinks(k)
    \/ SubtractTotals(k)

MTNext ==
    \E k \in Tasks : (\E t \in Txs : ReceiveTx(k, t)) \/ MTStep(k)

MTSpec == MTInit /\ [][MTNext]_mtVars
-----------------------------------------------------------------------------
(* Properties *)

\* Whatever calls overlap, the totals cover the entries, and what is still to
\* be subtracted for entries taken out: total_size and total_fees, which are
\* unsigned, never go below zero.
TotalsCover ==
    LET S == TotalOf(InPool(pool))
        owed(k) == IF Running(k) THEN TotalOf(task[k].gone) ELSE TotalOf({})
        O == Total([k \in Tasks |-> owed(k)], Tasks)
    IN pool.size >= S.size + O.size /\ pool.fees >= S.fees + O.fees

\* Calls may overlap as long as the transactions they work on have nothing to
\* do with each other: the index, the links and the totals are exact again when
\* no call is under way.  (The same transaction from two peers, two spends of
\* one output, or a parent and its child at the same time can spoil them.)
UnlinkedCallsExact ==
    Quiet /\ ~raced =>
        /\ SpendsExact /\ LinksSound
        /\ pool.size = TotalOf(InPool(pool)).size
        /\ pool.fees = TotalOf(InPool(pool)).fees

Atomic == INSTANCE Mempool WITH pool <- settled

\* As long as calls come one after the other, add_tx does in its many steps
\* what Mempool says it does in one.
AloneAtomic ==
    [][ ~overlap' =>
          [\E t \in Txs : Atomic!AddTx(t) \/ Atomic!AddTxFails(t)]_settled ]_mtVars

\* "Check for conflicts (double spends)": no two entries spend the same output.
NoDoubleSpend ==
    \A t, u \in InPool(pool) : t # u => Inputs[t] \cap Inputs[u] = {}
=============================================================================
