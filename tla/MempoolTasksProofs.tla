------------------------- MODULE MempoolTasksProofs -------------------------
(***************************************************************************)
(* For any number of tasks and any interleaving of the steps of add_tx and *)
(* remove_tx, three results with an invariant each.                        *)
(*                                                                         *)
(* MTInv: the totals of the pool cover its entries.  It also counts what a *)
(* task has added to the totals for an entry that is not in the map yet    *)
(* (stage "enter"), and what a task has taken out of the map and not       *)
(* subtracted yet (gone).                                                  *)
(*                                                                         *)
(* UnspoiltUnlessRaced: as long as no two linked transactions met, every   *)
(* part of the pool is exact but for what its one owner has still to do.   *)
(*                                                                         *)
(* AloneUnlessOverlap: as long as calls come one after the other, the pool *)
(* within a call follows from the one before it by what Mempool's          *)
(* operators say of the steps done; so the call as a whole is one step of  *)
(* Mempool.                                                                *)
(***************************************************************************)
EXTENDS MempoolTasks, MempoolProofs

-----------------------------------------------------------------------------
(* The inductive invariant *)

Fields == {"at", "tx", "seen", "parents", "anc", "queue", "gone", "old", "then",
           "cur", "evicted"}
Stages == {"check", "conflicts", "replace", "parents", "spend", "tell", "total",
           "enter", "evict", "list", "remove", "unspend", "unlink", "untotal"}

\* The stages of remove_tx between the map and the totals.
Removing == {"unspend", "unlink", "untotal"}

CallOK(e) ==
    /\ DOMAIN e = Fields
    /\ e.at \in Stages
    /\ e.tx \in Txs
    /\ IF e.at \in Removing THEN \E c \in Txs : e.gone = {c} ELSE e.gone = {}

TasksOK(tk) == DOMAIN tk = Tasks /\ \A k \in Tasks : tk[k] = Free \/ CallOK(tk[k])

\* What the call e still has to add to or take from the entries, measured by f.
LoadOf(f, e) ==
    IF e.at = "free" THEN 0
    ELSE SumOf(f, e.gone) + (IF e.at = "enter" THEN f[e.tx] ELSE 0)

Load(f, tk) == SumOf([k \in Tasks |-> LoadOf(f, tk[k])], Tasks)

\* total covers the members of S and the calls of tk.
Covers(f, total, S, tk) == total \in Int /\ total >= SumOf(f, S) + Load(f, tk)

PoolShape(m) ==
    DOMAIN m = {"entries", "spends", "size", "fees"} /\ InPool(m) \subseteq Txs

MTInv ==
    /\ TasksOK(task)
    /\ PoolShape(pool)
    /\ Covers(Vsize, pool.size, InPool(pool), task)
    /\ Covers(Fee, pool.fees, InPool(pool), task)

Measures == [Txs -> Nat]

-----------------------------------------------------------------------------
(* Loads *)

LEMMA LoadType ==
  ASSUME NEW f \in Measures, NEW e, e = Free \/ CallOK(e)
  PROVE  /\ LoadOf(f, e) \in Nat
         /\ e.at # "free" => LoadOf(f, e) >= SumOf(f, e.gone) /\ SumOf(f, e.gone) \in Nat
<1>1. CASE e = Free
  BY <1>1 DEF Free, LoadOf
<1>2. CASE CallOK(e)
  <2>1. e.gone \in SUBSET Txs /\ e.tx \in Txs
    BY <1>2 DEF CallOK
  <2>2. IsFiniteSet(e.gone) /\ \A x \in e.gone : f[x] \in Nat
    BY <2>1, TxAssumption, FS_Subset DEF Measures
  <2>3. SumOf(f, e.gone) \in Nat /\ f[e.tx] \in Nat
    BY <2>1, <2>2, SumType DEF Measures
  <2> QED BY <2>3 DEF LoadOf
<1> QED BY <1>1, <1>2

\* The load of a call by its stage.
LEMMA LoadByStage ==
  ASSUME NEW f \in Measures, NEW e, CallOK(e)
  PROVE  /\ e.at \notin Removing /\ e.at # "enter" => LoadOf(f, e) = 0
         /\ e.at = "enter" => LoadOf(f, e) = f[e.tx]
         /\ \A c \in Txs : e.at \in Removing /\ e.gone = {c} => LoadOf(f, e) = f[c]
<1>1. SumOf(f, {}) = 0 /\ f[e.tx] \in Nat /\ e.at # "free"
  BY SumEmpty DEF CallOK, Stages, Measures
<1>2. ASSUME NEW c \in Txs PROVE SumOf(f, {c}) = f[c] /\ f[c] \in Nat
  <2>1. f[c] \in Nat /\ IsFiniteSet({}) /\ {} \cup {c} = {c}
    BY FS_EmptySet DEF Measures
  <2>2. SumOf(f, {} \cup {c}) = SumOf(f, {}) + f[c]
    BY <2>1, SumWith
  <2> QED BY <1>1, <2>1, <2>2
<1>3. CASE e.at \in Removing
  BY <1>1, <1>2, <1>3 DEF LoadOf, Removing
<1>4. CASE e.at \notin Removing
  BY <1>1, <1>4 DEF LoadOf, CallOK, Removing
<1> QED BY <1>3, <1>4

\* A step of one call changes the load of that call.
LEMMA LoadStep ==
  ASSUME NEW f \in Measures, NEW tk, TasksOK(tk), NEW tl, TasksOK(tl), NEW k \in Tasks,
         \A j \in Tasks \ {k} : tl[j] = tk[j]
  PROVE  /\ Load(f, tk) \in Nat /\ Load(f, tl) \in Nat
         /\ LoadOf(f, tk[k]) \in Nat /\ LoadOf(f, tl[k]) \in Nat
         /\ Load(f, tl) + LoadOf(f, tk[k]) = Load(f, tk) + LoadOf(f, tl[k])
<1> DEFINE g == [j \in Tasks |-> LoadOf(f, tk[j])]
           h == [j \in Tasks |-> LoadOf(f, tl[j])]
           rest == Tasks \ {k}
<1>1. \A j \in Tasks : g[j] \in Nat /\ h[j] \in Nat
  BY LoadType DEF TasksOK
<1>2. IsFiniteSet(Tasks) /\ IsFiniteSet(rest)
  BY TaskAssumption, FS_RemoveElement
<1>3. g[k] = LoadOf(f, tk[k]) /\ h[k] = LoadOf(f, tl[k]) /\ \A j \in rest : g[j] = h[j]
  OBVIOUS
<1>4. Load(f, tk) = SumOf(g, Tasks) /\ Load(f, tl) = SumOf(h, Tasks)
  BY DEF Load
<1> HIDE DEF g, h
<1>5. SumOf(g, Tasks) = SumOf(g, rest) + g[k] /\ SumOf(h, Tasks) = SumOf(h, rest) + h[k]
  BY <1>1, <1>2, SumWithout
<1>6. SumOf(g, rest) = SumOf(h, rest) /\ SumOf(g, rest) \in Nat
  BY <1>1, <1>2, <1>3, SumSame, SumType
<1> QED BY <1>1, <1>3, <1>4, <1>5, <1>6

\* A step that does not raise the load of its call nor change total and entries.
LEMMA QuietCovers ==
  ASSUME NEW f \in Measures, NEW tk, TasksOK(tk), NEW tl, TasksOK(tl), NEW k \in Tasks,
         \A j \in Tasks \ {k} : tl[j] = tk[j],
         LoadOf(f, tl[k]) <= LoadOf(f, tk[k]),
         NEW n, NEW S \in SUBSET Txs, Covers(f, n, S, tk)
  PROVE  Covers(f, n, S, tl)
<1>1. /\ Load(f, tk) \in Nat /\ Load(f, tl) \in Nat
      /\ LoadOf(f, tk[k]) \in Nat /\ LoadOf(f, tl[k]) \in Nat
      /\ Load(f, tl) + LoadOf(f, tk[k]) = Load(f, tk) + LoadOf(f, tl[k])
  BY LoadStep
<1>2. Load(f, tl) <= Load(f, tk)
  BY <1>1
<1>3. SumOf(f, S) \in Nat
  BY TxAssumption, FS_Subset, SumType DEF Measures
<1> QED BY <1>1, <1>2, <1>3 DEF Covers

-----------------------------------------------------------------------------
(* Steps *)

\* A call moves on and the pool keeps its totals and entries.
LEMMA MoveKeeps ==
  ASSUME MTInv, NEW k \in Tasks, CallOK(task[k]), TasksOK(task'),
         \A j \in Tasks \ {k} : task'[j] = task[j],
         \/ task'[k] = Free
         \/ CallOK(task'[k]) /\ task'[k].at \notin Removing /\ task'[k].at # "enter"
         \/ /\ CallOK(task'[k]) /\ {task'[k].at, task[k].at} \subseteq Removing
            /\ task'[k].gone = task[k].gone,
         PoolShape(pool'), InPool(pool') = InPool(pool),
         pool'.size = pool.size, pool'.fees = pool.fees
  PROVE  MTInv'
<1>1. TasksOK(task) /\ InPool(pool) \in SUBSET Txs
  BY DEF MTInv, PoolShape
<1>2. ASSUME NEW f \in Measures PROVE LoadOf(f, task'[k]) <= LoadOf(f, task[k])
  <2>1. LoadOf(f, task[k]) \in Nat /\ (task'[k] = Free => LoadOf(f, task'[k]) = 0)
    BY LoadType DEF LoadOf, Free
  <2>2. CASE LoadOf(f, task'[k]) = 0
    BY <2>1, <2>2
  <2>3. CASE /\ CallOK(task'[k]) /\ {task'[k].at, task[k].at} \subseteq Removing
             /\ task'[k].gone = task[k].gone
    <3>1. PICK c \in Txs : task[k].gone = {c}
      BY <2>3 DEF CallOK
    <3>2. LoadOf(f, task'[k]) = f[c] /\ LoadOf(f, task[k]) = f[c]
      BY <2>3, <3>1, LoadByStage
    <3> QED BY <2>1, <3>2
  <2> QED BY <2>1, <2>2, <2>3, LoadByStage
<1>3. Vsize \in Measures /\ Fee \in Measures
  BY TxAssumption DEF Measures
<1>4. ASSUME NEW f \in Measures, NEW n, Covers(f, n, InPool(pool), task)
      PROVE  Covers(f, n, InPool(pool), task')
  BY <1>1, <1>2, <1>4, QuietCovers
<1> QED BY <1>3, <1>4 DEF MTInv

\* A call moves to another stage and keeps its transaction and its victim.
LEMMA OtherStage ==
  ASSUME TasksOK(task), NEW k \in Tasks, CallOK(task[k]), NEW e, DOMAIN e = Fields,
         e.at \in Stages, e.tx = task[k].tx, e.gone = task[k].gone,
         e.at \in Removing <=> task[k].at \in Removing,
         task' = [task EXCEPT ![k] = e]
  PROVE  /\ CallOK(task'[k]) /\ TasksOK(task') /\ task'[k] = e
         /\ \A j \in Tasks \ {k} : task'[j] = task[j]
<1>1. CallOK(e)
  BY DEF CallOK
<1>2. /\ DOMAIN task' = Tasks /\ task'[k] = e
      /\ \A j \in Tasks \ {k} : task'[j] = task[j]
  BY DEF TasksOK
<1> QED BY <1>1, <1>2 DEF TasksOK

LEMMA GotoStage ==
  ASSUME TasksOK(task), NEW k \in Tasks, CallOK(task[k]), NEW at \in Stages,
         at \in Removing <=> task[k].at \in Removing, Goto(k, at)
  PROVE  /\ CallOK(task'[k]) /\ TasksOK(task') /\ task'[k].at = at
         /\ task'[k].tx = task[k].tx /\ task'[k].gone = task[k].gone
         /\ \A j \in Tasks \ {k} : task'[j] = task[j]
<1> DEFINE e == [task[k] EXCEPT !.at = at]
<1>1. DOMAIN task[k] = Fields
  BY DEF CallOK
<1>2. DOMAIN e = Fields /\ e.at = at /\ e.tx = task[k].tx /\ e.gone = task[k].gone
  BY <1>1 DEF Fields
<1>3. task' = [task EXCEPT ![k] = e]
  BY DEF Goto
<1> HIDE DEF e
<1> QED BY <1>2, <1>3, OtherStage

LEMMA DoneStage ==
  ASSUME TasksOK(task), NEW k \in Tasks, Done(k)
  PROVE  /\ task'[k] = Free /\ TasksOK(task')
         /\ \A j \in Tasks \ {k} : task'[j] = task[j]
  BY DEF TasksOK, Done

\* A call is under way in every stage but "free".
LEMMA CallUnderWay ==
  ASSUME TasksOK(task), NEW k \in Tasks, task[k].at # "free" PROVE CallOK(task[k])
  BY DEF TasksOK, Free

\* The steps of add_tx that only look at the pool.
LEMMA LookKeeps ==
  ASSUME MTInv, NEW k \in Tasks,
         \/ Check(k) \/ FindConflicts(k) \/ Replace(k) \/ FindParents(k)
         \/ MeasureSize(k) \/ ListEntries(k) \/ RemovedAll(k)
  PROVE  MTInv'
<1>0. TasksOK(task) /\ PoolShape(pool)
  BY DEF MTInv
<1>1. task[k].at \in {"check", "conflicts", "replace", "parents", "evict", "list", "remove"}
  BY DEF Check, FindConflicts, Replace, FindParents, MeasureSize, ListEntries, RemovedAll
<1>2. CallOK(task[k]) /\ task[k].at \notin Removing /\ DOMAIN task[k] = Fields
  BY <1>0, <1>1, CallUnderWay DEF Removing, CallOK
<1>3. pool' = pool
  BY DEF Check, FindConflicts, Replace, FindParents, MeasureSize, ListEntries, RemovedAll
<1>4. ASSUME Done(k) PROVE MTInv'
  BY <1>0, <1>2, <1>3, <1>4, DoneStage, MoveKeeps
<1>5. ASSUME NEW at \in {"conflicts", "parents"}, Goto(k, at) PROVE MTInv'
  <2>1. at \in Stages /\ at \notin Removing /\ at # "enter"
    BY DEF Stages, Removing
  <2> QED BY <1>0, <1>2, <1>3, <1>5, <2>1, GotoStage, MoveKeeps
<1>6. ASSUME NEW e, DOMAIN e = Fields, e.at \in {"replace", "remove", "spend", "list"},
             e.tx = task[k].tx, e.gone = task[k].gone, task' = [task EXCEPT ![k] = e]
      PROVE  MTInv'
  <2>1. e.at \in Stages /\ e.at \notin Removing /\ e.at # "enter"
    BY <1>6 DEF Stages, Removing
  <2>2. /\ CallOK(task'[k]) /\ TasksOK(task') /\ task'[k] = e
        /\ \A j \in Tasks \ {k} : task'[j] = task[j]
    BY <1>0, <1>2, <1>6, <2>1, OtherStage
  <2> QED BY <1>0, <1>2, <1>3, <2>1, <2>2, MoveKeeps
<1>7. CASE Check(k)
  BY <1>4, <1>5, <1>7 DEF Check
<1>8. CASE FindConflicts(k)
  <2> DEFINE s == [o \in Contested(pool, task[k].tx) |-> pool.spends[o]]
             e == [task[k] EXCEPT !.at = "replace", !.seen = s]
  <2>1. Done(k) \/ Goto(k, "parents") \/ task' = [task EXCEPT ![k] = e]
    BY <1>8 DEF FindConflicts
  <2>2. DOMAIN e = Fields /\ e.at = "replace" /\ e.tx = task[k].tx /\ e.gone = task[k].gone
    BY <1>2 DEF Fields
  <2> HIDE DEF e
  <2> QED BY <1>4, <1>5, <1>6, <2>1, <2>2
<1>9. CASE Replace(k)
  <2>1. PICK q : Done(k) \/ task' = [task EXCEPT ![k].at = "remove", ![k].queue = q]
    BY <1>9 DEF Replace
  <2> DEFINE e == [task[k] EXCEPT !.at = "remove", !.queue = q]
  <2>2. Done(k) \/ task' = [task EXCEPT ![k] = e]
    BY <2>1
  <2>3. DOMAIN e = Fields /\ e.at = "remove" /\ e.tx = task[k].tx /\ e.gone = task[k].gone
    BY <1>2 DEF Fields
  <2> HIDE DEF e
  <2> QED BY <1>4, <1>6, <2>2, <2>3
<1>10. CASE FindParents(k)
  <2> DEFINE e == [task[k] EXCEPT !.at = "spend", !.parents = Parents(pool, task[k].tx),
                                  !.anc = AncestorStats(pool, task[k].tx)]
  <2>1. Done(k) \/ task' = [task EXCEPT ![k] = e]
    BY <1>10 DEF FindParents
  <2>2. DOMAIN e = Fields /\ e.at = "spend" /\ e.tx = task[k].tx /\ e.gone = task[k].gone
    BY <1>2 DEF Fields
  <2> HIDE DEF e
  <2> QED BY <1>4, <1>6, <2>1, <2>2
<1>11. CASE MeasureSize(k)
  <2> DEFINE e == [task[k] EXCEPT !.at = "list", !.cur = pool.size]
  <2>1. Done(k) \/ task' = [task EXCEPT ![k] = e]
    BY <1>11 DEF MeasureSize
  <2>2. DOMAIN e = Fields /\ e.at = "list" /\ e.tx = task[k].tx /\ e.gone = task[k].gone
    BY <1>2 DEF Fields
  <2> HIDE DEF e
  <2> QED BY <1>4, <1>6, <2>1, <2>2
<1>12. CASE ListEntries(k)
  <2>1. PICK q : task' = [task EXCEPT ![k].at = "remove", ![k].queue = q,
                                      ![k].then = "return", ![k].evicted = 0]
    BY <1>12 DEF ListEntries
  <2> DEFINE e == [task[k] EXCEPT !.at = "remove", !.queue = q, !.then = "return",
                                  !.evicted = 0]
  <2>2. task' = [task EXCEPT ![k] = e]
    BY <2>1
  <2>3. DOMAIN e = Fields /\ e.at = "remove" /\ e.tx = task[k].tx /\ e.gone = task[k].gone
    BY <1>2 DEF Fields
  <2> HIDE DEF e
  <2> QED BY <1>6, <2>2, <2>3
<1>13. CASE RemovedAll(k)
  BY <1>4, <1>5, <1>13 DEF RemovedAll
<1> QED BY <1>7, <1>8, <1>9, <1>10, <1>11, <1>12, <1>13

\* The steps that change spends and links only.
LEMMA LinkKeeps ==
  ASSUME MTInv, NEW k \in Tasks,
         InsertSpends(k) \/ TellParents(k) \/ RemoveSpends(k) \/ RemoveLinks(k)
  PROVE  MTInv'
<1>0. TasksOK(task) /\ PoolShape(pool)
  BY DEF MTInv
<1>1. PICK at \in {"tell", "total", "unlink", "untotal"} :
        /\ Goto(k, at)
        /\ task[k].at \in {"spend", "tell", "unspend", "unlink"}
        /\ at \in {"unlink", "untotal"} <=> task[k].at \in {"unspend", "unlink"}
  BY DEF InsertSpends, TellParents, RemoveSpends, RemoveLinks
<1>2. /\ at \in Stages /\ at # "enter" /\ CallOK(task[k])
      /\ at \in Removing <=> task[k].at \in Removing
  BY <1>0, <1>1, CallUnderWay DEF Stages, Removing
<1>3. /\ CallOK(task'[k]) /\ TasksOK(task') /\ task'[k].at = at
      /\ task'[k].tx = task[k].tx /\ task'[k].gone = task[k].gone
      /\ \A j \in Tasks \ {k} : task'[j] = task[j]
  BY <1>0, <1>1, <1>2, GotoStage
<1>4. /\ DOMAIN pool' = DOMAIN pool /\ pool'.size = pool.size /\ pool'.fees = pool.fees
      /\ InPool(pool') = InPool(pool)
  BY <1>0 DEF InsertSpends, TellParents, RemoveSpends, RemoveLinks, InPool, PoolShape
<1>5. PoolShape(pool')
  BY <1>0, <1>4 DEF PoolShape
<1> QED BY <1>2, <1>3, <1>4, <1>5, MoveKeeps

\* A step that changes total, entries and the load of one call together.
LEMMA ShiftCovers ==
  ASSUME NEW f \in Measures, NEW tk, TasksOK(tk), NEW tl, TasksOK(tl), NEW k \in Tasks,
         \A j \in Tasks \ {k} : tl[j] = tk[j],
         NEW n, NEW S \in SUBSET Txs, Covers(f, n, S, tk),
         NEW m \in Int, NEW T \in SUBSET Txs,
         m + SumOf(f, S) + LoadOf(f, tk[k]) >= n + SumOf(f, T) + LoadOf(f, tl[k])
  PROVE  Covers(f, m, T, tl)
<1>1. /\ Load(f, tk) \in Nat /\ Load(f, tl) \in Nat
      /\ LoadOf(f, tk[k]) \in Nat /\ LoadOf(f, tl[k]) \in Nat
      /\ Load(f, tl) + LoadOf(f, tk[k]) = Load(f, tk) + LoadOf(f, tl[k])
  BY LoadStep
<1>2. ASSUME NEW U \in SUBSET Txs PROVE SumOf(f, U) \in Nat
  BY TxAssumption, FS_Subset, SumType DEF Measures
<1>3. SumOf(f, S) \in Nat /\ SumOf(f, T) \in Nat
  BY <1>2
<1> QED BY <1>1, <1>3 DEF Covers

\* Both totals at once.
LEMMA ShiftKeeps ==
  ASSUME MTInv, NEW k \in Tasks, TasksOK(task'), PoolShape(pool'),
         \A j \in Tasks \ {k} : task'[j] = task[j],
         pool'.size \in Int, pool'.fees \in Int,
         pool'.size + SumOf(Vsize, InPool(pool)) + LoadOf(Vsize, task[k])
           >= pool.size + SumOf(Vsize, InPool(pool')) + LoadOf(Vsize, task'[k]),
         pool'.fees + SumOf(Fee, InPool(pool)) + LoadOf(Fee, task[k])
           >= pool.fees + SumOf(Fee, InPool(pool')) + LoadOf(Fee, task'[k])
  PROVE  MTInv'
<1>1. /\ TasksOK(task) /\ InPool(pool) \in SUBSET Txs /\ InPool(pool') \in SUBSET Txs
      /\ Covers(Vsize, pool.size, InPool(pool), task)
      /\ Covers(Fee, pool.fees, InPool(pool), task)
  BY DEF MTInv, PoolShape
<1>2. Vsize \in Measures /\ Fee \in Measures
  BY TxAssumption DEF Measures
<1>3. Covers(Vsize, pool'.size, InPool(pool'), task')
  BY <1>1, <1>2, ShiftCovers
<1>4. Covers(Fee, pool'.fees, InPool(pool'), task')
  BY <1>1, <1>2, ShiftCovers
<1> QED BY <1>3, <1>4 DEF MTInv

\* A Tx message: the new call owes nothing.
LEMMA ReceiveKeeps ==
  ASSUME MTInv, NEW k \in Tasks, NEW t \in Txs, ReceiveTx(k, t)
  PROVE  MTInv'
<1> DEFINE e == [at |-> "check", tx |-> t, seen |-> << >>, parents |-> {},
                 anc |-> Own(t), queue |-> << >>, gone |-> {}, old |-> << >>,
                 then |-> "parents", cur |-> 0, evicted |-> 0]
<1>0. TasksOK(task) /\ PoolShape(pool) /\ pool' = pool /\ task' = [task EXCEPT ![k] = e]
  BY DEF MTInv, ReceiveTx
<1>1. CallOK(e) /\ e.at \notin Removing /\ e.at # "enter"
  BY DEF CallOK, Fields, Stages, Removing
<1> HIDE DEF e
<1>2. TasksOK(task') /\ task'[k] = e /\ \A j \in Tasks \ {k} : task'[j] = task[j]
  BY <1>0, <1>1 DEF TasksOK
<1>3. ASSUME NEW f \in Measures, NEW n, Covers(f, n, InPool(pool), task)
      PROVE  Covers(f, n, InPool(pool), task')
  <2>1. LoadOf(f, task'[k]) = 0
    BY <1>1, <1>2, LoadByStage
  <2>2. LoadOf(f, task[k]) \in Nat
    BY <1>0, LoadType DEF TasksOK
  <2>3. LoadOf(f, task'[k]) <= LoadOf(f, task[k])
    BY <2>1, <2>2
  <2> QED BY <1>0, <1>2, <1>3, <2>3, QuietCovers DEF PoolShape
<1>4. Vsize \in Measures /\ Fee \in Measures
  BY TxAssumption DEF Measures
<1> QED BY <1>0, <1>2, <1>3, <1>4 DEF MTInv

\* The totals grow before the entry is in: the call carries the difference.
LEMMA AddTotalsKeeps ==
  ASSUME MTInv, NEW k \in Tasks, AddTotals(k)
  PROVE  MTInv'
<1>0. TasksOK(task) /\ PoolShape(pool) /\ pool.size \in Int /\ pool.fees \in Int
  BY DEF MTInv, Covers
<1>1. task[k].at = "total" /\ Goto(k, "enter")
  BY DEF AddTotals
<1>2. CallOK(task[k]) /\ task[k].tx \in Txs
  BY <1>0, <1>1, CallUnderWay DEF CallOK
<1>3. /\ CallOK(task'[k]) /\ TasksOK(task') /\ task'[k].at = "enter"
      /\ task'[k].tx = task[k].tx
      /\ \A j \in Tasks \ {k} : task'[j] = task[j]
  BY <1>0, <1>1, <1>2, GotoStage DEF Stages, Removing
<1>4. /\ DOMAIN pool' = DOMAIN pool /\ InPool(pool') = InPool(pool)
      /\ pool'.size = pool.size + Vsize[task[k].tx]
      /\ pool'.fees = pool.fees + Fee[task[k].tx]
  BY <1>0 DEF AddTotals, InPool, PoolShape
<1>5. ASSUME NEW f \in Measures
      PROVE  LoadOf(f, task[k]) = 0 /\ LoadOf(f, task'[k]) = f[task[k].tx]
  BY <1>1, <1>2, <1>3, LoadByStage DEF Removing
<1>6. Vsize \in Measures /\ Fee \in Measures
  BY TxAssumption DEF Measures
<1>7. PoolShape(pool') /\ Vsize[task[k].tx] \in Nat /\ Fee[task[k].tx] \in Nat
  BY <1>0, <1>2, <1>4, <1>6 DEF PoolShape, Measures
<1>8. SumOf(Vsize, InPool(pool)) \in Nat /\ SumOf(Fee, InPool(pool)) \in Nat
  BY <1>0, TxSums DEF PoolShape
<1>9. /\ LoadOf(Vsize, task[k]) = 0 /\ LoadOf(Vsize, task'[k]) = Vsize[task[k].tx]
      /\ LoadOf(Fee, task[k]) = 0 /\ LoadOf(Fee, task'[k]) = Fee[task[k].tx]
  BY <1>5, <1>6
<1>10. pool'.size \in Int /\ pool'.fees \in Int
  BY <1>0, <1>4, <1>7
<1>11. /\ pool'.size + SumOf(Vsize, InPool(pool)) + LoadOf(Vsize, task[k])
            >= pool.size + SumOf(Vsize, InPool(pool')) + LoadOf(Vsize, task'[k])
       /\ pool'.fees + SumOf(Fee, InPool(pool)) + LoadOf(Fee, task[k])
            >= pool.fees + SumOf(Fee, InPool(pool')) + LoadOf(Fee, task'[k])
  BY <1>0, <1>4, <1>7, <1>8, <1>9
<1> QED BY <1>3, <1>7, <1>10, <1>11, ShiftKeeps

\* The sum over a set with one more member, which may be in it already.
LEMMA SumGrows ==
  ASSUME NEW f \in Measures, NEW S \in SUBSET Txs, NEW t \in Txs
  PROVE  SumOf(f, S \cup {t}) <= SumOf(f, S) + f[t] /\ SumOf(f, S) \in Nat /\ f[t] \in Nat
<1>1. IsFiniteSet(S) /\ f[t] \in Nat /\ \A x \in S \cup {t} : f[x] \in Nat
  BY TxAssumption, FS_Subset DEF Measures
<1>2. SumOf(f, S) \in Nat
  BY <1>1, SumType
<1>3. CASE t \in S
  <2>1. S \cup {t} = S
    BY <1>3
  <2>2. SumOf(f, S \cup {t}) = SumOf(f, S)
    BY <2>1, Zenon
  <2> QED BY <1>1, <1>2, <2>2
<1>4. CASE t \notin S
  <2>1. SumOf(f, S \cup {t}) = SumOf(f, S) + f[t]
    BY <1>1, <1>4, SumWith
  <2> QED BY <1>1, <1>2, <2>1
<1> QED BY <1>3, <1>4

\* The entry goes in: the call is relieved of at least what the entries gain.
LEMMA InsertKeeps ==
  ASSUME MTInv, NEW k \in Tasks, InsertEntry(k)
  PROVE  MTInv'
<1> DEFINE t == task[k].tx
<1>0. TasksOK(task) /\ PoolShape(pool) /\ pool.size \in Int /\ pool.fees \in Int
  BY DEF MTInv, Covers
<1>1. task[k].at = "enter" /\ Goto(k, "evict")
  BY DEF InsertEntry
<1>2. CallOK(task[k]) /\ t \in Txs
  BY <1>0, <1>1, CallUnderWay DEF CallOK
<1>3. /\ CallOK(task'[k]) /\ TasksOK(task') /\ task'[k].at = "evict"
      /\ \A j \in Tasks \ {k} : task'[j] = task[j]
  BY <1>0, <1>1, <1>2, GotoStage DEF Stages, Removing
<1>4. /\ DOMAIN pool' = DOMAIN pool /\ InPool(pool') = InPool(pool) \cup {t}
      /\ pool'.size = pool.size /\ pool'.fees = pool.fees
  BY <1>0 DEF InsertEntry, InPool, PoolShape
<1>5. PoolShape(pool') /\ InPool(pool) \in SUBSET Txs
  BY <1>0, <1>2, <1>4 DEF PoolShape
<1>6. ASSUME NEW f \in Measures
      PROVE  LoadOf(f, task[k]) = f[t] /\ LoadOf(f, task'[k]) = 0
  BY <1>1, <1>2, <1>3, LoadByStage DEF Removing
<1> HIDE DEF t
<1>7. ASSUME NEW f \in Measures, NEW n \in Int
      PROVE  n + SumOf(f, InPool(pool)) + LoadOf(f, task[k])
               >= n + SumOf(f, InPool(pool')) + LoadOf(f, task'[k])
  <2>1. /\ SumOf(f, InPool(pool')) <= SumOf(f, InPool(pool)) + f[t]
        /\ SumOf(f, InPool(pool)) \in Nat /\ f[t] \in Nat
    BY <1>2, <1>4, <1>5, SumGrows
  <2>2. SumOf(f, InPool(pool')) \in Nat
    BY <1>5, TxAssumption, FS_Subset, SumType DEF PoolShape, Measures
  <2> QED BY <1>6, <2>1, <2>2
<1>8. Vsize \in Measures /\ Fee \in Measures
  BY TxAssumption DEF Measures
<1> QED BY <1>0, <1>3, <1>4, <1>5, <1>7, <1>8, ShiftKeeps

\* remove_tx takes the entry out of the map and owes it to the totals; if the
\* entry is gone already, it goes on with the next one.
LEMMA RemoveEntryKeeps ==
  ASSUME MTInv, NEW k \in Tasks, RemoveEntry(k)
  PROVE  MTInv'
<1> DEFINE c == Head(task[k].queue)
<1>0. TasksOK(task) /\ PoolShape(pool) /\ pool.size \in Int /\ pool.fees \in Int
  BY DEF MTInv, Covers
<1>1. task[k].at = "remove"
  BY DEF RemoveEntry
<1>2. CallOK(task[k]) /\ DOMAIN task[k] = Fields /\ task[k].at \notin Removing
  BY <1>0, <1>1, CallUnderWay DEF CallOK, Removing
<1>3. CASE c \notin InPool(pool)
  <2> DEFINE e == [task[k] EXCEPT !.queue = Tail(@)]
  <2>1. task' = [task EXCEPT ![k] = e] /\ pool' = pool
    BY <1>3 DEF RemoveEntry
  <2>2. DOMAIN e = Fields /\ e.at = "remove" /\ e.tx = task[k].tx /\ e.gone = task[k].gone
    BY <1>1, <1>2 DEF Fields
  <2>3. e.at \in Stages /\ e.at \notin Removing /\ e.at # "enter"
    BY <2>2 DEF Stages, Removing
  <2> HIDE DEF e
  <2>4. /\ CallOK(task'[k]) /\ TasksOK(task') /\ task'[k] = e
        /\ \A j \in Tasks \ {k} : task'[j] = task[j]
    BY <1>0, <1>2, <2>1, <2>2, <2>3, OtherStage
  <2> QED BY <1>0, <1>2, <2>1, <2>3, <2>4, MoveKeeps
<1>4. CASE c \in InPool(pool)
  <2> DEFINE e == [task[k] EXCEPT !.at = "unspend", !.queue = Tail(@), !.gone = {c},
                                  !.old = pool.entries[c]]
  <2>1. /\ task' = [task EXCEPT ![k] = e]
        /\ pool' = [pool EXCEPT !.entries = [u \in DOMAIN @ \ {c} |-> @[u]]]
    BY <1>4 DEF RemoveEntry
  <2>2. DOMAIN e = Fields /\ e.at = "unspend" /\ e.tx = task[k].tx /\ e.gone = {c}
    BY <1>2 DEF Fields
  <2>3. c \in Txs
    BY <1>0, <1>4 DEF PoolShape
  <2>4. /\ DOMAIN pool' = DOMAIN pool /\ InPool(pool') = InPool(pool) \ {c}
        /\ pool'.size = pool.size /\ pool'.fees = pool.fees
    BY <1>0, <2>1 DEF InPool, PoolShape
  <2> HIDE DEF c, e
  <2>5. CallOK(e) /\ e.at \in Removing
    BY <1>2, <2>2, <2>3 DEF CallOK, Stages, Removing
  <2>6. TasksOK(task') /\ task'[k] = e /\ \A j \in Tasks \ {k} : task'[j] = task[j]
    BY <1>0, <2>1, <2>5 DEF TasksOK
  <2>7. PoolShape(pool') /\ InPool(pool) \in SUBSET Txs
    BY <1>0, <2>4 DEF PoolShape
  <2>8. ASSUME NEW f \in Measures, NEW n \in Int
        PROVE  n + SumOf(f, InPool(pool)) + LoadOf(f, task[k])
                 >= n + SumOf(f, InPool(pool')) + LoadOf(f, task'[k])
    <3>1. LoadOf(f, task[k]) = 0 /\ LoadOf(f, task'[k]) = f[c]
      BY <1>1, <1>2, <2>2, <2>3, <2>5, <2>6, LoadByStage
    <3>2. IsFiniteSet(InPool(pool)) /\ \A x \in InPool(pool) : f[x] \in Nat
      BY <2>7, TxAssumption, FS_Subset DEF Measures
    <3>3. SumOf(f, InPool(pool)) = SumOf(f, InPool(pool) \ {c}) + f[c]
      BY <1>4, <3>2, SumWithout
    <3>4. SumOf(f, InPool(pool')) = SumOf(f, InPool(pool) \ {c})
      BY <2>4, Zenon
    <3>5. SumOf(f, InPool(pool')) \in Nat /\ f[c] \in Nat
      BY <1>4, <2>7, <3>2, TxAssumption, FS_Subset, SumType DEF PoolShape, Measures
    <3> QED BY <3>1, <3>3, <3>4, <3>5
  <2>9. Vsize \in Measures /\ Fee \in Measures
    BY TxAssumption DEF Measures
  <2> QED BY <1>0, <2>4, <2>6, <2>7, <2>8, <2>9, ShiftKeeps
<1> QED BY <1>3, <1>4

\* remove_tx subtracts what it owes.
LEMMA SubtractKeeps ==
  ASSUME MTInv, NEW k \in Tasks, SubtractTotals(k)
  PROVE  MTInv'
<1> DEFINE c == Victim(k)
           e == [task[k] EXCEPT !.at = "remove", !.gone = {}, !.old = << >>,
                                !.evicted = @ + Vsize[c]]
<1>0. TasksOK(task) /\ PoolShape(pool) /\ pool.size \in Int /\ pool.fees \in Int
  BY DEF MTInv, Covers
<1>1. task[k].at = "untotal" /\ task' = [task EXCEPT ![k] = e]
  BY DEF SubtractTotals
<1>2. CallOK(task[k]) /\ DOMAIN task[k] = Fields /\ task[k].at \in Removing
  BY <1>0, <1>1, CallUnderWay DEF CallOK, Removing
<1>3. c \in Txs /\ task[k].gone = {c}
  BY <1>2 DEF CallOK, Victim
<1>4. /\ DOMAIN pool' = DOMAIN pool /\ InPool(pool') = InPool(pool)
      /\ pool'.size = pool.size - Vsize[c] /\ pool'.fees = pool.fees - Fee[c]
  BY <1>0 DEF SubtractTotals, InPool, PoolShape
<1>5. DOMAIN e = Fields /\ e.at = "remove" /\ e.tx = task[k].tx /\ e.gone = {}
  BY <1>2 DEF Fields
<1> HIDE DEF c, e
<1>6. CallOK(e) /\ e.at \notin Removing /\ e.at # "enter"
  BY <1>2, <1>5 DEF CallOK, Stages, Removing
<1>7. TasksOK(task') /\ task'[k] = e /\ \A j \in Tasks \ {k} : task'[j] = task[j]
  BY <1>0, <1>1, <1>6 DEF TasksOK
<1>8. PoolShape(pool')
  BY <1>0, <1>4 DEF PoolShape
<1>9. ASSUME NEW f \in Measures
      PROVE  LoadOf(f, task[k]) = f[c] /\ LoadOf(f, task'[k]) = 0
  BY <1>2, <1>3, <1>6, <1>7, LoadByStage
<1>10. Vsize \in Measures /\ Fee \in Measures
  BY TxAssumption DEF Measures
<1>11. SumOf(Vsize, InPool(pool)) \in Nat /\ SumOf(Fee, InPool(pool)) \in Nat
  BY <1>0, TxSums DEF PoolShape
<1>12. /\ LoadOf(Vsize, task[k]) = Vsize[c] /\ LoadOf(Vsize, task'[k]) = 0
       /\ LoadOf(Fee, task[k]) = Fee[c] /\ LoadOf(Fee, task'[k]) = 0
       /\ Vsize[c] \in Nat /\ Fee[c] \in Nat
  BY <1>3, <1>9, <1>10 DEF Measures
<1>13. pool'.size \in Int /\ pool'.fees \in Int
  BY <1>0, <1>4, <1>12
<1>14. /\ pool'.size + SumOf(Vsize, InPool(pool)) + LoadOf(Vsize, task[k])
            >= pool.size + SumOf(Vsize, InPool(pool')) + LoadOf(Vsize, task'[k])
       /\ pool'.fees + SumOf(Fee, InPool(pool)) + LoadOf(Fee, task[k])
            >= pool.fees + SumOf(Fee, InPool(pool')) + LoadOf(Fee, task'[k])
  BY <1>0, <1>4, <1>11, <1>12
<1> QED BY <1>7, <1>8, <1>13, <1>14, ShiftKeeps

\* Every step.
LEMMA StepKeeps ==
  ASSUME MTInv, [MTNext]_mtVars PROVE MTInv'
<1>1. CASE MTNext
  <2>1. PICK k \in Tasks : (\E t \in Txs : ReceiveTx(k, t)) \/ MTStep(k)
    BY <1>1, Zenon DEF MTNext
  <2>2. CASE \E t \in Txs : ReceiveTx(k, t)
    BY <2>2, ReceiveKeeps
  <2>3. CASE MTStep(k)
    BY <2>3, LookKeeps, LinkKeeps, AddTotalsKeeps, InsertKeeps, RemoveEntryKeeps,
       SubtractKeeps, Zenon DEF MTStep
  <2> QED BY <2>1, <2>2, <2>3, Zenon
<1>2. CASE UNCHANGED mtVars
  BY <1>2, Zenon DEF mtVars, MTInv
<1> QED BY <1>1, <1>2

-----------------------------------------------------------------------------
(* Theorems *)

\* A measure that is zero everywhere adds up to zero.
LEMMA SumZeros ==
  ASSUME NEW f, NEW S, IsFiniteSet(S), \A x \in S : f[x] = 0 PROVE SumOf(f, S) = 0
<1> DEFINE P == {T \in SUBSET S : SumOf(f, T) = 0}
<1>1. ASSUME NEW T \in SUBSET S, \A U \in SUBSET T : U # T => U \in P PROVE T \in P
  <2>1. SumOf(f, T) = IF T = {} THEN 0 ELSE f[Pick(T)] + SumOf(f, T \ {Pick(T)})
    BY FS_Subset, SumStep
  <2>2. CASE T = {}
    BY <2>1, <2>2
  <2>3. CASE T # {}
    <3>1. Pick(T) \in T /\ T \ {Pick(T)} \in P
      BY <1>1, <2>3, PickIn
    <3> QED BY <2>1, <2>3, <3>1
  <2> QED BY <2>2, <2>3
<1> HIDE DEF P
<1>2. S \in P
  BY <1>1, UpFromParts
<1> QED BY <1>2 DEF P

\* Whatever the tasks do to the pool at the same time, its totals are at least
\* those of the entries, of the entries about to go in that are counted already,
\* and of the entries taken out that are not subtracted yet.
THEOREM TasksCorrect == MTSpec => []MTInv
<1>1. MTInit => MTInv
  <2> SUFFICES ASSUME MTInit PROVE MTInv
    OBVIOUS
  <2>1. task = [k \in Tasks |-> Free] /\ pool = NewMempool
    BY DEF MTInit
  <2>2. TasksOK(task)
    BY <2>1 DEF TasksOK
  <2>3. /\ DOMAIN pool = {"entries", "spends", "size", "fees"} /\ InPool(pool) = {}
        /\ pool.size = 0 /\ pool.fees = 0
    BY <2>1 DEF NewMempool, InPool
  <2>4. ASSUME NEW f PROVE Covers(f, 0, InPool(pool), task)
    <3> DEFINE g == [k \in Tasks |-> LoadOf(f, task[k])]
    <3>1. \A k \in Tasks : g[k] = 0
      BY <2>1 DEF LoadOf, Free
    <3>2. Load(f, task) = SumOf(g, Tasks)
      BY DEF Load
    <3> HIDE DEF g
    <3>3. Load(f, task) = 0
      BY <3>1, <3>2, TaskAssumption, SumZeros
    <3>4. SumOf(f, InPool(pool)) = 0
      BY <2>3, SumEmpty
    <3> QED BY <3>3, <3>4 DEF Covers
  <2> QED BY <2>2, <2>3, <2>4 DEF MTInv, PoolShape
<1>2. MTInv /\ [MTNext]_mtVars => MTInv'
  BY StepKeeps
<1> QED BY <1>1, <1>2, PTL DEF MTSpec

\* Whatever calls of add_tx overlap, total_size and total_fees cover the entries
\* and what is still to be subtracted for entries taken out, so that the
\* unsigned totals never go below zero.
THEOREM TotalsAlwaysCover == MTSpec => []TotalsCover
<1>1. MTInv => TotalsCover
  <2> SUFFICES ASSUME MTInv PROVE TotalsCover
    OBVIOUS
  <2> DEFINE owed(k) == IF Running(k) THEN TotalOf(task[k].gone) ELSE TotalOf({})
             of == [k \in Tasks |-> owed(k)]
             sizes == [k \in Tasks |-> of[k].size]
             fees  == [k \in Tasks |-> of[k].fees]
  <2>0. TasksOK(task) /\ InPool(pool) \in SUBSET Txs
    BY DEF MTInv, PoolShape
  <2>1. ASSUME NEW k \in Tasks
        PROVE  /\ sizes[k] \in Nat /\ sizes[k] <= LoadOf(Vsize, task[k])
               /\ fees[k] \in Nat /\ fees[k] <= LoadOf(Fee, task[k])
               /\ LoadOf(Vsize, task[k]) \in Nat /\ LoadOf(Fee, task[k]) \in Nat
    <3>1. task[k] = Free \/ CallOK(task[k])
      BY <2>0 DEF TasksOK
    <3>2. Vsize \in Measures /\ Fee \in Measures
      BY TxAssumption DEF Measures
    <3>3. /\ LoadOf(Vsize, task[k]) \in Nat /\ LoadOf(Fee, task[k]) \in Nat
          /\ task[k].at # "free" => /\ LoadOf(Vsize, task[k]) >= SumOf(Vsize, task[k].gone)
                                    /\ SumOf(Vsize, task[k].gone) \in Nat
                                    /\ LoadOf(Fee, task[k]) >= SumOf(Fee, task[k].gone)
                                    /\ SumOf(Fee, task[k].gone) \in Nat
      BY <3>1, <3>2, LoadType
    <3>4. CASE Running(k)
      <4>1. task[k].gone \in SUBSET Txs
        BY <3>1, <3>4 DEF Running, CallOK, Free
      <4>2. sizes[k] = SumOf(Vsize, task[k].gone) /\ fees[k] = SumOf(Fee, task[k].gone)
        BY <3>4, <4>1, TotalOfFacts
      <4> QED BY <3>3, <3>4, <4>2 DEF Running
    <3>5. CASE ~Running(k)
      <4>1. TotalOf({}).size = 0 /\ TotalOf({}).fees = 0
        BY TotalOfFacts, SumEmpty
      <4>2. sizes[k] = 0 /\ fees[k] = 0
        BY <3>5, <4>1
      <4> QED BY <3>3, <4>2
    <3> QED BY <3>4, <3>5
  <2>2. /\ TotalsCover <=>
             /\ pool.size >= TotalOf(InPool(pool)).size + SumOf(sizes, Tasks)
             /\ pool.fees >= TotalOf(InPool(pool)).fees + SumOf(fees, Tasks)
    BY DEF TotalsCover, Total
  <2> HIDE DEF sizes, fees
  <2>3. SumOf(sizes, Tasks) <= Load(Vsize, task) /\ SumOf(fees, Tasks) <= Load(Fee, task)
    <3> DEFINE g == [k \in Tasks |-> LoadOf(Vsize, task[k])]
               h == [k \in Tasks |-> LoadOf(Fee, task[k])]
    <3>1. \A k \in Tasks : g[k] = LoadOf(Vsize, task[k]) /\ h[k] = LoadOf(Fee, task[k])
      OBVIOUS
    <3>2. Load(Vsize, task) = SumOf(g, Tasks) /\ Load(Fee, task) = SumOf(h, Tasks)
      BY DEF Load
    <3> HIDE DEF g, h
    <3>3. SumOf(sizes, Tasks) <= SumOf(g, Tasks)
      BY <2>1, <3>1, TaskAssumption, SumMonotone
    <3>4. SumOf(fees, Tasks) <= SumOf(h, Tasks)
      BY <2>1, <3>1, TaskAssumption, SumMonotone
    <3> QED BY <3>2, <3>3, <3>4
  <2>4. SumOf(sizes, Tasks) \in Nat /\ SumOf(fees, Tasks) \in Nat
    BY <2>1, TaskAssumption, SumType
  <2>5. /\ TotalOf(InPool(pool)).size = SumOf(Vsize, InPool(pool))
        /\ TotalOf(InPool(pool)).fees = SumOf(Fee, InPool(pool))
        /\ SumOf(Vsize, InPool(pool)) \in Nat /\ SumOf(Fee, InPool(pool)) \in Nat
    BY <2>0, TotalOfFacts, TxSums
  <2>6. Load(Vsize, task) \in Nat /\ Load(Fee, task) \in Nat
    <3> DEFINE g == [k \in Tasks |-> LoadOf(Vsize, task[k])]
               h == [k \in Tasks |-> LoadOf(Fee, task[k])]
    <3>1. \A k \in Tasks : g[k] \in Nat /\ h[k] \in Nat
      BY <2>1
    <3> HIDE DEF g, h
    <3>2. SumOf(g, Tasks) \in Nat /\ SumOf(h, Tasks) \in Nat
      BY <3>1, TaskAssumption, SumType
    <3> QED BY <3>2 DEF Load, g, h
  <2>7. /\ pool.size \in Int /\ pool.size >= SumOf(Vsize, InPool(pool)) + Load(Vsize, task)
        /\ pool.fees \in Int /\ pool.fees >= SumOf(Fee, InPool(pool)) + Load(Fee, task)
    BY DEF MTInv, Covers
  <2> QED BY <2>2, <2>3, <2>4, <2>5, <2>6, <2>7
<1> QED BY <1>1, TasksCorrect, PTL

-----------------------------------------------------------------------------
(* Calls on transactions that have nothing to do with each other: what holds *)
(* at every point as long as no two linked transactions met.                 *)

\* As Covers, to the unit.
Exact(f, total, S, tk) == total = SumOf(f, S) + Load(f, tk)

\* The transactions a call works on, as Touched has them.
Works(e) == IF e.at = "free" THEN {} ELSE {e.tx} \cup e.gone

Apart(tk) ==
    \A j, k \in Tasks : j # k =>
        \A t \in Works(tk[j]), u \in Works(tk[k]) : ~Linked(t, u)

\* The call removes what its transaction replaces.
Clearing(e) == e.at \in {"remove"} \cup Removing /\ e.then = "parents"

\* The transaction has passed the first check and is not in the map yet.
Before(e) ==
    \/ e.at \in {"conflicts", "replace", "parents", "spend", "tell", "total", "enter"}
    \/ Clearing(e)

\* c is out of the map and its relatives still have it; t is not in the map
\* and its parents have it; the outpoints of c are in spends without an entry.
Leaves(e, c) == e.at \in {"unspend", "unlink"} /\ e.gone = {c}
Comes(e, t)  == e.at \in {"total", "enter"} /\ e.tx = t
Claims(e, c) ==
    \/ e.at \in {"tell", "total", "enter"} /\ e.tx = c
    \/ e.at = "unspend" /\ e.gone = {c}

Values(f) == {f[x] : x \in DOMAIN f}

Via(t, p) == \E o \in Inputs[t] : o[1] = p

\* What a call knows is still so: nothing contests its inputs but what it is
\* about to remove, and its parents are in the pool.
Fits(e, m) ==
    /\ e.then \in {"parents", "return"}
    /\ e.queue \in Seq(Txs)
    /\ Before(e) => e.tx \notin InPool(m)
    /\ e.gone \cap InPool(m) = {}
    /\ e.at \in {"parents", "spend"} => Contested(m, e.tx) = {}
    /\ e.at = "replace" =>
          /\ Values(e.seen) \subseteq Txs
          /\ \A o \in Contested(m, e.tx) : m.spends[o] \in Values(e.seen)
    /\ Clearing(e) => \A o \in Contested(m, e.tx) :
          \/ m.spends[o] \in Values(e.queue)
          \/ e.at = "unspend" /\ m.spends[o] \in e.gone
    /\ e.at \in {"spend", "tell", "total", "enter"} =>
          \A p \in e.parents : p \in InPool(m) /\ Via(e.tx, p)
    /\ e.at \in {"total", "enter"} =>
          \A p \in e.parents : e.tx \in m.entries[p].children

\* spends is the index of the entries and of the claims of the calls.
Held(tk, m) == InPool(m) \cup {c \in Txs : \E k \in Tasks : Claims(tk[k], c)}

HeldExact(tk, m) ==
    /\ DOMAIN m.spends = UNION {Inputs[t] : t \in Held(tk, m)}
    /\ \A t \in Held(tk, m) : \A o \in Inputs[t] : m.spends[o] = t

\* The links of u lead to entries that link back, or to a transaction that
\* some call takes out or puts in just now and that u is among the relatives of.
LinksFor(tk, m, u) ==
    /\ \A p \in m.entries[u].parents :
          /\ Via(u, p)
          /\ \/ p \in InPool(m) /\ u \in m.entries[p].children
             \/ \E k \in Tasks : Leaves(tk[k], p) /\ u \in tk[k].old.children
    /\ \A c \in m.entries[u].children :
          \/ c \in InPool(m) /\ u \in m.entries[c].parents
          \/ \E k \in Tasks : Leaves(tk[k], c) /\ u \in tk[k].old.parents
          \/ \E k \in Tasks : Comes(tk[k], c) /\ u \in tk[k].parents

EntriesOK(m) ==
    \A u \in InPool(m) : DOMAIN m.entries[u] = {"parents", "children", "anc", "desc"}

Unspoilt ==
    /\ Apart(task)
    /\ \A k \in Tasks : task[k].at # "free" => Fits(task[k], pool)
    /\ EntriesOK(pool)
    /\ HeldExact(task, pool)
    /\ \A u \in InPool(pool) : LinksFor(task, pool, u)
    /\ Exact(Vsize, pool.size, InPool(pool), task)
    /\ Exact(Fee, pool.fees, InPool(pool), task)

UnspoiltUnlessRaced == ~raced => Unspoilt

-----------------------------------------------------------------------------
(* What a step of one call leaves alone *)

\* Transactions of different calls are different, spend different outputs and
\* do not build on each other.
LEMMA ApartFacts ==
  ASSUME NEW tk, Apart(tk), NEW j \in Tasks, NEW k \in Tasks, j # k,
         NEW t \in Works(tk[k]), NEW u \in Works(tk[j])
  PROVE  t # u /\ Inputs[t] \cap Inputs[u] = {} /\ ~Via(t, u) /\ ~Via(u, t)
<1>1. ~Linked(t, u)
  BY DEF Apart
<1> QED BY <1>1 DEF Linked, Via

\* A call that works on no more than before.
LEMMA ApartStays ==
  ASSUME NEW tk, NEW tl, NEW k \in Tasks, Apart(tk),
         \A j \in Tasks \ {k} : tl[j] = tk[j], Works(tl[k]) \subseteq Works(tk[k])
  PROVE  Apart(tl)
  BY DEF Apart

\* A change of the pool that is not about a call's transactions.
LEMMA FitsStays ==
  ASSUME NEW e, NEW m, NEW n, Fits(e, m),
         \A x \in InPool(n) : x \notin InPool(m) => x # e.tx /\ x \notin e.gone,
         \A x \in InPool(m) : x \notin InPool(n) => ~Via(e.tx, x),
         \A o \in Contested(n, e.tx) : o \in Contested(m, e.tx) /\ n.spends[o] = m.spends[o],
         \A p \in InPool(m) \cap InPool(n) :
            e.tx \in m.entries[p].children => e.tx \in n.entries[p].children
  PROVE  Fits(e, n)
<1>1. /\ e.then \in {"parents", "return"} /\ e.queue \in Seq(Txs)
      /\ Before(e) => e.tx \notin InPool(n)
      /\ e.gone \cap InPool(n) = {}
  BY DEF Fits
<1>2. /\ e.at \in {"parents", "spend"} => Contested(n, e.tx) = {}
      /\ e.at = "replace" =>
            /\ Values(e.seen) \subseteq Txs
            /\ \A o \in Contested(n, e.tx) : n.spends[o] \in Values(e.seen)
  BY DEF Fits
<1>3. Clearing(e) => \A o \in Contested(n, e.tx) :
          \/ n.spends[o] \in Values(e.queue)
          \/ e.at = "unspend" /\ n.spends[o] \in e.gone
  BY DEF Fits
<1>4. e.at \in {"spend", "tell", "total", "enter"} =>
          \A p \in e.parents : p \in InPool(m) /\ p \in InPool(n) /\ Via(e.tx, p)
  BY DEF Fits
<1>5. e.at \in {"total", "enter"} =>
          \A p \in e.parents : e.tx \in n.entries[p].children
  BY <1>4 DEF Fits
<1> QED BY <1>1, <1>2, <1>3, <1>4, <1>5 DEF Fits

\* The links if no call forgets what it is about to tell.
LEMMA LinksStay ==
  ASSUME NEW tk, NEW tl, NEW m, NEW n, n.entries = m.entries,
         \A u \in InPool(m) : LinksFor(tk, m, u),
         \A k \in Tasks : \A c :
            /\ Leaves(tk[k], c) => Leaves(tl[k], c) /\ tl[k].old = tk[k].old
            /\ Comes(tk[k], c) => Comes(tl[k], c) /\ tl[k].parents = tk[k].parents
  PROVE  \A u \in InPool(n) : LinksFor(tl, n, u)
<1> SUFFICES ASSUME NEW u \in InPool(n) PROVE LinksFor(tl, n, u)
  OBVIOUS
<1>1. LinksFor(tk, m, u) /\ InPool(n) = InPool(m)
  BY DEF InPool
<1>2. ASSUME NEW p \in n.entries[u].parents
      PROVE  /\ Via(u, p)
             /\ \/ p \in InPool(n) /\ u \in n.entries[p].children
                \/ \E k \in Tasks : Leaves(tl[k], p) /\ u \in tl[k].old.children
  BY <1>1 DEF LinksFor
<1>3. ASSUME NEW c \in n.entries[u].children
      PROVE  \/ c \in InPool(n) /\ u \in n.entries[c].parents
             \/ \E k \in Tasks : Leaves(tl[k], c) /\ u \in tl[k].old.parents
             \/ \E k \in Tasks : Comes(tl[k], c) /\ u \in tl[k].parents
  BY <1>1 DEF LinksFor
<1> QED BY <1>2, <1>3 DEF LinksFor

\* The totals if total, entries and the load of one call change together.
LEMMA ExactStays ==
  ASSUME NEW f \in Measures, NEW tk, TasksOK(tk), NEW tl, TasksOK(tl), NEW k \in Tasks,
         \A j \in Tasks \ {k} : tl[j] = tk[j],
         NEW n \in Int, NEW S \in SUBSET Txs, Exact(f, n, S, tk),
         NEW m \in Int, NEW T \in SUBSET Txs,
         m + SumOf(f, S) + LoadOf(f, tk[k]) = n + SumOf(f, T) + LoadOf(f, tl[k])
  PROVE  Exact(f, m, T, tl)
<1>1. /\ Load(f, tk) \in Nat /\ Load(f, tl) \in Nat
      /\ LoadOf(f, tk[k]) \in Nat /\ LoadOf(f, tl[k]) \in Nat
      /\ Load(f, tl) + LoadOf(f, tk[k]) = Load(f, tk) + LoadOf(f, tl[k])
  BY LoadStep
<1>2. ASSUME NEW U \in SUBSET Txs PROVE SumOf(f, U) \in Nat
  BY TxAssumption, FS_Subset, SumType DEF Measures
<1>3. SumOf(f, S) \in Nat /\ SumOf(f, T) \in Nat
  BY <1>2
<1> QED BY <1>1, <1>3 DEF Exact

\* Goto keeps all the rest of the call.
LEMMA GotoFields ==
  ASSUME TasksOK(task), NEW k \in Tasks, CallOK(task[k]), NEW at, Goto(k, at)
  PROVE  /\ task'[k].at = at /\ task'[k].tx = task[k].tx /\ task'[k].seen = task[k].seen
         /\ task'[k].parents = task[k].parents /\ task'[k].anc = task[k].anc
         /\ task'[k].queue = task[k].queue /\ task'[k].gone = task[k].gone
         /\ task'[k].old = task[k].old /\ task'[k].then = task[k].then
         /\ \A j \in Tasks \ {k} : task'[j] = task[j]
<1> DEFINE e == [task[k] EXCEPT !.at = at]
<1>1. task'[k] = e /\ \A j \in Tasks \ {k} : task'[j] = task[j]
  BY DEF Goto, TasksOK
<1>2. DOMAIN task[k] = Fields
  BY DEF CallOK
<1> QED BY <1>1, <1>2 DEF Fields

\* Both totals.
LEMMA TotalsStay ==
  ASSUME MTInv, MTInv', Unspoilt, NEW k \in Tasks,
         \A j \in Tasks \ {k} : task'[j] = task[j],
         pool'.size + SumOf(Vsize, InPool(pool)) + LoadOf(Vsize, task[k])
           = pool.size + SumOf(Vsize, InPool(pool')) + LoadOf(Vsize, task'[k]),
         pool'.fees + SumOf(Fee, InPool(pool)) + LoadOf(Fee, task[k])
           = pool.fees + SumOf(Fee, InPool(pool')) + LoadOf(Fee, task'[k])
  PROVE  /\ Exact(Vsize, pool'.size, InPool(pool'), task')
         /\ Exact(Fee, pool'.fees, InPool(pool'), task')
<1>1. /\ TasksOK(task) /\ InPool(pool) \in SUBSET Txs
      /\ pool.size \in Int /\ pool.fees \in Int
  BY DEF MTInv, PoolShape, Covers
<1>2. /\ TasksOK(task') /\ InPool(pool') \in SUBSET Txs
      /\ pool'.size \in Int /\ pool'.fees \in Int
  BY DEF MTInv, PoolShape, Covers
<1>3. Vsize \in Measures /\ Fee \in Measures
  BY TxAssumption DEF Measures
<1>4. /\ Exact(Vsize, pool.size, InPool(pool), task)
      /\ Exact(Fee, pool.fees, InPool(pool), task)
  BY DEF Unspoilt
<1>5. Exact(Vsize, pool'.size, InPool(pool'), task')
  BY <1>1, <1>2, <1>3, <1>4, ExactStays
<1>6. Exact(Fee, pool'.fees, InPool(pool'), task')
  BY <1>1, <1>2, <1>3, <1>4, ExactStays
<1> QED BY <1>5, <1>6

\* Totals, entries and the load of the call are the same.
LEMMA TotalsSame ==
  ASSUME MTInv, MTInv', Unspoilt, NEW k \in Tasks,
         \A j \in Tasks \ {k} : task'[j] = task[j],
         InPool(pool') = InPool(pool), pool'.size = pool.size, pool'.fees = pool.fees,
         \A f \in Measures : LoadOf(f, task'[k]) = LoadOf(f, task[k])
  PROVE  /\ Exact(Vsize, pool'.size, InPool(pool'), task')
         /\ Exact(Fee, pool'.fees, InPool(pool'), task')
<1>1. Vsize \in Measures /\ Fee \in Measures
  BY TxAssumption DEF Measures
<1>2. /\ LoadOf(Vsize, task'[k]) = LoadOf(Vsize, task[k])
      /\ LoadOf(Fee, task'[k]) = LoadOf(Fee, task[k])
  BY <1>1
<1>3. /\ SumOf(Vsize, InPool(pool')) = SumOf(Vsize, InPool(pool))
      /\ SumOf(Fee, InPool(pool')) = SumOf(Fee, InPool(pool))
  BY Zenon
<1> QED BY <1>2, <1>3, TotalsStay

\* Stages in which a call owes nothing to the pool and the pool has nothing of it.
Idle == {"free", "check", "conflicts", "replace", "parents", "spend", "evict", "list",
         "remove"}

LEMMA IdleLoad ==
  ASSUME NEW f \in Measures, NEW e, e = Free \/ CallOK(e), e.at \in Idle
  PROVE  LoadOf(f, e) = 0
<1>1. CASE e.at = "free"
  BY <1>1 DEF LoadOf
<1>2. CASE e.at # "free"
  <2>1. CallOK(e) /\ e.at \notin Removing /\ e.at # "enter"
    BY <1>2 DEF Free, Idle, Removing
  <2> QED BY <2>1, LoadByStage
<1> QED BY <1>1, <1>2

\* A call that looks at the pool, or starts, or ends.
LEMMA IdleKeeps ==
  ASSUME MTInv, MTInv', Unspoilt, NEW k \in Tasks,
         \A j \in Tasks \ {k} : task'[j] = task[j], pool' = pool,
         task[k].at \in Idle, task'[k].at \in Idle, Apart(task'),
         task'[k].at # "free" => Fits(task'[k], pool)
  PROVE  Unspoilt'
<1>1. /\ task[k] = Free \/ CallOK(task[k])
      /\ task'[k] = Free \/ CallOK(task'[k])
  BY DEF MTInv, TasksOK
<1>2. \A f \in Measures : LoadOf(f, task'[k]) = LoadOf(f, task[k])
  BY <1>1, IdleLoad
<1>3. /\ Exact(Vsize, pool'.size, InPool(pool'), task')
      /\ Exact(Fee, pool'.fees, InPool(pool'), task')
  BY <1>2, TotalsSame
<1>4. \A c : /\ ~Leaves(task[k], c) /\ ~Comes(task[k], c) /\ ~Claims(task[k], c)
             /\ ~Leaves(task'[k], c) /\ ~Comes(task'[k], c) /\ ~Claims(task'[k], c)
  BY DEF Leaves, Comes, Claims, Idle
<1>5. \A u \in InPool(pool') : LinksFor(task', pool', u)
  <2>1. \A u \in InPool(pool) : LinksFor(task, pool, u)
    BY DEF Unspoilt
  <2> QED BY <1>4, <2>1, LinksStay
<1>6. HeldExact(task', pool')
  <2>1. \A j \in Tasks : \A c : Claims(task'[j], c) <=> Claims(task[j], c)
    BY <1>4
  <2>2. Held(task', pool') = Held(task, pool)
    BY <2>1 DEF Held
  <2> QED BY <2>2 DEF HeldExact, Unspoilt
<1>7. \A j \in Tasks : task'[j].at # "free" => Fits(task'[j], pool')
  BY DEF Unspoilt
<1> QED BY <1>3, <1>5, <1>6, <1>7 DEF Unspoilt

-----------------------------------------------------------------------------
(* The steps that only look at the pool *)

\* An outpoint in spends is held by its spender.
LEMMA SpenderHeld ==
  ASSUME NEW tk, NEW m, PoolShape(m), HeldExact(tk, m), NEW o \in DOMAIN m.spends
  PROVE  m.spends[o] \in Held(tk, m) /\ m.spends[o] \in Txs /\ o \in Inputs[m.spends[o]]
<1>1. PICK t \in Held(tk, m) : o \in Inputs[t]
  BY DEF HeldExact
<1>2. m.spends[o] = t /\ t \in Txs
  BY <1>1 DEF HeldExact, Held, PoolShape
<1> QED BY <1>1, <1>2

\* A list of transactions is a sequence that has them all.
LEMMA ListFacts ==
  ASSUME NEW S \in SUBSET Txs, NEW q \in Lists(S)
  PROVE  q \in Seq(Txs) /\ Values(q) = S
<1>1. Cardinality(S) \in Nat
  BY TxAssumption, FS_Subset, FS_CardinalityType
<1>2. q \in [1..Cardinality(S) -> S] /\ \A x \in S : \E i \in DOMAIN q : q[i] = x
  BY DEF Lists
<1>3. q \in [1..Cardinality(S) -> Txs]
  BY <1>2
<1>4. q \in Seq(Txs)
  BY <1>1, <1>3
<1> QED BY <1>2, <1>4 DEF Values

LEMMA ReceiveUnspoilt ==
  ASSUME MTInv, MTInv', Unspoilt, ~raced', NEW k \in Tasks, NEW t \in Txs, ReceiveTx(k, t)
  PROVE  Unspoilt'
<1> DEFINE e == [at |-> "check", tx |-> t, seen |-> << >>, parents |-> {},
                 anc |-> Own(t), queue |-> << >>, gone |-> {}, old |-> << >>,
                 then |-> "parents", cur |-> 0, evicted |-> 0]
<1>1. /\ pool' = pool /\ task' = [task EXCEPT ![k] = e] /\ task[k].at = "free"
      /\ DOMAIN task = Tasks
  BY DEF ReceiveTx, Running, MTInv, TasksOK
<1>2. task'[k] = e /\ \A j \in Tasks \ {k} : task'[j] = task[j]
  BY <1>1
<1>3. \A j \in Tasks \ {k} : \A u \in Works(task[j]) : ~Linked(t, u)
  <2>1. \A j \in Tasks : Touched(j) = Works(task[j])
    BY DEF Touched, Works, Running
  <2>2. raced' <=> (raced \/ \E j \in Tasks \ {k} : \E u \in Touched(j) : Linked(t, u))
    BY Zenon DEF ReceiveTx, NoteRace
  <2> QED BY <2>1, <2>2
<1>4. Apart(task')
  <2>1. Works(task'[k]) = {t}
    BY <1>2 DEF Works
  <2>2. \A u : Linked(t, u) <=> Linked(u, t)
    BY DEF Linked
  <2>3. ASSUME NEW i \in Tasks, NEW j \in Tasks, i # j,
               NEW v \in Works(task'[i]), NEW u \in Works(task'[j])
        PROVE  ~Linked(v, u)
    <3>1. CASE i = k
      BY <1>2, <1>3, <2>1, <2>3, <3>1
    <3>2. CASE j = k
      BY <1>2, <1>3, <2>1, <2>2, <2>3, <3>2
    <3>3. CASE i # k /\ j # k
      <4>1. v \in Works(task[i]) /\ u \in Works(task[j])
        BY <1>2, <2>3, <3>3
      <4> QED BY <2>3, <4>1 DEF Apart, Unspoilt
    <3> QED BY <3>1, <3>2, <3>3
  <2> QED BY <2>3 DEF Apart
<1>5. Fits(e, pool)
  BY DEF Fits, Before, Clearing, Removing
<1>6. e.at = "check"
  OBVIOUS
<1> HIDE DEF e
<1> QED BY <1>1, <1>2, <1>4, <1>5, <1>6, IdleKeeps DEF Idle

\* A call that goes on looking, with the same transaction.
LEMMA LookUnspoilt ==
  ASSUME MTInv, MTInv', Unspoilt, NEW k \in Tasks, pool' = pool,
         task[k].at \in Idle \ {"free"}, NEW e, task' = [task EXCEPT ![k] = e],
         e.at \in Idle \ {"free"}, e.tx = task[k].tx, e.gone = task[k].gone,
         Fits(e, pool)
  PROVE  Unspoilt'
<1>1. task'[k] = e /\ \A j \in Tasks \ {k} : task'[j] = task[j]
  BY DEF MTInv, TasksOK
<1>2. Works(task'[k]) \subseteq Works(task[k])
  BY <1>1 DEF Works
<1>3. Apart(task')
  BY <1>1, <1>2, ApartStays DEF Unspoilt
<1> QED BY <1>1, <1>3, IdleKeeps

LEMMA DoneUnspoilt ==
  ASSUME MTInv, MTInv', Unspoilt, NEW k \in Tasks, pool' = pool,
         task[k].at \in Idle, Done(k)
  PROVE  Unspoilt'
<1>1. task'[k] = Free /\ \A j \in Tasks \ {k} : task'[j] = task[j]
  BY DEF MTInv, TasksOK, Done
<1>2. task'[k].at = "free" /\ Works(task'[k]) \subseteq Works(task[k])
  BY <1>1 DEF Works, Free
<1>3. Apart(task')
  BY <1>1, <1>2, ApartStays DEF Unspoilt
<1> QED BY <1>1, <1>2, <1>3, IdleKeeps DEF Idle

LEMMA CheckUnspoilt ==
  ASSUME MTInv, MTInv', Unspoilt, NEW k \in Tasks, Check(k)
  PROVE  Unspoilt'
<1> DEFINE e == [task[k] EXCEPT !.at = "conflicts"]
<1>1. task[k].at = "check" /\ pool' = pool
  BY DEF Check
<1>2. CallOK(task[k]) /\ Fits(task[k], pool)
  BY <1>1, CallUnderWay DEF MTInv, Unspoilt
<1>3. CASE Done(k)
  BY <1>1, <1>3, DoneUnspoilt DEF Idle
<1>4. CASE Goto(k, "conflicts") /\ task[k].tx \notin InPool(pool)
  <2>1. task' = [task EXCEPT ![k] = e]
    BY <1>4 DEF Goto
  <2>2. /\ e.at = "conflicts" /\ e.tx = task[k].tx /\ e.gone = task[k].gone
        /\ e.then = task[k].then /\ e.queue = task[k].queue
    BY <1>2 DEF CallOK, Fields
  <2> HIDE DEF e
  <2>3. Fits(e, pool)
    BY <1>2, <1>4, <2>2 DEF Fits, Clearing, Removing
  <2> QED BY <1>1, <2>1, <2>2, <2>3, LookUnspoilt DEF Idle
<1> QED BY <1>3, <1>4 DEF Check

LEMMA FindConflictsUnspoilt ==
  ASSUME MTInv, MTInv', Unspoilt, NEW k \in Tasks, FindConflicts(k)
  PROVE  Unspoilt'
<1> DEFINE t == task[k].tx
           s == [o \in Contested(pool, t) |-> pool.spends[o]]
           d == [task[k] EXCEPT !.at = "parents"]
           e == [task[k] EXCEPT !.at = "replace", !.seen = s]
<1>1. task[k].at = "conflicts" /\ pool' = pool
  BY DEF FindConflicts
<1>2. CallOK(task[k]) /\ Fits(task[k], pool) /\ DOMAIN task[k] = Fields
  BY <1>1, CallUnderWay DEF MTInv, Unspoilt, CallOK
<1>3. CASE Done(k)
  BY <1>1, <1>3, DoneUnspoilt DEF Idle
<1>4. CASE Goto(k, "parents") /\ DOMAIN s = {}
  <2>1. task' = [task EXCEPT ![k] = d]
    BY <1>4 DEF Goto
  <2>2. /\ d.at = "parents" /\ d.tx = task[k].tx /\ d.gone = task[k].gone
        /\ d.then = task[k].then /\ d.queue = task[k].queue
    BY <1>2 DEF Fields
  <2>3. Contested(pool, task[k].tx) = {}
    BY <1>4
  <2> HIDE DEF d
  <2>4. Fits(d, pool)
    BY <1>1, <1>2, <2>2, <2>3 DEF Fits, Before, Clearing, Removing
  <2> QED BY <1>1, <2>1, <2>2, <2>4, LookUnspoilt DEF Idle
<1>5. CASE task' = [task EXCEPT ![k].at = "replace", ![k].seen = s]
  <2>1. task' = [task EXCEPT ![k] = e]
    BY <1>5
  <2>2. /\ e.at = "replace" /\ e.tx = task[k].tx /\ e.gone = task[k].gone
        /\ e.then = task[k].then /\ e.queue = task[k].queue /\ e.seen = s
    BY <1>2 DEF Fields
  <2>3. \A o \in Contested(pool, t) : pool.spends[o] \in Txs
    BY SpenderHeld DEF MTInv, Unspoilt, Contested
  <2>4. Values(s) \subseteq Txs /\ \A o \in Contested(pool, t) : pool.spends[o] \in Values(s)
    BY <2>3 DEF Values
  <2> HIDE DEF e, s
  <2>5. Fits(e, pool)
    BY <1>1, <1>2, <2>2, <2>4 DEF Fits, Before, Clearing, Removing
  <2> QED BY <1>1, <2>1, <2>2, <2>5, LookUnspoilt DEF Idle
<1> QED BY <1>3, <1>4, <1>5 DEF FindConflicts

LEMMA ReplaceUnspoilt ==
  ASSUME MTInv, MTInv', Unspoilt, NEW k \in Tasks, Replace(k)
  PROVE  Unspoilt'
<1>1. task[k].at = "replace" /\ pool' = pool
  BY DEF Replace
<1>2. CallOK(task[k]) /\ Fits(task[k], pool) /\ DOMAIN task[k] = Fields
  BY <1>1, CallUnderWay DEF MTInv, Unspoilt, CallOK
<1>3. CASE Done(k)
  BY <1>1, <1>3, DoneUnspoilt DEF Idle
<1>4. CASE \E q \in Lists({task[k].seen[o] : o \in DOMAIN task[k].seen}) :
             task' = [task EXCEPT ![k].at = "remove", ![k].queue = q]
  <2>1. PICK q \in Lists(Values(task[k].seen)) :
          task' = [task EXCEPT ![k].at = "remove", ![k].queue = q]
    BY <1>4 DEF Values
  <2> DEFINE e == [task[k] EXCEPT !.at = "remove", !.queue = q]
  <2>2. task' = [task EXCEPT ![k] = e]
    BY <2>1
  <2>3. /\ e.at = "remove" /\ e.tx = task[k].tx /\ e.gone = task[k].gone
        /\ e.then = task[k].then /\ e.queue = q
    BY <1>2 DEF Fields
  <2>4. /\ Values(task[k].seen) \subseteq Txs
        /\ \A o \in Contested(pool, task[k].tx) : pool.spends[o] \in Values(task[k].seen)
    BY <1>1, <1>2 DEF Fits
  <2>5. q \in Seq(Txs) /\ Values(q) = Values(task[k].seen)
    BY <2>4, ListFacts
  <2> HIDE DEF e
  <2>6. Fits(e, pool)
    BY <1>1, <1>2, <2>3, <2>4, <2>5 DEF Fits, Before
  <2> QED BY <1>1, <2>2, <2>3, <2>6, LookUnspoilt DEF Idle
<1> QED BY <1>3, <1>4 DEF Replace

LEMMA FindParentsUnspoilt ==
  ASSUME MTInv, MTInv', Unspoilt, NEW k \in Tasks, FindParents(k)
  PROVE  Unspoilt'
<1> DEFINE e == [task[k] EXCEPT !.at = "spend", !.parents = Parents(pool, task[k].tx),
                                !.anc = AncestorStats(pool, task[k].tx)]
<1>1. task[k].at = "parents" /\ pool' = pool
  BY DEF FindParents
<1>2. CallOK(task[k]) /\ Fits(task[k], pool) /\ DOMAIN task[k] = Fields
  BY <1>1, CallUnderWay DEF MTInv, Unspoilt, CallOK
<1>3. CASE Done(k)
  BY <1>1, <1>3, DoneUnspoilt DEF Idle
<1>4. CASE ~Done(k)
  <2>1. task' = [task EXCEPT ![k] = e]
    BY <1>4 DEF FindParents
  <2>2. /\ e.at = "spend" /\ e.tx = task[k].tx /\ e.gone = task[k].gone
        /\ e.then = task[k].then /\ e.queue = task[k].queue
        /\ e.parents = Parents(pool, task[k].tx)
    BY <1>2 DEF Fields
  <2>3. \A p \in Parents(pool, task[k].tx) : p \in InPool(pool) /\ Via(task[k].tx, p)
    BY DEF Parents, Via
  <2> HIDE DEF e
  <2>4. Fits(e, pool)
    BY <1>1, <1>2, <2>2, <2>3 DEF Fits, Before, Clearing, Removing
  <2> QED BY <1>1, <2>1, <2>2, <2>4, LookUnspoilt DEF Idle
<1> QED BY <1>3, <1>4

LEMMA EvictUnspoilt ==
  ASSUME MTInv, MTInv', Unspoilt, NEW k \in Tasks, MeasureSize(k) \/ ListEntries(k)
  PROVE  Unspoilt'
<1>1. task[k].at \in {"evict", "list"} /\ pool' = pool
  BY DEF MeasureSize, ListEntries
<1>2. CallOK(task[k]) /\ Fits(task[k], pool) /\ DOMAIN task[k] = Fields
  BY <1>1, CallUnderWay DEF MTInv, Unspoilt, CallOK
<1>3. CASE Done(k)
  BY <1>1, <1>3, DoneUnspoilt DEF Idle
<1>4. CASE MeasureSize(k) /\ ~Done(k)
  <2> DEFINE e == [task[k] EXCEPT !.at = "list", !.cur = pool.size]
  <2>1. task' = [task EXCEPT ![k] = e]
    BY <1>4 DEF MeasureSize
  <2>2. /\ e.at = "list" /\ e.tx = task[k].tx /\ e.gone = task[k].gone
        /\ e.then = task[k].then /\ e.queue = task[k].queue
    BY <1>2 DEF Fields
  <2> HIDE DEF e
  <2>3. Fits(e, pool)
    BY <1>2, <2>2 DEF Fits, Before, Clearing, Removing
  <2> QED BY <1>1, <2>1, <2>2, <2>3, LookUnspoilt DEF Idle
<1>5. CASE ListEntries(k)
  <2>1. PICK q \in Lists(InPool(pool)) :
          task' = [task EXCEPT ![k].at = "remove", ![k].queue = q,
                               ![k].then = "return", ![k].evicted = 0]
    BY <1>5 DEF ListEntries
  <2> DEFINE e == [task[k] EXCEPT !.at = "remove", !.queue = q, !.then = "return",
                                  !.evicted = 0]
  <2>2. task' = [task EXCEPT ![k] = e]
    BY <2>1
  <2>3. /\ e.at = "remove" /\ e.tx = task[k].tx /\ e.gone = task[k].gone
        /\ e.then = "return" /\ e.queue = q
    BY <1>2 DEF Fields
  <2>4. q \in Seq(Txs)
    BY ListFacts DEF MTInv, PoolShape
  <2> HIDE DEF e
  <2>5. Fits(e, pool)
    BY <1>2, <2>3, <2>4 DEF Fits, Before, Clearing
  <2> QED BY <1>1, <2>2, <2>3, <2>5, LookUnspoilt DEF Idle
<1> QED BY <1>3, <1>4, <1>5

\* When the last conflict is removed, nothing contests the inputs any more.
LEMMA RemovedAllUnspoilt ==
  ASSUME MTInv, MTInv', Unspoilt, NEW k \in Tasks, RemovedAll(k)
  PROVE  Unspoilt'
<1> DEFINE e == [task[k] EXCEPT !.at = "parents"]
<1>1. task[k].at = "remove" /\ pool' = pool
  BY DEF RemovedAll
<1>2. CallOK(task[k]) /\ Fits(task[k], pool) /\ DOMAIN task[k] = Fields
  BY <1>1, CallUnderWay DEF MTInv, Unspoilt, CallOK
<1>3. CASE Done(k)
  BY <1>1, <1>3, DoneUnspoilt DEF Idle
<1>4. CASE Goto(k, "parents") /\ task[k].then = "parents"
  <2>1. task' = [task EXCEPT ![k] = e]
    BY <1>4 DEF Goto
  <2>2. /\ e.at = "parents" /\ e.tx = task[k].tx /\ e.gone = task[k].gone
        /\ e.then = task[k].then /\ e.queue = task[k].queue
    BY <1>2 DEF Fields
  <2>3. task[k].queue = << >> /\ Values(task[k].queue) = {}
    BY <1>4 DEF RemovedAll, Enough, Values
  <2>4. Clearing(task[k])
    BY <1>1, <1>4 DEF Clearing
  <2>5. Contested(pool, task[k].tx) = {}
    BY <1>1, <1>2, <2>3, <2>4 DEF Fits
  <2> HIDE DEF e
  <2>6. Fits(e, pool)
    BY <1>2, <2>2, <2>4, <2>5 DEF Fits, Before, Removing, Clearing
  <2> QED BY <1>1, <2>1, <2>2, <2>6, LookUnspoilt DEF Idle
<1> QED BY <1>3, <1>4 DEF RemovedAll

-----------------------------------------------------------------------------
(* The steps that change the pool *)

\* The call in slot k moves on to a stage, and the pool changes in a way that is
\* not about the transactions of other calls.
LEMMA OthersFit ==
  ASSUME Unspoilt, NEW k \in Tasks, \A j \in Tasks \ {k} : task'[j] = task[j],
         task'[k].at # "free" => Fits(task'[k], pool'),
         \A j \in Tasks \ {k} : task[j].at # "free" =>
           /\ \A x \in InPool(pool') :
                 x \notin InPool(pool) => x # task[j].tx /\ x \notin task[j].gone
           /\ \A x \in InPool(pool) : x \notin InPool(pool') => ~Via(task[j].tx, x)
           /\ \A o \in Contested(pool', task[j].tx) :
                 o \in Contested(pool, task[j].tx) /\ pool'.spends[o] = pool.spends[o]
           /\ \A p \in InPool(pool) \cap InPool(pool') :
                 task[j].tx \in pool.entries[p].children
                   => task[j].tx \in pool'.entries[p].children
  PROVE  \A j \in Tasks : task'[j].at # "free" => Fits(task'[j], pool')
<1> SUFFICES ASSUME NEW j \in Tasks, j # k, task[j].at # "free" PROVE Fits(task[j], pool')
  OBVIOUS
<1>1. Fits(task[j], pool)
  BY DEF Unspoilt
<1> QED BY <1>1, FitsStays

\* What the other calls work on has nothing to do with this call's transaction.
LEMMA FarFromTx ==
  ASSUME MTInv, Unspoilt, NEW k \in Tasks, NEW j \in Tasks, j # k,
         task[k].at # "free", task[j].at # "free"
  PROVE  /\ task[k].tx # task[j].tx /\ task[k].tx \notin task[j].gone
         /\ task[j].tx \notin task[k].gone
         /\ Inputs[task[k].tx] \cap Inputs[task[j].tx] = {}
         /\ ~Via(task[j].tx, task[k].tx)
         /\ \A c \in task[k].gone : /\ ~Via(task[j].tx, c) /\ c # task[j].tx
                                    /\ c \notin task[j].gone
                                    /\ Inputs[c] \cap Inputs[task[j].tx] = {}
<1>1. Apart(task) /\ task[k].tx \in Works(task[k]) /\ task[j].tx \in Works(task[j])
      /\ task[k].gone \subseteq Works(task[k]) /\ task[j].gone \subseteq Works(task[j])
  BY DEF Unspoilt, Works
<1>2. ASSUME NEW t \in Works(task[k]), NEW u \in Works(task[j])
      PROVE  t # u /\ Inputs[t] \cap Inputs[u] = {} /\ ~Via(u, t)
  BY <1>1, ApartFacts
<1> QED BY <1>1, <1>2

LEMMA SameLoad ==
  ASSUME NEW f \in Measures, NEW d, CallOK(d), NEW e, CallOK(e), e.gone = d.gone,
         d.at # "enter", e.at # "enter", d.at \in Removing <=> e.at \in Removing
  PROVE  LoadOf(f, e) = LoadOf(f, d)
<1>1. d.at # "free" /\ e.at # "free"
  BY DEF CallOK, Stages
<1>2. SumOf(f, e.gone) = SumOf(f, d.gone)
  BY Zenon
<1> QED BY <1>1, <1>2 DEF LoadOf

\* The outpoints are claimed: nobody else has any of them.
LEMMA InsertSpendsUnspoilt ==
  ASSUME MTInv, MTInv', Unspoilt, NEW k \in Tasks, InsertSpends(k)
  PROVE  Unspoilt'
<1> DEFINE t == task[k].tx
           s == [o \in DOMAIN pool.spends \cup Inputs[t] |->
                   IF o \in Inputs[t] THEN t ELSE pool.spends[o]]
<1>1. task[k].at = "spend" /\ Goto(k, "tell") /\ TasksOK(task) /\ PoolShape(pool)
  BY DEF InsertSpends, MTInv
<1>2. CallOK(task[k]) /\ Fits(task[k], pool) /\ t \in Txs
  BY <1>1, CallUnderWay DEF Unspoilt, CallOK
<1>3. /\ task'[k].at = "tell" /\ task'[k].tx = t
      /\ task'[k].parents = task[k].parents
      /\ task'[k].queue = task[k].queue /\ task'[k].gone = task[k].gone
      /\ task'[k].then = task[k].then
      /\ \A j \in Tasks \ {k} : task'[j] = task[j]
  BY <1>1, <1>2, GotoFields
<1>4. /\ pool'.entries = pool.entries /\ pool'.spends = s
      /\ pool'.size = pool.size /\ pool'.fees = pool.fees
  BY <1>1 DEF InsertSpends, PoolShape
<1>5. /\ InPool(pool') = InPool(pool) /\ DOMAIN pool'.spends = DOMAIN pool.spends \cup Inputs[t]
      /\ \A o \in Inputs[t] : pool'.spends[o] = t
      /\ \A o \in DOMAIN pool.spends \ Inputs[t] : pool'.spends[o] = pool.spends[o]
  BY <1>4 DEF InPool
<1>6. Inputs[t] \cap DOMAIN pool.spends = {}
  BY <1>1, <1>2 DEF Fits, Contested
<1> HIDE DEF t, s
<1>7. Apart(task')
  <2>1. Works(task'[k]) \subseteq Works(task[k])
    BY <1>1, <1>3 DEF Works, t
  <2> QED BY <1>3, <2>1, ApartStays DEF Unspoilt
<1>8. \A j \in Tasks : task'[j].at # "free" => Fits(task'[j], pool')
  <2>1. Fits(task'[k], pool')
    BY <1>1, <1>2, <1>3, <1>5 DEF Fits, Before, Clearing, Removing, t
  <2>2. ASSUME NEW j \in Tasks \ {k}, task[j].at # "free",
               NEW o \in Contested(pool', task[j].tx)
        PROVE  o \in Contested(pool, task[j].tx) /\ pool'.spends[o] = pool.spends[o]
    <3>1. Inputs[t] \cap Inputs[task[j].tx] = {}
      BY <1>1, <2>2, FarFromTx DEF t
    <3> QED BY <1>5, <2>2, <3>1 DEF Contested
  <2> QED BY <1>3, <1>4, <1>5, <2>1, <2>2, OthersFit
<1>9. HeldExact(task', pool')
  <2>1. \A c : ~Claims(task[k], c) /\ (Claims(task'[k], c) <=> c = t)
    BY <1>1, <1>3 DEF Claims
  <2>2. Held(task', pool') = Held(task, pool) \cup {t}
    BY <1>2, <1>3, <1>5, <2>1 DEF Held
  <2>3. HeldExact(task, pool)
    BY DEF Unspoilt
  <2>4. DOMAIN pool'.spends = UNION {Inputs[u] : u \in Held(task', pool')}
    BY <1>5, <2>2, <2>3 DEF HeldExact
  <2>5. ASSUME NEW u \in Held(task', pool'), NEW o \in Inputs[u] PROVE pool'.spends[o] = u
    <3>1. CASE u = t
      BY <1>5, <2>5, <3>1
    <3>2. CASE u # t
      <4>1. u \in Held(task, pool)
        BY <2>2, <2>5, <3>2
      <4>2. o \in DOMAIN pool.spends /\ pool.spends[o] = u
        BY <2>3, <2>5, <4>1 DEF HeldExact
      <4> QED BY <1>5, <1>6, <4>2
    <3> QED BY <3>1, <3>2
  <2> QED BY <2>4, <2>5 DEF HeldExact
<1>10. \A u \in InPool(pool') : LinksFor(task', pool', u)
  <2>1. \A c : ~Leaves(task[k], c) /\ ~Comes(task[k], c)
    BY <1>1 DEF Leaves, Comes
  <2>2. \A u \in InPool(pool) : LinksFor(task, pool, u)
    BY DEF Unspoilt
  <2> QED BY <1>3, <1>4, <2>1, <2>2, LinksStay
<1>11. /\ Exact(Vsize, pool'.size, InPool(pool'), task')
       /\ Exact(Fee, pool'.fees, InPool(pool'), task')
  <2>1. CallOK(task'[k])
    BY <1>3 DEF MTInv, TasksOK, Free
  <2>2. \A f \in Measures : LoadOf(f, task'[k]) = LoadOf(f, task[k])
    BY <1>1, <1>2, <1>3, <2>1, SameLoad DEF Removing
  <2> QED BY <1>3, <1>4, <1>5, <2>2, TotalsSame
<1>12. EntriesOK(pool')
  BY <1>4 DEF EntriesOK, InPool, Unspoilt
<1> QED BY <1>7, <1>8, <1>9, <1>10, <1>11, <1>12 DEF Unspoilt

LEMMA AddTotalsUnspoilt ==
  ASSUME MTInv, MTInv', Unspoilt, NEW k \in Tasks, AddTotals(k)
  PROVE  Unspoilt'
<1> DEFINE t == task[k].tx
<1>1. task[k].at = "total" /\ Goto(k, "enter") /\ TasksOK(task) /\ PoolShape(pool)
  BY DEF AddTotals, MTInv
<1>2. CallOK(task[k]) /\ Fits(task[k], pool) /\ t \in Txs
  BY <1>1, CallUnderWay DEF Unspoilt, CallOK
<1>3. /\ task'[k].at = "enter" /\ task'[k].tx = t
      /\ task'[k].parents = task[k].parents
      /\ task'[k].queue = task[k].queue /\ task'[k].gone = task[k].gone
      /\ task'[k].then = task[k].then
      /\ \A j \in Tasks \ {k} : task'[j] = task[j]
  BY <1>1, <1>2, GotoFields
<1>4. /\ pool'.entries = pool.entries /\ pool'.spends = pool.spends
      /\ pool'.size = pool.size + Vsize[t] /\ pool'.fees = pool.fees + Fee[t]
  BY <1>1 DEF AddTotals, PoolShape
<1>5. InPool(pool') = InPool(pool)
  BY <1>4 DEF InPool
<1> HIDE DEF t
<1>6. Apart(task')
  <2>1. Works(task'[k]) \subseteq Works(task[k])
    BY <1>1, <1>3 DEF Works, t
  <2> QED BY <1>3, <2>1, ApartStays DEF Unspoilt
<1>7. \A j \in Tasks : task'[j].at # "free" => Fits(task'[j], pool')
  <2>1. Fits(task'[k], pool')
    BY <1>1, <1>2, <1>3, <1>4, <1>5 DEF Fits, Before, Clearing, Removing, t
  <2> QED BY <1>3, <1>4, <1>5, <2>1, OthersFit DEF Contested
<1>8. HeldExact(task', pool')
  <2>1. \A c : Claims(task[k], c) <=> Claims(task'[k], c)
    BY <1>1, <1>3 DEF Claims, t
  <2>2. Held(task', pool') = Held(task, pool)
    BY <1>3, <1>5, <2>1 DEF Held
  <2> QED BY <1>4, <2>2 DEF HeldExact, Unspoilt
<1>9. \A u \in InPool(pool') : LinksFor(task', pool', u)
  <2>1. \A c : ~Leaves(task[k], c) /\ (Comes(task[k], c) => Comes(task'[k], c))
    BY <1>1, <1>3 DEF Leaves, Comes, t
  <2>2. \A u \in InPool(pool) : LinksFor(task, pool, u)
    BY DEF Unspoilt
  <2> QED BY <1>3, <1>4, <2>1, <2>2, LinksStay
<1>10. /\ Exact(Vsize, pool'.size, InPool(pool'), task')
       /\ Exact(Fee, pool'.fees, InPool(pool'), task')
  <2>1. CallOK(task'[k])
    BY <1>3 DEF MTInv, TasksOK, Free
  <2>2. ASSUME NEW f \in Measures
        PROVE  LoadOf(f, task[k]) = 0 /\ LoadOf(f, task'[k]) = f[t] /\ f[t] \in Nat
    BY <1>1, <1>2, <1>3, <2>1, LoadByStage DEF Removing, Measures
  <2>3. Vsize \in Measures /\ Fee \in Measures
    BY TxAssumption DEF Measures
  <2>4. /\ LoadOf(Vsize, task[k]) = 0 /\ LoadOf(Vsize, task'[k]) = Vsize[t] /\ Vsize[t] \in Nat
        /\ LoadOf(Fee, task[k]) = 0 /\ LoadOf(Fee, task'[k]) = Fee[t] /\ Fee[t] \in Nat
    BY <2>2, <2>3
  <2>5. /\ pool.size \in Int /\ pool.fees \in Int
        /\ SumOf(Vsize, InPool(pool)) \in Nat /\ SumOf(Fee, InPool(pool)) \in Nat
    BY <1>1, TxSums DEF MTInv, Covers, PoolShape
  <2>6. /\ SumOf(Vsize, InPool(pool')) = SumOf(Vsize, InPool(pool))
        /\ SumOf(Fee, InPool(pool')) = SumOf(Fee, InPool(pool))
    BY <1>5, Zenon
  <2>7. /\ pool'.size + SumOf(Vsize, InPool(pool)) + LoadOf(Vsize, task[k])
             = pool.size + SumOf(Vsize, InPool(pool')) + LoadOf(Vsize, task'[k])
        /\ pool'.fees + SumOf(Fee, InPool(pool)) + LoadOf(Fee, task[k])
             = pool.fees + SumOf(Fee, InPool(pool')) + LoadOf(Fee, task'[k])
    BY <1>4, <2>4, <2>5, <2>6
  <2> QED BY <1>3, <2>7, TotalsStay
<1>11. EntriesOK(pool')
  BY <1>4 DEF EntriesOK, InPool, Unspoilt
<1> QED BY <1>6, <1>7, <1>8, <1>9, <1>10, <1>11 DEF Unspoilt

\* The parents, which are all still there, learn of a child that is to come.
LEMMA TellParentsUnspoilt ==
  ASSUME MTInv, MTInv', Unspoilt, NEW k \in Tasks, TellParents(k)
  PROVE  Unspoilt'
<1> DEFINE t == task[k].tx
           told(d) == [d EXCEPT !.children = @ \cup {t}, !.desc = Plus(@, Own(t))]
           new == [u \in DOMAIN pool.entries |->
                     IF u \in task[k].parents THEN told(pool.entries[u])
                     ELSE pool.entries[u]]
<1>1. task[k].at = "tell" /\ Goto(k, "total") /\ TasksOK(task) /\ PoolShape(pool)
  BY DEF TellParents, MTInv
<1>2. CallOK(task[k]) /\ Fits(task[k], pool) /\ t \in Txs
  BY <1>1, CallUnderWay DEF Unspoilt, CallOK
<1>3. /\ task'[k].at = "total" /\ task'[k].tx = t
      /\ task'[k].parents = task[k].parents
      /\ task'[k].queue = task[k].queue /\ task'[k].gone = task[k].gone
      /\ task'[k].then = task[k].then
      /\ \A j \in Tasks \ {k} : task'[j] = task[j]
  BY <1>1, <1>2, GotoFields
<1>4. /\ pool'.entries = new /\ pool'.spends = pool.spends
      /\ pool'.size = pool.size /\ pool'.fees = pool.fees
  <2>1. pool' = [pool EXCEPT !.entries = new]
    BY DEF TellParents
  <2> HIDE DEF new
  <2> QED BY <1>1, <2>1 DEF PoolShape
<1>5. InPool(pool') = InPool(pool)
  BY <1>4 DEF InPool
<1>6. ASSUME NEW u \in InPool(pool)
      PROVE  /\ DOMAIN pool'.entries[u] = {"parents", "children", "anc", "desc"}
             /\ pool'.entries[u].parents = pool.entries[u].parents
             /\ pool'.entries[u].children = IF u \in task[k].parents
                                            THEN pool.entries[u].children \cup {t}
                                            ELSE pool.entries[u].children
  <2>1. DOMAIN pool.entries[u] = {"parents", "children", "anc", "desc"}
    BY DEF Unspoilt, EntriesOK
  <2>2. /\ DOMAIN told(pool.entries[u]) = {"parents", "children", "anc", "desc"}
        /\ told(pool.entries[u]).parents = pool.entries[u].parents
        /\ told(pool.entries[u]).children = pool.entries[u].children \cup {t}
    BY <2>1
  <2> HIDE DEF told
  <2> QED BY <1>4, <2>1, <2>2 DEF InPool
<1> HIDE DEF t, new
<1>7. Apart(task')
  <2>1. Works(task'[k]) \subseteq Works(task[k])
    BY <1>1, <1>3 DEF Works, t
  <2> QED BY <1>3, <2>1, ApartStays DEF Unspoilt
<1>8. \A j \in Tasks : task'[j].at # "free" => Fits(task'[j], pool')
  <2>1. \A p \in task[k].parents : p \in InPool(pool) /\ Via(t, p)
    BY <1>1, <1>2 DEF Fits, t
  <2>2. \A p \in task[k].parents : t \in pool'.entries[p].children
    BY <1>6, <2>1
  <2>3. Fits(task'[k], pool')
    BY <1>1, <1>2, <1>3, <1>4, <1>5, <2>1, <2>2 DEF Fits, Before, Clearing, Removing, t
  <2>4. \A p \in InPool(pool) : \A x : x \in pool.entries[p].children
                                         => x \in pool'.entries[p].children
    BY <1>6
  <2> QED BY <1>3, <1>4, <1>5, <2>3, <2>4, OthersFit DEF Contested
<1>9. HeldExact(task', pool')
  <2>1. \A c : Claims(task[k], c) <=> Claims(task'[k], c)
    BY <1>1, <1>3 DEF Claims, t
  <2>2. Held(task', pool') = Held(task, pool)
    BY <1>3, <1>5, <2>1 DEF Held
  <2> QED BY <1>4, <2>2 DEF HeldExact, Unspoilt
<1>10. ASSUME NEW u \in InPool(pool') PROVE LinksFor(task', pool', u)
  <2>1. u \in InPool(pool) /\ LinksFor(task, pool, u)
    BY <1>5, <1>10 DEF Unspoilt
  <2>2. \A c : ~Leaves(task[k], c) /\ ~Comes(task[k], c) /\ Comes(task'[k], t)
    BY <1>1, <1>3 DEF Leaves, Comes
  <2>3. ASSUME NEW p \in pool'.entries[u].parents
        PROVE  /\ Via(u, p)
               /\ \/ p \in InPool(pool') /\ u \in pool'.entries[p].children
                  \/ \E j \in Tasks : Leaves(task'[j], p) /\ u \in task'[j].old.children
    <3>1. p \in pool.entries[u].parents
      BY <1>6, <2>1, <2>3
    <3>2. CASE p \in InPool(pool) /\ u \in pool.entries[p].children
      BY <1>5, <1>6, <2>1, <3>1, <3>2 DEF LinksFor
    <3>3. CASE \E j \in Tasks : Leaves(task[j], p) /\ u \in task[j].old.children
      BY <1>3, <2>1, <2>2, <3>1, <3>3 DEF LinksFor
    <3> QED BY <2>1, <3>1, <3>2, <3>3 DEF LinksFor
  <2>4. ASSUME NEW c \in pool'.entries[u].children
        PROVE  \/ c \in InPool(pool') /\ u \in pool'.entries[c].parents
               \/ \E j \in Tasks : Leaves(task'[j], c) /\ u \in task'[j].old.parents
               \/ \E j \in Tasks : Comes(task'[j], c) /\ u \in task'[j].parents
    <3>1. CASE c \in pool.entries[u].children
      <4>1. \/ c \in InPool(pool) /\ u \in pool.entries[c].parents
            \/ \E j \in Tasks : Leaves(task[j], c) /\ u \in task[j].old.parents
            \/ \E j \in Tasks : Comes(task[j], c) /\ u \in task[j].parents
        BY <2>1, <3>1 DEF LinksFor
      <4> QED BY <1>3, <1>5, <1>6, <2>2, <4>1
    <3>2. CASE c \notin pool.entries[u].children
      <4>1. u \in task[k].parents /\ c = t
        BY <1>6, <2>1, <2>4, <3>2
      <4> QED BY <1>3, <2>2, <4>1
    <3> QED BY <3>1, <3>2
  <2> QED BY <2>3, <2>4 DEF LinksFor
<1>11. /\ Exact(Vsize, pool'.size, InPool(pool'), task')
       /\ Exact(Fee, pool'.fees, InPool(pool'), task')
  <2>1. CallOK(task'[k])
    BY <1>3 DEF MTInv, TasksOK, Free
  <2>2. \A f \in Measures : LoadOf(f, task'[k]) = LoadOf(f, task[k])
    BY <1>1, <1>2, <1>3, <2>1, SameLoad DEF Removing
  <2> QED BY <1>3, <1>4, <1>5, <2>2, TotalsSame
<1>12. EntriesOK(pool')
  BY <1>5, <1>6 DEF EntriesOK
<1> QED BY <1>7, <1>8, <1>9, <1>10, <1>11, <1>12 DEF Unspoilt

\* The entry goes in where there is none, and its parents have it already.
LEMMA InsertEntryUnspoilt ==
  ASSUME MTInv, MTInv', Unspoilt, NEW k \in Tasks, InsertEntry(k)
  PROVE  Unspoilt'
<1> DEFINE t == task[k].tx
           e == [parents |-> task[k].parents, children |-> {},
                 anc |-> task[k].anc, desc |-> Own(t)]
<1>1. task[k].at = "enter" /\ Goto(k, "evict") /\ TasksOK(task) /\ PoolShape(pool)
  BY DEF InsertEntry, MTInv
<1>2. CallOK(task[k]) /\ Fits(task[k], pool) /\ t \in Txs /\ task[k].gone = {}
  BY <1>1, CallUnderWay DEF Unspoilt, CallOK, Removing
<1>3. /\ task'[k].at = "evict" /\ task'[k].tx = t
      /\ task'[k].queue = task[k].queue /\ task'[k].gone = task[k].gone
      /\ task'[k].then = task[k].then
      /\ \A j \in Tasks \ {k} : task'[j] = task[j]
  BY <1>1, <1>2, GotoFields
<1>4. /\ pool'.entries = [u \in InPool(pool) \cup {t} |-> IF u = t THEN e ELSE pool.entries[u]]
      /\ pool'.spends = pool.spends /\ pool'.size = pool.size /\ pool'.fees = pool.fees
  BY <1>1 DEF InsertEntry, PoolShape, InPool
<1>5. /\ InPool(pool') = InPool(pool) \cup {t} /\ pool'.entries[t] = e
      /\ \A u \in InPool(pool) : u # t => pool'.entries[u] = pool.entries[u]
  BY <1>4 DEF InPool
<1>6. /\ t \notin InPool(pool)
      /\ \A p \in task[k].parents : /\ p \in InPool(pool) /\ Via(t, p)
                                    /\ t \in pool.entries[p].children
  BY <1>1, <1>2 DEF Fits, Before
<1>7. /\ DOMAIN e = {"parents", "children", "anc", "desc"}
      /\ e.parents = task[k].parents /\ e.children = {}
  OBVIOUS
<1>8. \A u \in InPool(pool) : pool'.entries[u] = pool.entries[u]
  BY <1>5, <1>6
<1> HIDE DEF t, e
<1>9. Apart(task')
  <2>1. Works(task'[k]) \subseteq Works(task[k])
    BY <1>1, <1>3 DEF Works, t
  <2> QED BY <1>3, <2>1, ApartStays DEF Unspoilt
<1>10. \A j \in Tasks : task'[j].at # "free" => Fits(task'[j], pool')
  <2>1. Fits(task'[k], pool')
    BY <1>2, <1>3 DEF Fits, Before, Clearing, Removing
  <2>2. ASSUME NEW j \in Tasks \ {k}, task[j].at # "free"
        PROVE  t # task[j].tx /\ t \notin task[j].gone
    BY <1>1, <2>2, FarFromTx DEF t
  <2> QED BY <1>3, <1>4, <1>5, <1>8, <2>1, <2>2, OthersFit DEF Contested
<1>11. HeldExact(task', pool')
  <2>1. \A c : ~Claims(task'[k], c) /\ (Claims(task[k], c) <=> c = t)
    BY <1>1, <1>3 DEF Claims, t
  <2>2. Held(task', pool') = Held(task, pool)
    BY <1>2, <1>3, <1>5, <2>1 DEF Held
  <2> QED BY <1>4, <2>2 DEF HeldExact, Unspoilt
<1>12. ASSUME NEW u \in InPool(pool') PROVE LinksFor(task', pool', u)
  <2>1. CASE u = t
    <3>1. ASSUME NEW p \in pool'.entries[u].parents
          PROVE  Via(u, p) /\ p \in InPool(pool') /\ u \in pool'.entries[p].children
      BY <1>5, <1>6, <1>7, <1>8, <2>1, <3>1
    <3>2. pool'.entries[u].children = {}
      BY <1>5, <1>7, <2>1
    <3> QED BY <3>1, <3>2 DEF LinksFor
  <2>2. CASE u # t
    <3>1. u \in InPool(pool) /\ LinksFor(task, pool, u) /\ pool'.entries[u] = pool.entries[u]
      BY <1>5, <1>12, <2>2 DEF Unspoilt
    <3>2. \A c : ~Leaves(task[k], c) /\ (Comes(task[k], c) => c = t)
      BY <1>1 DEF Leaves, Comes, t
    <3>3. ASSUME NEW p \in pool'.entries[u].parents
          PROVE  /\ Via(u, p)
                 /\ \/ p \in InPool(pool') /\ u \in pool'.entries[p].children
                    \/ \E j \in Tasks : Leaves(task'[j], p) /\ u \in task'[j].old.children
      BY <1>3, <1>5, <1>8, <3>1, <3>2, <3>3 DEF LinksFor
    <3>4. ASSUME NEW c \in pool'.entries[u].children
          PROVE  \/ c \in InPool(pool') /\ u \in pool'.entries[c].parents
                 \/ \E j \in Tasks : Leaves(task'[j], c) /\ u \in task'[j].old.parents
                 \/ \E j \in Tasks : Comes(task'[j], c) /\ u \in task'[j].parents
      <4>1. \/ c \in InPool(pool) /\ u \in pool.entries[c].parents
            \/ \E j \in Tasks : Leaves(task[j], c) /\ u \in task[j].old.parents
            \/ \E j \in Tasks : Comes(task[j], c) /\ u \in task[j].parents
        BY <3>1, <3>4 DEF LinksFor
      <4>2. CASE Comes(task[k], c) /\ u \in task[k].parents
        BY <1>5, <1>7, <3>2, <4>2
      <4> QED BY <1>3, <1>5, <1>8, <3>2, <4>1, <4>2
    <3> QED BY <3>3, <3>4 DEF LinksFor
  <2> QED BY <2>1, <2>2
<1>13. /\ Exact(Vsize, pool'.size, InPool(pool'), task')
       /\ Exact(Fee, pool'.fees, InPool(pool'), task')
  <2>1. CallOK(task'[k])
    BY <1>3 DEF MTInv, TasksOK, Free
  <2>2. Vsize \in Measures /\ Fee \in Measures
    BY TxAssumption DEF Measures
  <2>3. ASSUME NEW f \in Measures
        PROVE  /\ LoadOf(f, task[k]) = f[t] /\ LoadOf(f, task'[k]) = 0
               /\ SumOf(f, InPool(pool')) = SumOf(f, InPool(pool)) + f[t]
               /\ SumOf(f, InPool(pool)) \in Nat /\ f[t] \in Nat
    <3>1. LoadOf(f, task[k]) = f[t] /\ LoadOf(f, task'[k]) = 0
      BY <1>1, <1>2, <1>3, <2>1, LoadByStage DEF Removing, t
    <3>2. /\ IsFiniteSet(InPool(pool)) /\ InPool(pool) \in SUBSET Txs
          /\ \A x \in InPool(pool) \cup {t} : f[x] \in Nat
      BY <1>1, <1>2, TxAssumption, FS_Subset DEF PoolShape, Measures
    <3>3. SumOf(f, InPool(pool) \cup {t}) = SumOf(f, InPool(pool)) + f[t]
      BY <1>6, <3>2, SumWith
    <3>4. SumOf(f, InPool(pool)) \in Nat
      BY <3>2, SumType
    <3>5. SumOf(f, InPool(pool')) = SumOf(f, InPool(pool) \cup {t})
      BY <1>5, Zenon
    <3> QED BY <3>1, <3>2, <3>3, <3>4, <3>5
  <2>4. pool.size \in Int /\ pool.fees \in Int
    BY DEF MTInv, Covers
  <2>5. pool'.size + SumOf(Vsize, InPool(pool)) + LoadOf(Vsize, task[k])
           = pool.size + SumOf(Vsize, InPool(pool')) + LoadOf(Vsize, task'[k])
    BY <1>4, <2>2, <2>3, <2>4
  <2>6. pool'.fees + SumOf(Fee, InPool(pool)) + LoadOf(Fee, task[k])
           = pool.fees + SumOf(Fee, InPool(pool')) + LoadOf(Fee, task'[k])
    BY <1>4, <2>2, <2>3, <2>4
  <2> QED BY <1>3, <2>5, <2>6, TotalsStay
<1>14. EntriesOK(pool')
  BY <1>5, <1>7, <1>8 DEF EntriesOK, Unspoilt
<1> QED BY <1>9, <1>10, <1>11, <1>12, <1>13, <1>14 DEF Unspoilt

\* The first of a queue and the rest.
LEMMA QueueStep ==
  ASSUME NEW q \in Seq(Txs), q # << >>
  PROVE  /\ Head(q) \in Txs /\ Tail(q) \in Seq(Txs)
         /\ \A x \in Values(q) : x = Head(q) \/ x \in Values(Tail(q))
<1>1. /\ Len(q) \in Nat /\ Len(q) # 0 /\ DOMAIN q = 1..Len(q)
      /\ Tail(q) \in Seq(Txs) /\ Len(Tail(q)) = Len(q) - 1 /\ Head(q) = q[1]
      /\ \A i \in 1..(Len(q) - 1) : Tail(q)[i] = q[i + 1]
  OBVIOUS
<1>2. DOMAIN Tail(q) = 1..(Len(q) - 1) /\ Head(q) \in Txs
  BY <1>1
<1>3. ASSUME NEW i \in 1..Len(q) PROVE q[i] = Head(q) \/ q[i] \in Values(Tail(q))
  <2>1. CASE i = 1
    BY <1>1, <2>1
  <2>2. CASE i # 1
    <3>1. i - 1 \in 1..(Len(q) - 1) /\ i - 1 + 1 = i
      BY <1>1, <2>2
    <3>2. Tail(q)[i - 1] = q[i]
      BY <1>1, <3>1
    <3> QED BY <1>2, <3>1, <3>2 DEF Values
  <2> QED BY <2>1, <2>2
<1> QED BY <1>1, <1>2, <1>3 DEF Values

\* A conflict that is not in the pool any more contests nothing: whoever took
\* it out would have raced with this call.
LEMMA RemoveMissUnspoilt ==
  ASSUME MTInv, MTInv', Unspoilt, NEW k \in Tasks, RemoveEntry(k),
         Head(task[k].queue) \notin InPool(pool)
  PROVE  Unspoilt'
<1> DEFINE c == Head(task[k].queue)
           e == [task[k] EXCEPT !.queue = Tail(@)]
<1>1. /\ task[k].at = "remove" /\ task[k].queue # << >> /\ pool' = pool
      /\ task' = [task EXCEPT ![k] = e]
  BY DEF RemoveEntry, Enough
<1>2. CallOK(task[k]) /\ Fits(task[k], pool) /\ DOMAIN task[k] = Fields
  BY <1>1, CallUnderWay DEF MTInv, Unspoilt, CallOK
<1>3. /\ e.at = "remove" /\ e.tx = task[k].tx /\ e.gone = task[k].gone
      /\ e.then = task[k].then /\ e.queue = Tail(task[k].queue)
  BY <1>1, <1>2 DEF Fields
<1>4. /\ Tail(task[k].queue) \in Seq(Txs)
      /\ \A x \in Values(task[k].queue) : x = c \/ x \in Values(Tail(task[k].queue))
  BY <1>1, <1>2, QueueStep DEF Fits
<1> HIDE DEF c, e
<1>5. ASSUME NEW o \in Contested(pool, task[k].tx) PROVE pool.spends[o] # c
  <2> SUFFICES ASSUME pool.spends[o] = c PROVE FALSE
    OBVIOUS
  <2>1. c \in Held(task, pool) /\ o \in Inputs[c] /\ o \in Inputs[task[k].tx]
    BY SpenderHeld DEF MTInv, Unspoilt, Contested
  <2>2. PICK j \in Tasks : Claims(task[j], c)
    BY <2>1 DEF Held, c
  <2>3. j # k /\ c \in Works(task[j]) /\ task[k].tx \in Works(task[k])
    BY <1>1, <2>2 DEF Claims, Works
  <2>4. Inputs[task[k].tx] \cap Inputs[c] = {}
    BY <2>3, ApartFacts DEF Unspoilt
  <2> QED BY <2>1, <2>4
<1>6. Fits(e, pool)
  <2>1. Clearing(e) => \A o \in Contested(pool, e.tx) : pool.spends[o] \in Values(e.queue)
    <3>1. Clearing(e) => Clearing(task[k])
      BY <1>1, <1>3 DEF Clearing
    <3> QED BY <1>1, <1>2, <1>3, <1>4, <1>5, <3>1 DEF Fits
  <2> QED BY <1>1, <1>2, <1>3, <1>4, <2>1 DEF Fits, Before, Clearing
<1> QED BY <1>1, <1>3, <1>6, LookUnspoilt DEF Idle

\* The entry is taken out: its relatives and its outpoints are the call's to tell.
LEMMA RemoveHitUnspoilt ==
  ASSUME MTInv, MTInv', Unspoilt, ~raced', NEW k \in Tasks, RemoveEntry(k),
         Head(task[k].queue) \in InPool(pool)
  PROVE  Unspoilt'
<1> DEFINE c == Head(task[k].queue)
           e == [task[k] EXCEPT !.at = "unspend", !.queue = Tail(@), !.gone = {c},
                                !.old = pool.entries[c]]
<1>1. /\ task[k].at = "remove" /\ task[k].queue # << >> /\ task' = [task EXCEPT ![k] = e]
      /\ pool' = [pool EXCEPT !.entries = [u \in DOMAIN @ \ {c} |-> @[u]]]
      /\ TasksOK(task) /\ PoolShape(pool) /\ c \in InPool(pool) /\ c \in Txs
  BY DEF RemoveEntry, Enough, MTInv, PoolShape
<1>2. CallOK(task[k]) /\ Fits(task[k], pool) /\ DOMAIN task[k] = Fields /\ task[k].gone = {}
  BY <1>1, CallUnderWay DEF Unspoilt, CallOK, Removing
<1>3. /\ e.at = "unspend" /\ e.tx = task[k].tx /\ e.gone = {c}
      /\ e.then = task[k].then /\ e.queue = Tail(task[k].queue)
      /\ e.old = pool.entries[c]
  BY <1>2 DEF Fields
<1>4. /\ Tail(task[k].queue) \in Seq(Txs)
      /\ \A x \in Values(task[k].queue) : x = c \/ x \in Values(Tail(task[k].queue))
  BY <1>1, <1>2, QueueStep DEF Fits
<1>5. task'[k] = e /\ \A j \in Tasks \ {k} : task'[j] = task[j]
  BY <1>1 DEF TasksOK
<1>6. /\ InPool(pool') = InPool(pool) \ {c}
      /\ \A u \in InPool(pool') : pool'.entries[u] = pool.entries[u]
      /\ pool'.spends = pool.spends /\ pool'.size = pool.size /\ pool'.fees = pool.fees
  BY <1>1 DEF InPool, PoolShape
<1>7. \A j \in Tasks \ {k} : \A u \in Works(task[j]) : ~Linked(c, u)
  <2>1. \A j \in Tasks : Touched(j) = Works(task[j])
    BY DEF Touched, Works, Running
  <2>2. NoteRace(k, c)
    BY DEF RemoveEntry
  <2>3. raced' <=> (raced \/ \E j \in Tasks \ {k} : \E u \in Touched(j) : Linked(c, u))
    BY <2>2, Zenon DEF NoteRace
  <2> QED BY <2>1, <2>3
<1> HIDE DEF c, e
<1>8. Apart(task')
  <2>1. Works(task'[k]) = Works(task[k]) \cup {c}
    BY <1>1, <1>2, <1>3, <1>5 DEF Works
  <2>2. \A u : Linked(c, u) <=> Linked(u, c)
    BY DEF Linked
  <2>3. ASSUME NEW i \in Tasks, NEW j \in Tasks, i # j,
               NEW v \in Works(task'[i]), NEW u \in Works(task'[j])
        PROVE  ~Linked(v, u)
    <3>1. CASE i = k /\ v = c
      BY <1>5, <1>7, <2>3, <3>1
    <3>2. CASE j = k /\ u = c
      BY <1>5, <1>7, <2>2, <2>3, <3>2
    <3>3. CASE v \in Works(task[i]) /\ u \in Works(task[j])
      BY <2>3, <3>3 DEF Apart, Unspoilt
    <3> QED BY <1>5, <2>1, <2>3, <3>1, <3>2, <3>3
  <2> QED BY <2>3 DEF Apart
<1>9. \A j \in Tasks : task'[j].at # "free" => Fits(task'[j], pool')
  <2>1. Clearing(e) => \A o \in Contested(pool', e.tx) :
          pool'.spends[o] \in Values(e.queue) \/ pool'.spends[o] \in e.gone
    <3>1. Clearing(e) => Clearing(task[k])
      BY <1>1, <1>3 DEF Clearing
    <3>2. Contested(pool', e.tx) = Contested(pool, task[k].tx)
      BY <1>3, <1>6 DEF Contested
    <3> QED BY <1>1, <1>2, <1>3, <1>4, <1>6, <3>1, <3>2 DEF Fits
  <2>2. Before(e) => e.tx \notin InPool(pool')
    BY <1>1, <1>2, <1>3, <1>6 DEF Fits, Before, Clearing
  <2>3. Fits(task'[k], pool')
    BY <1>2, <1>3, <1>4, <1>5, <1>6, <2>1, <2>2 DEF Fits
  <2>4. ASSUME NEW j \in Tasks \ {k}, task[j].at # "free" PROVE ~Via(task[j].tx, c)
    <3>1. task[j].tx \in Works(task[j])
      BY <2>4 DEF Works
    <3> QED BY <1>7, <3>1 DEF Linked, Via
  <2>5. ASSUME NEW j \in Tasks \ {k}, task[j].at # "free"
        PROVE  /\ \A x \in InPool(pool') :
                     x \notin InPool(pool) => x # task[j].tx /\ x \notin task[j].gone
               /\ \A x \in InPool(pool) : x \notin InPool(pool') => ~Via(task[j].tx, x)
               /\ \A o \in Contested(pool', task[j].tx) :
                     o \in Contested(pool, task[j].tx) /\ pool'.spends[o] = pool.spends[o]
               /\ \A p \in InPool(pool) \cap InPool(pool') :
                     task[j].tx \in pool.entries[p].children
                       => task[j].tx \in pool'.entries[p].children
    BY <1>6, <2>4, <2>5 DEF Contested
  <2> QED BY <1>5, <2>3, <2>5, OthersFit
<1>10. HeldExact(task', pool')
  <2>1. \A x : ~Claims(task[k], x) /\ (Claims(task'[k], x) <=> x = c)
    BY <1>1, <1>3, <1>5 DEF Claims
  <2>2. Held(task', pool') = Held(task, pool)
    BY <1>1, <1>5, <1>6, <2>1 DEF Held
  <2> QED BY <1>6, <2>2 DEF HeldExact, Unspoilt
<1>11. ASSUME NEW u \in InPool(pool') PROVE LinksFor(task', pool', u)
  <2>1. u \in InPool(pool) /\ LinksFor(task, pool, u) /\ pool'.entries[u] = pool.entries[u]
    BY <1>6, <1>11 DEF Unspoilt
  <2>2. /\ \A x : ~Leaves(task[k], x) /\ ~Comes(task[k], x)
        /\ Leaves(task'[k], c) /\ task'[k].old = pool.entries[c]
    BY <1>1, <1>3, <1>5 DEF Leaves, Comes
  <2>3. ASSUME NEW p \in pool'.entries[u].parents
        PROVE  /\ Via(u, p)
               /\ \/ p \in InPool(pool') /\ u \in pool'.entries[p].children
                  \/ \E j \in Tasks : Leaves(task'[j], p) /\ u \in task'[j].old.children
    <3>1. /\ Via(u, p)
          /\ \/ p \in InPool(pool) /\ u \in pool.entries[p].children
             \/ \E j \in Tasks : Leaves(task[j], p) /\ u \in task[j].old.children
      BY <2>1, <2>3 DEF LinksFor
    <3> QED BY <1>5, <1>6, <2>2, <3>1
  <2>4. ASSUME NEW x \in pool'.entries[u].children
        PROVE  \/ x \in InPool(pool') /\ u \in pool'.entries[x].parents
               \/ \E j \in Tasks : Leaves(task'[j], x) /\ u \in task'[j].old.parents
               \/ \E j \in Tasks : Comes(task'[j], x) /\ u \in task'[j].parents
    <3>1. \/ x \in InPool(pool) /\ u \in pool.entries[x].parents
          \/ \E j \in Tasks : Leaves(task[j], x) /\ u \in task[j].old.parents
          \/ \E j \in Tasks : Comes(task[j], x) /\ u \in task[j].parents
      BY <2>1, <2>4 DEF LinksFor
    <3> QED BY <1>5, <1>6, <2>2, <3>1
  <2> QED BY <2>3, <2>4 DEF LinksFor
<1>12. /\ Exact(Vsize, pool'.size, InPool(pool'), task')
       /\ Exact(Fee, pool'.fees, InPool(pool'), task')
  <2>1. CallOK(task'[k])
    BY <1>3, <1>5 DEF MTInv, TasksOK, Free
  <2>2. Vsize \in Measures /\ Fee \in Measures
    BY TxAssumption DEF Measures
  <2>3. ASSUME NEW f \in Measures
        PROVE  /\ LoadOf(f, task[k]) = 0 /\ LoadOf(f, task'[k]) = f[c]
               /\ SumOf(f, InPool(pool)) = SumOf(f, InPool(pool')) + f[c]
               /\ SumOf(f, InPool(pool')) \in Nat /\ f[c] \in Nat
    <3>1. LoadOf(f, task[k]) = 0 /\ LoadOf(f, task'[k]) = f[c]
      BY <1>1, <1>2, <1>3, <1>5, <2>1, LoadByStage DEF Removing
    <3>2. /\ IsFiniteSet(InPool(pool)) /\ IsFiniteSet(InPool(pool'))
          /\ \A x \in InPool(pool) : f[x] \in Nat
      BY <1>1, <1>6, TxAssumption, FS_Subset DEF PoolShape, Measures
    <3>3. SumOf(f, InPool(pool)) = SumOf(f, InPool(pool) \ {c}) + f[c]
      BY <1>1, <3>2, SumWithout
    <3>4. SumOf(f, InPool(pool')) = SumOf(f, InPool(pool) \ {c})
      BY <1>6, Zenon
    <3>5. SumOf(f, InPool(pool')) \in Nat
      BY <1>6, <3>2, SumType
    <3> QED BY <1>1, <3>1, <3>2, <3>3, <3>4, <3>5
  <2>4. pool.size \in Int /\ pool.fees \in Int
    BY DEF MTInv, Covers
  <2>5. /\ LoadOf(Vsize, task[k]) = 0 /\ LoadOf(Vsize, task'[k]) = Vsize[c]
        /\ SumOf(Vsize, InPool(pool)) = SumOf(Vsize, InPool(pool')) + Vsize[c]
        /\ SumOf(Vsize, InPool(pool')) \in Nat /\ Vsize[c] \in Nat
    BY <2>2, <2>3
  <2>6. /\ LoadOf(Fee, task[k]) = 0 /\ LoadOf(Fee, task'[k]) = Fee[c]
        /\ SumOf(Fee, InPool(pool)) = SumOf(Fee, InPool(pool')) + Fee[c]
        /\ SumOf(Fee, InPool(pool')) \in Nat /\ Fee[c] \in Nat
    BY <2>2, <2>3
  <2>7. pool'.size + SumOf(Vsize, InPool(pool)) + LoadOf(Vsize, task[k])
           = pool.size + SumOf(Vsize, InPool(pool')) + LoadOf(Vsize, task'[k])
    BY <1>6, <2>4, <2>5
  <2>8. pool'.fees + SumOf(Fee, InPool(pool)) + LoadOf(Fee, task[k])
           = pool.fees + SumOf(Fee, InPool(pool')) + LoadOf(Fee, task'[k])
    BY <1>6, <2>4, <2>6
  <2> QED BY <1>5, <2>7, <2>8, TotalsStay
<1>13. EntriesOK(pool')
  BY <1>6 DEF EntriesOK, Unspoilt
<1> QED BY <1>8, <1>9, <1>10, <1>11, <1>12, <1>13 DEF Unspoilt

\* The victim of a call that removes.
LEMMA VictimFacts ==
  ASSUME MTInv, Unspoilt, NEW k \in Tasks, task[k].at \in Removing
  PROVE  /\ CallOK(task[k]) /\ Fits(task[k], pool)
         /\ Victim(k) \in Txs /\ task[k].gone = {Victim(k)}
         /\ Victim(k) \notin InPool(pool)
<1>1. CallOK(task[k]) /\ Fits(task[k], pool)
  BY CallUnderWay DEF MTInv, Unspoilt, Removing
<1>2. Victim(k) \in Txs /\ task[k].gone = {Victim(k)}
  BY <1>1 DEF CallOK, Victim
<1> QED BY <1>1, <1>2 DEF Fits

\* The outpoints of the victim are still its own.
LEMMA RemoveSpendsUnspoilt ==
  ASSUME MTInv, MTInv', Unspoilt, NEW k \in Tasks, RemoveSpends(k)
  PROVE  Unspoilt'
<1> DEFINE c == Victim(k)
<1>1. task[k].at = "unspend" /\ Goto(k, "unlink") /\ TasksOK(task) /\ PoolShape(pool)
  BY DEF RemoveSpends, MTInv
<1>2. /\ CallOK(task[k]) /\ Fits(task[k], pool)
      /\ c \in Txs /\ task[k].gone = {c} /\ c \notin InPool(pool)
  BY <1>1, VictimFacts DEF Removing
<1>3. /\ task'[k].at = "unlink" /\ task'[k].tx = task[k].tx
      /\ task'[k].queue = task[k].queue /\ task'[k].gone = task[k].gone
      /\ task'[k].old = task[k].old /\ task'[k].then = task[k].then
      /\ \A j \in Tasks \ {k} : task'[j] = task[j]
  BY <1>1, <1>2, GotoFields
<1>4. /\ pool'.entries = pool.entries /\ pool'.size = pool.size /\ pool'.fees = pool.fees
      /\ pool'.spends = [o \in DOMAIN pool.spends \ Inputs[c] |-> pool.spends[o]]
  BY <1>1 DEF RemoveSpends, PoolShape
<1>5. /\ InPool(pool') = InPool(pool) /\ DOMAIN pool'.spends = DOMAIN pool.spends \ Inputs[c]
      /\ \A o \in DOMAIN pool'.spends : pool'.spends[o] = pool.spends[o]
  BY <1>4 DEF InPool
<1> HIDE DEF c
<1>6. Apart(task')
  <2>1. Works(task'[k]) \subseteq Works(task[k])
    BY <1>1, <1>3 DEF Works
  <2> QED BY <1>3, <2>1, ApartStays DEF Unspoilt
<1>7. \A j \in Tasks : task'[j].at # "free" => Fits(task'[j], pool')
  <2>1. ASSUME Clearing(task'[k]), NEW o \in Contested(pool', task'[k].tx)
        PROVE  pool'.spends[o] \in Values(task'[k].queue)
    <3>1. Clearing(task[k])
      BY <1>1, <1>3, <2>1 DEF Clearing, Removing
    <3>2. o \in Contested(pool, task[k].tx) /\ o \in DOMAIN pool.spends /\ o \notin Inputs[c]
          /\ pool'.spends[o] = pool.spends[o]
      BY <1>3, <1>5, <2>1 DEF Contested
    <3>3. pool.spends[o] # c
      BY <1>1, <3>2, SpenderHeld DEF Unspoilt
    <3> QED BY <1>2, <1>3, <3>1, <3>2, <3>3 DEF Fits
  <2>2. Before(task'[k]) => Before(task[k])
    BY <1>1, <1>3 DEF Before, Clearing, Removing
  <2>3. Fits(task'[k], pool')
    BY <1>2, <1>3, <1>5, <2>1, <2>2 DEF Fits
  <2>4. \A t : \A o \in Contested(pool', t) :
          o \in Contested(pool, t) /\ pool'.spends[o] = pool.spends[o]
    BY <1>5 DEF Contested
  <2> QED BY <1>3, <1>4, <1>5, <2>3, <2>4, OthersFit
<1>8. HeldExact(task', pool')
  <2>1. \A x : ~Claims(task'[k], x) /\ (Claims(task[k], x) <=> x = c)
    BY <1>1, <1>2, <1>3 DEF Claims
  <2>2. ASSUME NEW j \in Tasks \ {k}, Claims(task[j], c) PROVE FALSE
    <3>1. c \in Works(task[j]) /\ c \in Works(task[k])
      BY <1>1, <1>2, <2>2 DEF Claims, Works
    <3> QED BY <3>1, ApartFacts DEF Unspoilt
  <2>3. Held(task', pool') = Held(task, pool) \ {c} /\ c \in Held(task, pool)
    BY <1>2, <1>3, <1>5, <2>1, <2>2 DEF Held
  <2>4. HeldExact(task, pool)
    BY DEF Unspoilt
  <2>5. \A u \in Held(task, pool) : u # c => Inputs[u] \cap Inputs[c] = {}
    BY <2>3, <2>4 DEF HeldExact
  <2>6. DOMAIN pool'.spends = UNION {Inputs[u] : u \in Held(task', pool')}
    BY <1>5, <2>3, <2>4, <2>5 DEF HeldExact
  <2>7. ASSUME NEW u \in Held(task', pool'), NEW o \in Inputs[u] PROVE pool'.spends[o] = u
    <3>1. u \in Held(task, pool) /\ o \in DOMAIN pool'.spends
      BY <2>3, <2>6, <2>7
    <3> QED BY <1>5, <2>4, <2>7, <3>1 DEF HeldExact
  <2> QED BY <2>6, <2>7 DEF HeldExact
<1>9. \A u \in InPool(pool') : LinksFor(task', pool', u)
  <2>1. \A x : ~Comes(task[k], x) /\ (Leaves(task[k], x) => Leaves(task'[k], x))
    BY <1>1, <1>3 DEF Leaves, Comes
  <2>2. \A u \in InPool(pool) : LinksFor(task, pool, u)
    BY DEF Unspoilt
  <2>3. ASSUME NEW j \in Tasks, NEW x
        PROVE  /\ Leaves(task[j], x) => Leaves(task'[j], x) /\ task'[j].old = task[j].old
               /\ Comes(task[j], x) => Comes(task'[j], x) /\ task'[j].parents = task[j].parents
    <3>1. CASE j = k
      BY <1>3, <2>1, <3>1
    <3>2. CASE j # k
      BY <1>3, <3>2
    <3> QED BY <3>1, <3>2
  <2> QED BY <1>4, <2>2, <2>3, LinksStay
<1>10. /\ Exact(Vsize, pool'.size, InPool(pool'), task')
       /\ Exact(Fee, pool'.fees, InPool(pool'), task')
  <2>1. CallOK(task'[k])
    BY <1>3 DEF MTInv, TasksOK, Free
  <2>2. \A f \in Measures : LoadOf(f, task'[k]) = LoadOf(f, task[k])
    BY <1>1, <1>2, <1>3, <2>1, SameLoad DEF Removing
  <2> QED BY <1>3, <1>4, <1>5, <2>2, TotalsSame
<1>11. EntriesOK(pool')
  BY <1>4 DEF EntriesOK, InPool, Unspoilt
<1> QED BY <1>6, <1>7, <1>8, <1>9, <1>10, <1>11 DEF Unspoilt

\* The relatives forget the victim.
LEMMA RemoveLinksUnspoilt ==
  ASSUME MTInv, MTInv', Unspoilt, NEW k \in Tasks, RemoveLinks(k)
  PROVE  Unspoilt'
<1> DEFINE c == Victim(k)
           old == task[k].old
           told(u, e) ==
             [parents  |-> IF u \in old.children THEN e.parents \ {c} ELSE e.parents,
              children |-> IF u \in old.parents THEN e.children \ {c} ELSE e.children,
              anc  |-> IF u \in old.children THEN Less(e.anc, Own(c)) ELSE e.anc,
              desc |-> IF u \in old.parents THEN Less(e.desc, Own(c)) ELSE e.desc]
<1>1. task[k].at = "unlink" /\ Goto(k, "untotal") /\ TasksOK(task) /\ PoolShape(pool)
  BY DEF RemoveLinks, MTInv
<1>2. /\ CallOK(task[k]) /\ Fits(task[k], pool)
      /\ c \in Txs /\ task[k].gone = {c} /\ c \notin InPool(pool)
  BY <1>1, VictimFacts DEF Removing
<1>3. /\ task'[k].at = "untotal" /\ task'[k].tx = task[k].tx
      /\ task'[k].queue = task[k].queue /\ task'[k].gone = task[k].gone
      /\ task'[k].old = task[k].old /\ task'[k].then = task[k].then
      /\ \A j \in Tasks \ {k} : task'[j] = task[j]
  BY <1>1, <1>2, GotoFields
<1>4. /\ pool'.spends = pool.spends /\ pool'.size = pool.size /\ pool'.fees = pool.fees
      /\ pool'.entries = [u \in InPool(pool) |-> told(u, pool.entries[u])]
  BY <1>1 DEF RemoveLinks, PoolShape, InPool
<1>5. InPool(pool') = InPool(pool)
  BY <1>4 DEF InPool
<1>6. ASSUME NEW u \in InPool(pool)
      PROVE  /\ DOMAIN pool'.entries[u] = {"parents", "children", "anc", "desc"}
             /\ pool'.entries[u].parents =
                  IF u \in old.children THEN pool.entries[u].parents \ {c}
                                        ELSE pool.entries[u].parents
             /\ pool'.entries[u].children =
                  IF u \in old.parents THEN pool.entries[u].children \ {c}
                                       ELSE pool.entries[u].children
  <2> DEFINE d == pool.entries[u]
  <2>1. pool'.entries[u] = told(u, d)
    BY <1>4
  <2>2. /\ DOMAIN told(u, d) = {"parents", "children", "anc", "desc"}
        /\ told(u, d).parents = IF u \in old.children THEN d.parents \ {c} ELSE d.parents
        /\ told(u, d).children = IF u \in old.parents THEN d.children \ {c} ELSE d.children
    <3> HIDE DEF d, old, c
    <3> QED OBVIOUS
  <2> HIDE DEF told, old, c
  <2> QED BY <2>1, <2>2
<1> HIDE DEF c, old, told
<1>7. Apart(task')
  <2>1. Works(task'[k]) \subseteq Works(task[k])
    BY <1>1, <1>3 DEF Works
  <2> QED BY <1>3, <2>1, ApartStays DEF Unspoilt
<1>8. \A j \in Tasks : task'[j].at # "free" => Fits(task'[j], pool')
  <2>1. Clearing(task'[k]) => Clearing(task[k])
    BY <1>1, <1>3 DEF Clearing, Removing
  <2>2. Before(task'[k]) => Before(task[k])
    BY <1>1, <1>3, <2>1 DEF Before
  <2>3. Fits(task'[k], pool')
    BY <1>1, <1>2, <1>3, <1>4, <1>5, <2>1, <2>2 DEF Fits, Contested
  <2>4. ASSUME NEW j \in Tasks \ {k}, task[j].at # "free", NEW p \in InPool(pool),
               task[j].tx \in pool.entries[p].children
        PROVE  task[j].tx \in pool'.entries[p].children
    <3>1. task[j].tx # c
      BY <1>1, <1>2, <2>4, FarFromTx
    <3> QED BY <1>6, <2>4, <3>1
  <2> QED BY <1>3, <1>4, <1>5, <2>3, <2>4, OthersFit DEF Contested
<1>9. HeldExact(task', pool')
  <2>1. \A x : ~Claims(task[k], x) /\ ~Claims(task'[k], x)
    BY <1>1, <1>3 DEF Claims
  <2>2. Held(task', pool') = Held(task, pool)
    BY <1>3, <1>5, <2>1 DEF Held
  <2> QED BY <1>4, <2>2 DEF HeldExact, Unspoilt
<1>10. ASSUME NEW u \in InPool(pool') PROVE LinksFor(task', pool', u)
  <2>1. u \in InPool(pool) /\ u # c /\ LinksFor(task, pool, u)
    BY <1>2, <1>5, <1>10 DEF Unspoilt
  <2>2. \A x : ~Comes(task[k], x) /\ (Leaves(task[k], x) => x = c)
    BY <1>1, <1>2 DEF Leaves, Comes
  <2>3. ASSUME NEW p \in pool'.entries[u].parents
        PROVE  /\ Via(u, p)
               /\ \/ p \in InPool(pool') /\ u \in pool'.entries[p].children
                  \/ \E j \in Tasks : Leaves(task'[j], p) /\ u \in task'[j].old.children
    <3>1. p \in pool.entries[u].parents /\ (u \in old.children => p # c)
      BY <1>6, <2>1, <2>3
    <3>2. Via(u, p)
      BY <2>1, <3>1 DEF LinksFor
    <3>3. CASE p \in InPool(pool) /\ u \in pool.entries[p].children
      BY <1>5, <1>6, <2>1, <3>2, <3>3
    <3>4. ASSUME NEW j \in Tasks, Leaves(task[j], p), u \in task[j].old.children
          PROVE  Leaves(task'[j], p) /\ u \in task'[j].old.children
      BY <1>3, <2>2, <3>1, <3>4 DEF old
    <3> QED BY <2>1, <3>1, <3>2, <3>3, <3>4 DEF LinksFor
  <2>4. ASSUME NEW x \in pool'.entries[u].children
        PROVE  \/ x \in InPool(pool') /\ u \in pool'.entries[x].parents
               \/ \E j \in Tasks : Leaves(task'[j], x) /\ u \in task'[j].old.parents
               \/ \E j \in Tasks : Comes(task'[j], x) /\ u \in task'[j].parents
    <3>1. x \in pool.entries[u].children /\ (u \in old.parents => x # c)
      BY <1>6, <2>1, <2>4
    <3>2. CASE x \in InPool(pool) /\ u \in pool.entries[x].parents
      BY <1>5, <1>6, <2>1, <3>2
    <3>3. ASSUME NEW j \in Tasks, Leaves(task[j], x), u \in task[j].old.parents
          PROVE  Leaves(task'[j], x) /\ u \in task'[j].old.parents
      BY <1>3, <2>2, <3>1, <3>3 DEF old
    <3>4. ASSUME NEW j \in Tasks, Comes(task[j], x), u \in task[j].parents
          PROVE  Comes(task'[j], x) /\ u \in task'[j].parents
      BY <1>3, <2>2, <3>4
    <3> QED BY <2>1, <3>1, <3>2, <3>3, <3>4 DEF LinksFor
  <2> QED BY <2>3, <2>4 DEF LinksFor
<1>11. /\ Exact(Vsize, pool'.size, InPool(pool'), task')
       /\ Exact(Fee, pool'.fees, InPool(pool'), task')
  <2>1. CallOK(task'[k])
    BY <1>3 DEF MTInv, TasksOK, Free
  <2>2. \A f \in Measures : LoadOf(f, task'[k]) = LoadOf(f, task[k])
    BY <1>1, <1>2, <1>3, <2>1, SameLoad DEF Removing
  <2> QED BY <1>3, <1>4, <1>5, <2>2, TotalsSame
<1>12. EntriesOK(pool')
  BY <1>5, <1>6 DEF EntriesOK
<1> QED BY <1>7, <1>8, <1>9, <1>10, <1>11, <1>12 DEF Unspoilt

LEMMA SubtractUnspoilt ==
  ASSUME MTInv, MTInv', Unspoilt, NEW k \in Tasks, SubtractTotals(k)
  PROVE  Unspoilt'
<1> DEFINE c == Victim(k)
           e == [task[k] EXCEPT !.at = "remove", !.gone = {}, !.old = << >>,
                                !.evicted = @ + Vsize[c]]
<1>1. /\ task[k].at = "untotal" /\ task' = [task EXCEPT ![k] = e]
      /\ TasksOK(task) /\ PoolShape(pool)
  BY DEF SubtractTotals, MTInv
<1>2. /\ CallOK(task[k]) /\ Fits(task[k], pool) /\ DOMAIN task[k] = Fields
      /\ c \in Txs /\ task[k].gone = {c}
  BY <1>1, VictimFacts DEF Removing, CallOK
<1>3. /\ pool'.spends = pool.spends /\ pool'.entries = pool.entries
      /\ pool'.size = pool.size - Vsize[c] /\ pool'.fees = pool.fees - Fee[c]
  BY <1>1 DEF SubtractTotals, PoolShape
<1>4. /\ e.at = "remove" /\ e.tx = task[k].tx /\ e.gone = {}
      /\ e.then = task[k].then /\ e.queue = task[k].queue
  BY <1>2 DEF Fields
<1>5. task'[k] = e /\ \A j \in Tasks \ {k} : task'[j] = task[j]
  BY <1>1 DEF TasksOK
<1>6. InPool(pool') = InPool(pool)
  BY <1>3 DEF InPool
<1> HIDE DEF c, e
<1>7. Apart(task')
  <2>1. Works(task'[k]) \subseteq Works(task[k])
    BY <1>1, <1>4, <1>5 DEF Works
  <2> QED BY <1>5, <2>1, ApartStays DEF Unspoilt
<1>8. \A j \in Tasks : task'[j].at # "free" => Fits(task'[j], pool')
  <2>1. Clearing(e) => Clearing(task[k])
    BY <1>1, <1>4 DEF Clearing, Removing
  <2>2. Before(e) => Before(task[k])
    BY <1>1, <1>4, <2>1 DEF Before
  <2>3. Fits(task'[k], pool')
    BY <1>1, <1>2, <1>3, <1>4, <1>5, <1>6, <2>1, <2>2 DEF Fits, Contested
  <2> QED BY <1>3, <1>5, <1>6, <2>3, OthersFit DEF Contested
<1>9. HeldExact(task', pool')
  <2>1. \A x : ~Claims(task[k], x) /\ ~Claims(task'[k], x)
    BY <1>1, <1>4, <1>5 DEF Claims
  <2>2. Held(task', pool') = Held(task, pool)
    BY <1>5, <1>6, <2>1 DEF Held
  <2> QED BY <1>3, <2>2 DEF HeldExact, Unspoilt
<1>10. \A u \in InPool(pool') : LinksFor(task', pool', u)
  <2>1. \A x : ~Leaves(task[k], x) /\ ~Comes(task[k], x)
    BY <1>1 DEF Leaves, Comes
  <2>2. \A u \in InPool(pool) : LinksFor(task, pool, u)
    BY DEF Unspoilt
  <2> QED BY <1>3, <1>5, <2>1, <2>2, LinksStay
<1>11. /\ Exact(Vsize, pool'.size, InPool(pool'), task')
       /\ Exact(Fee, pool'.fees, InPool(pool'), task')
  <2>1. CallOK(task'[k])
    BY <1>4, <1>5 DEF MTInv, TasksOK, Free
  <2>2. Vsize \in Measures /\ Fee \in Measures
    BY TxAssumption DEF Measures
  <2>3. ASSUME NEW f \in Measures
        PROVE  LoadOf(f, task[k]) = f[c] /\ LoadOf(f, task'[k]) = 0 /\ f[c] \in Nat
    BY <1>1, <1>2, <1>4, <1>5, <2>1, LoadByStage DEF Removing, Measures
  <2>4. /\ LoadOf(Vsize, task[k]) = Vsize[c] /\ LoadOf(Vsize, task'[k]) = 0
        /\ LoadOf(Fee, task[k]) = Fee[c] /\ LoadOf(Fee, task'[k]) = 0
        /\ Vsize[c] \in Nat /\ Fee[c] \in Nat
    BY <2>2, <2>3
  <2>5. /\ pool.size \in Int /\ pool.fees \in Int
        /\ SumOf(Vsize, InPool(pool)) \in Nat /\ SumOf(Fee, InPool(pool)) \in Nat
    BY <1>1, TxSums DEF MTInv, Covers, PoolShape
  <2>6. /\ SumOf(Vsize, InPool(pool')) = SumOf(Vsize, InPool(pool))
        /\ SumOf(Fee, InPool(pool')) = SumOf(Fee, InPool(pool))
    BY <1>6, Zenon
  <2>7. /\ pool'.size + SumOf(Vsize, InPool(pool)) + LoadOf(Vsize, task[k])
             = pool.size + SumOf(Vsize, InPool(pool')) + LoadOf(Vsize, task'[k])
        /\ pool'.fees + SumOf(Fee, InPool(pool)) + LoadOf(Fee, task[k])
             = pool.fees + SumOf(Fee, InPool(pool')) + LoadOf(Fee, task'[k])
    BY <1>3, <2>4, <2>5, <2>6
  <2> QED BY <1>5, <2>7, TotalsStay
<1>12. EntriesOK(pool')
  BY <1>3 DEF EntriesOK, InPool, Unspoilt
<1> QED BY <1>7, <1>8, <1>9, <1>10, <1>11, <1>12 DEF Unspoilt

-----------------------------------------------------------------------------
(* Theorems *)

\* raced stays set.
LEMMA RacedStays ==
  ASSUME MTNext, raced PROVE raced'
  BY Zenon DEF MTNext, MTStep, ReceiveTx, NoteRace, Check, FindConflicts, Replace, FindParents,
     InsertSpends, TellParents, AddTotals, InsertEntry, MeasureSize, ListEntries, RemovedAll,
     RemoveEntry, RemoveSpends, RemoveLinks, SubtractTotals

\* As long as no two calls have worked on linked transactions at the same time:
\* at every point between their steps, spends is the index of the entries and
\* of what the calls claim, links that do not lead both ways are about to be
\* mended by the call that made them so, the totals are exact up to what the
\* calls owe, and what a call has found out about its inputs and parents holds.
THEOREM UnlinkedCallsCorrect == MTSpec => []UnspoiltUnlessRaced
<1>1. MTInit => UnspoiltUnlessRaced
  <2> SUFFICES ASSUME MTInit PROVE Unspoilt
    BY DEF UnspoiltUnlessRaced
  <2>1. task = [k \in Tasks |-> Free] /\ pool = NewMempool
    BY DEF MTInit
  <2>2. \A k \in Tasks : task[k] = Free /\ task[k].at = "free"
    BY <2>1 DEF Free
  <2>3. /\ InPool(pool) = {} /\ DOMAIN pool.spends = {}
        /\ pool.size = 0 /\ pool.fees = 0
    BY <2>1 DEF NewMempool, InPool
  <2>4. Apart(task)
    BY <2>2 DEF Apart, Works
  <2>5. HeldExact(task, pool)
    <3>1. \A k \in Tasks : \A c : ~Claims(task[k], c)
      BY <2>2 DEF Claims
    <3>2. Held(task, pool) = {}
      BY <2>3, <3>1 DEF Held
    <3> QED BY <2>3, <3>2 DEF HeldExact
  <2>6. ASSUME NEW f PROVE Exact(f, 0, InPool(pool), task)
    <3> DEFINE g == [k \in Tasks |-> LoadOf(f, task[k])]
    <3>1. \A k \in Tasks : g[k] = 0
      BY <2>2 DEF LoadOf
    <3>2. Load(f, task) = SumOf(g, Tasks)
      BY DEF Load
    <3> HIDE DEF g
    <3>3. Load(f, task) = 0
      BY <3>1, <3>2, TaskAssumption, SumZeros
    <3>4. SumOf(f, InPool(pool)) = 0
      BY <2>3, SumEmpty
    <3> QED BY <3>3, <3>4 DEF Exact
  <2> QED BY <2>2, <2>3, <2>4, <2>5, <2>6 DEF Unspoilt, EntriesOK
<1>2. MTInv /\ UnspoiltUnlessRaced /\ [MTNext]_mtVars => UnspoiltUnlessRaced'
  <2> SUFFICES ASSUME MTInv, UnspoiltUnlessRaced, [MTNext]_mtVars, ~raced' PROVE Unspoilt'
    BY DEF UnspoiltUnlessRaced
  <2>1. MTInv'
    BY StepKeeps
  <2>2. CASE MTNext
    <3>1. Unspoilt
      BY <2>2, RacedStays DEF UnspoiltUnlessRaced
    <3>2. PICK k \in Tasks : (\E t \in Txs : ReceiveTx(k, t)) \/ MTStep(k)
      BY <2>2, Zenon DEF MTNext
    <3>3. CASE \E t \in Txs : ReceiveTx(k, t)
      BY <2>1, <3>1, <3>3, ReceiveUnspoilt
    <3>4. CASE MTStep(k)
      BY <2>1, <3>1, <3>4, CheckUnspoilt, FindConflictsUnspoilt, ReplaceUnspoilt,
         FindParentsUnspoilt, InsertSpendsUnspoilt, TellParentsUnspoilt, AddTotalsUnspoilt,
         InsertEntryUnspoilt, EvictUnspoilt, RemovedAllUnspoilt, RemoveMissUnspoilt,
         RemoveHitUnspoilt, RemoveSpendsUnspoilt, RemoveLinksUnspoilt, SubtractUnspoilt,
         Zenon DEF MTStep
    <3> QED BY <3>2, <3>3, <3>4, Zenon
  <2>3. CASE UNCHANGED mtVars
    BY <2>3, Zenon DEF mtVars, UnspoiltUnlessRaced, Unspoilt
  <2> QED BY <2>2, <2>3
<1> QED BY <1>1, <1>2, TasksCorrect, PTL DEF MTSpec

\* Calls of add_tx may overlap in any way, in any number of tasks, as long as the
\* transactions they work on have nothing to do with each other: when no call
\* is under way, the index of spent outputs, the links and the totals are exact.
THEOREM UnlinkedCallsAlwaysExact == MTSpec => []UnlinkedCallsExact
<1>1. MTInv /\ UnspoiltUnlessRaced => UnlinkedCallsExact
  <2> SUFFICES ASSUME MTInv, Unspoilt, Quiet
               PROVE  /\ SpendsExact /\ LinksSound
                      /\ pool.size = TotalOf(InPool(pool)).size
                      /\ pool.fees = TotalOf(InPool(pool)).fees
    BY DEF UnspoiltUnlessRaced, UnlinkedCallsExact
  <2>1. \A k \in Tasks : task[k].at = "free"
    BY DEF Quiet, Running
  <2>2. \A k \in Tasks : \A c : /\ ~Claims(task[k], c) /\ ~Leaves(task[k], c)
                                /\ ~Comes(task[k], c)
    BY <2>1 DEF Claims, Leaves, Comes
  <2>3. SpendsExact
    <3>1. Held(task, pool) = InPool(pool)
      BY <2>2 DEF Held
    <3> QED BY <3>1 DEF SpendsExact, SpendsExactOf, Unspoilt, HeldExact
  <2>4. LinksSound
    BY <2>2 DEF LinksSound, LinksSoundOf, Unspoilt, LinksFor, Via
  <2>5. ASSUME NEW f PROVE Load(f, task) = 0
    <3> DEFINE g == [k \in Tasks |-> LoadOf(f, task[k])]
    <3>1. \A k \in Tasks : g[k] = 0
      BY <2>1 DEF LoadOf
    <3>2. Load(f, task) = SumOf(g, Tasks)
      BY DEF Load
    <3> HIDE DEF g
    <3> QED BY <3>1, <3>2, TaskAssumption, SumZeros
  <2>6. /\ TotalOf(InPool(pool)).size = SumOf(Vsize, InPool(pool))
        /\ TotalOf(InPool(pool)).fees = SumOf(Fee, InPool(pool))
        /\ SumOf(Vsize, InPool(pool)) \in Nat /\ SumOf(Fee, InPool(pool)) \in Nat
    BY TotalOfFacts, TxSums DEF MTInv, PoolShape
  <2> QED BY <2>3, <2>4, <2>5, <2>6 DEF Unspoilt, Exact
<1> QED BY <1>1, TasksCorrect, UnlinkedCallsCorrect, PTL

-----------------------------------------------------------------------------
(* Calls one after the other *)

Entry == [parents : SUBSET Txs, children : SUBSET Txs, anc : Stats, desc : Stats]
\* The shape of a pool.
IsPool(m) ==
    /\ m \in [entries : [InPool(m) -> Entry], spends : [DOMAIN m.spends -> Txs],
              size : Int, fees : Int]
    /\ InPool(m) \subseteq Txs /\ DOMAIN m.spends \subseteq Outpoints

\* A pool between two calls of Mempool.
Settled(m) == IsPool(m) /\ PoolSound(m) /\ TotalsExactOf(m)

\* The pool without what t replaces, and then with t.
Cleared(m, t) == RemoveAll(m, Conflicts(m, t))
Entered(m, t) == Insert(Cleared(m, t), t)

\* What Check looks at.
Passes(m, t) ==
    /\ t \notin InPool(m) /\ t \in WellFormed
    /\ Vsize[t] <= max_tx_size /\ Rate(t) >= min_relay_fee

\* n is m with as much of t as a call in stage at has put in.
Entering(at, m, t, n) ==
    LET T == Insert(m, t)
    IN /\ IsPool(n)
       /\ InPool(n) = InPool(m)
       /\ \A u \in InPool(m) :
            n.entries[u] = IF at \in {"spend", "tell"} THEN m.entries[u] ELSE T.entries[u]
       /\ n.spends = IF at = "spend" THEN m.spends ELSE T.spends
       /\ n.size = IF at = "enter" THEN T.size ELSE m.size
       /\ n.fees = IF at = "enter" THEN T.fees ELSE m.fees

\* n is m without as much of the victim as the call e has taken out.
Leaving(e, m, n) ==
    LET R == RemoveAll(m, e.gone)
    IN IF e.at = "remove" THEN n = m
       ELSE /\ IsPool(n)
            /\ e.gone \subseteq InPool(m) /\ \A c \in e.gone : e.old = m.entries[c]
            /\ InPool(n) = InPool(R)
            /\ \A u \in InPool(R) :
                 n.entries[u] = IF e.at = "untotal" THEN R.entries[u] ELSE m.entries[u]
            /\ n.spends = IF e.at = "unspend" THEN m.spends ELSE R.spends
            /\ n.size = m.size /\ n.fees = m.fees

\* V is what maybe_evict has removed from m, lowest fee rates first and none
\* when the rest did fit already; the queue has what may follow.
Evicting(e, m, V) ==
    /\ V \in SUBSET InPool(m)
    /\ V \cup e.gone \cup Values(e.queue) = InPool(m)
    /\ e.cur = m.size /\ e.evicted = SumOf(Vsize, V)
    /\ \A i, j \in DOMAIN e.queue : i < j => Rate(e.queue[i]) <= Rate(e.queue[j])
    /\ \A v \in V \cup e.gone : \A w \in Values(e.queue) : Rate(v) <= Rate(w)
    /\ \A v \in V : \A c \in e.gone : Rate(v) <= Rate(c)
    /\ e.gone # {} => m.size - SumOf(Vsize, V) > max_size
    /\ V # {} => \E v \in V : /\ \A w \in V : Rate(w) <= Rate(v)
                              /\ m.size - SumOf(Vsize, V \ {v}) > max_size

InLoop(e) == e.at \in {"remove"} \cup Removing

\* How the pool n has come from the pool m by the steps of the call e so far.
Follows(e, m, n) ==
    LET t == e.tx
    IN /\ e.queue \in Seq(Txs) /\ e.then \in {"parents", "return"}
       /\ ~InLoop(e) => e.then = "parents"
       /\ e.at = "check" => n = m
       /\ e.at = "conflicts" => n = m /\ Passes(m, t)
       /\ e.at = "replace" =>
             /\ n = m /\ Passes(m, t) /\ t \in Signals /\ Contested(m, t) # {}
             /\ e.seen = [o \in Contested(m, t) |-> m.spends[o]]
       /\ e.at \notin {"check", "conflicts", "replace"} => Admissible(m, t)
       /\ InLoop(e) /\ e.then = "parents" =>
             /\ Contested(m, t) # {}
             /\ \E S \in SUBSET Conflicts(m, t) :
                   /\ S \cup e.gone \cup Values(e.queue) = Conflicts(m, t)
                   /\ Leaving(e, RemoveAll(m, S), n)
       /\ e.at = "parents" => n = Cleared(m, t)
       /\ \/ e.at \in {"spend", "tell", "total", "enter", "evict", "list"}
          \/ InLoop(e) /\ e.then = "return"
          => WithinLimits(Cleared(m, t), t)
       /\ e.at \in {"spend", "tell", "total", "enter"} =>
             /\ e.parents = Parents(Cleared(m, t), t)
             /\ e.anc = AncestorStats(Cleared(m, t), t)
             /\ Entering(e.at, Cleared(m, t), t, n)
       /\ e.at \in {"evict", "list"} => n = Entered(m, t)
       /\ e.at = "list" => e.cur = n.size
       /\ InLoop(e) /\ e.then = "return" =>
             \E V : /\ Evicting(e, Entered(m, t), V)
                    /\ Leaving(e, RemoveAll(Entered(m, t), V), n)

AloneOK ==
    /\ \A j, k \in Tasks : Running(j) /\ Running(k) => j = k
    /\ Settled(settled)
    /\ Quiet => pool = settled
    /\ \A k \in Tasks : Running(k) => Follows(task[k], settled, pool)

AloneUnlessOverlap == ~overlap => AloneOK

-----------------------------------------------------------------------------
(* Statistics and pools as values *)

Parts == {"count", "size", "fees"}
Zero == [count |-> 0, size |-> 0, fees |-> 0]

LEMMA StatsAre == Stats = [Parts -> Nat]
<1>1. ASSUME NEW x \in Stats PROVE x \in [Parts -> Nat]
  BY DEF Stats, Parts
<1>2. ASSUME NEW x \in [Parts -> Nat] PROVE x \in Stats
  BY DEF Stats, Parts
<1> QED BY <1>1, <1>2

LEMMA LessFacts ==
  ASSUME NEW a \in Stats, NEW x \in Stats, NEW y \in Stats
  PROVE  /\ Less(a, x) \in Stats /\ Plus(x, y) \in Stats /\ Zero \in Stats
         /\ Less(Less(a, x), y) = Less(a, Plus(x, y)) /\ Less(a, Zero) = a
<1>1. a \in [Parts -> Nat] /\ x \in [Parts -> Nat] /\ y \in [Parts -> Nat]
  BY StatsAre
<1>2. Zero \in [Parts -> Nat] /\ \A k \in Parts : Zero[k] = 0
  BY DEF Zero, Parts
<1>3. /\ Less(a, x) = [k \in Parts |-> IF x[k] > a[k] THEN 0 ELSE a[k] - x[k]]
      /\ Plus(x, y) = [k \in Parts |-> x[k] + y[k]]
      /\ Less(a, Zero) = [k \in Parts |-> IF Zero[k] > a[k] THEN 0 ELSE a[k] - Zero[k]]
  BY <1>1 DEF Less, Plus
<1> HIDE DEF Parts
<1>4. Less(a, x) \in [Parts -> Nat] /\ Plus(x, y) \in [Parts -> Nat]
  BY <1>1, <1>3
<1>5. Less(a, Zero) = a
  <2>1. \A k \in Parts : (IF Zero[k] > a[k] THEN 0 ELSE a[k] - Zero[k]) = a[k]
    BY <1>1, <1>2
  <2> QED BY <1>1, <1>3, <2>1
<1>6. Less(Less(a, x), y) = Less(a, Plus(x, y))
  <2> DEFINE b == Less(a, x)
             z == Plus(x, y)
  <2>1. /\ \A k \in Parts : b[k] = IF x[k] > a[k] THEN 0 ELSE a[k] - x[k]
        /\ \A k \in Parts : z[k] = x[k] + y[k]
    BY <1>3
  <2>2. DOMAIN b = Parts /\ DOMAIN a = Parts
    BY <1>1, <1>4
  <2> HIDE DEF b, z
  <2>3. /\ Less(b, y) = [k \in Parts |-> IF y[k] > b[k] THEN 0 ELSE b[k] - y[k]]
        /\ Less(a, z) = [k \in Parts |-> IF z[k] > a[k] THEN 0 ELSE a[k] - z[k]]
    BY <2>2 DEF Less
  <2>4. ASSUME NEW k \in Parts
        PROVE  (IF y[k] > b[k] THEN 0 ELSE b[k] - y[k])
                 = (IF z[k] > a[k] THEN 0 ELSE a[k] - z[k])
    <3>1. a[k] \in Nat /\ x[k] \in Nat /\ y[k] \in Nat
      BY <1>1
    <3>2. b[k] = (IF x[k] > a[k] THEN 0 ELSE a[k] - x[k]) /\ z[k] = x[k] + y[k]
      BY <2>1
    <3> QED BY <3>1, <3>2
  <2>5. Less(b, y) = Less(a, z)
    BY <2>3, <2>4
  <2> QED BY <2>5 DEF b, z
<1> QED BY <1>2, <1>4, <1>5, <1>6, StatsAre

LEMMA TotalFacts ==
  ASSUME NEW S \in SUBSET Txs
  PROVE  /\ TotalOf(S) \in Stats /\ TotalOf({}) = Zero
         /\ TotalOf(S).size = SumOf(Vsize, S) /\ TotalOf(S).fees = SumOf(Fee, S)
         /\ \A c \in Txs : /\ Own(c) \in Stats /\ TotalOf({c}) = Own(c)
                           /\ c \notin S => TotalOf(S \cup {c}) = Plus(TotalOf(S), Own(c))
<1> DEFINE Tri(U) == [count |-> Cardinality(U), size |-> SumOf(Vsize, U),
                      fees |-> SumOf(Fee, U)]
<1>1. ASSUME NEW U \in SUBSET Txs
      PROVE  /\ TotalOf(U) = Tri(U) /\ IsFiniteSet(U) /\ Cardinality(U) \in Nat
             /\ SumOf(Vsize, U) \in Nat /\ SumOf(Fee, U) \in Nat
  <2>1. /\ IsFiniteSet(U) /\ TotalOf(U).count = Cardinality(U)
        /\ TotalOf(U).size = SumOf(Vsize, U) /\ TotalOf(U).fees = SumOf(Fee, U)
    BY TotalOfFacts, TxSums
  <2>2. /\ Cardinality(U) \in Nat /\ SumOf(Vsize, U) \in Nat /\ SumOf(Fee, U) \in Nat
    BY <2>1, TxSums, FS_CardinalityType
  <2>3. TotalOf(U) = [count |-> TotalOf(U).count, size |-> TotalOf(U).size,
                      fees |-> TotalOf(U).fees]
    BY DEF TotalOf, Total
  <2> QED BY <2>1, <2>2, <2>3
<1>2. /\ TotalOf(S) \in Stats
      /\ TotalOf(S).size = SumOf(Vsize, S) /\ TotalOf(S).fees = SumOf(Fee, S)
  BY <1>1 DEF Stats
<1>3. TotalOf({}) = Zero
  <2>1. TotalOf({}) = Tri({}) /\ Cardinality({}) = 0
    BY <1>1, FS_EmptySet
  <2> QED BY <2>1, SumEmpty DEF Zero
<1>4. ASSUME NEW U \in SUBSET Txs, NEW c \in Txs, c \notin U
      PROVE  /\ Own(c) \in Stats /\ TotalOf(U \cup {c}) = Plus(TotalOf(U), Own(c))
             /\ U = {} => TotalOf(U \cup {c}) = Own(c)
  <2> DEFINE W == U \cup {c}
  <2>0. Vsize[c] \in Nat /\ Fee[c] \in Nat /\ \A x \in W : Vsize[x] \in Nat /\ Fee[x] \in Nat
    BY TxAssumption
  <2>1. TotalOf(U) = Tri(U) /\ TotalOf(W) = Tri(W) /\ IsFiniteSet(U)
    BY <1>1
  <2>2. SumOf(Vsize, W) = SumOf(Vsize, U) + Vsize[c] /\ SumOf(Fee, W) = SumOf(Fee, U) + Fee[c]
    BY <1>4, <2>0, <2>1, SumWith
  <2>3. Cardinality(W) = Cardinality(U) + 1
    BY <1>4, <2>1, FS_AddElement
  <2> HIDE DEF W
  <2>4. Own(c) \in Stats
    BY <2>0 DEF Own, Stats
  <2>5. Plus(Tri(U), Own(c)) = [count |-> Cardinality(U) + 1, size |-> SumOf(Vsize, U) + Vsize[c],
                                fees |-> SumOf(Fee, U) + Fee[c]]
    BY DEF Plus, Own
  <2>6. TotalOf(W) = Plus(TotalOf(U), Own(c))
    BY <2>1, <2>2, <2>3, <2>5
  <2>7. U = {} => TotalOf(W) = Own(c)
    <3> SUFFICES ASSUME U = {} PROVE TotalOf(W) = Own(c)
      OBVIOUS
    <3>1. SumOf(Vsize, U) = 0 /\ SumOf(Fee, U) = 0 /\ Cardinality(U) = 0
      BY SumEmpty, FS_EmptySet
    <3> QED BY <2>0, <2>1, <2>2, <2>3, <3>1 DEF Own
  <2> QED BY <2>4, <2>6, <2>7 DEF W
<1>5. ASSUME NEW c \in Txs
      PROVE  /\ Own(c) \in Stats /\ TotalOf({c}) = Own(c)
             /\ c \notin S => TotalOf(S \cup {c}) = Plus(TotalOf(S), Own(c))
  <2>1. {} \in SUBSET Txs /\ c \notin {} /\ {} \cup {c} = {c}
    OBVIOUS
  <2>2. Own(c) \in Stats /\ TotalOf({} \cup {c}) = Own(c)
    BY <1>4, <2>1
  <2> QED BY <1>4, <2>1, <2>2
<1> QED BY <1>2, <1>3, <1>5

LEMMA SamePool ==
  ASSUME NEW m, NEW n, IsPool(m), IsPool(n), InPool(m) = InPool(n),
         \A u \in InPool(m) : m.entries[u] = n.entries[u],
         m.spends = n.spends, m.size = n.size, m.fees = n.fees
  PROVE  m = n
<1>1. m.entries = n.entries
  BY DEF IsPool
<1>2. /\ m = [entries |-> m.entries, spends |-> m.spends, size |-> m.size, fees |-> m.fees]
      /\ n = [entries |-> n.entries, spends |-> n.spends, size |-> n.size, fees |-> n.fees]
  BY DEF IsPool
<1> QED BY <1>1, <1>2

\* What remove_tx leaves of an entry, with out the transactions removed.
Trimmed(e, out) ==
    [parents |-> e.parents \ out, children |-> e.children \ out,
     anc  |-> Less(e.anc, TotalOf(e.parents \cap out)),
     desc |-> Less(e.desc, TotalOf(e.children \cap out))]

\* r is m without out.
Reduced(m, out, r) ==
    /\ InPool(r) = InPool(m) \ out
    /\ \A u \in InPool(m) \ out : r.entries[u] = Trimmed(m.entries[u], out)
    /\ r.spends = [o \in {o \in DOMAIN m.spends : \A t \in out : o \notin Inputs[t]}
                     |-> m.spends[o]]
    /\ r.size = m.size - TotalOf(out).size /\ r.fees = m.fees - TotalOf(out).fees
    /\ r.entries = [u \in InPool(m) \ out |-> Trimmed(m.entries[u], out)]
    /\ r = [entries |-> r.entries, spends |-> r.spends, size |-> r.size, fees |-> r.fees]

LEMMA RemoveReduces ==
  ASSUME NEW m, NEW S PROVE Reduced(m, S \cap InPool(m), RemoveAll(m, S))
  BY DEF RemoveAll, InPool, Trimmed, Reduced

LEMMA TrimmedFacts ==
  ASSUME NEW e \in Entry, NEW out, NEW c \in Txs
  PROVE  /\ Trimmed(e, out) \in Entry
         /\ Trimmed(e, {}) = e
         /\ c \notin out => Trimmed(Trimmed(e, out), {c}) = Trimmed(e, out \cup {c})
<1>1. /\ e.parents \in SUBSET Txs /\ e.children \in SUBSET Txs
      /\ e.anc \in Stats /\ e.desc \in Stats
      /\ e = [parents |-> e.parents, children |-> e.children, anc |-> e.anc, desc |-> e.desc]
  BY DEF Entry
<1>2. ASSUME NEW S \in SUBSET Txs, NEW a \in Stats
      PROVE  /\ Less(a, TotalOf(S \cap out)) \in Stats
             /\ Less(a, TotalOf(S \cap {})) = a
             /\ c \notin out => Less(Less(a, TotalOf(S \cap out)), TotalOf((S \ out) \cap {c}))
                                  = Less(a, TotalOf(S \cap (out \cup {c})))
  <2> DEFINE T == S \cap out
  <2>1. T \in SUBSET Txs /\ S \cap {} = {}
    OBVIOUS
  <2>2. /\ TotalOf(T) \in Stats /\ TotalOf({}) = Zero
        /\ Own(c) \in Stats /\ TotalOf({c}) = Own(c)
        /\ c \notin T => TotalOf(T \cup {c}) = Plus(TotalOf(T), Own(c))
    BY <2>1, TotalFacts
  <2>3. /\ Less(a, TotalOf(T)) \in Stats /\ Less(a, Zero) = a
        /\ Less(Less(a, TotalOf(T)), Zero) = Less(a, TotalOf(T))
        /\ Less(Less(a, TotalOf(T)), Own(c)) = Less(a, Plus(TotalOf(T), Own(c)))
    <3>1. Less(a, TotalOf(T)) \in Stats /\ Less(a, Zero) = a
          /\ Less(Less(a, TotalOf(T)), Own(c)) = Less(a, Plus(TotalOf(T), Own(c)))
      BY <2>2, LessFacts
    <3> QED BY <2>2, <3>1, LessFacts
  <2>4. ASSUME c \notin out
        PROVE  Less(Less(a, TotalOf(T)), TotalOf((S \ out) \cap {c}))
                 = Less(a, TotalOf(S \cap (out \cup {c})))
    <3>1. CASE c \in S
      <4>1. (S \ out) \cap {c} = {c} /\ S \cap (out \cup {c}) = T \cup {c} /\ c \notin T
        BY <2>4, <3>1
      <4> HIDE DEF T
      <4> QED BY <2>2, <2>3, <4>1
    <3>2. CASE c \notin S
      <4>1. (S \ out) \cap {c} = {} /\ S \cap (out \cup {c}) = T
        BY <3>2
      <4> HIDE DEF T
      <4> QED BY <2>2, <2>3, <4>1
    <3> QED BY <3>1, <3>2
  <2> QED BY <2>1, <2>2, <2>3, <2>4
<1>3. Trimmed(e, out) \in Entry
  BY <1>1, <1>2 DEF Trimmed, Entry
<1>4. Trimmed(e, {}) = e
  <2>1. e.parents \ {} = e.parents /\ e.children \ {} = e.children
    OBVIOUS
  <2>2. /\ Less(e.anc, TotalOf(e.parents \cap {})) = e.anc
        /\ Less(e.desc, TotalOf(e.children \cap {})) = e.desc
    BY <1>1, <1>2
  <2> QED BY <1>1, <2>1, <2>2 DEF Trimmed
<1>5. ASSUME c \notin out
      PROVE  Trimmed(Trimmed(e, out), {c}) = Trimmed(e, out \cup {c})
  <2>1. /\ (e.parents \ out) \ {c} = e.parents \ (out \cup {c})
        /\ (e.children \ out) \ {c} = e.children \ (out \cup {c})
    OBVIOUS
  <2>2. /\ Less(Less(e.anc, TotalOf(e.parents \cap out)), TotalOf((e.parents \ out) \cap {c}))
             = Less(e.anc, TotalOf(e.parents \cap (out \cup {c})))
        /\ Less(Less(e.desc, TotalOf(e.children \cap out)), TotalOf((e.children \ out) \cap {c}))
             = Less(e.desc, TotalOf(e.children \cap (out \cup {c})))
    BY <1>1, <1>2, <1>5
  <2> QED BY <2>1, <2>2 DEF Trimmed
<1> QED BY <1>3, <1>4, <1>5

LEMMA RemoveIsPool ==
  ASSUME NEW m, IsPool(m), NEW S PROVE IsPool(RemoveAll(m, S))
<1> DEFINE r == RemoveAll(m, S)
           out == S \cap InPool(m)
<1>1. /\ InPool(r) = InPool(m) \ out
      /\ \A u \in InPool(m) \ out : r.entries[u] = Trimmed(m.entries[u], out)
      /\ r.spends = [o \in {o \in DOMAIN m.spends : \A t \in out : o \notin Inputs[t]}
                       |-> m.spends[o]]
      /\ r.size = m.size - TotalOf(out).size /\ r.fees = m.fees - TotalOf(out).fees
      /\ r.entries = [u \in InPool(m) \ out |-> Trimmed(m.entries[u], out)]
      /\ r = [entries |-> r.entries, spends |-> r.spends, size |-> r.size, fees |-> r.fees]
  <2>1. Reduced(m, out, r)
    BY RemoveReduces
  <2> HIDE DEF r, out
  <2> QED BY <2>1 DEF Reduced
<1>2. /\ m.entries \in [InPool(m) -> Entry] /\ m.spends \in [DOMAIN m.spends -> Txs]
      /\ m.size \in Int /\ m.fees \in Int
      /\ InPool(m) \subseteq Txs /\ DOMAIN m.spends \subseteq Outpoints
  BY DEF IsPool
<1>3. out \in SUBSET Txs
  BY <1>2
<1>4. TotalOf(out).size \in Nat /\ TotalOf(out).fees \in Nat
  BY <1>3, TotalFacts DEF Stats
<1> HIDE DEF r, out
<1>5. r.entries \in [InPool(r) -> Entry]
  <2>1. \A u \in InPool(m) : Trimmed(m.entries[u], out) \in Entry
    BY <1>2, TrimmedFacts
  <2> QED BY <1>1, <2>1
<1>6. r.spends \in [DOMAIN r.spends -> Txs] /\ DOMAIN r.spends \subseteq Outpoints
  BY <1>1, <1>2
<1>7. r.size \in Int /\ r.fees \in Int
  BY <1>1, <1>2, <1>4
<1>8. r \in [entries : [InPool(r) -> Entry], spends : [DOMAIN r.spends -> Txs],
             size : Int, fees : Int]
  BY <1>1, <1>5, <1>6, <1>7
<1>9. InPool(r) \subseteq Txs
  BY <1>1, <1>2
<1>10. IsPool(r)
  BY <1>6, <1>8, <1>9 DEF IsPool
<1> QED BY <1>10 DEF r

LEMMA RemoveNone ==
  ASSUME NEW m, IsPool(m) PROVE RemoveAll(m, {}) = m
<1> DEFINE r == RemoveAll(m, {})
<1>0. {} \cap InPool(m) = {} /\ InPool(m) \ {} = InPool(m)
  OBVIOUS
<1>1. /\ InPool(r) = InPool(m)
      /\ \A u \in InPool(m) : r.entries[u] = Trimmed(m.entries[u], {})
      /\ r.spends = [o \in {o \in DOMAIN m.spends : \A t \in {} : o \notin Inputs[t]}
                       |-> m.spends[o]]
      /\ r.size = m.size - TotalOf({}).size /\ r.fees = m.fees - TotalOf({}).fees
  <2>1. Reduced(m, {}, r)
    BY <1>0, RemoveReduces, Zenon
  <2> HIDE DEF r
  <2>2. /\ InPool(r) = InPool(m) \ {}
        /\ \A u \in InPool(m) \ {} : r.entries[u] = Trimmed(m.entries[u], {})
        /\ r.spends = [o \in {o \in DOMAIN m.spends : \A t \in {} : o \notin Inputs[t]}
                         |-> m.spends[o]]
        /\ r.size = m.size - TotalOf({}).size /\ r.fees = m.fees - TotalOf({}).fees
    BY <2>1 DEF Reduced
  <2> QED BY <1>0, <2>2
<1>2. /\ m.entries \in [InPool(m) -> Entry] /\ m.spends \in [DOMAIN m.spends -> Txs]
      /\ m.size \in Int /\ m.fees \in Int
  BY DEF IsPool
<1>3. IsPool(r)
  BY RemoveIsPool
<1> HIDE DEF r
<1>4. TotalOf({}).size = 0 /\ TotalOf({}).fees = 0
  BY TotalFacts DEF Zero
<1>5. \A u \in InPool(m) : r.entries[u] = m.entries[u]
  <2> TAKE u \in InPool(m)
  <2>1. m.entries[u] \in Entry /\ u \in Txs
    BY <1>2 DEF IsPool
  <2> QED BY <1>1, <2>1, TrimmedFacts
<1>6. r.spends = m.spends
  <2>1. {o \in DOMAIN m.spends : \A t \in {} : o \notin Inputs[t]} = DOMAIN m.spends
    OBVIOUS
  <2> QED BY <1>1, <1>2, <2>1
<1>7. r.size = m.size /\ r.fees = m.fees
  BY <1>1, <1>2, <1>4
<1>8. r = m
  BY <1>1, <1>3, <1>5, <1>6, <1>7, SamePool
<1> QED BY <1>8 DEF r

\* Removing one after the other.
LEMMA RemoveOneMore ==
  ASSUME NEW m, IsPool(m), NEW S, NEW c \in InPool(m) \ S
  PROVE  RemoveAll(RemoveAll(m, S), {c}) = RemoveAll(m, S \cup {c})
<1> DEFINE r == RemoveAll(m, S)
           q == RemoveAll(r, {c})
           p == RemoveAll(m, S \cup {c})
           out == S \cap InPool(m)
           all == out \cup {c}
<1>1. (S \cup {c}) \cap InPool(m) = all /\ out \in SUBSET Txs /\ c \in Txs /\ c \notin out
  BY DEF IsPool
<1>2. IsPool(r) /\ IsPool(q) /\ IsPool(p)
  <2>1. IsPool(r)
    BY RemoveIsPool
  <2> HIDE DEF r
  <2> QED BY <2>1, RemoveIsPool
<1>3. /\ InPool(r) = InPool(m) \ out
      /\ \A u \in InPool(m) \ out : r.entries[u] = Trimmed(m.entries[u], out)
      /\ r.spends = [o \in {o \in DOMAIN m.spends : \A t \in out : o \notin Inputs[t]}
                       |-> m.spends[o]]
      /\ r.size = m.size - TotalOf(out).size /\ r.fees = m.fees - TotalOf(out).fees
  <2>1. Reduced(m, out, r)
    BY RemoveReduces
  <2> HIDE DEF r, out
  <2> QED BY <2>1 DEF Reduced
<1>4. {c} \cap InPool(r) = {c}
  BY <1>1, <1>3
<1>5. /\ InPool(q) = InPool(r) \ {c}
      /\ \A u \in InPool(r) \ {c} : q.entries[u] = Trimmed(r.entries[u], {c})
      /\ q.spends = [o \in {o \in DOMAIN r.spends : \A t \in {c} : o \notin Inputs[t]}
                       |-> r.spends[o]]
      /\ q.size = r.size - TotalOf({c}).size /\ q.fees = r.fees - TotalOf({c}).fees
  <2>1. Reduced(r, {c}, q)
    <3> HIDE DEF r
    <3> QED BY <1>4, RemoveReduces, Zenon
  <2> HIDE DEF q, r
  <2> QED BY <2>1 DEF Reduced
<1>6. /\ InPool(p) = InPool(m) \ all
      /\ \A u \in InPool(m) \ all : p.entries[u] = Trimmed(m.entries[u], all)
      /\ p.spends = [o \in {o \in DOMAIN m.spends : \A t \in all : o \notin Inputs[t]}
                       |-> m.spends[o]]
      /\ p.size = m.size - TotalOf(all).size /\ p.fees = m.fees - TotalOf(all).fees
  <2> HIDE DEF all
  <2>1. Reduced(m, all, p)
    BY <1>1, RemoveReduces, Zenon
  <2> HIDE DEF p
  <2> QED BY <2>1 DEF Reduced
<1> HIDE DEF r, q, p, out
<1>7. InPool(q) = InPool(p)
  BY <1>3, <1>5, <1>6
<1>8. ASSUME NEW u \in InPool(q) PROVE q.entries[u] = p.entries[u]
  <2>1. u \in InPool(r) \ {c} /\ u \in InPool(m) \ out /\ u \in InPool(m) \ all
    BY <1>3, <1>5
  <2>2. q.entries[u] = Trimmed(Trimmed(m.entries[u], out), {c})
    BY <1>3, <1>5, <2>1
  <2>3. m.entries[u] \in Entry
    BY <2>1 DEF IsPool
  <2> QED BY <1>1, <1>6, <2>1, <2>2, <2>3, TrimmedFacts
<1>9. q.spends = p.spends
  <2>1. /\ DOMAIN r.spends = {o \in DOMAIN m.spends : \A t \in out : o \notin Inputs[t]}
        /\ \A o \in DOMAIN r.spends : r.spends[o] = m.spends[o]
    BY <1>3
  <2>2. {o \in DOMAIN r.spends : \A t \in {c} : o \notin Inputs[t]}
          = {o \in DOMAIN m.spends : \A t \in all : o \notin Inputs[t]}
    BY <2>1
  <2> QED BY <1>5, <1>6, <2>1, <2>2
<1>10. q.size = p.size /\ q.fees = p.fees
  <2>1. /\ TotalOf(out) \in Stats /\ Own(c) \in Stats /\ TotalOf({c}) = Own(c)
        /\ TotalOf(all) = Plus(TotalOf(out), Own(c))
    BY <1>1, TotalFacts
  <2>2. /\ TotalOf(all).size = TotalOf(out).size + Own(c).size
        /\ TotalOf(all).fees = TotalOf(out).fees + Own(c).fees
        /\ TotalOf(out).size \in Nat /\ TotalOf(out).fees \in Nat
        /\ Own(c).size \in Nat /\ Own(c).fees \in Nat
    BY <2>1 DEF Plus, Stats
  <2>3. m.size \in Int /\ m.fees \in Int
    BY DEF IsPool
  <2> QED BY <1>3, <1>5, <1>6, <2>1, <2>2, <2>3
<1>11. q = p
  BY <1>2, <1>7, <1>8, <1>9, <1>10, SamePool
<1> QED BY <1>11 DEF q, p, r

LEMMA RemoveNoMore ==
  ASSUME NEW m, NEW S, NEW c, c \notin InPool(RemoveAll(m, S))
  PROVE  RemoveAll(m, S \cup {c}) = RemoveAll(m, S)
<1>1. c \notin InPool(m) \/ c \in S
  BY RemoveFields
<1>2. (S \cup {c}) \cap InPool(m) = S \cap InPool(m)
  BY <1>1
<1> QED BY <1>2, Zenon DEF RemoveAll

\* r is m with t.
Extended(m, t, r) ==
    LET p == Parents(m, t)
    IN /\ InPool(r) = InPool(m) \cup {t}
       /\ r.entries[t] = [parents |-> p, children |-> {},
                          anc |-> AncestorStats(m, t), desc |-> Own(t)]
       /\ \A u \in InPool(m) : u # t =>
             r.entries[u] = IF u \in p
                THEN [parents |-> m.entries[u].parents, children |-> m.entries[u].children \cup {t},
                      anc |-> m.entries[u].anc, desc |-> Plus(m.entries[u].desc, Own(t))]
                ELSE m.entries[u]
       /\ r.spends = [o \in DOMAIN m.spends \cup Inputs[t] |->
                        IF o \in Inputs[t] THEN t ELSE m.spends[o]]
       /\ r.size = m.size + Vsize[t] /\ r.fees = m.fees + Fee[t]
       /\ r.entries = [u \in InPool(m) \cup {t} |-> r.entries[u]]
       /\ r = [entries |-> r.entries, spends |-> r.spends, size |-> r.size, fees |-> r.fees]

LEMMA InsertExtends ==
  ASSUME NEW m, NEW t PROVE Extended(m, t, Insert(m, t))
  BY DEF Insert, InPool, Extended

LEMMA ParentStats ==
  ASSUME NEW m, IsPool(m), NEW t \in Txs
  PROVE  AncestorStats(m, t) \in Stats /\ Parents(m, t) \subseteq InPool(m)
<1> DEFINE P == Parents(m, t)
           anc == [q \in P |-> m.entries[q].anc]
           T == Total(anc, P)
<1>1. IsFiniteSet(P) /\ P \subseteq InPool(m)
  BY TxAssumption, FS_Subset DEF Parents, IsPool
<1>2. \A x \in P : anc[x] = m.entries[x].anc /\ anc[x] \in Stats
  BY <1>1 DEF IsPool, Entry
<1>3. AncestorStats(m, t) = Plus(Own(t), T)
  BY DEF AncestorStats
<1>4. T = [count |-> SumOf([x \in P |-> anc[x].count], P),
           size |-> SumOf([x \in P |-> anc[x].size], P),
           fees |-> SumOf([x \in P |-> anc[x].fees], P)]
  BY DEF Total
<1> HIDE DEF P, anc, T
<1>5. \A x \in P : anc[x].count \in Nat /\ anc[x].size \in Nat /\ anc[x].fees \in Nat
  BY <1>2 DEF Stats
<1>6. /\ SumOf([x \in P |-> anc[x].count], P) \in Nat
      /\ SumOf([x \in P |-> anc[x].size], P) \in Nat
      /\ SumOf([x \in P |-> anc[x].fees], P) \in Nat
  BY <1>1, <1>5, SumType
<1>7. T \in Stats
  BY <1>4, <1>6 DEF Stats
<1>8. Own(t) \in Stats
  BY TotalFacts
<1>9. Plus(Own(t), T) \in Stats
  BY <1>7, <1>8, LessFacts
<1>10. AncestorStats(m, t) \in Stats
  BY <1>3, <1>9
<1> QED BY <1>1, <1>10 DEF P

LEMMA InsertIsPool ==
  ASSUME NEW m, IsPool(m), NEW t \in Txs, t \notin InPool(m) PROVE IsPool(Insert(m, t))
<1> DEFINE r == Insert(m, t)
           p == Parents(m, t)
<1>1. Extended(m, t, r)
  BY InsertExtends
<1> HIDE DEF r
<1>2. /\ m.entries \in [InPool(m) -> Entry] /\ m.spends \in [DOMAIN m.spends -> Txs]
      /\ m.size \in Int /\ m.fees \in Int
      /\ InPool(m) \subseteq Txs /\ DOMAIN m.spends \subseteq Outpoints
  BY DEF IsPool
<1>3. AncestorStats(m, t) \in Stats /\ Parents(m, t) \subseteq InPool(m) /\ Own(t) \in Stats
  BY ParentStats, TotalFacts
<1>4. r.entries[t] \in Entry
  BY <1>1, <1>2, <1>3 DEF Extended, Entry
<1>5. ASSUME NEW u \in InPool(m) PROVE r.entries[u] \in Entry
  <2>1. m.entries[u] \in Entry /\ u # t
    BY <1>2
  <2>2. Plus(m.entries[u].desc, Own(t)) \in Stats
    BY <1>3, <2>1, LessFacts DEF Entry
  <2>3. CASE u \in p
    <3>1. r.entries[u] =
            [parents |-> m.entries[u].parents, children |-> m.entries[u].children \cup {t},
             anc |-> m.entries[u].anc, desc |-> Plus(m.entries[u].desc, Own(t))]
      BY <1>1, <2>1, <2>3 DEF Extended
    <3> QED BY <2>1, <2>2, <3>1 DEF Entry
  <2>4. CASE u \notin p
    BY <1>1, <2>1, <2>4 DEF Extended
  <2> QED BY <2>3, <2>4
<1>6. InPool(r) = InPool(m) \cup {t} /\ r.entries \in [InPool(r) -> Entry]
  BY <1>1, <1>4, <1>5 DEF Extended
<1>7. r.spends \in [DOMAIN r.spends -> Txs] /\ DOMAIN r.spends \subseteq Outpoints
  <2>1. r.spends = [o \in DOMAIN m.spends \cup Inputs[t] |->
                      IF o \in Inputs[t] THEN t ELSE m.spends[o]]
    BY <1>1 DEF Extended
  <2>2. Inputs[t] \subseteq Outpoints
    BY DEF Outpoints
  <2> QED BY <1>2, <2>1, <2>2
<1>8. r.size \in Int /\ r.fees \in Int
  BY <1>1, <1>2, TxAssumption DEF Extended
<1>9. r = [entries |-> r.entries, spends |-> r.spends, size |-> r.size, fees |-> r.fees]
  BY <1>1 DEF Extended
<1>10. InPool(r) \subseteq Txs
  BY <1>2, <1>6
<1>11. r \in [entries : [InPool(r) -> Entry], spends : [DOMAIN r.spends -> Txs],
              size : Int, fees : Int]
  BY <1>6, <1>7, <1>8, <1>9
<1>12. IsPool(r)
  BY <1>7, <1>10, <1>11 DEF IsPool
<1> QED BY <1>12 DEF r

LEMMA RemoveSettled ==
  ASSUME NEW m, Settled(m), NEW S PROVE Settled(RemoveAll(m, S))
  BY RemoveIsPool, RemoveSound, RemoveTotals DEF Settled

LEMMA EnteredFacts ==
  ASSUME NEW m, Settled(m), NEW t \in Txs, t \notin InPool(m)
  PROVE  /\ Settled(Cleared(m, t)) /\ t \notin InPool(Cleared(m, t))
         /\ Settled(Entered(m, t))
<1> DEFINE c == Cleared(m, t)
<1>1. Settled(c) /\ t \notin InPool(c)
  BY RemoveSettled, RemoveFields DEF Cleared
<1>2. Inputs[t] \cap DOMAIN c.spends = {}
  BY Uncontested DEF Cleared, Settled, PoolSound
<1> HIDE DEF c
<1>3. Settled(Insert(c, t))
  BY <1>1, <1>2, InsertIsPool, InsertSound, InsertTotals DEF Settled
<1> QED BY <1>1, <1>3 DEF c, Entered

-----------------------------------------------------------------------------
(* The steps of a call that runs alone *)

\* What a call of add_tx can make of m: nothing, m with t, or m without what t
\* was to replace.
AddsTo(m, t, n) ==
    /\ Admissible(m, t) /\ WithinLimits(Cleared(m, t), t)
    /\ \E V \in Victims(Entered(m, t)) : n = RemoveAll(Entered(m, t), V)
FailsOn(m, t, n) ==
    /\ Admissible(m, t) /\ Conflicts(m, t) # {}
    /\ ~WithinLimits(Cleared(m, t), t) /\ n = Cleared(m, t)
Called(m, n) == n = m \/ \E t \in Txs : AddsTo(m, t, n) \/ FailsOn(m, t, n)

LEMMA AloneMoves ==
  ASSUME AloneOK, NEW k \in Tasks, Running(k), \A j \in Tasks \ {k} : task'[j] = task[j],
         task'[k].at # "free", settled' = settled, Follows(task'[k], settled, pool')
  PROVE  AloneOK' /\ Called(settled, settled')
<1>1. \A j \in Tasks \ {k} : ~Running(j) /\ task'[j].at = "free"
  BY DEF AloneOK, Running
<1>2. /\ \A j \in Tasks : task'[j].at # "free" => j = k
      /\ ~(\A j \in Tasks : task'[j].at = "free")
  BY <1>1
<1>3. Settled(settled')
  BY DEF AloneOK
<1>4. \A j \in Tasks : task'[j].at # "free" => Follows(task'[j], settled', pool')
  BY <1>2
<1> QED BY <1>2, <1>3, <1>4 DEF AloneOK, Running, Quiet, Called

\* The step that may end a call leaves the pool as it is.
LEMMA AloneNotes ==
  ASSUME TasksOK(task), AloneOK, NEW k \in Tasks, Running(k), pool' = pool, NoteSettled,
         \A j \in Tasks \ {k} : task'[j] = task[j],
         \/ task'[k] = Free /\ Called(settled, pool) /\ Settled(pool)
         \/ task'[k].at # "free" /\ Follows(task'[k], settled, pool)
  PROVE  AloneOK' /\ Called(settled, settled')
<1>1. \A j \in Tasks \ {k} : ~Running(j) /\ task'[j].at = "free"
  BY DEF AloneOK, Running
<1>2. CASE task'[k] = Free /\ Called(settled, pool) /\ Settled(pool)
  <2>1. \A j \in Tasks : task'[j].at = "free"
    BY <1>1, <1>2 DEF Free
  <2>2. settled' = pool
    BY <2>1 DEF NoteSettled
  <2> QED BY <1>2, <2>1, <2>2 DEF AloneOK, Running, Quiet
<1>3. CASE task'[k].at # "free" /\ Follows(task'[k], settled, pool)
  <2>1. settled' = settled
    BY <1>3 DEF NoteSettled
  <2> QED BY <1>3, <2>1, AloneMoves
<1> QED BY <1>2, <1>3

\* The call e goes on as f.
GoesOn(e, f) ==
    /\ f.tx = e.tx /\ f.seen = e.seen /\ f.parents = e.parents /\ f.anc = e.anc
    /\ f.queue = e.queue /\ f.gone = e.gone /\ f.old = e.old /\ f.then = e.then
    /\ f.cur = e.cur /\ f.evicted = e.evicted

LEMMA GotoGoesOn ==
  ASSUME TasksOK(task), NEW k \in Tasks, CallOK(task[k]), NEW at, Goto(k, at)
  PROVE  /\ task'[k].at = at /\ GoesOn(task[k], task'[k])
         /\ \A j \in Tasks \ {k} : task'[j] = task[j]
<1> DEFINE e == [task[k] EXCEPT !.at = at]
<1>1. task'[k] = e /\ \A j \in Tasks \ {k} : task'[j] = task[j]
  BY DEF Goto, TasksOK
<1>2. DOMAIN task[k] = Fields
  BY DEF CallOK
<1>3. e.at = at /\ GoesOn(task[k], e)
  BY <1>2 DEF Fields, GoesOn
<1> QED BY <1>1, <1>3

LEMMA UnderWay ==
  ASSUME MTInv, AloneOK, NEW k \in Tasks, task[k].at \in Stages
  PROVE  /\ TasksOK(task) /\ Running(k) /\ CallOK(task[k]) /\ task[k].tx \in Txs
         /\ DOMAIN task[k] = Fields /\ Settled(settled) /\ IsPool(settled)
         /\ Follows(task[k], settled, pool)
         /\ task[k].at \notin Removing => task[k].gone = {}
<1>1. task[k].at # "free"
  BY DEF Stages
<1>2. TasksOK(task) /\ CallOK(task[k])
  BY <1>1, CallUnderWay DEF MTInv
<1> QED BY <1>1, <1>2 DEF CallOK, AloneOK, Running, Settled

LEMMA ReceiveAlone ==
  ASSUME MTInv, AloneOK, NEW k \in Tasks, NEW t \in Txs, ReceiveTx(k, t), ~overlap'
  PROVE  AloneOK' /\ Called(settled, settled')
<1> DEFINE e == [at |-> "check", tx |-> t, seen |-> << >>, parents |-> {},
                 anc |-> Own(t), queue |-> << >>, gone |-> {}, old |-> << >>,
                 then |-> "parents", cur |-> 0, evicted |-> 0]
<1>1. Quiet /\ pool' = pool /\ settled' = settled /\ task' = [task EXCEPT ![k] = e]
  BY DEF ReceiveTx
<1>2. pool = settled /\ Settled(settled)
  BY <1>1 DEF AloneOK
<1>3. task'[k] = e /\ \A j \in Tasks \ {k} : task'[j] = task[j] /\ task[j].at = "free"
  BY <1>1 DEF MTInv, TasksOK, Quiet, Running
<1>4. /\ e.at = "check" /\ e.then = "parents" /\ e.queue \in Seq(Txs)
  OBVIOUS
<1> HIDE DEF e
<1>5. Follows(e, settled, pool)
  BY <1>2, <1>4 DEF Follows, InLoop, Removing
<1>6. /\ \A j \in Tasks : task'[j].at # "free" => j = k
      /\ ~(\A j \in Tasks : task'[j].at = "free")
  BY <1>3, <1>4
<1>7. \A j \in Tasks : task'[j].at # "free" => Follows(task'[j], settled', pool')
  BY <1>1, <1>3, <1>5, <1>6
<1> QED BY <1>1, <1>2, <1>6, <1>7 DEF AloneOK, Running, Quiet, Called

LEMMA CheckAlone ==
  ASSUME MTInv, AloneOK, NEW k \in Tasks, Check(k)
  PROVE  AloneOK' /\ Called(settled, settled')
<1>1. task[k].at = "check" /\ pool' = pool /\ NoteSettled
  BY DEF Check
<1>2. /\ TasksOK(task) /\ Running(k) /\ CallOK(task[k]) /\ Settled(settled)
      /\ Follows(task[k], settled, pool)
  BY <1>1, UnderWay DEF Stages
<1>3. pool = settled
  BY <1>1, <1>2 DEF Follows
<1>4. CASE Done(k)
  BY <1>1, <1>2, <1>3, <1>4, DoneStage, AloneNotes DEF Called
<1>5. CASE Goto(k, "conflicts") /\ Passes(pool, task[k].tx)
  <2>1. /\ task'[k].at = "conflicts" /\ GoesOn(task[k], task'[k])
        /\ \A j \in Tasks \ {k} : task'[j] = task[j]
    BY <1>2, <1>5, GotoGoesOn
  <2>2. Follows(task'[k], settled, pool)
    BY <1>1, <1>2, <1>3, <1>5, <2>1 DEF Follows, InLoop, Removing, GoesOn
  <2> QED BY <1>1, <1>2, <2>1, <2>2, AloneNotes
<1> QED BY <1>4, <1>5 DEF Check, Passes

LEMMA FindConflictsAlone ==
  ASSUME MTInv, AloneOK, NEW k \in Tasks, FindConflicts(k)
  PROVE  AloneOK' /\ Called(settled, settled')
<1> DEFINE t == task[k].tx
           s == [o \in Contested(pool, t) |-> pool.spends[o]]
<1>1. task[k].at = "conflicts" /\ pool' = pool /\ NoteSettled
  BY DEF FindConflicts
<1>2. /\ TasksOK(task) /\ Running(k) /\ CallOK(task[k]) /\ Settled(settled)
      /\ Follows(task[k], settled, pool) /\ DOMAIN task[k] = Fields /\ IsPool(settled)
  BY <1>1, UnderWay DEF Stages
<1>3. pool = settled /\ Passes(settled, t)
  BY <1>1, <1>2 DEF Follows
<1>4. CASE Done(k)
  BY <1>1, <1>2, <1>3, <1>4, DoneStage, AloneNotes DEF Called
<1>5. CASE Goto(k, "parents") /\ Contested(pool, t) = {}
  <2>1. /\ task'[k].at = "parents" /\ GoesOn(task[k], task'[k])
        /\ \A j \in Tasks \ {k} : task'[j] = task[j]
    BY <1>2, <1>5, GotoGoesOn
  <2>2. Admissible(settled, t)
    BY <1>3, <1>5 DEF Admissible, Passes
  <2>3. Cleared(settled, t) = pool
    <3>1. Conflicts(settled, t) = {}
      BY <1>3, <1>5 DEF Conflicts
    <3> QED BY <1>2, <1>3, <3>1, RemoveNone DEF Cleared
  <2>4. Follows(task'[k], settled, pool)
    BY <1>1, <1>2, <1>3, <2>1, <2>2, <2>3 DEF Follows, InLoop, Removing, GoesOn
  <2> QED BY <1>1, <1>2, <2>1, <2>4, AloneNotes
<1>6. CASE /\ Contested(pool, t) # {} /\ t \in Signals
           /\ task' = [task EXCEPT ![k].at = "replace", ![k].seen = s]
  <2> DEFINE e == [task[k] EXCEPT !.at = "replace", !.seen = s]
  <2>1. task'[k] = e /\ \A j \in Tasks \ {k} : task'[j] = task[j]
    BY <1>2, <1>6 DEF TasksOK
  <2>2. /\ e.at = "replace" /\ e.tx = task[k].tx /\ e.seen = s /\ e.queue = task[k].queue
        /\ e.then = task[k].then
    BY <1>2 DEF Fields
  <2> HIDE DEF e
  <2>3. Follows(e, settled, pool)
    BY <1>1, <1>2, <1>3, <1>6, <2>2 DEF Follows, InLoop, Removing
  <2> QED BY <1>1, <1>2, <2>1, <2>2, <2>3, AloneNotes
<1> QED BY <1>4, <1>5, <1>6 DEF FindConflicts

\* A sum over the contested outputs, as handle_replacement takes it.
CostOf(seen, live) == Total([o \in live |-> Own(seen[o])], live)
MayPay(t, cost) ==
    LET bump == IF Fee[t] > cost.fees THEN Fee[t] - cost.fees ELSE 0
        diff == IF Vsize[t] > cost.size THEN Vsize[t] - cost.size
                                        ELSE cost.size - Vsize[t]
    IN CheckRbf(t, bump, diff)

LEMMA ReplaceAlone ==
  ASSUME MTInv, AloneOK, NEW k \in Tasks, Replace(k)
  PROVE  AloneOK' /\ Called(settled, settled')
<1> DEFINE t == task[k].tx
           m == settled
           C == Contested(m, t)
           seen == task[k].seen
           live == {o \in DOMAIN seen : seen[o] \in InPool(pool)}
<1>1. task[k].at = "replace" /\ pool' = pool /\ NoteSettled
  BY DEF Replace
<1>2. /\ TasksOK(task) /\ Running(k) /\ CallOK(task[k]) /\ Settled(m)
      /\ Follows(task[k], m, pool) /\ DOMAIN task[k] = Fields /\ IsPool(m)
      /\ task[k].gone = {}
  BY <1>1, UnderWay DEF Stages, Removing
<1>3. /\ pool = m /\ Passes(m, t) /\ C # {} /\ seen = [o \in C |-> m.spends[o]]
      /\ task[k].then = "parents"
  BY <1>1, <1>2 DEF Follows, InLoop, Removing
<1>4. DOMAIN seen = C /\ live = C /\ \A o \in C : seen[o] = m.spends[o]
  <2>1. \A o \in C : m.spends[o] \in InPool(m)
    BY <1>2, SpenderInPool DEF Contested, Settled, PoolSound
  <2> QED BY <1>3, <2>1
<1>5. {seen[o] : o \in DOMAIN seen} = Conflicts(m, t) /\ Conflicts(m, t) \in SUBSET Txs
  <2>1. {seen[o] : o \in DOMAIN seen} = Conflicts(m, t)
    BY <1>4 DEF Conflicts
  <2>2. Conflicts(m, t) \subseteq InPool(m)
    BY <1>2, SpenderInPool DEF Conflicts, Contested, Settled, PoolSound
  <2> QED BY <1>2, <2>1, <2>2 DEF IsPool
<1>6. CostOf(seen, live) = CostOf(m.spends, C)
  <2>1. [o \in live |-> Own(seen[o])] = [o \in C |-> Own(m.spends[o])]
    BY <1>4
  <2> QED BY <1>4, <2>1, Zenon DEF CostOf
<1> HIDE DEF live, seen, C
<1>7. CASE Done(k)
  BY <1>1, <1>2, <1>3, <1>7, DoneStage, AloneNotes DEF Called
<1>8. CASE ~Done(k)
  <2>1. /\ \A o \in live : seen[o] \in Signals
        /\ MayPay(t, CostOf(seen, live))
        /\ \E q \in Lists({seen[o] : o \in DOMAIN seen}) :
              task' = [task EXCEPT ![k].at = "remove", ![k].queue = q]
    BY <1>8 DEF Replace, MayPay, CostOf, seen, live
  <2>2. PICK q \in Lists(Conflicts(m, t)) :
              task' = [task EXCEPT ![k].at = "remove", ![k].queue = q]
    BY <1>5, <2>1
  <2>3. Conflicts(m, t) \subseteq Signals
    BY <1>4, <2>1 DEF Conflicts, C
  <2>4. MayReplace(m, t)
    <3>1. MayPay(t, CostOf(m.spends, C))
      BY <1>6, <2>1, Zenon
    <3> QED BY <2>3, <3>1 DEF MayReplace, MayPay, CostOf, C
  <2>5. Admissible(m, t)
    BY <1>3, <2>4 DEF Admissible, Passes
  <2> DEFINE e == [task[k] EXCEPT !.at = "remove", !.queue = q]
  <2>6. task'[k] = e /\ \A j \in Tasks \ {k} : task'[j] = task[j]
    BY <1>2, <2>2 DEF TasksOK
  <2>7. /\ e.at = "remove" /\ e.tx = t /\ e.queue = q /\ e.then = "parents" /\ e.gone = {}
    BY <1>2, <1>3 DEF Fields
  <2>8. q \in Seq(Txs) /\ Values(q) = Conflicts(m, t)
    BY <1>5, ListFacts
  <2> HIDE DEF e
  <2>9. RemoveAll(m, {}) = pool
    BY <1>2, <1>3, RemoveNone
  <2>10. \E S \in SUBSET Conflicts(m, t) :
            /\ S \cup e.gone \cup Values(e.queue) = Conflicts(m, t)
            /\ Leaving(e, RemoveAll(m, S), pool)
    <3>1. {} \cup e.gone \cup Values(e.queue) = Conflicts(m, t)
      BY <2>7, <2>8
    <3>2. Leaving(e, RemoveAll(m, {}), pool)
      BY <2>7, <2>9 DEF Leaving
    <3> QED BY <3>1, <3>2
  <2>11. Follows(e, m, pool)
    BY <1>3, <2>5, <2>7, <2>8, <2>10 DEF Follows, InLoop, Removing, C
  <2> QED BY <1>1, <1>2, <2>6, <2>7, <2>11, AloneNotes
<1> QED BY <1>7, <1>8

LEMMA FindParentsAlone ==
  ASSUME MTInv, AloneOK, NEW k \in Tasks, FindParents(k)
  PROVE  AloneOK' /\ Called(settled, settled')
<1> DEFINE t == task[k].tx
           m == settled
<1>1. task[k].at = "parents" /\ pool' = pool /\ NoteSettled
  BY DEF FindParents
<1>2. /\ TasksOK(task) /\ Running(k) /\ CallOK(task[k]) /\ Settled(m) /\ t \in Txs
      /\ Follows(task[k], m, pool) /\ DOMAIN task[k] = Fields /\ IsPool(m)
  BY <1>1, UnderWay DEF Stages
<1>3. pool = Cleared(m, t) /\ Admissible(m, t)
  BY <1>1, <1>2 DEF Follows
<1>4. Settled(pool) /\ t \notin InPool(m)
  BY <1>2, <1>3, EnteredFacts DEF Admissible
<1>5. CASE Done(k) /\ ~WithinLimits(pool, t)
  <2>1. Called(m, pool)
    <3>1. CASE Conflicts(m, t) = {}
      BY <1>2, <1>3, <3>1, RemoveNone DEF Cleared, Called
    <3>2. CASE Conflicts(m, t) # {}
      <4>1. FailsOn(m, t, pool)
        BY <1>3, <1>5, <3>2 DEF FailsOn
      <4> QED BY <1>2, <4>1 DEF Called
    <3> QED BY <3>1, <3>2
  <2> QED BY <1>1, <1>2, <1>4, <1>5, <2>1, DoneStage, AloneNotes
<1>6. CASE /\ WithinLimits(pool, t)
           /\ task' = [task EXCEPT ![k].at = "spend", ![k].parents = Parents(pool, t),
                                   ![k].anc = AncestorStats(pool, t)]
  <2> DEFINE e == [task[k] EXCEPT !.at = "spend", !.parents = Parents(pool, t),
                                  !.anc = AncestorStats(pool, t)]
  <2>1. task'[k] = e /\ \A j \in Tasks \ {k} : task'[j] = task[j]
    BY <1>2, <1>6 DEF TasksOK
  <2>2. /\ e.at = "spend" /\ e.tx = task[k].tx /\ e.parents = Parents(pool, t)
        /\ e.anc = AncestorStats(pool, t)
        /\ e.queue = task[k].queue /\ e.then = task[k].then
    BY <1>2 DEF Fields
  <2> HIDE DEF e
  <2>3. Entering("spend", pool, t, pool)
    BY <1>4 DEF Entering, Settled
  <2>4. Follows(e, m, pool)
    BY <1>1, <1>2, <1>3, <1>6, <2>2, <2>3 DEF Follows, InLoop, Removing
  <2> QED BY <1>1, <1>2, <2>1, <2>2, <2>4, AloneNotes
<1> QED BY <1>5, <1>6 DEF FindParents

\* The stages in which the call puts its transaction in.
LEMMA EnteringStage ==
  ASSUME MTInv, AloneOK, NEW k \in Tasks,
         task[k].at \in {"spend", "tell", "total", "enter"},
         NEW t, t = task[k].tx, NEW c, c = Cleared(settled, t)
  PROVE  /\ TasksOK(task) /\ Running(k) /\ CallOK(task[k]) /\ t \in Txs
         /\ Follows(task[k], settled, pool)
         /\ Settled(c) /\ t \notin InPool(c) /\ Settled(Insert(c, t))
         /\ Admissible(settled, t) /\ WithinLimits(c, t)
         /\ task[k].parents = Parents(c, t) /\ task[k].anc = AncestorStats(c, t)
         /\ Entering(task[k].at, c, t, pool) /\ Extended(c, t, Insert(c, t))
         /\ InPool(pool) = InPool(c) /\ IsPool(pool)
<1>1. /\ TasksOK(task) /\ Running(k) /\ CallOK(task[k]) /\ Settled(settled)
      /\ t \in Txs /\ Follows(task[k], settled, pool)
  BY UnderWay DEF Stages
<1>2. /\ Admissible(settled, t) /\ WithinLimits(c, t)
      /\ task[k].parents = Parents(c, t) /\ task[k].anc = AncestorStats(c, t)
      /\ Entering(task[k].at, c, t, pool)
  BY <1>1 DEF Follows
<1>3. Settled(c) /\ t \notin InPool(c) /\ Settled(Insert(c, t))
  BY <1>1, <1>2, EnteredFacts DEF Admissible, Entered
<1>4. InPool(pool) = InPool(c) /\ IsPool(pool)
  BY <1>2 DEF Entering
<1> QED BY <1>1, <1>2, <1>3, <1>4, InsertExtends

\* The step to the next of these stages.
LEMMA EnteringMoves ==
  ASSUME MTInv, AloneOK, NEW k \in Tasks, NEW at \in {"tell", "total", "enter"},
         task[k].at \in {"spend", "tell", "total"}, Goto(k, at), settled' = settled,
         Entering(at, Cleared(settled, task[k].tx), task[k].tx, pool')
  PROVE  AloneOK' /\ Called(settled, settled')
<1> DEFINE t == task[k].tx
           c == Cleared(settled, t)
<1>1. /\ TasksOK(task) /\ Running(k) /\ CallOK(task[k])
      /\ Follows(task[k], settled, pool)
      /\ Admissible(settled, t) /\ WithinLimits(c, t)
      /\ task[k].parents = Parents(c, t) /\ task[k].anc = AncestorStats(c, t)
  BY EnteringStage
<1>2. /\ task'[k].at = at /\ GoesOn(task[k], task'[k])
      /\ \A j \in Tasks \ {k} : task'[j] = task[j]
  BY <1>1, GotoGoesOn
<1>3. /\ task'[k].queue \in Seq(Txs) /\ task'[k].then = "parents" /\ task'[k].tx = t
      /\ task'[k].parents = Parents(c, t) /\ task'[k].anc = AncestorStats(c, t)
  BY <1>1, <1>2 DEF Follows, GoesOn, InLoop, Removing
<1>4. Entering(task'[k].at, c, t, pool')
  BY <1>2
<1> HIDE DEF c, t
<1>5. Follows(task'[k], settled, pool')
  BY <1>1, <1>2, <1>3, <1>4 DEF Follows, InLoop, Removing, c, t
<1> QED BY <1>1, <1>2, <1>5, AloneMoves

LEMMA InsertSpendsAlone ==
  ASSUME MTInv, AloneOK, NEW k \in Tasks, InsertSpends(k)
  PROVE  AloneOK' /\ Called(settled, settled')
<1> DEFINE t == task[k].tx
           c == Cleared(settled, t)
           f == [o \in DOMAIN pool.spends \cup Inputs[t] |->
                   IF o \in Inputs[t] THEN t ELSE pool.spends[o]]
<1>1. /\ task[k].at = "spend" /\ Goto(k, "tell") /\ settled' = settled
      /\ pool' = [pool EXCEPT !.spends = f]
  BY DEF InsertSpends
<1>2. /\ t \in Txs /\ Settled(Insert(c, t)) /\ IsPool(pool) /\ InPool(pool) = InPool(c)
      /\ Entering("spend", c, t, pool) /\ Extended(c, t, Insert(c, t))
  BY <1>1, EnteringStage
<1>3. f = Insert(c, t).spends
  BY <1>2 DEF Entering, Extended
<1> HIDE DEF f, c, t
<1>4. /\ pool'.entries = pool.entries /\ pool'.size = pool.size /\ pool'.fees = pool.fees
      /\ pool'.spends = f /\ InPool(pool') = InPool(pool)
      /\ pool' = [entries |-> pool.entries, spends |-> f, size |-> pool.size,
                  fees |-> pool.fees]
  BY <1>1, <1>2 DEF IsPool, InPool
<1>5. IsPool(pool')
  <2>1. f \in [DOMAIN f -> Txs] /\ DOMAIN f \subseteq Outpoints
    BY <1>2, <1>3 DEF Settled, IsPool
  <2> QED BY <1>2, <1>4, <2>1 DEF IsPool
<1>6. Entering("tell", c, t, pool')
  BY <1>2, <1>3, <1>4, <1>5 DEF Entering
<1> QED BY <1>1, <1>6, EnteringMoves DEF c, t

LEMMA EntryTold ==
  ASSUME NEW e \in Entry, NEW ch, NEW d
  PROVE  [e EXCEPT !.children = ch, !.desc = d]
           = [parents |-> e.parents, children |-> ch, anc |-> e.anc, desc |-> d]
<1> DEFINE f == [e EXCEPT !.children = ch, !.desc = d]
           g == [parents |-> e.parents, children |-> ch, anc |-> e.anc, desc |-> d]
<1>1. DOMAIN e = {"parents", "children", "anc", "desc"}
  BY DEF Entry
<1>2. DOMAIN f = {"parents", "children", "anc", "desc"} /\ DOMAIN g = DOMAIN f
  BY <1>1
<1>3. f["parents"] = g["parents"] /\ f["children"] = g["children"] /\ f["anc"] = g["anc"]
      /\ f["desc"] = g["desc"]
  BY <1>1
<1>4. f = [x \in DOMAIN f |-> f[x]] /\ g = [x \in DOMAIN g |-> g[x]]
  BY <1>1
<1> HIDE DEF f, g
<1>5. f = g
  BY <1>2, <1>3, <1>4
<1> QED BY <1>5 DEF f, g

LEMMA TellParentsAlone ==
  ASSUME MTInv, AloneOK, NEW k \in Tasks, TellParents(k)
  PROVE  AloneOK' /\ Called(settled, settled')
<1> DEFINE t == task[k].tx
           c == Cleared(settled, t)
           told(e) == [e EXCEPT !.children = @ \cup {t}, !.desc = Plus(@, Own(t))]
           f == [u \in DOMAIN pool.entries |->
                   IF u \in task[k].parents THEN told(pool.entries[u]) ELSE pool.entries[u]]
<1>1. /\ task[k].at = "tell" /\ Goto(k, "total") /\ settled' = settled
      /\ pool' = [pool EXCEPT !.entries = f]
  BY DEF TellParents
<1>2. /\ t \in Txs /\ Settled(Insert(c, t)) /\ IsPool(pool) /\ InPool(pool) = InPool(c)
      /\ Entering("tell", c, t, pool) /\ Extended(c, t, Insert(c, t))
      /\ task[k].parents = Parents(c, t) /\ t \notin InPool(c)
  BY <1>1, EnteringStage
<1>3. ASSUME NEW u \in InPool(c) PROVE f[u] = Insert(c, t).entries[u]
  <2>1. u \in DOMAIN pool.entries /\ u # t /\ pool.entries[u] = c.entries[u]
    BY <1>2 DEF InPool, Entering
  <2>2. pool.entries[u] \in Entry
    BY <1>2, <2>1 DEF IsPool, InPool
  <2>3. CASE u \in Parents(c, t)
    <3> DEFINE e == pool.entries[u]
    <3>1. Insert(c, t).entries[u] =
            [parents |-> e.parents, children |-> e.children \cup {t},
             anc |-> e.anc, desc |-> Plus(e.desc, Own(t))]
      BY <1>2, <2>1, <2>3 DEF Extended
    <3>2. f[u] = told(e)
      BY <1>2, <2>1, <2>3
    <3> HIDE DEF e
    <3>3. e \in Entry
      BY <2>2 DEF e
    <3>4. told(e) = [parents |-> e.parents, children |-> e.children \cup {t},
                     anc |-> e.anc, desc |-> Plus(e.desc, Own(t))]
      <4> DEFINE d == Plus(e.desc, Own(t))
                 ch == e.children \cup {t}
      <4>1. told(e) = [e EXCEPT !.children = ch, !.desc = d]
        OBVIOUS
      <4> HIDE DEF told, d, ch
      <4>2. [e EXCEPT !.children = ch, !.desc = d]
              = [parents |-> e.parents, children |-> ch, anc |-> e.anc, desc |-> d]
        BY <3>3, EntryTold
      <4> QED BY <4>1, <4>2 DEF d, ch
    <3> QED BY <3>1, <3>2, <3>4
  <2>4. CASE u \notin Parents(c, t)
    <3>1. f[u] = pool.entries[u]
      BY <1>2, <2>1, <2>4
    <3>2. Insert(c, t).entries[u] = c.entries[u]
      BY <1>2, <2>1, <2>4 DEF Extended
    <3> QED BY <2>1, <3>1, <3>2
  <2> QED BY <2>3, <2>4
<1>4. DOMAIN f = InPool(c) /\ f \in [InPool(c) -> Entry]
  <2>1. DOMAIN f = InPool(c)
    BY <1>2 DEF InPool
  <2>2. \A u \in InPool(c) : Insert(c, t).entries[u] \in Entry
    BY <1>2 DEF Settled, IsPool, Extended
  <2>3. \A u \in InPool(c) : f[u] \in Entry
    BY <1>3, <2>2
  <2>4. f = [u \in DOMAIN f |-> f[u]]
    OBVIOUS
  <2> HIDE DEF f
  <2> QED BY <2>1, <2>3, <2>4
<1> HIDE DEF f, c, t
<1>5. /\ pool'.entries = f /\ pool'.size = pool.size /\ pool'.fees = pool.fees
      /\ pool'.spends = pool.spends /\ InPool(pool') = InPool(pool)
      /\ pool' = [entries |-> f, spends |-> pool.spends, size |-> pool.size,
                  fees |-> pool.fees]
  BY <1>1, <1>2, <1>4 DEF IsPool, InPool
<1>6. IsPool(pool')
  BY <1>2, <1>4, <1>5 DEF IsPool
<1>7. Entering("total", c, t, pool')
  BY <1>2, <1>3, <1>5, <1>6 DEF Entering
<1> QED BY <1>1, <1>7, EnteringMoves DEF c, t

LEMMA AddTotalsAlone ==
  ASSUME MTInv, AloneOK, NEW k \in Tasks, AddTotals(k)
  PROVE  AloneOK' /\ Called(settled, settled')
<1> DEFINE t == task[k].tx
           c == Cleared(settled, t)
<1>1. /\ task[k].at = "total" /\ Goto(k, "enter") /\ settled' = settled
      /\ pool' = [pool EXCEPT !.size = @ + Vsize[t], !.fees = @ + Fee[t]]
  BY DEF AddTotals
<1>2. /\ t \in Txs /\ IsPool(pool) /\ InPool(pool) = InPool(c)
      /\ Entering("total", c, t, pool) /\ Extended(c, t, Insert(c, t))
  BY <1>1, EnteringStage
<1> HIDE DEF c, t
<1>3. Vsize[t] \in Nat /\ Fee[t] \in Nat
  BY <1>2, TxAssumption
<1>4. /\ pool'.entries = pool.entries /\ pool'.size = pool.size + Vsize[t]
      /\ pool'.fees = pool.fees + Fee[t]
      /\ pool'.spends = pool.spends /\ InPool(pool') = InPool(pool)
      /\ pool' = [entries |-> pool.entries, spends |-> pool.spends,
                  size |-> pool.size + Vsize[t], fees |-> pool.fees + Fee[t]]
  BY <1>1, <1>2 DEF IsPool, InPool
<1>5. IsPool(pool')
  BY <1>2, <1>3, <1>4 DEF IsPool
<1>6. pool'.size = Insert(c, t).size /\ pool'.fees = Insert(c, t).fees
  BY <1>2, <1>4 DEF Entering, Extended
<1>7. Entering("enter", c, t, pool')
  BY <1>2, <1>4, <1>5, <1>6 DEF Entering
<1> QED BY <1>1, <1>7, EnteringMoves DEF c, t

LEMMA InsertEntryAlone ==
  ASSUME MTInv, AloneOK, NEW k \in Tasks, InsertEntry(k)
  PROVE  AloneOK' /\ Called(settled, settled')
<1> DEFINE t == task[k].tx
           c == Cleared(settled, t)
           T == Insert(c, t)
           f == [u \in DOMAIN pool.entries \cup {t} |->
                   IF u = t THEN [parents |-> task[k].parents, children |-> {},
                                  anc |-> task[k].anc, desc |-> Own(t)]
                   ELSE pool.entries[u]]
<1>1. /\ task[k].at = "enter" /\ Goto(k, "evict") /\ settled' = settled
      /\ pool' = [pool EXCEPT !.entries = f]
  BY DEF InsertEntry
<1>2. /\ t \in Txs /\ Settled(T) /\ IsPool(pool) /\ InPool(pool) = InPool(c)
      /\ Entering("enter", c, t, pool) /\ Extended(c, t, T)
      /\ task[k].parents = Parents(c, t) /\ task[k].anc = AncestorStats(c, t)
      /\ t \notin InPool(c) /\ TasksOK(task) /\ Running(k) /\ CallOK(task[k])
      /\ Follows(task[k], settled, pool) /\ Admissible(settled, t) /\ WithinLimits(c, t)
  BY <1>1, EnteringStage
<1>3. InPool(T) = InPool(c) \cup {t} /\ DOMAIN f = InPool(T)
  BY <1>2 DEF Extended, InPool
<1>4. ASSUME NEW u \in InPool(T) PROVE f[u] = T.entries[u]
  <2>1. CASE u = t
    BY <1>2, <1>3, <2>1 DEF Extended
  <2>2. CASE u # t
    <3>1. f[u] = pool.entries[u] /\ u \in InPool(c)
      BY <1>3, <2>2
    <3> QED BY <1>2, <3>1 DEF Entering
  <2> QED BY <2>1, <2>2
<1>5. f \in [InPool(T) -> Entry]
  <2>1. \A u \in InPool(T) : f[u] \in Entry
    BY <1>2, <1>4 DEF Settled, IsPool
  <2>2. f = [u \in DOMAIN f |-> f[u]]
    OBVIOUS
  <2> HIDE DEF f
  <2> QED BY <1>3, <2>1, <2>2
<1> HIDE DEF f, T, c, t
<1>6. /\ pool'.entries = f /\ pool'.size = pool.size /\ pool'.fees = pool.fees
      /\ pool'.spends = pool.spends /\ InPool(pool') = InPool(T)
      /\ pool' = [entries |-> f, spends |-> pool.spends, size |-> pool.size,
                  fees |-> pool.fees]
  BY <1>1, <1>2, <1>3 DEF IsPool, InPool
<1>7. InPool(T) \subseteq Txs
  BY <1>2 DEF Settled, IsPool
<1>8. IsPool(pool')
  BY <1>2, <1>5, <1>6, <1>7 DEF IsPool
<1>9. pool'.spends = T.spends /\ pool'.size = T.size /\ pool'.fees = T.fees
  BY <1>2, <1>6 DEF Entering, T
<1>10. pool' = T
  BY <1>2, <1>4, <1>6, <1>8, <1>9, SamePool DEF Settled
<1>11. /\ task'[k].at = "evict" /\ GoesOn(task[k], task'[k])
       /\ \A j \in Tasks \ {k} : task'[j] = task[j]
  BY <1>1, <1>2, GotoGoesOn
<1>12. Follows(task'[k], settled, pool')
  BY <1>1, <1>2, <1>10, <1>11 DEF Follows, InLoop, Removing, GoesOn, Entered, T, c, t
<1> QED BY <1>1, <1>2, <1>11, <1>12, AloneMoves

\* The pool with t, when the call is at maybe_evict.
LEMMA EvictStage ==
  ASSUME MTInv, AloneOK, NEW k \in Tasks, NEW t, t = task[k].tx,
         \/ task[k].at \in {"evict", "list"}
         \/ InLoop(task[k]) /\ task[k].then = "return"
  PROVE  /\ TasksOK(task) /\ Running(k) /\ CallOK(task[k]) /\ t \in Txs
         /\ DOMAIN task[k] = Fields /\ Follows(task[k], settled, pool)
         /\ Admissible(settled, t) /\ WithinLimits(Cleared(settled, t), t)
         /\ Settled(Entered(settled, t)) /\ IsPool(Entered(settled, t))
         /\ task[k].at \notin Removing => task[k].gone = {}
<1>1. /\ TasksOK(task) /\ Running(k) /\ CallOK(task[k]) /\ Settled(settled)
      /\ t \in Txs /\ Follows(task[k], settled, pool) /\ DOMAIN task[k] = Fields
      /\ task[k].at \notin Removing => task[k].gone = {}
  BY UnderWay DEF Stages, InLoop, Removing
<1>2. Admissible(settled, t) /\ WithinLimits(Cleared(settled, t), t)
  BY <1>1 DEF Follows, InLoop, Removing
<1>3. Settled(Entered(settled, t))
  BY <1>1, <1>2, EnteredFacts DEF Admissible
<1> QED BY <1>1, <1>2, <1>3 DEF Settled

LEMMA MeasureAlone ==
  ASSUME MTInv, AloneOK, NEW k \in Tasks, MeasureSize(k)
  PROVE  AloneOK' /\ Called(settled, settled')
<1> DEFINE t == task[k].tx
           T == Entered(settled, t)
<1>1. task[k].at = "evict" /\ pool' = pool /\ NoteSettled
  BY DEF MeasureSize
<1>2. /\ TasksOK(task) /\ Running(k) /\ CallOK(task[k]) /\ t \in Txs
      /\ DOMAIN task[k] = Fields /\ Follows(task[k], settled, pool)
      /\ Admissible(settled, t) /\ WithinLimits(Cleared(settled, t), t)
      /\ Settled(T) /\ IsPool(T)
  BY <1>1, EvictStage
<1>3. pool = T
  BY <1>1, <1>2 DEF Follows
<1>4. CASE Done(k) /\ pool.size <= max_size
  <2>1. {} \in Victims(T) /\ RemoveAll(T, {}) = T
    <3>1. T.size - TotalOf({}).size <= max_size
      <4>1. TotalOf({}).size = 0 /\ T.size \in Int
        BY <1>2, TotalFacts DEF Zero, IsPool
      <4> QED BY <1>3, <1>4, <4>1, PolicyAssumption
    <3>2. RemoveAll(T, {}) = T
      BY <1>2, RemoveNone
    <3> HIDE DEF T
    <3> QED BY <3>1, <3>2 DEF Victims
  <2>2. AddsTo(settled, t, pool)
    BY <1>2, <1>3, <2>1 DEF AddsTo
  <2>3. Called(settled, pool) /\ Settled(pool)
    BY <1>2, <1>3, <2>2 DEF Called
  <2> QED BY <1>1, <1>2, <1>4, <2>3, DoneStage, AloneNotes
<1>5. CASE task' = [task EXCEPT ![k].at = "list", ![k].cur = pool.size]
  <2> DEFINE e == [task[k] EXCEPT !.at = "list", !.cur = pool.size]
  <2>1. task'[k] = e /\ \A j \in Tasks \ {k} : task'[j] = task[j]
    BY <1>2, <1>5 DEF TasksOK
  <2>2. /\ e.at = "list" /\ e.tx = task[k].tx /\ e.cur = pool.size
        /\ e.queue = task[k].queue /\ e.then = task[k].then
    BY <1>2 DEF Fields
  <2> HIDE DEF e
  <2>3. Follows(e, settled, pool)
    BY <1>1, <1>2, <1>3, <2>2 DEF Follows, InLoop, Removing
  <2> QED BY <1>1, <1>2, <2>1, <2>2, <2>3, AloneNotes
<1> QED BY <1>4, <1>5 DEF MeasureSize

LEMMA ListAlone ==
  ASSUME MTInv, AloneOK, NEW k \in Tasks, ListEntries(k)
  PROVE  AloneOK' /\ Called(settled, settled')
<1> DEFINE t == task[k].tx
           T == Entered(settled, t)
<1>1. task[k].at = "list" /\ pool' = pool /\ settled' = settled
  BY DEF ListEntries
<1>2. /\ TasksOK(task) /\ Running(k) /\ CallOK(task[k]) /\ t \in Txs
      /\ DOMAIN task[k] = Fields /\ Follows(task[k], settled, pool)
      /\ Admissible(settled, t) /\ WithinLimits(Cleared(settled, t), t)
      /\ Settled(T) /\ IsPool(T) /\ task[k].gone = {}
  BY <1>1, EvictStage DEF Removing
<1>3. pool = T /\ task[k].cur = T.size
  BY <1>1, <1>2 DEF Follows
<1>4. PICK q \in Lists(InPool(T)) :
        /\ \A i, j \in DOMAIN q : i < j => Rate(q[i]) <= Rate(q[j])
        /\ task' = [task EXCEPT ![k].at = "remove", ![k].queue = q,
                                ![k].then = "return", ![k].evicted = 0]
  BY <1>3 DEF ListEntries
<1> DEFINE e == [task[k] EXCEPT !.at = "remove", !.queue = q, !.then = "return",
                                !.evicted = 0]
<1>5. task'[k] = e /\ \A j \in Tasks \ {k} : task'[j] = task[j]
  BY <1>2, <1>4 DEF TasksOK
<1>6. /\ e.at = "remove" /\ e.tx = task[k].tx /\ e.cur = T.size /\ e.queue = q
      /\ e.then = "return" /\ e.evicted = 0 /\ e.gone = {}
  BY <1>2, <1>3 DEF Fields
<1>7. q \in Seq(Txs) /\ Values(q) = InPool(T)
  <2>1. InPool(T) \in SUBSET Txs
    BY <1>2 DEF IsPool
  <2> QED BY <2>1, ListFacts
<1>8. RemoveAll(T, {}) = T
  BY <1>2, RemoveNone
<1> HIDE DEF e, T
<1>9. Evicting(e, T, {})
  BY <1>4, <1>6, <1>7, SumEmpty DEF Evicting
<1>10. Leaving(e, RemoveAll(T, {}), pool)
  BY <1>3, <1>6, <1>8 DEF Leaving
<1>11. Follows(e, settled, pool')
  BY <1>1, <1>2, <1>6, <1>7, <1>9, <1>10 DEF Follows, InLoop, Removing, T
<1> QED BY <1>1, <1>2, <1>5, <1>6, <1>11, AloneMoves

\* The next transaction of a queue, and those after it.
LEMMA QueueNext ==
  ASSUME NEW q \in Seq(Txs), q # << >>
  PROVE  /\ Head(q) \in Txs /\ Tail(q) \in Seq(Txs)
         /\ Values(q) = {Head(q)} \cup Values(Tail(q))
         /\ (\A i, j \in DOMAIN q : i < j => Rate(q[i]) <= Rate(q[j])) =>
               /\ \A i, j \in DOMAIN Tail(q) : i < j => Rate(Tail(q)[i]) <= Rate(Tail(q)[j])
               /\ \A w \in Values(Tail(q)) : Rate(Head(q)) <= Rate(w)
<1>1. /\ Len(q) \in Nat /\ Len(q) # 0 /\ DOMAIN q = 1..Len(q)
      /\ Len(Tail(q)) = Len(q) - 1 /\ Head(q) = q[1]
      /\ \A i \in 1..(Len(q) - 1) : Tail(q)[i] = q[i + 1]
  OBVIOUS
<1>2. /\ Head(q) \in Txs /\ Tail(q) \in Seq(Txs)
      /\ \A x \in Values(q) : x = Head(q) \/ x \in Values(Tail(q))
  BY QueueStep
<1> DEFINE r == Tail(q)
           n == Len(q)
<1>3. DOMAIN r = 1..(n - 1)
  BY <1>1, <1>2
<1>4. /\ 1 \in DOMAIN q /\ n \in Nat /\ DOMAIN q = 1..n
      /\ \A i \in 1..(n - 1) : r[i] = q[i + 1]
  BY <1>1
<1>5. Head(q) = q[1]
  BY <1>1
<1> HIDE DEF r, n
<1>6. \A i \in DOMAIN r : i + 1 \in DOMAIN q /\ r[i] = q[i + 1] /\ 1 < i + 1 /\ i \in Int
  BY <1>3, <1>4
<1>7. Values(q) = {Head(q)} \cup Values(r)
  <2>1. Head(q) \in Values(q) /\ \A i \in DOMAIN r : r[i] \in Values(q)
    BY <1>4, <1>5, <1>6 DEF Values
  <2>2. \A x \in Values(r) : x \in Values(q)
    BY <2>1 DEF Values
  <2> QED BY <1>2, <2>1, <2>2 DEF r
<1>8. ASSUME \A i, j \in DOMAIN q : i < j => Rate(q[i]) <= Rate(q[j])
      PROVE  /\ \A i, j \in DOMAIN r : i < j => Rate(r[i]) <= Rate(r[j])
             /\ \A w \in Values(r) : Rate(Head(q)) <= Rate(w)
  <2>1. ASSUME NEW i \in DOMAIN r, NEW j \in DOMAIN r, i < j
        PROVE  Rate(r[i]) <= Rate(r[j])
    <3>1. i + 1 < j + 1
      BY <1>6, <2>1
    <3> QED BY <1>6, <1>8, <3>1
  <2>2. \A i \in DOMAIN r : Rate(q[1]) <= Rate(r[i])
    BY <1>4, <1>6, <1>8
  <2> QED BY <1>5, <2>1, <2>2 DEF Values
<1> QED BY <1>2, <1>7, <1>8 DEF r

LEMMA NoValues == Values(<< >>) = {}
  BY DEF Values

LEMMA ConflictsIn ==
  ASSUME NEW m, Settled(m), NEW t PROVE Conflicts(m, t) \subseteq InPool(m)
  BY SpenderInPool DEF Conflicts, Contested, Settled, PoolSound

\* The rest of the pool fits when the loop of maybe_evict ends, and has not
\* done so before the last victim.
LEMMA EvictEnds ==
  ASSUME NEW m, Settled(m), NEW e, NEW V, Evicting(e, m, V), e.gone = {},
         e.queue = << >> \/ e.cur - e.evicted <= max_size
  PROVE  V \in Victims(m)
<1>1. /\ V \in SUBSET InPool(m) /\ V \cup Values(e.queue) = InPool(m)
      /\ e.cur = m.size /\ e.evicted = SumOf(Vsize, V)
      /\ \A v \in V : \A w \in Values(e.queue) : Rate(v) <= Rate(w)
      /\ V # {} => \E v \in V : /\ \A w \in V : Rate(w) <= Rate(v)
                                /\ m.size - SumOf(Vsize, V \ {v}) > max_size
  BY DEF Evicting
<1>2. \A U \in SUBSET InPool(m) : TotalOf(U).size = SumOf(Vsize, U) /\ SumOf(Vsize, U) \in Nat
  BY TotalFacts, TxSums DEF Settled, IsPool
<1>3. m.size = SumOf(Vsize, InPool(m))
  BY <1>2 DEF Settled, TotalsExactOf
<1>4. m.size - TotalOf(V).size <= max_size
  <2>1. CASE e.queue = << >>
    <3>1. V = InPool(m)
      BY <1>1, <2>1, NoValues
    <3>2. m.size = TotalOf(V).size /\ m.size \in Nat
      BY <1>2, <1>3, <3>1
    <3> QED BY <3>2, PolicyAssumption
  <2>2. CASE e.cur - e.evicted <= max_size
    BY <1>1, <1>2, <2>2
  <2> QED BY <2>1, <2>2
<1>5. \A v \in V, w \in InPool(m) \ V : Rate(v) <= Rate(w)
  BY <1>1
<1>6. V # {} => \E v \in V : /\ \A w \in V : Rate(w) <= Rate(v)
                             /\ m.size - TotalOf(V \ {v}).size > max_size
  <2>1. \A v \in V : TotalOf(V \ {v}).size = SumOf(Vsize, V \ {v})
    BY <1>1, <1>2
  <2> QED BY <1>1, <2>1
<1> QED BY <1>1, <1>4, <1>5, <1>6 DEF Victims

LEMMA RemovedAllAlone ==
  ASSUME MTInv, AloneOK, NEW k \in Tasks, RemovedAll(k)
  PROVE  AloneOK' /\ Called(settled, settled')
<1> DEFINE t == task[k].tx
           m == settled
           e == task[k]
<1>1. e.at = "remove" /\ Enough(k) /\ pool' = pool /\ NoteSettled
  BY DEF RemovedAll
<1>2. /\ TasksOK(task) /\ Running(k) /\ CallOK(task[k]) /\ Settled(m) /\ t \in Txs
      /\ Follows(task[k], m, pool) /\ e.gone = {}
      /\ e.then \in {"parents", "return"} /\ InLoop(e)
  <2>1. /\ TasksOK(task) /\ Running(k) /\ CallOK(task[k]) /\ Settled(m) /\ t \in Txs
        /\ Follows(task[k], m, pool) /\ e.gone = {}
    BY <1>1, UnderWay DEF Stages, Removing
  <2> QED BY <1>1, <2>1 DEF Follows, InLoop
<1>3. CASE e.then = "parents"
  <2>1. e.queue = << >> /\ Goto(k, "parents")
    BY <1>1, <1>3 DEF Enough, RemovedAll
  <2>2. PICK S \in SUBSET Conflicts(m, t) :
              /\ S \cup e.gone \cup Values(e.queue) = Conflicts(m, t)
              /\ Leaving(e, RemoveAll(m, S), pool)
    BY <1>2, <1>3 DEF Follows
  <2>3. S = Conflicts(m, t)
    BY <1>2, <2>1, <2>2, NoValues
  <2>4. pool = Cleared(m, t)
    BY <1>1, <2>2, <2>3 DEF Leaving, Cleared
  <2>5. /\ task'[k].at = "parents" /\ GoesOn(e, task'[k])
        /\ \A j \in Tasks \ {k} : task'[j] = task[j]
    BY <1>2, <2>1, GotoGoesOn
  <2>6. Follows(task'[k], m, pool)
    BY <1>1, <1>2, <1>3, <2>4, <2>5 DEF Follows, InLoop, Removing, GoesOn
  <2> QED BY <1>1, <1>2, <2>5, <2>6, AloneNotes
<1>4. CASE e.then = "return"
  <2> DEFINE T == Entered(m, t)
  <2>1. Done(k)
    BY <1>1, <1>4 DEF RemovedAll
  <2>2. /\ Admissible(m, t) /\ WithinLimits(Cleared(m, t), t) /\ Settled(T)
    BY <1>2, <1>4, EvictStage
  <2>3. PICK V : Evicting(e, T, V) /\ Leaving(e, RemoveAll(T, V), pool)
    BY <1>2, <1>4 DEF Follows
  <2>4. e.queue = << >> \/ e.cur - e.evicted <= max_size
    BY <1>1, <1>4 DEF Enough
  <2>5. V \in Victims(T)
    BY <1>2, <2>2, <2>3, <2>4, EvictEnds
  <2>6. pool = RemoveAll(T, V)
    BY <1>1, <2>3 DEF Leaving
  <2>7. Settled(pool)
    BY <2>2, <2>6, RemoveSettled
  <2>8. AddsTo(m, t, pool)
    BY <2>2, <2>5, <2>6 DEF AddsTo
  <2> QED BY <1>1, <1>2, <2>1, <2>7, <2>8, DoneStage, AloneNotes DEF Called
<1> QED BY <1>2, <1>3, <1>4

\* S is what the loop of the call e has removed so far from the pool B, which
\* is m in handle_replacement and m with the new entry in maybe_evict.
Removed(e, m, B, S) ==
    IF e.then = "parents"
    THEN /\ B = m /\ S \in SUBSET Conflicts(m, e.tx) /\ Contested(m, e.tx) # {}
         /\ S \cup e.gone \cup Values(e.queue) = Conflicts(m, e.tx)
    ELSE B = Entered(m, e.tx) /\ Evicting(e, B, S)

\* The loop has come to a pool without S, and with as much of the next victim
\* as is left.
LEMMA LoopStage ==
  ASSUME MTInv, AloneOK, NEW k \in Tasks, InLoop(task[k])
  PROVE  /\ TasksOK(task) /\ Running(k) /\ CallOK(task[k]) /\ DOMAIN task[k] = Fields
         /\ task[k].queue \in Seq(Txs)
         /\ task[k].at = "remove" => task[k].gone = {}
         /\ \E B, S : /\ Removed(task[k], settled, B, S)
                      /\ Settled(B) /\ IsPool(B) /\ S \subseteq InPool(B)
                      /\ Settled(RemoveAll(B, S)) /\ IsPool(RemoveAll(B, S))
                      /\ InPool(RemoveAll(B, S)) = InPool(B) \ S
                      /\ S \cup task[k].gone \cup Values(task[k].queue) \subseteq InPool(B)
                      /\ Leaving(task[k], RemoveAll(B, S), pool)
<1> DEFINE t == task[k].tx
           m == settled
           e == task[k]
<1>1. /\ TasksOK(task) /\ Running(k) /\ CallOK(task[k]) /\ Settled(m) /\ t \in Txs
      /\ DOMAIN task[k] = Fields /\ Follows(task[k], m, pool)
      /\ e.at = "remove" => e.gone = {}
  BY UnderWay DEF Stages, InLoop, Removing
<1>2. e.queue \in Seq(Txs) /\ e.then \in {"parents", "return"}
  BY <1>1 DEF Follows
<1>3. ASSUME NEW B, Settled(B), NEW S, Removed(e, m, B, S), S \subseteq InPool(B),
             S \cup e.gone \cup Values(e.queue) \subseteq InPool(B),
             Leaving(e, RemoveAll(B, S), pool)
      PROVE  \E A, U : /\ Removed(e, m, A, U)
                       /\ Settled(A) /\ IsPool(A) /\ U \subseteq InPool(A)
                       /\ Settled(RemoveAll(A, U)) /\ IsPool(RemoveAll(A, U))
                       /\ InPool(RemoveAll(A, U)) = InPool(A) \ U
                       /\ U \cup e.gone \cup Values(e.queue) \subseteq InPool(A)
                       /\ Leaving(e, RemoveAll(A, U), pool)
  <2>1. Settled(RemoveAll(B, S)) /\ InPool(RemoveAll(B, S)) = InPool(B) \ S
    BY <1>3, RemoveSettled, RemoveFields
  <2>2. IsPool(B) /\ IsPool(RemoveAll(B, S))
    BY <1>3, <2>1 DEF Settled
  <2> QED BY <1>3, <2>1, <2>2
<1>4. CASE e.then = "parents"
  <2>1. /\ Contested(m, t) # {}
        /\ \E S \in SUBSET Conflicts(m, t) :
              /\ S \cup e.gone \cup Values(e.queue) = Conflicts(m, t)
              /\ Leaving(e, RemoveAll(m, S), pool)
    BY <1>1, <1>4 DEF Follows
  <2>2. PICK S \in SUBSET Conflicts(m, t) :
              /\ S \cup e.gone \cup Values(e.queue) = Conflicts(m, t)
              /\ Leaving(e, RemoveAll(m, S), pool)
    BY <2>1
  <2>3. Conflicts(m, t) \subseteq InPool(m)
    BY <1>1, ConflictsIn
  <2>4. Removed(e, m, m, S)
    BY <1>4, <2>1, <2>2 DEF Removed
  <2> QED BY <1>1, <1>2, <1>3, <2>2, <2>3, <2>4
<1>5. CASE e.then = "return"
  <2>1. PICK V : /\ Evicting(e, Entered(m, t), V)
                 /\ Leaving(e, RemoveAll(Entered(m, t), V), pool)
    BY <1>1, <1>5 DEF Follows
  <2>2. Settled(Entered(m, t))
    BY <1>5, EvictStage
  <2>3. Removed(e, m, Entered(m, t), V)
    BY <1>5, <2>1 DEF Removed
  <2>4. /\ V \subseteq InPool(Entered(m, t))
        /\ V \cup e.gone \cup Values(e.queue) \subseteq InPool(Entered(m, t))
    BY <2>1 DEF Evicting
  <2> QED BY <1>1, <1>2, <1>3, <2>1, <2>2, <2>3, <2>4
<1> QED BY <1>2, <1>4, <1>5

LEMMA LoopMoves ==
  ASSUME MTInv, AloneOK, NEW k \in Tasks, InLoop(task[k]), settled' = settled,
         \A j \in Tasks \ {k} : task'[j] = task[j], InLoop(task'[k]),
         task'[k].tx = task[k].tx, task'[k].then = task[k].then,
         task'[k].queue \in Seq(Txs), NEW B, NEW S, Removed(task'[k], settled, B, S),
         Leaving(task'[k], RemoveAll(B, S), pool')
  PROVE  AloneOK' /\ Called(settled, settled')
<1> DEFINE t == task[k].tx
           m == settled
           e == task[k]
           f == task'[k]
<1>1. Running(k) /\ Follows(e, m, pool)
  BY UnderWay DEF Stages, InLoop, Removing
<1>2. /\ e.then \in {"parents", "return"} /\ Admissible(m, t)
      /\ e.then = "return" => WithinLimits(Cleared(m, t), t)
  BY <1>1 DEF Follows, InLoop, Removing
<1>3. f.at \in {"remove"} \cup Removing /\ f.at # "free"
  BY DEF InLoop, Removing
<1>4. f.then = "parents" =>
             /\ Contested(m, t) # {}
             /\ \E U \in SUBSET Conflicts(m, t) :
                   /\ U \cup f.gone \cup Values(f.queue) = Conflicts(m, t)
                   /\ Leaving(f, RemoveAll(m, U), pool')
  BY DEF Removed
<1>5. f.then = "return" => \E V : /\ Evicting(f, Entered(m, t), V)
                                  /\ Leaving(f, RemoveAll(Entered(m, t), V), pool')
  BY DEF Removed
<1>6. f.tx = t /\ f.then = e.then /\ f.queue \in Seq(Txs) /\ InLoop(f)
  OBVIOUS
<1> HIDE DEF f, e, t
<1>7. Follows(f, m, pool')
  BY <1>2, <1>3, <1>4, <1>5, <1>6 DEF Follows, InLoop, Removing
<1> QED BY <1>1, <1>3, <1>7, AloneMoves DEF f

LEMMA RemoveMissAlone ==
  ASSUME MTInv, AloneOK, NEW k \in Tasks, RemoveEntry(k),
         Head(task[k].queue) \notin InPool(pool)
  PROVE  AloneOK' /\ Called(settled, settled')
<1> DEFINE e == task[k]
           c == Head(e.queue)
           f == [e EXCEPT !.queue = Tail(e.queue)]
<1>1. /\ e.at = "remove" /\ ~Enough(k) /\ settled' = settled /\ pool' = pool
      /\ task' = [task EXCEPT ![k].queue = Tail(e.queue)]
  BY DEF RemoveEntry
<1>2. InLoop(e) /\ e.queue # << >>
  BY <1>1 DEF InLoop, Enough
<1>3. /\ TasksOK(task) /\ DOMAIN e = Fields /\ e.queue \in Seq(Txs) /\ e.gone = {}
  BY <1>1, <1>2, LoopStage
<1>4. PICK B, S : /\ Removed(e, settled, B, S) /\ InPool(RemoveAll(B, S)) = InPool(B) \ S
                  /\ S \cup e.gone \cup Values(e.queue) \subseteq InPool(B)
                  /\ Leaving(e, RemoveAll(B, S), pool)
  BY <1>2, LoopStage
<1>5. task'[k] = f /\ \A j \in Tasks \ {k} : task'[j] = task[j]
  BY <1>1, <1>3 DEF TasksOK
<1>6. /\ f.at = "remove" /\ f.tx = e.tx /\ f.then = e.then /\ f.queue = Tail(e.queue)
      /\ f.gone = e.gone /\ f.cur = e.cur /\ f.evicted = e.evicted
  BY <1>1, <1>3 DEF Fields
<1> HIDE DEF f
<1>7. /\ c \in Txs /\ Tail(e.queue) \in Seq(Txs)
      /\ Values(e.queue) = {c} \cup Values(Tail(e.queue))
      /\ (\A i, j \in DOMAIN e.queue : i < j => Rate(e.queue[i]) <= Rate(e.queue[j])) =>
            \A i, j \in DOMAIN Tail(e.queue) :
               i < j => Rate(Tail(e.queue)[i]) <= Rate(Tail(e.queue)[j])
  BY <1>2, <1>3, QueueNext
<1>8. pool = RemoveAll(B, S)
  BY <1>1, <1>4 DEF Leaving
<1>9. c \in S
  BY <1>4, <1>7, <1>8
<1>10. Removed(f, settled, B, S)
  <2>1. S \cup e.gone \cup Values(e.queue) = S \cup f.gone \cup Values(f.queue)
    BY <1>6, <1>7, <1>9
  <2>2. CASE e.then = "parents"
    BY <1>4, <1>6, <2>1, <2>2 DEF Removed
  <2>3. CASE e.then # "parents"
    <3>1. Evicting(e, B, S) /\ B = Entered(settled, e.tx)
      BY <1>4, <2>3 DEF Removed
    <3>2. Evicting(f, B, S)
      BY <1>3, <1>6, <1>7, <2>1, <3>1 DEF Evicting
    <3> QED BY <1>6, <2>3, <3>1, <3>2 DEF Removed
  <2> QED BY <2>2, <2>3
<1>11. Leaving(f, RemoveAll(B, S), pool') /\ InLoop(f)
  BY <1>1, <1>6, <1>8 DEF Leaving, InLoop
<1> QED BY <1>1, <1>2, <1>5, <1>6, <1>7, <1>10, <1>11, LoopMoves

LEMMA RemoveHitAlone ==
  ASSUME MTInv, AloneOK, NEW k \in Tasks, RemoveEntry(k),
         Head(task[k].queue) \in InPool(pool)
  PROVE  AloneOK' /\ Called(settled, settled')
<1> DEFINE e == task[k]
           c == Head(e.queue)
           g == [u \in DOMAIN pool.entries \ {c} |-> pool.entries[u]]
           f == [e EXCEPT !.at = "unspend", !.queue = Tail(e.queue), !.gone = {c},
                          !.old = pool.entries[c]]
<1>1. /\ e.at = "remove" /\ ~Enough(k) /\ settled' = settled
      /\ pool' = [pool EXCEPT !.entries = g]
      /\ task' = [task EXCEPT ![k].at = "unspend", ![k].queue = Tail(e.queue),
                              ![k].gone = {c}, ![k].old = pool.entries[c]]
  BY DEF RemoveEntry
<1>2. InLoop(e) /\ e.queue # << >>
  BY <1>1 DEF InLoop, Enough
<1>3. /\ TasksOK(task) /\ DOMAIN e = Fields /\ e.queue \in Seq(Txs) /\ e.gone = {}
  BY <1>1, <1>2, LoopStage
<1>4. PICK B, S : /\ Removed(e, settled, B, S) /\ IsPool(B) /\ IsPool(RemoveAll(B, S))
                  /\ S \subseteq InPool(B)
                  /\ Leaving(e, RemoveAll(B, S), pool)
  BY <1>2, LoopStage
<1>5. task'[k] = f /\ \A j \in Tasks \ {k} : task'[j] = task[j]
  BY <1>1, <1>3 DEF TasksOK
<1>6. /\ f.at = "unspend" /\ f.tx = e.tx /\ f.then = e.then /\ f.queue = Tail(e.queue)
      /\ f.gone = {c} /\ f.old = pool.entries[c] /\ f.cur = e.cur /\ f.evicted = e.evicted
  BY <1>1, <1>3 DEF Fields
<1> HIDE DEF f
<1>7. /\ c \in Txs /\ Tail(e.queue) \in Seq(Txs)
      /\ Values(e.queue) = {c} \cup Values(Tail(e.queue))
      /\ (\A i, j \in DOMAIN e.queue : i < j => Rate(e.queue[i]) <= Rate(e.queue[j])) =>
            /\ \A i, j \in DOMAIN Tail(e.queue) :
                  i < j => Rate(Tail(e.queue)[i]) <= Rate(Tail(e.queue)[j])
            /\ \A w \in Values(Tail(e.queue)) : Rate(c) <= Rate(w)
  BY <1>2, <1>3, QueueNext
<1>8. pool = RemoveAll(B, S)
  BY <1>1, <1>4 DEF Leaving
<1>9. Removed(f, settled, B, S)
  <2>1. S \cup e.gone \cup Values(e.queue) = S \cup f.gone \cup Values(f.queue)
    BY <1>3, <1>6, <1>7
  <2>2. CASE e.then = "parents"
    BY <1>4, <1>6, <2>1, <2>2 DEF Removed
  <2>3. CASE e.then # "parents"
    <3>1. Evicting(e, B, S) /\ B = Entered(settled, e.tx) /\ e.then = "return"
      <4>1. e.then \in {"parents", "return"}
        BY <1>1, UnderWay DEF Stages, Follows
      <4> QED BY <1>4, <2>3, <4>1 DEF Removed
    <3>2. /\ S \in SUBSET InPool(B) /\ S \cup e.gone \cup Values(e.queue) = InPool(B)
          /\ e.cur = B.size /\ e.evicted = SumOf(Vsize, S)
          /\ \A i, j \in DOMAIN e.queue : i < j => Rate(e.queue[i]) <= Rate(e.queue[j])
          /\ \A v \in S \cup e.gone : \A w \in Values(e.queue) : Rate(v) <= Rate(w)
          /\ S # {} => \E v \in S : /\ \A w \in S : Rate(w) <= Rate(v)
                                    /\ B.size - SumOf(Vsize, S \ {v}) > max_size
      BY <3>1 DEF Evicting
    <3>3. B.size - SumOf(Vsize, S) > max_size
      <4>1. ~(e.cur - e.evicted <= max_size)
        BY <1>1, <3>1 DEF Enough
      <4>2. B.size \in Int /\ SumOf(Vsize, S) \in Nat /\ S \in SUBSET Txs
        BY <1>4, TxSums DEF IsPool
      <4> QED BY <3>2, <4>1, <4>2, PolicyAssumption
    <3>4. /\ \A v \in S \cup f.gone : \A w \in Values(f.queue) : Rate(v) <= Rate(w)
          /\ \A v \in S : \A x \in f.gone : Rate(v) <= Rate(x)
      BY <1>6, <1>7, <3>2
    <3>5. Evicting(f, B, S)
      BY <1>6, <1>7, <2>1, <3>2, <3>3, <3>4 DEF Evicting
    <3> QED BY <1>6, <2>3, <3>1, <3>5 DEF Removed
  <2> QED BY <2>2, <2>3
<1> DEFINE R == RemoveAll(B, S)
<1>10. Leaving(f, R, pool')
  <2>0. IsPool(R) /\ pool = R /\ c \in InPool(R)
    BY <1>4, <1>8
  <2>1. InPool(RemoveAll(R, f.gone)) = InPool(R) \ {c}
    BY <1>6, RemoveFields
  <2>2. DOMAIN g = InPool(R) \ {c} /\ \A u \in InPool(R) \ {c} : g[u] = R.entries[u]
    BY <2>0 DEF InPool
  <2>3. g \in [InPool(R) \ {c} -> Entry]
    BY <2>0 DEF InPool, IsPool
  <2> HIDE DEF g, R
  <2>4. /\ pool'.entries = g /\ pool'.size = R.size /\ pool'.fees = R.fees
        /\ pool'.spends = R.spends /\ InPool(pool') = InPool(R) \ {c}
        /\ pool' = [entries |-> g, spends |-> R.spends, size |-> R.size, fees |-> R.fees]
    BY <1>1, <2>0, <2>2 DEF IsPool, InPool
  <2>5. IsPool(pool')
    BY <2>0, <2>3, <2>4 DEF IsPool
  <2>6. f.gone \subseteq InPool(R) /\ \A x \in f.gone : f.old = R.entries[x]
    BY <1>6, <2>0
  <2> QED BY <1>6, <2>1, <2>2, <2>4, <2>5, <2>6 DEF Leaving
<1>11. InLoop(f)
  BY <1>6 DEF InLoop, Removing
<1> QED BY <1>1, <1>2, <1>5, <1>6, <1>7, <1>9, <1>10, <1>11, LoopMoves

\* remove_tx has a victim c in hand: R is the pool before, Q the one after it.
Handles(e, m, c, B, S, R, Q) ==
    /\ Removed(e, m, B, S) /\ IsPool(B) /\ S \subseteq InPool(B) /\ c \in InPool(B) \ S
    /\ R = RemoveAll(B, S) /\ Settled(R) /\ IsPool(R) /\ c \in InPool(R)
    /\ Q = RemoveAll(R, {c}) /\ Reduced(R, {c}, Q) /\ IsPool(Q)
    /\ e.gone = {c} /\ e.old = R.entries[c]

LEMMA VictimStage ==
  ASSUME MTInv, AloneOK, NEW k \in Tasks, task[k].at \in Removing
  PROVE  /\ TasksOK(task) /\ CallOK(task[k]) /\ DOMAIN task[k] = Fields
         /\ InLoop(task[k]) /\ task[k].queue \in Seq(Txs) /\ Victim(k) \in Txs
         /\ \E B, S, R, Q : /\ Handles(task[k], settled, Victim(k), B, S, R, Q)
                            /\ Leaving(task[k], R, pool)
<1> DEFINE e == task[k]
           c == Victim(k)
<1>1. InLoop(e)
  BY DEF InLoop
<1>2. /\ TasksOK(task) /\ CallOK(e) /\ DOMAIN e = Fields /\ e.queue \in Seq(Txs)
  BY <1>1, LoopStage
<1>3. c \in Txs /\ e.gone = {c}
  BY <1>2 DEF CallOK, Victim
<1>4. PICK B, S : /\ Removed(e, settled, B, S) /\ IsPool(B) /\ S \subseteq InPool(B)
                  /\ Settled(RemoveAll(B, S)) /\ IsPool(RemoveAll(B, S))
                  /\ InPool(RemoveAll(B, S)) = InPool(B) \ S
                  /\ Leaving(e, RemoveAll(B, S), pool)
  BY <1>1, LoopStage
<1> DEFINE R == RemoveAll(B, S)
           Q == RemoveAll(R, {c})
<1>5. e.gone \subseteq InPool(R) /\ \A x \in e.gone : e.old = R.entries[x]
  BY <1>4 DEF Leaving, Removing
<1>6. c \in InPool(R) /\ c \in InPool(B) \ S /\ e.old = R.entries[c]
  BY <1>3, <1>4, <1>5
<1>7. {c} \cap InPool(R) = {c}
  BY <1>6
<1>8. Reduced(R, {c}, Q)
  <2> HIDE DEF R
  <2> QED BY <1>7, RemoveReduces, Zenon
<1>9. IsPool(Q)
  <2> HIDE DEF R
  <2> QED BY <1>4, RemoveIsPool DEF R
<1>10. Handles(e, settled, c, B, S, R, Q)
  <2> HIDE DEF R, Q, c
  <2> QED BY <1>3, <1>4, <1>6, <1>8, <1>9 DEF Handles, R, Q
<1> HIDE DEF R, Q
<1>11. Leaving(e, R, pool)
  BY <1>4 DEF R
<1> QED BY <1>1, <1>2, <1>3, <1>10, <1>11

LEMMA VictimMoves ==
  ASSUME MTInv, AloneOK, NEW k \in Tasks, task[k].at \in Removing,
         NEW at \in {"unlink", "untotal"}, Goto(k, at), settled' = settled,
         NEW B, NEW S, NEW R, NEW Q, Handles(task[k], settled, Victim(k), B, S, R, Q),
         IsPool(pool'), InPool(pool') = InPool(Q),
         \A u \in InPool(Q) :
            pool'.entries[u] = IF at = "untotal" THEN Q.entries[u] ELSE R.entries[u],
         pool'.spends = Q.spends, pool'.size = R.size, pool'.fees = R.fees
  PROVE  AloneOK' /\ Called(settled, settled')
<1> DEFINE e == task[k]
           c == Victim(k)
           f == task'[k]
<1>1. TasksOK(task) /\ CallOK(e) /\ InLoop(e) /\ e.queue \in Seq(Txs)
  BY VictimStage
<1>2. f.at = at /\ GoesOn(e, f) /\ \A j \in Tasks \ {k} : task'[j] = task[j]
  BY <1>1, GotoGoesOn
<1>3. /\ Removed(e, settled, B, S) /\ R = RemoveAll(B, S) /\ c \in InPool(R)
      /\ Q = RemoveAll(R, {c}) /\ e.gone = {c} /\ e.old = R.entries[c]
  BY DEF Handles
<1> HIDE DEF f
<1>4. Removed(f, settled, B, S)
  <2>1. /\ f.gone = e.gone /\ f.queue = e.queue /\ f.then = e.then /\ f.tx = e.tx
        /\ f.cur = e.cur /\ f.evicted = e.evicted
    BY <1>2 DEF GoesOn
  <2>2. Evicting(e, B, S) => Evicting(f, B, S)
    BY <2>1 DEF Evicting
  <2> QED BY <1>3, <2>1, <2>2 DEF Removed
<1>5. f.gone = {c} /\ f.old = R.entries[c] /\ RemoveAll(R, f.gone) = Q
  BY <1>2, <1>3 DEF GoesOn
<1>6. Leaving(f, RemoveAll(B, S), pool')
  BY <1>2, <1>3, <1>5 DEF Leaving
<1>7. InLoop(f) /\ f.tx = e.tx /\ f.then = e.then /\ f.queue \in Seq(Txs)
  BY <1>1, <1>2 DEF InLoop, Removing, GoesOn
<1> QED BY <1>1, <1>2, <1>4, <1>6, <1>7, LoopMoves DEF f

LEMMA RemoveSpendsAlone ==
  ASSUME MTInv, AloneOK, NEW k \in Tasks, RemoveSpends(k)
  PROVE  AloneOK' /\ Called(settled, settled')
<1> DEFINE e == task[k]
           c == Victim(k)
           g == [o \in DOMAIN pool.spends \ Inputs[c] |-> pool.spends[o]]
<1>1. /\ e.at = "unspend" /\ Goto(k, "unlink") /\ settled' = settled
      /\ pool' = [pool EXCEPT !.spends = g]
  BY DEF RemoveSpends
<1>2. PICK B, S, R, Q : Handles(e, settled, c, B, S, R, Q) /\ Leaving(e, R, pool)
  BY <1>1, VictimStage DEF Removing
<1>3. IsPool(Q) /\ Reduced(R, {c}, Q) /\ Q = RemoveAll(R, {c}) /\ e.gone = {c}
  BY <1>2 DEF Handles
<1>4. /\ IsPool(pool) /\ InPool(pool) = InPool(Q) /\ pool.spends = R.spends
      /\ \A u \in InPool(Q) : pool.entries[u] = R.entries[u]
      /\ pool.size = R.size /\ pool.fees = R.fees
  BY <1>1, <1>2, <1>3 DEF Leaving
<1>5. g = Q.spends
  <2>1. Q.spends = [o \in {o \in DOMAIN R.spends : \A t \in {c} : o \notin Inputs[t]}
                      |-> R.spends[o]]
    BY <1>3 DEF Reduced
  <2>2. {o \in DOMAIN R.spends : \A t \in {c} : o \notin Inputs[t]}
          = DOMAIN R.spends \ Inputs[c]
    OBVIOUS
  <2> QED BY <1>4, <2>1, <2>2
<1> HIDE DEF g, c, e
<1>6. /\ pool'.entries = pool.entries /\ pool'.size = pool.size /\ pool'.fees = pool.fees
      /\ pool'.spends = g /\ InPool(pool') = InPool(pool)
      /\ pool' = [entries |-> pool.entries, spends |-> g, size |-> pool.size,
                  fees |-> pool.fees]
  BY <1>1, <1>4 DEF IsPool, InPool
<1>7. IsPool(pool')
  <2>1. g \in [DOMAIN g -> Txs] /\ DOMAIN g \subseteq Outpoints
    BY <1>3, <1>5 DEF IsPool
  <2> QED BY <1>4, <1>6, <2>1 DEF IsPool
<1>8. \A u \in InPool(Q) :
         pool'.entries[u] = IF "unlink" = "untotal" THEN Q.entries[u] ELSE R.entries[u]
  BY <1>4, <1>6
<1>9. /\ pool'.spends = Q.spends /\ pool'.size = R.size /\ pool'.fees = R.fees
      /\ InPool(pool') = InPool(Q) /\ task[k].at \in Removing
  BY <1>1, <1>4, <1>5, <1>6 DEF Removing, e
<1> QED BY <1>1, <1>2, <1>7, <1>8, <1>9, VictimMoves DEF e, c

LEMMA RemoveLinksAlone ==
  ASSUME MTInv, AloneOK, NEW k \in Tasks, RemoveLinks(k)
  PROVE  AloneOK' /\ Called(settled, settled')
<1> DEFINE e == task[k]
           c == Victim(k)
           old == task[k].old
           told(u, x) ==
             [parents  |-> IF u \in old.children THEN x.parents \ {c} ELSE x.parents,
              children |-> IF u \in old.parents THEN x.children \ {c} ELSE x.children,
              anc  |-> IF u \in old.children THEN Less(x.anc, Own(c)) ELSE x.anc,
              desc |-> IF u \in old.parents THEN Less(x.desc, Own(c)) ELSE x.desc]
           g == [u \in DOMAIN pool.entries |-> told(u, pool.entries[u])]
<1>1. /\ e.at = "unlink" /\ Goto(k, "untotal") /\ settled' = settled
      /\ pool' = [pool EXCEPT !.entries = g]
  BY DEF RemoveLinks
<1>2. PICK B, S, R, Q : Handles(e, settled, c, B, S, R, Q) /\ Leaving(e, R, pool)
  BY <1>1, VictimStage DEF Removing
<1>3. /\ IsPool(Q) /\ Reduced(R, {c}, Q) /\ Q = RemoveAll(R, {c}) /\ e.gone = {c}
      /\ Settled(R) /\ c \in InPool(R) /\ old = R.entries[c]
  BY <1>2 DEF Handles
<1>4. /\ IsPool(pool) /\ InPool(pool) = InPool(Q) /\ pool.spends = Q.spends
      /\ \A u \in InPool(Q) : pool.entries[u] = R.entries[u]
      /\ pool.size = R.size /\ pool.fees = R.fees
  BY <1>1, <1>2, <1>3 DEF Leaving
<1>5. c \in Txs /\ InPool(Q) = InPool(R) \ {c}
  BY <1>3 DEF Reduced, Settled, IsPool
<1>6. /\ Own(c) \in Stats /\ TotalOf({c}) = Own(c) /\ TotalOf({}) = Zero
  <2>1. {} \in SUBSET Txs
    OBVIOUS
  <2> QED BY <1>5, <2>1, TotalFacts
<1>7. ASSUME NEW u \in InPool(Q) PROVE g[u] = Q.entries[u]
  <2> DEFINE x == R.entries[u]
  <2>1. g[u] = told(u, x) /\ u \in InPool(R) /\ u # c
    BY <1>4, <1>5 DEF InPool
  <2>2. Q.entries[u] = Trimmed(x, {c})
    BY <1>3, <1>5 DEF Reduced
  <2>3. x \in Entry
    BY <1>3, <2>1 DEF Settled, IsPool
  <2>4. x.anc \in Stats /\ x.desc \in Stats
    BY <2>3 DEF Entry
  <2>5. (u \in old.children <=> c \in x.parents) /\ (u \in old.parents <=> c \in x.children)
    BY <1>3, <2>1 DEF Settled, PoolSound, LinksSoundOf
  <2> HIDE DEF x
  <2>6. /\ (IF u \in old.children THEN x.parents \ {c} ELSE x.parents) = x.parents \ {c}
        /\ (IF u \in old.parents THEN x.children \ {c} ELSE x.children) = x.children \ {c}
    BY <2>5
  <2>7. Less(x.anc, Zero) = x.anc /\ Less(x.desc, Zero) = x.desc
    BY <1>6, <2>4, LessFacts
  <2>8. (IF u \in old.children THEN Less(x.anc, Own(c)) ELSE x.anc)
           = Less(x.anc, TotalOf(x.parents \cap {c}))
    <3>1. CASE c \in x.parents
      <4>1. x.parents \cap {c} = {c}
        BY <3>1
      <4> QED BY <1>6, <2>5, <3>1, <4>1
    <3>2. CASE c \notin x.parents
      <4>1. x.parents \cap {c} = {}
        BY <3>2
      <4> QED BY <1>6, <2>5, <2>7, <3>2, <4>1
    <3> QED BY <3>1, <3>2
  <2>9. (IF u \in old.parents THEN Less(x.desc, Own(c)) ELSE x.desc)
           = Less(x.desc, TotalOf(x.children \cap {c}))
    <3>1. CASE c \in x.children
      <4>1. x.children \cap {c} = {c}
        BY <3>1
      <4> QED BY <1>6, <2>5, <3>1, <4>1
    <3>2. CASE c \notin x.children
      <4>1. x.children \cap {c} = {}
        BY <3>2
      <4> QED BY <1>6, <2>5, <2>7, <3>2, <4>1
    <3> QED BY <3>1, <3>2
  <2> HIDE DEF g
  <2>10. told(u, x) = Trimmed(x, {c})
    BY <2>6, <2>8, <2>9, Zenon DEF Trimmed
  <2> QED BY <2>1, <2>2, <2>10
<1>8. DOMAIN g = InPool(Q) /\ g \in [InPool(Q) -> Entry]
  <2>1. DOMAIN g = InPool(Q)
    BY <1>4 DEF InPool
  <2>2. \A u \in InPool(Q) : Q.entries[u] \in Entry
    BY <1>3 DEF IsPool
  <2>3. \A u \in InPool(Q) : g[u] \in Entry
    BY <1>7, <2>2
  <2>4. g = [u \in DOMAIN g |-> g[u]]
    OBVIOUS
  <2> HIDE DEF g
  <2> QED BY <2>1, <2>3, <2>4
<1> HIDE DEF g, c, e
<1>9. /\ pool'.entries = g /\ pool'.size = pool.size /\ pool'.fees = pool.fees
      /\ pool'.spends = pool.spends /\ InPool(pool') = InPool(pool)
      /\ pool' = [entries |-> g, spends |-> pool.spends, size |-> pool.size,
                  fees |-> pool.fees]
  BY <1>1, <1>4, <1>8 DEF IsPool, InPool
<1>10. IsPool(pool')
  BY <1>4, <1>8, <1>9 DEF IsPool
<1>11. \A u \in InPool(Q) :
         pool'.entries[u] = IF "untotal" = "untotal" THEN Q.entries[u] ELSE R.entries[u]
  BY <1>7, <1>9
<1>12. /\ pool'.spends = Q.spends /\ pool'.size = R.size /\ pool'.fees = R.fees
       /\ InPool(pool') = InPool(Q) /\ task[k].at \in Removing
  BY <1>1, <1>4, <1>9 DEF Removing, e
<1> QED BY <1>1, <1>2, <1>10, <1>11, <1>12, VictimMoves DEF e, c

LEMMA SubtractAlone ==
  ASSUME MTInv, AloneOK, NEW k \in Tasks, SubtractTotals(k)
  PROVE  AloneOK' /\ Called(settled, settled')
<1> DEFINE e == task[k]
           c == Victim(k)
           f == [e EXCEPT !.at = "remove", !.gone = {}, !.old = << >>,
                          !.evicted = e.evicted + Vsize[c]]
<1>1. /\ e.at = "untotal" /\ settled' = settled
      /\ pool' = [pool EXCEPT !.size = pool.size - Vsize[c], !.fees = pool.fees - Fee[c]]
      /\ task' = [task EXCEPT ![k].at = "remove", ![k].gone = {}, ![k].old = << >>,
                              ![k].evicted = e.evicted + Vsize[c]]
  BY DEF SubtractTotals
<1>2. /\ TasksOK(task) /\ DOMAIN e = Fields /\ InLoop(e) /\ e.queue \in Seq(Txs)
      /\ c \in Txs
  BY <1>1, VictimStage DEF Removing
<1>3. PICK B, S, R, Q : Handles(e, settled, c, B, S, R, Q) /\ Leaving(e, R, pool)
  BY <1>1, VictimStage DEF Removing
<1>4. /\ Removed(e, settled, B, S) /\ IsPool(B) /\ S \subseteq InPool(B)
      /\ c \in InPool(B) \ S /\ R = RemoveAll(B, S)
      /\ IsPool(Q) /\ Reduced(R, {c}, Q) /\ Q = RemoveAll(R, {c}) /\ e.gone = {c}
      /\ IsPool(R)
  BY <1>3 DEF Handles
<1>5. /\ IsPool(pool) /\ InPool(pool) = InPool(Q) /\ pool.spends = Q.spends
      /\ \A u \in InPool(Q) : pool.entries[u] = Q.entries[u]
      /\ pool.size = R.size /\ pool.fees = R.fees
  BY <1>1, <1>3, <1>4 DEF Leaving
<1>6. /\ Q.size = R.size - Vsize[c] /\ Q.fees = R.fees - Fee[c]
      /\ Vsize[c] \in Nat /\ Fee[c] \in Nat
  <2>1. TotalOf({c}) = Own(c)
    BY <1>2, TotalFacts
  <2>2. TotalOf({c}).size = Vsize[c] /\ TotalOf({c}).fees = Fee[c]
    BY <2>1 DEF Own
  <2>3. Q.size = R.size - TotalOf({c}).size /\ Q.fees = R.fees - TotalOf({c}).fees
    BY <1>4 DEF Reduced
  <2>4. Vsize[c] \in Nat /\ Fee[c] \in Nat
    BY <1>2, TxAssumption
  <2> HIDE DEF c
  <2> QED BY <2>2, <2>3, <2>4
<1>7. task'[k] = f /\ \A j \in Tasks \ {k} : task'[j] = task[j]
  BY <1>1, <1>2 DEF TasksOK
<1>8. /\ f.at = "remove" /\ f.tx = e.tx /\ f.then = e.then /\ f.queue = e.queue
      /\ f.gone = {} /\ f.cur = e.cur /\ f.evicted = e.evicted + Vsize[c]
  BY <1>1, <1>2 DEF Fields
<1> HIDE DEF f, c, e
<1>9. /\ pool'.entries = pool.entries /\ pool'.spends = pool.spends
      /\ pool'.size = Q.size /\ pool'.fees = Q.fees /\ InPool(pool') = InPool(pool)
      /\ pool' = [entries |-> pool.entries, spends |-> pool.spends, size |-> Q.size,
                  fees |-> Q.fees]
  BY <1>1, <1>5, <1>6 DEF IsPool, InPool
<1>10. IsPool(pool')
  BY <1>4, <1>5, <1>9 DEF IsPool
<1>11. pool' = RemoveAll(B, S \cup {c})
  <2>1. pool' = Q
    <3>1. /\ InPool(pool') = InPool(Q) /\ pool'.spends = Q.spends
          /\ \A u \in InPool(pool') : pool'.entries[u] = Q.entries[u]
      BY <1>5, <1>9
    <3> QED BY <1>4, <1>9, <1>10, <3>1, SamePool
  <2>2. RemoveAll(RemoveAll(B, S), {c}) = RemoveAll(B, S \cup {c})
    BY <1>4, RemoveOneMore
  <2> QED BY <1>4, <2>1, <2>2
<1>12. Removed(f, settled, B, S \cup {c})
  <2>1. S \cup e.gone \cup Values(e.queue) = (S \cup {c}) \cup f.gone \cup Values(f.queue)
    BY <1>4, <1>8
  <2>2. CASE e.then = "parents"
    BY <1>4, <1>8, <2>1, <2>2 DEF Removed
  <2>3. CASE e.then # "parents"
    <3> DEFINE V == S \cup {c}
    <3>1. Evicting(e, B, S) /\ B = Entered(settled, e.tx)
      BY <1>4, <2>3 DEF Removed
    <3>2. /\ S \cup e.gone \cup Values(e.queue) = InPool(B)
          /\ e.cur = B.size /\ e.evicted = SumOf(Vsize, S)
          /\ \A i, j \in DOMAIN e.queue : i < j => Rate(e.queue[i]) <= Rate(e.queue[j])
          /\ \A v \in V : \A w \in Values(e.queue) : Rate(v) <= Rate(w)
          /\ \A v \in S : Rate(v) <= Rate(c)
          /\ B.size - SumOf(Vsize, S) > max_size
      BY <1>4, <3>1 DEF Evicting
    <3>3. V \in SUBSET InPool(B) /\ V \in SUBSET Txs /\ V \ {c} = S /\ S \in SUBSET Txs
      BY <1>4 DEF IsPool
    <3>4. SumOf(Vsize, V) = SumOf(Vsize, S) + Vsize[c]
      <4>1. IsFiniteSet(S) /\ \A y \in V : Vsize[y] \in Nat
        BY <3>3, TxSums
      <4> QED BY <1>4, <4>1, SumWith
    <3>5. Rate(c) <= Rate(c)
      <4>1. Rate(c) \in Int
        BY <1>2, <1>6 DEF Rate, c
      <4> QED BY <4>1
    <3> HIDE DEF V
    <3>6. c \in V /\ \A w \in V : Rate(w) <= Rate(c)
      BY <3>2, <3>5 DEF V
    <3>7. \E v \in V : /\ \A w \in V : Rate(w) <= Rate(v)
                       /\ B.size - SumOf(Vsize, V \ {v}) > max_size
      BY <3>2, <3>3, <3>6
    <3>8. V \cup f.gone \cup Values(f.queue) = InPool(B)
      BY <2>1, <3>2 DEF V
    <3>9. \A v \in V \cup f.gone : \A w \in Values(f.queue) : Rate(v) <= Rate(w)
      BY <1>8, <3>2
    <3>10. Evicting(f, B, V)
      BY <1>8, <3>2, <3>3, <3>4, <3>7, <3>8, <3>9 DEF Evicting
    <3> QED BY <1>8, <2>3, <3>1, <3>10 DEF Removed, V
  <2> QED BY <2>2, <2>3
<1>13. Leaving(f, RemoveAll(B, S \cup {c}), pool') /\ InLoop(f)
  BY <1>8, <1>11 DEF Leaving, InLoop
<1>14. task'[k].tx = task[k].tx /\ task'[k].then = task[k].then /\ task'[k].queue \in Seq(Txs)
  BY <1>2, <1>7, <1>8 DEF e
<1> QED BY <1>1, <1>2, <1>7, <1>12, <1>13, <1>14, LoopMoves DEF e

-----------------------------------------------------------------------------
(* Mempool, with the settled pool as its pool *)

\* The operators of the instance are those of Mempool.
LEMMA AtomicSums ==
  /\ \A f, S : Atomic!SumOf(f, S) = SumOf(f, S)
  /\ \A f, S : Atomic!Total(f, S) = Total(f, S)
  /\ \A S : Atomic!TotalOf(S) = TotalOf(S)
  /\ \A t : Atomic!Own(t) = Own(t) /\ Atomic!Rate(t) = Rate(t)
  /\ \A x, y : Atomic!Plus(x, y) = Plus(x, y) /\ Atomic!Less(x, y) = Less(x, y)
<1>1. \A f, S : Atomic!SumOf(f, S) = SumOf(f, S)
  BY DEF SumOf, Atomic!SumOf, MapThenSumSet, Atomic!MapThenSumSet, MapThenFoldSet,
         Atomic!MapThenFoldSet
<1>2. \A f, S : Atomic!Total(f, S) = Total(f, S)
  BY <1>1, Zenon DEF Total, Atomic!Total
<1>3. \A t : Atomic!Own(t) = Own(t) /\ Atomic!Rate(t) = Rate(t)
  BY Zenon DEF Own, Atomic!Own, Rate, Atomic!Rate
<1>4. \A S : Atomic!TotalOf(S) = TotalOf(S)
  <2> TAKE S
  <2>1. [t \in S |-> Atomic!Own(t)] = [t \in S |-> Own(t)]
    BY <1>3, Zenon
  <2> QED BY <1>2, <2>1, Zenon DEF TotalOf, Atomic!TotalOf
<1>5. \A x, y : Atomic!Plus(x, y) = Plus(x, y) /\ Atomic!Less(x, y) = Less(x, y)
  BY Zenon DEF Plus, Atomic!Plus, Less, Atomic!Less
<1> QED BY <1>1, <1>2, <1>3, <1>4, <1>5

LEMMA AtomicPools ==
  /\ \A m : Atomic!InPool(m) = InPool(m)
  /\ \A m, S : Atomic!RemoveAll(m, S) = RemoveAll(m, S)
  /\ \A m, t : /\ Atomic!Contested(m, t) = Contested(m, t)
               /\ Atomic!Conflicts(m, t) = Conflicts(m, t)
               /\ Atomic!Parents(m, t) = Parents(m, t)
               /\ Atomic!AncestorStats(m, t) = AncestorStats(m, t)
<1>1. \A m : Atomic!InPool(m) = InPool(m)
  BY DEF InPool, Atomic!InPool
<1>2. ASSUME NEW m, NEW S PROVE Atomic!RemoveAll(m, S) = RemoveAll(m, S)
  <2> QED BY <1>1, AtomicSums DEF RemoveAll, Atomic!RemoveAll
<1>3. \A m, t : /\ Atomic!Contested(m, t) = Contested(m, t)
                /\ Atomic!Parents(m, t) = Parents(m, t)
  BY <1>1, Zenon DEF Contested, Atomic!Contested, Parents, Atomic!Parents
<1>4. \A m, t : Atomic!Conflicts(m, t) = Conflicts(m, t)
  BY <1>3, Zenon DEF Conflicts, Atomic!Conflicts
<1>5. \A m, t : Atomic!AncestorStats(m, t) = AncestorStats(m, t)
  BY <1>3, AtomicSums, Zenon DEF AncestorStats, Atomic!AncestorStats
<1> QED BY <1>1, <1>2, <1>3, <1>4, <1>5

LEMMA AtomicRules ==
  /\ \A m, t : /\ Atomic!WithinLimits(m, t) <=> WithinLimits(m, t)
               /\ Atomic!MayReplace(m, t) <=> MayReplace(m, t)
               /\ Atomic!Admissible(m, t) <=> Admissible(m, t)
               /\ Atomic!Insert(m, t) = Insert(m, t)
  /\ \A m : Atomic!Victims(m) = Victims(m)
<1>1. \A m, t : Atomic!WithinLimits(m, t) <=> WithinLimits(m, t)
  BY AtomicPools, Zenon DEF WithinLimits, Atomic!WithinLimits
<1>2. ASSUME NEW m, NEW t PROVE Atomic!MayReplace(m, t) <=> MayReplace(m, t)
  <2> DEFINE C == Contested(m, t)
  <2>1. Atomic!Contested(m, t) = C /\ Atomic!Conflicts(m, t) = Conflicts(m, t)
    BY AtomicPools
  <2>2. [o \in C |-> Atomic!Own(m.spends[o])] = [o \in C |-> Own(m.spends[o])]
    BY AtomicSums, Zenon
  <2>3. Atomic!Total([o \in C |-> Atomic!Own(m.spends[o])], C)
          = Total([o \in C |-> Own(m.spends[o])], C)
    BY <2>2, AtomicSums, Zenon
  <2>4. \A b, d : Atomic!CheckRbf(t, b, d) <=> CheckRbf(t, b, d)
    BY Zenon DEF CheckRbf, Atomic!CheckRbf
  <2> HIDE DEF C
  <2> DEFINE cost == Total([o \in C |-> Own(m.spends[o])], C)
  <2>5. MayReplace(m, t) <=> Conflicts(m, t) \subseteq Signals /\ MayPay(t, cost)
    BY Zenon DEF MayReplace, MayPay, C
  <2>6. Atomic!MayReplace(m, t) <=>
          /\ Conflicts(m, t) \subseteq Signals
          /\ LET bump == IF Fee[t] > cost.fees THEN Fee[t] - cost.fees ELSE 0
                 diff == IF Vsize[t] > cost.size THEN Vsize[t] - cost.size
                                                 ELSE cost.size - Vsize[t]
             IN Atomic!CheckRbf(t, bump, diff)
    BY <2>1, <2>3, Zenon DEF Atomic!MayReplace
  <2> QED BY <2>4, <2>5, <2>6, Zenon DEF MayPay
<1>3. \A m, t : Atomic!Admissible(m, t) <=> Admissible(m, t)
  BY <1>2, AtomicSums, AtomicPools, Zenon DEF Admissible, Atomic!Admissible
<1>4. ASSUME NEW m, NEW t PROVE Atomic!Insert(m, t) = Insert(m, t)
  <2> DEFINE P == Parents(m, t)
             A == AncestorStats(m, t)
             D(e) == Plus(e.desc, Own(t))
             E(p, a, o, d(_)) ==
                [u \in InPool(m) \cup {t} |->
                   IF u = t THEN [parents |-> p, children |-> {}, anc |-> a, desc |-> o]
                   ELSE IF u \in p
                   THEN [parents |-> m.entries[u].parents,
                         children |-> m.entries[u].children \cup {t},
                         anc |-> m.entries[u].anc, desc |-> d(m.entries[u])]
                   ELSE m.entries[u]]
             G(f) == [entries |-> f,
                      spends |-> [o \in DOMAIN m.spends \cup Inputs[t] |->
                                    IF o \in Inputs[t] THEN t ELSE m.spends[o]],
                      size |-> m.size + Vsize[t], fees |-> m.fees + Fee[t]]
             AD(e) == Atomic!Plus(e.desc, Atomic!Own(t))
  <2>1. /\ Atomic!Parents(m, t) = P /\ Atomic!AncestorStats(m, t) = A
        /\ Atomic!Own(t) = Own(t) /\ Atomic!InPool(m) = InPool(m)
    BY AtomicSums, AtomicPools
  <2>2. \A e : AD(e) = D(e)
    BY AtomicSums, Zenon
  <2>3. Insert(m, t) = G(E(P, A, Own(t), D))
    BY Zenon DEF Insert
  <2> HIDE DEF P, A
  <2>4. Atomic!Insert(m, t) = G(E(P, A, Own(t), AD))
    BY <2>1, Zenon DEF Atomic!Insert
  <2> HIDE DEF D, AD, G
  <2>5. E(P, A, Own(t), AD) = E(P, A, Own(t), D)
    BY <2>2
  <2> HIDE DEF E
  <2> QED BY <2>3, <2>4, <2>5
<1>5. \A m : Atomic!Victims(m) = Victims(m)
  BY AtomicSums, AtomicPools DEF Victims, Atomic!Victims
<1> QED BY <1>1, <1>2, <1>3, <1>4, <1>5

LEMMA CalledIsAtomic ==
  ASSUME Called(settled, settled')
  PROVE  [\E t \in Txs : Atomic!AddTx(t) \/ Atomic!AddTxFails(t)]_settled
<1>1. CASE settled' = settled
  BY <1>1
<1>2. CASE \E t \in Txs : AddsTo(settled, t, settled') \/ FailsOn(settled, t, settled')
  <2>1. PICK t \in Txs : AddsTo(settled, t, settled') \/ FailsOn(settled, t, settled')
    BY <1>2
  <2>2. ASSUME AddsTo(settled, t, settled') PROVE Atomic!AddTx(t)
    <3>1. /\ Admissible(settled, t) /\ WithinLimits(Cleared(settled, t), t)
          /\ \E V \in Victims(Entered(settled, t)) :
                settled' = RemoveAll(Entered(settled, t), V)
      BY <2>2 DEF AddsTo
    <3> QED BY <3>1, AtomicPools, AtomicRules, Zenon DEF Atomic!AddTx, Cleared, Entered
  <2>3. ASSUME FailsOn(settled, t, settled') PROVE Atomic!AddTxFails(t)
    <3>1. /\ Admissible(settled, t) /\ Conflicts(settled, t) # {}
          /\ ~WithinLimits(Cleared(settled, t), t) /\ settled' = Cleared(settled, t)
      BY <2>3 DEF FailsOn
    <3> QED BY <3>1, AtomicPools, AtomicRules, Zenon DEF Atomic!AddTxFails, Cleared
  <2> QED BY <2>1, <2>2, <2>3
<1> QED BY <1>1, <1>2 DEF Called

-----------------------------------------------------------------------------
(* The theorem *)

LEMMA OverlapStays ==
  ASSUME NEW k \in Tasks, (\E t \in Txs : ReceiveTx(k, t)) \/ MTStep(k), overlap
  PROVE  overlap'
  BY Zenon DEF MTStep, ReceiveTx, Check, FindConflicts, Replace, FindParents, InsertSpends,
     TellParents, AddTotals, InsertEntry, MeasureSize, ListEntries, RemovedAll, RemoveEntry,
     RemoveSpends, RemoveLinks, SubtractTotals

LEMMA AloneInit == ASSUME MTInit PROVE AloneOK
<1>1. pool = NewMempool /\ settled = NewMempool /\ \A k \in Tasks : task[k].at = "free"
  BY DEF MTInit, Free
<1>2. IsPool(NewMempool)
  <2>1. InPool(NewMempool) = {} /\ DOMAIN NewMempool.spends = {}
    BY DEF NewMempool, InPool
  <2> DEFINE g == [t \in {} |-> Own(t)]
             h == [o \in {} |-> o]
  <2>2. NewMempool = [entries |-> g, spends |-> h, size |-> 0, fees |-> 0]
    BY DEF NewMempool
  <2>3. g \in [{} -> Entry] /\ h \in [{} -> Txs]
    OBVIOUS
  <2> HIDE DEF g, h
  <2>4. NewMempool \in [entries : [{} -> Entry], spends : [{} -> Txs], size : Int, fees : Int]
    BY <2>2, <2>3
  <2> QED BY <2>1, <2>4 DEF IsPool
<1>3. PoolSound(NewMempool) /\ TotalsExactOf(NewMempool)
  BY SumEmpty DEF NewMempool, PoolSound, SpendsExactOf, LinksSoundOf, InPool, TotalsExactOf
<1> QED BY <1>1, <1>2, <1>3 DEF AloneOK, Settled, Running

LEMMA StepAlone ==
  ASSUME MTInv, AloneOK, NEW k \in Tasks,
         (\E t \in Txs : ReceiveTx(k, t)) \/ MTStep(k), ~overlap'
  PROVE  AloneOK' /\ Called(settled, settled')
<1>1. ASSUME NEW t \in Txs, ReceiveTx(k, t) PROVE AloneOK' /\ Called(settled, settled')
  BY <1>1, ReceiveAlone
<1>2. CASE RemoveEntry(k)
  BY <1>2, RemoveMissAlone, RemoveHitAlone
<1> QED BY <1>1, <1>2, CheckAlone, FindConflictsAlone, ReplaceAlone, FindParentsAlone,
           InsertSpendsAlone, TellParentsAlone, AddTotalsAlone, InsertEntryAlone,
           MeasureAlone, ListAlone, RemovedAllAlone, RemoveSpendsAlone, RemoveLinksAlone,
           SubtractAlone, Zenon DEF MTStep

\* As long as calls come one after the other, the pool within a call has come
\* from the one before it by the steps of add_tx so far, and it is sound between
\* calls.
THEOREM CallsAloneCorrect == MTSpec => []AloneUnlessOverlap
<1>1. MTInit => AloneUnlessOverlap
  BY AloneInit DEF AloneUnlessOverlap
<1>2. MTInv /\ AloneUnlessOverlap /\ [MTNext]_mtVars => AloneUnlessOverlap'
  <2> SUFFICES ASSUME MTInv, AloneUnlessOverlap, [MTNext]_mtVars, ~overlap'
               PROVE  AloneOK'
    BY DEF AloneUnlessOverlap
  <2>1. CASE MTNext
    <3>1. PICK k \in Tasks : (\E t \in Txs : ReceiveTx(k, t)) \/ MTStep(k)
      BY <2>1 DEF MTNext
    <3>2. AloneOK
      BY <3>1, OverlapStays DEF AloneUnlessOverlap
    <3> QED BY <3>1, <3>2, StepAlone
  <2>2. CASE UNCHANGED mtVars
    <3>1. ~overlap /\ task' = task /\ pool' = pool /\ settled' = settled
      BY <2>2 DEF mtVars
    <3> QED BY <3>1 DEF AloneUnlessOverlap, AloneOK, Running, Quiet
  <2> QED BY <2>1, <2>2
<1> QED BY <1>1, <1>2, TasksCorrect, PTL DEF MTSpec

\* As long as calls come one after the other, add_tx does in its many steps what
\* Mempool says it does in one.
THEOREM AloneAlwaysAtomic == MTSpec => AloneAtomic
<1>1. ASSUME MTInv, AloneUnlessOverlap, [MTNext]_mtVars
      PROVE  [ ~overlap' =>
                 [\E t \in Txs : Atomic!AddTx(t) \/ Atomic!AddTxFails(t)]_settled ]_mtVars
  <2>1. CASE UNCHANGED mtVars
    BY <2>1
  <2>2. CASE MTNext /\ ~overlap'
    <3>1. PICK k \in Tasks : (\E t \in Txs : ReceiveTx(k, t)) \/ MTStep(k)
      BY <2>2 DEF MTNext
    <3>2. AloneOK
      BY <1>1, <2>2, <3>1, OverlapStays DEF AloneUnlessOverlap
    <3>3. Called(settled, settled')
      BY <1>1, <2>2, <3>1, <3>2, StepAlone
    <3> QED BY <3>3, CalledIsAtomic
  <2> QED BY <1>1, <2>1, <2>2
<1> QED BY <1>1, TasksCorrect, CallsAloneCorrect, PTL DEF MTSpec, AloneAtomic

\* What AloneOK says nothing of: the limits that add_tx holds to.
WithinSize(m) == m.size <= max_size /\ AncestorsCounted(m)
LimitsUnlessOverlap == ~overlap => WithinSize(settled)

LEMMA CalledWithin ==
  ASSUME NEW m, Settled(m), WithinSize(m), NEW n, Called(m, n) PROVE WithinSize(n)
<1>1. /\ PoolSound(m) /\ TotalsExactOf(m) /\ m.size \in Int /\ max_size \in Int
      /\ m.size <= max_size /\ AncestorsCounted(m)
  BY PolicyAssumption DEF Settled, IsPool, WithinSize
<1>2. ASSUME NEW S PROVE WithinSize(RemoveAll(m, S))
  <2>1. RemoveAll(m, S).size <= m.size /\ RemoveAll(m, S).size \in Int
    BY <1>1, RemoveTotals, RemoveIsPool DEF Settled, IsPool
  <2>2. AncestorsCounted(RemoveAll(m, S))
    BY <1>1, RemoveCounted
  <2> QED BY <1>1, <2>1, <2>2 DEF WithinSize
<1>3. ASSUME NEW t \in Txs, FailsOn(m, t, n) PROVE WithinSize(n)
  BY <1>2, <1>3 DEF FailsOn, Cleared
<1>4. ASSUME NEW t \in Txs, AddsTo(m, t, n) PROVE WithinSize(n)
  <2> DEFINE c == Cleared(m, t)
             T == Entered(m, t)
  <2>1. /\ Admissible(m, t) /\ WithinLimits(c, t)
        /\ \E V \in Victims(T) : n = RemoveAll(T, V)
    BY <1>4 DEF AddsTo
  <2>2. PICK V \in Victims(T) : n = RemoveAll(T, V)
    BY <2>1
  <2>3. Settled(c) /\ t \notin InPool(c) /\ Settled(T)
    BY <2>1, EnteredFacts DEF Admissible
  <2>4. AncestorsCounted(c)
    BY <1>2 DEF WithinSize, Cleared
  <2>5. AncestorsCounted(T)
    <3> HIDE DEF c
    <3>1. AncestorsCounted(Insert(c, t))
      BY <2>1, <2>3, <2>4, InsertCounted DEF Settled
    <3> QED BY <3>1 DEF Entered, c
  <2> HIDE DEF T
  <2>6. T.size - TotalOf(V).size <= max_size /\ V \cap InPool(T) = V
    BY DEF Victims
  <2>7. n.size = T.size - TotalOf(V \cap InPool(T)).size
    BY <2>2, <2>3, RemoveTotals DEF Settled
  <2>8. AncestorsCounted(n)
    BY <2>2, <2>3, <2>5, RemoveCounted DEF Settled
  <2> QED BY <2>6, <2>7, <2>8 DEF WithinSize
<1> QED BY <1>3, <1>4 DEF Called

\* What Mempool promises between two calls, while none is under way: index and
\* totals are exact, the links are sound, and the pool is within max_size.
AloneSafe ==
    Quiet /\ ~overlap => SpendsExact /\ LinksSound /\ TotalsExact

\* As long as calls come one after the other, the pool that add_tx leaves, cut
\* into its map operations, is as Mempool promises it.
THEOREM CallsAloneSafe == MTSpec => []AloneSafe
<1>1. MTInit => LimitsUnlessOverlap
  <2>1. AncestorsCounted(NewMempool)
    BY DEF NewMempool, AncestorsCounted, InPool
  <2> QED BY <2>1, NewTotals DEF MTInit, LimitsUnlessOverlap, WithinSize
<1>2. MTInv /\ AloneUnlessOverlap /\ LimitsUnlessOverlap /\ [MTNext]_mtVars
        => LimitsUnlessOverlap'
  <2> SUFFICES ASSUME MTInv, AloneUnlessOverlap, LimitsUnlessOverlap, [MTNext]_mtVars,
                      ~overlap'
               PROVE  WithinSize(settled')
    BY DEF LimitsUnlessOverlap
  <2>1. CASE MTNext
    <3>1. PICK k \in Tasks : (\E t \in Txs : ReceiveTx(k, t)) \/ MTStep(k)
      BY <2>1 DEF MTNext
    <3>2. AloneOK /\ WithinSize(settled)
      BY <3>1, OverlapStays DEF AloneUnlessOverlap, LimitsUnlessOverlap
    <3>3. Called(settled, settled') /\ Settled(settled)
      BY <3>1, <3>2, StepAlone DEF AloneOK
    <3> QED BY <3>2, <3>3, CalledWithin
  <2>2. CASE UNCHANGED mtVars
    BY <2>2 DEF mtVars, LimitsUnlessOverlap
  <2> QED BY <2>1, <2>2
<1>3. AloneUnlessOverlap /\ LimitsUnlessOverlap => AloneSafe
  <2> SUFFICES ASSUME AloneUnlessOverlap, LimitsUnlessOverlap, Quiet, ~overlap
               PROVE  SpendsExact /\ LinksSound /\ TotalsExact
    BY DEF AloneSafe
  <2>1. Settled(pool) /\ WithinSize(pool)
    BY DEF AloneUnlessOverlap, AloneOK, LimitsUnlessOverlap
  <2>2. SpendsExact /\ LinksSound
    BY <2>1 DEF Settled, PoolSound, SpendsExact, LinksSound
  <2>3. TotalsExact
    <3>1. /\ TotalOf(InPool(pool)).size = SumOf(Vsize, InPool(pool))
          /\ TotalOf(InPool(pool)).fees = SumOf(Fee, InPool(pool))
      BY <2>1, TotalFacts DEF Settled, IsPool
    <3> QED BY <2>1, <3>1 DEF Settled, TotalsExactOf, TotalsExact, WithinSize
  <2> QED BY <2>2, <2>3
<1> QED BY <1>1, <1>2, <1>3, TasksCorrect, CallsAloneCorrect, PTL DEF MTSpec
=============================================================================
