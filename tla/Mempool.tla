------------------------------ MODULE Mempool ------------------------------
(***************************************************************************)
(* The transaction pool of src/mempool: entries with their links and       *)
(* ancestor and descendant statistics, the map from spent outpoints to     *)
(* spenders, and the totals.  The pool is a record, and the methods of     *)
(* Mempool are operators on it.  Each call is one step here; the           *)
(* interleaving of calls from several tasks is in module MempoolTasks.     *)
(*                                                                         *)
(* A transaction is a model value whose inputs, size and fee are constants.*)
(* A call that returns an error and changes nothing is no step.  Left out: *)
(* current_height, which nothing reads, and the fee estimator, which       *)
(* add_tx and update_height also inform but no decision of the pool reads. *)
(***************************************************************************)
EXTENDS Integers, FiniteSets, FiniteSetsExt

CONSTANTS
    Txs,                    \* transaction ids, each standing for its transaction
    Inputs,                 \* outpoints a transaction spends: <<txid, index>>
    Vsize, Fee,
    Signals,                \* transactions that signal replacement (BIP 125)
    WellFormed,             \* transactions that Kernel::validate_transaction accepts
    max_size, max_tx_size, max_ancestors,
    MaxAncestorSize,        \* max_ancestor_size_kb * 1024
    min_relay_fee, incremental_relay_fee, enable_rbf

ASSUME TxAssumption ==
    /\ IsFiniteSet(Txs)
    /\ DOMAIN Inputs = Txs
    /\ Vsize \in [Txs -> Nat] /\ Fee \in [Txs -> Nat]
    /\ Signals \subseteq Txs /\ WellFormed \subseteq Txs
    /\ \A t \in WellFormed : Inputs[t] # {}
ASSUME PolicyAssumption ==
    /\ max_size \in Nat /\ max_tx_size \in Nat /\ max_ancestors \in Nat
    /\ MaxAncestorSize \in Nat /\ enable_rbf \in BOOLEAN
    /\ min_relay_fee \in Nat /\ incremental_relay_fee \in Nat

VARIABLE pool

Outpoints == UNION {Inputs[t] : t \in Txs}

-----------------------------------------------------------------------------
(* Statistics of an entry: number, size and fees of a group of transactions *)

Stats == [count : Nat, size : Nat, fees : Nat]

Own(t) == [count |-> 1, size |-> Vsize[t], fees |-> Fee[t]]

\* The sum of the numbers f[x], and of the statistics f[x], of all x in S.
SumOf(f, S) == MapThenSumSet(LAMBDA x : f[x], S)

Total(f, S) == [count |-> SumOf([x \in S |-> f[x].count], S),
                size  |-> SumOf([x \in S |-> f[x].size], S),
                fees  |-> SumOf([x \in S |-> f[x].fees], S)]

TotalOf(S) == Total([t \in S |-> Own(t)], S)

Plus(x, y) == [k \in DOMAIN x |-> x[k] + y[k]]

\* update_ancestor_state and update_descendant_state with negative deltas:
\* never below zero.
Less(x, y) == [k \in DOMAIN x |-> IF y[k] > x[k] THEN 0 ELSE x[k] - y[k]]

\* fee_rate in whole satoshis per virtual byte.
Rate(t) == Fee[t] \div (IF Vsize[t] = 0 THEN 1 ELSE Vsize[t])

-----------------------------------------------------------------------------
(* Operations on a pool *)

NewMempool == [entries |-> [t \in {} |-> Own(t)], spends |-> [o \in {} |-> o],
               size |-> 0, fees |-> 0]

InPool(m) == DOMAIN m.entries

\* Mutants of RemoveAll: spends is not cleaned; children keep the link.
RemoveAllKeepSpends(m, S) ==
    LET out == S \cap InPool(m)
    IN [m EXCEPT !.entries = [t \in InPool(m) \ out |->
                       [m.entries[t] EXCEPT !.parents = @ \ out, !.children = @ \ out]],
                 !.size = @ - TotalOf(out).size,
                 !.fees = @ - TotalOf(out).fees]
RemoveAllKeepParents(m, S) ==
    LET out == S \cap InPool(m)
    IN [entries |-> [t \in InPool(m) \ out |->
                       [m.entries[t] EXCEPT !.children = @ \ out]],
        spends |-> [o \in {o \in DOMAIN m.spends : \A t \in out : o \notin Inputs[t]}
                      |-> m.spends[o]],
        size |-> m.size - TotalOf(out).size,
        fees |-> m.fees - TotalOf(out).fees]

\* remove_tx for each member of S that is in the pool.  The order does not
\* matter: a removal changes only direct parents and children.
RemoveAll(m, S) ==
    LET out == S \cap InPool(m)
    IN [entries |-> [t \in InPool(m) \ out |->
            LET e == m.entries[t]
            IN [parents  |-> e.parents \ out,
                children |-> e.children \ out,
                anc  |-> Less(e.anc, TotalOf(e.parents \cap out)),
                desc |-> Less(e.desc, TotalOf(e.children \cap out))]],
        spends |-> [o \in {o \in DOMAIN m.spends : \A t \in out : o \notin Inputs[t]}
                      |-> m.spends[o]],
        size |-> m.size - TotalOf(out).size,
        fees |-> m.fees - TotalOf(out).fees]

\* find_conflicts: the outpoints of t already spent, and their spenders.
Contested(m, t) == Inputs[t] \cap DOMAIN m.spends
Conflicts(m, t) == {m.spends[o] : o \in Contested(m, t)}

\* find_parents
Parents(m, t) == {o[1] : o \in Inputs[t]} \cap InPool(m)

\* calculate_ancestors, with t itself: the sum over the parents, so that an
\* ancestor shared by two parents counts twice.
AncestorStats(m, t) ==
    LET p == Parents(m, t)
    IN Plus(Own(t), Total([q \in p |-> m.entries[q].anc], p))

\* Mutant of WithinLimits: the transaction itself is not counted.
WithinLimitsButSelf(m, t) ==
    LET a == AncestorStats(m, t)
    IN a.count - 1 <= max_ancestors /\ a.size <= MaxAncestorSize

\* check_ancestor_limits
WithinLimits(m, t) ==
    LET a == AncestorStats(m, t)
    IN a.count <= max_ancestors /\ a.size <= MaxAncestorSize

\* check_rbf: the fee must grow with the difference in size, either way.
CheckRbf(t, bump, diff) ==
    /\ enable_rbf /\ t \in Signals
    /\ bump >= incremental_relay_fee * diff

\* The rules of handle_replacement.  A spender counts once for every outpoint
\* contested with it.
MayReplace(m, t) ==
    LET cost == Total([o \in Contested(m, t) |-> Own(m.spends[o])], Contested(m, t))
        bump == IF Fee[t] > cost.fees THEN Fee[t] - cost.fees ELSE 0
        diff == IF Vsize[t] > cost.size THEN Vsize[t] - cost.size
                                        ELSE cost.size - Vsize[t]
    IN /\ Conflicts(m, t) \subseteq Signals
       /\ CheckRbf(t, bump, diff)

\* The checks of add_tx before it changes anything.
Admissible(m, t) ==
    /\ t \notin InPool(m)
    /\ t \in WellFormed
    /\ Vsize[t] <= max_tx_size
    /\ Rate(t) >= min_relay_fee
    /\ Contested(m, t) # {} => MayReplace(m, t)

\* add_tx after its checks: spends, the direct parents, totals and entries.
Insert(m, t) ==
    LET p == Parents(m, t)
        new == [parents |-> p, children |-> {},
                anc |-> AncestorStats(m, t), desc |-> Own(t)]
        told(e) == [parents |-> e.parents, children |-> e.children \cup {t},
                    anc |-> e.anc, desc |-> Plus(e.desc, Own(t))]
    IN [entries |-> [u \in InPool(m) \cup {t} |->
                       IF u = t THEN new
                       ELSE IF u \in p THEN told(m.entries[u]) ELSE m.entries[u]],
        spends |-> [o \in DOMAIN m.spends \cup Inputs[t] |->
                      IF o \in Inputs[t] THEN t ELSE m.spends[o]],
        size |-> m.size + Vsize[t],
        fees |-> m.fees + Fee[t]]

\* Mutant of Victims: eviction stops one transaction early.
VictimsButOne(m) ==
    {V \in SUBSET InPool(m) :
        /\ \A v \in V, w \in InPool(m) \ V : Rate(v) <= Rate(w)
        /\ \/ V = {} /\ m.size <= max_size
           \/ \E v \in InPool(m) \ V : m.size - TotalOf(V \cup {v}).size <= max_size}

\* maybe_evict: the groups it may remove.  It goes through the entries by fee
\* rate, lowest first and equal ones in any order, until the rest fits.
Victims(m) ==
    {V \in SUBSET InPool(m) :
        /\ \A v \in V, w \in InPool(m) \ V : Rate(v) <= Rate(w)
        /\ m.size - TotalOf(V).size <= max_size
        /\ V # {} => \E v \in V : /\ \A w \in V : Rate(w) <= Rate(v)
                                  /\ m.size - TotalOf(V \ {v}).size > max_size}

-----------------------------------------------------------------------------
(* Calls *)

MPInit == pool = NewMempool

\* add_tx that admits t, replacing what it conflicts with, and makes room.
AddTx(t) ==
    /\ Admissible(pool, t)
    /\ LET m == RemoveAll(pool, Conflicts(pool, t))
       IN /\ WithinLimits(m, t)
          /\ \E V \in Victims(Insert(m, t)) : pool' = RemoveAll(Insert(m, t), V)

\* add_tx that fails on the ancestor limits: by then it has removed the
\* transactions that t was to replace.
AddTxFails(t) ==
    /\ Admissible(pool, t)
    /\ Conflicts(pool, t) # {}
    /\ LET m == RemoveAll(pool, Conflicts(pool, t))
       IN ~WithinLimits(m, t) /\ pool' = m

RemoveTx(t) ==
    /\ t \in InPool(pool)
    /\ pool' = RemoveAll(pool, {t})

\* update_height: entries past the expiry time are removed.  The time is the
\* wall clock's, which may have been set back, so any of them may be.
UpdateHeight ==
    \E E \in (SUBSET InPool(pool)) \ {{}} : pool' = RemoveAll(pool, E)

Clear == pool' = NewMempool

MPNext ==
    \/ \E t \in Txs : AddTx(t) \/ AddTxFails(t) \/ RemoveTx(t)
    \/ UpdateHeight
    \/ Clear

MPSpec == MPInit /\ [][MPNext]_pool
-----------------------------------------------------------------------------
(* The inductive invariant, as a predicate on a pool *)

SpendsExactOf(m) ==
    /\ DOMAIN m.spends = UNION {Inputs[t] : t \in InPool(m)}
    /\ \A t \in InPool(m) : \A o \in Inputs[t] : m.spends[o] = t

LinksSoundOf(m) ==
    \A t \in InPool(m) :
        /\ \A p \in m.entries[t].parents :
              /\ p \in InPool(m) /\ t \in m.entries[p].children
              /\ \E o \in Inputs[t] : o[1] = p
        /\ \A c \in m.entries[t].children :
              c \in InPool(m) /\ t \in m.entries[c].parents

PoolSound(m) == InPool(m) \subseteq Txs /\ SpendsExactOf(m) /\ LinksSoundOf(m)

-----------------------------------------------------------------------------
(* Properties *)

\* spends is the index of the inputs of the entries, nothing more and nothing
\* less, after every replacement, eviction and expiry; so no two entries spend
\* the same outpoint.
SpendsExact == SpendsExactOf(pool)

\* Links lead from entry to entry, both ways, and along real inputs.  Not every
\* input within the pool has its link: a child admitted before its parent is
\* never linked to it.
LinksSound == LinksSoundOf(pool)

\* The totals that getmempoolinfo reports and eviction goes by are those of
\* the entries, and within max_size after every call.
TotalsExact ==
    /\ pool.size = TotalOf(InPool(pool)).size
    /\ pool.fees = TotalOf(InPool(pool)).fees
    /\ pool.size <= max_size

\* get_ancestors: the entries reached from t over the parents it has stored, t
\* included here.
Ancestors(m, t) ==
    LET up[n \in 0..Cardinality(Txs)] ==
            IF n = 0 THEN {t}
            ELSE up[n-1] \cup UNION {m.entries[u].parents : u \in up[n-1]}
    IN up[Cardinality(Txs)]

\* The ancestor count add_tx works with, which removals correct for direct
\* children only, is never below the number of ancestors that the links lead to,
\* and that number is within max_ancestors.  It is no limit on what a transaction
\* really builds on: see AncestorLimit.
LinkedAncestorLimit ==
    \A t \in InPool(pool) :
        /\ Cardinality(Ancestors(pool, t)) <= pool.entries[t].anc.count
        /\ Cardinality(Ancestors(pool, t)) <= max_ancestors

\* The entries that t really builds on, t included: those reached over inputs.
RealAncestors(m, t) ==
    LET up[n \in 0..Cardinality(Txs)] ==
            IF n = 0 THEN {t}
            ELSE up[n-1] \cup UNION {Parents(m, u) : u \in up[n-1]}
    IN up[Cardinality(Txs)]

\* "Maximum ancestors allowed": no entry builds on more entries than
\* max_ancestors, itself counted as check_ancestor_limits counts it.
AncestorLimit ==
    \A t \in InPool(pool) : Cardinality(RealAncestors(pool, t)) <= max_ancestors
=============================================================================
