--------------------------- MODULE BlockTemplate ---------------------------
(***************************************************************************)
(* get_block_template of src/mempool/txmempool.rs on a pool of module      *)
(* Mempool.  The entries come out of a hash map and the parents of an      *)
(* entry out of a hash set, so equal fee rates and parents come in any     *)
(* order; a weight is counted in the units of Vsize.                       *)
(***************************************************************************)
EXTENDS Mempool, SequencesExt

CONSTANT Weights        \* values of max_weight

ASSUME WeightsAssumption == Weights \subseteq Nat

AncestorFeeRate(m, t) ==
    m.entries[t].anc.fees \div (IF m.entries[t].anc.size = 0 THEN 1 ELSE m.entries[t].anc.size)

\* The orders in which the entries may be visited.
Sorted(m) ==
    {ord \in SetToSeqs(InPool(m)) :
        \A i, j \in DOMAIN ord :
            i < j => AncestorFeeRate(m, ord[i]) >= AncestorFeeRate(m, ord[j])}

\* The members of S, in the order in which rank has them.
InOrder(rank, S) ==
    FoldLeft(LAMBDA txs, t : IF t \in S THEN Append(txs, t) ELSE txs, << >>, rank)

\* get_ancestors: one transaction is popped and its parents pushed and listed;
\* one that two children push is listed twice.
Visit(m, rank, s) ==
    LET cur == Last(s.to_visit)
        new == InOrder(rank, m.entries[cur].parents \ (s.visited \cup {cur}))
    IN IF cur \in s.visited
       THEN [s EXCEPT !.to_visit = Front(@)]
       ELSE [to_visit  |-> Front(s.to_visit) \o new,
             visited   |-> s.visited \cup {cur},
             ancestors |-> s.ancestors \o new]

GetAncestors(m, rank, t) ==
    LET pushes == 1 + SumOf([u \in InPool(m) |-> Cardinality(m.entries[u].parents)], InPool(m))
        after[n \in 0..pushes] ==
            IF n = 0 THEN [to_visit |-> <<t>>, visited |-> {}, ancestors |-> << >>]
            ELSE IF after[n-1].to_visit = << >> THEN after[n-1]
            ELSE Visit(m, rank, after[n-1])
    IN after[pushes].ancestors

Weight(txs) == TotalOf(ToSet(txs)).size

\* Mutant of Consider: ancestors that do not fit are left out.
ConsiderWithoutAncestors(m, rank, max_weight, template, t) ==
    LET fits(u) == Weight(template) + Vsize[u] <= max_weight
        push(txs, u) == IF u \in ToSet(txs) THEN txs ELSE Append(txs, u)
        fitting == SelectSeq(GetAncestors(m, rank, t), fits)
    IN IF t \in ToSet(template) \/ ~fits(t) THEN template
       ELSE Append(FoldLeft(push, template, fitting), t)

\* One turn of the loop over the entries: t is skipped, or goes in after its
\* ancestors.  Each of them is weighed alone against what is in already.
Consider(m, rank, max_weight, template, t) ==
    LET fits(u) == Weight(template) + Vsize[u] <= max_weight
        push(txs, u) == IF u \in ToSet(txs) THEN txs ELSE Append(txs, u)
        ancestors == GetAncestors(m, rank, t)
    IN IF \/ t \in ToSet(template) \/ ~fits(t)
          \/ \E a \in ToSet(ancestors) \ ToSet(template) : ~fits(a)
       THEN template
       ELSE Append(FoldLeft(push, template, ancestors), t)

\* The templates it may return.
GetBlockTemplate(m, max_weight) ==
    {FoldLeft(LAMBDA txs, t : Consider(m, rank, max_weight, txs, t), << >>, ord) :
        ord \in Sorted(m), rank \in SetToSeqs(InPool(m))}

-----------------------------------------------------------------------------
(* Properties *)

\* A template has no transaction twice and none without the ancestors that the
\* links of the pool lead to; and a transaction without linked children comes
\* after all of them.  A parent admitted after its child is not linked: it may
\* follow the child or be missing.
TemplateFollowsLinks ==
    \A max_weight \in Weights : \A txs \in GetBlockTemplate(pool, max_weight) :
        /\ IsInjective(txs)
        /\ \A i \in DOMAIN txs : \A a \in Ancestors(pool, txs[i]) \ {txs[i]} :
              \E j \in DOMAIN txs :
                  txs[j] = a /\ (pool.entries[txs[i]].children = {} => j < i)

\* "Include all ancestors first": every transaction comes after the parents it is
\* linked to.
TemplateOrdered ==
    \A max_weight \in Weights : \A txs \in GetBlockTemplate(pool, max_weight) :
        \A i, j \in DOMAIN txs : txs[j] \in pool.entries[txs[i]].parents => j < i

\* "exceeds weight": a template is no heavier than max_weight.
TemplateFits ==
    \A max_weight \in Weights : \A txs \in GetBlockTemplate(pool, max_weight) :
        Weight(txs) <= max_weight
=============================================================================
