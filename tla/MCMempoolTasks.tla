-------------------------- MODULE MCMempoolTasks --------------------------
(* TxA and TxR spend the same coin, TxB builds on TxA, and TxU has nothing *)
(* to do with them.  TxR is larger than TxA: replacing one by the other    *)
(* beside TxU makes the pool too large, so that one call replaces and      *)
(* evicts.                                                                 *)
EXTENDS MempoolTasks, TLC

CONSTANTS TxA, TxB, TxR, TxU, Coin, K1, K2

MCTxs   == {TxA, TxB, TxR, TxU}
MCSlots == {K1, K2}

MCInputs == [t \in MCTxs |->
    CASE t = TxA -> {<<Coin, 1>>}
      [] t = TxB -> {<<TxA, 1>>}
      [] t = TxR -> {<<Coin, 1>>}
      [] t = TxU -> {<<Coin, 2>>}]

MCVsize   == [t \in MCTxs |-> CASE t = TxR -> 3 [] t = TxU -> 2 [] OTHER -> 1]
MCFee     == [t \in MCTxs |-> CASE t = TxA -> 1 [] t = TxB -> 2 [] OTHER -> 3]
MCSignals == MCTxs \ {TxB}

SlotSymmetry == Permutations(MCSlots)
=============================================================================
