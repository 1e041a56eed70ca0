----------------------------- MODULE MCMempool -----------------------------
(* TxC spends outputs of TxA and of TxB, its parent and grandparent; TxD   *)
(* is another child of TxA, with a child TxE.  TxR conflicts with TxA and  *)
(* with TxD; TxS conflicts with TxB and builds on TxC and TxD.  TxC does   *)
(* not signal replacement, and Dust pays nothing.                          *)
EXTENDS BlockTemplate

CONSTANTS TxA, TxB, TxC, TxD, TxE, TxR, TxS, Dust, Coin

MCTxs == {TxA, TxB, TxC, TxD, TxE, TxR, TxS, Dust}

MCInputs == [t \in MCTxs |->
    CASE t = TxA  -> {<<Coin, 1>>}
      [] t = TxB  -> {<<TxA, 1>>, <<Coin, 2>>}
      [] t = TxC  -> {<<TxA, 2>>, <<TxB, 1>>}
      [] t = TxD  -> {<<TxA, 3>>}
      [] t = TxE  -> {<<Coin, 4>>, <<TxD, 2>>}
      [] t = TxR  -> {<<Coin, 1>>, <<TxA, 3>>}
      [] t = TxS  -> {<<Coin, 2>>, <<TxC, 1>>, <<TxD, 1>>}
      [] t = Dust -> {<<Coin, 3>>}]

MCVsize == [t \in MCTxs |-> IF t \in {TxR, TxD} THEN 2 ELSE 1]
MCFee   == [t \in MCTxs |-> CASE t = TxA -> 1
                              [] t \in {TxB, TxC, TxD} -> 2
                              [] t \in {TxE, TxS} -> 3
                              [] t = TxR -> 5
                              [] t = Dust -> 0]
MCSignals == MCTxs \ {TxC}
MCWeights == {3, 4}
=============================================================================
