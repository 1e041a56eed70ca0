--------------------------- MODULE MCPeerManager ---------------------------
(* Two peers and a few headers: a main branch and a fork F2 on B1.         *)
EXTENDS PeerManager

CONSTANTS P1, P2, G, B1, B2, B3, F2, B4, Unknown

TwoPeers  == {P1, P2}
OnePeer   == {P1}
OtherPeer == {P2}

Short == {G, B1, B2}
Line  == {G, B1, B2, B3}
Long  == {G, B1, B2, B3, B4}
Both  == {G, B1, B2, B3, F2}

Tree == [h \in Long \cup Both |->
            CASE h = B1 -> G [] h = B2 -> B1 [] h = B3 -> B2 [] h = F2 -> B1 [] h = B4 -> B3
              [] OTHER -> Unknown]
ShortParent == [h \in Short |-> Tree[h]]
LineParent  == [h \in Line  |-> Tree[h]]
LongParent  == [h \in Long  |-> Tree[h]]
BothParent  == [h \in Both  |-> Tree[h]]

\* Both peers have the same chain, or P2 lags one block behind, or P2 has the
\* other branch.
Same2    == [x \in Peers |-> <<G, B1, B2>>]
Same3    == [x \in Peers |-> <<G, B1, B2, B3>>]
Same4    == [x \in Peers |-> <<G, B1, B2, B3, B4>>]
Lagging2 == [x \in Peers |-> IF x = P1 THEN <<G, B1, B2>> ELSE <<G, B1>>]
Forked   == [x \in Peers |-> IF x = P1 THEN <<G, B1, B2, B3>> ELSE <<G, B1, F2>>]

NoCheckpoints == [n \in {} |-> G]

\* Every peer announces the height of its chain.
HonestClaims == [x \in Peers |-> {Len(PeerChain[x]) - 1}]

\* What peers send unasked: nothing, the tip of their chain, or any header.
Nothing  == [x \in Peers |-> {}]
Tips     == [x \in Peers |-> {LastOf(PeerChain[x])}]
Anything == [x \in Peers |-> Elements(PeerChain[x]) \ {G}]
=============================================================================
