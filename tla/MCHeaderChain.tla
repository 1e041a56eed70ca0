--------------------------- MODULE MCHeaderChain ---------------------------
(* A main branch g-a-b-c, a fork d on a, and a header e with an unknown    *)
(* parent; b is a checkpoint in one of the configurations.                 *)
EXTENDS HeaderChain

CONSTANTS g, a, b, c, d, e, unknown

MCHeaders == {g, a, b, c, d, e}
MCParent  == [h \in MCHeaders |->
                 CASE h = a -> g [] h = b -> a [] h = c -> b [] h = d -> a
                   [] OTHER -> unknown]
MCCheckpoints == [n \in {2} |-> b]
LateCheckpoint == [n \in {3} |-> c]
=============================================================================
