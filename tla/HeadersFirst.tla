---------------------------- MODULE HeadersFirst ----------------------------
(***************************************************************************)
(* What the node promises of its two chains, whatever the peers do: headers*)
(* grow one by one along known parents; blocks follow, parents first, only *)
(* once the headers are synced; and a restart keeps, of each, a set that   *)
(* still has all its ancestors.                                            *)
(***************************************************************************)
CONSTANTS Headers, Parent, Genesis

VARIABLES headers, blocks, synced

hfVars == <<headers, blocks, synced>>

\* Sets of blocks with every parent in them.
Rooted == {S \in SUBSET Headers : /\ Genesis \in S
                                  /\ \A h \in S \ {Genesis} : Parent[h] \in S}

HFInit == headers = {Genesis} /\ blocks = {Genesis} /\ synced = FALSE

LearnHeader(h) ==
    /\ h \notin headers /\ Parent[h] \in headers
    /\ headers' = headers \cup {h}
    /\ UNCHANGED <<blocks, synced>>

EndHeaderSync ==
    /\ ~synced /\ synced' = TRUE
    /\ UNCHANGED <<headers, blocks>>

StoreBlock(b) ==
    /\ synced
    /\ b \notin blocks /\ Parent[b] \in blocks
    /\ blocks' = blocks \cup {b}
    /\ UNCHANGED <<headers, synced>>

\* A node that finds headers on disk starts as synced.
RestartNode ==
    /\ headers' \in Rooted /\ headers' \subseteq headers
    /\ blocks' \in Rooted /\ blocks' \subseteq blocks
    /\ synced' = (headers' # {Genesis})

HFNext == \/ \E h \in Headers : LearnHeader(h) \/ StoreBlock(h)
          \/ EndHeaderSync \/ RestartNode

HFSpec == HFInit /\ [][HFNext]_hfVars
=============================================================================
