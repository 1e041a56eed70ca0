------------------------- MODULE PeerManagerProofs -------------------------
(***************************************************************************)
(* Proofs about PeerManager, for any peers, chains, windows and bounds.    *)
(* The composition is shown to use the downloader and the header chain as  *)
(* their own specifications allow, so that the theorems about those carry  *)
(* over to it, and to implement the headers-first synchronizer.            *)
(***************************************************************************)
EXTENDS PeerManager, DownloaderProofs, HeaderChainProofs

-----------------------------------------------------------------------------
(* The inductive invariant *)

ConnInv ==
    /\ peers \subseteq Peers
    /\ sync_peer \in Peers \cup {NoPeer}
    /\ DOMAIN peer_heights \subseteq Peers
    /\ peers \cup ({sync_peer} \ {NoPeer}) \subseteq DOMAIN peer_heights
    /\ best_known_height \in Nat
    /\ hdr_age \in {"fresh", "due", "stalled"}

\* A GetHeaders leads to a header of the peer's own chain.
RequestInv ==
    /\ getheaders \in [Peers -> Seq(Headers)]
    /\ \A p \in Peers : \A i \in 1..Len(getheaders[p]) :
          getheaders[p][i] \in Elements(PeerChain[p])
    /\ ctl.at = "headers" => ctl.from \in Peers

\* The kernel has every block below one it has, and one at the height it
\* reported when the process started.
KernelInv ==
    /\ stored \subseteq Headers /\ Genesis \in stored /\ IsFiniteSet(stored)
    /\ \A h \in stored \ {Genesis} : Parent[h] \in stored
    /\ start_height \in Nat
    /\ \E h \in stored : depth[h] = start_height

\* Before the headers are synced there is no trace of a block.
BlockInv ==
    /\ DownloaderInv(dl)
    /\ getdata \in [Peers -> Seq(Headers)]
    /\ channel \in Seq(Headers)
    /\ headers_synced \in BOOLEAN
    /\ ~headers_synced => /\ dl = NewDownloader
                          /\ \A p \in Peers : getdata[p] = << >>
                          /\ channel = << >>
    /\ PlanTracked

PMInv == HCBase /\ ConnInv /\ RequestInv /\ KernelInv /\ BlockInv

-----------------------------------------------------------------------------
(* Operators *)

\* A finite set of numbers has a greatest one.
LEMMA FiniteMax ==
    ASSUME NEW S \in SUBSET Nat, IsFiniteSet(S), S # {}
    PROVE  \E m \in S : \A n \in S : n <= m
<1> DEFINE HasMax(T) == \E m \in T : \A n \in T : n <= m
           Bad == {k \in Nat : \E T \in SUBSET S : /\ T # {} /\ ~HasMax(T)
                                                   /\ Cardinality(T) = k}
<1>1. SUFFICES ASSUME Bad # {} PROVE FALSE
  <2>1. SUFFICES ASSUME ~HasMax(S) PROVE FALSE
    OBVIOUS
  <2>2. Cardinality(S) \in Nat
    BY FS_CardinalityType
  <2> QED
    BY <1>1, <2>1, <2>2
<1> HIDE DEF Bad
<1>2. Bad \subseteq Nat
  BY DEF Bad
<1>3. PICK k \in Bad : \A j \in Bad : ~(<<j, k>> \in OpToRel(<, Nat))
  BY <1>1, <1>2, NatLessThanWellFounded, WFMin, Zenon
<1>4. k \in Nat /\ \A j \in Bad : ~(j < k)
  BY <1>2, <1>3 DEF OpToRel
<1>5. PICK T \in SUBSET S : T # {} /\ ~HasMax(T) /\ Cardinality(T) = k
  BY <1>3 DEF Bad
<1>6. PICK x \in T : TRUE
  BY <1>5
<1> DEFINE U == T \ {x}
<1>7. IsFiniteSet(T)
  BY <1>5, FS_Subset
<1>8. IsFiniteSet(U) /\ Cardinality(U) = k - 1 /\ Cardinality(U) \in Nat
  BY <1>5, <1>6, <1>7, FS_RemoveElement, FS_CardinalityType
<1>9. CASE U = {}
  <2>1. T = {x} /\ x \in Nat
    BY <1>6, <1>9
  <2> QED
    BY <1>5, <2>1
<1>10. CASE U # {}
  <2>1. k - 1 \notin Bad
    BY <1>4, <1>8
  <2>2. U \in SUBSET S
    BY <1>6
  <2>3. HasMax(U)
    BY <1>8, <1>10, <2>1, <2>2 DEF Bad
  <2> PICK m \in U : \A n \in U : n <= m
    BY <2>3
  <2>4. m \in Nat /\ x \in Nat /\ m \in T /\ x \in T /\ \A n \in T : n \in Nat /\ (n \in U \/ n = x)
    BY <1>6
  <2>5. CASE x <= m
    BY <1>5, <2>4, <2>5
  <2>6. CASE ~(x <= m)
    <3>1. \A n \in T : n <= x
      BY <2>4, <2>6
    <3> QED
      BY <1>5, <2>4, <3>1
  <2> QED
    BY <2>5, <2>6
<1> QED
  BY <1>9, <1>10

\* active_height of a finite set of blocks.
LEMMA KernelHeightType ==
    ASSUME NEW S \in SUBSET Headers, IsFiniteSet(S), S # {}
    PROVE  KernelHeight(S) \in Nat /\ \E h \in S : depth[h] = KernelHeight(S)
<1> DEFINE D == {depth[h] : h \in S}
           f == [h \in S |-> depth[h]]
<1>1. D \in SUBSET Nat /\ D # {}
  BY HeightAssumption
<1>2. f \in Surjection(S, D)
  BY DEF Surjection
<1>3. IsFiniteSet(D)
  BY <1>2, FS_Surjection
<1>4. \E m \in D : \A n \in D : n <= m
  BY <1>1, <1>3, FiniteMax
<1>5. \E m \in D : \A h \in S : depth[h] <= m
  BY <1>4
<1>6. KernelHeight(S) \in D
  BY <1>5 DEF KernelHeight
<1> QED
  BY <1>1, <1>6

\* The first header of the locator that a peer knows is one of its own.
LEMMA AnchorKnown ==
    ASSUME HCBase, NEW p \in Peers
    PROVE  Anchor(p) \in Headers /\ Anchor(p) \in Elements(PeerChain[p])
<1> DEFINE known == {i \in 1..Len(recent_chain) :
                        recent_chain[i] \in Elements(PeerChain[p])}
<1>1. /\ recent_chain \in Seq(Headers) /\ Len(recent_chain) >= 1
      /\ recent_chain[1] = Genesis /\ Len(recent_chain) \in Nat
  BY DEF HCBase, HCTypeOK, IndexAgrees
<1>2. Genesis \in Elements(PeerChain[p])
  BY PeerManagerConstants DEF Elements
<1>3. 1 \in known
  BY <1>1, <1>2
<1>4. known \in SUBSET Nat /\ \A i \in known : i <= Len(recent_chain)
  BY <1>1
<1>5. IsFiniteSet(known)
  BY <1>1, <1>4, FS_BoundedSetOfNaturals
<1>6. \E i \in known : \A j \in known : j <= i
  BY <1>3, <1>4, <1>5, FiniteMax
<1> DEFINE i0 == CHOOSE i \in known : \A j \in known : j <= i
<1>7. i0 \in known
  BY <1>6
<1>8. Anchor(p) = recent_chain[i0]
  BY DEF Anchor
<1> QED
  BY <1>1, <1>7, <1>8

\* The headers a peer answers with fit in a message.
LEMMA FollowingFits ==
    ASSUME NEW p \in Peers, NEW x \in Elements(PeerChain[p])
    PROVE  /\ Following(p, x) \in Seq(Headers)
           /\ Following(p, x) # << >> => Following(p, x) \in HeaderBatches
<1> DEFINE c == PeerChain[p]
           i == CHOOSE k \in 1..Len(c) : c[k] = x
           n == IF i + MaxHeaders < Len(c) THEN i + MaxHeaders ELSE Len(c)
           b == SubSeq(c, i + 1, n)
<1>1. c \in Seq(Headers) /\ Len(c) \in Nat /\ MaxHeaders \in Nat \ {0}
  BY PeerManagerConstants, HeaderBound
<1>2. i \in 1..Len(c)
  BY DEF Elements
<1> HIDE DEF i
<1>3. n \in i..Len(c) /\ n - i <= MaxHeaders /\ n \in Nat
  BY <1>1, <1>2
<1> HIDE DEF n
<1>4. b \in Seq(Headers) /\ Len(b) = n - i
  BY <1>1, <1>2, <1>3
<1>5. Following(p, x) = b
  BY DEF Following, i, n
<1> HIDE DEF b
<1>6. ASSUME b # << >> PROVE b \in HeaderBatches
  <2>1. Len(b) \in 1..MaxHeaders
    BY <1>1, <1>2, <1>3, <1>4, <1>6
  <2>2. b \in [1..Len(b) -> Headers]
    BY <1>4
  <2> QED
    BY <2>1, <2>2 DEF HeaderBatches
<1> QED
  BY <1>4, <1>5, <1>6

LEMMA AboveType ==
    ASSUME NEW c \in Seq(Headers), NEW n \in Nat
    PROVE  /\ Above(c, n) \in Seq(Headers) /\ Above(c, n) \in Seq(Hashes)
           /\ Len(Above(c, n)) <= Len(c)
           /\ Len(c) <= 1 => Above(c, n) = << >>
<1>1. Len(c) \in Nat
  OBVIOUS
<1>2. \A k \in (n + 2)..Len(c) : c[k] \in Headers
  OBVIOUS
<1>3. /\ Above(c, n) \in Seq(Headers)
      /\ Len(Above(c, n)) = IF n + 2 <= Len(c) THEN Len(c) - (n + 2) + 1 ELSE 0
  BY <1>1, <1>2 DEF Above
<1> QED
  BY <1>1, <1>3, HashesAreHeaders

\* What poll_assign returns.
LEMMA AssignedType ==
    ASSUME NEW d, DownloaderInv(d), NEW a \in Peers
    PROVE  Assigned(d, a) \in Seq(Headers)
<1>1. d \in DownloaderType
  BY DEF DownloaderInv
<1>2. d.queue \in Seq(Hashes) /\ Rounds(d, a) \in 0..Len(d.queue)
  BY <1>1, RoundsStops DEF DownloaderType
<1> QED
  BY <1>2, HashesAreHeaders DEF Assigned

-----------------------------------------------------------------------------
(* The header chain *)

\* Whatever the event loop does, it uses the header chain as HCNext allows.
LEMMA HeaderStep ==
    ASSUME PMInv, PMNext PROVE [HCNext]_hcVars
<1>1. ASSUME NEW p \in Peers, RecvHeaders(p) PROVE HCNext
  <2> DEFINE x == Head(getheaders[p])
             b == Following(p, x)
  <2>1. getheaders[p] \in Seq(Headers) /\ getheaders[p] # << >>
    BY <1>1 DEF PMInv, RequestInv, RecvHeaders
  <2>2. 1 \in 1..Len(getheaders[p]) /\ x = getheaders[p][1]
    BY <2>1
  <2>3. x \in Elements(PeerChain[p])
    BY <2>2 DEF PMInv, RequestInv
  <2>4. b # << >> /\ BeginExtend(b)
    BY <1>1 DEF RecvHeaders
  <2>5. b \in HeaderBatches
    BY <2>3, <2>4, FollowingFits
  <2> QED
    BY <2>4, <2>5 DEF HCNext
<1>2. ASSUME NEW p \in Peers, RecvAnnouncement(p) PROVE HCNext
  <2> PICK h \in Announces[p] : BeginExtend(<<h>>)
    BY <1>2 DEF RecvAnnouncement
  <2>1. h \in Headers
    <3>1. h \in Elements(PeerChain[p]) /\ PeerChain[p] \in Seq(Headers)
      BY PeerManagerConstants
    <3> QED
      BY <3>1 DEF Elements
  <2>2. 1 \in 1..MaxHeaders /\ <<h>> \in [1..1 -> Headers]
    BY <2>1, HeaderBound
  <2> QED
    BY <2>2 DEF HCNext, HeaderBatches
<1>3. ASSUME Extend PROVE HCNext
  BY <1>3 DEF Extend, HCNext
<1>4. ASSUME Restart PROVE HCNext
  BY <1>4 DEF Restart, HCNext
<1>5. ASSUME NEW p \in Peers,
             \/ AddOutbound(p) \/ RecvAddr(p) \/ RecvError(p) \/ RecvEmptyHeaders(p)
             \/ RecvInv(p) \/ RecvBlock(p) \/ RecvNotFound(p)
      PROVE  UNCHANGED hcVars
  BY <1>5
  DEF AddOutbound, RecvAddr, RecvError, RecvEmptyHeaders, RecvInv, RecvBlock, RecvNotFound
<1>6. ASSUME \/ ConnectDone \/ Rebootstrap \/ HeadersProgress \/ HeadersStuck \/ HeadersDone
             \/ PeriodicRequest \/ SeekSyncPeer \/ ReplaceStalled \/ Tick \/ Expire
             \/ ProcessBlock
      PROVE  UNCHANGED hcVars
  BY <1>6
  DEF ConnectDone, Rebootstrap, HeadersProgress, HeadersStuck, HeadersDone,
      PeriodicRequest, SeekSyncPeer, ReplaceStalled, Tick, Expire, ProcessBlock
<1> QED
  BY <1>1, <1>2, <1>3, <1>4, <1>5, <1>6, Zenon DEF PMNext

LEMMA HeaderKeeps ==
    ASSUME PMInv, PMNext PROVE HCBase'
BY HeaderStep, BaseNext DEF PMInv

-----------------------------------------------------------------------------
(* Connections *)

LEMMA ConnKeeps ==
    ASSUME PMInv, PMNext PROVE ConnInv'
<1>0. ConnInv
  BY DEF PMInv
<1>1. ASSUME NEW p \in Peers, AddOutbound(p) PROVE ConnInv'
  <2> PICK n \in Claims[p] :
        /\ peer_heights' = [q \in DOMAIN peer_heights \cup {p} |->
                               IF q = p THEN n ELSE peer_heights[q]]
        /\ best_known_height' = IF n > best_known_height THEN n ELSE best_known_height
        /\ sync_peer' = IF headers_synced THEN sync_peer ELSE Select(p, n)
    BY <1>1 DEF AddOutbound
  <2>1. n \in Int
    BY PeerManagerConstants
  <2>2. sync_peer' \in {p, sync_peer} /\ DOMAIN peer_heights' = DOMAIN peer_heights \cup {p}
    BY DEF Select
  <2>3. peers' = peers \cup {p} /\ hdr_age' = hdr_age
    BY <1>1 DEF AddOutbound
  <2>4. best_known_height' \in Nat
    BY <1>0, <2>1 DEF ConnInv
  <2> QED
    BY <1>0, <2>2, <2>3, <2>4 DEF ConnInv
<1>2. ASSUME NEW p \in Peers, RecvAddr(p) \/ RecvInv(p) \/ RecvBlock(p) \/ RecvNotFound(p)
      PROVE  ConnInv'
  BY <1>0, <1>2 DEF RecvAddr, RecvInv, RecvBlock, RecvNotFound, ConnInv, connVars
<1>3. ASSUME NEW p \in Peers, RecvError(p) PROVE ConnInv'
  BY <1>0, <1>3 DEF RecvError, ConnInv
<1>4. ASSUME NEW p \in Peers, RecvEmptyHeaders(p) \/ RecvHeaders(p) \/ RecvAnnouncement(p)
      PROVE  ConnInv'
  BY <1>0, <1>4 DEF RecvEmptyHeaders, RecvHeaders, RecvAnnouncement, ConnInv, connVars
<1>5. ASSUME ConnectDone \/ Extend \/ HeadersDone \/ Expire \/ ProcessBlock PROVE ConnInv'
  BY <1>0, <1>5 DEF ConnectDone, Extend, HeadersDone, Expire, ProcessBlock, ConnInv, connVars
<1>6. ASSUME HeadersProgress \/ PeriodicRequest \/ SeekSyncPeer \/ Tick PROVE ConnInv'
  BY <1>0, <1>6 DEF HeadersProgress, PeriodicRequest, SeekSyncPeer, Tick, ConnInv, connVars
<1>7. ASSUME Rebootstrap \/ ReplaceStalled PROVE ConnInv'
  BY <1>0, <1>7 DEF Rebootstrap, ReplaceStalled, ConnInv
<1>8. ASSUME HeadersStuck PROVE ConnInv'
  <2>1. UNCHANGED <<peers, peer_heights, best_known_height>> /\ hdr_age' \in {"fresh", hdr_age}
        /\ (sync_peer' = NoPeer \/ sync_peer' \in peers)
    BY <1>8 DEF HeadersStuck
  <2> QED
    BY <1>0, <2>1 DEF ConnInv
<1>9. ASSUME Restart PROVE ConnInv'
  <2>1. /\ peers' = {} /\ sync_peer' = NoPeer /\ peer_heights' = << >>
        /\ best_known_height' = 0 /\ hdr_age' = "fresh"
    BY <1>9 DEF Restart, SessionStart
  <2> QED
    BY <2>1 DEF ConnInv
<1> QED
  BY <1>1, <1>2, <1>3, <1>4, <1>5, <1>6, <1>7, <1>8, <1>9, Zenon DEF PMNext

-----------------------------------------------------------------------------
(* Header requests *)

\* request_headers, from any state of the loop.
LEMMA RequestKeeps ==
    ASSUME PMInv, NEW p, p \in peers, RequestHeaders(p), ctl' = Loop \/ ctl' = ctl
    PROVE  RequestInv'
<1>1. p \in Peers
  BY DEF PMInv, ConnInv
<1>2. Anchor(p) \in Headers /\ Anchor(p) \in Elements(PeerChain[p])
  BY <1>1, AnchorKnown DEF PMInv
<1>3. getheaders \in [Peers -> Seq(Headers)]
  BY DEF PMInv, RequestInv
<1>4. ctl'.at = "headers" => ctl'.from \in Peers
  BY DEF PMInv, RequestInv, Loop
<1>5. CASE getheaders' = getheaders
  BY <1>4, <1>5 DEF PMInv, RequestInv
<1>6. CASE getheaders' # getheaders
  <2>1. getheaders' = [getheaders EXCEPT ![p] = Append(@, Anchor(p))]
    BY <1>6 DEF RequestHeaders
  <2>2. getheaders' \in [Peers -> Seq(Headers)]
    BY <1>1, <1>2, <1>3, <2>1
  <2>3. \A q \in Peers : q # p => getheaders'[q] = getheaders[q]
    BY <1>3, <2>1
  <2>4. getheaders'[p] = Append(getheaders[p], Anchor(p))
    BY <1>1, <1>3, <2>1
  <2>5. \A i \in 1..Len(getheaders'[p]) : getheaders'[p][i] \in Elements(PeerChain[p])
    <3> TAKE i \in 1..Len(getheaders'[p])
    <3>1. getheaders[p] \in Seq(Headers)
      BY <1>1, <1>3
    <3>2. \/ i \in 1..Len(getheaders[p]) /\ getheaders'[p][i] = getheaders[p][i]
          \/ getheaders'[p][i] = Anchor(p)
      BY <1>2, <2>4, <3>1
    <3> QED
      BY <1>1, <1>2, <3>2 DEF PMInv, RequestInv
  <2> QED
    BY <1>1, <1>4, <2>2, <2>3, <2>5 DEF PMInv, RequestInv
<1> QED
  BY <1>5, <1>6

\* A request is answered.
LEMMA AnsweredKeeps ==
    ASSUME PMInv, NEW p \in Peers, getheaders[p] # << >>,
           getheaders' = [getheaders EXCEPT ![p] = Tail(@)],
           ctl'.at = "headers" => ctl'.from \in Peers
    PROVE  RequestInv'
<1>1. getheaders \in [Peers -> Seq(Headers)] /\ getheaders[p] \in Seq(Headers)
  BY DEF PMInv, RequestInv
<1>2. getheaders' \in [Peers -> Seq(Headers)]
  BY <1>1
<1>3. \A q \in Peers : q # p => getheaders'[q] = getheaders[q]
  BY <1>1
<1>4. ASSUME NEW i \in 1..Len(getheaders'[p])
      PROVE  getheaders'[p][i] \in Elements(PeerChain[p])
  <2>1. getheaders'[p] = Tail(getheaders[p])
    BY <1>1
  <2>2. i + 1 \in 1..Len(getheaders[p]) /\ getheaders'[p][i] = getheaders[p][i + 1]
    BY <1>1, <2>1
  <2> QED
    BY <2>2 DEF PMInv, RequestInv
<1> QED
  BY <1>2, <1>3, <1>4 DEF PMInv, RequestInv

LEMMA RequestsKept ==
    ASSUME PMInv, PMNext PROVE RequestInv'
<1>0. RequestInv /\ \A q : q \in peers => q \in Peers
  BY DEF PMInv, ConnInv
<1>1. ASSUME NEW p \in Peers, RecvEmptyHeaders(p) PROVE RequestInv'
  BY <1>0, <1>1, AnsweredKeeps DEF RecvEmptyHeaders, RequestInv
<1>2. ASSUME NEW p \in Peers, RecvHeaders(p) PROVE RequestInv'
  <2>1. ctl'.from = p
    BY <1>2 DEF RecvHeaders, Handling
  <2> QED
    BY <1>2, <2>1, AnsweredKeeps DEF RecvHeaders
<1>3. ASSUME NEW p \in Peers, RecvAnnouncement(p) PROVE RequestInv'
  <2>1. ctl'.from = p /\ getheaders' = getheaders
    BY <1>3 DEF RecvAnnouncement, Handling, netVars
  <2> QED
    BY <1>0, <2>1 DEF RequestInv
<1>4. ASSUME NEW p \in Peers, RecvError(p) PROVE RequestInv'
  <2>1. getheaders' = [getheaders EXCEPT ![p] = << >>] /\ ctl' = ctl
    BY <1>4 DEF RecvError
  <2> QED
    BY <1>0, <2>1 DEF RequestInv
<1>5. ASSUME NEW p \in Peers, AddOutbound(p) \/ RecvAddr(p) PROVE RequestInv'
  <2>1. getheaders' = getheaders /\ ctl'.at = "connect"
    BY <1>5 DEF AddOutbound, RecvAddr, Connecting, netVars
  <2> QED
    BY <1>0, <2>1 DEF RequestInv
<1>6. ASSUME NEW p \in Peers, RecvInv(p) \/ RecvBlock(p) \/ RecvNotFound(p)
      PROVE  RequestInv'
  BY <1>0, <1>6 DEF RecvInv, RecvBlock, RecvNotFound, RequestInv
<1>7. ASSUME ConnectDone \/ HeadersDone PROVE RequestInv'
  <2>1. getheaders' = getheaders /\ ctl'.at = "loop"
    BY <1>7 DEF ConnectDone, HeadersDone, Loop, netVars
  <2> QED
    BY <1>0, <2>1 DEF RequestInv
<1>8. ASSUME Rebootstrap \/ SeekSyncPeer \/ ReplaceStalled PROVE RequestInv'
  <2>1. getheaders' = getheaders /\ ctl'.at = "connect"
    BY <1>8 DEF Rebootstrap, SeekSyncPeer, ReplaceStalled, Connecting, netVars
  <2> QED
    BY <1>0, <2>1 DEF RequestInv
<1>9. ASSUME Extend \/ Tick \/ Expire \/ ProcessBlock PROVE RequestInv'
  BY <1>0, <1>9 DEF Extend, Tick, Expire, ProcessBlock, RequestInv, netVars
<1>10. ASSUME HeadersProgress PROVE RequestInv'
  <2>1. CASE ctl.from \in peers
    BY <1>10, <2>1, RequestKeeps DEF HeadersProgress
  <2>2. CASE ctl.from \notin peers
    BY <1>0, <1>10, <2>2 DEF HeadersProgress, RequestHeaders, RequestInv, Loop
  <2> QED
    BY <2>1, <2>2
<1>11. ASSUME HeadersStuck PROVE RequestInv'
  <2>1. CASE getheaders' = getheaders
    BY <1>0, <1>11, <2>1 DEF HeadersStuck, RequestInv, Loop
  <2>2. CASE getheaders' # getheaders
    <3> PICK q \in peers : RequestHeaders(q)
      BY <1>11, <2>2 DEF HeadersStuck
    <3> QED
      BY <1>11, RequestKeeps DEF HeadersStuck
  <2> QED
    BY <2>1, <2>2
<1>12. ASSUME PeriodicRequest PROVE RequestInv'
  BY <1>12, RequestKeeps DEF PeriodicRequest
<1>13. ASSUME Restart PROVE RequestInv'
  <2>1. getheaders' = [p \in Peers |-> << >>] /\ ctl'.at = "connect"
    BY <1>13 DEF Restart, SessionStart, Connecting
  <2> QED
    BY <2>1 DEF RequestInv
<1> QED
  BY <1>1, <1>2, <1>3, <1>4, <1>5, <1>6, <1>7, <1>8, <1>9, <1>10, <1>11, <1>12,
     <1>13, Zenon DEF PMNext

-----------------------------------------------------------------------------
(* The kernel *)

\* What a restart leaves of the kernel and of the height it reports.
LEMMA SurvivorsFit ==
    ASSUME KernelInv, NEW S \in Survivors
    PROVE  /\ S \subseteq Headers /\ Genesis \in S /\ IsFiniteSet(S)
           /\ KernelHeight(S) \in Nat /\ \E h \in S : depth[h] = KernelHeight(S)
<1>1. S \subseteq stored /\ Genesis \in S
  BY DEF Survivors
<1>2. S \in SUBSET Headers /\ IsFiniteSet(S)
  BY <1>1, FS_Subset DEF KernelInv
<1> QED
  BY <1>1, <1>2, KernelHeightType

LEMMA KernelKept ==
    ASSUME PMInv, PMNext PROVE KernelInv'
<1>0. KernelInv /\ channel \in Seq(Headers)
  BY DEF PMInv, BlockInv
<1>1. ASSUME ProcessBlock PROVE KernelInv'
  <2>1. Head(channel) \in Headers /\ start_height' = start_height
        /\ stored' = KernelProcess(stored, Head(channel))
    BY <1>0, <1>1 DEF ProcessBlock
  <2>2. IsFiniteSet(stored \cup {Head(channel)}) /\ stored \subseteq stored'
    BY <1>0, <2>1, FS_AddElement DEF KernelInv, KernelProcess
  <2> QED
    BY <1>0, <2>1, <2>2 DEF KernelInv, KernelProcess
<1>2. ASSUME Restart PROVE KernelInv'
  <2> PICK S \in Survivors : stored' = S /\ start_height' = KernelHeight(S)
    BY <1>2 DEF Restart, SessionStart
  <2> QED
    BY <1>0, SurvivorsFit DEF KernelInv, Survivors
<1>3. ASSUME NEW p \in Peers,
             \/ AddOutbound(p) \/ RecvAddr(p) \/ RecvError(p) \/ RecvEmptyHeaders(p)
             \/ RecvHeaders(p) \/ RecvAnnouncement(p)
             \/ RecvInv(p) \/ RecvBlock(p) \/ RecvNotFound(p)
      PROVE  KernelInv'
  BY <1>0, <1>3
  DEF AddOutbound, RecvAddr, RecvError, RecvEmptyHeaders, RecvHeaders, RecvAnnouncement,
      RecvInv, RecvBlock, RecvNotFound, KernelInv
<1>4. ASSUME \/ ConnectDone \/ Rebootstrap \/ Extend \/ HeadersProgress \/ HeadersStuck
             \/ HeadersDone \/ PeriodicRequest \/ SeekSyncPeer \/ ReplaceStalled \/ Tick
             \/ Expire
      PROVE  KernelInv'
  BY <1>0, <1>4
  DEF ConnectDone, Rebootstrap, Extend, HeadersProgress, HeadersStuck, HeadersDone,
      PeriodicRequest, SeekSyncPeer, ReplaceStalled, Tick, Expire, KernelInv
<1> QED
  BY <1>1, <1>2, <1>3, <1>4, Zenon DEF PMNext

-----------------------------------------------------------------------------
(* Blocks *)

LEMMA PushNothing ==
    ASSUME NEW d \in DownloaderType PROVE PushMany(d, << >>) = d
<1>1. d.queue \in Seq(Hashes) /\ d.total \in Nat
  BY DEF DownloaderType
<1>2. d.queue \o << >> = d.queue /\ d.total + Len(<< >>) = d.total
  BY <1>1
<1> DEFINE q == d.queue \o << >>
           n == d.total + Len(<< >>)
<1>3. PushMany(d, << >>) = [d EXCEPT !.queue = q, !.total = n]
  BY DEF PushMany
<1> HIDE DEF q, n
<1>4. q = d.queue /\ n = d.total
  BY <1>2 DEF q, n
<1> QED
  BY <1>3, <1>4 DEF DownloaderType

\* A request for blocks, after blocks may have been queued.
LEMMA AskKeeps ==
    ASSUME NEW d, DownloaderInv(d), NEW p \in Peers, AskBlocks(d, p),
           getdata \in [Peers -> Seq(Headers)]
    PROVE  /\ DownloaderInv(dl') /\ Tracked(dl') = Tracked(d)
           /\ getdata' \in [Peers -> Seq(Headers)]
<1>1. dl' = PollAssign(d, p)
      /\ getdata' = [getdata EXCEPT ![p] = @ \o Assigned(d, p)]
  BY DEF AskBlocks
<1>2. d \in DownloaderType
  BY DEF DownloaderInv
<1>3. Assigned(d, p) \in Seq(Headers)
  BY AssignedType
<1> QED
  BY <1>1, <1>2, <1>3, PollSound, PollKeeps

\* The end of header sync, and the request that follows.
LEMMA CheckSyncKeeps ==
    ASSUME PMInv, NEW p \in Peers, CheckSyncAndAsk(p), channel' = channel
    PROVE  BlockInv'
<1> DEFINE missing == Above(recent_chain, start_height)
           d == IF SyncCompletes THEN PushMany(dl, missing) ELSE dl
<1>1. BlockInv
  BY DEF PMInv
<1>2. missing \in Seq(Hashes)
  BY AboveType DEF PMInv, HCBase, HCTypeOK, KernelInv
<1>3. DownloaderInv(d)
  BY <1>1, <1>2, PushSound DEF BlockInv
<1>4. plan' \subseteq Tracked(d)
  <2>1. CASE SyncCompletes
    <3>1. plan' = Elements(missing) /\ d = PushMany(dl, missing) /\ dl \in DownloaderType
      BY <1>1, <2>1 DEF CheckSyncAndAsk, BlockInv, DownloaderInv
    <3> HIDE DEF missing, d
    <3>2. \A i \in 1..Len(missing) : missing[i] \in Tracked(PushMany(dl, missing))
      BY <1>2, <3>1, PushKeeps
    <3> QED
      BY <3>1, <3>2 DEF Elements
  <2>2. CASE ~SyncCompletes
    BY <1>1, <2>2 DEF CheckSyncAndAsk, BlockInv, PlanTracked
  <2> QED
    BY <2>1, <2>2
<1>5. headers_synced' = (headers_synced \/ SyncCompletes) /\ headers_synced' \in BOOLEAN
  BY <1>1 DEF CheckSyncAndAsk, BlockInv
<1>6. CASE headers_synced'
  <2>1. AskBlocks(d, p)
    BY <1>6 DEF CheckSyncAndAsk
  <2> HIDE DEF d
  <2>2. /\ DownloaderInv(dl') /\ Tracked(dl') = Tracked(d)
        /\ getdata' \in [Peers -> Seq(Headers)]
    BY <1>1, <1>3, <2>1, AskKeeps DEF BlockInv
  <2> QED
    BY <1>1, <1>4, <1>5, <1>6, <2>2 DEF BlockInv, PlanTracked
<1>7. CASE ~headers_synced'
  <2>1. UNCHANGED <<dl, getdata>> /\ ~SyncCompletes /\ ~headers_synced
    BY <1>5, <1>7 DEF CheckSyncAndAsk
  <2>2. d = dl
    BY <2>1
  <2> QED
    BY <1>1, <1>4, <1>5, <1>7, <2>1, <2>2 DEF BlockInv, PlanTracked
<1> QED
  BY <1>5, <1>6, <1>7

\* A restart queues the blocks above the kernel's height; without headers in
\* the file there are none.
LEMMA StartKeeps ==
    ASSUME PMInv, HCBase', Restart PROVE BlockInv'
<1> PICK S \in Survivors : SessionStart(recent_chain', S)
  BY DEF Restart
<1> DEFINE v == Above(recent_chain', KernelHeight(S))
<1>1. recent_chain' \in Seq(Headers) /\ KernelHeight(S) \in Nat
  BY SurvivorsFit DEF PMInv, HCBase, HCTypeOK
<1>2. v \in Seq(Hashes) /\ (Len(recent_chain') <= 1 => v = << >>)
  BY <1>1, AboveType
<1>3. /\ dl' = PushMany(NewDownloader, v) /\ plan' = Elements(dl'.queue)
      /\ headers_synced' = (Len(recent_chain') > 1) /\ channel' = << >>
      /\ getdata' = [p \in Peers |-> << >>]
  BY DEF SessionStart, DLStart
<1> HIDE DEF v
<1>4. DownloaderInv(dl')
  BY <1>2, <1>3, NewSound, PushSound
<1>5. plan' \subseteq Tracked(dl')
  BY <1>3 DEF Elements, Tracked
<1>6. ASSUME ~headers_synced' PROVE dl' = NewDownloader
  <2>1. ~(Len(recent_chain') > 1)
    BY <1>3, <1>6, Zenon
  <2>2. v = << >>
    BY <1>1, <1>2, <2>1
  <2> QED
    BY <1>3, <2>2, PushNothing, NewSound DEF DownloaderInv
<1> QED
  BY <1>3, <1>4, <1>5, <1>6 DEF BlockInv, PlanTracked

LEMMA BlocksKept ==
    ASSUME PMInv, PMNext PROVE BlockInv'
<1>0. /\ BlockInv /\ DownloaderInv(dl) /\ dl \in DownloaderType
      /\ getdata \in [Peers -> Seq(Headers)] /\ channel \in Seq(Headers)
  BY DEF PMInv, BlockInv, DownloaderInv
<1>1. ASSUME NEW p \in Peers, AddOutbound(p) PROVE BlockInv'
  <2>1. UNCHANGED <<headers_synced, channel, plan>>
    BY <1>1 DEF AddOutbound
  <2>2. CASE headers_synced
    <3>1. AskBlocks(dl, p)
      BY <1>1, <2>2 DEF AddOutbound
    <3> QED
      BY <1>0, <2>1, <2>2, <3>1, AskKeeps DEF BlockInv, PlanTracked
  <2>3. CASE ~headers_synced
    <3>1. UNCHANGED <<dl, getdata>>
      BY <1>1, <2>3 DEF AddOutbound
    <3> QED
      BY <1>0, <2>1, <3>1 DEF BlockInv, PlanTracked
  <2> QED
    BY <2>2, <2>3
<1>2. ASSUME NEW p \in Peers, RecvEmptyHeaders(p) PROVE BlockInv'
  BY <1>2, CheckSyncKeeps DEF RecvEmptyHeaders
<1>3. ASSUME HeadersDone PROVE BlockInv'
  <2>1. ctl.from \in Peers
    BY <1>3 DEF HeadersDone, PMInv, RequestInv
  <2> QED
    BY <1>3, <2>1, CheckSyncKeeps DEF HeadersDone
<1>4. ASSUME NEW p \in Peers, RecvInv(p) PROVE BlockInv'
  <2>1. UNCHANGED <<headers_synced, channel, plan>> /\ headers_synced
    BY <1>4 DEF RecvInv
  <2> PICK h \in Elements(PeerChain[p]) :
        AskBlocks(PushMany(dl, IF h \in have_header THEN <<h>> ELSE << >>), p)
    BY <1>4 DEF RecvInv
  <2> DEFINE need == IF h \in have_header THEN <<h>> ELSE << >>
  <2>2. need \in Seq(Hashes)
    BY HashesAreHeaders DEF PMInv, HCBase, HCTypeOK
  <2> HIDE DEF need
  <2>3. DownloaderInv(PushMany(dl, need)) /\ Tracked(dl) \subseteq Tracked(PushMany(dl, need))
    BY <1>0, <2>2, PushSound, PushKeeps
  <2>4. AskBlocks(PushMany(dl, need), p)
    BY DEF need
  <2>5. /\ DownloaderInv(dl') /\ Tracked(dl') = Tracked(PushMany(dl, need))
        /\ getdata' \in [Peers -> Seq(Headers)]
    BY <1>0, <2>3, <2>4, AskKeeps
  <2> QED
    BY <1>0, <2>1, <2>3, <2>5 DEF BlockInv, PlanTracked
<1>5. ASSUME NEW p \in Peers, RecvBlock(p) PROVE BlockInv'
  <2> DEFINE h == Head(getdata[p])
             d == Complete(dl, h)
  <2>1. /\ headers_synced /\ headers_synced' = headers_synced /\ getdata[p] # << >>
        /\ dl' = PollAssign(d, p)
        /\ getdata' = [getdata EXCEPT ![p] = Tail(@) \o Assigned(d, p)]
        /\ channel' = Append(channel, h) /\ plan' = plan \ {h}
    BY <1>5 DEF RecvBlock
  <2>2. getdata[p] \in Seq(Headers) /\ h \in Hashes /\ h \in Headers
        /\ Tail(getdata[p]) \in Seq(Headers)
    BY <1>0, <2>1, HashesAreHeaders
  <2> HIDE DEF h
  <2>3. DownloaderInv(d) /\ Tracked(dl) \subseteq Tracked(d) \cup {h}
    BY <1>0, <2>2, CompleteSound, CompleteKeeps
  <2> HIDE DEF d
  <2>4. DownloaderInv(dl') /\ Tracked(dl') = Tracked(d) /\ Assigned(d, p) \in Seq(Headers)
    <3>1. d \in DownloaderType
      BY <2>3 DEF DownloaderInv
    <3> QED
      BY <2>1, <2>3, <3>1, PollSound, PollKeeps, AssignedType
  <2>5. getdata' \in [Peers -> Seq(Headers)] /\ channel' \in Seq(Headers)
    BY <1>0, <2>1, <2>2, <2>4
  <2>6. plan' \subseteq Tracked(dl')
    BY <1>0, <2>1, <2>3, <2>4 DEF BlockInv, PlanTracked
  <2> QED
    BY <1>0, <2>1, <2>4, <2>5, <2>6 DEF BlockInv, PlanTracked
<1>6. ASSUME Expire PROVE BlockInv'
  <2>1. UNCHANGED <<headers_synced, channel, plan, getdata>>
    BY <1>6 DEF Expire, netVars
  <2> PICK E \in (SUBSET Inflight(dl)) \ {{}} : DLExpire(E)
    BY <1>6 DEF Expire
  <2> PICK s \in Listings(E) : dl' = PushMany(ReassignTimeouts(dl, E), s)
    BY DEF DLExpire
  <2> DEFINE r == ReassignTimeouts(dl, E)
  <2>2. DownloaderInv(r) /\ IsFiniteSet(E) /\ Tracked(dl) \subseteq Tracked(r) \cup E
    BY <1>0, ReassignSound, ReassignKeeps
  <2>3. E \in SUBSET Hashes
    BY DEF Inflight
  <2>4. s \in Seq(Hashes) /\ \A h \in E : \E i \in 1..Len(s) : s[i] = h
    BY <2>2, <2>3, ListingType
  <2>5. r \in DownloaderType
    BY <2>2 DEF DownloaderInv
  <2> HIDE DEF r
  <2>6. dl' = PushMany(r, s)
    BY DEF r
  <2>7. /\ DownloaderInv(dl') /\ Tracked(r) \subseteq Tracked(dl')
        /\ \A i \in 1..Len(s) : s[i] \in Tracked(dl')
    BY <2>2, <2>4, <2>5, <2>6, PushSound, PushKeeps
  <2>8. plan' \subseteq Tracked(dl')
    BY <1>0, <2>1, <2>2, <2>4, <2>7 DEF BlockInv, PlanTracked
  <2>9. headers_synced
    <3>1. SUFFICES ASSUME dl = NewDownloader PROVE Inflight(dl) = {}
      BY <1>0 DEF BlockInv
    <3> QED
      BY <3>1 DEF Inflight, NewDownloader
  <2> QED
    BY <1>0, <2>1, <2>7, <2>8, <2>9 DEF BlockInv, PlanTracked
<1>7. ASSUME NEW p \in Peers, RecvError(p) PROVE BlockInv'
  <2>1. UNCHANGED <<dl, headers_synced, channel, plan>>
        /\ getdata' = [getdata EXCEPT ![p] = << >>]
    BY <1>7 DEF RecvError
  <2> QED
    BY <1>0, <2>1 DEF BlockInv, PlanTracked
<1>8. ASSUME NEW p \in Peers, RecvNotFound(p) PROVE BlockInv'
  <2>1. UNCHANGED <<dl, headers_synced, channel, plan>> /\ getdata[p] # << >>
        /\ getdata' = [getdata EXCEPT ![p] = Tail(@)]
    BY <1>8 DEF RecvNotFound
  <2>2. Tail(getdata[p]) \in Seq(Headers)
    BY <1>0, <2>1
  <2>3. getdata' \in [Peers -> Seq(Headers)] /\ headers_synced
    BY <1>0, <2>1, <2>2 DEF BlockInv
  <2> QED
    BY <1>0, <2>1, <2>3 DEF BlockInv, PlanTracked
<1>9. ASSUME ProcessBlock PROVE BlockInv'
  <2>1. UNCHANGED <<dl, headers_synced, getdata, plan>> /\ channel # << >>
        /\ channel' = Tail(channel)
    BY <1>9 DEF ProcessBlock, netVars
  <2>2. channel' \in Seq(Headers) /\ headers_synced
    BY <1>0, <2>1 DEF BlockInv
  <2> QED
    BY <1>0, <2>1, <2>2 DEF BlockInv, PlanTracked
<1>10. ASSUME Restart PROVE BlockInv'
  BY <1>10, HeaderKeeps, StartKeeps
<1>11. ASSUME NEW p \in Peers, RecvAddr(p) \/ RecvHeaders(p) \/ RecvAnnouncement(p)
       PROVE  BlockInv'
  <2>1. UNCHANGED <<dl, getdata, headers_synced, channel, plan>>
    BY <1>11 DEF RecvAddr, RecvHeaders, RecvAnnouncement, netVars
  <2> QED
    BY <1>0, <2>1 DEF BlockInv, PlanTracked
<1>12. ASSUME \/ ConnectDone \/ Rebootstrap \/ Extend \/ HeadersProgress \/ HeadersStuck
              \/ PeriodicRequest \/ SeekSyncPeer \/ ReplaceStalled \/ Tick
       PROVE  BlockInv'
  <2>1. UNCHANGED <<dl, getdata, headers_synced, channel, plan>>
    BY <1>12 DEF ConnectDone, Rebootstrap, Extend, HeadersProgress, HeadersStuck,
                 PeriodicRequest, SeekSyncPeer, ReplaceStalled, Tick, netVars
  <2> QED
    BY <1>0, <2>1 DEF BlockInv, PlanTracked
<1> QED
  BY <1>1, <1>2, <1>3, <1>4, <1>5, <1>6, <1>7, <1>8, <1>9, <1>10, <1>11, <1>12,
     Zenon DEF PMNext

-----------------------------------------------------------------------------
(* Theorems *)

\* The inductive invariant of the composed event loop: whatever peers, timeouts,
\* crashes and the block processor do.
THEOREM PeerManagerCorrect == PMSpec => []PMInv
<1>1. PMInit => PMInv
  <2> SUFFICES ASSUME PMInit PROVE PMInv
    OBVIOUS
  <2>1. HCBase
    BY InitSound DEF PMInit, HCInv, IndexedOnce, HCBase
  <2>2. ConnInv /\ RequestInv
    BY DEF PMInit, ConnInv, RequestInv, Connecting
  <2>3. KernelInv
    BY FS_Singleton, GenesisAssumption, HeightAssumption DEF PMInit, KernelInv
  <2>4. BlockInv
    <3>1. /\ dl = NewDownloader /\ getdata = [p \in Peers |-> << >>] /\ channel = << >>
          /\ headers_synced = FALSE /\ plan = {}
      BY DEF PMInit
    <3>2. getdata \in [Peers -> Seq(Headers)] /\ channel \in Seq(Headers)
      BY <3>1
    <3> QED
      BY <3>1, <3>2, NewSound DEF BlockInv, PlanTracked
  <2> QED
    BY <2>1, <2>2, <2>3, <2>4 DEF PMInv
<1>2. PMInv /\ [PMNext]_pmVars => PMInv'
  <2> SUFFICES ASSUME PMInv, [PMNext]_pmVars PROVE PMInv'
    OBVIOUS
  <2>1. CASE PMNext
    BY <2>1, HeaderKeeps, ConnKeeps, RequestsKept, KernelKept, BlocksKept DEF PMInv
  <2>2. CASE UNCHANGED pmVars
    BY <2>2 DEF pmVars, hcVars, memVars, fileVars, connVars, netVars, envVars, PMInv, HCBase,
                HCTypeOK, IndexAgrees, ConnInv, RequestInv, KernelInv, BlockInv, PlanTracked
  <2> QED
    BY <2>1, <2>2
<1> QED
  BY <1>1, <1>2, PTL DEF PMSpec

\* Every field of PeerManager keeps its type, and the sync peer and every
\* connected peer have an announced height, which add_outbound unwraps.
THEOREM PeerManagerTypeCorrect == PMSpec => []PMTypeOK
<1>1. PMInv => PMTypeOK
  BY DEF PMInv, PMTypeOK, HCBase, ConnInv, RequestInv, KernelInv, BlockInv,
         DownloaderInv, DLTypeOK
<1> QED
  BY <1>1, PeerManagerCorrect, PTL

\* "헤더 동기화 완료 후에만 블록 다운로드", for any peers and any interleaving.
THEOREM BlocksAlwaysAfterHeaders == PMSpec => []BlocksAfterHeaders
<1>1. PMInv => BlocksAfterHeaders
  <2>1. Tracked(NewDownloader) = {}
    BY DEF Tracked, Inflight, NewDownloader
  <2> QED
    BY <2>1 DEF PMInv, BlockInv, BlocksAfterHeaders
<1> QED
  BY <1>1, PeerManagerCorrect, PTL

\* No lost peer, timeout, duplicate or late answer makes the node forget a block
\* it queued at the end of header sync and has not received.
THEOREM PlanAlwaysTracked == PMSpec => []PlanTracked
<1>1. PMInv => PlanTracked
  BY DEF PMInv, BlockInv
<1> QED
  BY <1>1, PeerManagerCorrect, PTL

-----------------------------------------------------------------------------
(* Refinement *)

\* The event loop, the timers and the restarts use the header chain only as its
\* own specification allows, for any peers and any file.
THEOREM HeaderChainImplemented == PMSpec => ImplementsHeaderChain
<1>1. PMInit => HCInit
  BY DEF PMInit
<1>2. PMInv /\ [PMNext]_pmVars => [HCNext]_hcVars
  <2>1. UNCHANGED pmVars => UNCHANGED hcVars
    BY DEF pmVars
  <2> QED
    BY <2>1, HeaderStep
<1> QED
  BY <1>1, <1>2, PeerManagerCorrect, PTL DEF PMSpec, HCSpec, ImplementsHeaderChain

\* What HeaderChainProofs shows of a header chain of its own holds in the node:
\* its index agrees and it accepts only headers that connect, whatever the file
\* does; with a file that can be read, no header is in it twice; and as long as
\* the file works it keeps its history, has all ancestors and is in the file.
THEOREM HeaderChainInNode ==
    /\ PMSpec => []ChainIndexed /\ []TipKnown /\ AcceptsConnected
    /\ MaxReread = 0 => (PMSpec => []IndexedOnce)
    /\ PMSpec => []Ancestry /\ []CheckpointsHeld /\ []DiskMirrorsChain /\ HistoryStable
<1>1. PMSpec => HCSpec
  BY HeaderChainImplemented DEF ImplementsHeaderChain
<1>2. PMSpec => []ChainIndexed /\ []TipKnown /\ AcceptsConnected
  BY <1>1, ChainAlwaysIndexed, TipAlwaysKnown, OnlyConnectedAccepted
<1>3. ASSUME MaxReread = 0 PROVE PMSpec => []IndexedOnce
  BY <1>1, <1>3, ChainAlwaysOnce
<1>4. PMSpec => []Ancestry /\ []CheckpointsHeld /\ []DiskMirrorsChain /\ HistoryStable
  BY <1>1, AncestryHolds, CheckpointsAlwaysHeld, DiskAlwaysMirrors, HistoryAlwaysStable
<1> QED
  BY <1>2, <1>3, <1>4

\* A chain without duplicates is no longer than there are headers.
LEMMA ChainBounded ==
    ASSUME NEW c \in Seq(Headers), IsFiniteSet(Headers),
           \A i, j \in 1..Len(c) : c[i] = c[j] => i = j
    PROVE  Len(c) <= Cardinality(Headers)
<1>1. Len(c) \in Nat /\ c \in [1..Len(c) -> Headers]
  OBVIOUS
<1>2. c \in Injection(1..Len(c), Headers)
  BY <1>1, Zenon DEF Injection, IsInjective
<1>3. Cardinality(1..Len(c)) <= Cardinality(Headers)
  BY <1>2, FS_Injection
<1>4. Cardinality(1..Len(c)) = Len(c)
  BY <1>1, FS_Interval
<1> QED
  BY <1>3, <1>4

LEMMA BatchFits ==
    ASSUME NEW v \in Seq(Hashes), Len(v) <= MaxBatch PROVE v \in Batches
<1>1. Len(v) \in 0..MaxBatch /\ v \in [1..Len(v) -> Hashes]
  BY BoundAssumption
<1> QED
  BY <1>1 DEF Batches

\* One step of the loop, as a step of the downloader.
LEMMA DownloaderStep ==
    ASSUME MaxReread = 0, IsFiniteSet(Headers),
           Cardinality(Headers) <= MaxBatch, Cardinality(Headers) <= MaxTotal,
           PMInv, HCInv, PMNext
    PROVE  [DLNext]_dl
<1>0. PMInv /\ BlockInv /\ HCTypeOK /\ IndexedOnce /\ KernelInv
  BY DEF PMInv, HCInv
<1>1. Cardinality(Headers) \in Nat /\ MaxBatch \in Nat /\ MaxTotal \in Nat
  BY BoundAssumption, FS_CardinalityType
<1>2. ASSUME NEW p \in Peers, AddOutbound(p) PROVE [DLNext]_dl
  BY <1>2 DEF AddOutbound, AskBlocks, DLNext, DLPoll
<1>3. ASSUME NEW p \in Peers, CheckSyncAndAsk(p) PROVE [DLNext]_dl
  <2> DEFINE missing == Above(recent_chain, start_height)
  <2>1. missing \in Seq(Hashes) /\ Len(missing) <= Cardinality(Headers) /\ Len(missing) \in Nat
    <3>1. recent_chain \in Seq(Headers) /\ start_height \in Nat
      BY <1>0 DEF HCTypeOK, KernelInv
    <3>2. Len(recent_chain) <= Cardinality(Headers)
      BY <1>0, <3>1, ChainBounded DEF IndexedOnce
    <3>3. missing \in Seq(Hashes) /\ Len(missing) <= Len(recent_chain)
      BY <3>1, AboveType
    <3> QED
      BY <1>1, <3>1, <3>2, <3>3
  <2>2. CASE SyncCompletes
    <3>1. dl' = PollAssign(PushMany(dl, missing), p) /\ ~headers_synced
      BY <1>3, <2>2 DEF CheckSyncAndAsk, SyncCompletes, AskBlocks
    <3>2. dl.total = 0
      BY <1>0, <3>1 DEF BlockInv, NewDownloader
    <3> HIDE DEF missing
    <3>3. missing \in Batches
      BY <1>1, <2>1, BatchFits
    <3>4. dl.total + Len(missing) <= MaxTotal
      BY <1>1, <2>1, <3>2
    <3> QED
      BY <3>1, <3>3, <3>4 DEF DLNext, DLPushPoll
  <2>3. CASE ~SyncCompletes
    BY <1>3, <2>3 DEF CheckSyncAndAsk, AskBlocks, DLNext, DLPoll
  <2> QED
    BY <2>2, <2>3
<1>4. ASSUME NEW p \in Peers, RecvEmptyHeaders(p) PROVE [DLNext]_dl
  BY <1>3, <1>4 DEF RecvEmptyHeaders
<1>5. ASSUME HeadersDone PROVE [DLNext]_dl
  BY <1>0, <1>3, <1>5 DEF HeadersDone, PMInv, RequestInv
<1>6. ASSUME NEW p \in Peers, RecvInv(p) PROVE [DLNext]_dl
  <2>0. PICK h \in Elements(PeerChain[p]) :
        LET need == IF h \in have_header THEN <<h>> ELSE << >>
        IN dl.total + Len(need) <= MaxTotal /\ AskBlocks(PushMany(dl, need), p)
    BY <1>6 DEF RecvInv
  <2> DEFINE need == IF h \in have_header THEN <<h>> ELSE << >>
  <2>1. need \in Seq(Hashes) /\ Len(need) \in 0..1
    BY <1>0, HashesAreHeaders DEF HCTypeOK
  <2>2. Cardinality(Headers) # 0
    BY FS_EmptySet, GenesisAssumption
  <2>3. dl.total + Len(need) <= MaxTotal /\ dl' = PollAssign(PushMany(dl, need), p)
    BY <2>0 DEF AskBlocks
  <2> HIDE DEF need
  <2>4. need \in Batches
    <3>1. \A n \in 0..1, c \in Nat, m \in Nat : c # 0 /\ c <= m => n <= m
      OBVIOUS
    <3>2. Len(need) <= MaxBatch
      BY <1>1, <2>1, <2>2, <3>1, Zenon
    <3> QED
      BY <2>1, <3>2, BatchFits
  <2> QED
    BY <2>3, <2>4 DEF DLNext, DLPushPoll
<1>7. ASSUME NEW p \in Peers, RecvBlock(p) PROVE [DLNext]_dl
  <2>1. Head(getdata[p]) \in Hashes
    BY <1>0, <1>7, HashesAreHeaders DEF RecvBlock, BlockInv
  <2> QED
    BY <1>7, <2>1 DEF RecvBlock, DLNext, DLReceive
<1>8. ASSUME Expire PROVE [DLNext]_dl
  BY <1>8 DEF Expire, DLNext
<1>9. ASSUME Restart PROVE [DLNext]_dl
  <2> PICK S \in Survivors : SessionStart(recent_chain', S)
    BY <1>9 DEF Restart
  <2> DEFINE v == Above(recent_chain', KernelHeight(S))
  <2>1. HCInv'
    <3>1. HCRestart /\ LoadFrom(disk)
      BY <1>9, ReadableRestart DEF Restart, HCInv, HCTypeOK
    <3> QED BY <3>1, RestartSound
  <2>2. recent_chain' \in Seq(Headers) /\ KernelHeight(S) \in Nat
    BY <1>0, <2>1, SurvivorsFit DEF HCInv, HCTypeOK
  <2>3. \A i, j \in 1..Len(recent_chain') : recent_chain'[i] = recent_chain'[j] => i = j
    BY <2>1 DEF HCInv, IndexedOnce
  <2>4. Len(recent_chain') <= Cardinality(Headers)
    BY <2>2, <2>3, ChainBounded
  <2>5. v \in Seq(Hashes) /\ Len(v) <= Len(recent_chain')
    BY <2>2, AboveType
  <2>6. dl' = DLStart(v)
    BY DEF SessionStart
  <2> HIDE DEF v
  <2>7. Len(v) <= MaxBatch /\ Len(v) <= MaxTotal
    BY <1>1, <2>2, <2>4, <2>5
  <2>8. v \in Batches
    BY <2>5, <2>7, BatchFits
  <2> QED
    BY <2>6, <2>7, <2>8 DEF DLNext, DLRestart
<1>10. ASSUME NEW p \in Peers,
              \/ RecvAddr(p) \/ RecvError(p) \/ RecvHeaders(p) \/ RecvAnnouncement(p)
              \/ RecvNotFound(p)
       PROVE  UNCHANGED dl
  BY <1>10 DEF RecvAddr, RecvError, RecvHeaders, RecvAnnouncement, RecvNotFound
<1>11. ASSUME \/ ConnectDone \/ Rebootstrap \/ Extend \/ HeadersProgress \/ HeadersStuck
              \/ PeriodicRequest \/ SeekSyncPeer \/ ReplaceStalled \/ Tick \/ ProcessBlock
       PROVE  UNCHANGED dl
  BY <1>11 DEF ConnectDone, Rebootstrap, Extend, HeadersProgress, HeadersStuck,
               PeriodicRequest, SeekSyncPeer, ReplaceStalled, Tick, ProcessBlock
<1> QED
  BY <1>2, <1>4, <1>5, <1>6, <1>7, <1>8, <1>9, <1>10, <1>11, Zenon DEF PMNext

\* The event loop drives the downloader only as its own specification allows, if
\* a push may be as long as the chain: the theorems about windows, slots and
\* progress hold of the node's downloader.
THEOREM DownloaderImplemented ==
    ASSUME MaxReread = 0, IsFiniteSet(Headers),
           Cardinality(Headers) <= MaxBatch, Cardinality(Headers) <= MaxTotal
    PROVE  PMSpec => ImplementsDownloader
<1>1. PMInit => DLInit
  <2> SUFFICES ASSUME PMInit PROVE DLInit
    OBVIOUS
  <2>1. dl = DLStart(<< >>)
    BY PushNothing, NewSound DEF PMInit, DLStart, DownloaderInv
  <2>2. << >> \in Batches /\ Len(<< >>) <= MaxTotal
    <3>1. << >> \in Seq(Hashes) /\ Len(<< >>) = 0
      OBVIOUS
    <3>2. Len(<< >>) <= MaxBatch /\ Len(<< >>) <= MaxTotal
      BY <3>1, BoundAssumption
    <3> QED
      BY <3>1, <3>2, BatchFits
  <2> QED
    BY <2>1, <2>2 DEF DLInit
<1>2. PMInv /\ HCInv /\ [PMNext]_pmVars => [DLNext]_dl
  <2>1. UNCHANGED pmVars => UNCHANGED dl
    BY DEF pmVars
  <2> QED
    BY <2>1, DownloaderStep
<1>3. HCSpec => []HCInv
  BY HeaderChainCorrect
<1> QED
  BY <1>1, <1>2, <1>3, PeerManagerCorrect, HeaderChainImplemented, PTL
  DEF PMSpec, DLSpec, ImplementsDownloader, ImplementsHeaderChain

-----------------------------------------------------------------------------
(* The node is a headers-first synchronizer *)

\* One step of the node, as a step of HeadersFirst.
LEMMA HeadersFirstStep ==
    ASSUME DiskMayFail = FALSE, MaxReread = 0,
           PMInv, HCInv, HCReliable, PMNext
    PROVE  [Abstract!HFNext]_(Abstract!hfVars)
<1> USE DEF Abstract!hfVars
<1>0. /\ BlockInv /\ KernelInv /\ HCTypeOK /\ IndexAgrees /\ TipKnown
      /\ recent_chain \in Seq(Headers) /\ have_header \subseteq Headers
  BY DEF PMInv, HCInv, IndexedOnce, HCTypeOK
<1>1. ASSUME Extend PROVE [Abstract!HFNext]_(Abstract!hfVars)
  <2>1. UNCHANGED <<stored, headers_synced>>
    BY <1>1 DEF Extend
  <2>2. CASE AcceptHeader
    <3>1. /\ Head(batch) \in Headers /\ Head(batch) \notin have_header
          /\ have_header' = have_header \cup {Head(batch)}
          /\ Parent[Head(batch)] = processing_tip /\ batch # << >>
      BY <1>0, <2>2 DEF AcceptHeader, Connects, HCTypeOK
    <3>2. Abstract!LearnHeader(Head(batch))
      BY <1>0, <2>1, <3>1 DEF TipKnown, Abstract!LearnHeader
    <3> QED
      BY <3>1, <3>2 DEF Abstract!HFNext
  <2>3. CASE SkipDuplicate \/ BreakOff
    BY <2>1, <2>3 DEF SkipDuplicate, BreakOff, memVars
  <2> QED
    BY <1>1, <2>2, <2>3 DEF Extend, ExtendStep
<1>2. ASSUME NEW p \in Peers, CheckSyncAndAsk(p), UNCHANGED <<have_header, stored>>
      PROVE  [Abstract!HFNext]_(Abstract!hfVars)
  <2>1. headers_synced' = (headers_synced \/ SyncCompletes) /\ headers_synced \in BOOLEAN
    BY <1>0, <1>2 DEF CheckSyncAndAsk, BlockInv
  <2>2. CASE SyncCompletes
    <3>1. ~headers_synced /\ headers_synced' = TRUE
      BY <2>1, <2>2, Zenon DEF SyncCompletes
    <3> QED
      BY <1>2, <3>1 DEF Abstract!HFNext, Abstract!EndHeaderSync
  <2>3. CASE ~SyncCompletes
    <3>1. headers_synced' = headers_synced
      BY <2>1, <2>3
    <3> QED
      BY <1>2, <3>1
  <2> QED
    BY <2>2, <2>3
<1>3. ASSUME NEW p \in Peers, RecvEmptyHeaders(p)
      PROVE  [Abstract!HFNext]_(Abstract!hfVars)
  <2>1. CheckSyncAndAsk(p) /\ UNCHANGED <<have_header, stored>>
    BY <1>3 DEF RecvEmptyHeaders, hcVars, memVars
  <2> QED
    BY <1>2, <2>1
<1>4. ASSUME HeadersDone PROVE [Abstract!HFNext]_(Abstract!hfVars)
  <2>1. CheckSyncAndAsk(ctl.from) /\ UNCHANGED <<have_header, stored>>
    BY <1>4 DEF HeadersDone, hcVars, memVars
  <2>2. ctl.from \in Peers
    BY <1>4 DEF HeadersDone, PMInv, RequestInv
  <2> QED
    BY <1>2, <2>1, <2>2
<1>5. ASSUME ProcessBlock PROVE [Abstract!HFNext]_(Abstract!hfVars)
  <2> DEFINE h == Head(channel)
  <2>1. /\ UNCHANGED <<have_header, headers_synced>> /\ headers_synced /\ h \in Headers
        /\ stored' = KernelProcess(stored, h)
    BY <1>0, <1>5 DEF ProcessBlock, hcVars, memVars, BlockInv
  <2> HIDE DEF h
  <2>2. CASE Parent[h] \in stored /\ h \notin stored
    BY <2>1, <2>2 DEF KernelProcess, Abstract!HFNext, Abstract!StoreBlock
  <2>3. CASE ~(Parent[h] \in stored /\ h \notin stored)
    <3>1. stored' = stored
      BY <2>1, <2>3 DEF KernelProcess
    <3> QED
      BY <2>1, <3>1
  <2> QED
    BY <2>2, <2>3
<1>6. ASSUME Restart PROVE [Abstract!HFNext]_(Abstract!hfVars)
  <2>0. PICK S \in Survivors : stored' = S /\ headers_synced' = (Len(recent_chain') > 1)
    BY <1>6 DEF Restart, SessionStart
  <2>1. LoadFrom(disk)
    BY <1>0, <1>6, ReadableRestart DEF Restart, HCTypeOK
  <2>2. recent_chain' = recent_chain /\ have_header' = {Genesis} \cup Elements(disk)
    BY <2>1 DEF LoadFrom, HCReliable, FileMirrors
  <2>3. Elements(recent_chain) = {Genesis} \cup Elements(disk)
    BY <1>0, GenesisAssumption, LoadFacts DEF HCTypeOK, HCReliable, FileMirrors
  <2>4. have_header' = have_header
    BY <1>0, <2>2, <2>3 DEF IndexAgrees
  <2>5. have_header \in Abstract!Rooted
    <3>1. ASSUME NEW h \in have_header, h # Genesis PROVE Parent[h] \in have_header
      <4> PICK i \in 1..Len(recent_chain) : recent_chain[i] = h
        BY <1>0 DEF IndexAgrees, Elements
      <4>1. i # 1
        BY <1>0, <3>1 DEF IndexAgrees
      <4>2. i \in 2..Len(recent_chain)
        BY <1>0, <4>1
      <4> PICK j \in 1..(i-1) : Parent[recent_chain[i]] = recent_chain[j]
        BY <4>2 DEF HCReliable, ParentsBefore
      <4>3. j \in 1..Len(recent_chain) /\ Parent[h] = recent_chain[j]
        BY <1>0, <4>2
      <4> QED
        BY <1>0, <4>3 DEF IndexAgrees, Elements
    <3>2. Genesis \in have_header
      BY <2>2, <2>4
    <3> QED
      BY <1>0, <3>1, <3>2 DEF Abstract!Rooted
  <2>6. S \in Abstract!Rooted /\ S \subseteq stored
    BY <1>0 DEF Survivors, KernelInv, Abstract!Rooted
  <2>7. Len(recent_chain) > 1 <=> have_header # {Genesis}
    <3>1. Len(recent_chain) \in Nat /\ Len(recent_chain) >= 1 /\ recent_chain[1] = Genesis
      BY <1>0 DEF IndexAgrees
    <3>2. ASSUME Len(recent_chain) > 1 PROVE have_header # {Genesis}
      <4>1. 1 \in 1..Len(recent_chain) /\ 2 \in 1..Len(recent_chain)
        BY <3>1, <3>2
      <4>2. recent_chain[2] # recent_chain[1]
        BY <4>1 DEF HCInv, IndexedOnce
      <4>3. recent_chain[2] \in have_header
        BY <1>0, <4>1 DEF IndexAgrees, Elements
      <4> QED
        BY <3>1, <4>2, <4>3
    <3>3. ASSUME ~(Len(recent_chain) > 1) PROVE have_header = {Genesis}
      <4>1. \A n \in Nat : n >= 1 /\ ~(n > 1) => n = 1
        OBVIOUS
      <4>2. Len(recent_chain) = 1
        BY <3>1, <3>3, <4>1, Zenon
      <4> QED
        BY <1>0, <3>1, <4>2 DEF IndexAgrees, Elements
    <3> QED
      BY <3>2, <3>3
  <2>8. headers_synced' = (have_header' # {Genesis})
    <3>1. (Len(recent_chain') > 1) = (have_header' # {Genesis})
      BY <2>2, <2>4, <2>7
    <3> QED
      BY <2>0, <3>1, Zenon
  <2>9. Abstract!RestartNode
    BY <2>0, <2>4, <2>5, <2>6, <2>8, Zenon DEF Abstract!RestartNode
  <2> QED
    BY <2>9 DEF Abstract!HFNext
<1>7. ASSUME NEW p \in Peers,
             \/ AddOutbound(p) \/ RecvAddr(p) \/ RecvError(p) \/ RecvInv(p)
             \/ RecvBlock(p) \/ RecvNotFound(p)
      PROVE  UNCHANGED <<have_header, stored, headers_synced>>
  BY <1>7 DEF AddOutbound, RecvAddr, RecvError, RecvInv, RecvBlock, RecvNotFound, hcVars, memVars
<1>8. ASSUME NEW p \in Peers, RecvHeaders(p) \/ RecvAnnouncement(p)
      PROVE  UNCHANGED <<have_header, stored, headers_synced>>
  BY <1>8 DEF RecvHeaders, RecvAnnouncement, BeginExtend, memVars
<1>9. ASSUME \/ ConnectDone \/ Rebootstrap \/ HeadersProgress \/ HeadersStuck
             \/ PeriodicRequest \/ SeekSyncPeer \/ ReplaceStalled \/ Tick \/ Expire
      PROVE  UNCHANGED <<have_header, stored, headers_synced>>
  BY <1>9 DEF ConnectDone, Rebootstrap, HeadersProgress, HeadersStuck,
              PeriodicRequest, SeekSyncPeer, ReplaceStalled, Tick, Expire, hcVars, memVars
<1> QED
  BY <1>1, <1>3, <1>4, <1>5, <1>6, <1>7, <1>8, <1>9, Zenon DEF PMNext

\* The whole node, with a working headers file, implements the abstract
\* headers-first synchronizer: no interleaving of peers, timeouts, crashes and
\* the block processor learns a header or stores a block without its parent, or
\* stores a block before header sync is over.
THEOREM HeadersFirstImplemented ==
    ASSUME DiskMayFail = FALSE, MaxReread = 0
    PROVE  PMSpec => ImplementsHeadersFirst
<1>1. PMInit => Abstract!HFInit
  BY DEF PMInit, HCInit, Abstract!HFInit
<1>2. PMInv /\ (HCInv /\ HCReliable) /\ [PMNext]_pmVars
        => [Abstract!HFNext]_(Abstract!hfVars)
  <2>1. UNCHANGED pmVars => UNCHANGED (Abstract!hfVars)
    BY DEF pmVars, hcVars, memVars, Abstract!hfVars
  <2> QED
    BY <2>1, HeadersFirstStep
<1>3. HCSpec => [](HCInv /\ HCReliable)
  BY ReliableChainCorrect
<1> QED
  BY <1>1, <1>2, <1>3, PeerManagerCorrect, HeaderChainImplemented, PTL
  DEF PMSpec, Abstract!HFSpec, ImplementsHeadersFirst, ImplementsHeaderChain

-----------------------------------------------------------------------------
(* Heights *)

\* Induction over the numbers, with a set for the predicate.
LEMMA UpFromZero ==
    ASSUME NEW P, 0 \in P, \A n \in Nat : n \in P => n + 1 \in P
    PROVE  \A n \in Nat : n \in P
<1> DEFINE Bad == {n \in Nat : n \notin P}
<1>1. SUFFICES ASSUME Bad # {} PROVE FALSE
  OBVIOUS
<1> HIDE DEF Bad
<1>2. Bad \subseteq Nat
  BY DEF Bad
<1>3. PICK k \in Bad : \A j \in Bad : ~(<<j, k>> \in OpToRel(<, Nat))
  BY <1>1, <1>2, NatLessThanWellFounded, WFMin, Zenon
<1>4. k \in Nat /\ k \notin P /\ \A j \in Bad : ~(j < k)
  BY <1>2, <1>3 DEF OpToRel, Bad
<1>5. k # 0
  BY <1>4
<1>6. k - 1 \in Nat /\ (k - 1) + 1 = k /\ k - 1 < k
  BY <1>4, <1>5
<1>7. k - 1 \notin Bad
  BY <1>4, <1>6
<1>8. k - 1 \in P
  BY <1>6, <1>7 DEF Bad
<1> QED
  BY <1>4, <1>6, <1>8

\* The blocks a kernel can have: none without its parent.
Grounded(S) == S \subseteq Headers /\ \A h \in S \ {Genesis} : Parent[h] \in S

\* A chain of headers from genesis on, each pointing to the one before.
Chained(c) ==
    /\ c \in Seq(Headers) /\ Len(c) >= 1 /\ c[1] = Genesis
    /\ \A i \in 2..Len(c) : Parent[c[i]] = c[i-1]

\* A kernel that has a block at height m has one at every height below.
LEMMA EveryHeight ==
    ASSUME NEW S, Grounded(S), NEW m \in Nat, \E h \in S : depth[h] = m,
           NEW n \in Nat, n <= m
    PROVE  \E h \in S : depth[h] = n
<1> DEFINE Has(k) == k <= m => \E h \in S : depth[h] = m - k
           P == {k \in Nat : Has(k)}
<1>0. /\ S \subseteq Headers /\ \A h \in S \ {Genesis} : Parent[h] \in S
      /\ \A h \in S : depth[h] \in Nat
  BY HeightAssumption DEF Grounded
<1>1. 0 \in P
  <2>1. m - 0 = m
    OBVIOUS
  <2> QED
    BY <2>1
<1>2. ASSUME NEW k \in Nat, k \in P PROVE k + 1 \in P
  <2>1. SUFFICES ASSUME k + 1 <= m PROVE \E h \in S : depth[h] = m - (k + 1)
    OBVIOUS
  <2>2. k <= m /\ m - k > 0
    BY <2>1
  <2>3. PICK h \in S : depth[h] = m - k
    BY <1>2, <2>2
  <2>4. h # Genesis /\ Parent[h] \in S /\ depth[h] = 1 + depth[Parent[h]]
    BY <1>0, <2>2, <2>3, HeightAssumption
  <2>5. depth[Parent[h]] = m - (k + 1)
    BY <1>0, <2>3, <2>4
  <2> QED
    BY <2>4, <2>5
<1> HIDE DEF P
<1>3. \A k \in Nat : k \in P
  BY <1>1, <1>2, UpFromZero
<1>4. m - n \in Nat /\ m - n <= m /\ m - (m - n) = n
  OBVIOUS
<1> QED
  BY <1>3, <1>4 DEF P

\* Without forks, a block of the kernel at height n is the header of the chain
\* at that height.
LEMMA OneAtEachHeight ==
    ASSUME Forkless, NEW S, Grounded(S), NEW c, Chained(c)
    PROVE  \A n \in Nat : n < Len(c) => \A h \in S : depth[h] = n => c[n + 1] = h
<1> DEFINE Same(n) == n < Len(c) => \A h \in S : depth[h] = n => c[n + 1] = h
           P == {n \in Nat : Same(n)}
<1>0. /\ c \in Seq(Headers) /\ Len(c) \in Nat /\ c[1] = Genesis
      /\ S \subseteq Headers /\ \A h \in S \ {Genesis} : Parent[h] \in S
      /\ \A h \in S : depth[h] \in Nat
  BY HeightAssumption DEF Grounded, Chained
<1>1. 0 \in P
  <2>1. ASSUME NEW h \in S, depth[h] = 0 PROVE h = Genesis
    <3>1. SUFFICES ASSUME h # Genesis PROVE FALSE
      OBVIOUS
    <3>2. h \in Headers /\ Parent[h] \in S /\ depth[h] = 1 + depth[Parent[h]]
      BY <1>0, <3>1, HeightAssumption
    <3> QED
      BY <1>0, <2>1, <3>2
  <2>2. Same(0)
    <3>1. 0 + 1 = 1
      OBVIOUS
    <3> QED
      BY <1>0, <2>1, <3>1
  <2> QED
    BY <2>2
<1>2. ASSUME NEW n \in Nat, n \in P PROVE n + 1 \in P
  <2>1. SUFFICES ASSUME n + 1 < Len(c), NEW h \in S, depth[h] = n + 1
                 PROVE  c[(n + 1) + 1] = h
    OBVIOUS
  <2>2. n < Len(c) /\ n + 2 \in 2..Len(c) /\ (n + 1) + 1 = n + 2
        /\ (n + 2) - 1 = n + 1 /\ n + 2 \in 1..Len(c) /\ n + 1 # 0
    BY <1>0, <2>1
  <2>3. h # Genesis /\ depth[h] = 1 + depth[Parent[h]] /\ Parent[h] \in S
    BY <1>0, <2>1, <2>2, HeightAssumption
  <2>4. depth[Parent[h]] = n
    BY <1>0, <2>1, <2>3
  <2>5. c[n + 1] = Parent[h]
    BY <1>2, <2>2, <2>3, <2>4
  <2>6. Parent[c[n + 2]] = Parent[h] /\ c[n + 2] \in Headers
    BY <1>0, <2>2, <2>5 DEF Chained
  <2> QED
    BY <1>0, <2>2, <2>3, <2>6 DEF Forkless
<1> HIDE DEF P
<1>3. \A n \in Nat : n \in P
  BY <1>1, <1>2, UpFromZero
<1> QED
  BY <1>3 DEF P

\* Without forks, a kernel that has a block at height m has the headers of the
\* chain up to that height.
LEMMA BlocksBelow ==
    ASSUME Forkless, NEW S, Grounded(S), NEW c, Chained(c),
           NEW m \in Nat, \E h \in S : depth[h] = m
    PROVE  \A i \in 1..Len(c) : i <= m + 1 => c[i] \in S
<1> SUFFICES ASSUME NEW i \in 1..Len(c), i <= m + 1 PROVE c[i] \in S
  OBVIOUS
<1>1. Len(c) \in Nat
  BY DEF Chained
<1>2. i - 1 \in Nat /\ i - 1 <= m /\ i - 1 < Len(c) /\ (i - 1) + 1 = i
  BY <1>1
<1>3. PICK h \in S : depth[h] = i - 1
  BY <1>2, EveryHeight
<1>4. c[(i - 1) + 1] = h
  BY <1>2, <1>3, OneAtEachHeight
<1> QED
  BY <1>2, <1>4

LEMMA ChainIsChained ==
    ASSUME HCInv, ChainContinuity PROVE Chained(recent_chain)
BY DEF HCInv, HCTypeOK, IndexedOnce, IndexAgrees, ChainContinuity, Chained

\* Without forks and with a working headers file, the blocks that the download
\* queue leaves out are in the kernel, whatever part of it survived the crashes
\* so far.
THEOREM SkippedBlocksAlwaysStored ==
    ASSUME Forkless, DiskMayFail = FALSE, MaxReread = 0
    PROVE  PMSpec => []SkippedBlocksStored
<1>1. PMInv /\ HCInv /\ ChainContinuity => SkippedBlocksStored
  <2> SUFFICES ASSUME PMInv, HCInv, ChainContinuity PROVE SkippedBlocksStored
    OBVIOUS
  <2>1. Grounded(stored) /\ start_height \in Nat /\ \E h \in stored : depth[h] = start_height
    BY DEF PMInv, KernelInv, Grounded
  <2>2. Chained(recent_chain)
    BY ChainIsChained
  <2> QED
    BY <2>1, <2>2, BlocksBelow DEF SkippedBlocksStored
<1>2. HCSpec => []HCInv
  BY HeaderChainCorrect
<1>3. HCSpec => []ChainContinuity
  BY ContinuousWithoutForks
<1> QED
  BY <1>1, <1>2, <1>3, PeerManagerCorrect, HeaderChainImplemented, PTL
  DEF ImplementsHeaderChain

\* The windows, the slot counters and the progress of the node's downloader are
\* right, however long its queue.
THEOREM DownloaderInNode == PMSpec => []WindowsRespected /\ []SlotsSound /\ []ProgressBounded
<1>1. PMInv => WindowsRespected
  <2> SUFFICES ASSUME PMInv PROVE WindowsRespected
    OBVIOUS
  <2>1. DownloaderInv(dl)
    BY DEF PMInv, BlockInv
  <2> QED
    BY <2>1, WindowsFromInv
<1>2. PMInv => SlotsSound /\ ProgressBounded
  BY DEF PMInv, BlockInv, DownloaderInv, SlotsSound, ProgressBounded
<1> QED
  BY <1>1, <1>2, PeerManagerCorrect, PTL
=============================================================================
