-------------------------- MODULE DownloaderProofs --------------------------
(***************************************************************************)
(* For every set of peers and hashes and every pair of windows, the        *)
(* downloader keeps its windows, its slot counters and its progress        *)
(* counters sound, and drops no block it tracks.                           *)
(*                                                                         *)
(* Each method is shown to preserve DownloaderInv as an operator, in a     *)
(* lemma of its own; the actions are compositions of methods, so their     *)
(* proofs cite the lemmas.                                                 *)
(***************************************************************************)
EXTENDS Downloader, FiniteSetTheorems, WellFoundedInduction, TLAPS

-----------------------------------------------------------------------------
(* The loop of poll_assign *)

\* The loop of poll_assign stops, at the first round where a window is full or
\* the queue is empty.
LEMMA RoundsStops ==
  ASSUME NEW d \in DownloaderType, NEW a \in Peers
  PROVE  /\ Rounds(d, a) \in 0..Len(d.queue)
         /\ \A j \in 0..(Rounds(d, a) - 1) : Room(d, a, j)
<1> DEFINE Stops == {k \in 0..Len(d.queue) : ~Room(d, a, k)}
<1>1. d.queue \in Seq(Hashes) /\ Len(d.queue) \in Nat
  BY DEF DownloaderType
<1>2. Len(d.queue) \in Stops
  BY <1>1 DEF Room
<1>3. Stops \subseteq Nat /\ Stops # {}
  BY <1>1, <1>2
<1>4. PICK k \in Stops : \A j \in Stops : ~(<<j, k>> \in OpToRel(<, Nat))
  <2> HIDE DEF Stops
  <2> QED BY <1>3, NatLessThanWellFounded, WFMin, Zenon
<1>5. \A j \in 0..(k - 1) : Room(d, a, j)
  <2> TAKE j \in 0..(k - 1)
  <2>1. j \in 0..Len(d.queue) /\ j \in Nat /\ k \in Nat /\ j < k
    BY <1>1
  <2>2. <<j, k>> \in OpToRel(<, Nat)
    BY <2>1 DEF OpToRel
  <2>3. j \notin Stops
    BY <1>4, <2>2
  <2> QED BY <2>1, <2>3
<1>6. \E n \in 0..Len(d.queue) :
          ~Room(d, a, n) /\ \A j \in 0..(n - 1) : Room(d, a, j)
  BY <1>4, <1>5
<1> QED BY <1>6, Zenon DEF Rounds

\* k pops take at most k different hashes, all of them hashes.
LEMMA PoppedCardinality ==
  ASSUME NEW d \in DownloaderType, NEW k \in 0..Len(d.queue)
  PROVE  /\ Popped(d, k) \subseteq Hashes
         /\ IsFiniteSet(Popped(d, k))
         /\ Cardinality(Popped(d, k)) <= k
         /\ Cardinality(Popped(d, k)) \in Nat
<1> DEFINE f == [i \in 1..k |-> d.queue[i]]
<1>1. d.queue \in Seq(Hashes) /\ k \in Nat /\ k <= Len(d.queue)
  BY DEF DownloaderType
<1>2. Popped(d, k) \subseteq Hashes
  BY <1>1 DEF Popped
<1>3. f \in Surjection(1..k, Popped(d, k))
  BY DEF Popped, Surjection
<1>4. IsFiniteSet(1..k) /\ Cardinality(1..k) = k
  BY <1>1, FS_Interval
<1> HIDE DEF f
<1>5. /\ IsFiniteSet(Popped(d, k))
      /\ Cardinality(Popped(d, k)) <= Cardinality(1..k)
  BY <1>3, <1>4, FS_Surjection
<1> QED BY <1>2, <1>4, <1>5, FS_CardinalityType

\* A downloader with some fields replaced by values of their types.
LEMMA UpdateType ==
  ASSUME NEW d \in DownloaderType
  PROVE  /\ \A q \in Seq(Hashes), n \in Nat :
               [d EXCEPT !.queue = q, !.total = n] \in DownloaderType
         /\ \A f \in [Hashes -> Peers \cup {NoPeer}], p \in [Peers -> Nat] :
               /\ [d EXCEPT !.inflight = f, !.per_peer = p] \in DownloaderType
               /\ \A q \in Seq(Hashes) :
                     [d EXCEPT !.queue = q, !.inflight = f, !.per_peer = p]
                        \in DownloaderType
               /\ \A n \in Nat :
                     [d EXCEPT !.inflight = f, !.per_peer = p, !.downloaded = n]
                        \in DownloaderType
  BY DEF DownloaderType

\* Joining a set of at most n elements adds at most n to the cardinality.
LEMMA UnionBound ==
  ASSUME NEW S, IsFiniteSet(S), NEW T, IsFiniteSet(T),
         NEW n \in Nat, Cardinality(T) <= n
  PROVE  /\ IsFiniteSet(S \cup T)
         /\ Cardinality(S \cup T) \in Nat
         /\ Cardinality(S \cup T) <= Cardinality(S) + n
<1>1. /\ IsFiniteSet(S \cup T)
      /\ Cardinality(S \cup T) =
            Cardinality(S) + Cardinality(T) - Cardinality(S \cap T)
  BY FS_Union
<1>2. /\ Cardinality(S \cap T) \in Nat /\ Cardinality(S) \in Nat
      /\ Cardinality(T) \in Nat /\ Cardinality(S \cup T) \in Nat
  BY <1>1, FS_Intersection, FS_CardinalityType
<1> QED BY <1>1, <1>2

\* The requests in flight after k pops for peer a.
LEMMA AssignInflight ==
  ASSUME NEW d \in DownloaderType, NEW a \in Peers, NEW k \in 0..Len(d.queue)
  PROVE  /\ Assign(d, a, k) \in DownloaderType
         /\ Inflight(Assign(d, a, k)) = Inflight(d) \cup Popped(d, k)
         /\ InflightOf(Assign(d, a, k), a) = InflightOf(d, a) \cup Popped(d, k)
         /\ \A b \in Peers \ {a} :
               InflightOf(Assign(d, a, k), b) \subseteq InflightOf(d, b)
         /\ Assign(d, a, k).per_peer = [d.per_peer EXCEPT ![a] = @ + k]
         /\ Len(Assign(d, a, k).queue) = Len(d.queue) - k
         /\ Assign(d, a, k).total = d.total
         /\ Assign(d, a, k).downloaded = d.downloaded
<1>0. /\ d.queue \in Seq(Hashes) /\ k \in Nat /\ k <= Len(d.queue)
      /\ d.inflight \in [Hashes -> Peers \cup {NoPeer}]
      /\ d.per_peer \in [Peers -> Nat]
      /\ d.total \in Nat /\ d.downloaded \in Nat
  BY DEF DownloaderType
<1>1. /\ Assign(d, a, k).inflight = [h \in Hashes |->
              IF h \in Popped(d, k) THEN a ELSE d.inflight[h]]
      /\ Assign(d, a, k).per_peer = [d.per_peer EXCEPT ![a] = @ + k]
      /\ Assign(d, a, k).queue = SubSeq(d.queue, k + 1, Len(d.queue))
      /\ Assign(d, a, k).total = d.total
      /\ Assign(d, a, k).downloaded = d.downloaded
  BY DEF Assign, DownloaderType
<1>2. /\ SubSeq(d.queue, k + 1, Len(d.queue)) \in Seq(Hashes)
      /\ Len(SubSeq(d.queue, k + 1, Len(d.queue))) = Len(d.queue) - k
  BY <1>0
<1>3. /\ [d.per_peer EXCEPT ![a] = @ + k] \in [Peers -> Nat]
      /\ [h \in Hashes |-> IF h \in Popped(d, k) THEN a ELSE d.inflight[h]]
            \in [Hashes -> Peers \cup {NoPeer}]
  BY <1>0
<1>4. Assign(d, a, k) \in DownloaderType
  BY <1>2, <1>3, UpdateType DEF Assign
<1>5. Popped(d, k) \subseteq Hashes
  BY PoppedCardinality
<1> QED
  BY <1>0, <1>1, <1>2, <1>4, <1>5, NoPeerAssumption DEF Inflight, InflightOf

-----------------------------------------------------------------------------
(* Each method preserves the invariant *)

\* A new downloader satisfies the invariant.
LEMMA NewSound == DownloaderInv(NewDownloader)
<1>1. NewDownloader \in DownloaderType
  BY DEF NewDownloader, DownloaderType
<1>2. Inflight(NewDownloader) = {}
  BY DEF NewDownloader, Inflight
<1>3. \A a \in Peers : InflightOf(NewDownloader, a) = {}
  BY NoPeerAssumption DEF NewDownloader, InflightOf
<1>4. /\ NewDownloader.per_peer = [a \in Peers |-> 0]
      /\ Len(NewDownloader.queue) = 0
      /\ NewDownloader.total = 0 /\ NewDownloader.downloaded = 0
  BY DEF NewDownloader
<1> QED
  BY <1>1, <1>2, <1>3, <1>4, FS_EmptySet, WindowAssumption
  DEF DownloaderInv, SlotsSoundOf, ProgressBoundedOf

\* push_many counts every hash it queues.
LEMMA PushSound ==
  ASSUME NEW d, DownloaderInv(d), NEW v \in Seq(Hashes)
  PROVE  DownloaderInv(PushMany(d, v))
<1> DEFINE e == PushMany(d, v)
<1>1. d \in DownloaderType
  BY DEF DownloaderInv
<1>2. /\ d.queue \in Seq(Hashes) /\ Len(v) \in Nat /\ Len(d.queue) \in Nat
      /\ d.total \in Nat /\ d.downloaded \in Nat
  BY <1>1 DEF DownloaderType
<1>3. /\ d.queue \o v \in Seq(Hashes)
      /\ Len(d.queue \o v) = Len(d.queue) + Len(v)
      /\ d.total + Len(v) \in Nat
  BY <1>2
<1>4. e \in DownloaderType
  BY <1>1, <1>3, UpdateType DEF PushMany
<1>5. /\ e.queue = d.queue \o v /\ e.total = d.total + Len(v)
      /\ e.inflight = d.inflight /\ e.per_peer = d.per_peer
      /\ e.downloaded = d.downloaded
  BY <1>1 DEF PushMany, DownloaderType
<1>6. Inflight(e) = Inflight(d) /\ \A a \in Peers : InflightOf(e, a) = InflightOf(d, a)
  BY <1>5 DEF Inflight, InflightOf
<1> HIDE DEF e
<1>7. Cardinality(Inflight(d)) \in Nat
  BY FS_CardinalityType DEF DownloaderInv
<1>8. SlotsSoundOf(e)
  BY <1>5, <1>6 DEF DownloaderInv, SlotsSoundOf
<1>9. ProgressBoundedOf(e)
  BY <1>2, <1>3, <1>5, <1>6, <1>7 DEF DownloaderInv, ProgressBoundedOf
<1>10. DownloaderInv(e)
  BY <1>4, <1>6, <1>8, <1>9 DEF DownloaderInv
<1> QED BY <1>10 DEF e

\* poll_assign stays within both windows and counts every slot it takes, also
\* when it overwrites a request another peer had.
LEMMA PollSound ==
  ASSUME NEW d, DownloaderInv(d), NEW a \in Peers
  PROVE  DownloaderInv(PollAssign(d, a))
<1> DEFINE k == Rounds(d, a)
           e == Assign(d, a, k)
<1>1. d \in DownloaderType
  BY DEF DownloaderInv
<1>2. k \in 0..Len(d.queue) /\ \A j \in 0..(k - 1) : Room(d, a, j)
  BY <1>1, RoundsStops
<1> HIDE DEF k
<1>3. /\ e \in DownloaderType
      /\ Inflight(e) = Inflight(d) \cup Popped(d, k)
      /\ InflightOf(e, a) = InflightOf(d, a) \cup Popped(d, k)
      /\ \A b \in Peers \ {a} : InflightOf(e, b) \subseteq InflightOf(d, b)
      /\ e.per_peer = [d.per_peer EXCEPT ![a] = @ + k]
      /\ Len(e.queue) = Len(d.queue) - k
      /\ e.total = d.total /\ e.downloaded = d.downloaded
  BY <1>1, <1>2, AssignInflight
<1> HIDE DEF e
<1>4. /\ IsFiniteSet(Popped(d, k)) /\ Cardinality(Popped(d, k)) <= k
      /\ Cardinality(Popped(d, k)) \in Nat
  BY <1>1, <1>2, PoppedCardinality
<1>5. /\ Len(d.queue) \in Nat /\ k \in Nat /\ k <= Len(d.queue)
      /\ d.per_peer \in [Peers -> Nat]
      /\ d.total \in Nat /\ d.downloaded \in Nat
  BY <1>1, <1>2 DEF DownloaderType
<1>6. IsFiniteSet(Inflight(d)) /\ Cardinality(Inflight(d)) \in Nat
  BY FS_CardinalityType DEF DownloaderInv
<1>7. /\ IsFiniteSet(Inflight(e)) /\ Cardinality(Inflight(e)) \in Nat
      /\ Cardinality(Inflight(e)) <= Cardinality(Inflight(d)) + k
  <2>1. /\ IsFiniteSet(Inflight(d) \cup Popped(d, k))
        /\ Cardinality(Inflight(d) \cup Popped(d, k)) \in Nat
        /\ Cardinality(Inflight(d) \cup Popped(d, k)) <= Cardinality(Inflight(d)) + k
    BY <1>4, <1>5, <1>6, UnionBound
  <2> QED BY <1>3, <2>1
<1>8. Cardinality(Inflight(e)) <= GLOBAL_INFLIGHT
  <2>1. CASE k = 0
    <3>1. Popped(d, k) = {}
      BY <2>1 DEF Popped
    <3> QED BY <1>3, <3>1 DEF DownloaderInv
  <2>2. CASE k > 0
    <3> DEFINE S == Inflight(d) \cup Popped(d, k - 1)
    <3>1. Room(d, a, k - 1) /\ k - 1 \in 0..Len(d.queue) /\ k \in 1..Len(d.queue)
      BY <1>2, <1>5, <2>2
    <3>2. Cardinality(S) < GLOBAL_INFLIGHT
      BY <3>1 DEF Room
    <3>3. Popped(d, k) = Popped(d, k - 1) \cup {d.queue[k]}
      BY <1>5, <3>1 DEF Popped
    <3>4. Inflight(e) = S \cup {d.queue[k]}
      BY <1>3, <3>3
    <3>5. IsFiniteSet(Popped(d, k - 1))
      BY <1>1, <3>1, PoppedCardinality
    <3>6. IsFiniteSet(S) /\ Cardinality(S) \in Nat
      BY <1>6, <3>5, FS_Union, FS_CardinalityType
    <3> HIDE DEF S
    <3>7. Cardinality(Inflight(e)) <= Cardinality(S) + 1
      <4>1. IsFiniteSet({d.queue[k]}) /\ Cardinality({d.queue[k]}) = 1
        BY FS_Singleton, Zenon
      <4>2. Cardinality(S \cup {d.queue[k]}) <= Cardinality(S) + 1
        BY <3>6, <4>1, UnionBound
      <4> QED BY <3>4, <4>2
    <3> QED BY <1>7, <3>2, <3>6, <3>7, WindowAssumption
  <2> QED BY <1>5, <2>1, <2>2
<1>9. SlotsSoundOf(e)
  <2> SUFFICES ASSUME NEW b \in Peers
               PROVE  /\ Cardinality(InflightOf(e, b)) <= e.per_peer[b]
                      /\ e.per_peer[b] <= PER_PEER_INFLIGHT
    BY DEF SlotsSoundOf
  <2>1. /\ Cardinality(InflightOf(d, b)) <= d.per_peer[b]
        /\ d.per_peer[b] <= PER_PEER_INFLIGHT
    BY DEF DownloaderInv, SlotsSoundOf
  <2>2. IsFiniteSet(InflightOf(d, b)) /\ Cardinality(InflightOf(d, b)) \in Nat
    <3>1. InflightOf(d, b) \subseteq Inflight(d)
      BY NoPeerAssumption DEF Inflight, InflightOf
    <3> QED BY <1>6, <3>1, FS_Subset, FS_CardinalityType
  <2>3. CASE b # a
    <3>1. InflightOf(e, b) \subseteq InflightOf(d, b) /\ e.per_peer[b] = d.per_peer[b]
      BY <1>3, <1>5, <2>3
    <3>2. /\ Cardinality(InflightOf(e, b)) <= Cardinality(InflightOf(d, b))
          /\ Cardinality(InflightOf(e, b)) \in Nat
      BY <2>2, <3>1, FS_Subset, FS_CardinalityType
    <3> QED BY <1>5, <2>1, <2>2, <3>1, <3>2
  <2>4. CASE b = a
    <3>1. e.per_peer[b] = d.per_peer[b] + k
      BY <1>3, <1>5, <2>4
    <3>2. e.per_peer[b] <= PER_PEER_INFLIGHT
      <4>1. CASE k = 0
        BY <1>5, <2>1, <3>1, <4>1
      <4>2. CASE k > 0
        <5>1. Room(d, a, k - 1)
          BY <1>2, <1>5, <4>2
        <5>2. d.per_peer[a] + (k - 1) < PER_PEER_INFLIGHT
          BY <5>1 DEF Room
        <5> QED BY <1>5, <2>4, <3>1, <5>2, WindowAssumption
      <4> QED BY <1>5, <4>1, <4>2
    <3>3. /\ Cardinality(InflightOf(e, b)) \in Nat
          /\ Cardinality(InflightOf(e, b)) <= Cardinality(InflightOf(d, b)) + k
      BY <1>3, <1>4, <1>5, <2>2, <2>4, UnionBound
    <3> QED BY <1>5, <2>1, <2>2, <3>1, <3>2, <3>3
  <2> QED BY <2>3, <2>4
<1>10. ProgressBoundedOf(e)
  <2>1. d.downloaded + Len(d.queue) + Cardinality(Inflight(d)) <= d.total
    BY DEF DownloaderInv, ProgressBoundedOf
  <2> QED BY <1>3, <1>5, <1>6, <1>7, <2>1 DEF ProgressBoundedOf
<1> QED
  BY <1>3, <1>7, <1>8, <1>9, <1>10 DEF DownloaderInv, PollAssign, k, e

\* complete frees the slot of the request it ends, and counts the block once.
LEMMA CompleteSound ==
  ASSUME NEW d, DownloaderInv(d), NEW h \in Hashes
  PROVE  DownloaderInv(Complete(d, h))
<1>1. CASE d.inflight[h] = NoPeer
  BY <1>1 DEF Complete
<1>2. CASE d.inflight[h] # NoPeer
  <2> DEFINE e == Complete(d, h)
             a == d.inflight[h]
             f == [d.inflight EXCEPT ![h] = NoPeer]
             p == [d.per_peer EXCEPT ![a] = SatSub(@, 1)]
             n == d.downloaded + 1
  <2>1. d \in DownloaderType
    BY DEF DownloaderInv
  <2>2. /\ d.queue \in Seq(Hashes) /\ Len(d.queue) \in Nat
        /\ d.inflight \in [Hashes -> Peers \cup {NoPeer}]
        /\ d.per_peer \in [Peers -> Nat]
        /\ d.total \in Nat /\ d.downloaded \in Nat
        /\ a \in Peers
    BY <1>2, <2>1 DEF DownloaderType
  <2>3. f \in [Hashes -> Peers \cup {NoPeer}] /\ p \in [Peers -> Nat] /\ n \in Nat
    BY <2>2 DEF SatSub
  <2>4. e = [d EXCEPT !.inflight = f, !.per_peer = p, !.downloaded = n]
    BY <1>2 DEF Complete
  <2>5. e \in DownloaderType
    <3> HIDE DEF e, f, p, n
    <3> QED BY <2>1, <2>3, <2>4, UpdateType
  <2>6. /\ e.inflight = [d.inflight EXCEPT ![h] = NoPeer]
        /\ e.per_peer = [d.per_peer EXCEPT ![a] = SatSub(@, 1)]
        /\ e.downloaded = d.downloaded + 1
        /\ e.queue = d.queue /\ e.total = d.total
    BY <2>1, <2>4 DEF DownloaderType
  <2> HIDE DEF e, a
  <2>7. /\ Inflight(e) = Inflight(d) \ {h} /\ h \in Inflight(d)
        /\ InflightOf(e, a) = InflightOf(d, a) \ {h} /\ h \in InflightOf(d, a)
        /\ \A b \in Peers \ {a} : InflightOf(e, b) = InflightOf(d, b)
    BY <1>2, <2>2, <2>6, NoPeerAssumption DEF Inflight, InflightOf, a
  <2>8. /\ IsFiniteSet(Inflight(e))
        /\ Cardinality(Inflight(e)) = Cardinality(Inflight(d)) - 1
        /\ Cardinality(Inflight(d)) \in Nat
    BY <2>7, FS_RemoveElement, FS_CardinalityType DEF DownloaderInv
  <2>9. SlotsSoundOf(e)
    <3> SUFFICES ASSUME NEW b \in Peers
                 PROVE  /\ Cardinality(InflightOf(e, b)) <= e.per_peer[b]
                        /\ e.per_peer[b] <= PER_PEER_INFLIGHT
      BY DEF SlotsSoundOf
    <3>1. /\ Cardinality(InflightOf(d, b)) <= d.per_peer[b]
          /\ d.per_peer[b] <= PER_PEER_INFLIGHT
      BY DEF DownloaderInv, SlotsSoundOf
    <3>2. CASE b # a
      <4>1. InflightOf(e, b) = InflightOf(d, b) /\ e.per_peer[b] = d.per_peer[b]
        BY <2>2, <2>6, <2>7, <3>2
      <4> QED BY <3>1, <4>1
    <3>3. CASE b = a
      <4>1. IsFiniteSet(InflightOf(d, b)) /\ Cardinality(InflightOf(d, b)) \in Nat
        <5>1. InflightOf(d, b) \subseteq Inflight(d)
          BY NoPeerAssumption DEF Inflight, InflightOf
        <5> QED BY <5>1, FS_Subset, FS_CardinalityType DEF DownloaderInv
      <4>2. Cardinality(InflightOf(e, b)) = Cardinality(InflightOf(d, b)) - 1
        BY <2>7, <3>3, <4>1, FS_RemoveElement
      <4>3. e.per_peer[b] = SatSub(d.per_peer[b], 1)
        BY <2>2, <2>6, <3>3
      <4> QED BY <2>2, <3>1, <4>1, <4>2, <4>3, WindowAssumption DEF SatSub
    <3> QED BY <3>2, <3>3
  <2>10. ProgressBoundedOf(e)
    BY <2>2, <2>6, <2>8 DEF DownloaderInv, ProgressBoundedOf
  <2> QED
    BY <2>2, <2>5, <2>8, <2>9, <2>10, WindowAssumption DEF DownloaderInv, e
<1> QED BY <1>1, <1>2

\* reassign_timeouts frees as many slots of a peer as it removes requests.
LEMMA ReassignSound ==
  ASSUME NEW d, DownloaderInv(d), NEW E \in SUBSET Inflight(d)
  PROVE  /\ DownloaderInv(ReassignTimeouts(d, E))
         /\ Inflight(ReassignTimeouts(d, E)) = Inflight(d) \ E
         /\ IsFiniteSet(E)
<1> DEFINE e == ReassignTimeouts(d, E)
           f == [h \in Hashes |-> IF h \in E THEN NoPeer ELSE d.inflight[h]]
           p == [a \in Peers |-> SatSub(d.per_peer[a],
                                        Cardinality(E \cap InflightOf(d, a)))]
<1>1. d \in DownloaderType /\ IsFiniteSet(Inflight(d))
  BY DEF DownloaderInv
<1>2. /\ d.inflight \in [Hashes -> Peers \cup {NoPeer}]
      /\ d.per_peer \in [Peers -> Nat]
      /\ Len(d.queue) \in Nat /\ d.total \in Nat /\ d.downloaded \in Nat
  BY <1>1 DEF DownloaderType
<1>3. IsFiniteSet(E)
  BY <1>1, FS_Subset
<1>4. \A a \in Peers : /\ IsFiniteSet(InflightOf(d, a))
                       /\ Cardinality(InflightOf(d, a)) \in Nat
  <2> TAKE a \in Peers
  <2>1. InflightOf(d, a) \subseteq Inflight(d)
    BY NoPeerAssumption DEF Inflight, InflightOf
  <2> QED BY <1>1, <2>1, FS_Subset, FS_CardinalityType
<1>5. \A a \in Peers : Cardinality(E \cap InflightOf(d, a)) \in Nat
  BY <1>3, FS_Intersection, FS_CardinalityType
<1>6. f \in [Hashes -> Peers \cup {NoPeer}] /\ p \in [Peers -> Nat]
  BY <1>2, <1>5 DEF SatSub
<1>7. e = [d EXCEPT !.inflight = f, !.per_peer = p]
  BY DEF ReassignTimeouts
<1>8. /\ e.inflight = f /\ e.per_peer = p
      /\ e.queue = d.queue /\ e.total = d.total /\ e.downloaded = d.downloaded
  BY <1>1, <1>7 DEF DownloaderType
<1>9. e \in DownloaderType
  <2> HIDE DEF e, f, p
  <2> QED BY <1>1, <1>6, <1>7, UpdateType
<1> HIDE DEF e
<1>10. /\ Inflight(e) = Inflight(d) \ E
       /\ \A a \in Peers : InflightOf(e, a) = InflightOf(d, a) \ E
  BY <1>2, <1>8, NoPeerAssumption DEF Inflight, InflightOf
<1>11. /\ IsFiniteSet(Inflight(e)) /\ Cardinality(Inflight(e)) \in Nat
       /\ Cardinality(Inflight(e)) <= Cardinality(Inflight(d))
       /\ Cardinality(Inflight(d)) \in Nat
  BY <1>1, <1>10, FS_Subset, FS_CardinalityType
<1>12. SlotsSoundOf(e)
  <2> SUFFICES ASSUME NEW a \in Peers
               PROVE  /\ Cardinality(InflightOf(e, a)) <= e.per_peer[a]
                      /\ e.per_peer[a] <= PER_PEER_INFLIGHT
    BY DEF SlotsSoundOf
  <2>1. /\ Cardinality(InflightOf(d, a)) <= d.per_peer[a]
        /\ d.per_peer[a] <= PER_PEER_INFLIGHT
    BY DEF DownloaderInv, SlotsSoundOf
  <2>2. Cardinality(InflightOf(d, a) \ E) =
          Cardinality(InflightOf(d, a)) - Cardinality(InflightOf(d, a) \cap E)
    BY <1>4, FS_Difference
  <2>3. InflightOf(d, a) \cap E = E \cap InflightOf(d, a)
    OBVIOUS
  <2>4. e.per_peer[a] = SatSub(d.per_peer[a], Cardinality(E \cap InflightOf(d, a)))
    BY <1>8
  <2>5. InflightOf(e, a) = InflightOf(d, a) \ E
    BY <1>10
  <2>6. /\ d.per_peer[a] \in Nat /\ Cardinality(InflightOf(d, a)) \in Nat
        /\ Cardinality(E \cap InflightOf(d, a)) \in Nat
    BY <1>2, <1>4, <1>5
  <2>7. Cardinality(InflightOf(e, a)) =
          Cardinality(InflightOf(d, a)) - Cardinality(E \cap InflightOf(d, a))
    BY <2>2, <2>3, <2>5
  <2> QED BY <2>1, <2>4, <2>6, <2>7, WindowAssumption DEF SatSub
<1>13. ProgressBoundedOf(e)
  BY <1>2, <1>8, <1>11 DEF DownloaderInv, ProgressBoundedOf
<1> QED
  BY <1>3, <1>9, <1>10, <1>11, <1>12, <1>13, WindowAssumption
  DEF DownloaderInv, e

-----------------------------------------------------------------------------
(* The invariant of the specification *)

\* A batch is a sequence of hashes.
LEMMA BatchType ==
  ASSUME NEW v \in Batches
  PROVE  v \in Seq(Hashes) /\ Len(v) \in Nat
<1>1. PICK m \in 0..MaxBatch : v \in [1..m -> Hashes]
  BY DEF Batches
<1> QED BY <1>1, BoundAssumption

\* A listing of a finite set E is a sequence over E that contains all of E.
LEMMA ListingType ==
  ASSUME NEW E \in SUBSET Hashes, IsFiniteSet(E), NEW s \in Listings(E)
  PROVE  /\ s \in Seq(Hashes)
         /\ \A h \in E : \E i \in 1..Len(s) : s[i] = h
<1>1. Cardinality(E) \in Nat
  BY FS_CardinalityType
<1> QED BY <1>1 DEF Listings

\* The inductive invariant of the downloader: types, both windows, the slot
\* counters and the progress counters.
THEOREM DownloaderCorrect == DLSpec => []DLInv
<1>1. DLInit => DLInv
  BY NewSound, PushSound, BatchType DEF DLInit, DLStart, DLInv
<1>2. DLInv /\ [DLNext]_dl => DLInv'
  <2> SUFFICES ASSUME DownloaderInv(dl), [DLNext]_dl
               PROVE  DownloaderInv(dl')
    BY DEF DLInv
  <2>1. ASSUME NEW a \in Peers, DLPoll(a)
        PROVE  DownloaderInv(dl')
    BY <2>1, PollSound DEF DLPoll
  <2>2. ASSUME NEW a \in Peers, NEW v \in Batches, DLPushPoll(a, v)
        PROVE  DownloaderInv(dl')
    <3>1. DownloaderInv(PushMany(dl, v))
      BY PushSound, BatchType
    <3> QED BY <2>2, <3>1, PollSound DEF DLPushPoll
  <2>3. ASSUME NEW a \in Peers, NEW h \in Hashes, DLReceive(a, h)
        PROVE  DownloaderInv(dl')
    <3>1. DownloaderInv(Complete(dl, h))
      BY CompleteSound
    <3> QED BY <2>3, <3>1, PollSound DEF DLReceive
  <2>4. ASSUME NEW E \in SUBSET Inflight(dl), DLExpire(E)
        PROVE  DownloaderInv(dl')
    <3>1. DownloaderInv(ReassignTimeouts(dl, E)) /\ IsFiniteSet(E)
      BY ReassignSound
    <3>2. E \in SUBSET Hashes
      BY DEF Inflight
    <3>3. PICK s \in Listings(E) : dl' = PushMany(ReassignTimeouts(dl, E), s)
      BY <2>4 DEF DLExpire
    <3>4. s \in Seq(Hashes)
      BY <3>1, <3>2, ListingType
    <3> QED BY <3>1, <3>3, <3>4, PushSound
  <2>5. ASSUME NEW v \in Batches, DLRestart(v)
        PROVE  DownloaderInv(dl')
    BY <2>5, NewSound, PushSound, BatchType DEF DLRestart, DLStart
  <2>6. CASE UNCHANGED dl
    BY <2>6
  <2> QED BY <2>1, <2>2, <2>3, <2>4, <2>5, <2>6 DEF DLNext
<1> QED BY <1>1, <1>2, PTL DEF DLSpec

\* Type correctness.
THEOREM DownloaderTypeCorrect == DLSpec => []DLTypeOK
<1>1. DLInv => DLTypeOK
  BY DEF DLInv, DownloaderInv, DLTypeOK
<1> QED BY <1>1, DownloaderCorrect, PTL

\* The requests of a peer are counted, and the counter stays within its window.
LEMMA WindowsFromInv ==
  ASSUME DownloaderInv(dl) PROVE WindowsRespected
<1> SUFFICES ASSUME NEW a \in Peers
             PROVE  Cardinality(InflightOf(dl, a)) <= PER_PEER_INFLIGHT
  BY DEF WindowsRespected, DownloaderInv
<1>1. InflightOf(dl, a) \subseteq Inflight(dl)
  BY NoPeerAssumption DEF Inflight, InflightOf
<1>2. Cardinality(InflightOf(dl, a)) \in Nat
  BY <1>1, FS_Subset, FS_CardinalityType DEF DownloaderInv
<1>3. dl.per_peer[a] \in Nat
  BY DEF DownloaderInv, DownloaderType
<1>4. /\ Cardinality(InflightOf(dl, a)) <= dl.per_peer[a]
      /\ dl.per_peer[a] <= PER_PEER_INFLIGHT
  BY DEF DownloaderInv, SlotsSoundOf
<1> QED BY <1>2, <1>3, <1>4, WindowAssumption

\* For every pair of windows, never more than global_window blocks are in
\* flight and never more than per_peer_window at one peer.
THEOREM WindowsAlwaysRespected == DLSpec => []WindowsRespected
<1>1. DLInv => WindowsRespected
  BY WindowsFromInv DEF DLInv
<1> QED BY <1>1, DownloaderCorrect, PTL

\* The slot counters cover the requests in flight and stay within the window.
THEOREM SlotsAlwaysSound == DLSpec => []SlotsSound
<1>1. DLInv => SlotsSound
  BY DEF DLInv, DownloaderInv, SlotsSound
<1> QED BY <1>1, DownloaderCorrect, PTL

\* Reported progress never exceeds the total.
THEOREM ProgressAlwaysBounded == DLSpec => []ProgressBounded
<1>1. DLInv => ProgressBounded
  BY DEF DLInv, DownloaderInv, ProgressBounded
<1> QED BY <1>1, DownloaderCorrect, PTL

-----------------------------------------------------------------------------
(* No tracked block is dropped *)

\* poll_assign moves hashes from the queue to the requests in flight.
LEMMA PollKeeps ==
  ASSUME NEW d \in DownloaderType, NEW a \in Peers
  PROVE  Tracked(PollAssign(d, a)) = Tracked(d)
<1> DEFINE k == Rounds(d, a)
           e == Assign(d, a, k)
<1>1. k \in 0..Len(d.queue)
  BY RoundsStops
<1> HIDE DEF k
<1>2. Inflight(e) = Inflight(d) \cup Popped(d, k)
  <2>1. e.inflight = [h \in Hashes |-> IF h \in Popped(d, k)
                                      THEN a ELSE d.inflight[h]]
    BY DEF Assign, DownloaderType
  <2>2. Popped(d, k) \subseteq Hashes
    BY <1>1, PoppedCardinality
  <2> QED BY <2>1, <2>2, NoPeerAssumption DEF Inflight
<1>3. d.queue \in Seq(Hashes) /\ k \in Nat /\ k <= Len(d.queue)
  BY <1>1 DEF DownloaderType
<1>4. e.queue = SubSeq(d.queue, k + 1, Len(d.queue))
  BY DEF Assign, DownloaderType
<1>5. /\ Len(e.queue) = Len(d.queue) - k
      /\ \A i \in 1..(Len(d.queue) - k) : e.queue[i] = d.queue[i + k]
  BY <1>3, <1>4
<1> HIDE DEF e
<1>6. {d.queue[i] : i \in 1..Len(d.queue)} =
        Popped(d, k) \cup {e.queue[i] : i \in 1..Len(e.queue)}
  <2>1. ASSUME NEW i \in 1..Len(d.queue)
        PROVE  d.queue[i] \in Popped(d, k) \cup {e.queue[j] : j \in 1..Len(e.queue)}
    <3>1. CASE i <= k
      BY <1>3, <3>1 DEF Popped
    <3>2. CASE i > k
      <4>1. i - k \in 1..Len(e.queue) /\ e.queue[i - k] = d.queue[i]
        BY <1>3, <1>5, <3>2
      <4> QED BY <4>1
    <3> QED BY <1>3, <3>1, <3>2
  <2>2. ASSUME NEW i \in 1..Len(e.queue)
        PROVE  e.queue[i] \in {d.queue[j] : j \in 1..Len(d.queue)}
    <3>1. i + k \in 1..Len(d.queue) /\ e.queue[i] = d.queue[i + k]
      BY <1>3, <1>5
    <3> QED BY <3>1
  <2>3. Popped(d, k) \subseteq {d.queue[j] : j \in 1..Len(d.queue)}
    BY <1>3 DEF Popped
  <2> QED BY <2>1, <2>2, <2>3
<1> QED BY <1>2, <1>6 DEF Tracked, PollAssign, e, k

\* push_many only adds to what is tracked.
LEMMA PushKeeps ==
  ASSUME NEW d \in DownloaderType, NEW v \in Seq(Hashes)
  PROVE  /\ Tracked(d) \subseteq Tracked(PushMany(d, v))
         /\ \A i \in 1..Len(v) : v[i] \in Tracked(PushMany(d, v))
<1> DEFINE e == PushMany(d, v)
<1>1. d.queue \in Seq(Hashes)
  BY DEF DownloaderType
<1>2. e.queue = d.queue \o v /\ Inflight(e) = Inflight(d)
  BY DEF PushMany, DownloaderType, Inflight
<1>3. /\ Len(e.queue) = Len(d.queue) + Len(v)
      /\ Len(d.queue) \in Nat /\ Len(v) \in Nat
      /\ \A i \in 1..Len(d.queue) : e.queue[i] = d.queue[i]
      /\ \A i \in 1..Len(v) : e.queue[Len(d.queue) + i] = v[i]
  BY <1>1, <1>2
<1> HIDE DEF e
<1>4. \A i \in 1..Len(d.queue) : i \in 1..Len(e.queue)
  BY <1>3
<1>5. \A i \in 1..Len(v) : Len(d.queue) + i \in 1..Len(e.queue)
  BY <1>3
<1> QED BY <1>2, <1>3, <1>4, <1>5 DEF Tracked, e

\* complete gives up only the block that arrived.
LEMMA CompleteKeeps ==
  ASSUME NEW d \in DownloaderType, NEW h \in Hashes
  PROVE  Tracked(d) \subseteq Tracked(Complete(d, h)) \cup {h}
<1>1. CASE d.inflight[h] = NoPeer
  BY <1>1 DEF Complete
<1>2. CASE d.inflight[h] # NoPeer
  <2> DEFINE e == Complete(d, h)
  <2>1. /\ e.inflight = [d.inflight EXCEPT ![h] = NoPeer]
        /\ e.queue = d.queue
    BY <1>2 DEF Complete, DownloaderType
  <2>2. d.inflight \in [Hashes -> Peers \cup {NoPeer}]
    BY DEF DownloaderType
  <2> HIDE DEF e
  <2>3. Inflight(d) \subseteq Inflight(e) \cup {h}
    BY <2>1, <2>2 DEF Inflight
  <2> QED BY <2>1, <2>3 DEF Tracked, e
<1> QED BY <1>1, <1>2

\* reassign_timeouts gives up only the expired requests.
LEMMA ReassignKeeps ==
  ASSUME NEW d, DownloaderInv(d), NEW E \in SUBSET Inflight(d)
  PROVE  Tracked(d) \subseteq Tracked(ReassignTimeouts(d, E)) \cup E
<1>1. Inflight(ReassignTimeouts(d, E)) = Inflight(d) \ E
  BY ReassignSound, Zenon
<1>2. ReassignTimeouts(d, E).queue = d.queue
  BY DEF ReassignTimeouts, DownloaderInv, DownloaderType
<1> QED BY <1>1, <1>2 DEF Tracked

\* A queued or requested block leaves the downloader only by arriving, or
\* with the process.
THEOREM NothingEverDropped == DLSpec => NothingDropped
<1> DEFINE A == \A h \in Tracked(dl) :
                   \/ h \in Tracked(dl')
                   \/ \E a \in Peers : DLReceive(a, h)
                   \/ \E v \in Batches : DLRestart(v)
<1>1. DLInv /\ [DLNext]_dl => [A]_dl
  <2> SUFFICES ASSUME DownloaderInv(dl), DLNext PROVE A
    BY DEF DLInv
  <2>0. dl \in DownloaderType
    BY DEF DownloaderInv
  <2>1. ASSUME NEW a \in Peers, DLPoll(a)
        PROVE  A
    BY <2>0, <2>1, PollKeeps DEF DLPoll
  <2>2. ASSUME NEW a \in Peers, NEW v \in Batches, DLPushPoll(a, v)
        PROVE  A
    <3>1. /\ Tracked(dl) \subseteq Tracked(PushMany(dl, v))
          /\ PushMany(dl, v) \in DownloaderType
      BY <2>0, PushKeeps, PushSound, BatchType DEF DownloaderInv
    <3>2. Tracked(dl') = Tracked(PushMany(dl, v))
      BY <2>2, <3>1, PollKeeps DEF DLPushPoll
    <3> QED BY <3>1, <3>2
  <2>3. ASSUME NEW a \in Peers, NEW g \in Hashes, DLReceive(a, g)
        PROVE  A
    <3>1. /\ Tracked(dl) \subseteq Tracked(Complete(dl, g)) \cup {g}
          /\ Complete(dl, g) \in DownloaderType
      BY <2>0, CompleteKeeps, CompleteSound DEF DownloaderInv
    <3>2. Tracked(dl') = Tracked(Complete(dl, g))
      BY <2>3, <3>1, PollKeeps DEF DLReceive
    <3> QED BY <2>3, <3>1, <3>2
  <2>4. ASSUME NEW E \in SUBSET Inflight(dl), DLExpire(E)
        PROVE  A
    <3> DEFINE e == ReassignTimeouts(dl, E)
    <3>1. DownloaderInv(e) /\ IsFiniteSet(E) /\ E \in SUBSET Hashes
      BY ReassignSound DEF Inflight
    <3>2. Tracked(dl) \subseteq Tracked(e) \cup E
      BY ReassignKeeps
    <3>3. PICK s \in Listings(E) : dl' = PushMany(e, s)
      BY <2>4 DEF DLExpire
    <3>4. s \in Seq(Hashes) /\ \A h \in E : \E i \in 1..Len(s) : s[i] = h
      BY <3>1, ListingType
    <3>5. e \in DownloaderType
      BY <3>1 DEF DownloaderInv
    <3> HIDE DEF e
    <3>6. /\ Tracked(e) \subseteq Tracked(dl')
          /\ \A i \in 1..Len(s) : s[i] \in Tracked(dl')
      BY <3>3, <3>4, <3>5, PushKeeps
    <3> QED BY <3>2, <3>4, <3>6
  <2>5. ASSUME NEW v \in Batches, DLRestart(v)
        PROVE  A
    BY <2>5
  <2> HIDE DEF A
  <2> QED BY <2>1, <2>2, <2>3, <2>4, <2>5 DEF DLNext
<1> QED BY <1>1, DownloaderCorrect, PTL DEF DLSpec, NothingDropped
=============================================================================
