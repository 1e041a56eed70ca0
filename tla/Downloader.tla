----------------------------- MODULE Downloader -----------------------------
(***************************************************************************)
(* The block download scheduler of src/p2p/legacy.rs (struct Downloader).  *)
(* It keeps a FIFO queue of block hashes to fetch, the requests in flight  *)
(* (a map from hash to the peer asked and a deadline), a slot counter per  *)
(* peer, and two progress counters.                                        *)
(*                                                                         *)
(* The first part of the module defines its methods as operators on a      *)
(* record d that stands for `self`.  The second part is the specification  *)
(* of a downloader driven the way the event loop drives it: one action per *)
(* combination of calls that one message handler makes.                    *)
(*                                                                         *)
(* Deadlines are not kept: the set of requests found expired is chosen     *)
(* freely by the action that looks for them, which allows every outcome of *)
(* the clock and some it does not (a younger request expiring first).      *)
(***************************************************************************)
EXTENDS Integers, Sequences, FiniteSets

CONSTANTS
    Peers,              \* peer addresses
    NoPeer,             \* "not in flight": no entry in the inflight map
    Hashes,             \* block hashes
    GLOBAL_INFLIGHT,    \* global_window
    PER_PEER_INFLIGHT,  \* per_peer_window
    MaxBatch,           \* bound: hashes pushed by one call of push_many
    MaxTotal            \* bound: value of total_blocks

ASSUME NoPeerAssumption == NoPeer \notin Peers
ASSUME WindowAssumption == /\ GLOBAL_INFLIGHT \in Nat
                           /\ PER_PEER_INFLIGHT \in Nat
ASSUME BoundAssumption  == MaxBatch \in Nat /\ MaxTotal \in Nat

\* The fields of the struct; an absent per_peer entry reads as 0.
DownloaderType ==
    [queue      : Seq(Hashes),
     inflight   : [Hashes -> Peers \cup {NoPeer}],
     per_peer   : [Peers -> Nat],
     total      : Nat,
     downloaded : Nat]

\* The keys of the inflight map, and those requested from peer a.
Inflight(d)      == {h \in Hashes : d.inflight[h] # NoPeer}
InflightOf(d, a) == {h \in Hashes : d.inflight[h] = a}

\* What the downloader still owes: queued or requested.
Tracked(d) == Inflight(d) \cup {d.queue[i] : i \in 1..Len(d.queue)}

-----------------------------------------------------------------------------
(* The methods *)

\* Downloader::new
NewDownloader ==
    [queue |-> << >>, inflight |-> [h \in Hashes |-> NoPeer],
     per_peer |-> [a \in Peers |-> 0], total |-> 0, downloaded |-> 0]

\* push_many: no test for a hash that is already queued or in flight.
PushMany(d, v) ==
    [d EXCEPT !.queue = @ \o v, !.total = @ + Len(v)]

\* The first k hashes of the queue.
Popped(d, k) == {d.queue[i] : i \in 1..k}

\* Mutant of Room: the windows are compared with <=.
RoomForOneMore(d, a, k) ==
    /\ Cardinality(Inflight(d) \cup Popped(d, k)) <= GLOBAL_INFLIGHT
    /\ d.per_peer[a] + k <= PER_PEER_INFLIGHT
    /\ k < Len(d.queue)

\* After k rounds the loop of poll_assign goes round once more.
Room(d, a, k) ==
    /\ Cardinality(Inflight(d) \cup Popped(d, k)) < GLOBAL_INFLIGHT
    /\ d.per_peer[a] + k < PER_PEER_INFLIGHT
    /\ k < Len(d.queue)

\* The round at which the loop stops.
Rounds(d, a) ==
    CHOOSE k \in 0..Len(d.queue) :
        ~Room(d, a, k) /\ \A j \in 0..(k-1) : Room(d, a, j)

\* poll_assign: inserting a hash that is in flight at another peer overwrites
\* that entry and leaves the other peer's slot counted.
Assign(d, a, k) ==
    [d EXCEPT !.queue    = SubSeq(@, k + 1, Len(@)),
              !.inflight = [h \in Hashes |-> IF h \in Popped(d, k)
                                             THEN a ELSE d.inflight[h]],
              !.per_peer = [d.per_peer EXCEPT ![a] = @ + k]]
PollAssign(d, a) == Assign(d, a, Rounds(d, a))

\* The hashes poll_assign returns, for one GetData.
Assigned(d, a) == SubSeq(d.queue, 1, Rounds(d, a))

\* Unsigned subtraction that stops at 0.
SatSub(m, n) == IF m >= n THEN m - n ELSE 0

\* complete: a block that is not in flight changes nothing.
Complete(d, h) ==
    IF d.inflight[h] = NoPeer
    THEN d
    ELSE [d EXCEPT !.inflight   = [d.inflight EXCEPT ![h] = NoPeer],
                   !.per_peer   = [d.per_peer EXCEPT
                                      ![d.inflight[h]] = SatSub(@, 1)],
                   !.downloaded = @ + 1]

\* Mutants of ReassignTimeouts: every peer gives back a slot for every expired
\* request, with wrapping or with saturating subtraction.
ReassignWrapping(d, E) ==
    [d EXCEPT !.inflight = [h \in Hashes |-> IF h \in E THEN NoPeer
                                             ELSE d.inflight[h]],
              !.per_peer = [a \in Peers |-> d.per_peer[a] - Cardinality(E)]]
ReassignEveryPeer(d, E) ==
    [d EXCEPT !.inflight = [h \in Hashes |-> IF h \in E THEN NoPeer
                                             ELSE d.inflight[h]],
              !.per_peer = [a \in Peers |-> SatSub(d.per_peer[a], Cardinality(E))]]

\* reassign_timeouts, when the deadlines of the requests in E have passed.
ReassignTimeouts(d, E) ==
    [d EXCEPT !.inflight = [h \in Hashes |-> IF h \in E THEN NoPeer
                                             ELSE d.inflight[h]],
              !.per_peer = [a \in Peers |->
                  SatSub(d.per_peer[a], Cardinality(E \cap InflightOf(d, a)))]]

\* The orders in which the iteration over the inflight map can list E.
Listings(E) == {s \in [1..Cardinality(E) -> E] : \A h \in E :
                    \E i \in 1..Cardinality(E) : s[i] = h}

-----------------------------------------------------------------------------
(* A downloader as the event loop drives it *)

VARIABLE dl

Batches == UNION {[1..m -> Hashes] : m \in 0..MaxBatch}

\* with_start_height: a new downloader with the missing blocks queued.
DLStart(v) == PushMany(NewDownloader, v)

DLInit == \E v \in Batches : Len(v) <= MaxTotal /\ dl = DLStart(v)

\* A handler that only asks peer a for more blocks.
DLPoll(a) == dl' = PollAssign(dl, a)

\* Blocks are queued (an Inv of peer a, or the end of header sync), then a is
\* asked for blocks.
DLPushPoll(a, v) ==
    /\ dl.total + Len(v) <= MaxTotal
    /\ dl' = PollAssign(PushMany(dl, v), a)

\* Block h arrives from peer a, solicited or not.
DLReceive(a, h) == dl' = PollAssign(Complete(dl, h), a)

\* Mutant of DLExpire: nothing is queued again.
ExpireUnqueued(E) ==
    /\ dl.total + Cardinality(E) <= MaxTotal
    /\ dl' = ReassignTimeouts(dl, E)

\* The requests in E have expired: they are queued again, at the end.
DLExpire(E) ==
    /\ dl.total + Cardinality(E) <= MaxTotal
    /\ \E s \in Listings(E) : dl' = PushMany(ReassignTimeouts(dl, E), s)

\* The process is started again.
DLRestart(v) == Len(v) <= MaxTotal /\ dl' = DLStart(v)

DLNext ==
    \/ \E a \in Peers : DLPoll(a)
    \/ \E a \in Peers, v \in Batches : DLPushPoll(a, v)
    \/ \E a \in Peers, h \in Hashes : DLReceive(a, h)
    \/ \E E \in (SUBSET Inflight(dl)) \ {{}} : DLExpire(E)
    \/ \E v \in Batches : DLRestart(v)

DLSpec == DLInit /\ [][DLNext]_dl
-----------------------------------------------------------------------------
(* The inductive invariant, as a predicate on a downloader *)

SlotsSoundOf(d) ==
    \A a \in Peers : /\ Cardinality(InflightOf(d, a)) <= d.per_peer[a]
                     /\ d.per_peer[a] <= PER_PEER_INFLIGHT

ProgressBoundedOf(d) ==
    d.downloaded + Len(d.queue) + Cardinality(Inflight(d)) <= d.total

DownloaderInv(d) ==
    /\ d \in DownloaderType
    /\ IsFiniteSet(Inflight(d))
    /\ Cardinality(Inflight(d)) <= GLOBAL_INFLIGHT
    /\ SlotsSoundOf(d)
    /\ ProgressBoundedOf(d)

DLInv == DownloaderInv(dl)

-----------------------------------------------------------------------------
(* Properties *)

DLTypeOK == dl \in DownloaderType

\* The slot counter of a peer never falls below the number of requests it
\* really has in flight, although complete, reassign_timeouts and the
\* overwriting insert of poll_assign adjust the two separately; and it stays
\* within the window.
SlotsSound == SlotsSoundOf(dl)

\* "Max total blocks downloading simultaneously", "Max blocks per peer": the
\* limits of legacy.rs:46-47 hold of the requests themselves.
WindowsRespected ==
    /\ Cardinality(Inflight(dl)) <= GLOBAL_INFLIGHT
    /\ \A a \in Peers : Cardinality(InflightOf(dl, a)) <= PER_PEER_INFLIGHT

\* The progress get_progress reports never exceeds 100%: what is done, queued
\* and in flight has all been counted in total_blocks.
ProgressBounded == ProgressBoundedOf(dl)

\* A block that is queued or in flight stays so until it arrives: neither a
\* timeout nor an assignment to another peer drops it.
NothingDropped ==
    [][ \A h \in Tracked(dl) :
            \/ h \in Tracked(dl')
            \/ \E a \in Peers : DLReceive(a, h)
            \/ \E v \in Batches : DLRestart(v) ]_dl
=============================================================================
