---------------------------- MODULE PeerManager ----------------------------
(***************************************************************************)
(* PeerManager of src/p2p/legacy.rs: the one task that connects to peers,  *)
(* fetches headers from one sync peer, then fetches blocks from all peers  *)
(* and hands them to the block processor.  It composes Downloader and      *)
(* HeaderChain, whose variables are fields of the same struct, with the    *)
(* connections, the block channel and the kernel.                          *)
(*                                                                         *)
(* One action is one branch of the event loop or one message handler.  The *)
(* loop polls all peers in every round and each poll may find nothing, so  *)
(* the branches interleave freely; handlers that call extend_headers or    *)
(* add_outbound several times hold the task (ctl) until they end.  The     *)
(* block processor is a task of its own.                                   *)
(*                                                                         *)
(* Time is abstract: hdr_age says whether last_headers_ts is recent, past  *)
(* the re-request delay, or past STALL_LIMIT.                              *)
(***************************************************************************)
EXTENDS Downloader, HeaderChain

CONSTANTS
    HEADER_SYNC_THRESHOLD,  \* 144 in the code
    MaxBoot,        \* max_boot: connections made by one bootstrap
    MAX_OUTBOUND_FROM_ADDR,
    FewPeers,       \* with fewer peers and no sync peer, bootstrap again
    FullNodes,      \* peers that advertise NODE_NETWORK
    PeerChain,      \* the chain a peer serves, genesis first
    Claims,         \* the start heights a peer may announce in its Version
    Announces,      \* the headers a peer may send unasked
    MaxAsked,       \* bound: unanswered GetHeaders remembered per peer
    MaxDrops,       \* bound: connections lost
    MayReturn,      \* TRUE: a lost peer can be connected again
    MaxCrashes,     \* bound: restarts of the process
    AllowExpiry,    \* TRUE: block requests can time out
    AllowInv,       \* TRUE: peers announce blocks with Inv
    Responsive      \* peers that can be connected to and answer requests

ASSUME HashesAreHeaders == Hashes = Headers
ASSUME PeerManagerConstants ==
    /\ HEADER_SYNC_THRESHOLD \in Nat /\ MaxBoot \in Nat /\ FewPeers \in Nat
    /\ MAX_OUTBOUND_FROM_ADDR \in Nat
    /\ MaxAsked \in Nat /\ MaxDrops \in Nat /\ MaxCrashes \in Nat
    /\ FullNodes \subseteq Peers /\ Responsive \subseteq Peers
    /\ PeerChain \in [Peers -> Seq(Headers)]
    /\ \A p \in Peers : PeerChain[p] # << >> /\ PeerChain[p][1] = Genesis
    /\ \A p \in Peers : /\ Claims[p] \subseteq Int
                        /\ Announces[p] \subseteq Elements(PeerChain[p])

VARIABLES
    peers,              \* connected peers
    sync_peer,          \* the headers sync peer, or NoPeer
    peer_heights,       \* map: announced height of each peer seen this session
    best_known_height,
    headers_synced,
    start_height,       \* the kernel's height when the process started
    ctl,                \* what the event-loop task is in the middle of
    hdr_age,            \* age of last_headers_ts
    getheaders,         \* per peer: where each unanswered GetHeaders leads to
    getdata,            \* per peer: blocks asked for and not yet answered
    channel,            \* blocks handed to the block processor
    stored,             \* blocks the kernel has
    drops, crashes,     \* how often the environment has interfered
    plan                \* history: blocks queued at the end of header sync (or
                        \* at a restart) that have not arrived

connVars == <<peers, sync_peer, peer_heights, best_known_height>>
netVars  == <<getheaders, getdata>>
envVars  == <<drops, crashes>>
pmVars   == <<dl, hcVars, connVars, headers_synced, start_height, ctl, hdr_age,
              netVars, channel, stored, envVars, plan>>

Loop             == [at |-> "loop"]
Connecting(n)    == [at |-> "connect", left |-> n]
Handling(p, full) == [at |-> "headers", from |-> p, full |-> full]

\* Height of a block in the tree of headers.
depth[h \in Headers] ==
    IF h = Genesis \/ Parent[h] \notin Headers THEN 0 ELSE 1 + depth[Parent[h]]

\* No header is its own ancestor, so every one has a height.
ASSUME HeightAssumption ==
    /\ depth \in [Headers -> Nat]
    /\ \A h \in Headers :
          depth[h] = IF h = Genesis \/ Parent[h] \notin Headers THEN 0
                     ELSE 1 + depth[Parent[h]]

\* Mutant of KernelHeight: the number of blocks for the height of the tip.
CountForHeight(S) == Cardinality(S)

\* active_height of the kernel: the longest chain it has.  A kernel that could be
\* created has an active chain, of genesis at least, so that the -1 for a missing
\* chain does not occur and "as usize + 1" is start_height + 1.
KernelHeight(S) == CHOOSE n \in {depth[h] : h \in S} :
                       \A h \in S : depth[h] <= n

\* Blocks of chain c above height n: recent_chain.iter().skip(n + 1).
Above(c, n) == SubSeq(c, n + 2, Len(c))

-----------------------------------------------------------------------------
(* Sending requests *)

\* build_locator lists the chain backwards from its tip down to genesis; a
\* peer answers from the first entry it knows.
Anchor(p) ==
    LET known == {i \in 1..Len(recent_chain) :
                     recent_chain[i] \in Elements(PeerChain[p])}
    IN recent_chain[CHOOSE i \in known : \A j \in known : j <= i]

\* request_headers: nothing is sent to a peer that is not connected.
RequestHeaders(p) ==
    getheaders' = IF p \in peers /\ Len(getheaders[p]) < MaxAsked
                  THEN [getheaders EXCEPT ![p] = Append(@, Anchor(p))]
                  ELSE getheaders

\* Mutant of AskBlocks: a new peer is given the whole queue.
AskForAll(d, a) ==
    /\ dl' = Assign(d, a, Len(d.queue))
    /\ getdata' = [getdata EXCEPT ![a] = @ \o d.queue]

\* poll_assign for peer a, and a GetData for what it returns.
AskBlocks(d, a) ==
    /\ dl' = PollAssign(d, a)
    /\ getdata' = [getdata EXCEPT ![a] = @ \o Assigned(d, a)]

-----------------------------------------------------------------------------
(* Start and restart *)

\* The headers a peer sends after header x: the next MaxHeaders of its chain.
Following(p, x) ==
    LET c == PeerChain[p]
        i == CHOOSE k \in 1..Len(c) : c[k] = x
    IN SubSeq(c, i + 1, IF i + MaxHeaders < Len(c) THEN i + MaxHeaders ELSE Len(c))

\* with_start_height: any headers in the file count as a finished header sync.
SessionStart(chain, blocks) ==
    /\ peers' = {}
    /\ sync_peer' = NoPeer
    /\ peer_heights' = << >>
    /\ best_known_height' = 0
    /\ headers_synced' = (Len(chain) > 1)
    /\ start_height' = KernelHeight(blocks)
    /\ dl' = DLStart(Above(chain, KernelHeight(blocks)))
    /\ plan' = Elements(dl'.queue)
    /\ ctl' = Connecting(MaxBoot)
    /\ hdr_age' = "fresh"
    /\ getheaders' = [p \in Peers |-> << >>]
    /\ getdata' = [p \in Peers |-> << >>]
    /\ channel' = << >>

PMInit ==
    /\ HCInit
    /\ dl = NewDownloader
    /\ peers = {} /\ sync_peer = NoPeer
    /\ peer_heights = << >>
    /\ best_known_height = 0
    /\ headers_synced = FALSE
    /\ start_height = 0
    /\ ctl = Connecting(MaxBoot)
    /\ hdr_age = "fresh"
    /\ getheaders = [p \in Peers |-> << >>]
    /\ getdata = [p \in Peers |-> << >>]
    /\ channel = << >>
    /\ stored = {Genesis}
    /\ drops = 0 /\ crashes = 0
    /\ plan = {}

\* Sets of blocks the kernel can come back with after a crash: what it had not
\* flushed is lost, but never a block below one it keeps.
Survivors == {S \in SUBSET stored : /\ Genesis \in S
                                    /\ \A h \in S \ {Genesis} : Parent[h] \in S}

\* The process dies and main starts it again.
Restart ==
    /\ crashes < MaxCrashes
    /\ crashes' = crashes + 1
    /\ HCRestart
    /\ \E S \in Survivors : stored' = S /\ SessionStart(recent_chain', S)
    /\ UNCHANGED drops

-----------------------------------------------------------------------------
(* Connections *)

\* The sync peer add_outbound selects when peer p, announcing n, has joined; it
\* replaces none, one whose height is not known, or one with a lower height.
Select(p, n) ==
    IF /\ p \in FullNodes /\ n > 0
       /\ sync_peer \in DOMAIN peer_heights' => n > peer_heights'[sync_peer]
    THEN p ELSE sync_peer

\* add_outbound, when the connection and the handshake succeed.
AddOutbound(p) ==
    /\ ctl.at = "connect" /\ ctl.left > 0
    /\ p \notin peers
    /\ MayReturn \/ p \notin DOMAIN peer_heights
    /\ ctl' = Connecting(ctl.left - 1)
    /\ peers' = peers \cup {p}
    /\ \E n \in Claims[p] :
          /\ peer_heights' = [q \in DOMAIN peer_heights \cup {p} |->
                                 IF q = p THEN n ELSE peer_heights[q]]
          /\ best_known_height' = IF n > best_known_height THEN n
                                  ELSE best_known_height
          /\ sync_peer' = IF headers_synced THEN sync_peer ELSE Select(p, n)
    /\ IF headers_synced THEN AskBlocks(dl, p) ELSE UNCHANGED <<dl, getdata>>
    /\ UNCHANGED <<hcVars, headers_synced, start_height, hdr_age, getheaders,
                   channel, stored, envVars, plan>>

\* bootstrap ends: connected to max_boot peers, or out of addresses.
ConnectDone ==
    /\ ctl.at = "connect"
    /\ ctl' = Loop
    /\ UNCHANGED <<dl, hcVars, connVars, headers_synced, start_height, hdr_age,
                   netVars, channel, stored, envVars, plan>>

\* No peers: the loop forgets the sync peer and bootstraps.
Rebootstrap ==
    /\ ctl = Loop /\ peers = {}
    /\ sync_peer' = NoPeer
    /\ ctl' = Connecting(MaxBoot)
    /\ UNCHANGED <<dl, hcVars, peers, peer_heights, best_known_height,
                   headers_synced, start_height, hdr_age, netVars, channel,
                   stored, envVars, plan>>

\* An Addr message: up to two of the addresses are tried, unless there are
\* enough peers.
RecvAddr(p) ==
    /\ ctl = Loop /\ p \in peers
    /\ LET room == SatSub(MAX_OUTBOUND_FROM_ADDR, Cardinality(peers))
       IN room > 0 /\ ctl' = Connecting(IF room < 2 THEN room ELSE 2)
    /\ UNCHANGED <<dl, hcVars, connVars, headers_synced, start_height, hdr_age,
                   netVars, channel, stored, envVars, plan>>

\* recv fails: the peer is removed from the map, and nothing else is told.
RecvError(p) ==
    /\ ctl = Loop /\ p \in peers
    /\ drops < MaxDrops
    /\ drops' = drops + 1
    /\ peers' = peers \ {p}
    /\ getheaders' = [getheaders EXCEPT ![p] = << >>]
    /\ getdata' = [getdata EXCEPT ![p] = << >>]
    /\ UNCHANGED <<dl, hcVars, sync_peer, peer_heights, best_known_height,
                   headers_synced, start_height, ctl, hdr_age, channel, stored,
                   crashes, plan>>

-----------------------------------------------------------------------------
(* Headers *)

\* The condition of check_headers_sync_complete: within the threshold of the
\* greatest height any peer has announced.
SyncCompletes ==
    /\ ~headers_synced
    /\ best_known_height > 0
    /\ header_chain_height >= best_known_height - HEADER_SYNC_THRESHOLD

\* check_headers_sync_complete and queue_blocks_from_headers, then the request
\* for blocks that both header handlers make once headers are synced.
CheckSyncAndAsk(p) ==
    /\ headers_synced' = (headers_synced \/ SyncCompletes)
    /\ LET missing == Above(recent_chain, start_height)
           d == IF SyncCompletes THEN PushMany(dl, missing) ELSE dl
       IN /\ IF headers_synced' THEN AskBlocks(d, p)
                                ELSE UNCHANGED <<dl, getdata>>
          /\ plan' = IF SyncCompletes THEN Elements(missing) ELSE plan

\* The reply to the oldest unanswered GetHeaders reaches us: empty, ...
RecvEmptyHeaders(p) ==
    /\ ctl = Loop /\ p \in peers
    /\ getheaders[p] # << >> /\ Following(p, Head(getheaders[p])) = << >>
    /\ getheaders' = [getheaders EXCEPT ![p] = Tail(@)]
    /\ hdr_age' = "fresh"
    /\ CheckSyncAndAsk(p)
    /\ UNCHANGED <<hcVars, connVars, start_height, ctl, channel, stored, envVars>>

\* ... or with headers.
RecvHeaders(p) ==
    /\ ctl = Loop /\ p \in peers
    /\ getheaders[p] # << >>
    /\ LET b == Following(p, Head(getheaders[p]))
       IN /\ b # << >>
          /\ BeginExtend(b)
          /\ ctl' = Handling(p, Len(b) = MaxHeaders)
    /\ getheaders' = [getheaders EXCEPT ![p] = Tail(@)]
    /\ hdr_age' = "fresh"
    /\ UNCHANGED <<dl, connVars, headers_synced, start_height, getdata, channel,
                   stored, envVars, plan>>

\* Mutant of RecvAnnouncement: the header is taken over without extend_headers.
AnnouncementTrusted(p) ==
    /\ ctl = Loop /\ p \in peers
    /\ \E h \in Announces[p] \ have_header :
          /\ recent_chain' = Append(recent_chain, h)
          /\ have_header' = have_header \cup {h}
          /\ header_chain_height' = header_chain_height + 1
          /\ disk' = Append(disk, h)
    /\ UNCHANGED <<dl, batch, processing_tip, added, file_ok, connVars,
                   headers_synced, start_height, ctl, hdr_age, netVars, channel, stored,
                   envVars, plan>>

\* A peer announces a header of its chain unasked (SendHeaders was sent to it).
RecvAnnouncement(p) ==
    /\ ctl = Loop /\ p \in peers
    /\ \E h \in Announces[p] :
          /\ BeginExtend(<<h>>)
          /\ ctl' = Handling(p, MaxHeaders = 1)
    /\ hdr_age' = "fresh"
    /\ UNCHANGED <<dl, connVars, headers_synced, start_height, netVars, channel,
                   stored, envVars, plan>>

\* One round of extend_headers.
Extend ==
    /\ ctl.at = "headers"
    /\ ExtendStep
    /\ UNCHANGED <<dl, connVars, headers_synced, start_height, ctl, hdr_age,
                   netVars, channel, stored, envVars, plan>>

\* After extend_headers: a full batch that added something is followed up at
\* the same peer.
HeadersProgress ==
    /\ ctl.at = "headers" /\ batch = << >>
    /\ ctl.full /\ added > 0
    /\ RequestHeaders(ctl.from)
    /\ ctl' = Loop
    /\ hdr_age' = "fresh"
    /\ UNCHANGED <<dl, hcVars, connVars, headers_synced, start_height, getdata,
                   channel, stored, envVars, plan>>

\* A full batch that added nothing makes any other connected peer sync peer.
HeadersStuck ==
    /\ ctl.at = "headers" /\ batch = << >>
    /\ ctl.full /\ added = 0
    /\ LET others == peers \ {ctl.from}
       IN \/ /\ others = {}
             /\ sync_peer' = NoPeer
             /\ UNCHANGED <<getheaders, hdr_age>>
          \/ \E q \in others : /\ sync_peer' = q
                               /\ RequestHeaders(q)
                               /\ hdr_age' = "fresh"
    /\ ctl' = Loop
    /\ UNCHANGED <<dl, hcVars, peers, peer_heights, best_known_height,
                   headers_synced, start_height, getdata, channel, stored,
                   envVars, plan>>

\* A batch that was not full may end header sync.
HeadersDone ==
    /\ ctl.at = "headers" /\ batch = << >>
    /\ ~ctl.full
    /\ CheckSyncAndAsk(ctl.from)
    /\ ctl' = Loop
    /\ UNCHANGED <<hcVars, connVars, start_height, hdr_age, getheaders, channel,
                   stored, envVars>>

\* Mutant of PeriodicRequest: only the first request is repeated.
InitialRequestOnly ==
    /\ ctl = Loop /\ ~headers_synced
    /\ sync_peer \in peers /\ header_chain_height = 0
    /\ hdr_age # "fresh"
    /\ RequestHeaders(sync_peer)
    /\ hdr_age' = "fresh"
    /\ UNCHANGED <<dl, hcVars, connVars, headers_synced, start_height, ctl,
                   getdata, channel, stored, envVars, plan>>

\* The end of a round: header requests go to the sync peer, if connected.
PeriodicRequest ==
    /\ ctl = Loop /\ ~headers_synced
    /\ sync_peer \in peers
    /\ hdr_age # "fresh"
    /\ RequestHeaders(sync_peer)
    /\ hdr_age' = "fresh"
    /\ UNCHANGED <<dl, hcVars, connVars, headers_synced, start_height, ctl,
                   getdata, channel, stored, envVars, plan>>

\* No sync peer and few peers: more connections.
SeekSyncPeer ==
    /\ ctl = Loop /\ ~headers_synced /\ peers # {}
    /\ sync_peer = NoPeer /\ Cardinality(peers) < FewPeers
    /\ hdr_age # "fresh"
    /\ ctl' = Connecting(MaxBoot)
    /\ hdr_age' = "fresh"
    /\ UNCHANGED <<dl, hcVars, connVars, headers_synced, start_height, netVars,
                   channel, stored, envVars, plan>>

\* Mutant of ReplaceStalled: a stall only starts the timer again.
StallRestartsTimer ==
    /\ ctl = Loop /\ ~headers_synced /\ peers # {}
    /\ hdr_age = "stalled"
    /\ sync_peer \notin peers
    /\ hdr_age' = "fresh"
    /\ UNCHANGED <<dl, hcVars, connVars, headers_synced, start_height, ctl,
                   netVars, channel, stored, envVars, plan>>

\* Past STALL_LIMIT the sync peer is removed and others are looked for.  The
\* two branches above come first in the round and renew the timestamp.
ReplaceStalled ==
    /\ ctl = Loop /\ ~headers_synced /\ peers # {}
    /\ hdr_age = "stalled"
    /\ sync_peer \notin peers
    /\ sync_peer = NoPeer => Cardinality(peers) >= FewPeers
    /\ peers' = peers \ {sync_peer}
    /\ sync_peer' = NoPeer
    /\ ctl' = Connecting(MaxBoot)
    /\ UNCHANGED <<dl, hcVars, peer_heights, best_known_height, headers_synced,
                   start_height, hdr_age, netVars, channel, stored, envVars,
                   plan>>

\* Time passes without headers.  (external: the clock)
Tick ==
    /\ ~headers_synced
    /\ \/ hdr_age = "fresh" /\ hdr_age' = "due"
       \/ hdr_age = "due"   /\ hdr_age' = "stalled"
    /\ UNCHANGED <<dl, hcVars, connVars, headers_synced, start_height, ctl,
                   netVars, channel, stored, envVars, plan>>

-----------------------------------------------------------------------------
(* Blocks *)

\* Mutant of RecvInv: announcements count during header sync too.
InvAnyTime(p) ==
    /\ AllowInv
    /\ ctl = Loop /\ p \in peers
    /\ \E h \in Elements(PeerChain[p]) :
          LET need == IF h \in have_header THEN <<h>> ELSE << >>
          IN /\ dl.total + Len(need) <= MaxTotal
             /\ AskBlocks(PushMany(dl, need), p)
    /\ UNCHANGED <<hcVars, connVars, headers_synced, start_height, ctl, hdr_age,
                   getheaders, channel, stored, envVars, plan>>

\* Inv: the announced blocks whose headers we have are queued, unseen whether
\* they are queued, in flight or stored already.  An Inv of several blocks is
\* taken as one Inv for each.
RecvInv(p) ==
    /\ AllowInv
    /\ ctl = Loop /\ p \in peers /\ headers_synced
    /\ \E h \in Elements(PeerChain[p]) :
          LET need == IF h \in have_header THEN <<h>> ELSE << >>
          IN /\ dl.total + Len(need) <= MaxTotal
             /\ AskBlocks(PushMany(dl, need), p)
    /\ UNCHANGED <<hcVars, connVars, headers_synced, start_height, ctl, hdr_age,
                   getheaders, channel, stored, envVars, plan>>

\* Mutant of RecvBlock: the slot is freed but nothing more is asked for.
BlockWithoutPoll(p) ==
    /\ ctl = Loop /\ p \in peers
    /\ getdata[p] # << >> /\ headers_synced
    /\ LET h == Head(getdata[p])
       IN /\ h \in Elements(PeerChain[p])
          /\ dl' = Complete(dl, h)
          /\ channel' = Append(channel, h)
          /\ plan' = plan \ {h}
    /\ getdata' = [getdata EXCEPT ![p] = Tail(@)]
    /\ UNCHANGED <<hcVars, connVars, headers_synced, start_height, ctl, hdr_age,
                   getheaders, stored, envVars>>

\* Block: its slot is freed, the peer is asked for more, and the block goes to
\* the processor.  During header sync a block is ignored: by BlocksAfterHeaders
\* none has been asked for then, and blocks sent unasked are not modelled.
RecvBlock(p) ==
    /\ ctl = Loop /\ p \in peers
    /\ getdata[p] # << >>
    /\ LET h == Head(getdata[p])
           d == Complete(dl, h)
       IN /\ h \in Elements(PeerChain[p])
          /\ headers_synced
          /\ dl' = PollAssign(d, p)
          /\ getdata' = [getdata EXCEPT ![p] = Tail(@) \o Assigned(d, p)]
          /\ channel' = Append(channel, h)
          /\ plan' = plan \ {h}
    /\ UNCHANGED <<hcVars, connVars, headers_synced, start_height, ctl, hdr_age,
                   getheaders, stored, envVars>>

\* NotFound: only logged.
RecvNotFound(p) ==
    /\ ctl = Loop /\ p \in peers
    /\ getdata[p] # << >> /\ Head(getdata[p]) \notin Elements(PeerChain[p])
    /\ getdata' = [getdata EXCEPT ![p] = Tail(@)]
    /\ UNCHANGED <<dl, hcVars, connVars, headers_synced, start_height, ctl,
                   hdr_age, getheaders, channel, stored, envVars, plan>>

\* Mutant of Expire: reassign_timeouts without push_many.
ExpireAndForget ==
    /\ AllowExpiry
    /\ ctl = Loop /\ peers # {}
    /\ \E E \in (SUBSET Inflight(dl)) \ {{}} : dl' = ReassignTimeouts(dl, E)
    /\ UNCHANGED <<hcVars, connVars, headers_synced, start_height, ctl, hdr_age,
                   netVars, channel, stored, envVars, plan>>

\* The start of a round: expired requests go back to the queue.
Expire ==
    /\ AllowExpiry
    /\ ctl = Loop /\ peers # {}
    /\ \E E \in (SUBSET Inflight(dl)) \ {{}} : DLExpire(E)
    /\ UNCHANGED <<hcVars, connVars, headers_synced, start_height, ctl, hdr_age,
                   netVars, channel, stored, envVars, plan>>

\* process_block of the kernel: a block is added if its parent is there; one
\* that is rejected or already known leaves the chain as it is.
KernelProcess(S, h) == IF Parent[h] \in S THEN S \cup {h} ELSE S

\* The block processor takes the next block to the kernel; whatever
\* process_block returns is only logged.
ProcessBlock ==
    /\ channel # << >>
    /\ channel' = Tail(channel)
    /\ stored' = KernelProcess(stored, Head(channel))
    /\ UNCHANGED <<dl, hcVars, connVars, headers_synced, start_height, ctl,
                   hdr_age, netVars, envVars, plan>>

-----------------------------------------------------------------------------
PMNext ==
    \/ \E p \in Peers :
          \/ AddOutbound(p) \/ RecvAddr(p) \/ RecvError(p)
          \/ RecvEmptyHeaders(p) \/ RecvHeaders(p) \/ RecvAnnouncement(p)
          \/ RecvInv(p) \/ RecvBlock(p) \/ RecvNotFound(p)
    \/ ConnectDone \/ Rebootstrap
    \/ Extend \/ HeadersProgress \/ HeadersStuck \/ HeadersDone
    \/ PeriodicRequest \/ SeekSyncPeer \/ ReplaceStalled \/ Tick
    \/ Expire \/ ProcessBlock \/ Restart

PMSpec == PMInit /\ [][PMNext]_pmVars

\* The event loop goes round for ever and comes to every branch in every round,
\* the block processor takes what it is sent, and time passes.
LoopFairness ==
    /\ WF_pmVars(Extend)
    /\ WF_pmVars(HeadersProgress \/ HeadersStuck \/ HeadersDone)
    /\ WF_pmVars(ConnectDone)
    /\ SF_pmVars(Rebootstrap)
    /\ SF_pmVars(PeriodicRequest)
    /\ SF_pmVars(SeekSyncPeer)
    /\ SF_pmVars(ReplaceStalled)
    /\ WF_pmVars(ProcessBlock)
    /\ WF_pmVars(Tick)

\* A responsive peer answers what it is asked and is found by bootstrap.
PeerFairness ==
    \A p \in Responsive :
        /\ SF_pmVars(AddOutbound(p))
        /\ SF_pmVars(RecvHeaders(p) \/ RecvEmptyHeaders(p))
        /\ SF_pmVars(RecvBlock(p) \/ RecvNotFound(p))

PMFairSpec == PMSpec /\ LoopFairness /\ PeerFairness

-----------------------------------------------------------------------------
(* Properties *)

PMTypeOK ==
    /\ DLTypeOK /\ HCTypeOK
    /\ peers \subseteq Peers
    /\ sync_peer \in Peers \cup {NoPeer}
    /\ DOMAIN peer_heights \subseteq Peers
    /\ peers \cup ({sync_peer} \ {NoPeer}) \subseteq DOMAIN peer_heights
    /\ best_known_height \in Nat /\ start_height \in Nat
    /\ headers_synced \in BOOLEAN
    /\ hdr_age \in {"fresh", "due", "stalled"}
    /\ getheaders \in [Peers -> Seq(Headers)]
    /\ getdata \in [Peers -> Seq(Headers)]
    /\ channel \in Seq(Headers)
    /\ Genesis \in stored /\ stored \subseteq Headers

\* The event loop uses the downloader and the header chain only in the ways
\* their own specifications allow, so that what is proved of them holds here.
ImplementsDownloader  == DLSpec
ImplementsHeaderChain == HCSpec

\* The node as a whole is a headers-first synchronizer: no interleaving of
\* peers, timeouts, restarts and the block processor makes it learn a header or
\* store a block without the parent, or store blocks before headers are synced.
Abstract == INSTANCE HeadersFirst
                WITH headers <- have_header, blocks <- stored, synced <- headers_synced
ImplementsHeadersFirst == Abstract!HFSpec

\* "헤더 동기화 완료 후에만 블록 다운로드": no block is queued, in flight or asked
\* for, and no peer holds a request, before header sync is over.
BlocksAfterHeaders ==
    ~headers_synced => /\ Tracked(dl) = {}
                       /\ \A p \in Peers : getdata[p] = << >>

\* A block queued at the end of header sync is queued or in flight until it
\* arrives, across lost peers, timeouts, duplicates and late answers.
PlanTracked == plan \subseteq Tracked(dl)

\* The blocks that the download queue skips because they lie below
\* start_height are in the kernel.
SkippedBlocksStored ==
    headers_synced =>
        \A i \in 1..Len(recent_chain) :
            i <= start_height + 1 => recent_chain[i] \in stored

\* "to ensure parent blocks are processed before children. We use a channel to
\* maintain order": the block the processor takes next has its parent in the
\* kernel.  The channel keeps the order of arrival, so that this fails as soon as
\* two peers serve consecutive blocks.
ParentBeforeChild ==
    channel # << >> /\ Head(channel) # Genesis =>
        Parent[Head(channel)] \in stored

\* "Should sync to tip", the headers: the node ends up with every header of
\* every responsive peer's chain.
HeadersReachTip ==
    <>[](\A p \in Responsive : Elements(PeerChain[p]) \subseteq have_header)

\* "Should sync to tip", the blocks: as long as no connection is lost and blocks
\* of different peers happen to come in the order of the chain, the kernel ends
\* up with every block of every responsive peer's chain, whatever times out.
BlocksReachTip ==
    [](drops = 0 /\ ParentBeforeChild)
        => <>[](\A p \in Responsive : Elements(PeerChain[p]) \subseteq stored)

\* A sync peer that never answers does not stay sync peer for ever (the branch
\* "headers stall; replacing sync peer" of the event loop).
SilentSyncPeerReplaced ==
    \A p \in Peers : sync_peer = p ~> (sync_peer # p \/ headers_synced)

\* "Peer switching on failure": when the sync peer is gone and a full node is
\* still connected, there is a connected sync peer again at some time.
LostSyncPeerReplaced ==
    (sync_peer # NoPeer /\ sync_peer \notin peers /\ peers \cap FullNodes # {})
        ~> (sync_peer \in peers \/ headers_synced \/ peers \cap FullNodes = {})
=============================================================================
