# A TLA+ verification of btck-rust-node

The specifications in this directory describe the node of this repository: a
Rust program that downloads the Bitcoin header chain and blocks from peers,
hands the blocks to libbitcoinkernel, keeps a transaction pool and answers RPC.
Each module is translated from the source lines that `PROJECT.json` lists under
`map`. TLC checks small instances; TLAPS proves the safety properties of every
component, of the event loop that composes two of them, and its refinements, for
all values of the constants. Section 5 says which, and what is left to TLC.

All paths below are relative to the crate, so `p2p/legacy.rs` is
`src/p2p/legacy.rs` of the repository.

## 1. Inventory

| Component | State | Operations | Modelled by |
|---|---|---|---|
| Block download scheduler, `Downloader` in `p2p/legacy.rs` | queue, in-flight map with deadlines, slot counters, progress counters | `push_many`, `poll_assign`, `complete`, `reassign_timeouts` | `Downloader` |
| Header chain and headers file, `p2p/legacy.rs`, `chainparams.rs` | `recent_chain`, `have_header`, `header_chain_height`, the file | `extend_headers`, `append_header_to_disk`, `load_headers_from_disk`, checkpoints | `HeaderChain` |
| Peer manager, `PeerManager` in `p2p/legacy.rs` | peers, sync peer, announced heights, `headers_synced`, timers | `bootstrap`, `add_outbound`, `event_loop` and its message handlers | `PeerManager`; what it promises, `HeadersFirst` |
| Connection: handshake and framing, `Peer` in `p2p/legacy.rs` | socket, negotiated features | `handshake`, `recv` and its cancellation | `Connection` |
| Kernel wrapper, `kernel/mod.rs`, `ffi.rs` | chain state inside libbitcoinkernel | `new`, `drop`, `process_block`, `import_blocks`, `active_height`, reads | `PeerManager` (which blocks it has), `Lifecycle` (who holds it, what it has written) |
| Start and shutdown, `main.rs` | the clones of the kernel, phases of `main` | start, import, serve, Ctrl-C, `stop`, drop | `Lifecycle`; restarts also in `PeerManager` |
| RPC server, `rpc/mod.rs`, `rpc/blockchain.rs` | the shutdown sender | connections, `stop`, `flushstate`, answers made of several reads | `Lifecycle` |
| Mempool, `mempool/txmempool.rs`, `entry.rs`, `policy.rs` | entries, `spends`, totals | `add_tx`, `remove_tx`, `update_height`, `clear` | `Mempool` (a call is a step), `MempoolTasks` (a map operation is a step) |
| Block template, `mempool/txmempool.rs` | none | `get_block_template`, `get_ancestors` | `BlockTemplate` |
| Address manager, `addrman.rs` | new and tried tables and their buckets, each behind a lock | `add`, `good`, `attempt`, `select`, `get_addresses`, `get_stats`, `clear` | `AddressManager` |
| Fee estimator, `mempool/fees.rs` | history, buckets | `add_tx`, `confirm_tx`, estimates | not modelled, see section 6 |
| Inventory manager, `p2p/inventory.rs` | wanted, in-flight, known sets | announce, request, receive, timeouts | not modelled |
| Thread-based P2P and connection manager, `p2p/manager.rs`, `network/connman.rs` | peer lists | | not modelled |

How they interact. The event loop is one task. It owns the scheduler and the
header chain and calls them directly; peers reach it through messages that come
in any order, late, twice or never. Accepted blocks go through an unbounded
channel to the block processor, a second task, which takes each block to a
blocking thread, calls the kernel there and only logs what it answers. Every Tx
message is handled by a task of its own, so calls of `add_tx` overlap. Every
RPC connection is a task with a clone of `AppState`. The kernel is shared by
all of them through an `Arc`, and the last clone to go flushes it. Only two
things survive the process: the headers file and the kernel's data.

What is hard about it, and where the properties aim (`PROJECT.json` lists each
hazard with its line):

* the order in which several peers' answers arrive, against the order in which
  blocks must reach the kernel;
* repeated requests whose first answer is only late;
* peers that vanish while they are sync peer or owe blocks;
* a crash between two appends to the headers file, a failed append, a file that
  cannot be read;
* counters, maps and queues that are updated in several places and must agree,
  in the mempool by several tasks at once;
* a read that is cancelled half-way through a message;
* locks taken in different orders, and facts that are stale once a lock is
  given back;
* who is the last to let go of the kernel, and whether the process ends at all;
* whether sync ever ends.

## 2. Modules

### `Downloader`

The state is one record `dl` with the fields of the Rust struct; the methods
are operators on it, and the actions are the sequences of calls the event loop
makes: `DLPoll` (a new connection), `DLPushPoll` (Inv, end of header sync),
`DLReceive` (a block), `DLExpire` (timeouts at the start of a round) and
`DLRestart`. Deadlines are a free choice: any set of requests may have expired.
Blocks may be queued twice and may arrive without having been asked for, as
they may in the code.

### `HeaderChain`

One step is one round of the loop of `extend_headers`, because the file grows
once per accepted header and the process may die in between. A header is a
model value with a `Parent`; forks and unknown parents are part of the tree of
the instance. `DiskMayFail` makes appends fail, `MaxReread` makes short files
unreadable at a start; `file_ok` is a history variable that says that neither
has happened so far, and the properties that depend on the file are stated under
it. Restarting reads the file back without verifying it, as `with_start_height`
does. `prev_map`, `header_chain` and `best_header_tip` are
left out: no decision reads them, or they repeat `recent_chain`.

### `PeerManager`

Extends the two modules above, whose variables are fields of the same struct,
and adds connections, timers, outstanding requests, the channel and the kernel.
One action is one branch of the loop or one message handler:

| Action | Code |
|---|---|
| `AddOutbound`, `ConnectDone`, `Rebootstrap`, `SeekSyncPeer`, `RecvAddr` | `add_outbound`, `bootstrap` and the places that call it |
| `RecvHeaders`, `RecvAnnouncement`, `RecvEmptyHeaders` | the Headers handler up to `extend_headers` |
| `Extend` | `extend_headers`, round by round |
| `HeadersProgress`, `HeadersStuck`, `HeadersDone` | the rest of the Headers handler |
| `PeriodicRequest`, `ReplaceStalled` | the end of a round |
| `RecvInv`, `RecvBlock`, `RecvNotFound`, `Expire` | block download |
| `RecvError` | a failed `recv` |
| `ProcessBlock` | the block processor task |
| `Restart` | the process dies and `main` starts it again |
| `Tick` | the clock (external) |

`ctl` holds the loop inside a handler while the handler runs, so handlers do
not interleave; the block processor and a crash interleave with everything.
`hdr_age` is the age of `last_headers_ts`: fresh, past the re-request delay, or
past `STALL_LIMIT`. A peer serves a fixed chain and answers a GetHeaders from
the first locator entry it knows. A restart finds any set of stored blocks that
is closed under parents, since the kernel may not have flushed the last ones.

Ping, Pong and GetHeaders messages change no state of the manager; a Tx message
starts a task (`MempoolTasks`).

### `HeadersFirst`

The abstract specification of the node: a set of headers that grows along known
parents, a set of blocks that grows along stored parents and only once headers
are synced, and restarts that keep a rooted part of each. `PeerManager`
implements it with `headers <- have_header`, `blocks <- stored`,
`synced <- headers_synced`; requests, timers, peers and the channel disappear.

### `Mempool`

The pool is a record; `RemoveAll`, `Insert`, `Victims` and the checks are
operators on it, in the order in which `add_tx` uses them. A call of `add_tx`
is `AddTx`, or `AddTxFails` when it fails on the ancestor limits *after*
having removed the transactions it was to replace; other failing calls change
nothing. `remove_tx` touches only the direct parents and children of what it
removes, so removing several transactions in any order is one set operation.
Eviction goes by fee rate with ties in any order; expiry may hit any entries,
because it goes by the wall clock. Here a call is one step; `MempoolTasks` is
about calls that overlap.

A new entry is linked to the parents that are in the pool when it arrives, and
never to children that came before it, because that is what `find_parents` and
`add_tx` do; `check_tx_inputs` calls every input available, so children may come
first. `Ancestors` therefore follows links, as `get_ancestors` does, and
`RealAncestors` follows inputs. `LinkedAncestorLimit` holds, `AncestorLimit` does
not (section 4).

The fee estimator and `current_height`, which calls also update, influence no
decision of the pool and are not part of the state.

### `MempoolTasks`

`add_tx` and the `remove_tx` it calls, cut into their operations on the
concurrent maps and the atomic totals, one action each: `Check`,
`FindConflicts`, `Replace`, `FindParents`, `InsertSpends`, `TellParents`,
`AddTotals`, `InsertEntry`, then `MeasureSize`, `ListEntries` for eviction and
`RemoveEntry`, `RemoveSpends`, `RemoveLinks`, `SubtractTotals` for each
transaction removed. A slot holds one call and what it remembers between two
operations (the conflicts it saw, its parents, the entry it took out). The pool
record is the one of `Mempool`. `raced` notes whether two calls have worked at
the same time on linked transactions (the same one, two spends of an output,
parent and child), `settled` the pool when no call was last under way. A loop
over the inputs or the links of one transaction is one step.

### `BlockTemplate`

`get_block_template` as an operator on a pool: the *set* of templates it may
return, since entries come out of a hash map and parents out of a hash set in
any order. `GetAncestors` is the stack walk of `get_ancestors` with its
duplicates, written as a recursive function over the number of pops, of which
there are at most as many as pushes: one for the transaction itself and one for
every link to a parent. One rank of the transactions stands for the order of all
hash sets of parents; in the code two sets may come in different orders, on which
no property depends.

### `AddressManager`

Every method is a list of steps (`Program`): take a lock, look something up, or
do what the method does under its locks. One action is one such step of one
thread. A writer first claims a lock, which keeps further readers out, and
enters when the readers inside have left; that is how the lock type used by the
code behaves, and why a thread that reads the same table twice can block
itself. Which entry of a full bucket goes, and what `select` draws, is any.
Times and services of an address are left out. Nothing in the node calls this
component yet; the module describes it as its public methods can be used.

### `Connection`

The peer's bytes are a sequence of chunks, each named by the message it belongs
to and its place in it. `ReadHeader` and `ReadPayload` are the two `read_exact`
calls of `recv`; `HandshakeTimeout` ends the connection, `LoopTimeout` drops
what was read and leaves the stream in the middle of a message, as dropping the
future of `recv` does. A header put together from such bytes announces any
length up to `MaxGarbage`, and its frame is refused. The handlers of the
handshake send what the code sends, in its order, and a failing send ends it.

### `Lifecycle`

`holders` is the set of clones of the kernel: of `main` (one of them inside the
mempool), the server, each task and each closure on a blocking thread. `Release`
drops clones and flushes when none is left, which is `Drop for Kernel`. `phase`
follows `main` through start, import, `select!`, abort, the drops and the end
of the runtime, which cancels tasks at an await and waits for blocking threads.
`Kill` ends the process anywhere, with any part of the accepted blocks on disk.

## 3. Runs

| Run | Instance | Shows |
|---|---|---|
| `header_chain` | 6 headers with a fork and an orphan, batches of up to 3, a checkpoint, failing appends, unreadable files of up to 1 header | only new headers with a known parent are accepted, and vector, set and counter agree, always; until the file fails, the file is the vector, every header follows its parent, checkpoints hold and nothing is taken back by a crash |
| `sync` | 2 peers, one a block behind, one lost connection, one crash, timeouts, Inv, any unsolicited header | no block request before header sync ends; the windows bound the real requests and slot counters never undercount or underflow; tracked blocks stay tracked until they arrive; a restart skips only stored blocks; the loop implements `HeadersFirst`, and uses scheduler and header chain only as their specifications allow |
| `live` | 2 peers on one chain, 2 blocks, one lost connection, late duplicates, timeouts | the headers reach the peers' tip; a lost sync peer is made up for; the kernel gets every block, if no connection is lost and no child overtakes its parent |
| `mempool` | 8 transactions: a diamond, chains, conflicts with one and with two entries; templates of weight 3 and 4 | `spends` and totals are exact, links are sound; along the links no entry has more than `max_ancestors`, and every template of every such pool holds all linked ancestors of what it holds, and nothing twice |
| `mempool_tasks` | 2 tasks, 4 calls, 4 transactions: two spends of a coin, a child, an unrelated one | the unsigned totals never underflow, whatever overlaps; calls on unlinked transactions leave exact spends and totals and sound links; calls that do not overlap do what `Mempool` says |
| `addrman` | 2 threads, 2 addresses, 2 sources, buckets of 1, room for 1 new address | buckets and tables agree and keep their limits; an address is given up only for another; no deadlock without a method that reads both tables |
| `connection` | up to 5 messages of 4 kinds in chunks, handshake of at most 3 messages | `recv` returns messages in order and none twice; the handshake loses none, exchanges Version and Verack both ways and ends |
| `lifecycle` | 1 client, 2 blocks, a channel of 1, 2 starts | a process that ended by itself has flushed everything; an answer's tip is never below its height; `stop` ends the process |
| `flush_claim` | as `lifecycle` | **violated**: `flushstate` reports a flush that has not happened |
| `block_order` | 2 peers on one chain | **violated**: a block reaches the kernel before its parent |
| `verack_order` | as `connection` | **violated**: WtxidRelay is sent after a Verack |
| `ancestor_limit` | as `mempool` | **violated**: an entry builds on more entries than `max_ancestors` |

Four refinements are checked. `ImplementsHeadersFirst` is the abstract
specification of section 2. `ImplementsDownloader` and `ImplementsHeaderChain`:
every step of the event loop is, on the variables of the component, a step of
the component's own specification or none; this carries the theorems of section
5 over to the whole loop. `AloneAtomic`: as long as calls come one after the
other, the finely cut `add_tx` implements the step of `Mempool`, with the pool
between calls (`settled`) for the pool.

The condition of `BlocksReachTip`, that the kernel never gets a child before its
parent, is the one `block_order` shows violated: a block that came too early is
not requested again. Without it the property fails.

`UnlinkedCallsExact` needs its condition: two tasks with linked transactions
can leave the index, links and totals wrong (section 4). `CircleNeedsReader`
does not exclude deadlock: with `select`, `get_addresses` or `get_stats` beside
`good`, `attempt` or `clear` TLC reaches states in which two threads wait for
each other; it says that the methods that change a table cannot do so among
themselves.

### Why the bounds are enough

The windows of the scheduler are smaller than the code's 16 and 4, so that one
peer can exhaust its own window and two peers the global one. In the header tree a
fork, a duplicate, an orphan and a checkpoint meet within two batches. Two peers
and two or three blocks suffice for every disagreement found here; `MaxHeaders` is
chosen so that batches are sometimes full and sometimes not. `MaxAsked` bounds the requests remembered per
peer: the code has no bound, and two are enough for a late duplicate. The pool
instance has room for four or five of the eight transactions, so eviction,
replacement, failed replacement and an ancestor counted twice all occur; the
weights 3 and 4 leave out some of them. In `mempool_tasks` the pool has room for
4 units and one transaction takes 3, so a single call can replace and then evict,
two calls can replace, evict and add at the same time, and four calls let a
transaction come back. In `addrman` a bucket of one is full at once,
and the total of one is reached before the buckets are. `connection` has a
handshake limit of 3, which can be reached with and without success, and two
more messages for the event loop, so that a garbage length can swallow the
start of a later message. In `lifecycle` one block can be on disk, one accepted
and one waiting in the channel during shutdown, and the second start finds what
the first one left.

### Deadlock

`header_chain`, `sync` and `mempool` check for deadlock. The other passing runs do
not: in `live` the loop waits for messages once everything is downloaded;
`mempool_tasks`, `connection` and `lifecycle` come to an end when their last call,
message or start is used up; the locks of `addrman` do deadlock with readers, as
said above.

### Fairness

`LoopFairness`: the loop comes to every branch in every round, so a branch that
is enabled whenever the loop passes is taken. Strong fairness is used for
`PeriodicRequest`, `SeekSyncPeer`, `ReplaceStalled` and `Rebootstrap` because a
message handler may disable them for a moment; messages that renew the
timestamp are minutes apart, the re-request delay is seconds. Weak fairness
covers the rounds inside a handler, the block processor and the clock.
`PeerFairness` holds for the peers in `Responsive` only: they can be connected
to and answer what they are asked. Nothing is assumed of other peers, of Inv,
Addr, losses, timeouts or crashes.

`CNSpec`: bytes that have arrived are read and a message that has been read is
handled, because `add_outbound` awaits the handshake; and the timer of a `recv`
that keeps waiting runs out. Nothing is assumed of the peer.

`LCSpec`: `main` goes on, a call into the kernel returns, and the runtime drops
a task it has cancelled. Nothing makes a client leave, a peer send, or an
operator press Ctrl-C.

## 4. Disagreements with the documentation

Four are runs.

* `flush_claim`. `flushstate` drops the clone of the kernel in its own copy of
  `AppState`, while the server, `main` and the mempool hold others, so nothing is
  written; `rpc/blockchain.rs:503` logs "Flush complete - block index and
  chainstate written to disk". Being killed after that answer loses blocks.
* `block_order`. Consecutive blocks are requested from different peers and go into
  the channel as they arrive, so a child may come before its parent, and the
  kernel refuses it. `p2p/legacy.rs:1102` says "Bitcoin Core processes blocks
  sequentially to ensure parent blocks are processed before children. We use a
  channel to maintain order", and BITCOIN_CORE_COMPARISON.md:266-267 calls the
  order guaranteed. The channel keeps the order of arrival.
* `verack_order`. Every Version is answered with a Verack, and WtxidRelay goes out
  with the first Version of at least 70016. After an old Version and a new one the
  node has sent Verack, WtxidRelay, Verack; `p2p/legacy.rs:138` says "WtxidRelay
  MUST be sent BEFORE Verack". It takes a peer that sends Version twice.
* `ancestor_limit`. A child that is admitted before its parent is never linked to
  it (`txmempool.rs:376-386`), so neither its own ancestor count nor those of its
  descendants include the parent, and the limit is passed; `policy.rs:19` says
  "Maximum ancestors allowed". For the same reason a template may hold a
  transaction without, or before, a parent that is in the pool.

Further configurations in this directory each have one property that TLC finds
violated:

| Configuration | Property | What the code does, and the line that says otherwise |
|---|---|---|
| `HCContinuity` | `ChainContinuity` | a fork header behind known ones is appended to the tip (`p2p/legacy.rs:741`); FUTURE_IMPROVEMENTS.md:24 "Chain continuity (prev_blockhash matches)" |
| `PMSilent` | `SilentSyncPeerReplaced` | the node's own re-requests renew the stall timer, so a silent sync peer stays (`p2p/legacy.rs:1205`) |
| `PMCrash` | `HeadersReachTip` | a partial headers file is taken for a finished header sync (`p2p/legacy.rs:428`) |
| `PMEarlyEnd` | `BlocksReachTip` | headers accepted after the early end of header sync never become block requests (`p2p/legacy.rs:829`) |
| `MTRace` | `NoDoubleSpend` | two tasks pass the check before either enters its spends; `txmempool.rs:127` "Check for conflicts (double spends)" |
| `MPTemplateOrder` | `TemplateOrdered` | even along the links, a parent that is itself built on another may come before its own parent; `txmempool.rs:296` "Include all ancestors first" |
| `MPTemplateWeight` | `TemplateFits` | ancestors are weighed one by one and not together; `txmempool.rs:286` "exceeds weight" |

Changing the constants of a configuration shows more:

* `HCChain.cfg` with `FileMirrors`, `CheckpointsMet`, `ParentsBefore` or
  `IndexedOnce` as invariant, that is, without the condition `file_ok`: all four
  fail. After one failed append and a restart every later header stands one
  height too low, because the loaded file is not verified; after one failed read
  the headers are appended to the old file again and come back twice.
* `PMLive.cfg` with `PeerChain <- Lagging2` and `MayReturn = FALSE`:
  `LostSyncPeerReplaced` fails. Sync peers are selected only when a connection
  is made, so a full node that is already connected is not considered.
* `PMSafety.cfg` with the tree `Both`, `BothParent`, `PeerChain <- Forked` and
  `MaxTotal = MaxBatch = 4` (no deadlock check): `SkippedBlocksStored` fails.
  Once a fork is in `recent_chain`, a position is no longer a height, and a
  restart skips a block the kernel does not have.
* `AMTables.cfg` with `BUCKET_SIZE = 2` and only `add` and `good` called:
  an `add` beside a `good` leaves an address in both tables, and a second
  `good` of it evicts an entry from a full bucket although the address is
  already there. `ForgottenForAnother` allows for it and for nothing else.

`DLScheduler.cfg` (module `MCDownloader`) checks the scheduler alone, under any
order of its callers' calls, with blocks nobody asked for and blocks queued twice. Its properties hold; `sync` has them in the node, and
section 5 for all constants.

Two more follow from reading a module without a run. A message whose first bytes
the event loop has dropped is lost, or a length read from its middle leaves the
peer connected and its messages swallowed. Headers never reorganise:
a node that follows the shorter branch stays there.

## 5. Proofs

What TLAPS proves holds for all peers, blocks, headers, transactions, threads,
addresses, windows, limits and policies that satisfy the named assumptions of
the modules (natural-number bounds, `Genesis` a header, finitely many
transactions and addresses, a finite height for every header).

**`DownloaderProofs`.** The invariant is `DLInv`: the type, a finite
in-flight map no larger than the global window, for every peer
*requests in flight ≤ slot counter ≤ window*, and
*downloaded + queued + in flight ≤ total*. The bare properties are not
inductive: that a peer's requests respect the window follows only because the
slot counter, which may be too high after a request has moved to another peer,
is never too low. Each method is shown to preserve the invariant as an operator
(`PushSound`, `PollSound`, `CompleteSound`, `ReassignSound`); the loop of
`poll_assign` enters through `RoundsStops`, which says that it stops where a
window is full or the queue empty. The actions then only compose the lemmas.
`NothingEverDropped` is an action property: only the arrival of a block, or a
restart, ends its being tracked. `ProgressAlwaysBounded` (progress never passes
100 %) is proved and has no run of its own.

**`HeaderChainProofs`.** Three layers. Whatever the file does: types,
`IndexAgrees`, and that `extend_headers` accepts only new headers with a known
parent (`OnlyConnectedAccepted`, from `TipAlwaysKnown`). Until the file fails for
the first time (`WorkingFile`): the file is the chain, and with it no doubles,
ancestry, checkpoints and a stable history survive every crash. None of these
theorems assumes anything of `DiskMayFail` or `MaxReread`: the condition is
`file_ok`, which the step that fails ends. If every file can be read
(`MaxReread = 0`), no header is in the chain twice and the file is a subsequence
of the chain even when writes fail (`HCInv`, `ChainAlwaysOnce`,
`FileAlwaysInOrder`).
`ContinuousWithoutForks` is the other side of the disagreement `HCContinuity` of
section 4: as long as the file works, it takes a fork to break the continuity.
If no header has two children (`Forkless`), the header after the processing
tip can only be appended to the end, because a tip below the end already has
its one child in the chain.

**`PeerManagerProofs`.** `PMInv` has one part per kind of state: the base
invariant of the header chain, the connections (`ConnInv`), the outstanding
requests (`RequestInv`: a GetHeaders leads to a header of that peer's chain, so
that the answer is a legal batch), the kernel (`KernelInv`: no block without its
parent, and one at the height the session started from) and the blocks
(`BlockInv`: the scheduler's own invariant, `PlanTracked`, and *before header
sync is over the scheduler is new, nothing is asked for and the channel is
empty*). The last is what makes `BlocksAfterHeaders` inductive. Each part has one
lemma over all actions, built from the operator lemmas of the two components.

The composition is then shown to refine what it is made of and what it promises:

* `HeaderChainImplemented`, `DownloaderImplemented`: every step of the event
  loop is a step of the component or leaves it alone, so their theorems hold in
  the node (`HeaderChainInNode`). The scheduler's bounds `MaxBatch` and
  `MaxTotal` belong to its own instance, so that refinement assumes that they
  leave room for a whole chain; `DownloaderInNode` has windows, slots and
  progress without that assumption.
* `HeadersFirstImplemented`: with a file that can be read and written, the node
  is the synchronizer of `HeadersFirst`, restarts included.
* `SkippedBlocksAlwaysStored`: without forks, a kernel that has a block at height
  *m* has one at every height below, and it is the header at that position of the
  vector (induction over heights, `EveryHeight` and `OneAtEachHeight`). With a
  fork it fails, see section 4.

**`MempoolProofs`.** `PoolSound`: entries are transactions, `spends` is exact,
links are sound. Removal preserves it because two entries never share an
outpoint, so cleaning up after one cannot hide another; insertion because
`handle_replacement` has removed every conflicting entry (`Uncontested`).
Sums over sets of transactions are first shown to be sums: `SumStep`,
`SumSplit`, `SumMonotone` and their like, from the fold of the library. With
them `TotalsAlwaysExact` follows, and `LinkedAncestorsLimited`: the stored count
covers the ancestors along the links, because the count of a new entry is the sum over its
parents (`UnionWithin`), and a removal corrects only direct children, each by at
most what it loses.

`TemplateAlwaysFollowsLinks` is about `get_block_template` on any such pool; its
ancestors and children are those of the links, too. The walk of
`get_ancestors` ends because what is on the stack and what can still be pushed
(`Pushes`) gets less with every pop, and it misses nothing because a parent of a
visited entry is visited or on the stack (`WalkOK`); so its result, with the
transaction itself, is closed under parents (`GetAncestorsFacts`). `TemplateOK` is
what every turn of the loop keeps: nothing twice, and for each transaction a set
closed under parents, all of it in the template, and before the transaction if it
has no children. The order in which parents are listed does not enter, and the
weight only as a reason to skip.

**`MempoolTasksProofs`.** `MTInv` says of any number of tasks that the totals
cover the entries *and* two debts: what a task at stage `enter` has counted for an
entry that is not in the map yet, and what a task has taken out of the map and not
yet subtracted. Without the first, `InsertEntry` would break the inequality. It is
an inequality because two tasks may enter the same transaction and count it twice.

`UnspoiltUnlessRaced` has the equality, and the index and the links, as long as no
two linked transactions met: the calls under way work on pairwise unlinked
transactions (`Apart`), an outpoint in `spends` belongs to an entry or to the one
call that has entered it early or removes it late (`Held`), and a link missing on
one side belongs to the call that is between its two sides (`LinksFor`). A call
sees only what concerns its own transactions, and those nobody else touches; so
what `Check` or `FindParents` saw is still true when it is used (`Fits`). This
gives `UnlinkedCallsAlwaysExact`.

`AloneUnlessOverlap` is about calls that come one after the other. `Follows` says
for every stage of `add_tx` what the pool is, in terms of `Mempool`'s operators on
the pool before the call: unchanged up to the first removal, `RemoveAll` of those
removed so far with the present victim half out (`Leaving`), the pool without the
conflicts with the new entry half in (`Entering`), and in `maybe_evict` also that
the victims so far are those of lowest fee rate and were not enough before the
last one (`Evicting`). Removing one after the other is removing all at once
(`RemoveOneMore`), because the statistics are corrected by plain subtraction with a
floor at zero. When the call returns, this is one step of `Mempool`:
`AloneAlwaysAtomic`. `CallsAloneSafe` takes the exact index and totals, the sound
links and the size limit over to the interleaved specification.

**`ConnectionProofs`.** `Wire` says that the bytes not yet consumed are the end of
one message and then complete messages in the order of their sending; with
`ReceivedBefore` and `RoundsExact` this gives `AlwaysReceivedInOrder`, however often
a read is cancelled and bytes are dropped. `NegotiationInv` follows what has been
said and heard in the handshake (that a Verack follows WtxidRelay, not that none
precedes it: `verack_order`).

**`LifecycleProofs`.** `HoldersInPhase` says who can have the kernel in which phase
of `main`, `DiskBehind` that the state on disk is level with the kernel when
nobody has it: `AlwaysFlushedAtExit`. `ReadsBehind` gives `AnswersNeverAhead`.

**`AddressManagerProofs`.** `Places` reads `Program` backwards: what a call does
next tells which method it is in and where. With the types this gives
`LocksOwned`, which says at which steps a thread can have claimed a lock and
that only reading methods hold one for reading. `DeadlockNeedsReader` follows:
in a circle without readers everyone waits for a writer; the writer of the tried
table waits for nobody, so all wait for the new table, whose writer would have
to wait for itself. `BucketsSound` is inductive together with the types: buckets
and tables agree, or some thread is in a `clear` that has still to empty the
buckets, and the limits hold meanwhile because eviction is decided on the
bucket's size and not on the table's (`RoomMade`). `NothingForgottenInVain` is
the action property: an eviction frees the place that the new entry takes, so a
step that loses an address and enters none must be `good` of an address in both
tables, or a step of `clear`.

Induction over data. The induction theorems of the library take a predicate, which
the provers cannot instantiate. Where a proof needs induction, it uses lemmas over
sets instead (`UpFromZero`: a set that has 0 and with every number the next has all;
`UpFromParts` the same for finite sets), with the predicate as a set.

Only model-checked:

* everything about liveness and fairness (`HeadersReachTip`, `BlocksReachTip`,
  `LostSyncPeerReplaced`, `HandshakeEnds`, `ShutdownEnds`), which is out of this
  prover's reach.

Every invariant and every action property that a passing run checks is also a
theorem, some under the assumptions named above.

## 6. Not modelled

* The fee estimator: statistics in floating point over buckets, fed by `add_tx`
  and read by nothing.
* The inventory manager (`p2p/inventory.rs`): compiled, but nothing creates one,
  and who would drive its requests and timeouts is not in the code.
* `p2p/manager.rs` and `network/`: nothing creates a `P2PManager`, and
  `network/` and `rpc/network.rs` are not compiled.
* The RPC handlers that read one value and format it.
* A torn record of the headers file: a record is one write of 80 bytes, and
  records are whole here.
* The exact block locator: a peer answers from the last common header.
* Inv messages of several blocks: in `PeerManager` they are several messages. A
  Block before header sync is over: the handler drops it, and by
  `BlocksAfterHeaders` nobody has been asked for one. Blocks that were not asked
  for: in `Downloader` only.
* A kernel without an active chain, for which `active_height` answers −1: one that
  could be created has at least the genesis block.
* Reorganisations: the kernel's height only grows in `Lifecycle`, on which
  `AnswerNotAhead` depends, and the header vector cannot reorganise at all.
* In `MempoolTasks`, steps inside a loop over the inputs, the links or the entries,
  and between the two totals.
* Index reads of the kernel, and everything inside libbitcoinkernel beyond "a
  block is stored if its parent is" and "destroying it flushes".
* Proof of work, timestamps and scripts: no code of this crate checks them.
* Peers that announce an inflated height: nothing lowers `best_known_height`
  again, so no liveness property holds with them. Peers of the instances
  announce the height of their chain.
* `save_headers_to_disk`, which nothing calls.

## 7. What is left

1. The locator algorithm as a pure operator, against a reference definition.
2. The headers file byte by byte, with torn records.
3. `Connection` composed with `PeerManager`: what a lost message does to header
   sync.
4. The liveness properties, with a prover that has fairness.
