----------------------------- MODULE Lifecycle -----------------------------
(***************************************************************************)
(* The life of the process: main of src/main.rs, the RPC server and its    *)
(* handlers (src/rpc/mod.rs, src/rpc/blockchain.rs), and the kernel they   *)
(* share (src/kernel/mod.rs).  The kernel is behind an Arc: whoever holds  *)
(* a clone, alone or inside an Arc<Mempool>, a closure or an AppState,     *)
(* keeps it alive, and Drop for Kernel, which writes the chain state to    *)
(* disk, runs when the last of them goes.                                  *)
(*                                                                         *)
(* A holder is <<owner, kind>>.  Kind "task" is an async task, which the   *)
(* runtime drops at its next await; "call" is a closure that runs on a     *)
(* blocking thread, which nothing interrupts.  The blocks of the active    *)
(* chain are their number.  The mempool's content is in module Mempool.    *)
(***************************************************************************)
EXTENDS Integers

CONSTANTS
    Conns,          \* clients of the RPC server
    MaxHeight,      \* bound: blocks
    MaxQueue,       \* bound: blocks in the channel of the block processor
    MaxStarts       \* bound: starts of the process

ASSUME LifecycleAssumption ==
    MaxHeight \in Nat /\ MaxQueue \in Nat /\ MaxStarts \in Nat

VARIABLES
    phase,          \* where main is, "exited" or "killed"
    holders,        \* who has the kernel
    height,         \* active height of the kernel, the last one once it is gone
    disk,           \* height that the chain state on disk has
    queue,          \* blocks sent to the block processor
    stop_sent,      \* the sender of the shutdown channel is taken and used
    aborted,        \* handle.abort() was called
    read,           \* height a handler has read, before it reads the tip
    answer,         \* last answer of getblockchaininfo: its blocks, its tip
    claimed,        \* history: height a message or an answer calls flushed
    starts          \* counts starts, for the bound

lcVars == <<phase, holders, height, disk, queue, stop_sent, aborted, read,
            answer, claimed, starts>>

Main   == {<<"main", "kernel">>, <<"main", "mempool">>}
Server == <<"rpc", "server">>
Import == <<"import", "call">>
P2P    == <<"p2p", "task">>
Blocks(kind)   == <<"blocks", kind>>
TxTask == <<"tx", "task">>
Conn(c, kind)  == <<c, kind>>

Fixed == Main \cup {Server, Import, P2P, Blocks("task"), Blocks("call"), TxTask}
Holders == Fixed \cup {Conn(c, kind) : c \in Conns, kind \in {"task", "call"}}

NotRead == -1
NoChannel == -1     \* queue, before the block processor is spawned
NoAnswer == [blocks |-> 0, tip |-> 0]

\* Clones are dropped; the last one destroys the chain state manager, which
\* flushes.
Release(S) ==
    /\ holders' = holders \ S
    /\ disk' = IF holders \subseteq S THEN height ELSE disk

\* The same, when the block that the call worked on may have been added and the
\* kernel may have flushed by itself.
ReleaseAfter(S, h) ==
    /\ holders' = holders \ S
    /\ height' = h
    /\ IF holders \subseteq S THEN disk' = h ELSE disk' \in disk..h

LCInit ==
    /\ phase = "exited" /\ holders = {}
    /\ height = 0 /\ disk = 0 /\ queue = NoChannel
    /\ stop_sent = FALSE /\ aborted = FALSE
    /\ read = [c \in Conns |-> NotRead] /\ answer = [c \in Conns |-> NoAnswer]
    /\ claimed = 0 /\ starts = 0

-----------------------------------------------------------------------------
(* main, up to the select *)

\* Kernel::new loads what is on disk and puts genesis there first if it has to.
\* A failure ends the process with nothing changed.
KernelNew == height' = disk

\* The kernel is created, and cloned for the mempool.
Start ==
    /\ phase \in {"exited", "killed"} /\ starts < MaxStarts
    /\ phase' = "starting" /\ starts' = starts + 1
    /\ holders' = Main
    /\ KernelNew
    /\ queue' = NoChannel /\ stop_sent' = FALSE /\ aborted' = FALSE
    /\ read' = [c \in Conns |-> NotRead] /\ answer' = [c \in Conns |-> NoAnswer]
    /\ UNCHANGED <<disk, claimed>>

\* --import: main waits for import_blocks.
StartImport ==
    /\ phase = "starting"
    /\ phase' = "importing" /\ holders' = holders \cup {Import}
    /\ UNCHANGED <<height, disk, queue, stop_sent, aborted, read, answer, claimed, starts>>

ImportBlock ==
    /\ phase = "importing" /\ height < MaxHeight
    /\ height' = height + 1
    /\ UNCHANGED <<phase, holders, disk, queue, stop_sent, aborted, read, answer, claimed, starts>>

\* An error returns from main, whose kernel and mempool go with it.
ImportReturns ==
    /\ phase = "importing"
    /\ \/ phase' = "imported" /\ Release({Import})
       \/ phase' = "returned" /\ Release({Import} \cup Main)
    /\ UNCHANGED <<height, queue, stop_sent, aborted, read, answer, claimed, starts>>

\* The P2P task is spawned, or not (regtest without peers), and the server
\* started.  A bad RPC address returns from main after the spawn: the task is
\* then detached.
Serve ==
    /\ phase \in {"starting", "imported"}
    /\ \E tasks \in SUBSET {P2P} :
          \/ /\ phase' = "serving"
             /\ holders' = holders \cup tasks \cup {Server}
          \/ /\ phase' = "returned"
             /\ holders' = (holders \cup tasks) \ Main
    /\ disk' = IF holders' = {} THEN height ELSE disk
    /\ UNCHANGED <<height, queue, stop_sent, aborted, read, answer, claimed, starts>>

-----------------------------------------------------------------------------
(* The P2P task and the block processor *)

\* with_block_processor spawns the processor, which shares the callback.
SpawnProcessor ==
    /\ P2P \in holders /\ queue = NoChannel /\ phase # "returned"
    /\ queue' = 0
    /\ holders' = holders \cup {Blocks("task")}
    /\ UNCHANGED <<phase, height, disk, stop_sent, aborted, read, answer, claimed, starts>>

ReceiveBlock ==
    /\ {P2P, Blocks("task")} \subseteq holders /\ queue < MaxQueue
    /\ queue' = queue + 1
    /\ UNCHANGED <<phase, holders, height, disk, stop_sent, aborted, read, answer, claimed, starts>>

\* A transaction is handled by a task of its own, which has the mempool.
ReceiveTx ==
    /\ P2P \in holders /\ queue # NoChannel /\ phase # "returned"
    /\ holders' = holders \cup {TxTask}
    /\ UNCHANGED <<phase, height, disk, queue, stop_sent, aborted, read, answer, claimed, starts>>

\* The processor takes a block to a blocking thread.
TakeBlock ==
    /\ Blocks("task") \in holders /\ Blocks("call") \notin holders /\ queue > 0
    /\ phase # "returned"
    /\ queue' = queue - 1
    /\ holders' = holders \cup {Blocks("call")}
    /\ UNCHANGED <<phase, height, disk, stop_sent, aborted, read, answer, claimed, starts>>

\* process_block: the block is new, or known, or refused.
ProcessBlock ==
    /\ Blocks("call") \in holders
    /\ \E h \in {height, height + 1} :
          h <= MaxHeight /\ ReleaseAfter({Blocks("call")}, h)
    /\ UNCHANGED <<phase, queue, stop_sent, aborted, read, answer, claimed, starts>>

\* A task ends by itself: the event loop with an error, the processor when its
\* channel is closed and empty, a transaction when it is handled, a connection
\* when the client leaves.
TaskEnds(h) ==
    /\ h \in holders /\ h[2] = "task"
    /\ h = Blocks("task") =>
          P2P \notin holders /\ queue = 0 /\ Blocks("call") \notin holders
    /\ h = P2P => queue # NoChannel
    /\ Release({h})
    /\ UNCHANGED <<phase, height, queue, stop_sent, aborted, read, answer, claimed, starts>>

-----------------------------------------------------------------------------
(* The RPC server *)

\* A connection is a task with its own clone of AppState.
Connect(c) ==
    /\ Server \in holders
    /\ holders' = holders \cup {Conn(c, "task")}
    /\ UNCHANGED <<phase, height, disk, queue, stop_sent, aborted, read, answer, claimed, starts>>

\* getblockchaininfo, getchaintips, gettxoutsetinfo: a blocking thread reads the
\* height, then the tip.  flushstate, too, starts with reading the height on one.
GetBlockchainInfo(c) ==
    /\ Conn(c, "task") \in holders /\ Conn(c, "call") \notin holders
    /\ phase # "returned"
    /\ holders' = holders \cup {Conn(c, "call")}
    /\ read' = [read EXCEPT ![c] = NotRead]
    /\ UNCHANGED <<phase, height, disk, queue, stop_sent, aborted, answer, claimed, starts>>

GetHeight(c) ==
    /\ Conn(c, "call") \in holders /\ read[c] = NotRead
    /\ read' = [read EXCEPT ![c] = height]
    /\ UNCHANGED <<phase, holders, height, disk, queue, stop_sent, aborted, answer, claimed, starts>>

\* Mutant of GetBestBlockHash: the tip is read first, the height after it.
GetHeightLast(c) ==
    /\ Conn(c, "call") \in holders /\ read[c] # NotRead
    /\ answer' = [answer EXCEPT ![c] = [blocks |-> height, tip |-> read[c]]]
    /\ Release({Conn(c, "call")})
    /\ UNCHANGED <<phase, height, queue, stop_sent, aborted, read, claimed, starts>>

GetBestBlockHash(c) ==
    /\ Conn(c, "call") \in holders /\ read[c] # NotRead
    /\ answer' = [answer EXCEPT ![c] = [blocks |-> read[c], tip |-> height]]
    /\ Release({Conn(c, "call")})
    /\ UNCHANGED <<phase, height, queue, stop_sent, aborted, read, claimed, starts>>

\* flushstate: the height comes from such a call; then the handler drops its own
\* clone, while the connection still has one, and says that all is flushed.
FlushState(c) ==
    /\ {Conn(c, "task"), Conn(c, "call")} \subseteq holders /\ read[c] # NotRead
    /\ phase # "returned"
    /\ claimed' = read[c]
    /\ Release({Conn(c, "call")})
    /\ UNCHANGED <<phase, height, queue, stop_sent, aborted, read, answer, starts>>

\* stop: the first call takes the sender.
Stop(c) ==
    /\ Conn(c, "task") \in holders /\ ~stop_sent
    /\ stop_sent' = TRUE
    /\ UNCHANGED <<phase, holders, height, disk, queue, aborted, read, answer, claimed, starts>>

-----------------------------------------------------------------------------
(* main, from the select on *)

\* Ctrl+C, an error of the server, or stop: the future of the server is dropped.
SelectEnds(stop) ==
    /\ phase = "serving" /\ (stop => stop_sent)
    /\ phase' = "stopping"
    /\ Release({Server})
    /\ UNCHANGED <<height, queue, stop_sent, aborted, read, answer, claimed, starts>>

AbortP2P ==
    /\ phase = "stopping"
    /\ phase' = "aborted" /\ aborted' = TRUE
    /\ UNCHANGED <<holders, height, disk, queue, stop_sent, read, answer, claimed, starts>>

DropKernel ==
    /\ phase = "aborted"
    /\ phase' = "dropping" /\ Release({<<"main", "kernel">>})
    /\ UNCHANGED <<height, queue, stop_sent, aborted, read, answer, claimed, starts>>

DropMempool ==
    /\ phase = "dropping"
    /\ phase' = "dropped" /\ Release({<<"main", "mempool">>})
    /\ UNCHANGED <<height, queue, stop_sent, aborted, read, answer, claimed, starts>>

\* "Graceful shutdown complete - all data flushed to disk"
Return ==
    /\ phase = "dropped"
    /\ phase' = "returned" /\ claimed' = height
    /\ UNCHANGED <<holders, height, disk, queue, stop_sent, aborted, read, answer, starts>>

-----------------------------------------------------------------------------
(* The runtime (external) *)

\* Mutant of Cancel: connections are served to their end.
CancelAllButConnections(h) ==
    /\ h \in holders /\ h[2] = "task" /\ h[1] \notin Conns
    /\ phase = "returned" \/ (aborted /\ h = P2P)
    /\ Release({h})
    /\ UNCHANGED <<phase, height, queue, stop_sent, aborted, read, answer, claimed, starts>>

\* A task is dropped at an await: the aborted one, and all of them when main
\* has returned and the runtime is dropped.
Cancel(h) ==
    /\ h \in holders /\ h[2] = "task"
    /\ phase = "returned" \/ (aborted /\ h = P2P)
    /\ Release({h})
    /\ UNCHANGED <<phase, height, queue, stop_sent, aborted, read, answer, claimed, starts>>

\* A closure that no thread has started yet is dropped with the runtime.
DropCall(h) ==
    /\ phase = "returned" /\ h \in holders /\ h[2] = "call"
    /\ \A c \in Conns : h = Conn(c, "call") => read[c] = NotRead
    /\ Release({h})
    /\ UNCHANGED <<phase, height, queue, stop_sent, aborted, read, answer, claimed, starts>>

\* Mutant of Exit: the process does not wait for the blocking threads.
ExitWithoutCalls ==
    /\ phase = "returned"
    /\ \A h \in holders : h[2] # "task"
    /\ phase' = "exited"
    /\ UNCHANGED <<holders, height, disk, queue, stop_sent, aborted, read, answer, claimed, starts>>

\* Dropping the runtime waits for the tasks and for the blocking threads.
Exit ==
    /\ phase = "returned"
    /\ \A h \in holders : h[2] \notin {"task", "call"}
    /\ phase' = "exited"
    /\ UNCHANGED <<holders, height, disk, queue, stop_sent, aborted, read, answer, claimed, starts>>

\* A signal no handler is installed for: SIGTERM at any time, Ctrl+C before the
\* select.  What the kernel had not written is gone.
Kill ==
    /\ phase \notin {"exited", "killed"}
    /\ phase' = "killed" /\ holders' = {}
    /\ disk' \in disk..height
    /\ height' = disk'
    /\ UNCHANGED <<queue, stop_sent, aborted, read, answer, claimed, starts>>

-----------------------------------------------------------------------------
MainStep == \/ SelectEnds(TRUE) \/ AbortP2P \/ DropKernel \/ DropMempool
            \/ Return \/ Exit

CallStep == ProcessBlock \/ \E c \in Conns : GetHeight(c) \/ GetBestBlockHash(c)

LCNext ==
    \/ Start \/ StartImport \/ ImportBlock \/ ImportReturns \/ Serve
    \/ SpawnProcessor \/ ReceiveBlock \/ ReceiveTx \/ TakeBlock
    \/ \E h \in holders : TaskEnds(h) \/ Cancel(h) \/ DropCall(h)
    \/ \E c \in Conns : \/ Connect(c) \/ GetBlockchainInfo(c)
                        \/ FlushState(c) \/ Stop(c)
    \/ MainStep \/ CallStep \/ SelectEnds(FALSE) \/ Kill

\* main goes on, the runtime drops what it has cancelled, and a call into the
\* kernel returns.  Nothing makes a client leave or a peer send.
LCSpec ==
    /\ LCInit /\ [][LCNext]_lcVars
    /\ WF_lcVars(MainStep)
    /\ \A h \in Holders : WF_lcVars(Cancel(h))
    /\ WF_lcVars(ProcessBlock)
    /\ \A c \in Conns : WF_lcVars(GetHeight(c) \/ GetBestBlockHash(c))

-----------------------------------------------------------------------------
(* Properties *)

\* When the process has ended by itself, after Ctrl+C, stop or an error, no
\* clone of the kernel is left and everything the kernel had accepted is on disk,
\* the blocks that were processed while main was shutting down included.
FlushedAtExit == phase = "exited" => holders = {} /\ disk = height

\* getblockchaininfo reads height and tip one after the other, while blocks are
\* processed: the tip it reports may be above its "blocks", never below.
AnswerNotAhead == \A c \in Conns : answer[c].blocks <= answer[c].tip

\* A stop request that was answered ends the process, whatever clients stay
\* connected and however many blocks wait in the channel.
ShutdownEnds == (phase = "serving" /\ stop_sent) ~> (phase \in {"exited", "killed"})

\* What flushstate and the last line of main say is flushed is on disk
\* ("Flush complete - block index and chainstate written to disk").
ClaimTrue == claimed <= disk
=============================================================================
