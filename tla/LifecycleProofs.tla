-------------------------- MODULE LifecycleProofs --------------------------
(***************************************************************************)
(* Proofs about Lifecycle, for any number of RPC clients and any bounds.   *)
(***************************************************************************)
EXTENDS Lifecycle, TLAPS

-----------------------------------------------------------------------------
(* The inductive invariant *)

Gone == {"exited", "killed"}

\* The phases in which main still has its own clone of the kernel.
KernelPhases == {"starting", "importing", "imported", "serving", "stopping", "aborted"}

LCTypeOK ==
    /\ holders \subseteq Holders
    /\ height \in Nat /\ disk \in Nat
    /\ read \in [Conns -> Int]
    /\ answer \in [Conns -> [blocks : Int, tip : Int]]

\* The chain state on disk is never ahead of the kernel, and level with it once
\* nobody has the kernel.
DiskBehind == disk <= height /\ (holders = {} => disk = height)

\* Who can have the kernel in which phase of main.
HoldersInPhase ==
    /\ phase \in Gone => holders = {}
    /\ phase \in KernelPhases <=> <<"main", "kernel">> \in holders
    /\ <<"main", "mempool">> \in holders => phase \in KernelPhases \cup {"dropping"}
    /\ Server \in holders => phase = "serving"

\* What a handler has read is not above the chain, as long as the process lives.
ReadsBehind ==
    /\ phase # "killed" => \A c \in Conns : read[c] <= height
    /\ AnswerNotAhead

LCInv == LCTypeOK /\ DiskBehind /\ HoldersInPhase /\ ReadsBehind

-----------------------------------------------------------------------------
(* A holder is known by its kind *)

LEMMA Kinds ==
    /\ \A h \in Holders : h[2] \notin {"task", "call"} => h \in Main \cup {Server}
    /\ \A h \in Main \cup {Server} : h[2] \notin {"task", "call"}
    /\ Import[2] = "call" /\ P2P[2] = "task" /\ TxTask[2] = "task"
    /\ \A kind : Blocks(kind)[2] = kind
    /\ \A c, kind : Conn(c, kind)[2] = kind
    /\ {Import, P2P, TxTask, Blocks("task"), Blocks("call")} \cup Main \cup {Server}
         \subseteq Holders
    /\ \A c \in Conns : Conn(c, "task") \in Holders /\ Conn(c, "call") \in Holders
    /\ <<"main", "kernel">> # <<"main", "mempool">>
    /\ Server \notin Main
BY DEF Holders, Fixed, Main, Server, Import, P2P, TxTask, Blocks, Conn

\* Dropping clones keeps the chain state on disk level with the kernel.
LEMMA ReleaseFlushes ==
    ASSUME LCTypeOK, DiskBehind, NEW S, Release(S), height' = height
    PROVE  /\ holders' = holders \ S
           /\ holders' \subseteq Holders
           /\ disk' \in Nat /\ disk <= disk' /\ DiskBehind'
BY DEF LCTypeOK, DiskBehind, Release

LEMMA LCInitInv == LCInit => LCInv
BY DEF LCInit, LCInv, LCTypeOK, DiskBehind, HoldersInPhase, ReadsBehind,
       AnswerNotAhead, Gone, KernelPhases, NotRead, NoAnswer

\* A step that drops clones of tasks or calls only, in whatever phase.
LEMMA ReleaseKeeps ==
    ASSUME LCInv, NEW S, \A h \in S : h[2] \in {"task", "call"},
           Release(S), height' = height, phase' = phase, read' = read, answer' = answer
    PROVE  LCInv'
<1>1. LCTypeOK' /\ DiskBehind'
  BY ReleaseFlushes DEF LCInv, LCTypeOK
<1>2. HoldersInPhase'
  BY ReleaseFlushes, Kinds DEF LCInv, HoldersInPhase, Main
<1>3. ReadsBehind'
  BY DEF LCInv, ReadsBehind, AnswerNotAhead
<1> QED
  BY <1>1, <1>2, <1>3 DEF LCInv

\* A step that adds tasks or calls while somebody has the kernel.
LEMMA HoldKeeps ==
    ASSUME LCInv, NEW h \in Holders, h[2] \in {"task", "call"}, holders # {},
           holders' = holders \cup {h}, height' = height, disk' = disk,
           phase' = phase, answer' = answer,
           read' \in [Conns -> Int], \A c \in Conns : read'[c] <= height
    PROVE  LCInv'
<1>1. LCTypeOK' /\ DiskBehind'
  BY DEF LCInv, LCTypeOK, DiskBehind
<1>2. HoldersInPhase'
  BY Kinds DEF LCInv, HoldersInPhase, Main
<1>3. ReadsBehind'
  BY DEF LCInv, ReadsBehind, AnswerNotAhead
<1> QED
  BY <1>1, <1>2, <1>3 DEF LCInv

\* The steps of main that drop clones and go to a later phase.
LEMMA MainReleaseKeeps ==
    ASSUME LCInv, NEW S, Release(S), height' = height, read' = read, answer' = answer,
           phase \notin Gone, phase' \notin Gone, HoldersInPhase'
    PROVE  LCInv'
<1>1. LCTypeOK' /\ DiskBehind'
  BY ReleaseFlushes DEF LCInv, LCTypeOK
<1>2. ReadsBehind'
  BY DEF LCInv, ReadsBehind, AnswerNotAhead, Gone
<1> QED
  BY <1>1, <1>2 DEF LCInv

-----------------------------------------------------------------------------
(* Every step keeps the invariant *)

\* While a handler runs the process lives, and what was read is bounded.
LEMMA ReadsBounded ==
    ASSUME LCInv, holders # {}
    PROVE  phase \notin Gone /\ \A c \in Conns : read[c] <= height
BY DEF LCInv, HoldersInPhase, ReadsBehind, Gone

LEMMA LCNextInv == LCInv /\ [LCNext]_lcVars => LCInv'
<1> SUFFICES ASSUME LCInv, [LCNext]_lcVars PROVE LCInv'
  OBVIOUS
<1> USE DEF LCInv
<1>1. CASE Start
  BY <1>1, Kinds
  DEF Start, KernelNew, LCTypeOK, DiskBehind, HoldersInPhase, ReadsBehind,
      AnswerNotAhead, Main, Gone, KernelPhases, NotRead, NoAnswer, Server
<1>2. CASE StartImport
  <2>1. LCTypeOK' /\ DiskBehind'
    BY <1>2, Kinds DEF StartImport, LCTypeOK, DiskBehind
  <2>2. HoldersInPhase'
    BY <1>2, Kinds DEF StartImport, HoldersInPhase, Main, Gone, KernelPhases
  <2>3. ReadsBehind'
    BY <1>2 DEF StartImport, ReadsBehind, AnswerNotAhead
  <2> QED
    BY <2>1, <2>2, <2>3
<1>3. CASE ImportBlock
  <2>1. holders # {}
    BY <1>3 DEF ImportBlock, HoldersInPhase, KernelPhases
  <2> QED
    BY <1>3, <2>1, ReadsBounded
    DEF ImportBlock, LCTypeOK, DiskBehind, HoldersInPhase, ReadsBehind, AnswerNotAhead
<1>4. CASE ImportReturns
  <2>1. CASE phase' = "imported" /\ Release({Import})
    <3>1. HoldersInPhase'
      BY <1>4, <2>1, Kinds DEF ImportReturns, Release, HoldersInPhase, Main, Gone, KernelPhases
    <3> QED
      BY <1>4, <2>1, <3>1, MainReleaseKeeps DEF ImportReturns, Gone
  <2>2. CASE phase' = "returned" /\ Release({Import} \cup Main)
    <3>1. HoldersInPhase'
      BY <1>4, <2>2, Kinds DEF ImportReturns, Release, HoldersInPhase, Main, Gone, KernelPhases
    <3> QED
      BY <1>4, <2>2, <3>1, MainReleaseKeeps DEF ImportReturns, Gone
  <2> QED
    BY <1>4, <2>1, <2>2 DEF ImportReturns
<1>5. CASE Serve
  <2> PICK tasks \in SUBSET {P2P} :
           \/ /\ phase' = "serving"
              /\ holders' = holders \cup tasks \cup {Server}
           \/ /\ phase' = "returned"
              /\ holders' = (holders \cup tasks) \ Main
    BY <1>5 DEF Serve
  <2>1. LCTypeOK'
    BY <1>5, Kinds DEF Serve, LCTypeOK
  <2>2. DiskBehind'
    BY <1>5 DEF Serve, LCTypeOK, DiskBehind
  <2>3. HoldersInPhase'
    BY <1>5, Kinds DEF Serve, HoldersInPhase, Main, Gone, KernelPhases
  <2>4. ReadsBehind'
    BY <1>5 DEF Serve, ReadsBehind, AnswerNotAhead
  <2> QED
    BY <2>1, <2>2, <2>3, <2>4
<1>6. CASE SpawnProcessor
  BY <1>6, Kinds, ReadsBounded, HoldKeeps DEF SpawnProcessor, LCTypeOK
<1>7. CASE ReceiveBlock
  BY <1>7 DEF ReceiveBlock, LCTypeOK, DiskBehind, HoldersInPhase, ReadsBehind, AnswerNotAhead
<1>8. CASE ReceiveTx
  BY <1>8, Kinds, ReadsBounded, HoldKeeps DEF ReceiveTx, LCTypeOK
<1>9. CASE TakeBlock
  BY <1>9, Kinds, ReadsBounded, HoldKeeps DEF TakeBlock, LCTypeOK
<1>10. CASE \E h \in holders : TaskEnds(h) \/ Cancel(h) \/ DropCall(h)
  <2> PICK h \in holders : TaskEnds(h) \/ Cancel(h) \/ DropCall(h)
    BY <1>10
  <2>1. /\ h[2] \in {"task", "call"} /\ Release({h})
        /\ UNCHANGED <<phase, height, read, answer>>
    BY DEF TaskEnds, Cancel, DropCall
  <2> QED
    BY <2>1, ReleaseKeeps
<1>11. ASSUME NEW c \in Conns, Connect(c) PROVE LCInv'
  BY <1>11, Kinds, ReadsBounded, HoldKeeps DEF Connect, LCTypeOK
<1>12. ASSUME NEW c \in Conns, GetBlockchainInfo(c) PROVE LCInv'
  <2>1. holders # {} /\ \A d \in Conns : read[d] <= height
    BY <1>12, ReadsBounded DEF GetBlockchainInfo
  <2>2. read' \in [Conns -> Int] /\ \A d \in Conns : read'[d] <= height
    BY <1>12, <2>1 DEF GetBlockchainInfo, NotRead, LCTypeOK
  <2> QED
    BY <1>12, <2>1, <2>2, Kinds, HoldKeeps DEF GetBlockchainInfo
<1>13. ASSUME NEW c \in Conns, FlushState(c) PROVE LCInv'
  <2>1. \A h \in {Conn(c, "call")} : h[2] \in {"task", "call"}
    BY Kinds
  <2> QED
    BY <1>13, <2>1, ReleaseKeeps DEF FlushState
<1>14. ASSUME NEW c \in Conns, Stop(c) PROVE LCInv'
  BY <1>14 DEF Stop, LCTypeOK, DiskBehind, HoldersInPhase, ReadsBehind, AnswerNotAhead
<1>15. ASSUME NEW stop \in BOOLEAN, SelectEnds(stop) PROVE LCInv'
  <2>1. HoldersInPhase'
    BY <1>15, Kinds DEF SelectEnds, Release, HoldersInPhase, Main, Gone, KernelPhases
  <2> QED
    BY <1>15, <2>1, MainReleaseKeeps DEF SelectEnds, Gone
<1>16. CASE AbortP2P
  BY <1>16
  DEF AbortP2P, LCTypeOK, DiskBehind, HoldersInPhase, ReadsBehind, AnswerNotAhead,
      Gone, KernelPhases
<1>17. CASE DropKernel
  <2>1. HoldersInPhase'
    BY <1>17, Kinds DEF DropKernel, Release, HoldersInPhase, Main, Gone, KernelPhases
  <2> QED
    BY <1>17, <2>1, MainReleaseKeeps DEF DropKernel, Gone
<1>18. CASE DropMempool
  <2>1. HoldersInPhase'
    BY <1>18, Kinds DEF DropMempool, Release, HoldersInPhase, Main, Gone, KernelPhases
  <2> QED
    BY <1>18, <2>1, MainReleaseKeeps DEF DropMempool, Gone
<1>19. CASE Return
  BY <1>19
  DEF Return, LCTypeOK, DiskBehind, HoldersInPhase, ReadsBehind, AnswerNotAhead,
      Gone, KernelPhases
<1>20. CASE Exit
  <2>1. holders = {}
    BY <1>20, Kinds DEF Exit, LCTypeOK, HoldersInPhase, KernelPhases, Main
  <2> QED
    BY <1>20, <2>1
    DEF Exit, LCTypeOK, DiskBehind, HoldersInPhase, ReadsBehind, AnswerNotAhead,
        Gone, KernelPhases
<1>21. CASE ProcessBlock
  <2> PICK h \in {height, height + 1} : ReleaseAfter({Blocks("call")}, h)
    BY <1>21 DEF ProcessBlock
  <2>1. h \in Nat /\ height <= h /\ holders' = holders \ {Blocks("call")} /\ height' = h
    BY DEF LCTypeOK, ReleaseAfter
  <2>2. disk' \in Nat /\ disk' <= h /\ (holders' = {} => disk' = h)
    BY <2>1 DEF LCTypeOK, DiskBehind, ReleaseAfter
  <2>3. LCTypeOK' /\ DiskBehind'
    BY <1>21, <2>1, <2>2 DEF ProcessBlock, LCTypeOK, DiskBehind
  <2>4. HoldersInPhase'
    BY <1>21, <2>1, Kinds DEF ProcessBlock, HoldersInPhase, Main
  <2>5. ReadsBehind'
    BY <1>21, <2>1 DEF ProcessBlock, LCTypeOK, ReadsBehind, AnswerNotAhead
  <2> QED
    BY <2>3, <2>4, <2>5
<1>22. ASSUME NEW c \in Conns, GetHeight(c) PROVE LCInv'
  BY <1>22, ReadsBounded
  DEF GetHeight, LCTypeOK, DiskBehind, HoldersInPhase, ReadsBehind, AnswerNotAhead
<1>23. ASSUME NEW c \in Conns, GetBestBlockHash(c) PROVE LCInv'
  <2>1. read[c] <= height
    BY <1>23, ReadsBounded DEF GetBestBlockHash
  <2>2. answer' \in [Conns -> [blocks : Int, tip : Int]] /\ AnswerNotAhead'
    BY <1>23, <2>1 DEF GetBestBlockHash, LCTypeOK, ReadsBehind, AnswerNotAhead
  <2>3. LCTypeOK' /\ DiskBehind'
    BY <1>23, <2>2, ReleaseFlushes DEF GetBestBlockHash, LCTypeOK
  <2>4. HoldersInPhase'
    BY <1>23, Kinds DEF GetBestBlockHash, Release, HoldersInPhase, Main
  <2>5. ReadsBehind'
    BY <1>23, <2>2 DEF GetBestBlockHash, ReadsBehind
  <2> QED
    BY <2>3, <2>4, <2>5
<1>24. CASE Kill
  BY <1>24
  DEF Kill, LCTypeOK, DiskBehind, HoldersInPhase, ReadsBehind, AnswerNotAhead,
      Gone, KernelPhases
<1>25. CASE UNCHANGED lcVars
  BY <1>25
  DEF lcVars, LCTypeOK, DiskBehind, HoldersInPhase, ReadsBehind, AnswerNotAhead
<1> QED
  BY <1>1, <1>2, <1>3, <1>4, <1>5, <1>6, <1>7, <1>8, <1>9, <1>10, <1>11, <1>12,
     <1>13, <1>14, <1>15, <1>16, <1>17, <1>18, <1>19, <1>20, <1>21, <1>22, <1>23,
     <1>24, <1>25
  DEF LCNext, MainStep, CallStep

-----------------------------------------------------------------------------
(* Theorems *)

\* The invariant: main and its clones go together, a kernel nobody holds is
\* flushed, and a handler's height is not above the chain.
THEOREM LifecycleCorrect == LCSpec => []LCInv
BY LCInitInv, LCNextInv, PTL DEF LCSpec

\* For any number of clients and whatever runs when main returns, a process that
\* ended by itself has dropped every clone of the kernel and flushed it.
THEOREM AlwaysFlushedAtExit == LCSpec => []FlushedAtExit
<1>1. LCInv => FlushedAtExit
  BY DEF LCInv, DiskBehind, HoldersInPhase, FlushedAtExit, Gone
<1> QED
  BY <1>1, LifecycleCorrect, PTL

\* For any number of clients, no answer of getblockchaininfo has its height above
\* its tip, whatever is processed between the two reads.
THEOREM AnswersNeverAhead == LCSpec => []AnswerNotAhead
<1>1. LCInv => AnswerNotAhead
  BY DEF LCInv, ReadsBehind
<1> QED
  BY <1>1, LifecycleCorrect, PTL

\* What the kernel has written stays written: no step, no signal and no restart
\* brings the chain state on disk back to a lower height.
THEOREM DiskNeverFallsBack == LCSpec => [][disk <= disk']_lcVars
<1>1. LCInv /\ [LCNext]_lcVars => [disk <= disk']_lcVars
  <2> SUFFICES ASSUME LCInv, LCNext PROVE disk <= disk'
    OBVIOUS
  <2>1. disk \in Nat /\ height \in Nat /\ disk <= height
    BY DEF LCInv, LCTypeOK, DiskBehind
  <2>2. ASSUME NEW S, Release(S) PROVE disk <= disk'
    BY <2>1, <2>2 DEF Release
  <2>3. ASSUME ProcessBlock PROVE disk <= disk'
    <3> PICK h \in {height, height + 1} : ReleaseAfter({Blocks("call")}, h)
      BY <2>3 DEF ProcessBlock
    <3> QED
      BY <2>1 DEF ReleaseAfter
  <2>4. ASSUME Kill \/ Serve PROVE disk <= disk'
    BY <2>1, <2>4 DEF Kill, Serve
  <2>5. ASSUME \/ Start \/ StartImport \/ ImportBlock \/ SpawnProcessor \/ ReceiveBlock
               \/ ReceiveTx \/ TakeBlock \/ AbortP2P \/ Return \/ Exit
               \/ \E c \in Conns : \/ Connect(c) \/ GetBlockchainInfo(c)
                                   \/ Stop(c) \/ GetHeight(c)
        PROVE  disk <= disk'
    <3>1. disk' = disk
      BY <2>5
      DEF Start, StartImport, ImportBlock, SpawnProcessor, ReceiveBlock, ReceiveTx,
          TakeBlock, AbortP2P, Return, Exit, Connect, GetBlockchainInfo, Stop, GetHeight
    <3> QED
      BY <2>1, <3>1
  <2>6. ASSUME \/ ImportReturns \/ DropKernel \/ DropMempool
               \/ SelectEnds(TRUE) \/ SelectEnds(FALSE)
               \/ \E h \in holders : TaskEnds(h) \/ Cancel(h) \/ DropCall(h)
               \/ \E c \in Conns : FlushState(c) \/ GetBestBlockHash(c)
        PROVE  disk <= disk'
    <3>1. \E S : Release(S)
      BY <2>6, Zenon
      DEF ImportReturns, DropKernel, DropMempool, SelectEnds, TaskEnds, Cancel,
          DropCall, FlushState, GetBestBlockHash
    <3> QED
      BY <2>2, <3>1
  <2> QED
    BY <2>3, <2>4, <2>5, <2>6, Zenon DEF LCNext, MainStep, CallStep
<1> QED
  BY <1>1, LifecycleCorrect, PTL DEF LCSpec
=============================================================================
