---------------------------- MODULE HeaderChain ----------------------------
(***************************************************************************)
(* The header chain of src/p2p/legacy.rs: the vector recent_chain, the set *)
(* have_header and the counter header_chain_height that PeerManager keeps  *)
(* in memory, and the headers file that survives the process.              *)
(*                                                                         *)
(* extend_headers is modelled one loop round per step, because the file is *)
(* appended to once per accepted header and the process can be killed      *)
(* between two appends.  While a batch is being worked off nothing else of *)
(* the node runs: the event loop is one task.                              *)
(*                                                                         *)
(* prev_map, header_chain and best_header_tip repeat what recent_chain     *)
(* holds and are read by no decision; they are left out.  A record torn in *)
(* the middle is not modelled: an append is in the file or it is not.      *)
(***************************************************************************)
EXTENDS Integers, Sequences, FiniteSets

CONSTANTS
    Headers,        \* block hashes, each standing for its header
    Genesis,
    Parent,         \* prev_blockhash of a header; may lie outside Headers
    Checkpoints,    \* the checkpoints of chainparams.rs: height -> hash
    DiskMayFail,    \* TRUE: append_header_to_disk can return an error
    MaxReread,      \* bound: length of a file that can fail to be read; 0: reading
                    \* never fails
    MaxHeaders      \* bound: headers in one message (the protocol's is 2000)

ASSUME GenesisAssumption    == Genesis \in Headers
ASSUME ParentAssumption     == DOMAIN Parent = Headers
ASSUME CheckpointAssumption == DOMAIN Checkpoints \subseteq Nat \ {0}
ASSUME DiskAssumption       == DiskMayFail \in BOOLEAN
ASSUME HeaderBound          == MaxHeaders \in Nat \ {0} /\ MaxReread \in Nat

VARIABLES
    recent_chain,         \* headers accepted, genesis first
    have_header,          \* the same headers, for the duplicate test
    header_chain_height,
    batch,                \* headers of the current message not yet looked at
    processing_tip,       \* the header the next new one must point to
    added,                \* headers accepted from the current message
    disk,                 \* the headers file: genesis is not in it
    file_ok               \* history: every append and every read has succeeded

memVars == <<recent_chain, have_header, header_chain_height>>
fileVars == <<disk, file_ok>>
hcVars  == <<memVars, batch, processing_tip, added, fileVars>>

Elements(s) == {s[i] : i \in 1..Len(s)}
LastOf(s)   == s[Len(s)]

HeaderBatches == UNION {[1..m -> Headers] : m \in 1..MaxHeaders}

\* Mutant of CheckpointAllows: the table is read one height too low.
CheckpointBelow(n, h) == n - 1 \in DOMAIN Checkpoints => Checkpoints[n - 1] = h

\* get_checkpoint, compared with h: no checkpoint at that height is fine.
CheckpointAllows(n, h) == n \in DOMAIN Checkpoints => Checkpoints[n] = h

\* Mutants of LoadFrom: the height is one too low; the last record is lost.
LoadHeightLow(file) ==
    /\ recent_chain' = <<Genesis>> \o file
    /\ have_header' = {Genesis} \cup Elements(file)
    /\ header_chain_height' = Len(file) - 1
LoadAllButLast(file) ==
    LET kept == SubSeq(file, 1, Len(file) - 1)
    IN /\ recent_chain' = <<Genesis>> \o kept
       /\ have_header' = {Genesis} \cup Elements(kept)
       /\ header_chain_height' = Len(kept)

\* The file as load_headers_from_disk reads it, put behind genesis by
\* with_start_height; nothing about the records is verified.
LoadFrom(file) ==
    /\ recent_chain' = <<Genesis>> \o file
    /\ have_header' = {Genesis} \cup Elements(file)
    /\ header_chain_height' = Len(file)

HCInit ==
    /\ recent_chain = <<Genesis>>
    /\ have_header = {Genesis}
    /\ header_chain_height = 0
    /\ batch = << >>
    /\ processing_tip = Genesis
    /\ added = 0
    /\ disk = << >> /\ file_ok = TRUE

\* extend_headers is entered with the headers of a message.
BeginExtend(b) ==
    /\ batch = << >>
    /\ batch' = b
    /\ processing_tip' = LastOf(recent_chain)
    /\ added' = 0
    /\ UNCHANGED <<memVars, fileVars>>

\* Mutant of SkipDuplicate: the file is appended to before the test.
SkipButSave ==
    /\ batch # << >>
    /\ Head(batch) \in have_header
    /\ processing_tip' = Head(batch)
    /\ batch' = Tail(batch)
    /\ disk' = Append(disk, Head(batch))
    /\ UNCHANGED <<memVars, added, file_ok>>

\* A header we already have is skipped, but the next one may build on it.
SkipDuplicate ==
    /\ batch # << >>
    /\ Head(batch) \in have_header
    /\ processing_tip' = Head(batch)
    /\ batch' = Tail(batch)
    /\ UNCHANGED <<memVars, added, fileVars>>

\* Mutant of Connects: prev_blockhash is not looked at.
ConnectsAnywhere(h) == TRUE

Connects(h) == Parent[h] = processing_tip

\* A header that does not connect, or contradicts a checkpoint, ends the loop.
BreakOff ==
    /\ batch # << >>
    /\ Head(batch) \notin have_header
    /\ \/ ~Connects(Head(batch))
       \/ ~CheckpointAllows(header_chain_height + 1, Head(batch))
    /\ batch' = << >>
    /\ UNCHANGED <<memVars, processing_tip, added, fileVars>>

\* Mutant of AcceptHeader: have_header is not updated.
AcceptUnindexed ==
    /\ batch # << >>
    /\ LET h == Head(batch)
       IN /\ h \notin have_header
          /\ Connects(h)
          /\ CheckpointAllows(header_chain_height + 1, h)
          /\ recent_chain' = Append(recent_chain, h)
          /\ header_chain_height' = header_chain_height + 1
          /\ processing_tip' = h
          /\ disk' = Append(disk, h)
    /\ added' = added + 1
    /\ batch' = Tail(batch)
    /\ UNCHANGED <<have_header, file_ok>>

\* A header that connects is accepted, and appended to the file; an error of
\* the file is logged and ignored.
AcceptHeader ==
    /\ batch # << >>
    /\ LET h == Head(batch)
       IN /\ h \notin have_header
          /\ Connects(h)
          /\ CheckpointAllows(header_chain_height + 1, h)
          /\ recent_chain' = Append(recent_chain, h)
          /\ have_header' = have_header \cup {h}
          /\ header_chain_height' = header_chain_height + 1
          /\ processing_tip' = h
          /\ added' = added + 1
          /\ batch' = Tail(batch)
          /\ \/ disk' = Append(disk, h) /\ UNCHANGED file_ok
             \/ DiskMayFail /\ disk' = disk /\ file_ok' = FALSE

ExtendStep == SkipDuplicate \/ BreakOff \/ AcceptHeader

\* The process dies at any moment and is started again.  If the file cannot be
\* read the node starts from genesis, and appends to the file as it is.
HCRestart ==
    /\ \/ LoadFrom(disk) /\ UNCHANGED file_ok
       \/ Len(disk) < MaxReread /\ LoadFrom(<< >>) /\ file_ok' = FALSE
    /\ batch' = << >>
    /\ processing_tip' = Genesis
    /\ added' = 0
    /\ UNCHANGED disk

HCNext ==
    \/ \E b \in HeaderBatches : BeginExtend(b)
    \/ ExtendStep
    \/ HCRestart

HCSpec == HCInit /\ [][HCNext]_hcVars
-----------------------------------------------------------------------------
(* Properties *)

HCTypeOK ==
    /\ recent_chain \in Seq(Headers)
    /\ have_header \subseteq Headers
    /\ header_chain_height \in Nat
    /\ batch \in Seq(Headers)
    /\ processing_tip \in Headers
    /\ added \in Nat
    /\ disk \in Seq(Headers) /\ file_ok \in BOOLEAN

\* The parts that the properties and the invariants are made of.
IndexAgrees ==
    /\ Len(recent_chain) >= 1 /\ recent_chain[1] = Genesis
    /\ have_header = Elements(recent_chain)
    /\ header_chain_height = Len(recent_chain) - 1

IndexedOnce ==
    /\ IndexAgrees
    /\ \A i, j \in 1..Len(recent_chain) :
          recent_chain[i] = recent_chain[j] => i = j

ParentsBefore ==
    \A i \in 2..Len(recent_chain) :
        \E j \in 1..(i-1) : Parent[recent_chain[i]] = recent_chain[j]

CheckpointsMet ==
    \A n \in DOMAIN Checkpoints :
        n < Len(recent_chain) => recent_chain[n+1] = Checkpoints[n]

FileMirrors == recent_chain = <<Genesis>> \o disk

\* The vector, the set and the counter agree whatever peers send, whenever the
\* process dies and whatever the file does; and as long as the file works no
\* header is in the chain twice.
ChainIndexed == IndexAgrees /\ (file_ok => IndexedOnce)

\* As long as the file works, the parent of every header stands before it in
\* the chain: nothing is accepted that does not descend from genesis through
\* accepted headers, and no crash between two appends changes that.
Ancestry == file_ok => ParentsBefore

\* As long as the file works, the header at a checkpoint's height is the
\* checkpoint (extend_headers rejects any other; with_start_height does not
\* look).
CheckpointsHeld == file_ok => CheckpointsMet

\* As long as no append and no read has failed, the file is the chain without
\* genesis, so that a restart loses nothing.
DiskMirrorsChain == file_ok => FileMirrors

\* Even when writes fail, the file holds accepted headers only, each once and
\* in the order of the chain: a failed write leaves a gap and nothing worse.
FileInOrder ==
    /\ \A i \in 1..Len(disk) :
          \E m \in 2..Len(recent_chain) : recent_chain[m] = disk[i]
    /\ \A i, j \in 1..Len(disk) :
          i < j => \E m, n \in 2..Len(recent_chain) :
                       /\ m < n
                       /\ recent_chain[m] = disk[i]
                       /\ recent_chain[n] = disk[j]

\* As long as the file works, no step, a restart included, takes back a header
\* of the chain.
HistoryStable ==
    [][ file_ok' => /\ Len(recent_chain') >= Len(recent_chain)
                    /\ \A i \in 1..Len(recent_chain) :
                          recent_chain'[i] = recent_chain[i] ]_hcVars

\* Whatever the file has lost or holds twice, a header is accepted only if it is
\* new and its parent is among the headers the node has.
AcceptsConnected ==
    [][ recent_chain' # recent_chain =>
          \/ HCRestart
          \/ \E h \in Headers \ have_header : /\ Parent[h] \in have_header
                                              /\ recent_chain' = Append(recent_chain, h)
      ]_hcVars

\* The header the next one must point to is a header of the chain.
TipKnown == batch # << >> => processing_tip \in have_header

\* The inductive invariants: for any file, for a file that can be read, and for
\* one that can be written as well.
HCBase     == HCTypeOK /\ IndexAgrees
HCInv      == HCTypeOK /\ IndexedOnce /\ FileInOrder /\ TipKnown
HCReliable == ParentsBefore /\ CheckpointsMet /\ FileMirrors

\* "Chain continuity (prev_blockhash matches)": every header of the chain
\* points to the one before it.
ChainContinuity ==
    \A i \in 2..Len(recent_chain) :
        Parent[recent_chain[i]] = recent_chain[i-1]
=============================================================================
