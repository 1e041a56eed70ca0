-------------------------- MODULE HeaderChainProofs -------------------------
(***************************************************************************)
(* The header chain for every tree of headers, every set of checkpoints    *)
(* and messages of every length.  Types and the index of the chain are     *)
(* right whatever the file does.  HCInv holds as long as the file has been *)
(* read whenever it should, whether or not writes fail; the parents, the   *)
(* checkpoints and the file itself (HCReliable) are right as long as no    *)
(* write has failed either.                                                *)
(***************************************************************************)
EXTENDS HeaderChain, SequenceTheorems, TLAPS

\* A message is a nonempty sequence of headers.
LEMMA BatchIsSeq ==
  ASSUME NEW b \in HeaderBatches
  PROVE  b \in Seq(Headers) /\ b # << >>
<1>1. PICK m \in 1..MaxHeaders : b \in [1..m -> Headers]
  BY DEF HeaderBatches
<1> QED BY <1>1, HeaderBound

\* What accepting a header does to the vector and to its set of elements.
LEMMA AppendFacts ==
  ASSUME NEW S, NEW s \in Seq(S), NEW x \in S
  PROVE  /\ Append(s, x) \in Seq(S)
         /\ Len(Append(s, x)) = Len(s) + 1
         /\ Len(s) \in Nat
         /\ \A i \in 1..Len(s) : Append(s, x)[i] = s[i]
         /\ Append(s, x)[Len(s) + 1] = x
         /\ Elements(Append(s, x)) = Elements(s) \cup {x}
  BY DEF Elements

\* What loading the file does to the vector.
LEMMA LoadFacts ==
  ASSUME NEW S, NEW s \in Seq(S), NEW x \in S
  PROVE  /\ <<x>> \o s \in Seq(S)
         /\ Len(<<x>> \o s) = Len(s) + 1
         /\ Len(s) \in Nat
         /\ (<<x>> \o s)[1] = x
         /\ \A i \in 1..Len(s) : (<<x>> \o s)[i + 1] = s[i]
         /\ \A i \in 2..(Len(s) + 1) : (<<x>> \o s)[i] = s[i - 1]
         /\ Elements(<<x>> \o s) = {x} \cup Elements(s)
<1>1. /\ <<x>> \o s \in Seq(S) /\ Len(<<x>> \o s) = Len(s) + 1
      /\ Len(s) \in Nat
      /\ (<<x>> \o s)[1] = x
      /\ \A i \in 1..Len(s) : (<<x>> \o s)[i + 1] = s[i]
      /\ \A i \in 2..(Len(s) + 1) : (<<x>> \o s)[i] = s[i - 1]
  OBVIOUS
<1> DEFINE t == <<x>> \o s
<1> HIDE DEF t
<1>2. \A i \in 1..Len(t) : t[i] \in {x} \cup Elements(s)
  <2> TAKE i \in 1..Len(t)
  <2>1. CASE i = 1
    BY <1>1, <2>1 DEF t
  <2>2. CASE i # 1
    <3>1. i \in 2..(Len(s) + 1) /\ i - 1 \in 1..Len(s)
      BY <1>1, <2>2 DEF t
    <3> QED BY <1>1, <3>1 DEF t, Elements
  <2> QED BY <2>1, <2>2
<1>3. \A i \in 1..Len(s) : s[i] \in Elements(t)
  <2> TAKE i \in 1..Len(s)
  <2>1. i + 1 \in 1..Len(t) /\ t[i + 1] = s[i]
    BY <1>1 DEF t
  <2> QED BY <2>1 DEF Elements
<1>4. x \in Elements(t)
  <2>1. 1 \in 1..Len(t) /\ t[1] = x
    BY <1>1 DEF t
  <2> QED BY <2>1 DEF Elements
<1>5. Elements(t) = {x} \cup Elements(s)
  BY <1>2, <1>3, <1>4 DEF Elements
<1> QED BY <1>1, <1>5 DEF t

-----------------------------------------------------------------------------
(* The invariant that needs nothing of the file *)

\* The empty file.
LEMMA InitSound == HCInit => HCInv
<1> SUFFICES ASSUME HCInit PROVE HCInv
  OBVIOUS
<1>1. recent_chain = <<Genesis>> /\ Len(recent_chain) = 1 /\ recent_chain[1] = Genesis
  BY DEF HCInit
<1>2. HCTypeOK
  BY GenesisAssumption DEF HCInit, HCTypeOK
<1>3. IndexedOnce
  BY <1>1 DEF HCInit, IndexedOnce, IndexAgrees, Elements
<1>4. FileInOrder /\ TipKnown
  BY DEF HCInit, FileInOrder, TipKnown
<1> QED BY <1>2, <1>3, <1>4 DEF HCInv

\* Accepting a header: it is new, so that the chain stays free of duplicates.
LEMMA AcceptSound == HCInv /\ AcceptHeader => HCInv'
<1> SUFFICES ASSUME HCInv, AcceptHeader PROVE HCInv'
  OBVIOUS
<1> DEFINE h == Head(batch)
<1>1. /\ recent_chain \in Seq(Headers) /\ batch \in Seq(Headers) /\ batch # << >>
      /\ have_header \subseteq Headers /\ header_chain_height \in Nat
      /\ added \in Nat /\ disk \in Seq(Headers) /\ file_ok \in BOOLEAN
  BY DEF HCInv, HCTypeOK, AcceptHeader
<1>2. /\ h \notin have_header
      /\ recent_chain' = Append(recent_chain, h)
      /\ have_header' = have_header \cup {h}
      /\ header_chain_height' = header_chain_height + 1
      /\ processing_tip' = h /\ added' = added + 1 /\ batch' = Tail(batch)
      /\ disk' = Append(disk, h) \/ disk' = disk
      /\ file_ok' = file_ok \/ file_ok' = FALSE
  BY DEF AcceptHeader
<1>3. h \in Headers /\ Tail(batch) \in Seq(Headers)
  BY <1>1
<1> HIDE DEF h
<1>4. HCTypeOK'
  <2>1. Append(recent_chain, h) \in Seq(Headers) /\ Append(disk, h) \in Seq(Headers)
    BY <1>1, <1>3
  <2>2. disk' \in Seq(Headers)
    BY <1>1, <1>2, <2>1
  <2>3. file_ok' \in BOOLEAN
    BY <1>1, <1>2, Zenon
  <2> QED BY <1>1, <1>2, <1>3, <2>1, <2>2, <2>3 DEF HCTypeOK
<1>5. /\ Len(recent_chain) \in Nat /\ Len(recent_chain') = Len(recent_chain) + 1
      /\ \A i \in 1..Len(recent_chain) : recent_chain'[i] = recent_chain[i]
      /\ recent_chain'[Len(recent_chain) + 1] = h
      /\ Elements(recent_chain') = Elements(recent_chain) \cup {h}
  BY <1>1, <1>2, <1>3, AppendFacts
<1>6. /\ Len(recent_chain) >= 1 /\ recent_chain[1] = Genesis
      /\ have_header = Elements(recent_chain)
      /\ header_chain_height = Len(recent_chain) - 1
      /\ \A i, j \in 1..Len(recent_chain) :
            recent_chain[i] = recent_chain[j] => i = j
  BY DEF HCInv, IndexedOnce, IndexAgrees
<1>7. \A i \in 1..Len(recent_chain) : recent_chain[i] # h
  BY <1>2, <1>6 DEF Elements
<1>8. IndexedOnce'
  <2>1. \A i, j \in 1..Len(recent_chain') :
            recent_chain'[i] = recent_chain'[j] => i = j
    <3> TAKE i, j \in 1..Len(recent_chain')
    <3>1. i \in 1..Len(recent_chain) \/ i = Len(recent_chain) + 1
      BY <1>5
    <3>2. j \in 1..Len(recent_chain) \/ j = Len(recent_chain) + 1
      BY <1>5
    <3> QED BY <1>5, <1>6, <1>7, <3>1, <3>2
  <2>2. have_header' = Elements(recent_chain')
    BY <1>2, <1>5, <1>6
  <2>3. 1 \in 1..Len(recent_chain)
    BY <1>5, <1>6
  <2> QED BY <1>2, <1>5, <1>6, <2>1, <2>2, <2>3 DEF IndexedOnce, IndexAgrees
<1>9. FileInOrder'
  <2>0. /\ \A i \in 1..Len(disk) :
              \E m \in 2..Len(recent_chain) : recent_chain[m] = disk[i]
        /\ \A i, j \in 1..Len(disk) :
              i < j => \E m, n \in 2..Len(recent_chain) :
                           m < n /\ recent_chain[m] = disk[i]
                                 /\ recent_chain[n] = disk[j]
    <3>1. FileInOrder
      BY DEF HCInv
    <3>2. \A i \in 1..Len(disk) :
              \E m \in 2..Len(recent_chain) : recent_chain[m] = disk[i]
      BY <3>1 DEF FileInOrder
    <3>3. ASSUME NEW i \in 1..Len(disk), NEW j \in 1..Len(disk), i < j
          PROVE  \E m, n \in 2..Len(recent_chain) :
                     m < n /\ recent_chain[m] = disk[i] /\ recent_chain[n] = disk[j]
      BY <3>1, <3>3 DEF FileInOrder
    <3> QED BY <3>2, <3>3
  <2>1. /\ \A m \in 2..Len(recent_chain) : /\ m \in 2..Len(recent_chain')
                                            /\ recent_chain'[m] = recent_chain[m]
        /\ Len(recent_chain') \in 2..Len(recent_chain')
        /\ recent_chain'[Len(recent_chain')] = h
        /\ \A m \in 2..Len(recent_chain) : m < Len(recent_chain')
    BY <1>5, <1>6
  <2>2. CASE disk' = disk
    BY <2>0, <2>1, <2>2 DEF FileInOrder
  <2>3. CASE disk' = Append(disk, h)
    <3>1. /\ Len(disk) \in Nat /\ Len(disk') = Len(disk) + 1
          /\ \A i \in 1..Len(disk) : disk'[i] = disk[i]
          /\ disk'[Len(disk) + 1] = h
      BY <1>1, <1>3, <2>3, AppendFacts
    <3>2. ASSUME NEW i \in 1..Len(disk')
          PROVE  \E m \in 2..Len(recent_chain') : recent_chain'[m] = disk'[i]
      <4>1. CASE i \in 1..Len(disk)
        <5>1. PICK m \in 2..Len(recent_chain) : recent_chain[m] = disk[i]
          BY <2>0, <4>1
        <5> QED BY <2>1, <3>1, <4>1, <5>1
      <4>2. CASE i = Len(disk) + 1
        BY <2>1, <3>1, <4>2
      <4> QED BY <3>1, <4>1, <4>2
    <3>3. ASSUME NEW i \in 1..Len(disk'), NEW j \in 1..Len(disk'), i < j
          PROVE  \E m, n \in 2..Len(recent_chain') :
                     m < n /\ recent_chain'[m] = disk'[i]
                           /\ recent_chain'[n] = disk'[j]
      <4>1. i \in 1..Len(disk)
        BY <3>1, <3>3
      <4>2. CASE j \in 1..Len(disk)
        <5>1. PICK m, n \in 2..Len(recent_chain) :
                 m < n /\ recent_chain[m] = disk[i] /\ recent_chain[n] = disk[j]
          BY <2>0, <3>3, <4>1, <4>2
        <5> QED BY <2>1, <3>1, <4>1, <4>2, <5>1
      <4>3. CASE j = Len(disk) + 1
        <5>1. PICK m \in 2..Len(recent_chain) : recent_chain[m] = disk[i]
          BY <2>0, <4>1
        <5>2. /\ m < Len(recent_chain') /\ m \in 2..Len(recent_chain')
              /\ recent_chain'[m] = disk'[i]
              /\ recent_chain'[Len(recent_chain')] = disk'[j]
          BY <2>1, <3>1, <4>1, <4>3, <5>1
        <5> QED BY <2>1, <5>2
      <4> QED BY <3>1, <4>2, <4>3
    <3> QED BY <3>2, <3>3 DEF FileInOrder
  <2> QED BY <1>2, <2>2, <2>3
<1>10. TipKnown'
  BY <1>2 DEF TipKnown
<1> QED BY <1>4, <1>8, <1>9, <1>10 DEF HCInv

\* A file that can always be read is what a restart loads.
LEMMA ReadableRestart ==
  ASSUME MaxReread = 0, disk \in Seq(Headers), HCRestart
  PROVE  LoadFrom(disk)
<1>1. ~(Len(disk) < 0)
  OBVIOUS
<1> QED BY <1>1 DEF HCRestart

\* Loading the file: it holds no header twice and not genesis.
LEMMA RestartSound ==
  ASSUME HCInv, HCRestart, LoadFrom(disk) PROVE HCInv'
<1>1. /\ disk \in Seq(Headers) /\ recent_chain \in Seq(Headers)
      /\ file_ok \in BOOLEAN
  BY DEF HCInv, HCTypeOK
<1>2. /\ recent_chain' = <<Genesis>> \o disk
      /\ have_header' = {Genesis} \cup Elements(disk)
      /\ header_chain_height' = Len(disk)
      /\ batch' = << >> /\ processing_tip' = Genesis /\ added' = 0
      /\ disk' = disk /\ (file_ok' = file_ok \/ file_ok' = FALSE)
  BY DEF HCRestart, LoadFrom
<1>3. /\ recent_chain' \in Seq(Headers)
      /\ Len(recent_chain') = Len(disk) + 1 /\ Len(disk) \in Nat
      /\ recent_chain'[1] = Genesis
      /\ \A i \in 1..Len(disk) : recent_chain'[i + 1] = disk[i]
      /\ \A i \in 2..(Len(disk) + 1) : recent_chain'[i] = disk[i - 1]
      /\ Elements(recent_chain') = {Genesis} \cup Elements(disk)
  BY <1>1, <1>2, GenesisAssumption, LoadFacts
<1>4. HCTypeOK'
  <2>1. have_header' \subseteq Headers
    BY <1>1, <1>2, GenesisAssumption DEF Elements
  <2>2. file_ok' \in BOOLEAN
    BY <1>1, <1>2, Zenon
  <2> QED BY <1>1, <1>2, <1>3, <2>1, <2>2, GenesisAssumption DEF HCTypeOK
<1>5. \A i \in 1..Len(disk) : disk[i] # Genesis
  <2> TAKE i \in 1..Len(disk)
  <2>0. FileInOrder
    BY DEF HCInv
  <2>1. PICK m \in 2..Len(recent_chain) : recent_chain[m] = disk[i]
    BY <2>0 DEF FileInOrder
  <2>2. /\ 1 \in 1..Len(recent_chain) /\ m \in 1..Len(recent_chain) /\ m # 1
        /\ Len(recent_chain) \in Nat
    BY <1>1
  <2> QED BY <2>1, <2>2 DEF HCInv, IndexedOnce, IndexAgrees
<1>6. \A i, j \in 1..Len(disk) : i < j => disk[i] # disk[j]
  <2> SUFFICES ASSUME NEW i \in 1..Len(disk), NEW j \in 1..Len(disk), i < j
               PROVE  disk[i] # disk[j]
    OBVIOUS
  <2>1. FileInOrder
    BY DEF HCInv
  <2>2. PICK m, n \in 2..Len(recent_chain) :
           m < n /\ recent_chain[m] = disk[i] /\ recent_chain[n] = disk[j]
    BY <2>1 DEF FileInOrder
  <2>3. m \in 1..Len(recent_chain) /\ n \in 1..Len(recent_chain) /\ m # n
    BY <1>1, <2>2
  <2> QED BY <2>2, <2>3 DEF HCInv, IndexedOnce, IndexAgrees
<1>7. IndexedOnce'
  <2>1. ASSUME NEW i \in 1..Len(recent_chain'), NEW j \in 1..Len(recent_chain'),
               i < j
        PROVE  recent_chain'[i] # recent_chain'[j]
    <3>1. /\ j \in 2..(Len(disk) + 1) /\ j - 1 \in 1..Len(disk)
          /\ recent_chain'[j] = disk[j - 1]
      BY <1>3, <2>1
    <3>2. CASE i = 1
      BY <1>3, <1>5, <3>1, <3>2
    <3>3. CASE i # 1
      <4>1. /\ i \in 2..(Len(disk) + 1) /\ i - 1 \in 1..Len(disk)
            /\ recent_chain'[i] = disk[i - 1] /\ i - 1 < j - 1
        BY <1>3, <2>1, <3>3
      <4> QED BY <1>6, <3>1, <4>1
    <3> QED BY <3>2, <3>3
  <2>2. \A i, j \in 1..Len(recent_chain') :
            recent_chain'[i] = recent_chain'[j] => i = j
    <3> SUFFICES ASSUME NEW i \in 1..Len(recent_chain'),
                        NEW j \in 1..Len(recent_chain'), i # j
                 PROVE  recent_chain'[i] # recent_chain'[j]
      OBVIOUS
    <3>1. i < j \/ j < i
      BY <1>3
    <3> QED BY <2>1, <3>1
  <2> QED BY <1>2, <1>3, <2>2 DEF IndexedOnce, IndexAgrees
<1>8. FileInOrder'
  <2>1. \A i \in 1..Len(disk) : i + 1 \in 2..Len(recent_chain')
    BY <1>3
  <2>2. \A i, j \in 1..Len(disk) : i < j => i + 1 < j + 1
    BY <1>3
  <2> QED BY <1>2, <1>3, <2>1, <2>2 DEF FileInOrder
<1>9. TipKnown'
  BY <1>2 DEF TipKnown
<1> QED BY <1>4, <1>7, <1>8, <1>9 DEF HCInv

\* Steps that leave the chain and the file alone.
LEMMA QuietSound ==
  ASSUME HCInv, UNCHANGED <<memVars, fileVars>>, batch' \in Seq(Headers),
         processing_tip' \in Headers, added' \in Nat,
         batch' # << >> => processing_tip' \in have_header
  PROVE  HCInv'
  BY DEF HCInv, HCTypeOK, IndexedOnce, IndexAgrees, FileInOrder, TipKnown, Elements,
         memVars, fileVars

\* Every step of the specification in which the file, if it is read, can be.
LEMMA NextSound ==
  ASSUME HCInv, [HCNext]_hcVars, HCRestart => LoadFrom(disk)
  PROVE  HCInv'
<1>0. HCTypeOK /\ IndexedOnce /\ TipKnown
  BY DEF HCInv
<1>1. ASSUME NEW b \in HeaderBatches, BeginExtend(b) PROVE HCInv'
  <2>1. LastOf(recent_chain) \in have_header /\ LastOf(recent_chain) \in Headers
    <3>1. Len(recent_chain) \in 1..Len(recent_chain)
      BY <1>0 DEF HCTypeOK, IndexedOnce, IndexAgrees
    <3> QED BY <1>0, <3>1 DEF HCTypeOK, IndexedOnce, IndexAgrees, Elements, LastOf
  <2> QED BY <1>1, <2>1, BatchIsSeq, QuietSound DEF BeginExtend
<1>2. CASE SkipDuplicate
  <2>1. Tail(batch) \in Seq(Headers) /\ Head(batch) \in Headers
    BY <1>0, <1>2 DEF HCTypeOK, SkipDuplicate
  <2> QED BY <1>0, <1>2, <2>1, QuietSound DEF SkipDuplicate, HCTypeOK
<1>3. CASE BreakOff
  BY <1>0, <1>3, QuietSound DEF BreakOff, HCTypeOK
<1>4. CASE AcceptHeader
  BY <1>4, AcceptSound
<1>5. CASE HCRestart
  BY <1>5, RestartSound
<1>6. CASE UNCHANGED hcVars
  BY <1>0, <1>6, QuietSound DEF hcVars, HCTypeOK, TipKnown
<1> QED BY <1>1, <1>2, <1>3, <1>4, <1>5, <1>6 DEF HCNext, ExtendStep

\* The chain's vector, set and counter agree and no header is in it twice, for
\* every tree of headers and even if writes to the file fail.
THEOREM HeaderChainCorrect ==
  ASSUME MaxReread = 0
  PROVE  HCSpec => []HCInv
<1>1. HCInv /\ [HCNext]_hcVars => HCInv'
  <2> SUFFICES ASSUME HCInv, [HCNext]_hcVars PROVE HCInv'
    OBVIOUS
  <2>1. HCRestart => LoadFrom(disk)
    BY ReadableRestart DEF HCInv, HCTypeOK
  <2> QED BY <2>1, NextSound
<1> QED BY <1>1, InitSound, PTL DEF HCSpec

\* No header is in the chain twice, even if writes to the file fail.
THEOREM ChainAlwaysOnce ==
  ASSUME MaxReread = 0
  PROVE  HCSpec => []IndexedOnce
<1>1. HCInv => IndexedOnce
  BY DEF HCInv
<1> QED BY <1>1, HeaderChainCorrect, PTL

\* Failed writes leave gaps in the file, and nothing worse.
THEOREM FileAlwaysInOrder ==
  ASSUME MaxReread = 0
  PROVE  HCSpec => []FileInOrder
<1>1. HCInv => FileInOrder
  BY DEF HCInv
<1> QED BY <1>1, HeaderChainCorrect, PTL

-----------------------------------------------------------------------------
(* What holds as long as no write to the file and no read has failed *)

\* Accepting a header keeps ancestry, checkpoints and the file right.
LEMMA AcceptReliable ==
  ASSUME HCInv, HCReliable, AcceptHeader, disk' = Append(disk, Head(batch))
  PROVE  HCReliable'
<1> DEFINE h == Head(batch)
<1>1. /\ recent_chain \in Seq(Headers) /\ batch \in Seq(Headers)
      /\ batch # << >> /\ disk \in Seq(Headers)
      /\ header_chain_height = Len(recent_chain) - 1
      /\ have_header = Elements(recent_chain)
      /\ processing_tip \in have_header
  BY DEF HCInv, HCTypeOK, IndexedOnce, IndexAgrees, TipKnown, AcceptHeader
<1>2. /\ Parent[h] = processing_tip
      /\ CheckpointAllows(header_chain_height + 1, h)
      /\ recent_chain' = Append(recent_chain, h)
      /\ disk' = Append(disk, h)
  BY DEF AcceptHeader, Connects
<1>3. h \in Headers
  BY <1>1
<1> HIDE DEF h
<1>4. /\ Len(recent_chain) \in Nat /\ Len(recent_chain') = Len(recent_chain) + 1
      /\ \A i \in 1..Len(recent_chain) : recent_chain'[i] = recent_chain[i]
      /\ recent_chain'[Len(recent_chain) + 1] = h
  BY <1>1, <1>2, <1>3, AppendFacts
<1>5. ParentsBefore'
  <2> SUFFICES ASSUME NEW i \in 2..Len(recent_chain')
               PROVE  \E j \in 1..(i - 1) :
                          Parent[recent_chain'[i]] = recent_chain'[j]
    BY DEF ParentsBefore
  <2>1. CASE i \in 2..Len(recent_chain)
    <3>1. PICK j \in 1..(i - 1) : Parent[recent_chain[i]] = recent_chain[j]
      BY <2>1 DEF HCReliable, ParentsBefore
    <3>2. i \in 1..Len(recent_chain) /\ j \in 1..Len(recent_chain)
      BY <1>4, <2>1
    <3> QED BY <1>4, <3>1, <3>2
  <2>2. CASE i = Len(recent_chain) + 1
    <3>1. PICK j \in 1..Len(recent_chain) : recent_chain[j] = processing_tip
      BY <1>1 DEF Elements
    <3>2. j \in 1..(i - 1)
      BY <1>4, <2>2, <3>1
    <3> QED BY <1>2, <1>4, <2>2, <3>1, <3>2
  <2> QED BY <1>4, <2>1, <2>2
<1>6. CheckpointsMet'
  <2> SUFFICES ASSUME NEW n \in DOMAIN Checkpoints, n < Len(recent_chain')
               PROVE  recent_chain'[n + 1] = Checkpoints[n]
    BY DEF CheckpointsMet
  <2>1. n \in Nat \ {0}
    BY CheckpointAssumption
  <2>2. CASE n < Len(recent_chain)
    <3>1. n + 1 \in 1..Len(recent_chain)
      BY <1>4, <2>1, <2>2
    <3> QED BY <1>4, <2>2, <3>1 DEF HCReliable, CheckpointsMet
  <2>3. CASE n = Len(recent_chain)
    BY <1>1, <1>2, <1>4, <2>3 DEF CheckpointAllows
  <2> QED BY <1>4, <2>1, <2>2, <2>3
<1>7. FileMirrors'
  <2>1. recent_chain = <<Genesis>> \o disk
    BY DEF HCReliable, FileMirrors
  <2>2. Append(<<Genesis>> \o disk, h) = <<Genesis>> \o Append(disk, h)
    <3>1. <<Genesis>> \in Seq(Headers) /\ <<h>> \in Seq(Headers)
      BY <1>3, GenesisAssumption
    <3>2. <<Genesis>> \o disk \in Seq(Headers)
      BY <1>1, <3>1, ConcatProperties
    <3>3. Append(<<Genesis>> \o disk, h) = (<<Genesis>> \o disk) \o <<h>>
      BY <1>3, <3>2, AppendIsConcat
    <3>4. Append(disk, h) = disk \o <<h>>
      BY <1>1, <1>3, AppendIsConcat
    <3> QED BY <1>1, <3>1, <3>3, <3>4, ConcatAssociative
  <2> QED BY <1>2, <2>1, <2>2 DEF FileMirrors
<1> QED BY <1>5, <1>6, <1>7 DEF HCReliable

\* A step in which the file does what it should.
FileWorks ==
    /\ HCRestart => LoadFrom(disk)
    /\ AcceptHeader => disk' = Append(disk, Head(batch))

\* Every such step; a restart loads the chain it had.
LEMMA NextReliable ==
  ASSUME HCInv, HCReliable, [HCNext]_hcVars, FileWorks
  PROVE  HCReliable'
<1>1. CASE AcceptHeader
  BY <1>1, AcceptReliable DEF FileWorks
<1>2. CASE recent_chain' = recent_chain /\ disk' = disk
  BY <1>2 DEF HCReliable, ParentsBefore, CheckpointsMet, FileMirrors
<1>3. CASE HCRestart
  <2>1. recent_chain' = recent_chain /\ disk' = disk
    BY <1>3 DEF HCRestart, LoadFrom, HCReliable, FileMirrors, FileWorks
  <2> QED BY <1>2, <2>1
<1> QED
  BY <1>1, <1>2, <1>3
  DEF HCNext, ExtendStep, BeginExtend, SkipDuplicate, BreakOff, memVars, fileVars, hcVars

\* file_ok is TRUE after a step only if the file worked in it and before.
LEMMA OkMeansWorks ==
  ASSUME [HCNext]_hcVars, file_ok' = TRUE
  PROVE  file_ok = TRUE /\ FileWorks
<1>1. HCRestart => LoadFrom(disk) /\ file_ok = TRUE
  BY DEF HCRestart
<1>2. AcceptHeader => disk' = Append(disk, Head(batch)) /\ file_ok = TRUE
  BY DEF AcceptHeader
<1>3. ~HCRestart /\ ~AcceptHeader => file_ok' = file_ok
  BY DEF HCNext, ExtendStep, BeginExtend, SkipDuplicate, BreakOff, hcVars, fileVars
<1> QED BY <1>1, <1>2, <1>3 DEF FileWorks

\* The first chain is right.
LEMMA InitReliable == HCInit => HCReliable
<1> SUFFICES ASSUME HCInit PROVE HCReliable
  OBVIOUS
<1>1. recent_chain = <<Genesis>> /\ disk = << >> /\ Len(recent_chain) = 1
  BY DEF HCInit
<1>2. <<Genesis>> = <<Genesis>> \o << >>
  BY GenesisAssumption
<1>3. FileMirrors
  BY <1>1, <1>2 DEF FileMirrors
<1>4. \A n \in DOMAIN Checkpoints : ~(n < 1)
  BY CheckpointAssumption
<1> QED BY <1>1, <1>3, <1>4 DEF HCReliable, ParentsBefore, CheckpointsMet

\* The inductive invariant of a file that may fail: until it does, ancestry,
\* checkpoints and the file itself are right.
WorkingFile == file_ok \in BOOLEAN /\ (file_ok = TRUE => HCInv /\ HCReliable)

\* For every tree of headers, every crash and whatever the file may do later,
\* everything is right as long as the file has worked.
THEOREM WorkingFileCorrect == HCSpec => []WorkingFile
<1>1. HCInit => WorkingFile
  BY InitSound, InitReliable DEF HCInit, WorkingFile
<1>2. WorkingFile /\ [HCNext]_hcVars => WorkingFile'
  <2> SUFFICES ASSUME WorkingFile, [HCNext]_hcVars PROVE WorkingFile'
    OBVIOUS
  <2>1. ASSUME file_ok' = TRUE PROVE HCInv' /\ HCReliable'
    <3>1. file_ok = TRUE /\ FileWorks
      BY <2>1, OkMeansWorks
    <3>2. HCInv /\ HCReliable
      BY <3>1 DEF WorkingFile
    <3>3. HCRestart => LoadFrom(disk)
      BY <3>1 DEF FileWorks
    <3> QED BY <3>1, <3>2, <3>3, NextSound, NextReliable
  <2>2. file_ok' \in BOOLEAN
    BY DEF WorkingFile, HCNext, ExtendStep, BeginExtend, SkipDuplicate, BreakOff,
           AcceptHeader, HCRestart, hcVars, fileVars
  <2> QED BY <2>1, <2>2 DEF WorkingFile
<1> QED BY <1>1, <1>2, PTL DEF HCSpec

\* Without failing writes: ancestry, checkpoints, and a file that mirrors the
\* chain, for every tree of headers and every crash.
THEOREM ReliableChainCorrect ==
  ASSUME DiskMayFail = FALSE, MaxReread = 0
  PROVE  HCSpec => [](HCInv /\ HCReliable)
<1>1. HCInit => HCInv /\ HCReliable
  BY InitSound, InitReliable
<1>2. HCInv /\ HCReliable /\ [HCNext]_hcVars => (HCInv /\ HCReliable)'
  <2> SUFFICES ASSUME HCInv, HCReliable, [HCNext]_hcVars PROVE (HCInv /\ HCReliable)'
    OBVIOUS
  <2>1. HCRestart => LoadFrom(disk)
    BY ReadableRestart DEF HCInv, HCTypeOK
  <2>2. FileWorks
    BY <2>1 DEF FileWorks, AcceptHeader
  <2> QED BY <2>1, <2>2, NextSound, NextReliable
<1> QED BY <1>1, <1>2, PTL DEF HCSpec

\* As long as the file works, every accepted header descends from genesis
\* through accepted headers.
THEOREM AncestryHolds == HCSpec => []Ancestry
<1>1. WorkingFile => Ancestry
  BY DEF WorkingFile, HCReliable, Ancestry
<1> QED BY <1>1, WorkingFileCorrect, PTL

\* As long as the file works, no other header ever stands at a checkpoint's
\* height.
THEOREM CheckpointsAlwaysHeld == HCSpec => []CheckpointsHeld
<1>1. WorkingFile => CheckpointsHeld
  BY DEF WorkingFile, HCReliable, CheckpointsHeld
<1> QED BY <1>1, WorkingFileCorrect, PTL

\* As long as the file works, a restart finds the whole chain in it.
THEOREM DiskAlwaysMirrors == HCSpec => []DiskMirrorsChain
<1>1. WorkingFile => DiskMirrorsChain
  BY DEF WorkingFile, HCReliable, DiskMirrorsChain
<1> QED BY <1>1, WorkingFileCorrect, PTL

\* As long as the file works, the chain only grows, across crashes and restarts.
THEOREM HistoryAlwaysStable == HCSpec => HistoryStable
<1> DEFINE A == file_ok' => /\ Len(recent_chain') >= Len(recent_chain)
                            /\ \A i \in 1..Len(recent_chain) :
                                  recent_chain'[i] = recent_chain[i]
<1>1. WorkingFile /\ WorkingFile' /\ [HCNext]_hcVars => [A]_hcVars
  <2> SUFFICES ASSUME WorkingFile, HCNext, file_ok' = TRUE PROVE A
    BY DEF WorkingFile
  <2>0. /\ recent_chain \in Seq(Headers) /\ batch \in Seq(Headers)
        /\ HCReliable /\ FileWorks
    BY OkMeansWorks DEF WorkingFile, HCInv, HCTypeOK
  <2>1. CASE AcceptHeader
    <3>1. Head(batch) \in Headers /\ recent_chain' = Append(recent_chain, Head(batch))
      BY <2>0, <2>1 DEF AcceptHeader
    <3> QED BY <2>0, <3>1, AppendFacts
  <2>2. CASE recent_chain' = recent_chain
    BY <2>0, <2>2
  <2>3. CASE HCRestart
    <3>1. recent_chain' = recent_chain
      BY <2>0, <2>3 DEF LoadFrom, HCReliable, FileMirrors, FileWorks
    <3> QED BY <2>2, <3>1
  <2> QED
    BY <2>1, <2>2, <2>3
    DEF HCNext, ExtendStep, BeginExtend, SkipDuplicate, BreakOff, memVars
<1> QED BY <1>1, WorkingFileCorrect, PTL DEF HCSpec, HistoryStable
-----------------------------------------------------------------------------
(* What holds even if the file can be neither read nor written *)

\* The chain that a restart loads, from the file or from nothing.
LEMMA LoadAgrees ==
  ASSUME NEW file \in Seq(Headers), LoadFrom(file)
  PROVE  /\ IndexAgrees'
         /\ recent_chain' \in Seq(Headers) /\ have_header' \subseteq Headers
         /\ header_chain_height' \in Nat
<1>1. /\ recent_chain' \in Seq(Headers)
      /\ Len(recent_chain') = Len(file) + 1 /\ Len(file) \in Nat
      /\ recent_chain'[1] = Genesis
      /\ Elements(recent_chain') = {Genesis} \cup Elements(file)
  BY GenesisAssumption, LoadFacts DEF LoadFrom
<1>2. {Genesis} \cup Elements(file) \subseteq Headers
  BY GenesisAssumption DEF Elements
<1> QED BY <1>1, <1>2 DEF LoadFrom, IndexAgrees

\* Every step keeps it.
LEMMA BaseNext == HCBase /\ [HCNext]_hcVars => HCBase'
<1> SUFFICES ASSUME HCBase, [HCNext]_hcVars PROVE HCBase'
  OBVIOUS
<1>0. HCTypeOK /\ IndexAgrees /\ Len(recent_chain) \in 1..Len(recent_chain)
  BY DEF HCBase, HCTypeOK, IndexAgrees
<1>1. ASSUME UNCHANGED <<memVars, fileVars>>, batch' \in Seq(Headers),
             processing_tip' \in Headers, added' \in Nat
      PROVE  HCBase'
  BY <1>0, <1>1 DEF HCBase, HCTypeOK, IndexAgrees, Elements, memVars, fileVars
<1>2. ASSUME NEW b \in HeaderBatches, BeginExtend(b) PROVE HCBase'
  <2>1. LastOf(recent_chain) \in Headers
    BY <1>0 DEF HCTypeOK, LastOf
  <2> QED BY <1>1, <1>2, <2>1, BatchIsSeq DEF BeginExtend
<1>3. CASE SkipDuplicate
  <2>1. Tail(batch) \in Seq(Headers) /\ Head(batch) \in Headers
    BY <1>0, <1>3 DEF HCTypeOK, SkipDuplicate
  <2> QED BY <1>0, <1>1, <1>3, <2>1 DEF SkipDuplicate, HCTypeOK
<1>4. CASE BreakOff
  BY <1>0, <1>1, <1>4 DEF BreakOff, HCTypeOK
<1>5. CASE AcceptHeader
  <2>1. Tail(batch) \in Seq(Headers) /\ Head(batch) \in Headers
    BY <1>0, <1>5 DEF HCTypeOK, AcceptHeader
  <2>2. /\ Append(recent_chain, Head(batch)) \in Seq(Headers)
        /\ Len(Append(recent_chain, Head(batch))) = Len(recent_chain) + 1
        /\ Elements(Append(recent_chain, Head(batch)))
              = Elements(recent_chain) \cup {Head(batch)}
        /\ Append(recent_chain, Head(batch))[1] = recent_chain[1]
    BY <1>0, <2>1, AppendFacts DEF HCTypeOK
  <2>3. disk' \in Seq(Headers) /\ file_ok' \in BOOLEAN
    <3>1. /\ disk' = Append(disk, Head(batch)) \/ disk' = disk
          /\ file_ok' = file_ok \/ file_ok' = FALSE
      BY <1>5 DEF AcceptHeader
    <3>2. Append(disk, Head(batch)) \in Seq(Headers)
      BY <1>0, <2>1, AppendFacts DEF HCTypeOK
    <3> QED BY <1>0, <3>1, <3>2 DEF HCTypeOK
  <2>4. HCTypeOK'
    BY <1>0, <1>5, <2>1, <2>2, <2>3 DEF HCTypeOK, AcceptHeader
  <2>5. IndexAgrees'
    BY <1>0, <1>5, <2>2 DEF HCTypeOK, IndexAgrees, AcceptHeader
  <2> QED BY <2>4, <2>5 DEF HCBase
<1>6. CASE HCRestart
  <2>1. PICK file \in Seq(Headers) : LoadFrom(file)
    <3>1. disk \in Seq(Headers) /\ << >> \in Seq(Headers)
      BY <1>0 DEF HCTypeOK
    <3>2. LoadFrom(disk) \/ LoadFrom(<< >>)
      BY <1>6 DEF HCRestart
    <3> QED BY <3>1, <3>2, Zenon
  <2>2. file_ok' \in BOOLEAN
    <3>1. file_ok \in BOOLEAN
      BY <1>0 DEF HCTypeOK
    <3>2. file_ok' = file_ok \/ file_ok' = FALSE
      BY <1>6 DEF HCRestart
    <3> QED BY <3>1, <3>2, Zenon
  <2> QED BY <1>0, <1>6, <2>1, <2>2, LoadAgrees, GenesisAssumption
          DEF HCRestart, HCBase, HCTypeOK
<1>7. CASE UNCHANGED hcVars
  BY <1>0, <1>1, <1>7 DEF hcVars, HCTypeOK
<1> QED BY <1>2, <1>3, <1>4, <1>5, <1>6, <1>7 DEF HCNext, ExtendStep

\* The part of the invariant that needs no assumption on the file.
THEOREM BaseCorrect == HCSpec => []HCBase
<1>1. HCInit => HCBase
  <2>1. Elements(<<Genesis>>) = {Genesis}
    BY DEF Elements
  <2> QED BY <2>1, GenesisAssumption DEF HCInit, HCBase, HCTypeOK, IndexAgrees
<1> QED BY <1>1, BaseNext, PTL DEF HCSpec

\* Type correctness, whatever the file does.
THEOREM HeaderChainTypeCorrect == HCSpec => []HCTypeOK
<1>1. HCBase => HCTypeOK
  BY DEF HCBase
<1> QED BY <1>1, BaseCorrect, PTL

\* The vector, the set and the height always agree, whatever the file does.
THEOREM IndexAlwaysAgrees == HCSpec => []IndexAgrees
<1>1. HCBase => IndexAgrees
  BY DEF HCBase
<1> QED BY <1>1, BaseCorrect, PTL

\* They agree whatever the file does, and no header is in the chain twice as long
\* as it works.
THEOREM ChainAlwaysIndexed == HCSpec => []ChainIndexed
<1>1. HCBase /\ WorkingFile => ChainIndexed
  BY DEF HCBase, WorkingFile, HCInv, ChainIndexed
<1> QED BY <1>1, BaseCorrect, WorkingFileCorrect, PTL

\* The header that extend_headers compares the next one with is always one the
\* node has, from the first round of a batch to the last.
THEOREM TipAlwaysKnown == HCSpec => []TipKnown
<1>1. HCInit => TipKnown
  BY DEF HCInit, TipKnown
<1>2. HCBase /\ TipKnown /\ [HCNext]_hcVars => TipKnown'
  <2> SUFFICES ASSUME HCBase, TipKnown, [HCNext]_hcVars PROVE TipKnown'
    OBVIOUS
  <2>1. ASSUME NEW b \in HeaderBatches, BeginExtend(b) PROVE TipKnown'
    <3>1. Len(recent_chain) \in 1..Len(recent_chain)
      BY DEF HCBase, HCTypeOK, IndexAgrees
    <3>2. LastOf(recent_chain) \in have_header
      BY <3>1 DEF HCBase, IndexAgrees, Elements, LastOf
    <3> QED BY <2>1, <3>2 DEF BeginExtend, TipKnown, memVars
  <2>2. CASE SkipDuplicate
    BY <2>2 DEF SkipDuplicate, TipKnown, memVars
  <2>3. CASE BreakOff
    BY <2>3 DEF BreakOff, TipKnown
  <2>4. CASE AcceptHeader
    BY <2>4 DEF AcceptHeader, TipKnown
  <2>5. CASE HCRestart
    BY <2>5 DEF HCRestart, TipKnown
  <2>6. CASE UNCHANGED hcVars
    BY <2>6 DEF hcVars, memVars, TipKnown
  <2> QED BY <2>1, <2>2, <2>3, <2>4, <2>5, <2>6 DEF HCNext, ExtendStep
<1> QED BY <1>1, <1>2, BaseCorrect, PTL DEF HCSpec

\* Whatever the file does, extend_headers accepts only a new header whose
\* parent the node has, behind the tip.
THEOREM OnlyConnectedAccepted == HCSpec => AcceptsConnected
<1> DEFINE A == recent_chain' # recent_chain =>
                  \/ HCRestart
                  \/ \E h \in Headers \ have_header :
                        /\ Parent[h] \in have_header
                        /\ recent_chain' = Append(recent_chain, h)
<1>1. HCBase /\ TipKnown /\ [HCNext]_hcVars => [A]_hcVars
  <2> SUFFICES ASSUME HCBase, TipKnown, HCNext PROVE A
    OBVIOUS
  <2>1. CASE AcceptHeader
    <3>1. Head(batch) \in Headers \ have_header
      BY <2>1 DEF AcceptHeader, HCBase, HCTypeOK
    <3>2. /\ Parent[Head(batch)] \in have_header
          /\ recent_chain' = Append(recent_chain, Head(batch))
      BY <2>1 DEF AcceptHeader, Connects, TipKnown
    <3> QED BY <3>1, <3>2
  <2>2. CASE recent_chain' = recent_chain
    BY <2>2
  <2> QED
    BY <2>1, <2>2
    DEF HCNext, ExtendStep, BeginExtend, SkipDuplicate, BreakOff, memVars
<1> QED BY <1>1, BaseCorrect, TipAlwaysKnown, PTL DEF HCSpec, AcceptsConnected

-----------------------------------------------------------------------------
(* Without forks *)

\* No header has two children.
Forkless ==
    \A g, h \in Headers : Parent[g] = Parent[h] /\ Parent[g] \in Headers => g = h

\* A header is accepted at the end of the chain only: below it, its parent has a
\* child in the chain already, which is the header itself.
LEMMA AcceptContinues ==
  ASSUME Forkless, HCInv, ChainContinuity, AcceptHeader
  PROVE  ChainContinuity'
<1> DEFINE h == Head(batch)
           n == Len(recent_chain)
<1>0. /\ recent_chain \in Seq(Headers) /\ n \in Nat /\ h \in Headers
      /\ have_header = Elements(recent_chain)
  BY DEF HCInv, HCTypeOK, IndexedOnce, IndexAgrees, AcceptHeader
<1>1. /\ h \notin have_header /\ Parent[h] \in have_header
      /\ recent_chain' = Append(recent_chain, h)
  BY DEF AcceptHeader, HCInv, TipKnown, Connects
<1>2. PICK j \in 1..n : recent_chain[j] = Parent[h]
  BY <1>0, <1>1 DEF Elements
<1> HIDE DEF h
<1>3. j = n
  <2>1. SUFFICES ASSUME j # n PROVE FALSE
    OBVIOUS
  <2>2. j + 1 \in 2..n /\ j + 1 \in 1..n /\ (j + 1) - 1 = j
    BY <1>0, <2>1
  <2>3. Parent[recent_chain[j + 1]] = recent_chain[j]
    BY <2>2 DEF ChainContinuity
  <2>4. recent_chain[j + 1] \in Headers /\ recent_chain[j] \in Headers
    BY <1>0, <2>2
  <2>5. recent_chain[j + 1] = h
    BY <1>0, <1>2, <2>3, <2>4 DEF Forkless
  <2> QED BY <1>0, <1>1, <2>2, <2>5 DEF Elements
<1>4. /\ Len(recent_chain') = n + 1 /\ recent_chain'[n + 1] = h
      /\ \A i \in 1..n : recent_chain'[i] = recent_chain[i]
  BY <1>0, <1>1
<1>5. ASSUME NEW i \in 2..(n + 1) PROVE Parent[recent_chain'[i]] = recent_chain'[i - 1]
  <2>1. CASE i = n + 1
    <3>1. (n + 1) - 1 = n /\ n \in 1..n
      BY <1>0, <1>2, <1>3
    <3> QED BY <1>2, <1>3, <1>4, <2>1, <3>1
  <2>2. CASE i # n + 1
    <3>1. i \in 2..n /\ i \in 1..n /\ i - 1 \in 1..n
      BY <1>0, <2>2
    <3> QED BY <1>4, <3>1 DEF ChainContinuity
  <2> QED BY <2>1, <2>2
<1> QED BY <1>4, <1>5 DEF ChainContinuity

\* "Chain continuity (prev_blockhash matches)" is true of the chain as long as
\* the peers' headers do not fork and the file works: it takes a fork, or a lost
\* record, to break it.
THEOREM ContinuousWithoutForks ==
  ASSUME Forkless, DiskMayFail = FALSE, MaxReread = 0
  PROVE  HCSpec => []ChainContinuity
<1>1. HCInit => ChainContinuity
  <2> SUFFICES ASSUME HCInit PROVE ChainContinuity
    OBVIOUS
  <2>1. Len(recent_chain) = 1
    BY DEF HCInit
  <2> QED BY <2>1 DEF ChainContinuity
<1>2. (HCInv /\ HCReliable) /\ ChainContinuity /\ [HCNext]_hcVars => ChainContinuity'
  <2> SUFFICES ASSUME HCInv, HCReliable, ChainContinuity, [HCNext]_hcVars
               PROVE  ChainContinuity'
    OBVIOUS
  <2>1. CASE AcceptHeader
    BY <2>1, AcceptContinues
  <2>2. CASE HCRestart
    <3>1. LoadFrom(disk)
      BY <2>2, ReadableRestart DEF HCInv, HCTypeOK
    <3>2. recent_chain' = recent_chain
      BY <3>1 DEF LoadFrom, HCReliable, FileMirrors
    <3> QED BY <3>2 DEF ChainContinuity
  <2>3. ASSUME recent_chain' = recent_chain PROVE ChainContinuity'
    BY <2>3 DEF ChainContinuity
  <2> QED
    BY <2>1, <2>2, <2>3 DEF HCNext, ExtendStep, BeginExtend, SkipDuplicate, BreakOff,
                            hcVars, memVars
<1>3. HCSpec => [](HCInv /\ HCReliable)
  BY ReliableChainCorrect
<1> QED BY <1>1, <1>2, <1>3, PTL DEF HCSpec
=============================================================================
