-------------------------- MODULE ConnectionProofs --------------------------
(***************************************************************************)
(* Proofs about Connection, for messages of any kinds and lengths, any     *)
(* number of them and any number of rounds of the handshake.               *)
(*                                                                         *)
(* The difficulty is the byte stream: recv may be cancelled at any chunk,  *)
(* and what it returns next depends on where in a message it starts again. *)
(* The argument looks at the bytes that have not been returned or dropped, *)
(* read or not, and says what they are without counting from the start.    *)
(***************************************************************************)
EXTENDS Connection, TLAPS

-----------------------------------------------------------------------------
(* The inductive invariant *)

Chunk == Nat \X Nat

Size(kind) == HeaderChunks + Payload[kind]

\* R is what is left of the messages S, from some chunk on: the end of the
\* message that chunk is of, then the messages after it, each complete.
OfMessages(R, S) ==
    \A i \in 1..Len(R) : R[i][1] \in 1..Len(S) /\ R[i][2] \in 1..Size(S[R[i][1]])

Completed(R, S) ==
    \A i \in 1..Len(R) : \A m \in R[i][2]..Size(S[R[i][1]]) :
       /\ i + m - R[i][2] \in 1..Len(R)
       /\ R[i + m - R[i][2]] = <<R[i][1], m>>

Ascending(R) == \A i, j \in 1..Len(R) : i < j => R[i][1] <= R[j][1]

Spaced(R) ==
    \A i, j \in 1..Len(R) : R[i][1] = R[j][1] => j - i = R[j][2] - R[i][2]

Followed(R, S) ==
    \A i \in 1..Len(R) : R[i][2] = Size(S[R[i][1]]) =>
       IF i = Len(R) THEN R[i][1] = Len(S) ELSE R[i + 1] = <<R[i][1] + 1, 1>>

Wire(R, S) ==
    OfMessages(R, S) /\ Completed(R, S) /\ Ascending(R) /\ Spaced(R) /\ Followed(R, S)

Rest == buf \o stream

CNTypeOK ==
    /\ phase \in {"handshake", "open", "closed"}
    /\ sent \in Seq(Kinds)
    /\ stream \in Seq(Chunk) /\ buf \in Seq(Chunk)
    /\ need \in Int
    /\ received \in Seq(Nat)
    /\ rounds \in Nat

\* What the current recv knows of the frame it reads.
FrameSound ==
    /\ need = NoHeader => Len(buf) < HeaderChunks
    /\ need # NoHeader =>
         /\ need \in Nat /\ Len(buf) >= HeaderChunks
         /\ buf[1][2] = 1 => need = Payload[sent[buf[1][1]]]

\* What recv has returned is before all that is left.
ReceivedBefore ==
    /\ \A i \in 1..Len(received) : received[i] \in 1..Len(sent)
    /\ \A i, j \in 1..Len(received) : i < j => received[i] < received[j]
    /\ \A i \in 1..Len(received), j \in 1..Len(Rest) : received[i] < Rest[j][1]

\* In the handshake nothing is lost: the next message is the next one sent.
RoundsExact ==
    /\ rounds <= Len(received)
    /\ \A i \in 1..rounds : received[i] = i
    /\ phase = "handshake" =>
         /\ Len(received) = rounds /\ rounds < HANDSHAKE_MESSAGES
         /\ IF Rest = << >> THEN Len(sent) = rounds ELSE Rest[1] = <<rounds + 1, 1>>

CNInv ==
    CNTypeOK /\ Wire(Rest, sent) /\ FrameSound /\ ReceivedBefore /\ RoundsExact

-----------------------------------------------------------------------------
(* Byte streams *)

LEMMA SizePositive == \A kind \in Kinds : Size(kind) \in Nat \ {0} /\ Size(kind) >= HeaderChunks
BY ConnectionAssumption DEF Size

LEMMA ChunksOf ==
    ASSUME NEW n \in Nat, NEW kind \in Kinds
    PROVE  /\ Chunks(n, kind) \in Seq(Chunk)
           /\ Len(Chunks(n, kind)) = Size(kind)
           /\ \A i \in 1..Size(kind) : Chunks(n, kind)[i] = <<n, i>>
<1>1. Size(kind) \in Nat
  BY SizePositive
<1>2. Chunks(n, kind) = [i \in 1..Size(kind) |-> <<n, i>>]
  BY DEF Chunks, Size
<1>3. \A i \in 1..Size(kind) : <<n, i>> \in Chunk
  BY DEF Chunk
<1>4. Chunks(n, kind) \in [1..Size(kind) -> Chunk]
  BY <1>2, <1>3
<1>5. Chunks(n, kind) \in Seq(Chunk) /\ Len(Chunks(n, kind)) = Size(kind)
  BY <1>1, <1>4
<1> QED
  BY <1>2, <1>5

\* Q is R without its first d chunks.
Dropped(Q, R, d) ==
    /\ d \in Nat /\ Len(R) = Len(Q) + d
    /\ \A i \in 1..Len(Q) : Q[i] = R[i + d]

\* Dropping the first d chunks leaves a byte stream.
LEMMA WireSuffix ==
    ASSUME NEW S \in Seq(Kinds), NEW R \in Seq(Chunk), NEW Q \in Seq(Chunk), NEW d,
           Dropped(Q, R, d), Wire(R, S)
    PROVE  Wire(Q, S)
<1>0. d \in Nat /\ Len(R) = Len(Q) + d /\ Len(R) \in Nat /\ Len(Q) \in Nat
  BY DEF Dropped
<1>a. ASSUME NEW i \in 1..Len(Q)
      PROVE  i + d \in 1..Len(R) /\ Q[i] = R[i + d] /\ Q[i][1] \in Nat /\ Q[i][2] \in Nat
  <2>1. i + d \in 1..Len(R)
    BY <1>0
  <2>2. Q[i] = R[i + d]
    BY DEF Dropped
  <2>3. Q[i] \in Nat \X Nat
    BY DEF Chunk
  <2> QED
    BY <2>1, <2>2, <2>3
<1>1. OfMessages(Q, S)
  BY <1>a DEF Wire, OfMessages
<1>2. Completed(Q, S)
  <2> SUFFICES ASSUME NEW i \in 1..Len(Q), NEW m \in Q[i][2]..Size(S[Q[i][1]])
               PROVE  /\ i + m - Q[i][2] \in 1..Len(Q)
                      /\ Q[i + m - Q[i][2]] = <<Q[i][1], m>>
    BY DEF Completed
  <2>1. Q[i][2] \in Nat /\ Size(S[Q[i][1]]) \in Nat /\ m \in Nat /\ m >= Q[i][2]
    BY <1>1, SizePositive DEF OfMessages
  <2>2. /\ (i + d) + m - Q[i][2] \in 1..Len(R)
        /\ R[(i + d) + m - Q[i][2]] = <<Q[i][1], m>>
    BY <1>a DEF Wire, Completed
  <2>3. i + m - Q[i][2] \in 1..Len(Q)
    <3> DEFINE q == Q[i][2]
    <3>1. q \in Nat /\ m \in Nat /\ m >= q /\ (i + d) + m - q <= Len(R)
      BY <2>1, <2>2
    <3> HIDE DEF q
    <3>2. i + m - q \in 1..Len(Q)
      BY <1>0, <3>1
    <3> QED
      BY <3>2 DEF q
  <2>4. (i + m - Q[i][2]) + d = (i + d) + m - Q[i][2]
    BY <1>0, <2>1
  <2>5. Q[i + m - Q[i][2]] = R[(i + m - Q[i][2]) + d]
    BY <1>a, <2>3
  <2> QED
    BY <2>2, <2>3, <2>4, <2>5
<1>3. Ascending(Q)
  <2> SUFFICES ASSUME NEW i \in 1..Len(Q), NEW j \in 1..Len(Q), i < j
               PROVE  Q[i][1] <= Q[j][1]
    BY DEF Ascending
  <2>1. i + d < j + d /\ i + d \in 1..Len(R) /\ j + d \in 1..Len(R)
    BY <1>0
  <2>2. R[i + d][1] <= R[j + d][1]
    BY <2>1 DEF Wire, Ascending
  <2> QED
    BY <1>a, <2>2
<1>4. Spaced(Q)
  <2> SUFFICES ASSUME NEW i \in 1..Len(Q), NEW j \in 1..Len(Q), Q[i][1] = Q[j][1]
               PROVE  j - i = Q[j][2] - Q[i][2]
    BY DEF Spaced
  <2>1. /\ i + d \in 1..Len(R) /\ j + d \in 1..Len(R)
        /\ Q[i] = R[i + d] /\ Q[j] = R[j + d]
    BY <1>a
  <2>2. (j + d) - (i + d) = R[j + d][2] - R[i + d][2]
    BY <2>1 DEF Wire, Spaced
  <2>3. (j + d) - (i + d) = j - i
    BY <1>0
  <2> QED
    BY <2>1, <2>2, <2>3
<1>5. Followed(Q, S)
  <2> SUFFICES ASSUME NEW i \in 1..Len(Q), Q[i][2] = Size(S[Q[i][1]])
               PROVE  IF i = Len(Q) THEN Q[i][1] = Len(S) ELSE Q[i + 1] = <<Q[i][1] + 1, 1>>
    BY DEF Followed
  <2>1. IF i + d = Len(R) THEN R[i + d][1] = Len(S)
                          ELSE R[(i + d) + 1] = <<R[i + d][1] + 1, 1>>
    BY <1>a DEF Wire, Followed
  <2>2. i = Len(Q) <=> i + d = Len(R)
    BY <1>0
  <2>3. i # Len(Q) => i + 1 \in 1..Len(Q) /\ (i + 1) + d = (i + d) + 1
    BY <1>0
  <2>4. i # Len(Q) => Q[i + 1] = R[(i + d) + 1]
    BY <1>a, <2>3
  <2> QED
    BY <1>a, <2>1, <2>2, <2>4
<1> QED
  BY <1>1, <1>2, <1>3, <1>4, <1>5 DEF Wire

\* A message sent follows what is there.
LEMMA WireSend ==
    ASSUME NEW S \in Seq(Kinds), NEW R \in Seq(Chunk), Wire(R, S), NEW kind \in Kinds
    PROVE  Wire(R \o Chunks(Len(S) + 1, kind), Append(S, kind))
<1> DEFINE n == Len(S) + 1
           C == Chunks(n, kind)
           Q == R \o C
           T == Append(S, kind)
<1>0. n \in Nat \ {0}
  OBVIOUS
<1>1. C \in Seq(Chunk) /\ Len(C) = Size(kind) /\ Size(kind) \in Nat \ {0}
  BY <1>0, ChunksOf, SizePositive
<1>c. \A i \in 1..Size(kind) : C[i] = <<n, i>>
  BY <1>0, ChunksOf
<1>2. /\ T \in Seq(Kinds) /\ Len(T) = n /\ T[n] = kind
      /\ \A i \in 1..Len(S) : T[i] = S[i]
  OBVIOUS
<1> HIDE DEF C
<1>3. Len(Q) = Len(R) + Size(kind) /\ Len(R) \in Nat
  BY <1>1
<1>a. ASSUME NEW i \in 1..Len(R)
      PROVE  i \in 1..Len(Q) /\ Q[i] = R[i] /\ R[i][1] \in Nat /\ R[i][2] \in Nat
  <2>1. R[i] \in Nat \X Nat
    BY DEF Chunk
  <2>2. i \in 1..Len(Q)
    BY <1>1, <1>3
  <2>3. Q[i] = R[i]
    BY <1>1
  <2> QED
    BY <2>1, <2>2, <2>3
<1>b. ASSUME NEW i \in 1..Len(Q), i \notin 1..Len(R)
      PROVE  i - Len(R) \in 1..Size(kind) /\ Q[i] = <<n, i - Len(R)>>
  <2>1. i - Len(R) \in 1..Size(kind)
    BY <1>1, <1>3, <1>b
  <2>2. Q[i] = C[i - Len(R)]
    BY <1>1, <1>3, <1>b
  <2> QED
    BY <1>c, <2>1, <2>2
<1> HIDE DEF Q, T, n
<1>4. \A i \in 1..Len(R) : R[i][1] \in 1..Len(S) /\ T[R[i][1]] = S[R[i][1]] /\ R[i][1] < n
  BY <1>2 DEF Wire, OfMessages, n
<1>5. OfMessages(Q, T)
  <2> SUFFICES ASSUME NEW i \in 1..Len(Q)
               PROVE  Q[i][1] \in 1..Len(T) /\ Q[i][2] \in 1..Size(T[Q[i][1]])
    BY DEF OfMessages
  <2>1. CASE i \in 1..Len(R)
    <3>1. R[i][1] \in 1..Len(S) /\ R[i][2] \in 1..Size(S[R[i][1]])
      BY <2>1 DEF Wire, OfMessages
    <3> QED
      BY <1>2, <1>4, <1>a, <2>1, <3>1 DEF n
  <2>2. CASE i \notin 1..Len(R)
    <3>1. Q[i] = <<n, i - Len(R)>> /\ i - Len(R) \in 1..Size(kind)
      BY <1>b, <2>2
    <3> QED
      BY <1>0, <1>2, <3>1
  <2> QED
    BY <2>1, <2>2
<1>6. Completed(Q, T)
  <2> SUFFICES ASSUME NEW i \in 1..Len(Q), NEW m \in Q[i][2]..Size(T[Q[i][1]])
               PROVE  /\ i + m - Q[i][2] \in 1..Len(Q)
                      /\ Q[i + m - Q[i][2]] = <<Q[i][1], m>>
    BY DEF Completed
  <2>1. CASE i \in 1..Len(R)
    <3>1. m \in R[i][2]..Size(S[R[i][1]])
      BY <1>4, <1>a, <2>1
    <3>2. i + m - R[i][2] \in 1..Len(R) /\ R[i + m - R[i][2]] = <<R[i][1], m>>
      BY <2>1, <3>1 DEF Wire, Completed
    <3> QED
      BY <1>a, <2>1, <3>2
  <2>2. CASE i \notin 1..Len(R)
    <3>1. Q[i] = <<n, i - Len(R)>> /\ T[n] = kind /\ m \in (i - Len(R))..Size(kind)
      BY <1>2, <1>b, <2>2
    <3>2. i + m - (i - Len(R)) = Len(R) + m /\ m \in 1..Size(kind)
      BY <1>1, <1>3, <1>b, <2>2, <3>1
    <3>3. Len(R) + m \in 1..Len(Q) /\ Len(R) + m \notin 1..Len(R)
      BY <1>1, <1>3, <3>2
    <3>4. (Len(R) + m) - Len(R) = m
      BY <1>1, <1>3, <3>2
    <3> QED
      BY <1>b, <3>1, <3>2, <3>3, <3>4
  <2> QED
    BY <2>1, <2>2
<1>7. Ascending(Q)
  <2> SUFFICES ASSUME NEW i \in 1..Len(Q), NEW j \in 1..Len(Q), i < j
               PROVE  Q[i][1] <= Q[j][1]
    BY DEF Ascending
  <2>1. CASE i \in 1..Len(R) /\ j \in 1..Len(R)
    BY <1>a, <2>1 DEF Ascending, Wire
  <2>2. CASE i \in 1..Len(R) /\ j \notin 1..Len(R)
    <3>1. Q[i][1] \in Nat /\ Q[i][1] < n /\ Q[j][1] = n
      BY <1>4, <1>a, <1>b, <2>2
    <3> QED
      BY <1>0, <3>1
  <2>3. CASE i \notin 1..Len(R)
    <3>1. j \notin 1..Len(R)
      BY <1>3, <2>3
    <3> QED
      BY <1>0, <1>b, <2>3, <3>1
  <2> QED
    BY <2>1, <2>2, <2>3
<1>8. Spaced(Q)
  <2> SUFFICES ASSUME NEW i \in 1..Len(Q), NEW j \in 1..Len(Q), Q[i][1] = Q[j][1]
               PROVE  j - i = Q[j][2] - Q[i][2]
    BY DEF Spaced
  <2>1. CASE i \in 1..Len(R) /\ j \in 1..Len(R)
    BY <1>a, <2>1 DEF Spaced, Wire
  <2>2. CASE i \in 1..Len(R) /\ j \notin 1..Len(R)
    <3>1. Q[i][1] < n /\ Q[j][1] = n
      BY <1>4, <1>a, <1>b, <2>2
    <3> QED
      BY <1>0, <3>1
  <2>3. CASE i \notin 1..Len(R) /\ j \in 1..Len(R)
    <3>1. Q[j][1] < n /\ Q[i][1] = n
      BY <1>4, <1>a, <1>b, <2>3
    <3> QED
      BY <1>0, <3>1
  <2>4. CASE i \notin 1..Len(R) /\ j \notin 1..Len(R)
    BY <1>0, <1>3, <1>b, <2>4
  <2> QED
    BY <2>1, <2>2, <2>3, <2>4
<1>9. Followed(Q, T)
  <2> SUFFICES ASSUME NEW i \in 1..Len(Q), Q[i][2] = Size(T[Q[i][1]])
               PROVE  IF i = Len(Q) THEN Q[i][1] = Len(T) ELSE Q[i + 1] = <<Q[i][1] + 1, 1>>
    BY DEF Followed
  <2>1. CASE i \in 1..Len(R)
    <3>1. R[i][2] = Size(S[R[i][1]])
      BY <1>4, <1>a, <2>1
    <3>2. IF i = Len(R) THEN R[i][1] = Len(S) ELSE R[i + 1] = <<R[i][1] + 1, 1>>
      BY <2>1, <3>1 DEF Wire, Followed
    <3>3. i # Len(Q)
      BY <1>1, <1>3, <2>1
    <3>4. CASE i = Len(R)
      <4>1. i + 1 \in 1..Len(Q) /\ i + 1 \notin 1..Len(R) /\ (i + 1) - Len(R) = 1
        BY <1>1, <1>3, <3>4
      <4> QED
        BY <1>a, <1>b, <2>1, <3>2, <3>3, <3>4, <4>1 DEF n
    <3>5. CASE i # Len(R)
      <4>1. i + 1 \in 1..Len(R)
        BY <1>3, <2>1, <3>5
      <4> QED
        BY <1>a, <2>1, <3>2, <3>3, <3>5, <4>1
    <3> QED
      BY <3>4, <3>5
  <2>2. CASE i \notin 1..Len(R)
    <3>1. Q[i] = <<n, i - Len(R)>> /\ T[n] = kind
      BY <1>2, <1>b, <2>2
    <3>2. i = Len(Q)
      BY <1>1, <1>3, <3>1
    <3> QED
      BY <1>2, <3>1, <3>2
  <2> QED
    BY <2>1, <2>2
<1> QED
  BY <1>5, <1>6, <1>7, <1>8, <1>9 DEF Wire, Q, T, C, n

\* Reading a chunk moves the border between read and unread.
LEMMA ReadKeepsRest ==
    ASSUME NEW b \in Seq(Chunk), NEW s \in Seq(Chunk), s # << >>
    PROVE  Append(b, Head(s)) \o Tail(s) = b \o s
<1>1. Head(s) = s[1] /\ Len(Tail(s)) = Len(s) - 1 /\ Tail(s) \in Seq(Chunk) /\ Head(s) \in Chunk
      /\ \A i \in 1..Len(s) - 1 : Tail(s)[i] = s[i + 1]
  OBVIOUS
<1>2. Append(b, Head(s)) \in Seq(Chunk) /\ Len(Append(b, Head(s))) = Len(b) + 1
  BY <1>1
<1> DEFINE x == Append(b, Head(s)) \o Tail(s)
           y == b \o s
<1>3. x \in Seq(Chunk) /\ y \in Seq(Chunk)
  BY <1>1, <1>2
<1>4. Len(x) = Len(b) + Len(s) /\ Len(y) = Len(b) + Len(s)
  BY <1>1, <1>2
<1>5. \A i \in 1..Len(y) : x[i] = y[i]
  <2> TAKE i \in 1..Len(y)
  <2>1. CASE i <= Len(b)
    BY <1>1, <1>2, <1>4, <2>1
  <2>2. CASE i = Len(b) + 1
    BY <1>1, <1>2, <1>4, <2>2
  <2>3. CASE i > Len(b) + 1
    BY <1>1, <1>2, <1>4, <2>3
  <2> QED
    BY <1>4, <2>1, <2>2, <2>3
<1> QED
  BY <1>3, <1>4, <1>5

-----------------------------------------------------------------------------
(* The steps *)

\* What has not been returned or dropped yet, chunk by chunk.
LEMMA RestIs ==
    ASSUME CNTypeOK
    PROVE  /\ Rest \in Seq(Chunk) /\ Len(Rest) = Len(buf) + Len(stream)
           /\ \A i \in 1..Len(buf) : i \in 1..Len(Rest) /\ Rest[i] = buf[i]
           /\ Dropped(stream, Rest, Len(buf))
<1>1. buf \in Seq(Chunk) /\ stream \in Seq(Chunk)
  BY DEF CNTypeOK
<1>2. Rest \in Seq(Chunk) /\ Len(Rest) = Len(buf) + Len(stream)
  BY <1>1 DEF Rest
<1>3. \A i \in 1..Len(buf) : i \in 1..Len(Rest) /\ Rest[i] = buf[i]
  BY <1>1 DEF Rest
<1>4. ASSUME NEW i \in 1..Len(stream) PROVE stream[i] = Rest[i + Len(buf)]
  BY <1>1 DEF Rest
<1> QED
  BY <1>1, <1>2, <1>3, <1>4 DEF Dropped

LEMMA CNInitInv == CNInit => CNInv
<1> SUFFICES ASSUME CNInit PROVE CNInv
  OBVIOUS
<1>1. CNTypeOK
  BY DEF CNInit, CNTypeOK, NoHeader
<1>2. Rest = << >>
  BY DEF CNInit, Rest
<1>3. Wire(Rest, sent)
  BY <1>2 DEF Wire, OfMessages, Completed, Ascending, Spaced, Followed
<1>4. FrameSound
  BY ConnectionAssumption DEF CNInit, FrameSound
<1>5. ReceivedBefore /\ RoundsExact
  BY <1>2, ConnectionAssumption DEF CNInit, ReceivedBefore, RoundsExact
<1> QED
  BY <1>1, <1>3, <1>4, <1>5 DEF CNInv

\* Reading changes neither what is left nor what was received.
LEMMA ReadKeeps ==
    ASSUME CNInv, stream # << >>, buf' = Append(buf, Head(stream)), stream' = Tail(stream),
           UNCHANGED <<phase, sent, received, rounds>>, need' \in Int, FrameSound'
    PROVE  CNInv'
<1>1. buf \in Seq(Chunk) /\ stream \in Seq(Chunk)
  BY DEF CNInv, CNTypeOK
<1>2. buf' \in Seq(Chunk) /\ stream' \in Seq(Chunk)
  BY <1>1
<1>3. Rest' = Rest
  BY <1>1, ReadKeepsRest DEF Rest
<1>4. CNTypeOK'
  BY <1>2 DEF CNInv, CNTypeOK
<1>5. Wire(Rest, sent)'
  BY <1>3 DEF CNInv, Wire, OfMessages, Completed, Ascending, Spaced, Followed
<1>6. ReceivedBefore'
  BY <1>3 DEF CNInv, ReceivedBefore
<1>7. RoundsExact'
  BY <1>3 DEF CNInv, RoundsExact
<1> QED
  BY <1>4, <1>5, <1>6, <1>7 DEF CNInv

LEMMA ReadHeaderInv ==
    ASSUME CNInv, ReadHeader PROVE CNInv'
<1>1. buf \in Seq(Chunk) /\ stream \in Seq(Chunk) /\ stream # << >> /\ need \in Int
  BY DEF CNInv, CNTypeOK, ReadHeader
<1>2. Head(stream) \in Chunk
  BY <1>1
<1>3. buf' \in Seq(Chunk) /\ Len(buf') = Len(buf) + 1 /\ Len(buf) \in Nat
  BY <1>1, <1>2 DEF ReadHeader
<1>4. CASE Len(buf') < HeaderChunks
  <2>1. need' = NoHeader
    BY <1>4 DEF ReadHeader
  <2>2. FrameSound' /\ need' \in Int
    BY <1>4, <2>1 DEF FrameSound, NoHeader
  <2> QED
    BY <2>2, ReadKeeps DEF ReadHeader, hsVars
<1>5. CASE ~(Len(buf') < HeaderChunks)
  <2>1. Len(buf') >= HeaderChunks
    BY <1>3, <1>5, ConnectionAssumption
  <2>2. buf' # << >> /\ 1 \in 1..Len(buf')
    BY <1>3
  <2>3. CASE buf'[1][2] = 1
    <3>1. need' = Payload[sent[buf'[1][1]]]
      BY <1>5, <2>2, <2>3 DEF ReadHeader, Aligned
    <3>2. buf'[1] = Rest[1] /\ 1 \in 1..Len(Rest)
      <4>1. CASE Len(buf) = 0
        <5>1. Rest = stream
          BY <1>1, <4>1 DEF Rest
        <5>2. buf'[1] = Head(stream)
          BY <1>1, <1>2, <4>1 DEF ReadHeader
        <5> QED
          BY <1>1, <5>1, <5>2
      <4>2. CASE Len(buf) # 0
        <5>1. 1 \in 1..Len(buf)
          BY <1>3, <4>2
        <5>2. buf'[1] = buf[1]
          BY <1>1, <1>2, <5>1 DEF ReadHeader
        <5> QED
          BY <5>1, <5>2, RestIs DEF CNInv
      <4> QED
        BY <4>1, <4>2
    <3>3. sent[buf'[1][1]] \in Kinds
      <4>1. Rest[1][1] \in 1..Len(sent)
        BY <3>2 DEF CNInv, Wire, OfMessages
      <4> QED
        BY <3>2, <4>1 DEF CNInv, CNTypeOK
    <3>4. need' \in Nat
      BY <3>1, <3>3, ConnectionAssumption
    <3>5. FrameSound'
      BY <2>1, <3>1, <3>4 DEF FrameSound, NoHeader, ReadHeader
    <3> QED
      BY <3>4, <3>5, ReadKeeps DEF ReadHeader, hsVars
  <2>4. CASE buf'[1][2] # 1
    <3>1. need' \in 0..MaxGarbage
      BY <1>5, <2>4 DEF ReadHeader, Aligned
    <3>2. need' \in Nat
      BY <3>1, ConnectionAssumption
    <3>3. FrameSound'
      BY <2>1, <2>4, <3>2 DEF FrameSound, NoHeader
    <3> QED
      BY <3>2, <3>3, ReadKeeps DEF ReadHeader, hsVars
  <2> QED
    BY <2>3, <2>4
<1> QED
  BY <1>4, <1>5

LEMMA ReadPayloadInv ==
    ASSUME CNInv, ReadPayload PROVE CNInv'
<1>1. buf \in Seq(Chunk) /\ stream \in Seq(Chunk) /\ stream # << >> /\ need \in Int
  BY DEF CNInv, CNTypeOK, ReadPayload
<1>2. need \in Nat /\ Len(buf) >= HeaderChunks /\ need' = need /\ need # NoHeader
  BY DEF CNInv, FrameSound, ReadPayload
<1>3. Head(stream) \in Chunk /\ 1 \in 1..Len(buf)
  BY <1>1, <1>2, ConnectionAssumption
<1>4. Len(buf') = Len(buf) + 1 /\ buf'[1] = buf[1]
  BY <1>1, <1>3 DEF ReadPayload
<1>5. FrameSound'
  <2>1. Len(buf') >= HeaderChunks
    BY <1>1, <1>2, <1>4, ConnectionAssumption
  <2> QED
    BY <1>2, <1>4, <2>1 DEF CNInv, FrameSound, ReadPayload
<1> QED
  BY <1>1, <1>5, ReadKeeps DEF ReadPayload, hsVars

\* The peer sends: what is left grows by one message.
LEMMA PeerSendsInv ==
    ASSUME CNInv, NEW kind \in Kinds, PeerSends(kind) PROVE CNInv'
<1>1. /\ buf \in Seq(Chunk) /\ stream \in Seq(Chunk) /\ sent \in Seq(Kinds)
      /\ received \in Seq(Nat)
  BY DEF CNInv, CNTypeOK
<1> DEFINE n == Len(sent) + 1
           C == Chunks(n, kind)
<1>2. n \in Nat /\ C \in Seq(Chunk) /\ Len(C) = Size(kind) /\ Size(kind) \in Nat \ {0}
  BY <1>1, ChunksOf, SizePositive
<1>3. \A i \in 1..Len(C) : C[i] = <<n, i>>
  BY <1>1, ChunksOf
<1>4. sent' = Append(sent, kind) /\ stream' = stream \o C
  BY DEF PeerSends
<1> HIDE DEF C
<1>5. sent' \in Seq(Kinds) /\ Len(sent') = n /\ \A i \in 1..Len(sent) : sent'[i] = sent[i]
  BY <1>1, <1>4
<1>6. UNCHANGED <<phase, buf, need, received, rounds>>
  BY DEF PeerSends, recvVars, hsVars
<1>7. CNTypeOK'
  BY <1>1, <1>2, <1>4, <1>5, <1>6 DEF CNInv, CNTypeOK
<1>8. Rest' = Rest \o C
  BY <1>1, <1>2, <1>4, <1>6 DEF Rest
<1>9. Rest \in Seq(Chunk)
  BY RestIs DEF CNInv
<1>10. Wire(Rest, sent)'
  <2>1. Wire(Rest \o C, Append(sent, kind))
    BY <1>1, <1>9, WireSend DEF CNInv, C
  <2> QED
    BY <1>4, <1>8, <2>1 DEF Wire, OfMessages, Completed, Ascending, Spaced, Followed
<1>11. FrameSound'
  <2>1. buf # << >> => buf[1][1] \in 1..Len(sent)
    <3>1. buf # << >> => 1 \in 1..Len(buf)
      BY <1>1
    <3> QED
      BY <3>1, RestIs DEF CNInv, Wire, OfMessages
  <2>2. need # NoHeader => buf # << >>
    BY <1>1, ConnectionAssumption DEF CNInv, FrameSound
  <2> QED
    BY <1>5, <1>6, <2>1, <2>2 DEF CNInv, FrameSound
<1>12. ASSUME NEW j \in 1..Len(Rest')
       PROVE  (j \in 1..Len(Rest) /\ Rest'[j] = Rest[j]) \/ Rest'[j][1] = n
  <2>1. CASE j \in 1..Len(Rest)
    BY <1>2, <1>8, <1>9, <2>1
  <2>2. CASE j \notin 1..Len(Rest)
    <3>1. j - Len(Rest) \in 1..Len(C) /\ Rest'[j] = C[j - Len(Rest)]
      BY <1>2, <1>8, <1>9, <2>2
    <3> QED
      BY <1>3, <3>1
  <2> QED
    BY <2>1, <2>2
<1>13. ReceivedBefore'
  <2>1. \A i \in 1..Len(received) : received[i] \in 1..Len(sent) /\ received[i] < n /\ received[i] \in 1..n
    BY <1>1 DEF CNInv, ReceivedBefore
  <2>2. \A i \in 1..Len(received'), j \in 1..Len(Rest') : received'[i] < Rest'[j][1]
    BY <1>6, <1>12, <2>1 DEF CNInv, ReceivedBefore
  <2> QED
    BY <1>5, <1>6, <2>1, <2>2 DEF CNInv, ReceivedBefore
<1>14. RoundsExact'
  <2>1. Rest' # << >>
    BY <1>2, <1>8, <1>9
  <2>2. CASE Rest = << >>
    <3>1. Rest'[1] = C[1] /\ 1 \in 1..Len(C)
      BY <1>2, <1>8, <1>9, <2>2
    <3>2. Rest'[1] = <<n, 1>>
      BY <1>3, <3>1
    <3> QED
      BY <1>6, <2>1, <2>2, <3>2 DEF CNInv, RoundsExact
  <2>3. CASE Rest # << >>
    <3>1. Rest'[1] = Rest[1]
      BY <1>2, <1>8, <1>9, <2>3
    <3> QED
      BY <1>6, <2>1, <2>3, <3>1 DEF CNInv, RoundsExact
  <2> QED
    BY <2>2, <2>3
<1> QED
  BY <1>7, <1>10, <1>11, <1>13, <1>14 DEF CNInv

\* The end of a recv, by a result or by a timeout: the next one starts with what
\* has not been read.
LEMMA BufEmptied ==
    ASSUME CNInv, buf' = << >>, need' = NoHeader, UNCHANGED <<sent, stream>>
    PROVE  /\ Rest' = stream /\ Wire(Rest, sent)' /\ FrameSound'
           /\ \A j \in 1..Len(stream) :
                 j + Len(buf) \in 1..Len(Rest) /\ stream[j] = Rest[j + Len(buf)]
<1>1. /\ stream \in Seq(Chunk) /\ sent \in Seq(Kinds) /\ Rest \in Seq(Chunk)
      /\ Dropped(stream, Rest, Len(buf)) /\ Wire(Rest, sent)
  BY RestIs DEF CNInv, CNTypeOK
<1>2. Rest' = stream
  BY <1>1 DEF Rest
<1>3. Wire(stream, sent)
  BY <1>1, WireSuffix
<1>4. Wire(Rest, sent)'
  BY <1>2, <1>3 DEF Wire, OfMessages, Completed, Ascending, Spaced, Followed
<1>5. FrameSound'
  BY ConnectionAssumption DEF FrameSound
<1>6. Len(buf) \in Nat /\ Len(Rest) = Len(stream) + Len(buf)
  BY <1>1 DEF Dropped
<1>7. ASSUME NEW j \in 1..Len(stream)
      PROVE  j + Len(buf) \in 1..Len(Rest) /\ stream[j] = Rest[j + Len(buf)]
  <2>1. j + Len(buf) \in 1..Len(Rest)
    BY <1>1, <1>6
  <2> QED
    BY <1>1, <2>1 DEF Dropped
<1> QED
  BY <1>2, <1>4, <1>5, <1>7

LEMMA LoopTimeoutInv ==
    ASSUME CNInv, LoopTimeout PROVE CNInv'
<1>1. /\ Rest' = stream /\ Wire(Rest, sent)' /\ FrameSound'
      /\ \A j \in 1..Len(stream) :
            j + Len(buf) \in 1..Len(Rest) /\ stream[j] = Rest[j + Len(buf)]
  BY BufEmptied DEF LoopTimeout
<1>2. CNTypeOK'
  BY DEF CNInv, CNTypeOK, LoopTimeout, hsVars, NoHeader
<1>3. ReceivedBefore'
  BY <1>1 DEF CNInv, ReceivedBefore, LoopTimeout
<1>4. RoundsExact'
  BY DEF CNInv, RoundsExact, LoopTimeout, hsVars
<1> QED
  BY <1>1, <1>2, <1>3, <1>4 DEF CNInv

\* A frame that starts where a message starts is that message, and the next frame
\* starts where the next message starts.
LEMMA FrameIsMessage ==
    ASSUME CNInv, FrameRead, Aligned
    PROVE  LET n == buf[1][1]
           IN /\ n \in 1..Len(sent) /\ 1 \in 1..Len(Rest) /\ Rest[1] = <<n, 1>>
              /\ \A j \in 1..Len(Rest) : j > Len(buf) => n < Rest[j][1]
              /\ IF stream = << >> THEN Len(sent) = n
                                   ELSE Rest[Len(buf) + 1] = <<n + 1, 1>>
<1> DEFINE n == buf[1][1]
           L == Len(buf)
<1>1. buf \in Seq(Chunk) /\ stream \in Seq(Chunk) /\ sent \in Seq(Kinds) /\ buf # << >>
  BY DEF CNInv, CNTypeOK, Aligned
<1>2. L \in Nat /\ 1 \in 1..L /\ buf[1][2] = 1 /\ buf[1] \in Nat \X Nat
  BY <1>1 DEF Aligned, Chunk
<1>3. buf[1] = <<n, 1>> /\ n \in Nat
  BY <1>2
<1>4. /\ Rest \in Seq(Chunk) /\ Len(Rest) = L + Len(stream)
      /\ 1 \in 1..Len(Rest) /\ Rest[1] = <<n, 1>>
  BY <1>2, <1>3, RestIs DEF CNInv
<1>5. n \in 1..Len(sent)
  BY <1>3, <1>4 DEF CNInv, Wire, OfMessages
<1>6. L = Size(sent[n]) /\ L \in 1..L
  <2>1. need = Payload[sent[n]]
    BY <1>2 DEF CNInv, FrameSound, FrameRead
  <2> QED
    BY <1>2, <2>1 DEF FrameRead, Size
<1>7. L \in 1..Len(Rest) /\ Rest[L] = <<n, L>>
  <2>1. 1 + L - 1 = L /\ L \in 1..Size(sent[n])
    BY <1>2, <1>6
  <2>2. 1 + L - 1 \in 1..Len(Rest) /\ Rest[1 + L - 1] = <<n, L>>
    BY <1>3, <1>4, <2>1 DEF CNInv, Wire, Completed
  <2> QED
    BY <2>1, <2>2
<1> HIDE DEF n, L
<1>8. ASSUME NEW j \in 1..Len(Rest), j > L PROVE n < Rest[j][1]
  <2>1. /\ Rest[j][1] \in Nat /\ Rest[j][2] \in Nat
        /\ Rest[j][2] \in 1..Size(sent[Rest[j][1]])
    <3>1. Rest[j] \in Nat \X Nat
      BY <1>4 DEF Chunk
    <3> QED
      BY <3>1 DEF CNInv, Wire, OfMessages
  <2>2. Rest[1][1] <= Rest[j][1]
    BY <1>2, <1>4, <1>8 DEF CNInv, Wire, Ascending
  <2>3. ASSUME Rest[j][1] = n PROVE FALSE
    <3>1. j - 1 = Rest[j][2] - Rest[1][2]
      BY <1>4, <2>3 DEF CNInv, Wire, Spaced
    <3>2. Rest[j][2] = j
      BY <1>4, <2>1, <3>1
    <3> QED
      BY <1>2, <1>6, <1>8, <2>1, <2>3, <3>2
  <2> QED
    BY <1>3, <1>4, <2>1, <2>2, <2>3
<1>9. IF L = Len(Rest) THEN n = Len(sent) ELSE Rest[L + 1] = <<n + 1, 1>>
  BY <1>6, <1>7 DEF CNInv, Wire, Followed
<1>10. stream = << >> <=> L = Len(Rest)
  BY <1>1, <1>2, <1>4
<1> QED
  BY <1>4, <1>5, <1>8, <1>9, <1>10 DEF n, L

\* recv returns: all but the handshake's own count.
LEMMA RecvReturnsKeeps ==
    ASSUME CNInv, RecvReturns, UNCHANGED <<sent, stream>>,
           phase' \in {"handshake", "open", "closed"}, rounds' \in Nat
    PROVE  /\ CNTypeOK' /\ Wire(Rest, sent)' /\ FrameSound' /\ ReceivedBefore'
           /\ received' = Append(received, buf[1][1]) /\ buf[1][1] \in 1..Len(sent)
           /\ phase = "handshake" =>
                /\ buf[1][1] = rounds + 1
                /\ IF Rest' = << >> THEN Len(sent) = rounds + 1
                                    ELSE Rest'[1] = <<rounds + 2, 1>>
<1> DEFINE n == buf[1][1]
<1>1. /\ Rest' = stream /\ Wire(Rest, sent)' /\ FrameSound'
      /\ \A j \in 1..Len(stream) :
            j + Len(buf) \in 1..Len(Rest) /\ stream[j] = Rest[j + Len(buf)]
  BY BufEmptied DEF RecvReturns
<1>2. /\ n \in 1..Len(sent) /\ 1 \in 1..Len(Rest) /\ Rest[1] = <<n, 1>>
      /\ \A j \in 1..Len(Rest) : j > Len(buf) => n < Rest[j][1]
      /\ IF stream = << >> THEN Len(sent) = n ELSE Rest[Len(buf) + 1] = <<n + 1, 1>>
  BY FrameIsMessage DEF RecvReturns
<1>3. /\ sent \in Seq(Kinds) /\ received \in Seq(Nat) /\ stream \in Seq(Chunk)
      /\ buf \in Seq(Chunk) /\ rounds \in Nat
  BY DEF CNInv, CNTypeOK
<1>4. n \in Nat /\ received' = Append(received, n) /\ buf' = << >> /\ need' = NoHeader
  BY <1>2, <1>3 DEF RecvReturns
<1> HIDE DEF n
<1>5. CNTypeOK'
  BY <1>3, <1>4 DEF CNInv, CNTypeOK, NoHeader
<1>6. /\ Len(received') = Len(received) + 1 /\ Len(received) \in Nat
      /\ received'[Len(received) + 1] = n
      /\ \A i \in 1..Len(received) : received'[i] = received[i] /\ received[i] \in Nat
  BY <1>3, <1>4
<1>7. \A i \in 1..Len(received) : received[i] < n
  BY <1>2 DEF CNInv, ReceivedBefore
<1>8. \A i \in 1..Len(received') : i \in 1..Len(received) \/ i = Len(received) + 1
  BY <1>6
<1>9. ReceivedBefore'
  <2>1. \A i \in 1..Len(received') : received'[i] \in 1..Len(sent')
    BY <1>2, <1>6, <1>8 DEF CNInv, ReceivedBefore
  <2>2. ASSUME NEW i \in 1..Len(received'), NEW j \in 1..Len(received'), i < j
        PROVE  received'[i] < received'[j]
    <3>1. i \in 1..Len(received)
      BY <1>6, <2>2
    <3>2. CASE j \in 1..Len(received)
      BY <1>6, <2>2, <3>1, <3>2 DEF CNInv, ReceivedBefore
    <3>3. CASE j = Len(received) + 1
      BY <1>6, <1>7, <3>1, <3>3
    <3> QED
      BY <1>8, <3>2, <3>3
  <2>3. ASSUME NEW i \in 1..Len(received'), NEW j \in 1..Len(stream)
        PROVE  received'[i] < stream[j][1]
    <3>1. stream[j] = Rest[j + Len(buf)] /\ j + Len(buf) \in 1..Len(Rest) /\ j + Len(buf) > Len(buf)
      BY <1>1, <1>3
    <3>2. n < stream[j][1]
      BY <1>2, <3>1
    <3>3. CASE i \in 1..Len(received)
      BY <1>6, <3>1, <3>3 DEF CNInv, ReceivedBefore
    <3>4. CASE i = Len(received) + 1
      BY <1>6, <3>2, <3>4
    <3> QED
      BY <1>8, <3>3, <3>4
  <2> QED
    BY <1>1, <2>1, <2>2, <2>3 DEF ReceivedBefore
<1>10. ASSUME phase = "handshake"
       PROVE  /\ n = rounds + 1
              /\ IF Rest' = << >> THEN Len(sent) = rounds + 1
                                  ELSE Rest'[1] = <<rounds + 2, 1>>
  <2>1. Rest # << >>
    BY <1>2
  <2>2. Rest[1] = <<rounds + 1, 1>>
    BY <1>10, <2>1 DEF CNInv, RoundsExact
  <2>3. n = rounds + 1
    BY <1>2, <1>3, <2>2
  <2>4. stream # << >> => stream[1] = Rest[Len(buf) + 1]
    <3>1. stream # << >> => 1 \in 1..Len(stream)
      BY <1>3
    <3>2. 1 + Len(buf) = Len(buf) + 1
      BY <1>3
    <3> QED
      BY <1>1, <3>1, <3>2
  <2>5. n + 1 = rounds + 2
    BY <1>3, <2>3
  <2> QED
    BY <1>1, <1>2, <2>3, <2>4, <2>5
<1> QED
  BY <1>1, <1>2, <1>4, <1>5, <1>9, <1>10 DEF n

\* A round of the handshake, and one that ends in a failed send.
LEMMA RoundKeeps ==
    ASSUME CNInv, phase = "handshake", RecvReturns, UNCHANGED <<sent, stream>>,
           NextRound \/ Close
    PROVE  CNInv'
<1>1. rounds \in Nat /\ received \in Seq(Nat)
  BY DEF CNInv, CNTypeOK
<1>2. /\ phase' \in {"handshake", "open", "closed"}
      /\ rounds' = rounds + 1 \/ (rounds' = rounds /\ phase' = "closed")
  BY DEF NextRound, Close, hsVars
<1>3. rounds' \in Nat
  BY <1>1, <1>2
<1>4. /\ CNTypeOK' /\ Wire(Rest, sent)' /\ FrameSound' /\ ReceivedBefore'
      /\ received' = Append(received, rounds + 1)
      /\ IF Rest' = << >> THEN Len(sent) = rounds + 1 ELSE Rest'[1] = <<rounds + 2, 1>>
  BY <1>2, <1>3, RecvReturnsKeeps
<1>5. Len(received) = rounds /\ \A i \in 1..rounds : received[i] = i
  BY DEF CNInv, RoundsExact
<1>6. /\ Len(received') = rounds + 1 /\ received'[rounds + 1] = rounds + 1
      /\ \A i \in 1..rounds : received'[i] = i
  BY <1>1, <1>4, <1>5
<1>7. CASE rounds' = rounds /\ phase' = "closed"
  BY <1>1, <1>4, <1>6, <1>7 DEF CNInv, RoundsExact
<1>8. CASE rounds' = rounds + 1
  <2>1. \A i \in 1..rounds' : received'[i] = i
    <3> TAKE i \in 1..rounds'
    <3>1. i \in 1..rounds \/ i = rounds + 1
      BY <1>1, <1>8
    <3> QED
      BY <1>6, <3>1
  <2>2. phase' = "handshake" => NextRound
    BY DEF Close
  <2>3. phase' = "handshake" => rounds' < HANDSHAKE_MESSAGES
    BY <1>8, <2>2 DEF NextRound
  <2>4. rounds' + 1 = rounds + 2
    BY <1>1, <1>8
  <2>5. RoundsExact'
    BY <1>1, <1>4, <1>6, <1>8, <2>1, <2>3, <2>4 DEF RoundsExact
  <2> QED
    BY <1>4, <2>5 DEF CNInv
<1> QED
  BY <1>2, <1>7, <1>8

LEMMA RecvMessageInv ==
    ASSUME CNInv, RecvMessage PROVE CNInv'
<1>1. /\ rounds \in Nat /\ received \in Seq(Nat) /\ RecvReturns
      /\ UNCHANGED <<phase, sent, stream, rounds>> /\ phase = "open"
  BY DEF CNInv, CNTypeOK, RecvMessage, hsVars
<1>2. /\ CNTypeOK' /\ Wire(Rest, sent)' /\ FrameSound' /\ ReceivedBefore'
      /\ received' = Append(received, buf[1][1])
  BY <1>1, RecvReturnsKeeps DEF CNInv, CNTypeOK
<1>3. buf[1][1] \in Nat
  BY <1>1, RecvReturnsKeeps DEF CNInv, CNTypeOK
<1>4. RoundsExact'
  BY <1>1, <1>2, <1>3 DEF CNInv, RoundsExact
<1> QED
  BY <1>2, <1>4 DEF CNInv

\* The connection is closed with nothing else changed.
LEMMA ClosedKeeps ==
    ASSUME CNInv, phase' = "closed",
           UNCHANGED <<sent, stream, recvVars, received, out, hsVars>>
    PROVE  CNInv'
BY DEF CNInv, CNTypeOK, Rest, Wire, OfMessages, Completed, Ascending, Spaced, Followed,
       FrameSound, ReceivedBefore, RoundsExact, recvVars, hsVars

LEMMA CNNextInv == CNInv /\ [CNNext]_cnVars => CNInv'
<1> SUFFICES ASSUME CNInv, [CNNext]_cnVars PROVE CNInv'
  OBVIOUS
<1>1. ASSUME NEW kind \in Kinds, PeerSends(kind) PROVE CNInv'
  BY <1>1, PeerSendsInv
<1>2. CASE PeerCloses \/ RecvError \/ HandshakeTimeout
  BY <1>2, ClosedKeeps DEF PeerCloses, RecvError, HandshakeTimeout
<1>3. CASE ReadHeader
  BY <1>3, ReadHeaderInv
<1>4. CASE ReadPayload
  BY <1>4, ReadPayloadInv
<1>5. CASE RecvVersion \/ RecvVerack \/ RecvOther
  <2>1. /\ phase = "handshake" /\ RecvReturns /\ UNCHANGED <<sent, stream>>
        /\ NextRound \/ Close
    BY <1>5 DEF RecvVersion, RecvVerack, RecvOther
  <2> QED
    BY <2>1, RoundKeeps
<1>6. CASE LoopTimeout
  BY <1>6, LoopTimeoutInv
<1>7. CASE RecvMessage
  BY <1>7, RecvMessageInv
<1>8. CASE UNCHANGED cnVars
  BY <1>8
  DEF cnVars, CNInv, CNTypeOK, Rest, Wire, OfMessages, Completed, Ascending, Spaced,
      Followed, FrameSound, ReceivedBefore, RoundsExact, recvVars, hsVars
<1> QED
  BY <1>1, <1>2, <1>3, <1>4, <1>5, <1>6, <1>7, <1>8 DEF CNNext, Recv, Handshake

-----------------------------------------------------------------------------
(* What is said and heard in the handshake *)

Hellos == {"version", "oldversion"}

\* What the node sends in a handshake.
Words == {"version", "wtxidrelay", "verack", "sendheaders", "sendcmpct", "getaddr"}

Heard(S) == \E i \in 1..Len(received) : sent[received[i]] \in S

Says(o, m) == \E i \in 1..Len(o) : o[i] = m

\* WtxidRelay at most once, with a Verack after it.
RelaySound(o) ==
    /\ \A i, j \in 1..Len(o) : o[i] = "wtxidrelay" /\ o[j] = "wtxidrelay" => i = j
    /\ \A i \in 1..Len(o) : o[i] = "wtxidrelay" =>
          \E j \in 1..Len(o) : i < j /\ o[j] = "verack"

HandshakeSound ==
    /\ ~Says(out, "getaddr")
    /\ ~wtxidrelay_sent => ~Says(out, "wtxidrelay")
    /\ RelaySound(out)
    /\ got_version => Heard(Hellos) /\ Says(out, "verack")
    /\ got_verack => Heard({"verack"})
    /\ ~(got_version /\ got_verack)

NegotiationInv ==
    /\ out \in Seq(Words)
    /\ wtxidrelay_sent \in BOOLEAN /\ sendheaders_sent \in BOOLEAN
    /\ got_version \in BOOLEAN /\ got_verack \in BOOLEAN
    /\ phase = "handshake" => HandshakeSound
    /\ NegotiatedBothWays

LEMMA ConcatAt ==
    ASSUME NEW s \in Seq(Words), NEW t \in Seq(Words)
    PROVE  /\ s \o t \in Seq(Words) /\ Len(s \o t) = Len(s) + Len(t)
           /\ \A i \in 1..Len(s) : i \in 1..Len(s \o t) /\ (s \o t)[i] = s[i]
           /\ \A i \in 1..Len(t) :
                 Len(s) + i \in 1..Len(s \o t) /\ (s \o t)[Len(s) + i] = t[i]
           /\ \A i \in 1..Len(s \o t) :
                 i \in 1..Len(s) \/ \E k \in 1..Len(t) : i = Len(s) + k
<1>1. s \o t \in Seq(Words) /\ Len(s \o t) = Len(s) + Len(t)
  OBVIOUS
<1>2. ASSUME NEW i \in 1..Len(s) PROVE i \in 1..Len(s \o t) /\ (s \o t)[i] = s[i]
  OBVIOUS
<1>3. ASSUME NEW i \in 1..Len(t)
      PROVE  Len(s) + i \in 1..Len(s \o t) /\ (s \o t)[Len(s) + i] = t[i]
  OBVIOUS
<1>4. ASSUME NEW i \in 1..Len(s \o t), i \notin 1..Len(s)
      PROVE  \E k \in 1..Len(t) : i = Len(s) + k
  <2>1. i - Len(s) \in 1..Len(t) /\ i = Len(s) + (i - Len(s))
    BY <1>1, <1>4
  <2> QED
    BY <2>1
<1> QED
  BY <1>1, <1>2, <1>3, <1>4

LEMMA ConcatSays ==
    ASSUME NEW s \in Seq(Words), NEW t \in Seq(Words), NEW m
    PROVE  Says(s \o t, m) <=> Says(s, m) \/ Says(t, m)
<1> DEFINE q == s \o t
<1>1. /\ \A i \in 1..Len(s) : i \in 1..Len(q) /\ q[i] = s[i]
      /\ \A i \in 1..Len(t) : Len(s) + i \in 1..Len(q) /\ q[Len(s) + i] = t[i]
      /\ \A i \in 1..Len(q) : i \in 1..Len(s) \/ \E k \in 1..Len(t) : i = Len(s) + k
  BY ConcatAt
<1> HIDE DEF q
<1>2. ASSUME Says(q, m) PROVE Says(s, m) \/ Says(t, m)
  BY <1>1, <1>2 DEF Says
<1>3. ASSUME Says(s, m) PROVE Says(q, m)
  BY <1>1, <1>3 DEF Says
<1>4. ASSUME Says(t, m) PROVE Says(q, m)
  BY <1>1, <1>4 DEF Says
<1> QED
  BY <1>2, <1>3, <1>4 DEF q

LEMMA ConcatRelay ==
    ASSUME NEW s \in Seq(Words), NEW t \in Seq(Words), RelaySound(s), RelaySound(t),
           ~(Says(s, "wtxidrelay") /\ Says(t, "wtxidrelay"))
    PROVE  RelaySound(s \o t)
<1> DEFINE q == s \o t
           w == "wtxidrelay"
<1>0. Len(s) \in Nat /\ Len(t) \in Nat
  OBVIOUS
<1>1. /\ \A i \in 1..Len(s) : i \in 1..Len(q) /\ q[i] = s[i]
      /\ \A i \in 1..Len(t) : Len(s) + i \in 1..Len(q) /\ q[Len(s) + i] = t[i]
      /\ \A i \in 1..Len(q) : i \in 1..Len(s) \/ \E k \in 1..Len(t) : i = Len(s) + k
  BY ConcatAt
<1> HIDE DEF q
<1>2. ASSUME NEW i \in 1..Len(q), NEW j \in 1..Len(q), q[i] = w, q[j] = w PROVE i = j
  <2>1. CASE i \in 1..Len(s) /\ j \in 1..Len(s)
    BY <1>1, <1>2, <2>1 DEF RelaySound
  <2>2. CASE i \in 1..Len(s) /\ j \notin 1..Len(s)
    BY <1>1, <1>2, <2>2 DEF Says
  <2>3. CASE i \notin 1..Len(s) /\ j \in 1..Len(s)
    BY <1>1, <1>2, <2>3 DEF Says
  <2>4. CASE i \notin 1..Len(s) /\ j \notin 1..Len(s)
    <3> PICK k \in 1..Len(t), l \in 1..Len(t) : i = Len(s) + k /\ j = Len(s) + l
      BY <1>1, <2>4
    <3>1. t[k] = w /\ t[l] = w
      BY <1>1, <1>2
    <3> QED
      BY <3>1 DEF RelaySound
  <2> QED
    BY <2>1, <2>2, <2>3, <2>4
<1>3. ASSUME NEW i \in 1..Len(q), q[i] = w
      PROVE  \E j \in 1..Len(q) : i < j /\ q[j] = "verack"
  <2>1. CASE i \in 1..Len(s)
    <3> PICK j \in 1..Len(s) : i < j /\ s[j] = "verack"
      BY <1>1, <1>3, <2>1 DEF RelaySound
    <3> QED
      BY <1>1
  <2>2. CASE i \notin 1..Len(s)
    <3> PICK k \in 1..Len(t) : i = Len(s) + k
      BY <1>1, <2>2
    <3>1. t[k] = w
      BY <1>1, <1>3
    <3> PICK j \in 1..Len(t) : k < j /\ t[j] = "verack"
      BY <3>1 DEF RelaySound
    <3>2. i < Len(s) + j /\ Len(s) + j \in 1..Len(q) /\ q[Len(s) + j] = "verack"
      BY <1>0, <1>1
    <3> QED
      BY <3>2
  <2> QED
    BY <2>1, <2>2
<1> QED
  BY <1>2, <1>3 DEF RelaySound, q

\* What NegotiatedBothWays says of the messages sent.
SaidSound(o) ==
    LET at(m) == {i \in 1..Len(o) : o[i] = m}
    IN /\ at("getaddr") = {Len(o)}
       /\ at("verack") # {}
       /\ \A i, j \in at("wtxidrelay") : i = j
       /\ \A i \in at("wtxidrelay") : \E j \in at("verack") : i < j

LEMMA NegotiatedMeans ==
    NegotiatedBothWays <=>
        (phase = "open" => /\ Heard(Hellos) /\ Heard({"verack"})
                           /\ rounds <= HANDSHAKE_MESSAGES /\ SaidSound(out))
BY DEF NegotiatedBothWays, Heard, Hellos, SaidSound

LEMMA NegotiatedMeansNext ==
    NegotiatedBothWays' <=>
        (phase' = "open" => /\ Heard(Hellos)' /\ Heard({"verack"})'
                            /\ rounds' <= HANDSHAKE_MESSAGES /\ SaidSound(out'))
BY DEF NegotiatedBothWays, Heard, Hellos, SaidSound

\* The messages that an answer consists of.
LEMMA OneWord ==
    ASSUME NEW a \in Words
    PROVE  <<a>> \in Seq(Words) /\ Len(<<a>>) = 1 /\ <<a>>[1] = a /\ << >> \o <<a>> = <<a>>
OBVIOUS

LEMMA TwoWords ==
    ASSUME NEW a \in Words, NEW b \in Words
    PROVE  /\ <<a, b>> \in Seq(Words) /\ Len(<<a, b>>) = 2
           /\ <<a, b>>[1] = a /\ <<a, b>>[2] = b
           /\ <<a>> \o <<b>> = <<a, b>>
<1>1. <<a, b>> \in Seq(Words) /\ Len(<<a, b>>) = 2 /\ <<a, b>>[1] = a /\ <<a, b>>[2] = b
  OBVIOUS
<1>2. <<a>> \in Seq(Words) /\ <<b>> \in Seq(Words) /\ Len(<<a>>) = 1 /\ Len(<<b>>) = 1
  OBVIOUS
<1> DEFINE x == <<a>> \o <<b>>
           y == <<a, b>>
<1>3. x \in Seq(Words) /\ Len(x) = 2
  BY <1>2
<1>4. x[1] = y[1] /\ x[2] = y[2]
  BY <1>2
<1>5. y \in Seq(Words) /\ Len(y) = 2
  BY <1>1
<1> HIDE DEF x, y
<1>6. \A i \in 1..2 : x[i] = y[i]
  BY <1>4
<1>7. x = y
  BY <1>3, <1>5, <1>6
<1> QED
  BY <1>1, <1>7 DEF x, y

LEMMA SaysOne ==
    ASSUME NEW a \in Words
    PROVE  <<a>> \in Seq(Words) /\ \A m : Says(<<a>>, m) <=> m = a
<1> DEFINE o == <<a>>
<1>1. o \in Seq(Words) /\ Len(o) = 1 /\ o[1] = a
  BY OneWord
<1> HIDE DEF o
<1>2. \A m : Says(o, m) <=> m = a
  BY <1>1 DEF Says
<1> QED
  BY <1>1, <1>2 DEF o

LEMMA SaysTwo ==
    ASSUME NEW a \in Words, NEW b \in Words
    PROVE  <<a, b>> \in Seq(Words) /\ \A m : Says(<<a, b>>, m) <=> m = a \/ m = b
<1> DEFINE o == <<a, b>>
<1>1. o \in Seq(Words) /\ Len(o) = 2 /\ o[1] = a /\ o[2] = b
  BY TwoWords
<1> HIDE DEF o
<1>2. \A m : Says(o, m) <=> m = a \/ m = b
  BY <1>1 DEF Says
<1> QED
  BY <1>1, <1>2 DEF o

\* GetAddr at the end completes what was said.
LEMMA GetAddrLast ==
    ASSUME NEW o \in Seq(Words), ~Says(o, "getaddr"), Says(o, "verack"), RelaySound(o)
    PROVE  o \o <<"getaddr">> \in Seq(Words) /\ SaidSound(o \o <<"getaddr">>)
<1> DEFINE g == <<"getaddr">>
           q == o \o g
<1>1. g \in Seq(Words) /\ Len(g) = 1 /\ g[1] = "getaddr"
  BY OneWord DEF Words
<1> HIDE DEF g
<1>2. RelaySound(g) /\ ~Says(g, "wtxidrelay")
  BY <1>1 DEF RelaySound, Says
<1>3. RelaySound(q) /\ Says(q, "verack")
  BY <1>1, <1>2, ConcatRelay, ConcatSays
<1>4. /\ q \in Seq(Words) /\ Len(q) = Len(o) + Len(g)
      /\ \A i \in 1..Len(o) : i \in 1..Len(q) /\ q[i] = o[i]
      /\ \A i \in 1..Len(g) : Len(o) + i \in 1..Len(q) /\ q[Len(o) + i] = g[i]
  BY <1>1, ConcatAt
<1> HIDE DEF q
<1>a. Len(o) \in Nat /\ Len(q) = Len(o) + 1
  BY <1>1, <1>4
<1>5. q[Len(q)] = "getaddr" /\ Len(q) \in 1..Len(q)
  <2>1. 1 \in 1..Len(g)
    BY <1>1
  <2>2. q[Len(o) + 1] = g[1]
    BY <1>4, <2>1
  <2> QED
    BY <1>1, <1>a, <2>2
<1>6. ASSUME NEW i \in 1..Len(q), i # Len(q) PROVE q[i] # "getaddr"
  <2>1. i \in 1..Len(o)
    BY <1>a, <1>6
  <2>2. q[i] = o[i]
    BY <1>4, <2>1
  <2> QED
    BY <2>1, <2>2 DEF Says
<1>7. {i \in 1..Len(q) : q[i] = "getaddr"} = {Len(q)}
  BY <1>5, <1>6
<1>8. SaidSound(q)
  BY <1>3, <1>7 DEF RelaySound, Says, SaidSound
<1> QED
  BY <1>4, <1>8 DEF q, g

LEMMA SilentRelaySound ==
    ASSUME NEW o, ~Says(o, "wtxidrelay") PROVE RelaySound(o)
BY DEF Says, RelaySound

LEMMA RelayThenVerack == RelaySound(<<"wtxidrelay", "verack">>)
<1> DEFINE o == <<"wtxidrelay", "verack">>
<1>1. Len(o) = 2 /\ o[1] = "wtxidrelay" /\ o[2] = "verack"
  BY TwoWords DEF Words
<1> HIDE DEF o
<1>2. RelaySound(o)
  BY <1>1 DEF RelaySound
<1> QED
  BY <1>2 DEF o

\* What was heard stays heard.
LEMMA HeardKeeps ==
    ASSUME CNInv, NEW S, Heard(S),
           \A i \in 1..Len(received) : i \in 1..Len(received') /\ received'[i] = received[i],
           \A i \in 1..Len(sent) : sent'[i] = sent[i]
    PROVE  Heard(S)'
BY DEF CNInv, ReceivedBefore, Heard

\* A message returned by recv is heard.
LEMMA ReturnedHeard ==
    ASSUME CNInv, RecvReturns, sent' = sent
    PROVE  /\ \A i \in 1..Len(received) : i \in 1..Len(received') /\ received'[i] = received[i]
           /\ \A S : Message \in S => Heard(S)'
<1>1. received \in Seq(Nat) /\ sent \in Seq(Kinds)
  BY DEF CNInv, CNTypeOK
<1>2. received' = Append(received, buf[1][1])
  BY DEF RecvReturns
<1>3. /\ Len(received') = Len(received) + 1 /\ Len(received) \in Nat
      /\ received'[Len(received) + 1] = buf[1][1]
      /\ \A i \in 1..Len(received) : i \in 1..Len(received') /\ received'[i] = received[i]
  BY <1>1, <1>2
<1>4. Len(received) + 1 \in 1..Len(received')
  BY <1>3
<1> QED
  BY <1>3, <1>4 DEF Heard, Message

\* A round of the handshake in which msgs are sent.
LEMMA SendsKeep ==
    ASSUME CNInv, NegotiationInv, phase = "handshake", RecvReturns, sent' = sent,
           NEW msgs \in Seq(Words), Sends(msgs), NextRound,
           ~Says(msgs, "getaddr"), RelaySound(msgs),
           wtxidrelay_sent' \in BOOLEAN, sendheaders_sent' \in BOOLEAN,
           got_version' \in BOOLEAN, got_verack' \in BOOLEAN,
           wtxidrelay_sent => wtxidrelay_sent',
           Says(msgs, "wtxidrelay") => ~wtxidrelay_sent /\ wtxidrelay_sent',
           got_version' => got_version \/ (Message \in Hellos /\ Says(msgs, "verack")),
           got_verack' => got_verack \/ Message = "verack"
    PROVE  NegotiationInv'
<1> DEFINE o == out \o msgs
<1>1. out \in Seq(Words) /\ HandshakeSound
  BY DEF NegotiationInv
<1>2. o \in Seq(Words)
  BY <1>1, ConcatAt
<1>3. /\ ~Says(o, "getaddr")
      /\ Says(o, "wtxidrelay") => Says(out, "wtxidrelay") \/ Says(msgs, "wtxidrelay")
      /\ Says(out, "verack") \/ Says(msgs, "verack") => Says(o, "verack")
  BY <1>1, ConcatSays DEF HandshakeSound
<1>4. RelaySound(o)
  BY <1>1, ConcatRelay DEF HandshakeSound
<1> HIDE DEF o
<1>5. \A S : Heard(S) \/ Message \in S => Heard(S)'
  BY HeardKeeps, ReturnedHeard
<1>6. /\ got_version' => Heard(Hellos)' /\ Says(o, "verack")
      /\ got_verack' => Heard({"verack"})'
  BY <1>1, <1>3, <1>5 DEF HandshakeSound
<1>7. ~wtxidrelay_sent' => ~Says(o, "wtxidrelay")
  BY <1>1, <1>3 DEF HandshakeSound
<1>8. CASE got_version' /\ got_verack'
  <2>1. phase' = "open" /\ out' = o \o <<"getaddr">>
    BY <1>8 DEF NextRound, Sends, o
  <2>2. rounds' <= HANDSHAKE_MESSAGES
    BY ConnectionAssumption DEF CNInv, CNTypeOK, RoundsExact, NextRound
  <2>3. out' \in Seq(Words) /\ SaidSound(out')
    BY <1>2, <1>3, <1>4, <1>6, <1>8, <2>1, GetAddrLast
  <2>4. NegotiatedBothWays'
    BY <1>6, <1>8, <2>2, <2>3, NegotiatedMeansNext
  <2> QED
    BY <2>1, <2>3, <2>4 DEF NegotiationInv
<1>9. CASE ~(got_version' /\ got_verack')
  <2>1. phase' # "open"
    BY <1>9 DEF NextRound
  <2>2. out' = o
    <3>1. out' = o \o << >>
      BY <1>9 DEF Sends, o
    <3> QED
      BY <1>2, <3>1
  <2>3. HandshakeSound'
    BY <1>3, <1>4, <1>6, <1>7, <1>9, <2>2 DEF HandshakeSound
  <2>4. NegotiatedBothWays'
    BY <2>1 DEF NegotiatedBothWays
  <2> QED
    BY <1>2, <2>2, <2>3, <2>4 DEF NegotiationInv
<1> QED
  BY <1>8, <1>9

LEMMA CNInitNegotiation == CNInit => NegotiationInv
<1> SUFFICES ASSUME CNInit PROVE NegotiationInv
  OBVIOUS
<1>1. out \in Seq(Words) /\ ~Says(out, "getaddr") /\ ~Says(out, "wtxidrelay")
  BY SaysOne DEF CNInit, Words
<1>2. HandshakeSound
  BY <1>1, SilentRelaySound DEF CNInit, HandshakeSound
<1> QED
  BY <1>1, <1>2 DEF CNInit, NegotiationInv, NegotiatedBothWays

\* Outside of the rounds of the handshake, what was said does not change.
LEMMA QuietKeeps ==
    ASSUME CNInv, NegotiationInv,
           UNCHANGED <<out, hsVars>>, phase' = phase \/ phase' = "closed",
           \A i \in 1..Len(received) : i \in 1..Len(received') /\ received'[i] = received[i],
           \A i \in 1..Len(sent) : sent'[i] = sent[i]
    PROVE  NegotiationInv'
<1>1. \A S : Heard(S) => Heard(S)'
  BY HeardKeeps
<1>2. UNCHANGED <<out, wtxidrelay_sent, sendheaders_sent, got_version, got_verack, rounds>>
  BY DEF hsVars
<1>3. phase' = "handshake" => HandshakeSound'
  BY <1>1, <1>2 DEF NegotiationInv, HandshakeSound
<1>4. NegotiatedBothWays'
  BY <1>1, <1>2, NegotiatedMeans, NegotiatedMeansNext DEF NegotiationInv
<1> QED
  BY <1>2, <1>3, <1>4 DEF NegotiationInv

LEMMA RecvVersionNegotiation ==
    ASSUME CNInv, NegotiationInv, RecvVersion PROVE NegotiationInv'
<1>0. phase = "handshake" /\ RecvReturns /\ sent' = sent /\ Message \in Hellos
  BY DEF RecvVersion, Hellos
<1>1. CASE Close
  BY <1>0, <1>1, QuietKeeps, ReturnedHeard DEF Close
<1>2. CASE ~Close
  <2> DEFINE relay == Message = "version" /\ ~wtxidrelay_sent
             msgs == (IF relay THEN <<"wtxidrelay">> ELSE << >>) \o <<"verack">>
  <2>1. /\ wtxidrelay_sent' = (wtxidrelay_sent \/ relay) /\ got_version' = TRUE
        /\ UNCHANGED <<got_verack, sendheaders_sent>> /\ Sends(msgs) /\ NextRound
    BY <1>2 DEF RecvVersion
  <2>2. msgs = IF relay THEN <<"wtxidrelay", "verack">> ELSE <<"verack">>
    <3>1. CASE relay
      <4>1. msgs = <<"wtxidrelay">> \o <<"verack">>
        BY <3>1
      <4>2. "wtxidrelay" \in Words /\ "verack" \in Words
        BY DEF Words
      <4>3. <<"wtxidrelay">> \o <<"verack">> = <<"wtxidrelay", "verack">>
        BY <4>2, TwoWords
      <4> QED
        BY <3>1, <4>1, <4>3
    <3>2. CASE ~relay
      <4>1. msgs = << >> \o <<"verack">>
        BY <3>2
      <4>2. msgs = <<"verack">>
        BY <4>1, OneWord DEF Words
      <4> QED
        BY <3>2, <4>2
    <3> QED
      BY <3>1, <3>2
  <2> HIDE DEF msgs
  <2>3. msgs \in Seq(Words) /\ ~Says(msgs, "getaddr") /\ RelaySound(msgs) /\ Says(msgs, "verack")
    <3>1. CASE relay
      <4>1. msgs = <<"wtxidrelay", "verack">>
        BY <2>2, <3>1
      <4> QED
        BY <4>1, SaysTwo, RelayThenVerack DEF Words
    <3>2. CASE ~relay
      <4>1. msgs = <<"verack">>
        BY <2>2, <3>2
      <4> QED
        BY <4>1, SaysOne, SilentRelaySound DEF Words
    <3> QED
      BY <3>1, <3>2
  <2>4. Says(msgs, "wtxidrelay") => relay
    BY <2>2, SaysOne DEF Words
  <2>5. /\ wtxidrelay_sent \in BOOLEAN /\ sendheaders_sent' \in BOOLEAN
        /\ got_version' \in BOOLEAN /\ got_verack' \in BOOLEAN
        /\ wtxidrelay_sent' \in BOOLEAN
    BY <2>1 DEF NegotiationInv
  <2>6. wtxidrelay_sent => wtxidrelay_sent'
    BY <2>1, <2>5
  <2>7. Says(msgs, "wtxidrelay") => ~wtxidrelay_sent /\ wtxidrelay_sent'
    BY <2>1, <2>4, <2>5
  <2>8. got_verack' => got_verack
    BY <2>1
  <2> QED
    BY <1>0, <2>1, <2>3, <2>5, <2>6, <2>7, <2>8, SendsKeep
<1> QED
  BY <1>1, <1>2

LEMMA RecvVerackNegotiation ==
    ASSUME CNInv, NegotiationInv, RecvVerack PROVE NegotiationInv'
<1>0. phase = "handshake" /\ RecvReturns /\ sent' = sent /\ Message = "verack"
  BY DEF RecvVerack
<1>1. CASE Close
  BY <1>0, <1>1, QuietKeeps, ReturnedHeard DEF Close
<1>2. CASE ~Close
  <2> DEFINE msgs == (IF sendheaders_sent THEN << >> ELSE <<"sendheaders">>) \o <<"sendcmpct">>
  <2>1. /\ sendheaders_sent' = TRUE /\ got_verack' = TRUE
        /\ UNCHANGED <<got_version, wtxidrelay_sent>> /\ Sends(msgs) /\ NextRound
    BY <1>2 DEF RecvVerack
  <2>2. msgs = <<"sendcmpct">> \/ msgs = <<"sendheaders", "sendcmpct">>
    <3>1. CASE sendheaders_sent
      <4>1. msgs = << >> \o <<"sendcmpct">>
        BY <3>1
      <4> QED
        BY <4>1, OneWord DEF Words
    <3>2. CASE ~sendheaders_sent
      <4>1. msgs = <<"sendheaders">> \o <<"sendcmpct">>
        BY <3>2
      <4>2. "sendheaders" \in Words /\ "sendcmpct" \in Words
        BY DEF Words
      <4>3. <<"sendheaders">> \o <<"sendcmpct">> = <<"sendheaders", "sendcmpct">>
        BY <4>2, TwoWords
      <4> QED
        BY <4>1, <4>3
    <3> QED
      BY <3>1, <3>2
  <2> HIDE DEF msgs
  <2>3. /\ msgs \in Seq(Words) /\ ~Says(msgs, "getaddr") /\ RelaySound(msgs)
        /\ ~Says(msgs, "wtxidrelay")
    <3>1. CASE msgs = <<"sendcmpct">>
      BY <3>1, SaysOne, SilentRelaySound DEF Words
    <3>2. CASE msgs = <<"sendheaders", "sendcmpct">>
      BY <3>2, SaysTwo, SilentRelaySound DEF Words
    <3> QED
      BY <2>2, <3>1, <3>2
  <2>4. /\ wtxidrelay_sent' \in BOOLEAN /\ sendheaders_sent' \in BOOLEAN
        /\ got_version' \in BOOLEAN /\ got_verack' \in BOOLEAN
        /\ wtxidrelay_sent => wtxidrelay_sent'
        /\ got_version' => got_version
    BY <2>1 DEF NegotiationInv
  <2> QED
    BY <1>0, <2>1, <2>3, <2>4, SendsKeep
<1> QED
  BY <1>1, <1>2

LEMMA RecvOtherNegotiation ==
    ASSUME CNInv, NegotiationInv, RecvOther PROVE NegotiationInv'
<1>1. /\ phase = "handshake" /\ RecvReturns /\ sent' = sent /\ NextRound
      /\ UNCHANGED <<got_version, got_verack, wtxidrelay_sent, sendheaders_sent, out>>
  BY DEF RecvOther
<1>2. HandshakeSound /\ phase' # "open"
  BY <1>1 DEF NegotiationInv, HandshakeSound, NextRound
<1>3. \A S : Heard(S) => Heard(S)'
  BY <1>1, HeardKeeps, ReturnedHeard
<1>4. HandshakeSound'
  BY <1>1, <1>2, <1>3 DEF HandshakeSound
<1>5. NegotiatedBothWays'
  BY <1>2 DEF NegotiatedBothWays
<1> QED
  BY <1>1, <1>4, <1>5 DEF NegotiationInv

LEMMA CNNextNegotiation == CNInv /\ NegotiationInv /\ [CNNext]_cnVars => NegotiationInv'
<1> SUFFICES ASSUME CNInv, NegotiationInv, [CNNext]_cnVars PROVE NegotiationInv'
  OBVIOUS
<1>0. sent \in Seq(Kinds)
  BY DEF CNInv, CNTypeOK
<1>1. ASSUME NEW kind \in Kinds, PeerSends(kind) PROVE NegotiationInv'
  <2>1. \A i \in 1..Len(sent) : sent'[i] = sent[i]
    BY <1>0, <1>1 DEF PeerSends
  <2> QED
    BY <1>1, <2>1, QuietKeeps DEF PeerSends
<1>2. CASE \/ PeerCloses \/ RecvError \/ HandshakeTimeout \/ LoopTimeout
           \/ ReadHeader \/ ReadPayload \/ UNCHANGED cnVars
  <2>1. /\ UNCHANGED <<out, hsVars, received, sent>>
        /\ phase' = phase \/ phase' = "closed"
    BY <1>2
    DEF PeerCloses, RecvError, HandshakeTimeout, LoopTimeout, ReadHeader, ReadPayload,
        cnVars, hsVars
  <2> QED
    BY <2>1, QuietKeeps
<1>3. CASE RecvMessage
  BY <1>3, QuietKeeps, ReturnedHeard DEF RecvMessage
<1>4. CASE Handshake
  BY <1>4, RecvVersionNegotiation, RecvVerackNegotiation, RecvOtherNegotiation DEF Handshake
<1> QED
  BY <1>1, <1>2, <1>3, <1>4 DEF CNNext, Recv

-----------------------------------------------------------------------------
(* Theorems *)

\* The invariant of the byte stream: what is left is the end of a message and
\* complete messages after it, all later than what recv has returned.
THEOREM ConnectionCorrect == CNSpec => []CNInv
BY CNInitInv, CNNextInv, PTL DEF CNSpec

\* For messages of any length, however often recv is cancelled and at whatever
\* chunk: messages come out in the order they were sent and none twice, and the
\* handshake loses none.
THEOREM AlwaysReceivedInOrder == CNSpec => []ReceivedInOrder
<1>1. CNInv => ReceivedInOrder
  BY DEF CNInv, ReceivedBefore, RoundsExact, ReceivedInOrder
<1> QED
  BY <1>1, ConnectionCorrect, PTL

\* For messages of any length in any order and number, a connection that the
\* event loop sees was negotiated both ways.
THEOREM AlwaysNegotiated == CNSpec => []NegotiatedBothWays
<1>1. NegotiationInv => NegotiatedBothWays
  BY DEF NegotiationInv
<1> QED
  BY <1>1, ConnectionCorrect, CNInitNegotiation, CNNextNegotiation, PTL DEF CNSpec
=============================================================================
