---------------------------- MODULE Connection ----------------------------
(***************************************************************************)
(* One outbound connection of src/p2p/legacy.rs: Peer::handshake, then the *)
(* calls of Peer::recv that the event loop makes.  recv reads a header,    *)
(* learns the length of the payload from it and reads the payload; both    *)
(* calls run under a timeout, and one that expires drops the future of     *)
(* recv with the bytes it has read.  In the handshake that is an error, in *)
(* the event loop it is ignored and recv is called again.                  *)
(*                                                                         *)
(* A message is its kind, and a byte stream is a sequence of chunks, each  *)
(* named by the message it belongs to and its place in it: a header is     *)
(* HeaderChunks of them.  Headers made of other bytes announce any length, *)
(* and the checksum refuses the frame.                                     *)
(***************************************************************************)
EXTENDS Integers, Sequences

CONSTANTS
    Kinds,          \* "version", "oldversion" (below 70016), "verack", others
    Payload,        \* kind -> chunks of payload; none for verack
    HeaderChunks,   \* 24 bytes in the code
    HANDSHAKE_MESSAGES, \* 50 in the code
    MaxSent,        \* bound: messages the peer sends
    MaxGarbage      \* bound: payload length read from bytes that are no header

ASSUME ConnectionAssumption ==
    /\ {"version", "oldversion", "verack"} \subseteq Kinds
    /\ Payload \in [Kinds -> Nat]
    /\ HeaderChunks \in Nat \ {0} /\ HANDSHAKE_MESSAGES \in Nat \ {0}
    /\ MaxSent \in Nat /\ MaxGarbage \in Nat

VARIABLES
    phase,          \* "handshake", "open" (in the event loop), "closed"
    sent,           \* history: messages the peer has sent
    stream,         \* chunks sent and not yet read
    buf,            \* chunks read by the current recv
    need,           \* payload chunks it waits for, once the header is read
    received,       \* history: messages recv has returned, as numbers of sent
    out,            \* history: messages handed to send
    wtxidrelay_sent, sendheaders_sent,
    got_version, got_verack,
    rounds          \* messages taken by the handshake loop

recvVars == <<buf, need>>
hsVars   == <<wtxidrelay_sent, sendheaders_sent, got_version, got_verack, rounds>>
cnVars   == <<phase, sent, stream, recvVars, received, out, hsVars>>

NoHeader == -1

Chunks(n, kind) == [i \in 1..(HeaderChunks + Payload[kind]) |-> <<n, i>>]

CNInit ==
    /\ phase = "handshake"
    /\ sent = << >> /\ stream = << >>
    /\ buf = << >> /\ need = NoHeader
    /\ received = << >>
    /\ out = <<"version">>
    /\ wtxidrelay_sent = FALSE /\ sendheaders_sent = FALSE
    /\ got_version = FALSE /\ got_verack = FALSE
    /\ rounds = 0

\* recv has all the bytes it asked for.
FrameRead == need # NoHeader /\ Len(buf) = HeaderChunks + need

-----------------------------------------------------------------------------
(* The peer (external) *)

PeerSends(kind) ==
    /\ phase # "closed" /\ Len(sent) < MaxSent
    /\ sent' = Append(sent, kind)
    /\ stream' = stream \o Chunks(Len(sent) + 1, kind)
    /\ UNCHANGED <<phase, recvVars, received, out, hsVars>>

\* recv fails on a closed connection, in either phase.
PeerCloses ==
    /\ phase # "closed" /\ ~FrameRead
    /\ phase' = "closed"
    /\ UNCHANGED <<sent, stream, recvVars, received, out, hsVars>>

-----------------------------------------------------------------------------
(* recv *)

\* A frame starts where a message starts.
Aligned == buf # << >> /\ buf[1][2] = 1

\* read_exact of the header; its last bytes give the length of the payload.
ReadHeader ==
    /\ phase # "closed" /\ stream # << >>
    /\ Len(buf) < HeaderChunks
    /\ buf' = Append(buf, Head(stream))
    /\ stream' = Tail(stream)
    /\ IF Len(buf') < HeaderChunks THEN need' = NoHeader
       ELSE IF Aligned' THEN need' = Payload[sent[buf'[1][1]]]
       ELSE need' \in 0..MaxGarbage
    /\ UNCHANGED <<phase, sent, received, out, hsVars>>

\* read_exact of the payload.
ReadPayload ==
    /\ phase # "closed" /\ stream # << >>
    /\ need # NoHeader /\ Len(buf) < HeaderChunks + need
    /\ buf' = Append(buf, Head(stream))
    /\ stream' = Tail(stream)
    /\ UNCHANGED <<phase, sent, need, received, out, hsVars>>

\* Mutant of HandshakeTimeout: recv is called again, as the event loop does.
HandshakeRetry ==
    /\ phase = "handshake" /\ ~FrameRead
    /\ buf' = << >> /\ need' = NoHeader
    /\ UNCHANGED <<phase, sent, stream, received, out, hsVars>>

\* The timeout of the handshake: the connection is given up.
HandshakeTimeout ==
    /\ phase = "handshake" /\ ~FrameRead
    /\ phase' = "closed"
    /\ UNCHANGED <<sent, stream, recvVars, received, out, hsVars>>

\* The timeout of the event loop: the future of recv is dropped, and what it
\* had read is lost.
LoopTimeout ==
    /\ phase = "open" /\ ~FrameRead
    /\ buf' = << >> /\ need' = NoHeader
    /\ UNCHANGED <<phase, sent, stream, received, out, hsVars>>

\* Bytes that are no message do not deserialize: the peer is dropped.
RecvError ==
    /\ phase # "closed" /\ FrameRead /\ ~Aligned
    /\ phase' = "closed"
    /\ UNCHANGED <<sent, stream, recvVars, received, out, hsVars>>

\* recv returns a message.
RecvReturns ==
    /\ FrameRead /\ Aligned
    /\ received' = Append(received, buf[1][1])
    /\ buf' = << >> /\ need' = NoHeader

Message == sent[buf[1][1]]

-----------------------------------------------------------------------------
(* The messages of the handshake.  A send can fail, which ends it. *)

Close == phase' = "closed" /\ UNCHANGED <<out, hsVars>>

\* got_version and got_verack after a message decide whether the loop ends.
NextRound ==
    /\ rounds' = rounds + 1
    /\ phase' = IF got_version' /\ got_verack' THEN "open"
                ELSE IF rounds + 1 < HANDSHAKE_MESSAGES THEN "handshake"
                ELSE "closed"

\* GetAddr follows when the handshake is complete; its failure is ignored.
Sends(msgs) ==
    out' = out \o msgs \o (IF got_version' /\ got_verack' THEN <<"getaddr">> ELSE << >>)

\* Mutant of RecvVersion: Verack goes out first.
VerackFirst ==
    /\ phase = "handshake" /\ RecvReturns
    /\ Message \in {"version", "oldversion"}
    /\ LET relay == Message = "version" /\ ~wtxidrelay_sent
       IN \/ /\ wtxidrelay_sent' = (wtxidrelay_sent \/ relay)
             /\ got_version' = TRUE
             /\ UNCHANGED <<got_verack, sendheaders_sent>>
             /\ Sends(<<"verack">> \o (IF relay THEN <<"wtxidrelay">> ELSE << >>))
             /\ NextRound
          \/ Close
    /\ UNCHANGED <<sent, stream>>

\* Version: WtxidRelay goes out once, to a peer that knows it, then Verack.
RecvVersion ==
    /\ phase = "handshake" /\ RecvReturns
    /\ Message \in {"version", "oldversion"}
    /\ LET relay == Message = "version" /\ ~wtxidrelay_sent
       IN \/ /\ wtxidrelay_sent' = (wtxidrelay_sent \/ relay)
             /\ got_version' = TRUE
             /\ UNCHANGED <<got_verack, sendheaders_sent>>
             /\ Sends((IF relay THEN <<"wtxidrelay">> ELSE << >>) \o <<"verack">>)
             /\ NextRound
          \/ Close
    /\ UNCHANGED <<sent, stream>>

\* Verack: SendHeaders once, SendCmpct every time.
RecvVerack ==
    /\ phase = "handshake" /\ RecvReturns
    /\ Message = "verack"
    /\ \/ /\ sendheaders_sent' = TRUE
          /\ got_verack' = TRUE
          /\ UNCHANGED <<got_version, wtxidrelay_sent>>
          /\ Sends((IF sendheaders_sent THEN << >> ELSE <<"sendheaders">>)
                      \o <<"sendcmpct">>)
          /\ NextRound
       \/ Close
    /\ UNCHANGED <<sent, stream>>

\* Anything else is dropped, and counts.
RecvOther ==
    /\ phase = "handshake" /\ RecvReturns
    /\ Message \notin {"version", "oldversion", "verack"}
    /\ UNCHANGED <<got_version, got_verack, wtxidrelay_sent, sendheaders_sent, out>>
    /\ NextRound
    /\ UNCHANGED <<sent, stream>>

\* A message for the event loop.
RecvMessage ==
    /\ phase = "open" /\ RecvReturns
    /\ UNCHANGED <<phase, sent, stream, out, hsVars>>

-----------------------------------------------------------------------------
Recv == ReadHeader \/ ReadPayload \/ RecvError

Handshake == RecvVersion \/ RecvVerack \/ RecvOther

CNNext ==
    \/ \E kind \in Kinds : PeerSends(kind)
    \/ PeerCloses
    \/ Recv \/ Handshake \/ HandshakeTimeout
    \/ LoopTimeout \/ RecvMessage

\* Bytes that have arrived are read, a message that has been read is handled,
\* and the timer of a recv that waits on runs out.
CNSpec == /\ CNInit /\ [][CNNext]_cnVars
          /\ WF_cnVars(Recv \/ Handshake) /\ WF_cnVars(HandshakeTimeout)
-----------------------------------------------------------------------------
(* Properties *)

\* However often the event loop cancels recv half-way and drops the bytes it has
\* read, recv returns messages in the order the peer sent them and none twice;
\* and no message of the handshake is lost, because there the timeout is final.
ReceivedInOrder ==
    /\ \A i, j \in 1..Len(received) : i < j => received[i] < received[j]
    /\ \A i \in 1..rounds : received[i] = i

\* A connection that the event loop sees has exchanged Version and Verack both
\* ways, has said GetAddr once and last, and WtxidRelay at most once, with a
\* Verack sent after it.  A peer that sends Version twice may also have been
\* sent a Verack before it: see RelayBeforeVerack.
NegotiatedBothWays ==
    LET at(m) == {i \in 1..Len(out) : out[i] = m}
        heard(S) == \E i \in 1..Len(received) : sent[received[i]] \in S
    IN phase = "open" =>
        /\ heard({"version", "oldversion"}) /\ heard({"verack"})
        /\ rounds <= HANDSHAKE_MESSAGES
        /\ at("getaddr") = {Len(out)}
        /\ at("verack") # {}
        /\ \A i, j \in at("wtxidrelay") : i = j
        /\ \A i \in at("wtxidrelay") : \E j \in at("verack") : i < j

\* "BIP 339 - WtxidRelay MUST be sent BEFORE Verack": every Verack that the
\* handshake sends is sent after WtxidRelay, if that is sent at all.
RelayBeforeVerack ==
    \A i, j \in 1..Len(out) : out[i] = "wtxidrelay" /\ out[j] = "verack" => i < j

\* The handshake ends, whatever the peer sends or does not send: add_outbound,
\* and with it the event loop that calls it, is not held for ever.
HandshakeEnds == <>(phase # "handshake")
=============================================================================
