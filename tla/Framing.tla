------------------------------ MODULE Framing ------------------------------
(***************************************************************************)
(* One direction of an RPC connection as bytes: RpcSession::sendProtocol   *)
(* and recvProtocol of rpc/rpc_session.cpp, Protocol::encode and           *)
(* decodeHeader of rpc/protocol.cpp, Stream::readFixedSize and             *)
(* writeFixedSize of net/stream.cpp, over a TCP stream that gives and      *)
(* takes as many bytes at a time as it likes.                              *)
(*                                                                         *)
(* A byte is named by the message it was written for and its place in it;  *)
(* what it holds matters only for the header.  A header read out of place  *)
(* is whatever bytes happen to be there: it is refused, unless they look   *)
(* like a header, and then any length may follow.                          *)
(***************************************************************************)
EXTENDS Integers, Sequences

CONSTANTS kHeaderLen,   \* bytes of a header
          m_base_size,  \* size of a node of a ByteArray
          Protocols,    \* messages: lengths of content and of error text
          MaxMessages   \* bound: messages sent

ASSUME FramingAssumption ==
  /\ kHeaderLen \in Nat \ {0} /\ m_base_size \in Nat /\ kHeaderLen <= m_base_size
  /\ MaxMessages \in Nat
  /\ Protocols \subseteq [content : Nat, err : Nat]

VARIABLES sent,       \* the messages given to sendProtocol, in order
          pending,    \* bytes of the encoded message still to be written
          wire,       \* bytes in the stream
          closed,     \* has the sender closed the connection
          pc,         \* where the receiver is
          bt,         \* the receiver's ByteArray
          left,       \* "left" of readFixedSize
          msg,        \* the message whose header was decoded
          received,   \* what recvProtocol returned, in order
          network     \* what this network and these callers do

vars == <<sent, pending, wire, closed, pc, bt, left, msg, received, network>>

\* The place of a byte: byte "at" of the message number "of".
Byte(i, k) == [of |-> i, at |-> k]

\* Bytes a to b - 1 of message i.
Run(i, a, b) == [j \in 1..(IF b > a THEN b - a ELSE 0) |-> Byte(i, a + j - 1)]

Min2(a, b) == IF a < b THEN a ELSE b

\* Protocol::encode: an error text comes with its length and takes the place
\* of as much content; the header gives the length of the content alone.
EncodedLen(p) == kHeaderLen + p.content + (IF p.err > 0 THEN 1 ELSE 0)

\* Protocol::Create(): a message no header was read for.
NoMsg == [of |-> 0, len |-> 0, err |-> 0]

Ended == {"ended", "crashed"}

Init ==
  /\ sent = <<>> /\ pending = <<>> /\ wire = <<>> /\ closed = FALSE
  /\ pc = "header" /\ bt = <<>> /\ left = kHeaderLen /\ msg = NoMsg /\ received = <<>>
  /\ network \in [pipelined : BOOLEAN, short : BOOLEAN]

-----------------------------------------------------------------------------
(* The sender.                                                             *)

\* sendProtocol: encode, under m_mutex from here to the last byte.  Callers
\* that do not overlap their requests wait for the answer first.  An error
\* text longer than the content, or a message larger than a node, ends the
\* process: encode reads beyond the content, and getReadBuffers runs off the
\* list of nodes.
sendProtocol(p) ==
  /\ ~closed /\ pending = <<>> /\ Len(sent) < MaxMessages
  /\ network.pipelined \/ Len(received) = Len(sent)
  /\ IF p.err > p.content \/ EncodedLen(p) > m_base_size
       THEN closed' = TRUE /\ UNCHANGED <<sent, pending>>
       ELSE /\ sent' = Append(sent, p)
            /\ pending' = Run(Len(sent) + 1, 0, EncodedLen(p))
            /\ UNCHANGED closed
  /\ UNCHANGED <<wire, pc, bt, left, msg, received, network>>

\* writeFixedSize: the socket takes k bytes from the position on.
writeFixedSize ==
  /\ ~closed
  /\ \E k \in 1..Len(pending) :
       /\ wire' = wire \o SubSeq(pending, 1, k)
       /\ pending' = SubSeq(pending, k + 1, Len(pending))
  /\ UNCHANGED <<sent, closed, pc, bt, left, msg, received, network>>

\* The sender closes its socket, or its process ends.
CloseSocket ==
  /\ ~closed /\ closed' = TRUE /\ pending' = <<>>
  /\ UNCHANGED <<sent, wire, pc, bt, left, msg, received, network>>

-----------------------------------------------------------------------------
(* The receiver.                                                           *)

\* The length readFixedSize was called with, and asks for in every round.
Length == IF pc = "header" THEN kHeaderLen ELSE msg.len

\* getWriteBuffers: the room in the iovecs for "len" bytes at the position.
npos == Len(bt) % m_base_size
Fits(len) == len <= m_base_size
Asked(len) == IF npos + len <= m_base_size THEN len ELSE m_base_size - npos + len

\* A mutant of ReadSome: the first round is taken for the whole.
ReadOnce ==
  /\ pc \in {"header", "payload"} /\ left > 0
  /\ Fits(Length)
  /\ \E k \in 1..Min2(Asked(Length), Len(wire)) :
       /\ network.short \/ k >= left \/ (closed /\ k = Len(wire))
       /\ bt' = bt \o SubSeq(wire, 1, k)
       /\ wire' = SubSeq(wire, k + 1, Len(wire))
       /\ left' = 0
  /\ UNCHANGED <<sent, pending, closed, pc, msg, received, network>>

\* readFixedSize, one round: read() gives k bytes.  "left" counts down, but
\* the next round asks for the full length again.
ReadSome ==
  /\ pc \in {"header", "payload"} /\ left > 0
  /\ Fits(Length)
  /\ \E k \in 1..Min2(Asked(Length), Len(wire)) :
       /\ network.short \/ k >= left \/ (closed /\ k = Len(wire))
       /\ bt' = bt \o SubSeq(wire, 1, k)
       /\ wire' = SubSeq(wire, k + 1, Len(wire))
       /\ left' = left - k
  /\ UNCHANGED <<sent, pending, closed, pc, msg, received, network>>

\* A length no node can hold: getWriteBuffers runs off the list of nodes.  If
\* it is not positive as an int it is not read at all, and taken for a failure.
ReadOverruns ==
  /\ pc = "payload" /\ left > 0 /\ ~Fits(Length)
  /\ pc' \in Ended
  /\ UNCHANGED <<sent, pending, wire, closed, bt, left, msg, received, network>>

\* A mutant of ReadEnds: the end of the stream is tried again.
ReadEndsRetries ==
  /\ pc = "header" /\ left > 0
  /\ closed /\ wire = <<>>
  /\ pc' = "ended"
  /\ UNCHANGED <<sent, pending, wire, closed, bt, left, msg, received, network>>

\* readFixedSize returns 0 at the end of the stream: recvProtocol returns
\* nullptr, and its callers give the connection up.
ReadEnds ==
  /\ pc \in {"header", "payload"} /\ left > 0
  /\ closed /\ wire = <<>>
  /\ pc' = "ended"
  /\ UNCHANGED <<sent, pending, wire, closed, bt, left, msg, received, network>>

\* The same with -1: the receive timeout of a server's sockets.
ReadTimesOut ==
  /\ pc \in {"header", "payload"} /\ left > 0 /\ wire = <<>>
  /\ pc' = "ended"
  /\ UNCHANGED <<sent, pending, wire, closed, bt, left, msg, received, network>>

\* The bytes of a message as recvProtocol hands them on.
Deliver(head, body) ==
  /\ received' = Append(received, [head |-> head, body |-> body])
  /\ pc' = "header" /\ bt' = <<>> /\ left' = kHeaderLen /\ msg' = NoMsg

\* The header of message i gives its content's length and says if an error
\* text comes first.
Header(i) == [of |-> i, len |-> sent[i].content, err |-> sent[i].err]

Decoded(m) ==
  IF m.len = 0 THEN Deliver(m, <<>>)
  ELSE /\ pc' = "payload" /\ bt' = <<>> /\ left' = m.len /\ msg' = m
       /\ UNCHANGED received

\* Lengths a header out of place may seem to hold.
JunkLens == {p.content : p \in Protocols} \cup {m_base_size + 1}

\* recvProtocol with the header read: decodeHeader takes its first bytes,
\* clear() drops the others.
decodeHeader ==
  /\ pc = "header" /\ left <= 0
  /\ IF bt[1].at = 0 THEN Decoded(Header(bt[1].of))
     ELSE \/ /\ pc' = "ended"
             /\ UNCHANGED <<bt, left, msg, received>>
          \/ \E len \in JunkLens : Decoded([of |-> 0, len |-> len, err |-> 0])
  /\ UNCHANGED <<sent, pending, wire, closed, network>>

\* recvProtocol with the payload read: an error text is taken out with its
\* length, or throws if it is not all there; toString is all that is left.
setPayload ==
  /\ pc = "payload" /\ left <= 0
  /\ IF msg.err > 0 /\ Len(bt) < 1 + msg.err
       THEN pc' = "crashed" /\ UNCHANGED <<bt, left, msg, received>>
       ELSE Deliver(msg, SubSeq(bt, (IF msg.err > 0 THEN 2 + msg.err ELSE 1), Len(bt)))
  /\ UNCHANGED <<sent, pending, wire, closed, network>>

Send == \E p \in Protocols : sendProtocol(p)
Receive == ReadSome \/ ReadOverruns \/ ReadEnds \/ decodeHeader \/ setPayload

Next == Send \/ writeFixedSize \/ CloseSocket \/ Receive \/ ReadTimesOut

Spec == Init /\ [][Next]_vars
FairSpec == Spec /\ WF_vars(Receive)

(***************************************************************************)
(* Properties.                                                             *)
(***************************************************************************)
\* The type of the connection's state.
Bytes == [of : 1..MaxMessages, at : Nat]
TypeOK ==
  /\ sent \in Seq(Protocols) /\ Len(sent) <= MaxMessages
  /\ pending \in Seq(Bytes) /\ wire \in Seq(Bytes) /\ bt \in Seq(Bytes)
  /\ closed \in BOOLEAN
  /\ pc \in {"header", "payload"} \cup Ended
  /\ left \in Int
  /\ msg \in [of : 0..MaxMessages, len : Nat, err : Nat]
  /\ received \in Seq([head : [of : 0..MaxMessages, len : Nat, err : Nat],
                       body : Seq(Bytes)])
  /\ network \in [pipelined : BOOLEAN, short : BOOLEAN]

\* Message i as it should arrive.
Whole(i) == [head |-> Header(i), body |-> Run(i, kHeaderLen, EncodedLen(sent[i]))]

\* Up to the first message with an error text every message arrives whole
\* and in order, and the receiver does not crash, as long as callers do not
\* overlap their requests (then any division of the bytes will do, although
\* readFixedSize asks for too much) or no read comes short (then any number
\* of messages may be on their way).
Plain(i) == \A j \in 1..i : sent[j].err = 0
Intact ==
  ~(network.pipelined /\ network.short)
    => /\ Plain(Len(sent)) => pc # "crashed"
       /\ \A i \in DOMAIN received :
            Plain(Min2(i, Len(sent))) => i <= Len(sent) /\ received[i] = Whole(i)

Stream == INSTANCE MessageStream WITH
            sent <- [i \in 1..Len(sent) |-> Whole(i)], over <- pc \in Ended

\* Up to the first message received with an error text, and on the networks
\* Intact speaks of, each step on bytes is one on whole messages, or none: a
\* message is handed on in one step, in its turn and not before it was sent,
\* and after recvProtocol has failed nothing is.
Sound == ~(network.pipelined /\ network.short) /\ Plain(Min2(Len(received), Len(sent)))
ImplementsMessageStream ==
  /\ Stream!Init
  /\ [][Sound' => [Stream!Next]_(Stream!vars)]_vars

\* Once the sender is gone recvProtocol returns nullptr in the end, however
\* far the receiver had lost its place in the stream (or its process ends):
\* its callers are not left in a read.
EndsAfterClose == closed ~> pc \in Ended
=============================================================================
