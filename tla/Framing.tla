------------------------------- MODULE Framing -------------------------------
(***************************************************************************)
(* How a connection cuts the bytes its socket delivers into messages: the  *)
(* loop of ClientLogic::on_read over PeerProtocol::process_message.  What  *)
(* a message does is the matter of module PeerProtocol; here it is         *)
(* dispatched, and the order of the dispatches is what Download starts     *)
(* from.                                                                   *)
(*                                                                         *)
(* A byte is named by its place: << k, i >> is byte i of message k of the  *)
(* stream, with the handshake as message 0.                                *)
(***************************************************************************)
EXTENDS Integers, Sequences, Functions

CONSTANTS
  HANDSHAKE_SIZE,  (* 68 in the code                                       *)
  BUFFER_SIZE,     (* 500000 in the code                                   *)
  Streams          (* what peers send: sequences of [id, length]           *)

NUM_OF_TYPES == 10
MESSAGE_LENGTH_SIZE == 4
HandshakeByte == 84    \* byte 4 of a handshake, the T of BitTorrent
AnyByte == {0, 255}    \* a byte of a payload, or one not written yet

ASSUME FramingAssumption ==
  /\ HANDSHAKE_SIZE \in Nat /\ HANDSHAKE_SIZE > MESSAGE_LENGTH_SIZE
  /\ BUFFER_SIZE \in Nat /\ BUFFER_SIZE >= HANDSHAKE_SIZE
  /\ Streams \subseteq Seq([id: 0 .. 255, length: Nat])

VARIABLES
  stream,     (* the messages of the peer, after the handshake             *)
  received,   (* number of bytes the socket has given                      *)
  control,    (* "idle", "reading", "parsing" or "closed"                  *)
  m_state,    (* PeerProtocol::m_state                                     *)
  buffer,     (* the first buffer_size bytes of the buffer                 *)
  curr,       (* bytes process_message has dealt with in this call         *)
  dispatched  (* messages dispatched: places in stream                     *)

vars == << stream, received, control, m_state, buffer, curr, dispatched >>

(* Bytes of message k, of the length field and the rest.                   *)
Size(k) == IF k = 0 THEN HANDSHAKE_SIZE ELSE MESSAGE_LENGTH_SIZE + stream[k].length

(* Position in the byte stream where message k begins.                     *)
Start == LET s[k \in 0 .. (Len(stream) + 1)] == IF k = 0 THEN 0 ELSE s[k - 1] + Size(k - 1) IN s

StreamSize == Start[Len(stream) + 1]

(* Byte number n of the stream, counted from 0.                            *)
ByteAt(n) ==
  LET k == CHOOSE j \in 0 .. Len(stream) : Start[j] <= n /\ n < Start[j + 1]
  IN  << k, n - Start[k] >>

buffer_size == Len(buffer)
END == buffer_size

(* What the four bytes of the buffer from offset p on say as a length: of  *)
(* bytes that are not a length field, anything.                            *)
LengthsAt(p) ==
  IF \E k \in DOMAIN stream : \A i \in 0 .. 3 : buffer[p + i + 1] = << k, i >>
  THEN {stream[buffer[p + 1][1]].length}
  ELSE 0 .. BUFFER_SIZE

(* What the byte at offset p says as an id.                                *)
IdsAt(p) ==
  IF p >= buffer_size THEN AnyByte
  ELSE LET b == buffer[p + 1]
       IN  IF b[2] # MESSAGE_LENGTH_SIZE THEN AnyByte
           ELSE IF b[1] = 0 THEN {HandshakeByte} ELSE {stream[b[1]].id}

Init ==
  /\ stream \in Streams
  /\ received = 0
  /\ control = "idle"
  /\ m_state = "HANDSHAKE"
  /\ buffer = << >>
  /\ curr = 0
  /\ dispatched = << >>
-----------------------------------------------------------------------------
(* ClientLogic::on_read.                                                   *)

on_read ==
  /\ control = "idle"
  /\ control' = "reading"
  /\ UNCHANGED << stream, received, m_state, buffer, curr, dispatched >>

(* socket->read gives n bytes, and process_message is called.              *)
read(n) ==
  /\ control = "reading"
  /\ received + n <= StreamSize /\ buffer_size + n <= BUFFER_SIZE
  /\ buffer' = buffer \o [i \in 1 .. n |-> ByteAt(received + i - 1)]
  /\ received' = received + n
  /\ control' = "parsing"
  /\ UNCHANGED << stream, m_state, curr, dispatched >>

(* socket->read has nothing to give.                                       *)
read_nothing ==
  /\ control = "reading"
  /\ control' = "idle"
  /\ UNCHANGED << stream, received, m_state, buffer, curr, dispatched >>
-----------------------------------------------------------------------------
(* PeerProtocol::process_message, from curr on.                            *)

process_handshake ==
  /\ control = "parsing" /\ m_state = "HANDSHAKE"
  /\ curr + HANDSHAKE_SIZE <= END
  /\ curr' = curr + HANDSHAKE_SIZE
  /\ m_state' = "ACTION"
  /\ UNCHANGED << stream, received, control, buffer, dispatched >>

(* Mutant: the length field is not counted.                                *)
Complete_ignores_prefix(n) == curr + n <= END

(* A message of length n at curr is there to its end.                      *)
Complete(n) == curr + n + MESSAGE_LENGTH_SIZE <= END

(* Mutant: only a length field with more than one byte after it is read.   *)
LengthThere_later == control = "parsing" /\ m_state = "ACTION" /\ curr + MESSAGE_LENGTH_SIZE + 1 < END

(* The loop goes on: the length field is there, and a byte after it.       *)
LengthThere == control = "parsing" /\ m_state = "ACTION" /\ curr + MESSAGE_LENGTH_SIZE < END

(* Mutant: curr is not moved.                                              *)
skip_keep_alive_stays ==
  /\ LengthThere
  /\ 0 \in LengthsAt(curr)
  /\ UNCHANGED vars

skip_keep_alive ==
  /\ LengthThere
  /\ 0 \in LengthsAt(curr)
  /\ curr' = curr + MESSAGE_LENGTH_SIZE
  /\ UNCHANGED << stream, received, control, m_state, buffer, dispatched >>

(* A whole message is dispatched by its id, or its id is none.             *)
dispatch ==
  /\ LengthThere
  /\ \E n \in LengthsAt(curr) \ {0}, id \in IdsAt(curr + MESSAGE_LENGTH_SIZE) :
       /\ Complete(n)
       /\ \/ /\ id < NUM_OF_TYPES
             /\ curr' = curr + n + MESSAGE_LENGTH_SIZE
             /\ dispatched' = Append(dispatched, buffer[curr + 1][1])
             /\ UNCHANGED control
          \/ /\ id >= NUM_OF_TYPES
             /\ control' = "closed"
             /\ UNCHANGED << curr, dispatched >>
  /\ UNCHANGED << stream, received, m_state, buffer >>

(* process_message returns: a part of a message is left, or nothing.       *)
Returns ==
  /\ control = "parsing"
  /\ \/ m_state = "HANDSHAKE" /\ curr + HANDSHAKE_SIZE > END
     \/ m_state = "ACTION" /\ ~LengthThere
     \/ LengthThere /\ \E n \in LengthsAt(curr) \ {0} : ~Complete(n)

(* Mutant: the id is looked at before it has been read.                    *)
Rejected_early == {id > 8 : id \in IdsAt(4)}

(* May on_read reject what it has, because byte 4 is none of the ids it    *)
(* knows?  It compares with 8, and byte 4 of a handshake is no id.         *)
Rejected == IF buffer_size > 5 THEN {id > 8 : id \in IdsAt(4)} ELSE {FALSE}

(* Nothing was processed: the part is looked at, and kept.                 *)
keep_part ==
  /\ Returns /\ curr = 0
  /\ \E rejected \in Rejected :
       control' = IF rejected \/ buffer_size = BUFFER_SIZE THEN "closed" ELSE "reading"
  /\ UNCHANGED << stream, received, m_state, buffer, curr, dispatched >>

(* Mutant: the part is moved one byte short.                               *)
move_rest_short ==
  /\ Returns /\ curr > 0
  /\ buffer' = SubSeq(buffer, curr, buffer_size)
  /\ curr' = 0
  /\ control' = "reading"
  /\ UNCHANGED << stream, received, m_state, dispatched >>

(* What was processed leaves the buffer, and the rest moves to its begin.  *)
move_rest ==
  /\ Returns /\ curr > 0
  /\ buffer' = SubSeq(buffer, curr + 1, buffer_size)
  /\ curr' = 0
  /\ control' = "reading"
  /\ UNCHANGED << stream, received, m_state, dispatched >>

process_message ==
  process_handshake \/ skip_keep_alive \/ dispatch \/ keep_part \/ move_rest

Next ==
  \/ on_read \/ read_nothing
  \/ \E n \in 1 .. BUFFER_SIZE : read(n)
  \/ process_message

Spec == Init /\ [][Next]_vars

(* A worker finishes its handler, and the bytes of the peer arrive.        *)
FairSpec ==
  /\ Spec
  /\ WF_vars(on_read) /\ WF_vars(process_message)
  /\ SF_vars(\E n \in 1 .. BUFFER_SIZE : read(n))
-----------------------------------------------------------------------------
(* The type of every variable.                                             *)
TypeOK ==
  /\ stream \in Streams
  /\ received \in 0 .. StreamSize
  /\ control \in {"idle", "reading", "parsing", "closed"}
  /\ m_state \in {"HANDSHAKE", "ACTION"}
  /\ buffer \in Seq((0 .. Len(stream)) \X Nat) /\ buffer_size <= BUFFER_SIZE
  /\ curr \in 0 .. buffer_size
  /\ dispatched \in Seq(1 .. Len(stream))

(* The messages that have an effect: all but the keep-alives.              *)
Due == {k \in DOMAIN stream : stream[k].length > 0}

(* Every message is dispatched once, in the order of the peer, however its *)
(* bytes are split over the calls of read, and keep-alives are not.  This  *)
(* is what module Download takes for granted.                              *)
DispatchedInOrder ==
  /\ \A i, j \in DOMAIN dispatched : i < j => dispatched[i] < dispatched[j]
  /\ \A k \in Range(dispatched) : \A j \in 1 .. k : j \in Range(dispatched) <=> j \in Due

(* Between two READ events no whole message waits in the buffer, where it  *)
(* would stay until the peer, which may wait for its effect, sends more.   *)
NoMessageWaits ==
  control = "idle" => \A k \in Due : Start[k + 1] <= received => k \in Range(dispatched)

(* The loop over the parts of a stream of bytes is one over its messages:  *)
(* each is dispatched when it is there, and when the handler ends, all are.*)
Stream == INSTANCE MessageStream WITH
  due     <- Due,
  arrived <- {k \in Due : Start[k + 1] <= received},
  handler <- IF control \in {"idle", "closed"} THEN control ELSE "busy"
ImplementsMessageStream == Stream!Spec

(* A connection is closed only for a handshake or a message that arrived   *)
(* in parts, with an id on_read does not know or too large for the buffer, *)
(* or for one with an id that process_message does not know.               *)
ClosedOnlyFor ==
  control = "closed" =>
    \/ LET first == Head(buffer)[1]
       IN  \/ first = 0 /\ received < HANDSHAKE_SIZE
           \/ first > 0 /\ received < Start[first + 1] /\ stream[first].id > 8
           \/ first > 0 /\ Size(first) > BUFFER_SIZE
    \/ \E k \in Due : Stream!IsNext(k) /\ stream[k].id >= NUM_OF_TYPES

(* In the end everything the peer sends is dispatched, or the connection   *)
(* is closed.                                                              *)
AllDispatched == <>(control = "closed" \/ Range(dispatched) = Due)

(* The handshake has 68 bytes "according to protocol specification"        *)
(* (peer_protocol.cpp:14) and process_message waits for all of them: a     *)
(* peer whose messages have known ids and fit the buffer stays connected.  *)
CorrectPeerKept ==
  (\A k \in DOMAIN stream : stream[k].id < NUM_OF_TYPES /\ Size(k) <= BUFFER_SIZE)
    => control # "closed"
=============================================================================
