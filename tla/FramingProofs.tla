---------------------------- MODULE FramingProofs ----------------------------
(***************************************************************************)
(* Proofs about the cutting of the bytes of a connection into messages,    *)
(* for streams of any messages of any length and any sizes of the buffer   *)
(* and the handshake: however the bytes are split over the calls of read,  *)
(* the messages are dispatched as module MessageStream has it.             *)
(***************************************************************************)
EXTENDS Framing, NatLemmas, SequenceTheorems, TLAPS

LAST == Len(stream) + 1

(* The streams.                                                            *)
LEMMA StreamType ==
  ASSUME stream \in Streams
  PROVE  /\ Len(stream) \in Nat /\ DOMAIN stream = 1 .. Len(stream) /\ LAST \in Nat
         /\ \A k \in 1 .. Len(stream) : stream[k].length \in Nat /\ stream[k].id \in 0 .. 255
<1> DEFINE Messages == [id: 0 .. 255, length: Nat]
<1>1. stream \in Seq(Messages)
  BY FramingAssumption
<1>2. /\ Len(stream) \in Nat /\ DOMAIN stream = 1 .. Len(stream)
      /\ \A k \in 1 .. Len(stream) : stream[k] \in Messages
  <2> HIDE DEF Messages
  <2> QED
    BY <1>1
<1> QED
  BY <1>2 DEF LAST

Sizes == [k \in 1 .. LAST |-> Size(k - 1)]

LEMMA SizesType ==
  ASSUME stream \in Streams
  PROVE  /\ Sizes \in [1 .. LAST -> Nat]
         /\ \A k \in 0 .. Len(stream) : Size(k) \in Nat /\ Size(k) >= MESSAGE_LENGTH_SIZE
<1>1. \A k \in 0 .. Len(stream) : Size(k) \in Nat /\ Size(k) >= MESSAGE_LENGTH_SIZE
  BY StreamType, FramingAssumption DEF Size, MESSAGE_LENGTH_SIZE
<1>2. \A k \in 1 .. LAST : k - 1 \in 0 .. Len(stream)
  BY StreamType DEF LAST
<1> QED
  BY <1>1, <1>2 DEF Sizes

LEMMA StartSums ==
  ASSUME stream \in Streams
  PROVE  SumsOf(Sizes, LAST, Start)
<1>1. LAST \in Nat /\ Sizes \in [1 .. LAST -> Nat]
  BY StreamType, SizesType
<1>2. PICK s : SumsOf(Sizes, LAST, s)
  BY <1>1, SumsExist
<1>3. s = [k \in 0 .. LAST |-> IF k = 0 THEN 0 ELSE s[k - 1] + Size(k - 1)]
  <2>1. \A k \in 0 .. LAST : s[k] = IF k = 0 THEN 0 ELSE s[k - 1] + Size(k - 1)
    BY <1>1, <1>2 DEF SumsOf, Sizes
  <2> QED
    BY <1>2, <2>1 DEF SumsOf
<1>4. Start = [k \in 0 .. LAST |-> IF k = 0 THEN 0 ELSE Start[k - 1] + Size(k - 1)]
  BY <1>3, Zenon DEF Start, LAST
<1>5. Start = [k \in 0 .. LAST |-> IF k = 0 THEN 0 ELSE Start[k - 1] + Sizes[k]]
  <2>1. \A k \in 0 .. LAST : k # 0 => Sizes[k] = Size(k - 1)
    BY <1>1 DEF Sizes
  <2> QED
    BY <1>4, <2>1
<1> QED
  BY <1>1, <1>5, SumsUnique

(* Where the messages begin.                                               *)
LEMMA Starting ==
  ASSUME stream \in Streams
  PROVE  /\ Start[0] = 0 /\ \A k \in 0 .. LAST : Start[k] \in Nat
         /\ \A k \in 0 .. Len(stream) : Start[k + 1] = Start[k] + Size(k)
         /\ StreamSize \in Nat /\ StreamSize = Start[LAST]
         /\ \A j, k \in 0 .. LAST : j <= k => Start[j] <= Start[k]
<1>1. LAST \in Nat /\ Len(stream) \in Nat /\ Sizes \in [1 .. LAST -> Nat]
  BY StreamType, SizesType
<1>2. SumsOf(Sizes, LAST, Start)
  BY StartSums
<1>3. Start[0] = 0 /\ \A k \in 0 .. LAST : Start[k] \in Nat
  BY <1>2 DEF SumsOf
<1>4. ASSUME NEW k \in 0 .. Len(stream)
      PROVE  Start[k + 1] = Start[k] + Size(k)
  <2>1. k + 1 \in 1 .. LAST /\ (k + 1) - 1 = k
    BY <1>1 DEF LAST
  <2>2. Start[k + 1] = Start[(k + 1) - 1] + Sizes[k + 1]
    BY <1>2, <2>1 DEF SumsOf
  <2>3. Sizes[k + 1] = Size((k + 1) - 1)
    BY <2>1 DEF Sizes
  <2> QED
    BY <2>1, <2>2, <2>3
<1>5. \A j, k \in 0 .. LAST : j <= k => Start[j] <= Start[k]
  BY <1>1, <1>2, SumsGrow
<1>6. StreamSize = Start[LAST] /\ LAST \in 0 .. LAST
  BY <1>1 DEF StreamSize, LAST
<1> QED
  BY <1>3, <1>4, <1>5, <1>6

(* Every byte of the stream is a byte of one message.                      *)
LEMMA ByteOf ==
  ASSUME stream \in Streams, NEW m \in 0 .. Len(stream), NEW i \in Nat, i < Size(m)
  PROVE  ByteAt(Start[m] + i) = << m, i >> /\ Start[m] + i \in 0 .. (StreamSize - 1)
<1>0. Len(stream) \in Nat /\ Size(m) \in Nat /\ LAST = Len(stream) + 1
  BY StreamType, SizesType DEF LAST
<1> DEFINE n == Start[m] + i
<1>1. \A j \in 0 .. Len(stream) : j \in 0 .. LAST /\ j + 1 \in 0 .. LAST
  BY <1>0
<1>2. n \in Nat /\ Start[m] \in Nat /\ Start[m] <= n /\ n < Start[m + 1]
  BY <1>0, <1>1, Starting
<1>3. ASSUME NEW j \in 0 .. Len(stream), Start[j] <= n, n < Start[j + 1]
      PROVE  j = m
  <2>0. Start[j] \in Nat /\ Start[j + 1] \in Nat /\ Start[m] \in Nat /\ Start[m + 1] \in Nat
    BY <1>1, Starting
  <2>1. ASSUME j < m PROVE FALSE
    <3>1. j + 1 <= m
      BY <2>1
    <3>2. Start[j + 1] <= Start[m]
      BY <1>1, <3>1, Starting
    <3> QED
      BY <1>2, <1>3, <2>0, <3>2
  <2>2. ASSUME m < j PROVE FALSE
    <3>1. m + 1 <= j
      BY <2>2
    <3>2. Start[m + 1] <= Start[j]
      BY <1>1, <3>1, Starting
    <3> QED
      BY <1>2, <1>3, <2>0, <3>2
  <2> QED
    BY <2>1, <2>2
<1>4. Start[m + 1] <= StreamSize
  BY <1>0, <1>1, Starting
<1>5. Start[m + 1] \in Nat /\ StreamSize \in Nat
  BY <1>1, Starting
<1>6. n - Start[m] = i
  BY <1>2
<1> HIDE DEF n
<1>7. ByteAt(n) = << m, n - Start[m] >>
  <2> DEFINE Has(j) == Start[j] <= n /\ n < Start[j + 1]
  <2>1. Has(m) /\ \A j \in 0 .. Len(stream) : Has(j) => j = m
    BY <1>2, <1>3
  <2>2. (CHOOSE j \in 0 .. Len(stream) : Has(j)) = m
    <3> HIDE DEF Has
    <3> QED
      BY <2>1
  <2> QED
    BY <2>2 DEF ByteAt
<1> QED
  BY <1>2, <1>4, <1>5, <1>6, <1>7 DEF n

LEMMA ByteType ==
  ASSUME stream \in Streams, NEW n \in 0 .. (StreamSize - 1)
  PROVE  ByteAt(n) \in (0 .. Len(stream)) \X Nat
<1>1. Len(stream) \in Nat /\ LAST = Len(stream) + 1 /\ LAST \in Nat
  BY StreamType DEF LAST
<1>2. n \in Nat /\ n < Start[LAST]
  BY Starting
<1>3. PICK k \in 0 .. (LAST - 1) : Start[k] <= n /\ n < Start[k + 1]
  BY <1>1, <1>2, SizesType, StartSums, SumsLocate
<1>4. k \in 0 .. Len(stream) /\ k \in 0 .. LAST
  BY <1>1
<1>5. n - Start[k] \in Nat /\ n - Start[k] < Size(k) /\ Start[k] + (n - Start[k]) = n
  BY <1>2, <1>3, <1>4, Starting, SizesType
<1>6. ByteAt(Start[k] + (n - Start[k])) = << k, n - Start[k] >>
  BY <1>4, <1>5, ByteOf
<1> QED
  BY <1>4, <1>5, <1>6

(* Place in the stream of the first byte of the buffer.                    *)
Base == received - buffer_size

Bytes == [n \in 0 .. (StreamSize - 1) |-> ByteAt(n)]

(* The buffer holds the bytes of the stream up to what was received.       *)
BufferRight ==
  /\ Base \in Nat
  /\ \A i \in 1 .. buffer_size : buffer[i] = Bytes[Base + i - 1]

Increasing == \A i, j \in DOMAIN dispatched : i < j => dispatched[i] < dispatched[j]

(* Message m, if it has an effect, is not there to its end.                *)
NotWhole(m) ==
  m <= Len(stream) => received <= Start[m + 1] /\ (m = 0 \/ m \in Due => received < Start[m + 1])

(* The byte at curr begins message m, with m = Len(stream) + 1 at the end  *)
(* of the stream; the messages before it are dispatched.                   *)
AtMessage(m) ==
  /\ Base + curr = Start[m]
  /\ m = 0 <=> m_state = "HANDSHAKE"
  /\ Range(dispatched) = {k \in Due : k < m}
  /\ control \in {"idle", "reading"} => curr = 0 /\ NotWhole(m)

FramingInv ==
  /\ TypeOK
  /\ BufferRight
  /\ Increasing
  /\ \E m \in 0 .. LAST : AtMessage(m)
  /\ ClosedOnlyFor
-----------------------------------------------------------------------------
(* Byte number n of a stream of last messages that begin at start.         *)
ByteIn(last, start, n) ==
  LET k == CHOOSE j \in 0 .. last : start[j] <= n /\ n < start[j + 1]
  IN  << k, n - start[k] >>

(* The peer sends what it sends.                                           *)
LEMMA SameStream ==
  ASSUME UNCHANGED stream
  PROVE  /\ LAST' = LAST /\ Start' = Start /\ StreamSize' = StreamSize
         /\ Due' = Due /\ Bytes' = Bytes
         /\ \A m : NotWhole(m) /\ UNCHANGED received => NotWhole(m)'
<1>1. LAST' = LAST
  BY DEF LAST
<1>2. Start' = Start
  BY Zenon DEF Start, Size
<1>3. StreamSize' = StreamSize
  BY <1>2 DEF StreamSize
<1>4. Due' = Due
  BY DEF Due
<1>5. Bytes' = Bytes
  <2>1. \A n : ByteAt(n) = ByteIn(Len(stream), Start, n)
    BY DEF ByteAt, ByteIn
  <2>2. \A n : ByteAt(n)' = ByteIn(Len(stream'), Start', n)
    BY DEF ByteAt, ByteIn
  <2>3. \A n : ByteAt(n)' = ByteAt(n)
    BY <1>2, <2>1, <2>2
  <2> QED
    BY <1>3, <2>3 DEF Bytes
<1>6. \A m : NotWhole(m) /\ UNCHANGED received => NotWhole(m)'
  BY <1>2, <1>4 DEF NotWhole
<1> QED
  BY <1>1, <1>2, <1>3, <1>4, <1>5, <1>6

(* A connection that is open has not been closed for a reason.             *)
LEMMA OpenStays == control' # "closed" => ClosedOnlyFor'
  BY DEF ClosedOnlyFor

LEMMA FramingInit == Init => FramingInv
<1> SUFFICES ASSUME Init PROVE FramingInv
  OBVIOUS
<1>1. stream \in Streams /\ Len(stream) \in Nat /\ StreamSize \in Nat /\ LAST \in Nat
  BY StreamType, Starting DEF Init
<1>2. Base = 0 /\ buffer_size = 0 /\ curr = 0
  <2>1. Len(buffer) = 0 /\ received = 0 /\ curr = 0
    BY DEF Init
  <2> QED
    BY <2>1 DEF Base, buffer_size
<1>3. Start[0] = 0 /\ Start[1] = Size(0) /\ Size(0) = HANDSHAKE_SIZE
  <2>1. 0 \in 0 .. Len(stream) /\ 0 + 1 = 1
    BY <1>1
  <2>2. Start[0 + 1] = Start[0] + Size(0) /\ Start[0] = 0
    BY <1>1, <2>1, Starting
  <2> QED
    BY <2>1, <2>2, FramingAssumption DEF Size
<1>4. TypeOK
  BY <1>1, <1>2, FramingAssumption DEF TypeOK, Init, buffer_size
<1>5. BufferRight /\ Increasing
  BY <1>2 DEF BufferRight, Increasing, Init
<1>6. AtMessage(0)
  <2>1. Range(dispatched) = {k \in Due : k < 0}
    BY <1>1, StreamType DEF Init, Range, Due
  <2>2. NotWhole(0)
    BY <1>3, FramingAssumption DEF NotWhole, Init, MESSAGE_LENGTH_SIZE
  <2> QED
    BY <1>2, <1>3, <2>1, <2>2 DEF AtMessage, Init
<1>7. ClosedOnlyFor
  BY DEF ClosedOnlyFor, Init
<1> QED
  BY <1>1, <1>4, <1>5, <1>6, <1>7 DEF FramingInv
-----------------------------------------------------------------------------
(* What the places in the buffer are.                                      *)
LEMMA Places ==
  ASSUME FramingInv, NEW m \in 0 .. LAST, AtMessage(m)
  PROVE  /\ stream \in Streams /\ Len(stream) \in Nat /\ LAST = Len(stream) + 1
         /\ m \in Nat /\ Start[m] \in Nat /\ Base \in Nat /\ curr \in Nat
         /\ received \in Nat /\ buffer_size \in Nat /\ curr <= buffer_size
         /\ Base + curr = Start[m] /\ received = Base + buffer_size
         /\ received <= StreamSize /\ StreamSize \in Nat
         /\ buffer \in Seq((0 .. Len(stream)) \X Nat)
         /\ m = LAST => curr = buffer_size
<1>1. stream \in Streams /\ Len(stream) \in Nat /\ LAST = Len(stream) + 1 /\ LAST \in Nat
  BY StreamType DEF FramingInv, TypeOK, LAST
<1>2. StreamSize \in Nat /\ StreamSize = Start[LAST] /\ Start[m] \in Nat
  BY <1>1, Starting
<1>3. received \in 0 .. StreamSize /\ curr \in 0 .. buffer_size /\ Base \in Nat
  BY DEF FramingInv, TypeOK, BufferRight
<1>4. buffer \in Seq((0 .. Len(stream)) \X Nat) /\ buffer_size \in Nat
  <2>1. buffer \in Seq((0 .. Len(stream)) \X Nat)
    BY DEF FramingInv, TypeOK
  <2>2. Len(buffer) \in Nat
    BY <2>1
  <2> QED
    BY <2>1, <2>2 DEF buffer_size
<1>5. received = Base + buffer_size
  BY <1>2, <1>3, <1>4 DEF Base
<1>6. Base + curr = Start[m]
  BY DEF AtMessage
<1> QED
  BY <1>1, <1>2, <1>3, <1>4, <1>5, <1>6

LEMMA BufferAt ==
  ASSUME FramingInv, NEW m \in 0 .. Len(stream), AtMessage(m),
         NEW i \in Nat, i < Size(m), curr + i < buffer_size
  PROVE  buffer[curr + i + 1] = << m, i >>
<1>1. stream \in Streams /\ m \in 0 .. LAST
  <2>1. stream \in Streams
    BY DEF FramingInv, TypeOK
  <2> QED
    BY <2>1, StreamType DEF LAST
<1>2. /\ Base \in Nat /\ curr \in Nat /\ buffer_size \in Nat /\ Base + curr = Start[m]
      /\ Start[m] \in Nat
  BY <1>1, Places
<1>3. curr + i + 1 \in 1 .. buffer_size
  BY <1>2
<1>4. buffer[curr + i + 1] = Bytes[Base + (curr + i + 1) - 1]
  BY <1>3 DEF FramingInv, BufferRight
<1>5. Base + (curr + i + 1) - 1 = Start[m] + i
  BY <1>2
<1>6. ByteAt(Start[m] + i) = << m, i >> /\ Start[m] + i \in 0 .. (StreamSize - 1)
  BY <1>1, ByteOf
<1> QED
  BY <1>4, <1>5, <1>6 DEF Bytes

(* When the length field is there and more, what process_message reads is  *)
(* the length of the message at hand, and its id if it has one.            *)
LEMMA MessageThere ==
  ASSUME FramingInv, NEW m \in 0 .. LAST, AtMessage(m), LengthThere
  PROVE  /\ m \in 1 .. Len(stream) /\ m \in DOMAIN stream
         /\ stream[m].length \in Nat /\ Size(m) = 4 + stream[m].length
         /\ Start[m + 1] = Base + curr + 4 + stream[m].length
         /\ LengthsAt(curr) = {stream[m].length}
         /\ stream[m].length # 0 => IdsAt(curr + MESSAGE_LENGTH_SIZE) = {stream[m].id}
         /\ buffer[curr + 1] = << m, 0 >>
<1>0. /\ stream \in Streams /\ Len(stream) \in Nat /\ LAST = Len(stream) + 1
      /\ m \in Nat /\ Base \in Nat /\ curr \in Nat /\ buffer_size \in Nat
      /\ Base + curr = Start[m]
      /\ m = LAST => curr = buffer_size
  BY Places
<1>1. curr + 4 < buffer_size /\ m_state = "ACTION"
  BY DEF LengthThere, END, MESSAGE_LENGTH_SIZE
<1>2. m # 0 /\ m # LAST
  BY <1>0, <1>1 DEF AtMessage
<1>3. m \in 1 .. Len(stream) /\ m \in DOMAIN stream /\ m \in 0 .. Len(stream)
  BY <1>0, <1>2, StreamType
<1>4. PICK n \in Nat : n = stream[m].length /\ Size(m) = 4 + n
  <2>1. stream[m].length \in Nat /\ Size(m) = 4 + stream[m].length
    BY <1>0, <1>2, <1>3, StreamType DEF Size, MESSAGE_LENGTH_SIZE
  <2> QED
    BY <2>1
<1>5. Start[m + 1] = Base + curr + 4 + n
  <2>1. Start[m + 1] = Start[m] + Size(m)
    BY <1>0, <1>3, Starting
  <2> QED
    BY <1>0, <1>4, <2>1
<1>6. \A i \in 0 .. 3 : buffer[curr + i + 1] = << m, i >>
  <2> SUFFICES ASSUME NEW i \in 0 .. 3 PROVE buffer[curr + i + 1] = << m, i >>
    OBVIOUS
  <2>1. i \in Nat /\ i < Size(m) /\ curr + i < buffer_size
    BY <1>0, <1>1, <1>4
  <2> QED
    BY <1>3, <2>1, BufferAt
<1>7. buffer[curr + 1] = << m, 0 >>
  <2>1. buffer[curr + 0 + 1] = << m, 0 >>
    BY <1>6
  <2>2. curr + 0 + 1 = curr + 1
    BY <1>0
  <2> QED
    BY <2>1, <2>2
<1>8. LengthsAt(curr) = {stream[m].length}
  BY <1>3, <1>6, <1>7 DEF LengthsAt
<1>9. ASSUME stream[m].length # 0
      PROVE  IdsAt(curr + MESSAGE_LENGTH_SIZE) = {stream[m].id}
  <2>1. 4 \in Nat /\ 4 < Size(m) /\ curr + 4 < buffer_size
    BY <1>1, <1>4, <1>9
  <2>2. buffer[curr + 4 + 1] = << m, 4 >>
    BY <1>3, <2>1, BufferAt
  <2>3. curr + MESSAGE_LENGTH_SIZE = curr + 4 /\ ~ (curr + 4 >= buffer_size)
    BY <1>0, <2>1 DEF MESSAGE_LENGTH_SIZE
  <2> QED
    BY <1>2, <2>2, <2>3 DEF IdsAt, MESSAGE_LENGTH_SIZE
<1> QED
  BY <1>3, <1>4, <1>5, <1>7, <1>8, <1>9

(* The message at hand is the next one to have an effect.                  *)
LEMMA AtNext ==
  ASSUME FramingInv, NEW m \in 1 .. Len(stream), AtMessage(m), m \in Due
  PROVE  Stream!IsNext(m)
<1>1. Range(dispatched) = {k \in Due : k < m}
  BY DEF AtMessage
<1>2. m \notin Range(dispatched)
  BY <1>1
<1> QED
  BY <1>1, <1>2 DEF Stream!IsNext, Stream!Range, Range
-----------------------------------------------------------------------------
(* The steps.                                                              *)

LEMMA SameBuffer ==
  ASSUME FramingInv, UNCHANGED << stream, received, buffer >>
  PROVE  Base' = Base /\ buffer_size' = buffer_size /\ BufferRight'
<1>1. Base' = Base /\ buffer_size' = buffer_size
  BY DEF Base, buffer_size
<1>2. Bytes' = Bytes
  BY SameStream
<1> QED
  BY <1>1, <1>2 DEF FramingInv, BufferRight

(* The type of what process_message changes.                               *)
LEMMA TypeKept ==
  ASSUME FramingInv, UNCHANGED << stream, received, buffer >>,
         control' \in {"idle", "reading", "parsing", "closed"},
         m_state' \in {"HANDSHAKE", "ACTION"}, curr' \in 0 .. buffer_size,
         dispatched' \in Seq(1 .. Len(stream))
  PROVE  TypeOK'
<1>1. StreamSize' = StreamSize /\ buffer_size' = buffer_size
  BY SameStream, SameBuffer
<1> QED
  BY <1>1 DEF FramingInv, TypeOK

LEMMA WokenUp ==
  ASSUME FramingInv, on_read \/ read_nothing
  PROVE  FramingInv'
<1>1. PICK m \in 0 .. LAST : AtMessage(m)
  BY DEF FramingInv
<1>2. /\ UNCHANGED << stream, received, buffer, m_state, curr, dispatched >>
      /\ control \in {"idle", "reading"} /\ control' \in {"idle", "reading"}
  BY DEF on_read, read_nothing
<1>3. LAST' = LAST /\ Start' = Start /\ Due' = Due /\ (NotWhole(m) => NotWhole(m)')
  BY <1>2, SameStream
<1>4. AtMessage(m)'
  BY <1>1, <1>2, <1>3, SameBuffer DEF AtMessage
<1>5. TypeOK'
  BY <1>2, TypeKept DEF FramingInv, TypeOK
<1>6. ClosedOnlyFor'
  BY <1>2, OpenStays
<1>7. Increasing'
  BY <1>2 DEF FramingInv, Increasing
<1> QED
  BY <1>2, <1>3, <1>4, <1>5, <1>6, <1>7, SameBuffer DEF FramingInv

LEMMA BytesRead ==
  ASSUME FramingInv, NEW n \in 1 .. BUFFER_SIZE, read(n)
  PROVE  FramingInv'
<1>1. PICK m \in 0 .. LAST : AtMessage(m)
  BY DEF FramingInv
<1>2. /\ stream \in Streams /\ Base \in Nat /\ received \in Nat /\ buffer_size \in Nat
      /\ curr \in Nat /\ curr <= buffer_size /\ received = Base + buffer_size
      /\ buffer \in Seq((0 .. Len(stream)) \X Nat) /\ StreamSize \in Nat /\ n \in Nat
  BY <1>1, Places
<1>3. /\ control' = "parsing" /\ received' = received + n
      /\ UNCHANGED << stream, m_state, curr, dispatched >>
      /\ received + n <= StreamSize /\ buffer_size + n <= BUFFER_SIZE
  BY DEF read
<1>4. /\ LAST' = LAST /\ Start' = Start /\ StreamSize' = StreamSize /\ Due' = Due
      /\ Bytes' = Bytes
  BY <1>3, SameStream
<1> DEFINE given == [i \in 1 .. n |-> ByteAt(received + i - 1)]
<1>5. \A i \in 1 .. n : received + i - 1 \in 0 .. (StreamSize - 1)
  BY <1>2, <1>3
<1>6. /\ given \in Seq((0 .. Len(stream)) \X Nat) /\ Len(given) = n
      /\ \A i \in 1 .. n : given[i] = Bytes[received + i - 1]
  <2>1. \A i \in 1 .. n : ByteAt(received + i - 1) \in (0 .. Len(stream)) \X Nat
    BY <1>2, <1>5, ByteType
  <2>2. given \in [1 .. n -> (0 .. Len(stream)) \X Nat]
    BY <2>1
  <2>3. \A i \in 1 .. n : given[i] = Bytes[received + i - 1]
    BY <1>5 DEF Bytes
  <2> HIDE DEF given
  <2>4. given \in Seq((0 .. Len(stream)) \X Nat)
    BY <1>2, <2>2, SeqDef
  <2>5. Len(given) = n
    BY <1>2, <2>2, <2>4
  <2> QED
    BY <2>3, <2>4, <2>5
<1>7. buffer' = buffer \o given
  BY DEF read
<1> HIDE DEF given
<1>8. /\ buffer' \in Seq((0 .. Len(stream)) \X Nat) /\ Len(buffer') = buffer_size + n
      /\ \A i \in 1 .. buffer_size : buffer'[i] = buffer[i]
      /\ \A i \in (buffer_size + 1) .. (buffer_size + n) : buffer'[i] = given[i - buffer_size]
  <2> DEFINE S == (0 .. Len(stream)) \X Nat
  <2>1. buffer \in Seq(S) /\ given \in Seq(S) /\ Len(buffer) = buffer_size
    BY <1>2, <1>6 DEF buffer_size
  <2> HIDE DEF S
  <2>2. /\ buffer' \in Seq(S) /\ Len(buffer') = buffer_size + n
        /\ \A i \in 1 .. (buffer_size + n) : buffer'[i] =
             IF i <= buffer_size THEN buffer[i] ELSE given[i - buffer_size]
    BY <1>6, <1>7, <2>1, ConcatProperties
  <2>3. buffer' \in Seq((0 .. Len(stream)) \X Nat)
    BY <2>2 DEF S
  <2>4. \A i \in 1 .. buffer_size : buffer'[i] = buffer[i]
    BY <1>2, <2>2
  <2>5. ASSUME NEW i \in (buffer_size + 1) .. (buffer_size + n)
        PROVE  buffer'[i] = given[i - buffer_size]
    <3>1. i \in 1 .. (buffer_size + n) /\ ~ (i <= buffer_size)
      BY <1>2
    <3> QED
      BY <2>2, <3>1
  <2> QED
    BY <2>2, <2>3, <2>4, <2>5
<1>9. buffer_size' = buffer_size + n /\ Base' = Base
  <2>1. buffer_size' = buffer_size + n
    BY <1>8 DEF buffer_size
  <2> QED
    BY <1>2, <1>3, <2>1 DEF Base
<1>10. BufferRight'
  <2> SUFFICES ASSUME NEW i \in 1 .. (buffer_size + n)
               PROVE  buffer'[i] = Bytes[Base + i - 1]
    BY <1>2, <1>4, <1>9 DEF BufferRight
  <2>1. CASE i <= buffer_size
    <3>1. i \in 1 .. buffer_size
      BY <1>2, <2>1
    <3> QED
      BY <1>8, <3>1 DEF FramingInv, BufferRight
  <2>2. CASE i > buffer_size
    <3>1. i - buffer_size \in 1 .. n /\ received + (i - buffer_size) - 1 = Base + i - 1
      BY <1>2, <2>2
    <3>2. buffer'[i] = given[i - buffer_size]
      BY <1>2, <1>8, <2>2
    <3> QED
      BY <1>6, <3>1, <3>2
  <2> QED
    BY <1>2, <2>1, <2>2
<1>11. TypeOK'
  <2>1. curr' \in 0 .. buffer_size' /\ buffer_size' <= BUFFER_SIZE /\ received' \in 0 .. StreamSize'
    BY <1>2, <1>3, <1>4, <1>9
  <2> QED
    BY <1>3, <1>8, <2>1 DEF FramingInv, TypeOK
<1>12. AtMessage(m)'
  BY <1>1, <1>3, <1>4, <1>9 DEF AtMessage
<1>13. ClosedOnlyFor' /\ Increasing'
  BY <1>3, OpenStays DEF FramingInv, Increasing
<1> QED
  BY <1>4, <1>10, <1>11, <1>12, <1>13 DEF FramingInv

LEMMA Handshaken ==
  ASSUME FramingInv, process_handshake
  PROVE  FramingInv'
<1>1. PICK m \in 0 .. LAST : AtMessage(m)
  BY DEF FramingInv
<1>2. /\ m_state = "HANDSHAKE" /\ m_state' = "ACTION" /\ curr' = curr + HANDSHAKE_SIZE
      /\ curr + HANDSHAKE_SIZE <= buffer_size /\ control = "parsing"
      /\ UNCHANGED << stream, received, control, buffer, dispatched >>
  BY DEF process_handshake, END
<1>3. m = 0
  BY <1>1, <1>2 DEF AtMessage
<1>4. /\ stream \in Streams /\ LAST = Len(stream) + 1 /\ Len(stream) \in Nat
      /\ Base \in Nat /\ curr \in Nat /\ buffer_size \in Nat /\ Base + curr = Start[0]
      /\ HANDSHAKE_SIZE \in Nat
  BY <1>1, <1>3, Places, FramingAssumption
<1>5. /\ LAST' = LAST /\ Start' = Start /\ Due' = Due /\ Base' = Base
      /\ buffer_size' = buffer_size /\ BufferRight'
  BY <1>2, SameStream, SameBuffer
<1>6. Start[1] = Base + curr + HANDSHAKE_SIZE
  <2>1. 0 \in 0 .. Len(stream) /\ 0 + 1 = 1 /\ Size(0) = HANDSHAKE_SIZE
    BY <1>4 DEF Size
  <2>2. Start[0 + 1] = Start[0] + Size(0)
    BY <1>4, <2>1, Starting
  <2> QED
    BY <1>4, <2>1, <2>2
<1>7. Range(dispatched) = {k \in Due : k < 1}
  <2>1. \A k \in Due : k \in Nat /\ k >= 1
    BY <1>4, StreamType DEF Due
  <2> QED
    BY <1>1, <1>3, <2>1 DEF AtMessage
<1>8. AtMessage(1)'
  <2>1. Range(dispatched)' = {k \in Due' : k < 1}
    BY <1>2, <1>5, <1>7 DEF Range
  <2>2. Base' + curr' = Start'[1]
    BY <1>2, <1>4, <1>5, <1>6
  <2> QED
    BY <1>2, <2>1, <2>2 DEF AtMessage
<1>9. TypeOK'
  <2>1. curr' \in 0 .. buffer_size
    BY <1>2, <1>4
  <2> QED
    BY <1>2, <2>1, TypeKept DEF FramingInv, TypeOK
<1>10. ClosedOnlyFor' /\ Increasing' /\ 1 \in 0 .. LAST'
  BY <1>2, <1>4, <1>5, OpenStays DEF FramingInv, Increasing
<1> QED
  BY <1>5, <1>8, <1>9, <1>10 DEF FramingInv

LEMMA Skipped ==
  ASSUME FramingInv, skip_keep_alive
  PROVE  FramingInv'
<1>1. PICK m \in 0 .. LAST : AtMessage(m)
  BY DEF FramingInv
<1>2. /\ LengthThere /\ 0 \in LengthsAt(curr) /\ curr' = curr + 4
      /\ UNCHANGED << stream, received, control, m_state, buffer, dispatched >>
  BY DEF skip_keep_alive, MESSAGE_LENGTH_SIZE
<1>3. m \in 1 .. Len(stream) /\ stream[m].length = 0 /\ Start[m + 1] = Base + curr + 4
  <2>1. Base \in Nat /\ curr \in Nat
    BY <1>1, Places
  <2> QED
    BY <1>1, <1>2, <2>1, MessageThere
<1>4. /\ LAST = Len(stream) + 1 /\ Len(stream) \in Nat
      /\ Base \in Nat /\ curr \in Nat /\ buffer_size \in Nat
  BY <1>1, Places
<1>5. /\ LAST' = LAST /\ Start' = Start /\ Due' = Due /\ Base' = Base
      /\ buffer_size' = buffer_size /\ BufferRight'
  BY <1>2, SameStream, SameBuffer
<1>6. Range(dispatched) = {k \in Due : k < m + 1}
  <2>1. m \notin Due /\ \A k \in Due : k \in Nat
    BY <1>3, <1>4, StreamType DEF Due, FramingInv, TypeOK
  <2>2. \A k \in Due : k < m <=> k < m + 1
    BY <1>3, <2>1
  <2> QED
    BY <1>1, <2>2 DEF AtMessage
<1>7. AtMessage(m + 1)'
  <2>1. Range(dispatched)' = {k \in Due' : k < m + 1}
    BY <1>2, <1>5, <1>6 DEF Range
  <2>2. Base' + curr' = Start'[m + 1]
    BY <1>2, <1>3, <1>4, <1>5
  <2>3. control' = "parsing" /\ m_state' = "ACTION" /\ m + 1 # 0
    BY <1>2, <1>3 DEF LengthThere
  <2> QED
    BY <2>1, <2>2, <2>3 DEF AtMessage
<1>8. TypeOK'
  <2>1. curr' \in 0 .. buffer_size
    BY <1>2, <1>4 DEF LengthThere, END, MESSAGE_LENGTH_SIZE
  <2> QED
    BY <1>2, <2>1, TypeKept DEF FramingInv, TypeOK
<1>9. ClosedOnlyFor' /\ Increasing' /\ m + 1 \in 0 .. LAST'
  BY <1>2, <1>3, <1>4, <1>5, OpenStays DEF FramingInv, Increasing, LengthThere
<1> QED
  BY <1>5, <1>7, <1>8, <1>9 DEF FramingInv

(* A message that is there to its end is dispatched, or closes the         *)
(* connection.                                                             *)
LEMMA DispatchEffect ==
  ASSUME FramingInv, NEW m \in 0 .. LAST, AtMessage(m), dispatch
  PROVE  /\ m \in Due /\ m \in 1 .. Len(stream) /\ Stream!IsNext(m)
         /\ UNCHANGED << stream, received, m_state, buffer >>
         /\ control = "parsing" /\ m_state = "ACTION"
         /\ Start[m + 1] <= received
         /\ \/ /\ Base + curr' = Start[m + 1] /\ curr' \in 0 .. buffer_size
               /\ dispatched' = Append(dispatched, m) /\ UNCHANGED control
            \/ /\ control' = "closed" /\ UNCHANGED << curr, dispatched >>
               /\ stream[m].id >= NUM_OF_TYPES
<1>1. LengthThere /\ UNCHANGED << stream, received, m_state, buffer >>
  BY DEF dispatch
<1>2. /\ m \in 1 .. Len(stream) /\ m \in DOMAIN stream
      /\ LengthsAt(curr) = {stream[m].length} /\ buffer[curr + 1] = << m, 0 >>
      /\ stream[m].length # 0 => IdsAt(curr + MESSAGE_LENGTH_SIZE) = {stream[m].id}
  BY <1>1, MessageThere
<1>3. PICK n \in Nat : n = stream[m].length /\ Start[m + 1] = Base + curr + 4 + n
  BY <1>1, MessageThere
<1>4. /\ n # 0 /\ Complete(n)
      /\ \/ /\ curr' = curr + n + MESSAGE_LENGTH_SIZE
            /\ dispatched' = Append(dispatched, m) /\ UNCHANGED control
         \/ /\ stream[m].id >= NUM_OF_TYPES
            /\ control' = "closed" /\ UNCHANGED << curr, dispatched >>
  <2>1. PICK l \in LengthsAt(curr) \ {0}, id \in IdsAt(curr + MESSAGE_LENGTH_SIZE) :
          /\ Complete(l)
          /\ \/ /\ curr' = curr + l + MESSAGE_LENGTH_SIZE
                /\ dispatched' = Append(dispatched, buffer[curr + 1][1])
                /\ UNCHANGED control
             \/ /\ id >= NUM_OF_TYPES /\ control' = "closed" /\ UNCHANGED << curr, dispatched >>
    BY DEF dispatch
  <2>2. l = n /\ n # 0
    BY <1>2, <1>3, <2>1
  <2>3. id = stream[m].id
    BY <1>2, <1>3, <2>1, <2>2
  <2>4. buffer[curr + 1][1] = m
    BY <1>2
  <2> QED
    BY <2>1, <2>2, <2>3, <2>4
<1>5. Base \in Nat /\ curr \in Nat /\ buffer_size \in Nat /\ received = Base + buffer_size
  BY Places
<1>6. curr + n + 4 <= buffer_size
  BY <1>4 DEF Complete, END, MESSAGE_LENGTH_SIZE
<1>7. Start[m + 1] <= received
  BY <1>3, <1>5, <1>6
<1>8. m \in Due /\ Stream!IsNext(m)
  <2>1. m \in Due
    BY <1>2, <1>3, <1>4 DEF Due
  <2> QED
    BY <1>2, <2>1, AtNext
<1>9. ASSUME curr' = curr + n + MESSAGE_LENGTH_SIZE
      PROVE  Base + curr' = Start[m + 1] /\ curr' \in 0 .. buffer_size
  BY <1>3, <1>5, <1>6, <1>9 DEF MESSAGE_LENGTH_SIZE
<1> QED
  BY <1>1, <1>2, <1>4, <1>7, <1>8, <1>9 DEF LengthThere

LEMMA Dispatched ==
  ASSUME FramingInv, dispatch
  PROVE  FramingInv'
<1>1. PICK m \in 0 .. LAST : AtMessage(m)
  BY DEF FramingInv
<1>2. /\ m \in Due /\ m \in 1 .. Len(stream) /\ Stream!IsNext(m)
      /\ UNCHANGED << stream, received, m_state, buffer >>
      /\ control = "parsing" /\ m_state = "ACTION"
  BY <1>1, DispatchEffect
<1>3. /\ LAST' = LAST /\ Start' = Start /\ Due' = Due /\ Base' = Base
      /\ buffer_size' = buffer_size /\ BufferRight'
  BY <1>2, SameStream, SameBuffer
<1>4. /\ LAST = Len(stream) + 1 /\ Len(stream) \in Nat /\ m \in Nat /\ m # 0 /\ m + 1 # 0
      /\ \A k \in Due : k \in Nat
  <2>1. stream \in Streams /\ LAST = Len(stream) + 1 /\ Len(stream) \in Nat
    BY <1>1, Places
  <2> QED
    BY <1>2, <2>1, StreamType DEF Due
<1>5. dispatched \in Seq(1 .. Len(stream)) /\ Range(dispatched) = {k \in Due : k < m}
  BY <1>1 DEF FramingInv, TypeOK, AtMessage
<1>6. CASE /\ Base + curr' = Start[m + 1] /\ curr' \in 0 .. buffer_size
           /\ dispatched' = Append(dispatched, m) /\ UNCHANGED control
  <2>1. /\ dispatched' \in Seq(1 .. Len(stream))
        /\ DOMAIN dispatched = 1 .. Len(dispatched) /\ Len(dispatched) \in Nat
        /\ DOMAIN dispatched' = 1 .. (Len(dispatched) + 1)
        /\ \A i \in DOMAIN dispatched : dispatched'[i] = dispatched[i]
        /\ dispatched'[Len(dispatched) + 1] = m
    BY <1>2, <1>5, <1>6
  <2>2. Range(dispatched') = Range(dispatched) \union {m}
    BY <2>1 DEF Range
  <2>3. Range(dispatched') = {k \in Due : k < m + 1}
    <3>1. \A k \in Due : k < m + 1 <=> k < m \/ k = m
      BY <1>4
    <3> QED
      BY <1>2, <1>5, <2>2, <3>1
  <2>4. Increasing'
    <3> SUFFICES ASSUME NEW i \in DOMAIN dispatched', NEW j \in DOMAIN dispatched', i < j
                 PROVE  dispatched'[i] < dispatched'[j]
      BY DEF Increasing
    <3>1. i \in DOMAIN dispatched
      BY <2>1
    <3>2. CASE j \in DOMAIN dispatched
      BY <2>1, <3>1, <3>2 DEF FramingInv, Increasing
    <3>3. CASE j = Len(dispatched) + 1
      <4>1. dispatched[i] \in Range(dispatched)
        BY <3>1 DEF Range
      <4> QED
        BY <1>5, <2>1, <3>1, <3>3, <4>1
    <3> QED
      BY <2>1, <3>2, <3>3
  <2>5. AtMessage(m + 1)'
    <3>1. Range(dispatched)' = {k \in Due' : k < m + 1}
      BY <1>3, <2>3 DEF Range
    <3>2. Base' + curr' = Start'[m + 1]
      BY <1>3, <1>6
    <3> QED
      BY <1>2, <1>4, <1>6, <3>1, <3>2 DEF AtMessage
  <2>6. TypeOK' /\ ClosedOnlyFor'
    BY <1>2, <1>6, <2>1, TypeKept, OpenStays DEF FramingInv, TypeOK
  <2>7. m + 1 \in 0 .. LAST'
    BY <1>2, <1>3, <1>4
  <2> QED
    BY <1>3, <2>4, <2>5, <2>6, <2>7 DEF FramingInv
<1>7. CASE /\ control' = "closed" /\ UNCHANGED << curr, dispatched >>
           /\ stream[m].id >= NUM_OF_TYPES
  <2>1. AtMessage(m)'
    <3>1. Range(dispatched)' = {k \in Due' : k < m}
      BY <1>3, <1>5, <1>7 DEF Range
    <3> QED
      BY <1>1, <1>2, <1>3, <1>7, <3>1 DEF AtMessage
  <2>2. TypeOK' /\ Increasing'
    BY <1>2, <1>7, TypeKept DEF FramingInv, TypeOK, Increasing
  <2>3. ClosedOnlyFor'
    <3>1. Stream!IsNext(m)'
      BY <1>2, <1>3, <1>7 DEF Stream!IsNext, Stream!Range
    <3>2. m \in Due' /\ stream'[m].id >= NUM_OF_TYPES
      BY <1>2, <1>3, <1>7
    <3> QED
      BY <3>1, <3>2 DEF ClosedOnlyFor
  <2> QED
    BY <1>3, <2>1, <2>2, <2>3 DEF FramingInv
<1> QED
  BY <1>1, <1>6, <1>7, DispatchEffect

(* What process_message leaves is no whole message with an effect: where   *)
(* it ends, the length field is not there, or the message is not.          *)
LEMMA PartLeft ==
  ASSUME FramingInv, NEW m \in 0 .. LAST, AtMessage(m), Returns
  PROVE  /\ NotWhole(m)
         /\ \/ m = 0 /\ curr + HANDSHAKE_SIZE > buffer_size /\ received < Start[1]
            \/ m > 0 /\ curr + MESSAGE_LENGTH_SIZE >= buffer_size
            \/ /\ LengthThere /\ m \in Due /\ received < Start[m + 1]
               /\ curr + Size(m) > buffer_size
<1>1. /\ stream \in Streams /\ Len(stream) \in Nat /\ LAST = Len(stream) + 1
      /\ m \in Nat /\ Base \in Nat /\ curr \in Nat /\ buffer_size \in Nat
      /\ Base + curr = Start[m] /\ received = Base + buffer_size
  BY Places
<1>2. m <= Len(stream) => m \in 0 .. Len(stream) /\ Start[m + 1] = Start[m] + Size(m)
  BY <1>1, Starting
<1>3. CASE m_state = "HANDSHAKE" /\ curr + HANDSHAKE_SIZE > END
  <2>1. m = 0
    BY <1>3 DEF AtMessage
  <2>2. 0 + 1 = 1 /\ Size(0) = HANDSHAKE_SIZE /\ HANDSHAKE_SIZE \in Nat
    BY FramingAssumption DEF Size
  <2>3. Start[1] = Base + curr + HANDSHAKE_SIZE
    BY <1>1, <1>2, <2>1, <2>2
  <2>4. received < Start[1]
    BY <1>1, <1>3, <2>2, <2>3 DEF END
  <2> QED
    BY <1>1, <1>3, <2>1, <2>2, <2>3, <2>4 DEF NotWhole, END
<1>4. CASE m_state = "ACTION" /\ control = "parsing" /\ ~LengthThere
  <2>1. m # 0 /\ curr + 4 >= buffer_size
    BY <1>1, <1>4 DEF AtMessage, LengthThere, END, MESSAGE_LENGTH_SIZE
  <2>2. ASSUME m <= Len(stream)
        PROVE  received <= Start[m + 1] /\ (m \in Due => received < Start[m + 1])
    <3>1. m \in 1 .. Len(stream)
      BY <1>1, <2>1, <2>2
    <3>2. PICK n \in Nat : n = stream[m].length /\ Size(m) = 4 + n
      <4>1. stream[m].length \in Nat /\ Size(m) = 4 + stream[m].length
        BY <1>1, <2>1, <3>1, StreamType DEF Size, MESSAGE_LENGTH_SIZE
      <4> QED
        BY <4>1
    <3>3. Start[m + 1] = Base + curr + 4 + n
      BY <1>1, <1>2, <2>2, <3>2
    <3>4. m \in Due => n > 0
      BY <3>2 DEF Due
    <3> QED
      BY <1>1, <2>1, <3>3, <3>4
  <2> QED
    BY <1>1, <2>1, <2>2 DEF NotWhole, MESSAGE_LENGTH_SIZE
<1>5. CASE LengthThere /\ \E n \in LengthsAt(curr) \ {0} : ~Complete(n)
  <2>1. PICK n \in Nat : n = stream[m].length /\ Start[m + 1] = Base + curr + 4 + n /\ Size(m) = 4 + n
    BY <1>5, MessageThere
  <2>2. n # 0 /\ ~Complete(n)
    BY <1>5, <2>1, MessageThere
  <2>3. ~ (curr + n + 4 <= buffer_size)
    BY <2>2 DEF Complete, END, MESSAGE_LENGTH_SIZE
  <2>4. m \in Due
    BY <1>5, <2>1, <2>2, MessageThere DEF Due
  <2>5. received < Start[m + 1] /\ received <= Start[m + 1]
    <3>1. Base + curr + 4 + n \in Nat /\ received < Base + curr + 4 + n
      BY <1>1, <2>3
    <3> QED
      BY <1>1, <2>1, <3>1
  <2>6. curr + Size(m) > buffer_size
    <3>1. curr + (4 + n) > buffer_size
      BY <1>1, <2>3
    <3> QED
      BY <2>1, <3>1
  <2> QED
    BY <1>5, <2>4, <2>5, <2>6 DEF NotWhole
<1> QED
  BY <1>3, <1>4, <1>5 DEF Returns

(* A reason to close, before the connection is closed for it.              *)
LEMMA ClosedFor ==
  ASSUME UNCHANGED << stream, received, buffer >>, NEW m, Head(buffer)[1] = m,
         \/ m = 0 /\ received < HANDSHAKE_SIZE
         \/ m > 0 /\ received < Start[m + 1] /\ stream[m].id > 8
         \/ m > 0 /\ Size(m) > BUFFER_SIZE
  PROVE  ClosedOnlyFor'
<1>1. Start' = Start
  BY SameStream
<1>2. Size(m)' = Size(m)
  BY DEF Size
<1>3. Head(buffer')[1] = m
  OBVIOUS
<1> QED
  BY <1>1, <1>2, <1>3 DEF ClosedOnlyFor

LEMMA PartKept ==
  ASSUME FramingInv, keep_part
  PROVE  FramingInv'
<1>1. PICK m \in 0 .. LAST : AtMessage(m)
  BY DEF FramingInv
<1>2. /\ Returns /\ curr = 0
      /\ UNCHANGED << stream, received, m_state, buffer, curr, dispatched >>
      /\ control' \in {"closed", "reading"}
  BY DEF keep_part
<1>3. /\ stream \in Streams /\ LAST = Len(stream) + 1 /\ Len(stream) \in Nat /\ m \in Nat
      /\ Base \in Nat /\ buffer_size \in Nat /\ Base = Start[m]
      /\ received = Base + buffer_size /\ buffer \in Seq((0 .. Len(stream)) \X Nat)
      /\ m = LAST => buffer_size = 0
  <2>1. Base + 0 = Start[m] /\ Base \in Nat
    BY <1>1, <1>2, Places
  <2> QED
    BY <1>1, <1>2, <2>1, Places
<1>4. /\ LAST' = LAST /\ Start' = Start /\ Due' = Due /\ Base' = Base
      /\ buffer_size' = buffer_size /\ BufferRight'
  BY <1>2, SameStream, SameBuffer
<1>5. NotWhole(m)'
  BY <1>1, <1>2, PartLeft, SameStream
<1>6. AtMessage(m)'
  <2>1. Range(dispatched)' = {k \in Due' : k < m}
    BY <1>1, <1>2, <1>4 DEF AtMessage, Range
  <2>2. Base' + curr' = Start'[m] /\ (m = 0 <=> m_state' = "HANDSHAKE") /\ curr' = 0
    BY <1>1, <1>2, <1>4 DEF AtMessage
  <2> QED
    BY <1>5, <2>1, <2>2 DEF AtMessage
<1>7. TypeOK' /\ Increasing'
  <2>1. curr' \in 0 .. buffer_size
    BY <1>2, <1>3
  <2> QED
    BY <1>2, <2>1, TypeKept DEF FramingInv, TypeOK, Increasing
<1>8. CASE control' = "reading"
  BY <1>1, <1>4, <1>6, <1>7, <1>8, OpenStays DEF FramingInv
<1>9. CASE control' = "closed"
  <2>1. \/ buffer_size > 5 /\ \E id \in IdsAt(4) : id > 8
        \/ buffer_size = BUFFER_SIZE
    <3>1. PICK rejected \in Rejected :
            control' = IF rejected \/ buffer_size = BUFFER_SIZE THEN "closed" ELSE "reading"
      BY DEF keep_part
    <3>2. rejected \/ buffer_size = BUFFER_SIZE
      BY <1>9, <3>1
    <3> QED
      BY <3>1, <3>2 DEF Rejected
  <2>2. buffer_size > MESSAGE_LENGTH_SIZE
    BY <1>3, <2>1, FramingAssumption DEF MESSAGE_LENGTH_SIZE
  <2>3. m \in 0 .. Len(stream)
    BY <1>3, <2>2 DEF MESSAGE_LENGTH_SIZE
  <2>4. Head(buffer)[1] = m
    <3>1. 0 \in Nat /\ 0 < Size(m) /\ curr + 0 < buffer_size /\ curr + 0 + 1 = 1
      BY <1>2, <1>3, <2>2, <2>3, SizesType DEF MESSAGE_LENGTH_SIZE
    <3>2. buffer[1] = << m, 0 >>
      <4>1. buffer[curr + 0 + 1] = << m, 0 >>
        BY <1>1, <2>3, <3>1, BufferAt
      <4> QED
        BY <3>1, <4>1
    <3>3. Head(buffer) = buffer[1]
      BY <1>3, <2>2 DEF buffer_size, MESSAGE_LENGTH_SIZE
    <3> QED
      BY <3>2, <3>3
  <2>5. \/ m = 0 /\ HANDSHAKE_SIZE > buffer_size /\ received < Start[1]
        \/ m > 0 /\ LengthThere /\ received < Start[m + 1] /\ Size(m) > buffer_size
    <3>1. \/ m = 0 /\ 0 + HANDSHAKE_SIZE > buffer_size /\ received < Start[1]
          \/ m > 0 /\ 0 + MESSAGE_LENGTH_SIZE >= buffer_size
          \/ LengthThere /\ m \in Due /\ received < Start[m + 1] /\ 0 + Size(m) > buffer_size
      BY <1>1, <1>2, PartLeft
    <3>2. m \in Due => m > 0
      BY <1>3, StreamType DEF Due
    <3>3. Size(m) \in Nat /\ HANDSHAKE_SIZE \in Nat
      BY <1>3, <2>3, SizesType, FramingAssumption
    <3> QED
      BY <1>3, <2>2, <3>1, <3>2, <3>3 DEF MESSAGE_LENGTH_SIZE
  <2>6. ASSUME m = 0 PROVE ClosedOnlyFor'
    <3>1. 0 + 1 = 1 /\ Size(0) = HANDSHAKE_SIZE /\ Start[0] = 0 /\ 0 \in 0 .. Len(stream)
      BY <1>3, Starting DEF Size
    <3>2. Start[0 + 1] = Start[0] + Size(0)
      BY <1>3, <3>1, Starting
    <3>3. received < HANDSHAKE_SIZE
      BY <2>5, <2>6, <3>1, <3>2, FramingAssumption
    <3> QED
      BY <1>2, <2>4, <2>6, <3>3, ClosedFor
  <2>7. ASSUME m > 0, buffer_size = BUFFER_SIZE
        PROVE  ClosedOnlyFor'
    BY <1>2, <2>4, <2>5, <2>7, ClosedFor
  <2>8. ASSUME m > 0, buffer_size > 5, \E id \in IdsAt(4) : id > 8
        PROVE  ClosedOnlyFor'
    <3>1. /\ m \in 0 .. LAST /\ LengthThere /\ received < Start[m + 1]
          /\ Size(m) > buffer_size
      BY <2>5, <2>8
    <3>2. PICK n \in Nat : n = stream[m].length /\ Size(m) = 4 + n
      BY <1>1, <3>1, MessageThere
    <3>3. n # 0
      BY <1>3, <2>8, <3>1, <3>2
    <3>4. IdsAt(curr + MESSAGE_LENGTH_SIZE) = {stream[m].id}
      BY <1>1, <3>1, <3>2, <3>3, MessageThere
    <3>5. curr + MESSAGE_LENGTH_SIZE = 4
      BY <1>2 DEF MESSAGE_LENGTH_SIZE
    <3>6. stream[m].id > 8
      BY <2>8, <3>4, <3>5
    <3> QED
      BY <1>2, <2>4, <2>8, <3>1, <3>6, ClosedFor
  <2>9. ClosedOnlyFor'
    BY <1>3, <2>1, <2>6, <2>7, <2>8
  <2> QED
    BY <1>1, <1>4, <1>6, <1>7, <2>9 DEF FramingInv
<1> QED
  BY <1>2, <1>8, <1>9

LEMMA RestMoved ==
  ASSUME FramingInv, move_rest
  PROVE  FramingInv'
<1>1. PICK m \in 0 .. LAST : AtMessage(m)
  BY DEF FramingInv
<1>2. /\ Returns /\ curr' = 0 /\ control' = "reading"
      /\ UNCHANGED << stream, received, m_state, dispatched >>
      /\ buffer' = SubSeq(buffer, curr + 1, buffer_size)
  BY DEF move_rest
<1>3. /\ stream \in Streams /\ Base \in Nat /\ curr \in Nat /\ curr <= buffer_size
      /\ buffer_size \in Nat /\ received \in Nat /\ received = Base + buffer_size
      /\ Base + curr = Start[m] /\ Start[m] \in Nat
      /\ buffer \in Seq((0 .. Len(stream)) \X Nat) /\ StreamSize \in Nat
  BY <1>1, Places
<1>4. /\ LAST' = LAST /\ Start' = Start /\ Due' = Due /\ StreamSize' = StreamSize
      /\ Bytes' = Bytes
  BY <1>2, SameStream
<1>5. /\ buffer' \in Seq((0 .. Len(stream)) \X Nat) /\ Len(buffer') = buffer_size - curr
      /\ \A i \in 1 .. (buffer_size - curr) : buffer'[i] = buffer[curr + i]
  <2> DEFINE S == (0 .. Len(stream)) \X Nat
  <2>1. \A i \in (curr + 1) .. buffer_size : buffer[i] \in S
    <3>1. buffer \in Seq(S) /\ Len(buffer) = buffer_size
      BY <1>3 DEF buffer_size
    <3> HIDE DEF S
    <3>2. \A i \in 1 .. buffer_size : buffer[i] \in S
      BY <3>1, ElementOfSeq
    <3> QED
      BY <1>3, <3>2
  <2> HIDE DEF S
  <2>2. curr + 1 \in Int /\ buffer_size \in Int
    BY <1>3
  <2>3. /\ buffer' \in Seq(S)
        /\ Len(buffer') = IF curr + 1 <= buffer_size THEN buffer_size - (curr + 1) + 1 ELSE 0
        /\ \A i \in 1 .. (buffer_size - (curr + 1) + 1) : buffer'[i] = buffer[(curr + 1) + i - 1]
    BY <1>2, <2>1, <2>2, SubSeqProperties
  <2>4. Len(buffer') = buffer_size - curr /\ buffer_size - (curr + 1) + 1 = buffer_size - curr
    BY <1>3, <2>3
  <2>5. \A i \in 1 .. (buffer_size - curr) : (curr + 1) + i - 1 = curr + i
    BY <1>3
  <2>6. \A i \in 1 .. (buffer_size - curr) : buffer'[i] = buffer[curr + i]
    BY <2>3, <2>4, <2>5
  <2> QED
    BY <2>3, <2>4, <2>6 DEF S
<1>6. buffer_size' = buffer_size - curr /\ Base' = Start[m]
  <2>1. buffer_size' = buffer_size - curr
    BY <1>5 DEF buffer_size
  <2>2. Base' = received - (buffer_size - curr)
    BY <1>2, <2>1 DEF Base
  <2> QED
    BY <1>3, <2>1, <2>2
<1>7. BufferRight'
  <2>1. ASSUME NEW i \in 1 .. (buffer_size - curr)
        PROVE  buffer'[i] = Bytes[Start[m] + i - 1]
    <3>1. curr + i \in 1 .. buffer_size /\ Base + (curr + i) - 1 = Start[m] + i - 1
      BY <1>3
    <3>2. buffer[curr + i] = Bytes[Base + (curr + i) - 1]
      BY <3>1 DEF FramingInv, BufferRight
    <3> QED
      BY <1>5, <3>1, <3>2
  <2> QED
    BY <1>3, <1>4, <1>6, <2>1 DEF BufferRight
<1>8. AtMessage(m)'
  <2>1. NotWhole(m)'
    BY <1>1, <1>2, PartLeft, SameStream
  <2>2. Range(dispatched)' = {k \in Due' : k < m}
    BY <1>1, <1>2, <1>4 DEF AtMessage, Range
  <2>3. Base' + curr' = Start'[m]
    BY <1>2, <1>3, <1>4, <1>6
  <2>4. m = 0 <=> m_state' = "HANDSHAKE"
    BY <1>1, <1>2 DEF AtMessage
  <2> QED
    BY <1>2, <2>1, <2>2, <2>3, <2>4 DEF AtMessage
<1>9. TypeOK'
  <2>1. buffer_size \in Nat /\ buffer_size <= BUFFER_SIZE /\ BUFFER_SIZE \in Nat
    BY <1>3, FramingAssumption DEF FramingInv, TypeOK
  <2>2. curr' \in 0 .. buffer_size' /\ buffer_size' <= BUFFER_SIZE
    BY <1>2, <1>3, <1>6, <2>1
  <2>3. received' \in 0 .. StreamSize' /\ control' \in {"idle", "reading", "parsing", "closed"}
    BY <1>2, <1>4 DEF FramingInv, TypeOK
  <2> QED
    BY <1>2, <1>5, <2>2, <2>3 DEF FramingInv, TypeOK
<1>10. ClosedOnlyFor' /\ Increasing'
  BY <1>2, OpenStays DEF FramingInv, Increasing
<1> QED
  BY <1>1, <1>4, <1>7, <1>8, <1>9, <1>10 DEF FramingInv

LEMMA NothingMoved ==
  ASSUME FramingInv, UNCHANGED vars
  PROVE  FramingInv'
<1>1. UNCHANGED << stream, received, control, m_state, buffer, curr, dispatched >>
  BY DEF vars
<1>2. PICK m \in 0 .. LAST : AtMessage(m)
  BY DEF FramingInv
<1>3. /\ LAST' = LAST /\ Start' = Start /\ Due' = Due /\ Base' = Base
      /\ buffer_size' = buffer_size /\ BufferRight' /\ (NotWhole(m) => NotWhole(m)')
  BY <1>1, SameStream, SameBuffer
<1>4. AtMessage(m)'
  BY <1>1, <1>2, <1>3 DEF AtMessage, Range
<1>5. TypeOK' /\ Increasing'
  BY <1>1, TypeKept DEF FramingInv, TypeOK, Increasing
<1>6. ClosedOnlyFor'
  <2>1. CASE control = "closed"
    <3>1. Size(Head(buffer)[1])' = Size(Head(buffer)[1])
      BY <1>1 DEF Size
    <3>2. \A k : Stream!IsNext(k)' <=> Stream!IsNext(k)
      BY <1>1, <1>3 DEF Stream!IsNext, Stream!Range
    <3> QED
      BY <1>1, <1>3, <2>1, <3>1, <3>2 DEF FramingInv, ClosedOnlyFor
  <2> QED
    BY <1>1, <2>1, OpenStays
<1> QED
  BY <1>2, <1>3, <1>4, <1>5, <1>6 DEF FramingInv

LEMMA FramingInvariant == Spec => []FramingInv
<1>1. FramingInv /\ [Next]_vars => FramingInv'
  BY WokenUp, BytesRead, Handshaken, Skipped, Dispatched, PartKept, RestMoved, NothingMoved
     DEF Next, process_message
<1> QED
  BY <1>1, FramingInit, PTL DEF Spec
-----------------------------------------------------------------------------
(* The theorems.                                                           *)

(* What arrived whole and has an effect was dispatched, where no such      *)
(* message waits at curr.                                                  *)
LEMMA NoneWhole ==
  ASSUME FramingInv, NEW m \in 0 .. LAST, AtMessage(m), NotWhole(m),
         NEW k \in Due, Start[k + 1] <= received
  PROVE  k \in Range(dispatched)
<1>1. /\ stream \in Streams /\ Len(stream) \in Nat /\ LAST = Len(stream) + 1 /\ m \in Nat
      /\ received \in Nat
  BY Places
<1>2. k \in 1 .. Len(stream) /\ k \in 0 .. Len(stream) /\ k \in 0 .. LAST
  BY <1>1, StreamType DEF Due
<1>3. ASSUME m <= k PROVE FALSE
  <2>1. m \in 0 .. Len(stream) /\ m + 1 \in 0 .. LAST /\ k + 1 \in 0 .. LAST
    BY <1>1, <1>2, <1>3
  <2>2. Start[m + 1] \in Nat /\ Start[k] \in Nat /\ Start[k + 1] \in Nat
    BY <1>1, <1>2, <2>1, Starting
  <2>3. m # k
    BY <1>1, <1>2, <2>1, <2>2 DEF NotWhole
  <2>4. Start[m + 1] <= Start[k]
    BY <1>1, <1>2, <1>3, <2>1, <2>3, Starting
  <2>5. Start[k + 1] = Start[k] + Size(k) /\ Size(k) \in Nat /\ Size(k) >= 4
    BY <1>1, <1>2, Starting, SizesType DEF MESSAGE_LENGTH_SIZE
  <2>6. received <= Start[m + 1]
    BY <2>1 DEF NotWhole
  <2> QED
    BY <1>1, <2>2, <2>4, <2>5, <2>6
<1> QED
  BY <1>1, <1>2, <1>3 DEF AtMessage

(* The variables keep their types, for streams and buffers of any size:    *)
(* what is moved in the buffer and read from it lies in it.                *)
THEOREM FramingTyping == Spec => []TypeOK
<1>1. FramingInv => TypeOK
  BY DEF FramingInv
<1> QED
  BY <1>1, FramingInvariant, PTL

(* The messages are dispatched once and in the order of the peer, however  *)
(* their bytes are split over the calls of read.                           *)
THEOREM InOrder == Spec => []DispatchedInOrder
<1>1. FramingInv => DispatchedInOrder
  <2> SUFFICES ASSUME FramingInv PROVE DispatchedInOrder
    OBVIOUS
  <2>1. PICK m \in 0 .. LAST : AtMessage(m)
    BY DEF FramingInv
  <2>2. Range(dispatched) = {k \in Due : k < m} /\ m \in Nat
    BY <2>1, Places DEF AtMessage
  <2>3. ASSUME NEW k \in Range(dispatched), NEW j \in 1 .. k
        PROVE  j \in Range(dispatched) <=> j \in Due
    <3>1. k \in Nat /\ k < m
      BY <2>1, <2>2, Places, StreamType DEF Due
    <3> QED
      BY <2>2, <3>1
  <2> QED
    BY <2>3 DEF DispatchedInOrder, FramingInv, Increasing
<1> QED
  BY <1>1, FramingInvariant, PTL

(* When a handler of a READ event ends, no message that came whole waits   *)
(* in the buffer for the next one.                                         *)
THEOREM NoneWaits == Spec => []NoMessageWaits
<1>1. FramingInv => NoMessageWaits
  <2> SUFFICES ASSUME FramingInv, control = "idle", NEW k \in Due, Start[k + 1] <= received
               PROVE  k \in Range(dispatched)
    BY DEF NoMessageWaits
  <2>1. PICK m \in 0 .. LAST : AtMessage(m)
    BY DEF FramingInv
  <2>2. NotWhole(m)
    BY <2>1 DEF AtMessage
  <2> QED
    BY <2>1, <2>2, NoneWhole
<1> QED
  BY <1>1, FramingInvariant, PTL

(* What a connection is closed for is what the peer sent, or a handshake   *)
(* that came in parts, never bytes of two messages taken for one.          *)
THEOREM ClosesRightly == Spec => []ClosedOnlyFor
<1>1. FramingInv => ClosedOnlyFor
  BY DEF FramingInv
<1> QED
  BY <1>1, FramingInvariant, PTL

(* The stand-ins of the variables of MessageStream.                        *)
Arrived == {k \in Due : Start[k + 1] <= received}

Handler == IF control \in {"idle", "closed"} THEN control ELSE "busy"

LEMMA StandIns ==
  ASSUME UNCHANGED << stream, received >>
  PROVE  Due' = Due /\ Arrived' = Arrived
<1>1. Due' = Due /\ Start' = Start
  BY SameStream
<1> QED
  BY <1>1 DEF Arrived

LEMMA StreamInit == Init => Stream!Init
<1> SUFFICES ASSUME Init PROVE Stream!Init
  OBVIOUS
<1>1. stream \in Streams /\ received = 0 /\ control = "idle" /\ dispatched = << >>
  BY DEF Init
<1>2. Due \subseteq Nat /\ Len(stream) \in Nat /\ \A k \in Due : k \in 1 .. Len(stream)
  BY <1>1, StreamType DEF Due
<1>3. \A k \in Due : Start[k + 1] > 0
  <2> SUFFICES ASSUME NEW k \in Due PROVE Start[k + 1] > 0
    OBVIOUS
  <2>1. k \in 0 .. Len(stream) /\ k \in 0 .. LAST
    BY <1>2 DEF LAST
  <2>2. Start[k + 1] = Start[k] + Size(k) /\ Start[k] \in Nat /\ Size(k) \in Nat /\ Size(k) >= 4
    BY <1>1, <2>1, Starting, SizesType DEF MESSAGE_LENGTH_SIZE
  <2> QED
    BY <2>2
<1>4. {k \in Due : Start[k + 1] <= received} = {}
  <2> SUFFICES ASSUME NEW k \in Due, Start[k + 1] <= 0 PROVE FALSE
    BY <1>1
  <2>1. k \in 0 .. Len(stream) /\ k + 1 \in 0 .. LAST
    BY <1>2 DEF LAST
  <2>2. Start[k + 1] \in Nat
    BY <1>1, <2>1, Starting
  <2> QED
    BY <1>3, <2>2
<1> QED
  BY <1>1, <1>2, <1>4 DEF Stream!Init

LEMMA StreamStep == FramingInv /\ [Next]_vars => [Stream!Next]_(Stream!stream)
<1> SUFFICES ASSUME FramingInv, [Next]_vars
             PROVE  Stream!Next \/ UNCHANGED Stream!stream
  OBVIOUS
<1>1. PICK m \in 0 .. LAST : AtMessage(m)
  BY DEF FramingInv
(* A step that dispatches nothing and reads nothing, in a busy handler.    *)
<1>2. ASSUME UNCHANGED << stream, received, dispatched >>, Handler' = Handler
      PROVE  UNCHANGED Stream!stream
  BY <1>2, StandIns DEF Stream!stream, Arrived, Handler
<1>3. ASSUME UNCHANGED << stream, received, dispatched >>,
             control \notin {"idle", "closed"}, control' = "closed"
      PROVE  Stream!Close
  BY <1>3, StandIns DEF Stream!Close, Arrived
<1>4. CASE on_read
  <2>1. Stream!Wake
    BY <1>4, StandIns DEF on_read, Stream!Wake, Arrived
  <2> QED
    BY <2>1 DEF Stream!Next
<1>5. CASE read_nothing
  <2>1. NotWhole(m)
    BY <1>1, <1>5 DEF AtMessage, read_nothing
  <2>2. {k \in Due : Start[k + 1] <= received} \subseteq Range(dispatched)
    BY <1>1, <2>1, NoneWhole
  <2>3. Stream!Rest
    BY <1>5, <2>2, StandIns DEF read_nothing, Stream!Rest, Arrived, Stream!Range, Range
  <2> QED
    BY <2>3 DEF Stream!Next
<1>6. ASSUME NEW n \in 1 .. BUFFER_SIZE, read(n)
      PROVE  Stream!Next
  <2>1. /\ control = "reading" /\ control' = "parsing" /\ received' = received + n
        /\ UNCHANGED << stream, dispatched >>
    BY <1>6 DEF read
  <2>2. Due' = Due /\ Start' = Start
    BY <2>1, SameStream
  <2>3. Arrived \subseteq Arrived'
    <3> SUFFICES ASSUME NEW k \in Due, Start[k + 1] <= received
                 PROVE  Start[k + 1] <= received + n
      BY <2>1, <2>2 DEF Arrived
    <3>1. /\ stream \in Streams /\ received \in Nat /\ LAST = Len(stream) + 1
          /\ Len(stream) \in Nat
      BY <1>1, Places
    <3>2. k + 1 \in 0 .. LAST
      BY <3>1, StreamType DEF Due
    <3>3. Start[k + 1] \in Nat
      BY <3>1, <3>2, Starting
    <3> QED
      BY <3>1, <3>3
  <2>4. Arrived' \subseteq Due
    BY <2>2 DEF Arrived
  <2>5. Stream!Arrive
    BY <2>1, <2>2, <2>3, <2>4 DEF Stream!Arrive, Arrived
  <2> QED
    BY <2>5 DEF Stream!Next
<1>7. CASE process_handshake \/ skip_keep_alive \/ move_rest
  BY <1>2, <1>7
     DEF process_handshake, skip_keep_alive, LengthThere, move_rest, Returns, Handler
<1>8. CASE keep_part
  <2>1. /\ control = "parsing" /\ control' \in {"reading", "closed"}
        /\ UNCHANGED << stream, received, dispatched >>
    BY <1>8 DEF keep_part, Returns, LengthThere
  <2> QED
    BY <1>2, <1>3, <2>1 DEF Handler, Stream!Next
<1>9. CASE dispatch
  <2>1. /\ m \in Due /\ Stream!IsNext(m) /\ UNCHANGED << stream, received >>
        /\ control = "parsing" /\ Start[m + 1] <= received
    BY <1>1, <1>9, DispatchEffect
  <2>2. CASE dispatched' = Append(dispatched, m) /\ UNCHANGED control
    <3>1. m \in {k \in Due : Start[k + 1] <= received}
      BY <2>1
    <3>2. Stream!Dispatch
      BY <2>1, <2>2, <3>1, StandIns DEF Stream!Dispatch, Arrived
    <3> QED
      BY <3>2 DEF Stream!Next
  <2>3. CASE control' = "closed" /\ UNCHANGED << curr, dispatched >>
    BY <1>3, <2>1, <2>3 DEF Stream!Next
  <2> QED
    BY <1>1, <1>9, <2>2, <2>3, DispatchEffect
<1>10. CASE UNCHANGED vars
  BY <1>2, <1>10 DEF vars, Handler
<1> QED
  BY <1>4, <1>5, <1>6, <1>7, <1>8, <1>9, <1>10 DEF Next, process_message

(* To the handlers of the messages a connection is a stream of whole       *)
(* messages: no split of the bytes makes a dispatch early, late, double or *)
(* out of turn, and none is left when a handler ends.                      *)
THEOREM StreamImplemented == Spec => ImplementsMessageStream
<1> QED
  BY StreamInit, StreamStep, FramingInvariant, PTL DEF Spec, ImplementsMessageStream, Stream!Spec
=============================================================================
