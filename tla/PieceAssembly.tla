---------------------------- MODULE PieceAssembly ----------------------------
(***************************************************************************)
(* What the buffer of a piece promises: it is the set of the bytes that    *)
(* have been received.  A block whose missing bytes do not lie together,   *)
(* because received bytes separate them, is refused.  Module PeerProtocol  *)
(* keeps the buffer of a connection in this form.                          *)
(***************************************************************************)
EXTENDS Integers

CONSTANTS
  Ids,      \* what a piece may be called
  NoId,     \* the name of no piece, in Ids: such a buffer takes the first name it is given
  MaxSize

VARIABLES
  open,      \* is there a buffer
  id,
  size,
  received,  \* offsets of the bytes received
  answer     \* the last block offered, and whether it was refused

assembly == << open, id, size, received, answer >>

Answer(i, range, refused) == [id |-> i, range |-> range, refused |-> refused]
NoAnswer == Answer(NoId, {}, FALSE)

Closed == open = FALSE /\ id = NoId /\ size = 0 /\ received = {}

Init == Closed /\ answer = NoAnswer

Open(i, n) ==
  /\ open' = TRUE /\ id' = i /\ size' = n
  /\ received' = {} /\ answer' = NoAnswer

(* Received bytes of range separate missing ones.                          *)
Splits(range) ==
  \E a, b, c \in range : a < b /\ b < c /\ a \notin received /\ b \in received /\ c \notin received

Accept(i, range) ==
  /\ open /\ id \in {NoId, i} /\ ~Splits(range)
  /\ id' = i
  /\ received' = received \union range
  /\ answer' = Answer(i, range, FALSE)
  /\ UNCHANGED << open, size >>

(* A block that is refused may still have named the buffer.                *)
Refuse(i, range) ==
  /\ ~open \/ id \notin {NoId, i} \/ Splits(range)
  /\ answer' = Answer(i, range, TRUE)
  /\ id' \in IF open /\ id = NoId THEN {i} ELSE {id}
  /\ UNCHANGED << open, size, received >>

Close ==
  /\ open' = FALSE /\ id' = NoId /\ size' = 0
  /\ received' = {} /\ answer' = NoAnswer

Next ==
  \/ \E i \in Ids, n \in 1 .. MaxSize : Open(i, n)
  \/ \E i \in Ids \ {NoId}, a, b \in 0 .. (MaxSize - 1) :
       a <= b /\ (open => b < size) /\ (Accept(i, a .. b) \/ Refuse(i, a .. b))
  \/ Close

Spec == Init /\ [][Next]_assembly
=============================================================================
