-------------------------------- MODULE Piece --------------------------------
(***************************************************************************)
(* The buffer of the piece a connection downloads (class Piece): the bytes *)
(* and the ordered set of the blocks received, kept disjoint and merged by *)
(* add.  A caller uses it as PeerProtocol does: init, then add for every   *)
(* block of the peer, and get when full, or clear.                         *)
(***************************************************************************)
EXTENDS Integers

CONSTANTS
  MaxSize,  (* the largest piece                                           *)
  Names     (* indices of pieces                                           *)

ASSUME PieceAssumption == MaxSize \in Nat \ {0} /\ Names \subseteq Nat

NoName == -1
NoByte == -1

VARIABLES
  m_data,             (* the buffer, byte by byte, << >> when there is none *)
  m_id,
  m_full_piece_size,
  m_blocks,           (* set of blocks, no two with the same offset        *)
  last_add            (* the last call of add, and whether it threw        *)

vars == << m_data, m_id, m_full_piece_size, m_blocks, last_add >>

Block(offset, size) == [offset |-> offset, size |-> size]
End(b)   == b.offset + b.size
Bytes(b) == b.offset .. (End(b) - 1)

Add(name, b, thrown) == [name |-> name, block |-> b, thrown |-> thrown]
NoAdd == Add(NoName, Block(0, 0), FALSE)

HasBuffer == DOMAIN m_data # {}

(* std::set orders the blocks by offset, so insert does nothing when a     *)
(* block with the same offset is there.                                    *)
Insert(b, blocks) ==
  IF \E x \in blocks : x.offset = b.offset THEN blocks ELSE blocks \union {b}

(* Mutant: `<=` for `<`, so a block whose end is also the end of right     *)
(* counts as one that contains right.                                      *)
modify_on_intersection_strict(b, right) ==
  IF End(b) <= right.offset \/ b.offset >= End(right)
    THEN [error |-> "OK", block |-> b]
  ELSE IF b.offset < right.offset
    THEN IF End(right) <= End(b)
           THEN [error |-> "RIGHT_IN_SELF", block |-> b]
           ELSE [error |-> "OK", block |-> Block(b.offset, right.offset - b.offset)]
  ELSE IF End(b) < End(right)
    THEN [error |-> "SELF_IN_RIGHT", block |-> b]
    ELSE [error |-> "OK", block |-> Block(End(right), End(b) - End(right))]

(* What is left of block b, which is to be added, beside block right; or   *)
(* the error thrown: b lies in right, or right in b.                       *)
modify_on_intersection(b, right) ==
  IF End(b) <= right.offset \/ b.offset >= End(right)
    THEN [error |-> "OK", block |-> b]
  ELSE IF b.offset < right.offset
    THEN IF End(right) < End(b)
           THEN [error |-> "RIGHT_IN_SELF", block |-> b]
           ELSE [error |-> "OK", block |-> Block(b.offset, right.offset - b.offset)]
  ELSE IF End(b) < End(right)
    THEN [error |-> "SELF_IN_RIGHT", block |-> b]
    ELSE [error |-> "OK", block |-> Block(End(right), End(b) - End(right))]

(* The neighbours of a new block, as sets of at most one block.            *)
Prev(b) == {x \in m_blocks : x.offset <= b.offset /\
              \A y \in m_blocks : y.offset <= b.offset => y.offset <= x.offset}
NextOf(b) == {x \in m_blocks : x.offset > b.offset /\
              \A y \in m_blocks : y.offset > b.offset => y.offset >= x.offset}

(* Cutting b to fit beside the blocks of a set of at most one; cut is what *)
(* an earlier cut left.                                                    *)
CutBeside(cut, neighbours) ==
  IF cut.error # "OK" \/ neighbours = {} THEN cut
  ELSE modify_on_intersection(cut.block, CHOOSE x \in neighbours : TRUE)

(* Mutant: no second merge, with next, after the one with prev.            *)
Merged_once(b, prev, next) ==
  IF \E p \in prev : End(p) = b.offset
  THEN UNION {Insert(Block(p.offset, p.size + b.size), m_blocks \ {p}) : p \in prev}
  ELSE Insert(b, m_blocks)

(* m_blocks once block b, which fits beside its neighbours, is inserted    *)
(* and merged: with prev, or else with next when there is no prev; then    *)
(* the two that may touch now.                                             *)
Merged(b, prev, next) ==
  IF prev = {}
  THEN LET n == CHOOSE x \in next : TRUE
       IN  IF End(b) = n.offset
           THEN Insert(Block(b.offset, b.size + n.size), m_blocks) \ {n}
           ELSE Insert(b, m_blocks)
  ELSE LET p       == CHOOSE x \in prev : TRUE
           touches == End(p) = b.offset
           left    == IF touches THEN Block(p.offset, p.size + b.size) ELSE b
           blocks  == IF touches THEN Insert(left, m_blocks \ {p}) ELSE Insert(b, m_blocks)
       IN  IF \E n \in next : End(left) = n.offset
           THEN LET n == CHOOSE x \in next : TRUE
                IN  Insert(Block(left.offset, left.size + n.size), blocks \ {left}) \ {n}
           ELSE blocks

(* The byte of the piece at offset k is called k: byte j of the message    *)
(* that brings the bytes from offset on.                                   *)
Source(offset, j) == offset + j

(* Mutant: the source of the copy is not moved to where the part starts.   *)
Copied_unshifted(b, offset) ==
  [k \in DOMAIN m_data |->
     IF k \in Bytes(b) THEN Source(offset, k - b.offset) ELSE m_data[k]]

(* memcpy of the part b that is left of the block that starts at offset.   *)
Copied(b, offset) ==
  [k \in DOMAIN m_data |->
     IF k \in Bytes(b) THEN Source(offset, (b.offset - offset) + (k - b.offset))
     ELSE m_data[k]]

Init ==
  /\ m_data = << >>
  /\ m_id = NoName
  /\ m_full_piece_size = 0
  /\ m_blocks = {}
  /\ last_add = NoAdd

init(name, size) ==
  /\ m_id' = name
  /\ m_data' = [k \in 0 .. (size - 1) |-> NoByte]
  /\ m_blocks' = {}
  /\ m_full_piece_size' = size
  /\ last_add' = NoAdd
-----------------------------------------------------------------------------
(* add: with no buffer, or the buffer of another piece, it throws.         *)
AddThrows(name, b) ==
  /\ ~HasBuffer \/ m_id \notin {NoName, name}
  /\ last_add' = Add(name, b, TRUE)
  /\ UNCHANGED << m_data, m_id, m_full_piece_size, m_blocks >>

AddFirst(name, b) ==
  /\ m_blocks = {}
  /\ m_blocks' = {b}
  /\ m_data' = Copied(b, b.offset)
  /\ last_add' = Add(name, b, FALSE)

AddNext(name, b) ==
  /\ m_blocks # {}
  /\ LET prev == Prev(b)
         next == NextOf(b)
         cut  == CutBeside(CutBeside([error |-> "OK", block |-> b], prev), next)
     IN  \/ /\ cut.error = "RIGHT_IN_SELF"
            /\ last_add' = Add(name, b, TRUE)
            /\ UNCHANGED << m_data, m_blocks >>
         \/ /\ cut.error = "SELF_IN_RIGHT" \/ (cut.error = "OK" /\ cut.block.size = 0)
            /\ last_add' = Add(name, b, FALSE)
            /\ UNCHANGED << m_data, m_blocks >>
         \/ /\ cut.error = "OK" /\ cut.block.size > 0
            /\ m_data' = Copied(cut.block, b.offset)
            /\ m_blocks' = Merged(cut.block, prev, next)
            /\ last_add' = Add(name, b, FALSE)

add(name, b) ==
  \/ AddThrows(name, b)
  \/ /\ HasBuffer /\ m_id \in {NoName, name}
     /\ m_id' = name
     /\ AddFirst(name, b) \/ AddNext(name, b)
     /\ UNCHANGED m_full_piece_size

First == CHOOSE x \in m_blocks : \A y \in m_blocks : x.offset <= y.offset
(* Mutant: full looks for the end of the last block.                       *)
full_at_end == m_blocks # {} /\ \E x \in m_blocks : End(x) = m_full_piece_size
full  == m_blocks # {} /\ First.size = m_full_piece_size

(* Mutant: the size is not reset.                                          *)
clear_keeps_size ==
  /\ m_data' = << >>
  /\ m_id' = NoName
  /\ m_blocks' = {}
  /\ last_add' = NoAdd
  /\ UNCHANGED m_full_piece_size

clear ==
  /\ m_data' = << >>
  /\ m_id' = NoName
  /\ m_full_piece_size' = 0
  /\ m_blocks' = {}
  /\ last_add' = NoAdd

get == full /\ clear

(* A block of the peer lies in the piece and is not empty.                 *)
Next ==
  \/ \E name \in Names \union {NoName}, size \in 1 .. MaxSize : init(name, size)
  \/ \E name \in Names, offset \in 0 .. (MaxSize - 1), size \in 1 .. MaxSize :
       /\ offset + size <= (IF HasBuffer THEN m_full_piece_size ELSE MaxSize)
       /\ add(name, Block(offset, size))
  \/ get \/ clear

Spec == Init /\ [][Next]_vars
-----------------------------------------------------------------------------
Received == UNION {Bytes(b) : b \in m_blocks}

(* The type of every variable.                                             *)
TypeOK ==
  /\ m_full_piece_size \in 0 .. MaxSize
  /\ m_data \in [0 .. (m_full_piece_size - 1) -> 0 .. (MaxSize - 1) \union {NoByte}]
  /\ m_id \in Names \union {NoName}
  /\ m_blocks \subseteq [offset: 0 .. (MaxSize - 1), size: 1 .. MaxSize]
  /\ last_add.name \in Names \union {NoName} /\ last_add.thrown \in BOOLEAN
  /\ last_add.block \in [offset: 0 .. (MaxSize - 1), size: 0 .. MaxSize]

(* The blocks do not overlap, and two that touch have been merged, however *)
(* the blocks of the peer arrived.                                         *)
BlocksMerged ==
  \A b, c \in m_blocks : b.offset < c.offset => End(b) < c.offset

(* The buffer holds, at the offset of every byte received, that byte: the  *)
(* part of a block copied is the right part of the message.                *)
BytesInPlace ==
  \A k \in DOMAIN m_data : m_data[k] = (IF k \in Received THEN k ELSE NoByte)

(* full, which looks at the size of the first block only, holds when every *)
(* byte has been received and not before: get, and with it the write to    *)
(* the files, always takes a whole piece.                                  *)
FullWhenAllReceived == HasBuffer => (full <=> Received = DOMAIN m_data)

Assembly == INSTANCE PieceAssembly WITH
  Ids <- Names \union {NoName}, NoId <- NoName,
  open <- HasBuffer, id <- m_id, size <- m_full_piece_size,
  received <- Received,
  answer <- [id |-> last_add.name, range |-> Bytes(last_add.block), refused |-> last_add.thrown]

(* The list of blocks stands for the set of the bytes received: add takes  *)
(* in every byte of a block, or refuses the block, and that only when      *)
(* received bytes split what it brings.                                    *)
ImplementsAssembly == Assembly!Spec
=============================================================================
