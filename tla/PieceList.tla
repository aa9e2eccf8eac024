------------------------------ MODULE PieceList ------------------------------
(***************************************************************************)
(* The pool of pieces that every peer connection shares (class PieceList). *)
(* A piece is handed out either from the list of returned pieces or, when  *)
(* that list is empty, as the next piece never handed out before.  Each    *)
(* operation runs under the spinlock m_lock, so each is one atomic step;   *)
(* the modules of the callers use the operations as conjuncts of theirs.   *)
(***************************************************************************)
EXTENDS Integers, Sequences, Functions

CONSTANTS
  MAX_PIECE_NUM,   (* index of the last piece                              *)
  PIECE_SIZE,      (* bytes of every piece but the last                    *)
  LAST_PIECE_SIZE  (* full size % piece size: 0 when the size is a multiple *)

ASSUME PieceListAssumption ==
  /\ MAX_PIECE_NUM \in Nat
  /\ PIECE_SIZE \in Nat \ {0}
  /\ LAST_PIECE_SIZE \in 0 .. (PIECE_SIZE - 1)

VARIABLES
  m_next_piece,      (* the first piece never handed out                   *)
  m_returned_pieces  (* FIFO list of pieces given back                     *)

pool == << m_next_piece, m_returned_pieces >>

Pieces  == 0 .. MAX_PIECE_NUM
NoPiece == -1
Indices == Pieces \union {NoPiece}

PieceListInit ==
  /\ m_next_piece = 0
  /\ m_returned_pieces = << >>

(* The size get_piece answers with for index i: NoPiece, taken from the    *)
(* list like any other entry, differs from MAX_PIECE_NUM.                  *)
SizeOf(i) == IF i = MAX_PIECE_NUM THEN LAST_PIECE_SIZE ELSE PIECE_SIZE

(* Mutant: `<=` taken for `<` in the other direction, one piece too many.   *)
PoolExhausted_one_more == m_returned_pieces = << >> /\ m_next_piece > MAX_PIECE_NUM + 1

PoolExhausted == m_returned_pieces = << >> /\ m_next_piece > MAX_PIECE_NUM

(* Mutant: the list of returned pieces is popped but not read.             *)
PieceToGet_ignores_list == IF PoolExhausted THEN NoPiece ELSE m_next_piece

(* What the next get_piece stores in piece_index, and what it returns.     *)
PieceToGet ==
  IF m_returned_pieces # << >> THEN Head(m_returned_pieces)
  ELSE IF PoolExhausted THEN NoPiece ELSE m_next_piece

SizeToGet == IF PoolExhausted THEN 0 ELSE SizeOf(PieceToGet)

(* Mutant: pop_front is forgotten.                                         *)
get_piece_keeps_entry ==
  IF m_returned_pieces # << >> THEN UNCHANGED pool
  ELSE /\ m_next_piece' = IF PoolExhausted THEN m_next_piece ELSE m_next_piece + 1
       /\ UNCHANGED m_returned_pieces

(* The effect of get_piece on the pool; its two results are above.         *)
get_piece ==
  \/ /\ m_returned_pieces # << >>
     /\ m_returned_pieces' = Tail(m_returned_pieces)
     /\ UNCHANGED m_next_piece
  \/ /\ m_returned_pieces = << >>
     /\ m_next_piece' = IF PoolExhausted THEN m_next_piece ELSE m_next_piece + 1
     /\ UNCHANGED m_returned_pieces

(* The argument is stored whatever it is, -1 included.                     *)
return_piece(i) ==
  /\ m_returned_pieces' = Append(m_returned_pieces, i)
  /\ UNCHANGED m_next_piece
=============================================================================
