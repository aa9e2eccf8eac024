----------------------------- MODULE PeerProtocol -----------------------------
(***************************************************************************)
(* The protocol object of each peer connection (class PeerProtocol): what  *)
(* a message from the peer does to it and to the shared PieceList.         *)
(*                                                                         *)
(* A handler runs on a worker of the thread pool from ClientLogic::on_read *)
(* and takes the spinlock of the PieceList several times, so its control   *)
(* point pc is part of the state: "reading" between two messages,          *)
(* "picking" before a get_piece of the search for a piece, "returning"     *)
(* before the return_piece that follows a failed attempt.  Module Download *)
(* adds the scheduling ("idle", "closed") and the end of the process       *)
(* ("crashed").                                                            *)
(*                                                                         *)
(* The block assembly (class Piece) is here the set of the bytes received; *)
(* module Piece shows that the list of blocks of the code stands for it.   *)
(***************************************************************************)
EXTENDS PieceList, FiniteSets

CONSTANTS
  Connections,     (* the peer connections                                 *)
  ATTEMPTS,        (* get_piece calls of one search (20 in the code)       *)
  BLOCK_SIZE,      (* bytes asked by one request (16384 in the code)       *)
  BITS_PER_BYTE    (* 8, or less to reach the end of a bit set with few pieces *)

ASSUME PeerProtocolAssumption ==
  /\ MAX_PIECE_NUM > 0      \* number_of_pieces() wraps around for one piece
  /\ ATTEMPTS \in Nat \ {0}
  /\ BLOCK_SIZE \in Nat \ {0}
  /\ BITS_PER_BYTE \in Nat \ {0}

VARIABLES
  pc,                (* control point of the handler of a connection       *)
  protocol_state,    (* PeerProtocol::m_state                              *)
  m_clients_pieces,  (* bit set: the pieces set, and its length in bits    *)
  m_piece_index,     (* the piece being downloaded, or NoPiece             *)
  m_piece_size,
  m_piece,           (* the Piece object: id, size, received bytes         *)
  m_messages,        (* queue of messages to write                         *)
  attempt,           (* attempts made by the search that is running        *)
  written            (* pieces handed to Files::write_piece with success   *)

searchVars == << m_piece_index, m_piece_size, m_piece, attempt, written >>

Handshake  == [type |-> "HANDSHAKE"]
Interested == [type |-> "INTERESTED"]
Request(i, o, n) == [type |-> "REQUEST", index |-> i, offset |-> o, length |-> n]
EmptyPiece == [id |-> NoPiece, size |-> 0, received |-> {}]
(* Mutant: the last piece gets a buffer of the common size.                *)
InitialPiece_common_size(i, size) == [id |-> i, size |-> PIECE_SIZE, received |-> {}]
InitialPiece(i, size) == [id |-> i, size |-> size, received |-> {}]

Bytes(r)    == r.offset .. (r.offset + r.length - 1)
Full(piece) == piece.received = 0 .. (piece.size - 1)

number_of_pieces == MAX_PIECE_NUM - 1
BytesFor(n) == (n + BITS_PER_BYTE - 1) \div BITS_PER_BYTE

PeerProtocolInit ==
  /\ protocol_state = [c \in Connections |-> "HANDSHAKE"]
  /\ m_clients_pieces = [c \in Connections |->
       [set |-> {}, bits |-> BITS_PER_BYTE * (number_of_pieces \div BITS_PER_BYTE + 1)]]
  /\ m_piece_index = [c \in Connections |-> NoPiece]
  /\ m_piece_size = [c \in Connections |-> 0]
  /\ m_piece = [c \in Connections |-> EmptyPiece]
  /\ m_messages = [c \in Connections |-> << Handshake >>]
  /\ attempt = [c \in Connections |-> 0]
  /\ written = {}

(* Reading bit i of the bit set.  BitSet is external code: past the end    *)
(* (and NoPiece converts to the largest uint64) it may read either value,  *)
(* throw, or end the process ("crash", see Crash in Download).             *)
BitReads(c, i) ==
  IF i \in 0 .. (m_clients_pieces[c].bits - 1)
  THEN {IF i \in m_clients_pieces[c].set THEN "set" ELSE "clear"}
  ELSE {"set", "clear", "throw", "crash"}

(* Mutant: every request asks for a whole block.                           *)
create_request_whole_blocks(i, size) ==
  [k \in 1 .. ((size + BLOCK_SIZE - 1) \div BLOCK_SIZE) |->
     Request(i, (k - 1) * BLOCK_SIZE, BLOCK_SIZE)]

(* Mutant: the part of a block at the end of the piece is not asked for.   *)
create_request_rounds_down(i, size) ==
  [k \in 1 .. (size \div BLOCK_SIZE) |-> Request(i, (k - 1) * BLOCK_SIZE, BLOCK_SIZE)]

(* create_request: the requests for piece i of the given size, in order.   *)
create_request(i, size) ==
  [k \in 1 .. ((size + BLOCK_SIZE - 1) \div BLOCK_SIZE) |->
     LET offset == (k - 1) * BLOCK_SIZE
     IN  Request(i, offset,
                 IF offset + BLOCK_SIZE > size THEN size - offset ELSE BLOCK_SIZE)]
-----------------------------------------------------------------------------
(* get_piece_index: the search for a piece the peer has.                   *)

(* A search starts with no attempt made.                                   *)
StartSearch(c) == pc' = [pc EXCEPT ![c] = "picking"]

(* Mutant: get_piece_index does not ask whether the peer has the piece.    *)
Verdicts_unasked(c) == IF SizeToGet = 0 THEN {"clear"} ELSE {"set"}

(* What get_piece_index may find of the piece it gets: no piece at all is  *)
(* treated as one that the peer does not have.                             *)
Verdicts(c) == IF SizeToGet = 0 THEN {"clear"} ELSE BitReads(c, PieceToGet)

(* One get_piece of the search, and what follows it up to the next lock,   *)
(* unless the process ends there.  The previous m_piece_index is           *)
(* overwritten, whatever it was.                                           *)
TryPiece(c) ==
  /\ pc[c] = "picking"
  /\ get_piece
  /\ m_piece_index' = [m_piece_index EXCEPT ![c] = PieceToGet]
  /\ m_piece_size' = [m_piece_size EXCEPT ![c] = SizeToGet]
  /\ \E bit \in Verdicts(c) :
       \/ /\ bit = "set"
          /\ m_piece' = [m_piece EXCEPT ![c] = InitialPiece(PieceToGet, SizeToGet)]
          /\ m_messages' = [m_messages EXCEPT ![c] =
               @ \o create_request(PieceToGet, SizeToGet)]
          /\ pc' = [pc EXCEPT ![c] = "reading"]
          /\ attempt' = [attempt EXCEPT ![c] = 0]
       \/ /\ bit = "clear"
          /\ pc' = [pc EXCEPT ![c] = "returning"]
          /\ UNCHANGED << m_piece, m_messages, attempt >>
       \/ /\ bit = "throw"
          /\ pc' = [pc EXCEPT ![c] = "closed"]
          /\ attempt' = [attempt EXCEPT ![c] = 0]
          /\ UNCHANGED << m_piece, m_messages >>
  /\ UNCHANGED << protocol_state, m_clients_pieces, written >>

(* Mutant: the attempts are not counted.                                   *)
GiveBackPiece_uncounted(c) ==
  /\ pc[c] = "returning"
  /\ return_piece(m_piece_index[c])
  /\ m_piece_index' = [m_piece_index EXCEPT ![c] = NoPiece]
  /\ m_piece_size' = [m_piece_size EXCEPT ![c] = 0]
  /\ pc' = [pc EXCEPT ![c] = "picking"]
  /\ UNCHANGED << protocol_state, m_clients_pieces, m_piece, m_messages, attempt, written >>

(* The return_piece of a failed attempt; after the last one the search     *)
(* gives up, and nothing but the next message of the peer starts another.  *)
GiveBackPiece(c) ==
  /\ pc[c] = "returning"
  /\ return_piece(m_piece_index[c])
  /\ m_piece_index' = [m_piece_index EXCEPT ![c] = NoPiece]
  /\ m_piece_size' = [m_piece_size EXCEPT ![c] = 0]
  /\ \/ /\ attempt[c] + 1 < ATTEMPTS
        /\ attempt' = [attempt EXCEPT ![c] = @ + 1]
        /\ pc' = [pc EXCEPT ![c] = "picking"]
     \/ /\ attempt[c] + 1 >= ATTEMPTS
        /\ attempt' = [attempt EXCEPT ![c] = 0]
        /\ pc' = [pc EXCEPT ![c] = "reading"]
  /\ UNCHANGED << protocol_state, m_clients_pieces, m_piece, m_messages, written >>
-----------------------------------------------------------------------------
(* The message handlers.                                                   *)

process_handshake(c) ==
  /\ pc[c] = "reading" /\ protocol_state[c] = "HANDSHAKE"
  /\ protocol_state' = [protocol_state EXCEPT ![c] = "ACTION"]
  /\ UNCHANGED << pool, pc, m_clients_pieces, m_messages, searchVars >>

Processing(c) == pc[c] = "reading" /\ protocol_state[c] = "ACTION"

(* Mutant: m_piece_index is not reset.                                     *)
process_choke_keeps_index(c) ==
  /\ Processing(c)
  /\ return_piece(m_piece_index[c])
  /\ m_piece_size' = [m_piece_size EXCEPT ![c] = 0]
  /\ m_piece' = [m_piece EXCEPT ![c] = EmptyPiece]
  /\ UNCHANGED << pc, protocol_state, m_clients_pieces, m_piece_index, m_messages,
                  attempt, written >>

(* Mutant: the piece is not returned.                                      *)
process_choke_drops_piece(c) ==
  /\ Processing(c)
  /\ m_piece_index' = [m_piece_index EXCEPT ![c] = NoPiece]
  /\ m_piece_size' = [m_piece_size EXCEPT ![c] = 0]
  /\ m_piece' = [m_piece EXCEPT ![c] = EmptyPiece]
  /\ UNCHANGED << pool, pc, protocol_state, m_clients_pieces, m_messages, attempt, written >>

(* The piece in hand goes back to the pool, and so does NoPiece when there *)
(* is none.                                                                *)
process_choke(c) ==
  /\ Processing(c)
  /\ return_piece(m_piece_index[c])
  /\ m_piece_index' = [m_piece_index EXCEPT ![c] = NoPiece]
  /\ m_piece_size' = [m_piece_size EXCEPT ![c] = 0]
  /\ m_piece' = [m_piece EXCEPT ![c] = EmptyPiece]
  /\ UNCHANGED << pc, protocol_state, m_clients_pieces, m_messages, attempt, written >>

process_unchoke(c) ==
  /\ Processing(c)
  /\ StartSearch(c)
  /\ UNCHANGED << pool, protocol_state, m_clients_pieces, m_piece_index, m_piece_size,
                  m_piece, m_messages, attempt, written >>

(* Setting a bit past the end of the bit set is lost or throws, or ends    *)
(* the process (Crash in Download).                                        *)
process_have(c, i) ==
  /\ Processing(c)
  /\ \/ /\ i < m_clients_pieces[c].bits
        /\ m_clients_pieces' = [m_clients_pieces EXCEPT ![c].set = @ \union {i}]
        /\ UNCHANGED pc
     \/ /\ i >= m_clients_pieces[c].bits
        /\ pc' \in {pc, [pc EXCEPT ![c] = "closed"]}
        /\ UNCHANGED m_clients_pieces
  /\ UNCHANGED << pool, protocol_state, m_messages, searchVars >>

process_bitfield(c, pieces) ==
  /\ Processing(c)
  /\ m_clients_pieces' = [m_clients_pieces EXCEPT ![c] =
       [set |-> pieces, bits |-> BITS_PER_BYTE * BytesFor(MAX_PIECE_NUM + 1)]]
  /\ m_messages' = [m_messages EXCEPT ![c] = Append(@, Interested)]
  /\ UNCHANGED << pool, pc, protocol_state, searchVars >>

(* The answer to request r.  A block of another piece than the one in hand *)
(* is dropped.  The last block writes the piece and starts the next search; *)
(* when the write throws (~writes), the piece stays in hand of a closed    *)
(* connection, its buffer gone.                                            *)
process_piece(c, r, writes) ==
  /\ Processing(c)
  /\ \/ /\ r.index # m_piece_index[c]
        /\ UNCHANGED << pc, searchVars >>
     \/ /\ r.index = m_piece_index[c]
        /\ LET piece == [m_piece[c] EXCEPT !.received = @ \union Bytes(r)]
           IN  \/ /\ ~Full(piece)
                  /\ m_piece' = [m_piece EXCEPT ![c] = piece]
                  /\ UNCHANGED << pc, m_piece_index, written >>
               \/ /\ Full(piece)
                  /\ m_piece' = [m_piece EXCEPT ![c] = EmptyPiece]
                  /\ \/ /\ writes
                        /\ written' = written \union {m_piece_index[c]}
                        /\ m_piece_index' = [m_piece_index EXCEPT ![c] = NoPiece]
                        /\ StartSearch(c)
                     \/ /\ ~writes
                        /\ pc' = [pc EXCEPT ![c] = "closed"]
                        /\ UNCHANGED << m_piece_index, written >>
        /\ UNCHANGED << m_piece_size, attempt >>
  /\ UNCHANGED << pool, protocol_state, m_clients_pieces, m_messages >>
=============================================================================
