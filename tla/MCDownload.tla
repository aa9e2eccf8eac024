------------------------------ MODULE MCDownload ------------------------------
(***************************************************************************)
(* Values of the constants of Download for TLC.                            *)
(***************************************************************************)
EXTENDS Download, TLC

CONSTANTS c1, c2

TwoConnections == {c1, c2}
OneConnection  == {c1}
ConnectionSymmetry == Permutations(TwoConnections)

AllBitfields  == SUBSET Pieces
FullBitfields == {Pieces}
LackOneAtMost == {Pieces} \union {Pieces \ {i} : i \in Pieces}
PartialBitfields == {Pieces, Pieces \ {0}}
NoBitfields   == {}

(* What can still matter: of a connection that is closed, or gone with the *)
(* process, only the piece it took away, for no action and no invariant    *)
(* reads the rest of its state.                                            *)
LiveView == << pool, written, [c \in Connections |->
  IF Stopped(c) THEN << pc[c], m_piece_index[c] >>
  ELSE << pc[c], protocol_state[c], m_clients_pieces[c], m_piece_index[c],
          m_piece_size[c], m_piece[c], m_messages[c], attempt[c],
          client_state[c], requested[c], peer[c] >>] >>
=============================================================================
