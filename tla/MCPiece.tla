------------------------------- MODULE MCPiece -------------------------------
(***************************************************************************)
(* Module Piece for TLC.                                                   *)
(***************************************************************************)
EXTENDS Piece

(* The last call of add is recorded for ImplementsAssembly, which compares *)
(* every step with it; no action depends on it.                            *)
BufferView == << m_data, m_id, m_full_piece_size, m_blocks >>
=============================================================================
