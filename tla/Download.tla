------------------------------- MODULE Download -------------------------------
(***************************************************************************)
(* All peer connections of a download: class ClientLogic on each, driven   *)
(* by the events of the poller that the workers of the thread pool perform *)
(* (main.cpp), with the peers as environment.  The specification starts    *)
(* when the answer of the tracker has created the connections.             *)
(***************************************************************************)
EXTENDS PeerProtocol

CONSTANTS
  NUMBER_OF_WORKERS,  (* threads that perform events (1 in main.cpp)       *)
  Bitfields,          (* what a peer may announce in its bit field         *)
  Haves,              (* the pieces a peer may announce later              *)
  Faults,             (* what may go wrong: a subset of FaultKinds         *)
  MaxReturned,        (* no choke while the list of the pool is longer     *)
  MaxMessages         (* no bit field or unchoke while the queue is longer *)

FaultKinds ==
  {"choke", "unchoke again", "no bit field", "answer again", "close", "write error",
   "short write"}

ASSUME DownloadAssumption ==
  /\ NUMBER_OF_WORKERS \in Nat \ {0}
  /\ Bitfields \subseteq SUBSET Pieces
  /\ Haves \subseteq Pieces
  /\ Faults \subseteq FaultKinds
  /\ MaxReturned \in Nat
  /\ MaxMessages \in Nat

VARIABLES
  client_state,  (* ClientLogic::m_state                                   *)
  requested,     (* the requests for real pieces that the peer may still answer; *)
                 (* one request asked in two rounds is one element of it,  *)
                 (* answered twice by a peer that may "answer again"       *)
  peer           (* of the peer: has it announced a bit field, is it choking *)

vars == << pool, searchVars, pc, protocol_state, m_clients_pieces, m_messages,
           client_state, requested, peer >>

Init ==
  /\ PieceListInit
  /\ PeerProtocolInit
  /\ pc = [c \in Connections |-> "idle"]
  /\ client_state = [c \in Connections |-> "WAIT_FOR_WRITE"]
  /\ requested = [c \in Connections |-> {}]
  /\ peer = [c \in Connections |-> [announced |-> FALSE, choking |-> TRUE]]

AllRequests == [type: {"REQUEST"}, index: Indices, offset: Nat, length: Nat]
Answerable  == {r \in AllRequests : r.index # NoPiece}

Stopped(c)  == pc[c] \in {"closed", "crashed"}
Running(c)  == pc[c] # "idle" /\ ~Stopped(c)
WorkerFree  == Cardinality({c \in Connections : Running(c)}) < NUMBER_OF_WORKERS
Idle(c)     == pc[c] = "idle" /\ WorkerFree
-----------------------------------------------------------------------------
(* The event handlers of ClientLogic.                                      *)

(* A READ event is ignored unless the connection waits for it; the loop    *)
(* over what the socket holds is the sequence of Message steps.            *)
on_read(c) ==
  /\ Idle(c)
  /\ client_state[c] = "WAIT_FOR_READ"
  /\ pc' = [pc EXCEPT ![c] = "reading"]
  /\ UNCHANGED << pool, searchVars, protocol_state, m_clients_pieces, m_messages,
                  client_state, requested, peer >>

(* Mutant: messages queued by the handler do not change what is awaited.   *)
on_read_end_keeps_waiting(c) ==
  /\ pc[c] = "reading"
  /\ pc' = [pc EXCEPT ![c] = "idle"]
  /\ UNCHANGED << pool, searchVars, protocol_state, m_clients_pieces, m_messages,
                  client_state, requested, peer >>

(* The socket is drained: the next event to wait for depends on the queue. *)
on_read_end(c) ==
  /\ pc[c] = "reading"
  /\ pc' = [pc EXCEPT ![c] = "idle"]
  /\ client_state' = [client_state EXCEPT ![c] =
       IF m_messages[c] # << >> THEN "WAIT_FOR_WRITE" ELSE @]
  /\ UNCHANGED << pool, searchVars, protocol_state, m_clients_pieces, m_messages,
                  requested, peer >>

(* A WRITE event writes the whole queue.  No peer answers a request for    *)
(* index NoPiece, 0xffffffff on the wire.  What socket->write returns is   *)
(* only logged: requests that the socket did not take are lost.            *)
on_write(c) ==
  /\ Idle(c)
  /\ client_state[c] = "WAIT_FOR_WRITE"
  /\ \E lost \in SUBSET Range(m_messages[c]) :
       /\ lost # {} => "short write" \in Faults
       /\ requested' = [requested EXCEPT ![c] = @ \union
            {m \in Range(m_messages[c]) \ lost : m.type = "REQUEST" /\ m.index # NoPiece}]
  /\ m_messages' = [m_messages EXCEPT ![c] = << >>]
  /\ client_state' = [client_state EXCEPT ![c] =
       IF m_messages[c] # << >> THEN "WAIT_FOR_READ" ELSE "WAIT_FOR_WRITE"]
  /\ UNCHANGED << pool, searchVars, pc, protocol_state, m_clients_pieces, peer >>

(* A CLOSE or ERROR event, or an exception in the middle of on_read:       *)
(* nothing is given back to the pool, and no further event is performed.   *)
on_close(c) ==
  /\ "close" \in Faults
  /\ Idle(c) \/ pc[c] = "reading"
  /\ pc' = [pc EXCEPT ![c] = "closed"]
  /\ UNCHANGED << pool, searchVars, protocol_state, m_clients_pieces, m_messages,
                  client_state, requested, peer >>
(* The process ends where a handler accesses the bit set outside of it:    *)
(* get_piece_index reads the bit of the piece it got, process_have sets the *)
(* bit of a piece announced.  All connections are gone; what was in memory *)
(* does not matter any more, and is left as it was.                        *)
Crash(c) ==
  /\ \/ pc[c] = "picking" /\ "crash" \in Verdicts(c)
     \/ Processing(c) /\ \E i \in Haves : i >= m_clients_pieces[c].bits
  /\ pc' = [d \in Connections |-> "crashed"]
  /\ UNCHANGED << pool, searchVars, protocol_state, m_clients_pieces, m_messages,
                  client_state, requested, peer >>
-----------------------------------------------------------------------------
(* The messages a peer sends, each processed by on_read.                   *)

PeerShakesHands(c) ==
  /\ process_handshake(c)
  /\ UNCHANGED << client_state, requested, peer >>

(* At most one bit field, by a choking peer that has sent no HAVE.         *)
PeerAnnounces(c, pieces) ==
  /\ ~peer[c].announced /\ peer[c].choking /\ m_clients_pieces[c].set = {}
  /\ Len(m_messages[c]) <= MaxMessages
  /\ process_bitfield(c, pieces)
  /\ peer' = [peer EXCEPT ![c].announced = TRUE]
  /\ UNCHANGED << client_state, requested >>

PeerHas(c, i) ==
  /\ process_have(c, i)
  /\ UNCHANGED << client_state, requested, peer >>

(* A peer that chokes drops the requests it has, or has answered them.     *)
PeerChokes(c) ==
  /\ "choke" \in Faults
  /\ ~peer[c].choking
  /\ Len(m_returned_pieces) <= MaxReturned
  /\ process_choke(c)
  /\ peer' = [peer EXCEPT ![c].choking = TRUE]
  /\ requested' \in {requested, [requested EXCEPT ![c] = {}]}
  /\ UNCHANGED client_state

(* An unchoke that no choke precedes, and one before the bit field, are    *)
(* faults.                                                                 *)
PeerUnchokes(c) ==
  /\ peer[c].choking \/ "unchoke again" \in Faults
  /\ peer[c].announced \/ "no bit field" \in Faults
  /\ Len(m_messages[c]) <= MaxMessages
  /\ process_unchoke(c)
  /\ peer' = [peer EXCEPT ![c].choking = FALSE]
  /\ UNCHANGED << client_state, requested >>

(* The peer answers a request, in any order, even after it has choked; it  *)
(* may get to answer it again, because the same was asked again after a    *)
(* choke, or by a fault of its own.                                        *)
PeerAnswers(c, r) ==
  /\ r \in requested[c]
  /\ \E writes \in IF "write error" \in Faults THEN BOOLEAN ELSE {TRUE} :
       process_piece(c, r, writes)
  /\ \/ requested' = [requested EXCEPT ![c] = @ \ {r}]
     \/ "answer again" \in Faults /\ UNCHANGED requested
  /\ UNCHANGED << client_state, peer >>

Search(c) ==
  /\ TryPiece(c) \/ GiveBackPiece(c)
  /\ UNCHANGED << client_state, requested, peer >>

Message(c) ==
  \/ PeerShakesHands(c)
  \/ \E pieces \in Bitfields : PeerAnnounces(c, pieces)
  \/ \E i \in Haves : PeerHas(c, i)
  \/ PeerChokes(c)
  \/ PeerUnchokes(c)
  \/ \E r \in requested[c] : PeerAnswers(c, r)

Next == \E c \in Connections :
  \/ on_read(c) \/ on_read_end(c) \/ on_write(c) \/ on_close(c) \/ Crash(c)
  \/ Message(c)
  \/ Search(c)

Spec == Init /\ [][Next]_vars

(* A worker finishes the handler it runs.                                  *)
HandlerFairness == \A c \in Connections : WF_vars(Search(c)) /\ WF_vars(on_read_end(c))

(* Something for the peer to send, if it keeps to the protocol: it answers *)
(* the handshake, announces its pieces, unchokes once it has been told     *)
(* INTERESTED, and answers requests.  Only then a READ event is sure.      *)
Told(c) == Interested \notin Range(m_messages[c])
PeerHasToSend(c) ==
  \/ protocol_state[c] = "HANDSHAKE"
  \/ ~peer[c].announced
  \/ peer[c].choking /\ Told(c)
  \/ requested[c] # {}

(* The thread pool is a FIFO queue, so an event that is ready again and    *)
(* again is performed; and the peers keep to the protocol.                 *)
Fairness ==
  /\ HandlerFairness
  /\ \A c \in Connections :
       /\ SF_vars(PeerHasToSend(c) /\ on_read(c)) /\ SF_vars(on_write(c))
       /\ SF_vars(PeerShakesHands(c))
       /\ SF_vars(\E pieces \in Bitfields : PeerAnnounces(c, pieces))
       /\ SF_vars(Told(c) /\ PeerUnchokes(c))
       /\ SF_vars(\E r \in requested[c] : PeerAnswers(c, r))

FairSpec == Spec /\ Fairness

(* The specification with the handlers' own fairness only, for what must   *)
(* happen whatever the peers do.                                           *)
HandlerSpec == Spec /\ HandlerFairness
-----------------------------------------------------------------------------
(* The type of every variable.                                             *)
TypeOK ==
  /\ m_next_piece \in 0 .. (MAX_PIECE_NUM + 1)
  /\ m_returned_pieces \in Seq(Indices)
  /\ pc \in [Connections -> {"idle", "reading", "picking", "returning", "closed", "crashed"}]
  /\ protocol_state \in [Connections -> {"HANDSHAKE", "ACTION"}]
  /\ m_clients_pieces \in [Connections -> [set: SUBSET Pieces, bits: Nat]]
  /\ m_piece_index \in [Connections -> Indices]
  /\ m_piece_size \in [Connections -> 0 .. PIECE_SIZE]
  /\ m_piece \in [Connections ->
       [id: Indices, size: 0 .. PIECE_SIZE, received: SUBSET Nat]]
  /\ m_messages \in [Connections -> Seq(AllRequests \union {Handshake, Interested})]
  /\ attempt \in [Connections -> 0 .. (ATTEMPTS - 1)]
  /\ written \subseteq Pieces
  /\ client_state \in [Connections -> {"WAIT_FOR_READ", "WAIT_FOR_WRITE"}]
  /\ requested \in [Connections -> SUBSET Answerable]
  /\ peer \in [Connections -> [announced: BOOLEAN, choking: BOOLEAN]]

(* Every piece is in one place: at most once in the list of the pool, in   *)
(* the hands of one connection, or written, and then in no list and in no  *)
(* hand.  This is what the lock of PieceList is for: no two connections    *)
(* download, and write to the files, the same piece.                       *)
PieceExclusive ==
  /\ \A j, k \in DOMAIN m_returned_pieces :
       j # k /\ m_returned_pieces[j] = m_returned_pieces[k] => m_returned_pieces[j] = NoPiece
  /\ \A p \in Range(m_returned_pieces) \ {NoPiece} : p < m_next_piece /\ p \notin written
  /\ \A c \in Connections : m_piece_index[c] # NoPiece =>
       /\ m_piece_index[c] < m_next_piece
       /\ m_piece_index[c] \notin written \union Range(m_returned_pieces)
       /\ \A d \in Connections \ {c} : m_piece_index[c] # m_piece_index[d]
  /\ \A p \in written : p < m_next_piece

FreePieces ==
  {p \in Pieces : p >= m_next_piece} \union (Range(m_returned_pieces) \ {NoPiece})

(* As long as no peer unchokes twice, a piece is free, in the hands of a   *)
(* connection, which may be closed, or written, through any number of      *)
(* chokes, failed searches and late blocks.                                *)
NoPieceLost ==
  Pieces \subseteq FreePieces \union written \union Range(m_piece_index)

Downloading(c) == pc[c] \in {"idle", "reading"} /\ m_piece_index[c] # NoPiece

(* The buffer of a connection with a piece is the buffer of that piece, of *)
(* its size: process_piece compares the index of a block with              *)
(* m_piece_index and then stores it through m_piece.                       *)
BufferMatchesIndex ==
  \A c \in Connections : Downloading(c) =>
    /\ m_piece[c].id = m_piece_index[c]
    /\ m_piece[c].size = m_piece_size[c]
    /\ m_piece[c].size = SizeOf(m_piece_index[c])

(* A block that may still come for the piece in hand, one of an earlier    *)
(* round of requests included, lies in the buffer and is new or received   *)
(* already as a whole: Piece::add neither writes past the end nor throws.  *)
AnswersFit ==
  \A c \in Connections : Downloading(c) =>
    \A r \in requested[c] : r.index = m_piece_index[c] =>
      /\ Bytes(r) \subseteq 0 .. (m_piece[c].size - 1)
      /\ \/ Bytes(r) \subseteq m_piece[c].received
         \/ Bytes(r) \intersect m_piece[c].received = {}

(* Every byte that the piece in hand still misses is asked for, in the     *)
(* queue or from the peer: otherwise the piece never becomes full and the  *)
(* connection holds it for ever.                                           *)
MissingBytesRequested ==
  \A c \in Connections : Downloading(c) =>
    \A b \in 0 .. (m_piece[c].size - 1) :
      b \notin m_piece[c].received =>
        \E r \in requested[c] \union Range(m_messages[c]) :
          r.type = "REQUEST" /\ r.index = m_piece_index[c] /\ b \in Bytes(r)

(* Between events a connection waits for a WRITE event exactly when it has *)
(* something to write.  The other way round, messages would stay in the    *)
(* queue until the peer sends something, or WRITE events would spin.       *)
WaitsToWriteIffQueued ==
  \A c \in Connections : pc[c] = "idle" =>
    (client_state[c] = "WAIT_FOR_WRITE" <=> m_messages[c] # << >>)

(* A connection downloads a piece only from a peer that announced it, as   *)
(* far as the bit set reaches.                                             *)
AsksOnlyForAnnounced ==
  \A c \in Connections :
    Downloading(c) /\ m_piece_index[c] < m_clients_pieces[c].bits =>
      m_piece_index[c] \in m_clients_pieces[c].set
-----------------------------------------------------------------------------
(* The protocol implements the allocation of pieces that module            *)
(* PieceAllocation describes.                                              *)
HeldPieces == [c \in Connections |->
  IF Stopped(c) THEN {} ELSE {m_piece_index[c]} \ {NoPiece}]

Allocation == INSTANCE PieceAllocation WITH free <- FreePieces, held <- HeldPieces, done <- written

(* Pieces are taken, given back, finished and lost only as PieceAllocation *)
(* allows: nobody takes a piece that is not free, gives back or finishes   *)
(* one that is not its own.                                                *)
ImplementsAllocation == Allocation!Spec
-----------------------------------------------------------------------------
(* Whatever the peers do, a search for a piece ends: the attempts are      *)
(* counted, although the pieces they give back are there to be taken again.*)
SearchEnds ==
  \A c \in Connections : pc[c] = "picking" ~> pc[c] \notin {"picking", "returning"}

(* The process has ended.                                                  *)
Crashed == \E c \in Connections : pc[c] = "crashed"

(* One peer that has every piece is enough, if the peers keep to the       *)
(* protocol: every piece is written in the end, whatever the others lack,  *)
(* unless m_clients_pieces[-1] is read (peer_protocol.cpp:222), as it may  *)
(* be at the end of any download, and ends the process.                    *)
(* A search that gives up is not restarted, and the pool hands out first   *)
(* what was given back, so a peer that lacks a piece may stay idle for     *)
(* good (peer_protocol.cpp:230); with one worker it is never the one that  *)
(* has them all.                                                           *)
DownloadCompletes ==
  (\E c \in Connections : <>(m_clients_pieces[c].set = Pieces)) =>
    <>(written = Pieces \/ Crashed)
-----------------------------------------------------------------------------
(* piece_list.hpp:16 says that get_piece returns "piece size and           *)
(* piece_index": a size other than 0 comes with the index of a piece.      *)
SizeComesWithPiece == SizeToGet # 0 => PieceToGet \in Pieces

(* The same comment read the other way: as long as a piece is left for     *)
(* get_piece to hand out, the size it returns is not 0.                    *)
PieceComesWithSize == PieceToGet \in Pieces => SizeToGet # 0
=============================================================================
