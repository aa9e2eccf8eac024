---------------------------- MODULE DownloadProofs ----------------------------
(***************************************************************************)
(* Proofs about module Download, for any number of connections, pieces,    *)
(* workers and attempts and whatever the peers do: the pool and its        *)
(* refinement, the buffer in hand, and then what is asked of the peers.    *)
(***************************************************************************)
EXTENDS Download, TLAPS

LEMMA ProductType == ASSUME NEW a \in Nat, NEW b \in Nat PROVE a * b \in Nat
  OBVIOUS

(* The k-th request of a piece of the given size starts inside the piece.  *)
LEMMA RequestStartsInside ==
  ASSUME NEW size \in Nat,
         NEW k \in 1 .. ((size + BLOCK_SIZE - 1) \div BLOCK_SIZE)
  PROVE  (k - 1) * BLOCK_SIZE \in 0 .. (size - 1)
<1> DEFINE n == (size + BLOCK_SIZE - 1) \div BLOCK_SIZE
<1>1. BLOCK_SIZE \in Nat \ {0}
  BY PeerProtocolAssumption
<1>2. n \in Nat /\ n * BLOCK_SIZE <= size + BLOCK_SIZE - 1
  BY <1>1
<1>3. k \in Nat /\ k >= 1 /\ k <= n
  BY <1>2
<1> HIDE DEF n
<1>4. (k - 1) * BLOCK_SIZE <= (n - 1) * BLOCK_SIZE
  BY <1>1, <1>2, <1>3
<1>5. (n - 1) * BLOCK_SIZE <= size - 1
  BY <1>1, <1>2
<1>6. (k - 1) * BLOCK_SIZE \in Nat
  BY <1>1, <1>3, ProductType
<1> QED
  BY <1>1, <1>2, <1>4, <1>5, <1>6

LEMMA create_requestType ==
  ASSUME NEW i \in Indices, NEW size \in Nat
  PROVE  create_request(i, size) \in Seq(AllRequests)
<1> DEFINE n == (size + BLOCK_SIZE - 1) \div BLOCK_SIZE
<1>1. BLOCK_SIZE \in Nat \ {0}
  BY PeerProtocolAssumption
<1>2. n \in Nat
  BY <1>1
<1>3. ASSUME NEW k \in 1 .. n
      PROVE  create_request(i, size)[k] \in AllRequests
  <2> DEFINE offset == (k - 1) * BLOCK_SIZE
  <2>1. offset \in 0 .. (size - 1)
    BY RequestStartsInside
  <2>2. create_request(i, size)[k] = Request(i, offset,
           IF offset + BLOCK_SIZE > size THEN size - offset ELSE BLOCK_SIZE)
    BY DEF create_request
  <2> HIDE DEF offset
  <2> QED
    BY <2>1, <2>2, <1>1 DEF Request, AllRequests
<1>4. create_request(i, size) \in [1 .. n -> AllRequests]
  <2>1. DOMAIN create_request(i, size) = 1 .. n
    BY DEF create_request
  <2>2. create_request(i, size) = [k \in 1 .. n |-> create_request(i, size)[k]]
    BY DEF create_request
  <2> QED
    BY <2>1, <2>2, <1>3
<1> HIDE DEF n
<1> QED
  BY <1>2, <1>4
-----------------------------------------------------------------------------
(* Types.                                                                  *)

PoolType ==
  /\ m_next_piece \in 0 .. (MAX_PIECE_NUM + 1)
  /\ m_returned_pieces \in Seq(Indices)

LEMMA get_pieceType ==
  ASSUME PoolType
  PROVE  /\ PieceToGet \in Indices
         /\ SizeToGet \in 0 .. PIECE_SIZE
         /\ get_piece => PoolType'
<1> USE PieceListAssumption
<1>1. PieceToGet \in Indices
  BY DEF PoolType, PieceToGet, PoolExhausted, Indices, Pieces
<1>2. SizeToGet \in 0 .. PIECE_SIZE
  BY DEF SizeToGet, SizeOf
<1>3. get_piece => PoolType'
  BY DEF get_piece, PoolType, PoolExhausted
<1> QED
  BY <1>1, <1>2, <1>3

LEMMA return_pieceType ==
  ASSUME PoolType, NEW i \in Indices, return_piece(i)
  PROVE  PoolType'
  BY DEF PoolType, return_piece

LEMMA TypeInit == Init => TypeOK
<1> SUFFICES ASSUME Init PROVE TypeOK
  OBVIOUS
<1> USE PieceListAssumption, PeerProtocolAssumption DEF Init, PieceListInit, PeerProtocolInit
<1>1. BITS_PER_BYTE * (number_of_pieces \div BITS_PER_BYTE + 1) \in Nat
  BY DEF number_of_pieces
<1>2. m_clients_pieces \in [Connections -> [set: SUBSET Pieces, bits: Nat]]
  BY <1>1
<1>3. NoPiece \in Indices
  BY DEF Indices
<1>4. m_messages \in [Connections -> Seq(AllRequests \union {Handshake, Interested})]
  OBVIOUS
<1>5. m_returned_pieces \in Seq(Indices) /\ m_next_piece \in 0 .. (MAX_PIECE_NUM + 1)
  OBVIOUS
<1>6. m_piece \in [Connections -> [id: Indices, size: 0 .. PIECE_SIZE, received: SUBSET Nat]]
  BY <1>3 DEF EmptyPiece
<1>7. /\ m_piece_index \in [Connections -> Indices]
      /\ m_piece_size \in [Connections -> 0 .. PIECE_SIZE]
      /\ attempt \in [Connections -> 0 .. (ATTEMPTS - 1)]
      /\ requested \in [Connections -> SUBSET Answerable]
      /\ written \subseteq Pieces
  BY <1>3
<1> QED
  BY <1>2, <1>4, <1>5, <1>6, <1>7 DEF TypeOK

(* The end of the process stops every connection, and nothing else changes. *)
LEMMA CrashEffect ==
  ASSUME NEW c \in Connections, Crash(c)
  PROVE  /\ pc' = [d \in Connections |-> "crashed"]
         /\ UNCHANGED << m_next_piece, m_returned_pieces, m_piece_index, m_piece_size, m_piece,
                        attempt, written, protocol_state, m_clients_pieces, m_messages,
                        client_state, requested, peer >>
BY DEF Crash, pool, searchVars

(* A handler of connection c moves on to s.                                *)
LEMMA ControlType ==
  ASSUME TypeOK, NEW c \in Connections,
         NEW s \in {"idle", "reading", "picking", "returning", "closed", "crashed"},
         pc' = [pc EXCEPT ![c] = s]
  PROVE  pc' \in [Connections -> {"idle", "reading", "picking", "returning", "closed", "crashed"}]
<1>1. pc \in [Connections -> {"idle", "reading", "picking", "returning", "closed", "crashed"}]
  BY DEF TypeOK
<1> QED
  BY <1>1

LEMMA TryPieceType == ASSUME TypeOK, NEW c \in Connections, TryPiece(c),
                             UNCHANGED << client_state, requested, peer >>
                      PROVE  TypeOK'
<1>1. PieceToGet \in Indices /\ SizeToGet \in 0 .. PIECE_SIZE /\ PoolType'
  BY get_pieceType DEF TypeOK, PoolType, TryPiece
<1>2. InitialPiece(PieceToGet, SizeToGet) \in
        [id: Indices, size: 0 .. PIECE_SIZE, received: SUBSET Nat]
  BY <1>1 DEF InitialPiece
<1>3. create_request(PieceToGet, SizeToGet) \in Seq(AllRequests)
  BY <1>1, create_requestType
<1>4. m_messages[c] \o create_request(PieceToGet, SizeToGet) \in
        Seq(AllRequests \union {Handshake, Interested})
  BY <1>3 DEF TypeOK
<1>5. m_messages' \in [Connections -> Seq(AllRequests \union {Handshake, Interested})]
  <2>1. m_messages' \in {m_messages, [m_messages EXCEPT ![c] =
                                       @ \o create_request(PieceToGet, SizeToGet)]}
    BY DEF TryPiece
  <2>2. m_messages \in [Connections -> Seq(AllRequests \union {Handshake, Interested})]
    BY DEF TypeOK
  <2> QED
    BY <1>4, <2>1, <2>2
<1>6. attempt' \in [Connections -> 0 .. (ATTEMPTS - 1)]
  <2>1. attempt' \in {attempt, [attempt EXCEPT ![c] = 0]}
    BY DEF TryPiece
  <2>2. 0 \in 0 .. (ATTEMPTS - 1)
    BY PeerProtocolAssumption
  <2> QED
    BY <2>1, <2>2 DEF TypeOK
<1>7. pc' \in [Connections -> {"idle", "reading", "picking", "returning", "closed", "crashed"}]
  <2>1. \E s \in {"reading", "returning", "closed"} : pc' = [pc EXCEPT ![c] = s]
    BY DEF TryPiece
  <2> QED
    BY <2>1, ControlType
<1>8. m_piece' \in [Connections -> [id: Indices, size: 0 .. PIECE_SIZE, received: SUBSET Nat]]
  <2>1. m_piece' \in {m_piece, [m_piece EXCEPT ![c] = InitialPiece(PieceToGet, SizeToGet)]}
    BY DEF TryPiece
  <2>2. m_piece \in [Connections -> [id: Indices, size: 0 .. PIECE_SIZE, received: SUBSET Nat]]
    BY DEF TypeOK
  <2> QED
    BY <1>2, <2>1, <2>2
<1>9. /\ m_piece_index' \in [Connections -> Indices]
      /\ m_piece_size' \in [Connections -> 0 .. PIECE_SIZE]
  BY <1>1 DEF TypeOK, TryPiece
<1> QED
  BY <1>1, <1>5, <1>6, <1>7, <1>8, <1>9 DEF TypeOK, TryPiece, PoolType

LEMMA GiveBackPieceType == ASSUME TypeOK, NEW c \in Connections, GiveBackPiece(c),
                                  UNCHANGED << client_state, requested, peer >>
                           PROVE  TypeOK'
<1>1. PoolType'
  BY return_pieceType DEF TypeOK, PoolType, GiveBackPiece
<1>2. NoPiece \in Indices /\ 0 \in 0 .. PIECE_SIZE
  BY PieceListAssumption DEF Indices
<1>3. attempt' \in [Connections -> 0 .. (ATTEMPTS - 1)]
  <2>1. PICK n \in {0, attempt[c] + 1} :
          attempt' = [attempt EXCEPT ![c] = n] /\ (n = 0 \/ n < ATTEMPTS)
    BY DEF GiveBackPiece
  <2>2. attempt[c] \in 0 .. (ATTEMPTS - 1)
    BY DEF TypeOK
  <2>3. n \in 0 .. (ATTEMPTS - 1)
    BY <2>1, <2>2, PeerProtocolAssumption
  <2> QED
    BY <2>1, <2>3 DEF TypeOK
<1>4. pc' \in [Connections -> {"idle", "reading", "picking", "returning", "closed", "crashed"}]
  <2>1. \E s \in {"picking", "reading"} : pc' = [pc EXCEPT ![c] = s]
    BY DEF GiveBackPiece
  <2> QED
    BY <2>1, ControlType
<1> QED
  BY <1>1, <1>2, <1>3, <1>4 DEF TypeOK, GiveBackPiece, PoolType

LEMMA process_chokeType == ASSUME TypeOK, NEW c \in Connections, PeerChokes(c)
                           PROVE  TypeOK'
<1>1. PoolType'
  BY return_pieceType DEF TypeOK, PoolType, PeerChokes, process_choke
<1>2. NoPiece \in Indices /\ 0 \in 0 .. PIECE_SIZE
  BY PieceListAssumption DEF Indices
<1>3. EmptyPiece \in [id: Indices, size: 0 .. PIECE_SIZE, received: SUBSET Nat]
  BY <1>2 DEF EmptyPiece
<1>4. requested' \in [Connections -> SUBSET Answerable]
  BY DEF TypeOK, PeerChokes
<1>5. peer' \in [Connections -> [announced: BOOLEAN, choking: BOOLEAN]]
  <2>1. peer' = [peer EXCEPT ![c].choking = TRUE]
    BY DEF PeerChokes
  <2> QED
    BY <2>1 DEF TypeOK
<1> QED
  BY <1>1, <1>2, <1>3, <1>4, <1>5 DEF TypeOK, PoolType, PeerChokes, process_choke

LEMMA process_unchokeType == ASSUME TypeOK, NEW c \in Connections, PeerUnchokes(c)
                             PROVE  TypeOK'
  BY DEF TypeOK, PeerUnchokes, process_unchoke, StartSearch, pool

LEMMA process_handshakeType == ASSUME TypeOK, NEW c \in Connections, PeerShakesHands(c)
                               PROVE  TypeOK'
  BY DEF TypeOK, PeerShakesHands, process_handshake, pool, searchVars

LEMMA process_haveType == ASSUME TypeOK, NEW c \in Connections, NEW i \in Haves, PeerHas(c, i)
                          PROVE  TypeOK'
<1>1. m_clients_pieces' \in [Connections -> [set: SUBSET Pieces, bits: Nat]]
  <2>1. i \in Pieces
    BY DownloadAssumption
  <2>2. CASE UNCHANGED m_clients_pieces
    BY <2>2 DEF TypeOK
  <2>3. CASE m_clients_pieces' = [m_clients_pieces EXCEPT ![c].set = @ \union {i}]
    <3>1. m_clients_pieces \in [Connections -> [set: SUBSET Pieces, bits: Nat]]
      BY DEF TypeOK
    <3>2. [m_clients_pieces[c] EXCEPT !.set = @ \union {i}] \in [set: SUBSET Pieces, bits: Nat]
      BY <2>1, <3>1
    <3>3. m_clients_pieces' = [m_clients_pieces EXCEPT ![c] =
                                 [m_clients_pieces[c] EXCEPT !.set = @ \union {i}]]
      BY <2>3
    <3> QED
      BY <3>1, <3>2, <3>3
  <2> QED
    BY <2>2, <2>3 DEF PeerHas, process_have
<1>2. pc' \in [Connections -> {"idle", "reading", "picking", "returning", "closed", "crashed"}]
  BY DEF TypeOK, PeerHas, process_have
<1> QED
  BY <1>1, <1>2 DEF TypeOK, PeerHas, process_have, pool, searchVars

LEMMA process_bitfieldType ==
  ASSUME TypeOK, NEW c \in Connections, NEW pieces \in Bitfields, PeerAnnounces(c, pieces)
  PROVE  TypeOK'
<1>1. BITS_PER_BYTE * BytesFor(MAX_PIECE_NUM + 1) \in Nat
  <2>1. BytesFor(MAX_PIECE_NUM + 1) \in Nat
    BY PieceListAssumption, PeerProtocolAssumption DEF BytesFor
  <2> QED
    BY <2>1, PeerProtocolAssumption, ProductType
<1>2. m_clients_pieces' \in [Connections -> [set: SUBSET Pieces, bits: Nat]]
  <2> DEFINE new == [set |-> pieces, bits |-> BITS_PER_BYTE * BytesFor(MAX_PIECE_NUM + 1)]
  <2>1. pieces \in SUBSET Pieces
    BY DownloadAssumption
  <2>2. new \in [set: SUBSET Pieces, bits: Nat]
    BY <1>1, <2>1
  <2>3. m_clients_pieces' = [m_clients_pieces EXCEPT ![c] = new]
    BY DEF PeerAnnounces, process_bitfield
  <2> HIDE DEF new
  <2> QED
    BY <2>2, <2>3 DEF TypeOK
<1>3. m_messages' \in [Connections -> Seq(AllRequests \union {Handshake, Interested})]
  BY DEF TypeOK, PeerAnnounces, process_bitfield
<1>4. peer' \in [Connections -> [announced: BOOLEAN, choking: BOOLEAN]]
  <2>1. peer' = [peer EXCEPT ![c].announced = TRUE]
    BY DEF PeerAnnounces
  <2> QED
    BY <2>1 DEF TypeOK
<1> QED
  BY <1>2, <1>3, <1>4 DEF TypeOK, PeerAnnounces, process_bitfield, pool, searchVars

LEMMA process_pieceType ==
  ASSUME TypeOK, NEW c \in Connections, NEW r \in requested[c], PeerAnswers(c, r)
  PROVE  TypeOK'
<1>1. r \in Answerable /\ r.index \in Pieces
  BY DEF TypeOK, Answerable, AllRequests, Indices
<1>2. Bytes(r) \subseteq Nat
  BY <1>1 DEF Bytes, Answerable, AllRequests
<1>3. PICK writes \in BOOLEAN : process_piece(c, r, writes)
  BY DEF PeerAnswers
<1>4. m_piece' \in [Connections -> [id: Indices, size: 0 .. PIECE_SIZE, received: SUBSET Nat]]
  <2> DEFINE Buffers == [id: Indices, size: 0 .. PIECE_SIZE, received: SUBSET Nat]
             longer  == [m_piece[c] EXCEPT !.received = @ \union Bytes(r)]
  <2>1. m_piece \in [Connections -> Buffers]
    BY DEF TypeOK
  <2>2. m_piece[c] \in Buffers
    BY <2>1
  <2>3. longer \in Buffers
    BY <2>2, <1>2
  <2>4. EmptyPiece \in Buffers
    BY PieceListAssumption DEF EmptyPiece, Indices
  <2>5. \E b \in {m_piece[c], longer, EmptyPiece} : m_piece' = [m_piece EXCEPT ![c] = b]
    <3>1. m_piece = [m_piece EXCEPT ![c] = m_piece[c]]
      BY <2>1
    <3> QED
      BY <1>3, <3>1 DEF process_piece, searchVars
  <2> HIDE DEF Buffers, longer
  <2>6. m_piece' \in [Connections -> Buffers]
    BY <2>1, <2>2, <2>3, <2>4, <2>5
  <2> QED
    BY <2>6 DEF Buffers
<1>5. written' \subseteq Pieces
  BY <1>1, <1>3 DEF TypeOK, process_piece, searchVars
<1>6. m_piece_index' \in [Connections -> Indices]
  BY <1>3 DEF TypeOK, process_piece, searchVars, Indices
<1>7. pc' \in [Connections -> {"idle", "reading", "picking", "returning", "closed", "crashed"}]
  BY <1>3 DEF TypeOK, process_piece, StartSearch
<1>8. requested' \in [Connections -> SUBSET Answerable]
  <2>1. requested' \in {requested, [requested EXCEPT ![c] = @ \ {r}]}
    BY DEF PeerAnswers
  <2>2. requested \in [Connections -> SUBSET Answerable]
    BY DEF TypeOK
  <2> QED
    BY <2>1, <2>2
<1>9. UNCHANGED << pool, protocol_state, m_clients_pieces, m_piece_size, m_messages,
                   attempt, client_state, peer >>
  BY <1>3 DEF PeerAnswers, process_piece, searchVars
<1> QED
  BY <1>4, <1>5, <1>6, <1>7, <1>8, <1>9 DEF TypeOK, pool

LEMMA on_writeType == ASSUME TypeOK, NEW c \in Connections, on_write(c)
                      PROVE  TypeOK'
<1>1. Range(m_messages[c]) \subseteq AllRequests \union {Handshake, Interested}
  BY DEF TypeOK, Range
<1>2. {m \in Range(m_messages[c]) : m.type = "REQUEST" /\ m.index # NoPiece} \subseteq Answerable
  BY <1>1 DEF Answerable, Handshake, Interested
<1>3. requested' \in [Connections -> SUBSET Answerable]
  <2>1. PICK lost \in SUBSET Range(m_messages[c]) :
          requested' = [requested EXCEPT ![c] = @ \union
            {m \in Range(m_messages[c]) \ lost : m.type = "REQUEST" /\ m.index # NoPiece}]
    BY DEF on_write
  <2>2. {m \in Range(m_messages[c]) \ lost : m.type = "REQUEST" /\ m.index # NoPiece}
          \subseteq Answerable
    BY <1>2
  <2> QED
    BY <2>1, <2>2 DEF TypeOK
<1>4. << >> \in Seq(AllRequests \union {Handshake, Interested})
  OBVIOUS
<1> QED
  BY <1>3, <1>4 DEF TypeOK, on_write, pool, searchVars

LEMMA TypeNext == TypeOK /\ [Next]_vars => TypeOK'
<1> SUFFICES ASSUME TypeOK, [Next]_vars PROVE TypeOK'
  OBVIOUS
<1>1. CASE UNCHANGED vars
  BY <1>1 DEF TypeOK, vars, pool, searchVars
<1>2. ASSUME NEW c \in Connections, on_read(c) \/ on_read_end(c) \/ on_close(c)
      PROVE  TypeOK'
  BY <1>2 DEF TypeOK, on_read, on_read_end, on_close, pool, searchVars
<1>3. ASSUME NEW c \in Connections, Message(c)
      PROVE  TypeOK'
  BY <1>3, process_handshakeType, process_bitfieldType, process_haveType, process_chokeType,
     process_unchokeType, process_pieceType DEF Message
<1>4. ASSUME NEW c \in Connections, Search(c)
      PROVE  TypeOK'
  BY <1>4, TryPieceType, GiveBackPieceType DEF Search
<1>5. ASSUME NEW c \in Connections, Crash(c)
      PROVE  TypeOK'
  BY <1>5, CrashEffect DEF TypeOK
<1> QED
  BY <1>1, <1>2, <1>3, <1>4, <1>5, on_writeType DEF Next

(* Every variable keeps its type.                                          *)
THEOREM Typing == Spec => []TypeOK
  BY TypeInit, TypeNext, PTL DEF Spec
-----------------------------------------------------------------------------
(* A piece is in one place.                                                *)

(* What PieceExclusive says, of the places of a piece: the positions of    *)
(* the list, the connections, and the files.                               *)
LEMMA PlacesInit == Init => PieceExclusive
  BY DEF Init, PieceListInit, PeerProtocolInit, PieceExclusive, Range

(* Nothing that PieceExclusive speaks about changes.                       *)
LEMMA PlacesUnchanged ==
  ASSUME PieceExclusive, UNCHANGED << pool, m_piece_index, written >>
  PROVE  PieceExclusive'
  BY DEF PieceExclusive, pool

(* Connection c holds p now, and the list of the pool is a part of what it *)
(* was, without p.                                                         *)
LEMMA PlacesTaken ==
  ASSUME TypeOK, PieceExclusive, NEW c \in Connections, NEW p \in Int,
         m_piece_index' = [m_piece_index EXCEPT ![c] = p],
         UNCHANGED written,
         m_next_piece' \in Int, m_next_piece <= m_next_piece',
         Range(m_returned_pieces') \subseteq Range(m_returned_pieces),
         \A j, k \in DOMAIN m_returned_pieces' :
           j # k /\ m_returned_pieces'[j] = m_returned_pieces'[k] =>
             m_returned_pieces'[j] = NoPiece,
         p # NoPiece => /\ p < m_next_piece'
                        /\ p \notin written \union Range(m_returned_pieces')
                        /\ \A d \in Connections : m_piece_index[d] # p
  PROVE  PieceExclusive'
<1>1. /\ m_next_piece \in Int /\ Range(m_returned_pieces) \subseteq Int /\ written \subseteq Int
      /\ m_piece_index \in [Connections -> Int]
  <2>1. Indices \subseteq Int /\ Pieces \subseteq Int /\ MAX_PIECE_NUM \in Nat
    BY PieceListAssumption DEF Indices, Pieces, NoPiece
  <2>2. /\ m_next_piece \in 0 .. (MAX_PIECE_NUM + 1)
        /\ m_returned_pieces \in Seq(Indices)
        /\ written \subseteq Pieces
        /\ m_piece_index \in [Connections -> Indices]
    BY DEF TypeOK
  <2>3. Range(m_returned_pieces) \subseteq Indices
    BY <2>2 DEF Range
  <2>4. m_next_piece \in Int
    BY <2>1, <2>2
  <2>5. m_piece_index \in [Connections -> Int]
    BY <2>1, <2>2
  <2> QED
    BY <2>1, <2>2, <2>3, <2>4, <2>5
<1>2. \A q \in Range(m_returned_pieces') \ {NoPiece} : q < m_next_piece' /\ q \notin written'
  BY <1>1 DEF PieceExclusive
<1>3. \A q \in written' : q < m_next_piece'
  BY <1>1 DEF PieceExclusive
<1>4. ASSUME NEW d \in Connections, m_piece_index'[d] # NoPiece
      PROVE  /\ m_piece_index'[d] < m_next_piece'
             /\ m_piece_index'[d] \notin written' \union Range(m_returned_pieces')
             /\ \A e \in Connections \ {d} : m_piece_index'[d] # m_piece_index'[e]
  <2>1. CASE d = c
    BY <1>1, <1>4, <2>1
  <2>2. CASE d # c
    <3>1. m_piece_index'[d] = m_piece_index[d]
      BY <1>1, <2>2
    <3> QED
      BY <1>1, <1>4, <2>2, <3>1 DEF PieceExclusive
  <2> QED
    BY <2>1, <2>2
<1> QED
  BY <1>2, <1>3, <1>4 DEF PieceExclusive

LEMMA TryPiecePlaces ==
  ASSUME TypeOK, PieceExclusive, NEW c \in Connections, TryPiece(c)
  PROVE  PieceExclusive'
<1>0. /\ m_returned_pieces \in Seq(Indices)
      /\ m_next_piece \in Nat
      /\ m_piece_index \in [Connections -> Indices]
      /\ Indices \subseteq Int /\ NoPiece = -1 /\ MAX_PIECE_NUM \in Nat
  BY PieceListAssumption DEF TypeOK, Indices, Pieces, NoPiece
<1> USE <1>0
<1> DEFINE p == PieceToGet
<1>1. m_piece_index' = [m_piece_index EXCEPT ![c] = p] /\ UNCHANGED written /\ get_piece
  BY DEF TryPiece
<1>2. CASE m_returned_pieces # << >>
  <2>1. /\ p = Head(m_returned_pieces)
        /\ m_returned_pieces' = Tail(m_returned_pieces)
        /\ m_next_piece' = m_next_piece
    BY <1>1, <1>2 DEF PieceToGet, get_piece
  <2>2. /\ p = m_returned_pieces[1] /\ 1 \in DOMAIN m_returned_pieces
        /\ \A k \in DOMAIN m_returned_pieces' :
             k + 1 \in DOMAIN m_returned_pieces
             /\ m_returned_pieces'[k] = m_returned_pieces[k + 1]
             /\ k \in Nat \ {0}
    BY <1>2, <2>1
  <2> HIDE DEF p
  <2>3. p # NoPiece => p \notin Range(m_returned_pieces')
    <3> SUFFICES ASSUME NEW k \in DOMAIN m_returned_pieces', m_returned_pieces'[k] = p
                 PROVE  p = NoPiece
      BY DEF Range
    <3>1. k + 1 # 1 /\ k + 1 \in DOMAIN m_returned_pieces /\ m_returned_pieces[k + 1] = p
      BY <2>2
    <3> QED
      BY <2>2, <3>1 DEF PieceExclusive
  <2>4. Range(m_returned_pieces') \subseteq Range(m_returned_pieces)
    BY <2>2 DEF Range
  <2>5. p \in Range(m_returned_pieces)
    BY <2>2 DEF Range
  <2>6. \A j, k \in DOMAIN m_returned_pieces' :
          j # k /\ m_returned_pieces'[j] = m_returned_pieces'[k] =>
            m_returned_pieces'[j] = NoPiece
    <3> SUFFICES ASSUME NEW j \in DOMAIN m_returned_pieces', NEW k \in DOMAIN m_returned_pieces',
                        j # k, m_returned_pieces'[j] = m_returned_pieces'[k]
                 PROVE  m_returned_pieces'[j] = NoPiece
      OBVIOUS
    <3>1. /\ j + 1 # k + 1
          /\ j + 1 \in DOMAIN m_returned_pieces /\ k + 1 \in DOMAIN m_returned_pieces
          /\ m_returned_pieces[j + 1] = m_returned_pieces[k + 1]
      BY <2>2
    <3> QED
      BY <2>2, <3>1 DEF PieceExclusive
  <2>7. p # NoPiece => /\ p < m_next_piece /\ p \notin written
                       /\ \A d \in Connections : m_piece_index[d] # p
    BY <2>5 DEF PieceExclusive
  <2>8. p \in Int /\ m_next_piece' \in Int /\ m_next_piece <= m_next_piece'
    <3>1. p \in Indices
      BY <2>2, <1>0
    <3> QED
      BY <2>1, <3>1
  <2>9. p # NoPiece => /\ p < m_next_piece'
                       /\ p \notin written \union Range(m_returned_pieces')
                       /\ \A d \in Connections : m_piece_index[d] # p
    BY <2>1, <2>3, <2>7
  <2> HIDE <1>0
  <2> QED
    BY <1>1, <2>4, <2>6, <2>8, <2>9, PlacesTaken
<1>3. CASE m_returned_pieces = << >> /\ m_next_piece <= MAX_PIECE_NUM
  <2>1. /\ p = m_next_piece
        /\ m_returned_pieces' = << >>
        /\ m_next_piece' = m_next_piece + 1
    BY <1>1, <1>3, PieceListAssumption DEF PieceToGet, PoolExhausted, get_piece
  <2> HIDE DEF p
  <2>2. Range(m_returned_pieces') = {}
    BY <2>1 DEF Range
  <2>3. p \notin written /\ \A d \in Connections : m_piece_index[d] # p
    BY <2>1 DEF PieceExclusive
  <2>4. \A j, k \in DOMAIN m_returned_pieces' :
          j # k /\ m_returned_pieces'[j] = m_returned_pieces'[k] =>
            m_returned_pieces'[j] = NoPiece
    BY <2>1
  <2>5. p \in Int /\ m_next_piece' \in Int /\ m_next_piece <= m_next_piece' /\ p < m_next_piece'
    BY <2>1
  <2>6. /\ Range(m_returned_pieces') \subseteq Range(m_returned_pieces)
        /\ p \notin written \union Range(m_returned_pieces')
    BY <2>2, <2>3
  <2> HIDE <1>0
  <2> QED
    BY <1>1, <2>3, <2>4, <2>5, <2>6, PlacesTaken
<1>4. CASE m_returned_pieces = << >> /\ m_next_piece > MAX_PIECE_NUM
  <2>1. p = NoPiece /\ UNCHANGED pool
    BY <1>1, <1>4 DEF PieceToGet, PoolExhausted, get_piece, pool
  <2> HIDE DEF p
  <2> QED
    BY <1>1, <2>1 DEF PieceExclusive, pool
<1> QED
  BY <1>2, <1>3, <1>4, PieceListAssumption

LEMMA ReturnedRange ==
  ASSUME m_returned_pieces \in Seq(Indices), NEW i \in Indices, return_piece(i)
  PROVE  Range(m_returned_pieces') = Range(m_returned_pieces) \union {i}
<1>1. /\ DOMAIN m_returned_pieces' = DOMAIN m_returned_pieces \union {Len(m_returned_pieces) + 1}
      /\ \A k \in DOMAIN m_returned_pieces : m_returned_pieces'[k] = m_returned_pieces[k]
      /\ m_returned_pieces'[Len(m_returned_pieces) + 1] = i
  BY DEF return_piece
<1> QED
  BY <1>1 DEF Range

(* A connection gives back what it holds, and holds nothing then.          *)
LEMMA ReturnPlaces ==
  ASSUME TypeOK, PieceExclusive, NEW c \in Connections,
         return_piece(m_piece_index[c]),
         m_piece_index' = [m_piece_index EXCEPT ![c] = NoPiece],
         UNCHANGED written
  PROVE  PieceExclusive'
<1>0. /\ m_returned_pieces \in Seq(Indices)
      /\ m_next_piece \in Nat
      /\ m_piece_index \in [Connections -> Indices]
      /\ Indices \subseteq Int /\ NoPiece = -1
  BY PieceListAssumption DEF TypeOK, Indices, Pieces, NoPiece
<1> DEFINE p == m_piece_index[c]
<1>1. /\ m_returned_pieces' = Append(m_returned_pieces, p)
      /\ m_next_piece' = m_next_piece
  BY DEF return_piece
<1>2. /\ DOMAIN m_returned_pieces' = DOMAIN m_returned_pieces \union {Len(m_returned_pieces) + 1}
      /\ \A k \in DOMAIN m_returned_pieces : m_returned_pieces'[k] = m_returned_pieces[k]
      /\ m_returned_pieces'[Len(m_returned_pieces) + 1] = p
  BY <1>0, <1>1
<1>3. Range(m_returned_pieces') = Range(m_returned_pieces) \union {p}
  BY <1>0, ReturnedRange
<1>4. \A j, k \in DOMAIN m_returned_pieces' :
        j # k /\ m_returned_pieces'[j] = m_returned_pieces'[k] =>
          m_returned_pieces'[j] = NoPiece
  BY <1>0, <1>2 DEF PieceExclusive, Range
<1> HIDE DEF p
<1>5. \A q \in Range(m_returned_pieces') \ {NoPiece} : q < m_next_piece' /\ q \notin written'
  BY <1>1, <1>3 DEF PieceExclusive, p
<1>6. ASSUME NEW d \in Connections, m_piece_index'[d] # NoPiece
      PROVE  /\ m_piece_index'[d] < m_next_piece'
             /\ m_piece_index'[d] \notin written' \union Range(m_returned_pieces')
             /\ \A e \in Connections \ {d} : m_piece_index'[d] # m_piece_index'[e]
  <2>1. d # c /\ m_piece_index'[d] = m_piece_index[d]
    BY <1>0, <1>6
  <2>2. m_piece_index[d] # p
    BY <1>6, <2>1 DEF PieceExclusive, p
  <2>3. m_piece_index[d] < m_next_piece' /\ m_piece_index[d] \notin written' \union Range(m_returned_pieces')
    BY <1>1, <1>3, <1>6, <2>1, <2>2 DEF PieceExclusive
  <2>4. \A e \in Connections \ {d} : m_piece_index[d] # m_piece_index'[e]
    BY <1>0, <1>6, <2>1 DEF PieceExclusive
  <2> QED
    BY <2>1, <2>3, <2>4
<1> QED
  BY <1>1, <1>4, <1>5, <1>6 DEF PieceExclusive

LEMMA process_piecePlaces ==
  ASSUME TypeOK, PieceExclusive, NEW c \in Connections, NEW r \in requested[c],
         PeerAnswers(c, r)
  PROVE  PieceExclusive'
<1>1. PICK writes \in BOOLEAN : process_piece(c, r, writes)
  BY DEF PeerAnswers
<1>2. CASE UNCHANGED << m_piece_index, written >>
  BY <1>1, <1>2, PlacesUnchanged DEF process_piece, pool
<1>3. CASE /\ r.index = m_piece_index[c]
           /\ written' = written \union {m_piece_index[c]}
           /\ m_piece_index' = [m_piece_index EXCEPT ![c] = NoPiece]
  <2>1. m_piece_index[c] # NoPiece /\ r \in Answerable
    BY <1>3 DEF TypeOK, Answerable
  <2>2. UNCHANGED pool
    BY <1>1 DEF process_piece
  <2> QED
    BY <1>3, <2>1, <2>2 DEF TypeOK, PieceExclusive, pool
<1> QED
  BY <1>1, <1>2, <1>3 DEF process_piece, searchVars

LEMMA PlacesNext == TypeOK /\ PieceExclusive /\ [Next]_vars => PieceExclusive'
<1> SUFFICES ASSUME TypeOK, PieceExclusive, [Next]_vars PROVE PieceExclusive'
  OBVIOUS
<1>1. CASE UNCHANGED vars
  BY <1>1, PlacesUnchanged DEF vars, searchVars
<1>2. ASSUME NEW c \in Connections,
             on_read(c) \/ on_read_end(c) \/ on_write(c) \/ on_close(c) \/ Crash(c)
      PROVE  PieceExclusive'
  BY <1>2, PlacesUnchanged DEF on_read, on_read_end, on_write, on_close, Crash, searchVars
<1>3. ASSUME NEW c \in Connections, Message(c)
      PROVE  PieceExclusive'
  <2>1. CASE PeerShakesHands(c)
    BY <2>1, PlacesUnchanged DEF PeerShakesHands, process_handshake, searchVars
  <2>2. CASE \E pieces \in Bitfields : PeerAnnounces(c, pieces)
    BY <2>2, PlacesUnchanged DEF PeerAnnounces, process_bitfield, searchVars
  <2>3. CASE \E i \in Haves : PeerHas(c, i)
    BY <2>3, PlacesUnchanged DEF PeerHas, process_have, searchVars
  <2>4. CASE PeerChokes(c)
    BY <2>4, ReturnPlaces DEF PeerChokes, process_choke
  <2>5. CASE PeerUnchokes(c)
    BY <2>5, PlacesUnchanged DEF PeerUnchokes, process_unchoke
  <2> QED
    BY <1>3, <2>1, <2>2, <2>3, <2>4, <2>5, process_piecePlaces DEF Message
<1>4. ASSUME NEW c \in Connections, Search(c)
      PROVE  PieceExclusive'
  BY <1>4, TryPiecePlaces, ReturnPlaces DEF Search, GiveBackPiece
<1> QED
  BY <1>1, <1>2, <1>3, <1>4 DEF Next

(* No two connections hold the same piece, none holds one that is in the   *)
(* pool or written, and the pool does not hold a piece twice: for any      *)
(* number of workers, whose handlers interleave between two locks.         *)
THEOREM Exclusive == Spec => []PieceExclusive
<1>1. TypeOK /\ PieceExclusive /\ [Next]_vars => (TypeOK /\ PieceExclusive)'
  BY TypeNext, PlacesNext
<1> QED
  BY <1>1, TypeInit, PlacesInit, PTL DEF Spec
-----------------------------------------------------------------------------
(* Refinement of PieceAllocation.                                          *)

LEMMA AllocationInit == Init => Allocation!Init
<1> SUFFICES ASSUME Init PROVE Allocation!Init
  OBVIOUS
<1>1. FreePieces = Pieces
  BY DEF Init, PieceListInit, FreePieces, Pieces, Range
<1>2. HeldPieces = [c \in Connections |-> {}]
  BY DEF Init, PeerProtocolInit, HeldPieces
<1> QED
  BY <1>1, <1>2 DEF Allocation!Init, Init, PeerProtocolInit

(* A step that moves no piece, and closes no connection, is a stutter.     *)
LEMMA AllocationStutter ==
  ASSUME UNCHANGED << pool, m_piece_index, written >>,
         \A d \in Connections : Stopped(d)' <=> Stopped(d)
  PROVE  UNCHANGED Allocation!alloc
<1>1. FreePieces' = FreePieces
  BY DEF FreePieces, pool
<1>2. HeldPieces' = HeldPieces
  BY DEF HeldPieces
<1> QED
  BY <1>1, <1>2 DEF Allocation!alloc

LEMMA HeldAfter ==
  ASSUME NEW c \in Connections, NEW i, NEW s,
         TypeOK,
         m_piece_index' = [m_piece_index EXCEPT ![c] = i],
         pc' = [pc EXCEPT ![c] = s]
  PROVE  HeldPieces' = [HeldPieces EXCEPT ![c] = IF s \in {"closed", "crashed"} THEN {} ELSE {i} \ {NoPiece}]
<1>1. /\ m_piece_index \in [Connections -> Indices]
      /\ pc \in [Connections -> {"idle", "reading", "picking", "returning", "closed", "crashed"}]
  BY DEF TypeOK
<1> QED
  BY <1>1 DEF HeldPieces, Stopped

(* The end of the process forgets what all connections hold.               *)
LEMMA AllocationCrash ==
  ASSUME NEW c \in Connections, Crash(c)
  PROVE  Allocation!Next
<1>1. HeldPieces' = [d \in Connections |-> {}]
  BY CrashEffect DEF HeldPieces, Stopped
<1>2. FreePieces' = FreePieces /\ written' = written
  BY CrashEffect DEF FreePieces
<1> QED
  BY <1>1, <1>2 DEF Allocation!Next, Allocation!Stop

(* Closing a connection forgets what it holds.                             *)
LEMMA AllocationClose ==
  ASSUME TypeOK, NEW c \in Connections, pc' = [pc EXCEPT ![c] = "closed"],
         UNCHANGED << pool, m_piece_index, written >>
  PROVE  Allocation!Next
<1>1. m_piece_index' = [m_piece_index EXCEPT ![c] = m_piece_index[c]]
  BY DEF TypeOK
<1>2. HeldPieces' = [HeldPieces EXCEPT ![c] = {}]
  BY <1>1, HeldAfter
<1>3. FreePieces' = FreePieces
  BY DEF FreePieces, pool
<1> QED
  BY <1>2, <1>3 DEF Allocation!Next, Allocation!Forget

(* A get_piece takes what it hands out from the free pieces.               *)
LEMMA FreeTaken ==
  ASSUME TypeOK, PieceExclusive, NEW c \in Connections, TryPiece(c)
  PROVE  /\ FreePieces' = FreePieces \ {PieceToGet}
         /\ PieceToGet # NoPiece => PieceToGet \in FreePieces
<1> DEFINE p == PieceToGet
<1> SUFFICES FreePieces' = FreePieces \ {p} /\ (p # NoPiece => p \in FreePieces)
  OBVIOUS
<1>1. get_piece /\ m_piece_index' = [m_piece_index EXCEPT ![c] = p]
  BY DEF TryPiece
<1>2. p \in Indices
  BY get_pieceType DEF TypeOK, PoolType
<1>3. CASE m_returned_pieces # << >>
  <2>1. /\ p = Head(m_returned_pieces)
        /\ m_returned_pieces' = Tail(m_returned_pieces)
        /\ m_next_piece' = m_next_piece
    BY <1>1, <1>3 DEF PieceToGet, get_piece
  <2>2. Range(m_returned_pieces) = Range(m_returned_pieces') \union {p}
    <3>0. m_returned_pieces \in Seq(Indices)
      BY DEF TypeOK
    <3> HIDE DEF p
    <3>1. p = m_returned_pieces[1] /\ 1 \in DOMAIN m_returned_pieces
      BY <1>3, <2>1, <3>0
    <3>2. \A k \in DOMAIN m_returned_pieces' :
             k + 1 \in DOMAIN m_returned_pieces
             /\ m_returned_pieces'[k] = m_returned_pieces[k + 1]
      BY <1>3, <2>1, <3>0
    <3>3. \A k \in DOMAIN m_returned_pieces \ {1} :
             /\ k - 1 \in DOMAIN m_returned_pieces'
             /\ m_returned_pieces'[k - 1] = m_returned_pieces[k]
      BY <1>3, <2>1, <3>0
    <3>4. Range(m_returned_pieces') \union {p} \subseteq Range(m_returned_pieces)
      BY <3>1, <3>2, <3>3 DEF Range
    <3>5. Range(m_returned_pieces) \subseteq Range(m_returned_pieces') \union {p}
      BY <3>1, <3>2, <3>3 DEF Range
    <3> QED
      BY <3>4, <3>5
  <2>3. p # NoPiece => p \notin Range(m_returned_pieces')
    BY <1>1, TryPiecePlaces DEF PieceExclusive, TypeOK
  <2>4. p # NoPiece => p < m_next_piece
    BY <2>2 DEF PieceExclusive
  <2>5. m_next_piece \in Nat
    BY DEF TypeOK
  <2> HIDE DEF p
  <2> QED
    BY <1>2, <2>1, <2>2, <2>3, <2>4, <2>5 DEF FreePieces, Pieces, Indices, NoPiece
<1>4. CASE m_returned_pieces = << >> /\ m_next_piece <= MAX_PIECE_NUM
  <2>1. /\ p = m_next_piece
        /\ m_returned_pieces' = << >>
        /\ m_next_piece' = m_next_piece + 1
    BY <1>1, <1>4, PieceListAssumption DEF PieceToGet, PoolExhausted, get_piece, TypeOK
  <2> HIDE DEF p
  <2> QED
    BY <1>4, <2>1, PieceListAssumption DEF FreePieces, Pieces, Range, TypeOK
<1>5. CASE m_returned_pieces = << >> /\ m_next_piece > MAX_PIECE_NUM
  <2>1. p = NoPiece /\ UNCHANGED pool
    BY <1>1, <1>5 DEF PieceToGet, PoolExhausted, get_piece, pool
  <2> HIDE DEF p
  <2> QED
    BY <1>5, <2>1 DEF FreePieces, Pieces, NoPiece, Range, pool
<1> QED
  BY <1>3, <1>4, <1>5, PieceListAssumption DEF TypeOK

LEMMA AllocationTryPiece ==
  ASSUME TypeOK, PieceExclusive, NEW c \in Connections, TryPiece(c)
  PROVE  Allocation!Next
<1> DEFINE p == PieceToGet
<1>1. PICK s \in {"reading", "returning", "closed"} : pc' = [pc EXCEPT ![c] = s]
  BY DEF TryPiece
<1>2. m_piece_index' = [m_piece_index EXCEPT ![c] = p] /\ UNCHANGED written /\ get_piece
  BY DEF TryPiece
<1>3. HeldPieces' = [HeldPieces EXCEPT ![c] = IF s \in {"closed", "crashed"} THEN {} ELSE {p} \ {NoPiece}]
  BY <1>1, <1>2, HeldAfter
<1>4. p \in Indices
  BY get_pieceType DEF TypeOK, PoolType
<1>5. FreePieces' = FreePieces \ {p} /\ (p # NoPiece => p \in FreePieces)
  BY FreeTaken
<1> HIDE DEF p
<1>6. CASE p = NoPiece
  <2>1. FreePieces' = FreePieces
    BY <1>5, <1>6 DEF FreePieces, Pieces, NoPiece
  <2>2. HeldPieces' = [HeldPieces EXCEPT ![c] = {}]
    BY <1>3, <1>6
  <2> QED
    BY <1>2, <2>1, <2>2 DEF Allocation!Next, Allocation!Forget
<1>7. CASE p # NoPiece
  <2>1. p \in Pieces
    BY <1>4, <1>7 DEF Indices
  <2>2. \E t \in {{}, {p}} : HeldPieces' = [HeldPieces EXCEPT ![c] = t]
    BY <1>3, <1>7
  <2>3. Allocation!Take(c, p)
    BY <1>2, <1>5, <1>7, <2>2 DEF Allocation!Take
  <2> QED
    BY <2>1, <2>3 DEF Allocation!Next
<1> QED
  BY <1>6, <1>7

LEMMA AllocationReturn ==
  ASSUME TypeOK, PieceExclusive, NEW c \in Connections,
         NEW s \in {"picking", "reading"}, pc' = [pc EXCEPT ![c] = s], ~Stopped(c),
         return_piece(m_piece_index[c]),
         m_piece_index' = [m_piece_index EXCEPT ![c] = NoPiece],
         UNCHANGED written
  PROVE  Allocation!Next
<1> DEFINE p == m_piece_index[c]
<1>1. HeldPieces' = [HeldPieces EXCEPT ![c] = {}]
  BY HeldAfter
<1>2. HeldPieces[c] = {p} \ {NoPiece}
  BY DEF HeldPieces, Stopped
<1>3. FreePieces' = FreePieces \union ({p} \ {NoPiece})
  <2>1. /\ m_returned_pieces' = Append(m_returned_pieces, p)
        /\ m_next_piece' = m_next_piece
    BY DEF return_piece
  <2>2. Range(m_returned_pieces') = Range(m_returned_pieces) \union {p}
    BY ReturnedRange DEF TypeOK
  <2> QED
    BY <2>1, <2>2 DEF FreePieces
<1>4. p \in Indices
  BY DEF TypeOK
<1> HIDE DEF p
<1>5. CASE p = NoPiece
  BY <1>1, <1>3, <1>5 DEF Allocation!Next, Allocation!Forget
<1>6. CASE p # NoPiece
  <2>1. p \in Pieces
    BY <1>4, <1>6 DEF Indices
  <2>2. Allocation!GiveBack(c, p)
    BY <1>1, <1>2, <1>3, <1>6 DEF Allocation!GiveBack
  <2> QED
    BY <2>1, <2>2 DEF Allocation!Next
<1> QED
  BY <1>5, <1>6

LEMMA AllocationAnswer ==
  ASSUME TypeOK, NEW c \in Connections, NEW r \in requested[c], PeerAnswers(c, r)
  PROVE  [Allocation!Next]_(Allocation!alloc)
<1>1. PICK writes \in BOOLEAN : process_piece(c, r, writes)
  BY DEF PeerAnswers
<1>2. UNCHANGED pool /\ pc[c] = "reading"
  BY <1>1 DEF process_piece, Processing
<1>3. CASE UNCHANGED << pc, m_piece_index, written >>
  BY <1>2, <1>3, AllocationStutter DEF Stopped
<1>4. CASE pc' = [pc EXCEPT ![c] = "closed"] /\ UNCHANGED << m_piece_index, written >>
  BY <1>2, <1>4, AllocationClose
<1>5. CASE /\ r.index = m_piece_index[c]
           /\ written' = written \union {m_piece_index[c]}
           /\ m_piece_index' = [m_piece_index EXCEPT ![c] = NoPiece]
           /\ pc' = [pc EXCEPT ![c] = "picking"]
  <2>1. r.index \in Pieces /\ r.index # NoPiece
    BY DEF TypeOK, Answerable, AllRequests, Indices
  <2>2. HeldPieces' = [HeldPieces EXCEPT ![c] = {}]
    <3>1. NoPiece \in Indices
      BY DEF Indices
    <3> QED
      BY <1>5, <3>1, HeldAfter
  <2>3. r.index \in HeldPieces[c]
    BY <1>2, <1>5, <2>1 DEF HeldPieces, Stopped
  <2>4. FreePieces' = FreePieces
    BY <1>2 DEF FreePieces, pool
  <2>5. Allocation!Finish(c, r.index)
    BY <1>5, <2>2, <2>3, <2>4 DEF Allocation!Finish
  <2> QED
    BY <2>1, <2>5 DEF Allocation!Next
<1> QED
  BY <1>1, <1>3, <1>4, <1>5 DEF process_piece, StartSearch, searchVars

LEMMA AllocationNext ==
  TypeOK /\ PieceExclusive /\ [Next]_vars => [Allocation!Next]_(Allocation!alloc)
<1> SUFFICES ASSUME TypeOK, PieceExclusive, [Next]_vars
             PROVE  [Allocation!Next]_(Allocation!alloc)
  OBVIOUS
<1>1. CASE UNCHANGED vars
  BY <1>1, AllocationStutter DEF vars, searchVars, Stopped
<1>2. ASSUME NEW c \in Connections, on_read(c) \/ on_read_end(c) \/ on_write(c)
      PROVE  [Allocation!Next]_(Allocation!alloc)
  BY <1>2, AllocationStutter DEF on_read, on_read_end, on_write, searchVars, TypeOK, Idle, Stopped
<1>3. ASSUME NEW c \in Connections, on_close(c) \/ Crash(c)
      PROVE  [Allocation!Next]_(Allocation!alloc)
  BY <1>3, AllocationClose, AllocationCrash DEF on_close, searchVars
<1>4. ASSUME NEW c \in Connections, Message(c)
      PROVE  [Allocation!Next]_(Allocation!alloc)
  <2>1. CASE PeerShakesHands(c)
    BY <2>1, AllocationStutter DEF PeerShakesHands, process_handshake, searchVars, Stopped
  <2>2. CASE \E pieces \in Bitfields : PeerAnnounces(c, pieces)
    BY <2>2, AllocationStutter DEF PeerAnnounces, process_bitfield, searchVars, Stopped
  <2>3. CASE \E i \in Haves : PeerHas(c, i)
    BY <2>3, AllocationStutter, AllocationClose DEF PeerHas, process_have, searchVars, Stopped
  <2>4. CASE PeerChokes(c)
    <3>1. pc' = [pc EXCEPT ![c] = "reading"] /\ ~Stopped(c)
      BY <2>4 DEF PeerChokes, process_choke, Processing, TypeOK, Stopped
    <3> QED
      BY <2>4, <3>1, AllocationReturn DEF PeerChokes, process_choke
  <2>5. CASE PeerUnchokes(c)
    BY <2>5, AllocationStutter
       DEF PeerUnchokes, process_unchoke, StartSearch, Processing, TypeOK, Stopped
  <2> QED
    BY <1>4, <2>1, <2>2, <2>3, <2>4, <2>5, AllocationAnswer DEF Message
<1>5. ASSUME NEW c \in Connections, Search(c)
      PROVE  [Allocation!Next]_(Allocation!alloc)
  <2>1. CASE TryPiece(c)
    BY <2>1, AllocationTryPiece
  <2>2. CASE GiveBackPiece(c)
    BY <2>2, AllocationReturn DEF GiveBackPiece, Stopped
  <2> QED
    BY <1>5, <2>1, <2>2 DEF Search
<1> QED
  BY <1>1, <1>2, <1>3, <1>4, <1>5 DEF Next

(* The connections and the pool implement the allocation of pieces: what   *)
(* lists, attempts and messages there are, pieces are taken, given back,   *)
(* finished and lost only as PieceAllocation allows.                       *)
THEOREM Refinement == Spec => ImplementsAllocation
<1>1. Spec => []TypeOK /\ []PieceExclusive
  BY Typing, Exclusive
<1> QED
  BY <1>1, AllocationInit, AllocationNext, PTL DEF Spec, ImplementsAllocation, Allocation!Spec

(* The abstract invariant, which needs nothing but the abstract steps.     *)
AllocationInv ==
  /\ FreePieces \subseteq Pieces /\ written \subseteq Pieces
  /\ HeldPieces \in [Connections -> SUBSET Pieces]
  /\ Allocation!Exclusive

LEMMA AllocationInvNext == AllocationInv /\ [Allocation!Next]_(Allocation!alloc) => AllocationInv'
<1> SUFFICES ASSUME AllocationInv, Allocation!Next \/ UNCHANGED Allocation!alloc
             PROVE  AllocationInv'
  OBVIOUS
<1> USE DEF AllocationInv, Allocation!Exclusive
<1>1. CASE UNCHANGED Allocation!alloc
  BY <1>1 DEF Allocation!alloc
<1>2. ASSUME NEW c \in Connections, NEW p \in Pieces, Allocation!Take(c, p)
      PROVE  AllocationInv'
  BY <1>2 DEF Allocation!Take
<1>3. ASSUME NEW c \in Connections, NEW p \in Pieces, Allocation!GiveBack(c, p)
      PROVE  AllocationInv'
  BY <1>3 DEF Allocation!GiveBack
<1>4. ASSUME NEW c \in Connections, NEW p \in Pieces, Allocation!Finish(c, p)
      PROVE  AllocationInv'
  BY <1>4 DEF Allocation!Finish
<1>5. ASSUME NEW c \in Connections, Allocation!Forget(c)
      PROVE  AllocationInv'
  BY <1>5 DEF Allocation!Forget
<1>6. CASE Allocation!Stop
  BY <1>6 DEF Allocation!Stop
<1> QED
  BY <1>1, <1>2, <1>3, <1>4, <1>5, <1>6 DEF Allocation!Next

(* PieceAllocation never lets two connections hold the same piece, nor one *)
(* that is free or done: the abstract steps alone give it, so whoever      *)
(* takes them only has it.                                                 *)
THEOREM AllocationExclusive == ImplementsAllocation => []Allocation!Exclusive
<1>1. Allocation!Init => AllocationInv
  BY DEF Allocation!Init, AllocationInv, Allocation!Exclusive
<1>2. AllocationInv => Allocation!Exclusive
  BY DEF AllocationInv
<1> QED
  BY <1>1, <1>2, AllocationInvNext, PTL DEF ImplementsAllocation, Allocation!Spec
-----------------------------------------------------------------------------
(* What a connection waits for.                                            *)

(* The strengthening: a handler runs only for a connection that waited for *)
(* READ, and the state changes only when the handler ends.                 *)
WaitsInv ==
  /\ WaitsToWriteIffQueued
  /\ \A c \in Connections : Running(c) => client_state[c] = "WAIT_FOR_READ"

LEMMA WaitsInit == Init => WaitsInv
  BY DEF Init, PeerProtocolInit, WaitsInv, WaitsToWriteIffQueued, Running, Stopped

LEMMA WaitsNext == TypeOK /\ WaitsInv /\ [Next]_vars => WaitsInv'
<1> SUFFICES ASSUME TypeOK, WaitsInv, [Next]_vars PROVE WaitsInv'
  OBVIOUS
<1>0. /\ pc \in [Connections -> {"idle", "reading", "picking", "returning", "closed", "crashed"}]
      /\ client_state \in [Connections -> {"WAIT_FOR_READ", "WAIT_FOR_WRITE"}]
      /\ DOMAIN m_messages = Connections
  BY DEF TypeOK
<1> USE <1>0 DEF WaitsInv, WaitsToWriteIffQueued, Running, Stopped
<1>1. CASE UNCHANGED vars
  BY <1>1 DEF vars
<1>2. ASSUME NEW c \in Connections, on_read(c) \/ on_close(c)
      PROVE  WaitsInv'
  BY <1>2 DEF on_read, on_close, Idle
<1>3. ASSUME NEW c \in Connections, on_read_end(c)
      PROVE  WaitsInv'
  BY <1>3 DEF on_read_end
<1>4. ASSUME NEW c \in Connections, on_write(c)
      PROVE  WaitsInv'
  BY <1>4 DEF on_write, Idle
<1>5. ASSUME NEW c \in Connections, NEW s \in {"reading", "picking", "returning", "closed"},
             Running(c), pc' = [pc EXCEPT ![c] = s], UNCHANGED client_state,
             \A d \in Connections \ {c} : m_messages'[d] = m_messages[d]
      PROVE  WaitsInv'
  BY <1>5
<1>6. ASSUME NEW c \in Connections, Message(c)
      PROVE  WaitsInv'
  <2>1. Running(c) /\ UNCHANGED client_state
    BY <1>6 DEF Message, PeerShakesHands, PeerAnnounces, PeerHas, PeerChokes, PeerUnchokes,
                PeerAnswers, process_handshake, process_bitfield, process_have, process_choke,
                process_unchoke, process_piece, Processing
  <2>2. \A d \in Connections \ {c} : m_messages'[d] = m_messages[d]
    BY <1>6 DEF Message, PeerShakesHands, PeerAnnounces, PeerHas, PeerChokes, PeerUnchokes,
                PeerAnswers, process_handshake, process_bitfield, process_have, process_choke,
                process_unchoke, process_piece
  <2>3. pc[c] = "reading"
    BY <1>6 DEF Message, PeerShakesHands, PeerAnnounces, PeerHas, PeerChokes, PeerUnchokes,
                PeerAnswers, process_handshake, process_bitfield, process_have, process_choke,
                process_unchoke, process_piece, Processing
  <2>4. \E s \in {"reading", "picking", "closed"} : pc' = [pc EXCEPT ![c] = s]
    <3>1. pc = [pc EXCEPT ![c] = "reading"]
      BY <2>3
    <3> QED
      BY <1>6, <3>1 DEF Message, PeerShakesHands, PeerAnnounces, PeerHas, PeerChokes,
                PeerUnchokes, PeerAnswers, process_handshake, process_bitfield, process_have,
                process_choke, process_unchoke, process_piece, StartSearch, searchVars
  <2> QED
    BY <1>5, <2>1, <2>2, <2>4
<1>7. ASSUME NEW c \in Connections, Search(c)
      PROVE  WaitsInv'
  <2>1. CASE TryPiece(c)
    BY <1>5, <1>7, <2>1 DEF Search, TryPiece
  <2>2. CASE GiveBackPiece(c)
    BY <1>5, <1>7, <2>2 DEF Search, GiveBackPiece
  <2> QED
    BY <1>7, <2>1, <2>2 DEF Search
<1>8. ASSUME NEW c \in Connections, Crash(c)
      PROVE  WaitsInv'
  BY <1>8, CrashEffect
<1> QED
  BY <1>1, <1>2, <1>3, <1>4, <1>6, <1>7, <1>8 DEF Next

(* Between events a connection waits to write exactly when it has          *)
(* something to write.                                                     *)
THEOREM WaitsRight == Spec => []WaitsToWriteIffQueued
<1>1. TypeOK /\ WaitsInv /\ [Next]_vars => (TypeOK /\ WaitsInv)'
  BY TypeNext, WaitsNext
<1>2. WaitsInv => WaitsToWriteIffQueued
  BY DEF WaitsInv
<1> QED
  BY <1>1, <1>2, TypeInit, WaitsInit, PTL DEF Spec
-----------------------------------------------------------------------------
(* The buffer of the piece in hand.                                        *)

LEMMA BufferInit == Init => BufferMatchesIndex
  BY DEF Init, PeerProtocolInit, BufferMatchesIndex, Downloading

(* A step that leaves the search state of every connection alone, or ends  *)
(* with connection c holding nothing or out of idle and reading.           *)
LEMMA BufferKept ==
  ASSUME TypeOK, BufferMatchesIndex, NEW c \in Connections, NEW s, NEW i,
         pc' = [pc EXCEPT ![c] = s],
         m_piece_index' = [m_piece_index EXCEPT ![c] = i],
         \/ i = NoPiece
         \/ s \notin {"idle", "reading"}
         \/ /\ i = m_piece_index[c] /\ pc[c] \in {"idle", "reading"}
            /\ m_piece'[c].id = m_piece[c].id /\ m_piece'[c].size = m_piece[c].size
            /\ m_piece_size'[c] = m_piece_size[c],
         \A d \in Connections \ {c} :
           m_piece'[d] = m_piece[d] /\ m_piece_size'[d] = m_piece_size[d]
  PROVE  BufferMatchesIndex'
  BY DEF TypeOK, BufferMatchesIndex, Downloading, SizeOf

LEMMA BufferSearch ==
  ASSUME TypeOK, BufferMatchesIndex, NEW c \in Connections, Search(c)
  PROVE  BufferMatchesIndex'
<1>1. CASE GiveBackPiece(c)
  <2>1. PICK s : pc' = [pc EXCEPT ![c] = s]
    BY <1>1 DEF GiveBackPiece
  <2> QED
    BY <1>1, <2>1, BufferKept DEF GiveBackPiece, TypeOK
<1>2. CASE TryPiece(c) /\ pc' # [pc EXCEPT ![c] = "reading"]
  <2>1. PICK s \in {"returning", "closed"} : pc' = [pc EXCEPT ![c] = s] /\ UNCHANGED m_piece
    BY <1>2 DEF TryPiece
  <2> QED
    BY <1>2, <2>1, BufferKept DEF TryPiece, TypeOK
<1>3. CASE TryPiece(c) /\ pc' = [pc EXCEPT ![c] = "reading"]
  <2> DEFINE p == PieceToGet
  <2>1. SizeToGet # 0 /\ m_piece' = [m_piece EXCEPT ![c] = InitialPiece(p, SizeToGet)]
    <3>1. pc'[c] = "reading"
      BY <1>3 DEF TypeOK
    <3>2. PICK bit \in Verdicts(c) :
            \/ bit = "set" /\ m_piece' = [m_piece EXCEPT ![c] = InitialPiece(p, SizeToGet)]
            \/ bit = "clear" /\ pc' = [pc EXCEPT ![c] = "returning"]
            \/ bit = "throw" /\ pc' = [pc EXCEPT ![c] = "closed"]
      BY <1>3 DEF TryPiece
    <3>3. bit = "set"
      BY <3>1, <3>2 DEF TypeOK
    <3>4. SizeToGet # 0
      BY <3>3 DEF Verdicts
    <3> QED
      BY <3>2, <3>3, <3>4
  <2>2. SizeToGet = SizeOf(p)
    BY <2>1 DEF SizeToGet
  <2>3. /\ m_piece'[c] = InitialPiece(p, SizeToGet)
        /\ m_piece_index'[c] = p /\ m_piece_size'[c] = SizeToGet
    BY <1>3, <2>1 DEF TryPiece, TypeOK
  <2>4. \A d \in Connections \ {c} :
          /\ m_piece'[d] = m_piece[d] /\ m_piece_index'[d] = m_piece_index[d]
          /\ m_piece_size'[d] = m_piece_size[d] /\ pc'[d] = pc[d]
    BY <1>3, <2>1 DEF TryPiece, TypeOK
  <2> HIDE DEF p
  <2> QED
    BY <2>2, <2>3, <2>4 DEF BufferMatchesIndex, Downloading, InitialPiece, SizeOf
<1> QED
  BY <1>1, <1>2, <1>3 DEF Search

LEMMA BufferNext == TypeOK /\ BufferMatchesIndex /\ [Next]_vars => BufferMatchesIndex'
<1> SUFFICES ASSUME TypeOK, BufferMatchesIndex, [Next]_vars PROVE BufferMatchesIndex'
  OBVIOUS
<1>1. CASE UNCHANGED vars
  BY <1>1 DEF vars, searchVars, BufferMatchesIndex, Downloading, SizeOf
<1>2. ASSUME NEW c \in Connections,
             UNCHANGED << m_piece_index, m_piece_size, m_piece >>,
             NEW s, pc' = [pc EXCEPT ![c] = s],
             pc[c] \in {"idle", "reading"}
      PROVE  BufferMatchesIndex'
  <2>1. m_piece_index' = [m_piece_index EXCEPT ![c] = m_piece_index[c]]
    BY <1>2 DEF TypeOK
  <2> QED
    BY <1>2, <2>1, BufferKept
<1>3. ASSUME NEW c \in Connections, on_read(c) \/ on_read_end(c) \/ on_close(c)
      PROVE  BufferMatchesIndex'
  BY <1>2, <1>3 DEF on_read, on_read_end, on_close, Idle, searchVars
<1>4. ASSUME UNCHANGED << m_piece_index, m_piece_size, m_piece, pc >>
      PROVE  BufferMatchesIndex'
  BY <1>4 DEF BufferMatchesIndex, Downloading, SizeOf
<1>5. ASSUME NEW c \in Connections, Message(c)
      PROVE  BufferMatchesIndex'
  <2>1. CASE PeerShakesHands(c)
    BY <1>4, <2>1 DEF PeerShakesHands, process_handshake, searchVars
  <2>2. CASE \E pieces \in Bitfields : PeerAnnounces(c, pieces)
    BY <1>4, <2>2 DEF PeerAnnounces, process_bitfield, searchVars
  <2>3. CASE \E i \in Haves : PeerHas(c, i)
    BY <1>2, <1>4, <2>3 DEF PeerHas, process_have, searchVars, Processing
  <2>4. CASE PeerChokes(c)
    <3>1. pc' = [pc EXCEPT ![c] = "reading"]
      BY <2>4 DEF PeerChokes, process_choke, Processing, TypeOK
    <3> QED
      BY <2>4, <3>1, BufferKept DEF PeerChokes, process_choke, TypeOK
  <2>5. CASE PeerUnchokes(c)
    BY <1>2, <2>5 DEF PeerUnchokes, process_unchoke, StartSearch, Processing
  <2>6. CASE \E r \in requested[c] : PeerAnswers(c, r)
    <3>1. PICK r \in requested[c], writes \in BOOLEAN : process_piece(c, r, writes)
      BY <2>6 DEF PeerAnswers
    <3>2. CASE UNCHANGED << pc, searchVars >>
      BY <1>4, <3>2 DEF searchVars
    <3>3. CASE /\ m_piece' = [m_piece EXCEPT ![c] =
                   [m_piece[c] EXCEPT !.received = @ \union Bytes(r)]]
               /\ UNCHANGED << pc, m_piece_index, m_piece_size >>
      <4>1. m_piece[c] \in [id: Indices, size: 0 .. PIECE_SIZE, received: SUBSET Nat]
        BY DEF TypeOK
      <4>2. m_piece'[c].id = m_piece[c].id /\ m_piece'[c].size = m_piece[c].size
        BY <3>3, <4>1 DEF TypeOK
      <4>3. \A d \in Connections \ {c} : m_piece'[d] = m_piece[d]
        BY <3>3 DEF TypeOK
      <4> QED
        BY <3>3, <4>2, <4>3 DEF BufferMatchesIndex, Downloading, SizeOf
    <3>4. CASE /\ m_piece' = [m_piece EXCEPT ![c] = EmptyPiece]
               /\ m_piece_index' = [m_piece_index EXCEPT ![c] = NoPiece]
               /\ UNCHANGED m_piece_size
               /\ StartSearch(c)
      BY <3>4, BufferKept DEF StartSearch, TypeOK
    <3>5. CASE /\ m_piece' = [m_piece EXCEPT ![c] = EmptyPiece]
               /\ pc' = [pc EXCEPT ![c] = "closed"]
               /\ UNCHANGED << m_piece_index, m_piece_size >>
      <4>1. m_piece_index' = [m_piece_index EXCEPT ![c] = m_piece_index[c]]
        BY <3>5 DEF TypeOK
      <4> QED
        BY <3>5, <4>1, BufferKept DEF TypeOK
    <3> QED
      BY <3>1, <3>2, <3>3, <3>4, <3>5 DEF process_piece
  <2> QED
    BY <1>5, <2>1, <2>2, <2>3, <2>4, <2>5, <2>6 DEF Message
<1>6. ASSUME NEW c \in Connections, Crash(c)
      PROVE  BufferMatchesIndex'
  BY <1>6, CrashEffect DEF BufferMatchesIndex, Downloading
<1> QED
  BY <1>1, <1>3, <1>4, <1>5, <1>6, BufferSearch DEF Next, on_write, searchVars

(* process_piece stores a block in the buffer of the piece it compared the *)
(* index with, and that buffer has the size of the piece.                  *)
THEOREM BufferRight == Spec => []BufferMatchesIndex
<1>1. TypeOK /\ BufferMatchesIndex /\ [Next]_vars => (TypeOK /\ BufferMatchesIndex)'
  BY TypeNext, BufferNext
<1> QED
  BY <1>1, TypeInit, BufferInit, PTL DEF Spec

------------------------------------------------------------------------------
(***************************************************************************)
(* What the connections ask for: a piece is asked of a peer that has it,   *)
(* and no search drops a piece; what may still be answered fits the        *)
(* buffer, and what is missing is asked for.                               *)
(***************************************************************************)

(* A connection to a choking peer holds no piece and searches for none:    *)
(* the answers that still come are for pieces given back by the choke.     *)
QuietWhileChoked ==
  \A c \in Connections : peer[c].choking /\ ~Stopped(c) =>
    m_piece_index[c] = NoPiece /\ pc[c] \in {"idle", "reading"}

LEMMA QuietInit == Init => QuietWhileChoked
  BY DEF Init, PeerProtocolInit, QuietWhileChoked

(* What the handlers leave as it is, in one fact each.                     *)
LEMMA AnswerEffect ==
  ASSUME TypeOK, NEW c \in Connections, NEW r \in requested[c], PeerAnswers(c, r)
  PROVE  /\ UNCHANGED << m_clients_pieces, peer, pool >>
         /\ pc[c] = "reading"
         /\ r.index # NoPiece
         /\ \/ UNCHANGED << pc, m_piece_index, written >>
            \/ /\ m_piece_index[c] # NoPiece
               /\ pc' = [pc EXCEPT ![c] = "picking"]
               /\ m_piece_index' = [m_piece_index EXCEPT ![c] = NoPiece]
               /\ written' = written \union {m_piece_index[c]}
            \/ /\ m_piece_index[c] # NoPiece
               /\ pc' = [pc EXCEPT ![c] = "closed"]
               /\ UNCHANGED << m_piece_index, written >>
<1>1. r.index # NoPiece
  BY DEF TypeOK, Answerable
<1>2. PICK writes \in BOOLEAN : process_piece(c, r, writes)
  BY DEF PeerAnswers
<1> QED
  BY <1>1, <1>2 DEF PeerAnswers, process_piece, Processing, searchVars, StartSearch, pool

LEMMA QuietNext == TypeOK /\ QuietWhileChoked /\ [Next]_vars => QuietWhileChoked'
<1> SUFFICES ASSUME TypeOK, QuietWhileChoked, [Next]_vars PROVE QuietWhileChoked'
  OBVIOUS
<1>0. /\ pc \in [Connections -> {"idle", "reading", "picking", "returning", "closed", "crashed"}]
      /\ m_piece_index \in [Connections -> Indices]
      /\ peer \in [Connections -> [announced: BOOLEAN, choking: BOOLEAN]]
  BY DEF TypeOK
<1>1. CASE UNCHANGED << pc, m_piece_index, peer >>
  BY <1>1 DEF QuietWhileChoked, Stopped
<1>2. ASSUME NEW c \in Connections, on_read(c) \/ on_read_end(c) \/ on_close(c)
      PROVE  QuietWhileChoked'
  BY <1>0, <1>2 DEF QuietWhileChoked, Stopped, on_read, on_read_end, on_close, Idle, searchVars
<1>3. ASSUME NEW c \in Connections, Search(c)
      PROVE  QuietWhileChoked'
  <2>1. pc[c] \in {"picking", "returning"} /\ UNCHANGED peer
    BY <1>3 DEF Search, TryPiece, GiveBackPiece
  <2>2. ~peer'[c].choking
    BY <2>1 DEF QuietWhileChoked, Stopped
  <2>3. \A d \in Connections \ {c} : pc'[d] = pc[d] /\ m_piece_index'[d] = m_piece_index[d]
    BY <1>0, <1>3 DEF Search, TryPiece, GiveBackPiece
  <2> QED
    BY <2>1, <2>2, <2>3 DEF QuietWhileChoked, Stopped
<1>4. ASSUME NEW c \in Connections, NEW r \in requested[c], PeerAnswers(c, r)
      PROVE  QuietWhileChoked'
  BY <1>0, <1>4, AnswerEffect DEF QuietWhileChoked, Stopped
<1>5. ASSUME NEW c \in Connections, PeerChokes(c)
      PROVE  QuietWhileChoked'
  BY <1>0, <1>5 DEF QuietWhileChoked, Stopped, PeerChokes, process_choke, Processing
<1>6. ASSUME NEW c \in Connections, PeerUnchokes(c)
      PROVE  QuietWhileChoked'
  BY <1>0, <1>6 DEF QuietWhileChoked, Stopped, PeerUnchokes, process_unchoke, StartSearch
<1>7. ASSUME NEW c \in Connections, NEW i \in Haves, PeerHas(c, i)
      PROVE  QuietWhileChoked'
  BY <1>0, <1>7 DEF QuietWhileChoked, Stopped, PeerHas, process_have, searchVars
<1>8. ASSUME NEW c \in Connections, NEW pieces \in Bitfields, PeerAnnounces(c, pieces)
      PROVE  QuietWhileChoked'
  BY <1>0, <1>8 DEF QuietWhileChoked, Stopped, PeerAnnounces, process_bitfield, searchVars
<1>9. ASSUME NEW c \in Connections, Crash(c)
      PROVE  QuietWhileChoked'
  BY <1>9, CrashEffect DEF QuietWhileChoked, Stopped
<1> QED
  BY <1>1, <1>2, <1>3, <1>4, <1>5, <1>6, <1>7, <1>8, <1>9
     DEF Next, Message, PeerShakesHands, process_handshake, on_write, searchVars, vars

LEMMA Quiet == Spec => [](TypeOK /\ QuietWhileChoked)
<1>1. TypeOK /\ QuietWhileChoked /\ [Next]_vars => (TypeOK /\ QuietWhileChoked)'
  BY TypeNext, QuietNext
<1> QED
  BY <1>1, TypeInit, QuietInit, PTL DEF Spec
-----------------------------------------------------------------------------
(* A piece is asked only of a peer that announced it.                      *)

LEMMA AsksInit == Init => AsksOnlyForAnnounced
  BY DEF Init, PeerProtocolInit, AsksOnlyForAnnounced, Downloading

(* A step that leaves what the peers announced alone, and the piece of     *)
(* every connection but c, which ends with none or not downloading.        *)
LEMMA AsksKept ==
  ASSUME TypeOK, AsksOnlyForAnnounced, UNCHANGED m_clients_pieces,
         NEW c \in Connections, NEW s, NEW i,
         pc' = [pc EXCEPT ![c] = s],
         m_piece_index' = [m_piece_index EXCEPT ![c] = i],
         \/ i = NoPiece
         \/ s \notin {"idle", "reading"}
         \/ i = m_piece_index[c] /\ pc[c] \in {"idle", "reading"}
  PROVE  AsksOnlyForAnnounced'
<1>1. /\ pc'[c] = s /\ m_piece_index'[c] = i
      /\ \A d \in Connections \ {c} : pc'[d] = pc[d] /\ m_piece_index'[d] = m_piece_index[d]
  BY DEF TypeOK
<1> QED
  BY <1>1 DEF AsksOnlyForAnnounced, Downloading

LEMMA AsksSearch ==
  ASSUME TypeOK, AsksOnlyForAnnounced, NEW c \in Connections, Search(c)
  PROVE  AsksOnlyForAnnounced'
<1>1. CASE GiveBackPiece(c)
  <2>1. PICK s : pc' = [pc EXCEPT ![c] = s]
    BY <1>1 DEF GiveBackPiece
  <2> QED
    BY <1>1, <2>1, AsksKept DEF GiveBackPiece
<1>2. CASE TryPiece(c)
  <2> DEFINE p == PieceToGet
  <2>1. PICK bit \in Verdicts(c) :
          \/ bit = "set" /\ pc' = [pc EXCEPT ![c] = "reading"]
          \/ bit = "clear" /\ pc' = [pc EXCEPT ![c] = "returning"]
          \/ bit = "throw" /\ pc' = [pc EXCEPT ![c] = "closed"]
    BY <1>2 DEF TryPiece
  <2>2. m_piece_index' = [m_piece_index EXCEPT ![c] = p] /\ UNCHANGED m_clients_pieces
    BY <1>2 DEF TryPiece
  <2>3. CASE bit # "set"
    <3>1. PICK s : s \notin {"idle", "reading"} /\ pc' = [pc EXCEPT ![c] = s]
      BY <2>1, <2>3
    <3> HIDE DEF p
    <3> QED
      BY <2>2, <3>1, AsksKept
  <2>4. CASE bit = "set"
    <3>1. bit \in BitReads(c, p)
      BY <2>4 DEF Verdicts
    <3>2. p \in Indices /\ m_clients_pieces[c].bits \in Nat
      BY get_pieceType DEF TypeOK, PoolType
    <3>3. p # NoPiece /\ p < m_clients_pieces[c].bits => p \in m_clients_pieces[c].set
      BY <2>4, <3>1, <3>2, PieceListAssumption DEF BitReads, Indices, Pieces
    <3>4. /\ m_piece_index'[c] = p
          /\ \A d \in Connections \ {c} : pc'[d] = pc[d] /\ m_piece_index'[d] = m_piece_index[d]
      BY <2>1, <2>2, <2>4 DEF TypeOK
    <3> HIDE DEF p
    <3> QED
      BY <2>2, <3>3, <3>4 DEF AsksOnlyForAnnounced, Downloading
  <2> QED
    BY <2>3, <2>4
<1> QED
  BY <1>1, <1>2 DEF Search

LEMMA AsksNext ==
  TypeOK /\ QuietWhileChoked /\ AsksOnlyForAnnounced /\ [Next]_vars => AsksOnlyForAnnounced'
<1> SUFFICES ASSUME TypeOK, QuietWhileChoked, AsksOnlyForAnnounced, [Next]_vars
             PROVE  AsksOnlyForAnnounced'
  OBVIOUS
<1>1. CASE UNCHANGED << pc, m_piece_index, m_clients_pieces >>
  BY <1>1 DEF AsksOnlyForAnnounced, Downloading
<1>2. ASSUME NEW c \in Connections, NEW s, pc[c] \in {"idle", "reading"},
             pc' = [pc EXCEPT ![c] = s], UNCHANGED << m_piece_index, m_clients_pieces >>
      PROVE  AsksOnlyForAnnounced'
  <2>1. m_piece_index' = [m_piece_index EXCEPT ![c] = m_piece_index[c]]
    BY <1>2 DEF TypeOK
  <2> QED
    BY <1>2, <2>1, AsksKept
<1>3. ASSUME NEW c \in Connections, on_read(c) \/ on_read_end(c) \/ on_close(c)
      PROVE  AsksOnlyForAnnounced'
  BY <1>2, <1>3 DEF on_read, on_read_end, on_close, Idle, searchVars
<1>4. ASSUME NEW c \in Connections, NEW r \in requested[c], PeerAnswers(c, r)
      PROVE  AsksOnlyForAnnounced'
  <2>1. CASE UNCHANGED << pc, m_piece_index >>
    BY <1>1, <1>4, <2>1, AnswerEffect
  <2>2. CASE /\ pc' = [pc EXCEPT ![c] = "picking"]
             /\ m_piece_index' = [m_piece_index EXCEPT ![c] = NoPiece]
    BY <1>4, <2>2, AnswerEffect, AsksKept
  <2>3. CASE pc' = [pc EXCEPT ![c] = "closed"] /\ UNCHANGED m_piece_index
    <3>1. UNCHANGED m_clients_pieces
      BY <1>4, AnswerEffect
    <3>2. m_piece_index' = [m_piece_index EXCEPT ![c] = m_piece_index[c]]
      BY <2>3 DEF TypeOK
    <3> QED
      BY <2>3, <3>1, <3>2, AsksKept
  <2> QED
    BY <1>4, <2>1, <2>2, <2>3, AnswerEffect
<1>5. ASSUME NEW c \in Connections, PeerChokes(c)
      PROVE  AsksOnlyForAnnounced'
  <2>1. pc' = [pc EXCEPT ![c] = "reading"]
    BY <1>5 DEF PeerChokes, process_choke, Processing, TypeOK
  <2> QED
    BY <1>5, <2>1, AsksKept DEF PeerChokes, process_choke
<1>6. ASSUME NEW c \in Connections, PeerUnchokes(c)
      PROVE  AsksOnlyForAnnounced'
  <2>1. /\ pc[c] = "reading" /\ pc' = [pc EXCEPT ![c] = "picking"]
        /\ UNCHANGED << m_piece_index, m_clients_pieces >>
    BY <1>6 DEF PeerUnchokes, process_unchoke, StartSearch, Processing
  <2>2. m_piece_index' = [m_piece_index EXCEPT ![c] = m_piece_index[c]]
    BY <2>1 DEF TypeOK
  <2> QED
    BY <2>1, <2>2, AsksKept
<1>7. ASSUME NEW c \in Connections, NEW i \in Haves, PeerHas(c, i)
      PROVE  AsksOnlyForAnnounced'
  <2>1. CASE UNCHANGED m_clients_pieces
    BY <1>1, <1>2, <1>7, <2>1 DEF PeerHas, process_have, searchVars, Processing
  <2>2. CASE m_clients_pieces' = [m_clients_pieces EXCEPT ![c].set = @ \union {i}]
    <3>1. \A d \in Connections : /\ m_clients_pieces'[d].bits = m_clients_pieces[d].bits
                                 /\ m_clients_pieces[d].set \subseteq m_clients_pieces'[d].set
      BY <2>2 DEF TypeOK
    <3>2. UNCHANGED m_piece_index /\ \A d \in Connections : pc'[d] = pc[d] \/ pc'[d] = "closed"
      BY <1>7 DEF PeerHas, process_have, searchVars, TypeOK
    <3> QED
      BY <3>1, <3>2 DEF AsksOnlyForAnnounced, Downloading
  <2> QED
    BY <1>7, <2>1, <2>2 DEF PeerHas, process_have
<1>8. ASSUME NEW c \in Connections, NEW pieces \in Bitfields, PeerAnnounces(c, pieces)
      PROVE  AsksOnlyForAnnounced'
  <2>1. m_piece_index[c] = NoPiece
    BY <1>8 DEF QuietWhileChoked, Stopped, PeerAnnounces, process_bitfield, Processing
  <2>2. UNCHANGED << pc, m_piece_index >>
    BY <1>8 DEF PeerAnnounces, process_bitfield, searchVars
  <2>3. \A d \in Connections \ {c} : m_clients_pieces'[d] = m_clients_pieces[d]
    BY <1>8 DEF PeerAnnounces, process_bitfield, TypeOK
  <2> QED
    BY <2>1, <2>2, <2>3 DEF AsksOnlyForAnnounced, Downloading
<1>9. ASSUME NEW c \in Connections, Crash(c)
      PROVE  AsksOnlyForAnnounced'
  BY <1>9, CrashEffect DEF AsksOnlyForAnnounced, Downloading
<1> QED
  BY <1>1, <1>3, <1>4, <1>5, <1>6, <1>7, <1>8, <1>9, AsksSearch
     DEF Next, Message, PeerShakesHands, process_handshake, on_write, searchVars, vars

(* The requests of a connection are for pieces its peer announced, as far  *)
(* as the bit set reaches: the bit field, which replaces the bit set, never *)
(* comes while a piece is in hand.                                         *)
THEOREM AsksRight == Spec => []AsksOnlyForAnnounced
<1> QED
  BY Quiet, AsksNext, AsksInit, PTL DEF Spec
-----------------------------------------------------------------------------
(* No piece is lost, as long as no peer unchokes twice.                    *)

(* A search begins with empty hands: what m_piece_index held would be      *)
(* overwritten.                                                            *)
EmptyHanded == \A c \in Connections : pc[c] = "picking" => m_piece_index[c] = NoPiece

LEMMA EmptyInit == Init => EmptyHanded
  BY DEF Init, EmptyHanded

LEMMA EmptyNext ==
  ASSUME "unchoke again" \notin Faults
  PROVE  TypeOK /\ QuietWhileChoked /\ EmptyHanded /\ [Next]_vars => EmptyHanded'
<1> SUFFICES ASSUME TypeOK, QuietWhileChoked, EmptyHanded, [Next]_vars
             PROVE  EmptyHanded'
  OBVIOUS
<1>0. /\ pc \in [Connections -> {"idle", "reading", "picking", "returning", "closed", "crashed"}]
      /\ m_piece_index \in [Connections -> Indices]
  BY DEF TypeOK
<1>1. CASE UNCHANGED << pc, m_piece_index >>
  BY <1>1 DEF EmptyHanded
<1>2. ASSUME NEW c \in Connections, on_read(c) \/ on_read_end(c) \/ on_close(c)
      PROVE  EmptyHanded'
  BY <1>0, <1>2 DEF EmptyHanded, on_read, on_read_end, on_close, searchVars
<1>3. ASSUME NEW c \in Connections, TryPiece(c)
      PROVE  EmptyHanded'
  <2>1. pc'[c] # "picking"
    BY <1>0, <1>3 DEF TryPiece
  <2>2. \A d \in Connections \ {c} : pc'[d] = pc[d] /\ m_piece_index'[d] = m_piece_index[d]
    BY <1>0, <1>3 DEF TryPiece
  <2> QED
    BY <2>1, <2>2 DEF EmptyHanded
<1>4. ASSUME NEW c \in Connections, GiveBackPiece(c)
      PROVE  EmptyHanded'
  BY <1>0, <1>4 DEF EmptyHanded, GiveBackPiece
<1>5. ASSUME NEW c \in Connections, NEW r \in requested[c], PeerAnswers(c, r)
      PROVE  EmptyHanded'
  BY <1>0, <1>5, AnswerEffect DEF EmptyHanded
<1>6. ASSUME NEW c \in Connections, PeerChokes(c)
      PROVE  EmptyHanded'
  BY <1>0, <1>6 DEF EmptyHanded, PeerChokes, process_choke
<1>7. ASSUME NEW c \in Connections, PeerUnchokes(c)
      PROVE  EmptyHanded'
  <2>1. m_piece_index[c] = NoPiece
    BY <1>7 DEF QuietWhileChoked, Stopped, PeerUnchokes, process_unchoke, Processing
  <2> QED
    BY <1>0, <1>7, <2>1 DEF EmptyHanded, PeerUnchokes, process_unchoke, StartSearch
<1>8. ASSUME NEW c \in Connections, NEW i \in Haves, PeerHas(c, i)
      PROVE  EmptyHanded'
  BY <1>0, <1>8 DEF EmptyHanded, PeerHas, process_have, searchVars
<1>9. ASSUME NEW c \in Connections, Crash(c)
      PROVE  EmptyHanded'
  BY <1>9, CrashEffect DEF EmptyHanded
<1> QED
  BY <1>1, <1>2, <1>3, <1>4, <1>5, <1>6, <1>7, <1>8, <1>9
     DEF Next, Message, Search, PeerShakesHands, process_handshake, PeerAnnounces,
         process_bitfield, on_write, searchVars, vars

LEMMA LostInit == Init => NoPieceLost
  BY PieceListAssumption
     DEF Init, PieceListInit, NoPieceLost, FreePieces, Pieces

(* The piece of a connection goes back to the pool.                        *)
LEMMA ReturnedFree ==
  ASSUME TypeOK, NoPieceLost, NEW c \in Connections,
         return_piece(m_piece_index[c]),
         m_piece_index' = [m_piece_index EXCEPT ![c] = NoPiece],
         UNCHANGED written
  PROVE  NoPieceLost'
<1>1. m_piece_index[c] \in Indices /\ m_returned_pieces \in Seq(Indices)
  BY DEF TypeOK
<1>2. Range(m_returned_pieces') = Range(m_returned_pieces) \union {m_piece_index[c]}
  BY <1>1, ReturnedRange
<1>3. FreePieces \union ({m_piece_index[c]} \ {NoPiece}) \subseteq FreePieces'
  BY <1>2 DEF FreePieces, return_piece
<1>4. \A d \in Connections \ {c} : m_piece_index'[d] = m_piece_index[d]
  BY DEF TypeOK
<1>5. Range(m_piece_index) \subseteq Range(m_piece_index') \union {m_piece_index[c]}
  BY <1>4 DEF Range, TypeOK
<1>6. NoPiece \notin Pieces
  BY PieceListAssumption DEF Pieces, NoPiece
<1> QED
  BY <1>3, <1>5, <1>6 DEF NoPieceLost

LEMMA LostNext ==
  TypeOK /\ PieceExclusive /\ EmptyHanded /\ NoPieceLost /\ [Next]_vars => NoPieceLost'
<1> SUFFICES ASSUME TypeOK, PieceExclusive, EmptyHanded, NoPieceLost, [Next]_vars
             PROVE  NoPieceLost'
  OBVIOUS
<1>0. m_piece_index \in [Connections -> Indices] /\ NoPiece \notin Pieces
  BY PieceListAssumption DEF TypeOK, Pieces, NoPiece
<1>1. CASE UNCHANGED << pool, m_piece_index, written >>
  BY <1>1 DEF NoPieceLost, FreePieces, pool
<1>2. ASSUME NEW c \in Connections, TryPiece(c)
      PROVE  NoPieceLost'
  <2>1. FreePieces \subseteq FreePieces' \union {PieceToGet}
    BY <1>2, FreeTaken
  <2>2. /\ m_piece_index' = [m_piece_index EXCEPT ![c] = PieceToGet] /\ UNCHANGED written
        /\ m_piece_index[c] = NoPiece
    BY <1>2 DEF TryPiece, EmptyHanded
  <2>3. /\ Range(m_piece_index) \ {NoPiece} \subseteq Range(m_piece_index')
        /\ PieceToGet \in Range(m_piece_index')
    <3>1. /\ m_piece_index'[c] = PieceToGet
          /\ \A d \in Connections \ {c} : m_piece_index'[d] = m_piece_index[d]
          /\ DOMAIN m_piece_index' = Connections /\ DOMAIN m_piece_index = Connections
      BY <1>0, <2>2
    <3> QED
      BY <2>2, <3>1 DEF Range
  <2> QED
    BY <1>0, <2>1, <2>2, <2>3 DEF NoPieceLost
<1>3. ASSUME NEW c \in Connections, GiveBackPiece(c)
      PROVE  NoPieceLost'
  BY <1>3, ReturnedFree DEF GiveBackPiece
<1>4. ASSUME NEW c \in Connections, PeerChokes(c)
      PROVE  NoPieceLost'
  BY <1>4, ReturnedFree DEF PeerChokes, process_choke
<1>5. ASSUME NEW c \in Connections, NEW r \in requested[c], PeerAnswers(c, r)
      PROVE  NoPieceLost'
  <2>1. CASE UNCHANGED << m_piece_index, written >>
    BY <1>1, <1>5, <2>1, AnswerEffect
  <2>2. CASE /\ m_piece_index' = [m_piece_index EXCEPT ![c] = NoPiece]
             /\ written' = written \union {m_piece_index[c]}
    <3>1. FreePieces' = FreePieces
      BY <1>5, AnswerEffect DEF FreePieces, pool
    <3>2. Range(m_piece_index) \subseteq Range(m_piece_index') \union {m_piece_index[c]}
      <4>1. \A d \in Connections \ {c} : m_piece_index'[d] = m_piece_index[d]
        BY <1>0, <2>2
      <4> QED
        BY <1>0, <2>2, <4>1 DEF Range
    <3> QED
      BY <2>2, <3>1, <3>2 DEF NoPieceLost
  <2> QED
    BY <1>5, <2>1, <2>2, AnswerEffect
<1> QED
  BY <1>1, <1>2, <1>3, <1>4, <1>5
     DEF Next, Message, Search, PeerShakesHands, process_handshake, PeerAnnounces,
         process_bitfield, PeerHas, process_have, PeerUnchokes, process_unchoke,
         on_read, on_read_end, on_close, on_write, Crash, searchVars, vars

(* Through chokes, failed searches, exceptions and closed connections      *)
(* every piece stays free, in a hand or written, if no peer unchokes while *)
(* it is not choking: a second unchoke is the only way to drop one.        *)
THEOREM NeverLost ==
  ASSUME "unchoke again" \notin Faults
  PROVE  Spec => []NoPieceLost
<1>1. TypeOK /\ QuietWhileChoked /\ EmptyHanded /\ [Next]_vars => EmptyHanded'
  BY EmptyNext
<1> QED
  BY <1>1, Quiet, Exclusive, EmptyInit, LostInit, LostNext, PTL DEF Spec
-----------------------------------------------------------------------------
(* The requests and the buffer.                                            *)

(* r asks for a block of a piece of the given size: the pieces are cut in  *)
(* the same blocks each time they are asked for.                           *)
BlockOf(r, size) ==
  \E k \in Nat : LET offset == k * BLOCK_SIZE
                 IN  /\ offset < size
                     /\ r.offset = offset
                     /\ r.length = IF offset + BLOCK_SIZE > size THEN size - offset
                                   ELSE BLOCK_SIZE

LEMMA BlockInside ==
  ASSUME NEW size \in Nat, NEW r, BlockOf(r, size)
  PROVE  Bytes(r) \subseteq 0 .. (size - 1)
<1>1. PICK k \in Nat : /\ k * BLOCK_SIZE < size /\ r.offset = k * BLOCK_SIZE
                       /\ r.length = IF k * BLOCK_SIZE + BLOCK_SIZE > size
                                     THEN size - k * BLOCK_SIZE ELSE BLOCK_SIZE
  BY DEF BlockOf
<1> DEFINE offset == k * BLOCK_SIZE
<1>2. offset \in Nat /\ BLOCK_SIZE \in Nat \ {0}
  BY ProductType, PeerProtocolAssumption
<1> HIDE DEF offset
<1>3. r.offset = offset /\ r.offset + r.length <= size
  BY <1>1, <1>2 DEF offset
<1>4. r.length \in Int
  BY <1>1, <1>2 DEF offset
<1> QED
  BY <1>2, <1>3, <1>4 DEF Bytes

(* Two blocks are the same bytes or have none in common.                   *)
LEMMA BlocksApart ==
  ASSUME NEW size \in Nat, NEW r, NEW s, BlockOf(r, size), BlockOf(s, size)
  PROVE  Bytes(r) = Bytes(s) \/ Bytes(r) \intersect Bytes(s) = {}
<1>0. BLOCK_SIZE \in Nat \ {0}
  BY PeerProtocolAssumption
<1>1. PICK j \in Nat : /\ j * BLOCK_SIZE < size /\ r.offset = j * BLOCK_SIZE
                       /\ r.length = IF j * BLOCK_SIZE + BLOCK_SIZE > size
                                     THEN size - j * BLOCK_SIZE ELSE BLOCK_SIZE
  BY DEF BlockOf
<1>2. PICK k \in Nat : /\ k * BLOCK_SIZE < size /\ s.offset = k * BLOCK_SIZE
                       /\ s.length = IF k * BLOCK_SIZE + BLOCK_SIZE > size
                                     THEN size - k * BLOCK_SIZE ELSE BLOCK_SIZE
  BY DEF BlockOf
<1> DEFINE x == j * BLOCK_SIZE
           y == k * BLOCK_SIZE
<1>3. x \in Nat /\ y \in Nat
  BY <1>0, ProductType
<1>4. j < k => x + BLOCK_SIZE <= y
  <2>1. j < k => (j + 1) * BLOCK_SIZE <= k * BLOCK_SIZE
    BY <1>0
  <2> QED
    BY <1>0, <2>1
<1>5. k < j => y + BLOCK_SIZE <= x
  <2>1. k < j => (k + 1) * BLOCK_SIZE <= j * BLOCK_SIZE
    BY <1>0
  <2> QED
    BY <1>0, <2>1
<1>6. /\ x < size /\ r.offset = x
      /\ r.length = IF x + BLOCK_SIZE > size THEN size - x ELSE BLOCK_SIZE
      /\ y < size /\ s.offset = y
      /\ s.length = IF y + BLOCK_SIZE > size THEN size - y ELSE BLOCK_SIZE
      /\ j = k => x = y
  BY <1>1, <1>2
<1> HIDE DEF x, y
<1> QED
  BY <1>0, <1>3, <1>4, <1>5, <1>6 DEF Bytes

LEMMA RequestsAreBlocks ==
  ASSUME NEW i \in Indices, NEW size \in Nat, NEW r \in Range(create_request(i, size))
  PROVE  r.type = "REQUEST" /\ r.index = i /\ BlockOf(r, size)
<1> DEFINE n == (size + BLOCK_SIZE - 1) \div BLOCK_SIZE
<1>1. PICK k \in 1 .. n : r = create_request(i, size)[k]
  BY DEF Range, create_request
<1>2. (k - 1) * BLOCK_SIZE \in 0 .. (size - 1)
  BY RequestStartsInside
<1>3. r = Request(i, (k - 1) * BLOCK_SIZE,
            IF (k - 1) * BLOCK_SIZE + BLOCK_SIZE > size THEN size - (k - 1) * BLOCK_SIZE
            ELSE BLOCK_SIZE)
  BY <1>1 DEF create_request
<1>4. k - 1 \in Nat
  BY PeerProtocolAssumption
<1> HIDE DEF n
<1> QED
  BY <1>2, <1>3, <1>4 DEF Request, BlockOf

LEMMA Monotone == ASSUME NEW a \in Int, NEW b \in Int, NEW m \in Nat \ {0}, a * m < b * m
                  PROVE  a < b
<1>1. a >= b => a * m >= b * m
  OBVIOUS
<1> QED
  BY <1>1

(* The requests of a piece are for every byte of it.                       *)
LEMMA EveryByteAsked ==
  ASSUME NEW i \in Indices, NEW size \in Nat, NEW b \in 0 .. (size - 1)
  PROVE  \E r \in Range(create_request(i, size)) :
           r.type = "REQUEST" /\ r.index = i /\ b \in Bytes(r)
<1> DEFINE n == (size + BLOCK_SIZE - 1) \div BLOCK_SIZE
           q == b \div BLOCK_SIZE
<1>0. BLOCK_SIZE \in Nat \ {0}
  BY PeerProtocolAssumption
<1>1. n \in Nat /\ size + BLOCK_SIZE - 1 < n * BLOCK_SIZE + BLOCK_SIZE
  BY <1>0
<1>2. q \in Nat /\ q * BLOCK_SIZE <= b /\ b < q * BLOCK_SIZE + BLOCK_SIZE
  BY <1>0
<1> DEFINE r == create_request(i, size)[q + 1]
<1>3. create_request(i, size) = [k \in 1 .. n |->
        Request(i, (k - 1) * BLOCK_SIZE,
          IF (k - 1) * BLOCK_SIZE + BLOCK_SIZE > size THEN size - (k - 1) * BLOCK_SIZE
          ELSE BLOCK_SIZE)]
  BY DEF create_request
<1> HIDE DEF n, q
<1>4. (q + 1) * BLOCK_SIZE < (n + 1) * BLOCK_SIZE
  <2>1. (q + 1) * BLOCK_SIZE = q * BLOCK_SIZE + BLOCK_SIZE
        /\ (n + 1) * BLOCK_SIZE = n * BLOCK_SIZE + BLOCK_SIZE
        /\ q * BLOCK_SIZE \in Nat /\ n * BLOCK_SIZE \in Nat
    BY <1>0, <1>1, <1>2, ProductType
  <2> QED
    BY <1>0, <1>1, <1>2, <2>1
<1>5. q + 1 \in 1 .. n
  BY <1>0, <1>1, <1>2, <1>4, Monotone
<1>6. r = Request(i, q * BLOCK_SIZE,
            IF q * BLOCK_SIZE + BLOCK_SIZE > size THEN size - q * BLOCK_SIZE ELSE BLOCK_SIZE)
  BY <1>2, <1>3, <1>5
<1>7. r \in Range(create_request(i, size))
  BY <1>3, <1>5 DEF Range
<1>8. q * BLOCK_SIZE \in Nat
  BY <1>0, <1>2, ProductType
<1> HIDE DEF r
<1>9. r.type = "REQUEST" /\ r.index = i /\ b \in Bytes(r)
  BY <1>0, <1>2, <1>6, <1>8 DEF Request, Bytes
<1> QED
  BY <1>7, <1>9
-----------------------------------------------------------------------------
(* Every request is for a block of the piece it names.                     *)

Asked(c) ==
  {m \in requested[c] \union Range(m_messages[c]) : m.type = "REQUEST" /\ m.index # NoPiece}

RequestsRight == \A c \in Connections : \A r \in Asked(c) : BlockOf(r, SizeOf(r.index))

LEMMA RequestsInit == Init => RequestsRight
  BY DEF Init, PeerProtocolInit, RequestsRight, Asked, Range, Handshake

(* Nothing is asked that was not asked before.                             *)
LEMMA NothingAsked ==
  ASSUME RequestsRight, \A d \in Connections : Asked(d)' \subseteq Asked(d)
  PROVE  RequestsRight'
  BY DEF RequestsRight, BlockOf, SizeOf

LEMMA RangeJoined ==
  ASSUME NEW S, NEW s \in Seq(S), NEW t \in Seq(S)
  PROVE  Range(s \o t) = Range(s) \union Range(t)
<1>1. /\ DOMAIN (s \o t) = 1 .. (Len(s) + Len(t))
      /\ DOMAIN s = 1 .. Len(s) /\ DOMAIN t = 1 .. Len(t)
      /\ Len(s) \in Nat /\ Len(t) \in Nat
      /\ \A k \in 1 .. Len(s) : (s \o t)[k] = s[k]
      /\ \A k \in 1 .. Len(t) : (s \o t)[Len(s) + k] = t[k]
  OBVIOUS
<1>2. \A k \in DOMAIN (s \o t) :
        \/ k \in DOMAIN s
        \/ k - Len(s) \in DOMAIN t /\ Len(s) + (k - Len(s)) = k
  BY <1>1
<1>3. \A k \in DOMAIN s : k \in DOMAIN (s \o t)
  BY <1>1
<1>4. \A k \in DOMAIN t : Len(s) + k \in DOMAIN (s \o t)
  BY <1>1
<1>5. Range(s \o t) \subseteq Range(s) \union Range(t)
  <2> SUFFICES ASSUME NEW k \in DOMAIN (s \o t)
               PROVE  (s \o t)[k] \in Range(s) \union Range(t)
    BY DEF Range
  <2>1. CASE k \in DOMAIN s
    BY <1>1, <2>1 DEF Range
  <2>2. CASE k - Len(s) \in DOMAIN t /\ Len(s) + (k - Len(s)) = k
    <3>1. (s \o t)[k] = t[k - Len(s)]
      BY <1>1, <2>2
    <3> QED
      BY <2>2, <3>1 DEF Range
  <2> QED
    BY <1>2, <2>1, <2>2
<1>6. Range(s) \subseteq Range(s \o t)
  BY <1>1, <1>3 DEF Range
<1>7. Range(t) \subseteq Range(s \o t)
  BY <1>1, <1>4 DEF Range
<1> QED
  BY <1>5, <1>6, <1>7

LEMMA RangeAppended ==
  ASSUME NEW S, NEW s \in Seq(S), NEW e \in S
  PROVE  Range(Append(s, e)) = Range(s) \union {e}
<1>1. /\ DOMAIN Append(s, e) = DOMAIN s \union {Len(s) + 1}
      /\ Append(s, e)[Len(s) + 1] = e
      /\ \A k \in DOMAIN s : Append(s, e)[k] = s[k]
  OBVIOUS
<1> QED
  BY <1>1 DEF Range

(* What is in the queue of a connection.                                   *)
Queueable == AllRequests \union {Handshake, Interested}

LEMMA QueuedType ==
  ASSUME TypeOK, NEW c \in Connections
  PROVE  m_messages[c] \in Seq(Queueable) /\ Interested \in Queueable
BY DEF TypeOK, Queueable

(* What TryPiece does to connection c, in one fact for each outcome.       *)
LEMMA TryPieceEffect ==
  ASSUME TypeOK, NEW c \in Connections, TryPiece(c)
  PROVE  /\ PieceToGet \in Indices /\ SizeToGet \in 0 .. PIECE_SIZE
         /\ m_piece_index' = [m_piece_index EXCEPT ![c] = PieceToGet]
         /\ \/ /\ m_piece' = [m_piece EXCEPT ![c] = InitialPiece(PieceToGet, SizeToGet)]
               /\ pc' = [pc EXCEPT ![c] = "reading"]
               /\ SizeToGet = SizeOf(PieceToGet)
               /\ \A d \in Connections \ {c} : m_messages'[d] = m_messages[d]
               /\ Range(m_messages'[c]) = Range(m_messages[c])
                                         \union Range(create_request(PieceToGet, SizeToGet))
            \/ /\ UNCHANGED << m_piece, m_messages >>
               /\ pc' \in {[pc EXCEPT ![c] = "returning"], [pc EXCEPT ![c] = "closed"]}
<1>1. PieceToGet \in Indices /\ SizeToGet \in 0 .. PIECE_SIZE
  BY get_pieceType DEF TypeOK, PoolType
<1>2. m_piece_index' = [m_piece_index EXCEPT ![c] = PieceToGet]
  BY DEF TryPiece
<1>3. PICK bit \in Verdicts(c) :
        \/ /\ bit = "set"
           /\ m_piece' = [m_piece EXCEPT ![c] = InitialPiece(PieceToGet, SizeToGet)]
           /\ m_messages' = [m_messages EXCEPT ![c] = @ \o create_request(PieceToGet, SizeToGet)]
           /\ pc' = [pc EXCEPT ![c] = "reading"]
        \/ /\ bit # "set"
           /\ UNCHANGED << m_piece, m_messages >>
           /\ pc' \in {[pc EXCEPT ![c] = "returning"], [pc EXCEPT ![c] = "closed"]}
  BY DEF TryPiece
<1>4. CASE bit = "set"
  <2>1. SizeToGet # 0
    BY <1>4 DEF Verdicts
  <2>2. SizeToGet = SizeOf(PieceToGet)
    BY <2>1 DEF SizeToGet
  <2>3. /\ m_messages'[c] = m_messages[c] \o create_request(PieceToGet, SizeToGet)
        /\ \A d \in Connections \ {c} : m_messages'[d] = m_messages[d]
    BY <1>3, <1>4 DEF TypeOK
  <2> DEFINE S == AllRequests \union {Handshake, Interested}
  <2>4. m_messages[c] \in Seq(S) /\ create_request(PieceToGet, SizeToGet) \in Seq(S)
    <3>1. SizeToGet \in Nat
      BY <1>1
    <3>2. create_request(PieceToGet, SizeToGet) \in Seq(AllRequests)
      BY <1>1, <3>1, create_requestType
    <3> QED
      BY <3>2 DEF TypeOK
  <2>5. Range(m_messages'[c]) = Range(m_messages[c])
                                \union Range(create_request(PieceToGet, SizeToGet))
    <3> HIDE DEF S
    <3> QED
      BY <2>3, <2>4, RangeJoined
  <2> QED
    BY <1>1, <1>2, <1>3, <1>4, <2>2, <2>3, <2>5
<1> QED
  BY <1>1, <1>2, <1>3, <1>4

LEMMA RequestsNext == TypeOK /\ RequestsRight /\ [Next]_vars => RequestsRight'
<1> SUFFICES ASSUME TypeOK, RequestsRight, [Next]_vars PROVE RequestsRight'
  OBVIOUS
<1>1. CASE UNCHANGED << requested, m_messages >>
  BY <1>1, NothingAsked DEF Asked
<1>2. ASSUME NEW c \in Connections, TryPiece(c), UNCHANGED requested
      PROVE  RequestsRight'
  <2>1. CASE UNCHANGED m_messages
    BY <1>1, <1>2, <2>1
  <2>2. CASE /\ SizeToGet = SizeOf(PieceToGet)
             /\ \A d \in Connections \ {c} : m_messages'[d] = m_messages[d]
             /\ Range(m_messages'[c]) = Range(m_messages[c])
                                       \union Range(create_request(PieceToGet, SizeToGet))
    <3>1. PieceToGet \in Indices /\ SizeToGet \in Nat
      BY <1>2, TryPieceEffect
    <3>2. \A r \in Range(create_request(PieceToGet, SizeToGet)) : BlockOf(r, SizeOf(r.index))
      BY <2>2, <3>1, RequestsAreBlocks
    <3>3. Asked(c)' \subseteq Asked(c) \union Range(create_request(PieceToGet, SizeToGet))
      BY <1>2, <2>2 DEF Asked
    <3>4. \A d \in Connections \ {c} : Asked(d)' = Asked(d)
      BY <1>2, <2>2 DEF Asked
    <3>5. \A r : BlockOf(r, SizeOf(r.index))' <=> BlockOf(r, SizeOf(r.index))
      BY DEF BlockOf, SizeOf
    <3> QED
      BY <3>2, <3>3, <3>4, <3>5 DEF RequestsRight
  <2> QED
    BY <1>2, <2>1, <2>2, TryPieceEffect
<1>3. ASSUME NEW c \in Connections, on_write(c)
      PROVE  RequestsRight'
  <2>1. PICK lost \in SUBSET Range(m_messages[c]) :
          requested' = [requested EXCEPT ![c] = @ \union
            {m \in Range(m_messages[c]) \ lost : m.type = "REQUEST" /\ m.index # NoPiece}]
    BY <1>3 DEF on_write
  <2>2. m_messages' = [m_messages EXCEPT ![c] = << >>]
    BY <1>3 DEF on_write
  <2>3. /\ requested'[c] \subseteq requested[c] \union Range(m_messages[c])
        /\ m_messages'[c] = << >>
        /\ \A d \in Connections \ {c} :
             requested'[d] = requested[d] /\ m_messages'[d] = m_messages[d]
    BY <2>1, <2>2 DEF TypeOK
  <2>4. Range(m_messages'[c]) = {}
    BY <2>3 DEF Range
  <2>5. \A d \in Connections : Asked(d)' \subseteq Asked(d)
    BY <2>3, <2>4 DEF Asked
  <2> QED
    BY <2>5, NothingAsked
<1>4. ASSUME NEW c \in Connections, NEW pieces \in Bitfields, PeerAnnounces(c, pieces)
      PROVE  RequestsRight'
  <2>1. m_messages' = [m_messages EXCEPT ![c] = Append(@, Interested)] /\ UNCHANGED requested
    BY <1>4 DEF PeerAnnounces, process_bitfield
  <2>2. Range(m_messages'[c]) = Range(m_messages[c]) \union {Interested}
    <3>1. m_messages'[c] = Append(m_messages[c], Interested)
      BY <2>1 DEF TypeOK
    <3> QED
      BY <3>1, QueuedType, RangeAppended
  <2>3. \A d \in Connections \ {c} : m_messages'[d] = m_messages[d]
    BY <2>1 DEF TypeOK
  <2>4. \A d \in Connections : Asked(d)' \subseteq Asked(d)
    <3>1. Interested.type # "REQUEST"
      BY DEF Interested
    <3> QED
      BY <2>1, <2>2, <2>3, <3>1 DEF Asked
  <2> QED
    BY <2>4, NothingAsked
<1>5. ASSUME NEW c \in Connections, PeerChokes(c)
      PROVE  RequestsRight'
  <2>1. UNCHANGED m_messages /\ \A d \in Connections : requested'[d] \subseteq requested[d]
    BY <1>5 DEF PeerChokes, process_choke, TypeOK
  <2> QED
    BY <2>1, NothingAsked DEF Asked
<1>6. ASSUME NEW c \in Connections, NEW r \in requested[c], PeerAnswers(c, r)
      PROVE  RequestsRight'
  <2>1. UNCHANGED m_messages /\ requested' \in {requested, [requested EXCEPT ![c] = @ \ {r}]}
    BY <1>6 DEF PeerAnswers, process_piece
  <2>2. \A d \in Connections : requested'[d] \subseteq requested[d]
    BY <2>1 DEF TypeOK
  <2> QED
    BY <2>1, <2>2, NothingAsked DEF Asked
<1> QED
  BY <1>1, <1>2, <1>3, <1>4, <1>5, <1>6
     DEF Next, Message, Search, GiveBackPiece, PeerShakesHands, process_handshake,
         PeerHas, process_have, PeerUnchokes, process_unchoke,
         on_read, on_read_end, on_close, Crash, vars
-----------------------------------------------------------------------------
(* What is received of the piece in hand is whole blocks.                  *)

BlocksReceived ==
  \A c \in Connections : Downloading(c) =>
    \A r : BlockOf(r, m_piece[c].size) =>
      \/ Bytes(r) \subseteq m_piece[c].received
      \/ Bytes(r) \intersect m_piece[c].received = {}

LEMMA ReceivedInit == Init => BlocksReceived
  BY DEF Init, PeerProtocolInit, BlocksReceived, Downloading

(* What an answer does to the buffer, in one fact for each outcome.        *)
LEMMA AnswerBuffer ==
  ASSUME TypeOK, NEW c \in Connections, NEW r \in requested[c], PeerAnswers(c, r)
  PROVE  /\ pc[c] = "reading" /\ UNCHANGED m_messages
         /\ requested' \in {requested, [requested EXCEPT ![c] = @ \ {r}]}
         /\ \/ r.index # m_piece_index[c] /\ UNCHANGED << pc, m_piece_index, m_piece >>
            \/ /\ r.index = m_piece_index[c]
               /\ UNCHANGED << pc, m_piece_index >>
               /\ m_piece' = [m_piece EXCEPT ![c] =
                    [m_piece[c] EXCEPT !.received = m_piece[c].received \union Bytes(r)]]
            \/ /\ m_piece' = [m_piece EXCEPT ![c] = EmptyPiece]
               /\ m_piece_index' = [m_piece_index EXCEPT ![c] = NoPiece]
               /\ pc' = [pc EXCEPT ![c] = "picking"]
            \/ /\ m_piece' = [m_piece EXCEPT ![c] = EmptyPiece]
               /\ m_piece_index' = [m_piece_index EXCEPT ![c] = m_piece_index[c]]
               /\ pc' = [pc EXCEPT ![c] = "closed"]
<1>1. PICK writes \in BOOLEAN : process_piece(c, r, writes)
  BY DEF PeerAnswers
<1>2. UNCHANGED m_piece_index => m_piece_index' = [m_piece_index EXCEPT ![c] = m_piece_index[c]]
  BY DEF TypeOK
<1> QED
  BY <1>1, <1>2 DEF PeerAnswers, process_piece, Processing, searchVars, StartSearch

(* The block that comes lies in one piece with every block of the buffer.  *)
LEMMA BlockReceived ==
  ASSUME TypeOK, BufferMatchesIndex, RequestsRight, BlocksReceived,
         NEW c \in Connections, pc[c] = "reading", NEW r \in requested[c],
         r.index = m_piece_index[c],
         NEW s, BlockOf(s, m_piece[c].size)
  PROVE  \/ Bytes(s) \subseteq m_piece[c].received \union Bytes(r)
         \/ Bytes(s) \intersect (m_piece[c].received \union Bytes(r)) = {}
<1>1. r.type = "REQUEST" /\ r.index # NoPiece
  BY DEF TypeOK, Answerable, AllRequests
<1>2. Downloading(c)
  BY <1>1 DEF Downloading
<1>3. m_piece[c].size = SizeOf(r.index) /\ m_piece[c].size \in Nat
  BY <1>2 DEF BufferMatchesIndex, TypeOK
<1>4. r \in Asked(c)
  BY <1>1 DEF Asked
<1>5. BlockOf(r, m_piece[c].size)
  BY <1>3, <1>4 DEF RequestsRight
<1>6. Bytes(s) = Bytes(r) \/ Bytes(s) \intersect Bytes(r) = {}
  BY <1>3, <1>5, BlocksApart
<1>7. \/ Bytes(s) \subseteq m_piece[c].received
      \/ Bytes(s) \intersect m_piece[c].received = {}
  BY <1>2 DEF BlocksReceived
<1> QED
  BY <1>6, <1>7

(* A step that leaves the buffers alone, but that of a connection c that   *)
(* ends with no piece or not downloading.                                  *)
LEMMA ReceivedKept ==
  ASSUME TypeOK, BlocksReceived, NEW c \in Connections, NEW s, NEW i,
         pc' = [pc EXCEPT ![c] = s],
         m_piece_index' = [m_piece_index EXCEPT ![c] = i],
         \/ i = NoPiece
         \/ s \notin {"idle", "reading"}
         \/ i = m_piece_index[c] /\ pc[c] \in {"idle", "reading"} /\ m_piece'[c] = m_piece[c],
         \A d \in Connections \ {c} : m_piece'[d] = m_piece[d]
  PROVE  BlocksReceived'
<1>1. /\ pc'[c] = s /\ m_piece_index'[c] = i
      /\ \A d \in Connections \ {c} : pc'[d] = pc[d] /\ m_piece_index'[d] = m_piece_index[d]
  BY DEF TypeOK
<1>2. \A d \in Connections : Downloading(d)' => Downloading(d) /\ m_piece'[d] = m_piece[d]
  BY <1>1 DEF Downloading
<1> QED
  BY <1>2 DEF BlocksReceived, BlockOf

LEMMA ReceivedNext ==
  TypeOK /\ BufferMatchesIndex /\ RequestsRight /\ BlocksReceived /\ [Next]_vars => BlocksReceived'
<1> SUFFICES ASSUME TypeOK, BufferMatchesIndex, RequestsRight, BlocksReceived, [Next]_vars
             PROVE  BlocksReceived'
  OBVIOUS
<1>1. CASE UNCHANGED << pc, m_piece_index, m_piece >>
  BY <1>1 DEF BlocksReceived, BlockOf, Downloading
<1>2. ASSUME NEW c \in Connections, UNCHANGED << m_piece_index, m_piece >>,
             NEW s, pc' = [pc EXCEPT ![c] = s], pc[c] \in {"idle", "reading"}
      PROVE  BlocksReceived'
  <2>1. m_piece_index' = [m_piece_index EXCEPT ![c] = m_piece_index[c]]
    BY <1>2 DEF TypeOK
  <2> QED
    BY <1>2, <2>1, ReceivedKept
<1>3. ASSUME NEW c \in Connections, on_read(c) \/ on_read_end(c) \/ on_close(c)
      PROVE  BlocksReceived'
  BY <1>2, <1>3 DEF on_read, on_read_end, on_close, Idle, searchVars
<1>4. ASSUME NEW c \in Connections, NEW i \in Haves, PeerHas(c, i)
      PROVE  BlocksReceived'
  BY <1>1, <1>2, <1>4 DEF PeerHas, process_have, searchVars, Processing
<1>5. ASSUME NEW c \in Connections, PeerChokes(c)
      PROVE  BlocksReceived'
  <2>1. pc' = [pc EXCEPT ![c] = "reading"]
    BY <1>5 DEF PeerChokes, process_choke, Processing, TypeOK
  <2>2. /\ m_piece_index' = [m_piece_index EXCEPT ![c] = NoPiece]
        /\ \A d \in Connections \ {c} : m_piece'[d] = m_piece[d]
    BY <1>5 DEF PeerChokes, process_choke, TypeOK
  <2> QED
    BY <2>1, <2>2, ReceivedKept
<1>6. ASSUME NEW c \in Connections, PeerUnchokes(c)
      PROVE  BlocksReceived'
  BY <1>2, <1>6 DEF PeerUnchokes, process_unchoke, StartSearch, Processing
<1>7. ASSUME NEW c \in Connections, GiveBackPiece(c)
      PROVE  BlocksReceived'
  <2>1. PICK s : pc' = [pc EXCEPT ![c] = s]
    BY <1>7 DEF GiveBackPiece
  <2> QED
    BY <1>7, <2>1, ReceivedKept DEF GiveBackPiece
<1>8. ASSUME NEW c \in Connections, TryPiece(c)
      PROVE  BlocksReceived'
  <2>1. CASE UNCHANGED m_piece /\ pc' \in {[pc EXCEPT ![c] = "returning"], [pc EXCEPT ![c] = "closed"]}
    BY <1>8, <2>1, TryPieceEffect, ReceivedKept
  <2>2. CASE m_piece' = [m_piece EXCEPT ![c] = InitialPiece(PieceToGet, SizeToGet)]
    <3>1. m_piece'[c].received = {}
      BY <2>2 DEF InitialPiece, TypeOK
    <3>2. \A d \in Connections \ {c} :
            m_piece'[d] = m_piece[d] /\ pc'[d] = pc[d] /\ m_piece_index'[d] = m_piece_index[d]
      BY <1>8, <2>2 DEF TryPiece, TypeOK
    <3> QED
      BY <3>1, <3>2 DEF BlocksReceived, BlockOf, Downloading
  <2> QED
    BY <1>8, <2>1, <2>2, TryPieceEffect
<1>9. ASSUME NEW c \in Connections, NEW r \in requested[c], PeerAnswers(c, r)
      PROVE  BlocksReceived'
  <2>1. CASE /\ r.index = m_piece_index[c] /\ UNCHANGED << pc, m_piece_index >>
             /\ m_piece' = [m_piece EXCEPT ![c] =
                  [m_piece[c] EXCEPT !.received = m_piece[c].received \union Bytes(r)]]
    <3>1. /\ m_piece'[c].size = m_piece[c].size
          /\ m_piece'[c].received = m_piece[c].received \union Bytes(r)
      BY <2>1 DEF TypeOK
    <3>2. \A d \in Connections \ {c} : m_piece'[d] = m_piece[d]
      BY <2>1 DEF TypeOK
    <3>3. \A s : BlockOf(s, m_piece[c].size) =>
            \/ Bytes(s) \subseteq m_piece[c].received \union Bytes(r)
            \/ Bytes(s) \intersect (m_piece[c].received \union Bytes(r)) = {}
      BY <1>9, <2>1, AnswerBuffer, BlockReceived
    <3> QED
      BY <2>1, <3>1, <3>2, <3>3 DEF BlocksReceived, BlockOf, Downloading
  <2>2. CASE m_piece' = [m_piece EXCEPT ![c] = EmptyPiece]
    <3>1. \A d \in Connections \ {c} : m_piece'[d] = m_piece[d]
      BY <2>2 DEF TypeOK
    <3>2. CASE /\ m_piece_index' = [m_piece_index EXCEPT ![c] = NoPiece]
               /\ pc' = [pc EXCEPT ![c] = "picking"]
      BY <3>1, <3>2, ReceivedKept
    <3>3. CASE /\ m_piece_index' = [m_piece_index EXCEPT ![c] = m_piece_index[c]]
               /\ pc' = [pc EXCEPT ![c] = "closed"]
      BY <3>1, <3>3, ReceivedKept
    <3>4. CASE UNCHANGED << pc, m_piece_index >> /\ r.index = m_piece_index[c]
               /\ m_piece' = [m_piece EXCEPT ![c] =
                  [m_piece[c] EXCEPT !.received = m_piece[c].received \union Bytes(r)]]
      BY <2>1, <3>4
    <3> QED
      BY <1>1, <1>9, <3>2, <3>3, <3>4, AnswerBuffer
  <2> QED
    BY <1>1, <1>9, <2>1, <2>2, AnswerBuffer
<1>10. ASSUME NEW c \in Connections, Crash(c)
       PROVE  BlocksReceived'
  BY <1>10, CrashEffect DEF BlocksReceived, Downloading
<1> QED
  BY <1>1, <1>3, <1>4, <1>5, <1>6, <1>7, <1>8, <1>9, <1>10
     DEF Next, Message, Search, PeerShakesHands, process_handshake, PeerAnnounces,
         process_bitfield, on_write, searchVars, vars

LEMMA RequestsFit ==
  TypeOK /\ BufferMatchesIndex /\ RequestsRight /\ BlocksReceived => AnswersFit
<1> SUFFICES ASSUME TypeOK, BufferMatchesIndex, RequestsRight, BlocksReceived,
                    NEW c \in Connections, Downloading(c),
                    NEW r \in requested[c], r.index = m_piece_index[c]
             PROVE  /\ Bytes(r) \subseteq 0 .. (m_piece[c].size - 1)
                    /\ \/ Bytes(r) \subseteq m_piece[c].received
                       \/ Bytes(r) \intersect m_piece[c].received = {}
  BY DEF AnswersFit
<1>1. r \in Asked(c)
  BY DEF TypeOK, Answerable, AllRequests, Asked
<1>2. m_piece[c].size = SizeOf(r.index) /\ m_piece[c].size \in Nat
  BY DEF BufferMatchesIndex, TypeOK
<1>3. BlockOf(r, m_piece[c].size)
  BY <1>1, <1>2 DEF RequestsRight
<1> QED
  BY <1>2, <1>3, BlockInside DEF BlocksReceived

(* A block that may still come for the piece in hand, one of an earlier    *)
(* round of requests included, lies inside its buffer, and is new or       *)
(* received already as a whole.                                            *)
THEOREM AnswersRight == Spec => []AnswersFit
<1>1. TypeOK /\ BufferMatchesIndex /\ RequestsRight /\ BlocksReceived /\ [Next]_vars
        => BlocksReceived'
  BY ReceivedNext
<1> QED
  BY <1>1, Typing, BufferRight, RequestsInit, RequestsNext, ReceivedInit, RequestsFit, PTL DEF Spec
-----------------------------------------------------------------------------
(* What is missing is asked for.                                           *)

(* Byte b of the piece of connection c is received, or a request for it is *)
(* in the queue or with the peer.                                          *)
Awaited(c, b) ==
  \/ b \in m_piece[c].received
  \/ \E r \in Asked(c) : r.index = m_piece_index[c] /\ b \in Bytes(r)

AllAwaited ==
  \A c \in Connections : Downloading(c) =>
    \A b \in 0 .. (m_piece[c].size - 1) : Awaited(c, b)

LEMMA AwaitedRequested == AllAwaited => MissingBytesRequested
  BY DEF AllAwaited, Awaited, Asked, MissingBytesRequested

LEMMA AwaitedInit == Init => AllAwaited
  BY DEF Init, PeerProtocolInit, AllAwaited, Downloading

(* A step that leaves the buffers alone and drops no request, but of a     *)
(* connection c that ends with no piece or not downloading.                *)
LEMMA AwaitedKept ==
  ASSUME TypeOK, AllAwaited, NEW c \in Connections, NEW s, NEW i,
         pc' = [pc EXCEPT ![c] = s],
         m_piece_index' = [m_piece_index EXCEPT ![c] = i],
         \/ i = NoPiece
         \/ s \notin {"idle", "reading"}
         \/ /\ i = m_piece_index[c] /\ pc[c] \in {"idle", "reading"}
            /\ m_piece'[c] = m_piece[c] /\ Asked(c) \subseteq Asked(c)',
         \A d \in Connections \ {c} :
           m_piece'[d] = m_piece[d] /\ Asked(d) \subseteq Asked(d)'
  PROVE  AllAwaited'
<1>1. /\ pc'[c] = s /\ m_piece_index'[c] = i
      /\ \A d \in Connections \ {c} : pc'[d] = pc[d] /\ m_piece_index'[d] = m_piece_index[d]
  BY DEF TypeOK
<1>2. \A d \in Connections : Downloading(d)' =>
        /\ Downloading(d) /\ m_piece'[d] = m_piece[d]
        /\ m_piece_index'[d] = m_piece_index[d] /\ Asked(d) \subseteq Asked(d)'
  BY <1>1 DEF Downloading
<1> QED
  BY <1>2 DEF AllAwaited, Awaited, Bytes

LEMMA AwaitedAlike ==
  ASSUME AllAwaited, UNCHANGED << pc, m_piece_index, m_piece >>,
         \A d \in Connections : Asked(d) \subseteq Asked(d)'
  PROVE  AllAwaited'
BY DEF AllAwaited, Awaited, Downloading, Bytes

(* A new piece is asked for as a whole.                                    *)
LEMMA AwaitedTryPiece ==
  ASSUME TypeOK, AllAwaited, NEW c \in Connections, TryPiece(c), UNCHANGED requested
  PROVE  AllAwaited'
<1>1. /\ PieceToGet \in Indices /\ SizeToGet \in Nat
      /\ m_piece_index' = [m_piece_index EXCEPT ![c] = PieceToGet]
  BY TryPieceEffect
<1>2. CASE /\ UNCHANGED << m_piece, m_messages >>
           /\ pc' \in {[pc EXCEPT ![c] = "returning"], [pc EXCEPT ![c] = "closed"]}
  <2>1. PICK s \in {"returning", "closed"} : pc' = [pc EXCEPT ![c] = s]
    BY <1>2
  <2>2. \A d \in Connections : m_piece'[d] = m_piece[d] /\ Asked(d) \subseteq Asked(d)'
    BY <1>2 DEF Asked
  <2> QED
    BY <1>1, <2>1, <2>2, AwaitedKept
<1>3. CASE /\ m_piece' = [m_piece EXCEPT ![c] = InitialPiece(PieceToGet, SizeToGet)]
           /\ \A d \in Connections \ {c} : m_messages'[d] = m_messages[d]
           /\ Range(m_messages'[c]) = Range(m_messages[c])
                                     \union Range(create_request(PieceToGet, SizeToGet))
  <2>1. m_piece'[c].size = SizeToGet /\ m_piece_index'[c] = PieceToGet
    BY <1>1, <1>3 DEF InitialPiece, TypeOK
  <2>2. \A d \in Connections \ {c} :
          /\ m_piece'[d] = m_piece[d] /\ pc'[d] = pc[d]
          /\ m_piece_index'[d] = m_piece_index[d] /\ Asked(d)' = Asked(d)
    BY <1>3 DEF TryPiece, TypeOK, Asked
  <2>3. ASSUME Downloading(c)', NEW b \in 0 .. (SizeToGet - 1)
        PROVE  Awaited(c, b)'
    <3>1. PieceToGet # NoPiece
      BY <2>1, <2>3 DEF Downloading
    <3>2. PICK r \in Range(create_request(PieceToGet, SizeToGet)) :
            r.type = "REQUEST" /\ r.index = PieceToGet /\ b \in Bytes(r)
      BY <1>1, EveryByteAsked
    <3>3. r \in Asked(c)'
      BY <1>3, <3>1, <3>2 DEF Asked
    <3> QED
      BY <2>1, <3>2, <3>3 DEF Awaited, Bytes
  <2> QED
    BY <2>1, <2>2, <2>3 DEF AllAwaited, Awaited, Downloading, Bytes
<1> QED
  BY <1>2, <1>3, TryPieceEffect

(* An answer fills the buffer, or is not of the piece in hand.             *)
LEMMA AwaitedAnswer ==
  ASSUME TypeOK, AllAwaited, NEW c \in Connections, NEW r \in requested[c], PeerAnswers(c, r)
  PROVE  AllAwaited'
<1>1. /\ UNCHANGED m_messages /\ pc[c] = "reading"
      /\ requested' \in {requested, [requested EXCEPT ![c] = @ \ {r}]}
  BY AnswerBuffer
<1>2. Asked(c) \ {r} \subseteq Asked(c)' /\ \A d \in Connections \ {c} : Asked(d)' = Asked(d)
  BY <1>1 DEF Asked, TypeOK
<1>3. CASE r.index # m_piece_index[c] /\ UNCHANGED << pc, m_piece_index, m_piece >>
  BY <1>2, <1>3 DEF AllAwaited, Awaited, Downloading, Bytes
<1>4. CASE /\ UNCHANGED << pc, m_piece_index >>
           /\ m_piece' = [m_piece EXCEPT ![c] =
                [m_piece[c] EXCEPT !.received = m_piece[c].received \union Bytes(r)]]
  <2>1. /\ m_piece'[c].size = m_piece[c].size
        /\ m_piece'[c].received = m_piece[c].received \union Bytes(r)
        /\ \A d \in Connections \ {c} : m_piece'[d] = m_piece[d]
    BY <1>4 DEF TypeOK
  <2>2. ASSUME NEW b, Awaited(c, b) PROVE Awaited(c, b)'
    BY <1>2, <1>4, <2>1, <2>2 DEF Awaited, Bytes
  <2>3. ASSUME NEW d \in Connections \ {c}, NEW b, Awaited(d, b) PROVE Awaited(d, b)'
    BY <1>2, <1>4, <2>1, <2>3 DEF Awaited, Bytes
  <2> QED
    BY <1>4, <2>1, <2>2, <2>3 DEF AllAwaited, Downloading
<1>5. CASE /\ m_piece' = [m_piece EXCEPT ![c] = EmptyPiece]
           /\ \/ /\ m_piece_index' = [m_piece_index EXCEPT ![c] = NoPiece]
                 /\ pc' = [pc EXCEPT ![c] = "picking"]
              \/ /\ m_piece_index' = [m_piece_index EXCEPT ![c] = m_piece_index[c]]
                 /\ pc' = [pc EXCEPT ![c] = "closed"]
  <2>1. \A d \in Connections \ {c} : m_piece'[d] = m_piece[d] /\ Asked(d) \subseteq Asked(d)'
    BY <1>2, <1>5 DEF TypeOK
  <2>2. CASE /\ m_piece_index' = [m_piece_index EXCEPT ![c] = NoPiece]
             /\ pc' = [pc EXCEPT ![c] = "picking"]
    BY <2>1, <2>2, AwaitedKept
  <2>3. CASE /\ m_piece_index' = [m_piece_index EXCEPT ![c] = m_piece_index[c]]
             /\ pc' = [pc EXCEPT ![c] = "closed"]
    BY <2>1, <2>3, AwaitedKept
  <2> QED
    BY <1>5, <2>2, <2>3
<1> QED
  BY <1>3, <1>4, <1>5, AnswerBuffer

LEMMA NothingQueued == Range(<< >>) = {}
BY DEF Range

(* A WRITE event hands the requests of the queue to the peer.              *)
LEMMA WrittenWhole ==
  ASSUME "short write" \notin Faults, TypeOK, NEW c \in Connections, on_write(c)
  PROVE  \A d \in Connections : Asked(d)' = Asked(d)
<1>1. PICK lost \in SUBSET Range(m_messages[c]) :
        /\ lost # {} => "short write" \in Faults
        /\ requested' = [requested EXCEPT ![c] = @ \union
             {m \in Range(m_messages[c]) \ lost : m.type = "REQUEST" /\ m.index # NoPiece}]
  BY DEF on_write
<1>2. /\ requested'[c] = requested[c] \union
           {m \in Range(m_messages[c]) : m.type = "REQUEST" /\ m.index # NoPiece}
      /\ \A d \in Connections \ {c} : requested'[d] = requested[d]
  BY <1>1 DEF TypeOK
<1>3. m_messages'[c] = << >> /\ \A d \in Connections \ {c} : m_messages'[d] = m_messages[d]
  BY DEF on_write, TypeOK
<1>4. Range(m_messages'[c]) = {}
  <2>1. m_messages'[c] = << >>
    BY <1>3
  <2> QED
    BY <2>1, NothingQueued
<1> QED
  BY <1>2, <1>3, <1>4 DEF Asked

LEMMA AwaitedNext ==
  ASSUME "short write" \notin Faults
  PROVE  TypeOK /\ AllAwaited /\ [Next]_vars => AllAwaited'
<1> SUFFICES ASSUME TypeOK, AllAwaited, [Next]_vars PROVE AllAwaited'
  OBVIOUS
<1>1. CASE UNCHANGED << pc, m_piece_index, m_piece, requested, m_messages >>
  BY <1>1, AwaitedAlike DEF Asked
<1>2. ASSUME NEW c \in Connections, UNCHANGED << m_piece_index, m_piece, requested, m_messages >>,
             NEW s, pc' = [pc EXCEPT ![c] = s], pc[c] \in {"idle", "reading"}
      PROVE  AllAwaited'
  <2>1. m_piece_index' = [m_piece_index EXCEPT ![c] = m_piece_index[c]]
    BY <1>2 DEF TypeOK
  <2>2. \A d \in Connections : m_piece'[d] = m_piece[d] /\ Asked(d) \subseteq Asked(d)'
    BY <1>2 DEF Asked
  <2> QED
    BY <1>2, <2>1, <2>2, AwaitedKept
<1>3. ASSUME NEW c \in Connections, on_read(c) \/ on_read_end(c) \/ on_close(c)
      PROVE  AllAwaited'
  BY <1>2, <1>3 DEF on_read, on_read_end, on_close, Idle, searchVars
<1>4. ASSUME NEW c \in Connections, NEW i \in Haves, PeerHas(c, i)
      PROVE  AllAwaited'
  BY <1>1, <1>2, <1>4 DEF PeerHas, process_have, searchVars, Processing
<1>5. ASSUME NEW c \in Connections, PeerChokes(c)
      PROVE  AllAwaited'
  <2>1. pc' = [pc EXCEPT ![c] = "reading"]
    BY <1>5 DEF PeerChokes, process_choke, Processing, TypeOK
  <2>2. /\ m_piece_index' = [m_piece_index EXCEPT ![c] = NoPiece]
        /\ \A d \in Connections \ {c} : m_piece'[d] = m_piece[d] /\ Asked(d) \subseteq Asked(d)'
    BY <1>5 DEF PeerChokes, process_choke, TypeOK, Asked
  <2> QED
    BY <2>1, <2>2, AwaitedKept
<1>6. ASSUME NEW c \in Connections, PeerUnchokes(c)
      PROVE  AllAwaited'
  BY <1>2, <1>6 DEF PeerUnchokes, process_unchoke, StartSearch, Processing
<1>7. ASSUME NEW c \in Connections, GiveBackPiece(c), UNCHANGED requested
      PROVE  AllAwaited'
  <2>1. PICK s : pc' = [pc EXCEPT ![c] = s]
    BY <1>7 DEF GiveBackPiece
  <2>2. /\ m_piece_index' = [m_piece_index EXCEPT ![c] = NoPiece]
        /\ \A d \in Connections \ {c} : m_piece'[d] = m_piece[d] /\ Asked(d) \subseteq Asked(d)'
    BY <1>7 DEF GiveBackPiece, Asked
  <2> QED
    BY <2>1, <2>2, AwaitedKept
<1>8. ASSUME NEW c \in Connections, NEW pieces \in Bitfields, PeerAnnounces(c, pieces)
      PROVE  AllAwaited'
  <2>1. /\ m_messages'[c] = Append(m_messages[c], Interested)
        /\ \A d \in Connections \ {c} : m_messages'[d] = m_messages[d]
        /\ UNCHANGED << requested, pc, m_piece_index, m_piece >>
    BY <1>8 DEF PeerAnnounces, process_bitfield, searchVars, TypeOK
  <2>2. Range(m_messages[c]) \subseteq Range(m_messages'[c])
    <3>1. Range(Append(m_messages[c], Interested)) = Range(m_messages[c]) \union {Interested}
      BY QueuedType, RangeAppended
    <3> QED
      BY <2>1, <3>1
  <2> QED
    BY <2>1, <2>2, AwaitedAlike DEF Asked
<1>9. ASSUME NEW c \in Connections, on_write(c)
      PROVE  AllAwaited'
  BY <1>9, WrittenWhole, AwaitedAlike DEF on_write, searchVars
<1>10. ASSUME NEW c \in Connections, Crash(c)
       PROVE  AllAwaited'
  BY <1>10, CrashEffect DEF AllAwaited, Downloading
<1> QED
  BY <1>1, <1>3, <1>4, <1>5, <1>6, <1>7, <1>8, <1>9, <1>10, AwaitedTryPiece, AwaitedAnswer
     DEF Next, Message, Search, PeerShakesHands, process_handshake, searchVars, vars

(* As long as the socket takes what is written, no byte of a piece in hand *)
(* is forgotten: it has come, or a request for it waits in the queue or    *)
(* with the peer, through late answers, chokes and failed searches.        *)
THEOREM MissingAsked ==
  ASSUME "short write" \notin Faults
  PROVE  Spec => []MissingBytesRequested
<1>1. TypeOK /\ AllAwaited /\ [Next]_vars => AllAwaited'
  BY AwaitedNext
<1> QED
  BY <1>1, Typing, AwaitedInit, AwaitedRequested, PTL DEF Spec
=============================================================================
