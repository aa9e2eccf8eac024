---------------------------- MODULE TrackerProofs ----------------------------
(***************************************************************************)
(* Proofs about the connection to the tracker, for answers and buffers of  *)
(* any size.                                                               *)
(***************************************************************************)
EXTENDS Tracker, TLAPS

(* What the handlers keep: that once peers were tried, what a handler      *)
(* reads begins after the begin of the delimiter; so a whole answer in the *)
(* buffer has not been used before.                                        *)
UsedOnce ==
  clients # << >> =>
    /\ received >= HEADER_SIZE
    /\ control = "reading" => first >= HEADER_SIZE

TrackerInv == TypeOK /\ UsedOnce /\ ConnectedOnce /\ WholeAnswerUsed

LEMMA Sizes ==
  ASSUME named \in Nat
  PROVE  /\ PEER_SIZE * named \in Nat /\ AnswerSize \in Nat /\ PeersBegin \in Nat
         /\ AnswerSize = PeersBegin + PEER_SIZE * named + 1
         /\ HEADER_SIZE < PeersBegin
BY TrackerAssumption DEF AnswerSize, PeersBegin

(* The clients made of an answer are at different places.                  *)
LEMMA NewClients ==
  ASSUME named \in Nat, received \in Nat, NEW new \in Connect(fill_peers)
  PROVE  /\ DOMAIN new = 1 .. NumberOfPeers
         /\ \A i \in 1 .. NumberOfPeers : new[i].place = i /\ new[i].address = Address(i)
         /\ new \in Seq([place: 1 .. named, address: {"named", "cut"}, works: BOOLEAN])
         /\ \A j, k \in DOMAIN new : j # k => new[j].place # new[k].place
<1>1. PICK works \in [1 .. NumberOfPeers -> BOOLEAN] :
        new = [i \in 1 .. NumberOfPeers |->
                 [place |-> i, address |-> Address(i), works |-> works[i]]]
  <2>1. DOMAIN fill_peers = 1 .. NumberOfPeers
    BY DEF fill_peers
  <2>2. \A i \in 1 .. NumberOfPeers : fill_peers[i].place = i /\ fill_peers[i].address = Address(i)
    BY DEF fill_peers
  <2> QED
    BY <2>1, <2>2 DEF Connect
<1>2. \A i \in 1 .. NumberOfPeers : Address(i) \in {"named", "cut"}
  BY DEF Address
<1>3. named \in Nat /\ NumberOfPeers \in Int /\ NumberOfPeers <= named
  <2>1. named \in Nat /\ Parsed \in Int /\ PeersBegin \in Int /\ PEER_SIZE \in Nat \ {0}
    BY TrackerAssumption DEF Parsed, PeersBegin
  <2>2. (Parsed - PeersBegin + PEER_SIZE - 1) \div PEER_SIZE \in Int
    BY <2>1
  <2> QED
    BY <2>1, <2>2 DEF NumberOfPeers, NumberOfEntries
<1> QED
  <2>1. 1 .. NumberOfPeers \subseteq 1 .. named
    BY <1>3
  <2>2. DOMAIN new = 1 .. NumberOfPeers
    BY <1>1
  <2>3. \A i \in 1 .. NumberOfPeers :
          /\ new[i].place = i /\ new[i].address = Address(i)
          /\ new[i] \in [place: 1 .. named, address: {"named", "cut"}, works: BOOLEAN]
    BY <1>1, <1>2, <2>1
  <2>4. new \in Seq([place: 1 .. named, address: {"named", "cut"}, works: BOOLEAN])
    <3>1. CASE NumberOfPeers >= 0
      BY <1>1, <1>3, <2>3, <3>1
    <3>2. CASE NumberOfPeers < 0
      <4>1. new = [i \in 1 .. 0 |-> [place |-> i, address |-> Address(i), works |-> works[i]]]
        BY <1>1, <1>3, <3>2
      <4> QED
        BY <4>1
    <3> QED
      BY <1>3, <3>1, <3>2
  <2> QED
    BY <2>2, <2>3, <2>4

(* What is made of a whole answer in the buffer.                           *)
LEMMA WholeEntries ==
  ASSUME named \in Nat, offset = received, received = AnswerSize, AnswerSize < BUFFER_SIZE
  PROVE  /\ NumberOfPeers = named /\ NumberOfEntries = named
         /\ HasDelimiter /\ received > PeersBegin /\ ~CutEntry
         /\ \A i \in 1 .. named : Address(i) = "named"
<1>1. /\ PEER_SIZE * named \in Nat /\ PEER_SIZE \in Nat \ {0} /\ PeersBegin \in Nat
      /\ AnswerSize \in Nat /\ BUFFER_SIZE \in Nat
      /\ AnswerSize = PeersBegin + PEER_SIZE * named + 1 /\ HEADER_SIZE < PeersBegin
      /\ HEADER_SIZE \in Nat /\ HEADER_SIZE >= DELIM_SIZE
  BY Sizes, TrackerAssumption
<1>2. Parsed = received
  BY <1>1 DEF Parsed
<1>3. NumberOfEntries = named
  <2> DEFINE rest  == Parsed - PeersBegin + PEER_SIZE - 1
             begun == rest \div PEER_SIZE
  <2>1. rest = PEER_SIZE * named + PEER_SIZE /\ rest \in Nat
    BY <1>1, <1>2
  <2>2. begun \in Int /\ rest < PEER_SIZE * (begun + 1)
    BY <1>1, <2>1
  <2> HIDE DEF rest, begun
  <2>3. ASSUME begun < named PROVE FALSE
    <3>1. begun + 1 <= named
      BY <2>2, <2>3
    <3>2. PEER_SIZE * (begun + 1) <= PEER_SIZE * named
      BY <1>1, <2>2, <3>1
    <3> QED
      BY <1>1, <2>1, <2>2, <3>2
  <2>4. begun >= named
    BY <2>2, <2>3
  <2> QED
    BY <2>2, <2>4 DEF NumberOfEntries, begun, rest
<1>4. \A i \in 1 .. named : \A b \in Bytes(i) : b < received
  <2> SUFFICES ASSUME NEW i \in 1 .. named, NEW b \in Bytes(i) PROVE b < received
    OBVIOUS
  <2>1. PEER_SIZE * i <= PEER_SIZE * named /\ PEER_SIZE * i \in Nat
    BY <1>1
  <2>2. PEER_SIZE * (i - 1) \in Nat
    BY <1>1
  <2>3. b \in Nat /\ b <= PeersBegin + PEER_SIZE * i - 1
    BY <1>1, <2>1, <2>2 DEF Bytes
  <2> QED
    BY <1>1, <2>1, <2>3
<1>5. NumberOfPeers = named
  BY <1>3 DEF NumberOfPeers
<1>6. \A i \in 1 .. named : Address(i) = "named"
  BY <1>2, <1>4 DEF Address
<1>7. ~CutEntry
  <2> SUFFICES ASSUME NEW i \in 1 .. named, NEW b \in Bytes(i), b >= Parsed PROVE FALSE
    BY <1>3 DEF CutEntry, Entries
  <2>1. b \in Int /\ b < received
    <3>1. PEER_SIZE * (i - 1) \in Nat /\ PEER_SIZE * i \in Nat
      BY <1>1
    <3> QED
      BY <1>1, <1>4, <3>1 DEF Bytes
  <2> QED
    BY <1>1, <1>2, <2>1
<1>8. HasDelimiter
  BY <1>1 DEF HasDelimiter, first, DELIM_SIZE
<1>9. received > PeersBegin
  BY <1>1
<1> QED
  BY <1>3, <1>5, <1>6, <1>7, <1>8, <1>9

LEMMA InitInv == Init => TrackerInv
<1> SUFFICES ASSUME Init PROVE TrackerInv
  OBVIOUS
<1>1. named \in Nat /\ AnswerSize \in Nat /\ AnswerSize > 0
  <2>1. named \in Nat
    BY TrackerAssumption DEF Init
  <2> QED
    BY <2>1, Sizes, TrackerAssumption
<1>2. TypeOK
  BY <1>1, TrackerAssumption DEF Init, TypeOK
<1> QED
  BY <1>1, <1>2 DEF Init, TrackerInv, UsedOnce, ConnectedOnce, WholeAnswerUsed

LEMMA NextInv == TrackerInv /\ [Next]_vars => TrackerInv'
<1> SUFFICES ASSUME TrackerInv, [Next]_vars PROVE TrackerInv'
  OBVIOUS
<1>0. /\ named \in Nat /\ received \in Nat /\ offset \in 0 .. received
      /\ AnswerSize \in Nat /\ BUFFER_SIZE \in Nat /\ HEADER_SIZE \in Nat
  <2>1. named \in Nat
    BY TrackerAssumption DEF TrackerInv, TypeOK
  <2> QED
    BY <2>1, Sizes, TrackerAssumption DEF TrackerInv, TypeOK
<1>1. CASE on_write
  BY <1>1 DEF on_write, TrackerInv, TypeOK, UsedOnce, ConnectedOnce, WholeAnswerUsed,
              Tried, first, AnswerSize
<1>2. CASE on_read
  <2>1. named' = named /\ AnswerSize' = AnswerSize
    BY <1>2 DEF on_read, AnswerSize
  <2> QED
    BY <1>0, <1>2, <2>1 DEF on_read, TrackerInv, TypeOK, UsedOnce, ConnectedOnce,
                            WholeAnswerUsed, first
<1>3. ASSUME NEW n \in 1 .. AnswerSize, read(n) PROVE TrackerInv'
  <2>1. named' = named /\ AnswerSize' = AnswerSize /\ n \in Nat
    BY <1>0, <1>3 DEF read, AnswerSize
  <2> QED
    BY <1>0, <1>3, <2>1 DEF read, TrackerInv, TypeOK, UsedOnce, ConnectedOnce,
                            WholeAnswerUsed, first
<1>4. CASE use_answer
  <2>0. /\ control = "reading" /\ UNCHANGED << named, form, received, m_state, offset >>
        /\ AnswerSize' = AnswerSize /\ first' = first
        /\ control' \in {"idle", "closed", "crashed"}
    BY <1>4 DEF use_answer, AnswerSize, first
  <2>1. CASE UNCHANGED clients
    <3>1. TypeOK' /\ UsedOnce' /\ ConnectedOnce'
      BY <2>0, <2>1 DEF TrackerInv, TypeOK, UsedOnce, ConnectedOnce
    <3>2. ASSUME control' = "idle", first = 0, received = AnswerSize, AnswerSize < BUFFER_SIZE
          PROVE  named = 0 /\ clients = << >>
      <4>1. offset = received
        BY <1>0, <3>2 DEF first
      <4>2. /\ NumberOfEntries = named /\ HasDelimiter /\ received > PeersBegin /\ ~CutEntry
            /\ NumberOfPeers = named
        BY <1>0, <3>2, <4>1, WholeEntries
      <4>3. PeersBegin \in Nat /\ HEADER_SIZE < PeersBegin
        BY <1>0, Sizes
      <4>4. Outcomes = PeersOutcomes
        <5>1. received # HEADER_SIZE /\ ~ (received < PeersBegin)
          BY <1>0, <4>2, <4>3
        <5> QED
          BY <4>2, <5>1, Zenon DEF Outcomes
      <4>5. clients = << >>
        BY <2>0, <3>2, TrackerAssumption DEF TrackerInv, UsedOnce, DELIM_SIZE
      <4>6. ASSUME NEW new \in Connect(fill_peers), clients' = clients \o new
            PROVE  named = 0
        <5>1. /\ DOMAIN new = 1 .. named
              /\ new \in Seq([place: 1 .. named, address: {"named", "cut"}, works: BOOLEAN])
          BY <1>0, <4>2, <4>6, NewClients
        <5>2. new = << >>
          BY <2>1, <4>5, <4>6, <5>1
        <5> QED
          BY <1>0, <5>1, <5>2
      <4>7. CASE Entries = {}
        BY <1>0, <4>2, <4>5, <4>7 DEF Entries
      <4>8. CASE Entries # {}
        <5>1. Outcomes = {"peers"}
          BY <4>2, <4>4, <4>8 DEF PeersOutcomes
        <5>2. PICK new \in Connect(fill_peers) : clients' = clients \o new
          BY <1>4, <5>1 DEF use_answer
        <5> QED
          BY <4>5, <4>6, <5>2
      <4> QED
        BY <4>7, <4>8
    <3>3. WholeAnswerUsed'
      <4>1. ASSUME control' = "idle", first = 0, received = AnswerSize, AnswerSize < BUFFER_SIZE
            PROVE  Tried' = 1 .. named /\ \A k \in DOMAIN clients' : clients'[k].address = "named"
        BY <2>1, <3>2, <4>1 DEF Tried
      <4> QED
        BY <2>0, <4>1 DEF WholeAnswerUsed
    <3> QED
      BY <3>1, <3>3 DEF TrackerInv
  <2>2. CASE ~UNCHANGED clients
    <3>1. PICK new \in Connect(fill_peers) : clients' = clients \o new
      BY <1>4, <2>2 DEF use_answer
    <3>2. control' = "idle"
      BY <1>4, <2>2 DEF use_answer
    <3>3. HasDelimiter
      BY <1>4, <2>2 DEF use_answer, Outcomes
    <3>4. received >= HEADER_SIZE /\ clients = << >>
      BY <1>0, <2>0, <3>3, TrackerAssumption DEF HasDelimiter, TrackerInv, UsedOnce, DELIM_SIZE, first
    <3>5. /\ DOMAIN new = 1 .. NumberOfPeers
          /\ \A i \in 1 .. NumberOfPeers : new[i].place = i /\ new[i].address = Address(i)
          /\ new \in Seq([place: 1 .. named, address: {"named", "cut"}, works: BOOLEAN])
          /\ \A j, k \in DOMAIN new : j # k => new[j].place # new[k].place
      BY <1>0, NewClients
    <3>6. clients' = new
      BY <3>1, <3>4, <3>5
    <3>7. TypeOK' /\ UsedOnce' /\ ConnectedOnce'
      BY <2>0, <3>2, <3>4, <3>5, <3>6 DEF TrackerInv, TypeOK, UsedOnce, ConnectedOnce
    <3>8. ASSUME first = 0, received = AnswerSize, AnswerSize < BUFFER_SIZE
          PROVE  Tried' = 1 .. named /\ \A k \in DOMAIN clients' : clients'[k].address = "named"
      <4>1. NumberOfPeers = named /\ \A i \in 1 .. named : Address(i) = "named"
        <5>1. offset = received
          BY <1>0, <3>8 DEF first
        <5> QED
          BY <1>0, <3>8, <5>1, WholeEntries
      <4>2. \A i \in 1 .. named : new[i].place = i /\ new[i].address = "named"
        BY <3>5, <4>1
      <4> QED
        BY <3>5, <3>6, <4>1, <4>2 DEF Tried
    <3>9. WholeAnswerUsed'
      BY <2>0, <3>8 DEF WholeAnswerUsed
    <3> QED
      BY <3>7, <3>9 DEF TrackerInv
  <2> QED
    BY <2>1, <2>2
<1>5. CASE on_close
  BY <1>5 DEF on_close, TrackerInv, TypeOK, UsedOnce, ConnectedOnce, WholeAnswerUsed, AnswerSize
<1>6. CASE UNCHANGED vars
  BY <1>6 DEF vars, TrackerInv, TypeOK, UsedOnce, ConnectedOnce, WholeAnswerUsed,
              Tried, first, AnswerSize
<1> QED
  BY <1>1, <1>2, <1>3, <1>4, <1>5, <1>6 DEF Next

LEMMA TrackerInvariant == Spec => []TrackerInv
BY InitInv, NextInv, PTL DEF Spec

(* The type of every variable; nothing is read past the end of the buffer. *)
THEOREM TrackerTyping == Spec => []TypeOK
<1>1. TrackerInv => TypeOK
  BY DEF TrackerInv
<1> QED
  BY <1>1, TrackerInvariant, PTL

(* No peer of the answer is connected to twice (TrackerConnection::on_read *)
(* makes the clients), for any answer, any buffer and any cut.             *)
THEOREM TrackerOnce == Spec => []ConnectedOnce
<1>1. TrackerInv => ConnectedOnce
  BY DEF TrackerInv
<1> QED
  BY <1>1, TrackerInvariant, PTL

(* An answer that comes in one READ event and does not fill the buffer is  *)
(* used whole: every peer is tried, at the address the tracker gave.       *)
THEOREM TrackerWhole == Spec => []WholeAnswerUsed
<1>1. TrackerInv => WholeAnswerUsed
  BY DEF TrackerInv
<1> QED
  BY <1>1, TrackerInvariant, PTL
=============================================================================
