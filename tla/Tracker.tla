------------------------------- MODULE Tracker -------------------------------
(***************************************************************************)
(* The connection to the tracker (class TrackerConnection): one request,   *)
(* an answer that the socket gives in any number of READ events, and a     *)
(* connection to every peer the answer names.  These are the Connections   *)
(* of module Download, which starts where a client is created here.        *)
(*                                                                         *)
(* The answer is an HTTP header that ends in the delimiter, then a         *)
(* dictionary whose last value are the peers: a compact string, or a list  *)
(* of dictionaries. A byte is its place in the answer, and a peer is its   *)
(* place among the peers.                                                  *)
(***************************************************************************)
EXTENDS Integers, Sequences

CONSTANTS
  HEADER_SIZE,     (* bytes of the header, its delimiter included          *)
  PREFIX_SIZE,     (* bytes of the dictionary before the bytes of the peers *)
  PEER_SIZE,       (* bytes of a peer: 6 in the code                       *)
  BUFFER_SIZE,     (* 50000 in the code                                    *)
  LOST_SIZE,       (* bytes that a full buffer loses at its end: 80        *)
  NumbersOfPeers   (* how many peers an answer may name                    *)

DELIM_SIZE == 4

ASSUME TrackerAssumption ==
  /\ HEADER_SIZE \in Nat /\ HEADER_SIZE >= DELIM_SIZE
  /\ PREFIX_SIZE \in Nat \ {0} /\ PEER_SIZE \in Nat \ {0}
  /\ BUFFER_SIZE \in Nat /\ LOST_SIZE \in Nat
  /\ HEADER_SIZE + PREFIX_SIZE + LOST_SIZE <= BUFFER_SIZE
  /\ NumbersOfPeers \subseteq Nat

VARIABLES
  named,     (* number of peers in the answer of the tracker               *)
  form,      (* of the peers: "compact" or "detail"                        *)
  received,  (* bytes of the answer the socket has given                   *)
  control,   (* "idle", "reading", "closed", or "crashed"                  *)
  m_state,
  offset,    (* the buffer holds the last offset bytes received            *)
  clients    (* peers tried: place, address and whether it worked          *)

vars == << named, form, received, control, m_state, offset, clients >>

(* The header, the dictionary up to the peers, the peers, and its end.     *)
AnswerSize == HEADER_SIZE + PREFIX_SIZE + PEER_SIZE * named + 1

(* Place in the answer of the first byte in the buffer.                    *)
first == received - offset

Init ==
  /\ named \in NumbersOfPeers
  /\ form \in {"compact", "detail"}
  /\ received = 0
  /\ control = "idle"
  /\ m_state = "WAIT_FOR_WRITE"
  /\ offset = 0
  /\ clients = << >>
-----------------------------------------------------------------------------
(* Mutant: WRITE events go on being awaited.                               *)
on_write_again ==
  /\ control = "idle" /\ m_state = "WAIT_FOR_WRITE"
  /\ UNCHANGED vars

(* The request is written; the tracker has it, and may answer.             *)
on_write ==
  /\ control = "idle" /\ m_state = "WAIT_FOR_WRITE"
  /\ m_state' = "WAIT_FOR_READ"
  /\ UNCHANGED << named, form, received, control, offset, clients >>

(* Mutant: the buffer is not emptied.                                      *)
on_read_keeps_offset ==
  /\ control = "idle" /\ m_state = "WAIT_FOR_READ"
  /\ control' = "reading"
  /\ UNCHANGED << named, form, received, m_state, offset, clients >>

(* A READ event: the buffer is filled from its begin, and with it goes     *)
(* what an earlier event left in it.                                       *)
on_read ==
  /\ control = "idle" /\ m_state = "WAIT_FOR_READ"
  /\ control' = "reading"
  /\ offset' = 0
  /\ UNCHANGED << named, form, received, m_state, clients >>

(* Mutant: the socket may write past the buffer.                           *)
read_past_buffer(n) ==
  /\ control = "reading"
  /\ received + n <= AnswerSize
  /\ offset' = offset + n
  /\ received' = received + n
  /\ UNCHANGED << named, form, control, m_state, clients >>

(* socket->read gives n bytes.                                             *)
read(n) ==
  /\ control = "reading"
  /\ received + n <= AnswerSize /\ offset + n <= BUFFER_SIZE
  /\ offset' = offset + n
  /\ received' = received + n
  /\ UNCHANGED << named, form, control, m_state, clients >>

(* Is the delimiter of the header in the buffer?                           *)
HasDelimiter == first + DELIM_SIZE <= HEADER_SIZE /\ received >= HEADER_SIZE

PeersBegin == HEADER_SIZE + PREFIX_SIZE

(* The buffer holds two bytes of peers, which may be two newlines, the     *)
(* other delimiter.                                                        *)
MayHoldNewlines ==
  \E b \in PeersBegin .. (PeersBegin + PEER_SIZE * named - 2) : first <= b /\ b + 1 < received

(* The bytes of the peer at place i.                                       *)
Bytes(i) == (PeersBegin + PEER_SIZE * (i - 1)) .. (PeersBegin + PEER_SIZE * i - 1)

(* Bytes before this one are parsed: when the buffer is full the zero      *)
(* after its end falls on the low byte of offset, the number of bytes.     *)
Parsed == IF offset = BUFFER_SIZE THEN received - LOST_SIZE ELSE received

(* Dictionaries of the list of peers that are parsed, at least in part.    *)
NumberOfEntries ==
  LET begun == (Parsed - PeersBegin + PEER_SIZE - 1) \div PEER_SIZE
  IN  IF begun <= named THEN begun ELSE named
Entries  == 1 .. NumberOfEntries
CutEntry == \E i \in Entries : \E b \in Bytes(i) : b >= Parsed

(* fill_peers: what it makes of peers that begin in what is parsed.  The   *)
(* loop of fill_peers_detail goes on to the end of the answer's dictionary *)
(* and completes the last peer there, if there is one; else back() of an   *)
(* empty vector is undefined.  A cut dictionary gives a peer with what was *)
(* read of it, or an exception.                                            *)
PeersOutcomes ==
  IF form = "compact" THEN {"peers"}
  ELSE IF Entries = {} THEN {"no peer to complete"}
  ELSE IF CutEntry THEN {"peers", "error"}
  ELSE {"peers"}

(* What on_read makes of the buffer.  Of nothing after the delimiter there *)
(* is no first token; of a part of what comes before the peers there are   *)
(* no peers, or an error; and of what follows two newlines among the peers *)
(* any of these.                                                           *)
Outcomes ==
  IF HasDelimiter
  THEN IF received = HEADER_SIZE THEN {"no token"}
       ELSE IF received < PeersBegin THEN {"error", "no peers"}
       ELSE PeersOutcomes
  ELSE IF MayHoldNewlines THEN {"incomplete", "error", "no peers", "no token"}
  ELSE {"incomplete"}

(* Of bytes that are not there a peer is made nevertheless.  The compact   *)
(* string is read from the buffer, whatever is parsed.                     *)
Address(i) ==
  IF \A b \in Bytes(i) : b < IF form = "compact" THEN received ELSE Parsed THEN "named" ELSE "cut"

(* Mutant: the last peer is left out.                                      *)
fill_peers_short == [i \in 1 .. (named - 1) |-> [place |-> i, address |-> Address(i)]]

(* The peers of the answer: of the compact string, as many as its length   *)
(* says; of the list, those that are parsed.                               *)
NumberOfPeers == IF form = "compact" THEN named ELSE NumberOfEntries

fill_peers == [i \in 1 .. NumberOfPeers |-> [place |-> i, address |-> Address(i)]]

(* The clients made of the peers; an exception skips one.                  *)
Connect(peers) ==
  { [i \in DOMAIN peers |->
       [place |-> peers[i].place, address |-> peers[i].address, works |-> works[i]]]
    : works \in [DOMAIN peers -> BOOLEAN] }

(* The socket is drained, for now, and the answer is made use of.          *)
use_answer ==
  /\ control = "reading"
  /\ \E outcome \in Outcomes :
       \/ /\ outcome \in {"incomplete", "no peers"}
          /\ control' = "idle"
          /\ UNCHANGED clients
       \/ /\ outcome = "peers"
          /\ control' = "idle"
          /\ \E new \in Connect(fill_peers) : clients' = clients \o new
       \/ /\ outcome = "error"
          /\ control' = "closed"
          /\ UNCHANGED clients
       \/ /\ outcome = "no token"
          /\ control' \in {"closed", "crashed"}
          /\ UNCHANGED clients
       \/ /\ outcome = "no peer to complete"
          /\ control' \in {"idle", "closed", "crashed"}
          /\ UNCHANGED clients
  /\ UNCHANGED << named, form, received, m_state, offset >>

(* A CLOSE or ERROR event: nothing asks the tracker again.                 *)
on_close ==
  /\ control = "idle"
  /\ control' = "closed"
  /\ UNCHANGED << named, form, received, m_state, offset, clients >>

Next ==
  \/ on_write \/ on_read \/ use_answer \/ on_close
  \/ \E n \in 1 .. AnswerSize : read(n)

Spec == Init /\ [][Next]_vars

(* The request is written, the answer comes, and a handler ends.           *)
FairSpec ==
  /\ Spec
  /\ WF_vars(on_write) /\ WF_vars(use_answer)
  /\ WF_vars(received < AnswerSize /\ on_read)
  /\ SF_vars(\E n \in 1 .. AnswerSize : read(n))
-----------------------------------------------------------------------------
(* The type of every variable; the buffer ends where it ends.              *)
TypeOK ==
  /\ named \in NumbersOfPeers /\ form \in {"compact", "detail"}
  /\ received \in 0 .. AnswerSize
  /\ control \in {"idle", "reading", "closed", "crashed"}
  /\ m_state \in {"WAIT_FOR_READ", "WAIT_FOR_WRITE"}
  /\ offset \in 0 .. received /\ offset <= BUFFER_SIZE
  /\ clients \in Seq([place: 1 .. named, address: {"named", "cut"}, works: BOOLEAN])

Tried == {clients[k].place : k \in DOMAIN clients}

(* No peer of the answer is connected to twice, whatever READ events the   *)
(* answer comes in: two connections to a peer would take two pieces, and   *)
(* ActiveSockets, to which nothing is ever added, does not keep them apart. *)
ConnectedOnce ==
  \A j, k \in DOMAIN clients : j # k => clients[j].place # clients[k].place

(* An answer that one READ event brings whole is used whole: every peer is *)
(* tried, and at its own address.                                          *)
WholeAnswerUsed ==
  control = "idle" /\ first = 0 /\ received = AnswerSize /\ AnswerSize < BUFFER_SIZE =>
    /\ Tried = 1 .. named
    /\ \A k \in DOMAIN clients : clients[k].address = "named"

(* The answer comes: in the end all of it is received, or the connection   *)
(* is gone.                                                                *)
AnswerComes == <>(received = AnswerSize \/ control \in {"closed", "crashed"})

(* on_read, when it finds no delimiter, says "incomplete buffer"           *)
(* (init_http_request.cpp:39) and returns to wait for the rest: when all   *)
(* of the answer has come, its peers have been tried.                      *)
RestCompletes ==
  control = "idle" /\ received = AnswerSize => Tried = 1 .. named
=============================================================================
