--------------------------- MODULE PieceAllocation ---------------------------
(***************************************************************************)
(* What the sharing of pieces among connections promises, without the list *)
(* of returned pieces, the search or the messages: a piece is free, held   *)
(* by one connection, done, or none of these (lost until the program is    *)
(* started again).                                                         *)
(***************************************************************************)
CONSTANTS Pieces, Connections

VARIABLES
  free,  \* pieces that some connection may still take
  held,  \* the pieces each connection is downloading
  done   \* pieces written to the files

alloc == << free, held, done >>

Init ==
  /\ free = Pieces
  /\ held = [c \in Connections |-> {}]
  /\ done = {}

(* c takes free piece p, or loses it at once, and forgets what it held.    *)
Take(c, p) ==
  /\ p \in free
  /\ free' = free \ {p}
  /\ \E s \in {{}, {p}} : held' = [held EXCEPT ![c] = s]
  /\ UNCHANGED done

GiveBack(c, p) ==
  /\ p \in held[c]
  /\ free' = free \union {p}
  /\ held' = [held EXCEPT ![c] = {}]
  /\ UNCHANGED done

Finish(c, p) ==
  /\ p \in held[c]
  /\ done' = done \union {p}
  /\ held' = [held EXCEPT ![c] = {}]
  /\ UNCHANGED free

(* c is closed, or searches again while it holds a piece.                  *)
Forget(c) ==
  /\ held' = [held EXCEPT ![c] = {}]
  /\ UNCHANGED << free, done >>

(* The program ends.                                                       *)
Stop ==
  /\ held' = [c \in Connections |-> {}]
  /\ UNCHANGED << free, done >>

Next ==
  \/ \E c \in Connections :
       \/ \E p \in Pieces : Take(c, p) \/ GiveBack(c, p) \/ Finish(c, p)
       \/ Forget(c)
  \/ Stop

Spec == Init /\ [][Next]_alloc

(* A piece is in one place: this is what keeps two connections from         *)
(* downloading, and writing, the same piece.                               *)
Exclusive ==
  /\ free \intersect done = {}
  /\ \A c \in Connections :
       /\ held[c] \intersect (free \union done) = {}
       /\ \A d \in Connections \ {c} : held[c] \intersect held[d] = {}
=============================================================================
