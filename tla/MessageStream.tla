---------------------------- MODULE MessageStream ----------------------------
(***************************************************************************)
(* What a connection promises to the handlers of its messages, and module  *)
(* Download takes for granted: the messages of the peer are dispatched     *)
(* once, in the order of the peer, when they have come whole; and when the *)
(* handler of a READ event ends, none that has come is left.  There are no *)
(* bytes here.                                                             *)
(***************************************************************************)
EXTENDS Integers, Sequences, Functions

VARIABLES
  due,         (* places of the messages that have an effect               *)
  arrived,     (* those of them that have come whole                       *)
  dispatched,  (* those the handlers have been called for                  *)
  handler      (* of READ events: "idle", "busy" or, at last, "closed"     *)

stream == << due, arrived, dispatched, handler >>

Init ==
  /\ due \subseteq Nat
  /\ arrived = {}
  /\ dispatched = << >>
  /\ handler = "idle"

Wake ==
  /\ handler = "idle" /\ handler' = "busy"
  /\ UNCHANGED << due, arrived, dispatched >>

Arrive ==
  /\ handler = "busy"
  /\ arrived \subseteq arrived' /\ arrived' \subseteq due
  /\ UNCHANGED << due, dispatched, handler >>

(* The first message that has not been dispatched.                         *)
IsNext(k) ==
  /\ k \in due \ Range(dispatched)
  /\ \A j \in due : j < k => j \in Range(dispatched)

Dispatch ==
  /\ handler = "busy"
  /\ \E k \in arrived : IsNext(k) /\ dispatched' = Append(dispatched, k)
  /\ UNCHANGED << due, arrived, handler >>

Rest ==
  /\ handler = "busy" /\ handler' = "idle"
  /\ arrived \subseteq Range(dispatched)
  /\ UNCHANGED << due, arrived, dispatched >>

Close ==
  /\ handler = "busy" /\ handler' = "closed"
  /\ UNCHANGED << due, arrived, dispatched >>

Next == Wake \/ Arrive \/ Dispatch \/ Rest \/ Close

Spec == Init /\ [][Next]_stream
=============================================================================
