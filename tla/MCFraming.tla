------------------------------ MODULE MCFraming ------------------------------
(***************************************************************************)
(* Streams for TLC: up to MaxStream messages, each a keep-alive, a short   *)
(* one, a longer one, a PORT, one of an unknown type, or one that does not *)
(* fit the buffer.                                                         *)
(***************************************************************************)
EXTENDS Framing

CONSTANTS MaxStream

SomeMessages ==
  { [id |-> 0, length |-> 0], [id |-> 0, length |-> 1], [id |-> 4, length |-> 5],
    [id |-> 9, length |-> 3], [id |-> 10, length |-> 2],
    [id |-> 7, length |-> BUFFER_SIZE - 3] }

SomeStreams == UNION {[1 .. n -> SomeMessages] : n \in 0 .. MaxStream}
=============================================================================
