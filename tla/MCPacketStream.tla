--------------------------- MODULE MCPacketStream ---------------------------
(* Finite instances of PacketStream.                                       *)
EXTENDS PacketStream

CONSTANTS c1, c2, s1, s2, p1, p2

\* All processors ask for the same position.
OrderDefault == [p \in Proc |-> 0]

\* The options as the constructor sets them, and either one of them alone.
Defaults == {[autoStart |-> FALSE, closeOnError |-> TRUE]}
EitherOpt == {[autoStart |-> b, closeOnError |-> ~b] : b \in BOOLEAN}

\* Bounds: calls per controller, packets per source.
Calls11 == [t \in Thread |-> 1]
Calls22 == [t \in Thread |-> 2]
Calls51 == [t \in Thread |-> IF t \in Controller THEN 5 ELSE 1]
=============================================================================
