------------------------------ MODULE Delivery ------------------------------
(***************************************************************************)
(* What the mesh is for: a message somebody asked a node to send arrives at *)
(* its destination, once, in whatever order.                                *)
(***************************************************************************)
EXTENDS Sequences

CONSTANTS
  Node,
  Offered  \* what may be asked for: <<source, destination, payload>>

VARIABLES
  asked,   \* what has been asked for
  inbox    \* inbox[n]: what has arrived at n, as <<source, payload>>

vars == <<asked, inbox>>

Arrived(o) == \E i \in DOMAIN inbox[o[2]] : inbox[o[2]][i] = <<o[1], o[3]>>

Init == asked = {} /\ inbox = [n \in Node |-> <<>>]

Ask(o) == o \notin asked /\ asked' = asked \cup {o} /\ UNCHANGED inbox

Arrive(o) ==
  /\ o \in asked /\ ~Arrived(o)
  /\ inbox' = [inbox EXCEPT ![o[2]] = Append(@, <<o[1], o[3]>>)]
  /\ UNCHANGED asked

Next == \E o \in Offered : Ask(o) \/ Arrive(o)

Spec == Init /\ [][Next]_vars /\ \A o \in Offered : WF_vars(Arrive(o))
=============================================================================
