------------------------------- MODULE Outbox -------------------------------
(***************************************************************************)
(* What a node promises about the messages its users give it: each is sent  *)
(* towards its destination exactly once, unless the process dies.           *)
(***************************************************************************)
CONSTANT Message

VARIABLES
  waiting,  \* accepted and not yet sent
  sent,     \* sent
  up        \* the process lives

vars == <<waiting, sent, up>>

Init == waiting = {} /\ sent = {} /\ up = TRUE

Accept(x) ==
  /\ up = TRUE /\ x \notin waiting \cup sent
  /\ waiting' = waiting \cup {x}
  /\ UNCHANGED <<sent, up>>

Send(x) ==
  /\ up = TRUE /\ x \in waiting
  /\ waiting' = waiting \ {x}
  /\ sent' = sent \cup {x}
  /\ UNCHANGED up

Die == up = TRUE /\ up' = FALSE /\ UNCHANGED <<waiting, sent>>

Next == (\E x \in Message : Accept(x) \/ Send(x)) \/ Die

(* The safety part, and with it: what waits is sent. *)
Safety == Init /\ [][Next]_vars
Spec == Safety /\ \A x \in Message : WF_vars(Send(x))
=============================================================================
