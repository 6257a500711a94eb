----------------------------- MODULE ThreadProps -----------------------------
(* What the goroutines of NodeThreads achieve together. *)
EXTENDS NodeThreads

Labels == {"idle", "get", "delete", "queue", "search", "broadcast", "add", "load", "done",
           "compare", "install", "take", "reply", "break", "precursor",
           "forget", "range", "drop"}

(* The type invariant. *)
ThreadsTypeOK ==
  /\ route \in Entry \cup {NoRoute}
  /\ nbrs \in [Neighbour -> {"absent", "heard", "silent"}]
  /\ made \in Nat /\ pending \in Seq(User) /\ seqNum \in Nat
  /\ chan \in Seq(Datagram) /\ Len(chan) <= ChanCap
  /\ pc \in [Thread -> Labels]
  /\ got \in [Thread -> Entry \cup {NoRoute}]
  /\ num \in [Thread -> Nat]
  /\ current \in {"none", "RREP", "RREQ"}
  /\ flush \in Seq(User)
  /\ todo \subseteq Neighbour /\ dead \subseteq Neighbour
  /\ incoming \subseteq Datagram
  /\ requests \subseteq Nat /\ heard \in Nat /\ theirs \in Nat
  /\ sent \subseteq [msg: User, seq: Nat]
  /\ crashed \in BOOLEAN
  /\ left \in Nat

-----------------------------------------------------------------------------
Elements(s) == {s[i] : i \in DOMAIN s}

(* A reply to one of our searches that has not emptied the queue yet. *)
ReplyUnderWay ==
  \/ \E m \in incoming \cup Elements(chan) : m.type = "RREP"
  \/ pc[Loop] \in {"compare", "install"} /\ current = "RREP"
  \/ pc[Loop] = "take"

(* A search Target will answer: not yet numbered, not yet sent, in flight.  *)
SearchUnderWay ==
  \/ \E t \in Thread : pc[t] = "search"
  \/ \E t \in Thread : pc[t] = "broadcast" /\ num[t] > heard
  \/ \E k \in requests : k > heard

(* Whatever the interleaving of SendData with the flush in handleRREP and   *)
(* with the deletions of routes: a message is never in the queue without a  *)
(* search or a reply on its way that will bring it out.  SendData queues    *)
(* before it searches, and nothing else empties the queue.                  *)
QueueIsServed == pending # <<>> => SearchUnderWay \/ ReplyUnderWay

-----------------------------------------------------------------------------
(* The messages in the hands of a goroutine, or in the queue. *)
Carrying(u) == pc[u] \in {"get", "delete", "queue", "add", "load"}
Waiting == {u \in User : Carrying(u)} \cup Elements(pending) \cup Elements(flush)

(* The node implements Outbox: from /send to the datagram a message is in   *)
(* exactly one place, and with the goroutines running it gets there.        *)
Promise == INSTANCE Outbox WITH
  Message <- User, waiting <- Waiting, sent <- {r.msg : r \in sent}, up <- ~crashed

SentOnce == Promise!Spec

-----------------------------------------------------------------------------
(* The tables are thread-safe: routes.go:17, "Table is a generic type for   *)
(* creating thread-safe NeighboursTable and RoutesTable".                   *)
ThreadSafe == ~Racing
=============================================================================
