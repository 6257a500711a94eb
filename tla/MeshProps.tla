------------------------------ MODULE MeshProps ------------------------------
(* What a mesh of MeshNet nodes promises, and what its documents claim. *)
EXTENDS MeshNet, FiniteSetsExt

(* The type invariant. *)
TypeOK ==
  /\ AreTables(nbr, Node, Node, NeighboursEntry)
  /\ AreTables(rt, Node, Node, RouteEntry)
  /\ AreTables(seen, Node, Node, Seqs)
  /\ seqNum \in [Node -> Seqs]
  /\ pend \in [Node -> [Node -> Seq(Payload)]]
  /\ \A n \in Node, d \in Node : Len(pend[n][d]) <= MaxQueue
  /\ inbox \in [Node -> Seq(Node \X Payload)]
  /\ net \subseteq Datagram
  /\ left \in [Budget -> Nat]
  /\ asked \subseteq Offered
  /\ accepted \in [Node -> SUBSET (Node \X Node \X Seqs)]
  /\ spoiled \subseteq Node

-----------------------------------------------------------------------------
Requests == {p \in net : p.m.type = "RREQ"}
Replies == {p \in net : p.m.type = "RREP"}

(* The node that routes of n to d lead to: the owner of NextHopAddr. *)
NextHop(n, d) == rt[n][d].addr[1]

(* Entry e is at least as fresh as sequence number s over h hops. *)
AtLeast(e, s, h) == e.seq > s \/ (e.seq = s /\ e.hops <= h)

(* Nobody knows a sequence number of d that d has not handed out.           *)
(* seqNum in conn.go, UpdateRoute in routes.go.                             *)
SeqsIssued ==
  \A d \in Node \ spoiled :
    /\ \A n \in Node : d \in DOMAIN rt[n] => rt[n][d].seq <= seqNum[d]
    /\ \A n \in Node : d \in DOMAIN seen[n] => seen[n][d] <= seqNum[d]
    /\ \A p \in Requests :
         p.m.src = d => p.m.srcSeq <= seqNum[d] /\ p.m.bid <= seqNum[d]
    /\ \A p \in Replies : p.m.src = d => p.m.dstSeq <= seqNum[d]

(* Every route leads to a node whose own route to the same destination is   *)
(* strictly fresher, or to the destination: the order that "sequence        *)
(* numbers and hop counts prevent loops" rests on (UpdateRoute, and the     *)
(* entries handleRREQ and handleRREP build from what they relay).           *)
DownstreamFresher ==
  \A n \in Node : \A d \in DOMAIN rt[n] \ spoiled :
    LET m == NextHop(n, d)
    IN  m # d => d \in DOMAIN rt[m] /\ Fresher(rt[m][d], rt[n][d])

(* What orders the routes to d while they change: a request or reply of d   *)
(* in flight is no fresher than the route of the node it was sent by, so    *)
(* whoever installs it points at a strictly fresher entry, whenever it      *)
(* arrives.  handleRREQ and handleRREP update the table before they relay.  *)
Covered(p, s) ==
  LET n == p.from[1]
      dst == p.m.src
  IN  (dst \notin spoiled /\ n # dst) =>
        dst \in DOMAIN rt[n] /\ AtLeast(rt[n][dst], s, p.m.hops)

FreshnessOrder ==
  /\ \A p \in Requests : Covered(p, p.m.srcSeq)
  /\ \A p \in Replies : Covered(p, p.m.dstSeq)
  /\ \A p \in Requests \cup Replies : p.m.hops = HopSpace - 1 => p.m.src \in spoiled
  /\ DownstreamFresher

(* No set of nodes other than d passes messages for d around among itself. *)
NoLoopFor(d) ==
  ~ \E S \in SUBSET (Node \ {d}) :
      /\ S # {}
      /\ \A n \in S : d \in DOMAIN rt[n] /\ NextHop(n, d) \in S

(* As long as nothing was forgotten about d, the routes to d are free of    *)
(* loops, in whatever order datagrams arrive, are lost or duplicated.       *)
LoopFree == \A d \in Node \ spoiled : NoLoopFor(d)

(* No route loops, whatever has happened: docs/README.md:146, "Sequence     *)
(* numbers and hop counts prevent loops".                                   *)
NeverALoop == \A d \in Node : NoLoopFor(d)

(* A reply or message sent to the next hop of a route finds a route there:  *)
(* sendToAddr in handleRREP, handleDATA and SendData never feeds a black    *)
(* hole, unless some node has forgotten a route to the target.              *)
NoBlackHole ==
  \A p \in net :
    (p.m.type \in {"RREP", "DATA"} /\ p.to # p.m.dst /\ p.m.dst \notin spoiled)
      => p.m.dst \in DOMAIN rt[p.to]

-----------------------------------------------------------------------------
(* Where a message a user asked for may be: queued, in flight, delivered. *)
Copies(n, d, x) ==
  Cardinality({i \in DOMAIN pend[n][d] : pend[n][d][i] = x})
  + Cardinality({p \in net : /\ p.m.type = "DATA" /\ p.m.src = n
                             /\ p.m.dst = d /\ p.m.payload = x})
  + Cardinality({i \in DOMAIN inbox[d] : inbox[d][i] = <<n, x>>})

Unspent(B) == \A b \in B : left[b] = Limit[b]

(* Unless a datagram is duplicated, a message is never in two places: what  *)
(* the flush in handleRREP takes it also removes, and SendData either sends *)
(* or queues.  docs/README.md:144, "it drains its pending queue".           *)
AtMostOneCopy ==
  Unspent({"duplicate"}) => \A o \in Offered : Copies(o[1], o[2], o[3]) <= 1

(* Without faults no message is lost: it is queued, in flight or delivered  *)
(* from the moment SendData returns.                                        *)
NothingLost ==
  Unspent({"lose", "duplicate", "expire", "silence", "restart"})
    => \A o \in asked : Copies(o[1], o[2], o[3]) = 1

(* Datagram p carries message x from n to d. *)
Carries(p, n, d, x) ==
  p.m.type = "DATA" /\ p.m.src = n /\ p.m.dst = d /\ p.m.payload = x

Present(n, d, x) ==
  \/ \E i \in DOMAIN pend[n][d] : pend[n][d][i] = x
  \/ \E p \in net : Carries(p, n, d, x)
  \/ \E i \in DOMAIN inbox[d] : inbox[d][i] = <<n, x>>

(* The mesh itself loses a message only when its time to live runs out or a *)
(* route to its destination is forgotten: whatever SendData, the flush in   *)
(* handleRREP or a relay in handleDATA sends to a next hop leads on there,  *)
(* over any topology and with entries that are replaced on the way.         *)
MessageKept ==
  [][\A o \in asked' :
       (/\ o \in asked => Present(o[1], o[2], o[3])
        /\ o[2] \notin spoiled' /\ ~Spend("lose") /\ ~Spend("restart"))
         => \/ Present(o[1], o[2], o[3])'
            \/ \E p \in net : Carries(p, o[1], o[2], o[3]) /\ p.m.ttl <= 1]_vars

(* A request relayed by a node is never one it accepted before: the flood   *)
(* of one broadcast id crosses each node once (seenRREQs in handleRREQ).    *)
FloodsOnce ==
  [][\A n \in Node : \A p \in net :
       (p.to = n /\ RelayRREQ(n, p))
         => <<p.m.src, p.m.dst, p.m.bid>> \notin accepted[n]]_vars

(* The newest request of a node is never mistaken for a duplicate: whoever  *)
(* would decline it has accepted it.                                        *)
NewestRequestHeard ==
  \A p \in Requests :
    (/\ p.m.src # p.to /\ p.m.src \notin spoiled
     /\ p.m.bid = seqNum[p.m.src] /\ Duplicate(p.to, p.m))
      => <<p.m.src, p.m.dst, p.m.bid>> \in accepted[p.to]

(* A search does not go further than TTL hops: docs/README.md:127 "Max      *)
(* hops", the guard of the rebroadcast in handleRREQ.                       *)
SearchWithinTTL == \A p \in Requests : p.m.hops < TTL /\ p.m.hops + p.m.ttl = TTL

-----------------------------------------------------------------------------
(* Without faults the mesh implements Delivery: every message a user asked  *)
(* for arrives, once and nothing else does.  SendData queues before it      *)
(* searches, and the reply drains the queue.                                *)
Service == INSTANCE Delivery WITH asked <- asked, inbox <- inbox

Delivered == Service!Spec

(* Faults may keep a message from arriving, but as long as nothing is       *)
(* duplicated and nobody restarts each step is one of the mesh's promise:   *)
(* what arrives was asked for, where it arrives, and has not arrived yet.   *)
(* handleDATA, and the queue that SendData fills and handleRREP drains.     *)
DeliversOnce ==
  [][Unspent({"duplicate", "restart"})' => Service!Next \/ UNCHANGED Service!vars]_vars

(* An RERR reaches whoever still relies on the reporter: a node whose       *)
(* message arrives at a next hop without a route does not keep that route.  *)
(* RejectDATA in handleDATA, handleRERR.                                    *)
Misdirected(n, m, d) ==
  /\ \E p \in net : p.m.type = "DATA" /\ p.m.dst = d /\ p.to = m /\ p.from[1] = n
  /\ m # d /\ ~RouteFound(rt[m], d)

BrokenRouteForgotten ==
  \A n \in Node, m \in Node, d \in Node :
    Misdirected(n, m, d)
      ~> (d \notin DOMAIN rt[n] \/ NextHop(n, d) # m \/ RouteFound(rt[m], d))

(* The collector deletes every route through a neighbour it declares dead:  *)
(* docs/README.md:142, "any routes that used it as next hop are deleted".   *)
DeadHopForgotten ==
  [][\A n \in Node : CollectNeighbours(n) =>
       \A d \in DOMAIN rt'[n] :
         rt'[n][d].addr[1] \notin DOMAIN nbr[n] \ DOMAIN nbr'[n]]_vars

(* Queued messages have a lifetime: docs/README.md:128, "Route and cached-  *)
(* message lifetime (seconds)".                                             *)
QueueDrains ==
  \A n \in Node, d \in Node : pend[n][d] # <<>> ~> pend[n][d] = <<>>
=============================================================================
