----------------------------- MODULE OrderProofs -----------------------------
(* The freshness order of the routes holds in every mesh, whatever is lost, *)
(* duplicated or reordered: routes are free of loops, and no reply or       *)
(* message meets a node without a route, for every destination about which  *)
(* nothing has been forgotten.                                              *)
EXTENDS MeshProofs, FiniteSetTheorems

(* The inductive invariant. *)
FreshInv == TypeOK /\ FreshnessOrder /\ NoBlackHole

(* A reply or message p finds a route where it arrives. *)
Arriving(p) ==
  (p.m.type \in {"RREP", "DATA"} /\ p.to # p.m.dst /\ p.m.dst \notin spoiled)
    => p.m.dst \in DOMAIN rt[p.to]

(* What FreshInv says of one datagram. *)
Sound(p) ==
  /\ p.m.type = "RREQ" => Covered(p, p.m.srcSeq)
  /\ p.m.type = "RREP" => Covered(p, p.m.dstSeq)
  /\ Arriving(p)

(* Entries e and f tie in the order and lead to the same address. *)
Tie(e, f) == e.seq = f.seq /\ e.hops = f.hops /\ e.addr = f.addr

(* Table u has entries of t only, as far as the order goes. *)
SameOrder(u, t) == \A d \in DOMAIN u : d \in DOMAIN t /\ Tie(u[d], t[d])

(* Node m has a fresher entry for d than e. *)
Supports(m, d, e) == m # d => d \in DOMAIN rt[m] /\ Fresher(rt[m][d], e)

(* A step leaves the entries of a destination it does not spoil as they     *)
(* are, or replaces them by fresher ones that their next hop supports.      *)
OrderedStep ==
  \A n \in Node : \A d \in DOMAIN rt'[n] \ spoiled' :
    \/ d \in DOMAIN rt[n] /\ Tie(rt'[n][d], rt[n][d])
    \/ /\ d \in DOMAIN rt[n] => Fresher(rt'[n][d], rt[n][d])
       /\ Supports(rt'[n][d].addr[1], d, rt'[n][d])

-----------------------------------------------------------------------------
(* Entries of a routes table have natural numbers to compare, and lead to   *)
(* a node.                                                                  *)
LEMMA EntryNumbers ==
  ASSUME NEW f, AreTables(f, Node, Node, RouteEntry), NEW n \in Node, NEW d \in DOMAIN f[n]
  PROVE  /\ d \in Node /\ f[n][d] \in RouteEntry
         /\ f[n][d].seq \in Nat /\ f[n][d].hops \in Nat
         /\ f[n][d].addr[1] \in Node
<1>1. IsTable(f[n], Node, RouteEntry) BY TableOf
<1>2. d \in Node /\ f[n][d] \in RouteEntry BY <1>1 DEF IsTable
<1>3. /\ f[n][d].seq \in Seqs /\ f[n][d].hops \in Byte /\ f[n][d].addr \in Address
  BY <1>2 DEF RouteEntry
<1>4. QED BY <1>2, <1>3, MeshAssumption DEF Seqs, Byte, Address

(* TrackOrder notes every destination whose entry disappears, and forgets   *)
(* nothing it has noted.                                                    *)
LEMMA Forgotten ==
  ASSUME TypeOK, TrackOrder
  PROVE  /\ spoiled \subseteq spoiled'
         /\ \A n \in Node : \A d \in DOMAIN rt[n] : d \in DOMAIN rt'[n] \/ d \in spoiled'
BY EntryNumbers DEF TrackOrder, TypeOK

(* An entry never gets less fresh. *)
LEMMA Monotone ==
  ASSUME TypeOK, TypeOK', TrackOrder, OrderedStep,
         NEW n \in Node, NEW d \in DOMAIN rt[n], d \notin spoiled'
  PROVE  /\ d \in DOMAIN rt'[n]
         /\ Tie(rt'[n][d], rt[n][d]) \/ Fresher(rt'[n][d], rt[n][d])
BY Forgotten DEF OrderedStep

(* Whoever covers a sequence number and hop count goes on to do so. *)
LEMMA CoverLasts ==
  ASSUME TypeOK, TypeOK', TrackOrder, OrderedStep,
         NEW n \in Node, NEW d \in DOMAIN rt[n], d \notin spoiled',
         NEW s \in Nat, NEW h \in Nat, AtLeast(rt[n][d], s, h)
  PROVE  d \in DOMAIN rt'[n] /\ AtLeast(rt'[n][d], s, h)
<1>1. d \in DOMAIN rt'[n] /\ (Tie(rt'[n][d], rt[n][d]) \/ Fresher(rt'[n][d], rt[n][d]))
  BY Monotone
<1>2. /\ rt[n][d].seq \in Nat /\ rt[n][d].hops \in Nat
      /\ rt'[n][d].seq \in Nat /\ rt'[n][d].hops \in Nat
  BY <1>1, EntryNumbers DEF TypeOK
<1>3. QED BY <1>1, <1>2 DEF Tie, Fresher, AtLeast

(* After an ordered step every next hop is still strictly fresher. *)
LEMMA DownstreamStep ==
  ASSUME FreshInv, TypeOK', TrackOrder, OrderedStep
  PROVE  DownstreamFresher'
<1> SUFFICES ASSUME NEW n \in Node, NEW d \in DOMAIN rt'[n], d \notin spoiled',
                    NEW m, m = rt'[n][d].addr[1], m # d
             PROVE  d \in DOMAIN rt'[m] /\ Fresher(rt'[m][d], rt'[n][d])
  BY DEF DownstreamFresher, NextHop
<1>1. TypeOK /\ DownstreamFresher /\ d \notin spoiled
  BY Forgotten DEF FreshInv, FreshnessOrder
<1>2. /\ d \in Node /\ m \in Node
      /\ rt'[n][d].seq \in Nat /\ rt'[n][d].hops \in Nat
  BY EntryNumbers DEF TypeOK
<1>3. d \in DOMAIN rt[m] /\ Fresher(rt[m][d], rt'[n][d])
  <2>1. CASE d \in DOMAIN rt[n] /\ Tie(rt'[n][d], rt[n][d])
    BY <1>1, <2>1 DEF DownstreamFresher, NextHop, Tie, Fresher
  <2>2. CASE Supports(m, d, rt'[n][d])
    BY <2>2 DEF Supports
  <2>3. QED BY <2>1, <2>2 DEF OrderedStep
<1>4. /\ d \in DOMAIN rt'[m]
      /\ Tie(rt'[m][d], rt[m][d]) \/ Fresher(rt'[m][d], rt[m][d])
  BY <1>1, <1>2, <1>3, Monotone
<1>5. /\ rt[m][d].seq \in Nat /\ rt[m][d].hops \in Nat
      /\ rt'[m][d].seq \in Nat /\ rt'[m][d].hops \in Nat
  BY <1>1, <1>2, <1>3, <1>4, EntryNumbers DEF TypeOK
<1>6. Fresher(rt'[m][d], rt'[n][d])
  <2>1. CASE Tie(rt'[m][d], rt[m][d])
    BY <1>3, <2>1 DEF Tie, Fresher
  <2>2. CASE Fresher(rt'[m][d], rt[m][d])
    BY <1>2, <1>3, <1>5, <2>2, FresherTransitive
  <2>3. QED BY <1>4, <2>1, <2>2
<1>7. QED BY <1>4, <1>6

(* Numbers of requests and replies in flight can be compared. *)
LEMMA DatagramNumbers ==
  ASSUME TypeOK, NEW p \in net
  PROVE  /\ p \in Datagram /\ p.to \in Node /\ p.from[1] \in Node
         /\ p.m.src \in Node
         /\ p.m.type = "RREQ" => p.m.srcSeq \in Nat /\ p.m.hops \in Nat /\ p.m.hops < HopSpace
         /\ p.m.type = "RREP" => p.m.dstSeq \in Nat /\ p.m.hops \in Nat /\ p.m.hops < HopSpace
<1>1. p \in Datagram BY DEF TypeOK
<1>2. /\ p.to \in Node /\ p.from \in Address /\ p.m.src \in Node
      /\ p.m.type = "RREQ" => p.m \in RREQ
      /\ p.m.type = "RREP" => p.m \in RREP
  BY <1>1, MessageFields
<1>3. QED BY <1>1, <1>2, MeshAssumption DEF RREQ, RREP, Seqs, Byte, Address

(* What was sound before an ordered step is sound after it. *)
LEMMA SoundLasts ==
  ASSUME FreshInv, TypeOK', TrackOrder, OrderedStep, NEW p \in net
  PROVE  Sound(p)'
<1>1. TypeOK /\ spoiled \subseteq spoiled' BY Forgotten DEF FreshInv
<1>2. /\ p.from[1] \in Node /\ p.to \in Node
      /\ p.m.type = "RREQ" => p.m.srcSeq \in Nat /\ p.m.hops \in Nat
      /\ p.m.type = "RREP" => p.m.dstSeq \in Nat /\ p.m.hops \in Nat
  BY <1>1, DatagramNumbers
<1>3. p.m.type = "RREQ" => Covered(p, p.m.srcSeq)'
  BY <1>1, <1>2, CoverLasts DEF Covered, FreshInv, FreshnessOrder, Requests
<1>4. p.m.type = "RREP" => Covered(p, p.m.dstSeq)'
  BY <1>1, <1>2, CoverLasts DEF Covered, FreshInv, FreshnessOrder, Replies
<1>5. Arriving(p)'
  BY <1>1, <1>2, Forgotten DEF Arriving, FreshInv, NoBlackHole
<1>6. QED BY <1>3, <1>4, <1>5 DEF Sound

(* An ordered step that sends sound datagrams keeps the invariant. *)
LEMMA FreshStep ==
  ASSUME FreshInv, TypeOK', TrackOrder, OrderedStep,
         \A p \in net' : p \in net \/ Sound(p)'
  PROVE  FreshInv'
<1>1. \A p \in net' : Sound(p)'
  BY SoundLasts
<1>2. NoBlackHole'
  BY <1>1 DEF Sound, Arriving, NoBlackHole
<1>3. /\ \A p \in Requests' : Covered(p, p.m.srcSeq)'
      /\ \A p \in Replies' : Covered(p, p.m.dstSeq)'
  BY <1>1 DEF Sound, Requests, Replies
<1>4. \A p \in Requests' \cup Replies' : p.m.hops = HopSpace - 1 => p.m.src \in spoiled'
  <2>1. \A p \in net' : p.m.src \in Node
    BY MessageFields DEF TypeOK
  <2>2. QED BY <2>1 DEF Requests, Replies, TrackOrder
<1>5. QED BY <1>2, <1>3, <1>4, DownstreamStep DEF FreshInv, FreshnessOrder

-----------------------------------------------------------------------------
(* The table operators keep the order. *)

(* AddPrecursor, a lookup that may delete, a deletion and an expiry change  *)
(* neither freshness nor direction of the entries they leave.               *)
LEMMA SameOrderOperators ==
  ASSUME NEW t, IsTable(t, Node, RouteEntry), NEW d, NEW K, NEW q
  PROVE  /\ SameOrder(t, t)
         /\ SameOrder(AddPrecursor(t, d, q), t)
         /\ SameOrder(AfterFindRoute(t, d), t)
         /\ SameOrder(DeleteAll(t, K), t)
         /\ d \in DOMAIN t => SameOrder([t EXCEPT ![d].live = FALSE], t)
<1>1. SameOrder(t, t) BY DEF SameOrder, Tie
<1>2. SameOrder(DeleteAll(t, K), t) /\ SameOrder(DeleteAll(t, {d}), t)
  BY DEF SameOrder, Tie, DeleteAll
<1>3. SameOrder(AfterFindRoute(t, d), t)
  BY <1>1, <1>2 DEF AfterFindRoute, Delete
<1>4. \A e \in DOMAIN t : t[e] \in RouteEntry
  BY DEF IsTable
<1>5. SameOrder(AddPrecursor(t, d, q), t)
  BY <1>1, <1>4 DEF AddPrecursor, SameOrder, Tie, RouteEntry
<1>6. d \in DOMAIN t => SameOrder([t EXCEPT ![d].live = FALSE], t)
  BY <1>4 DEF SameOrder, Tie, RouteEntry
<1>7. QED BY <1>1, <1>2, <1>3, <1>5, <1>6

(* UpdateRoute replaces only the entry it is given one for, only by a       *)
(* fresher one, and afterwards covers what was offered.                     *)
LEMMA UpdateRouteOrder ==
  ASSUME NEW t, IsTable(t, Node, RouteEntry), NEW d \in Node, NEW e \in RouteEntry
  PROVE  /\ \A x \in DOMAIN UpdateRoute(t, d, e) :
              \/ x \in DOMAIN t /\ Tie(UpdateRoute(t, d, e)[x], t[x])
              \/ /\ x = d /\ Tie(UpdateRoute(t, d, e)[x], e)
                 /\ x \in DOMAIN t => Fresher(e, t[x])
         /\ d \in DOMAIN UpdateRoute(t, d, e)
         /\ AtLeast(UpdateRoute(t, d, e)[d], e.seq, e.hops)
<1> DEFINE u == UpdateRoute(t, d, e)
           f == [e EXCEPT !.pre = t[d].pre]
<1>1. Tie(f, e) /\ Tie(e, e)
  BY DEF Tie, RouteEntry
<1>2. e.seq \in Nat /\ e.hops \in Nat
  BY MeshAssumption DEF RouteEntry, Seqs, Byte
<1>3. CASE d \notin DOMAIN t
  <2>1. u = Put(t, d, e) BY <1>3 DEF UpdateRoute
  <2>2. u[d] = e /\ d \in DOMAIN u /\ \A x \in DOMAIN u : x # d => x \in DOMAIN t /\ u[x] = t[x]
    BY <2>1 DEF Put
  <2>3. AtLeast(u[d], e.seq, e.hops)
    BY <1>2, <2>2 DEF AtLeast
  <2>4. \A x \in DOMAIN u : x = d \/ (x \in DOMAIN t /\ Tie(u[x], t[x]))
    BY <2>2 DEF Tie
  <2>5. QED BY <1>1, <1>3, <2>2, <2>3, <2>4
<1>4. CASE d \in DOMAIN t /\ Fresher(e, t[d])
  <2>1. u = Put(t, d, f) BY <1>4 DEF UpdateRoute
  <2>2. u[d] = f /\ d \in DOMAIN u /\ \A x \in DOMAIN u : x # d => x \in DOMAIN t /\ u[x] = t[x]
    BY <2>1 DEF Put
  <2>3. AtLeast(u[d], e.seq, e.hops)
    BY <1>1, <1>2, <2>2 DEF AtLeast, Tie
  <2>4. \A x \in DOMAIN u : x = d \/ (x \in DOMAIN t /\ Tie(u[x], t[x]))
    BY <2>2 DEF Tie
  <2>5. QED BY <1>1, <1>4, <2>2, <2>3, <2>4
<1>5. CASE d \in DOMAIN t /\ ~Fresher(e, t[d])
  <2>1. u = t BY <1>5 DEF UpdateRoute
  <2>2. t[d].seq \in Nat /\ t[d].hops \in Nat
    BY <1>5, MeshAssumption DEF IsTable, RouteEntry, Seqs, Byte
  <2>3. \A x \in DOMAIN u : x \in DOMAIN t /\ Tie(u[x], t[x])
    BY <2>1 DEF Tie
  <2>4. AtLeast(u[d], e.seq, e.hops)
    BY <1>2, <1>5, <2>1, <2>2 DEF AtLeast, Fresher
  <2>5. QED BY <1>5, <2>1, <2>3, <2>4
<1>6. QED BY <1>3, <1>4, <1>5

(* A step that changes one table and keeps the order of what it leaves.     *)
LEMMA OrderedBySame ==
  ASSUME TypeOK, NEW n \in Node, NEW u, rt' = [rt EXCEPT ![n] = u], SameOrder(u, rt[n])
  PROVE  OrderedStep
BY DEF TypeOK, AreTables, OrderedStep, SameOrder, Tie

(* A step that leaves the tables alone. *)
LEMMA OrderedByNothing ==
  ASSUME TypeOK, UNCHANGED rt
  PROVE  OrderedStep
BY DEF TypeOK, AreTables, OrderedStep, Tie

(* A step that offers one node a supported entry. *)
LEMMA OrderedByUpdate ==
  ASSUME TypeOK, NEW n \in Node, NEW u, NEW d \in Node, NEW e \in RouteEntry,
         rt' = [rt EXCEPT ![n] = u], SameOrder(u, UpdateRoute(rt[n], d, e)),
         d \in spoiled' \/ Supports(e.addr[1], d, e)
  PROVE  OrderedStep
<1> DEFINE t == UpdateRoute(rt[n], d, e)
<1>1. \A x \in DOMAIN t :
        \/ x \in DOMAIN rt[n] /\ Tie(t[x], rt[n][x])
        \/ x = d /\ Tie(t[x], e) /\ (x \in DOMAIN rt[n] => Fresher(e, rt[n][x]))
  BY TableOf, UpdateRouteOrder DEF TypeOK
<1> HIDE DEF t
<1>2. SUFFICES ASSUME NEW m \in Node, NEW x \in DOMAIN rt'[m] \ spoiled'
      PROVE  \/ x \in DOMAIN rt[m] /\ Tie(rt'[m][x], rt[m][x])
             \/ /\ x \in DOMAIN rt[m] => Fresher(rt'[m][x], rt[m][x])
                /\ Supports(rt'[m][x].addr[1], x, rt'[m][x])
  BY DEF OrderedStep
<1>3. CASE m # n
  BY <1>3 DEF Tie, TypeOK, AreTables
<1>4. CASE m = n
  <2>1. rt'[m] = u BY <1>4 DEF TypeOK, AreTables
  <2>2. x \in DOMAIN t /\ Tie(u[x], t[x])
    BY <2>1 DEF SameOrder, t
  <2>3. CASE x \in DOMAIN rt[n] /\ Tie(t[x], rt[n][x])
    BY <1>4, <2>1, <2>2, <2>3 DEF Tie
  <2>4. CASE x = d /\ Tie(t[x], e) /\ (x \in DOMAIN rt[n] => Fresher(e, rt[n][x]))
    <3>1. Tie(u[x], e) BY <2>2, <2>4 DEF Tie
    <3>2. x \in DOMAIN rt[n] => Fresher(u[x], rt[n][x])
      BY <2>4, <3>1 DEF Tie, Fresher
    <3>3. Supports(u[x].addr[1], x, u[x])
      BY <2>4, <3>1 DEF Tie, Supports, Fresher
    <3>4. QED BY <1>4, <2>1, <3>2, <3>3
  <2>5. QED BY <1>1, <2>2, <2>3, <2>4
<1>5. QED BY <1>3, <1>4

-----------------------------------------------------------------------------
(* What is sent. *)

(* Handling a datagram adds to the network what the handler sends. *)
LEMMA ConsumeAdds ==
  ASSUME NEW p, NEW out, Consume(p, out)
  PROVE  \A q \in net' : q \in net \/ q \in out
BY DEF Consume

(* A broadcast carries the message and its sender. *)
LEMMA BroadcastFields ==
  ASSUME NEW n \in Node, NEW m, NEW q \in Broadcast(n, m)
  PROVE  q.m = m /\ q.from[1] = n
BY DEF Broadcast

(* A unicast carries the message and its sender to the owner of the address. *)
LEMMA SendToAddrFields ==
  ASSUME NEW n, NEW m, NEW a, NEW i, NEW q \in SendToAddr(n, m, a, i)
  PROVE  q.m = m /\ q.from[1] = n /\ q.to = a[1]
BY DEF SendToAddr

(* Errors are neither requests nor replies nor data. *)
LEMMA NotifyFields ==
  ASSUME NEW n, NEW table, NEW d
  PROVE  /\ \A x : \A q \in SendRERR(n, table, x, d) : q.m.type = "RERR"
         /\ \A q \in NotifyPrecursors(n, table, d) : q.m.type = "RERR"
<1>1. \A x : \A q \in SendRERR(n, table, x, d) : q.m.type = "RERR"
  BY SendToAddrFields DEF SendRERR
<1>2. QED BY <1>1 DEF NotifyPrecursors

(* A node's own request is sound. *)
LEMMA OwnRequest ==
  ASSUME NEW n \in Node, NEW d, NEW k, NEW q \in Broadcast(n, NewRREQ(n, d, k))
  PROVE  Sound(q)'
<1>1. q.m = NewRREQ(n, d, k) /\ q.from[1] = n
  BY BroadcastFields
<1>2. q.m.type = "RREQ" /\ q.m.src = n
  BY <1>1 DEF NewRREQ
<1>3. QED BY <1>1, <1>2 DEF Sound, Covered, Arriving

(* What leaves along a route of the state it is sent in arrives at a route. *)
LEMMA AlongOldRoute ==
  ASSUME FreshInv, TrackOrder, NEW n \in Node, NEW d \in DOMAIN rt[n],
         NEW q, q.m.dst = d, q.to = rt[n][d].addr[1]
  PROVE  Arriving(q)'
<1>1. TypeOK /\ DownstreamFresher
  BY DEF FreshInv, FreshnessOrder
<1>2. q.to \in Node
  BY <1>1, EntryNumbers DEF TypeOK
<1>3. spoiled \subseteq spoiled' /\ (d \in DOMAIN rt[q.to] => d \in DOMAIN rt'[q.to] \/ d \in spoiled')
  BY <1>1, <1>2, Forgotten
<1>4. QED BY <1>1, <1>2, <1>3 DEF DownstreamFresher, NextHop, Arriving

(* The same for a route installed by the step that sends it. *)
LEMMA AlongNewRoute ==
  ASSUME DownstreamFresher', NEW n \in Node, NEW d \in DOMAIN rt'[n],
         NEW q, q.m.dst = d, q.to = rt'[n][d].addr[1]
  PROVE  Arriving(q)'
BY DEF DownstreamFresher, NextHop, Arriving

(* The entry a request or reply offers is supported by whoever sent it. *)
LEMMA OfferSupported ==
  ASSUME FreshInv, TrackOrder, NEW p \in net, NEW s,
         \/ p.m.type = "RREQ" /\ s = p.m.srcSeq
         \/ p.m.type = "RREP" /\ s = p.m.dstSeq,
         NEW e, e.seq = s, e.hops = (p.m.hops + 1) % HopSpace
  PROVE  p.m.src \in spoiled' \/ Supports(p.from[1], p.m.src, e)
<1> SUFFICES ASSUME p.m.src \notin spoiled', p.from[1] # p.m.src
             PROVE  /\ p.m.src \in DOMAIN rt[p.from[1]]
                    /\ Fresher(rt[p.from[1]][p.m.src], e)
  BY DEF Supports
<1>1. TypeOK /\ FreshnessOrder /\ p.m.src \notin spoiled
  BY Forgotten DEF FreshInv
<1>2. /\ p.from[1] \in Node /\ s \in Nat
      /\ p.m.hops \in Nat /\ p.m.hops < HopSpace /\ p.m.hops # HopSpace - 1
  BY <1>1, DatagramNumbers DEF FreshnessOrder, Requests, Replies
<1>3. e.hops = p.m.hops + 1
  BY <1>2, MeshAssumption
<1>4. /\ p.m.src \in DOMAIN rt[p.from[1]]
      /\ AtLeast(rt[p.from[1]][p.m.src], s, p.m.hops)
  BY <1>1 DEF FreshnessOrder, Covered, Requests, Replies
<1>5. /\ rt[p.from[1]][p.m.src].seq \in Nat
      /\ rt[p.from[1]][p.m.src].hops \in Nat
  BY <1>1, <1>2, <1>4, EntryNumbers DEF TypeOK
<1>6. Fresher(rt[p.from[1]][p.m.src], e)
  <2> DEFINE r == rt[p.from[1]][p.m.src]
  <2>1. r.seq > s \/ (r.seq = s /\ r.hops <= p.m.hops)
    BY <1>4 DEF AtLeast
  <2>2. r.seq \in Nat /\ r.hops \in Nat
    BY <1>5
  <2> HIDE DEF r
  <2>3. r.hops <= p.m.hops => r.hops < e.hops
    BY <1>2, <1>3, <2>2
  <2>4. Fresher(r, e)
    BY <2>1, <2>3 DEF Fresher
  <2>5. QED BY <2>4 DEF r
<1>7. QED BY <1>4, <1>6

(* What relays the news of d that a node has just been offered is covered   *)
(* by what the node has made of it.                                         *)
LEMMA RelayCovered ==
  ASSUME NEW n \in Node, NEW t, IsTable(t, Node, RouteEntry), NEW d \in Node,
         NEW e \in RouteEntry,
         NEW u, rt' = [rt EXCEPT ![n] = u], rt = [m \in Node |-> rt[m]],
         d \in DOMAIN u, SameOrder(u, UpdateRoute(t, d, e)),
         NEW q, q.from[1] = n, q.m.src = d, q.m.hops = e.hops
  PROVE  Covered(q, e.seq)'
<1>1. Tie(u[d], UpdateRoute(t, d, e)[d]) /\ AtLeast(UpdateRoute(t, d, e)[d], e.seq, e.hops)
  BY UpdateRouteOrder DEF SameOrder
<1>2. AtLeast(u[d], e.seq, e.hops)
  BY <1>1 DEF Tie, AtLeast
<1>3. rt'[n] = u OBVIOUS
<1>4. QED BY <1>2, <1>3 DEF Covered, AtLeast

-----------------------------------------------------------------------------
(* Each step keeps the invariant. *)

(* Steps that leave the routes alone and send at most HELLOs. *)
LEMMA QuietFresh ==
  ASSUME FreshInv, TypeOK', TrackOrder, UNCHANGED rt,
         \A p \in net' : p \in net \/ p.m.type = "HELLO"
  PROVE  FreshInv'
<1>1. OrderedStep BY OrderedByNothing DEF FreshInv
<1>2. \A p \in net' : p \in net \/ Sound(p)' BY DEF Sound, Arriving
<1>3. QED BY <1>1, <1>2, FreshStep

(* Steps that change one table without changing the order of what they      *)
(* leave in it, and send errors or requests of the node's own.              *)
LEMMA SameFresh ==
  ASSUME FreshInv, TypeOK', TrackOrder, NEW n \in Node,
         NEW u, rt' = [rt EXCEPT ![n] = u], SameOrder(u, rt[n]),
         \A p \in net' : p \in net \/ p.m.type = "RERR" \/ Sound(p)'
  PROVE  FreshInv'
<1>1. OrderedStep BY OrderedBySame DEF FreshInv
<1>2. \A p \in net' : p \in net \/ Sound(p)' BY DEF Sound, Arriving
<1>3. QED BY <1>1, <1>2, FreshStep

(* Requests: whether answered, relayed or dropped, the reverse route is     *)
(* supported by the sender, the relayed request is covered by the reverse   *)
(* route, and the reply goes back to a node that has one.                   *)
LEMMA AcceptedFresh ==
  ASSUME FreshInv, TypeOK', NEW n \in Node, NEW p \in net,
         AnswerRREQ(n, p) \/ RelayRREQ(n, p) \/ DropRREQ(n, p)
  PROVE  FreshInv'
<1> DEFINE d == p.m.src
<1>1. TrackOrder /\ AcceptRREQ(n, p) /\ p.m.type = "RREQ"
  BY DEF AnswerRREQ, RelayRREQ, DropRREQ, AcceptRREQ
<1>2. TypeOK BY DEF FreshInv
<1>3. PICK hop \in Sender(n, p) :
        rt' = [rt EXCEPT ![n] = UpdateRoute(@, p.m.src,
               [seq |-> p.m.srcSeq, hops |-> (p.m.hops + 1) % HopSpace,
                next |-> hop, addr |-> p.from, iface |-> p.from[2],
                live |-> TRUE, pre |-> {}])]
  BY <1>1 DEF AcceptRREQ
<1> DEFINE e == [seq |-> p.m.srcSeq, hops |-> (p.m.hops + 1) % HopSpace,
                 next |-> hop, addr |-> p.from, iface |-> p.from[2],
                 live |-> TRUE, pre |-> {}]
           u == UpdateRoute(rt[n], d, e)
<1>4. p.m \in RREQ /\ p.from \in Address /\ d \in Node
  BY <1>1, <1>2, MessageFields DEF TypeOK
<1>5. e \in RouteEntry
  BY <1>2, <1>4, SenderType, NewRouteType DEF RREQ
<1>6. e.seq = p.m.srcSeq /\ e.hops = (p.m.hops + 1) % HopSpace /\ e.addr = p.from
  OBVIOUS
<1> HIDE DEF e
<1>7. IsTable(rt[n], Node, RouteEntry) /\ rt = [m \in Node |-> rt[m]]
  BY <1>2, TableOf DEF TypeOK, AreTables
<1>8. rt' = [rt EXCEPT ![n] = u]
  BY <1>3 DEF e
<1>9. SameOrder(u, u) /\ d \in DOMAIN u
  BY <1>4, <1>5, <1>7, UpdateRouteOrder DEF SameOrder, Tie
<1>10. OrderedStep
  <2>1. d \in spoiled' \/ Supports(e.addr[1], d, e)
    BY <1>1, <1>6, OfferSupported
  <2>2. QED BY <1>2, <1>4, <1>5, <1>8, <1>9, <2>1, OrderedByUpdate
<1>11. \A q \in net' : q \in net \/ Sound(q)'
  <2>1. CASE AnswerRREQ(n, p)
    <3>1. SUFFICES ASSUME NEW q \in SendToAddr(n,
                            [type |-> "RREP", src |-> n, dst |-> p.m.src,
                             dstSeq |-> SeqAfter(n, 1), hops |-> 0], p.from, p.from[2])
                   PROVE  Sound(q)'
      BY <2>1, ConsumeAdds DEF AnswerRREQ
    <3>2. /\ q.m.type = "RREP" /\ q.m.src = n /\ q.m.dst = d
          /\ q.from[1] = n /\ q.to = p.from[1]
      BY SendToAddrFields
    <3>3. Arriving(q)'
      <4>1. p.from[1] \in Node
        BY <1>2, DatagramNumbers
      <4>2. (p.from[1] # d /\ d \notin spoiled) => d \in DOMAIN rt[p.from[1]]
        BY <1>1 DEF FreshInv, FreshnessOrder, Covered, Requests
      <4>3. QED BY <1>1, <1>2, <3>2, <4>1, <4>2, Forgotten DEF Arriving
    <3>4. QED BY <3>2, <3>3 DEF Sound, Covered
  <2>2. CASE RelayRREQ(n, p)
    <3>1. SUFFICES ASSUME NEW q \in Broadcast(n, [p.m EXCEPT !.ttl = @ - 1,
                                                   !.hops = (@ + 1) % HopSpace])
                   PROVE  Sound(q)'
      BY <2>2, ConsumeAdds DEF RelayRREQ
    <3>2. /\ q.m = [p.m EXCEPT !.ttl = @ - 1, !.hops = (@ + 1) % HopSpace]
          /\ q.from[1] = n
      BY BroadcastFields
    <3>3. /\ q.m.type = "RREQ" /\ q.m.src = d /\ q.m.hops = e.hops
          /\ q.m.srcSeq = e.seq
      BY <1>1, <1>4, <1>6, <3>2 DEF RREQ
    <3>4. Covered(q, e.seq)'
      BY <1>4, <1>5, <1>7, <1>8, <1>9, <3>2, <3>3, RelayCovered
    <3>5. QED BY <3>3, <3>4 DEF Sound, Arriving, Covered
  <2>3. CASE DropRREQ(n, p)
    BY <2>3, ConsumeAdds DEF DropRREQ
  <2>4. QED BY <2>1, <2>2, <2>3
<1>12. QED BY <1>1, <1>10, <1>11, FreshStep

(* What all three treatments of a reply have in common: the forward route   *)
(* they install is supported by the sender of the reply.                    *)
LEMMA ReplyOrdered ==
  ASSUME FreshInv, TrackOrder, NEW n \in Node, NEW p \in net, p.m.type = "RREP",
         NEW hop \in Sender(n, p), NEW u, rt' = [rt EXCEPT ![n] = u],
         SameOrder(u, WithForwardRoute(n, p, hop))
  PROVE  /\ OrderedStep
         /\ p.m.src \in DOMAIN u =>
              \A q : (/\ q.from[1] = n /\ q.m.src = p.m.src /\ q.m.dstSeq = p.m.dstSeq
                      /\ q.m.hops = (p.m.hops + 1) % HopSpace)
                     => Covered(q, q.m.dstSeq)'
<1> DEFINE d == p.m.src
           e == [seq |-> p.m.dstSeq, hops |-> (p.m.hops + 1) % HopSpace,
                 next |-> hop, addr |-> p.from, iface |-> p.from[2],
                 live |-> TRUE, pre |-> {}]
<1>1. TypeOK BY DEF FreshInv
<1>2. p.m \in RREP /\ p.from \in Address /\ d \in Node
  BY <1>1, ReplyFields
<1>3. e \in RouteEntry
  BY <1>1, <1>2, SenderType, NewRouteType DEF RREP
<1>4. e.seq = p.m.dstSeq /\ e.hops = (p.m.hops + 1) % HopSpace /\ e.addr = p.from
  OBVIOUS
<1>5. WithForwardRoute(n, p, hop) = UpdateRoute(rt[n], d, e)
  BY DEF WithForwardRoute
<1> HIDE DEF e
<1>6. IsTable(rt[n], Node, RouteEntry) /\ rt = [m \in Node |-> rt[m]]
  BY <1>1, TableOf DEF TypeOK, AreTables
<1>7. OrderedStep
  <2>1. d \in spoiled' \/ Supports(e.addr[1], d, e)
    BY <1>4, OfferSupported
  <2>2. QED BY <1>1, <1>2, <1>3, <1>5, <2>1, OrderedByUpdate
<1>8. ASSUME d \in DOMAIN u, NEW q, q.from[1] = n, q.m.src = d,
             q.m.dstSeq = p.m.dstSeq, q.m.hops = (p.m.hops + 1) % HopSpace
      PROVE  Covered(q, q.m.dstSeq)'
  <2>1. Covered(q, e.seq)'
    BY <1>2, <1>3, <1>4, <1>5, <1>6, <1>8, RelayCovered
  <2>2. QED BY <1>4, <1>8, <2>1 DEF Covered
<1>9. QED BY <1>7, <1>8

(* A reply passed on is covered by the relay's forward route and travels    *)
(* along a route to the requester.                                          *)
LEMMA RelayRREPFresh ==
  ASSUME FreshInv, TypeOK', NEW n \in Node, NEW p \in net, RelayRREP(n, p)
  PROVE  FreshInv'
<1>1. TrackOrder /\ p.m.type = "RREP"
  BY DEF RelayRREP
<1>2. TypeOK /\ p.m \in RREP /\ p \in Datagram
  BY <1>1, ReplyFields DEF FreshInv
<1>3. PICK hop \in Sender(n, p) :
        LET table == WithForwardRoute(n, p, hop)
            route == table[p.m.dst]
        IN  /\ RouteFound(table, p.m.dst)
            /\ rt' = [rt EXCEPT ![n] = AddPrecursor(table, p.m.src, route.next)]
            /\ Consume(p, SendToAddr(n, [p.m EXCEPT !.hops = (@ + 1) % HopSpace],
                                     route.addr, route.iface))
  BY DEF RelayRREP
<1> DEFINE table == WithForwardRoute(n, p, hop)
           route == table[p.m.dst]
           u == AddPrecursor(table, p.m.src, route.next)
<1>4. IsTable(table, Node, RouteEntry)
  BY <1>1, <1>2, WithForwardRouteType
<1>5. p.m.src \in DOMAIN table
  <2>1. p.m.src \in DOMAIN UpdateRoute(rt[n], p.m.src,
           [seq |-> p.m.dstSeq, hops |-> (p.m.hops + 1) % HopSpace,
            next |-> hop, addr |-> p.from, iface |-> p.from[2],
            live |-> TRUE, pre |-> {}])
    BY DEF UpdateRoute, Put
  <2>2. QED BY <2>1 DEF WithForwardRoute
<1>6. SameOrder(u, table)
  BY <1>4, SameOrderOperators
<1>7. DOMAIN u = DOMAIN table
  BY DEF AddPrecursor
<1>8. rt' = [rt EXCEPT ![n] = u] /\ p.m.dst \in DOMAIN table
  BY <1>3 DEF RouteFound
<1>9. OrderedStep
  BY <1>1, <1>6, <1>8, ReplyOrdered
<1>10. DownstreamFresher'
  BY <1>1, <1>9, DownstreamStep
<1>11. ASSUME NEW q \in SendToAddr(n, [p.m EXCEPT !.hops = (@ + 1) % HopSpace],
                                   route.addr, route.iface)
       PROVE  Sound(q)'
  <2>1. /\ q.m = [p.m EXCEPT !.hops = (@ + 1) % HopSpace]
        /\ q.from[1] = n /\ q.to = route.addr[1]
    BY <1>11, SendToAddrFields
  <2>2. /\ q.m.type = "RREP" /\ q.m.src = p.m.src /\ q.m.dst = p.m.dst
        /\ q.m.dstSeq = p.m.dstSeq /\ q.m.hops = (p.m.hops + 1) % HopSpace
    BY <1>1, <1>2, <2>1 DEF RREP
  <2>3. Covered(q, q.m.dstSeq)'
    BY <1>1, <1>5, <1>6, <1>7, <1>8, <2>1, <2>2, ReplyOrdered
  <2>4. rt'[n] = u
    BY <1>2, <1>8 DEF TypeOK, AreTables
  <2>5. p.m.dst \in DOMAIN rt'[n] /\ q.to = rt'[n][p.m.dst].addr[1]
    <3> HIDE DEF table, u
    <3>1. p.m.dst \in DOMAIN u
      BY <1>7, <1>8
    <3>2. u[p.m.dst].addr = table[p.m.dst].addr
      BY <1>6, <3>1 DEF SameOrder, Tie
    <3> QED BY <2>1, <2>4, <3>1, <3>2
  <2>6. Arriving(q)'
    BY <1>10, <2>2, <2>5, AlongNewRoute
  <2>7. QED BY <2>2, <2>3, <2>6 DEF Sound, Covered
<1>12. \A q \in net' : q \in net \/ Sound(q)'
  BY <1>3, <1>11, ConsumeAdds
<1>13. QED BY <1>1, <1>9, <1>12, FreshStep

(* A reply that ends at its requester releases messages along the route it  *)
(* has installed, or starts another search.                                 *)
LEMMA FinishRREPFresh ==
  ASSUME FreshInv, TypeOK', NEW n \in Node, NEW p \in net, FinishRREP(n, p)
  PROVE  FreshInv'
<1> DEFINE d == p.m.src
           k == Len(pend[n][d])
<1>1. TrackOrder /\ p.m.type = "RREP" /\ TypeOK
  BY DEF FinishRREP, FreshInv
<1>2. p \in Datagram
  BY <1>1 DEF TypeOK
<1>3. PICK hop \in Sender(n, p) :
        \/ /\ RouteFound(WithForwardRoute(n, p, hop), d)
           /\ rt' = [rt EXCEPT ![n] = WithForwardRoute(n, p, hop)]
           /\ Consume(p, UNION {SendToAddr(n, NewDATA(n, d, i, pend[n][d][i]),
                                           WithForwardRoute(n, p, hop)[d].addr,
                                           WithForwardRoute(n, p, hop)[d].iface) : i \in 1..k})
        \/ /\ rt' = [rt EXCEPT ![n] = AfterFindRoute(WithForwardRoute(n, p, hop), d)]
           /\ Consume(p, UNION {Broadcast(n, NewRREQ(n, d, i)) : i \in 1..k})
        \/ /\ rt' = [rt EXCEPT ![n] = WithForwardRoute(n, p, hop)]
           /\ Consume(p, {})
  BY DEF FinishRREP
<1> DEFINE table == WithForwardRoute(n, p, hop)
<1>4. IsTable(table, Node, RouteEntry)
  BY <1>1, <1>2, WithForwardRouteType
<1>5. SameOrder(table, table) /\ SameOrder(AfterFindRoute(table, d), table)
  BY <1>4, SameOrderOperators
<1>6. OrderedStep
  BY <1>1, <1>3, <1>5, ReplyOrdered
<1>7. DownstreamFresher'
  BY <1>1, <1>6, DownstreamStep
<1>8. \A q \in net' : q \in net \/ Sound(q)'
  <2>1. CASE /\ RouteFound(table, d)
             /\ rt' = [rt EXCEPT ![n] = table]
             /\ Consume(p, UNION {SendToAddr(n, NewDATA(n, d, i, pend[n][d][i]),
                                             table[d].addr, table[d].iface) : i \in 1..k})
    <3>1. rt'[n] = table /\ d \in DOMAIN rt'[n]
      BY <1>1, <2>1 DEF RouteFound, TypeOK, AreTables
    <3>2. ASSUME NEW i \in 1..k, NEW q \in SendToAddr(n, NewDATA(n, d, i, pend[n][d][i]),
                                                       table[d].addr, table[d].iface)
          PROVE  Sound(q)'
      <4>1. q.m = NewDATA(n, d, i, pend[n][d][i]) /\ q.to = table[d].addr[1]
        BY <3>2, SendToAddrFields
      <4>2. q.m.type = "DATA" /\ q.m.dst = d
        BY <4>1 DEF NewDATA
      <4>3. Arriving(q)'
        BY <1>7, <3>1, <4>1, <4>2, AlongNewRoute
      <4>4. QED BY <4>2, <4>3 DEF Sound
    <3>3. QED BY <2>1, <3>2, ConsumeAdds
  <2>2. CASE Consume(p, UNION {Broadcast(n, NewRREQ(n, d, i)) : i \in 1..k})
    BY <2>2, OwnRequest, ConsumeAdds
  <2>3. CASE Consume(p, {})
    BY <2>3, ConsumeAdds
  <2>4. QED BY <1>3, <2>1, <2>2, <2>3
<1>9. QED BY <1>1, <1>6, <1>8, FreshStep

(* A reply that is dropped leaves the forward route it installed. *)
LEMMA DropRREPFresh ==
  ASSUME FreshInv, TypeOK', NEW n \in Node, NEW p \in net, DropRREP(n, p)
  PROVE  FreshInv'
<1>1. TrackOrder /\ p.m.type = "RREP" /\ TypeOK /\ p \in Datagram /\ Consume(p, {})
  BY DEF DropRREP, FreshInv, TypeOK
<1>2. PICK hop \in Sender(n, p) :
        rt' = [rt EXCEPT ![n] = AfterFindRoute(WithForwardRoute(n, p, hop), p.m.dst)]
  BY DEF DropRREP
<1>3. SameOrder(AfterFindRoute(WithForwardRoute(n, p, hop), p.m.dst),
                WithForwardRoute(n, p, hop))
  BY <1>1, WithForwardRouteType, SameOrderOperators
<1>4. OrderedStep
  BY <1>1, <1>2, <1>3, ReplyOrdered
<1>5. QED BY <1>1, <1>4, ConsumeAdds, FreshStep

(* Data travels along routes; a route in use only gains a precursor. *)
LEMMA DATAFresh ==
  ASSUME FreshInv, TypeOK', NEW n \in Node, NEW p \in net,
         DeliverDATA(n, p) \/ RelayDATA(n, p) \/ RejectDATA(n, p)
  PROVE  FreshInv'
<1>1. TrackOrder /\ p.m.type = "DATA" /\ TypeOK /\ p \in Datagram
  BY DEF DeliverDATA, RelayDATA, RejectDATA, FreshInv, TypeOK
<1>2. IsTable(rt[n], Node, RouteEntry)
  BY <1>1, TableOf DEF TypeOK
<1>3. CASE DeliverDATA(n, p)
  BY <1>1, <1>3, ConsumeAdds, QuietFresh DEF DeliverDATA
<1>4. CASE RelayDATA(n, p)
  <2>1. PICK q \in Previous(n, p) : rt' = [rt EXCEPT ![n] = WithPrecursor(n, p, q)]
    BY <1>4 DEF RelayDATA
  <2>2. SameOrder(WithPrecursor(n, p, q), rt[n])
    BY <1>2, SameOrderOperators DEF WithPrecursor
  <2>3. p.m.dst \in DOMAIN rt[n]
    BY <1>4 DEF RelayDATA, RouteFound
  <2>4. ASSUME NEW r \in SendToAddr(n, [p.m EXCEPT !.ttl = @ - 1],
                                    rt[n][p.m.dst].addr, rt[n][p.m.dst].iface)
        PROVE  Sound(r)'
    <3>1. r.m = [p.m EXCEPT !.ttl = @ - 1] /\ r.to = rt[n][p.m.dst].addr[1]
      BY <2>4, SendToAddrFields
    <3>2. p.m \in DATA
      BY <1>1, MessageFields
    <3>3. r.m.type = "DATA" /\ r.m.dst = p.m.dst
      BY <1>1, <3>1, <3>2 DEF DATA
    <3>4. Arriving(r)'
      BY <1>1, <2>3, <3>1, <3>3, AlongOldRoute
    <3>5. QED BY <3>3, <3>4 DEF Sound
  <2>5. \A r \in net' : r \in net \/ Sound(r)'
    BY <1>4, <2>4, ConsumeAdds DEF RelayDATA
  <2>6. QED BY <1>1, <2>1, <2>2, <2>5, SameFresh
<1>5. CASE RejectDATA(n, p)
  <2>1. rt' = [rt EXCEPT ![n] = AfterFindRoute(rt[n], p.m.dst)]
    BY <1>5 DEF RejectDATA
  <2>2. SameOrder(AfterFindRoute(rt[n], p.m.dst), rt[n])
    BY <1>2, SameOrderOperators
  <2>3. \A r \in net' : r \in net \/ r.m.type = "RERR"
    BY <1>5, NotifyFields, ConsumeAdds DEF RejectDATA
  <2>4. QED BY <1>1, <2>1, <2>2, <2>3, SameFresh
<1>6. QED BY <1>3, <1>4, <1>5

(* Errors delete a route, or nothing. *)
LEMMA RERRFresh ==
  ASSUME FreshInv, TypeOK', NEW n \in Node, NEW p \in net,
         IgnoreRERR(n, p) \/ HandleRERR(n, p)
  PROVE  FreshInv'
<1>1. TrackOrder /\ TypeOK
  BY DEF IgnoreRERR, HandleRERR, FreshInv
<1>2. CASE IgnoreRERR(n, p)
  BY <1>1, <1>2, ConsumeAdds, QuietFresh DEF IgnoreRERR
<1>3. CASE HandleRERR(n, p)
  <2>1. rt' = [rt EXCEPT ![n] = DeleteAll(rt[n], {p.m.unreachable})]
    BY <1>3 DEF HandleRERR, Delete
  <2>2. SameOrder(DeleteAll(rt[n], {p.m.unreachable}), rt[n])
    BY <1>1, TableOf, SameOrderOperators DEF TypeOK
  <2>3. \A q \in net' : q \in net \/ q.m.type = "RERR"
    BY <1>3, NotifyFields, ConsumeAdds DEF HandleRERR
  <2>4. QED BY <1>1, <2>1, <2>2, <2>3, SameFresh
<1>4. QED BY <1>2, <1>3

(* What users ask for: a message along a route, or a search. *)
LEMMA UserFresh ==
  ASSUME FreshInv, TypeOK', NEW n \in Node, NEW d \in Node,
         (\E x \in Payload : SendData(n, d, x)) \/ SearchRoute(n, d)
  PROVE  FreshInv'
<1>1. TrackOrder /\ TypeOK
  BY DEF SendData, SearchRoute, FreshInv
<1>2. /\ SameOrder(rt[n], rt[n])
      /\ SameOrder(AfterFindRoute(rt[n], d), rt[n])
  BY <1>1, TableOf, SameOrderOperators DEF TypeOK
<1>3. ASSUME NEW x \in Payload, SendNow(n, d, x)
      PROVE  FreshInv'
  <2>1. d \in DOMAIN rt[n] /\ rt' = [rt EXCEPT ![n] = rt[n]]
    BY <1>1, <1>3 DEF SendNow, RouteFound, TypeOK, AreTables
  <2>2. ASSUME NEW q \in SendToAddr(n, NewDATA(n, d, 1, x), rt[n][d].addr, rt[n][d].iface)
        PROVE  Sound(q)'
    <3>1. q.m = NewDATA(n, d, 1, x) /\ q.to = rt[n][d].addr[1]
      BY <2>2, SendToAddrFields
    <3>2. q.m.type = "DATA" /\ q.m.dst = d
      BY <3>1 DEF NewDATA
    <3>3. Arriving(q)'
      BY <1>1, <2>1, <3>1, <3>2, AlongOldRoute
    <3>4. QED BY <3>2, <3>3 DEF Sound
  <2>3. \A q \in net' : q \in net \/ Sound(q)'
    BY <1>3, <2>2 DEF SendNow
  <2>4. QED BY <1>1, <1>2, <2>1, <2>3, SameFresh
<1>4. ASSUME NEW x \in Payload, Enqueue(n, d, x)
      PROVE  FreshInv'
  <2>1. rt' = [rt EXCEPT ![n] = AfterFindRoute(rt[n], d)]
    BY <1>4 DEF Enqueue
  <2>2. \A q \in net' : q \in net \/ Sound(q)'
    BY <1>4, OwnRequest DEF Enqueue
  <2>3. QED BY <1>1, <1>2, <2>1, <2>2, SameFresh
<1>5. CASE SearchRoute(n, d)
  <2>1. rt' = [rt EXCEPT ![n] = AfterFindRoute(rt[n], d)]
    BY <1>5 DEF SearchRoute
  <2>2. \A q \in net' : q \in net \/ Sound(q)'
    BY <1>5, OwnRequest DEF SearchRoute
  <2>3. QED BY <1>1, <1>2, <2>1, <2>2, SameFresh
<1>6. QED BY <1>3, <1>4, <1>5 DEF SendData

(* The collector, time, the network and restarts only take entries away. *)
LEMMA EnvironmentFresh ==
  ASSUME FreshInv, TypeOK',
         \/ \E n \in Node, d \in Node : RouteExpires(n, d)
         \/ \E n \in Node, id \in Node : NeighbourSilent(n, id)
         \/ \E n \in Node : BroadcastHello(n) \/ Restart(n) \/ CollectNeighbours(n)
         \/ \E p \in net : Lose(p)
  PROVE  FreshInv'
<1>1. TrackOrder /\ TypeOK
  BY DEF RouteExpires, NeighbourSilent, BroadcastHello, Restart, CollectNeighbours, Lose,
         FreshInv
<1>2. ASSUME NEW n \in Node, NEW d \in Node, RouteExpires(n, d)
      PROVE  FreshInv'
  <2>1. /\ rt' = [rt EXCEPT ![n] = [rt[n] EXCEPT ![d].live = FALSE]]
        /\ d \in DOMAIN rt[n] /\ net' = net
    BY <1>2 DEF RouteExpires
  <2>2. SameOrder([rt[n] EXCEPT ![d].live = FALSE], rt[n])
    BY <1>1, <2>1, TableOf, SameOrderOperators DEF TypeOK
  <2>3. QED BY <1>1, <2>1, <2>2, SameFresh
<1>3. ASSUME NEW n \in Node, NEW id \in Node, NeighbourSilent(n, id)
      PROVE  FreshInv'
  BY <1>1, <1>3, QuietFresh DEF NeighbourSilent
<1>4. ASSUME NEW n \in Node, BroadcastHello(n)
      PROVE  FreshInv'
  <2>1. \A q \in net' : q \in net \/ q.m.type = "HELLO"
    BY <1>4, BroadcastFields DEF BroadcastHello
  <2>2. QED BY <1>1, <1>4, <2>1, QuietFresh DEF BroadcastHello
<1>5. ASSUME NEW n \in Node, Restart(n)
      PROVE  FreshInv'
  <2>1. rt' = [rt EXCEPT ![n] = NewTable] /\ net' = net
    BY <1>5 DEF Restart
  <2>2. SameOrder(NewTable, rt[n])
    BY DEF SameOrder, NewTable
  <2>3. QED BY <1>1, <2>1, <2>2, SameFresh
<1>6. ASSUME NEW n \in Node, CollectNeighbours(n)
      PROVE  FreshInv'
  <2>1. PICK K : rt' = [rt EXCEPT ![n] = DeleteAll(rt[n], K)]
    BY <1>6 DEF CollectNeighbours
  <2>2. SameOrder(DeleteAll(rt[n], K), rt[n])
    BY <1>1, TableOf, SameOrderOperators DEF TypeOK
  <2>3. \A q \in net' : q \in net \/ q.m.type = "RERR"
    <3>1. PICK table, broken :
            net' = net \cup UNION {NotifyPrecursors(n, table, d) : d \in broken}
      BY <1>6 DEF CollectNeighbours
    <3>2. QED BY <3>1, NotifyFields
  <2>4. QED BY <1>1, <2>1, <2>2, <2>3, SameFresh
<1>7. ASSUME NEW p \in net, Lose(p)
      PROVE  FreshInv'
  BY <1>1, <1>7, QuietFresh DEF Lose
<1>8. QED BY <1>2, <1>3, <1>4, <1>5, <1>6, <1>7

-----------------------------------------------------------------------------
(* Nothing is in flight and no table has an entry at the start. *)
LEMMA InitFresh == Init => FreshInv
BY InitType DEF Init, NewTable, FreshInv, FreshnessOrder, DownstreamFresher, NoBlackHole,
                Requests, Replies

(* Every step keeps the invariant. *)
LEMMA NextFresh == FreshInv /\ [Next]_vars => FreshInv'
<1> SUFFICES ASSUME FreshInv, [Next]_vars PROVE FreshInv' OBVIOUS
<1>1. TypeOK'
  BY NextType DEF FreshInv
<1>2. ASSUME NEW n \in Node, NEW p \in net, HandleMessage(n, p)
      PROVE  FreshInv'
  <2>1. CASE HandleHELLO(n, p) \/ DeclineRREQ(n, p)
    <3>1. TrackOrder /\ UNCHANGED rt /\ Consume(p, {})
      BY <2>1 DEF HandleHELLO, DeclineRREQ
    <3>2. QED BY <1>1, <3>1, ConsumeAdds, QuietFresh
  <2>2. QED
    BY <1>1, <1>2, <2>1, AcceptedFresh, RelayRREPFresh, FinishRREPFresh, DropRREPFresh,
       DATAFresh, RERRFresh DEF HandleMessage
<1>3. CASE UNCHANGED vars
  BY <1>1, <1>3 DEF vars, FreshInv, FreshnessOrder, Covered, DownstreamFresher, NextHop,
                    NoBlackHole, Requests, Replies
<1>4. QED
  BY <1>1, <1>2, <1>3, UserFresh, EnvironmentFresh DEF Next, ProcessMessages

(* In every mesh the routes to a destination nobody has forgotten about     *)
(* lead to strictly fresher ones, and what is in flight never contradicts   *)
(* them: UpdateRoute, handleRREQ and handleRREP.                            *)
THEOREM FreshnessOrderHolds == Spec => []FreshnessOrder
<1>1. FreshInv => FreshnessOrder
  BY DEF FreshInv
<1>2. QED BY <1>1, InitFresh, NextFresh, PTL DEF Spec

(* No reply and no message meets a node without a route to its target,      *)
(* unless some node has forgotten one: handleRREP, handleDATA, SendData.    *)
THEOREM NoBlackHoleHolds == Spec => []NoBlackHole
<1>1. FreshInv => NoBlackHole
  BY DEF FreshInv
<1>2. QED BY <1>1, InitFresh, NextFresh, PTL DEF Spec

-----------------------------------------------------------------------------
(* From the order to the absence of loops: along a loop every entry would   *)
(* be fresher than the one before it, but there are finitely many degrees   *)
(* of freshness.                                                            *)

(* The degrees of freshness above that of entry e. *)
Above(e) == {r \in Seqs \X Byte : r[1] > e.seq \/ (r[1] = e.seq /\ r[2] < e.hops)}

(* A fresher entry has fewer degrees above it. *)
LEMMA FresherAbove ==
  ASSUME NEW e \in RouteEntry, NEW f \in RouteEntry, Fresher(e, f)
  PROVE  <<Above(e), Above(f)>> \in StrictSubsetOrdering(Seqs \X Byte)
<1>1. /\ e.seq \in Seqs /\ e.hops \in Byte /\ f.seq \in Seqs /\ f.hops \in Byte
  BY DEF RouteEntry
<1>2. /\ e.seq \in Nat /\ e.hops \in Nat /\ f.seq \in Nat /\ f.hops \in Nat
      /\ \A r \in Seqs \X Byte : r[1] \in Nat /\ r[2] \in Nat
  BY <1>1, MeshAssumption DEF Seqs, Byte
<1>3. Above(e) \subseteq Above(f)
  BY <1>2 DEF Above, Fresher
<1>4. <<e.seq, e.hops>> \in Above(f)
  BY <1>1 DEF Above, Fresher
<1>5. <<e.seq, e.hops>> \notin Above(e)
  BY <1>2 DEF Above
<1>6. Above(e) \in SUBSET (Seqs \X Byte) /\ Above(f) \in SUBSET (Seqs \X Byte)
  BY DEF Above
<1>7. QED BY <1>3, <1>4, <1>5, <1>6 DEF StrictSubsetOrdering

(* There are finitely many degrees. *)
LEMMA DegreesFinite == IsFiniteSet(Seqs \X Byte)
<1>1. IsFiniteSet(Seqs) /\ IsFiniteSet(Byte)
  BY MeshAssumption, FS_Interval DEF Seqs, Byte
<1>2. QED BY <1>1, FS_Product

(* No set of nodes passes messages for d around among itself. *)
LEMMA OrderedIsLoopFree == TypeOK /\ DownstreamFresher => LoopFree
<1> SUFFICES ASSUME TypeOK, DownstreamFresher, NEW d \in Node, d \notin spoiled,
                    NEW S \in SUBSET (Node \ {d}), S # {},
                    \A n \in S : d \in DOMAIN rt[n] /\ NextHop(n, d) \in S
             PROVE  FALSE
  BY DEF LoopFree, NoLoopFor
<1> DEFINE D == Seqs \X Byte
           T == {Above(rt[n][d]) : n \in S}
<1>1. T \subseteq FiniteSubsetsOf(D) /\ T # {}
  <2>1. \A n \in S : Above(rt[n][d]) \subseteq D
    BY DEF Above
  <2>2. \A n \in S : IsFiniteSet(Above(rt[n][d]))
    BY <2>1, DegreesFinite, FS_Subset
  <2>3. QED BY <2>1, <2>2 DEF FiniteSubsetsOf
<1>2. IsWellFoundedOn(StrictSubsetOrdering(D), FiniteSubsetsOf(D))
  BY FS_StrictSubsetOrderingWellFounded
<1>3. PICK X \in T : \A Y \in T : <<Y, X>> \notin StrictSubsetOrdering(D)
  <2> HIDE DEF T, D
  <2> QED BY <1>1, <1>2, WFMin
<1>4. PICK n \in S : X = Above(rt[n][d])
  BY <1>3
<1> DEFINE m == NextHop(n, d)
<1>5. m \in S /\ m \in Node /\ n \in Node
  BY <1>4
<1>6. d \in DOMAIN rt[m] /\ Fresher(rt[m][d], rt[n][d])
  BY <1>4, <1>5 DEF DownstreamFresher
<1>7. rt[m][d] \in RouteEntry /\ rt[n][d] \in RouteEntry
  BY <1>4, <1>5, <1>6, EntryNumbers DEF TypeOK
<1>8. <<Above(rt[m][d]), X>> \in StrictSubsetOrdering(D)
  BY <1>4, <1>6, <1>7, FresherAbove
<1>9. QED BY <1>3, <1>5, <1>8

(* Sequence numbers and hop counts keep the routes free of loops, in every  *)
(* topology and whatever the network does, for every destination nobody has *)
(* forgotten a route to: UpdateRoute, handleRREQ, handleRREP.               *)
THEOREM LoopFreeHolds == Spec => []LoopFree
<1>1. FreshInv => LoopFree
  BY OrderedIsLoopFree DEF FreshInv, FreshnessOrder
<1>2. QED BY <1>1, InitFresh, NextFresh, PTL DEF Spec
=============================================================================
