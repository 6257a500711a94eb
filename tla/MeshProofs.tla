----------------------------- MODULE MeshProofs -----------------------------
(***************************************************************************)
(* Theorems about the mesh of MeshNet, for every topology, traffic, budget  *)
(* and width of the counters: its types, and that the codec gives every     *)
(* datagram back as it was sent.                                            *)
(***************************************************************************)
EXTENDS MeshWire, TLAPS, SequenceTheorems

-----------------------------------------------------------------------------
(* The table operators of Routing, for every table. *)

(* Table.Put keeps a table a table. *)
LEMMA PutType ==
  ASSUME NEW K, NEW E, NEW t, IsTable(t, K, E), NEW k \in K, NEW e \in E
  PROVE  IsTable(Put(t, k, e), K, E)
BY DEF IsTable, Put

(* Table.Delete keeps a table a table. *)
LEMMA DeleteType ==
  ASSUME NEW K, NEW E, NEW t, IsTable(t, K, E), NEW D
  PROVE  IsTable(DeleteAll(t, D), K, E)
BY DEF IsTable, DeleteAll

(* FindRoute, which may delete, keeps a table a table. *)
LEMMA AfterFindRouteType ==
  ASSUME NEW K, NEW E, NEW t, IsTable(t, K, E), NEW d
  PROVE  IsTable(AfterFindRoute(t, d), K, E)
BY DeleteType DEF AfterFindRoute, Delete

(* Freshness is a strict order on the entries of a destination. *)
LEMMA FresherTransitive ==
  ASSUME NEW e, NEW f, NEW g,
         e.seq \in Nat, e.hops \in Nat, f.seq \in Nat, f.hops \in Nat,
         g.seq \in Nat, g.hops \in Nat,
         Fresher(e, f), Fresher(f, g)
  PROVE  Fresher(e, g)
BY DEF Fresher

-----------------------------------------------------------------------------
(* Types of the operators the actions are built from. *)

(* UpdateRoute keeps a routes table one. *)
LEMMA UpdateRouteType ==
  ASSUME NEW t, IsTable(t, Node, RouteEntry), NEW d \in Node, NEW e \in RouteEntry
  PROVE  IsTable(UpdateRoute(t, d, e), Node, RouteEntry)
<1>1. CASE d \notin DOMAIN t
  BY <1>1, PutType DEF UpdateRoute
<1>2. CASE d \in DOMAIN t /\ Fresher(e, t[d])
  <2>1. [e EXCEPT !.pre = t[d].pre] \in RouteEntry
    BY <1>2 DEF IsTable, RouteEntry
  <2>2. QED BY <1>2, <2>1, PutType DEF UpdateRoute
<1>3. CASE d \in DOMAIN t /\ ~Fresher(e, t[d])
  BY <1>3 DEF UpdateRoute
<1>4. QED BY <1>1, <1>2, <1>3

(* AddPrecursor keeps a routes table one. *)
LEMMA AddPrecursorType ==
  ASSUME NEW t, IsTable(t, Node, RouteEntry), NEW d, NEW q \in Node
  PROVE  IsTable(AddPrecursor(t, d, q), Node, RouteEntry)
<1>1. CASE d \in DOMAIN t
  <2>1. [t[d] EXCEPT !.pre = @ \cup {q}] \in RouteEntry
    BY <1>1 DEF IsTable, RouteEntry
  <2>2. QED BY <1>1, <2>1 DEF AddPrecursor, IsTable
<1>2. CASE d \notin DOMAIN t
  BY <1>2 DEF AddPrecursor
<1>3. QED BY <1>1, <1>2

(* The entry both handlers offer to UpdateRoute. *)
LEMMA NewRouteType ==
  ASSUME NEW s \in Seqs, NEW h \in Byte, NEW hop \in Node, NEW a \in Address
  PROVE  [seq |-> s, hops |-> (h + 1) % HopSpace, next |-> hop, addr |-> a,
          iface |-> a[2], live |-> TRUE, pre |-> {}] \in RouteEntry
BY MeshAssumption DEF RouteEntry, Byte, Address

(* A broadcast puts datagrams into the network. *)
LEMMA BroadcastType ==
  ASSUME NEW n \in Node, NEW m \in Message
  PROVE  Broadcast(n, m) \subseteq Datagram
BY MeshAssumption DEF Broadcast, Datagram, Address

(* So does a unicast, to the owner of the address. *)
LEMMA SendToAddrType ==
  ASSUME NEW n \in Node, NEW m \in Message, NEW a \in Address, NEW iface
  PROVE  SendToAddr(n, m, a, iface) \subseteq Datagram
BY MeshAssumption DEF SendToAddr, Datagram, Address

(* The numbers a node hands out fit the counter. *)
LEMMA SeqAfterType ==
  ASSUME seqNum \in [Node -> Seqs], NEW n \in Node, NEW k \in Nat
  PROVE  SeqAfter(n, k) \in Seqs
BY MeshAssumption DEF SeqAfter, Seqs

(* SendRREQ builds a message. *)
LEMMA NewRREQType ==
  ASSUME seqNum \in [Node -> Seqs], NEW n \in Node, NEW d \in Node, NEW k \in Nat
  PROVE  NewRREQ(n, d, k) \in Message
<1>1. 0 \in Byte /\ TTL \in Byte
  BY MeshAssumption DEF Byte
<1>2. QED BY <1>1, SeqAfterType DEF NewRREQ, Message, RREQ

(* SendData builds a message. *)
LEMMA NewDATAType ==
  ASSUME seqNum \in [Node -> Seqs], NEW n \in Node, NEW d \in Node, NEW k \in Nat,
         NEW x \in Payload
  PROVE  NewDATA(n, d, k, x) \in Message
<1>1. TTL \in Byte
  BY MeshAssumption DEF Byte
<1>2. QED BY <1>1, SeqAfterType DEF NewDATA, Message, DATA

(* SendRERR sends datagrams, or none to an unknown neighbour. *)
LEMMA SendRERRType ==
  ASSUME NEW table, IsTable(table, Node, NeighboursEntry), NEW n \in Node,
         NEW q, NEW d \in Node
  PROVE  SendRERR(n, table, q, d) \subseteq Datagram
<1>1. CASE q \notin DOMAIN table
  BY <1>1 DEF SendRERR
<1>2. CASE q \in DOMAIN table
  <2>1. q \in Node /\ table[q].addr \in Address
    BY <1>2 DEF IsTable, NeighboursEntry
  <2>2. [type |-> "RERR", src |-> n, dst |-> q, unreachable |-> d] \in Message
    BY <2>1 DEF Message, RERR
  <2>3. QED BY <1>2, <2>1, <2>2, SendToAddrType DEF SendRERR
<1>3. QED BY <1>1, <1>2

(* Handling a datagram keeps the types of the network and the budgets. *)
LEMMA ConsumeType ==
  ASSUME net \subseteq Datagram, left \in [Budget -> Nat],
         NEW p, NEW out, out \subseteq Datagram, Consume(p, out)
  PROVE  net' \subseteq Datagram /\ left' \in [Budget -> Nat]
BY DEF Consume, Spend, Budget

(* Spending a budget leaves a natural number. *)
LEMMA SpendType ==
  ASSUME left \in [Budget -> Nat], NEW b \in Budget, Spend(b)
  PROVE  left' \in [Budget -> Nat]
BY DEF Spend

(* Only nodes are spoiled. *)
LEMMA TrackOrderType ==
  ASSUME spoiled \subseteq Node, TrackOrder
  PROVE  spoiled' \subseteq Node
BY DEF TrackOrder

(* Replacing the table of one node by a table. *)
LEMMA OneTableType ==
  ASSUME NEW f, NEW E, AreTables(f, Node, Node, E), NEW n \in Node,
         NEW t, IsTable(t, Node, E)
  PROVE  AreTables([f EXCEPT ![n] = t], Node, Node, E)
BY DEF AreTables

(* Each node has a table. *)
LEMMA TableOf ==
  ASSUME NEW f, NEW E, AreTables(f, Node, Node, E), NEW n \in Node
  PROVE  IsTable(f[n], Node, E)
BY DEF AreTables

(* Advancing the counter keeps it in its range. *)
LEMMA AdvanceType ==
  ASSUME seqNum \in [Node -> Seqs], NEW n \in Node, NEW k \in Nat, Advance(n, k)
  PROVE  seqNum' \in [Node -> Seqs]
BY SeqAfterType DEF Advance

(* The id a handler takes the sender for is a node. *)
LEMMA SenderType ==
  ASSUME TypeOK, NEW n \in Node, NEW p, p.m.src \in Node, NEW hop \in Sender(n, p)
  PROVE  hop \in Node
BY DEF TypeOK, AreTables, IsTable, Sender, NeighboursByAddr

(* The previous hop of a message is a node, or unknown. *)
LEMMA PreviousType ==
  ASSUME TypeOK, NEW n \in Node, NEW p, NEW q \in Previous(n, p)
  PROVE  q \in Node \cup {NoNode}
BY DEF TypeOK, AreTables, IsTable, Previous, NeighboursByAddr

(* Registering the previous hop keeps a routes table one. *)
LEMMA WithPrecursorType ==
  ASSUME TypeOK, NEW n \in Node, NEW p, NEW q \in Previous(n, p)
  PROVE  IsTable(WithPrecursor(n, p, q), Node, RouteEntry)
<1>1. q \in Node \cup {NoNode} BY PreviousType
<1>2. IsTable(rt[n], Node, RouteEntry) BY TableOf DEF TypeOK
<1>3. QED BY <1>1, <1>2, AddPrecursorType DEF WithPrecursor

(* A datagram of each type has the fields of that type. *)
LEMMA MessageFields ==
  ASSUME NEW p \in Datagram
  PROVE  /\ p.to \in Node /\ p.from \in Address /\ p.m \in Message
         /\ p.m.src \in Node
         /\ p.m.type = "RREQ" => p.m \in RREQ
         /\ p.m.type = "RREP" => p.m \in RREP
         /\ p.m.type = "RERR" => p.m \in RERR
         /\ p.m.type = "DATA" => p.m \in DATA
BY DEF Datagram, Message, HELLO, RREQ, RREP, RERR, DATA

(* Installing the forward route keeps a routes table one. *)
LEMMA WithForwardRouteType ==
  ASSUME TypeOK, NEW n \in Node, NEW p \in Datagram, p.m.type = "RREP",
         NEW hop \in Sender(n, p)
  PROVE  IsTable(WithForwardRoute(n, p, hop), Node, RouteEntry)
<1>1. p.m \in RREP /\ p.m.src \in Node /\ p.from \in Address BY MessageFields
<1>2. hop \in Node BY <1>1, SenderType
<1>3. p.m.dstSeq \in Seqs /\ p.m.hops \in Byte BY <1>1 DEF RREP
<1>4. IsTable(rt[n], Node, RouteEntry) BY TableOf DEF TypeOK
<1>5. QED BY <1>1, <1>2, <1>3, <1>4, NewRouteType, UpdateRouteType DEF WithForwardRoute

-----------------------------------------------------------------------------
(* Type preservation, one lemma per handler. *)

(* HandleHELLO keeps the types. *)
LEMMA HandleHELLOType ==
  ASSUME TypeOK, NEW n \in Node, NEW p \in net, HandleHELLO(n, p)
  PROVE  TypeOK'
<1>1. p \in Datagram BY DEF TypeOK
<1>2. p.m.src \in Node /\ p.from \in Address BY <1>1, MessageFields
<1>3. [addr |-> p.from, iface |-> p.from[2], silent |-> FALSE] \in NeighboursEntry
  BY <1>2 DEF NeighboursEntry, Address
<1>4. IsTable(UpdateNeighbour(nbr[n], p.m.src, p.from, p.from[2]), Node, NeighboursEntry)
  BY <1>2, <1>3, TableOf, PutType DEF UpdateNeighbour, TypeOK
<1>5. AreTables(nbr', Node, Node, NeighboursEntry)
  BY <1>4, OneTableType DEF HandleHELLO, TypeOK
<1>6. net' \subseteq Datagram /\ left' \in [Budget -> Nat]
  BY ConsumeType DEF HandleHELLO, TypeOK
<1>7. spoiled' \subseteq Node
  BY TrackOrderType DEF HandleHELLO, TypeOK
<1>8. QED BY <1>5, <1>6, <1>7 DEF HandleHELLO, TypeOK, AreTables

(* Declining a request keeps the types. *)
LEMMA DeclineRREQType ==
  ASSUME TypeOK, NEW n \in Node, NEW p \in net, DeclineRREQ(n, p)
  PROVE  TypeOK'
<1>1. net' \subseteq Datagram /\ left' \in [Budget -> Nat]
  BY ConsumeType DEF DeclineRREQ, TypeOK
<1>2. spoiled' \subseteq Node
  BY TrackOrderType DEF DeclineRREQ, TypeOK
<1>3. QED BY <1>1, <1>2 DEF DeclineRREQ, TypeOK, AreTables

(* What every accepted request changes. *)
LEMMA AcceptRREQType ==
  ASSUME TypeOK, NEW n \in Node, NEW p \in net, AcceptRREQ(n, p)
  PROVE  /\ AreTables(nbr', Node, Node, NeighboursEntry)
         /\ AreTables(rt', Node, Node, RouteEntry)
         /\ AreTables(seen', Node, Node, Seqs)
         /\ accepted' \in [Node -> SUBSET (Node \X Node \X Seqs)]
<1>1. p \in Datagram BY DEF TypeOK
<1>2. p.m \in RREQ /\ p.from \in Address BY <1>1, MessageFields DEF AcceptRREQ
<1>3. /\ p.m.src \in Node /\ p.m.dst \in Node /\ p.m.srcSeq \in Seqs
      /\ p.m.bid \in Seqs /\ p.m.hops \in Byte
  BY <1>2 DEF RREQ
<1>4. AreTables(seen', Node, Node, Seqs)
  BY <1>3, TableOf, PutType, OneTableType DEF AcceptRREQ, TypeOK
<1>5. AreTables(rt', Node, Node, RouteEntry)
  <2>1. PICK hop \in Sender(n, p) :
          rt' = [rt EXCEPT ![n] = UpdateRoute(@, p.m.src,
               [seq |-> p.m.srcSeq, hops |-> (p.m.hops + 1) % HopSpace,
                next |-> hop, addr |-> p.from, iface |-> p.from[2],
                live |-> TRUE, pre |-> {}])]
    BY DEF AcceptRREQ
  <2>2. hop \in Node BY <1>3, SenderType
  <2>3. IsTable(rt[n], Node, RouteEntry) BY TableOf DEF TypeOK
  <2>4. [seq |-> p.m.srcSeq, hops |-> (p.m.hops + 1) % HopSpace,
         next |-> hop, addr |-> p.from, iface |-> p.from[2],
         live |-> TRUE, pre |-> {}] \in RouteEntry
    BY <1>2, <1>3, <2>2, NewRouteType
  <2>5. QED BY <1>3, <2>1, <2>3, <2>4, UpdateRouteType, OneTableType DEF TypeOK
<1>6. accepted' \in [Node -> SUBSET (Node \X Node \X Seqs)]
  <2>1. {<<p.m.src, p.m.dst, p.m.bid>>} \in SUBSET (Node \X Node \X Seqs)
    BY <1>3
  <2>2. accepted' = [accepted EXCEPT ![n] = @ \cup {<<p.m.src, p.m.dst, p.m.bid>>}]
    BY DEF AcceptRREQ
  <2>3. accepted[n] \cup {<<p.m.src, p.m.dst, p.m.bid>>} \in SUBSET (Node \X Node \X Seqs)
    BY <2>1 DEF TypeOK
  <2>4. QED BY <2>2, <2>3 DEF TypeOK
<1>7. AreTables(nbr', Node, Node, NeighboursEntry)
  BY DEF AcceptRREQ, TypeOK, AreTables
<1>8. QED BY <1>4, <1>5, <1>6, <1>7

(* Answering, relaying or dropping a request keeps the types. *)
LEMMA AcceptedType ==
  ASSUME TypeOK, NEW n \in Node, NEW p \in net,
         AnswerRREQ(n, p) \/ RelayRREQ(n, p) \/ DropRREQ(n, p)
  PROVE  TypeOK'
<1>1. p \in Datagram /\ p.m.type = "RREQ"
  BY DEF TypeOK, AnswerRREQ, RelayRREQ, DropRREQ, AcceptRREQ
<1>2. p.m \in RREQ /\ p.from \in Address BY <1>1, MessageFields
<1>3. AcceptRREQ(n, p)
  BY DEF AnswerRREQ, RelayRREQ, DropRREQ
<1>4. spoiled' \subseteq Node
  BY TrackOrderType DEF AnswerRREQ, RelayRREQ, DropRREQ, TypeOK
<1>5. /\ net' \subseteq Datagram
      /\ left' \in [Budget -> Nat]
      /\ seqNum' \in [Node -> Seqs]
  <2>1. CASE AnswerRREQ(n, p)
    <3>1. SeqAfter(n, 1) \in Seqs BY SeqAfterType DEF TypeOK
    <3>2. 0 \in Byte BY MeshAssumption DEF Byte
    <3>3. [type |-> "RREP", src |-> n, dst |-> p.m.src, dstSeq |-> SeqAfter(n, 1),
           hops |-> 0] \in Message
      BY <1>2, <3>1, <3>2 DEF Message, RREP, RREQ
    <3>4. seqNum' \in [Node -> Seqs]
      BY <2>1, AdvanceType DEF AnswerRREQ, TypeOK
    <3>5. QED BY <1>2, <2>1, <3>3, <3>4, SendToAddrType, ConsumeType DEF AnswerRREQ, TypeOK
  <2>2. CASE RelayRREQ(n, p)
    <3>1. p.m.ttl \in Byte /\ p.m.hops \in Byte /\ p.m.ttl > 1
      BY <1>2, <2>2 DEF RREQ, RelayRREQ
    <3>2. p.m.ttl - 1 \in Byte /\ (p.m.hops + 1) % HopSpace \in Byte
      BY <3>1, MeshAssumption DEF Byte
    <3>3. [p.m EXCEPT !.ttl = @ - 1, !.hops = (@ + 1) % HopSpace] \in Message
      BY <1>2, <3>2 DEF Message, RREQ
    <3>4. seqNum' \in [Node -> Seqs] BY <2>2 DEF RelayRREQ, TypeOK
    <3>5. QED BY <2>2, <3>3, <3>4, BroadcastType, ConsumeType DEF RelayRREQ, TypeOK
  <2>3. CASE DropRREQ(n, p)
    BY <2>3, ConsumeType DEF DropRREQ, TypeOK
  <2>4. QED BY <2>1, <2>2, <2>3
<1>6. QED BY <1>3, <1>4, <1>5, AcceptRREQType DEF AcceptRREQ, TypeOK

(* Replies in the network have the fields their handlers read. *)
LEMMA ReplyFields ==
  ASSUME TypeOK, NEW p \in net, p.m.type = "RREP"
  PROVE  /\ p \in Datagram /\ p.from \in Address /\ p.m \in RREP
         /\ p.m.src \in Node /\ p.m.dst \in Node
         /\ p.m.dstSeq \in Seqs /\ p.m.hops \in Byte
<1>1. p \in Datagram BY DEF TypeOK
<1>2. p.m \in RREP /\ p.from \in Address BY <1>1, MessageFields
<1>3. QED BY <1>1, <1>2 DEF RREP

(* The addresses in a routes table are addresses. *)
LEMMA RouteFields ==
  ASSUME NEW t, IsTable(t, Node, RouteEntry), NEW d \in DOMAIN t
  PROVE  /\ t[d] \in RouteEntry /\ t[d].addr \in Address /\ t[d].next \in Node
         /\ t[d].iface \in Lan /\ t[d].pre \subseteq Node
         /\ t[d].seq \in Seqs /\ t[d].hops \in Byte
BY DEF IsTable, RouteEntry

(* Flushing the queue of a destination keeps the types. *)
LEMMA FinishRREPType ==
  ASSUME TypeOK, NEW n \in Node, NEW p \in net, FinishRREP(n, p)
  PROVE  TypeOK'
<1> DEFINE d == p.m.src
           k == Len(pend[n][d])
<1>1. /\ p \in Datagram /\ p.m.type = "RREP" /\ d \in Node
  BY ReplyFields DEF FinishRREP
<1>2. pend[n][d] \in Seq(Payload) /\ k \in Nat
  BY <1>1 DEF TypeOK
<1>3. PICK hop \in Sender(n, p) :
        \/ /\ k > 0 /\ RouteFound(WithForwardRoute(n, p, hop), d)
           /\ rt' = [rt EXCEPT ![n] = WithForwardRoute(n, p, hop)]
           /\ TakePending(n, d)
           /\ Consume(p, UNION {SendToAddr(n, NewDATA(n, d, i, pend[n][d][i]),
                                           WithForwardRoute(n, p, hop)[d].addr,
                                           WithForwardRoute(n, p, hop)[d].iface) : i \in 1..k})
        \/ /\ rt' = [rt EXCEPT ![n] = AfterFindRoute(WithForwardRoute(n, p, hop), d)]
           /\ Consume(p, UNION {Broadcast(n, NewRREQ(n, d, i)) : i \in 1..k})
           /\ UNCHANGED pend
        \/ /\ rt' = [rt EXCEPT ![n] = WithForwardRoute(n, p, hop)]
           /\ Consume(p, {})
           /\ UNCHANGED pend
  BY DEF FinishRREP
<1> DEFINE table == WithForwardRoute(n, p, hop)
<1>4. IsTable(table, Node, RouteEntry)
  BY <1>1, WithForwardRouteType
<1> HIDE DEF table
<1>5. /\ AreTables(rt', Node, Node, RouteEntry)
      /\ pend' \in [Node -> [Node -> Seq(Payload)]]
      /\ \A m \in Node, e \in Node : Len(pend'[m][e]) <= MaxQueue
      /\ net' \subseteq Datagram
      /\ left' \in [Budget -> Nat]
  <2>1. CASE /\ RouteFound(table, d)
             /\ rt' = [rt EXCEPT ![n] = table]
             /\ TakePending(n, d)
             /\ Consume(p, UNION {SendToAddr(n, NewDATA(n, d, i, pend[n][d][i]),
                                             table[d].addr, table[d].iface) : i \in 1..k})
    <3>1. table[d].addr \in Address BY <1>4, <2>1, RouteFields DEF RouteFound
    <3>2. \A i \in 1..k : NewDATA(n, d, i, pend[n][d][i]) \in Message
      BY <1>1, <1>2, NewDATAType DEF TypeOK
    <3>3. UNION {SendToAddr(n, NewDATA(n, d, i, pend[n][d][i]),
                            table[d].addr, table[d].iface) : i \in 1..k} \subseteq Datagram
      BY <3>1, <3>2, SendToAddrType
    <3>4. net' \subseteq Datagram /\ left' \in [Budget -> Nat]
      BY <2>1, <3>3, ConsumeType DEF TypeOK
    <3>5. AreTables(rt', Node, Node, RouteEntry)
      BY <1>4, <2>1, OneTableType DEF TypeOK
    <3>6. /\ pend' \in [Node -> [Node -> Seq(Payload)]]
          /\ \A m \in Node, e \in Node : Len(pend'[m][e]) <= MaxQueue
      BY <1>1, <2>1, MeshAssumption DEF TakePending, TypeOK
    <3>7. QED BY <3>4, <3>5, <3>6
  <2>2. CASE /\ rt' = [rt EXCEPT ![n] = AfterFindRoute(table, d)]
             /\ Consume(p, UNION {Broadcast(n, NewRREQ(n, d, i)) : i \in 1..k})
             /\ UNCHANGED pend
    <3>1. \A i \in 1..k : NewRREQ(n, d, i) \in Message
      BY <1>1, <1>2, NewRREQType DEF TypeOK
    <3>2. UNION {Broadcast(n, NewRREQ(n, d, i)) : i \in 1..k} \subseteq Datagram
      BY <3>1, BroadcastType
    <3>3. net' \subseteq Datagram /\ left' \in [Budget -> Nat]
      BY <2>2, <3>2, ConsumeType DEF TypeOK
    <3>4. AreTables(rt', Node, Node, RouteEntry)
      BY <1>4, <2>2, AfterFindRouteType, OneTableType DEF TypeOK
    <3>5. QED BY <2>2, <3>3, <3>4 DEF TypeOK
  <2>3. CASE /\ rt' = [rt EXCEPT ![n] = table]
             /\ Consume(p, {})
             /\ UNCHANGED pend
    <3>1. net' \subseteq Datagram /\ left' \in [Budget -> Nat]
      BY <2>3, ConsumeType DEF TypeOK
    <3>2. AreTables(rt', Node, Node, RouteEntry)
      BY <1>4, <2>3, OneTableType DEF TypeOK
    <3>3. QED BY <2>3, <3>1, <3>2 DEF TypeOK
  <2>4. QED BY <1>3, <2>1, <2>2, <2>3 DEF table
<1>6. seqNum' \in [Node -> Seqs]
  BY <1>2, AdvanceType DEF FinishRREP, TypeOK
<1>7. spoiled' \subseteq Node
  BY TrackOrderType DEF FinishRREP, TypeOK
<1>8. QED BY <1>5, <1>6, <1>7 DEF FinishRREP, TypeOK, AreTables

(* Passing a reply on keeps the types. *)
LEMMA RelayRREPType ==
  ASSUME TypeOK, NEW n \in Node, NEW p \in net, RelayRREP(n, p)
  PROVE  TypeOK'
<1>1. p \in Datagram /\ p.m.type = "RREP" /\ p.m.dst \in Node /\ p.m.hops \in Byte
      /\ p.m \in RREP
  BY ReplyFields DEF RelayRREP
<1>2. PICK hop \in Sender(n, p) :
        LET table == WithForwardRoute(n, p, hop)
            route == table[p.m.dst]
        IN  /\ RouteFound(table, p.m.dst)
            /\ rt' = [rt EXCEPT ![n] = AddPrecursor(table, p.m.src, route.next)]
            /\ Consume(p, SendToAddr(n, [p.m EXCEPT !.hops = (@ + 1) % HopSpace],
                                     route.addr, route.iface))
  BY DEF RelayRREP
<1> DEFINE table == WithForwardRoute(n, p, hop)
           route == table[p.m.dst]
<1>3. IsTable(table, Node, RouteEntry)
  BY <1>1, WithForwardRouteType
<1> HIDE DEF table
<1>4. route.addr \in Address /\ route.next \in Node
  BY <1>2, <1>3, RouteFields DEF RouteFound, table
<1>5. AreTables(rt', Node, Node, RouteEntry)
  BY <1>2, <1>3, <1>4, AddPrecursorType, OneTableType DEF TypeOK, table
<1>6. [p.m EXCEPT !.hops = (@ + 1) % HopSpace] \in Message
  <2>1. (p.m.hops + 1) % HopSpace \in Byte
    BY <1>1, MeshAssumption DEF Byte
  <2>2. QED BY <1>1, <2>1 DEF Message, RREP
<1>7. net' \subseteq Datagram /\ left' \in [Budget -> Nat]
  BY <1>2, <1>4, <1>6, SendToAddrType, ConsumeType DEF TypeOK, table
<1>8. spoiled' \subseteq Node
  BY TrackOrderType DEF RelayRREP, TypeOK
<1>9. QED BY <1>5, <1>7, <1>8 DEF RelayRREP, TypeOK, AreTables

(* Dropping a reply keeps the types. *)
LEMMA DropRREPType ==
  ASSUME TypeOK, NEW n \in Node, NEW p \in net, DropRREP(n, p)
  PROVE  TypeOK'
<1>1. p \in Datagram /\ p.m.type = "RREP"
  BY ReplyFields DEF DropRREP
<1>2. PICK hop \in Sender(n, p) :
        rt' = [rt EXCEPT ![n] = AfterFindRoute(WithForwardRoute(n, p, hop), p.m.dst)]
  BY DEF DropRREP
<1>3. AreTables(rt', Node, Node, RouteEntry)
  BY <1>1, <1>2, WithForwardRouteType, AfterFindRouteType, OneTableType DEF TypeOK
<1>4. net' \subseteq Datagram /\ left' \in [Budget -> Nat]
  BY ConsumeType DEF DropRREP, TypeOK
<1>5. spoiled' \subseteq Node
  BY TrackOrderType DEF DropRREP, TypeOK
<1>6. QED BY <1>3, <1>4, <1>5 DEF DropRREP, TypeOK, AreTables

(* Delivering, relaying or rejecting a message keeps the types. *)
LEMMA DATAType ==
  ASSUME TypeOK, NEW n \in Node, NEW p \in net,
         DeliverDATA(n, p) \/ RelayDATA(n, p) \/ RejectDATA(n, p)
  PROVE  TypeOK'
<1>1. p \in Datagram /\ p.m.type = "DATA"
  BY DEF TypeOK, DeliverDATA, RelayDATA, RejectDATA
<1>2. /\ p.m \in DATA /\ p.m.src \in Node /\ p.m.dst \in Node /\ p.m.ttl \in Byte
      /\ p.m.payload \in Payload
  BY <1>1, MessageFields DEF DATA
<1>3. IsTable(rt[n], Node, RouteEntry) /\ IsTable(nbr[n], Node, NeighboursEntry)
  BY TableOf DEF TypeOK
<1>4. spoiled' \subseteq Node
  BY TrackOrderType DEF DeliverDATA, RelayDATA, RejectDATA, TypeOK
<1>5. CASE DeliverDATA(n, p)
  <2>1. net' \subseteq Datagram /\ left' \in [Budget -> Nat]
    BY <1>5, ConsumeType DEF DeliverDATA, TypeOK
  <2>2. Append(inbox[n], <<p.m.src, p.m.payload>>) \in Seq(Node \X Payload)
    BY <1>2 DEF TypeOK
  <2>3. inbox' \in [Node -> Seq(Node \X Payload)]
    BY <1>5, <2>2 DEF DeliverDATA, TypeOK
  <2>4. QED BY <1>4, <1>5, <2>1, <2>3 DEF DeliverDATA, TypeOK, AreTables
<1>6. CASE RelayDATA(n, p)
  <2>1. AreTables(rt', Node, Node, RouteEntry)
    <3>1. PICK q \in Previous(n, p) : rt' = [rt EXCEPT ![n] = WithPrecursor(n, p, q)]
      BY <1>6 DEF RelayDATA
    <3>2. IsTable(WithPrecursor(n, p, q), Node, RouteEntry)
      BY WithPrecursorType
    <3>3. QED BY <3>1, <3>2, OneTableType DEF TypeOK
  <2>2. rt[n][p.m.dst].addr \in Address
    BY <1>3, <1>6, RouteFields DEF RelayDATA, RouteFound
  <2>3. net' \subseteq Datagram /\ left' \in [Budget -> Nat]
    <3>1. CASE p.m.ttl > 1 /\ Consume(p, SendToAddr(n, [p.m EXCEPT !.ttl = @ - 1],
                                 rt[n][p.m.dst].addr, rt[n][p.m.dst].iface))
      <4>1. p.m.ttl - 1 \in Byte
        BY <1>2, <3>1, MeshAssumption DEF Byte
      <4>2. [p.m EXCEPT !.ttl = @ - 1] \in Message
        BY <1>2, <4>1 DEF Message, DATA
      <4>3. QED BY <2>2, <3>1, <4>2, SendToAddrType, ConsumeType DEF TypeOK
    <3>2. CASE Consume(p, {})
      BY <3>2, ConsumeType DEF TypeOK
    <3>3. QED BY <1>6, <3>1, <3>2 DEF RelayDATA
  <2>4. QED BY <1>4, <1>6, <2>1, <2>3 DEF RelayDATA, TypeOK, AreTables
<1>7. CASE RejectDATA(n, p)
  <2>1. AreTables(rt', Node, Node, RouteEntry)
    <3>1. rt' = [rt EXCEPT ![n] = AfterFindRoute(rt[n], p.m.dst)]
      BY <1>7 DEF RejectDATA
    <3>2. IsTable(AfterFindRoute(rt[n], p.m.dst), Node, RouteEntry)
      BY <1>3, AfterFindRouteType
    <3>3. QED BY <3>1, <3>2, OneTableType DEF TypeOK
  <2>2. net' \subseteq Datagram /\ left' \in [Budget -> Nat]
    BY <1>2, <1>3, <1>7, SendRERRType, ConsumeType DEF RejectDATA, TypeOK
  <2>3. QED BY <1>4, <1>7, <2>1, <2>2 DEF RejectDATA, TypeOK, AreTables
<1>8. QED BY <1>5, <1>6, <1>7

(* The errors for all precursors of a route are datagrams. *)
LEMMA NotifyPrecursorsType ==
  ASSUME NEW table, IsTable(table, Node, NeighboursEntry), NEW n \in Node, NEW d \in Node
  PROVE  NotifyPrecursors(n, table, d) \subseteq Datagram
BY SendRERRType DEF NotifyPrecursors

(* Believing or ignoring an error keeps the types. *)
LEMMA RERRType ==
  ASSUME TypeOK, NEW n \in Node, NEW p \in net, IgnoreRERR(n, p) \/ HandleRERR(n, p)
  PROVE  TypeOK'
<1>1. spoiled' \subseteq Node
  BY TrackOrderType DEF IgnoreRERR, HandleRERR, TypeOK
<1>2. CASE IgnoreRERR(n, p)
  <2>1. net' \subseteq Datagram /\ left' \in [Budget -> Nat]
    BY <1>2, ConsumeType DEF IgnoreRERR, TypeOK
  <2>2. QED BY <1>1, <1>2, <2>1 DEF IgnoreRERR, TypeOK, AreTables
<1>3. CASE HandleRERR(n, p)
  <2>1. p \in Datagram /\ p.m.type = "RERR" BY <1>3 DEF HandleRERR, TypeOK
  <2>2. p.m.unreachable \in Node BY <2>1, MessageFields DEF RERR
  <2>3. IsTable(rt[n], Node, RouteEntry) /\ IsTable(nbr[n], Node, NeighboursEntry)
    BY TableOf DEF TypeOK
  <2>4. AreTables(rt', Node, Node, RouteEntry)
    BY <1>3, <2>3, DeleteType, OneTableType DEF HandleRERR, Delete, TypeOK
  <2>5. net' \subseteq Datagram /\ left' \in [Budget -> Nat]
    BY <1>3, <2>2, <2>3, NotifyPrecursorsType, ConsumeType DEF HandleRERR, TypeOK
  <2>6. QED BY <1>1, <1>3, <2>4, <2>5 DEF HandleRERR, TypeOK, AreTables
<1>4. QED BY <1>2, <1>3

(* Sending a message, at once or after a search, keeps the types. *)
LEMMA SendDataType ==
  ASSUME TypeOK, NEW n \in Node, NEW d \in Node, NEW x \in Payload, SendData(n, d, x)
  PROVE  TypeOK'
<1>1. spoiled' \subseteq Node
  BY TrackOrderType DEF SendData, TypeOK
<1>2. asked' \subseteq Offered
  BY DEF SendData, TypeOK
<1>3. IsTable(rt[n], Node, RouteEntry)
  BY TableOf DEF TypeOK
<1>4. CASE SendNow(n, d, x)
  <2>1. rt[n][d].addr \in Address
    BY <1>3, <1>4, RouteFields DEF SendNow, RouteFound
  <2>2. NewDATA(n, d, 1, x) \in Message
    BY NewDATAType DEF TypeOK
  <2>3. net' \subseteq Datagram
    BY <1>4, <2>1, <2>2, SendToAddrType DEF SendNow, TypeOK
  <2>4. seqNum' \in [Node -> Seqs]
    BY <1>4, AdvanceType DEF SendNow, TypeOK
  <2>5. QED BY <1>1, <1>2, <1>4, <2>3, <2>4 DEF SendNow, SendData, TypeOK, AreTables
<1>5. CASE Enqueue(n, d, x)
  <2>1. AreTables(rt', Node, Node, RouteEntry)
    BY <1>3, <1>5, AfterFindRouteType, OneTableType DEF Enqueue, TypeOK
  <2>2. /\ pend' \in [Node -> [Node -> Seq(Payload)]]
        /\ \A m \in Node, e \in Node : Len(pend'[m][e]) <= MaxQueue
    <3>1. /\ Append(pend[n][d], x) \in Seq(Payload)
          /\ Len(Append(pend[n][d], x)) <= MaxQueue
      BY <1>5, MeshAssumption DEF Enqueue, TypeOK
    <3>2. pend' = [pend EXCEPT ![n][d] = Append(pend[n][d], x)]
      BY <1>5 DEF Enqueue
    <3>3. QED BY <3>1, <3>2 DEF TypeOK
  <2>3. NewRREQ(n, d, 1) \in Message
    BY NewRREQType DEF TypeOK
  <2>4. net' \subseteq Datagram
    BY <1>5, <2>3, BroadcastType DEF Enqueue, TypeOK
  <2>5. seqNum' \in [Node -> Seqs]
    BY <1>5, AdvanceType DEF Enqueue, TypeOK
  <2>6. QED BY <1>1, <1>2, <2>1, <2>2, <2>4, <2>5 DEF SendData, TypeOK, AreTables
<1>6. QED BY <1>4, <1>5 DEF SendData

(* A search keeps the types. *)
LEMMA SearchRouteType ==
  ASSUME TypeOK, NEW n \in Node, NEW d \in Node, SearchRoute(n, d)
  PROVE  TypeOK'
<1>1. spoiled' \subseteq Node
  BY TrackOrderType DEF SearchRoute, TypeOK
<1>2. left' \in [Budget -> Nat]
  BY SpendType DEF SearchRoute, TypeOK, Budget
<1>3. AreTables(rt', Node, Node, RouteEntry)
  BY TableOf, AfterFindRouteType, OneTableType DEF SearchRoute, TypeOK
<1>4. NewRREQ(n, d, 1) \in Message
  BY NewRREQType DEF TypeOK
<1>5. net' \subseteq Datagram /\ seqNum' \in [Node -> Seqs]
  BY <1>4, BroadcastType, AdvanceType DEF SearchRoute, TypeOK
<1>6. QED BY <1>1, <1>2, <1>3, <1>5 DEF SearchRoute, TypeOK, AreTables

(* A tick of the collector keeps the types. *)
LEMMA CollectNeighboursType ==
  ASSUME TypeOK, NEW n \in Node, CollectNeighbours(n)
  PROVE  TypeOK'
<1> DEFINE dead == {id \in DOMAIN nbr[n] : nbr[n][id].silent}
           table == DeleteAll(nbr[n], dead)
           broken == {d \in DOMAIN rt[n] : rt[n][d].next \in dead}
<1>1. spoiled' \subseteq Node
  BY TrackOrderType DEF CollectNeighbours, TypeOK
<1>2. IsTable(rt[n], Node, RouteEntry) /\ IsTable(nbr[n], Node, NeighboursEntry)
  BY TableOf DEF TypeOK
<1>3. IsTable(table, Node, NeighboursEntry) /\ IsTable(DeleteAll(rt[n], broken), Node, RouteEntry)
  BY <1>2, DeleteType
<1>4. /\ nbr' = [nbr EXCEPT ![n] = table]
      /\ rt' = [rt EXCEPT ![n] = DeleteAll(rt[n], broken)]
      /\ net' = net \cup UNION {NotifyPrecursors(n, table, d) : d \in broken}
  BY DEF CollectNeighbours
<1>5. broken \subseteq Node
  BY <1>2 DEF IsTable
<1> HIDE DEF dead, table, broken
<1>6. AreTables(nbr', Node, Node, NeighboursEntry) /\ AreTables(rt', Node, Node, RouteEntry)
  BY <1>3, <1>4, OneTableType DEF TypeOK
<1>7. net' \subseteq Datagram
  BY <1>3, <1>4, <1>5, NotifyPrecursorsType DEF TypeOK
<1>8. QED BY <1>1, <1>6, <1>7 DEF CollectNeighbours, TypeOK, AreTables

(* Time, the network and restarts keep the types. *)
LEMMA EnvironmentType ==
  ASSUME TypeOK,
         \/ \E n \in Node, d \in Node : RouteExpires(n, d)
         \/ \E n \in Node, id \in Node : NeighbourSilent(n, id)
         \/ \E n \in Node : BroadcastHello(n) \/ Restart(n)
         \/ \E p \in net : Lose(p)
  PROVE  TypeOK'
<1>1. spoiled' \subseteq Node
  BY TrackOrderType DEF RouteExpires, NeighbourSilent, BroadcastHello, Restart, Lose, TypeOK
<1>2. left' \in [Budget -> Nat]
  BY SpendType DEF RouteExpires, NeighbourSilent, BroadcastHello, Restart, Lose, TypeOK, Budget
<1>3. ASSUME NEW n \in Node, NEW d \in Node, RouteExpires(n, d)
      PROVE  TypeOK'
  <2>1. [rt[n][d] EXCEPT !.live = FALSE] \in RouteEntry
    <3>1. IsTable(rt[n], Node, RouteEntry) /\ d \in DOMAIN rt[n]
      BY <1>3, TableOf DEF RouteExpires, TypeOK
    <3>2. rt[n][d] \in RouteEntry
      BY <3>1, RouteFields
    <3>3. QED BY <3>2 DEF RouteEntry
  <2>2. IsTable([rt[n] EXCEPT ![d].live = FALSE], Node, RouteEntry)
    BY <1>3, <2>1, TableOf DEF RouteExpires, IsTable, TypeOK
  <2>3. AreTables(rt', Node, Node, RouteEntry)
    BY <1>3, <2>2, OneTableType DEF RouteExpires, TypeOK
  <2>4. QED BY <1>1, <1>2, <1>3, <2>3 DEF RouteExpires, TypeOK, AreTables
<1>4. ASSUME NEW n \in Node, NEW id \in Node, NeighbourSilent(n, id)
      PROVE  TypeOK'
  <2>1. IsTable(nbr[n], Node, NeighboursEntry)
    BY TableOf DEF TypeOK
  <2>2. [nbr[n][id] EXCEPT !.silent = TRUE] \in NeighboursEntry
    BY <1>4, <2>1 DEF NeighbourSilent, NeighboursEntry, IsTable
  <2>3. IsTable([nbr[n] EXCEPT ![id].silent = TRUE], Node, NeighboursEntry)
    BY <1>4, <2>1, <2>2 DEF NeighbourSilent, IsTable
  <2>4. AreTables(nbr', Node, Node, NeighboursEntry)
    BY <1>4, <2>3, OneTableType DEF NeighbourSilent, TypeOK
  <2>5. QED BY <1>1, <1>2, <1>4, <2>4 DEF NeighbourSilent, TypeOK, AreTables
<1>5. ASSUME NEW n \in Node, BroadcastHello(n)
      PROVE  TypeOK'
  <2>1. [type |-> "HELLO", src |-> n] \in Message
    BY DEF Message, HELLO
  <2>2. net' \subseteq Datagram
    BY <1>5, <2>1, BroadcastType DEF BroadcastHello, TypeOK
  <2>3. QED BY <1>1, <1>2, <1>5, <2>2 DEF BroadcastHello, TypeOK, AreTables
<1>6. ASSUME NEW n \in Node, Restart(n)
      PROVE  TypeOK'
  <2>1. \A E : IsTable(NewTable, Node, E)
    BY DEF IsTable, NewTable
  <2>2. /\ AreTables(nbr', Node, Node, NeighboursEntry)
        /\ AreTables(rt', Node, Node, RouteEntry)
        /\ AreTables(seen', Node, Node, Seqs)
    BY <1>6, <2>1, OneTableType DEF Restart, TypeOK
  <2>3. seqNum' \in [Node -> Seqs]
    BY <1>6, MeshAssumption DEF Restart, TypeOK, Seqs
  <2>4. /\ pend' \in [Node -> [Node -> Seq(Payload)]]
        /\ \A m \in Node, e \in Node : Len(pend'[m][e]) <= MaxQueue
    BY <1>6, MeshAssumption DEF Restart, TypeOK
  <2>5. /\ inbox' \in [Node -> Seq(Node \X Payload)]
        /\ accepted' \in [Node -> SUBSET (Node \X Node \X Seqs)]
    <3>1. /\ inbox' = [inbox EXCEPT ![n] = <<>>]
          /\ accepted' = [accepted EXCEPT ![n] = {}]
      BY <1>6 DEF Restart
    <3>2. <<>> \in Seq(Node \X Payload) OBVIOUS
    <3>3. inbox' \in [Node -> Seq(Node \X Payload)]
      BY <3>1, <3>2 DEF TypeOK
    <3>4. QED BY <3>1, <3>3 DEF TypeOK
  <2>6. QED BY <1>1, <1>2, <1>6, <2>2, <2>3, <2>4, <2>5 DEF Restart, TypeOK
<1>7. ASSUME NEW p \in net, Lose(p)
      PROVE  TypeOK'
  BY <1>1, <1>2, <1>7 DEF Lose, TypeOK, AreTables
<1>8. QED BY <1>3, <1>4, <1>5, <1>6, <1>7

-----------------------------------------------------------------------------
(* The initial state has the right types. *)
LEMMA InitType == Init => TypeOK
<1> SUFFICES ASSUME Init PROVE TypeOK OBVIOUS
<1>1. \A E : AreTables([n \in Node |-> NewTable], Node, Node, E)
  BY DEF AreTables, IsTable, NewTable
<1>2. 0 \in Seqs BY MeshAssumption DEF Seqs
<1>3. QED BY <1>1, <1>2, MeshAssumption DEF Init, TypeOK

(* Every step keeps the types. *)
LEMMA NextType == TypeOK /\ [Next]_vars => TypeOK'
<1> SUFFICES ASSUME TypeOK, [Next]_vars PROVE TypeOK' OBVIOUS
<1>1. ASSUME NEW n \in Node, NEW p \in net, HandleMessage(n, p)
      PROVE  TypeOK'
  BY <1>1, HandleHELLOType, DeclineRREQType, AcceptedType, FinishRREPType, RelayRREPType,
     DropRREPType, DATAType, RERRType DEF HandleMessage
<1>2. CASE UNCHANGED vars
  BY <1>2 DEF vars, TypeOK, AreTables
<1>3. QED
  BY <1>1, <1>2, SendDataType, SearchRouteType, CollectNeighboursType, EnvironmentType
     DEF Next, ProcessMessages

(* Whatever the topology, the traffic and the faults: tables stay tables,   *)
(* queues stay within bounds, only well-formed datagrams travel, and every  *)
(* id a handler registers is a node (handleDATA does not register the zero  *)
(* id of an unknown previous hop).                                          *)
THEOREM TypeInvariant == Spec => []TypeOK
BY InitType, NextType, PTL DEF Spec

-----------------------------------------------------------------------------
(* The datagrams on the wire: MarshalBinary and UnmarshalBinary. *)

(* SubSeq of any sequence. *)
LEMMA PartOfSeq ==
  ASSUME NEW s, NEW m \in Int, NEW n \in Int
  PROVE  /\ Len(SubSeq(s, m, n)) = IF m <= n THEN n - m + 1 ELSE 0
         /\ SubSeq(s, m, n) = [i \in 1 .. n - m + 1 |-> s[m + i - 1]]
<1> DEFINE S == {s[i] : i \in m .. n}
           part == SubSeq(s, m, n)
<1>1. \A i \in m .. n : s[i] \in S
  OBVIOUS
<1> HIDE DEF S
<1>2. /\ part \in Seq(S)
      /\ Len(part) = IF m <= n THEN n - m + 1 ELSE 0
      /\ \A i \in 1 .. n - m + 1 : part[i] = s[m + i - 1]
  BY <1>1, SubSeqProperties
<1> HIDE DEF part
<1>3. part \in [1 .. Len(part) -> S]
  BY <1>2, LenProperties
<1>4. 1 .. Len(part) = 1 .. n - m + 1
  BY <1>2
<1>5. part = [i \in 1 .. n - m + 1 |-> s[m + i - 1]]
  BY <1>2, <1>3, <1>4
<1> QED BY <1>2, <1>5 DEF part

(* The number that a field of octets holds is the one that was put there. *)
LEMMA NumberOfOctets ==
  ASSUME NEW v, NEW w \in Nat \ {0}
  PROVE  Number(Octets(v, w)) = v
<1>1. Octets(v, w)[1] = <<v, w - 1>> /\ Len(Octets(v, w)) = w
  BY DEF Octets
<1> QED BY <1>1 DEF Number

(* The fields lie within the size and apart from each other. *)
FieldsApart(fields, size) ==
  /\ \A f \in DOMAIN fields :
       /\ fields[f][1] \in Nat /\ fields[f][2] \in Nat \ {0}
       /\ fields[f][1] + fields[f][2] <= size
  /\ \A f, g \in DOMAIN fields :
       \/ f = g
       \/ fields[f][1] + fields[f][2] <= fields[g][1]
       \/ fields[g][1] + fields[g][2] <= fields[f][1]

(* Each field is read as it was written, whatever follows. *)
LEMMA FieldsRead ==
  ASSUME NEW m, NEW fields, NEW size \in Nat, FieldsApart(fields, size), NEW data,
         \A i \in 1 .. size : data[i] = PutFields(m, fields, size)[i]
  PROVE  GetFields(data, fields) = [f \in DOMAIN fields |-> m[f]]
<1> SUFFICES ASSUME NEW f \in DOMAIN fields
             PROVE  Number(SubSeq(data, fields[f][1] + 1, fields[f][1] + fields[f][2])) = m[f]
  BY Zenon DEF GetFields
<1> DEFINE o == fields[f][1]
           w == fields[f][2]
           Covers(g, i) == i \in fields[g][1] + 1 .. fields[g][1] + fields[g][2]
<1>1. o \in Nat /\ w \in Nat \ {0} /\ o + w <= size
  BY DEF FieldsApart
<1>2. \A i \in 1 .. w : data[o + i] = Octets(m[f], w)[i]
  <2> TAKE i \in 1 .. w
  <2>1. o + i \in 1 .. size /\ Covers(f, o + i) /\ (o + i) - o = i
    BY <1>1
  <2>2. \A g \in DOMAIN fields : Covers(g, o + i) => g = f
    BY <1>1 DEF FieldsApart
  <2> HIDE DEF Covers
  <2>3. (CHOOSE g \in DOMAIN fields : Covers(g, o + i)) = f
    BY <2>1, <2>2
  <2>4. PutFields(m, fields, size)[o + i] = Octets(m[f], w)[(o + i) - o]
    BY <2>1, <2>3 DEF PutFields, Covers
  <2> QED BY <2>1, <2>4
<1> DEFINE part == SubSeq(data, o + 1, o + w)
<1>3. o + 1 \in Int /\ o + w \in Int
  BY <1>1
<1> HIDE DEF o, w
<1>4. part = [i \in 1 .. (o + w) - (o + 1) + 1 |-> data[(o + 1) + i - 1]]
  BY <1>3, PartOfSeq
<1>5. part = [i \in 1 .. w |-> data[o + i]]
  BY <1>1, <1>4
<1>6. part = Octets(m[f], w)
  BY <1>2, <1>5 DEF Octets
<1> QED BY <1>1, <1>6, NumberOfOctets DEF o, w

(* Readers and writers agree on the places of the fields. *)
LEMMA TablesApart ==
  /\ GetHeader = PutHeader /\ GetBody = PutBody
  /\ HeaderSize = 34 /\ MinDATA = 38 /\ DOMAIN Size = DOMAIN MsgType /\ DOMAIN PutBody = DOMAIN Size
  /\ \A t \in DOMAIN Size : Size[t] - HeaderSize \in Nat /\ Size[t] > HeaderSize
  /\ FieldsApart(PutHeader, HeaderSize)
  /\ \A t \in DOMAIN Size : FieldsApart(PutBody[t], Size[t] - HeaderSize)
<1>1. GetHeader = PutHeader
  BY DEF GetHeader, PutHeader
<1>2. GetBody = PutBody
  BY DEF GetBody, PutBody, GetHELLO, GetRREQ, GetRREP, GetRERR, GetDATA,
         PutHELLO, PutRREQ, PutRREP, PutRERR, PutDATA
<1>3. /\ HeaderSize = 34 /\ MinDATA = 38
      /\ Size = [HELLO |-> 36, RREQ |-> 51, RREP |-> 43, RERR |-> 43, DATA |-> 38]
  BY DEF HeaderSize, MinDATA, Size
<1>4. DOMAIN Size = DOMAIN MsgType /\ DOMAIN PutBody = DOMAIN Size
  BY <1>3 DEF MsgType, PutBody
<1>5. \A t \in DOMAIN Size : Size[t] - HeaderSize \in Nat /\ Size[t] > HeaderSize
  BY <1>3
<1>6. FieldsApart(PutHeader, 34)
  BY DEF FieldsApart, PutHeader
<1>7. FieldsApart(PutHELLO, 2) /\ FieldsApart(PutDATA, 4)
  BY DEF FieldsApart, PutHELLO, PutDATA
<1>8. FieldsApart(PutRREQ, 17) /\ FieldsApart(PutRREP, 9) /\ FieldsApart(PutRERR, 9)
  BY DEF FieldsApart, PutRREQ, PutRREP, PutRERR
<1>9. \A t \in DOMAIN Size : FieldsApart(PutBody[t], Size[t] - HeaderSize)
  BY <1>3, <1>7, <1>8 DEF PutBody
<1> QED BY <1>1, <1>2, <1>3, <1>4, <1>5, <1>6, <1>9

(* n octets, whatever they are. *)
Slice(s, n) == (\E S : s \in Seq(S)) /\ Len(s) = n

(* What PutFields returns is a slice of the size it was given. *)
LEMMA PutFieldsSlice ==
  ASSUME NEW m, NEW fields, NEW size \in Nat
  PROVE  Slice(PutFields(m, fields, size), size)
<1> DEFINE data == PutFields(m, fields, size)
           S == {data[i] : i \in 1 .. size}
<1>1. data = [i \in 1 .. size |-> data[i]]
  BY DEF PutFields
<1> HIDE DEF data
<1>2. data \in [1 .. size -> S]
  BY <1>1
<1>3. data \in Seq(S)
  BY <1>2, SeqDef
<1>4. DOMAIN data = 1 .. size /\ DOMAIN data = 1 .. Len(data) /\ Len(data) \in Nat
  BY <1>2, <1>3, LenProperties
<1>5. Len(data) = size
  BY <1>4
<1> QED BY <1>3, <1>5 DEF data, Slice

(* Slice both is the m octets of s, then the n of t. *)
Joined(both, s, m, t, n) ==
  /\ Slice(both, m + n)
  /\ \A i \in 1 .. m : both[i] = s[i]
  /\ \A i \in 1 .. n : both[m + i] = t[i]

LEMMA TwoParts ==
  ASSUME NEW s, NEW t, NEW m \in Nat, NEW n \in Nat, Slice(s, m), Slice(t, n)
  PROVE  Joined(s \o t, s, m, t, n)
<1> DEFINE both == s \o t
<1>1. PICK A, B : s \in Seq(A) /\ t \in Seq(B)
  BY DEF Slice
<1>2. s \in Seq(A \cup B) /\ t \in Seq(A \cup B)
  <2>1. A \subseteq A \cup B /\ B \subseteq A \cup B
    OBVIOUS
  <2> QED BY <1>1, <2>1, SeqMonotonic
<1>3. Len(s) = m /\ Len(t) = n
  BY DEF Slice
<1>4. /\ both \in Seq(A \cup B) /\ Len(both) = Len(s) + Len(t)
      /\ \A i \in 1 .. Len(s) + Len(t) :
           both[i] = IF i <= Len(s) THEN s[i] ELSE t[i - Len(s)]
  BY <1>2, ConcatProperties
<1> HIDE DEF both
<1>5. \A i \in 1 .. m : both[i] = s[i]
  BY <1>3, <1>4
<1>6. \A i \in 1 .. n : both[m + i] = t[i]
  BY <1>3, <1>4
<1>7. Slice(both, m + n)
  BY <1>3, <1>4 DEF Slice
<1> QED BY <1>5, <1>6, <1>7 DEF both, Joined

(* What a datagram is made of: header, body and, of DATA, the payload. *)
Body(t) == Size[t] - HeaderSize
Extra(t, k) == IF t = "DATA" THEN k ELSE 0
HasParts(data, t, w, k) ==
  /\ \A i \in 1 .. 34 : data[i] = PutFields(w, PutHeader, 34)[i]
  /\ \A i \in 1 .. Body(t) : data[34 + i] = PutFields(w, PutBody[t], Body(t))[i]
  /\ \A i \in 1 .. Extra(t, k) : data[38 + i] = w.payload[i]

LEMMA PartsOfDatagram ==
  ASSUME NEW t \in DOMAIN Size, NEW w, NEW k \in Nat, t = "DATA" => Slice(w.payload, k)
  PROVE  /\ Slice(MarshalBinary(t, w), 34 + Body(t) + Extra(t, k))
         /\ HasParts(MarshalBinary(t, w), t, w, k)
<1> DEFINE header == PutFields(w, PutHeader, 34)
           body == PutFields(w, PutBody[t], Body(t))
           both == header \o body
           more == both \o w.payload
           data == MarshalBinary(t, w)
<1>1. HeaderSize = 34 /\ MinDATA = 38 /\ Body(t) \in Nat /\ 34 \in Nat
  BY TablesApart DEF Body
<1>2. t = "DATA" => Body(t) = 4
  BY DEF Body, Size, MinDATA, HeaderSize
<1>3. Slice(header, 34) /\ Slice(body, Body(t))
  BY <1>1, PutFieldsSlice
<1>4. data = IF t = "DATA" THEN more ELSE both
  BY <1>1 DEF MarshalBinary, Body
<1> HIDE DEF header, body, data
<1>5. Joined(both, header, 34, body, Body(t))
  BY <1>1, <1>3, TwoParts
<1> HIDE DEF both
<1>6. /\ Slice(both, 34 + Body(t))
      /\ \A i \in 1 .. 34 : both[i] = header[i]
      /\ \A i \in 1 .. Body(t) : both[34 + i] = body[i]
  BY <1>5 DEF Joined
<1>7. CASE t = "DATA"
  <2>1. Body(t) = 4 /\ data = more /\ Extra(t, k) = k /\ 34 + Body(t) \in Nat
    BY <1>2, <1>4, <1>7 DEF Extra
  <2>2. /\ Slice(more, 34 + Body(t) + k)
        /\ \A i \in 1 .. 34 + Body(t) : more[i] = both[i]
        /\ \A i \in 1 .. k : more[34 + Body(t) + i] = w.payload[i]
    <3>1. Slice(both, 34 + Body(t)) /\ Slice(w.payload, k)
      BY <1>6, <1>7
    <3>2. Joined(more, both, 34 + Body(t), w.payload, k)
      BY <2>1, <3>1, TwoParts
    <3> QED BY <3>2 DEF Joined
  <2> HIDE DEF more
  <2>3. \A i \in 1 .. 34 : data[i] = header[i]
    BY <1>6, <2>1, <2>2
  <2>4. \A i \in 1 .. Body(t) : data[34 + i] = body[i]
    BY <1>6, <2>1, <2>2
  <2>5. \A i \in 1 .. Extra(t, k) : data[38 + i] = w.payload[i]
    BY <2>1, <2>2
  <2> QED BY <2>1, <2>2, <2>3, <2>4, <2>5 DEF header, body, data, HasParts
<1>8. CASE t # "DATA"
  <2>1. data = both /\ Extra(t, k) = 0 /\ 34 + Body(t) + 0 = 34 + Body(t) /\ 1 .. 0 = {}
    BY <1>1, <1>4, <1>8 DEF Extra
  <2> QED BY <1>6, <2>1 DEF header, body, data, HasParts
<1> QED BY <1>7, <1>8

(* The fields of header and body of a message of type t. *)
Carried(t, w) ==
  Together([f \in DOMAIN PutBody[t] |-> w[f]], [f \in DOMAIN PutHeader |-> w[f]])

(* A prefix of slice s, and the rest of it. *)
LEMMA PrefixAndRest ==
  ASSUME NEW s, NEW m \in Nat, NEW n \in Nat
  PROVE  /\ Len(SubSeq(s, 1, n)) = n
         /\ \A i \in 1 .. n : SubSeq(s, 1, n)[i] = s[i]
         /\ \A i \in 1 .. n - m : SubSeq(s, m + 1, n)[i] = s[m + i]
         /\ SubSeq(s, m + 1, n) = [i \in 1 .. n - m |-> s[m + i]]
<1>1. Len(SubSeq(s, 1, n)) = n /\ SubSeq(s, 1, n) = [i \in 1 .. n - 1 + 1 |-> s[1 + i - 1]]
  BY PartOfSeq
<1>2. SubSeq(s, m + 1, n) = [i \in 1 .. n - (m + 1) + 1 |-> s[(m + 1) + i - 1]]
  BY PartOfSeq
<1>3. SubSeq(s, m + 1, n) = [i \in 1 .. n - m |-> s[m + i]]
  BY <1>2
<1>4. \A i \in 1 .. n : SubSeq(s, 1, n)[i] = s[i]
  BY <1>1
<1>5. \A i \in 1 .. n - m : SubSeq(s, m + 1, n)[i] = s[m + i]
  BY <1>3
<1> QED BY <1>1, <1>3, <1>4, <1>5

(* What is received of the first n octets of a datagram. *)
LEMMA DatagramRead ==
  ASSUME NEW t \in DOMAIN Size, NEW w, w.type = MsgType[t], NEW k \in Nat,
         t = "DATA" => Slice(w.payload, k),
         NEW n \in 0 .. 34 + Body(t) + Extra(t, k)
  PROVE  Received(SubSeq(MarshalBinary(t, w), 1, n))
           = IF n < 34 + Body(t) THEN Refused
             ELSE IF t = "DATA"
             THEN Together([payload |-> SubSeq(w.payload, 1, n - 38)], Carried(t, w))
             ELSE Carried(t, w)
<1> DEFINE all == MarshalBinary(t, w)
           data == SubSeq(all, 1, n)
           head == SubSeq(data, 1, 34)
           rest == SubSeq(data, 35, n)
<1>1. /\ HeaderSize = 34 /\ MinDATA = 38 /\ Body(t) \in Nat \ {0} /\ Size[t] = 34 + Body(t)
      /\ 34 \in Nat /\ 38 \in Nat
  <2>1. Size[t] \in Nat
    BY DEF Size, HeaderSize, MinDATA
  <2> QED BY <2>1, TablesApart DEF Body
<1>2. t = "DATA" => Body(t) = 4
  BY DEF Body, Size, MinDATA, HeaderSize
<1>3. n \in Nat /\ Extra(t, k) \in Nat /\ (t # "DATA" => Extra(t, k) = 0)
  BY <1>1 DEF Extra
<1>4. /\ \A i \in 1 .. 34 : all[i] = PutFields(w, PutHeader, 34)[i]
      /\ \A i \in 1 .. Body(t) : all[34 + i] = PutFields(w, PutBody[t], Body(t))[i]
      /\ \A i \in 1 .. Extra(t, k) : all[38 + i] = w.payload[i]
  <2>1. HasParts(all, t, w, k)
    BY PartsOfDatagram
  <2> QED BY <2>1 DEF HasParts
<1> HIDE DEF all
<1>5. Len(data) = n
  BY <1>3, PrefixAndRest
<1>6. \A i \in 1 .. n : data[i] = all[i]
  BY <1>1, <1>3, PrefixAndRest
<1> HIDE DEF data
<1>7. \A i \in 1 .. 34 : head[i] = data[i]
  BY <1>1, PrefixAndRest
<1>8. \A i \in 1 .. n - 34 : rest[i] = data[34 + i]
  <2>1. \A i \in 1 .. n - 34 : SubSeq(data, 34 + 1, n)[i] = data[34 + i]
    BY <1>1, <1>3, PrefixAndRest
  <2> QED BY <2>1
<1> HIDE DEF head, rest
<1>9. ASSUME n >= 34
      PROVE  \A i \in 1 .. 34 : /\ data[i] = PutFields(w, PutHeader, 34)[i]
                               /\ head[i] = PutFields(w, PutHeader, 34)[i]
  BY <1>3, <1>4, <1>6, <1>7, <1>9
<1>10. ASSUME n >= 34
       PROVE  /\ GetFields(data, PutHeader) = [f \in DOMAIN PutHeader |-> w[f]]
              /\ GetFields(head, PutHeader) = [f \in DOMAIN PutHeader |-> w[f]]
  <2>1. FieldsApart(PutHeader, 34)
    BY <1>1, TablesApart
  <2> QED BY <1>1, <1>9, <1>10, <2>1, FieldsRead
<1>11. ASSUME n >= 34
       PROVE  Number(SubSeq(data, 1, 1)) = MsgType[t]
  <2>1. GetFields(data, PutHeader)["type"] = w["type"]
    BY <1>10, <1>11 DEF PutHeader
  <2>2. GetFields(data, PutHeader)["type"] = Number(SubSeq(data, 1, 1))
    BY DEF GetFields, PutHeader
  <2> QED BY <2>1, <2>2
<1>12. ASSUME n >= 34 + Body(t)
       PROVE  GetFields(rest, PutBody[t]) = [f \in DOMAIN PutBody[t] |-> w[f]]
  <2>1. \A i \in 1 .. Body(t) : i \in 1 .. n - 34 /\ 34 + i \in 1 .. n
    BY <1>1, <1>3, <1>12
  <2>2. \A i \in 1 .. Body(t) : rest[i] = PutFields(w, PutBody[t], Body(t))[i]
    BY <1>4, <1>6, <1>8, <2>1
  <2>3. FieldsApart(PutBody[t], Body(t))
    BY TablesApart DEF Body
  <2> QED BY <1>1, <2>2, <2>3, FieldsRead
<1>13. Received(data) = IF n < 34 THEN Refused ELSE UnmarshalBinary(t, data)
  <2>1. CASE n < 34
    BY <1>1, <1>5, <2>1 DEF Received
  <2>2. CASE n >= 34
    <3>1. t \in DOMAIN MsgType
      BY TablesApart
    <3>2. \A v : v = MsgType[t] => (CHOOSE u \in DOMAIN MsgType : MsgType[u] = v) = t
      BY <3>1 DEF MsgType
    <3>3. ~(\A u \in DOMAIN MsgType : MsgType[u] # MsgType[t])
      BY <3>1
    <3>4. ~(Len(data) < HeaderSize) /\ ~(n < 34)
      BY <1>1, <1>3, <1>5, <2>2
    <3>5. Number(SubSeq(data, 1, 1)) = MsgType[t]
      BY <1>11, <2>2
    <3>6. (CHOOSE u \in DOMAIN MsgType : MsgType[u] = Number(SubSeq(data, 1, 1))) = t
      BY <3>2, <3>5, Zenon
    <3>7. ~(\A u \in DOMAIN MsgType : MsgType[u] # Number(SubSeq(data, 1, 1)))
      BY <3>3, <3>5
    <3> QED BY <3>4, <3>6, <3>7, Zenon DEF Received
  <2> QED BY <1>3, <2>1, <2>2
<1>14. UnmarshalBinary(t, data)
         = IF t = "DATA"
           THEN IF n < 38 THEN Refused
                ELSE Together([payload |-> SubSeq(data, 39, n)],
                              Together(GetFields(rest, PutBody[t]), GetFields(head, PutHeader)))
           ELSE IF n # 34 + Body(t) THEN Refused
                ELSE Together(GetFields(rest, PutBody[t]), GetFields(head, PutHeader))
  <2>1. GetHeader = PutHeader /\ GetBody = PutBody
    BY TablesApart
  <2>2. UnmarshalBinary(t, data)
          = LET m == Together(GetFields(rest, PutBody[t]), GetFields(head, PutHeader))
            IN  IF t = "DATA"
                THEN IF n < 38 THEN Refused ELSE Together([payload |-> SubSeq(data, 39, n)], m)
                ELSE IF n # Size[t] THEN Refused ELSE m
    BY <1>1, <1>5, <2>1 DEF UnmarshalBinary, rest, head
  <2> QED BY <1>1, <2>2, Zenon
<1>15. CASE n < 34
  BY <1>1, <1>3, <1>13, <1>15 DEF data, all
<1>16. CASE n >= 34 /\ n < 34 + Body(t)
  BY <1>1, <1>2, <1>3, <1>13, <1>14, <1>16 DEF data, all
<1>17. CASE n >= 34 + Body(t)
  <2>1. n >= 34 /\ ~(n < 34) /\ ~(n < 34 + Body(t))
    BY <1>1, <1>3, <1>17
  <2>2. Together(GetFields(rest, PutBody[t]), GetFields(head, PutHeader)) = Carried(t, w)
    BY <1>10, <1>12, <1>17, <2>1, Zenon DEF Carried
  <2>3. CASE t # "DATA"
    <3>1. n = 34 + Body(t)
      BY <1>1, <1>3, <1>17, <2>3
    <3> QED BY <1>13, <1>14, <2>1, <2>2, <2>3, <3>1 DEF data, all
  <2>4. CASE t = "DATA"
    <3>1. n >= 38 /\ n - 38 \in Nat /\ n - 38 <= Extra(t, k)
      BY <1>1, <1>2, <1>3, <1>17, <2>4
    <3>2. SubSeq(data, 38 + 1, n) = [i \in 1 .. n - 38 |-> data[38 + i]]
      BY <1>1, <1>3, PrefixAndRest
    <3>3. SubSeq(w.payload, 0 + 1, n - 38) = [i \in 1 .. (n - 38) - 0 |-> w.payload[0 + i]]
      BY <3>1, PrefixAndRest
    <3>4. SubSeq(w.payload, 1, n - 38) = [i \in 1 .. n - 38 |-> w.payload[i]]
      BY <3>1, <3>3
    <3>5. \A i \in 1 .. n - 38 : i \in 1 .. Extra(t, k) /\ 38 + i \in 1 .. n
      BY <1>3, <3>1
    <3>6. \A i \in 1 .. n - 38 : data[38 + i] = w.payload[i]
      BY <1>4, <1>6, <3>5
    <3>7. SubSeq(data, 39, n) = SubSeq(w.payload, 1, n - 38)
      BY <3>2, <3>4, <3>6
    <3>8. ~(n < 38)
      BY <3>1
    <3> QED BY <1>13, <1>14, <2>1, <2>2, <2>4, <3>7, <3>8 DEF data, all
  <2> QED BY <2>3, <2>4
<1> QED BY <1>1, <1>3, <1>15, <1>16, <1>17

(* The record that a message of the mesh stands for on the wire: its type   *)
(* has a number, its payload is as long as asked, and every field of it has *)
(* a place in the header, in the body of its type or after it.              *)
LEMMA OnWireFields ==
  ASSUME NEW m \in Message, NEW k \in Nat, NEW rest
  PROVE  /\ m.type \in DOMAIN Size /\ OnWire(m, k, rest).type = MsgType[m.type]
         /\ m.type = "DATA" => "payload" \in DOMAIN m /\ Slice(OnWire(m, k, rest).payload, k)
         /\ \A f \in DOMAIN m :
              \/ f \in DOMAIN PutHeader \/ f \in DOMAIN PutBody[m.type]
              \/ f = "payload" /\ m.type = "DATA"
         /\ "payload" \notin DOMAIN PutHeader /\ "payload" \notin DOMAIN PutBody[m.type]
<1>1. "type" \in DOMAIN m /\ m.type \in {"HELLO", "RREQ", "RREP", "RERR", "DATA"}
  BY DEF Message, HELLO, RREQ, RREP, RERR, DATA
<1>2. DOMAIN Size = {"HELLO", "RREQ", "RREP", "RERR", "DATA"}
  BY DEF Size
<1>3. OnWire(m, k, rest).type = MsgType[m.type]
  BY <1>1 DEF OnWire, Together
<1>4. ASSUME m.type = "DATA"
      PROVE  "payload" \in DOMAIN m /\ Slice(OnWire(m, k, rest).payload, k)
  <2>1. "payload" \in DOMAIN m
    BY <1>4 DEF Message, HELLO, RREQ, RREP, RERR, DATA
  <2>2. OnWire(m, k, rest).payload = Octets(m.payload, k)
    BY <2>1 DEF OnWire, Together
  <2> DEFINE o == Octets(m.payload, k)
             S == {o[i] : i \in 1 .. k}
  <2>3. o = [i \in 1 .. k |-> o[i]]
    BY DEF Octets
  <2> HIDE DEF o
  <2>4. o \in [1 .. k -> S]
    BY <2>3
  <2>5. o \in Seq(S)
    BY <2>4, SeqDef
  <2>6. DOMAIN o = 1 .. k /\ DOMAIN o = 1 .. Len(o) /\ Len(o) \in Nat
    BY <2>4, <2>5, LenProperties
  <2>7. Len(o) = k
    BY <2>6
  <2> QED BY <2>1, <2>2, <2>5, <2>7 DEF Slice, o
<1>5. \A f \in DOMAIN m :
        \/ f \in DOMAIN PutHeader \/ f \in DOMAIN PutBody[m.type]
        \/ f = "payload" /\ m.type = "DATA"
  <2>1. CASE m \in HELLO
    BY <2>1 DEF HELLO, PutHeader
  <2>2. CASE m \in RREQ
    <3>1. m.type = "RREQ" /\ PutBody["RREQ"] = PutRREQ
      BY <2>2 DEF RREQ, PutBody
    <3> QED BY <2>2, <3>1 DEF RREQ, PutHeader, PutRREQ
  <2>3. CASE m \in RREP
    <3>1. m.type = "RREP" /\ PutBody["RREP"] = PutRREP
      BY <2>3 DEF RREP, PutBody
    <3> QED BY <2>3, <3>1 DEF RREP, PutHeader, PutRREP
  <2>4. CASE m \in RERR
    <3>1. m.type = "RERR" /\ PutBody["RERR"] = PutRERR
      BY <2>4 DEF RERR, PutBody
    <3> QED BY <2>4, <3>1 DEF RERR, PutHeader, PutRERR
  <2>5. CASE m \in DATA
    <3>1. m.type = "DATA" /\ PutBody["DATA"] = PutDATA
      BY <2>5 DEF DATA, PutBody
    <3> QED BY <2>5, <3>1 DEF DATA, PutHeader, PutDATA
  <2> QED BY <2>1, <2>2, <2>3, <2>4, <2>5 DEF Message
<1>6. "payload" \notin DOMAIN PutHeader
  BY DEF PutHeader
<1>7. "payload" \notin DOMAIN PutBody[m.type]
  BY <1>1 DEF PutBody, PutHELLO, PutRREQ, PutRREP, PutRERR, PutDATA
<1> QED BY <1>1, <1>2, <1>3, <1>4, <1>5, <1>6, <1>7

(* Every message is read as it was written, and none that was cut short is  *)
(* read but DATA.                                                           *)
LEMMA MessageFaithful ==
  ASSUME NEW m \in Message, NEW k \in Nat, NEW rest,
         NEW n \in 0 .. Len(MarshalBinary(m.type, OnWire(m, k, rest)))
  PROVE  LET w == OnWire(m, k, rest)
             data == MarshalBinary(m.type, w)
             got == Received(SubSeq(data, 1, n))
         IN  IF n = Len(data) \/ (m.type = "DATA" /\ n >= MinDATA)
             THEN /\ DOMAIN m \subseteq DOMAIN got
                  /\ \A f \in DOMAIN got :
                       got[f] = IF f = "payload" THEN SubSeq(w[f], 1, n - MinDATA) ELSE w[f]
             ELSE got = Refused
<1> DEFINE t == m.type
           w == OnWire(m, k, rest)
           data == MarshalBinary(t, w)
           got == Received(SubSeq(data, 1, n))
           size == 34 + Body(t) + Extra(t, k)
<1>1. /\ t \in DOMAIN Size /\ w.type = MsgType[t] /\ (t = "DATA" => "payload" \in DOMAIN m /\ Slice(w.payload, k))
      /\ \A f \in DOMAIN m :
           \/ f \in DOMAIN PutHeader \/ f \in DOMAIN PutBody[t]
           \/ f = "payload" /\ t = "DATA"
      /\ "payload" \notin DOMAIN PutHeader /\ "payload" \notin DOMAIN PutBody[t]
  BY OnWireFields
<1>2. MinDATA = 38 /\ Body(t) \in Nat \ {0} /\ (t = "DATA" => Body(t) = 4)
  <2>1. t = "DATA" => Body(t) = 4
    BY DEF Body, Size, MinDATA, HeaderSize
  <2>2. Size[t] \in Nat
    BY <1>1 DEF Size, HeaderSize, MinDATA
  <2> QED BY <1>1, <2>1, <2>2, TablesApart DEF Body
<1> HIDE DEF w, t
<1>3. Len(data) = size
  BY <1>1, PartsOfDatagram DEF Slice
<1>4. n \in 0 .. size
  BY <1>3 DEF w, t
<1>5. got = IF n < 34 + Body(t) THEN Refused
            ELSE IF t = "DATA" THEN Together([payload |-> SubSeq(w.payload, 1, n - 38)], Carried(t, w))
            ELSE Carried(t, w)
  BY <1>1, <1>4, DatagramRead
<1> HIDE DEF data, got
<1>6. (n = Len(data) \/ (t = "DATA" /\ n >= MinDATA)) <=> n >= 34 + Body(t)
  BY <1>2, <1>3, <1>4 DEF Extra
<1>7. /\ \A f \in (DOMAIN PutHeader) \cup DOMAIN PutBody[t] :
           f \in DOMAIN Carried(t, w) /\ Carried(t, w)[f] = w[f]
      /\ DOMAIN Carried(t, w) = (DOMAIN PutHeader) \cup DOMAIN PutBody[t]
  BY DEF Carried, Together
<1>8. CASE n >= 34 + Body(t)
  <2>1. ~(n < 34 + Body(t))
    BY <1>2, <1>4, <1>8
  <2>2. CASE t # "DATA"
    <3>1. got = Carried(t, w)
      BY <1>5, <2>1, <2>2
    <3>2. /\ DOMAIN m \subseteq (DOMAIN PutHeader) \cup DOMAIN PutBody[t]
          /\ "payload" \notin (DOMAIN PutHeader) \cup DOMAIN PutBody[t]
      BY <1>1, <2>2
    <3>3. /\ DOMAIN m \subseteq DOMAIN got
          /\ \A f \in DOMAIN got : f # "payload" /\ got[f] = w[f]
      BY <1>7, <3>1, <3>2
    <3> QED BY <1>6, <1>8, <3>3, Zenon DEF data, got, t, w
  <2>3. CASE t = "DATA"
    <3>1. got = Together([payload |-> SubSeq(w.payload, 1, n - 38)], Carried(t, w))
      BY <1>5, <2>1, <2>3
    <3>2. got["payload"] = SubSeq(w.payload, 1, n - 38)
      BY <3>1 DEF Together
    <3>3. /\ DOMAIN got = {"payload"} \cup DOMAIN Carried(t, w)
          /\ \A f \in DOMAIN got : f # "payload" => got[f] = Carried(t, w)[f]
      BY <3>1 DEF Together
    <3>4. /\ DOMAIN m \subseteq DOMAIN got
          /\ \A f \in DOMAIN got :
               got[f] = IF f = "payload" THEN SubSeq(w[f], 1, n - 38) ELSE w[f]
      BY <1>1, <1>7, <3>2, <3>3
    <3> QED BY <1>2, <1>6, <1>8, <3>4, Zenon DEF data, got, t, w
  <2> QED BY <2>2, <2>3
<1>9. CASE ~(n >= 34 + Body(t))
  <2>1. n < 34 + Body(t)
    BY <1>2, <1>4, <1>9
  <2>2. got = Refused
    BY <1>5, <2>1
  <2> QED BY <1>6, <1>9, <2>2, Zenon DEF data, got, t, w
<1> QED BY <1>8, <1>9

(* What the nodes exchange as records survives MarshalBinary and            *)
(* handleMessage, in every mesh, with payloads of every length and any      *)
(* value in the other fields; of the datagrams that are cut short only DATA *)
(* is read.                                                                 *)
THEOREM WireFaithfulHolds == Spec => []WireFaithful
<1>1. ASSUME TypeOK PROVE WireFaithful
  <2>1. {p.m : p \in net} \cup HELLO \subseteq Message
    BY <1>1 DEF TypeOK, Datagram, Message
  <2>2. PayloadLengths \subseteq Nat
    BY WireAssumption
  <2> SUFFICES ASSUME NEW m \in Message, NEW k \in Nat, NEW rest
               PROVE  LET w == OnWire(m, k, rest)
                          data == MarshalBinary(m.type, w)
                      IN  \A n \in 0 .. Len(data) :
                            LET got == Received(SubSeq(data, 1, n))
                            IN  IF n = Len(data) \/ (m.type = "DATA" /\ n >= MinDATA)
                                THEN /\ DOMAIN m \subseteq DOMAIN got
                                     /\ \A f \in DOMAIN got :
                                          got[f] = IF f = "payload"
                                                   THEN SubSeq(w[f], 1, n - MinDATA) ELSE w[f]
                                ELSE got = Refused
    BY <2>1, <2>2, Zenon DEF WireFaithful
  <2> QED BY MessageFaithful, Zenon
<1> QED BY <1>1, TypeInvariant, PTL
=============================================================================
