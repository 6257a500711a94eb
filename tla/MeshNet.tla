------------------------------- MODULE MeshNet -------------------------------
(***************************************************************************)
(* A mesh of nodes running the socket of internal/socket/conn.go.  A step   *)
(* of a node is one whole handler: the message loop treats one datagram, an *)
(* IPC handler runs SendData or SendRREQ, the hello sender or the neighbour *)
(* collector ticks.  The network keeps the datagrams in flight as a set: it *)
(* delivers them in any order, and may lose or duplicate them.              *)
(*                                                                          *)
(* Time is abstracted: a route's lifetime may run out, a neighbour may stay *)
(* silent for three HELLO intervals, each as a step of the environment.     *)
(***************************************************************************)
EXTENDS Integers, Sequences, FiniteSets, Routing

CONSTANTS
  Node,       \* the node ids
  NoNode,     \* id 0, the zero value of an id that was not found
  Lan,        \* the networks; a node has one interface and address per LAN
  Links,      \* Links[n]: the LANs node n is attached to (Socket.links)
  Loopback,   \* whether a host receives its own broadcasts
  TTL,        \* cfg.TTL
  SeqSpace,   \* size of the uint32 sequence counter
  HopSpace,   \* size of a uint8: TTL and HopCount
  Payload,    \* what users write
  Offered,    \* the sends users may ask for: <<source, destination, payload>>
  Wanted,     \* the searches users may ask for (/rreq): <<source, target>>
  MaxQueue,   \* bound on one pending queue; the code has none
  Limit       \* how often each bounded kind of event may happen

Budget == {"hello", "rreq", "lose", "duplicate", "expire", "silence", "restart"}

ASSUME MeshAssumption ==
  /\ NoNode \notin Node
  /\ Links \in [Node -> SUBSET Lan]
  /\ Loopback \in BOOLEAN
  /\ SeqSpace \in Nat /\ SeqSpace > 1 /\ HopSpace \in Nat
  /\ MaxQueue \in Nat /\ MaxQueue < SeqSpace
  /\ TTL \in Nat /\ TTL > 0 /\ TTL < HopSpace
  /\ Offered \subseteq Node \X Node \X Payload
  /\ Wanted \subseteq Node \X Node
  /\ Limit \in [Budget -> Nat]

VARIABLES
  nbr,      \* nbr[n]: NeighboursTable of n
  rt,       \* rt[n]: RoutesTable of n
  seen,     \* seen[n]: seenRREQs, the last BroadcastID per origin
  seqNum,   \* seqNum[n]
  pend,     \* pend[n][d]: pendingMsgs
  inbox,    \* inbox[n]: inboxMsgs, as <<source, payload>>
  net,      \* datagrams in flight
  left,     \* what is left of each budget
  asked,    \* history: the sends users asked for
  accepted, \* history: the requests n accepted since it started
  spoiled   \* history: see TrackOrder

vars == <<nbr, rt, seen, seqNum, pend, inbox, net, left, asked, accepted, spoiled>>

-----------------------------------------------------------------------------
(* Messages and datagrams.  A datagram carries the node it is delivered to  *)
(* and the address <<node, LAN>> it was sent from; since an address is only *)
(* reachable on its own LAN, from[2] also names the receiving interface.    *)
Address == Node \X Lan
Seqs == 0 .. SeqSpace - 1
Byte == 0 .. HopSpace - 1

HELLO == [type: {"HELLO"}, src: Node]
RREQ  == [type: {"RREQ"}, src: Node, dst: Node, srcSeq: Seqs, bid: Seqs,
          hops: Byte, ttl: Byte]
RREP  == [type: {"RREP"}, src: Node, dst: Node, dstSeq: Seqs, hops: Byte]
RERR  == [type: {"RERR"}, src: Node, dst: Node, unreachable: Node]
DATA  == [type: {"DATA"}, src: Node, dst: Node, seq: Seqs, ttl: Byte,
          payload: Payload]
Message == HELLO \cup RREQ \cup RREP \cup RERR \cup DATA
Datagram == [to: Node, from: Address, m: Message]

NeighboursEntry == [addr: Address, iface: Lan, silent: BOOLEAN]
RouteEntry == [seq: Seqs, hops: Byte, next: Node, addr: Address, iface: Lan,
               live: BOOLEAN, pre: SUBSET Node]

(* A broadcast on every link: one datagram for each host on each LAN. *)
Broadcast(n, m) ==
  {p \in [to: Node, from: {n} \X Links[n], m: {m}] :
      p.from[2] \in Links[p.to] /\ (p.to # n \/ Loopback)}

(* sendToAddr: through the named interface, through all when it is unknown. *)
SendToAddr(n, m, a, iface) ==
  {[to |-> a[1], from |-> <<n, l>>, m |-> m] :
      l \in (IF iface \in Links[n] THEN {iface} ELSE Links[n]) \cap {a[2]}}

(* The k-th number after the present one of node n. *)
SeqAfter(n, k) == (seqNum[n] + k) % SeqSpace
Advance(n, k) == seqNum' = [seqNum EXCEPT ![n] = SeqAfter(n, k)]

(* The request SendRREQ builds when the counter has been advanced by k.     *)
(* BroadcastID is SrcSeq + DstSeq, and DstSeq is 0.                         *)
NewRREQ(n, d, k) ==
  [type |-> "RREQ", src |-> n, dst |-> d, srcSeq |-> SeqAfter(n, k),
   bid |-> SeqAfter(n, k), hops |-> 0, ttl |-> TTL]

NewDATA(n, d, k, x) ==
  [type |-> "DATA", src |-> n, dst |-> d, seq |-> SeqAfter(n, k), ttl |-> TTL,
   payload |-> x]

(* SendRERR, with the neighbour table it finds; unknown neighbours get none. *)
SendRERR(n, table, precursor, unreachable) ==
  IF precursor \notin DOMAIN table THEN {}
  ELSE SendToAddr(n, [type |-> "RERR", src |-> n, dst |-> precursor,
                      unreachable |-> unreachable],
                  table[precursor].addr, table[precursor].iface)

NotifyPrecursors(n, table, d) ==
  UNION {SendRERR(n, table, q, d) : q \in rt[n][d].pre}

-----------------------------------------------------------------------------
Init ==
  /\ nbr = [n \in Node |-> NewTable]
  /\ rt = [n \in Node |-> NewTable]
  /\ seen = [n \in Node |-> NewTable]
  /\ seqNum = [n \in Node |-> 0]
  /\ pend = [n \in Node |-> [d \in Node |-> <<>>]]
  /\ inbox = [n \in Node |-> <<>>]
  /\ net = {}
  /\ left = Limit
  /\ asked = {}
  /\ accepted = [n \in Node |-> {}]
  /\ spoiled = {}

Spend(b) == left[b] > 0 /\ left' = [left EXCEPT ![b] = @ - 1]

(* Datagram p reaches its host, which sends the datagrams out; a copy of p  *)
(* may stay in the network.                                                 *)
Consume(p, out) ==
  \/ net' = (net \ {p}) \cup out /\ UNCHANGED left
  \/ Spend("duplicate") /\ net' = net \cup out

(* History.  A destination is spoiled once what orders the routes to it has *)
(* been forgotten: some node deleted its entry, its sequence number went    *)
(* back (restart or wrap), or a hop count about it is at its limit.         *)
TrackOrder ==
  spoiled' = spoiled
    \cup {d \in Node : \E n \in Node : d \in DOMAIN rt[n] /\ d \notin DOMAIN rt'[n]}
    \cup {n \in Node : seqNum'[n] < seqNum[n]}
    \cup {d \in Node : \E p \in net' : /\ p.m.type \in {"RREQ", "RREP"}
                                       /\ p.m.src = d /\ p.m.hops = HopSpace - 1}

-----------------------------------------------------------------------------
(* HELLO *)
BroadcastHello(n) ==
  /\ Spend("hello")
  /\ net' = net \cup Broadcast(n, [type |-> "HELLO", src |-> n])
  /\ UNCHANGED <<nbr, rt, seen, seqNum, pend, inbox, asked, accepted>>
  /\ TrackOrder

HandleHELLO(n, p) ==
  /\ p.m.type = "HELLO"
  /\ nbr' = [nbr EXCEPT ![n] = UpdateNeighbour(@, p.m.src, p.from, p.from[2])]
  /\ Consume(p, {})
  /\ UNCHANGED <<rt, seen, seqNum, pend, inbox, asked, accepted>>
  /\ TrackOrder

(* Mutant: no fallback, unknown senders are not served. *)
Sender_KnownOnly(n, p) == NeighboursByAddr(nbr[n], p.from)

(* The id a handler takes the sender of p for; if no neighbour has the      *)
(* address, the originator of the message.                                  *)
Sender(n, p) ==
  LET known == NeighboursByAddr(nbr[n], p.from)
  IN  IF known = {} THEN {p.m.src} ELSE known

-----------------------------------------------------------------------------
(* RREQ *)
(* Mutant: the last id itself is not taken for a duplicate. *)
Duplicate_Older(n, m) == m.src \in DOMAIN seen[n] /\ m.bid < seen[n][m.src]

(* Mutant: one last id for all origins. *)
Duplicate_AnyOrigin(n, m) == \E o \in DOMAIN seen[n] : m.bid <= seen[n][o]

Duplicate(n, m) == m.src \in DOMAIN seen[n] /\ m.bid <= seen[n][m.src]

DeclineRREQ(n, p) ==
  /\ p.m.type = "RREQ"
  /\ p.m.src = n \/ Duplicate(n, p.m)
  /\ Consume(p, {})
  /\ UNCHANGED <<nbr, rt, seen, seqNum, pend, inbox, asked, accepted>>
  /\ TrackOrder

(* What every accepted request does: note its id, install the reverse route. *)
AcceptRREQ(n, p) ==
  /\ p.m.type = "RREQ"
  /\ p.m.src # n /\ ~Duplicate(n, p.m)
  /\ seen' = [seen EXCEPT ![n] = Put(@, p.m.src, p.m.bid)]
  /\ \E hop \in Sender(n, p) :
       rt' = [rt EXCEPT ![n] = UpdateRoute(@, p.m.src,
               [seq |-> p.m.srcSeq, hops |-> (p.m.hops + 1) % HopSpace,
                next |-> hop, addr |-> p.from, iface |-> p.from[2],
                live |-> TRUE, pre |-> {}])]
  /\ accepted' = [accepted EXCEPT ![n] = @ \cup {<<p.m.src, p.m.dst, p.m.bid>>}]
  /\ UNCHANGED <<nbr, pend, inbox, asked>>

AnswerRREQ(n, p) ==
  /\ AcceptRREQ(n, p)
  /\ p.m.dst = n
  /\ Advance(n, 1)
  /\ Consume(p, SendToAddr(n, [type |-> "RREP", src |-> n, dst |-> p.m.src,
                               dstSeq |-> SeqAfter(n, 1), hops |-> 0],
                           p.from, p.from[2]))
  /\ TrackOrder

(* Mutant: the last hop of the time to live relays as well. *)
RelayRREQ_LastHop(n, p) ==
  /\ AcceptRREQ(n, p)
  /\ p.m.dst # n /\ p.m.ttl >= 1
  /\ Consume(p, Broadcast(n, [p.m EXCEPT !.ttl = @ - 1,
                                         !.hops = (@ + 1) % HopSpace]))
  /\ UNCHANGED seqNum
  /\ TrackOrder

(* Mutant: the relayed request does not count the hop. *)
RelayRREQ_SameHops(n, p) ==
  /\ AcceptRREQ(n, p)
  /\ p.m.dst # n /\ p.m.ttl > 1
  /\ Consume(p, Broadcast(n, [p.m EXCEPT !.ttl = @ - 1]))
  /\ UNCHANGED seqNum
  /\ TrackOrder

RelayRREQ(n, p) ==
  /\ AcceptRREQ(n, p)
  /\ p.m.dst # n /\ p.m.ttl > 1
  /\ Consume(p, Broadcast(n, [p.m EXCEPT !.ttl = @ - 1,
                                         !.hops = (@ + 1) % HopSpace]))
  /\ UNCHANGED seqNum
  /\ TrackOrder

DropRREQ(n, p) ==
  /\ AcceptRREQ(n, p)
  /\ p.m.dst # n /\ p.m.ttl <= 1
  /\ Consume(p, {})
  /\ UNCHANGED seqNum
  /\ TrackOrder

-----------------------------------------------------------------------------
(* RREP *)

(* Mutant: only the requester installs the forward route. *)
WithForwardRoute_AtRequester(n, p, hop) ==
  IF p.m.dst # n THEN rt[n]
  ELSE UpdateRoute(rt[n], p.m.src,
         [seq |-> p.m.dstSeq, hops |-> (p.m.hops + 1) % HopSpace,
          next |-> hop, addr |-> p.from, iface |-> p.from[2],
          live |-> TRUE, pre |-> {}])

(* Mutant: the sequence number is counted up on the way. *)
WithForwardRoute_NextSeq(n, p, hop) ==
  UpdateRoute(rt[n], p.m.src,
    [seq |-> (p.m.dstSeq + 1) % SeqSpace, hops |-> (p.m.hops + 1) % HopSpace,
     next |-> hop, addr |-> p.from, iface |-> p.from[2],
     live |-> TRUE, pre |-> {}])

(* The routes of n with the forward route that reply p offers through hop. *)
WithForwardRoute(n, p, hop) ==
  UpdateRoute(rt[n], p.m.src,
    [seq |-> p.m.dstSeq, hops |-> (p.m.hops + 1) % HopSpace,
     next |-> hop, addr |-> p.from, iface |-> p.from[2],
     live |-> TRUE, pre |-> {}])

(* Mutant: the queue is sent and kept. *)
TakePending_Keep(n, d) == UNCHANGED pend

(* The queue for d is taken out of pendingMsgs before it is sent. *)
TakePending(n, d) == pend' = [pend EXCEPT ![n][d] = <<>>]

(* The reply to our own search: SendData again for everything queued.  When *)
(* UpdateRoute kept an entry that had expired, the first of these calls     *)
(* deletes it and all of them queue their message and search once more.     *)
FinishRREP(n, p) ==
  LET d == p.m.src
      k == Len(pend[n][d])
  IN  /\ p.m.type = "RREP" /\ p.m.dst = n
      /\ \E hop \in Sender(n, p) :
           LET table == WithForwardRoute(n, p, hop)
               route == table[d]
           IN  \/ /\ k > 0 /\ RouteFound(table, d)
                  /\ rt' = [rt EXCEPT ![n] = table]
                  /\ TakePending(n, d)
                  /\ Consume(p, UNION {SendToAddr(n, NewDATA(n, d, i, pend[n][d][i]),
                                                  route.addr, route.iface) : i \in 1..k})
               \/ /\ k > 0 /\ ~RouteFound(table, d)
                  /\ rt' = [rt EXCEPT ![n] = AfterFindRoute(table, d)]
                  /\ Consume(p, UNION {Broadcast(n, NewRREQ(n, d, i)) : i \in 1..k})
                  /\ UNCHANGED pend
               \/ /\ k = 0
                  /\ rt' = [rt EXCEPT ![n] = table]
                  /\ Consume(p, {})
                  /\ UNCHANGED pend
      /\ Advance(n, k)
      /\ UNCHANGED <<nbr, seen, inbox, asked, accepted>>
      /\ TrackOrder

RelayRREP(n, p) ==
  /\ p.m.type = "RREP" /\ p.m.dst # n
  /\ \E hop \in Sender(n, p) :
       LET table == WithForwardRoute(n, p, hop)
           route == table[p.m.dst]
       IN  /\ RouteFound(table, p.m.dst)
           /\ rt' = [rt EXCEPT ![n] = AddPrecursor(table, p.m.src, route.next)]
           /\ Consume(p, SendToAddr(n, [p.m EXCEPT !.hops = (@ + 1) % HopSpace],
                                    route.addr, route.iface))
  /\ UNCHANGED <<nbr, seen, seqNum, pend, inbox, asked, accepted>>
  /\ TrackOrder

DropRREP(n, p) ==
  /\ p.m.type = "RREP" /\ p.m.dst # n
  /\ \E hop \in Sender(n, p) :
       LET table == WithForwardRoute(n, p, hop)
       IN  /\ ~RouteFound(table, p.m.dst)
           /\ rt' = [rt EXCEPT ![n] = AfterFindRoute(table, p.m.dst)]
  /\ Consume(p, {})
  /\ UNCHANGED <<nbr, seen, seqNum, pend, inbox, asked, accepted>>
  /\ TrackOrder

-----------------------------------------------------------------------------
(* DATA *)
(* Mutant: the inbox names the node that handed the message over. *)
DeliverDATA_FromHop(n, p) ==
  /\ p.m.type = "DATA" /\ p.m.dst = n
  /\ inbox' = [inbox EXCEPT ![n] = Append(@, <<p.from[1], p.m.payload>>)]
  /\ Consume(p, {})
  /\ UNCHANGED <<nbr, rt, seen, seqNum, pend, asked, accepted>>
  /\ TrackOrder

DeliverDATA(n, p) ==
  /\ p.m.type = "DATA" /\ p.m.dst = n
  /\ inbox' = [inbox EXCEPT ![n] = Append(@, <<p.m.src, p.m.payload>>)]
  /\ Consume(p, {})
  /\ UNCHANGED <<nbr, rt, seen, seqNum, pend, asked, accepted>>
  /\ TrackOrder

(* The neighbour that handed p to n, NoNode if no neighbour has the address. *)
Previous(n, p) ==
  LET known == NeighboursByAddr(nbr[n], p.from)
  IN  IF known = {} THEN {NoNode} ELSE known

(* Mutant: the zero id of an unknown previous hop is registered too. *)
WithPrecursor_Unchecked(n, p, q) == AddPrecursor(rt[n], p.m.dst, q)

(* The routes of n once the previous hop is a precursor. *)
WithPrecursor(n, p, q) ==
  IF q = NoNode THEN rt[n] ELSE AddPrecursor(rt[n], p.m.dst, q)

RelayDATA(n, p) ==
  /\ p.m.type = "DATA" /\ p.m.dst # n
  /\ RouteFound(rt[n], p.m.dst)
  /\ \E q \in Previous(n, p) :
       rt' = [rt EXCEPT ![n] = WithPrecursor(n, p, q)]
  /\ \/ /\ p.m.ttl > 1
        /\ Consume(p, SendToAddr(n, [p.m EXCEPT !.ttl = @ - 1],
                                 rt[n][p.m.dst].addr, rt[n][p.m.dst].iface))
     \/ /\ p.m.ttl <= 1
        /\ Consume(p, {})
  /\ UNCHANGED <<nbr, seen, seqNum, pend, inbox, asked, accepted>>
  /\ TrackOrder

(* No route: the message is lost and the previous hop is told.  An expired  *)
(* entry is deleted together with the precursor it has just been given.     *)
RejectDATA(n, p) ==
  /\ p.m.type = "DATA" /\ p.m.dst # n
  /\ ~RouteFound(rt[n], p.m.dst)
  /\ rt' = [rt EXCEPT ![n] = AfterFindRoute(@, p.m.dst)]
  /\ \E q \in Previous(n, p) : Consume(p, SendRERR(n, nbr[n], q, p.m.dst))
  /\ UNCHANGED <<nbr, seen, seqNum, pend, inbox, asked, accepted>>
  /\ TrackOrder

-----------------------------------------------------------------------------
(* RERR: believed only from the next hop of the route it reports. *)

(* Mutant: believed only from the destination itself. *)
BelievesRERR_FromTarget(n, m) ==
  m.unreachable \in DOMAIN rt[n] /\ rt[n][m.unreachable].next = m.unreachable

BelievesRERR(n, m) ==
  m.unreachable \in DOMAIN rt[n] /\ rt[n][m.unreachable].next = m.src

IgnoreRERR(n, p) ==
  /\ p.m.type = "RERR" /\ ~BelievesRERR(n, p.m)
  /\ Consume(p, {})
  /\ UNCHANGED <<nbr, rt, seen, seqNum, pend, inbox, asked, accepted>>
  /\ TrackOrder

HandleRERR(n, p) ==
  /\ p.m.type = "RERR" /\ BelievesRERR(n, p.m)
  /\ rt' = [rt EXCEPT ![n] = Delete(@, p.m.unreachable)]
  /\ Consume(p, NotifyPrecursors(n, nbr[n], p.m.unreachable))
  /\ UNCHANGED <<nbr, seen, seqNum, pend, inbox, asked, accepted>>
  /\ TrackOrder

-----------------------------------------------------------------------------
(* SendData and SendRREQ, called by the IPC handlers /send and /rreq. *)
SendNow(n, d, x) ==
  /\ RouteFound(rt[n], d)
  /\ Advance(n, 1)
  /\ net' = net \cup SendToAddr(n, NewDATA(n, d, 1, x), rt[n][d].addr, rt[n][d].iface)
  /\ UNCHANGED <<rt, pend>>

Enqueue(n, d, x) ==
  /\ ~RouteFound(rt[n], d)
  /\ Len(pend[n][d]) < MaxQueue
  /\ rt' = [rt EXCEPT ![n] = AfterFindRoute(@, d)]
  /\ pend' = [pend EXCEPT ![n][d] = Append(@, x)]
  /\ Advance(n, 1)
  /\ net' = net \cup Broadcast(n, NewRREQ(n, d, 1))

SendData(n, d, x) ==
  /\ <<n, d, x>> \in Offered \ asked
  /\ asked' = asked \cup {<<n, d, x>>}
  /\ SendNow(n, d, x) \/ Enqueue(n, d, x)
  /\ UNCHANGED <<nbr, seen, inbox, left, accepted>>
  /\ TrackOrder

SearchRoute(n, d) ==
  /\ <<n, d>> \in Wanted
  /\ Spend("rreq")
  /\ rt' = [rt EXCEPT ![n] = AfterFindRoute(@, d)]
  /\ \/ RouteFound(rt[n], d) /\ UNCHANGED <<seqNum, net>>
     \/ /\ ~RouteFound(rt[n], d)
        /\ Advance(n, 1)
        /\ net' = net \cup Broadcast(n, NewRREQ(n, d, 1))
  /\ UNCHANGED <<nbr, seen, pend, inbox, asked, accepted>>
  /\ TrackOrder

-----------------------------------------------------------------------------
(* A tick of StartNeighbourCollector that finds somebody silent.  The dead  *)
(* leave the table first, so a dead precursor is not written to.            *)
CollectNeighbours(n) ==
  LET dead == {id \in DOMAIN nbr[n] : nbr[n][id].silent}
      table == DeleteAll(nbr[n], dead)
      broken == {d \in DOMAIN rt[n] : rt[n][d].next \in dead}
  IN  /\ dead # {}
      /\ nbr' = [nbr EXCEPT ![n] = table]
      /\ rt' = [rt EXCEPT ![n] = DeleteAll(@, broken)]
      /\ net' = net \cup UNION {NotifyPrecursors(n, table, d) : d \in broken}
      /\ UNCHANGED <<seen, seqNum, pend, inbox, left, asked, accepted>>
      /\ TrackOrder

-----------------------------------------------------------------------------
(* The environment: time, the network, and the process being restarted. *)
RouteExpires(n, d) ==
  /\ d \in DOMAIN rt[n] /\ rt[n][d].live
  /\ Spend("expire")
  /\ rt' = [rt EXCEPT ![n][d].live = FALSE]
  /\ UNCHANGED <<nbr, seen, seqNum, pend, inbox, net, asked, accepted>>
  /\ TrackOrder

NeighbourSilent(n, id) ==
  /\ id \in DOMAIN nbr[n] /\ ~nbr[n][id].silent
  /\ Spend("silence")
  /\ nbr' = [nbr EXCEPT ![n][id].silent = TRUE]
  /\ UNCHANGED <<rt, seen, seqNum, pend, inbox, net, asked, accepted>>
  /\ TrackOrder

Lose(p) ==
  /\ Spend("lose")
  /\ net' = net \ {p}
  /\ UNCHANGED <<nbr, rt, seen, seqNum, pend, inbox, asked, accepted>>
  /\ TrackOrder

(* All state is in memory: a restarted node is a new one with the same id. *)
Restart(n) ==
  /\ Spend("restart")
  /\ nbr' = [nbr EXCEPT ![n] = NewTable]
  /\ rt' = [rt EXCEPT ![n] = NewTable]
  /\ seen' = [seen EXCEPT ![n] = NewTable]
  /\ seqNum' = [seqNum EXCEPT ![n] = 0]
  /\ pend' = [pend EXCEPT ![n] = [d \in Node |-> <<>>]]
  /\ inbox' = [inbox EXCEPT ![n] = <<>>]
  /\ accepted' = [accepted EXCEPT ![n] = {}]
  /\ UNCHANGED <<net, asked>>
  /\ TrackOrder

-----------------------------------------------------------------------------
(* ProcessMessages: the one goroutine that handles datagrams. *)
HandleMessage(n, p) ==
  \/ HandleHELLO(n, p)
  \/ DeclineRREQ(n, p) \/ AnswerRREQ(n, p) \/ RelayRREQ(n, p) \/ DropRREQ(n, p)
  \/ FinishRREP(n, p) \/ RelayRREP(n, p) \/ DropRREP(n, p)
  \/ DeliverDATA(n, p) \/ RelayDATA(n, p) \/ RejectDATA(n, p)
  \/ IgnoreRERR(n, p) \/ HandleRERR(n, p)

ProcessMessages(n) == \E p \in net : p.to = n /\ HandleMessage(n, p)

Next ==
  \/ \E n \in Node :
       \/ ProcessMessages(n)
       \/ BroadcastHello(n)
       \/ CollectNeighbours(n)
       \/ \E d \in Node, x \in Payload : SendData(n, d, x)
       \/ \E d \in Node : SearchRoute(n, d)
       \/ \E d \in Node : RouteExpires(n, d)
       \/ \E id \in Node : NeighbourSilent(n, id)
       \/ Restart(n)
  \/ \E p \in net : Lose(p)

Spec == Init /\ [][Next]_vars

(* The loops of the daemon keep running: whatever has arrived is handled,   *)
(* and the collector keeps ticking.                                         *)
Fairness == \A n \in Node : WF_vars(ProcessMessages(n)) /\ WF_vars(CollectNeighbours(n))

FairSpec == Spec /\ Fairness
=============================================================================
