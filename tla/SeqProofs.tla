------------------------------ MODULE SeqProofs ------------------------------
(* Nobody knows a sequence number that its owner has not handed out, as     *)
(* long as the owner's counter has neither wrapped nor been reset; and what *)
(* follows of the searches the numbers belong to.                           *)
EXTENDS OrderProofs

(* Number s of d has been handed out. *)
Issued(d, s) == d \in spoiled \/ s <= seqNum[d]

(* It has been once the step is done. *)
NowIssued(d, s) == d \in spoiled' \/ s <= seqNum'[d]

(* The parts of SeqsIssued, one per place a number is kept in. *)
RoutesIssued == \A n \in Node : \A d \in DOMAIN rt[n] : Issued(d, rt[n][d].seq)
SeenIssued == \A n \in Node : \A d \in DOMAIN seen[n] : Issued(d, seen[n][d])
SentIssued(p) ==
  /\ p.m.type = "RREQ" => Issued(p.m.src, p.m.srcSeq) /\ Issued(p.m.src, p.m.bid)
  /\ p.m.type = "RREP" => Issued(p.m.src, p.m.dstSeq)

IssuedInv == TypeOK /\ RoutesIssued /\ SeenIssued /\ \A p \in net : SentIssued(p)

-----------------------------------------------------------------------------
(* The invariant says what SeqsIssued says. *)
LEMMA IssuedInvMeans == IssuedInv => SeqsIssued
BY DEF IssuedInv, RoutesIssued, SeenIssued, SentIssued, Issued, SeqsIssued, Requests, Replies

(* The k-th number after a counter value, up to one wrap. *)
LEMMA Wrap ==
  ASSUME NEW x \in Seqs, NEW k \in Nat, k < SeqSpace \/ k = 1
  PROVE  /\ x + k < SeqSpace => (x + k) % SeqSpace = x + k
         /\ (x + k >= SeqSpace /\ k < SeqSpace) => (x + k) % SeqSpace = x + k - SeqSpace
         /\ SeqSpace = 1 => (x + k) % SeqSpace = 0
<1>1. SeqSpace \in Nat /\ SeqSpace > 0
  BY MeshAssumption
<1>2. x \in Nat /\ x < SeqSpace
  BY <1>1 DEF Seqs
<1>3. ASSUME NEW y \in Nat, y < SeqSpace
      PROVE  y % SeqSpace = y
  BY <1>1, <1>3
<1>4. ASSUME NEW y \in Nat, y >= SeqSpace, y < SeqSpace + SeqSpace
      PROVE  y % SeqSpace = y - SeqSpace
  BY <1>1, <1>4
<1>5. SeqSpace = 1 => (x + k) % SeqSpace = 0
  BY <1>2
<1>6. QED BY <1>1, <1>2, <1>3, <1>4, <1>5

(* The counter of a node that is not spoiled does not go down. *)
LEMMA Counting ==
  ASSUME TypeOK, TypeOK', TrackOrder, NEW d \in Node
  PROVE  /\ seqNum[d] \in Nat /\ seqNum'[d] \in Nat
         /\ d \in spoiled => d \in spoiled'
         /\ d \in spoiled' \/ seqNum[d] <= seqNum'[d]
<1>1. seqNum[d] \in Nat /\ seqNum'[d] \in Nat
  BY MeshAssumption DEF TypeOK, Seqs
<1>2. seqNum'[d] < seqNum[d] => d \in spoiled'
  BY DEF TrackOrder
<1>3. d \in spoiled => d \in spoiled'
  BY DEF TrackOrder
<1>4. QED BY <1>1, <1>2, <1>3

(* What has been handed out stays so. *)
LEMMA StillIssued ==
  ASSUME TypeOK, TypeOK', TrackOrder, NEW d \in Node, NEW s \in Seqs, Issued(d, s)
  PROVE  NowIssued(d, s)
<1>1. s \in Nat BY MeshAssumption DEF Seqs
<1>2. QED BY <1>1, Counting DEF Issued, NowIssued

(* A handler that takes k numbers has handed out each of them, or wrapped. *)
LEMMA OwnIssued ==
  ASSUME TypeOK, TypeOK', TrackOrder, NEW n \in Node, NEW k \in Nat, k < SeqSpace \/ k = 1,
         Advance(n, k), NEW i \in 1..k
  PROVE  n \in spoiled' \/ SeqAfter(n, i) <= seqNum'[n]
<1> DEFINE x == seqNum[n]
<1>1. x \in Seqs /\ x \in Nat /\ x < SeqSpace /\ SeqSpace \in Nat
  BY MeshAssumption DEF TypeOK, Seqs
<1>2. seqNum'[n] = (x + k) % SeqSpace /\ SeqAfter(n, i) = (x + i) % SeqSpace
  BY DEF Advance, SeqAfter, TypeOK
<1>3. i \in Nat /\ i <= k /\ (i < SeqSpace \/ i = 1)
  BY <1>1
<1> HIDE DEF x
<1>4. CASE x + k < SeqSpace
  BY <1>1, <1>2, <1>3, <1>4, Wrap
<1>5. CASE x + k >= SeqSpace /\ k < SeqSpace
  <2>1. seqNum'[n] < x
    BY <1>1, <1>2, <1>5, Wrap
  <2>2. n \in spoiled'
    BY <2>1 DEF TrackOrder, x
  <2>3. QED BY <2>2
<1>6. CASE x + k >= SeqSpace /\ k >= SeqSpace
  <2>1. k = 1 /\ i = 1
    BY <1>1, <1>3, <1>6
  <2>2. SeqSpace = 1
    BY <1>1, <1>6, <2>1
  <2>3. QED BY <1>1, <1>2, <2>1, <2>2, Wrap
<1>7. QED BY <1>1, <1>4, <1>5, <1>6

(* A step that installs and sends handed-out numbers keeps the invariant. *)
LEMMA IssuedStep ==
  ASSUME IssuedInv, TypeOK', TrackOrder,
         \A n \in Node : \A d \in DOMAIN rt'[n] :
           \/ d \in DOMAIN rt[n] /\ rt'[n][d].seq = rt[n][d].seq
           \/ NowIssued(d, rt'[n][d].seq),
         \A n \in Node : \A d \in DOMAIN seen'[n] :
           \/ d \in DOMAIN seen[n] /\ seen'[n][d] = seen[n][d]
           \/ NowIssued(d, seen'[n][d]),
         \A p \in net' : p \in net \/ SentIssued(p)'
  PROVE  IssuedInv'
<1>1. TypeOK BY DEF IssuedInv
<1>2. ASSUME NEW n \in Node, NEW d \in DOMAIN rt[n]
      PROVE  NowIssued(d, rt[n][d].seq)
  <2>1. IsTable(rt[n], Node, RouteEntry)
    BY <1>1, TableOf DEF TypeOK
  <2>2. d \in Node /\ rt[n][d].seq \in Seqs
    BY <1>2, <2>1 DEF IsTable, RouteEntry
  <2>3. Issued(d, rt[n][d].seq)
    BY <1>2 DEF IssuedInv, RoutesIssued
  <2>4. QED BY <1>1, <2>2, <2>3, StillIssued
<1>3. ASSUME NEW n \in Node, NEW d \in DOMAIN seen[n]
      PROVE  NowIssued(d, seen[n][d])
  <2>1. IsTable(seen[n], Node, Seqs)
    BY <1>1, TableOf DEF TypeOK
  <2>2. d \in Node /\ seen[n][d] \in Seqs
    BY <1>3, <2>1 DEF IsTable
  <2>3. Issued(d, seen[n][d])
    BY <1>3 DEF IssuedInv, SeenIssued
  <2>4. QED BY <1>1, <2>2, <2>3, StillIssued
<1>4. ASSUME NEW p \in net
      PROVE  SentIssued(p)'
  <2>1. /\ p.m.src \in Node
        /\ p.m.type = "RREQ" => p.m.srcSeq \in Seqs /\ p.m.bid \in Seqs
        /\ p.m.type = "RREP" => p.m.dstSeq \in Seqs
    BY <1>1, MessageFields DEF TypeOK, RREQ, RREP
  <2>2. SentIssued(p)
    BY DEF IssuedInv
  <2>3. \A z \in Seqs : Issued(p.m.src, z) => NowIssued(p.m.src, z)
    BY <1>1, <2>1, StillIssued
  <2>4. QED BY <2>1, <2>2, <2>3 DEF SentIssued, Issued, NowIssued
<1>5. RoutesIssued'
  BY <1>2 DEF RoutesIssued, Issued, NowIssued
<1>6. SeenIssued'
  BY <1>3 DEF SeenIssued, Issued, NowIssued
<1>7. QED BY <1>4, <1>5, <1>6 DEF IssuedInv

-----------------------------------------------------------------------------
(* Steps that leave the sequence numbers in the tables of one node as they  *)
(* are, or drop some, and send nothing that carries a new one.              *)
LEMMA SameIssued ==
  ASSUME IssuedInv, TypeOK', TrackOrder, NEW n \in Node,
         NEW u, rt' = [rt EXCEPT ![n] = u], SameOrder(u, rt[n]),
         \/ UNCHANGED seen
         \/ seen' = [seen EXCEPT ![n] = NewTable],
         \A p \in net' : p \in net \/ SentIssued(p)'
  PROVE  IssuedInv'
<1>1. TypeOK BY DEF IssuedInv
<1>2. \A m \in Node : \A d \in DOMAIN rt'[m] : d \in DOMAIN rt[m] /\ rt'[m][d].seq = rt[m][d].seq
  BY <1>1 DEF TypeOK, AreTables, SameOrder, Tie
<1>3. \A m \in Node : \A d \in DOMAIN seen'[m] : d \in DOMAIN seen[m] /\ seen'[m][d] = seen[m][d]
  BY <1>1 DEF TypeOK, AreTables, NewTable
<1>4. QED BY <1>2, <1>3, IssuedStep

(* Steps that leave the tables alone as well. *)
LEMMA QuietIssued ==
  ASSUME IssuedInv, TypeOK', TrackOrder, UNCHANGED <<rt, seen>>,
         \A p \in net' : p \in net \/ SentIssued(p)'
  PROVE  IssuedInv'
BY IssuedStep

(* A node's own requests carry numbers it has just handed out. *)
LEMMA OwnRequestIssued ==
  ASSUME TypeOK, TypeOK', TrackOrder, NEW n \in Node, NEW k \in Nat, k < SeqSpace \/ k = 1,
         Advance(n, k), NEW i \in 1..k, NEW d, NEW q \in Broadcast(n, NewRREQ(n, d, i))
  PROVE  SentIssued(q)'
<1>1. q.m = NewRREQ(n, d, i)
  BY BroadcastFields
<1>2. q.m.type = "RREQ" /\ q.m.src = n /\ q.m.srcSeq = SeqAfter(n, i) /\ q.m.bid = SeqAfter(n, i)
  BY <1>1 DEF NewRREQ
<1>3. n \in spoiled' \/ SeqAfter(n, i) <= seqNum'[n]
  BY OwnIssued
<1>4. QED BY <1>2, <1>3 DEF SentIssued, Issued

(* An entry for d with a number d has handed out. *)
LEMMA UpdateIssued ==
  ASSUME TypeOK, NEW n \in Node, NEW d \in Node, NEW e \in RouteEntry,
         NowIssued(d, e.seq), NEW u, rt' = [rt EXCEPT ![n] = u],
         SameOrder(u, UpdateRoute(rt[n], d, e))
  PROVE  \A m \in Node : \A x \in DOMAIN rt'[m] :
           \/ x \in DOMAIN rt[m] /\ rt'[m][x].seq = rt[m][x].seq
           \/ NowIssued(x, rt'[m][x].seq)
<1>1. \A x \in DOMAIN UpdateRoute(rt[n], d, e) :
        \/ x \in DOMAIN rt[n] /\ UpdateRoute(rt[n], d, e)[x].seq = rt[n][x].seq
        \/ x = d /\ UpdateRoute(rt[n], d, e)[x].seq = e.seq
  BY TableOf, UpdateRouteOrder DEF TypeOK, Tie
<1>2. \A x \in DOMAIN u :
        \/ x \in DOMAIN rt[n] /\ u[x].seq = rt[n][x].seq
        \/ NowIssued(x, u[x].seq)
  BY <1>1 DEF SameOrder, Tie
<1>3. rt = [m \in Node |-> rt[m]]
  BY DEF TypeOK, AreTables
<1>4. QED BY <1>2, <1>3

(* Accepting a request notes its broadcast id and its sequence number;      *)
(* the request passed on and the reply carry numbers of their owners.       *)
LEMMA AcceptedIssued ==
  ASSUME IssuedInv, TypeOK', NEW n \in Node, NEW p \in net,
         AnswerRREQ(n, p) \/ RelayRREQ(n, p) \/ DropRREQ(n, p)
  PROVE  IssuedInv'
<1> DEFINE d == p.m.src
<1>1. TrackOrder /\ AcceptRREQ(n, p) /\ p.m.type = "RREQ" /\ TypeOK
  BY DEF AnswerRREQ, RelayRREQ, DropRREQ, AcceptRREQ, IssuedInv
<1>2. p.m \in RREQ /\ p.from \in Address /\ d \in Node
  BY <1>1, MessageFields DEF TypeOK
<1>3. NowIssued(d, p.m.srcSeq) /\ NowIssued(d, p.m.bid)
  <2>1. Issued(d, p.m.srcSeq) /\ Issued(d, p.m.bid)
    BY <1>1 DEF IssuedInv, SentIssued
  <2>2. p.m.srcSeq \in Seqs /\ p.m.bid \in Seqs
    BY <1>2 DEF RREQ
  <2>3. QED BY <1>1, <1>2, <2>1, <2>2, StillIssued
<1>4. PICK hop \in Sender(n, p) :
        rt' = [rt EXCEPT ![n] = UpdateRoute(@, p.m.src,
               [seq |-> p.m.srcSeq, hops |-> (p.m.hops + 1) % HopSpace,
                next |-> hop, addr |-> p.from, iface |-> p.from[2],
                live |-> TRUE, pre |-> {}])]
  BY <1>1 DEF AcceptRREQ
<1> DEFINE e == [seq |-> p.m.srcSeq, hops |-> (p.m.hops + 1) % HopSpace,
                 next |-> hop, addr |-> p.from, iface |-> p.from[2],
                 live |-> TRUE, pre |-> {}]
<1>5. e \in RouteEntry /\ e.seq = p.m.srcSeq
  BY <1>1, <1>2, SenderType, NewRouteType DEF RREQ
<1>6. rt' = [rt EXCEPT ![n] = UpdateRoute(rt[n], d, e)]
  BY <1>4
<1> HIDE DEF e
<1>7. \A m \in Node : \A x \in DOMAIN rt'[m] :
        \/ x \in DOMAIN rt[m] /\ rt'[m][x].seq = rt[m][x].seq
        \/ NowIssued(x, rt'[m][x].seq)
  <2>1. SameOrder(UpdateRoute(rt[n], d, e), UpdateRoute(rt[n], d, e))
    BY DEF SameOrder, Tie
  <2>2. QED BY <1>1, <1>2, <1>3, <1>5, <1>6, <2>1, UpdateIssued
<1>8. \A m \in Node : \A x \in DOMAIN seen'[m] :
        \/ x \in DOMAIN seen[m] /\ seen'[m][x] = seen[m][x]
        \/ NowIssued(x, seen'[m][x])
  <2>1. seen' = [seen EXCEPT ![n] = Put(seen[n], d, p.m.bid)]
    BY <1>1 DEF AcceptRREQ
  <2>2. seen = [m \in Node |-> seen[m]]
    BY <1>1 DEF TypeOK, AreTables
  <2>3. QED BY <1>3, <2>1, <2>2 DEF Put
<1>9. \A q \in net' : q \in net \/ SentIssued(q)'
  <2>1. CASE AnswerRREQ(n, p)
    <3>1. SUFFICES ASSUME NEW q \in SendToAddr(n,
                            [type |-> "RREP", src |-> n, dst |-> p.m.src,
                             dstSeq |-> SeqAfter(n, 1), hops |-> 0], p.from, p.from[2])
                   PROVE  SentIssued(q)'
      BY <2>1, ConsumeAdds DEF AnswerRREQ
    <3>2. q.m.type = "RREP" /\ q.m.src = n /\ q.m.dstSeq = SeqAfter(n, 1)
      BY SendToAddrFields
    <3>3. n \in spoiled' \/ SeqAfter(n, 1) <= seqNum'[n]
      BY <1>1, <2>1, OwnIssued DEF AnswerRREQ
    <3>4. QED BY <3>2, <3>3 DEF SentIssued, Issued
  <2>2. CASE RelayRREQ(n, p)
    <3>1. SUFFICES ASSUME NEW q \in Broadcast(n, [p.m EXCEPT !.ttl = @ - 1,
                                                   !.hops = (@ + 1) % HopSpace])
                   PROVE  SentIssued(q)'
      BY <2>2, ConsumeAdds DEF RelayRREQ
    <3>2. q.m = [p.m EXCEPT !.ttl = @ - 1, !.hops = (@ + 1) % HopSpace]
      BY BroadcastFields
    <3>3. /\ q.m.type = "RREQ" /\ q.m.src = d /\ q.m.srcSeq = p.m.srcSeq
          /\ q.m.bid = p.m.bid
      BY <1>1, <1>2, <3>2 DEF RREQ
    <3>4. QED BY <1>3, <3>3 DEF SentIssued, Issued, NowIssued
  <2>3. CASE DropRREQ(n, p)
    BY <2>3, ConsumeAdds DEF DropRREQ
  <2>4. QED BY <2>1, <2>2, <2>3
<1>10. QED BY <1>1, <1>7, <1>8, <1>9, IssuedStep

(* What the treatments of a reply have in common: the number they install   *)
(* is one of the destination.                                               *)
LEMMA ReplyIssued ==
  ASSUME IssuedInv, TypeOK', TrackOrder, NEW n \in Node, NEW p \in net, p.m.type = "RREP",
         NEW hop \in Sender(n, p), NEW u, rt' = [rt EXCEPT ![n] = u],
         SameOrder(u, WithForwardRoute(n, p, hop)), UNCHANGED seen,
         \A q \in net' : q \in net \/ SentIssued(q)'
  PROVE  IssuedInv'
<1> DEFINE d == p.m.src
           e == [seq |-> p.m.dstSeq, hops |-> (p.m.hops + 1) % HopSpace,
                 next |-> hop, addr |-> p.from, iface |-> p.from[2],
                 live |-> TRUE, pre |-> {}]
<1>1. TypeOK BY DEF IssuedInv
<1>2. p.m \in RREP /\ p.from \in Address /\ d \in Node
  BY <1>1, ReplyFields
<1>3. e \in RouteEntry /\ e.seq = p.m.dstSeq
  BY <1>1, <1>2, SenderType, NewRouteType DEF RREP
<1>4. WithForwardRoute(n, p, hop) = UpdateRoute(rt[n], d, e)
  BY DEF WithForwardRoute
<1> HIDE DEF e
<1>5. NowIssued(d, e.seq)
  <2>1. Issued(d, p.m.dstSeq)
    BY <1>1 DEF IssuedInv, SentIssued
  <2>2. p.m.dstSeq \in Seqs
    BY <1>2 DEF RREP
  <2>3. QED BY <1>1, <1>2, <1>3, <2>1, <2>2, StillIssued
<1>6. \A m \in Node : \A x \in DOMAIN rt'[m] :
        \/ x \in DOMAIN rt[m] /\ rt'[m][x].seq = rt[m][x].seq
        \/ NowIssued(x, rt'[m][x].seq)
  BY <1>1, <1>2, <1>3, <1>4, <1>5, UpdateIssued
<1>7. QED BY <1>6, IssuedStep

(* Finishing, relaying or dropping a reply. *)
LEMMA RREPIssued ==
  ASSUME IssuedInv, TypeOK', NEW n \in Node, NEW p \in net,
         FinishRREP(n, p) \/ RelayRREP(n, p) \/ DropRREP(n, p)
  PROVE  IssuedInv'
<1>1. TrackOrder /\ p.m.type = "RREP" /\ TypeOK /\ UNCHANGED seen
  BY DEF FinishRREP, RelayRREP, DropRREP, IssuedInv
<1>2. p.m \in RREP /\ p \in Datagram /\ p.m.src \in Node /\ p.m.dstSeq \in Seqs
  BY <1>1, ReplyFields
<1>3. \A hop \in Sender(n, p) : IsTable(WithForwardRoute(n, p, hop), Node, RouteEntry)
  BY <1>1, <1>2, WithForwardRouteType
<1>4. ASSUME NEW hop \in Sender(n, p), NEW q
      PROVE  LET t == WithForwardRoute(n, p, hop)
             IN  /\ SameOrder(t, t)
                 /\ SameOrder(AfterFindRoute(t, q), t)
                 /\ SameOrder(AddPrecursor(t, p.m.src, q), t)
  BY <1>3, SameOrderOperators
<1>5. CASE FinishRREP(n, p)
  <2> DEFINE d == p.m.src
             k == Len(pend[n][d])
  <2>1. PICK hop \in Sender(n, p) :
          /\ \/ rt' = [rt EXCEPT ![n] = WithForwardRoute(n, p, hop)]
             \/ rt' = [rt EXCEPT ![n] = AfterFindRoute(WithForwardRoute(n, p, hop), d)]
          /\ \/ Consume(p, UNION {SendToAddr(n, NewDATA(n, d, i, pend[n][d][i]),
                                             WithForwardRoute(n, p, hop)[d].addr,
                                             WithForwardRoute(n, p, hop)[d].iface) : i \in 1..k})
             \/ Consume(p, UNION {Broadcast(n, NewRREQ(n, d, i)) : i \in 1..k})
             \/ Consume(p, {})
    BY <1>5 DEF FinishRREP
  <2>2. k \in Nat /\ k < SeqSpace /\ Advance(n, k)
    <3>1. pend[n][d] \in Seq(Payload) /\ Len(pend[n][d]) <= MaxQueue
      BY <1>1, <1>2 DEF TypeOK
    <3>2. k \in Nat /\ k < SeqSpace
      BY <3>1, MeshAssumption
    <3>3. Advance(n, k)
      BY <1>5 DEF FinishRREP
    <3>4. QED BY <3>2, <3>3
  <2>3. \A i \in 1..k : \A q \in Broadcast(n, NewRREQ(n, d, i)) : SentIssued(q)'
    BY <1>1, <2>2, OwnRequestIssued
  <2>4. \A i \in 1..k : \A a, l : \A q \in SendToAddr(n, NewDATA(n, d, i, pend[n][d][i]), a, l) :
          SentIssued(q)'
    BY SendToAddrFields DEF NewDATA, SentIssued
  <2>5. \A q \in net' : q \in net \/ SentIssued(q)'
    <3>1. CASE Consume(p, UNION {SendToAddr(n, NewDATA(n, d, i, pend[n][d][i]),
                                             WithForwardRoute(n, p, hop)[d].addr,
                                             WithForwardRoute(n, p, hop)[d].iface) : i \in 1..k})
      BY <2>4, <3>1, ConsumeAdds
    <3>2. CASE Consume(p, UNION {Broadcast(n, NewRREQ(n, d, i)) : i \in 1..k})
      BY <2>3, <3>2, ConsumeAdds
    <3>3. CASE Consume(p, {})
      BY <3>3, ConsumeAdds
    <3>4. QED BY <2>1, <3>1, <3>2, <3>3
  <2>6. QED BY <1>1, <1>4, <2>1, <2>5, ReplyIssued
<1>6. CASE RelayRREP(n, p)
  <2>1. PICK hop, x, a, l :
          /\ hop \in Sender(n, p)
          /\ rt' = [rt EXCEPT ![n] = AddPrecursor(WithForwardRoute(n, p, hop), p.m.src, x)]
          /\ Consume(p, SendToAddr(n, [p.m EXCEPT !.hops = (@ + 1) % HopSpace], a, l))
    BY <1>6 DEF RelayRREP
  <2>2. ASSUME NEW q \in SendToAddr(n, [p.m EXCEPT !.hops = (@ + 1) % HopSpace], a, l)
        PROVE  SentIssued(q)'
    <3>1. q.m = [p.m EXCEPT !.hops = (@ + 1) % HopSpace]
      BY <2>2, SendToAddrFields
    <3>2. q.m.type = "RREP" /\ q.m.src = p.m.src /\ q.m.dstSeq = p.m.dstSeq
      BY <1>1, <1>2, <3>1 DEF RREP
    <3>3. Issued(p.m.src, p.m.dstSeq)
      BY <1>1 DEF IssuedInv, SentIssued
    <3>4. NowIssued(p.m.src, p.m.dstSeq)
      BY <1>1, <1>2, <3>3, StillIssued
    <3>5. QED BY <3>2, <3>4 DEF SentIssued, Issued, NowIssued
  <2>3. \A q \in net' : q \in net \/ SentIssued(q)'
    BY <2>1, <2>2, ConsumeAdds
  <2>4. QED BY <1>1, <1>4, <2>1, <2>3, ReplyIssued
<1>7. CASE DropRREP(n, p)
  <2>1. PICK hop \in Sender(n, p) :
          rt' = [rt EXCEPT ![n] = AfterFindRoute(WithForwardRoute(n, p, hop), p.m.dst)]
    BY <1>7 DEF DropRREP
  <2>2. \A q \in net' : q \in net \/ SentIssued(q)'
    BY <1>7, ConsumeAdds DEF DropRREP
  <2>3. QED BY <1>1, <1>4, <2>1, <2>2, ReplyIssued
<1>8. QED BY <1>5, <1>6, <1>7

(* Everything but requests and replies carries no number that counts. *)
LEMMA OtherIssued ==
  ASSUME IssuedInv, TypeOK', NEW n \in Node, NEW p \in net,
         \/ HandleHELLO(n, p) \/ DeclineRREQ(n, p)
         \/ DeliverDATA(n, p) \/ RelayDATA(n, p) \/ RejectDATA(n, p)
         \/ IgnoreRERR(n, p) \/ HandleRERR(n, p)
  PROVE  IssuedInv'
<1>1. TrackOrder /\ UNCHANGED seen /\ TypeOK /\ p \in Datagram
  BY DEF HandleHELLO, DeclineRREQ, DeliverDATA, RelayDATA, RejectDATA, IgnoreRERR, HandleRERR,
         IssuedInv, TypeOK
<1>2. CASE HandleHELLO(n, p) \/ DeclineRREQ(n, p) \/ DeliverDATA(n, p) \/ IgnoreRERR(n, p)
  <2>1. UNCHANGED rt /\ Consume(p, {})
    BY <1>2 DEF HandleHELLO, DeclineRREQ, DeliverDATA, IgnoreRERR
  <2>2. QED BY <1>1, <2>1, ConsumeAdds, QuietIssued
<1>3. IsTable(rt[n], Node, RouteEntry)
  BY <1>1, TableOf DEF TypeOK
<1>4. CASE RelayDATA(n, p)
  <2>1. PICK q \in Previous(n, p) : rt' = [rt EXCEPT ![n] = WithPrecursor(n, p, q)]
    BY <1>4 DEF RelayDATA
  <2>2. SameOrder(WithPrecursor(n, p, q), rt[n])
    BY <1>3, SameOrderOperators DEF WithPrecursor
  <2>3. ASSUME NEW r \in SendToAddr(n, [p.m EXCEPT !.ttl = @ - 1],
                                    rt[n][p.m.dst].addr, rt[n][p.m.dst].iface)
        PROVE  SentIssued(r)'
    <3>1. r.m = [p.m EXCEPT !.ttl = @ - 1]
      BY <2>3, SendToAddrFields
    <3>2. p.m \in DATA /\ p.m.type = "DATA"
      BY <1>1, <1>4, MessageFields DEF RelayDATA
    <3>3. r.m.type = "DATA"
      BY <3>1, <3>2 DEF DATA
    <3>4. QED BY <3>3 DEF SentIssued
  <2>4. \A r \in net' : r \in net \/ SentIssued(r)'
    <3> DEFINE out == SendToAddr(n, [p.m EXCEPT !.ttl = @ - 1],
                                 rt[n][p.m.dst].addr, rt[n][p.m.dst].iface)
    <3>1. \A r \in out : SentIssued(r)'
      BY <2>3
    <3>2. Consume(p, out) \/ Consume(p, {})
      BY <1>4 DEF RelayDATA
    <3> HIDE DEF out
    <3>3. \A r \in net' : r \in net \/ r \in out
      BY <3>2, ConsumeAdds
    <3> QED BY <3>1, <3>3
  <2>5. QED BY <1>1, <2>1, <2>2, <2>4, SameIssued
<1>5. CASE RejectDATA(n, p)
  <2>1. rt' = [rt EXCEPT ![n] = AfterFindRoute(rt[n], p.m.dst)]
    BY <1>5 DEF RejectDATA
  <2>2. SameOrder(AfterFindRoute(rt[n], p.m.dst), rt[n])
    BY <1>3, SameOrderOperators
  <2>3. \A r \in net' : r \in net \/ r.m.type = "RERR"
    BY <1>5, NotifyFields, ConsumeAdds DEF RejectDATA
  <2>4. \A r \in net' : r \in net \/ SentIssued(r)'
    BY <2>3 DEF SentIssued
  <2>5. QED BY <1>1, <2>1, <2>2, <2>4, SameIssued
<1>6. CASE HandleRERR(n, p)
  <2>1. rt' = [rt EXCEPT ![n] = DeleteAll(rt[n], {p.m.unreachable})]
    BY <1>6 DEF HandleRERR, Delete
  <2>2. SameOrder(DeleteAll(rt[n], {p.m.unreachable}), rt[n])
    BY <1>3, SameOrderOperators
  <2>3. \A r \in net' : r \in net \/ r.m.type = "RERR"
    BY <1>6, NotifyFields, ConsumeAdds DEF HandleRERR
  <2>4. \A r \in net' : r \in net \/ SentIssued(r)'
    BY <2>3 DEF SentIssued
  <2>5. QED BY <1>1, <2>1, <2>2, <2>4, SameIssued
<1>7. QED BY <1>2, <1>4, <1>5, <1>6

(* Messages and searches users ask for. *)
LEMMA UserIssued ==
  ASSUME IssuedInv, TypeOK', NEW n \in Node, NEW d \in Node,
         (\E x \in Payload : SendData(n, d, x)) \/ SearchRoute(n, d)
  PROVE  IssuedInv'
<1>1. TrackOrder /\ UNCHANGED seen /\ TypeOK
  BY DEF SendData, SearchRoute, IssuedInv
<1>2. /\ SameOrder(rt[n], rt[n])
      /\ SameOrder(AfterFindRoute(rt[n], d), rt[n])
      /\ rt = [rt EXCEPT ![n] = rt[n]]
  BY <1>1, TableOf, SameOrderOperators DEF TypeOK, AreTables
<1>3. Advance(n, 1) => \A q \in Broadcast(n, NewRREQ(n, d, 1)) : SentIssued(q)'
  BY <1>1, OwnRequestIssued
<1>4. ASSUME NEW x \in Payload, SendNow(n, d, x)
      PROVE  IssuedInv'
  <2>1. \A a, l : \A q \in SendToAddr(n, NewDATA(n, d, 1, x), a, l) : SentIssued(q)'
    BY SendToAddrFields DEF NewDATA, SentIssued
  <2>2. UNCHANGED rt /\ \A q \in net' : q \in net \/ SentIssued(q)'
    BY <1>4, <2>1 DEF SendNow
  <2>3. QED BY <1>1, <2>2, QuietIssued
<1>5. ASSUME NEW x \in Payload, Enqueue(n, d, x)
      PROVE  IssuedInv'
  <2>1. rt' = [rt EXCEPT ![n] = AfterFindRoute(rt[n], d)]
    BY <1>5 DEF Enqueue
  <2>2. \A q \in net' : q \in net \/ SentIssued(q)'
    BY <1>3, <1>5 DEF Enqueue
  <2>3. QED BY <1>1, <1>2, <2>1, <2>2, SameIssued
<1>6. CASE SearchRoute(n, d)
  <2>1. rt' = [rt EXCEPT ![n] = AfterFindRoute(rt[n], d)]
    BY <1>6 DEF SearchRoute
  <2>2. \A q \in net' : q \in net \/ SentIssued(q)'
    BY <1>3, <1>6 DEF SearchRoute
  <2>3. QED BY <1>1, <1>2, <2>1, <2>2, SameIssued
<1>7. QED BY <1>4, <1>5, <1>6 DEF SendData

(* The collector, time, the network and restarts hand out nothing. *)
LEMMA EnvironmentIssued ==
  ASSUME IssuedInv, TypeOK',
         \/ \E n \in Node, d \in Node : RouteExpires(n, d)
         \/ \E n \in Node, id \in Node : NeighbourSilent(n, id)
         \/ \E n \in Node : BroadcastHello(n) \/ Restart(n) \/ CollectNeighbours(n)
         \/ \E p \in net : Lose(p)
  PROVE  IssuedInv'
<1>1. TrackOrder /\ TypeOK
  BY DEF RouteExpires, NeighbourSilent, BroadcastHello, Restart, CollectNeighbours, Lose,
         IssuedInv
<1>2. ASSUME NEW n \in Node, NEW d \in Node, RouteExpires(n, d)
      PROVE  IssuedInv'
  <2>1. /\ rt' = [rt EXCEPT ![n] = [rt[n] EXCEPT ![d].live = FALSE]]
        /\ d \in DOMAIN rt[n] /\ net' = net /\ UNCHANGED seen
    BY <1>2 DEF RouteExpires
  <2>2. SameOrder([rt[n] EXCEPT ![d].live = FALSE], rt[n])
    BY <1>1, <2>1, TableOf, SameOrderOperators DEF TypeOK
  <2>3. QED BY <1>1, <2>1, <2>2, SameIssued
<1>3. ASSUME NEW n \in Node, NEW id \in Node, NeighbourSilent(n, id)
      PROVE  IssuedInv'
  BY <1>1, <1>3, QuietIssued DEF NeighbourSilent
<1>4. ASSUME NEW n \in Node, BroadcastHello(n)
      PROVE  IssuedInv'
  <2>1. \A q \in net' : q \in net \/ q.m.type = "HELLO"
    BY <1>4, BroadcastFields DEF BroadcastHello
  <2>2. \A q \in net' : q \in net \/ SentIssued(q)'
    BY <2>1 DEF SentIssued
  <2>3. QED BY <1>1, <1>4, <2>2, QuietIssued DEF BroadcastHello
<1>5. ASSUME NEW n \in Node, Restart(n)
      PROVE  IssuedInv'
  <2>1. /\ rt' = [rt EXCEPT ![n] = NewTable] /\ net' = net
        /\ seen' = [seen EXCEPT ![n] = NewTable]
    BY <1>5 DEF Restart
  <2>2. SameOrder(NewTable, rt[n])
    BY DEF SameOrder, NewTable
  <2>3. QED BY <1>1, <2>1, <2>2, SameIssued
<1>6. ASSUME NEW n \in Node, CollectNeighbours(n)
      PROVE  IssuedInv'
  <2>1. UNCHANGED seen /\ \E K : rt' = [rt EXCEPT ![n] = DeleteAll(rt[n], K)]
    BY <1>6 DEF CollectNeighbours
  <2>2. \A K : SameOrder(DeleteAll(rt[n], K), rt[n])
    BY <1>1, TableOf, SameOrderOperators DEF TypeOK
  <2>3. \A q \in net' : q \in net \/ q.m.type = "RERR"
    <3>1. PICK table, broken :
            net' = net \cup UNION {NotifyPrecursors(n, table, d) : d \in broken}
      BY <1>6 DEF CollectNeighbours
    <3>2. QED BY <3>1, NotifyFields
  <2>4. \A q \in net' : q \in net \/ SentIssued(q)'
    BY <2>3 DEF SentIssued
  <2>5. QED BY <1>1, <2>1, <2>2, <2>4, SameIssued
<1>7. ASSUME NEW p \in net, Lose(p)
      PROVE  IssuedInv'
  BY <1>1, <1>7, QuietIssued DEF Lose
<1>8. QED BY <1>2, <1>3, <1>4, <1>5, <1>6, <1>7

-----------------------------------------------------------------------------
(* Nothing has been handed out at the start. *)
LEMMA InitIssued == Init => IssuedInv
BY InitType DEF Init, NewTable, IssuedInv, RoutesIssued, SeenIssued

(* Every step keeps the invariant. *)
LEMMA NextIssued == IssuedInv /\ [Next]_vars => IssuedInv'
<1> SUFFICES ASSUME IssuedInv, [Next]_vars PROVE IssuedInv' OBVIOUS
<1>1. TypeOK'
  BY NextType DEF IssuedInv
<1>2. ASSUME NEW n \in Node, NEW p \in net, HandleMessage(n, p)
      PROVE  IssuedInv'
  BY <1>1, <1>2, AcceptedIssued, RREPIssued, OtherIssued DEF HandleMessage
<1>3. CASE UNCHANGED vars
  BY <1>1, <1>3 DEF vars, IssuedInv, RoutesIssued, SeenIssued, SentIssued, Issued
<1>4. QED
  BY <1>1, <1>2, <1>3, UserIssued, EnvironmentIssued DEF Next, ProcessMessages

(* No table, no datagram and no list of seen requests ever holds a sequence *)
(* number its owner has not reached, unless the owner's counter wrapped or  *)
(* restarted: the counter seqNum of conn.go is the only source of them.     *)
THEOREM SeqsIssuedHolds == Spec => []SeqsIssued
BY InitIssued, NextIssued, IssuedInvMeans, PTL DEF Spec

-----------------------------------------------------------------------------
(* How searches spread: they end within their time to live, cross each node *)
(* once, and the newest of a node is not taken for an older one.            *)

(* Somebody knows a request of o for x under broadcast id b. *)
Named(o, b, x) ==
  \/ \E p \in Requests : p.m.src = o /\ p.m.bid = b /\ p.m.dst = x
  \/ \E n \in Node : <<o, x, b>> \in accepted[n]

(* No node has accepted an id later than the last it has seen. *)
Remembered ==
  \A n \in Node, o \in Node, x \in Node, b \in Seqs :
    <<o, x, b>> \in accepted[n] => o \in DOMAIN seen[n] /\ b <= seen[n][o]

(* The last id a node has seen is one it has accepted. *)
LastAccepted ==
  \A n \in Node : \A o \in DOMAIN seen[n] : \E x \in Node : <<o, x, seen[n][o]>> \in accepted[n]

(* An id of an unspoiled node stands for one search. *)
OneTarget ==
  \A o \in Node \ spoiled, x \in Node, y \in Node, b \in Seqs :
    Named(o, b, x) /\ Named(o, b, y) => x = y

FloodInv == IssuedInv /\ SearchWithinTTL /\ Remembered /\ LastAccepted /\ OneTarget

-----------------------------------------------------------------------------
(* Datagram q is a request that has just been made by o for d. *)
Made(q, o, d) ==
  /\ q.m.src = o /\ q.m.dst = d /\ q.m.hops = 0 /\ q.m.ttl = TTL
  /\ o \in spoiled' \/ q.m.bid > seqNum[o]

(* It is one passed on. *)
PassedOn(q) ==
  \E p \in Requests : p.m.ttl > 1 /\ q.m = [p.m EXCEPT !.ttl = @ - 1, !.hops = (@ + 1) % HopSpace]

(* Node n keeps what it remembers of searches, forgets all, or accepts one. *)
Keeps(n) == seen'[n] = seen[n] /\ accepted'[n] = accepted[n]
Forgets(n) == seen'[n] = NewTable /\ accepted'[n] = {}
Accepts(n) ==
  \E p \in Requests :
    /\ ~Duplicate(n, p.m)
    /\ seen'[n] = Put(seen[n], p.m.src, p.m.bid)
    /\ accepted'[n] = accepted[n] \cup {<<p.m.src, p.m.dst, p.m.bid>>}

(* A request passed on names the same search, has used one hop more and has *)
(* one less to go.                                                          *)
LEMMA PassedOnFields ==
  ASSUME TypeOK, SearchWithinTTL, NEW q, PassedOn(q)
  PROVE  /\ q.m.hops < TTL /\ q.m.hops + q.m.ttl = TTL
         /\ Named(q.m.src, q.m.bid, q.m.dst)
<1>1. PICK p \in Requests : p.m.ttl > 1 /\ q.m = [p.m EXCEPT !.ttl = @ - 1, !.hops = (@ + 1) % HopSpace]
  BY DEF PassedOn
<1>2. p.m \in RREQ
  BY MessageFields DEF Requests, TypeOK
<1>3. /\ q.m.ttl = p.m.ttl - 1 /\ q.m.hops = (p.m.hops + 1) % HopSpace
      /\ q.m.src = p.m.src /\ q.m.bid = p.m.bid /\ q.m.dst = p.m.dst
  BY <1>1, <1>2 DEF RREQ
<1>4. /\ p.m.ttl \in Nat /\ p.m.hops \in Nat /\ p.m.hops + p.m.ttl = TTL
      /\ TTL \in Nat /\ TTL < HopSpace /\ HopSpace \in Nat
  BY <1>2, MeshAssumption DEF SearchWithinTTL, RREQ, Byte
<1>5. p.m.hops + 1 < TTL
  BY <1>1, <1>4
<1>6. (p.m.hops + 1) % HopSpace = p.m.hops + 1
  BY <1>4, <1>5
<1>7. q.m.hops < TTL /\ q.m.hops + q.m.ttl = TTL
  BY <1>3, <1>4, <1>5, <1>6
<1>8. Named(q.m.src, q.m.bid, q.m.dst)
  BY <1>3 DEF Named
<1> QED BY <1>7, <1>8

(* Who is not spoiled has handed out every id that is known of it. *)
LEMMA NamedIssued ==
  ASSUME FloodInv, NEW o \in Node \ spoiled, NEW b \in Seqs, NEW x \in Node, Named(o, b, x)
  PROVE  b <= seqNum[o]
<1>1. CASE \E p \in Requests : p.m.src = o /\ p.m.bid = b /\ p.m.dst = x
  BY <1>1 DEF FloodInv, IssuedInv, SentIssued, Issued, Requests
<1>2. ASSUME NEW n \in Node, <<o, x, b>> \in accepted[n]
      PROVE  b <= seqNum[o]
  <2>1. o \in DOMAIN seen[n] /\ b <= seen[n][o]
    BY <1>2 DEF FloodInv, Remembered
  <2>2. seen[n][o] <= seqNum[o]
    BY <2>1 DEF FloodInv, IssuedInv, SeenIssued, Issued
  <2>3. TypeOK /\ IsTable(seen[n], Node, Seqs)
    BY TableOf DEF FloodInv, IssuedInv, TypeOK
  <2>4. seen[n][o] \in Nat /\ seqNum[o] \in Nat /\ b \in Nat
    <3>1. Seqs \subseteq Nat
      BY MeshAssumption DEF Seqs
    <3>2. seen[n][o] \in Seqs
      BY <2>1, <2>3 DEF IsTable
    <3>3. seqNum[o] \in Seqs
      BY <2>3 DEF TypeOK
    <3> QED BY <3>1, <3>2, <3>3
  <2> QED BY <2>1, <2>2, <2>4
<1> QED BY <1>1, <1>2 DEF Named

(* A step that makes requests of one node for one target, passes others on, *)
(* and in which nodes accept what they had not seen, keeps the invariant.   *)
LEMMA FloodStep ==
  ASSUME FloodInv, IssuedInv', TrackOrder, NEW o, NEW d,
         \A n \in Node : Keeps(n) \/ Forgets(n) \/ Accepts(n),
         \A q \in Requests' : q \in net \/ PassedOn(q) \/ Made(q, o, d)
  PROVE  FloodInv'
<1>1. TypeOK /\ TypeOK' /\ SearchWithinTTL
  BY DEF FloodInv, IssuedInv
<1>2. SearchWithinTTL'
  <2>1. TTL \in Nat /\ TTL > 0 /\ 0 + TTL = TTL
    BY MeshAssumption
  <2>2. \A q \in Requests' : q \in net => q \in Requests
    BY DEF Requests
  <2>3. \A q \in Requests' : q.m.hops < TTL /\ q.m.hops + q.m.ttl = TTL
    BY <1>1, <2>1, <2>2, PassedOnFields DEF SearchWithinTTL, Made
  <2> QED BY <2>3 DEF SearchWithinTTL
<1>3. ASSUME NEW n \in Node, NEW p \in Requests
      PROVE  p.m.src \in Node /\ p.m.dst \in Node /\ p.m.bid \in Seqs
  BY <1>1, MessageFields DEF TypeOK, Requests, RREQ
<1>4. ASSUME NEW n \in Node
      PROVE  IsTable(seen[n], Node, Seqs) /\ accepted[n] \subseteq Node \X Node \X Seqs
  BY <1>1, TableOf DEF TypeOK
<1>5. ASSUME NEW n \in Node, NEW p \in Requests, ~Duplicate(n, p.m), NEW a \in Node,
             a \in DOMAIN seen[n]
      PROVE  a \in DOMAIN Put(seen[n], p.m.src, p.m.bid)
             /\ seen[n][a] <= Put(seen[n], p.m.src, p.m.bid)[a]
  <2>1. seen[n][a] \in Nat /\ p.m.bid \in Nat
    BY <1>3, <1>4, <1>5, MeshAssumption DEF IsTable, Seqs
  <2>2. a = p.m.src => seen[n][a] < p.m.bid
    BY <1>5, <2>1 DEF Duplicate
  <2> QED BY <1>5, <2>1, <2>2 DEF Put
<1>6. Remembered'
  <2> SUFFICES ASSUME NEW n \in Node, NEW a \in Node, NEW x \in Node, NEW b \in Seqs,
                      <<a, x, b>> \in accepted'[n]
               PROVE  a \in DOMAIN seen'[n] /\ b <= seen'[n][a]
    BY DEF Remembered
  <2>1. CASE Keeps(n)
    BY <2>1 DEF Keeps, FloodInv, Remembered
  <2>2. CASE Forgets(n)
    BY <2>2 DEF Forgets
  <2>3. ASSUME NEW p \in Requests, ~Duplicate(n, p.m),
               seen'[n] = Put(seen[n], p.m.src, p.m.bid),
               accepted'[n] = accepted[n] \cup {<<p.m.src, p.m.dst, p.m.bid>>}
        PROVE  a \in DOMAIN seen'[n] /\ b <= seen'[n][a]
    <3>1. CASE <<a, x, b>> \in accepted[n]
      <4>1. a \in DOMAIN seen[n] /\ b <= seen[n][a]
        BY <3>1 DEF FloodInv, Remembered
      <4>2. a \in DOMAIN seen'[n] /\ seen[n][a] <= seen'[n][a]
        BY <1>5, <2>3, <4>1
      <4>3. b \in Nat /\ seen[n][a] \in Nat
        BY <1>4, <4>1, MeshAssumption DEF IsTable, Seqs
      <4>4. seen'[n][a] \in Nat
        <5>1. IsTable(seen'[n], Node, Seqs)
          BY <1>1, TableOf DEF TypeOK
        <5> QED BY <4>2, <5>1, MeshAssumption DEF IsTable, Seqs
      <4> QED BY <4>1, <4>2, <4>3, <4>4
    <3>2. CASE <<a, x, b>> = <<p.m.src, p.m.dst, p.m.bid>>
      <4>1. a = p.m.src /\ b = p.m.bid
        BY <3>2
      <4>2. b <= b
        BY MeshAssumption DEF Seqs
      <4> QED BY <2>3, <4>1, <4>2 DEF Put
    <3> QED BY <2>3, <3>1, <3>2
  <2> QED BY <2>1, <2>2, <2>3 DEF Accepts
<1>7. LastAccepted'
  <2> SUFFICES ASSUME NEW n \in Node, NEW a \in DOMAIN seen'[n]
               PROVE  \E x \in Node : <<a, x, seen'[n][a]>> \in accepted'[n]
    BY DEF LastAccepted
  <2>1. CASE Keeps(n)
    BY <2>1 DEF Keeps, FloodInv, LastAccepted
  <2>2. CASE Forgets(n)
    BY <2>2 DEF Forgets, NewTable
  <2>3. ASSUME NEW p \in Requests, seen'[n] = Put(seen[n], p.m.src, p.m.bid),
               accepted'[n] = accepted[n] \cup {<<p.m.src, p.m.dst, p.m.bid>>}
        PROVE  \E x \in Node : <<a, x, seen'[n][a]>> \in accepted'[n]
    <3>1. CASE a = p.m.src
      <4>1. seen'[n][a] = p.m.bid
        BY <2>3, <3>1 DEF Put
      <4> QED BY <1>3, <2>3, <3>1, <4>1
    <3>2. CASE a # p.m.src
      <4>1. a \in DOMAIN seen[n] /\ seen'[n][a] = seen[n][a]
        BY <2>3, <3>2 DEF Put
      <4> QED BY <2>3, <4>1 DEF FloodInv, LastAccepted
    <3> QED BY <3>1, <3>2
  <2> QED BY <2>1, <2>2, <2>3 DEF Accepts
<1>8. ASSUME NEW a \in Node \ spoiled', NEW x \in Node, NEW b \in Seqs, Named(a, b, x)'
      PROVE  Named(a, b, x) \/ (a = o /\ x = d /\ b > seqNum[a])
  <2>1. ASSUME NEW q \in Requests', q.m.src = a, q.m.bid = b, q.m.dst = x
        PROVE  Named(a, b, x) \/ (a = o /\ x = d /\ b > seqNum[a])
    <3>1. q \in net => Named(a, b, x)
      BY <2>1 DEF Named, Requests
    <3> QED BY <1>1, <2>1, <3>1, PassedOnFields DEF Made
  <2>2. ASSUME NEW n \in Node, <<a, x, b>> \in accepted'[n]
        PROVE  Named(a, b, x)
    BY <2>2 DEF Named, Keeps, Forgets, Accepts
  <2> QED BY <1>8, <2>1, <2>2 DEF Named
<1>9. OneTarget'
  <2> SUFFICES ASSUME NEW a \in Node \ spoiled', NEW x \in Node, NEW y \in Node, NEW b \in Seqs,
                      Named(a, b, x)', Named(a, b, y)'
               PROVE  x = y
    BY DEF OneTarget
  <2>1. a \in Node \ spoiled /\ seqNum[a] \in Nat /\ b \in Nat
    BY <1>1, Counting, MeshAssumption DEF Seqs
  <2>2. Named(a, b, x) \/ Named(a, b, y) => ~(b > seqNum[a])
    BY <2>1, NamedIssued
  <2>3. Named(a, b, x) /\ Named(a, b, y) => x = y
    BY <2>1 DEF FloodInv, OneTarget
  <2> QED BY <1>8, <2>2, <2>3
<1> QED BY <1>2, <1>6, <1>7, <1>9 DEF FloodInv

-----------------------------------------------------------------------------
(* Steps that make no request and pass none on, and in which nobody accepts *)
(* one.                                                                     *)
LEMMA QuietFlood ==
  ASSUME FloodInv, IssuedInv', TrackOrder, \A n \in Node : Keeps(n) \/ Forgets(n),
         \A q \in net' : q \in net \/ q.m.type # "RREQ"
  PROVE  FloodInv'
BY FloodStep DEF Requests

(* The requests of a node carry the numbers after its counter, unless it    *)
(* wraps.                                                                   *)
LEMMA OwnMade ==
  ASSUME TypeOK, TrackOrder, NEW n \in Node, NEW k \in Nat, k < SeqSpace, Advance(n, k),
         NEW i \in 1..k, NEW d, NEW q \in Broadcast(n, NewRREQ(n, d, i))
  PROVE  Made(q, n, d)
<1> DEFINE x == seqNum[n]
<1>1. x \in Seqs /\ x \in Nat /\ x < SeqSpace /\ SeqSpace \in Nat
  BY MeshAssumption DEF TypeOK, Seqs
<1>2. seqNum'[n] = (x + k) % SeqSpace /\ SeqAfter(n, i) = (x + i) % SeqSpace
  BY DEF Advance, SeqAfter, TypeOK
<1>3. i \in Nat /\ i >= 1 /\ i <= k /\ i < SeqSpace
  BY <1>1
<1>4. q.m = NewRREQ(n, d, i)
  BY BroadcastFields
<1>5. /\ q.m.src = n /\ q.m.dst = d /\ q.m.hops = 0 /\ q.m.ttl = TTL
      /\ q.m.bid = SeqAfter(n, i)
  BY <1>4 DEF NewRREQ
<1> HIDE DEF x
<1>6. CASE x + k < SeqSpace
  <2>1. x + i < SeqSpace
    BY <1>1, <1>3, <1>6
  <2>2. q.m.bid = x + i
    BY <1>1, <1>2, <1>3, <1>5, <2>1, Wrap
  <2>3. q.m.bid > x
    BY <1>1, <1>3, <2>2
  <2> QED BY <1>5, <2>3 DEF Made, x
<1>7. CASE x + k >= SeqSpace
  <2>1. seqNum'[n] < x
    BY <1>1, <1>2, <1>7, Wrap
  <2>2. n \in spoiled'
    BY <2>1 DEF TrackOrder, x
  <2> QED BY <1>5, <2>2 DEF Made
<1> QED BY <1>1, <1>6, <1>7

(* A node accepts a request it has not seen, and may pass it on. *)
LEMMA AcceptedFlood ==
  ASSUME FloodInv, IssuedInv', NEW n \in Node, NEW p \in net,
         AnswerRREQ(n, p) \/ RelayRREQ(n, p) \/ DropRREQ(n, p)
  PROVE  FloodInv'
<1>1. TypeOK /\ TrackOrder /\ AcceptRREQ(n, p)
  BY DEF AnswerRREQ, RelayRREQ, DropRREQ, FloodInv, IssuedInv
<1>2. p \in Requests /\ ~Duplicate(n, p.m)
  BY <1>1 DEF AcceptRREQ, Requests
<1>3. \A m \in Node : Keeps(m) \/ Accepts(m)
  <2>1. /\ seen' = [seen EXCEPT ![n] = Put(seen[n], p.m.src, p.m.bid)]
        /\ accepted' = [accepted EXCEPT ![n] = accepted[n] \cup {<<p.m.src, p.m.dst, p.m.bid>>}]
    BY <1>1 DEF AcceptRREQ
  <2>2. n \in DOMAIN seen /\ n \in DOMAIN accepted
    BY <1>1 DEF TypeOK, AreTables
  <2>3. Accepts(n)
    BY <1>2, <2>1, <2>2 DEF Accepts
  <2>4. \A m \in Node \ {n} : Keeps(m)
    BY <1>1, <2>1 DEF Keeps, TypeOK, AreTables
  <2> QED BY <2>3, <2>4
<1>4. \A q \in Requests' : q \in net \/ PassedOn(q)
  <2>1. CASE AnswerRREQ(n, p)
    <3>1. \A q \in net' : q \in net \/ q.m.type = "RREP"
      BY <2>1, ConsumeAdds, SendToAddrFields DEF AnswerRREQ
    <3> QED BY <3>1 DEF Requests
  <2>2. CASE RelayRREQ(n, p)
    <3>1. \A q \in Broadcast(n, [p.m EXCEPT !.ttl = @ - 1, !.hops = (@ + 1) % HopSpace]) :
            q.m = [p.m EXCEPT !.ttl = @ - 1, !.hops = (@ + 1) % HopSpace]
      BY BroadcastFields
    <3>2. p.m.ttl > 1
      BY <2>2 DEF RelayRREQ
    <3>3. \A q \in Broadcast(n, [p.m EXCEPT !.ttl = @ - 1, !.hops = (@ + 1) % HopSpace]) :
            PassedOn(q)
      BY <1>2, <3>1, <3>2 DEF PassedOn
    <3>4. \A q \in net' : q \in net \/ PassedOn(q)
      BY <2>2, <3>3, ConsumeAdds DEF RelayRREQ
    <3> QED BY <3>4 DEF Requests
  <2>3. CASE DropRREQ(n, p)
    BY <2>3, ConsumeAdds DEF DropRREQ, Requests
  <2> QED BY <2>1, <2>2, <2>3
<1> QED BY <1>1, <1>3, <1>4, FloodStep

(* Handlers that leave what is remembered of searches alone. *)
LEMMA HandledFlood ==
  ASSUME FloodInv, IssuedInv', NEW n \in Node, NEW p \in net,
         \/ HandleHELLO(n, p) \/ DeclineRREQ(n, p)
         \/ FinishRREP(n, p) \/ RelayRREP(n, p) \/ DropRREP(n, p)
         \/ DeliverDATA(n, p) \/ RelayDATA(n, p) \/ RejectDATA(n, p)
         \/ IgnoreRERR(n, p) \/ HandleRERR(n, p)
  PROVE  FloodInv'
<1>1. TypeOK /\ TrackOrder /\ UNCHANGED <<seen, accepted>> /\ p \in Datagram
  BY DEF HandleHELLO, DeclineRREQ, FinishRREP, RelayRREP, DropRREP, DeliverDATA, RelayDATA,
         RejectDATA, IgnoreRERR, HandleRERR, FloodInv, IssuedInv, TypeOK
<1>2. \A m \in Node : Keeps(m)
  BY <1>1 DEF Keeps
<1>3. CASE \/ HandleHELLO(n, p) \/ DeclineRREQ(n, p) \/ DropRREP(n, p) \/ DeliverDATA(n, p)
           \/ IgnoreRERR(n, p)
  <2>1. \A q \in net' : q \in net
    BY <1>3, ConsumeAdds DEF HandleHELLO, DeclineRREQ, DropRREP, DeliverDATA, IgnoreRERR
  <2> QED BY <1>1, <1>2, <2>1, QuietFlood
<1>4. CASE RelayRREP(n, p)
  <2>1. PICK a, l : Consume(p, SendToAddr(n, [p.m EXCEPT !.hops = (@ + 1) % HopSpace], a, l))
    BY <1>4 DEF RelayRREP
  <2>2. p.m \in RREP
    BY <1>1, <1>4, ReplyFields DEF RelayRREP
  <2>3. ASSUME NEW q \in SendToAddr(n, [p.m EXCEPT !.hops = (@ + 1) % HopSpace], a, l)
        PROVE  q.m.type = "RREP"
    <3>1. q.m = [p.m EXCEPT !.hops = (@ + 1) % HopSpace]
      BY <2>3, SendToAddrFields
    <3> QED BY <2>2, <3>1 DEF RREP
  <2>4. \A q \in net' : q \in net \/ q.m.type = "RREP"
    BY <2>1, <2>3, ConsumeAdds
  <2> QED BY <1>1, <1>2, <2>4, QuietFlood
<1>5. CASE RelayDATA(n, p)
  <2>1. p.m \in DATA
    BY <1>1, <1>5, MessageFields DEF RelayDATA
  <2>2. ASSUME NEW q \in SendToAddr(n, [p.m EXCEPT !.ttl = @ - 1],
                                    rt[n][p.m.dst].addr, rt[n][p.m.dst].iface)
        PROVE  q.m.type = "DATA"
    <3>1. q.m = [p.m EXCEPT !.ttl = @ - 1]
      BY <2>2, SendToAddrFields
    <3> QED BY <2>1, <3>1 DEF DATA
  <2>3. \A q \in net' : q \in net \/ q.m.type = "DATA"
    BY <1>5, <2>2, ConsumeAdds DEF RelayDATA
  <2> QED BY <1>1, <1>2, <2>3, QuietFlood
<1>6. CASE RejectDATA(n, p) \/ HandleRERR(n, p)
  <2>1. \A q \in net' : q \in net \/ q.m.type = "RERR"
    <3>1. CASE RejectDATA(n, p)
      BY <3>1, NotifyFields, ConsumeAdds DEF RejectDATA
    <3>2. CASE HandleRERR(n, p)
      BY <3>2, NotifyFields, ConsumeAdds DEF HandleRERR
    <3> QED BY <1>6, <3>1, <3>2
  <2> QED BY <1>1, <1>2, <2>1, QuietFlood
<1>7. CASE FinishRREP(n, p)
  <2> DEFINE d == p.m.src
             k == Len(pend[n][d])
  <2>1. PICK hop \in Sender(n, p) :
          \/ Consume(p, UNION {SendToAddr(n, NewDATA(n, d, i, pend[n][d][i]),
                                          WithForwardRoute(n, p, hop)[d].addr,
                                          WithForwardRoute(n, p, hop)[d].iface) : i \in 1..k})
          \/ Consume(p, UNION {Broadcast(n, NewRREQ(n, d, i)) : i \in 1..k})
          \/ Consume(p, {})
    BY <1>7 DEF FinishRREP
  <2>2. k \in Nat /\ k < SeqSpace /\ Advance(n, k)
    <3>1. p.m.src \in Node
      BY <1>1, MessageFields
    <3>2. pend[n][d] \in Seq(Payload) /\ Len(pend[n][d]) <= MaxQueue
      BY <1>1, <3>1 DEF TypeOK
    <3>3. k \in Nat /\ k < SeqSpace
      BY <3>2, MeshAssumption
    <3>4. Advance(n, k)
      BY <1>7 DEF FinishRREP
    <3> QED BY <3>3, <3>4
  <2>3. \A i \in 1..k : \A q \in Broadcast(n, NewRREQ(n, d, i)) : Made(q, n, d)
    BY <1>1, <2>2, OwnMade
  <2>4. \A i \in 1..k : \A q \in SendToAddr(n, NewDATA(n, d, i, pend[n][d][i]),
                                            WithForwardRoute(n, p, hop)[d].addr,
                                          WithForwardRoute(n, p, hop)[d].iface) : q.m.type = "DATA"
    BY SendToAddrFields DEF NewDATA
  <2>5. \A q \in net' : q \in net \/ q.m.type = "DATA" \/ Made(q, n, d)
    <3>1. CASE Consume(p, UNION {SendToAddr(n, NewDATA(n, d, i, pend[n][d][i]),
                                            WithForwardRoute(n, p, hop)[d].addr,
                                          WithForwardRoute(n, p, hop)[d].iface) : i \in 1..k})
      BY <2>4, <3>1, ConsumeAdds
    <3>2. CASE Consume(p, UNION {Broadcast(n, NewRREQ(n, d, i)) : i \in 1..k})
      BY <2>3, <3>2, ConsumeAdds
    <3>3. CASE Consume(p, {})
      BY <3>3, ConsumeAdds
    <3> QED BY <2>1, <3>1, <3>2, <3>3
  <2>6. \A q \in Requests' : q \in net \/ Made(q, n, d)
    BY <2>5 DEF Requests
  <2> QED BY <1>1, <1>2, <2>6, FloodStep
<1> QED BY <1>3, <1>4, <1>5, <1>6, <1>7

(* What users ask for. *)
LEMMA UserFlood ==
  ASSUME FloodInv, IssuedInv', NEW n \in Node, NEW d \in Node,
         (\E x \in Payload : SendData(n, d, x)) \/ SearchRoute(n, d)
  PROVE  FloodInv'
<1>1. TypeOK /\ TrackOrder /\ UNCHANGED <<seen, accepted>>
  BY DEF SendData, SearchRoute, FloodInv, IssuedInv
<1>2. \A m \in Node : Keeps(m)
  BY <1>1 DEF Keeps
<1>3. Advance(n, 1) => \A q \in Broadcast(n, NewRREQ(n, d, 1)) : Made(q, n, d)
  BY <1>1, OwnMade, MeshAssumption
<1>4. \A q \in net' : q \in net \/ q.m.type # "RREQ" \/ Made(q, n, d)
  <2>1. ASSUME NEW x \in Payload, SendNow(n, d, x)
        PROVE  \A q \in net' : q \in net \/ q.m.type # "RREQ"
    BY <2>1, SendToAddrFields DEF SendNow, NewDATA
  <2>2. ASSUME NEW x \in Payload, Enqueue(n, d, x)
        PROVE  \A q \in net' : q \in net \/ Made(q, n, d)
    BY <1>3, <2>2 DEF Enqueue
  <2>3. CASE SearchRoute(n, d)
    BY <1>3, <2>3 DEF SearchRoute
  <2> QED BY <2>1, <2>2, <2>3 DEF SendData
<1> QED BY <1>1, <1>2, <1>4, FloodStep DEF Requests

(* Time, the network, restarts, hello and the collector. *)
LEMMA EnvironmentFlood ==
  ASSUME FloodInv, IssuedInv',
         \/ \E n \in Node, d \in Node : RouteExpires(n, d)
         \/ \E n \in Node, id \in Node : NeighbourSilent(n, id)
         \/ \E n \in Node : BroadcastHello(n) \/ Restart(n) \/ CollectNeighbours(n)
         \/ \E p \in net : Lose(p)
  PROVE  FloodInv'
<1>1. TrackOrder /\ TypeOK
  BY DEF RouteExpires, NeighbourSilent, BroadcastHello, Restart, CollectNeighbours, Lose,
         FloodInv, IssuedInv
<1>2. \A m \in Node : Keeps(m) \/ Forgets(m)
  <2>1. ASSUME NEW n \in Node, Restart(n)
        PROVE  \A m \in Node : Keeps(m) \/ Forgets(m)
    BY <1>1, <2>1 DEF Restart, Keeps, Forgets, TypeOK, AreTables
  <2>2. ASSUME UNCHANGED <<seen, accepted>>
        PROVE  \A m \in Node : Keeps(m) \/ Forgets(m)
    BY <2>2 DEF Keeps
  <2> QED BY <2>1, <2>2 DEF RouteExpires, NeighbourSilent, BroadcastHello, CollectNeighbours, Lose
<1>3. \A q \in net' : q \in net \/ q.m.type # "RREQ"
  <2>1. ASSUME NEW n \in Node, BroadcastHello(n)
        PROVE  \A q \in net' : q \in net \/ q.m.type = "HELLO"
    BY <2>1, BroadcastFields DEF BroadcastHello
  <2>2. ASSUME NEW n \in Node, CollectNeighbours(n)
        PROVE  \A q \in net' : q \in net \/ q.m.type = "RERR"
    <3>1. PICK table, broken :
            net' = net \cup UNION {NotifyPrecursors(n, table, d) : d \in broken}
      BY <2>2 DEF CollectNeighbours
    <3> QED BY <3>1, NotifyFields
  <2> QED BY <2>1, <2>2 DEF RouteExpires, NeighbourSilent, Restart, Lose
<1> QED BY <1>1, <1>2, <1>3, QuietFlood

-----------------------------------------------------------------------------
(* At the start there is no request and nothing to remember. *)
LEMMA InitFlood == Init => FloodInv
<1> SUFFICES ASSUME Init PROVE FloodInv OBVIOUS
<1>1. net = {} /\ \A n \in Node : seen[n] = NewTable /\ accepted[n] = {}
  BY DEF Init
<1>2. SearchWithinTTL /\ Remembered /\ OneTarget
  BY <1>1 DEF SearchWithinTTL, Requests, Remembered, OneTarget, Named
<1>3. LastAccepted
  BY <1>1 DEF LastAccepted, NewTable
<1> QED BY <1>2, <1>3, InitIssued DEF FloodInv

(* Every step keeps the invariant. *)
LEMMA NextFlood == FloodInv /\ [Next]_vars => FloodInv'
<1> SUFFICES ASSUME FloodInv, [Next]_vars PROVE FloodInv' OBVIOUS
<1>1. IssuedInv'
  BY NextIssued DEF FloodInv
<1>2. ASSUME NEW n \in Node, NEW p \in net, HandleMessage(n, p)
      PROVE  FloodInv'
  BY <1>1, <1>2, AcceptedFlood, HandledFlood DEF HandleMessage
<1>3. CASE UNCHANGED vars
  <2>1. UNCHANGED <<net, seen, accepted, spoiled>>
    BY <1>3 DEF vars
  <2>2. SearchWithinTTL' /\ Remembered' /\ LastAccepted' /\ OneTarget'
    BY <2>1 DEF FloodInv, SearchWithinTTL, Requests, Remembered, LastAccepted, OneTarget, Named
  <2> QED BY <1>1, <2>2 DEF FloodInv
<1> QED
  BY <1>1, <1>2, <1>3, UserFlood, EnvironmentFlood DEF Next, ProcessMessages

(* So it holds throughout. *)
LEMMA FloodInvHolds == Spec => []FloodInv
BY InitFlood, NextFlood, PTL DEF Spec

(* A request in flight has used exactly the hops its time to live lacks, so *)
(* no search goes further than TTL hops, by whichever nodes it is relayed   *)
(* (handleRREQ counts one down and the other up).                           *)
THEOREM SearchWithinTTLHolds == Spec => []SearchWithinTTL
<1>1. FloodInv => SearchWithinTTL
  BY DEF FloodInv
<1> QED BY <1>1, FloodInvHolds, PTL

(* A node never relays a search it has accepted before, however often and   *)
(* in whatever order the copies of it and of other searches arrive.         *)
THEOREM FloodsOnceHolds == Spec => FloodsOnce
<1>1. FloodInv /\ [Next]_vars
        => [\A n \in Node : \A p \in net :
              (p.to = n /\ RelayRREQ(n, p))
                => <<p.m.src, p.m.dst, p.m.bid>> \notin accepted[n]]_vars
  <2> SUFFICES ASSUME FloodInv, NEW n \in Node, NEW p \in net, RelayRREQ(n, p),
                      <<p.m.src, p.m.dst, p.m.bid>> \in accepted[n]
               PROVE  FALSE
    OBVIOUS
  <2>1. p.m \in RREQ /\ ~Duplicate(n, p.m)
    BY MessageFields DEF RelayRREQ, AcceptRREQ, FloodInv, IssuedInv, TypeOK
  <2>2. p.m.src \in DOMAIN seen[n] /\ p.m.bid <= seen[n][p.m.src]
    BY <2>1 DEF FloodInv, Remembered, RREQ
  <2> QED BY <2>1, <2>2 DEF Duplicate
<1> QED BY <1>1, FloodInvHolds, PTL DEF Spec, FloodsOnce

(* Whoever would decline the newest request of an unspoiled node as a       *)
(* duplicate has accepted that very search: broadcast ids are handed out    *)
(* once, and nobody has seen a higher one.                                  *)
THEOREM NewestRequestHeardHolds == Spec => []NewestRequestHeard
<1>1. FloodInv => NewestRequestHeard
  <2> SUFFICES ASSUME FloodInv, NEW p \in Requests, p.m.src \notin spoiled,
                      p.m.bid = seqNum[p.m.src], Duplicate(p.to, p.m)
               PROVE  <<p.m.src, p.m.dst, p.m.bid>> \in accepted[p.to]
    BY DEF NewestRequestHeard
  <2> DEFINE n == p.to
             o == p.m.src
  <2>1. TypeOK /\ n \in Node /\ p.m \in RREQ /\ o \in Node
    BY MessageFields DEF FloodInv, IssuedInv, TypeOK, Requests
  <2>2. o \in DOMAIN seen[n] /\ p.m.bid <= seen[n][o]
    BY DEF Duplicate
  <2>3. seen[n][o] <= seqNum[o]
    BY <2>1, <2>2 DEF FloodInv, IssuedInv, SeenIssued, Issued
  <2>4. seen[n][o] \in Nat /\ seqNum[o] \in Nat
    BY <2>1, <2>2, TableOf, MeshAssumption DEF TypeOK, IsTable, Seqs
  <2>5. seen[n][o] = p.m.bid
    BY <2>2, <2>3, <2>4
  <2>6. PICK x \in Node : <<o, x, p.m.bid>> \in accepted[n]
    BY <2>1, <2>2, <2>5 DEF FloodInv, LastAccepted
  <2>7. Named(o, p.m.bid, x) /\ Named(o, p.m.bid, p.m.dst)
    BY <2>1, <2>6 DEF Named
  <2>8. p.m.dst \in Node /\ p.m.bid \in Seqs
    BY <2>1 DEF RREQ
  <2>9. x = p.m.dst
    BY <2>1, <2>7, <2>8 DEF FloodInv, OneTarget
  <2> QED BY <2>6, <2>9
<1> QED BY <1>1, FloodInvHolds, PTL
=============================================================================
