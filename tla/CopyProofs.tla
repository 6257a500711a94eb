------------------------------ MODULE CopyProofs ------------------------------
(* Where the messages of the users are: in one place at a time, as long as  *)
(* the network duplicates nothing, and delivered once.                      *)
EXTENDS OrderProofs

(* The places of a message x from n to d. *)
Queued(n, d, x) == {i \in DOMAIN pend[n][d] : pend[n][d][i] = x}
Flying(n, d, x) == {p \in net : /\ p.m.type = "DATA" /\ p.m.src = n
                                /\ p.m.dst = d /\ p.m.payload = x}
Kept(n, d, x) == {i \in DOMAIN inbox[d] : inbox[d][i] = <<n, x>>}

Single(S) == \A u, v \in S : u = v

Nowhere(n, d, x) == Queued(n, d, x) = {} /\ Flying(n, d, x) = {} /\ Kept(n, d, x) = {}

InOnePlace(n, d, x) ==
  /\ Single(Queued(n, d, x)) /\ Single(Flying(n, d, x)) /\ Single(Kept(n, d, x))
  /\ Queued(n, d, x) = {} \/ Flying(n, d, x) = {}
  /\ Queued(n, d, x) = {} \/ Kept(n, d, x) = {}
  /\ Flying(n, d, x) = {} \/ Kept(n, d, x) = {}

(* It is in one place, and nowhere before it is asked for. *)
Placed(n, d, x) ==
  InOnePlace(n, d, x) /\ (<<n, d, x>> \notin asked => Nowhere(n, d, x))

AllPlaced == \A n \in Node, d \in Node, x \in Payload : Placed(n, d, x)

(* No budget grows. *)
WithinLimit == \A k \in Budget : left[k] <= Limit[k]

CopyInv == TypeOK /\ WithinLimit /\ (Unspent({"duplicate"}) => AllPlaced)

-----------------------------------------------------------------------------
(* Budgets. *)

(* A step spends at most one budget. *)
LEMMA SpentOnce ==
  ASSUME [Next]_vars
  PROVE  UNCHANGED left \/ \E k \in Budget : Spend(k)
<1>1. ASSUME NEW n \in Node, NEW p \in net, HandleMessage(n, p)
      PROVE  \E out : Consume(p, out)
  BY <1>1 DEF HandleMessage, HandleHELLO, DeclineRREQ, AnswerRREQ, RelayRREQ, DropRREQ, FinishRREP,
     RelayRREP, DropRREP, DeliverDATA, RelayDATA, RejectDATA, IgnoreRERR, HandleRERR
<1>2. ASSUME NEW p, NEW out, Consume(p, out) PROVE UNCHANGED left \/ \E k \in Budget : Spend(k)
  BY <1>2 DEF Consume, Budget
<1>3. UNCHANGED vars => UNCHANGED left
  BY DEF vars
<1> QED
  BY <1>1, <1>2, <1>3 DEF Next, ProcessMessages, BroadcastHello, CollectNeighbours, SendData, SearchRoute,
     RouteExpires, NeighbourSilent, Restart, Lose, Budget

(* So budgets stay within their limits, and one that is whole after a step  *)
(* was whole before it and has not been spent.                              *)
LEMMA LimitNext ==
  ASSUME TypeOK, WithinLimit, [Next]_vars
  PROVE  /\ WithinLimit'
         /\ \A k \in Budget : left'[k] = Limit[k] => left[k] = Limit[k] /\ ~Spend(k)
<1>1. \A k \in Budget : left[k] \in Nat /\ Limit[k] \in Nat
  BY MeshAssumption DEF TypeOK
<1>2. ASSUME NEW k \in Budget, Spend(k)
      PROVE  /\ \A j \in Budget : left'[j] = IF j = k THEN left[j] - 1 ELSE left[j]
  BY <1>2 DEF Spend, TypeOK
<1> QED BY <1>1, <1>2, SpentOnce DEF WithinLimit

(* A datagram that is not duplicated is gone when it is handled. *)
LEMMA ConsumedOnce ==
  ASSUME NEW p, NEW out, Consume(p, out), ~Spend("duplicate")
  PROVE  net' = (net \ {p}) \cup out
BY DEF Consume

-----------------------------------------------------------------------------
(* Places. *)

(* A message with fewer copies, and asked for as before, is in its place. *)
LEMMA FewerPlaced ==
  ASSUME NEW n, NEW d, NEW x, Placed(n, d, x), asked \subseteq asked',
         Queued(n, d, x)' \subseteq Queued(n, d, x),
         Flying(n, d, x)' \subseteq Flying(n, d, x),
         Kept(n, d, x)' \subseteq Kept(n, d, x)
  PROVE  Placed(n, d, x)'
<1>1. <<n, d, x>> \notin asked' => Nowhere(n, d, x)'
  BY DEF Placed, Nowhere
<1>2. InOnePlace(n, d, x)'
  BY DEF Placed, InOnePlace, Single
<1> QED BY <1>1, <1>2 DEF Placed

(* Steps that send no DATA and leave queues and inboxes alone. *)
LEMMA QuietPlaced ==
  ASSUME AllPlaced, UNCHANGED <<pend, inbox, asked>>,
         \A q \in net' : q \in net \/ q.m.type # "DATA"
  PROVE  AllPlaced'
<1> SUFFICES ASSUME NEW n \in Node, NEW d \in Node, NEW x \in Payload PROVE Placed(n, d, x)'
  BY DEF AllPlaced
<1>1. Placed(n, d, x)
  BY DEF AllPlaced
<1>2. Queued(n, d, x)' = Queued(n, d, x) /\ Kept(n, d, x)' = Kept(n, d, x)
  BY DEF Queued, Kept
<1>3. Flying(n, d, x)' \subseteq Flying(n, d, x)
  BY DEF Flying
<1> QED BY <1>1, <1>2, <1>3, FewerPlaced

(* Where the last element of a sequence and the others are. *)
LEMMA Appended ==
  ASSUME NEW S, NEW q \in Seq(S), NEW y, NEW v, NEW i \in DOMAIN Append(q, y), Append(q, y)[i] = v
  PROVE  (i \in DOMAIN q /\ q[i] = v) \/ (i = Len(q) + 1 /\ y = v)
OBVIOUS

(* A unicast is one datagram at most. *)
LEMMA SendToAddrSingle ==
  ASSUME NEW n, NEW m, NEW a, NEW i
  PROVE  Single(SendToAddr(n, m, a, i))
BY DEF SendToAddr, Single

(* A message that was in flight is in flight once, or kept once. *)
LEMMA MovedPlaced ==
  ASSUME NEW n, NEW d, NEW x, Placed(n, d, x), asked' = asked,
         Flying(n, d, x) # {}, Queued(n, d, x)' = Queued(n, d, x),
         \/ Single(Flying(n, d, x)') /\ Kept(n, d, x)' = Kept(n, d, x)
         \/ Flying(n, d, x)' = {} /\ Single(Kept(n, d, x)')
  PROVE  Placed(n, d, x)'
<1>1. <<n, d, x>> \in asked'
  BY DEF Placed, Nowhere
<1>2. Queued(n, d, x)' = {} /\ Kept(n, d, x) = {}
  BY DEF Placed, InOnePlace
<1>3. InOnePlace(n, d, x)'
  BY <1>2 DEF InOnePlace, Single
<1> QED BY <1>1, <1>3 DEF Placed

-----------------------------------------------------------------------------
(* One lemma per handler that moves messages. *)

(* handleDATA at the destination: out of the network, into the inbox. *)
LEMMA DeliverPlaced ==
  ASSUME TypeOK, AllPlaced, ~Spend("duplicate"), NEW n \in Node, NEW p \in net, DeliverDATA(n, p)
  PROVE  AllPlaced'
<1> SUFFICES ASSUME NEW s \in Node, NEW d \in Node, NEW x \in Payload PROVE Placed(s, d, x)'
  BY DEF AllPlaced
<1>1. Placed(s, d, x)
  BY DEF AllPlaced
<1>2. /\ p.m.type = "DATA" /\ p.m.dst = n /\ UNCHANGED <<pend, asked>>
      /\ inbox' = [inbox EXCEPT ![n] = Append(inbox[n], <<p.m.src, p.m.payload>>)]
      /\ net' = net \ {p}
  BY ConsumedOnce DEF DeliverDATA
<1>3. Queued(s, d, x)' = Queued(s, d, x)
  BY <1>2 DEF Queued
<1>4. inbox[n] \in Seq(Node \X Payload) /\ inbox \in [Node -> Seq(Node \X Payload)]
  BY DEF TypeOK
<1>5. CASE p \notin Flying(s, d, x)
  <2>1. Flying(s, d, x)' \subseteq Flying(s, d, x)
    BY <1>2 DEF Flying
  <2>2. Kept(s, d, x)' \subseteq Kept(s, d, x)
    <3>1. CASE d # n
      BY <1>2, <1>4, <3>1 DEF Kept
    <3>2. CASE d = n
      <4>1. <<p.m.src, p.m.payload>> # <<s, x>>
        BY <1>2, <1>5, <3>2 DEF Flying
      <4>2. inbox'[d] = Append(inbox[d], <<p.m.src, p.m.payload>>)
        BY <1>2, <1>4, <3>2
      <4> QED BY <1>4, <3>2, <4>1, <4>2, Appended DEF Kept
    <3> QED BY <3>1, <3>2
  <2> QED BY <1>1, <1>2, <1>3, <2>1, <2>2, FewerPlaced
<1>6. CASE p \in Flying(s, d, x)
  <2>1. Single(Flying(s, d, x)) /\ Kept(s, d, x) = {}
    BY <1>1, <1>6 DEF Placed, InOnePlace
  <2>2. Flying(s, d, x)' = {}
    BY <1>2, <1>6, <2>1 DEF Flying, Single
  <2>3. d = n /\ inbox'[d] = Append(inbox[d], <<p.m.src, p.m.payload>>)
    BY <1>2, <1>4, <1>6 DEF Flying
  <2>4. \A i \in Kept(s, d, x)' : i = Len(inbox[d]) + 1
    <3> SUFFICES ASSUME NEW i \in DOMAIN inbox'[d], inbox'[d][i] = <<s, x>>
                 PROVE  i = Len(inbox[d]) + 1
      BY DEF Kept
    <3>1. (i \in DOMAIN inbox[d] /\ inbox[d][i] = <<s, x>>) \/ i = Len(inbox[d]) + 1
      BY <1>4, <2>3, Appended
    <3> QED BY <2>1, <3>1 DEF Kept
  <2> QED BY <1>1, <1>2, <1>3, <1>6, <2>2, <2>4, MovedPlaced DEF Single
<1> QED BY <1>5, <1>6

(* handleDATA on the way: one datagram in, at most one out. *)
LEMMA RelayDATAPlaced ==
  ASSUME TypeOK, AllPlaced, ~Spend("duplicate"), NEW n \in Node, NEW p \in net, RelayDATA(n, p)
  PROVE  AllPlaced'
<1> DEFINE m == [p.m EXCEPT !.ttl = @ - 1]
           out == SendToAddr(n, m, rt[n][p.m.dst].addr, rt[n][p.m.dst].iface)
<1> SUFFICES ASSUME NEW s \in Node, NEW d \in Node, NEW x \in Payload PROVE Placed(s, d, x)'
  BY DEF AllPlaced
<1>1. Placed(s, d, x)
  BY DEF AllPlaced
<1>2. /\ p.m.type = "DATA" /\ UNCHANGED <<pend, inbox, asked>>
      /\ net' = net \ {p} \/ net' = (net \ {p}) \cup out
  BY ConsumedOnce DEF RelayDATA
<1>3. Queued(s, d, x)' = Queued(s, d, x) /\ Kept(s, d, x)' = Kept(s, d, x)
  BY <1>2 DEF Queued, Kept
<1>4. p.m \in DATA
  BY <1>2, MessageFields DEF TypeOK
<1>5. \A q \in out : /\ q.m.type = "DATA" /\ q.m.src = p.m.src /\ q.m.dst = p.m.dst
                     /\ q.m.payload = p.m.payload
  BY <1>4, SendToAddrFields DEF DATA
<1>6. Single(out)
  BY SendToAddrSingle
<1> HIDE DEF m, out
<1>7. CASE p \notin Flying(s, d, x)
  <2>1. Flying(s, d, x)' \subseteq Flying(s, d, x)
    BY <1>2, <1>5, <1>7 DEF Flying
  <2> QED BY <1>1, <1>2, <1>3, <2>1, FewerPlaced
<1>8. CASE p \in Flying(s, d, x)
  <2>1. Single(Flying(s, d, x))
    BY <1>1 DEF Placed, InOnePlace
  <2>2. Flying(s, d, x)' \subseteq out
    BY <1>2, <1>8, <2>1 DEF Flying, Single
  <2>3. Single(Flying(s, d, x)')
    BY <1>6, <2>2 DEF Single
  <2> QED BY <1>1, <1>2, <1>3, <1>8, <2>3, MovedPlaced
<1> QED BY <1>7, <1>8

(* handleRREP at the requester: what it takes out of the queue it sends. *)
LEMMA FinishPlaced ==
  ASSUME TypeOK, AllPlaced, ~Spend("duplicate"), NEW n \in Node, NEW p \in net, FinishRREP(n, p)
  PROVE  AllPlaced'
<1> DEFINE e == p.m.src
           k == Len(pend[n][e])
           Sent(a, i) == UNION {SendToAddr(n, NewDATA(n, e, j, pend[n][e][j]), a, i) : j \in 1..k}
<1>1. p.m.type = "RREP" /\ UNCHANGED <<inbox, asked>> /\ e \in Node
  BY ReplyFields DEF FinishRREP
<1>2. \/ /\ UNCHANGED pend
         /\ \/ Consume(p, UNION {Broadcast(n, NewRREQ(n, e, j)) : j \in 1..k})
            \/ Consume(p, {})
      \/ TakePending(n, e) /\ \E a, i : Consume(p, Sent(a, i))
  <2> HIDE DEF Sent
  <2>1. \E hop \in Sender(n, p) :
          \/ /\ TakePending(n, e)
             /\ Consume(p, Sent(WithForwardRoute(n, p, hop)[e].addr, WithForwardRoute(n, p, hop)[e].iface))
          \/ Consume(p, UNION {Broadcast(n, NewRREQ(n, e, j)) : j \in 1..k}) /\ UNCHANGED pend
          \/ Consume(p, {}) /\ UNCHANGED pend
    BY DEF FinishRREP, Sent
  <2> QED BY <2>1
<1>3. CASE UNCHANGED pend /\ Consume(p, {})
  BY <1>1, <1>3, ConsumeAdds, QuietPlaced
<1>4. CASE UNCHANGED pend /\ Consume(p, UNION {Broadcast(n, NewRREQ(n, e, j)) : j \in 1..k})
  <2>1. \A j \in 1..k : \A q \in Broadcast(n, NewRREQ(n, e, j)) : q.m.type # "DATA"
    BY BroadcastFields DEF NewRREQ
  <2> QED BY <1>1, <1>4, <2>1, ConsumeAdds, QuietPlaced
<1>5. ASSUME TakePending(n, e), NEW a, NEW i, Consume(p, Sent(a, i)) PROVE AllPlaced'
  <2> SUFFICES ASSUME NEW s \in Node, NEW d \in Node, NEW x \in Payload PROVE Placed(s, d, x)'
    BY DEF AllPlaced
  <2>1. Placed(s, d, x)
    BY DEF AllPlaced
  <2>2. pend' = [pend EXCEPT ![n][e] = <<>>] /\ Kept(s, d, x)' = Kept(s, d, x)
    BY <1>1, <1>5 DEF TakePending, Kept
  <2>3. Queued(s, d, x)' \subseteq Queued(s, d, x)
    BY <1>1, <2>2 DEF Queued, TypeOK
  <2>4. \A q \in Sent(a, i) : \E j \in 1..k :
          /\ q \in SendToAddr(n, NewDATA(n, e, j, pend[n][e][j]), a, i)
          /\ q.m.src = n /\ q.m.dst = e /\ q.m.payload = pend[n][e][j]
    BY SendToAddrFields DEF NewDATA
  <2>5. \A q \in net' : q \in net \/ q \in Sent(a, i)
    BY <1>5, ConsumeAdds
  <2> HIDE DEF Sent
  <2>6. pend[n][e] \in Seq(Payload)
    BY <1>1 DEF TypeOK
  <2>7. CASE (s = n /\ d = e) => Queued(s, d, x) = {}
    <3>1. Flying(s, d, x)' \subseteq Flying(s, d, x)
      <4> SUFFICES ASSUME NEW q \in net', q \notin net, q.m.src = s, q.m.dst = d, q.m.payload = x
                   PROVE  FALSE
        BY DEF Flying
      <4> QED BY <2>4, <2>5, <2>6, <2>7 DEF Queued
    <3> QED BY <1>1, <2>1, <2>2, <2>3, <3>1, FewerPlaced
  <2>8. CASE s = n /\ d = e /\ Queued(s, d, x) # {}
    <3>1. Flying(s, d, x) = {} /\ Kept(s, d, x) = {} /\ <<s, d, x>> \in asked
      BY <2>1, <2>8 DEF Placed, InOnePlace, Nowhere
    <3>2. PICK j \in 1..k : Queued(s, d, x) = {j}
      <4>1. PICK j \in Queued(s, d, x) : TRUE
        BY <2>8
      <4>2. Queued(s, d, x) = {j}
        BY <2>1, <4>1 DEF Placed, InOnePlace, Single
      <4>3. j \in 1..k
        BY <2>6, <2>8, <4>1 DEF Queued
      <4> QED BY <4>2, <4>3
    <3>3. \A q \in Flying(s, d, x)' : q \in SendToAddr(n, NewDATA(n, e, j, pend[n][e][j]), a, i)
      <4> SUFFICES ASSUME NEW q \in net', q \notin net, q.m.payload = x
                   PROVE  q \in SendToAddr(n, NewDATA(n, e, j, pend[n][e][j]), a, i)
        BY <3>1 DEF Flying
      <4> QED BY <2>4, <2>5, <2>6, <2>8, <3>2 DEF Queued
    <3>4. Single(Flying(s, d, x)')
      BY <3>3, SendToAddrSingle DEF Single
    <3>5. Queued(s, d, x)' = {}
      BY <1>1, <2>2, <2>8 DEF Queued, TypeOK
    <3> QED BY <1>1, <2>2, <3>1, <3>4, <3>5 DEF Placed, InOnePlace, Single
  <2> QED BY <2>7, <2>8
<1> HIDE DEF Sent
<1> QED BY <1>2, <1>3, <1>4, <1>5

(* SendData: a message that was nowhere is sent or queued. *)
LEMMA SendDataPlaced ==
  ASSUME TypeOK, AllPlaced, NEW n \in Node, NEW e \in Node, NEW y \in Payload, SendData(n, e, y)
  PROVE  AllPlaced'
<1> SUFFICES ASSUME NEW s \in Node, NEW d \in Node, NEW x \in Payload PROVE Placed(s, d, x)'
  BY DEF AllPlaced
<1>1. Placed(s, d, x) /\ UNCHANGED inbox /\ asked' = asked \cup {<<n, e, y>>} /\ <<n, e, y>> \notin asked
  BY DEF AllPlaced, SendData
<1>2. Kept(s, d, x)' = Kept(s, d, x)
  BY <1>1 DEF Kept
<1>3. <<s, d, x>> = <<n, e, y>> => Nowhere(s, d, x) /\ <<s, d, x>> \in asked'
  BY <1>1 DEF Placed
<1>4. CASE SendNow(n, e, y)
  <2> DEFINE out == SendToAddr(n, NewDATA(n, e, 1, y), rt[n][e].addr, rt[n][e].iface)
  <2>1. UNCHANGED pend /\ net' = net \cup out
    BY <1>4 DEF SendNow
  <2>2. \A q \in out : q.m.src = n /\ q.m.dst = e /\ q.m.payload = y
    BY SendToAddrFields DEF NewDATA
  <2>3. Single(out)
    BY SendToAddrSingle
  <2> HIDE DEF out
  <2>4. Queued(s, d, x)' = Queued(s, d, x)
    BY <2>1 DEF Queued
  <2>5. CASE <<s, d, x>> # <<n, e, y>>
    <3>1. Flying(s, d, x)' \subseteq Flying(s, d, x)
      BY <2>1, <2>2, <2>5 DEF Flying
    <3> QED BY <1>1, <1>2, <2>4, <3>1, FewerPlaced
  <2>6. CASE <<s, d, x>> = <<n, e, y>>
    <3>1. Flying(s, d, x)' \subseteq out
      BY <1>3, <2>1, <2>6 DEF Nowhere, Flying
    <3>2. Single(Flying(s, d, x)')
      BY <2>3, <3>1 DEF Single
    <3> QED BY <1>2, <1>3, <2>4, <2>6, <3>2 DEF Nowhere, Placed, InOnePlace, Single
  <2> QED BY <2>5, <2>6
<1>5. CASE Enqueue(n, e, y)
  <2>1. /\ pend' = [pend EXCEPT ![n][e] = Append(pend[n][e], y)]
        /\ net' = net \cup Broadcast(n, NewRREQ(n, e, 1))
    BY <1>5 DEF Enqueue
  <2>2. Flying(s, d, x)' = Flying(s, d, x)
    BY <2>1, BroadcastFields DEF Flying, NewRREQ
  <2>3. pend[n][e] \in Seq(Payload) /\ pend'[n][e] = Append(pend[n][e], y)
    BY <2>1 DEF TypeOK
  <2>4. (s # n \/ d # e) => Queued(s, d, x)' = Queued(s, d, x)
    BY <2>1 DEF Queued, TypeOK
  <2>5. CASE <<s, d, x>> # <<n, e, y>>
    <3>1. Queued(s, d, x)' \subseteq Queued(s, d, x)
      BY <2>3, <2>4, <2>5, Appended DEF Queued
    <3> QED BY <1>1, <1>2, <2>2, <3>1, FewerPlaced
  <2>6. CASE <<s, d, x>> = <<n, e, y>>
    <3>1. \A i \in Queued(s, d, x)' : i = Len(pend[n][e]) + 1
      <4> SUFFICES ASSUME NEW i \in DOMAIN pend'[n][e], pend'[n][e][i] = y
                   PROVE  i = Len(pend[n][e]) + 1
        BY <2>6 DEF Queued
      <4>1. (i \in DOMAIN pend[n][e] /\ pend[n][e][i] = y) \/ i = Len(pend[n][e]) + 1
        BY <2>3, Appended
      <4> QED BY <1>3, <2>6, <4>1 DEF Queued, Nowhere
    <3>2. Single(Queued(s, d, x)')
      BY <3>1 DEF Single
    <3> QED BY <1>2, <1>3, <2>2, <2>6, <3>2 DEF Nowhere, Placed, InOnePlace, Single
  <2> QED BY <2>5, <2>6
<1> QED BY <1>4, <1>5 DEF SendData

(* A restart forgets what is queued and what has arrived. *)
LEMMA RestartPlaced ==
  ASSUME TypeOK, AllPlaced, NEW n \in Node, Restart(n)
  PROVE  AllPlaced'
<1> SUFFICES ASSUME NEW s \in Node, NEW d \in Node, NEW x \in Payload PROVE Placed(s, d, x)'
  BY DEF AllPlaced
<1>1. Placed(s, d, x)
  BY DEF AllPlaced
<1>2. Queued(s, d, x)' \subseteq Queued(s, d, x)
  BY DEF Restart, Queued, TypeOK
<1>3. Kept(s, d, x)' \subseteq Kept(s, d, x)
  <2>1. inbox'[d] = (IF d = n THEN <<>> ELSE inbox[d])
    BY DEF Restart, TypeOK
  <2> QED BY <2>1 DEF Kept
<1>4. Flying(s, d, x)' = Flying(s, d, x) /\ asked' = asked
  BY DEF Restart, Flying
<1> QED BY <1>1, <1>2, <1>3, <1>4, FewerPlaced

(* The handlers that move no DATA, except to drop it. *)
LEMMA OtherPlaced ==
  ASSUME TypeOK, AllPlaced, NEW n \in Node, NEW p \in net, HandleMessage(n, p),
         ~FinishRREP(n, p), ~DeliverDATA(n, p), ~RelayDATA(n, p)
  PROVE  AllPlaced'
<1>1. p \in Datagram
  BY DEF TypeOK
<1>2. CASE HandleHELLO(n, p) \/ DeclineRREQ(n, p) \/ DropRREQ(n, p) \/ DropRREP(n, p) \/ IgnoreRERR(n, p)
  BY <1>2, ConsumeAdds, QuietPlaced
     DEF HandleHELLO, DeclineRREQ, DropRREQ, AcceptRREQ, DropRREP, IgnoreRERR
<1>3. CASE AnswerRREQ(n, p)
  <2> DEFINE m == [type |-> "RREP", src |-> n, dst |-> p.m.src, dstSeq |-> SeqAfter(n, 1), hops |-> 0]
  <2>1. Consume(p, SendToAddr(n, m, p.from, p.from[2])) /\ UNCHANGED <<pend, inbox, asked>>
    BY <1>3 DEF AnswerRREQ, AcceptRREQ
  <2>2. m.type # "DATA"
    OBVIOUS
  <2> QED BY <2>1, <2>2, SendToAddrFields, ConsumeAdds, QuietPlaced
<1>4. CASE RelayRREQ(n, p)
  <2> DEFINE m == [p.m EXCEPT !.ttl = @ - 1, !.hops = (@ + 1) % HopSpace]
  <2>1. Consume(p, Broadcast(n, m)) /\ UNCHANGED <<pend, inbox, asked>> /\ p.m.type = "RREQ"
    BY <1>4 DEF RelayRREQ, AcceptRREQ
  <2>2. m.type # "DATA"
    BY <1>1, <2>1, MessageFields DEF RREQ
  <2> HIDE DEF m
  <2> QED BY <2>1, <2>2, BroadcastFields, ConsumeAdds, QuietPlaced
<1>5. CASE RelayRREP(n, p)
  <2> DEFINE m == [p.m EXCEPT !.hops = (@ + 1) % HopSpace]
  <2>1. \E a, i : Consume(p, SendToAddr(n, m, a, i))
    BY <1>5 DEF RelayRREP
  <2>2. UNCHANGED <<pend, inbox, asked>> /\ p.m.type = "RREP"
    BY <1>5 DEF RelayRREP
  <2>3. m.type # "DATA"
    BY <1>1, <2>2, MessageFields DEF RREP
  <2> HIDE DEF m
  <2> QED BY <2>1, <2>2, <2>3, SendToAddrFields, ConsumeAdds, QuietPlaced
<1>6. CASE RejectDATA(n, p)
  BY <1>6, NotifyFields, ConsumeAdds, QuietPlaced DEF RejectDATA
<1>7. CASE HandleRERR(n, p)
  BY <1>7, NotifyFields, ConsumeAdds, QuietPlaced DEF HandleRERR
<1> QED BY <1>2, <1>3, <1>4, <1>5, <1>6, <1>7 DEF HandleMessage

(* A search, the collector, time and the network. *)
LEMMA EnvironmentPlaced ==
  ASSUME TypeOK, AllPlaced,
         \/ \E n \in Node : BroadcastHello(n) \/ CollectNeighbours(n)
         \/ \E n \in Node, d \in Node : SearchRoute(n, d) \/ RouteExpires(n, d) \/ NeighbourSilent(n, d)
         \/ \E p \in net : Lose(p)
  PROVE  AllPlaced'
<1>1. ASSUME NEW n \in Node, BroadcastHello(n) PROVE AllPlaced'
  BY <1>1, BroadcastFields, QuietPlaced DEF BroadcastHello
<1>2. ASSUME NEW n \in Node, CollectNeighbours(n) PROVE AllPlaced'
  <2>1. \A q \in net' : q \in net \/ q.m.type = "RERR"
    <3> DEFINE dead == {id \in DOMAIN nbr[n] : nbr[n][id].silent}
               table == DeleteAll(nbr[n], dead)
               broken == {d \in DOMAIN rt[n] : rt[n][d].next \in dead}
    <3>1. net' = net \cup UNION {NotifyPrecursors(n, table, d) : d \in broken}
      BY <1>2 DEF CollectNeighbours
    <3> HIDE DEF table, broken
    <3> QED BY <3>1, NotifyFields
  <2> QED BY <1>2, <2>1, QuietPlaced DEF CollectNeighbours
<1>3. ASSUME NEW n \in Node, NEW d \in Node, SearchRoute(n, d) PROVE AllPlaced'
  <2>1. \A q \in net' : q \in net \/ q.m = NewRREQ(n, d, 1)
    BY <1>3, BroadcastFields DEF SearchRoute
  <2> QED BY <1>3, <2>1, QuietPlaced DEF SearchRoute, NewRREQ
<1>4. ASSUME NEW n \in Node, NEW d \in Node, RouteExpires(n, d) \/ NeighbourSilent(n, d) PROVE AllPlaced'
  BY <1>4, QuietPlaced DEF RouteExpires, NeighbourSilent
<1>5. ASSUME NEW p \in net, Lose(p) PROVE AllPlaced'
  BY <1>5, QuietPlaced DEF Lose
<1> QED BY <1>1, <1>2, <1>3, <1>4, <1>5

-----------------------------------------------------------------------------
(* The theorems. *)

(* At the start there are no messages and no budget is spent. *)
LEMMA InitCopy == Init => CopyInv
<1> SUFFICES ASSUME Init PROVE CopyInv
  OBVIOUS
<1>1. WithinLimit
  BY MeshAssumption DEF Init, WithinLimit
<1>2. AllPlaced
  BY DEF Init, AllPlaced, Placed, InOnePlace, Nowhere, Queued, Flying, Kept, Single
<1> QED BY <1>1, <1>2, InitType DEF CopyInv

(* Every step keeps each message in its place. *)
LEMMA NextCopy == CopyInv /\ [Next]_vars => CopyInv'
<1> SUFFICES ASSUME CopyInv, [Next]_vars PROVE CopyInv'
  OBVIOUS
<1>1. TypeOK' /\ WithinLimit'
  BY NextType, LimitNext DEF CopyInv
<1>2. ASSUME Unspent({"duplicate"})' PROVE AllPlaced'
  <2>1. "duplicate" \in Budget /\ left'["duplicate"] = Limit["duplicate"]
    BY <1>2 DEF Budget, Unspent
  <2>2. TypeOK /\ AllPlaced /\ ~Spend("duplicate")
    BY <2>1, LimitNext DEF CopyInv, Unspent
  <2>3. ASSUME NEW n \in Node, NEW p \in net, HandleMessage(n, p) PROVE AllPlaced'
    BY <2>2, <2>3, DeliverPlaced, RelayDATAPlaced, FinishPlaced, OtherPlaced
  <2>4. CASE UNCHANGED vars
    BY <2>2, <2>4, QuietPlaced DEF vars
  <2> QED
    BY <2>2, <2>3, <2>4, SendDataPlaced, RestartPlaced, EnvironmentPlaced DEF Next, ProcessMessages
<1> QED BY <1>1, <1>2 DEF CopyInv

(* As long as nothing is duplicated every message is in one place at most,  *)
(* and in none before somebody asks for it.                                 *)
LEMMA CopyInvHolds == Spec => []CopyInv
BY InitCopy, NextCopy, PTL DEF Spec

(* A set without two elements has one at most. *)
LEMMA SingleCardinality ==
  ASSUME NEW S, Single(S)
  PROVE  Cardinality(S) \in {0, 1} /\ (S = {} => Cardinality(S) = 0)
<1>1. CASE S = {}
  BY <1>1, FS_EmptySet
<1>2. CASE S # {}
  <2>1. PICK u \in S : S = {u}
    BY <1>2 DEF Single
  <2> QED BY <1>2, <2>1, FS_Singleton
<1> QED BY <1>1, <1>2

(* A message is queued, in flight or delivered, and never in two of these   *)
(* places, whatever is lost, reordered, expires or restarts.                *)
THEOREM AtMostOneCopyHolds == Spec => []AtMostOneCopy
<1>1. ASSUME CopyInv, Unspent({"duplicate"}), NEW o \in Offered PROVE Copies(o[1], o[2], o[3]) <= 1
  <2>1. o[1] \in Node /\ o[2] \in Node /\ o[3] \in Payload
    BY MeshAssumption
  <2>2. InOnePlace(o[1], o[2], o[3])
    BY <1>1, <2>1 DEF CopyInv, AllPlaced, Placed
  <2>3. Copies(o[1], o[2], o[3]) = Cardinality(Queued(o[1], o[2], o[3]))
          + Cardinality(Flying(o[1], o[2], o[3])) + Cardinality(Kept(o[1], o[2], o[3]))
    BY DEF Copies, Queued, Flying, Kept
  <2> QED BY <2>2, <2>3, SingleCardinality DEF InOnePlace
<1>2. CopyInv => AtMostOneCopy
  BY <1>1 DEF AtMostOneCopy
<1> QED BY <1>2, CopyInvHolds, PTL

(* What arrives was asked for and arrives once, with the source and at the  *)
(* destination it was asked for, whatever is lost, reordered or expires.    *)
THEOREM DeliversOnceHolds == Spec => DeliversOnce
<1>1. ASSUME CopyInv, [Next]_vars, Unspent({"duplicate", "restart"})'
      PROVE  Service!Next \/ UNCHANGED Service!vars
  <2>1. {"duplicate", "restart"} \subseteq Budget
        /\ left'["duplicate"] = Limit["duplicate"] /\ left'["restart"] = Limit["restart"]
    BY <1>1 DEF Budget, Unspent
  <2>2. TypeOK /\ AllPlaced /\ ~Spend("restart")
    BY <1>1, <2>1, LimitNext DEF CopyInv, Unspent
  <2>3. ASSUME NEW n \in Node, NEW p \in net, DeliverDATA(n, p) PROVE Service!Next
    <3>1. p.m.type = "DATA" /\ p.m.dst = n /\ p.m.src \in Node /\ p.m.payload \in Payload
      BY <2>2, <2>3, MessageFields DEF DeliverDATA, TypeOK, DATA
    <3>2. p \in Flying(p.m.src, n, p.m.payload)
      BY <3>1 DEF Flying
    <3> DEFINE o == <<p.m.src, n, p.m.payload>>
    <3>3. o \in asked /\ Kept(o[1], o[2], o[3]) = {}
      BY <2>2, <3>1, <3>2 DEF AllPlaced, Placed, InOnePlace, Nowhere
    <3>4. o \in Offered /\ ~Service!Arrived(o)
      BY <2>2, <3>3 DEF TypeOK, Service!Arrived, Kept
    <3>5. UNCHANGED asked /\ inbox' = [inbox EXCEPT ![o[2]] = Append(@, <<o[1], o[3]>>)]
      BY <2>3 DEF DeliverDATA
    <3>6. Service!Arrive(o)
      BY <3>3, <3>4, <3>5 DEF Service!Arrive
    <3> HIDE DEF o
    <3> QED BY <3>4, <3>6 DEF Service!Next
  <2>4. ASSUME NEW n \in Node, NEW d \in Node, NEW x \in Payload, SendData(n, d, x) PROVE Service!Next
    BY <2>4 DEF SendData, Service!Next, Service!Ask
  <2>5. ASSUME NEW n \in Node, NEW p \in net, HandleMessage(n, p), ~DeliverDATA(n, p)
        PROVE  UNCHANGED Service!vars
    BY <2>5 DEF HandleMessage, HandleHELLO, DeclineRREQ, AnswerRREQ, RelayRREQ, DropRREQ, AcceptRREQ,
       FinishRREP, RelayRREP, DropRREP, RelayDATA, RejectDATA, IgnoreRERR, HandleRERR, Service!vars
  <2>6. UNCHANGED vars => UNCHANGED Service!vars
    BY DEF vars, Service!vars
  <2> QED
    BY <1>1, <2>2, <2>3, <2>4, <2>5, <2>6 DEF Next, ProcessMessages, BroadcastHello, CollectNeighbours,
       SearchRoute, RouteExpires, NeighbourSilent, Restart, Lose, Service!vars
<1>2. CopyInv /\ [Next]_vars =>
        [Unspent({"duplicate", "restart"})' => Service!Next \/ UNCHANGED Service!vars]_vars
  BY <1>1
<1> QED BY <1>2, CopyInvHolds, PTL DEF Spec, DeliversOnce

-----------------------------------------------------------------------------
(* Links. *)

(* Node n can reach address a through interface i. *)
OnLink(n, a, i) == i = a[2] /\ i \in Links[n] /\ i \in Links[a[1]]

(* What a node notes of its neighbours and next hops it can reach, because  *)
(* it notes where datagrams came from, and those go from link to link.      *)
Linked(n, t) == \A d \in DOMAIN t : OnLink(n, t[d].addr, t[d].iface)
LinkInv ==
  /\ \A n \in Node : Linked(n, nbr[n]) /\ Linked(n, rt[n])
  /\ \A p \in net : OnLink(p.to, p.from, p.from[2])

(* What is sent on all links arrives over one of them. *)
LEMMA BroadcastLinked ==
  ASSUME NEW n, NEW m, NEW q \in Broadcast(n, m)
  PROVE  OnLink(q.to, q.from, q.from[2])
<1>1. q.from \in {n} \X Links[n] /\ q.from[2] \in Links[q.to]
  BY DEF Broadcast
<1>2. q.from[1] = n /\ q.from[2] \in Links[n]
  BY <1>1
<1> QED BY <1>1, <1>2 DEF OnLink

(* What is sent to an address that can be reached arrives from one that can,*)
(* and it is sent.                                                          *)
LEMMA SendToAddrLinked ==
  ASSUME NEW n, NEW m, NEW a, NEW i, OnLink(n, a, i)
  PROVE  /\ SendToAddr(n, m, a, i) # {}
         /\ \A q \in SendToAddr(n, m, a, i) : OnLink(q.to, q.from, q.from[2])
<1>1. SendToAddr(n, m, a, i) = {[to |-> a[1], from |-> <<n, i>>, m |-> m]}
  BY DEF SendToAddr, OnLink
<1> QED BY <1>1 DEF OnLink

(* So do the reports to the neighbours of a table. *)
LEMMA SendRERRLinked ==
  ASSUME NEW n, NEW t, Linked(n, t), NEW k, NEW d, NEW q \in SendRERR(n, t, k, d)
  PROVE  OnLink(q.to, q.from, q.from[2])
BY SendToAddrLinked DEF SendRERR, Linked

(* Deleting entries leaves the others. *)
LEMMA DeleteLinked ==
  ASSUME NEW n, NEW t, Linked(n, t), NEW K
  PROVE  Linked(n, DeleteAll(t, K))
BY DEF Linked, DeleteAll

(* FindRoute, which may delete. *)
LEMMA AfterFindRouteLinked ==
  ASSUME NEW n, NEW t, Linked(n, t), NEW d
  PROVE  Linked(n, AfterFindRoute(t, d))
BY DeleteLinked DEF AfterFindRoute, Delete

(* AddPrecursor, which leaves the next hop alone. *)
LEMMA AddPrecursorLinked ==
  ASSUME NEW n, NEW t, IsTable(t, Node, RouteEntry), Linked(n, t), NEW d, NEW k
  PROVE  Linked(n, AddPrecursor(t, d, k))
<1>1. CASE d \in DOMAIN t
  <2>1. /\ [t[d] EXCEPT !.pre = @ \cup {k}].addr = t[d].addr
        /\ [t[d] EXCEPT !.pre = @ \cup {k}].iface = t[d].iface
    BY <1>1 DEF IsTable, RouteEntry
  <2> DEFINE e == [t[d] EXCEPT !.pre = @ \cup {k}]
  <2>2. AddPrecursor(t, d, k) = [t EXCEPT ![d] = e]
    BY <1>1 DEF AddPrecursor
  <2> HIDE DEF e
  <2>3. \A c \in DOMAIN t : AddPrecursor(t, d, k)[c] = IF c = d THEN e ELSE t[c]
    BY <2>2
  <2>4. DOMAIN AddPrecursor(t, d, k) = DOMAIN t
    BY <2>2
  <2> QED BY <2>1, <2>3, <2>4 DEF Linked, e
<1>2. CASE d \notin DOMAIN t
  BY <1>2 DEF AddPrecursor
<1> QED BY <1>1, <1>2

(* UpdateRoute, with an entry for whoever can be reached. *)
LEMMA UpdateRouteLinked ==
  ASSUME NEW n, NEW t, Linked(n, t), NEW d, NEW s, NEW h, NEW hop, NEW a, OnLink(n, a, a[2])
  PROVE  Linked(n, UpdateRoute(t, d, [seq |-> s, hops |-> h, next |-> hop, addr |-> a,
                                      iface |-> a[2], live |-> TRUE, pre |-> {}]))
<1> DEFINE e == [seq |-> s, hops |-> h, next |-> hop, addr |-> a,
                 iface |-> a[2], live |-> TRUE, pre |-> {}]
           f == [e EXCEPT !.pre = t[d].pre]
<1>1. e.addr = a /\ e.iface = a[2] /\ f.addr = a /\ f.iface = a[2]
  OBVIOUS
<1>2. UpdateRoute(t, d, e) \in {t, Put(t, d, e), Put(t, d, f)}
  BY DEF UpdateRoute
<1> HIDE DEF e, f
<1>3. Linked(n, Put(t, d, e)) /\ Linked(n, Put(t, d, f))
  BY <1>1 DEF Linked, Put
<1>4. Linked(n, UpdateRoute(t, d, e))
  BY <1>2, <1>3
<1> QED BY <1>4 DEF e

(* A step that changes the table of one node only, and what it sends. *)
LEMMA LinkStep ==
  ASSUME TypeOK, LinkInv, NEW n \in Node, NEW t, NEW u,
         nbr' = nbr \/ (nbr' = [nbr EXCEPT ![n] = t] /\ Linked(n, t)),
         rt' = rt \/ (rt' = [rt EXCEPT ![n] = u] /\ Linked(n, u)),
         \A q \in net' : q \in net \/ OnLink(q.to, q.from, q.from[2])
  PROVE  LinkInv'
<1>1. \A m \in Node : Linked(m, nbr'[m])
  BY DEF TypeOK, AreTables, LinkInv
<1>2. \A m \in Node : Linked(m, rt'[m])
  BY DEF TypeOK, AreTables, LinkInv
<1>3. \A m \in Node : Linked(m, nbr[m])' /\ Linked(m, rt[m])'
  BY <1>1, <1>2 DEF Linked, OnLink
<1>4. \A q \in net' : OnLink(q.to, q.from, q.from[2])
  BY DEF LinkInv
<1> QED BY <1>3, <1>4 DEF LinkInv, OnLink

(* Whoever a datagram comes from can be reached over the link it came by. *)
LEMMA FromLinked ==
  ASSUME LinkInv, NEW p \in net
  PROVE  OnLink(p.to, p.from, p.from[2])
BY DEF LinkInv

(* handleHELLO and handleRREQ. *)
LEMMA RequestLinked ==
  ASSUME TypeOK, LinkInv, NEW n \in Node, NEW p \in net, p.to = n,
         \/ HandleHELLO(n, p)
         \/ DeclineRREQ(n, p) \/ AnswerRREQ(n, p) \/ RelayRREQ(n, p) \/ DropRREQ(n, p)
  PROVE  LinkInv'
<1>1. OnLink(n, p.from, p.from[2])
  BY FromLinked
<1>2. CASE HandleHELLO(n, p)
  <2> DEFINE t == UpdateNeighbour(nbr[n], p.m.src, p.from, p.from[2])
  <2>1. Linked(n, t)
    BY <1>1 DEF LinkInv, Linked, UpdateNeighbour, Put
  <2>2. nbr' = [nbr EXCEPT ![n] = t] /\ rt' = rt /\ Consume(p, {})
    BY <1>2 DEF HandleHELLO
  <2>3. \A q \in net' : q \in net
    BY <2>2, ConsumeAdds
  <2> HIDE DEF t
  <2> QED BY <2>1, <2>2, <2>3, LinkStep
<1>3. CASE DeclineRREQ(n, p)
  BY <1>3, ConsumeAdds, LinkStep DEF DeclineRREQ
<1>4. CASE AnswerRREQ(n, p) \/ RelayRREQ(n, p) \/ DropRREQ(n, p)
  <2>1. AcceptRREQ(n, p)
    BY <1>4 DEF AnswerRREQ, RelayRREQ, DropRREQ
  <2>2. PICK u : rt' = [rt EXCEPT ![n] = u] /\ Linked(n, u)
    <3>1. PICK hop \in Sender(n, p) :
            rt' = [rt EXCEPT ![n] = UpdateRoute(@, p.m.src,
               [seq |-> p.m.srcSeq, hops |-> (p.m.hops + 1) % HopSpace,
                next |-> hop, addr |-> p.from, iface |-> p.from[2],
                live |-> TRUE, pre |-> {}])]
      BY <2>1 DEF AcceptRREQ
    <3> DEFINE u == UpdateRoute(rt[n], p.m.src,
               [seq |-> p.m.srcSeq, hops |-> (p.m.hops + 1) % HopSpace,
                next |-> hop, addr |-> p.from, iface |-> p.from[2],
                live |-> TRUE, pre |-> {}])
    <3>2. Linked(n, u)
      BY <1>1, UpdateRouteLinked DEF LinkInv
    <3>3. rt' = [rt EXCEPT ![n] = u]
      BY <3>1
    <3> QED BY <3>2, <3>3
  <2>3. \A q \in net' : q \in net \/ OnLink(q.to, q.from, q.from[2])
    <3>1. CASE \E m : Consume(p, SendToAddr(n, m, p.from, p.from[2]))
      BY <1>1, <3>1, ConsumeAdds, SendToAddrLinked
    <3>2. CASE \E m : Consume(p, Broadcast(n, m))
      BY <3>2, ConsumeAdds, BroadcastLinked
    <3>3. CASE Consume(p, {})
      BY <3>3, ConsumeAdds
    <3>4. AnswerRREQ(n, p) => \E m : Consume(p, SendToAddr(n, m, p.from, p.from[2]))
      BY DEF AnswerRREQ
    <3>5. RelayRREQ(n, p) => \E m : Consume(p, Broadcast(n, m))
      BY DEF RelayRREQ
    <3>6. DropRREQ(n, p) => Consume(p, {})
      BY DEF DropRREQ
    <3> QED BY <1>4, <3>1, <3>2, <3>3, <3>4, <3>5, <3>6
  <2>4. nbr' = nbr
    BY <2>1 DEF AcceptRREQ
  <2> QED BY <2>2, <2>3, <2>4, LinkStep
<1> QED BY <1>2, <1>3, <1>4

(* handleRREP: the forward route leads to where the reply came from. *)
LEMMA ForwardLinked ==
  ASSUME LinkInv, NEW n \in Node, NEW p \in net, p.to = n, NEW hop
  PROVE  Linked(n, WithForwardRoute(n, p, hop))
BY FromLinked, UpdateRouteLinked DEF LinkInv, WithForwardRoute

(* What is sent along a route of a table is sent, and arrives. *)
LEMMA AlongLinked ==
  ASSUME NEW n, NEW t, Linked(n, t), NEW d \in DOMAIN t, NEW m
  PROVE  /\ SendToAddr(n, m, t[d].addr, t[d].iface) # {}
         /\ \A q \in SendToAddr(n, m, t[d].addr, t[d].iface) : OnLink(q.to, q.from, q.from[2])
BY SendToAddrLinked DEF Linked

(* handleRREP at the requester. *)
LEMMA FinishLinked ==
  ASSUME TypeOK, LinkInv, NEW n \in Node, NEW p \in net, p.to = n, FinishRREP(n, p)
  PROVE  LinkInv'
<1> DEFINE d == p.m.src
           k == Len(pend[n][d])
           Sent(e) == UNION {SendToAddr(n, NewDATA(n, d, i, pend[n][d][i]), e.addr, e.iface) : i \in 1..k}
<1>1. PICK hop \in Sender(n, p) :
        \/ /\ RouteFound(WithForwardRoute(n, p, hop), d)
           /\ rt' = [rt EXCEPT ![n] = WithForwardRoute(n, p, hop)]
           /\ Consume(p, Sent(WithForwardRoute(n, p, hop)[d]))
        \/ /\ rt' = [rt EXCEPT ![n] = AfterFindRoute(WithForwardRoute(n, p, hop), d)]
           /\ Consume(p, UNION {Broadcast(n, NewRREQ(n, d, i)) : i \in 1..k})
        \/ rt' = [rt EXCEPT ![n] = WithForwardRoute(n, p, hop)] /\ Consume(p, {})
  BY DEF FinishRREP, Sent
<1>2. nbr' = nbr
  BY DEF FinishRREP
<1> DEFINE table == WithForwardRoute(n, p, hop)
<1>3. Linked(n, table) /\ Linked(n, AfterFindRoute(table, d))
  BY ForwardLinked, AfterFindRouteLinked
<1> HIDE DEF table
<1>4. ASSUME d \in DOMAIN table, NEW q \in Sent(table[d]) PROVE OnLink(q.to, q.from, q.from[2])
  BY <1>3, <1>4, AlongLinked
<1>5. \A q \in UNION {Broadcast(n, NewRREQ(n, d, i)) : i \in 1..k} : OnLink(q.to, q.from, q.from[2])
  BY BroadcastLinked
<1> HIDE DEF Sent
<1>6. CASE /\ RouteFound(table, d) /\ rt' = [rt EXCEPT ![n] = table] /\ Consume(p, Sent(table[d]))
  BY <1>2, <1>3, <1>4, <1>6, ConsumeAdds, LinkStep DEF RouteFound
<1>7. CASE /\ rt' = [rt EXCEPT ![n] = AfterFindRoute(table, d)]
           /\ Consume(p, UNION {Broadcast(n, NewRREQ(n, d, i)) : i \in 1..k})
  BY <1>2, <1>3, <1>5, <1>7, ConsumeAdds, LinkStep
<1>8. CASE rt' = [rt EXCEPT ![n] = table] /\ Consume(p, {})
  <2>1. \A q \in net' : q \in net
    BY <1>8, ConsumeAdds
  <2> QED BY <1>2, <1>3, <1>8, <2>1, LinkStep
<1> QED BY <1>1, <1>6, <1>7, <1>8 DEF table

(* handleRREP on the way. *)
LEMMA ReplyLinked ==
  ASSUME TypeOK, LinkInv, NEW n \in Node, NEW p \in net, p.to = n, RelayRREP(n, p) \/ DropRREP(n, p)
  PROVE  LinkInv'
<1>1. CASE RelayRREP(n, p)
  <2> DEFINE m == [p.m EXCEPT !.hops = (@ + 1) % HopSpace]
  <2>1. PICK hop \in Sender(n, p) :
          LET table == WithForwardRoute(n, p, hop)
              route == table[p.m.dst]
          IN  /\ RouteFound(table, p.m.dst)
              /\ rt' = [rt EXCEPT ![n] = AddPrecursor(table, p.m.src, route.next)]
              /\ Consume(p, SendToAddr(n, m, route.addr, route.iface))
    BY <1>1 DEF RelayRREP
  <2> DEFINE table == WithForwardRoute(n, p, hop)
  <2>2. Linked(n, table)
    BY ForwardLinked
  <2>3. IsTable(table, Node, RouteEntry)
    BY <1>1, ReplyFields, WithForwardRouteType DEF RelayRREP
  <2> HIDE DEF table, m
  <2>4. Linked(n, AddPrecursor(table, p.m.src, table[p.m.dst].next))
    BY <2>2, <2>3, AddPrecursorLinked
  <2>5. \A q \in SendToAddr(n, m, table[p.m.dst].addr, table[p.m.dst].iface) :
          OnLink(q.to, q.from, q.from[2])
    BY <2>1, <2>2, AlongLinked DEF RouteFound, table
  <2>6. rt' = [rt EXCEPT ![n] = AddPrecursor(table, p.m.src, table[p.m.dst].next)] /\ nbr' = nbr
    BY <1>1, <2>1 DEF RelayRREP, table
  <2>7. Consume(p, SendToAddr(n, m, table[p.m.dst].addr, table[p.m.dst].iface))
    BY <2>1 DEF table
  <2> QED BY <2>4, <2>5, <2>6, <2>7, ConsumeAdds, LinkStep
<1>2. CASE DropRREP(n, p)
  <2>1. PICK hop : rt' = [rt EXCEPT ![n] = AfterFindRoute(WithForwardRoute(n, p, hop), p.m.dst)]
    BY <1>2 DEF DropRREP
  <2> DEFINE u == AfterFindRoute(WithForwardRoute(n, p, hop), p.m.dst)
  <2>2. Linked(n, u) /\ rt' = [rt EXCEPT ![n] = u]
    BY <2>1, ForwardLinked, AfterFindRouteLinked
  <2>3. nbr' = nbr /\ Consume(p, {})
    BY <1>2 DEF DropRREP
  <2>4. \A q \in net' : q \in net
    BY <2>3, ConsumeAdds
  <2> HIDE DEF u
  <2> QED BY <2>2, <2>3, <2>4, LinkStep
<1> QED BY <1>1, <1>2

(* handleDATA and handleRERR. *)
LEMMA DATALinked ==
  ASSUME TypeOK, LinkInv, NEW n \in Node, NEW p \in net, p.to = n,
         \/ DeliverDATA(n, p) \/ RelayDATA(n, p) \/ RejectDATA(n, p)
         \/ IgnoreRERR(n, p) \/ HandleRERR(n, p)
  PROVE  LinkInv'
<1> DEFINE d == p.m.dst
<1>1. Linked(n, nbr[n]) /\ Linked(n, rt[n]) /\ IsTable(rt[n], Node, RouteEntry)
  BY TableOf DEF LinkInv, TypeOK
<1>2. CASE DeliverDATA(n, p) \/ IgnoreRERR(n, p)
  <2>1. nbr' = nbr /\ rt' = rt /\ Consume(p, {})
    BY <1>2 DEF DeliverDATA, IgnoreRERR
  <2>2. \A q \in net' : q \in net
    BY <2>1, ConsumeAdds
  <2> QED BY <2>1, <2>2, LinkStep
<1>3. CASE RelayDATA(n, p)
  <2>1. PICK k : rt' = [rt EXCEPT ![n] = WithPrecursor(n, p, k)]
    BY <1>3 DEF RelayDATA
  <2> DEFINE u == WithPrecursor(n, p, k)
             m == [p.m EXCEPT !.ttl = @ - 1]
             out == SendToAddr(n, m, rt[n][d].addr, rt[n][d].iface)
  <2>2. Linked(n, u) /\ rt' = [rt EXCEPT ![n] = u]
    BY <1>1, <2>1, AddPrecursorLinked DEF WithPrecursor
  <2>3. nbr' = nbr /\ (Consume(p, out) \/ Consume(p, {})) /\ d \in DOMAIN rt[n]
    BY <1>3 DEF RelayDATA, RouteFound
  <2> HIDE DEF u, m
  <2>4. \A q \in out : OnLink(q.to, q.from, q.from[2])
    BY <1>1, <2>3, AlongLinked
  <2> HIDE DEF out
  <2>5. \A q \in net' : q \in net \/ OnLink(q.to, q.from, q.from[2])
    BY <2>3, <2>4, ConsumeAdds
  <2> QED BY <2>2, <2>3, <2>5, LinkStep
<1>4. CASE RejectDATA(n, p)
  <2> DEFINE u == AfterFindRoute(rt[n], d)
  <2>1. Linked(n, u) /\ rt' = [rt EXCEPT ![n] = u] /\ nbr' = nbr
    BY <1>1, <1>4, AfterFindRouteLinked DEF RejectDATA
  <2>2. PICK k : Consume(p, SendRERR(n, nbr[n], k, d))
    BY <1>4 DEF RejectDATA
  <2>3. \A q \in net' : q \in net \/ OnLink(q.to, q.from, q.from[2])
    BY <1>1, <2>2, ConsumeAdds, SendRERRLinked
  <2> HIDE DEF u
  <2> QED BY <2>1, <2>3, LinkStep
<1>5. CASE HandleRERR(n, p)
  <2> DEFINE u == Delete(rt[n], p.m.unreachable)
  <2>1. Linked(n, u) /\ rt' = [rt EXCEPT ![n] = u] /\ nbr' = nbr
    BY <1>1, <1>5, DeleteLinked DEF HandleRERR, Delete
  <2>2. Consume(p, NotifyPrecursors(n, nbr[n], p.m.unreachable))
    BY <1>5 DEF HandleRERR
  <2>3. \A q \in net' : q \in net \/ OnLink(q.to, q.from, q.from[2])
    BY <1>1, <2>2, ConsumeAdds, SendRERRLinked DEF NotifyPrecursors
  <2> HIDE DEF u
  <2> QED BY <2>1, <2>3, LinkStep
<1> QED BY <1>2, <1>3, <1>4, <1>5

(* The users, the timers of a node, and its environment. *)
LEMMA OthersLinked ==
  ASSUME TypeOK, LinkInv, NEW n \in Node,
         \/ BroadcastHello(n) \/ CollectNeighbours(n) \/ Restart(n)
         \/ \E d \in Node : \/ \E x \in Payload : SendData(n, d, x)
                            \/ SearchRoute(n, d) \/ RouteExpires(n, d) \/ NeighbourSilent(n, d)
  PROVE  LinkInv'
<1>1. /\ Linked(n, nbr[n]) /\ Linked(n, rt[n])
      /\ IsTable(rt[n], Node, RouteEntry) /\ IsTable(nbr[n], Node, NeighboursEntry)
  BY TableOf DEF LinkInv, TypeOK
<1>2. CASE BroadcastHello(n)
  <2>1. \A q \in net' : q \in net \/ OnLink(q.to, q.from, q.from[2])
    BY <1>2, BroadcastLinked DEF BroadcastHello
  <2> QED BY <1>2, <2>1, LinkStep DEF BroadcastHello
<1>3. CASE CollectNeighbours(n)
  <2> DEFINE dead == {id \in DOMAIN nbr[n] : nbr[n][id].silent}
             t == DeleteAll(nbr[n], dead)
             broken == {d \in DOMAIN rt[n] : rt[n][d].next \in dead}
             u == DeleteAll(rt[n], broken)
  <2>1. /\ nbr' = [nbr EXCEPT ![n] = t] /\ rt' = [rt EXCEPT ![n] = u]
        /\ net' = net \cup UNION {NotifyPrecursors(n, t, d) : d \in broken}
    BY <1>3 DEF CollectNeighbours
  <2>2. Linked(n, t) /\ Linked(n, u)
    BY <1>1, DeleteLinked
  <2> HIDE DEF t, u, broken
  <2>3. \A q \in net' : q \in net \/ OnLink(q.to, q.from, q.from[2])
    BY <2>1, <2>2, SendRERRLinked DEF NotifyPrecursors
  <2> QED BY <2>1, <2>2, <2>3, LinkStep
<1>4. CASE Restart(n)
  <2>1. Linked(n, NewTable)
    BY DEF Linked, NewTable
  <2>2. nbr' = [nbr EXCEPT ![n] = NewTable] /\ rt' = [rt EXCEPT ![n] = NewTable] /\ net' = net
    BY <1>4 DEF Restart
  <2> QED BY <2>1, <2>2, LinkStep
<1>5. ASSUME NEW d \in Node, NEW x \in Payload, SendData(n, d, x) PROVE LinkInv'
  <2>1. nbr' = nbr
    BY <1>5 DEF SendData
  <2>2. CASE SendNow(n, d, x)
    <3>1. rt' = rt /\ d \in DOMAIN rt[n]
      BY <2>2 DEF SendNow, RouteFound
    <3>2. \A q \in net' : q \in net \/ OnLink(q.to, q.from, q.from[2])
      BY <1>1, <2>2, <3>1, AlongLinked DEF SendNow
    <3> QED BY <2>1, <3>1, <3>2, LinkStep
  <2>3. CASE Enqueue(n, d, x)
    <3> DEFINE u == AfterFindRoute(rt[n], d)
    <3>1. Linked(n, u) /\ rt' = [rt EXCEPT ![n] = u]
      BY <1>1, <2>3, AfterFindRouteLinked DEF Enqueue
    <3>2. \A q \in net' : q \in net \/ OnLink(q.to, q.from, q.from[2])
      BY <2>3, BroadcastLinked DEF Enqueue
    <3> HIDE DEF u
    <3> QED BY <2>1, <3>1, <3>2, LinkStep
  <2> QED BY <1>5, <2>2, <2>3 DEF SendData
<1>6. ASSUME NEW d \in Node, SearchRoute(n, d) PROVE LinkInv'
  <2> DEFINE u == AfterFindRoute(rt[n], d)
  <2>1. Linked(n, u) /\ rt' = [rt EXCEPT ![n] = u] /\ nbr' = nbr
    BY <1>1, <1>6, AfterFindRouteLinked DEF SearchRoute
  <2>2. \A q \in net' : q \in net \/ OnLink(q.to, q.from, q.from[2])
    BY <1>6, BroadcastLinked DEF SearchRoute
  <2> HIDE DEF u
  <2> QED BY <2>1, <2>2, LinkStep
<1>7. ASSUME NEW d \in Node, RouteExpires(n, d) PROVE LinkInv'
  <2> DEFINE e == [rt[n][d] EXCEPT !.live = FALSE]
             u == [rt[n] EXCEPT ![d] = e]
  <2>1. d \in DOMAIN rt[n] /\ rt' = [rt EXCEPT ![n] = u] /\ nbr' = nbr /\ net' = net
    BY <1>7 DEF RouteExpires
  <2>2. e.addr = rt[n][d].addr /\ e.iface = rt[n][d].iface
    BY <1>1, <2>1 DEF IsTable, RouteEntry
  <2> HIDE DEF e
  <2>3. Linked(n, u)
    BY <1>1, <2>1, <2>2 DEF Linked
  <2> QED BY <2>1, <2>3, LinkStep
<1>8. ASSUME NEW d \in Node, NeighbourSilent(n, d) PROVE LinkInv'
  <2> DEFINE e == [nbr[n][d] EXCEPT !.silent = TRUE]
             t == [nbr[n] EXCEPT ![d] = e]
  <2>1. d \in DOMAIN nbr[n] /\ nbr' = [nbr EXCEPT ![n] = t] /\ rt' = rt /\ net' = net
    BY <1>8 DEF NeighbourSilent
  <2>2. e.addr = nbr[n][d].addr /\ e.iface = nbr[n][d].iface
    BY <1>1, <2>1 DEF IsTable, NeighboursEntry
  <2> HIDE DEF e
  <2>3. Linked(n, t)
    BY <1>1, <2>1, <2>2 DEF Linked
  <2> QED BY <2>1, <2>3, LinkStep
<1> QED BY <1>2, <1>3, <1>4, <1>5, <1>6, <1>7, <1>8

(* LinkInv holds at the start and is kept by every step. *)
LEMMA InitLink == Init => LinkInv
BY DEF Init, LinkInv, Linked, NewTable

(* Every step keeps it. *)
LEMMA NextLink == ASSUME TypeOK, LinkInv, [Next]_vars PROVE LinkInv'
<1>1. ASSUME NEW p \in net, Lose(p) PROVE LinkInv'
  BY <1>1 DEF Lose, LinkInv, Linked, OnLink
<1>2. CASE UNCHANGED vars
  BY <1>2 DEF vars, LinkInv, Linked, OnLink
<1>3. ASSUME NEW n \in Node, ProcessMessages(n) PROVE LinkInv'
  BY <1>3, RequestLinked, FinishLinked, ReplyLinked, DATALinked DEF ProcessMessages, HandleMessage
<1> QED BY <1>1, <1>2, <1>3, OthersLinked DEF Next

-----------------------------------------------------------------------------
(* No message is lost on the way. *)

(* A datagram that is handled is all that leaves the network. *)
LEMMA ConsumeKeeps ==
  ASSUME NEW p, NEW out, Consume(p, out)
  PROVE  (\A q \in net : q \in net' \/ q = p) /\ out \subseteq net'
BY DEF Consume

(* Handling anything else leaves a message where it is. *)
LEMMA StillPresent ==
  ASSUME NEW s, NEW d, NEW x, Present(s, d, x), UNCHANGED <<pend, inbox>>, NEW p, ~Carries(p, s, d, x),
         \A q \in net : q \in net' \/ q = p
  PROVE  Present(s, d, x)'
BY DEF Present, Carries

(* The flush sends every message it takes out of the queue. *)
LEMMA FinishPresent ==
  ASSUME TypeOK, LinkInv, NEW n \in Node, NEW p \in net, p.to = n, FinishRREP(n, p),
         NEW s \in Node, NEW d \in Node, NEW x \in Payload, Present(s, d, x)
  PROVE  Present(s, d, x)'
<1> DEFINE e == p.m.src
           k == Len(pend[n][e])
           Sent(r) == UNION {SendToAddr(n, NewDATA(n, e, i, pend[n][e][i]), r.addr, r.iface) : i \in 1..k}
<1>1. PICK hop \in Sender(n, p) :
        \/ /\ RouteFound(WithForwardRoute(n, p, hop), e)
           /\ TakePending(n, e)
           /\ Consume(p, Sent(WithForwardRoute(n, p, hop)[e]))
        \/ UNCHANGED pend /\ \E out : Consume(p, out)
  BY DEF FinishRREP, Sent
<1>2. p.m.type = "RREP" /\ inbox' = inbox /\ e \in Node /\ ~Carries(p, s, d, x)
  BY ReplyFields DEF FinishRREP, Carries
<1> DEFINE table == WithForwardRoute(n, p, hop)
<1>3. Linked(n, table)
  BY ForwardLinked
<1> HIDE DEF table
<1>4. CASE UNCHANGED pend /\ \E out : Consume(p, out)
  BY <1>2, <1>4, ConsumeKeeps, StillPresent
<1>5. CASE e \in DOMAIN table /\ TakePending(n, e) /\ Consume(p, Sent(table[e]))
  <2>1. (\A q \in net : q \in net' \/ q = p) /\ Sent(table[e]) \subseteq net'
    BY <1>5, ConsumeKeeps
  <2>2. pend' = [pend EXCEPT ![n][e] = <<>>]
    BY <1>5 DEF TakePending
  <2>3. CASE \E q \in net : Carries(q, s, d, x)
    BY <1>2, <2>1, <2>3 DEF Present, Carries
  <2>4. CASE \E i \in DOMAIN inbox[d] : inbox[d][i] = <<s, x>>
    BY <1>2, <2>4 DEF Present
  <2>5. ASSUME NEW i \in DOMAIN pend[s][d], pend[s][d][i] = x PROVE Present(s, d, x)'
    <3>1. CASE s # n \/ d # e
      <4>1. pend'[s][d] = pend[s][d]
        BY <2>2, <3>1 DEF TypeOK
      <4> QED BY <2>5, <4>1 DEF Present
    <3>2. CASE s = n /\ d = e
      <4>1. i \in 1..k
        BY <2>5, <3>2 DEF TypeOK
      <4> DEFINE out == SendToAddr(n, NewDATA(n, e, i, x), table[e].addr, table[e].iface)
      <4>2. PICK q \in out : TRUE
        BY <1>3, <1>5, AlongLinked
      <4>3. q \in net'
        BY <2>1, <2>5, <3>2, <4>1, <4>2
      <4>4. q.m = NewDATA(n, e, i, x)
        BY <4>2, SendToAddrFields
      <4>5. Carries(q, s, d, x)
        BY <3>2, <4>4 DEF NewDATA, Carries
      <4> QED BY <4>3, <4>5 DEF Present, Carries
    <3> QED BY <3>1, <3>2
  <2> QED BY <2>3, <2>4, <2>5 DEF Present
<1> QED BY <1>1, <1>4, <1>5 DEF RouteFound, table

(* A delivered message is in the inbox, with those that were there.         *)
LEMMA DeliverPresent ==
  ASSUME TypeOK, NEW n \in Node, NEW p \in net, DeliverDATA(n, p),
         NEW s \in Node, NEW d \in Node, NEW x \in Payload, Present(s, d, x)
  PROVE  Present(s, d, x)'
<1>1. /\ p.m.type = "DATA" /\ p.m.dst = n /\ pend' = pend /\ Consume(p, {})
      /\ inbox' = [inbox EXCEPT ![n] = Append(inbox[n], <<p.m.src, p.m.payload>>)]
  BY DEF DeliverDATA
<1>2. inbox \in [Node -> Seq(Node \X Payload)] /\ <<p.m.src, p.m.payload>> \in Node \X Payload
  BY <1>1, MessageFields DEF TypeOK, DATA
<1>3. \A i \in DOMAIN inbox[d] : i \in DOMAIN inbox'[d] /\ inbox'[d][i] = inbox[d][i]
  <2>1. CASE d # n
    BY <1>1, <1>2, <2>1
  <2>2. CASE d = n
    <3>1. inbox'[d] = Append(inbox[d], <<p.m.src, p.m.payload>>) /\ inbox[d] \in Seq(Node \X Payload)
      BY <1>1, <1>2, <2>2
    <3> HIDE <1>1
    <3> QED BY <1>2, <3>1
  <2> QED BY <2>1, <2>2
<1>4. CASE Carries(p, s, d, x)
  <2>1. d = n /\ <<p.m.src, p.m.payload>> = <<s, x>>
    BY <1>1, <1>4 DEF Carries
  <2>2. inbox'[d] = Append(inbox[d], <<s, x>>) /\ inbox[d] \in Seq(Node \X Payload)
    BY <1>1, <1>2, <2>1
  <2>3. Len(inbox[d]) + 1 \in DOMAIN inbox'[d] /\ inbox'[d][Len(inbox[d]) + 1] = <<s, x>>
    BY <2>2
  <2> QED BY <2>3 DEF Present
<1>5. CASE ~Carries(p, s, d, x)
  <2>1. \A q \in net : q \in net' \/ q = p
    BY <1>1, ConsumeKeeps
  <2> QED BY <1>1, <1>3, <1>5, <2>1 DEF Present, Carries
<1> QED BY <1>4, <1>5

(* A relay sends the message on while its time to live lasts.               *)
LEMMA RelayPresent ==
  ASSUME TypeOK, LinkInv, NEW n \in Node, NEW p \in net, RelayDATA(n, p),
         NEW s \in Node, NEW d \in Node, NEW x \in Payload, Present(s, d, x)
  PROVE  Present(s, d, x)' \/ (Carries(p, s, d, x) /\ p.m.ttl <= 1)
<1> DEFINE m == [p.m EXCEPT !.ttl = @ - 1]
           out == SendToAddr(n, m, rt[n][p.m.dst].addr, rt[n][p.m.dst].iface)
<1>1. /\ p.m.type = "DATA" /\ UNCHANGED <<pend, inbox>> /\ p.m.dst \in DOMAIN rt[n]
      /\ (p.m.ttl > 1 /\ Consume(p, out)) \/ (p.m.ttl <= 1 /\ Consume(p, {}))
  BY DEF RelayDATA, RouteFound
<1>2. p.m \in DATA
  BY <1>1, MessageFields DEF TypeOK
<1>3. CASE ~Carries(p, s, d, x)
  BY <1>1, <1>3, ConsumeKeeps, StillPresent
<1>4. CASE Carries(p, s, d, x) /\ Consume(p, out)
  <2>1. m.type = "DATA" /\ m.src = s /\ m.dst = d /\ m.payload = x
    BY <1>2, <1>4 DEF DATA, Carries
  <2> HIDE DEF m
  <2>2. PICK q \in out : TRUE
    BY <1>1, AlongLinked DEF LinkInv
  <2>3. q.m = m /\ q \in net'
    BY <1>4, <2>2, SendToAddrFields, ConsumeKeeps
  <2> QED BY <2>1, <2>3 DEF Present, Carries
<1> HIDE DEF out
<1> QED BY <1>1, <1>3, <1>4

(* A message is rejected only where a route to its destination has been     *)
(* forgotten: NoBlackHole.                                                  *)
LEMMA RejectPresent ==
  ASSUME TypeOK, NoBlackHole, NEW n \in Node, NEW p \in net, p.to = n, RejectDATA(n, p),
         NEW s \in Node, NEW d \in Node \ spoiled', NEW x \in Payload, Present(s, d, x)
  PROVE  Present(s, d, x)'
<1>1. /\ p.m.type = "DATA" /\ p.m.dst # n /\ UNCHANGED <<pend, inbox>>
      /\ ~RouteFound(rt[n], p.m.dst) /\ rt' = [rt EXCEPT ![n] = AfterFindRoute(@, p.m.dst)]
      /\ TrackOrder /\ \E out : Consume(p, out)
  BY DEF RejectDATA
<1>2. p.m.dst # d
  <2> SUFFICES ASSUME p.m.dst = d PROVE FALSE
    OBVIOUS
  <2>1. d \notin spoiled
    BY <1>1 DEF TrackOrder
  <2>2. d \in DOMAIN rt[n]
    BY <1>1, <2>1 DEF NoBlackHole
  <2>3. rt'[n] = Delete(rt[n], d)
    BY <1>1, <2>2 DEF RouteFound, AfterFindRoute, TypeOK, AreTables
  <2>4. d \notin DOMAIN rt'[n]
    BY <2>3 DEF Delete, DeleteAll
  <2> QED BY <1>1, <2>2, <2>4 DEF TrackOrder
<1>3. ~Carries(p, s, d, x)
  BY <1>2 DEF Carries
<1> QED BY <1>1, <1>3, ConsumeKeeps, StillPresent

(* SendData sends or queues its message and leaves the others.              *)
LEMMA SendDataPresent ==
  ASSUME TypeOK, LinkInv, NEW n \in Node, NEW e \in Node, NEW y \in Payload, SendData(n, e, y),
         NEW s \in Node, NEW d \in Node, NEW x \in Payload,
         <<s, d, x>> \in asked', <<s, d, x>> \in asked => Present(s, d, x)
  PROVE  Present(s, d, x)'
<1>1. inbox' = inbox /\ asked' = asked \cup {<<n, e, y>>}
  BY DEF SendData
<1>2. pend[n][e] \in Seq(Payload)
  BY DEF TypeOK
<1>3. CASE SendNow(n, e, y)
  <2> DEFINE m == NewDATA(n, e, 1, y)
             out == SendToAddr(n, m, rt[n][e].addr, rt[n][e].iface)
  <2>1. pend' = pend /\ net' = net \cup out /\ e \in DOMAIN rt[n]
    BY <1>3 DEF SendNow, RouteFound
  <2>2. m.type = "DATA" /\ m.src = n /\ m.dst = e /\ m.payload = y
    BY DEF NewDATA
  <2> HIDE DEF m
  <2>3. PICK q \in out : TRUE
    BY <2>1, AlongLinked DEF LinkInv
  <2>4. q \in net' /\ q.m = m
    BY <2>1, <2>3, SendToAddrFields
  <2> HIDE DEF out
  <2>5. CASE <<s, d, x>> = <<n, e, y>>
    BY <2>2, <2>4, <2>5 DEF Present, Carries
  <2>6. CASE <<s, d, x>> \in asked
    BY <1>1, <2>1, <2>6 DEF Present, Carries
  <2> QED BY <1>1, <2>5, <2>6
<1>4. CASE Enqueue(n, e, y)
  <2>1. pend' = [pend EXCEPT ![n][e] = Append(pend[n][e], y)] /\ net \subseteq net'
    BY <1>4 DEF Enqueue
  <2>2. pend'[n][e] = Append(pend[n][e], y)
    BY <2>1 DEF TypeOK
  <2>3. CASE <<s, d, x>> = <<n, e, y>>
    <3>1. Len(pend[n][e]) + 1 \in DOMAIN pend'[n][e] /\ pend'[n][e][Len(pend[n][e]) + 1] = y
      BY <1>2, <2>2
    <3> QED BY <2>3, <3>1 DEF Present
  <2>4. CASE <<s, d, x>> \in asked
    <3>1. \A i \in DOMAIN pend[s][d] : i \in DOMAIN pend'[s][d] /\ pend'[s][d][i] = pend[s][d][i]
      <4>1. CASE s = n /\ d = e
        BY <1>2, <2>2, <4>1
      <4>2. CASE s # n \/ d # e
        <5>1. pend'[s][d] = pend[s][d]
          BY <2>1, <4>2 DEF TypeOK
        <5> QED BY <5>1
      <4> QED BY <4>1, <4>2
    <3> QED BY <1>1, <2>1, <2>4, <3>1 DEF Present, Carries
  <2> QED BY <1>1, <2>3, <2>4
<1> QED BY <1>3, <1>4 DEF SendData

(* What is no message takes none away: HELLO, RREQ, RERR, and a reply on    *)
(* its way.                                                                 *)
LEMMA OthersPresent ==
  ASSUME NEW n, NEW p,
         \/ HandleHELLO(n, p)
         \/ DeclineRREQ(n, p) \/ AnswerRREQ(n, p) \/ RelayRREQ(n, p) \/ DropRREQ(n, p)
         \/ RelayRREP(n, p) \/ DropRREP(n, p)
         \/ IgnoreRERR(n, p) \/ HandleRERR(n, p),
         NEW s, NEW d, NEW x, Present(s, d, x)
  PROVE  Present(s, d, x)'
<1>1. p.m.type # "DATA" /\ UNCHANGED <<pend, inbox>>
  BY DEF HandleHELLO, DeclineRREQ, AcceptRREQ, AnswerRREQ, RelayRREQ, DropRREQ, RelayRREP,
         DropRREP, IgnoreRERR, HandleRERR
<1>2. \E out : Consume(p, out)
  BY DEF HandleHELLO, DeclineRREQ, AnswerRREQ, RelayRREQ, DropRREQ, RelayRREP, DropRREP,
         IgnoreRERR, HandleRERR
<1> QED BY <1>1, <1>2, ConsumeKeeps, StillPresent DEF Carries

(* Nor does a timer of a node, or time.                                     *)
LEMMA TimersPresent ==
  ASSUME NEW n,
         \/ BroadcastHello(n) \/ CollectNeighbours(n)
         \/ \E d : SearchRoute(n, d) \/ RouteExpires(n, d) \/ NeighbourSilent(n, d),
         NEW s, NEW d, NEW x, Present(s, d, x)
  PROVE  Present(s, d, x)'
<1>1. net \subseteq net' /\ UNCHANGED <<pend, inbox>>
  BY DEF BroadcastHello, CollectNeighbours, SearchRoute, RouteExpires, NeighbourSilent
<1> QED BY <1>1 DEF Present, Carries

(* A step of the mesh.                                                      *)
LEMMA NextPresent ==
  ASSUME FreshInv, LinkInv, Next, ~Spend("lose"), ~Spend("restart"),
         NEW s \in Node, NEW d \in Node \ spoiled', NEW x \in Payload,
         <<s, d, x>> \in asked', <<s, d, x>> \in asked => Present(s, d, x)
  PROVE  Present(s, d, x)' \/ \E p \in net : Carries(p, s, d, x) /\ p.m.ttl <= 1
<1>1. TypeOK /\ NoBlackHole
  BY DEF FreshInv
<1>2. ASSUME NEW n \in Node, NEW e \in Node, NEW y \in Payload, SendData(n, e, y)
      PROVE  Present(s, d, x)'
  BY <1>1, <1>2, SendDataPresent
<1>3. ASSUME NEW n \in Node, NEW p \in net, p.to = n, HandleMessage(n, p), <<s, d, x>> \in asked
      PROVE  Present(s, d, x)' \/ (Carries(p, s, d, x) /\ p.m.ttl <= 1)
  BY <1>1, <1>3, FinishPresent, DeliverPresent, RelayPresent, RejectPresent, OthersPresent
     DEF HandleMessage
<1>4. ASSUME NEW n, NEW p, HandleMessage(n, p)
      PROVE  asked' = asked
  BY <1>4 DEF HandleMessage, HandleHELLO, DeclineRREQ, AcceptRREQ, AnswerRREQ, RelayRREQ, DropRREQ,
              FinishRREP, RelayRREP, DropRREP, DeliverDATA, RelayDATA, RejectDATA, IgnoreRERR,
              HandleRERR
<1>5. ASSUME NEW n \in Node, ProcessMessages(n)
      PROVE  Present(s, d, x)' \/ \E p \in net : Carries(p, s, d, x) /\ p.m.ttl <= 1
  BY <1>3, <1>4, <1>5 DEF ProcessMessages
<1>6. ASSUME NEW n \in Node,
             \/ BroadcastHello(n) \/ CollectNeighbours(n)
             \/ \E e \in Node : SearchRoute(n, e) \/ RouteExpires(n, e) \/ NeighbourSilent(n, e)
      PROVE  Present(s, d, x)'
  <2>1. asked' = asked
    BY <1>6 DEF BroadcastHello, CollectNeighbours, SearchRoute, RouteExpires, NeighbourSilent
  <2>2. Present(s, d, x)
    BY <2>1
  <2> QED BY <1>6, <2>2, TimersPresent
<1> QED BY <1>2, <1>5, <1>6 DEF Next, Lose, Restart

(* A message the mesh accepted leaves it only because it is lost, because a *)
(* node restarts, because its time to live runs out, or because some node   *)
(* forgot a route to its destination: SendData, handleRREP, handleDATA.     *)
THEOREM MessageKeptHolds == Spec => MessageKept
<1>1. Init => FreshInv /\ LinkInv
  BY InitFresh, InitLink
<1>2. FreshInv /\ LinkInv /\ [Next]_vars => (FreshInv /\ LinkInv)'
  BY NextFresh, NextLink DEF FreshInv
<1>3. ASSUME FreshInv, LinkInv, Next, NEW o \in asked', o \in asked => Present(o[1], o[2], o[3]),
             o[2] \notin spoiled', ~Spend("lose"), ~Spend("restart")
      PROVE  \/ Present(o[1], o[2], o[3])'
             \/ \E p \in net : Carries(p, o[1], o[2], o[3]) /\ p.m.ttl <= 1
  <2>1. o \in Node \X Node \X Payload
    BY <1>3, NextType, MeshAssumption DEF FreshInv, TypeOK
  <2>2. PICK s \in Node, d \in Node, x \in Payload : o = <<s, d, x>>
    BY <2>1
  <2>3. o[1] = s /\ o[2] = d /\ o[3] = x
    BY <2>2
  <2>4. d \in Node \ spoiled'
    BY <1>3, <2>3
  <2> QED BY <1>3, <2>2, <2>3, <2>4, NextPresent
<1> DEFINE Keeps ==
      \A o \in asked' :
        (/\ o \in asked => Present(o[1], o[2], o[3])
         /\ o[2] \notin spoiled' /\ ~Spend("lose") /\ ~Spend("restart"))
          => \/ Present(o[1], o[2], o[3])'
             \/ \E p \in net : Carries(p, o[1], o[2], o[3]) /\ p.m.ttl <= 1
<1>4. FreshInv /\ LinkInv /\ [Next]_vars => [Keeps]_vars
  BY <1>3
<1> QED BY <1>1, <1>2, <1>4, PTL DEF Spec, MessageKept
=============================================================================
