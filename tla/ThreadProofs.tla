---------------------------- MODULE ThreadProofs ----------------------------
(***************************************************************************)
(* For any number of users and neighbours, any capacity of the channel and  *)
(* any number of events: the variables of NodeThreads keep their types, and *)
(* a queued message always has a search or a reply under way.               *)
(***************************************************************************)
EXTENDS ThreadProps, TLAPS

(* No number is used before the counter has reached it: a new search is     *)
(* later than everything Target has heard.                                  *)
NumbersGiven ==
  /\ heard <= seqNum
  /\ \A t \in Thread : num[t] <= seqNum
  /\ \A k \in requests : k <= seqNum

(* What the message loop has in hand. *)
LoopHolds ==
  /\ pc[Loop] \in {"queue", "search", "broadcast", "add", "load"} => flush # <<>>
  /\ pc[Loop] \in {"compare", "install"} => got[Loop] \in Entry

ThreadInv == ThreadsTypeOK /\ NumbersGiven /\ LoopHolds /\ QueueIsServed

-----------------------------------------------------------------------------
(* The elements of a queue and of its tail (TakePending, Listen,            *)
(* ReceiveRoute).                                                           *)
LEMMA TailOfQueue ==
  ASSUME NEW S, NEW s \in Seq(S), s # <<>>
  PROVE  /\ Tail(s) \in Seq(S) /\ Head(s) \in S /\ Len(Tail(s)) = Len(s) - 1
         /\ Elements(s) \subseteq {Head(s)} \cup Elements(Tail(s))
<1>1. Tail(s) \in Seq(S) /\ Head(s) \in S /\ Len(Tail(s)) = Len(s) - 1
  OBVIOUS
<1>2. ASSUME NEW i \in DOMAIN s, i # 1
      PROVE  s[i] \in Elements(Tail(s))
  <2>1. i - 1 \in DOMAIN Tail(s) /\ Tail(s)[i - 1] = s[i]
    BY <1>1, <1>2
  <2> QED BY <2>1 DEF Elements
<1> QED BY <1>1, <1>2 DEF Elements

LEMMA AppendToQueue ==
  ASSUME NEW S, NEW s \in Seq(S), NEW x \in S
  PROVE  /\ Append(s, x) \in Seq(S) /\ Len(Append(s, x)) = Len(s) + 1
         /\ Elements(s) \cup {x} \subseteq Elements(Append(s, x))
<1>1. Append(s, x) \in Seq(S) /\ Len(Append(s, x)) = Len(s) + 1
  OBVIOUS
<1>2. ASSUME NEW i \in DOMAIN s PROVE s[i] \in Elements(Append(s, x))
  <2>1. i \in DOMAIN Append(s, x) /\ Append(s, x)[i] = s[i]
    BY <1>1
  <2> QED BY <2>1 DEF Elements
<1>3. x \in Elements(Append(s, x))
  <2>1. Len(s) + 1 \in DOMAIN Append(s, x) /\ Append(s, x)[Len(s) + 1] = x
    BY <1>1
  <2> QED BY <2>1 DEF Elements
<1> QED BY <1>1, <1>2, <1>3 DEF Elements

(* A step that neither queues nor ends a search or a reply. *)
LEMMA StillServed ==
  ASSUME QueueIsServed,
         pending' # <<>> => pending # <<>>,
         heard' = heard, requests \subseteq requests',
         \A t \in Thread : pc[t] \in {"search", "broadcast"} => pc'[t] = pc[t] /\ num'[t] = num[t],
         \A m \in incoming \cup Elements(chan) :
           m.type = "RREP" => m \in incoming' \cup Elements(chan'),
         pc[Loop] \in {"compare", "install", "take"} =>
           pc'[Loop] = pc[Loop] /\ current' = current
  PROVE  QueueIsServed'
<1> SUFFICES ASSUME pending # <<>> PROVE SearchUnderWay' \/ ReplyUnderWay'
  BY DEF QueueIsServed
<1>1. CASE SearchUnderWay
  BY <1>1 DEF SearchUnderWay
<1>2. CASE ReplyUnderWay
  BY <1>2 DEF ReplyUnderWay
<1> QED BY <1>1, <1>2 DEF QueueIsServed

(* SendData, in an HTTP handler or in the loop. *)
LEMMA SendDataKeeps ==
  ASSUME ThreadsAssumption, ThreadInv, NEW t \in User \cup {Loop}, SendData(t)
  PROVE  ThreadInv'
<1> USE DEF Thread, memory, locals, outside, At, Go
<1>1. CASE FindRoute(t)
  <2>1. ThreadsTypeOK'
    BY <1>1 DEF ThreadInv, ThreadsTypeOK, LoopHolds, FindRoute, Labels, Relaying
  <2>2. NumbersGiven'
    BY <1>1 DEF ThreadInv, ThreadsTypeOK, NumbersGiven, FindRoute, Relaying
  <2>3. LoopHolds'
    BY <1>1, ThreadsAssumption DEF ThreadInv, ThreadsTypeOK, LoopHolds, FindRoute, Relaying
  <2>4. QueueIsServed'
    BY <1>1, StillServed DEF ThreadInv, ThreadsTypeOK, FindRoute, Relaying
  <2> QED BY <2>1, <2>2, <2>3, <2>4 DEF ThreadInv
<1>2. CASE DeleteExpired(t)
  <2>1. ThreadsTypeOK'
    BY <1>2 DEF ThreadInv, ThreadsTypeOK, LoopHolds, DeleteExpired, Labels, Relaying
  <2>2. NumbersGiven'
    BY <1>2 DEF ThreadInv, ThreadsTypeOK, NumbersGiven, DeleteExpired, Relaying
  <2>3. LoopHolds'
    BY <1>2, ThreadsAssumption DEF ThreadInv, ThreadsTypeOK, LoopHolds, DeleteExpired, Relaying
  <2>4. QueueIsServed'
    BY <1>2, StillServed DEF ThreadInv, ThreadsTypeOK, DeleteExpired, Relaying
  <2> QED BY <2>1, <2>2, <2>3, <2>4 DEF ThreadInv
<1>3. CASE Queue(t)
  <2>1. ThreadsTypeOK'
    BY <1>3, AppendToQueue DEF ThreadInv, ThreadsTypeOK, LoopHolds, Queue, Labels, Msg
  <2>2. NumbersGiven'
    BY <1>3 DEF ThreadInv, ThreadsTypeOK, NumbersGiven, Queue, Msg
  <2>3. LoopHolds'
    BY <1>3, ThreadsAssumption DEF ThreadInv, ThreadsTypeOK, LoopHolds, Queue, Msg
  <2>4. QueueIsServed'
    <3>1. pc'[t] = "search" /\ t \in Thread
      BY <1>3 DEF Queue, ThreadInv, ThreadsTypeOK
    <3> QED BY <3>1 DEF QueueIsServed, SearchUnderWay
  <2> QED BY <2>1, <2>2, <2>3, <2>4 DEF ThreadInv
<1>4. CASE NumberRREQ(t)
  <2>1. ThreadsTypeOK'
    BY <1>4 DEF ThreadInv, ThreadsTypeOK, LoopHolds, NumberRREQ, Labels
  <2>2. NumbersGiven'
    BY <1>4 DEF ThreadInv, ThreadsTypeOK, NumbersGiven, NumberRREQ
  <2>3. LoopHolds'
    BY <1>4, ThreadsAssumption DEF ThreadInv, ThreadsTypeOK, LoopHolds, NumberRREQ
  <2>4. QueueIsServed'
    <3>1. t \in Thread /\ pc'[t] = "broadcast" /\ num'[t] = seqNum + 1 /\ heard' = heard
      BY <1>4 DEF NumberRREQ, ThreadInv, ThreadsTypeOK
    <3>2. num'[t] > heard'
      BY <3>1 DEF ThreadInv, ThreadsTypeOK, NumbersGiven
    <3> QED BY <3>1, <3>2 DEF QueueIsServed, SearchUnderWay
  <2> QED BY <2>1, <2>2, <2>3, <2>4 DEF ThreadInv
<1>5. CASE BroadcastRREQ(t)
  <2>0. t = Loop => flush # <<>>
    BY <1>5 DEF BroadcastRREQ, ThreadInv, LoopHolds
  <2>a. t = Loop => Tail(flush) \in Seq(User) /\ Head(flush) \in User
    BY <2>0, TailOfQueue DEF ThreadInv, ThreadsTypeOK
  <2>1. ThreadsTypeOK'
    <3>1. flush' \in Seq(User) /\ pc' \in [Thread -> Labels]
      BY <1>5, <2>a DEF BroadcastRREQ, Return, ThreadInv, ThreadsTypeOK, Labels
    <3>2. requests' \subseteq Nat /\ num' \in [Thread -> Nat]
      BY <1>5 DEF BroadcastRREQ, ThreadInv, ThreadsTypeOK
    <3>3. UNCHANGED <<memory, got, current, todo, dead, incoming, heard, theirs, left,
                     sent, crashed>>
      BY <1>5 DEF BroadcastRREQ
    <3> QED BY <3>1, <3>2, <3>3 DEF ThreadInv, ThreadsTypeOK
  <2>2. NumbersGiven'
    BY <1>5 DEF ThreadInv, ThreadsTypeOK, NumbersGiven, BroadcastRREQ, Return
  <2>3. LoopHolds'
    BY <1>5, ThreadsAssumption DEF ThreadInv, ThreadsTypeOK, LoopHolds, BroadcastRREQ, Return
  <2>4. QueueIsServed'
    <3>1. CASE num[t] > heard
      <4>1. num[t] \in requests' /\ heard' = heard
        BY <1>5 DEF BroadcastRREQ
      <4> QED BY <3>1, <4>1 DEF QueueIsServed, SearchUnderWay
    <3>2. CASE ~(num[t] > heard)
      <4>1. /\ t \in Thread /\ pc[t] = "broadcast" /\ heard' = heard /\ requests \subseteq requests'
            /\ UNCHANGED <<pending, incoming, chan, current>>
            /\ \A r \in Thread \ {t} : pc'[r] = pc[r] /\ num'[r] = num[r]
        BY <1>5 DEF BroadcastRREQ, Return, ThreadInv, ThreadsTypeOK
      <4>2. SearchUnderWay => SearchUnderWay'
        BY <3>2, <4>1 DEF SearchUnderWay
      <4>3. ReplyUnderWay => ReplyUnderWay'
        BY <4>1 DEF ReplyUnderWay
      <4> QED BY <4>1, <4>2, <4>3 DEF ThreadInv, QueueIsServed
    <3> QED BY <3>1, <3>2
  <2> QED BY <2>1, <2>2, <2>3, <2>4 DEF ThreadInv
<1>6. CASE CountDATA(t)
  <2>1. ThreadsTypeOK'
    BY <1>6 DEF ThreadInv, ThreadsTypeOK, LoopHolds, CountDATA, Labels
  <2>2. NumbersGiven'
    BY <1>6 DEF ThreadInv, ThreadsTypeOK, NumbersGiven, CountDATA
  <2>3. LoopHolds'
    BY <1>6, ThreadsAssumption DEF ThreadInv, ThreadsTypeOK, LoopHolds, CountDATA
  <2>4. QueueIsServed'
    BY <1>6, StillServed DEF ThreadInv, ThreadsTypeOK, CountDATA
  <2> QED BY <2>1, <2>2, <2>3, <2>4 DEF ThreadInv
<1>7. CASE SendDATA(t)
  <2>0. t = Loop => flush # <<>>
    BY <1>7 DEF SendDATA, ThreadInv, LoopHolds
  <2>a. t = Loop => Tail(flush) \in Seq(User) /\ Head(flush) \in User
    BY <2>0, TailOfQueue DEF ThreadInv, ThreadsTypeOK
  <2>1. ThreadsTypeOK'
    <3>1. flush' \in Seq(User) /\ pc' \in [Thread -> Labels]
      BY <1>7, <2>a DEF SendDATA, Return, ThreadInv, ThreadsTypeOK, Labels
    <3> QED BY <1>7, <2>a, <3>1 DEF ThreadInv, ThreadsTypeOK, SendDATA, Msg
  <2>2. NumbersGiven'
    BY <1>7 DEF ThreadInv, ThreadsTypeOK, NumbersGiven, SendDATA, Return, Msg
  <2>3. LoopHolds'
    BY <1>7, ThreadsAssumption DEF ThreadInv, ThreadsTypeOK, LoopHolds, SendDATA, Return, Msg
  <2>4. QueueIsServed'
    BY <1>7, StillServed DEF ThreadInv, ThreadsTypeOK, SendDATA, Return, Msg
  <2> QED BY <2>1, <2>2, <2>3, <2>4 DEF ThreadInv
<1> QED BY <1>1, <1>2, <1>3, <1>4, <1>5, <1>6, <1>7 DEF SendData

(* The message loop, apart from the sends it repeats. *)
LEMMA LoopKeeps ==
  ASSUME ThreadsAssumption, ThreadInv, LoopStep, ~SendData(Loop)
  PROVE  ThreadInv'
<1> USE DEF Thread, memory, locals, outside, At, Go
<1>a. chan # <<>> =>
        /\ Tail(chan) \in Seq(Datagram) /\ Head(chan) \in Datagram
        /\ Len(Tail(chan)) = Len(chan) - 1
        /\ Elements(chan) \subseteq {Head(chan)} \cup Elements(Tail(chan))
  BY TailOfQueue DEF ThreadInv, ThreadsTypeOK
<1>1. CASE ReceiveRoute
  <2>1. ThreadsTypeOK'
    <3>1. Tail(chan) \in Seq(Datagram) /\ Head(chan) \in Datagram /\ Len(Tail(chan)) <= ChanCap
      BY <1>1, <1>a DEF ReceiveRoute, ThreadInv, ThreadsTypeOK, ThreadsAssumption
    <3>2. [seq |-> Head(chan).seq, next |-> Hop(Head(chan)), live |-> TRUE, pre |-> 0] \in Entry
      BY <3>1 DEF Hop, Datagram, Entry
    <3>3. got' \in [Thread -> Entry \cup {NoRoute}] /\ pc' \in [Thread -> Labels]
      BY <1>1, <3>2 DEF ReceiveRoute, ThreadInv, ThreadsTypeOK, Labels
    <3>4. current' \in {"none", "RREP", "RREQ"}
      BY <1>1 DEF ReceiveRoute
    <3>5. /\ chan' = Tail(chan)
          /\ UNCHANGED <<route, nbrs, made, pending, seqNum, num, flush, todo, dead, outside,
                         sent, crashed>>
      BY <1>1 DEF ReceiveRoute
    <3> QED BY <3>1, <3>3, <3>4, <3>5 DEF ThreadInv, ThreadsTypeOK
  <2>2. NumbersGiven'
    BY <1>1 DEF ThreadInv, ThreadsTypeOK, NumbersGiven, ReceiveRoute, Hop, Datagram, Entry
  <2>3. LoopHolds'
    BY <1>1, <1>a, ThreadsAssumption DEF ThreadInv, ThreadsTypeOK, LoopHolds,
       ReceiveRoute, Hop, Datagram, Entry
  <2>4. QueueIsServed'
    <3>1. CASE Head(chan).type = "RREP"
      <4>1. pc'[Loop] = "compare" /\ current' = "RREP"
        BY <1>1, <3>1 DEF ReceiveRoute, ThreadInv, ThreadsTypeOK
      <4> QED BY <4>1 DEF QueueIsServed, ReplyUnderWay
    <3>2. CASE Head(chan).type # "RREP"
      <4>1. \A m \in Elements(chan) : m.type = "RREP" => m \in Elements(chan')
        BY <1>1, <1>a, <3>2 DEF ReceiveRoute
      <4> QED BY <1>1, <4>1, StillServed, ThreadsAssumption
              DEF ThreadInv, ThreadsTypeOK, ReceiveRoute
    <3> QED BY <3>1, <3>2
  <2> QED BY <2>1, <2>2, <2>3, <2>4 DEF ThreadInv
<1>2. CASE CompareRoute
  <2>1. ThreadsTypeOK'
    <3>1. got[Loop] \in Entry
      BY <1>2 DEF CompareRoute, ThreadInv, LoopHolds
    <3>2. got' \in [Thread -> Entry \cup {NoRoute}] /\ current' \in {"none", "RREP", "RREQ"}
      <4>1. CASE got' = [got EXCEPT ![Loop].pre = route.pre] /\ route # NoRoute /\ UNCHANGED current
        <5>1. route.pre \in Nat
          BY <4>1 DEF ThreadInv, ThreadsTypeOK, Entry
        <5>2. [got[Loop] EXCEPT !.pre = route.pre] \in Entry
          BY <3>1, <5>1 DEF Entry
        <5> QED BY <4>1, <5>2 DEF ThreadInv, ThreadsTypeOK
      <4>2. CASE (got' = got /\ current' = current) \/ AfterUpdate
        BY <4>2 DEF AfterUpdate, ThreadInv, ThreadsTypeOK
      <4> QED BY <1>2, <4>1, <4>2 DEF CompareRoute
    <3>3. pc' \in [Thread -> Labels]
      BY <1>2 DEF CompareRoute, AfterUpdate, ThreadInv, ThreadsTypeOK, Labels
    <3> QED BY <1>2, <3>2, <3>3 DEF ThreadInv, ThreadsTypeOK, CompareRoute
  <2>2. NumbersGiven'
    BY <1>2 DEF ThreadInv, ThreadsTypeOK, NumbersGiven, CompareRoute, AfterUpdate, Entry
  <2>3. LoopHolds'
    <3>1. got[Loop] \in Entry /\ Loop \in Thread
      BY <1>2 DEF CompareRoute, ThreadInv, LoopHolds
    <3>2. CASE got' = [got EXCEPT ![Loop].pre = route.pre] /\ route # NoRoute /\ Go(Loop, "install")
      <4>1. route.pre \in Nat
        BY <3>2 DEF ThreadInv, ThreadsTypeOK, Entry
      <4>2. [got[Loop] EXCEPT !.pre = route.pre] \in Entry
        BY <3>1, <4>1 DEF Entry
      <4>3. got'[Loop] \in Entry /\ pc'[Loop] = "install"
        BY <3>1, <3>2, <4>2 DEF ThreadInv, ThreadsTypeOK
      <4> QED BY <4>3 DEF LoopHolds
    <3>3. CASE got' = got /\ Go(Loop, "install")
      BY <3>1, <3>3 DEF LoopHolds, ThreadInv, ThreadsTypeOK
    <3>4. CASE AfterUpdate
      BY <3>1, <3>4 DEF LoopHolds, AfterUpdate, ThreadInv, ThreadsTypeOK
    <3> QED BY <1>2, <3>2, <3>3, <3>4 DEF CompareRoute
  <2>4. QueueIsServed'
    <3>1. /\ pc'[Loop] = "take" \/ current # "RREP" \/ (pc'[Loop] = "install" /\ current' = current)
          /\ pc[Loop] \in {"compare", "install"}
          /\ \A t \in Thread \ {Loop} : pc'[t] = pc[t]
          /\ UNCHANGED <<pending, heard, requests, num, incoming, chan>>
      BY <1>2 DEF CompareRoute, AfterUpdate, ThreadInv, ThreadsTypeOK
    <3>2. SearchUnderWay => SearchUnderWay'
      BY <3>1 DEF SearchUnderWay
    <3>3. ReplyUnderWay => ReplyUnderWay'
      BY <3>1 DEF ReplyUnderWay
    <3> QED BY <3>1, <3>2, <3>3 DEF ThreadInv, QueueIsServed
  <2> QED BY <2>1, <2>2, <2>3, <2>4 DEF ThreadInv
<1>3. CASE InstallRoute
  <2>1. ThreadsTypeOK'
    BY <1>3 DEF ThreadInv, ThreadsTypeOK, LoopHolds, InstallRoute, Labels, AfterUpdate
  <2>2. NumbersGiven'
    BY <1>3 DEF ThreadInv, ThreadsTypeOK, NumbersGiven, InstallRoute, AfterUpdate
  <2>3. LoopHolds'
    BY <1>3, ThreadsAssumption DEF ThreadInv, ThreadsTypeOK, LoopHolds, InstallRoute, AfterUpdate
  <2>4. QueueIsServed'
    <3>1. /\ pc'[Loop] = "take" \/ current # "RREP" \/ (pc'[Loop] = "install" /\ current' = current)
          /\ pc[Loop] \in {"compare", "install"}
          /\ \A t \in Thread \ {Loop} : pc'[t] = pc[t]
          /\ UNCHANGED <<pending, heard, requests, num, incoming, chan>>
      BY <1>3 DEF InstallRoute, AfterUpdate, ThreadInv, ThreadsTypeOK
    <3>2. SearchUnderWay => SearchUnderWay'
      BY <3>1 DEF SearchUnderWay
    <3>3. ReplyUnderWay => ReplyUnderWay'
      BY <3>1 DEF ReplyUnderWay
    <3> QED BY <3>1, <3>2, <3>3 DEF ThreadInv, QueueIsServed
  <2> QED BY <2>1, <2>2, <2>3, <2>4 DEF ThreadInv
<1>4. CASE TakePending
  <2>1. ThreadsTypeOK'
    BY <1>4 DEF ThreadInv, ThreadsTypeOK, LoopHolds, TakePending, Labels
  <2>2. NumbersGiven'
    BY <1>4 DEF ThreadInv, ThreadsTypeOK, NumbersGiven, TakePending
  <2>3. LoopHolds'
    BY <1>4, ThreadsAssumption DEF ThreadInv, ThreadsTypeOK, LoopHolds, TakePending
  <2>4. QueueIsServed'
    BY <1>4 DEF TakePending, QueueIsServed
  <2> QED BY <2>1, <2>2, <2>3, <2>4 DEF ThreadInv
<1>5. CASE SendRREP
  <2>1. ThreadsTypeOK'
    BY <1>5 DEF ThreadInv, ThreadsTypeOK, LoopHolds, SendRREP, Labels
  <2>2. NumbersGiven'
    BY <1>5 DEF ThreadInv, ThreadsTypeOK, NumbersGiven, SendRREP
  <2>3. LoopHolds'
    BY <1>5, ThreadsAssumption DEF ThreadInv, ThreadsTypeOK, LoopHolds, SendRREP
  <2>4. QueueIsServed'
    BY <1>5, StillServed, ThreadsAssumption
       DEF ThreadInv, ThreadsTypeOK, SendRREP
  <2> QED BY <2>1, <2>2, <2>3, <2>4 DEF ThreadInv
<1>6. CASE ReceiveHELLO
  <2>1. ThreadsTypeOK'
    <3>1. Tail(chan) \in Seq(Datagram) /\ Head(chan) \in Datagram /\ Len(Tail(chan)) <= ChanCap
      BY <1>6, <1>a DEF ReceiveHELLO, ThreadInv, ThreadsTypeOK, ThreadsAssumption
    <3>2. nbrs' \in [Neighbour -> {"absent", "heard", "silent"}]
      BY <1>6 DEF ReceiveHELLO, ThreadInv, ThreadsTypeOK
    <3>3. /\ chan' = Tail(chan)
          /\ UNCHANGED <<route, made, pending, seqNum, locals, outside, sent, crashed>>
      BY <1>6 DEF ReceiveHELLO
    <3> QED BY <3>1, <3>2, <3>3 DEF ThreadInv, ThreadsTypeOK
  <2>2. NumbersGiven'
    BY <1>6 DEF ThreadInv, ThreadsTypeOK, NumbersGiven, ReceiveHELLO, Datagram
  <2>3. LoopHolds'
    BY <1>6, <1>a, ThreadsAssumption DEF ThreadInv, ThreadsTypeOK, LoopHolds, ReceiveHELLO, Datagram
  <2>4. QueueIsServed'
    BY <1>6, <1>a, StillServed, ThreadsAssumption
       DEF ThreadInv, ThreadsTypeOK, ReceiveHELLO, Datagram
  <2> QED BY <2>1, <2>2, <2>3, <2>4 DEF ThreadInv
<1>7. CASE ReceiveRERR
  <2>1. ThreadsTypeOK'
    BY <1>7, <1>a DEF ThreadInv, ThreadsTypeOK, LoopHolds, ReceiveRERR, Labels, Datagram
  <2>2. NumbersGiven'
    BY <1>7 DEF ThreadInv, ThreadsTypeOK, NumbersGiven, ReceiveRERR, Datagram
  <2>3. LoopHolds'
    BY <1>7, <1>a, ThreadsAssumption DEF ThreadInv, ThreadsTypeOK, LoopHolds, ReceiveRERR, Datagram
  <2>4. QueueIsServed'
    BY <1>7, <1>a, StillServed, ThreadsAssumption
       DEF ThreadInv, ThreadsTypeOK, ReceiveRERR, Datagram
  <2> QED BY <2>1, <2>2, <2>3, <2>4 DEF ThreadInv
<1>8. CASE BreakRoute
  <2>1. ThreadsTypeOK'
    BY <1>8 DEF ThreadInv, ThreadsTypeOK, LoopHolds, BreakRoute, Labels
  <2>2. NumbersGiven'
    BY <1>8 DEF ThreadInv, ThreadsTypeOK, NumbersGiven, BreakRoute
  <2>3. LoopHolds'
    BY <1>8, ThreadsAssumption DEF ThreadInv, ThreadsTypeOK, LoopHolds, BreakRoute
  <2>4. QueueIsServed'
    BY <1>8, StillServed, ThreadsAssumption
       DEF ThreadInv, ThreadsTypeOK, BreakRoute
  <2> QED BY <2>1, <2>2, <2>3, <2>4 DEF ThreadInv
<1>9. CASE ReceiveDATA
  <2>1. ThreadsTypeOK'
    BY <1>9, <1>a DEF ThreadInv, ThreadsTypeOK, LoopHolds, ReceiveDATA, Labels, Datagram
  <2>2. NumbersGiven'
    BY <1>9 DEF ThreadInv, ThreadsTypeOK, NumbersGiven, ReceiveDATA, Datagram
  <2>3. LoopHolds'
    BY <1>9, <1>a, ThreadsAssumption DEF ThreadInv, ThreadsTypeOK, LoopHolds, ReceiveDATA, Datagram
  <2>4. QueueIsServed'
    BY <1>9, <1>a, StillServed, ThreadsAssumption
       DEF ThreadInv, ThreadsTypeOK, ReceiveDATA, Datagram
  <2> QED BY <2>1, <2>2, <2>3, <2>4 DEF ThreadInv
<1>10. CASE AddPrecursor
  <2>1. ThreadsTypeOK'
    <3>1. route' \in Entry \cup {NoRoute} /\ made' \in Nat
      <4>1. CASE route # NoRoute /\ route.pre = 0
        <5>1. route \in Entry /\ made \in Nat
          BY <4>1 DEF ThreadInv, ThreadsTypeOK
        <5> QED BY <1>10, <4>1, <5>1 DEF AddPrecursor, Entry
      <4>2. CASE ~(route # NoRoute /\ route.pre = 0)
        BY <1>10, <4>2 DEF AddPrecursor, ThreadInv, ThreadsTypeOK
      <4> QED BY <4>1, <4>2
    <3>2. pc' \in [Thread -> Labels]
      BY <1>10 DEF AddPrecursor, ThreadInv, ThreadsTypeOK, Labels
    <3> QED BY <1>10, <3>1, <3>2 DEF ThreadInv, ThreadsTypeOK, AddPrecursor
  <2>2. NumbersGiven'
    BY <1>10 DEF ThreadInv, ThreadsTypeOK, NumbersGiven, AddPrecursor, Entry
  <2>3. LoopHolds'
    BY <1>10, ThreadsAssumption DEF ThreadInv, ThreadsTypeOK, LoopHolds, AddPrecursor, Entry
  <2>4. QueueIsServed'
    BY <1>10, StillServed, ThreadsAssumption
       DEF ThreadInv, ThreadsTypeOK, AddPrecursor, Entry
  <2> QED BY <2>1, <2>2, <2>3, <2>4 DEF ThreadInv
<1> QED BY <1>1, <1>2, <1>3, <1>4, <1>5, <1>6, <1>7, <1>8, <1>9, <1>10 DEF LoopStep

(* The neighbour collector. *)
LEMMA CollectorKeeps ==
  ASSUME ThreadsAssumption, ThreadInv, CollectorStep
  PROVE  ThreadInv'
<1> USE DEF Thread, memory, locals, outside, At, Go
<1>1. CASE Tick
  <2>1. ThreadsTypeOK'
    BY <1>1 DEF ThreadInv, ThreadsTypeOK, LoopHolds, Tick, Labels
  <2>2. NumbersGiven'
    BY <1>1 DEF ThreadInv, ThreadsTypeOK, NumbersGiven, Tick
  <2>3. LoopHolds'
    BY <1>1, ThreadsAssumption DEF ThreadInv, ThreadsTypeOK, LoopHolds, Tick
  <2>4. QueueIsServed'
    BY <1>1, StillServed, ThreadsAssumption
       DEF ThreadInv, ThreadsTypeOK, Tick
  <2> QED BY <2>1, <2>2, <2>3, <2>4 DEF ThreadInv
<1>2. CASE \E q \in Neighbour : ForgetNeighbour(q)
  <2>1. ThreadsTypeOK'
    BY <1>2 DEF ThreadInv, ThreadsTypeOK, LoopHolds, ForgetNeighbour, Labels
  <2>2. NumbersGiven'
    BY <1>2 DEF ThreadInv, ThreadsTypeOK, NumbersGiven, ForgetNeighbour
  <2>3. LoopHolds'
    BY <1>2, ThreadsAssumption DEF ThreadInv, ThreadsTypeOK, LoopHolds, ForgetNeighbour
  <2>4. QueueIsServed'
    BY <1>2, StillServed, ThreadsAssumption
       DEF ThreadInv, ThreadsTypeOK, ForgetNeighbour
  <2> QED BY <2>1, <2>2, <2>3, <2>4 DEF ThreadInv
<1>3. CASE SnapshotRoutes
  <2>1. ThreadsTypeOK'
    BY <1>3 DEF ThreadInv, ThreadsTypeOK, LoopHolds, SnapshotRoutes, Labels
  <2>2. NumbersGiven'
    BY <1>3 DEF ThreadInv, ThreadsTypeOK, NumbersGiven, SnapshotRoutes
  <2>3. LoopHolds'
    BY <1>3, ThreadsAssumption DEF ThreadInv, ThreadsTypeOK, LoopHolds, SnapshotRoutes
  <2>4. QueueIsServed'
    BY <1>3, StillServed, ThreadsAssumption
       DEF ThreadInv, ThreadsTypeOK, SnapshotRoutes
  <2> QED BY <2>1, <2>2, <2>3, <2>4 DEF ThreadInv
<1>4. CASE NotifyPrecursors
  <2>1. ThreadsTypeOK'
    BY <1>4 DEF ThreadInv, ThreadsTypeOK, LoopHolds, NotifyPrecursors, Labels
  <2>2. NumbersGiven'
    BY <1>4 DEF ThreadInv, ThreadsTypeOK, NumbersGiven, NotifyPrecursors
  <2>3. LoopHolds'
    BY <1>4, ThreadsAssumption DEF ThreadInv, ThreadsTypeOK, LoopHolds, NotifyPrecursors
  <2>4. QueueIsServed'
    BY <1>4, StillServed, ThreadsAssumption
       DEF ThreadInv, ThreadsTypeOK, NotifyPrecursors
  <2> QED BY <2>1, <2>2, <2>3, <2>4 DEF ThreadInv
<1>5. CASE DropRoute
  <2>1. ThreadsTypeOK'
    BY <1>5 DEF ThreadInv, ThreadsTypeOK, LoopHolds, DropRoute, Labels
  <2>2. NumbersGiven'
    BY <1>5 DEF ThreadInv, ThreadsTypeOK, NumbersGiven, DropRoute
  <2>3. LoopHolds'
    BY <1>5, ThreadsAssumption DEF ThreadInv, ThreadsTypeOK, LoopHolds, DropRoute
  <2>4. QueueIsServed'
    BY <1>5, StillServed, ThreadsAssumption
       DEF ThreadInv, ThreadsTypeOK, DropRoute
  <2> QED BY <2>1, <2>2, <2>3, <2>4 DEF ThreadInv
<1> QED BY <1>1, <1>2, <1>3, <1>4, <1>5 DEF CollectorStep

(* What happens around the loops. *)
LEMMA EnvironmentKeeps ==
  ASSUME ThreadsAssumption, ThreadInv,
         \/ \E u \in User : AcceptMessage(u)
         \/ \E m \in incoming : Listen(m)
         \/ \E k \in requests : Answer(k)
         \/ \E e \in {"HELLO", "RREQ", "RERR", "DATA"}, q \in Neighbour : Arrive(e, q)
         \/ RouteExpires \/ (\E q \in Neighbour : NeighbourSilent(q)) \/ MapFault
  PROVE  ThreadInv'
<1> USE DEF Thread, memory, locals, outside, At, Go
<1>1. CASE \E u \in User : AcceptMessage(u)
  <2>1. ThreadsTypeOK'
    BY <1>1 DEF ThreadInv, ThreadsTypeOK, LoopHolds, AcceptMessage, Labels, Spend
  <2>2. NumbersGiven'
    BY <1>1 DEF ThreadInv, ThreadsTypeOK, NumbersGiven, AcceptMessage, Spend
  <2>3. LoopHolds'
    BY <1>1, ThreadsAssumption DEF ThreadInv, ThreadsTypeOK, LoopHolds, AcceptMessage, Spend
  <2>4. QueueIsServed'
    BY <1>1, StillServed, ThreadsAssumption
       DEF ThreadInv, ThreadsTypeOK, AcceptMessage, Spend
  <2> QED BY <2>1, <2>2, <2>3, <2>4 DEF ThreadInv
<1>2. CASE \E m \in incoming : Listen(m)
  <2>1. ThreadsTypeOK'
    BY <1>2, AppendToQueue DEF ThreadInv, ThreadsTypeOK, LoopHolds, Listen, Labels
  <2>2. NumbersGiven'
    BY <1>2 DEF ThreadInv, ThreadsTypeOK, NumbersGiven, Listen
  <2>3. LoopHolds'
    BY <1>2, AppendToQueue, ThreadsAssumption DEF ThreadInv, ThreadsTypeOK, LoopHolds, Listen
  <2>4. QueueIsServed'
    BY <1>2, AppendToQueue, StillServed, ThreadsAssumption
       DEF ThreadInv, ThreadsTypeOK, Listen
  <2> QED BY <2>1, <2>2, <2>3, <2>4 DEF ThreadInv
<1>3. CASE \E k \in requests : Answer(k)
  <2>1. ThreadsTypeOK'
    <3>1. requests' \subseteq Nat /\ heard' \in Nat /\ theirs' \in Nat
      BY <1>3 DEF ThreadInv, ThreadsTypeOK, Answer
    <3>2. incoming' \subseteq Datagram
      <4>1. \A q \in Neighbour : Reply(theirs + 1, q) \in Datagram
        BY DEF ThreadInv, ThreadsTypeOK, Reply, Datagram
      <4> QED BY <1>3, <4>1 DEF ThreadInv, ThreadsTypeOK, Answer
    <3>3. UNCHANGED <<memory, locals, left, sent, crashed>>
      BY <1>3 DEF Answer
    <3> QED BY <3>1, <3>2, <3>3 DEF ThreadInv, ThreadsTypeOK
  <2>2. NumbersGiven'
    BY <1>3 DEF ThreadInv, ThreadsTypeOK, NumbersGiven, Answer
  <2>3. LoopHolds'
    BY <1>3, ThreadsAssumption DEF ThreadInv, ThreadsTypeOK, LoopHolds, Answer
  <2>4. QueueIsServed'
    <3> PICK k \in requests : Answer(k)
      BY <1>3
    <3>1. CASE k > heard
      <4>1. PICK q \in Neighbour : incoming' = incoming \cup {Reply(theirs + 1, q)}
        BY <3>1 DEF Answer, ThreadInv, ThreadsTypeOK
      <4>2. Reply(theirs + 1, q).type = "RREP"
        BY DEF Reply
      <4> QED BY <4>1, <4>2 DEF QueueIsServed, ReplyUnderWay
    <3>2. CASE k <= heard
      <4>1. /\ UNCHANGED <<pending, heard, incoming, chan, pc, num, current>>
            /\ requests' = requests \ {k}
        BY <3>2 DEF Answer, ThreadInv, ThreadsTypeOK
      <4>2. SearchUnderWay => SearchUnderWay'
        BY <3>2, <4>1 DEF SearchUnderWay, ThreadInv, ThreadsTypeOK
      <4>3. ReplyUnderWay => ReplyUnderWay'
        BY <4>1 DEF ReplyUnderWay
      <4> QED BY <4>1, <4>2, <4>3 DEF ThreadInv, QueueIsServed
    <3> QED BY <3>1, <3>2 DEF ThreadInv, ThreadsTypeOK
  <2> QED BY <2>1, <2>2, <2>3, <2>4 DEF ThreadInv
<1>4. CASE \E e \in {"HELLO", "RREQ", "RERR", "DATA"}, q \in Neighbour : Arrive(e, q)
  <2>1. ThreadsTypeOK'
    <3> PICK e \in {"HELLO", "RREQ", "RERR", "DATA"}, q \in Neighbour : Arrive(e, q)
      BY <1>4
    <3>1. Search(theirs + 1, q) \in Datagram /\ Other(e, q) \in Datagram
      BY DEF ThreadInv, ThreadsTypeOK, Search, Other, Datagram
    <3>2. incoming' \subseteq Datagram /\ theirs' \in Nat /\ left' \in Nat
      BY <3>1 DEF Arrive, Spend, ThreadInv, ThreadsTypeOK
    <3>3. UNCHANGED <<memory, locals, requests, heard, sent, crashed>>
      BY DEF Arrive
    <3> QED BY <3>2, <3>3 DEF ThreadInv, ThreadsTypeOK
  <2>2. NumbersGiven'
    BY <1>4 DEF ThreadInv, ThreadsTypeOK, NumbersGiven, Arrive, Spend
  <2>3. LoopHolds'
    BY <1>4, ThreadsAssumption DEF ThreadInv, ThreadsTypeOK, LoopHolds, Arrive, Spend
  <2>4. QueueIsServed'
    BY <1>4, StillServed, ThreadsAssumption
       DEF ThreadInv, ThreadsTypeOK, Arrive, Spend
  <2> QED BY <2>1, <2>2, <2>3, <2>4 DEF ThreadInv
<1>5. CASE RouteExpires
  <2>1. ThreadsTypeOK'
    <3>1. route' \in Entry \cup {NoRoute}
      <4>1. route \in Entry
        BY <1>5 DEF RouteExpires, ThreadInv, ThreadsTypeOK
      <4> QED BY <1>5, <4>1 DEF RouteExpires, Entry
    <3>2. left' \in Nat
      BY <1>5 DEF RouteExpires, Spend, ThreadInv, ThreadsTypeOK
    <3>3. UNCHANGED <<nbrs, made, pending, seqNum, chan, locals, incoming, requests, heard,
                     theirs, sent, crashed>>
      BY <1>5 DEF RouteExpires
    <3> QED BY <3>1, <3>2, <3>3 DEF ThreadInv, ThreadsTypeOK
  <2>2. NumbersGiven'
    BY <1>5 DEF ThreadInv, ThreadsTypeOK, NumbersGiven, RouteExpires, Spend
  <2>3. LoopHolds'
    BY <1>5, ThreadsAssumption DEF ThreadInv, ThreadsTypeOK, LoopHolds, RouteExpires
  <2>4. QueueIsServed'
    BY <1>5, StillServed, ThreadsAssumption
       DEF ThreadInv, ThreadsTypeOK, RouteExpires
  <2> QED BY <2>1, <2>2, <2>3, <2>4 DEF ThreadInv
<1>6. CASE \E q \in Neighbour : NeighbourSilent(q)
  <2>1. ThreadsTypeOK'
    BY <1>6 DEF ThreadInv, ThreadsTypeOK, LoopHolds, NeighbourSilent, Labels, Spend
  <2>2. NumbersGiven'
    BY <1>6 DEF ThreadInv, ThreadsTypeOK, NumbersGiven, NeighbourSilent, Spend
  <2>3. LoopHolds'
    BY <1>6, ThreadsAssumption DEF ThreadInv, ThreadsTypeOK, LoopHolds, NeighbourSilent, Spend
  <2>4. QueueIsServed'
    BY <1>6, StillServed, ThreadsAssumption
       DEF ThreadInv, ThreadsTypeOK, NeighbourSilent, Spend
  <2> QED BY <2>1, <2>2, <2>3, <2>4 DEF ThreadInv
<1>7. CASE MapFault
  <2>1. ThreadsTypeOK'
    BY <1>7 DEF ThreadInv, ThreadsTypeOK, LoopHolds, MapFault, Labels
  <2>2. NumbersGiven'
    BY <1>7 DEF ThreadInv, ThreadsTypeOK, NumbersGiven, MapFault
  <2>3. LoopHolds'
    BY <1>7, ThreadsAssumption DEF ThreadInv, ThreadsTypeOK, LoopHolds, MapFault
  <2>4. QueueIsServed'
    BY <1>7, StillServed, ThreadsAssumption
       DEF ThreadInv, ThreadsTypeOK, MapFault
  <2> QED BY <2>1, <2>2, <2>3, <2>4 DEF ThreadInv
<1> QED BY <1>1, <1>2, <1>3, <1>4, <1>5, <1>6, <1>7

-----------------------------------------------------------------------------
LEMMA ThreadInit == ASSUME ThreadsAssumption, Init PROVE ThreadInv
<1>1. ThreadsTypeOK
  <2>1. <<>> \in Seq(User) /\ <<>> \in Seq(Datagram) /\ Len(<<>>) <= ChanCap
    BY DEF ThreadsAssumption
  <2>2. /\ pc \in [Thread -> Labels] /\ num \in [Thread -> Nat]
        /\ got \in [Thread -> Entry \cup {NoRoute}]
    BY DEF Init, Labels
  <2>3. nbrs \in [Neighbour -> {"absent", "heard", "silent"}] /\ left \in Nat
    BY DEF Init, ThreadsAssumption
  <2> QED BY <2>1, <2>2, <2>3 DEF Init, ThreadsTypeOK
<1>2. NumbersGiven /\ LoopHolds /\ QueueIsServed
  BY DEF Init, NumbersGiven, LoopHolds, QueueIsServed, Thread
<1> QED BY <1>1, <1>2 DEF ThreadInv

LEMMA ThreadStep == ASSUME ThreadsAssumption, ThreadInv, [Next]_vars PROVE ThreadInv'
<1>1. CASE \E u \in User : SendData(u)
  BY <1>1, SendDataKeeps
<1>2. CASE LoopStep
  <2>1. CASE SendData(Loop)
    BY <2>1, SendDataKeeps
  <2> QED BY <1>2, <2>1, LoopKeeps
<1>3. CASE CollectorStep
  BY <1>3, CollectorKeeps
<1>4. CASE UNCHANGED vars
  BY <1>4 DEF vars, memory, locals, outside, ThreadInv, ThreadsTypeOK, NumbersGiven, LoopHolds,
              QueueIsServed, SearchUnderWay, ReplyUnderWay
<1> QED BY <1>1, <1>2, <1>3, <1>4, EnvironmentKeeps DEF Next

(* The invariant of the goroutines together. *)
THEOREM ThreadInvHolds == Spec => []ThreadInv
BY ThreadInit, ThreadStep, ThreadsAssumption, PTL DEF Spec

(* Channel, queue, counters and locals of the goroutines of conn.go keep    *)
(* their types, and incomingMsgs its capacity.                              *)
THEOREM ThreadsTypeInvariant == Spec => []ThreadsTypeOK
BY ThreadInvHolds, PTL DEF ThreadInv

(* In every interleaving of SendData, handleRREP and the deletions of       *)
(* routes, a message in pendingMsgs has a search or a reply under way.      *)
THEOREM QueueIsServedHolds == Spec => []QueueIsServed
BY ThreadInvHolds, PTL DEF ThreadInv

-----------------------------------------------------------------------------
(* The goroutines implement the safety part of Outbox: from /send to the    *)
(* datagram a message is in exactly one place.                              *)

SentMessages == {r.msg : r \in sent}
Distinct(s) == \A i, j \in DOMAIN s : s[i] = s[j] => i = j

Sending == {"get", "delete", "queue", "search", "broadcast", "add", "load"}
Queued == {"search", "broadcast"}

(* Where a message can be.  The first message of flush is in the queue      *)
(* again while the loop is searching its route.                             *)
Placed ==
  /\ Distinct(pending) /\ Distinct(flush)
  /\ \A u \in User :
       /\ u \in SentMessages => u \notin Waiting
       /\ Carrying(u) => u \notin Elements(pending) \cup Elements(flush)
       /\ pc[u] = "idle" => u \notin Waiting \cup SentMessages
  /\ \A u \in Elements(pending) \cap Elements(flush) : pc[Loop] \in Queued /\ u = Head(flush)
  /\ pc[Loop] \in Queued => Head(flush) \in Elements(pending)
  /\ flush # <<>> => pc[Loop] \in Sending

-----------------------------------------------------------------------------
(* Distinct queues, their tails, and appending to them.                     *)
LEMMA DistinctTail ==
  ASSUME NEW S, NEW s \in Seq(S), s # <<>>, Distinct(s)
  PROVE  /\ Tail(s) \in Seq(S) /\ Head(s) \in S /\ Head(s) \in Elements(s)
         /\ Distinct(Tail(s)) /\ Elements(Tail(s)) = Elements(s) \ {Head(s)}
         /\ Tail(s) # <<>> => Len(s) > 1
<1>1. /\ Tail(s) \in Seq(S) /\ Head(s) \in S /\ Len(Tail(s)) = Len(s) - 1
      /\ Len(s) \in Nat \ {0} /\ Head(s) = s[1]
      /\ \A i \in 1 .. Len(s) - 1 : Tail(s)[i] = s[i + 1]
  OBVIOUS
<1>2. DOMAIN s = 1 .. Len(s) /\ DOMAIN Tail(s) = 1 .. Len(s) - 1
  BY <1>1
<1>3. Distinct(Tail(s))
  BY <1>1, <1>2 DEF Distinct
<1>4. ASSUME NEW i \in DOMAIN Tail(s)
      PROVE  Tail(s)[i] \in Elements(s) \ {Head(s)}
  BY <1>1, <1>2 DEF Distinct, Elements
<1>5. ASSUME NEW i \in DOMAIN s, s[i] # Head(s)
      PROVE  s[i] \in Elements(Tail(s))
  <2>1. i - 1 \in DOMAIN Tail(s) /\ Tail(s)[i - 1] = s[i]
    BY <1>1, <1>2, <1>5
  <2> QED BY <2>1 DEF Elements
<1> QED BY <1>1, <1>2, <1>3, <1>4, <1>5 DEF Elements

LEMMA DistinctAppend ==
  ASSUME NEW S, NEW s \in Seq(S), NEW x \in S \ Elements(s), Distinct(s)
  PROVE  Distinct(Append(s, x)) /\ Elements(Append(s, x)) = Elements(s) \cup {x}
<1> DEFINE a == Append(s, x)
<1>1. /\ DOMAIN a = 1 .. Len(s) + 1 /\ DOMAIN s = 1 .. Len(s) /\ Len(s) \in Nat
      /\ a[Len(s) + 1] = x /\ \A i \in DOMAIN s : a[i] = s[i]
  OBVIOUS
<1> HIDE DEF a
<1>2. Distinct(a)
  BY <1>1 DEF Distinct, Elements
<1>3. Elements(a) = Elements(s) \cup {x}
  BY <1>1 DEF Elements
<1> QED BY <1>2, <1>3 DEF a

-----------------------------------------------------------------------------
(* A step that moves no message keeps Placed and is a stutter of Outbox. *)
LEMMA Unmoved ==
  ASSUME Placed, UNCHANGED <<pending, flush, sent, crashed>>,
         \A u \in User : /\ Carrying(u)' <=> Carrying(u)
                         /\ pc'[u] = "idle" => pc[u] = "idle",
         pc'[Loop] \in Queued <=> pc[Loop] \in Queued,
         flush # <<>> => pc'[Loop] \in Sending
  PROVE  Placed' /\ UNCHANGED Promise!vars
<1>1. Elements(pending)' = Elements(pending) /\ Elements(flush)' = Elements(flush)
  BY DEF Elements
<1>2. UNCHANGED <<Waiting, SentMessages>>
  BY <1>1 DEF Waiting, SentMessages
<1>3. UNCHANGED Promise!vars
  BY <1>2 DEF Promise!vars, SentMessages
<1>4. Distinct(pending)' /\ Distinct(flush)'
  BY DEF Placed, Distinct
<1> QED BY <1>1, <1>2, <1>3, <1>4 DEF Placed

(* SendData: a message is taken from its goroutine into the queue, taken    *)
(* off flush, or sent.                                                      *)
LEMMA SendDataMoves ==
  ASSUME ThreadsAssumption, ThreadInv, Placed, NEW t \in User \cup {Loop}, SendData(t)
  PROVE  Placed' /\ [Promise!Next]_(Promise!vars)
<1> USE DEF Thread, memory, locals, outside, At, Go
<1> DEFINE Handed == FindRoute(t) \/ DeleteExpired(t) \/ NumberRREQ(t) \/ CountDATA(t)
<1>a. /\ Loop \notin User /\ t \in Thread /\ pc \in [Thread -> Labels]
      /\ pending \in Seq(User) /\ flush \in Seq(User) /\ ~crashed
      /\ pc[Loop] \in {"queue", "search", "broadcast", "add", "load"} => flush # <<>>
  BY DEF ThreadsAssumption, ThreadInv, ThreadsTypeOK, LoopHolds, SendData, FindRoute,
         DeleteExpired, Queue, NumberRREQ, BroadcastRREQ, CountDATA, SendDATA
<1>1. CASE Handed
  <2>1. UNCHANGED <<pending, flush, sent, crashed>>
    BY <1>1 DEF FindRoute, DeleteExpired, NumberRREQ, CountDATA
  <2>2. \/ /\ pc[t] \in {"get", "delete", "add"}
           /\ pc'[t] \in {"delete", "queue", "add", "load"} \/ (Relaying(t) /\ pc'[t] = "idle")
        \/ pc[t] = "search" /\ pc'[t] = "broadcast"
    BY <1>1, <1>a DEF FindRoute, DeleteExpired, NumberRREQ, CountDATA
  <2>3. \A r \in Thread \ {t} : pc'[r] = pc[r]
    BY <1>1, <1>a DEF FindRoute, DeleteExpired, NumberRREQ, CountDATA
  <2>4. \A u \in User : /\ Carrying(u)' <=> Carrying(u)
                        /\ pc'[u] = "idle" => pc[u] = "idle"
    BY <1>a, <2>2, <2>3 DEF Carrying, Relaying
  <2>5. /\ pc'[Loop] \in Queued <=> pc[Loop] \in Queued
        /\ flush # <<>> => pc'[Loop] \in Sending
    BY <1>a, <2>2, <2>3 DEF Queued, Sending, Relaying, Placed
  <2> QED BY <2>1, <2>4, <2>5, Unmoved
<1>2. CASE Queue(t)
  <2>1. Msg(t) \in User /\ Msg(t) \notin Elements(pending)
    <3>1. CASE t = Loop
      <4>1. pc[Loop] = "queue" /\ flush # <<>>
        BY <1>2, <1>a, <3>1 DEF Queue
      <4>2. Head(flush) \in User /\ Head(flush) \in Elements(flush)
        BY <1>a, <4>1, DistinctTail DEF Placed
      <4> QED BY <3>1, <4>1, <4>2 DEF Placed, Queued, Msg
    <3>2. CASE t # Loop
      BY <1>2, <3>2 DEF Queue, Msg, Placed, Carrying
    <3> QED BY <3>1, <3>2
  <2>2. /\ Distinct(pending)' /\ Elements(pending)' = Elements(pending) \cup {Msg(t)}
        /\ Distinct(flush)' /\ Elements(flush)' = Elements(flush)
        /\ UNCHANGED <<flush, sent, crashed>>
    <3>1. pending' = Append(pending, Msg(t)) /\ UNCHANGED <<flush, sent, crashed>>
      BY <1>2 DEF Queue
    <3>2. Distinct(Append(pending, Msg(t)))
          /\ Elements(Append(pending, Msg(t))) = Elements(pending) \cup {Msg(t)}
      BY <1>a, <2>1, DistinctAppend DEF Placed
    <3> QED BY <3>1, <3>2 DEF Distinct, Elements, Placed
  <2>3. /\ pc[t] = "queue" /\ pc'[t] = "search" /\ \A r \in Thread \ {t} : pc'[r] = pc[r]
    BY <1>2, <1>a DEF Queue
  <2>4. /\ t = Loop => /\ Msg(t) = Head(flush) /\ Head(flush) \in Elements(flush)
                       /\ \A u \in User : Carrying(u)' = Carrying(u)
        /\ t # Loop => /\ Msg(t) = t /\ t \notin Elements(flush)
                       /\ Carrying(t) /\ ~Carrying(t)'
                       /\ \A u \in User \ {t} : Carrying(u)' = Carrying(u)
    <3>1. CASE t = Loop
      <4>1. flush # <<>>
        BY <1>a, <2>3, <3>1
      <4>2. Head(flush) \in Elements(flush)
        BY <1>a, <4>1, DistinctTail DEF Placed
      <4> QED BY <1>a, <2>3, <3>1, <4>2 DEF Msg, Carrying
    <3>2. CASE t # Loop
      BY <1>a, <2>3, <3>2 DEF Msg, Carrying, Placed
    <3> QED BY <3>1, <3>2
  <2>5. UNCHANGED <<Waiting, SentMessages>>
    BY <2>1, <2>2, <2>4 DEF Waiting, SentMessages
  <2>6. UNCHANGED Promise!vars
    BY <2>2, <2>5 DEF Promise!vars, SentMessages
  <2>7. Placed'
    BY <1>a, <2>1, <2>2, <2>3, <2>4, <2>5 DEF Placed, Queued, Sending
  <2> QED BY <2>6, <2>7
<1>3. CASE BroadcastRREQ(t)
  <2>1. /\ UNCHANGED <<pending, sent, crashed>> /\ pc[t] = "broadcast"
        /\ \A r \in Thread \ {t} : pc'[r] = pc[r]
        /\ t # Loop => pc'[t] = "done" /\ flush' = flush
        /\ t = Loop => /\ flush' = Tail(flush)
                       /\ pc'[t] = IF Len(flush) > 1 THEN "get" ELSE "idle"
    BY <1>3, <1>a DEF BroadcastRREQ, Return
  <2>2. CASE t # Loop
    <3>1. \A u \in User : /\ Carrying(u)' <=> Carrying(u)
                          /\ pc'[u] = "idle" => pc[u] = "idle"
      BY <1>a, <2>1, <2>2 DEF Carrying
    <3> QED BY <1>a, <2>1, <2>2, <3>1, Unmoved DEF Placed
  <2>3. CASE t = Loop
    <3>1. flush # <<>> /\ Head(flush) \in Elements(pending)
      BY <1>a, <2>1, <2>3 DEF Placed, Queued
    <3>a. /\ Distinct(Tail(flush)) /\ Elements(Tail(flush)) = Elements(flush) \ {Head(flush)}
          /\ Tail(flush) # <<>> => Len(flush) > 1
      BY <1>a, <3>1, DistinctTail DEF Placed
    <3>2. /\ Distinct(flush') /\ Elements(flush') = Elements(flush) \ {Head(flush)}
          /\ flush' # <<>> => pc'[Loop] = "get"
          /\ pc'[Loop] \in {"get", "idle"}
      BY <2>1, <2>3, <3>a
    <3>3. Distinct(pending)' /\ Elements(pending)' = Elements(pending)
      BY <2>1 DEF Placed, Distinct, Elements
    <3>4. \A u \in User : pc'[u] = pc[u] /\ (Carrying(u)' <=> Carrying(u))
      BY <1>a, <2>1, <2>3 DEF Carrying
    <3>5. UNCHANGED <<Waiting, SentMessages>>
      BY <2>1, <3>1, <3>2, <3>3, <3>4 DEF Waiting, SentMessages, Elements
    <3>6. UNCHANGED Promise!vars
      BY <2>1, <3>5 DEF Promise!vars, SentMessages
    <3>7. Placed'
      BY <3>1, <3>2, <3>3, <3>4, <3>5 DEF Placed, Queued, Sending, Distinct, Elements
    <3> QED BY <3>6, <3>7
  <2> QED BY <2>2, <2>3
<1>4. CASE SendDATA(t)
  <2>1. /\ UNCHANGED <<pending, crashed>> /\ pc[t] = "load"
        /\ sent' = sent \cup {[msg |-> Msg(t), seq |-> seqNum]}
        /\ \A r \in Thread \ {t} : pc'[r] = pc[r]
        /\ t # Loop => pc'[t] = "done" /\ flush' = flush
        /\ t = Loop => /\ flush' = Tail(flush)
                       /\ pc'[t] = IF Len(flush) > 1 THEN "get" ELSE "idle"
    BY <1>4, <1>a DEF SendDATA, Return
  <2>2. SentMessages' = SentMessages \cup {Msg(t)}
    <3> DEFINE new == [msg |-> Msg(t), seq |-> seqNum]
    <3>1. new.msg = Msg(t) /\ sent' = sent \cup {new}
      BY <2>1
    <3> HIDE DEF new
    <3> QED BY <3>1 DEF SentMessages
  <2>3. Distinct(pending)' /\ Elements(pending)' = Elements(pending)
    BY <2>1 DEF Placed, Distinct, Elements
  <2>4. /\ Msg(t) \in User /\ Msg(t) \in Waiting /\ Waiting' = Waiting \ {Msg(t)}
        /\ Placed'
    <3>1. CASE t = Loop
      <4>a. flush # <<>>
        BY <1>a, <2>1, <3>1
      <4>b. /\ Head(flush) \in User /\ Head(flush) \in Elements(flush)
            /\ Distinct(Tail(flush)) /\ Elements(Tail(flush)) = Elements(flush) \ {Head(flush)}
            /\ Tail(flush) # <<>> => Len(flush) > 1
        BY <1>a, <4>a, DistinctTail DEF Placed
      <4>1. /\ flush # <<>> /\ Msg(t) = Head(flush) /\ Head(flush) \in User
            /\ Head(flush) \in Elements(flush) /\ Distinct(flush')
            /\ Elements(flush') = Elements(flush) \ {Head(flush)}
            /\ flush' # <<>> => pc'[Loop] = "get"
            /\ pc'[Loop] \in {"get", "idle"}
        BY <2>1, <3>1, <4>a, <4>b DEF Msg
      <4>2. \A u \in User : pc'[u] = pc[u] /\ (Carrying(u)' <=> Carrying(u))
        BY <1>a, <2>1, <3>1 DEF Carrying
      <4>3. Head(flush) \notin Elements(pending) /\ ~Carrying(Head(flush))
            /\ pc[Head(flush)] # "idle"
        BY <2>1, <3>1, <4>1 DEF Placed, Queued, Waiting
      <4>4. Elements(flush)' = Elements(flush')
        BY DEF Elements
      <4>5. Head(flush) \in Waiting /\ Waiting' = Waiting \ {Head(flush)}
        BY <2>3, <4>1, <4>2, <4>3, <4>4 DEF Waiting
      <4>6. Placed'
        BY <2>1, <2>2, <2>3, <3>1, <4>1, <4>2, <4>3, <4>4, <4>5
           DEF Placed, Queued, Sending, Distinct
      <4> QED BY <4>1, <4>5, <4>6
    <3>2. CASE t # Loop
      <4>1. /\ t \in User /\ Msg(t) = t /\ Carrying(t) /\ ~Carrying(t)' /\ pc'[t] = "done"
            /\ t \notin Elements(pending) \cup Elements(flush)
        BY <1>a, <2>1, <3>2 DEF Msg, Carrying, Placed
      <4>2. \A u \in User \ {t} : pc'[u] = pc[u] /\ (Carrying(u)' <=> Carrying(u))
        BY <1>a, <2>1 DEF Carrying
      <4>3. pc'[Loop] = pc[Loop] /\ Elements(flush)' = Elements(flush) /\ Distinct(flush)'
        BY <1>a, <2>1, <3>2 DEF Elements, Distinct, Placed
      <4>4. t \in Waiting /\ Waiting' = Waiting \ {t}
        BY <2>3, <4>1, <4>2, <4>3 DEF Waiting
      <4>5. Placed'
        BY <2>1, <2>2, <2>3, <3>2, <4>1, <4>2, <4>3, <4>4 DEF Placed
      <4> QED BY <4>1, <4>4, <4>5
    <3> QED BY <3>1, <3>2
  <2>5. PICK x \in User : x = Msg(t)
    BY <2>4
  <2>6. Promise!Send(x)
    BY <1>a, <2>1, <2>2, <2>4, <2>5 DEF Promise!Send, SentMessages
  <2>7. Promise!Next
    BY <2>6 DEF Promise!Next
  <2> QED BY <2>4, <2>7
<1> QED BY <1>1, <1>2, <1>3, <1>4 DEF SendData

(* The message loop, apart from the sends it repeats: handleRREP takes the  *)
(* queue, and only when it has sent everything it took before.              *)
LEMMA LoopMoves ==
  ASSUME ThreadsAssumption, ThreadInv, Placed, LoopStep, ~SendData(Loop)
  PROVE  Placed' /\ [Promise!Next]_(Promise!vars)
<1> USE DEF Thread, memory, locals, outside, At, Go
<1>a. /\ Loop \notin User /\ pc \in [Thread -> Labels]
      /\ pending \in Seq(User) /\ flush \in Seq(User) /\ ~crashed
  BY DEF ThreadsAssumption, ThreadInv, ThreadsTypeOK, LoopStep, SendData, FindRoute,
         DeleteExpired, Queue, NumberRREQ, BroadcastRREQ, CountDATA, SendDATA, ReceiveRoute,
         CompareRoute, InstallRoute, TakePending, SendRREP, ReceiveHELLO, ReceiveRERR,
         BreakRoute, ReceiveDATA, AddPrecursor
<1>b. /\ pc[Loop] \notin Sending /\ \A r \in Thread \ {Loop} : pc'[r] = pc[r]
      /\ pc'[Loop] \notin Queued /\ UNCHANGED <<sent, crashed>>
  BY <1>a DEF LoopStep, Sending, Queued, ReceiveRoute, CompareRoute, InstallRoute, TakePending,
         SendRREP, ReceiveHELLO, ReceiveRERR, BreakRoute, ReceiveDATA, AddPrecursor, AfterUpdate
<1>c. flush = <<>> /\ pc[Loop] \notin Queued
  BY <1>b DEF Placed, Sending, Queued
<1>d. \A u \in User : pc'[u] = pc[u] /\ (Carrying(u)' <=> Carrying(u))
  BY <1>a, <1>b DEF Carrying
<1>1. CASE TakePending
  <2>1. flush' = pending /\ pending' = <<>> /\ (pending # <<>> => pc'[Loop] = "get")
    BY <1>1, <1>a DEF TakePending
  <2>2. /\ Elements(flush)' = Elements(pending) /\ Elements(pending)' = {} /\ Elements(flush) = {}
        /\ Distinct(flush)' /\ Distinct(pending)'
    BY <1>c, <2>1 DEF Elements, Distinct, Placed
  <2>3. UNCHANGED <<Waiting, SentMessages>>
    BY <1>b, <1>d, <2>2 DEF Waiting, SentMessages
  <2>4. UNCHANGED Promise!vars
    BY <1>b, <2>3 DEF Promise!vars, SentMessages
  <2>5. Placed'
    BY <1>b, <1>d, <2>1, <2>2, <2>3 DEF Placed, Sending
  <2> QED BY <2>4, <2>5
<1>2. CASE ~TakePending
  <2>1. UNCHANGED <<pending, flush>>
    BY <1>2 DEF LoopStep, ReceiveRoute, CompareRoute, InstallRoute, SendRREP, ReceiveHELLO,
         ReceiveRERR, BreakRoute, ReceiveDATA, AddPrecursor
  <2> QED BY <1>b, <1>c, <1>d, <2>1, Unmoved
<1> QED BY <1>1, <1>2

(* Everything else. *)
LEMMA EnvironmentMoves ==
  ASSUME ThreadsAssumption, ThreadInv, Placed,
         \/ \E u \in User : AcceptMessage(u)
         \/ CollectorStep
         \/ \E m \in incoming : Listen(m)
         \/ \E k \in requests : Answer(k)
         \/ \E e \in {"HELLO", "RREQ", "RERR", "DATA"}, q \in Neighbour : Arrive(e, q)
         \/ RouteExpires \/ (\E q \in Neighbour : NeighbourSilent(q)) \/ MapFault
  PROVE  Placed' /\ [Promise!Next]_(Promise!vars)
<1> USE DEF Thread, memory, locals, outside, At, Go
<1>a. Loop \notin User /\ Collector \notin User \cup {Loop} /\ pc \in [Thread -> Labels]
  BY DEF ThreadsAssumption, ThreadInv, ThreadsTypeOK
<1>1. CASE \E u \in User : AcceptMessage(u)
  <2>1. PICK u \in User : AcceptMessage(u)
    BY <1>1
  <2>2. /\ pc[u] = "idle" /\ pc'[u] = "get" /\ \A r \in Thread \ {u} : pc'[r] = pc[r]
        /\ ~crashed /\ UNCHANGED <<pending, flush, sent, crashed>>
    BY <1>a, <2>1 DEF AcceptMessage
  <2>3. /\ Elements(pending)' = Elements(pending) /\ Elements(flush)' = Elements(flush)
        /\ Distinct(pending)' /\ Distinct(flush)'
        /\ SentMessages' = SentMessages /\ pc'[Loop] = pc[Loop]
    BY <1>a, <2>2 DEF Elements, Distinct, Placed, SentMessages
  <2>4. /\ Carrying(u)'
        /\ \A v \in User \ {u} : pc'[v] = pc[v] /\ (Carrying(v)' <=> Carrying(v))
    BY <1>a, <2>2 DEF Carrying
  <2>5. Waiting' = Waiting \cup {u} /\ u \notin Waiting \cup SentMessages
    BY <2>2, <2>3, <2>4 DEF Waiting, Placed
  <2>6. Placed'
    BY <2>2, <2>3, <2>4, <2>5 DEF Placed, Waiting
  <2>7. Promise!Accept(u)
    BY <2>2, <2>3, <2>5 DEF Promise!Accept, SentMessages
  <2> QED BY <2>6, <2>7 DEF Promise!Next
<1>2. CASE MapFault
  <2>1. UNCHANGED <<pending, flush, sent, pc>> /\ ~crashed /\ crashed'
    BY <1>2 DEF MapFault
  <2>2. UNCHANGED <<Waiting, SentMessages>> /\ Placed'
    BY <2>1 DEF Waiting, SentMessages, Placed, Carrying, Elements, Distinct
  <2>3. Promise!Die
    BY <2>1, <2>2 DEF Promise!Die, SentMessages
  <2> QED BY <2>2, <2>3 DEF Promise!Next
<1>3. CASE ~MapFault /\ ~\E u \in User : AcceptMessage(u)
  <2>1. UNCHANGED <<pending, flush, sent, crashed>>
    BY <1>3 DEF CollectorStep, Tick, ForgetNeighbour, SnapshotRoutes, NotifyPrecursors,
         DropRoute, Listen, Answer, Arrive, RouteExpires, NeighbourSilent
  <2>2. \A r \in User \cup {Loop} : pc'[r] = pc[r]
    <3>1. CASE CollectorStep
      BY <1>a, <3>1 DEF CollectorStep, Tick, ForgetNeighbour, SnapshotRoutes, NotifyPrecursors,
         DropRoute
    <3>2. CASE ~CollectorStep
      BY <1>3, <3>2 DEF Listen, Answer, Arrive, RouteExpires, NeighbourSilent
    <3> QED BY <3>1, <3>2
  <2>3. \A u \in User : Carrying(u)' <=> Carrying(u)
    BY <2>2 DEF Carrying
  <2> QED BY <2>1, <2>2, <2>3, Unmoved DEF Placed
<1> QED BY <1>1, <1>2, <1>3

-----------------------------------------------------------------------------
LEMMA PlacedInit == Init => Placed /\ Promise!Init
<1> SUFFICES ASSUME Init PROVE Placed /\ Promise!Init
  OBVIOUS
<1>1. Elements(pending) = {} /\ Elements(flush) = {} /\ SentMessages = {}
  BY DEF Init, Elements, SentMessages
<1>2. Waiting = {}
  BY <1>1 DEF Init, Waiting, Carrying, Thread
<1>3. Placed
  BY <1>1, <1>2 DEF Init, Placed, Distinct, Carrying, Thread, Queued
<1> QED BY <1>1, <1>2, <1>3 DEF Init, Promise!Init, SentMessages

LEMMA PlacedStep ==
  ASSUME ThreadsAssumption, ThreadInv, Placed, [Next]_vars
  PROVE  Placed' /\ [Promise!Next]_(Promise!vars)
<1>1. CASE \E u \in User : SendData(u)
  BY <1>1, SendDataMoves
<1>2. CASE LoopStep
  <2>1. CASE SendData(Loop)
    BY <2>1, SendDataMoves
  <2> QED BY <1>2, <2>1, LoopMoves
<1>3. CASE UNCHANGED vars
  <2>1. UNCHANGED <<pending, flush, sent, crashed, pc>>
    BY <1>3 DEF vars, memory, locals
  <2> QED BY <2>1, Unmoved DEF Placed, Carrying
<1> QED BY <1>1, <1>2, <1>3, EnvironmentMoves DEF Next

(* The goroutines implement the safety part of Outbox: in every             *)
(* interleaving of /send, handleRREP and the rest, a message is sent at     *)
(* most once, and only a death of the process loses one.                    *)
THEOREM OutboxImplemented == Spec => Promise!Safety
<1>1. Init => Placed /\ Promise!Init
  BY PlacedInit
<1>2. ThreadInv /\ Placed /\ [Next]_vars => Placed' /\ [Promise!Next]_(Promise!vars)
  BY PlacedStep, ThreadsAssumption
<1>3. Spec => []ThreadInv
  BY ThreadInvHolds
<1> QED BY <1>1, <1>2, <1>3, PTL DEF Spec, Promise!Safety
=============================================================================
