----------------------------- MODULE NodeThreads -----------------------------
(***************************************************************************)
(* The goroutines of one node, at the grain at which they exclude each      *)
(* other: one call of a table, one critical section of pendingMu, one       *)
(* operation on the atomic counter, one channel operation.  MeshNet takes a *)
(* whole handler as one step; here it is taken apart.                       *)
(*                                                                          *)
(* There is one destination, Target, and with it one entry of RoutesTable   *)
(* and one pending queue.  Each goroutine of an HTTP handler /send carries  *)
(* one message and is named by it.  Requests and replies are not lost       *)
(* (stranded_queue in MCMesh shows what happens when they are).             *)
(***************************************************************************)
EXTENDS Integers, Sequences, FiniteSets

CONSTANTS
  User,       \* the goroutines of handleSend, and their messages
  Loop,       \* ProcessMessages
  Collector,  \* StartNeighbourCollector
  Target,     \* the destination
  Neighbour,  \* the nodes around
  NoRoute,    \* the absent entry
  ChanCap,    \* capacity of incomingMsgs (256)
  Limit       \* a bound on what happens to the node: 2 for a user's message, 1 for
              \* a packet that arrives, a route that expires, a silent neighbour

ASSUME ThreadsAssumption ==
  /\ Loop \notin User /\ Collector \notin User /\ Loop # Collector
  /\ Target \notin Neighbour
  /\ ChanCap \in Nat \ {0}
  /\ Limit \in Nat

VARIABLES
  route,     \* the entry for Target in RoutesTable
  nbrs,      \* NeighboursTable: absent, heard or silent (three intervals)
  made,      \* how many Precursors maps have been made
  pending,   \* pendingMsgs[Target]
  seqNum,    \* seqNum
  chan,      \* incomingMsgs
  pc,        \* where each goroutine is
  got,       \* the entry a goroutine has read or is about to write
  num,       \* the number a goroutine was given by seqNum.Add
  current,   \* the type of the packet whose route the loop is updating
  flush,     \* what the loop took out of pendingMsgs and still has to send
  todo, dead,\* the collector's silent neighbours: to delete, deleted
  incoming,  \* datagrams on their way to this node
  requests,  \* numbers of our RREQs on their way to Target
  heard,     \* the last of them Target has accepted (its seenRREQs)
  theirs,    \* Target's own sequence number
  sent,      \* the DATA datagrams sent: message and SeqNum
  crashed,   \* the Go runtime has stopped the process
  left       \* what is left of Limit

memory == <<route, nbrs, made, pending, seqNum, chan>>
locals == <<pc, got, num, current, flush, todo, dead>>
outside == <<incoming, requests, heard, theirs, left>>
vars == <<memory, locals, outside, sent, crashed>>

Thread == User \cup {Loop, Collector}
Entry == [seq: Nat, next: Neighbour \cup {Target}, live: BOOLEAN, pre: Nat]
Reply(k, q) == [type |-> "RREP", seq |-> k, via |-> q]
Search(k, q) == [type |-> "RREQ", seq |-> k, via |-> q]
Other(t, q) == [type |-> t, seq |-> 0, via |-> q]
Datagram == [type: {"RREP", "RREQ", "HELLO", "RERR", "DATA"}, seq: Nat, via: Neighbour]

At(t, l) == ~crashed /\ pc[t] = l
Go(t, l) == pc' = [pc EXCEPT ![t] = l]
Spend(k) == left >= k /\ left' = left - k

Init ==
  /\ route = NoRoute
  /\ nbrs = [q \in Neighbour |-> "heard"]
  /\ made = 0 /\ pending = <<>> /\ seqNum = 0 /\ chan = <<>>
  /\ pc = [t \in Thread |-> "idle"]
  /\ got = [t \in Thread |-> NoRoute]
  /\ num = [t \in Thread |-> 0]
  /\ current = "none"
  /\ flush = <<>> /\ todo = {} /\ dead = {}
  /\ incoming = {} /\ requests = {} /\ heard = 0 /\ theirs = 0
  /\ sent = {} /\ crashed = FALSE /\ left = Limit

-----------------------------------------------------------------------------
(* SendData, run by handleSend for its own message and by handleRREP for    *)
(* the first of flush.  handleDATA shares FindRoute.                        *)
Relaying(t) == t = Loop /\ flush = <<>>
Msg(t) == IF t = Loop THEN Head(flush) ELSE t

(* What t does after its SendData: an HTTP handler is done, the loop turns  *)
(* to the next of flush.                                                    *)
Return(t) ==
  IF t = Loop
  THEN flush' = Tail(flush) /\ Go(t, IF Len(flush) > 1 THEN "get" ELSE "idle")
  ELSE UNCHANGED flush /\ Go(t, "done")

AcceptMessage(u) ==
  /\ At(u, "idle") /\ Go(u, "get") /\ Spend(2)
  /\ UNCHANGED <<memory, got, num, current, flush, todo, dead, incoming, requests, heard,
                 theirs, sent, crashed>>

(* FindRoute reads under the lock of the table and judges the copy. *)
FindRoute(t) ==
  /\ At(t, "get")
  /\ Go(t, IF route # NoRoute /\ ~route.live THEN "delete"
           ELSE IF Relaying(t) THEN "idle"
           ELSE IF route = NoRoute THEN "queue" ELSE "add")
  /\ UNCHANGED <<memory, got, num, current, flush, todo, dead, outside, sent, crashed>>

(* It deletes whatever is there now. *)
DeleteExpired(t) ==
  /\ At(t, "delete")
  /\ route' = NoRoute
  /\ Go(t, IF Relaying(t) THEN "idle" ELSE "queue")
  /\ UNCHANGED <<nbrs, made, pending, seqNum, chan, got, num, current, flush, todo,
                 dead, outside, sent, crashed>>

(* Mutant: the search goes out before the message is queued. *)
Queue_AfterSearch(t) ==
  \/ /\ At(t, "queue")
     /\ seqNum' = seqNum + 1
     /\ requests' = requests \cup {seqNum + 1}
     /\ Go(t, "late")
     /\ UNCHANGED <<route, nbrs, made, pending, chan, got, num, current, flush, todo,
                    dead, incoming, heard, theirs, left, sent, crashed>>
  \/ /\ At(t, "late")
     /\ pending' = Append(pending, Msg(t))
     /\ Return(t)
     /\ UNCHANGED <<route, nbrs, made, seqNum, chan, got, num, current, todo, dead,
                    outside, sent, crashed>>

Queue(t) ==
  /\ At(t, "queue")
  /\ pending' = Append(pending, Msg(t))
  /\ Go(t, "search")
  /\ UNCHANGED <<route, nbrs, made, seqNum, chan, got, num, current, flush, todo, dead,
                 outside, sent, crashed>>

(* SendRREQ: the number, then the broadcast. *)
NumberRREQ(t) ==
  /\ At(t, "search")
  /\ seqNum' = seqNum + 1
  /\ num' = [num EXCEPT ![t] = seqNum + 1]
  /\ Go(t, "broadcast")
  /\ UNCHANGED <<route, nbrs, made, pending, chan, got, current, flush, todo, dead,
                 outside, sent, crashed>>

BroadcastRREQ(t) ==
  /\ At(t, "broadcast")
  /\ requests' = requests \cup {num[t]}
  /\ num' = [num EXCEPT ![t] = 0]
  /\ Return(t)
  /\ UNCHANGED <<memory, got, current, todo, dead, incoming, heard, theirs, left,
                 sent, crashed>>

(* A found route: seqNum.Add, and later seqNum.Load into the datagram. *)
CountDATA(t) ==
  /\ At(t, "add")
  /\ seqNum' = seqNum + 1
  /\ Go(t, "load")
  /\ UNCHANGED <<route, nbrs, made, pending, chan, got, num, current, flush, todo, dead,
                 outside, sent, crashed>>

SendDATA(t) ==
  /\ At(t, "load")
  /\ sent' = sent \cup {[msg |-> Msg(t), seq |-> seqNum]}
  /\ Return(t)
  /\ UNCHANGED <<memory, got, num, current, todo, dead, outside, crashed>>

SendData(t) ==
  \/ FindRoute(t) \/ DeleteExpired(t)
  \/ Queue(t) \/ NumberRREQ(t) \/ BroadcastRREQ(t)
  \/ CountDATA(t) \/ SendDATA(t)

-----------------------------------------------------------------------------
(* The message loop. *)

(* FindNeighbourByAddr: the sender, or the originator when it is unknown. *)
Hop(m) == IF nbrs[m.via] # "absent" THEN m.via ELSE Target

(* A request is taken even if its number has been seen (conn.go:182), so    *)
(* every order of arrival is tried.                                         *)
ReceiveRoute ==
  /\ At(Loop, "idle") /\ chan # <<>> /\ Head(chan).type \in {"RREP", "RREQ"}
  /\ chan' = Tail(chan) /\ current' = Head(chan).type
  /\ got' = [got EXCEPT ![Loop] =
               [seq |-> Head(chan).seq, next |-> Hop(Head(chan)), live |-> TRUE, pre |-> 0]]
  /\ Go(Loop, "compare")
  /\ UNCHANGED <<route, nbrs, made, pending, seqNum, num, flush, todo, dead, outside,
                 sent, crashed>>

(* What follows UpdateRoute in handleRREP and in handleRREQ. *)
AfterUpdate == /\ Go(Loop, IF current = "RREP" THEN "take" ELSE "reply")
               /\ got' = [got EXCEPT ![Loop] = NoRoute]
               /\ current' = "none"

(* UpdateRoute: Get, the comparison, and Put as another critical section.   *)
(* Equal numbers with fewer hops (routes.go:174) do not occur: the numbers   *)
(* of the routes that arrive here are distinct.                             *)
CompareRoute ==
  /\ At(Loop, "compare")
  /\ \/ /\ route = NoRoute
        /\ Go(Loop, "install") /\ UNCHANGED <<got, current>>
     \/ /\ route # NoRoute /\ got[Loop].seq > route.seq
        /\ got' = [got EXCEPT ![Loop].pre = route.pre]
        /\ Go(Loop, "install") /\ UNCHANGED current
     \/ /\ route # NoRoute /\ got[Loop].seq <= route.seq
        /\ AfterUpdate
  /\ UNCHANGED <<memory, num, flush, todo, dead, outside, sent, crashed>>

InstallRoute ==
  /\ At(Loop, "install")
  /\ route' = got[Loop]
  /\ AfterUpdate
  /\ UNCHANGED <<nbrs, made, pending, seqNum, chan, num, flush, todo, dead,
                 outside, sent, crashed>>

(* Mutant: the queue is copied, and emptied by nobody. *)
TakePending_Keep ==
  /\ At(Loop, "take")
  /\ flush' = pending
  /\ Go(Loop, IF pending = <<>> THEN "idle" ELSE "get")
  /\ UNCHANGED <<memory, got, num, current, todo, dead, outside, sent, crashed>>

(* handleRREP takes the queue in one critical section and sends it message  *)
(* by message.                                                              *)
TakePending ==
  /\ At(Loop, "take")
  /\ flush' = pending /\ pending' = <<>>
  /\ Go(Loop, IF pending = <<>> THEN "idle" ELSE "get")
  /\ UNCHANGED <<route, nbrs, made, seqNum, chan, got, num, current, todo, dead,
                 outside, sent, crashed>>

(* SendRREP for a search of Target. *)
SendRREP ==
  /\ At(Loop, "reply")
  /\ seqNum' = seqNum + 1
  /\ Go(Loop, "idle")
  /\ UNCHANGED <<route, nbrs, made, pending, chan, got, num, current, flush, todo, dead,
                 outside, sent, crashed>>

ReceiveHELLO ==
  /\ At(Loop, "idle") /\ chan # <<>> /\ Head(chan).type = "HELLO"
  /\ chan' = Tail(chan)
  /\ nbrs' = [nbrs EXCEPT ![Head(chan).via] = "heard"]
  /\ UNCHANGED <<route, made, pending, seqNum, locals, outside, sent, crashed>>

(* handleRERR: the route is read, and deleted if its next hop reports it. *)
ReceiveRERR ==
  /\ At(Loop, "idle") /\ chan # <<>> /\ Head(chan).type = "RERR"
  /\ chan' = Tail(chan)
  /\ IF route # NoRoute /\ route.next = Head(chan).via
     THEN Go(Loop, "break") ELSE UNCHANGED pc
  /\ UNCHANGED <<route, nbrs, made, pending, seqNum, got, num, current, flush, todo,
                 dead, outside, sent, crashed>>

BreakRoute ==
  /\ At(Loop, "break")
  /\ route' = NoRoute
  /\ Go(Loop, "idle")
  /\ UNCHANGED <<nbrs, made, pending, seqNum, chan, got, num, current, flush, todo,
                 dead, outside, sent, crashed>>

(* handleDATA for a message to Target from a neighbour. *)
ReceiveDATA ==
  /\ At(Loop, "idle") /\ chan # <<>> /\ Head(chan).type = "DATA"
  /\ chan' = Tail(chan)
  /\ Go(Loop, IF nbrs[Head(chan).via] # "absent" THEN "precursor" ELSE "get")
  /\ UNCHANGED <<route, nbrs, made, pending, seqNum, got, num, current, flush, todo,
                 dead, outside, sent, crashed>>

(* AddPrecursor writes to the map of the entry, and makes it if it is nil. *)
AddPrecursor ==
  /\ At(Loop, "precursor")
  /\ IF route # NoRoute /\ route.pre = 0
     THEN made' = made + 1 /\ route' = [route EXCEPT !.pre = made + 1]
     ELSE UNCHANGED <<made, route>>
  /\ Go(Loop, "get")
  /\ UNCHANGED <<nbrs, pending, seqNum, chan, got, num, current, flush, todo, dead,
                 outside, sent, crashed>>

LoopStep ==
  \/ SendData(Loop)
  \/ ReceiveRoute \/ CompareRoute \/ InstallRoute \/ TakePending \/ SendRREP
  \/ ReceiveHELLO \/ ReceiveRERR \/ BreakRoute \/ ReceiveDATA \/ AddPrecursor

-----------------------------------------------------------------------------
(* The neighbour collector. *)
Tick ==
  /\ At(Collector, "idle")
  /\ \E q \in Neighbour : nbrs[q] = "silent"
  /\ todo' = {q \in Neighbour : nbrs[q] = "silent"} /\ dead' = {}
  /\ Go(Collector, "forget")
  /\ UNCHANGED <<memory, got, num, current, flush, outside, sent, crashed>>

ForgetNeighbour(q) ==
  /\ At(Collector, "forget") /\ q \in todo
  /\ nbrs' = [nbrs EXCEPT ![q] = "absent"]
  /\ todo' = todo \ {q} /\ dead' = dead \cup {q}
  /\ UNCHANGED <<route, made, pending, seqNum, chan, pc, got, num, current, flush,
                 outside, sent, crashed>>

(* The snapshot of the routes copies the entry, not its map. *)
SnapshotRoutes ==
  /\ At(Collector, "forget") /\ todo = {}
  /\ \/ /\ route # NoRoute /\ route.next \in dead
        /\ got' = [got EXCEPT ![Collector] = route]
        /\ Go(Collector, "range") /\ UNCHANGED dead
     \/ /\ ~(route # NoRoute /\ route.next \in dead)
        /\ dead' = {} /\ Go(Collector, "idle") /\ UNCHANGED got
  /\ UNCHANGED <<memory, num, current, flush, todo, outside, sent, crashed>>

(* The end of the loop over the precursors, each of which gets an RERR. *)
NotifyPrecursors ==
  /\ At(Collector, "range")
  /\ Go(Collector, "drop")
  /\ UNCHANGED <<memory, got, num, current, flush, todo, dead, outside, sent, crashed>>

DropRoute ==
  /\ At(Collector, "drop")
  /\ route' = NoRoute
  /\ got' = [got EXCEPT ![Collector] = NoRoute] /\ dead' = {}
  /\ Go(Collector, "idle")
  /\ UNCHANGED <<nbrs, made, pending, seqNum, chan, num, current, flush, todo,
                 outside, sent, crashed>>

CollectorStep ==
  \/ Tick \/ (\E q \in Neighbour : ForgetNeighbour(q))
  \/ SnapshotRoutes \/ NotifyPrecursors \/ DropRoute

-----------------------------------------------------------------------------
(* The goroutines around, and the mesh. *)

(* Mutant: the listener does not wait for room. *)
Listen_Unbounded(m) ==
  /\ ~crashed /\ m \in incoming
  /\ chan' = Append(chan, m) /\ incoming' = incoming \ {m}
  /\ UNCHANGED <<route, nbrs, made, pending, seqNum, locals, requests, heard, theirs,
                 left, sent, crashed>>

(* listenOnConn blocks while incomingMsgs is full. *)
Listen(m) ==
  /\ ~crashed /\ m \in incoming /\ Len(chan) < ChanCap
  /\ chan' = Append(chan, m) /\ incoming' = incoming \ {m}
  /\ UNCHANGED <<route, nbrs, made, pending, seqNum, locals, requests, heard, theirs,
                 left, sent, crashed>>

(* Target answers a request unless it has accepted a later one. *)
Answer(k) ==
  /\ ~crashed /\ k \in requests
  /\ requests' = requests \ {k}
  /\ \/ /\ k > heard
        /\ heard' = k /\ theirs' = theirs + 1
        /\ \E q \in Neighbour : incoming' = incoming \cup {Reply(theirs + 1, q)}
     \/ k <= heard /\ UNCHANGED <<heard, theirs, incoming>>
  /\ UNCHANGED <<memory, locals, left, sent, crashed>>

(* A search of Target, a HELLO, an RERR or a message to relay arrives. *)
Arrive(e, q) ==
  /\ ~crashed /\ Spend(1)
  /\ IF e = "RREQ"
     THEN theirs' = theirs + 1 /\ incoming' = incoming \cup {Search(theirs + 1, q)}
     ELSE UNCHANGED theirs /\ incoming' = incoming \cup {Other(e, q)}
  /\ UNCHANGED <<memory, locals, requests, heard, sent, crashed>>

(* Time passes. *)
RouteExpires ==
  /\ ~crashed /\ Spend(1) /\ route # NoRoute /\ route.live
  /\ route' = [route EXCEPT !.live = FALSE]
  /\ UNCHANGED <<nbrs, made, pending, seqNum, chan, locals, incoming, requests, heard,
                 theirs, sent, crashed>>

NeighbourSilent(q) ==
  /\ ~crashed /\ Spend(1) /\ nbrs[q] = "heard"
  /\ nbrs' = [nbrs EXCEPT ![q] = "silent"]
  /\ UNCHANGED <<route, made, pending, seqNum, chan, locals, incoming, requests, heard,
                 theirs, sent, crashed>>

(* The collector ranges over a map that AddPrecursor is about to write: the *)
(* lock protects the table, not the map its entries share with a snapshot.  *)
Racing ==
  /\ pc[Collector] = "range" /\ pc[Loop] = "precursor"
  /\ route # NoRoute /\ route.pre # 0 /\ got[Collector].pre = route.pre

(* The Go runtime stops a process it catches at this. *)
MapFault ==
  /\ ~crashed /\ Racing
  /\ crashed' = TRUE
  /\ UNCHANGED <<memory, locals, outside, sent>>

Next ==
  \/ \E u \in User : AcceptMessage(u) \/ SendData(u)
  \/ LoopStep \/ CollectorStep
  \/ \E m \in incoming : Listen(m)
  \/ \E k \in requests : Answer(k)
  \/ \E e \in {"HELLO", "RREQ", "RERR", "DATA"}, q \in Neighbour : Arrive(e, q)
  \/ RouteExpires \/ (\E q \in Neighbour : NeighbourSilent(q))
  \/ MapFault

Spec == Init /\ [][Next]_vars

(* The goroutines of a live process run, and the network delivers. *)
Fairness ==
  /\ \A u \in User : WF_vars(SendData(u))
  /\ WF_vars(LoopStep) /\ WF_vars(CollectorStep)
  /\ WF_vars(\E m \in incoming : Listen(m))
  /\ WF_vars(\E k \in requests : Answer(k))

FairSpec == Spec /\ Fairness
=============================================================================
