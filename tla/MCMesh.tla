------------------------------- MODULE MCMesh -------------------------------
(* Instances of MeshNet for TLC: topologies, traffic and budgets. *)
EXTENDS MeshProps, TLC

CONSTANTS a, b, c, e, \* nodes
          x, y, z,   \* payloads
          ab, bc, ca, ce, ea \* LANs

(* Two LANs joined by gateway b, as in docker-compose.yaml. *)
Line == a :> {ab} @@ b :> {ab, bc} @@ c :> {bc}
(* Three LANs in a ring, every node a gateway. *)
Ring == a :> {ab, ca} @@ b :> {ab, bc} @@ c :> {bc, ca}
Square == a :> {ab, ea} @@ b :> {ab, bc} @@ c :> {bc, ce} @@ e :> {ce, ea}
RingAndAbsent == Ring @@ e :> {}
(* A ring with one more host behind gateway c. *)
RingAndStub == a :> {ab, ca} @@ b :> {ab, bc} @@ c :> {bc, ca, ce} @@ e :> {ce}

(* The tables after everyone on the LANs has heard one HELLO of everyone. *)
HelloAddress(n, m) == {<<m, l>> : l \in Links[n] \cap Links[m]}
WarmNeighbours ==
  [n \in Node |->
     [m \in {m \in Node \ {n} : HelloAddress(n, m) # {}} |->
        LET addr == CHOOSE addr \in HelloAddress(n, m) : TRUE
        IN  [addr |-> addr, iface |-> addr[2], silent |-> FALSE]]]

(* How often the bounded events happen. *)
NoEvents == [k \in Budget |-> 0]
Events(f) == f @@ NoEvents
TwoSearches == Events("rreq" :> 2)
OneLoss == Events("lose" :> 1)
OneExpiry == Events("expire" :> 1)
ExpirySearch == Events("expire" :> 1 @@ "rreq" :> 1)
SilenceSearch == Events("silence" :> 1 @@ "rreq" :> 1)
ExpirySilence == Events("expire" :> 1 @@ "silence" :> 1)
ExpiryTwoSearches == Events("expire" :> 1 @@ "rreq" :> 2)
RouteFaults == Events("expire" :> 1 @@ "silence" :> 1 @@ "rreq" :> 2)
OneOfEach == [k \in Budget |-> IF k = "rreq" THEN 0 ELSE 1]
HelloSilence == Events("hello" :> 1 @@ "silence" :> 1)

(* A start after the first round of HELLOs, with counters s and budget f,   *)
(* when nobody is going to ask for what is in A.                            *)
WarmFrom(s, f, A) ==
  /\ nbr = WarmNeighbours
  /\ rt = [n \in Node |-> NewTable]
  /\ seen = [n \in Node |-> NewTable]
  /\ seqNum = s
  /\ pend = [n \in Node |-> [t \in Node |-> <<>>]]
  /\ inbox = [n \in Node |-> <<>>]
  /\ net = {}
  /\ left = f
  /\ asked = A
  /\ accepted = [n \in Node |-> {}]
  /\ spoiled = {}

ZeroSeqs == [n \in Node |-> 0]
WarmInit == WarmFrom(ZeroSeqs, Limit, {})

WarmSpec == WarmInit /\ [][Next]_vars
WarmFairSpec == WarmSpec /\ Fairness
(* With or without the first round of HELLOs. *)
AnyStartFairSpec == (Init \/ WarmInit) /\ [][Next]_vars /\ Fairness

(* What may happen to routes: one expires, or a next hop falls silent, while*)
(* two nodes search or after one has; one expires between two searches of a *)
(* node, so that a reply can go round in a loop until its hop count wraps;  *)
(* and the searches come from a node whose counter is about to wrap.        *)
FaultsInit ==
  \/ \E f \in {ExpirySearch, SilenceSearch, ExpirySilence} : WarmFrom(ZeroSeqs, f, {})
  \/ WarmFrom(ZeroSeqs, ExpiryTwoSearches, Offered)
  \/ WarmFrom([ZeroSeqs EXCEPT ![b] = SeqSpace - 2], ExpiryTwoSearches, Offered)
FaultsSpec == FaultsInit /\ [][Next]_vars

-----------------------------------------------------------------------------
(* What users ask for. *)
Nothing == {}
OneMessage == {<<a, c, x>>}
TwoMessages == {<<a, c, x>>, <<a, c, y>>}
BothWays == {<<a, c, x>>, <<c, a, y>>}
FromGateway == {<<b, c>>}
NearAndStub == {<<b, c>>, <<b, e>>}
TwoTargets == {<<a, b>>, <<a, c>>}
(* e is a node that is down: a search for it crosses the mesh in vain. *)
NearAndNowhere == {<<c, a>>, <<c, e>>}

=============================================================================
