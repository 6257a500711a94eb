# Verification of mesh-network

A TLA+ development beside `src/` of mesh-network, a Go program that runs an AODV-like mesh
on top of UDP. The modules are translated from the code; the line numbers in comments and in
`PROJECT.json` are lines of that code.

## 1. The system

| Component | State it keeps | Operations | Correct when |
|---|---|---|---|
| Routing tables (`internal/routing/routes.go`) | neighbours: id -> address, interface, last seen; routes: id -> sequence number, hops, next hop, address, interface, lifetime, precursors; a lock per table | Get, Put, Delete, Snapshot, FindRoute, UpdateRoute, AddPrecursor, UpdateNeighbour, FindNeighbourByAddr | an entry is only replaced by a fresher one; what is handed out is not expired |
| Socket and handlers (`internal/socket/conn.go`) | the two tables, `seqNum`, `seenRREQs`, `pendingMsgs`, `inboxMsgs`, the channel `incomingMsgs` | one listener per interface, the message loop with a handler per message type, hello sender, neighbour collector, SendData / SendRREQ for the IPC server | routes have no loops; messages are neither lost nor doubled; floods end; broken routes are reported |
| Wire protocol (`internal/protocol`) | none | Marshal/Unmarshal of five message types | what is decoded is what was encoded; a short datagram is refused |
| IPC server (`cmd/cli/server.go`) | reads the socket's state | /send, /rreq, /kill, readers (/routes, /neighbours, /messages, /queue, /logs, /config) | answers tell what the socket did |
| IPC client (`internal/ipc`, `cmd/cli/client.go`) | none | HTTP requests with time limits; IsNodeRunning | a running node is told from a stopped one |
| Daemon life cycle (`cmd/mesh-node/main.go`) | PID file, IPC port | start, background start by the TUI, kill by IPC or by PID | one node at a time; kill reaches the node that runs |
| Log buffer (`internal/logger/buffer.go`) | last 2000 lines, next id | Add, Since | a reader that asks in time sees every line once |
| Configuration (`internal/config`, the flags in `main.go`) | a record | environment, flags, the child's command line | no value out of range is used; a child gets what its user gave |
| TUI (`cmd/tui`) | focus, layout, log tail, tables | key, tick and answer messages | the tail shows the node's lines; the panels fit the terminal; keys act on what is drawn as focused |

How they interact: a listener goroutine per interface reads datagrams, decodes them and puts
them into one channel; one goroutine takes them out and runs the handlers. The HTTP handlers of
the IPC server, the hello sender and the neighbour collector run beside it and share the tables,
the pending queues and the counter. Nodes interact by datagrams only: HELLO, RREQ and (when the
interface is unknown) other messages by broadcast on a LAN, RREP, RERR and DATA to the address
in a table. CLI and TUI talk to the node through HTTP on 127.0.0.1:6242.

What is hard: datagrams of several discoveries in any order, lost or duplicated; entries that
expire or are collected while replies that rely on them are on their way; restarts that reset the
sequence number; queued messages that wait for one reply; the goroutines inside a node; a sender
that is not yet a known neighbour. `PROJECT.json` lists each hazard at its line.

## 2. Modules

| Module | Content |
|---|---|
| `Routing` | the table operations of `routes.go` as operators on finite partial functions |
| `MeshNet` | the mesh: every handler of `conn.go` as an action, the network, the events of the environment |
| `Delivery` | what the mesh is for: a message asked for arrives once |
| `MeshProps` | type invariant, safety, action and liveness properties; claims of the documentation |
| `Codec` | the messages as octets: `messages.go` and the dispatch in `handleMessage` |
| `MeshWire` | the messages of `MeshNet` through `Codec`, for any payload lengths and contents of the fields the mesh leaves out |
| `MCMesh`, `MCWire` | topologies, traffic and budgets for TLC; payload lengths and field contents for `MeshWire` |
| `MeshProofs` | lemmas on the table operations; the type invariant, one lemma per handler; every message survives its encoding |
| `OrderProofs` | freshness order, no black holes, no loops |
| `SeqProofs` | nobody knows a sequence number that was not issued; searches: once through each node, within their time to live, the newest heard |
| `CopyProofs` | a message is in one place at a time; the mesh implements the safety part of `Delivery` and loses no message itself |
| `NodeThreads` | the goroutines inside one node, one step per table call, lock section or atomic operation |
| `Outbox` | what a sender promises its user: a message accepted is sent once |
| `ThreadProps` | properties of `NodeThreads`, `Outbox` among them |
| `ThreadProofs` | the goroutines' type invariant; a queued message is served; `NodeThreads` implements the safety part of `Outbox` |
| `LogBuffer` | the node's bounded, numbered log |
| `Layout` | how the interface divides the terminal: `layout.go`, the columns of `tables.go`, what `compose.go` and `render.go` draw |
| `Tui` | the terminal interface: focus, fields, sending, the log tail, the tables, its size |
| `TuiProps`, `MCTui` | its properties and instance |
| `LayoutProofs` | what the operators of `Layout` compute for every size: heights, widths and columns of each layout |
| `TuiProofs` | the log buffer and the tail; the keys and the draft; the window and the types of the interface's state |
| `Config` | environment and flags: what is accepted, which interface list results, what a child is given |
| `Daemon` | the processes of a host around one PID file and one port |
| `DaemonProps`, `MCDaemon` | their properties, with history variables, and instance |
| `DaemonProofs` | a host's type invariant; settings in range and interfaces with names; a child has what its user asked for; what the commands of a host leave behind |

`MeshNet` extends `Routing`, `Tui` extends `LogBuffer` and `Layout`, `Daemon` extends `Config`, `MeshWire` composes `MeshNet` with `Codec`,
`ThreadProps` composes `NodeThreads` with `Outbox` by a refinement mapping, `MeshProps` `MeshNet` with `Delivery`. The mesh, the inside of a node, the
processes of a host and the interface are four views of one program; they meet in `/send` (an action
in `MeshNet`, a thread in `NodeThreads`, a key in `Tui`) and in a node's restart.

### MeshNet and the code

`nbr[n]`, `rt[n]`, `seen[n]`, `seqNum[n]`, `pend[n]` and `inbox[n]` are NeighboursTable, RoutesTable,
seenRREQs, seqNum, pendingMsgs and inboxMsgs of node `n`; `net` is the set of datagrams in flight.
An address is a pair of node and LAN: a datagram reaches its host only on the LAN it was sent on,
so the sender's address also tells the receiving interface.

An action is a whole handler: `AnswerRREQ`, `RelayRREQ`, `DropRREQ` and `DeclineRREQ` are
the paths through `handleRREQ`, `FinishRREP` (with the sends it repeats for the queue), `RelayRREP`
and `DropRREP` those through `handleRREP`, `DeliverDATA`, `RelayDATA` and `RejectDATA` those through
`handleDATA`, `HandleRERR` and `IgnoreRERR` those through `handleRERR`. `SendData` and `SearchRoute` are
the IPC handlers `/send` and `/rreq`, `BroadcastHello` and `CollectNeighbours` one tick of the two
timers. Where Go iterates over a map and takes the first match, any match may be taken.

Abstractions:

* Time. A route is `live` or not, a neighbour `silent` (for three HELLO intervals) or not;
  `RouteExpires` and `NeighbourSilent` set them at any moment, within a budget. No clock relates
  two of them.
* A handler is one step. The goroutines of a node exclude each other only around single table
  calls, so this is coarser than the code; `NodeThreads` is the finer view.
* The network is a set. It delivers in any order, `Lose` drops a datagram, and a delivery may leave
  a copy behind. Two identical datagrams in flight are one element.
* Bytes, formatting, logging and HTTP are left out, as are errors of the operating system's send calls.
* Counters are numbers modulo `SeqSpace` and `HopSpace` (2^32 and 256 in the code).
* SendData's branch for a route over an unknown interface is not modelled: a route's interface is
  that of a link on which a datagram arrived.

`asked`, `accepted` and `spoiled` are history and read by no handler. A destination is *spoiled*
once something that orders the routes to it has been forgotten: some node deleted its entry, its sequence
number went back (restart or wrap-around), or a hop count about it reached its limit. The freshness
properties are about the other destinations: a node that deletes an entry deletes the sequence
number with it (RFC 3561 keeps it; this code does not), and from then on a delayed
datagram can bring an older route back. The run `loops` shows that this really makes a loop.

### NodeThreads and the code

One node; its neighbours and their nodes are the environment. Threads are the HTTP handlers of users
(each sends one message), the message loop, and the collector; the listeners are the
action `Listen`, which blocks when `incomingMsgs` is full. A thread's `pc` names the call it makes next; what
it has read (a route, a snapshot, a counter) stays in its locals until it is used. All messages go to
one destination, so one route and one queue are enough for the races the code has. `Outbox` knows of each message
only whether it is waiting or gone; `SentOnce` is `Outbox!Spec` under a refinement mapping.

### Codec and the code

An octet is a pair of a number and a significance, so that a field read at a wrong place or width is no
number. A writer and a reader is each a record of the places of its fields, `<<offset, width>>`, translated
separately from `MarshalBinary` and from `UnmarshalBinary`.

### Tui and the code

`Update` is split by the kind of message. A key first acts in `processKeyMsg` and is then given to the field
that has the focus afterwards, in one step (`Type`). `SendMsg` runs inside `Update`, so nothing else is handled until
it returns. The text of a log line is the life of the node that wrote it; contents of fields are classes
(empty, a number, other; text or not). That Enter in the receiver field also breaks a line
in the payload, and that a page digit typed outside the fields is entered into the receiver field it
jumps to although a comment (`tui.go:246`) tells the two apart, can be read off `EnterField` and `Digit`.

The size fields of `model` are one record, `layout`, and `UpdateSizes` is `updateSizes` on it: a loop
`for Fits(x+1) { x++ }` is `Grow` with the set of sizes that fit, the alternating loop of the tables `GrowTables`. `Widths` says where the two
loops of `fitColumns` that move single units end: at a level that all columns share, except that the first few differ by one. Whether the result fits is judged by
what is drawn: `Panels`, `Rows` and `Cols` are translated from the render functions, with the sizes that the widgets of the library take for given
(a bordered field is three rows, a table view is as high as it was told). A refresh of the tables asks two questions inside `Update`,
each of which may fail; `known` counts the changes of the node's tables and `drawn` says up to which of them each table is drawn.

### Daemon and the code

A process runs `mesh-node --daemon`, `mesh-node` or `mesh-node kill`; a step is a system call or a request.
`os.WriteFile` is two steps (truncate, write), and a file removed in between is written without a name.
Process ids are not reused, so `pidIsLiveMesh` is `Alive`. A probe that takes longer than 500 ms is an event
of the environment (`slow`), as are a crash and a failing socket. The deadline of 8 s after which an
interface gives up may pass at any moment. Two facts are seen in the model and need no run: a node started
within 200 ms after a kill is refused, because the old one still listens; and of two interfaces started together
the second may report a failure although a node runs.

All commands are given from one shell, with its environment and flags (`Config`). A number is its place among the limits the
code knows, because both layers only compare. `applyEnv` runs for every command, so an environment it
cannot parse also stops `mesh-node kill`; `Action` runs for those that start a node or an interface. Two more facts can be read off: the environment's
own limit for HELLO_INTERVAL (`MaxInt`) is wider than the flag's, which has the last word; and port 0 passes the first layer
only.

An interface list, and the text of one, is a number: 2k is k names, 2k + 1 is k names and at least one empty part, 0 is the empty text.
`splitInterfaces` drops empty parts and is asked only when the text is not empty, while `applyEnv` keeps them: so with INTERFACE="," and `--interface ""`
the check for an empty list is skipped (`main.go:127`) and the node keeps `["", ""]` from `config.go:112`. It gets as far as its PID file; `NewSocket` then
finds no interface of that name and it gives up (`OpenSocket`). `SettingsInRange` therefore claims names only of a node whose sockets are open.

Left out: `os.WriteFile` succeeds, and all process ids are written with equally many digits (of two daemons writing
at once the shorter id would leave digits of the longer behind). A node that answered the probe is taken to answer `/kill` within the client's 5 s
(`client.go:48`); were it slower, the command would report a failure and the node would still stop once it handled the request. The log settings: `Action` takes LOG_LEVEL as the library read it, not as
`applyEnv` cleaned it, and the error for an empty INTERFACE cannot occur since `strings.Split` returns at least one part.

## 3. Checks

The runs have 5 minutes each; all together they take about 20. A budget (`Limit`) says how
often each event of the environment happens; `MaxQueue` bounds a pending queue (the code has no
bound) and is never reached. `SeqSpace` and `HopSpace` are 64 and 16 where they should not matter; in `ring_faults` and `line_expiry`
they are 3 or 4, and a datagram that circles, a table entry and a node's counter wrap.

| Run | Properties | What it shows | Bounds |
|---|---|---|---|
| `square_fair` | `NothingLost`, `Delivered` | Four gateways in a ring, two disjoint paths of equal length and messages both ways, before and after the first round of HELLOs: whichever way requests and replies take, the mesh implements Delivery - every message arrives, and once. | 4 gateways, 4 LANs, TTL 4, a message each way, no faults, both starts; 49 000 states |
| `ring_faults` | `FreshnessOrder`, `LoopFree`, `NoBlackHole` | Overlapping route discoveries on a ring with a host behind it, with a route expiry and a silent neighbour (collector and RERR) at any moment, replies that circle until their hop count wraps and a sequence counter that wraps: the freshness order holds for every destination no node has forgotten, its routes have no loops and nothing sent along them meets a node without a route. | 4 nodes, 4 LANs, TTL 2, two searches, a message, an expiry and a silence in five starts; `SeqSpace` 4 and `HopSpace` 3, so both wrap; 476 000 states |
| `ring_flood` | `NewestRequestHeard`, `FloodsOnce`, `SearchWithinTTL` | TTL 2 on the ring, with a message, a search and a search for a node that is down under way together: a request crosses each node once, travels no further than TTL hops, and the newest request of a node is never mistaken for a duplicate. | 3 gateways and an absent node, TTL 2, one message, two searches; 387 000 states |
| `line_unreliable` | `TypeOK`, `SeqsIssued`, `AtMostOneCopy`, `DeliversOnce`, `MessageKept` | One of each fault at any moment of a discovery - a datagram lost, one duplicated, a HELLO, a route expiry, a silent neighbour, a restart: the state keeps its type, no node holds a sequence number its owner did not issue; unless a datagram is duplicated a message is never in two places, and until one is duplicated or a node restarts, what arrives was asked for and has not arrived before; no step of the mesh itself loses a message, unless its time to live is up or a route to its destination was forgotten. | 3 nodes, 2 LANs, TTL 3, one message, one of each fault; 756 000 states |
| `line_expiry` | `AtMostOneCopy`, `BrokenRouteForgotten`, `WireFaithful` | One route expires at any moment of two sends, with counters small enough for a loop to wrap them: the queue flushes each message once, a node whose message reaches a next hop without a route gets an RERR and drops its own route, and every message on the way survives its encoding, with payloads of no, one and three octets and the fields the mesh leaves out all zero or all different. | 3 nodes, 2 LANs, TTL 3, two messages, one expiry; `SeqSpace` and `HopSpace` 4; 6 700 states; payloads of 0, 1 and 3 octets, two contents of the other fields, datagrams cut at every length |
| `threads` | `ThreadsTypeOK`, `QueueIsServed`, `SentOnce` | The goroutines of one node - two HTTP handlers, the message loop, the listeners, the collector - in every order, with routes that expire, neighbours that fall silent and packets that arrive in between: each message is sent exactly once, and the queue never waits without a search or a reply under way. | 2 users, 1 neighbour, a channel of 2, 5 units of events; 199 000 states |
| `tui` | `TuiTypeOK`, `NoGap`, `KeysFollowFocus`, `PanelsFit`, `WidgetsFit`, `ColumnsFit`, `LineShown`, `TailResumes`, `TablesFollow`, `DraftKept`, `LayoutForgets` | The interface beside a node that logs, restarts and answers late: with answers that overtake each other the tail skips no line it can still get and shows each in the end; after a restart it goes on; both tables follow the node though single questions fail; under every order of keys the keyboard follows the focus and a draft survives a failed send; and at sizes on both sides of every threshold the panels fill the terminal, their contents fit, and nothing is left of an earlier size. | five starts: a log tail (buffer of 2 lines, 2 questions under way, 4 lines, a timeout, a restart), a user at the keyboard, the tables (2 changes, a failing question), 112 sizes on either side of every threshold, 3 sizes in any order; 75 000 states |
| `daemon` | `DaemonTypeOK`, `NoStaleFile`, `OneNodeLeft`, `SomeoneServes`, `KillReachesNode`, `SettingsInRange`, `CommandsEnd`, `ChildAsAsked` | `mesh-node --daemon', `mesh-node' and `mesh-node kill' at the same time on one host, with a crash, a late answer and a failing socket at any moment: one node is left, one is there when one was asked for, kill ends it, and the PID file does not outlive it. And with each setting at each limit, in the environment or under any name of its flag, empty texts and lists of empty names included: the node an interface starts has the settings its user gave, none is out of range, and none runs on an interface without a name. | 4 processes: a daemon, an interface and the daemon it starts, a kill; one crash, late answer and socket failure; beside it one interface with one setting at each limit, in the environment and as a flag under each of its names, interface texts of no, one or two names with and without an empty part; 533 000 states |

Bounds. Three nodes on a line of two LANs (the repository's docker-compose set-up) are the smallest
mesh with a relay; a ring of three gateways is the smallest with a direct and an indirect
path between every pair, so the smallest in which routes can be replaced and loops can close; the
square has two disjoint paths of equal length. Two or three overlapping discoveries are needed for
requests to overtake each other and for entries to meet older ones. The stub behind the ring of `ring_faults` is the host whose reply can be
caught in a loop of the ring. One fault of each kind is
enough to reach every branch of the handlers; the mutants show that each
property is broken in these bounds when a handler is changed.

`WarmInit` starts after a first round of HELLOs, a state the program reaches; `square_fair` also
starts cold. Deadlock is not checked in these runs: a mesh in which no user asks for anything
and nothing is in flight has no step.

The other runs. `threads`: two handlers are enough for two sends to meet between each other's calls, a channel of 2
for a listener that waits, one neighbour for the collector. `tui`: a buffer of 2 overflows with 3 lines and two questions
overtake each other; the tail, the keyboard, the tables and the window are separate initial states, because they share no variable but the mode that
decides about digit keys. The sizes are those on either side of every comparison in `updateSizes`, `pickMode` and `layoutCompact`, and any three
kinds of layout after another, so that each is entered from each. `daemon`: the two ways to start a node at once, so that two nodes meet at the file and at the port,
and a kill beside them; settings are enumerated one at a time, since no check looks at two. Deadlock is not checked in these either:
users and processes may be done.

Fairness. `ProcessMessages(n)` and `CollectNeighbours(n)` are weakly fair: the message loop and the collector
are goroutines that run until the daemon stops, and the loop takes whatever is in its channel. Nothing
is assumed of users, of faults or of the order in which datagrams are handled. The network delivers
what it does not lose. In `threads` every goroutine and the delivery are weakly fair; in `tui` the two timers, the node's
answer and the event loop; in `daemon` each process (the operating system runs it).

Two more observations on the mesh have no run of their own: an intermediate node with a route never answers a
request (only the destination replies), and a request overtaken by a later one of the same origin is declined as a
duplicate though it was not handled. In `NodeThreads` two messages can leave with the same `SeqNum`
(`SendData` adds and loads in two operations); nothing reads it.

### Disagreements with the documentation

Runs with `expect: violation` check a sentence of the documentation against the model:

| Run | Property | Where | What |
|---|---|---|---|
| `loops` | `NeverALoop` | `internal/socket/conn.go:308` | handleRREP forwards a reply although UpdateRoute has just refused it as stale; when the requester has lost its entry it installs the stale route back through the relay, whose own route leads to the requester. docs/README.md:146 says "Sequence numbers and hop counts prevent loops and ensure that fresher or shorter paths replace older ones." |
| `stranded_queue` | `QueueDrains` | `internal/socket/conn.go:388` | Nothing removes a message from pendingMsgs but a reply from its destination; if the request or the reply is lost there is no retry and no expiry. docs/README.md:128 documents LIFETIME as "Route and cached-message lifetime (seconds)". |
| `dead_hop` | `DeadHopForgotten` | `internal/socket/conn.go:845` | A route learnt from a neighbour that was unknown at the time has the target as NextHopID, so the collector that declares the neighbour dead does not match it and keeps the route. docs/README.md:142 says "When a neighbour dies, any routes that used it as next hop are deleted". |
| `thread_race` | `ThreadSafe` | `internal/socket/conn.go:859` | The collector ranges over route.Precursors of an entry of RoutesTable.Snapshot(), which is a shallow clone and shares the map with the table; AddPrecursor writes to that map (routes.go:223) from the message loop. routing/routes.go:17 says "Table is a generic type for creating thread-safe NeighboursTable and RoutesTable"; the Go runtime stops a process it catches at a concurrent iteration and write. |

## 4. Proofs

For every set of nodes, topology, TTL, counter width, budget and traffic (`MeshAssumption`), every set of payload lengths and of contents of the other fields
(`WireAssumption`), and inside a node
for every set of users and neighbours, channel capacity and number of events (`ThreadsAssumption`); on a host for every set of
process ids, environment, command line and number of commands and mishaps (`DaemonAssumption`); in the interface for every
size of the log buffer, number of overlapping questions and scenario (`BufferAssumption`, `TuiAssumption`):

| Theorem | Module | Property | What it establishes |
|---|---|---|---|
| `TypeInvariant` | `MeshProofs` | `TypeOK` | For every topology, traffic, budget and counter width: tables stay tables, queues stay within their bound, only well-formed datagrams travel and only node ids are registered as precursors. |
| `FreshnessOrderHolds` | `OrderProofs` | `FreshnessOrder` | In every mesh and under every loss, duplication, reordering, expiry, silence and restart, each route to a destination nobody has forgotten leads to a strictly fresher one, and no request or reply in flight is fresher than the route of the node that sent it. |
| `NoBlackHoleHolds` | `OrderProofs` | `NoBlackHole` | No reply and no message arrives at a node without a route to its target, unless some node has forgotten one. |
| `LoopFreeHolds` | `OrderProofs` | `LoopFree` | The routes to a destination nobody has forgotten never contain a loop, for any number of nodes: the freshness order is well-founded. |
| `SeqsIssuedHolds` | `SeqProofs` | `SeqsIssued` | No table, datagram or list of seen requests holds a sequence number its owner has not handed out, unless the owner's counter wrapped or was reset. |
| `ThreadsTypeInvariant` | `ThreadProofs` | `ThreadsTypeOK` | For any number of users, neighbours and events: queues, counters and locals of the goroutines keep their types, and the channel its capacity. |
| `QueueIsServedHolds` | `ThreadProofs` | `QueueIsServed` | In every interleaving of the goroutines a queued message has a search or a reply under way that will take it out, provided the mesh loses none. |
| `OutboxImplemented` | `ThreadProofs` |  | The goroutines of a node implement the safety part of Outbox: a message accepted is in exactly one place and is sent at most once. |
| `DaemonTypeInvariant` | `DaemonProofs` | `DaemonTypeOK` | For any number of processes, commands and mishaps: the file, the port and the places of the processes keep their types; only a daemon about to write has the file open, only one that serves or stops has the port. |
| `SettingsInRangeHolds` | `DaemonProofs` | `SettingsInRange` | For every environment and every combination of flags, empty texts included: no node and no interface runs with a number out of range or with an empty list of interfaces, and a node that has opened its sockets has a name for each of its interfaces. The configurations TLC tries set one setting at a time. |
| `ChildAsAskedHolds` | `DaemonProofs` | `ChildAsAsked` | The node that an interface starts is not refused, is a daemon and has every setting of the interface, for every environment and every combination of flags and their short names. |
| `FloodsOnceHolds` | `SeqProofs` | `FloodsOnce` | A node never relays a search it has accepted before, for every topology and whatever is lost, doubled, reordered or restarted. |
| `NewestRequestHeardHolds` | `SeqProofs` | `NewestRequestHeard` | Whoever would decline the newest request of an unspoiled node as a duplicate has accepted that very search: ids are handed out once and nobody has seen a higher one. |
| `SearchWithinTTLHolds` | `SeqProofs` | `SearchWithinTTL` | Hops and time to live of a request always add up to TTL, so no search goes further. |
| `AtMostOneCopyHolds` | `CopyProofs` | `AtMostOneCopy` | For every topology, traffic and budget: as long as nothing is duplicated a message is queued, in flight or in the inbox, and never in two of these places or twice in one. |
| `DeliversOnceHolds` | `CopyProofs` | `DeliversOnce` | As long as nothing is duplicated and nobody restarts, each step of the mesh is a step of Delivery or changes nothing there: what arrives was asked for, where it arrives, and has not arrived before, whatever is lost, reordered or expires. |
| `MessageKeptHolds` | `CopyProofs` | `MessageKept` | A step that takes a message out of the mesh is a loss or a restart, ends its time to live, or meets a route that some node has forgotten: whatever is sent to a next hop leads on there, and the queue is flushed whole, over every topology. |
| `NoStaleFileHolds` | `DaemonProofs` | `NoStaleFile` | For any number of processes and commands: once every process has ended and no node has been killed from outside, the PID file is gone. |
| `OneNodeLeftHolds` | `DaemonProofs` | `OneNodeLeft` | However many nodes are started on a host, by whatever commands, at most one of them is left when every command has done what it does. |
| `SomeoneServesHolds` | `DaemonProofs` | `SomeoneServes` | If a node was started and nothing has disturbed it or the others since, a node listens on the port when every command has done what it does: they do not all give way to each other. |
| `KillReachesNodeHolds` | `DaemonProofs` | `KillReachesNode` | The node that `mesh-node kill` was after, with the PID file in order when it probed, has ended when every command has done what it does, however the two ways to end it and the other commands interleave. |
| `NoGapHolds` | `TuiProofs` | `NoGap` | Until the node is restarted the log tail skips no line that the buffer still has, whatever the order of the answers, for every buffer size and every number of overlapping questions. |
| `KeysFollowFocusHolds` | `TuiProofs` | `KeysFollowFocus` | No widget but the section drawn as focused ever gets the keyboard. |
| `DraftKeptHolds` | `TuiProofs` | `DraftKept` | Every step that empties the payload field is the user's own key in it or one in which the node took the message. |
| `WireFaithfulHolds` | `MeshProofs` | `WireFaithful` | For every mesh, every payload length and every content of the fields that the mesh leaves out: a handler gets exactly the fields that the sender of a datagram put into it, because no two fields of a message overlap and readers and writers place them alike. |
| `TuiTypeCorrect` | `TuiProofs` | `TuiTypeOK` | The state of the interface keeps its types for every size of the log buffer, every scenario and every sequence of window sizes; all sizes the layout assigns are numbers, none negative, in every layout. |
| `PanelsFitHolds` | `TuiProofs` | `PanelsFit` | The panels drawn fill a terminal of any size exactly, in each of the layouts, above the size below which the program only asks for a larger window. |
| `WidgetsFitHolds` | `TuiProofs` | `WidgetsFit` | What is drawn in a panel is never higher or wider than the panel, for every size of the terminal and in each of the layouts. |
| `ColumnsFitHolds` | `TuiProofs` | `ColumnsFit` | In every drawn layout the columns of both tables fit into the width the layout leaves them, padding included, each between its least and its most width, and the id is never dropped. |
| `LayoutForgetsHolds` | `TuiProofs` | `LayoutForgets` | What a terminal shows depends on its size alone, whatever sizes it had before: no flag or length of an earlier layout survives. |

*Type invariant.* `TypeOK` is inductive. `MeshProofs` has a lemma per handler; its first
lemmas say that the table operations keep tables tables.

*Order.* `DownstreamFresher` alone is not inductive: who installs a route from a request or
reply relies on what the datagram's sender holds when it *arrives*, not when it was sent. The strengthening
`FreshnessOrder` adds that each RREQ and RREP in flight is covered by an entry at its sender at
least as fresh (`Covered`), and that hop counts at their limit have spoiled their subject.
The inductive invariant `FreshInv` is `TypeOK`, `FreshnessOrder` and `NoBlackHole` together. Every
action is an `OrderedStep`: entries of unspoiled destinations stay or are replaced by fresher ones, a
new entry is supported by its next hop, and what is sent is sound. One lemma shows that an
ordered step preserves the invariant, one lemma per action that it is one.

*No loops.* In a loop every node's next hop has a strictly fresher entry. The order on
(sequence number, hops) is well-founded: the sets of fresher pairs in the finite `Seqs \X Byte` shrink
strictly. So no set of nodes can pass messages for an unspoiled destination around.

*Sequence numbers.* `SeqsIssued` is preserved because a number enters the mesh only from the counter of its
owner; the proof uses `MaxQueue < SeqSpace`, so that a step that wraps the counter is seen to.

*Floods.* `FloodInv` adds to `SeqsIssued` what nodes remember of searches: nobody has accepted an id later than the last it has seen
(`Remembered`), the last id seen is one accepted (`LastAccepted`), and an id of an unspoiled node stands for one search (`OneTarget`), because
each number the counter takes makes one request. A node that would decline the newest request has seen its id or a higher one; a higher one was
not issued, so it has accepted that id, and with it that search. This uses that the counter counts (`SeqSpace > 1`).

*Goroutines.* `ThreadInv` strengthens `QueueIsServed` with `NumbersGiven` (no request carries a number beyond the
counter, so the next search is newer than everything its target has heard) and `LoopHolds` (what the
message loop has in its locals). A step that neither queues a message nor ends a search or a reply keeps
`QueueIsServed` by the lemma `StillServed`; the others put a new search or reply in the place of the old.

*Outbox.* `Placed` says where a message can be: in the hands of its goroutine, in the queue, or in what the loop took out of the
queue, never in two of them and never again once sent. The exception is the first message of `flush` while
the loop, having found no route after all, has queued it again and not yet gone on. With `Placed`, `AcceptMessage`, `SendDATA` and `MapFault` are
`Accept`, `Send` and `Die` of `Outbox` and every other step is a stutter. The fairness part of `Outbox` is left to TLC (`SentOnce`).

*Host.* `SettingsInRange` says nothing of what an interface hands to its child, and `ChildAsAsked` needs to know that the parent
was accepted: `TuiAsGiven` adds that an interface runs with what shell and environment gave and that both layers took each `Value`,
the text the library returned; the list in force may be another, of `applyEnv` (`Conf`). `ParsedArgs` shows that
what `parseArgs` writes reads back as what was given, `ChildAccepted` that the child is not refused. The steps of `Daemon` are either
`Calm` (they begin no command, so no setting changes and nobody comes to life) or begin one (`Run`, `Spawn`). That a node with open sockets has a name for
each interface is kept because every calm step is `Admitted`: only `OpenSocket` leads into `Opened`, and it refuses a list with an empty name. `DaemonTypeOK` carries the
two facts about the shared things, who may have the file open and who the port.

*Copies.* `AtMostOneCopy` counts, and counting does not combine well with steps that move a message. `CopyInv` says instead, for each
message, that the places in its sender's queue, the datagrams and the places in the inbox that hold it are at most one of each kind
(`Single`), that at most one kind is inhabited, and that a message nobody has asked for is nowhere (`Placed`): users send a payload to
a destination once. The budget comes in (`WithinLimit`) because the claim stops at the first duplication, which the budget remembers.
Handlers are sorted by what they do to messages: most touch none, `SendData` puts one in, `FinishRREP` empties a queue into datagrams,
`RelayDATA` and `DeliverDATA` take a datagram away. `DeliversOnceHolds` follows: with `Placed`, only the handler that files a message changes what `Delivery`
sees, and before it the message was in flight, so it had been asked for and was not in the inbox. Its fairness part is left to TLC (`Delivered`).

*Kept.* `MessageKept` is the converse of `DeliversOnce`: what was taken does not disappear. A handler that takes a message out of a queue or off
the network must put it down elsewhere, and two things could go wrong. It may have no route: `NoBlackHole` excludes that at a relay as long as nobody forgot one. Or what
it sends may go nowhere, because the address in its table is not reachable over the interface noted with it: `LinkInv` says that every address a node notes, of a neighbour or of a next hop,
shares a link with it, since addresses are only ever taken from datagrams that came over that link. The invariant is `FreshInv /\ LinkInv`. That a relay drops a message at the end
of its time to live remains; under `Lose` and `Restart` the property claims nothing.

*What commands leave behind.* The promises about a host speak of the moment when all commands are done; the invariants say who still
owes what until then. `HostInv` places each command on its own path, gives the port to the node that serves and says that the file
and what was read from it name only nodes that have written it. `FileInv`: as long as nothing crashed, a file that exists is about to be
removed or rewritten, or names a node that lives and will remove it (`Removed`). `OwedInv`: while a node is owed
nobody has the port and some daemon is on its way to it (`Coming`). `TargetInv`: a node that a kill is after has ended or is ending, or everyone who reads the file
finds it there until the kill signals it (`Chased`, `Tracked`). `OneNodeLeft` needs only `HostInv`: who serves has the port, and there is one port.
First each step is put into a normal form that names the process that moves, its place before and after, and which shared
things change; the four invariants are then preserved form by form.

*Log tail.* `NoGap` relates what is shown to `lastLogID` alone. The invariant `TailInv` adds what the questions and answers under
way promise: up to the number a question starts from every line is shown or overwritten, and up to the last line of an answer
each is shown, overwritten or part of the answer (`FirstLife`). That is kept whatever order the answers come in, because lines are only
appended and numbers only grow. Two lemmas about the buffer carry it: `Add` keeps it a window without a gap (`IsWindow`), and `Since`
returns exactly the newer end of that window. For the second, `Since` is written with `Picked`, the elements at a set of indices: nothing is
known to the prover about `SelectSeq`. Once the node restarts its numbers begin anew and `NoGap` promises nothing; `TailResumes` does, in the run.

*Keys.* `KeysFollowFocus` is inductive once the focus is known to be one of the sections; `DraftKept` needs only the type of the draft.

*Encoding.* `WireFaithful` is no matter of the mesh's steps: with `TypeOK` it follows from a lemma that holds for every
message, every payload length and every content of the fields the mesh leaves out (`MessageFaithful`). `FieldsApart` says that no two fields of a table share an octet and all lie within the message's size, so that `PutFields`, which asks at each
octet for the field that covers it, finds one (`TablesApart` for the ten tables). What is read at a field's place is then what was written
there, header, body and payload one behind the other.

*Layout.* Each layout's loops are solved: `GrowLinear` says where a loop ends whose sizes share the rows with what is already
placed, `GrowTablesFills` that the two tables take every row that is left (the loop's function is shown to be the one in closed form, since a
recursive definition says nothing before one knows that such a function exists; then the least size at which it would differ is contradicted).
`LayoutWideIs`, `LayoutSplitIs`, `LayoutStackIs` and `LayoutCompactIs` give the values of all fields afterwards; `Framed` is what
the first three have in common. From the values follow that the panels add up to the terminal (`Filling`), that each holds what is
drawn in it (`Inside`), and that every table has room for the id column with its padding (`Ruled`). The
interface's invariant is `WindowInv`: the layout is typed, its mode is the one of its size, and when it is drawn it is `Fitted`. `LayoutForgets` compares two
computations: two models that agree on what `updateSizes` sets first agree on everything the layouts then assign (`Agree`), and together these
assign every field. A terminal that is too small to be drawn keeps what it had, so the property excludes it.

*Columns.* A table has at most six columns, so its sums are finite ones (`TotalOfSix`, from the least set for which the library's fold would differ from the sum).
With 6 columns of screen, which each drawn layout has, the columns kept cost no more than there is (`KeptIs`); then the widths start within the
budget, the full rounds stay within it by the choice of their number, and the columns that gain a last unit are no more than the units left (`FirstFew`).

*Types of the interface.* `TuiTypeOK` needs the layout's part from `WindowInv`, the log's and the tail's from `TailTypeOK`, and for the lines the node
writes `LifeInv`: a line is tagged with the node's life, every restart of the budget begins a new one, and all lives that can still begin are tags that
`Line` holds.

Left to TLC:

* liveness (`Delivered`, `BrokenRouteForgotten`, `CommandsEnd`, `LineShown`, `TailResumes`, `TablesFollow`, the fairness part of `Outbox`), which needs
  temporal reasoning with fairness;
* `NothingLost`: it is a claim about the mesh of its run (no fault, a time to live that reaches everyone, no counter that wraps) and false for
  other values of the constants; `MessageKept` is the part of it that holds for all of them.

## 5. Plan

Order so far: the mesh first (its routes are what the program is for), then the inside of a node, the interface with
its log tail, the host's processes, the encoding; then the configuration, the layout, wrapping counters and the specification of
delivery. Next:

1. Proofs: `NothingLost` under a bound on the time to live. A route may be replaced by a fresher and longer one while a message is under way, so the
   number of LANs between two nodes is not such a bound; one would have to follow a message along the freshness order.
2. A restarted node until its counter has passed its old number: its searches are declined as old; no sentence of the documentation promises otherwise.

Not modelled and not planned: the look of TUI and CLI (colours, cell texts, wrapping of log lines, scrolling), the lines the interface puts into its own log,
the library's parsing of a command line, `String()` methods, HTTP and JSON plumbing: they hold no state the properties could speak of. The tail's list of lines grows without bound (`tui.go:194`); no
property says more than that line does.
