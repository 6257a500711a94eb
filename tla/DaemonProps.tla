---------------------------- MODULE DaemonProps ----------------------------
(* One node on a host: its PID file, its port and the commands around it. *)
EXTENDS Daemon

Labels == {"unused", "dead", "probe", "look", "judge", "open", "write", "socket", "bind",
           "serve", "stop", "cleanup", "compare", "spawn", "poll", "client", "post",
           "signal", "remove"}

(* The type invariant. *)
DaemonTypeOK ==
  /\ pc \in [Pid -> Labels]
  /\ role \in [Pid -> Commands \cup {"none"}]
  /\ file \in Pid \cup {Absent, Garbage}
  /\ holds \subseteq {p \in Pid : At(p, "daemon", "write")}
  /\ read \in [Pid -> Pid \cup {Absent, Garbage}]
  /\ port \in {NoPid} \cup {p \in Pid : At(p, "daemon", "serve") \/ At(p, "daemon", "stop")}
  /\ child \in [Pid -> Pid \cup {NoPid}]
  /\ conf \in [Pid -> [Settings -> Nat] \cup {NoConf}]
  /\ left \in [Mishaps \cup Commands -> Nat]

-----------------------------------------------------------------------------
(* History, read by no step. *)
VARIABLES
  target,  \* the node a kill command is after
  owed     \* a daemon was started and nothing has disturbed it since

hvars == <<vars, target, owed>>

(* Nobody is about to write or remove the PID file, which names q. *)
Steady(q) ==
  /\ file = q /\ holds = {}
  /\ \A r \in Pid \ {q} :
       role[r] = "daemon" => pc[r] \notin {"judge", "open", "write", "compare"}
  /\ \A r \in Pid : role[r] = "kill" => pc[r] \notin {"judge", "signal", "remove"}

(* No node is about to end, and nobody is about to end one. *)
Undisturbed ==
  \A q \in Pid :
    /\ role[q] = "daemon" => pc[q] \notin {"stop", "cleanup", "compare"}
    /\ role[q] = "kill" => ~Alive(q)

SocketFails == \E p \in Pid : At(p, "daemon", "socket") /\ pc'[p] = "cleanup"
Mishap == SocketFails \/ \E e \in Mishaps \cup {"kill"} : left'[e] # left[e]

History ==
  /\ target' = [p \in Pid |->
       IF At(p, "kill", "probe") /\ pc'[p] # "probe" /\ port # NoPid /\ Steady(port)
       THEN port ELSE target[p]]
  /\ owed' = (/\ ~Mishap /\ port' = NoPid
              /\ \/ owed
                 \/ Undisturbed /\ \E p \in Pid : At(p, "daemon", "probe"))

HInit == Init /\ target = [p \in Pid |-> NoPid] /\ owed = FALSE
HSpec == HInit /\ [][Next /\ History]_hvars /\ \A p \in Pid : WF_vars(Step(p))

-----------------------------------------------------------------------------
(* Every command has done what it does. *)
Quiet == \A p \in Pid : Alive(p) => pc[p] \in {"serve", "client"}

(* Commands end, whatever the others do to the file and the port. *)
CommandsEnd == []<>Quiet

(* When every command has ended and nothing crashed, the PID file is gone:  *)
(* removePIDFile, stopByPID and writePIDFile together, although each reads  *)
(* the file before it acts on it.                                           *)
NoStaleFile ==
  ((\A p \in Pid : ~Alive(p)) /\ left["crash"] = shell.events["crash"]) => file = Absent

(* Two nodes may run for a moment - their UDP sockets do not exclude each   *)
(* other - but not for long: the IPC port decides, server.go:24, "A bind    *)
(* failure is returned so the daemon process exits".                        *)
OneNodeLeft == Quiet => Cardinality({p \in Pid : role[p] = "daemon" /\ Alive(p)}) <= 1

(* However many daemons are started together, one of them serves, with a    *)
(* stale PID file or without: they do not all give way to each other        *)
(* (IsNodeRunning, writePIDFile and the bind in StartIPCServer).            *)
SomeoneServes == Quiet /\ owed => port # NoPid

(* `mesh-node kill' ends the node that serves, whether that node answers in *)
(* time (/kill) or not (SIGTERM by the PID file).                           *)
KillReachesNode ==
  Quiet => \A k \in Pid : target[k] # NoPid => ~Alive(target[k])

-----------------------------------------------------------------------------
(* The node that an interface starts is a daemon, is not refused and has    *)
(* every setting its user gave, by a flag of either name or by the          *)
(* environment: parseArgs forwards the flags, the environment is inherited, *)
(* and both processes check what they are given (main.go:118, 480).         *)
ChildAsAsked ==
  [][\A t, q \in Pid :
       (At(t, "tui", "spawn") /\ pc'[t] = "look" /\ Fresh(q))
         => /\ pc'[q] = "probe" /\ role'[q] = "daemon"
            /\ conf'[q] = [conf[t] EXCEPT !["daemon"] = 1]]_vars

(* A node is there once its sockets are open. *)
Opened == {"bind", "serve", "stop"}

(* Nothing runs with a setting that the wire or the timers cannot take,     *)
(* although the environment is read with wider limits than the flags: port  *)
(* 0 (config.go:105), an interval over a day (config.go:155).  No list of   *)
(* interfaces is empty, and a node that has opened its sockets has a name   *)
(* for each of them, although an empty flag lets pass what applyEnv made of *)
(* INTERFACE="," (main.go:127, config.go:113): NewSocket refuses it.        *)
SettingsInRange ==
  \A p \in Pid : (Alive(p) /\ role[p] # "kill") =>
    /\ conf[p]["port"] \in one .. maxUint16
    /\ conf[p]["ttl"] \in one .. maxUint8
    /\ conf[p]["lifetime"] \in one .. maxUint32
    /\ conf[p]["hello-interval"] \in one .. day
    /\ conf[p]["id"] \in zero .. maxUint64
    /\ conf[p]["interface"] >= 1
    /\ (role[p] = "daemon" /\ pc[p] \in Opened) => ~HasUnnamed(conf[p]["interface"])
=============================================================================
