------------------------------- MODULE Daemon -------------------------------
(***************************************************************************)
(* The processes of one host: background nodes (mesh-node --daemon),        *)
(* terminal interfaces that start one when they find none, and              *)
(* `mesh-node kill'.  They share a PID file and the IPC port, and all are   *)
(* given from one shell, with its environment.                              *)
(*                                                                          *)
(* A step is one system call or one request on the port.  A process runs    *)
(* one command and ends; its id is not used again.  Waiting times are not   *)
(* modelled, but a probe of the port that takes too long is (Slow).         *)
(***************************************************************************)
EXTENDS Config, FiniteSets

CONSTANTS
  Pid,      \* process ids
  NoPid,
  Absent,   \* there is no PID file
  Garbage,  \* it holds no number
  Shells    \* how often commands are given and mishaps happen, the
            \* environment, and the flags a command is given: one is chosen

Mishaps == {"crash", "slow", "socket"}
Commands == {"daemon", "tui", "kill"}
NoConf == [n \in Settings |-> Unset]

ASSUME DaemonAssumption ==
  /\ Pid \subseteq Nat /\ NoPid \notin Pid /\ {Absent, Garbage} \cap Pid = {} /\ Absent # Garbage
  /\ \A s \in Shells : /\ s.events \in [Mishaps \cup Commands -> Nat]
                       /\ s.env \in [Settings -> Int] /\ s.args \in [Spelled -> Int]

VARIABLES
  pc,     \* what each process does next
  role,   \* the command it runs
  file,   \* the content of mesh-node.pid
  holds,  \* has the named file open for writing
  read,   \* what readPIDFile returned to it
  port,   \* the process that listens on the IPC port
  child,  \* the daemon a terminal interface has started, until it ends
  shell,  \* the chosen one
  conf,   \* the settings a process runs with
  left    \* what is left of the events

settings == <<shell, conf>>
shared == <<file, holds, port>>
vars == <<pc, role, file, holds, read, port, child, settings, left>>

Alive(p) == p \in Pid /\ pc[p] \notin {"unused", "dead"}
At(p, r, l) == pc[p] = l /\ role[p] = r
Go(p, l) == pc' = [pc EXCEPT ![p] = l]
Spend(e) == left[e] > 0 /\ left' = [left EXCEPT ![e] = @ - 1]

Init ==
  /\ pc = [p \in Pid |-> "unused"]
  /\ role = [p \in Pid |-> "none"]
  /\ file = Absent /\ holds = {}
  /\ read = [p \in Pid |-> Absent]
  /\ port = NoPid
  /\ child = [p \in Pid |-> NoPid]
  /\ shell \in Shells
  /\ conf = [p \in Pid |-> NoConf]
  /\ left = shell.events

(* The end of the processes in S: the kernel closes what they hold, and who *)
(* waits for a child learns of it.                                          *)
Gone(S) ==
  /\ pc' = [p \in Pid |-> IF p \in S THEN "dead" ELSE pc[p]]
  /\ port' = IF port \in S THEN NoPid ELSE port
  /\ child' = [t \in Pid |-> IF child[t] \in S THEN NoPid ELSE child[t]]
  /\ read' = [p \in Pid |-> IF p \in S THEN Absent ELSE read[p]]

End(S) == Gone(S) /\ holds' = holds \ S

(* The kernel hands out the ids in order. *)
Fresh(p) == pc[p] = "unused" /\ \A q \in Pid : pc[q] = "unused" => p <= q

(* main, up to the command.  A setting of the environment that cannot be    *)
(* read ends every command; a value out of range ends those that run a node *)
(* or an interface.                                                         *)
Refused(r, args) ==
  applyEnvFails(shell.env) \/ (r # "kill" /\ ActionFails(shell.env, args))

(* Process p runs command r, unless the settings say otherwise. *)
Role(r, args) ==
  IF r = "kill" THEN "kill"
  ELSE IF Conf(shell.env, args)["daemon"] = 1 THEN "daemon" ELSE "tui"

(* The settings are read before anything is done that others could see.     *)
Start(p, r, args) ==
  /\ role' = [role EXCEPT ![p] = Role(r, args)]
  /\ conf' = [conf EXCEPT ![p] = IF Refused(r, args) \/ r = "kill" THEN NoConf
                                ELSE Conf(shell.env, args)]
Begin(r, args) == IF Refused(r, args) THEN "dead" ELSE "probe"

(* A command is given. *)
Run(p, r) ==
  LET args == IF r = "daemon"
              THEN [shell.args EXCEPT !["daemon"] = 1, !["server"] = Unset, !["d"] = Unset]
              ELSE shell.args
  IN  /\ Fresh(p) /\ Spend(r)
      /\ Go(p, Begin(r, args)) /\ Start(p, r, args)
      /\ UNCHANGED <<shared, read, child, shell>>

-----------------------------------------------------------------------------
(* ipc.IsNodeRunning: a listener that does not answer within 500 ms counts  *)
(* as none.                                                                 *)
Answers == port # NoPid /\ UNCHANGED left
Silent == \/ port = NoPid /\ UNCHANGED left
          \/ port # NoPid /\ Spend("slow")

(* readPIDFile. *)
ReadPIDFile(p, l) ==
  /\ read' = [read EXCEPT ![p] = file]
  /\ Go(p, l)
  /\ UNCHANGED <<role, settings, shared, child, left>>

(* os.Remove: who has the file open goes on writing to a nameless one. *)
Remove == file' = Absent /\ holds' = {}

-----------------------------------------------------------------------------
(* runDaemon. *)
DaemonProbe(p) ==
  /\ At(p, "daemon", "probe")
  /\ \/ Silent /\ Go(p, "look") /\ UNCHANGED <<shared, read, child>>
     \/ Answers /\ End({p}) /\ UNCHANGED file
  /\ UNCHANGED <<role, settings>>

DaemonLook(p) == At(p, "daemon", "look") /\ ReadPIDFile(p, "judge")

(* Mutant: any PID in the file keeps the daemon from starting. *)
DaemonJudge_Exists(p) ==
  /\ At(p, "daemon", "judge")
  /\ IF read[p] \in Pid
     THEN End({p}) /\ UNCHANGED file
     ELSE Go(p, "open") /\ UNCHANGED <<shared, read, child>>
  /\ UNCHANGED <<role, settings, left>>

(* Mutant: it waits for the other to end. *)
DaemonJudge_Waits(p) ==
  /\ At(p, "daemon", "judge")
  /\ Go(p, IF read[p] # p /\ Alive(read[p]) THEN "look" ELSE "open")
  /\ UNCHANGED <<shared, read, child, role, settings, left>>

(* writePIDFile gives way to another mesh-node that is alive. *)
DaemonJudge(p) ==
  /\ At(p, "daemon", "judge")
  /\ IF read[p] # p /\ Alive(read[p])
     THEN End({p}) /\ UNCHANGED file
     ELSE Go(p, "open") /\ UNCHANGED <<shared, read, child>>
  /\ UNCHANGED <<role, settings, left>>

(* os.WriteFile: open and truncate, then write. *)
TruncatePIDFile(p) ==
  /\ At(p, "daemon", "open")
  /\ file' = Garbage /\ holds' = holds \cup {p}
  /\ Go(p, "write")
  /\ UNCHANGED <<role, settings, read, port, child, left>>

WritePIDFile(p) ==
  /\ At(p, "daemon", "write")
  /\ file' = IF p \in holds THEN p ELSE file
  /\ holds' = holds \ {p}
  /\ Go(p, "socket")
  /\ UNCHANGED <<role, settings, read, port, child, left>>

(* NewSocket may fail, and does when an interface has no name (conn.go:81). *)
(* Otherwise the loops of the node start.                                   *)
OpenSocket(p) ==
  LET unnamed == HasUnnamed(conf[p]["interface"])
  IN  /\ At(p, "daemon", "socket")
      /\ \/ ~unnamed /\ Go(p, "bind") /\ UNCHANGED left
         \/ ~unnamed /\ Go(p, "cleanup") /\ Spend("socket")
         \/ unnamed /\ Go(p, "cleanup") /\ UNCHANGED left
      /\ UNCHANGED <<role, settings, shared, read, child>>

(* Mutant: a daemon that cannot listen goes on without the port. *)
BindPort_Lingers(p) ==
  /\ At(p, "daemon", "bind")
  /\ port' = IF port = NoPid THEN p ELSE port
  /\ Go(p, "serve")
  /\ UNCHANGED <<role, settings, file, holds, read, child, left>>

(* StartIPCServer: the port, or the end. *)
BindPort(p) ==
  /\ At(p, "daemon", "bind")
  /\ IF port = NoPid
     THEN port' = p /\ Go(p, "serve")
     ELSE UNCHANGED port /\ Go(p, "cleanup")
  /\ UNCHANGED <<role, settings, file, holds, read, child, left>>

(* Mutant: the process ends and its listener stays. *)
Shutdown_KeepsPort(p) ==
  /\ At(p, "daemon", "stop")
  /\ Go(p, "cleanup")
  /\ UNCHANGED <<role, settings, file, holds, read, port, child, left>>

(* 200 ms after /kill, server.Shutdown closes the port and runDaemon returns.*)
Shutdown(p) ==
  /\ At(p, "daemon", "stop")
  /\ port' = NoPid /\ Go(p, "cleanup")
  /\ UNCHANGED <<role, settings, file, holds, read, child, left>>

(* removePIDFile, deferred: read, compare, remove. *)
CleanupRead(p) == At(p, "daemon", "cleanup") /\ ReadPIDFile(p, "compare")

(* Mutant: the file stays. *)
CleanupRemove_Keep(p) ==
  /\ At(p, "daemon", "compare") /\ End({p}) /\ UNCHANGED <<file, role, settings, left>>

CleanupRemove(p) ==
  /\ At(p, "daemon", "compare")
  /\ Gone({p})
  /\ IF read[p] = p THEN Remove ELSE UNCHANGED <<file, holds>>
  /\ UNCHANGED <<role, settings, left>>

DaemonStep(p) ==
  \/ DaemonProbe(p) \/ DaemonLook(p) \/ DaemonJudge(p) \/ TruncatePIDFile(p)
  \/ WritePIDFile(p) \/ OpenSocket(p) \/ BindPort(p) \/ Shutdown(p)
  \/ CleanupRead(p) \/ CleanupRemove(p)

-----------------------------------------------------------------------------
(* runTUI. *)
TuiProbe(p) ==
  /\ At(p, "tui", "probe")
  /\ \/ Silent /\ Go(p, "spawn")
     \/ Answers /\ Go(p, "client")
  /\ UNCHANGED <<role, settings, shared, read, child>>

(* startBackgroundDaemon runs the same program, in the same environment.    *)
Spawn(p, q) ==
  LET args == parseArgs(shell.env, shell.args)
      next == Begin("daemon", args)
  IN  /\ At(p, "tui", "spawn") /\ Fresh(q)
      /\ pc' = [pc EXCEPT ![p] = "look", ![q] = next]
      /\ Start(q, "daemon", args)
      /\ child' = [child EXCEPT ![p] = IF next = "dead" THEN NoPid ELSE q]
      /\ UNCHANGED <<shared, read, shell, left>>

(* After 300 ms: give up if the child has exited.  cmd.ProcessState is      *)
(* written by another goroutine without a lock, so the exit may be missed.  *)
CheckChild(p) ==
  /\ At(p, "tui", "look")
  /\ \/ child[p] = NoPid /\ End({p}) /\ UNCHANGED file
     \/ Go(p, "poll") /\ UNCHANGED <<shared, read, child>>
  /\ UNCHANGED <<role, settings, left>>

(* Every 150 ms, for 8 s: a probe that fails is the last one or it is not. *)
Poll(p) ==
  /\ At(p, "tui", "poll")
  /\ \/ Answers /\ Go(p, "client") /\ UNCHANGED <<shared, read, child>>
     \/ Silent /\ End({p}) /\ UNCHANGED file
  /\ UNCHANGED <<role, settings>>

TuiStep(p) ==
  \/ TuiProbe(p) \/ (\E q \in Pid : Spawn(p, q)) \/ CheckChild(p) \/ Poll(p)

-----------------------------------------------------------------------------
(* mesh-node kill. *)
KillProbe(p) ==
  /\ At(p, "kill", "probe")
  /\ \/ Silent /\ Go(p, "look")
     \/ Answers /\ Go(p, "post")
  /\ UNCHANGED <<role, settings, shared, read, child>>

(* Mutant: the handler answers and the node goes on. *)
PostKill_Ignored(p) ==
  /\ At(p, "kill", "post")
  /\ pc' = [pc EXCEPT ![p] = "dead"]
  /\ UNCHANGED <<role, settings, shared, read, child, left>>

(* POST /kill to whoever listens now: its handler answers, then stops it.   *)
PostKill(p) ==
  /\ At(p, "kill", "post")
  /\ pc' = [pc EXCEPT ![p] = "dead",
                      ![IF port = NoPid THEN p ELSE port] =
                        IF port = NoPid THEN "dead" ELSE "stop"]
  /\ UNCHANGED <<role, settings, shared, read, child, left>>

(* stopByPID. *)
KillLook(p) == At(p, "kill", "look") /\ ReadPIDFile(p, "judge")

KillJudge(p) ==
  /\ At(p, "kill", "judge")
  /\ Go(p, IF Alive(read[p]) THEN "signal" ELSE "remove")
  /\ UNCHANGED <<role, settings, shared, read, child, left>>

(* SIGTERM ends the process at once: no deferred call runs. *)
Signal(p) ==
  /\ At(p, "kill", "signal")
  /\ IF Alive(read[p])
     THEN /\ pc' = [pc EXCEPT ![read[p]] = "dead", ![p] = "remove"]
          /\ holds' = holds \ {read[p]}
          /\ port' = IF port = read[p] THEN NoPid ELSE port
          /\ child' = [t \in Pid |-> IF child[t] = read[p] THEN NoPid ELSE child[t]]
          /\ read' = [read EXCEPT ![read[p]] = Absent]
     ELSE End({p})
  /\ UNCHANGED <<role, settings, file, left>>

KillRemove(p) ==
  /\ At(p, "kill", "remove")
  /\ Remove
  /\ Go(p, "dead")
  /\ UNCHANGED <<role, settings, read, port, child, left>>

KillStep(p) == KillProbe(p) \/ PostKill(p) \/ KillLook(p) \/ KillJudge(p) \/ Signal(p) \/ KillRemove(p)

-----------------------------------------------------------------------------
(* A daemon is killed from outside, with no chance to clean up. *)
Crash(p) ==
  /\ role[p] = "daemon" /\ Alive(p) /\ Spend("crash")
  /\ End({p}) /\ UNCHANGED <<role, settings, file>>

(* The user closes a terminal interface. *)
Close(p) == At(p, "tui", "client") /\ End({p}) /\ UNCHANGED <<role, settings, file, left>>

Step(p) == DaemonStep(p) \/ TuiStep(p) \/ KillStep(p)

Next ==
  \E p \in Pid : Step(p) \/ (\E r \in Commands : Run(p, r)) \/ Crash(p) \/ Close(p)

Spec == Init /\ [][Next]_vars

(* The processes run. *)
FairSpec == Spec /\ \A p \in Pid : WF_vars(Step(p))
=============================================================================
