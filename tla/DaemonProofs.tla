---------------------------- MODULE DaemonProofs ----------------------------
(***************************************************************************)
(* For any number of processes, any environment, any command line and any   *)
(* number of commands and mishaps: the variables of Daemon keep their       *)
(* types, no node runs with a setting out of range, the node that an        *)
(* interface starts has the settings its user gave, and the commands of one *)
(* host leave at most one node, one when one was asked for, none that       *)
(* `mesh-node kill' was after, and no PID file without its node.            *)
(***************************************************************************)
EXTENDS DaemonProps, TLAPS, FiniteSetTheorems

(* A setting that both the library and Action accept. *)
InRange(n, v) == v \in FlagRange(n) \cap ActionRange(n)

(* An interface runs with what was given, and that was accepted. *)
TuiAsGiven ==
  \A p \in Pid : (Alive(p) /\ role[p] = "tui") =>
    /\ conf[p] = Conf(shell.env, shell.args)
    /\ ~applyEnvFails(shell.env)
    /\ \A n \in Settings : InRange(n, Value(shell.env, shell.args, n))

DaemonInv == DaemonTypeOK /\ SettingsInRange /\ TuiAsGiven /\ shell \in Shells

(* A step that begins no command. *)
Calm ==
  /\ UNCHANGED <<role, settings>>
  /\ \A p \in Pid : pc'[p] \notin {"unused", "dead"} => pc[p] \notin {"unused", "dead"}

-----------------------------------------------------------------------------
(* Configurations. *)

(* What splitInterfaces returns has no empty name. *)
LEMMA SplitNames ==
  ASSUME NEW text \in Nat
  PROVE  splitInterfaces(text) \in Nat /\ ~HasUnnamed(splitInterfaces(text))
BY DEF splitInterfaces, HasUnnamed

(* What a command runs with when neither layer refuses it: numbers in the   *)
(* ranges of SettingsInRange, and a list of interfaces that is not empty.   *)
LEMMA AcceptedRanges ==
  ASSUME NEW env, NEW args, ~applyEnvFails(env),
         \A n \in Settings : InRange(n, Value(env, args, n))
  PROVE  /\ \A n \in Settings : Value(env, args, n) \in Nat
         /\ Conf(env, args) \in [Settings -> Nat]
         /\ Conf(env, args)["port"] \in one .. maxUint16
         /\ Conf(env, args)["ttl"] \in one .. maxUint8
         /\ Conf(env, args)["lifetime"] \in one .. maxUint32
         /\ Conf(env, args)["hello-interval"] \in one .. day
         /\ Conf(env, args)["id"] \in zero .. maxUint64
         /\ Conf(env, args)["interface"] >= 1
<1> DEFINE V(n) == Value(env, args, n)
           C == Conf(env, args)
<1>1. \A n \in Settings : InRange(n, V(n))
  OBVIOUS
<1>2. C = [n \in Settings |-> IF n # "interface" THEN V(n)
                              ELSE IF V(n) = 0 THEN EnvInterfaces(env)
                              ELSE splitInterfaces(V(n))]
  BY DEF Conf
<1>3. EnvInterfaces(env) \in Nat \ {0}
  <2>1. env["interface"] \notin {Unset, 0} => env["interface"] \in Nat \ {0}
    BY DEF applyEnvFails, EnvRange, Settings
  <2>2. defaultConfig["interface"] = 2
    BY DEF defaultConfig, Settings
  <2> QED BY <2>1, <2>2 DEF EnvInterfaces
<1> HIDE DEF V, C
<1>4. \A n \in Settings : V(n) \in Nat
  BY <1>1 DEF InRange, FlagRange, Settings, Numbers, zero, maxUint64
<1>5. /\ "interface" \in Settings
      /\ V("interface") # 0 => splitInterfaces(V("interface")) \in Nat \ {0}
  <2>1. "interface" \in Settings
    BY DEF Settings
  <2>2. V("interface") \in ActionRange("interface")
    BY <1>1, <2>1 DEF InRange
  <2>3. V("interface") = 0 \/ splitInterfaces(V("interface")) # 0
    BY <2>2 DEF ActionRange
  <2> QED BY <1>4, <2>1, <2>3, SplitNames
<1>6. C \in [Settings -> Nat] /\ C["interface"] >= 1
  <2>1. C["interface"] \in Nat \ {0}
    BY <1>2, <1>3, <1>5
  <2>2. \A n \in Settings \ {"interface"} : C[n] \in Nat
    BY <1>2, <1>4
  <2>3. C = [n \in Settings |-> C[n]]
    BY <1>2
  <2> QED BY <2>1, <2>2, <2>3
<1>7. \A n \in Numbers : C[n] = V(n) /\ V(n) \in FlagRange(n) \cap ActionRange(n)
  BY <1>1, <1>2 DEF InRange, Settings, Numbers
<1>8. /\ C["port"] \in one .. maxUint16 /\ C["ttl"] \in one .. maxUint8
      /\ C["lifetime"] \in one .. maxUint32 /\ C["hello-interval"] \in one .. day
  BY <1>7 DEF ActionRange, Numbers
<1>9. C["id"] \in zero .. maxUint64
  BY <1>7 DEF FlagRange, Numbers
<1> QED BY <1>4, <1>6, <1>8, <1>9 DEF V, C

(* A flag under one name is what the library returns. *)
LEMMA OneName ==
  ASSUME NEW env, NEW args, NEW n \in Settings,
         \A s \in Spellings(n) \ {n} : args[s] = Unset
  PROVE  Value(env, args, n) = IF args[n] # Unset THEN args[n]
                               ELSE IF env[n] # Unset THEN env[n] ELSE defaultConfig[n]
<1>1. n \in Spellings(n)
  BY DEF Spellings, Settings, Numbers
<1>2. Given(args, n) <=> args[n] # Unset
  BY <1>1 DEF Given, cliFlagPresent
<1>3. args[n] # Unset => Flag(args, n) = args[n]
  BY <1>1 DEF Flag, cliFlagPresent
<1> QED BY <1>2, <1>3 DEF Value

(* parseArgs hands on what was given, and asks for a daemon. *)
LEMMA ParsedArgs ==
  ASSUME NEW env, NEW args, \A n \in Settings : Value(env, args, n) \in Nat, NEW n \in Settings
  PROVE  Value(env, parseArgs(env, args), n) = IF n = "daemon" THEN 1 ELSE Value(env, args, n)
<1> DEFINE passed == parseArgs(env, args)
<1>1. \A s \in Spellings(n) \ {n} : passed[s] = Unset
  BY DEF parseArgs, Spellings, Settings, Numbers, Spelled
<1>2. passed[n] = IF n = "daemon" THEN 1
                  ELSE IF Given(args, n) THEN Value(env, args, n) ELSE Unset
  BY DEF parseArgs, Spelled
<1> HIDE DEF passed
<1>3. Value(env, passed, n) = IF passed[n] # Unset THEN passed[n]
                              ELSE IF env[n] # Unset THEN env[n] ELSE defaultConfig[n]
  BY <1>1, OneName
<1>4. Unset \notin Nat /\ 1 # Unset
  BY DEF Unset
<1>5. CASE n = "daemon"
  BY <1>2, <1>3, <1>4, <1>5 DEF passed
<1>6. CASE n # "daemon" /\ Given(args, n)
  BY <1>2, <1>3, <1>4, <1>6 DEF passed
<1>7. CASE n # "daemon" /\ ~Given(args, n)
  <2>1. Value(env, args, n) = IF env[n] # Unset THEN env[n] ELSE defaultConfig[n]
    BY <1>7 DEF Value
  <2> QED BY <1>2, <1>3, <1>7, <2>1 DEF passed
<1> QED BY <1>5, <1>6, <1>7

(* What is accepted of a user is accepted of the child, and makes it a node.*)
LEMMA ChildAccepted ==
  ASSUME NEW env, NEW args, ~applyEnvFails(env),
         \A n \in Settings : InRange(n, Value(env, args, n))
  PROVE  LET passed == parseArgs(env, args)
         IN  /\ Conf(env, passed) = [Conf(env, args) EXCEPT !["daemon"] = 1]
             /\ Conf(env, passed)["daemon"] = 1
             /\ ~ActionFails(env, passed)
<1> DEFINE passed == parseArgs(env, args)
<1>1. \A n \in Settings : Value(env, passed, n) = IF n = "daemon" THEN 1 ELSE Value(env, args, n)
  BY AcceptedRanges, ParsedArgs
<1> HIDE DEF passed
<1>2. "daemon" \in Settings /\ InRange("daemon", 1)
  BY DEF Settings, Numbers, InRange, FlagRange, ActionRange
<1>3. Conf(env, passed) = [n \in Settings |-> IF n = "daemon" THEN 1 ELSE Conf(env, args)[n]]
  BY <1>1 DEF Conf
<1>4. [Conf(env, args) EXCEPT !["daemon"] = 1]
        = [n \in Settings |-> IF n = "daemon" THEN 1 ELSE Conf(env, args)[n]]
  BY DEF Conf
<1>5. \A n \in Settings : InRange(n, Value(env, passed, n))
  BY <1>1, <1>2
<1>6. ~ActionFails(env, passed)
  BY <1>5 DEF ActionFails, InRange
<1> QED BY <1>2, <1>3, <1>4, <1>6 DEF passed

-----------------------------------------------------------------------------
(* Steps that begin no command. *)

(* Who opens its sockets has a name for each of them. *)
Admitted ==
  \A p \in Pid : (role[p] = "daemon" /\ pc'[p] \in Opened) =>
    pc[p] \in Opened \/ ~HasUnnamed(conf[p]["interface"])

(* They leave the settings of who runs alone (DaemonStep, KillStep, Crash). *)
LEMMA CalmKeeps ==
  ASSUME DaemonInv, DaemonTypeOK', Calm, Admitted
  PROVE  DaemonInv'
<1> USE DEF Calm, settings, DaemonInv, Alive
<1>1. SettingsInRange'
  <2>1. \A p \in Pid : (role[p] = "daemon" /\ pc'[p] \in Opened) => ~HasUnnamed(conf[p]["interface"])
    BY DEF SettingsInRange, Admitted, Opened
  <2> QED BY <2>1 DEF SettingsInRange, Opened
<1>2. TuiAsGiven'
  BY DEF TuiAsGiven
<1> QED BY <1>1, <1>2

(* What is left of a budget is a number. *)
LEMMA SpendKeeps ==
  ASSUME left \in [Mishaps \cup Commands -> Nat], NEW e \in Mishaps \cup Commands, Spend(e)
  PROVE  left' \in [Mishaps \cup Commands -> Nat]
BY DEF Spend

(* Process p goes on to l: it may open or close the PID file, take the port *)
(* or give it up.                                                           *)
LEMMA MoveKeeps ==
  ASSUME DaemonAssumption, DaemonTypeOK, NEW p \in Pid, NEW l \in Labels,
         pc[p] \notin {"unused", "dead"}, Go(p, l), UNCHANGED <<role, settings, child>>,
         read' \in [Pid -> Pid \cup {Absent, Garbage}],
         file' \in Pid \cup {Absent, Garbage},
         left' \in [Mishaps \cup Commands -> Nat],
         holds' \subseteq holds \cup {p},
         p \in holds' => l = "write" /\ role[p] = "daemon",
         port' \in {port, NoPid, p},
         port' = p => l \in {"serve", "stop"} /\ role[p] = "daemon"
  PROVE  DaemonTypeOK' /\ Calm
<1> USE DEF DaemonTypeOK, Go, At, settings
<1>1. pc' \in [Pid -> Labels] /\ \A q \in Pid \ {p} : pc'[q] = pc[q]
  OBVIOUS
<1>2. pc'[p] = l
  OBVIOUS
<1>3. holds' \subseteq {q \in Pid : At(q, "daemon", "write")'}
  BY <1>1, <1>2
<1>4. port' \in {NoPid} \cup {q \in Pid : At(q, "daemon", "serve")' \/ At(q, "daemon", "stop")'}
  BY <1>1, <1>2
<1>5. Calm
  BY <1>1 DEF Calm
<1> QED BY <1>1, <1>3, <1>4, <1>5

(* The processes in S end. *)
LEMMA GoneKeeps ==
  ASSUME DaemonAssumption, DaemonTypeOK, NEW S \in SUBSET Pid, Gone(S),
         UNCHANGED <<role, settings>>,
         file' \in Pid \cup {Absent, Garbage}, holds' \subseteq holds \ S,
         left' \in [Mishaps \cup Commands -> Nat]
  PROVE  DaemonTypeOK' /\ Calm
<1> USE DEF DaemonTypeOK, Gone, At, settings
<1>1. pc' \in [Pid -> Labels] /\ \A q \in Pid \ S : pc'[q] = pc[q]
  BY DEF Labels
<1>2. \A q \in S : pc'[q] = "dead"
  OBVIOUS
<1>3. holds' \subseteq {q \in Pid : At(q, "daemon", "write")'}
  BY <1>1
<1>4. port' \in {NoPid} \cup {q \in Pid : At(q, "daemon", "serve")' \/ At(q, "daemon", "stop")'}
  BY <1>1
<1>5. read' \in [Pid -> Pid \cup {Absent, Garbage}] /\ child' \in [Pid -> Pid \cup {NoPid}]
  OBVIOUS
<1>6. Calm
  BY <1>1, <1>2 DEF Calm
<1> QED BY <1>1, <1>3, <1>4, <1>5, <1>6

(* A process ends and leaves the file as it is. *)
LEMMA EndKeeps ==
  ASSUME DaemonAssumption, DaemonTypeOK, NEW p \in Pid, End({p}),
         UNCHANGED <<role, settings, file>>, left' \in [Mishaps \cup Commands -> Nat]
  PROVE  DaemonTypeOK' /\ Calm
BY GoneKeeps DEF End, DaemonTypeOK

(* readPIDFile, wherever it is called. *)
LEMMA ReadKeeps ==
  ASSUME DaemonAssumption, DaemonTypeOK, NEW p \in Pid, NEW l \in Labels \ {"write"},
         pc[p] \notin {"unused", "dead", "write", "serve", "stop"}, ReadPIDFile(p, l)
  PROVE  DaemonTypeOK' /\ Calm
<1>1. read' \in [Pid -> Pid \cup {Absent, Garbage}]
  BY DEF ReadPIDFile, DaemonTypeOK
<1>2. p \notin holds /\ port # p
  BY DaemonAssumption DEF DaemonTypeOK, At
<1> QED BY <1>1, <1>2, MoveKeeps DEF ReadPIDFile, shared, DaemonTypeOK

(* A step of p that touches neither file nor port. *)
LEMMA GoKeeps ==
  ASSUME DaemonAssumption, DaemonTypeOK, NEW p \in Pid, NEW l \in Labels \ {"write"},
         pc[p] \notin {"unused", "dead", "write", "serve", "stop"}, Go(p, l),
         UNCHANGED <<role, settings, shared, read, child>>,
         left' \in [Mishaps \cup Commands -> Nat]
  PROVE  DaemonTypeOK' /\ Calm
<1>1. p \notin holds /\ port # p
  BY DaemonAssumption DEF DaemonTypeOK, At
<1> QED BY <1>1, MoveKeeps DEF shared, DaemonTypeOK

(* A probe spends at most what is left of the budget. *)
LEMMA ProbeLeft ==
  ASSUME DaemonTypeOK, Silent \/ Answers
  PROVE  left' \in [Mishaps \cup Commands -> Nat]
BY SpendKeeps DEF Silent, Answers, Mishaps, DaemonTypeOK

(* A node begins no command. *)
LEMMA DaemonStepCalm ==
  ASSUME DaemonAssumption, DaemonTypeOK, NEW p \in Pid, DaemonStep(p)
  PROVE  DaemonTypeOK' /\ Calm
<1> USE DaemonAssumption DEF At
<1>1. CASE DaemonProbe(p)
  BY <1>1, ProbeLeft, GoKeeps, EndKeeps DEF DaemonProbe, Labels, shared
<1>2. CASE DaemonLook(p)
  BY <1>2, ReadKeeps DEF DaemonLook, Labels
<1>3. CASE DaemonJudge(p)
  BY <1>3, GoKeeps, EndKeeps DEF DaemonJudge, Labels, shared, DaemonTypeOK
<1>4. CASE TruncatePIDFile(p)
  <2>1. port # p
    BY <1>4 DEF TruncatePIDFile, DaemonTypeOK
  <2> QED BY <1>4, <2>1, MoveKeeps DEF TruncatePIDFile, Labels, DaemonTypeOK
<1>5. CASE WritePIDFile(p)
  <2>1. port # p
    BY <1>5 DEF WritePIDFile, DaemonTypeOK
  <2> QED BY <1>5, <2>1, MoveKeeps DEF WritePIDFile, Labels, DaemonTypeOK
<1>6. CASE OpenSocket(p)
  <2>1. left' \in [Mishaps \cup Commands -> Nat]
    BY <1>6, SpendKeeps DEF OpenSocket, Mishaps, DaemonTypeOK
  <2> QED BY <1>6, <2>1, GoKeeps DEF OpenSocket, Labels, shared
<1>7. CASE BindPort(p)
  <2>1. p \notin holds /\ port # p
    BY <1>7 DEF BindPort, DaemonTypeOK
  <2> QED BY <1>7, <2>1, MoveKeeps DEF BindPort, Labels, DaemonTypeOK
<1>8. CASE Shutdown(p)
  <2>1. p \notin holds /\ port' # p
    BY <1>8 DEF Shutdown, DaemonTypeOK, DaemonAssumption
  <2> QED BY <1>8, <2>1, MoveKeeps DEF Shutdown, Labels, DaemonTypeOK
<1>9. CASE CleanupRead(p)
  BY <1>9, ReadKeeps DEF CleanupRead, Labels
<1>10. CASE CleanupRemove(p)
  <2>1. p \notin holds
    BY <1>10 DEF CleanupRemove, DaemonTypeOK
  <2>2. holds' \subseteq holds \ {p} /\ file' \in Pid \cup {Absent, Garbage}
    BY <1>10, <2>1 DEF CleanupRemove, Remove, DaemonTypeOK
  <2> QED BY <1>10, <2>2, GoneKeeps DEF CleanupRemove, DaemonTypeOK
<1> QED
  BY <1>1, <1>2, <1>3, <1>4, <1>5, <1>6, <1>7, <1>8, <1>9, <1>10 DEF DaemonStep

(* Nor does `mesh-node kill'. *)
LEMMA KillStepCalm ==
  ASSUME DaemonAssumption, DaemonTypeOK, NEW p \in Pid, KillStep(p)
  PROVE  DaemonTypeOK' /\ Calm
<1> USE DaemonAssumption DEF At
<1>1. CASE KillProbe(p)
  BY <1>1, ProbeLeft, GoKeeps DEF KillProbe, Labels
<1>2. CASE PostKill(p)
  <2> DEFINE node == IF port = NoPid THEN p ELSE port
             next == IF port = NoPid THEN "dead" ELSE "stop"
  <2>1. node \in Pid /\ pc[node] \notin {"unused", "dead"} /\ node \notin holds
    BY <1>2 DEF PostKill, DaemonTypeOK
  <2>2. pc' = [q \in Pid |-> IF q = node THEN next ELSE IF q = p THEN "dead" ELSE pc[q]]
    BY <1>2, <2>1 DEF PostKill, DaemonTypeOK
  <2>3. p \notin holds
    BY <1>2 DEF PostKill, DaemonTypeOK
  <2>4. pc' \in [Pid -> Labels]
    BY <2>2 DEF DaemonTypeOK, Labels
  <2>5. holds' \subseteq {q \in Pid : At(q, "daemon", "write")'}
    BY <1>2, <2>1, <2>2, <2>3 DEF PostKill, shared, DaemonTypeOK
  <2>6. port' \in {NoPid} \cup {q \in Pid : At(q, "daemon", "serve")' \/ At(q, "daemon", "stop")'}
    BY <1>2, <2>1, <2>2 DEF PostKill, shared, DaemonTypeOK
  <2>7. Calm
    BY <1>2, <2>1, <2>2 DEF PostKill, Calm
  <2> QED BY <1>2, <2>4, <2>5, <2>6, <2>7 DEF PostKill, shared, settings, DaemonTypeOK
<1>3. CASE KillLook(p)
  BY <1>3, ReadKeeps DEF KillLook, Labels
<1>4. CASE KillJudge(p)
  BY <1>4, GoKeeps DEF KillJudge, Labels, DaemonTypeOK
<1>5. CASE Signal(p) /\ ~Alive(read[p])
  BY <1>5, EndKeeps DEF Signal, DaemonTypeOK
<1>6. CASE Signal(p) /\ Alive(read[p])
  <2> DEFINE node == read[p]
  <2>1. node \in Pid /\ pc[node] \notin {"unused", "dead"}
    BY <1>6 DEF Alive
  <2>2. pc' = [q \in Pid |-> IF q = p THEN "remove" ELSE IF q = node THEN "dead" ELSE pc[q]]
    BY <1>6, <2>1 DEF Signal, DaemonTypeOK
  <2>3. p \notin holds /\ port # p
    BY <1>6 DEF Signal, DaemonTypeOK
  <2>4. pc' \in [Pid -> Labels]
    BY <2>2 DEF DaemonTypeOK, Labels
  <2>5. holds' = holds \ {node} /\ port' = IF port = node THEN NoPid ELSE port
    BY <1>6 DEF Signal
  <2>6. holds' \subseteq {q \in Pid : At(q, "daemon", "write")'}
    BY <1>6, <2>2, <2>3, <2>5 DEF Signal, DaemonTypeOK
  <2>7. port' \in {NoPid} \cup {q \in Pid : At(q, "daemon", "serve")' \/ At(q, "daemon", "stop")'}
    BY <1>6, <2>2, <2>3, <2>5 DEF Signal, DaemonTypeOK
  <2>8. read' \in [Pid -> Pid \cup {Absent, Garbage}] /\ child' \in [Pid -> Pid \cup {NoPid}]
    BY <1>6, <2>1 DEF Signal, DaemonTypeOK
  <2>9. Calm
    BY <1>6, <2>1, <2>2 DEF Signal, Calm
  <2> QED BY <1>6, <2>4, <2>6, <2>7, <2>8, <2>9 DEF Signal, settings, DaemonTypeOK
<1>7. CASE KillRemove(p)
  <2>1. port # p
    BY <1>7 DEF KillRemove, DaemonTypeOK
  <2> QED BY <1>7, <2>1, MoveKeeps DEF KillRemove, Remove, Labels, DaemonTypeOK
<1> QED BY <1>1, <1>2, <1>3, <1>4, <1>5, <1>6, <1>7 DEF KillStep

(* An interface that starts no node. *)
LEMMA TuiStepCalm ==
  ASSUME DaemonAssumption, DaemonTypeOK, NEW p \in Pid,
         TuiProbe(p) \/ CheckChild(p) \/ Poll(p)
  PROVE  DaemonTypeOK' /\ Calm
<1> USE DaemonAssumption DEF At
<1>1. CASE TuiProbe(p)
  BY <1>1, ProbeLeft, GoKeeps DEF TuiProbe, Labels
<1>2. CASE CheckChild(p)
  BY <1>2, GoKeeps, EndKeeps DEF CheckChild, Labels, shared, DaemonTypeOK
<1>3. CASE Poll(p)
  BY <1>3, ProbeLeft, GoKeeps, EndKeeps DEF Poll, Labels, shared
<1> QED BY <1>1, <1>2, <1>3

(* A node that crashes, an interface that is closed. *)
LEMMA EndCalm ==
  ASSUME DaemonAssumption, DaemonTypeOK, NEW p \in Pid, Crash(p) \/ Close(p)
  PROVE  DaemonTypeOK' /\ Calm
BY DaemonAssumption, EndKeeps, SpendKeeps DEF Crash, Close, Mishaps, DaemonTypeOK

(* Only OpenSocket opens sockets. *)
LEMMA DaemonStepAdmitted ==
  ASSUME DaemonTypeOK, NEW p \in Pid, DaemonStep(p)
  PROVE  Admitted
<1> USE DEF Admitted, Opened, At, Go
<1>1. pc \in [Pid -> Labels]
  BY DEF DaemonTypeOK
<1>2. CASE DaemonProbe(p) \/ DaemonJudge(p) \/ CleanupRemove(p)
  BY <1>1, <1>2 DEF DaemonProbe, DaemonJudge, CleanupRemove, End, Gone
<1>3. CASE DaemonLook(p) \/ CleanupRead(p) \/ TruncatePIDFile(p) \/ WritePIDFile(p)
  BY <1>1, <1>3 DEF DaemonLook, CleanupRead, ReadPIDFile, TruncatePIDFile, WritePIDFile
<1>4. CASE OpenSocket(p)
  BY <1>1, <1>4 DEF OpenSocket
<1>5. CASE BindPort(p) \/ Shutdown(p)
  BY <1>1, <1>5 DEF BindPort, Shutdown
<1> QED BY <1>2, <1>3, <1>4, <1>5 DEF DaemonStep

LEMMA OtherStepAdmitted ==
  ASSUME DaemonAssumption, DaemonTypeOK, NEW p \in Pid,
         KillStep(p) \/ TuiProbe(p) \/ CheckChild(p) \/ Poll(p) \/ Crash(p) \/ Close(p)
  PROVE  Admitted
<1> USE DEF Admitted, Opened, At, Go
<1>1. pc \in [Pid -> Labels]
  BY DEF DaemonTypeOK
<1>2. CASE KillProbe(p) \/ KillLook(p) \/ KillJudge(p) \/ KillRemove(p)
  BY <1>1, <1>2 DEF KillProbe, KillLook, KillJudge, KillRemove, ReadPIDFile
<1>3. CASE PostKill(p)
  <2>1. port # NoPid => port \in Pid /\ pc[port] \in Opened
    BY DEF DaemonTypeOK
  <2> QED BY <1>1, <1>3, <2>1 DEF PostKill
<1>4. CASE Signal(p)
  BY <1>1, <1>4 DEF Signal, End, Gone
<1>5. CASE TuiProbe(p) \/ CheckChild(p) \/ Poll(p)
  BY <1>1, <1>5 DEF TuiProbe, CheckChild, Poll, End, Gone
<1>6. CASE Crash(p) \/ Close(p)
  BY <1>1, <1>6 DEF Crash, Close, End, Gone
<1> QED BY <1>2, <1>3, <1>4, <1>5, <1>6 DEF KillStep

-----------------------------------------------------------------------------
(* Steps that begin a command. *)

(* What a command runs with, when it is not refused. *)
LEMMA BegunAsGiven ==
  ASSUME NEW r \in Commands \ {"kill"}, NEW args, ~Refused(r, args)
  PROVE  /\ ~applyEnvFails(shell.env)
         /\ \A n \in Settings : InRange(n, Value(shell.env, args, n))
         /\ Conf(shell.env, args) \in [Settings -> Nat]
<1>1. \A n \in Settings : InRange(n, Value(shell.env, args, n))
  BY DEF Refused, ActionFails, InRange
<1> QED BY <1>1, AcceptedRanges DEF Refused

(* Process q, new, runs command r with args; the others are as before but   *)
(* for their place in the code.                                             *)
LEMMA BeginKeeps ==
  ASSUME DaemonAssumption, DaemonInv, DaemonTypeOK',
         NEW q \in Pid, NEW r \in Commands, NEW args, Start(q, r, args), UNCHANGED shell,
         pc'[q] = Begin(r, args), role[q] # "tui" \/ pc[q] = "unused",
         \A p \in Pid \ {q} : pc'[p] \notin {"unused", "dead"} => pc[p] \notin {"unused", "dead"},
         \A p \in Pid \ {q} : pc'[p] \in Opened => pc[p] \in Opened,
         Role(r, args) = "tui" => args = shell.args
  PROVE  DaemonInv'
<1> DEFINE C == Conf(shell.env, args)
<1>1. /\ role' = [role EXCEPT ![q] = Role(r, args)]
      /\ conf' = [conf EXCEPT ![q] = IF Refused(r, args) \/ r = "kill" THEN NoConf ELSE C]
  BY DEF Start
<1>2. role'[q] = Role(r, args) /\ \A p \in Pid \ {q} : role'[p] = role[p] /\ conf'[p] = conf[p]
  BY <1>1 DEF DaemonInv, DaemonTypeOK
<1>3. ASSUME pc'[q] \notin {"unused", "dead"}, Role(r, args) # "kill"
      PROVE  /\ conf'[q] = C /\ ~applyEnvFails(shell.env)
             /\ \A n \in Settings : InRange(n, Value(shell.env, args, n))
             /\ pc'[q] = "probe"
  <2>1. r # "kill" /\ ~Refused(r, args)
    BY <1>3 DEF Role, Begin
  <2>2. pc'[q] = "probe"
    BY <1>3 DEF Begin
  <2> QED BY <1>1, <2>1, <2>2, BegunAsGiven DEF DaemonInv, DaemonTypeOK
<1>4. SettingsInRange'
  <2> SUFFICES ASSUME NEW p \in Pid, Alive(p)', role'[p] # "kill"
               PROVE  /\ conf'[p]["port"] \in one .. maxUint16
                      /\ conf'[p]["ttl"] \in one .. maxUint8
                      /\ conf'[p]["lifetime"] \in one .. maxUint32
                      /\ conf'[p]["hello-interval"] \in one .. day
                      /\ conf'[p]["id"] \in zero .. maxUint64
                      /\ conf'[p]["interface"] >= 1
                      /\ (role'[p] = "daemon" /\ pc'[p] \in Opened)
                           => ~HasUnnamed(conf'[p]["interface"])
    BY DEF SettingsInRange
  <2>1. CASE p = q
    <3>1. /\ conf'[p] = C /\ ~applyEnvFails(shell.env) /\ pc'[p] = "probe"
          /\ \A n \in Settings : InRange(n, Value(shell.env, args, n))
      BY <1>2, <1>3, <2>1 DEF Alive
    <3>2. pc'[p] \notin Opened
      BY <3>1 DEF Opened
    <3> QED BY <3>1, <3>2, AcceptedRanges
  <2>2. CASE p # q
    BY <1>2, <2>2 DEF DaemonInv, SettingsInRange, Alive
  <2> QED BY <2>1, <2>2
<1>5. TuiAsGiven'
  <2> SUFFICES ASSUME NEW p \in Pid, Alive(p)', role'[p] = "tui"
               PROVE  /\ conf'[p] = Conf(shell.env, shell.args)
                      /\ ~applyEnvFails(shell.env)
                      /\ \A n \in Settings : InRange(n, Value(shell.env, shell.args, n))
    BY DEF TuiAsGiven
  <2>1. CASE p = q
    BY <1>2, <1>3, <2>1 DEF Alive
  <2>2. CASE p # q
    BY <1>2, <2>2 DEF DaemonInv, TuiAsGiven, Alive
  <2> QED BY <2>1, <2>2
<1> QED BY <1>4, <1>5 DEF DaemonInv

(* A command that begins has a role, and settings that are numbers. *)
LEMMA StartTypes ==
  ASSUME DaemonTypeOK, NEW q \in Pid, NEW r \in Commands, NEW args, Start(q, r, args)
  PROVE  /\ role' \in [Pid -> Commands \cup {"none"}]
         /\ conf' \in [Pid -> [Settings -> Nat] \cup {NoConf}]
<1>1. Role(r, args) \in Commands
  BY DEF Role, Commands
<1>2. ~Refused(r, args) /\ r # "kill" => Conf(shell.env, args) \in [Settings -> Nat]
  BY BegunAsGiven
<1> QED BY <1>1, <1>2 DEF Start, DaemonTypeOK

(* A command given by the user. *)
LEMMA RunKeeps ==
  ASSUME DaemonAssumption, DaemonInv, NEW p \in Pid, NEW r \in Commands, Run(p, r)
  PROVE  DaemonInv'
<1> DEFINE args == IF r = "daemon"
                   THEN [shell.args EXCEPT !["daemon"] = 1, !["server"] = Unset, !["d"] = Unset]
                   ELSE shell.args
<1>1. /\ pc[p] = "unused" /\ pc' = [pc EXCEPT ![p] = Begin(r, args)] /\ Start(p, r, args)
      /\ Spend(r) /\ UNCHANGED <<shared, read, child, shell>>
  BY DEF Run, Fresh, Go
<1>2. pc' \in [Pid -> Labels] /\ pc'[p] = Begin(r, args) /\ \A q \in Pid \ {p} : pc'[q] = pc[q]
  BY <1>1 DEF Begin, Labels, DaemonInv, DaemonTypeOK
<1>3. DaemonTypeOK'
  <2>1. left' \in [Mishaps \cup Commands -> Nat]
    BY <1>1, SpendKeeps DEF DaemonInv, DaemonTypeOK
  <2>2. role'[p] \in Commands /\ \A q \in Pid \ {p} : role'[q] = role[q]
    BY <1>1 DEF Start, Role, Commands, DaemonInv, DaemonTypeOK
  <2>3. p \notin holds /\ port # p
    BY <1>1, DaemonAssumption DEF DaemonInv, DaemonTypeOK, At
  <2>4. holds' \subseteq {q \in Pid : At(q, "daemon", "write")'}
    BY <1>1, <1>2, <2>2, <2>3 DEF DaemonInv, DaemonTypeOK, At, shared
  <2>5. port' \in {NoPid} \cup {q \in Pid : At(q, "daemon", "serve")' \/ At(q, "daemon", "stop")'}
    BY <1>1, <1>2, <2>2, <2>3 DEF DaemonInv, DaemonTypeOK, At, shared
  <2> QED BY <1>1, <1>2, <2>1, <2>4, <2>5, StartTypes DEF DaemonInv, DaemonTypeOK, shared
<1>4. Role(r, args) = "tui" => args = shell.args
  <2>1. CASE r = "daemon"
    <3>1. args = [shell.args EXCEPT !["daemon"] = 1, !["server"] = Unset, !["d"] = Unset]
      BY <2>1
    <3>2. shell.args \in [Spelled -> Int] /\ {"daemon", "server", "d"} \subseteq Spelled
      BY DaemonAssumption DEF DaemonInv, Spelled, Settings
    <3>3. args["daemon"] = 1 /\ args["server"] = Unset /\ args["d"] = Unset
      BY <3>1, <3>2
    <3>4. Spellings("daemon") = {"daemon", "server", "d"} /\ "daemon" \in Settings
      BY DEF Spellings, Settings
    <3> HIDE DEF args
    <3>5. Value(shell.env, args, "daemon") = 1
      BY <3>3, <3>4, OneName DEF Unset
    <3>6. Conf(shell.env, args)["daemon"] = 1
      BY <3>4, <3>5 DEF Conf
    <3> QED BY <2>1, <3>6 DEF Role
  <2> QED BY <2>1
<1> HIDE DEF args
<1>5. \A q \in Pid \ {p} : pc'[q] \in Opened => pc[q] \in Opened
  BY <1>2
<1> QED BY <1>1, <1>2, <1>3, <1>4, <1>5, BeginKeeps

(* The child of an interface: accepted, a daemon, and as asked. *)
LEMMA SpawnedChild ==
  ASSUME DaemonAssumption, DaemonInv, NEW p \in Pid, NEW q \in Pid, Spawn(p, q)
  PROVE  /\ pc' = [pc EXCEPT ![p] = "look", ![q] = "probe"] /\ p # q
         /\ role'[q] = "daemon"
         /\ conf'[q] = [conf[p] EXCEPT !["daemon"] = 1]
<1> DEFINE args == parseArgs(shell.env, shell.args)
<1>1. /\ pc[p] = "spawn" /\ role[p] = "tui" /\ pc[q] = "unused"
      /\ pc' = [pc EXCEPT ![p] = "look", ![q] = Begin("daemon", args)]
      /\ Start(q, "daemon", args)
  BY DEF Spawn, At, Fresh
<1>2. /\ conf[p] = Conf(shell.env, shell.args) /\ ~applyEnvFails(shell.env)
      /\ \A n \in Settings : InRange(n, Value(shell.env, shell.args, n))
  BY <1>1 DEF DaemonInv, TuiAsGiven, Alive
<1>3. /\ Conf(shell.env, args) = [conf[p] EXCEPT !["daemon"] = 1]
      /\ Conf(shell.env, args)["daemon"] = 1
      /\ ~ActionFails(shell.env, args)
  BY <1>2, ChildAccepted
<1> HIDE DEF args
<1>4. ~Refused("daemon", args) /\ Role("daemon", args) = "daemon"
  BY <1>2, <1>3 DEF Refused, Role
<1>5. Begin("daemon", args) = "probe"
  BY <1>4 DEF Begin
<1>6. role'[q] = "daemon" /\ conf'[q] = Conf(shell.env, args)
  BY <1>1, <1>4 DEF Start, DaemonInv, DaemonTypeOK
<1> QED BY <1>1, <1>3, <1>5, <1>6

(* An interface starts a node. *)
LEMMA SpawnKeeps ==
  ASSUME DaemonAssumption, DaemonInv, NEW p \in Pid, NEW q \in Pid, Spawn(p, q)
  PROVE  DaemonInv'
<1> DEFINE args == parseArgs(shell.env, shell.args)
<1>1. /\ pc' = [pc EXCEPT ![p] = "look", ![q] = "probe"] /\ p # q /\ role'[q] = "daemon"
  BY SpawnedChild
<1>2. /\ pc[p] = "spawn" /\ role[p] = "tui" /\ pc[q] = "unused"
      /\ pc' = [pc EXCEPT ![p] = "look", ![q] = Begin("daemon", args)]
      /\ Start(q, "daemon", args) /\ UNCHANGED <<shared, read, shell, left>>
      /\ child' \in [Pid -> Pid \cup {NoPid}]
  BY DEF Spawn, At, Fresh, DaemonInv, DaemonTypeOK
<1> HIDE DEF args
<1>3. /\ pc' \in [Pid -> Labels] /\ pc'[p] = "look" /\ pc'[q] = "probe"
      /\ pc'[q] = Begin("daemon", args) /\ \A t \in Pid \ {p, q} : pc'[t] = pc[t]
  BY <1>1, <1>2 DEF Labels, DaemonInv, DaemonTypeOK
<1>4. \A t \in Pid \ {q} : role'[t] = role[t]
  BY <1>2 DEF Start, DaemonInv, DaemonTypeOK
<1>5. DaemonTypeOK'
  <2>1. {p, q} \cap holds = {} /\ port \notin {p, q}
    BY <1>2, DaemonAssumption DEF DaemonInv, DaemonTypeOK, At
  <2>2. holds' \subseteq {t \in Pid : At(t, "daemon", "write")'}
    BY <1>2, <1>3, <1>4, <2>1 DEF DaemonInv, DaemonTypeOK, At, shared
  <2>3. port' \in {NoPid} \cup {t \in Pid : At(t, "daemon", "serve")' \/ At(t, "daemon", "stop")'}
    BY <1>2, <1>3, <1>4, <2>1 DEF DaemonInv, DaemonTypeOK, At, shared
  <2>4. "daemon" \in Commands
    BY DEF Commands
  <2> QED BY <1>2, <1>3, <2>2, <2>3, <2>4, StartTypes DEF DaemonInv, DaemonTypeOK, shared
<1>6. Role("daemon", args) # "tui"
  BY <1>1, <1>2 DEF Start, DaemonInv, DaemonTypeOK
<1>7. \A t \in Pid \ {q} : pc'[t] \notin {"unused", "dead"} => pc[t] \notin {"unused", "dead"}
  BY <1>2, <1>3
<1>8. "daemon" \in Commands
  BY DEF Commands
<1>9. \A t \in Pid \ {q} : pc'[t] \in Opened => pc[t] \in Opened
  BY <1>3 DEF Opened
<1> QED BY <1>2, <1>3, <1>5, <1>6, <1>7, <1>8, <1>9, BeginKeeps

-----------------------------------------------------------------------------
(* Nobody runs at the start. *)
LEMMA DaemonStart == ASSUME DaemonAssumption, Init PROVE DaemonInv
<1>1. DaemonTypeOK
  BY DaemonAssumption DEF Init, DaemonTypeOK, Labels
<1>2. SettingsInRange /\ TuiAsGiven
  BY DEF Init, SettingsInRange, TuiAsGiven, Alive
<1> QED BY <1>1, <1>2 DEF DaemonInv, Init

(* Every step keeps the invariant. *)
LEMMA DaemonNext == ASSUME DaemonAssumption, DaemonInv, [Next]_vars PROVE DaemonInv'
<1>1. CASE UNCHANGED vars
  <2>1. DaemonTypeOK'
    BY <1>1 DEF vars, shared, settings, DaemonInv, DaemonTypeOK, At
  <2>2. Calm /\ Admitted
    BY <1>1 DEF vars, Calm, Admitted
  <2> QED BY <2>1, <2>2, CalmKeeps
<1>2. ASSUME NEW p \in Pid,
             DaemonStep(p) \/ KillStep(p) \/ TuiProbe(p) \/ CheckChild(p) \/ Poll(p)
               \/ Crash(p) \/ Close(p)
      PROVE  DaemonInv'
  <2>1. DaemonTypeOK' /\ Calm
    BY <1>2, DaemonStepCalm, KillStepCalm, TuiStepCalm, EndCalm DEF DaemonInv
  <2>2. Admitted
    BY <1>2, DaemonStepAdmitted, OtherStepAdmitted DEF DaemonInv
  <2> QED BY <2>1, <2>2, CalmKeeps
<1>3. ASSUME NEW p \in Pid, NEW q \in Pid, Spawn(p, q) PROVE DaemonInv'
  BY <1>3, SpawnKeeps
<1>4. ASSUME NEW p \in Pid, NEW r \in Commands, Run(p, r) PROVE DaemonInv'
  BY <1>4, RunKeeps
<1> QED BY <1>1, <1>2, <1>3, <1>4 DEF Next, Step, TuiStep

(* Who is started by an interface is what the interface asked for. *)
LEMMA ChildStep ==
  ASSUME DaemonAssumption, DaemonInv, [Next]_vars, NEW t \in Pid, NEW q \in Pid,
         At(t, "tui", "spawn"), pc'[t] = "look", Fresh(q)
  PROVE  pc'[q] = "probe" /\ role'[q] = "daemon" /\ conf'[q] = [conf[t] EXCEPT !["daemon"] = 1]
<1>1. pc[t] = "spawn" /\ role[t] = "tui" /\ pc \in [Pid -> Labels] /\ pc'[t] = "look"
  BY DEF At, DaemonInv, DaemonTypeOK
<1>2. ~UNCHANGED vars
  BY <1>1 DEF vars
<1>3. ASSUME NEW p \in Pid, DaemonStep(p) PROVE FALSE
  BY <1>1, <1>3 DEF DaemonStep, At, Go, End, Gone, ReadPIDFile, DaemonProbe, DaemonLook,
     DaemonJudge, TruncatePIDFile, WritePIDFile, OpenSocket, BindPort, Shutdown, CleanupRead,
     CleanupRemove
<1>4. ASSUME NEW p \in Pid, KillStep(p) PROVE FALSE
  <2>1. CASE PostKill(p)
    BY <1>1, <2>1 DEF PostKill, At
  <2>2. CASE Signal(p)
    BY <1>1, <2>2 DEF Signal, At, End, Gone
  <2>3. CASE KillProbe(p) \/ KillLook(p) \/ KillJudge(p) \/ KillRemove(p)
    BY <1>1, <2>3 DEF KillProbe, KillLook, KillJudge, KillRemove, ReadPIDFile, At, Go
  <2> QED BY <1>4, <2>1, <2>2, <2>3 DEF KillStep
<1>5. ASSUME NEW p \in Pid, TuiProbe(p) \/ CheckChild(p) \/ Poll(p) PROVE FALSE
  BY <1>1, <1>5 DEF TuiProbe, CheckChild, Poll, At, Go, End, Gone
<1>6. ASSUME NEW p \in Pid, Crash(p) \/ Close(p) PROVE FALSE
  BY <1>1, <1>6 DEF Crash, Close, At, End, Gone
<1>7. ASSUME NEW p \in Pid, NEW r \in Commands, Run(p, r) PROVE FALSE
  BY <1>1, <1>7 DEF Run, Fresh, Go
<1>8. PICK p \in Pid, u \in Pid : Spawn(p, u)
  BY <1>2, <1>3, <1>4, <1>5, <1>6, <1>7 DEF Next, Step, TuiStep
<1>9. p = t
  <2>1. pc[u] = "unused" /\ pc' = [pc EXCEPT ![p] = "look", ![u] = Begin("daemon", parseArgs(shell.env, shell.args))]
    BY <1>8 DEF Spawn, Fresh
  <2> QED BY <1>1, <2>1
<1>10. u = q
  <2>1. u <= q /\ q <= u
    BY <1>8 DEF Spawn, Fresh
  <2>2. u \in Nat /\ q \in Nat
    BY <1>8, DaemonAssumption
  <2> QED BY <2>1, <2>2
<1>11. /\ pc' = [pc EXCEPT ![t] = "look", ![q] = "probe"]
       /\ role'[q] = "daemon" /\ conf'[q] = [conf[t] EXCEPT !["daemon"] = 1]
  BY <1>8, <1>9, <1>10, SpawnedChild
<1> QED BY <1>1, <1>11

(* Everything above is kept by every step, with the history. *)
THEOREM DaemonInvHolds == HSpec => []DaemonInv
<1>1. HInit => DaemonInv
  BY DaemonAssumption, DaemonStart DEF HInit
<1>2. DaemonInv /\ [Next /\ History]_hvars => DaemonInv'
  BY DaemonAssumption, DaemonNext DEF hvars
<1> QED BY <1>1, <1>2, PTL DEF HSpec

(* The variables of Daemon keep their types, however many commands are given *)
(* and whatever happens to them.                                             *)
THEOREM DaemonTypeInvariant == HSpec => []DaemonTypeOK
<1>1. DaemonInv => DaemonTypeOK
  BY DEF DaemonInv
<1> QED BY <1>1, DaemonInvHolds, PTL

(* No node and no interface runs with a setting that the wire or the timers *)
(* cannot take, for every environment and every command line.               *)
THEOREM SettingsInRangeHolds == HSpec => []SettingsInRange
<1>1. DaemonInv => SettingsInRange
  BY DEF DaemonInv
<1> QED BY <1>1, DaemonInvHolds, PTL

(* The node that an interface starts is started with what its user gave, by *)
(* whichever name of a flag or by the environment.                          *)
THEOREM ChildAsAskedHolds == HSpec => ChildAsAsked
<1>1. DaemonInv /\ [Next /\ History]_hvars
        => [\A t, q \in Pid :
              (At(t, "tui", "spawn") /\ pc'[t] = "look" /\ Fresh(q))
                => /\ pc'[q] = "probe" /\ role'[q] = "daemon"
                   /\ conf'[q] = [conf[t] EXCEPT !["daemon"] = 1]]_vars
  BY DaemonAssumption, ChildStep DEF hvars
<1> QED BY <1>1, DaemonInvHolds, PTL DEF HSpec, ChildAsAsked

-----------------------------------------------------------------------------
(* What the commands of one host leave behind. *)

(* The places of each command. *)
DaemonPlaces == {"dead", "probe", "look", "judge", "open", "write", "socket", "bind", "serve",
                 "stop", "cleanup", "compare"}
TuiPlaces == {"dead", "probe", "spawn", "look", "poll", "client"}
KillPlaces == {"dead", "probe", "post", "look", "judge", "signal", "remove"}

InPlace ==
  \A p \in Pid : /\ role[p] = "none" => pc[p] = "unused"
                 /\ role[p] = "daemon" => pc[p] \in DaemonPlaces
                 /\ role[p] = "tui" => pc[p] \in TuiPlaces
                 /\ role[p] = "kill" => pc[p] \in KillPlaces

(* Who serves has the port. *)
PortHeld == \A p \in Pid : At(p, "daemon", "serve") \/ At(p, "daemon", "stop") => port = p

(* Only a node that has written the file is named by it. *)
Wrote(q) ==
  role[q] = "daemon" /\ pc[q] \in {"dead", "socket", "bind", "serve", "stop", "cleanup", "compare"}
Named == /\ file \in Pid => Wrote(file)
         /\ \A p \in Pid : read[p] \in Pid => Wrote(read[p])

HostInv == InPlace /\ PortHeld /\ Named

(* As long as nothing has crashed somebody is going to remove the file, or  *)
(* to write the name of somebody who is.                                    *)
Removed ==
  \/ file = Absent
  \/ \E k \in Pid : At(k, "kill", "remove")
  \/ file = Garbage /\ holds # {}
  \/ file \in Pid /\ Alive(file) /\ (pc[file] = "compare" => read[file] = file)
FileInv == /\ left["crash"] <= shell.events["crash"]
           /\ left["crash"] = shell.events["crash"] => Removed

(* A node that is starting and that nothing keeps from serving. *)
Coming(p) ==
  role[p] = "daemon" /\ pc[p] \in {"probe", "look", "judge", "open", "write", "socket", "bind"}
OwedInv == owed => port = NoPid /\ Undisturbed /\ \E p \in Pid : Coming(p)

(* Everybody who reads the file finds q there, and nobody removes it. *)
Tracked(q) ==
  /\ file = q /\ holds = {}
  /\ \A r \in Pid :
       /\ role[r] = "daemon" => /\ pc[r] \notin {"open", "write"}
                                /\ pc[r] = "judge" => read[r] = q
                                /\ pc[r] = "compare" => read[r] # r
       /\ role[r] = "kill" => /\ pc[r] # "remove"
                              /\ pc[r] \in {"judge", "signal"} => read[r] = q

(* The node q, which kill k is after, has ended, is ending, or will be      *)
(* reached.                                                                 *)
Chased(k, q) ==
  /\ role[q] = "daemon" /\ role[k] = "kill"
  /\ pc[q] \in {"serve", "stop", "cleanup", "compare", "dead"}
  /\ pc[q] = "serve" => Tracked(q) /\ pc[k] \in {"post", "look", "judge", "signal"}
TargetInv ==
  \A k \in Pid : target[k] # NoPid => target[k] \in Pid /\ Chased(k, target[k])

-----------------------------------------------------------------------------
(* What a step does to each process. *)

(* It leaves all but those in S as they are. *)
Same(S) ==
  \A r \in Pid \ S : pc'[r] = pc[r] /\ role'[r] = role[r] /\ read'[r] = read[r]

(* Process p, a command r, goes from l to m. *)
Moves(p, r, l, m) ==
  /\ Same({p}) /\ role[p] = r /\ role'[p] = r /\ pc[p] = l /\ pc'[p] = m
  /\ UNCHANGED shell

(* It ends at l, and whatever it held is free. *)
Ends(p, r, l) ==
  /\ Moves(p, r, l, "dead") /\ read'[p] = Absent
  /\ port' = IF port = p THEN NoPid ELSE port

(* A node. *)
DaemonEffect(p) ==
  \/ Moves(p, "daemon", "probe", "look") /\ Silent /\ UNCHANGED shared /\ read'[p] = read[p]
  \/ Ends(p, "daemon", "probe") /\ Answers /\ UNCHANGED file /\ holds' = holds \ {p}
  \/ Moves(p, "daemon", "look", "judge") /\ UNCHANGED <<shared, left>> /\ read'[p] = file
  \/ /\ Ends(p, "daemon", "judge") /\ read[p] # p /\ Alive(read[p])
     /\ UNCHANGED <<file, left>> /\ holds' = holds \ {p}
  \/ /\ Moves(p, "daemon", "judge", "open") /\ ~(read[p] # p /\ Alive(read[p]))
     /\ UNCHANGED <<shared, left>> /\ read'[p] = read[p]
  \/ /\ Moves(p, "daemon", "open", "write") /\ file' = Garbage /\ holds' = holds \cup {p}
     /\ UNCHANGED <<port, left>> /\ read'[p] = read[p]
  \/ /\ Moves(p, "daemon", "write", "socket") /\ holds' = holds \ {p}
     /\ file' = (IF p \in holds THEN p ELSE file)
     /\ UNCHANGED <<port, left>> /\ read'[p] = read[p]
  \/ Moves(p, "daemon", "socket", "bind") /\ UNCHANGED <<shared, left>> /\ read'[p] = read[p]
  \/ /\ Moves(p, "daemon", "socket", "cleanup") /\ (Spend("socket") \/ UNCHANGED left)
     /\ UNCHANGED shared /\ read'[p] = read[p]
  \/ /\ Moves(p, "daemon", "bind", "serve") /\ port = NoPid /\ port' = p
     /\ UNCHANGED <<file, holds, left>> /\ read'[p] = read[p]
  \/ /\ Moves(p, "daemon", "bind", "cleanup") /\ port # NoPid
     /\ UNCHANGED <<shared, left>> /\ read'[p] = read[p]
  \/ /\ Moves(p, "daemon", "stop", "cleanup") /\ port' = NoPid
     /\ UNCHANGED <<file, holds, left>> /\ read'[p] = read[p]
  \/ Moves(p, "daemon", "cleanup", "compare") /\ UNCHANGED <<shared, left>> /\ read'[p] = file
  \/ /\ Ends(p, "daemon", "compare") /\ UNCHANGED left
     /\ IF read[p] = p THEN file' = Absent /\ holds' = {} ELSE UNCHANGED <<file, holds>>

LEMMA DaemonStepEffect ==
  ASSUME DaemonAssumption, DaemonTypeOK, NEW p \in Pid, DaemonStep(p)
  PROVE  DaemonEffect(p)
<1> USE DaemonAssumption DEF At, Go, DaemonTypeOK, DaemonEffect, Moves, Ends, Same, settings, shared
<1>1. CASE DaemonProbe(p)
  BY <1>1 DEF DaemonProbe, End, Gone
<1>2. CASE DaemonLook(p)
  BY <1>2 DEF DaemonLook, ReadPIDFile
<1>3. CASE DaemonJudge(p)
  BY <1>3 DEF DaemonJudge, End, Gone
<1>4. CASE TruncatePIDFile(p)
  BY <1>4 DEF TruncatePIDFile
<1>5. CASE WritePIDFile(p)
  BY <1>5 DEF WritePIDFile
<1>6. CASE OpenSocket(p)
  BY <1>6 DEF OpenSocket
<1>7. CASE BindPort(p)
  BY <1>7 DEF BindPort
<1>8. CASE Shutdown(p)
  BY <1>8 DEF Shutdown
<1>9. CASE CleanupRead(p)
  BY <1>9 DEF CleanupRead, ReadPIDFile
<1>10. CASE CleanupRemove(p)
  BY <1>10 DEF CleanupRemove, Gone, Remove
<1> QED
  BY <1>1, <1>2, <1>3, <1>4, <1>5, <1>6, <1>7, <1>8, <1>9, <1>10 DEF DaemonStep

(* An interface that starts no node; one that is closed. *)
TuiEffect(p) ==
  /\ role[p] = "tui" /\ role'[p] = "tui" /\ pc[p] \notin {"unused", "dead"} /\ Same({p})
  /\ pc'[p] \in TuiPlaces /\ read'[p] \in {read[p], Absent}
  /\ UNCHANGED <<file, shell>> /\ holds' = holds \ {p}
  /\ port' = IF port = p THEN NoPid ELSE port
  /\ UNCHANGED left \/ Spend("slow")

LEMMA TuiStepEffect ==
  ASSUME DaemonAssumption, DaemonTypeOK, NEW p \in Pid,
         TuiProbe(p) \/ CheckChild(p) \/ Poll(p) \/ Close(p)
  PROVE  TuiEffect(p)
<1> USE DaemonAssumption DEF At, Go, DaemonTypeOK, TuiEffect, Same, TuiPlaces, settings, shared, Silent, Answers
<1>1. CASE TuiProbe(p)
  BY <1>1 DEF TuiProbe
<1>2. CASE CheckChild(p)
  BY <1>2 DEF CheckChild, End, Gone
<1>3. CASE Poll(p)
  BY <1>3 DEF Poll, End, Gone
<1>4. CASE Close(p)
  BY <1>4 DEF Close, End, Gone
<1> QED BY <1>1, <1>2, <1>3, <1>4

(* A crash. *)
CrashEffect(p) ==
  /\ Ends(p, "daemon", pc[p]) /\ pc[p] \notin {"unused", "dead"} /\ Spend("crash")
  /\ UNCHANGED file /\ holds' = holds \ {p}

LEMMA CrashStepEffect ==
  ASSUME DaemonAssumption, DaemonTypeOK, NEW p \in Pid, Crash(p)
  PROVE  CrashEffect(p)
BY DaemonAssumption
   DEF Crash, CrashEffect, Alive, At, Go, DaemonTypeOK, Ends, Moves, Same, settings, shared, End, Gone

(* `mesh-node kill'; the node that is told to stop or that is signalled is  *)
(* the second process that changes.                                         *)
KillEffect(p) ==
  \/ Moves(p, "kill", "probe", "look") /\ Silent /\ UNCHANGED shared /\ read'[p] = read[p]
  \/ Moves(p, "kill", "probe", "post") /\ Answers /\ UNCHANGED shared /\ read'[p] = read[p]
  \/ /\ Moves(p, "kill", "post", "dead") /\ port = NoPid
     /\ UNCHANGED <<shared, left>> /\ read'[p] = read[p]
  \/ /\ role[p] = "kill" /\ pc[p] = "post" /\ port \in Pid /\ role[port] = "daemon" /\ Same({p, port})
     /\ pc'[p] = "dead" /\ pc'[port] = "stop" /\ pc[port] \in {"serve", "stop"}
     /\ UNCHANGED <<role, shared, left, shell, read>>
  \/ Moves(p, "kill", "look", "judge") /\ UNCHANGED <<shared, left>> /\ read'[p] = file
  \/ /\ Moves(p, "kill", "judge", "signal") /\ Alive(read[p])
     /\ UNCHANGED <<shared, left>> /\ read'[p] = read[p]
  \/ /\ Moves(p, "kill", "judge", "remove") /\ ~Alive(read[p])
     /\ UNCHANGED <<shared, left>> /\ read'[p] = read[p]
  \/ /\ role[p] = "kill" /\ pc[p] = "signal" /\ Alive(read[p]) /\ read[p] # p /\ Same({p, read[p]})
     /\ pc'[p] = "remove" /\ pc'[read[p]] = "dead"
     /\ read'[p] = read[p] /\ read'[read[p]] = Absent
     /\ holds' = holds \ {read[p]} /\ port' = (IF port = read[p] THEN NoPid ELSE port)
     /\ UNCHANGED <<role, file, left, shell>>
  \/ /\ Ends(p, "kill", "signal") /\ ~Alive(read[p])
     /\ UNCHANGED <<file, left>> /\ holds' = holds \ {p}
  \/ /\ Moves(p, "kill", "remove", "dead") /\ file' = Absent /\ holds' = {}
     /\ UNCHANGED <<port, left>> /\ read'[p] = read[p]

LEMMA KillStepEffect ==
  ASSUME DaemonAssumption, DaemonTypeOK, HostInv, NEW p \in Pid, KillStep(p)
  PROVE  KillEffect(p)
<1> USE DaemonAssumption DEF At, Go, DaemonTypeOK, KillEffect, Moves, Ends, Same, settings, shared
<1>1. CASE KillProbe(p)
  BY <1>1 DEF KillProbe
<1>2. CASE PostKill(p)
  BY <1>2 DEF PostKill
<1>3. CASE KillLook(p)
  BY <1>3 DEF KillLook, ReadPIDFile
<1>4. CASE KillJudge(p)
  BY <1>4 DEF KillJudge
<1>5. CASE Signal(p) /\ ~Alive(read[p])
  BY <1>5 DEF Signal, End, Gone
<1>6. CASE Signal(p) /\ Alive(read[p])
  <2>1. read[p] \in Pid /\ read[p] # p
    BY <1>6 DEF Signal, Alive, HostInv, Named, Wrote
  <2> QED BY <1>6, <2>1 DEF Signal
<1>7. CASE KillRemove(p)
  BY <1>7 DEF KillRemove, Remove
<1> QED BY <1>1, <1>2, <1>3, <1>4, <1>5, <1>6, <1>7 DEF KillStep

(* A command that begins, and the node that an interface starts. *)
RunEffect(p) ==
  /\ Same({p}) /\ pc[p] = "unused" /\ pc'[p] \in {"probe", "dead"} /\ role'[p] \in Commands
  /\ read'[p] = read[p] /\ UNCHANGED <<shared, shell>>
  /\ \E r \in Commands : Spend(r) /\ (role'[p] = "kill" => r = "kill")

LEMMA RunStepEffect ==
  ASSUME DaemonAssumption, DaemonTypeOK, NEW p \in Pid, NEW r \in Commands, Run(p, r)
  PROVE  RunEffect(p)
<1> DEFINE args == IF r = "daemon"
                   THEN [shell.args EXCEPT !["daemon"] = 1, !["server"] = Unset, !["d"] = Unset]
                   ELSE shell.args
<1>1. /\ pc[p] = "unused" /\ pc' = [pc EXCEPT ![p] = Begin(r, args)] /\ Start(p, r, args)
      /\ Spend(r) /\ UNCHANGED <<shared, read, child, shell>>
  BY DEF Run, Fresh, Go
<1> HIDE DEF args
<1>2. Role(r, args) \in Commands /\ (Role(r, args) = "kill" => r = "kill")
  BY DEF Role, Commands
<1> QED BY <1>1, <1>2 DEF RunEffect, Same, Begin, Start, DaemonTypeOK

SpawnEffect(p, q) ==
  /\ Same({p, q}) /\ p # q /\ role[p] = "tui" /\ role'[p] = "tui" /\ pc[p] = "spawn" /\ pc'[p] = "look"
  /\ pc[q] = "unused" /\ pc'[q] = "probe" /\ role'[q] = "daemon"
  /\ UNCHANGED <<shared, read, left, shell>>

LEMMA SpawnStepEffect ==
  ASSUME DaemonAssumption, DaemonInv, NEW p \in Pid, NEW q \in Pid, Spawn(p, q)
  PROVE  SpawnEffect(p, q)
<1>1. pc' = [pc EXCEPT ![p] = "look", ![q] = "probe"] /\ p # q /\ role'[q] = "daemon"
  BY SpawnedChild
<1>2. /\ pc[p] = "spawn" /\ role[p] = "tui" /\ pc[q] = "unused"
      /\ role' = [role EXCEPT ![q] = Role("daemon", parseArgs(shell.env, shell.args))]
      /\ UNCHANGED <<shared, read, shell, left>>
  BY DEF Spawn, At, Fresh, Start
<1> QED BY <1>1, <1>2 DEF SpawnEffect, Same, DaemonInv, DaemonTypeOK

(* What a step does. *)
Effect ==
  \/ \E p \in Pid : DaemonEffect(p) \/ KillEffect(p) \/ TuiEffect(p) \/ CrashEffect(p) \/ RunEffect(p)
  \/ \E p \in Pid, q \in Pid : SpawnEffect(p, q)

LEMMA StepEffect ==
  ASSUME DaemonAssumption, DaemonInv, HostInv, Next
  PROVE  Effect
<1>1. DaemonTypeOK
  BY DEF DaemonInv
<1> QED
  BY <1>1, DaemonStepEffect, KillStepEffect, TuiStepEffect, CrashStepEffect, RunStepEffect, SpawnStepEffect
     DEF Effect, Next, Step, TuiStep

-----------------------------------------------------------------------------
(* Places, the port, and who is named. *)

(* Nobody has done anything at the start. *)
LEMMA HostStart == ASSUME DaemonAssumption, Init PROVE HostInv
BY DaemonAssumption DEF Init, HostInv, InPlace, PortHeld, Named, At

(* Who has written the file has, and nobody else is ever named. *)
LEMMA NamedNext ==
  ASSUME DaemonAssumption, DaemonTypeOK, Named,
         \A q \in Pid : Wrote(q) => Wrote(q)',
         file' \in {file, Absent, Garbage} \/ Wrote(file)',
         \A r \in Pid : read'[r] \in {read[r], Absent, file}
  PROVE  Named'
<1>1. file' \in Pid => Wrote(file)'
  <2>1. CASE file' \in {Absent, Garbage}
    BY <2>1, DaemonAssumption
  <2>2. CASE file' = file /\ file \in Pid
    BY <2>2 DEF Named, Wrote
  <2> QED BY <2>1, <2>2
<1>2. ASSUME NEW r \in Pid, read'[r] \in Pid PROVE Wrote(read[r])'
  <2>1. read'[r] # Absent
    BY <1>2, DaemonAssumption
  <2>2. CASE read'[r] = read[r]
    BY <1>2, <2>2 DEF Named, Wrote
  <2>3. CASE read'[r] = file
    BY <1>2, <2>3 DEF Named, Wrote
  <2> QED BY <1>2, <2>1, <2>2, <2>3
<1> QED BY <1>1, <1>2 DEF Named

(* Every step keeps the places, the port and the names. *)
LEMMA HostNext == ASSUME DaemonAssumption, DaemonInv, HostInv, Effect PROVE HostInv'
<1> USE DaemonAssumption DEF HostInv, Same, shared
<1>1. DaemonTypeOK
  BY DEF DaemonInv
<1>2. ASSUME NEW p \in Pid, DaemonEffect(p) PROVE HostInv'
  <2>1. InPlace'
    BY <1>1, <1>2 DEF DaemonEffect, Moves, Ends, InPlace, DaemonPlaces
  <2>2. PortHeld'
    BY <1>1, <1>2 DEF DaemonEffect, Moves, Ends, PortHeld, At, DaemonTypeOK
  <2>3. \A q \in Pid : Wrote(q) => Wrote(q)'
    BY <1>2 DEF DaemonEffect, Moves, Ends, Wrote
  <2>4. file' \in {file, Absent, Garbage} \/ Wrote(file)'
    BY <1>1, <1>2 DEF DaemonEffect, Moves, Ends, Wrote, DaemonTypeOK
  <2>5. \A r \in Pid : read'[r] \in {read[r], Absent, file}
    BY <1>1, <1>2 DEF DaemonEffect, Moves, Ends
  <2> QED BY <1>1, <2>1, <2>2, <2>3, <2>4, <2>5, NamedNext
<1>3. ASSUME NEW p \in Pid, KillEffect(p) PROVE HostInv'
  <2>1. InPlace'
    <3>1. \A q \in Pid : Wrote(q) => role[q] = "daemon"
      BY DEF Wrote
    <3>2. pc[p] = "signal" /\ Alive(read[p]) => read[p] \in Pid /\ role[read[p]] = "daemon"
      BY <3>1 DEF Named, Alive
    <3> QED BY <1>1, <1>3, <3>2 DEF KillEffect, Moves, Ends, InPlace, DaemonPlaces, KillPlaces
  <2>2. PortHeld'
    BY <1>1, <1>3 DEF KillEffect, Moves, Ends, PortHeld, At, Alive, DaemonTypeOK
  <2>3. \A q \in Pid : Wrote(q) => Wrote(q)'
    BY <1>1, <1>3 DEF KillEffect, Moves, Ends, Wrote, Alive, DaemonTypeOK
  <2>4. file' \in {file, Absent, Garbage}
    BY <1>3 DEF KillEffect, Moves, Ends
  <2>5. \A r \in Pid : read'[r] \in {read[r], Absent, file}
    BY <1>1, <1>3 DEF KillEffect, Moves, Ends
  <2> QED BY <1>1, <2>1, <2>2, <2>3, <2>4, <2>5, NamedNext
<1>4. ASSUME NEW p \in Pid, TuiEffect(p) \/ CrashEffect(p) \/ RunEffect(p) PROVE HostInv'
  <2>1. InPlace'
    <3>1. CASE TuiEffect(p)
      BY <3>1 DEF TuiEffect, InPlace
    <3>2. CASE CrashEffect(p)
      BY <3>2 DEF CrashEffect, Ends, Moves, InPlace, DaemonPlaces
    <3>3. CASE RunEffect(p)
      BY <3>3 DEF RunEffect, InPlace, DaemonPlaces, TuiPlaces, KillPlaces, Commands
    <3> QED BY <1>4, <3>1, <3>2, <3>3
  <2>2. PortHeld'
    <3>1. CASE TuiEffect(p)
      BY <1>1, <3>1 DEF TuiEffect, PortHeld, At, DaemonTypeOK
    <3>2. CASE CrashEffect(p)
      BY <3>2 DEF CrashEffect, Ends, Moves, PortHeld, At
    <3>3. CASE RunEffect(p)
      <4>1. port' = port /\ pc'[p] \notin {"serve", "stop"}
        BY <3>3 DEF RunEffect
      <4>2. \A r \in Pid \ {p} : pc'[r] = pc[r] /\ role'[r] = role[r]
        BY <3>3 DEF RunEffect
      <4> QED BY <4>1, <4>2 DEF PortHeld, At
    <3> QED BY <1>4, <3>1, <3>2, <3>3
  <2>3. \A q \in Pid : Wrote(q) => Wrote(q)'
    BY <1>4 DEF TuiEffect, CrashEffect, RunEffect, Moves, Ends, Wrote
  <2>4. file' = file
    BY <1>4 DEF TuiEffect, CrashEffect, RunEffect
  <2>5. \A r \in Pid : read'[r] \in {read[r], Absent}
    BY <1>4 DEF TuiEffect, CrashEffect, RunEffect, Moves, Ends
  <2> QED BY <1>1, <2>1, <2>2, <2>3, <2>4, <2>5, NamedNext
<1>5. ASSUME NEW p \in Pid, NEW q \in Pid, SpawnEffect(p, q) PROVE HostInv'
  <2>1. InPlace'
    BY <1>5 DEF SpawnEffect, InPlace, DaemonPlaces, TuiPlaces
  <2>2. PortHeld'
    BY <1>1, <1>5 DEF SpawnEffect, PortHeld, At, DaemonTypeOK
  <2>3. \A r \in Pid : Wrote(r) => Wrote(r)'
    BY <1>5 DEF SpawnEffect, Wrote
  <2>4. UNCHANGED <<file, read>>
    BY <1>5 DEF SpawnEffect
  <2> QED BY <1>1, <2>1, <2>2, <2>3, <2>4, NamedNext
<1> QED BY <1>2, <1>3, <1>4, <1>5 DEF Effect

-----------------------------------------------------------------------------
(* The file. *)

(* A node's step leaves somebody to remove the file. *)
LEMMA RemovedDaemon ==
  ASSUME DaemonAssumption, DaemonTypeOK, HostInv, Removed, NEW p \in Pid, DaemonEffect(p)
  PROVE  Removed'
<1> USE DaemonAssumption DEF Same, shared, Alive, At
<1>1. ASSUME NEW k \in Pid, At(k, "kill", "remove") PROVE Removed'
  <2>1. k # p /\ At(k, "kill", "remove")'
    BY <1>1 DEF DaemonEffect, Moves, Ends
  <2> QED BY <2>1 DEF Removed
<1>2. CASE file = Absent
  BY <1>2 DEF DaemonEffect, Moves, Ends, Removed, DaemonTypeOK
<1>3. CASE file = Garbage /\ holds # {}
  <2>1. pc[p] # "write" => p \notin holds
    BY DEF DaemonTypeOK
  <2> QED BY <1>3, <2>1 DEF DaemonEffect, Moves, Ends, Removed, DaemonTypeOK
<1>4. CASE file \in Pid /\ Alive(file) /\ (pc[file] = "compare" => read[file] = file)
  <2>1. file = p => pc[p] \notin {"probe", "judge"}
    BY <1>4 DEF HostInv, Named, Wrote
  <2>2. CASE file = p
    BY <1>4, <2>1, <2>2 DEF DaemonEffect, Moves, Ends, Removed
  <2>3. CASE file # p
    BY <1>4, <2>3 DEF DaemonEffect, Moves, Ends, Removed
  <2> QED BY <2>2, <2>3
<1> QED BY <1>1, <1>2, <1>3, <1>4 DEF Removed

(* So does a step of a kill: the node it signals leaves the file to it. *)
LEMMA RemovedKill ==
  ASSUME DaemonAssumption, DaemonTypeOK, HostInv, Removed, NEW p \in Pid, KillEffect(p)
  PROVE  Removed'
<1> USE DaemonAssumption DEF Same, shared, Alive, At
<1>1. CASE (pc[p] = "signal" /\ Alive(read[p])) \/ pc[p] = "remove"
  BY <1>1 DEF KillEffect, Moves, Ends, Removed
<1>2. CASE ~((pc[p] = "signal" /\ Alive(read[p])) \/ pc[p] = "remove")
  <2>1. file' = file /\ holds' = holds
    <3>1. role[p] = "kill" => p \notin holds
      BY DEF DaemonTypeOK
    <3> QED BY <1>2, <3>1 DEF KillEffect, Moves, Ends
  <2>2. \A k \in Pid : At(k, "kill", "remove") => At(k, "kill", "remove")'
    BY <1>2 DEF KillEffect, Moves, Ends
  <2>3. file \in Pid => role[file] = "daemon"
    BY DEF HostInv, Named, Wrote
  <2>4. file \in Pid /\ Alive(file) /\ (pc[file] = "compare" => read[file] = file) =>
          Alive(file)' /\ (pc'[file] = "compare" => read'[file] = file)
    BY <1>2, <2>3 DEF KillEffect, Moves, Ends
  <2> QED BY <2>1, <2>2, <2>4 DEF Removed
<1> QED BY <1>1, <1>2

(* So do the steps of an interface and the beginning of a command. *)
LEMMA RemovedOther ==
  ASSUME DaemonAssumption, DaemonTypeOK, HostInv, Removed, NEW p \in Pid, NEW q \in Pid,
         TuiEffect(p) \/ RunEffect(p) \/ SpawnEffect(p, q)
  PROVE  Removed'
<1> USE DaemonAssumption DEF Same, shared, Alive, At
<1>1. file' = file /\ holds' = holds
  <2>1. role[p] = "tui" => p \notin holds
    BY DEF DaemonTypeOK
  <2> QED BY <2>1 DEF TuiEffect, RunEffect, SpawnEffect
<1>2. \A k \in Pid : At(k, "kill", "remove") => At(k, "kill", "remove")'
  BY DEF TuiEffect, RunEffect, SpawnEffect
<1>3. file \in Pid => role[file] = "daemon"
  BY DEF HostInv, Named, Wrote
<1>4. file \in Pid /\ Alive(file) /\ (pc[file] = "compare" => read[file] = file) =>
        Alive(file)' /\ (pc'[file] = "compare" => read'[file] = file)
  BY <1>3 DEF TuiEffect, RunEffect, SpawnEffect
<1> QED BY <1>1, <1>2, <1>4 DEF Removed

(* Only a crash spends crashes. *)
LEMMA CrashesLeft ==
  ASSUME DaemonTypeOK, Effect
  PROVE  /\ shell' = shell
         /\ \/ left'["crash"] = left["crash"] - 1
            \/ /\ left'["crash"] = left["crash"]
               /\ \E p, q \in Pid : \/ DaemonEffect(p) \/ KillEffect(p) \/ TuiEffect(p) \/ RunEffect(p)
                                    \/ SpawnEffect(p, q)
<1>1. ASSUME NEW e \in (Mishaps \ {"crash"}) \cup Commands, Spend(e) PROVE left'["crash"] = left["crash"]
  BY <1>1 DEF Spend, DaemonTypeOK, Mishaps, Commands
<1>2. ASSUME Spend("crash") PROVE left'["crash"] = left["crash"] - 1
  BY <1>2 DEF Spend, DaemonTypeOK, Mishaps
<1> USE DEF Moves, Ends, Silent, Answers, Mishaps
<1>3. ASSUME NEW p \in Pid, DaemonEffect(p) PROVE shell' = shell /\ left'["crash"] = left["crash"]
  BY <1>1, <1>3 DEF DaemonEffect
<1>4. ASSUME NEW p \in Pid, KillEffect(p) PROVE shell' = shell /\ left'["crash"] = left["crash"]
  BY <1>1, <1>4 DEF KillEffect
<1>5. ASSUME NEW p \in Pid, TuiEffect(p) PROVE shell' = shell /\ left'["crash"] = left["crash"]
  BY <1>1, <1>5 DEF TuiEffect
<1>6. ASSUME NEW p \in Pid, RunEffect(p) PROVE shell' = shell /\ left'["crash"] = left["crash"]
  BY <1>1, <1>6 DEF RunEffect
<1>7. ASSUME NEW p \in Pid, NEW q \in Pid, SpawnEffect(p, q)
      PROVE  shell' = shell /\ left'["crash"] = left["crash"]
  BY <1>7 DEF SpawnEffect
<1>8. ASSUME NEW p \in Pid, CrashEffect(p) PROVE shell' = shell /\ left'["crash"] = left["crash"] - 1
  BY <1>2, <1>8 DEF CrashEffect
<1> HIDE DEF Moves, Ends, Silent, Answers, Mishaps
<1> QED BY <1>3, <1>4, <1>5, <1>6, <1>7, <1>8 DEF Effect

(* Every step keeps the account of the file. *)
LEMMA FileNext ==
  ASSUME DaemonAssumption, DaemonInv, HostInv, FileInv, Effect
  PROVE  FileInv'
<1>1. DaemonTypeOK /\ shell \in Shells
  BY DEF DaemonInv
<1>2. left["crash"] \in Nat /\ shell.events["crash"] \in Nat
  BY <1>1, DaemonAssumption DEF DaemonTypeOK, Mishaps
<1>3. CASE left'["crash"] = left["crash"] - 1
  BY <1>1, <1>2, <1>3, CrashesLeft DEF FileInv
<1>4. CASE left'["crash"] = left["crash"] /\ Removed'
  BY <1>1, <1>4, CrashesLeft DEF FileInv
<1>5. CASE left'["crash"] = left["crash"] /\ left["crash"] # shell.events["crash"]
  BY <1>1, <1>5, CrashesLeft DEF FileInv
<1>6. ASSUME Removed, NEW p \in Pid, NEW q \in Pid,
             DaemonEffect(p) \/ KillEffect(p) \/ TuiEffect(p) \/ RunEffect(p) \/ SpawnEffect(p, q)
      PROVE  Removed'
  BY <1>1, <1>6, RemovedDaemon, RemovedKill, RemovedOther
<1> QED BY <1>1, <1>3, <1>4, <1>5, <1>6, CrashesLeft DEF FileInv

(* Nothing has crashed at the start, and there is no file. *)
LEMMA FileStart == ASSUME DaemonAssumption, Init PROVE FileInv
<1>1. left["crash"] = shell.events["crash"] /\ shell.events["crash"] \in Nat
  BY DaemonAssumption DEF Init, Mishaps
<1> QED BY <1>1 DEF Init, FileInv, Removed

-----------------------------------------------------------------------------
(* Who serves in the end. *)

(* What is spent on a mishap or on a kill is seen to be spent. *)
LEMMA SpentMishap ==
  ASSUME DaemonTypeOK, NEW e \in Mishaps \cup {"kill"}, Spend(e)
  PROVE  Mishap
<1>1. e \in Mishaps \cup Commands /\ left[e] \in Nat
  BY DEF DaemonTypeOK, Commands
<1>2. left' = [left EXCEPT ![e] = left[e] - 1]
  BY DEF Spend
<1>3. left'[e] = left[e] - 1
  BY <1>1, <1>2 DEF DaemonTypeOK
<1>4. left'[e] # left[e]
  BY <1>1, <1>3
<1> QED BY <1>4 DEF Mishap

(* And so is a node whose sockets do not open, whatever the reason. *)
LEMMA SocketFailed ==
  ASSUME NEW p \in Pid, role[p] = "daemon", pc[p] = "socket", pc'[p] = "cleanup"
  PROVE  Mishap
BY DEF Mishap, SocketFails, At

(* Undisturbed, the port is free before a step when it is free after it. *)
LEMMA FreeBefore ==
  ASSUME DaemonAssumption, DaemonTypeOK, HostInv, Effect, Undisturbed, ~Mishap, port' = NoPid
  PROVE  port = NoPid
<1> SUFFICES ASSUME port # NoPid PROVE FALSE
  OBVIOUS
<1>1. port \in Pid /\ role[port] = "daemon" /\ pc[port] = "serve"
  BY DEF DaemonTypeOK, Undisturbed, At
<1> USE DaemonAssumption DEF Moves, Ends, Same, shared
<1>2. ASSUME NEW p \in Pid, DaemonEffect(p) PROVE FALSE
  BY <1>1, <1>2 DEF DaemonEffect, Undisturbed
<1>3. ASSUME NEW p \in Pid, KillEffect(p) PROVE FALSE
  <2>1. role[p] = "kill" /\ pc[p] \notin {"unused", "dead"}
    BY <1>3 DEF KillEffect
  <2> QED BY <2>1 DEF Undisturbed, Alive
<1>4. ASSUME NEW p \in Pid, TuiEffect(p) PROVE FALSE
  BY <1>1, <1>4 DEF TuiEffect
<1>5. ASSUME NEW p \in Pid, CrashEffect(p) PROVE FALSE
  BY <1>5, SpentMishap DEF CrashEffect, Mishaps
<1>6. ASSUME NEW p \in Pid, NEW q \in Pid, RunEffect(p) \/ SpawnEffect(p, q) PROVE FALSE
  BY <1>1, <1>6 DEF RunEffect, SpawnEffect
<1> QED BY <1>2, <1>3, <1>4, <1>5, <1>6 DEF Effect

(* Who gives way gives way to another that is on its way to the port. *)
LEMMA GivesWay ==
  ASSUME DaemonAssumption, HostInv, Undisturbed, port = NoPid,
         NEW q \in Pid, read[q] \in Pid, Alive(read[q])
  PROVE  Coming(read[q])
<1>1. Wrote(read[q])
  BY DEF HostInv, Named
<1>2. ~At(read[q], "daemon", "serve")
  BY DaemonAssumption DEF HostInv, PortHeld
<1> QED BY <1>1, <1>2 DEF Wrote, Coming, Undisturbed, Alive, At

(* As long as nothing disturbs them, somebody is on the way. *)
LEMMA StillComing ==
  ASSUME DaemonAssumption, DaemonTypeOK, HostInv, Effect, Undisturbed, ~Mishap,
         port = NoPid, port' = NoPid, \E p \in Pid : Coming(p)
  PROVE  Undisturbed' /\ \E p \in Pid : Coming(p)'
<1> PICK c \in Pid : Coming(c)
  OBVIOUS
<1> USE DaemonAssumption DEF Moves, Ends, Same, shared
<1>1. ASSUME NEW p \in Pid, DaemonEffect(p) PROVE Undisturbed' /\ \E q \in Pid : Coming(q)'
  <2>1. ~Moves(p, "daemon", "socket", "cleanup")
    BY SocketFailed DEF Moves
  <2>2. Undisturbed'
    BY <1>1, <2>1 DEF DaemonEffect, Undisturbed, Alive
  <2>3. CASE c # p
    BY <1>1, <2>2, <2>3 DEF DaemonEffect, Coming
  <2>4. CASE c = p /\ ~(pc[p] = "judge" /\ read[p] # p /\ Alive(read[p]))
    BY <1>1, <2>1, <2>2, <2>4 DEF DaemonEffect, Coming, Answers
  <2>5. CASE c = p /\ pc[p] = "judge" /\ read[p] # p /\ Alive(read[p])
    <3>1. PICK g \in Pid : g = read[p]
      BY <2>5 DEF Alive
    <3>2. g # p /\ Coming(g)
      BY <2>5, <3>1, GivesWay
    <3>3. Coming(g)'
      BY <1>1, <3>2 DEF DaemonEffect, Coming
    <3> QED BY <2>2, <3>3
  <2> QED BY <2>2, <2>3, <2>4, <2>5
<1>2. ASSUME NEW p \in Pid, KillEffect(p) PROVE FALSE
  <2>1. role[p] = "kill" /\ pc[p] \notin {"unused", "dead"}
    BY <1>2 DEF KillEffect
  <2> QED BY <2>1 DEF Undisturbed, Alive
<1>3. ASSUME NEW p \in Pid, CrashEffect(p) PROVE FALSE
  BY <1>3, SpentMishap DEF CrashEffect, Mishaps
<1>4. ASSUME NEW p \in Pid, TuiEffect(p) PROVE Undisturbed' /\ Coming(c)'
  BY <1>4 DEF TuiEffect, Undisturbed, Coming, Alive
<1>5. ASSUME NEW p \in Pid, RunEffect(p) PROVE Undisturbed' /\ Coming(c)'
  <2>1. role'[p] # "kill"
    BY <1>5, SpentMishap DEF RunEffect
  <2> QED BY <1>5, <2>1 DEF RunEffect, Undisturbed, Coming, Alive
<1>6. ASSUME NEW p \in Pid, NEW q \in Pid, SpawnEffect(p, q) PROVE Undisturbed' /\ Coming(c)'
  BY <1>6 DEF SpawnEffect, Undisturbed, Coming, Alive
<1> QED BY <1>1, <1>2, <1>3, <1>4, <1>5, <1>6 DEF Effect

(* Every step, with the history, keeps the promise. *)
LEMMA OwedNext ==
  ASSUME DaemonAssumption, DaemonInv, HostInv, OwedInv, Effect, History
  PROVE  OwedInv'
<1>1. DaemonTypeOK
  BY DEF DaemonInv
<1> SUFFICES ASSUME owed' PROVE port' = NoPid /\ Undisturbed' /\ \E p \in Pid : Coming(p)'
  BY DEF OwedInv
<1>2. /\ ~Mishap /\ port' = NoPid
      /\ owed \/ (Undisturbed /\ \E p \in Pid : At(p, "daemon", "probe"))
  <2>1. owed' = (/\ ~Mishap /\ port' = NoPid
                 /\ owed \/ (Undisturbed /\ \E p \in Pid : At(p, "daemon", "probe")))
    BY DEF History
  <2> QED BY <2>1
<1>3. Undisturbed /\ \E p \in Pid : Coming(p)
  BY <1>2 DEF OwedInv, Coming, At
<1> QED BY <1>1, <1>2, <1>3, FreeBefore, StillComing

-----------------------------------------------------------------------------
(* Whom a kill is after. *)

(* A node that is tracked stays so, as long as it serves. *)
LEMMA TrackedNext ==
  ASSUME DaemonAssumption, DaemonTypeOK, HostInv, Effect, NEW q \in Pid, Tracked(q),
         role[q] = "daemon", pc[q] = "serve", pc'[q] = "serve"
  PROVE  Tracked(q)'
<1> USE DaemonAssumption DEF Moves, Ends, Same, shared
<1>1. port = q
  BY DEF HostInv, PortHeld, At
<1>2. ASSUME NEW p \in Pid, DaemonEffect(p) PROVE Tracked(q)'
  <2>1. /\ file = q /\ holds = {} /\ role[p] = "daemon" /\ role'[p] = "daemon" /\ p # q
        /\ \A r \in Pid \ {p} : pc'[r] = pc[r] /\ role'[r] = role[r] /\ read'[r] = read[r]
    BY <1>2 DEF DaemonEffect, Tracked
  <2>2. Alive(q) /\ q # NoPid
    BY <1>1 DEF Alive
  <2>3. pc[p] \notin {"open", "write"} /\ (pc[p] = "judge" => read[p] = q) /\ (pc[p] = "compare" => read[p] # p)
    BY <2>1 DEF Tracked
  <2>4. file' = q /\ holds' = {}
    BY <1>2, <2>1, <2>3 DEF DaemonEffect
  <2>5. /\ pc'[p] \notin {"open", "write"} /\ (pc'[p] = "judge" => read'[p] = q)
        /\ pc'[p] = "compare" => read'[p] # p
    BY <1>2, <2>1, <2>2, <2>3 DEF DaemonEffect
  <2> QED BY <2>1, <2>4, <2>5 DEF Tracked
<1>3. ASSUME NEW p \in Pid, KillEffect(p) PROVE Tracked(q)'
  BY <1>1, <1>3 DEF KillEffect, Tracked, Alive
<1>4. ASSUME NEW p \in Pid, TuiEffect(p) PROVE Tracked(q)'
  BY <1>4 DEF TuiEffect, Tracked
<1>5. ASSUME NEW p \in Pid, CrashEffect(p) PROVE Tracked(q)'
  BY <1>5 DEF CrashEffect, Tracked
<1>6. ASSUME NEW p \in Pid, RunEffect(p) PROVE Tracked(q)'
  BY <1>6 DEF RunEffect, Tracked
<1>7. ASSUME NEW p \in Pid, NEW u \in Pid, SpawnEffect(p, u) PROVE Tracked(q)'
  BY <1>7 DEF SpawnEffect, Tracked
<1> QED BY <1>2, <1>3, <1>4, <1>5, <1>6, <1>7 DEF Effect

(* A node that serves or has served goes on or ends. *)
LEMMA ServedNext ==
  ASSUME DaemonAssumption, HostInv, Effect, NEW q \in Pid, role[q] = "daemon",
         pc[q] \in {"serve", "stop", "cleanup", "compare", "dead"}
  PROVE  /\ role'[q] = "daemon" /\ pc'[q] \in {"serve", "stop", "cleanup", "compare", "dead"}
         /\ pc'[q] = "serve" => pc[q] = "serve"
<1> USE DaemonAssumption DEF Moves, Ends, Same, shared
<1>1. ASSUME NEW p \in Pid, DaemonEffect(p)
      PROVE  /\ role'[q] = "daemon" /\ pc'[q] \in {"serve", "stop", "cleanup", "compare", "dead"}
             /\ pc'[q] = "serve" => pc[q] = "serve"
  BY <1>1 DEF DaemonEffect
<1>2. ASSUME NEW p \in Pid, KillEffect(p)
      PROVE  /\ role'[q] = "daemon" /\ pc'[q] \in {"serve", "stop", "cleanup", "compare", "dead"}
             /\ pc'[q] = "serve" => pc[q] = "serve"
  BY <1>2 DEF KillEffect
<1>3. ASSUME NEW p \in Pid, NEW u \in Pid,
             TuiEffect(p) \/ CrashEffect(p) \/ RunEffect(p) \/ SpawnEffect(p, u)
      PROVE  /\ role'[q] = "daemon" /\ pc'[q] \in {"serve", "stop", "cleanup", "compare", "dead"}
             /\ pc'[q] = "serve" => pc[q] = "serve"
  BY <1>3 DEF TuiEffect, CrashEffect, RunEffect, SpawnEffect
<1> QED BY <1>1, <1>2, <1>3 DEF Effect

(* A kill that has begun is moved by its own steps only. *)
LEMMA KillMoves ==
  ASSUME DaemonAssumption, HostInv, Effect, NEW k \in Pid, role[k] = "kill", pc[k] # "unused"
  PROVE  role'[k] = "kill" /\ (pc'[k] = pc[k] \/ KillEffect(k))
<1> USE DaemonAssumption DEF Moves, Ends, Same, shared
<1>1. ASSUME NEW p \in Pid, DaemonEffect(p) PROVE role'[k] = "kill" /\ pc'[k] = pc[k]
  BY <1>1 DEF DaemonEffect
<1>2. ASSUME NEW p \in Pid, p # k, KillEffect(p) PROVE role'[k] = "kill" /\ pc'[k] = pc[k]
  <2>1. read[p] \in Pid => role[read[p]] = "daemon"
    BY DEF HostInv, Named, Wrote
  <2> QED BY <1>2, <2>1 DEF KillEffect, Alive
<1>3. KillEffect(k) => role'[k] = "kill"
  BY DEF KillEffect
<1>4. ASSUME NEW p \in Pid, NEW u \in Pid,
             TuiEffect(p) \/ CrashEffect(p) \/ RunEffect(p) \/ SpawnEffect(p, u)
      PROVE  role'[k] = "kill" /\ pc'[k] = pc[k]
  BY <1>4 DEF TuiEffect, CrashEffect, RunEffect, SpawnEffect
<1> QED BY <1>1, <1>2, <1>3, <1>4 DEF Effect

(* Every step, with the history, keeps each kill on the way to its node. *)
LEMMA TargetNext ==
  ASSUME DaemonAssumption, DaemonInv, HostInv, TargetInv, Effect, History
  PROVE  TargetInv'
<1>1. DaemonTypeOK
  BY DEF DaemonInv
<1> SUFFICES ASSUME NEW k \in Pid, target'[k] # NoPid
             PROVE  \E q \in Pid : target'[k] = q /\ Chased(k, q)'
  BY DEF TargetInv, Chased, Tracked
<1>2. CASE At(k, "kill", "probe") /\ pc'[k] # "probe" /\ port # NoPid /\ Steady(port)
  <2>1. PICK q \in Pid : q = port
    BY <1>1, <1>2 DEF DaemonTypeOK
  <2>2. target'[k] = q
    BY <1>2, <2>1 DEF History
  <2>3. role[q] = "daemon" /\ pc[q] \in {"serve", "stop"}
    BY <1>1, <2>1, DaemonAssumption DEF DaemonTypeOK, At
  <2>4. pc[q] = "serve" => Tracked(q)
    BY <1>2, <2>1 DEF Steady, Tracked
  <2>5. role'[k] = "kill" /\ pc'[k] \in {"post", "look"}
    BY <1>2, KillMoves DEF KillEffect, Moves, Ends, At
  <2>6. Chased(k, q)'
    BY <1>1, <2>3, <2>4, <2>5, ServedNext, TrackedNext DEF Chased
  <2> QED BY <2>2, <2>6
<1>3. CASE ~(At(k, "kill", "probe") /\ pc'[k] # "probe" /\ port # NoPid /\ Steady(port))
  <2>1. target'[k] = target[k]
    BY <1>3 DEF History
  <2>2. PICK q \in Pid : q = target[k]
    BY <2>1 DEF TargetInv
  <2>3. /\ role[q] = "daemon" /\ role[k] = "kill"
        /\ pc[q] \in {"serve", "stop", "cleanup", "compare", "dead"}
        /\ pc[q] = "serve" => Tracked(q) /\ pc[k] \in {"post", "look", "judge", "signal"}
    BY <2>1, <2>2 DEF TargetInv, Chased
  <2>4. role'[k] = "kill"
    BY <2>3, KillMoves DEF HostInv, InPlace, KillPlaces
  <2>5. ASSUME pc[q] = "serve", pc'[q] = "serve" PROVE pc'[k] \in {"post", "look", "judge", "signal"}
    <3>1. port = q
      BY <2>3, <2>5 DEF HostInv, PortHeld, At
    <3>2. pc[k] \in {"judge", "signal"} => read[k] = q
      BY <2>3, <2>5 DEF Tracked
    <3>3. Alive(q)
      BY <2>5 DEF Alive
    <3> QED BY <2>3, <2>5, <3>1, <3>2, <3>3, KillMoves, DaemonAssumption DEF KillEffect, Moves, Ends
  <2>6. Chased(k, q)'
    BY <1>1, <2>3, <2>4, <2>5, ServedNext, TrackedNext DEF Chased
  <2> QED BY <2>1, <2>2, <2>6
<1> QED BY <1>2, <1>3

-----------------------------------------------------------------------------
(* The theorems. *)

AllInv == DaemonInv /\ HostInv /\ FileInv /\ OwedInv /\ TargetInv

(* All of it holds, together, of every history. *)
THEOREM AllInvHolds == HSpec => []AllInv
<1>1. HInit => AllInv
  BY DaemonAssumption, DaemonStart, HostStart, FileStart DEF HInit, AllInv, OwedInv, TargetInv
<1>2. AllInv /\ [Next /\ History]_hvars => AllInv'
  <2>1. CASE Next /\ History
    BY <2>1, DaemonAssumption, DaemonNext, StepEffect, HostNext, FileNext, OwedNext, TargetNext
       DEF AllInv
  <2>2. CASE UNCHANGED hvars
    BY <2>2 DEF hvars, vars, settings, AllInv, DaemonInv, DaemonTypeOK, SettingsInRange, TuiAsGiven, Alive, At,
       HostInv, InPlace, PortHeld, Named, Wrote, FileInv, Removed, OwedInv, Undisturbed, Coming,
       TargetInv, Chased, Tracked
  <2> QED BY <2>1, <2>2
<1> QED BY <1>1, <1>2, PTL DEF HSpec

(* When every command has ended and nothing has crashed, no node has left   *)
(* its PID file behind (removePIDFile, stopByPID, writePIDFile).            *)
THEOREM NoStaleFileHolds == HSpec => []NoStaleFile
<1>1. AllInv => NoStaleFile
  BY DEF AllInv, DaemonInv, DaemonTypeOK, FileInv, Removed, NoStaleFile, Alive, At
<1> QED BY <1>1, AllInvHolds, PTL

(* Of the nodes of one host one stays, the one that listens (StartIPCServer).*)
THEOREM OneNodeLeftHolds == HSpec => []OneNodeLeft
<1>1. ASSUME AllInv, Quiet PROVE Cardinality({p \in Pid : role[p] = "daemon" /\ Alive(p)}) <= 1
  <2> DEFINE S == {p \in Pid : role[p] = "daemon" /\ Alive(p)}
  <2>1. \A p \in S : p = port
    BY <1>1 DEF AllInv, HostInv, InPlace, DaemonPlaces, PortHeld, Quiet, At
  <2>2. S = {} \/ S = {port}
    BY <2>1
  <2>3. Cardinality(S) \in {0, 1}
    BY <2>2, FS_EmptySet, FS_Singleton
  <2> QED BY <2>3
<1>2. AllInv => OneNodeLeft
  BY <1>1 DEF OneNodeLeft
<1> QED BY <1>2, AllInvHolds, PTL

(* Of the nodes that were started together, and that nothing disturbs, one  *)
(* serves (writePIDFile, StartIPCServer).                                   *)
THEOREM SomeoneServesHolds == HSpec => []SomeoneServes
<1>1. AllInv => SomeoneServes
  BY DEF AllInv, OwedInv, Coming, SomeoneServes, Quiet, Alive
<1> QED BY <1>1, AllInvHolds, PTL

(* The node that answered to `mesh-node kill', with the PID file in order,  *)
(* has ended when the commands have (/kill, stopByPID).                     *)
THEOREM KillReachesNodeHolds == HSpec => []KillReachesNode
<1>1. AllInv => KillReachesNode
  BY DEF AllInv, TargetInv, Chased, KillReachesNode, Quiet, Alive, HostInv, InPlace, TuiPlaces
<1> QED BY <1>1, AllInvHolds, PTL
=============================================================================
