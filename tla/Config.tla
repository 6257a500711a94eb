------------------------------- MODULE Config -------------------------------
(***************************************************************************)
(* The settings of one invocation of mesh-node: what the environment says   *)
(* (config.NewConfig), what the flags say (setupCLI) and which of it a      *)
(* child is given (parseArgs).                                              *)
(*                                                                          *)
(* A number is its place among the limits that the code knows: only the     *)
(* order of numbers is used.  A switch is 0 or 1.  A list of interfaces, and *)
(* the text of one, is 2k when it is k names and nothing else, 2k + 1 when   *)
(* there is an empty part as well ("eth0,,eth1", ","); the empty text is 0.  *)
(* Left out: the log file and the log level, which are never refused.       *)
(***************************************************************************)
EXTENDS Integers

Junk == -2     \* a text that is no number
Unset == -1

zero == 0
one == 1
usual == 2     \* 20, 30, 5 or 6040
maxUint8 == 3  \* each limit is followed by the next number
maxUint16 == 5
day == 7       \* 24*60*60
maxUint32 == 9
maxInt == 11
maxUint64 == 13

Numbers == {"port", "ttl", "lifetime", "hello-interval", "id"}
Settings == Numbers \cup {"interface", "daemon"}

(* The names a flag may be given under: two flags have aliases. *)
Spelled == Settings \cup {"i", "server", "d"}
Spellings(n) ==
  CASE n = "interface" -> {"interface", "i"} [] n = "daemon" -> {"daemon", "server", "d"}
    [] OTHER -> {n}

NoArgs == [s \in Spelled |-> Unset]
NoEnv == [n \in Settings |-> Unset]

defaultConfig ==
  [n \in Settings |-> CASE n = "id" -> zero [] n = "daemon" -> 0 [] n = "interface" -> 2
                        [] OTHER -> usual]

(* Whether the environment gives n a value that applyEnv accepts. *)
EnvRange(n) ==
  CASE n = "port"           -> zero .. maxUint16
    [] n = "ttl"            -> one .. maxUint8
    [] n = "lifetime"       -> one .. maxUint32
    [] n = "hello-interval" -> one .. maxInt
    [] n = "id"             -> zero .. maxUint64
    [] n = "daemon"         -> 0 .. 1
    [] n = "interface"      -> Nat

(* A list with an empty name in it. *)
HasUnnamed(list) == list % 2 = 1

(* The names in a text, without its empty parts. *)
splitInterfaces(text) == 2 * (text \div 2)

applyEnvFails(env) == \E n \in Settings : env[n] # Unset /\ env[n] \notin EnvRange(n)

(* cliFlagPresent, of one spelling. *)
cliFlagPresent(args, s) == args[s] # Unset

Given(args, n) == \E s \in Spellings(n) : cliFlagPresent(args, s)
Flag(args, n) == args[CHOOSE s \in Spellings(n) : cliFlagPresent(args, s)]

(* The library reads a flag as a 64-bit number, from the command line first *)
(* and from the environment otherwise.                                      *)
FlagRange(n) == IF n \in Numbers THEN zero .. maxUint64 ELSE Nat

(* What the library returns for a flag. *)
Value(env, args, n) ==
  IF Given(args, n) THEN Flag(args, n)
  ELSE IF env[n] # Unset THEN env[n] ELSE defaultConfig[n]

(* The list of applyEnv, which keeps the empty parts (config.go:112); an    *)
(* empty variable counts as none.                                           *)
EnvInterfaces(env) ==
  IF env["interface"] \in {Unset, 0} THEN defaultConfig["interface"] ELSE env["interface"]

(* Mutant: an empty flag stands for no interfaces. *)
Conf_EmptyList(env, args) ==
  [n \in Settings |->
     IF n # "interface" THEN Value(env, args, n) ELSE splitInterfaces(Value(env, args, n))]

(* cfg after Action: only an empty text leaves applyEnv's interfaces as     *)
(* they are.                                                                *)
Conf(env, args) ==
  [n \in Settings |->
     IF n # "interface" THEN Value(env, args, n)
     ELSE IF Value(env, args, n) = 0 THEN EnvInterfaces(env)
     ELSE splitInterfaces(Value(env, args, n))]

(* The values that Action accepts, whoever gave them: a text of interfaces  *)
(* is empty or has a name in it.                                            *)
ActionRange(n) ==
  CASE n = "port"           -> one .. maxUint16
    [] n = "ttl"            -> one .. maxUint8
    [] n = "lifetime"       -> one .. maxUint32
    [] n = "hello-interval" -> one .. day
    [] n = "interface"      -> {text \in Nat : text = 0 \/ splitInterfaces(text) # 0}
    [] OTHER                -> Nat

ActionFails(env, args) ==
  \E n \in Settings : Value(env, args, n) \notin FlagRange(n) \cap ActionRange(n)

(* Mutant: a flag is forwarded under its long name only. *)
parseArgs_LongNames(env, args) ==
  [s \in Spelled |->
     CASE s = "daemon" -> 1
       [] s \in Settings \ {"daemon"} /\ cliFlagPresent(args, s) -> Value(env, args, s)
       [] OTHER -> Unset]

(* The flags of the child: what stood on the command line and --daemon. *)
parseArgs(env, args) ==
  [s \in Spelled |->
     CASE s = "daemon" -> 1
       [] s \in Settings \ {"daemon"} /\ Given(args, s) -> Value(env, args, s)
       [] OTHER -> Unset]
=============================================================================
