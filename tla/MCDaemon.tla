------------------------------ MODULE MCDaemon ------------------------------
(* Instances of Daemon for TLC. *)
EXTENDS DaemonProps, TLC

(* Two commands start a node, with and without an interface; one kill; each *)
(* mishap once.  Nothing is set.                                            *)
OneOfEach == [events |-> [e \in Mishaps \cup Commands |-> 1], env |-> NoEnv, args |-> NoArgs]

(* One interface, with one setting in the environment and on the command    *)
(* line, each on either side of every limit.                                *)
OneTui == [e \in Mishaps \cup Commands |-> IF e = "tui" THEN 1 ELSE 0]
Values(n) ==
  CASE n = "interface" -> {Unset} \cup 0 .. 5
    [] n = "daemon" -> {Unset, Junk, 0, 1}
    [] OTHER -> {Unset, Junk} \cup zero .. maxUint64 + 1
GivenValues(n) == IF n = "daemon" THEN {Unset, 0, 1} ELSE Values(n)

OneSetting ==
  UNION {{[events |-> OneTui, env |-> [NoEnv EXCEPT ![n] = e], args |-> [NoArgs EXCEPT ![s] = a]] :
            e \in Values(n), a \in GivenValues(n), s \in Spellings(n)} : n \in Settings}

AllShells == {OneOfEach} \cup OneSetting
=============================================================================
