------------------------------- MODULE MCTui -------------------------------
(* Instances of Tui for TLC. *)
EXTENDS TuiProps, TLC

NoEvents == [e \in Budget |-> 0]
Boots == 0 .. 1

(* The log tail of an interface nobody touches. *)
LogTail == [events |-> "line" :> 4 @@ "timeout" :> 1 @@ "restart" :> 1 @@ NoEvents,
            sizes  |-> {}]

(* A user at the keyboard of a terminal that becomes too small. *)
Keyboard == [events |-> "send" :> 1 @@ "keys" :> 1 @@ "resize" :> 1 @@ NoEvents,
             sizes  |-> {<<30, 20>>, <<20, 8>>}]

(* The tables. *)
Learning == [events |-> "learn" :> 2 @@ "refuse" :> 1 @@ NoEvents, sizes |-> {}]

(* A size on either side of every limit of pickMode, updateSizes and        *)
(* layoutCompact, and one of every kind in any order.                       *)
EverySize == [events |-> "resize" :> 1 @@ NoEvents,
              sizes  |-> {23, 24, 35, 36, 63, 64, 99, 100}
                           \X {9, 10, 11, 13, 14, 21, 22, 25, 26, 29, 30, 35, 36, 50}]
AnyOrder == [events |-> "resize" :> 3 @@ NoEvents,
             sizes  |-> {<<20, 8>>, <<30, 10>>, <<40, 16>>, <<50, 32>>, <<70, 24>>, <<110, 40>>}]

AllScenarios == {LogTail, Keyboard, Learning, EverySize, AnyOrder}
=============================================================================
