-------------------------------- MODULE Tui --------------------------------
(***************************************************************************)
(* The terminal interface: Update of the Bubble Tea model, one action per   *)
(* kind of message, and the log tail that asks the node for new lines every *)
(* 750 ms.  A question may take up to 2 s (fetchLogsCmd), so several can be *)
(* under way, and their answers come in any order.  The node is another     *)
(* process: it may be restarted while the interface runs.  Layout says how  *)
(* the panels share the terminal.                                           *)
(*                                                                          *)
(* Left out: what is written in the panels, the lines the interface itself  *)
(* puts among the logs, scrolling.                                          *)
(***************************************************************************)
EXTENDS LogBuffer, Layout

CONSTANTS
  MaxFetch,  \* how many questions can be under way
  Scenarios  \* one is chosen: how often each kind of bounded event may
             \* happen, and the sizes the window may be given

Budget == {"line", "timeout", "restart", "send", "keys", "resize", "learn", "refuse"}

ASSUME TuiAssumption ==
  /\ MaxFetch \in Nat \ {0}
  /\ Scenarios # {}
  /\ \A s \in Scenarios :
       /\ s.events \in [Budget -> Nat] /\ 0 .. s.events["restart"] \subseteq Line
       /\ s.sizes \subseteq Nat \X Nat

VARIABLES
  buffer,    \* the node's log buffer
  boot,      \* how often the node was restarted; it stands for the text of its lines
  running,   \* the interface runs
  layout,    \* the size fields of the model
  focused,   \* the section that is drawn as focused
  keys,      \* the widgets whose Focused() holds
  dst,       \* what the receiver field holds
  draft,     \* the payload field: some text, or a line break
  logs,      \* lines shown
  lastLogID, \* where the next question starts
  fetch,     \* the questions under way and the answers not yet handled
  known,     \* how often the node's tables have changed
  drawn,     \* up to which change either table is drawn
  taken,     \* history: messages the node has accepted
  sizes,     \* of the chosen scenario
  left       \* what is left of its events; "keys" is a user's presence

tail == <<logs, lastLogID, fetch>>
form == <<focused, keys, dst, draft>>
tables == <<known, drawn>>
window == <<sizes, layout>>
vars == <<buffer, boot, running, form, window, tables, tail, taken, left>>

Sections == <<"node", "payload", "send", "logs", "neighbours", "routes">>
Widgets == {"node", "payload", "neighbours", "routes"}
NoDraft == [text |-> FALSE, newline |-> FALSE]

Free == [state |-> "free"]
Asked(since) == [state |-> "asked", since |-> since]
Answered(es) == [state |-> "answered", entries |-> es]

Spend(e) == left[e] > 0 /\ left' = [left EXCEPT ![e] = @ - 1]

Init ==
  /\ buffer = NewBuffer /\ boot = 0 /\ running = TRUE
  /\ layout = UpdateSizes(NoLayout, <<80, 24>>)
  /\ focused = "node" /\ keys = {"node"} /\ dst = "empty" /\ draft = NoDraft
  /\ logs = <<>> /\ lastLogID = 0
  /\ fetch = [i \in 1 .. MaxFetch |-> IF i = 1 THEN Asked(0) ELSE Free]
  /\ known = 0 /\ drawn = [neighbours |-> 0, routes |-> 0]
  /\ taken = 0
  /\ \E s \in Scenarios : sizes = s.sizes /\ left = s.events

-----------------------------------------------------------------------------
(* The log tail. *)

(* logsTickMsg: the next question, and the timer again. *)
LogsTick ==
  /\ running
  /\ \E i \in 1 .. MaxFetch :
       /\ fetch[i] = Free /\ \A k \in 1 .. i - 1 : fetch[k] # Free
       /\ fetch' = [fetch EXCEPT ![i] = Asked(lastLogID)]
  /\ UNCHANGED <<buffer, boot, running, form, window, tables, logs, lastLogID, taken, left>>

(* /logs on the node. *)
ServeLogs(i) ==
  /\ running /\ fetch[i].state = "asked"
  /\ fetch' = [fetch EXCEPT ![i] = Answered(Since(buffer, fetch[i].since))]
  /\ UNCHANGED <<buffer, boot, running, form, window, tables, logs, lastLogID, taken, left>>

(* The question or its answer takes too long, or the node is down. *)
FetchFails(i) ==
  /\ running /\ fetch[i].state = "asked" /\ Spend("timeout")
  /\ fetch' = [fetch EXCEPT ![i] = Answered(<<>>)]
  /\ UNCHANGED <<buffer, boot, running, form, window, tables, logs, lastLogID, taken>>

(* Mutant: the tail goes on from the newest line of the node. *)
LogsFetched_Newest(i) ==
  /\ running /\ fetch[i].state = "answered"
  /\ LET es == fetch[i].entries IN
       /\ logs' = logs \o es
       /\ lastLogID' = IF es = <<>> THEN lastLogID ELSE buffer.nextID
  /\ fetch' = [fetch EXCEPT ![i] = Free]
  /\ UNCHANGED <<buffer, boot, running, form, window, tables, taken, left>>

(* logsFetchedMsg: the lines are shown, and the last one's id is kept. *)
LogsFetched(i) ==
  /\ running /\ fetch[i].state = "answered"
  /\ LET es == fetch[i].entries IN
       /\ logs' = logs \o es
       /\ lastLogID' = IF es = <<>> THEN lastLogID ELSE es[Len(es)].id
  /\ fetch' = [fetch EXCEPT ![i] = Free]
  /\ UNCHANGED <<buffer, boot, running, form, window, tables, taken, left>>

-----------------------------------------------------------------------------
(* Keys.  Update lets processKeyMsg act first and then hands the key to the *)
(* field that has the focus after that.                                     *)

Index(s) == CHOOSE i \in DOMAIN Sections : Sections[i] = s
NextSection(s) == Sections[(Index(s) % Len(Sections)) + 1]
PrevSection(s) == Sections[((Index(s) + Len(Sections) - 2) % Len(Sections)) + 1]

(* Mutant: the table that is left keeps the keyboard. *)
MoveFocus_TableKept(s) ==
  focused' = s /\ keys' = (keys \cap {"neighbours", "routes"}) \cup ({s} \cap Widgets)

(* blurCurrent, then applyFocus. *)
MoveFocus(s) == focused' = s /\ keys' = {s} \cap Widgets

(* What k does to the fields when the node or payload field has the focus   *)
(* in the end: a digit or text is typed, Enter breaks a line in the payload.*)
Type(k) ==
  \/ /\ "node" \in keys' /\ k \in {"digit", "text"}
     /\ dst' \in IF k = "text" THEN {"empty", "number", "other"}
                 ELSE IF dst = "empty" THEN {"number"} ELSE {dst, "other"}
     /\ UNCHANGED draft
  \/ /\ "payload" \in keys' /\ k \in {"digit", "text"}
     /\ draft' \in IF k = "text" THEN {NoDraft, [draft EXCEPT !.text = TRUE]}
                   ELSE {[draft EXCEPT !.text = TRUE]}
     /\ UNCHANGED dst
  \/ /\ "payload" \in keys' /\ k = "enter"
     /\ draft' = [draft EXCEPT !.newline = TRUE]
     /\ UNCHANGED dst
  \/ /\ \/ keys' \cap {"node", "payload"} = {}
        \/ "node" \in keys' /\ k \notin {"digit", "text"}
        \/ "payload" \in keys' /\ k \notin {"digit", "text", "enter"}
     /\ UNCHANGED <<dst, draft>>

Rest == UNCHANGED <<buffer, boot, window, tables, tail>>

Tab ==
  /\ running /\ MoveFocus(NextSection(focused)) /\ Type("tab")
  /\ Rest /\ UNCHANGED <<running, taken, left>>

ShiftTab ==
  /\ running /\ MoveFocus(PrevSection(focused)) /\ Type("tab")
  /\ Rest /\ UNCHANGED <<running, taken, left>>

(* 1, 2, 3, 4: a page of a small terminal, unless a field is being filled. *)
Digit(d) ==
  /\ running
  /\ IF layout.mode = "compact" /\ keys \cap {"node", "payload"} = {}
     THEN MoveFocus(<<"node", "logs", "neighbours", "routes">>[d])
     ELSE UNCHANGED <<focused, keys>>
  /\ Type("digit")
  /\ Rest /\ UNCHANGED <<running, taken, left>>

Text ==
  /\ running /\ UNCHANGED <<focused, keys>> /\ Type("text")
  /\ Rest /\ UNCHANGED <<running, taken, left>>

(* Enter in the receiver or payload field; nothing when it was left by Esc. *)
EnterField ==
  /\ running /\ focused \in {"node", "payload"}
  /\ IF focused \in keys
     THEN focused' = NextSection(focused) /\ keys' = {NextSection(focused)} \cap Widgets
     ELSE UNCHANGED <<focused, keys>>
  /\ Type("enter")
  /\ Rest /\ UNCHANGED <<running, taken, left>>

(* Mutant: the payload field is emptied whatever the node answers. *)
PressSend_Empties ==
  /\ running /\ focused = "send" /\ Spend("send")
  /\ taken' \in {taken, taken + 1}
  /\ draft' = NoDraft
  /\ Rest /\ UNCHANGED <<running, focused, keys, dst>>

(* Enter on the button.  SendMsg runs inside Update: no other message is    *)
(* handled until the node has answered or 5 s have passed, and the node may *)
(* have taken the message although its answer came too late.                *)
PressSend ==
  /\ running /\ focused = "send" /\ Spend("send")
  /\ \/ (dst # "number" \/ ~draft.text) /\ UNCHANGED <<draft, taken>>
     \/ /\ dst = "number" /\ draft.text
        /\ \/ taken' = taken + 1 /\ draft' = NoDraft
           \/ taken' \in {taken, taken + 1} /\ UNCHANGED draft
  /\ Rest /\ UNCHANGED <<running, focused, keys, dst>>

(* Esc leaves the field that is being filled, else the program. *)
Esc ==
  /\ running
  /\ IF focused \in {"node", "payload"} /\ focused \in keys
     THEN keys' = {} /\ UNCHANGED running
     ELSE running' = FALSE /\ UNCHANGED keys
  /\ Rest /\ UNCHANGED <<focused, dst, draft, taken, left>>

CtrlC ==
  /\ running /\ running' = FALSE
  /\ Rest /\ UNCHANGED <<focused, keys, dst, draft, taken, left>>

Key ==
  /\ left["keys"] > 0
  /\ \/ Tab \/ ShiftTab \/ (\E d \in 1 .. 4 : Digit(d)) \/ Text
     \/ EnterField \/ PressSend \/ Esc \/ CtrlC

(* WindowSizeMsg. *)
Resize(size) ==
  /\ running /\ Spend("resize")
  /\ layout' = UpdateSizes(layout, size)
  /\ UNCHANGED <<buffer, boot, running, form, sizes, tables, tail, taken>>

-----------------------------------------------------------------------------
(* The tables.  Both questions are asked inside Update, one after the other;*)
(* a table whose question fails keeps its rows.                             *)

(* Mutant: only one of the tables is asked for. *)
TablesRefresh_NeighboursOnly ==
  /\ running
  /\ drawn' = [drawn EXCEPT !.neighbours = known]
  /\ UNCHANGED <<buffer, boot, running, form, window, known, tail, taken, left>>

(* tablesRefreshMsg; the node may learn something between the two answers.  *)
TablesRefresh ==
  /\ running
  /\ \/ /\ known' = known /\ UNCHANGED left
        /\ drawn' = [neighbours |-> known, routes |-> known]
     \/ /\ known' = known + 1 /\ Spend("learn")
        /\ drawn' = [neighbours |-> known, routes |-> known']
     \/ /\ known' = known /\ Spend("refuse")
        /\ drawn' \in {drawn, [drawn EXCEPT !.neighbours = known],
                      [drawn EXCEPT !.routes = known]}
  /\ UNCHANGED <<buffer, boot, running, form, window, tail, taken>>

-----------------------------------------------------------------------------
(* The node. *)
Learn ==
  /\ Spend("learn") /\ known' = known + 1
  /\ UNCHANGED <<buffer, boot, running, form, window, drawn, tail, taken>>

LogLine ==
  /\ Spend("line")
  /\ buffer' = Add(buffer, boot)
  /\ UNCHANGED <<boot, running, form, window, tables, tail, taken>>

(* Its process is replaced: the buffer is empty and counts from one again. *)
Restart ==
  /\ Spend("restart")
  /\ buffer' = NewBuffer /\ boot' = boot + 1
  /\ UNCHANGED <<running, form, window, tables, tail, taken>>

Next ==
  \/ LogsTick
  \/ \E i \in 1 .. MaxFetch : ServeLogs(i) \/ FetchFails(i) \/ LogsFetched(i)
  \/ Key \/ (\E size \in sizes : Resize(size))
  \/ TablesRefresh \/ Learn \/ LogLine \/ Restart

Spec == Init /\ [][Next]_vars

(* Each timer fires again after its questions, the node and the event loop  *)
(* of the interface answer.                                                 *)
Fairness ==
  /\ WF_vars(LogsTick) /\ WF_vars(TablesRefresh)
  /\ \A i \in 1 .. MaxFetch : WF_vars(ServeLogs(i)) /\ WF_vars(LogsFetched(i))

FairSpec == Spec /\ Fairness
=============================================================================
