------------------------------ MODULE TuiProps ------------------------------
(* What the interface shows, and what its keys do. *)
EXTENDS Tui

(* The type invariant. *)
TuiTypeOK ==
  /\ buffer \in Buffers /\ Len(buffer.entries) <= MaxSize
  /\ boot \in Nat /\ running \in BOOLEAN
  /\ DOMAIN layout = Fields
  /\ \A f \in Flags : layout[f] \in BOOLEAN
  /\ \A f \in Lengths : layout[f] \in Nat
  /\ focused \in {Sections[i] : i \in DOMAIN Sections}
  /\ keys \subseteq Widgets
  /\ dst \in {"empty", "number", "other"}
  /\ draft \in [text: BOOLEAN, newline: BOOLEAN]
  /\ logs \in Seq(LogEntry) /\ lastLogID \in Nat
  /\ \A i \in 1 .. MaxFetch :
       \/ fetch[i] = Free
       \/ fetch[i] \in [state: {"asked"}, since: Nat]
       \/ fetch[i] \in [state: {"answered"}, entries: Seq(LogEntry)]
  /\ known \in Nat /\ drawn \in [{"neighbours", "routes"} -> 0 .. known]
  /\ taken \in Nat /\ left \in [Budget -> Nat]

Shown(e) == \E i \in DOMAIN logs : logs[i] = e
Overwritten(id) == id <= buffer.nextID - MaxSize

(* The numbers of the lines and of the changes that any scenario reaches. *)
UpTo(event) == UNION {1 .. s.events[event] : s \in Scenarios}

(* While the node lives the tail skips no line the buffer still has, though *)
(* answers overtake each other and lastLogID may go back: Buffer.Since and  *)
(* the logsFetchedMsg case of Update, tui.go:191.                           *)
NoGap ==
  boot = 0 => \A id \in 1 .. lastLogID :
                Shown([id |-> id, line |-> 0]) \/ Overwritten(id)

(* Every line is shown, unless newer ones push it out first, the node is    *)
(* restarted or the interface is closed.                                    *)
LineShown ==
  \A id \in UpTo("line") :
    (boot = 0 /\ id <= buffer.nextID)
      ~> (Shown([id |-> id, line |-> 0]) \/ Overwritten(id) \/ boot > 0 \/ ~running)

(* A question or an answer about an earlier life of the node that can still *)
(* hide line id of the present one.                                         *)
Misleading(f, id) ==
  \/ f.state = "asked" /\ f.since >= id
  \/ f.state = "answered" /\ \E i \in DOMAIN f.entries : f.entries[i].line # boot

(* A restarted node counts its lines from one again (buffer.go:28).  Those  *)
(* that exceed the number the tail remembers are shown all the same, once   *)
(* the questions of the earlier life are gone.                              *)
TailResumes ==
  \A id \in UpTo("line"), life \in UpTo("restart") :
    (/\ boot = life /\ lastLogID < id /\ id <= buffer.nextID
     /\ \A i \in 1 .. MaxFetch : ~Misleading(fetch[i], id))
      ~> (Shown([id |-> id, line |-> life]) \/ Overwritten(id) \/ boot > life \/ ~running)

(* The keyboard goes to no other widget than the section that is drawn as   *)
(* focused: blurCurrent, applyFocus and the Enter and Esc handlers together.*)
KeysFollowFocus == keys \subseteq {focused}

(* The payload field loses its text only by the user's hand or because the  *)
(* node has taken the message: the error returns of processEnterPress keep  *)
(* the draft.                                                               *)
DraftKept ==
  [][(draft.text /\ ~draft'.text) => (taken' = taken + 1 \/ "payload" \in keys)]_vars

(* What the node has learned is drawn in both tables in the end, although   *)
(* one question may fail while the other is answered: refreshTablesCmd is   *)
(* set again whatever the answers were, tui.go:183.                         *)
TablesFollow ==
  \A k \in UpTo("learn") :
    (known >= k) ~> ((drawn.neighbours >= k /\ drawn.routes >= k) \/ ~running)

-----------------------------------------------------------------------------
(* The window.  Below 24 x 10 only a notice is drawn. *)
Drawn == layout.mode # "tiny"

(* The panels take every row and column of the terminal and no more:        *)
(* "Nothing is allowed to demand more rows or columns than we have"         *)
(* (layout.go:84).                                                          *)
PanelsFit == Drawn => Rows(layout) = layout.height /\ Cols(layout) = layout.width

(* What is in a panel fits inside its frame: the fields, the button and the *)
(* title of the compose panel, the log lines and the tables.                *)
WidgetsFit ==
  LET panels == Panels(layout)
      Fits(p) == p.inW <= p.w - frameX /\ p.inH <= p.h - FrameY(layout)
  IN  Drawn => \A name \in DOMAIN panels : Fits(panels[name])

(* The layout depends on the new size alone: the flags and lengths that     *)
(* earlier sizes left in the model (layout.go:98) leave no trace.           *)
LayoutForgets ==
  [][(layout' # layout /\ Drawn')
       => layout' = UpdateSizes(NoLayout, <<layout.width, layout.height>>')]_vars

(* The columns of a table, padding included, fit into it, each as wide as   *)
(* its contents need and no wider than they may, and the id is always there.*)
ColumnsFit ==
  LET Fit(cols, specs, width) ==
        /\ Total([i \in DOMAIN cols |-> cols[i].width + colPad]) <= width
        /\ \A i \in DOMAIN cols : \E j \in DOMAIN specs :
             /\ cols[i].id = specs[j].id
             /\ specs[j].min <= cols[i].width /\ cols[i].width <= specs[j].max
        /\ \E i \in DOMAIN cols : cols[i].id = "id"
  IN  Drawn => /\ Fit(layout.neighCols, neighbourSpecs, layout.neighTableW)
               /\ Fit(layout.routeCols, routeSpecs, layout.routeTableW)
=============================================================================
