------------------------------- MODULE Layout -------------------------------
(***************************************************************************)
(* How the terminal interface divides the terminal: updateSizes of          *)
(* layout.go and fitColumns of tables.go as operators on the size fields of *)
(* the model m, and what compose.go and render.go draw from them.  Widths   *)
(* and heights of panels include their frame.                               *)
(*                                                                          *)
(* Left out: what is written in the panels.                                 *)
(***************************************************************************)
EXTENDS Integers, Sequences, FiniteSets, FiniteSetsExt, SequencesExt

frameX == 4
fieldFrameX == 4
buttonRowW == 12
buttonGap == 2
inlineMinW == fieldFrameX + 8 + buttonGap + buttonRowW
colPad == 2

(* Mutant: the padding is dropped one row too late. *)
Dense_Below35(height) == height < 35

(* Comfortable panels have a row of padding above and below. *)
Dense(height) == height < 36
FrameY(m) == IF m.dense THEN 2 ELSE 4

(* The first size of the five kinds of layout that the terminal allows. *)
PickMode(w, h) ==
  IF w < 24 \/ h < 10 THEN "tiny"
  ELSE IF w >= 100 /\ h >= 26 THEN "wide"
  ELSE IF w >= 64 /\ h >= 22 THEN "split"
  ELSE IF w >= 36 /\ h >= 30 THEN "stack"
  ELSE "compact"

-----------------------------------------------------------------------------
(* Columns of a table.  What has the highest drop goes first. *)

Column(id, min, max, drop) == [id |-> id, min |-> min, max |-> max, drop |-> drop]

neighbourSpecs ==
  <<Column("id", 4, 20, 0), Column("addr", 8, 24, 2), Column("seen", 8, 19, 4),
    Column("iface", 4, 12, 3)>>

routeSpecs ==
  <<Column("id", 4, 10, 0), Column("seq", 3, 8, 5), Column("hops", 3, 5, 4),
    Column("next", 4, 10, 1), Column("addr", 8, 24, 6), Column("iface", 4, 12, 3)>>

Total(f) == SumFunction(f)

(* Mutant: the padding of the cells is forgotten. *)
ColumnCost_Unpadded(specs) == Total([i \in DOMAIN specs |-> specs[i].min])

ColumnCost(specs) == Total([i \in DOMAIN specs |-> specs[i].min + colPad])

(* The columns that stay, under their indices in specs: the last one stays  *)
(* whatever it costs.                                                       *)
Kept(total, specs) ==
  LET Upto(d) == Restrict(specs, {i \in DOMAIN specs : specs[i].drop <= d})
      ranks == {specs[i].drop : i \in DOMAIN specs}
  IN  Upto(Max({Min(ranks)} \cup {d \in ranks : ColumnCost(Upto(d)) <= total}))

(* The first n indices in S. *)
FirstOf(S, n) == {i \in S : Cardinality({j \in S : j <= i}) <= n}

(* Widths that exceed the budget lose a unit from the widest column, the    *)
(* first of several, until they meet it: all are cut down to some cap and   *)
(* the first of those at the cap to one less.  Widths that fall short of it *)
(* gain a unit each, round by round, as far as it goes.                     *)
Widths(total, active) ==
  LET cols == DOMAIN active
      budget == Max({total - colPad * Cardinality(cols), Cardinality(cols)})
      least == [i \in cols |-> active[i].min]
      most == [i \in cols |-> active[i].max]
      Capped(c) == [i \in cols |-> Min({least[i], c})]
      cap == Min({c \in 1 .. Total(least) : Total(Capped(c)) >= budget})
      cut == FirstOf({i \in cols : least[i] >= cap}, Total(Capped(cap)) - budget)
      Filled(r) == [i \in cols |-> Min({least[i] + r, most[i]})]
      rounds == Max({r \in 0 .. Max({most[i] : i \in cols}) : Total(Filled(r)) <= budget})
      more == FirstOf({i \in cols : Filled(rounds)[i] < most[i]},
                      budget - Total(Filled(rounds)))
  IN  [i \in cols |-> IF Total(least) > budget
                      THEN IF i \in cut THEN Capped(cap)[i] - 1 ELSE Capped(cap)[i]
                      ELSE IF i \in more THEN Filled(rounds)[i] + 1 ELSE Filled(rounds)[i]]

FitColumns(width, specs) ==
  LET total == Max({width, 1})
      active == Kept(total, specs)
      widths == Widths(total, active)
  IN  [i \in DOMAIN active |-> [id |-> active[i].id, width |-> widths[i]]]

-----------------------------------------------------------------------------
(* Pieces of a layout. *)

(* m with the fields of r. *)
Assign(m, r) == [f \in DOMAIN m |-> IF f \in DOMAIN r THEN r[f] ELSE m[f]]

ComposeFixedLines(title, stack, slim) ==
  (IF title THEN 1 ELSE 0)
  + (IF stack THEN IF slim THEN 4 ELSE 6 ELSE 3)
  + 2

SizeComposeFields(m, width) ==
  LET contentW == Max({width, 1})
      stack == IF m.slimButton THEN m.stackSend ELSE contentW < inlineMinW
      area == Max({contentW - fieldFrameX, 1})
      field == IF stack THEN area
               ELSE Max({contentW - buttonGap - buttonRowW - fieldFrameX, 1})
  IN  Assign(m, [stackSend |-> stack, textareaWidth |-> area, inputWidth |-> Min({field, 48})])

CommitCompose(m, ta) ==
  Assign(m, [textareaHeight |-> Max({ta, 1}),
             composeH |-> ComposeFixedLines(~m.hideComposeTitle, m.stackSend, m.slimButton)
                          + Max({ta, 1}) + FrameY(m)])

CommitLogs(m, vp) ==
  Assign(m, [viewportHeight |-> Max({vp, 1}), logsH |-> 1 + Max({vp, 1}) + FrameY(m)])

CommitTables(m, nH, rH) ==
  Assign(m, [neighTableH |-> nH, routeTableH |-> rH,
             neighH |-> 1 + nH + FrameY(m), routesH |-> 1 + rH + FrameY(m)])

(* The widths of the two tables and of what is in them. *)
TablesWide(m, left, right) ==
  Assign(m, [neighW |-> left, routesW |-> right,
             neighTableW |-> Max({left - frameX, 1}), routeTableW |-> Max({right - frameX, 1})])

(* Compose field and logs over the whole width. *)
TopWide(m) ==
  SizeComposeFields(
    Assign(m, [composeW |-> m.width, logsW |-> m.width,
               viewportWidth |-> Max({m.width - frameX, 1})]),
    m.width - frameX)

(* for x < to && fits(x+1) { x++ }, with the sizes that fit. *)
Grow(from, to, fitting) ==
  Max({x \in from .. Max({from, to}) : from + 1 .. x \subseteq fitting})

(* The two tables grow in turn, the neighbours never past the routes, until *)
(* a turn changes nothing.                                                  *)
GrowTables(fitting) ==
  LET grown[p \in Nat \X Nat] ==
        LET n == IF p[1] <= p[2] /\ <<p[1] + 1, p[2]>> \in fitting THEN p[1] + 1 ELSE p[1]
            r == IF <<n, p[2] + 1>> \in fitting THEN p[2] + 1 ELSE p[2]
        IN  IF p = <<n, r>> THEN p ELSE grown[<<n, r>>]
  IN  grown[<<3, 3>>]

PlaceSideBySide(m, wantInput, minRight) ==
  LET minPanel == inlineMinW + frameX
      p1 == Min({wantInput + fieldFrameX + buttonGap + buttonRowW + frameX,
                 m.width - 1 - minRight})
      p2 == IF p1 < minPanel /\ m.width - 17 >= minPanel THEN minPanel ELSE p1
      p3 == IF p2 < frameX + 8 THEN Max({m.width \div 2, 1}) ELSE p2
      p4 == IF p3 > m.width - 11 THEN Max({m.width - 11, 1}) ELSE p3
      right == m.width - 1 - p4
      panel == IF right < 1 THEN Max({m.width - 2, 1}) ELSE p4
      logs == Max({right, 1})
  IN  SizeComposeFields(
        Assign(m, [composeW |-> panel, logsW |-> logs, viewportWidth |-> Max({logs - frameX, 1})]),
        panel - frameX)

(* Rows of a compose panel, a log panel and a table before they are given.  *)
ComposeTotal(m, ta) == ComposeFixedLines(TRUE, m.stackSend, FALSE) + ta + FrameY(m)
BoxTotal(m, rows) == 1 + rows + FrameY(m)
WideTotal(m, ta, nH, rH) == ComposeTotal(m, ta) + BoxTotal(m, nH) + BoxTotal(m, rH) + 2
SplitTotal(m, ta, vp, tH) == ComposeTotal(m, ta) + BoxTotal(m, vp) + BoxTotal(m, tH) + 2
StackTotal(m, ta, vp, nH, rH) ==
  ComposeTotal(m, ta) + BoxTotal(m, vp) + BoxTotal(m, nH) + BoxTotal(m, rH) + 3

-----------------------------------------------------------------------------
(* The five layouts. *)
LayoutWide(m0) ==
  LET m == TablesWide(PlaceSideBySide(m0, 42, 30), m0.width, m0.width)
      Fits(ta, nH, rH) == WideTotal(m, ta, nH, rH) <= m.height
      ta == Grow(1, 3, {x \in Nat : Fits(x, 3, 3)})
      rows == GrowTables({p \in Nat \X Nat : Fits(ta, p[1], p[2])})
      c == CommitCompose(m, Grow(ta, 8, {x \in Nat : Fits(x, rows[1], rows[2])}))
  IN  CommitTables(
        Assign(c, [logsH |-> c.composeH, viewportHeight |-> Max({c.composeH - FrameY(c) - 1, 1})]),
        rows[1], rows[2])

LayoutSplit(m0) ==
  LET left == Max({(m0.width - 1) \div 2, 1})
      right == Max({m0.width - 1 - (m0.width - 1) \div 2, 1})
      m == TablesWide(TopWide(m0), left, right)
      Fits(ta, vp, tH) == SplitTotal(m, ta, vp, tH) <= m.height
      ta1 == Grow(1, 2, {x \in Nat : Fits(x, 1, 3)})
      vp1 == Grow(1, 4, {x \in Nat : Fits(ta1, x, 3)})
      ta2 == Grow(ta1, 4, {x \in Nat : Fits(x, vp1, 3)})
      vp2 == Grow(vp1, 8, {x \in Nat : Fits(ta2, x, 3)})
      tH == Grow(3, m.height, {x \in Nat : Fits(ta2, vp2, x)})
      vp3 == Grow(vp2, m.height, {x \in Nat : Fits(ta2, x, tH)})
      ta3 == Grow(ta2, 8, {x \in Nat : Fits(x, vp3, tH)})
  IN  CommitTables(CommitLogs(CommitCompose(m, ta3), vp3), tH, tH)

LayoutStack(m0) ==
  LET m == TablesWide(TopWide(m0), m0.width, m0.width)
      Fits(ta, vp, nH, rH) == StackTotal(m, ta, vp, nH, rH) <= m.height
      vp1 == Grow(1, 4, {x \in Nat : Fits(1, x, 3, 3)})
      ta1 == Grow(1, 3, {x \in Nat : Fits(x, vp1, 3, 3)})
      rows == GrowTables({p \in Nat \X Nat : Fits(ta1, vp1, p[1], p[2])})
      vp2 == Grow(vp1, m.height, {x \in Nat : Fits(ta1, x, rows[1], rows[2])})
      ta2 == Grow(ta1, 8, {x \in Nat : Fits(x, vp2, rows[1], rows[2])})
  IN  CommitTables(CommitLogs(CommitCompose(m, ta2), vp2), rows[1], rows[2])

(* Mutant: the title goes one row too late. *)
TitleHidden_Late(contentH) == contentH - ComposeFixedLines(TRUE, TRUE, TRUE) < 0

(* Whether the compose page of a small terminal has no row for its title. *)
TitleHidden(contentH) == contentH - ComposeFixedLines(TRUE, TRUE, TRUE) < 1

(* One panel at a time, as large as the terminal but for the tabs and hint. *)
LayoutCompact(m0) ==
  LET hint == m0.height >= 14
      panelH == Max({m0.height - 1 - (IF hint THEN 1 ELSE 0), 3})
      panelW == Max({m0.width, 1})
      contentH == Max({panelH - FrameY(m0), 1})
      contentW == Max({panelW - frameX, 1})
      hide == TitleHidden(contentH)
      ta == contentH - ComposeFixedLines(~hide, TRUE, TRUE)
      m == Assign(m0, [slimButton |-> TRUE, stackSend |-> TRUE, showHint |-> hint,
                       hideComposeTitle |-> hide, textareaHeight |-> Min({Max({ta, 1}), 8}),
                       composeW |-> panelW, logsW |-> panelW, neighW |-> panelW, routesW |-> panelW,
                       composeH |-> panelH, logsH |-> panelH, neighH |-> panelH, routesH |-> panelH,
                       viewportWidth |-> contentW, viewportHeight |-> Max({contentH - 1, 1}),
                       neighTableW |-> contentW, routeTableW |-> contentW,
                       neighTableH |-> Max({contentH - 1, 3}),
                       routeTableH |-> Max({contentH - 1, 3})])
  IN  SizeComposeFields(m, contentW)

(* Only a notice is drawn: the panels keep whatever size they had. *)
LayoutTiny(m) ==
  Assign(m, [inputWidth |-> 4, textareaWidth |-> 4, textareaHeight |-> 1,
             viewportWidth |-> 4, viewportHeight |-> 1, neighTableW |-> 4, routeTableW |-> 4,
             neighTableH |-> 3, routeTableH |-> 3])

(* rebuildTables, as far as sizes go: applyWidgetSizes calls it. *)
RebuildTables(m) ==
  Assign(m, [neighCols |-> FitColumns(m.neighTableW, neighbourSpecs),
             routeCols |-> FitColumns(m.routeTableW, routeSpecs)])

(* Mutant: a hidden title stays hidden. *)
Cleared_TitleStays(m) == Assign(m, [slimButton |-> FALSE, showHint |-> FALSE])

(* What the last layout may have set and the next may not. *)
Cleared(m) ==
  Assign(m, [slimButton |-> FALSE, hideComposeTitle |-> FALSE, showHint |-> FALSE])

UpdateSizes(m0, size) ==
  LET m == Cleared(Assign(m0, [width |-> size[1], height |-> size[2],
                               mode |-> PickMode(size[1], size[2]), dense |-> Dense(size[2])]))
  IN  RebuildTables(CASE m.mode = "wide"    -> LayoutWide(m)
                      [] m.mode = "split"   -> LayoutSplit(m)
                      [] m.mode = "stack"   -> LayoutStack(m)
                      [] m.mode = "compact" -> LayoutCompact(m)
                      [] m.mode = "tiny"    -> LayoutTiny(m))

(* The zero values of a new model. *)
Flags == {"dense", "stackSend", "slimButton", "hideComposeTitle", "showHint"}
Lengths == {"width", "height", "composeW", "composeH", "logsW", "logsH", "neighW", "neighH",
            "routesW", "routesH", "inputWidth", "textareaWidth", "textareaHeight",
            "viewportWidth", "viewportHeight", "neighTableW", "neighTableH",
            "routeTableW", "routeTableH"}
Fields == Flags \cup Lengths \cup {"mode", "neighCols", "routeCols"}

NoLayout ==
  [f \in Fields |-> CASE f \in Flags -> FALSE
                      [] f \in Lengths -> 0
                      [] f = "mode" -> "wide"
                      [] OTHER -> <<>>]

-----------------------------------------------------------------------------
(* What is drawn: View, renderComposeInner, renderTopRow and their siblings. *)

(* The receiver field and the button are three rows high, a slim button one.*)
TopRows(m) == IF m.stackSend THEN 3 + (IF m.slimButton THEN 1 ELSE 3) ELSE 3
TopCols(m) ==
  LET input == m.inputWidth + fieldFrameX
      button == IF m.slimButton THEN 6 ELSE buttonRowW
  IN  IF m.stackSend THEN Max({input, button}) ELSE input + buttonGap + button

(* Each panel: its size, and the size of what is in it. *)
Panels(m) ==
  LET Table(w, h, tW, tH) == [w |-> w, h |-> h, inW |-> tW, inH |-> 1 + Max({tH, 3})]
  IN  [compose |-> [w |-> m.composeW, h |-> m.composeH,
                    inW |-> Max({TopCols(m), m.textareaWidth + fieldFrameX}),
                    inH |-> (IF m.hideComposeTitle THEN 0 ELSE 1) + TopRows(m)
                            + m.textareaHeight + 2],
       logs    |-> [w |-> m.logsW, h |-> m.logsH,
                    inW |-> m.viewportWidth, inH |-> 1 + m.viewportHeight],
       neigh   |-> Table(m.neighW, m.neighH, m.neighTableW, m.neighTableH),
       routes  |-> Table(m.routesW, m.routesH, m.routeTableW, m.routeTableH)]

(* The rows and columns of the terminal that the panels of m take. *)
Rows(m) ==
  CASE m.mode = "wide"  -> Max({m.composeH, m.logsH}) + 1 + m.neighH + 1 + m.routesH
    [] m.mode = "split" -> m.composeH + 1 + m.logsH + 1 + Max({m.neighH, m.routesH})
    [] m.mode = "stack" -> m.composeH + 1 + m.logsH + 1 + m.neighH + 1 + m.routesH
    [] OTHER -> 1 + Max({m.composeH, m.logsH, m.neighH, m.routesH})
                + (IF m.showHint THEN 1 ELSE 0)

Cols(m) ==
  CASE m.mode = "wide"  -> Max({m.composeW + 1 + m.logsW, m.neighW, m.routesW})
    [] m.mode = "split" -> Max({m.composeW, m.logsW, m.neighW + 1 + m.routesW})
    [] OTHER -> Max({m.composeW, m.logsW, m.neighW, m.routesW})
=============================================================================
