---------------------------- MODULE LayoutProofs ----------------------------
(***************************************************************************)
(* What updateSizes makes of a terminal of any size.  For each layout: the  *)
(* sizes its loops end with, the lengths it assigns (Layout...Is), that the *)
(* panels fill the terminal and that the widgets fit their panels.  Last,   *)
(* that a layout that is drawn depends on the size of the terminal alone:   *)
(* what an earlier layout left is forgotten.                                *)
(***************************************************************************)
EXTENDS Layout, TLAPS, WellFoundedInduction, FiniteSetTheorems

(* Max and Min of the sets that the layouts build. *)
LEMMA MaxOfTwo ==
  ASSUME NEW a \in Int, NEW b \in Int
  PROVE  Max({a, b}) = IF a >= b THEN a ELSE b
BY DEF Max

LEMMA MinOfTwo ==
  ASSUME NEW a \in Int, NEW b \in Int
  PROVE  Min({a, b}) = IF a <= b THEN a ELSE b
BY DEF Min

Less == {ss \in Nat \X Nat : ss[1] < ss[2]}

LEMMA LessWellFounded == IsWellFoundedOn(Less, Nat)
<1>1. Less = OpToRel(<, Nat)
  BY Zenon DEF Less, OpToRel
<1> QED BY <1>1, NatLessThanWellFounded, Zenon

LEMMA NatMin ==
  ASSUME NEW T, T \subseteq Nat, T # {}
  PROVE  \E x \in T : \A y \in T : x <= y
<1>1. PICK x \in T : \A y \in T : ~(<<y, x>> \in Less)
  BY WFMin, LessWellFounded
<1>2. \A y \in T : ~(y < x)
  BY <1>1 DEF Less
<1> QED BY <1>2

-----------------------------------------------------------------------------
(* The columns of a table. *)

LEMMA MaxIn ==
  ASSUME NEW b \in Nat, NEW T, T \subseteq 0 .. b, T # {}
  PROVE  Max(T) \in T
<1> DEFINE U == {b - x : x \in T}
<1>1. U \subseteq Nat /\ U # {}
  <2>1. \A x \in T : b - x \in Nat
    OBVIOUS
  <2> QED BY <2>1
<1>2. PICK u \in U : \A y \in U : u <= y
  BY <1>1, NatMin
<1>3. PICK x \in T : u = b - x
  OBVIOUS
<1>4. \A y \in T : x >= y
  <2> SUFFICES ASSUME NEW y \in T PROVE x >= y
    OBVIOUS
  <2>1. b - y \in U /\ x \in Nat /\ y \in Nat
    OBVIOUS
  <2> HIDE DEF U
  <2>2. b - x <= b - y
    BY <1>2, <1>3, <2>1
  <2> QED BY <2>1, <2>2
<1> QED BY <1>4 DEF Max

(* No table has more than six columns. *)
Six == 1 .. 6

LEMMA SmallSets ==
  ASSUME NEW S, S \subseteq Six
  PROVE  IsFiniteSet(S) /\ Cardinality(S) \in Nat
<1>1. IsFiniteSet(Six)
  <2>1. PICK a \in Int, b \in Int : a = 1 /\ b = 6
    OBVIOUS
  <2>2. IsFiniteSet(a .. b)
    BY FS_Interval
  <2> QED BY <2>1, <2>2 DEF Six
<1>2. IsFiniteSet(S)
  BY <1>1, FS_Subset
<1> QED BY <1>2, FS_CardinalityType

(* What index i adds to the sum of f. *)
Part(f, i) == IF i \in DOMAIN f THEN f[i] ELSE 0
Mark(S, i) == IF i \in S THEN 1 ELSE 0

LEMMA TotalOfSix ==
  ASSUME NEW f, DOMAIN f \subseteq Six, \A i \in DOMAIN f : f[i] \in Int
  PROVE  Total(f) = Part(f, 1) + Part(f, 2) + Part(f, 3) + Part(f, 4) + Part(f, 5) + Part(f, 6)
<1> DEFINE D == DOMAIN f
           P(s, i) == IF i \in s THEN f[i] ELSE 0
           G(s) == P(s, 1) + P(s, 2) + P(s, 3) + P(s, 4) + P(s, 5) + P(s, 6)
           g == [s \in SUBSET D |-> G(s)]
           Map(h) == [s \in SUBSET D |->
                        IF s = {} THEN 0
                        ELSE LET x == CHOOSE x \in s : TRUE IN f[x] + h[s \ {x}]]
           iter == CHOOSE h : h = Map(h)
<1>1. Total(f) = iter[D]
  BY DEF Total, SumFunction, SumFunctionOnSet, FoldFunctionOnSet, MapThenFoldSet
<1>2. ASSUME NEW s \in SUBSET D, NEW x \in s
      PROVE  G(s) = f[x] + G(s \ {x})
  <2>1. \A i \in Six : P(s, i) \in Int /\ P(s \ {x}, i) = IF i = x THEN 0 ELSE P(s, i)
    BY DEF Six
  <2>2. x \in Six /\ P(s, x) = f[x]
    OBVIOUS
  <2> HIDE DEF P
  <2> QED BY <2>1, <2>2 DEF Six
<1>3. G({}) = 0
  OBVIOUS
<1>4. g = Map(g)
  <2>1. ASSUME NEW s \in SUBSET D, s # {}
        PROVE  g[s] = LET x == CHOOSE x \in s : TRUE IN f[x] + g[s \ {x}]
    <3> DEFINE x == CHOOSE x \in s : TRUE
    <3>1. x \in s /\ s \ {x} \in SUBSET D
      BY <2>1
    <3> HIDE DEF x, G
    <3>2. g[s] = f[x] + g[s \ {x}]
      BY <1>2, <3>1
    <3> QED BY <3>2 DEF x
  <2>2. g[{}] = 0
    BY <1>3
  <2> HIDE DEF G
  <2> QED BY <2>1, <2>2
<1>5. iter = Map(iter)
  <2> HIDE DEF g, Map
  <2> QED BY <1>4
<1>6. \A s \in SUBSET D : s # {} => \E x \in s : iter[s] = f[x] + iter[s \ {x}]
  <2> SUFFICES ASSUME NEW s \in SUBSET D, s # {}
               PROVE  \E x \in s : iter[s] = f[x] + iter[s \ {x}]
    OBVIOUS
  <2> HIDE DEF iter
  <2>1. (CHOOSE x \in s : TRUE) \in s
    OBVIOUS
  <2> QED BY <1>5, <2>1
<1>7. iter[{}] = 0
  <2> HIDE DEF iter
  <2> QED BY <1>5
<1> HIDE DEF iter, g, Map, P, G
<1> DEFINE Wrong == {s \in SUBSET D : iter[s] # G(s)}
           T == {Cardinality(s) : s \in Wrong}
<1>8. \A s \in SUBSET D : IsFiniteSet(s) /\ Cardinality(s) \in Nat
  BY SmallSets
<1>9. Wrong = {}
  <2> SUFFICES ASSUME Wrong # {} PROVE FALSE
    OBVIOUS
  <2>1. T \subseteq Nat /\ T # {}
    BY <1>8
  <2>2. PICK k \in T : \A j \in T : k <= j
    BY <2>1, NatMin
  <2>3. PICK s \in Wrong : k = Cardinality(s)
    OBVIOUS
  <2>4. s # {}
    BY <1>3, <1>7
  <2>5. PICK x \in s : iter[s] = f[x] + iter[s \ {x}]
    BY <1>6, <2>4
  <2>6. s \ {x} \in SUBSET D /\ Cardinality(s \ {x}) = Cardinality(s) - 1
    BY <1>8, FS_RemoveElement
  <2>7. s \ {x} \notin Wrong
    <3> SUFFICES ASSUME s \ {x} \in Wrong PROVE FALSE
      OBVIOUS
    <3>1. Cardinality(s \ {x}) \in T
      OBVIOUS
    <3>2. k \in Nat /\ k <= k - 1
      BY <2>1, <2>2, <2>3, <2>6, <3>1
    <3> QED BY <3>2
  <2>8. iter[s] = G(s)
    BY <1>2, <2>5, <2>6, <2>7
  <2> QED BY <2>8
<1>10. iter[D] = G(D)
  BY <1>9
<1> QED BY <1>1, <1>10 DEF G, P, Part

LEMMA SizeOfSix ==
  ASSUME NEW S, S \subseteq Six
  PROVE  Cardinality(S) = Mark(S, 1) + Mark(S, 2) + Mark(S, 3) + Mark(S, 4) + Mark(S, 5) + Mark(S, 6)
<1> DEFINE G(s) == Mark(s, 1) + Mark(s, 2) + Mark(s, 3) + Mark(s, 4) + Mark(s, 5) + Mark(s, 6)
           Wrong == {s \in SUBSET S : Cardinality(s) # G(s)}
           T == {Cardinality(s) : s \in Wrong}
<1>1. ASSUME NEW s \in SUBSET S, NEW x \in s
      PROVE  G(s) = 1 + G(s \ {x})
  <2>1. \A i \in Six : Mark(s, i) \in Int /\ Mark(s \ {x}, i) = IF i = x THEN 0 ELSE Mark(s, i)
    BY DEF Six, Mark
  <2>2. x \in Six /\ Mark(s, x) = 1
    BY DEF Mark
  <2> QED BY <2>1, <2>2 DEF Six
<1>2. G({}) = 0
  BY DEF Mark
<1> HIDE DEF G
<1>3. \A s \in SUBSET S : IsFiniteSet(s) /\ Cardinality(s) \in Nat
  BY SmallSets
<1>4. Wrong = {}
  <2> SUFFICES ASSUME Wrong # {} PROVE FALSE
    OBVIOUS
  <2>1. T \subseteq Nat /\ T # {}
    BY <1>3
  <2>2. PICK k \in T : \A j \in T : k <= j
    BY <2>1, NatMin
  <2>3. PICK s \in Wrong : k = Cardinality(s)
    OBVIOUS
  <2>4. s # {}
    BY <1>2, FS_EmptySet
  <2>5. PICK x : x \in s
    BY <2>4
  <2>6. s \ {x} \in SUBSET S /\ Cardinality(s \ {x}) = Cardinality(s) - 1
    BY <1>3, <2>5, FS_RemoveElement
  <2>7. s \ {x} \notin Wrong
    <3> SUFFICES ASSUME s \ {x} \in Wrong PROVE FALSE
      OBVIOUS
    <3>1. Cardinality(s \ {x}) \in T
      OBVIOUS
    <3>2. k \in Nat /\ k <= k - 1
      BY <2>1, <2>2, <2>3, <2>6, <3>1
    <3> QED BY <3>2
  <2>8. Cardinality(s) = G(s)
    BY <1>1, <1>3, <2>5, <2>6, <2>7
  <2> QED BY <2>8
<1> QED BY <1>4 DEF G

(* No more are among the first n than n. *)
LEMMA FirstFew ==
  ASSUME NEW S, S \subseteq Six, NEW n \in Nat
  PROVE  LET F == FirstOf(S, n)
         IN  /\ F \subseteq S
             /\ Mark(F, 1) + Mark(F, 2) + Mark(F, 3) + Mark(F, 4) + Mark(F, 5) + Mark(F, 6) <= n
<1> DEFINE F == FirstOf(S, n)
           Upto(i) == {j \in S : j <= i}
<1>1. \A i \in Six : i \in F <=> i \in S /\ Cardinality(Upto(i)) <= n
  BY DEF FirstOf
<1>2. ASSUME NEW i \in Six
      PROVE  Cardinality(Upto(i)) = Mark(Upto(i), 1) + Mark(Upto(i), 2) + Mark(Upto(i), 3)
                                    + Mark(Upto(i), 4) + Mark(Upto(i), 5) + Mark(Upto(i), 6)
  <2>1. Upto(i) \subseteq Six
    OBVIOUS
  <2> HIDE DEF Upto
  <2> QED BY <2>1, SizeOfSix
<1>3. \A i \in Six, j \in Six : Mark(Upto(i), j) = IF j <= i THEN Mark(S, j) ELSE 0
  BY DEF Mark
<1>4. \A i \in Six : Mark(S, i) \in {0, 1} /\ Mark(F, i) = 1 => Mark(S, i) = 1
  BY <1>1 DEF Mark
<1>5. F \subseteq S
  BY DEF FirstOf
<1> HIDE DEF F, Upto
<1> DEFINE f(i) == Mark(F, i)
           m(i) == Mark(S, i)
<1>6. \A i \in Six : /\ m(i) \in {0, 1} /\ f(i) \in {0, 1} /\ f(i) <= m(i)
  BY <1>4 DEF Mark
<1>7. \A i \in Six : f(i) = 1 =>
        (IF 1 <= i THEN m(1) ELSE 0) + (IF 2 <= i THEN m(2) ELSE 0) + (IF 3 <= i THEN m(3) ELSE 0)
        + (IF 4 <= i THEN m(4) ELSE 0) + (IF 5 <= i THEN m(5) ELSE 0) + (IF 6 <= i THEN m(6) ELSE 0)
          <= n
  <2> SUFFICES ASSUME NEW i \in Six, f(i) = 1
               PROVE  (IF 1 <= i THEN m(1) ELSE 0) + (IF 2 <= i THEN m(2) ELSE 0) + (IF 3 <= i THEN m(3) ELSE 0)
        + (IF 4 <= i THEN m(4) ELSE 0) + (IF 5 <= i THEN m(5) ELSE 0) + (IF 6 <= i THEN m(6) ELSE 0)
          <= n
    OBVIOUS
  <2>1. Cardinality(Upto(i)) <= n
    BY <1>1 DEF Mark
  <2>2. \A j \in Six : Mark(Upto(i), j) = IF j <= i THEN Mark(S, j) ELSE 0
    BY <1>3
  <2>3. /\ Mark(Upto(i), 1) = (IF 1 <= i THEN m(1) ELSE 0)
        /\ Mark(Upto(i), 2) = (IF 2 <= i THEN m(2) ELSE 0)
        /\ Mark(Upto(i), 3) = (IF 3 <= i THEN m(3) ELSE 0)
        /\ Mark(Upto(i), 4) = (IF 4 <= i THEN m(4) ELSE 0)
        /\ Mark(Upto(i), 5) = (IF 5 <= i THEN m(5) ELSE 0)
        /\ Mark(Upto(i), 6) = (IF 6 <= i THEN m(6) ELSE 0)
    BY <2>2 DEF Six
  <2> HIDE DEF m
  <2> QED BY <1>2, <2>1, <2>3
<1> HIDE DEF f, m
<1>8. f(1) + f(2) + f(3) + f(4) + f(5) + f(6) <= n
  BY <1>6, <1>7 DEF Six
<1> QED BY <1>5, <1>8 DEF F, f

(* What is known of the columns of a table before they get their widths. *)
Columns(specs) ==
  /\ DOMAIN specs \subseteq Six /\ 1 \in DOMAIN specs
  /\ \A i \in DOMAIN specs : /\ specs[i].min \in Nat /\ specs[i].max \in 0 .. 24
                              /\ 0 < specs[i].min /\ specs[i].min <= specs[i].max
                              /\ specs[i].drop \in 0 .. 6 /\ (specs[i].drop = 0 <=> i = 1)
  /\ specs[1].id = "id" /\ specs[1].min = 4

LEMMA CostIs ==
  ASSUME NEW a, DOMAIN a \subseteq Six, \A i \in DOMAIN a : a[i].min \in Nat /\ a[i].min > 0
  PROVE  LET least == [i \in DOMAIN a |-> a[i].min]
         IN  /\ ColumnCost(a) = Total(least) + 2 * Cardinality(DOMAIN a)
             /\ Total(least) \in Nat /\ Cardinality(DOMAIN a) \in Nat
             /\ Cardinality(DOMAIN a) <= Total(least)
<1> DEFINE least == [i \in DOMAIN a |-> a[i].min]
           cost == [i \in DOMAIN a |-> a[i].min + 2]
           S == DOMAIN a
<1>1. ColumnCost(a) = Total(cost)
  BY DEF ColumnCost, colPad
<1>2. Total(cost) = Part(cost, 1) + Part(cost, 2) + Part(cost, 3)
                    + Part(cost, 4) + Part(cost, 5) + Part(cost, 6)
  <2>1. DOMAIN cost \subseteq Six /\ \A i \in DOMAIN cost : cost[i] \in Int
    OBVIOUS
  <2> HIDE DEF cost
  <2> QED BY <2>1, TotalOfSix
<1>3. Total(least) = Part(least, 1) + Part(least, 2) + Part(least, 3)
                     + Part(least, 4) + Part(least, 5) + Part(least, 6)
  <2>1. DOMAIN least \subseteq Six /\ \A i \in DOMAIN least : least[i] \in Int
    OBVIOUS
  <2> HIDE DEF least
  <2> QED BY <2>1, TotalOfSix
<1>4. Cardinality(S) = Mark(S, 1) + Mark(S, 2) + Mark(S, 3) + Mark(S, 4) + Mark(S, 5) + Mark(S, 6)
  BY SizeOfSix
<1>5. \A i \in Six : /\ Part(cost, i) = Part(least, i) + 2 * Mark(S, i)
                     /\ Mark(S, i) \in Nat /\ Part(least, i) \in Nat
                     /\ Mark(S, i) <= Part(least, i)
  BY DEF Part, Mark
<1> HIDE DEF cost, least, S
<1>6. /\ Total(cost) = Total(least) + 2 * Cardinality(S)
      /\ Total(least) \in Nat /\ Cardinality(S) \in Nat /\ Cardinality(S) <= Total(least)
  BY <1>2, <1>3, <1>4, <1>5 DEF Six
<1> QED BY <1>1, <1>6 DEF least, S

(* The columns kept fit with their least widths, and the id is one of them. *)
LEMMA KeptIs ==
  ASSUME NEW specs, Columns(specs), NEW total \in Nat, total >= 6
  PROVE  LET a == Kept(total, specs)
         IN  /\ DOMAIN a \subseteq DOMAIN specs /\ 1 \in DOMAIN a
             /\ \A i \in DOMAIN a : a[i] = specs[i]
             /\ ColumnCost(a) <= total
<1> DEFINE In(d) == {i \in DOMAIN specs : specs[i].drop <= d}
           Upto(d) == Restrict(specs, In(d))
           ranks == {specs[i].drop : i \in DOMAIN specs}
           fits == {d \in ranks : ColumnCost(Upto(d)) <= total}
           d0 == Max({Min(ranks)} \cup fits)
<1>1. Kept(total, specs) = Upto(d0)
  BY DEF Kept
<1>2. ranks \subseteq 0 .. 6 /\ 0 \in ranks
  BY DEF Columns
<1>3. \A d \in 0 .. 6 : 1 \in In(d) /\ In(d) \subseteq DOMAIN specs /\ In(d) \subseteq Six
  BY DEF Columns
<1>4. \A d : DOMAIN Upto(d) = In(d) /\ \A i \in In(d) : Upto(d)[i] = specs[i]
  BY DEF Restrict
<1>5. ColumnCost(Upto(0)) = 6
  <2>1. In(0) = {1} /\ specs[1].min = 4
    BY DEF Columns
  <2>2. DOMAIN Upto(0) = {1} /\ Upto(0)[1].min = 4
    BY <1>4, <2>1
  <2> DEFINE a == Upto(0)
             cost == [i \in DOMAIN a |-> a[i].min + 2]
  <2> HIDE DEF Upto
  <2>3. DOMAIN cost = {1} /\ cost[1] = 6 /\ ColumnCost(Upto(0)) = Total(cost)
    BY <2>2 DEF ColumnCost, colPad
  <2> HIDE DEF cost
  <2>4. DOMAIN cost \subseteq Six /\ \A i \in DOMAIN cost : cost[i] \in Int
    BY <2>3 DEF Six
  <2>5. Total(cost) = Part(cost, 1) + Part(cost, 2) + Part(cost, 3)
                      + Part(cost, 4) + Part(cost, 5) + Part(cost, 6)
    BY <2>4, TotalOfSix
  <2>6. /\ Part(cost, 1) = 6 /\ Part(cost, 2) = 0 /\ Part(cost, 3) = 0
        /\ Part(cost, 4) = 0 /\ Part(cost, 5) = 0 /\ Part(cost, 6) = 0
    BY <2>3 DEF Part
  <2> QED BY <2>3, <2>5, <2>6
<1>6. Min(ranks) = 0
  <2> HIDE DEF ranks
  <2>1. \A x \in ranks : (\A y \in ranks : x <= y) <=> x = 0
    BY <1>2
  <2> QED BY <1>2, <2>1 DEF Min
<1> HIDE DEF Upto, ranks, In
<1>7. {Min(ranks)} \cup fits \subseteq 0 .. 6 /\ {Min(ranks)} \cup fits # {}
  BY <1>2, <1>6
<1>8. d0 \in {0} \cup fits
  BY <1>6, <1>7, MaxIn
<1>9. d0 \in 0 .. 6 /\ ColumnCost(Upto(d0)) <= total
  BY <1>5, <1>6, <1>7, <1>8
<1> HIDE DEF d0
<1> QED BY <1>1, <1>3, <1>4, <1>9

(* What TuiProps says of the columns of a table. *)
ColumnsWithin(cols, specs, width) ==
  /\ Total([i \in DOMAIN cols |-> cols[i].width + colPad]) <= width
  /\ \A i \in DOMAIN cols : \E j \in DOMAIN specs :
       /\ cols[i].id = specs[j].id
       /\ specs[j].min <= cols[i].width /\ cols[i].width <= specs[j].max
  /\ \E i \in DOMAIN cols : cols[i].id = "id"

(* Widths w that fit and of which some can gain a unit. *)
LEMMA GainedFits ==
  ASSUME NEW cols, cols \subseteq Six, NEW w, DOMAIN w = cols, \A i \in cols : w[i] \in Int,
         NEW n \in Nat, NEW open, open \subseteq cols, NEW width \in Int,
         Total(w) + n + 2 * Cardinality(cols) <= width
  PROVE  Total([i \in cols |-> (IF i \in FirstOf(open, n) THEN w[i] + 1 ELSE w[i]) + colPad])
           <= width
<1> DEFINE F == FirstOf(open, n)
           c == [i \in cols |-> (IF i \in F THEN w[i] + 1 ELSE w[i]) + colPad]
<1>1. /\ F \subseteq open
      /\ Mark(F, 1) + Mark(F, 2) + Mark(F, 3) + Mark(F, 4) + Mark(F, 5) + Mark(F, 6) <= n
  <2>1. open \subseteq Six
    OBVIOUS
  <2> QED BY <2>1, FirstFew
<1> HIDE DEF F
<1>2. /\ DOMAIN c = cols /\ \A i \in cols : c[i] \in Int
      /\ \A i \in cols : c[i] = w[i] + Mark(F, i) + 2
  BY DEF Mark, colPad
<1> HIDE DEF c
<1>3. Total(c) = Part(c, 1) + Part(c, 2) + Part(c, 3) + Part(c, 4) + Part(c, 5) + Part(c, 6)
  BY <1>2, TotalOfSix
<1>4. Total(w) = Part(w, 1) + Part(w, 2) + Part(w, 3) + Part(w, 4) + Part(w, 5) + Part(w, 6)
  BY TotalOfSix
<1>5. Cardinality(cols) = Mark(cols, 1) + Mark(cols, 2) + Mark(cols, 3)
                          + Mark(cols, 4) + Mark(cols, 5) + Mark(cols, 6)
  BY SizeOfSix
<1>6. \A i \in Six : /\ Part(c, i) = Part(w, i) + Mark(F, i) + 2 * Mark(cols, i)
                     /\ Part(w, i) \in Int /\ Mark(F, i) \in Int /\ Mark(cols, i) \in Int
  BY <1>1, <1>2 DEF Part, Mark
<1>7. Total(c) <= width
  BY <1>1, <1>3, <1>4, <1>5, <1>6 DEF Six
<1> QED BY <1>7 DEF c, F

(* The columns of a table in which there is room for the id. *)
LEMMA FitColumnsFits ==
  ASSUME NEW specs, Columns(specs), NEW width \in Nat, width >= 6
  PROVE  ColumnsWithin(FitColumns(width, specs), specs, width)
<1> DEFINE active == Kept(width, specs)
           cols == DOMAIN active
           size == Cardinality(cols)
           budget == Max({width - colPad * size, size})
           least == [i \in cols |-> active[i].min]
           most == [i \in cols |-> active[i].max]
           Filled(r) == [i \in cols |-> Min({least[i] + r, most[i]})]
           top == Max({most[i] : i \in cols})
           rounds == Max({r \in 0 .. top : Total(Filled(r)) <= budget})
           rest == budget - Total(Filled(rounds))
           open == {i \in cols : Filled(rounds)[i] < most[i]}
           w == Filled(rounds)
           widths == [i \in cols |-> IF i \in FirstOf(open, rest) THEN w[i] + 1 ELSE w[i]]
<1>1. Max({width, 1}) = width
  BY MaxOfTwo
<1>2. /\ cols \subseteq DOMAIN specs /\ 1 \in cols /\ cols \subseteq Six
      /\ \A i \in cols : active[i] = specs[i]
      /\ ColumnCost(active) <= width
  BY KeptIs DEF Columns
<1>3. ~(Total(least) > budget) =>
        FitColumns(width, specs) = [i \in cols |-> [id |-> active[i].id, width |-> widths[i]]]
  <2> DEFINE Capped(c) == [i \in cols |-> Min({least[i], c})]
             cap == Min({c \in 1 .. Total(least) : Total(Capped(c)) >= budget})
             cut == FirstOf({i \in cols : least[i] >= cap}, Total(Capped(cap)) - budget)
             both == [i \in cols |->
                        IF Total(least) > budget
                        THEN IF i \in cut THEN Capped(cap)[i] - 1 ELSE Capped(cap)[i]
                        ELSE IF i \in FirstOf(open, rest) THEN w[i] + 1 ELSE w[i]]
  <2>1. FitColumns(width, specs) = [i \in cols |-> [id |-> active[i].id, width |-> both[i]]]
    <3>1. FitColumns(width, specs)
            = [i \in cols |-> [id |-> active[i].id, width |-> Widths(width, active)[i]]]
      BY <1>1 DEF FitColumns
    <3> HIDE DEF active
    <3>2. Widths(width, active) = both
      BY Zenon DEF Widths
    <3> HIDE DEF both
    <3> QED BY <3>1, <3>2
  <2> HIDE DEF active, cols, budget, least, open, rest, w, Capped, cap, cut
  <2>2. ~(Total(least) > budget) => both = widths
    OBVIOUS
  <2> HIDE DEF both, widths
  <2> QED BY <2>1, <2>2
<1> HIDE DEF active
<1>4. \A i \in cols : /\ least[i] \in Nat /\ most[i] \in Nat /\ least[i] <= most[i]
                      /\ active[i].min \in Nat /\ active[i].min > 0
  BY <1>2 DEF Columns
<1>5. /\ ColumnCost(active) = Total(least) + 2 * size
      /\ Total(least) \in Nat /\ size \in Nat /\ size <= Total(least)
  BY <1>2, <1>4, CostIs
<1>6. budget = width - 2 * size /\ ~(Total(least) > budget) /\ budget \in Nat
        /\ Total(least) <= budget
  <2>1. width - 2 * size >= Total(least)
    BY <1>2, <1>5
  <2>2. budget = width - 2 * size
    BY <1>5, <2>1, MaxOfTwo DEF colPad
  <2> QED BY <1>5, <2>1, <2>2
<1> HIDE DEF cols, size, budget
<1>7. \A r \in Nat : \A i \in cols :
        /\ Filled(r)[i] \in Int /\ least[i] <= Filled(r)[i] /\ Filled(r)[i] <= most[i]
        /\ r = 0 => Filled(r)[i] = least[i]
  <2> SUFFICES ASSUME NEW r \in Nat, NEW i \in cols
               PROVE  LET x == Min({least[i] + r, most[i]})
                      IN  x \in Int /\ least[i] <= x /\ x <= most[i] /\ (r = 0 => x = least[i])
    OBVIOUS
  <2>1. PICK a \in Nat, b \in Nat : a = least[i] /\ b = most[i] /\ a <= b
    BY <1>4
  <2>2. Min({a + r, b}) = IF a + r <= b THEN a + r ELSE b
    BY MinOfTwo
  <2> QED BY <2>1, <2>2
<1>8. Filled(0) = least
  BY <1>7
<1>9. top \in Nat
  <2>1. \A i \in cols : most[i] \in 0 .. 24
    BY <1>2 DEF Columns
  <2> HIDE DEF most
  <2>2. {most[i] : i \in cols} \subseteq 0 .. 24 /\ {most[i] : i \in cols} # {}
    BY <1>2, <2>1
  <2>3. Max({most[i] : i \in cols}) \in {most[i] : i \in cols}
    BY <2>2, MaxIn
  <2> QED BY <2>2, <2>3
<1> HIDE DEF Filled, least, most, top
<1>10. rounds \in Nat /\ Total(w) <= budget
  <2> DEFINE R == {r \in 0 .. top : Total(Filled(r)) <= budget}
  <2>1. R \subseteq 0 .. top /\ 0 \in R
    BY <1>6, <1>8, <1>9
  <2>2. Max(R) \in R
    BY <1>9, <2>1, MaxIn
  <2> QED BY <1>9, <2>2
<1>11. DOMAIN w = cols /\ \A i \in cols : w[i] \in Int /\ least[i] <= w[i] /\ w[i] <= most[i]
  BY <1>7, <1>10 DEF Filled
<1> HIDE DEF rounds
<1>12. Total(w) \in Int
  <2>1. \A i \in Six : Part(w, i) \in Int
    BY <1>11 DEF Part
  <2>2. Total(w) = Part(w, 1) + Part(w, 2) + Part(w, 3) + Part(w, 4) + Part(w, 5) + Part(w, 6)
    BY <1>2, <1>11, TotalOfSix
  <2> QED BY <2>1, <2>2 DEF Six
<1>13. rest \in Nat /\ Total(w) + rest + 2 * Cardinality(cols) <= width
  BY <1>5, <1>6, <1>10, <1>12 DEF size
<1> HIDE DEF w, rest
<1>14. open \subseteq cols
  OBVIOUS
<1> HIDE DEF open
<1>15. Total([i \in cols |-> widths[i] + colPad]) <= width
  <2>1. Total([i \in cols |-> (IF i \in FirstOf(open, rest) THEN w[i] + 1 ELSE w[i]) + colPad])
          <= width
    BY <1>2, <1>11, <1>13, <1>14, GainedFits
  <2> QED BY <2>1
<1>16. \A i \in cols : specs[i].min <= widths[i] /\ widths[i] <= specs[i].max
  <2> SUFFICES ASSUME NEW i \in cols
               PROVE  specs[i].min <= widths[i] /\ widths[i] <= specs[i].max
    OBVIOUS
  <2>1. least[i] = specs[i].min /\ most[i] = specs[i].max
    BY <1>2 DEF least, most
  <2>2. FirstOf(open, rest) \subseteq open
    BY DEF FirstOf
  <2>3. i \in FirstOf(open, rest) => w[i] < most[i]
    BY <2>2 DEF open, w
  <2> QED BY <1>4, <1>11, <2>1, <2>3
<1> DEFINE c == FitColumns(width, specs)
<1>17. DOMAIN c = cols /\ \A i \in cols : c[i].id = specs[i].id /\ c[i].width = widths[i]
  BY <1>2, <1>3, <1>6
<1> HIDE DEF c, widths
<1>18. Total([i \in DOMAIN c |-> c[i].width + colPad]) <= width
  <2>1. [i \in DOMAIN c |-> c[i].width + colPad] = [i \in cols |-> widths[i] + colPad]
    BY <1>17
  <2> QED BY <1>15, <2>1
<1>19. \A i \in DOMAIN c : \E j \in DOMAIN specs :
         /\ c[i].id = specs[j].id
         /\ specs[j].min <= c[i].width /\ c[i].width <= specs[j].max
  BY <1>2, <1>16, <1>17
<1>20. 1 \in DOMAIN c /\ c[1].id = "id"
  BY <1>2, <1>17 DEF Columns
<1> QED BY <1>18, <1>19, <1>20 DEF ColumnsWithin, c

LEMMA SpecsAreColumns == Columns(neighbourSpecs) /\ Columns(routeSpecs)
<1>1. Columns(neighbourSpecs)
  BY DEF Columns, neighbourSpecs, Column, Six
<1>2. Columns(routeSpecs)
  BY DEF Columns, routeSpecs, Column, Six
<1> QED BY <1>1, <1>2

-----------------------------------------------------------------------------
(* The heights that grow. *)

(* The sizes that fit are those that leave c rows of all. *)
LinearFit(fitting, c, rows) == \A x \in Nat : x \in fitting <=> c + x <= rows

(* The pairs of sizes that fit are those that share b rows. *)
PairFit(fitting, b) == \A p \in Nat \X Nat : p \in fitting <=> p[1] + p[2] <= b

(* What grows to g, of which c + g share the rows, stops where it must. *)
Grown(from, to, c, rows, g) ==
  /\ g \in from .. to
  /\ g > from => c + g <= rows
  /\ g < to => c + g + 1 > rows

(* Grow stops at the first size that does not fit, or where it may not go on. *)
LEMMA GrowLinear ==
  ASSUME NEW from \in Nat, NEW to \in Nat, from <= to, NEW c \in Int, NEW rows \in Int,
         NEW fitting, LinearFit(fitting, c, rows)
  PROVE  Grown(from, to, c, rows, Grow(from, to, fitting))
<1> DEFINE S == {x \in from .. to : from + 1 .. x \subseteq fitting}
           top == IF c + from + 1 > rows THEN from ELSE IF c + to <= rows THEN to ELSE rows - c
<1>1. Max({from, to}) = to
  BY MaxOfTwo
<1>2. top \in from .. to
  OBVIOUS
<1>0. \A x \in Nat : x \in fitting <=> c + x <= rows
  BY DEF LinearFit
<1>3. \A x \in from + 1 .. top : x \in fitting
  BY <1>0
<1>4. top \in S
  BY <1>2, <1>3
<1>5. \A x \in S : x <= top
  <2> SUFFICES ASSUME NEW x \in S, x > top PROVE FALSE
    BY <1>2
  <2>1. top + 1 \in from + 1 .. x /\ top + 1 \in Nat
    BY <1>2
  <2>2. c + (top + 1) <= rows
    BY <1>0, <2>1
  <2> QED BY <1>2, <2>2
<1> HIDE DEF top
<1>6. Grow(from, to, fitting) = Max(S)
  BY <1>1 DEF Grow
<1>7. Max(S) = top
  <2>1. \A x \in S : (\A y \in S : x >= y) <=> x = top
    BY <1>2, <1>4, <1>5
  <2> HIDE DEF S
  <2> QED BY <1>4, <2>1 DEF Max
<1> QED BY <1>2, <1>6, <1>7 DEF top, Grown

(* Where the two tables end up when no more than b rows fit. *)
GrownFrom(b, p) ==
  LET s == b - p[1] - p[2]
      d == p[1] - p[2]
  IN  CASE s <= 0           -> p
        [] s > 0 /\ d <= 0  -> <<p[1] + (s + 1) \div 2, p[2] + s \div 2>>
        [] s > 0 /\ d > 0 /\ s <= d -> <<p[1], p[2] + s>>
        [] OTHER -> <<p[1] + (s - d + 1) \div 2, p[1] + (s - d) \div 2>>

(* One turn of the two tables. *)
Turn(b, p) ==
  LET n == IF p[1] <= p[2] /\ p[1] + 1 + p[2] <= b THEN p[1] + 1 ELSE p[1]
  IN  <<n, IF n + p[2] + 1 <= b THEN p[2] + 1 ELSE p[2]>>

LEMMA GrownValues ==
  ASSUME NEW b \in Nat, NEW x \in Nat, NEW y \in Nat
  PROVE  LET s == b - x - y
             d == x - y
         IN  /\ s <= 0 => GrownFrom(b, <<x, y>>) = <<x, y>>
             /\ (s > 0 /\ d <= 0)
                  => GrownFrom(b, <<x, y>>) = <<x + (s + 1) \div 2, y + s \div 2>>
             /\ (s > 0 /\ d > 0 /\ s <= d) => GrownFrom(b, <<x, y>>) = <<x, y + s>>
             /\ (s > 0 /\ d > 0 /\ s > d)
                  => GrownFrom(b, <<x, y>>)
                       = <<x + (s - d + 1) \div 2, x + (s - d) \div 2>>
BY DEF GrownFrom

LEMMA TurnReaches ==
  ASSUME NEW b \in Nat, NEW p \in Nat \X Nat, p # Turn(b, p)
  PROVE  /\ Turn(b, p) \in Nat \X Nat
         /\ GrownFrom(b, p) = GrownFrom(b, Turn(b, p))
<1>0. PICK x \in Nat, y \in Nat : p = <<x, y>>
  OBVIOUS
<1> DEFINE s == b - x - y
           d == x - y
<1>1. s > 0
  BY <1>0 DEF Turn
<1>2. CASE d <= 0 /\ s >= 2
  <2>1. Turn(b, p) = <<x + 1, y + 1>>
    BY <1>0, <1>2 DEF Turn
  <2>2. GrownFrom(b, p) = <<x + (s + 1) \div 2, y + s \div 2>>
    BY <1>0, <1>1, <1>2, GrownValues
  <2>3. CASE s = 2
    <3>1. GrownFrom(b, <<x + 1, y + 1>>) = <<x + 1, y + 1>>
      BY <2>3, GrownValues
    <3>2. (s + 1) \div 2 = 1 /\ s \div 2 = 1
      BY <2>3
    <3> QED BY <2>1, <2>2, <3>1, <3>2
  <2>4. CASE s > 2
    <3>1. b - (x + 1) - (y + 1) = s - 2 /\ (x + 1) - (y + 1) = d
      OBVIOUS
    <3>2. GrownFrom(b, <<x + 1, y + 1>>) = <<x + 1 + (s - 2 + 1) \div 2, y + 1 + (s - 2) \div 2>>
      BY <3>1, <2>4, <1>2, GrownValues
    <3>3. x + 1 + (s - 2 + 1) \div 2 = x + (s + 1) \div 2 /\ y + 1 + (s - 2) \div 2 = y + s \div 2
      BY <1>1
    <3> QED BY <2>1, <2>2, <3>2, <3>3
  <2> QED BY <1>2, <2>1, <2>3, <2>4
<1>3. CASE d <= 0 /\ s = 1
  <2>1. Turn(b, p) = <<x + 1, y>>
    BY <1>0, <1>3 DEF Turn
  <2>2. GrownFrom(b, <<x + 1, y>>) = <<x + 1, y>>
    BY <1>3, GrownValues
  <2>3. GrownFrom(b, p) = <<x + (s + 1) \div 2, y + s \div 2>>
    BY <1>0, <1>1, <1>3, GrownValues
  <2>4. (s + 1) \div 2 = 1 /\ s \div 2 = 0
    BY <1>3
  <2> QED BY <2>1, <2>2, <2>3, <2>4
<1>4. CASE d > 0
  <2>1. Turn(b, p) = <<x, y + 1>>
    BY <1>0, <1>1, <1>4 DEF Turn
  <2>0. b - x - (y + 1) = s - 1 /\ x - (y + 1) = d - 1
    OBVIOUS
  <2>2. CASE s <= d
    <3>1. GrownFrom(b, p) = <<x, y + s>>
      BY <1>0, <1>1, <1>4, <2>2, GrownValues
    <3>2. CASE s = 1
      <4>1. GrownFrom(b, <<x, y + 1>>) = <<x, y + 1>>
        BY <2>0, <3>2, GrownValues
      <4> QED BY <2>1, <3>1, <3>2, <4>1
    <3>3. CASE s > 1
      <4>1. GrownFrom(b, <<x, y + 1>>) = <<x, y + 1 + (s - 1)>>
        BY <2>0, <2>2, <3>3, GrownValues
      <4> QED BY <2>1, <3>1, <4>1
    <3> QED BY <1>1, <3>2, <3>3
  <2>3. CASE s > d
    <3>1. GrownFrom(b, p) = <<x + (s - d + 1) \div 2, x + (s - d) \div 2>>
      BY <1>0, <1>1, <1>4, <2>3, GrownValues
    <3>2. CASE d > 1
      <4>1. GrownFrom(b, <<x, y + 1>>)
              = <<x + ((s - 1) - (d - 1) + 1) \div 2, x + ((s - 1) - (d - 1)) \div 2>>
        BY <2>0, <1>1, <1>4, <2>3, <3>2, GrownValues
      <4> QED BY <2>1, <3>1, <4>1
    <3>3. CASE d = 1
      <4>1. b - x - (y + 1) > 0 /\ x - (y + 1) <= 0
        BY <2>0, <2>3, <3>3
      <4>2. GrownFrom(b, <<x, y + 1>>)
              = <<x + (b - x - (y + 1) + 1) \div 2, y + 1 + (b - x - (y + 1)) \div 2>>
        BY <4>1, y + 1 \in Nat, GrownValues
      <4>3. y + 1 = x /\ s - d = b - x - (y + 1)
        BY <3>3
      <4> QED BY <2>1, <3>1, <4>2, <4>3
    <3> QED BY <1>4, <3>2, <3>3
  <2> QED BY <2>1, <2>2, <2>3
<1> QED BY <1>1, <1>2, <1>3, <1>4

(* The two tables take all the rows there are. *)
LEMMA GrowTablesFills ==
  ASSUME NEW b \in Nat, b >= 6,
         NEW fitting, PairFit(fitting, b)
  PROVE  LET rows == GrowTables(fitting)
         IN  /\ rows \in Nat \X Nat /\ rows[1] >= 3 /\ rows[2] >= 3
             /\ rows[1] + rows[2] = b
<1> DEFINE P == Nat \X Nat
           Map(g) == [p \in P |->
             LET n == IF p[1] <= p[2] /\ <<p[1] + 1, p[2]>> \in fitting THEN p[1] + 1 ELSE p[1]
                 r == IF <<n, p[2] + 1>> \in fitting THEN p[2] + 1 ELSE p[2]
             IN  IF p = <<n, r>> THEN p ELSE g[<<n, r>>]]
           Pass(g) == [p \in P |-> IF p = Turn(b, p) THEN p ELSE g[Turn(b, p)]]
           grown == CHOOSE g : g = Map(g)
<1>0. \A p \in P : p \in fitting <=> p[1] + p[2] <= b
  BY DEF PairFit
<1>1. \A g : Map(g) = Pass(g)
  <2> SUFFICES ASSUME NEW g, NEW p \in P
               PROVE  LET n == IF p[1] <= p[2] /\ <<p[1] + 1, p[2]>> \in fitting THEN p[1] + 1 ELSE p[1]
                          r == IF <<n, p[2] + 1>> \in fitting THEN p[2] + 1 ELSE p[2]
                      IN  <<n, r>> = Turn(b, p)
    OBVIOUS
  <2> DEFINE n == IF p[1] <= p[2] /\ <<p[1] + 1, p[2]>> \in fitting THEN p[1] + 1 ELSE p[1]
  <2>1. n = IF p[1] <= p[2] /\ p[1] + 1 + p[2] <= b THEN p[1] + 1 ELSE p[1]
    <3>1. <<p[1] + 1, p[2]>> \in P
      OBVIOUS
    <3> QED BY <1>0, <3>1
  <2>2. n \in Nat
    OBVIOUS
  <2> HIDE DEF n
  <2>3. <<n, p[2] + 1>> \in fitting <=> n + p[2] + 1 <= b
    <3>1. <<n, p[2] + 1>> \in P
      BY <2>2
    <3> QED BY <1>0, <2>2, <3>1
  <2> QED BY <2>1, <2>3 DEF Turn, n
<1>2. \E g : g = Map(g)
  <2> DEFINE g == [p \in P |-> GrownFrom(b, p)]
  <2>1. \A p \in P : g[p] = IF p = Turn(b, p) THEN p ELSE g[Turn(b, p)]
    <3> SUFFICES ASSUME NEW p \in P
                 PROVE  g[p] = IF p = Turn(b, p) THEN p ELSE g[Turn(b, p)]
      OBVIOUS
    <3>1. CASE p = Turn(b, p)
      <4>1. PICK x \in Nat, y \in Nat : p = <<x, y>>
        OBVIOUS
      <4>2. b - x - y <= 0
        BY <3>1, <4>1 DEF Turn
      <4> QED BY <3>1, <4>1, <4>2 DEF GrownFrom
    <3>2. CASE p # Turn(b, p)
      BY <3>2, TurnReaches
    <3> QED BY <3>1, <3>2
  <2>2. g = Pass(g)
    BY <2>1
  <2> HIDE DEF g, Map, Pass
  <2> QED BY <1>1, <2>2
<1>3. GrowTables(fitting) = grown[<<3, 3>>]
  BY DEF GrowTables
<1>4. grown = Map(grown)
  <2> HIDE DEF Map
  <2> QED BY <1>2
<1>5. \A p \in P : grown[p] = IF p = Turn(b, p) THEN p ELSE grown[Turn(b, p)]
  <2>1. grown = Pass(grown)
    BY <1>1, <1>4
  <2> QED BY <2>1
<1> HIDE DEF grown, Map, Pass
<1> DEFINE Good(p) == /\ grown[p] \in P /\ grown[p][1] >= p[1] /\ grown[p][2] >= p[2]
                      /\ grown[p][1] + grown[p][2] = b
           T == {k \in Nat : \E p \in P : k = b - p[1] - p[2] /\ ~Good(p)}
<1>6. T = {}
  <2> SUFFICES ASSUME T # {} PROVE FALSE
    OBVIOUS
  <2>1. PICK k \in T : \A j \in T : k <= j
    <3>1. T \subseteq Nat
      OBVIOUS
    <3> QED BY <3>1, NatMin
  <2>2. PICK p \in P : k = b - p[1] - p[2] /\ ~Good(p)
    OBVIOUS
  <2>3. PICK x \in Nat, y \in Nat : p = <<x, y>>
    OBVIOUS
  <2>4. CASE p = Turn(b, p)
    <3>1. b - x - y <= 0
      BY <2>3, <2>4 DEF Turn
    <3>2. grown[p] = p /\ x + y = b
      BY <1>5, <2>2, <2>3, <2>4, <3>1
    <3> QED BY <2>2, <2>3, <3>2
  <2>5. CASE p # Turn(b, p)
    <3> DEFINE q == Turn(b, p)
    <3>1. /\ q \in P /\ q[1] >= x /\ q[2] >= y
          /\ q[1] + q[2] > x + y /\ q[1] + q[2] <= b
      BY <2>3, <2>5 DEF Turn
    <3>2. grown[p] = grown[q]
      BY <1>5, <2>5
    <3> HIDE DEF q
    <3>3. Good(q)
      <4>1. b - q[1] - q[2] \in Nat /\ b - q[1] - q[2] < k
        BY <2>2, <2>3, <3>1
      <4>2. b - q[1] - q[2] \notin T
        BY <2>1, <4>1
      <4> QED BY <3>1, <4>1, <4>2
    <3>4. Good(p)
      BY <2>3, <3>1, <3>2, <3>3
    <3> QED BY <2>2, <3>4
  <2> QED BY <2>4, <2>5
<1>7. <<3, 3>> \in P /\ b - 3 - 3 \in Nat
  OBVIOUS
<1>8. Good(<<3, 3>>)
  BY <1>6, <1>7
<1> QED BY <1>3, <1>8

-----------------------------------------------------------------------------
(* The pieces of a layout. *)

(* The step from m to n may change the fields in S alone. *)
Within(m, n, S) == DOMAIN n = Fields /\ \A f \in Fields \ S : n[f] = m[f]

LEMMA Assigned ==
  ASSUME NEW m, DOMAIN m = Fields, NEW r, DOMAIN r \subseteq Fields
  PROVE  /\ Within(m, Assign(m, r), DOMAIN r)
         /\ \A f \in DOMAIN r : Assign(m, r)[f] = r[f]
BY DEF Assign, Within

(* Where the button is beside the receiver field. *)
LEMMA SizeComposeIs ==
  ASSUME NEW m, DOMAIN m = Fields, m.slimButton = FALSE, NEW w \in Nat, w >= 26
  PROVE  LET c == SizeComposeFields(m, w)
         IN  /\ Within(m, c, {"stackSend", "textareaWidth", "inputWidth"})
             /\ c.stackSend = FALSE /\ c.textareaWidth = w - 4
             /\ c.inputWidth = IF w - 18 <= 48 THEN w - 18 ELSE 48
<1> DEFINE r == [stackSend |-> FALSE, textareaWidth |-> w - 4,
                 inputWidth |-> IF w - 18 <= 48 THEN w - 18 ELSE 48]
<1>1. Max({w, 1}) = w /\ Max({w - 4, 1}) = w - 4 /\ Max({w - 2 - 12 - 4, 1}) = w - 18
  BY MaxOfTwo
<1>2. Min({w - 18, 48}) = r.inputWidth
  BY MinOfTwo
<1>3. (w < inlineMinW) = FALSE
  BY DEF inlineMinW, fieldFrameX, buttonGap, buttonRowW
<1>4. SizeComposeFields(m, w) = Assign(m, r)
  BY <1>1, <1>2, <1>3 DEF SizeComposeFields, fieldFrameX, buttonGap, buttonRowW
<1>5. DOMAIN r = {"stackSend", "textareaWidth", "inputWidth"} /\ DOMAIN r \subseteq Fields
  BY DEF Fields, Flags, Lengths
<1> QED BY <1>4, <1>5, Assigned

LEMMA CommitComposeIs ==
  ASSUME NEW m, DOMAIN m = Fields, m.stackSend = FALSE, m.slimButton = FALSE,
         m.hideComposeTitle = FALSE, NEW ta \in Nat, ta >= 1
  PROVE  LET c == CommitCompose(m, ta)
         IN  /\ Within(m, c, {"textareaHeight", "composeH"})
             /\ c.textareaHeight = ta /\ c.composeH = 6 + ta + FrameY(m)
<1> DEFINE r == [textareaHeight |-> ta, composeH |-> 6 + ta + FrameY(m)]
<1>1. Max({ta, 1}) = ta
  BY MaxOfTwo
<1>2. ComposeFixedLines(~m.hideComposeTitle, m.stackSend, m.slimButton) = 6
  BY DEF ComposeFixedLines
<1>3. CommitCompose(m, ta) = Assign(m, r)
  BY <1>1, <1>2 DEF CommitCompose
<1>4. DOMAIN r = {"textareaHeight", "composeH"} /\ DOMAIN r \subseteq Fields
  BY DEF Fields, Lengths
<1> QED BY <1>3, <1>4, Assigned

LEMMA CommitLogsIs ==
  ASSUME NEW m, DOMAIN m = Fields, NEW vp \in Nat, vp >= 1
  PROVE  LET c == CommitLogs(m, vp)
         IN  /\ Within(m, c, {"viewportHeight", "logsH"})
             /\ c.viewportHeight = vp /\ c.logsH = 1 + vp + FrameY(m)
<1> DEFINE r == [viewportHeight |-> vp, logsH |-> 1 + vp + FrameY(m)]
<1>1. CommitLogs(m, vp) = Assign(m, r)
  BY MaxOfTwo DEF CommitLogs
<1>2. DOMAIN r = {"viewportHeight", "logsH"} /\ DOMAIN r \subseteq Fields
  BY DEF Fields, Lengths
<1> QED BY <1>1, <1>2, Assigned

LEMMA CommitTablesIs ==
  ASSUME NEW m, DOMAIN m = Fields, NEW nH, NEW rH
  PROVE  LET c == CommitTables(m, nH, rH)
         IN  /\ Within(m, c, {"neighTableH", "routeTableH", "neighH", "routesH"})
             /\ c.neighTableH = nH /\ c.neighH = 1 + nH + FrameY(m)
             /\ c.routeTableH = rH /\ c.routesH = 1 + rH + FrameY(m)
<1> DEFINE r == [neighTableH |-> nH, routeTableH |-> rH,
                 neighH |-> 1 + nH + FrameY(m), routesH |-> 1 + rH + FrameY(m)]
<1>1. CommitTables(m, nH, rH) = Assign(m, r)
  BY DEF CommitTables
<1>2. /\ DOMAIN r = {"neighTableH", "routeTableH", "neighH", "routesH"}
      /\ DOMAIN r \subseteq Fields
  BY DEF Fields, Lengths
<1> QED BY <1>1, <1>2, Assigned

LEMMA TablesWideIs ==
  ASSUME NEW m, DOMAIN m = Fields, NEW x \in Nat, NEW y \in Nat, x >= 10, y >= 10
  PROVE  LET c == TablesWide(m, x, y)
         IN  /\ Within(m, c, {"neighW", "routesW", "neighTableW", "routeTableW"})
             /\ c.neighW = x /\ c.neighTableW = x - 4
             /\ c.routesW = y /\ c.routeTableW = y - 4
<1> DEFINE r == [neighW |-> x, routesW |-> y, neighTableW |-> x - 4, routeTableW |-> y - 4]
<1>1. Max({x - 4, 1}) = x - 4 /\ Max({y - 4, 1}) = y - 4
  BY MaxOfTwo
<1>2. TablesWide(m, x, y) = Assign(m, r)
  BY <1>1 DEF TablesWide, frameX
<1>3. /\ DOMAIN r = {"neighW", "routesW", "neighTableW", "routeTableW"}
      /\ DOMAIN r \subseteq Fields
  BY DEF Fields, Lengths
<1> QED BY <1>2, <1>3, Assigned

(* The fields that the upper panels of a wide terminal set. *)
TopFields == {"composeW", "logsW", "viewportWidth", "stackSend", "textareaWidth", "inputWidth"}

LEMMA TopWideIs ==
  ASSUME NEW m, DOMAIN m = Fields, m.slimButton = FALSE, m.width \in Nat, m.width >= 30
  PROVE  LET c == TopWide(m)
         IN  /\ Within(m, c, TopFields)
             /\ c.composeW = m.width /\ c.logsW = m.width /\ c.viewportWidth = m.width - 4
             /\ c.stackSend = FALSE /\ c.textareaWidth = m.width - 8
             /\ c.inputWidth = IF m.width - 22 <= 48 THEN m.width - 22 ELSE 48
<1> DEFINE r == [composeW |-> m.width, logsW |-> m.width, viewportWidth |-> m.width - 4]
           n == Assign(m, r)
<1>1. Max({m.width - 4, 1}) = m.width - 4
  BY MaxOfTwo
<1>2. TopWide(m) = SizeComposeFields(n, m.width - 4)
  BY <1>1 DEF TopWide, frameX
<1>3. /\ DOMAIN r = {"composeW", "logsW", "viewportWidth"} /\ DOMAIN r \subseteq Fields
      /\ "slimButton" \in Fields
  BY DEF Fields, Lengths, Flags
<1>4. Within(m, n, DOMAIN r) /\ \A f \in DOMAIN r : n[f] = r[f]
  BY <1>3, Assigned
<1> HIDE DEF n
<1>5. DOMAIN n = Fields /\ n.slimButton = FALSE
  BY <1>3, <1>4 DEF Within
<1>6. n.composeW = m.width /\ n.logsW = m.width /\ n.viewportWidth = m.width - 4
  BY <1>3, <1>4
<1> DEFINE w == m.width - 4
           c == SizeComposeFields(n, w)
<1>10. w \in Nat /\ w >= 26
  OBVIOUS
<1> HIDE DEF w
<1>7. /\ Within(n, c, {"stackSend", "textareaWidth", "inputWidth"})
      /\ c.stackSend = FALSE /\ c.textareaWidth = w - 4
      /\ c.inputWidth = IF w - 18 <= 48 THEN w - 18 ELSE 48
  BY <1>5, <1>10, SizeComposeIs
<1> HIDE DEF c
<1>8. Within(m, c, TopFields)
  BY <1>3, <1>4, <1>7 DEF Within, TopFields
<1>9. c.composeW = n.composeW /\ c.logsW = n.logsW /\ c.viewportWidth = n.viewportWidth
  BY <1>7 DEF Within, Fields, Lengths
<1> QED BY <1>2, <1>6, <1>7, <1>8, <1>9 DEF c, w

LEMMA PlaceSideBySideIs ==
  ASSUME NEW m, DOMAIN m = Fields, m.slimButton = FALSE, m.width \in Nat, m.width >= 100
  PROVE  LET c == PlaceSideBySide(m, 42, 30)
         IN  /\ Within(m, c, TopFields)
             /\ c.composeW = 64 /\ c.logsW = m.width - 65 /\ c.viewportWidth = m.width - 69
             /\ c.stackSend = FALSE /\ c.textareaWidth = 56 /\ c.inputWidth = 42
<1> DEFINE r == [composeW |-> 64, logsW |-> m.width - 65, viewportWidth |-> m.width - 69]
           n == Assign(m, r)
<1>1. Min({64, m.width - 1 - 30}) = 64
  BY MinOfTwo
<1>2. Max({m.width - 65, 1}) = m.width - 65 /\ Max({(m.width - 65) - 4, 1}) = m.width - 69
  BY MaxOfTwo
<1>3. PlaceSideBySide(m, 42, 30) = SizeComposeFields(n, 60)
  <2> DEFINE minPanel == inlineMinW + frameX
             p1 == Min({42 + fieldFrameX + buttonGap + buttonRowW + frameX, m.width - 1 - 30})
             p2 == IF p1 < minPanel /\ m.width - 17 >= minPanel THEN minPanel ELSE p1
             p3 == IF p2 < frameX + 8 THEN Max({m.width \div 2, 1}) ELSE p2
             p4 == IF p3 > m.width - 11 THEN Max({m.width - 11, 1}) ELSE p3
             right == m.width - 1 - p4
             panel == IF right < 1 THEN Max({m.width - 2, 1}) ELSE p4
             logs == Max({right, 1})
             view == Max({logs - frameX, 1})
  <2>1. minPanel = 30 /\ frameX = 4 /\ 42 + fieldFrameX + buttonGap + buttonRowW + frameX = 64
    BY DEF inlineMinW, fieldFrameX, buttonGap, buttonRowW, frameX
  <2>2. p1 = 64
    BY <1>1, <2>1
  <2>3. PlaceSideBySide(m, 42, 30)
          = SizeComposeFields(
              Assign(m, [composeW |-> panel, logsW |-> logs, viewportWidth |-> view]),
              panel - frameX)
    BY DEF PlaceSideBySide
  <2> HIDE DEF p1, minPanel
  <2>4. p2 = 64
    BY <2>1, <2>2
  <2> HIDE DEF p2
  <2>5. p3 = 64
    BY <2>1, <2>4
  <2> HIDE DEF p3
  <2>6. p4 = 64
    BY <2>5
  <2> HIDE DEF p4
  <2>7. right = m.width - 65
    BY <2>6
  <2> HIDE DEF right
  <2>8. panel = 64 /\ logs = m.width - 65
    BY <1>2, <2>6, <2>7
  <2> HIDE DEF panel, logs
  <2>9. view = m.width - 69
    BY <1>2, <2>1, <2>8
  <2> HIDE DEF view
  <2> QED BY <2>1, <2>3, <2>8, <2>9
<1>4. /\ DOMAIN r = {"composeW", "logsW", "viewportWidth"} /\ DOMAIN r \subseteq Fields
      /\ "slimButton" \in Fields
  BY DEF Fields, Lengths, Flags
<1>5. Within(m, n, DOMAIN r) /\ \A f \in DOMAIN r : n[f] = r[f]
  BY <1>4, Assigned
<1> HIDE DEF n
<1>6. DOMAIN n = Fields /\ n.slimButton = FALSE
  BY <1>4, <1>5 DEF Within
<1>7. n.composeW = 64 /\ n.logsW = m.width - 65 /\ n.viewportWidth = m.width - 69
  BY <1>4, <1>5
<1> DEFINE w == 60
           c == SizeComposeFields(n, w)
<1>11. w \in Nat /\ w >= 26
  OBVIOUS
<1> HIDE DEF w
<1>8. /\ Within(n, c, {"stackSend", "textareaWidth", "inputWidth"})
      /\ c.stackSend = FALSE /\ c.textareaWidth = w - 4
      /\ c.inputWidth = IF w - 18 <= 48 THEN w - 18 ELSE 48
  BY <1>6, <1>11, SizeComposeIs
<1> HIDE DEF c
<1>9. Within(m, c, TopFields)
  BY <1>4, <1>5, <1>8 DEF Within, TopFields
<1>10. c.composeW = n.composeW /\ c.logsW = n.logsW /\ c.viewportWidth = n.viewportWidth
  BY <1>8 DEF Within, Fields, Lengths
<1>12. c = PlaceSideBySide(m, 42, 30)
  BY <1>3 DEF c, w
<1>13. c.textareaWidth = 56 /\ c.inputWidth = 42
  BY <1>8 DEF w
<1> QED BY <1>7, <1>8, <1>9, <1>10, <1>12, <1>13

-----------------------------------------------------------------------------
(* Wide, split and stack: the button is beside the receiver field. *)

(* The model that a layout is made for. *)
Base(m, w, h) ==
  /\ DOMAIN m = Fields
  /\ m.width = w /\ m.height = h
  /\ m.mode = PickMode(w, h) /\ m.dense = Dense(h)
  /\ m.slimButton = FALSE /\ m.hideComposeTitle = FALSE /\ m.showHint = FALSE

FrameRows(h) == IF h < 36 THEN 2 ELSE 4

LEMMA BaseFrame ==
  ASSUME NEW m, NEW w \in Nat, NEW h \in Nat, m.dense = Dense(h)
  PROVE  FrameY(m) = FrameRows(h)
BY DEF Dense, FrameY, FrameRows

(* Each panel is as large as what is in it, its title and its frame. *)
FramedRows(l, frame) ==
  /\ l.textareaHeight \in Nat /\ l.composeH = 6 + l.textareaHeight + frame
  /\ l.viewportHeight \in Nat /\ l.logsH = 1 + l.viewportHeight + frame
  /\ l.neighTableH \in Nat /\ l.neighTableH >= 3 /\ l.neighH = 1 + l.neighTableH + frame
  /\ l.routeTableH \in Nat /\ l.routeTableH >= 3 /\ l.routesH = 1 + l.routeTableH + frame

FramedCols(l) ==
  /\ l.composeW \in Nat /\ l.composeW >= 26 /\ l.textareaWidth = l.composeW - 8
  /\ l.inputWidth \in Nat /\ l.inputWidth <= l.composeW - 22
  /\ l.logsW \in Nat /\ l.logsW >= 4 /\ l.viewportWidth = l.logsW - 4
  /\ l.neighW \in Nat /\ l.neighW >= 10 /\ l.neighTableW = l.neighW - 4
  /\ l.routesW \in Nat /\ l.routesW >= 10 /\ l.routeTableW = l.routesW - 4

(* What is settled before one of the layouts is called, and stays as it is. *)
Decided == {"width", "height", "mode", "dense", "slimButton", "hideComposeTitle", "showHint"}

Framed(m, l) ==
  /\ DOMAIN l = Fields /\ \A f \in Decided : l[f] = m[f]
  /\ l.stackSend = FALSE /\ FramedRows(l, FrameY(m)) /\ FramedCols(l)

(* The sizes that fit on a wide terminal when the rest is decided. *)
WideRows(m, n, r) == {x \in Nat : WideTotal(m, x, n, r) <= m.height}
WidePairs(m, ta) == {q \in Nat \X Nat : WideTotal(m, ta, q[1], q[2]) <= m.height}

WideRowsShare(m, fr, h) ==
  \A n, r \in Nat, k \in Int :
    k = 10 + 3 * fr + n + r => LinearFit(WideRows(m, n, r), k, h)
WidePairsShare(m, fr, h) ==
  \A ta, b \in Nat : 10 + 3 * fr + ta + b = h => PairFit(WidePairs(m, ta), b)

LEMMA WideTotals ==
  ASSUME NEW m, m.stackSend = FALSE, NEW fr \in Nat, FrameY(m) = fr,
         NEW h \in Nat, m.height = h
  PROVE  WideRowsShare(m, fr, h) /\ WidePairsShare(m, fr, h)
<1>1. ASSUME NEW ta \in Nat, NEW n \in Nat, NEW r \in Nat
      PROVE  WideTotal(m, ta, n, r) = 10 + 3 * fr + ta + n + r
  <2>1. ComposeFixedLines(TRUE, m.stackSend, FALSE) = 6
    BY DEF ComposeFixedLines
  <2>2. ComposeTotal(m, ta) = 6 + ta + fr
    BY <2>1 DEF ComposeTotal
  <2>3. BoxTotal(m, n) = 1 + n + fr /\ BoxTotal(m, r) = 1 + r + fr
    BY DEF BoxTotal
  <2> QED BY <2>2, <2>3 DEF WideTotal
<1>2. ASSUME NEW n \in Nat, NEW r \in Nat, NEW k \in Int, k = 10 + 3 * fr + n + r
      PROVE  LinearFit(WideRows(m, n, r), k, h)
  <2> SUFFICES ASSUME NEW x \in Nat
               PROVE  WideTotal(m, x, n, r) <= h <=> k + x <= h
    BY DEF LinearFit, WideRows
  <2>1. WideTotal(m, x, n, r) = 10 + 3 * fr + x + n + r
    BY <1>1
  <2> QED BY <1>2, <2>1
<1>3. ASSUME NEW ta \in Nat, NEW b \in Nat, 10 + 3 * fr + ta + b = h
      PROVE  PairFit(WidePairs(m, ta), b)
  <2> SUFFICES ASSUME NEW p \in Nat \X Nat
               PROVE  WideTotal(m, ta, p[1], p[2]) <= h <=> p[1] + p[2] <= b
    BY DEF PairFit, WidePairs
  <2>1. PICK n \in Nat, r \in Nat : p = <<n, r>>
    OBVIOUS
  <2>2. WideTotal(m, ta, n, r) = 10 + 3 * fr + ta + n + r
    BY <1>1
  <2> QED BY <1>3, <2>1, <2>2
<1> QED BY <1>2, <1>3 DEF WideRowsShare, WidePairsShare

LEMMA LayoutWideIs ==
  ASSUME NEW w \in Nat, NEW h \in Nat, w >= 100, h >= 26, NEW m0, Base(m0, w, h)
  PROVE  LET l == LayoutWide(m0)
         IN  /\ Framed(m0, l)
             /\ l.composeW + 1 + l.logsW = w /\ l.neighW = w /\ l.routesW = w
             /\ l.composeH = l.logsH /\ l.composeH + 1 + l.neighH + 1 + l.routesH = h
<1> DEFINE p == PlaceSideBySide(m0, 42, 30)
           m == TablesWide(p, m0.width, m0.width)
           ta1 == Grow(1, 3, WideRows(m, 3, 3))
           rows == GrowTables(WidePairs(m, ta1))
           ta2 == Grow(ta1, 8, WideRows(m, rows[1], rows[2]))
           c == CommitCompose(m, ta2)
           top == [logsH |-> c.composeH, viewportHeight |-> Max({c.composeH - FrameY(c) - 1, 1})]
           d == Assign(c, top)
           l == CommitTables(d, rows[1], rows[2])
<1>0. LayoutWide(m0) = l
  BY DEF LayoutWide, WideRows, WidePairs
<1>2. PICK fr \in Nat : fr = FrameRows(h) /\ 17 + fr + fr + fr <= h
  BY DEF FrameRows
<1>1. m0.width = w /\ m0.height = h /\ DOMAIN m0 = Fields /\ m0.slimButton = FALSE
      /\ m0.hideComposeTitle = FALSE /\ FrameY(m0) = fr
  BY <1>2, BaseFrame DEF Base
<1>3. /\ Within(m0, p, TopFields)
      /\ p.composeW = 64 /\ p.logsW = w - 65 /\ p.viewportWidth = w - 69
      /\ p.stackSend = FALSE /\ p.textareaWidth = 56 /\ p.inputWidth = 42
  BY <1>1, PlaceSideBySideIs
<1> HIDE DEF p
<1>4. /\ Within(p, m, {"neighW", "routesW", "neighTableW", "routeTableW"})
      /\ m.neighW = w /\ m.neighTableW = w - 4 /\ m.routesW = w /\ m.routeTableW = w - 4
  <2>1. DOMAIN p = Fields /\ w >= 5
    BY <1>3 DEF Within
  <2> QED BY <1>1, <2>1, TablesWideIs
<1> HIDE DEF m
<1>5. /\ DOMAIN m = Fields /\ \A f \in Decided : m[f] = m0[f]
      /\ m.composeW = 64 /\ m.logsW = w - 65 /\ m.viewportWidth = w - 69
      /\ m.stackSend = FALSE /\ m.textareaWidth = 56 /\ m.inputWidth = 42
  BY <1>3, <1>4 DEF Within, TopFields, Fields, Lengths, Flags, Decided
<1>6. m.height = h /\ m.slimButton = FALSE /\ m.hideComposeTitle = FALSE /\ FrameY(m) = fr
  BY <1>1, <1>5 DEF Decided, FrameY
<1>7. WideRowsShare(m, fr, h) /\ WidePairsShare(m, fr, h)
  BY <1>5, <1>6, WideTotals
<1>8. PICK ta \in Nat : ta = ta1 /\ ta \in 1 .. 3 /\ 16 + fr + fr + fr + ta <= h
  <2>1. PICK k \in Int : k = 10 + fr + fr + fr + 3 + 3
    OBVIOUS
  <2>2. LinearFit(WideRows(m, 3, 3), k, h)
    BY <1>7, <2>1 DEF WideRowsShare
  <2>3. Grown(1, 3, k, h, ta1)
    BY <2>2, GrowLinear
  <2> HIDE DEF ta1
  <2> QED BY <1>2, <2>1, <2>3 DEF Grown
<1> HIDE DEF ta1
<1>9. PICK n \in Nat, r \in Nat : /\ rows = <<n, r>> /\ n >= 3 /\ r >= 3
                                /\ 10 + 3 * fr + ta + n + r = h
  <2>1. PICK b \in Nat : b >= 6 /\ 10 + 3 * fr + ta + b = h
    <3>1. h - (10 + 3 * fr + ta) \in Nat /\ h - (10 + 3 * fr + ta) >= 6
      BY <1>8
    <3> QED BY <3>1
  <2>2. PairFit(WidePairs(m, ta), b)
    BY <1>7, <2>1 DEF WidePairsShare
  <2>3. PairFit(WidePairs(m, ta1), b)
    BY <1>8, <2>2
  <2>4. rows \in Nat \X Nat /\ rows[1] >= 3 /\ rows[2] >= 3 /\ rows[1] + rows[2] = b
    BY <2>1, <2>3, GrowTablesFills
  <2> HIDE DEF rows
  <2> QED BY <2>1, <2>4
<1> HIDE DEF rows
<1>10. ta2 = ta
  <2>1. PICK k \in Int : k = 10 + 3 * fr + n + r
    OBVIOUS
  <2>2. LinearFit(WideRows(m, n, r), k, h)
    BY <1>7, <2>1 DEF WideRowsShare
  <2>3. Grown(ta, 8, k, h, Grow(ta, 8, WideRows(m, n, r)))
    BY <1>8, <2>2, GrowLinear
  <2>4. Grown(ta, 8, k, h, ta2)
    BY <1>8, <1>9, <2>3
  <2> HIDE DEF ta2
  <2> QED BY <1>8, <1>9, <2>1, <2>4 DEF Grown
<1> HIDE DEF ta2
<1>11. /\ Within(m, c, {"textareaHeight", "composeH"})
       /\ c.textareaHeight = ta /\ c.composeH = 6 + ta + fr
  <2>1. ta >= 1
    BY <1>8
  <2>2. /\ Within(m, CommitCompose(m, ta), {"textareaHeight", "composeH"})
        /\ CommitCompose(m, ta).textareaHeight = ta
        /\ CommitCompose(m, ta).composeH = 6 + ta + FrameY(m)
    BY <1>5, <1>6, <2>1, CommitComposeIs
  <2> QED BY <1>6, <1>10, <2>2
<1> HIDE DEF c
<1>12. c.dense = m.dense
  BY <1>11 DEF Within, Fields, Flags
<1>13. /\ Within(c, d, {"logsH", "viewportHeight"})
       /\ d.logsH = 6 + ta + fr /\ d.viewportHeight = 5 + ta
  <2>1. FrameY(c) = fr
    BY <1>6, <1>12 DEF FrameY
  <2>2. Max({5 + ta, 1}) = 5 + ta
    BY MaxOfTwo
  <2>4. Max({c.composeH - FrameY(c) - 1, 1}) = 5 + ta
    BY <1>11, <2>1, <2>2
  <2>3. DOMAIN top = {"logsH", "viewportHeight"} /\ DOMAIN top \subseteq Fields /\ DOMAIN c = Fields
    BY <1>11 DEF Fields, Lengths, Within
  <2> QED BY <1>11, <2>3, <2>4, Assigned
<1> HIDE DEF d
<1>14. DOMAIN d = Fields /\ FrameY(d) = fr
  BY <1>6, <1>12, <1>13 DEF Within, Fields, Flags, FrameY
<1>15. /\ Within(d, l, {"neighTableH", "routeTableH", "neighH", "routesH"})
       /\ l.neighTableH = n /\ l.neighH = 1 + n + fr
       /\ l.routeTableH = r /\ l.routesH = 1 + r + fr
  BY <1>9, <1>14, CommitTablesIs
<1> HIDE DEF l
<1>16. /\ DOMAIN l = Fields /\ \A f \in Decided : l[f] = m0[f]
       /\ l.textareaHeight = ta /\ l.composeH = 6 + ta + fr
       /\ l.logsH = 6 + ta + fr /\ l.viewportHeight = 5 + ta
  BY <1>5, <1>11, <1>13, <1>15 DEF Within, Fields, Lengths, Flags, Decided
<1>17. /\ l.composeW = 64 /\ l.logsW = w - 65 /\ l.viewportWidth = w - 69
       /\ l.stackSend = FALSE /\ l.textareaWidth = 56 /\ l.inputWidth = 42
       /\ l.neighW = w /\ l.neighTableW = w - 4 /\ l.routesW = w /\ l.routeTableW = w - 4
  BY <1>4, <1>5, <1>11, <1>13, <1>15 DEF Within, Fields, Lengths, Flags
<1>18. FramedRows(l, fr)
  BY <1>9, <1>15, <1>16 DEF FramedRows
<1>19. FramedCols(l)
  BY <1>17 DEF FramedCols
<1>20. l.composeH + 1 + l.neighH + 1 + l.routesH = h
  BY <1>9, <1>15, <1>16
<1> QED BY <1>0, <1>1, <1>16, <1>17, <1>18, <1>19, <1>20 DEF Framed

(* The sizes that fit on a split terminal when the rest is decided. *)
SplitTa(m, vp, t) == {x \in Nat : SplitTotal(m, x, vp, t) <= m.height}
SplitVp(m, ta, t) == {x \in Nat : SplitTotal(m, ta, x, t) <= m.height}
SplitT(m, ta, vp) == {x \in Nat : SplitTotal(m, ta, vp, x) <= m.height}

SplitTaShare(m, fr, h) ==
  \A x, y \in Nat, k \in Int : k = 10 + 3 * fr + x + y => LinearFit(SplitTa(m, x, y), k, h)
SplitVpShare(m, fr, h) ==
  \A x, y \in Nat, k \in Int : k = 10 + 3 * fr + x + y => LinearFit(SplitVp(m, x, y), k, h)
SplitTShare(m, fr, h) ==
  \A x, y \in Nat, k \in Int : k = 10 + 3 * fr + x + y => LinearFit(SplitT(m, x, y), k, h)

LEMMA SplitTotals ==
  ASSUME NEW m, m.stackSend = FALSE, NEW fr \in Nat, FrameY(m) = fr,
         NEW h \in Nat, m.height = h
  PROVE  SplitTaShare(m, fr, h) /\ SplitVpShare(m, fr, h) /\ SplitTShare(m, fr, h)
<1>1. ASSUME NEW ta \in Nat, NEW vp \in Nat, NEW t \in Nat
      PROVE  SplitTotal(m, ta, vp, t) = 10 + 3 * fr + ta + vp + t
  <2>1. ComposeFixedLines(TRUE, m.stackSend, FALSE) = 6
    BY DEF ComposeFixedLines
  <2>2. ComposeTotal(m, ta) = 6 + ta + fr
    BY <2>1 DEF ComposeTotal
  <2>3. BoxTotal(m, vp) = 1 + vp + fr /\ BoxTotal(m, t) = 1 + t + fr
    BY DEF BoxTotal
  <2> QED BY <2>2, <2>3 DEF SplitTotal
<1>2. ASSUME NEW vp \in Nat, NEW t \in Nat, NEW k \in Int, k = 10 + 3 * fr + vp + t
      PROVE  LinearFit(SplitTa(m, vp, t), k, h)
  <2> SUFFICES ASSUME NEW x \in Nat
               PROVE  SplitTotal(m, x, vp, t) <= h <=> k + x <= h
    BY DEF LinearFit, SplitTa
  <2>1. SplitTotal(m, x, vp, t) = 10 + 3 * fr + x + vp + t
    BY <1>1
  <2> QED BY <1>2, <2>1
<1>3. ASSUME NEW ta \in Nat, NEW t \in Nat, NEW k \in Int, k = 10 + 3 * fr + ta + t
      PROVE  LinearFit(SplitVp(m, ta, t), k, h)
  <2> SUFFICES ASSUME NEW x \in Nat
               PROVE  SplitTotal(m, ta, x, t) <= h <=> k + x <= h
    BY DEF LinearFit, SplitVp
  <2>1. SplitTotal(m, ta, x, t) = 10 + 3 * fr + ta + x + t
    BY <1>1
  <2> QED BY <1>3, <2>1
<1>4. ASSUME NEW ta \in Nat, NEW vp \in Nat, NEW k \in Int, k = 10 + 3 * fr + ta + vp
      PROVE  LinearFit(SplitT(m, ta, vp), k, h)
  <2> SUFFICES ASSUME NEW x \in Nat
               PROVE  SplitTotal(m, ta, vp, x) <= h <=> k + x <= h
    BY DEF LinearFit, SplitT
  <2>1. SplitTotal(m, ta, vp, x) = 10 + 3 * fr + ta + vp + x
    BY <1>1
  <2> QED BY <1>4, <2>1
<1> QED BY <1>2, <1>3, <1>4 DEF SplitTaShare, SplitVpShare, SplitTShare

(* The heights of a split terminal: the tables take what the others leave. *)
SplitSizes(m, fr, h) ==
  LET ta1 == Grow(1, 2, SplitTa(m, 1, 3))
      vp1 == Grow(1, 4, SplitVp(m, ta1, 3))
      ta2 == Grow(ta1, 4, SplitTa(m, vp1, 3))
      vp2 == Grow(vp1, 8, SplitVp(m, ta2, 3))
      tH == Grow(3, m.height, SplitT(m, ta2, vp2))
      vp3 == Grow(vp2, m.height, SplitVp(m, ta2, tH))
      ta3 == Grow(ta2, 8, SplitTa(m, vp3, tH))
  IN  \E ta, vp, t \in Nat : /\ ta3 = ta /\ vp3 = vp /\ tH = t
                             /\ ta >= 1 /\ vp >= 1 /\ t >= 3
                             /\ 10 + 3 * fr + ta + vp + t = h

LEMMA SplitHeights ==
  ASSUME NEW m, NEW fr \in Nat, NEW h \in Nat, 15 + 3 * fr <= h, m.height = h,
         SplitTaShare(m, fr, h), SplitVpShare(m, fr, h), SplitTShare(m, fr, h)
  PROVE  SplitSizes(m, fr, h)
<1> DEFINE ta1 == Grow(1, 2, SplitTa(m, 1, 3))
           vp1 == Grow(1, 4, SplitVp(m, ta1, 3))
           ta2 == Grow(ta1, 4, SplitTa(m, vp1, 3))
           vp2 == Grow(vp1, 8, SplitVp(m, ta2, 3))
           tH == Grow(3, m.height, SplitT(m, ta2, vp2))
           vp3 == Grow(vp2, m.height, SplitVp(m, ta2, tH))
           ta3 == Grow(ta2, 8, SplitTa(m, vp3, tH))
<1>1. PICK a1 \in Nat : a1 = ta1 /\ a1 \in 1 .. 2 /\ 10 + 3 * fr + a1 + 1 + 3 <= h
  <2>1. PICK k \in Int : k = 10 + 3 * fr + 1 + 3
    OBVIOUS
  <2>2. LinearFit(SplitTa(m, 1, 3), k, h)
    BY <2>1 DEF SplitTaShare
  <2>3. Grown(1, 2, k, h, ta1)
    BY <2>2, GrowLinear
  <2> HIDE DEF ta1
  <2> QED BY <2>1, <2>3 DEF Grown
<1> HIDE DEF ta1
<1>2. PICK v1 \in Nat : v1 = vp1 /\ v1 \in 1 .. 4 /\ 10 + 3 * fr + a1 + v1 + 3 <= h
  <2>1. PICK k \in Int : k = 10 + 3 * fr + a1 + 3
    OBVIOUS
  <2>2. LinearFit(SplitVp(m, a1, 3), k, h)
    BY <2>1 DEF SplitVpShare
  <2>3. Grown(1, 4, k, h, Grow(1, 4, SplitVp(m, a1, 3)))
    BY <2>2, GrowLinear
  <2>4. Grown(1, 4, k, h, vp1)
    BY <1>1, <2>3
  <2> HIDE DEF vp1
  <2> QED BY <1>1, <2>1, <2>4 DEF Grown
<1> HIDE DEF vp1
<1>3. PICK a2 \in Nat : a2 = ta2 /\ a2 \in a1 .. 4 /\ 10 + 3 * fr + a2 + v1 + 3 <= h
  <2>1. PICK k \in Int : k = 10 + 3 * fr + v1 + 3
    OBVIOUS
  <2>2. LinearFit(SplitTa(m, v1, 3), k, h)
    BY <2>1 DEF SplitTaShare
  <2>5. a1 <= 4
    BY <1>1
  <2>3. Grown(a1, 4, k, h, Grow(a1, 4, SplitTa(m, v1, 3)))
    BY <2>2, <2>5, GrowLinear
  <2>4. Grown(a1, 4, k, h, ta2)
    BY <1>1, <1>2, <2>3
  <2> HIDE DEF ta2
  <2> QED BY <1>2, <2>1, <2>4 DEF Grown
<1> HIDE DEF ta2
<1>4. PICK v2 \in Nat : v2 = vp2 /\ v2 \in v1 .. 8 /\ 10 + 3 * fr + a2 + v2 + 3 <= h
  <2>1. PICK k \in Int : k = 10 + 3 * fr + a2 + 3
    OBVIOUS
  <2>2. LinearFit(SplitVp(m, a2, 3), k, h)
    BY <2>1 DEF SplitVpShare
  <2>5. v1 <= 8
    BY <1>2
  <2>3. Grown(v1, 8, k, h, Grow(v1, 8, SplitVp(m, a2, 3)))
    BY <2>2, <2>5, GrowLinear
  <2>4. Grown(v1, 8, k, h, vp2)
    BY <1>2, <1>3, <2>3
  <2> HIDE DEF vp2
  <2> QED BY <1>3, <2>1, <2>4 DEF Grown
<1> HIDE DEF vp2
<1>5. PICK t \in Nat : t = tH /\ t >= 3 /\ 10 + 3 * fr + a2 + v2 + t = h
  <2>1. PICK k \in Int : k = 10 + 3 * fr + a2 + v2
    OBVIOUS
  <2>2. LinearFit(SplitT(m, a2, v2), k, h)
    BY <2>1 DEF SplitTShare
  <2>5. 3 <= h
    OBVIOUS
  <2>3. Grown(3, h, k, h, Grow(3, h, SplitT(m, a2, v2)))
    BY <2>2, <2>5, GrowLinear
  <2>4. Grown(3, h, k, h, tH)
    BY <1>3, <1>4, <2>3
  <2> HIDE DEF tH
  <2> QED BY <1>4, <2>1, <2>4 DEF Grown
<1> HIDE DEF tH
<1>6. vp3 = v2
  <2>1. PICK k \in Int : k = 10 + 3 * fr + a2 + t
    OBVIOUS
  <2>2. LinearFit(SplitVp(m, a2, t), k, h)
    BY <2>1 DEF SplitVpShare
  <2>5. v2 <= h
    BY <1>5
  <2>3. Grown(v2, h, k, h, Grow(v2, h, SplitVp(m, a2, t)))
    BY <2>2, <2>5, GrowLinear
  <2>4. Grown(v2, h, k, h, vp3)
    BY <1>3, <1>4, <1>5, <2>3
  <2> HIDE DEF vp3
  <2> QED BY <1>5, <2>1, <2>4 DEF Grown
<1> HIDE DEF vp3
<1>7. ta3 = a2
  <2>1. PICK k \in Int : k = 10 + 3 * fr + v2 + t
    OBVIOUS
  <2>2. LinearFit(SplitTa(m, v2, t), k, h)
    BY <2>1 DEF SplitTaShare
  <2>5. a2 <= 8
    BY <1>1, <1>3
  <2>3. Grown(a2, 8, k, h, Grow(a2, 8, SplitTa(m, v2, t)))
    BY <2>2, <2>5, GrowLinear
  <2>4. Grown(a2, 8, k, h, ta3)
    BY <1>3, <1>5, <1>6, <2>3
  <2> HIDE DEF ta3
  <2> QED BY <1>5, <2>1, <2>4 DEF Grown
<1> HIDE DEF ta3
<1>8. a2 >= 1 /\ v2 >= 1
  BY <1>1, <1>2, <1>3, <1>4
<1>9. \E ta, vp, th \in Nat : /\ ta3 = ta /\ vp3 = vp /\ tH = th
                              /\ ta >= 1 /\ vp >= 1 /\ th >= 3
                              /\ 10 + 3 * fr + ta + vp + th = h
  BY <1>5, <1>6, <1>7, <1>8
<1> QED BY <1>9 DEF ta1, ta2, ta3, vp1, vp2, vp3, tH, SplitSizes

(* The panels of a split or stacked terminal before their heights are set:   *)
(* both upper ones are as wide as the terminal.                             *)
TopPlaced(m0, m, w, x, y) ==
  /\ DOMAIN m = Fields /\ \A f \in Decided : m[f] = m0[f]
  /\ m.composeW = w /\ m.logsW = w /\ m.viewportWidth = w - 4
  /\ m.stackSend = FALSE /\ m.textareaWidth = w - 8
  /\ m.inputWidth = IF w - 22 <= 48 THEN w - 22 ELSE 48
  /\ m.neighW = x /\ m.neighTableW = x - 4 /\ m.routesW = y /\ m.routeTableW = y - 4

LEMMA TopPlacedIs ==
  ASSUME NEW w \in Nat, w >= 30, NEW x \in Nat, NEW y \in Nat, x >= 10, y >= 10,
         NEW m0, DOMAIN m0 = Fields, m0.slimButton = FALSE, m0.width = w
  PROVE  TopPlaced(m0, TablesWide(TopWide(m0), x, y), w, x, y)
<1> DEFINE p == TopWide(m0)
           m == TablesWide(p, x, y)
<1>1. /\ Within(m0, p, TopFields)
      /\ p.composeW = w /\ p.logsW = w /\ p.viewportWidth = w - 4
      /\ p.stackSend = FALSE /\ p.textareaWidth = w - 8
      /\ p.inputWidth = IF w - 22 <= 48 THEN w - 22 ELSE 48
  BY TopWideIs
<1> HIDE DEF p
<1>2. /\ Within(p, m, {"neighW", "routesW", "neighTableW", "routeTableW"})
      /\ m.neighW = x /\ m.neighTableW = x - 4 /\ m.routesW = y /\ m.routeTableW = y - 4
  <2>1. DOMAIN p = Fields
    BY <1>1 DEF Within
  <2> QED BY <2>1, TablesWideIs
<1> HIDE DEF m
<1>3. /\ DOMAIN m = Fields /\ \A f \in Decided : m[f] = m0[f]
      /\ m.composeW = w /\ m.logsW = w /\ m.viewportWidth = w - 4
      /\ m.stackSend = FALSE /\ m.textareaWidth = w - 8
      /\ m.inputWidth = IF w - 22 <= 48 THEN w - 22 ELSE 48
  BY <1>1, <1>2 DEF Within, TopFields, Fields, Lengths, Flags, Decided
<1>4. TopPlaced(m0, m, w, x, y)
  BY <1>2, <1>3 DEF TopPlaced
<1> QED BY <1>4 DEF m, p

(* Then their heights are set. *)
HeightsSet(m0, l, fr, w, x, y, ta, vp, n, r) ==
  /\ Framed(m0, l)
  /\ l.composeW = w /\ l.logsW = w /\ l.neighW = x /\ l.routesW = y
  /\ l.composeH = 6 + ta + fr /\ l.logsH = 1 + vp + fr
  /\ l.neighH = 1 + n + fr /\ l.routesH = 1 + r + fr

LEMMA HeightsCommitted ==
  ASSUME NEW w \in Nat, w >= 30, NEW x \in Nat, NEW y \in Nat, x >= 10, y >= 10,
         NEW m0, NEW m, TopPlaced(m0, m, w, x, y), NEW fr \in Nat, FrameY(m0) = fr,
         m0.slimButton = FALSE, m0.hideComposeTitle = FALSE,
         NEW ta \in Nat, NEW vp \in Nat, NEW n \in Nat, NEW r \in Nat,
         ta >= 1, vp >= 1, n >= 3, r >= 3
  PROVE  HeightsSet(m0, CommitTables(CommitLogs(CommitCompose(m, ta), vp), n, r),
                    fr, w, x, y, ta, vp, n, r)
<1> DEFINE c == CommitCompose(m, ta)
           d == CommitLogs(c, vp)
           l == CommitTables(d, n, r)
<1>1. /\ DOMAIN m = Fields /\ m.slimButton = FALSE /\ m.hideComposeTitle = FALSE
      /\ m.stackSend = FALSE /\ m.dense = m0.dense
  BY DEF TopPlaced, Decided
<1>2. FrameY(m) = fr
  BY <1>1 DEF FrameY
<1>3. /\ Within(m, c, {"textareaHeight", "composeH"})
      /\ c.textareaHeight = ta /\ c.composeH = 6 + ta + FrameY(m)
  BY <1>1, CommitComposeIs
<1> HIDE DEF c
<1>4. DOMAIN c = Fields /\ FrameY(c) = fr
  BY <1>2, <1>3 DEF Within, Fields, Flags, FrameY
<1>5. /\ Within(c, d, {"viewportHeight", "logsH"})
      /\ d.viewportHeight = vp /\ d.logsH = 1 + vp + FrameY(c)
  BY <1>4, CommitLogsIs
<1> HIDE DEF d
<1>6. DOMAIN d = Fields /\ FrameY(d) = fr
  BY <1>4, <1>5 DEF Within, Fields, Flags, FrameY
<1>7. /\ Within(d, l, {"neighTableH", "routeTableH", "neighH", "routesH"})
      /\ l.neighTableH = n /\ l.neighH = 1 + n + FrameY(d)
      /\ l.routeTableH = r /\ l.routesH = 1 + r + FrameY(d)
  BY <1>6, CommitTablesIs
<1> HIDE DEF l
<1>8. /\ DOMAIN l = Fields /\ \A f \in Decided : l[f] = m[f]
      /\ l.textareaHeight = ta /\ l.composeH = 6 + ta + fr
      /\ l.viewportHeight = vp /\ l.logsH = 1 + vp + fr
  BY <1>2, <1>3, <1>4, <1>5, <1>7 DEF Within, Fields, Lengths, Flags, Decided
<1>9. /\ l.neighTableH = n /\ l.neighH = 1 + n + fr /\ l.routeTableH = r /\ l.routesH = 1 + r + fr
  BY <1>6, <1>7
<1>10. /\ l.composeW = m.composeW /\ l.logsW = m.logsW /\ l.viewportWidth = m.viewportWidth
       /\ l.stackSend = m.stackSend /\ l.textareaWidth = m.textareaWidth
       /\ l.inputWidth = m.inputWidth /\ l.neighW = m.neighW /\ l.neighTableW = m.neighTableW
       /\ l.routesW = m.routesW /\ l.routeTableW = m.routeTableW
  BY <1>3, <1>5, <1>7 DEF Within, Fields, Lengths, Flags
<1>11. /\ l.composeW = w /\ l.logsW = w /\ l.viewportWidth = w - 4
       /\ l.stackSend = FALSE /\ l.textareaWidth = w - 8
       /\ l.inputWidth = IF w - 22 <= 48 THEN w - 22 ELSE 48
       /\ l.neighW = x /\ l.neighTableW = x - 4 /\ l.routesW = y /\ l.routeTableW = y - 4
  BY <1>10 DEF TopPlaced
<1>12. \A f \in Decided : l[f] = m0[f]
  BY <1>8 DEF TopPlaced
<1>13. FramedRows(l, fr)
  BY <1>8, <1>9 DEF FramedRows
<1>14. FramedCols(l)
  BY <1>11 DEF FramedCols
<1>15. Framed(m0, l)
  BY <1>8, <1>11, <1>12, <1>13, <1>14 DEF Framed
<1>16. HeightsSet(m0, l, fr, w, x, y, ta, vp, n, r)
  BY <1>8, <1>9, <1>11, <1>15 DEF HeightsSet
<1> QED BY <1>16 DEF l, d, c

LEMMA LayoutSplitIs ==
  ASSUME NEW w \in Nat, NEW h \in Nat, w >= 64, h >= 22, NEW m0, Base(m0, w, h)
  PROVE  LET l == LayoutSplit(m0)
         IN  /\ Framed(m0, l)
             /\ l.composeW = w /\ l.logsW = w /\ l.neighW + 1 + l.routesW = w
             /\ l.neighH = l.routesH /\ l.composeH + 1 + l.logsH + 1 + l.neighH = h
<1> DEFINE left == Max({(m0.width - 1) \div 2, 1})
           right == Max({m0.width - 1 - (m0.width - 1) \div 2, 1})
           m == TablesWide(TopWide(m0), left, right)
           ta1 == Grow(1, 2, SplitTa(m, 1, 3))
           vp1 == Grow(1, 4, SplitVp(m, ta1, 3))
           ta2 == Grow(ta1, 4, SplitTa(m, vp1, 3))
           vp2 == Grow(vp1, 8, SplitVp(m, ta2, 3))
           tH == Grow(3, m.height, SplitT(m, ta2, vp2))
           vp3 == Grow(vp2, m.height, SplitVp(m, ta2, tH))
           ta3 == Grow(ta2, 8, SplitTa(m, vp3, tH))
           l == CommitTables(CommitLogs(CommitCompose(m, ta3), vp3), tH, tH)
<1>0. LayoutSplit(m0) = l
  BY DEF LayoutSplit, SplitTa, SplitVp, SplitT
<1>1. PICK fr \in Nat : fr = FrameRows(h) /\ 15 + 3 * fr <= h
  BY DEF FrameRows
<1>2. m0.width = w /\ m0.height = h /\ DOMAIN m0 = Fields /\ m0.slimButton = FALSE
      /\ m0.hideComposeTitle = FALSE /\ FrameY(m0) = fr
  BY <1>1, BaseFrame DEF Base
<1>3. PICK x \in Nat, y \in Nat : x = left /\ y = right /\ x >= 10 /\ y >= 10 /\ x + 1 + y = w
  <2>1. PICK q \in Nat : q = (w - 1) \div 2 /\ q >= 10 /\ w - 1 - q >= 10
    OBVIOUS
  <2>2. Max({q, 1}) = q /\ Max({w - 1 - q, 1}) = w - 1 - q
    BY <2>1, MaxOfTwo
  <2>3. left = q /\ right = w - 1 - q
    BY <1>2, <2>1, <2>2
  <2> HIDE DEF left, right
  <2> QED BY <2>1, <2>3
<1> HIDE DEF left, right
<1>4. TopPlaced(m0, m, w, x, y)
  <2>1. TopPlaced(m0, TablesWide(TopWide(m0), x, y), w, x, y)
    <3>1. w >= 30
      OBVIOUS
    <3> QED BY <1>2, <1>3, <3>1, TopPlacedIs
  <2> QED BY <1>3, <2>1
<1> HIDE DEF m
<1>5. m.height = h /\ m.stackSend = FALSE /\ FrameY(m) = fr
  BY <1>2, <1>4 DEF TopPlaced, Decided, FrameY
<1>6. SplitTaShare(m, fr, h) /\ SplitVpShare(m, fr, h) /\ SplitTShare(m, fr, h)
  BY <1>5, SplitTotals
<1>7. PICK ta \in Nat, vp \in Nat, t \in Nat :
        /\ ta3 = ta /\ vp3 = vp /\ tH = t
        /\ ta >= 1 /\ vp >= 1 /\ t >= 3 /\ 10 + 3 * fr + ta + vp + t = h
  <2>1. SplitSizes(m, fr, h)
    BY <1>1, <1>5, <1>6, SplitHeights
  <2> QED BY <2>1 DEF SplitSizes
<1> HIDE DEF ta3, vp3, tH
<1>8. l = CommitTables(CommitLogs(CommitCompose(m, ta), vp), t, t)
  BY <1>7
<1> HIDE DEF l
<1>9. HeightsSet(m0, l, fr, w, x, y, ta, vp, t, t)
  <2>1. w >= 30
    OBVIOUS
  <2>2. HeightsSet(m0, CommitTables(CommitLogs(CommitCompose(m, ta), vp), t, t),
                   fr, w, x, y, ta, vp, t, t)
    BY <1>2, <1>3, <1>4, <1>7, <2>1, HeightsCommitted
  <2> QED BY <1>8, <2>2
<1> QED BY <1>0, <1>3, <1>7, <1>9 DEF HeightsSet

(* The sizes that fit on a stacked terminal when the rest is decided. *)
StackTa(m, vp, n, r) == {x \in Nat : StackTotal(m, x, vp, n, r) <= m.height}
StackVp(m, ta, n, r) == {x \in Nat : StackTotal(m, ta, x, n, r) <= m.height}
StackPairs(m, ta, vp) == {q \in Nat \X Nat : StackTotal(m, ta, vp, q[1], q[2]) <= m.height}

StackTaShare(m, fr, h) ==
  \A x, y, z \in Nat, k \in Int :
    k = 12 + 4 * fr + x + y + z => LinearFit(StackTa(m, x, y, z), k, h)
StackVpShare(m, fr, h) ==
  \A x, y, z \in Nat, k \in Int :
    k = 12 + 4 * fr + x + y + z => LinearFit(StackVp(m, x, y, z), k, h)
StackPairsShare(m, fr, h) ==
  \A x, y, b \in Nat : 12 + 4 * fr + x + y + b = h => PairFit(StackPairs(m, x, y), b)

LEMMA StackTotals ==
  ASSUME NEW m, m.stackSend = FALSE, NEW fr \in Nat, FrameY(m) = fr,
         NEW h \in Nat, m.height = h
  PROVE  StackTaShare(m, fr, h) /\ StackVpShare(m, fr, h) /\ StackPairsShare(m, fr, h)
<1>1. ASSUME NEW ta \in Nat, NEW vp \in Nat, NEW n \in Nat, NEW r \in Nat
      PROVE  StackTotal(m, ta, vp, n, r) = 12 + 4 * fr + ta + vp + n + r
  <2>1. ComposeFixedLines(TRUE, m.stackSend, FALSE) = 6
    BY DEF ComposeFixedLines
  <2>2. ComposeTotal(m, ta) = 6 + ta + fr
    BY <2>1 DEF ComposeTotal
  <2>3. /\ BoxTotal(m, vp) = 1 + vp + fr /\ BoxTotal(m, n) = 1 + n + fr
        /\ BoxTotal(m, r) = 1 + r + fr
    BY DEF BoxTotal
  <2> QED BY <2>2, <2>3 DEF StackTotal
<1>2. ASSUME NEW vp \in Nat, NEW n \in Nat, NEW r \in Nat,
             NEW k \in Int, k = 12 + 4 * fr + vp + n + r
      PROVE  LinearFit(StackTa(m, vp, n, r), k, h)
  <2> SUFFICES ASSUME NEW x \in Nat
               PROVE  StackTotal(m, x, vp, n, r) <= h <=> k + x <= h
    BY DEF LinearFit, StackTa
  <2>1. StackTotal(m, x, vp, n, r) = 12 + 4 * fr + x + vp + n + r
    BY <1>1
  <2> QED BY <1>2, <2>1
<1>3. ASSUME NEW ta \in Nat, NEW n \in Nat, NEW r \in Nat,
             NEW k \in Int, k = 12 + 4 * fr + ta + n + r
      PROVE  LinearFit(StackVp(m, ta, n, r), k, h)
  <2> SUFFICES ASSUME NEW x \in Nat
               PROVE  StackTotal(m, ta, x, n, r) <= h <=> k + x <= h
    BY DEF LinearFit, StackVp
  <2>1. StackTotal(m, ta, x, n, r) = 12 + 4 * fr + ta + x + n + r
    BY <1>1
  <2> QED BY <1>3, <2>1
<1>4. ASSUME NEW ta \in Nat, NEW vp \in Nat, NEW b \in Nat, 12 + 4 * fr + ta + vp + b = h
      PROVE  PairFit(StackPairs(m, ta, vp), b)
  <2> SUFFICES ASSUME NEW p \in Nat \X Nat
               PROVE  StackTotal(m, ta, vp, p[1], p[2]) <= h <=> p[1] + p[2] <= b
    BY DEF PairFit, StackPairs
  <2>1. PICK n \in Nat, r \in Nat : p = <<n, r>>
    OBVIOUS
  <2>2. StackTotal(m, ta, vp, n, r) = 12 + 4 * fr + ta + vp + n + r
    BY <1>1
  <2> QED BY <1>4, <2>1, <2>2
<1> QED BY <1>2, <1>3, <1>4 DEF StackTaShare, StackVpShare, StackPairsShare

(* The heights of a stacked terminal: again the tables take what is left. *)
StackSizes(m, fr, h) ==
  LET vp1 == Grow(1, 4, StackVp(m, 1, 3, 3))
      ta1 == Grow(1, 3, StackTa(m, vp1, 3, 3))
      rows == GrowTables(StackPairs(m, ta1, vp1))
      vp2 == Grow(vp1, m.height, StackVp(m, ta1, rows[1], rows[2]))
      ta2 == Grow(ta1, 8, StackTa(m, vp2, rows[1], rows[2]))
  IN  \E ta, vp, n, r \in Nat : /\ ta2 = ta /\ vp2 = vp /\ rows = <<n, r>>
                                /\ ta >= 1 /\ vp >= 1 /\ n >= 3 /\ r >= 3
                                /\ 12 + 4 * fr + ta + vp + n + r = h

LEMMA StackHeights ==
  ASSUME NEW m, NEW fr \in Nat, NEW h \in Nat, 20 + 4 * fr <= h, m.height = h,
         StackTaShare(m, fr, h), StackVpShare(m, fr, h), StackPairsShare(m, fr, h)
  PROVE  StackSizes(m, fr, h)
<1> DEFINE vp1 == Grow(1, 4, StackVp(m, 1, 3, 3))
           ta1 == Grow(1, 3, StackTa(m, vp1, 3, 3))
           rows == GrowTables(StackPairs(m, ta1, vp1))
           vp2 == Grow(vp1, m.height, StackVp(m, ta1, rows[1], rows[2]))
           ta2 == Grow(ta1, 8, StackTa(m, vp2, rows[1], rows[2]))
<1>1. PICK v1 \in Nat : v1 = vp1 /\ v1 \in 1 .. 4 /\ 12 + 4 * fr + 1 + v1 + 3 + 3 <= h
  <2>1. PICK k \in Int : k = 12 + 4 * fr + 1 + 3 + 3
    OBVIOUS
  <2>2. LinearFit(StackVp(m, 1, 3, 3), k, h)
    BY <2>1 DEF StackVpShare
  <2>3. Grown(1, 4, k, h, vp1)
    BY <2>2, GrowLinear
  <2> HIDE DEF vp1
  <2> QED BY <2>1, <2>3 DEF Grown
<1> HIDE DEF vp1
<1>2. PICK a1 \in Nat : a1 = ta1 /\ a1 \in 1 .. 3 /\ 12 + 4 * fr + a1 + v1 + 3 + 3 <= h
  <2>1. PICK k \in Int : k = 12 + 4 * fr + v1 + 3 + 3
    OBVIOUS
  <2>2. LinearFit(StackTa(m, v1, 3, 3), k, h)
    BY <2>1 DEF StackTaShare
  <2>3. Grown(1, 3, k, h, Grow(1, 3, StackTa(m, v1, 3, 3)))
    BY <2>2, GrowLinear
  <2>4. Grown(1, 3, k, h, ta1)
    BY <1>1, <2>3
  <2> HIDE DEF ta1
  <2> QED BY <1>1, <2>1, <2>4 DEF Grown
<1> HIDE DEF ta1
<1>3. PICK n \in Nat, r \in Nat : /\ rows = <<n, r>> /\ n >= 3 /\ r >= 3
                                  /\ 12 + 4 * fr + a1 + v1 + n + r = h
  <2>1. PICK b \in Nat : b >= 6 /\ 12 + 4 * fr + a1 + v1 + b = h
    <3>1. h - (12 + 4 * fr + a1 + v1) \in Nat /\ h - (12 + 4 * fr + a1 + v1) >= 6
      BY <1>2
    <3> QED BY <3>1
  <2>2. PairFit(StackPairs(m, a1, v1), b)
    BY <2>1 DEF StackPairsShare
  <2>3. PairFit(StackPairs(m, ta1, vp1), b)
    BY <1>1, <1>2, <2>2
  <2>4. rows \in Nat \X Nat /\ rows[1] >= 3 /\ rows[2] >= 3 /\ rows[1] + rows[2] = b
    BY <2>1, <2>3, GrowTablesFills
  <2> HIDE DEF rows
  <2> QED BY <2>1, <2>4
<1> HIDE DEF rows
<1>4. vp2 = v1
  <2>1. PICK k \in Int : k = 12 + 4 * fr + a1 + n + r
    OBVIOUS
  <2>2. LinearFit(StackVp(m, a1, n, r), k, h)
    BY <2>1 DEF StackVpShare
  <2>5. v1 <= h
    BY <1>3
  <2>3. Grown(v1, h, k, h, Grow(v1, h, StackVp(m, a1, n, r)))
    BY <2>2, <2>5, GrowLinear
  <2>4. Grown(v1, h, k, h, vp2)
    BY <1>1, <1>2, <1>3, <2>3
  <2> HIDE DEF vp2
  <2> QED BY <1>3, <2>1, <2>4 DEF Grown
<1> HIDE DEF vp2
<1>5. ta2 = a1
  <2>1. PICK k \in Int : k = 12 + 4 * fr + v1 + n + r
    OBVIOUS
  <2>2. LinearFit(StackTa(m, v1, n, r), k, h)
    BY <2>1 DEF StackTaShare
  <2>5. a1 <= 8
    BY <1>2
  <2>3. Grown(a1, 8, k, h, Grow(a1, 8, StackTa(m, v1, n, r)))
    BY <2>2, <2>5, GrowLinear
  <2>4. Grown(a1, 8, k, h, ta2)
    BY <1>2, <1>3, <1>4, <2>3
  <2> HIDE DEF ta2
  <2> QED BY <1>3, <2>1, <2>4 DEF Grown
<1> HIDE DEF ta2
<1>6. a1 >= 1 /\ v1 >= 1
  BY <1>1, <1>2
<1>7. \E ta, vp, x, y \in Nat : /\ ta2 = ta /\ vp2 = vp /\ rows = <<x, y>>
                                /\ ta >= 1 /\ vp >= 1 /\ x >= 3 /\ y >= 3
                                /\ 12 + 4 * fr + ta + vp + x + y = h
  BY <1>3, <1>4, <1>5, <1>6
<1> QED BY <1>7 DEF ta1, ta2, vp1, vp2, rows, StackSizes

LEMMA LayoutStackIs ==
  ASSUME NEW w \in Nat, NEW h \in Nat, w >= 36, h >= 30, NEW m0, Base(m0, w, h)
  PROVE  LET l == LayoutStack(m0)
         IN  /\ Framed(m0, l)
             /\ l.composeW = w /\ l.logsW = w /\ l.neighW = w /\ l.routesW = w
             /\ l.composeH + 1 + l.logsH + 1 + l.neighH + 1 + l.routesH = h
<1> DEFINE m == TablesWide(TopWide(m0), m0.width, m0.width)
           vp1 == Grow(1, 4, StackVp(m, 1, 3, 3))
           ta1 == Grow(1, 3, StackTa(m, vp1, 3, 3))
           rows == GrowTables(StackPairs(m, ta1, vp1))
           vp2 == Grow(vp1, m.height, StackVp(m, ta1, rows[1], rows[2]))
           ta2 == Grow(ta1, 8, StackTa(m, vp2, rows[1], rows[2]))
           l == CommitTables(CommitLogs(CommitCompose(m, ta2), vp2), rows[1], rows[2])
<1>0. LayoutStack(m0) = l
  BY DEF LayoutStack, StackTa, StackVp, StackPairs
<1>1. PICK fr \in Nat : fr = FrameRows(h) /\ 20 + 4 * fr <= h
  BY DEF FrameRows
<1>2. m0.width = w /\ m0.height = h /\ DOMAIN m0 = Fields /\ m0.slimButton = FALSE
      /\ m0.hideComposeTitle = FALSE /\ FrameY(m0) = fr
  BY <1>1, BaseFrame DEF Base
<1>3. w >= 30 /\ w >= 10
  OBVIOUS
<1>4. TopPlaced(m0, m, w, w, w)
  <2>1. TopPlaced(m0, TablesWide(TopWide(m0), w, w), w, w, w)
    BY <1>2, <1>3, TopPlacedIs
  <2> QED BY <1>2, <2>1
<1> HIDE DEF m
<1>5. m.height = h /\ m.stackSend = FALSE /\ FrameY(m) = fr
  BY <1>2, <1>4 DEF TopPlaced, Decided, FrameY
<1>6. StackTaShare(m, fr, h) /\ StackVpShare(m, fr, h) /\ StackPairsShare(m, fr, h)
  BY <1>5, StackTotals
<1>7. PICK ta \in Nat, vp \in Nat, n \in Nat, r \in Nat :
        /\ ta2 = ta /\ vp2 = vp /\ rows = <<n, r>>
        /\ ta >= 1 /\ vp >= 1 /\ n >= 3 /\ r >= 3 /\ 12 + 4 * fr + ta + vp + n + r = h
  <2>1. StackSizes(m, fr, h)
    BY <1>1, <1>5, <1>6, StackHeights
  <2> QED BY <2>1 DEF StackSizes
<1> HIDE DEF ta2, vp2, rows
<1>8. l = CommitTables(CommitLogs(CommitCompose(m, ta), vp), n, r)
  BY <1>7
<1> HIDE DEF l
<1>9. HeightsSet(m0, l, fr, w, w, w, ta, vp, n, r)
  <2>1. HeightsSet(m0, CommitTables(CommitLogs(CommitCompose(m, ta), vp), n, r),
                   fr, w, w, w, ta, vp, n, r)
    BY <1>2, <1>3, <1>4, <1>7, HeightsCommitted
  <2> QED BY <1>8, <2>1
<1> QED BY <1>0, <1>7, <1>9 DEF HeightsSet

-----------------------------------------------------------------------------
(* Compact: one panel, with the button below the receiver field. *)

HintRow(h) == IF h >= 14 THEN 1 ELSE 0
ContentRows(h) == h - 1 - HintRow(h) - FrameRows(h)

(* The rows of the compose panel that hold no text of the message. *)
SlimLines(h) == IF ContentRows(h) < 8 THEN 6 ELSE 7

(* What a compact layout sets, and what it leaves. *)
CompactFlags(m, l, h) ==
  /\ \A f \in {"width", "height", "mode", "dense"} : l[f] = m[f]
  /\ l.slimButton = TRUE /\ l.stackSend = TRUE
  /\ l.showHint \in BOOLEAN /\ l.showHint = (h >= 14)
  /\ l.hideComposeTitle \in BOOLEAN /\ l.hideComposeTitle = (ContentRows(h) < 8)

CompactSizes(l, w, h) ==
  /\ l.composeW = w /\ l.logsW = w /\ l.neighW = w /\ l.routesW = w
  /\ l.composeH = h - 1 - HintRow(h) /\ l.logsH = h - 1 - HintRow(h)
  /\ l.neighH = h - 1 - HintRow(h) /\ l.routesH = h - 1 - HintRow(h)
  /\ l.viewportWidth = w - 4 /\ l.neighTableW = w - 4 /\ l.routeTableW = w - 4
  /\ l.viewportHeight = ContentRows(h) - 1
  /\ l.neighTableH = ContentRows(h) - 1 /\ l.routeTableH = ContentRows(h) - 1
  /\ l.textareaWidth = w - 8 /\ l.inputWidth = (IF w - 8 <= 48 THEN w - 8 ELSE 48)
  /\ l.textareaHeight = (IF ContentRows(h) - SlimLines(h) <= 8
                         THEN ContentRows(h) - SlimLines(h) ELSE 8)

LEMMA ContentRowsFit ==
  ASSUME NEW h \in Nat, h >= 10
  PROVE  /\ ContentRows(h) \in Nat /\ ContentRows(h) >= 7
         /\ ContentRows(h) - SlimLines(h) \in Nat /\ ContentRows(h) - SlimLines(h) >= 1
         /\ HintRow(h) \in 0 .. 1 /\ FrameRows(h) \in {2, 4}
         /\ h - 1 - HintRow(h) = ContentRows(h) + FrameRows(h)
BY DEF ContentRows, SlimLines, HintRow, FrameRows

(* The fields of the compose panel below one another. *)
LEMMA SizeComposeStacked ==
  ASSUME NEW m, DOMAIN m = Fields, m.slimButton = TRUE, m.stackSend = TRUE,
         NEW w \in Nat, w >= 20
  PROVE  LET c == SizeComposeFields(m, w)
         IN  /\ Within(m, c, {"stackSend", "textareaWidth", "inputWidth"})
             /\ c.stackSend = TRUE /\ c.textareaWidth = w - 4
             /\ c.inputWidth = IF w - 4 <= 48 THEN w - 4 ELSE 48
<1> DEFINE r == [stackSend |-> TRUE, textareaWidth |-> w - 4,
                 inputWidth |-> IF w - 4 <= 48 THEN w - 4 ELSE 48]
<1>1. Max({w, 1}) = w /\ Max({w - 4, 1}) = w - 4
  BY MaxOfTwo
<1>2. Min({w - 4, 48}) = r.inputWidth
  BY MinOfTwo
<1>4. SizeComposeFields(m, w) = Assign(m, r)
  BY <1>1, <1>2 DEF SizeComposeFields, fieldFrameX
<1>5. DOMAIN r = {"stackSend", "textareaWidth", "inputWidth"} /\ DOMAIN r \subseteq Fields
  BY DEF Fields, Flags, Lengths
<1> QED BY <1>4, <1>5, Assigned

LEMMA LayoutCompactIs ==
  ASSUME NEW w \in Nat, NEW h \in Nat, w >= 24, h >= 10, NEW m0, Base(m0, w, h)
  PROVE  LET l == LayoutCompact(m0)
         IN  DOMAIN l = Fields /\ CompactFlags(m0, l, h) /\ CompactSizes(l, w, h)
<1> DEFINE hint == m0.height >= 14
           panelH == Max({m0.height - 1 - (IF hint THEN 1 ELSE 0), 3})
           panelW == Max({m0.width, 1})
           contentH == Max({panelH - FrameY(m0), 1})
           contentW == Max({panelW - frameX, 1})
           hide == TitleHidden(contentH)
           ta == contentH - ComposeFixedLines(~hide, TRUE, TRUE)
           rows == Max({contentH - 1, 1})
           trows == Max({contentH - 1, 3})
           tah == Min({Max({ta, 1}), 8})
           r == [slimButton |-> TRUE, stackSend |-> TRUE, showHint |-> hint,
                 hideComposeTitle |-> hide, textareaHeight |-> tah,
                 composeW |-> panelW, logsW |-> panelW, neighW |-> panelW, routesW |-> panelW,
                 composeH |-> panelH, logsH |-> panelH, neighH |-> panelH, routesH |-> panelH,
                 viewportWidth |-> contentW, viewportHeight |-> rows,
                 neighTableW |-> contentW, routeTableW |-> contentW,
                 neighTableH |-> trows, routeTableH |-> trows]
           m == Assign(m0, r)
           l == SizeComposeFields(m, contentW)
<1>0. LayoutCompact(m0) = l
  BY DEF LayoutCompact
<1>1. PICK ch \in Nat : ch = ContentRows(h) /\ ch >= 7
  BY ContentRowsFit
<1>2. m0.width = w /\ m0.height = h /\ DOMAIN m0 = Fields /\ FrameY(m0) = FrameRows(h)
  BY BaseFrame DEF Base
<1>3. hint \in BOOLEAN /\ hint = (h >= 14) /\ panelW = w
  BY <1>2, MaxOfTwo
<1>4. panelH = h - 1 - HintRow(h)
  <2>1. m0.height - 1 - (IF hint THEN 1 ELSE 0) = h - 1 - HintRow(h)
    BY <1>2 DEF HintRow
  <2>2. h - 1 - HintRow(h) \in Nat /\ h - 1 - HintRow(h) >= 3
    BY DEF HintRow
  <2>3. Max({h - 1 - HintRow(h), 3}) = h - 1 - HintRow(h)
    BY <2>2, MaxOfTwo
  <2> QED BY <2>1, <2>3
<1> HIDE DEF hint, panelW, panelH
<1>5. contentH = ch /\ contentW = w - 4
  <2>1. panelH - FrameY(m0) = ch
    BY <1>1, <1>2, <1>4 DEF ContentRows
  <2>2. Max({ch, 1}) = ch /\ Max({w - 4, 1}) = w - 4
    BY <1>1, MaxOfTwo
  <2> QED BY <1>3, <2>1, <2>2 DEF frameX
<1> HIDE DEF contentH, contentW
<1>6. hide \in BOOLEAN /\ hide = (ch < 8)
  BY <1>5 DEF TitleHidden, ComposeFixedLines
<1>7. rows = ch - 1 /\ trows = ch - 1
  BY <1>1, <1>5, MaxOfTwo
<1>8. tah = IF ch - SlimLines(h) <= 8 THEN ch - SlimLines(h) ELSE 8
  <2>0. ComposeFixedLines(~hide, TRUE, TRUE) = SlimLines(h)
    <3> HIDE DEF hide
    <3>2. CASE ContentRows(h) < 8
      <4>1. hide = TRUE
        BY <1>1, <1>6, <3>2
      <4> QED BY <3>2, <4>1 DEF ComposeFixedLines, SlimLines
    <3>3. CASE ~(ContentRows(h) < 8)
      <4>1. hide = FALSE
        BY <1>1, <1>6, <3>3
      <4> QED BY <3>3, <4>1 DEF ComposeFixedLines, SlimLines
    <3> QED BY <3>2, <3>3
  <2>1. ta = ch - SlimLines(h)
    BY <1>5, <2>0
  <2>2. PICK t \in Nat : t = ch - SlimLines(h) /\ t >= 1
    BY <1>1, ContentRowsFit
  <2>3. Max({t, 1}) = t /\ Min({t, 8}) = IF t <= 8 THEN t ELSE 8
    BY <2>2, MaxOfTwo, MinOfTwo
  <2> QED BY <2>1, <2>2, <2>3
<1> HIDE DEF hide, rows, trows, tah
<1> DEFINE S == {"slimButton", "stackSend", "showHint", "hideComposeTitle", "textareaHeight",
                 "composeW", "logsW", "neighW", "routesW", "composeH", "logsH", "neighH",
                 "routesH", "viewportWidth", "viewportHeight", "neighTableW", "routeTableW",
                 "neighTableH", "routeTableH"}
<1>9. DOMAIN r = S /\ S \subseteq Fields
  BY DEF Fields, Flags, Lengths
<1>18. /\ r.slimButton = TRUE /\ r.stackSend = TRUE /\ r.showHint = hint
       /\ r.hideComposeTitle = hide /\ r.textareaHeight = tah
       /\ r.composeW = panelW /\ r.logsW = panelW /\ r.neighW = panelW /\ r.routesW = panelW
       /\ r.composeH = panelH /\ r.logsH = panelH /\ r.neighH = panelH /\ r.routesH = panelH
       /\ r.viewportWidth = contentW /\ r.viewportHeight = rows
       /\ r.neighTableW = contentW /\ r.routeTableW = contentW
       /\ r.neighTableH = trows /\ r.routeTableH = trows
  OBVIOUS
<1> HIDE DEF r
<1>10. Within(m0, m, DOMAIN r) /\ \A f \in DOMAIN r : m[f] = r[f]
  BY <1>2, <1>9, Assigned
<1> HIDE DEF m
<1>11. /\ m.slimButton = TRUE /\ m.stackSend = TRUE /\ m.showHint = hint
       /\ m.hideComposeTitle = hide /\ m.textareaHeight = tah
       /\ m.composeW = panelW /\ m.logsW = panelW /\ m.neighW = panelW /\ m.routesW = panelW
       /\ m.composeH = panelH /\ m.logsH = panelH /\ m.neighH = panelH /\ m.routesH = panelH
       /\ m.viewportWidth = contentW /\ m.viewportHeight = rows
       /\ m.neighTableW = contentW /\ m.routeTableW = contentW
       /\ m.neighTableH = trows /\ m.routeTableH = trows
  BY <1>9, <1>10, <1>18
<1>12. DOMAIN m = Fields /\ \A f \in {"width", "height", "mode", "dense"} : m[f] = m0[f]
  BY <1>9, <1>10 DEF Within, Fields, Flags, Lengths
<1>13. /\ Within(m, l, {"stackSend", "textareaWidth", "inputWidth"})
       /\ l.stackSend = TRUE /\ l.textareaWidth = w - 8
       /\ l.inputWidth = IF w - 8 <= 48 THEN w - 8 ELSE 48
  <2>1. PICK v \in Nat : v = w - 4 /\ v >= 20
    OBVIOUS
  <2>2. /\ Within(m, SizeComposeFields(m, v), {"stackSend", "textareaWidth", "inputWidth"})
        /\ SizeComposeFields(m, v).stackSend = TRUE
        /\ SizeComposeFields(m, v).textareaWidth = v - 4
        /\ SizeComposeFields(m, v).inputWidth = IF v - 4 <= 48 THEN v - 4 ELSE 48
    BY <1>11, <1>12, <2>1, SizeComposeStacked
  <2>3. l = SizeComposeFields(m, v)
    BY <1>5, <2>1
  <2> HIDE DEF l
  <2> QED BY <2>1, <2>2, <2>3
<1> HIDE DEF l
<1>14. /\ l.slimButton = TRUE /\ l.showHint = hint
       /\ l.hideComposeTitle = hide /\ l.textareaHeight = tah
       /\ l.composeW = panelW /\ l.logsW = panelW /\ l.neighW = panelW /\ l.routesW = panelW
       /\ l.composeH = panelH /\ l.logsH = panelH /\ l.neighH = panelH /\ l.routesH = panelH
       /\ l.viewportWidth = contentW /\ l.viewportHeight = rows
       /\ l.neighTableW = contentW /\ l.routeTableW = contentW
       /\ l.neighTableH = trows /\ l.routeTableH = trows
  BY <1>11, <1>13 DEF Within, Fields, Flags, Lengths
<1>15. DOMAIN l = Fields /\ \A f \in {"width", "height", "mode", "dense"} : l[f] = m0[f]
  BY <1>12, <1>13 DEF Within, Fields, Flags, Lengths
<1>16. CompactFlags(m0, l, h)
  BY <1>1, <1>3, <1>6, <1>13, <1>14, <1>15 DEF CompactFlags
<1>17. CompactSizes(l, w, h)
  BY <1>1, <1>3, <1>4, <1>5, <1>7, <1>8, <1>13, <1>14 DEF CompactSizes
<1> QED BY <1>0, <1>15, <1>16, <1>17

-----------------------------------------------------------------------------
(* What is drawn. *)

Typed(l) ==
  /\ DOMAIN l = Fields
  /\ \A f \in Flags : l[f] \in BOOLEAN
  /\ \A f \in Lengths : l[f] \in Nat

(* What is in each panel fits into its frame. *)
Inside(l) ==
  \A name \in DOMAIN Panels(l) :
    /\ Panels(l)[name].inW <= Panels(l)[name].w - frameX
    /\ Panels(l)[name].inH <= Panels(l)[name].h - FrameY(l)

(* Panel by panel, with the values that Panels computes. *)
LEMMA InsideFromPanels ==
  ASSUME NEW l, NEW cW, NEW cH, NEW nH, NEW rH,
         Max({TopCols(l), l.textareaWidth + fieldFrameX}) = cW,
         (IF l.hideComposeTitle THEN 0 ELSE 1) + TopRows(l) + l.textareaHeight + 2 = cH,
         Max({l.neighTableH, 3}) = nH, Max({l.routeTableH, 3}) = rH,
         cW <= l.composeW - 4, cH <= l.composeH - FrameY(l),
         l.viewportWidth <= l.logsW - 4, 1 + l.viewportHeight <= l.logsH - FrameY(l),
         l.neighTableW <= l.neighW - 4, 1 + nH <= l.neighH - FrameY(l),
         l.routeTableW <= l.routesW - 4, 1 + rH <= l.routesH - FrameY(l)
  PROVE  Inside(l)
<1> DEFINE p == Panels(l)
<1>1. DOMAIN p = {"compose", "logs", "neigh", "routes"}
  BY DEF Panels
<1>2. p["compose"].inW <= p["compose"].w - frameX /\ p["compose"].inH <= p["compose"].h - FrameY(l)
  BY DEF Panels, frameX
<1>3. p["logs"].inW <= p["logs"].w - frameX /\ p["logs"].inH <= p["logs"].h - FrameY(l)
  BY DEF Panels, frameX
<1>4. p["neigh"].inW <= p["neigh"].w - frameX /\ p["neigh"].inH <= p["neigh"].h - FrameY(l)
  BY DEF Panels, frameX
<1>5. p["routes"].inW <= p["routes"].w - frameX /\ p["routes"].inH <= p["routes"].h - FrameY(l)
  BY DEF Panels, frameX
<1> HIDE DEF p
<1>6. \A name \in DOMAIN p : /\ p[name].inW <= p[name].w - frameX
                             /\ p[name].inH <= p[name].h - FrameY(l)
  BY <1>1, <1>2, <1>3, <1>4, <1>5
<1> QED BY <1>6 DEF Inside, p

LEMMA FramedInside ==
  ASSUME NEW m, NEW w \in Nat, NEW h \in Nat, Base(m, w, h), NEW l, Framed(m, l)
  PROVE  Inside(l)
<1>1. PICK fr \in Nat : fr = FrameRows(h)
  BY DEF FrameRows
<1>2. l.slimButton = FALSE /\ l.hideComposeTitle = FALSE /\ l.stackSend = FALSE
      /\ FrameY(l) = fr /\ FrameY(m) = fr
  BY <1>1, BaseFrame DEF Framed, Base, Decided, FrameY
<1>3. FramedRows(l, fr) /\ FramedCols(l)
  BY <1>2 DEF Framed
<1>4. PICK c \in Nat, i \in Nat : /\ c = l.composeW /\ c >= 26 /\ l.textareaWidth = c - 8
                                  /\ l.inputWidth = i /\ i <= c - 22
  BY <1>3 DEF FramedCols
<1>5. TopCols(l) = i + 18 /\ TopRows(l) = 3
  BY <1>2, <1>4 DEF TopCols, TopRows, fieldFrameX, buttonGap, buttonRowW
<1>6. Max({TopCols(l), l.textareaWidth + fieldFrameX}) = c - 4
  <2>1. Max({i + 18, c - 4}) = c - 4
    BY <1>4, MaxOfTwo
  <2>2. l.textareaWidth + fieldFrameX = c - 4
    BY <1>4 DEF fieldFrameX
  <2> QED BY <1>5, <2>1, <2>2
<1>7. PICK ta \in Nat, vp \in Nat, n \in Nat, r \in Nat :
        /\ l.textareaHeight = ta /\ l.composeH = 6 + ta + fr
        /\ l.viewportHeight = vp /\ l.logsH = 1 + vp + fr
        /\ l.neighTableH = n /\ n >= 3 /\ l.neighH = 1 + n + fr
        /\ l.routeTableH = r /\ r >= 3 /\ l.routesH = 1 + r + fr
  BY <1>3 DEF FramedRows
<1>8. Max({l.neighTableH, 3}) = n /\ Max({l.routeTableH, 3}) = r
  BY <1>7, MaxOfTwo
<1>9. (IF l.hideComposeTitle THEN 0 ELSE 1) + TopRows(l) + l.textareaHeight + 2 = 6 + ta
  BY <1>2, <1>5, <1>7
<1>10. /\ c - 4 <= l.composeW - 4 /\ 6 + ta <= l.composeH - FrameY(l)
       /\ 1 + l.viewportHeight <= l.logsH - FrameY(l)
       /\ 1 + n <= l.neighH - FrameY(l) /\ 1 + r <= l.routesH - FrameY(l)
  BY <1>2, <1>4, <1>7
<1>11. /\ l.viewportWidth <= l.logsW - 4 /\ l.neighTableW <= l.neighW - 4
       /\ l.routeTableW <= l.routesW - 4
  BY <1>3 DEF FramedCols
<1> QED BY <1>6, <1>8, <1>9, <1>10, <1>11, InsideFromPanels

LEMMA CompactInside ==
  ASSUME NEW w \in Nat, NEW h \in Nat, w >= 24, h >= 10, NEW m, Base(m, w, h), NEW l,
         CompactFlags(m, l, h), CompactSizes(l, w, h)
  PROVE  Inside(l)
<1>1. PICK ch \in Nat, sl \in Nat, ph \in Nat :
        /\ ch = ContentRows(h) /\ ch >= 7 /\ sl = SlimLines(h) /\ ch - sl >= 1
        /\ ph = h - 1 - HintRow(h) /\ ph - FrameRows(h) = ch
        /\ sl = IF ch < 8 THEN 6 ELSE 7
  <2>1. SlimLines(h) \in Nat
    BY DEF SlimLines
  <2>2. h - 1 - HintRow(h) \in Nat
    BY DEF HintRow
  <2>3. h - 1 - HintRow(h) - FrameRows(h) = ContentRows(h)
    BY DEF ContentRows
  <2>4. SlimLines(h) = IF ContentRows(h) < 8 THEN 6 ELSE 7
    BY DEF SlimLines
  <2> QED BY <2>1, <2>2, <2>3, <2>4, ContentRowsFit
<1>2. l.slimButton = TRUE /\ l.stackSend = TRUE /\ FrameY(l) = FrameRows(h)
      /\ l.hideComposeTitle = (ch < 8)
  <2>1. l.dense = Dense(h)
    BY DEF CompactFlags, Base
  <2> QED BY <1>1, <2>1, BaseFrame DEF CompactFlags
<1>3. PICK i \in Nat, ta \in Nat : l.inputWidth = i /\ i <= w - 8
                                   /\ l.textareaHeight = ta /\ ta <= ch - sl
  BY <1>1 DEF CompactSizes
<1>4. TopRows(l) = 4
  BY <1>2 DEF TopRows
<1>5. TopCols(l) = (IF i + 4 >= 6 THEN i + 4 ELSE 6)
  <2>1. TopCols(l) = Max({i + 4, 6})
    BY <1>2, <1>3 DEF TopCols, fieldFrameX
  <2> QED BY <2>1, MaxOfTwo
<1>6. Max({TopCols(l), l.textareaWidth + fieldFrameX}) = w - 4
  <2>1. PICK t \in Nat : t = TopCols(l) /\ t <= w - 4
    BY <1>3, <1>5
  <2>2. l.textareaWidth + fieldFrameX = w - 4
    BY DEF CompactSizes, fieldFrameX
  <2>3. Max({t, w - 4}) = w - 4
    BY <2>1, MaxOfTwo
  <2> QED BY <2>1, <2>2, <2>3
<1>7. l.neighTableH = ch - 1 /\ l.routeTableH = ch - 1 /\ Max({ch - 1, 3}) = ch - 1
  BY <1>1, MaxOfTwo DEF CompactSizes
<1>8. PICK cH \in Nat :
        /\ (IF l.hideComposeTitle THEN 0 ELSE 1) + TopRows(l) + l.textareaHeight + 2 = cH
        /\ cH <= ch
  <2>1. CASE ch < 8
    <3>1. l.hideComposeTitle = TRUE
      BY <1>2, <2>1
    <3>2. (IF l.hideComposeTitle THEN 0 ELSE 1) + TopRows(l) + l.textareaHeight + 2 = 6 + ta
      BY <1>3, <1>4, <3>1
    <3> QED BY <1>1, <1>3, <2>1, <3>2
  <2>2. CASE ~(ch < 8)
    BY <1>1, <1>2, <1>3, <1>4, <2>2
  <2> QED BY <2>1, <2>2
<1>9. /\ l.composeW = w /\ l.logsW = w /\ l.neighW = w /\ l.routesW = w
      /\ l.composeH = ph /\ l.logsH = ph /\ l.neighH = ph /\ l.routesH = ph
      /\ l.viewportWidth = w - 4 /\ l.neighTableW = w - 4 /\ l.routeTableW = w - 4
      /\ l.viewportHeight = ch - 1
  BY <1>1 DEF CompactSizes
<1>10. /\ w - 4 <= l.composeW - 4 /\ cH <= l.composeH - FrameY(l)
       /\ 1 + l.viewportHeight <= l.logsH - FrameY(l)
       /\ 1 + (ch - 1) <= l.neighH - FrameY(l) /\ 1 + (ch - 1) <= l.routesH - FrameY(l)
  BY <1>1, <1>2, <1>8, <1>9
<1>11. /\ l.viewportWidth <= l.logsW - 4 /\ l.neighTableW <= l.neighW - 4
       /\ l.routeTableW <= l.routesW - 4
  BY <1>9
<1>12. Max({l.neighTableH, 3}) = ch - 1 /\ Max({l.routeTableH, 3}) = ch - 1
  BY <1>7
<1> QED BY <1>6, <1>8, <1>10, <1>11, <1>12, InsideFromPanels

LEMMA MaxOfSame ==
  ASSUME NEW a \in Int
  PROVE  Max({a, a, a}) = a /\ Max({a, a, a, a}) = a
<1>1. {a, a, a} = {a} /\ {a, a, a, a} = {a}
  OBVIOUS
<1>2. Max({a}) = a
  BY DEF Max
<1> QED BY <1>1, <1>2

(* The panels take the whole terminal. *)
Filling(l, w, h) == Rows(l) = h /\ Cols(l) = w

LEMMA WideFills ==
  ASSUME NEW w \in Nat, NEW h \in Nat, NEW l, l.mode = "wide",
         l.composeW + 1 + l.logsW = w, l.neighW = w, l.routesW = w,
         l.composeH \in Nat, l.composeH = l.logsH,
         l.composeH + 1 + l.neighH + 1 + l.routesH = h
  PROVE  Filling(l, w, h)
<1>1. Max({l.composeH, l.logsH}) = l.composeH
  BY MaxOfTwo
<1>2. Max({l.composeW + 1 + l.logsW, l.neighW, l.routesW}) = w
  BY MaxOfSame
<1> QED BY <1>1, <1>2 DEF Filling, Rows, Cols

LEMMA SplitFills ==
  ASSUME NEW w \in Nat, NEW h \in Nat, NEW l, l.mode = "split",
         l.composeW = w, l.logsW = w, l.neighW + 1 + l.routesW = w,
         l.neighH \in Nat, l.neighH = l.routesH,
         l.composeH + 1 + l.logsH + 1 + l.neighH = h
  PROVE  Filling(l, w, h)
<1>1. Max({l.neighH, l.routesH}) = l.neighH
  BY MaxOfTwo
<1>2. Max({l.composeW, l.logsW, l.neighW + 1 + l.routesW}) = w
  BY MaxOfSame
<1> QED BY <1>1, <1>2 DEF Filling, Rows, Cols

LEMMA StackFills ==
  ASSUME NEW w \in Nat, NEW h \in Nat, NEW l, l.mode = "stack",
         l.composeW = w, l.logsW = w, l.neighW = w, l.routesW = w,
         l.composeH + 1 + l.logsH + 1 + l.neighH + 1 + l.routesH = h
  PROVE  Filling(l, w, h)
<1>1. Max({l.composeW, l.logsW, l.neighW, l.routesW}) = w
  BY MaxOfSame
<1> QED BY <1>1 DEF Filling, Rows, Cols

LEMMA CompactFills ==
  ASSUME NEW w \in Nat, NEW h \in Nat, w >= 24, h >= 10, NEW l, l.mode = "compact",
         NEW m, CompactFlags(m, l, h), CompactSizes(l, w, h)
  PROVE  Filling(l, w, h)
<1>1. Max({l.composeW, l.logsW, l.neighW, l.routesW}) = w
  BY MaxOfSame DEF CompactSizes
<1>2. PICK ph \in Nat : ph = h - 1 - HintRow(h)
  BY DEF HintRow
<1>3. Max({l.composeH, l.logsH, l.neighH, l.routesH}) = ph
  BY <1>2, MaxOfSame DEF CompactSizes
<1>4. 1 + ph + (IF l.showHint THEN 1 ELSE 0) = h
  <2>1. CASE h >= 14
    <3>1. l.showHint = TRUE /\ HintRow(h) = 1
      BY <2>1 DEF CompactFlags, HintRow
    <3> QED BY <1>2, <3>1
  <2>2. CASE ~(h >= 14)
    <3>1. l.showHint = FALSE
      BY <2>2 DEF CompactFlags
    <3>2. HintRow(h) = 0
      BY <2>2 DEF HintRow
    <3> QED BY <1>2, <3>1, <3>2
  <2> QED BY <2>1, <2>2
<1> QED BY <1>1, <1>3, <1>4 DEF Filling, Rows, Cols

-----------------------------------------------------------------------------
(* The types. *)

LEMMA FramedTyped ==
  ASSUME NEW m, NEW w \in Nat, NEW h \in Nat, Base(m, w, h), NEW l, Framed(m, l)
  PROVE  Typed(l)
<1>1. PICK fr \in Nat : fr = FrameY(m)
  BY BaseFrame DEF FrameRows, Base
<1>2. /\ l.dense \in BOOLEAN /\ l.stackSend \in BOOLEAN /\ l.slimButton \in BOOLEAN
      /\ l.hideComposeTitle \in BOOLEAN /\ l.showHint \in BOOLEAN
  <2>1. l.dense = Dense(h) /\ Dense(h) \in BOOLEAN
    BY DEF Framed, Base, Decided, Dense
  <2> QED BY <2>1 DEF Framed, Base, Decided
<1>3. \A f \in Flags : l[f] \in BOOLEAN
  BY <1>2 DEF Flags
<1>4. l.width \in Nat /\ l.height \in Nat
  BY DEF Framed, Base, Decided
<1>5. /\ l.textareaHeight \in Nat /\ l.composeH \in Nat /\ l.viewportHeight \in Nat
      /\ l.logsH \in Nat /\ l.neighTableH \in Nat /\ l.neighH \in Nat
      /\ l.routeTableH \in Nat /\ l.routesH \in Nat
  BY <1>1 DEF Framed, FramedRows
<1>6. /\ l.composeW \in Nat /\ l.textareaWidth \in Nat /\ l.inputWidth \in Nat
      /\ l.logsW \in Nat /\ l.viewportWidth \in Nat /\ l.neighW \in Nat
      /\ l.neighTableW \in Nat /\ l.routesW \in Nat /\ l.routeTableW \in Nat
  BY DEF Framed, FramedCols
<1>7. \A f \in Lengths : l[f] \in Nat
  BY <1>4, <1>5, <1>6 DEF Lengths
<1> QED BY <1>3, <1>7 DEF Typed, Framed

LEMMA CompactTyped ==
  ASSUME NEW w \in Nat, NEW h \in Nat, w >= 24, h >= 10, NEW m, Base(m, w, h), NEW l,
         DOMAIN l = Fields, CompactFlags(m, l, h), CompactSizes(l, w, h)
  PROVE  Typed(l)
<1>1. PICK ch \in Nat, ph \in Nat, t \in Nat :
        /\ ch = ContentRows(h) /\ ch >= 7 /\ ph = h - 1 - HintRow(h)
        /\ t = ch - SlimLines(h)
  <2>1. h - 1 - HintRow(h) \in Nat
    BY DEF HintRow
  <2> QED BY <2>1, ContentRowsFit
<1>2. /\ l.dense \in BOOLEAN /\ l.stackSend \in BOOLEAN /\ l.slimButton \in BOOLEAN
      /\ l.hideComposeTitle \in BOOLEAN /\ l.showHint \in BOOLEAN
  <2>1. l.dense = Dense(h) /\ Dense(h) \in BOOLEAN
    BY DEF CompactFlags, Base, Dense
  <2> QED BY <1>1, <2>1 DEF CompactFlags
<1>3. \A f \in Flags : l[f] \in BOOLEAN
  BY <1>2 DEF Flags
<1>4. l.width \in Nat /\ l.height \in Nat
  BY DEF CompactFlags, Base
<1>5. /\ l.composeH \in Nat /\ l.logsH \in Nat /\ l.neighH \in Nat /\ l.routesH \in Nat
      /\ l.viewportHeight \in Nat /\ l.neighTableH \in Nat /\ l.routeTableH \in Nat
      /\ l.textareaHeight \in Nat
  BY <1>1 DEF CompactSizes
<1>6. /\ l.composeW \in Nat /\ l.textareaWidth \in Nat /\ l.inputWidth \in Nat
      /\ l.logsW \in Nat /\ l.viewportWidth \in Nat /\ l.neighW \in Nat
      /\ l.neighTableW \in Nat /\ l.routesW \in Nat /\ l.routeTableW \in Nat
  BY DEF CompactSizes
<1>7. \A f \in Lengths : l[f] \in Nat
  BY <1>4, <1>5, <1>6 DEF Lengths
<1> QED BY <1>3, <1>7 DEF Typed

-----------------------------------------------------------------------------
(* updateSizes. *)

LEMMA RebuiltIs ==
  ASSUME NEW m, DOMAIN m = Fields
  PROVE  LET c == RebuildTables(m)
         IN  /\ Within(m, c, {"neighCols", "routeCols"})
             /\ c.neighCols = FitColumns(m.neighTableW, neighbourSpecs)
             /\ c.routeCols = FitColumns(m.routeTableW, routeSpecs)
<1> DEFINE r == [neighCols |-> FitColumns(m.neighTableW, neighbourSpecs),
                 routeCols |-> FitColumns(m.routeTableW, routeSpecs)]
<1>1. RebuildTables(m) = Assign(m, r)
  BY DEF RebuildTables
<1>2. /\ DOMAIN r = {"neighCols", "routeCols"} /\ DOMAIN r \subseteq Fields
      /\ r.neighCols = FitColumns(m.neighTableW, neighbourSpecs)
      /\ r.routeCols = FitColumns(m.routeTableW, routeSpecs)
  BY DEF Fields
<1> HIDE DEF r
<1> QED BY <1>1, <1>2, Assigned

(* What updateSizes does before it calls one of the layouts. *)
Prepared(m0, w, h) ==
  Cleared(Assign(m0, [width |-> w, height |-> h, mode |-> PickMode(w, h), dense |-> Dense(h)]))

LEMMA PreparedIs ==
  ASSUME NEW m0, DOMAIN m0 = Fields, NEW w \in Nat, NEW h \in Nat
  PROVE  /\ Base(Prepared(m0, w, h), w, h)
         /\ \A f \in Fields \ Decided : Prepared(m0, w, h)[f] = m0[f]
<1> DEFINE r == [width |-> w, height |-> h, mode |-> PickMode(w, h), dense |-> Dense(h)]
           q == [slimButton |-> FALSE, hideComposeTitle |-> FALSE, showHint |-> FALSE]
           m == Assign(m0, r)
           c == Assign(m, q)
<1>1. Prepared(m0, w, h) = c
  BY DEF Prepared, Cleared
<1>2. /\ DOMAIN r = {"width", "height", "mode", "dense"} /\ DOMAIN r \subseteq Fields
      /\ r.width = w /\ r.height = h /\ r.mode = PickMode(w, h) /\ r.dense = Dense(h)
  BY DEF Fields, Flags, Lengths
<1>3. /\ DOMAIN q = {"slimButton", "hideComposeTitle", "showHint"} /\ DOMAIN q \subseteq Fields
      /\ q.slimButton = FALSE /\ q.hideComposeTitle = FALSE /\ q.showHint = FALSE
  BY DEF Fields, Flags
<1> HIDE DEF r, q
<1>4. Within(m0, m, DOMAIN r) /\ \A f \in DOMAIN r : m[f] = r[f]
  BY <1>2, Assigned
<1> HIDE DEF m
<1>5. Within(m, c, DOMAIN q) /\ \A f \in DOMAIN q : c[f] = q[f]
  BY <1>3, <1>4, Assigned DEF Within
<1> HIDE DEF c
<1>6. DOMAIN c = Fields
  BY <1>5 DEF Within
<1>7. c.slimButton = FALSE /\ c.hideComposeTitle = FALSE /\ c.showHint = FALSE
  BY <1>3, <1>5
<1>8. c.width = w /\ c.height = h /\ c.mode = PickMode(w, h) /\ c.dense = Dense(h)
  <2>1. m.width = w /\ m.height = h /\ m.mode = PickMode(w, h) /\ m.dense = Dense(h)
    BY <1>2, <1>4
  <2> QED BY <1>3, <1>5, <2>1 DEF Within, Fields, Flags, Lengths
<1>9. \A f \in Fields \ Decided : c[f] = m0[f]
  BY <1>2, <1>3, <1>4, <1>5 DEF Within, Decided
<1> QED BY <1>1, <1>6, <1>7, <1>8, <1>9 DEF Base

LEMMA UpdateIs ==
  ASSUME NEW m0, DOMAIN m0 = Fields, NEW w \in Nat, NEW h \in Nat
  PROVE  LET m == Prepared(m0, w, h)
             l == UpdateSizes(m0, <<w, h>>)
         IN  /\ PickMode(w, h) = "wide" => l = RebuildTables(LayoutWide(m))
             /\ PickMode(w, h) = "split" => l = RebuildTables(LayoutSplit(m))
             /\ PickMode(w, h) = "stack" => l = RebuildTables(LayoutStack(m))
             /\ PickMode(w, h) = "compact" => l = RebuildTables(LayoutCompact(m))
             /\ PickMode(w, h) = "tiny" => l = RebuildTables(LayoutTiny(m))
<1> DEFINE m == Prepared(m0, w, h)
<1>1. UpdateSizes(m0, <<w, h>>)
        = RebuildTables(CASE m.mode = "wide"    -> LayoutWide(m)
                          [] m.mode = "split"   -> LayoutSplit(m)
                          [] m.mode = "stack"   -> LayoutStack(m)
                          [] m.mode = "compact" -> LayoutCompact(m)
                          [] m.mode = "tiny"    -> LayoutTiny(m))
  BY DEF UpdateSizes, Prepared
<1>2. m.mode = PickMode(w, h)
  <2>1. Base(m, w, h)
    BY PreparedIs
  <2> QED BY <2>1 DEF Base
<1> HIDE DEF m
<1>3. /\ PickMode(w, h) = "wide" => UpdateSizes(m0, <<w, h>>) = RebuildTables(LayoutWide(m))
      /\ PickMode(w, h) = "split" => UpdateSizes(m0, <<w, h>>) = RebuildTables(LayoutSplit(m))
      /\ PickMode(w, h) = "stack" => UpdateSizes(m0, <<w, h>>) = RebuildTables(LayoutStack(m))
      /\ PickMode(w, h) = "compact"
           => UpdateSizes(m0, <<w, h>>) = RebuildTables(LayoutCompact(m))
      /\ PickMode(w, h) = "tiny" => UpdateSizes(m0, <<w, h>>) = RebuildTables(LayoutTiny(m))
  BY <1>1, <1>2
<1> QED BY <1>3 DEF m

(* The table columns are none of what the sizes depend on. *)
LEMMA FramedRebuilt ==
  ASSUME NEW m, NEW l, Framed(m, l)
  PROVE  LET c == RebuildTables(l)
         IN  Framed(m, c) /\ \A f \in Fields \ {"neighCols", "routeCols"} : c[f] = l[f]
<1> DEFINE c == RebuildTables(l)
<1>1. Within(l, c, {"neighCols", "routeCols"})
  BY RebuiltIs DEF Framed
<1> HIDE DEF c
<1>2. \A f \in Fields \ {"neighCols", "routeCols"} : c[f] = l[f]
  BY <1>1 DEF Within
<1>3. \A f \in Decided \cup Lengths \cup {"stackSend"} : c[f] = l[f]
  BY <1>2 DEF Fields, Flags, Lengths, Decided
<1>4. DOMAIN c = Fields /\ c.stackSend = FALSE /\ \A f \in Decided : c[f] = m[f]
  BY <1>1, <1>3 DEF Framed, Within
<1>5. FramedRows(c, FrameY(m))
  <2>1. /\ c.textareaHeight = l.textareaHeight /\ c.composeH = l.composeH
        /\ c.viewportHeight = l.viewportHeight /\ c.logsH = l.logsH
        /\ c.neighTableH = l.neighTableH /\ c.neighH = l.neighH
        /\ c.routeTableH = l.routeTableH /\ c.routesH = l.routesH
    BY <1>3 DEF Lengths
  <2>2. FramedRows(l, FrameY(m))
    BY DEF Framed
  <2> QED BY <2>1, <2>2 DEF FramedRows
<1>6. FramedCols(c)
  <2>1. /\ c.composeW = l.composeW /\ c.textareaWidth = l.textareaWidth
        /\ c.inputWidth = l.inputWidth /\ c.logsW = l.logsW
        /\ c.viewportWidth = l.viewportWidth /\ c.neighW = l.neighW
        /\ c.neighTableW = l.neighTableW /\ c.routesW = l.routesW
        /\ c.routeTableW = l.routeTableW
    BY <1>3 DEF Lengths
  <2>2. FramedCols(l)
    BY DEF Framed
  <2> QED BY <2>1, <2>2 DEF FramedCols
<1> QED BY <1>2, <1>4, <1>5, <1>6 DEF Framed, c

LEMMA CompactRebuilt ==
  ASSUME NEW m, NEW w, NEW h, NEW l,
         DOMAIN l = Fields, CompactFlags(m, l, h), CompactSizes(l, w, h)
  PROVE  LET c == RebuildTables(l)
         IN  DOMAIN c = Fields /\ CompactFlags(m, c, h) /\ CompactSizes(c, w, h)
<1> DEFINE c == RebuildTables(l)
<1>1. Within(l, c, {"neighCols", "routeCols"})
  BY RebuiltIs
<1> HIDE DEF c
<1>2. /\ \A f \in {"width", "height", "mode", "dense"} : c[f] = l[f]
      /\ c.slimButton = l.slimButton /\ c.stackSend = l.stackSend /\ c.showHint = l.showHint
      /\ c.hideComposeTitle = l.hideComposeTitle
  BY <1>1 DEF Within, Fields, Flags, Lengths
<1>3. \A f \in Lengths : c[f] = l[f]
  BY <1>1 DEF Within, Fields, Flags, Lengths
<1>4. CompactFlags(m, c, h)
  BY <1>2 DEF CompactFlags
<1>5. CompactSizes(c, w, h)
  <2>1. /\ c.composeW = l.composeW /\ c.logsW = l.logsW /\ c.neighW = l.neighW
        /\ c.routesW = l.routesW /\ c.composeH = l.composeH /\ c.logsH = l.logsH
        /\ c.neighH = l.neighH /\ c.routesH = l.routesH
        /\ c.viewportWidth = l.viewportWidth /\ c.neighTableW = l.neighTableW
        /\ c.routeTableW = l.routeTableW /\ c.viewportHeight = l.viewportHeight
        /\ c.neighTableH = l.neighTableH /\ c.routeTableH = l.routeTableH
        /\ c.textareaWidth = l.textareaWidth /\ c.inputWidth = l.inputWidth
        /\ c.textareaHeight = l.textareaHeight
    BY <1>3 DEF Lengths
  <2> QED BY <2>1 DEF CompactSizes
<1> QED BY <1>1, <1>4, <1>5 DEF Within, c

(* The columns of both tables. *)
Ruled(l) == /\ ColumnsWithin(l.neighCols, neighbourSpecs, l.neighTableW)
            /\ ColumnsWithin(l.routeCols, routeSpecs, l.routeTableW)

LEMMA RebuiltRuled ==
  ASSUME NEW l, DOMAIN l = Fields, l.neighTableW \in Nat, l.neighTableW >= 6,
         l.routeTableW \in Nat, l.routeTableW >= 6
  PROVE  Ruled(RebuildTables(l))
<1> DEFINE c == RebuildTables(l)
<1>1. /\ Within(l, c, {"neighCols", "routeCols"})
      /\ c.neighCols = FitColumns(l.neighTableW, neighbourSpecs)
      /\ c.routeCols = FitColumns(l.routeTableW, routeSpecs)
  BY RebuiltIs
<1> HIDE DEF c
<1>2. c.neighTableW = l.neighTableW /\ c.routeTableW = l.routeTableW
  BY <1>1 DEF Within, Fields, Lengths
<1>3. ColumnsWithin(FitColumns(l.neighTableW, neighbourSpecs), neighbourSpecs, l.neighTableW)
  BY FitColumnsFits, SpecsAreColumns
<1>4. ColumnsWithin(FitColumns(l.routeTableW, routeSpecs), routeSpecs, l.routeTableW)
  BY FitColumnsFits, SpecsAreColumns
<1> QED BY <1>1, <1>2, <1>3, <1>4 DEF Ruled, c

LEMMA FramedRuled ==
  ASSUME NEW m, NEW l, Framed(m, l)
  PROVE  Ruled(RebuildTables(l))
<1>1. /\ l.neighTableW \in Nat /\ l.neighTableW >= 6
      /\ l.routeTableW \in Nat /\ l.routeTableW >= 6
  BY DEF Framed, FramedCols
<1> QED BY <1>1, RebuiltRuled DEF Framed

(* What a size gives: the model is what it says, and what is drawn fits.    *)
Fitted(l, w, h) ==
  /\ Typed(l) /\ l.width = w /\ l.height = h /\ l.mode = PickMode(w, h)
  /\ Filling(l, w, h) /\ Inside(l) /\ Ruled(l)

LEMMA FramedKept ==
  ASSUME NEW m, NEW w, NEW h, Base(m, w, h), NEW l, Framed(m, l)
  PROVE  l.width = w /\ l.height = h /\ l.mode = PickMode(w, h)
BY DEF Base, Framed, Decided

LEMMA WideFitted ==
  ASSUME NEW w \in Nat, NEW h \in Nat, PickMode(w, h) = "wide", NEW m, Base(m, w, h)
  PROVE  Fitted(RebuildTables(LayoutWide(m)), w, h)
<1> DEFINE l == LayoutWide(m)
           c == RebuildTables(l)
<1>1. w >= 100 /\ h >= 26
  BY DEF PickMode
<1>2. /\ Framed(m, l)
      /\ l.composeW + 1 + l.logsW = w /\ l.neighW = w /\ l.routesW = w
      /\ l.composeH = l.logsH /\ l.composeH + 1 + l.neighH + 1 + l.routesH = h
  BY <1>1, LayoutWideIs
<1> HIDE DEF l
<1>3. Framed(m, c) /\ \A f \in Fields \ {"neighCols", "routeCols"} : c[f] = l[f]
  BY <1>2, FramedRebuilt
<1>9. Ruled(c)
  BY <1>2, FramedRuled
<1> HIDE DEF c
<1>4. /\ c.composeW = l.composeW /\ c.logsW = l.logsW /\ c.neighW = l.neighW
      /\ c.routesW = l.routesW /\ c.composeH = l.composeH /\ c.logsH = l.logsH
      /\ c.neighH = l.neighH /\ c.routesH = l.routesH
  BY <1>3 DEF Fields, Lengths
<1>5. Typed(c) /\ Inside(c)
  BY <1>3, FramedTyped, FramedInside
<1>6. c.width = w /\ c.height = h /\ c.mode = PickMode(w, h)
  BY <1>3, FramedKept
<1>7. c.composeH \in Nat
  BY <1>5 DEF Typed, Lengths
<1>8. Filling(c, w, h)
  BY <1>2, <1>4, <1>6, <1>7, WideFills
<1> QED BY <1>5, <1>6, <1>8, <1>9 DEF Fitted, c, l

LEMMA SplitFitted ==
  ASSUME NEW w \in Nat, NEW h \in Nat, PickMode(w, h) = "split", NEW m, Base(m, w, h)
  PROVE  Fitted(RebuildTables(LayoutSplit(m)), w, h)
<1> DEFINE l == LayoutSplit(m)
           c == RebuildTables(l)
<1>1. w >= 64 /\ h >= 22
  BY DEF PickMode
<1>2. /\ Framed(m, l)
      /\ l.composeW = w /\ l.logsW = w /\ l.neighW + 1 + l.routesW = w
      /\ l.neighH = l.routesH /\ l.composeH + 1 + l.logsH + 1 + l.neighH = h
  BY <1>1, LayoutSplitIs
<1> HIDE DEF l
<1>3. Framed(m, c) /\ \A f \in Fields \ {"neighCols", "routeCols"} : c[f] = l[f]
  BY <1>2, FramedRebuilt
<1>9. Ruled(c)
  BY <1>2, FramedRuled
<1> HIDE DEF c
<1>4. /\ c.composeW = l.composeW /\ c.logsW = l.logsW /\ c.neighW = l.neighW
      /\ c.routesW = l.routesW /\ c.composeH = l.composeH /\ c.logsH = l.logsH
      /\ c.neighH = l.neighH /\ c.routesH = l.routesH
  BY <1>3 DEF Fields, Lengths
<1>5. Typed(c) /\ Inside(c)
  BY <1>3, FramedTyped, FramedInside
<1>6. c.width = w /\ c.height = h /\ c.mode = PickMode(w, h)
  BY <1>3, FramedKept
<1>7. c.neighH \in Nat
  BY <1>5 DEF Typed, Lengths
<1>8. Filling(c, w, h)
  BY <1>2, <1>4, <1>6, <1>7, SplitFills
<1> QED BY <1>5, <1>6, <1>8, <1>9 DEF Fitted, c, l

LEMMA StackFitted ==
  ASSUME NEW w \in Nat, NEW h \in Nat, PickMode(w, h) = "stack", NEW m, Base(m, w, h)
  PROVE  Fitted(RebuildTables(LayoutStack(m)), w, h)
<1> DEFINE l == LayoutStack(m)
           c == RebuildTables(l)
<1>1. w >= 36 /\ h >= 30
  BY DEF PickMode
<1>2. /\ Framed(m, l)
      /\ l.composeW = w /\ l.logsW = w /\ l.neighW = w /\ l.routesW = w
      /\ l.composeH + 1 + l.logsH + 1 + l.neighH + 1 + l.routesH = h
  BY <1>1, LayoutStackIs
<1> HIDE DEF l
<1>3. Framed(m, c) /\ \A f \in Fields \ {"neighCols", "routeCols"} : c[f] = l[f]
  BY <1>2, FramedRebuilt
<1>9. Ruled(c)
  BY <1>2, FramedRuled
<1> HIDE DEF c
<1>4. /\ c.composeW = l.composeW /\ c.logsW = l.logsW /\ c.neighW = l.neighW
      /\ c.routesW = l.routesW /\ c.composeH = l.composeH /\ c.logsH = l.logsH
      /\ c.neighH = l.neighH /\ c.routesH = l.routesH
  BY <1>3 DEF Fields, Lengths
<1>5. Typed(c) /\ Inside(c)
  BY <1>3, FramedTyped, FramedInside
<1>6. c.width = w /\ c.height = h /\ c.mode = PickMode(w, h)
  BY <1>3, FramedKept
<1>8. Filling(c, w, h)
  BY <1>2, <1>4, <1>6, StackFills
<1> QED BY <1>5, <1>6, <1>8, <1>9 DEF Fitted, c, l

LEMMA CompactFitted ==
  ASSUME NEW w \in Nat, NEW h \in Nat, PickMode(w, h) = "compact", NEW m, Base(m, w, h)
  PROVE  Fitted(RebuildTables(LayoutCompact(m)), w, h)
<1> DEFINE l == LayoutCompact(m)
           c == RebuildTables(l)
<1>1. w >= 24 /\ h >= 10
  BY DEF PickMode
<1>2. DOMAIN l = Fields /\ CompactFlags(m, l, h) /\ CompactSizes(l, w, h)
  BY <1>1, LayoutCompactIs
<1> HIDE DEF l
<1>9. Ruled(c)
  <2>1. /\ l.neighTableW \in Nat /\ l.neighTableW >= 6
        /\ l.routeTableW \in Nat /\ l.routeTableW >= 6
    BY <1>1, <1>2 DEF CompactSizes
  <2> QED BY <1>2, <2>1, RebuiltRuled
<1>3. DOMAIN c = Fields /\ CompactFlags(m, c, h) /\ CompactSizes(c, w, h)
  BY <1>2, CompactRebuilt
<1> HIDE DEF c
<1>4. Typed(c)
  BY <1>1, <1>3, CompactTyped
<1>5. Inside(c)
  BY <1>1, <1>3, CompactInside
<1>6. c.width = w /\ c.height = h /\ c.mode = PickMode(w, h)
  BY <1>3 DEF CompactFlags, Base
<1>7. c.mode = "compact"
  BY <1>6
<1>8. Filling(c, w, h)
  BY <1>1, <1>3, <1>7, CompactFills
<1> QED BY <1>4, <1>5, <1>6, <1>8, <1>9 DEF Fitted, c, l

(* Whatever the last size left in the model. *)
LEMMA UpdateFitted ==
  ASSUME NEW m0, DOMAIN m0 = Fields, NEW w \in Nat, NEW h \in Nat, PickMode(w, h) # "tiny"
  PROVE  Fitted(UpdateSizes(m0, <<w, h>>), w, h)
<1> DEFINE m == Prepared(m0, w, h)
<1>1. Base(m, w, h)
  BY PreparedIs
<1>2. PickMode(w, h) \in {"wide", "split", "stack", "compact"}
  BY DEF PickMode
<1>3. CASE PickMode(w, h) = "wide"
  BY <1>1, <1>3, WideFitted, UpdateIs
<1>4. CASE PickMode(w, h) = "split"
  BY <1>1, <1>4, SplitFitted, UpdateIs
<1>5. CASE PickMode(w, h) = "stack"
  BY <1>1, <1>5, StackFitted, UpdateIs
<1>6. CASE PickMode(w, h) = "compact"
  BY <1>1, <1>6, CompactFitted, UpdateIs
<1> QED BY <1>2, <1>3, <1>4, <1>5, <1>6

(* A tiny terminal keeps the sizes of the panels, whatever they were.       *)
LEMMA TinyTyped ==
  ASSUME NEW m0, Typed(m0), NEW w \in Nat, NEW h \in Nat, PickMode(w, h) = "tiny"
  PROVE  LET l == UpdateSizes(m0, <<w, h>>)
         IN  Typed(l) /\ l.width = w /\ l.height = h /\ l.mode = PickMode(w, h)
<1> DEFINE m == Prepared(m0, w, h)
           r == [inputWidth |-> 4, textareaWidth |-> 4, textareaHeight |-> 1,
                 viewportWidth |-> 4, viewportHeight |-> 1, neighTableW |-> 4, routeTableW |-> 4,
                 neighTableH |-> 3, routeTableH |-> 3]
           l == LayoutTiny(m)
           c == RebuildTables(l)
<1>1. Base(m, w, h) /\ \A f \in Fields \ Decided : m[f] = m0[f]
  BY PreparedIs DEF Typed
<1> HIDE DEF m
<1>2. m.dense \in BOOLEAN /\ m.stackSend \in BOOLEAN /\ m.slimButton \in BOOLEAN
      /\ m.hideComposeTitle \in BOOLEAN /\ m.showHint \in BOOLEAN
  <2>1. m.stackSend \in BOOLEAN
    BY <1>1 DEF Typed, Fields, Flags, Decided
  <2>2. Dense(h) \in BOOLEAN
    BY DEF Dense
  <2> QED BY <1>1, <2>1, <2>2 DEF Base
<1>3. \A f \in Lengths : m[f] \in Nat
  <2>1. \A f \in Lengths \ {"width", "height"} : f \in Fields \ Decided
    BY DEF Lengths, Fields, Decided
  <2>2. m.width \in Nat /\ m.height \in Nat
    BY <1>1 DEF Base
  <2>3. \A f \in Lengths : m0[f] \in Nat
    BY DEF Typed
  <2> QED BY <1>1, <2>1, <2>2, <2>3
<1>4. Typed(m)
  BY <1>1, <1>2, <1>3 DEF Typed, Flags, Base
<1>5. DOMAIN r \subseteq Lengths \ {"width", "height"} /\ DOMAIN r \subseteq Fields
      /\ \A f \in DOMAIN r : r[f] \in Nat
  BY DEF Lengths, Fields
<1>6. l = Assign(m, r)
  BY DEF LayoutTiny
<1> HIDE DEF r, l
<1>7. Within(m, l, DOMAIN r) /\ \A f \in DOMAIN r : l[f] = r[f]
  BY <1>1, <1>5, <1>6, Assigned DEF Base
<1>8. Within(l, c, {"neighCols", "routeCols"})
  BY <1>7, RebuiltIs DEF Within
<1> HIDE DEF c
<1>9. /\ \A f \in Flags \cup {"width", "height", "mode"} : c[f] = m[f]
      /\ \A f \in Lengths : c[f] = l[f]
  BY <1>5, <1>7, <1>8 DEF Within, Fields, Flags, Lengths
<1>10. \A f \in Lengths : l[f] \in Nat
  <2> SUFFICES ASSUME NEW f \in Lengths PROVE l[f] \in Nat
    OBVIOUS
  <2>1. CASE f \in DOMAIN r
    BY <1>5, <1>7, <2>1
  <2>2. CASE f \notin DOMAIN r
    <3>1. l[f] = m[f]
      BY <1>7, <2>2 DEF Within, Fields
    <3> QED BY <1>3, <3>1
  <2> QED BY <2>1, <2>2
<1>11. Typed(c)
  BY <1>4, <1>8, <1>9, <1>10 DEF Typed, Within
<1>12. c.width = w /\ c.height = h /\ c.mode = PickMode(w, h)
  BY <1>1, <1>9 DEF Base
<1>13. UpdateSizes(m0, <<w, h>>) = c
  BY UpdateIs DEF c, l, m, Typed
<1> QED BY <1>11, <1>12, <1>13

-----------------------------------------------------------------------------
(* Two models for the same size. *)

(* They are alike in the fields in S. *)
Agree(a, b, S) ==
  /\ DOMAIN a = Fields /\ DOMAIN b = Fields
  /\ \A f \in S : a[f] = b[f]

LEMMA AssignAgree ==
  ASSUME NEW a, NEW b, NEW S, Agree(a, b, S), NEW r, DOMAIN r \subseteq Fields,
         NEW T, T \subseteq S \cup DOMAIN r, T \subseteq Fields
  PROVE  Agree(Assign(a, r), Assign(b, r), T)
BY DEF Assign, Agree

ComposeFields == {"stackSend", "textareaWidth", "inputWidth"}

LEMMA SizeComposeAgree ==
  ASSUME NEW a, NEW b, NEW S, S \subseteq Fields, Agree(a, b, S), a.slimButton = b.slimButton,
         NEW w, a.slimButton = FALSE \/ a.stackSend = b.stackSend
  PROVE  Agree(SizeComposeFields(a, w), SizeComposeFields(b, w), S \cup ComposeFields)
<1> DEFINE contentW == Max({w, 1})
           stack(m) == IF m.slimButton THEN m.stackSend ELSE contentW < inlineMinW
           area == Max({contentW - fieldFrameX, 1})
           field(m) == IF stack(m) THEN area
                       ELSE Max({contentW - buttonGap - buttonRowW - fieldFrameX, 1})
           r(m) == [stackSend |-> stack(m), textareaWidth |-> area,
                    inputWidth |-> Min({field(m), 48})]
<1>1. stack(a) = stack(b)
  OBVIOUS
<1>2. r(a) = r(b)
  BY <1>1
<1>3. DOMAIN r(a) = ComposeFields /\ ComposeFields \subseteq Fields
  BY DEF ComposeFields, Fields, Flags, Lengths
<1>4. SizeComposeFields(a, w) = Assign(a, r(a)) /\ SizeComposeFields(b, w) = Assign(b, r(b))
  BY DEF SizeComposeFields
<1> HIDE DEF r
<1> QED BY <1>2, <1>3, <1>4, AssignAgree

LEMMA CommitsAgree ==
  ASSUME NEW a, NEW b, NEW S, S \subseteq Fields, Agree(a, b, S),
         a.dense = b.dense, a.stackSend = b.stackSend, a.slimButton = b.slimButton,
         a.hideComposeTitle = b.hideComposeTitle, NEW x, NEW y
  PROVE  /\ Agree(CommitCompose(a, x), CommitCompose(b, x), S \cup {"textareaHeight", "composeH"})
         /\ Agree(CommitLogs(a, x), CommitLogs(b, x), S \cup {"viewportHeight", "logsH"})
         /\ Agree(CommitTables(a, x, y), CommitTables(b, x, y),
                  S \cup {"neighTableH", "routeTableH", "neighH", "routesH"})
<1>0. FrameY(a) = FrameY(b)
  BY DEF FrameY
<1>1. Agree(CommitCompose(a, x), CommitCompose(b, x), S \cup {"textareaHeight", "composeH"})
  <2> DEFINE r(m) == [textareaHeight |-> Max({x, 1}),
                      composeH |-> ComposeFixedLines(~m.hideComposeTitle, m.stackSend, m.slimButton)
                                   + Max({x, 1}) + FrameY(m)]
  <2>1. r(a) = r(b)
    BY <1>0
  <2>2. DOMAIN r(a) = {"textareaHeight", "composeH"} /\ DOMAIN r(a) \subseteq Fields
    BY DEF Fields, Lengths
  <2>3. CommitCompose(a, x) = Assign(a, r(a)) /\ CommitCompose(b, x) = Assign(b, r(b))
    BY DEF CommitCompose
  <2> HIDE DEF r
  <2> QED BY <2>1, <2>2, <2>3, AssignAgree
<1>2. Agree(CommitLogs(a, x), CommitLogs(b, x), S \cup {"viewportHeight", "logsH"})
  <2> DEFINE r(m) == [viewportHeight |-> Max({x, 1}), logsH |-> 1 + Max({x, 1}) + FrameY(m)]
  <2>1. r(a) = r(b)
    BY <1>0
  <2>2. DOMAIN r(a) = {"viewportHeight", "logsH"} /\ DOMAIN r(a) \subseteq Fields
    BY DEF Fields, Lengths
  <2>3. CommitLogs(a, x) = Assign(a, r(a)) /\ CommitLogs(b, x) = Assign(b, r(b))
    BY DEF CommitLogs
  <2> HIDE DEF r
  <2> QED BY <2>1, <2>2, <2>3, AssignAgree
<1>3. Agree(CommitTables(a, x, y), CommitTables(b, x, y),
            S \cup {"neighTableH", "routeTableH", "neighH", "routesH"})
  <2> DEFINE r(m) == [neighTableH |-> x, routeTableH |-> y,
                      neighH |-> 1 + x + FrameY(m), routesH |-> 1 + y + FrameY(m)]
  <2>1. r(a) = r(b)
    BY <1>0
  <2>2. DOMAIN r(a) = {"neighTableH", "routeTableH", "neighH", "routesH"}
        /\ DOMAIN r(a) \subseteq Fields
    BY DEF Fields, Lengths
  <2>3. CommitTables(a, x, y) = Assign(a, r(a)) /\ CommitTables(b, x, y) = Assign(b, r(b))
    BY DEF CommitTables
  <2> HIDE DEF r
  <2> QED BY <2>1, <2>2, <2>3, AssignAgree
<1> QED BY <1>1, <1>2, <1>3

LEMMA TablesWideAgree ==
  ASSUME NEW a, NEW b, NEW S, S \subseteq Fields, Agree(a, b, S), NEW x, NEW y
  PROVE  Agree(TablesWide(a, x, y), TablesWide(b, x, y),
               S \cup {"neighW", "routesW", "neighTableW", "routeTableW"})
<1> DEFINE r == [neighW |-> x, routesW |-> y, neighTableW |-> Max({x - frameX, 1}),
                 routeTableW |-> Max({y - frameX, 1})]
<1>1. TablesWide(a, x, y) = Assign(a, r) /\ TablesWide(b, x, y) = Assign(b, r)
  BY DEF TablesWide
<1>2. /\ DOMAIN r = {"neighW", "routesW", "neighTableW", "routeTableW"}
      /\ DOMAIN r \subseteq Fields
  BY DEF Fields, Lengths
<1> HIDE DEF r
<1> QED BY <1>1, <1>2, AssignAgree

LEMMA PlaceSideBySideAgree ==
  ASSUME NEW a, NEW b, NEW S, S \subseteq Fields, Agree(a, b, S), a.width = b.width,
         a.slimButton = FALSE, b.slimButton = FALSE, "slimButton" \in S, NEW x, NEW y
  PROVE  Agree(PlaceSideBySide(a, x, y), PlaceSideBySide(b, x, y), S \cup TopFields)
<1> DEFINE minPanel == inlineMinW + frameX
           p1(m) == Min({x + fieldFrameX + buttonGap + buttonRowW + frameX, m.width - 1 - y})
           p2(m) == IF p1(m) < minPanel /\ m.width - 17 >= minPanel THEN minPanel ELSE p1(m)
           p3(m) == IF p2(m) < frameX + 8 THEN Max({m.width \div 2, 1}) ELSE p2(m)
           p4(m) == IF p3(m) > m.width - 11 THEN Max({m.width - 11, 1}) ELSE p3(m)
           right(m) == m.width - 1 - p4(m)
           panel(m) == IF right(m) < 1 THEN Max({m.width - 2, 1}) ELSE p4(m)
           logs(m) == Max({right(m), 1})
           r(m) == [composeW |-> panel(m), logsW |-> logs(m),
                    viewportWidth |-> Max({logs(m) - frameX, 1})]
<1>1. PlaceSideBySide(a, x, y) = SizeComposeFields(Assign(a, r(a)), panel(a) - frameX)
  BY DEF PlaceSideBySide
<1>2. PlaceSideBySide(b, x, y) = SizeComposeFields(Assign(b, r(b)), panel(b) - frameX)
  BY DEF PlaceSideBySide
<1>3. DOMAIN r(a) = {"composeW", "logsW", "viewportWidth"} /\ DOMAIN r(a) \subseteq Fields
  BY DEF Fields, Lengths
<1>4. p1(a) = p1(b)
  OBVIOUS
<1> HIDE DEF p1
<1>5. p2(a) = p2(b)
  BY <1>4
<1> HIDE DEF p2
<1>6. p3(a) = p3(b)
  BY <1>5
<1> HIDE DEF p3
<1>7. p4(a) = p4(b)
  BY <1>6
<1> HIDE DEF p4
<1>8. right(a) = right(b)
  BY <1>7
<1> HIDE DEF right
<1>9. panel(a) = panel(b) /\ logs(a) = logs(b)
  BY <1>7, <1>8
<1> HIDE DEF panel, logs
<1>10. r(a) = r(b)
  BY <1>9
<1> HIDE DEF r
<1> DEFINE T == S \cup {"composeW", "logsW", "viewportWidth"}
           na == Assign(a, r(a))
           nb == Assign(b, r(b))
<1>11. Agree(na, nb, T) /\ T \subseteq Fields
  BY <1>3, <1>10, AssignAgree
<1>14. na.slimButton = FALSE /\ nb.slimButton = FALSE
  <2>1. Within(a, na, DOMAIN r(a)) /\ Within(b, nb, DOMAIN r(a))
    BY <1>3, <1>10, Assigned DEF Agree
  <2> HIDE DEF na, nb
  <2>2. "slimButton" \in Fields \ DOMAIN r(a)
    BY <1>3
  <2> QED BY <2>1, <2>2 DEF Within
<1> HIDE DEF na, nb
<1>12. Agree(SizeComposeFields(na, panel(a) - frameX), SizeComposeFields(nb, panel(a) - frameX),
             T \cup ComposeFields)
  BY <1>11, <1>14, SizeComposeAgree
<1>13. T \cup ComposeFields = S \cup TopFields
  BY DEF ComposeFields, TopFields
<1> QED BY <1>1, <1>2, <1>9, <1>12, <1>13 DEF na, nb

LEMMA TopWideAgree ==
  ASSUME NEW a, NEW b, NEW S, S \subseteq Fields, Agree(a, b, S), a.width = b.width,
         a.slimButton = FALSE, b.slimButton = FALSE, "slimButton" \in S
  PROVE  Agree(TopWide(a), TopWide(b), S \cup TopFields)
<1> DEFINE r(m) == [composeW |-> m.width, logsW |-> m.width,
                    viewportWidth |-> Max({m.width - frameX, 1})]
<1>1. TopWide(a) = SizeComposeFields(Assign(a, r(a)), a.width - frameX)
  BY DEF TopWide
<1>2. TopWide(b) = SizeComposeFields(Assign(b, r(b)), b.width - frameX)
  BY DEF TopWide
<1>3. DOMAIN r(a) = {"composeW", "logsW", "viewportWidth"} /\ DOMAIN r(a) \subseteq Fields
  BY DEF Fields, Lengths
<1>10. r(a) = r(b)
  OBVIOUS
<1> HIDE DEF r
<1> DEFINE T == S \cup {"composeW", "logsW", "viewportWidth"}
           na == Assign(a, r(a))
           nb == Assign(b, r(b))
<1>11. Agree(na, nb, T) /\ T \subseteq Fields
  BY <1>3, <1>10, AssignAgree
<1>14. na.slimButton = FALSE /\ nb.slimButton = FALSE
  <2>1. Within(a, na, DOMAIN r(a)) /\ Within(b, nb, DOMAIN r(a))
    BY <1>3, <1>10, Assigned DEF Agree
  <2> HIDE DEF na, nb
  <2>2. "slimButton" \in Fields \ DOMAIN r(a)
    BY <1>3
  <2> QED BY <2>1, <2>2 DEF Within
<1> HIDE DEF na, nb
<1>12. Agree(SizeComposeFields(na, a.width - frameX), SizeComposeFields(nb, a.width - frameX),
             T \cup ComposeFields)
  BY <1>11, <1>14, SizeComposeAgree
<1>13. T \cup ComposeFields = S \cup TopFields
  BY DEF ComposeFields, TopFields
<1> QED BY <1>1, <1>2, <1>12, <1>13 DEF na, nb

LEMMA BaseAgree ==
  ASSUME NEW a, NEW b, NEW w, NEW h, Base(a, w, h), Base(b, w, h)
  PROVE  /\ Agree(a, b, Decided) /\ Decided \subseteq Fields /\ "slimButton" \in Decided
         /\ a.slimButton = FALSE /\ b.slimButton = FALSE
         /\ a.width = b.width /\ a.height = b.height
BY DEF Base, Agree, Decided, Fields, Flags, Lengths

(* All the fields but the columns of the tables. *)
Placed == Fields \ {"neighCols", "routeCols"}
TableCols == {"neighW", "routesW", "neighTableW", "routeTableW"}
TableRows == {"neighTableH", "routeTableH", "neighH", "routesH"}
Columned == Decided \cup TopFields \cup TableCols

(* What the heights are found from. *)
Alike(a, b) ==
  /\ Agree(a, b, Columned)
  /\ a.height = b.height /\ a.dense = b.dense /\ a.stackSend = b.stackSend
  /\ a.slimButton = b.slimButton /\ a.hideComposeTitle = b.hideComposeTitle

LEMMA ColumnedAlike ==
  ASSUME NEW a, NEW b, Agree(a, b, Columned)
  PROVE  Alike(a, b)
BY DEF Alike, Agree, Columned, Decided, TopFields

LEMMA ColumnedPlaced ==
  /\ Columned \subseteq Fields
  /\ Placed \subseteq Columned \cup {"textareaHeight", "composeH"}
                               \cup {"viewportHeight", "logsH"} \cup TableRows
BY DEF Placed, Columned, Decided, TopFields, TableCols, TableRows, Fields, Flags, Lengths

(* The same rows are free in two models that are alike. *)
LEMMA TotalsAlike ==
  ASSUME NEW a, NEW b, Alike(a, b)
  PROVE  \A x, y, z, v :
           /\ WideTotal(a, x, y, z) = WideTotal(b, x, y, z)
           /\ SplitTotal(a, x, y, z) = SplitTotal(b, x, y, z)
           /\ StackTotal(a, x, y, z, v) = StackTotal(b, x, y, z, v)
<1>1. FrameY(a) = FrameY(b)
  BY DEF FrameY, Alike
<1>2. ASSUME NEW x PROVE BoxTotal(a, x) = BoxTotal(b, x)
  BY <1>1 DEF BoxTotal
<1>3. ASSUME NEW x PROVE ComposeTotal(a, x) = ComposeTotal(b, x)
  BY <1>1 DEF ComposeTotal, Alike
<1> QED BY <1>2, <1>3 DEF WideTotal, SplitTotal, StackTotal

LEMMA WideAgree ==
  ASSUME NEW a, NEW b, NEW w, NEW h, Base(a, w, h), Base(b, w, h)
  PROVE  Agree(LayoutWide(a), LayoutWide(b), Placed)
<1> DEFINE p(m) == PlaceSideBySide(m, 42, 30)
           q(m) == TablesWide(p(m), m.width, m.width)
<1>1. Agree(q(a), q(b), Columned)
  <2>1. Agree(p(a), p(b), Decided \cup TopFields)
    BY BaseAgree, PlaceSideBySideAgree
  <2> HIDE DEF p
  <2>2. Decided \cup TopFields \subseteq Fields
    BY ColumnedPlaced DEF Columned
  <2>3. Agree(TablesWide(p(a), a.width, a.width), TablesWide(p(b), a.width, a.width),
              (Decided \cup TopFields) \cup TableCols)
    BY <2>1, <2>2, TablesWideAgree DEF TableCols
  <2> QED BY <2>3, BaseAgree DEF Columned
<1> DEFINE Rws(m, n, r) == {x \in Nat : WideTotal(m, x, n, r) <= m.height}
           Prs(m, t) == {z \in Nat \X Nat : WideTotal(m, t, z[1], z[2]) <= m.height}
           ta(m) == Grow(1, 3, Rws(m, 3, 3))
           rows(m) == GrowTables(Prs(m, ta(m)))
           tb(m) == Grow(ta(m), 8, Rws(m, rows(m)[1], rows(m)[2]))
           c(m) == CommitCompose(m, tb(m))
           top(m) == [logsH |-> c(m).composeH,
                      viewportHeight |-> Max({c(m).composeH - FrameY(c(m)) - 1, 1})]
           l(m) == CommitTables(Assign(c(m), top(m)), rows(m)[1], rows(m)[2])
<1>0. LayoutWide(a) = l(q(a)) /\ LayoutWide(b) = l(q(b))
  BY DEF LayoutWide
<1> HIDE DEF q
<1>2. PICK m, n : m = q(a) /\ n = q(b) /\ Alike(m, n)
  BY <1>1, ColumnedAlike
<1>3. ASSUME NEW x, NEW y PROVE Rws(m, x, y) = Rws(n, x, y) /\ Prs(m, x) = Prs(n, x)
  BY <1>2, TotalsAlike DEF Alike
<1> HIDE DEF Rws, Prs
<1>4. ta(m) = ta(n)
  BY <1>3
<1> HIDE DEF ta
<1>5. rows(m) = rows(n)
  BY <1>3, <1>4
<1> HIDE DEF rows
<1>6. tb(m) = tb(n)
  BY <1>3, <1>4, <1>5
<1> HIDE DEF tb
<1> DEFINE S1 == Columned \cup {"textareaHeight", "composeH"}
           S2 == S1 \cup {"viewportHeight", "logsH"}
<1>7. Agree(c(m), c(n), S1)
  BY <1>2, <1>6, CommitsAgree, ColumnedPlaced DEF Alike
<1> HIDE DEF c
<1>8. top(m) = top(n)
  <2>1. c(m).composeH = c(n).composeH /\ c(m).dense = c(n).dense
    BY <1>7 DEF Agree, Columned, Decided
  <2>2. FrameY(c(m)) = FrameY(c(n))
    BY <2>1 DEF FrameY
  <2> QED BY <2>1, <2>2
<1>9. DOMAIN top(m) = {"viewportHeight", "logsH"} /\ DOMAIN top(m) \subseteq Fields
  BY DEF Fields, Lengths
<1> HIDE DEF top
<1>10. S1 \subseteq Fields /\ S2 \subseteq Fields
  BY ColumnedPlaced DEF Fields, Lengths
<1>11. Agree(Assign(c(m), top(m)), Assign(c(n), top(n)), S2)
  BY <1>7, <1>8, <1>9, <1>10, AssignAgree
<1>12. Agree(l(m), l(n), S2 \cup TableRows)
  <2> DEFINE d == Assign(c(m), top(m))
             e == Assign(c(n), top(n))
  <2>1. Agree(d, e, S2)
    BY <1>11
  <2> HIDE DEF d, e
  <2>2. /\ d.dense = e.dense /\ d.stackSend = e.stackSend /\ d.slimButton = e.slimButton
        /\ d.hideComposeTitle = e.hideComposeTitle
    BY <2>1 DEF Agree, Columned, Decided, TopFields
  <2>3. Agree(CommitTables(d, rows(m)[1], rows(m)[2]), CommitTables(e, rows(m)[1], rows(m)[2]),
              S2 \cup TableRows)
    BY <1>10, <2>1, <2>2, CommitsAgree DEF TableRows
  <2> QED BY <1>5, <2>3 DEF d, e
<1> HIDE DEF l
<1>13. Placed \subseteq S2 \cup TableRows
  BY ColumnedPlaced
<1> QED BY <1>0, <1>2, <1>12, <1>13 DEF Agree

(* Compose panel, logs and tables once their heights are found. *)
LEMMA CommittedAgree ==
  ASSUME NEW m, NEW n, Alike(m, n), NEW ta, NEW vp, NEW x, NEW y
  PROVE  Agree(CommitTables(CommitLogs(CommitCompose(m, ta), vp), x, y),
               CommitTables(CommitLogs(CommitCompose(n, ta), vp), x, y), Placed)
<1> DEFINE S1 == Columned \cup {"textareaHeight", "composeH"}
           S2 == S1 \cup {"viewportHeight", "logsH"}
           c(k) == CommitCompose(k, ta)
           d(k) == CommitLogs(c(k), vp)
           l(k) == CommitTables(d(k), x, y)
<1>1. S1 \subseteq Fields /\ S2 \subseteq Fields
  BY ColumnedPlaced DEF Fields, Lengths
<1>2. Agree(c(m), c(n), S1)
  BY CommitsAgree, ColumnedPlaced DEF Alike
<1> HIDE DEF c
<1>3. /\ c(m).dense = c(n).dense /\ c(m).stackSend = c(n).stackSend
      /\ c(m).slimButton = c(n).slimButton /\ c(m).hideComposeTitle = c(n).hideComposeTitle
  BY <1>2 DEF Agree, Columned, Decided, TopFields
<1>4. Agree(d(m), d(n), S2)
  BY <1>1, <1>2, <1>3, CommitsAgree
<1> HIDE DEF d
<1>5. /\ d(m).dense = d(n).dense /\ d(m).stackSend = d(n).stackSend
      /\ d(m).slimButton = d(n).slimButton /\ d(m).hideComposeTitle = d(n).hideComposeTitle
  BY <1>4 DEF Agree, Columned, Decided, TopFields
<1>6. Agree(l(m), l(n), S2 \cup TableRows)
  BY <1>1, <1>4, <1>5, CommitsAgree DEF TableRows
<1> HIDE DEF l
<1>7. Placed \subseteq S2 \cup TableRows
  BY ColumnedPlaced
<1>8. Agree(l(m), l(n), Placed)
  BY <1>6, <1>7 DEF Agree
<1> QED BY <1>8 DEF l, d, c

(* Compose panel and logs over the whole width, the tables below. *)
LEMMA TopTablesAlike ==
  ASSUME NEW a, NEW b, NEW w, NEW h, Base(a, w, h), Base(b, w, h), NEW x, NEW y
  PROVE  Alike(TablesWide(TopWide(a), x, y), TablesWide(TopWide(b), x, y))
<1>1. Agree(TopWide(a), TopWide(b), Decided \cup TopFields)
  BY BaseAgree, TopWideAgree
<1>2. Decided \cup TopFields \subseteq Fields
  BY ColumnedPlaced DEF Columned
<1>3. Agree(TablesWide(TopWide(a), x, y), TablesWide(TopWide(b), x, y),
            (Decided \cup TopFields) \cup TableCols)
  BY <1>1, <1>2, TablesWideAgree DEF TableCols
<1> QED BY <1>3, ColumnedAlike DEF Columned

LEMMA SplitAgree ==
  ASSUME NEW a, NEW b, NEW w, NEW h, Base(a, w, h), Base(b, w, h)
  PROVE  Agree(LayoutSplit(a), LayoutSplit(b), Placed)
<1> DEFINE left(k) == Max({(k.width - 1) \div 2, 1})
           right(k) == Max({k.width - 1 - (k.width - 1) \div 2, 1})
           q(k) == TablesWide(TopWide(k), left(k), right(k))
           Ta(k, vp, t) == {x \in Nat : SplitTotal(k, x, vp, t) <= k.height}
           Vp(k, ta, t) == {x \in Nat : SplitTotal(k, ta, x, t) <= k.height}
           T(k, ta, vp) == {x \in Nat : SplitTotal(k, ta, vp, x) <= k.height}
           ta1(k) == Grow(1, 2, Ta(k, 1, 3))
           vp1(k) == Grow(1, 4, Vp(k, ta1(k), 3))
           ta2(k) == Grow(ta1(k), 4, Ta(k, vp1(k), 3))
           vp2(k) == Grow(vp1(k), 8, Vp(k, ta2(k), 3))
           tH(k) == Grow(3, k.height, T(k, ta2(k), vp2(k)))
           vp3(k) == Grow(vp2(k), k.height, Vp(k, ta2(k), tH(k)))
           ta3(k) == Grow(ta2(k), 8, Ta(k, vp3(k), tH(k)))
           l(k) == CommitTables(CommitLogs(CommitCompose(k, ta3(k)), vp3(k)), tH(k), tH(k))
<1>0. LayoutSplit(a) = l(q(a)) /\ LayoutSplit(b) = l(q(b))
  BY DEF LayoutSplit
<1>1. left(a) = left(b) /\ right(a) = right(b)
  BY BaseAgree
<1> HIDE DEF left, right
<1>2. PICK m, n : m = q(a) /\ n = q(b) /\ Alike(m, n)
  BY <1>1, TopTablesAlike
<1> HIDE DEF q
<1>3. ASSUME NEW x, NEW y
      PROVE  Ta(m, x, y) = Ta(n, x, y) /\ Vp(m, x, y) = Vp(n, x, y) /\ T(m, x, y) = T(n, x, y)
  BY <1>2, TotalsAlike DEF Alike
<1> HIDE DEF Ta, Vp, T
<1>4. ta1(m) = ta1(n)
  BY <1>3
<1> HIDE DEF ta1
<1>5. vp1(m) = vp1(n)
  BY <1>3, <1>4
<1> HIDE DEF vp1
<1>6. ta2(m) = ta2(n)
  BY <1>3, <1>4, <1>5
<1> HIDE DEF ta2
<1>7. vp2(m) = vp2(n)
  BY <1>3, <1>5, <1>6
<1> HIDE DEF vp2
<1>8. tH(m) = tH(n)
  BY <1>2, <1>3, <1>6, <1>7 DEF Alike
<1> HIDE DEF tH
<1>9. vp3(m) = vp3(n)
  BY <1>2, <1>3, <1>6, <1>7, <1>8 DEF Alike
<1> HIDE DEF vp3
<1>10. ta3(m) = ta3(n)
  BY <1>3, <1>6, <1>8, <1>9
<1> HIDE DEF ta3
<1>11. Agree(l(m), l(n), Placed)
  BY <1>2, <1>8, <1>9, <1>10, CommittedAgree
<1> QED BY <1>0, <1>2, <1>11

LEMMA StackAgree ==
  ASSUME NEW a, NEW b, NEW w, NEW h, Base(a, w, h), Base(b, w, h)
  PROVE  Agree(LayoutStack(a), LayoutStack(b), Placed)
<1> DEFINE q(k) == TablesWide(TopWide(k), k.width, k.width)
           Ta(k, vp, n, r) == {x \in Nat : StackTotal(k, x, vp, n, r) <= k.height}
           Vp(k, ta, n, r) == {x \in Nat : StackTotal(k, ta, x, n, r) <= k.height}
           Prs(k, ta, vp) == {z \in Nat \X Nat : StackTotal(k, ta, vp, z[1], z[2]) <= k.height}
           vp1(k) == Grow(1, 4, Vp(k, 1, 3, 3))
           ta1(k) == Grow(1, 3, Ta(k, vp1(k), 3, 3))
           rows(k) == GrowTables(Prs(k, ta1(k), vp1(k)))
           vp2(k) == Grow(vp1(k), k.height, Vp(k, ta1(k), rows(k)[1], rows(k)[2]))
           ta2(k) == Grow(ta1(k), 8, Ta(k, vp2(k), rows(k)[1], rows(k)[2]))
           l(k) == CommitTables(CommitLogs(CommitCompose(k, ta2(k)), vp2(k)),
                                rows(k)[1], rows(k)[2])
<1>0. LayoutStack(a) = l(q(a)) /\ LayoutStack(b) = l(q(b))
  BY DEF LayoutStack
<1>1. Alike(q(a), q(b))
  <2>1. a.width = b.width
    BY BaseAgree
  <2>2. Alike(TablesWide(TopWide(a), a.width, a.width), TablesWide(TopWide(b), a.width, a.width))
    BY TopTablesAlike
  <2> QED BY <2>1, <2>2
<1>2. PICK m, n : m = q(a) /\ n = q(b) /\ Alike(m, n)
  BY <1>1
<1> HIDE DEF q
<1>3. ASSUME NEW x, NEW y, NEW z
      PROVE  Ta(m, x, y, z) = Ta(n, x, y, z) /\ Vp(m, x, y, z) = Vp(n, x, y, z)
             /\ Prs(m, x, y) = Prs(n, x, y)
  BY <1>2, TotalsAlike DEF Alike
<1> HIDE DEF Ta, Vp, Prs
<1>4. vp1(m) = vp1(n)
  BY <1>3
<1> HIDE DEF vp1
<1>5. ta1(m) = ta1(n)
  BY <1>3, <1>4
<1> HIDE DEF ta1
<1>6. rows(m) = rows(n)
  BY <1>3, <1>4, <1>5
<1> HIDE DEF rows
<1>7. vp2(m) = vp2(n)
  BY <1>2, <1>3, <1>4, <1>5, <1>6 DEF Alike
<1> HIDE DEF vp2
<1>8. ta2(m) = ta2(n)
  BY <1>3, <1>5, <1>6, <1>7
<1> HIDE DEF ta2
<1>9. Agree(l(m), l(n), Placed)
  BY <1>2, <1>6, <1>7, <1>8, CommittedAgree
<1> QED BY <1>0, <1>2, <1>9

LEMMA CompactAgree ==
  ASSUME NEW a, NEW b, NEW w \in Nat, NEW h \in Nat, w >= 24, h >= 10,
         Base(a, w, h), Base(b, w, h)
  PROVE  Agree(LayoutCompact(a), LayoutCompact(b), Placed)
<1> DEFINE l == LayoutCompact(a)
           k == LayoutCompact(b)
<1>1. DOMAIN l = Fields /\ CompactFlags(a, l, h) /\ CompactSizes(l, w, h)
  BY LayoutCompactIs
<1>2. DOMAIN k = Fields /\ CompactFlags(b, k, h) /\ CompactSizes(k, w, h)
  BY LayoutCompactIs
<1> HIDE DEF l, k
<1>3. \A f \in {"width", "height", "mode", "dense"} : l[f] = k[f]
  BY <1>1, <1>2 DEF CompactFlags, Base
<1>4. /\ l.slimButton = k.slimButton /\ l.stackSend = k.stackSend
      /\ l.showHint = k.showHint /\ l.hideComposeTitle = k.hideComposeTitle
  BY <1>1, <1>2 DEF CompactFlags
<1>5. /\ l.composeW = k.composeW /\ l.logsW = k.logsW /\ l.neighW = k.neighW
      /\ l.routesW = k.routesW /\ l.composeH = k.composeH /\ l.logsH = k.logsH
      /\ l.neighH = k.neighH /\ l.routesH = k.routesH
      /\ l.viewportWidth = k.viewportWidth /\ l.neighTableW = k.neighTableW
      /\ l.routeTableW = k.routeTableW /\ l.viewportHeight = k.viewportHeight
      /\ l.neighTableH = k.neighTableH /\ l.routeTableH = k.routeTableH
      /\ l.textareaWidth = k.textareaWidth /\ l.inputWidth = k.inputWidth
      /\ l.textareaHeight = k.textareaHeight
  BY <1>1, <1>2 DEF CompactSizes
<1>6. \A f \in Placed : l[f] = k[f]
  BY <1>3, <1>4, <1>5 DEF Placed, Fields, Flags, Lengths
<1> QED BY <1>1, <1>2, <1>6 DEF Agree, l, k

(* The columns depend on the widths of the tables. *)
LEMMA RebuiltAgree ==
  ASSUME NEW l, NEW k, Agree(l, k, Placed)
  PROVE  RebuildTables(l) = RebuildTables(k)
<1> DEFINE r(m) == [neighCols |-> FitColumns(m.neighTableW, neighbourSpecs),
                    routeCols |-> FitColumns(m.routeTableW, routeSpecs)]
<1>1. r(l) = r(k)
  BY DEF Agree, Placed, Fields, Lengths
<1>2. DOMAIN r(l) = {"neighCols", "routeCols"}
  OBVIOUS
<1>3. RebuildTables(l) = Assign(l, r(l)) /\ RebuildTables(k) = Assign(k, r(k))
  BY DEF RebuildTables
<1> HIDE DEF r
<1>4. Agree(Assign(l, r(l)), Assign(k, r(k)), Fields)
  BY <1>1, <1>2, AssignAgree DEF Placed, Fields
<1> QED BY <1>3, <1>4 DEF Agree, Assign

(* A drawn layout depends on the size alone. *)
LEMMA UpdateForgets ==
  ASSUME NEW m0, DOMAIN m0 = Fields, NEW m1, DOMAIN m1 = Fields,
         NEW w \in Nat, NEW h \in Nat, PickMode(w, h) # "tiny"
  PROVE  UpdateSizes(m0, <<w, h>>) = UpdateSizes(m1, <<w, h>>)
<1> DEFINE a == Prepared(m0, w, h)
           b == Prepared(m1, w, h)
<1>1. Base(a, w, h) /\ Base(b, w, h)
  BY PreparedIs
<1> HIDE DEF a, b
<1>2. PickMode(w, h) \in {"wide", "split", "stack", "compact"} /\ w >= 24 /\ h >= 10
  BY DEF PickMode
<1>3. CASE PickMode(w, h) = "wide"
  <2>1. RebuildTables(LayoutWide(a)) = RebuildTables(LayoutWide(b))
    BY <1>1, WideAgree, RebuiltAgree
  <2> QED BY <1>3, <2>1, UpdateIs DEF a, b
<1>4. CASE PickMode(w, h) = "split"
  <2>1. RebuildTables(LayoutSplit(a)) = RebuildTables(LayoutSplit(b))
    BY <1>1, SplitAgree, RebuiltAgree
  <2> QED BY <1>4, <2>1, UpdateIs DEF a, b
<1>5. CASE PickMode(w, h) = "stack"
  <2>1. RebuildTables(LayoutStack(a)) = RebuildTables(LayoutStack(b))
    BY <1>1, StackAgree, RebuiltAgree
  <2> QED BY <1>5, <2>1, UpdateIs DEF a, b
<1>6. CASE PickMode(w, h) = "compact"
  <2>1. RebuildTables(LayoutCompact(a)) = RebuildTables(LayoutCompact(b))
    BY <1>1, <1>2, CompactAgree, RebuiltAgree
  <2> QED BY <1>6, <2>1, UpdateIs DEF a, b
<1> QED BY <1>2, <1>3, <1>4, <1>5, <1>6
=============================================================================
