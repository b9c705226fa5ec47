-------------------------- MODULE OrthogonalRouting -------------------------
(***************************************************************************)
(* The routes of connections: RoutingHelpers and                           *)
(* OrthogonalHeuristicStrategy.                                            *)
(*                                                                         *)
(* Coordinates are integers, y down, and sizes are multiples of eight, for *)
(* which the code's comparisons of reals are exact.  A component is a      *)
(* record of its center x, y and its size w, h; a route is a sequence of   *)
(* points <<x, y>>.                                                        *)
(***************************************************************************)
EXTENDS Integers, SequencesExt, FiniteSets, FiniteSetsExt

SideAuto == -1
SideTop == 0
SideRight == 1
SideBottom == 2
SideLeft == 3

Abs(n) == IF n < 0 THEN -n ELSE n

X(point) == point[1]
Y(point) == point[2]

LeftOf(c)   == c.x - c.w \div 2
RightOf(c)  == c.x + c.w \div 2
TopOf(c)    == c.y - c.h \div 2
BottomOf(c) == c.y + c.h \div 2

IsHorizontalSide(side) == side \in {SideLeft, SideRight}

(***************************************************************************)
(* Where a route starts and ends.                                          *)
(***************************************************************************)
ResolvedSide(preferred, source, target, isSource) ==
  LET dx == target.x - source.x
      dy == target.y - source.y
  IN  IF preferred # SideAuto THEN preferred
      ELSE IF Abs(dx) >= Abs(dy) THEN (IF (dx >= 0) = isSource THEN SideRight ELSE SideLeft)
      ELSE IF (dy >= 0) = isSource THEN SideBottom ELSE SideTop

Anchor(c, side) ==
  CASE side = SideTop                -> <<c.x, TopOf(c)>>
    [] side = SideRight              -> <<RightOf(c), c.y>>
    [] side = SideBottom             -> <<c.x, BottomOf(c)>>
    [] side \in {SideLeft, SideAuto} -> <<LeftOf(c), c.y>>

Outward(point, side, distance) ==
  CASE side = SideTop                -> <<X(point), Y(point) - distance>>
    [] side = SideRight              -> <<X(point) + distance, Y(point)>>
    [] side = SideBottom             -> <<X(point), Y(point) + distance>>
    [] side \in {SideLeft, SideAuto} -> <<X(point) - distance, Y(point)>>

Along(point, side, offset) ==
  IF IsHorizontalSide(side) THEN <<X(point), Y(point) + offset>>
  ELSE IF side = SideAuto THEN point
  ELSE <<X(point) + offset, Y(point)>>

(***************************************************************************)
(* buildConnectionRouteMeta: a side of a component at which connections    *)
(* both leave and arrive keeps the two kinds apart.                        *)
(***************************************************************************)
FlowBand == 7

SourceSide(g, k) == ResolvedSide(g.links[k].sourceSide, g.at[g.links[k].source],
                                 g.at[g.links[k].target], TRUE)
TargetSide(g, k) == ResolvedSide(g.links[k].targetSide, g.at[g.links[k].source],
                                 g.at[g.links[k].target], FALSE)

\* Mutant of RouteMeta: only the components are compared, not their sides.
RouteMetaBySourceOnly(g, k) ==
  [sourceSide |-> SourceSide(g, k), targetSide |-> TargetSide(g, k),
   sourceOffset |-> 0, targetOffset |-> 0]

RouteMeta(g, k) ==
  LET known == {j \in DOMAIN g.links : {g.links[j].source, g.links[j].target} \subseteq DOMAIN g.at}
      Leaves(c, side)  == \E j \in known : g.links[j].source = c /\ SourceSide(g, j) = side
      Arrives(c, side) == \E j \in known : g.links[j].target = c /\ TargetSide(g, j) = side
  IN  [sourceSide   |-> SourceSide(g, k),
       targetSide   |-> TargetSide(g, k),
       sourceOffset |-> IF Arrives(g.links[k].source, SourceSide(g, k)) THEN -FlowBand ELSE 0,
       targetOffset |-> IF Leaves(g.links[k].target, TargetSide(g, k)) THEN FlowBand ELSE 0]

(***************************************************************************)
(* Polylines.                                                              *)
(***************************************************************************)
InLine(a, b, c) == (X(a) = X(b) /\ X(b) = X(c)) \/ (Y(a) = Y(b) /\ Y(b) = Y(c))

WithoutFirstInner(points) ==
  LET inner == {i \in 2..Len(points) - 1 : InLine(points[i - 1], points[i], points[i + 1])}
  IN  IF inner = {} THEN points ELSE RemoveAt(points, Min(inner))

WithoutInner(points) ==
  LET after[round \in 0..Len(points)] ==
        IF round = 0 THEN points ELSE WithoutFirstInner(after[round - 1])
  IN  after[Len(points)]

WithoutRepeats(points) ==
  LET first[n \in 0..Len(points)] ==
        IF n = 0 THEN <<>>
        ELSE IF n > 1 /\ points[n] = points[n - 1] THEN first[n - 1]
        ELSE Append(first[n - 1], points[n])
  IN  first[Len(points)]

SimplifyPolyline(points) == WithoutInner(WithoutRepeats(points))

\* The segment from a to b passes through the inside of c.
EntersInterior(a, b, c) ==
  IF X(a) = X(b)
  THEN /\ LeftOf(c) < X(a) /\ X(a) < RightOf(c)
       /\ Max({Y(a), Y(b)}) > TopOf(c) /\ Min({Y(a), Y(b)}) < BottomOf(c)
  ELSE IF Y(a) = Y(b)
  THEN /\ TopOf(c) < Y(a) /\ Y(a) < BottomOf(c)
       /\ Max({X(a), X(b)}) > LeftOf(c) /\ Min({X(a), X(b)}) < RightOf(c)
  ELSE TRUE

UsesSideNormal(anchor, other, side) ==
  CASE side = SideTop    -> X(other) = X(anchor) /\ Y(other) < Y(anchor)
    [] side = SideRight  -> Y(other) = Y(anchor) /\ X(other) > X(anchor)
    [] side = SideBottom -> X(other) = X(anchor) /\ Y(other) > Y(anchor)
    [] side = SideLeft   -> Y(other) = Y(anchor) /\ X(other) < X(anchor)
    [] side = SideAuto   -> TRUE

RouteIsValid(points, at, source, target, sourceSide, targetSide) ==
  \/ Len(points) < 2
  \/ /\ UsesSideNormal(points[1], points[2], sourceSide)
     /\ UsesSideNormal(Last(points), points[Len(points) - 1], targetSide)
     /\ \A i \in 2..Len(points) :
          /\ X(points[i - 1]) = X(points[i]) \/ Y(points[i - 1]) = Y(points[i])
          /\ \A c \in DOMAIN at :
               \/ c = source /\ i = 2
               \/ c = target /\ i = Len(points)
               \/ ~EntersInterior(points[i - 1], points[i], at[c])

LRoute(start, end, horizontalFirst) ==
  SimplifyPolyline(<<start,
                     IF horizontalFirst THEN <<X(end), Y(start)>> ELSE <<X(start), Y(end)>>,
                     end>>)

DoglegRoute(start, end, vertical, corridor) ==
  SimplifyPolyline(
    IF vertical THEN <<start, <<corridor, Y(start)>>, <<corridor, Y(end)>>, end>>
    ELSE <<start, <<X(start), corridor>>, <<X(end), corridor>>, end>>)

Kink(start, via, end) == SimplifyPolyline(<<start, via, end>>)

(***************************************************************************)
(* The candidates, in the order in which they are tried.                   *)
(***************************************************************************)
Clearance(source) == Max({24, Min({source.w, source.h}) \div 4})

Candidates(source, target, sourceSide, targetSide, start, end) ==
  LET gap       == Clearance(source)
      left      == Min({LeftOf(source), LeftOf(target)}) - gap
      right     == Max({RightOf(source), RightOf(target)}) + gap
      top       == Min({TopOf(source), TopOf(target)}) - gap
      bottom    == Max({BottomOf(source), BottomOf(target)}) + gap
      sourceOut == Outward(start, sourceSide, gap)
      targetOut == Outward(end, targetSide, gap)
      Near(out, side) ==
        IF IsHorizontalSide(side) THEN DoglegRoute(start, end, TRUE, X(out))
        ELSE DoglegRoute(start, end, FALSE, Y(out))
      OuterX(side) == IF side = SideLeft THEN left ELSE right
      OuterY(side) == IF side = SideTop THEN top ELSE bottom
  IN  << SimplifyPolyline(<<start, end>>),
         LRoute(start, end, TRUE),
         LRoute(start, end, FALSE),
         Near(sourceOut, sourceSide),
         Kink(start, sourceOut, end),
         Near(targetOut, targetSide),
         Kink(start, targetOut, end),
         DoglegRoute(start, end, TRUE, OuterX(sourceSide)),
         DoglegRoute(start, end, TRUE, OuterX(targetSide)),
         DoglegRoute(start, end, FALSE, OuterY(sourceSide)),
         DoglegRoute(start, end, FALSE, OuterY(targetSide)),
         DoglegRoute(start, end, TRUE, left),
         DoglegRoute(start, end, TRUE, right),
         DoglegRoute(start, end, FALSE, top),
         DoglegRoute(start, end, FALSE, bottom) >>

(***************************************************************************)
(* compute for connection k: the requested sides, then the source's side   *)
(* left free, then the target's, then both; a straight line if all fail.   *)
(* The result is the set of routes the code may give: when no candidate of *)
(* an attempt fits, the grid search (below) may find a valid route, which  *)
(* is Grid, a route not told apart further.                                *)
(***************************************************************************)
Grid == <<"grid">>

Ends(g, k, sourceSide, targetSide) ==
  LET meta == RouteMeta(g, k)
  IN  <<Along(Anchor(g.at[g.links[k].source], sourceSide), sourceSide,
              IF sourceSide = meta.sourceSide THEN meta.sourceOffset ELSE 0),
        Along(Anchor(g.at[g.links[k].target], targetSide), targetSide,
              IF targetSide = meta.targetSide THEN meta.targetOffset ELSE 0)>>

\* The first candidate that fits, with its sides; none is the empty route.
TryRoute(g, k, requestedSource, requestedTarget) ==
  LET source     == g.at[g.links[k].source]
      target     == g.at[g.links[k].target]
      sourceSide == ResolvedSide(requestedSource, source, target, TRUE)
      targetSide == ResolvedSide(requestedTarget, source, target, FALSE)
      ends       == Ends(g, k, sourceSide, targetSide)
      candidates == Candidates(source, target, sourceSide, targetSide, ends[1], ends[2])
      fits       == SelectInSeq(candidates, LAMBDA points :
                      /\ Len(points) >= 2
                      /\ RouteIsValid(points, g.at, g.links[k].source, g.links[k].target,
                                      sourceSide, targetSide))
  IN  [sourceSide |-> sourceSide, targetSide |-> targetSide,
       points     |-> IF fits = 0 THEN <<>> ELSE candidates[fits], valid |-> fits # 0]

StraightFallback(g, k) ==
  [sourceSide |-> SourceSide(g, k), targetSide |-> TargetSide(g, k), valid |-> FALSE,
   points     |-> SimplifyPolyline(Ends(g, k, SourceSide(g, k), TargetSide(g, k)))]

\* What the attempts gave: the first valid route, or what the grid search may
\* make of an attempt that failed before.
ChosenRoutes(g, k, results) ==
  LET first  == SelectInSeq(results, LAMBDA r : r.valid)
      failed == IF first = 0 THEN 1..4 ELSE 1..first - 1
  IN  {IF first = 0 THEN StraightFallback(g, k) ELSE results[first]}
        \cup {[results[i] EXCEPT !.points = Grid, !.valid = TRUE] : i \in failed}

Routes(g, k) ==
  LET link     == g.links[k]
      attempts == << <<link.sourceSide, link.targetSide>>,
                     <<SideAuto, link.targetSide>>, <<link.sourceSide, SideAuto>>, <<SideAuto, SideAuto>> >>
  IN  ChosenRoutes(g, k, [i \in 1..4 |-> TryRoute(g, k, attempts[i][1], attempts[i][2])])

(***************************************************************************)
(* The grid search: A* over cells <<x, y>>, one cell after the other.  s   *)
(* has the cost of the cells seen, the cell each was reached from, and the *)
(* cells done.  Among open cells of equal estimate the heap takes any.     *)
(***************************************************************************)
Beside(cell) == {<<X(cell) + 1, Y(cell)>>, <<X(cell) - 1, Y(cell)>>,
                 <<X(cell), Y(cell) + 1>>, <<X(cell), Y(cell) - 1>>}

Estimate(cell, goal) == Abs(X(cell) - X(goal)) + Abs(Y(cell) - Y(goal))

SearchStart(start) == [g |-> [cell \in {start} |-> 0], parent |-> <<>>, closed |-> {}]

OpenCells(s) == DOMAIN s.g \ s.closed

Nearest(s, goal) ==
  {c \in OpenCells(s) : \A d \in OpenCells(s) :
     s.g[c] + Estimate(c, goal) <= s.g[d] + Estimate(d, goal)}

\* A cell beside c gets its first way, or a better one.
ExpandCell(grid, s, c) ==
  LET better == {n \in (Beside(c) \cap grid.free) \ (s.closed \cup {c}) :
                   n \in DOMAIN s.g => s.g[c] + 1 < s.g[n]}
  IN  [g      |-> [n \in DOMAIN s.g \cup better |-> IF n \in better THEN s.g[c] + 1 ELSE s.g[n]],
       parent |-> [n \in DOMAIN s.parent \cup better |-> IF n \in better THEN c ELSE s.parent[n]],
       closed |-> s.closed \cup {c}]

\* As many cells are done as the budget has.
UsedUp(grid, s) == Cardinality(s.closed) = grid.maxExpandedNodes
=============================================================================
