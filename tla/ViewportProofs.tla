--------------------------- MODULE ViewportProofs ---------------------------
(***************************************************************************)
(* What Viewport promises, for any graphs, sizes, cells, routes, points    *)
(* and cameras: a hit test finds what a scan of the graph finds, and once  *)
(* nothing is outstanding the picture is that of the graph.                *)
(*                                                                         *)
(* The first half is geometry: the cell of a coordinate grows with it, so  *)
(* rectangles that touch share a cell, and a point near a segment is in    *)
(* the box around its route.  The second is the invariant ViewInv: a clean *)
(* index is that of the graph and its objects are observed, one that is    *)
(* not is built by a timer, what is not marked is drawn as it is, and what *)
(* is marked has asked for a frame.                                        *)
(***************************************************************************)
EXTENDS Viewport, WellFoundedInduction, TLAPS

----------------------------------------------------------------------------
(* Numbers. *)

\* Of finitely many integers one is the largest.
LEMMA LargestExists ==
    ASSUME NEW n \in Nat \ {0}, NEW f \in [1 .. n -> Int]
    PROVE  \E m \in 1 .. n : \A i \in 1 .. n : f[i] <= f[m]
<1> DEFINE Less == {ss \in Nat \X Nat : ss[1] < ss[2]}
           Fails == {k \in 1 .. n : ~ \E m \in 1 .. k : \A i \in 1 .. k : f[i] <= f[m]}
<1>1. IsWellFoundedOn(Less, Nat)
  BY NatLessThanWellFounded DEF OpToRel
<1>2. \A x, y \in Nat : x < y => << x, y >> \in Less
  OBVIOUS
<1>3. Fails \subseteq Nat
  OBVIOUS
<1> SUFFICES ASSUME n \in Fails PROVE FALSE
  OBVIOUS
<1>4. PICK k \in Fails : \A j \in Fails : << j, k >> \notin Less
  <2> HIDE DEF Less, Fails
  <2> QED
    BY <1>1, <1>3, WFMin
<1>5. \A j \in Fails : ~ (j < k)
  <2> HIDE DEF Less, Fails
  <2> QED
    BY <1>2, <1>3, <1>4
<1>6. k \in 1 .. n /\ ~ \E m \in 1 .. k : \A i \in 1 .. k : f[i] <= f[m]
  OBVIOUS
<1>7. \A j \in 1 .. n : j \notin Fails => \E m \in 1 .. j : \A i \in 1 .. j : f[i] <= f[m]
  OBVIOUS
<1> HIDE DEF Less, Fails
<1>8. CASE k = 1
  <2>1. f[1] \in Int /\ 1 \in 1 .. k /\ \A i \in 1 .. k : i = 1
    BY <1>8
  <2>2. \A i \in 1 .. k : f[i] <= f[1]
    <3>1. f[1] <= f[1]
      BY <2>1
    <3> QED
      BY <2>1, <3>1
  <2> QED
    BY <1>6, <2>1, <2>2
<1>9. CASE k # 1
  <2>1. k - 1 \in 1 .. n /\ k - 1 < k
    BY <1>6, <1>9
  <2>2. k - 1 \notin Fails
    <3> HIDE DEF Fails
    <3> QED
      BY <1>5, <2>1
  <2>3. PICK m \in 1 .. k - 1 : \A i \in 1 .. k - 1 : f[i] <= f[m]
    BY <1>7, <2>1, <2>2
  <2>4. \A i \in 1 .. k : i \in 1 .. k - 1 \/ i = k
    OBVIOUS
  <2>5. /\ m \in 1 .. n /\ k \in 1 .. n /\ m \in 1 .. k /\ k \in 1 .. k
        /\ \A i \in 1 .. k - 1 : i \in 1 .. n
    BY <1>6
  <2>6. f[k] \in Int /\ f[m] \in Int /\ \A i \in 1 .. k - 1 : f[i] \in Int
    BY <2>5
  <2>7. CASE f[k] <= f[m]
    <3>1. \A i \in 1 .. k : f[i] <= f[m]
      BY <2>3, <2>4, <2>6, <2>7
    <3> QED
      BY <1>6, <2>5, <3>1
  <2>8. CASE ~ (f[k] <= f[m])
    <3> DEFINE a == f[m]
               b == f[k]
    <3>4. a \in Int /\ b \in Int /\ ~ (b <= a)
      BY <2>6, <2>8
    <3>2. a <= b /\ b <= b
      <4> HIDE DEF a, b
      <4> QED
        BY <3>4
    <3>3. \A i \in 1 .. k - 1 : f[i] <= f[k]
      BY <2>3, <2>6, <3>2
    <3>1. \A i \in 1 .. k : f[i] <= f[k]
      BY <2>4, <3>2, <3>3
    <3> QED
      BY <1>6, <2>5, <3>1
  <2> QED
    BY <2>7, <2>8
<1> QED
  BY <1>8, <1>9

\* Max and Min of the values of a sequence of integers.
LEMMA MaxOfValues ==
    ASSUME NEW n \in Nat \ {0}, NEW f \in [1 .. n -> Int]
    PROVE  LET values == {f[i] : i \in 1 .. n}
           IN  Max(values) \in values /\ \A i \in 1 .. n : f[i] <= Max(values)
<1> DEFINE values == {f[i] : i \in 1 .. n}
<1>1. PICK m \in 1 .. n : \A i \in 1 .. n : f[i] <= f[m]
  BY LargestExists
<1>2. f[m] \in values /\ \A y \in values : f[m] >= y
  BY <1>1
<1>3. Max(values) \in values /\ \A y \in values : Max(values) >= y
  <2> HIDE DEF values
  <2> QED
    BY <1>2 DEF Max
<1> QED
  BY <1>3

\* The same for Min, from the largest of the negated values.
LEMMA MinOfValues ==
    ASSUME NEW n \in Nat \ {0}, NEW f \in [1 .. n -> Int]
    PROVE  LET values == {f[i] : i \in 1 .. n}
           IN  Min(values) \in values /\ \A i \in 1 .. n : Min(values) <= f[i]
<1> DEFINE values == {f[i] : i \in 1 .. n}
           g == [i \in 1 .. n |-> - f[i]]
<1>1. PICK m \in 1 .. n : \A i \in 1 .. n : g[i] <= g[m]
  <2>1. g \in [1 .. n -> Int]
    OBVIOUS
  <2> HIDE DEF g
  <2> QED
    BY <2>1, LargestExists
<1>2. f[m] \in values /\ \A y \in values : f[m] <= y
  BY <1>1
<1>3. Min(values) \in values /\ \A y \in values : Min(values) <= y
  <2> HIDE DEF values, g
  <2> QED
    BY <1>2 DEF Min
<1> QED
  BY <1>3

\* A set of positions of a list has a last one.
LEMMA MaxOfPositions ==
    ASSUME NEW n \in Nat, NEW S \in SUBSET (1 .. n), S # {}
    PROVE  Max(S) \in S
<1>1. PICK default \in S : TRUE
  OBVIOUS
<1> DEFINE f == [i \in 1 .. n |-> IF i \in S THEN i ELSE default]
<1>2. default \in 1 .. n
  OBVIOUS
<1>3. n \in Nat \ {0}
  BY <1>2
<1>4. f \in [1 .. n -> Int]
  BY <1>2
<1>5. {f[i] : i \in 1 .. n} = S
  <2>1. \A i \in 1 .. n : f[i] \in S
    BY <1>1
  <2>2. \A i \in S : i \in 1 .. n /\ f[i] = i
    OBVIOUS
  <2> HIDE DEF f
  <2> QED
    BY <2>1, <2>2
<1> HIDE DEF f
<1> QED
  BY <1>3, <1>4, <1>5, MaxOfValues

\* The larger of two integers.
LEMMA MaxOfTwo ==
    ASSUME NEW a \in Int, NEW b \in Int
    PROVE  Max({a, b}) \in {a, b} /\ a <= Max({a, b}) /\ b <= Max({a, b})
<1>1. \E x \in {a, b} : \A y \in {a, b} : x >= y
  OBVIOUS
<1> QED
  BY <1>1 DEF Max

\* The same for the smaller one.
LEMMA MinOfTwo ==
    ASSUME NEW a \in Int, NEW b \in Int
    PROVE  Min({a, b}) \in {a, b} /\ Min({a, b}) <= a /\ Min({a, b}) <= b
<1>1. \E x \in {a, b} : \A y \in {a, b} : x <= y
  OBVIOUS
<1> QED
  BY <1>1 DEF Min

\* The largest of three integers.
LEMMA MaxOfThree ==
    ASSUME NEW a \in Int, NEW b \in Int, NEW c \in Int
    PROVE  /\ Max({a, b, c}) \in {a, b, c}
           /\ a <= Max({a, b, c}) /\ b <= Max({a, b, c}) /\ c <= Max({a, b, c})
<1>1. \E x \in {a, b, c} : \A y \in {a, b, c} : x >= y
  OBVIOUS
<1> QED
  BY <1>1 DEF Max

\* The cell of a coordinate grows with the coordinate.
LEMMA DivMonotonic ==
    ASSUME NEW a \in Int, NEW b \in Int, a <= b, NEW c \in Nat \ {0}
    PROVE  /\ a \div c \in Int /\ b \div c \in Int
           /\ a \div c <= b \div c
OBVIOUS

\* Neither side of a right angle is longer than what the squares allow.
LEMMA Squares ==
    ASSUME NEW a \in Nat, NEW b \in Nat, NEW t \in Nat, a * a + b * b <= t * t
    PROVE  a <= t /\ b <= t
<1>1. ASSUME NEW x \in Nat, x * x <= t * t PROVE x <= t
  <2> SUFFICES ASSUME x >= t + 1 PROVE FALSE
    BY <1>1
  <2>1. x * x >= (t + 1) * (t + 1)
    OBVIOUS
  <2> QED
    BY <1>1, <2>1
<1>2. a * a \in Nat /\ b * b \in Nat /\ t * t \in Nat
  OBVIOUS
<1> QED
  BY <1>1, <1>2

----------------------------------------------------------------------------
(* Geometry. *)

\* Rectangles that are not inside out.
Rectangles ==
    {rect \in [left : Int, top : Int, right : Int, bottom : Int] :
        rect.left <= rect.right /\ rect.top <= rect.bottom}

\* The rectangle of a component is not inside out.
LEMMA RectAtIsRectangle == \A centre \in Places : RectAt(centre) \in Rectangles
<1>1. \A n \in Nat : n \div 2 \in Nat
  OBVIOUS
<1>2. Width \div 2 \in Nat /\ Height \div 2 \in Nat
  BY <1>1, SizesArePositive
<1>3. \A centre \in Places : centre[1] \in Int /\ centre[2] \in Int
  BY PointsAreIntegers
<1> HIDE DEF Rectangles
<1> QED
  BY <1>2, <1>3 DEF RectAt, Rectangles

\* Intervals that overlap share a column (or a row) of cells.
LEMMA CellsOverlap ==
    ASSUME NEW a \in Int, NEW b \in Int, NEW c \in Int, NEW d \in Int,
           a <= b, c <= d, a <= d, c <= b
    PROVE  (a \div CellSize .. b \div CellSize) \cap (c \div CellSize .. d \div CellSize) # {}
<1>1. CellSize \in Nat \ {0}
  BY SizesArePositive
<1>2. CASE a <= c
  <2>1. a \div CellSize <= c \div CellSize /\ c \div CellSize <= b \div CellSize
        /\ c \div CellSize <= d \div CellSize
        /\ c \div CellSize \in Int
        /\ a \div CellSize \in Int /\ b \div CellSize \in Int /\ d \div CellSize \in Int
    BY <1>1, <1>2, DivMonotonic
  <2> QED
    BY <2>1
<1>3. CASE c <= a
  <2>1. c \div CellSize <= a \div CellSize /\ a \div CellSize <= b \div CellSize
        /\ a \div CellSize <= d \div CellSize
        /\ c \div CellSize \in Int
        /\ a \div CellSize \in Int /\ b \div CellSize \in Int /\ d \div CellSize \in Int
    BY <1>1, <1>3, DivMonotonic
  <2> QED
    BY <2>1
<1> QED
  BY <1>2, <1>3

\* Rectangles that touch share a cell.
LEMMA TouchingShareACell ==
    ASSUME NEW r \in Rectangles, NEW s \in Rectangles,
           r.left <= s.right, s.left <= r.right, r.top <= s.bottom, s.top <= r.bottom
    PROVE  CellRangeForRect(r) \cap CellRangeForRect(s) # {}
<1>1. /\ r.left \in Int /\ r.right \in Int /\ r.top \in Int /\ r.bottom \in Int
      /\ s.left \in Int /\ s.right \in Int /\ s.top \in Int /\ s.bottom \in Int
      /\ r.left <= r.right /\ r.top <= r.bottom /\ s.left <= s.right /\ s.top <= s.bottom
  BY DEF Rectangles
<1>2. PICK column : /\ column \in (r.left \div CellSize) .. (r.right \div CellSize)
                    /\ column \in (s.left \div CellSize) .. (s.right \div CellSize)
  <2>1. ((r.left \div CellSize) .. (r.right \div CellSize))
           \cap ((s.left \div CellSize) .. (s.right \div CellSize)) # {}
    BY <1>1, CellsOverlap
  <2> QED
    BY <2>1
<1>3. PICK row : /\ row \in (r.top \div CellSize) .. (r.bottom \div CellSize)
                 /\ row \in (s.top \div CellSize) .. (s.bottom \div CellSize)
  <2>1. ((r.top \div CellSize) .. (r.bottom \div CellSize))
           \cap ((s.top \div CellSize) .. (s.bottom \div CellSize)) # {}
    BY <1>1, CellsOverlap
  <2> QED
    BY <2>1
<1>4. << column, row >> \in CellRangeForRect(r) \cap CellRangeForRect(s)
  BY <1>2, <1>3 DEF CellRangeForRect
<1> QED
  BY <1>4

\* A rectangle is found in the cell of each of its points.
LEMMA PointInCell ==
    ASSUME NEW r \in Rectangles, NEW point \in Int \X Int, Holds(r, point)
    PROVE  << point[1] \div CellSize, point[2] \div CellSize >> \in CellRangeForRect(r)
<1>1. /\ r.left \in Int /\ r.right \in Int /\ r.top \in Int /\ r.bottom \in Int
      /\ r.left <= point[1] /\ point[1] <= r.right
      /\ r.top <= point[2] /\ point[2] <= r.bottom
      /\ point[1] \in Int /\ point[2] \in Int
      /\ CellSize \in Nat \ {0}
  BY SizesArePositive DEF Rectangles, Holds
<1>2. /\ point[1] \div CellSize \in (r.left \div CellSize) .. (r.right \div CellSize)
      /\ point[2] \div CellSize \in (r.top \div CellSize) .. (r.bottom \div CellSize)
  BY <1>1, DivMonotonic
<1> QED
  BY <1>2 DEF CellRangeForRect

\* Lines of a segment at least.
Routes == {route \in Seq(Int \X Int) : Len(route) > 1}

\* The bounds of a route hold the bounds of each of its segments.
LEMMA BoundsOfRoute ==
    ASSUME NEW route \in Routes
    PROVE  /\ Bounds(route) \in Rectangles
           /\ \A i \in 1 .. Len(route) : Holds(Bounds(route), route[i])
<1> DEFINE n == Len(route)
           X == [i \in 1 .. n |-> route[i][1]]
           Y == [i \in 1 .. n |-> route[i][2]]
<1>1. n \in Nat \ {0} /\ DOMAIN route = 1 .. n /\ \A i \in 1 .. n : route[i] \in Int \X Int
  BY DEF Routes
<1>2. X \in [1 .. n -> Int] /\ Y \in [1 .. n -> Int]
  BY <1>1
<1>3. /\ {route[i][1] : i \in DOMAIN route} = {X[i] : i \in 1 .. n}
      /\ {route[i][2] : i \in DOMAIN route} = {Y[i] : i \in 1 .. n}
      /\ \A i \in 1 .. n : X[i] = route[i][1] /\ Y[i] = route[i][2]
  BY <1>1
<1> HIDE DEF n, X, Y
<1>4. ASSUME NEW f \in [1 .. n -> Int]
      PROVE  LET values == {f[i] : i \in 1 .. n}
             IN  /\ Min(values) \in Int /\ Max(values) \in Int
                 /\ \A i \in 1 .. n : Min(values) <= f[i] /\ f[i] <= Max(values)
  <2> DEFINE values == {f[i] : i \in 1 .. n}
  <2>1. values \subseteq Int
    OBVIOUS
  <2>2. Min(values) \in values /\ \A i \in 1 .. n : Min(values) <= f[i]
    BY <1>1, MinOfValues
  <2>3. Max(values) \in values /\ \A i \in 1 .. n : f[i] <= Max(values)
    BY <1>1, MaxOfValues
  <2> HIDE DEF values
  <2>4. /\ Min(values) \in Int /\ Max(values) \in Int
        /\ \A i \in 1 .. n : Min(values) <= f[i] /\ f[i] <= Max(values)
    BY <2>1, <2>2, <2>3
  <2> QED
    BY <2>4 DEF values
<1>5. /\ Min({X[i] : i \in 1 .. n}) \in Int /\ Max({X[i] : i \in 1 .. n}) \in Int
      /\ Min({Y[i] : i \in 1 .. n}) \in Int /\ Max({Y[i] : i \in 1 .. n}) \in Int
      /\ \A i \in 1 .. n : /\ Min({X[j] : j \in 1 .. n}) <= X[i]
                           /\ X[i] <= Max({X[j] : j \in 1 .. n})
                           /\ Min({Y[j] : j \in 1 .. n}) <= Y[i]
                           /\ Y[i] <= Max({Y[j] : j \in 1 .. n})
  BY <1>2, <1>4
<1>6. 1 \in 1 .. n
  BY <1>1
<1>7. /\ Bounds(route).left = Min({X[i] : i \in 1 .. n})
      /\ Bounds(route).right = Max({X[i] : i \in 1 .. n})
      /\ Bounds(route).top = Min({Y[i] : i \in 1 .. n})
      /\ Bounds(route).bottom = Max({Y[i] : i \in 1 .. n})
      /\ Bounds(route) = [left |-> Bounds(route).left, top |-> Bounds(route).top,
                          right |-> Bounds(route).right, bottom |-> Bounds(route).bottom]
  BY <1>3 DEF Bounds
<1>8. ASSUME NEW a \in Int, NEW b \in Int, NEW c \in Int, a <= b, b <= c
      PROVE  a <= c
  BY <1>8
<1>9. Bounds(route).left <= Bounds(route).right /\ Bounds(route).top <= Bounds(route).bottom
  <2>1. X[1] \in Int /\ Y[1] \in Int
    BY <1>2, <1>6
  <2>2. Min({X[i] : i \in 1 .. n}) <= X[1] /\ X[1] <= Max({X[i] : i \in 1 .. n})
    BY <1>5, <1>6
  <2>3. Min({Y[i] : i \in 1 .. n}) <= Y[1] /\ Y[1] <= Max({Y[i] : i \in 1 .. n})
    BY <1>5, <1>6
  <2>4. Min({X[i] : i \in 1 .. n}) <= Max({X[i] : i \in 1 .. n})
    BY <1>5, <1>8, <2>1, <2>2
  <2>5. Min({Y[i] : i \in 1 .. n}) <= Max({Y[i] : i \in 1 .. n})
    BY <1>5, <1>8, <2>1, <2>3
  <2> QED
    BY <1>7, <2>4, <2>5
<1> QED
  BY <1>3, <1>5, <1>7, <1>9 DEF Rectangles, Holds, n

\* A point within a distance t of a segment is within t of one end or the other,
\* in each direction.
LEMMA DistanceIsNatural ==
    ASSUME NEW p \in Int \X Int, NEW q \in Int \X Int, NEW point \in Int \X Int
    PROVE  LET distance == DistanceToSegmentSquared(point, << p, q >>)
           IN  /\ distance \in Nat
               /\ \A t \in Nat : distance <= t * t =>
                     /\ p[1] - t <= point[1] \/ q[1] - t <= point[1]
                     /\ point[1] <= p[1] + t \/ point[1] <= q[1] + t
                     /\ p[2] - t <= point[2] \/ q[2] - t <= point[2]
                     /\ point[2] <= p[2] + t \/ point[2] <= q[2] + t
<1> DEFINE box == Bounds(<< p, q >>)
           dx == Max({box.left - point[1], 0, point[1] - box.right})
           dy == Max({box.top - point[2], 0, point[2] - box.bottom})
<1>1. /\ p[1] \in Int /\ p[2] \in Int /\ q[1] \in Int /\ q[2] \in Int
      /\ point[1] \in Int /\ point[2] \in Int
  OBVIOUS
<1>2. /\ box.left = Min({p[1], q[1]}) /\ box.right = Max({p[1], q[1]})
      /\ box.top = Min({p[2], q[2]}) /\ box.bottom = Max({p[2], q[2]})
  <2>1. /\ {<< p, q >>[i][1] : i \in DOMAIN << p, q >>} = {p[1], q[1]}
        /\ {<< p, q >>[i][2] : i \in DOMAIN << p, q >>} = {p[2], q[2]}
    OBVIOUS
  <2> QED
    BY <2>1 DEF Bounds
<1>3. /\ box.left \in {p[1], q[1]} /\ box.right \in {p[1], q[1]}
      /\ box.top \in {p[2], q[2]} /\ box.bottom \in {p[2], q[2]}
  BY <1>1, <1>2, MinOfTwo, MaxOfTwo
<1>4. /\ box.left \in Int /\ box.right \in Int /\ box.top \in Int /\ box.bottom \in Int
  BY <1>1, <1>3
<1>5. DistanceToSegmentSquared(point, << p, q >>) = dx * dx + dy * dy
  BY DEF DistanceToSegmentSquared
<1> HIDE DEF box
<1>6. /\ dx \in Nat /\ box.left - point[1] <= dx /\ point[1] - box.right <= dx
      /\ dy \in Nat /\ box.top - point[2] <= dy /\ point[2] - box.bottom <= dy
  <2>1. /\ box.left - point[1] \in Int /\ point[1] - box.right \in Int /\ 0 \in Int
        /\ box.top - point[2] \in Int /\ point[2] - box.bottom \in Int
    BY <1>1, <1>4
  <2>2. /\ dx \in {box.left - point[1], 0, point[1] - box.right} /\ 0 <= dx
        /\ box.left - point[1] <= dx /\ point[1] - box.right <= dx
    BY <2>1, MaxOfThree
  <2>3. /\ dy \in {box.top - point[2], 0, point[2] - box.bottom} /\ 0 <= dy
        /\ box.top - point[2] <= dy /\ point[2] - box.bottom <= dy
    BY <2>1, MaxOfThree
  <2> HIDE DEF dx, dy
  <2> QED
    BY <2>1, <2>2, <2>3
<1> HIDE DEF dx, dy
<1>7. dx * dx + dy * dy \in Nat
  BY <1>6
<1>8. ASSUME NEW t \in Nat, dx * dx + dy * dy <= t * t
      PROVE  /\ p[1] - t <= point[1] \/ q[1] - t <= point[1]
             /\ point[1] <= p[1] + t \/ point[1] <= q[1] + t
             /\ p[2] - t <= point[2] \/ q[2] - t <= point[2]
             /\ point[2] <= p[2] + t \/ point[2] <= q[2] + t
  <2>1. dx <= t /\ dy <= t
    BY <1>6, <1>8, Squares
  <2>2. /\ box.left - t <= point[1] /\ point[1] <= box.right + t
        /\ box.top - t <= point[2] /\ point[2] <= box.bottom + t
    BY <1>1, <1>4, <1>6, <2>1
  <2> QED
    BY <1>3, <2>2
<1> QED
  BY <1>5, <1>7, <1>8

\* A point within t of a route is in the adjusted box around the route, and the
\* box around the point shares a cell with it.
LEMMA NearPoint ==
    ASSUME NEW route \in Routes, NEW point \in Int \X Int, NEW t \in Nat,
           Min({DistanceToSegmentSquared(point, segment) : segment \in Segments(route)}) <= t * t
    PROVE  LET bounds == Bounds(route)
               probe == [left |-> point[1] - t, right  |-> point[1] + t,
                         top  |-> point[2] - t, bottom |-> point[2] + t]
           IN  /\ Holds(Adjusted(bounds, t), point)
               /\ CellRangeForRect(probe) \cap CellRangeForRect(bounds) # {}
<1> DEFINE n == Len(route) - 1
           distance == [i \in 1 .. n |->
                          DistanceToSegmentSquared(point, << route[i], route[i + 1] >>)]
           values == {distance[i] : i \in 1 .. n}
           bounds == Bounds(route)
           probe == [left |-> point[1] - t, right  |-> point[1] + t,
                     top  |-> point[2] - t, bottom |-> point[2] + t]
<1>1. /\ n \in Nat \ {0} /\ Len(route) = n + 1
      /\ \A i \in 1 .. n + 1 : route[i] \in Int \X Int
  <2>1. route \in Seq(Int \X Int) /\ Len(route) \in Nat /\ Len(route) > 1
    BY DEF Routes
  <2>2. n \in Nat \ {0} /\ Len(route) = n + 1
    <3> HIDE DEF distance, values, bounds, probe
    <3>1. \A length \in Nat : length > 1 => length - 1 \in Nat \ {0} /\ length = (length - 1) + 1
      OBVIOUS
    <3> QED
      BY <2>1, <3>1
  <2> HIDE DEF n
  <2> QED
    BY <2>1, <2>2
<1>2. \A i \in 1 .. n : /\ i \in 1 .. n + 1 /\ i + 1 \in 1 .. n + 1
                        /\ route[i] \in Int \X Int /\ route[i + 1] \in Int \X Int
  <2> HIDE DEF n
  <2> QED
    BY <1>1
<1>3. {DistanceToSegmentSquared(point, segment) : segment \in Segments(route)} = values
  <2> HIDE DEF n
  <2>1. Segments(route) = {<< route[i - 1], route[i] >> : i \in 2 .. n + 1}
    BY <1>1 DEF Segments
  <2>2. /\ \A i \in 1 .. n : i + 1 \in 2 .. n + 1 /\ (i + 1) - 1 = i
        /\ \A i \in 2 .. n + 1 : i - 1 \in 1 .. n /\ (i - 1) + 1 = i
    BY <1>1
  <2>3. Segments(route) = {<< route[i], route[i + 1] >> : i \in 1 .. n}
    BY <2>1, <2>2
  <2> QED
    BY <2>3
<1>4. distance \in [1 .. n -> Int]
  <2> HIDE DEF n
  <2>1. \A i \in 1 .. n : DistanceToSegmentSquared(point, << route[i], route[i + 1] >>) \in Nat
    BY <1>2, DistanceIsNatural
  <2> QED
    BY <2>1
<1>5. PICK i \in 1 .. n : distance[i] <= t * t
  <2>1. Min(values) \in values
    <3> HIDE DEF n, distance
    <3> QED
      BY <1>1, <1>4, MinOfValues
  <2>2. Min(values) <= t * t
    BY <1>3
  <2> HIDE DEF distance
  <2> QED
    BY <2>1, <2>2
<1>6. /\ bounds \in Rectangles
      /\ Holds(bounds, route[i]) /\ Holds(bounds, route[i + 1])
  <2> HIDE DEF n, bounds
  <2> QED
    BY <1>1, <1>2, BoundsOfRoute DEF bounds
<1>7. DistanceToSegmentSquared(point, << route[i], route[i + 1] >>) <= t * t
  BY <1>5
<1> HIDE DEF n, distance, values, bounds
<1> DEFINE p == route[i]
           q == route[i + 1]
<1>8. /\ p \in Int \X Int /\ q \in Int \X Int
      /\ p[1] - t <= point[1] \/ q[1] - t <= point[1]
      /\ point[1] <= p[1] + t \/ point[1] <= q[1] + t
      /\ p[2] - t <= point[2] \/ q[2] - t <= point[2]
      /\ point[2] <= p[2] + t \/ point[2] <= q[2] + t
  BY <1>2, <1>7, DistanceIsNatural
<1> HIDE DEF p, q
<1>9. /\ bounds.left \in Int /\ bounds.right \in Int /\ bounds.top \in Int /\ bounds.bottom \in Int
      /\ p[1] \in Int /\ p[2] \in Int /\ q[1] \in Int /\ q[2] \in Int
      /\ point[1] \in Int /\ point[2] \in Int
  BY <1>6, <1>8 DEF Rectangles
<1>10. /\ bounds.left <= p[1] /\ p[1] <= bounds.right
       /\ bounds.top <= p[2] /\ p[2] <= bounds.bottom
       /\ bounds.left <= q[1] /\ q[1] <= bounds.right
       /\ bounds.top <= q[2] /\ q[2] <= bounds.bottom
  BY <1>6 DEF Holds, p, q
<1>11. /\ bounds.left - t <= point[1] /\ point[1] <= bounds.right + t
       /\ bounds.top - t <= point[2] /\ point[2] <= bounds.bottom + t
  BY <1>8, <1>9, <1>10
<1>12. Holds(Adjusted(bounds, t), point)
  BY <1>11 DEF Holds, Adjusted
<1>13. CellRangeForRect(probe) \cap CellRangeForRect(bounds) # {}
  <2>1. probe \in Rectangles
    BY <1>9 DEF Rectangles
  <2>2. /\ probe.left <= bounds.right /\ bounds.left <= probe.right
        /\ probe.top <= bounds.bottom /\ bounds.top <= probe.bottom
    BY <1>9, <1>11
  <2> HIDE DEF probe
  <2> QED
    BY <1>6, <2>1, <2>2, TouchingShareACell
<1> QED
  BY <1>12, <1>13 DEF bounds

----------------------------------------------------------------------------
(* The invariant. *)

Objects == Range(components) \cup Range(connections)

\* The graph is one of living objects.
GraphTypes ==
    /\ components \in Seq(Component) /\ connections \in Seq(Connection)
    /\ place \in [Component -> Places] /\ ends \in [Connection -> Component \X Component]
    /\ Objects \cap deleted = {}
    /\ batch \in BOOLEAN

\* The camera has a positive zoom, and the flags are flags.
RestTypes ==
    /\ camera.pan \in Int \X Int /\ camera.zoom \in Nat \ {0} /\ extent \in Int \X Int
    /\ {indexDirty, graphDirty, cameraDirty, componentDirty, scheduled, asked, scene}
         \subseteq BOOLEAN

Types == GraphTypes /\ RestTypes

\* A clean index is that of the graph, and the objects of the graph are observed.
CleanIndexIsCurrent ==
    ~ batch /\ ~ indexDirty => index = Indexed /\ Objects \subseteq observed

\* An index that is not clean will be built by the timer, but in an empty graph.
DirtyIndexIsScheduled ==
    ~ batch /\ ~ scheduled /\ indexDirty =>
        index = Indexed /\ components = << >> /\ connections = << >>

\* What the boxes of the picture ought to be, culled by the view they are from.
BoxesFor(view) ==
    LET shown == VisibleWorld(view)
        visible == {i \in DOMAIN components : Intersects(RectAt(place[components[i]]), shown)}
    IN  [i \in visible |->
            [rect |-> RectAt(place[components[i]]), colour |-> colour[components[i]],
             selected |-> IsSelected(components[i])]]

\* What is not marked is drawn as it is.
LinesAreCurrent ==
    ~ batch /\ ~ scheduled /\ scene /\ ~ graphDirty => picture.connections = DrawnConnections
BoxesAreCurrent ==
    ~ batch /\ ~ scheduled /\ scene /\ ~ componentDirty =>
        picture.components = BoxesFor(picture.from[1])
DetailIsCurrent == scene /\ ~ componentDirty => picture.from[2] = detail
CameraIsCurrent ==
    scene /\ ~ cameraDirty => picture.camera = camera /\ detail = Detail(camera.zoom)

\* What is marked has asked for a frame.
MarksAsk ==
    ~ asked => scene /\ (~ Hidden(View) => ~ graphDirty /\ ~ cameraDirty /\ ~ componentDirty)

DrawInv ==
    /\ CleanIndexIsCurrent /\ DirtyIndexIsScheduled /\ LinesAreCurrent /\ BoxesAreCurrent
    /\ DetailIsCurrent /\ CameraIsCurrent /\ MarksAsk

ViewInv == Types /\ DrawInv

\* The index depends on the lists, the places and the ends only.
LEMMA IndexedSame ==
    ASSUME components' = components, place' = place, connections' = connections, ends' = ends
    PROVE  Indexed' = Indexed /\ Objects' = Objects
BY DEF Indexed, Objects

\* What the lines should be depends on the selection as well,
LEMMA LinesSame ==
    ASSUME components' = components, place' = place, connections' = connections, ends' = ends,
           selected' = selected
    PROVE  DrawnConnections' = DrawnConnections
BY IndexedSame DEF DrawnConnections, IsSelected

\* and what the boxes should be on the colours, but not on the connections.
LEMMA BoxesSame ==
    ASSUME components' = components, place' = place, colour' = colour, selected' = selected,
           picture' = picture
    PROVE  BoxesFor(picture.from[1])' = BoxesFor(picture.from[1])
BY DEF BoxesFor, IsSelected

\* A rebuild that is requested marks everything that depends on the graph.
LEMMA RequestKeeps ==
    ASSUME DrawInv, RequestGraphRebuild, UNCHANGED << viewVars, sceneVars >>
    PROVE  DrawInv'
BY DEF DrawInv, RequestGraphRebuild, viewVars, sceneVars, CleanIndexIsCurrent,
       DirtyIndexIsScheduled, LinesAreCurrent, BoxesAreCurrent, DetailIsCurrent,
       CameraIsCurrent, MarksAsk, View

\* A change may go unnoticed in a batch, or while a rebuild is scheduled.
LEMMA UnnoticedKeeps ==
    ASSUME DrawInv, Unnoticed, UNCHANGED << viewVars, sceneVars >>,
           batch' \/ (scheduled /\ indexDirty)
    PROVE  DrawInv'
BY DEF DrawInv, Unnoticed, viewVars, sceneVars, itemVars, dirtyVars, CleanIndexIsCurrent,
       DirtyIndexIsScheduled, LinesAreCurrent, BoxesAreCurrent, DetailIsCurrent,
       CameraIsCurrent, MarksAsk, View, Hidden

\* A change of an object of the graph is unnoticed in no other case.
LEMMA UnobservedObject ==
    ASSUME ViewInv, NEW object \in Objects, object \notin observed
    PROVE  batch \/ (scheduled /\ indexDirty)
<1>1. components = << >> /\ connections = << >> => Objects = {}
  BY DEF Objects, Range
<1> QED
  BY <1>1 DEF ViewInv, DrawInv, Types, GraphTypes, RestTypes, CleanIndexIsCurrent,
              DirtyIndexIsScheduled

----------------------------------------------------------------------------
(* Types. *)

\* The elements of a list that grows,
LEMMA AppendedRange ==
    ASSUME NEW S, NEW list \in Seq(S), NEW object \in S
    PROVE  /\ Append(list, object) \in Seq(S)
           /\ Range(Append(list, object)) = Range(list) \cup {object}
<1>1. /\ Append(list, object) \in Seq(S)
      /\ DOMAIN list = 1 .. Len(list) /\ Len(list) \in Nat
      /\ DOMAIN Append(list, object) = 1 .. Len(list) + 1
      /\ Append(list, object)[Len(list) + 1] = object
      /\ \A i \in 1 .. Len(list) : Append(list, object)[i] = list[i]
  OBVIOUS
<1>2. 1 .. Len(list) + 1 = (1 .. Len(list)) \cup {Len(list) + 1}
  BY <1>1
<1> QED
  BY <1>1, <1>2 DEF Range

\* and of one that shrinks.
LEMMA RemovedRange ==
    ASSUME NEW S, NEW list \in Seq(S), NEW i \in DOMAIN list
    PROVE  RemoveAt(list, i) \in Seq(S) /\ Range(RemoveAt(list, i)) \subseteq Range(list)
<1> DEFINE before == SubSeq(list, 1, i - 1)
           behind == SubSeq(list, i + 1, Len(list))
<1>1. /\ before \in Seq(S) /\ Len(before) = i - 1
      /\ \A j \in 1 .. i - 1 : before[j] = list[j] /\ j \in DOMAIN list
  OBVIOUS
<1>2. /\ behind \in Seq(S) /\ Len(behind) = Len(list) - i
      /\ \A j \in 1 .. Len(list) - i : behind[j] = list[j + i] /\ j + i \in DOMAIN list
  OBVIOUS
<1>3. RemoveAt(list, i) = before \o behind
  BY DEF RemoveAt
<1>4. Range(before) \subseteq Range(list) /\ Range(behind) \subseteq Range(list)
  <2>1. DOMAIN before = 1 .. i - 1 /\ DOMAIN behind = 1 .. Len(list) - i
    <3> HIDE DEF before, behind
    <3> QED
      BY <1>1, <1>2
  <2> HIDE DEF before, behind
  <2> QED
    BY <1>1, <1>2, <2>1 DEF Range
<1> HIDE DEF before, behind
<1>5. /\ before \o behind \in Seq(S)
      /\ \A j \in DOMAIN (before \o behind) : (before \o behind)[j] \in Range(before) \cup Range(behind)
  <2>1. /\ before \o behind \in Seq(S)
        /\ Len(before \o behind) = Len(before) + Len(behind)
        /\ \A j \in 1 .. Len(before) + Len(behind) :
             (before \o behind)[j] = IF j <= Len(before) THEN before[j] ELSE behind[j - Len(before)]
    BY <1>1, <1>2
  <2>2. \A j \in 1 .. Len(before) + Len(behind) :
           j \in DOMAIN before \/ (j > Len(before) /\ j - Len(before) \in DOMAIN behind)
    BY <1>1, <1>2
  <2> QED
    BY <1>1, <1>2, <2>1, <2>2 DEF Range
<1> QED
  BY <1>3, <1>4, <1>5 DEF Range

\* The types hold when the graph is first drawn.
LEMMA InitTypes == Init => Types
<1> SUFFICES ASSUME Init PROVE Types
  OBVIOUS
<1>1. PICK loaded \in Graphs :
         /\ components = loaded.components /\ place = loaded.place
         /\ connections = loaded.connections /\ ends = loaded.ends
         /\ scheduled = (components # << >>) /\ extent = loaded.extent
  BY DEF Init
<1>2. extent \in Int \X Int
  BY <1>1, GraphsAreLoaded, PointsAreIntegers
<1>3. camera.pan \in Int \X Int /\ camera.zoom \in Nat \ {0}
  BY DEF Init
<1> QED
  BY <1>1, <1>2, <1>3, GraphsAreLoaded
  DEF Init, Types, GraphTypes, RestTypes, Objects

\* Whatever an edit of the graph marks, the flags stay flags.
LEMMA EditKeepsRest ==
    ASSUME RestTypes, UNCHANGED << viewVars, sceneVars >>,
           RequestGraphRebuild \/ RequestComponentRepaint \/ Unnoticed
    PROVE  RestTypes'
BY DEF RestTypes, viewVars, sceneVars, RequestGraphRebuild, RequestComponentRepaint,
       Unnoticed, itemVars, dirtyVars

\* The actions that change the graph.
GraphEdit ==
    \/ AddComponent \/ RemoveComponent \/ AddConnection \/ RemoveConnection \/ Clear
    \/ BeginBatchUpdate \/ EndBatchUpdate
    \/ MoveComponent \/ PaintComponent \/ ReverseConnection

\* Every edit of the graph asks for a rebuild, for a repaint, or for nothing.
LEMMA EditMarks ==
    ASSUME GraphEdit
    PROVE  /\ UNCHANGED << viewVars, sceneVars >>
           /\ RequestGraphRebuild \/ RequestComponentRepaint \/ Unnoticed
BY DEF GraphEdit, AddComponent, RemoveComponent, AddConnection, RemoveConnection, Clear,
       BeginBatchUpdate, EndBatchUpdate, MoveComponent, PaintComponent, ReverseConnection,
       Edit, Emits

\* The graph stays one of living objects, whatever the edit.
LEMMA EditKeepsGraphTypes ==
    ASSUME GraphTypes, GraphEdit
    PROVE  GraphTypes'
<1>1. CASE AddComponent
  <2>1. PICK component \in {c \in Component : Alive(c)} \ Range(components), at \in Places :
           /\ components' = Append(components, component)
           /\ place' = [place EXCEPT ![component] = at]
    BY <1>1 DEF AddComponent
  <2>2. UNCHANGED << colour, connections, ends, batch, deleted >>
    BY <1>1 DEF AddComponent
  <2>3. /\ components' \in Seq(Component)
        /\ Range(components') = Range(components) \cup {component}
    BY <2>1, AppendedRange DEF GraphTypes
  <2>4. component \notin deleted
    BY <2>1 DEF Alive
  <2>5. place' \in [Component -> Places]
    BY <2>1 DEF GraphTypes
  <2> QED
    BY <2>2, <2>3, <2>4, <2>5 DEF GraphTypes, Objects
<1>2. CASE RemoveComponent
  <2>1. PICK i \in DOMAIN components : components' = RemoveAt(components, i)
    BY <1>2 DEF RemoveComponent
  <2>2. components' \in Seq(Component) /\ Range(components') \subseteq Range(components)
    BY <2>1, RemovedRange DEF GraphTypes
  <2> QED
    BY <1>2, <2>2 DEF GraphTypes, Objects, RemoveComponent
<1>3. CASE AddConnection
  <2>1. PICK connection \in {e \in Connection : Alive(e)} \ Range(connections) :
           connections' = Append(connections, connection)
    BY <1>3 DEF AddConnection
  <2>2. UNCHANGED << components, place, colour, ends, batch, deleted >>
    BY <1>3 DEF AddConnection
  <2>3. /\ connections' \in Seq(Connection)
        /\ Range(connections') = Range(connections) \cup {connection}
    BY <2>1, AppendedRange DEF GraphTypes
  <2>4. connection \notin deleted
    BY <2>1 DEF Alive
  <2> QED
    BY <2>2, <2>3, <2>4 DEF GraphTypes, Objects
<1>4. CASE RemoveConnection
  <2>1. PICK i \in DOMAIN connections : connections' = RemoveAt(connections, i)
    BY <1>4 DEF RemoveConnection
  <2>2. connections' \in Seq(Connection) /\ Range(connections') \subseteq Range(connections)
    BY <2>1, RemovedRange DEF GraphTypes
  <2> QED
    BY <1>4, <2>2 DEF GraphTypes, Objects, RemoveConnection
<1>5. CASE Clear
  BY <1>5 DEF Clear, GraphTypes, Objects, Range
<1>6. CASE BeginBatchUpdate \/ EndBatchUpdate
  BY <1>6 DEF BeginBatchUpdate, EndBatchUpdate, GraphTypes, Objects
<1>7. CASE MoveComponent \/ PaintComponent
  <2>1. place' \in [Component -> Places]
    BY <1>7 DEF MoveComponent, PaintComponent, GraphTypes
  <2> QED
    BY <1>7, <2>1 DEF MoveComponent, PaintComponent, GraphTypes, Objects
<1>8. CASE ReverseConnection
  <2>1. PICK connection \in Range(connections) :
           ends' = [ends EXCEPT ![connection] = Reverse(@)]
    BY <1>8 DEF ReverseConnection
  <2>2. ASSUME NEW pair \in Component \X Component
        PROVE  Reverse(pair) \in Component \X Component
    <3>1. Len(pair) = 2 /\ pair[1] \in Component /\ pair[2] \in Component
      OBVIOUS
    <3>2. Reverse(pair) = [k \in 1 .. 2 |-> pair[3 - k]]
      BY <3>1 DEF Reverse
    <3>3. Reverse(pair) = << pair[2], pair[1] >>
      BY <3>2
    <3> QED
      BY <3>1, <3>3
  <2>3. ends' \in [Connection -> Component \X Component]
    BY <2>1, <2>2 DEF GraphTypes
  <2> QED
    BY <1>8, <2>3 DEF ReverseConnection, GraphTypes, Objects
<1> QED
  BY <1>1, <1>2, <1>3, <1>4, <1>5, <1>6, <1>7, <1>8 DEF GraphEdit

\* The types are preserved by every step.
LEMMA StepTypes == Types /\ [Next]_vars => Types'
<1> SUFFICES ASSUME GraphTypes, RestTypes, [Next]_vars PROVE GraphTypes' /\ RestTypes'
  BY DEF Types
<1>1. CASE GraphEdit
  BY <1>1, EditMarks, EditKeepsRest, EditKeepsGraphTypes
<1>2. ASSUME UNCHANGED graphVars PROVE GraphTypes'
  BY <1>2 DEF graphVars, GraphTypes, Objects
<1>3. CASE HitTest \/ UpdatePaintNode \/ LoseScene \/ ExecuteScheduledGraphRebuild
  <2>1. UNCHANGED graphVars /\ UNCHANGED viewVars
    BY <1>3 DEF HitTest, UpdatePaintNode, LoseScene, ExecuteScheduledGraphRebuild
  <2>2. /\ {indexDirty', graphDirty', cameraDirty', componentDirty', scheduled', asked', scene'}
             \subseteq BOOLEAN
    BY <1>3 DEF HitTest, UpdatePaintNode, LoseScene, ExecuteScheduledGraphRebuild, RestTypes,
                EnsureSpatialIndex, dirtyVars, itemVars, sceneVars
  <2> QED
    BY <1>2, <2>1, <2>2 DEF RestTypes, viewVars
<1>4. CASE MoveCamera \/ GeometryChange \/ Select
  <2>1. UNCHANGED << graphVars, itemVars, sceneVars >>
    BY <1>4 DEF MoveCamera, GeometryChange, Select
  <2>2. {graphDirty', cameraDirty', componentDirty', asked'} \subseteq BOOLEAN
    BY <1>4 DEF MoveCamera, GeometryChange, Select, RestTypes
  <2>3. camera' = camera \/ camera' \in Cameras
    BY <1>4 DEF MoveCamera, GeometryChange, Select, viewVars
  <2>4. extent' = extent \/ extent' \in Extents
    BY <1>4 DEF MoveCamera, GeometryChange, Select, viewVars
  <2> QED
    BY <1>2, <2>1, <2>2, <2>3, <2>4, PointsAreIntegers DEF RestTypes, itemVars, sceneVars
<1>5. CASE UNCHANGED vars
  BY <1>5, <1>2 DEF vars, RestTypes, viewVars, itemVars, dirtyVars, sceneVars
<1> QED
  BY <1>1, <1>3, <1>4, <1>5 DEF Next, GraphEdit

----------------------------------------------------------------------------
(* What a frame draws. *)

\* The region that is seen is one, unless the item has no size.
LEMMA VisibleWorldIsRectangle ==
    ASSUME Types, ~ Hidden(View)
    PROVE  VisibleWorld(View) \in Rectangles
<1> DEFINE from == ViewToWorld(View, << 0, 0 >>)
           to == ViewToWorld(View, extent)
           by == Max({40, 1200 \div camera.zoom})
<1>1. /\ camera.pan[1] \in Int /\ camera.pan[2] \in Int /\ camera.zoom \in Nat \ {0}
      /\ extent[1] \in Int /\ extent[2] \in Int /\ extent[1] > 0 /\ extent[2] > 0
  BY DEF Types, RestTypes, Hidden, View
<1>2. /\ from[1] = ((0 - camera.pan[1]) * 10) \div camera.zoom
      /\ from[2] = ((0 - camera.pan[2]) * 10) \div camera.zoom
      /\ to[1] = ((extent[1] - camera.pan[1]) * 10) \div camera.zoom
      /\ to[2] = ((extent[2] - camera.pan[2]) * 10) \div camera.zoom
  BY DEF ViewToWorld, View
<1>3. /\ from[1] \in Int /\ from[2] \in Int /\ to[1] \in Int /\ to[2] \in Int
      /\ from[1] <= to[1] /\ from[2] <= to[2]
  <2>1. ASSUME NEW pan \in Int, NEW size \in Int, size > 0, NEW zoom \in Nat \ {0}
        PROVE  /\ ((0 - pan) * 10) \div zoom \in Int
               /\ ((size - pan) * 10) \div zoom \in Int
               /\ ((0 - pan) * 10) \div zoom <= ((size - pan) * 10) \div zoom
    <3>1. /\ (0 - pan) * 10 \in Int /\ (size - pan) * 10 \in Int
          /\ (0 - pan) * 10 <= (size - pan) * 10
      BY <2>1
    <3> QED
      BY <3>1, DivMonotonic
  <2>2. /\ ((0 - camera.pan[1]) * 10) \div camera.zoom \in Int
        /\ ((extent[1] - camera.pan[1]) * 10) \div camera.zoom \in Int
        /\ ((0 - camera.pan[1]) * 10) \div camera.zoom
             <= ((extent[1] - camera.pan[1]) * 10) \div camera.zoom
    BY <1>1, <2>1
  <2>3. /\ ((0 - camera.pan[2]) * 10) \div camera.zoom \in Int
        /\ ((extent[2] - camera.pan[2]) * 10) \div camera.zoom \in Int
        /\ ((0 - camera.pan[2]) * 10) \div camera.zoom
             <= ((extent[2] - camera.pan[2]) * 10) \div camera.zoom
    BY <1>1, <2>1
  <2> HIDE DEF from, to
  <2> QED
    BY <1>2, <2>2, <2>3
<1>4. by \in Nat
  <2> DEFINE b == 1200 \div camera.zoom
  <2>1. b \in Int /\ 40 \in Int
    BY <1>1
  <2> HIDE DEF b
  <2>2. Max({40, b}) \in {40, b} /\ 40 <= Max({40, b})
    BY <2>1, MaxOfTwo
  <2>3. Max({40, b}) \in Nat
    BY <2>1, <2>2
  <2> QED
    BY <2>3 DEF b
<1>5. VisibleWorld(View) =
        [left |-> from[1] - by, right |-> to[1] + by, top |-> from[2] - by, bottom |-> to[2] + by]
  BY DEF VisibleWorld, Adjusted, View
<1> HIDE DEF from, to, by
<1> QED
  BY <1>3, <1>4, <1>5 DEF Rectangles

\* The cells leave out nothing that is in sight.
LEMMA DrawnAreCurrent ==
    ASSUME Types, ~ Hidden(View), index = Indexed
    PROVE  DrawnComponents(index, View) = BoxesFor(View)
<1> DEFINE seen == VisibleWorld(View)
           rect(i) == RectAt(place[components[i]])
<1>1. /\ DOMAIN index.components = DOMAIN components
      /\ \A i \in DOMAIN components :
           index.components[i].object = components[i] /\ index.components[i].rect = rect(i)
  BY DEF Indexed
<1>2. seen \in Rectangles
  BY VisibleWorldIsRectangle
<1>3. \A i \in DOMAIN components :
         /\ components[i] \in Component /\ components[i] \in Range(components)
         /\ rect(i) \in Rectangles /\ Alive(components[i])
  <2>1. \A i \in DOMAIN components : components[i] \in Component
    BY DEF Types, GraphTypes
  <2>2. \A i \in DOMAIN components : components[i] \in Range(components)
    BY DEF Range
  <2>3. \A i \in DOMAIN components : rect(i) \in Rectangles
    BY <2>1, RectAtIsRectangle DEF Types, GraphTypes
  <2>4. \A i \in DOMAIN components : Alive(components[i])
    BY <2>2 DEF Types, GraphTypes, Objects, Alive
  <2> QED
    BY <2>1, <2>2, <2>3, <2>4
<1>4. ASSUME NEW i \in DOMAIN components, Intersects(rect(i), seen)
      PROVE  CellRangeForRect(rect(i)) \cap CellRangeForRect(seen) # {}
  <2> DEFINE r == rect(i)
  <2>1. r \in Rectangles
    BY <1>3
  <2>2. /\ r.left < seen.right /\ seen.left < r.right
        /\ r.top < seen.bottom /\ seen.top < r.bottom
    BY <1>4 DEF Intersects
  <2> HIDE DEF r, seen
  <2>3. /\ r.left <= seen.right /\ seen.left <= r.right
        /\ r.top <= seen.bottom /\ seen.top <= r.bottom
    BY <1>2, <2>1, <2>2 DEF Rectangles
  <2>4. CellRangeForRect(r) \cap CellRangeForRect(seen) # {}
    BY <1>2, <2>1, <2>3, TouchingShareACell
  <2> QED
    BY <2>4 DEF r
<1>5. VisibleComponents(index, View) =
        {i \in DOMAIN components : Intersects(rect(i), seen)}
  <2> HIDE DEF seen
  <2>1. VisibleComponents(index, View) =
          {i \in DOMAIN index.components :
             /\ CellRangeForRect(index.components[i].rect) \cap CellRangeForRect(seen) # {}
             /\ Alive(index.components[i].object)
             /\ Intersects(index.components[i].rect, seen)}
    BY DEF VisibleComponents, seen
  <2>2. VisibleComponents(index, View) =
          {i \in DOMAIN components :
             /\ CellRangeForRect(rect(i)) \cap CellRangeForRect(seen) # {}
             /\ Alive(components[i])
             /\ Intersects(rect(i), seen)}
    <3> HIDE DEF rect
    <3> QED
      BY <1>1, <2>1
  <2> HIDE DEF rect
  <2> QED
    BY <1>3, <1>4, <2>2
<1>6. DrawnComponents(index, View) =
        [i \in {k \in DOMAIN components : Intersects(rect(k), seen)} |->
          [rect |-> rect(i), colour |-> colour[components[i]],
           selected |-> IsSelected(components[i])]]
  <2> DEFINE visible == {k \in DOMAIN components : Intersects(rect(k), seen)}
  <2>1. \A i \in visible : i \in DOMAIN components
    OBVIOUS
  <2>2. VisibleComponents(index, View) = visible
    BY <1>5
  <2> HIDE DEF seen, rect, visible
  <2>3. DrawnComponents(index, View) =
          [i \in visible |->
            [rect |-> index.components[i].rect, colour |-> colour[index.components[i].object],
             selected |-> IsSelected(index.components[i].object)]]
    BY <2>2 DEF DrawnComponents
  <2>4. DrawnComponents(index, View) =
          [i \in visible |->
            [rect |-> rect(i), colour |-> colour[components[i]],
             selected |-> IsSelected(components[i])]]
    BY <1>1, <2>1, <2>3 DEF IsSelected
  <2> QED
    BY <2>4 DEF visible
<1> QED
  BY <1>6 DEF BoxesFor

----------------------------------------------------------------------------
(* The steps. *)

\* Everything is marked when the graph is first drawn.
LEMMA InitDraw == Init => DrawInv
<1> SUFFICES ASSUME Init PROVE DrawInv
  OBVIOUS
<1>1. /\ indexDirty /\ graphDirty /\ cameraDirty /\ componentDirty /\ asked
      /\ index = [components |-> << >>, connections |-> << >>]
  BY DEF Init
<1>2. ~ scheduled => components = << >> /\ connections = << >>
  BY GraphsAreLoaded DEF Init
<1>3. components = << >> /\ connections = << >> =>
        Indexed = [components |-> << >>, connections |-> << >>]
  <2> SUFFICES ASSUME components = << >>, connections = << >>
               PROVE  Indexed = [components |-> << >>, connections |-> << >>]
    OBVIOUS
  <2>1. Range(connections) = {} /\ DOMAIN components = {}
    BY DEF Range
  <2>2. \A S, e : S = {} => [x \in S |-> e] = << >>
    OBVIOUS
  <2>3. Indexed.components = << >>
    BY <2>1 DEF Indexed
  <2>4. Indexed.connections = << >>
    BY <2>1 DEF Indexed
  <2>5. Indexed = [components |-> Indexed.components, connections |-> Indexed.connections]
    BY DEF Indexed
  <2> QED
    BY <2>3, <2>4, <2>5
<1> QED
  BY <1>1, <1>2, <1>3
  DEF DrawInv, CleanIndexIsCurrent, DirtyIndexIsScheduled, LinesAreCurrent,
      BoxesAreCurrent, DetailIsCurrent, CameraIsCurrent, MarksAsk

\* Changes of the graph that emit a signal, or are in a batch.
LEMMA ListEditDraw ==
    ASSUME ViewInv,
           AddComponent \/ RemoveComponent \/ AddConnection \/ RemoveConnection \/ Clear
             \/ BeginBatchUpdate \/ EndBatchUpdate
    PROVE  DrawInv'
<1>1. UNCHANGED << viewVars, sceneVars >>
  BY EditMarks DEF GraphEdit
<1>2. RequestGraphRebuild \/ (Unnoticed /\ batch')
  BY DEF AddComponent, RemoveComponent, AddConnection, RemoveConnection, Clear,
         BeginBatchUpdate, EndBatchUpdate, Emits
<1> QED
  BY <1>1, <1>2, RequestKeeps, UnnoticedKeeps DEF ViewInv

\* Changes of objects, observed or not.
LEMMA ObjectEditDraw ==
    ASSUME ViewInv, MoveComponent \/ ReverseConnection
    PROVE  DrawInv'
<1>1. UNCHANGED << viewVars, sceneVars >> /\ batch' = batch
  BY EditMarks DEF GraphEdit, MoveComponent, ReverseConnection
<1>2. RequestGraphRebuild \/ (Unnoticed /\ \E object \in Objects : object \notin observed)
  BY DEF MoveComponent, ReverseConnection, Objects
<1> QED
  BY <1>1, <1>2, RequestKeeps, UnnoticedKeeps, UnobservedObject DEF ViewInv

\* A colour that changes touches the boxes only, which are marked.
LEMMA PaintDraw ==
    ASSUME ViewInv, PaintComponent
    PROVE  DrawInv'
<1>1. /\ UNCHANGED << viewVars, sceneVars >>
      /\ UNCHANGED << components, place, connections, ends, batch, deleted >>
  BY EditMarks DEF GraphEdit, PaintComponent
<1>2. RequestComponentRepaint \/ (Unnoticed /\ \E object \in Objects : object \notin observed)
  BY DEF PaintComponent, Objects
<1>3. CASE RequestComponentRepaint
  <2>1. Indexed' = Indexed /\ Objects' = Objects /\ DrawnConnections' = DrawnConnections
    BY <1>1, IndexedSame, LinesSame DEF viewVars
  <2> QED
    BY <1>1, <1>3, <2>1
    DEF RequestComponentRepaint, ViewInv, DrawInv, viewVars, sceneVars, itemVars,
        CleanIndexIsCurrent, DirtyIndexIsScheduled, LinesAreCurrent, BoxesAreCurrent,
        DetailIsCurrent, CameraIsCurrent, MarksAsk, View
<1> QED
  BY <1>1, <1>2, <1>3, UnnoticedKeeps, UnobservedObject DEF ViewInv

\* Building the index makes it that of the graph.
LEMMA EnsureStep ==
    ASSUME ViewInv, EnsureSpatialIndex, UNCHANGED graphVars
    PROVE  /\ CleanIndexIsCurrent' /\ DirtyIndexIsScheduled'
           /\ Indexed' = Indexed
<1>1. Indexed' = Indexed /\ Objects' = Objects /\ batch' = batch
  BY IndexedSame DEF graphVars
<1> QED
  BY <1>1 DEF EnsureSpatialIndex, Ensured, ViewInv, DrawInv, CleanIndexIsCurrent,
              DirtyIndexIsScheduled, Objects

\* A hit test may clean the index; the marks stay for the timer and the frame.
LEMMA HitTestDraw ==
    ASSUME ViewInv, HitTest
    PROVE  DrawInv'
<1>1. /\ CleanIndexIsCurrent' /\ DirtyIndexIsScheduled'
  BY EnsureStep DEF HitTest
<1>2. DrawnConnections' = DrawnConnections /\ BoxesFor(picture.from[1])' = BoxesFor(picture.from[1])
  BY LinesSame, BoxesSame DEF HitTest, graphVars, viewVars, sceneVars
<1> QED
  BY <1>1, <1>2
  DEF HitTest, graphVars, viewVars, dirtyVars, sceneVars, ViewInv, DrawInv, LinesAreCurrent,
      BoxesAreCurrent, DetailIsCurrent, CameraIsCurrent, MarksAsk, View

\* The timer marks lines and boxes again, for what was drawn in the meantime.
LEMMA TimerDraw ==
    ASSUME ViewInv, ExecuteScheduledGraphRebuild
    PROVE  DrawInv'
<1>1. /\ CleanIndexIsCurrent' /\ DirtyIndexIsScheduled'
  BY EnsureStep DEF ExecuteScheduledGraphRebuild
<1> QED
  BY <1>1
  DEF ExecuteScheduledGraphRebuild, viewVars, sceneVars, ViewInv, DrawInv, LinesAreCurrent,
      BoxesAreCurrent, DetailIsCurrent, CameraIsCurrent, MarksAsk

\* A scene that is lost is drawn from nothing by the frame it asks for.
LEMMA LoseSceneDraw ==
    ASSUME ViewInv, LoseScene
    PROVE  DrawInv'
<1>1. Indexed' = Indexed /\ Objects' = Objects
  BY IndexedSame DEF LoseScene, graphVars
<1> QED
  BY <1>1
  DEF LoseScene, graphVars, viewVars, itemVars, ViewInv, DrawInv, CleanIndexIsCurrent,
      DirtyIndexIsScheduled, LinesAreCurrent, BoxesAreCurrent, DetailIsCurrent,
      CameraIsCurrent, MarksAsk

\* The camera and the size touch neither the graph nor its index.
LEMMA CameraDraw ==
    ASSUME ViewInv, MoveCamera \/ GeometryChange
    PROVE  DrawInv'
<1>1. UNCHANGED << graphVars, selected, itemVars, graphDirty, sceneVars >>
  BY DEF MoveCamera, GeometryChange
<1>2. asked' /\ cameraDirty' /\ (componentDirty' \/ componentDirty' = componentDirty)
  BY DEF MoveCamera, GeometryChange
<1>3. Indexed' = Indexed /\ Objects' = Objects /\ DrawnConnections' = DrawnConnections
      /\ BoxesFor(picture.from[1])' = BoxesFor(picture.from[1])
  BY <1>1, IndexedSame, LinesSame, BoxesSame DEF graphVars, sceneVars
<1> QED
  BY <1>1, <1>2, <1>3
  DEF graphVars, itemVars, sceneVars, ViewInv, DrawInv, CleanIndexIsCurrent,
      DirtyIndexIsScheduled, LinesAreCurrent, BoxesAreCurrent, DetailIsCurrent,
      CameraIsCurrent, MarksAsk

\* A selection marks what the old or the new one is drawn with.
LEMMA SelectDraw ==
    ASSUME ViewInv, Select
    PROVE  DrawInv'
<1>1. UNCHANGED << graphVars, camera, extent, itemVars, cameraDirty, sceneVars >> /\ asked'
  BY DEF Select
<1>2. Indexed' = Indexed /\ Objects' = Objects
  BY <1>1, IndexedSame DEF graphVars
<1>3. CleanIndexIsCurrent' /\ DirtyIndexIsScheduled'
  BY <1>1, <1>2 DEF graphVars, itemVars, ViewInv, DrawInv, CleanIndexIsCurrent,
                    DirtyIndexIsScheduled
<1>4. LinesAreCurrent'
  <2> SUFFICES ASSUME ~ graphDirty'
               PROVE  ~ graphDirty /\ DrawnConnections' = DrawnConnections
    BY <1>1 DEF graphVars, itemVars, sceneVars, ViewInv, DrawInv, LinesAreCurrent
  <2>1. ~ graphDirty /\ {selected, selected'} \cap Connection = {}
    BY DEF Select
  <2>2. \A connection \in DOMAIN Indexed.connections : connection \in Connection
    BY DEF Indexed, Range, ViewInv, Types, GraphTypes
  <2>3. \A connection \in DOMAIN Indexed.connections :
           IsSelected(connection)' = IsSelected(connection)
    BY <2>1, <2>2 DEF IsSelected
  <2> QED
    BY <1>2, <2>1, <2>3 DEF DrawnConnections
<1>5. BoxesAreCurrent'
  <2> SUFFICES ASSUME ~ componentDirty'
               PROVE  /\ ~ componentDirty
                      /\ BoxesFor(picture.from[1])' = BoxesFor(picture.from[1])
    BY <1>1 DEF graphVars, itemVars, sceneVars, ViewInv, DrawInv, BoxesAreCurrent
  <2>1. ~ componentDirty /\ {selected, selected'} \cap Component = {}
    BY DEF Select
  <2>2. \A i \in DOMAIN components : components[i] \in Component
    BY DEF ViewInv, Types, GraphTypes
  <2>3. \A i \in DOMAIN components :
           (selected' = components[i]) = (selected = components[i])
    BY <2>1, <2>2
  <2> QED
    BY <1>1, <2>1, <2>3 DEF BoxesFor, IsSelected, graphVars, sceneVars
<1>6. DetailIsCurrent' /\ CameraIsCurrent' /\ MarksAsk'
  <2>1. componentDirty' \/ ~ componentDirty
    BY DEF Select, ViewInv, Types, RestTypes
  <2> QED
    BY <1>1, <2>1 DEF sceneVars, ViewInv, DrawInv, DetailIsCurrent, CameraIsCurrent, MarksAsk
<1> QED
  BY <1>3, <1>4, <1>5, <1>6 DEF DrawInv

\* A frame draws what is marked, or all of it on a new scene.
LEMMA FrameDraw ==
    ASSUME ViewInv, UpdatePaintNode
    PROVE  DrawInv'
<1> DEFINE graphNow == graphDirty \/ ~ scene
           cameraNow == cameraDirty \/ ~ scene
           detailNow == IF cameraNow THEN Detail(camera.zoom) ELSE detail
           componentNow == componentDirty \/ ~ scene \/ detailNow # detail
           before == IF scene THEN picture ELSE Blank
<1>1. /\ UNCHANGED << graphVars, viewVars, itemVars >> /\ View' = View
      /\ asked' = FALSE /\ scene' = TRUE
  BY DEF UpdatePaintNode, viewVars, View
<1>2. /\ Indexed' = Indexed /\ Objects' = Objects
      /\ DrawnConnections' = DrawnConnections
  BY <1>1, IndexedSame, LinesSame DEF graphVars, viewVars
<1>3. CleanIndexIsCurrent' /\ DirtyIndexIsScheduled'
  BY <1>1, <1>2 DEF graphVars, itemVars, ViewInv, DrawInv, CleanIndexIsCurrent,
                    DirtyIndexIsScheduled
<1>4. /\ picture'.from[1] = View => BoxesFor(picture.from[1])' = BoxesFor(View)
      /\ picture'.from[1] = picture.from[1] =>
           BoxesFor(picture.from[1])' = BoxesFor(picture.from[1])
  BY <1>1 DEF BoxesFor, IsSelected, graphVars, viewVars
<1>5. ~ batch /\ ~ scheduled => index = Indexed
  BY DEF ViewInv, DrawInv, Types, RestTypes, CleanIndexIsCurrent, DirtyIndexIsScheduled
<1>6. CASE Hidden(View)
  <2>1. /\ graphDirty' = graphNow /\ cameraDirty' = cameraNow
        /\ componentDirty' = (componentDirty \/ ~ scene)
        /\ picture' = before /\ detail' = detail
    BY <1>6 DEF UpdatePaintNode
  <2>2. scene => picture' = picture
    BY <2>1
  <2>3. LinesAreCurrent' /\ DetailIsCurrent' /\ CameraIsCurrent'
    BY <1>1, <1>2, <2>1, <2>2 DEF graphVars, viewVars, itemVars, ViewInv, DrawInv,
       LinesAreCurrent, DetailIsCurrent, CameraIsCurrent
  <2>4. BoxesAreCurrent'
    BY <1>1, <1>4, <2>1, <2>2 DEF graphVars, itemVars, ViewInv, DrawInv, BoxesAreCurrent
  <2>5. MarksAsk'
    BY <1>1, <1>6 DEF MarksAsk, Hidden, View
  <2> QED
    BY <1>3, <2>3, <2>4, <2>5 DEF DrawInv
<1>7. CASE ~ Hidden(View)
  <2>1. /\ graphDirty' = FALSE /\ cameraDirty' = FALSE /\ componentDirty' = FALSE
        /\ detail' = detailNow
        /\ picture'.connections = IF graphNow THEN DrawnConnections ELSE before.connections
        /\ picture'.camera = IF cameraNow THEN camera ELSE before.camera
        /\ picture'.components = IF componentNow THEN DrawnComponents(index, View)
                                 ELSE before.components
        /\ picture'.from = IF componentNow THEN << View, detailNow >> ELSE before.from
    BY <1>7 DEF UpdatePaintNode
  <2>2. ~ graphNow => before = picture /\ scene /\ ~ graphDirty
    OBVIOUS
  <2>3. ~ cameraNow => before = picture /\ scene /\ ~ cameraDirty /\ detailNow = detail
    OBVIOUS
  <2>4. ~ componentNow => before = picture /\ scene /\ ~ componentDirty /\ detailNow = detail
    OBVIOUS
  <2>5. cameraNow => detailNow = Detail(camera.zoom)
    OBVIOUS
  <2> HIDE DEF graphNow, cameraNow, detailNow, componentNow, before
  <2>6. LinesAreCurrent'
    BY <1>1, <1>2, <2>1, <2>2 DEF graphVars, itemVars, ViewInv, DrawInv, LinesAreCurrent
  <2>7. BoxesAreCurrent'
    <3> SUFFICES ASSUME ~ batch, ~ scheduled
                 PROVE  picture'.components = BoxesFor(picture.from[1])'
      BY <1>1 DEF graphVars, itemVars, BoxesAreCurrent
    <3>1. CASE componentNow
      <4>1. picture'.components = BoxesFor(View)
        BY <1>5, <1>7, <2>1, <3>1, DrawnAreCurrent DEF ViewInv
      <4>2. picture'.from[1] = View
        BY <2>1, <3>1
      <4> QED
        BY <1>4, <4>1, <4>2
    <3>2. CASE ~ componentNow
      <4>1. picture.components = BoxesFor(picture.from[1])
        BY <2>4, <3>2 DEF ViewInv, DrawInv, BoxesAreCurrent
      <4>2. picture'.components = picture.components /\ picture'.from = picture.from
        BY <2>1, <2>4, <3>2
      <4> QED
        BY <1>4, <4>1, <4>2
    <3> QED
      BY <3>1, <3>2
  <2>8. DetailIsCurrent'
    BY <2>1, <2>4 DEF ViewInv, DrawInv, DetailIsCurrent
  <2>9. CameraIsCurrent'
    <3>1. camera' = camera
      BY <1>1 DEF viewVars
    <3>2. (detail = Detail(camera.zoom)) = (detail = Detail(camera.zoom))
      OBVIOUS
    <3> QED
      BY <2>1, <2>3, <2>5, <3>1 DEF ViewInv, DrawInv, CameraIsCurrent, Detail
  <2>10. MarksAsk'
    BY <1>1, <2>1 DEF MarksAsk
  <2> QED
    BY <1>3, <2>6, <2>7, <2>8, <2>9, <2>10 DEF DrawInv
<1> QED
  BY <1>6, <1>7

\* The invariant holds at first,
LEMMA InitView == Init => ViewInv
BY InitTypes, InitDraw DEF ViewInv

\* and is preserved by every step.
LEMMA StepView == ViewInv /\ [Next]_vars => ViewInv'
<1> SUFFICES ASSUME ViewInv, [Next]_vars PROVE ViewInv'
  OBVIOUS
<1>1. Types'
  BY StepTypes DEF ViewInv
<1>2. CASE UNCHANGED vars
  <2>1. UNCHANGED << graphVars, viewVars, itemVars, dirtyVars, sceneVars >>
    BY <1>2 DEF vars
  <2>2. Indexed' = Indexed /\ Objects' = Objects /\ DrawnConnections' = DrawnConnections
        /\ BoxesFor(picture.from[1])' = BoxesFor(picture.from[1])
    BY <2>1, IndexedSame, LinesSame, BoxesSame DEF graphVars, viewVars, sceneVars
  <2>3. DrawInv'
    BY <2>1, <2>2
    DEF graphVars, viewVars, itemVars, dirtyVars, sceneVars, ViewInv, DrawInv,
        CleanIndexIsCurrent, DirtyIndexIsScheduled, LinesAreCurrent, BoxesAreCurrent,
        DetailIsCurrent, CameraIsCurrent, MarksAsk, View
  <2> QED
    BY <1>1, <2>3 DEF ViewInv
<1> QED
  BY <1>1, <1>2, HitTestDraw, FrameDraw, LoseSceneDraw, TimerDraw, ListEditDraw,
     ObjectEditDraw, PaintDraw, CameraDraw, SelectDraw DEF Next, ViewInv

----------------------------------------------------------------------------
(* The theorems. *)

\* The cells of the index, the objects that died and the box around a route lose
\* no hit that a scan of the graph would find.
LEMMA IndexFindsAll ==
    ASSUME Types, NEW point \in Int \X Int, NEW t \in Nat
    PROVE  LET now == Indexed.connections
               distance == Distances(now, point)
               at == {i \in DOMAIN components : Holds(RectAt(place[components[i]]), point)}
               near == {e \in DOMAIN now : distance[e] <= t * t}
           IN  /\ HitTestComponent(Indexed, point)
                    = IF at = {} THEN Nobody ELSE components[Max(at)]
               /\ HitTestConnection(Indexed, point, t) = Nearest(near, distance)
<1> DEFINE now == Indexed.connections
           distance == Distances(now, point)
           rect(i) == RectAt(place[components[i]])
           at == {i \in DOMAIN components : Holds(rect(i), point)}
           near == {e \in DOMAIN now : distance[e] <= t * t}
           cell == << point[1] \div CellSize, point[2] \div CellSize >>
           probe == [left |-> point[1] - t, right  |-> point[1] + t,
                     top  |-> point[2] - t, bottom |-> point[2] + t]
<1>1. HitTestComponent(Indexed, point) = IF at = {} THEN Nobody ELSE components[Max(at)]
  <2>1. /\ DOMAIN Indexed.components = DOMAIN components
        /\ \A i \in DOMAIN components :
              /\ Indexed.components[i].object = components[i]
              /\ Indexed.components[i].rect = rect(i)
    BY DEF Indexed
  <2>2. \A i \in DOMAIN components : rect(i) \in Rectangles /\ Alive(components[i])
    <3>1. \A i \in DOMAIN components : components[i] \in Component
      BY DEF Types, GraphTypes
    <3>2. \A i \in DOMAIN components : components[i] \in Range(components)
      BY DEF Range
    <3>3. \A i \in DOMAIN components : rect(i) \in Rectangles
      BY <3>1, RectAtIsRectangle DEF Types, GraphTypes
    <3> QED
      BY <3>2, <3>3 DEF Types, GraphTypes, Objects, Alive
  <2>3. \A i \in DOMAIN components :
           Holds(rect(i), point) => cell \in CellRangeForRect(rect(i))
    BY <2>2, PointInCell
  <2> DEFINE hit == {i \in DOMAIN Indexed.components :
                       /\ cell \in CellRangeForRect(Indexed.components[i].rect)
                       /\ Alive(Indexed.components[i].object)
                       /\ Holds(Indexed.components[i].rect, point)}
  <2>4. hit = {i \in DOMAIN components :
                 cell \in CellRangeForRect(rect(i)) /\ Alive(components[i]) /\ Holds(rect(i), point)}
    <3> HIDE DEF cell, rect
    <3> QED
      BY <2>1
  <2>5. hit = at
    <3> HIDE DEF cell, rect, hit
    <3> QED
      BY <2>2, <2>3, <2>4
  <2>6. HitTestComponent(Indexed, point)
          = IF hit = {} THEN Nobody ELSE Indexed.components[Max(hit)].object
    BY DEF HitTestComponent
  <2>7. at # {} => Max(at) \in DOMAIN components
    <3>2. DOMAIN components = 1 .. Len(components) /\ Len(components) \in Nat
      BY DEF Types, GraphTypes
    <3>3. at \in SUBSET (1 .. Len(components))
      BY <3>2
    <3> HIDE DEF at
    <3> QED
      BY <3>2, <3>3, MaxOfPositions
  <2> HIDE DEF hit, at
  <2> QED
    BY <2>1, <2>5, <2>6, <2>7
<1>2. HitTestConnection(Indexed, point, t) = Nearest(near, distance)
  <2>1. \A e \in DOMAIN now : e \in Connection /\ Alive(e) /\ now[e] \in Routes
    <3>1. ASSUME NEW e \in DOMAIN now
          PROVE  /\ e \in Range(connections)
                 /\ now[e] = Route(RectAt(place[ends[e][1]]), RectAt(place[ends[e][2]]))
      BY DEF Indexed
    <3>2. \A e \in Range(connections) : e \in Connection /\ Alive(e)
      BY DEF Types, GraphTypes, Objects, Alive, Range
    <3>3. \A e \in Connection : place[ends[e][1]] \in Places /\ place[ends[e][2]] \in Places
      BY DEF Types, GraphTypes
    <3> HIDE DEF now
    <3> QED
      BY <3>1, <3>2, <3>3, RoutesAreLines DEF Routes
  <2>2. \A e \in DOMAIN now :
           distance[e] = Min({DistanceToSegmentSquared(point, segment) : segment \in Segments(now[e])})
    BY DEF Distances
  <2>3. \A e \in DOMAIN now :
           distance[e] <= t * t =>
              /\ Holds(Adjusted(Bounds(now[e]), t), point)
              /\ CellRangeForRect(probe) \cap CellRangeForRect(Bounds(now[e])) # {}
    <3> HIDE DEF now, distance
    <3> QED
      BY <2>1, <2>2, NearPoint
  <2> DEFINE found == {e \in DOMAIN now :
                         /\ CellRangeForRect(probe) \cap CellRangeForRect(Bounds(now[e])) # {}
                         /\ Alive(e)
                         /\ Holds(Adjusted(Bounds(now[e]), t), point)
                         /\ distance[e] <= t * t}
  <2>4. HitTestConnection(Indexed, point, t) = Nearest(found, distance)
    BY DEF HitTestConnection
  <2>5. found = near
    <3> HIDE DEF now, distance, probe
    <3> QED
      BY <2>1, <2>3
  <2> QED
    BY <2>4, <2>5
<1> QED
  BY <1>1, <1>2

\* A hit test finds what a scan of the graph as it is would find, for any
\* graphs, sizes, cells, routes, points and zooms, and in whatever order edits,
\* timers, frames and hit tests come.
THEOREM HitTestsAreExact == Spec => []HitTestIsExact
<1>1. ViewInv => HitTestIsExact
  <2> SUFFICES ASSUME ViewInv, ~ batch, NEW point \in Probes
               PROVE  LET found == Ensured
                          now == Indexed.connections
                          tolerance == Tolerance(camera.zoom)
                          at == {i \in DOMAIN components :
                                   Holds(RectAt(place[components[i]]), point)}
                          distance == Distances(now, point)
                          near == {e \in DOMAIN now : distance[e] <= tolerance * tolerance}
                      IN  /\ HitTestComponent(found, point)
                               = IF at = {} THEN Nobody ELSE components[Max(at)]
                          /\ HitTestConnection(found, point, tolerance) = Nearest(near, distance)
    BY DEF HitTestIsExact
  <2>1. Ensured = Indexed
    BY DEF Ensured, ViewInv, DrawInv, Types, RestTypes, CleanIndexIsCurrent
  <2>2. Tolerance(camera.zoom) \in Nat
    <3> DEFINE b == (TolerancePx * 10) \div camera.zoom
    <3>1. b \in Int /\ 1 \in Int
      BY SizesArePositive DEF ViewInv, Types, RestTypes
    <3> HIDE DEF b
    <3>2. Max({1, b}) \in {1, b} /\ 1 <= Max({1, b})
      BY <3>1, MaxOfTwo
    <3>3. Max({1, b}) \in Nat
      BY <3>1, <3>2
    <3> QED
      BY <3>3 DEF Tolerance, b
  <2>3. point \in Int \X Int
    BY PointsAreIntegers
  <2> QED
    BY <2>1, <2>2, <2>3, IndexFindsAll DEF ViewInv
<1> QED
  BY <1>1, InitView, StepView, PTL DEF Spec

\* No change is lost between signals, timers and frames: when none of them is
\* outstanding, the picture is that of the graph, the camera and the selection.
THEOREM PicturesAreCurrent == Spec => []PictureIsCurrent
<1>1. ViewInv => PictureIsCurrent
  <2> SUFFICES ASSUME ViewInv, ~ batch, ~ Hidden(View), ~ asked, ~ scheduled
               PROVE  /\ picture.camera = camera
                      /\ picture.connections = DrawnConnections
                      /\ picture.from[2] = Detail(camera.zoom)
                      /\ picture.components = BoxesFor(picture.from[1])
    BY DEF PictureIsCurrent, BoxesFor
  <2>1. scene /\ ~ graphDirty /\ ~ cameraDirty /\ ~ componentDirty
    BY DEF ViewInv, DrawInv, MarksAsk
  <2> QED
    BY <2>1 DEF ViewInv, DrawInv, LinesAreCurrent, BoxesAreCurrent, DetailIsCurrent,
                CameraIsCurrent
<1> QED
  BY <1>1, InitView, StepView, PTL DEF Spec

=============================================================================
