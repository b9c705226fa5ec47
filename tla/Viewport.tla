------------------------------ MODULE Viewport ------------------------------
(***************************************************************************)
(* GraphViewportItem: the canvas that draws the graph and finds what is    *)
(* under the mouse.  It keeps a spatial index of the graph (components and *)
(* routes by the square cells they touch), observes the objects that were  *)
(* in the graph when the index was built, and marks with dirty flags what  *)
(* the next frame has to draw again; the index is built again by a timer   *)
(* of the event loop or by the first hit test that needs it, never by a    *)
(* frame.                                                                  *)
(*                                                                         *)
(* A rectangle is a record of its left, top, right and bottom, a point a   *)
(* pair, zoom counts tenths.  The routes of connections are those of the   *)
(* routing engine, here any function of the two rectangles whose segments  *)
(* are horizontal or vertical.  Labels, the grid, the temporary connection *)
(* and line styles are left out.                                           *)
(***************************************************************************)
EXTENDS Integers, Sequences, FiniteSets, SequencesExt, FiniteSetsExt

CONSTANTS
    Component, Connection,
    Places,             \* where the centre of a component may be
    Colours, Default,   \* the colours of a component, and of a new one
    Width, Height,      \* of every component
    Cameras,            \* the values of pan and zoom
    Extents,            \* the sizes of the item; 0 by 0 while it is hidden
    Route(_, _),        \* the route between two rectangles
    CellSize,           \* of the spatial index
    TolerancePx,        \* of a connection hit, in pixels
    Probes,             \* the points of the hit tests, in the world
    Graphs,             \* what the graph holds, and the size, when it is first drawn
    Nobody,             \* nothing is selected
    MaxEdits            \* bound: changes of the graph, the camera and so on

ASSUME SizesArePositive ==
    /\ {Width, Height, TolerancePx} \subseteq Nat
    /\ CellSize \in Nat \ {0}

ASSUME PointsAreIntegers ==
    /\ Places \cup Probes \cup Extents \subseteq Int \X Int
    /\ \A camera \in Cameras : camera.pan \in Int \X Int /\ camera.zoom \in Nat \ {0}

\* A graph without components has no connections.
ASSUME GraphsAreLoaded ==
    \A graph \in Graphs :
        /\ graph.components \in Seq(Component) /\ graph.place \in [Component -> Places]
        /\ graph.connections \in Seq(Connection)
        /\ graph.ends \in [Connection -> Component \X Component]
        /\ graph.components = << >> => graph.connections = << >>
        /\ graph.extent \in Extents

VARIABLES
    components, place, colour,  \* the graph: a list of components and their state,
    connections, ends,          \* a list of connections and what they connect
    batch,
    deleted,            \* objects that were destroyed
    camera, extent, selected,
    index,              \* the components with their rectangles, the connections with their routes
    observed,           \* the objects whose signals the item is connected to
    indexDirty, graphDirty, cameraDirty, componentDirty,
    scheduled,          \* a timer will build the index again
    asked,              \* a frame was asked for by update()
    scene,              \* the nodes of the scene graph exist
    detail,             \* what the zoom lets be seen of a component
    picture,            \* what the nodes show
    edits

graphVars == << components, place, colour, connections, ends, batch, deleted >>
viewVars == << camera, extent, selected >>
itemVars == << index, observed, indexDirty, scheduled >>
dirtyVars == << graphDirty, cameraDirty, componentDirty, asked >>
sceneVars == << scene, detail, picture >>
vars == << graphVars, viewVars, itemVars, dirtyVars, sceneVars, edits >>

Alive(object) == object \notin deleted

----------------------------------------------------------------------------
(* Geometry. *)

RectAt(centre) ==
    [left |-> centre[1] - Width \div 2, right  |-> centre[1] + Width \div 2,
     top  |-> centre[2] - Height \div 2, bottom |-> centre[2] + Height \div 2]

\* A route has a segment at least.
ASSUME RoutesAreLines ==
    \A from, to \in Places :
        LET route == Route(RectAt(from), RectAt(to))
        IN  route \in Seq(Int \X Int) /\ Len(route) > 1

Adjusted(rect, by) ==
    [left |-> rect.left - by, right |-> rect.right + by,
     top |-> rect.top - by, bottom |-> rect.bottom + by]

Holds(rect, point) ==
    /\ rect.left <= point[1] /\ point[1] <= rect.right
    /\ rect.top <= point[2] /\ point[2] <= rect.bottom

Intersects(rect, other) ==
    /\ rect.left < other.right /\ other.left < rect.right
    /\ rect.top < other.bottom /\ other.top < rect.bottom

Bounds(points) ==
    LET xs == {points[i][1] : i \in DOMAIN points}
        ys == {points[i][2] : i \in DOMAIN points}
    IN  [left |-> Min(xs), right |-> Max(xs), top |-> Min(ys), bottom |-> Max(ys)]

\* The squared distance to a horizontal or vertical segment.
DistanceToSegmentSquared(point, segment) ==
    LET box == Bounds(segment)
        dx == Max({box.left - point[1], 0, point[1] - box.right})
        dy == Max({box.top - point[2], 0, point[2] - box.bottom})
    IN  dx * dx + dy * dy

Segments(route) == {<< route[i - 1], route[i] >> : i \in 2 .. Len(route)}

\* The squared distance of a point to each of some routes.
Distances(routes, point) ==
    [connection \in DOMAIN routes |->
        Min({DistanceToSegmentSquared(point, segment) : segment \in Segments(routes[connection])})]

Nearest(near, distance) == {e \in near : \A f \in near : distance[e] <= distance[f]}

CellRangeForRect(rect) ==
    ((rect.left \div CellSize) .. (rect.right \div CellSize))
    \X ((rect.top \div CellSize) .. (rect.bottom \div CellSize))

\* A point of the item in the world.
ViewToWorld(view, point) ==
    [k \in 1 .. 2 |-> ((point[k] - view.camera.pan[k]) * 10) \div view.camera.zoom]

\* What is visible of the world, with a margin around it.
VisibleWorld(view) ==
    LET from == ViewToWorld(view, << 0, 0 >>)
        to   == ViewToWorld(view, view.extent)
    IN  Adjusted([left |-> from[1], top |-> from[2], right |-> to[1], bottom |-> to[2]],
                 Max({40, 1200 \div view.camera.zoom}))

Hidden(view) == view.extent[1] <= 0 \/ view.extent[2] <= 0

View == [camera |-> camera, extent |-> extent]

----------------------------------------------------------------------------
(* The spatial index. *)

\* rebuildSpatialIndex(): connections that lack an end are not in it.
Indexed ==
    LET routed == {connection \in Range(connections) :
                      \A k \in 1 .. 2 : ends[connection][k] \in Range(components)}
        RectOf(component) == RectAt(place[component])
    IN  [components  |-> [i \in DOMAIN components |->
                             [object |-> components[i], rect |-> RectOf(components[i])]],
         connections |-> [connection \in routed |->
                             Route(RectOf(ends[connection][1]), RectOf(ends[connection][2]))]]

\* The index as ensureSpatialIndex() leaves it.
Ensured == IF indexDirty THEN Indexed ELSE index

EnsureSpatialIndex ==
    /\ index' = Ensured
    /\ observed' = IF indexDirty THEN Range(components) \cup Range(connections) ELSE observed
    /\ indexDirty' = FALSE

\* hitTestComponentAtView(): the last of the cell's components at the point.
HitTestComponent(of, point) ==
    LET cell == << point[1] \div CellSize, point[2] \div CellSize >>
        hit == {i \in DOMAIN of.components :
                   /\ cell \in CellRangeForRect(of.components[i].rect)
                   /\ Alive(of.components[i].object)
                   /\ Holds(of.components[i].rect, point)}
    IN  IF hit = {} THEN Nobody ELSE of.components[Max(hit)].object

Tolerance(zoom) == Max({1, (TolerancePx * 10) \div zoom})

\* hitTestConnectionAtView(): the nearest connection in the cells around the
\* point; of several the first in the order of the cells, here any of the set.
HitTestConnection(of, point, tolerance) ==
    LET probe == [left |-> point[1] - tolerance, right  |-> point[1] + tolerance,
                  top  |-> point[2] - tolerance, bottom |-> point[2] + tolerance]
        distance == Distances(of.connections, point)
        near == {connection \in DOMAIN of.connections :
                    LET bounds == Bounds(of.connections[connection])
                    IN  /\ CellRangeForRect(probe) \cap CellRangeForRect(bounds) # {}
                        /\ Alive(connection)
                        /\ Holds(Adjusted(bounds, tolerance), point)
                        /\ distance[connection] <= tolerance * tolerance}
    IN  Nearest(near, distance)

HitTest ==
    /\ EnsureSpatialIndex
    /\ UNCHANGED << graphVars, viewVars, dirtyVars, scheduled, sceneVars, edits >>

----------------------------------------------------------------------------
(* What is drawn. *)

IsSelected(object) == selected = object

\* updateConnectionsGeometry(): from the graph as it is.
DrawnConnections ==
    LET now == Indexed.connections
    IN  [connection \in DOMAIN now |->
            [route |-> now[connection], selected |-> IsSelected(connection)]]

\* visibleComponentsSnapshot(): the entries of an index that are in sight.
VisibleComponents(of, view) ==
    LET seen == VisibleWorld(view)
    IN  {i \in DOMAIN of.components :
            /\ CellRangeForRect(of.components[i].rect) \cap CellRangeForRect(seen) # {}
            /\ Alive(of.components[i].object)
            /\ Intersects(of.components[i].rect, seen)}

\* updateComponentGeometry(): the rectangle is the index's, the rest is live.
DrawnComponents(of, view) ==
    [i \in VisibleComponents(of, view) |->
        [rect |-> of.components[i].rect, colour |-> colour[of.components[i].object],
         selected |-> IsSelected(of.components[i].object)]]

\* updateLodState().
Detail(zoom) == [labels |-> zoom * 10 >= 68, outlines |-> zoom * 10 >= 50]

Blank == [connections |-> << >>, components |-> << >>, camera |-> Nobody, from |-> Nobody]

\* updatePaintNode(): on a new scene everything is drawn, hidden or not yet.
UpdatePaintNode ==
    /\ asked /\ asked' = FALSE /\ scene' = TRUE
    /\ LET graphNow == graphDirty \/ ~ scene
           cameraNow == cameraDirty \/ ~ scene
           detailNow == IF cameraNow THEN Detail(camera.zoom) ELSE detail
           componentNow == componentDirty \/ ~ scene \/ detailNow # detail
           before == IF scene THEN picture ELSE Blank
       IN  IF Hidden(View)
           THEN /\ graphDirty' = graphNow /\ cameraDirty' = cameraNow
                /\ componentDirty' = (componentDirty \/ ~ scene)
                /\ picture' = before
                /\ UNCHANGED detail
           ELSE /\ graphDirty' = FALSE /\ cameraDirty' = FALSE /\ componentDirty' = FALSE
                /\ detail' = detailNow
                /\ picture' =
                     [connections |-> IF graphNow THEN DrawnConnections ELSE before.connections,
                      camera      |-> IF cameraNow THEN camera ELSE before.camera,
                      components  |-> IF componentNow THEN DrawnComponents(index, View)
                                      ELSE before.components,
                      from        |-> IF componentNow THEN << View, detailNow >> ELSE before.from]
    /\ UNCHANGED << graphVars, viewVars, itemVars, edits >>

\* The window's scene graph is lost, with all nodes; it asks for a frame.
LoseScene ==
    /\ edits < MaxEdits /\ edits' = edits + 1
    /\ scene /\ scene' = FALSE /\ asked' = TRUE
    /\ UNCHANGED << graphVars, viewVars, itemVars, graphDirty, cameraDirty, componentDirty,
                    detail, picture >>

----------------------------------------------------------------------------
(* Changes and what they mark. *)

\* Mutant of RequestGraphRebuild: the index is not marked.
RequestGraphRebuildOnScreen ==
    /\ graphDirty' = TRUE /\ componentDirty' = TRUE
    /\ scheduled' = TRUE /\ asked' = TRUE
    /\ UNCHANGED << index, observed, indexDirty, cameraDirty >>

RequestGraphRebuild ==
    /\ indexDirty' = TRUE /\ graphDirty' = TRUE /\ componentDirty' = TRUE
    /\ scheduled' = TRUE /\ asked' = TRUE
    /\ UNCHANGED << index, observed, cameraDirty >>

RequestComponentRepaint ==
    /\ componentDirty' = TRUE /\ asked' = TRUE
    /\ UNCHANGED << itemVars, graphDirty, cameraDirty >>

Unnoticed == UNCHANGED << itemVars, dirtyVars >>

\* Mutant of ExecuteScheduledGraphRebuild: the components are not drawn again.
ExecuteScheduledGraphRebuildQuietly ==
    /\ scheduled /\ scheduled' = FALSE
    /\ EnsureSpatialIndex
    /\ graphDirty' = TRUE /\ asked' = TRUE
    /\ UNCHANGED << graphVars, viewVars, cameraDirty, componentDirty, sceneVars, edits >>

\* The timer: the frame that came before it drew the components of the old index.
ExecuteScheduledGraphRebuild ==
    /\ scheduled /\ scheduled' = FALSE
    /\ EnsureSpatialIndex
    /\ graphDirty' = TRUE /\ componentDirty' = TRUE /\ asked' = TRUE
    /\ UNCHANGED << graphVars, viewVars, cameraDirty, sceneVars, edits >>

Edit ==
    /\ edits < MaxEdits /\ edits' = edits + 1
    /\ UNCHANGED << viewVars, sceneVars >>

\* GraphModel emits componentsChanged or connectionsChanged, which are what
\* the item listens to; in a batch additions do not.
Emits(always) == IF always \/ ~ batch THEN RequestGraphRebuild ELSE Unnoticed

AddComponent ==
    /\ Edit
    /\ \E component \in {c \in Component : Alive(c)} \ Range(components), at \in Places :
          /\ components' = Append(components, component)
          /\ place' = [place EXCEPT ![component] = at]
    /\ Emits(FALSE)
    /\ UNCHANGED << colour, connections, ends, batch, deleted >>

RemoveComponent ==
    /\ Edit
    /\ \E i \in DOMAIN components : components' = RemoveAt(components, i)
    /\ Emits(TRUE)
    /\ UNCHANGED << place, colour, connections, ends, batch, deleted >>

AddConnection ==
    /\ Edit
    /\ \E connection \in {e \in Connection : Alive(e)} \ Range(connections) :
          connections' = Append(connections, connection)
    /\ Emits(FALSE)
    /\ UNCHANGED << components, place, colour, ends, batch, deleted >>

RemoveConnection ==
    /\ Edit
    /\ \E i \in DOMAIN connections : connections' = RemoveAt(connections, i)
    /\ Emits(TRUE)
    /\ UNCHANGED << components, place, colour, ends, batch, deleted >>

\* GraphModel::clear(), which destroys the objects.
Clear ==
    /\ Edit
    /\ components # << >> \/ connections # << >>
    /\ deleted' = deleted \cup Range(components) \cup Range(connections)
    /\ components' = << >> /\ connections' = << >>
    /\ Emits(FALSE)
    /\ UNCHANGED << place, colour, ends, batch >>

BeginBatchUpdate ==
    /\ Edit
    /\ ~ batch /\ batch' = TRUE
    /\ Unnoticed
    /\ UNCHANGED << components, place, colour, connections, ends, deleted >>

EndBatchUpdate ==
    /\ edits' = edits /\ UNCHANGED << viewVars, sceneVars >>
    /\ batch /\ batch' = FALSE
    /\ RequestGraphRebuild
    /\ UNCHANGED << components, place, colour, connections, ends, deleted >>

\* The setters of the objects: their signals reach the item if it observes them.
MoveComponent ==
    /\ Edit
    /\ \E component \in Range(components), to \in Places :
          /\ place[component] # to
          /\ place' = [place EXCEPT ![component] = to]
          /\ IF component \in observed THEN RequestGraphRebuild ELSE Unnoticed
    /\ UNCHANGED << components, colour, connections, ends, batch, deleted >>

PaintComponent ==
    /\ Edit
    /\ \E component \in Range(components), to \in Colours :
          /\ colour[component] # to
          /\ colour' = [colour EXCEPT ![component] = to]
          /\ IF component \in observed THEN RequestComponentRepaint ELSE Unnoticed
    /\ UNCHANGED << components, place, connections, ends, batch, deleted >>

ReverseConnection ==
    /\ Edit
    /\ \E connection \in Range(connections) :
          /\ ends' = [ends EXCEPT ![connection] = Reverse(@)]
          /\ IF connection \in observed THEN RequestGraphRebuild ELSE Unnoticed
    /\ UNCHANGED << components, place, colour, connections, batch, deleted >>

\* setPanX(), setPanY() and setZoom(): only the camera is marked.
MoveCamera ==
    /\ edits < MaxEdits /\ edits' = edits + 1
    /\ camera' \in Cameras \ {camera}
    /\ cameraDirty' = TRUE /\ asked' = TRUE
    /\ UNCHANGED << graphVars, extent, selected, itemVars, graphDirty, componentDirty, sceneVars >>

GeometryChange ==
    /\ edits < MaxEdits /\ edits' = edits + 1
    /\ extent' \in Extents \ {extent}
    /\ cameraDirty' = TRUE /\ componentDirty' = TRUE /\ asked' = TRUE
    /\ UNCHANGED << graphVars, camera, selected, itemVars, graphDirty, sceneVars >>

\* setSelectedComponent() and setSelectedConnection(), one after the other.
Select ==
    /\ edits < MaxEdits /\ edits' = edits + 1
    /\ selected' \in (Range(components) \cup Range(connections) \cup {Nobody}) \ {selected}
    /\ componentDirty' = (componentDirty \/ {selected, selected'} \cap Component # {})
    /\ graphDirty' = (graphDirty \/ {selected, selected'} \cap Connection # {})
    /\ asked' = TRUE
    /\ UNCHANGED << graphVars, camera, extent, itemVars, cameraDirty, sceneVars >>

\* setGraph() was called with an empty graph, which was then loaded: nothing is
\* drawn, and a rebuild is scheduled unless there was nothing to load.
Init ==
    /\ \E loaded \in Graphs :
          /\ components = loaded.components /\ place = loaded.place
          /\ connections = loaded.connections /\ ends = loaded.ends
          /\ scheduled = (components # << >>) /\ extent = loaded.extent
    /\ colour = [component \in Component |-> Default]
    /\ batch = FALSE /\ deleted = {}
    /\ camera = [pan |-> << 0, 0 >>, zoom |-> 10] /\ selected = Nobody
    /\ index = [components |-> << >>, connections |-> << >>] /\ observed = {}
    /\ indexDirty = TRUE /\ graphDirty = TRUE /\ cameraDirty = TRUE /\ componentDirty = TRUE
    /\ asked = TRUE
    /\ scene = FALSE /\ detail = Detail(10) /\ picture = Blank
    /\ edits = 0

Next ==
    \/ HitTest \/ UpdatePaintNode \/ LoseScene \/ ExecuteScheduledGraphRebuild
    \/ AddComponent \/ RemoveComponent \/ AddConnection \/ RemoveConnection \/ Clear
    \/ BeginBatchUpdate \/ EndBatchUpdate
    \/ MoveComponent \/ PaintComponent \/ ReverseConnection
    \/ MoveCamera \/ GeometryChange \/ Select

Spec == Init /\ [][Next]_vars

----------------------------------------------------------------------------

\* A hit test finds what a scan of the graph as it is now would find: the
\* topmost component at the point, and a nearest connection within the
\* tolerance.  This is outside batches, at whatever moment between changes,
\* frames and timers it comes, with cells, observed objects and the index that
\* may be from before: hitTestComponentAtView() and hitTestConnectionAtView().
HitTestIsExact ==
    ~ batch =>
        LET found == Ensured
            now == Indexed.connections
            tolerance == Tolerance(camera.zoom)
        IN  \A point \in Probes :
                LET at == {i \in DOMAIN components : Holds(RectAt(place[components[i]]), point)}
                    distance == Distances(now, point)
                    near == {e \in DOMAIN now : distance[e] <= tolerance * tolerance}
                IN  /\ HitTestComponent(found, point)
                           = IF at = {} THEN Nobody ELSE components[Max(at)]
                    /\ HitTestConnection(found, point, tolerance) = Nearest(near, distance)

\* When no timer and no frame is outstanding, outside a batch and while the item
\* has a size, the picture is current: it shows every connection with its route,
\* every component (culled for the camera under which components were last
\* drawn) with its place, colour and selection, under the camera and with the
\* detail of its zoom.  No change is lost, whatever order the signals, the hit
\* tests, the timer and the frames came in, and whatever was observed by then.
PictureIsCurrent ==
    ~ batch /\ ~ Hidden(View) /\ ~ asked /\ ~ scheduled =>
        LET shown == VisibleWorld(picture.from[1])
            visible == {i \in DOMAIN components : Intersects(RectAt(place[components[i]]), shown)}
        IN  /\ picture.camera = camera
            /\ picture.connections = DrawnConnections
            /\ picture.from[2] = Detail(camera.zoom)
            /\ picture.components =
                 [i \in visible |->
                    [rect |-> RectAt(place[components[i]]), colour |-> colour[components[i]],
                     selected |-> IsSelected(components[i])]]

=============================================================================
