----------------------------- MODULE MCViewport -----------------------------
(***************************************************************************)
(* Instance of Viewport: two components that overlap, stand apart or are   *)
(* out of sight, and a connection each way between them, whose routes bend *)
(* once.  Sizes, cells, thresholds and tolerance are those of the program. *)
(***************************************************************************)
EXTENDS Viewport, TLC

CONSTANTS c1, c2, e1, e2, red, blue

LRoute(from, to) ==
    LET Middle(rect) == << (rect.left + rect.right) \div 2, (rect.top + rect.bottom) \div 2 >>
    IN  << Middle(from), << Middle(to)[1], Middle(from)[2] >>, Middle(to) >>

MCPlaces == {<< 290, 290 >>, << 350, 330 >>, << 1400, 300 >>}

MCCameras == {[pan |-> << 0, 0 >>, zoom |-> 10], [pan |-> << -800, 0 >>, zoom |-> 4]}

MCExtents == {<< 800, 600 >>, << 0, 0 >>}

\* Inside one or both components, on and beside both routes, on a cell's edge.
MCProbes == {<< 320, 310 >>, << 300, 300 >>, << 1400, 300 >>,
             << 800, 285 >>, << 800, 303 >>, << 1400, 340 >>}

MCGraphs ==
    LET At(p, q) == (c1 :> p) @@ (c2 :> q)
        Both == (e1 :> << c1, c2 >>) @@ (e2 :> << c2, c1 >>)
    IN  {[components |-> << >>, place |-> At(<< 290, 290 >>, << 290, 290 >>),
          connections |-> << >>, ends |-> Both, extent |-> << 0, 0 >>],
         [components |-> << c1, c2 >>, place |-> At(<< 290, 290 >>, << 1400, 300 >>),
          connections |-> << e1, e2 >>, ends |-> Both, extent |-> << 800, 600 >>]}

=============================================================================
