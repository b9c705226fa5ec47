--------------------------- MODULE TopologicalRun ---------------------------
(***************************************************************************)
(* What GraphExecutionSandbox promises about the order in which it runs    *)
(* the components of a graph: each component once, after all the           *)
(* components it depends on, and, whenever several could run, the one with *)
(* the least id.  A run that can go no further is completed when every     *)
(* component has run and blocked otherwise.  How the caller drives it      *)
(* (step, run, pause, breakpoints) and how readiness is tracked are not    *)
(* part of the promise.                                                    *)
(***************************************************************************)
EXTENDS Naturals, Sequences, SequencesExt

CONSTANTS Node, Edge

VARIABLES
  snap,      \* the graph the run was started on
  order,     \* the components executed so far, in order
  outcome    \* "none", "running", "completed", "blocked" or "error"

vars == <<snap, order, outcome>>

EmptyGraph == [nodes |-> {}, edges |-> {}, source |-> <<>>, target |-> <<>>]

(***************************************************************************)
(* The components of g that may run once those in done have.               *)
(***************************************************************************)
Runnable(g, done) ==
  {n \in g.nodes \ done :
     \A e \in g.edges : g.target[e] = n => g.source[e] \in done}

Least(S) == CHOOSE n \in S : \A m \in S : n <= m

Verdict(g, done) ==
  IF Runnable(g, done) # {} THEN "running"
  ELSE IF done = g.nodes THEN "completed" ELSE "blocked"

Init ==
  /\ snap = EmptyGraph
  /\ order = <<>>
  /\ outcome = "none"

Begin ==
  /\ order' = <<>>
  /\ outcome' = Verdict(snap', {})

Execute ==
  LET next == Least(Runnable(snap, ToSet(order)))
  IN  /\ outcome = "running"
      /\ order' = Append(order, next)
      /\ outcome' = Verdict(snap, ToSet(order) \cup {next})
      /\ UNCHANGED snap

Fail ==
  /\ outcome = "running"
  /\ outcome' = "error"
  /\ UNCHANGED <<snap, order>>

Discard ==
  /\ snap' = EmptyGraph
  /\ order' = <<>>
  /\ outcome' \in {"none", "error"}

Next == Begin \/ Execute \/ Fail \/ Discard

Spec == Init /\ [][Next]_vars
=============================================================================
