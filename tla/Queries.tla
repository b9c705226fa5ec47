------------------------------- MODULE Queries ------------------------------
(***************************************************************************)
(* The services that compute an answer and keep no state: traversals,      *)
(* validation, compiled rules and connection policies, routes, documents,  *)
(* messages and the execution of single components.                        *)
(*                                                                         *)
(* A query is asked and answered; its answer is what the properties are    *)
(* about.  The sets of queries are constants, given by the instance.       *)
(***************************************************************************)
EXTENDS Integers, Sequences, FiniteSets, SequencesExt, FiniteSetsExt, TraversalQueries, Reachability,
        WorkflowValidation, ConnectionPolicies, OrthogonalRouting, GraphDocument,
        MessageAdapters, WorkflowExecution

CONSTANTS
  Traversals,   \* [graph, policy]
  PathQueries,  \* [graph, policy, source, target]
  Validations,  \* [providers, snapshot]
  RuleQueries,  \* [document, raw]: a rule document and the properties of a new connection
  RouteQueries, \* [at, links]
  GridQueries,  \* [grid, start, goal]
  Documents,    \* documents to import
  Lists,        \* [message, maps]: a list of maps to convert
  Commands,     \* command requests, functions from the keys they have
  Definitions,  \* composite definitions by type
  Executions    \* [pack, type, component, tokens]

\* A cache as it is built: finitely many components and connections, all with
\* an id.  A score counts thousandths.
IsGraph(g, p) ==
  /\ IsFiniteSet(Nodes(g)) /\ Nodes(g) \subseteq Int
  /\ IsFiniteSet(DOMAIN g.links) /\ DOMAIN g.links \subseteq Int
  /\ \A n \in Nodes(g) : p.typeScore[g.type[n]] \in Int
  /\ \A k \in DOMAIN g.links : g.links[k].target \in Int /\ p.labelScore[g.links[k].label] \in Int

IsList(list) == Len(list) \in Nat /\ DOMAIN list = 1..Len(list)

ASSUME GraphsAreFinite ==
  /\ \A q \in Traversals \cup PathQueries : IsGraph(q.graph, q.policy)
  /\ \A q \in Traversals :
       /\ IsFiniteSet(q.policy.entryIds) /\ q.policy.entryIds \subseteq Int
       /\ q.policy.maxDepth \in Nat \cup {Unbounded}

\* The cells of the two ends are freed before a search.
ASSUME GridsAreFinite ==
  \A q \in GridQueries :
    /\ IsFiniteSet(q.grid.free) /\ q.grid.free \subseteq Int \X Int
    /\ {q.start, q.goal} \subseteq q.grid.free
    /\ q.grid.maxExpandedNodes \in Nat

ASSUME SnapshotsAreLists ==
  \A q \in Validations :
    /\ IsList(q.snapshot.components) /\ IsList(q.snapshot.connections)
    /\ \A i \in DOMAIN q.snapshot.components :
         q.snapshot.components[i].width \in Int /\ q.snapshot.components[i].height \in Int

\* What the parser of JSON can make of a document of rules.
ASSUME RulesAreParsed ==
  \A q \in RuleQueries : q.document \notin {Missing, Mistyped} =>
    LET flags == BOOLEAN \cup {Missing, Mistyped}
        list  == q.document.connections
    IN  /\ q.document.defaultConnectionAllow \in flags
        /\ list \notin {Missing, Mistyped} =>
             IsList(list) /\ \A i \in DOMAIN list : list[i] = Mistyped \/ list[i].allow \in flags
        /\ q.document.derivedProperties \notin {Missing, Mistyped} => IsList(q.document.derivedProperties)

HoldsVariants(m) == \A field \in DOMAIN m : IsVariant(m[field])

\* The type of a new connection, the packs' if its caller gives none.
TypeIn(raw) == IF "type" \notin DOMAIN raw \/ raw["type"] = Blank THEN "flow" ELSE raw["type"]

\* A text with a beginning is not blank.
ASSUME TargetsAreNotBlank == \A q \in RuleQueries : "connection/" \o TypeIn(q.raw) # Blank

ASSUME ListsAreOfMessages ==
  \A q \in Lists :
    /\ q.message \in Messages /\ IsList(q.maps)
    /\ \A i \in DOMAIN q.maps : HoldsVariants(q.maps[i])

ASSUME CommandsAreMaps == \A q \in Commands : \A key \in DOMAIN q : HoldsVariants(q[key])

ASSUME DefinitionsAreFinite == \A q \in Definitions : IsFiniteSet(DOMAIN q)

VARIABLES
  phase,   \* "idle", "asked", "working", "walking", "running" or "answered"
  query,   \* the query, with its kind
  answer   \* the answer, once there is one; before, what a loop has so far

vars == <<phase, query, answer>>

Nothing == [kind |-> "none"]

Init == phase = "idle" /\ query = Nothing /\ answer = Nothing

Ask(kind, about) ==
  /\ phase' = "asked"
  /\ query' = [kind |-> kind, about |-> about]
  /\ UNCHANGED answer

Asked(kind)    == phase = "asked" /\ query.kind = kind
Working(kind)  == phase = "working" /\ query.kind = kind
Walking(kind)  == phase = "walking" /\ query.kind = kind
Answered(kind) == phase = "answered" /\ query.kind = kind

\* A loop begins, goes on to another stage of the work, or ends.
GoTo(stage, state) == phase' = stage /\ answer' = state /\ UNCHANGED query
Begin(state)       == GoTo("working", state)
GoOn(state)        == GoTo(phase, state)
Answer(result)     == GoTo("answered", result)

AskAnything ==
  /\ phase = "idle"
  /\ \/ \E q \in Traversals   : \E kind \in {"bfs", "dfs", "sorted", "components"} : Ask(kind, q)
     \/ \E q \in PathQueries  : Ask("path", q)
     \/ \E q \in Validations  : Ask("validation", q)
     \/ \E q \in RuleQueries  : Ask("rules", q)
     \/ \E q \in RouteQueries : Ask("routes", q)
     \/ \E q \in GridQueries  : Ask("grid", q)
     \/ \E q \in Documents    : Ask("document", q)
     \/ \E q \in Lists        : Ask("list", q)
     \/ \E q \in Commands     : Ask("command", q)
     \/ \E q \in Definitions  : Ask("definitions", q)
     \/ \E q \in Executions   : Ask("execution", q)

(***************************************************************************)
(* The traversals: one iteration of a loop after the other.                *)
(***************************************************************************)
graph  == query.about.graph
policy == query.about.policy

BeginBfs == Asked("bfs") /\ Begin(BfsStart(graph, policy))
VisitBfs == Working("bfs") /\ answer.queue # <<>> /\ GoOn(BfsVisit(graph, policy, answer))
EndBfs   == Working("bfs") /\ answer.queue = <<>> /\ Answer(answer.order)

BfsNext == BeginBfs \/ VisitBfs \/ EndBfs

BeginDfs == Asked("dfs") /\ Begin(DfsStart(graph, policy))
VisitDfs == Working("dfs") /\ answer.stack # <<>> /\ GoOn(DfsVisit(graph, policy, answer))
EndDfs   == Working("dfs") /\ answer.stack = <<>> /\ Answer(answer.order)

DfsNext == BeginDfs \/ VisitDfs \/ EndDfs

BeginSorted == Asked("sorted") /\ Begin(TopologicalStart(graph, policy))
VisitSorted == Working("sorted") /\ answer.zero # {} /\ GoOn(TopologicalVisit(graph, policy, answer))
EndSorted   ==
  Working("sorted") /\ answer.zero = {} /\ Answer(TopologicalResult(graph, policy, answer))

SortedNext == BeginSorted \/ VisitSorted \/ EndSorted

BeginComponents == Asked("components") /\ Begin(ConnectStart)

ConnectNext ==
  /\ Working("components") /\ answer.calls = <<>> /\ Unnumbered(graph, policy, answer) # {}
  /\ GoOn(Connect(graph, policy, answer, Min(Unnumbered(graph, policy, answer))))

FollowLink ==
  /\ Working("components") /\ answer.calls # <<>> /\ Head(answer.calls).links # <<>>
  /\ GoOn(ConnectLink(graph, policy, answer))

ReturnFromConnect ==
  /\ Working("components") /\ answer.calls # <<>> /\ Head(answer.calls).links = <<>>
  /\ GoOn(ConnectReturn(answer))

EndComponents ==
  /\ Working("components") /\ answer.calls = <<>> /\ Unnumbered(graph, policy, answer) = {}
  /\ Answer(answer.components)

ComponentsNext ==
  BeginComponents \/ ConnectNext \/ FollowLink \/ ReturnFromConnect \/ EndComponents

BeginPath ==
  /\ Asked("path") /\ {query.about.source, query.about.target} \subseteq Kept(graph, policy)
  /\ Begin(PathStart(graph, policy, query.about.source))

NoPath ==
  /\ Asked("path") /\ ~({query.about.source, query.about.target} \subseteq Kept(graph, policy))
  /\ Answer(<<>>)

VisitNearest ==
  /\ Working("path")
  /\ \E n \in AtLeastDistance(answer) \ {query.about.target} :
       GoOn(Visited(graph, policy, answer, n))

EndVisits ==
  /\ Working("path")
  /\ AtLeastDistance(answer) = {} \/ query.about.target \in AtLeastDistance(answer)
  /\ GoTo("walking", Walk(answer.prev, query.about.target))

WalkPathBack ==
  /\ Walking("path") /\ Head(answer.path) \in DOMAIN answer.prev \ {query.about.source}
  /\ GoOn(WalkedBack(answer))

EndPath ==
  /\ Walking("path") /\ Head(answer.path) \notin DOMAIN answer.prev \ {query.about.source}
  /\ Answer(IF Head(answer.path) = query.about.source THEN answer.path ELSE <<>>)

PathNext == BeginPath \/ NoPath \/ VisitNearest \/ EndVisits \/ WalkPathBack \/ EndPath

(***************************************************************************)
(* Validation and rules.                                                   *)
(***************************************************************************)
AnswerValidation ==
  /\ Asked("validation")
  /\ LET q == query.about
     IN  Answer([valid  |-> Validate(q.providers, q.snapshot),
                 issues |-> ValidationIssues(q.providers, q.snapshot)])

Types == {"start", "process", "stop"}

Pair(source, target) ==
  ContextFor([source |-> Blank, target |-> Blank, incoming |-> 0, outgoing |-> 0], source, target)

\* The compiled document as a policy, between those of the packs.
AnswerRules ==
  /\ Asked("rules")
  /\ LET q        == query.about
         compiled == Compile(q.document)
         policies == <<CustomizedPolicy, [kind |-> "rules", rules |-> compiled.descriptor], SamplePolicy>>
     IN  Answer([ok         |-> compiled.ok,
                 descriptor |-> compiled.descriptor,
                 allowed    |-> {pair \in Types \X Types :
                                   MayConnect(policies, Pair(pair[1], pair[2]))},
                 properties |-> NormalizedConnectionProperties(policies, q.raw)])

(***************************************************************************)
(* Routes.                                                                 *)
(***************************************************************************)
AnswerRoutes ==
  /\ Asked("routes")
  /\ \E found \in {[k \in DOMAIN query.about.links |-> Routes(query.about, k)]} :
     \E routes \in {r \in [DOMAIN found -> UNION Range(found)] :
                      \A k \in DOMAIN found : r[k] \in found[k]} : Answer(routes)

grid == query.about.grid
goal == query.about.goal

BeginGrid == Asked("grid") /\ Begin(SearchStart(query.about.start))

SearchCell ==
  /\ Working("grid")
  /\ \E c \in Nearest(answer, goal) \ {goal} :
       ~UsedUp(grid, answer) /\ GoOn(ExpandCell(grid, answer, c))

ReachGoal ==
  /\ Working("grid") /\ goal \in Nearest(answer, goal)
  /\ GoTo("walking", Walk(answer.parent, goal))

GiveUpSearch ==
  /\ Working("grid")
  /\ OpenCells(answer) = {} \/ (UsedUp(grid, answer) /\ Nearest(answer, goal) # {goal})
  /\ Answer(<<>>)

WalkCellsBack ==
  /\ Walking("grid") /\ Head(answer.path) \in DOMAIN answer.prev \ {query.about.start}
  /\ GoOn(WalkedBack(answer))

EndGrid ==
  /\ Walking("grid") /\ Head(answer.path) \notin DOMAIN answer.prev \ {query.about.start}
  /\ Answer(IF Head(answer.path) = query.about.start THEN answer.path ELSE <<>>)

GridNext == BeginGrid \/ SearchCell \/ ReachGoal \/ GiveUpSearch \/ WalkCellsBack \/ EndGrid

(***************************************************************************)
(* Documents and messages.                                                 *)
(***************************************************************************)
AnswerDocument ==
  /\ Asked("document")
  /\ LET imported == ImportFromJson(query.about)
     IN  Answer([imported |-> imported, again |-> ImportFromJson(ExportToJson(imported))])

AnswerList ==
  /\ Asked("list")
  /\ LET message == query.about.message
         sent    == ListToMessages(message, query.about.maps)
         back    == [i \in DOMAIN sent.elements |-> ToMap(message, sent.elements[i])]
     IN  Answer([sent |-> sent, back |-> back, again |-> ListToMessages(message, back)])

AnswerCommand ==
  /\ Asked("command")
  /\ LET sent == ToCommand(query.about)
     IN  Answer([sent |-> sent, again |-> ToCommand(ToRequest(sent))])

(***************************************************************************)
(* Composites: their definitions are validated, and then one may run.      *)
(***************************************************************************)
composites == IF query.kind = "definitions" THEN query.about ELSE CustomizedComposites

BeginValidation ==
  /\ \/ Asked("definitions")
     \/ Asked("execution") /\ query.about.pack # "sample" /\ query.about.type \in DOMAIN composites
  /\ Begin(ValidationStart)

Validating == Working("definitions") \/ Working("execution")

ValidateDefinition ==
  /\ Validating /\ answer.calls = <<>>
  /\ \E type \in DOMAIN composites \ DOMAIN answer.state :
       GoOn(EnterDefinition(composites, answer, type))

ValidateNested ==
  /\ Validating /\ answer.calls # <<>>
  /\ \E nested \in Head(answer.calls).nested : GoOn(LookAtNested(composites, answer, nested))

ReturnFromDefinition ==
  /\ Validating /\ answer.calls # <<>> /\ Head(answer.calls).nested = {}
  /\ GoOn(LeaveDefinition(answer))

Validated == answer.calls = <<>> /\ DOMAIN composites \subseteq DOMAIN answer.state

EndDefinitions == Working("definitions") /\ Validated /\ Answer(answer.ok)

RunComposite ==
  /\ Working("execution") /\ Validated
  /\ LET q == query.about
     IN  IF answer.ok
         THEN GoTo("running", [runs |-> <<RunStart(composites[q.type], q.component, q.tokens)>>])
         ELSE Answer(Refused)

Running == phase = "running" /\ query.kind = "execution"

\* The innermost run, and the next component in it.
run == Head(answer.runs)
Ended(r) == ~r.ok \/ r.ready = {}
next == Min(run.ready)

EnterComposite ==
  /\ Running /\ ~Ended(run) /\ run.def.components[next].type \in DOMAIN composites
  /\ LET c == run.def.components[next]
     IN  GoOn([runs |-> <<RunStart(composites[c.type], c, InnerTokens(run, next))>> \o answer.runs])

ExecuteOneStep ==
  /\ Running /\ ~Ended(run) /\ run.def.components[next].type \notin DOMAIN composites
  /\ GoOn([runs |-> <<RunOn(composites, run, next, ExecuteInner(run, next))>> \o Tail(answer.runs)])

LeaveComposite ==
  /\ Running /\ Ended(run) /\ Len(answer.runs) > 1
  /\ LET outer == answer.runs[2]
     IN  GoOn([runs |-> <<RunOn(composites, outer, Min(outer.ready), RunResult(run))>>
                          \o Tail(Tail(answer.runs))])

EndExecution == Running /\ Ended(run) /\ Len(answer.runs) = 1 /\ Answer(RunResult(run))

\* A component that is no composite; a failed one has an output too, which
\* nobody reads.
AnswerExecution ==
  /\ Asked("execution") /\ (query.about.pack = "sample" \/ query.about.type \notin DOMAIN composites)
  /\ LET q == query.about
     IN  Answer(IF q.pack = "sample" THEN Success(ExecuteSample(q.type, q.component, q.tokens))
                ELSE ExecuteInPack(q.type, q.component, q.tokens))

CompositesNext ==
  \/ BeginValidation \/ ValidateDefinition \/ ValidateNested \/ ReturnFromDefinition \/ EndDefinitions
  \/ RunComposite \/ EnterComposite \/ ExecuteOneStep \/ LeaveComposite \/ EndExecution \/ AnswerExecution

Forget ==
  /\ phase  = "answered"
  /\ phase' = "idle" /\ query' = Nothing /\ answer' = Nothing

Next ==
  \/ AskAnything
  \/ BfsNext \/ DfsNext \/ SortedNext \/ ComponentsNext \/ PathNext
  \/ AnswerValidation \/ AnswerRules
  \/ AnswerRoutes \/ GridNext
  \/ AnswerDocument \/ AnswerList \/ AnswerCommand
  \/ CompositesNext
  \/ Forget

Spec == Init /\ [][Next]_vars

(***************************************************************************)
(* The reachable, as relations.                                            *)
(***************************************************************************)
Steps(g, p) ==
  {<<g.links[k].source, g.links[k].target>> :
     k \in {j \in DOMAIN g.links : Linking(g, j) /\ Allowed(p, g.links[j].label)}}
    \cap (Kept(g, p) \X Kept(g, p))

\* What comes after a component, by one step or more.
After(g, p, n) ==
  ReachedIn(Steps(g, p), Onward(Steps(g, p), {n}), Cardinality(Nodes(g)))

\* bfs and dfs return every component that the entry points reach over
\* allowed connections and unpruned components, once each; a depth limit is
\* a bound on the distance for bfs, which goes by distance, while dfs, which
\* may come to a component by a longer way first, stays within the bound.
SearchesFindWhatIsReachable ==
  LET limit == IF policy.maxDepth = Unbounded THEN Cardinality(Nodes(graph)) ELSE policy.maxDepth
      In(d) == ReachedIn(Steps(graph, policy), SearchEntries(graph, policy), d)
  IN  /\ Answered("bfs") =>
           /\ IsInjective(answer) /\ ToSet(answer) = In(limit)
           /\ \A i, j \in DOMAIN answer : \A d \in 0..limit :
                i < j /\ answer[j] \in In(d) => answer[i] \in In(d)
      /\ Answered("dfs") =>
           /\ IsInjective(answer) /\ ToSet(answer) \subseteq In(limit)
           /\ policy.maxDepth = Unbounded => ToSet(answer) = In(limit)

\* topologicalTraversal returns the components no cycle leads to, each after
\* its predecessors, and reports a cycle exactly when there is one; the
\* strongly connected components are the classes of mutual reachability.
OrderAndComponentsAgree ==
  LET Later(n)  == After(graph, policy, n)
      nodes     == Kept(graph, policy)
      OnCycle   == {n \in nodes : n \in Later(n)}
      Mutual(n) == {n} \cup {m \in Later(n) : n \in Later(m)}
  IN  /\ Answered("sorted") =>
           /\ IsInjective(answer.order)
           /\ ToSet(answer.order) = nodes \ (OnCycle \cup UNION {Later(n) : n \in OnCycle})
           /\ \A i, j \in DOMAIN answer.order :
                <<answer.order[i], answer.order[j]>> \in Steps(graph, policy) => i < j
           /\ answer.acyclic <=> OnCycle = {}
      /\ Answered("components") =>
           /\ IsInjective(answer)
           /\ ToSet(answer) = {Mutual(n) : n \in nodes}

\* The least cost of a connection from one component to another, and the cost
\* of a path.
StepCost(g, p, m, n) ==
  Min({Cost(g, p, k) : k \in {j \in LinksOut(g, p, m) : g.links[j].target = n}})

PathCost(g, p, path) ==
  LET cost[i \in 1..Len(path)] ==
        IF i = 1 THEN 0 ELSE cost[i - 1] + StepCost(g, p, path[i - 1], path[i])
  IN  cost[Len(path)]

IsPath(g, p, path, source, target) ==
  /\ path # <<>> /\ path[1] = source /\ Last(path) = target
  /\ ToSet(path) \subseteq Kept(g, p)
  /\ \A i \in 1..Len(path) - 1 : <<path[i], path[i + 1]>> \in Steps(g, p)

\* shortestPath returns a path of the least cost under the scores of the
\* policy, whichever of several equally near components it settles first, and
\* no path exactly when the target cannot be reached.
CheapestPath ==
  Answered("path") =>
    LET q     == query.about
        paths == {path \in SeqOf(Nodes(q.graph), Cardinality(Nodes(q.graph))) :
                    IsPath(q.graph, q.policy, path, q.source, q.target)}
        Price(path) == PathCost(q.graph, q.policy, path)
    IN  IF answer = <<>> THEN paths = {}
        ELSE answer \in paths /\ \A path \in paths : Price(answer) <= Price(path)

\* The grid search returns a shortest walk around the occupied cells, and none
\* only when there is none or its budget of cells is used up.
ShortestWalk ==
  Answered("grid") =>
    LET free  == grid.free
        steps == {s \in free \X free : s[2] \in Beside(s[1])}
        In(most) == ReachedIn(steps, {query.about.start}, most)
    IN  IF answer = <<>>
        THEN goal \notin In(Cardinality(free)) \/ grid.maxExpandedNodes < Cardinality(free)
        ELSE /\ answer[1] = query.about.start /\ Last(answer) = goal
             /\ \A i \in 2..Len(answer) : <<answer[i - 1], answer[i]>> \in steps
             /\ Len(answer) > 1 => goal \notin In(Len(answer) - 2)

\* Both searches for a path are exact, whatever they meet first: Dijkstra's
\* over the graph and A* over the grid of a route.
PathsAreShortest == CheapestPath /\ ShortestWalk

(***************************************************************************)
(* Validation and rules.                                                   *)
(***************************************************************************)
NoneRepeated(list) ==
  /\ \A i \in DOMAIN list : list[i].id # Blank
  /\ \A i, j \in DOMAIN list : list[i].id = list[j].id => i = j

\* One way in, one way out, everything reached from the start, and nothing
\* but the stop a dead end.
IsWorkflow(s) ==
  LET ids   == {c.id : c \in ToSet(s.components)}
      steps == {<<k.source, k.target>> : k \in ToSet(s.connections)}
      OfType(type) == {c.id : c \in {d \in ToSet(s.components) : d.type = type}}
  IN  /\ NoneRepeated(s.components) /\ NoneRepeated(s.connections)
      /\ \A c \in ToSet(s.components) : c.width > 0 /\ c.height > 0
      /\ steps \subseteq {pair \in ids \X ids : pair[1] # pair[2]}
      /\ \A k \in ToSet(s.connections) : {k.sourceSide, k.targetSide} \subseteq -1..3
      /\ Cardinality(OfType("start")) = 1 /\ Cardinality(OfType("stop")) = 1
      /\ ids = ReachedIn(steps, OfType("start"), Cardinality(ids))
      /\ ids \ OfType("stop") \subseteq {step[1] : step \in steps}

\* A graph that the workflow providers accept, together or one by one, is a
\* workflow, and every workflow is accepted; no verdict is good while a
\* provider fails, whatever the others say.
VerdictMeansWorkflow ==
  Answered("validation") =>
    LET kinds == {p.kind : p \in query.about.providers}
        asked == {{"workflow"}, {"structure", "connection", "topology"}}
    IN  /\ answer.valid => /\ "failing" \notin kinds
                           /\ (\E some \in asked : some \subseteq kinds) => IsWorkflow(query.about.snapshot)
        /\ kinds \in asked /\ IsWorkflow(query.about.snapshot) => answer.valid

\* What the packs leave to the rules.
LeftByPacks == {<<"start", "process">>, <<"process", "process">>, <<"process", "stop">>}

\* What the packs give to a new connection that has none of its own.
GivenByPacks == [type |-> "flow", transportMode |-> "broadcast", mergeHint |-> "preserve-per-edge"]

\* In a document compiled without a complaint the last entry that names a
\* pair of types decides about it, and the default about all others; rules
\* only take away from what the packs allow.  A new connection has the
\* properties of its caller, those of the packs that the caller left out and,
\* of the derived ones for its type, what the last entry says, where neither
\* the caller nor the first pack said anything; and it has no others.
RulesDecideByLastEntry ==
  Answered("rules") /\ answer.ok =>
    LET doc     == query.about.document
        entries == Entries(doc.connections)
        derived == Entries(doc.derivedProperties)
        raw     == query.about.raw
        Naming(pair) == {i \in DOMAIN entries : <<entries[i].source, entries[i].target>> = pair}
        Says(pair) == IF Naming(pair) = {} THEN doc.defaultConnectionAllow # FALSE
                      ELSE entries[Max(Naming(pair))].allow = TRUE
        Deriving(name) == {i \in DOMAIN derived : /\ derived[i].target = "connection/" \o TypeIn(raw)
                                                 /\ derived[i].property = name}
        named == {derived[i].property : i \in DOMAIN derived} \ {Blank}
    IN  /\ answer.allowed = {pair \in LeftByPacks : Says(pair)}
        /\ answer.properties =
             [name \in DOMAIN raw \cup DOMAIN GivenByPacks \cup {n \in named : Deriving(n) # {}} |->
                IF name \in DOMAIN raw THEN raw[name]
                ELSE IF name \in DOMAIN GivenByPacks THEN GivenByPacks[name]
                ELSE derived[Max(Deriving(name))].value]

(***************************************************************************)
(* Routes.                                                                 *)
(***************************************************************************)
OnBorder(point, c) ==
  /\ X(point) \in LeftOf(c)..RightOf(c) /\ Y(point) \in TopOf(c)..BottomOf(c)
  /\ X(point) \in {LeftOf(c), RightOf(c)} \/ Y(point) \in {TopOf(c), BottomOf(c)}

\* The connections of two components that stand apart always get a route; a
\* route goes from border to border through no component, the first and last
\* segment included; two connections in opposite directions that leave their
\* sides open do not share an end.
RoutesFoundAndApart ==
  Answered("routes") =>
    LET links == query.about.links
        at    == query.about.at
        Drawn == {k \in DOMAIN answer : answer[k].points # Grid}
        Opposite(j, k) == links[j].source = links[k].target /\ links[j].target = links[k].source
        Open(k) == links[k].sourceSide = SideAuto /\ links[k].targetSide = SideAuto
    IN  /\ \A k \in DOMAIN answer : answer[k].valid \/ Cardinality(DOMAIN at) > 2
        /\ \A k \in Drawn : answer[k].valid =>
             LET points == answer[k].points IN
               /\ OnBorder(points[1], at[links[k].source])
               /\ OnBorder(Last(points), at[links[k].target])
               /\ \A i \in 2..Len(points), c \in DOMAIN at :
                    ~EntersInterior(points[i - 1], points[i], at[c])
        /\ \A j, k \in Drawn :
             j < k /\ Opposite(j, k) /\ Open(j) /\ Open(k) =>
               {answer[j].points[1], Last(answer[j].points)}
                 \cap {answer[k].points[1], Last(answer[k].points)} = {}

(***************************************************************************)
(* Documents and messages.                                                 *)
(***************************************************************************)
\* A graph that was imported, from a document of any version and with any
\* fields left out, is the same after it was exported and imported again, but
\* for sides that a property set to none of the four, which are open then.
ReimportedUnchanged ==
  LET Settled(k) == [fields  |-> [f \in DOMAIN k.fields |->
                                    IF f \in {"sourceSide", "targetSide"} /\ k.fields[f] \notin -1..3
                                    THEN -1 ELSE k.fields[f]],
                     dynamic |-> k.dynamic]
      was == answer.imported
  IN  Answered("document") =>
        answer.again = [components  |-> was.components,
                        connections |-> [i \in DOMAIN was.connections |-> Settled(was.connections[i])]]

\* The values that a field of a class is written back with.
IsOwn(v, class) ==
  CASE class \in {"required", "optional"} -> IsText(v)
    [] class \in {"requiredNumber", "number"} -> ~IsText(v) /\ ~IsTable(v)
    [] class \in {"stamp", "lenient"} -> ~IsText(v) /\ ~IsTable(v) /\ v.number % 2 = 0
    [] class = "severity"  -> IsText(v) /\ v.text \in Severities
    [] class = "eventType" -> IsText(v) /\ \E type \in DOMAIN EventTypes : v.text = EventTypes[type]
    [] class = "map"       -> IsTable(v) /\ \A key \in DOMAIN v.table : IsText(v.table[key])

\* A list of messages is accepted as a whole or up to the first bad element,
\* after which there is nothing; what was accepted is written back to maps
\* that give the same messages.  A value that is not of its field's own kind
\* comes back as what it was converted to, one that is comes back as it was,
\* and is left out only if it is empty or zero.
SentBackUnchanged ==
  Answered("list") =>
    LET maps   == query.about.maps
        fields == FieldsOf(query.about.message)
        sent   == answer.sent
        accepted == IF sent.ok THEN Len(maps) ELSE Len(sent.elements) - 1
    IN  /\ accepted <= Len(maps) /\ (sent.ok \/ accepted < Len(maps))
        /\ sent.ok => answer.again = sent
        /\ \A i \in 1..accepted :
             /\ answer.again.elements[i] = sent.elements[i]
             /\ \A f \in DOMAIN maps[i] \cap DOMAIN fields :
                  IsOwn(maps[i][f], fields[f]) =>
                    IF f \in DOMAIN answer.back[i] THEN answer.back[i][f] = maps[i][f]
                    ELSE maps[i][f] \in {[text |-> Empty], [number |-> 0], [table |-> <<>>]}

\* A command that was accepted is written back to a request for the same one.
CommandsSentBack ==
  Answered("command") => (answer.sent.ok => answer.again = answer.sent)

\* What was read, from a document or from maps, and written out again, is read
\* back as what it was converted to.
WrittenIsReadBack == ReimportedUnchanged /\ SentBackUnchanged /\ CommandsSentBack

(***************************************************************************)
(* Execution.                                                              *)
(***************************************************************************)
NestedIn(defs, type) ==
  ReachedIn({s \in (DOMAIN defs) \X (DOMAIN defs) : s[2] \in Nested(defs, s[1])},
            Nested(defs, type), Cardinality(DOMAIN defs))

\* Composite definitions are refused exactly when one contains itself, over
\* any number of others, or maps a port to a component it does not have.
RecursionIsRefused ==
  Answered("definitions") =>
    (answer <=> \A type \in DOMAIN query.about :
                  PortsKnown(query.about[type]) /\ type \notin NestedIn(query.about, type))

\* The number an input of a composite stands for: what a reference finds
\* first, then the attribute, then the default of the executor inside.
Operated(s, tokens, refName, name, default) ==
  LET found == IF refName \in DOMAIN s.refs /\ Held(tokens, s.refs[refName])
               THEN tokens[s.refs[refName][1]][s.refs[refName][2]]
               ELSE IF name \in DOMAIN s.values THEN s.values[name]
               ELSE Number(default)
  IN  IF IsNumeric(found) THEN found[2] ELSE default

\* The composites of the customized pack give the numbers they are named for,
\* over two levels of graphs inside graphs, however their inputs are given.
CompositesComputeTheirFormula ==
  LET q == query.about
      In(refName, name, default) == Operated(q.component, q.tokens, refName, name, default)
      a == In("sideARef", "a", 1)
      b == In("sideBRef", "b", 1)
      root == In("sRef", "S", 0)
      edge == answer.out["longestEdge"][2]
  IN  Answered("execution") =>
        /\ q.type = "sqrtGraph" => /\ answer.ok <=> root >= 0
                                   /\ answer.ok => answer.out["sqrtS"][2] * answer.out["sqrtS"][2] = root
        /\ q.type = "rightTriangleLongestEdge" => answer.ok /\ edge * edge = a * a + b * b
=============================================================================
