# A formal model of component_map_editor

component_map_editor is a Qt/QML library for editing and simulating graphs of
components and connections, written in C++. This directory holds TLA+ models
of its core logic, TLC configurations that check them on small instances, and
TLAPS proofs of what matters most for every instance. Paths below are relative
to the repository's root; `R/` stands for `src/component_map_editor/`, the
library itself.

- [1. The system](#1-the-system)
- [2. The modules and the code](#2-the-modules-and-the-code)
- [3. The runs](#3-the-runs)
- [4. What is proved](#4-what-is-proved)
- [5. Disagreements between the code and its documentation](#5-disagreements)
- [6. What is abstracted, and what is not modelled](#6-what-is-abstracted-and-what-is-not-modelled)
- [7. Plan](#7-plan)

## 1. The system

Everything below runs on Qt's main thread. What makes the behaviour hard is not
threads but *re-entrancy* (a signal is emitted in the middle of an operation
and its slots call back), *derived state* kept up to date incrementally (hash
indexes, counters, queues, caches), *ownership* through raw pointers, and long
sequences of legal calls.

| Component | State it keeps | Operations | Interacts with |
|---|---|---|---|
| **GraphModel** (`R/models/`) | two lists of objects, a hash index by id and the tracked ids for each, the batch flag | add, remove, clear, lookup, batch begin/end; `setId` of an object it observes | emits changed/added/removed signals to the views, the TraversalEngine and the validators |
| **Commands and UndoStack** (`R/commands/`) | the commands, the index; each command holds old and new values, pointers to objects, and whether it owns them | push (with merging), undo, redo, clear, discardRedoHistory | edit GraphModel and its objects |
| **CommandGateway, GraphEditorController, InvariantChecker** (`R/services/`) | request log, audit log, registered invariants | executeRequest, executeSystemCommand, the controller's edits | check the graph before and after a push, roll back through UndoStack |
| **GraphExecutionSandbox** (`R/services/`) | a snapshot of the graph, unmet-dependency counts, ready queue, executed set, tokens per connection, status, tick, timeline, breakpoints | start, step, run(maxSteps), pause, reset, setGraph, breakpoints | reads GraphModel once, calls execution providers, emits signals whose slots may call back |
| **TraversalEngine** (`R/services/`) | a copy of the graph as adjacency maps, tracked ids, dirty marks | bfs, dfs, topological order, components, shortest path; slots | listens to GraphModel's and its objects' signals |
| **ExportService, GraphJsonMigration** | none | import, export | clear and refill GraphModel in a batch |
| **Extension loading** (`R/extensions/runtime/ExtensionStartupLoader.cpp`, `R/extensions/contracts/`) | registered factories, loaded packs; the registry's manifests and its pointers to providers, which live inside the packs | discover manifests, order them by dependencies, create and register packs | everything that consults the registry |
| **Type registry, property schemas, actions** (`R/extensions/runtime/`) | descriptors and policies by type, normalised schema rows, section models created on demand, executors and actions by name | rebuild from the registry, views | the palette, the property panel, the sandbox |
| **Validation** (`R/services/ValidationService.cpp`, the workflow providers) | the providers | validate a snapshot | the registry, the rules |
| **CompositeExecutionProvider** and the packs' executors | none between calls | execute one component; a composite runs a nested sandbox | GraphExecutionSandbox |
| **Rules and hot reload** (`R/extensions/runtime/rules/`) | compiled rules, watched file | compile, watch, reload, evaluate | connection policies and validation |
| **Routing** (`R/routing/`) | none | the sides, the shared ends and the polyline of every connection | the canvas |
| **Canvas** (`R/ui/GraphViewportItem.cpp`) | a spatial index, the objects it observes, dirty flags, a rebuild timer, the drawn scene | frames, hit tests, camera, slots | GraphModel's and its objects' signals |
| **Messages** (`R/adapters/`) | none | maps to proto messages and back | gateway, sandbox, validation, policies |
| **Interaction state** (`R/ui/qml/InteractionStateManager.qml`) | the active interaction and its target | begin, transition, end | pointer handlers and GraphModel's signals |
| **Transports** (`R/transport/`) | a channel and a fallback | execute a command remotely, else in process | CommandGateway |
| **Monitoring, samples, icon library** | measurements, tables | - | - |

What would make each correct, and what is hard about it:

- *GraphModel.* The index is repaired piecemeal by four operations and by a slot
  that runs when an object changes its id, to a free id or to one that is taken.
  The debug build asserts after every operation that index and lists agree; that
  must hold after every sequence, and no lookup may differ from the linear scan.
  Views must not be left stale by a batch.
- *Undo.* Each position of the stack must bring back the graph it stood for,
  across merges, truncation and roll-back; each object must have exactly one
  owner, or it is leaked or deleted twice. When every edit is checked, no
  sequence of undos and redos may lead to a graph the checks refuse.
- *The simulator.* Components execute once, after their dependencies, in an
  order that does not depend on how the simulation is driven; it is concluded
  exactly once and with the right verdict; every call returns; tokens are there
  when they are read. Slots may call back in the middle of a step.
- *TraversalEngine.* Whatever was edited since the last query, a traversal reads
  the graph as it is.
- *Extension loading.* Every manifest that was found is loaded once or reported,
  in an order that respects dependencies; a registered manifest means a whole
  pack; no pointer in the registry outlives its pack; and a later pack does not
  take over names that graphs already use.
- *Schemas.* The views of a schema are views of the same rows, also those that
  were created before a rebuild.
- *Rules.* What the file says last is what decides, and the compiled rules catch
  up with the file while editors write, replace and restore it.
- *Validation.* A graph that is called valid is a workflow, whichever providers
  put the verdict together.
- *Composites.* No definition contains itself; a composite computes the number
  it is named for, whichever way its inputs are given.
- *Routing.* Components that stand apart get a route, around all components, and
  connections in opposite directions do not share an end.
- *Documents and messages.* What was read and written is read back the same.
- *Canvas.* A hit test is about the graph as it is now, whatever the index was
  built from; no change is lost between timers and frames.

`PROJECT.json` lists every component with its sources, and every hazard at the
line where it bites.

## 2. The modules and the code

```
IdCollection  <--implements--  IndexedCollection  <--instantiated twice--  GraphModel
     ^                             ^                                          ^
     |                             '-- IndexedCollectionProofs <--twice-- GraphModelProofs
     '-- operators of the document: CommandStack  <-- CommandStackProofs
TopologicalRun  <--implements--  ExecutionSandbox  <-- ExecutionSandboxProofs
TraversalCache  <-- TraversalCacheProofs

Queries -- extends --> TraversalQueries, OrthogonalRouting, GraphDocument,
   ^                   MessageAdapters, WorkflowExecution, Reachability,
   |                   WorkflowValidation  --.
   |                   ConnectionPolicies  --+--> BusinessRules
   '-- QueriesProofs
ExtensionRuntime -- extends --> ExtensionManifests, PropertySchemas
     ^-- ExtensionRuntimeProofs -- instantiates --> RuleReload
Viewport  <-- ViewportProofs
```

Each `MC…` module extends the module it is named after with the values TLC needs.
Operators named after a mutation (`RepairedByErasing`, `StartOnRawGraph`, …)
stand before the definition they vary. No specification uses them: each is a
plausible bug of that code, and substituting it makes one property of a run fail.

### IdCollection, IndexedCollection, GraphModel (`R/models/GraphModel.cpp`)

The code has the same machinery twice, for components and for connections.
`IndexedCollection` is that machinery once: `list` is `m_components`, `index` is
`m_componentIndexById`, `tracked` is `m_componentTrackedIds`, `ids` is the id
every object carries, in the list or not. `AddObject`, `RemoveById`, `ClearAll`,
`Attach`, `Detach` and `OnIdChanged` are the functions of the same purpose;
`SetId` is `setId()` of an object, including the slot it runs. `IdCollection` is
the promise: no index, every lookup is the linear scan of
`firstComponentByIdLinear`, which the code keeps as the reference of its own
assertion. `GraphModel` instantiates the machinery twice under one batch flag
and adds what bound views last read, which changes only with the changed
signals.

### CommandStack (`R/commands/`, `R/services/CommandGateway.cpp`, `R/services/GraphEditorController.cpp`)

`editor` holds the document (the two lists and the attributes of the objects),
the commands and the index, and which objects are alive. `Redo` and `Undo` give,
per kind of command, the document and the command they leave; `Merges`/`Merged`
are `mergeWith`; `Push`, `UndoTop`, `RedoNext`, `DiscardRedoHistory` and
`ClearStack` are the methods of `UndoStack`; `Truncate`/`Destroy` delete commands
with what they own, and turn the `QPointer` of a property command into a null.
A request is one of `PushUnchecked` (the property panel), `BlockedBefore`,
`Accept`, `RollBack` (the gateway and a strict controller: pre-check, dispatch,
post-check, undo and discard). The registered invariants are the constant
`Legal(_)`. `Import` is `ExportService::importFromJson`. `past` is a history
variable: what each position of the stack stood for; `checked` is one that
remembers whether only checked requests were made since a legal graph was there.

The constant `Callers` names what callers do beyond checked requests: `"direct"`
pushes without checks, `"reuse"` creates a component (`createComponentWithId`) or
a connection with an id that is taken, `"import"` loads a graph without clearing
the stack, `"rename"` gives an object an id that is taken. A connection whose
ends are not there can only be pushed without checks (`pushAddConnectionBySpec`).

### TopologicalRun, ExecutionSandbox (`R/services/GraphExecutionSandbox.cpp`)

`start()`, `step()` and `run()` are synchronous, but emit signals on the way. A
call is therefore several actions (`Start` and `FinishStart`; `Begin`,
`ExecuteComponent` or `ProviderFails`, `RecordExecution`, `FinishStep`,
`LeaveLoop`, `StepFindsNothing`), and in the phases where the code has just
emitted a signal (`statusChanged` at lines 192, 209 and 225,
`executionStateChanged` at 778, `currentTickChanged` at 830) slots may make the
calls in `HandlerCalls`. That is the only way `pause()` finds a running
simulation, and how `reset()` can overtake a step. A slot that calls `start()`,
`step()` or `run()` suspends the call it interrupts: `call`, `phase`, `current`,
`outgoing` and `left` (what remains of `maxSteps`, -1 for no bound) are the frame
of the innermost call, `below` the frames it returns to, and `nested` counts such
calls since the simulation was last started or reset outside of a call, up to
`MaxNested`. The signals that a call emits last need no phase: what a slot calls
then comes after. Not modelled are slots on signals from the middle of
`reset()` and `clearSimulationData()`, on the `executionStateChanged` of `start()`
(line 182), on `timelineChanged`, `lastErrorChanged` and
`providerOutputKeyHintsChanged`, and slots that edit the graph, call `setGraph()`
or flip the token-transport flag.

`snap`, `pending`, `tokens`, `executed`, `ready`, `status` and `tick` are the
members; `order` and `endings` are the timeline events of executions and
conclusions. `SurroundingsChange` lets the live graph be edited, replaced or
deleted and the token-transport flag flip between calls. `TopologicalRun` is the
promise: of the components that may run, always the least id, until nothing can.

### TraversalCache (`R/services/TraversalEngine.cpp`)

`components`, `connections` and `link` are the graph; `cache` holds the engine's
maps; `known` and `tracked` are the ids under which it remembers objects;
`dirtyComponents`, `dirtyConnections` and `fullDirty` the marks its slots leave.
Every edit of the graph is an action together with the slots it runs. `Query` is
`ensureCacheReady`: rebuild when told to or when the sizes differ, else
the incremental update. `Callers` names the edits that are not tidy: `"clear"`
(`GraphModel::clear()` under an engine with a cache), `"renamed"` (an object is
edited after a rename), `"dangle"` (a connection added or redirected whose ends are
not both components of the graph, or a component removed or renamed under its
connections). A component is its id, so that no two have the same.

### The services that keep no state: Queries and the modules it extends

A query is asked, worked on and answered. `Queries` has the steps: a service
without a loop is one action (`AnswerValidation`, `AnswerRules`, …); a loop has
an action that begins it, one for an iteration and one that ends it
(`BeginBfs`, `VisitBfs`, `EndBfs`), in phase `"working"`; the walk back from a
target is another loop, in phase `"walking"`, and the sandbox inside a
composite one in phase `"running"`. A function that calls itself
(`strongConnect`, the search of `validateDefinitionGraph`, a composite inside a
composite) has its stack of calls in the state, with an action that enters a
call and one that returns from it. What a step makes of the state is in
modules of their own, as operators in the shape of the code; each property
compares the answer with a definition written differently, by sets and
reachability (`Reachability`: what a relation leads to in so many steps).

- `TraversalQueries` (`R/services/TraversalEngine.cpp` 82-371 and the policy
  helpers): the queues, stacks and sorted lists of `bfs`, `dfs`,
  `topologicalTraversal`, Tarjan's algorithm and Dijkstra's, how each begins and
  what one iteration does; a policy is a record. Where the code takes the first
  of several from a hash table, any of them may be taken.
- `BusinessRules` (`rules/RuleCompiler.cpp`, `RuleRuntimeEngine.cpp`): the
  compiled tables of connections, validations and derived properties.
- `ConnectionPolicies` (`templates/ConnectionPolicyTemplateAdapter.cpp`, the
  policies of both packs, `TypeRegistry::canConnect` and
  `normalizeConnectionProperties`).
- `WorkflowValidation` (`built_in_validation_providers/`, `ValidationAdapter`,
  `ValidationService`): an issue is its code, severity and subject.
- `OrthogonalRouting` (`R/routing/`): coordinates are integers and sizes
  multiples of eight, for which the code's comparisons of reals are exact.
- `GraphDocument` (`GraphSchema`, `GraphJsonMigration`, `ExportService`) and
  `MessageAdapters` (`R/adapters/`): an object is a function from the keys it has;
  each message is a table of fields, each in a class that says how a variant is
  converted (`toString`, `toLower`, `toDouble`, `toInt` with its rounding), what the
  code does when the field is absent, zero or does not convert, and what is
  written back. A rejected element stays in its list as far as it was set.
- `WorkflowExecution` (`CompositeExecutionProvider`, the executors of the
  customized pack, the provider of the sample pack): the search over nested
  definitions, what a component computes, and the graphs inside composites,
  run by the same rule as the sandbox's (least id first).

### ExtensionManifests, PropertySchemas, ExtensionRuntime (`R/extensions/`)

`ExtensionRuntime` follows `loadFromDirectory` file by file and pack by pack:
`phase` says where it is; `manifests`, `indegree`, `queue` and `result` are
its locals; `providers` and `registered` the registry's lists and manifests,
`alive` the packs not yet destroyed. `RegisterProviders` gives what the registry
holds after a pack has offered its providers one after another, up to the first
one that is refused. `RebuildSchemas`, `RebuildTypes`, `RebuildSemantics` and
`RebuildActions` are the rebuilds of the services, `models` the section models
handed out so far; asking a provider whose pack is gone is undefined, and
`Crash` is one of its outcomes. Hash tables are iterated in any order. `ExtensionManifests` reads and checks a
manifest and compares versions; `PropertySchemas` turns a provider's rows into
normalised rows, sections and typed responses.

### RuleReload (`R/extensions/runtime/rules/RuleHotReloadService.cpp`)

The file belongs to others, who write it in place, replace it and remove it
between any two steps of the service; the watcher is Qt's, modelled from how
the service uses it: it watches a file, not a path, and forgets the path when
it tells that the file is gone.

### Viewport (`R/ui/GraphViewportItem.cpp`)

`index`, `observed` and `indexDirty` are the spatial index and the objects whose
signals the item is connected to, `graphDirty`, `componentDirty` and
`cameraDirty` what the next frame has to draw, `asked` and `scheduled` the frame
and the timer that are due, `picture` what was drawn last. A component has its position in the list
(later ones are drawn over earlier ones), a connection only itself. Slots, hit tests, `ExecuteScheduledGraphRebuild` and `UpdatePaintNode` are
actions; a lost scene graph is one more. Routes are any function of the two
rectangles whose segments are horizontal or vertical.

## 3. The runs

| Run | Checks | States | Shows |
|---|---|---|---|
| `collection` | `ITypeOK`, `IndexIntegrity`, `NoRepeats`, `ImplementsIdCollection` | 864 | The index and the list agree after every sequence of operations, and behave as the linear scan |
| `graph_model` | `TypeOK`, `BothIndexesIntact`, `ViewsFreshOutsideBatch` | 10 400 | Both collections under one batch flag; no view is stale outside a batch |
| `sandbox` | `TypeOK`, `PendingCountsUnmet`, `ReadyQueueExact`, `RespectsDependencies`, `VerdictIsTrue`, `ImplementsTopologicalRun` | 94 328 | On every small graph, any driving executes the components in the one prescribed order |
| `sandbox_change` | `ConcludedExactlyOnce`, `TokensHaveArrived`, `EveryCallReturns`, `UnboundedRunConcludes` | 415 634 | While graph, flag and breakpoints change, and slots make any call in the middle of calls: calls return, an unbounded `run()` ends the simulation, cycles included; one conclusion and tokens in place unless a slot starts, steps or runs it |
| `command_stack` | `TypeOK`, `HistoryIsExact`, `OneOwner`, `CheckedStaysLegal` | 108 480 | With ids that are free, undo and redo are exact; every object has one owner; checked requests never lead to an illegal graph, by undo and redo either |
| `rollback_of_merged_move` | `RollBackRestores` | violated | disagreement 1 |
| `traversal_cache` | `TypeOK`, `CacheIsCurrent` | 627 156 | Under tidy edits every traversal reads the graph as it is |
| `queries` | nine invariants, below | 138 130 | The services without state, step by step, answer what their reference definitions answer |
| `extension_loading` | `OrderedAreTheResolvable`, `NothingSilentlyDropped`, `LoadedPacksComplete`, `SchemaViewsAgree`, `LaterPacksOnlyAdd` | 173 756 | What loads, what is reported and what the services then hold, over two loads of any of six directories into one registry |
| `provider_outlives_pack` | `ProvidersAlive` | violated | disagreement 2 |
| `rule_reload` | `RulesCatchUp` | 4 040 | The rules catch up with a file that others write, replace, remove and restore |
| `canvas` | `HitTestIsExact`, `PictureIsCurrent` | 103 811 | Between any changes, frames, timers and hit tests, nothing found or shown is out of date |

The invariants of `queries`:

| Invariant | Compares | With | Queries |
|---|---|---|---|
| `SearchesFindWhatIsReachable` | `bfs`, `dfs` | reachability by number of steps | graphs of four components (one without a type) with any of eight connections (a cycle, two ways out of it, two parallel ones, a self-loop, a dangling one), 256 of them; 11 policies |
| `OrderAndComponentsAgree` | `topologicalTraversal`, Tarjan's components | mutual reachability | the same |
| `PathsAreShortest` | Dijkstra's and A*'s paths | no cheaper sequence of steps exists | any of seven connections, four policies; grids of 5 by 3 cells with a bounded and an unbounded search |
| `VerdictMeansWorkflow` | the verdict over several providers | what a workflow is | every typing of three components with every three connections, and one workflow with each part spoilt; providers that fail, give odd issues, or are backed by rules |
| `RulesDecideByLastEntry` | compiled rules, asked through both packs | the last entry that names the pair or the derived property | documents with up to two entries of nine, missing and mistyped ones included, and up to two derived properties; five sets of properties of a new connection |
| `RoutesFoundAndApart` | routes, one in each direction | borders, interiors, distinct ends | two squares in every relative position, a third between them, any sides |
| `WrittenIsReadBack` | export after import, message after map | the first result | every subset of the fields; old, current and unknown coordinate systems; for each message, one field as any text (capital letters, texts that read as numbers), number, half or table, or up to two fields missing; lists of two for four of the messages |
| `RecursionIsRefused` | `validateDefinitions` | reachability among the types | three composites, any of them inside any |
| `CompositesComputeTheirFormula` | two levels of nested graphs | the formula | references found, dangling and of the wrong kind, attributes, defaults, old keys |

**Bounds, and why they are enough.**

- *Collections:* three objects and three ids. Three is what it takes to have an
  object before and one after the first carrier of an id. `graph_model` has two
  of each kind and two ids, as its question is how the two collections and the
  batch flag interfere.
- *Sandbox:* component ids 1 to 3, up to three connections, and *every* graph
  over them: self-loops, parallel connections, cycles, and connections to
  components that are not there. `sandbox_change` uses one graph of each shape,
  because replacing one by another multiplies the states. Its slots make all six
  calls, and `MaxNested` is 1, since one nested call is enough to conclude a
  simulation under another and two calls return into it; in `sandbox`, whose
  properties compare with the prescribed order, slots pause. `MaxBudget` (1 or 2) bounds the budget of
  `run`, -1 (no budget) and 0 included; `BreakpointIds` bounds where breakpoints
  are set, to a component that never comes first in most graphs. `tick` and
  `order` need no bound: a simulation executes each component once. (A slot that
  resets in the middle of a step is the exception, and there too the step it
  overtook ends.)
- *Command stack:* `MaxCommands` commands, two components, one or two connection
  objects, two component ids, one connection id. Three commands allow a command
  to be merged, one below it to be undone, and a history to be cut. Of the
  places a component may have, `InsideCanvas` calls 3 illegal: `command_stack`
  has a legal and an illegal one, `rollback_of_merged_move`, for which a legal
  move must be merged with an illegal one, two legal ones.
- *Traversal:* two component ids, two connections, two connection ids: enough
  for parallel connections, self-loops, two connections that swap ids, and a
  component that gets another's old id.

- *Queries:* each set of queries is listed with its invariant above; four
  components allow a cycle with a way in and a way out, three definitions a
  recursion over two others, two entries one that overrides another.
- *Extensions:* `MaxLoads` is 2, since a second load is what it takes for a pack
  to meet what an earlier one left behind. The six directories hold a cycle and
  its dependents, a missing dependency, two files of one id, a file that is no
  manifest, ranges above, below and around the core's version, and packs that
  fail half-way, offer taken or blank ids, a null pointer, or are null.
- *Rule reload:* `MaxChanges` 5 changes (replace, restore and write again, with
  one more on either side), `MaxStarts` 2 calls of `startWatchingFile`.
- *Canvas:* `MaxEdits` 3 changes of the graph; two components that overlap, stand
  apart or are out of sight, two connections between them; two cameras, one with
  labels and outlines off; an item with and without a size. Sizes, cells and
  thresholds are the program's own.

Symmetry sets are used only in runs that check invariants alone, over sets whose
elements no definition tells apart (never over the ordered ids of the sandbox
or the places of components).
Deadlock is checked wherever something can always happen. It is not in
`extension_loading` and `provider_outlives_pack`, where a crash stops the
program, nor in `rule_reload`, where the service waits for ever once the
changes have come to an end. (In `queries` an answered query is given back
before the next.)

**Fairness.** Two runs have liveness properties. In the sandbox they hold under
`WF_vars(Advance)`: a call in progress goes on. That is justified because `step`
and `run` are ordinary calls; the thread that makes one executes it to its end,
and `Advance` holds only the actions of a call. Nothing obliges anybody to make
a call, or a slot to do anything. In `EveryCallReturns` slots may
reset the simulation and pause it as often as they like; each emission of a
signal gives them finitely many chances in the code, and in the model a slot
that called back for ever would be one that never returns, which weak fairness
excludes in the same way as it excludes a provider that never returns.
`RulesCatchUp` holds under weak fairness of `FileChanged`, `OnWatchedFileChanged`
and `ReloadNow`: the event loop delivers what is posted and handlers return.
Nobody is obliged to change the file or to start watching.

## 4. What is proved

`tlapm` checks every proof. The constants keep their named assumptions; where a
theorem needs more, it says so in its `ASSUME`.

| Theorem | Says | Assumes |
|---|---|---|
| `CollectionTypeCorrect` | `ISpec => []ITypeOK` | `NullId \notin Id` |
| `IndexNeverDiverges` | `ISpec => []IndexIntegrity` | `NullId \notin Id` |
| `NoObjectListedTwice` | `ISpec => []NoRepeats` | `NullId \notin Id` |
| `IndexedImplementsIdCollection` | `ISpec => ImplementsIdCollection` | `NullId \notin Id` |
| `GraphIndexesIntact` | `Spec => []BothIndexesIntact` of `GraphModel` | `NullId \notin Id` |
| `GraphTypeCorrect` | `Spec => []TypeOK` of `GraphModel` | `NullId \notin Id` |
| `ViewsAreFresh` | `Spec => []ViewsFreshOutsideBatch` | - |
| `SandboxTypeCorrect` | `Spec => []TypeOK` | - |
| `TimelineRespectsDependencies` | `Spec => []RespectsDependencies` | `OnlyPauses` |
| `CountsAreExact` | `Spec => []PendingCountsUnmet` | `OnlyPauses` |
| `QueueIsExact` | `Spec => []ReadyQueueExact` | `OnlyPauses` |
| `OrderIsTopological` | `Spec => []OrderedAreTheResolvable` of `ExtensionRuntime` | - |
| `NoManifestDroppedSilently` | `Spec => []NothingSilentlyDropped` of `ExtensionRuntime` | - |
| `ConcludedOnce` | `Spec => []ConcludedExactlyOnce` | - |
| `VerdictsAreRight` | `Spec => []VerdictIsTrue` | - |
| `TokensArrive` | `Spec => []TokensHaveArrived` | - |
| `SandboxImplementsTopologicalRun` | `Spec => ImplementsTopologicalRun` | `OnlyPauses` |
| `PacksAreWhole` | `Spec => []LoadedPacksComplete` of `ExtensionRuntime` | - |
| `LaterPacksNeverTakeOver` | `Spec => LaterPacksOnlyAdd` of `ExtensionRuntime` | - |
| `ViewsShowTheSchema` | `Spec => []SchemaViewsAgree` of `ExtensionRuntime` | - |
| `TypeCorrectness` | `Spec => []TypeOK` of `CommandStack` | `Callers \subseteq {"direct"}`, `LegalIsBoolean` |
| `HistoryIsAlwaysExact` | `Spec => []HistoryIsExact` | `Callers \subseteq {"direct"}` |
| `EverythingHasOneOwner` | `Spec => []OneOwner` | `Callers \subseteq {"direct"}` |
| `CheckedRequestsStayLegal` | `Spec => []CheckedStaysLegal` | `Callers \subseteq {"direct"}`, `LegalByContent` |
| `RollBackRestoresUnlessMerged` | `Spec => UnmergedRollBackRestores` | `Callers \subseteq {"direct"}` |
| `TraversalTypeCorrect` | `Spec => []TypeOK` of `TraversalCache` | - |
| `TraversalsReadTheGraph` | `Spec => []CacheIsCurrent` | `Callers = {}` |
| `ReloadMissesNoChange` | `Reload!Spec => []NoChangeIsMissed`, `Reload` being `RuleReload` | `NoFileIsNoFile` |
| `HitTestsAreExact` | `Spec => []HitTestIsExact` of `Viewport` | - |
| `PicturesAreCurrent` | `Spec => []PictureIsCurrent` of `Viewport` | - |
| `SearchesFindTheReachable` | `Spec => []SearchesFindWhatIsReachable` of `Queries` | - |
| `OrderAndComponentsAreRight` | `Spec => []OrderAndComponentsAgree` | - |
| `BothSearchesAreExact` | `Spec => []PathsAreShortest` | - |
| `VerdictsMeanWorkflows` | `Spec => []VerdictMeansWorkflow` | - |
| `LastEntriesDecide` | `Spec => []RulesDecideByLastEntry` | - |
| `RoundsChangeNothing` | `Spec => []WrittenIsReadBack` | - |
| `RecursionsAreRefused` | `Spec => []RecursionIsRefused` | - |

`OnlyPauses` is `HandlerCalls \subseteq {"pause", "breakpoint"}`. `ConcludedExactlyOnce`,
`VerdictIsTrue` and `TokensHaveArrived` themselves say `nested = 0`: no slot has
called `start()`, `step()` or `run()`.

The assumptions are needed. With a null id those of the collections are false
(limit 1 of section 5), with an id that is taken those of the undo stack (limits
2 and 3), with a connection to nowhere that of the traversal cache (limit 5). A
reset from a slot in the middle of a step is overtaken
by the rest of the step, which records its component in the simulation just
cleared, where no snapshot holds it: `RespectsDependencies` and `ReadyQueueExact`
are then about the wrong simulation, and with calls of `start()` from slots it is
the next one. What still holds with resets is proved without
the assumption, and `sandbox_change` checks it with such resets. With slots that
call `step()` or `run()` but neither `start()` nor `reset()`, TLC finds that
`RespectsDependencies`, `PendingCountsUnmet` and the tokens still hold on small
graphs; that is not proved.

**Collections.** The inductive invariant is the type invariant, `IndexIntegrity`
and `NoRepeats` together. They need each other: that an object is not listed
twice follows from the index in a step outside a batch and from `tracked` inside
one; that a removal leaves the index right needs that no second occurrence of
the object remains. The key lemmas are about `FirstById`: what it names after an
append, after a removal, and after one object's id changed. The refinement then
follows by cases, each operation of the indexed collection being an operation of
the scanning one, or a stutter.

**Graph.** `GraphModelProofs` instantiates the collection's proofs twice. Every step
of the graph is a step of one collection and leaves the other alone, or
it is a batch or a clear, which is a step of both: so the invariant of a collection is an
invariant of each, whatever they do in turns under one batch flag. That no view
is stale outside a batch is inductive by itself: outside a batch every change of
a list emits, and a batch ends with both signals.

**Sandbox.** Three invariants, each inductive relative to the one before.
`TInv` adds to `TypeOK` what ties a call's phase to its other variables: which
phases belong to `step` and to `run`, that a component is being executed in
exactly the phases that say so, and that it belongs to the snapshot. `OInv` says that the
executed set is the timeline's range, that counts and queue are exact, and that
the component being recorded has no unmet dependency. The work is in one
arithmetic lemma: `RecordExecution` subtracts from a component's count the
number of connections it has from the component just executed, and the
connections into a component from unexecuted sources shrink by just that number.
Self-loops are where this could go wrong, and the invariant shows that a
component with one never becomes ready. `VInv` adds what the phases know of the
conclusion: that it is given once, when the queue has become empty, and that a
paused simulation has something to run. The refinement
adds that the component being recorded is less than all that is ready. The mapping
shows "running" exactly while something is ready or being recorded; by
`ReadyQueueExact` that set is what `TopologicalRun` calls runnable, so recording is its
`Execute`, a start its `Begin`, a failing provider its `Fail`, a reset its
`Discard`, and every other action a stutter.

**Sandbox, with resets in the middle of a step.** The
conclusion, the verdict and the tokens survive them. The invariant is a
disjunction: the simulation is as above (`VInv`), or it is `Void`, without a
snapshot and a ready queue, until the next start. Every reset from a slot leads
to `Void`, and the rest of the step it interrupts stays there: the
component is recorded, but since no count is above zero nothing becomes ready, and the
step gives a verdict only if it had recorded its component before the reset, or had none. The tokens
need one more invariant, `TokensSent`: what was executed has sent its output on
every connection out of it.

**Undo stack.** A document *shows* a state: its lists as sets, and what its
objects are. A command *leads* from one state to another, whatever the order of
the lists. The invariant says that there is a *tale*: a state for every position
of the stack, each of them sound (no id twice, nothing in two places), such that
the command at a position leads from the state before it to the state after it,
done when it is below the index and undone when it is above; that the graph
shows the state at the index; that an object that left the tale does not return
to it; and that everything alive is shown somewhere in it. `HistoryIsExact`
and `OneOwner` follow. Each operation keeps some tale: a push tells the
tale up to the index and adds a state, a merge replaces the last state, a
truncation drops the states that are ahead, clearing starts a new tale, and
undo and redo only turn over the page. The tale is quantified, so TLC
cannot evaluate the invariant; it checks what follows from it. What the
callers of the command stack must leave undone for this is what the run
leaves out (limits 2-4 of section 5): creations with a taken id, imports over a
stack, renames to a taken id. `LegalByContent` asks that the registered invariants not depend on the
order of the lists, which an undo changes; `InsideCanvas` is one that does not.
`RollBackRestoresUnlessMerged` is the other side of disagreement 1: a roll-back
leaves the graph as the request found it whenever the request was not merged.

**Traversal cache.** A cache is *sound* when its connections have ends that it
holds and its adjacency is theirs. Linking, unlinking and dropping a component
keep it sound, one by one; a rebuild and an incremental update are folds of these
over sets of any size, of which the proof follows the set dealt with so far.
`CInv` says besides that the marks suffice: under an id that is not marked the
cache holds what the graph has there, with the same ends, or nothing if the graph
has nothing. So an update, which puts right what is marked, ends in a sound cache
that has the components and connections of the graph, and that is the graph's
adjacency.
That no caller is untidy (`Callers = {}`) is what the run has too (limit 5).

**Extension loading.** For any directories, factories and application providers,
and however the hash tables are walked. The assumptions are those of the module:
a directory has finitely many files and a manifest lists its dependencies
(`DirectoriesAreFinite`), a pack offers a list (`OffersAreLists`), and a schema
provider gives lists of rows with a number each (`SchemasAreLists`). The inductive
invariant `Inv` follows the files without an error diagnostic: while the directory is read they are the unread ones and
those of the discovered ids; while the ids are ordered, those of the ids that
miss no dependency; then those of the ids still to be loaded and of those that were. The middle part is Kahn's
algorithm: an in-degree is the number of positions at which an id still waits, so
an id that is not blocked has in-degree 0 exactly when it is ordered or queued.
That is what keeps an id from being queued twice and what makes "in-degree above
zero" at the end mean "never ordered". `TopologicalInv` adds that an ordered id
stands behind its dependencies; that it is not stuck follows by taking the first
ordered id that would be.

*The registry.* Registering a pack is a fold over what it offers. Each
intermediate result keeps the ids of each kind apart and leaves what was there
before; a pack whose registration ends without a refusal has all its providers in.
So a manifest is in the registry exactly while its pack lives, and the pack is
then whole. The services are folds over the registry's lists: what a service
holds under a name is what the first provider that names it gave. The lists only
grow at their ends, so a later pack cannot be first.

*The schemas.* The rows collected for a target are numbered and have trimmed keys.
Sorting is by rank, and ranks number the positions, so that sorting a section
loses no row and repeats none; the titles are those of the rows, each
once; so the places in the sorted sections correspond one to one to the rows. The
section models are those of the current rows, because a rebuild drops them.

**Rule reload.** `NoChangeIsMissed` is the safety half of `RulesCatchUp`, for any
number of changes and of calls of `startWatchingFile`: while the path is listed
and the file compiles to other rules than the registry's, a notification or a
reload is still to come. A change leaves no notification when the file is not
watched, so the invariant needs two more parts: what is watched is always the
file at the path, and a listed path whose file is not watched has the news
"gone" in the queue, behind which it is dropped or watched again. `NoFileIsNoFile`,
that the sentinel is not a file, is the only assumption.

**Canvas.** For any graphs, sizes of components, cells and item, routes, cameras
and points, with the geometry in integers (`SizesArePositive`,
`PointsAreIntegers`, `GraphsAreLoaded`, and `RoutesAreLines`, that a route has a
segment at least). That the cells lose nothing is geometry: the cell of a
coordinate grows with the coordinate, so rectangles that touch share a cell; a
point within the tolerance of a segment is within it of the box around the
route, since neither side of a right angle is longer than the squares allow. The
box is built with `Min` and `Max` of a route's coordinates; that they exist is shown by a least
counterexample, as induction is not available. The inductive invariant
`ViewInv` is about the order of events: a clean index is the graph's, and then
all objects of the graph are observed; a dirty index is scheduled, or the graph is empty; what no flag
marks is drawn as it is, unless a timer is still to come; what a flag marks has
asked for a frame. Its delicate step is a frame that comes
before the timer: it draws the components of the old index and clears their flag,
which the timer has to set again.

**Services without state.** The named assumptions of `Queries` say what a
question is: a graph has finitely many connections, its ids and the costs are
integers (`GraphsAreFinite`), a grid finitely many free cells with both ends
among them (`GridsAreFinite`), a snapshot has lists (`SnapshotsAreLists`), the
entries of a rule document are lists of what the JSON parser gives
(`RulesAreParsed`), a target with a prefix is not blank (`TargetsAreNotBlank`), lists
of messages and requests hold variants, of any kind under any key
(`ListsAreOfMessages`, `CommandsAreMaps`), and a set of definitions is finite
(`DefinitionsAreFinite`). Of the texts it is assumed that those that read as
numbers do so as whole numbers of halves (`NumbersAreRead`), and that severities
and events, in the spelling in which they are written, lower-case to the names
by which they are read (`SmallLetters`). Nothing bounds their sizes.

What is reachable is defined by recursion, and the provers do no induction over
an operator; but a recursion over the numbers can be named, and from it two
facts are shown once: what is reached is in every set that contains the start
and is closed (`LeastClosed`), and in as many steps as there are elements all of
it is reached (`ReachedClosed`). Every other proof uses only these. A sorted
list is the function that gives each position the element with so many before
it; that it lists every element once, in order, is shown from the order being
strict and total (`RankedIsListing`).

*The searches.* While `bfs` and `dfs` are at work, everything visited or waiting
is reachable, and everything reachable is visited or reached from something
that waits. `bfs` needs that the depths in the queue do not fall and differ by
one at most, so that what is taken is never farther than what follows; `dfs`
that what is visited leads only to what is visited or waits, when no depth
limit cuts it off.

*The shortest paths.* Every distance is that of a path, a visited component has
the least, and none that is not visited has less; an estimate by the sides of
the grid grows by no more than a step does, so what A* takes has no shorter way
left (`GridGoesOn`). Costs are at least 1, so the walk back falls strictly and
ends where it began. When the search ends without the target, what was visited
is closed under steps, so that no path exists.

*Recursion.* The calls on the stack are nested in one another; what is done is
closed under nesting and contains nothing that contains itself. So a nested
type that is on the stack closes a cycle, and a search that ends without one
has shown that there is none: the order in which it finished is one.

*The verdict, the rules, documents and messages* are answered in one step; their
proofs follow the passes over the lists. A verdict without an error means
each of what the providers look at is in order, and together that is what a
workflow is, the ids that occur twice or not at all included. The compiled
table holds what the last entry for a pair said, and the default for others;
the rules of the packs look at the types only. The properties of a new
connection pass through three policies, each a fold that adds what is absent:
what the first has given is what the next one finds, so the caller's own values
come before those of the packs and these before the derived ones
(`AllPoliciesGive`). What was read is not
changed by a second round because every conversion is idempotent on what it has
made: coordinates are marked as converted, a default is written out, a dynamic property
never has the name of a field, a stored text is written as a text, a stored
number as that number, an enumeration in a spelling that is lower-cased to it.
Only a side out of range that was set as a property is not in this form: it is
opened by the second round, which the property says.

*The order and the components.* `topologicalTraversal` counts, for each
component, the connections into it from what is not in the order yet; the
invariant `SortedOk` says so, that the components which wait are those with
none left, and that no step goes back in the order. Whatever is never taken has
a predecessor that is never taken, and going back among finitely many of them
meets one twice: the order is short exactly when there is a cycle, and what is
missing from it lies behind one (`CycleBefore`). For Tarjan's algorithm the
invariant is in two layers. `TarjanState` speaks of sets: the numbers tell
components apart; the low number of a call is that of an open component it
reaches; an open component reaches a call not above it, and a call every open
one above it; what is numbered and not open is closed under steps; and a step
that was looked at is accounted for in the low number of the call it was looked
at in. From this a call that returns with its own number as its low number has
exactly its strongly connected component above it (`CallCloses`), and one with
a smaller one leaves its component open (`CallReturns`). `ConnectOk` ties the
sets to the code: the stack rises and the calls fall in their numbers, each
call is that of a step, and the results so far are the classes of what is
closed, once each.

**Only model-checked:** the liveness properties (`EveryCallReturns`,
`UnboundedRunConcludes`, `RulesCatchUp`), as liveness under fairness is out of the
provers' reach; `RoutesFoundAndApart`, which is about the geometry of the
candidate routes around at most three squares, many cases of integer arithmetic
over lists whose lengths vary; and
`CompositesComputeTheirFormula`, which is about two fixed graphs and the numbers
that pass through them as payloads of payloads: a computation, which TLC does, and
not an argument.

## 5. Disagreements

Two runs state what a comment of the code says and TLC finds it violated.
`PROJECT.json`, "findings", quotes the lines.

1. A rejected move that was merged into an accepted one takes the accepted one
   back with it (`CommandGateway.cpp:361`; run `rollback_of_merged_move`).
2. A pack that fails half-way through its registration is destroyed, and the
   registry keeps pointers to the providers it had registered
   (`ExtensionStartupLoader.cpp:151`; run `provider_outlives_pack`). Their ids
   stay taken too, so the pack cannot be loaded again into the same registry.

The passing runs leave out the calls and configurations below, which break
their properties; a constant (`Callers`, `HandlerCalls`, `NullId \notin Id`) or a
history variable (`nested`) says so, and with another value TLC shows the
violation. The properties hold for what else the modules describe; what these
abstract from is in section 6.

1. `GraphModel` skips the repair of its index for a null id, so an object whose
   id was never set leaves its entry behind when it is removed (`GraphModel.cpp:51`;
   put `NullId` into `Id`).
2. `GraphEditorController::createComponentWithId` takes an id that is taken
   (`GraphEditorController.cpp:304`), and so does `addConnection` through the
   gateway (`CommandGateway.cpp:309`). The graph refuses the object
   (`GraphModel.cpp:259`), the command counts as executed: nobody owns the object,
   the undo removes the other object with that id (`GraphCommands.cpp:47`), and a
   redo then adds the refused one, in strict mode too without a check (the caller
   `"reuse"`: `HistoryIsExact`, `OneOwner` and `CheckedStaysLegal` fail).
3. Nothing keeps a rename from choosing an id that is taken. Commands then find
   the first carrier of the id, and the undo of a removal is refused by
   `addComponent`, of which it does not ask: the object is neither shown nor
   owned from then on (`GraphCommands.cpp:266`; the caller `"rename"`:
   `HistoryIsExact` and `OneOwner` fail, `CheckedStaysLegal` holds).
4. An import deletes objects to which the commands of the stack still point
   (`ExportService.cpp:51`; the caller `"import"`).
5. Edits of a renamed connection are filed under its old id
   (`TraversalEngine.cpp:573`; the caller `"renamed"`); a graph that
   `GraphModel::clear()` emptied and that is refilled to the same size is taken
   for the old one (`:674`; `"clear"`). `GraphModel::addConnection`,
   `setSourceId` and `setTargetId` take ends that are no components: such a
   connection stays unlinked (`:825`) when its component is added and another one
   removed before the next query, which makes the sizes agree and the update
   incremental (`:774`), and so does one whose end is renamed away when a
   component takes that id again (`:552`; both `"dangle"`). Two components of one
   id are outside the module.
6. Slots that call the sandbox in the middle of a call. One that calls `step()`
   or `run()` (from `statusChanged`, lines 192, 209 and 225, from
   `executionStateChanged`, 778, or from `currentTickChanged`, 830) may execute
   what is left and conclude the simulation; the call it interrupted goes on to
   `finalizeIfNoReadyComponents`, which does not ask whether the simulation is
   concluded (835-846), and concludes it again: two `SimulationCompleted` events, or
   a `SimulationBlocked` from a slot that steps while a component is executed and
   then a `SimulationCompleted`. A slot that calls `start()` or `reset()` is overtaken by
   the rest of the step it interrupted, which records its component in the new or
   cleared simulation. (`HandlerCalls` and `nested`: `ConcludedExactlyOnce` and
   `VerdictIsTrue` fail without their `nested = 0`; `RespectsDependencies`, the
   counts and the tokens survive `step()` and `run()`, not `start()`.)

Other places where the code differs from what one would expect, met while
modelling. The modules do what the code does; no property claims otherwise.

- *Graph.* `removeComponent` and `removeConnection` emit their changed signal
  inside a batch too (`GraphModel.cpp:288`, `338`), while `GraphModel.h:44-46`
  says that a batch suppresses the per-item signals.
- *Loading.* An extension loads although a dependency that was found failed to
  load. Mere dependents of a blocked extension are reported as "Dependency
  cycle". The loader does not consult the contracts that the compatibility
  report calls breaking. In both applications the loader, with its packs, is
  destroyed before the registry.
- *Schemas.* The typed section model parses normalised rows again, so a field
  that lost its widget is invalid in one view and valid in the other;
  `schemaForTargetTyped` reads `editor` from rows that have only `widget`; two
  sections whose titles differ in case share an id; a target listed twice in a
  bundle gets its first rows twice.
- *Types and actions.* A comment in `TypeRegistry` says that later policies
  overwrite keys, but the policies only add absent ones. `SampleActionProvider`
  builds a flat map that the command adapter cannot convert, so
  `invokeActionTyped("setTaskPriority", …)` always fails, although
  `src/example/README.md:1003-1005` shows it as the usage.
- *Rules.* When the path has no file at the moment of a notification, the watch
  is lost until `startWatchingFile` is called again, although
  `src/customize_example/main.cpp` says that changes are picked up without restart.
- *Validation.* A valid verdict does not ask that every component reach the stop,
  and an error issue without a text is no error.
- *Composites.* An absent or textual side of the triangle counts as 1, a missing
  `S` as 0, a dangling reference falls back silently. A failing executor stops
  the sandbox, so an ErrorHandler component never gets its error.
- *Documents and messages.* A property that is named like a declared field sets
  the field; a side out of range that is given as a property is not normalised,
  but opened by the next import; a property named `objectName` is lost. Messages
  turn every text field into a text (42 comes back as "42"), severities into small
  letters, and a list whose conversion failed keeps the element that failed, as
  far as it was set.
- *Routing.* With a third component in line between two others only the grid
  search can find a route. Sides of which one was requested and one was not can
  share an end, as the fallback loses the offset.
- *Canvas.* `setGraph` with a graph that is not empty schedules no rebuild, and
  `setGraph(null)` leaves the old components drawn. Panning marks only the
  camera, so components that were culled when components were last drawn stay
  undrawn until the next change of one. Lines 58-796 of `GraphViewportItem.cpp`
  repeat the routing helpers and are not called.
- *Interaction.* The start functions of `InteractionStateManager.qml` replace an
  active interaction without a guard; a change of the components in the middle of a group
  move ends it, so that its end commits only the anchor; losing the focus
  discards a marquee that releasing Ctrl would have applied.

## 6. What is abstracted, and what is not modelled

- Ids, places and payloads are model values or numbers. A place stands for
  everything of a component that is not its id, the source and the target of a
  connection for its other properties too (the sides, the label).
- Undo appends what it restores at the end of the lists; `HistoryIsExact`
  compares contents as sets. The order is lost in the code, and is lost here.
- The ready queue is a set: the code keeps it sorted and takes the least.
  Component ids in the sandbox are already trimmed, and connection ids distinct.
- In the sandbox a provider is its verdict; what it computes is the token that
  carries its component's name. Telemetry, redaction and the coalescing of
  timeline signals are left out.
- In the traversal cache labels and types are only copied, so they are left out;
  the entries `known` holds for removed components are not kept; pointers to
  deleted objects in `tracked` are kept as stale entries, and their use, which
  is undefined, has no outcome of its own.
- Rendering of a route that the grid search gives: its cells are searched
  (`ShortestWalk`), the conversion to a polyline is the value `Grid`. Real
  numbers are integers wherever the code's comparisons of reals are exact on
  them; square roots and quotients are taken where they are whole.
- The variants that adapters convert are texts, numbers that are multiples of a
  half, and maps; truth values, lists and numbers too large for an `int` are left
  out. The texts of
  diagnostics, issues and errors are left out; whether there is one is kept
  where the code asks.
- In `Viewport` labels, the grid and the temporary connection are left out; the
  graph is set once, before any change; a point query in a scene with lost nodes is as any other.
- Qt's file system watcher and its event loop are modelled from how the code
  uses them and marked external in the map.

Not modelled, and why:

- *Command transport:* one synchronous switch over the status of a call to an
  interface that only test doubles implement; nothing in the editor uses it.
- *Interaction state machine:* what holds depends on the order in which Qt Quick
  delivers pointer events to the handlers of `GraphCanvas.qml`.
- *Invoking actions, CapabilityRegistry, the logs and latency samples of the
  gateway, TokenKeyCatalog:* look-ups and records nothing else depends on.
- *Geometry nodes, labels, textures, the grid, schema forms in QML:* drawing.
- *MemoryMonitor, PerformanceBudgets, the benchmark panel:* measurements.
- *The tables of schemas and types of the packs, the icon library:* data.

## 7. Plan

Done: collections and graph; sandbox; command stack; traversal cache and
queries; composites and executors; extension loading and what is rebuilt from
it; rules and their reload; policies and validation; routing; documents and
messages; the canvas; and the proofs of every safety property but the two named
under "Only model-checked". What would come next, in order of importance:

1. **Routing:** the candidate routes as functions of the two rectangles, so that
   the part of `RoutesFoundAndApart` that is about borders and shared ends can be
   proved.
2. **Canvas:** a graph that is replaced while it is shown.
3. **CommandGateway's** capability gate and logs, if they come to decide
   anything besides the refusal itself.
