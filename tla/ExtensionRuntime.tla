-------------------------- MODULE ExtensionRuntime --------------------------
(***************************************************************************)
(* How extension packs reach the program.  ExtensionStartupLoader reads    *)
(* the manifests of a directory, orders them by their dependencies and     *)
(* loads the packs one by one into an ExtensionContractRegistry; the       *)
(* services then rebuild what they hold from the registry: the property    *)
(* schemas and their models, the palette of component types, the execution *)
(* semantics of the sandbox, the actions and the validators.               *)
(*                                                                         *)
(* The registry keeps pointers to providers that live inside their packs.  *)
(* A provider is a record of its id, the pack it lives in and what it      *)
(* gives; `alive' is the set of packs that have not been destroyed.  The   *)
(* hash tables of the loader are iterated in any order.                    *)
(***************************************************************************)
EXTENDS Integers, Sequences, SequencesExt, FiniteSets, ExtensionManifests, PropertySchemas

CONSTANTS
    Directories,    \* the directories of manifests: file name -> content
    RuleFiles,      \* file names that start with "rules."
    Factories,      \* extension id -> what its pack registers, or NullPack
    NullPack,       \* a factory that returns no pack
    NullProvider,   \* a pack that registers a null pointer
    AppProviders,   \* what the application registers before it loads packs
    CoreApi,        \* the version of the core
    Targets,        \* the targets whose schemas are looked at
    MaxLoads        \* bound: calls of loadFromDirectory

\* A directory has finitely many files, and a manifest lists its dependencies.
ASSUME DirectoriesAreFinite ==
    \A chosen \in Directories :
        /\ IsFiniteSet(DOMAIN chosen)
        /\ \A file \in DOMAIN chosen :
              Parses(chosen[file]) => chosen[file].dependencies \in Seq(STRING)

App == << 0, "" >>      \* owns the providers of the application

Kinds == {"componentType", "connectionPolicy", "propertySchema", "validation",
          "action", "execution"}

VARIABLES
    phase,          \* what loadFromDirectory is doing; "ready" between calls
    loads,          \* calls so far
    directory,      \* the directory being loaded
    unread,         \* its files the iterator has still to give
    manifests,      \* discovered manifests: extension id -> file
    indegree, queue, ordered,   \* of dependencyOrder()
    todo,           \* the ordered ids still to be loaded
    result,         \* ExtensionLoadResult
    registered,     \* the manifests in the registry: id -> manifest
    providers,      \* the providers in the registry, by kind
    alive,          \* the packs that live: << load, extension id >>
    rows, models,   \* PropertySchemaRegistry: rows and section models by target
    types, palette, \* TypeRegistry, and what a view last read from it
    semantics,      \* GraphExecutionSandbox: component type -> provider
    actions         \* ActionInvocationService: action id -> provider

loaderVars == << phase, loads, directory, unread, manifests, indegree, queue, ordered, todo, result >>
registryVars == << registered, providers, alive >>
viewVars == << rows, models, types, palette, semantics, actions >>
vars == << loaderVars, registryVars, viewVars >>

----------------------------------------------------------------------------
(* The registry. *)

\* Both kinds of execution semantics share a registry: a provider of the old
\* interface is wrapped in an adapter, which calls on the provider.
RegistryOf(kind) == IF kind = "executionV0" THEN "execution" ELSE kind

Ids(list) == {list[i].id : i \in DOMAIN list}

\* What a pack offers is a list of providers, each of a kind that is kept, and of
\* null pointers.
ASSUME OffersAreLists ==
    LET Listed(offers) ==
            /\ Len(offers) \in Nat /\ DOMAIN offers = 1 .. Len(offers)
            /\ \A i \in DOMAIN offers :
                  offers[i] # NullProvider => RegistryOf(offers[i].kind) \in Kinds
    IN  /\ Listed(AppProviders)
        /\ \A id \in DOMAIN Factories : Factories[id] # NullPack => Listed(Factories[id])

\* What a schema provider gives is a list of lists of rows, which are numbered.
ASSUME SchemasAreLists ==
    LET IsAList(list) == Len(list) \in Nat /\ DOMAIN list = 1 .. Len(list)
        IsASchema(bundle) ==
            /\ IsAList(bundle)
            /\ \A j \in DOMAIN bundle :
                  /\ IsAList(bundle[j].rows)
                  /\ \A k \in DOMAIN bundle[j].rows : bundle[j].rows[k].order \in Int
        HaveSchemas(offers) ==
            \A i \in DOMAIN offers :
                offers[i] # NullProvider /\ offers[i].kind = "propertySchema" =>
                    IsASchema(offers[i].gives)
    IN  /\ HaveSchemas(AppProviders)
        /\ \A id \in DOMAIN Factories : Factories[id] # NullPack => HaveSchemas(Factories[id])

\* Mutant of Registrable: the duplicate check is gone.
RegistrableTwice(held, offer) == offer # NullProvider /\ offer.id # Blank

\* registerProviderInternal() accepts the provider.
Registrable(held, offer) ==
    /\ offer # NullProvider
    /\ offer.id # Blank
    /\ offer.id \notin Ids(held[RegistryOf(offer.kind)])

\* A pack registers its providers until one is refused.
RegisterProviders(before, pack, offers) ==
    FoldLeft(LAMBDA done, offer :
                IF ~ done.ok \/ ~ Registrable(done.held, offer)
                THEN [done EXCEPT !.ok = FALSE]
                ELSE [done EXCEPT !.held[RegistryOf(offer.kind)] =
                         Append(@, [id |-> offer.id, pack |-> pack, gives |-> offer.gives])],
             [ok |-> TRUE, held |-> before], offers)

Init ==
    /\ phase = "ready" /\ loads = 0 /\ todo = << >>
    /\ directory = << >> /\ unread = {} /\ manifests = << >>
    /\ indegree = << >> /\ queue = << >> /\ ordered = << >>
    /\ result = [loaded |-> << >>, errors |-> {}]
    /\ registered = << >> /\ alive = {App}
    /\ providers = RegisterProviders([kind \in Kinds |-> << >>], App, AppProviders).held
    /\ rows = [target \in Targets |-> << >>] /\ models = << >>
    /\ types = << >> /\ palette = << >> /\ semantics = << >> /\ actions = << >>

----------------------------------------------------------------------------
(* Discovery. *)

LoadFromDirectory ==
    /\ phase = "ready" /\ loads < MaxLoads
    /\ \E chosen \in Directories :
          /\ directory' = chosen
          /\ unread' = DOMAIN chosen
    /\ phase' = "discovering" /\ loads' = loads + 1
    /\ manifests' = << >> /\ result' = [loaded |-> << >>, errors |-> {}]
    /\ UNCHANGED << indegree, queue, ordered, todo, registryVars, viewVars >>

\* The diagnostics of severity Error, of a file and why.
Errors(files, why) == {[file |-> file, why |-> why] : file \in files}

SkipRuleFile ==
    /\ phase = "discovering"
    /\ \E file \in unread \cap RuleFiles : unread' = unread \ {file}
    /\ UNCHANGED << phase, loads, directory, manifests, indegree, queue, ordered, todo, result,
                    registryVars, viewVars >>

DiscoverManifest ==
    /\ phase = "discovering"
    /\ \E file \in unread \ RuleFiles :
          /\ unread' = unread \ {file}
          /\ \/ /\ ~ Parses(directory[file])
                /\ result' = [result EXCEPT !.errors = @ \cup Errors({file}, "parse")]
                /\ UNCHANGED manifests
             \/ /\ Parses(directory[file])
                /\ directory[file].extensionId \in DOMAIN manifests
                /\ result' = [result EXCEPT !.errors = @ \cup Errors({file}, "duplicate")]
                /\ UNCHANGED manifests
             \/ /\ Parses(directory[file])
                /\ directory[file].extensionId \notin DOMAIN manifests
                /\ manifests' = [id \in DOMAIN manifests \cup {directory[file].extensionId} |->
                                    IF id \in DOMAIN manifests THEN manifests[id] ELSE file]
                /\ UNCHANGED result
    /\ UNCHANGED << phase, loads, directory, indegree, queue, ordered, todo, registryVars, viewVars >>

----------------------------------------------------------------------------
(* The order of the dependencies. *)

Manifest(id) == directory[manifests[id]]
Dependencies(id) == Manifest(id).dependencies
Discovered == DOMAIN manifests

\* The ids that name a dependency nobody provides.
Blocked == {id \in Discovered : ~ Range(Dependencies(id)) \subseteq Discovered}

\* Mutant of Lists: a repeated dependency is one edge, but counts in-degrees.
ListsOnce(id, dependency) ==
    IF dependency \in Range(Dependencies(id)) THEN 1 ELSE 0

\* How often id lists the dependency; edges and in-degrees count repetitions.
Lists(id, dependency) ==
    Cardinality({i \in DOMAIN Dependencies(id) : Dependencies(id)[i] = dependency})

FilesOf(ids) == {manifests[id] : id \in ids}

StartOrdering ==
    /\ phase = "discovering" /\ unread = {}
    /\ indegree' = [id \in Discovered |->
                       Cardinality({i \in DOMAIN Dependencies(id) : Dependencies(id)[i] \in Discovered})]
    /\ queue' \in SetToSeqs({id \in Discovered \ Blocked : indegree'[id] = 0})
    /\ result' = [result EXCEPT !.errors = @ \cup Errors(FilesOf(Blocked), "missing dependency")]
    /\ phase' = "ordering" /\ ordered' = << >>
    /\ UNCHANGED << loads, directory, unread, manifests, todo, registryVars, viewVars >>

Dequeue ==
    /\ phase = "ordering" /\ queue # << >>
    /\ LET current == Head(queue)
       IN  /\ ordered' = Append(ordered, current)
           /\ indegree' = [id \in Discovered |-> indegree[id] - Lists(id, current)]
           /\ \E ready \in SetToSeqs({id \in Discovered \ Blocked :
                                            Lists(id, current) > 0 /\ indegree'[id] = 0}) :
                 queue' = Tail(queue) \o ready
    /\ UNCHANGED << phase, loads, directory, unread, manifests, todo, result, registryVars, viewVars >>

\* Mutant of Cyclic: only the members of a cycle, not what waits behind one.
CyclicStrictly ==
    {id \in Discovered \ Blocked :
        indegree[id] > 0 /\ \E other \in Range(Dependencies(id)) :
            other \in Discovered /\ id \in Range(Dependencies(other))}

\* The ids reported as part of a cycle: whatever was never ready, be it behind
\* a cycle or behind an id that is blocked.
Cyclic == {id \in Discovered \ Blocked : indegree[id] > 0}

FinishOrdering ==
    /\ phase = "ordering" /\ queue = << >>
    /\ result' = [result EXCEPT !.errors = @ \cup Errors(FilesOf(Cyclic), "cycle")]
    /\ phase' = "loading" /\ todo' = ordered
    /\ UNCHANGED << loads, directory, unread, manifests, indegree, queue, ordered, registryVars, viewVars >>

----------------------------------------------------------------------------
(* Loading the packs. *)

Candidate == Head(todo)
Pack == << loads, Candidate >>

Compatible(manifest) ==
    EvaluateCompatibility(CoreApi, manifest.minCoreApi, manifest.maxCoreApi) = "compatible"

Registration == RegisterProviders(providers, Pack, Factories[Candidate])

\* The tests of the loop, in their order: an id is given up at the first that fails.
Refusal ==
    CASE ~ Compatible(Manifest(Candidate))     -> "incompatible"
      [] Candidate \in DOMAIN registered       -> "already registered"
      [] Candidate \notin DOMAIN Factories     -> "no factory"
      [] Factories[Candidate] = NullPack       -> "null pack"
      [] OTHER                             -> "none"

RejectPack ==
    /\ phase = "loading" /\ todo # << >> /\ Refusal # "none"
    /\ todo' = Tail(todo)
    /\ result' = [result EXCEPT !.errors = @ \cup Errors(FilesOf({Candidate}), Refusal)]
    /\ UNCHANGED << phase, loads, directory, unread, manifests, indegree, queue, ordered,
                    registryVars, viewVars >>

\* The pack is destroyed; the providers it had registered stay in the registry.
FailRegistration ==
    /\ phase = "loading" /\ todo # << >> /\ Refusal = "none"
    /\ ~ Registration.ok
    /\ providers' = Registration.held
    /\ todo' = Tail(todo)
    /\ result' = [result EXCEPT !.errors = @ \cup Errors(FilesOf({Candidate}), "registration")]
    /\ UNCHANGED << phase, loads, directory, unread, manifests, indegree, queue, ordered,
                    registered, alive, viewVars >>

LoadPack ==
    /\ phase = "loading" /\ todo # << >> /\ Refusal = "none"
    /\ Registration.ok
    /\ providers' = Registration.held
    /\ registered' = [id \in DOMAIN registered \cup {Candidate} |->
                         IF id = Candidate THEN Manifest(Candidate) ELSE registered[id]]
    /\ alive' = alive \cup {Pack}
    /\ todo' = Tail(todo)
    /\ result' = [result EXCEPT !.loaded = Append(@, Candidate)]
    /\ UNCHANGED << phase, loads, directory, unread, manifests, indegree, queue, ordered, viewVars >>

ReturnResult ==
    /\ phase = "loading" /\ todo = << >>
    /\ phase' = "ready"
    /\ UNCHANGED << loads, directory, unread, manifests, indegree, queue, ordered, todo, result,
                    registryVars, viewVars >>

----------------------------------------------------------------------------
(* The services rebuild what they hold.  To ask a provider whose pack is   *)
(* gone is undefined: it is a crash, or the answer of the memory that was  *)
(* not reused yet.                                                         *)

Dangling(kind) == \E i \in DOMAIN providers[kind] : providers[kind][i].pack \notin alive

Crash ==
    /\ phase = "ready"
    /\ \E kind \in {"propertySchema", "componentType", "execution", "action"} : Dangling(kind)
    /\ phase' = "crashed"
    /\ UNCHANGED << loads, directory, unread, manifests, indegree, queue, ordered, todo, result,
                    registryVars, viewVars >>

\* Mutant of RebuildSchemas: the section models are kept.
RebuildSchemasKeepsModels ==
    /\ phase = "ready"
    /\ LET held == providers["propertySchema"]
           bundles == [i \in DOMAIN held |-> held[i].gives]
       IN  rows' = [target \in Targets |-> CollectedRows(bundles, target)]
    /\ UNCHANGED << loaderVars, registryVars, models, types, palette, semantics, actions >>

\* PropertySchemaRegistry::rebuildFromRegistry; the models go with the rows.
RebuildSchemas ==
    /\ phase = "ready"
    /\ LET held == providers["propertySchema"]
           bundles == [i \in DOMAIN held |-> held[i].gives]
       IN  rows' = [target \in Targets |-> CollectedRows(bundles, target)]
    /\ models' = << >>
    /\ UNCHANGED << loaderVars, registryVars, types, palette, semantics, actions >>

Schema(target) == ResolvedSchemaRows(rows[target], target)

\* typedSectionModelForTarget(): built on the first request and kept.
ViewSchema ==
    /\ phase = "ready"
    /\ \E target \in Targets \ DOMAIN models :
          models' = [t \in DOMAIN models \cup {target} |->
                        IF t = target THEN SectionizeTypedRows(Schema(t)) ELSE models[t]]
    /\ UNCHANGED << loaderVars, registryVars, rows, types, palette, semantics, actions >>

\* Mutant of FirstGiving: later providers win.
LastGiving(list) ==
    FoldLeft(LAMBDA index, provider :
                [name \in DOMAIN index \cup (Range(provider.gives) \ {Blank}) |->
                    IF name \in Range(provider.gives) THEN provider ELSE index[name]],
             << >>, list)

\* What a service finds for a name: the first provider that gives it.
FirstGiving(list) ==
    FoldLeft(LAMBDA index, provider :
                [name \in DOMAIN index \cup (Range(provider.gives) \ {Blank}) |->
                    IF name \in DOMAIN index THEN index[name] ELSE provider],
             << >>, list)

\* TypeRegistry::rebuildFromRegistry; componentTypesChanged, on which a palette
\* reads the types again, is emitted only if the list of ids changed (it never
\* shrinks and is never reordered, so the set of ids tells).
RebuildTypes ==
    /\ phase = "ready"
    /\ types' = FirstGiving(providers["componentType"])
    /\ palette' = IF DOMAIN types' # DOMAIN types THEN types' ELSE palette
    /\ UNCHANGED << loaderVars, registryVars, rows, models, semantics, actions >>

\* GraphExecutionSandbox::rebuildSemanticsFromRegistry.
RebuildSemantics ==
    /\ phase = "ready"
    /\ semantics' = FirstGiving(providers["execution"])
    /\ UNCHANGED << loaderVars, registryVars, rows, models, types, palette, actions >>

\* ActionInvocationService::rebuildFromRegistry.
RebuildActions ==
    /\ phase = "ready"
    /\ actions' = FirstGiving(providers["action"])
    /\ UNCHANGED << loaderVars, registryVars, rows, models, types, palette, semantics >>

Next ==
    \/ LoadFromDirectory \/ SkipRuleFile \/ DiscoverManifest
    \/ StartOrdering \/ Dequeue \/ FinishOrdering
    \/ RejectPack \/ FailRegistration \/ LoadPack \/ ReturnResult
    \/ Crash \/ RebuildSchemas \/ ViewSchema
    \/ RebuildTypes \/ RebuildSemantics \/ RebuildActions

Spec == Init /\ [][Next]_vars


----------------------------------------------------------------------------
(* What the loader promises. *)

\* Ids each of which waits for an id nobody provides or for another of them.
Stuck ==
    UNION {ids \in SUBSET Discovered :
              \A id \in ids : \E dependency \in Range(Dependencies(id)) :
                  dependency \notin Discovered \/ dependency \in ids}

\* dependencyOrder() orders exactly the extensions that can be ordered, each
\* once and behind everything it depends on, however often it lists a
\* dependency and in whatever order the hash tables are walked.
OrderedAreTheResolvable ==
    phase = "loading" =>
        /\ Range(ordered) = Discovered \ Stuck
        /\ Len(ordered) = Cardinality(Range(ordered))
        /\ \A i \in DOMAIN ordered :
              Range(Dependencies(ordered[i])) \subseteq {ordered[j] : j \in 1 .. (i - 1)}

\* After loadFromDirectory() every manifest file of the directory was either
\* loaded, once, or has an error diagnostic that names it: nothing between the
\* discovery, the ordering and the loading drops a file silently.
NothingSilentlyDropped ==
    phase = "ready" /\ loads > 0 =>
        \A file \in DOMAIN directory \ RuleFiles :
            LET times == Cardinality({i \in DOMAIN result.loaded :
                                         manifests[result.loaded[i]] = file})
            IN  IF \E error \in result.errors : error.file = file THEN times = 0 ELSE times = 1

\* A manifest is in the registry exactly while its pack lives; then the core is
\* in its range and each of its providers is registered once, and never do two
\* providers of a kind share an id.  This is across loads of several
\* directories, packs that fail half-way and packs that offer taken ids.
LoadedPacksComplete ==
    /\ {pack[2] : pack \in alive \ {App}} = DOMAIN registered
    /\ Cardinality(alive \ {App}) = Cardinality(DOMAIN registered)
    /\ \A id \in DOMAIN registered : AnalyzeManifest(CoreApi, registered[id]).rangeCompatible
    /\ \A pack \in alive \ {App} : \A offer \in Range(Factories[pack[2]]) :
          Cardinality({i \in DOMAIN providers[RegistryOf(offer.kind)] :
              LET held == providers[RegistryOf(offer.kind)][i]
              IN  held.pack = pack /\ held.id = offer.id}) = 1
    /\ \A kind \in Kinds : Cardinality(Ids(providers[kind])) = Len(providers[kind])

\* Every pack whose providers are in the registry lives: the loader "keeps
\* loaded packs alive for registry pointer safety".
ProvidersAlive == \A kind \in Kinds : ~ Dangling(kind)

\* A later load adds names and never changes what a name stands for: after any
\* rebuild a type, an execution or an action is served by the provider that
\* served it before; so the palette, told only of new ids, is never stale.
LaterPacksOnlyAdd ==
    [][/\ \A name \in DOMAIN types : name \in DOMAIN types' /\ types'[name] = types[name]
       /\ \A name \in DOMAIN semantics :
             name \in DOMAIN semantics' /\ semantics'[name] = semantics[name]
       /\ \A name \in DOMAIN actions : name \in DOMAIN actions' /\ actions'[name] = actions[name]
       /\ palette' = types']_vars

\* The views of a schema agree: the section models, kept since they were first
\* asked for, are those of the rows as they are now and show the same fields in
\* the same sections and order as the plain sections; each row is in exactly
\* one section; a section is in ascending order; and a successful response
\* lists every row.
SchemaViewsAgree ==
    \A target \in DOMAIN models :
        LET schema == Schema(target)
            plain == SectionizeRows(schema)
            typed == models[target]
            Keys(section) == [i \in DOMAIN section.fields |-> section.fields[i].key]
            Times(key) == Cardinality({i \in DOMAIN schema : schema[i].key = key})
            Places == {place \in (DOMAIN typed) \X (1 .. Len(schema)) :
                           place[2] <= Len(typed[place[1]].fields)}
            Shown(key) == {place \in Places : typed[place[1]].fields[place[2]].key = key}
        IN  /\ [k \in DOMAIN typed |-> << typed[k].title, Keys(typed[k]) >>]
                   = [k \in DOMAIN plain |-> << plain[k].title, Keys(plain[k]) >>]
            /\ \A row \in Range(schema) : Cardinality(Shown(row.key)) = Times(row.key)
            /\ \A k \in DOMAIN typed : \A i, j \in DOMAIN typed[k].fields :
                  i < j => typed[k].fields[i].order <= typed[k].fields[j].order
            /\ SchemaResponse(schema).success =>
                  Len(SchemaResponse(schema).entries) = Len(schema)

=============================================================================
