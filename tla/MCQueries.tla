------------------------------- MODULE MCQueries -----------------------------
(* The queries that TLC asks. *)
EXTENDS Queries, TLC

(* Graphs of four components, of two types and without one, with connections
   on a cycle, out of it by two ways, parallel, to itself and to nowhere. *)
MCPairs == << <<1, 2>>, <<2, 3>>, <<3, 1>>, <<3, 4>>, <<2, 4>>, <<1, 2>>, <<4, 4>>, <<4, 9>> >>
MCGraph(kept) ==
  [type  |-> 1 :> NoType @@ 2 :> "task" @@ 3 :> "task" @@ 4 :> "gate",
   links |-> [k \in kept |-> [source |-> MCPairs[k][1], target |-> MCPairs[k][2],
                              label  |-> IF k \in {2, 4, 6} THEN "b" ELSE "a"]]]
MCPolicy == [entryIds |-> {}, zeroInDegree |-> TRUE, maxDepth |-> Unbounded, prunedIds |-> {},
             prunedTypes |-> {}, allowed |-> {}, blocked |-> {},
             typeScore |-> "task" :> 0 @@ "gate" :> 0 @@ NoType :> 0,
             labelScore |-> [a |-> 0, b |-> 0]]
MCScored == [MCPolicy EXCEPT !.typeScore["task"] = 300, !.labelScore.b = 900]
MCPolicies ==
  {MCPolicy, MCScored,
   [MCPolicy EXCEPT !.zeroInDegree = FALSE],
   [MCPolicy EXCEPT !.entryIds = {3, 9}],
   [MCPolicy EXCEPT !.entryIds = {1}, !.maxDepth = 0],
   [MCPolicy EXCEPT !.entryIds = {1, 4}, !.maxDepth = 1],
   [MCScored EXCEPT !.entryIds = {1}, !.maxDepth = 2],
   [MCPolicy EXCEPT !.prunedIds = {2}],
   [MCPolicy EXCEPT !.entryIds = {1}, !.prunedTypes = {"gate"}],
   [MCPolicy EXCEPT !.allowed = {"a"}],
   [MCPolicy EXCEPT !.allowed = {"a", "b"}, !.blocked = {"b"}, !.zeroInDegree = FALSE]}
MCTraversals ==
  [graph  : {MCGraph(kept) : kept \in SUBSET (1..8)},
   policy : MCPolicies]
MCPathQueries ==
  [graph  : {MCGraph(kept) : kept \in SUBSET (1..7)},
   policy : {MCPolicy, MCScored, [MCPolicy EXCEPT !.labelScore.a = 600, !.prunedTypes = {"gate"}],
             [MCPolicy EXCEPT !.blocked = {"b"}]},
   source : {1}, target : {3, 4}]

(* Snapshots: three components of any types with up to three connections
   among them, and one workflow with each of its parts spoilt. *)
MCIds == <<"a", "b", "c">>
MCComponent(i, type) == [id |-> MCIds[i], type |-> type, width |-> 96, height |-> 96]
MCConnection(i, source, target) ==
  [id |-> ToString(i), source |-> MCIds[source], target |-> MCIds[target],
   sourceSide |-> -1, targetSide |-> 3]
MCWorkflow ==
  [components  |-> <<MCComponent(1, "start"), MCComponent(2, "process"), MCComponent(3, "stop")>>,
   connections |-> <<MCConnection(1, 1, 2), MCConnection(2, 2, 3)>>]
MCSpoilt ==
  {[MCWorkflow EXCEPT !.components[i][field] = value] :
     i \in 1..3, field \in {"id", "type"}, value \in {"", "a", "b"}}
  \cup {[MCWorkflow EXCEPT !.components[2][field] = 0] : field \in {"width", "height"}}
  \cup {[MCWorkflow EXCEPT !.connections[2][field] = value] :
          field \in {"id", "source", "target"}, value \in {"", "1", "a", "z"}}
  \cup {[MCWorkflow EXCEPT !.connections[1][field] = value] :
          field \in {"sourceSide", "targetSide"}, value \in {-2, 4}}
  \cup {[components |-> <<>>, connections |-> <<>>],
        [MCWorkflow EXCEPT !.components = Append(@, [MCComponent(1, "start") EXCEPT !.width = 8])]}
MCSnapshots ==
  {[components  |-> [i \in 1..3 |-> MCComponent(i, types[i])],
    connections |-> [i \in 1..3 |-> MCConnection(i, ends[i][1], ends[i][2])]] :
     types \in {t \in [1..3 -> {"start", "process", "stop"}] : t[1] # "stop" /\ t[3] # "start"},
     ends \in {f \in [1..3 -> (1..3) \X (1..3)] :
                 \A i \in 1..2 : f[i][1] * 4 + f[i][2] <= f[i + 1][1] * 4 + f[i + 1][2]}}
  \cup MCSpoilt \cup {MCWorkflow}
MCRule(kind) == [kind |-> kind, type |-> "process", code |-> "R", severity |-> "error", message |-> "m"]
MCRulesProvider ==
  [kind  |-> "rules",
   rules |-> [NoRules EXCEPT !.validations = <<MCRule("exactlyOneType"), MCRule("endpointExists"),
                                               MCRule("noIsolated")>>]]
MCGiven(code, severity, text) ==
  [kind   |-> "given",
   issues |-> {[code |-> code, severity |-> severity, subject |-> 0, text |-> text]}]
MCProviders(kinds) == {[kind |-> kind] : kind \in kinds}
MCValidations ==
  [providers : {MCProviders({"workflow"}), MCProviders({"structure", "connection", "topology"})},
   snapshot  : MCSnapshots]
  \cup [providers : {MCProviders({"workflow", "failing"}), {},
                     MCProviders({"workflow"}) \cup {MCRulesProvider}}
                    \cup {MCProviders({"workflow"}) \cup {MCGiven(code, severity, text)} :
                            code \in {"G", Missing}, severity \in {Missing, "error", "info", "bad"},
                            text \in BOOLEAN},
        snapshot  : MCSpoilt \cup {MCWorkflow}]

(* Rule documents, and the properties of a new connection. *)
MCEntries ==
  [source : {"start"}, target : {"process"}, allow : {TRUE, FALSE, Missing}]
  \cup {[source |-> "process", target |-> "stop", allow |-> FALSE],
        [source |-> "stop", target |-> "start", allow |-> TRUE],
        [source |-> "process", target |-> "stop", allow |-> Mistyped],
        [source |-> Missing, target |-> "stop", allow |-> TRUE],
        [source |-> "", target |-> "stop", allow |-> FALSE], Mistyped}
MCDerived == [target : {"connection/flow", "connection/data"}, property : {"weight", "mergeHint"},
              value : {"one", "two"}]
MCDocument == [defaultConnectionAllow |-> Missing, connections |-> Missing,
               validations |-> Missing, derivedProperties |-> Missing]
MCRuleDocuments ==
  {[MCDocument EXCEPT !.defaultConnectionAllow = default, !.connections = entries] :
     default \in {TRUE, FALSE, Missing, Mistyped},
     entries \in SeqOf(MCEntries, 2) \cup {Missing, Mistyped}}
  \cup {[MCDocument EXCEPT !.validations = <<v>>, !.derivedProperties = list] :
          v \in {MCRule("noIsolated"), MCRule("unknown"), [MCRule("noIsolated") EXCEPT !.code = ""],
                 [MCRule("exactlyOneType") EXCEPT !.type = Missing], Mistyped},
          list \in {<<d, e>> : d, e \in MCDerived}
                     \cup {<<[target |-> "connection/flow", property |-> name, value |-> value]>> :
                              name \in {"weight", ""}, value \in {Missing, "one"}}}
  \cup {Missing, Mistyped}
MCRaw == {<<>>, [type |-> "flow"], [type |-> "data"], [mergeHint |-> "own", transportMode |-> "own"],
          [weight |-> "own", type |-> ""]}
MCRuleQueries == [document : MCRuleDocuments, raw : MCRaw]

(* Squares that stand apart, a third between them, one connection with any
   sides and one in the opposite direction. *)
MCSquare(x, y) == [x |-> x, y |-> y, w |-> 96, h |-> 96]
MCLink(source, target, sourceSide, targetSide) ==
  [source |-> source, target |-> target, sourceSide |-> sourceSide, targetSide |-> targetSide]
MCAt == {1 :> MCSquare(0, 0) @@ 2 :> MCSquare(x, y) : x, y \in {-240, -160, 160, 240}}
          \cup {1 :> MCSquare(0, 0) @@ 2 :> MCSquare(p[1], p[2]) @@ 3 :> MCSquare(p[1] \div 2, p[2] \div 2) :
                  p \in {<<320, 0>>, <<0, -320>>, <<-320, 320>>}}
MCRouteQueries ==
  [at : MCAt, links : {<<MCLink(1, 2, s, t), MCLink(2, 1, SideAuto, SideAuto)>> : s, t \in SideAuto..SideLeft}]

MCGrid(occupied) == ((1..5) \X (1..3)) \ occupied
MCGridQueries ==
  [grid  : [free : {MCGrid({}), MCGrid({<<2, 2>>, <<4, 1>>}), MCGrid({<<2, 2>>, <<4, 1>>, <<4, 2>>}),
                    MCGrid({<<3, 1>>, <<3, 2>>}), MCGrid({<<3, 1>>, <<3, 2>>, <<3, 3>>})},
            maxExpandedNodes : {6, 100}],
   start : {<<1, 2>>}, goal : {<<5, 2>>, <<5, 1>>, <<1, 1>>}]

(* Documents: one component and one connection with some of their fields. *)
MCObject == [id |-> "c", x |-> 10, y |-> 20, width |-> 40, height |-> -8, shape |-> "rectangle"]
MCPart(object, kept) == [key \in DOMAIN object \cap kept |-> object[key]]
MCExtras == {<<>>, [note |-> "n"], [color |-> "red", note |-> "n"], [objectName |-> "o"],
             [sourceSide |-> 7, targetSide |-> 1]}
MCDocuments ==
  {[system |-> system,
    components  |-> <<(IF extra = <<>> THEN <<>> ELSE "properties" :> extra)
                        @@ MCPart(MCObject, kept \cup {"id"})>>,
    connections |-> <<(IF extra = <<>> THEN <<>> ELSE "properties" :> extra)
                        @@ [id |-> "k", sourceId |-> "c", tokenKey |-> key, sourceSide |-> side]>>] :
     system \in {"", LegacyV2, Current, "elsewhere"}, extra \in MCExtras, side \in {-1, 2, 7},
     kept \in SUBSET {"x", "y", "width", "height", "shape"}, key \in {"", "t"}}

(* Maps with each of their fields present, of another kind, empty, zero, wrong
   or left out. *)
MCText(t) == [text |-> t]
MCNumber(n) == [number |-> n]
MCTable(value) == [table |-> [note |-> value]]
MCSpelled == 0 :> "0" @@ 9 :> "4.5" @@ 84 :> "42"
MCReads == "0" :> 0 @@ "4.5" :> 9 @@ "42" :> 84
MCToLower == "Info" :> "info" @@ "STEPEXECUTED" :> "stepexecuted"
               @@ [name \in {EventTypes[type] : type \in DOMAIN EventTypes} \ {"error"} |->
                     CHOOSE type \in DOMAIN EventTypes : EventTypes[type] = name]
MCValues(class) ==
  CASE class \in {"number", "stamp", "lenient", "requiredNumber"} ->
         {MCNumber(84), MCNumber(9), MCNumber(0), MCText("42"), MCText("4.5"), MCText("word"),
          MCTable(MCNumber(84))}
    [] class = "severity"  -> {MCText("info"), MCText("Info"), MCText("fatal"), MCNumber(0)}
    [] class = "eventType" -> {MCText("error"), MCText("stepExecuted"), MCText("STEPEXECUTED"), MCText("unknown")}
    [] class \in {"required", "optional"} ->
         {MCText("word"), MCText(""), MCNumber(84), MCTable(MCText("word"))}
    [] class = "map" -> {MCTable(MCText("word")), MCTable(MCNumber(84)), [table |-> <<>>], MCText("word")}
MCFull(message) ==
  LET fields == FieldsOf(message)
  IN  [f \in DOMAIN fields |-> CHOOSE v \in MCValues(fields[f]) : IsOwn(v, fields[f])]
MCEach(message) ==
  UNION {{[MCFull(message) EXCEPT ![f] = v] : v \in MCValues(FieldsOf(message)[f])} :
           f \in DOMAIN FieldsOf(message)}
MCMaps(message) ==
  LET Without(m, gone) == [f \in DOMAIN m \ gone |-> m[f]]
  IN  MCEach(message) \cup {Without(MCFull(message), gone) :
                             gone \in {g \in SUBSET DOMAIN FieldsOf(message) : Cardinality(g) <= 2}}
MCLists ==
  UNION {{[message |-> message, maps |-> <<m>>] : m \in MCMaps(message)}
         \cup {[message |-> message, maps |-> <<m, n>>] : m \in MCMaps(message), n \in MCEach(message)} :
           message \in {"timelineEvent", "issue", "component", "connectionProperties"}}
  \cup UNION {{[message |-> message, maps |-> <<m>>] : m \in MCMaps(message)} : message \in Messages}
MCCommands ==
  {[moveComponent |-> m] : m \in MCMaps("moveComponent")}
  \cup {[addConnection |-> m, addComponent |-> n] : m \in MCMaps("addConnection"), n \in MCMaps("addComponent")}
  \cup {<<>>}

(* Definitions of three composites, each with any of them inside. *)
MCDefinition(inside, port) ==
  [components |-> [i \in 1..2 |-> IF i = 1 THEN [type |-> Entry]
                                  ELSE [type |-> inside]],
   inputs  |-> <<[entry |-> port]>>, outputs |-> <<[exit |-> 2]>>]
MCDefinitions == [{"p", "q", "r"} -> {MCDefinition(inside, port) :
                                        inside \in {"p", "q", "r", "add"}, port \in {1, 3}}]

(* Components of both packs: references that find a field, find nothing or
   find a text, attributes, defaults and the old keys.  Where a root is taken
   the numbers are such that it is whole. *)
MCTokens(value) == 1 :> [value |-> value, shared |-> Number(1)]
                     @@ 2 :> [zero |-> Number(0), other |-> Number(4), shared |-> Number(2)]
MCPutWith(values, name, value) == IF value = Number(-1) THEN values ELSE name :> value @@ values
MCPart2(refs, values) == [refs |-> refs, keys |-> <<>>, values |-> values]
MCInputs(ref, own) == {<<>>, ref :> <<1, "value">>, ref :> <<7, "value">>, ref :> <<1, own>>}
MCTriangle(component, tokens) ==
  [pack |-> "customized", type |-> "rightTriangleLongestEdge", component |-> component, tokens |-> tokens]
MCTriangles ==
  {MCTriangle(MCPart2(refs, MCPutWith([b |-> Number(0)], "a", own)), MCTokens(value)) :
     refs \in MCInputs("sideARef", "a"), own \in {Number(-1), Number(6), Words},
     value \in {Number(3), Words, Bool(TRUE)}}
  \cup {MCTriangle(MCPart2(refs @@ [sideARef |-> <<2, "zero">>], MCPutWith(<<>>, "b", own)), MCTokens(value)) :
     refs \in MCInputs("sideBRef", "b"), own \in {Number(-1), Number(6), Words},
     value \in {Number(3), Words, Bool(TRUE)}}
  \cup {MCTriangle(MCPart2([sideARef |-> <<1, "value">>, sideBRef |-> <<2, "other">>],
                          [a |-> Number(5), b |-> Number(12)]), MCTokens(Number(3))),
         MCTriangle(MCPart2(<<>>, [a |-> Number(5), b |-> Number(12)]), <<>>)}
MCRoots ==
  {[pack |-> "customized", type |-> "sqrtGraph", tokens |-> MCTokens(value),
    component |-> MCPart2(refs, MCPutWith(<<>>, "S", own))] :
     refs \in MCInputs("sRef", "S"), own \in {Number(-1), Number(25), Number(-4), Words},
     value \in {Number(9), Number(-9), Words}}
MCSimple ==
  {[pack |-> "customized", type |-> type, tokens |-> tokens,
    component |-> [refs |-> <<>>, keys |-> keys, values |-> values]] :
     type \in CustomizedTypes \cup {"mystery"},
     tokens \in {<<>>, 1 :> [x |-> Number(6), condition |-> Bool(TRUE)] @@ 2 :> [y |-> Number(3), S |-> Number(4)]},
     keys \in {<<>>, [inputAKey |-> "x", inputBKey |-> "y", outputKey |-> "z"]},
     values \in {<<>>, [a |-> Number(4), b |-> Number(2), S |-> Number(9), condition |-> Bool(FALSE)],
                 [a |-> Words, b |-> Number(0), S |-> Number(-1), maxIter |-> Number(0)]}}
MCSample ==
  {[pack |-> "sample", type |-> type, tokens |-> tokens,
    component |-> [refs |-> <<>>, keys |-> <<>>, values |-> values]] :
     type \in {"start", "process", "stop"},
     tokens \in {<<>>, 1 :> [workingNumber |-> Number(5)] @@ 2 :> [workingNumber |-> Number(7)]},
     values \in {<<>>, [addValue |-> Number(2), inputNumber |-> Number(4)]}}
MCExecutions == MCTriangles \cup MCRoots \cup MCSimple \cup MCSample
=============================================================================
