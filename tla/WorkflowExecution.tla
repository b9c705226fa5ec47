-------------------------- MODULE WorkflowExecution -------------------------
(***************************************************************************)
(* What components compute: the executors of the customized pack, the      *)
(* provider of the sample pack, and CompositeExecutionProvider, which runs *)
(* a graph of its own inside a component.                                  *)
(*                                                                         *)
(* A value is <<kind, v>>: a number or a bool (v a number), a text (v is 0 *)
(* for the empty one; none reads as a number) or a map (v a payload).  A   *)
(* payload is a function from names to values.  The attributes of a        *)
(* component are told apart by use: s.refs (references, <<token, field>>), *)
(* s.keys (names of fields) and s.values.  Ids are numbers, ordered as the *)
(* code orders strings.  Numbers stay whole: the graphs checked divide     *)
(* without a remainder and take roots of squares.                          *)
(***************************************************************************)
EXTENDS Integers, SequencesExt, FiniteSetsExt, TLC

Number(n) == <<"number", n>>
Bool(b)   == <<"bool", IF b THEN 1 ELSE 0>>
Words     == <<"text", 1>>
Map(p)    == <<"map", p>>

With(payload, name, value) == (name :> value) @@ payload

IsNumeric(v) == v[1] \in {"number", "bool"}
IsFlag(v)    == v[1] \in {"number", "bool", "text"}

Key(s, property, default) == IF property \in DOMAIN s.keys THEN s.keys[property] ELSE default

(***************************************************************************)
(* customizeexecutioncommon.h.                                             *)
(***************************************************************************)
\* The fields that exactly one token has.
Merged(tokens) ==
  LET names == UNION {DOMAIN tokens[t] : t \in DOMAIN tokens}
      Holding(name) == {t \in DOMAIN tokens : name \in DOMAIN tokens[t]}
  IN  [name \in {n \in names : Cardinality(Holding(n)) = 1} |->
         tokens[CHOOSE t \in Holding(name) : TRUE][name]]

\* The sample pack and the pass-through: a later token replaces fields.
Overlaid(tokens) ==
  [name \in UNION {DOMAIN tokens[t] : t \in DOMAIN tokens} |->
     tokens[Max({t \in DOMAIN tokens : name \in DOMAIN tokens[t]})][name]]

Held(tokens, ref) ==
  ref[1] \in DOMAIN tokens /\ ref[2] \in DOMAIN tokens[ref[1]]

\* A number of the component, or the default; a value that is none is wrong.
OwnNumber(s, name, default) ==
  IF name \notin DOMAIN s.values THEN [ok |-> TRUE, n |-> default]
  ELSE IF IsNumeric(s.values[name]) THEN [ok |-> TRUE, n |-> s.values[name][2]]
  ELSE [ok |-> FALSE, n |-> default]

\* resolveReferencedNumber
Operand(s, tokens, refName, name, default) ==
  IF refName \in DOMAIN s.refs /\ Held(tokens, s.refs[refName])
  THEN LET v == tokens[s.refs[refName][1]][s.refs[refName][2]]
       IN  IF IsNumeric(v) THEN [ok |-> TRUE, n |-> v[2]] ELSE OwnNumber(s, name, default)
  ELSE OwnNumber(s, name, default)

\* resolveNumber
ContextNumber(context, s, key, name, default) ==
  IF key \in DOMAIN context /\ IsNumeric(context[key])
  THEN [ok |-> TRUE, n |-> context[key][2]]
  ELSE OwnNumber(s, name, default)

\* resolveBool: the default never makes it succeed.
ContextFlag(context, s, key, name) ==
  IF key \in DOMAIN context /\ IsFlag(context[key])
  THEN [ok |-> TRUE, b |-> context[key][2] # 0]
  ELSE IF name \in DOMAIN s.values /\ IsFlag(s.values[name])
  THEN [ok |-> TRUE, b |-> s.values[name][2] # 0]
  ELSE [ok |-> FALSE, b |-> FALSE]

(***************************************************************************)
(* The executors.  A result is whether the component succeeded, and its    *)
(* output.                                                                 *)
(***************************************************************************)
Success(out)           == [ok |-> TRUE, out |-> out]
Failure(out, errorKey) == [ok |-> FALSE, out |-> With(out, errorKey, Words)]

Sign(n)      == IF n < 0 THEN -1 ELSE 1
Size(n)      == n * Sign(n)
Exact(a, b)  == CHOOSE q \in -Size(a)..Size(a) : q * b = a
Root(n)      == CHOOSE r \in 0..n : r * r = n

\* The eight operations on two operands, which share their shape.
Operands(s, tokens, default) ==
  LET a == Operand(s, tokens, "inputARef", "a", default)
      b == Operand(s, tokens, "inputBRef", "b", default)
  IN  [ok |-> a.ok /\ b.ok, a |-> a.n, b |-> b.n]

ResultIf(defined, s, tokens, output, value) ==
  IF defined THEN Success(With(Merged(tokens), Key(s, "outputKey", output), value))
  ELSE Failure(Merged(tokens), Key(s, "errorKey", "error"))

ExecuteAdd(s, tokens) ==
  LET x == Operands(s, tokens, 0) IN ResultIf(x.ok, s, tokens, "sum", Number(x.a + x.b))

ExecuteSubtract(s, tokens) ==
  LET x == Operands(s, tokens, 0)
  IN  ResultIf(x.ok, s, tokens, "difference", Number(x.a - x.b))

ExecuteMultiply(s, tokens) ==
  LET x == Operands(s, tokens, 1)
  IN  ResultIf(x.ok, s, tokens, "product", Number(x.a * x.b))

NonZero(b) == b # 0

ExecuteDivide(s, tokens) ==
  LET x == Operands(s, tokens, 1)
  IN  ResultIf(x.ok /\ NonZero(x.b), s, tokens, "quotient", Number(Exact(x.a, x.b)))

ExecuteMod(s, tokens) ==
  LET x == Operands(s, tokens, 1)
  IN  ResultIf(x.ok /\ NonZero(x.b), s, tokens, "result",
               Number(Sign(x.a) * (Size(x.a) % Size(x.b))))

ExecuteLessThan(s, tokens) ==
  LET x == Operands(s, tokens, 0) IN ResultIf(x.ok, s, tokens, "result", Bool(x.a < x.b))

ExecuteLessOrEqual(s, tokens) ==
  LET x == Operands(s, tokens, 0) IN ResultIf(x.ok, s, tokens, "result", Bool(x.a <= x.b))

ExecuteEqual(s, tokens) ==
  LET x == Operands(s, tokens, 0) IN ResultIf(x.ok, s, tokens, "result", Bool(x.a = x.b))

ExecuteSqrt(s, tokens) ==
  LET out      == Merged(tokens)
      radicand == Operand(s, tokens, "inputRef", "S", 0)
  IN  IF ~radicand.ok \/ radicand.n < 0 THEN Failure(out, Key(s, "errorKey", "error"))
      ELSE Success(With(out, Key(s, "outputKey", "sqrtS"), Number(Root(radicand.n))))

ExecuteLogicAnd(s, tokens) ==
  LET out == Merged(tokens)
      a   == ContextFlag(out, s, Key(s, "inputAKey", "a"), "a")
      b   == ContextFlag(out, s, Key(s, "inputBKey", "b"), "b")
  IN  IF ~a.ok \/ ~b.ok THEN Failure(out, Key(s, "errorKey", "error"))
      ELSE Success(With(out, Key(s, "outputKey", "result"), Bool(a.b /\ b.b)))

ExecuteIfElse(s, tokens) ==
  LET out       == Merged(tokens)
      condition == ContextFlag(out, s, Key(s, "conditionKey", "condition"), "condition")
  IN  IF ~condition.ok THEN Failure(out, "error")
      ELSE Success(With(With(out, Key(s, "trueRouteKey", "routeTrue"), Bool(condition.b)),
                        Key(s, "falseRouteKey", "routeFalse"), Bool(~condition.b)))

ExecuteLoop(s, tokens) ==
  LET out       == Merged(tokens)
      iterKey   == Key(s, "iterKey", "iter")
      iter      == ContextNumber(out, s, iterKey, "iter", 0)
      maxIter   == ContextNumber(out, s, Key(s, "maxIterKey", "maxIter"), "maxIter", 10)
      condition == ContextFlag(out, s, Key(s, "conditionKey", "condition"), "condition")
  IN  IF ~iter.ok \/ ~maxIter.ok \/ ~condition.ok \/ maxIter.n <= 0 THEN Failure(out, "error")
      ELSE Success(With(With(out, iterKey, Number(iter.n + 1)),
                        Key(s, "continueKey", "continueLoop"),
                        Bool(condition.b /\ iter.n + 1 < maxIter.n)))

ExecuteStart(s, tokens) ==
  LET out == Merged(tokens)
  IN  Success(With(out, "inputNumber",
                   Number(ContextNumber(out, s, "inputNumber", "inputNumber", 0).n)))

ExecuteStop(s, tokens) ==
  LET out == Merged(tokens)
  IN  Success(With(With(out, "endNumber",
                        Number(ContextNumber(out, s, "endNumber", "endNumber", 0).n)),
                   "completed", Bool(TRUE)))

ExecuteErrorHandler(s, tokens) ==
  LET out == Merged(tokens)
      key == Key(s, "errorKey", "error")
  IN  Success(IF key \in DOMAIN out THEN out ELSE With(out, key, Words))

BinaryTypes == {"add", "subtract", "multiply", "divide", "mod", "lessThan", "lessOrEqual", "equal"}

CustomizedTypes ==
  BinaryTypes
    \cup {"sqrt", "logicAnd", "ifElse", "loop", "start", "stop", "errorHandler"}

ExecuteCustomized(type, s, tokens) ==
  CASE type = "add"               -> ExecuteAdd(s, tokens)
    [] type = "subtract"          -> ExecuteSubtract(s, tokens)
    [] type = "multiply"          -> ExecuteMultiply(s, tokens)
    [] type = "divide"            -> ExecuteDivide(s, tokens)
    [] type = "mod"               -> ExecuteMod(s, tokens)
    [] type = "lessThan"          -> ExecuteLessThan(s, tokens)
    [] type = "lessOrEqual"       -> ExecuteLessOrEqual(s, tokens)
    [] type = "equal"             -> ExecuteEqual(s, tokens)
    [] type = "sqrt"              -> ExecuteSqrt(s, tokens)
    [] type = "logicAnd"          -> ExecuteLogicAnd(s, tokens)
    [] type = "ifElse"            -> ExecuteIfElse(s, tokens)
    [] type = "loop"              -> ExecuteLoop(s, tokens)
    [] type = "start"             -> ExecuteStart(s, tokens)
    [] type = "stop"              -> ExecuteStop(s, tokens)
    [] type = "errorHandler"      -> ExecuteErrorHandler(s, tokens)

(***************************************************************************)
(* The provider of the sample pack: start, process and stop.               *)
(***************************************************************************)
NumberOr(payload, name, default) ==
  IF name \in DOMAIN payload /\ IsNumeric(payload[name]) THEN payload[name][2] ELSE default

ExecuteSample(type, s, tokens) ==
  LET in      == Overlaid(tokens)
      seed    == NumberOr(in, "inputNumber", NumberOr(s.values, "inputNumber", 0))
      current == NumberOr(in, "workingNumber", 0)
      added   == NumberOr(s.values, "addValue", 9)
  IN  CASE type = "start"   -> [started |-> Bool(TRUE), workingNumber |-> Number(seed),
                                inputNumber |-> Number(seed)] @@ in
        [] type = "process" -> [workingNumber |-> Number(current + added),
                                lastProcessAddValue |-> Number(added)] @@ in
        [] type = "stop"    -> [finalResult |-> Number(current), completed |-> Bool(TRUE)] @@ in

(***************************************************************************)
(* The provider of the customized pack: legacy operand keys become         *)
(* references where one token alone has the field.                         *)
(***************************************************************************)
RefOnly == BinaryTypes \cup {"sqrt"}

Inferred(s, tokens, refName, keyName) ==
  LET holding == {t \in DOMAIN tokens : s.keys[keyName] \in DOMAIN tokens[t]}
  IN  IF refName \in DOMAIN s.refs \/ keyName \notin DOMAIN s.keys THEN s.refs
      ELSE IF Cardinality(holding) # 1 THEN s.refs
      ELSE With(s.refs, refName, <<CHOOSE t \in holding : TRUE, s.keys[keyName]>>)

Normalized(type, s, tokens) ==
  LET first == [s EXCEPT !.refs = Inferred(s, tokens, "inputARef", "inputAKey")]
      both  == [first EXCEPT !.refs = Inferred(first, tokens, "inputBRef", "inputBKey")]
  IN  IF type \notin RefOnly THEN s
      ELSE [both EXCEPT !.keys = [k \in DOMAIN @ \ {"inputAKey", "inputBKey"} |-> @[k]]]

(***************************************************************************)
(* CompositeExecutionProvider.  A definition has the graph inside (its     *)
(* components by id, its links by id) and the mappings of its ports.       *)
(***************************************************************************)
Entry == "runtime/composite.entry"
Exit  == "runtime/composite.exit"

\* The token of a component that nothing is connected to.
GraphInput == 0

Nested(defs, type) == {c.type : c \in {defs[type].components[i] : i \in DOMAIN defs[type].components}}
                        \cap DOMAIN defs

PortsKnown(def) ==
  /\ {def.inputs[i].entry : i \in DOMAIN def.inputs} \subseteq DOMAIN def.components
  /\ {def.outputs[i].exit : i \in DOMAIN def.outputs} \subseteq DOMAIN def.components

\* The search of validateDefinitionGraph.  state is 1 on the way to a
\* definition and 2 when it is done; calls is the stack of its calls, the
\* innermost first, with the definitions each has still to look at.
ValidationStart == [state |-> <<>>, ok |-> TRUE, calls |-> <<>>]

EnterDefinition(defs, s, type) ==
  [state |-> [t \in DOMAIN s.state \cup {type} |-> IF t = type THEN 1 ELSE s.state[t]],
   ok    |-> s.ok /\ PortsKnown(defs[type]),
   calls |-> <<[type |-> type, nested |-> Nested(defs, type)]>> \o s.calls]

LookedAt(s, nested) ==
  LET call == [Head(s.calls) EXCEPT !.nested = @ \ {nested}]
  IN  [s EXCEPT !.calls = <<call>> \o Tail(@)]

\* Mutant of LookAtNested: only recursion of a definition into itself.
LookAtNestedDirect(defs, s, nested) ==
  IF nested \notin DOMAIN s.state THEN EnterDefinition(defs, LookedAt(s, nested), nested)
  ELSE [LookedAt(s, nested) EXCEPT !.ok = @ /\ nested # Head(s.calls).type]

LookAtNested(defs, s, nested) ==
  IF nested \notin DOMAIN s.state THEN EnterDefinition(defs, LookedAt(s, nested), nested)
  ELSE [LookedAt(s, nested) EXCEPT !.ok = @ /\ s.state[nested] = 2]

LeaveDefinition(s) ==
  [s EXCEPT !.state[Head(s.calls).type] = 2, !.calls = Tail(@)]

InputKey(entry, port) == "entry::" \o ToString(entry) \o "::" \o port

AsMap(value) == IF value[1] = "map" THEN value[2] ELSE <<>>

Wrapped(port, value) == IF port = "" THEN AsMap(value) ELSE port :> value

\* Mutant of InputPayload: the attribute goes before the reference.
InputPayloadOwnFirst(m, s, tokens) ==
  LET own == IF m.valueProperty # "" THEN m.valueProperty ELSE m.port
  IN  IF own \in DOMAIN s.values THEN Wrapped(m.port, s.values[own])
      ELSE IF m.refProperty \in DOMAIN s.refs /\ Held(tokens, s.refs[m.refProperty])
      THEN LET ref == s.refs[m.refProperty] IN Wrapped(m.port, tokens[ref[1]][ref[2]])
      ELSE <<>>

\* resolveInputPayload
InputPayload(m, s, tokens) ==
  LET own == IF m.valueProperty # "" THEN m.valueProperty ELSE m.port
  IN  IF m.refProperty \in DOMAIN s.refs /\ Held(tokens, s.refs[m.refProperty])
      THEN LET ref == s.refs[m.refProperty] IN Wrapped(m.port, tokens[ref[1]][ref[2]])
      ELSE IF m.outerToken \in DOMAIN tokens THEN tokens[m.outerToken]
      ELSE IF own \in DOMAIN s.values THEN Wrapped(m.port, s.values[own])
      ELSE <<>>

ExecuteEntry(s, id, tokens) ==
  LET key   == InputKey(id, Key(s, "portKey", ""))
      input == IF GraphInput \in DOMAIN tokens THEN tokens[GraphInput] ELSE <<>>
  IN  Success(IF key \in DOMAIN input THEN AsMap(input[key]) ELSE <<>>)

ExecuteExit(s, tokens) ==
  Success(Key(s, "portKey", "") :>
            Map(IF Cardinality(DOMAIN tokens) = 1
                THEN tokens[CHOOSE t \in DOMAIN tokens : TRUE]
                ELSE [name \in {ToString(t) : t \in DOMAIN tokens} |->
                        Map(tokens[CHOOSE t \in DOMAIN tokens : ToString(t) = name])]))

\* One output mapping: the output so far, with the value of an exit in it.
Exported(m, s, results, acc) ==
  LET exit  == IF m.exit \in DOMAIN results THEN results[m.exit] ELSE <<>>
      value == exit[m.port]
      key   == Key(s, m.keyProperty, m.outerKey)
  IN  IF ~acc.ok THEN acc
      ELSE IF \/ m.port \notin DOMAIN exit
              \/ m.field # "" /\ m.field \notin DOMAIN AsMap(value)
           THEN IF m.optional THEN acc ELSE [ok |-> FALSE, out |-> <<>>]
      ELSE IF key = "" THEN acc
      ELSE Success(With(acc.out, key, IF m.field = "" THEN value ELSE AsMap(value)[m.field]))

(***************************************************************************)
(* The sandbox inside: the components in topological order, each with the  *)
(* tokens of its connections.                                              *)
(***************************************************************************)
Declared(defs, type) ==
  CASE type = "add"      -> {"sum", "error"}
    [] type = "subtract" -> {"difference", "error"}
    [] type = "multiply" -> {"product", "error"}
    [] type = "divide"   -> {"quotient", "error"}
    [] type \in {"mod", "lessThan", "lessOrEqual", "equal"} -> {"result", "error"}
    [] type = "sqrt"         -> {"sqrtS", "error"}
    [] type = "logicAnd"     -> {"result", "error"}
    [] type = "ifElse"       -> {"routeTrue", "routeFalse", "error"}
    [] type = "loop"         -> {"iter", "continueLoop", "error"}
    [] type = "start"        -> {"inputNumber"}
    [] type = "stop"         -> {"endNumber", "completed"}
    [] type = "errorHandler" -> {"error"}
    [] type \in DOMAIN defs  -> {defs[type].outputs[i].outerKey : i \in DOMAIN defs[type].outputs} \ {""}
    [] type \notin CustomizedTypes \cup DOMAIN defs -> {}

Configured(s) ==
  {s.keys[p] : p \in DOMAIN s.keys \cap {"outputKey", "trueRouteKey", "falseRouteKey",
                                         "iterKey", "continueKey", "errorKey"}}

Delivered(defs, type, s, out) ==
  Declared(defs, type) # {} => (Declared(defs, type) \cup Configured(s)) \cap DOMAIN out # {}

Ready(graph, done) ==
  {m \in DOMAIN graph.components \ done :
     \A k \in DOMAIN graph.links : graph.links[k].target = m => graph.links[k].source \in done}

\* The sandbox inside a composite when it starts.
RunStart(def, s, tokens) ==
  LET Payload(i) == InputPayload(def.inputs[i], s, tokens)
      given      == {i \in DOMAIN def.inputs : DOMAIN Payload(i) # {}}
      KeyOf(i)   == InputKey(def.inputs[i].entry, def.inputs[i].port)
  IN  [def     |-> def,
       outer   |-> s,
       input   |-> [key \in {KeyOf(i) : i \in given} |->
                      Map(Payload(Max({i \in given : KeyOf(i) = key})))],
       ok      |-> TRUE,
       results |-> <<>>,
       tokens  |-> <<>>,
       ready   |-> Ready(def, {})]

InnerTokens(run, n) ==
  LET incoming == {k \in DOMAIN run.def.links : run.def.links[k].target = n}
  IN  IF incoming # {} THEN [k \in incoming |-> run.tokens[k]]
      ELSE IF DOMAIN run.input # {} THEN GraphInput :> run.input
      ELSE <<>>

\* A component of a type that no provider knows passes on its tokens.
PassedOn(run, n) ==
  LET links == run.def.links
      Earlier(j, k) == links[j].source < links[k].source \/ (links[j].source = links[k].source /\ j < k)
  IN  Success(With(FoldLeft(LAMBDA acc, k : run.tokens[k] @@ acc, <<>>,
                            SetToSortSeq({k \in DOMAIN links : links[k].target = n}, Earlier)),
                   "lastExecutedComponentId", Words))

\* What a component inside gives that is no composite itself.
ExecuteInner(run, n) ==
  LET c == run.def.components[n]
  IN  IF c.type \in CustomizedTypes THEN ExecuteCustomized(c.type, c, InnerTokens(run, n))
      ELSE IF c.type = Entry THEN ExecuteEntry(c, n, InnerTokens(run, n))
      ELSE IF c.type = Exit THEN ExecuteExit(c, InnerTokens(run, n))
      ELSE PassedOn(run, n)

\* The result of a component inside is taken over, or ends the run.
RunOn(defs, run, n, result) ==
  LET c        == run.def.components[n]
      outgoing == {k \in DOMAIN run.def.links : run.def.links[k].source = n}
  IN  IF ~result.ok \/ ~Delivered(defs, c.type, c, result.out) THEN [run EXCEPT !.ok = FALSE]
      ELSE [run EXCEPT !.results = With(@, n, result.out),
                       !.tokens  = [k \in outgoing |-> result.out] @@ @,
                       !.ready   = Ready(run.def, DOMAIN run.results \cup {n})]

Refused == [ok |-> FALSE, out |-> <<>>]

\* What a composite gives once its run has ended.
RunResult(run) ==
  IF ~run.ok THEN Refused
  ELSE FoldLeft(LAMBDA acc, m : Exported(m, run.outer, run.results, acc), Success(<<>>), run.def.outputs)

\* The provider of the pack, for a component that is no composite: a type it
\* does not know passes on what it gets.
ExecuteInPack(type, s, tokens) ==
  IF type \in CustomizedTypes THEN ExecuteCustomized(type, Normalized(type, s, tokens), tokens)
  ELSE Success(Overlaid(tokens))

(***************************************************************************)
(* The two composites of the customized pack.                              *)
(***************************************************************************)
Port(name) == [type |-> "", refs |-> <<>>, keys |-> [portKey |-> name], values |-> <<>>]

Operation(type, refs, output) ==
  [type |-> type, refs |-> refs, keys |-> [outputKey |-> output, errorKey |-> "error"],
   values |-> <<>>]

Input(entry, port, refProperty, valueProperty) ==
  [outerToken |-> -1, entry |-> entry, port |-> port,
   refProperty |-> refProperty, valueProperty |-> valueProperty]

Output(exit, port, outerKey, field) ==
  [exit |-> exit, port |-> port, outerKey |-> outerKey, field |-> field,
   keyProperty |-> "", optional |-> FALSE]

SqrtGraph ==
  [components |-> [ i \in 1..3 |->
     CASE i = 1 -> [Port("S") EXCEPT !.type = Entry]
       [] i = 2 -> Operation("sqrt", [inputRef |-> <<1, "S">>], "sqrtS")
       [] i = 3 -> [Port("out") EXCEPT !.type = Exit] ],
   links   |-> << [source |-> 1, target |-> 2], [source |-> 2, target |-> 3] >>,
   inputs  |-> << Input(1, "S", "sRef", "S") >>,
   outputs |-> << Output(3, "out", "sqrtS", "sqrtS") >>]

RightTriangleLongestEdge ==
  [components |-> [ i \in 1..7 |->
     CASE i = 1 -> [Port("a") EXCEPT !.type = Entry]
       [] i = 2 -> [Port("b") EXCEPT !.type = Entry]
       [] i = 3 -> Operation("multiply", [inputARef |-> <<1, "a">>, inputBRef |-> <<1, "a">>], "a2")
       [] i = 4 -> Operation("multiply", [inputARef |-> <<2, "b">>, inputBRef |-> <<2, "b">>], "b2")
       [] i = 5 -> Operation("add", [inputARef |-> <<3, "a2">>, inputBRef |-> <<4, "b2">>], "sumSquares")
       [] i = 6 -> [Port("") EXCEPT !.type = "sqrtGraph", !.refs = [sRef |-> <<5, "sumSquares">>],
                                    !.keys = <<>>]
       [] i = 7 -> [Port("out") EXCEPT !.type = Exit] ],
   links   |-> << [source |-> 1, target |-> 3], [source |-> 2, target |-> 4],
                  [source |-> 3, target |-> 5], [source |-> 4, target |-> 5],
                  [source |-> 5, target |-> 6], [source |-> 6, target |-> 7] >>,
   inputs  |-> << Input(1, "a", "sideARef", "a"), Input(2, "b", "sideBRef", "b") >>,
   outputs |-> << Output(7, "out", "longestEdge", "sqrtS") >>]

CustomizedComposites ==
  [sqrtGraph |-> SqrtGraph, rightTriangleLongestEdge |-> RightTriangleLongestEdge]
=============================================================================
