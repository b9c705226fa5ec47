--------------------------- MODULE MessageAdapters --------------------------
(***************************************************************************)
(* The adapters between variant maps and the proto messages of commands,   *)
(* graphs, connection policies, executions and validation.                 *)
(*                                                                         *)
(* Each message is the table of its fields, and each field belongs to one  *)
(* of the classes below, which say how a value is converted, what becomes  *)
(* of one that is absent or does not convert, and which fields are written *)
(* back.  A map is a function from the keys it has to values; a value is   *)
(* [text |-> t], [number |-> n] or [table |-> map], and a number counts    *)
(* halves.  Truth values, lists and numbers too large for an int are left  *)
(* out.  A stored message has every field: a text, a number, a function    *)
(* from keys to texts or a member of an enumeration, with the default of   *)
(* proto where nothing was set.                                            *)
(***************************************************************************)
EXTENDS Integers, SequencesExt

CONSTANTS
  Spelled,   \* the text of a number
  Reads,     \* the number of each text that reads as one; a whole one has no point
  ToLower    \* the small letters of each text that has capital ones

Empty       == ""
Unspecified == "unspecified"   \* an enumeration that was not set

Absent(m, field) == field \notin DOMAIN m

(***************************************************************************)
(* The conversions of a variant.                                           *)
(***************************************************************************)
IsText(v)  == "text" \in DOMAIN v
IsTable(v) == "table" \in DOMAIN v

\* A variant is of one of the three kinds.
IsVariant(v) ==
  \/ IsText(v) /\ v = [text |-> v.text]
  \/ "number" \in DOMAIN v /\ v = [number |-> v.number] /\ v.number \in Int
  \/ /\ IsTable(v) /\ v = [table |-> [key \in DOMAIN v.table |-> v.table[key]]]
     /\ \A key \in DOMAIN v.table :
          LET held == v.table[key] IN IsText(held) => held = [text |-> held.text]

\* toString
TextOf(v) == IF IsText(v) THEN v.text ELSE IF IsTable(v) THEN Empty ELSE Spelled[v.number]

\* toLower
LowerCase(text) == IF text \in DOMAIN ToLower THEN ToLower[text] ELSE text

\* toDouble
IsNumber(v) == IF IsText(v) THEN v.text \in DOMAIN Reads ELSE ~IsTable(v)
NumberOf(v) == IF IsText(v) THEN Reads[v.text] ELSE v.number

\* toInt and toLongLong: a number is rounded, half of one away from zero, and
\* a text that reads as a broken number does not convert.
IsWhole(v) == IsNumber(v) /\ (IsText(v) => NumberOf(v) % 2 = 0)
WholeOf(v) == LET n == NumberOf(v) IN IF n % 2 = 0 THEN n ELSE IF n > 0 THEN n + 1 ELSE n - 1

\* toMap, and toString of what is in it
TextsOf(v) == IF IsTable(v) THEN [key \in DOMAIN v.table |-> TextOf(v.table[key])] ELSE <<>>

(***************************************************************************)
(* The messages.                                                           *)
(***************************************************************************)
Severities == {"error", "warning", "info"}

\* The types of events, as they are read and as they are written.
EventTypes ==
  [simulationstarted |-> "simulationStarted", simulationcompleted |-> "simulationCompleted",
   simulationblocked |-> "simulationBlocked", breakpointhit |-> "breakpointHit",
   error |-> "error", stepexecuted |-> "stepExecuted", simulationpaused |-> "simulationPaused"]

ASSUME NumbersAreRead == \A text \in DOMAIN Reads : Reads[text] \in Int

ASSUME SmallLetters ==
  /\ \A severity \in Severities : LowerCase(severity) = severity
  /\ \A type \in DOMAIN EventTypes : LowerCase(EventTypes[type]) = type

CommandFields ==
  [addComponent |-> [typeId |-> "required", x |-> "requiredNumber", y |-> "requiredNumber",
                     componentId |-> "optional"],
   removeComponent |-> [componentId |-> "required"],
   moveComponent |-> [componentId |-> "required",
                      oldX |-> "requiredNumber", oldY |-> "requiredNumber",
                      newX |-> "requiredNumber", newY |-> "requiredNumber"],
   addConnection |-> [sourceId |-> "required", targetId |-> "required",
                      connectionId |-> "optional"],
   removeConnection |-> [connectionId |-> "required"],
   setComponentProperty |-> [componentId |-> "required", key |-> "required", value |-> "required"],
   setConnectionProperty |-> [connectionId |-> "required", key |-> "required", value |-> "required"]]

GraphFields ==
  [component |-> [id |-> "required", typeId |-> "required",
                  x |-> "number", y |-> "number", properties |-> "map"],
   connection |-> [id |-> "required", sourceId |-> "required", targetId |-> "required",
                   properties |-> "map"]]

PolicyFields ==
  [policyContext |-> [sourceComponentId |-> "optional", targetComponentId |-> "optional",
                      sourceTypeId |-> "optional", targetTypeId |-> "optional",
                      sourcePort |-> "optional", targetPort |-> "optional",
                      sourceOutgoingCount |-> "lenient", sourceIncomingCount |-> "lenient",
                      targetOutgoingCount |-> "lenient", targetIncomingCount |-> "lenient",
                      graphConnectionCount |-> "lenient", extra |-> "map"],
   typeDefaults |-> [typeId |-> "required", defaultX |-> "number", defaultY |-> "number",
                     defaultProperties |-> "map"],
   connectionProperties |-> [connectionId |-> "required", properties |-> "map"]]

ExecutionFields ==
  [timelineEvent |-> [type |-> "eventType", componentId |-> "optional",
                      timestamp |-> "stamp", message |-> "optional"],
   executionState |-> [componentId |-> "required", inputState |-> "map",
                       outputState |-> "map", trace |-> "optional"]]

ValidationFields ==
  [issue |-> [code |-> "required", severity |-> "severity", message |-> "optional",
              componentId |-> "optional", connectionId |-> "optional"]]

Messages == DOMAIN CommandFields \cup DOMAIN GraphFields \cup DOMAIN PolicyFields
              \cup DOMAIN ExecutionFields \cup DOMAIN ValidationFields

FieldsOf(message) ==
  CASE message \in DOMAIN CommandFields    -> CommandFields[message]
    [] message \in DOMAIN GraphFields      -> GraphFields[message]
    [] message \in DOMAIN PolicyFields     -> PolicyFields[message]
    [] message \in DOMAIN ExecutionFields  -> ExecutionFields[message]
    [] message \in DOMAIN ValidationFields -> ValidationFields[message]

(***************************************************************************)
(* Variant map -> message.  A field that is rejected ends the conversion:  *)
(* the fields that had been set by then stay in the message.               *)
(***************************************************************************)
Given(m, field, default) == IF Absent(m, field) THEN default ELSE TextOf(m[field])

Rejected(m, field, class) ==
  CASE class = "required"       -> Absent(m, field)
    [] class = "requiredNumber" -> Absent(m, field) \/ ~IsNumber(m[field])
    [] class = "number"         -> ~Absent(m, field) /\ ~IsNumber(m[field])
    [] class = "stamp"          -> ~Absent(m, field) /\ ~IsWhole(m[field])
    [] class = "severity"       -> LowerCase(Given(m, field, "error")) \notin Severities
    [] class = "eventType"      -> LowerCase(Given(m, field, Empty)) \notin DOMAIN EventTypes
    [] class \in {"optional", "lenient", "map"} -> FALSE

Default(class) ==
  CASE class \in {"required", "optional"} -> Empty
    [] class \in {"requiredNumber", "number", "stamp", "lenient"} -> 0
    [] class \in {"severity", "eventType"} -> Unspecified
    [] class = "map" -> <<>>

Stored(m, field, class) ==
  CASE class \in {"required", "optional"} -> Given(m, field, Empty)
    [] class \in {"requiredNumber", "number"} -> IF Absent(m, field) THEN 0 ELSE NumberOf(m[field])
    [] class \in {"stamp", "lenient"} ->
         IF Absent(m, field) \/ ~IsWhole(m[field]) THEN 0 ELSE WholeOf(m[field])
    [] class = "severity"  -> LowerCase(Given(m, field, "error"))
    [] class = "eventType" -> LowerCase(Given(m, field, Empty))
    [] class = "map"       -> IF Absent(m, field) THEN <<>> ELSE TextsOf(m[field])

\* What is asked for before anything is set, and what is set before a later
\* field is converted.
AskedFirst == {"required", "requiredNumber", "eventType"}

SetFirst(message) ==
  LET fields == FieldsOf(message)
  IN  {f \in DOMAIN fields : fields[f] \in {"required", "eventType"}}
        \cup (IF message = "timelineEvent" THEN {"componentId"} ELSE {})

ToMessage(message, m) ==
  LET fields == FieldsOf(message)
      wrong  == {f \in DOMAIN fields : Rejected(m, f, fields[f])}
      set    == IF wrong = {} THEN DOMAIN fields
                ELSE IF \E f \in wrong : fields[f] \in AskedFirst THEN {} ELSE SetFirst(message)
  IN  [ok     |-> wrong = {},
       stored |-> [f \in DOMAIN fields |->
                     IF f \in set THEN Stored(m, f, fields[f]) ELSE Default(fields[f])]]

(***************************************************************************)
(* Message -> variant map.                                                 *)
(***************************************************************************)
WrittenBack(value, class) ==
  CASE class = "optional" -> value # Empty
    [] class = "map"      -> value # <<>>
    [] class = "stamp"    -> value # 0
    [] class \in {"required", "requiredNumber", "number", "lenient", "severity", "eventType"} -> TRUE

Written(value, class) ==
  CASE class \in {"required", "optional"} -> [text |-> value]
    [] class \in {"requiredNumber", "number", "stamp", "lenient"} -> [number |-> value]
    [] class = "severity"  -> [text |-> IF value = Unspecified THEN "error" ELSE value]
    [] class = "eventType" -> [text |-> IF value = Unspecified THEN "unknown" ELSE EventTypes[value]]
    [] class = "map"       -> [table |-> [key \in DOMAIN value |-> [text |-> value[key]]]]

ToMap(message, stored) ==
  LET fields == FieldsOf(message)
  IN  [f \in {g \in DOMAIN fields : WrittenBack(stored[g], fields[g])} |-> Written(stored[f], fields[f])]

(***************************************************************************)
(* Lists of messages (snapshots of graphs and executions, validation       *)
(* results): converted in order, up to the first element that is rejected, *)
(* which stays in the list as far as it was set.                           *)
(***************************************************************************)
ListToMessages(message, maps) ==
  LET bad == SelectInSeq(maps, LAMBDA m : ~ToMessage(message, m).ok)
  IN  [ok       |-> bad = 0,
       elements |-> [i \in 1..(IF bad = 0 THEN Len(maps) ELSE bad) |->
                       ToMessage(message, maps[i]).stored]]

(***************************************************************************)
(* Command requests.                                                       *)
(***************************************************************************)
\* A request is known by the first of these keys that it has.
CommandOrder == <<"addComponent", "removeComponent", "moveComponent", "addConnection",
                  "removeConnection", "setComponentProperty", "setConnectionProperty">>

NoCommand == [ok |-> FALSE, command |-> Unspecified, stored |-> <<>>]

ToCommand(request) ==
  LET known == {i \in DOMAIN CommandOrder : CommandOrder[i] \in DOMAIN request}
      key   == CommandOrder[Min(known)]
      sent  == ToMessage(key, request[key])
  IN  IF known = {} THEN NoCommand
      ELSE [ok |-> sent.ok, command |-> key, stored |-> sent.stored]

ToRequest(sent) ==
  [key \in {sent.command} \ {Unspecified} |-> ToMap(key, sent.stored)]
=============================================================================
