---------------------------- MODULE GraphDocument ---------------------------
(***************************************************************************)
(* Documents: GraphSchema, GraphJsonMigration and ExportService.           *)
(*                                                                         *)
(* A document has the name of its coordinate system and lists of           *)
(* components and connections, each a function from the keys it has.  A    *)
(* value of the wrong JSON type reads as one that is not there.  The key   *)
(* "properties" holds an object, in which a value for a field has the type *)
(* of the field.  Widths and heights are even.                             *)
(***************************************************************************)
EXTENDS Integers, TLC

Current  == "world-center-y-down-v3"
LegacyV2 == "world-top-left-y-down-v2"

ComponentDefaults ==
  [id |-> "", title |-> "", content |-> "", icon |-> "", x |-> 0, y |-> 0,
   width |-> 96, height |-> 96, shape |-> "rounded", color |-> "#4fc3f7", type |-> "default"]

ConnectionDefaults ==
  [id |-> "", sourceId |-> "", targetId |-> "", label |-> "", tokenKey |-> "",
   sourceSide |-> -1, targetSide |-> -1]

\* The fields of an object, with the default where a key is not there.
Read(object, defaults) ==
  [key \in DOMAIN defaults |-> IF key \in DOMAIN object THEN object[key] ELSE defaults[key]]

PropertiesOf(object) ==
  IF "properties" \in DOMAIN object THEN object.properties ELSE <<>>

(***************************************************************************)
(* normalizeComponentObject: the center, y down, from a corner (version 2) *)
(* or from a center with y up (any other name, and no name).               *)
(***************************************************************************)
Migrated(c, system) ==
  CASE system = LegacyV2 -> [c EXCEPT !.x = @ + c.width \div 2, !.y = @ + c.height \div 2]
    [] system = Current  -> c
    [] system \notin {LegacyV2, Current} -> [c EXCEPT !.y = -@]

(***************************************************************************)
(* What the setters make of a value, and the properties: one with the name *)
(* of a field sets the field, by its setter, which takes any side.  The    *)
(* name of the object is no field and no dynamic property either.          *)
(***************************************************************************)
AtLeastOne(n) == IF n < 1 THEN 1 ELSE n

Setting(field, value) ==
  CASE field \in {"width", "height"} -> AtLeastOne(value)
    [] field = "shape" -> IF value = "rectangle" THEN value ELSE "rounded"
    [] field \notin {"width", "height", "shape"} -> value

NormalizedSide(side) == IF side \in -1..3 THEN side ELSE -1

WithProperties(fields, properties) ==
  [fields  |-> [f \in DOMAIN fields |->
                  IF f \in DOMAIN properties THEN Setting(f, properties[f]) ELSE fields[f]],
   dynamic |-> [p \in DOMAIN properties \ (DOMAIN fields \cup {"objectName"}) |-> properties[p]]]

ComponentFrom(object, system) ==
  LET c == Migrated(Read(object, ComponentDefaults), system)
  IN  WithProperties([f \in DOMAIN c |-> Setting(f, c[f])], PropertiesOf(object))

ConnectionFrom(object) ==
  LET k == Read(object, ConnectionDefaults)
  IN  WithProperties([k EXCEPT !.sourceSide = NormalizedSide(@), !.targetSide = NormalizedSide(@)],
                     PropertiesOf(object))

\* importFromJson: the lists as they stand, repeated ids too.
ImportFromJson(doc) ==
  [components  |-> [i \in DOMAIN doc.components |-> ComponentFrom(doc.components[i], doc.system)],
   connections |-> [i \in DOMAIN doc.connections |-> ConnectionFrom(doc.connections[i])]]

(***************************************************************************)
(* componentToJson, connectionToJson and exportToJson.                     *)
(***************************************************************************)
WithDynamic(object, dynamic) ==
  IF DOMAIN dynamic = {} THEN object
  ELSE [field \in DOMAIN object \cup {"properties"} |->
          IF field = "properties" THEN dynamic ELSE object[field]]

ConnectionObject(fields) ==
  [key \in DOMAIN fields \ (IF fields.tokenKey = "" THEN {"tokenKey"} ELSE {}) |-> fields[key]]

\* Mutant of ExportToJson: the name of the version was not changed with it.
ExportToJsonOldName(graph) ==
  [system      |-> LegacyV2,
   components  |-> [i \in DOMAIN graph.components |->
                      WithDynamic(graph.components[i].fields, graph.components[i].dynamic)],
   connections |-> [i \in DOMAIN graph.connections |->
                      WithDynamic(ConnectionObject(graph.connections[i].fields),
                                  graph.connections[i].dynamic)]]

ExportToJson(graph) ==
  [system      |-> Current,
   components  |-> [i \in DOMAIN graph.components |->
                      WithDynamic(graph.components[i].fields, graph.components[i].dynamic)],
   connections |-> [i \in DOMAIN graph.connections |->
                      WithDynamic(ConnectionObject(graph.connections[i].fields),
                                  graph.connections[i].dynamic)]]
=============================================================================
