--------------------------- MODULE PropertySchemas --------------------------
(***************************************************************************)
(* Property schemas: the rows a provider's template bundle gives for a     *)
(* target (PropertySchemaTemplateAdapter), the normalised rows the         *)
(* registry keeps of them (SchemaFieldLegacyAdapter), and the three views  *)
(* it offers: sections of rows, the list model of typed sections and the   *)
(* typed response (PropertySchemaRegistry, PublicApiContractAdapter).      *)
(*                                                                         *)
(* A row is a record of the keys the registry looks at, Blank where a key  *)
(* is absent.  A bundle is a sequence of targets with their rows; a target *)
(* is the kind of object it describes and the type of it.  Hints, default  *)
(* values, options and validation are carried along unread and left out.   *)
(***************************************************************************)
EXTENDS Integers, Sequences, SequencesExt, FiniteSets, FiniteSetsExt

NoText == ""
Spaces == " "

Trimmed(text) == IF text = Spaces THEN NoText ELSE text

OrElse(text, fallback) == IF text = NoText THEN fallback ELSE text

----------------------------------------------------------------------------
(* Template bundles. *)

\* schemaTargets(bundle): a target listed twice is returned twice.
SchemaTargets(bundle) == [i \in DOMAIN bundle |-> bundle[i].target]

\* schemaForTarget(bundle, target): the first entry for it.
SchemaForTarget(bundle, target) ==
    LET entries == {i \in DOMAIN bundle : bundle[i].target = target}
    IN  IF entries = {} THEN << >> ELSE bundle[Min(entries)].rows

----------------------------------------------------------------------------
(* Fields. *)

\* schemaFieldTypeFromString.
TypeOf(name) ==
    CASE name \in {"number", "int", "integer", "double", "float"} -> "number"
      [] name \in {"bool", "boolean"}                             -> "bool"
      [] name \in {"string", "enum"}                              -> name
      [] OTHER                                                    -> "unknown"

\* schemaFieldWidgetFromString; an unknown widget keeps its name in the row.
WidgetOf(name) ==
    IF name \in {"textfield", "textarea", "dropdown", "checkbox", "spinbox",
                 "schema_error"}
    THEN name ELSE "unknown"

\* fromLegacyRow(raw): "editor" is the older name of "widget"; a field without
\* key or widget is marked with the error widget.
FromLegacyRow(raw) ==
    LET widget == OrElse(Trimmed(raw.widget), Trimmed(raw.editor))
        valid == Trimmed(raw.key) # NoText /\ widget # NoText
        shown == IF valid THEN widget ELSE "schema_error"
    IN  [key |-> Trimmed(raw.key), title |-> OrElse(Trimmed(raw.title), Trimmed(raw.key)),
         typeName |-> Trimmed(raw.type), type |-> TypeOf(Trimmed(raw.type)),
         widgetName |-> shown, widget |-> WidgetOf(shown),
         section |-> raw.section, order |-> raw.order, valid |-> valid]

\* toNormalizedRow(field).  It has no "editor" any more.
ToNormalizedRow(field) ==
    [key |-> field.key, title |-> field.title,
     type |-> OrElse(field.typeName, IF field.type = "unknown" THEN NoText ELSE field.type),
     widget |-> IF field.valid THEN field.widgetName ELSE "schema_error",
     section |-> OrElse(field.section, "General"), order |-> field.order,
     valid |-> field.valid, editor |-> NoText]

NormalizeRows(rows) ==
    [i \in DOMAIN rows |-> ToNormalizedRow(FromLegacyRow(rows[i]))]

----------------------------------------------------------------------------
(* The rows of a target. *)

FallbackField(key, widget, section, order) ==
    [key |-> key, title |-> key, type |-> "string", widget |-> widget,
     section |-> section, order |-> order, valid |-> TRUE, editor |-> NoText]

FallbackComponentRows ==
    << FallbackField("id", "textfield", "Identity", 0),
       FallbackField("title", "textfield", "Identity", 1),
       FallbackField("content", "textarea", "Identity", 2),
       FallbackField("icon", "textfield", "Identity", 3),
       FallbackField("type", "textfield", "Identity", 4),
       FallbackField("color", "textfield", "Appearance", 10),
       FallbackField("shape", "dropdown", "Appearance", 11),
       FallbackField("x", "spinbox", "Geometry", 20),
       FallbackField("y", "spinbox", "Geometry", 21),
       FallbackField("width", "spinbox", "Geometry", 22),
       FallbackField("height", "spinbox", "Geometry", 23) >>

FallbackConnectionRows ==
    << FallbackField("id", "textfield", "Identity", 0),
       FallbackField("sourceId", "textfield", "Identity", 1),
       FallbackField("targetId", "textfield", "Identity", 2),
       FallbackField("label", "textfield", "Identity", 3),
       FallbackField("sourceSide", "dropdown", "Routing", 10),
       FallbackField("targetSide", "dropdown", "Routing", 11) >>

\* What rebuildFromRegistry() collects for a target from the bundles of the
\* providers, in the order of their registration.
CollectedRows(bundles, target) ==
    LET OfBundle(bundle) ==
            FlattenSeq([i \in DOMAIN bundle |->
                IF SchemaTargets(bundle)[i] = target
                THEN NormalizeRows(SchemaForTarget(bundle, target)) ELSE << >>])
    IN  FlattenSeq([k \in DOMAIN bundles |-> OfBundle(bundles[k])])

\* resolvedSchemaRows(target).
ResolvedSchemaRows(collected, target) ==
    IF collected # << >> THEN collected
    ELSE CASE target.kind = "component"  -> FallbackComponentRows
           [] target.kind = "connection" -> FallbackConnectionRows
           [] OTHER                      -> << >>

----------------------------------------------------------------------------
(* The views of the rows. *)

SectionTitle(row) == OrElse(Trimmed(row.section), "General")

\* The titles in the order they first appear.
SectionTitles(rows) ==
    FoldLeft(LAMBDA titles, row : IF Contains(titles, SectionTitle(row))
                                  THEN titles ELSE Append(titles, SectionTitle(row)),
             << >>, rows)

\* The fields of a section, by their order and then as they were declared.
FieldsOfSection(rows, title) ==
    LET Before(i, j) == \/ rows[i].order < rows[j].order
                        \/ rows[i].order = rows[j].order /\ i < j
        section == {i \in DOMAIN rows : SectionTitle(rows[i]) = title}
        At(k) == CHOOSE i \in section : Cardinality({j \in section : Before(j, i)}) = k - 1
    IN  [k \in 1 .. Cardinality(section) |-> rows[At(k)]]

\* sectionizeRows(rows).
SectionizeRows(rows) ==
    LET titles == SectionTitles(rows)
    IN  [k \in DOMAIN titles |-> [title  |-> titles[k],
                                  fields |-> FieldsOfSection(rows, titles[k])]]

\* sectionizeTypedRows(rows): the normalised rows are read as legacy rows once
\* more, and "schema_error" is then a widget like any other.
SectionizeTypedRows(rows) ==
    LET titles == SectionTitles(rows)
    IN  [k \in DOMAIN titles |->
           LET fields == FieldsOfSection(rows, titles[k])
           IN  [title  |-> titles[k],
                fields |-> [i \in DOMAIN fields |-> FromLegacyRow(fields[i])]]]

\* schemaForTargetTyped(rows): the entries up to the first row that has no key
\* or no type, for which an empty entry is left and the response fails.  The
\* editor of an entry is read from a key that normalised rows do not have.
SchemaResponse(rows) ==
    LET wrong == {i \in DOMAIN rows : rows[i].key = NoText \/ rows[i].type = NoText}
        Entry(row) == [key |-> row.key, type |-> row.type, title |-> row.title,
                       editor |-> row.editor, section |-> row.section, order |-> row.order]
        Empty == [key |-> NoText, type |-> NoText, title |-> NoText,
                  editor |-> NoText, section |-> NoText, order |-> 0]
    IN  IF wrong = {}
        THEN [success |-> TRUE, entries |-> [i \in DOMAIN rows |-> Entry(rows[i])]]
        ELSE [success |-> FALSE,
              entries |-> [i \in 1 .. Min(wrong) |-> IF i \in wrong THEN Empty
                                                      ELSE Entry(rows[i])]]

=============================================================================
