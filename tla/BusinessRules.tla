---------------------------- MODULE BusinessRules ---------------------------
(***************************************************************************)
(* The rule language: RuleCompiler turns a document into lookup tables,    *)
(* RuleRuntimeEngine answers from the tables.                              *)
(*                                                                         *)
(* A document is a record; each field of it is a value or one of Missing,  *)
(* Mistyped and, for a text, Blank.  An entry of a list may be Mistyped as *)
(* a whole.  A diagnostic is the path of the field it is about: the code   *)
(* applies a result only when there is none.                               *)
(***************************************************************************)
EXTENDS Integers, SequencesExt, FiniteSetsExt

CONSTANTS
  Missing,   \* a field that is not there
  Mistyped   \* a value of another JSON type than the compiler expects

ASSUME MarkersAreNoFlags == {Missing, Mistyped} \cap BOOLEAN = {}

Blank == ""

Kinds == {"exactlyOneType", "endpointExists", "noIsolated"}

\* expectString: what the compiler reads, and whether it complains.
Text(field)       == IF field \in {Missing, Mistyped} THEN Blank ELSE field
TextWrong(field)  == field \in {Missing, Mistyped}

\* expectBool: a missing field is its default without a complaint.
Flag(field, default) == IF field \in {Missing, Mistyped} THEN default ELSE field
FlagWrong(field)     == field = Mistyped

\* expectArray: a missing list is empty without a complaint.
Entries(list) == IF list \in {Missing, Mistyped} THEN <<>> ELSE list

(***************************************************************************)
(* The diagnostics of each kind of entry.                                  *)
(***************************************************************************)
ConnectionWrong(e) ==
  \/ e = Mistyped
  \/ e # Mistyped /\ (TextWrong(e.source) \/ TextWrong(e.target) \/ FlagWrong(e.allow))

ValidationWrong(e) ==
  \/ e = Mistyped
  \/ /\ e # Mistyped
     /\ \/ \E field \in {e.kind, e.code, e.severity, e.message} : TextWrong(field)
        \/ e.kind = "exactlyOneType" /\ TextWrong(e.type)
        \/ Text(e.kind) \notin Kinds \cup {Blank}

DerivedWrong(e) ==
  \/ e = Mistyped
  \/ e # Mistyped /\ (TextWrong(e.target) \/ TextWrong(e.property) \/ e.value = Missing)

(***************************************************************************)
(* The entries that reach the tables.  An entry with a blank text is left  *)
(* out without a diagnostic.                                               *)
(***************************************************************************)
ConnectionKept(e) == e # Mistyped /\ Text(e.source) # Blank /\ Text(e.target) # Blank

ValidationKept(e) ==
  /\ e # Mistyped
  /\ Text(e.kind) \in Kinds
  /\ \A field \in {e.code, e.severity, e.message} : Text(field) # Blank

DerivedKept(e) ==
  e # Mistyped /\ e.value # Missing /\ Text(e.target) # Blank /\ Text(e.property) # Blank

\* Mutant of ConnectionTable: the first entry for a pair of types stays.
ConnectionTableOfFirst(list) ==
  LET PairOf(i) == <<list[i].source, list[i].target>>
      kept      == {i \in DOMAIN list : ConnectionKept(list[i])}
  IN  [pair \in {PairOf(i) : i \in kept} |->
         Flag(list[Min({i \in kept : PairOf(i) = pair})].allow, FALSE)]

\* The table of allowed pairs: a later entry replaces an earlier one.
ConnectionTable(list) ==
  LET PairOf(i) == <<list[i].source, list[i].target>>
      kept      == {i \in DOMAIN list : ConnectionKept(list[i])}
  IN  [pair \in {PairOf(i) : i \in kept} |->
         Flag(list[Max({i \in kept : PairOf(i) = pair})].allow, FALSE)]

DerivedTable(list) ==
  LET KeyOf(i) == <<list[i].target, list[i].property>>
      kept     == {i \in DOMAIN list : DerivedKept(list[i])}
  IN  [key \in {KeyOf(i) : i \in kept} |-> list[Max({i \in kept : KeyOf(i) = key})].value]

Wrong(doc) ==
  \/ FlagWrong(doc.defaultConnectionAllow)
  \/ Mistyped \in {doc.connections, doc.validations, doc.derivedProperties}
  \/ \E e \in ToSet(Entries(doc.connections)) : ConnectionWrong(e)
  \/ \E e \in ToSet(Entries(doc.validations)) : ValidationWrong(e)
  \/ \E e \in ToSet(Entries(doc.derivedProperties)) : DerivedWrong(e)

(***************************************************************************)
(* compileFromFile and compileFromJsonText.  A file that cannot be opened  *)
(* is Missing; one that is no JSON object is Mistyped.                     *)
(***************************************************************************)
NoRules == [default |-> TRUE, connections |-> <<>>, validations |-> <<>>, derived |-> <<>>]

Compile(doc) ==
  IF doc \in {Missing, Mistyped} THEN [ok |-> FALSE, descriptor |-> NoRules]
  ELSE [ok         |-> ~Wrong(doc),
        descriptor |->
          [default     |-> Flag(doc.defaultConnectionAllow, TRUE),
           connections |-> ConnectionTable(Entries(doc.connections)),
           validations |-> SelectSeq(Entries(doc.validations), ValidationKept),
           derived     |-> DerivedTable(Entries(doc.derivedProperties))]]

(***************************************************************************)
(* RuleRuntimeEngine.                                                      *)
(***************************************************************************)
CanConnect(rules, source, target) ==
  IF <<source, target>> \in DOMAIN rules.connections
  THEN rules.connections[<<source, target>>]
  ELSE rules.default

\* Derived properties fill in what is absent and replace nothing.
NormalizedProperties(rules, target, raw) ==
  LET added == {key[2] : key \in {k \in DOMAIN rules.derived : k[1] = target}} \ DOMAIN raw
  IN  [name \in DOMAIN raw \cup added |->
         IF name \in DOMAIN raw THEN raw[name] ELSE rules.derived[<<target, name>>]]

\* What a rule complains about: components and connections by position, 0
\* for the graph.  A connection is complained about once for each lost end.
RuleSubjects(rule, s) ==
  LET ids == {c.id : c \in ToSet(s.components)}
      Lost(end) == {i \in DOMAIN s.connections : s.connections[i][end] \notin ids \ {Blank}}
  IN  CASE rule.kind = "exactlyOneType" ->
             IF Quantify(DOMAIN s.components,
                         LAMBDA i : s.components[i].type = Text(rule.type)
                                    /\ s.components[i].type # Blank) # 1
             THEN {0} ELSE {}
        [] rule.kind = "endpointExists" -> Lost("source") \cup Lost("target")
        [] rule.kind = "noIsolated" ->
             {i \in DOMAIN s.components :
                /\ s.components[i].id # Blank
                /\ \A c \in ToSet(s.connections) :
                     s.components[i].id \notin {c.source, c.target}}

RuleIssues(rules, s) ==
  UNION {{[code |-> rule.code, severity |-> rule.severity, subject |-> x] :
            x \in RuleSubjects(rule, s)} : rule \in ToSet(rules.validations)}
=============================================================================
