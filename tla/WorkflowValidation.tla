------------------------- MODULE WorkflowValidation -------------------------
(***************************************************************************)
(* Validation: the providers of the workflow pack, the bridge from their   *)
(* issue maps to the typed result, and ValidationService, which puts the   *)
(* results of all providers together.                                      *)
(*                                                                         *)
(* A snapshot s has lists of components and connections, in the order of   *)
(* the graph.  An issue is about the components or connections at some     *)
(* positions, 0 standing for the graph; text says whether its message has  *)
(* one.                                                                    *)
(***************************************************************************)
EXTENDS Integers, SequencesExt, FiniteSetsExt, BusinessRules, Reachability

Sides == -1..3

Issues(code, severity, subjects) ==
  {[code |-> code, severity |-> severity, subject |-> x, text |-> TRUE] : x \in subjects}

TheGraphIf(condition) == IF condition THEN {0} ELSE {}

Ids(list) == {list[i].id : i \in DOMAIN list} \ {Blank}

\* Positions whose id stands earlier in the list.
Repeated(list) == {i \in DOMAIN list : \E j \in 1..i - 1 : list[j].id = list[i].id}

\* Positions of the components with an id that have this type.
Named(s, type) ==
  {i \in DOMAIN s.components : s.components[i].id # Blank /\ s.components[i].type = type}

(***************************************************************************)
(* WorkflowStructureValidationProvider, and the one of the customized pack.*)
(***************************************************************************)
StructureIssues(s) ==
  LET cs == s.components IN
    Issues("W005", "error",
           {i \in DOMAIN cs : \/ cs[i].id = Blank
                              \/ i \in Repeated(cs)
                              \/ cs[i].width <= 0
                              \/ cs[i].height <= 0})
    \cup Issues("W001", "error", TheGraphIf(Cardinality(Named(s, "start")) # 1))
    \cup Issues("W002", "error", TheGraphIf(Cardinality(Named(s, "stop")) # 1))

(***************************************************************************)
(* WorkflowConnectionValidationProvider.                                   *)
(***************************************************************************)
ConnectionIssues(s) ==
  LET ks  == s.connections
      ids == Ids(s.components)
  IN  Issues("W006", "error",
             {i \in DOMAIN ks : \/ ks[i].id = Blank
                                \/ i \in Repeated(ks)
                                \/ ks[i].source = ks[i].target /\ ks[i].source # Blank
                                \/ ~({ks[i].sourceSide, ks[i].targetSide} \subseteq Sides)})
      \cup Issues("W003", "error",
             {i \in DOMAIN ks : ~({ks[i].source, ks[i].target} \subseteq ids)})

(***************************************************************************)
(* WorkflowTopologyValidationProvider.                                     *)
(***************************************************************************)
\* Pairs of known ids, one connected to the other.
Links(s) ==
  {<<k.source, k.target>> : k \in ToSet(s.connections)}
    \cap {pair \in Ids(s.components) \X Ids(s.components) : pair[1] # pair[2]}

\* An id stands for the last component that has it.
LastWith(s, id) == Max({i \in DOMAIN s.components : s.components[i].id = id})
TypeOf(s, id)   == s.components[LastWith(s, id)].type

\* The search by levels: what is reached after as many rounds as there are ids.
ReachedFrom(s, start) == ReachedIn(Links(s), {start}, Cardinality(Ids(s.components)))

\* Mutant of TopologyIssues: the search starts wherever there is a start.
TopologyIssuesManyStarts(s) ==
  LET ids    == Ids(s.components)
      starts == Named(s, "start")
      At(some) == {LastWith(s, id) : id \in some}
  IN  Issues("W008", "error",
             At({id \in ids : \E i \in starts : id \notin ReachedFrom(s, s.components[i].id)}))

TopologyIssues(s) ==
  LET ids    == Ids(s.components)
      NoIn   == {id \in ids : \A l \in Links(s) : l[2] # id}
      NoOut  == {id \in ids : \A l \in Links(s) : l[1] # id}
      starts == Named(s, "start")
      At(some) == {LastWith(s, id) : id \in some}
  IN  Issues("W004", "warning", At(NoIn \cap NoOut))
      \cup Issues("W007", "error",
             At({id \in NoOut : TypeOf(s, id) # "stop"} \cup {id \in NoIn : TypeOf(s, id) # "start"}))
      \cup Issues("W008", "error",
             IF Cardinality(starts) # 1 THEN {}
             ELSE At(ids \ ReachedFrom(s, s.components[CHOOSE i \in starts : TRUE].id)))

WorkflowIssues(s) == StructureIssues(s) \cup ConnectionIssues(s) \cup TopologyIssues(s)

(***************************************************************************)
(* The bridge to the typed result: one issue that does not convert makes   *)
(* the whole provider fail.                                                *)
(***************************************************************************)
Bridged(issues) ==
  IF \E i \in issues : i.code = Missing \/ i.severity \notin {Missing, "error", "warning", "info"}
  THEN [ok |-> FALSE, issues |-> {}]
  ELSE [ok |-> TRUE,
        issues |-> {[i EXCEPT !.severity = IF @ = Missing THEN "error" ELSE @] : i \in issues}]

(***************************************************************************)
(* A provider is one of the workflow pack's, the compiled rules, one whose *)
(* issues are given, or one that fails.                                    *)
(***************************************************************************)
Result(provider, s) ==
  CASE provider.kind = "structure"  -> Bridged(StructureIssues(s))
    [] provider.kind = "connection" -> Bridged(ConnectionIssues(s))
    [] provider.kind = "topology"   -> Bridged(TopologyIssues(s))
    [] provider.kind = "workflow"   -> Bridged(WorkflowIssues(s))
    [] provider.kind = "rules"      ->
         Bridged({[code |-> i.code, severity |-> i.severity, subject |-> i.subject, text |-> TRUE] :
                    i \in RuleIssues(provider.rules, s)})
    [] provider.kind = "given"      -> Bridged(provider.issues)
    [] provider.kind = "failing"    -> [ok |-> FALSE, issues |-> {}]

(***************************************************************************)
(* ValidationService: a failed provider is an issue of its own, and the    *)
(* others are still asked.  An error without a message is no error.        *)
(***************************************************************************)
ValidationIssues(providers, s) ==
  UNION {IF Result(p, s).ok THEN Result(p, s).issues
         ELSE Issues("CORE_VALIDATION_PROVIDER_ERROR", "error", {0}) : p \in providers}

ValidationErrors(providers, s) ==
  {i \in ValidationIssues(providers, s) : i.severity = "error" /\ i.text}

Validate(providers, s) == ValidationErrors(providers, s) = {}
=============================================================================
