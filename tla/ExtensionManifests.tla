------------------------- MODULE ExtensionManifests -------------------------
(***************************************************************************)
(* The manifest of an extension: how its JSON file is read                 *)
(* (ExtensionManifestJson), when it is valid (ExtensionManifest), what its *)
(* range of core versions means (ExtensionApiVersion) and what the         *)
(* compatibility report says of it (ExtensionCompatibilityChecker).        *)
(*                                                                         *)
(* A file is Broken when it is no JSON object, and a record of its keys    *)
(* otherwise, in which Broken stands for a value of the wrong type or for  *)
(* a required key that is absent.  Texts are trimmed as they are read and  *)
(* are given trimmed here; an absent list is given as the empty one.  A    *)
(* version is the tuple of the parts between its dots, a part that is no   *)
(* number being negative.                                                  *)
(***************************************************************************)
EXTENDS Integers, Sequences, SequencesExt

CONSTANT Broken      \* what cannot be read

Blank == ""

----------------------------------------------------------------------------
(* Versions. *)

\* ExtensionApiVersion::isValid, and what parse() accepts.
ValidVersion(v) == Len(v) = 3 /\ \A part \in Range(v) : part >= 0

VersionLess(v, w) ==
    \E k \in 1 .. 3 : v[k] < w[k] /\ \A j \in 1 .. (k - 1) : v[j] = w[j]

\* evaluateCompatibility(core, oldest, newest).
EvaluateCompatibility(core, oldest, newest) ==
    CASE VersionLess(newest, oldest)                   -> "invalidInput"
      [] core[1] < oldest[1] \/ VersionLess(core, oldest) -> "coreTooOld"
      [] core[1] > newest[1]                           -> "coreTooNewMajor"
      [] VersionLess(newest, core)                     -> "outsideSupportedRange"
      [] OTHER                                         -> "compatible"

----------------------------------------------------------------------------
(* Reading a manifest file. *)

RequiredText(value) == value # Broken /\ value # Blank

RequiredVersion(value) == value # Broken /\ ValidVersion(value)

StringArray(list) == list # Broken /\ \A item \in Range(list) : RequiredText(item)

\* ExtensionManifest::isValid, of a manifest whose texts and versions were read.
IsValid(manifest) ==
    /\ ~ VersionLess(manifest.maxCoreApi, manifest.minCoreApi)
    /\ manifest.extensionId \notin Range(manifest.dependencies)

\* ExtensionManifestJson::parseFile succeeds.
Parses(file) ==
    /\ file # Broken
    /\ \A key \in {"extensionId", "displayName", "extensionVersion"} :
           RequiredText(file[key])
    /\ \A key \in {"minCoreApi", "maxCoreApi"} : RequiredVersion(file[key])
    /\ \A key \in {"capabilities", "dependencies"} : StringArray(file[key])
    /\ file.contractVersions # Broken
    /\ IsValid(file)

----------------------------------------------------------------------------
(* The report of the compatibility checker. *)

\* ExtensionCompatibilityChecker::catalog(); every change came with version 1
\* of its contract.
Catalog ==
    {[contract |-> "executionSemantics", severity |-> "breaking"],
     [contract |-> "actions", severity |-> "deprecated"],
     [contract |-> "propertySchema", severity |-> "deprecated"]}

ContractVersion(manifest, contract) ==
    LET versions == manifest.contractVersions
    IN  IF contract \in DOMAIN versions /\ versions[contract] # Broken
        THEN versions[contract] ELSE 1

\* analyzeManifest(): only the contracts of declared capabilities count, and
\* deprecations do not make a pack incompatible.
AnalyzeManifest(core, manifest) ==
    LET behind == {change \in Catalog :
                      /\ change.contract \in Range(manifest.capabilities)
                      /\ ContractVersion(manifest, change.contract) < 1}
        inRange == EvaluateCompatibility(core, manifest.minCoreApi, manifest.maxCoreApi)
                       = "compatible"
        breaking == {change \in behind : change.severity = "breaking"}
    IN  [rangeCompatible |-> inRange,
         breaking        |-> breaking,
         deprecated      |-> behind \ breaking,
         compatible      |-> inRange /\ breaking = {}]

=============================================================================
