----------------------- MODULE ExtensionRuntimeProofs -----------------------
(***************************************************************************)
(* Whatever the directories hold, and in whatever order the hash tables    *)
(* are walked, loadFromDirectory drops no manifest silently: the proof     *)
(* follows the files that have no error diagnostic through the discovery,  *)
(* the ordering by Kahn's algorithm and the loading of the packs.  A       *)
(* manifest is in the registry exactly while its pack lives, and then all  *)
(* of the pack is; and a later pack never takes over a name: registering a *)
(* pack and rebuilding a service are folds over lists, of which the proof  *)
(* follows the intermediate results, one by one.  Then, the views that    *)
(* PropertySchemaRegistry gives of a target are views of the same rows:    *)
(* the section models handed out, the titles, and the rows laid flat.      *)
(*                                                                         *)
(* At the end is the other state the runtime keeps, that of the rule file. *)
(***************************************************************************)
EXTENDS ExtensionRuntime, FunctionTheorems, FiniteSetTheorems, SequenceTheorems,
        WellFoundedInduction, TLAPS

-----------------------------------------------------------------------------
(* Sequences without repetitions. *)

(***************************************************************************)
(* Taking the first element off.                                           *)
(***************************************************************************)
LEMMA TailOfInjective ==
  ASSUME NEW S, NEW s \in Seq(S), s # << >>, IsInjective(s)
  PROVE  /\ Tail(s) \in Seq(S)
         /\ IsInjective(Tail(s))
         /\ Head(s) \in S
         /\ Range(s) = Range(Tail(s)) \cup {Head(s)}
         /\ Head(s) \notin Range(Tail(s))
<1>1. /\ Tail(s) \in Seq(S)
      /\ Head(s) \in S
      /\ Head(s) = s[1]
      /\ 1 \in DOMAIN s
      /\ \A i \in DOMAIN Tail(s) : i + 1 \in DOMAIN s /\ Tail(s)[i] = s[i + 1] /\ i \in Nat \ {0}
      /\ \A i \in DOMAIN s : i = 1 \/ (i - 1 \in DOMAIN Tail(s) /\ Tail(s)[i - 1] = s[i])
  OBVIOUS
<1>2. IsInjective(Tail(s))
  BY <1>1 DEF IsInjective
<1>3. Range(s) = Range(Tail(s)) \cup {Head(s)}
  <2>1. ASSUME NEW i \in DOMAIN s
        PROVE  s[i] \in Range(Tail(s)) \cup {Head(s)}
    BY <1>1 DEF Range
  <2>2. Range(Tail(s)) \subseteq Range(s) /\ Head(s) \in Range(s)
    BY <1>1 DEF Range
  <2>3. QED
    BY <2>1, <2>2 DEF Range
<1>4. Head(s) \notin Range(Tail(s))
  BY <1>1 DEF Range, IsInjective
<1>5. QED
  BY <1>1, <1>2, <1>3, <1>4

(***************************************************************************)
(* Adding an element at the end.                                           *)
(***************************************************************************)
LEMMA AppendToInjective ==
  ASSUME NEW S, NEW s \in Seq(S), NEW x \in S, IsInjective(s), x \notin Range(s)
  PROVE  /\ Append(s, x) \in Seq(S)
         /\ IsInjective(Append(s, x))
         /\ Range(Append(s, x)) = Range(s) \cup {x}
<1>1. /\ Append(s, x) \in Seq(S)
      /\ Len(s) \in Nat
      /\ DOMAIN s = 1 .. Len(s)
      /\ DOMAIN Append(s, x) = 1 .. (Len(s) + 1)
      /\ \A i \in 1 .. Len(s) : Append(s, x)[i] = s[i]
      /\ Append(s, x)[Len(s) + 1] = x
  OBVIOUS
<1> DEFINE t == Append(s, x)
<1> HIDE DEF t
<1>2. \A i \in DOMAIN t : i = Len(s) + 1 \/ i \in DOMAIN s
  BY <1>1 DEF t
<1>3. \A i \in DOMAIN s : i \in DOMAIN t
  BY <1>1 DEF t
<1>4. IsInjective(t)
  BY <1>1, <1>2 DEF t, Range, IsInjective
<1>5. Range(t) = Range(s) \cup {x}
  <2>1. Len(s) + 1 \in DOMAIN t
    BY <1>1 DEF t
  <2>2. QED
    BY <1>1, <1>2, <1>3, <2>1 DEF t, Range
<1>6. QED
  BY <1>1, <1>4, <1>5 DEF t

(***************************************************************************)
(* Joining two that have nothing in common.                                *)
(***************************************************************************)
LEMMA JoinOfInjectives ==
  ASSUME NEW S, NEW s \in Seq(S), NEW t \in Seq(S), IsInjective(s), IsInjective(t),
         Range(s) \cap Range(t) = {}
  PROVE  /\ s \o t \in Seq(S)
         /\ IsInjective(s \o t)
         /\ Range(s \o t) = Range(s) \cup Range(t)
<1> DEFINE u == s \o t
<1>1. /\ u \in Seq(S)
      /\ Len(s) \in Nat /\ Len(t) \in Nat
      /\ DOMAIN s = 1 .. Len(s) /\ DOMAIN t = 1 .. Len(t)
      /\ DOMAIN u = 1 .. (Len(s) + Len(t))
      /\ \A i \in 1 .. Len(s) : u[i] = s[i]
      /\ \A i \in 1 .. (Len(s) + Len(t)) : i > Len(s) => u[i] = t[i - Len(s)]
  OBVIOUS
<1> HIDE DEF u
<1>2. \A i \in DOMAIN u : \/ i \in DOMAIN s /\ u[i] = s[i]
                          \/ /\ i - Len(s) \in DOMAIN t /\ u[i] = t[i - Len(s)]
                             /\ i \in Nat
  BY <1>1
<1>3. \A i \in DOMAIN s : i \in DOMAIN u /\ u[i] = s[i]
  BY <1>1
<1>4. \A i \in DOMAIN t : i + Len(s) \in DOMAIN u /\ u[i + Len(s)] = t[i]
  BY <1>1
<1>5. Range(u) = Range(s) \cup Range(t)
  BY <1>2, <1>3, <1>4 DEF Range
<1>6. IsInjective(u)
  <2> SUFFICES ASSUME NEW i \in DOMAIN u, NEW j \in DOMAIN u, u[i] = u[j]
               PROVE  i = j
    BY DEF IsInjective
  <2>1. CASE i \in DOMAIN s /\ j \in DOMAIN s
    BY <2>1, <1>3 DEF IsInjective
  <2>2. CASE i \notin DOMAIN s /\ j \notin DOMAIN s
    <3>1. i - Len(s) = j - Len(s) /\ i \in Nat /\ j \in Nat
      BY <2>2, <1>2 DEF IsInjective
    <3>2. QED
      BY <3>1, <1>1
  <2>3. ASSUME NEW k \in DOMAIN s, NEW l \in DOMAIN u, l \notin DOMAIN s
        PROVE  u[k] # u[l]
    <3>1. u[k] \in Range(s)
      BY <1>3 DEF Range
    <3>2. u[l] \in Range(t)
      BY <2>3, <1>2 DEF Range
    <3>3. QED
      BY <3>1, <3>2
  <2>4. QED
    BY <2>1, <2>2, <2>3
<1>7. QED
  BY <1>1, <1>5, <1>6 DEF u

(***************************************************************************)
(* SetToSeqs(S) lists the elements of S, each once.                        *)
(***************************************************************************)
LEMMA ListingsOfASet ==
  ASSUME NEW S, IsFiniteSet(S), NEW q \in SetToSeqs(S)
  PROVE  /\ q \in Seq(S)
         /\ IsInjective(q)
         /\ Range(q) = S
<1> DEFINE D == 1 .. Cardinality(S)
<1>1. Cardinality(S) \in Nat
  BY FS_CardinalityType
<1>2. /\ q \in [D -> S]
      /\ \A i, j \in D : i # j => q[i] # q[j]
  BY DEF SetToSeqs
<1>3. q \in Injection(D, S)
  BY <1>2 DEF Injection, IsInjective
<1>4. Cardinality(D) = Cardinality(S)
  BY <1>1, FS_Interval
<1>5. q \in Surjection(D, S)
  BY <1>3, <1>4, FS_Injection
<1>6. Range(q) = S
  BY <1>2, <1>5 DEF Surjection, Range
<1>7. q \in Seq(S)
  BY <1>1, <1>2
<1>8. IsInjective(q)
  BY <1>2 DEF IsInjective
<1>9. QED
  BY <1>6, <1>7, <1>8

(***************************************************************************)
(* Every nonempty set of positions has a least one.                        *)
(***************************************************************************)
LEMMA LeastPosition ==
  ASSUME NEW T \in SUBSET Nat, T # {}
  PROVE  \E m \in T : \A k \in T : m <= k
<1> DEFINE R == {ss \in Nat \X Nat : ss[1] < ss[2]}
<1>1. IsWellFoundedOn(R, Nat)
  BY NatLessThanWellFounded DEF OpToRel
<1>2. \A x, y \in Nat : x < y => << x, y >> \in R
  OBVIOUS
<1> HIDE DEF R
<1>3. PICK m \in T : \A k \in T : << k, m >> \notin R
  BY <1>1, WFMin
<1>4. \A k \in T : ~ (k < m)
  BY <1>2, <1>3
<1>5. QED
  BY <1>4

-----------------------------------------------------------------------------
(* The inductive invariant. *)

Phases == {"ready", "discovering", "ordering", "loading", "crashed"}

ManifestFiles == DOMAIN directory \ RuleFiles

\* The files an error diagnostic names.
Accused == {error.file : error \in result.errors}

ResultIsARecord == result = [loaded |-> result.loaded, errors |-> result.errors]

\* A discovered id stands for the file it was read from.
ManifestsAreRead ==
    /\ directory \in Directories
    /\ IsFiniteSet(Discovered)
    /\ \A id \in Discovered :
          /\ manifests[id] \in ManifestFiles \ unread
          /\ Parses(Manifest(id))
          /\ Manifest(id).extensionId = id

\* The files that are still to be judged, and those whose pack was loaded.
Unaccused ==
    CASE phase = "discovering" -> unread \cup FilesOf(Discovered)
      [] phase = "ordering"    -> FilesOf(Discovered \ Blocked)
      [] OTHER                 -> FilesOf(Range(todo) \cup Range(result.loaded))

ErrorsAreExact == \A file \in ManifestFiles : file \in Accused <=> file \notin Unaccused

\* The positions at which id lists a discovered dependency that is not done.
Outstanding(id, done) ==
    {i \in DOMAIN Dependencies(id) : Dependencies(id)[i] \in Discovered \ done}

WaitsAt(id) == Outstanding(id, Range(ordered))

DiscoveryInv == phase = "discovering" => unread \subseteq DOMAIN directory

NothingLoadedEarly == phase \in {"discovering", "ordering"} => result.loaded = << >>

OrderingInv ==
    phase = "ordering" =>
        /\ ordered \in Seq(Discovered \ Blocked) /\ IsInjective(ordered)
        /\ queue \in Seq(Discovered \ Blocked) /\ IsInjective(queue)
        /\ Range(ordered) \cap Range(queue) = {}
        /\ indegree = [id \in Discovered |-> Cardinality(WaitsAt(id))]
        /\ \A id \in Discovered \ Blocked :
              indegree[id] = 0 <=> id \in Range(ordered) \cup Range(queue)

LoadingInv ==
    phase \in {"loading", "ready", "crashed"} =>
        /\ todo \in Seq(Discovered) /\ IsInjective(todo)
        /\ result.loaded \in Seq(Discovered) /\ IsInjective(result.loaded)
        /\ Range(todo) \cap Range(result.loaded) = {}
        /\ phase # "loading" => todo = << >>

LoaderInv ==
    /\ ManifestsAreRead /\ ResultIsARecord /\ ErrorsAreExact
    /\ DiscoveryInv /\ NothingLoadedEarly /\ OrderingInv /\ LoadingInv

Inv ==
    /\ phase \in Phases
    /\ loads \in Nat
    /\ loads = 0 => phase \in {"ready", "crashed"}
    /\ loads > 0 => LoaderInv

-----------------------------------------------------------------------------
(* Manifests, errors and dependencies. *)

(***************************************************************************)
(* Different ids were read from different files.                           *)
(***************************************************************************)
LEMMA FilesAreDistinct ==
  ASSUME ManifestsAreRead, NEW ids \in SUBSET Discovered, NEW others \in SUBSET Discovered
  PROVE  FilesOf(ids \ others) = FilesOf(ids) \ FilesOf(others)
<1>1. \A id, other \in Discovered : manifests[id] = manifests[other] => id = other
  BY DEF ManifestsAreRead, Manifest
<1>2. QED
  BY <1>1 DEF FilesOf

(***************************************************************************)
(* An action that reports errors accuses their files and does no more to   *)
(* the result.                                                             *)
(***************************************************************************)
LEMMA ReportedErrors ==
  ASSUME ResultIsARecord, NEW files, NEW why,
         result' = [result EXCEPT !.errors = @ \cup Errors(files, why)]
  PROVE  /\ Accused' = Accused \cup files
         /\ result'.loaded = result.loaded
         /\ ResultIsARecord'
<1>1. /\ result'.errors = result.errors \cup Errors(files, why)
      /\ result'.loaded = result.loaded
      /\ ResultIsARecord'
  BY DEF ResultIsARecord
<1>2. \A file \in files : [file |-> file, why |-> why] \in Errors(files, why)
  BY DEF Errors
<1>3. \A error \in Errors(files, why) : error.file \in files
  BY DEF Errors
<1>4. \A file \in files : [file |-> file, why |-> why].file = file
  OBVIOUS
<1>5. {error.file : error \in Errors(files, why)} = files
  BY <1>2, <1>3, <1>4
<1>6. QED
  BY <1>1, <1>5 DEF Accused

(***************************************************************************)
(* A manifest lists finitely many dependencies.                            *)
(***************************************************************************)
LEMMA DependenciesAreFinite ==
  ASSUME ManifestsAreRead, NEW id \in Discovered
  PROVE  IsFiniteSet(DOMAIN Dependencies(id))
<1>1. Dependencies(id) \in Seq(STRING)
  BY DirectoriesAreFinite DEF ManifestsAreRead, ManifestFiles, Dependencies, Manifest
<1>2. DOMAIN Dependencies(id) = 1 .. Len(Dependencies(id)) /\ Len(Dependencies(id)) \in Nat
  BY <1>1
<1>3. QED
  BY <1>2, FS_Interval

(***************************************************************************)
(* So an id waits at finitely many positions.                              *)
(***************************************************************************)
LEMMA WaitsAreFinite ==
  ASSUME ManifestsAreRead, NEW id \in Discovered
  PROVE  IsFiniteSet(WaitsAt(id))
BY DependenciesAreFinite, FS_Subset DEF WaitsAt, Outstanding

(***************************************************************************)
(* The in-degree of an id is the number of positions at which it still     *)
(* waits; ordering another id lowers it by the number of times that id is  *)
(* listed.                                                                 *)
(***************************************************************************)
LEMMA WaitsAreCounted ==
  ASSUME ManifestsAreRead, NEW id \in Discovered,
         NEW current \in Discovered, NEW before, current \notin before
  PROVE  /\ Cardinality(Outstanding(id, before)) \in Nat
         /\ Lists(id, current) \in Nat
         /\ Cardinality(Outstanding(id, before \cup {current})) \in Nat
         /\ Cardinality(Outstanding(id, before \cup {current})) =
               Cardinality(Outstanding(id, before)) - Lists(id, current)
<1> DEFINE Positions == DOMAIN Dependencies(id)
           At(done) == {i \in Positions : Dependencies(id)[i] \in Discovered \ done}
           Here == {i \in Positions : Dependencies(id)[i] = current}
<1>2. IsFiniteSet(Positions)
  BY DependenciesAreFinite
<1>3. IsFiniteSet(At(before)) /\ IsFiniteSet(Here) /\ IsFiniteSet(At(before \cup {current}))
  BY <1>2, FS_Subset
<1>4. /\ At(before \cup {current}) = At(before) \ Here
      /\ At(before) \cap Here = Here
  OBVIOUS
<1>5. \A A, B : IsFiniteSet(A) => Cardinality(A \ B) = Cardinality(A) - Cardinality(A \cap B)
  BY FS_Difference
<1>6. /\ Cardinality(At(before)) \in Nat
      /\ Cardinality(Here) \in Nat
      /\ Cardinality(At(before \cup {current})) \in Nat
  BY <1>3, FS_CardinalityType
<1> HIDE DEF Positions, At, Here
<1>7. Cardinality(At(before \cup {current})) = Cardinality(At(before)) - Cardinality(Here)
  BY <1>3, <1>4, <1>5
<1>8. QED
  BY <1>6, <1>7 DEF Lists, Outstanding, Positions, At, Here

-----------------------------------------------------------------------------
(* Each action keeps the invariant. *)

(***************************************************************************)
(* A step that leaves the directory and its manifests alone leaves what is *)
(* said of them alone.                                                     *)
(***************************************************************************)
LEMMA SameManifests ==
  ASSUME UNCHANGED << directory, unread, manifests >>
  PROVE  /\ Discovered' = Discovered
         /\ Blocked' = Blocked
         /\ Cyclic' = {id \in Discovered \ Blocked : indegree'[id] > 0}
         /\ ManifestFiles' = ManifestFiles
         /\ \A id : manifests'[id] = manifests[id]
         /\ ManifestsAreRead => ManifestsAreRead'
BY DEF Discovered, Blocked, Cyclic, ManifestFiles, ManifestsAreRead, Manifest, Dependencies

(***************************************************************************)
(* loadFromDirectory starts: every file is still to be judged.             *)
(***************************************************************************)
LEMMA LoadFromDirectoryKeepsInv ==
  ASSUME Inv, LoadFromDirectory
  PROVE  Inv'
<1>1. PICK chosen \in Directories : directory' = chosen /\ unread' = DOMAIN chosen
  BY DEF LoadFromDirectory
<1>2. /\ phase' = "discovering" /\ loads' = loads + 1 /\ manifests' = << >>
      /\ result' = [loaded |-> << >>, errors |-> {}]
  BY DEF LoadFromDirectory
<1>3. ManifestsAreRead'
  BY <1>1, <1>2, FS_EmptySet DEF ManifestsAreRead, Discovered
<1>4. ResultIsARecord' /\ NothingLoadedEarly'
  BY <1>2 DEF ResultIsARecord, NothingLoadedEarly
<1>5. ErrorsAreExact'
  BY <1>1, <1>2 DEF ErrorsAreExact, Accused, Unaccused, ManifestFiles
<1>6. DiscoveryInv' /\ OrderingInv' /\ LoadingInv'
  BY <1>1, <1>2 DEF DiscoveryInv, OrderingInv, LoadingInv
<1>7. loads' \in Nat /\ loads' > 0
  BY <1>2 DEF Inv
<1>8. QED
  BY <1>2, <1>3, <1>4, <1>5, <1>6, <1>7 DEF Inv, LoaderInv, Phases

(***************************************************************************)
(* A rule file is none of the loader's business.                           *)
(***************************************************************************)
LEMMA SkipRuleFileKeepsInv ==
  ASSUME Inv, SkipRuleFile
  PROVE  Inv'
<1>1. PICK file \in unread \cap RuleFiles : unread' = unread \ {file}
  BY DEF SkipRuleFile
<1>2. /\ phase = "discovering"
      /\ UNCHANGED << phase, loads, directory, manifests, result >>
  BY DEF SkipRuleFile
<1>3. LoaderInv /\ loads > 0
  BY <1>2 DEF Inv
<1>4. ManifestsAreRead'
  BY <1>1, <1>2, <1>3 DEF LoaderInv, ManifestsAreRead, ManifestFiles, Discovered, Manifest
<1>5. ErrorsAreExact'
  BY <1>1, <1>2, <1>3
     DEF LoaderInv, ErrorsAreExact, Accused, Unaccused, ManifestFiles, FilesOf, Discovered
<1>6. ResultIsARecord' /\ NothingLoadedEarly'
  BY <1>2, <1>3 DEF LoaderInv, ResultIsARecord, NothingLoadedEarly
<1>7. DiscoveryInv' /\ OrderingInv' /\ LoadingInv'
  BY <1>1, <1>2, <1>3 DEF LoaderInv, DiscoveryInv, OrderingInv, LoadingInv
<1>8. QED
  BY <1>2, <1>3, <1>4, <1>5, <1>6, <1>7 DEF Inv, LoaderInv

(***************************************************************************)
(* A file that was read is discovered or accused.                          *)
(***************************************************************************)
LEMMA DiscoverManifestKeepsInv ==
  ASSUME Inv, DiscoverManifest
  PROVE  Inv'
<1>1. PICK file \in unread \ RuleFiles :
         /\ unread' = unread \ {file}
         /\ \/ /\ \E why : result' = [result EXCEPT !.errors = @ \cup Errors({file}, why)]
               /\ UNCHANGED manifests
            \/ /\ Parses(directory[file])
               /\ directory[file].extensionId \notin DOMAIN manifests
               /\ manifests' = [id \in DOMAIN manifests \cup {directory[file].extensionId} |->
                                   IF id \in DOMAIN manifests THEN manifests[id] ELSE file]
               /\ UNCHANGED result
  BY DEF DiscoverManifest
<1>2. phase = "discovering" /\ UNCHANGED << phase, loads, directory >>
  BY DEF DiscoverManifest
<1>3. LoaderInv /\ loads > 0
  BY <1>2 DEF Inv
<1>4. file \in ManifestFiles
  BY <1>1, <1>2, <1>3 DEF LoaderInv, DiscoveryInv, ManifestFiles
<1>5. file \notin FilesOf(Discovered)
  BY <1>1, <1>3 DEF LoaderInv, ManifestsAreRead, FilesOf
<1>6. DiscoveryInv' /\ OrderingInv' /\ LoadingInv'
  BY <1>1, <1>2, <1>3 DEF LoaderInv, DiscoveryInv, OrderingInv, LoadingInv
<1>7. ManifestsAreRead' /\ ResultIsARecord' /\ ErrorsAreExact' /\ NothingLoadedEarly'
  <2>1. ASSUME NEW why, result' = [result EXCEPT !.errors = @ \cup Errors({file}, why)],
               UNCHANGED manifests
        PROVE  ManifestsAreRead' /\ ResultIsARecord' /\ ErrorsAreExact' /\ NothingLoadedEarly'
    <3>1. Accused' = Accused \cup {file} /\ result'.loaded = result.loaded /\ ResultIsARecord'
      BY <2>1, <1>3, ReportedErrors DEF LoaderInv
    <3>2. ManifestsAreRead'
      BY <1>1, <1>2, <1>3, <2>1
         DEF LoaderInv, ManifestsAreRead, ManifestFiles, Discovered, Manifest
    <3>3. Unaccused = unread \cup FilesOf(Discovered)
      BY <1>2 DEF Unaccused
    <3>4. Unaccused' = (unread \ {file}) \cup FilesOf(Discovered)
      BY <1>1, <1>2, <2>1 DEF Unaccused, FilesOf, Discovered
    <3>5. ErrorsAreExact'
      BY <1>2, <1>3, <1>5, <3>1, <3>3, <3>4 DEF LoaderInv, ErrorsAreExact, ManifestFiles
    <3>6. QED
      BY <1>2, <1>3, <3>1, <3>2, <3>5 DEF LoaderInv, NothingLoadedEarly
  <2>2. ASSUME Parses(directory[file]),
               directory[file].extensionId \notin DOMAIN manifests,
               manifests' = [id \in DOMAIN manifests \cup {directory[file].extensionId} |->
                                IF id \in DOMAIN manifests THEN manifests[id] ELSE file],
               UNCHANGED result
        PROVE  ManifestsAreRead' /\ ResultIsARecord' /\ ErrorsAreExact' /\ NothingLoadedEarly'
    <3> DEFINE new == directory[file].extensionId
    <3>1. /\ Discovered' = Discovered \cup {new}
          /\ manifests'[new] = file
          /\ \A id \in Discovered : manifests'[id] = manifests[id]
      BY <2>2 DEF Discovered
    <3>2. IsFiniteSet(Discovered')
      BY <1>3, <3>1, FS_AddElement DEF LoaderInv, ManifestsAreRead
    <3>3. \A id \in Discovered' :
             /\ manifests'[id] \in ManifestFiles' \ unread'
             /\ Parses(Manifest(id)') /\ Manifest(id)'.extensionId = id
      <4> TAKE id \in Discovered'
      <4>1. ManifestFiles' = ManifestFiles /\ unread' = unread \ {file}
        BY <1>1, <1>2 DEF ManifestFiles
      <4>2. CASE id \in Discovered
        <5>1. Manifest(id)' = Manifest(id)
          BY <1>2, <3>1, <4>2 DEF Manifest
        <5>2. QED
          BY <1>3, <3>1, <4>1, <4>2, <5>1 DEF LoaderInv, ManifestsAreRead
      <4>3. CASE id = new
        <5>1. Manifest(id)' = directory[file] /\ manifests'[id] = file
          BY <1>2, <3>1, <4>3 DEF Manifest
        <5>2. QED
          BY <1>4, <2>2, <4>1, <4>3, <5>1
      <4>4. QED
        BY <3>1, <4>2, <4>3
    <3>4. ManifestsAreRead'
      BY <1>2, <1>3, <3>2, <3>3 DEF LoaderInv, ManifestsAreRead
    <3>5. FilesOf(Discovered)' = FilesOf(Discovered) \cup {file}
      BY <3>1 DEF FilesOf
    <3>6. Unaccused' = Unaccused
      BY <1>1, <1>2, <3>5 DEF Unaccused
    <3>7. ErrorsAreExact'
      BY <1>2, <1>3, <2>2, <3>6 DEF LoaderInv, ErrorsAreExact, Accused, ManifestFiles
    <3>8. QED
      BY <1>2, <1>3, <2>2, <3>4, <3>7 DEF LoaderInv, ResultIsARecord, NothingLoadedEarly
  <2>3. QED
    BY <1>1, <2>1, <2>2
<1>8. QED
  BY <1>2, <1>3, <1>6, <1>7 DEF Inv, LoaderInv

(***************************************************************************)
(* The ordering starts with the in-degrees, the ids that wait for nothing, *)
(* and an accusation of those that miss a dependency.                      *)
(***************************************************************************)
LEMMA StartOrderingKeepsInv ==
  ASSUME Inv, StartOrdering
  PROVE  Inv'
<1>1. /\ phase = "discovering" /\ phase' = "ordering" /\ unread = {}
      /\ UNCHANGED << loads, directory, unread, manifests >>
      /\ ordered' = << >>
  BY DEF StartOrdering
<1>2. LoaderInv /\ loads > 0
  BY <1>1 DEF Inv
<1>3. /\ Discovered' = Discovered /\ Blocked' = Blocked /\ ManifestFiles' = ManifestFiles
      /\ ManifestsAreRead' /\ ManifestsAreRead
  BY <1>1, <1>2, SameManifests DEF LoaderInv
<1>4. /\ Accused' = Accused \cup FilesOf(Blocked)
      /\ result'.loaded = result.loaded
      /\ ResultIsARecord'
  <2>1. result' = [result EXCEPT !.errors = @ \cup Errors(FilesOf(Blocked), "missing dependency")]
    BY DEF StartOrdering
  <2>2. QED
    BY <1>2, <2>1, ReportedErrors DEF LoaderInv
<1>5. ErrorsAreExact'
  <2>1. Blocked \subseteq Discovered
    BY DEF Blocked
  <2>2. FilesOf(Discovered \ Blocked) = FilesOf(Discovered) \ FilesOf(Blocked)
    BY <1>3, <2>1, FilesAreDistinct
  <2>3. FilesOf(Blocked) \subseteq FilesOf(Discovered)
    BY <2>1 DEF FilesOf
  <2>4. Unaccused = FilesOf(Discovered)
    BY <1>1 DEF Unaccused
  <2>5. Unaccused' = FilesOf(Discovered \ Blocked)
    BY <1>1, <1>3 DEF Unaccused, FilesOf
  <2>6. QED
    BY <1>2, <1>3, <1>4, <2>2, <2>3, <2>4, <2>5 DEF LoaderInv, ErrorsAreExact
<1>6. OrderingInv'
  <2> DEFINE Ready == {id \in Discovered \ Blocked : indegree'[id] = 0}
  <2>1. /\ indegree' = [id \in Discovered |->
               Cardinality({i \in DOMAIN Dependencies(id) : Dependencies(id)[i] \in Discovered})]
        /\ queue' \in SetToSeqs(Ready)
    BY DEF StartOrdering
  <2>2. IsFiniteSet(Ready)
    BY <1>3, FS_Subset DEF ManifestsAreRead
  <2>3. queue' \in Seq(Ready) /\ IsInjective(queue') /\ Range(queue') = Ready
    BY <2>1, <2>2, ListingsOfASet
  <2>4. queue' \in Seq(Discovered \ Blocked)
    BY <2>3
  <2>5. /\ ordered' \in Seq(Discovered \ Blocked)
        /\ IsInjective(ordered')
        /\ Range(ordered') = {}
    <3>1. IsInjective(<< >>) /\ Range(<< >>) = {}
      BY DEF IsInjective, Range
    <3>2. QED
      BY <1>1, <3>1
  <2>6. \A id : Dependencies(id)' = Dependencies(id)
    BY <1>1 DEF Dependencies, Manifest
  <2>7. \A id : WaitsAt(id)' =
                {i \in DOMAIN Dependencies(id) : Dependencies(id)[i] \in Discovered}
    BY <1>3, <2>5, <2>6 DEF WaitsAt, Outstanding
  <2>8. indegree' = [id \in Discovered |-> Cardinality(WaitsAt(id)')]
    BY <2>1, <2>7
  <2>9. QED
    BY <1>3, <2>3, <2>4, <2>5, <2>8 DEF OrderingInv
<1>7. DiscoveryInv' /\ NothingLoadedEarly' /\ LoadingInv'
  BY <1>1, <1>2, <1>4 DEF LoaderInv, DiscoveryInv, NothingLoadedEarly, LoadingInv
<1>8. QED
  BY <1>1, <1>2, <1>3, <1>4, <1>5, <1>6, <1>7 DEF Inv, LoaderInv, Phases

(***************************************************************************)
(* The id taken off the queue goes to the end of the order; the ids whose  *)
(* in-degree it brought to zero, and no others, join the queue.            *)
(***************************************************************************)
LEMMA DequeueKeepsInv ==
  ASSUME Inv, Dequeue
  PROVE  Inv'
<1> DEFINE current == Head(queue)
           Ready == {id \in Discovered \ Blocked : Lists(id, current) > 0 /\ indegree'[id] = 0}
<1>1. /\ phase = "ordering" /\ queue # << >>
      /\ UNCHANGED << phase, loads, directory, unread, manifests, todo, result >>
      /\ ordered' = Append(ordered, current)
      /\ indegree' = [id \in Discovered |-> indegree[id] - Lists(id, current)]
  BY DEF Dequeue
<1>2. PICK ready \in SetToSeqs(Ready) : queue' = Tail(queue) \o ready
  BY DEF Dequeue
<1>3. LoaderInv /\ loads > 0
  BY <1>1 DEF Inv
<1>4. /\ Discovered' = Discovered /\ Blocked' = Blocked /\ ManifestFiles' = ManifestFiles
      /\ ManifestsAreRead' /\ ManifestsAreRead
  BY <1>1, <1>3, SameManifests DEF LoaderInv
<1>5. /\ ordered \in Seq(Discovered \ Blocked) /\ IsInjective(ordered)
      /\ queue \in Seq(Discovered \ Blocked) /\ IsInjective(queue)
      /\ Range(ordered) \cap Range(queue) = {}
      /\ indegree = [id \in Discovered |-> Cardinality(WaitsAt(id))]
      /\ \A id \in Discovered \ Blocked :
            indegree[id] = 0 <=> id \in Range(ordered) \cup Range(queue)
  BY <1>1, <1>3 DEF LoaderInv, OrderingInv
<1>6. /\ Tail(queue) \in Seq(Discovered \ Blocked) /\ IsInjective(Tail(queue))
      /\ current \in Discovered \ Blocked
      /\ Range(queue) = Range(Tail(queue)) \cup {current}
      /\ current \notin Range(Tail(queue))
  BY <1>1, <1>5, TailOfInjective
<1>7. /\ ordered' \in Seq(Discovered \ Blocked) /\ IsInjective(ordered')
      /\ Range(ordered') = Range(ordered) \cup {current}
  BY <1>1, <1>5, <1>6, AppendToInjective
<1> HIDE DEF current
<1>8. \A id \in Discovered :
         /\ Lists(id, current) \in Nat /\ indegree[id] \in Nat /\ indegree'[id] \in Nat
         /\ indegree'[id] = indegree[id] - Lists(id, current)
         /\ indegree'[id] = Cardinality(WaitsAt(id)')
  <2> TAKE id \in Discovered
  <2>1. current \in Discovered /\ current \notin Range(ordered)
    BY <1>5, <1>6
  <2>2. WaitsAt(id)' = Outstanding(id, Range(ordered) \cup {current})
    BY <1>1, <1>4, <1>7 DEF WaitsAt, Outstanding, Dependencies, Manifest
  <2>3. /\ Cardinality(WaitsAt(id)) \in Nat /\ Lists(id, current) \in Nat
        /\ Cardinality(WaitsAt(id)') \in Nat
        /\ Cardinality(WaitsAt(id)') = Cardinality(WaitsAt(id)) - Lists(id, current)
    BY <1>4, <2>1, <2>2, WaitsAreCounted DEF WaitsAt
  <2>4. QED
    BY <1>1, <1>5, <2>3
<1>9. /\ ready \in Seq(Ready) /\ IsInjective(ready) /\ Range(ready) = Ready
  <2>1. IsFiniteSet(Ready)
    BY <1>4, FS_Subset DEF ManifestsAreRead
  <2>2. QED
    BY <2>1, ListingsOfASet
<1>10. Range(Tail(queue)) \cap Range(ready) = {} /\ Range(ordered') \cap Range(ready) = {}
  <2>1. ASSUME NEW id \in Ready
        PROVE  id \notin Range(ordered) \cup Range(queue)
    <3>1. Lists(id, current) > 0 /\ indegree[id] = Lists(id, current)
      BY <1>8
    <3>2. QED
      BY <1>5, <1>8, <3>1
  <2>2. QED
    BY <1>6, <1>7, <1>9, <2>1
<1> HIDE DEF Ready
<1>11. /\ queue' \in Seq(Discovered \ Blocked) /\ IsInjective(queue')
       /\ Range(queue') = Range(Tail(queue)) \cup Ready
  <2>1. ready \in Seq(Discovered \ Blocked)
    BY <1>9 DEF Ready
  <2> DEFINE rest == Tail(queue)
  <2>2. /\ rest \in Seq(Discovered \ Blocked) /\ IsInjective(rest)
        /\ Range(rest) \cap Range(ready) = {}
        /\ queue' = rest \o ready
    BY <1>2, <1>6, <1>10
  <2> HIDE DEF rest
  <2>3. /\ rest \o ready \in Seq(Discovered \ Blocked)
        /\ IsInjective(rest \o ready)
        /\ Range(rest \o ready) = Range(rest) \cup Range(ready)
    BY <1>9, <2>1, <2>2, JoinOfInjectives
  <2>4. QED
    BY <1>9, <2>2, <2>3 DEF rest
<1>12. Range(ordered') \cap Range(queue') = {}
  BY <1>5, <1>6, <1>7, <1>9, <1>10, <1>11
<1>13. ASSUME NEW id \in Discovered \ Blocked
       PROVE  indegree'[id] = 0 <=> id \in Range(ordered') \cup Range(queue')
  <2>1. id \in Range(ordered') \cup Range(queue')
           <=> id \in Range(ordered) \cup Range(queue) \/ id \in Ready
    BY <1>6, <1>7, <1>11
  <2>2. indegree[id] = 0 <=> id \in Range(ordered) \cup Range(queue)
    BY <1>5
  <2>3. id \in Ready <=> Lists(id, current) > 0 /\ indegree'[id] = 0
    BY DEF Ready
  <2>4. /\ Lists(id, current) \in Nat /\ indegree[id] \in Nat /\ indegree'[id] \in Nat
        /\ indegree'[id] = indegree[id] - Lists(id, current)
    BY <1>8
  <2>5. QED
    BY <2>1, <2>2, <2>3, <2>4
<1>14. indegree' = [id \in Discovered' |-> Cardinality(WaitsAt(id)')]
  BY <1>1, <1>4, <1>8
<1>15. OrderingInv'
  BY <1>4, <1>7, <1>11, <1>12, <1>13, <1>14 DEF OrderingInv
<1>16. ErrorsAreExact'
  BY <1>1, <1>3, <1>4 DEF LoaderInv, ErrorsAreExact, Accused, Unaccused, FilesOf
<1>17. ResultIsARecord' /\ DiscoveryInv' /\ NothingLoadedEarly' /\ LoadingInv'
  BY <1>1, <1>3 DEF LoaderInv, ResultIsARecord, DiscoveryInv, NothingLoadedEarly, LoadingInv
<1>18. QED
  BY <1>1, <1>3, <1>4, <1>15, <1>16, <1>17 DEF Inv, LoaderInv

(***************************************************************************)
(* When the queue is empty an id that is not blocked is ordered or has an  *)
(* in-degree above zero, and is then reported as part of a cycle.          *)
(***************************************************************************)
LEMMA FinishOrderingKeepsInv ==
  ASSUME Inv, FinishOrdering
  PROVE  Inv'
<1>1. /\ phase = "ordering" /\ queue = << >> /\ phase' = "loading" /\ todo' = ordered
      /\ UNCHANGED << loads, directory, unread, manifests, indegree >>
      /\ result' = [result EXCEPT !.errors = @ \cup Errors(FilesOf(Cyclic), "cycle")]
  BY DEF FinishOrdering
<1>2. LoaderInv /\ loads > 0
  BY <1>1 DEF Inv
<1>3. /\ Discovered' = Discovered /\ ManifestFiles' = ManifestFiles
      /\ ManifestsAreRead' /\ ManifestsAreRead
  BY <1>1, <1>2, SameManifests DEF LoaderInv
<1>4. /\ Accused' = Accused \cup FilesOf(Cyclic)
      /\ result'.loaded = << >>
      /\ ResultIsARecord'
  BY <1>1, <1>2, ReportedErrors DEF LoaderInv, NothingLoadedEarly
<1>5. /\ ordered \in Seq(Discovered \ Blocked) /\ IsInjective(ordered)
      /\ indegree = [id \in Discovered |-> Cardinality(WaitsAt(id))]
      /\ \A id \in Discovered \ Blocked : indegree[id] = 0 <=> id \in Range(ordered)
  BY <1>1, <1>2 DEF LoaderInv, OrderingInv, Range
<1>6. Range(ordered) = (Discovered \ Blocked) \ Cyclic
  <2>1. Range(ordered) \subseteq Discovered \ Blocked
    BY <1>5 DEF Range
  <2>2. ASSUME NEW id \in Discovered \ Blocked
        PROVE  indegree[id] \in Nat
    BY <1>3, <1>5, WaitsAreFinite, FS_CardinalityType
  <2>3. QED
    BY <1>5, <2>1, <2>2 DEF Cyclic
<1>7. ErrorsAreExact'
  <2>1. Cyclic \subseteq Discovered \ Blocked
    BY DEF Cyclic
  <2>2. FilesOf((Discovered \ Blocked) \ Cyclic) = FilesOf(Discovered \ Blocked) \ FilesOf(Cyclic)
    BY <1>3, <2>1, FilesAreDistinct
  <2>3. Unaccused = FilesOf(Discovered \ Blocked)
    BY <1>1 DEF Unaccused
  <2>4. Unaccused' = FilesOf(Range(ordered))
    BY <1>1, <1>4 DEF Unaccused, FilesOf, Range
  <2>5. QED
    BY <1>2, <1>3, <1>4, <1>6, <2>2, <2>3, <2>4 DEF LoaderInv, ErrorsAreExact
<1>8. LoadingInv'
  <2>1. ordered \in Seq(Discovered)
    BY <1>5
  <2>2. << >> \in Seq(Discovered) /\ IsInjective(<< >>) /\ Range(<< >>) = {}
    BY DEF IsInjective, Range
  <2>3. QED
    BY <1>1, <1>3, <1>4, <1>5, <2>1, <2>2 DEF LoadingInv
<1>9. DiscoveryInv' /\ NothingLoadedEarly' /\ OrderingInv'
  BY <1>1 DEF DiscoveryInv, NothingLoadedEarly, OrderingInv
<1>10. QED
  BY <1>1, <1>2, <1>3, <1>4, <1>7, <1>8, <1>9 DEF Inv, LoaderInv, Phases

(***************************************************************************)
(* A pack that is refused, or whose registration fails, is accused and     *)
(* leaves the list.                                                        *)
(***************************************************************************)
LEMMA GivingUpKeepsInv ==
  ASSUME Inv, phase = "loading", todo # << >>, todo' = Tail(todo), NEW why,
         result' = [result EXCEPT !.errors = @ \cup Errors(FilesOf({Candidate}), why)],
         UNCHANGED << phase, loads, directory, unread, manifests >>
  PROVE  Inv'
<1>1. LoaderInv /\ loads > 0
  BY DEF Inv
<1>2. /\ Discovered' = Discovered /\ ManifestFiles' = ManifestFiles
      /\ ManifestsAreRead' /\ ManifestsAreRead
  BY <1>1, SameManifests DEF LoaderInv
<1>3. /\ Accused' = Accused \cup FilesOf({Candidate})
      /\ result'.loaded = result.loaded
      /\ ResultIsARecord'
  BY <1>1, ReportedErrors DEF LoaderInv
<1>4. /\ todo \in Seq(Discovered) /\ IsInjective(todo)
      /\ result.loaded \in Seq(Discovered) /\ IsInjective(result.loaded)
      /\ Range(todo) \cap Range(result.loaded) = {}
  BY <1>1 DEF LoaderInv, LoadingInv
<1>5. /\ Tail(todo) \in Seq(Discovered) /\ IsInjective(Tail(todo))
      /\ Candidate \in Discovered
      /\ Range(todo) = Range(Tail(todo)) \cup {Candidate}
      /\ Candidate \notin Range(Tail(todo))
  BY <1>4, TailOfInjective DEF Candidate
<1>6. LoadingInv'
  BY <1>2, <1>3, <1>4, <1>5 DEF LoadingInv
<1>7. ErrorsAreExact'
  <2> DEFINE Open == Range(todo) \cup Range(result.loaded)
             Left == Range(Tail(todo)) \cup Range(result.loaded)
  <2>1. Left = Open \ {Candidate} /\ Open \subseteq Discovered
    <3>1. Range(todo) \subseteq Discovered
      BY <1>4 DEF Range
    <3>2. Range(result.loaded) \subseteq Discovered
      BY <1>4 DEF Range
    <3>3. QED
      BY <1>4, <1>5, <3>1, <3>2
  <2>2. FilesOf(Left) = FilesOf(Open) \ FilesOf({Candidate})
    BY <1>2, <1>5, <2>1, FilesAreDistinct
  <2>3. Unaccused = FilesOf(Open)
    BY DEF Unaccused
  <2>4. Unaccused' = FilesOf(Left)
    BY <1>3 DEF Unaccused, FilesOf
  <2>5. QED
    BY <1>1, <1>2, <1>3, <2>2, <2>3, <2>4 DEF LoaderInv, ErrorsAreExact
<1>8. DiscoveryInv' /\ NothingLoadedEarly' /\ OrderingInv'
  BY DEF DiscoveryInv, NothingLoadedEarly, OrderingInv
<1>9. QED
  BY <1>1, <1>2, <1>3, <1>6, <1>7, <1>8 DEF Inv, LoaderInv

(***************************************************************************)
(* A pack that is loaded moves from one list to the other.                 *)
(***************************************************************************)
LEMMA LoadPackKeepsInv ==
  ASSUME Inv, LoadPack
  PROVE  Inv'
<1>1. /\ phase = "loading" /\ todo # << >> /\ todo' = Tail(todo)
      /\ UNCHANGED << phase, loads, directory, unread, manifests >>
  BY DEF LoadPack
<1>2. LoaderInv /\ loads > 0
  BY <1>1 DEF Inv
<1>3. /\ Discovered' = Discovered /\ ManifestFiles' = ManifestFiles
      /\ ManifestsAreRead' /\ ManifestsAreRead
  BY <1>1, <1>2, SameManifests DEF LoaderInv
<1>4. /\ result'.loaded = Append(result.loaded, Candidate)
      /\ result'.errors = result.errors
      /\ ResultIsARecord'
  <2>1. result' = [result EXCEPT !.loaded = Append(@, Candidate)]
    BY DEF LoadPack
  <2>2. QED
    BY <1>2, <2>1 DEF LoaderInv, ResultIsARecord
<1>5. /\ todo \in Seq(Discovered) /\ IsInjective(todo)
      /\ result.loaded \in Seq(Discovered) /\ IsInjective(result.loaded)
      /\ Range(todo) \cap Range(result.loaded) = {}
  BY <1>1, <1>2 DEF LoaderInv, LoadingInv
<1>6. /\ Tail(todo) \in Seq(Discovered) /\ IsInjective(Tail(todo))
      /\ Candidate \in Discovered
      /\ Range(todo) = Range(Tail(todo)) \cup {Candidate}
      /\ Candidate \notin Range(Tail(todo))
  BY <1>1, <1>5, TailOfInjective DEF Candidate
<1>7. /\ result'.loaded \in Seq(Discovered) /\ IsInjective(result'.loaded)
      /\ Range(result'.loaded) = Range(result.loaded) \cup {Candidate}
  <2>1. Candidate \notin Range(result.loaded)
    BY <1>5, <1>6
  <2>2. QED
    BY <1>4, <1>5, <1>6, <2>1, AppendToInjective
<1>8. LoadingInv'
  <2>1. Range(Tail(todo)) \cap Range(result'.loaded) = {}
    BY <1>5, <1>6, <1>7
  <2>2. QED
    BY <1>1, <1>3, <1>6, <1>7, <2>1 DEF LoadingInv
<1>9. ErrorsAreExact'
  <2>1. Range(todo') \cup Range(result'.loaded) = Range(todo) \cup Range(result.loaded)
    BY <1>1, <1>6, <1>7
  <2>2. Unaccused' = Unaccused
    BY <1>1, <2>1 DEF Unaccused, FilesOf
  <2>3. Accused' = Accused
    BY <1>4 DEF Accused
  <2>4. QED
    BY <1>2, <1>3, <2>2, <2>3 DEF LoaderInv, ErrorsAreExact
<1>10. DiscoveryInv' /\ NothingLoadedEarly' /\ OrderingInv'
  BY <1>1 DEF DiscoveryInv, NothingLoadedEarly, OrderingInv
<1>11. QED
  BY <1>1, <1>2, <1>3, <1>4, <1>8, <1>9, <1>10 DEF Inv, LoaderInv

(***************************************************************************)
(* Returning, crashing and what the services rebuild leave the loader's    *)
(* state alone.                                                            *)
(***************************************************************************)
LEMMA RestKeepsInv ==
  ASSUME Inv,
         UNCHANGED << loads, directory, unread, manifests, indegree, queue, ordered, todo, result >>,
         \/ UNCHANGED phase
         \/ phase = "loading" /\ todo = << >> /\ phase' = "ready"
         \/ phase = "ready" /\ phase' = "crashed"
  PROVE  Inv'
<1>1. CASE loads = 0
  BY <1>1 DEF Inv, Phases
<1>2. CASE loads > 0
  <2>1. LoaderInv
    BY <1>2 DEF Inv
  <2>2. /\ Discovered' = Discovered /\ Blocked' = Blocked /\ ManifestFiles' = ManifestFiles
        /\ ManifestsAreRead'
    BY <2>1, SameManifests DEF LoaderInv
  <2>3. Unaccused' = Unaccused /\ Accused' = Accused
    BY <2>2 DEF Unaccused, FilesOf, Accused
  <2>4. ErrorsAreExact' /\ ResultIsARecord'
    BY <2>1, <2>2, <2>3 DEF LoaderInv, ErrorsAreExact, ResultIsARecord
  <2>5. DiscoveryInv' /\ NothingLoadedEarly'
    BY <2>1 DEF LoaderInv, DiscoveryInv, NothingLoadedEarly
  <2>6. OrderingInv'
    <3>1. \A id : WaitsAt(id)' = WaitsAt(id)
      BY <2>2 DEF WaitsAt, Outstanding, Dependencies, Manifest
    <3>2. QED
      BY <2>1, <2>2, <3>1 DEF LoaderInv, OrderingInv
  <2>7. LoadingInv'
    BY <2>1, <2>2 DEF LoaderInv, LoadingInv
  <2>8. QED
    BY <1>2, <2>2, <2>4, <2>5, <2>6, <2>7 DEF Inv, LoaderInv, Phases
<1>3. QED
  BY <1>1, <1>2 DEF Inv

-----------------------------------------------------------------------------
(* The theorems. *)

(***************************************************************************)
(* Where loadFromDirectory stands is always described by Inv: the files    *)
(* without an error diagnostic are those still to be judged and those      *)
(* whose pack was loaded.                                                  *)
(***************************************************************************)
THEOREM LoaderInvariant == Spec => []Inv
<1>1. Init => Inv
  BY DEF Init, Inv, Phases
<1>2. Inv /\ [Next]_vars => Inv'
  <2> SUFFICES ASSUME Inv, [Next]_vars
               PROVE  Inv'
    OBVIOUS
  <2>1. CASE LoadFromDirectory
    BY <2>1, LoadFromDirectoryKeepsInv
  <2>2. CASE SkipRuleFile
    BY <2>2, SkipRuleFileKeepsInv
  <2>3. CASE DiscoverManifest
    BY <2>3, DiscoverManifestKeepsInv
  <2>4. CASE StartOrdering
    BY <2>4, StartOrderingKeepsInv
  <2>5. CASE Dequeue
    BY <2>5, DequeueKeepsInv
  <2>6. CASE FinishOrdering
    BY <2>6, FinishOrderingKeepsInv
  <2>7. CASE RejectPack
    <3>1. /\ phase = "loading" /\ todo # << >> /\ todo' = Tail(todo)
          /\ UNCHANGED << phase, loads, directory, unread, manifests >>
      BY <2>7 DEF RejectPack
    <3>2. result' = [result EXCEPT !.errors = @ \cup Errors(FilesOf({Candidate}), Refusal)]
      BY <2>7 DEF RejectPack
    <3>3. QED
      BY <3>1, <3>2, GivingUpKeepsInv
  <2>8. CASE FailRegistration
    <3>1. /\ phase = "loading" /\ todo # << >> /\ todo' = Tail(todo)
          /\ UNCHANGED << phase, loads, directory, unread, manifests >>
      BY <2>8 DEF FailRegistration
    <3>2. result' = [result EXCEPT !.errors = @ \cup Errors(FilesOf({Candidate}), "registration")]
      BY <2>8 DEF FailRegistration
    <3>3. QED
      BY <3>1, <3>2, GivingUpKeepsInv
  <2>9. CASE LoadPack
    BY <2>9, LoadPackKeepsInv
  <2>10. CASE ReturnResult
    BY <2>10, RestKeepsInv DEF ReturnResult
  <2>11. CASE Crash
    BY <2>11, RestKeepsInv DEF Crash
  <2>12. CASE RebuildSchemas
    BY <2>12, RestKeepsInv DEF RebuildSchemas, loaderVars
  <2>13. CASE ViewSchema
    BY <2>13, RestKeepsInv DEF ViewSchema, loaderVars
  <2>14. CASE RebuildTypes
    BY <2>14, RestKeepsInv DEF RebuildTypes, loaderVars
  <2>15. CASE RebuildSemantics
    BY <2>15, RestKeepsInv DEF RebuildSemantics, loaderVars
  <2>16. CASE RebuildActions
    BY <2>16, RestKeepsInv DEF RebuildActions, loaderVars
  <2>17. CASE UNCHANGED vars
    BY <2>17, RestKeepsInv DEF vars, loaderVars
  <2>18. QED
    BY <2>1, <2>2, <2>3, <2>4, <2>5, <2>6, <2>7, <2>8, <2>9, <2>10, <2>11, <2>12, <2>13,
       <2>14, <2>15, <2>16, <2>17 DEF Next
<1>3. QED
  BY <1>1, <1>2, PTL DEF Spec

(***************************************************************************)
(* After loadFromDirectory() every manifest file was loaded exactly once   *)
(* or is named by an error diagnostic, for any directories, factories and  *)
(* providers, and however the hash tables are walked.                      *)
(***************************************************************************)
THEOREM NoManifestDroppedSilently == Spec => []NothingSilentlyDropped
<1>1. Inv => NothingSilentlyDropped
  <2> SUFFICES ASSUME Inv, phase = "ready", loads > 0, NEW file \in ManifestFiles
               PROVE  LET times == Cardinality({i \in DOMAIN result.loaded :
                                                   manifests[result.loaded[i]] = file})
                      IN  IF \E error \in result.errors : error.file = file
                          THEN times = 0 ELSE times = 1
    BY DEF NothingSilentlyDropped, ManifestFiles
  <2> DEFINE Times == {i \in DOMAIN result.loaded : manifests[result.loaded[i]] = file}
  <2>1. LoaderInv
    BY DEF Inv
  <2>2. /\ todo = << >>
        /\ result.loaded \in Seq(Discovered) /\ IsInjective(result.loaded)
    BY <2>1 DEF LoaderInv, LoadingInv
  <2>3. Range(todo) = {}
    BY <2>2 DEF Range
  <2>4. Unaccused = FilesOf(Range(result.loaded))
    BY <2>3 DEF Unaccused
  <2>5. (\E error \in result.errors : error.file = file) <=> file \in Accused
    BY DEF Accused
  <2>6. CASE file \in Accused
    <3>1. file \notin FilesOf(Range(result.loaded))
      BY <2>1, <2>4, <2>6 DEF LoaderInv, ErrorsAreExact
    <3>2. Times = {}
      BY <3>1 DEF FilesOf, Range
    <3>3. QED
      BY <2>5, <2>6, <3>2, FS_EmptySet
  <2>7. CASE file \notin Accused
    <3>1. file \in FilesOf(Range(result.loaded))
      BY <2>1, <2>4, <2>7 DEF LoaderInv, ErrorsAreExact
    <3>2. PICK k \in DOMAIN result.loaded : manifests[result.loaded[k]] = file
      BY <3>1 DEF FilesOf, Range
    <3>3. ASSUME NEW i \in DOMAIN result.loaded, manifests[result.loaded[i]] = file
          PROVE  i = k
      <4>1. result.loaded[i] \in Discovered /\ result.loaded[k] \in Discovered
        BY <2>2, <3>2
      <4>2. result.loaded[i] = result.loaded[k]
        BY <2>1, <3>2, <3>3, <4>1 DEF LoaderInv, ManifestsAreRead, Manifest
      <4>3. QED
        BY <2>2, <3>2, <4>2 DEF IsInjective
    <3>4. Times = {k}
      BY <3>2, <3>3
    <3>5. QED
      BY <2>5, <2>7, <3>4, FS_Singleton
  <2>8. QED
    BY <2>6, <2>7
<1>2. QED
  BY <1>1, LoaderInvariant, PTL

-----------------------------------------------------------------------------
(* The order of the dependencies. *)

\* What an ordered id depends on was ordered before it.
BehindDependencies ==
    \A i \in DOMAIN ordered :
        Range(Dependencies(ordered[i])) \subseteq {ordered[j] : j \in 1 .. (i - 1)}

TopologicalInv ==
    /\ phase = "ordering" => BehindDependencies
    /\ OrderedAreTheResolvable

(***************************************************************************)
(* The id taken off the queue waits for nothing: it goes behind all it     *)
(* depends on.                                                             *)
(***************************************************************************)
LEMMA DequeueKeepsOrder ==
  ASSUME Inv, BehindDependencies, Dequeue
  PROVE  BehindDependencies'
<1> DEFINE current == Head(queue)
<1>1. /\ phase = "ordering" /\ queue # << >>
      /\ UNCHANGED << directory, manifests >>
      /\ ordered' = Append(ordered, current)
  BY DEF Dequeue
<1>2. LoaderInv
  BY <1>1 DEF Inv
<1>3. /\ ordered \in Seq(Discovered \ Blocked)
      /\ queue \in Seq(Discovered \ Blocked) /\ IsInjective(queue)
      /\ indegree = [id \in Discovered |-> Cardinality(WaitsAt(id))]
      /\ \A id \in Discovered \ Blocked :
            indegree[id] = 0 <=> id \in Range(ordered) \cup Range(queue)
  BY <1>1, <1>2 DEF LoaderInv, OrderingInv
<1>4. current \in Discovered \ Blocked /\ current \in Range(queue)
  BY <1>1, <1>3, TailOfInjective
<1> HIDE DEF current
<1>5. WaitsAt(current) = {}
  <2>1. Cardinality(WaitsAt(current)) = 0
    BY <1>3, <1>4
  <2>2. IsFiniteSet(WaitsAt(current))
    BY <1>2, <1>4, WaitsAreFinite DEF LoaderInv
  <2>3. QED
    BY <2>1, <2>2, FS_EmptySet
<1>6. Range(Dependencies(current)) \subseteq Range(ordered)
  <2>1. Range(Dependencies(current)) \subseteq Discovered
    BY <1>4 DEF Blocked
  <2>2. QED
    BY <1>5, <2>1 DEF WaitsAt, Outstanding, Range
<1>7. /\ Len(ordered) \in Nat
      /\ DOMAIN ordered = 1 .. Len(ordered)
      /\ DOMAIN ordered' = 1 .. (Len(ordered) + 1)
      /\ \A i \in 1 .. Len(ordered) : ordered'[i] = ordered[i]
      /\ ordered'[Len(ordered) + 1] = current
  <2>1. \A S, x : \A s \in Seq(S) : x \in S =>
           /\ Len(s) \in Nat
           /\ DOMAIN s = 1 .. Len(s)
           /\ DOMAIN Append(s, x) = 1 .. (Len(s) + 1)
           /\ \A i \in 1 .. Len(s) : Append(s, x)[i] = s[i]
           /\ Append(s, x)[Len(s) + 1] = x
    OBVIOUS
  <2>2. QED
    BY <1>1, <1>3, <1>4, <2>1
<1>8. \A id : Dependencies(id)' = Dependencies(id)
  BY <1>1 DEF Dependencies, Manifest
<1>9. ASSUME NEW i \in DOMAIN ordered'
      PROVE  Range(Dependencies(ordered'[i])) \subseteq {ordered'[j] : j \in 1 .. (i - 1)}
  <2>1. CASE i \in 1 .. Len(ordered)
    <3>1. \A j \in 1 .. (i - 1) : ordered'[j] = ordered[j]
      BY <1>7, <2>1
    <3>2. {ordered'[j] : j \in 1 .. (i - 1)} = {ordered[j] : j \in 1 .. (i - 1)}
      BY <3>1
    <3>3. QED
      BY <1>7, <2>1, <3>2 DEF BehindDependencies
  <2>2. CASE i = Len(ordered) + 1
    <3>1. 1 .. (i - 1) = DOMAIN ordered
      BY <1>7, <2>2
    <3>2. Range(ordered) = {ordered'[j] : j \in 1 .. (i - 1)}
      BY <1>7, <3>1 DEF Range
    <3>3. QED
      BY <1>6, <1>7, <2>2, <3>2
  <2>3. QED
    BY <1>7, <2>1, <2>2
<1>10. QED
  BY <1>8, <1>9 DEF BehindDependencies

(***************************************************************************)
(* When the queue is empty, what is not ordered is stuck: each such id     *)
(* waits for an id nobody provides or for another that is not ordered.  An *)
(* ordered id is not stuck, or the first one that is would wait for one    *)
(* before it.                                                              *)
(***************************************************************************)
LEMMA OrderedUnlessStuck ==
  ASSUME Inv, BehindDependencies, phase = "ordering", queue = << >>
  PROVE  /\ Range(ordered) = Discovered \ Stuck
         /\ Len(ordered) = Cardinality(Range(ordered))
<1>1. LoaderInv
  BY DEF Inv
<1>2. /\ ordered \in Seq(Discovered \ Blocked) /\ IsInjective(ordered)
      /\ indegree = [id \in Discovered |-> Cardinality(WaitsAt(id))]
      /\ \A id \in Discovered \ Blocked : indegree[id] = 0 <=> id \in Range(ordered)
  BY <1>1 DEF LoaderInv, OrderingInv, Range
<1>3. /\ Len(ordered) \in Nat
      /\ DOMAIN ordered = 1 .. Len(ordered)
      /\ Range(ordered) \subseteq Discovered
  BY <1>2 DEF Range
<1> DEFINE Rest == Discovered \ Range(ordered)
<1>4. ASSUME NEW id \in Rest
      PROVE  \E dependency \in Range(Dependencies(id)) :
                dependency \notin Discovered \/ dependency \in Rest
  <2>1. CASE id \in Blocked
    BY <2>1 DEF Blocked
  <2>2. CASE id \notin Blocked
    <3>1. Cardinality(WaitsAt(id)) # 0
      BY <1>2, <2>2
    <3>2. WaitsAt(id) # {}
      BY <3>1, FS_EmptySet
    <3>3. QED
      BY <3>2 DEF WaitsAt, Outstanding, Range
  <2>3. QED
    BY <2>1, <2>2
<1>5. Rest \subseteq Stuck
  BY <1>4 DEF Stuck
<1>6. Stuck \cap Range(ordered) = {}
  <2> SUFFICES ASSUME NEW ids \in SUBSET Discovered,
                      \A id \in ids : \E dependency \in Range(Dependencies(id)) :
                          dependency \notin Discovered \/ dependency \in ids
               PROVE  ids \cap Range(ordered) = {}
    BY DEF Stuck
  <2> DEFINE Hits == {i \in DOMAIN ordered : ordered[i] \in ids}
  <2>1. Hits = {}
    <3> SUFFICES ASSUME Hits # {} PROVE FALSE
      OBVIOUS
    <3>1. Hits \in SUBSET Nat
      BY <1>3
    <3>2. PICK i \in Hits : \A k \in Hits : i <= k
      BY <3>1, LeastPosition
    <3>3. PICK dependency \in Range(Dependencies(ordered[i])) :
             dependency \notin Discovered \/ dependency \in ids
      BY <3>2
    <3>4. PICK j \in 1 .. (i - 1) : dependency = ordered[j]
      BY <3>2, <3>3 DEF BehindDependencies
    <3>5. j \in DOMAIN ordered /\ i \in Nat /\ j < i
      BY <1>3, <3>2, <3>4
    <3>6. dependency \in Discovered
      BY <1>2, <3>4, <3>5
    <3>7. j \in Hits
      BY <3>3, <3>4, <3>5, <3>6
    <3>8. QED
      BY <3>2, <3>5, <3>7
  <2>2. QED
    BY <2>1 DEF Range
<1>7. Range(ordered) = Discovered \ Stuck
  BY <1>3, <1>5, <1>6
<1>8. Len(ordered) = Cardinality(Range(ordered))
  <2>1. ordered \in Bijection(1 .. Len(ordered), Range(ordered))
    <3>1. ordered \in [1 .. Len(ordered) -> Range(ordered)]
      BY <1>2, <1>3 DEF Range
    <3>2. \A x \in Range(ordered) : \E i \in 1 .. Len(ordered) : ordered[i] = x
      BY <1>3 DEF Range
    <3>3. QED
      BY <1>2, <3>1, <3>2 DEF Bijection, Injection, Surjection
  <2>2. QED
    BY <1>3, <2>1, FS_CountingElements DEF ExistsBijection
<1>9. QED
  BY <1>7, <1>8

(***************************************************************************)
(* A step that leaves the manifests and the order alone leaves what is     *)
(* stuck, and what stands behind its dependencies, alone.                  *)
(***************************************************************************)
LEMMA SameOrder ==
  ASSUME UNCHANGED << directory, manifests, ordered >>
  PROVE  /\ Discovered' = Discovered
         /\ Stuck' = Stuck
         /\ BehindDependencies => BehindDependencies'
<1>1. Discovered' = Discovered
  BY DEF Discovered
<1>2. \A id : Dependencies(id)' = Dependencies(id)
  BY DEF Dependencies, Manifest
<1>3. Stuck' = Stuck
  BY <1>1, <1>2 DEF Stuck
<1>4. BehindDependencies => BehindDependencies'
  BY <1>2 DEF BehindDependencies
<1>5. QED
  BY <1>1, <1>3, <1>4

(***************************************************************************)
(* dependencyOrder() orders exactly the extensions that can be ordered,    *)
(* each once and behind everything it depends on, for any directories and  *)
(* in whatever order the hash tables are walked.                           *)
(***************************************************************************)
THEOREM OrderIsTopological == Spec => []OrderedAreTheResolvable
<1>1. Init => TopologicalInv
  BY DEF Init, TopologicalInv, OrderedAreTheResolvable
<1>2. Inv /\ TopologicalInv /\ [Next]_vars => TopologicalInv'
  <2> SUFFICES ASSUME Inv, TopologicalInv, [Next]_vars
               PROVE  TopologicalInv'
    OBVIOUS
  <2>1. CASE StartOrdering
    <3>1. phase' = "ordering" /\ ordered' = << >>
      BY <2>1 DEF StartOrdering
    <3>2. QED
      BY <3>1 DEF TopologicalInv, BehindDependencies, OrderedAreTheResolvable
  <2>2. CASE Dequeue
    <3>1. phase = "ordering" /\ phase' = "ordering"
      BY <2>2 DEF Dequeue
    <3>2. QED
      BY <2>2, <3>1, DequeueKeepsOrder DEF TopologicalInv, OrderedAreTheResolvable
  <2>3. CASE FinishOrdering
    <3>1. /\ phase = "ordering" /\ queue = << >> /\ phase' = "loading"
          /\ UNCHANGED << directory, manifests, ordered >>
      BY <2>3 DEF FinishOrdering
    <3>2. /\ Range(ordered) = Discovered \ Stuck
          /\ Len(ordered) = Cardinality(Range(ordered))
          /\ BehindDependencies
      BY <3>1, OrderedUnlessStuck DEF TopologicalInv
    <3>3. OrderedAreTheResolvable'
      <4>1. Discovered' = Discovered /\ Stuck' = Stuck /\ BehindDependencies'
        BY <3>1, <3>2, SameOrder
      <4>2. QED
        BY <3>1, <3>2, <4>1 DEF OrderedAreTheResolvable, BehindDependencies
    <3>4. QED
      BY <3>1, <3>3 DEF TopologicalInv
  <2>4. CASE phase' \notin {"ordering", "loading"}
    BY <2>4 DEF TopologicalInv, OrderedAreTheResolvable
  <2>5. CASE UNCHANGED << phase, directory, manifests, ordered >>
    <3>1. /\ Discovered' = Discovered /\ Stuck' = Stuck
          /\ BehindDependencies => BehindDependencies'
      BY <2>5, SameOrder
    <3>2. CASE phase = "ordering"
      BY <2>5, <3>1, <3>2 DEF TopologicalInv, OrderedAreTheResolvable
    <3>3. CASE phase = "loading"
      <4>1. /\ Range(ordered) = Discovered \ Stuck
            /\ Len(ordered) = Cardinality(Range(ordered))
            /\ BehindDependencies
        BY <3>3 DEF TopologicalInv, OrderedAreTheResolvable, BehindDependencies
      <4>2. OrderedAreTheResolvable'
        BY <2>5, <3>1, <4>1 DEF OrderedAreTheResolvable, BehindDependencies
      <4>3. QED
        BY <2>5, <3>3, <4>2 DEF TopologicalInv
    <3>4. QED
      BY <2>4, <2>5, <3>2, <3>3
  <2>6. CASE LoadFromDirectory
    BY <2>4, <2>6 DEF LoadFromDirectory
  <2>7. CASE SkipRuleFile
    BY <2>5, <2>7 DEF SkipRuleFile
  <2>8. CASE DiscoverManifest
    BY <2>4, <2>8 DEF DiscoverManifest
  <2>9. CASE RejectPack
    BY <2>5, <2>9 DEF RejectPack
  <2>10. CASE FailRegistration
    BY <2>5, <2>10 DEF FailRegistration
  <2>11. CASE LoadPack
    BY <2>5, <2>11 DEF LoadPack
  <2>12. CASE ReturnResult
    BY <2>4, <2>12 DEF ReturnResult
  <2>13. CASE Crash
    BY <2>4, <2>13 DEF Crash
  <2>14. CASE RebuildSchemas \/ ViewSchema \/ RebuildTypes \/ RebuildSemantics \/ RebuildActions
    BY <2>5, <2>14
       DEF RebuildSchemas, ViewSchema, RebuildTypes, RebuildSemantics, RebuildActions, loaderVars
  <2>15. CASE UNCHANGED vars
    BY <2>5, <2>15 DEF vars, loaderVars
  <2>16. QED
    BY <2>1, <2>2, <2>3, <2>6, <2>7, <2>8, <2>9, <2>10, <2>11, <2>12, <2>13, <2>14, <2>15
       DEF Next
<1>3. TopologicalInv => OrderedAreTheResolvable
  BY DEF TopologicalInv
<1>4. QED
  BY <1>1, <1>2, <1>3, LoaderInvariant, PTL DEF Spec

-----------------------------------------------------------------------------
(* Folding a list from the left. *)

\* Induction over the numbers up to n, for a set of them.
LEMMA NumbersUpTo ==
  ASSUME NEW n \in Nat, NEW S, 0 \in S, \A i \in 1 .. n : i - 1 \in S => i \in S
  PROVE  0 .. n \subseteq S
<1> DEFINE Less == OpToRel(<, Nat)
           Fails == (0 .. n) \ S
<1>1. IsWellFoundedOn(Less, Nat)
  BY NatLessThanWellFounded
<1>2. Fails \subseteq Nat
  OBVIOUS
<1> SUFFICES ASSUME Fails # {} PROVE FALSE
  OBVIOUS
<1>3. PICK k \in Fails : \A j \in Fails : <<j, k>> \notin Less
  <2> HIDE DEF Less, Fails
  <2> QED
    BY <1>1, <1>2, WFMin
<1>4. \A x, y \in Nat : x < y => <<x, y>> \in Less
  BY DEF OpToRel
<1> HIDE DEF Less
<1>5. k \in 1 .. n /\ k - 1 \in 0 .. n /\ k - 1 < k
  BY <1>3
<1>6. k - 1 \notin Fails
  <2>1. k - 1 \in Nat /\ k \in Nat
    BY <1>5
  <2>2. <<k - 1, k>> \in Less
    BY <1>4, <1>5, <2>1
  <2> HIDE DEF Fails
  <2> QED
    BY <1>3, <2>2
<1>7. k - 1 \in S /\ k \notin S
  BY <1>3, <1>5, <1>6
<1> QED
  BY <1>5, <1>7

\* The last of a non-empty set of numbers up to n.
LEMMA MaxOfSet ==
  ASSUME NEW n \in Nat, NEW s \in SUBSET (1 .. n), s # {}
  PROVE  Max(s) \in s /\ \A i \in s : i <= Max(s)
<1> DEFINE S == {m \in 0 .. n : \A r \in SUBSET (1 .. m) :
                   r # {} => \E x \in r : \A y \in r : x >= y}
<1>1. 0 \in S
  <2>1. \A r \in SUBSET (1 .. 0) : r = {}
    OBVIOUS
  <2>2. \A r \in SUBSET (1 .. 0) : r # {} => \E x \in r : \A y \in r : x >= y
    BY <2>1
  <2> QED
    BY <2>2
<1>2. ASSUME NEW m \in 1 .. n, m - 1 \in S PROVE m \in S
  <2> SUFFICES ASSUME NEW r \in SUBSET (1 .. m), r # {}
               PROVE  \E x \in r : \A y \in r : x >= y
    OBVIOUS
  <2>1. CASE m \in r
    BY <2>1
  <2>2. CASE m \notin r
    <3>1. r \in SUBSET (1 .. m - 1)
      BY <2>2
    <3> QED
      BY <1>2, <3>1
  <2> QED
    BY <2>1, <2>2
<1>3. n \in S
  <2> HIDE DEF S
  <2> QED
    BY <1>1, <1>2, NumbersUpTo
<1>4. \E x \in s : \A y \in s : x >= y
  BY <1>3
<1> QED
  BY <1>4 DEF Max

\* The first i of the numbers up to n, of which i is the last.
LEMMA MaxOfPrefix ==
  ASSUME NEW n \in Nat, NEW i \in 1 .. n
  PROVE  /\ 1 .. i \in SUBSET (1 .. n) /\ 1 .. i # {}
         /\ i - 1 \in 0 .. n /\ i \in 0 .. n
         /\ Max(1 .. i) = i /\ (1 .. i) \ {i} = 1 .. i - 1
<1>1. i \in Nat /\ 1 <= i /\ i <= n
  OBVIOUS
<1>2. 1 .. i \in SUBSET (1 .. n)
  BY <1>1
<1>3. 1 \in 1 .. i
  BY <1>1
<1>4. i - 1 \in 0 .. n /\ i \in 0 .. n
  BY <1>1
<1>5. Max(1 .. i) = i
  <2>1. i \in 1 .. i /\ \A y \in 1 .. i : i >= y
    BY <1>1
  <2> QED
    BY <1>1, <2>1 DEF Max
<1>6. (1 .. i) \ {i} = 1 .. i - 1
  BY <1>1
<1> QED
  BY <1>2, <1>3, <1>4, <1>5, <1>6

(***************************************************************************)
(* The function with which the community modules fold a list from the      *)
(* left: it takes what comes last off a set of positions, for a step that  *)
(* is itself a function, of the position and of what was folded so far.    *)
(***************************************************************************)
IsLeftFold(it, n, base, step) ==
  \A s \in SUBSET (1 .. n) :
    it[s] = IF s = {} THEN base ELSE step[<<Max(s), it[s \ {Max(s)}]>>]

\* Such a function exists, by induction over the length of the list.
LEMMA LeftFoldExists ==
  ASSUME NEW n \in Nat, NEW T, NEW base \in T, NEW step \in [(1 .. n) \X T -> T]
  PROVE  \E it \in [SUBSET (1 .. n) -> T] : IsLeftFold(it, n, base, step)
<1> DEFINE S == {m \in 0 .. n :
                   \E it \in [SUBSET (1 .. m) -> T] : IsLeftFold(it, m, base, step)}
<1>1. 0 \in S
  <2> DEFINE it == [s \in SUBSET (1 .. 0) |-> base]
  <2>1. it \in [SUBSET (1 .. 0) -> T]
    OBVIOUS
  <2>2. IsLeftFold(it, 0, base, step)
    BY DEF IsLeftFold
  <2> HIDE DEF it
  <2>3. \E jt \in [SUBSET (1 .. 0) -> T] : IsLeftFold(jt, 0, base, step)
    BY <2>1, <2>2, Zenon
  <2>4. 0 \in 0 .. n
    OBVIOUS
  <2> QED
    BY <2>3, <2>4, Zenon
<1>2. ASSUME NEW m \in 1 .. n, m - 1 \in S PROVE m \in S
  <2>1. PICK it \in [SUBSET (1 .. m - 1) -> T] : IsLeftFold(it, m - 1, base, step)
    BY <1>2
  <2> DEFINE more == [s \in SUBSET (1 .. m) |->
                        IF m \in s THEN step[<<m, it[s \ {m}]>>] ELSE it[s]]
  <2>2. \A s \in SUBSET (1 .. m) : s \ {m} \in SUBSET (1 .. m - 1)
    OBVIOUS
  <2>3. \A s \in SUBSET (1 .. m) : m \notin s => s \in SUBSET (1 .. m - 1)
    OBVIOUS
  <2>4. more \in [SUBSET (1 .. m) -> T]
    BY <2>2, <2>3
  <2>5. m \in Nat /\ m - 1 \in Nat
    OBVIOUS
  <2>6. \A s \in SUBSET (1 .. m) : s # {} => Max(s) \in s /\ \A i \in s : i <= Max(s)
    <3> HIDE DEF more, S
    <3> QED
      BY <2>5, MaxOfSet
  <2>7. ASSUME NEW s \in SUBSET (1 .. m)
        PROVE  more[s] = IF s = {} THEN base
                         ELSE step[<<Max(s), more[s \ {Max(s)}]>>]
    <3>1. CASE m \in s
      <4>1. Max(s) = m
        <5>1. Max(s) \in s /\ m <= Max(s)
          BY <3>1, <2>6
        <5>2. Max(s) \in 1 .. m
          BY <5>1
        <5> HIDE DEF more
        <5> QED
          BY <5>1, <5>2
      <4>2. more[s \ {m}] = it[s \ {m}]
        BY <2>2
      <4> QED
        BY <3>1, <4>1, <4>2
    <3>2. CASE m \notin s
      <4>1. s \in SUBSET (1 .. m - 1)
        BY <2>3, <3>2
      <4>2. s # {} => Max(s) \in s
        BY <2>6
      <4>3. more[s] = it[s] /\ more[s \ {Max(s)}] = it[s \ {Max(s)}]
        BY <3>2, <4>1
      <4>4. it[s] = IF s = {} THEN base ELSE step[<<Max(s), it[s \ {Max(s)}]>>]
        BY <2>1, <4>1 DEF IsLeftFold
      <4> QED
        BY <4>3, <4>4
    <3> QED
      BY <3>1, <3>2
  <2>8. IsLeftFold(more, m, base, step)
    <3> HIDE DEF more
    <3> QED
      BY <2>7 DEF IsLeftFold
  <2> HIDE DEF more
  <2> QED
    BY <2>4, <2>8
<1>3. n \in S
  <2> HIDE DEF S
  <2> QED
    BY <1>1, <1>2, NumbersUpTo
<1> QED
  BY <1>3

-----------------------------------------------------------------------------
(* What a pack registers. *)

\* What is kept of an offer.
Entry(pack, offer) == [id |-> offer.id, pack |-> pack, gives |-> offer.gives]

\* The lists of the registry, of providers in P, and a registration's outcome.
Outcomes(P) == [ok : BOOLEAN, held : [Kinds -> Seq(P)]]

\* One offer of a registration: what RegisterProviders does over and over.
Offered(done, pack, offer) ==
    IF ~ done.ok \/ ~ Registrable(done.held, offer)
    THEN [done EXCEPT !.ok = FALSE]
    ELSE [done EXCEPT !.held[RegistryOf(offer.kind)] = Append(@, Entry(pack, offer))]

\* An offer that may be registered, its entry being one of P.
IsOffer(offer, pack, P) ==
    offer # NullProvider => RegistryOf(offer.kind) \in Kinds /\ Entry(pack, offer) \in P

\* The lists of a registry only grow, at their ends.
Extends(longer, shorter) ==
    \A kind \in Kinds :
        /\ Len(shorter[kind]) <= Len(longer[kind])
        /\ \A i \in 1 .. Len(shorter[kind]) : longer[kind][i] = shorter[kind][i]

\* No two providers of a kind have the same id.
NoIdTwice(held) ==
    \A kind \in Kinds : \A i, j \in DOMAIN held[kind] :
        held[kind][i].id = held[kind][j].id => i = j

\* The registry has a provider of the pack with the id of the offer.
Holds(held, pack, offer) ==
    \E i \in DOMAIN held[RegistryOf(offer.kind)] :
        /\ held[RegistryOf(offer.kind)][i].pack = pack
        /\ held[RegistryOf(offer.kind)][i].id = offer.id

\* An offer that is refused changes nothing but the outcome.
LEMMA RefusedOffer ==
  ASSUME NEW P, NEW done \in Outcomes(P), NEW pack, NEW offer,
         ~ done.ok \/ ~ Registrable(done.held, offer)
  PROVE  /\ Offered(done, pack, offer) \in Outcomes(P)
         /\ Offered(done, pack, offer).ok = FALSE
         /\ Offered(done, pack, offer).held = done.held
<1>1. Offered(done, pack, offer) = [done EXCEPT !.ok = FALSE]
  BY DEF Offered
<1> QED
  BY <1>1 DEF Outcomes

\* An offer that is accepted is added at the end of the list of its kind.
LEMMA AcceptedOffer ==
  ASSUME NEW P, NEW done \in Outcomes(P), NEW pack, NEW offer, IsOffer(offer, pack, P),
         done.ok, Registrable(done.held, offer)
  PROVE  /\ Offered(done, pack, offer) \in Outcomes(P)
         /\ Offered(done, pack, offer).ok
         /\ RegistryOf(offer.kind) \in Kinds
         /\ Offered(done, pack, offer).held[RegistryOf(offer.kind)]
               = Append(done.held[RegistryOf(offer.kind)], Entry(pack, offer))
         /\ \A kind \in Kinds : kind # RegistryOf(offer.kind) =>
               Offered(done, pack, offer).held[kind] = done.held[kind]
<1> DEFINE k == RegistryOf(offer.kind)
           e == Entry(pack, offer)
           h == done.held
<1>1. k \in Kinds /\ e \in P /\ h \in [Kinds -> Seq(P)]
  BY DEF Registrable, IsOffer, Outcomes
<1>2. Offered(done, pack, offer) = [done EXCEPT !.held = [h EXCEPT ![k] = Append(h[k], e)]]
  BY <1>1 DEF Offered, Outcomes
<1>3. h[k] \in Seq(P)
  BY <1>1
<1>4. Append(h[k], e) \in Seq(P)
  BY <1>1, <1>3
<1>5. [h EXCEPT ![k] = Append(h[k], e)] \in [Kinds -> Seq(P)]
  BY <1>1, <1>4
<1>6. /\ [h EXCEPT ![k] = Append(h[k], e)][k] = Append(h[k], e)
      /\ \A kind \in Kinds : kind # k => [h EXCEPT ![k] = Append(h[k], e)][kind] = h[kind]
  BY <1>1
<1>7. /\ Offered(done, pack, offer).held = [h EXCEPT ![k] = Append(h[k], e)]
      /\ Offered(done, pack, offer).ok = done.ok
      /\ Offered(done, pack, offer) \in Outcomes(P)
  <2> HIDE DEF k, e
  <2> QED
    BY <1>2, <1>5 DEF Outcomes
<1> QED
  BY <1>1, <1>6, <1>7

\* The outcomes of registering a list of offers, one after another.
IsRegistration(chain, P, before, pack, offers) ==
    /\ chain \in [0 .. Len(offers) -> Outcomes(P)]
    /\ chain[0] = [ok |-> TRUE, held |-> before]
    /\ \A i \in 1 .. Len(offers) : chain[i] = Offered(chain[i - 1], pack, offers[i])
    /\ chain[Len(offers)] = RegisterProviders(before, pack, offers)

\* A registration has such outcomes, of which the last is its own.
LEMMA RegistrationChain ==
  ASSUME NEW P, NEW before \in [Kinds -> Seq(P)], NEW pack, NEW offers,
         Len(offers) \in Nat, DOMAIN offers = 1 .. Len(offers),
         \A i \in DOMAIN offers : IsOffer(offers[i], pack, P)
  PROVE  \E chain : IsRegistration(chain, P, before, pack, offers)
<1> DEFINE n == Len(offers)
           d == [ok |-> TRUE, held |-> before]
           step == [x \in (1 .. n) \X Outcomes(P) |-> Offered(x[2], pack, offers[x[1]])]
           Folds(g) == g = [s \in SUBSET (1 .. n) |->
                              IF s = {} THEN d
                              ELSE Offered(g[s \ {Max(s)}], pack, offers[Max(s)])]
<1>1. n \in Nat /\ DOMAIN offers = 1 .. n
  OBVIOUS
<1>11. d \in Outcomes(P)
  BY DEF Outcomes
<1>12. ASSUME NEW done \in Outcomes(P), NEW i \in 1 .. n
       PROVE  Offered(done, pack, offers[i]) \in Outcomes(P)
  <2>1. IsOffer(offers[i], pack, P)
    BY <1>1
  <2>2. CASE ~ done.ok \/ ~ Registrable(done.held, offers[i])
    BY <2>2, RefusedOffer
  <2>3. CASE done.ok /\ Registrable(done.held, offers[i])
    BY <2>1, <2>3, AcceptedOffer
  <2> QED
    BY <2>2, <2>3
<1>2. step \in [(1 .. n) \X Outcomes(P) -> Outcomes(P)]
  BY <1>12
<1>3. PICK it \in [SUBSET (1 .. n) -> Outcomes(P)] : IsLeftFold(it, n, d, step)
  <2> HIDE DEF n, step, d
  <2> QED
    BY <1>1, <1>2, <1>11, LeftFoldExists
<1>4. Folds(it)
  <2>1. ASSUME NEW s \in SUBSET (1 .. n), s # {}
        PROVE  step[<<Max(s), it[s \ {Max(s)}]>>] = Offered(it[s \ {Max(s)}], pack, offers[Max(s)])
    <3>1. Max(s) \in 1 .. n /\ it[s \ {Max(s)}] \in Outcomes(P)
      <4> HIDE DEF n
      <4>1. Max(s) \in s
        BY <1>1, <2>1, MaxOfSet
      <4> QED
        BY <1>3, <4>1
    <3> HIDE DEF n
    <3> QED
      BY <3>1
  <2> HIDE DEF n, step, d
  <2> QED
    BY <1>3, <2>1 DEF IsLeftFold
<1> DEFINE g == CHOOSE g : Folds(g)
<1>5. Folds(g)
  <2> HIDE DEF Folds
  <2> QED
    BY <1>4
<1>6. RegisterProviders(before, pack, offers) = g[1 .. n]
  BY <1>1 DEF RegisterProviders, FoldLeft, MapThenFoldSet, Offered, Entry
<1> DEFINE chain == [i \in 0 .. n |-> g[1 .. i]]
<1>7. chain[0] = d
  <2>1. chain[0] = g[{}] /\ {} \in SUBSET (1 .. n)
    BY <1>1
  <2> HIDE DEF g
  <2> QED
    BY <1>5, <2>1
<1>8. ASSUME NEW i \in 1 .. n PROVE chain[i] = Offered(chain[i - 1], pack, offers[i])
  <2>1. n \in Nat /\ i \in 1 .. n
    BY <1>1
  <2>2. /\ 1 .. i \in SUBSET (1 .. n) /\ 1 .. i # {}
        /\ i - 1 \in 0 .. n /\ i \in 0 .. n
        /\ Max(1 .. i) = i /\ (1 .. i) \ {i} = 1 .. i - 1
    <3> HIDE DEF n, g
    <3> QED
      BY <2>1, MaxOfPrefix
  <2> HIDE DEF g
  <2>3. g[1 .. i] = Offered(g[1 .. i - 1], pack, offers[i])
    BY <1>5, <2>2
  <2> QED
    BY <2>2, <2>3
<1>9. chain \in [0 .. n -> Outcomes(P)]
  <2> DEFINE S == {i \in 0 .. n : chain[i] \in Outcomes(P)}
  <2> HIDE DEF chain
  <2>1. 0 \in S
    <3>1. 0 \in 0 .. n /\ chain[0] \in Outcomes(P)
      BY <1>1, <1>7, <1>11
    <3> HIDE DEF n
    <3> QED
      BY <3>1
  <2>2. ASSUME NEW i \in 1 .. n, i - 1 \in S PROVE i \in S
    <3>1. chain[i - 1] \in Outcomes(P)
      BY <2>2
    <3>2. Offered(chain[i - 1], pack, offers[i]) \in Outcomes(P)
      BY <1>12, <3>1
    <3> QED
      BY <1>8, <3>2
  <2>3. 0 .. n \subseteq S
    <3> HIDE DEF S, n
    <3> QED
      BY <1>1, <2>1, <2>2, NumbersUpTo
  <2>4. \A i \in 0 .. n : chain[i] \in Outcomes(P)
    BY <2>3
  <2> QED
    BY <2>4 DEF chain
<1>10. chain[n] = g[1 .. n]
  BY <1>1
<1> HIDE DEF g, chain
<1>13. IsRegistration(chain, P, before, pack, offers)
  BY <1>1, <1>6, <1>7, <1>8, <1>9, <1>10 DEF IsRegistration
<1> QED
  BY <1>13

\* One offer keeps the ids apart, only adds to the lists, and if it is accepted
\* it is there.
LEMMA OfferedKeeps ==
  ASSUME NEW P, NEW done \in Outcomes(P), NEW pack, NEW offer, IsOffer(offer, pack, P),
         NoIdTwice(done.held)
  PROVE  /\ NoIdTwice(Offered(done, pack, offer).held)
         /\ Extends(Offered(done, pack, offer).held, done.held)
         /\ Offered(done, pack, offer).ok =>
               /\ done.ok /\ offer # NullProvider /\ RegistryOf(offer.kind) \in Kinds
               /\ Holds(Offered(done, pack, offer).held, pack, offer)
<1>1. done.held \in [Kinds -> Seq(P)]
  BY DEF Outcomes
<1>2. CASE ~ done.ok \/ ~ Registrable(done.held, offer)
  <2>1. /\ Offered(done, pack, offer) \in Outcomes(P)
        /\ Offered(done, pack, offer).ok = FALSE
        /\ Offered(done, pack, offer).held = done.held
    <3>1. Offered(done, pack, offer) = [done EXCEPT !.ok = FALSE]
      BY <1>2 DEF Offered
    <3> QED
      BY <3>1 DEF Outcomes
  <2>2. \A kind \in Kinds : Len(done.held[kind]) \in Nat
    BY <1>1
  <2> QED
    BY <2>1, <2>2 DEF Extends
<1>3. CASE done.ok /\ Registrable(done.held, offer)
  <2> DEFINE k == RegistryOf(offer.kind)
             e == Entry(pack, offer)
             old == done.held
             new == Offered(done, pack, offer).held
  <2>1. /\ k \in Kinds
        /\ new[k] = Append(old[k], e)
        /\ \A kind \in Kinds : kind # k => new[kind] = old[kind]
    BY <1>3, AcceptedOffer
  <2>2. e \in P /\ e.id = offer.id /\ e.pack = pack
    BY <1>3 DEF IsOffer, Entry, Registrable
  <2>3. e.id \notin Ids(old[k]) /\ offer # NullProvider
    BY <1>3, <2>2 DEF Registrable
  <2> HIDE DEF k, e, old, new
  <2>4. old \in [Kinds -> Seq(P)]
    BY <1>1 DEF old
  <2>5. /\ Len(old[k]) \in Nat /\ DOMAIN old[k] = 1 .. Len(old[k])
        /\ DOMAIN new[k] = 1 .. (Len(old[k]) + 1) /\ Len(new[k]) = Len(old[k]) + 1
        /\ \A i \in 1 .. Len(old[k]) : new[k][i] = old[k][i]
        /\ new[k][Len(old[k]) + 1] = e
    <3>1. old[k] \in Seq(P)
      BY <2>1, <2>4
    <3> QED
      BY <2>1, <2>2, <3>1
  <2>6. \A i \in DOMAIN old[k] : old[k][i].id # e.id
    BY <2>3 DEF Ids
  <2>7. NoIdTwice(new)
    <3> SUFFICES ASSUME NEW kind \in Kinds, NEW i \in DOMAIN new[kind],
                        NEW j \in DOMAIN new[kind], new[kind][i].id = new[kind][j].id
                 PROVE  i = j
      BY DEF NoIdTwice
    <3>1. NoIdTwice(old)
      BY DEF old
    <3>2. CASE kind # k
      BY <2>1, <3>1, <3>2 DEF NoIdTwice
    <3>3. CASE kind = k
      <4>1. \A p \in DOMAIN new[k] : p \in DOMAIN old[k] \/ p = Len(old[k]) + 1
        BY <2>5
      <4>2. \A p, q \in DOMAIN old[k] : old[k][p].id = old[k][q].id => p = q
        BY <2>1, <3>1 DEF NoIdTwice
      <4>3. \A p \in DOMAIN old[k] : new[k][p] = old[k][p]
        BY <2>5
      <4>4. CASE i \in DOMAIN old[k] /\ j \in DOMAIN old[k]
        BY <3>3, <4>2, <4>3, <4>4
      <4>5. CASE i = Len(old[k]) + 1 /\ j \in DOMAIN old[k]
        BY <2>5, <2>6, <3>3, <4>3, <4>5
      <4>6. CASE j = Len(old[k]) + 1 /\ i \in DOMAIN old[k]
        BY <2>5, <2>6, <3>3, <4>3, <4>6
      <4> QED
        BY <3>3, <4>1, <4>4, <4>5, <4>6
    <3> QED
      BY <3>2, <3>3
  <2>8. Extends(new, old)
    <3>1. ASSUME NEW kind \in Kinds, kind # k
          PROVE  new[kind] = old[kind] /\ Len(old[kind]) \in Nat
      BY <2>1, <2>4, <3>1
    <3> QED
      BY <2>5, <3>1 DEF Extends
  <2>9. Holds(new, pack, offer)
    <3>1. Len(old[k]) + 1 \in DOMAIN new[k]
      BY <2>5
    <3>2. new[k][Len(old[k]) + 1].pack = pack /\ new[k][Len(old[k]) + 1].id = offer.id
      BY <2>2, <2>5
    <3> QED
      BY <3>1, <3>2 DEF Holds, k
  <2> QED
    BY <1>3, <2>1, <2>3, <2>7, <2>8, <2>9 DEF new, old, k
<1> QED
  BY <1>2, <1>3

\* Growing is transitive, and what the registry holds it keeps.
LEMMA ExtendsTwice ==
  ASSUME NEW P, NEW a \in [Kinds -> Seq(P)], NEW b \in [Kinds -> Seq(P)],
         NEW c \in [Kinds -> Seq(P)], Extends(b, a), Extends(c, b)
  PROVE  Extends(c, a)
<1> SUFFICES ASSUME NEW kind \in Kinds
             PROVE  /\ Len(a[kind]) <= Len(c[kind])
                    /\ \A i \in 1 .. Len(a[kind]) : c[kind][i] = a[kind][i]
  BY DEF Extends
<1>1. Len(a[kind]) \in Nat /\ Len(b[kind]) \in Nat /\ Len(c[kind]) \in Nat
  OBVIOUS
<1>2. /\ Len(a[kind]) <= Len(b[kind]) /\ Len(b[kind]) <= Len(c[kind])
      /\ \A i \in 1 .. Len(a[kind]) : b[kind][i] = a[kind][i]
      /\ \A i \in 1 .. Len(b[kind]) : c[kind][i] = b[kind][i]
  BY DEF Extends
<1>3. \A i \in 1 .. Len(a[kind]) : i \in 1 .. Len(b[kind])
  BY <1>1, <1>2
<1> QED
  BY <1>1, <1>2, <1>3

LEMMA HoldsStill ==
  ASSUME NEW P, NEW a \in [Kinds -> Seq(P)], NEW b \in [Kinds -> Seq(P)], Extends(b, a),
         NEW pack, NEW offer, RegistryOf(offer.kind) \in Kinds, Holds(a, pack, offer)
  PROVE  Holds(b, pack, offer)
<1> DEFINE k == RegistryOf(offer.kind)
<1>1. PICK i \in DOMAIN a[k] : a[k][i].pack = pack /\ a[k][i].id = offer.id
  BY DEF Holds
<1>2. a[k] \in Seq(P) /\ b[k] \in Seq(P)
  OBVIOUS
<1>3. /\ DOMAIN a[k] = 1 .. Len(a[k]) /\ DOMAIN b[k] = 1 .. Len(b[k])
      /\ Len(a[k]) \in Nat /\ Len(b[k]) \in Nat
  BY <1>2
<1>4. Len(a[k]) <= Len(b[k]) /\ b[k][i] = a[k][i]
  BY <1>1, <1>3 DEF Extends
<1>5. i \in DOMAIN b[k]
  BY <1>1, <1>3, <1>4
<1> HIDE DEF k
<1>6. b[k][i].pack = pack /\ b[k][i].id = offer.id
  BY <1>1, <1>4
<1> QED
  BY <1>5, <1>6 DEF Holds, k

(***************************************************************************)
(* A registration keeps the ids apart and only adds to the lists; when no  *)
(* offer was refused, all of them are there.                               *)
(***************************************************************************)
LEMMA RegistrationKeeps ==
  ASSUME NEW P, NEW before \in [Kinds -> Seq(P)], NEW pack, NEW offers,
         Len(offers) \in Nat, DOMAIN offers = 1 .. Len(offers),
         \A i \in DOMAIN offers : IsOffer(offers[i], pack, P),
         NoIdTwice(before)
  PROVE  /\ RegisterProviders(before, pack, offers) \in Outcomes(P)
         /\ NoIdTwice(RegisterProviders(before, pack, offers).held)
         /\ Extends(RegisterProviders(before, pack, offers).held, before)
         /\ RegisterProviders(before, pack, offers).ok =>
               \A i \in DOMAIN offers :
                  /\ offers[i] # NullProvider /\ RegistryOf(offers[i].kind) \in Kinds
                  /\ Holds(RegisterProviders(before, pack, offers).held, pack, offers[i])
<1> DEFINE n == Len(offers)
<1>0. PICK chain : IsRegistration(chain, P, before, pack, offers)
  BY RegistrationChain
<1>1. /\ chain \in [0 .. n -> Outcomes(P)]
      /\ chain[0] = [ok |-> TRUE, held |-> before]
      /\ \A i \in 1 .. n : chain[i] = Offered(chain[i - 1], pack, offers[i])
      /\ chain[n] = RegisterProviders(before, pack, offers)
  BY <1>0 DEF IsRegistration
<1> DEFINE Kept(m) ==
             /\ NoIdTwice(chain[m].held)
             /\ Extends(chain[m].held, before)
             /\ chain[m].ok => \A i \in 1 .. m :
                   /\ offers[i] # NullProvider /\ RegistryOf(offers[i].kind) \in Kinds
                   /\ Holds(chain[m].held, pack, offers[i])
           S == {m \in 0 .. n : Kept(m)}
<1>2. n \in Nat /\ 0 \in 0 .. n /\ n \in 0 .. n
  OBVIOUS
<1>3. Kept(0)
  <2>1. chain[0].held = before /\ 1 .. 0 = {}
    BY <1>1
  <2>2. \A kind \in Kinds : Len(before[kind]) \in Nat
    OBVIOUS
  <2> QED
    BY <2>1, <2>2 DEF Extends
<1>4. ASSUME NEW m \in 1 .. n, Kept(m - 1) PROVE Kept(m)
  <2> DEFINE was == chain[m - 1]
             is == chain[m]
             offer == offers[m]
  <2>1. /\ m - 1 \in 0 .. n /\ m \in 0 .. n /\ m \in DOMAIN offers
        /\ \A i \in 1 .. m : i \in 1 .. (m - 1) \/ i = m
    OBVIOUS
  <2>2. was \in Outcomes(P) /\ is \in Outcomes(P) /\ is = Offered(was, pack, offer)
    BY <1>1, <2>1
  <2>3. was.held \in [Kinds -> Seq(P)] /\ is.held \in [Kinds -> Seq(P)]
    BY <2>2 DEF Outcomes
  <2>4. IsOffer(offer, pack, P)
    BY <2>1
  <2>5. NoIdTwice(was.held) /\ Extends(was.held, before)
    BY <1>4
  <2> HIDE DEF n, was, is, offer
  <2>6. /\ NoIdTwice(is.held)
        /\ Extends(is.held, was.held)
        /\ is.ok => /\ was.ok /\ offer # NullProvider /\ RegistryOf(offer.kind) \in Kinds
                    /\ Holds(is.held, pack, offer)
    BY <2>2, <2>4, <2>5, OfferedKeeps
  <2>7. Extends(is.held, before)
    BY <2>3, <2>5, <2>6, ExtendsTwice
  <2>8. ASSUME is.ok, NEW i \in 1 .. m
        PROVE  /\ offers[i] # NullProvider /\ RegistryOf(offers[i].kind) \in Kinds
               /\ Holds(is.held, pack, offers[i])
    <3>1. CASE i = m
      BY <2>6, <2>8, <3>1 DEF offer
    <3>2. CASE i \in 1 .. (m - 1)
      <4>1. /\ offers[i] # NullProvider /\ RegistryOf(offers[i].kind) \in Kinds
            /\ Holds(was.held, pack, offers[i])
        BY <1>4, <2>6, <2>8, <3>2 DEF was
      <4>2. Holds(is.held, pack, offers[i])
        BY <2>3, <2>6, <4>1, HoldsStill
      <4> QED
        BY <4>1, <4>2
    <3> QED
      BY <2>1, <3>1, <3>2
  <2> QED
    BY <2>6, <2>7, <2>8 DEF is
<1>5. 0 .. n \subseteq S
  <2>1. 0 \in S
    BY <1>2, <1>3
  <2>2. \A i \in 1 .. n : i - 1 \in S => i \in S
    <3>1. \A i \in 1 .. n : i \in 0 .. n
      BY <1>2
    <3> HIDE DEF n, Kept
    <3> QED
      BY <1>4, <3>1
  <2> HIDE DEF S, n
  <2> QED
    BY <1>2, <2>1, <2>2, NumbersUpTo
<1>6. Kept(n)
  <2> HIDE DEF n, Kept
  <2> QED
    BY <1>2, <1>5
<1>7. chain[n] \in Outcomes(P)
  BY <1>1, <1>2
<1> QED
  BY <1>1, <1>6, <1>7

-----------------------------------------------------------------------------
(* The packs and the registry. *)

Packs == alive \ {App}

\* What the lists of the registry have in them, and that they are lists.
HeldBy(held) == UNION {Range(held[kind]) : kind \in Kinds}

AreLists(held) == held \in [Kinds -> Seq(HeldBy(held))]

\* The living packs are those of the manifests in the registry, one of each.
OnePackEach ==
    /\ IsFiniteSet(DOMAIN registered)
    /\ \A pack \in Packs : pack[2] \in DOMAIN registered
    /\ \A id \in DOMAIN registered : \E pack \in Packs : pack[2] = id
    /\ \A pack, other \in Packs : pack[2] = other[2] => pack = other

\* The registry has all that a living pack offers.
PackIsWhole(pack) ==
    /\ pack[2] \in DOMAIN Factories /\ Factories[pack[2]] # NullPack
    /\ \A i \in DOMAIN Factories[pack[2]] :
          /\ Factories[pack[2]][i] # NullProvider
          /\ Holds(providers, pack, Factories[pack[2]][i])

RegistryInv ==
    /\ AreLists(providers) /\ NoIdTwice(providers)
    /\ OnePackEach
    /\ \A id \in DOMAIN registered : Compatible(registered[id])
    /\ \A pack \in Packs : PackIsWhole(pack)

\* What is a list of anything is a list of what is in it.
LEMMA ListsOfTheirOwn ==
  ASSUME NEW P, NEW held \in [Kinds -> Seq(P)]
  PROVE  AreLists(held)
<1>1. ASSUME NEW kind \in Kinds PROVE held[kind] \in Seq(HeldBy(held))
  <2>1. held[kind] \in Seq(P)
    OBVIOUS
  <2>2. Range(held[kind]) \subseteq HeldBy(held)
    BY DEF HeldBy
  <2>3. \A i \in 1 .. Len(held[kind]) : held[kind][i] \in HeldBy(held)
    BY <2>1, <2>2 DEF Range
  <2> DEFINE l == held[kind]
             H == HeldBy(held)
  <2>4. Len(l) \in Nat /\ l = [i \in 1 .. Len(l) |-> l[i]]
    BY <2>1
  <2> HIDE DEF l, H
  <2>5. l \in [1 .. Len(l) -> H]
    BY <2>3, <2>4 DEF l, H
  <2>6. l \in Seq(H)
    BY <2>4, <2>5
  <2> QED
    BY <2>6 DEF l, H
<1> QED
  BY <1>1 DEF AreLists

\* What a registration may add.
Additions(held, pack, offers) ==
    HeldBy(held) \cup {Entry(pack, offers[i]) : i \in DOMAIN offers}

(***************************************************************************)
(* A registration of what the application or a factory offers.             *)
(***************************************************************************)
LEMMA RegistrationOf ==
  ASSUME NEW before, AreLists(before), NoIdTwice(before), NEW pack, NEW offers,
         Len(offers) \in Nat, DOMAIN offers = 1 .. Len(offers),
         \A i \in DOMAIN offers :
            offers[i] # NullProvider => RegistryOf(offers[i].kind) \in Kinds
  PROVE  /\ AreLists(RegisterProviders(before, pack, offers).held)
         /\ NoIdTwice(RegisterProviders(before, pack, offers).held)
         /\ Extends(RegisterProviders(before, pack, offers).held, before)
         /\ RegisterProviders(before, pack, offers).ok \in BOOLEAN
         /\ RegisterProviders(before, pack, offers).ok =>
               \A i \in DOMAIN offers :
                  /\ offers[i] # NullProvider /\ RegistryOf(offers[i].kind) \in Kinds
                  /\ Holds(RegisterProviders(before, pack, offers).held, pack, offers[i])
         /\ \A other, offer : RegistryOf(offer.kind) \in Kinds /\ Holds(before, other, offer) =>
               Holds(RegisterProviders(before, pack, offers).held, other, offer)
<1> DEFINE P == Additions(before, pack, offers)
           done == RegisterProviders(before, pack, offers)
<1>1. before \in [Kinds -> Seq(P)]
  <2>1. HeldBy(before) \subseteq P
    BY DEF Additions
  <2>2. \A kind \in Kinds : before[kind] \in Seq(HeldBy(before))
    BY DEF AreLists
  <2> HIDE DEF P
  <2>3. \A kind \in Kinds : before[kind] \in Seq(P)
    BY <2>1, <2>2
  <2> QED
    BY <2>3 DEF AreLists
<1>2. \A i \in DOMAIN offers : IsOffer(offers[i], pack, P)
  BY DEF IsOffer, Additions
<1> HIDE DEF P
<1>3. /\ RegisterProviders(before, pack, offers) \in Outcomes(P)
      /\ NoIdTwice(RegisterProviders(before, pack, offers).held)
      /\ Extends(RegisterProviders(before, pack, offers).held, before)
      /\ RegisterProviders(before, pack, offers).ok =>
            \A i \in DOMAIN offers :
               /\ offers[i] # NullProvider /\ RegistryOf(offers[i].kind) \in Kinds
               /\ Holds(RegisterProviders(before, pack, offers).held, pack, offers[i])
  BY <1>1, <1>2, RegistrationKeeps
<1> HIDE DEF done
<1>4. done.held \in [Kinds -> Seq(P)] /\ done.ok \in BOOLEAN
  BY <1>3 DEF Outcomes, done
<1>5. AreLists(done.held)
  BY <1>4, ListsOfTheirOwn
<1>6. ASSUME NEW other, NEW offer, RegistryOf(offer.kind) \in Kinds, Holds(before, other, offer)
      PROVE  Holds(done.held, other, offer)
  <2>1. Extends(done.held, before)
    BY <1>3 DEF done
  <2> QED
    BY <1>1, <1>4, <1>6, <2>1, HoldsStill
<1> QED
  BY <1>3, <1>4, <1>5, <1>6 DEF done

(***************************************************************************)
(* Before any pack, the registry has what the application registered.      *)
(***************************************************************************)
LEMMA InitRegistry ==
  ASSUME Init
  PROVE  RegistryInv
<1> DEFINE none == [kind \in Kinds |-> << >>]
<1>1. AreLists(none) /\ NoIdTwice(none)
  <2>1. none \in [Kinds -> Seq({})]
    OBVIOUS
  <2>2. \A kind \in Kinds : DOMAIN none[kind] = {}
    OBVIOUS
  <2> HIDE DEF none
  <2> QED
    BY <2>1, <2>2, ListsOfTheirOwn DEF NoIdTwice
<1>2. /\ providers = RegisterProviders(none, App, AppProviders).held
      /\ registered = << >> /\ alive = {App}
  BY DEF Init
<1> HIDE DEF none
<1>3. /\ Len(AppProviders) \in Nat /\ DOMAIN AppProviders = 1 .. Len(AppProviders)
      /\ \A i \in DOMAIN AppProviders :
            AppProviders[i] # NullProvider => RegistryOf(AppProviders[i].kind) \in Kinds
  BY OffersAreLists
<1>4. AreLists(providers) /\ NoIdTwice(providers)
  BY <1>1, <1>2, <1>3, RegistrationOf
<1>5. Packs = {}
  BY <1>2 DEF Packs
<1>6. DOMAIN registered = {}
  BY <1>2
<1>7. OnePackEach
  BY <1>5, <1>6, FS_EmptySet DEF OnePackEach
<1> QED
  BY <1>4, <1>5, <1>6, <1>7 DEF RegistryInv

\* What becomes of the registry when a pack registers itself: whatever was
\* whole stays whole, and if nothing was refused, so is the pack.
LEMMA CandidateRegisters ==
  ASSUME Inv, RegistryInv, phase = "loading", todo # << >>, Refusal = "none"
  PROVE  /\ AreLists(Registration.held) /\ NoIdTwice(Registration.held)
         /\ Extends(Registration.held, providers)
         /\ Compatible(Manifest(Candidate))
         /\ Candidate \notin DOMAIN registered /\ Candidate \in DOMAIN Factories
         /\ Factories[Candidate] # NullPack
         /\ Registration.ok => \A i \in DOMAIN Factories[Candidate] :
               /\ Factories[Candidate][i] # NullProvider
               /\ Holds(Registration.held, Pack, Factories[Candidate][i])
         /\ \A other, offer : RegistryOf(offer.kind) \in Kinds /\ Holds(providers, other, offer) =>
               Holds(Registration.held, other, offer)
<1>1. /\ Compatible(Manifest(Candidate))
      /\ Candidate \notin DOMAIN registered /\ Candidate \in DOMAIN Factories
      /\ Factories[Candidate] # NullPack
  BY DEF Refusal
<1> DEFINE offers == Factories[Candidate]
<1>2. /\ Len(offers) \in Nat /\ DOMAIN offers = 1 .. Len(offers)
      /\ \A i \in DOMAIN offers :
            offers[i] # NullProvider => RegistryOf(offers[i].kind) \in Kinds
  BY <1>1, OffersAreLists
<1>3. Registration = RegisterProviders(providers, Pack, offers)
  BY DEF Registration
<1>4. AreLists(providers) /\ NoIdTwice(providers)
  BY DEF RegistryInv
<1> HIDE DEF offers
<1>5. /\ AreLists(Registration.held) /\ NoIdTwice(Registration.held)
      /\ Extends(Registration.held, providers)
      /\ Registration.ok => \A i \in DOMAIN offers :
               /\ offers[i] # NullProvider
               /\ Holds(Registration.held, Pack, offers[i])
      /\ \A other, offer : RegistryOf(offer.kind) \in Kinds /\ Holds(providers, other, offer) =>
               Holds(Registration.held, other, offer)
  BY <1>2, <1>3, <1>4, RegistrationOf
<1> QED
  BY <1>1, <1>5 DEF offers

\* A whole pack has factories whose offers have kinds.
LEMMA OffersOfAPack ==
  ASSUME NEW pack, PackIsWhole(pack), NEW i \in DOMAIN Factories[pack[2]]
  PROVE  /\ RegistryOf(Factories[pack[2]][i].kind) \in Kinds
         /\ Holds(providers, pack, Factories[pack[2]][i])
BY OffersAreLists DEF PackIsWhole

(***************************************************************************)
(* A pack that fails half-way takes nothing away; one that is loaded is    *)
(* whole.                                                                  *)
(***************************************************************************)
LEMMA FailRegistrationKeepsRegistry ==
  ASSUME Inv, RegistryInv, FailRegistration
  PROVE  RegistryInv'
<1>1. /\ phase = "loading" /\ todo # << >> /\ Refusal = "none"
      /\ providers' = Registration.held
      /\ UNCHANGED << registered, alive >>
  BY DEF FailRegistration
<1>2. /\ AreLists(Registration.held) /\ NoIdTwice(Registration.held)
      /\ \A other, offer : RegistryOf(offer.kind) \in Kinds /\ Holds(providers, other, offer) =>
               Holds(Registration.held, other, offer)
  BY <1>1, CandidateRegisters
<1>3. AreLists(providers)' /\ NoIdTwice(providers)'
  BY <1>1, <1>2 DEF AreLists, NoIdTwice, HeldBy
<1>4. Packs' = Packs /\ OnePackEach'
  BY <1>1 DEF RegistryInv, OnePackEach, Packs
<1>5. ASSUME NEW pack \in Packs PROVE PackIsWhole(pack)'
  <2>1. PackIsWhole(pack)
    BY DEF RegistryInv
  <2>2. \A i \in DOMAIN Factories[pack[2]] : Holds(providers', pack, Factories[pack[2]][i])
    BY <1>1, <1>2, <2>1, OffersOfAPack
  <2> QED
    BY <2>1, <2>2 DEF PackIsWhole, Holds
<1>6. \A id \in DOMAIN registered' : Compatible(registered'[id])
  BY <1>1 DEF RegistryInv
<1> QED
  BY <1>3, <1>4, <1>5, <1>6 DEF RegistryInv, Compatible

LEMMA LoadPackKeepsRegistry ==
  ASSUME Inv, RegistryInv, LoadPack
  PROVE  RegistryInv'
<1>1. /\ phase = "loading" /\ todo # << >> /\ Refusal = "none" /\ Registration.ok
      /\ providers' = Registration.held
      /\ registered' = [id \in DOMAIN registered \cup {Candidate} |->
                           IF id = Candidate THEN Manifest(Candidate) ELSE registered[id]]
      /\ alive' = alive \cup {Pack}
  BY DEF LoadPack
<1>2. /\ AreLists(Registration.held) /\ NoIdTwice(Registration.held)
      /\ Compatible(Manifest(Candidate))
      /\ Candidate \notin DOMAIN registered /\ Candidate \in DOMAIN Factories
      /\ Factories[Candidate] # NullPack
      /\ Registration.ok => \A i \in DOMAIN Factories[Candidate] :
               /\ Factories[Candidate][i] # NullProvider
               /\ Holds(Registration.held, Pack, Factories[Candidate][i])
      /\ \A other, offer : RegistryOf(offer.kind) \in Kinds /\ Holds(providers, other, offer) =>
               Holds(Registration.held, other, offer)
  BY <1>1, CandidateRegisters
<1>3. AreLists(providers)' /\ NoIdTwice(providers)'
  BY <1>1, <1>2 DEF AreLists, NoIdTwice, HeldBy
<1>4. Pack[2] = Candidate /\ Pack # App
  <2>1. loads \in Nat /\ loads # 0
    BY <1>1 DEF Inv
  <2> QED
    BY <2>1 DEF Pack, App
<1>5. Packs' = Packs \cup {Pack}
  BY <1>1, <1>4 DEF Packs
<1>6. DOMAIN registered' = DOMAIN registered \cup {Candidate}
  BY <1>1
<1>7. OnePackEach'
  <2>1. OnePackEach
    BY DEF RegistryInv
  <2>2. IsFiniteSet(DOMAIN registered')
    BY <1>6, <2>1, FS_AddElement DEF OnePackEach
  <2>3. \A pack \in Packs : pack[2] \in DOMAIN registered /\ pack[2] # Candidate
    BY <1>2, <2>1 DEF OnePackEach
  <2>4. \A pack \in Packs' : pack[2] \in DOMAIN registered'
    BY <1>4, <1>5, <1>6, <2>3
  <2>5. \A id \in DOMAIN registered' : \E pack \in Packs' : pack[2] = id
    BY <1>4, <1>5, <1>6, <2>1 DEF OnePackEach
  <2>6. \A pack, other \in Packs' : pack[2] = other[2] => pack = other
    BY <1>4, <1>5, <2>1, <2>3 DEF OnePackEach
  <2> QED
    BY <2>2, <2>4, <2>5, <2>6 DEF OnePackEach
<1>8. ASSUME NEW id \in DOMAIN registered' PROVE Compatible(registered'[id])
  <2>1. CASE id = Candidate
    <3>1. registered'[id] = Manifest(Candidate)
      BY <1>1, <1>6, <2>1
    <3> QED
      BY <1>2, <3>1
  <2>2. CASE id # Candidate
    <3>1. id \in DOMAIN registered /\ registered'[id] = registered[id]
      BY <1>1, <1>6, <2>2
    <3> QED
      BY <3>1 DEF RegistryInv
  <2> QED
    BY <2>1, <2>2
<1>9. ASSUME NEW pack \in Packs PROVE PackIsWhole(pack)'
  <2>1. PackIsWhole(pack)
    BY DEF RegistryInv
  <2>2. \A i \in DOMAIN Factories[pack[2]] : Holds(providers', pack, Factories[pack[2]][i])
    BY <1>1, <1>2, <2>1, OffersOfAPack
  <2> QED
    BY <2>1, <2>2 DEF PackIsWhole, Holds
<1>10. ASSUME NEW pack \in {Pack} PROVE PackIsWhole(pack)'
  <2> DEFINE offers == Factories[Candidate]
  <2>1. pack[2] = Candidate /\ pack = Pack
    BY <1>4
  <2>2. \A i \in DOMAIN offers : offers[i] # NullProvider /\ Holds(providers', pack, offers[i])
    BY <1>1, <1>2, <2>1
  <2> QED
    BY <1>2, <2>1, <2>2 DEF PackIsWhole, Holds
<1> QED
  BY <1>3, <1>5, <1>7, <1>8, <1>9, <1>10 DEF RegistryInv, Compatible

(***************************************************************************)
(* Nothing else touches the registry.                                      *)
(***************************************************************************)
LEMMA RestKeepsRegistry ==
  ASSUME RegistryInv, UNCHANGED registryVars
  PROVE  RegistryInv'
<1>1. UNCHANGED << registered, providers, alive >>
  BY DEF registryVars
<1>2. Packs' = Packs
  BY <1>1 DEF Packs
<1>3. AreLists(providers)' /\ NoIdTwice(providers)'
  BY <1>1 DEF RegistryInv, AreLists, NoIdTwice, HeldBy
<1>4. OnePackEach'
  BY <1>1, <1>2 DEF RegistryInv, OnePackEach
<1>5. \A pack \in Packs : PackIsWhole(pack)'
  BY <1>1 DEF RegistryInv, PackIsWhole, Holds
<1> QED
  BY <1>1, <1>2, <1>3, <1>4, <1>5 DEF RegistryInv, Compatible

\* One step, for the theorem.
LEMMA StepKeepsRegistry ==
  ASSUME Inv, RegistryInv, [Next]_vars
  PROVE  RegistryInv'
<1>1. CASE FailRegistration
  BY <1>1, FailRegistrationKeepsRegistry
<1>2. CASE LoadPack
  BY <1>2, LoadPackKeepsRegistry
<1>3. CASE UNCHANGED registryVars
  BY <1>3, RestKeepsRegistry
<1>4. CASE LoadFromDirectory \/ SkipRuleFile \/ DiscoverManifest \/ StartOrdering
  BY <1>3, <1>4 DEF LoadFromDirectory, SkipRuleFile, DiscoverManifest, StartOrdering
<1>5. CASE Dequeue \/ FinishOrdering \/ RejectPack \/ ReturnResult \/ Crash
  BY <1>3, <1>5 DEF Dequeue, FinishOrdering, RejectPack, ReturnResult, Crash
<1>6. CASE RebuildSchemas \/ ViewSchema \/ RebuildTypes \/ RebuildSemantics \/ RebuildActions
  BY <1>3, <1>6 DEF RebuildSchemas, ViewSchema, RebuildTypes, RebuildSemantics, RebuildActions
<1>7. CASE UNCHANGED vars
  BY <1>3, <1>7 DEF vars
<1> QED
  BY <1>1, <1>2, <1>4, <1>5, <1>6, <1>7 DEF Next

(***************************************************************************)
(* A list without repetitions of its ids has as many ids as entries.       *)
(***************************************************************************)
LEMMA IdsAreCounted ==
  ASSUME NEW S, NEW list \in Seq(S),
         \A i, j \in DOMAIN list : list[i].id = list[j].id => i = j
  PROVE  Cardinality(Ids(list)) = Len(list)
<1> DEFINE f == [i \in 1 .. Len(list) |-> list[i].id]
<1>1. Len(list) \in Nat /\ DOMAIN list = 1 .. Len(list)
  OBVIOUS
<1>2. f \in Bijection(1 .. Len(list), Ids(list))
  <2>1. f \in [1 .. Len(list) -> Ids(list)]
    BY <1>1 DEF Ids
  <2>2. \A x \in Ids(list) : \E i \in 1 .. Len(list) : f[i] = x
    BY <1>1 DEF Ids
  <2>3. IsInjective(f)
    BY <1>1 DEF IsInjective
  <2> QED
    BY <2>1, <2>2, <2>3 DEF Bijection, Injection, Surjection
<1> HIDE DEF f
<1>3. ExistsBijection(1 .. Len(list), Ids(list))
  BY <1>2 DEF ExistsBijection
<1> QED
  BY <1>1, <1>3, FS_CountingElements

(***************************************************************************)
(* The invariant says what is promised.                                    *)
(***************************************************************************)
LEMMA RegistryIsComplete ==
  ASSUME RegistryInv
  PROVE  LoadedPacksComplete
<1>1. {pack[2] : pack \in Packs} = DOMAIN registered
  BY DEF RegistryInv, OnePackEach
<1>2. Cardinality(Packs) = Cardinality(DOMAIN registered)
  <2> DEFINE f == [pack \in Packs |-> pack[2]]
  <2>1. f \in Bijection(Packs, DOMAIN registered)
    <3>1. f \in [Packs -> DOMAIN registered]
      BY DEF RegistryInv, OnePackEach
    <3>2. \A id \in DOMAIN registered : \E pack \in Packs : f[pack] = id
      BY DEF RegistryInv, OnePackEach
    <3>3. IsInjective(f)
      BY DEF IsInjective, RegistryInv, OnePackEach
    <3> QED
      BY <3>1, <3>2, <3>3 DEF Bijection, Injection, Surjection
  <2> HIDE DEF f
  <2>2. ExistsBijection(Packs, DOMAIN registered)
    BY <2>1 DEF ExistsBijection
  <2>3. ExistsBijection(DOMAIN registered, Packs)
    BY <2>2, Fun_ExistsBijSymmetric
  <2>4. IsFiniteSet(DOMAIN registered)
    BY DEF RegistryInv, OnePackEach
  <2>5. Cardinality(DOMAIN registered) = Cardinality(Packs)
    BY <2>3, <2>4, FS_Bijection DEF ExistsBijection
  <2> QED
    BY <2>5
<1>3. \A id \in DOMAIN registered : AnalyzeManifest(CoreApi, registered[id]).rangeCompatible
  BY DEF RegistryInv, Compatible, AnalyzeManifest
<1>4. ASSUME NEW pack \in Packs, NEW offer \in Range(Factories[pack[2]])
      PROVE  Cardinality({i \in DOMAIN providers[RegistryOf(offer.kind)] :
                LET held == providers[RegistryOf(offer.kind)][i]
                IN  held.pack = pack /\ held.id = offer.id}) = 1
  <2>1. PackIsWhole(pack)
    BY DEF RegistryInv
  <2>2. PICK k \in DOMAIN Factories[pack[2]] : offer = Factories[pack[2]][k]
    BY DEF Range
  <2>3. RegistryOf(offer.kind) \in Kinds /\ Holds(providers, pack, offer)
    BY <2>1, <2>2, OffersOfAPack
  <2> DEFINE list == providers[RegistryOf(offer.kind)]
  <2>4. \A i, j \in DOMAIN list : list[i].id = list[j].id => i = j
    BY <2>3 DEF RegistryInv, NoIdTwice
  <2>5. PICK i \in DOMAIN list : list[i].pack = pack /\ list[i].id = offer.id
    BY <2>3 DEF Holds
  <2>6. {j \in DOMAIN list : list[j].pack = pack /\ list[j].id = offer.id} = {i}
    BY <2>4, <2>5
  <2> QED
    BY <2>6, FS_Singleton
<1>5. ASSUME NEW kind \in Kinds
      PROVE  Cardinality(Ids(providers[kind])) = Len(providers[kind])
  <2>1. providers[kind] \in Seq(HeldBy(providers))
    BY DEF RegistryInv, AreLists
  <2>2. \A i, j \in DOMAIN providers[kind] :
           providers[kind][i].id = providers[kind][j].id => i = j
    BY DEF RegistryInv, NoIdTwice
  <2> QED
    BY <2>1, <2>2, IdsAreCounted
<1> QED
  BY <1>1, <1>2, <1>3, <1>4, <1>5 DEF LoadedPacksComplete, Packs

(***************************************************************************)
(* A manifest is in the registry exactly while its pack lives; then the    *)
(* core is in its range and each of its providers is registered once, and  *)
(* never do two providers of a kind share an id: for any directories,      *)
(* factories and providers of the application, any number of loads, and    *)
(* whatever packs are refused or fail half-way.                            *)
(***************************************************************************)
THEOREM PacksAreWhole == Spec => []LoadedPacksComplete
<1>1. Init => RegistryInv
  BY InitRegistry
<1>2. Inv /\ RegistryInv /\ [Next]_vars => RegistryInv'
  BY StepKeepsRegistry
<1>3. RegistryInv => LoadedPacksComplete
  BY RegistryIsComplete
<1> QED
  BY <1>1, <1>2, <1>3, LoaderInvariant, PTL DEF Spec

-----------------------------------------------------------------------------
(* What a service finds for a name. *)

\* The names that the first n providers of a list give.
NamesGiven(list, n) == (UNION {Range(list[i].gives) : i \in 1 .. n}) \ {Blank}

\* A service's index is that of the first n providers: for each name they give,
\* the first that gives it.
IndexesFirst(index, list, n) ==
    /\ index = [name \in DOMAIN index |-> index[name]]
    /\ DOMAIN index = NamesGiven(list, n)
    /\ \A name \in DOMAIN index : \E i \in 1 .. n :
          /\ index[name] = list[i] /\ name \in Range(list[i].gives)
          /\ \A j \in 1 .. (i - 1) : name \notin Range(list[j].gives)

LEMMA WhoseNamesAreGiven ==
  ASSUME NEW list, NEW n, NEW name
  PROVE  name \in NamesGiven(list, n) <=>
            name # Blank /\ \E i \in 1 .. n : name \in Range(list[i].gives)
<1> DEFINE all == UNION {Range(list[i].gives) : i \in 1 .. n}
<1>1. name \in all <=> \E i \in 1 .. n : name \in Range(list[i].gives)
  BY Zenon
<1>2. NamesGiven(list, n) = all \ {Blank}
  BY Zenon DEF NamesGiven
<1> HIDE DEF all
<1> QED
  BY <1>1, <1>2, Zenon

\* One provider: what FirstGiving does over and over.
WithNamesOf(index, provider) ==
    [name \in DOMAIN index \cup (Range(provider.gives) \ {Blank}) |->
        IF name \in DOMAIN index THEN index[name] ELSE provider]

\* Indexes of names to providers in P.
Indexes(names, P) == UNION {[some -> P] : some \in SUBSET names}

\* An index is one of these exactly when it is a function on some of the names.
LEMMA WhatIsAnIndex ==
  ASSUME NEW names, NEW P, NEW index
  PROVE  index \in Indexes(names, P) <=>
           /\ index = [name \in DOMAIN index |-> index[name]]
           /\ DOMAIN index \subseteq names
           /\ \A name \in DOMAIN index : index[name] \in P
<1>1. ASSUME index \in Indexes(names, P)
      PROVE  /\ index = [name \in DOMAIN index |-> index[name]]
             /\ DOMAIN index \subseteq names
             /\ \A name \in DOMAIN index : index[name] \in P
  <2>1. PICK some \in SUBSET names : index \in [some -> P]
    BY <1>1 DEF Indexes
  <2> QED
    BY <2>1
<1>2. ASSUME index = [name \in DOMAIN index |-> index[name]],
             DOMAIN index \subseteq names,
             \A name \in DOMAIN index : index[name] \in P
      PROVE  index \in Indexes(names, P)
  <2>1. index \in [DOMAIN index -> P]
    BY <1>2
  <2>2. DOMAIN index \in SUBSET names
    BY <1>2
  <2> QED
    BY <2>1, <2>2 DEF Indexes
<1> QED
  BY <1>1, <1>2

LEMMA WithNamesIsAnIndex ==
  ASSUME NEW names, NEW P, NEW index \in Indexes(names, P), NEW provider \in P,
         Range(provider.gives) \subseteq names
  PROVE  WithNamesOf(index, provider) \in Indexes(names, P)
<1> DEFINE new == WithNamesOf(index, provider)
           more == DOMAIN index \cup (Range(provider.gives) \ {Blank})
<1>1. DOMAIN index \subseteq names /\ \A name \in DOMAIN index : index[name] \in P
  BY WhatIsAnIndex
<1>2. new \in [more -> P] /\ more \in SUBSET names
  BY <1>1 DEF WithNamesOf
<1> HIDE DEF new, more
<1>3. new \in Indexes(names, P)
  BY <1>2 DEF Indexes
<1> QED
  BY <1>3 DEF new

\* The indexes that FirstGiving goes through.
IsIndexing(chain, list, names, P) ==
    /\ chain \in [0 .. Len(list) -> Indexes(names, P)]
    /\ chain[0] = << >>
    /\ \A i \in 1 .. Len(list) : chain[i] = WithNamesOf(chain[i - 1], list[i])
    /\ chain[Len(list)] = FirstGiving(list)

LEMMA IndexingChain ==
  ASSUME NEW P, NEW list \in Seq(P), NEW names,
         \A provider \in P : Range(provider.gives) \subseteq names
  PROVE  \E chain : IsIndexing(chain, list, names, P)
<1> DEFINE n == Len(list)
           T == Indexes(names, P)
           step == [x \in (1 .. n) \X T |-> WithNamesOf(x[2], list[x[1]])]
           Folds(g) == g = [s \in SUBSET (1 .. n) |->
                              IF s = {} THEN << >>
                              ELSE WithNamesOf(g[s \ {Max(s)}], list[Max(s)])]
<1>1. n \in Nat /\ DOMAIN list = 1 .. n /\ \A i \in 1 .. n : list[i] \in P
  OBVIOUS
<1>11. << >> \in T
  <2>1. << >> = [name \in DOMAIN << >> |-> << >>[name]] /\ DOMAIN << >> = {}
    OBVIOUS
  <2> QED
    BY <2>1, WhatIsAnIndex
<1>12. ASSUME NEW index \in T, NEW i \in 1 .. n
       PROVE  WithNamesOf(index, list[i]) \in T
  <2>1. list[i] \in P /\ Range(list[i].gives) \subseteq names
    BY <1>1
  <2> QED
    BY <2>1, WithNamesIsAnIndex
<1> HIDE DEF T
<1>2. step \in [(1 .. n) \X T -> T]
  BY <1>12
<1>3. PICK it \in [SUBSET (1 .. n) -> T] : IsLeftFold(it, n, << >>, step)
  <2> HIDE DEF n, step
  <2> QED
    BY <1>1, <1>2, <1>11, LeftFoldExists
<1>4. Folds(it)
  <2>1. ASSUME NEW s \in SUBSET (1 .. n), s # {}
        PROVE  step[<<Max(s), it[s \ {Max(s)}]>>] = WithNamesOf(it[s \ {Max(s)}], list[Max(s)])
    <3>1. Max(s) \in 1 .. n /\ it[s \ {Max(s)}] \in T
      <4> HIDE DEF n
      <4>1. Max(s) \in s
        BY <1>1, <2>1, MaxOfSet
      <4> QED
        BY <1>3, <4>1
    <3> HIDE DEF n
    <3> QED
      BY <3>1
  <2> HIDE DEF n, step
  <2> QED
    BY <1>3, <2>1 DEF IsLeftFold
<1> DEFINE g == CHOOSE g : Folds(g)
<1>5. Folds(g)
  <2> HIDE DEF Folds
  <2> QED
    BY <1>4
<1>6. FirstGiving(list) = g[1 .. n]
  BY <1>1 DEF FirstGiving, FoldLeft, MapThenFoldSet, WithNamesOf
<1> DEFINE chain == [i \in 0 .. n |-> g[1 .. i]]
<1>7. chain[0] = << >>
  <2>1. chain[0] = g[{}] /\ {} \in SUBSET (1 .. n)
    BY <1>1
  <2> HIDE DEF g
  <2> QED
    BY <1>5, <2>1
<1>8. ASSUME NEW i \in 1 .. n PROVE chain[i] = WithNamesOf(chain[i - 1], list[i])
  <2>1. n \in Nat /\ i \in 1 .. n
    BY <1>1
  <2>2. /\ 1 .. i \in SUBSET (1 .. n) /\ 1 .. i # {}
        /\ i - 1 \in 0 .. n /\ i \in 0 .. n
        /\ Max(1 .. i) = i /\ (1 .. i) \ {i} = 1 .. i - 1
    <3> HIDE DEF n, g
    <3> QED
      BY <2>1, MaxOfPrefix
  <2> HIDE DEF g
  <2>3. g[1 .. i] = WithNamesOf(g[1 .. i - 1], list[i])
    BY <1>5, <2>2
  <2> QED
    BY <2>2, <2>3
<1>9. chain \in [0 .. n -> T]
  <2> DEFINE S == {i \in 0 .. n : chain[i] \in T}
  <2> HIDE DEF chain
  <2>1. 0 \in S
    <3>1. 0 \in 0 .. n /\ chain[0] \in T
      BY <1>1, <1>7, <1>11
    <3> HIDE DEF n
    <3> QED
      BY <3>1
  <2>2. ASSUME NEW i \in 1 .. n, i - 1 \in S PROVE i \in S
    <3>1. chain[i - 1] \in T
      BY <2>2
    <3>2. WithNamesOf(chain[i - 1], list[i]) \in T
      BY <1>12, <3>1
    <3> QED
      BY <1>8, <3>2
  <2>3. 0 .. n \subseteq S
    <3> HIDE DEF S, n
    <3> QED
      BY <1>1, <2>1, <2>2, NumbersUpTo
  <2>4. \A i \in 0 .. n : chain[i] \in T
    BY <2>3
  <2> QED
    BY <2>4 DEF chain
<1>10. chain[n] = g[1 .. n]
  BY <1>1
<1> HIDE DEF g, chain
<1>13. IsIndexing(chain, list, names, P)
  BY <1>1, <1>6, <1>7, <1>8, <1>9, <1>10 DEF IsIndexing, T
<1> QED
  BY <1>13

\* The next provider adds the names that are new.
LEMMA NextProvider ==
  ASSUME NEW P, NEW list \in Seq(P), NEW m \in 1 .. Len(list), NEW index,
         IndexesFirst(index, list, m - 1)
  PROVE  IndexesFirst(WithNamesOf(index, list[m]), list, m)
<1> DEFINE new == WithNamesOf(index, list[m])
<1>1. m \in Nat /\ m - 1 \in Nat /\ m >= 1
  OBVIOUS
<1>2. /\ new = [name \in DOMAIN new |-> new[name]]
      /\ DOMAIN new = DOMAIN index \cup (Range(list[m].gives) \ {Blank})
      /\ \A name \in DOMAIN index : new[name] = index[name]
      /\ \A name \in DOMAIN new : name \notin DOMAIN index => new[name] = list[m]
  BY DEF WithNamesOf
<1> HIDE DEF new
<1>3. DOMAIN index = NamesGiven(list, m - 1)
  BY DEF IndexesFirst
<1>4. \A i \in 1 .. m : i \in 1 .. (m - 1) \/ i = m
  BY <1>1
<1>5. \A i \in 1 .. (m - 1) : i \in 1 .. m
  BY <1>1
<1>6. m \in 1 .. m
  BY <1>1
<1>7. DOMAIN new = NamesGiven(list, m)
  <2>1. ASSUME NEW name
        PROVE  name \in DOMAIN new <=> name \in NamesGiven(list, m)
    <3>1. name \in DOMAIN new <=>
            name \in NamesGiven(list, m - 1) \/ name \in Range(list[m].gives) \ {Blank}
      BY <1>2, <1>3
    <3>2. name \in NamesGiven(list, m - 1) <=>
            name # Blank /\ \E i \in 1 .. (m - 1) : name \in Range(list[i].gives)
      BY WhoseNamesAreGiven
    <3>3. name \in NamesGiven(list, m) <=>
            name # Blank /\ \E i \in 1 .. m : name \in Range(list[i].gives)
      BY WhoseNamesAreGiven
    <3>4. (\E i \in 1 .. m : name \in Range(list[i].gives)) <=>
            (\E i \in 1 .. (m - 1) : name \in Range(list[i].gives)) \/ name \in Range(list[m].gives)
      BY <1>4, <1>5, <1>6
    <3> QED
      BY <3>1, <3>2, <3>3, <3>4
  <2> QED
    BY <2>1
<1>8. ASSUME NEW name \in DOMAIN new
      PROVE  \E i \in 1 .. m :
                /\ new[name] = list[i] /\ name \in Range(list[i].gives)
                /\ \A j \in 1 .. (i - 1) : name \notin Range(list[j].gives)
  <2>1. CASE name \in DOMAIN index
    <3>1. PICK i \in 1 .. (m - 1) :
             /\ index[name] = list[i] /\ name \in Range(list[i].gives)
             /\ \A j \in 1 .. (i - 1) : name \notin Range(list[j].gives)
      BY <2>1 DEF IndexesFirst
    <3> QED
      BY <1>2, <1>5, <2>1, <3>1
  <2>2. CASE name \notin DOMAIN index
    <3>1. name \in Range(list[m].gives) /\ name # Blank /\ new[name] = list[m]
      BY <1>2, <2>2
    <3>2. \A j \in 1 .. (m - 1) : name \notin Range(list[j].gives)
      BY <1>3, <2>2, <3>1, WhoseNamesAreGiven
    <3> QED
      BY <1>6, <3>1, <3>2
  <2> QED
    BY <2>1, <2>2
<1>9. IndexesFirst(new, list, m)
  BY <1>2, <1>7, <1>8 DEF IndexesFirst
<1> QED
  BY <1>9 DEF new

(***************************************************************************)
(* FirstGiving is the index of the whole list.                             *)
(***************************************************************************)
LEMMA FirstGivingIsFirst ==
  ASSUME NEW P, NEW list \in Seq(P)
  PROVE  IndexesFirst(FirstGiving(list), list, Len(list))
<1> DEFINE names == UNION {Range(provider.gives) : provider \in P}
           n == Len(list)
<1>1. \A provider \in P : Range(provider.gives) \subseteq names
  OBVIOUS
<1> HIDE DEF names
<1>2. PICK chain : IsIndexing(chain, list, names, P)
  BY <1>1, IndexingChain
<1>3. /\ chain[0] = << >>
      /\ \A i \in 1 .. n : chain[i] = WithNamesOf(chain[i - 1], list[i])
      /\ chain[n] = FirstGiving(list)
  BY <1>2 DEF IsIndexing
<1>4. n \in Nat
  OBVIOUS
<1> DEFINE S == {m \in 0 .. n : IndexesFirst(chain[m], list, m)}
<1>5. 0 \in S
  <2>1. << >> = [name \in DOMAIN << >> |-> << >>[name]] /\ DOMAIN << >> = {}
    OBVIOUS
  <2>2. 1 .. 0 = {}
    OBVIOUS
  <2>3. NamesGiven(list, 0) = {}
    BY <2>2 DEF NamesGiven
  <2>4. IndexesFirst(<< >>, list, 0)
    BY <2>1, <2>3 DEF IndexesFirst
  <2> HIDE DEF n
  <2> QED
    BY <1>3, <1>4, <2>4
<1>6. ASSUME NEW m \in 1 .. n, m - 1 \in S PROVE m \in S
  <2>1. IndexesFirst(chain[m - 1], list, m - 1)
    BY <1>6
  <2>2. IndexesFirst(WithNamesOf(chain[m - 1], list[m]), list, m)
    BY <2>1, NextProvider
  <2>3. m \in 0 .. n
    OBVIOUS
  <2> QED
    BY <1>3, <2>2, <2>3
<1>7. 0 .. n \subseteq S
  <2> HIDE DEF S, n
  <2> QED
    BY <1>4, <1>5, <1>6, NumbersUpTo
<1>8. n \in S
  <2> HIDE DEF S, n
  <2> QED
    BY <1>4, <1>7
<1> QED
  BY <1>3, <1>8

\* A longer list gives the names of a shorter one the same providers.
LEMMA LongerListsOnlyAdd ==
  ASSUME NEW P, NEW list \in Seq(P), NEW n \in 0 .. Len(list), NEW m \in n .. Len(list),
         NEW old, NEW new, IndexesFirst(old, list, n), IndexesFirst(new, list, m)
  PROVE  \A name \in DOMAIN old : name \in DOMAIN new /\ new[name] = old[name]
<1> SUFFICES ASSUME NEW name \in DOMAIN old
             PROVE  name \in DOMAIN new /\ new[name] = old[name]
  OBVIOUS
<1>1. n \in Nat /\ m \in Nat /\ n <= m
  OBVIOUS
<1>2. \A i \in 1 .. n : i \in 1 .. m
  BY <1>1
<1>3. PICK i \in 1 .. n :
         /\ old[name] = list[i] /\ name \in Range(list[i].gives)
         /\ \A j \in 1 .. (i - 1) : name \notin Range(list[j].gives)
  BY DEF IndexesFirst
<1>4. name # Blank
  <2>1. name \in NamesGiven(list, n)
    BY DEF IndexesFirst
  <2> QED
    BY <2>1, WhoseNamesAreGiven
<1>5. name \in DOMAIN new
  <2>1. name \in NamesGiven(list, m)
    BY <1>2, <1>3, <1>4, WhoseNamesAreGiven
  <2> QED
    BY <2>1 DEF IndexesFirst
<1>6. PICK k \in 1 .. m :
         /\ new[name] = list[k] /\ name \in Range(list[k].gives)
         /\ \A j \in 1 .. (k - 1) : name \notin Range(list[j].gives)
  BY <1>5 DEF IndexesFirst
<1>7. i \in Nat /\ k \in Nat /\ i >= 1 /\ k >= 1
  BY <1>1
<1>8. ~ (i \in 1 .. (k - 1)) /\ ~ (k \in 1 .. (i - 1))
  BY <1>3, <1>6
<1>9. i = k
  BY <1>7, <1>8
<1> QED
  BY <1>3, <1>5, <1>6, <1>9

-----------------------------------------------------------------------------
(* What the services hold. *)

\* An index that some rebuild made of a list, which may have grown since.
Serves(index, list) == \E n \in 0 .. Len(list) : IndexesFirst(index, list, n)

ServicesInv ==
    /\ palette = types
    /\ Serves(types, providers["componentType"])
    /\ Serves(semantics, providers["execution"])
    /\ Serves(actions, providers["action"])

\* The names of one index stand for the same in another.
OnlyAdds(new, old) == \A name \in DOMAIN old : name \in DOMAIN new /\ new[name] = old[name]

\* An index stays one of a list that grows.
LEMMA ServesStill ==
  ASSUME NEW P, NEW list \in Seq(P), NEW Q, NEW longer \in Seq(Q),
         Len(list) <= Len(longer), \A i \in 1 .. Len(list) : longer[i] = list[i],
         NEW index, Serves(index, list)
  PROVE  Serves(index, longer)
<1>1. PICK n \in 0 .. Len(list) : IndexesFirst(index, list, n)
  BY DEF Serves
<1>2. Len(list) \in Nat /\ Len(longer) \in Nat /\ n \in Nat
  OBVIOUS
<1>3. n \in 0 .. Len(longer)
  BY <1>1, <1>2
<1>4. \A i \in 1 .. n : longer[i] = list[i]
  BY <1>1, <1>2
<1>5. NamesGiven(longer, n) = NamesGiven(list, n)
  <2>1. ASSUME NEW name
        PROVE  name \in NamesGiven(longer, n) <=> name \in NamesGiven(list, n)
    <3>1. /\ name \in NamesGiven(longer, n) <=>
                name # Blank /\ \E i \in 1 .. n : name \in Range(longer[i].gives)
          /\ name \in NamesGiven(list, n) <=>
                name # Blank /\ \E i \in 1 .. n : name \in Range(list[i].gives)
      BY WhoseNamesAreGiven
    <3> QED
      BY <1>4, <3>1
  <2> DEFINE A == NamesGiven(longer, n)
             B == NamesGiven(list, n)
  <2>2. \A name : name \in A <=> name \in B
    BY <2>1
  <2>3. A = (A \ {Blank}) /\ B = (B \ {Blank})
    BY DEF NamesGiven
  <2> HIDE DEF A, B
  <2>4. A = B
    BY <2>2, <2>3
  <2> QED
    BY <2>4 DEF A, B
<1>6. ASSUME NEW name \in DOMAIN index
      PROVE  \E i \in 1 .. n :
                /\ index[name] = longer[i] /\ name \in Range(longer[i].gives)
                /\ \A j \in 1 .. (i - 1) : name \notin Range(longer[j].gives)
  <2>1. PICK i \in 1 .. n :
           /\ index[name] = list[i] /\ name \in Range(list[i].gives)
           /\ \A j \in 1 .. (i - 1) : name \notin Range(list[j].gives)
    BY <1>1 DEF IndexesFirst
  <2>2. \A j \in 1 .. (i - 1) : j \in 1 .. n
    BY <1>2
  <2> QED
    BY <1>4, <2>1, <2>2
<1>7. IndexesFirst(index, longer, n)
  BY <1>1, <1>5, <1>6 DEF IndexesFirst
<1> QED
  BY <1>3, <1>7 DEF Serves

\* A rebuild only adds, and changes nothing when it adds no name.
LEMMA RebuiltOnlyAdds ==
  ASSUME NEW P, NEW list \in Seq(P), NEW old, Serves(old, list)
  PROVE  /\ Serves(FirstGiving(list), list)
         /\ OnlyAdds(FirstGiving(list), old)
         /\ DOMAIN FirstGiving(list) = DOMAIN old => FirstGiving(list) = old
<1> DEFINE new == FirstGiving(list)
           n == Len(list)
<1>1. IndexesFirst(new, list, n) /\ n \in Nat
  BY FirstGivingIsFirst
<1>2. PICK m \in 0 .. n : IndexesFirst(old, list, m)
  BY DEF Serves
<1>3. n \in m .. n /\ n \in 0 .. n
  BY <1>1, <1>2
<1>4. \A name \in DOMAIN old : name \in DOMAIN new /\ new[name] = old[name]
  <2> HIDE DEF new
  <2> QED
    BY <1>1, <1>2, <1>3, LongerListsOnlyAdd
<1>5. Serves(new, list)
  <2> HIDE DEF new
  <2> QED
    BY <1>1, <1>3 DEF Serves
<1>6. ASSUME DOMAIN new = DOMAIN old PROVE new = old
  <2>1. /\ new = [name \in DOMAIN new |-> new[name]]
        /\ old = [name \in DOMAIN old |-> old[name]]
    BY <1>1, <1>2 DEF IndexesFirst
  <2> HIDE DEF new
  <2>2. [name \in DOMAIN new |-> new[name]] = [name \in DOMAIN old |-> old[name]]
    BY <1>4, <1>6
  <2> QED
    BY <2>1, <2>2
<1> HIDE DEF new
<1> QED
  BY <1>4, <1>5, <1>6 DEF OnlyAdds, new

\* Every step leaves the registry's lists or lets them grow.
LEMMA RegistryGrows ==
  ASSUME Inv, RegistryInv, [Next]_vars
  PROVE  /\ AreLists(providers) /\ AreLists(providers')
         /\ Extends(providers', providers)
<1>1. AreLists(providers)
  BY DEF RegistryInv
<1>2. AreLists(providers')
  BY StepKeepsRegistry DEF RegistryInv, AreLists, HeldBy
<1>3. CASE FailRegistration
  <2>1. /\ phase = "loading" /\ todo # << >> /\ Refusal = "none"
        /\ providers' = Registration.held
    BY <1>3 DEF FailRegistration
  <2> QED
    BY <1>1, <1>2, <2>1, CandidateRegisters
<1>4. CASE LoadPack
  <2>1. /\ phase = "loading" /\ todo # << >> /\ Refusal = "none"
        /\ providers' = Registration.held
    BY <1>4 DEF LoadPack
  <2> QED
    BY <1>1, <1>2, <2>1, CandidateRegisters
<1>5. CASE UNCHANGED providers
  <2>1. \A kind \in Kinds : Len(providers[kind]) \in Nat
    BY <1>1 DEF AreLists
  <2> QED
    BY <1>1, <1>2, <1>5, <2>1 DEF Extends
<1>6. CASE LoadFromDirectory \/ SkipRuleFile \/ DiscoverManifest \/ StartOrdering
  BY <1>5, <1>6 DEF LoadFromDirectory, SkipRuleFile, DiscoverManifest, StartOrdering, registryVars
<1>7. CASE Dequeue \/ FinishOrdering \/ RejectPack \/ ReturnResult \/ Crash
  BY <1>5, <1>7 DEF Dequeue, FinishOrdering, RejectPack, ReturnResult, Crash, registryVars
<1>8. CASE RebuildSchemas \/ ViewSchema \/ RebuildTypes \/ RebuildSemantics \/ RebuildActions
  BY <1>5, <1>8 DEF RebuildSchemas, ViewSchema, RebuildTypes, RebuildSemantics, RebuildActions,
                    registryVars
<1>9. CASE UNCHANGED vars
  BY <1>5, <1>9 DEF vars, registryVars
<1> QED
  BY <1>3, <1>4, <1>6, <1>7, <1>8, <1>9 DEF Next

\* The list of one kind, before and after a step.
LEMMA OneListGrows ==
  ASSUME Inv, RegistryInv, [Next]_vars, NEW kind \in Kinds
  PROVE  /\ providers[kind] \in Seq(HeldBy(providers))
         /\ \A index : Serves(index, providers[kind]) => Serves(index, providers'[kind])
<1>1. /\ AreLists(providers) /\ AreLists(providers')
      /\ Extends(providers', providers)
  BY RegistryGrows
<1>2. /\ providers[kind] \in Seq(HeldBy(providers))
      /\ providers'[kind] \in Seq(HeldBy(providers'))
  BY <1>1 DEF AreLists
<1>3. /\ Len(providers[kind]) <= Len(providers'[kind])
      /\ \A i \in 1 .. Len(providers[kind]) : providers'[kind][i] = providers[kind][i]
  BY <1>1 DEF Extends
<1>4. ASSUME NEW index, Serves(index, providers[kind])
      PROVE  Serves(index, providers'[kind])
  <2> DEFINE P == HeldBy(providers)
             Q == HeldBy(providers')
             list == providers[kind]
             longer == providers'[kind]
  <2>1. /\ list \in Seq(P) /\ longer \in Seq(Q) /\ Len(list) <= Len(longer)
        /\ \A i \in 1 .. Len(list) : longer[i] = list[i]
        /\ Serves(index, list)
    BY <1>2, <1>3, <1>4
  <2> HIDE DEF P, Q, list, longer
  <2>2. Serves(index, longer)
    BY <2>1, ServesStill
  <2> QED
    BY <2>2 DEF longer
<1> QED
  BY <1>2, <1>4

\* An index only adds to itself.
LEMMA AddsNothing ==
  ASSUME NEW index
  PROVE  OnlyAdds(index, index)
BY DEF OnlyAdds

\* What a step may do to what the services hold.
ServicesOnlyAdd ==
    /\ OnlyAdds(types', types) /\ OnlyAdds(semantics', semantics) /\ OnlyAdds(actions', actions)
    /\ palette' = types'

(***************************************************************************)
(* A step is a rebuild of one service from the list it reads, or touches   *)
(* no service.                                                             *)
(***************************************************************************)
LEMMA StepOfServices ==
  ASSUME Inv, RegistryInv, ServicesInv, [Next]_vars
  PROVE  ServicesInv' /\ ServicesOnlyAdd
<1>1. "componentType" \in Kinds /\ "execution" \in Kinds /\ "action" \in Kinds
  BY DEF Kinds
<1>2. /\ palette = types
      /\ Serves(types, providers["componentType"])
      /\ Serves(semantics, providers["execution"])
      /\ Serves(actions, providers["action"])
  BY DEF ServicesInv
<1>3. /\ Serves(types, providers'["componentType"])
      /\ Serves(semantics, providers'["execution"])
      /\ Serves(actions, providers'["action"])
  BY <1>1, <1>2, OneListGrows
<1>4. CASE UNCHANGED << types, palette, semantics, actions >>
  <2>1. ServicesInv'
    BY <1>2, <1>3, <1>4 DEF ServicesInv
  <2>2. ServicesOnlyAdd
    BY <1>2, <1>4, AddsNothing DEF ServicesOnlyAdd
  <2> QED
    BY <2>1, <2>2
<1>5. CASE RebuildTypes
  <2> DEFINE list == providers["componentType"]
  <2>1. /\ types' = FirstGiving(list)
        /\ palette' = IF DOMAIN types' # DOMAIN types THEN types' ELSE palette
        /\ UNCHANGED << semantics, actions, providers >>
    BY <1>5 DEF RebuildTypes, registryVars
  <2>2. list \in Seq(HeldBy(providers))
    BY <1>1, OneListGrows
  <2> HIDE DEF list
  <2>3. /\ Serves(FirstGiving(list), list) /\ OnlyAdds(FirstGiving(list), types)
        /\ DOMAIN FirstGiving(list) = DOMAIN types => FirstGiving(list) = types
    BY <1>2, <2>2, RebuiltOnlyAdds DEF list
  <2>4. palette' = types'
    BY <1>2, <2>1, <2>3
  <2>5. Serves(types', providers'["componentType"])
    BY <2>1, <2>3 DEF list
  <2>6. ServicesInv'
    BY <1>3, <2>1, <2>4, <2>5 DEF ServicesInv
  <2>7. ServicesOnlyAdd
    BY <2>1, <2>3, <2>4, AddsNothing DEF ServicesOnlyAdd
  <2> QED
    BY <2>6, <2>7
<1>6. CASE RebuildSemantics
  <2> DEFINE list == providers["execution"]
  <2>1. /\ semantics' = FirstGiving(list)
        /\ UNCHANGED << types, palette, actions, providers >>
    BY <1>6 DEF RebuildSemantics, registryVars
  <2>2. list \in Seq(HeldBy(providers))
    BY <1>1, OneListGrows
  <2> HIDE DEF list
  <2>3. Serves(FirstGiving(list), list) /\ OnlyAdds(FirstGiving(list), semantics)
    BY <1>2, <2>2, RebuiltOnlyAdds DEF list
  <2>5. Serves(semantics', providers'["execution"])
    BY <2>1, <2>3 DEF list
  <2>6. ServicesInv'
    BY <1>2, <1>3, <2>1, <2>5 DEF ServicesInv
  <2>7. ServicesOnlyAdd
    BY <1>2, <2>1, <2>3, AddsNothing DEF ServicesOnlyAdd
  <2> QED
    BY <2>6, <2>7
<1>7. CASE RebuildActions
  <2> DEFINE list == providers["action"]
  <2>1. /\ actions' = FirstGiving(list)
        /\ UNCHANGED << types, palette, semantics, providers >>
    BY <1>7 DEF RebuildActions, registryVars
  <2>2. list \in Seq(HeldBy(providers))
    BY <1>1, OneListGrows
  <2> HIDE DEF list
  <2>3. Serves(FirstGiving(list), list) /\ OnlyAdds(FirstGiving(list), actions)
    BY <1>2, <2>2, RebuiltOnlyAdds DEF list
  <2>5. Serves(actions', providers'["action"])
    BY <2>1, <2>3 DEF list
  <2>6. ServicesInv'
    BY <1>2, <1>3, <2>1, <2>5 DEF ServicesInv
  <2>7. ServicesOnlyAdd
    BY <1>2, <2>1, <2>3, AddsNothing DEF ServicesOnlyAdd
  <2> QED
    BY <2>6, <2>7
<1>8. CASE UNCHANGED viewVars
  BY <1>4, <1>8 DEF viewVars
<1>9. CASE LoadFromDirectory \/ SkipRuleFile \/ DiscoverManifest \/ StartOrdering
  BY <1>8, <1>9 DEF LoadFromDirectory, SkipRuleFile, DiscoverManifest, StartOrdering
<1>10. CASE Dequeue \/ FinishOrdering \/ RejectPack \/ ReturnResult \/ Crash
  BY <1>8, <1>10 DEF Dequeue, FinishOrdering, RejectPack, ReturnResult, Crash
<1>11. CASE FailRegistration \/ LoadPack
  BY <1>8, <1>11 DEF FailRegistration, LoadPack
<1>12. CASE RebuildSchemas \/ ViewSchema
  BY <1>4, <1>12 DEF RebuildSchemas, ViewSchema
<1>13. CASE UNCHANGED vars
  BY <1>8, <1>13 DEF vars
<1> QED
  BY <1>5, <1>6, <1>7, <1>9, <1>10, <1>11, <1>12, <1>13 DEF Next

\* At first the services hold nothing.
LEMMA InitServices ==
  ASSUME Init
  PROVE  ServicesInv
<1>1. types = << >> /\ palette = << >> /\ semantics = << >> /\ actions = << >>
  BY DEF Init
<1>2. AreLists(providers)
  BY InitRegistry DEF RegistryInv
<1>3. ASSUME NEW kind \in Kinds PROVE Serves(<< >>, providers[kind])
  <2> DEFINE list == providers[kind]
  <2>1. list \in Seq(HeldBy(providers))
    BY <1>2 DEF AreLists
  <2> HIDE DEF list
  <2>2. Len(list) \in Nat
    BY <2>1
  <2>3. 0 \in 0 .. Len(list)
    BY <2>2
  <2>4. << >> = [name \in DOMAIN << >> |-> << >>[name]] /\ DOMAIN << >> = {}
    OBVIOUS
  <2>5. 1 .. 0 = {}
    OBVIOUS
  <2>6. NamesGiven(list, 0) = {}
    BY <2>5 DEF NamesGiven
  <2>7. IndexesFirst(<< >>, list, 0)
    BY <2>4, <2>6 DEF IndexesFirst
  <2> QED
    BY <2>3, <2>7 DEF Serves, list
<1> QED
  BY <1>1, <1>3 DEF ServicesInv, Kinds

(***************************************************************************)
(* A later load adds names and never changes what a name stands for: after *)
(* any rebuild a type, an execution or an action is served by the provider *)
(* that served it before, and the palette, told only of new ids, is never  *)
(* stale; for any packs, loads and rebuilds.                               *)
(***************************************************************************)
THEOREM LaterPacksNeverTakeOver == Spec => LaterPacksOnlyAdd
<1>1. Init => RegistryInv /\ ServicesInv
  BY InitRegistry, InitServices
<1>2. Inv /\ RegistryInv /\ ServicesInv /\ [Next]_vars => RegistryInv' /\ ServicesInv'
  BY StepKeepsRegistry, StepOfServices
<1>3. Inv /\ RegistryInv /\ ServicesInv /\ [Next]_vars =>
        [/\ \A name \in DOMAIN types : name \in DOMAIN types' /\ types'[name] = types[name]
         /\ \A name \in DOMAIN semantics :
               name \in DOMAIN semantics' /\ semantics'[name] = semantics[name]
         /\ \A name \in DOMAIN actions : name \in DOMAIN actions' /\ actions'[name] = actions[name]
         /\ palette' = types']_vars
  BY StepOfServices DEF ServicesOnlyAdd, OnlyAdds
<1> QED
  BY <1>1, <1>2, <1>3, LoaderInvariant, PTL DEF Spec, LaterPacksOnlyAdd

-----------------------------------------------------------------------------
(* Sorting by ranks. *)

\* By number, and then by position.
Sooner(order, i, j) == order[i] < order[j] \/ (order[i] = order[j] /\ i < j)

SoonerThan(order, S, i) == {j \in S : Sooner(order, j, i)}

\* The position of S that k - 1 of S are sooner than.
Ranked(order, S, k) == CHOOSE i \in S : Cardinality(SoonerThan(order, S, i)) = k - 1

\* A list of the positions in S, in ascending order.
Ascends(list, order, S) ==
    /\ list \in Bijection(1 .. Cardinality(S), S)
    /\ \A k, l \in 1 .. Cardinality(S) : k < l => order[list[k]] <= order[list[l]]

\* How many are sooner grows with the position.
LEMMA RanksGrow ==
  ASSUME NEW n \in Nat, NEW S \in SUBSET (1 .. n), NEW order \in [1 .. n -> Int],
         NEW i \in S, NEW j \in S, Sooner(order, i, j)
  PROVE  /\ Cardinality(SoonerThan(order, S, i)) \in Nat
         /\ Cardinality(SoonerThan(order, S, i)) < Cardinality(SoonerThan(order, S, j))
<1> DEFINE A == SoonerThan(order, S, i)
           B == SoonerThan(order, S, j)
<1>1. \A k \in S : k \in Int /\ order[k] \in Int
  OBVIOUS
<1>2. IsFiniteSet(S)
  <2>1. IsFiniteSet(1 .. n)
    BY FS_Interval
  <2> QED
    BY <2>1, FS_Subset
<1>3. IsFiniteSet(A) /\ IsFiniteSet(B)
  BY <1>2, FS_Subset DEF SoonerThan
<1>4. A \in SUBSET B
  <2>1. \A k \in S : Sooner(order, k, i) => Sooner(order, k, j)
    BY <1>1 DEF Sooner
  <2> QED
    BY <2>1 DEF SoonerThan
<1>5. i \in B /\ i \notin A
  BY <1>1 DEF SoonerThan, Sooner
<1>6. Cardinality(A) \in Nat /\ Cardinality(B) \in Nat
  BY <1>3, FS_CardinalityType
<1>7. Cardinality(A) <= Cardinality(B) /\ Cardinality(A) # Cardinality(B)
  <2> HIDE DEF A, B
  <2> QED
    BY <1>3, <1>4, <1>5, FS_Subset
<1> QED
  BY <1>6, <1>7

\* Of two positions one is sooner.
LEMMA OneIsSooner ==
  ASSUME NEW n \in Nat, NEW order \in [1 .. n -> Int], NEW i \in 1 .. n, NEW j \in 1 .. n
  PROVE  i = j \/ Sooner(order, i, j) \/ Sooner(order, j, i)
<1>1. order[i] \in Int /\ order[j] \in Int
  OBVIOUS
<1> QED
  BY <1>1 DEF Sooner

\* The ranks of the positions are the numbers up to their number, each once.
LEMMA RanksAreANumbering ==
  ASSUME NEW n \in Nat, NEW S \in SUBSET (1 .. n), NEW order \in [1 .. n -> Int]
  PROVE  [i \in S |-> Cardinality(SoonerThan(order, S, i)) + 1]
            \in Bijection(S, 1 .. Cardinality(S))
<1> DEFINE c == Cardinality(S)
           rank == [i \in S |-> Cardinality(SoonerThan(order, S, i)) + 1]
<1>1. IsFiniteSet(S) /\ c \in Nat
  <2>1. IsFiniteSet(1 .. n)
    BY FS_Interval
  <2>2. IsFiniteSet(S)
    BY <2>1, FS_Subset
  <2> QED
    BY <2>2, FS_CardinalityType
<1>2. ASSUME NEW i \in S
      PROVE  Cardinality(SoonerThan(order, S, i)) \in Nat /\ rank[i] \in 1 .. c
  <2>1. SoonerThan(order, S, i) \in SUBSET (S \ {i})
    BY DEF SoonerThan, Sooner
  <2>2. IsFiniteSet(S \ {i}) /\ Cardinality(S \ {i}) = c - 1
    BY <1>1, FS_RemoveElement
  <2>3. /\ IsFiniteSet(SoonerThan(order, S, i))
        /\ Cardinality(SoonerThan(order, S, i)) <= c - 1
    BY <2>1, <2>2, FS_Subset
  <2>4. Cardinality(SoonerThan(order, S, i)) \in Nat
    BY <2>3, FS_CardinalityType
  <2> HIDE DEF c
  <2> QED
    BY <1>1, <2>3, <2>4
<1>3. rank \in [S -> 1 .. c]
  BY <1>2
<1>4. ASSUME NEW i \in S, NEW j \in S, rank[i] = rank[j] PROVE i = j
  <2>1. i \in 1 .. n /\ j \in 1 .. n
    OBVIOUS
  <2>2. CASE Sooner(order, i, j)
    <3>1. /\ Cardinality(SoonerThan(order, S, i)) \in Nat
          /\ Cardinality(SoonerThan(order, S, i)) < Cardinality(SoonerThan(order, S, j))
      BY <2>2, RanksGrow
    <3>2. Cardinality(SoonerThan(order, S, i)) + 1 = Cardinality(SoonerThan(order, S, j)) + 1
      BY <1>4
    <3>3. Cardinality(SoonerThan(order, S, j)) \in Nat
      BY <1>2
    <3> HIDE DEF c, rank
    <3> QED
      BY <1>1, <3>1, <3>2, <3>3
  <2>3. CASE Sooner(order, j, i)
    <3>1. /\ Cardinality(SoonerThan(order, S, j)) \in Nat
          /\ Cardinality(SoonerThan(order, S, j)) < Cardinality(SoonerThan(order, S, i))
      BY <2>3, RanksGrow
    <3>2. Cardinality(SoonerThan(order, S, i)) + 1 = Cardinality(SoonerThan(order, S, j)) + 1
      BY <1>4
    <3>3. Cardinality(SoonerThan(order, S, i)) \in Nat
      BY <1>2
    <3> HIDE DEF c, rank
    <3> QED
      BY <1>1, <3>1, <3>2, <3>3
  <2> QED
    BY <2>1, <2>2, <2>3, OneIsSooner
<1>5. rank \in Injection(S, 1 .. c)
  <2> HIDE DEF rank
  <2> QED
    BY <1>3, <1>4 DEF Injection, IsInjective
<1>6. IsFiniteSet(1 .. c) /\ Cardinality(1 .. c) = c
  BY <1>1, FS_Interval
<1>7. rank \in Surjection(S, 1 .. c)
  <2> HIDE DEF rank, c
  <2>1. Cardinality(S) = Cardinality(1 .. c)
    BY <1>6 DEF c
  <2> QED
    BY <1>5, <1>6, <2>1, FS_Injection
<1> QED
  BY <1>5, <1>7 DEF Bijection

\* The positions by their ranks are in ascending order, each once.
LEMMA RankedAscends ==
  ASSUME NEW n \in Nat, NEW S \in SUBSET (1 .. n), NEW order \in [1 .. n -> Int]
  PROVE  Ascends([k \in 1 .. Cardinality(S) |-> Ranked(order, S, k)], order, S)
<1> DEFINE c == Cardinality(S)
           Below(i) == Cardinality(SoonerThan(order, S, i))
           rank == [i \in S |-> Below(i) + 1]
           list == [k \in 1 .. c |-> Ranked(order, S, k)]
<1>1. rank \in Bijection(S, 1 .. c)
  BY RanksAreANumbering
<1>2. /\ \A i \in S : rank[i] \in 1 .. c /\ rank[i] = Below(i) + 1
      /\ \A i, j \in S : rank[i] = rank[j] => i = j
      /\ \A k \in 1 .. c : \E i \in S : rank[i] = k
  <2>1. \A i \in S : rank[i] = Below(i) + 1
    OBVIOUS
  <2> HIDE DEF rank, Below, c
  <2> QED
    BY <1>1, <2>1 DEF Bijection, Injection, Surjection, IsInjective
<1>3. c \in Nat /\ IsFiniteSet(S)
  <2>1. IsFiniteSet(1 .. n)
    BY FS_Interval
  <2>2. IsFiniteSet(S)
    BY <2>1, FS_Subset
  <2> QED
    BY <2>2, FS_CardinalityType
<1>4. ASSUME NEW i \in S PROVE Below(i) \in Nat
  <2>1. IsFiniteSet(SoonerThan(order, S, i))
    BY <1>3, FS_Subset DEF SoonerThan
  <2> QED
    BY <2>1, FS_CardinalityType
<1>5. ASSUME NEW k \in 1 .. c
      PROVE  list[k] \in S /\ Below(list[k]) = k - 1 /\ rank[list[k]] = k
  <2>1. PICK i \in S : rank[i] = k
    BY <1>2
  <2>2. Below(i) = k - 1
    <3>1. Below(i) \in Nat /\ rank[i] = Below(i) + 1
      BY <1>2, <1>4
    <3> HIDE DEF Below, rank, c
    <3> QED
      BY <2>1, <3>1
  <2>3. list[k] = CHOOSE j \in S : Below(j) = k - 1
    BY DEF Ranked
  <2> HIDE DEF list, Below
  <2>4. list[k] \in S /\ Below(list[k]) = k - 1
    BY <2>2, <2>3
  <2>5. rank[list[k]] = Below(list[k]) + 1 /\ Below(list[k]) \in Nat
    BY <1>2, <1>4, <2>4
  <2> HIDE DEF rank, c
  <2> QED
    BY <1>3, <2>4, <2>5
<1>6. list \in Bijection(1 .. c, S)
  <2>1. list \in [1 .. c -> S]
    BY <1>5
  <2>2. \A k, l \in 1 .. c : list[k] = list[l] => k = l
    <3> HIDE DEF list, rank, Below, c
    <3> QED
      BY <1>5
  <2>3. ASSUME NEW i \in S PROVE \E k \in 1 .. c : list[k] = i
    <3>1. rank[i] \in 1 .. c
      BY <1>2
    <3>2. list[rank[i]] \in S /\ rank[list[rank[i]]] = rank[i]
      BY <1>5, <3>1
    <3>3. list[rank[i]] = i
      <4> HIDE DEF list, rank, Below, c
      <4> QED
        BY <1>2, <3>2
    <3> QED
      BY <3>1, <3>3
  <2> HIDE DEF list
  <2> QED
    BY <2>1, <2>2, <2>3 DEF Bijection, Injection, Surjection, IsInjective
<1>7. ASSUME NEW k \in 1 .. c, NEW l \in 1 .. c, k < l
      PROVE  order[list[k]] <= order[list[l]]
  <2> DEFINE i == list[k]
             j == list[l]
  <2>1. i \in S /\ j \in S /\ Below(i) = k - 1 /\ Below(j) = l - 1
    BY <1>5
  <2> HIDE DEF i, j
  <2>2. i \in 1 .. n /\ j \in 1 .. n /\ order[i] \in Int /\ order[j] \in Int
    BY <2>1
  <2>3. ~ Sooner(order, j, i)
    <3> SUFFICES ASSUME Sooner(order, j, i) PROVE FALSE
      OBVIOUS
    <3>1. Below(j) < Below(i)
      BY <2>1, RanksGrow
    <3> HIDE DEF Below
    <3> QED
      BY <1>3, <1>7, <2>1, <3>1
  <2>4. order[i] <= order[j]
    BY <2>2, <2>3 DEF Sooner
  <2> QED
    BY <2>4 DEF i, j
<1> HIDE DEF list
<1> QED
  BY <1>6, <1>7 DEF Ascends, list

-----------------------------------------------------------------------------
(* Rows, and the fields of a section. *)

\* A list of rows as the registry keeps them.
AreRows(rs) ==
    /\ rs \in Seq(Range(rs))
    /\ \A i \in DOMAIN rs : rs[i].order \in Int /\ Trimmed(rs[i].key) = rs[i].key

SectionOf(rs, title) == {i \in DOMAIN rs : SectionTitle(rs[i]) = title}

OrderOf(rs) == [i \in 1 .. Len(rs) |-> rs[i].order]

\* What FieldsOfSection sorts by.
Precedes(rs, i, j) ==
    \/ rs[i].order < rs[j].order
    \/ rs[i].order = rs[j].order /\ i < j

\* The positions of a section's fields, in the order of the fields.
ListOf(rs, title) ==
    [k \in 1 .. Cardinality(SectionOf(rs, title)) |->
        Ranked(OrderOf(rs), SectionOf(rs, title), k)]

\* The fields of a section are its rows in ascending order, each once.
LEMMA FieldsAreSorted ==
  ASSUME NEW rs, AreRows(rs), NEW title
  PROVE  /\ SectionOf(rs, title) \in SUBSET (1 .. Len(rs))
         /\ Cardinality(SectionOf(rs, title)) \in Nat
         /\ Cardinality(SectionOf(rs, title)) <= Len(rs)
         /\ Ascends(ListOf(rs, title), OrderOf(rs), SectionOf(rs, title))
         /\ FieldsOfSection(rs, title)
               = [k \in 1 .. Cardinality(SectionOf(rs, title)) |-> rs[ListOf(rs, title)[k]]]
<1> DEFINE S == SectionOf(rs, title)
           o == OrderOf(rs)
           n == Len(rs)
           l == ListOf(rs, title)
<1>1. n \in Nat /\ DOMAIN rs = 1 .. n
  BY DEF AreRows
<1>2. o \in [1 .. n -> Int]
  <2>1. \A i \in 1 .. n : rs[i].order \in Int
    BY <1>1 DEF AreRows
  <2> QED
    BY <1>1, <2>1 DEF OrderOf
<1>3. S \in SUBSET (1 .. n)
  BY <1>1 DEF SectionOf
<1>4. Cardinality(S) \in Nat /\ Cardinality(S) <= n
  <2>1. IsFiniteSet(1 .. n) /\ Cardinality(1 .. n) = n
    <3> HIDE DEF n
    <3> QED
      BY <1>1, FS_Interval
  <2> HIDE DEF S, n
  <2>2. IsFiniteSet(S) /\ Cardinality(S) <= Cardinality(1 .. n)
    BY <1>3, <2>1, FS_Subset
  <2> QED
    BY <2>1, <2>2, FS_CardinalityType
<1>5. Ascends([k \in 1 .. Cardinality(S) |-> Ranked(o, S, k)], o, S)
  <2> HIDE DEF S, n, o
  <2> QED
    BY <1>1, <1>2, <1>3, RankedAscends
<1>6. Ascends(l, o, S)
  BY <1>5 DEF ListOf
<1>7. ASSUME NEW i \in S PROVE {j \in S : Precedes(rs, j, i)} = SoonerThan(o, S, i)
  <2>1. \A j \in S : o[j] = rs[j].order
    BY <1>3 DEF OrderOf
  <2> HIDE DEF S, o
  <2> QED
    BY <1>7, <2>1 DEF SoonerThan, Sooner, Precedes
<1>8. FieldsOfSection(rs, title) = [k \in 1 .. Cardinality(S) |->
         rs[CHOOSE i \in S : Cardinality({j \in S : Precedes(rs, j, i)}) = k - 1]]
  BY DEF FieldsOfSection, SectionOf, Precedes
<1>9. ASSUME NEW k \in 1 .. Cardinality(S)
      PROVE  (CHOOSE i \in S : Cardinality({j \in S : Precedes(rs, j, i)}) = k - 1)
             = l[k]
  <2>1. l[k] = CHOOSE i \in S : Cardinality(SoonerThan(o, S, i)) = k - 1
    BY DEF ListOf, Ranked
  <2> HIDE DEF S, o, l
  <2> QED
    BY <1>7, <2>1
<1>10. FieldsOfSection(rs, title) = [k \in 1 .. Cardinality(S) |-> rs[l[k]]]
  <2> HIDE DEF S, l
  <2> QED
    BY <1>8, <1>9
<1> QED
  BY <1>3, <1>4, <1>6, <1>10

-----------------------------------------------------------------------------
(* The titles of the sections. *)

TitlesUpTo(rs, n) == {SectionTitle(rs[i]) : i \in 1 .. n}

\* One row: what SectionTitles does over and over.
WithTitleOf(titles, row) ==
    IF Contains(titles, SectionTitle(row)) THEN titles ELSE Append(titles, SectionTitle(row))

\* The title of a row is added unless it is there.
LEMMA OneMoreTitle ==
  ASSUME NEW T, NEW titles \in Seq(T), IsInjective(titles), NEW row, SectionTitle(row) \in T
  PROVE  /\ WithTitleOf(titles, row) \in Seq(T)
         /\ IsInjective(WithTitleOf(titles, row))
         /\ Range(WithTitleOf(titles, row)) = Range(titles) \cup {SectionTitle(row)}
<1> DEFINE t == SectionTitle(row)
<1>1. Contains(titles, t) <=> t \in Range(titles)
  BY DEF Contains, Range
<1>2. CASE t \in Range(titles)
  BY <1>1, <1>2 DEF WithTitleOf
<1>3. CASE t \notin Range(titles)
  <2>1. WithTitleOf(titles, row) = Append(titles, t)
    BY <1>1, <1>3 DEF WithTitleOf
  <2> HIDE DEF t
  <2>2. t \in T
    BY DEF t
  <2>3. /\ Append(titles, t) \in Seq(T)
        /\ IsInjective(Append(titles, t))
        /\ Range(Append(titles, t)) = Range(titles) \cup {t}
    BY <1>3, <2>2, AppendToInjective
  <2> QED
    BY <2>1, <2>3 DEF t
<1> QED
  BY <1>2, <1>3

\* The lists of titles that SectionTitles goes through.
IsTitling(chain, rs) ==
    /\ chain \in [0 .. Len(rs) -> Seq(TitlesUpTo(rs, Len(rs)))]
    /\ chain[0] = << >>
    /\ \A i \in 1 .. Len(rs) : chain[i] = WithTitleOf(chain[i - 1], rs[i])
    /\ chain[Len(rs)] = SectionTitles(rs)

LEMMA TitlingChain ==
  ASSUME NEW rs, AreRows(rs)
  PROVE  \E chain : IsTitling(chain, rs)
<1> DEFINE n == Len(rs)
           T == Seq(TitlesUpTo(rs, n))
           step == [x \in (1 .. n) \X T |-> WithTitleOf(x[2], rs[x[1]])]
           Folds(g) == g = [s \in SUBSET (1 .. n) |->
                              IF s = {} THEN << >>
                              ELSE WithTitleOf(g[s \ {Max(s)}], rs[Max(s)])]
<1>1. n \in Nat /\ DOMAIN rs = 1 .. n
  BY DEF AreRows
<1>11. << >> \in T
  OBVIOUS
<1>12. ASSUME NEW titles \in T, NEW i \in 1 .. n
       PROVE  WithTitleOf(titles, rs[i]) \in T
  <2>1. SectionTitle(rs[i]) \in TitlesUpTo(rs, n)
    BY DEF TitlesUpTo
  <2>2. Append(titles, SectionTitle(rs[i])) \in T
    BY <2>1
  <2> QED
    BY <2>2 DEF WithTitleOf
<1> HIDE DEF T
<1>2. step \in [(1 .. n) \X T -> T]
  BY <1>12
<1>3. PICK it \in [SUBSET (1 .. n) -> T] : IsLeftFold(it, n, << >>, step)
  <2> HIDE DEF n, step
  <2> QED
    BY <1>1, <1>2, <1>11, LeftFoldExists
<1>4. Folds(it)
  <2>1. ASSUME NEW s \in SUBSET (1 .. n), s # {}
        PROVE  step[<<Max(s), it[s \ {Max(s)}]>>] = WithTitleOf(it[s \ {Max(s)}], rs[Max(s)])
    <3>1. Max(s) \in 1 .. n /\ it[s \ {Max(s)}] \in T
      <4> HIDE DEF n
      <4>1. Max(s) \in s
        BY <1>1, <2>1, MaxOfSet
      <4> QED
        BY <1>3, <4>1
    <3> HIDE DEF n
    <3> QED
      BY <3>1
  <2> HIDE DEF n, step
  <2> QED
    BY <1>3, <2>1 DEF IsLeftFold
<1> DEFINE g == CHOOSE g : Folds(g)
<1>5. Folds(g)
  <2> HIDE DEF Folds
  <2> QED
    BY <1>4
<1>6. SectionTitles(rs) = g[1 .. n]
  BY <1>1 DEF SectionTitles, FoldLeft, MapThenFoldSet, WithTitleOf
<1> DEFINE chain == [i \in 0 .. n |-> g[1 .. i]]
<1>7. chain[0] = << >>
  <2>1. chain[0] = g[{}] /\ {} \in SUBSET (1 .. n)
    BY <1>1
  <2> HIDE DEF g
  <2> QED
    BY <1>5, <2>1
<1>8. ASSUME NEW i \in 1 .. n PROVE chain[i] = WithTitleOf(chain[i - 1], rs[i])
  <2>1. n \in Nat /\ i \in 1 .. n
    BY <1>1
  <2>2. /\ 1 .. i \in SUBSET (1 .. n) /\ 1 .. i # {}
        /\ i - 1 \in 0 .. n /\ i \in 0 .. n
        /\ Max(1 .. i) = i /\ (1 .. i) \ {i} = 1 .. i - 1
    <3> HIDE DEF n, g
    <3> QED
      BY <2>1, MaxOfPrefix
  <2> HIDE DEF g
  <2>3. g[1 .. i] = WithTitleOf(g[1 .. i - 1], rs[i])
    BY <1>5, <2>2
  <2> QED
    BY <2>2, <2>3
<1>9. chain \in [0 .. n -> T]
  <2> DEFINE S == {i \in 0 .. n : chain[i] \in T}
  <2> HIDE DEF chain
  <2>1. 0 \in S
    <3>1. 0 \in 0 .. n /\ chain[0] \in T
      BY <1>1, <1>7, <1>11
    <3> HIDE DEF n
    <3> QED
      BY <3>1
  <2>2. ASSUME NEW i \in 1 .. n, i - 1 \in S PROVE i \in S
    <3>1. chain[i - 1] \in T
      BY <2>2
    <3>2. WithTitleOf(chain[i - 1], rs[i]) \in T
      BY <1>12, <3>1
    <3> QED
      BY <1>8, <3>2
  <2>3. 0 .. n \subseteq S
    <3> HIDE DEF S, n
    <3> QED
      BY <1>1, <2>1, <2>2, NumbersUpTo
  <2>4. \A i \in 0 .. n : chain[i] \in T
    BY <2>3
  <2> QED
    BY <2>4 DEF chain
<1>10. chain[n] = g[1 .. n]
  BY <1>1
<1> HIDE DEF g, chain
<1>13. IsTitling(chain, rs)
  BY <1>1, <1>6, <1>7, <1>8, <1>9, <1>10 DEF IsTitling, T
<1> QED
  BY <1>13

(***************************************************************************)
(* The titles of the sections are those of the rows, each once.            *)
(***************************************************************************)
LEMMA TitlesAreThoseOfRows ==
  ASSUME NEW rs, AreRows(rs)
  PROVE  /\ SectionTitles(rs) \in Seq(TitlesUpTo(rs, Len(rs)))
         /\ IsInjective(SectionTitles(rs))
         /\ Range(SectionTitles(rs)) = TitlesUpTo(rs, Len(rs))
<1> DEFINE n == Len(rs)
<1>0. PICK chain : IsTitling(chain, rs)
  BY TitlingChain
<1>1. /\ chain \in [0 .. n -> Seq(TitlesUpTo(rs, n))]
      /\ chain[0] = << >>
      /\ \A i \in 1 .. n : chain[i] = WithTitleOf(chain[i - 1], rs[i])
      /\ chain[n] = SectionTitles(rs)
  BY <1>0 DEF IsTitling
<1>2. n \in Nat /\ 0 \in 0 .. n /\ n \in 0 .. n
  BY DEF AreRows
<1> DEFINE Kept(m) == IsInjective(chain[m]) /\ Range(chain[m]) = TitlesUpTo(rs, m)
           S == {m \in 0 .. n : Kept(m)}
<1>3. Kept(0)
  <2>1. IsInjective(<< >>) /\ Range(<< >>) = {}
    BY DEF IsInjective, Range
  <2>2. TitlesUpTo(rs, 0) = {}
    BY DEF TitlesUpTo
  <2> QED
    BY <1>1, <2>1, <2>2
<1>4. ASSUME NEW m \in 1 .. n, Kept(m - 1) PROVE Kept(m)
  <2>1. /\ m - 1 \in 0 .. n /\ \A i \in 1 .. m : i \in 1 .. (m - 1) \/ i = m
        /\ \A i \in 1 .. (m - 1) : i \in 1 .. m
        /\ m \in 1 .. m
    BY <1>2
  <2>2. chain[m - 1] \in Seq(TitlesUpTo(rs, n)) /\ SectionTitle(rs[m]) \in TitlesUpTo(rs, n)
    BY <1>1, <1>2, <2>1 DEF TitlesUpTo
  <2>3. IsInjective(chain[m - 1]) /\ Range(chain[m - 1]) = TitlesUpTo(rs, m - 1)
    BY <1>4
  <2>4. chain[m] = WithTitleOf(chain[m - 1], rs[m])
    BY <1>1
  <2> HIDE DEF n
  <2>5. /\ IsInjective(WithTitleOf(chain[m - 1], rs[m]))
        /\ Range(WithTitleOf(chain[m - 1], rs[m])) = Range(chain[m - 1]) \cup {SectionTitle(rs[m])}
    BY <2>2, <2>3, OneMoreTitle
  <2>6. TitlesUpTo(rs, m) = TitlesUpTo(rs, m - 1) \cup {SectionTitle(rs[m])}
    BY <2>1 DEF TitlesUpTo
  <2> QED
    BY <2>3, <2>4, <2>5, <2>6
<1>5. 0 .. n \subseteq S
  <2>1. 0 \in S
    BY <1>2, <1>3
  <2>2. \A i \in 1 .. n : i - 1 \in S => i \in S
    <3>1. \A i \in 1 .. n : i \in 0 .. n
      BY <1>2
    <3> HIDE DEF n, Kept
    <3> QED
      BY <1>4, <3>1
  <2> HIDE DEF S, n
  <2> QED
    BY <1>2, <2>1, <2>2, NumbersUpTo
<1>6. Kept(n)
  <2> HIDE DEF n, Kept
  <2> QED
    BY <1>2, <1>5
<1>7. chain[n] \in Seq(TitlesUpTo(rs, n))
  BY <1>1, <1>2
<1> QED
  BY <1>1, <1>6, <1>7

-----------------------------------------------------------------------------
(* The views of a list of rows. *)

Title(rs, k) == SectionTitles(rs)[k]

Size(rs, k) == Cardinality(SectionOf(rs, Title(rs, k)))

\* The row that is the field p of the section k.
RowAt(rs, k, p) == ListOf(rs, Title(rs, k))[p]

\* What the typed sections of rows are.
IsTyped(typed, rs) ==
    /\ DOMAIN typed = 1 .. Len(SectionTitles(rs))
    /\ \A k \in 1 .. Len(SectionTitles(rs)) :
          /\ typed[k].title = Title(rs, k)
          /\ Size(rs, k) \in Nat /\ Size(rs, k) <= Len(rs)
          /\ DOMAIN typed[k].fields = 1 .. Size(rs, k) /\ Len(typed[k].fields) = Size(rs, k)
          /\ \A p \in 1 .. Size(rs, k) :
                /\ RowAt(rs, k, p) \in 1 .. Len(rs)
                /\ SectionTitle(rs[RowAt(rs, k, p)]) = Title(rs, k)
                /\ typed[k].fields[p].key = rs[RowAt(rs, k, p)].key
                /\ typed[k].fields[p].order = rs[RowAt(rs, k, p)].order

LEMMA FieldsOfTheSection ==
  ASSUME NEW rs, AreRows(rs), NEW k \in 1 .. Len(SectionTitles(rs))
  PROVE  /\ Size(rs, k) \in Nat /\ Size(rs, k) <= Len(rs)
         /\ FieldsOfSection(rs, Title(rs, k)) = [p \in 1 .. Size(rs, k) |-> rs[RowAt(rs, k, p)]]
         /\ \A p \in 1 .. Size(rs, k) :
               RowAt(rs, k, p) \in 1 .. Len(rs) /\ SectionTitle(rs[RowAt(rs, k, p)]) = Title(rs, k)
<1> DEFINE t == Title(rs, k)
           S == SectionOf(rs, t)
<1>1. /\ S \in SUBSET (1 .. Len(rs))
      /\ Cardinality(S) \in Nat
      /\ Cardinality(S) <= Len(rs)
      /\ Ascends(ListOf(rs, t), OrderOf(rs), S)
      /\ FieldsOfSection(rs, t) = [p \in 1 .. Cardinality(S) |-> rs[ListOf(rs, t)[p]]]
  BY FieldsAreSorted
<1>2. ASSUME NEW p \in 1 .. Cardinality(S) PROVE ListOf(rs, t)[p] \in S
  <2>1. ListOf(rs, t) \in [1 .. Cardinality(S) -> S]
    BY <1>1 DEF Ascends, Bijection, Injection
  <2> HIDE DEF S
  <2> QED
    BY <2>1
<1>3. \A i \in S : i \in 1 .. Len(rs) /\ SectionTitle(rs[i]) = t
  BY <1>1 DEF SectionOf
<1> HIDE DEF S, t
<1> QED
  BY <1>1, <1>2, <1>3 DEF Size, RowAt, S, t

LEMMA TypedSections ==
  ASSUME NEW rs, AreRows(rs)
  PROVE  IsTyped(SectionizeTypedRows(rs), rs)
<1> DEFINE typed == SectionizeTypedRows(rs)
           n == Len(SectionTitles(rs))
<1>1. SectionTitles(rs) \in Seq(TitlesUpTo(rs, Len(rs)))
  BY TitlesAreThoseOfRows
<1>2. DOMAIN SectionTitles(rs) = 1 .. n
  BY <1>1
<1>3. DOMAIN typed = 1 .. n
  BY <1>2 DEF SectionizeTypedRows
<1>4. ASSUME NEW k \in 1 .. n
      PROVE  /\ typed[k].title = Title(rs, k)
             /\ Size(rs, k) \in Nat /\ Size(rs, k) <= Len(rs)
             /\ DOMAIN typed[k].fields = 1 .. Size(rs, k) /\ Len(typed[k].fields) = Size(rs, k)
             /\ \A p \in 1 .. Size(rs, k) :
                   /\ RowAt(rs, k, p) \in 1 .. Len(rs)
                   /\ SectionTitle(rs[RowAt(rs, k, p)]) = Title(rs, k)
                   /\ typed[k].fields[p].key = rs[RowAt(rs, k, p)].key
                   /\ typed[k].fields[p].order = rs[RowAt(rs, k, p)].order
  <2> DEFINE F == FieldsOfSection(rs, Title(rs, k))
  <2>1. /\ Size(rs, k) \in Nat /\ Size(rs, k) <= Len(rs)
        /\ F = [p \in 1 .. Size(rs, k) |-> rs[RowAt(rs, k, p)]]
        /\ \A p \in 1 .. Size(rs, k) :
              RowAt(rs, k, p) \in 1 .. Len(rs) /\ SectionTitle(rs[RowAt(rs, k, p)]) = Title(rs, k)
    BY FieldsOfTheSection
  <2>2. typed[k] = [title |-> Title(rs, k), fields |-> [i \in DOMAIN F |-> FromLegacyRow(F[i])]]
    BY <1>2 DEF SectionizeTypedRows, Title
  <2> HIDE DEF F, typed
  <2>3. /\ typed[k].title = Title(rs, k)
        /\ typed[k].fields = [i \in DOMAIN F |-> FromLegacyRow(F[i])]
    BY <2>2
  <2>4. DOMAIN F = 1 .. Size(rs, k)
    BY <2>1
  <2>5. DOMAIN typed[k].fields = 1 .. Size(rs, k)
    BY <2>3, <2>4
  <2>6. Len(typed[k].fields) = Size(rs, k)
    BY <2>1, <2>5
  <2>7. ASSUME NEW p \in 1 .. Size(rs, k)
        PROVE  /\ typed[k].fields[p].key = rs[RowAt(rs, k, p)].key
               /\ typed[k].fields[p].order = rs[RowAt(rs, k, p)].order
    <3>1. RowAt(rs, k, p) \in DOMAIN rs
      BY <2>1 DEF AreRows
    <3>2. typed[k].fields[p] = FromLegacyRow(rs[RowAt(rs, k, p)])
      BY <2>1, <2>3, <2>4
    <3>3. ASSUME NEW row
          PROVE  FromLegacyRow(row).key = Trimmed(row.key) /\ FromLegacyRow(row).order = row.order
      BY DEF FromLegacyRow
    <3>4. Trimmed(rs[RowAt(rs, k, p)].key) = rs[RowAt(rs, k, p)].key
      BY <3>1 DEF AreRows
    <3> QED
      BY <3>2, <3>3, <3>4
  <2> QED
    BY <2>1, <2>3, <2>5, <2>6, <2>7
<1> HIDE DEF typed
<1> QED
  BY <1>3, <1>4 DEF IsTyped, typed

\* The two kinds of sections have the same titles and the same keys.
LEMMA SameTitlesAndKeys ==
  ASSUME NEW rs, AreRows(rs), NEW typed, IsTyped(typed, rs)
  PROVE  LET plain == SectionizeRows(rs)
             Keys(section) == [i \in DOMAIN section.fields |-> section.fields[i].key]
         IN  [k \in DOMAIN typed |-> << typed[k].title, Keys(typed[k]) >>]
                = [k \in DOMAIN plain |-> << plain[k].title, Keys(plain[k]) >>]
<1> DEFINE plain == SectionizeRows(rs)
           n == Len(SectionTitles(rs))
           Keys(section) == [i \in DOMAIN section.fields |-> section.fields[i].key]
<1>1. DOMAIN SectionTitles(rs) = 1 .. n
  BY TitlesAreThoseOfRows
<1>2. DOMAIN plain = 1 .. n /\ DOMAIN typed = 1 .. n
  BY <1>1 DEF SectionizeRows, IsTyped
<1>3. ASSUME NEW k \in 1 .. n
      PROVE  typed[k].title = plain[k].title /\ Keys(typed[k]) = Keys(plain[k])
  <2> DEFINE F == FieldsOfSection(rs, Title(rs, k))
  <2>1. F = [p \in 1 .. Size(rs, k) |-> rs[RowAt(rs, k, p)]]
    BY FieldsOfTheSection
  <2>2. plain[k] = [title |-> Title(rs, k), fields |-> F]
    BY <1>1 DEF SectionizeRows, Title
  <2> HIDE DEF F, plain
  <2>3. plain[k].title = Title(rs, k) /\ plain[k].fields = F
    BY <2>2
  <2>4. /\ typed[k].title = Title(rs, k)
        /\ DOMAIN typed[k].fields = 1 .. Size(rs, k)
        /\ \A p \in 1 .. Size(rs, k) : typed[k].fields[p].key = rs[RowAt(rs, k, p)].key
    BY DEF IsTyped
  <2>5. DOMAIN F = 1 .. Size(rs, k) /\ \A p \in 1 .. Size(rs, k) : F[p] = rs[RowAt(rs, k, p)]
    BY <2>1
  <2> QED
    BY <2>3, <2>4, <2>5
<1> HIDE DEF plain, Keys
<1>4. [k \in DOMAIN typed |-> << typed[k].title, Keys(typed[k]) >>]
         = [k \in DOMAIN plain |-> << plain[k].title, Keys(plain[k]) >>]
  BY <1>2, <1>3
<1> QED
  BY <1>4 DEF plain, Keys

\* Each section is in ascending order.
LEMMA SectionsAscend ==
  ASSUME NEW rs, AreRows(rs), NEW typed, IsTyped(typed, rs), NEW k \in DOMAIN typed,
         NEW i \in DOMAIN typed[k].fields, NEW j \in DOMAIN typed[k].fields, i < j
  PROVE  typed[k].fields[i].order <= typed[k].fields[j].order
<1>1. /\ k \in 1 .. Len(SectionTitles(rs))
      /\ i \in 1 .. Size(rs, k) /\ j \in 1 .. Size(rs, k)
      /\ RowAt(rs, k, i) \in 1 .. Len(rs) /\ RowAt(rs, k, j) \in 1 .. Len(rs)
      /\ typed[k].fields[i].order = rs[RowAt(rs, k, i)].order
      /\ typed[k].fields[j].order = rs[RowAt(rs, k, j)].order
  BY DEF IsTyped
<1> DEFINE t == Title(rs, k)
           S == SectionOf(rs, t)
<1>2. Ascends(ListOf(rs, t), OrderOf(rs), S)
  BY FieldsAreSorted
<1>3. OrderOf(rs)[ListOf(rs, t)[i]] <= OrderOf(rs)[ListOf(rs, t)[j]]
  BY <1>1, <1>2 DEF Ascends, Size
<1>4. \A r \in 1 .. Len(rs) : OrderOf(rs)[r] = rs[r].order
  BY DEF OrderOf
<1> QED
  BY <1>1, <1>3, <1>4 DEF RowAt

\* Every row is a field of some section.
LEMMA EveryRowHasAPlace ==
  ASSUME NEW rs, AreRows(rs), NEW i \in 1 .. Len(rs)
  PROVE  \E k \in 1 .. Len(SectionTitles(rs)) : \E p \in 1 .. Size(rs, k) : RowAt(rs, k, p) = i
<1>1. SectionTitle(rs[i]) \in Range(SectionTitles(rs))
  BY TitlesAreThoseOfRows DEF TitlesUpTo
<1>2. DOMAIN SectionTitles(rs) = 1 .. Len(SectionTitles(rs))
  BY TitlesAreThoseOfRows
<1>3. PICK k \in 1 .. Len(SectionTitles(rs)) : Title(rs, k) = SectionTitle(rs[i])
  BY <1>1, <1>2 DEF Range, Title
<1> DEFINE t == Title(rs, k)
           S == SectionOf(rs, t)
           c == Cardinality(S)
<1>4. i \in S
  BY <1>3 DEF SectionOf, AreRows
<1>5. ListOf(rs, t) \in Bijection(1 .. c, S)
  BY FieldsAreSorted DEF Ascends
<1>6. \E p \in 1 .. c : ListOf(rs, t)[p] = i
  <2> HIDE DEF S, c, t
  <2> QED
    BY <1>4, <1>5 DEF Bijection, Surjection
<1> QED
  BY <1>6 DEF Size, RowAt

\* And of one section only, and there once.
LEMMA NoRowHasTwoPlaces ==
  ASSUME NEW rs, AreRows(rs),
         NEW k \in 1 .. Len(SectionTitles(rs)), NEW p \in 1 .. Size(rs, k),
         NEW l \in 1 .. Len(SectionTitles(rs)), NEW q \in 1 .. Size(rs, l),
         RowAt(rs, k, p) = RowAt(rs, l, q)
  PROVE  k = l /\ p = q
<1>1. Title(rs, k) = Title(rs, l)
  <2>1. SectionTitle(rs[RowAt(rs, k, p)]) = Title(rs, k)
    BY FieldsOfTheSection
  <2>2. SectionTitle(rs[RowAt(rs, l, q)]) = Title(rs, l)
    BY FieldsOfTheSection
  <2> QED
    BY <2>1, <2>2
<1>2. k = l
  <2>1. DOMAIN SectionTitles(rs) = 1 .. Len(SectionTitles(rs)) /\ IsInjective(SectionTitles(rs))
    BY TitlesAreThoseOfRows
  <2> QED
    BY <1>1, <2>1 DEF Title, IsInjective
<1> DEFINE t == Title(rs, k)
           S == SectionOf(rs, t)
           c == Cardinality(S)
<1>3. ListOf(rs, t) \in Bijection(1 .. c, S)
  BY FieldsAreSorted DEF Ascends
<1>4. p \in 1 .. c /\ q \in 1 .. c /\ ListOf(rs, t)[p] = ListOf(rs, t)[q]
  BY <1>2 DEF Size, RowAt
<1>5. p = q
  <2> HIDE DEF S, c, t
  <2> QED
    BY <1>3, <1>4 DEF Bijection, Injection, IsInjective
<1> QED
  BY <1>2, <1>5

\* The places of the fields, and those that show a key.
PlacesIn(typed, n) ==
    {place \in (DOMAIN typed) \X (1 .. n) : place[2] <= Len(typed[place[1]].fields)}

ShownIn(typed, n, key) ==
    {place \in PlacesIn(typed, n) : typed[place[1]].fields[place[2]].key = key}

\* A key is shown as often as rows have it.
LEMMA KeysAreShown ==
  ASSUME NEW rs, AreRows(rs), NEW typed, IsTyped(typed, rs), NEW key
  PROVE  Cardinality(ShownIn(typed, Len(rs), key))
            = Cardinality({i \in DOMAIN rs : rs[i].key = key})
<1> DEFINE A == ShownIn(typed, Len(rs), key)
           B == {i \in DOMAIN rs : rs[i].key = key}
           f == [place \in A |-> RowAt(rs, place[1], place[2])]
           m == Len(SectionTitles(rs))
<1>1. Len(rs) \in Nat /\ DOMAIN rs = 1 .. Len(rs)
  BY DEF AreRows
<1>2. DOMAIN typed = 1 .. m
  BY DEF IsTyped
<1>3. ASSUME NEW k \in 1 .. m
      PROVE  /\ Size(rs, k) \in Nat /\ Size(rs, k) <= Len(rs)
             /\ Len(typed[k].fields) = Size(rs, k)
             /\ \A p \in 1 .. Size(rs, k) :
                   /\ RowAt(rs, k, p) \in 1 .. Len(rs)
                   /\ typed[k].fields[p].key = rs[RowAt(rs, k, p)].key
  BY DEF IsTyped
<1> HIDE DEF m
<1>4. ASSUME NEW place
      PROVE  place \in A <=> \E k \in 1 .. m : \E p \in 1 .. Size(rs, k) :
                                place = << k, p >> /\ rs[RowAt(rs, k, p)].key = key
  <2>1. ASSUME place \in A
        PROVE  \E k \in 1 .. m : \E p \in 1 .. Size(rs, k) :
                  place = << k, p >> /\ rs[RowAt(rs, k, p)].key = key
    <3>1. /\ place[1] \in 1 .. m /\ place[2] \in 1 .. Len(rs) /\ place = << place[1], place[2] >>
          /\ place[2] <= Len(typed[place[1]].fields)
          /\ typed[place[1]].fields[place[2]].key = key
      BY <1>2, <2>1 DEF ShownIn, PlacesIn
    <3>2. place[2] \in 1 .. Size(rs, place[1])
      BY <1>1, <1>3, <3>1
    <3> QED
      BY <1>3, <3>1, <3>2
  <2>2. ASSUME NEW k \in 1 .. m, NEW p \in 1 .. Size(rs, k), place = << k, p >>,
               rs[RowAt(rs, k, p)].key = key
        PROVE  place \in A
    <3>1. p \in 1 .. Len(rs) /\ p <= Len(typed[k].fields) /\ typed[k].fields[p].key = key
      BY <1>1, <1>3, <2>2
    <3> QED
      BY <1>2, <2>2, <3>1 DEF ShownIn, PlacesIn
  <2> QED
    BY <2>1, <2>2
<1> HIDE DEF A
<1>5. f \in [A -> B]
  <2>1. ASSUME NEW place \in A PROVE RowAt(rs, place[1], place[2]) \in B
    <3>1. PICK k \in 1 .. m : \E p \in 1 .. Size(rs, k) :
             place = << k, p >> /\ rs[RowAt(rs, k, p)].key = key
      BY <1>4
    <3>2. PICK p \in 1 .. Size(rs, k) : place = << k, p >> /\ rs[RowAt(rs, k, p)].key = key
      BY <3>1
    <3> QED
      BY <1>1, <1>3, <3>2
  <2> QED
    BY <2>1
<1>6. ASSUME NEW x \in A, NEW y \in A, f[x] = f[y] PROVE x = y
  <2>1. PICK k \in 1 .. m : \E p \in 1 .. Size(rs, k) :
           x = << k, p >> /\ rs[RowAt(rs, k, p)].key = key
    BY <1>4
  <2>2. PICK p \in 1 .. Size(rs, k) : x = << k, p >>
    BY <2>1
  <2>3. PICK l \in 1 .. m : \E q \in 1 .. Size(rs, l) :
           y = << l, q >> /\ rs[RowAt(rs, l, q)].key = key
    BY <1>4
  <2>4. PICK q \in 1 .. Size(rs, l) : y = << l, q >>
    BY <2>3
  <2>5. RowAt(rs, k, p) = RowAt(rs, l, q)
    BY <1>6, <2>2, <2>4
  <2>6. k = l /\ p = q
    BY <2>5, NoRowHasTwoPlaces DEF m
  <2> QED
    BY <2>2, <2>4, <2>6
<1>7. ASSUME NEW i \in B PROVE \E place \in A : f[place] = i
  <2>1. i \in 1 .. Len(rs) /\ rs[i].key = key
    BY <1>1
  <2>2. \E k \in 1 .. m : \E p \in 1 .. Size(rs, k) : RowAt(rs, k, p) = i
    BY <2>1, EveryRowHasAPlace DEF m
  <2>3. PICK k \in 1 .. m : \E p \in 1 .. Size(rs, k) : RowAt(rs, k, p) = i
    BY <2>2
  <2>4. PICK p \in 1 .. Size(rs, k) : RowAt(rs, k, p) = i
    BY <2>3
  <2>5. << k, p >> \in A
    BY <1>4, <2>1, <2>4
  <2>6. f[<< k, p >>] = i
    BY <2>4, <2>5
  <2> QED
    BY <2>5, <2>6
<1>8. f \in Bijection(A, B)
  <2> HIDE DEF f, B
  <2> QED
    BY <1>5, <1>6, <1>7 DEF Bijection, Injection, Surjection, IsInjective
<1>9. IsFiniteSet(B)
  <2>1. IsFiniteSet(1 .. Len(rs))
    BY <1>1, FS_Interval
  <2>2. B \in SUBSET (1 .. Len(rs))
    BY <1>1
  <2> HIDE DEF B
  <2> QED
    BY <2>1, <2>2, FS_Subset
<1>10. ExistsBijection(B, A)
  <2> HIDE DEF f, B
  <2>1. ExistsBijection(A, B)
    BY <1>8 DEF ExistsBijection
  <2> QED
    BY <2>1, Fun_ExistsBijSymmetric
<1>11. Cardinality(A) = Cardinality(B)
  <2> HIDE DEF B
  <2> QED
    BY <1>9, <1>10, FS_Bijection
<1> QED
  BY <1>11 DEF A

\* A successful response has an entry for each row.
LEMMA ResponsesAreWhole ==
  ASSUME NEW rs, AreRows(rs), SchemaResponse(rs).success
  PROVE  Len(SchemaResponse(rs).entries) = Len(rs)
<1> DEFINE wrong == {i \in DOMAIN rs : rs[i].key = NoText \/ rs[i].type = NoText}
<1>1. Len(rs) \in Nat /\ DOMAIN rs = 1 .. Len(rs)
  BY DEF AreRows
<1>2. wrong = {}
  BY DEF SchemaResponse
<1>3. DOMAIN SchemaResponse(rs).entries = 1 .. Len(rs)
  BY <1>1, <1>2 DEF SchemaResponse
<1> QED
  BY <1>1, <1>3

-----------------------------------------------------------------------------
(* The rows the registry collects. *)

\* A list is a sequence of what is in it.
LEMMA ListOfItsOwn ==
  ASSUME NEW f, NEW n \in Nat, f = [i \in 1 .. n |-> f[i]]
  PROVE  f \in Seq(Range(f)) /\ Len(f) = n /\ DOMAIN f = 1 .. n
<1>1. DOMAIN f = 1 .. n
  OBVIOUS
<1>2. \A i \in 1 .. n : f[i] \in Range(f)
  BY <1>1 DEF Range
<1>3. f \in [1 .. n -> Range(f)]
  BY <1>2
<1>4. f \in Seq(Range(f))
  BY <1>3
<1> QED
  BY <1>1, <1>4

\* One list after another is a list.
LEMMA FlattenedLists ==
  ASSUME NEW T, NEW seqs \in Seq(Seq(T))
  PROVE  FlattenSeq(seqs) \in Seq(T)
<1> DEFINE n == Len(seqs)
           Flat(f) == f = [i \in 1 .. n |-> IF i = 1 THEN seqs[i] ELSE f[i - 1] \o seqs[i]]
           step == [x \in (1 .. n) \X Seq(T) |->
                      IF x[1] = 1 THEN seqs[x[1]] ELSE x[2] \o seqs[x[1]]]
<1>1. n \in Nat /\ DOMAIN seqs = 1 .. n /\ \A i \in 1 .. n : seqs[i] \in Seq(T)
  OBVIOUS
<1>2. CASE n = 0
  <2>1. FlattenSeq(seqs) = seqs /\ seqs = << >>
    BY <1>2 DEF FlattenSeq
  <2> QED
    BY <2>1
<1>3. CASE n # 0
  <2>1. step \in [(1 .. n) \X Seq(T) -> Seq(T)]
    <3>1. ASSUME NEW x \in (1 .. n) \X Seq(T)
          PROVE  (IF x[1] = 1 THEN seqs[x[1]] ELSE x[2] \o seqs[x[1]]) \in Seq(T)
      <4>1. x[2] \in Seq(T) /\ seqs[x[1]] \in Seq(T)
        BY <1>1
      <4> QED
        BY <4>1
    <3> QED
      BY <3>1
  <2>2. << >> \in Seq(T)
    OBVIOUS
  <2>3. PICK it \in [SUBSET (1 .. n) -> Seq(T)] : IsLeftFold(it, n, << >>, step)
    <3> HIDE DEF n, step
    <3> QED
      BY <1>1, <2>1, <2>2, LeftFoldExists
  <2> DEFINE f == [i \in 1 .. n |-> it[1 .. i]]
  <2>4. ASSUME NEW i \in 1 .. n
        PROVE  /\ i - 1 \in 0 .. n /\ it[1 .. i] \in Seq(T) /\ it[1 .. i - 1] \in Seq(T)
               /\ it[1 .. i] = IF i = 1 THEN seqs[i] ELSE it[1 .. i - 1] \o seqs[i]
    <3>1. /\ 1 .. i \in SUBSET (1 .. n) /\ 1 .. i # {}
          /\ i - 1 \in 0 .. n /\ i \in 0 .. n
          /\ Max(1 .. i) = i /\ (1 .. i) \ {i} = 1 .. i - 1
      <4> HIDE DEF n
      <4> QED
        BY <1>1, MaxOfPrefix
    <3>2. 1 .. i - 1 \in SUBSET (1 .. n)
      BY <3>1
    <3>3. it[1 .. i] \in Seq(T) /\ it[1 .. i - 1] \in Seq(T)
      <4> HIDE DEF n
      <4> QED
        BY <2>3, <3>1, <3>2
    <3>4. it[1 .. i] = step[<<i, it[1 .. i - 1]>>]
      <4> HIDE DEF n, step
      <4> QED
        BY <2>3, <3>1 DEF IsLeftFold
    <3>5. step[<<i, it[1 .. i - 1]>>] = IF i = 1 THEN seqs[i] ELSE it[1 .. i - 1] \o seqs[i]
      <4> HIDE DEF n
      <4> QED
        BY <3>3
    <3> QED
      BY <3>1, <3>3, <3>4, <3>5
  <2>5. Flat(f)
    <3>1. ASSUME NEW i \in 1 .. n, i # 1 PROVE f[i - 1] = it[1 .. i - 1]
      <4>1. i - 1 \in 1 .. n
        BY <1>1, <3>1
      <4> QED
        BY <4>1
    <3>2. \A i \in 1 .. n : f[i] = IF i = 1 THEN seqs[i] ELSE f[i - 1] \o seqs[i]
      <4> HIDE DEF n
      <4> QED
        BY <2>4, <3>1
    <3>3. f = [i \in 1 .. n |-> f[i]]
      OBVIOUS
    <3> HIDE DEF f, n
    <3> QED
      BY <3>2, <3>3
  <2> DEFINE g == CHOOSE g : Flat(g)
  <2>6. Flat(g)
    <3> HIDE DEF Flat, f
    <3> QED
      BY <2>5
  <2>7. FlattenSeq(seqs) = g[n]
    BY <1>3 DEF FlattenSeq
  <2> DEFINE S == {i \in 0 .. n : i = 0 \/ g[i] \in Seq(T)}
  <2>8. 0 .. n \subseteq S
    <3>1. 0 \in S
      BY <1>1
    <3>2. ASSUME NEW i \in 1 .. n, i - 1 \in S PROVE i \in S
      <4>1. g[i] = IF i = 1 THEN seqs[i] ELSE g[i - 1] \o seqs[i]
        <5> HIDE DEF g
        <5> QED
          BY <2>6
      <4> HIDE DEF g
      <4>2. CASE i = 1
        BY <1>1, <4>1, <4>2
      <4>3. CASE i # 1
        <5>1. g[i - 1] \in Seq(T) /\ seqs[i] \in Seq(T)
          BY <1>1, <3>2, <4>3
        <5>2. g[i - 1] \o seqs[i] \in Seq(T)
          BY <5>1
        <5>3. g[i] \in Seq(T) /\ i \in 0 .. n
          BY <1>1, <4>1, <4>3, <5>2
        <5> QED
          BY <5>3
      <4> QED
        BY <4>2, <4>3
    <3> HIDE DEF S, n, g
    <3> QED
      BY <1>1, <3>1, <3>2, NumbersUpTo
  <2>9. g[n] \in Seq(T)
    <3> HIDE DEF g
    <3>1. n \in 0 .. n
      BY <1>1
    <3> QED
      BY <1>3, <2>8, <3>1
  <2> QED
    BY <2>7, <2>9
<1> QED
  BY <1>2, <1>3

\* Lists of rows, one after another, are a list of rows.
LEMMA FlattenedRows ==
  ASSUME NEW seqs, NEW n \in Nat, seqs = [i \in 1 .. n |-> seqs[i]],
         \A i \in 1 .. n : AreRows(seqs[i])
  PROVE  AreRows(FlattenSeq(seqs))
<1> DEFINE T == UNION {Range(seqs[i]) : i \in 1 .. n}
           flat == FlattenSeq(seqs)
<1>1. ASSUME NEW i \in 1 .. n PROVE seqs[i] \in Seq(T)
  <2>1. seqs[i] \in Seq(Range(seqs[i]))
    BY DEF AreRows
  <2>2. Range(seqs[i]) \subseteq T
    OBVIOUS
  <2> HIDE DEF T
  <2> QED
    BY <2>1, <2>2
<1>2. ASSUME NEW row \in T PROVE row.order \in Int /\ Trimmed(row.key) = row.key
  <2>1. PICK i \in 1 .. n : row \in Range(seqs[i])
    OBVIOUS
  <2>2. \E j \in DOMAIN seqs[i] : row = seqs[i][j]
    BY <2>1 DEF Range
  <2> QED
    BY <2>2 DEF AreRows
<1> HIDE DEF T
<1>3. seqs \in Seq(Seq(T))
  <2>1. seqs \in [1 .. n -> Seq(T)]
    BY <1>1
  <2> QED
    BY <2>1
<1>4. flat \in Seq(T)
  BY <1>3, FlattenedLists
<1> HIDE DEF flat
<1>5. /\ Len(flat) \in Nat /\ flat = [i \in 1 .. Len(flat) |-> flat[i]]
      /\ \A i \in DOMAIN flat : flat[i] \in T
  BY <1>4
<1>6. flat \in Seq(Range(flat))
  BY <1>5, ListOfItsOwn
<1>7. AreRows(flat)
  BY <1>2, <1>5, <1>6 DEF AreRows
<1> QED
  BY <1>7 DEF flat

\* What is kept of a provider's bundle of schemas.
IsList(list) == Len(list) \in Nat /\ DOMAIN list = 1 .. Len(list)

IsBundle(bundle) ==
    /\ IsList(bundle)
    /\ \A j \in DOMAIN bundle :
          /\ IsList(bundle[j].rows)
          /\ \A k \in DOMAIN bundle[j].rows : bundle[j].rows[k].order \in Int

LEMMA NormalizedRows ==
  ASSUME NEW raws, IsList(raws), \A i \in DOMAIN raws : raws[i].order \in Int
  PROVE  AreRows(NormalizeRows(raws))
<1> DEFINE n == Len(raws)
           rs == NormalizeRows(raws)
<1>1. n \in Nat /\ DOMAIN raws = 1 .. n
  BY DEF IsList
<1>2. rs = [i \in 1 .. n |-> ToNormalizedRow(FromLegacyRow(raws[i]))]
  BY <1>1 DEF NormalizeRows
<1>3. ASSUME NEW raw, raw.order \in Int
      PROVE  /\ ToNormalizedRow(FromLegacyRow(raw)).order \in Int
             /\ Trimmed(ToNormalizedRow(FromLegacyRow(raw)).key) = ToNormalizedRow(FromLegacyRow(raw)).key
  <2>1. FromLegacyRow(raw).order = raw.order /\ FromLegacyRow(raw).key = Trimmed(raw.key)
    BY DEF FromLegacyRow
  <2>2. /\ ToNormalizedRow(FromLegacyRow(raw)).order = FromLegacyRow(raw).order
        /\ ToNormalizedRow(FromLegacyRow(raw)).key = FromLegacyRow(raw).key
    BY DEF ToNormalizedRow
  <2>3. Trimmed(Trimmed(raw.key)) = Trimmed(raw.key)
    BY DEF Trimmed, NoText, Spaces
  <2> QED
    BY <1>3, <2>1, <2>2, <2>3
<1> HIDE DEF rs
<1>4. rs = [i \in 1 .. n |-> rs[i]]
  BY <1>2
<1>5. rs \in Seq(Range(rs)) /\ DOMAIN rs = 1 .. n
  <2> HIDE DEF n
  <2> QED
    BY <1>1, <1>4, ListOfItsOwn
<1>6. \A i \in 1 .. n : rs[i].order \in Int /\ Trimmed(rs[i].key) = rs[i].key
  BY <1>1, <1>2, <1>3
<1> QED
  BY <1>5, <1>6 DEF AreRows, rs

LEMMA NoRows ==
  AreRows(<< >>)
BY DEF AreRows, Range

\* The rows a bundle has for a target: those of its first entry, once per entry.
LEMMA RowsOfABundle ==
  ASSUME NEW bundle, IsBundle(bundle), NEW target
  PROVE  AreRows(FlattenSeq([i \in DOMAIN bundle |->
                   IF SchemaTargets(bundle)[i] = target
                   THEN NormalizeRows(SchemaForTarget(bundle, target)) ELSE << >>]))
<1> DEFINE n == Len(bundle)
           seqs == [i \in DOMAIN bundle |->
                      IF SchemaTargets(bundle)[i] = target
                      THEN NormalizeRows(SchemaForTarget(bundle, target)) ELSE << >>]
<1>1. n \in Nat /\ DOMAIN bundle = 1 .. n
  BY DEF IsBundle, IsList
<1>2. ASSUME NEW i \in 1 .. n PROVE AreRows(seqs[i])
  <2>1. CASE SchemaTargets(bundle)[i] = target
    <3> DEFINE entries == {j \in DOMAIN bundle : bundle[j].target = target}
    <3>1. i \in entries
      BY <1>1, <2>1 DEF SchemaTargets
    <3>2. entries \in SUBSET Nat
      BY <1>1
    <3>3. Min(entries) \in entries
      <4> HIDE DEF entries
      <4>1. \E x \in entries : \A y \in entries : x <= y
        BY <3>1, <3>2, LeastPosition
      <4> QED
        BY <4>1 DEF Min
    <3>4. SchemaForTarget(bundle, target) = bundle[Min(entries)].rows
      BY <3>1 DEF SchemaForTarget
    <3> DEFINE raws == bundle[Min(entries)].rows
    <3>5. IsList(raws) /\ \A k \in DOMAIN raws : raws[k].order \in Int
      BY <3>3 DEF IsBundle
    <3> HIDE DEF raws
    <3>6. AreRows(NormalizeRows(raws))
      BY <3>5, NormalizedRows
    <3> QED
      BY <1>1, <2>1, <3>4, <3>6 DEF raws
  <2>2. CASE SchemaTargets(bundle)[i] # target
    BY <1>1, <2>2, NoRows
  <2> QED
    BY <2>1, <2>2
<1>3. seqs = [i \in 1 .. n |-> seqs[i]]
  BY <1>1
<1> HIDE DEF seqs
<1>4. AreRows(FlattenSeq(seqs))
  <2> HIDE DEF n
  <2> QED
    BY <1>1, <1>2, <1>3, FlattenedRows
<1> QED
  BY <1>4 DEF seqs

\* What rebuildFromRegistry() collects is a list of rows.
LEMMA CollectedAreRows ==
  ASSUME NEW bundles, NEW n \in Nat, DOMAIN bundles = 1 .. n,
         \A k \in 1 .. n : IsBundle(bundles[k]), NEW target
  PROVE  AreRows(CollectedRows(bundles, target))
<1> DEFINE Of(bundle) == FlattenSeq([i \in DOMAIN bundle |->
                            IF SchemaTargets(bundle)[i] = target
                            THEN NormalizeRows(SchemaForTarget(bundle, target)) ELSE << >>])
           seqs == [k \in 1 .. n |-> Of(bundles[k])]
<1>1. CollectedRows(bundles, target) = FlattenSeq(seqs)
  BY DEF CollectedRows
<1>2. \A k \in 1 .. n : AreRows(Of(bundles[k]))
  BY RowsOfABundle
<1> HIDE DEF Of
<1>3. seqs = [k \in 1 .. n |-> seqs[k]] /\ \A k \in 1 .. n : AreRows(seqs[k])
  BY <1>2
<1> HIDE DEF seqs
<1> QED
  BY <1>1, <1>3, FlattenedRows

\* And so are the rows a schema falls back on.
LEMMA FallbackRows ==
  AreRows(FallbackComponentRows) /\ AreRows(FallbackConnectionRows)
<1>1. AreRows(FallbackConnectionRows)
  <2> DEFINE rs == FallbackConnectionRows
  <2>1. rs = [i \in 1 .. 6 |-> rs[i]]
    BY DEF FallbackConnectionRows
  <2>2. rs \in Seq(Range(rs)) /\ DOMAIN rs = 1 .. 6
    <3> HIDE DEF rs
    <3> QED
      BY <2>1, ListOfItsOwn
  <2> DEFINE K == {"id", "sourceId", "targetId", "label", "sourceSide", "targetSide"}
  <2>3. \A i \in 1 .. 6 : rs[i].order \in Int
    BY DEF FallbackConnectionRows, FallbackField
  <2>4. \A i \in 1 .. 6 : rs[i].key \in K
    BY DEF FallbackConnectionRows, FallbackField
  <2>5. \A key \in K : Trimmed(key) = key
    BY DEF Trimmed, Spaces
  <2> HIDE DEF rs, K
  <2> QED
    BY <2>2, <2>3, <2>4, <2>5 DEF AreRows, rs
<1>2. AreRows(FallbackComponentRows)
  <2> DEFINE rs == FallbackComponentRows
  <2>1. rs = [i \in 1 .. 11 |-> rs[i]]
    BY DEF FallbackComponentRows
  <2>2. rs \in Seq(Range(rs)) /\ DOMAIN rs = 1 .. 11
    <3> HIDE DEF rs
    <3> QED
      BY <2>1, ListOfItsOwn
  <2> DEFINE K == {"id", "title", "content", "icon", "type", "color", "shape", "x", "y",
               "width", "height"}
  <2>3. \A i \in 1 .. 11 : rs[i].order \in Int
    BY DEF FallbackComponentRows, FallbackField
  <2>4. \A i \in 1 .. 11 : rs[i].key \in K
    BY DEF FallbackComponentRows, FallbackField
  <2>5. \A key \in K : Trimmed(key) = key
    BY DEF Trimmed, Spaces
  <2> HIDE DEF rs, K
  <2> QED
    BY <2>2, <2>3, <2>4, <2>5 DEF AreRows, rs
<1> QED
  BY <1>1, <1>2

LEMMA ResolvedAreRows ==
  ASSUME NEW collected, AreRows(collected), NEW target
  PROVE  AreRows(ResolvedSchemaRows(collected, target))
<1>1. CASE collected # << >>
  BY <1>1 DEF ResolvedSchemaRows
<1>2. CASE collected = << >>
  <2>1. \/ ResolvedSchemaRows(collected, target) = FallbackComponentRows
        \/ ResolvedSchemaRows(collected, target) = FallbackConnectionRows
        \/ ResolvedSchemaRows(collected, target) = << >>
    BY <1>2 DEF ResolvedSchemaRows
  <2> QED
    BY <2>1, FallbackRows, NoRows
<1> QED
  BY <1>1, <1>2

-----------------------------------------------------------------------------
(* The schemas. *)

\* The schema providers of a registry, or of what is offered, have bundles.
WellBundled(held) ==
    \A i \in DOMAIN held["propertySchema"] : IsBundle(held["propertySchema"][i].gives)

GivesBundles(offers) ==
    \A i \in DOMAIN offers :
        offers[i] # NullProvider /\ offers[i].kind = "propertySchema" => IsBundle(offers[i].gives)

LEMMA OffersGiveBundles ==
  /\ GivesBundles(AppProviders)
  /\ \A id \in DOMAIN Factories : Factories[id] # NullPack => GivesBundles(Factories[id])
BY SchemasAreLists DEF GivesBundles, IsBundle, IsList

\* One offer adds at most a bundle.
LEMMA OfferedKeepsBundles ==
  ASSUME NEW P, NEW done \in Outcomes(P), NEW pack, NEW offer, IsOffer(offer, pack, P),
         offer # NullProvider /\ offer.kind = "propertySchema" => IsBundle(offer.gives),
         WellBundled(done.held)
  PROVE  WellBundled(Offered(done, pack, offer).held)
<1>1. "propertySchema" \in Kinds /\ done.held \in [Kinds -> Seq(P)]
  BY DEF Kinds, Outcomes
<1>2. CASE ~ done.ok \/ ~ Registrable(done.held, offer)
  <2>1. Offered(done, pack, offer) = [done EXCEPT !.ok = FALSE]
    BY <1>2 DEF Offered
  <2>2. Offered(done, pack, offer).held = done.held
    BY <2>1 DEF Outcomes
  <2> QED
    BY <2>2
<1>3. CASE done.ok /\ Registrable(done.held, offer)
  <2> DEFINE k == RegistryOf(offer.kind)
             e == Entry(pack, offer)
             old == done.held
             new == Offered(done, pack, offer).held
  <2>1. /\ k \in Kinds
        /\ new[k] = Append(old[k], e)
        /\ \A kind \in Kinds : kind # k => new[kind] = old[kind]
    BY <1>3, AcceptedOffer
  <2>2. e \in P /\ e.gives = offer.gives /\ offer # NullProvider
    BY <1>3 DEF IsOffer, Entry, Registrable
  <2>3. k = "propertySchema" => offer.kind = "propertySchema"
    BY DEF RegistryOf
  <2> HIDE DEF k, e, new
  <2>4. CASE k # "propertySchema"
    BY <1>1, <2>1, <2>4 DEF WellBundled, new
  <2>5. CASE k = "propertySchema"
    <3>1. old[k] \in Seq(P)
      BY <1>1, <2>1
    <3> HIDE DEF old
    <3>2. /\ Len(old[k]) \in Nat /\ DOMAIN old[k] = 1 .. Len(old[k])
          /\ DOMAIN new[k] = 1 .. (Len(old[k]) + 1)
          /\ \A i \in 1 .. Len(old[k]) : new[k][i] = old[k][i]
          /\ new[k][Len(old[k]) + 1] = e
      BY <2>1, <2>2, <3>1
    <3>3. IsBundle(e.gives)
      BY <2>2, <2>3, <2>5
    <3>4. \A i \in DOMAIN new[k] : i \in DOMAIN old[k] \/ i = Len(old[k]) + 1
      BY <3>2
    <3>5. \A i \in DOMAIN old[k] : IsBundle(old[k][i].gives)
      BY <2>5 DEF WellBundled, old
    <3>6. \A i \in DOMAIN new[k] : IsBundle(new[k][i].gives)
      BY <3>2, <3>3, <3>4, <3>5
    <3> QED
      BY <2>5, <3>6 DEF WellBundled, new
  <2> QED
    BY <2>4, <2>5
<1> QED
  BY <1>2, <1>3

\* And so does a registration.
LEMMA RegistrationKeepsBundles ==
  ASSUME NEW before, AreLists(before), NEW pack, NEW offers,
         Len(offers) \in Nat, DOMAIN offers = 1 .. Len(offers),
         \A i \in DOMAIN offers :
            offers[i] # NullProvider => RegistryOf(offers[i].kind) \in Kinds,
         GivesBundles(offers), WellBundled(before)
  PROVE  WellBundled(RegisterProviders(before, pack, offers).held)
<1> DEFINE P == Additions(before, pack, offers)
           n == Len(offers)
<1>1. before \in [Kinds -> Seq(P)]
  <2>1. HeldBy(before) \subseteq P
    BY DEF Additions
  <2>2. \A kind \in Kinds : before[kind] \in Seq(HeldBy(before))
    BY DEF AreLists
  <2> HIDE DEF P
  <2>3. \A kind \in Kinds : before[kind] \in Seq(P)
    BY <2>1, <2>2
  <2> QED
    BY <2>3 DEF AreLists
<1>2. \A i \in DOMAIN offers : IsOffer(offers[i], pack, P)
  BY DEF IsOffer, Additions
<1> HIDE DEF P
<1>3. PICK chain : IsRegistration(chain, P, before, pack, offers)
  BY <1>1, <1>2, RegistrationChain
<1>4. /\ chain \in [0 .. n -> Outcomes(P)]
      /\ chain[0] = [ok |-> TRUE, held |-> before]
      /\ \A i \in 1 .. n : chain[i] = Offered(chain[i - 1], pack, offers[i])
      /\ chain[n] = RegisterProviders(before, pack, offers)
  BY <1>3 DEF IsRegistration
<1> DEFINE S == {m \in 0 .. n : WellBundled(chain[m].held)}
<1>5. n \in Nat /\ n \in 0 .. n /\ 0 \in 0 .. n
  OBVIOUS
<1>6. 0 \in S
  BY <1>4, <1>5
<1>7. ASSUME NEW m \in 1 .. n, m - 1 \in S PROVE m \in S
  <2>1. m - 1 \in 0 .. n /\ m \in 0 .. n /\ m \in DOMAIN offers
    BY <1>5
  <2>2. chain[m - 1] \in Outcomes(P) /\ chain[m] = Offered(chain[m - 1], pack, offers[m])
    BY <1>4, <2>1
  <2>3. IsOffer(offers[m], pack, P) /\ WellBundled(chain[m - 1].held)
    BY <1>2, <1>7, <2>1
  <2>4. offers[m] # NullProvider /\ offers[m].kind = "propertySchema" => IsBundle(offers[m].gives)
    BY <2>1 DEF GivesBundles
  <2>5. WellBundled(chain[m].held)
    BY <2>2, <2>3, <2>4, OfferedKeepsBundles
  <2> QED
    BY <2>1, <2>5
<1>8. 0 .. n \subseteq S
  <2> HIDE DEF S, n
  <2> QED
    BY <1>5, <1>6, <1>7, NumbersUpTo
<1> QED
  BY <1>4, <1>5, <1>8

\* The registry has bundles, of which the rows were collected, and a section
\* model is that of the rows as they are.
SchemaInv ==
    /\ WellBundled(providers)
    /\ \A target \in Targets : AreRows(rows[target])
    /\ DOMAIN models \subseteq Targets
    /\ \A target \in DOMAIN models : models[target] = SectionizeTypedRows(Schema(target))

LEMMA InitSchemas ==
  ASSUME Init
  PROVE  SchemaInv
<1> DEFINE none == [kind \in Kinds |-> << >>]
<1>1. AreLists(none) /\ WellBundled(none)
  <2>1. none \in [Kinds -> Seq({})]
    OBVIOUS
  <2>2. \A kind \in Kinds : DOMAIN none[kind] = {}
    OBVIOUS
  <2>3. "propertySchema" \in Kinds
    BY DEF Kinds
  <2> HIDE DEF none
  <2> QED
    BY <2>1, <2>2, <2>3, ListsOfTheirOwn DEF WellBundled
<1>2. /\ providers = RegisterProviders(none, App, AppProviders).held
      /\ rows = [target \in Targets |-> << >>] /\ models = << >>
  BY DEF Init
<1> HIDE DEF none
<1>3. /\ Len(AppProviders) \in Nat /\ DOMAIN AppProviders = 1 .. Len(AppProviders)
      /\ \A i \in DOMAIN AppProviders :
            AppProviders[i] # NullProvider => RegistryOf(AppProviders[i].kind) \in Kinds
  BY OffersAreLists
<1>4. WellBundled(providers)
  BY <1>1, <1>2, <1>3, OffersGiveBundles, RegistrationKeepsBundles
<1> QED
  BY <1>2, <1>4, NoRows DEF SchemaInv

\* A registration, whether it fails or not.
LEMMA RegisteringKeepsSchemas ==
  ASSUME RegistryInv, SchemaInv, phase = "loading", todo # << >>, Refusal = "none",
         providers' = Registration.held, UNCHANGED << rows, models >>
  PROVE  SchemaInv'
<1>1. Candidate \in DOMAIN Factories /\ Factories[Candidate] # NullPack
  BY DEF Refusal
<1> DEFINE offers == Factories[Candidate]
<1>2. /\ Len(offers) \in Nat /\ DOMAIN offers = 1 .. Len(offers)
      /\ \A i \in DOMAIN offers :
            offers[i] # NullProvider => RegistryOf(offers[i].kind) \in Kinds
  BY <1>1, OffersAreLists
<1>3. GivesBundles(offers)
  BY <1>1, OffersGiveBundles
<1>4. Registration = RegisterProviders(providers, Pack, offers)
  BY DEF Registration
<1>5. AreLists(providers) /\ WellBundled(providers)
  BY DEF RegistryInv, SchemaInv
<1> HIDE DEF offers
<1>6. WellBundled(Registration.held)
  BY <1>2, <1>3, <1>4, <1>5, RegistrationKeepsBundles
<1>7. \A target : Schema(target)' = Schema(target)
  BY DEF Schema
<1> QED
  BY <1>6, <1>7 DEF SchemaInv, WellBundled

LEMMA RebuildKeepsSchemas ==
  ASSUME RegistryInv, SchemaInv, RebuildSchemas
  PROVE  SchemaInv'
<1> DEFINE held == providers["propertySchema"]
           bundles == [i \in DOMAIN held |-> held[i].gives]
<1>1. /\ rows' = [target \in Targets |-> CollectedRows(bundles, target)]
      /\ models' = << >> /\ UNCHANGED providers
  BY DEF RebuildSchemas, registryVars
<1>2. held \in Seq(HeldBy(providers))
  BY DEF RegistryInv, AreLists, Kinds
<1>3. /\ Len(held) \in Nat /\ DOMAIN bundles = 1 .. Len(held)
      /\ \A i \in 1 .. Len(held) : IsBundle(bundles[i])
  BY <1>2 DEF SchemaInv, WellBundled
<1> HIDE DEF bundles
<1>4. \A target \in Targets : AreRows(CollectedRows(bundles, target))
  BY <1>3, CollectedAreRows
<1>5. \A target \in Targets : AreRows(rows'[target])
  BY <1>1, <1>4
<1>6. WellBundled(providers)'
  BY <1>1 DEF SchemaInv, WellBundled
<1>7. DOMAIN models' = {}
  BY <1>1
<1> QED
  BY <1>5, <1>6, <1>7 DEF SchemaInv

LEMMA ViewKeepsSchemas ==
  ASSUME SchemaInv, ViewSchema
  PROVE  SchemaInv'
<1>1. PICK target \in Targets \ DOMAIN models :
         models' = [t \in DOMAIN models \cup {target} |->
                        IF t = target THEN SectionizeTypedRows(Schema(t)) ELSE models[t]]
  BY DEF ViewSchema
<1>2. UNCHANGED << providers, rows >>
  BY DEF ViewSchema, registryVars
<1>3. \A t : Schema(t)' = Schema(t)
  BY <1>2 DEF Schema
<1>4. DOMAIN models' = DOMAIN models \cup {target}
  BY <1>1
<1>5. \A t \in DOMAIN models' : models'[t] = SectionizeTypedRows(Schema(t))
  BY <1>1, <1>4 DEF SchemaInv
<1> QED
  BY <1>1, <1>2, <1>3, <1>4, <1>5 DEF SchemaInv, WellBundled

LEMMA RestKeepsSchemas ==
  ASSUME SchemaInv, UNCHANGED << providers, rows, models >>
  PROVE  SchemaInv'
<1>1. \A target : Schema(target)' = Schema(target)
  BY DEF Schema
<1> QED
  BY <1>1 DEF SchemaInv, WellBundled

LEMMA StepKeepsSchemas ==
  ASSUME RegistryInv, SchemaInv, [Next]_vars
  PROVE  SchemaInv'
<1>1. CASE FailRegistration \/ LoadPack
  <2>1. /\ phase = "loading" /\ todo # << >> /\ Refusal = "none"
        /\ providers' = Registration.held /\ UNCHANGED << rows, models >>
    BY <1>1 DEF FailRegistration, LoadPack, viewVars
  <2> QED
    BY <2>1, RegisteringKeepsSchemas
<1>2. CASE RebuildSchemas
  BY <1>2, RebuildKeepsSchemas
<1>3. CASE ViewSchema
  BY <1>3, ViewKeepsSchemas
<1>4. CASE UNCHANGED << providers, rows, models >>
  BY <1>4, RestKeepsSchemas
<1>5. CASE LoadFromDirectory \/ SkipRuleFile \/ DiscoverManifest \/ StartOrdering
  BY <1>4, <1>5 DEF LoadFromDirectory, SkipRuleFile, DiscoverManifest, StartOrdering,
                    registryVars, viewVars
<1>6. CASE Dequeue \/ FinishOrdering \/ RejectPack \/ ReturnResult \/ Crash
  BY <1>4, <1>6 DEF Dequeue, FinishOrdering, RejectPack, ReturnResult, Crash,
                    registryVars, viewVars
<1>7. CASE RebuildTypes \/ RebuildSemantics \/ RebuildActions
  BY <1>4, <1>7 DEF RebuildTypes, RebuildSemantics, RebuildActions, registryVars
<1>8. CASE UNCHANGED vars
  BY <1>4, <1>8 DEF vars, registryVars, viewVars
<1> QED
  BY <1>1, <1>2, <1>3, <1>5, <1>6, <1>7, <1>8 DEF Next

\* What is said of one target.
LEMMA ViewsOfATarget ==
  ASSUME SchemaInv, NEW target \in DOMAIN models
  PROVE  AreRows(Schema(target)) /\ IsTyped(models[target], Schema(target))
<1>1. target \in Targets /\ models[target] = SectionizeTypedRows(Schema(target))
  BY DEF SchemaInv
<1>2. AreRows(Schema(target))
  BY <1>1, ResolvedAreRows DEF SchemaInv, Schema
<1> QED
  BY <1>1, <1>2, TypedSections

(***************************************************************************)
(* The views of a schema agree: the section models, kept since they were   *)
(* first asked for, are those of the rows as they are now, whatever was    *)
(* registered and rebuilt meanwhile; each row is shown once and in order,  *)
(* and a successful response lists every row.                              *)
(***************************************************************************)
THEOREM ViewsShowTheSchema == Spec => []SchemaViewsAgree
<1>1. Init => SchemaInv
  BY InitSchemas
<1>2. RegistryInv /\ SchemaInv /\ [Next]_vars => SchemaInv'
  BY StepKeepsSchemas
<1>3. SchemaInv => SchemaViewsAgree
  <2> SUFFICES ASSUME SchemaInv, NEW target \in DOMAIN models
               PROVE  LET schema == Schema(target)
                          plain == SectionizeRows(schema)
                          typed == models[target]
                          Keys(section) == [i \in DOMAIN section.fields |-> section.fields[i].key]
                      IN  /\ [k \in DOMAIN typed |-> << typed[k].title, Keys(typed[k]) >>]
                                = [k \in DOMAIN plain |-> << plain[k].title, Keys(plain[k]) >>]
                          /\ \A row \in Range(schema) :
                                Cardinality(ShownIn(typed, Len(schema), row.key))
                                   = Cardinality({i \in DOMAIN schema : schema[i].key = row.key})
                          /\ \A k \in DOMAIN typed : \A i, j \in DOMAIN typed[k].fields :
                                i < j => typed[k].fields[i].order <= typed[k].fields[j].order
                          /\ SchemaResponse(schema).success =>
                                Len(SchemaResponse(schema).entries) = Len(schema)
    BY DEF SchemaViewsAgree, ShownIn, PlacesIn
  <2> DEFINE schema == Schema(target)
             typed == models[target]
  <2>1. AreRows(schema) /\ IsTyped(typed, schema)
    BY ViewsOfATarget
  <2> HIDE DEF schema, typed
  <2>2. LET plain == SectionizeRows(schema)
            Keys(section) == [i \in DOMAIN section.fields |-> section.fields[i].key]
        IN  [k \in DOMAIN typed |-> << typed[k].title, Keys(typed[k]) >>]
               = [k \in DOMAIN plain |-> << plain[k].title, Keys(plain[k]) >>]
    BY <2>1, SameTitlesAndKeys
  <2>3. \A row \in Range(schema) :
           Cardinality(ShownIn(typed, Len(schema), row.key))
              = Cardinality({i \in DOMAIN schema : schema[i].key = row.key})
    BY <2>1, KeysAreShown
  <2>4. \A k \in DOMAIN typed : \A i, j \in DOMAIN typed[k].fields :
           i < j => typed[k].fields[i].order <= typed[k].fields[j].order
    BY <2>1, SectionsAscend
  <2>5. SchemaResponse(schema).success => Len(SchemaResponse(schema).entries) = Len(schema)
    BY <2>1, ResponsesAreWhole
  <2> QED
    BY <2>2, <2>3, <2>4, <2>5 DEF schema, typed
<1>4. Inv /\ RegistryInv /\ [Next]_vars => RegistryInv'
  BY StepKeepsRegistry
<1>5. Init => RegistryInv
  BY InitRegistry
<1> QED
  BY <1>1, <1>2, <1>3, <1>4, <1>5, LoaderInvariant, PTL DEF Spec

-----------------------------------------------------------------------------
(***************************************************************************)
(* The rule file: the safety half of the reload's promise, for any number  *)
(* of changes and of calls of startWatchingFile.  While the path is in the *)
(* watcher and the rules are not those of a file that compiles, a          *)
(* notification or a reload is still to come; RulesCatchUp, which TLC      *)
(* checks, is this under the fairness of the event loop.                   *)
(*                                                                         *)
(* The promise is not inductive.  A change of the file can leave no        *)
(* notification when the file is not watched, so the invariant says what   *)
(* is watched, and that a listed path without a watch has the news of its  *)
(* lost file still to come.                                                *)
(***************************************************************************)
CONSTANTS NoRuleFile, NotWatched, Uncompilable, MaxRuleChanges, MaxRuleStarts

VARIABLES ruleFile, ruleChanges, ruleWatch, ruleListed, ruleNews, rulePc,
          ruleStarts, ruleSource

Reload ==
  INSTANCE RuleReload
  WITH NoFile <- NoRuleFile, Unwatched <- NotWatched, Bad <- Uncompilable,
       MaxChanges <- MaxRuleChanges, MaxStarts <- MaxRuleStarts,
       file <- ruleFile, changes <- ruleChanges, watched <- ruleWatch,
       listed <- ruleListed, news <- ruleNews, pc <- rulePc,
       starts <- ruleStarts, rules <- ruleSource

\* The rules are those of the file, or the file is one that does not compile.
Current == ruleFile.content = Uncompilable \/ ruleSource = ruleFile.content

\* As long as the path is in the watcher's list, out-of-date rules are never
\* all there is: a notification or a reload is on its way.
NoChangeIsMissed ==
    ruleListed /\ ruleFile # NoRuleFile /\ ~Current => ruleNews # << >> \/ rulePc # "idle"

\* The news that the file is gone is in the waiting.
GoneIn(waiting) == \E k \in DOMAIN waiting : waiting[k] = "gone"

\* What the variables hold.
Shapes ==
    /\ ruleFile \in Reload!Files \cup {NoRuleFile}
    /\ ruleChanges \in Nat
    /\ ruleNews \in Seq({"changed", "gone"})

\* What is watched is the file at the path.
WatchIsOnTheFile ==
    ruleWatch # NotWatched => ruleFile # NoRuleFile /\ ruleWatch = ruleFile.number

\* A path that is listed without a watch on its file will be dropped.
LostWatchIsNews ==
    ruleListed /\ (ruleFile = NoRuleFile \/ ruleWatch # ruleFile.number) => GoneIn(ruleNews)

\* The invariant.
ReloadInv == Shapes /\ WatchIsOnTheFile /\ LostWatchIsNews /\ NoChangeIsMissed

----------------------------------------------------------------------------

\* A notification that is added keeps those that are there, and is there.
LEMMA NotifiedKeeps ==
    ASSUME ruleNews \in Seq({"changed", "gone"}), NEW what \in {"changed", "gone"}
    PROVE  /\ Reload!Notified(what) \in Seq({"changed", "gone"})
           /\ Reload!Notified(what) # << >>
           /\ GoneIn(ruleNews) => GoneIn(Reload!Notified(what))
           /\ what = "gone" => GoneIn(Reload!Notified(what))
<1>1. CASE ruleNews # << >> /\ ruleNews[Len(ruleNews)] = what
  <2>1. Reload!Notified(what) = ruleNews
    BY <1>1 DEF Reload!Notified
  <2>2. Len(ruleNews) \in DOMAIN ruleNews
    BY <1>1
  <2> QED
    BY <1>1, <2>1, <2>2 DEF GoneIn
<1>2. CASE ~(ruleNews # << >> /\ ruleNews[Len(ruleNews)] = what)
  <2>1. Reload!Notified(what) = Append(ruleNews, what)
    BY <1>2 DEF Reload!Notified
  <2>2. /\ Append(ruleNews, what) \in Seq({"changed", "gone"})
        /\ Append(ruleNews, what) # << >>
        /\ DOMAIN Append(ruleNews, what) = 1 .. Len(ruleNews) + 1
        /\ Append(ruleNews, what)[Len(ruleNews) + 1] = what
        /\ \A k \in 1 .. Len(ruleNews) : Append(ruleNews, what)[k] = ruleNews[k]
    OBVIOUS
  <2>3. DOMAIN ruleNews = 1 .. Len(ruleNews) /\ Len(ruleNews) \in Nat
    OBVIOUS
  <2>4. GoneIn(ruleNews) => GoneIn(Append(ruleNews, what))
    BY <2>2, <2>3 DEF GoneIn
  <2>5. what = "gone" => GoneIn(Append(ruleNews, what))
    BY <2>2, <2>3 DEF GoneIn
  <2> QED
    BY <2>1, <2>2, <2>4, <2>5
<1> QED
  BY <1>1, <1>2

\* News that are there are news.
LEMMA GoneIsNews == GoneIn(ruleNews) => ruleNews # << >>
BY DEF GoneIn

\* When the file at the path is gone, a listed path has the news of it.
LEMMA GoneStep ==
    ASSUME ReloadInv, Reload!Gone
    PROVE  /\ ruleNews' \in Seq({"changed", "gone"})
           /\ ruleWatch' = NotWatched
           /\ ruleListed => GoneIn(ruleNews')
<1>1. CASE ruleFile # NoRuleFile /\ ruleWatch = ruleFile.number
  <2>1. ruleNews' = Reload!Notified("gone") /\ ruleWatch' = NotWatched
    BY <1>1 DEF Reload!Gone
  <2> QED
    BY <2>1, NotifiedKeeps DEF ReloadInv, Shapes
<1>2. CASE ~(ruleFile # NoRuleFile /\ ruleWatch = ruleFile.number)
  <2>1. ruleNews' = ruleNews /\ ruleWatch' = ruleWatch
    BY <1>2 DEF Reload!Gone
  <2>2. ruleWatch = NotWatched
    BY <1>2 DEF ReloadInv, WatchIsOnTheFile
  <2> QED
    BY <1>2, <2>1, <2>2 DEF ReloadInv, Shapes, LostWatchIsNews
<1> QED
  BY <1>1, <1>2

\* The invariant holds at first, and every step keeps it:
LEMMA InitReload == Reload!Init => ReloadInv
BY DEF Reload!Init, Reload!Files, ReloadInv, Shapes, WatchIsOnTheFile, LostWatchIsNews, NoChangeIsMissed

\* writing in place,
LEMMA WriteReload ==
    ASSUME NoRuleFile \notin Reload!Files
    PROVE  ReloadInv /\ Reload!WriteInPlace => ReloadInv'
<1> SUFFICES ASSUME ReloadInv, Reload!WriteInPlace PROVE ReloadInv'
  OBVIOUS
<1>1. /\ UNCHANGED << ruleWatch, ruleListed, rulePc >>
      /\ ruleFile # NoRuleFile /\ ruleChanges' = ruleChanges + 1
      /\ ruleNews' = IF ruleWatch = ruleFile.number THEN Reload!Notified("changed") ELSE ruleNews
  BY DEF Reload!WriteInPlace
<1>2. PICK content \in Reload!Contents : ruleFile' = [ruleFile EXCEPT !.content = content]
  BY DEF Reload!WriteInPlace
<1>3. ruleFile \in Reload!Files /\ content \in Nat \cup {Uncompilable} /\ ruleChanges' \in Nat
  BY <1>1 DEF ReloadInv, Shapes, Reload!Contents
<1>4. ruleFile' \in Reload!Files /\ ruleFile'.number = ruleFile.number
  BY <1>2, <1>3 DEF Reload!Files
<1>5. ruleFile' # NoRuleFile
  BY <1>4
<1>6. CASE ruleWatch = ruleFile.number
  <2>1. ruleNews' = Reload!Notified("changed")
    BY <1>1, <1>6
  <2>2. Shapes' /\ ruleNews' # << >> /\ (GoneIn(ruleNews) => GoneIn(ruleNews'))
    BY <1>3, <1>4, <2>1, NotifiedKeeps DEF ReloadInv, Shapes
  <2> QED
    BY <1>1, <1>4, <1>5, <1>6, <2>2 DEF ReloadInv, WatchIsOnTheFile, LostWatchIsNews, NoChangeIsMissed, GoneIn
<1>7. CASE ruleWatch # ruleFile.number
  <2>1. ruleNews' = ruleNews
    BY <1>1, <1>7
  <2>2. ruleListed => GoneIn(ruleNews)
    BY <1>7 DEF ReloadInv, LostWatchIsNews
  <2>3. Shapes' /\ WatchIsOnTheFile'
    BY <1>1, <1>3, <1>4, <1>7, <2>1 DEF ReloadInv, Shapes, WatchIsOnTheFile
  <2> QED
    BY <1>1, <2>1, <2>2, <2>3, GoneIsNews
    DEF ReloadInv, LostWatchIsNews, NoChangeIsMissed, GoneIn
<1> QED
  BY <1>6, <1>7

\* that replace or remove it,
LEMMA LoseReload == ReloadInv /\ (Reload!Replace \/ Reload!Remove) => ReloadInv'
<1> SUFFICES ASSUME ReloadInv, Reload!Replace \/ Reload!Remove PROVE ReloadInv'
  OBVIOUS
<1>1. Reload!Gone /\ UNCHANGED << ruleListed, rulePc, ruleStarts, ruleSource >>
  BY DEF Reload!Replace, Reload!Remove
<1>2. /\ ruleNews' \in Seq({"changed", "gone"})
      /\ ruleWatch' = NotWatched
      /\ ruleListed => GoneIn(ruleNews')
  BY <1>1, GoneStep
<1>3. Shapes'
  <2>1. ruleChanges' \in Nat
    BY DEF Reload!Replace, Reload!Remove, ReloadInv, Shapes
  <2>2. ruleFile' \in Reload!Files \cup {NoRuleFile}
    BY <2>1 DEF Reload!Replace, Reload!Remove, ReloadInv, Shapes, Reload!Contents, Reload!Files
  <2> QED
    BY <1>2, <2>1, <2>2 DEF Shapes
<1>4. ruleListed' => GoneIn(ruleNews') /\ ruleNews' # << >>
  BY <1>1, <1>2 DEF GoneIn
<1> QED
  BY <1>2, <1>3, <1>4
  DEF ReloadInv, WatchIsOnTheFile, LostWatchIsNews, NoChangeIsMissed, GoneIn

\* addPath watches the file at the path, or leaves nothing listed.
LEMMA AddPathStep ==
    ASSUME Reload!AddPath, ruleFile' = ruleFile
    PROVE  /\ ruleWatch' # NotWatched => ruleFile' # NoRuleFile /\ ruleWatch' = ruleFile'.number
           /\ ruleListed' => ruleFile' # NoRuleFile /\ ruleWatch' = ruleFile'.number
BY DEF Reload!AddPath

\* of whoever starts the watching,
LEMMA StartReload == ReloadInv /\ Reload!StartWatchingFile => ReloadInv'
<1> SUFFICES ASSUME ReloadInv, Reload!StartWatchingFile PROVE ReloadInv'
  OBVIOUS
<1> USE DEF Reload!StartWatchingFile
<1>1. Shapes'
  BY DEF ReloadInv, Shapes
<1>2. /\ ruleWatch' # NotWatched => ruleFile' # NoRuleFile /\ ruleWatch' = ruleFile'.number
      /\ ruleListed' => ruleFile' # NoRuleFile /\ ruleWatch' = ruleFile'.number
  BY AddPathStep
<1> QED
  BY <1>1, <1>2 DEF ReloadInv, WatchIsOnTheFile, LostWatchIsNews, NoChangeIsMissed

\* of the event loop,
LEMMA FileChangedReload == ReloadInv /\ Reload!FileChanged => ReloadInv'
<1> SUFFICES ASSUME ReloadInv, Reload!FileChanged PROVE ReloadInv'
  OBVIOUS
<1> USE DEF Reload!FileChanged
<1>1. ruleNews \in Seq({"changed", "gone"}) /\ ruleNews # << >>
  BY DEF ReloadInv, Shapes
<1>2. /\ Tail(ruleNews) \in Seq({"changed", "gone"})
      /\ Len(ruleNews) \in Nat \ {0} /\ DOMAIN ruleNews = 1 .. Len(ruleNews)
      /\ DOMAIN Tail(ruleNews) = 1 .. Len(ruleNews) - 1
      /\ \A k \in 1 .. Len(ruleNews) - 1 : Tail(ruleNews)[k] = ruleNews[k + 1]
      /\ Head(ruleNews) = ruleNews[1]
  BY <1>1
<1>3. Shapes'
  BY <1>2 DEF ReloadInv, Shapes
<1>4. ASSUME GoneIn(ruleNews), Head(ruleNews) # "gone" PROVE GoneIn(Tail(ruleNews))
  <2>1. PICK k \in 1 .. Len(ruleNews) : ruleNews[k] = "gone"
    BY <1>2, <1>4 DEF GoneIn
  <2>2. k - 1 \in 1 .. Len(ruleNews) - 1 /\ (k - 1) + 1 = k
    BY <1>2, <1>4, <2>1
  <2> QED
    BY <1>2, <2>1, <2>2 DEF GoneIn
<1>5. WatchIsOnTheFile'
  BY DEF ReloadInv, WatchIsOnTheFile
<1>6. LostWatchIsNews'
  BY <1>4 DEF ReloadInv, LostWatchIsNews, GoneIn
<1> QED
  BY <1>3, <1>5, <1>6 DEF ReloadInv, NoChangeIsMissed

\* and of the service,
LEMMA OnWatchedReload == ReloadInv /\ Reload!OnWatchedFileChanged => ReloadInv'
<1> SUFFICES ASSUME ReloadInv, Reload!OnWatchedFileChanged PROVE ReloadInv'
  OBVIOUS
<1> USE DEF Reload!OnWatchedFileChanged
<1>1. Shapes' /\ NoChangeIsMissed'
  BY DEF ReloadInv, Shapes, NoChangeIsMissed
<1>2. WatchIsOnTheFile' /\ LostWatchIsNews'
  BY AddPathStep DEF ReloadInv, WatchIsOnTheFile, LostWatchIsNews, GoneIn
<1> QED
  BY <1>1, <1>2 DEF ReloadInv

\* up to the reload.
LEMMA ReloadNowReload == ReloadInv /\ Reload!ReloadNow => ReloadInv'
BY DEF Reload!ReloadNow, ReloadInv, Shapes, WatchIsOnTheFile, LostWatchIsNews,
       NoChangeIsMissed, Current, GoneIn

\* All of it together.
LEMMA StepReload ==
    ASSUME NoRuleFile \notin Reload!Files
    PROVE  ReloadInv /\ [Reload!Next]_(Reload!vars) => ReloadInv'
<1> SUFFICES ASSUME ReloadInv, [Reload!Next]_(Reload!vars) PROVE ReloadInv'
  OBVIOUS
<1>1. CASE UNCHANGED Reload!vars
  BY <1>1 DEF Reload!vars, ReloadInv, Shapes, WatchIsOnTheFile, LostWatchIsNews,
              NoChangeIsMissed, Current, GoneIn
<1> QED
  BY <1>1, WriteReload, LoseReload, StartReload, FileChangedReload,
     OnWatchedReload, ReloadNowReload DEF Reload!Next

\* Whatever other programs do to the rule file and whenever they do it, the
\* service never rests on out-of-date rules: while the path is in the watcher
\* and the file compiles to other rules, a notification or a reload is to come.
\* The assumption is NoFileIsNoFile of RuleReload.
THEOREM ReloadMissesNoChange ==
    ASSUME NoRuleFile \notin Reload!Files
    PROVE  Reload!Spec => []NoChangeIsMissed
<1>1. ReloadInv => NoChangeIsMissed
  BY DEF ReloadInv
<1> QED
  BY <1>1, InitReload, StepReload, PTL DEF Reload!Spec

=============================================================================
