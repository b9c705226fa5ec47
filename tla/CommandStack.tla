---------------------------- MODULE CommandStack ----------------------------
(***************************************************************************)
(* Every undoable edit of the graph: the commands (GraphCommands), the     *)
(* stack that executes, merges, undoes and redoes them (UndoStack), and    *)
(* the two ways commands reach it: checked, through CommandGateway or a    *)
(* strict GraphEditorController, which test the registered invariants      *)
(* before and after and roll back, or pushed onto the stack directly, as   *)
(* the property panel does.                                                *)
(*                                                                         *)
(* The document is the two lists of GraphModel, with IdCollection's        *)
(* lookups by id, and the attributes of the objects; a position stands for *)
(* everything of a component that is no id.  Ownership is modelled,        *)
(* because commands hold raw pointers: an object is alive or not, and is   *)
(* deleted with the command that owns it.                                  *)
(***************************************************************************)
EXTENDS Integers, Sequences, SequencesExt, FiniteSets

CONSTANTS
  Component, Connection,   \* the objects, alive or not yet allocated
  Id, ConnectionId,        \* their ids
  Place,                   \* where a component may be
  None,                    \* nullptr
  Legal(_),                \* InvariantChecker::checkAll() of a document
  Callers,                 \* what callers do besides checked requests
  MaxCommands              \* bound on the length of the stack

Object == Component \cup Connection

(***************************************************************************)
(* What callers are known to do besides making checked requests: push      *)
(* without checks, create a component or a connection with an id that is   *)
(* taken, import a graph without clearing the stack first, rename to an id *)
(* that is taken.                                                          *)
(***************************************************************************)
CallersDo == {"direct", "reuse", "import", "rename"}

ASSUME CallersAreKnown == Callers \subseteq CallersDo
ASSUME NoneIsNoObject == None \notin Object
ASSUME KindsAreDisjoint == Component \cap Connection = {}
ASSUME BoundIsNatural == MaxCommands \in Nat

VARIABLES
  editor,   \* [doc, commands, index, alive]: the graph and the undo stack
  verdict,  \* what became of the last request
  past,     \* history: past[n] is the content after n - 1 commands
  checked   \* history: since a legal graph was loaded, only checked requests

vars == <<editor, verdict, past, checked>>

Collection == INSTANCE IdCollection
  WITH Object <- Object, Id <- Id \cup ConnectionId, NoObject <- None,
       list <- editor.doc.components, ids <- editor.doc.attr, batch <- FALSE

-----------------------------------------------------------------------------
(* The document. *)

IdsOf(d) == [o \in Object |-> d.attr[o].id]
Named(d, f, i) == Collection!FirstById(d[f], IdsOf(d), i)

Insert(d, f, o) ==
  IF Named(d, f, d.attr[o].id) = None THEN [d EXCEPT ![f] = Append(@, o)] ELSE d

Delete(d, f, i) ==
  LET o == Named(d, f, i)
  IN  IF o = None THEN d ELSE [d EXCEPT ![f] = Collection!Without(@, o)]

Assign(d, o, property, value) == [d EXCEPT !.attr[o][property] = value]

Touching(d, i) ==
  FoldLeft(LAMBDA found, c :
             IF i \in {d.attr[c].source, d.attr[c].target}
             THEN Append(found, c) ELSE found,
           <<>>, d.connections)

Shown(d) == ToSet(d.components) \cup ToSet(d.connections)

(***************************************************************************)
(* What the user sees: the objects shown and their attributes.  (The order *)
(* of a list is not restored: what was removed comes back at the end.)     *)
(***************************************************************************)
Content(d) == {<<o, d.attr[o]>> : o \in Shown(d)}

-----------------------------------------------------------------------------
(* The commands.  Redo and Undo give the document a command leaves, and    *)
(* the command itself, which notes what it removed and what it owns.       *)

Add(f, o) == [kind |-> "Add", list |-> f, object |-> o, owned |-> FALSE]
RemoveLink(i) ==
  [kind |-> "RemoveLink", id |-> i, object |-> None, owned |-> FALSE]
RemoveComponent(i) ==
  [kind |-> "RemoveComponent", id |-> i, object |-> None, owned |-> FALSE,
   links |-> <<>>, linkIds |-> <<>>]
Move(moves) == [kind |-> "Move", moves |-> moves]
Set(o, property, old, new) ==
  [kind |-> "Set", object |-> o, property |-> property, old |-> old, new |-> new]

(***************************************************************************)
(* MoveComponentCommand and MoveComponentsCommand find their components by *)
(* id, each time.                                                          *)
(***************************************************************************)
MoveAll(d, moves, which) ==
  FoldLeft(LAMBDA acc, m :
             LET o == Named(acc, "components", m.id)
             IN  IF o = None THEN acc ELSE Assign(acc, o, "at", m[which]),
           d, moves)

(***************************************************************************)
(* RemoveComponentWithConnectionsCommand::redo: the component and its      *)
(* connections are looked up once, the first time.                         *)
(***************************************************************************)
RedoRemoveComponent(k, d) ==
  LET o     == IF k.object = None THEN Named(d, "components", k.id) ELSE k.object
      fresh == k.links = <<>>
      links == IF fresh THEN Touching(d, k.id) ELSE k.links
      ids   == IF fresh THEN [p \in DOMAIN links |-> d.attr[links[p]].id]
               ELSE k.linkIds
      bare  == FoldLeft(LAMBDA acc, i : Delete(acc, "connections", i), d, ids)
  IN  IF o = None THEN [doc |-> d, command |-> k]
      ELSE [doc     |-> Delete(bare, "components", k.id),
            command |-> [k EXCEPT !.object = o, !.owned = TRUE,
                                  !.links = links, !.linkIds = ids]]

\* Mutant of UndoRemoveComponent: the command goes on owning what it restores.
UndoRemoveComponentOwning(k, d) ==
  IF k.object = None THEN [doc |-> d, command |-> k]
  ELSE [doc     |-> FoldLeft(LAMBDA acc, c : Insert(acc, "connections", c),
                             Insert(d, "components", k.object), k.links),
        command |-> k]

UndoRemoveComponent(k, d) ==
  IF k.object = None THEN [doc |-> d, command |-> k]
  ELSE [doc     |-> FoldLeft(LAMBDA acc, c : Insert(acc, "connections", c),
                             Insert(d, "components", k.object), k.links),
        command |-> [k EXCEPT !.owned = FALSE]]

Redo(k, d) ==
  CASE k.kind = "Add" ->
         [doc     |-> Insert(d, k.list, k.object),
          command |-> [k EXCEPT !.owned = FALSE]]
    [] k.kind = "RemoveLink" ->
         [doc     |-> Delete(d, "connections", k.id),
          command |-> [k EXCEPT !.object = Named(d, "connections", k.id),
                                !.owned = TRUE]]
    [] k.kind = "RemoveComponent" -> RedoRemoveComponent(k, d)
    [] k.kind = "Move" -> [doc |-> MoveAll(d, k.moves, "new"), command |-> k]
    [] k.kind = "Set" ->
         [doc |-> IF k.object = None THEN d
                  ELSE Assign(d, k.object, k.property, k.new),
          command |-> k]

Undo(k, d) ==
  CASE k.kind = "Add" ->
         [doc     |-> Delete(d, k.list, d.attr[k.object].id),
          command |-> [k EXCEPT !.owned = TRUE]]
    [] k.kind = "RemoveLink" ->
         IF k.object = None THEN [doc |-> d, command |-> k]
         ELSE [doc     |-> Insert(d, "connections", k.object),
               command |-> [k EXCEPT !.owned = FALSE]]
    [] k.kind = "RemoveComponent" -> UndoRemoveComponent(k, d)
    [] k.kind = "Move" -> [doc |-> MoveAll(d, k.moves, "old"), command |-> k]
    [] k.kind = "Set" ->
         [doc |-> IF k.object = None THEN d
                  ELSE Assign(d, k.object, k.property, k.old),
          command |-> k]

(***************************************************************************)
(* mergeWith(): two moves of the same components, two edits of the same    *)
(* property of the same object.  The older command keeps its old values.   *)
(***************************************************************************)
Merges(older, newer) ==
  /\ older.kind = newer.kind
  /\ \/ /\ older.kind = "Move"
        /\ Len(older.moves) = Len(newer.moves)
        /\ \A p \in DOMAIN older.moves : older.moves[p].id = newer.moves[p].id
     \/ /\ older.kind = "Set"
        /\ older.object = newer.object /\ older.property = newer.property

\* Mutant of Merged: the old values of the older command are lost.
MergedFromNewer(older, newer) == newer

Merged(older, newer) ==
  IF older.kind = "Set" THEN [older EXCEPT !.new = newer.new]
  ELSE [older EXCEPT !.moves = [p \in DOMAIN @ |->
                                  [@[p] EXCEPT !.new = newer.moves[p].new]]]

(***************************************************************************)
(* The objects a command deletes when it is deleted, and those it points   *)
(* to without Qt's help (property commands hold a QPointer, which a        *)
(* deletion turns into a nullptr).                                         *)
(***************************************************************************)
PointsTo(k) ==
  CASE k.kind = "RemoveComponent" -> ToSet(k.links) \cup ({k.object} \ {None})
    [] k.kind \in {"Add", "RemoveLink"} -> {k.object} \ {None}
    [] k.kind \in {"Move", "Set"} -> {}

Owned(k) ==
  IF k.kind \in {"Add", "RemoveLink", "RemoveComponent"} /\ k.owned
  THEN PointsTo(k) ELSE {}

Forgetting(k, gone) ==
  IF k.kind = "Set" /\ k.object \in gone THEN [k EXCEPT !.object = None] ELSE k

-----------------------------------------------------------------------------
(* The stack. *)

(***************************************************************************)
(* Deleting objects: nothing is left to be read where they were.           *)
(***************************************************************************)
Blank == [id |-> None]

Destroy(e, gone) ==
  [e EXCEPT !.alive = @ \ gone,
            !.doc.attr = [o \in Object |-> IF o \in gone THEN Blank ELSE @[o]],
            !.commands = [p \in DOMAIN @ |-> Forgetting(@[p], gone)]]

(***************************************************************************)
(* Deleting every command after the first n, with what they own.           *)
(***************************************************************************)
Truncate(e, n) ==
  Destroy([e EXCEPT !.commands = SubSeq(@, 1, n)],
          UNION {Owned(e.commands[p]) : p \in n + 1 .. Len(e.commands)})

DiscardRedoHistory(e) == Truncate(e, e.index)

Push(e, k) ==
  LET cut    == DiscardRedoHistory(e)
      top    == cut.index
      merges == top > 0 /\ Merges(cut.commands[top], k)
      run    == Redo(IF merges THEN Merged(cut.commands[top], k) ELSE k, cut.doc)
  IN  IF merges
      THEN [cut EXCEPT !.doc = run.doc, !.commands[top] = run.command]
      ELSE [cut EXCEPT !.doc = run.doc, !.index = @ + 1,
                       !.commands = Append(@, run.command)]

UndoTop(e) ==
  LET run == Undo(e.commands[e.index], e.doc)
  IN  IF e.index = 0 THEN e
      ELSE [e EXCEPT !.doc = run.doc, !.index = @ - 1,
                     !.commands[e.index] = run.command]

RedoNext(e) ==
  LET run == Redo(e.commands[e.index + 1], e.doc)
  IN  IF e.index = Len(e.commands) THEN e
      ELSE [e EXCEPT !.doc = run.doc, !.index = @ + 1,
                     !.commands[e.index + 1] = run.command]

\* Mutant of ClearStack: the index is not reset.
ClearStackKeepsIndex(e) == Truncate(e, 0)

ClearStack(e) == [Truncate(e, 0) EXCEPT !.index = 0]

(***************************************************************************)
(* A command of a caller, on the editor e (which is the current one, but   *)
(* for the object the caller has just allocated).                          *)
(***************************************************************************)
Becomes(e) ==
  /\ Len(e.commands) <= MaxCommands
  /\ editor' = e

After(e) == Append(SubSeq(past, 1, Len(e.commands)), Content(e.doc))

PushUnchecked(pushed) ==
  /\ "direct" \in Callers
  /\ Becomes(pushed)
  /\ past' = After(pushed)
  /\ verdict' = "none" /\ checked' = FALSE

BlockedBefore ==
  /\ ~Legal(editor.doc)
  /\ verdict' = "blocked"
  /\ UNCHANGED <<editor, past, checked>>

Accept(pushed) ==
  /\ Legal(editor.doc) /\ Legal(pushed.doc)
  /\ Becomes(pushed)
  /\ past' = After(pushed)
  /\ verdict' = "accepted" /\ UNCHANGED checked

\* Mutant of RollBack: the command that failed can be redone.
RollBackKeepsRedo(pushed) ==
  LET undone == UndoTop(pushed)
  IN  /\ Legal(editor.doc) /\ ~Legal(pushed.doc)
      /\ Becomes(undone)
      /\ past' = SubSeq(past, 1, undone.index + 1)
      /\ verdict' = "rolledBack" /\ UNCHANGED checked

RollBack(pushed) ==
  LET undone == DiscardRedoHistory(UndoTop(pushed))
  IN  /\ Legal(editor.doc) /\ ~Legal(pushed.doc)
      /\ Becomes(undone)
      /\ past' = SubSeq(past, 1, undone.index + 1)
      /\ verdict' = "rolledBack" /\ UNCHANGED checked

(***************************************************************************)
(* A caller's request for command k, with and without checks.              *)
(***************************************************************************)
Request(e, k) ==
  LET pushed == Push(e, k)
  IN  \/ PushUnchecked(pushed)
      \/ BlockedBefore
      \/ Accept(pushed)
      \/ RollBack(pushed)
-----------------------------------------------------------------------------
(* Requests. *)

With(o, attributes) ==
  [editor EXCEPT !.alive = @ \cup {o}, !.doc.attr[o] = attributes]

Free(objects) == objects \ editor.alive

Taken(f, i) == Named(editor.doc, f, i) # None

(***************************************************************************)
(* The gateway refuses a component id that is taken and callers make ids   *)
(* of their own, but createComponentWithId() takes any id.                 *)
(***************************************************************************)
AddComponent ==
  \E o \in Free(Component), i \in Id, x \in Place :
    /\ Taken("components", i) => "reuse" \in Callers
    /\ Request(With(o, [id |-> i, at |-> x]), Add("components", o))

(***************************************************************************)
(* The gateway does not ask whether the connection's id is taken; other    *)
(* callers make ids of their own.  pushAddConnectionBySpec() does not ask  *)
(* for the two components either.                                          *)
(***************************************************************************)
AddConnection ==
  \E o \in Free(Connection), i \in ConnectionId, s \in Id, t \in Id :
    LET e == With(o, [id |-> i, source |-> s, target |-> t])
        k == Add("connections", o)
    IN  /\ Taken("connections", i) => "reuse" \in Callers
        /\ IF Taken("components", s) /\ Taken("components", t) THEN Request(e, k)
           ELSE PushUnchecked(Push(e, k))

RemoveByRequest ==
  \/ \E i \in Id : Taken("components", i) /\ Request(editor, RemoveComponent(i))
  \/ \E i \in ConnectionId : Request(editor, RemoveLink(i))

(***************************************************************************)
(* A move of one component, or of several, from where they are.            *)
(***************************************************************************)
FewIds == {<<i>> : i \in Id} \cup {<<i, j>> : i, j \in Id}

PlaceOf(i) == editor.doc.attr[Named(editor.doc, "components", i)].at

MovesTo(ids, to) ==
  [p \in DOMAIN ids |-> [id |-> ids[p], old |-> PlaceOf(ids[p]), new |-> to[p]]]

MoveComponents ==
  \E ids \in FewIds : \E to \in [DOMAIN ids -> Place] :
    /\ IsInjective(ids)
    /\ \A p \in DOMAIN ids : Taken("components", ids[p])
    /\ \A p \in DOMAIN ids : PlaceOf(ids[p]) # to[p]
    /\ Request(editor, Move(MovesTo(ids, to)))

(***************************************************************************)
(* Setting a property; an unchanged value is no command.  A component that *)
(* is renamed leaves its connections behind, and nothing keeps a caller    *)
(* from choosing an id that is taken.                                      *)
(***************************************************************************)
SetProperty ==
  \E o \in Shown(editor.doc) :
    \E property \in DOMAIN editor.doc.attr[o] :
      \E new \in IF property = "at" THEN Place
                 ELSE IF property = "id" /\ o \in Connection THEN ConnectionId
                 ELSE Id :
        LET old == editor.doc.attr[o][property]
        IN  /\ old # new
            /\ property = "id" =>
                 \/ ~Taken(IF o \in Component THEN "components" ELSE "connections", new)
                 \/ "rename" \in Callers
            /\ Request(editor, Set(o, property, old, new))

UndoLast ==
  /\ editor.index > 0
  /\ editor' = UndoTop(editor)
  /\ verdict' = "none" /\ UNCHANGED <<past, checked>>

RedoLast ==
  /\ editor.index < Len(editor.commands)
  /\ editor' = RedoNext(editor)
  /\ verdict' = "none" /\ UNCHANGED <<past, checked>>

ForgetRedo ==
  /\ editor' = DiscardRedoHistory(editor)
  /\ past' = SubSeq(past, 1, editor.index + 1)
  /\ verdict' = "none" /\ UNCHANGED checked

(***************************************************************************)
(* GraphModel::clear() deletes the objects shown.                          *)
(***************************************************************************)
Emptied(e) ==
  Destroy([e EXCEPT !.doc.components = <<>>, !.doc.connections = <<>>],
          Shown(e.doc))

ClearAll ==
  /\ editor' = ClearStack(Emptied(editor))
  /\ past' = <<Content(editor'.doc)>>
  /\ verdict' = "none" /\ checked' = Legal(editor'.doc)

(***************************************************************************)
(* ExportService::importFromJson, here of a graph with one component: the  *)
(* graph is cleared and loaded in a batch, and the stack is not told.      *)
(***************************************************************************)
Import ==
  \E o \in Free(Component), i \in Id, x \in Place :
    LET e == Emptied(With(o, [id |-> i, at |-> x]))
    IN  /\ editor.commands # <<>> => "import" \in Callers
        /\ editor' = [e EXCEPT !.doc.components = <<o>>]
        /\ past' = [past EXCEPT ![editor.index + 1] = Content(editor'.doc)]
        /\ verdict' = "none"
        /\ checked' = (Legal(editor'.doc) /\ editor.commands = <<>>)

Next ==
  \/ AddComponent
  \/ AddConnection
  \/ RemoveByRequest
  \/ MoveComponents
  \/ SetProperty
  \/ UndoLast
  \/ RedoLast
  \/ ForgetRedo
  \/ ClearAll
  \/ Import

Attributes ==
  [id : Id, at : Place] \cup
  [id : ConnectionId, source : Id, target : Id] \cup {Blank}

Init ==
  /\ editor = [doc |-> [components |-> <<>>, connections |-> <<>>,
                        attr |-> [o \in Object |-> Blank]],
               commands |-> <<>>, index |-> 0, alive |-> {}]
  /\ verdict = "none"
  /\ past = <<{}>>
  /\ checked = Legal(editor.doc)

Spec == Init /\ [][Next]_vars

-----------------------------------------------------------------------------
(* Properties. *)

TypeOK ==
  /\ editor.doc.components \in Seq(Component)
  /\ editor.doc.connections \in Seq(Connection)
  /\ editor.doc.attr \in [Object -> Attributes]
  /\ editor.index \in 0 .. Len(editor.commands)
  /\ Len(editor.commands) <= MaxCommands
  /\ editor.alive \subseteq Object
  /\ verdict \in {"none", "blocked", "accepted", "rolledBack"}
  /\ Len(past) = Len(editor.commands) + 1
  /\ checked \in BOOLEAN

(***************************************************************************)
(* At every position of the stack, reached by whatever sequence of pushes, *)
(* merges, undos, redos and roll-backs, the graph is again what it was     *)
(* when that position was first reached.                                   *)
(***************************************************************************)
HistoryIsExact == Content(editor.doc) = past[editor.index + 1]

(***************************************************************************)
(* Every object is deleted exactly once and never used afterwards: what is *)
(* alive is shown in the graph or owned by exactly one command, and what   *)
(* is shown, owned or pointed to is alive.                                 *)
(***************************************************************************)
OwnersOf(o) == {p \in DOMAIN editor.commands : o \in Owned(editor.commands[p])}

OneOwner ==
  /\ \A o \in editor.alive :
       Cardinality(OwnersOf(o)) = IF o \in Shown(editor.doc) THEN 0 ELSE 1
  /\ Shown(editor.doc) \subseteq editor.alive
  /\ \A p \in DOMAIN editor.commands :
       PointsTo(editor.commands[p]) \subseteq editor.alive

(***************************************************************************)
(* From a legal graph, checked requests lead to legal graphs only: no      *)
(* sequence of accepted, blocked and rolled-back requests, undos, redos    *)
(* and discarded histories ever shows one that the registered invariants   *)
(* refuse.                                                                 *)
(***************************************************************************)
CheckedStaysLegal == checked => Legal(editor.doc)

(***************************************************************************)
(* CommandGateway.h: after a post-command failure "graph state is restored *)
(* to pre-command".                                                        *)
(***************************************************************************)
RollBackRestores ==
  [][verdict' = "rolledBack" => Content(editor'.doc) = Content(editor.doc)]_vars
=============================================================================
