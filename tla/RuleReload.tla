----------------------------- MODULE RuleReload -----------------------------
(***************************************************************************)
(* Hot reload of the rule file.  RuleHotReloadService watches a file; at   *)
(* every notification it makes sure the path is still watched, compiles    *)
(* the file and gives the result to RuleRuntimeRegistry, which keeps the   *)
(* rules it had when the file does not compile.                            *)
(*                                                                         *)
(* The file belongs to other programs: they write it in place, replace it  *)
(* by another file, remove it and create it again, also between two steps  *)
(* of the service.  The watcher is Qt's: it watches the file the path      *)
(* stood for when the path was added, forgets the path when it hands over  *)
(* the news that this file is gone, and cannot add a path with no file.    *)
(***************************************************************************)
EXTENDS Integers, Sequences

CONSTANTS
    NoFile,         \* nothing at the path
    Unwatched,      \* no file is watched
    Bad,            \* content that does not compile
    MaxChanges,     \* bound: changes of the file
    MaxStarts       \* bound: calls of startWatchingFile

Files == [number : Nat, content : Nat \cup {Bad}]

ASSUME NoFileIsNoFile == NoFile \notin Files

VARIABLES
    file,           \* the file at the path: which one, and its content
    changes,        \* changes so far; also names files and contents
    watched,        \* the file the watcher watches
    listed,         \* the path is in QFileSystemWatcher::files()
    news,           \* notifications the event loop has still to deliver
    pc,             \* what the service is doing
    starts,         \* calls of startWatchingFile so far
    rules           \* the content the registry's descriptor was compiled from

vars == << file, changes, watched, listed, news, pc, starts, rules >>

Init ==
    /\ file \in {NoFile, [number |-> 0, content |-> Bad], [number |-> 0, content |-> 0]}
    /\ changes = 0 /\ watched = Unwatched /\ listed = FALSE /\ news = << >>
    /\ pc = "idle" /\ starts = 0
    /\ rules = -1      \* an empty descriptor

----------------------------------------------------------------------------
(* Other programs change the file. *)

\* A notification; one that equals the last undelivered one is merged into it.
Notified(what) ==
    IF news # << >> /\ news[Len(news)] = what THEN news ELSE Append(news, what)

Contents == {Bad, changes + 1}

WriteInPlace ==
    /\ changes < MaxChanges /\ file # NoFile
    /\ changes' = changes + 1
    /\ \E content \in Contents : file' = [file EXCEPT !.content = content]
    /\ news' = IF watched = file.number THEN Notified("changed") ELSE news
    /\ UNCHANGED << watched, listed, pc, starts, rules >>

\* The file that was at the path is gone, and with it the watch on it.
Gone ==
    IF file # NoFile /\ watched = file.number
    THEN news' = Notified("gone") /\ watched' = Unwatched
    ELSE UNCHANGED << news, watched >>

Replace ==
    /\ changes < MaxChanges
    /\ changes' = changes + 1
    /\ \E content \in Contents : file' = [number |-> changes + 1, content |-> content]
    /\ Gone
    /\ UNCHANGED << listed, pc, starts, rules >>

Remove ==
    /\ changes < MaxChanges /\ file # NoFile
    /\ changes' = changes + 1
    /\ file' = NoFile
    /\ Gone
    /\ UNCHANGED << listed, pc, starts, rules >>

----------------------------------------------------------------------------
(* The service. *)

\* QFileSystemWatcher::addPath.
AddPath ==
    IF file # NoFile
    THEN listed' = TRUE /\ watched' = file.number
    ELSE listed' = FALSE /\ watched' = Unwatched

\* startWatchingFile() up to its call of reloadNow(): the news of a path that
\* is removed from the watcher are dropped.
StartWatchingFile ==
    /\ pc = "idle" /\ starts < MaxStarts
    /\ starts' = starts + 1
    /\ news' = << >>
    /\ AddPath
    /\ pc' = "reload"
    /\ UNCHANGED << file, changes, rules >>

\* The event loop delivers a notification.
FileChanged ==
    /\ pc = "idle" /\ news # << >>
    /\ listed' = (listed /\ Head(news) # "gone")
    /\ news' = Tail(news)
    /\ pc' = "watch"
    /\ UNCHANGED << file, changes, watched, starts, rules >>

\* Mutant of OnWatchedFileChanged: the file is compiled before it is watched.
OnWatchedFileChangedReloadFirst ==
    \/ /\ pc = "watch"
       /\ rules' = IF file # NoFile /\ file.content # Bad THEN file.content ELSE rules
       /\ pc' = "rewatch"
       /\ UNCHANGED << file, changes, watched, listed, news, starts >>
    \/ /\ pc = "rewatch"
       /\ IF listed THEN UNCHANGED << listed, watched >> ELSE AddPath
       /\ pc' = "idle"
       /\ UNCHANGED << file, changes, news, starts, rules >>

\* onWatchedFileChanged() up to its call of reloadNow().
OnWatchedFileChanged ==
    /\ pc = "watch"
    /\ IF listed THEN UNCHANGED << listed, watched >> ELSE AddPath
    /\ pc' = "reload"
    /\ UNCHANGED << file, changes, news, starts, rules >>

\* reloadNow() and applyCompileResult().
ReloadNow ==
    /\ pc = "reload"
    /\ rules' = IF file # NoFile /\ file.content # Bad THEN file.content ELSE rules
    /\ pc' = "idle"
    /\ UNCHANGED << file, changes, watched, listed, news, starts >>

Next ==
    \/ WriteInPlace \/ Replace \/ Remove
    \/ StartWatchingFile \/ FileChanged \/ OnWatchedFileChanged \/ ReloadNow

\* The event loop runs and handlers return; nobody has to change the file or to
\* call startWatchingFile.
Spec ==
    /\ Init /\ [][Next]_vars
    /\ WF_vars(FileChanged) /\ WF_vars(OnWatchedFileChanged) /\ WF_vars(ReloadNow)

----------------------------------------------------------------------------

\* The rules catch up with the file: when the changes have come to an end, and
\* as long as the path has not dropped out of the watcher, the rules are those
\* of the file if it compiles.  This is whatever happens to the file between
\* the notification, the renewed watch and the reading.
RulesCatchUp ==
    <>[](listed /\ file # NoFile =>
            LET content == file.content IN content = Bad \/ rules = content)

=============================================================================
