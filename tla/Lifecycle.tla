------------------------------ MODULE Lifecycle ------------------------------
(***************************************************************************)
(* The life of the syncd-go processes: main (syncd-go.go:208-249), restart *)
(* (253-276) and the start of each folder's goroutines (watchFolder,       *)
(* 387-440; createIgnoreFilter, 693-714).                                  *)
(*                                                                         *)
(* A change of the configuration file makes a folder goroutine start a new *)
(* process and then tell its own main to exit, so two processes overlap:   *)
(* both run goroutines and rsync on the same folders and share the         *)
(* .syignore files.  An rsync outlives the process that started it.        *)
(*                                                                         *)
(* Processes are numbered in the order in which they are started.  One     *)
(* folder goroutine stands for watchFolder and accumulateChanges.          *)
(***************************************************************************)
EXTENDS Naturals, FiniteSets

CONSTANTS
  Folders,        \* the folders of the configuration
  ConfigFolders,  \* those whose tree contains the configuration file
  Filtered,       \* those with filters of their own
  SyncEach,       \* TRUE iff every event starts a rsync (SyncType # "more", 527)
  MaxProcs,       \* bound: processes
  MaxEdits        \* bound: edits of the configuration file

ASSUME FoldersAssumption ==
  ConfigFolders \subseteq Folders /\ Filtered \subseteq Folders
ASSUME LifecycleBounds == MaxProcs \in Nat \ {0} /\ MaxEdits \in Nat /\ SyncEach \in BOOLEAN

VARIABLES
  file,        \* the configuration file: [edit |-> its version, whole |-> BOOLEAN]
  started,     \* number of processes started
  main,        \* state of each process's main goroutine
  known,       \* version of the configuration that each process has read
  fol,         \* state of each process's goroutine for each folder
  pending,     \* events of the configuration file that it has still to take
  children,    \* the processes that each process has started
  toClean,     \* folders whose .syignore the exiting main has still to remove
  ignoreFile,  \* each folder's .syignore: version of its writer, NoVersion or Stale
  rsync,       \* per folder, the processes with an rsync under way
  \* History, for the properties only: the <<process, folder>> whose goroutine is about
  \* to write or load .syignore and
  notRemoved,  \* could not remove it
  notWritten,  \* could not write it
  disturbed    \* somebody else has changed it meanwhile

Procs == 1..MaxProcs
Versions == 0..MaxEdits
NoVersion == MaxEdits + 1     \* there is none
Stale == MaxEdits + 2         \* a process that was killed has left it

fileVars == <<file, pending>>
procVars == <<started, main, known, children, toClean>>
history == <<notRemoved, notWritten, disturbed>>
ignoreVars == <<ignoreFile, history>>
vars == <<fileVars, procVars, fol, ignoreVars, rsync>>

Running(p) == main[p] \in {"running", "leaving"}
Watching(p, f) == fol[p][f] \in {"watching", "sync", "configSync", "restart", "sending"}

Init ==
  /\ file = [edit |-> 0, whole |-> TRUE]
  /\ started = 1
  /\ main = [p \in Procs |-> IF p = 1 THEN "loading" ELSE "none"]
  /\ known = [p \in Procs |-> NoVersion]
  /\ fol = [p \in Procs |-> [f \in Folders |-> "off"]]
  /\ pending = [p \in Procs |-> [f \in Folders |-> 0]]
  /\ children = [p \in Procs |-> {}] /\ toClean = [p \in Procs |-> {}]
  /\ ignoreFile \in [Folders -> {NoVersion, Stale}]
  /\ notRemoved = {} /\ notWritten = {} /\ disturbed = {}
  /\ rsync = [f \in Folders |-> {}]

-----------------------------------------------------------------------------
(* An editor truncates and rewrites the configuration file.  Both raise an *)
(* event in every goroutine that watches it.                               *)

Notice ==
  pending' = [p \in Procs |-> [f \in Folders |->
                IF f \in ConfigFolders /\ Watching(p, f)
                THEN pending[p][f] + 1 ELSE pending[p][f]]]

BeginEdit ==
  /\ file.whole /\ file.edit < MaxEdits
  /\ file' = [edit |-> file.edit + 1, whole |-> FALSE]
  /\ Notice
  /\ UNCHANGED <<procVars, fol, ignoreVars, rsync>>

EndEdit ==
  /\ ~file.whole
  /\ file' = [file EXCEPT !.whole = TRUE]
  /\ Notice
  /\ UNCHANGED <<procVars, fol, ignoreVars, rsync>>

-----------------------------------------------------------------------------
(* main: load, start the goroutines, wait for `stop`, clean up, exit.      *)

\* The faulty variant takes whatever part of the file it can read.
LoadTruncated(p) ==
  /\ main[p] = "loading"
  /\ main' = [main EXCEPT ![p] = "running"]
  /\ known' = [known EXCEPT ![p] = file.edit]
  /\ fol' = [fol EXCEPT ![p] = [f \in Folders |-> "resolve"]]
  /\ UNCHANGED <<fileVars, started, children, toClean, ignoreVars, rsync>>

\* getFolders (216-223).  A file that is not whole does not parse: log.Fatalf.
Load(p) ==
  /\ main[p] = "loading"
  /\ IF file.whole
     THEN /\ main' = [main EXCEPT ![p] = "running"]
          /\ known' = [known EXCEPT ![p] = file.edit]
          /\ fol' = [fol EXCEPT ![p] = [f \in Folders |-> "resolve"]]
     ELSE /\ main' = [main EXCEPT ![p] = "failed"]
          /\ UNCHANGED <<known, fol>>
  /\ UNCHANGED <<fileVars, started, children, toClean, ignoreVars, rsync>>

\* The receive from `stop` (239) takes the send of one goroutine (273).
Receive(p, f) ==
  /\ main[p] = "running" /\ fol[p][f] = "sending"
  /\ main' = [main EXCEPT ![p] = "leaving"]
  /\ toClean' = [toClean EXCEPT ![p] = Folders]
  /\ fol' = [fol EXCEPT ![p][f] = "watching"]
  /\ UNCHANGED <<fileVars, started, known, children, ignoreVars, rsync>>

\* The .syignore of f is removed or replaced.  This disturbs the goroutines of `others`
\* that are between their own removal and their load.
Becomes(f, version, others) ==
  /\ ignoreFile' = [ignoreFile EXCEPT ![f] = version]
  /\ disturbed' = (disturbed \ {<<p, f>> : p \in Procs \ others})
                    \cup {<<p, f>> : p \in {q \in others : fol[q][f] \in {"write", "load"}}}

\* The faulty variant waits for a goroutine that may itself wait to send.
CleanUpInTurn(p, f) ==
  /\ main[p] = "leaving" /\ f \in toClean[p] /\ fol[p][f] # "sending"
  /\ toClean' = [toClean EXCEPT ![p] = @ \ {f}]
  /\ Becomes(f, NoVersion, Procs)
  /\ UNCHANGED <<fileVars, started, main, known, children, fol, notRemoved, notWritten, rsync>>

\* Remove one folder's .syignore (241-246).  The error of os.Remove is ignored.  And
\* SrcRealPath is empty if the goroutine has not resolved it (406): then another file
\* is meant.
CleanUp(p, f) ==
  /\ main[p] = "leaving" /\ f \in toClean[p]
  /\ toClean' = [toClean EXCEPT ![p] = @ \ {f}]
  /\ \/ fol[p][f] \notin {"resolve", "unresolved"} /\ Becomes(f, NoVersion, Procs)
     \/ UNCHANGED <<ignoreFile, disturbed>>
  /\ UNCHANGED <<fileVars, started, main, known, children, fol, notRemoved, notWritten, rsync>>

ForgetHistory(goroutines) ==
  /\ notRemoved' = notRemoved \ goroutines
  /\ notWritten' = notWritten \ goroutines
  /\ disturbed' = disturbed \ goroutines

\* os.Exit (248) ends every goroutine wherever it is, but no rsync.
Exit(p) ==
  /\ main[p] = "leaving" /\ toClean[p] = {}
  /\ main' = [main EXCEPT ![p] = "dead"]
  /\ fol' = [fol EXCEPT ![p] = [f \in Folders |-> "off"]]
  /\ pending' = [pending EXCEPT ![p] = [f \in Folders |-> 0]]
  /\ ForgetHistory({p} \X Folders)
  /\ UNCHANGED <<file, started, known, children, toClean, ignoreFile, rsync>>

-----------------------------------------------------------------------------
(* watchFolder: the way to an installed watch.                             *)

\* Go from one state of the goroutine to another; os.Exit has not ended it.
Goes(p, f, from, to) ==
  /\ Running(p) /\ fol[p][f] = from
  /\ fol' = [fol EXCEPT ![p][f] = to]

\* The paths are resolved and SyncDir starts an rsync (392-412).
Resolve(p, f) ==
  /\ Goes(p, f, "resolve", "firstSync")
  /\ rsync' = [rsync EXCEPT ![f] = @ \cup {p}]
  /\ UNCHANGED <<fileVars, procVars, ignoreVars>>

\* A path (392-404) or the watch (425-437) fails: the goroutine returns.
SetupFails(p, f) ==
  /\ Goes(p, f, "resolve", "unresolved") \/ Goes(p, f, "install", "exited")
  /\ UNCHANGED <<fileVars, procVars, ignoreVars, rsync>>

\* SyncDir returns.  The faulty variant keeps a .syignore that may be there.
FirstSyncDoneKeepsFile(p, f) ==
  /\ p \notin rsync[f]
  /\ Goes(p, f, "firstSync", "load")
  /\ UNCHANGED <<fileVars, procVars, ignoreVars, rsync>>

\* A folder without filters uses the .syignore it finds (697).
FirstSyncDone(p, f) ==
  /\ p \notin rsync[f]
  /\ Goes(p, f, "firstSync", IF f \in Filtered THEN "remove" ELSE "load")
  /\ UNCHANGED <<fileVars, procVars, ignoreVars, rsync>>

\* Remove and rewrite .syignore (706-707); the new file appears at once, by a rename.
\* Both may fail, and the errors are ignored.
RemoveIgnores(p, f) ==
  /\ Goes(p, f, "remove", "write")
  /\ \/ Becomes(f, NoVersion, Procs \ {p}) /\ UNCHANGED notRemoved
     \/ /\ ignoreFile[f] # NoVersion
        /\ notRemoved' = notRemoved \cup {<<p, f>>}
        /\ UNCHANGED <<ignoreFile, disturbed>>
  /\ UNCHANGED <<fileVars, procVars, notWritten, rsync>>

WriteIgnores(p, f) ==
  /\ Goes(p, f, "write", "load")
  /\ \/ Becomes(f, known[p], Procs \ {p}) /\ UNCHANGED notWritten
     \/ notWritten' = notWritten \cup {<<p, f>>} /\ UNCHANGED <<ignoreFile, disturbed>>
  /\ UNCHANGED <<fileVars, procVars, notRemoved, rsync>>

\* Load it (709-713).  A missing file gives a filter without patterns.  The goroutine
\* keeps what it has loaded until it ends.
LoadIgnores(p, f) ==
  /\ Goes(p, f, "load", "install")
  /\ ForgetHistory({<<p, f>>})
  /\ UNCHANGED <<fileVars, procVars, ignoreFile, rsync>>

InstallWatch(p, f) ==
  /\ Goes(p, f, "install", "watching")
  /\ UNCHANGED <<fileVars, procVars, ignoreVars, rsync>>

-----------------------------------------------------------------------------
(* The folder at work: rsyncs for the events of its files, and restarts.   *)

StartSync(p, f) ==
  /\ Goes(p, f, "watching", "sync")
  /\ rsync' = [rsync EXCEPT ![f] = @ \cup {p}]
  /\ UNCHANGED <<fileVars, procVars, ignoreVars>>

SyncReturns(p, f) ==
  /\ p \notin rsync[f]
  /\ Goes(p, f, "sync", "watching") \/ Goes(p, f, "configSync", "restart")
  /\ UNCHANGED <<fileVars, procVars, ignoreVars, rsync>>

\* A rsync process ends, whether or not its parent is still there.
RsyncEnds(p, f) ==
  /\ p \in rsync[f]
  /\ rsync' = [rsync EXCEPT ![f] = @ \ {p}]
  /\ UNCHANGED <<fileVars, procVars, fol, ignoreVars>>

\* The faulty variant takes the zero values of a closed channel for events.
TakeAnyEvent(p, f) ==
  /\ pending' = [pending EXCEPT ![p][f] = @ - 1]
  /\ Goes(p, f, "watching", "restart")
  /\ UNCHANGED <<file, procVars, ignoreVars, rsync>>

\* An event of the configuration file starts a rsync like any other (527), and then
\* calls restart (534).
TakeConfigEvent(p, f) ==
  /\ pending[p][f] > 0
  /\ pending' = [pending EXCEPT ![p][f] = @ - 1]
  /\ IF SyncEach
     THEN Goes(p, f, "watching", "configSync") /\ rsync' = [rsync EXCEPT ![f] = @ \cup {p}]
     ELSE Goes(p, f, "watching", "restart") /\ UNCHANGED rsync
  /\ UNCHANGED <<file, procVars, ignoreVars>>

\* The event finds the channel or the map full (424, 515): nothing is restarted.
LoseConfigEvent(p, f) ==
  /\ pending[p][f] > 0 /\ Running(p)
  /\ pending' = [pending EXCEPT ![p][f] = @ - 1]
  /\ UNCHANGED <<file, procVars, fol, ignoreVars, rsync>>

\* The program is looked up and started (254-271); the goroutine then sends on `stop`.
\* The faulty variant sends without having started anything.
NoSuccessor(p) == UNCHANGED <<started, main, children>>
Successor(p) ==
  /\ started < MaxProcs
  /\ started' = started + 1
  /\ main' = [main EXCEPT ![started + 1] = "loading"]
  /\ children' = [children EXCEPT ![p] = @ \cup {started + 1}]

StartSuccessor(p, f) ==
  /\ Goes(p, f, "restart", "sending")
  /\ Successor(p)
  /\ UNCHANGED <<fileVars, known, toClean, ignoreVars, rsync>>

\* The faulty variant sends all the same.
RestartFailsButSends(p, f) ==
  /\ Goes(p, f, "restart", "sending")
  /\ UNCHANGED <<fileVars, procVars, ignoreVars, rsync>>

\* It is not found or not started (255-258, 268-271): everything goes on.
RestartFails(p, f) ==
  /\ Goes(p, f, "restart", "watching")
  /\ UNCHANGED <<fileVars, procVars, ignoreVars, rsync>>

MainStep(p) == Load(p) \/ Exit(p) \/ \E f \in Folders : Receive(p, f) \/ CleanUp(p, f)

FolderStep(p, f) ==
  \/ Resolve(p, f) \/ FirstSyncDone(p, f) \/ RemoveIgnores(p, f) \/ WriteIgnores(p, f)
  \/ LoadIgnores(p, f) \/ InstallWatch(p, f) \/ SyncReturns(p, f)
  \/ TakeConfigEvent(p, f) \/ StartSuccessor(p, f)

Next ==
  \/ BeginEdit \/ EndEdit
  \/ \E p \in Procs : MainStep(p)
  \/ \E p \in Procs, f \in Folders :
       FolderStep(p, f) \/ SetupFails(p, f) \/ LoseConfigEvent(p, f)
       \/ RestartFails(p, f)
       \/ StartSync(p, f) \/ RsyncEnds(p, f)

Spec == Init /\ [][Next]_vars

\* main, the goroutines and the rsyncs run on.  Nobody has to edit a file.  A goroutine
\* waits while its rsync runs, so one of the two is enabled at most.
Fairness ==
  /\ \A p \in Procs : WF_vars(MainStep(p))
  /\ \A p \in Procs, f \in Folders : WF_vars(FolderStep(p, f) \/ RsyncEnds(p, f))

FairSpec == Spec /\ Fairness

-----------------------------------------------------------------------------
(* Properties.                                                             *)

MainStates == {"none", "loading", "failed", "running", "leaving", "dead"}
FolderStates == {"off", "resolve", "unresolved", "firstSync", "remove", "write", "load",
                 "install", "exited", "watching", "sync", "configSync", "restart", "sending"}

\* Type invariant.
TypeOK ==
  /\ file \in [edit : Versions, whole : BOOLEAN]
  /\ started \in Procs
  /\ main \in [Procs -> MainStates]
  /\ known \in [Procs -> Versions \cup {NoVersion}]
  /\ fol \in [Procs -> [Folders -> FolderStates]]
  /\ pending \in [Procs -> [Folders -> Nat]]
  /\ children \in [Procs -> SUBSET Procs] /\ toClean \in [Procs -> SUBSET Folders]
  /\ ignoreFile \in [Folders -> Versions \cup {NoVersion, Stale}]
  /\ notRemoved \cup notWritten \cup disturbed \subseteq Procs \X Folders
  /\ rsync \in [Folders -> SUBSET Procs]

\* A process ends only in favour of another: at any time some process loads, runs or
\* is about to exit, or the newest one could not read the configuration file (an edit
\* was under way) and the service is gone.  It takes a restart that tells main to
\* exit without a successor, or a successor that is told to exit itself, to break it.
StillServed ==
  \/ \E p \in Procs : main[p] \in {"loading", "running", "leaving"}
  \/ main[started] = "failed"

\* What both rest on.  Goroutines live in running processes; a process that sends on
\* `stop`, cleans up or has exited has started a younger one (272-273); and all that
\* leads to a restart comes from an edit that the process has not read.
Restarting(p) ==
  \/ children[p] # {}
  \/ \E f \in Folders : pending[p][f] > 0 \/ fol[p][f] \in {"configSync", "restart", "sending"}

HandedOver ==
  /\ \A p \in Procs : (main[p] # "none") = (p <= started)
  /\ \A p \in Procs, f \in Folders : fol[p][f] # "off" => Running(p)
  /\ \A p \in Procs : children[p] \subseteq {q \in Procs : p < q /\ q <= started}
  /\ \A p \in Procs : main[p] \in {"leaving", "dead"} => children[p] # {}
  /\ \A p \in Procs, f \in Folders : fol[p][f] = "sending" => children[p] # {}
  /\ \A p \in Procs : Running(p) => known[p] <= file.edit /\ (~file.whole => known[p] < file.edit)
  /\ \A p \in Procs :
       Restarting(p) => main[p] \in {"running", "leaving", "dead"} /\ known[p] < file.edit

\* No restart is for nothing: a successor reads a newer configuration than the process
\* that has started it, so that one edit cannot keep processes replacing each other.
NewerSuccessor ==
  \A p \in Procs, q \in Procs :
    q \in children[p] /\ Running(q) => known[q] > known[p]

\* The .syignore that a goroutine with filters is about to load, to use it until it ends,
\* holds the patterns of the configuration that its process has read (706-711), whatever
\* was there before and however many processes use the folder.  There are two exceptions:
\* its own write failed, and then it has no patterns, or old ones if its removal failed
\* as well; or another process, or its own main on the way out, came between its removal
\* and its load, and then it has none, or those of the configuration that the other
\* process has read.
AccountedFor(p, f, version) ==
  \/ version = known[p]
  \/ <<p, f>> \in notWritten /\ (version = NoVersion \/ <<p, f>> \in notRemoved)
  \/ <<p, f>> \in disturbed /\ (version = NoVersion \/ \E q \in Procs \ {p} : version = known[q])

PatternsAccountedFor ==
  \A p \in Procs, f \in Filtered :
    fol[p][f] = "load" => AccountedFor(p, f, ignoreFile[f])

\* A goroutine that has called restart does not wait for ever: its process exits,
\* although main receives from `stop` only once and other goroutines may be waiting to
\* send, and one that it has started gets to read its configuration.  The last process
\* that the bound admits cannot restart.
RestartCompletes ==
  \A p \in 1..(MaxProcs - 1) :
    (\E f \in Folders : fol[p][f] = "sending")
      ~> main[p] = "dead" /\ \E q \in children[p] : main[q] # "loading"

\* "Restart uses path to itself and copy of environment to start new process. Then it
\* sends message to stop channel to shutdown itself." (251-252): one process takes the
\* place of another.
OneSuccessor == \A p \in Procs : Cardinality(children[p]) <= 1
=============================================================================
