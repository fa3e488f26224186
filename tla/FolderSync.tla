----------------------------- MODULE FolderSync -----------------------------
(***************************************************************************)
(* One folder of syncd-go from end to end: the source tree, the watcher of *)
(* zillode/notify, watchFolder (syncd-go.go:387-458), accumulateChanges,   *)
(* informChange, and the rsync processes that copy the files.              *)
(*                                                                         *)
(*   tree --Change--> raised --Dispatch--> queue (chan c, cap maxFiles)    *)
(*        --WaitForEvent--> hand --Deliver--> accumulateChanges            *)
(*        --Sync / callback--> todo, inflight --WriteFile--> target        *)
(*                                                                         *)
(* A file's contents are a version number; a version is read by rsync in   *)
(* one step and installed in the target in a later one.  Some versions     *)
(* stand for the absence of the file: it was removed, and may come back.   *)
(***************************************************************************)
EXTENDS ChangeAccumulator, PathAggregation, RsyncFilter

CONSTANTS
  Names,          \* what the paths are made of
  Files,          \* the files of the tree
  Dirs,           \* the directories that may be reported as changed themselves
  Ignored,        \* files that ignoreFilter or excludeFromFilter drops (450)
  RsyncExcluded,  \* those of them that folder.RsyncExcludes names as well
  StatHitsFolder, \* TRUE iff the working directory is the folder (os.Stat, 809)
  RsyncFaults,    \* TRUE iff rsync may fail or be missing
  WatchFaults,    \* TRUE iff notify.WatchWithFilter may fail
  QueueSize,      \* capacity of chan c; the program uses maxFiles (424)
  EarlyChanges,   \* TRUE iff files are written before their watch is installed, too
  Removals,       \* the <<file, version>> that stand for the absence of the file
  Delete,         \* the attribute of the folder: "", "running" or "true"
  NewFiles,       \* files in directories that are created after the start
  MaxVersion,     \* bound: writes to one file
  NoPath          \* not a path: the hand-over is empty

ASSUME FilesAssumption ==
  /\ Files \cap Dirs = {} /\ Files \cup Dirs \subseteq Paths
  /\ ConfigFile \notin Paths          \* the folder does not restart the program
  /\ RsyncExcluded \subseteq Ignored /\ Ignored \subseteq Files
  /\ Paths \subseteq Seq(Names) \ {Root} /\ NoPath \notin Paths
  /\ Paths \subseteq ToSet(SortOrder)
  \* Neither the folder itself nor anything that has a file below it is a file.
  /\ Dot \notin Files /\ \A f, g \in Files : ~IsStrictPrefix(f, g)
ASSUME RemovalAssumption == Delete \in {"", "running", "true"} /\ NewFiles \subseteq Files
ASSUME BoundAssumption == QueueSize \in Nat \ {0} /\ MaxVersion \in Nat \ {0}

VARIABLES
  src,       \* version of each file in the source
  dst,       \* version of each file in the target
  raised,    \* paths with an event that notify's goroutines have still to send
  queue,     \* chan c
  hand,      \* the path watchFolder is about to send to fsInput, or NoPath
  wpc,       \* watchFolder: "initial" rsync, "install" the watch, "watching", "exited"
  unwatched, \* files in directories without a watch
  todo,      \* files the running rsync has still to look at
  inflight,  \* <<file, version>> that the running rsync has read and not yet written
  lost       \* history: files whose last change was given up, and since when not read

treeVars == <<src, raised>>
watchVars == <<queue, hand, wpc, unwatched>>
copyVars == <<dst, todo, inflight>>
vars == <<accVars, treeVars, watchVars, copyVars, lost>>

Watched == Files \ Ignored
Settled == todo = {} /\ inflight = {}    \* no rsync has work left

Init ==
  /\ AccInit
  /\ src = [f \in Files |-> 0] /\ dst = [f \in Files |-> 0]
  /\ raised = {} /\ queue = <<>> /\ hand = NoPath
  /\ wpc = "initial" /\ unwatched = Files
  /\ todo = Files \ RsyncExcluded        \* SyncDir (412)
  /\ inflight = {} /\ lost = {}

-----------------------------------------------------------------------------
(* The source tree and notify.                                             *)

\* A program writes, removes or creates f.  The change is noticed if there is a watch;
\* otherwise only a rsync that has not looked at f yet will see it.  Events of one path
\* that are still to be sent are not told apart.
Noticed(f) ==
  /\ f \notin unwatched
  /\ raised' = raised \cup {f}
  /\ UNCHANGED lost

Unnoticed(f) ==
  /\ f \in unwatched /\ EarlyChanges
  /\ lost' = lost \cup (({f} \cap Watched) \ todo)
  /\ UNCHANGED raised

Change(f) ==
  /\ src[f] < MaxVersion
  /\ src' = [src EXCEPT ![f] = @ + 1]
  /\ Noticed(f) \/ Unnoticed(f)
  /\ UNCHANGED <<accVars, watchVars, copyVars>>

\* A directory is reported for a change of its entries or attributes.
ChangeDir(d) ==
  /\ wpc = "watching" /\ d \notin raised
  /\ raised' = raised \cup {d}
  /\ UNCHANGED <<accVars, src, watchVars, copyVars, lost>>

\* The send of notify would not block.  The faulty variant is off by one.
RoomForOneMore == Len(queue) <= QueueSize
RoomInQueue == Len(queue) < QueueSize

\* notify starts one goroutine per event: events of different paths are sent in any
\* order.  An event that finds the channel full is discarded.
Dispatch(p) ==
  /\ p \in raised
  /\ raised' = raised \ {p}
  /\ IF RoomInQueue
     THEN queue' = Append(queue, p) /\ UNCHANGED lost
     ELSE lost' = lost \cup ({p} \cap Watched) /\ UNCHANGED queue
  /\ UNCHANGED <<accVars, src, hand, wpc, unwatched, copyVars>>

-----------------------------------------------------------------------------
(* watchFolder.                                                            *)

\* cmd.Run (143) has returned, so rsync has exited.  The faulty variant goes on once
\* the last file was read.
RsyncReadAll == todo = {}
RsyncExited == Settled

\* SyncDir has returned and the watch is installed (415-440), on the directories that
\* are there.
InstallWatch ==
  /\ wpc = "initial" /\ RsyncExited
  /\ wpc' = "watching" /\ unwatched' = NewFiles
  /\ UNCHANGED <<accVars, treeVars, queue, hand, copyVars, lost>>

\* The watch fails (425-437): the goroutine returns and nothing watches the folder.
WatchFails ==
  /\ WatchFaults
  /\ wpc = "initial" /\ RsyncExited
  /\ wpc' = "exited"
  /\ UNCHANGED <<accVars, treeVars, queue, hand, unwatched, copyVars, lost>>

\* A directory is watched after its creation was dispatched (tree_nonrecursive.go:70-96).
\* What was written to it before raises no event.
WatchNewDirectory(f) ==
  /\ wpc = "watching" /\ f \in unwatched
  /\ unwatched' = unwatched \ {f}
  /\ UNCHANGED <<accVars, treeVars, queue, hand, wpc, copyVars, lost>>

\* ignoreFilter or excludeFromFilter holds (450).  The faulty variants filter nothing,
\* and take every event during a rsync for one of its own.
DropsNothing(p) == FALSE
DropsDuringSync(p) == p \in Ignored \/ ~Settled
Drops(p) == p \in Ignored

\* One round of the loop up to the send (446-455); an ignored path goes no further.
WaitForEvent ==
  /\ hand = NoPath /\ queue # <<>>
  /\ queue' = Tail(queue)
  /\ hand' = IF Drops(Head(queue)) THEN NoPath ELSE Head(queue)
  /\ UNCHANGED <<accVars, treeVars, wpc, unwatched, copyVars, lost>>

-----------------------------------------------------------------------------
(* accumulateChanges and the rsync processes it waits for.                 *)

\* One call of Sync (rsyncconfiguration.go:82-115) with these paths is started.  The
\* faulty variant skips paths that are tracked already.
StartSyncOfNew(paths) == todo' = Selected(paths \ inProgress, Files)
StartSync(paths) == todo' = Selected(paths, Files)

\* The send on fsInput meets the select (456, 499).  When every event is synced
\* (527-533) the rsync of this path starts; when the map is full the event is gone.
Deliver ==
  /\ wpc = "watching" /\ hand # NoPath
  /\ TakeEvent(hand)
  /\ hand' = NoPath
  /\ \/ /\ MapFull
        /\ lost' = lost \cup ({hand} \cap Watched)
        /\ UNCHANGED todo
     \/ /\ ~MapFull
        /\ IF SyncEach THEN StartSync({hand}) ELSE UNCHANGED todo
        /\ UNCHANGED lost
  /\ UNCHANGED <<treeVars, queue, wpc, unwatched, dst, inflight>>

Removed(p) == p \in Files /\ <<p, src[p]>> \in Removals

\* What os.Stat answers (808-816) for a path that is relative to the folder when it
\* is resolved in the working directory of the process.
Status == [p \in Paths \cup {Root} |->
             IF ~StatHitsFolder \/ p \in {Root, Dot} \/ Removed(p) THEN "deleted"
             ELSE IF p \in Files THEN "file" ELSE "directory"]

\* The paths that the callback is called with: the aggregated batch (582), or [""]
\* for the whole folder (591).
Subs == IF pc' = "rescan" THEN {Root} ELSE AggregateChanges(batch', Status)

\* The flush decides; a callback (informChange, 751-765) rsyncs only in "more" mode.
\* A watched file of the batch that this rsync does not select will be untracked
\* without having been copied.
FlushChanges ==
  /\ wpc = "watching"
  /\ Flush
  /\ IF pc' = "top" \/ SyncEach THEN UNCHANGED <<todo, lost>>
     ELSE /\ StartSync(Subs)
          /\ lost' = lost \cup ((batch' \cap Watched) \ todo')
  /\ UNCHANGED <<treeVars, watchVars, dst, inflight>>

\* Whether a rsync is given --delete: SyncDir for "true" only (66-69), Sync also for
\* "running" (99-102).  The faulty variant has the condition of SyncDir in both.
DeletesOnlyIfTrue == Delete = "true"
Deletes == Delete = "true" \/ (Delete = "running" /\ wpc # "initial")

\* rsync reads a file of the source, and later installs what it has read.  A file that
\* is not there any more is removed from the target with --delete only; otherwise its
\* removal is given up.
ReadFile(f) ==
  /\ f \in todo
  /\ todo' = todo \ {f}
  /\ IF Removed(f) /\ ~Deletes
     THEN lost' = lost \cup ({f} \cap Watched) /\ UNCHANGED inflight
     ELSE lost' = lost \ {f} /\ inflight' = inflight \cup {<<f, src[f]>>}
  /\ UNCHANGED <<accVars, treeVars, watchVars, dst>>

WriteFile(f, v) ==
  /\ <<f, v>> \in inflight
  /\ inflight' = inflight \ {<<f, v>>}
  /\ dst' = [dst EXCEPT ![f] = v]
  /\ UNCHANGED <<accVars, treeVars, watchVars, todo, lost>>

\* rsync is missing, or stops with an error (119-123, 143-146): Sync returns false,
\* which every caller only logs (530-532, 757-759) or ignores (412).
RsyncFails ==
  /\ RsyncFaults /\ ~Settled
  /\ lost' = lost \cup (Watched \cap (todo \cup {r[1] : r \in inflight}))
  /\ todo' = {} /\ inflight' = {}
  /\ UNCHANGED <<accVars, treeVars, watchVars, dst>>

\* Sync and informChange return when the rsync they started is done (cmd.Run, 143);
\* informChange returns nil in every case (764).
SyncDone ==
  /\ wpc = "watching" /\ RsyncExited
  /\ SyncReturns \/ CallbackReturns
  /\ UNCHANGED <<treeVars, watchVars, copyVars, lost>>

\* The rest of accumulateChanges.  The rsync of a reminder ([".syfolder"], 772)
\* selects no file of the tree.
Accumulate ==
  /\ wpc = "watching"
  /\ AccLocal
  /\ UNCHANGED <<treeVars, watchVars, copyVars, lost>>

Next ==
  \/ \E f \in Files : Change(f) \/ WatchNewDirectory(f) \/ ReadFile(f) \/ \E v \in 0..MaxVersion : WriteFile(f, v)
  \/ \E d \in Dirs : ChangeDir(d)
  \/ \E p \in Paths : Dispatch(p)
  \/ InstallWatch \/ WatchFails \/ WaitForEvent
  \/ Deliver \/ FlushChanges \/ SyncDone \/ Accumulate \/ RsyncFails

Spec == Init /\ [][Next]_vars

\* Goroutines, rsync and the clock run on; nothing makes a program write.  Deliver
\* and TakeTick compete in a select that picks at random.
Fairness ==
  /\ \A f \in Files : WF_vars(WatchNewDirectory(f)) /\ WF_vars(ReadFile(f))
  /\ \A f \in Files : WF_vars(\E v \in 0..MaxVersion : WriteFile(f, v))
  /\ \A p \in Paths : WF_vars(Dispatch(p)) /\ WF_vars(Accumulate /\ RipenPath(p))
  /\ WF_vars(InstallWatch) /\ WF_vars(WaitForEvent) /\ WF_vars(FlushChanges)
  /\ WF_vars(SyncDone) /\ WF_vars(Accumulate /\ (Started \/ LoopTop \/ RemindReturns))
  /\ WF_vars(Accumulate /\ TimerFires)
  /\ SF_vars(Deliver) /\ SF_vars(Accumulate /\ TakeTick)

FairSpec == Spec /\ Fairness

-----------------------------------------------------------------------------
(* Properties.                                                             *)

\* Type invariant.
TypeOK ==
  /\ AccTypeOK
  /\ src \in [Files -> 0..MaxVersion] /\ dst \in [Files -> 0..MaxVersion]
  /\ raised \subseteq Paths
  /\ queue \in Seq(Paths) /\ Len(queue) <= QueueSize
  /\ hand \in Paths \cup {NoPath}
  /\ wpc \in {"initial", "watching", "exited"} /\ unwatched \subseteq Files
  /\ todo \subseteq Files /\ inflight \subseteq Files \X (0..MaxVersion)
  /\ lost \subseteq Watched

InSync(f) == dst[f] = src[f]

\* The version of f in the source is on its way to the target: its event has not yet
\* reached accumulateChanges, or f waits there for a batch, or rsync has it.
OnItsWay(f) ==
  \/ f \in raised \/ f \in ToSet(queue) \/ f = hand
  \/ ~SyncEach /\ f \in inProgress \ batch
  \/ f \in todo \/ <<f, src[f]>> \in inflight

\* No change disappears silently: a watched file is in sync, or its newest version
\* is on its way, or it was given up at one of the places that do so knowingly
\* (channel full, map full, batch aggregated or truncated, rsync failed, not yet or
\* no longer watched, removed but not to be deleted) and has not been read since.  What the interleaving of
\* writers, notify, the accumulator and rsync must not do is to leave a file stale
\* with nothing under way, e.g. when it is written again while it is being copied.
NoSilentLoss == \A f \in Watched : InSync(f) \/ OnItsWay(f) \/ f \in lost

\* The inductive invariant behind the safety properties.  It adds that a version on
\* its way lies between those of target and source, that rsync holds at most one
\* version of a file, and that it does not look at a file twice.
CopyInv ==
  /\ \A f \in Files : dst[f] <= src[f]
  /\ \A r \in inflight : dst[r[1]] <= r[2] /\ r[2] <= src[r[1]] /\ r[1] \notin todo
  /\ \A r, s \in inflight : r[1] = s[1] => r = s

\* The target of a file never goes back to an older version: one rsync of the folder
\* ends before the next begins (cmd.Run blocks the goroutine that calls it).
TargetNeverRegresses == [][\A f \in Files : dst'[f] >= dst[f]]_vars

\* At most one rsync writes into the target: files are read and written only while
\* the one goroutine that may have started a rsync waits for it.
OneSyncAtATime ==
  ~Settled => \/ wpc = "initial"
              \/ pc = IF SyncEach THEN "sync" ELSE "report"

Inv == TypeOK /\ AccInv /\ CopyInv /\ OneSyncAtATime /\ NoSilentLoss

\* rsync compares a pattern with the end of a name.  No excluded file ends like a path
\* that may be handed to Sync: a watched path or, after aggregation, its directory.
ExcludedApart ==
  \A f \in RsyncExcluded, p \in Paths \ Ignored :
    \A q \in {p, Dir(p)} \ {Root} : ~EndsWith(f, q)

\* A file that the configuration excludes is never copied, neither by the first
\* rsync nor because its events, or those of other files, select it (450, 76-77).
ExcludedNeverCopied == ExcludedApart => \A f \in RsyncExcluded : dst[f] = 0

\* Nothing fails and nothing is too much: the map holds every file, the channel every
\* write, no batch makes a directory busy, every removal may be carried out, and files
\* are written only under a watch.
Calm ==
  /\ Dirs = {} /\ ~RsyncFaults /\ ~EarlyChanges
  /\ IsFiniteSet(Files)
  /\ Cardinality(Files) < MaxFiles /\ Cardinality(Files) * MaxVersion <= QueueSize
  /\ SyncEach \/ ~StatHitsFolder \/ Cardinality(Files) < DirVsFiles
  /\ \A f \in Files, v \in 0..MaxVersion :
       <<f, v>> \in Removals => Delete = "true" \/ (Delete = "running" /\ v > 0)

\* In a calm folder no change is given up at all: neither watchFolder, nor the map, nor
\* a batch that is cut while files are written again loses one (412-458, 499-599).
NothingLost == Calm => lost = {}

\* Every change of a watched file is in the target in the end, or was given up.
EventuallyMirrored ==
  \A f \in Watched : ~InSync(f) ~> (InSync(f) \/ f \in lost)

\* The chain keeps the promise of Mirror: whatever is lost on the way, the target only
\* ever moves forward to contents that the source has had (412-458, 527, 582).
Promise == INSTANCE Mirror WITH Promised <- Watched, source <- src, target <- dst, givenUp <- lost

MirrorsSource == Promise!MirrorSpec

\* And it goes on doing so: what is not given up is copied in the end.
MirrorsSourceFairly == Promise!FairMirrorSpec

\* "inform syncthing to rescan entire folder" (590): when the map is full, the whole
\* folder is looked at again.
FullMapRescansFolder ==
  [][pc = "flush" /\ pc' = "rescan" => Watched \subseteq todo']_vars

\* "If there are more than `dirVsFiles` changes in a directory, we inform Syncthing to
\* scan the entire directory" (821): when such changes are reduced to a directory that
\* has not changed itself, its files are looked at again.
DirectoryIsScanned ==
  [][pc = "flush" /\ pc' = "report" =>
       \A d \in Subs \ (batch' \cup {Root}) :
         Cardinality({f \in batch' : IsPrefix(d, f)}) > DirVsFiles
           => {f \in Watched : IsPrefix(d, f)} \subseteq todo']_vars

\* "Try to inform changes to syncthing and if succeeded, clean up" (581): a path is
\* not cleaned up if its changes could not be passed on.
CleanedUpOnlyIfSynced ==
  [][\A f \in (inProgress \ inProgress') \cap Watched : f \notin lost]_vars
=============================================================================
