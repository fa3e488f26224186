# syncd-go: a TLA+ model of its synchronisation chain

syncd-go watches folders and copies what changes to a target with rsync. It was made
from syncthing-inotify: the Syncthing REST calls were replaced by rsync processes,
the event loop kept. The chain for one folder is

    programs write files -> inotify -> zillode/notify -> chan c (cap maxFiles)
      -> watchFolder (filter) -> fsInput (unbuffered) -> accumulateChanges
      -> rsync per event   (SyncType other than "more")
      -> rsync per batch   (SyncType "more": aggregateChanges, informChange)
      -> target

Source references are to `src/`; a bare number is a line of `src/syncd-go.go`.

## Inventory

| component | source | state | operations | modelled in |
|---|---|---|---|---|
| change accumulator | 460-610 | map inProgress, timer and interval, nextScanTime | event, tick, reminder, callback, restart | `ChangeAccumulator` |
| path aggregation | 783-896 | none (pure), asks os.Stat | sort, score, select | `PathAggregation`, its batches in `ChangeBatch` |
| rsync commands and filters | rsyncconfiguration.go | none; starts a process and waits | SyncDir, Sync, getFullFilter, Spawn | `RsyncFilter`, `FolderSync` |
| folder watcher | 387-458 | chan c, the event in hand, the filters | first rsync, install watch, loop | `FolderSync`, abstractly `Mirror` |
| notify (vendored) | zillode/notify | watch tree, channel | dispatch, discard, watch a new directory | its contract only, in `FolderSync` |
| process life cycle | 147-276 | processes, chan stop, goroutines, .syignore, the configuration file | load, restart, exit | `Lifecycle`; one folder's view in `ChangeAccumulator` |
| ignore filters | 640-723, folderconfiguration.go | .syignore | write, load, remove, match | `Lifecycle` (the file), `Configuration` (the filters), `FolderSync` (as sets) |
| configuration | config.go, folderconfiguration.go | folders, filters, ignored folders | read, prepare, clean, copy, write | `Configuration` |
| wrapper | wrapper.go | mutex, cfg, folder map | RawCopy, Replace, SetFolder, Folders, Load, Save | `Configuration`; `main` uses none of it at present |
| folder selection | getFolders, filterFolders | none | select by name | `Configuration` |
| flags, logging, home, rlimit | 147-225, rlimit_*.go | none | | not modelled: input and output |
| `syncwatcher.go.h` | upstream copy | | | not modelled: not compiled |

How they interact: `main` starts one `watchFolder` goroutine per folder; that one
starts `accumulateChanges` and hands it paths over an unbuffered channel, so it waits
while the accumulator runs a rsync, and chan c fills up behind it. The accumulator
calls `Sync` itself (527) or through its callback `informChange` (582, 591);
both block until rsync has exited. notify never blocks: an event that finds chan c
full is discarded. `restart` (253) is called by the accumulator when the configuration
file changed; `main` then receives from `stop` and exits.

What is hard: writers, notify's goroutines, the watcher, the accumulator and rsync
interleave freely; a file can be rewritten at any moment of its own copy; three
bounds (channel, map, aggregation threshold) discard or merge events; rsync failures
are only logged; a timer with two intervals is stopped, drained and restarted around
a `select` that picks at random. `PROJECT.json` lists these hazards at their lines.

What makes each component correct:

* accumulator: bounded memory; a tracked path is never left to the hourly timer; it
  is untracked only by a callback that returns nil; everything settled is reported.
* aggregation: nothing is aggregated away; a busy directory is scanned; a quiet one
  is not.
* filters: what is named is transferred, excluded files are not.
* chain: a changed file is copied, or on its way, or given up at a known place; the
  target never goes back; one rsync at a time; in the end target = source.
* life cycle: a process ends only in favour of a newer one that has read a newer
  configuration; no restart blocks for ever; a goroutine works with its own filters,
  unless a failure or another process accounts for others.
* configuration: ids are unique once checked; filters mean the same however often they
  are prepared; the cached map agrees with the folders; one watcher per folder.

## Modules

**`ChangeAccumulator`** models `accumulateChanges`. The goroutine is sequential: `pc`
says where it is ("select" is the Go select, "sync", "report", "rescan", "remind" and
"restart" are calls under way) and the other variables are its locals. Each segment of
the loop between two blocking points is one action: `LoopTop` (488-497), `TakeEvent` (499-544:
`SpeedUp`, then `Reject` or `Track`), `TakeTick` (545-550), `Flush` (551-600: one of `SlowDown`,
`NothingSettled`, `Report`, `Rescan`), `CallbackReturns`, `CallbackFails`, which differ in `err`.
Time enters through three comparisons that the environment switches on: a tracked
path has settled (`RipenPath`), the timer has fired (`TimerFires`), a reminder is due
(`ScanFallsDue`). `flushTimer` keeps the interval it was started with, because that
is what the properties are about. Branches on `!p.fsEvent` are left out: the only
writer of the map (521) always stores TRUE.

**`PathAggregation`** holds `AggregateChanges`: the rounds of the scoring loop (`Score`, 831-867)
over the sorted batch and those of the selection loop (`Select`, 876-894) over the sorted keys. Paths are sequences of names; the order of
`sort.Strings` is a constant sequence that holds every path once, after what is above it; the answers of os.Stat are a function.
Go's iteration over the map in 856-866 is order-independent, so it is one set-valued step.
**`ChangeBatch`** is the world around it: a batch that grows path by path with the answers a file
system could give, and the promises of the comments at 821-822 as invariants.

**`Subsequences`** has the loop `Kept` that appends the items to be kept to a list of their own, as
`filterFolders` (309-339), `getFolders` and the cleaning of ignored folders write it; sorting a set is the same loop over
`SortOrder`. It and the two loops above are recursive functions on the number of rounds, not folds or
`SelectSeq` of the libraries, because the proofs reason round by round.

**`RsyncFilter`** holds `GetFullFilter` and what rsync selects with such an include list and
`--exclude=*`. rsync is external: a pattern without a leading slash matches the end
of a name, and the descent stops at the first step that no pattern matches.

**`FolderSync`** composes the three with the tree, notify, the watcher and the rsync
process. It EXTENDS `ChangeAccumulator` and conjoins its actions: `Deliver` is `TakeEvent`
plus the hand-over, `FlushChanges` is `Flush` plus the start of the batch's rsync, `SyncDone` is
`SyncReturns` or `CallbackReturns`, `Accumulate` is the rest. File contents are version
numbers. rsync reads a version in `ReadFile` and installs it in `WriteFile`, so a write can
come between. `lost` is a history variable: the files whose newest change was knowingly given up
(channel full, map full, batch truncated or aggregated to something rsync does not
descend into, rsync failed, not watched, removed without `--delete`) and that no rsync has
read since. `Removals` says which versions stand for the absence of the file: it is removed
and comes back. rsync applies a removal only where `Deletes` holds, which differs between
`SyncDir` ("true" only, 66) and `Sync` ("true" or "running", 99). Files in `NewFiles` lie in
directories that come into being later: `WatchNewDirectory` is notify's step that adds the watch.

**`Mirror`** is what the chain promises, without channels, maps, batches or rsyncs: the
source is written, a target moves forward to some version the source has had, files may be
given up and taken up again; fairly, one that stays stale and is not given up is copied.
`FolderSync` implements it with `src`, `dst` and `lost` (`Promise`, `MirrorsSource`, `MirrorsSourceFairly`).

**`Lifecycle`** models the processes. `main[p]` is the state of a process's main goroutine,
`fol[p][f]` that of its goroutines for a folder (watchFolder and accumulateChanges as one,
since the former waits for the latter), `rsync[f]` the processes that have an rsync in the
folder. An edit of the configuration file is two steps, between which the file does not
parse; each raises an event in every goroutine that watches it. `TakeConfigEvent` leads to
`StartSuccessor` (or `RestartFails`), the send on `stop`, `Receive`, one `CleanUp` per folder, and `Exit`,
which ends all goroutines and no rsync. `Resolve` to `InstallWatch` are the way of a goroutine to its
watch, with the three steps of .syignore (`RemoveIgnores`, `WriteIgnores`, `LoadIgnores`) apart because those of
two processes interleave. `ignoreFile[f]` is the version of the configuration from which .syignore was written,
`NoVersion`, or `Stale` for one that a killed process left. The removals (244, 706) and the write (707) may fail without notice; a goroutine
that could not resolve its paths has no .syignore to be removed (`"unresolved"`). Three history variables
remember, until the load, whose removal or write failed and who was disturbed by somebody else. Processes are
numbered in the order of their start.

**`Configuration`** models the configuration, its wrapper and the selection of folders.
A folder is its id, its monitor attribute, its filters, and what `prepare` has made of them for rsync
(options, excludes); `own` remembers what the file said. The methods that hold the mutex are one action each;
`Save` does not hold it and is two (`SaveFolders`, `SaveIgnored`), between which the configuration may be
replaced. `spare` says whether the array behind the folders has room for another one: then
`AppendFolder`, which appends to the current folders and not to the copy (138), shares it.
`RsyncExcludes` and `Ignores` give a filter list its two meanings. `prepare` turns `**` into `*` in what it
makes for rsync and not in the filters (`ForRsync`, with the constant `Star`), and rsync matches its rules in a way of its own
(`RsyncMatch`); the assumption `StarAssumption` is that on the names of one directory the converted rule matches
what the filter does.

The operators called faulty variants (`SpeedUpNoReset`, `CallbackFailsForgets`, `ForgetAll`,
`RsyncReadAll` ...) stand before the definitions they deviate from and are used by no
action: put in the place of those, each makes a named property fail, which shows that the
property can.

## Runs

| run | configuration | shows |
|---|---|---|
| accumulator | `MCChangeAccumulator.cfg` | the loop of one folder, safety and liveness |
| aggregation | `MCPathAggregation.cfg` | every consistent batch of a ten-path tree |
| sync_each | `MCFolderSyncEach.cfg` | the chain, one rsync per event, all faults, late directories; all is mirrored or given up, as the fair `Mirror` does |
| sync_more | `MCFolderSyncMore.cfg` | the chain with batches, directory events, an excluded file, all faults; it implements `Mirror` |
| sync_calm | `MCFolderSyncCalm.cfg` | a calm folder (`Calm`: no faults, room everywhere): nothing is given up, all is mirrored |
| lifecycle | `MCLifecycle.cfg` | edits, restarts, overlapping processes and failing removals and writes of .syignore, safety and liveness |
| config | `MCConfiguration.cfg` | a configuration loaded, edited, replaced, extended and saved in any order |
| map_bound, full_map_rescan, directory_scan, clean_up, single_successor | five violations | see Findings |

Bounds. The accumulator cuts a batch only below maxFiles, asks for a rescan from maxFiles on, and
rejects events at maxFiles + 1. Five paths with MaxFiles = 3 reach all of these, with batches that are a
proper part of the map, and leave a path to reject; one of them is the configuration file. In sync_more
three watched paths (two files and their directory) with MaxFiles = 3 give batches of one and two paths and a full map; rejection is left to sync_each,
with MaxFiles = 1. A channel of 1 (sync_more) or 2 fills within a few events. Two writes per file (`MaxVersion`) are
what overtaking takes: one version in rsync's hands, a newer one in the source.
Two files give the interleavings of two paths, a third one in sync_more is excluded, a directory gives a batch that
aggregates. sync_calm has more room than the two files can fill. Of the two writes one may be a removal: a file comes back after it, another stays removed; the
three values of `Delete` are spread over the runs. The aggregation tree has
two levels of directories, siblings that sort between a directory and its contents
("-" and "." sort before "/"), thresholds of 2; the statuses are those a file system can
give (only directories have something below them).

lifecycle has one folder that contains the configuration file, two edits (four events) and three processes:
a process, two successors of it, or a chain of three, and a .syignore at the start or none. What several folders add is that more goroutines
send at once, which two events of one folder do as well; the theorems hold for any number. config starts
with up to two folders (duplicates included) of two ids and up to two ignored ids, grows to three folders, and makes up to two
changes (edits of a copy, replacements, loads) with copies, saves and map look-ups
between them; the filters are those of `config.xml` in kind: everything but scripts.

Deadlock is checked in the accumulator and sync_calm runs. sync_each and sync_more allow
the watch to fail, after which everything may stop; the aggregation behaviours end when the batch
holds every path. In lifecycle and config nobody has to edit, so they may stop as well.

Fairness. Goroutines, rsync and the clock run on (weak fairness). A call of `restart` returns unless main has already received
from `stop`: then its send may block until `os.Exit`, which main reaches. Nothing makes a
program write, an event come, a callback fail or the hourly timer fire. Taking the
tick and taking an event are strongly fair: a Go select picks uniformly among the ready
cases, so neither loses for ever. `ReminderSent` assumes in addition that the hourly
timer fires in the end, as a premise of the property. In `Lifecycle` each main goroutine and each
folder's goroutine or its rsync run on; edits, failures and lost events are never forced.

## Findings

* **full_map_rescan**: with maxFiles paths tracked the callback gets `[""]` (591); the
  include list is then empty and rsync transfers nothing, while all paths are
  untracked. `WholeFolderSelectsNothing` proves it for every tree.
* **directory_scan**: a batch with more than dirVsFiles changes in a directory is reduced to that directory (889),
  which gives an include pattern for the directory entry only; its files are not looked at.
* **map_bound**: the map comes to hold maxFiles + 1 paths (515 tests `>` before inserting), the
  comment at 590 says not more than maxFiles. `MapIsBounded` proves that it is never more than that.
* **clean_up**: `informChange` returns nil after a failed rsync (764), so "if succeeded,
  clean up" (581) cleans up in every case.
* **single_successor**: `restart` starts a process for every event of the configuration file that
  is taken before the old process exits. Rewriting a file raises more than one event, so twins
  are left that synchronise the same folders; "start new process" (251) promises one.

Seen, but not the subject of a run:

* A change of the folder itself is dropped when "." sorts first (789-795).
* The sum that the comment at 822 describes is made only for directories that are tracked already.
* `watchFolder` "never exits" (386), but returns when the paths or the watch fail.
* A batch's include list is not anchored, so it may select files that are not in it.
* A new process that starts while the configuration file is half-written ends with an error
  (219-225), and the old one ends as well: nothing runs any more (`StillServed` names this case).
* An old process may remove the .syignore of the new one between its write and its load; the
  new one then works without patterns. It may also load patterns an older process has written.
* A .syignore that cannot be removed or written leaves a goroutine with old patterns or none; the errors are
  ignored (706-707).
* A write of the configuration file between the load and the installed watch restarts nothing.
* `SrcRealPath` is read by `main` (243) while the goroutine may still set it (406).
* `ReadXML` accepts duplicate ids that `clean` calls dangerous (config.go:149-152).
* With duplicate ids a rejected `SetFolder` may change the configuration behind the cached map.
* A `Save` that a replacement overtakes may write a folder twice, or index out of range.
* With filters like `!**.sh`, `**` the first rsync excludes directories before it can meet a
  re-included file in them, though the watcher does not ignore it.

## Proofs

The modules `...Proofs` hold the theorems, checked by TLAPS for all values of the constants that meet
the ASSUMEs: finite bounds above zero, BOOLEAN switches, Files and Dirs within Paths, every path in
`SortOrder` (once, after and together with what is above it), no file below another one, the folder itself no file,
the configuration file not in a folder of `FolderSync`, and `StarAssumption` for the configuration. Every invariant and every action property of the
passing runs is a theorem.

* `ChangeAccumulatorProofs`. `AccInv` is the inductive invariant. `PromptFlush` alone is not
  inductive: one must know that the interval is the fast one whenever something is
  tracked, and that a fast interval whose timer needs no restart belongs to a timer
  that runs for it or has fired. `MapIsBounded` (at most maxFiles + 1 paths) needs finiteness of the map.
  `ForgottenOnlyWhenInformed` follows from what a batch is while a callback has it.
* `RsyncFilterProofs`. Lemmas about prefixes give `ListedFileIsTransferred`: each step on the
  way to a listed file is matched by its own pattern, and `WholeFolderSelectsNothing`.
* `SubsequencesProofs`. The provers here cannot instantiate the induction theorems of the library. `LeastNumber`
  and `IntervalInduction` state induction up to n for a set of numbers instead of a predicate, and
  `KeptRounds` unfolds the recursive function into its rounds; `KeptIsSubsequence` is what the loop computes.
* `AggregationProofs` does the same for the two loops of `aggregateChanges`. `Scored` is the invariant of the
  first one: a file has -1, a directory of the batch at least dirVsFiles, any other directory at least the number of its
  changed files and at most that of the changes below it (`ScoreStep`). `Selecting` is that of the second one: each key so
  far that has enough changes is reported or is below a reported one. `AggregationOfBatch` puts both together, for
  batches in which no file is below a file (`Consistent`).
* `ChangeBatchProofs`. `BatchFromTree` shows that a file system answers consistently (`BatchInv`); the three
  invariants of the run follow from `AggregationOfBatch`.
* `FolderSyncProofs`. `Inv` joins types, `AccInv`, `CopyInv`, `OneSyncAtATime` and `NoSilentLoss`.
  A file is not lost silently because its newest version is read while it is still
  announced; this needs that rsync holds at most one version of it (`CopyInv`) and that
  no second rsync starts before the first is done (`OneSyncAtATime`). It rests on `ListedFileIsTransferred`
  for the rsync of a single path. `FolderMirrorsSource`: a write of the chain is a `Write` of `Mirror`, the
  end of a copy is a `Copy` because of `CopyInv`, what is discarded is a `GiveUp`, and a read a
  `TakeUp`; all else stutters. `FolderImplementsAccumulator`: every step of the
  chain is a step of `ChangeAccumulator` or leaves its variables alone. Two results hold only where the constants
  allow it, and their properties name the condition:
  * `ExcludedIsNeverCopied`, where no excluded file ends like a watched path or its directory (`ExcludedApart`; rsync matches
    the end of a name). `ExcludedInv` follows an excluded file along the chain: no ignored path gets
    past the watcher into the map, aggregation adds only directories of batch paths or "" (`AggregationOfBatch`), and none of their
    patterns matches the last step of an excluded file (`ApartIsNotSelected`).
  * `CalmFolderLosesNothing`, where nothing fails and nothing is too much (`Calm`). `CalmInv` counts: each event in notify or
    the channel stands for a write of its own, so the channel has room; the map holds only
    files; nothing is written before the watch is there, so that the first rsync, which deletes
    nothing for "running", finds nothing removed. A batch selects every file of it because too few are in
    it for a scan and none is below another (`BatchIsSelected`). `AtRestInSync` follows.
  * `FullMapGivesUp` is the finding full_map_rescan for every folder: the rescan selects no file and
    every watched file that was tracked is given up.
* `LifecycleProofs`, for any folders and any number of processes and edits. `LInv` joins types,
  `HandedOver` and `NewerSuccessor`. `StillServed` is not inductive: that somebody is left needs that whoever
  leaves has started a younger process (`HandedOver`), so the youngest cannot have left. That a successor
  is newer needs that all that leads to a restart, an event, a call, a send, comes from an edit that
  the process has not read, and that a half-written file is never read. `PatternsExplained` adds `IgnoreInv`: after its
  removal a goroutine finds no .syignore, or its removal failed, or it was disturbed and finds that of another process; its
  write replaces that, or fails. A process that has read nothing yet is nobody's source, so that the one whose
  patterns are found keeps the version it had.
* `ConfigurationProofs`, for any folders and filters. Lists only ever grow, but the set of a folder's filters,
  its options and the order of first occurrence stay what the first `prepare` made them (`IsGrown`): that
  is `CInv`, and `FiltersKeepMeaning` follows because the first match decides. `IdsStayUnique`, `MapAgreesWithFolders` and
  `ReplacedIsClean` follow from the four ways in which a step may change the configuration (`CfgStep`);
  `ConfigurationTyped` and `FoldersWatchedOnce` need `KeptIsSubsequence` as well.

Only model-checked: everything under fairness (`SettledGetsReported`, `ReminderSent`,
`EventuallyMirrored`, `MirrorsSourceFairly`, `RestartCompletes`), because ENABLED is beyond the prover; and the
properties that the findings violate.

## What is abstracted or left out

* A rename is a removal and a creation. Directories are not removed; `--force` is absent.
* Events of one path that notify has not yet sent are not told apart, nor are event kinds.
* A write between `SyncDir` and the watch is a change nobody sees (`EarlyChanges`).
* In `FolderSync` filters are sets, and what the first rsync leaves out is ignored by the watcher
  too; `FiltersKeepMeaning` says so of the entries of one directory.
* A folder of `FolderSync` does not contain the configuration file, and its paths resolve
  (`realPath`, 392-404); `Lifecycle` has both cases.
* `Lifecycle` does not say what an rsync copies: two rsyncs in one folder may overlap there. A goroutine's patterns are
  what it loads; they do not change afterwards, so that no variable keeps them.
* In `Configuration` a saved file mixes at most two configurations, and a caller does not use a
  copy after it has handed it to `Replace`. Paths, rsync options and scalar settings are left out.
* The rsync of a reminder (`.syfolder`) selects no file of the tree.
* Goroutines of different folders share the `stop` channel; the shared `excludeFromFilter` (420) always
  holds an equivalent filter.

## Not modelled

Flags, logging, the home directory and the resource limit are input and output at start-up.
Of the vendored libraries only the contract of notify is used. `syncwatcher.go.h` is not compiled.

## Plan

1. `ChangeAccumulator`, `PathAggregation`, `RsyncFilter`, `FolderSync`, `Mirror`, `Lifecycle`, `Configuration`
   and proofs of all their safety properties: done.
2. A proof still worth having: that a
   rename, seen as a removal and a creation, ends in a target with one of the two names.
3. `IgnoreFilter`: patterns over several levels of directories, where rsync's descent and the
   watcher's match differ.
4. `TwoWay`: two folders that mirror each other (as config.xml sets up), and whether
   they come to rest.
