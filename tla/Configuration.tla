--------------------------- MODULE Configuration ---------------------------
(***************************************************************************)
(* The configuration and its wrapper: config.go, folderconfiguration.go,   *)
(* wrapper.go, and the selection of folders in syncd-go.go:309-383.        *)
(*                                                                         *)
(* A folder is its id, whether it is monitored, its list of filters and    *)
(* what prepare makes of them for rsync: options (--include) and excludes. *)
(* A filter that begins with "!" re-includes what it matches; names are    *)
(* those of the entries of one directory.  The methods of the wrapper hold *)
(* its mutex, so each is one action; Save does not and is two.             *)
(***************************************************************************)
EXTENDS Naturals, Sequences, SequencesExt, Subsequences

CONSTANTS
  Ids,           \* ids of folders
  Label,         \* [Ids -> labels]; the label of a folder without one is its id
  Items,         \* filters
  Includes,      \* those that begin with "!"
  Names,         \* names of files
  Match,         \* the <<filter, file name>> that match, for the watcher
  Star,          \* what a filter becomes for rsync: "*" for every "**" (159)
  RsyncMatch,    \* the <<what a filter has become, file name>> that match, for rsync
  Globals,       \* the filters of the whole configuration (Filters.Items)
  Drafts,        \* what a file or a caller may say of a folder: [own |-> its filters,
                 \* monitor |-> its attribute "yes", "no" or ""]
  WatchFolders, SkipFolders,  \* the ids and labels given with -folders, -skip-folders
  MaxFolders,    \* bound: folders
  MaxChanges,    \* bound: edits of a copy, replacements and loads
  NoMap, NoCopy, NoSave

ASSUME ItemsAssumption ==
  /\ Includes \subseteq Items /\ Match \subseteq Items \X Names
  /\ Globals \in Seq(Items)
  /\ Drafts \subseteq [own : Seq(Items), monitor : {"yes", "no", ""}]
\* There is no separator in the name of an entry, so "*" matches there what "**" does.
ASSUME StarAssumption ==
  \A item \in Items, n \in Names :
    <<Star[item], n>> \in RsyncMatch <=> <<item, n>> \in Match
ASSUME ConfigurationBounds == MaxFolders \in Nat \ {0} /\ MaxChanges \in Nat

VARIABLES
  cfg,        \* the wrapped configuration: its folders and its ignored folders
  spare,      \* TRUE iff the array behind cfg.folders has room for another one
  folderMap,  \* the map that Folders has built, or NoMap
  copy,       \* what a caller got from RawCopy and edits, or NoCopy
  saving,     \* the folders when the Save under way began, or NoSave
  disk,       \* the configuration file
  replaced,   \* history: TRUE iff cfg was replaced since it was loaded
  changes     \* number of edits of a copy, replacements and loads

vars == <<cfg, spare, folderMap, copy, saving, disk, replaced, changes>>

-----------------------------------------------------------------------------
(* Folders and their filters.                                              *)

\* The folder as it is read, and as prepare leaves it (folderconfiguration.go:101-176).
\* `own` keeps what the file said and is not part of the program.
RawFolder(id, draft) ==
  [id |-> id, own |-> draft.own, monitor |-> draft.monitor,
   filter |-> draft.own, opt |-> {}, excludes |-> {}]

\* The filters themselves keep their "**"; what rsync is given has "*" instead (159).
ForRsync(items) == {Star[item] : item \in items}

\* Filters grow; of the order of options and excludes, which are all --include and all
\* --exclude, nothing depends.  The faulty variant leaves the "!" filters to .syignore.
PrepareWithoutIncludes(f) ==
  [f EXCEPT !.monitor = IF @ = "" THEN "yes" ELSE @,
            !.filter = @ \o Globals,
            !.excludes = ForRsync(ToSet(f.filter \o Globals) \ Includes)]
Prepare(f) ==
  LET all == f.filter \o Globals
  IN [f EXCEPT !.monitor = IF @ = "" THEN "yes" ELSE @,
               !.filter = all,
               !.opt = @ \cup ForRsync(ToSet(all) \cap Includes),
               !.excludes = IF all = <<>> THEN @ ELSE ForRsync(ToSet(all) \ Includes)]

Matches(item, name) == <<item, name>> \in Match
RsyncMatches(rule, name) == <<rule, name>> \in RsyncMatch

\* What the first rsync leaves out: its options come before the excludes, and rsync
\* decides by the first rule that matches (rsyncconfiguration.go:51-79).
RsyncExcludes(f) ==
  {n \in Names : /\ \E rule \in f.excludes : RsyncMatches(rule, n)
                 /\ \A rule \in f.opt : ~RsyncMatches(rule, n)}

\* What the watcher ignores: .syignore holds all filters in their order
\* (syncd-go.go:706), and the first that matches decides.
Ignores(filter) ==
  {n \in Names : \E k \in DOMAIN filter :
                   /\ Matches(filter[k], n) /\ filter[k] \notin Includes
                   /\ \A j \in 1..(k - 1) : ~Matches(filter[j], n)}

-----------------------------------------------------------------------------
(* Lists of folders.                                                       *)

FolderIds(folders) == {f.id : f \in ToSet(folders)}
SameId(folders, j, k) == j < k /\ folders[j].id = folders[k].id

\* clean finds a folder with the id of an earlier one (config.go:153-162).
HasDuplicate(folders) == \E j, k \in DOMAIN folders : SameId(folders, j, k)

\* The folders as clean leaves them: it prepares one after the other until it has met a
\* duplicate.
Cleaned(folders) ==
  [k \in DOMAIN folders |->
     IF HasDuplicate(SubSeq(folders, 1, k - 1)) THEN folders[k] ELSE Prepare(folders[k])]

\* Ignored folders that are configured are removed (165-170).  The faulty variant does not
\* look again at the place from which one was removed.
StillIgnoredSkipping(ignored, folders) ==
  LET gone[k \in 0..Len(ignored)] ==
        k > 0 /\ ignored[k] \in FolderIds(folders) /\ ~gone[k - 1]
      kept == {k \in DOMAIN ignored : ~gone[k]}
  IN FoldLeftDomain(LAMBDA list, k : IF k \in kept THEN Append(list, ignored[k]) ELSE list,
                    <<>>, ignored)
StillIgnored(ignored, folders) == Kept(ignored, Ids \ FolderIds(folders))

\* getFolders and filterFolders: the folders for which main starts goroutines
\* (syncd-go.go:309-339, 357-372).  The faulty variant goes on after a match.
Named(f, names) == f.id \in names \/ Label[f.id] \in names
FilterFoldersTwice(folders) ==
  FoldLeft(LAMBDA list, f :
             list \o (IF f.id \in WatchFolders THEN <<f>> ELSE <<>>)
                  \o (IF Label[f.id] \in WatchFolders THEN <<f>> ELSE <<>>), <<>>, folders)
FilterFolders(folders) ==
  IF WatchFolders # {} THEN Kept(folders, {f \in ToSet(folders) : Named(f, WatchFolders)})
  ELSE Kept(folders, {f \in ToSet(folders) : ~Named(f, SkipFolders)})
GetFolders(folders) == Kept(folders, {f \in ToSet(folders) : f.monitor = "yes"})

-----------------------------------------------------------------------------
(* The wrapper.                                                            *)

\* ReadXML: every folder is prepared, nothing else is checked (config.go:34-47, 116-134).
ReadXML(file) ==
  [file EXCEPT !.folders = [k \in DOMAIN file.folders |-> Prepare(file.folders[k])]]

NewFolders == {RawFolder(id, draft) : id \in Ids, draft \in Drafts}

\* A configuration file as its author wrote it is loaded (wrapper.go:39-64); the bound
\* leaves it room for one more folder.  The decoder appends folder after folder, which
\* may leave room in the array.
Init ==
  /\ disk \in [folders : SeqOf(NewFolders, MaxFolders - 1), ignored : SeqOf(Ids, 2)]
  /\ cfg = ReadXML(disk)
  /\ spare \in BOOLEAN
  /\ folderMap = NoMap /\ copy = NoCopy /\ saving = NoSave
  /\ replaced = FALSE /\ changes = 0

\* replaceLocked (92-106): a configuration with duplicates is rejected, any other one
\* takes the place of the current one.  The faulty variants keep the map, and do without
\* clean.
AcceptKeepsMap(to) ==
  /\ cfg' = [folders |-> Cleaned(to.folders),
             ignored |-> StillIgnored(to.ignored, to.folders)]
  /\ replaced' = TRUE
  /\ UNCHANGED folderMap
AcceptUncleaned(to) == cfg' = to /\ folderMap' = NoMap /\ replaced' = TRUE
Accept(to) ==
  /\ cfg' = [folders |-> Cleaned(to.folders),
             ignored |-> StillIgnored(to.ignored, to.folders)]
  /\ folderMap' = NoMap
  /\ replaced' = TRUE

Bounded == changes < MaxChanges /\ changes' = changes + 1

\* RawCopy shares nothing with the wrapper (78-82).
RawCopy ==
  /\ copy = NoCopy
  /\ copy' = cfg
  /\ UNCHANGED <<cfg, spare, folderMap, saving, disk, replaced, changes>>

\* The caller adds a folder or an ignored one to its copy, or takes the first folder out.
EditCopy ==
  /\ copy # NoCopy /\ Bounded
  /\ \/ /\ Len(copy.folders) < MaxFolders
        /\ \E f \in NewFolders : copy' = [copy EXCEPT !.folders = Append(@, f)]
     \/ /\ Len(copy.ignored) < 2
        /\ \E id \in Ids : copy' = [copy EXCEPT !.ignored = Append(@, id)]
     \/ /\ copy.folders # <<>>
        /\ copy' = [copy EXCEPT !.folders = Tail(@)]
  /\ UNCHANGED <<cfg, spare, folderMap, saving, disk, replaced>>

\* Replace hands the copy over (85-90); its slice was made to measure, or grown by the
\* caller, who does not use it any more.  The faulty variant asks nothing.
ReplaceUnchecked ==
  /\ copy # NoCopy /\ Bounded
  /\ Accept(copy) /\ spare' \in BOOLEAN
  /\ copy' = NoCopy
  /\ UNCHANGED <<saving, disk>>
Replace ==
  /\ copy # NoCopy /\ Bounded
  /\ IF HasDuplicate(copy.folders)
     THEN UNCHANGED <<cfg, folderMap, replaced, spare>>
     ELSE Accept(copy) /\ spare' \in BOOLEAN
  /\ copy' = NoCopy
  /\ UNCHANGED <<saving, disk>>

\* SetFolder overwrites the first folder with this id in a copy of the configuration
\* (124-136).
OverwriteFolder(f) ==
  /\ f.id \in FolderIds(cfg.folders) /\ Bounded
  /\ LET at == SelectInSeq(cfg.folders, LAMBDA g : g.id = f.id)
         to == [cfg EXCEPT !.folders = ReplaceAt(@, at, f)]
     IN IF HasDuplicate(to.folders)
        THEN UNCHANGED <<cfg, folderMap, replaced, spare>>
        ELSE Accept(to) /\ spare' = FALSE
  /\ UNCHANGED <<copy, saving, disk>>

\* Or it appends the folder to those of the current configuration (138).  If the array
\* has room, both share it: what clean prepares before it fails is then prepared in the
\* current configuration, too.
AppendFolder(f) ==
  /\ f.id \notin FolderIds(cfg.folders) /\ Len(cfg.folders) < MaxFolders /\ Bounded
  /\ LET to == [cfg EXCEPT !.folders = Append(@, f)]
     IN IF HasDuplicate(to.folders)
        THEN /\ cfg' = IF spare THEN [cfg EXCEPT !.folders = Cleaned(@)] ELSE cfg
             /\ UNCHANGED <<folderMap, replaced, spare>>
        ELSE Accept(to) /\ spare' \in BOOLEAN
  /\ UNCHANGED <<copy, saving, disk>>

\* Folders builds the map when there is none; the last folder with an id stays (110-120).
LastWith(folders, id) ==
  CHOOSE k \in DOMAIN folders :
    folders[k].id = id /\ \A j \in DOMAIN folders : folders[j].id = id => j <= k

BuildMap ==
  /\ folderMap = NoMap
  /\ folderMap' = [id \in FolderIds(cfg.folders) |->
                     cfg.folders[LastWith(cfg.folders, id)]]
  /\ UNCHANGED <<cfg, spare, copy, saving, disk, replaced, changes>>

\* Save takes no lock (171-191): it encodes one folder after the other and the ignored
\* folders last, and then puts the file in place.  If the configuration is replaced
\* meanwhile, it finds the later folders in the new one; if that has fewer, the index is
\* out of range, the process dies and the file stays what it was.
SaveFolders ==
  /\ saving = NoSave
  /\ saving' = cfg.folders
  /\ UNCHANGED <<cfg, spare, folderMap, copy, disk, replaced, changes>>

SaveIgnored ==
  /\ saving # NoSave
  /\ \E last \in 0..Len(saving) :
       /\ last = Len(saving) \/ Len(saving) <= Len(cfg.folders)
       /\ disk' = [folders |-> [k \in DOMAIN saving |->
                                  IF k <= last THEN saving[k] ELSE cfg.folders[k]],
                   ignored |-> cfg.ignored]
  /\ saving' = NoSave
  /\ UNCHANGED <<cfg, spare, folderMap, copy, replaced, changes>>

\* The program starts again, or another Load reads the file.
Reload ==
  /\ Bounded
  /\ cfg' = ReadXML(disk) /\ spare' \in BOOLEAN
  /\ folderMap' = NoMap /\ copy' = NoCopy /\ saving' = NoSave /\ replaced' = FALSE
  /\ UNCHANGED disk

Next ==
  \/ RawCopy \/ EditCopy \/ Replace \/ BuildMap \/ SaveFolders \/ SaveIgnored \/ Reload
  \/ \E f \in NewFolders : OverwriteFolder(f) \/ AppendFolder(f)

Spec == Init /\ [][Next]_vars

-----------------------------------------------------------------------------
(* Properties.                                                             *)

\* Type invariant: what is in use has been prepared, so that its attribute is set.
Folder(monitors) ==
  [id : Ids, own : Seq(Items), monitor : monitors,
   filter : Seq(Items), opt : SUBSET ForRsync(Items), excludes : SUBSET ForRsync(Items)]
Prepared == Folder({"yes", "no"})
Lists(folders) == [folders : Seq(folders), ignored : Seq(Ids)]

TypeOK ==
  /\ cfg \in Lists(Prepared)
  /\ disk \in Lists(Folder({"yes", "no", ""}))
  /\ copy = NoCopy \/ copy \in Lists(Folder({"yes", "no", ""}))
  /\ saving = NoSave \/ saving \in Seq(Prepared)
  /\ spare \in BOOLEAN /\ replaced \in BOOLEAN /\ changes \in 0..MaxChanges

\* A replaced configuration has no two folders of one id, and ignores none that it has,
\* however it came about: a copy edited by a caller, a folder set over or appended to one
\* that was loaded with duplicates (config.go:148-170).
CleanOnceReplaced ==
  replaced => /\ ~HasDuplicate(cfg.folders)
              /\ \A id \in ToSet(cfg.ignored) : id \notin FolderIds(cfg.folders)

\* Once ids are unique they stay so, through copies, replacements, saves and loads, as
\* long as no replacement overtakes a Save: that one may write a folder twice.
UniqueIdsStay ==
  [][~HasDuplicate(cfg.folders) /\ ~HasDuplicate(disk.folders)
       /\ (saving # NoSave => saving = cfg.folders)
     => ~HasDuplicate(cfg'.folders) /\ ~HasDuplicate(disk'.folders)]_vars

\* The cached map says the same as a search through the folders (110-120, 159-168).  A
\* failed SetFolder may change the folders behind the map, but only if there are
\* duplicates.
MapIsFresh ==
  folderMap # NoMap /\ ~HasDuplicate(cfg.folders) =>
    /\ DOMAIN folderMap = FolderIds(cfg.folders)
    /\ \A k \in DOMAIN cfg.folders : folderMap[cfg.folders[k].id] = cfg.folders[k]

\* Filters keep their meaning.  Each clean and each load appends the configuration's
\* filters to those of every folder again and adds its "!" filters to the options again
\* (folderconfiguration.go:144-174), yet a folder excludes what it did when it was first
\* read; and what the first rsync leaves out of a directory is ignored by the watcher as
\* well, although the two apply the filters in a different order.
MeansTheSame(f) ==
  LET first == Prepare([f EXCEPT !.filter = f.own, !.opt = {}, !.excludes = {}])
  IN /\ RsyncExcludes(f) = RsyncExcludes(first) /\ Ignores(f.filter) = Ignores(first.filter)
     /\ RsyncExcludes(f) \subseteq Ignores(f.filter)
FiltersKeepMeaning == \A f \in ToSet(cfg.folders) : MeansTheSame(f)

\* No folder gets two goroutines: main starts at most one for each folder whose id is
\* unique, even if it is named by id and by label.
OneWatcherPerFolder ==
  ~HasDuplicate(cfg.folders) => ~HasDuplicate(FilterFolders(GetFolders(cfg.folders)))
=============================================================================
