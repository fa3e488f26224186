-------------------------- MODULE FolderSyncProofs --------------------------
(***************************************************************************)
(* Proofs about FolderSync, for every tree, capacity and number of writes. *)
(* Inv is inductive.  Each action that touches more than one of its parts  *)
(* has a lemma; the accumulator's own part of it is inherited from         *)
(* ChangeAccumulatorProofs, because a step of a folder is a step of its    *)
(* accumulator or leaves it alone.  ExcludedInv and CalmInv go beyond Inv  *)
(* for folders whose constants allow more to be said.                      *)
(***************************************************************************)
EXTENDS FolderSync, ChangeAccumulatorProofs, RsyncFilterProofs, AggregationProofs

-----------------------------------------------------------------------------
(* The channel as a set of paths, and the selections of rsync.             *)

LEMMA PathsInAppend ==
  ASSUME NEW q \in Seq(Paths), NEW p \in Paths
  PROVE  ToSet(Append(q, p)) = ToSet(q) \cup {p}
<1>1. /\ Len(q) \in Nat /\ DOMAIN q = 1..Len(q)
      /\ Append(q, p) \in Seq(Paths)
      /\ Len(Append(q, p)) = Len(q) + 1
      /\ \A i \in 1..Len(q) : Append(q, p)[i] = q[i]
      /\ Append(q, p)[Len(q) + 1] = p
  BY AppendProperties, LenProperties
<1>2. DOMAIN Append(q, p) = 1..(Len(q) + 1)
  BY <1>1, LenProperties
<1> QED  BY <1>1, <1>2 DEF ToSet

LEMMA PathsInTail ==
  ASSUME NEW q \in Seq(Paths), q # <<>>
  PROVE  ToSet(q) \subseteq {Head(q)} \cup ToSet(Tail(q))
<1> SUFFICES ASSUME NEW i \in DOMAIN q, q[i] # Head(q)
             PROVE  q[i] \in ToSet(Tail(q))
  BY DEF ToSet
<1>1. /\ Len(q) \in Nat \ {0} /\ DOMAIN q = 1..Len(q)
      /\ Tail(q) \in Seq(Paths) /\ Len(Tail(q)) = Len(q) - 1
      /\ \A j \in 1..Len(Tail(q)) : Tail(q)[j] = q[j + 1]
  BY HeadTailProperties, LenProperties, EmptySeq
<1>2. i # 1
  BY Head(q) = q[1]
<1>3. i - 1 \in 1..Len(Tail(q)) /\ Tail(q)[i - 1] = q[i]
  BY <1>1, <1>2
<1>4. DOMAIN Tail(q) = 1..Len(Tail(q))
  BY <1>1, LenProperties
<1> QED  BY <1>3, <1>4 DEF ToSet

\* The rsync that is started for a file selects it.
LEMMA FileSelectsItself ==
  ASSUME NEW f \in Files PROVE f \in Selected({f}, Files)
<1>1. f \in Seq(Names)
  BY FilesAssumption
<1> QED  BY <1>1, ListedFileIsTransferred DEF Selected

\* The rescan of a full map selects nothing.
LEMMA RescanSelectsNothing == Selected({Root}, Files) = {}
<1>1. Files \subseteq Seq(Names) \ {<<>>}
  BY FilesAssumption DEF Root
<1> QED  BY <1>1, WholeFolderSelectsNothing DEF Root

-----------------------------------------------------------------------------
(* The accumulator inside a folder.                                        *)

LEMMA StepOfAccumulator ==
  ASSUME TypeOK, [Next]_vars PROVE [AccNext]_accVars
<1>1. CASE Deliver
  <2>1. hand \in Paths /\ TakeEvent(hand)
    BY <1>1 DEF Deliver, TypeOK
  <2> QED  BY <2>1 DEF AccNext
<1>2. CASE FlushChanges
  BY <1>2 DEF FlushChanges, AccNext
<1>3. CASE SyncDone
  BY <1>3 DEF SyncDone, AccNext
<1>4. CASE Accumulate
  BY <1>4 DEF Accumulate, AccNext
<1>5. ASSUME \/ \E f \in Files : Change(f) \/ ReadFile(f)
                                \/ \E v \in 0..MaxVersion : WriteFile(f, v)
             \/ \E d \in Dirs : ChangeDir(d)
             \/ \E p \in Paths : Dispatch(p)
             \/ \E f \in Files : WatchNewDirectory(f)
             \/ InstallWatch \/ WatchFails \/ WaitForEvent \/ RsyncFails
      PROVE  UNCHANGED accVars
  BY <1>5 DEF Change, ReadFile, WriteFile, ChangeDir, Dispatch, InstallWatch,
     WatchFails, WatchNewDirectory, WaitForEvent, RsyncFails
<1>6. CASE UNCHANGED vars
  BY <1>6 DEF vars
<1> QED  BY <1>1, <1>2, <1>3, <1>4, <1>5, <1>6 DEF Next

LEMMA AccInvStep ==
  ASSUME Inv, [Next]_vars PROVE AccInv'
<1>1. [AccNext]_accVars
  BY StepOfAccumulator DEF Inv
<1> QED  BY <1>1, NextInv DEF Inv

-----------------------------------------------------------------------------
(* The actions.                                                            *)

\* The folder starts in sync, with the first rsync about to look at every file.
LEMMA InitFolder == Init => Inv
<1> SUFFICES ASSUME Init PROVE Inv
  OBVIOUS
<1>1. AccInv
  BY InitInv DEF Init
<1>2. TypeOK
  BY <1>1, FilesAssumption, BoundAssumption
     DEF AccInv, Init, TypeOK, Watched
<1>3. CopyInv /\ OneSyncAtATime /\ NoSilentLoss
  BY DEF Init, CopyInv, OneSyncAtATime, NoSilentLoss, InSync
<1> QED  BY <1>1, <1>2, <1>3 DEF Inv

\* A write to the source: noticed, or given up unless the first rsync will see it.
LEMMA ChangeInv ==
  ASSUME Inv, AccInv', NEW f \in Files, Change(f)
  PROVE  Inv'
<1> USE DEF Inv
<1>1. UNCHANGED <<accVars, watchVars, copyVars>> /\ src' \in [Files -> 0..MaxVersion]
      /\ src[f] \in Nat /\ src'[f] = src[f] + 1
      /\ \A g \in Files \ {f} : src'[g] = src[g]
  BY BoundAssumption DEF Change, TypeOK
<1>2. TypeOK'
  BY <1>1, FilesAssumption
     DEF AccInv, TypeOK, Change, Noticed, Unnoticed, watchVars, copyVars
<1>3. CopyInv'
  <2>1. \A g \in Files : src[g] <= src'[g] /\ src[g] \in Nat /\ src'[g] \in Nat /\ dst[g] \in Nat
    <3> SUFFICES ASSUME NEW g \in Files
                 PROVE  src[g] <= src'[g] /\ src[g] \in Nat /\ src'[g] \in Nat /\ dst[g] \in Nat
      OBVIOUS
    <3>1. src[g] \in Nat /\ dst[g] \in Nat
      BY BoundAssumption DEF TypeOK
    <3>2. src'[g] = src[g] \/ src'[g] = src[g] + 1
      BY <1>1
    <3> QED  BY <3>1, <3>2
  <2>2. \A r \in inflight : r[1] \in Files /\ r[2] \in Nat
    BY BoundAssumption DEF TypeOK
  <2> QED  BY <1>1, <2>1, <2>2 DEF CopyInv, copyVars
<1>4. OneSyncAtATime'
  BY <1>1 DEF OneSyncAtATime, Settled, watchVars, copyVars, accVars
<1>5. NoSilentLoss'
  <2> SUFFICES ASSUME NEW g \in Watched
               PROVE (InSync(g) \/ OnItsWay(g) \/ g \in lost)'
    BY DEF NoSilentLoss
  <2>1. CASE g = f
    BY <1>1, <2>1 DEF Change, Noticed, Unnoticed, OnItsWay, copyVars
  <2>2. CASE g # f
    <3>1. g \in Files /\ src'[g] = src[g]
      BY <1>1, <2>2 DEF Watched
    <3> QED  BY <1>1, <3>1 DEF Change, Noticed, Unnoticed, NoSilentLoss, InSync,
             OnItsWay, watchVars, copyVars, accVars
  <2> QED  BY <2>1, <2>2
<1> QED  BY <1>2, <1>3, <1>4, <1>5

LEMMA ChangeDirInv ==
  ASSUME Inv, AccInv', NEW d \in Dirs, ChangeDir(d)
  PROVE  Inv'
<1> USE DEF Inv, ChangeDir, watchVars, copyVars, accVars
<1>1. TypeOK'
  BY FilesAssumption DEF AccInv, TypeOK
<1>2. CopyInv' /\ OneSyncAtATime'
  BY DEF CopyInv, OneSyncAtATime, Settled
<1>3. NoSilentLoss'
  BY DEF NoSilentLoss, InSync, OnItsWay
<1> QED  BY <1>1, <1>2, <1>3

\* An event is queued, or discarded and its file given up.
LEMMA DispatchInv ==
  ASSUME Inv, AccInv', NEW p \in Paths, Dispatch(p)
  PROVE  Inv'
<1> USE DEF Inv, Dispatch, RoomInQueue, copyVars, accVars
<1>1. queue \in Seq(Paths) /\ Len(queue) \in Nat /\ QueueSize \in Nat
  BY LenProperties, BoundAssumption DEF TypeOK
<1>2. CASE RoomInQueue
  <2>1. queue' = Append(queue, p)
    BY <1>2
  <2>2. /\ queue' \in Seq(Paths) /\ Len(queue') = Len(queue) + 1
        /\ ToSet(queue') = ToSet(queue) \cup {p}
    <3> HIDE DEF Dispatch, Inv
    <3> QED  BY <1>1, <2>1, AppendProperties, PathsInAppend
  <2>3. TypeOK'
    BY <1>1, <1>2, <2>2 DEF AccInv, TypeOK
  <2>4. NoSilentLoss'
    BY <1>2, <2>2 DEF NoSilentLoss, InSync, OnItsWay
  <2> QED  BY <2>3, <2>4 DEF CopyInv, OneSyncAtATime, Settled
<1>3. CASE ~RoomInQueue
  <2>1. TypeOK'
    BY <1>3 DEF AccInv, TypeOK
  <2>2. NoSilentLoss'
    BY <1>3 DEF NoSilentLoss, InSync, OnItsWay
  <2> QED  BY <1>3, <2>1, <2>2 DEF CopyInv, OneSyncAtATime, Settled
<1> QED  BY <1>2, <1>3

LEMMA InstallWatchInv ==
  ASSUME Inv, AccInv', InstallWatch \/ WatchFails \/ \E f \in Files : WatchNewDirectory(f)
  PROVE  Inv'
<1> USE DEF Inv, InstallWatch, WatchFails, WatchNewDirectory, RsyncExited, copyVars,
        accVars, treeVars
<1>1. TypeOK'
  BY RemovalAssumption DEF AccInv, TypeOK
<1>2. CopyInv' /\ OneSyncAtATime'
  BY DEF CopyInv, OneSyncAtATime, Settled
<1>3. NoSilentLoss'
  BY DEF NoSilentLoss, InSync, OnItsWay
<1> QED  BY <1>1, <1>2, <1>3

\* The head of the channel moves to the hand unless it is ignored.
LEMMA WaitForEventInv ==
  ASSUME Inv, AccInv', WaitForEvent
  PROVE  Inv'
<1> USE DEF Inv, WaitForEvent, Drops, copyVars, accVars, treeVars
<1>1. /\ queue \in Seq(Paths) /\ queue # <<>> /\ Head(queue) \in Paths
      /\ queue' \in Seq(Paths) /\ Len(queue') = Len(queue) - 1
      /\ Len(queue) \in Nat
      /\ ToSet(queue) \subseteq {Head(queue)} \cup ToSet(queue')
  BY HeadTailProperties, LenProperties, PathsInTail DEF TypeOK
<1>2. TypeOK'
  BY <1>1, BoundAssumption DEF AccInv, TypeOK
<1>3. CopyInv' /\ OneSyncAtATime'
  BY DEF CopyInv, OneSyncAtATime, Settled
<1>4. NoSilentLoss'
  <2> SUFFICES ASSUME NEW f \in Watched
               PROVE (InSync(f) \/ OnItsWay(f) \/ f \in lost)'
    BY DEF NoSilentLoss
  <2>1. f # NoPath /\ f \notin Ignored
    BY FilesAssumption DEF Watched
  <2>2. f \in ToSet(queue) => f = hand' \/ f \in ToSet(queue')
    BY <1>1, <2>1
  <2> QED  BY <2>1, <2>2 DEF NoSilentLoss, InSync, OnItsWay
<1> QED  BY <1>2, <1>3, <1>4

\* While the goroutine is at its select or decides a flush, no rsync is running.
LEMMA NoRsyncAtSelect ==
  ASSUME Inv, wpc = "watching", pc \in {"select", "flush"}
  PROVE  todo = {} /\ inflight = {}
BY DEF Inv, OneSyncAtATime, Settled

\* The path in the hand is rejected, or tracked and, when every event is synced,
\* handed to a rsync that selects it.
LEMMA DeliverInv ==
  ASSUME Inv, AccInv', Deliver
  PROVE  Inv'
<1> USE DEF Inv, treeVars
<1>1. /\ wpc = "watching" /\ pc = "select" /\ hand \in Paths /\ hand' = NoPath
      /\ todo = {} /\ inflight = {} /\ inflight' = {} /\ dst' = dst
      /\ UNCHANGED <<treeVars, queue, wpc>>
  BY NoRsyncAtSelect DEF Deliver, TakeEvent, TypeOK
<1>2. todo' \subseteq Files
  BY <1>1 DEF Deliver, StartSync, Selected
<1>3. TypeOK'
  BY <1>1, <1>2 DEF Deliver, AccInv, TypeOK
<1>4. CopyInv'
  BY <1>1 DEF CopyInv
<1>5. inProgress \subseteq inProgress'
  BY DEF Deliver, TakeEvent, Reject, Track
<1>6. CASE MapFull
  <2>1. /\ todo' = {} /\ lost' = lost \cup ({hand} \cap Watched)
        /\ inProgress' = inProgress /\ batch' = batch
    BY <1>1, <1>6 DEF Deliver, TakeEvent, Reject, Track
  <2>2. OneSyncAtATime'
    BY <1>1, <2>1 DEF OneSyncAtATime, Settled
  <2>3. NoSilentLoss'
    BY <1>1, <2>1 DEF NoSilentLoss, InSync, OnItsWay
  <2> QED  BY <1>3, <1>4, <2>2, <2>3
<1>7. CASE ~MapFull
  <2>1. /\ Track(hand) /\ lost' = lost
        /\ todo' = IF SyncEach THEN Selected({hand}, Files) ELSE {}
    BY <1>1, <1>7 DEF Deliver, TakeEvent, Reject, StartSync
  <2>2. OneSyncAtATime'
    BY <1>1, <2>1 DEF OneSyncAtATime, Settled, Track
  <2>3. NoSilentLoss'
    <3> SUFFICES ASSUME NEW f \in Watched
                 PROVE (InSync(f) \/ OnItsWay(f) \/ f \in lost)'
      BY DEF NoSilentLoss
    <3>1. CASE f = hand /\ SyncEach
      <4>1. f \in todo'
        BY <2>1, <3>1, FileSelectsItself DEF Watched
      <4> QED  BY <4>1 DEF OnItsWay
    <3>2. CASE f = hand /\ ~SyncEach
      BY <2>1, <3>2 DEF Track, OnItsWay
    <3>3. CASE f # hand
      BY <1>1, <2>1, <3>3 DEF NoSilentLoss, InSync, OnItsWay, Track
    <3> QED  BY <3>1, <3>2, <3>3
  <2> QED  BY <1>3, <1>4, <2>2, <2>3
<1> QED  BY <1>6, <1>7

\* A batch is cut: what its rsync does not select is given up.
LEMMA FlushChangesInv ==
  ASSUME Inv, AccInv', FlushChanges
  PROVE  Inv'
<1> USE DEF Inv, treeVars, watchVars
<1>1. /\ wpc = "watching" /\ pc = "flush" /\ UNCHANGED <<treeVars, watchVars>>
      /\ todo = {} /\ inflight = {} /\ inflight' = {} /\ dst' = dst
      /\ inProgress' = inProgress
  BY NoRsyncAtSelect DEF FlushChanges, Flush
<1>2. pc' \in {"top", "report", "rescan"} /\ (pc' = "top" => batch' = batch)
  BY DEF FlushChanges, Flush, SlowDown, NothingSettled, Report, Rescan
<1>3. todo' \subseteq Files
  BY <1>1 DEF FlushChanges, StartSync, Selected
<1>4. TypeOK'
  BY <1>1, <1>3 DEF FlushChanges, AccInv, TypeOK
<1>5. CopyInv'
  BY <1>1 DEF CopyInv
<1>6. OneSyncAtATime'
  <2>1. pc' = "rescan" => todo' = {}
    BY <1>1, RescanSelectsNothing DEF FlushChanges, StartSync, Subs
  <2>2. pc' = "top" \/ SyncEach => todo' = {}
    BY <1>1 DEF FlushChanges
  <2> QED  BY <1>1, <1>2, <2>1, <2>2 DEF OneSyncAtATime, Settled
<1>7. NoSilentLoss'
  <2> SUFFICES ASSUME NEW f \in Watched
               PROVE (InSync(f) \/ OnItsWay(f) \/ f \in lost)'
    BY DEF NoSilentLoss
  <2>1. lost \subseteq lost'
    BY DEF FlushChanges
  <2>2. CASE pc' = "top"
    BY <1>1, <1>2, <2>1, <2>2 DEF NoSilentLoss, InSync, OnItsWay
  <2>3. CASE SyncEach
    BY <1>1, <2>1, <2>3 DEF NoSilentLoss, InSync, OnItsWay
  <2>4. CASE pc' # "top" /\ ~SyncEach
    <3>1. f \in batch' => f \in todo' \/ f \in lost'
      BY <2>4 DEF FlushChanges
    <3> QED  BY <1>1, <2>1, <3>1 DEF NoSilentLoss, InSync, OnItsWay
  <2> QED  BY <2>2, <2>3, <2>4
<1> QED  BY <1>4, <1>5, <1>6, <1>7

\* Reading a file takes it off the list; what was read is its newest version.
LEMMA ReadFileInv ==
  ASSUME Inv, AccInv', NEW f \in Files, ReadFile(f)
  PROVE  Inv'
<1> USE DEF Inv, treeVars, watchVars, accVars
<1>1. src[f] \in 0..MaxVersion /\ src[f] \in Nat /\ dst[f] \in Nat
  BY BoundAssumption DEF TypeOK
<1>2. /\ f \in todo /\ todo' = todo \ {f} /\ UNCHANGED <<accVars, treeVars, watchVars, dst>>
      /\ \/ lost' = lost \cup ({f} \cap Watched) /\ inflight' = inflight
         \/ lost' = lost \ {f} /\ inflight' = inflight \cup {<<f, src[f]>>}
  BY DEF ReadFile
<1>3. TypeOK'
  BY <1>1, <1>2 DEF AccInv, TypeOK
<1>4. CopyInv'
  <2>1. \A r \in inflight : r[1] # f
    BY <1>2 DEF CopyInv
  <2>2. dst[f] <= src[f] /\ src[f] <= src[f]
    BY <1>1 DEF CopyInv
  <2> QED  BY <1>2, <2>1, <2>2 DEF CopyInv
<1>5. OneSyncAtATime'
  BY <1>2 DEF OneSyncAtATime, Settled
<1>6. NoSilentLoss'
  <2> SUFFICES ASSUME NEW g \in Watched
               PROVE (InSync(g) \/ OnItsWay(g) \/ g \in lost)'
    BY DEF NoSilentLoss
  <2>1. CASE g = f
    BY <1>2, <2>1 DEF OnItsWay
  <2>2. CASE g # f
    BY <1>2, <2>2 DEF NoSilentLoss, InSync, OnItsWay
  <2> QED  BY <2>1, <2>2
<1> QED  BY <1>3, <1>4, <1>5, <1>6

\* An older version that is installed leaves its file stale, but then something else
\* was the reason why the file was not silently lost before.
LEMMA WriteFileInv ==
  ASSUME Inv, AccInv', NEW f \in Files, NEW v \in 0..MaxVersion, WriteFile(f, v)
  PROVE  Inv' /\ \A g \in Files : dst'[g] >= dst[g]
<1> USE DEF Inv, WriteFile, treeVars, watchVars, accVars
<1>1. /\ dst[f] <= v /\ v <= src[f] /\ f \notin todo
      /\ \A r \in inflight : r[1] = f => r = <<f, v>>
  BY DEF CopyInv
<1>2. dst' \in [Files -> 0..MaxVersion] /\ dst'[f] = v
      /\ \A g \in Files \ {f} : dst'[g] = dst[g]
  BY DEF TypeOK
<1>3. TypeOK'
  BY <1>2 DEF AccInv, TypeOK
<1>4. CopyInv'
  <2>1. \A g \in Files : dst'[g] <= src[g]
    BY <1>1, <1>2 DEF CopyInv
  <2>2. \A r \in inflight' : r[1] \in Files /\ r[1] # f
    BY <1>1 DEF TypeOK
  <2> QED  BY <1>2, <2>1, <2>2 DEF CopyInv
<1>5. OneSyncAtATime'
  BY DEF OneSyncAtATime, Settled
<1>6. NoSilentLoss'
  <2> SUFFICES ASSUME NEW g \in Watched
               PROVE (InSync(g) \/ OnItsWay(g) \/ g \in lost)'
    BY DEF NoSilentLoss
  <2>1. CASE g = f
    <3>1. CASE v = src[f]
      BY <1>2, <2>1, <3>1 DEF InSync
    <3>2. CASE v # src[f]
      <4>1. dst[f] # src[f]
        BY <1>1, <3>2, BoundAssumption DEF TypeOK
      <4>2. <<f, src[f]>> \notin inflight
        BY <1>1, <3>2
      <4> QED  BY <1>1, <2>1, <4>1, <4>2 DEF NoSilentLoss, InSync, OnItsWay
    <3> QED  BY <3>1, <3>2
  <2>2. CASE g # f
    <3>1. g \in Files
      BY DEF Watched
    <3> QED  BY <1>2, <2>2, <3>1 DEF NoSilentLoss, InSync, OnItsWay
  <2> QED  BY <2>1, <2>2
<1>7. \A g \in Files : dst'[g] >= dst[g]
  <2>1. \A g \in Files : dst[g] \in Nat
    BY BoundAssumption DEF TypeOK
  <2> QED  BY <1>1, <1>2, <2>1
<1> QED  BY <1>3, <1>4, <1>5, <1>6, <1>7

LEMMA RsyncFailsInv ==
  ASSUME Inv, AccInv', RsyncFails
  PROVE  Inv'
<1> USE DEF Inv, RsyncFails, treeVars, watchVars, accVars
<1>1. TypeOK'
  BY DEF AccInv, TypeOK
<1>2. CopyInv' /\ OneSyncAtATime'
  BY DEF CopyInv, OneSyncAtATime, Settled
<1>3. NoSilentLoss'
  <2> SUFFICES ASSUME NEW f \in Watched
               PROVE (InSync(f) \/ OnItsWay(f) \/ f \in lost)'
    BY DEF NoSilentLoss
  <2>1. <<f, src[f]>> \in inflight => f \in {r[1] : r \in inflight}
    OBVIOUS
  <2> QED  BY <2>1 DEF NoSilentLoss, InSync, OnItsWay
<1> QED  BY <1>1, <1>2, <1>3

\* What is untracked after a callback was in its batch, so it was not on its way.
LEMMA SyncDoneInv ==
  ASSUME Inv, AccInv', SyncDone
  PROVE  Inv'
<1> USE DEF Inv, SyncDone, RsyncExited, treeVars, watchVars, copyVars
<1>1. TypeOK'
  BY DEF AccInv, TypeOK
<1>2. CopyInv' /\ OneSyncAtATime'
  BY DEF CopyInv, OneSyncAtATime, Settled
<1>3. inProgress \ batch \subseteq inProgress' \ batch'
  BY DEF SyncReturns, CallbackReturns, Forget
<1>4. NoSilentLoss'
  BY <1>3 DEF NoSilentLoss, InSync, OnItsWay
<1> QED  BY <1>1, <1>2, <1>4

\* The other steps of the accumulator leave its map and its batch alone.
LEMMA AccumulateInv ==
  ASSUME Inv, AccInv', Accumulate
  PROVE  Inv'
<1> USE DEF Inv, Accumulate, treeVars, watchVars, copyVars
<1>1. /\ inProgress' = inProgress /\ batch' = batch
      /\ pc' = pc \/ pc \in {"start", "top", "select", "remind"}
  BY DEF AccLocal, Started, LoopTop, TakeTick, RemindReturns, TimerFires, ScanFallsDue,
     RipenPath
<1>2. TypeOK'
  BY DEF AccInv, TypeOK
<1>3. CopyInv'
  BY DEF CopyInv
<1>4. OneSyncAtATime'
  BY <1>1 DEF OneSyncAtATime, Settled
<1>5. NoSilentLoss'
  BY <1>1 DEF NoSilentLoss, InSync, OnItsWay
<1> QED  BY <1>2, <1>3, <1>4, <1>5

-----------------------------------------------------------------------------
(* The theorems.                                                           *)

\* Every step of the folder preserves Inv.
LEMMA FolderStep == Inv /\ [Next]_vars => Inv'
<1> SUFFICES ASSUME Inv, [Next]_vars PROVE Inv'
  OBVIOUS
<1>0. AccInv'
  BY AccInvStep
<1>1. ASSUME NEW f \in Files, Change(f) PROVE Inv'
  BY <1>0, <1>1, ChangeInv
<1>2. ASSUME NEW f \in Files, ReadFile(f) PROVE Inv'
  BY <1>0, <1>2, ReadFileInv
<1>3. ASSUME NEW f \in Files, NEW v \in 0..MaxVersion, WriteFile(f, v) PROVE Inv'
  BY <1>0, <1>3, WriteFileInv
<1>4. ASSUME NEW d \in Dirs, ChangeDir(d) PROVE Inv'
  BY <1>0, <1>4, ChangeDirInv
<1>5. ASSUME NEW p \in Paths, Dispatch(p) PROVE Inv'
  BY <1>0, <1>5, DispatchInv
<1>6. CASE InstallWatch \/ WatchFails \/ \E f \in Files : WatchNewDirectory(f)
  BY <1>0, <1>6, InstallWatchInv
<1>7. CASE WaitForEvent
  BY <1>0, <1>7, WaitForEventInv
<1>8. CASE Deliver
  BY <1>0, <1>8, DeliverInv
<1>9. CASE FlushChanges
  BY <1>0, <1>9, FlushChangesInv
<1>10. CASE SyncDone
  BY <1>0, <1>10, SyncDoneInv
<1>11. CASE Accumulate
  BY <1>0, <1>11, AccumulateInv
<1>12. CASE RsyncFails
  BY <1>0, <1>12, RsyncFailsInv
<1>13. CASE UNCHANGED vars
  BY <1>0, <1>13 DEF vars, accVars, treeVars, watchVars, copyVars, timerVars, Inv,
     TypeOK, AccInv, CopyInv, OneSyncAtATime, Settled, NoSilentLoss, InSync, OnItsWay
<1> QED  BY <1>1, <1>2, <1>3, <1>4, <1>5, <1>6, <1>7, <1>8, <1>9, <1>10, <1>11,
            <1>12, <1>13 DEF Next

\* Inv is an invariant of a folder, for every tree, capacity and number of writes.
THEOREM FolderInvariant == Spec => []Inv
<1>1. Init => Inv
  BY InitFolder
<1>2. Inv /\ [Next]_vars => Inv'
  BY FolderStep
<1> QED  BY <1>1, <1>2, PTL DEF Spec

\* Type correctness.
THEOREM FolderTypeCorrect == Spec => []TypeOK
<1>1. Inv => TypeOK
  BY DEF Inv
<1> QED  BY <1>1, FolderInvariant, PTL

\* A watched file that is stale is on its way or was knowingly given up.
THEOREM NothingIsSilentlyLost == Spec => []NoSilentLoss
<1>1. Inv => NoSilentLoss
  BY DEF Inv
<1> QED  BY <1>1, FolderInvariant, PTL

\* No two rsync processes of a folder overlap, and none runs beside the select.
THEOREM SyncsDoNotOverlap == Spec => []OneSyncAtATime
<1>1. Inv => OneSyncAtATime
  BY DEF Inv
<1> QED  BY <1>1, FolderInvariant, PTL

\* The target never goes back to an older version of a file.
THEOREM TargetIsMonotonic == Spec => TargetNeverRegresses
<1> DEFINE Forward == \A f \in Files : dst'[f] >= dst[f]
<1>1. Inv /\ [Next]_vars => [Forward]_vars
  <2> SUFFICES ASSUME Inv, Next PROVE Forward
    OBVIOUS
  <2>1. ASSUME NEW f \in Files, NEW v \in 0..MaxVersion, WriteFile(f, v) PROVE Forward
    <3>1. AccInv'
      BY AccInvStep
    <3> QED  BY <2>1, <3>1, WriteFileInv
  <2>2. CASE dst' = dst
    <3>1. \A f \in Files : dst[f] \in Nat
      BY BoundAssumption DEF Inv, TypeOK
    <3> QED  BY <2>2, <3>1
  <2>3. dst' = dst \/ \E f \in Files, v \in 0..MaxVersion : WriteFile(f, v)
    BY DEF Next, Change, ReadFile, ChangeDir, Dispatch, InstallWatch, WatchFails, WatchNewDirectory,
       WaitForEvent, Deliver, FlushChanges, SyncDone, Accumulate, RsyncFails, copyVars
  <2> QED  BY <2>1, <2>2, <2>3
<1> QED  BY <1>1, FolderInvariant, PTL DEF Spec, TargetNeverRegresses

\* The accumulator of a folder behaves as ChangeAccumulator says, so everything
\* proved there holds in every folder.
THEOREM FolderImplementsAccumulator == Spec => AccSpec
<1>1. Init => AccInit
  BY DEF Init
<1>2. Inv /\ [Next]_vars => [AccNext]_accVars
  BY StepOfAccumulator DEF Inv
<1> QED  BY <1>1, <1>2, FolderInvariant, PTL DEF Spec, AccSpec

\* What rsync holds of a file lies between its target and its source.
THEOREM CopiesAreInOrder == Spec => []CopyInv
<1>1. Inv => CopyInv
  BY DEF Inv
<1> QED  BY <1>1, FolderInvariant, PTL

\* The steps that only give files up, or none.
LEMMA GiveUpStep ==
  ASSUME TypeOK', src' = src, dst' = dst, lost \subseteq lost'
  PROVE  Promise!MirrorNext
BY DEF TypeOK, Promise!MirrorNext, Promise!GiveUp

\* Every step of the folder is a step of Mirror, or changes nothing of it.
LEMMA StepOfMirror ==
  ASSUME Inv, [Next]_vars PROVE [Promise!MirrorNext]_(Promise!mirrorVars)
<1>0. Inv' /\ TypeOK'
  BY FolderStep DEF Inv
<1>1. ASSUME NEW f \in Files, Change(f) PROVE Promise!MirrorNext
  <2>1. Promise!Write(f)
    BY <1>1 DEF Change, Noticed, Unnoticed, Promise!Write, copyVars
  <2> QED  BY <2>1 DEF Promise!MirrorNext
<1>2. ASSUME NEW f \in Files, ReadFile(f) PROVE Promise!MirrorNext
  <2>1. src' = src /\ dst' = dst
    BY <1>2 DEF ReadFile, treeVars
  <2>2. CASE lost' = lost \ {f}
    <3>1. Promise!TakeUp(f)
      BY <2>1, <2>2 DEF Promise!TakeUp
    <3> QED  BY <3>1 DEF Promise!MirrorNext
  <2>3. CASE lost' = lost \cup ({f} \cap Watched)
    BY <1>0, <2>1, <2>3, GiveUpStep
  <2> QED  BY <1>2, <2>2, <2>3 DEF ReadFile
<1>3. ASSUME NEW f \in Files, NEW v \in 0..MaxVersion, WriteFile(f, v)
      PROVE  Promise!MirrorNext \/ UNCHANGED Promise!mirrorVars
  <2>1. /\ dst \in [Files -> 0..MaxVersion] /\ dst[f] \in Nat /\ src[f] \in Nat
        /\ dst[f] <= v /\ v <= src[f]
        /\ dst' = [dst EXCEPT ![f] = v] /\ src' = src /\ lost' = lost
    BY <1>3, BoundAssumption DEF Inv, TypeOK, CopyInv, WriteFile, treeVars
  <2>2. CASE v = dst[f]
    BY <2>1, <2>2 DEF Promise!mirrorVars
  <2>3. CASE v # dst[f]
    <3>1. v \in 0..src[f] /\ v > dst[f]
      BY <2>1, <2>3
    <3>2. Promise!Copy(f)
      BY <2>1, <3>1 DEF Promise!Copy
    <3> QED  BY <3>2 DEF Promise!MirrorNext
  <2> QED  BY <2>2, <2>3
<1>4. CASE \/ \E d \in Dirs : ChangeDir(d)
           \/ \E p \in Paths : Dispatch(p)
           \/ \E f \in Files : WatchNewDirectory(f)
           \/ InstallWatch \/ WatchFails \/ WaitForEvent
           \/ Deliver \/ FlushChanges \/ SyncDone \/ Accumulate \/ RsyncFails
           \/ UNCHANGED vars
  <2>1. src' = src /\ dst' = dst /\ lost \subseteq lost'
    BY <1>4 DEF ChangeDir, Dispatch, WatchNewDirectory, InstallWatch, WatchFails,
       WaitForEvent, Deliver, FlushChanges, SyncDone, Accumulate, RsyncFails, vars,
       treeVars, copyVars
  <2> QED  BY <1>0, <2>1, GiveUpStep
<1> QED  BY <1>1, <1>2, <1>3, <1>4 DEF Next

\* A folder implements Mirror: its target follows the source, for every tree, filter,
\* capacity and whatever fails.
THEOREM FolderMirrorsSource == Spec => MirrorsSource
<1>1. Init => Promise!MirrorInit
  BY DEF Init, Promise!MirrorInit
<1>2. Inv /\ [Next]_vars => [Promise!MirrorNext]_(Promise!mirrorVars)
  BY StepOfMirror
<1> QED  BY <1>1, <1>2, FolderInvariant, PTL DEF Spec, MirrorsSource, Promise!MirrorSpec

-----------------------------------------------------------------------------
(* What an excluded file is safe from.                                     *)

\* Paths whose end is not that of an excluded file do not select it: its last step
\* needs a pattern that is no directory, and those are the whole paths.
LEMMA ApartIsNotSelected ==
  ASSUME NEW f \in Files, NEW paths \in SUBSET Seq(Names),
         \A q \in paths \ {Root} : ~EndsWith(f, q)
  PROVE  f \notin Selected(paths, Files)
<1> SUFFICES ASSUME Transfers(GetFullFilter(paths), f) PROVE FALSE
  BY DEF Selected
<1>1. f \in Seq(Names) /\ f # <<>>
  BY FilesAssumption DEF Root
<1>2. Len(f) \in 1..Len(f) /\ Prefix(f, Len(f)) = f
  BY <1>1 DEF Prefix
<1>3. PICK pattern \in GetFullFilter(paths) : Matches(pattern, f, FALSE)
  <2>1. \E pattern \in GetFullFilter(paths) :
          Matches(pattern, Prefix(f, Len(f)), Len(f) < Len(f))
    BY <1>2 DEF Transfers
  <2>2. (Len(f) < Len(f)) = FALSE
    BY <1>1
  <2> QED  BY <1>2, <2>1, <2>2
<1>4. PICK q \in paths : \E k \in 1..Len(q) : pattern = [path |-> Prefix(q, k), dir |-> k < Len(q)]
  BY DEF GetFullFilter
<1>5. PICK k \in 1..Len(q) : pattern = [path |-> Prefix(q, k), dir |-> k < Len(q)]
  BY <1>4
<1>6. q \in Seq(Names) /\ q # Root
  BY <1>5 DEF Root
<1>7. EndsWith(f, Prefix(q, k)) /\ ~(k < Len(q))
  BY <1>3, <1>5 DEF Matches
<1>8. Prefix(q, k) = q
  BY <1>6, <1>7 DEF Prefix
<1> QED  BY <1>6, <1>7, <1>8

\* The batch of a folder can be aggregated: no file is below another one.
LEMMA BatchOfFolder ==
  ASSUME NEW B, B \subseteq Paths
  PROVE  B \subseteq AllPaths \ {Root} /\ Consistent(B, Status)
<1>1. Paths \subseteq AllPaths \ {Root}
  BY FilesAssumption DEF AllPaths, ToSet
<1>2. \A p \in Paths \cup {Root} : Status[p] = "file" => p \in Files /\ p \notin {Root, Dot}
  BY DEF Status
<1>3. Files \subseteq Paths /\ \A f, g \in Files : ~IsStrictPrefix(f, g)
  BY FilesAssumption
<1> QED  BY <1>1, <1>2, <1>3 DEF Consistent

\* Nothing that Sync is called with ends like an excluded file.
LEMMA SubsAreApart ==
  ASSUME Inv, AccInv', FlushChanges, ExcludedApart, inProgress \cap Ignored = {},
         NEW f \in RsyncExcluded, pc' # "top"
  PROVE  f \notin Selected(Subs, Files)
<1>1. f \in Files
  BY FilesAssumption
<1>2. CASE pc' = "rescan"
  BY <1>2, RescanSelectsNothing DEF Subs
<1>3. CASE pc' # "rescan"
  <2> DEFINE scans == AggregateChanges(batch', Status)
  <2>1. batch' \subseteq Paths \ Ignored
    <3>1. batch' = ripe \/ batch' = inProgress
      BY <1>3 DEF FlushChanges, Flush, SlowDown, NothingSettled, Report, Rescan
    <3>2. inProgress \subseteq Paths /\ ripe \subseteq inProgress
      BY DEF Inv, AccInv, AccTypeOK
    <3> QED  BY <3>1, <3>2
  <2>2. \A s \in scans \ batch' :
          s = Root \/ \E p \in batch' : Front(p) = s
    BY <2>1, BatchOfFolder, AggregationOfBatch
  <2>3. \A p \in batch' : p \in Seq(Names) /\ Front(p) \in Seq(Names)
    BY <2>1, FilesAssumption, FrontIsPrefix
  <2>4. scans \in SUBSET Seq(Names)
    <3> HIDE DEF scans
    <3>1. Root \in Seq(Names)
      BY DEF Root
    <3>2. \A s \in scans : s \in Seq(Names)
      BY <2>2, <2>3, <3>1
    <3> QED  BY <3>2
  <2>5. \A q \in scans \ {Root} : ~EndsWith(f, q)
    BY <2>1, <2>2, <2>3 DEF ExcludedApart, Dir
  <2>6. Subs = scans
    BY <1>3 DEF Subs
  <2> HIDE DEF scans
  <2> QED  BY <1>1, <2>4, <2>5, <2>6, ApartIsNotSelected
<1> QED  BY <1>2, <1>3

\* The invariant: an excluded file is nowhere on the way to the target, because no
\* ignored path gets past watchFolder and none of the others selects it.
ExcludedInv ==
  /\ hand \notin Ignored /\ inProgress \cap Ignored = {}
  /\ \A f \in RsyncExcluded : dst[f] = 0 /\ f \notin todo /\ \A r \in inflight : r[1] # f

LEMMA InitExcluded == Init => ExcludedInv
  BY FilesAssumption DEF Init, AccInit, ExcludedInv

LEMMA ExcludedStep ==
  ASSUME Inv, Inv', ExcludedApart, ExcludedInv, [Next]_vars
  PROVE  ExcludedInv'
<1> USE DEF ExcludedInv, treeVars, watchVars, copyVars, accVars
<1>1. ASSUME \/ \E f \in Files : Change(f) \/ WatchNewDirectory(f)
             \/ \E d \in Dirs : ChangeDir(d)
             \/ \E p \in Paths : Dispatch(p)
             \/ InstallWatch \/ WatchFails
      PROVE  ExcludedInv'
  BY <1>1 DEF Change, WatchNewDirectory, ChangeDir, Dispatch, InstallWatch, WatchFails
<1>2. ASSUME NEW f \in Files, ReadFile(f) PROVE ExcludedInv'
  BY <1>2 DEF ReadFile
<1>3. ASSUME NEW f \in Files, NEW v \in 0..MaxVersion, WriteFile(f, v) PROVE ExcludedInv'
  <2>1. f \notin RsyncExcluded
    BY <1>3 DEF WriteFile
  <2>2. \A g \in RsyncExcluded : dst'[g] = dst[g]
    BY <1>3, <2>1, FilesAssumption DEF WriteFile, Inv, TypeOK
  <2> QED  BY <1>3, <2>2 DEF WriteFile
<1>4. CASE WaitForEvent
  BY <1>4, FilesAssumption DEF WaitForEvent, Drops
<1>5. CASE Deliver
  <2>1. hand \in Paths \ Ignored /\ hand' = NoPath
    BY <1>5 DEF Deliver, Inv, TypeOK
  <2>2. inProgress' \subseteq inProgress \cup {hand} /\ dst' = dst /\ inflight' = inflight
    BY <1>5 DEF Deliver, TakeEvent, Reject, Track
  <2>3. todo' = todo \/ todo' = Selected({hand}, Files)
    BY <1>5 DEF Deliver, StartSync
  <2>4. ASSUME NEW f \in RsyncExcluded PROVE f \notin Selected({hand}, Files)
    <3>1. f \in Files /\ {hand} \in SUBSET Seq(Names)
      BY <2>1, FilesAssumption
    <3>2. \A q \in {hand} \ {Root} : ~EndsWith(f, q)
      BY <2>1, <2>4 DEF ExcludedApart
    <3> QED  BY <3>1, <3>2, ApartIsNotSelected
  <2>5. NoPath \notin Ignored
    BY FilesAssumption
  <2> QED  BY <2>1, <2>2, <2>3, <2>4, <2>5
<1>6. CASE FlushChanges
  <2>1. UNCHANGED <<hand, inProgress, dst, inflight>>
    BY <1>6 DEF FlushChanges, Flush
  <2>2. todo' = todo \/ (pc' # "top" /\ todo' = Selected(Subs, Files))
    BY <1>6 DEF FlushChanges, StartSync
  <2>3. ASSUME NEW f \in RsyncExcluded, pc' # "top" PROVE f \notin Selected(Subs, Files)
    BY <1>6, <2>3, SubsAreApart DEF Inv
  <2> QED  BY <2>1, <2>2, <2>3
<1>7. CASE SyncDone
  BY <1>7 DEF SyncDone, SyncReturns, CallbackReturns, Forget
<1>8. CASE Accumulate
  BY <1>8 DEF Accumulate, AccLocal, Started, LoopTop, TakeTick, RemindReturns, TimerFires,
     ScanFallsDue, RipenPath
<1>9. CASE RsyncFails
  BY <1>9 DEF RsyncFails
<1>10. CASE UNCHANGED vars
  BY <1>10 DEF vars
<1> QED  BY <1>1, <1>2, <1>3, <1>4, <1>5, <1>6, <1>7, <1>8, <1>9, <1>10 DEF Next

\* An excluded file is never copied, whatever is written, lost or aggregated (76-77, 450).
THEOREM ExcludedIsNeverCopied == Spec => []ExcludedNeverCopied
<1> DEFINE IInv == Inv /\ (ExcludedApart => ExcludedInv)
<1>1. Init => IInv
  BY InitFolder, InitExcluded
<1>2. IInv /\ [Next]_vars => IInv'
  <2>1. ExcludedApart' = ExcludedApart
    BY DEF ExcludedApart, Dir, Root, Front, EndsWith
  <2> QED  BY <2>1, FolderStep, ExcludedStep
<1>3. IInv => ExcludedNeverCopied
  BY DEF ExcludedInv, ExcludedNeverCopied
<1> QED  BY <1>1, <1>2, <1>3, PTL DEF Spec

-----------------------------------------------------------------------------
(* Why a calm folder loses nothing.                                        *)

\* The writes so far, as pairs of a file and a version.
Written(s) == {w \in Files \X (1..MaxVersion) : w[2] <= s[w[1]]}

\* The invariant: every event under way stands for a write of its own, so the channel
\* has room; and nothing is written before there is a watch.
CalmInv ==
  /\ raised \subseteq Files /\ ToSet(queue) \subseteq Files
  /\ hand \in Files \cup {NoPath} /\ inProgress \subseteq Files
  /\ wpc = "initial" => unwatched = Files /\ \A f \in Files : src[f] = 0
  /\ Len(queue) + Cardinality(raised) <= Cardinality(Written(src))
  /\ lost = {}

\* There are no more writes than the channel has room for.
LEMMA WritesAreBounded ==
  ASSUME Calm, NEW s
  PROVE  /\ IsFiniteSet(Written(s)) /\ Cardinality(Written(s)) \in Nat
         /\ Cardinality(Written(s)) <= QueueSize
<1>1. IsFiniteSet(Files) /\ Cardinality(Files) * MaxVersion <= QueueSize
  BY DEF Calm
<1>2. IsFiniteSet(1..MaxVersion) /\ Cardinality(1..MaxVersion) = MaxVersion
  BY BoundAssumption, FS_Interval
<1>3. /\ IsFiniteSet(Files \X (1..MaxVersion))
      /\ Cardinality(Files \X (1..MaxVersion)) = Cardinality(Files) * MaxVersion
  BY <1>1, <1>2, FS_Product
<1>4. Written(s) \subseteq Files \X (1..MaxVersion)
  BY DEF Written
<1>5. /\ IsFiniteSet(Written(s)) /\ Cardinality(Written(s)) \in Nat
      /\ Cardinality(Written(s)) <= Cardinality(Files) * MaxVersion
      /\ Cardinality(Files) * MaxVersion \in Nat
  BY <1>3, <1>4, FS_Subset, FS_CardinalityType
<1> QED  BY <1>1, <1>5, BoundAssumption

LEMMA OneMoreWrite ==
  ASSUME Calm, TypeOK, NEW f \in Files, Change(f)
  PROVE  Cardinality(Written(src')) = Cardinality(Written(src)) + 1
<1>1. /\ src \in [Files -> 0..MaxVersion] /\ src[f] < MaxVersion
      /\ src' = [src EXCEPT ![f] = @ + 1]
  BY DEF TypeOK, Change
<1> DEFINE w == <<f, src[f] + 1>>
<1>2. src[f] \in Nat /\ src[f] + 1 \in 1..MaxVersion
  BY <1>1, BoundAssumption
<1>3. w \notin Written(src)
  BY <1>2 DEF Written
<1>4. Written(src') = Written(src) \cup {w}
  <2>1. ASSUME NEW x \in Files \X (1..MaxVersion)
        PROVE  x[2] <= src'[x[1]] <=> x[2] <= src[x[1]] \/ x = w
    <3>1. x = <<x[1], x[2]>> /\ x[1] \in Files /\ x[2] \in Nat
      BY <2>1
    <3>2. CASE x[1] = f
      <4>1. src'[f] = src[f] + 1
        BY <1>1
      <4>2. x = w <=> x[2] = src[f] + 1
        BY <3>1, <3>2
      <4> HIDE DEF w
      <4> QED  BY <1>2, <3>1, <3>2, <4>1, <4>2
    <3>3. CASE x[1] # f
      <4>1. src'[x[1]] = src[x[1]]
        BY <1>1, <3>1, <3>3
      <4>2. x # w
        BY <3>3
      <4> QED  BY <4>1, <4>2
    <3> QED  BY <3>2, <3>3
  <2>2. w \in Files \X (1..MaxVersion)
    BY <1>2
  <2> HIDE DEF w
  <2> QED  BY <2>1, <2>2 DEF Written
<1>5. IsFiniteSet(Written(src))
  BY WritesAreBounded
<1> HIDE DEF w
<1> QED  BY <1>3, <1>4, <1>5, FS_AddElement

\* How many events are under way, and that more of them cannot be raised than files.
LEMMA EventsAreCounted ==
  ASSUME Calm, TypeOK, CalmInv
  PROVE  /\ Len(queue) \in Nat /\ IsFiniteSet(raised) /\ Cardinality(raised) \in Nat
         /\ Cardinality(inProgress) \in Nat /\ Cardinality(inProgress) < MaxFiles
<1>1. queue \in Seq(Paths) /\ raised \subseteq Files /\ inProgress \subseteq Files
  BY DEF TypeOK, CalmInv
<1>2. IsFiniteSet(Files) /\ Cardinality(Files) < MaxFiles
  BY DEF Calm
<1>3. /\ IsFiniteSet(raised) /\ IsFiniteSet(inProgress)
      /\ Cardinality(inProgress) <= Cardinality(Files)
  BY <1>1, <1>2, FS_Subset
<1>4. Cardinality(raised) \in Nat /\ Cardinality(inProgress) \in Nat /\ Cardinality(Files) \in Nat
  BY <1>2, <1>3, FS_CardinalityType
<1> QED  BY <1>1, <1>2, <1>3, <1>4, MaxFilesAssumption, LenProperties

\* A watched file that is written raises its event, unless one is waiting already.
LEMMA ChangeCalm ==
  ASSUME Calm, TypeOK, CalmInv, NEW f \in Files, Change(f)
  PROVE  CalmInv'
<1>1. /\ UNCHANGED <<accVars, watchVars, copyVars, lost>>
      /\ raised' = raised \cup {f} /\ f \notin unwatched
  BY DEF Change, Noticed, Unnoticed, Calm
<1>2. wpc # "initial"
  BY <1>1 DEF CalmInv
<1>3. Cardinality(raised') <= Cardinality(raised) + 1 /\ Cardinality(raised') \in Nat
  <2>1. IsFiniteSet(raised) /\ Cardinality(raised) \in Nat
    BY EventsAreCounted
  <2> QED  BY <1>1, <2>1, FS_AddElement
<1>4. Len(queue) + Cardinality(raised') <= Cardinality(Written(src'))
  <2>1. Cardinality(Written(src)) \in Nat
    BY WritesAreBounded
  <2>2. Len(queue) + Cardinality(raised) <= Cardinality(Written(src))
    BY DEF CalmInv
  <2> QED  BY <1>3, <2>1, <2>2, EventsAreCounted, OneMoreWrite
<1> QED  BY <1>1, <1>2, <1>4 DEF CalmInv, watchVars, accVars

\* An event that is dispatched finds room.
LEMMA DispatchCalm ==
  ASSUME Calm, TypeOK, CalmInv, NEW p \in Paths, Dispatch(p)
  PROVE  CalmInv'
<1>1. /\ p \in raised /\ raised' = raised \ {p}
      /\ UNCHANGED <<accVars, src, hand, wpc, unwatched, copyVars>>
  BY DEF Dispatch
<1>2. Cardinality(raised') = Cardinality(raised) - 1 /\ Cardinality(raised) >= 1
  <2>1. IsFiniteSet(raised) /\ Cardinality(raised) \in Nat
    BY EventsAreCounted
  <2>2. Cardinality(raised') = Cardinality(raised) - 1 /\ IsFiniteSet(raised')
    BY <1>1, <2>1, FS_RemoveElement
  <2>3. Cardinality(raised') \in Nat
    BY <2>2, FS_CardinalityType
  <2> QED  BY <2>1, <2>2, <2>3
<1>3. RoomInQueue
  <2>1. Len(queue) + Cardinality(raised) <= QueueSize
    <3>1. /\ Cardinality(Written(src)) <= QueueSize /\ Cardinality(Written(src)) \in Nat
      BY WritesAreBounded
    <3>2. Len(queue) + Cardinality(raised) <= Cardinality(Written(src))
      BY DEF CalmInv
    <3> QED  BY <3>1, <3>2, EventsAreCounted, BoundAssumption
  <2> QED  BY <1>2, <2>1, EventsAreCounted, BoundAssumption DEF RoomInQueue
<1>4. queue' = Append(queue, p) /\ lost' = lost
  BY <1>3 DEF Dispatch
<1>5. Len(queue') = Len(queue) + 1 /\ ToSet(queue') = ToSet(queue) \cup {p}
  BY <1>4, AppendProperties, PathsInAppend DEF TypeOK
<1>6. Len(queue') + Cardinality(raised') = Len(queue) + Cardinality(raised)
  BY <1>2, <1>5, EventsAreCounted
<1>7. ToSet(queue') \subseteq Files /\ raised' \subseteq Files
  BY <1>1, <1>5 DEF CalmInv
<1> QED  BY <1>1, <1>4, <1>6, <1>7 DEF CalmInv, accVars

\* The head of the channel is taken out.
LEMMA WaitForEventCalm ==
  ASSUME Calm, TypeOK, CalmInv, WaitForEvent
  PROVE  CalmInv'
<1>1. /\ queue \in Seq(Paths) /\ queue # <<>> /\ queue' = Tail(queue)
      /\ hand' \in {NoPath, Head(queue)}
      /\ UNCHANGED <<accVars, treeVars, wpc, unwatched, lost>>
  BY DEF WaitForEvent, TypeOK
<1>2. /\ Len(queue') = Len(queue) - 1 /\ Len(queue') \in Nat
      /\ \A i \in 1..Len(queue') : queue'[i] = queue[i + 1]
      /\ DOMAIN queue = 1..Len(queue) /\ DOMAIN queue' = 1..Len(queue')
      /\ Head(queue) = queue[1] /\ Len(queue) \in Nat \ {0}
  BY <1>1, HeadTailProperties, LenProperties, EmptySeq
<1>3. ToSet(queue') \subseteq ToSet(queue) /\ Head(queue) \in ToSet(queue)
  BY <1>2 DEF ToSet
<1>4. Len(queue') + Cardinality(raised) <= Cardinality(Written(src))
  <2>1. Cardinality(Written(src)) \in Nat
    BY WritesAreBounded
  <2>2. Len(queue) + Cardinality(raised) <= Cardinality(Written(src))
    BY DEF CalmInv
  <2> QED  BY <1>2, <2>1, <2>2, EventsAreCounted
<1> QED  BY <1>1, <1>3, <1>4 DEF CalmInv, accVars, treeVars

\* The map has room for every file.
LEMMA DeliverCalm ==
  ASSUME Calm, TypeOK, CalmInv, Deliver
  PROVE  CalmInv'
<1>1. ~MapFull
  BY EventsAreCounted, MaxFilesAssumption DEF MapFull
<1>2. /\ hand \in Files /\ hand' = NoPath /\ lost' = lost
      /\ UNCHANGED <<treeVars, queue, wpc, unwatched>>
      /\ inProgress' = inProgress \cup {hand}
  BY <1>1 DEF Deliver, TakeEvent, Reject, Track, CalmInv
<1> QED  BY <1>2 DEF CalmInv, treeVars

\* The rsync of a batch selects every file of it: none is below another one, and there
\* are too few of them for a scan of their directory.
LEMMA BatchIsSelected ==
  ASSUME Calm, NEW B, B \subseteq Files, ~SyncEach, NEW f \in B
  PROVE  f \in Selected(AggregateChanges(B, Status), Files)
<1> DEFINE scans == AggregateChanges(B, Status)
<1>1. B \subseteq Paths /\ Dot \notin B /\ \A p, q \in B : ~IsStrictPrefix(p, q)
  BY FilesAssumption
<1>2. /\ \A p \in B \ {Dot} : \E s \in scans : IsPrefix(s, p)
      /\ \A s \in scans \ B :
           \/ s = Root /\ Dot \in B
           \/ DirVsFiles <= Cardinality(Below(B \ {Dot}, s))
      /\ \A s \in scans \ B :
           \/ s = Root /\ Dot \in B
           \/ \E p \in B : Status[p] = "file" /\ Front(p) = s
  BY <1>1, BatchOfFolder, AggregationOfBatch
<1>3. scans \subseteq B
  <2> SUFFICES ASSUME NEW s \in scans \ B PROVE FALSE
    OBVIOUS
  <2>1. CASE ~StatHitsFolder
    <3>1. PICK p \in B : Status[p] = "file"
      BY <1>1, <1>2
    <3>2. Status[p] = "deleted"
      BY <2>1, <1>1 DEF Status
    <3> QED  BY <3>1, <3>2
  <2>2. CASE Cardinality(Files) < DirVsFiles
    <3>1. IsFiniteSet(Files)
      BY DEF Calm
    <3>2. Below(B \ {Dot}, s) \subseteq Files
      BY DEF Below
    <3>3. /\ IsFiniteSet(Below(B \ {Dot}, s))
          /\ Cardinality(Below(B \ {Dot}, s)) <= Cardinality(Files)
      BY <3>1, <3>2, FS_Subset
    <3>4. Cardinality(Below(B \ {Dot}, s)) \in Nat /\ Cardinality(Files) \in Nat
      BY <3>1, <3>3, FS_CardinalityType
    <3>5. DirVsFiles <= Cardinality(Below(B \ {Dot}, s))
      BY <1>1, <1>2
    <3> QED  BY <2>2, <3>3, <3>4, <3>5, DirVsFilesAssumption
  <2> QED  BY <2>1, <2>2 DEF Calm
<1>4. PICK s \in scans : IsPrefix(s, f)
  BY <1>1, <1>2
<1>5. s = f
  BY <1>1, <1>3, <1>4 DEF IsStrictPrefix
<1>6. f \in Seq(Names) /\ f \in Files
  BY FilesAssumption
<1>7. Transfers(GetFullFilter(scans), f)
  <2> HIDE DEF scans
  <2>1. f \in scans
    BY <1>4, <1>5
  <2> QED  BY <1>6, <2>1, ListedFileIsTransferred
<1> QED  BY <1>6, <1>7 DEF Selected

LEMMA FlushChangesCalm ==
  ASSUME Calm, Inv, CalmInv, FlushChanges
  PROVE  CalmInv'
<1>1. UNCHANGED <<treeVars, watchVars, inProgress>>
  BY DEF FlushChanges, Flush
<1>2. lost' = lost
  <2>1. CASE pc' = "top" \/ SyncEach
    BY <2>1 DEF FlushChanges
  <2>2. CASE ~(pc' = "top" \/ SyncEach)
    <3>1. pc' = "report" /\ batch' = ripe
      <4>1. ~(Cardinality(inProgress) >= MaxFiles)
        BY EventsAreCounted, MaxFilesAssumption DEF Inv
      <4> QED  BY <2>2, <4>1 DEF FlushChanges, Flush, SlowDown, NothingSettled, Report, Rescan
    <3>2. batch' \subseteq Files
      BY <3>1 DEF CalmInv, Inv, AccInv, AccTypeOK
    <3>3. Subs = AggregateChanges(batch', Status)
      BY <3>1 DEF Subs
    <3>4. todo' = Selected(Subs, Files) /\ lost' = lost \cup ((batch' \cap Watched) \ todo')
      BY <2>2 DEF FlushChanges, StartSync
    <3>5. batch' \subseteq todo'
      BY <2>2, <3>2, <3>3, <3>4, BatchIsSelected
    <3> QED  BY <3>4, <3>5
  <2> QED  BY <2>1, <2>2
<1> QED  BY <1>1, <1>2 DEF CalmInv, treeVars, watchVars

\* A removal that rsync finds may be carried out; the first rsync finds none.
LEMMA ReadFileCalm ==
  ASSUME Calm, TypeOK, CalmInv, NEW f \in Files, ReadFile(f)
  PROVE  CalmInv'
<1>1. ~(Removed(f) /\ ~Deletes)
  <2> SUFFICES ASSUME <<f, src[f]>> \in Removals PROVE Deletes
    BY DEF Removed
  <2>1. src[f] \in 0..MaxVersion
    BY DEF TypeOK
  <2>2. Delete = "true" \/ (Delete = "running" /\ src[f] > 0)
    BY <2>1 DEF Calm
  <2>3. src[f] > 0 => wpc # "initial"
    BY DEF CalmInv
  <2> QED  BY <2>2, <2>3 DEF Deletes
<1>2. lost' = lost \ {f} /\ UNCHANGED <<accVars, treeVars, watchVars>>
  BY <1>1 DEF ReadFile
<1> QED  BY <1>2 DEF CalmInv, accVars, treeVars, watchVars

LEMMA InitCalm == Calm /\ Init => CalmInv
<1> SUFFICES ASSUME Calm, Init PROVE CalmInv
  OBVIOUS
<1>1. ToSet(queue) = {} /\ Len(queue) = 0 /\ Cardinality(raised) = 0
  BY FS_EmptySet DEF Init, ToSet
<1>2. Cardinality(Written(src)) \in Nat
  BY WritesAreBounded
<1> QED  BY <1>1, <1>2 DEF Init, AccInit, CalmInv

LEMMA CalmStep ==
  ASSUME Calm, Inv, CalmInv, [Next]_vars
  PROVE  CalmInv'
<1>0. TypeOK
  BY DEF Inv
<1>1. ASSUME NEW f \in Files, Change(f) \/ ReadFile(f) PROVE CalmInv'
  BY <1>0, <1>1, ChangeCalm, ReadFileCalm
<1>2. ASSUME NEW p \in Paths, Dispatch(p) PROVE CalmInv'
  BY <1>0, <1>2, DispatchCalm
<1>3. CASE WaitForEvent \/ Deliver \/ FlushChanges
  BY <1>0, <1>3, WaitForEventCalm, DeliverCalm, FlushChangesCalm
<1>4. CASE SyncDone
  <2>1. UNCHANGED <<treeVars, watchVars, lost>> /\ inProgress' \subseteq inProgress
    BY <1>4 DEF SyncDone, SyncReturns, CallbackReturns, Forget
  <2> QED  BY <2>1 DEF CalmInv, treeVars, watchVars
<1>5. CASE Accumulate
  <2>1. UNCHANGED <<treeVars, watchVars, lost, inProgress>>
    BY <1>5 DEF Accumulate, AccLocal, Started, LoopTop, TakeTick, RemindReturns, TimerFires,
       ScanFallsDue, RipenPath
  <2> QED  BY <2>1 DEF CalmInv, treeVars, watchVars
<1>6. ASSUME \/ InstallWatch \/ WatchFails \/ UNCHANGED vars
             \/ \E f \in Files : WatchNewDirectory(f) \/ \E v \in 0..MaxVersion : WriteFile(f, v)
      PROVE  CalmInv'
  <2>1. UNCHANGED <<treeVars, queue, hand, lost, inProgress>>
    BY <1>6 DEF InstallWatch, WatchFails, WatchNewDirectory, WriteFile, vars, watchVars, accVars
  <2>2. wpc' = "initial" => wpc = "initial" /\ unwatched' = unwatched
    BY <1>6 DEF InstallWatch, WatchFails, WatchNewDirectory, WriteFile, vars, watchVars
  <2> QED  BY <2>1, <2>2 DEF CalmInv, treeVars
<1>7. ~RsyncFails /\ ~\E d \in Dirs : ChangeDir(d)
  BY DEF Calm, RsyncFails
<1> QED  BY <1>1, <1>2, <1>3, <1>4, <1>5, <1>6, <1>7 DEF Next

\* A calm folder gives nothing up, however often and whenever its files are written,
\* and for every size of the tree, the map and the channel.
THEOREM CalmFolderLosesNothing == Spec => []NothingLost
<1> DEFINE IInv == Inv /\ (Calm => CalmInv)
<1>1. Init => IInv
  BY InitFolder, InitCalm
<1>2. IInv /\ [Next]_vars => IInv'
  <2>1. Calm' = Calm
    BY DEF Calm
  <2> QED  BY <2>1, FolderStep, CalmStep
<1>3. IInv => NothingLost
  BY DEF CalmInv, NothingLost
<1> QED  BY <1>1, <1>2, <1>3, PTL DEF Spec

\* Nothing is under way: no event waits anywhere, and no rsync runs.
AtRest == raised = {} /\ queue = <<>> /\ hand = NoPath /\ inProgress = {} /\ Settled

\* What the first rsync, the watch and the batches are for: whenever a calm folder comes
\* to rest, every file that is not ignored is in the target as it is in the source.
THEOREM AtRestInSync == Spec => [](Calm /\ AtRest => \A f \in Watched : InSync(f))
<1>1. Inv /\ NothingLost => (Calm /\ AtRest => \A f \in Watched : InSync(f))
  <2> SUFFICES ASSUME Inv, NothingLost, Calm, AtRest, NEW f \in Watched PROVE InSync(f)
    OBVIOUS
  <2>1. f # NoPath /\ f \notin lost
    BY FilesAssumption DEF Watched, NothingLost
  <2>2. raised = {} /\ hand = NoPath /\ inProgress = {} /\ todo = {} /\ inflight = {}
    BY DEF AtRest, Settled
  <2>3. ToSet(queue) = {}
    BY DEF AtRest, ToSet
  <2>4. ~OnItsWay(f)
    BY <2>1, <2>2, <2>3 DEF OnItsWay
  <2> QED  BY <2>1, <2>4 DEF Inv, NoSilentLoss
<1> QED  BY <1>1, FolderInvariant, CalmFolderLosesNothing, PTL

-----------------------------------------------------------------------------
(* What becomes of a full map (syncd-go.go:589-599).                       *)

\* The rescan that the comment at line 590 announces: it starts no copy of any file, and
\* the tracked files, which are forgotten when it returns, are given up.
RescanCopiesNothing ==
  [][pc = "flush" /\ pc' = "rescan" /\ ~SyncEach =>
       todo' = {} /\ inProgress \cap Watched \subseteq lost']_vars

\* It does so in every folder, whatever the map holds.
THEOREM FullMapGivesUp == Spec => RescanCopiesNothing
<1> DEFINE GivesUp == pc = "flush" /\ pc' = "rescan" /\ ~SyncEach =>
                        todo' = {} /\ inProgress \cap Watched \subseteq lost'
<1>1. Inv /\ [Next]_vars => [GivesUp]_vars
  <2> SUFFICES ASSUME Inv, Next, pc = "flush", pc' = "rescan", ~SyncEach
               PROVE  todo' = {} /\ inProgress \cap Watched \subseteq lost'
    OBVIOUS
  <2>1. FlushChanges
    BY DEF Next, Change, ReadFile, WriteFile, ChangeDir, Dispatch, InstallWatch, WatchFails,
       WatchNewDirectory, WaitForEvent, Deliver, TakeEvent, RsyncFails, SyncDone, SyncReturns,
       CallbackReturns, Accumulate, AccLocal, Started, LoopTop, TakeTick, RemindReturns,
       TimerFires, ScanFallsDue, RipenPath, accVars
  <2>2. todo' = {}
    BY <2>1, RescanSelectsNothing DEF FlushChanges, StartSync, Subs
  <2>3. batch' = inProgress
    BY <2>1 DEF FlushChanges, Flush, SlowDown, NothingSettled, Report, Rescan
  <2>4. lost' = lost \cup ((batch' \cap Watched) \ todo')
    BY <2>1 DEF FlushChanges
  <2> QED  BY <2>2, <2>3, <2>4
<1> QED  BY <1>1, FolderInvariant, PTL DEF Spec, RescanCopiesNothing
=============================================================================
