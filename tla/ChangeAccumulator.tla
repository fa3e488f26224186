-------------------------- MODULE ChangeAccumulator --------------------------
(***************************************************************************)
(* accumulateChanges (syncd-go.go:460-610): the goroutine of one folder    *)
(* that collects the paths reported by the watcher, waits until they have  *)
(* been quiet for fsEventTimeout, and hands them to a callback in batches. *)
(*                                                                         *)
(* The goroutine is sequential, so its state is a program counter and the  *)
(* local variables of the Go function.  Time is abstract: a clock reading  *)
(* matters only through three comparisons, each of which is a variable     *)
(* that the environment (RipenPath, TimerFires, ScanFallsDue) switches on: *)
(*   ripe        the paths tracked for longer than fsEventTimeout (569)    *)
(*   flushTimer  the interval the timer runs for, or "fired" when its tick *)
(*               waits in the channel, or "idle" once the tick was taken   *)
(*   scanDue     nextScanTime.Before(time.Now()) (547)                     *)
(*                                                                         *)
(* The source's `!p.fsEvent` branches are dead in this program: line 521,  *)
(* the only writer of inProgress, always writes fsEvent = true, and        *)
(* relativePath never returns "".  They are not modelled.                  *)
(***************************************************************************)
EXTENDS Naturals, FiniteSets

CONSTANTS
  Paths,          \* relative paths the watcher can report
  MaxFiles,       \* maxFiles (66), 512 in the program
  DelayScan,      \* TRUE iff delayScan > 0: reminders are sent
  SyncEach,       \* TRUE iff folderCfg.SyncType # "more": one rsync per event
  ConfigFile,     \* the path p with folderPath/p = configFile, if watched
  CallbackErrors  \* TRUE iff the callback may return an error

ASSUME MaxFilesAssumption == MaxFiles \in Nat \ {0}
ASSUME SwitchAssumption ==
  DelayScan \in BOOLEAN /\ SyncEach \in BOOLEAN /\ CallbackErrors \in BOOLEAN

VARIABLES
  inProgress,            \* keys of the map of tracked paths
  ripe,                  \* tracked paths that have settled
  currInterval,          \* "debounce" or "delayScan"
  flushTimer,            \* see above
  flushTimerNeedsReset,
  scanDue,
  batch,                 \* the paths the running rsync or callback is about
  pc,                    \* where the goroutine is, see AccTypeOK
  err,                   \* what the last callback returned: "nil" or "failed"
  restarting             \* restart() returned: main is on its way to os.Exit

timerVars == <<currInterval, flushTimer, flushTimerNeedsReset>>
accVars == <<inProgress, ripe, timerVars, scanDue, batch, pc, err, restarting>>

Intervals == {"debounce", "delayScan"}

AccInit ==
  /\ inProgress = {} /\ ripe = {} /\ batch = {}
  /\ currInterval = "delayScan"
  /\ flushTimer = "fired"                 \* time.NewTimer(0)
  /\ flushTimerNeedsReset = TRUE
  /\ scanDue = FALSE
  /\ pc = IF DelayScan THEN "start" ELSE "top"
  /\ err = "nil" /\ restarting = FALSE

-----------------------------------------------------------------------------
(* The steps of the goroutine.                                             *)

\* The first askToDelayScan (481) returns; its error is only logged.
Started ==
  /\ pc = "start"
  /\ pc' = "top"
  /\ UNCHANGED <<inProgress, ripe, timerVars, scanDue, batch, err, restarting>>

\* Top of the loop (488-497): stop the timer, drain its channel, start it anew.
LoopTop ==
  /\ pc = "top"
  /\ pc' = "select"
  /\ flushTimerNeedsReset' = FALSE
  /\ flushTimer' = IF flushTimerNeedsReset THEN currInterval ELSE flushTimer
  /\ UNCHANGED <<inProgress, ripe, currInterval, scanDue, batch, err, restarting>>

\* An event ends the slow interval (501-507).  The faulty variant does not restart
\* the timer.
SpeedUpNoReset ==
  /\ currInterval' = "debounce"
  /\ UNCHANGED flushTimerNeedsReset

SpeedUp ==
  /\ currInterval' = "debounce"
  /\ flushTimerNeedsReset' = (flushTimerNeedsReset \/ currInterval # "debounce")

\* More than maxFiles paths are tracked already (515).
MapFull == Cardinality(inProgress) > MaxFiles

\* The event is discarded (516-517), even one that would only refresh a path.
Reject(p) ==
  /\ MapFull
  /\ pc' = "top"
  /\ UNCHANGED <<inProgress, ripe, batch>>

\* Track p, or refresh its time stamp (521); then rsync it (527), or go on to
\* the test for the configuration file (534).
Track(p) ==
  /\ ~MapFull
  /\ inProgress' = inProgress \cup {p}
  /\ ripe' = ripe \ {p}
  /\ batch' = IF SyncEach THEN {p} ELSE {}
  /\ pc' = IF SyncEach THEN "sync" ELSE IF p = ConfigFile THEN "restart" ELSE "top"

\* The select takes an event from fsInput (499).
TakeEvent(p) ==
  /\ pc = "select"
  /\ SpeedUp
  /\ Reject(p) \/ Track(p)
  /\ UNCHANGED <<flushTimer, scanDue, err, restarting>>

\* The rsync of a single path returns (528); a failure is only logged.
SyncReturns ==
  /\ pc = "sync"
  /\ pc' = IF batch = {ConfigFile} THEN "restart" ELSE "top"
  /\ batch' = {}
  /\ UNCHANGED <<inProgress, ripe, timerVars, scanDue, err, restarting>>

\* The changed path was the configuration file (534-541).  restart() fails, or it
\* returns once main has received from `stop`, which main does only once: a
\* second caller blocks in `stop <- 3` until the process is gone.
RestartReturns ==
  /\ pc = "restart"
  /\ pc' = "top"
  /\ \/ UNCHANGED restarting
     \/ ~restarting /\ restarting' = TRUE
  /\ UNCHANGED <<inProgress, ripe, timerVars, scanDue, batch, err>>

\* A reminder is due (547).  The faulty variant sends it only when nothing happens.
ReminderDueWhenSlow == DelayScan /\ scanDue /\ currInterval = "delayScan"
ReminderDue == DelayScan /\ scanDue

\* The select takes the tick (545) and sends a reminder when one is due (547-550).
TakeTick ==
  /\ pc = "select"
  /\ flushTimer = "fired"
  /\ flushTimer' = "idle"
  /\ flushTimerNeedsReset' = TRUE
  /\ pc' = IF ReminderDue THEN "remind" ELSE "flush"
  /\ scanDue' = (scanDue /\ ~ReminderDue)
  /\ UNCHANGED <<inProgress, ripe, currInterval, batch, err, restarting>>

RemindReturns ==
  /\ pc = "remind"
  /\ pc' = "flush"
  /\ UNCHANGED <<inProgress, ripe, timerVars, scanDue, batch, err, restarting>>

\* Nothing is tracked: back to the slow interval (551-557).  The faulty variant slows
\* down after every tick.
SlowDownAlways ==
  /\ currInterval' = "delayScan"
  /\ pc' = "top"
  /\ UNCHANGED batch

SlowDown ==
  /\ inProgress = {}
  /\ currInterval' = "delayScan"
  /\ pc' = "top"
  /\ UNCHANGED batch

\* Every tracked path was touched less than fsEventTimeout ago (576-579).
NothingSettled ==
  /\ inProgress # {} /\ ripe = {}
  /\ Cardinality(inProgress) < MaxFiles
  /\ pc' = "top"
  /\ UNCHANGED <<currInterval, batch>>

\* The settled paths go to the callback (562-582).
Report ==
  /\ ripe # {}
  /\ Cardinality(inProgress) < MaxFiles
  /\ batch' = ripe
  /\ pc' = "report"
  /\ UNCHANGED currInterval

\* Too many paths: the callback gets [""], every path will be forgotten (589-599).
\* The faulty variant will forget only what the callback was given.
RescanForgetsSubs ==
  /\ Cardinality(inProgress) >= MaxFiles
  /\ batch' = {""}
  /\ pc' = "rescan"
  /\ UNCHANGED currInterval

Rescan ==
  /\ Cardinality(inProgress) >= MaxFiles
  /\ batch' = inProgress
  /\ pc' = "rescan"
  /\ UNCHANGED currInterval

Flush ==
  /\ pc = "flush"
  /\ SlowDown \/ NothingSettled \/ Report \/ Rescan
  /\ err' = "nil"                         \* var err error (560)
  /\ UNCHANGED <<inProgress, ripe, flushTimer, flushTimerNeedsReset, scanDue, restarting>>

\* The paths that the callback was told about are no longer tracked (584-587,
\* 593-598).  The faulty variant clears the whole map.
ForgetAll == inProgress' = {} /\ ripe' = {}
Forget == inProgress' = inProgress \ batch /\ ripe' = ripe \ batch

\* The callback succeeded: forget its paths (583-599), the scan is delayed (603).
CallbackReturns ==
  /\ pc \in {"report", "rescan"}
  /\ Forget
  /\ batch' = {}
  /\ scanDue' = FALSE
  /\ pc' = "top" /\ err' = "nil"
  /\ UNCHANGED <<timerVars, restarting>>

\* The callback failed: everything stays tracked for the next tick (604-607).  The
\* faulty variant cleans up all the same.
CallbackFailsForgets ==
  /\ CallbackErrors
  /\ pc \in {"report", "rescan"}
  /\ Forget
  /\ batch' = {}
  /\ pc' = "top" /\ err' = "failed"
  /\ UNCHANGED <<timerVars, scanDue, restarting>>

CallbackFails ==
  /\ CallbackErrors
  /\ pc \in {"report", "rescan"}
  /\ batch' = {}
  /\ pc' = "top" /\ err' = "failed"
  /\ UNCHANGED <<inProgress, ripe, timerVars, scanDue, restarting>>

-----------------------------------------------------------------------------
(* The environment: the clock, the watcher and main.                       *)

RipenPath(p) ==
  /\ p \in inProgress \ ripe
  /\ ripe' = ripe \cup {p}
  /\ UNCHANGED <<inProgress, timerVars, scanDue, batch, pc, err, restarting>>

TimerFires ==
  /\ flushTimer \in Intervals
  /\ flushTimer' = "fired"
  /\ UNCHANGED <<inProgress, ripe, currInterval, flushTimerNeedsReset, scanDue,
                 batch, pc, err, restarting>>

ScanFallsDue ==
  /\ DelayScan /\ ~scanDue
  /\ scanDue' = TRUE
  /\ UNCHANGED <<inProgress, ripe, timerVars, batch, pc, err, restarting>>

\* main reaches os.Exit (248) wherever this goroutine is; the process that
\* restart() started begins with an empty map.
ProcessReplaced ==
  /\ restarting
  /\ inProgress' = {} /\ ripe' = {} /\ batch' = {}
  /\ currInterval' = "delayScan" /\ flushTimer' = "fired"
  /\ flushTimerNeedsReset' = TRUE
  /\ scanDue' = FALSE
  /\ pc' = IF DelayScan THEN "start" ELSE "top"
  /\ err' = "nil" /\ restarting' = FALSE

\* The steps whose event, callback and clock are not shared with another component.
AccLocal ==
  \/ Started \/ LoopTop \/ TakeTick \/ RemindReturns \/ TimerFires \/ ScanFallsDue
  \/ \E p \in Paths : RipenPath(p)

AccNext ==
  \/ AccLocal
  \/ \E p \in Paths : TakeEvent(p)
  \/ SyncReturns \/ RestartReturns \/ Flush \/ CallbackReturns \/ CallbackFails
  \/ ProcessReplaced

AccSpec == AccInit /\ [][AccNext]_accVars

\* The goroutine runs whenever it can, rsync and the callback return, a clock runs
\* on, and a main that has received from `stop` reaches os.Exit.  Once it has, a call
\* of restart need not return: its send may block until then.  The slow timer is left
\* out on purpose: a tracked path must not wait for it.  TakeTick is strongly fair
\* because Go's select picks at random among the channels that are ready: a stream of
\* events cannot win for ever.
AccFairness ==
  /\ WF_accVars(Started) /\ WF_accVars(LoopTop) /\ WF_accVars(SyncReturns)
  /\ WF_accVars(~restarting /\ RestartReturns) /\ WF_accVars(ProcessReplaced)
  /\ WF_accVars(RemindReturns) /\ WF_accVars(Flush)
  /\ WF_accVars(CallbackReturns \/ CallbackFails)
  /\ WF_accVars(TimerFires /\ flushTimer = "debounce")
  /\ SF_accVars(TakeTick)

AccFairSpec == AccSpec /\ AccFairness

-----------------------------------------------------------------------------
(* Properties.                                                             *)

\* Type invariant.
AccTypeOK ==
  /\ inProgress \subseteq Paths /\ ripe \subseteq inProgress   \* one map entry has both
  /\ batch \subseteq Paths
  /\ currInterval \in Intervals
  /\ flushTimer \in Intervals \cup {"fired", "idle"}
  /\ flushTimerNeedsReset \in BOOLEAN /\ scanDue \in BOOLEAN /\ restarting \in BOOLEAN
  /\ err \in {"nil", "failed"}
  /\ pc \in {"start", "top", "select", "sync", "restart", "remind", "flush",
             "report", "rescan"}

\* However many events arrive, at most one path more than maxFiles is tracked: the
\* bound on the memory of the map that line 515 enforces.  A part of AccInv.
TrackedBound == Cardinality(inProgress) <= MaxFiles + 1

\* A tracked path is never left to the slow interval: while the goroutine waits
\* in its select and something is tracked, the timer that will fire is the
\* debounce timer (or has fired).  An event that arrives while the timer runs for
\* delayScan (about an hour) has to restart it (501-503), across every path
\* through the loop: rejections, errors, reminders, empty batches.
PromptFlush ==
  (pc = "select" /\ inProgress # {}) => flushTimer \in {"debounce", "fired"}

\* A path is forgotten only when the callback it was handed to has returned nil, and
\* only if it had settled or the map was full when the batch was cut: no event that
\* was accepted disappears any other way, except with the process (583-599).
ForgottenOnlyWhenInformed ==
  [][\A p \in inProgress \ inProgress' :
        \/ /\ err' = "nil" /\ p \in batch
           /\ \/ pc = "report" /\ p \in ripe
              \/ pc = "rescan" /\ Cardinality(inProgress) >= MaxFiles
        \/ restarting /\ ~restarting']_accVars

\* The inductive invariant behind the properties above.  It adds how the interval
\* and the timer follow from what is tracked (the slow interval only while nothing
\* is; a debounce interval whose timer need not be restarted is already running or
\* over), and what the batch is while a callback has it.
AccInv ==
  /\ AccTypeOK
  /\ IsFiniteSet(inProgress) /\ TrackedBound
  /\ inProgress # {} => currInterval = "debounce"
  /\ currInterval = "debounce" /\ ~flushTimerNeedsReset
       => flushTimer \in {"debounce", "fired"}
  /\ pc = "select" => ~flushTimerNeedsReset
  /\ pc = "report" => batch \subseteq ripe
  /\ pc = "rescan" => batch = inProgress /\ Cardinality(inProgress) >= MaxFiles

\* A settled path does not wait for ever: it is handed to the callback, or a new
\* event makes it young again (or the process is replaced).  After a failed
\* callback the same holds again: failures are retried for ever (604-607).
SettledGetsReported ==
  \A p \in Paths : (p \in ripe) ~> (p \in batch \/ p \notin ripe)

\* A reminder that has fallen due is sent, or made needless by a report, whatever the
\* stream of events: provided that the slow timer, too, fires in the end.
ReminderSent == []<>(flushTimer # "delayScan") => (scanDue ~> ~scanDue)

\* "Do not track more than maxFiles changes" (590).
AtMostMaxFiles == Cardinality(inProgress) <= MaxFiles
=============================================================================
