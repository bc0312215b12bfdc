------------------------ MODULE CalibrationService ------------------------
(***************************************************************************)
(* Calibration tasks across restarts of the process: the worker of         *)
(* calibration/service.py from its start to its return of the port, what   *)
(* it leaves on disk on the way (lease.json of lease.py, backup.json of    *)
(* backup.py), and what on_startup makes of it after the process was       *)
(* killed between any two steps.                                           *)
(*                                                                         *)
(* SerialHandover has the same worker against the main loop, step by step; *)
(* here the gate is closed and opened in one step, the main loop is the    *)
(* nondeterminism of Yield and Evict, and CoordinateWriter, the subject of *)
(* CalibrationWriter, is what it does to the module as a whole.            *)
(*                                                                         *)
(* state.json is left out: the service writes it and nothing reads it.     *)
(***************************************************************************)
EXTENDS Naturals

CONSTANTS
    Actions,    \* kinds of task users start
    Pids,       \* process ids the system gives to the service
    Default,    \* the rate a port is opened with when the user gives none
    Official,   \* rates a silent module is tried at
    NoRate,     \* remembered_baud without a memory
    MaxTasks,   \* bound on tasks
    MaxKills,   \* bound on kills of the process
    MaxFaults   \* bound on writes that fail (disk full)

AllActions == {"diagnose", "write", "dryRun", "measure", "restore"}

ASSUME ActionsAssumption == Actions \subseteq AllActions
ASSUME PidsAssumption == 0 \notin Pids
ASSUME RatesAssumption == NoRate # Default /\ NoRate \notin Official
ASSUME BoundsAssumption == MaxTasks \in Nat /\ MaxKills \in Nat /\ MaxFaults \in Nat

VARIABLES
    up,         \* the process: down, a step of on_startup, or up
    pid,        \* its process id
    shutdown,   \* state.shutdown_event
    task,       \* self._task, with its number as self._task_id
    stage,      \* self._stage
    wpc,        \* where the worker is; "none" while no thread is alive
    cancel,     \* self._cancel
    notice,     \* what on_startup found: the task, and whether it calls the module untouched
    hold,       \* state.calibration_hold
    held,       \* lease.held
    chan,       \* the lease's channel: open, and at which rate
    rates,      \* rates _scan_bauds has left
    snapshot,   \* the backup the worker has captured or loaded
    leaseFile,  \* lease.json
    backup,     \* backup.json
    config,     \* the module's configuration: whose it is, and whether it is complete
                \* and has its coordinate
    faults,     \* writes that failed
    \* What the properties compare with; nothing in the code:
    asked,      \* the user has asked to cancel the task in memory
    last,       \* the task that last wrote to the module
    cut,        \* tasks whose worker was killed with the process
    unclosed,   \* tasks whose lease could not be closed on disk
    lost,       \* a task that had the port open at the last kill, and has not been reported
    blind,      \* on_startup took the pid of the lease for a living process
    tasks,      \* tasks started so far
    kills       \* kills of the process

TaskIds == 0..MaxTasks
Rates == Official \cup {Default}
Terminal == {"DONE", "FAILED", "ABORTED", "INTERRUPTED"}
Stages == Terminal \cup {"IDLE", "PREPARE", "HOLD", "OPEN", "DETECT", "BACKUP",
                         "WRITE", "OBSERVE", "PLAN"}
WorkerPcs == {"none", "begin", "acquire", "yield", "yielded", "open", "opened", "detect",
              "scan", "detected", "observe", "identify", "backup", "backedUp", "write",
              "close", "ungate"}
Ups == {"down", "read", "mark", "show", "up"}

NoChannel == [open |-> FALSE, rate |-> Default]
Configs == [by : TaskIds, whole : BOOLEAN, coord : BOOLEAN]
Original == [by |-> 0, whole |-> TRUE, coord |-> TRUE]

\* What capture could read of a configuration: all of it, its mode without its
\* coordinate, or not even its mode.
Parts == {"all", "mode", "none"}
Backups == [by : TaskIds, cfg : Configs, parts : Parts, saved : BOOLEAN]
NoBackup == [by |-> 0, cfg |-> Original, parts |-> "none", saved |-> TRUE]

Usable(b) == b.parts # "none"
Complete(b) == b.parts = "all"

\* from_backup: a coordinate the backup does not have is switched off.
Restored(b) == IF Complete(b) THEN b.cfg ELSE [b.cfg EXCEPT !.coord = FALSE]

NoTask == [id |-> 0, action |-> "none"]
NoLease == [task |-> 0, action |-> "none", stage |-> "none", pid |-> 0]
NoNotice == [task |-> 0, untouched |-> FALSE]
NoWriter == [id |-> 0, action |-> "none", snap |-> NoBackup, before |-> Original]

memory == <<shutdown, task, stage, wpc, cancel, notice, hold, held, chan, rates, snapshot>>
disk == <<leaseFile, backup, faults, unclosed>>
module == <<config, last>>
history == <<asked, cut, lost, blind, tasks, kills>>
vars == <<up, pid, memory, disk, module, history>>

Fresh ==    \* the memory of a process that has just started
    /\ shutdown = FALSE /\ task = NoTask /\ stage = "IDLE" /\ wpc = "none"
    /\ cancel = FALSE /\ notice = NoNotice /\ hold = FALSE /\ held = FALSE
    /\ chan = NoChannel /\ rates = {} /\ snapshot = NoBackup

Init ==
    /\ up = "read" /\ pid \in Pids /\ Fresh
    /\ leaseFile = NoLease /\ backup = NoBackup /\ faults = 0 /\ unclosed = {}
    /\ config = Original /\ last = NoWriter
    /\ asked = FALSE /\ cut = {} /\ lost = 0 /\ blind = FALSE
    /\ tasks = 0 /\ kills = 0

Alive == wpc # "none"
Goes(from, to) == wpc = from /\ wpc' = to

-----------------------------------------------------------------------------
(* Files.                                                                  *)

Fault == faults < MaxFaults /\ faults' = faults + 1

\* lease.json names the task and the process; a dry run and a measurement are writes.
Entry(s) == [task |-> task.id, stage |-> s, pid |-> pid,
             action |-> IF task.action \in {"dryRun", "measure"} THEN "write" ELSE task.action]

\* A failed write leaves the file as it was.
WriteLease(s) ==
    /\ \/ leaseFile' = Entry(s) /\ UNCHANGED faults
       \/ Fault /\ UNCHANGED leaseFile
    /\ UNCHANGED <<backup, unclosed>>

\* Slip: the lease is never closed on disk.
CloseLeaseForgotten(s) == WriteLease("OPEN")

CloseLease(s) ==
    /\ \/ leaseFile' = Entry(s) /\ UNCHANGED <<faults, unclosed>>
       \/ Fault /\ unclosed' = unclosed \cup {task.id} /\ UNCHANGED leaseFile
    /\ UNCHANGED backup

Closed == leaseFile.stage \in Terminal \cup {"none"}

-----------------------------------------------------------------------------
(* The user.                                                               *)

\* What the last task left in memory.
Cleared == stage' = "PREPARE" /\ cancel' = FALSE

\* start_restore: only what can be restored.
Startable(a) == a = "restore" => Usable(backup)

\* _start_task.
Start ==
    /\ up = "up" /\ ~Alive /\ tasks < MaxTasks
    /\ tasks' = tasks + 1
    /\ \E a \in Actions :
          /\ Startable(a)
          /\ task' = [id |-> tasks', action |-> a]
    /\ Cleared
    /\ wpc' = "begin"
    /\ lost' = 0 /\ asked' = FALSE
    /\ UNCHANGED <<shutdown, notice, hold, held, chan, rates, snapshot, cut, blind, kills>>
    /\ UNCHANGED <<up, pid, disk, module>>

Abort ==
    /\ Alive
    /\ cancel' = TRUE
    /\ asked' = TRUE
    /\ UNCHANGED <<shutdown, task, stage, wpc, notice, hold, held, chan, rates, snapshot>>
    /\ UNCHANGED <<up, pid, disk, module, cut, lost, blind, tasks, kills>>

-----------------------------------------------------------------------------
(* The worker.                                                             *)

port == <<hold, held, chan>>
outside == <<up, pid, shutdown, task, cancel, notice, history>>

\* Where _checkpoint is called.
Checked == {"begin", "yielded", "opened", "detected", "observe", "backup", "backedUp", "write"}

Evicted == held /\ ~hold

\* Slip: a cancel request is not looked for while the writer is at work.
MustStopNotWriting == shutdown \/ (cancel /\ wpc # "write") \/ Evicted

MustStop == shutdown \/ cancel \/ Evicted
MayGoOn == ~MustStop

Ends(s) == stage' = s /\ wpc' = "close"

\* The writer puts the module back: what a measurement has changed, or what the
\* backup has; without its coordinate the module keeps what the task has left there.
PutBack ==
    /\ config.by = task.id
    /\ task.action = "measure" \/ Complete(snapshot)
    /\ config' = snapshot.cfg

\* _checkpoint raises; the writer may put the module back first, unless evicted.
Checkpoint ==
    /\ wpc \in Checked /\ MustStop
    /\ Ends(IF shutdown \/ cancel THEN "ABORTED" ELSE "FAILED")
    /\ \/ UNCHANGED config
       \/ /\ wpc = "write" /\ ~config.whole
          /\ (shutdown \/ cancel \/ task.action = "measure")
          /\ PutBack
    /\ UNCHANGED <<port, rates, snapshot, disk, last>>

\* _set_stage('HOLD') writes lease.json before acquire looks at it.
Begin ==
    /\ MayGoOn
    /\ Goes("begin", "acquire")
    /\ stage' = "HOLD"
    /\ WriteLease("HOLD")
    /\ UNCHANGED <<port, rates, snapshot, module>>

\* _precheck: the radio bridge is configured for the port, or the lease is that
\* of a process that is gone (Begin has overwritten it, unless its write failed).
Refused ==
    /\ wpc = "acquire" /\ Ends("FAILED")
    /\ UNCHANGED <<port, rates, snapshot, disk, module>>

Acquire ==
    /\ wpc = "acquire" /\ ~hold
    /\ \/ /\ leaseFile' = Entry("PREPARE")
          /\ hold' = TRUE /\ wpc' = "yield"
          /\ UNCHANGED <<faults, stage>>
       \/ /\ Fault /\ Ends("FAILED")
          /\ UNCHANGED <<leaseFile, hold>>
    /\ UNCHANGED <<held, chan, rates, snapshot, backup, unclosed, module>>

Yielded ==
    /\ Goes("yield", "yielded")
    /\ WriteLease("HOLD")
    /\ UNCHANGED <<port, stage, rates, snapshot, module>>

\* The data plane does not give the port up, or the port does not open.
GiveUp ==
    /\ wpc \in {"yield", "open"} /\ Ends("FAILED")
    /\ hold' = FALSE
    /\ CloseLease("FAILED")
    /\ UNCHANGED <<held, chan, rates, snapshot, module>>

ToOpen ==
    /\ MayGoOn
    /\ Goes("yielded", "open")
    /\ stage' = "OPEN"
    /\ WriteLease("OPEN")
    /\ UNCHANGED <<port, rates, snapshot, module>>

Open ==
    /\ Goes("open", "opened")
    /\ chan' = [open |-> TRUE, rate |-> Default]
    /\ held' = TRUE
    /\ WriteLease("OPEN")
    /\ UNCHANGED <<hold, stage, rates, snapshot, module>>

ToDetect ==
    /\ MayGoOn
    /\ Goes("opened", "detect")
    /\ stage' = "DETECT"
    /\ WriteLease("DETECT")
    /\ UNCHANGED <<port, rates, snapshot, module>>

\* A driver claims the module.
Claimed ==
    /\ Goes("detect", "detected")
    /\ UNCHANGED <<port, stage, rates, snapshot, disk, module>>

\* Another driver than the chosen one claims it.
OtherModel ==
    /\ wpc = "detect" /\ Ends("FAILED")
    /\ UNCHANGED <<port, rates, snapshot, disk, module>>

\* Only a measurement goes on with a module no driver knows.
Unknown ==
    IF task.action = "measure" THEN wpc' = "detected" /\ UNCHANGED stage ELSE Ends("FAILED")

\* _baud_candidates, in any order, without the rate that has just failed.
Candidates(remembered) == ({remembered} \cup Official) \ {Default, NoRate}

\* No driver claims it: a scan, unless the user has given the rate.
Silent ==
    /\ wpc = "detect"
    /\ \/ /\ \E r \in Rates \cup {NoRate} : rates' = Candidates(r)
          /\ wpc' = "scan" /\ UNCHANGED stage
       \/ Unknown /\ UNCHANGED rates
    /\ UNCHANGED <<port, snapshot, disk, module>>

\* One candidate of _scan_bauds.  A driver that answers ends the task: the
\* warning that follows calls self._warn, which does not exist (line 696).
Probe ==
    /\ wpc = "scan"
    /\ \E r \in rates, opens, answers \in BOOLEAN :
          /\ chan' = [open |-> opens, rate |-> r]
          /\ IF opens /\ answers
             THEN rates' = {} /\ Ends("FAILED")
             ELSE rates' = rates \ {r} /\ UNCHANGED <<stage, wpc>>
    /\ UNCHANGED <<hold, held, snapshot, disk, module>>

ScanFailed ==
    /\ wpc = "scan" /\ rates = {}
    /\ \E opens \in BOOLEAN : chan' = [open |-> opens, rate |-> Default]
    /\ Unknown
    /\ UNCHANGED <<hold, held, rates, snapshot, disk, module>>

ToObserve ==
    /\ MayGoOn /\ task.action = "diagnose"
    /\ Goes("detected", "observe")
    /\ stage' = "OBSERVE"
    /\ WriteLease("OBSERVE")
    /\ UNCHANGED <<port, rates, snapshot, module>>

\* _diagnose: a query, or a pass of _observe_1005; set_module writes the lease.
Observe ==
    /\ MayGoOn /\ wpc = "observe"
    /\ UNCHANGED wpc
    /\ WriteLease("OBSERVE")
    /\ UNCHANGED <<port, stage, rates, snapshot, module>>

Observed ==
    /\ wpc = "observe" /\ Ends("DONE")
    /\ WriteLease("PLAN")
    /\ UNCHANGED <<port, rates, snapshot, module>>

ToBackup ==
    /\ MayGoOn /\ task.action # "diagnose"
    /\ Goes("detected", "identify")
    /\ stage' = "BACKUP"
    /\ WriteLease("BACKUP")
    /\ UNCHANGED <<port, rates, snapshot, module>>

Captured(parts, saved) ==
    [by |-> task.id, cfg |-> config, parts |-> parts, saved |-> saved]

\* driver.info; its answer goes to the lease.
Identify ==
    /\ Goes("identify", "backup")
    /\ WriteLease("BACKUP")
    /\ UNCHANGED <<port, stage, rates, snapshot, module>>

\* A measurement makes no backup; what it changes in memory it puts back itself.
SkipBackup ==
    /\ MayGoOn /\ task.action = "measure"
    /\ Goes("backup", "backedUp")
    /\ snapshot' = Captured("none", FALSE)
    /\ UNCHANGED <<port, stage, rates, disk, module>>

\* Slip: a restore, too, backs up what it is about to overwrite.
LoadBackupAfterCapture ==
    /\ MayGoOn /\ task.action = "restore"
    /\ Goes("backup", "backedUp")
    /\ snapshot' = backup
    /\ backup' = Captured("all", TRUE)
    /\ UNCHANGED <<port, stage, rates, leaseFile, faults, unclosed, module>>

LoadBackup ==
    /\ MayGoOn /\ task.action = "restore" /\ wpc = "backup"
    /\ snapshot' = backup
    /\ IF Usable(backup) THEN wpc' = "backedUp" /\ UNCHANGED stage ELSE Ends("FAILED")
    /\ UNCHANGED <<port, rates, disk, module>>

\* capture and save: the one backup.json is overwritten, by a dry run too,
\* whatever could be read for it.
Capture ==
    /\ MayGoOn /\ task.action \in {"write", "dryRun"}
    /\ Goes("backup", "backedUp")
    /\ \E parts \in Parts :
          \/ /\ snapshot' = Captured(parts, TRUE) /\ backup' = snapshot'
             /\ UNCHANGED faults
          \/ snapshot' = Captured(parts, FALSE) /\ Fault /\ UNCHANGED backup
    /\ UNCHANGED <<port, stage, rates, leaseFile, unclosed, module>>

Rehearsed ==
    /\ MayGoOn /\ task.action = "dryRun"
    /\ wpc = "backedUp" /\ Ends("DONE")
    /\ UNCHANGED <<port, rates, snapshot, disk, module>>

ToWrite ==
    /\ MayGoOn /\ task.action # "dryRun"
    /\ Goes("backedUp", "write")
    /\ stage' = "WRITE"
    /\ WriteLease("WRITE")
    /\ UNCHANGED <<port, rates, snapshot, module>>

\* The first command of the writer that changes the module.
Write ==
    /\ MayGoOn /\ wpc = "write"
    /\ config' = [by |-> task.id, whole |-> FALSE, coord |-> TRUE]
    /\ last' = [id |-> task.id, action |-> task.action, snap |-> snapshot,
                before |-> IF last.id = task.id THEN last.before ELSE config]
    /\ UNCHANGED <<wpc, port, stage, rates, snapshot, disk>>

\* run() returns: the plan's configuration, the module as it was, or what the
\* backup has of the one it was made of.
Written ==
    /\ wpc = "write" /\ Ends("DONE")
    /\ task.action = "measure" \/ config.by = task.id
    /\ config' = CASE task.action = "write" -> [by |-> task.id, whole |-> TRUE, coord |-> TRUE]
                    [] task.action = "measure" -> snapshot.cfg
                    [] OTHER -> Restored(snapshot)
    /\ UNCHANGED <<port, rates, snapshot, disk, last>>

\* WriteFailed, a driver error or any other exception, with the module put back or not.
WriteFails ==
    /\ wpc = "write" /\ Ends("FAILED")
    /\ UNCHANGED config \/ PutBack
    /\ UNCHANGED <<port, rates, snapshot, disk, last>>

\* An exception where none is expected.
Unexpected ==
    /\ wpc \notin {"none", "write", "close", "ungate"} /\ Ends("FAILED")
    /\ UNCHANGED <<port, rates, snapshot, disk, module>>

\* lease.release in the worker's finally.
Close ==
    /\ Goes("close", "ungate")
    /\ chan' = NoChannel
    /\ held' = FALSE
    /\ snapshot' = NoBackup
    /\ CloseLease(stage)
    /\ UNCHANGED <<hold, stage, rates, module>>

Ungate ==
    /\ Goes("ungate", "none")
    /\ hold' = FALSE
    /\ UNCHANGED <<held, chan, stage, rates, snapshot, disk, module>>

Worker ==
    /\ \/ Checkpoint \/ Begin \/ Refused \/ Acquire \/ Yielded \/ GiveUp \/ ToOpen \/ Open
       \/ ToDetect \/ Claimed \/ OtherModel \/ Silent \/ Probe \/ ScanFailed
       \/ ToObserve \/ Observe \/ Observed \/ ToBackup \/ Identify \/ SkipBackup
       \/ LoadBackup \/ Capture \/ Rehearsed \/ ToWrite \/ Write \/ Written \/ WriteFails
       \/ Unexpected \/ Close \/ Ungate
    /\ UNCHANGED outside

\* lifecycle.py: 30 seconds without a heartbeat.
Evict ==
    /\ hold /\ hold' = FALSE
    /\ UNCHANGED <<shutdown, task, stage, wpc, cancel, notice, held, chan, rates, snapshot>>
    /\ UNCHANGED <<up, pid, disk, module, history>>

-----------------------------------------------------------------------------
(* The process.                                                            *)

Sigterm ==
    /\ up = "up" /\ ~shutdown /\ shutdown' = TRUE
    /\ UNCHANGED <<task, stage, wpc, cancel, notice, hold, held, chan, rates, snapshot>>
    /\ UNCHANGED <<up, pid, disk, module, history>>

\* kill -9, or main() that returns with its daemon thread at work: memory is gone.
Kill ==
    /\ up # "down" /\ kills < MaxKills
    /\ kills' = kills + 1
    /\ up' = "down"
    /\ cut' = IF Alive THEN cut \cup {task.id} ELSE cut
    /\ lost' = IF held THEN task.id ELSE IF up = "up" \/ Closed THEN 0 ELSE lost
    /\ shutdown' = FALSE /\ task' = NoTask /\ stage' = "IDLE" /\ wpc' = "none"
    /\ cancel' = FALSE /\ notice' = NoNotice /\ hold' = FALSE /\ held' = FALSE
    /\ chan' = NoChannel /\ rates' = {} /\ snapshot' = NoBackup
    /\ asked' = FALSE
    /\ UNCHANGED <<pid, disk, module, blind, tasks>>

Boot ==
    /\ up = "down" /\ up' = "read"
    /\ pid' \in Pids
    /\ blind' = FALSE
    /\ UNCHANGED <<memory, disk, module, asked, cut, lost, tasks, kills>>

\* Slip: a lease with the service's own number is taken for its own.
StartupReadNotOwn ==
    /\ up = "read"
    /\ \/ (Closed \/ leaseFile.pid = pid) /\ up' = "up" /\ UNCHANGED blind
       \/ ~Closed /\ leaseFile.pid # pid /\ up' = "mark" /\ UNCHANGED blind
       \/ ~Closed /\ leaseFile.pid # pid /\ up' = "up" /\ blind' = TRUE
    /\ UNCHANGED <<pid, memory, disk, module, asked, cut, lost, tasks, kills>>

\* leftover_lease: not if its pid is that of another living process, which is
\* its owner or one that has been given the owner's number since.
StartupRead ==
    /\ up = "read"
    /\ \/ Closed /\ up' = "up" /\ UNCHANGED blind
       \/ ~Closed /\ up' = "mark" /\ UNCHANGED blind
       \/ ~Closed /\ leaseFile.pid # pid /\ up' = "up" /\ blind' = TRUE
    /\ UNCHANGED <<pid, memory, disk, module, asked, cut, lost, tasks, kills>>

Interrupted == [leaseFile EXCEPT !.stage = "INTERRUPTED"]

\* Slip: the message follows from the stage alone.
UntouchedByStage == leaseFile.stage \in {"DETECT", "OBSERVE", "BACKUP"}

\* What the message says follows from the kind of the task.
Untouched == leaseFile.action = "diagnose"

StartupMark ==
    /\ up = "mark" /\ up' = "show"
    /\ notice' = [task |-> leaseFile.task, untouched |-> Untouched]
    /\ \/ leaseFile' = Interrupted /\ UNCHANGED <<faults, unclosed>>
       \/ /\ Fault /\ unclosed' = unclosed \cup {leaseFile.task}
          /\ UNCHANGED leaseFile
    /\ UNCHANGED <<shutdown, task, stage, wpc, cancel, hold, held, chan, rates, snapshot>>
    /\ UNCHANGED <<pid, backup, module, history>>

\* mark_interrupted.
StartupShow ==
    /\ up = "show" /\ up' = "up"
    /\ stage' = "INTERRUPTED"
    /\ task' = [id |-> notice.task, action |-> leaseFile.action]
    /\ UNCHANGED <<shutdown, wpc, cancel, notice, hold, held, chan, rates, snapshot>>
    /\ UNCHANGED <<pid, disk, module, history>>

Process == Sigterm \/ Kill \/ Boot \/ StartupRead \/ StartupMark \/ StartupShow

Next == Start \/ Abort \/ Worker \/ Evict \/ Process

Spec == Init /\ [][Next]_vars

\* Every wait of the worker has a time limit of its own, but for the writer's: it
\* comes to a checkpoint, and a survey-in without limit to nothing else.
Prompt == Worker /\ wpc # "write"
LiveSpec == Spec /\ WF_vars(Prompt) /\ WF_vars(Checkpoint /\ UNCHANGED outside)

-----------------------------------------------------------------------------
(* Properties.                                                             *)

\* Types, and that no more writes fail than may.
TypeOK ==
    /\ up \in Ups /\ pid \in Pids
    /\ shutdown \in BOOLEAN /\ cancel \in BOOLEAN
    /\ task \in [id : TaskIds, action : AllActions \cup {"none"}]
    /\ stage \in Stages /\ wpc \in WorkerPcs
    /\ notice \in [task : TaskIds, untouched : BOOLEAN]
    /\ hold \in BOOLEAN /\ held \in BOOLEAN
    /\ chan \in [open : BOOLEAN, rate : Rates]
    /\ rates \subseteq Rates
    /\ snapshot \in Backups /\ backup \in Backups
    /\ leaseFile \in [task : TaskIds, action : AllActions \cup {"none"},
                      stage : Stages \cup {"none"}, pid : Pids \cup {0}]
    /\ config \in Configs
    /\ last \in [id : TaskIds, action : AllActions \cup {"none"},
                 snap : Backups, before : Configs]
    /\ faults \in 0..MaxFaults /\ kills \in 0..MaxKills /\ tasks \in TaskIds
    /\ asked \in BOOLEAN /\ lost \in TaskIds /\ blind \in BOOLEAN
    /\ cut \subseteq TaskIds /\ unclosed \subseteq TaskIds

\* A task that had the port open when the process was killed is shown as
\* interrupted as soon as the next process is up, until a new one is started,
\* even if the new process has the old one's number.  The exception is what
\* leftover_lease does when an unrelated process has got that number.
InterruptionShown ==
    up = "up" /\ lost # 0 /\ ~blind => stage = "INTERRUPTED" /\ notice.task = lost

\* No task is called interrupted that came to its end and could say so on disk.
NoticeTrue == notice.task # 0 => notice.task \in cut \cup unclosed

\* The user is never told that the module is untouched by a task that wrote to
\* it, whatever stage the disk has of it.
NoFalseAllClear == notice.untouched => last.id # notice.task

\* While a task's configuration is incomplete on the module, interrupted or not,
\* backup.json can be restored, and gives back all that was there before the
\* task's first command; a restore that was itself interrupted can be repeated.
\* The exceptions: it could not be written, a later task has overwritten it, or
\* capture could not read all of the configuration.
WayBack ==
    /\ ~config.whole /\ config.by = last.id
    /\ last.action \in {"write", "restore"}
    /\ last.snap.saved /\ Complete(last.snap)
    /\ backup.by <= last.id
    => /\ Usable(backup) /\ backup = last.snap
       /\ last.action = "write" => backup.by = last.id /\ Restored(backup) = last.before

\* A task is cancelled by the user only if it is the one the user cancelled.
CancelIsAsked == stage = "ABORTED" /\ ~shutdown => asked

\* When no driver answered at any rate, the task goes on, as far as it does, at
\* the rate it was started with.
RateRestored ==
    wpc \in {"detected", "observe", "identify", "backup", "backedUp", "write"} =>
        chan.rate = Default

\* A cancelled task ends, whatever it was waiting for.
CancelEnds == cancel /\ Alive ~> ~Alive
=============================================================================
