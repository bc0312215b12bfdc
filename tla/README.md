# Verification of 2RTK Server

2RTK Server reads RTCM corrections from a GNSS module (serial port) or from an
upstream NTRIP caster and forwards them to up to three outlets: a local NTRIP
caster, a radio on a second serial port, and an upload to a remote caster. It
can also calibrate the module: it takes the serial port away from the data
plane, measures or averages the antenna position, writes it to the module and
returns the port. It can upgrade itself in place.

This directory holds TLA+ models of that program, the TLC configurations that
check them and TLAPS proofs about them. `PROJECT.json` names, for every
definition, the source lines it stands for, and for every property a slip in the
code that breaks it (the operators marked `Slip:` in the modules).

## 1. Inventory

Paths are relative to `src/rtkserver/`.

| Component | State | Operations | Hard part | Module |
|---|---|---|---|---|
| Main loop (`core/lifecycle.py`, `core/state.py`) | `thread_exit_event`, `restart_event`, `shutdown_event`, `worker_thread`, `calibration_hold`, `calibration_beat` | gate, one round (outlets up, source up, wait, reverse-order stop), watchdog | every flag is shared with web, signal and calibration threads; each test and set is a step of its own | `SerialHandover` |
| Serial and relay source (`sources/`) | a handle or socket | detect, read, close and re-detect, exit | outlives `join(5)`; re-detects while the round is being stopped | `SerialHandover` |
| Calibration lease (`calibration/lease.py`) | channel, `held`, `lease.json` | acquire, open, beat, release | hands the port over with flags the main loop writes too; a file that survives the process | `SerialHandover`, `CalibrationService` |
| Calibration service (`calibration/service.py`) | task, stage, cancel request, files | start, abort, stages of the worker, start-up | one worker at a time; a kill between any two steps | `CalibrationService` |
| Calibration writer (`calibration/writer.py`) | what was touched, saved, acknowledged | the steps of each plan, revert, report | settings live in the module's RAM and NVM; commands fail, or do nothing, or work unheard | `CalibrationWriter` |
| CORS collection (`calibration/cors.py`, in `writer.py`) | connection, holds, samples | connect, reconnect, admit, collect | two timers and a downgrade against losses of the link | `CorsCollection` |
| Reported positions (`GgaManager` in `cors.py`) | anchor, rhythm | guard, report | jumps, silence and reconnections of the module | `GgaManager` |
| Drivers' channel (`calibration/drivers/base.py`) | receive buffer, attempts | send, classify, apply and verify, restart | answers that are late or belong to another command | `CommandChannel` |
| Local caster (`outlets/local_caster.py`) | clients, a queue each | accept, handshake, serve, publish, stop | four threads on one list | `LocalCaster` |
| Radio bridge, uploader (`outlets/radio_bridge.py`, `caster_uploader.py`) | handle, queue | send loop, reopen, publish, stop | a thread that outlives `stop` beside its successor | `Senders` |
| RTCM parser (`sources/rtcm_parser.py`) | shared byte buffer | upload, cut frames out, put the rest back | frames split over reads, the rest put back late | `RtcmBuffer` |
| mDNS announcer (`discovery/zeroconf_announcer.py`) | records, name, state | start, register, follow the address, stop | a thread in the middle of a registration when `stop` comes | `Announcer` |
| Upgrade (`upgrade/`) | `state.json`, code directory, archive, copies of the database | prepare, back up, stop, switch, verify, roll back | a crash at each step | `Upgrade` |
| Configuration (`core/config.py`) | SQLite `settings` | read, save | which round reads what was saved | `SerialHandover` |
| Records (`calibration/store.py`, `backup.py`) | `calibration.db`, `backup.json` | insert, checkpoint; write, load | copies taken while they change | `Upgrade`, `CalibrationService` |
| Web (`web/`) | sessions, WebSocket clients | save configuration, restart, start tasks and upgrades | concurrent handlers | as the environment of the others |

Interactions. The web threads set `restart_event` and write the settings; the
signal handler sets `shutdown_event`. The main loop reads both, owns
`thread_exit_event` and starts source threads, which push chunks through the
distributor into the outlets' queues and the parse buffer. A calibration worker
closes the gate (`calibration_hold`), asks for a restart, waits for
`worker_thread` to end, opens the port, works through its stages (each writes
`calibration_beat` and `lease.json`), and on any way out opens the gate and asks
for a restart again. The watchdog in the main loop opens the gate itself when the
heartbeat is 30 seconds old. The upgrade's runner is another process, which talks
with the web handlers through a file.

What makes each component correct:

- main loop and lease: one source thread; no revived thread; no handle left
  behind; no gate left closed; no lost configuration; termination on SIGTERM;
- service: an interrupted task is reported, a finished one is not, and what it
  had overwritten can be restored;
- writer: what the user is told of the module's NVM agrees with the module;
- collection: a measurement is what its grade says, and its waits end;
- positions and commands: no report jumps, and none stays behind; what is
  reported as read back is there;
- outlets: order, no gap that is not a disconnection, nothing sent by what has
  been stopped, no place, socket or port kept;
- parser: a frame gets lost only for a reason that is known;
- announcer: what the page shows is announced, and nothing is behind a stop;
- upgrade: a success is complete, a rollback possible, the service up again and
  working with what is installed.

## 2. The modules

Each model keeps the control of its part and abstracts its data: a block, packet
or line is a number, a position is a place on a line, a configuration is the
modes the properties tell apart.

| Module | Content | Used by |
|---|---|---|
| `SourceLifecycle` | abstract: what the main loop promises of its data source | refined by `SerialHandover` |
| `SerialHandover` | main loop, source threads, the worker's frame, step by step | `SerialHandover_proofs` |
| `CalibrationService` | one task after another through kills and restarts of the process | `CalibrationService_proofs` |
| `CalibrationWriter` | one run against the module's two memories | `CalibrationWriter_proofs` |
| `CorsCollection` | admission and collection over an unreliable link | `CorsCollection_proofs` |
| `GgaManager`, `CommandChannel` | the two uses of the channel to the module | composed in `ModuleChannel`; `ModuleChannel_proofs` |
| `LocalCaster`, `Senders`, `RtcmBuffer`, `Announcer` | the outer parts | composed in `Outlets`; `Outlets_proofs`, `RtcmBuffer_proofs` |
| `Upgrade` | web handlers, runner, copies, with kills and power failures | `Upgrade_proofs` |
| `MC...` | instances for TLC | the `.cfg` files |

How they fit together: `SerialHandover` shows that the worker gets the port and
returns it against the main loop at the grain of single flags.
`CalibrationService` takes that as given (`Yielded` and `Evict` are its main loop)
and looks at what survives the process. `CalibrationWriter` is its step `Write`
in full; `CorsCollection` is the writer's step `collect` in full, and
`CommandChannel` says what each of the writer's commands can come to, which there
are the results ok, error and time-out with or without effect.

What would come next: pruning and superseding of records, the WebSocket hub, the
write-back of a detected port, the relay's reconnection, and the refinement of
`CalibrationService` by `SerialHandover` where the two overlap.

| Run | Module | Kind | States |
|---|---|---|---|
| `handover_safety` | `MCSerialHandover` | safety, action properties, refinement | 692,826 |
| `handover_live` | `MCSerialHandover` | liveness | 305,978 |
| `handover_exclusive` | `MCSerialHandover` | disagreement | |
| `upgrade` | `MCUpgrade` | safety, action properties, liveness | 660,959 |
| `writer` | `MCCalibrationWriter` | safety, action properties, liveness | 696,173 |
| `writer_terminate` | `MCCalibrationWriter` | disagreement | |
| `collect` | `MCCorsCollection` | safety, action properties, liveness | 224,953 |
| `collect_outage` | `MCCorsCollection` | disagreement | |
| `module_channel` | `ModuleChannel` | safety, action properties, liveness | 741,068 |
| `gga_resume` | `MCGgaManager` | disagreement (liveness) | |
| `service` | `MCCalibrationService` | safety, liveness | 1,349,462 |
| `outlets` | `Outlets` | safety, action properties, liveness | 249,870 |

## 3. The serial handover

`SerialHandover.tla` models three kinds of thread of one process and the
events between them. Each read or write of a shared event is a step of its
own, so that every interleaving at that grain is explored.

| Code | Model |
|---|---|
| `main`, `_calibration_gate`, `run_once` (`core/lifecycle.py`) | `mpc` and the actions of `Main`, one per shared access: `MainTop`, `Gate*`, `Evict*` (the 30-second watchdog), `LoadConfig`, `Guard` ... `RoundEnds`, `After` |
| `detect_serial` | `Probe`, `ProbeEnd`, `NotDetected`; `probes` counts the ports x baud rates left |
| `upload_via_serial`, the relay loop | `src[t]`: `shared` (it reads the handle of the round), `none` (closed), `probe` (re-detecting), `own` (its own handle), `relay`, `off` |
| `_worker`, `SerialLease` | `cpc` and the actions of `Cal`: start, acquire in its separate writes, waiting for the port, open, work, hang, release in its separate writes |
| web handlers, SIGTERM, clock | `Env`: a save writes `cfg`, its restart comes later; `beat` ages from `fresh` to `stale` |

Threads are named by identities; one that is dead is used again. Opening a tty
that is already open succeeds, as on Linux (the code says so itself,
`lease.py:5`).

`handover_safety` (two threads, two tasks, one probe per scan): one source thread
at a time (`OneSource`); no gate left closed by a task that is gone
(`NoOrphanGate`); no handle left on the port by a round that has ended
(`ParkedQuiet`); and `KeepsLifecycle`. `SourceLifecycle.tla` says what the main loop promises of its
source: started with its outlets up, told to stop before they go down, never
revived, gone before the next starts. The mapping takes `phase` from the live
threads and `thread_exit_event`; a join that times out is a source that stays
`"stopping"` while the main loop has gone on. That the exit event is cleared only
when no thread lives (`NoRevival`), that a source has its outlets up
(`SourceHasOutlets`) and that a parked loop starts nothing (`ParkedStays`) is
proved, not run: the first two are part of what `KeepsLifecycle` says.

`handover_live`: a saved
configuration is the one a round reads, whatever clears `restart_event`
(`ConfigApplied`); a hung worker does not keep the main loop from its work
(`HungWorkerEvicted`); SIGTERM ends the process (`ShutdownCompletes`).

Bounds. Two threads are the old one that outlives its join and the one of the
next round; `Guard` lets no third come up, and `OneSource` is proved for any
number. Two calibration tasks show a release that meets the next task's acquire.
One probe is enough for a scan to be interrupted before, in and after it. The
liveness run uses one thread identity and one task: the cases are the order of
the events, which one task has in full. Symmetry is used in the safety run only.

Fairness (`LiveSpec`). The operating system runs the main loop, a source ends a
probe and gets to its loop test (reads have timeouts), the worker's hand-over
steps are run, time passes. Nothing is said about how long a calibration works,
since a survey-in has no limit.

What the code does not keep: `handover_exclusive`. `lifecycle.py:309` says that
the calibration opens the port after `worker_thread` is `None`, so the two do not
contend; a round that scans or opens has no worker thread yet.

Noticed while modelling and not given a run:

- A restart request that falls between the gate's test of `calibration_hold` and
  its clear of `restart_event` is lost; the data plane then keeps the port, though
  `lifecycle.py:311` says it stays free (`lifecycle.py:320`).
- `release` asks for a restart that the gate is to eat (`lifecycle.py:314-318`);
  it can reach a running round and tear it down (`lease.py:381`).
- A scan says it gives up at once (`serial_source.py:47-48`); it looks only at an
  event nobody sets meanwhile.
- On SIGTERM `main` returns without waiting for the worker, a daemon thread, so
  its `finally` (`service.py:867`, the safety belt of every path) need not run.

## 4. The calibration service

`CalibrationService.tla` follows tasks across restarts: the worker from start to
return of the port (`wpc`, one action per stage change, decision or file), what
each step leaves in `lease.json` and `backup.json`, and what `on_startup` makes
of it (`StartupRead`, `StartupMark`, `StartupShow`). `capture` may read all of the
configuration, the mode but not the coordinate, or nothing that helps (`Parts`); a
restore puts back what the backup has of it (`PutBack`). `Kill` may come between any
two steps, also of the start-up itself; a write to disk may fail; the next
process may have the old one's pid, or an unrelated process may have got it.

`service` (two tasks of any of the five kinds, one kill, one failed write, two
pids, two rates, one of them the default):

- `InterruptionShown`, `NoticeTrue`: a task is shown as interrupted exactly if it
  was cut off (or could not say on disk that it had ended).
- `NoFalseAllClear`: the user is never told that a task which wrote left the
  module untouched.
- `WayBack`: while a configuration is half on the module, `backup.json` can be
  restored and the restore gives back all that was there before the first command
  of the task, if `capture` could read all of it (`Complete`).
- `CancelEnds`: a cancel request ends the task.

Proved, not run: a task ends as cancelled only if it was that task the user
cancelled (`CancelIsAsked`), and after a scan without success the channel is at
its first rate (`RateRestored`).

Fairness: every wait of the worker has a time limit of its own, except the
writer's, which is only fair to its checkpoints. Two tasks are enough: what one
leaves behind meets the next one's start, files and cancel request. One kill is
followed by a complete start-up; further ones only repeat it, and the theorems
hold for any number.

Noticed and not given a run:

- `service.py:696` calls `self._warn`, which does not exist: every scan that finds
  the module at another rate fails the task.
- The check for a leftover lease refuses in the case its comment excludes
  (`lease.py:236` against the comment at 234, and `lease.py:120`), and looks at a
  file the `HOLD` stage's heartbeat has just overwritten.
- `state.json` is written and read by nobody: an interruption shown once is gone
  after a second restart, and a kill between marking the lease and showing the
  notice loses it (docstring `service.py:564-568`). A `PREPARE` written late, after
  the thread has started (264), can overwrite the final state.
- An unrelated process with the dead service's pid hides the interruption
  (`lease.py:121`; the exception `blind` of `InterruptionShown`).
- `backup.json` is overwritten by dry runs and by runs that fail before they write
  (`backup.py:11-18`, `service.py:518`). A scan has no checkpoint.
- Only a backup without the mode is refused (`backup.py:212-219`). One whose
  coordinate could not be read (`backup.py:109-111`) is restored, and the module's
  coordinate is then switched off (`writer.py:466`), though `backup.py:62` calls it
  one that cannot be restored ("这次没法一键还原"). `WayBack` excepts it.

## 5. The calibration writer

`CalibrationWriter.tla` is one run of `CoordinateWriter`: the step sequences of
the seven kinds of plan (`Program`), their attempts and rounds, `_checkpoint`,
the failure, abort and eviction paths, `_revert`, the record and the reported
`nvm_state`. The module has `ram` and `nvm`; the drivers' operations (`SetMode`,
`SavePar`, `Reboot`, `CheckMode`) are sets of results: done, refused, unanswered
with or without effect (a fault), acknowledged without effect (a lie). `before` is
one of the configurations of `Earlier`; `backup` is what `capture` could read of it,
any of its parts missing (`PartsOf`). `_revert` writes and compares the parts that are
there, a coordinate as such and anything else by its kind (`Alike`, as
`writer.py:912-924` does); a restore without the coordinate is one of "disabled"
(`RestorePlan`). A survey is resumed only if the module is a base that surveys.

`writer` (all seven plans, five earlier configurations, one fault, one lie, one loss of power, a cancel
request and an eviction at every step):

- `SuccessIsTrue`: success means the NVM has mode and coordinate, a verified record
  that the module keeps and broadcasts it, a measurement that no coordinate was
  written and the mode is back, as long as no more than one command lied. Two lies
  (the save and the reading back) do deceive it; the bound is in the property.
- `NotWrittenKeepsNvm`: `not_written` is true of a plan that does not measure.
- `RevertedIsRestored`: after `reverted` the module works with the mode and the
  coordinate of a backup that has both, whatever failed on the way. Its NVM has them
  too if no command failed; a manual plan, which saves nothing before its end, bears
  one that did. Power may be lost on the way.
- `EvictedHandsOff`: a run that has lost the lease sends nothing more.
- `CancelEnds`, with weak fairness of the run: every wait in it has a limit or a
  checkpoint.

What the code does not keep: `writer_terminate`. The docstring at `writer.py:1113`
says that a Survey-in the user ends early is written with its mean; nothing
clears the request, and the next checkpoint aborts the run.

Noticed and not given a run: `not_written` although SAVEPAR has saved rates or
the rover mode (`writer.py:1686`, 1577); `TEXT_UNKNOWN` (59) and the docstring
821-825 against the save in `_revert` (859); `reverted` with `TEXT_REVERTED` (58,
"内存态与 NVM 均已回写") though SAVEPAR was only noted and what is read back is the
memory, so that after a lying SAVEPAR the NVM of a `cors` run still has rover; the
same report though the backup had no coordinate, so that none was written back
(851-852) or compared (915-924) and the new one is still there; an earlier Survey-in
with other parameters passes for restored by its kind; restoring "disabled" reads nothing back; `restore_memory` is sent
after an eviction; a command that timed out but was executed leaves `_touched`
false; `_revert` and `backup.capture` give no heartbeat and may be evicted.

## 6. Collection, positions and commands

`CorsCollection.tla` is the loop of `_step_cors_fix_and_collect` with the
connection it pumps. A pass takes a second; timers are kept up to `Horizon`.
`collect`: `AdmittedAfterHold` (a measurement begins only after good epochs in a
row for as long as the grade demands), `GradeIsOfSamples`, and `WaitsEnd` (the
wait before the downgrade ends, and so does collecting); weak fairness of the loop and strong fairness of its look at the
epochs, which losses of the link can postpone but not for ever. The bounds are
the program's times scaled down, in the same order; every comparison between two
of them is met on both sides.

What the code does not keep: `collect_outage`. `writer.py:1982` says that an
outage longer than the tolerated jitter makes the hold begin anew; the time of
the outage is cleared before it is looked at, so every outage counts as none.

`GgaManager.tla` is the guard and rhythm of the positions reported to the caster,
`CommandChannel.tla` a command with its retries, the classification of answers,
read-back, save and restart, against a module that refuses, loses, lies, repeats
and answers late. `ModuleChannel` runs both: one thread does one of them at a
time, and what passes between them is the cached line, of which `GgaManager`
assumes nothing. `module_channel`: `ReportsNeverJump`, `ReportsFollow`
(a module that stays elsewhere is not reported in its old place for ever, one that
stays in place goes on being reported); `VerifiedIsThere` (what is reported as read back is in the module,
unless an answer was late), `WorkingSucceeds` (a module that works is not
reported as failing, whatever was late before its restart), `SetEnds`. Five
places allow a jump, a return and a slow drift away; one fault shows every way a
single command can go wrong, and two settings show what one leaves for the next.

What the code does not keep: `gga_resume`. Once the last acceptance is older than
`GGA_STALE_LIMIT` every line is refused before it is looked at (`cors.py:712`),
so a module in place again is not reported again, as `cors.py:1149` says it must.

Noticed and not given a run:

- Collection: a downgraded wait restarts without limit; the grade is `FIXED` by
  the last epoch though the hold was on float ones; float samples follow a fixed
  admission in a downgraded run; the cached line of a silent module is sampled
  every 0.9 seconds; after three failed attempts the run fails with the
  "5 minutes" message and the limit of 300 seconds is out of reach; `send_gga_now`
  re-raises `OSError`, not `CorsError`; `pump` does not see the end of the stream
  (`cors.py:453`); `link_error` is not cleared by a reopen.
- Positions: while the module is silent, its cached line is accepted anew in each
  pass, so `GGA_STALE_LIMIT` has no effect there (`cors.py:585` against 758).
- Commands: nothing is drained before a send, so after one late answer every
  command of that name gets its predecessor's answer, until a restart, a reopen or
  a command of another name. A setting without save and restart then fails though
  the module has taken it, or is confirmed by a value that is no longer there.

## 7. The outer parts

`distribute` gives each receiver the same bytes, never waits and keeps the
exceptions of one from the others; so a behaviour of `Outlets.tla` is about one
part (`part`), the others being idle.

| Code | Model |
|---|---|
| `_accept_loop`, `_serve_client`, `publish`, `stop` of the local caster | `LocalCaster`: one thread each, one step per access to the list, a flag, a queue or a socket |
| `RadioBridge`, `CasterUploader` and the functions that start and stop them | `Senders`: instances one after the other, each with a thread that may outlive it; `kind` says when a handle is opened |
| `upload_data`, `process_rtcm_buffer`, `extract_rtcm_frames` | `RtcmBuffer`: bytes are a frame and a place in it; `Extract` is the scan with look-alike sync bytes |
| `ZeroconfAnnouncer` | `Announcer`: start, `_try_register` from start or from the thread, the watch, `set_ntrip`, `stop`; the library is a table of records |

`outlets` (two peers and one place, queues of one and two, three packets, two
instances with two handles, three frames of four bytes with a false sync byte in
reads of up to five bytes and a buffer of eight, three names, two addresses):

- `NoGap`, `PlacesComeBack`: a client gets a row without gap or is disconnected; a
  place always comes back, also that of one accepted in the middle of a stop. That
  the limit of clients holds though counting and adding are two steps
  (`ClientLimit`) is proved.
- `SentInOrder`, `StoppedSilent`, `NoHandleLeft`, `StoppedEnds`: in order and none
  twice, through overflow, failures and instances; nothing by an instance after its
  handle was closed; no handle kept; the thread ends.
- `FramesArrive`: frames in order and none twice, a lost frame only for one of the
  reasons in `excused`; and, in the type invariant, a buffer that outgrows its
  limit by less than a frame.
- `AnnouncedAsShown`: what the page shows is what the network is told, and nothing
  stays behind a stop; `AddressFollows`: the device is announced under its address
  once it has one and a free name.

A second peer waits for the place of the first; queues of one or two are full at
once, so that overflow meets every other step; three frames are one whole, one
cut and one behind it. Fairness: every wait of these threads has a time limit;
`stop`, once begun, goes on; strong fairness for the announcer's update, which a
changing network can interrupt.

Noticed and not given a run:

- `rtcm_parser.py:48` passes over a sync byte with less than three bytes behind
  it: a frame is lost when a read ends within its header. A rest put back behind
  newer data (161) costs up to two frames.
- `local_caster.py:329`: the peek does not see that a peer has gone if it has sent
  anything (a GGA line) before. A client accepted during a stop gets its 200 and is
  closed then.
- An uploader in `_connect` outlives `join(3)`: two authorised attempts at one
  mountpoint; the old one sends nothing. An old bridge thread may open its port,
  with its old rate, after its stop (`radio_bridge.py:191` has no look at the flag)
  while the new instance uses it.
- Announcer: a caster's record made while the device is not announced keeps the
  default name (comment at 128) and an address that has changed; names exhausted at
  the start leave no watch (comment at 451); a late thread can show `running` after
  a stop.

## 8. The upgrade

`Upgrade.tla` models the web handlers that start an upgrade, the runner in its
own systemd unit, and what they share.

| Code | Model |
|---|---|
| `read_state`, `_pid_alive` | `Shown`, `ShownActive`, `PidAlive`: what the page makes of the file |
| `start_upgrade`, `_launch`, `_seed_state` | `Check`, `Launch`, `SeedLook`, `SeedWrite`, one handler per concurrent request |
| `do_upgrade`, one step per state file write, copy, or system command | `pc` and `Queued` ... `Success`; `Abort` (nothing was changed), `GiveUp` and `Restart` (ports stay busy, or an exception reached `main`) |
| `apply` | `Apply` removes the package, `Copy` replaces one entry or fails before, between or after its removal and its copy |
| `backup`, `_copy_calibration_db` | `BackupTar`, `CopyMain`, `CopyWal`: three copies at three times |
| `rollback`, `_restore_calibration_db` | `RollbackStop` ... `RollbackHealth` |
| `systemctl stop` and `wait_ports_free` | `StopService`: nobody looks at the stop's result (`runner.py:619-620`, 711-713); `wait_ports_free` kills what it sees at the ports and is content if `ss` fails (171-172). So the service may be down, killed (systemd will start it again) or untouched |
| `start_service` | `StartService`: a start does nothing to a service that runs (614-618) |
| systemd, `Restart=always` | `Respawn`: a service that was killed, or crashes at its start, is started with whatever is installed then, half-copied or not |
| `store.py` | `SaveRecord` commits to the log, `CloseDb` merges it: the last connection to close checkpoints |
| the machine | `RunnerKilled`, `PowerFails`, `PidTaken`, `SeedAges` (90 seconds) |

Versions are numbers of the runs that install them; an entry of the directory is
the set of versions it holds files of, so that a file left over, or restored
over a newer one, shows.

`upgrade` (two requests, two upgrades, one entry, one record, reused pids, kills
and power failures at every step): `SuccessIsNew`, `RollbackPossible`,
`NotLeftStopped`, `RunsInstalled` (a service that answers works with what is installed:
no file was replaced under it, nor was it started before the last one; the exception,
`unstopped`, is a stop that failed), `ActiveEnds` (an upgrade shown as active ends, unless another
process has the dead runner's pid), under weak fairness of the runner (a unit that
was not killed is run; each command has a timeout) and of time. That calibration
records are lost nowhere but in a rollback (`RecordsKept`) is proved.

Bounds. The second upgrade meets what the first left: its state, its archive, a
half-replaced directory, a dead pid; two requests race for the unit and for the
seed; one record is enough for each copy to miss it. The one entry is the package,
which `apply` removes before it copies: it can be old, missing, half copied or
new. That several entries are replaced one by one is covered by the theorems,
which hold for every set of entries.

Noticed and not given a run: a dead runner's pid that belongs to another process
shows the upgrade as active for ever and blocks the next (`service.py:126-127`); a
rollback loses the records saved after the backup (`runner.py:71`, 654); a
checkpoint between the copies of database and log leaves its records in neither
(392-402); `rolled_back` is reported though members of the archive could not be
extracted (383, 25); after a stop that failed, `success` or `rolled_back` is reported though
the code of before still runs, and files are replaced under it: the function that
makes sure that the service is gone, `stop_service` (212-222), is never called; the
seed may overwrite the runner's first `queued`, pid
included (`service.py:314`), which by `ActiveEnds` does no lasting harm.

Abstracted: writes of `state.json` succeed (`set_state` only logs a failure); a
service whose stop succeeded stays down until it is started; one that answers does
not crash by itself; a copy of a file is not torn; a shutdown of the database in the new version's first seconds merges
like any other. Files of `SYNC_ITEMS` that are no directories are like directories
that are removed and copied.

## 9. What is proved

All theorems hold for every value of the constants under the named assumptions of
each module: bounds and times are natural numbers, a value that stands for "none"
is not one of the others, a queue or an inbox has room for one, the durations are
below `Horizon`. The `_proofs` modules are checked from nothing, with no fact
taken on trust.

| Module | Theorems | Inductive invariant and why it is needed |
|---|---|---|
| `SerialHandover_proofs` | `OneSource`, `ParkedQuiet`, `SourceHasOutlets`, `NoRevival`, `NoOrphanGate`, `ParkedStays`, `TypeOK`, and `ImplementsLifecycle`: every step is one of `SourceLifecycle` or a stutter | `RoundInv`. That a thread starts only when none lives needs to know that `worker_thread` names every live one (`ThreadInv`: who names it at each point of the round, and when the exit event is set); where the round's handle may be open (`HandleInv`); when the outlets are up (`OutletInv`). The gate's two are inductive by themselves |
| `CalibrationService_proofs` | `InterruptionShown`, `NoticeTrue`, `NoFalseAllClear`, `WayBack`, `CancelIsAsked`, `RateRestored`, `TypeOK` | `IdInv` (task numbers grow; the worker's is the latest), and for each a statement of what the files say between the steps: `InterruptInv` (from acquisition to release the lease on disk is the task's and open), `NoticeInv`, `AllClearInv`, `WayInv` (the last writer's backup is on disk as it was taken) |
| `CalibrationWriter_proofs` | `SuccessIsTrue`, `RevertedIsRestored`, `EvictedHandsOff`, `NotWrittenKeepsNvm`, `TypeOK` | `Structure` (what remains of a run is in an order in which only certain steps follow each other and the report comes last), `WrittenInv` (from SAVEPAR on, which undetected losses are still possible: before the restart RAM and NVM agree or one lie is spent, after it they agree, after the reading back the target is kept), `RecordInv` (a record is stored when only the report is left), `MeasuredInv` (a run that measures owes the module its mode as long as `memRestore` is set), `EvictedInv` (all that is left is the report), `NotWrittenInv` (an untouched run is at its first command, which does not change the NVM, or has given up), `SimpleInv` (a run that writes without measuring keeps to its steps and never meets a Survey-in of its own, so that the comparison by kind is exact), `ManualInv` (a manual run that has not saved has not changed the NVM, or has counted a failure), `RevertInv` with `Settled` (once the mode was written back, the NVM is as the memory, or as many failures are counted as the report does not bear) |
| `CorsCollection_proofs` | `AdmittedAfterHold`, `GradeIsOfSamples`, `TypeOK` | `HoldInv`: the code's timer never runs ahead of the true row of good epochs, whatever outages do to either; lemmas on the monotonicity of timers |
| `ModuleChannel_proofs` | `VerifiedIsThere`, `WorkingSucceeds`, `ReportsNeverJump`, `TypeOK`, `ChannelTypeOK` | `Orderly` (as long as no answer was late, at most one answer is on its way, with nothing behind it but lines nobody asked for, and between two commands there is none), `Faultless` (while nothing has gone wrong, what was applied is in the module when it is read back); `ReportInv`: what was reported last is the anchor and what the rhythm remembers |
| `RtcmBuffer_proofs` | `FramesArrive`, `ParserTypeOK` | `Arrived`, of the bytes the parser has taken followed by those in the buffer: frames that are handed on ascend, and each frame that was begun is handed on, excused, or there in full from its first byte to the last that was read. `Since` says that what was put back comes before what came in since. Lemmas on `Extract` by induction over the turns of its loop: a frame that is there in full is found, and nothing behind it is passed over |
| `Outlets_proofs` | of the parts together: `TypeOK`, `FramesArrive`, `AnnouncedAsShown`, `NoHandleLeft`, `NoGap`, `SentInOrder`, `StoppedSilent`, `ClientLimit` | Caster: `LimitInv` (only the accepting thread adds, after it has counted); `RowInv`: what a client has, what its thread holds and its queue are one row (`Linked`), whose end is the packet before the one it awaits (`Behind`). Senders: `HandleInv` (who is about to open has none), `StopInv` (past its stop, a thread at its queue has no handle; one that opens a handle later comes to the flag first), `OrderInv` (each queue ascends and is behind what the one instance that may still send has sent). Announcer: `AnnouncerInv` (at each place of the thread, what is registered against what is about to be noted) |
| `Upgrade_proofs` | `SuccessIsNew`, `RollbackPossible`, `NotLeftStopped`, `RunsInstalled`, `RecordsKept`, `TypeOK` | `Serving` (at which steps the service is down or its stop has failed, at which it is not down, and that a service whose stop did not fail was last started with what is installed), `Archived` (the archive describes the installation until the first file is replaced), `Installed` (while files change, the state on disk is not a success) |

The type invariants are proved and, but for that of `Outlets`, not run: they say
nothing else than their theorems do. A component that is checked in a composition
is proved alone, and carried over by the fact that a step of the composition is a
step or a stutter of each part (`PartsAlone` in `Outlets_proofs`).

With that, every invariant and every action property a passing run checks is a
theorem. The invariants above were checked by TLC before they were proved, on the
instances of the runs.

Induction over data is used in one place, on what the parser's loop computes.
The library's theorems about induction take an operator as a parameter, which
no backend instantiates; `LeastNumber` in `RtcmBuffer_proofs` (a set of numbers
that is not empty has a least one, from the well-foundedness of `<`) does instead,
and `TurnsExist` and `ExtractTurns` derive from it what the recursive function is
at each turn.

Only model-checked, because the prover has no liveness under fairness: all the
properties with `~>`, `[]<>` and `<>[]`. Nor is there a theorem about the four runs
that show a disagreement: what they check does not hold.

## 10. Not modelled

`PROJECT.json` gives for each component its status and reason. Apart from
presentation, formatting, logging and the scripts run by hand:

- what the bytes say: decoding of RTCM and NMEA, texts of commands, geodesy (it is
  floating point), statistics of the stream, status pages;
- disk contents below whole files: torn JSON, power cuts between a write and its
  sync, disk usage;
- `service.main` (the command line) as a second process beside the service,
  `do_uninstall` (nothing starts it any more), choice and probing of upgrade
  sources, `.version`, the virtual environment, the pruning of archives and records;
- the WebSocket hub, login and pages of the web application, the write-back of a
  detected port, the relay's reconnection.
