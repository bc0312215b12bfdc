------------------------------ MODULE Upgrade ------------------------------
(***************************************************************************)
(* The in-place upgrade: the web handlers that start it (upgrade/service.py*)
(* in the server process) and the runner that does it (upgrade/runner.py,  *)
(* a transient systemd unit, so that stopping the server does not kill it).*)
(*                                                                         *)
(* They share .upgrade/state.json, which each replaces atomically, the     *)
(* installation directory and the calibration database.  The runner may be *)
(* killed and the power may fail between any two steps; a pid of a dead    *)
(* runner may be given to another process.                                 *)
(*                                                                         *)
(* Versions are numbered by the run that installs them.  An entry of the   *)
(* installation directory is the set of versions it holds files of.        *)
(***************************************************************************)
EXTENDS Naturals

CONSTANTS
    Items,      \* directories of SYNC_ITEMS that the new version ships
    Package,    \* rtkserver, which is removed before the others are copied
    Records,    \* calibration records users may save
    Handlers,   \* concurrent web requests that start an upgrade
    MaxRuns,    \* bound on the upgrades started
    PidReuse    \* the pid of a dead runner may be taken by another process

ASSUME PackageAssumption == Package \in Items
ASSUME RunsAssumption == MaxRuns \in Nat /\ PidReuse \in BOOLEAN

VARIABLES
    pc,         \* the runner's next step, "none" without a runner process
    run,        \* number of the last runner started
    died,       \* it was killed
    reused,     \* runs whose pid now belongs to another process
    file,       \* .upgrade/state.json
    wpc,        \* what each web handler does
    svc,        \* the service: "up", "down", "failed" to answer, or "killed" but not
                \* stopped, so that systemd will restart it
    loaded,     \* what its process has loaded: the installation when it was started
    unstopped,  \* the last stop has not stopped it
    code,       \* the installation directory
    todo,       \* entries apply() has yet to copy
    hasTar,     \* the runner's state['backup_tar'] is set
    tar,        \* what that archive holds
    hasBak,     \* the runner's state['backup_calibration'] is set
    bakMain,    \* the copies of the database and of its write-ahead log
    bakWal,
    rbOk,       \* rollback's local ok
    main,       \* records in calibration.db
    wal         \* records in calibration.db-wal

ActiveStages == {"queued", "fetching", "verifying", "backing_up", "stopping",
                 "applying", "deps", "starting", "health", "rolling_back"}
RunnerStages == ActiveStages \ {"queued"}
Stages == ActiveStages \cup {"idle", "success", "failed", "rolled_back"}

Pcs == {"none", "queued", "fetch", "verify", "tar", "copyMain", "copyWal", "stop",
        "abort", "giveUp", "restart", "apply", "copy", "migrate", "deps", "start",
        "health", "success", "rbStop", "rbTar", "rbWal", "rbMain", "rbWal2",
        "rbDeps", "rbStart", "rbHealth"}

noPid == 0
Nothing == [i \in Items |-> {}]
web == <<wpc, reused>>
service == <<svc, loaded, unstopped>>
tree == <<code, todo>>
backups == <<hasTar, tar, hasBak, bakMain, bakWal>>
db == <<main, wal>>
vars == <<pc, run, died, file, service, rbOk, web, tree, backups, db>>

Init ==
    /\ pc = "none" /\ run = 0 /\ died = FALSE /\ reused = {}
    /\ file = [stage |-> "idle", pid |-> noPid, fin |-> FALSE, old |-> FALSE]
    /\ wpc = [h \in Handlers |-> "idle"]
    /\ code = [i \in Items |-> {0}] /\ todo = {}
    /\ svc = "up" /\ loaded = code /\ unstopped = FALSE
    /\ hasTar = FALSE /\ tar = Nothing
    /\ hasBak = FALSE /\ bakMain = {} /\ bakWal = {} /\ rbOk = FALSE
    /\ main = {} /\ wal = {}

-----------------------------------------------------------------------------
(* What the web side makes of state.json.                                  *)

PidAlive(n) == (pc # "none" /\ n = run) \/ n \in reused

Active(f) == f.stage \in ActiveStages /\ ~f.fin

\* Slip: a state with a pid is believed.
ShownBelieved == file.stage

\* read_state: an active state whose process is gone, or that no process has
\* claimed for 90 seconds, is shown as failed.
Shown ==
    IF \/ Active(file) /\ file.pid # noPid /\ ~PidAlive(file.pid)
       \/ Active(file) /\ file.pid = noPid /\ file.stage = "queued" /\ file.old
    THEN "failed" ELSE file.stage

ShownActive == Shown \in ActiveStages /\ ~file.fin

-----------------------------------------------------------------------------
(* The web handlers: start_upgrade.                                        *)

Handler(h, from, to) ==
    /\ svc = "up"
    /\ wpc[h] = from
    /\ wpc' = [wpc EXCEPT ![h] = to]

\* An upgrade that is shown as active refuses another.
Check(h) ==
    /\ Handler(h, "idle", "launch")
    /\ ~ShownActive
    /\ UNCHANGED <<pc, run, died, reused, file, service, rbOk, tree, backups, db>>

\* systemd-run refuses while the unit exists; a unit it accepts gets a new pid,
\* and is not seeded when systemd-run times out.
Launch(h) ==
    /\ \/ /\ Handler(h, "launch", "seed") \/ Handler(h, "launch", "idle")
          /\ pc = "none" /\ run < MaxRuns
          /\ pc' = "queued" /\ run' = run + 1 /\ died' = FALSE
       \/ /\ Handler(h, "launch", "idle")
          /\ UNCHANGED <<pc, run, died>>
    /\ UNCHANGED <<reused, file, service, rbOk, tree, backups, db>>

\* _seed_state leaves a state alone that the runner has taken over.
SeedLook(h) ==
    /\ \/ Handler(h, "seed", "idle") /\ Shown \in RunnerStages
       \/ Handler(h, "seed", "write") /\ Shown \notin RunnerStages
    /\ UNCHANGED <<pc, run, died, reused, file, service, rbOk, tree, backups, db>>

SeedWrite(h) ==
    /\ Handler(h, "write", "idle")
    /\ file' = [stage |-> "queued", pid |-> noPid, fin |-> FALSE, old |-> FALSE]
    /\ UNCHANGED <<pc, run, died, reused, service, rbOk, tree, backups, db>>

Web == \E h \in Handlers : Check(h) \/ Launch(h) \/ SeedLook(h) \/ SeedWrite(h)

-----------------------------------------------------------------------------
(* The runner: do_upgrade.                                                 *)

Goes(from, to) == pc = from /\ pc' = to

SetState(stage) ==
    file' = [stage |-> stage, pid |-> run, fin |-> FALSE, old |-> FALSE]

Finish(stage) ==
    file' = [stage |-> stage, pid |-> run, fin |-> TRUE, old |-> FALSE]

HandlersGone == wpc' = [h \in Handlers |-> "idle"]

\* systemctl stop, whose result is not looked at, and wait_ports_free, which kills
\* what it sees at the ports.  Where the stop fails the service goes on, not seen
\* if ss fails as well, or is killed, which systemd takes for a crash.
StopService ==
    /\ \/ svc' = "down" /\ loaded' = Nothing /\ HandlersGone
       \/ svc # "down" /\ svc' = "killed" /\ loaded' = Nothing /\ HandlersGone
       \/ UNCHANGED <<svc, loaded, wpc>>
    /\ unstopped' = (svc' # "down")

\* What a process loads that is started now.
Loads == svc' \in {"up", "failed"} /\ loaded' = code

\* systemctl start does nothing to a service that runs, whether it answers or not.
StartService ==
    /\ \/ svc \in {"down", "killed"} /\ Loads
       \/ svc \in {"up", "failed"} /\ UNCHANGED <<svc, loaded>>
    /\ UNCHANGED unstopped

\* What the runner has made is not read by the next one.
Forgotten ==
    /\ hasTar' = FALSE /\ tar' = Nothing
    /\ hasBak' = FALSE /\ bakMain' = {} /\ bakWal' = {}
    /\ rbOk' = FALSE /\ todo' = {}

Queued ==
    /\ Goes("queued", "fetch") /\ SetState("queued")
    /\ UNCHANGED <<service, rbOk, web, tree, backups, db>>

Fetch ==
    /\ pc = "fetch" /\ pc' \in {"verify", "abort", "giveUp"} /\ SetState("fetching")
    /\ UNCHANGED <<service, rbOk, web, tree, backups, db>>

Verify ==
    /\ pc = "verify" /\ pc' \in {"tar", "abort"} /\ SetState("verifying")
    /\ UNCHANGED <<service, rbOk, web, tree, backups, db>>

\* Slip: the upgrade goes on without its backup.
BackupTarTried ==
    /\ Goes("tar", "copyMain") /\ SetState("backing_up")
    /\ \/ hasTar' = TRUE /\ tar' = code
       \/ UNCHANGED <<hasTar, tar>>
    /\ UNCHANGED <<service, rbOk, web, tree, hasBak, bakMain, bakWal, db>>

BackupTar ==
    /\ SetState("backing_up")
    /\ \/ Goes("tar", "copyMain") /\ hasTar' = TRUE /\ tar' = code
       \/ pc = "tar" /\ pc' \in {"abort", "giveUp"} /\ UNCHANGED <<hasTar, tar>>
    /\ UNCHANGED <<service, rbOk, web, tree, hasBak, bakMain, bakWal, db>>

\* _copy_calibration_db, first the database, then its log; the service still
\* runs.  A failed copy is logged and there is then no copy to restore.
CopyMain ==
    /\ \/ Goes("copyMain", "copyWal") /\ bakMain' = main
       \/ Goes("copyMain", "stop") /\ UNCHANGED bakMain
    /\ UNCHANGED <<file, service, rbOk, web, tree, hasTar, tar, hasBak, bakWal, db>>

CopyWal ==
    /\ Goes("copyWal", "stop")
    /\ \/ bakWal' = wal /\ hasBak' = TRUE
       \/ UNCHANGED <<bakWal, hasBak>>
    /\ UNCHANGED <<file, service, rbOk, web, tree, hasTar, tar, bakMain, db>>

\* The runner goes on if it sees no port in use, whether or not the service has
\* stopped.
Stop ==
    /\ SetState("stopping")
    /\ \/ pc = "stop" /\ pc' \in {"apply", "giveUp"} /\ StopService
       \/ Goes("stop", "giveUp") /\ UNCHANGED <<service, wpc>>
    /\ UNCHANGED <<reused, rbOk, tree, backups, db>>

Abort ==
    /\ Goes("abort", "none") /\ Finish("failed") /\ Forgotten
    /\ UNCHANGED <<service, web, code, db>>

\* Slip: a runner that gives up leaves the service as it is.
GiveUpLeaves ==
    /\ Goes("giveUp", "none") /\ Finish("failed") /\ Forgotten
    /\ UNCHANGED <<service, web, code, db>>

\* The ports stay busy, or an exception reaches main().
GiveUp ==
    /\ Goes("giveUp", "restart") /\ Finish("failed")
    /\ UNCHANGED <<service, rbOk, web, tree, backups, db>>

Restart ==
    /\ Goes("restart", "none") /\ StartService /\ Forgotten
    /\ UNCHANGED <<file, web, code, db>>

Apply ==
    /\ Goes("apply", "copy") /\ SetState("applying")
    /\ code' = [code EXCEPT ![Package] = {}]
    /\ todo' = Items
    /\ UNCHANGED <<service, rbOk, web, backups, db>>

\* Slip: an entry that cannot be copied is skipped.
CopySkips ==
    /\ pc = "copy"
    /\ \/ \E i \in todo :
             /\ code' = [code EXCEPT ![i] = {run}] \/ code' = [code EXCEPT ![i] = {}]
             /\ todo' = todo \ {i}
             /\ UNCHANGED pc
       \/ todo = {} /\ pc' = "migrate" /\ UNCHANGED tree
    /\ UNCHANGED <<file, service, rbOk, web, backups, db>>

\* Each entry is removed and copied; a failure, before, between or after the
\* two, ends the copying.
Copy ==
    /\ pc = "copy"
    /\ \/ \E i \in todo :
             /\ code' = [code EXCEPT ![i] = {run}]
             /\ todo' = todo \ {i}
             /\ UNCHANGED pc
       \/ \E i \in todo, left \in {{}, {run}} :
             /\ code' \in {code, [code EXCEPT ![i] = left]}
             /\ pc' = "rbStop"
             /\ todo' = {}
       \/ todo = {} /\ pc' = "migrate" /\ UNCHANGED tree
    /\ UNCHANGED <<file, service, rbOk, web, backups, db>>

\* Opening and closing the database moves the log's records into it.
Merged == main' = main \cup wal /\ wal' = {}

Migrate ==
    /\ Goes("migrate", "deps")
    /\ Merged \/ UNCHANGED <<main, wal>>
    /\ UNCHANGED <<file, service, rbOk, web, tree, backups>>

Deps ==
    /\ pc = "deps" /\ pc' \in {"start", "rbStop"} /\ SetState("deps")
    /\ UNCHANGED <<service, rbOk, web, tree, backups, db>>

Start ==
    /\ Goes("start", "health") /\ SetState("starting") /\ StartService
    /\ UNCHANGED <<rbOk, web, tree, backups, db>>

Health ==
    /\ SetState("health")
    /\ \/ Goes("health", "success") /\ svc = "up"
       \/ Goes("health", "rbStop")
    /\ UNCHANGED <<service, rbOk, web, tree, backups, db>>

Success ==
    /\ Goes("success", "none") /\ Finish("success") /\ Forgotten
    /\ UNCHANGED <<service, web, code, db>>

\* Slip: the failed version is left running while its files are replaced.
RollbackStopForgotten ==
    /\ Goes("rbStop", "rbTar") /\ SetState("rolling_back")
    /\ UNCHANGED <<service, rbOk, web, tree, backups, db>>

\* It goes on with the ports in use, too.
RollbackStop ==
    /\ Goes("rbStop", "rbTar") /\ SetState("rolling_back") /\ StopService
    /\ UNCHANGED <<reused, rbOk, tree, backups, db>>

\* The archive is extracted over what is there; a member that cannot be
\* extracted is only logged; an archive that cannot be read (any further) makes
\* the rollback a failed one.
RollbackTar ==
    /\ Goes("rbTar", "rbWal")
    /\ \/ /\ hasTar /\ rbOk' \in BOOLEAN
          /\ \E done \in SUBSET Items :
                code' = [i \in Items |-> IF i \in done THEN code[i] \cup tar[i] ELSE code[i]]
       \/ rbOk' = FALSE /\ UNCHANGED code
    /\ UNCHANGED <<file, service, web, todo, backups, db>>

\* _restore_calibration_db: the log is removed, then both files are copied
\* back.  A copy that fails, and may leave an empty file, is only logged.
RollbackWal ==
    /\ \/ Goes("rbWal", "rbMain") /\ hasBak /\ wal' = {}
       \/ Goes("rbWal", "rbDeps") /\ UNCHANGED wal
    /\ UNCHANGED <<file, service, rbOk, web, tree, backups, main>>

RollbackMain ==
    /\ \/ Goes("rbMain", "rbWal2") /\ main' = bakMain
       \/ Goes("rbMain", "rbDeps") /\ main' \in {main, {}}
    /\ UNCHANGED <<file, service, rbOk, web, tree, backups, wal>>

RollbackWal2 ==
    /\ Goes("rbWal2", "rbDeps")
    /\ wal' \in {bakWal, {}}
    /\ UNCHANGED <<file, service, rbOk, web, tree, backups, main>>

RollbackDeps ==
    /\ Goes("rbDeps", "rbStart") /\ SetState("deps")
    /\ UNCHANGED <<service, rbOk, web, tree, backups, db>>

RollbackStart ==
    /\ Goes("rbStart", "rbHealth") /\ StartService
    /\ UNCHANGED <<file, rbOk, web, tree, backups, db>>

RollbackHealth ==
    /\ Goes("rbHealth", "none")
    /\ \/ Finish("failed")
       \/ rbOk /\ svc = "up" /\ Finish("rolled_back")
    /\ Forgotten
    /\ UNCHANGED <<service, web, code, db>>

Runner ==
    /\ \/ Queued \/ Fetch \/ Verify \/ BackupTar \/ CopyMain \/ CopyWal \/ Stop
       \/ Abort \/ GiveUp \/ Restart \/ Apply \/ Copy \/ Migrate \/ Deps \/ Start
       \/ Health \/ Success \/ RollbackStop \/ RollbackTar \/ RollbackWal
       \/ RollbackMain \/ RollbackWal2 \/ RollbackDeps \/ RollbackStart
       \/ RollbackHealth
    /\ UNCHANGED <<run, died>>

-----------------------------------------------------------------------------
(* The calibration service of the running server (calibration/store.py):   *)
(* a record is committed to the log; closing the last connection moves the *)
(* log's records into the database and removes the log.                    *)

SaveRecord ==
    /\ svc = "up"
    /\ \E r \in Records \ (main \cup wal) : wal' = wal \cup {r}
    /\ UNCHANGED <<pc, run, died, file, service, rbOk, web, tree, backups, main>>

CloseDb ==
    /\ svc = "up" /\ wal # {}
    /\ Merged
    /\ UNCHANGED <<pc, run, died, file, service, rbOk, web, tree, backups>>

-----------------------------------------------------------------------------
(* Failures and time.                                                      *)

\* Restart=always: a service that was killed, or that crashes at its start, is
\* started with what is there then; one that is slow answers in the end.
Respawn ==
    /\ \/ svc \in {"killed", "failed"} /\ Loads
       \/ svc = "failed" /\ svc' = "up" /\ UNCHANGED loaded
    /\ UNCHANGED <<pc, run, died, reused, file, wpc, unstopped, rbOk, tree, backups, db>>

RunnerKilled ==
    /\ pc # "none" /\ pc' = "none" /\ died' = TRUE /\ Forgotten
    /\ UNCHANGED <<run, file, service, web, code, db>>

\* The service is enabled: it is started at boot, with whatever code is there.
PowerFails ==
    /\ pc' = "none" /\ died' = (died \/ pc # "none") /\ Forgotten
    /\ Loads /\ unstopped' = FALSE /\ HandlersGone
    /\ UNCHANGED <<run, reused, file, code, db>>

PidTaken ==
    /\ PidReuse
    /\ \E n \in 1 .. run :
          /\ ~PidAlive(n)
          /\ reused' = reused \cup {n}
    /\ UNCHANGED <<pc, run, died, file, wpc, service, rbOk, tree, backups, db>>

SeedAges ==
    /\ file.stage = "queued" /\ file.pid = noPid /\ ~file.old
    /\ file' = [file EXCEPT !.old = TRUE]
    /\ UNCHANGED <<pc, run, died, service, rbOk, web, tree, backups, db>>

Next ==
    \/ Web \/ Runner \/ SaveRecord \/ CloseDb
    \/ Respawn \/ RunnerKilled \/ PowerFails \/ PidTaken \/ SeedAges

Spec == Init /\ [][Next]_vars

\* A runner that is not killed runs, and time passes.
FairSpec == Spec /\ WF_vars(Runner) /\ WF_vars(SeedAges)

-----------------------------------------------------------------------------
(* Properties.                                                             *)

\* Types, and that state.json names no process that is not a runner.
TypeOK ==
    /\ pc \in Pcs /\ run \in 0 .. MaxRuns /\ died \in BOOLEAN
    /\ reused \subseteq 1 .. MaxRuns
    /\ file \in [stage : Stages, pid : 0 .. MaxRuns, fin : BOOLEAN, old : BOOLEAN]
    /\ wpc \in [Handlers -> {"idle", "launch", "seed", "write"}]
    /\ svc \in {"up", "down", "failed", "killed"}
    /\ loaded \in [Items -> SUBSET (0 .. MaxRuns)] /\ unstopped \in BOOLEAN
    /\ code \in [Items -> SUBSET (0 .. MaxRuns)] /\ todo \subseteq Items
    /\ hasTar \in BOOLEAN /\ tar \in [Items -> SUBSET (0 .. MaxRuns)]
    /\ hasBak \in BOOLEAN /\ rbOk \in BOOLEAN
    /\ bakMain \subseteq Records /\ bakWal \subseteq Records
    /\ main \subseteq Records /\ wal \subseteq Records

\* An upgrade reported as a success has replaced every entry, whichever runs,
\* kills and power failures came before and after it.
SuccessIsNew == file.stage = "success" => code = [i \in Items |-> {file.pid}]

\* A service that answers works with what is installed, through every way an
\* upgrade may go on, fail, be rolled back or be killed: files are replaced while
\* no process has them loaded (runner.py:614-618: a start does nothing to a service
\* that runs).  The exception is a stop that failed: the code does not look.
RunsInstalled == svc = "up" /\ ~unstopped => loaded = code

\* The first file is replaced after the whole old version has been archived,
\* and the archive stays until the upgrade is over.
RollbackPossible ==
    pc \in {"stop", "apply", "copy", "migrate", "deps", "start", "health", "success",
            "rbStop", "rbTar"}
    => hasTar /\ (pc \in {"stop", "apply"} => tar = code)

\* A runner that was not killed has started the service again when it ends.
NotLeftStopped == pc = "none" /\ ~died => svc # "down"

\* An upgrade shown as active is not shown as active for ever, also when its
\* runner is killed, never came up, or was overwritten by the web's seed.  (A
\* process that is given the pid of a dead runner passes for it.)
ActiveEnds == [](reused = {}) => (ShownActive ~> ~ShownActive)

\* Calibration records get lost only where a rollback puts the copy of the database
\* back, and not on the way forward, by a kill or by a power failure (runner.py:71).
RecordsKept ==
    [][pc \notin {"rbWal", "rbMain", "rbWal2"} => main \cup wal \subseteq main' \cup wal']_vars

=============================================================================
