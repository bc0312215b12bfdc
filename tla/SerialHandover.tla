--------------------------- MODULE SerialHandover ---------------------------
(***************************************************************************)
(* How the data plane and a calibration task share one GNSS serial port.   *)
(*                                                                         *)
(* Three kinds of thread of one process, and the shared events of          *)
(* core/state.py between them:                                             *)
(*   - the main loop (core/lifecycle.py: main, _calibration_gate,          *)
(*     run_once), which scans for the port, opens it and starts the source *)
(*     thread;                                                             *)
(*   - the source threads (sources/serial_source.py, relay_source.py);     *)
(*   - the calibration worker (calibration/service.py, lease.py), which    *)
(*     asks the main loop to yield the port, opens it and returns it.      *)
(* The web handlers, SIGTERM and the passing of time are the environment.  *)
(*                                                                         *)
(* Every access to a shared event is a step of its own.  Linux ttys are    *)
(* not exclusive: opening a port that is open succeeds (lease.py:5).       *)
(***************************************************************************)
EXTENDS Naturals

CONSTANTS
    Threads,    \* identities of source threads; one is reused once its thread is dead
    NoThread,   \* Python's None
    Probes,     \* ports x baud rates one detect_serial tries
    MaxTasks    \* bound on the calibration tasks started by users

ASSUME ThreadsAssumption == NoThread \notin Threads
ASSUME BoundsAssumption == Probes \in Nat /\ MaxTasks \in Nat

VARIABLES
    exitEv,     \* state.thread_exit_event
    restart,    \* state.restart_event
    shutdown,   \* state.shutdown_event
    hold,       \* state.calibration_hold
    beat,       \* state.calibration_beat: 0.0, younger or older than 30 seconds
    mpc,        \* where the main loop is
    probes,     \* probes detect_serial has left
    cur,        \* run_once's local source_thread
    worker,     \* state.worker_thread
    runCfg,     \* run_once's local cfg['mode']
    outlets,    \* the outlets this round started are up
    ser,        \* run_once's serial.Serial is open
    src,        \* what each source thread does
    cpc,        \* where the calibration worker is
    calFd,      \* the lease's channel is open
    held,       \* lease.held
    tasks,      \* calibration tasks started so far
    cfg,        \* settings.mode in the database
    saved       \* a save whose restart has not been requested yet

Modes == {"none", "serial", "relay"}
SrcStates == {"off", "shared", "none", "probe", "own", "relay"}

MainPcs == {"top", "gate", "gateEat", "gateBeat", "gateSleep", "evictHold",
            "evictBeat", "evictRestart", "config", "guard", "read", "outlets",
            "detect", "probing", "openSerial", "openRelay", "spawn", "register",
            "wait", "stop", "join", "closeOutlets", "closeSer", "clear",
            "after", "exited"}

CalPcs == {"idle", "prepare", "precheck", "setBeat", "setHold", "setRestart",
           "yield", "dropHold", "dropBeat", "dropRestart", "acquired", "open",
           "opened", "work", "hung", "relClose", "relHold", "relBeat",
           "relRestart"}

round == <<probes, cur, worker, runCfg, outlets, ser, src>>
signals == <<exitEv, restart, hold, beat>>
calVars == <<cpc, calFd, held, tasks>>
envVars == <<shutdown, cfg, saved>>
vars == <<signals, envVars, mpc, round, calVars>>

Init ==
    /\ exitEv = FALSE /\ restart = FALSE /\ shutdown = FALSE
    /\ hold = FALSE /\ beat = "zero"
    /\ mpc = "top" /\ probes = 0 /\ cur = NoThread /\ worker = NoThread
    /\ runCfg = "none" /\ outlets = FALSE /\ ser = FALSE
    /\ src = [t \in Threads |-> "off"]
    /\ cpc = "idle" /\ calFd = FALSE /\ held = FALSE /\ tasks = 0
    /\ cfg \in Modes /\ saved = FALSE

Running == mpc # "exited"
Live == {t \in Threads : src[t] # "off"}
MainGoes(from, to) == mpc = from /\ mpc' = to
CalGoes(from, to) == cpc = from /\ cpc' = to

-----------------------------------------------------------------------------
(* main(): the loop and the calibration gate.                              *)

MainTop ==
    /\ MainGoes("top", IF shutdown THEN "exited" ELSE "gate")
    /\ UNCHANGED <<signals, round>>

GateBlocks == hold

GateLook ==
    /\ MainGoes("gate", IF GateBlocks THEN "gateBeat" ELSE "gateEat")
    /\ UNCHANGED <<signals, round>>

\* The restart a returning lease has set is consumed before the round starts.
GateEat ==
    /\ MainGoes("gateEat", "config")
    /\ restart' = FALSE
    /\ UNCHANGED <<exitEv, hold, beat, round>>

\* Slip: the watchdog starts its 30 seconds anew instead of evicting.
GateBeatRearms ==
    /\ MainGoes("gateBeat", "gateSleep")
    /\ beat' = "fresh"
    /\ UNCHANGED <<exitEv, restart, hold, round>>

\* A zero heartbeat starts the 30 seconds now.
GateBeat ==
    /\ mpc = "gateBeat"
    /\ \/ beat = "stale" /\ mpc' = "evictHold" /\ UNCHANGED beat
       \/ beat # "stale" /\ mpc' = "gateSleep" /\ beat' = "fresh"
    /\ UNCHANGED <<exitEv, restart, hold, round>>

GateSleep ==
    /\ MainGoes("gateSleep", "top")
    /\ UNCHANGED <<signals, round>>

EvictHold ==
    /\ MainGoes("evictHold", "evictBeat")
    /\ hold' = FALSE
    /\ UNCHANGED <<exitEv, restart, beat, round>>

EvictBeat ==
    /\ MainGoes("evictBeat", "evictRestart")
    /\ beat' = "zero"
    /\ UNCHANGED <<exitEv, restart, hold, round>>

EvictRestart ==
    /\ MainGoes("evictRestart", "config")
    /\ restart' = FALSE
    /\ UNCHANGED <<exitEv, hold, beat, round>>

LoadConfig ==
    /\ MainGoes("config", IF cfg = "none" THEN "top" ELSE "guard")
    /\ UNCHANGED <<signals, round>>

After ==
    /\ MainGoes("after", "top")
    /\ restart' = FALSE
    /\ UNCHANGED <<exitEv, hold, beat, round>>

-----------------------------------------------------------------------------
(* run_once(): one round of the data plane.                                *)

Alive(t) == t \in Live

\* Slip: the next round starts whatever became of the last one's thread.
RoundForbiddenNever == FALSE

\* A source thread that outlived its round forbids the next one.
RoundForbidden == Alive(worker)

Guard ==
    /\ MainGoes("guard", IF RoundForbidden THEN "after" ELSE "read")
    /\ exitEv' = RoundForbidden
    /\ UNCHANGED <<restart, hold, beat, round>>

ReadConfig ==
    /\ MainGoes("read", IF cfg = "none" THEN "stop" ELSE "outlets")
    /\ runCfg' = cfg
    /\ UNCHANGED <<signals, probes, cur, worker, outlets, ser, src>>

\* Slip: the restart request is cleared after the configuration was read.
StartOutletsEatsRestart ==
    /\ MainGoes("outlets", IF runCfg = "serial" THEN "detect" ELSE "openRelay")
    /\ outlets' = TRUE
    /\ probes' = Probes
    /\ restart' = FALSE
    /\ UNCHANGED <<exitEv, hold, beat, cur, worker, runCfg, ser, src>>

StartOutlets ==
    /\ MainGoes("outlets", IF runCfg = "serial" THEN "detect" ELSE "openRelay")
    /\ outlets' = TRUE
    /\ probes' = Probes
    /\ UNCHANGED <<signals, cur, worker, runCfg, ser, src>>

\* detect_serial looks only at thread_exit_event between two probes.
ScanGoesOn == ~exitEv
ProbesLeft == probes > 0

Probe ==
    /\ MainGoes("detect", "probing")
    /\ ScanGoesOn /\ ProbesLeft
    /\ probes' = probes - 1
    /\ UNCHANGED <<signals, cur, worker, runCfg, outlets, ser, src>>

ProbeEnd ==
    /\ mpc = "probing"
    /\ mpc' \in {"detect", "openSerial"}
    /\ UNCHANGED <<signals, round>>

NotDetected ==
    /\ MainGoes("detect", "stop")
    /\ ~ScanGoesOn \/ ~ProbesLeft
    /\ UNCHANGED <<signals, round>>

OpenSerial ==
    /\ mpc = "openSerial"
    /\ \/ mpc' = "spawn" /\ ser' = TRUE
       \/ mpc' = "stop" /\ UNCHANGED ser
    /\ UNCHANGED <<signals, probes, cur, worker, runCfg, outlets, src>>

OpenRelay ==
    /\ mpc = "openRelay"
    /\ mpc' \in {"spawn", "stop"}
    /\ UNCHANGED <<signals, round>>

\* Starting a thread can fail; run_once then takes its exception path.
Spawn ==
    /\ mpc = "spawn"
    /\ \/ /\ mpc' = "register"
          /\ \E t \in Threads \ Live :
                /\ src' = [src EXCEPT ![t] = IF runCfg = "serial" THEN "shared" ELSE "relay"]
                /\ cur' = t
       \/ mpc' = "stop" /\ UNCHANGED <<src, cur>>
    /\ UNCHANGED <<signals, probes, worker, runCfg, outlets, ser>>

Register ==
    /\ MainGoes("register", "wait")
    /\ worker' = cur
    /\ UNCHANGED <<signals, probes, cur, runCfg, outlets, ser, src>>

\* Slip: SIGTERM does not end the round.
WaitEndsOnRestart ==
    /\ MainGoes("wait", "stop")
    /\ restart
    /\ UNCHANGED <<signals, round>>

WaitEnds ==
    /\ MainGoes("wait", "stop")
    /\ restart \/ shutdown
    /\ UNCHANGED <<signals, round>>

StopSource ==
    /\ MainGoes("stop", "join")
    /\ exitEv' = TRUE
    /\ UNCHANGED <<restart, hold, beat, round>>

\* join(5) returns when the thread has ended or when its time is up.
JoinForgetsAlways == TRUE    \* slip: worker_thread is cleared unconditionally
JoinForgets == ~Alive(cur)

JoinSource ==
    /\ MainGoes("join", "closeOutlets")
    /\ worker' = IF JoinForgets THEN NoThread ELSE worker
    /\ UNCHANGED <<signals, probes, cur, runCfg, outlets, ser, src>>

CloseOutlets ==
    /\ MainGoes("closeOutlets", "closeSer")
    /\ outlets' = FALSE
    /\ UNCHANGED <<signals, probes, cur, worker, runCfg, ser, src>>

\* Slip: the handle is closed only after rounds that started a thread.
CloseSerOfSource ==
    /\ MainGoes("closeSer", "clear")
    /\ ser' = (ser /\ cur = NoThread)
    /\ UNCHANGED <<signals, probes, cur, worker, runCfg, outlets, src>>

CloseSer ==
    /\ MainGoes("closeSer", "clear")
    /\ ser' = FALSE
    /\ UNCHANGED <<signals, probes, cur, worker, runCfg, outlets, src>>

RoundEnds ==
    /\ MainGoes("clear", "after")
    /\ restart' = FALSE
    /\ cur' = NoThread
    /\ probes' = 0
    /\ UNCHANGED <<exitEv, hold, beat, worker, runCfg, outlets, ser, src>>

Main ==
    /\ \/ MainTop \/ GateLook \/ GateEat \/ GateBeat \/ GateSleep
       \/ EvictHold \/ EvictBeat \/ EvictRestart \/ LoadConfig \/ After
       \/ Guard \/ ReadConfig \/ StartOutlets \/ Probe \/ ProbeEnd
       \/ NotDetected \/ OpenSerial \/ OpenRelay \/ Spawn \/ Register
       \/ WaitEnds \/ StopSource \/ JoinSource \/ CloseOutlets \/ CloseSer
       \/ RoundEnds
    /\ UNCHANGED <<envVars, calVars>>

-----------------------------------------------------------------------------
(* A source thread.  A serial source first reads the port run_once opened  *)
(* ("shared"); after a read error it closes it and detects a port by       *)
(* itself ("none", "probe", "own").                                        *)

SrcError(t) ==
    /\ src[t] \in {"shared", "own"}
    /\ ser' = (ser /\ src[t] # "shared")
    /\ src' = [src EXCEPT ![t] = "none"]

SrcProbe(t) ==
    /\ src[t] = "none" /\ ~exitEv
    /\ src' = [src EXCEPT ![t] = "probe"]
    /\ UNCHANGED ser

SrcProbeEnd(t) ==
    /\ src[t] = "probe"
    /\ \E s \in {"own", "none"} : src' = [src EXCEPT ![t] = s]
    /\ UNCHANGED ser

SrcExit(t) ==
    /\ exitEv
    /\ src[t] \in {"shared", "none", "own", "relay"}
    /\ ser' = (ser /\ src[t] # "shared")
    /\ src' = [src EXCEPT ![t] = "off"]

notSource == <<signals, envVars, calVars, mpc, probes, cur, worker, runCfg, outlets>>

Source(t) ==
    /\ Running
    /\ SrcError(t) \/ SrcProbe(t) \/ SrcProbeEnd(t) \/ SrcExit(t)
    /\ UNCHANGED notSource

-----------------------------------------------------------------------------
(* The calibration worker: CalibrationService._worker and SerialLease.     *)

CalStart ==
    /\ CalGoes("idle", "prepare")
    /\ tasks < MaxTasks
    /\ tasks' = tasks + 1
    /\ UNCHANGED <<signals, calFd, held>>

\* Entering PREPARE writes the heartbeat; the first checkpoint may abort.
CalPrepare ==
    /\ cpc = "prepare"
    /\ cpc' \in {"precheck", "relClose"}
    /\ shutdown => cpc' = "relClose"
    /\ beat' = "fresh"
    /\ UNCHANGED <<exitEv, restart, hold, calFd, held, tasks>>

\* acquire() refuses without touching the gate: a task holds it, the radio
\* outlet uses the port, or the lease file cannot be written.
CalPrecheck ==
    /\ cpc = "precheck"
    /\ cpc' \in {"setBeat", "relClose"}
    /\ hold => cpc' = "relClose"
    /\ UNCHANGED <<signals, calFd, held, tasks>>

CalSetBeat ==
    /\ CalGoes("setBeat", "setHold")
    /\ beat' = "fresh"
    /\ UNCHANGED <<exitEv, restart, hold, calFd, held, tasks>>

CalSetHold ==
    /\ CalGoes("setHold", "setRestart")
    /\ hold' = TRUE
    /\ UNCHANGED <<exitEv, restart, beat, calFd, held, tasks>>

CalSetRestart ==
    /\ CalGoes("setRestart", "yield")
    /\ restart' = TRUE
    /\ UNCHANGED <<exitEv, hold, beat, calFd, held, tasks>>

\* What _wait_dataplane_yield takes for "the data plane has yielded".
Yielded == ~Alive(worker)

\* One poll: yielded, not yet (beat and poll again), or out of time.
CalYield ==
    /\ cpc = "yield"
    /\ \/ ~shutdown /\ Yielded /\ cpc' = "acquired" /\ UNCHANGED beat
       \/ ~shutdown /\ ~Yielded /\ UNCHANGED cpc /\ beat' = "fresh"
       \/ cpc' = "dropHold" /\ UNCHANGED beat
    /\ UNCHANGED <<exitEv, restart, hold, calFd, held, tasks>>

DropHold ==
    /\ CalGoes("dropHold", "dropBeat")
    /\ hold' = FALSE
    /\ UNCHANGED <<exitEv, restart, beat, calFd, held, tasks>>

DropBeat ==
    /\ CalGoes("dropBeat", "dropRestart")
    /\ beat' = "zero"
    /\ UNCHANGED <<exitEv, restart, hold, calFd, held, tasks>>

DropRestart ==
    /\ CalGoes("dropRestart", "relClose")
    /\ restart' = TRUE
    /\ UNCHANGED <<exitEv, hold, beat, calFd, held, tasks>>

\* Stages HOLD and OPEN beat; the checkpoint between them may abort.
CalAcquired ==
    /\ cpc = "acquired"
    /\ cpc' \in {"open", "relClose"}
    /\ shutdown => cpc' = "relClose"
    /\ beat' = "fresh"
    /\ UNCHANGED <<exitEv, restart, hold, calFd, held, tasks>>

\* open(): one of its ten attempts succeeds, fails and beats, or was the last.
CalOpen ==
    /\ cpc = "open"
    /\ \/ cpc' = "opened" /\ calFd' = TRUE /\ UNCHANGED beat
       \/ UNCHANGED <<cpc, calFd>> /\ beat' = "fresh"
       \/ cpc' = "dropHold" /\ UNCHANGED <<calFd, beat>>
    /\ UNCHANGED <<exitEv, restart, hold, held, tasks>>

CalHeld ==
    /\ CalGoes("opened", "work")
    /\ held' = TRUE
    /\ beat' = "fresh"
    /\ UNCHANGED <<exitEv, restart, hold, calFd, tasks>>

Evicted == held /\ ~hold

\* A checkpoint the task passes, followed by the heartbeat of its next stage.
CalCheckpoint ==
    /\ cpc = "work"
    /\ ~shutdown /\ ~Evicted
    /\ beat' = "fresh"
    /\ UNCHANGED <<exitEv, restart, hold, cpc, calFd, held, tasks>>

\* Done, failed, cancelled, shut down or evicted: the finally of _worker.
CalEnd ==
    /\ CalGoes("work", "relClose")
    /\ UNCHANGED <<signals, calFd, held, tasks>>

\* A call that never returns, e.g. to a driver of a device that hangs.
CalHang ==
    /\ CalGoes("work", "hung")
    /\ UNCHANGED <<signals, calFd, held, tasks>>

RelClose ==
    /\ CalGoes("relClose", "relHold")
    /\ calFd' = FALSE
    /\ held' = FALSE
    /\ UNCHANGED <<signals, tasks>>

\* Slip: the gate stays closed when the lease is returned.
RelHoldForgotten ==
    /\ CalGoes("relHold", "relBeat")
    /\ UNCHANGED <<signals, calFd, held, tasks>>

RelHold ==
    /\ CalGoes("relHold", "relBeat")
    /\ hold' = FALSE
    /\ UNCHANGED <<exitEv, restart, beat, calFd, held, tasks>>

RelBeat ==
    /\ CalGoes("relBeat", "relRestart")
    /\ beat' = "zero"
    /\ UNCHANGED <<exitEv, restart, hold, calFd, held, tasks>>

RelRestart ==
    /\ CalGoes("relRestart", "idle")
    /\ restart' = TRUE
    /\ UNCHANGED <<exitEv, hold, beat, calFd, held, tasks>>

\* The steps between the working stages that the code always goes on with.
CalHandover ==
    \/ CalPrepare \/ CalPrecheck \/ CalSetBeat \/ CalSetHold \/ CalSetRestart
    \/ CalYield \/ DropHold \/ DropBeat \/ DropRestart \/ CalAcquired \/ CalOpen
    \/ CalHeld \/ RelClose \/ RelHold \/ RelBeat \/ RelRestart

Cal ==
    /\ Running
    /\ CalStart \/ CalHandover \/ CalCheckpoint \/ CalEnd \/ CalHang
    /\ UNCHANGED <<envVars, mpc, round>>

-----------------------------------------------------------------------------
(* The environment: web handlers, SIGTERM, time.                           *)

WebSave ==
    /\ Running
    /\ cfg' \in Modes
    /\ saved' = TRUE
    /\ UNCHANGED <<signals, shutdown, mpc, round, calVars>>

WebRestart ==
    /\ Running
    /\ restart' = TRUE
    /\ saved' = FALSE
    /\ UNCHANGED <<exitEv, hold, beat, shutdown, cfg, mpc, round, calVars>>

Sigterm ==
    /\ Running
    /\ shutdown' = TRUE
    /\ UNCHANGED <<signals, cfg, saved, mpc, round, calVars>>

\* Thirty seconds pass without a heartbeat, or the wall clock is set forward.
BeatAges ==
    /\ Running
    /\ beat = "fresh"
    /\ beat' = "stale"
    /\ UNCHANGED <<exitEv, restart, hold, envVars, mpc, round, calVars>>

\* main() has returned: the process is gone and its daemon threads with it.
Exited == ~Running /\ UNCHANGED vars

Env == WebSave \/ WebRestart \/ Sigterm \/ BeatAges

Next == Main \/ (\E t \in Threads : Source(t)) \/ Cal \/ Env \/ Exited

Spec == Init /\ [][Next]_vars

-----------------------------------------------------------------------------
(* Fairness.  The operating system schedules every thread; a source ends   *)
(* its probe and, told to exit, gets to its loop test; time passes.        *)

SrcStep(A) == Running /\ A /\ UNCHANGED notSource
CalStep(A) == Running /\ A /\ UNCHANGED <<envVars, mpc, round>>

SystemFairness ==
    /\ WF_vars(Main)
    /\ \A t \in Threads :
          /\ WF_vars(SrcStep(SrcProbeEnd(t)))
          /\ WF_vars(SrcStep(SrcExit(t)))
    /\ WF_vars(CalStep(CalHandover))
    /\ WF_vars(BeatAges)

\* Nothing makes a calibration end: a survey-in has no time limit.
LiveSpec == Spec /\ SystemFairness

-----------------------------------------------------------------------------
(* Properties.                                                             *)

\* Types, and that no scan makes more probes than it was given.
TypeOK ==
    /\ exitEv \in BOOLEAN /\ restart \in BOOLEAN /\ shutdown \in BOOLEAN
    /\ hold \in BOOLEAN /\ beat \in {"zero", "fresh", "stale"}
    /\ mpc \in MainPcs /\ probes \in 0 .. Probes
    /\ cur \in Threads \cup {NoThread} /\ worker \in Threads \cup {NoThread}
    /\ runCfg \in Modes /\ outlets \in BOOLEAN /\ ser \in BOOLEAN
    /\ src \in [Threads -> SrcStates]
    /\ cpc \in CalPcs /\ calFd \in BOOLEAN /\ held \in BOOLEAN
    /\ tasks \in 0 .. MaxTasks
    /\ cfg \in Modes /\ saved \in BOOLEAN

\* Two source threads never run at the same time, whatever joins time out:
\* they would push to the same mountpoint and read the same port twice.
OneSource == \A t, u \in Live : t = u

\* thread_exit_event is never cleared under a source thread that was told to
\* exit: it would be revived ("resurrected", lifecycle.py:137).
NoRevival == [][exitEv /\ ~exitEv' => Live = {}]_vars

\* The gate is closed only while a calibration task exists that has closed it
\* and has yet to open it: no path of the worker leaves it closed behind it.
GateOwners == {"setRestart", "yield", "dropHold", "acquired", "open", "opened",
               "work", "hung", "relClose", "relHold"}
NoOrphanGate == hold => cpc \in GateOwners

\* The main loop waits for the calibration: at the loop's top or in the gate.
AtGate == mpc \in {"top", "gate", "gateBeat", "gateSleep"}

DataPlaneOnPort ==
    \/ ser
    \/ mpc = "probing"
    \/ \E t \in Threads : src[t] \in {"own", "probe"}

\* Between two rounds, and once the last source thread has ended, no handle of
\* the data plane is left on the port, whichever way the last round ended.
ParkedQuiet == AtGate /\ ~Alive(worker) => ~DataPlaneOnPort

\* While the gate stays closed, a main loop that has reached it starts no round.
ParkedStays ==
    [][AtGate /\ hold /\ hold' => mpc' \in {"top", "gate", "gateBeat", "gateSleep",
                                            "evictHold", "exited"}]_vars

\* A source that has not been told to exit finds its outlets up: they start
\* before it and stop after it (lifecycle.py:156 and 241).
SourceHasOutlets == Live # {} /\ ~exitEv => outlets

\* The rounds of the main loop implement the life cycle of SourceLifecycle.
SourcePhase ==
    IF Live = {} THEN "none" ELSE IF exitEv THEN "stopping" ELSE "running"

Lifecycle == INSTANCE SourceLifecycle WITH phase <- SourcePhase, outlets <- outlets

\* Every round starts its outlets, then one source; stops the source, then the
\* outlets; and no source starts before the last one is gone.
KeepsLifecycle == Lifecycle!Spec

\* Unless the gate goes on being closed, a saved configuration whose restart was
\* requested is eventually the one a round reads, whatever clears restart_event in
\* between.
ConfigApplied ==
    <>[]~hold =>
        \A c \in Modes \ {"none"} :
            (cfg = c /\ ~saved) ~> (runCfg = c \/ cfg # c \/ shutdown)

\* A worker that hangs does not keep a waiting main loop from its data plane.
HungWorkerEvicted == (cpc = "hung" /\ AtGate) ~> (~hold \/ shutdown)

\* SIGTERM ends the process, whatever the main loop was doing.
ShutdownCompletes == shutdown ~> ~Running

(* What the code's comments say and the code does not keep.                *)

\* lifecycle.py:308-311: the calibration opens the port once worker_thread is
\* None, "which naturally avoids contending for the same fd".
ExclusivePort == calFd /\ hold => ~DataPlaneOnPort

=============================================================================
