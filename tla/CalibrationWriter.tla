------------------------- MODULE CalibrationWriter -------------------------
(***************************************************************************)
(* One run of CoordinateWriter (calibration/writer.py): the steps it takes *)
(* for each kind of plan, the commands they send to the module, what it    *)
(* does when a step fails, the user cancels or the lease is lost, and what *)
(* it reports about the module's memory (nvm_state).                       *)
(*                                                                         *)
(* The module keeps its configuration twice: ram, which commands change    *)
(* and which it works with, and nvm, which SAVEPAR overwrites with ram and *)
(* a restart reads back.  A configuration is a mode, the coordinate        *)
(* configuration and the messages that are switched on.                    *)
(*                                                                         *)
(* A command may be refused, or get no answer whether it was executed or   *)
(* not (a fault); it may be acknowledged without effect (a lie).  Both are *)
(* counted, and so is the loss of the module's power.                      *)
(***************************************************************************)
EXTENDS Naturals, Sequences

CONSTANTS
    Plans,      \* kinds of plan a run may be given
    Earlier,    \* configurations a module may have before it is calibrated
    MaxFaults,  \* bound on commands that fail or get no answer
    MaxLies,    \* bound on commands acknowledged without effect
    MaxLosses   \* bound on losses of the module's power

\* A plan that reuses the coordinate of an old record takes the steps of "manual".
AllPlans == {"manual", "cors", "external", "survey",
             "restoreFixed", "restoreSurvey", "restoreDisabled"}

Modes == {"rover", "base"}
\* "old" is an earlier coordinate, "survey" an earlier Survey-in; "new" and
\* "surveying" are those of a calibration.
Positions == {"old", "survey", "off", "surveying", "new"}
Messages == {"silent", "gga", "measure", "rtcm"}    \* "measure": GGA as the run sets it
Configs == [mode : Modes, pos : Positions, msgs : Messages]

ASSUME PlansAssumption == Plans \subseteq AllPlans
ASSUME EarlierAssumption ==
    Earlier \subseteq [mode : Modes, pos : {"old", "survey", "off"},
                       msgs : {"silent", "gga", "rtcm"}]
ASSUME BoundsAssumption == /\ MaxFaults \in Nat /\ MaxLies \in Nat
                           /\ MaxLosses \in Nat

VARIABLES
    plan,       \* the plan of this run
    backup,     \* the snapshot run() was given: the parts capture could read
    before,     \* the module's configuration when the run began
    module,     \* the module: ram, nvm and the faults it has shown
    todo,       \* the steps that remain
    attempt,    \* attempt of the current step
    round,      \* round of the 1005 check
    touched,    \* self._touched
    saved,      \* self._saved
    memRestore, \* self._mem_restore_mode is set
    modeAck,    \* plan.mode_ack
    cancel,     \* the user's cancel request, which is never taken back
    evicted,    \* the lease was reclaimed by the watchdog
    raised,     \* how the run left its steps
    terminated, \* a cancel request was taken as the end of Survey-in
    verdict,    \* result['verdict']
    record,     \* a record was stored, and its 'verified'
    report      \* nvm_state reported at the end

Modules == [ram : Configs, nvm : Configs,
            faults : 0..MaxFaults, lies : 0..MaxLies, losses : 0..MaxLosses]

\* What capture read of a configuration; a part it could not read is "none".
Backups == [mode : Modes \cup {"none"}, pos : Positions \cup {"none"},
            msgs : Messages \cup {"none"}]
PartsOf(cfg) == [mode : {cfg.mode, "none"}, pos : {cfg.pos, "none"}, msgs : {cfg.msgs, "none"}]
NoParts == [mode |-> "none", pos |-> "none", msgs |-> "none"]

Restores == {"restoreFixed", "restoreSurvey", "restoreDisabled"}

Readonly == plan = "external"
Restoring == plan \in Restores
Fixed == plan \notin {"restoreSurvey", "restoreDisabled"}   \* plan.svin_mode at the end
TargetPos == CASE plan = "restoreFixed" -> "old"
               [] plan = "restoreSurvey" -> "survey"
               [] plan = "restoreDisabled" -> "off"
               [] OTHER -> "new"
TargetMode == IF Restoring THEN backup.mode ELSE "base"

\* from_backup: without a coordinate in the backup it is switched off.
RestorePlan(pos) == CASE pos = "old" -> "restoreFixed" [] pos = "survey" -> "restoreSurvey"
                      [] OTHER -> "restoreDisabled"

\* mode of get_svin_config, and what the driver's values are compared by: a
\* coordinate as such, anything else by its kind.
Kind(pos) == CASE pos \in {"old", "new"} -> "fixed" [] pos \in {"survey", "surveying"} -> "survey_in"
               [] OTHER -> "disabled"
Alike(a, b) == a = b \/ (Kind(a) = Kind(b) /\ Kind(b) # "fixed")

Writing == <<"messages", "save", "restart", "verifyMode", "verifyRtcm", "inject", "report">>
Observing == <<"gga", "connect", "collect">>
Measuring == <<"rover", "nmea", "reinit", "gga", "connect", "collect">>
Concluding == <<"restoreMemory", "inject", "report">>

\* The order of the steps for each kind of plan.
Program(p) ==
    CASE p = "survey"   -> <<"resume", "switch", "svinBoot", "svinCfg", "svinStatus", "svinWait",
                             "write">> \o Writing
      [] p = "cors"     -> Measuring \o <<"write", "switch">> \o Writing
      [] p = "external" -> Measuring \o Concluding
      [] p \in {"restoreSurvey", "restoreDisabled"} -> <<"configSvin", "switch">> \o Writing
      [] OTHER          -> <<"write", "switch">> \o Writing

Reverting == <<"revertPos", "revertMode", "revertRates", "revertCheck">>    \* _revert
Retrying == <<"messages", "rewrite", "save", "restart", "verifyMode", "verifyRtcm">>

\* Steps that call _checkpoint before they send anything.
Checked == {"switch", "svinBoot", "svinCfg", "svinWait", "write", "configSvin", "messages",
            "save", "restart", "verifyMode", "verifyRtcm", "inject", "gga", "collect"}

RevertSteps == {"revertPos", "revertMode", "revertRates", "revertCheck"}
RunSteps == Checked \cup {"resume", "svinStatus", "rover", "nmea", "reinit", "connect",
                          "restoreMemory", "rewrite", "report"}

runs == <<plan, backup, before>>
flags == <<touched, saved, memRestore, modeAck>>
told == <<terminated, verdict, record, report>>

-----------------------------------------------------------------------------
(* The module and its driver.  Each operator gives the results a command   *)
(* may have: what the driver returns, and the module afterwards.           *)

Result(res, m) == [res |-> res, m |-> m]

Faulty(m, results) ==
    IF m.faults = MaxFaults THEN {}
    ELSE {Result(r.res, [r.m EXCEPT !.faults = @ + 1]) : r \in results}

Lying(m) ==
    IF m.lies = MaxLies THEN {} ELSE {Result("ok", [m EXCEPT !.lies = @ + 1])}

\* A command that changes ram to cfg.
Command(m, cfg) ==
    LET done == [m EXCEPT !.ram = cfg]
    IN  {Result("ok", done)} \cup Lying(m)
        \cup Faulty(m, {Result("error", m), Result("timeout", m), Result("timeout", done)})

SavePar(m) ==
    LET done == [m EXCEPT !.nvm = m.ram]
    IN  {Result("ok", done)} \cup Lying(m)
        \cup Faulty(m, {Result("error", m), Result("timeout", m), Result("timeout", done)})

\* A reboot that leaves the port streaming is taken for done.
Reboot(m) ==
    LET done == [m EXCEPT !.ram = m.nvm]
    IN  {Result("ok", done)} \cup Lying(m)
        \cup Faulty(m, {Result("error", m), Result("error", done)})

Query(m) == {Result("ok", m)} \cup Faulty(m, {Result("error", m)})

\* The results of S, and after those that went well of Next(m).
Then(S, Next(_)) ==
    {r \in S : r.res # "ok"} \cup UNION {Next(r.m) : r \in {s \in S : s.res = "ok"}}

InMode(m, mode) == [m.ram EXCEPT !.mode = mode]

\* apply_and_verify(_reapply, _check_mode): one more try if the mode read differs.
CheckMode(m, mode) ==
    Then(Query(m), LAMBDA n : {Result(IF n.ram.mode = mode THEN "ok" ELSE "error", n)})

EnsureMode(m, mode, persist) ==
    LET first == CheckMode(m, mode)
        Again(n) == Then(Command(n, InMode(n, mode)),
                         LAMBDA k : IF persist THEN SavePar(k) ELSE {Result("ok", k)})
    IN  {r \in first : r.res = "ok"}
        \cup UNION {Then(Again(r.m), LAMBDA k : CheckMode(k, mode))
                    : r \in {s \in first : s.res # "ok"}}

\* set_mode(mode, persist, restart, verify), the last two always together.
SetMode(m, mode, persist) ==
    Then(Command(m, InMode(m, mode)),
         LAMBDA n : IF persist THEN SavePar(n) ELSE {Result("ok", n)})

SetModeRestart(m, mode) ==
    Then(Then(SetMode(m, mode, TRUE), LAMBDA n : Reboot(n)),
         LAMBDA n : EnsureMode(n, mode, TRUE))

SetModeMemoryOnly(m, mode) ==
    Then(SetMode(m, mode, FALSE), LAMBDA n : EnsureMode(n, mode, FALSE))

-----------------------------------------------------------------------------
(* Steps: how one begins, ends and fails.                                  *)

\* A restore is given what backup.json has and finds the module calibrated; a
\* plan that only measures gets a snapshot without a configuration.
Init ==
    /\ plan \in Plans
    /\ \E cfg \in Earlier :
         /\ before = IF Restoring THEN [mode |-> "base", pos |-> "new", msgs |-> "rtcm"] ELSE cfg
         /\ backup \in IF Readonly THEN {NoParts} ELSE PartsOf(cfg)
    /\ Restoring => backup.mode # "none" /\ plan = RestorePlan(backup.pos)
    /\ module = [ram |-> before, nvm |-> before, faults |-> 0, lies |-> 0, losses |-> 0]
    /\ todo = Program(plan)
    /\ attempt = 1 /\ round = 1
    /\ touched = FALSE /\ saved = FALSE /\ memRestore = FALSE /\ modeAck = ""
    /\ cancel = FALSE /\ evicted = FALSE /\ raised = "none"
    /\ terminated = FALSE /\ verdict = "unknown" /\ record = "none" /\ report = ""

Stop == cancel \/ evicted
Running == raised = "none"
Over == todo = <<>>
ram == module.ram
nvm == module.nvm

\* The writer takes a step; if the step has a checkpoint it finds nothing.
At(step) ==
    /\ todo # <<>> /\ Head(todo) = step
    /\ (step \in Checked) => ~Stop
    /\ UNCHANGED <<runs, cancel, evicted>>

Continue == todo' = Tail(todo) /\ attempt' = 1 /\ UNCHANGED raised

\* Slip: a lost lease is not told from a cancel request.
WriteBackAnyway(kind) ==
    IF Readonly THEN <<"restoreMemory", "report">>
    ELSE IF saved' \/ ~touched' THEN <<"report">>
    ELSE Reverting

\* What run() does after a failure.  A plan that only measures restores the
\* mode; a lost lease, or a module already saved or not touched, is left alone;
\* otherwise what the backup has is written back.
Unwinding(kind) ==
    IF Readonly THEN <<"restoreMemory", "report">>
    ELSE IF kind = "evicted" \/ saved' \/ ~touched' THEN <<"report">>
    ELSE Reverting

Raise(kind) == raised' = kind /\ todo' = Unwinding(kind) /\ attempt' = 1
Fail == Raise("failed")

\* One more attempt of a step that has two.
Retry == IF attempt = 1 THEN attempt' = 2 /\ UNCHANGED <<todo, raised>> ELSE Fail

\* In its loop the wait for Survey-in takes a cancel request for the end of it.
TakesCancel == Head(todo) = "svinWait" /\ attempt = 2 /\ cancel

\* A base whose coordinate comes from a survey.
Surveying == ram.mode = "base" /\ Kind(ram.pos) = "survey_in"

Checkpoint ==
    /\ Running /\ ~Over /\ Stop /\ ~TakesCancel
    /\ Head(todo) \in Checked \/ (Head(todo) = "resume" /\ Surveying)
    /\ UNCHANGED <<runs, module, round, flags, cancel, evicted, told>>
    /\ Raise(IF cancel THEN "aborted" ELSE "evicted")
-----------------------------------------------------------------------------
(* Survey-in.                                                              *)

\* A survey the module has already finished is adopted as it stands.
Resume ==
    /\ At("resume")
    /\ \/ Surveying /\ ~Stop /\ todo' = <<"write">> \o Writing /\ UNCHANGED <<attempt, raised>>
       \/ Continue
    /\ UNCHANGED <<module, round, flags, told>>

\* The base mode must be in force before the survey is configured.
SvinBoot ==
    /\ At("svinBoot")
    /\ UNCHANGED <<round, flags, told>>
    /\ \E r \in Reboot(module) :
         module' = r.m /\ IF r.res = "ok" THEN Continue ELSE Fail

\* Slip: the driver's default persist=True is left in place.
WriteAndSave(pos) ==
    \E r \in Then(Command(module, [ram EXCEPT !.pos = pos]), LAMBDA n : SavePar(n)) :
      IF r.res # "ok"
      THEN /\ module' = r.m /\ UNCHANGED <<touched, saved>>
           /\ IF r.res = "timeout" THEN Retry ELSE Fail
      ELSE /\ module' = r.m /\ touched' = TRUE /\ UNCHANGED saved
           /\ IF r.m.ram.pos = pos THEN Continue ELSE Retry

\* One of two attempts to send a coordinate configuration and to read it back;
\* a command without an answer is sent once more, and is not counted as sent.
WriteAndCheck(pos) ==
    \E r \in Command(module, [ram EXCEPT !.pos = pos]) :
      IF r.res # "ok"
      THEN /\ module' = r.m /\ UNCHANGED <<touched, saved>>
           /\ IF r.res = "timeout" THEN Retry ELSE Fail
      ELSE \E q \in Query(r.m) :
             /\ module' = q.m /\ touched' = TRUE /\ UNCHANGED saved
             /\ IF q.res = "ok" /\ q.m.ram.pos = pos THEN Continue ELSE Retry

SvinCfg ==
    /\ At("svinCfg")
    /\ WriteAndCheck("surveying")
    /\ UNCHANGED <<round, memRestore, modeAck, told>>

\* Without its status output the survey cannot be followed.
SvinStatus ==
    /\ At("svinStatus")
    /\ UNCHANGED <<round, flags, told>>
    /\ \E q \in Query(module) :
         module' = q.m /\ IF q.res = "ok" THEN Continue ELSE Fail

SvinEnter ==
    /\ At("svinWait") /\ attempt = 1 /\ attempt' = 2
    /\ UNCHANGED <<todo, raised, module, round, flags, told>>

\* The module reports that it has converged.
SvinConverge ==
    /\ At("svinWait") /\ attempt = 2
    /\ Surveying
    /\ Continue
    /\ UNCHANGED <<module, round, flags, told>>

\* The link is lost, or the time for the survey is over.
SvinGiveUp ==
    /\ At("svinWait") /\ attempt = 2
    /\ UNCHANGED <<module, round, flags, told>>
    /\ Fail

\* Slip: a cancel request waits for a first mean.
SvinTerminateWithMean ==
    /\ Running /\ ~Over /\ TakesCancel
    /\ Surveying
    /\ terminated' = TRUE
    /\ UNCHANGED <<runs, module, round, flags, cancel, evicted, verdict, record, report>>
    /\ Continue

\* The user ends the wait: the mean so far is adopted, if there is one.
SvinTerminate ==
    /\ Running /\ ~Over /\ TakesCancel
    /\ terminated' = TRUE
    /\ UNCHANGED <<runs, module, round, flags, cancel, evicted, verdict, record, report>>
    /\ Continue \/ Fail

-----------------------------------------------------------------------------
(* Measuring with CORS corrections.                                        *)

RoverRestart(m) ==
    \E r \in SetModeRestart(m, "rover") :
      IF r.res # "ok" THEN module' = r.m /\ UNCHANGED touched /\ Fail
      ELSE \E c \in CheckMode(r.m, "rover") :
             module' = c.m /\ touched' = TRUE /\ (IF c.res = "ok" THEN Continue ELSE Fail)

\* A base is made a rover, in memory only if the plan only measures.  A module
\* that can only be a base is refused.
Rover ==
    /\ At("rover")
    /\ UNCHANGED <<round, saved, modeAck, told>>
    /\ \/ ~Readonly /\ UNCHANGED <<module, touched, memRestore>> /\ Fail
       \/ \E q \in Query(module) :
            \/ /\ q.res # "ok" \/ q.m.ram.mode = "rover"
               /\ module' = q.m /\ UNCHANGED <<touched, memRestore>>
               /\ IF q.res = "ok" \/ Readonly THEN Continue ELSE Fail
            \/ /\ q.res = "ok" /\ q.m.ram.mode = "base" /\ Readonly
               /\ \E r \in SetModeMemoryOnly(q.m, "rover") :
                    /\ module' = r.m /\ UNCHANGED touched
                    /\ memRestore' = (r.res = "ok")
                    /\ IF r.res = "ok" THEN Continue ELSE Fail
            \/ /\ q.res = "ok" /\ q.m.ram.mode = "base" /\ ~Readonly
               /\ UNCHANGED memRestore
               /\ RoverRestart(q.m)

\* The output of GGA is switched on, unless a plan that only measures finds it
\* on already; then the engine need not be restarted.  Neither this nor the
\* restart counts as touching the module.
Nmea ==
    /\ At("nmea")
    /\ UNCHANGED <<round, flags, told>>
    /\ \E q \in Query(module) :
         IF Readonly /\ q.res = "ok" /\ ram.msgs \in {"gga", "measure"}
         THEN /\ module' = q.m
              /\ todo' = Observing \o Concluding /\ UNCHANGED <<attempt, raised>>
         ELSE \E r \in Command(q.m, [ram EXCEPT !.msgs = "measure"]) :
                module' = r.m /\ IF r.res = "ok" THEN Continue ELSE Fail

\* SAVEPAR and the restart may both fail; the port is opened anew, the mode read
\* back, and the rate of GGA measured.
Reinit ==
    /\ At("reinit")
    /\ UNCHANGED <<round, flags, told>>
    /\ \E s \in SavePar(module) : \E b \in Reboot(s.m) : \E q \in Query(b.m) :
         /\ module' = q.m
         /\ IF q.res = "ok" /\ q.m.ram.mode = "rover" /\ q.m.ram.msgs \in {"gga", "measure"}
            THEN Continue ELSE Fail

\* Waiting for a position, and the connection to the caster, end either way.
MayFail(step) ==
    /\ At(step)
    /\ UNCHANGED <<module, round, flags, told>>
    /\ Continue \/ Fail

Gga == MayFail("gga")
Collect == MayFail("collect")

\* After connecting, the mode is read again; a failure to read it is forgiven.
Connect ==
    /\ At("connect")
    /\ UNCHANGED <<round, flags, told>>
    /\ \/ UNCHANGED module /\ Fail
       \/ \E q \in Query(module) :
            module' = q.m /\ IF q.res = "ok" /\ q.m.ram.mode # "rover" THEN Fail ELSE Continue

\* At the end of measuring, whatever ended it, a mode switched in memory is
\* switched back.
RestoreMemory ==
    /\ At("restoreMemory")
    /\ UNCHANGED <<round, touched, saved, modeAck, told>>
    /\ memRestore' = FALSE
    /\ IF memRestore THEN \E r \in SetModeMemoryOnly(module, before.mode) : module' = r.m
       ELSE UNCHANGED module
    /\ Continue

-----------------------------------------------------------------------------
(* Writing.                                                                *)

WriteCoord ==
    /\ At("write")
    /\ WriteAndCheck(TargetPos)
    /\ UNCHANGED <<round, memRestore, modeAck, told>>

\* The configuration of Survey-in is restored like a coordinate; switching it
\* off is not read back.
ConfigSvin ==
    /\ At("configSvin")
    /\ UNCHANGED <<round, memRestore, modeAck, told>>
    /\ \/ plan = "restoreSurvey" /\ WriteAndCheck(TargetPos)
       \/ /\ plan = "restoreDisabled" /\ UNCHANGED saved
          /\ \E r \in Command(module, [ram EXCEPT !.pos = TargetPos]) :
               /\ module' = r.m
               /\ touched' = (touched \/ r.res = "ok")
               /\ IF r.res = "ok" THEN Continue ELSE Fail

\* A mode command without an answer is confirmed after the restart.
Switch ==
    /\ At("switch")
    /\ UNCHANGED <<round, saved, memRestore, told>>
    /\ \E r \in SetMode(module, TargetMode, plan = "survey") :
         /\ module' = r.m
         /\ touched' = (touched \/ r.res = "ok")
         /\ modeAck' = CASE r.res = "ok" -> "ack" [] r.res = "timeout" -> "deferred"
                         [] OTHER -> modeAck
         /\ IF r.res = "error" THEN Fail ELSE Continue

\* The messages of a base, read back; a plan may keep the module's own.  A
\* restore replays the messages the backup has and never fails.
SetupMessages ==
    /\ At("messages")
    /\ UNCHANGED <<round, saved, memRestore, modeAck, told>>
    /\ \/ Restoring /\ backup.msgs = "none" /\ UNCHANGED <<module, touched>> /\ Continue
       \/ Restoring /\ backup.msgs # "none" /\ \E r \in Command(module, [ram EXCEPT !.msgs = backup.msgs]) :
            /\ module' = r.m /\ touched' = (touched \/ r.res = "ok")
            /\ Continue
       \/ ~Restoring /\ UNCHANGED <<module, touched>> /\ Continue
       \/ ~Restoring /\ \E r \in Command(module, [ram EXCEPT !.msgs = "rtcm"]) :
            \E q \in Query(r.m) :
              /\ module' = q.m /\ touched' = (touched \/ r.res = "ok")
              /\ IF r.res = "ok" /\ q.res = "ok" /\ q.m.ram.msgs = "rtcm" THEN Continue ELSE Fail

\* SAVEPAR, then the coordinate is read back: from here on the configuration is
\* taken for saved, whatever the reading shows.
Save ==
    /\ At("save")
    /\ UNCHANGED <<round, touched, memRestore, modeAck, told>>
    /\ \E r \in SavePar(module) : \E q \in Query(r.m) :
         IF r.res # "ok" THEN module' = r.m /\ UNCHANGED saved /\ Fail
         ELSE /\ module' = q.m /\ saved' = TRUE
              /\ IF q.res = "ok" /\ (Fixed => q.m.ram.pos = TargetPos) THEN Continue ELSE Fail

Restart ==
    /\ At("restart")
    /\ UNCHANGED <<round, flags, told>>
    /\ \E r \in Reboot(module) :
         module' = r.m /\ IF r.res = "ok" THEN Continue ELSE Fail

\* Slip: the mode is not compared.
VerifyCoordinateOnly ==
    /\ At("verifyMode")
    /\ UNCHANGED <<round, flags, told>>
    /\ \E q \in Then(Query(module), LAMBDA n : Query(n)) :
         /\ module' = q.m
         /\ IF q.res = "ok" /\ (plan # "restoreDisabled" => Alike(q.m.ram.pos, TargetPos))
            THEN Continue ELSE Fail

\* What the module read back from its NVM: its mode, and the coordinate (of a
\* Survey-in that it is one) unless that was switched off.
VerifyMode ==
    /\ At("verifyMode")
    /\ UNCHANGED <<round, flags, told>>
    /\ \E q \in Then(Query(module), LAMBDA n : Query(n)) :
         /\ module' = q.m
         /\ IF /\ q.res = "ok" /\ q.m.ram.mode = TargetMode
               /\ plan # "restoreDisabled" => Alike(q.m.ram.pos, TargetPos)
            THEN Continue ELSE Fail

\* The coordinate the module broadcasts, or "none".
Broadcast(m) == IF m.ram.mode = "base" /\ m.ram.msgs = "rtcm" THEN m.ram.pos ELSE "none"

\* A broadcast that is missing or differs sends everything once more.
VerifyRtcm ==
    /\ At("verifyRtcm")
    /\ UNCHANGED <<flags, terminated, record, report>>
    /\ \/ /\ Restoring /\ ~(Fixed /\ TargetMode = "base")
          /\ verdict' = "skipped" /\ UNCHANGED <<module, round>>
          /\ Continue
       \/ /\ Restoring => Fixed /\ TargetMode = "base"
          /\ \E q \in Query(module) :
               /\ module' = q.m
               /\ IF q.res = "ok" /\ Broadcast(q.m) = TargetPos
                  THEN verdict' \in {"match", "warning"} /\ UNCHANGED round /\ Continue
                  ELSE /\ verdict' = "unknown" /\ round' = 2
                       /\ IF round = 1
                          THEN todo' = Retrying \o Tail(todo) /\ UNCHANGED <<attempt, raised>>
                          ELSE Fail

\* The second round sends the coordinate again, and goes on without an answer.
Rewrite ==
    /\ At("rewrite")
    /\ UNCHANGED <<round, saved, memRestore, modeAck, told>>
    /\ \E r \in Command(module, [ram EXCEPT !.pos = TargetPos]) :
         /\ module' = r.m
         /\ IF r.res = "error" THEN UNCHANGED touched /\ Fail ELSE touched' = TRUE /\ Continue

\* The record of a run, unless it restored; storing it may fail.
Inject ==
    /\ At("inject")
    /\ UNCHANGED <<module, round, flags, terminated, report>>
    /\ verdict' = IF Readonly THEN "skipped" ELSE verdict
    /\ record' \in IF Restoring THEN {"none"} ELSE {"unsaved", verdict'}
    /\ Continue

-----------------------------------------------------------------------------
(* What is left to do after a failure, and the report.                     *)

\* A command of _revert: whether it succeeds is only noted, but an exception
\* ends the write-back.
RevertBy(results) ==
    /\ UNCHANGED <<round, flags, terminated, verdict, record, attempt, raised>>
    /\ \E r \in results :
         /\ module' = r.m
         /\ \/ todo' = Tail(todo) /\ UNCHANGED report
            \/ r.res = "error" /\ todo' = <<>> /\ report' = "unknown"

\* What the backup does not have is left as it is.
Unless(missing, results) == IF missing THEN {Result("ok", module)} ELSE results

RevertPos ==
    /\ At("revertPos")
    /\ RevertBy(Unless(backup.pos = "none", Command(module, [ram EXCEPT !.pos = backup.pos])))

\* Slip: the mode is set in memory only, like the coordinate.
RevertModeInMemory ==
    /\ At("revertMode")
    /\ RevertBy(Unless(backup.mode = "none", SetMode(module, backup.mode, FALSE)))

\* This one saves: rover may be in the NVM since the run made the module a rover.
RevertMode ==
    /\ At("revertMode")
    /\ RevertBy(Unless(backup.mode = "none", SetMode(module, backup.mode, TRUE)))

RevertRates ==
    /\ At("revertRates")
    /\ RevertBy(Unless(backup.msgs = "none", Command(module, [ram EXCEPT !.msgs = backup.msgs])))

\* What is in memory is compared with what the backup has.
RevertCheck ==
    /\ At("revertCheck")
    /\ UNCHANGED <<round, flags, terminated, verdict, record>>
    /\ \E q \in Then(Query(module), LAMBDA n : Query(n)) :
         /\ module' = q.m
         /\ report' = IF /\ q.res = "ok" /\ backup.mode \in {q.m.ram.mode, "none"}
                         /\ backup.pos = "none" \/ Alike(q.m.ram.pos, backup.pos)
                      THEN "reverted" ELSE "unknown"
    /\ Continue

\* nvm_state when nothing was written back.
Report ==
    /\ At("report")
    /\ report' = CASE raised = "evicted" -> ""
                   [] raised # "evicted" /\ Readonly -> "not_written"
                   [] raised # "evicted" /\ ~Readonly /\ saved -> "saved"
                   [] raised # "evicted" /\ ~Readonly /\ ~saved /\ touched -> "unknown"
                   [] OTHER -> "not_written"
    /\ UNCHANGED <<module, round, flags, terminated, verdict, record>>
    /\ Continue

-----------------------------------------------------------------------------
(* The user, the watchdog of the lease, and the module's power.            *)

UserCancel ==
    /\ Running /\ ~Over /\ ~cancel /\ cancel' = TRUE
    /\ UNCHANGED <<runs, module, todo, attempt, round, flags, evicted, raised, told>>

Evict ==
    /\ ~Over /\ ~evicted /\ evicted' = TRUE
    /\ UNCHANGED <<runs, module, todo, attempt, round, flags, cancel, raised, told>>

PowerLoss ==
    /\ ~Over /\ module.losses < MaxLosses
    /\ module' = [module EXCEPT !.ram = nvm, !.losses = @ + 1]
    /\ UNCHANGED <<runs, todo, attempt, round, flags, cancel, evicted, raised, told>>

\* What the writer does whatever the module and the network do; the end of
\* Survey-in and of the collection is up to them.
Working ==
    \/ Checkpoint \/ SvinTerminate
    \/ Resume \/ Switch \/ SvinBoot \/ SvinCfg \/ SvinStatus \/ SvinEnter
    \/ Rover \/ Nmea \/ Reinit \/ Gga \/ Connect \/ RestoreMemory
    \/ WriteCoord \/ ConfigSvin \/ SetupMessages \/ Save \/ Restart
    \/ VerifyMode \/ VerifyRtcm \/ Rewrite \/ Inject
    \/ RevertPos \/ RevertMode \/ RevertRates \/ RevertCheck \/ Report

Next == Working \/ SvinConverge \/ SvinGiveUp \/ Collect \/ UserCancel \/ Evict \/ PowerLoss

vars == <<runs, module, todo, attempt, round, flags, cancel, evicted, raised, told>>

Spec == Init /\ [][Next]_vars /\ WF_vars(Working)

-----------------------------------------------------------------------------
(* Properties.                                                             *)

Steps == RunSteps \cup RevertSteps

\* Every variable has its type.
TypeOK ==
    /\ plan \in Plans
    /\ backup \in Backups /\ before \in Configs
    /\ Restoring => backup.mode # "none"
    /\ module \in Modules
    /\ todo \in Seq(Steps) /\ attempt \in 1..2 /\ round \in 1..2
    /\ touched \in BOOLEAN /\ saved \in BOOLEAN /\ memRestore \in BOOLEAN
    /\ modeAck \in {"", "ack", "deferred"}
    /\ cancel \in BOOLEAN /\ evicted \in BOOLEAN /\ terminated \in BOOLEAN
    /\ raised \in {"none", "failed", "aborted", "evicted"}
    /\ verdict \in {"unknown", "match", "warning", "skipped"}
    /\ record \in {"none", "unsaved", "unknown", "match", "warning", "skipped"}
    /\ report \in {"", "not_written", "saved", "reverted", "unknown"}

\* What a run that ends well says is true, though one command may have been
\* acknowledged without effect and the power may have been lost at any time.  One
\* that writes leaves its mode and its coordinate in the module's NVM: SAVEPAR, the
\* restart, the reading back and the listening for 1005 leave no such loss
\* undetected.  (A restore that switches the coordinate off reads nothing back.)
\* A verified record is of a coordinate the module keeps and broadcasts, also
\* after a second round.  One that only measures has written no coordinate, and ends
\* in the mode it found unless a command failed or the power was lost.
SuccessIsTrue ==
    /\ Over /\ Running /\ ~Readonly /\ module.lies <= 1 =>
         /\ nvm.mode = TargetMode
         /\ plan # "restoreDisabled" => nvm.pos = TargetPos
    /\ record \in {"match", "warning"} /\ module.lies <= 1 =>
         nvm.pos = TargetPos /\ nvm.mode = "base"
    /\ Readonly =>
         /\ ram.pos = before.pos /\ nvm.pos = before.pos
         /\ Over /\ module.faults = 0 /\ module.lies = 0 /\ module.losses = 0
              => ram.mode = before.mode

\* Of a plan that does not measure, the report not_written is true: until the
\* module is known to be touched its NVM is as it was.
NotWrittenKeepsNvm ==
    plan \in {"manual"} \cup Restores /\ ~touched =>
        nvm.mode = before.mode /\ nvm.pos = before.pos

\* After the report reverted the module works with the mode and the coordinate of
\* a backup that has both (of a Survey-in or of none, with that), whichever of the
\* commands of _revert failed; so it does after its next restart, unless a command
\* failed or had no effect.  A plan that saves nothing before its end bears one of
\* them: the NVM was not changed, or is put right by the saving of the mode.
RevertedIsRestored ==
    report = "reverted" /\ backup.mode # "none" /\ backup.pos # "none" =>
        /\ ram.mode = backup.mode /\ Alike(ram.pos, backup.pos)
        /\ module.faults + module.lies <= (IF plan = "manual" THEN 1 ELSE 0) =>
             nvm.mode = backup.mode /\ Alike(nvm.pos, backup.pos)

\* Once the run has ended because the lease is gone it sends nothing that
\* changes the module; only a loss of power does.  (A plan that only measures
\* switches the mode back all the same.)
EvictedHandsOff ==
    [][raised = "evicted" /\ ~Readonly /\ module'.losses = module.losses =>
         module' = module]_vars

\* A cancel request ends the run, in whatever step and however often its steps
\* are repeated.
CancelEnds == cancel ~> Over

\* What the wait for Survey-in promises: ended by the user, the run goes on to
\* write the mean it has.
TerminatedIsWritten == [][raised = "none" /\ raised' = "aborted" => ~terminated]_vars
=============================================================================
