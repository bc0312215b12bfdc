----------------------- MODULE CalibrationWriter_proofs -----------------------
(***************************************************************************)
(* Proofs about CalibrationWriter, for every set of plans and every bound  *)
(* on faults, lies and losses of power.                                    *)
(***************************************************************************)
EXTENDS CalibrationWriter, TLAPS

Results == [res : {"ok", "error", "timeout"}, m : Modules]

\* The commands of S left the NVM as it was in m.
Quiet(S, m) == \A r \in S : r.m.nvm = m.nvm

-----------------------------------------------------------------------------
(* What the commands of the driver return.                                 *)

\* A command returns a result, and does not change the NVM.
LEMMA CommandResult ==
    ASSUME NEW m \in Modules, NEW cfg \in Configs
    PROVE  Command(m, cfg) \subseteq Results /\ Quiet(Command(m, cfg), m)
  <1>1. \A r \in Command(m, cfg) : r \in Results /\ r.m.nvm = m.nvm
    BY BoundsAssumption DEF Command, Lying, Faulty, Result, Results, Modules
  <1> QED
    BY <1>1 DEF Quiet

\* So does SAVEPAR, which may change the NVM.
LEMMA SaveResult == \A m \in Modules : SavePar(m) \subseteq Results
  BY BoundsAssumption DEF SavePar, Lying, Faulty, Result, Results, Modules

\* And a restart.
LEMMA RebootResult == \A m \in Modules : Reboot(m) \subseteq Results /\ Quiet(Reboot(m), m)
  <1> TAKE m \in Modules
  <1>1. \A r \in Reboot(m) : r \in Results /\ r.m.nvm = m.nvm
    BY BoundsAssumption DEF Reboot, Lying, Faulty, Result, Results, Modules
  <1> QED
    BY <1>1 DEF Quiet

\* A query returns a result and changes nothing but the count of faults.
LEMMA QueryResult ==
    \A m \in Modules : \A r \in Query(m) :
       r \in Results /\ r.m.nvm = m.nvm /\ r.m.ram = m.ram
  BY BoundsAssumption DEF Query, Lying, Faulty, Result, Results, Modules

\* Only the mode of a configuration is changed.
LEMMA InModeConfig == \A m \in Modules, mode \in Modes : InMode(m, mode) \in Configs
  BY DEF InMode, Modules, Configs, Modes

\* The driver's comparison of the mode.
LEMMA CheckModeResult ==
    ASSUME NEW m \in Modules, NEW mode \in Modes
    PROVE  \A r \in CheckMode(m, mode) : r \in Results /\ r.m.nvm = m.nvm
  <1>1. \A r \in Results : r.m \in Modules
    BY DEF Results
  <1> QED
    BY QueryResult, <1>1 DEF CheckMode, Then, Results, Result

\* Setting the mode.
LEMMA SetModeResult ==
    ASSUME NEW m \in Modules, NEW mode \in Modes, NEW persist \in BOOLEAN
    PROVE  \A r \in SetMode(m, mode, persist) :
             r \in Results /\ (~persist => r.m.nvm = m.nvm)
  <1>1. InMode(m, mode) \in Configs
    BY InModeConfig
  <1>2. \A r \in Command(m, InMode(m, mode)) : r \in Results /\ r.m \in Modules /\ r.m.nvm = m.nvm
    BY <1>1, CommandResult DEF Quiet, Results
  <1>3. CASE persist
    BY <1>2, <1>3, SaveResult DEF SetMode, Then
  <1>4. CASE ~persist
    BY <1>2, <1>4 DEF SetMode, Then, Result, Results
  <1> QED
    BY <1>3, <1>4

\* Making sure of a mode, with one more try.
LEMMA EnsureModeResult ==
    ASSUME NEW m \in Modules, NEW mode \in Modes, NEW persist \in BOOLEAN
    PROVE  \A r \in EnsureMode(m, mode, persist) : r \in Results
  <1> DEFINE Again(n) == Then(Command(n, InMode(n, mode)),
                              LAMBDA k : IF persist THEN SavePar(k) ELSE {Result("ok", k)})
  <1>1. \A r \in Results : r.m \in Modules
    BY DEF Results
  <1>2. \A n \in Modules : \A r \in Again(n) : r \in Results
    <2> TAKE n \in Modules
    <2>1. \A r \in Command(n, InMode(n, mode)) : r \in Results /\ r.m \in Modules
      BY <1>1, InModeConfig, CommandResult
    <2> QED
      BY <2>1, SaveResult DEF Then, Result, Results
  <1>3. \A n \in Modules : \A r \in CheckMode(n, mode) : r \in Results /\ r.m \in Modules
    BY <1>1, CheckModeResult
  <1>4. \A n \in Modules : \A r \in Then(Again(n), LAMBDA k : CheckMode(k, mode)) : r \in Results
    BY <1>1, <1>2, <1>3 DEF Then
  <1> QED
    BY <1>3, <1>4 DEF EnsureMode

\* Setting the mode with a restart, and in memory only.
LEMMA SetModeRestartResult ==
    ASSUME NEW m \in Modules, NEW mode \in Modes
    PROVE  \A r \in SetModeRestart(m, mode) : r \in Results
  <1> DEFINE Booted == Then(SetMode(m, mode, TRUE), LAMBDA n : Reboot(n))
  <1>1. \A r \in Results : r.m \in Modules
    BY DEF Results
  <1>2. \A r \in Booted : r \in Results
    BY <1>1, SetModeResult, RebootResult DEF Then
  <1> QED
    BY <1>1, <1>2, EnsureModeResult DEF SetModeRestart, Then

\* A switch in memory only gives a result.
LEMMA SetModeMemoryOnlyResult ==
    ASSUME NEW m \in Modules, NEW mode \in Modes
    PROVE  \A r \in SetModeMemoryOnly(m, mode) : r \in Results
  <1>1. \A r \in Results : r.m \in Modules
    BY DEF Results
  <1>2. \A r \in SetMode(m, mode, FALSE) : r \in Results
    BY SetModeResult
  <1>3. \A n \in Modules : \A r \in EnsureMode(n, mode, FALSE) : r \in Results
    BY EnsureModeResult
  <1> QED
    BY <1>1, <1>2, <1>3 DEF SetModeMemoryOnly, Then

\* Two queries in a row.
LEMMA TwoQueries ==
    \A m \in Modules : \A r \in Then(Query(m), LAMBDA n : Query(n)) :
       r \in Results /\ r.m.nvm = m.nvm
  <1>1. \A r \in Results : r.m \in Modules
    BY DEF Results
  <1> QED
    BY <1>1, QueryResult DEF Then

-----------------------------------------------------------------------------
(* Type correctness.                                                       *)

\* The programs are sequences of steps.
LEMMA ProgramSteps ==
    /\ \A p \in AllPlans : Program(p) \in Seq(RunSteps)
    /\ Writing \in Seq(RunSteps) /\ Retrying \in Seq(RunSteps)
    /\ Reverting \in Seq(RevertSteps)
    /\ <<"report">> \in Seq(RunSteps) /\ <<"restoreMemory", "report">> \in Seq(RunSteps)
    /\ <<"write">> \o Writing \in Seq(RunSteps) /\ Observing \o Concluding \in Seq(RunSteps)
    /\ \A s \in Seq(RunSteps) : Retrying \o s \in Seq(RunSteps)
  <1>1. /\ Writing \in Seq(RunSteps) /\ Retrying \in Seq(RunSteps) /\ Observing \in Seq(RunSteps)
        /\ Concluding \in Seq(RunSteps) /\ Measuring \in Seq(RunSteps)
        /\ Reverting \in Seq(RevertSteps)
        /\ <<"report">> \in Seq(RunSteps) /\ <<"restoreMemory", "report">> \in Seq(RunSteps)
    BY DEF Writing, Reverting, Retrying, Observing, Measuring, Concluding, RunSteps,
       RevertSteps, Checked
  <1>2. \A s, t \in Seq(RunSteps) : s \o t \in Seq(RunSteps)
    OBVIOUS
  <1>3. /\ <<"resume", "switch", "svinBoot", "svinCfg", "svinStatus", "svinWait", "write">>
             \in Seq(RunSteps)
        /\ <<"write", "switch">> \in Seq(RunSteps) /\ <<"configSvin", "switch">> \in Seq(RunSteps)
        /\ <<"write">> \in Seq(RunSteps)
    BY DEF RunSteps, Checked
  <1> QED
    BY <1>1, <1>2, <1>3 DEF Program, AllPlans

\* A sequence of steps of a smaller set is one of a larger set.
LEMMA MoreSteps == \A S, T : S \subseteq T => Seq(S) \subseteq Seq(T)
  OBVIOUS

\* What is left after a failure is a sequence of steps.
LEMMA UnwindingSteps == \A kind : Unwinding(kind) \in Seq(Steps)
  <1>1. RunSteps \subseteq Steps /\ RevertSteps \subseteq Steps
    BY DEF Steps
  <1> QED
    BY <1>1, ProgramSteps, MoreSteps DEF Unwinding

\* What is left of a sequence of steps is one.
LEMMA TailSteps == \A S : \A s \in Seq(S) : s # <<>> => Tail(s) \in Seq(S)
  OBVIOUS

\* The next step is one of them.
LEMMA HeadSteps == \A S : \A s \in Seq(S) : s # <<>> => Head(s) \in S
  OBVIOUS

\* However a step ends, its successor is well typed.
LEMMA Flow ==
    ASSUME TypeOK, todo # <<>>, backup' = backup,
           \/ Continue \/ Retry \/ Raise("failed") \/ Raise("aborted") \/ Raise("evicted")
    PROVE  /\ todo' \in Seq(Steps)' /\ attempt' \in 1..2
           /\ raised' \in {"none", "failed", "aborted", "evicted"}
  <1>1. Seq(Steps)' = Seq(Steps)
    BY DEF Steps
  <1>2. Tail(todo) \in Seq(Steps)
    BY TailSteps DEF TypeOK
  <1>3. /\ todo \in Seq(Steps) /\ attempt \in 1..2
        /\ raised \in {"none", "failed", "aborted", "evicted"}
    BY DEF TypeOK
  <1>4. CASE Continue
    BY <1>1, <1>2, <1>3, <1>4 DEF Continue
  <1>5. ASSUME NEW kind \in {"failed", "aborted", "evicted"}, Raise(kind)
        PROVE  /\ todo' \in Seq(Steps) /\ attempt' \in 1..2 /\ raised' = kind
    BY <1>5, UnwindingSteps DEF Raise
  <1>6. CASE Retry
    BY <1>1, <1>3, <1>5, <1>6 DEF Retry, Fail
  <1> QED
    BY <1>1, <1>4, <1>5, <1>6

-----------------------------------------------------------------------------
(* Type correctness of the steps.                                          *)

\* The part of TypeOK that concerns neither the module nor the steps.
FlagType ==
    /\ round \in 1..2
    /\ touched \in BOOLEAN /\ saved \in BOOLEAN /\ memRestore \in BOOLEAN
    /\ modeAck \in {"", "ack", "deferred"}
    /\ cancel \in BOOLEAN /\ evicted \in BOOLEAN /\ terminated \in BOOLEAN
    /\ verdict \in {"unknown", "match", "warning", "skipped"}
    /\ record \in {"none", "unsaved", "unknown", "match", "warning", "skipped"}
    /\ report \in {"", "not_written", "saved", "reverted", "unknown"}

\* A step that ends in one of the usual ways and keeps the types of the module
\* and of the flags keeps all types.
LEMMA TypeStep ==
    ASSUME TypeOK, todo # <<>>, UNCHANGED runs, module' \in Modules, FlagType',
           \/ Continue \/ Retry \/ Raise("failed") \/ Raise("aborted") \/ Raise("evicted")
    PROVE  TypeOK'
  <1>1. /\ todo' \in Seq(Steps)' /\ attempt' \in 1..2
        /\ raised' \in {"none", "failed", "aborted", "evicted"}
    BY Flow DEF runs
  <1>2. /\ plan' \in Plans /\ before' \in Configs
        /\ backup' \in Backups /\ (Restoring => backup.mode # "none")'
    BY DEF TypeOK, runs, Restoring
  <1> QED
    BY <1>1, <1>2 DEF TypeOK, FlagType

\* What the steps aim at is well typed.
LEMMA Targets ==
    ASSUME TypeOK
    PROVE  /\ TargetPos \in Positions /\ TargetMode \in Modes
           /\ module \in Modules /\ before.mode \in Modes
           /\ Restoring /\ backup.msgs # "none" => backup.msgs \in Messages
           /\ \A pos \in Positions : [ram EXCEPT !.pos = pos] \in Configs
           /\ \A msgs \in Messages : [ram EXCEPT !.msgs = msgs] \in Configs
  <1>1. /\ backup \in Backups /\ (Restoring => backup.mode # "none") /\ before \in Configs
        /\ module \in Modules
    BY DEF TypeOK
  <1>2. backup.mode \in Modes \cup {"none"} /\ backup.msgs \in Messages \cup {"none"}
    BY <1>1 DEF Backups
  <1>3. TargetPos \in Positions
    BY DEF TargetPos, Positions
  <1>4. TargetMode \in Modes
    BY <1>1, <1>2 DEF TargetMode, Modes
  <1>5. module.ram \in Configs
    BY <1>1 DEF Modules
  <1>6. /\ \A pos \in Positions : [ram EXCEPT !.pos = pos] \in Configs
        /\ \A msgs \in Messages : [ram EXCEPT !.msgs = msgs] \in Configs
    BY <1>5 DEF ram, Configs
  <1> QED
    BY <1>1, <1>2, <1>3, <1>4, <1>6 DEF Configs

\* The module of a result.
LEMMA ResultModule == \A r \in Results : r.m \in Modules
  BY DEF Results

\* The flags as they were.
LEMMA SameFlags == TypeOK /\ UNCHANGED <<round, flags, cancel, evicted, told>> => FlagType'
  <1> SUFFICES ASSUME TypeOK, UNCHANGED <<round, flags, cancel, evicted, told>> PROVE FlagType'
    OBVIOUS
  <1>1. /\ touched' \in BOOLEAN /\ saved' \in BOOLEAN /\ memRestore' \in BOOLEAN
        /\ cancel' \in BOOLEAN /\ evicted' \in BOOLEAN /\ terminated' \in BOOLEAN
    BY Zenon DEF TypeOK, flags, told
  <1> QED
    BY <1>1 DEF TypeOK, FlagType, flags, told

\* A step that sets the remaining steps itself keeps the types, too.
LEMMA TypeJump ==
    ASSUME TypeOK, UNCHANGED runs, module' \in Modules, FlagType',
           todo' \in Seq(Steps), attempt' \in 1..2, UNCHANGED raised
    PROVE  TypeOK'
  <1>1. Seq(Steps)' = Seq(Steps)
    BY DEF Steps, runs
  <1>2. /\ plan' \in Plans /\ before' \in Configs
        /\ backup' \in Backups /\ (Restoring => backup.mode # "none")'
    BY DEF TypeOK, runs, Restoring
  <1> QED
    BY <1>1, <1>2 DEF TypeOK, FlagType

\* The restart before the survey keeps the types.
LEMMA TypeSvinBoot == TypeOK /\ SvinBoot => TypeOK'
  <1> SUFFICES ASSUME TypeOK, SvinBoot PROVE TypeOK'
    OBVIOUS
  <1>1. todo # <<>> /\ UNCHANGED <<runs, cancel, evicted>>
    BY DEF SvinBoot, At
  <1>2. Continue \/ Retry \/ Raise("failed")
    BY DEF SvinBoot, Fail
  <1>3. module' \in Modules
    BY Targets, ResultModule, RebootResult DEF SvinBoot
  <1>4. FlagType'
    BY <1>1, SameFlags DEF SvinBoot
  <1> QED
    BY <1>1, <1>2, <1>3, <1>4, TypeStep

\* Switching the status output on keeps the types.
LEMMA TypeSvinStatus == TypeOK /\ SvinStatus => TypeOK'
  <1> SUFFICES ASSUME TypeOK, SvinStatus PROVE TypeOK'
    OBVIOUS
  <1>1. todo # <<>> /\ UNCHANGED <<runs, cancel, evicted>>
    BY DEF SvinStatus, At
  <1>2. Continue \/ Retry \/ Raise("failed")
    BY DEF SvinStatus, Fail
  <1>3. module' \in Modules
    BY Targets, ResultModule, QueryResult DEF SvinStatus
  <1>4. FlagType'
    BY <1>1, SameFlags DEF SvinStatus
  <1> QED
    BY <1>1, <1>2, <1>3, <1>4, TypeStep

\* The end of the survey keeps the types.
LEMMA TypeSvinConverge == TypeOK /\ SvinConverge => TypeOK'
  <1> SUFFICES ASSUME TypeOK, SvinConverge PROVE TypeOK'
    OBVIOUS
  <1>1. todo # <<>> /\ UNCHANGED <<runs, cancel, evicted>>
    BY DEF SvinConverge, At
  <1>2. Continue \/ Retry \/ Raise("failed")
    BY DEF SvinConverge, Fail
  <1>3. module' \in Modules
    BY Targets DEF SvinConverge
  <1>4. FlagType'
    BY <1>1, SameFlags DEF SvinConverge
  <1> QED
    BY <1>1, <1>2, <1>3, <1>4, TypeStep

\* The failure of the survey keeps the types.
LEMMA TypeSvinGiveUp == TypeOK /\ SvinGiveUp => TypeOK'
  <1> SUFFICES ASSUME TypeOK, SvinGiveUp PROVE TypeOK'
    OBVIOUS
  <1>1. todo # <<>> /\ UNCHANGED <<runs, cancel, evicted>>
    BY DEF SvinGiveUp, At
  <1>2. Continue \/ Retry \/ Raise("failed")
    BY DEF SvinGiveUp, Fail
  <1>3. module' \in Modules
    BY Targets DEF SvinGiveUp
  <1>4. FlagType'
    BY <1>1, SameFlags DEF SvinGiveUp
  <1> QED
    BY <1>1, <1>2, <1>3, <1>4, TypeStep

\* The wait for a position keeps the types.
LEMMA TypeGga == TypeOK /\ Gga => TypeOK'
  <1> SUFFICES ASSUME TypeOK, Gga PROVE TypeOK'
    OBVIOUS
  <1>1. todo # <<>> /\ UNCHANGED <<runs, cancel, evicted>>
    BY DEF Gga, At, MayFail
  <1>2. Continue \/ Retry \/ Raise("failed")
    BY DEF Gga, MayFail, Fail
  <1>3. module' \in Modules
    BY Targets DEF Gga, MayFail
  <1>4. FlagType'
    BY <1>1, SameFlags DEF Gga, MayFail
  <1> QED
    BY <1>1, <1>2, <1>3, <1>4, TypeStep

\* The collection keeps the types.
LEMMA TypeCollect == TypeOK /\ Collect => TypeOK'
  <1> SUFFICES ASSUME TypeOK, Collect PROVE TypeOK'
    OBVIOUS
  <1>1. todo # <<>> /\ UNCHANGED <<runs, cancel, evicted>>
    BY DEF Collect, At, MayFail
  <1>2. Continue \/ Retry \/ Raise("failed")
    BY DEF Collect, MayFail, Fail
  <1>3. module' \in Modules
    BY Targets DEF Collect, MayFail
  <1>4. FlagType'
    BY <1>1, SameFlags DEF Collect, MayFail
  <1> QED
    BY <1>1, <1>2, <1>3, <1>4, TypeStep

\* The connection keeps the types.
LEMMA TypeConnect == TypeOK /\ Connect => TypeOK'
  <1> SUFFICES ASSUME TypeOK, Connect PROVE TypeOK'
    OBVIOUS
  <1>1. todo # <<>> /\ UNCHANGED <<runs, cancel, evicted>>
    BY DEF Connect, At
  <1>2. Continue \/ Retry \/ Raise("failed")
    BY DEF Connect, Fail
  <1>3. module' \in Modules
    BY Targets, ResultModule, QueryResult DEF Connect
  <1>4. FlagType'
    BY <1>1, SameFlags DEF Connect
  <1> QED
    BY <1>1, <1>2, <1>3, <1>4, TypeStep

\* The restart keeps the types.
LEMMA TypeRestart == TypeOK /\ Restart => TypeOK'
  <1> SUFFICES ASSUME TypeOK, Restart PROVE TypeOK'
    OBVIOUS
  <1>1. todo # <<>> /\ UNCHANGED <<runs, cancel, evicted>>
    BY DEF Restart, At
  <1>2. Continue \/ Retry \/ Raise("failed")
    BY DEF Restart, Fail
  <1>3. module' \in Modules
    BY Targets, ResultModule, RebootResult DEF Restart
  <1>4. FlagType'
    BY <1>1, SameFlags DEF Restart
  <1> QED
    BY <1>1, <1>2, <1>3, <1>4, TypeStep

\* Reading the mode back keeps the types.
LEMMA TypeVerifyMode == TypeOK /\ VerifyMode => TypeOK'
  <1> SUFFICES ASSUME TypeOK, VerifyMode PROVE TypeOK'
    OBVIOUS
  <1>1. todo # <<>> /\ UNCHANGED <<runs, cancel, evicted>>
    BY DEF VerifyMode, At
  <1>2. Continue \/ Retry \/ Raise("failed")
    BY DEF VerifyMode, Fail
  <1>3. module' \in Modules
    BY Targets, ResultModule, TwoQueries DEF VerifyMode
  <1>4. FlagType'
    BY <1>1, SameFlags DEF VerifyMode
  <1> QED
    BY <1>1, <1>2, <1>3, <1>4, TypeStep

\* The restart of the engine keeps the types.
LEMMA TypeReinit == TypeOK /\ Reinit => TypeOK'
  <1> SUFFICES ASSUME TypeOK, Reinit PROVE TypeOK'
    OBVIOUS
  <1>1. todo # <<>> /\ UNCHANGED <<runs, cancel, evicted>>
    BY DEF Reinit, At
  <1>2. Continue \/ Retry \/ Raise("failed")
    BY DEF Reinit, Fail
  <1>3. module' \in Modules
    <2>1. PICK s \in SavePar(module) : \E b \in Reboot(s.m) : \E q \in Query(b.m) : module' = q.m
      BY DEF Reinit
    <2>2. s.m \in Modules
      BY Targets, ResultModule, SaveResult
    <2>3. PICK b \in Reboot(s.m) : \E q \in Query(b.m) : module' = q.m
      BY <2>1
    <2>4. b.m \in Modules
      BY <2>2, ResultModule, RebootResult
    <2> QED
      BY <2>3, <2>4, ResultModule, QueryResult
  <1>4. FlagType'
    BY <1>1, SameFlags DEF Reinit
  <1> QED
    BY <1>1, <1>2, <1>3, <1>4, TypeStep

\* Writing the coordinate keeps the types.
LEMMA TypeWriteCoord == TypeOK /\ WriteCoord => TypeOK'
  <1> SUFFICES ASSUME TypeOK, WriteCoord PROVE TypeOK'
    OBVIOUS
  <1>1. todo # <<>> /\ UNCHANGED <<runs, cancel, evicted>>
    BY DEF WriteCoord, At
  <1>2. Continue \/ Retry \/ Raise("failed")
    BY DEF WriteCoord, WriteAndCheck, Fail
  <1>3. module' \in Modules
    <2>1. PICK r \in Command(module, [ram EXCEPT !.pos = TargetPos]) :
             module' = r.m \/ \E q \in Query(r.m) : module' = q.m
      BY DEF WriteCoord, WriteAndCheck
    <2>2. r.m \in Modules
      BY Targets, CommandResult, ResultModule
    <2> QED
      BY <2>1, <2>2, QueryResult, ResultModule
  <1>4. FlagType'
    <2>1. touched' \in BOOLEAN /\ saved' \in BOOLEAN /\ memRestore' \in BOOLEAN
      BY <1>1, Zenon DEF TypeOK, WriteCoord, WriteAndCheck, flags
    <2>2. cancel' \in BOOLEAN /\ evicted' \in BOOLEAN /\ terminated' \in BOOLEAN
      BY <1>1, Zenon DEF TypeOK, WriteCoord, WriteAndCheck, told
    <2> QED
      BY <2>1, <2>2 DEF TypeOK, FlagType, WriteCoord, WriteAndCheck, told, flags
  <1> QED
    BY <1>1, <1>2, <1>3, <1>4, TypeStep

\* Configuring the survey keeps the types.
LEMMA TypeSvinCfg == TypeOK /\ SvinCfg => TypeOK'
  <1> SUFFICES ASSUME TypeOK, SvinCfg PROVE TypeOK'
    OBVIOUS
  <1>1. todo # <<>> /\ UNCHANGED <<runs, cancel, evicted>>
    BY DEF SvinCfg, At
  <1>2. Continue \/ Retry \/ Raise("failed")
    BY DEF SvinCfg, WriteAndCheck, Fail
  <1>3. module' \in Modules
    <2>1. PICK r \in Command(module, [ram EXCEPT !.pos = "surveying"]) :
             module' = r.m \/ \E q \in Query(r.m) : module' = q.m
      BY DEF SvinCfg, WriteAndCheck
    <2>2. r.m \in Modules
      BY Targets, CommandResult, ResultModule DEF Positions
    <2> QED
      BY <2>1, <2>2, QueryResult, ResultModule
  <1>4. FlagType'
    <2>1. touched' \in BOOLEAN /\ saved' \in BOOLEAN /\ memRestore' \in BOOLEAN
      BY <1>1, Zenon DEF TypeOK, SvinCfg, WriteAndCheck, flags
    <2>2. cancel' \in BOOLEAN /\ evicted' \in BOOLEAN /\ terminated' \in BOOLEAN
      BY <1>1, Zenon DEF TypeOK, SvinCfg, WriteAndCheck, told
    <2> QED
      BY <2>1, <2>2 DEF TypeOK, FlagType, SvinCfg, WriteAndCheck, told, flags
  <1> QED
    BY <1>1, <1>2, <1>3, <1>4, TypeStep

\* Restoring Survey-in keeps the types.
LEMMA TypeConfigSvin == TypeOK /\ ConfigSvin => TypeOK'
  <1> SUFFICES ASSUME TypeOK, ConfigSvin PROVE TypeOK'
    OBVIOUS
  <1>1. todo # <<>> /\ UNCHANGED <<runs, cancel, evicted>>
    BY DEF ConfigSvin, At
  <1>2. Continue \/ Retry \/ Raise("failed")
    BY DEF ConfigSvin, WriteAndCheck, Fail
  <1>3. module' \in Modules
    <2>1. PICK r \in Command(module, [ram EXCEPT !.pos = TargetPos]) :
             module' = r.m \/ \E q \in Query(r.m) : module' = q.m
      BY DEF ConfigSvin, WriteAndCheck
    <2>2. r.m \in Modules
      BY Targets, CommandResult, ResultModule
    <2> QED
      BY <2>1, <2>2, QueryResult, ResultModule
  <1>4. FlagType'
    <2>1. touched' \in BOOLEAN /\ saved' \in BOOLEAN /\ memRestore' \in BOOLEAN
      BY <1>1, Zenon DEF TypeOK, ConfigSvin, WriteAndCheck, flags
    <2>2. cancel' \in BOOLEAN /\ evicted' \in BOOLEAN /\ terminated' \in BOOLEAN
      BY <1>1, Zenon DEF TypeOK, ConfigSvin, WriteAndCheck, told
    <2> QED
      BY <2>1, <2>2 DEF TypeOK, FlagType, ConfigSvin, WriteAndCheck, told, flags
  <1> QED
    BY <1>1, <1>2, <1>3, <1>4, TypeStep

\* Switching the mode keeps the types.
LEMMA TypeSwitch == TypeOK /\ Switch => TypeOK'
  <1> SUFFICES ASSUME TypeOK, Switch PROVE TypeOK'
    OBVIOUS
  <1>1. todo # <<>> /\ UNCHANGED <<runs, cancel, evicted>>
    BY DEF Switch, At
  <1>2. Continue \/ Retry \/ Raise("failed")
    BY DEF Switch, Fail
  <1>3. module' \in Modules
    <2>1. \A r \in SetMode(module, TargetMode, plan = "survey") : r.m \in Modules
      BY Targets, SetModeResult, ResultModule
    <2> QED
      BY <2>1 DEF Switch
  <1>4. FlagType'
    <2>1. touched' \in BOOLEAN /\ saved' \in BOOLEAN /\ memRestore' \in BOOLEAN
      BY <1>1, Zenon DEF TypeOK, Switch, flags
    <2>2. cancel' \in BOOLEAN /\ evicted' \in BOOLEAN /\ terminated' \in BOOLEAN
      BY <1>1, Zenon DEF TypeOK, Switch, told
    <2> QED
      BY <2>1, <2>2 DEF TypeOK, FlagType, Switch, told, flags
  <1> QED
    BY <1>1, <1>2, <1>3, <1>4, TypeStep

\* Sending the coordinate again keeps the types.
LEMMA TypeRewrite == TypeOK /\ Rewrite => TypeOK'
  <1> SUFFICES ASSUME TypeOK, Rewrite PROVE TypeOK'
    OBVIOUS
  <1>1. todo # <<>> /\ UNCHANGED <<runs, cancel, evicted>>
    BY DEF Rewrite, At
  <1>2. Continue \/ Retry \/ Raise("failed")
    BY DEF Rewrite, Fail
  <1>3. module' \in Modules
    BY Targets, ResultModule, CommandResult DEF Rewrite
  <1>4. FlagType'
    <2>1. touched' \in BOOLEAN /\ saved' \in BOOLEAN /\ memRestore' \in BOOLEAN
      BY <1>1, Zenon DEF TypeOK, Rewrite, flags
    <2>2. cancel' \in BOOLEAN /\ evicted' \in BOOLEAN /\ terminated' \in BOOLEAN
      BY <1>1, Zenon DEF TypeOK, Rewrite, told
    <2> QED
      BY <2>1, <2>2 DEF TypeOK, FlagType, Rewrite, told, flags
  <1> QED
    BY <1>1, <1>2, <1>3, <1>4, TypeStep

\* Setting the messages up keeps the types.
LEMMA TypeSetupMessages == TypeOK /\ SetupMessages => TypeOK'
  <1> SUFFICES ASSUME TypeOK, SetupMessages PROVE TypeOK'
    OBVIOUS
  <1>1. todo # <<>> /\ UNCHANGED <<runs, cancel, evicted>>
    BY DEF SetupMessages, At
  <1>2. Continue \/ Retry \/ Raise("failed")
    BY DEF SetupMessages, Fail
  <1>3. module' \in Modules
    <2>1. \A msgs \in Messages : \A r \in Command(module, [ram EXCEPT !.msgs = msgs]) : r.m \in Modules
      BY Targets, CommandResult, ResultModule
    <2>2. "rtcm" \in Messages
      BY DEF Messages
    <2>3. \A m \in Modules : \A q \in Query(m) : q.m \in Modules
      BY QueryResult, ResultModule
    <2> QED
      BY <2>1, <2>2, <2>3, Targets DEF SetupMessages
  <1>4. FlagType'
    <2>1. touched' \in BOOLEAN /\ saved' \in BOOLEAN /\ memRestore' \in BOOLEAN
      BY <1>1, Zenon DEF TypeOK, SetupMessages, flags
    <2>2. cancel' \in BOOLEAN /\ evicted' \in BOOLEAN /\ terminated' \in BOOLEAN
      BY <1>1, Zenon DEF TypeOK, SetupMessages, told
    <2> QED
      BY <2>1, <2>2 DEF TypeOK, FlagType, SetupMessages, told, flags
  <1> QED
    BY <1>1, <1>2, <1>3, <1>4, TypeStep

\* SAVEPAR keeps the types.
LEMMA TypeSave == TypeOK /\ Save => TypeOK'
  <1> SUFFICES ASSUME TypeOK, Save PROVE TypeOK'
    OBVIOUS
  <1>1. todo # <<>> /\ UNCHANGED <<runs, cancel, evicted>>
    BY DEF Save, At
  <1>2. Continue \/ Retry \/ Raise("failed")
    BY DEF Save, Fail
  <1>3. module' \in Modules
    <2>1. \A r \in SavePar(module) : r.m \in Modules
      BY Targets, SaveResult, ResultModule
    <2>3. \A m \in Modules : \A q \in Query(m) : q.m \in Modules
      BY QueryResult, ResultModule
    <2> QED
      BY <2>1, <2>3 DEF Save
  <1>4. FlagType'
    <2>1. touched' \in BOOLEAN /\ saved' \in BOOLEAN /\ memRestore' \in BOOLEAN
      BY <1>1, Zenon DEF TypeOK, Save, flags
    <2>2. cancel' \in BOOLEAN /\ evicted' \in BOOLEAN /\ terminated' \in BOOLEAN
      BY <1>1, Zenon DEF TypeOK, Save, told
    <2> QED
      BY <2>1, <2>2 DEF TypeOK, FlagType, Save, told, flags
  <1> QED
    BY <1>1, <1>2, <1>3, <1>4, TypeStep

\* Storing the record keeps the types.
LEMMA TypeInject == TypeOK /\ Inject => TypeOK'
  <1> SUFFICES ASSUME TypeOK, Inject PROVE TypeOK'
    OBVIOUS
  <1>1. todo # <<>> /\ UNCHANGED <<runs, cancel, evicted>>
    BY DEF Inject, At
  <1>2. Continue \/ Retry \/ Raise("failed")
    BY DEF Inject, Fail
  <1>3. module' \in Modules
    BY Targets DEF Inject
  <1>4. FlagType'
    <2>1. /\ touched' \in BOOLEAN /\ saved' \in BOOLEAN /\ memRestore' \in BOOLEAN
          /\ cancel' \in BOOLEAN /\ evicted' \in BOOLEAN /\ terminated' \in BOOLEAN
      BY <1>1, Zenon DEF TypeOK, Inject, flags
    <2> QED
      BY <2>1 DEF TypeOK, FlagType, Inject, flags
  <1> QED
    BY <1>1, <1>2, <1>3, <1>4, TypeStep

\* The report keeps the types.
LEMMA TypeReport == TypeOK /\ Report => TypeOK'
  <1> SUFFICES ASSUME TypeOK, Report PROVE TypeOK'
    OBVIOUS
  <1>1. todo # <<>> /\ UNCHANGED <<runs, cancel, evicted>>
    BY DEF Report, At
  <1>2. Continue \/ Retry \/ Raise("failed")
    BY DEF Report, Fail
  <1>3. module' \in Modules
    BY Targets DEF Report
  <1>4. FlagType'
    <2>1. /\ touched' \in BOOLEAN /\ saved' \in BOOLEAN /\ memRestore' \in BOOLEAN
          /\ cancel' \in BOOLEAN /\ evicted' \in BOOLEAN /\ terminated' \in BOOLEAN
      BY <1>1, Zenon DEF TypeOK, Report, flags
    <2> QED
      BY <2>1 DEF TypeOK, FlagType, Report, flags
  <1> QED
    BY <1>1, <1>2, <1>3, <1>4, TypeStep

\* Reading back what was restored keeps the types.
LEMMA TypeRevertCheck == TypeOK /\ RevertCheck => TypeOK'
  <1> SUFFICES ASSUME TypeOK, RevertCheck PROVE TypeOK'
    OBVIOUS
  <1>1. todo # <<>> /\ UNCHANGED <<runs, cancel, evicted>>
    BY DEF RevertCheck, At
  <1>2. Continue \/ Retry \/ Raise("failed")
    BY DEF RevertCheck, Fail
  <1>3. module' \in Modules
    BY Targets, ResultModule, TwoQueries DEF RevertCheck
  <1>4. FlagType'
    <2>1. /\ touched' \in BOOLEAN /\ saved' \in BOOLEAN /\ memRestore' \in BOOLEAN
          /\ cancel' \in BOOLEAN /\ evicted' \in BOOLEAN /\ terminated' \in BOOLEAN
      BY <1>1, Zenon DEF TypeOK, RevertCheck, flags
    <2> QED
      BY <2>1 DEF TypeOK, FlagType, RevertCheck, flags
  <1> QED
    BY <1>1, <1>2, <1>3, <1>4, TypeStep

\* Switching the mode back keeps the types.
LEMMA TypeRestoreMemory == TypeOK /\ RestoreMemory => TypeOK'
  <1> SUFFICES ASSUME TypeOK, RestoreMemory PROVE TypeOK'
    OBVIOUS
  <1>1. todo # <<>> /\ UNCHANGED <<runs, cancel, evicted>>
    BY DEF RestoreMemory, At
  <1>2. Continue \/ Retry \/ Raise("failed")
    BY DEF RestoreMemory, Fail
  <1>3. module' \in Modules
    <2>1. \A r \in SetModeMemoryOnly(module, before.mode) : r.m \in Modules
      BY Targets, SetModeMemoryOnlyResult, ResultModule
    <2> QED
      BY <2>1, Targets DEF RestoreMemory
  <1>4. FlagType'
    <2>1. touched' \in BOOLEAN /\ saved' \in BOOLEAN /\ memRestore' \in BOOLEAN
      BY <1>1, Zenon DEF TypeOK, RestoreMemory, flags
    <2>2. cancel' \in BOOLEAN /\ evicted' \in BOOLEAN /\ terminated' \in BOOLEAN
      BY <1>1, Zenon DEF TypeOK, RestoreMemory, told
    <2> QED
      BY <2>1, <2>2 DEF TypeOK, FlagType, RestoreMemory, told, flags
  <1> QED
    BY <1>1, <1>2, <1>3, <1>4, TypeStep

\* Switching the output of GGA on keeps the types.
LEMMA TypeNmea == TypeOK /\ Nmea => TypeOK'
  <1> SUFFICES ASSUME TypeOK, Nmea PROVE TypeOK'
    OBVIOUS
  <1>1. todo # <<>> /\ UNCHANGED <<runs, cancel, evicted>>
    BY DEF Nmea, At
  <1>3. module' \in Modules
    <2>1. PICK q \in Query(module) :
             module' = q.m \/ \E r \in Command(q.m, [ram EXCEPT !.msgs = "measure"]) : module' = r.m
      BY DEF Nmea
    <2>2. q.m \in Modules /\ [ram EXCEPT !.msgs = "measure"] \in Configs
      BY Targets, QueryResult, ResultModule DEF Messages
    <2> QED
      BY <2>1, <2>2, CommandResult, ResultModule
  <1>4. FlagType'
    BY <1>1, SameFlags DEF Nmea
  <1>5. CASE Continue \/ Retry \/ Raise("failed")
    BY <1>1, <1>3, <1>4, <1>5, TypeStep
  <1>6. CASE todo' = Observing \o Concluding /\ UNCHANGED <<attempt, raised>>
    <2>1. todo' \in Seq(Steps)
      BY <1>6, ProgramSteps, MoreSteps DEF Steps
    <2> QED
      BY <1>1, <1>3, <1>4, <1>6, <2>1, TypeJump DEF TypeOK
  <1> QED
    BY <1>5, <1>6 DEF Nmea, Fail

\* Adopting a survey that has ended keeps the types.
LEMMA TypeResume == TypeOK /\ Resume => TypeOK'
  <1> SUFFICES ASSUME TypeOK, Resume PROVE TypeOK'
    OBVIOUS
  <1>1. todo # <<>> /\ UNCHANGED <<runs, cancel, evicted>>
    BY DEF Resume, At
  <1>3. module' \in Modules
    BY Targets DEF Resume
  <1>4. FlagType'
    BY <1>1, SameFlags DEF Resume
  <1>5. CASE Continue
    BY <1>1, <1>3, <1>4, <1>5, TypeStep
  <1>6. CASE todo' = <<"write">> \o Writing /\ UNCHANGED <<attempt, raised>>
    <2>1. todo' \in Seq(Steps)
      BY <1>6, ProgramSteps, MoreSteps DEF Steps
    <2> QED
      BY <1>1, <1>3, <1>4, <1>6, <2>1, TypeJump DEF TypeOK
  <1> QED
    BY <1>5, <1>6 DEF Resume

\* Listening for 1005 keeps the types, also when a second round follows.
LEMMA TypeVerifyRtcm == TypeOK /\ VerifyRtcm => TypeOK'
  <1> SUFFICES ASSUME TypeOK, VerifyRtcm PROVE TypeOK'
    OBVIOUS
  <1>1. todo # <<>> /\ UNCHANGED <<runs, cancel, evicted>>
    BY DEF VerifyRtcm, At
  <1>3. module' \in Modules
    BY Targets, QueryResult, ResultModule DEF VerifyRtcm
  <1>4. FlagType'
    <2>1. /\ touched' \in BOOLEAN /\ saved' \in BOOLEAN /\ memRestore' \in BOOLEAN
          /\ cancel' \in BOOLEAN /\ evicted' \in BOOLEAN /\ terminated' \in BOOLEAN
      BY <1>1, Zenon DEF TypeOK, VerifyRtcm, flags
    <2>2. /\ modeAck' \in {"", "ack", "deferred"}
          /\ record' \in {"none", "unsaved", "unknown", "match", "warning", "skipped"}
          /\ report' \in {"", "not_written", "saved", "reverted", "unknown"}
      BY DEF TypeOK, VerifyRtcm, flags
    <2>3. round' \in 1..2 /\ verdict' \in {"unknown", "match", "warning", "skipped"}
      <3> round \in 1..2
        BY DEF TypeOK
      <3>1. CASE verdict' = "skipped" /\ UNCHANGED round
        BY <3>1
      <3>2. ASSUME NEW q \in Query(module),
                   \/ verdict' \in {"match", "warning"} /\ UNCHANGED round
                   \/ verdict' = "unknown" /\ round' = 2
            PROVE  round' \in 1..2 /\ verdict' \in {"unknown", "match", "warning", "skipped"}
        BY <3>2
      <3> QED
        BY <3>1, <3>2 DEF VerifyRtcm
    <2> QED
      BY <2>1, <2>2, <2>3 DEF FlagType
  <1>5. CASE Continue \/ Raise("failed")
    BY <1>1, <1>3, <1>4, <1>5, TypeStep
  <1>6. CASE todo' = Retrying \o Tail(todo) /\ UNCHANGED <<attempt, raised>>
    <2>1. Tail(todo) \in Seq(Steps) /\ Retrying \in Seq(Steps)
      BY <1>1, TailSteps, ProgramSteps, MoreSteps DEF TypeOK, Steps
    <2>2. \A S : \A s, t \in Seq(S) : s \o t \in Seq(S)
      OBVIOUS
    <2>3. todo' \in Seq(Steps)
      BY <1>6, <2>1, <2>2
    <2> QED
      BY <1>1, <1>3, <1>4, <1>6, <2>3, TypeJump DEF TypeOK
  <1> QED
    BY <1>5, <1>6 DEF VerifyRtcm, Fail

\* Making the module a rover keeps the types.
LEMMA TypeRover == TypeOK /\ Rover => TypeOK'
  <1> SUFFICES ASSUME TypeOK, Rover PROVE TypeOK'
    OBVIOUS
  <1>1. todo # <<>> /\ UNCHANGED <<runs, cancel, evicted>>
    BY DEF Rover, At
  <1>2. Continue \/ Retry \/ Raise("failed")
    BY DEF Rover, RoverRestart, Fail
  <1>3. module' \in Modules
    <2>1. \A q \in Query(module) : q.m \in Modules
      BY Targets, QueryResult, ResultModule
    <2>2. "rover" \in Modes
      BY DEF Modes
    <2>3. \A m \in Modules :
            /\ \A r \in SetModeMemoryOnly(m, "rover") : r.m \in Modules
            /\ \A r \in SetModeRestart(m, "rover") :
                 r.m \in Modules /\ \A c \in CheckMode(r.m, "rover") : c.m \in Modules
      BY <2>2, SetModeMemoryOnlyResult, SetModeRestartResult, CheckModeResult, ResultModule
    <2>4. ASSUME NEW m \in Modules, RoverRestart(m) PROVE module' \in Modules
      BY <2>3, <2>4 DEF RoverRestart
    <2> QED
      BY <2>1, <2>3, <2>4, Targets DEF Rover
  <1>4. FlagType'
    <2>1. touched' \in BOOLEAN /\ saved' \in BOOLEAN
      BY <1>1, Zenon DEF TypeOK, Rover, RoverRestart, flags
    <2>2. memRestore' \in BOOLEAN
      BY <1>1, Zenon DEF TypeOK, Rover, RoverRestart, flags
    <2>3. cancel' \in BOOLEAN /\ evicted' \in BOOLEAN /\ terminated' \in BOOLEAN
      BY <1>1, Zenon DEF TypeOK, Rover, told
    <2> QED
      BY <2>1, <2>2, <2>3 DEF TypeOK, FlagType, Rover, told, flags
  <1> QED
    BY <1>1, <1>2, <1>3, <1>4, TypeStep

\* A checkpoint keeps the types.
LEMMA TypeCheckpoint == TypeOK /\ Checkpoint => TypeOK'
  <1> SUFFICES ASSUME TypeOK, Checkpoint PROVE TypeOK'
    OBVIOUS
  <1>1. todo # <<>> /\ UNCHANGED runs /\ module' \in Modules
    BY Targets DEF Checkpoint, Over
  <1>2. Raise("aborted") \/ Raise("evicted")
    BY DEF Checkpoint
  <1>3. FlagType'
    BY SameFlags DEF Checkpoint
  <1> QED
    BY <1>1, <1>2, <1>3, TypeStep

\* So does beginning to wait for the survey.
LEMMA TypeSvinEnter == TypeOK /\ SvinEnter => TypeOK'
  <1> SUFFICES ASSUME TypeOK, SvinEnter PROVE TypeOK'
    OBVIOUS
  <1>1. UNCHANGED <<runs, cancel, evicted>> /\ module' \in Modules
    BY Targets DEF SvinEnter, At
  <1>2. FlagType'
    BY <1>1, SameFlags DEF SvinEnter
  <1>3. attempt' \in 1..2 /\ UNCHANGED <<todo, raised>>
    BY DEF SvinEnter
  <1>4. todo' \in Seq(Steps)
    BY <1>3 DEF TypeOK
  <1> QED
    BY <1>1, <1>2, <1>3, <1>4, TypeJump

\* And ending it.
LEMMA TypeSvinTerminate == TypeOK /\ SvinTerminate => TypeOK'
  <1> SUFFICES ASSUME TypeOK, SvinTerminate PROVE TypeOK'
    OBVIOUS
  <1>1. todo # <<>> /\ UNCHANGED <<runs, cancel, evicted>> /\ module' \in Modules
    BY Targets DEF SvinTerminate, Over
  <1>2. Continue \/ Raise("failed")
    BY DEF SvinTerminate, Fail
  <1>3. FlagType'
    <2>1. /\ touched' \in BOOLEAN /\ saved' \in BOOLEAN /\ memRestore' \in BOOLEAN
          /\ cancel' \in BOOLEAN /\ evicted' \in BOOLEAN /\ terminated' \in BOOLEAN
      BY <1>1, Zenon DEF TypeOK, SvinTerminate, flags
    <2> QED
      BY <2>1 DEF TypeOK, FlagType, SvinTerminate, flags
  <1> QED
    BY <1>1, <1>2, <1>3, TypeStep

\* A command of the write-back keeps the types.
LEMMA TypeRevertBy ==
    ASSUME TypeOK, NEW S, S \subseteq Results, todo # <<>>,
           UNCHANGED <<runs, cancel, evicted>>, RevertBy(S)
    PROVE  TypeOK'
  <1>1. module' \in Modules
    BY ResultModule DEF RevertBy
  <1>2. FlagType'
    <2>1. /\ touched' \in BOOLEAN /\ saved' \in BOOLEAN /\ memRestore' \in BOOLEAN
          /\ cancel' \in BOOLEAN /\ evicted' \in BOOLEAN /\ terminated' \in BOOLEAN
      BY Zenon DEF TypeOK, RevertBy, flags
    <2> QED
      BY <2>1 DEF TypeOK, FlagType, RevertBy, flags
  <1>3. todo' \in Seq(Steps)
    <2>1. Tail(todo) \in Seq(Steps)
      BY TailSteps DEF TypeOK
    <2>2. <<>> \in Seq(Steps)
      OBVIOUS
    <2> QED
      BY <2>1, <2>2 DEF RevertBy
  <1>4. attempt' \in 1..2 /\ UNCHANGED raised
    BY DEF RevertBy, TypeOK
  <1> QED
    BY <1>1, <1>2, <1>3, <1>4, TypeJump

\* All three of them do.
LEMMA TypeRevert == TypeOK /\ (RevertPos \/ RevertMode \/ RevertRates) => TypeOK'
  <1> SUFFICES ASSUME TypeOK, RevertPos \/ RevertMode \/ RevertRates PROVE TypeOK'
    OBVIOUS
  <1>1. todo # <<>> /\ UNCHANGED <<runs, cancel, evicted>>
    BY DEF RevertPos, RevertMode, RevertRates, At
  <1>2. /\ backup.pos \in Positions \cup {"none"} /\ backup.mode \in Modes \cup {"none"}
        /\ backup.msgs \in Messages \cup {"none"}
    BY DEF TypeOK, Backups
  <1>4. Unless(backup.pos = "none", Command(module, [ram EXCEPT !.pos = backup.pos])) \subseteq Results
    <2>1. CASE backup.pos = "none"
      BY <2>1, Targets DEF Unless, Result, Results
    <2>2. CASE backup.pos # "none"
      <3>1. [ram EXCEPT !.pos = backup.pos] \in Configs
        BY <1>2, <2>2, Targets
      <3> QED
        BY <2>2, <3>1, Targets, CommandResult DEF Unless
    <2> QED
      BY <2>1, <2>2
  <1>5. Unless(backup.msgs = "none", Command(module, [ram EXCEPT !.msgs = backup.msgs])) \subseteq Results
    <2>1. CASE backup.msgs = "none"
      BY <2>1, Targets DEF Unless, Result, Results
    <2>2. CASE backup.msgs # "none"
      <3>1. [ram EXCEPT !.msgs = backup.msgs] \in Configs
        BY <1>2, <2>2, Targets
      <3> QED
        BY <2>2, <3>1, Targets, CommandResult DEF Unless
    <2> QED
      BY <2>1, <2>2
  <1>6. Unless(backup.mode = "none", SetMode(module, backup.mode, TRUE)) \subseteq Results
    <2>1. CASE backup.mode = "none"
      BY <2>1, Targets DEF Unless, Result, Results
    <2>2. CASE backup.mode # "none"
      <3>1. backup.mode \in Modes
        BY <1>2, <2>2
      <3> QED
        BY <2>2, <3>1, Targets, SetModeResult DEF Unless
    <2> QED
      BY <2>1, <2>2
  <1>7. CASE RevertPos
    BY <1>1, <1>4, <1>7, TypeRevertBy DEF RevertPos
  <1>8. CASE RevertMode
    BY <1>1, <1>6, <1>8, TypeRevertBy DEF RevertMode
  <1>9. CASE RevertRates
    BY <1>1, <1>5, <1>9, TypeRevertBy DEF RevertRates
  <1> QED
    BY <1>7, <1>8, <1>9

\* The user, the watchdog and the power keep the types.
LEMMA TypeEnvironment == TypeOK /\ (UserCancel \/ Evict \/ PowerLoss) => TypeOK'
  <1> SUFFICES ASSUME TypeOK, UserCancel \/ Evict \/ PowerLoss PROVE TypeOK'
    OBVIOUS
  <1>1. UNCHANGED <<runs, todo, attempt, round, flags, raised, told>>
    BY DEF UserCancel, Evict, PowerLoss
  <1>2. module' \in Modules
    <2>1. CASE UNCHANGED module
      BY <2>1, Targets
    <2>2. CASE PowerLoss
      <3>1. module' = [module EXCEPT !.ram = module.nvm, !.losses = module.losses + 1]
        BY <2>2 DEF PowerLoss, nvm
      <3>2. module.losses \in 0..MaxLosses /\ module.losses < MaxLosses
        BY <2>2, Targets DEF PowerLoss, Modules
      <3>3. module.losses + 1 \in 0..MaxLosses
        BY <3>2, BoundsAssumption
      <3> QED
        BY <3>1, <3>3, Targets DEF Modules
    <2> QED
      BY <2>1, <2>2 DEF UserCancel, Evict
  <1>3. FlagType'
    <2>1. /\ touched' \in BOOLEAN /\ saved' \in BOOLEAN /\ memRestore' \in BOOLEAN
          /\ cancel' \in BOOLEAN /\ evicted' \in BOOLEAN /\ terminated' \in BOOLEAN
      BY <1>1, Zenon DEF TypeOK, UserCancel, Evict, PowerLoss, flags, told
    <2> QED
      BY <1>1, <2>1 DEF TypeOK, FlagType, flags, told
  <1> QED
    BY <1>1, <1>2, <1>3, TypeJump DEF TypeOK

\* A run that has not begun is well typed.
LEMMA TypeInit == Init => TypeOK
  <1> SUFFICES ASSUME Init PROVE TypeOK
    OBVIOUS
  <1>1. /\ touched \in BOOLEAN /\ saved \in BOOLEAN /\ memRestore \in BOOLEAN
        /\ cancel \in BOOLEAN /\ evicted \in BOOLEAN /\ terminated \in BOOLEAN
    BY Zenon DEF Init
  <1>2. plan \in Plans /\ todo = Program(plan) /\ attempt = 1 /\ round = 1
    BY DEF Init
  <1>3. before \in Configs /\ backup \in Backups /\ (Restoring => backup.mode # "none")
    <2>1. PICK cfg \in Earlier :
             /\ before = IF Restoring THEN [mode |-> "base", pos |-> "new", msgs |-> "rtcm"]
                         ELSE cfg
             /\ backup \in IF Readonly THEN {NoParts} ELSE PartsOf(cfg)
      BY DEF Init
    <2>2. /\ cfg \in Configs
          /\ [mode |-> "base", pos |-> "new", msgs |-> "rtcm"] \in Configs
      BY EarlierAssumption DEF Configs, Modes, Positions, Messages
    <2>3. NoParts \in Backups /\ PartsOf(cfg) \subseteq Backups
      BY <2>2 DEF NoParts, PartsOf, Backups, Configs
    <2> QED
      BY <2>1, <2>2, <2>3 DEF Init
  <1>4. module \in Modules
    <2>1. module = [ram |-> before, nvm |-> before, faults |-> 0, lies |-> 0, losses |-> 0]
      BY DEF Init
    <2> QED
      BY <1>3, <2>1, BoundsAssumption DEF Modules
  <1>5. todo \in Seq(Steps)
    BY <1>2, PlansAssumption, ProgramSteps, MoreSteps DEF Steps
  <1> QED
    <2>1. /\ modeAck = "" /\ raised = "none" /\ verdict = "unknown" /\ record = "none"
          /\ report = ""
      BY DEF Init
    <2>2. attempt \in 1..2 /\ round \in 1..2
      BY <1>2
    <2> QED
      BY <1>1, <1>2, <1>3, <1>4, <1>5, <2>1, <2>2 DEF TypeOK

\* No step leaves the types.
LEMMA TypeNext == TypeOK /\ [Next]_vars => TypeOK'
  <1> SUFFICES ASSUME TypeOK, [Next]_vars PROVE TypeOK'
    OBVIOUS
  <1>1. CASE UNCHANGED vars
    <2>1. FlagType'
      BY <1>1, SameFlags DEF vars
    <2> QED
      BY <1>1, <2>1, TypeJump DEF TypeOK, vars
  <1>2. CASE Working
    BY <1>2, TypeCheckpoint, TypeSvinTerminate, TypeResume, TypeSwitch, TypeSvinBoot, TypeSvinCfg,
       TypeSvinStatus, TypeSvinEnter, TypeRover, TypeNmea, TypeReinit, TypeGga, TypeConnect,
       TypeRestoreMemory, TypeWriteCoord, TypeConfigSvin, TypeSetupMessages, TypeSave,
       TypeRestart, TypeVerifyMode, TypeVerifyRtcm, TypeRewrite, TypeInject, TypeRevert,
       TypeRevertCheck, TypeReport DEF Working
  <1> QED
    BY <1>1, <1>2, TypeSvinConverge, TypeSvinGiveUp, TypeCollect, TypeEnvironment DEF Next

\* Every variable always has its type.
THEOREM TypeCorrect == Spec => []TypeOK
  BY TypeInit, TypeNext, PTL DEF Spec

-----------------------------------------------------------------------------
(* Heads of what remains.                                                  *)

\* The steps that end as most do.
Usual ==
    \/ SvinBoot \/ SvinCfg \/ SvinStatus \/ SvinConverge \/ SvinGiveUp \/ Rover
    \/ Reinit \/ Gga \/ Collect \/ Connect \/ RestoreMemory \/ WriteCoord
    \/ ConfigSvin \/ Switch \/ SetupMessages \/ Save \/ Restart \/ VerifyMode
    \/ Rewrite \/ Inject \/ RevertCheck \/ Report \/ SvinTerminate

\* The steps that set what remains themselves, or leave the run where it is.
Special ==
    \/ Resume \/ SvinEnter \/ Nmea \/ VerifyRtcm \/ RevertPos \/ RevertMode \/ RevertRates
    \/ UserCancel \/ Evict \/ PowerLoss

\* Next, in other words.
LEMMA NextSteps == Next <=> Checkpoint \/ Usual \/ Special
  BY DEF Next, Working, Usual, Special

\* How they end.
LEMMA UsualEnds == Usual => Continue \/ Retry \/ Raise("failed")
  <1>1. SvinBoot => Continue \/ Retry \/ Raise("failed")
    BY DEF SvinBoot, Fail
  <1>2. SvinCfg => Continue \/ Retry \/ Raise("failed")
    BY DEF SvinCfg, WriteAndCheck, Fail
  <1>3. SvinStatus => Continue \/ Retry \/ Raise("failed")
    BY DEF SvinStatus, Fail
  <1>4. SvinConverge => Continue \/ Retry \/ Raise("failed")
    BY DEF SvinConverge, Fail
  <1>5. SvinGiveUp => Continue \/ Retry \/ Raise("failed")
    BY DEF SvinGiveUp, Fail
  <1>6. Rover => Continue \/ Retry \/ Raise("failed")
    BY DEF Rover, RoverRestart, Fail
  <1>7. Reinit => Continue \/ Retry \/ Raise("failed")
    BY DEF Reinit, Fail
  <1>8. Gga => Continue \/ Retry \/ Raise("failed")
    BY DEF Gga, MayFail, Fail
  <1>9. Collect => Continue \/ Retry \/ Raise("failed")
    BY DEF Collect, MayFail, Fail
  <1>10. Connect => Continue \/ Retry \/ Raise("failed")
    BY DEF Connect, Fail
  <1>11. RestoreMemory => Continue \/ Retry \/ Raise("failed")
    BY DEF RestoreMemory, Fail
  <1>12. WriteCoord => Continue \/ Retry \/ Raise("failed")
    BY DEF WriteCoord, WriteAndCheck, Fail
  <1>13. ConfigSvin => Continue \/ Retry \/ Raise("failed")
    BY DEF ConfigSvin, WriteAndCheck, Fail
  <1>14. Switch => Continue \/ Retry \/ Raise("failed")
    BY DEF Switch, Fail
  <1>15. SetupMessages => Continue \/ Retry \/ Raise("failed")
    BY DEF SetupMessages, Fail
  <1>16. Save => Continue \/ Retry \/ Raise("failed")
    BY DEF Save, Fail
  <1>17. Restart => Continue \/ Retry \/ Raise("failed")
    BY DEF Restart, Fail
  <1>18. VerifyMode => Continue \/ Retry \/ Raise("failed")
    BY DEF VerifyMode, Fail
  <1>19. Rewrite => Continue \/ Retry \/ Raise("failed")
    BY DEF Rewrite, Fail
  <1>20. Inject => Continue \/ Retry \/ Raise("failed")
    BY DEF Inject, Fail
  <1>21. RevertCheck => Continue \/ Retry \/ Raise("failed")
    BY DEF RevertCheck, Fail
  <1>22. Report => Continue \/ Retry \/ Raise("failed")
    BY DEF Report, Fail
  <1>23. SvinTerminate => Continue \/ Retry \/ Raise("failed")
    BY DEF SvinTerminate, Fail
  <1> QED
    BY <1>1, <1>2, <1>3, <1>4, <1>5, <1>6, <1>7, <1>8, <1>9, <1>10, <1>11, <1>12, <1>13, <1>14, <1>15, <1>16, <1>17, <1>18, <1>19, <1>20, <1>21, <1>22, <1>23 DEF Usual

\* Nothing but a checkpoint ends a run for the loss of the lease.
LEMMA EvictedByCheckpoint ==
    ASSUME Usual \/ Special PROVE raised' \in {raised, "failed"}
  <1>1. Continue \/ Retry \/ Raise("failed") => raised' \in {raised, "failed"}
    BY DEF Continue, Retry, Fail, Raise
  <1>2. CASE Resume
    BY <1>1, <1>2 DEF Resume
  <1>3. CASE SvinEnter
    BY <1>1, <1>3 DEF SvinEnter
  <1>4. CASE Nmea
    BY <1>1, <1>4 DEF Nmea, Fail
  <1>5. CASE VerifyRtcm
    BY <1>1, <1>5 DEF VerifyRtcm, Fail
  <1>6. CASE RevertPos
    BY <1>1, <1>6 DEF RevertPos, RevertBy
  <1>7. CASE RevertMode
    BY <1>1, <1>7 DEF RevertMode, RevertBy
  <1>8. CASE RevertRates
    BY <1>1, <1>8 DEF RevertRates, RevertBy
  <1>9. CASE UserCancel
    BY <1>1, <1>9 DEF UserCancel
  <1>10. CASE Evict
    BY <1>1, <1>10 DEF Evict
  <1>11. CASE PowerLoss
    BY <1>1, <1>11 DEF PowerLoss
  <1> QED
    BY <1>1, <1>2, <1>3, <1>4, <1>5, <1>6, <1>7, <1>8, <1>9, <1>10, <1>11, UsualEnds DEF Usual, Special

\* The next step is this one.
Place(step) == ~Over /\ Head(todo) = step

\* A step is taken at its own place in the program only.
LEMMA Places ==
    /\ SvinBoot => Place("svinBoot")
    /\ SvinCfg => Place("svinCfg")
    /\ SvinStatus => Place("svinStatus")
    /\ SvinConverge => Place("svinWait")
    /\ SvinGiveUp => Place("svinWait")
    /\ Rover => Place("rover")
    /\ Reinit => Place("reinit")
    /\ Gga => Place("gga")
    /\ Collect => Place("collect")
    /\ Connect => Place("connect")
    /\ RestoreMemory => Place("restoreMemory")
    /\ WriteCoord => Place("write")
    /\ ConfigSvin => Place("configSvin")
    /\ Switch => Place("switch")
    /\ SetupMessages => Place("messages")
    /\ Save => Place("save")
    /\ Restart => Place("restart")
    /\ VerifyMode => Place("verifyMode")
    /\ Rewrite => Place("rewrite")
    /\ Inject => Place("inject")
    /\ RevertCheck => Place("revertCheck")
    /\ Report => Place("report")
    /\ Resume => Place("resume")
    /\ SvinEnter => Place("svinWait")
    /\ Nmea => Place("nmea")
    /\ VerifyRtcm => Place("verifyRtcm")
    /\ RevertPos => Place("revertPos")
    /\ RevertMode => Place("revertMode")
    /\ RevertRates => Place("revertRates")
    /\ SvinTerminate => Place("svinWait")
  <1>1. SvinBoot => Place("svinBoot")
    BY DEF SvinBoot, At, Place, Over
  <1>2. SvinCfg => Place("svinCfg")
    BY DEF SvinCfg, At, Place, Over
  <1>3. SvinStatus => Place("svinStatus")
    BY DEF SvinStatus, At, Place, Over
  <1>4. SvinConverge => Place("svinWait")
    BY DEF SvinConverge, At, Place, Over
  <1>5. SvinGiveUp => Place("svinWait")
    BY DEF SvinGiveUp, At, Place, Over
  <1>6. Rover => Place("rover")
    BY DEF Rover, At, Place, Over
  <1>7. Reinit => Place("reinit")
    BY DEF Reinit, At, Place, Over
  <1>8. Gga => Place("gga")
    BY DEF Gga, MayFail, At, Place, Over
  <1>9. Collect => Place("collect")
    BY DEF Collect, MayFail, At, Place, Over
  <1>10. Connect => Place("connect")
    BY DEF Connect, At, Place, Over
  <1>11. RestoreMemory => Place("restoreMemory")
    BY DEF RestoreMemory, At, Place, Over
  <1>12. WriteCoord => Place("write")
    BY DEF WriteCoord, At, Place, Over
  <1>13. ConfigSvin => Place("configSvin")
    BY DEF ConfigSvin, At, Place, Over
  <1>14. Switch => Place("switch")
    BY DEF Switch, At, Place, Over
  <1>15. SetupMessages => Place("messages")
    BY DEF SetupMessages, At, Place, Over
  <1>16. Save => Place("save")
    BY DEF Save, At, Place, Over
  <1>17. Restart => Place("restart")
    BY DEF Restart, At, Place, Over
  <1>18. VerifyMode => Place("verifyMode")
    BY DEF VerifyMode, At, Place, Over
  <1>19. Rewrite => Place("rewrite")
    BY DEF Rewrite, At, Place, Over
  <1>20. Inject => Place("inject")
    BY DEF Inject, At, Place, Over
  <1>21. RevertCheck => Place("revertCheck")
    BY DEF RevertCheck, At, Place, Over
  <1>22. Report => Place("report")
    BY DEF Report, At, Place, Over
  <1>23. Resume => Place("resume")
    BY DEF Resume, At, Place, Over
  <1>24. SvinEnter => Place("svinWait")
    BY DEF SvinEnter, At, Place, Over
  <1>25. Nmea => Place("nmea")
    BY DEF Nmea, At, Place, Over
  <1>26. VerifyRtcm => Place("verifyRtcm")
    BY DEF VerifyRtcm, At, Place, Over
  <1>27. RevertPos => Place("revertPos")
    BY DEF RevertPos, At, Place, Over
  <1>28. RevertMode => Place("revertMode")
    BY DEF RevertMode, At, Place, Over
  <1>29. RevertRates => Place("revertRates")
    BY DEF RevertRates, At, Place, Over
  <1>30. SvinTerminate => Place("svinWait")
    BY DEF SvinTerminate, TakesCancel, Place
  <1> QED
    BY <1>1, <1>2, <1>3, <1>4, <1>5, <1>6, <1>7, <1>8, <1>9, <1>10, <1>11, <1>12, <1>13, <1>14, <1>15, <1>16, <1>17, <1>18, <1>19, <1>20, <1>21, <1>22, <1>23, <1>24, <1>25, <1>26, <1>27, <1>28, <1>29, <1>30

\* Where the next step is to write, to configure Survey-in or to report, no other
\* can be taken.
LEMMA OnlyAtItsPlace ==
    ASSUME todo # <<>> => Head(todo) \in {"write", "configSvin", "report"},
           Usual \/ Special
    PROVE  WriteCoord \/ ConfigSvin \/ Report \/ UserCancel \/ Evict \/ PowerLoss
  <1>1. \A step : Place(step) => step \in {"write", "configSvin", "report"}
    BY DEF Place, Over
  <1> QED
    BY <1>1, Places DEF Usual, Special

\* The plan, the backup and what was found at first never change.
LEMMA PlanStays == Next => UNCHANGED runs
  <1>1. Checkpoint => UNCHANGED runs
    BY DEF Checkpoint
  <1>2. SvinBoot => UNCHANGED runs
    BY DEF SvinBoot, At
  <1>3. SvinCfg => UNCHANGED runs
    BY DEF SvinCfg, At
  <1>4. SvinStatus => UNCHANGED runs
    BY DEF SvinStatus, At
  <1>5. SvinConverge => UNCHANGED runs
    BY DEF SvinConverge, At
  <1>6. SvinGiveUp => UNCHANGED runs
    BY DEF SvinGiveUp, At
  <1>7. Rover => UNCHANGED runs
    BY DEF Rover, At
  <1>8. Reinit => UNCHANGED runs
    BY DEF Reinit, At
  <1>9. Gga => UNCHANGED runs
    BY DEF Gga, MayFail, At
  <1>10. Collect => UNCHANGED runs
    BY DEF Collect, MayFail, At
  <1>11. Connect => UNCHANGED runs
    BY DEF Connect, At
  <1>12. RestoreMemory => UNCHANGED runs
    BY DEF RestoreMemory, At
  <1>13. WriteCoord => UNCHANGED runs
    BY DEF WriteCoord, At
  <1>14. ConfigSvin => UNCHANGED runs
    BY DEF ConfigSvin, At
  <1>15. Switch => UNCHANGED runs
    BY DEF Switch, At
  <1>16. SetupMessages => UNCHANGED runs
    BY DEF SetupMessages, At
  <1>17. Save => UNCHANGED runs
    BY DEF Save, At
  <1>18. Restart => UNCHANGED runs
    BY DEF Restart, At
  <1>19. VerifyMode => UNCHANGED runs
    BY DEF VerifyMode, At
  <1>20. Rewrite => UNCHANGED runs
    BY DEF Rewrite, At
  <1>21. Inject => UNCHANGED runs
    BY DEF Inject, At
  <1>22. RevertCheck => UNCHANGED runs
    BY DEF RevertCheck, At
  <1>23. Report => UNCHANGED runs
    BY DEF Report, At
  <1>24. Resume => UNCHANGED runs
    BY DEF Resume, At
  <1>25. SvinEnter => UNCHANGED runs
    BY DEF SvinEnter, At
  <1>26. Nmea => UNCHANGED runs
    BY DEF Nmea, At
  <1>27. VerifyRtcm => UNCHANGED runs
    BY DEF VerifyRtcm, At
  <1>28. RevertPos => UNCHANGED runs
    BY DEF RevertPos, At
  <1>29. RevertMode => UNCHANGED runs
    BY DEF RevertMode, At
  <1>30. RevertRates => UNCHANGED runs
    BY DEF RevertRates, At
  <1>31. SvinTerminate => UNCHANGED runs
    BY DEF SvinTerminate
  <1>32. UserCancel => UNCHANGED runs
    BY DEF UserCancel
  <1>33. Evict => UNCHANGED runs
    BY DEF Evict
  <1>34. PowerLoss => UNCHANGED runs
    BY DEF PowerLoss
  <1> QED
    BY <1>1, <1>2, <1>3, <1>4, <1>5, <1>6, <1>7, <1>8, <1>9, <1>10, <1>11, <1>12, <1>13, <1>14, <1>15, <1>16, <1>17, <1>18, <1>19, <1>20, <1>21, <1>22, <1>23, <1>24, <1>25, <1>26, <1>27, <1>28, <1>29, <1>30, <1>31, <1>32, <1>33, <1>34 DEF Next, Working

-----------------------------------------------------------------------------
(* A run that has lost the lease keeps its hands off.                      *)

\* All it still does is to report.
EvictedInv == raised = "evicted" /\ ~Readonly => todo \in {<<"report">>, <<>>}

\* The report is all that remains after such a run.
LEMMA EvictedNext == TypeOK /\ EvictedInv /\ [Next]_vars => EvictedInv'
  <1> SUFFICES ASSUME EvictedInv, [Next]_vars, raised' = "evicted", ~Readonly'
               PROVE  todo' \in {<<"report">>, <<>>}
    BY DEF EvictedInv
  <1>1. CASE Checkpoint
    BY <1>1 DEF Checkpoint, Raise, Unwinding, Readonly, Running, runs
  <1>2. ASSUME raised = "evicted", ~Readonly, Usual \/ Special
        PROVE  todo' \in {<<"report">>, <<>>}
    <2>1. todo \in {<<"report">>, <<>>}
      BY <1>2 DEF EvictedInv
    <2>2. Report \/ WriteCoord \/ ConfigSvin \/ UserCancel \/ Evict \/ PowerLoss
      BY <1>2, <2>1, OnlyAtItsPlace
    <2>3. ~WriteCoord /\ ~ConfigSvin
      BY <2>1 DEF WriteCoord, ConfigSvin, At
    <2>4. CASE Report
      <3>1. todo' = Tail(todo) /\ todo # <<>>
        BY <2>4 DEF Report, At, Continue
      <3>2. Tail(<<"report">>) = <<>>
        OBVIOUS
      <3> QED
        BY <2>1, <3>1, <3>2
    <2>5. CASE UserCancel \/ Evict \/ PowerLoss
      BY <2>1, <2>5 DEF UserCancel, Evict, PowerLoss
    <2> QED
      BY <2>2, <2>3, <2>4, <2>5
  <1>3. CASE Usual \/ Special
    <2>1. raised = "evicted"
      BY <1>3, EvictedByCheckpoint
    <2>2. plan' = plan
      BY <1>3, PlanStays, NextSteps DEF runs
    <2>3. ~Readonly
      BY <2>2 DEF Readonly
    <2> QED
      BY <1>2, <1>3, <2>1, <2>3
  <1>4. CASE UNCHANGED vars
    BY <1>4 DEF vars, runs, EvictedInv, Readonly
  <1> QED
    BY <1>1, <1>3, <1>4, NextSteps

\* Nothing such a run does changes the module.
LEMMA EvictedStep ==
    TypeOK /\ EvictedInv /\ [Next]_vars /\ raised = "evicted" /\ ~Readonly
      /\ module'.losses = module.losses => module' = module
  <1> SUFFICES ASSUME TypeOK, EvictedInv, [Next]_vars, raised = "evicted", ~Readonly,
                      module'.losses = module.losses
               PROVE  module' = module
    OBVIOUS
  <1>1. todo \in {<<"report">>, <<>>}
    BY DEF EvictedInv
  <1>2. ~Checkpoint /\ ~WriteCoord /\ ~ConfigSvin
    BY <1>1 DEF Checkpoint, Running, WriteCoord, ConfigSvin, At
  <1>3. ~PowerLoss
    <2>1. module \in Modules
      BY DEF TypeOK
    <2>2. module.losses \in Nat /\ module.losses # module.losses + 1
      BY <2>1, BoundsAssumption DEF Modules
    <2>3. PowerLoss => module'.losses = module.losses + 1
      BY <2>1 DEF PowerLoss, Modules
    <2> QED
      BY <2>2, <2>3
  <1>4. CASE UNCHANGED vars
    BY <1>4 DEF vars
  <1>5. CASE Next
    <2>1. Report \/ UserCancel \/ Evict
      BY <1>1, <1>2, <1>3, <1>5, NextSteps, OnlyAtItsPlace
    <2> QED
      BY <2>1 DEF Report, UserCancel, Evict
  <1> QED
    BY <1>4, <1>5

\* Once the lease is gone the run changes the module no more.
THEOREM EvictedKeepsHandsOff == Spec => EvictedHandsOff
  <1>1. Init => EvictedInv
    BY DEF Init, EvictedInv
  <1>2. Spec => [](TypeOK /\ EvictedInv)
    BY <1>1, TypeInit, TypeNext, EvictedNext, PTL DEF Spec
  <1>3. TypeOK /\ EvictedInv /\ [Next]_vars
          => [raised = "evicted" /\ ~Readonly /\ module'.losses = module.losses
                => module' = module]_vars
    BY EvictedStep
  <1> QED
    BY <1>2, <1>3, PTL DEF Spec, EvictedHandsOff

-----------------------------------------------------------------------------
(* Not written means not written.                                          *)

Simple == plan \in {"manual"} \cup Restores

\* As long as the module is not known to be touched, such a run is still at its
\* first command or has given up.
NotWrittenInv ==
    Simple /\ ~touched =>
        /\ nvm.mode = before.mode /\ nvm.pos = before.pos
        /\ todo \in {Program(plan), <<"report">>, <<>>}

\* The first command of such a run.
LEMMA FirstCommand == Simple => Program(plan) # <<>> /\ Head(Program(plan)) \in {"write", "configSvin"}
  BY DEF Simple, Restores, Program, Writing

\* A failed or repeated first command leaves the NVM, and the place.
LEMMA NotWrittenFirst ==
    ASSUME TypeOK, NotWrittenInv, Simple, ~touched, ~touched', WriteCoord \/ ConfigSvin
    PROVE  /\ module'.nvm = module.nvm
           /\ todo' \in {todo, <<"report">>}
  <1>1. \A r \in Command(module, [ram EXCEPT !.pos = TargetPos]) : r.m.nvm = module.nvm /\ r.m \in Modules
    BY Targets, CommandResult, ResultModule DEF Quiet
  <1>2. \A m \in Modules : \A q \in Query(m) : q.m.nvm = m.nvm
    BY QueryResult
  <1>3. ~Readonly
    BY DEF Simple, Restores, Readonly
  <1>4. Fail \/ Retry => todo' \in {todo, <<"report">>}
    BY <1>3 DEF Fail, Retry, Raise, Unwinding
  <1>5. CASE WriteAndCheck(TargetPos)
    BY <1>1, <1>2, <1>4, <1>5 DEF WriteAndCheck
  <1>6. CASE ConfigSvin /\ plan = "restoreDisabled"
    BY <1>1, <1>4, <1>6 DEF ConfigSvin, WriteAndCheck
  <1> QED
    BY <1>5, <1>6 DEF WriteCoord, ConfigSvin

\* What has been touched stays so.
LEMMA TouchedStays == Next /\ touched => touched'
  <1>1. Checkpoint /\ touched => touched'
    BY Zenon DEF Checkpoint, flags
  <1>2. SvinBoot /\ touched => touched'
    BY Zenon DEF SvinBoot, flags
  <1>3. SvinCfg /\ touched => touched'
    BY Zenon DEF SvinCfg, WriteAndCheck, flags
  <1>4. SvinStatus /\ touched => touched'
    BY Zenon DEF SvinStatus, flags
  <1>5. SvinConverge /\ touched => touched'
    BY Zenon DEF SvinConverge, flags
  <1>6. SvinGiveUp /\ touched => touched'
    BY Zenon DEF SvinGiveUp, flags
  <1>7. Rover /\ touched => touched'
    BY Zenon DEF Rover, RoverRestart, flags
  <1>8. Reinit /\ touched => touched'
    BY Zenon DEF Reinit, flags
  <1>9. Gga /\ touched => touched'
    BY Zenon DEF Gga, MayFail, flags
  <1>10. Collect /\ touched => touched'
    BY Zenon DEF Collect, MayFail, flags
  <1>11. Connect /\ touched => touched'
    BY Zenon DEF Connect, flags
  <1>12. RestoreMemory /\ touched => touched'
    BY Zenon DEF RestoreMemory, flags
  <1>13. WriteCoord /\ touched => touched'
    BY Zenon DEF WriteCoord, WriteAndCheck, flags
  <1>14. ConfigSvin /\ touched => touched'
    BY Zenon DEF ConfigSvin, WriteAndCheck, flags
  <1>15. Switch /\ touched => touched'
    BY Zenon DEF Switch, flags
  <1>16. SetupMessages /\ touched => touched'
    BY Zenon DEF SetupMessages, flags
  <1>17. Save /\ touched => touched'
    BY Zenon DEF Save, flags
  <1>18. Restart /\ touched => touched'
    BY Zenon DEF Restart, flags
  <1>19. VerifyMode /\ touched => touched'
    BY Zenon DEF VerifyMode, flags
  <1>20. Rewrite /\ touched => touched'
    BY Zenon DEF Rewrite, flags
  <1>21. Inject /\ touched => touched'
    BY Zenon DEF Inject, flags
  <1>22. RevertCheck /\ touched => touched'
    BY Zenon DEF RevertCheck, flags
  <1>23. Report /\ touched => touched'
    BY Zenon DEF Report, flags
  <1>24. Resume /\ touched => touched'
    BY Zenon DEF Resume, flags
  <1>25. SvinEnter /\ touched => touched'
    BY Zenon DEF SvinEnter, flags
  <1>26. Nmea /\ touched => touched'
    BY Zenon DEF Nmea, flags
  <1>27. VerifyRtcm /\ touched => touched'
    BY Zenon DEF VerifyRtcm, flags
  <1>28. RevertPos /\ touched => touched'
    BY Zenon DEF RevertPos, RevertBy, flags
  <1>29. RevertMode /\ touched => touched'
    BY Zenon DEF RevertMode, RevertBy, flags
  <1>30. RevertRates /\ touched => touched'
    BY Zenon DEF RevertRates, RevertBy, flags
  <1>31. SvinTerminate /\ touched => touched'
    BY Zenon DEF SvinTerminate, flags
  <1>32. UserCancel /\ touched => touched'
    BY Zenon DEF UserCancel, flags
  <1>33. Evict /\ touched => touched'
    BY Zenon DEF Evict, flags
  <1>34. PowerLoss /\ touched => touched'
    BY Zenon DEF PowerLoss, flags
  <1> QED
    BY <1>1, <1>2, <1>3, <1>4, <1>5, <1>6, <1>7, <1>8, <1>9, <1>10, <1>11, <1>12, <1>13, <1>14, <1>15, <1>16, <1>17, <1>18, <1>19, <1>20, <1>21, <1>22, <1>23, <1>24, <1>25, <1>26, <1>27, <1>28, <1>29, <1>30, <1>31, <1>32, <1>33, <1>34 DEF Next, Working

\* No step of such a run changes the NVM before the module is touched.
LEMMA NotWrittenNext == TypeOK /\ NotWrittenInv /\ [Next]_vars => NotWrittenInv'
  <1> SUFFICES ASSUME TypeOK, NotWrittenInv, [Next]_vars, Simple', ~touched'
               PROVE  NotWrittenInv'
    BY DEF NotWrittenInv
  <1>1. CASE UNCHANGED vars
    BY <1>1 DEF vars, runs, flags, NotWrittenInv, Simple, nvm, Program
  <1>2. CASE Next
    <2>1. UNCHANGED runs /\ Simple /\ ~touched
      BY <1>2, PlanStays, TouchedStays DEF runs, Simple
    <2>2. /\ nvm.mode = before.mode /\ nvm.pos = before.pos
          /\ todo \in {Program(plan), <<"report">>, <<>>}
      BY <2>1 DEF NotWrittenInv
    <2>3. todo # <<>> => Head(todo) \in {"write", "configSvin", "report"}
      BY <2>1, <2>2, FirstCommand
    <2>4. ASSUME module'.nvm = module.nvm, todo' \in {todo, <<"report">>, <<>>}
          PROVE  NotWrittenInv'
      BY <2>1, <2>2, <2>4 DEF NotWrittenInv, nvm, runs, Program
    <2>5. CASE Checkpoint
      <3>1. ~Readonly
        BY <2>1 DEF Simple, Restores, Readonly
      <3>2. todo' = <<"report">> /\ module' = module
        BY <2>5, <3>1 DEF Checkpoint, Raise, Unwinding, flags
      <3> QED
        BY <2>4, <3>2
    <2>6. CASE WriteCoord \/ ConfigSvin
      BY <2>1, <2>4, <2>6, NotWrittenFirst
    <2>7. CASE Report
      <3>1. todo = <<"report">>
        BY <2>1, <2>2, <2>7, FirstCommand DEF Report, At
      <3>2. todo' = Tail(todo) /\ module' = module
        BY <2>7 DEF Report, Continue
      <3>3. Tail(<<"report">>) = <<>>
        OBVIOUS
      <3> QED
        BY <2>4, <3>1, <3>2, <3>3
    <2>8. CASE UserCancel \/ Evict \/ PowerLoss
      <3>1. todo' = todo /\ module'.nvm = module.nvm
        BY <2>8 DEF UserCancel, Evict, PowerLoss, TypeOK, Modules
      <3> QED
        BY <2>4, <3>1
    <2> QED
      BY <1>2, <2>3, <2>5, <2>6, <2>7, <2>8, NextSteps, OnlyAtItsPlace
  <1> QED
    BY <1>1, <1>2

\* Of a plan that does not measure, not_written is true.
THEOREM NotWrittenHolds == Spec => []NotWrittenKeepsNvm
  <1>1. ASSUME Init PROVE NotWrittenInv
    <2>1. module = [ram |-> before, nvm |-> before, faults |-> 0, lies |-> 0, losses |-> 0]
      BY <1>1 DEF Init
    <2>2. todo = Program(plan)
      BY <1>1 DEF Init
    <2>3. nvm = before
      BY <2>1 DEF nvm
    <2> QED
      BY <2>2, <2>3 DEF NotWrittenInv
  <1>2. NotWrittenInv => NotWrittenKeepsNvm
    BY DEF NotWrittenInv, NotWrittenKeepsNvm, Simple
  <1> QED
    BY <1>1, <1>2, TypeInit, TypeNext, NotWrittenNext, PTL DEF Spec

-----------------------------------------------------------------------------
(* What a run says.                                                        *)

\* A record is stored in one step, and in the report only the last step of the
\* write-back says that the backup was restored.
LEMMA SaidOnce ==
    ASSUME Next
    PROVE  /\ Inject \/ UNCHANGED record
           /\ RevertCheck \/ UNCHANGED report \/ report' # "reverted"
  <1>1. SvinBoot => UNCHANGED <<record, report>>
    BY DEF SvinBoot, told
  <1>2. SvinCfg => UNCHANGED <<record, report>>
    BY DEF SvinCfg, told
  <1>3. SvinStatus => UNCHANGED <<record, report>>
    BY DEF SvinStatus, told
  <1>4. SvinConverge => UNCHANGED <<record, report>>
    BY DEF SvinConverge, told
  <1>5. SvinGiveUp => UNCHANGED <<record, report>>
    BY DEF SvinGiveUp, told
  <1>6. Rover => UNCHANGED <<record, report>>
    BY DEF Rover, told
  <1>7. Reinit => UNCHANGED <<record, report>>
    BY DEF Reinit, told
  <1>8. Gga => UNCHANGED <<record, report>>
    BY DEF Gga, MayFail, told
  <1>9. Collect => UNCHANGED <<record, report>>
    BY DEF Collect, MayFail, told
  <1>10. Connect => UNCHANGED <<record, report>>
    BY DEF Connect, told
  <1>11. RestoreMemory => UNCHANGED <<record, report>>
    BY DEF RestoreMemory, told
  <1>12. WriteCoord => UNCHANGED <<record, report>>
    BY DEF WriteCoord, told
  <1>13. ConfigSvin => UNCHANGED <<record, report>>
    BY DEF ConfigSvin, told
  <1>14. Switch => UNCHANGED <<record, report>>
    BY DEF Switch, told
  <1>15. SetupMessages => UNCHANGED <<record, report>>
    BY DEF SetupMessages, told
  <1>16. Save => UNCHANGED <<record, report>>
    BY DEF Save, told
  <1>17. Restart => UNCHANGED <<record, report>>
    BY DEF Restart, told
  <1>18. VerifyMode => UNCHANGED <<record, report>>
    BY DEF VerifyMode, told
  <1>19. Rewrite => UNCHANGED <<record, report>>
    BY DEF Rewrite, told
  <1>20. SvinTerminate => UNCHANGED <<record, report>>
    BY DEF SvinTerminate, told
  <1>21. Resume => UNCHANGED <<record, report>>
    BY DEF Resume, told
  <1>22. SvinEnter => UNCHANGED <<record, report>>
    BY DEF SvinEnter, told
  <1>23. Nmea => UNCHANGED <<record, report>>
    BY DEF Nmea, told
  <1>24. UserCancel => UNCHANGED <<record, report>>
    BY DEF UserCancel, told
  <1>25. Evict => UNCHANGED <<record, report>>
    BY DEF Evict, told
  <1>26. PowerLoss => UNCHANGED <<record, report>>
    BY DEF PowerLoss, told
  <1>27. Checkpoint => UNCHANGED <<record, report>>
    BY DEF Checkpoint, told
  <1>28. VerifyRtcm => UNCHANGED <<record, report>>
    BY DEF VerifyRtcm
  <1>29. Inject => UNCHANGED report
    BY DEF Inject
  <1>30. Report => UNCHANGED record /\ report' # "reverted"
    BY DEF Report
  <1>31. RevertCheck => UNCHANGED record
    BY DEF RevertCheck
  <1>32. RevertPos => UNCHANGED record /\ (UNCHANGED report \/ report' # "reverted")
    BY DEF RevertPos, RevertBy
  <1>33. RevertMode => UNCHANGED record /\ (UNCHANGED report \/ report' # "reverted")
    BY DEF RevertMode, RevertBy
  <1>34. RevertRates => UNCHANGED record /\ (UNCHANGED report \/ report' # "reverted")
    BY DEF RevertRates, RevertBy
  <1> QED
    BY <1>1, <1>2, <1>3, <1>4, <1>5, <1>6, <1>7, <1>8, <1>9, <1>10, <1>11, <1>12, <1>13, <1>14, <1>15, <1>16, <1>17, <1>18, <1>19, <1>20, <1>21, <1>22, <1>23, <1>24, <1>25, <1>26, <1>27, <1>28, <1>29, <1>30, <1>31, <1>32, <1>33, <1>34, NextSteps DEF Usual, Special

-----------------------------------------------------------------------------
(* The order of what remains.                                              *)

\* b may come right after a in what remains of a run.
Follows(a, b) ==
    /\ b = "restart" <=> a = "save"
    /\ b = "verifyMode" <=> a = "restart"
    /\ b = "verifyRtcm" <=> a = "verifyMode"
    /\ b = "inject" => a \in {"verifyRtcm", "restoreMemory"}
    /\ b = "report" => a \in {"inject", "restoreMemory"}
    /\ a = "verifyRtcm" => b = "inject"
    /\ a = "inject" => b = "report"
    /\ a # "report"

\* It ends with the report.
Ordered(s) ==
    \A i \in 1..Len(s) : IF i = Len(s) THEN s[i] = "report" ELSE Follows(s[i], s[i + 1])

MeasuringSteps == {"rover", "nmea", "reinit", "gga", "connect", "collect",
                   "restoreMemory", "inject", "report"}
WritingSteps == RunSteps \ {"restoreMemory"}
FailedSteps == RevertSteps \cup {"restoreMemory", "report"}
LateSteps == {"restart", "verifyMode", "verifyRtcm", "inject", "report"}

\* What remains of a run that goes on or only measures, of one that has failed, of
\* one that only measures and of one that writes.
Structure ==
    /\ Running \/ Readonly => Ordered(todo)
    /\ ~Running => todo \in Seq(FailedSteps)
    /\ Readonly => todo \in Seq(MeasuringSteps)
    /\ Running /\ ~Readonly => todo \in Seq(WritingSteps)

\* What is left of an ordered sequence is ordered, and begins with what may follow.
LEMMA OrderedTail ==
    ASSUME NEW S, NEW s \in Seq(S), s # <<>>, Ordered(s)
    PROVE  /\ Ordered(Tail(s))
           /\ IF Tail(s) = <<>> THEN Head(s) = "report" ELSE Follows(Head(s), Head(Tail(s)))
  <1>1. Len(s) \in Nat /\ Len(s) > 0 /\ Head(s) = s[1]
    OBVIOUS
  <1>2. Tail(s) \in Seq(S) /\ Len(Tail(s)) = Len(s) - 1
    OBVIOUS
  <1>3. \A i \in 1..Len(Tail(s)) : Tail(s)[i] = s[i + 1]
    OBVIOUS
  <1>4. Tail(s) # <<>> => Len(Tail(s)) > 0 /\ Head(Tail(s)) = Tail(s)[1]
    BY <1>2
  <1>5. PICK n \in Nat : Len(s) = n + 1 /\ Len(Tail(s)) = n
    <2>1. Len(s) - 1 \in Nat /\ Len(s) = (Len(s) - 1) + 1
      BY <1>1
    <2> QED
      BY <1>2, <2>1
  <1>6. Ordered(Tail(s))
    <2> SUFFICES ASSUME NEW i \in 1..n
                 PROVE  IF i = n THEN Tail(s)[i] = "report"
                        ELSE Follows(Tail(s)[i], Tail(s)[i + 1])
      BY <1>5 DEF Ordered
    <2>1. /\ i + 1 \in 1..(n + 1) /\ (i = n <=> i + 1 = n + 1)
          /\ i # n => i + 1 \in 1..n
      OBVIOUS
    <2>2. Tail(s)[i] = s[i + 1] /\ (i # n => Tail(s)[i + 1] = s[(i + 1) + 1])
      BY <1>3, <1>5, <2>1
    <2> QED
      BY <1>5, <2>1, <2>2 DEF Ordered
  <1>7. IF 1 = Len(s) THEN s[1] = "report" ELSE Follows(s[1], s[2])
    <2>1. 1 \in 1..Len(s) /\ 1 + 1 = 2
      BY <1>1
    <2> QED
      BY <2>1 DEF Ordered
  <1>8. Tail(s) = <<>> => Len(s) = 1
    <2> SUFFICES ASSUME Tail(s) = <<>> PROVE Len(s) = 1
      OBVIOUS
    <2>1. Len(<<>>) = 0
      OBVIOUS
    <2>2. n = 0
      BY <1>5, <2>1
    <2> QED
      BY <1>5, <2>2
  <1>9. Tail(s) # <<>> => Len(s) # 1 /\ Tail(s)[1] = s[2]
    BY <1>2, <1>3, <1>4
  <1> QED
    BY <1>1, <1>4, <1>6, <1>7, <1>8, <1>9

\* The report comes last.
LEMMA ReportLast ==
    ASSUME NEW S, NEW s \in Seq(S), s # <<>>, Ordered(s), Head(s) = "report"
    PROVE  s = <<"report">>
  <1>1. Len(s) \in Nat /\ Len(s) > 0 /\ s[1] = "report"
    OBVIOUS
  <1>2. Len(s) = 1
    <2>1. 1 \in 1..Len(s)
      BY <1>1
    <2>2. ~Follows(s[1], s[1 + 1])
      BY <1>1 DEF Follows
    <2> QED
      BY <1>1, <2>1, <2>2 DEF Ordered
  <1> QED
    BY <1>1, <1>2

\* A sequence without the report in order, followed by an ordered one.
LEMMA OrderedConcat ==
    ASSUME NEW S, NEW s \in Seq(S), NEW t \in Seq(S), t # <<>>, Ordered(t),
           \A i \in 1..Len(s) : Follows(s[i], IF i = Len(s) THEN t[1] ELSE s[i + 1])
    PROVE  Ordered(s \o t)
  <1> SUFFICES ASSUME NEW i \in 1..Len(s \o t)
               PROVE  IF i = Len(s \o t) THEN (s \o t)[i] = "report"
                      ELSE Follows((s \o t)[i], (s \o t)[i + 1])
    BY DEF Ordered
  <1>1. /\ Len(s \o t) = Len(s) + Len(t) /\ Len(s) \in Nat /\ Len(t) \in Nat /\ Len(t) > 0
        /\ \A j \in 1..Len(s \o t) :
             (s \o t)[j] = IF j <= Len(s) THEN s[j] ELSE t[j - Len(s)]
    OBVIOUS
  <1>2. CASE i <= Len(s)
    <2>1. i \in 1..Len(s) /\ i # Len(s \o t) /\ i + 1 \in 1..Len(s \o t)
      BY <1>1, <1>2
    <2>2. (s \o t)[i] = s[i] /\ (s \o t)[i + 1] = IF i = Len(s) THEN t[1] ELSE s[i + 1]
      BY <1>1, <1>2, <2>1
    <2> QED
      BY <2>1, <2>2
  <1>3. CASE i > Len(s)
    <2>1. PICK k \in 1..Len(t) : i = Len(s) + k
      BY <1>1, <1>3
    <2>2. (s \o t)[i] = t[k] /\ (i = Len(s \o t) <=> k = Len(t))
      <3>1. ~(Len(s) + k <= Len(s)) /\ (Len(s) + k) - Len(s) = k
        BY <1>1
      <3>2. (s \o t)[i] = t[k]
        BY <1>1, <2>1, <3>1
      <3>3. \A a, b, c \in Nat : a + b = a + c <=> b = c
        OBVIOUS
      <3>4. Len(s) \in Nat /\ Len(t) \in Nat /\ k \in Nat
        BY <1>1
      <3>5. Len(s) + k = Len(s) + Len(t) <=> k = Len(t)
        BY <3>3, <3>4
      <3> QED
        BY <1>1, <2>1, <3>2, <3>5
    <2>3. i # Len(s \o t) => i + 1 = Len(s) + (k + 1) /\ i + 1 \in 1..Len(s \o t)
      BY <1>1, <2>1
    <2>4. i # Len(s \o t) => (s \o t)[i + 1] = t[k + 1]
      <3>1. ~(Len(s) + (k + 1) <= Len(s)) /\ (Len(s) + (k + 1)) - Len(s) = k + 1
        BY <1>1
      <3> QED
        BY <1>1, <2>3, <3>1
    <2>5. IF k = Len(t) THEN t[k] = "report" ELSE Follows(t[k], t[k + 1])
      BY DEF Ordered
    <2> QED
      BY <2>2, <2>4, <2>5
  <1>4. i <= Len(s) \/ i > Len(s)
    BY <1>1
  <1> QED
    BY <1>2, <1>3, <1>4

\* The sequences the programs are put together from, in order.
LEMMA PartsOrdered ==
    /\ Ordered(Writing) /\ Writing # <<>> /\ Writing[1] = "messages"
    /\ Ordered(Concluding) /\ Concluding # <<>> /\ Concluding[1] = "restoreMemory"
    /\ Ordered(<<"report">>) /\ Ordered(<<"restoreMemory", "report">>)
  <1>1. /\ Len(Writing) = 7 /\ Len(Concluding) = 3
        /\ Writing # <<>> /\ Concluding # <<>>
        /\ Writing[1] = "messages" /\ Concluding[1] = "restoreMemory"
    BY DEF Writing, Concluding
  <1>2. Ordered(Writing)
    BY <1>1 DEF Ordered, Follows, Writing
  <1>3. Ordered(Concluding)
    BY <1>1 DEF Ordered, Follows, Concluding
  <1>4. Ordered(<<"report">>) /\ Ordered(<<"restoreMemory", "report">>)
    BY DEF Ordered, Follows
  <1> QED
    BY <1>1, <1>2, <1>3, <1>4

\* What comes before the writing, the restoring of the mode or the record.
LEMMA ChainsOrdered ==
    ASSUME NEW t \in Seq(RunSteps), t # <<>>, Ordered(t),
           t[1] \in {"messages", "write", "restoreMemory"}
    PROVE  /\ Ordered(Measuring \o t) /\ Ordered(Observing \o t)
           /\ Ordered(<<"write">> \o t) /\ Ordered(<<"write", "switch">> \o t)
           /\ Ordered(<<"configSvin", "switch">> \o t)
           /\ Ordered(<<"resume", "switch", "svinBoot", "svinCfg", "svinStatus", "svinWait",
                        "write">> \o t)
  <1>1. Ordered(Measuring \o t)
    <2>1. Measuring \in Seq(RunSteps) /\ Len(Measuring) = 6
      BY DEF Measuring, RunSteps, Checked
    <2>2. \A i \in 1..6 : Follows(Measuring[i], IF i = 6 THEN t[1] ELSE Measuring[i + 1])
      BY DEF Measuring, Follows
    <2> QED
      BY <2>1, <2>2, OrderedConcat
  <1>2. Ordered(Observing \o t)
    <2>1. Observing \in Seq(RunSteps) /\ Len(Observing) = 3
      BY DEF Observing, RunSteps, Checked
    <2>2. \A i \in 1..3 : Follows(Observing[i], IF i = 3 THEN t[1] ELSE Observing[i + 1])
      BY DEF Observing, Follows
    <2> QED
      BY <2>1, <2>2, OrderedConcat
  <1>3. Ordered(<<"write">> \o t)
    <2> DEFINE s == <<"write">>
    <2>1. s \in Seq(RunSteps) /\ Len(s) = 1
      BY DEF RunSteps, Checked
    <2>2. \A i \in 1..1 : Follows(s[i], IF i = 1 THEN t[1] ELSE s[i + 1])
      BY DEF Follows
    <2> HIDE DEF s
    <2>3. Ordered(s \o t)
      BY <2>1, <2>2, OrderedConcat
    <2> QED
      BY <2>3 DEF s
  <1>4. Ordered(<<"write", "switch">> \o t)
    <2> DEFINE s == <<"write", "switch">>
    <2>1. s \in Seq(RunSteps) /\ Len(s) = 2
      BY DEF RunSteps, Checked
    <2>2. \A i \in 1..2 : Follows(s[i], IF i = 2 THEN t[1] ELSE s[i + 1])
      BY DEF Follows
    <2> HIDE DEF s
    <2>3. Ordered(s \o t)
      BY <2>1, <2>2, OrderedConcat
    <2> QED
      BY <2>3 DEF s
  <1>5. Ordered(<<"configSvin", "switch">> \o t)
    <2> DEFINE s == <<"configSvin", "switch">>
    <2>1. s \in Seq(RunSteps) /\ Len(s) = 2
      BY DEF RunSteps, Checked
    <2>2. \A i \in 1..2 : Follows(s[i], IF i = 2 THEN t[1] ELSE s[i + 1])
      BY DEF Follows
    <2> HIDE DEF s
    <2>3. Ordered(s \o t)
      BY <2>1, <2>2, OrderedConcat
    <2> QED
      BY <2>3 DEF s
  <1>6. Ordered(<<"resume", "switch", "svinBoot", "svinCfg", "svinStatus", "svinWait",
                  "write">> \o t)
    <2> DEFINE s == <<"resume", "switch", "svinBoot", "svinCfg", "svinStatus", "svinWait", "write">>
    <2>1. s \in Seq(RunSteps) /\ Len(s) = 7
      BY DEF RunSteps, Checked
    <2>2. \A i \in 1..7 : Follows(s[i], IF i = 7 THEN t[1] ELSE s[i + 1])
      BY DEF Follows
    <2> HIDE DEF s
    <2>3. Ordered(s \o t)
      BY <2>1, <2>2, OrderedConcat
    <2> QED
      BY <2>3 DEF s
  <1> QED
    BY <1>1, <1>2, <1>3, <1>4, <1>5, <1>6

\* The programs are ordered, and of the steps that their kind of plan may take.
LEMMA ProgramStructure ==
    /\ \A p \in AllPlans :
         /\ Ordered(Program(p))
         /\ Program(p) \in Seq(IF p = "external" THEN MeasuringSteps ELSE WritingSteps)
    /\ Ordered(<<"write">> \o Writing) /\ <<"write">> \o Writing \in Seq(WritingSteps)
    /\ Ordered(Observing \o Concluding) /\ Observing \o Concluding \in Seq(MeasuringSteps)
    /\ <<"restoreMemory", "report">> \in Seq(MeasuringSteps)
    /\ Retrying \in Seq(WritingSteps)
  <1>1. /\ Writing \in Seq(WritingSteps) /\ Retrying \in Seq(WritingSteps)
        /\ Observing \in Seq(WritingSteps) /\ Observing \in Seq(MeasuringSteps)
        /\ Concluding \in Seq(MeasuringSteps)
        /\ Measuring \in Seq(WritingSteps) /\ Measuring \in Seq(MeasuringSteps)
        /\ <<"restoreMemory", "report">> \in Seq(MeasuringSteps)
        /\ <<"write", "switch">> \in Seq(WritingSteps)
        /\ <<"configSvin", "switch">> \in Seq(WritingSteps)
        /\ <<"write">> \in Seq(WritingSteps)
        /\ <<"resume", "switch", "svinBoot", "svinCfg", "svinStatus", "svinWait", "write">>
             \in Seq(WritingSteps)
    BY DEF Writing, Retrying, Observing, Measuring, Concluding, WritingSteps, MeasuringSteps,
       RunSteps, Checked
  <1>2. \A S : \A s, t \in Seq(S) : s \o t \in Seq(S)
    OBVIOUS
  <1>3. Writing \in Seq(RunSteps) /\ Concluding \in Seq(RunSteps)
    BY ProgramSteps DEF Concluding, RunSteps, Checked
  <1>4. /\ Ordered(<<"write">> \o Writing) /\ Ordered(<<"write", "switch">> \o Writing)
        /\ Ordered(<<"configSvin", "switch">> \o Writing)
        /\ Ordered(<<"resume", "switch", "svinBoot", "svinCfg", "svinStatus", "svinWait",
                     "write">> \o Writing)
        /\ Ordered(Observing \o Concluding) /\ Ordered(Measuring \o Concluding)
    BY <1>3, PartsOrdered, ChainsOrdered
  <1>5. Ordered((Measuring \o <<"write", "switch">>) \o Writing)
    <2> DEFINE t == <<"write", "switch">> \o Writing
    <2>1. <<"write", "switch">> \in Seq(RunSteps)
      BY DEF RunSteps, Checked
    <2>2. t \in Seq(RunSteps) /\ t # <<>> /\ t[1] = "write"
      BY <1>3, <2>1, PartsOrdered
    <2>3. Ordered(Measuring \o t)
      BY <1>4, <2>2, ChainsOrdered
    <2>4. Measuring \in Seq(RunSteps)
      BY DEF Measuring, RunSteps, Checked
    <2>5. (Measuring \o <<"write", "switch">>) \o Writing = Measuring \o t
      BY <1>3, <2>1, <2>4
    <2> QED
      BY <2>3, <2>5
  <1>6. \A p \in AllPlans : Ordered(Program(p))
    BY <1>4, <1>5 DEF Program, AllPlans
  <1>7. Program("external") \in Seq(MeasuringSteps)
    BY <1>1, <1>2 DEF Program
  <1>8. \A p \in AllPlans \ {"external"} : Program(p) \in Seq(WritingSteps)
    BY <1>1, <1>2 DEF Program, AllPlans
  <1> QED
    BY <1>1, <1>2, <1>4, <1>6, <1>7, <1>8

\* The next step decides what kind of run it is.
LEMMA HeadStructure ==
    ASSUME TypeOK, Structure, ~Over
    PROVE  /\ Readonly => Head(todo) \in MeasuringSteps
           /\ ~Running => Head(todo) \in FailedSteps
           /\ Running /\ ~Readonly => Head(todo) \in WritingSteps
  BY HeadSteps DEF Structure, Over

\* What is left of it keeps the order.
LEMMA ContinueStructure ==
    ASSUME TypeOK, Structure, ~Over, UNCHANGED <<plan, raised>>, todo' = Tail(todo)
    PROVE  Structure'
  <1>1. /\ Readonly' <=> Readonly
        /\ Running' <=> Running
    BY DEF Readonly, Running
  <1>2. todo \in Seq(Steps) /\ todo # <<>>
    BY DEF TypeOK, Over
  <1>3. Ordered(todo) => Ordered(todo')
    BY <1>2, OrderedTail
  <1>4. \A S : todo \in Seq(S) => todo' \in Seq(S)
    BY <1>2, TailSteps
  <1> QED
    BY <1>1, <1>3, <1>4 DEF Structure

\* So does a run that repeats its step.
LEMMA SameStructure ==
    ASSUME Structure, UNCHANGED <<plan, raised, todo>> PROVE Structure'
  BY DEF Structure, Readonly, Running

\* And what is left after a failure.
LEMMA RaiseStructure ==
    ASSUME NEW kind \in {"failed", "aborted", "evicted"}, UNCHANGED plan, Raise(kind)
    PROVE  Structure'
  <1>1. raised' = kind /\ todo' = Unwinding(kind)
    BY DEF Raise
  <1>2. ~Running' /\ (Readonly' <=> Readonly)
    BY <1>1 DEF Running, Readonly
  <1>3. CASE Readonly
    <2>1. todo' = <<"restoreMemory", "report">>
      BY <1>1, <1>3 DEF Unwinding
    <2>2. <<"restoreMemory", "report">> \in Seq(FailedSteps)
      BY DEF FailedSteps
    <2> QED
      BY <1>2, <2>1, <2>2, ProgramStructure, PartsOrdered DEF Structure
  <1>4. CASE ~Readonly
    <2>1. todo' \in {<<"report">>, Reverting}
      BY <1>1, <1>4 DEF Unwinding
    <2>2. /\ <<"report">> \in Seq(FailedSteps)
          /\ Reverting \in Seq(FailedSteps)
      BY DEF Reverting, RevertSteps, FailedSteps
    <2> QED
      BY <1>2, <1>4, <2>1, <2>2 DEF Structure
  <1> QED
    BY <1>3, <1>4

\* A second round is in order, too.
LEMMA RetryingOrdered ==
    ASSUME NEW t \in Seq(RunSteps), t # <<>>, Ordered(t), t[1] = "inject"
    PROVE  Ordered(Retrying \o t)
  <1>1. Retrying \in Seq(RunSteps) /\ Len(Retrying) = 6
    BY ProgramSteps DEF Retrying
  <1>2. \A i \in 1..6 : Follows(Retrying[i], IF i = 6 THEN t[1] ELSE Retrying[i + 1])
    BY DEF Retrying, Follows
  <1> QED
    BY <1>1, <1>2, OrderedConcat

\* A run that does not write anew keeps the order.
LEMMA SpecialStructure ==
    ASSUME TypeOK, Structure, Special, UNCHANGED plan PROVE Structure'
  <1>1. ASSUME Resume PROVE Structure'
    <2>1. Place("resume")
      BY <1>1, Places
    <2>2. Running /\ ~Readonly
      BY <2>1, HeadStructure DEF Place, FailedSteps, RevertSteps, MeasuringSteps
    <2>3. ASSUME todo' = <<"write">> \o Writing, UNCHANGED raised PROVE Structure'
      <3>1. Running' /\ ~Readonly'
        BY <2>2, <2>3 DEF Running, Readonly
      <3> QED
        BY <2>3, <3>1, ProgramStructure DEF Structure
    <2> QED
      BY <1>1, <2>1, <2>3, ContinueStructure DEF Resume, Continue, Place
  <1>2. ASSUME Nmea PROVE Structure'
    <2>1. Place("nmea")
      BY <1>2, Places
    <2>2. Running
      BY <2>1, HeadStructure DEF Place, FailedSteps, RevertSteps
    <2>3. ASSUME Readonly, todo' = Observing \o Concluding, UNCHANGED raised PROVE Structure'
      <3>1. Running' /\ Readonly'
        BY <2>2, <2>3 DEF Running, Readonly
      <3> QED
        BY <2>3, <3>1, ProgramStructure DEF Structure
    <2>4. \/ Readonly /\ todo' = Observing \o Concluding /\ UNCHANGED raised
          \/ Continue \/ Raise("failed")
      BY <1>2 DEF Nmea, Fail
    <2> QED
      BY <2>1, <2>3, <2>4, ContinueStructure, RaiseStructure DEF Continue, Place
  <1>3. ASSUME VerifyRtcm PROVE Structure'
    <2>1. Place("verifyRtcm")
      BY <1>3, Places
    <2>2. Running /\ ~Readonly
      BY <2>1, HeadStructure DEF Place, FailedSteps, RevertSteps, MeasuringSteps
    <2>3. ASSUME todo' = Retrying \o Tail(todo), UNCHANGED raised PROVE Structure'
      <3>1. todo \in Seq(WritingSteps) /\ todo # <<>> /\ Ordered(todo)
        BY <2>1, <2>2 DEF Structure, Place, Over
      <3>2. Tail(todo) \in Seq(WritingSteps) /\ Ordered(Tail(todo))
        BY <3>1, OrderedTail, TailSteps
      <3>3. Tail(todo) # <<>> /\ Head(Tail(todo)) = "inject"
        BY <2>1, <3>1, OrderedTail DEF Place, Follows
      <3>4. Tail(todo) \in Seq(RunSteps)
        BY <3>2, MoreSteps DEF WritingSteps
      <3>5. Tail(todo)[1] = "inject"
        BY <3>3, <3>4
      <3>6. Ordered(todo')
        BY <2>3, <3>2, <3>3, <3>4, <3>5, RetryingOrdered
      <3>7. \A S : \A s, t \in Seq(S) : s \o t \in Seq(S)
        OBVIOUS
      <3>8. todo' \in Seq(WritingSteps)
        BY <2>3, <3>2, <3>7, ProgramStructure
      <3>9. Running' /\ ~Readonly'
        BY <2>2, <2>3 DEF Running, Readonly
      <3> QED
        BY <3>6, <3>8, <3>9 DEF Structure
    <2>4. \/ todo' = Retrying \o Tail(todo) /\ UNCHANGED raised
          \/ Continue \/ Raise("failed")
      BY <1>3 DEF VerifyRtcm, Fail
    <2> QED
      BY <2>1, <2>3, <2>4, ContinueStructure, RaiseStructure DEF Continue, Place
  <1>4. ASSUME RevertPos \/ RevertMode \/ RevertRates PROVE Structure'
    <2>1. Place("revertPos") \/ Place("revertMode") \/ Place("revertRates")
      BY <1>4, Places
    <2>2. ~Running /\ ~Readonly
      BY <2>1, HeadStructure
      DEF Place, RevertSteps, WritingSteps, RunSteps, Checked, MeasuringSteps
    <2>3. UNCHANGED raised /\ todo' \in {Tail(todo), <<>>}
      BY <1>4 DEF RevertPos, RevertMode, RevertRates, RevertBy
    <2>4. ASSUME todo' = <<>> PROVE Structure'
      <3>1. ~Running' /\ ~Readonly'
        BY <2>2, <2>3 DEF Running, Readonly
      <3> QED
        BY <2>4, <3>1 DEF Structure
    <2> QED
      BY <2>1, <2>3, <2>4, ContinueStructure DEF Place
  <1>5. ASSUME SvinEnter \/ UserCancel \/ Evict \/ PowerLoss PROVE Structure'
    BY <1>5, SameStructure DEF SvinEnter, UserCancel, Evict, PowerLoss
  <1> QED
    BY <1>1, <1>2, <1>3, <1>4, <1>5 DEF Special

\* What remains is always in order.
LEMMA StructureNext == TypeOK /\ Structure /\ [Next]_vars => Structure'
  <1> SUFFICES ASSUME TypeOK, Structure, [Next]_vars PROVE Structure'
    OBVIOUS
  <1>1. CASE UNCHANGED vars
    BY <1>1, SameStructure DEF vars, runs
  <1>2. CASE Next
    <2>1. UNCHANGED plan
      BY <1>2, PlanStays DEF runs
    <2>2. CASE Checkpoint
      <3>1. Raise("aborted") \/ Raise("evicted")
        BY <2>2 DEF Checkpoint
      <3> QED
        BY <2>1, <3>1, RaiseStructure
    <2>3. CASE Usual
      <3>1. ~Over
        BY <2>3, Places DEF Usual, Place
      <3>2. Continue \/ Raise("failed") \/ UNCHANGED <<todo, raised>>
        BY <2>3, UsualEnds DEF Retry, Fail
      <3> QED
        BY <2>1, <3>1, <3>2, ContinueStructure, SameStructure, RaiseStructure DEF Continue
    <2> QED
      BY <1>2, <2>1, <2>2, <2>3, SpecialStructure, NextSteps
  <1> QED
    BY <1>1, <1>2

\* At first it is the whole program.
LEMMA StructureInit == Init => Structure
  <1> SUFFICES ASSUME Init PROVE Structure
    OBVIOUS
  <1>1. Running /\ plan \in AllPlans /\ todo = Program(plan)
    BY PlansAssumption DEF Init, Running
  <1> QED
    BY <1>1, ProgramStructure DEF Structure, Readonly

-----------------------------------------------------------------------------
(* What a command does to the module.                                      *)

\* SAVEPAR that is acknowledged has saved, or one more loss went undetected.
LEMMA SaveEffect ==
    \A m \in Modules : \A r \in SavePar(m) : r.res = "ok" =>
       /\ r.m.ram = m.ram
       /\ \/ r.m.nvm = m.ram /\ r.m.lies = m.lies
          \/ r.m.lies = m.lies + 1
  BY BoundsAssumption DEF SavePar, Lying, Faulty, Result, Modules

\* So has a restart loaded the NVM.
LEMMA RebootEffect ==
    \A m \in Modules : \A r \in Reboot(m) : r.res = "ok" =>
       /\ r.m.nvm = m.nvm
       /\ \/ r.m.ram = m.nvm /\ r.m.lies = m.lies
          \/ r.m.ram = m.ram /\ r.m.lies = m.lies + 1
  BY BoundsAssumption DEF Reboot, Lying, Faulty, Result, Modules

\* Queries lie no more often.
LEMMA QueryEffect == \A m \in Modules : \A r \in Query(m) : r.m.lies = m.lies
  BY BoundsAssumption DEF Query, Faulty, Result, Modules

\* Nor do two of them, which change nothing either.
LEMMA TwoQueriesEffect ==
    \A m \in Modules : \A r \in Then(Query(m), LAMBDA n : Query(n)) :
       r.m.ram = m.ram /\ r.m.nvm = m.nvm /\ r.m.lies = m.lies
  <1>1. \A m \in Modules : \A r \in Query(m) :
           r.m \in Modules /\ r.m.ram = m.ram /\ r.m.nvm = m.nvm /\ r.m.lies = m.lies
    BY QueryResult, QueryEffect, ResultModule
  <1> QED
    BY <1>1 DEF Then

-----------------------------------------------------------------------------
(* What a command does to the module, and what it counts.                  *)

\* Commands that failed or had no effect.
Bad(m) == m.faults + m.lies

\* n comes after m, with no more positions than those of P.
Moved(m, n, P) ==
    /\ n \in Modules /\ Bad(n) >= Bad(m)
    /\ n.ram.pos \in {m.ram.pos, m.nvm.pos} \cup P
    /\ n.nvm.pos \in {m.ram.pos, m.nvm.pos}

\* The count is a number.
LEMMA BadNat == \A m \in Modules : Bad(m) \in Nat
  <1> TAKE m \in Modules
  <1>1. m.faults \in Nat /\ m.lies \in Nat
    BY BoundsAssumption DEF Modules
  <1> QED
    BY <1>1 DEF Bad

\* A command.
LEMMA CommandMoves ==
    ASSUME NEW m \in Modules, NEW cfg \in Configs
    PROVE  \A r \in Command(m, cfg) :
             /\ Moved(m, r.m, {cfg.pos}) /\ r.m.nvm = m.nvm
             /\ r.m.ram \in {m.ram, cfg}
  <1>1. m.faults \in Nat /\ m.lies \in Nat
    BY BoundsAssumption DEF Modules
  <1>2. \A r \in Command(m, cfg) : r.m \in Modules
    BY CommandResult, ResultModule
  <1>3. \A r \in Command(m, cfg) :
           /\ r.m.faults >= m.faults /\ r.m.faults \in Nat
           /\ r.m.lies >= m.lies /\ r.m.lies \in Nat
           /\ r.m.nvm = m.nvm /\ r.m.ram \in {m.ram, cfg}
    BY <1>1 DEF Command, Lying, Faulty, Result, Modules
  <1> QED
    BY <1>1, <1>2, <1>3 DEF Moved, Bad

\* SAVEPAR: the NVM is written, or a loss is counted.
LEMMA SaveMoves ==
    ASSUME NEW m \in Modules
    PROVE  \A r \in SavePar(m) :
             /\ Moved(m, r.m, {}) /\ r.m.ram = m.ram
             /\ r.m.nvm = m.ram \/ (r.m.nvm = m.nvm /\ Bad(r.m) >= Bad(m) + 1)
             /\ r.m.nvm = m.nvm \/ r.res = "ok" \/ Bad(r.m) >= Bad(m) + 1
  <1>1. m.faults \in Nat /\ m.lies \in Nat
    BY BoundsAssumption DEF Modules
  <1>2. \A r \in SavePar(m) : r.m \in Modules
    BY SaveResult, ResultModule
  <1>3. \A r \in SavePar(m) :
           /\ r.m.ram = m.ram
           /\ \/ r.m.faults = m.faults /\ r.m.lies = m.lies /\ r.m.nvm = m.ram /\ r.res = "ok"
              \/ r.m.faults = m.faults + 1 /\ r.m.lies = m.lies /\ r.m.nvm \in {m.ram, m.nvm}
              \/ r.m.faults = m.faults /\ r.m.lies = m.lies + 1 /\ r.m.nvm = m.nvm
    BY <1>1 DEF SavePar, Lying, Faulty, Result, Modules
  <1> QED
    BY <1>1, <1>2, <1>3 DEF Moved, Bad

\* A restart.
LEMMA RebootMoves ==
    ASSUME NEW m \in Modules
    PROVE  \A r \in Reboot(m) : Moved(m, r.m, {}) /\ r.m.nvm = m.nvm
  <1>1. m.faults \in Nat /\ m.lies \in Nat
    BY BoundsAssumption DEF Modules
  <1>2. \A r \in Reboot(m) : r.m \in Modules
    BY RebootResult, ResultModule
  <1>3. \A r \in Reboot(m) :
           /\ r.m.faults >= m.faults /\ r.m.faults \in Nat
           /\ r.m.lies >= m.lies /\ r.m.lies \in Nat
           /\ r.m.nvm = m.nvm /\ r.m.ram \in {m.ram, m.nvm}
    BY <1>1 DEF Reboot, Lying, Faulty, Result, Modules
  <1> QED
    BY <1>1, <1>2, <1>3 DEF Moved, Bad

\* A query.
LEMMA QueryMoves ==
    ASSUME NEW m \in Modules
    PROVE  \A r \in Query(m) : Moved(m, r.m, {}) /\ r.m.ram = m.ram /\ r.m.nvm = m.nvm
  <1>1. m.faults \in Nat /\ m.lies \in Nat
    BY BoundsAssumption DEF Modules
  <1>2. \A r \in Query(m) : r.m \in Modules
    BY QueryResult, ResultModule
  <1>3. \A r \in Query(m) :
           /\ r.m.faults >= m.faults /\ r.m.faults \in Nat
           /\ r.m.lies >= m.lies /\ r.m.lies \in Nat
           /\ r.m.nvm = m.nvm /\ r.m.ram = m.ram
    BY <1>1 DEF Query, Faulty, Result, Modules
  <1> QED
    BY <1>1, <1>2, <1>3 DEF Moved, Bad

\* What only reads moves nothing.
LEMMA MovedOn ==
    ASSUME NEW m \in Modules, NEW n, NEW k, NEW P,
           Moved(m, n, P), Moved(n, k, {}), k.ram = n.ram, k.nvm = n.nvm
    PROVE  Moved(m, k, P)
  <1>1. n \in Modules /\ k \in Modules
    BY DEF Moved
  <1>2. Bad(m) \in Nat /\ Bad(n) \in Nat /\ Bad(k) \in Nat
    BY <1>1, BadNat
  <1>3. Bad(k) >= Bad(m)
    BY <1>2 DEF Moved
  <1> QED
    BY <1>1, <1>3 DEF Moved

\* Two queries.
LEMMA TwoQueriesMove ==
    ASSUME NEW m \in Modules
    PROVE  \A r \in Then(Query(m), LAMBDA n : Query(n)) :
             Moved(m, r.m, {}) /\ r.m.ram = m.ram /\ r.m.nvm = m.nvm
  <1>1. \A r \in Query(m) :
           r.m \in Modules /\ Moved(m, r.m, {}) /\ r.m.ram = m.ram /\ r.m.nvm = m.nvm
    BY QueryMoves DEF Moved
  <1>2. ASSUME NEW r \in Query(m), NEW q \in Query(r.m)
        PROVE  Moved(m, q.m, {}) /\ q.m.ram = m.ram /\ q.m.nvm = m.nvm
    <2>1. Moved(r.m, q.m, {}) /\ q.m.ram = r.m.ram /\ q.m.nvm = r.m.nvm
      BY <1>1, QueryMoves
    <2> QED
      BY <1>1, <2>1, MovedOn
  <1> QED
    BY <1>1, <1>2 DEF Then

\* The mode, in memory or saved as well.
LEMMA ModeMoves ==
    ASSUME NEW m \in Modules, NEW mode \in Modes
    PROVE  /\ \A r \in SetMode(m, mode, FALSE) : Moved(m, r.m, {}) /\ r.m.nvm = m.nvm
           /\ \A r \in SetMode(m, mode, TRUE) :
                /\ r.m \in Modules /\ Bad(r.m) >= Bad(m)
                /\ r.m.nvm = r.m.ram \/ (r.m.nvm = m.nvm /\ Bad(r.m) >= Bad(m) + 1)
  <1>1. InMode(m, mode) \in Configs /\ InMode(m, mode).pos = m.ram.pos
    BY InModeConfig DEF InMode, Modules, Configs
  <1>2. m.faults \in Nat /\ m.lies \in Nat /\ Bad(m) \in Nat
    BY BadNat, BoundsAssumption DEF Modules
  <1>3. \A r \in Command(m, InMode(m, mode)) :
           /\ r.m \in Modules /\ Moved(m, r.m, {m.ram.pos}) /\ r.m.nvm = m.nvm
           /\ r.res # "ok" => Bad(r.m) >= Bad(m) + 1
    <2>1. \A r \in Command(m, InMode(m, mode)) : r.res # "ok" => Bad(r.m) >= Bad(m) + 1
      BY <1>2 DEF Command, Lying, Faulty, Result, Modules, Bad
    <2> QED
      BY <1>1, <2>1, CommandMoves DEF Moved
  <1>4. \A r \in SetMode(m, mode, FALSE) : Moved(m, r.m, {}) /\ r.m.nvm = m.nvm
    <2>1. \A r \in SetMode(m, mode, FALSE) :
             \E s \in Command(m, InMode(m, mode)) : r.m = s.m
      BY DEF SetMode, Then, Result
    <2> QED
      BY <1>3, <2>1 DEF Moved
  <1>5. ASSUME NEW s \in Command(m, InMode(m, mode)), NEW r \in SavePar(s.m)
        PROVE  /\ r.m \in Modules /\ Bad(r.m) >= Bad(m)
               /\ r.m.nvm = r.m.ram \/ (r.m.nvm = m.nvm /\ Bad(r.m) >= Bad(m) + 1)
    <2>1. s.m \in Modules /\ Bad(s.m) >= Bad(m) /\ s.m.nvm = m.nvm
      BY <1>3 DEF Moved
    <2>2. /\ r.m \in Modules /\ Bad(r.m) >= Bad(s.m) /\ r.m.ram = s.m.ram
          /\ r.m.nvm = s.m.ram \/ (r.m.nvm = s.m.nvm /\ Bad(r.m) >= Bad(s.m) + 1)
      BY <2>1, SaveMoves DEF Moved
    <2>3. Bad(s.m) \in Nat /\ Bad(r.m) \in Nat
      BY <2>1, <2>2, BadNat
    <2> QED
      BY <1>2, <2>1, <2>2, <2>3
  <1>6. ASSUME NEW r \in SetMode(m, mode, TRUE)
        PROVE  /\ r.m \in Modules /\ Bad(r.m) >= Bad(m)
               /\ r.m.nvm = r.m.ram \/ (r.m.nvm = m.nvm /\ Bad(r.m) >= Bad(m) + 1)
    <2>1. \/ r \in Command(m, InMode(m, mode)) /\ r.res # "ok"
          \/ \E s \in Command(m, InMode(m, mode)) : r \in SavePar(s.m)
      BY DEF SetMode, Then
    <2> QED
      BY <1>3, <1>5, <2>1 DEF Moved
  <1> QED
    BY <1>4, <1>6

-----------------------------------------------------------------------------
(* A run that writes without measuring.                                    *)

SimpleSteps == {"write", "configSvin", "switch", "messages", "save", "restart",
                "verifyMode", "verifyRtcm", "rewrite", "inject", "report"}

\* Its steps; it never configures a Survey-in of its own.
SimpleInv ==
    Simple /\ Running =>
        /\ todo \in Seq(SimpleSteps)
        /\ ram.pos # "surveying" /\ nvm.pos # "surveying"

SimpleStep ==
    \/ WriteCoord \/ ConfigSvin \/ Switch \/ SetupMessages \/ Save \/ Restart
    \/ VerifyMode \/ VerifyRtcm \/ Rewrite \/ Inject \/ Report

\* A run that has failed stays failed.
LEMMA RunningBefore == [Next]_vars /\ Running' => Running
  <1>1. Checkpoint => raised' # "none"
    BY DEF Checkpoint, Raise
  <1>2. Usual \/ Special => raised' # "none" \/ raised' = raised
    BY EvictedByCheckpoint
  <1> QED
    BY <1>1, <1>2, NextSteps DEF vars, Running

\* Its programs, and what it writes.
LEMMA SimplePrograms ==
    /\ Simple => Program(plan) \in Seq(SimpleSteps) /\ TargetPos \in {"new", "old", "survey", "off"}
    /\ Retrying \in Seq(SimpleSteps)
  <1>1. /\ "write" \in SimpleSteps /\ "configSvin" \in SimpleSteps /\ "switch" \in SimpleSteps
        /\ Writing \in Seq(SimpleSteps) /\ Retrying \in Seq(SimpleSteps)
    BY DEF Writing, Retrying, SimpleSteps
  <1>2. /\ <<"write", "switch">> \in Seq(SimpleSteps)
        /\ <<"configSvin", "switch">> \in Seq(SimpleSteps)
    BY <1>1
  <1>3. \A s, t \in Seq(SimpleSteps) : s \o t \in Seq(SimpleSteps)
    OBVIOUS
  <1>4. Simple => Program(plan) \in {<<"write", "switch">> \o Writing,
                                     <<"configSvin", "switch">> \o Writing}
    BY DEF Simple, Restores, Program
  <1>5. Simple => TargetPos \in {"new", "old", "survey", "off"}
    BY DEF TargetPos
  <1> QED
    BY <1>1, <1>2, <1>3, <1>4, <1>5

\* No other step is taken at its places.
LEMMA OnlySimple ==
    ASSUME TypeOK, Simple, Running, SimpleInv, Usual \/ Special
    PROVE  SimpleStep \/ UserCancel \/ Evict \/ PowerLoss
  <1>1. \A step : Place(step) => step \in SimpleSteps
    BY HeadSteps DEF SimpleInv, Place, Over
  <1> QED
    BY <1>1, Places DEF Usual, Special, SimpleSteps, SimpleStep

\* What is saved stays so.
LEMMA SavedStays == SimpleStep \/ UserCancel \/ Evict \/ PowerLoss => (saved => saved')
  <1>1. WriteCoord /\ saved => saved'
    BY Zenon DEF WriteCoord, WriteAndCheck
  <1>2. ConfigSvin /\ saved => saved'
    BY Zenon DEF ConfigSvin, WriteAndCheck
  <1>3. Switch /\ saved => saved'
    BY Zenon DEF Switch
  <1>4. SetupMessages /\ saved => saved'
    BY Zenon DEF SetupMessages
  <1>5. Save /\ saved => saved'
    BY Zenon DEF Save
  <1>6. (Restart \/ VerifyMode \/ Inject \/ Report) /\ saved => saved'
    BY Zenon DEF Restart, VerifyMode, Inject, Report, flags
  <1>7. VerifyRtcm /\ saved => saved'
    BY Zenon DEF VerifyRtcm, flags
  <1>8. Rewrite /\ saved => saved'
    BY Zenon DEF Rewrite
  <1>9. (UserCancel \/ Evict \/ PowerLoss) /\ saved => saved'
    BY Zenon DEF UserCancel, Evict, PowerLoss, flags
  <1> QED
    BY <1>1, <1>2, <1>3, <1>4, <1>5, <1>6, <1>7, <1>8, <1>9 DEF SimpleStep

\* What its steps do to the module: only Save writes the NVM.
LEMMA SimpleMoves ==
    ASSUME TypeOK, Simple, SimpleStep \/ UserCancel \/ Evict \/ PowerLoss
    PROVE  /\ Moved(module, module', {TargetPos})
           /\ module'.nvm = module.nvm \/ Save
  <1>1. module \in Modules /\ TargetPos \in Positions /\ TargetMode \in Modes
    BY Targets
  <1>2. /\ [ram EXCEPT !.pos = TargetPos] \in Configs
        /\ [ram EXCEPT !.pos = TargetPos].pos = TargetPos
    BY <1>1, Targets DEF ram, Modules, Configs
  <1>3. \A r \in Command(module, [ram EXCEPT !.pos = TargetPos]) :
           Moved(module, r.m, {TargetPos}) /\ r.m.nvm = module.nvm /\ r.m \in Modules
    BY <1>1, <1>2, CommandMoves DEF Moved
  <1>4. ASSUME NEW m \in Modules, Moved(module, m, {TargetPos}), NEW q \in Query(m)
        PROVE  Moved(module, q.m, {TargetPos}) /\ q.m.nvm = m.nvm
    BY <1>1, <1>4, QueryMoves, MovedOn
  <1>5. Moved(module, module, {TargetPos})
    BY <1>1, BadNat DEF Moved
  <1>6. CASE WriteAndCheck(TargetPos)
    BY <1>3, <1>4, <1>6 DEF WriteAndCheck
  <1>7. CASE WriteCoord \/ ConfigSvin
    BY <1>3, <1>6, <1>7 DEF WriteCoord, ConfigSvin
  <1>8. CASE Switch
    <2>1. plan # "survey"
      BY DEF Simple, Restores
    <2>2. PICK r \in SetMode(module, TargetMode, FALSE) : module' = r.m
      BY <1>8, <2>1 DEF Switch
    <2> QED
      BY <1>1, <2>2, ModeMoves DEF Moved
  <1>9. CASE SetupMessages
    <2>1. \A msgs \in Messages : /\ [ram EXCEPT !.msgs = msgs] \in Configs
                                 /\ [ram EXCEPT !.msgs = msgs].pos = module.ram.pos
      BY <1>1, Targets DEF ram, Modules, Configs
    <2>2. \A msgs \in Messages : \A r \in Command(module, [ram EXCEPT !.msgs = msgs]) :
             Moved(module, r.m, {TargetPos}) /\ r.m.nvm = module.nvm /\ r.m \in Modules
      <3> TAKE msgs \in Messages
      <3> DEFINE cfg == [ram EXCEPT !.msgs = msgs]
      <3>1. cfg \in Configs /\ cfg.pos = module.ram.pos
        BY <2>1
      <3> HIDE DEF cfg
      <3>2. \A r \in Command(module, cfg) : Moved(module, r.m, {cfg.pos}) /\ r.m.nvm = module.nvm
        BY <1>1, <3>1, CommandMoves
      <3>3. \A r \in Command(module, cfg) :
               Moved(module, r.m, {TargetPos}) /\ r.m.nvm = module.nvm /\ r.m \in Modules
        BY <3>1, <3>2 DEF Moved
      <3> QED
        BY <3>3 DEF cfg
    <2>3. ASSUME module' = module
          PROVE  module'.nvm = module.nvm /\ Moved(module, module', {TargetPos})
      BY <1>5, <2>3
    <2>4. ASSUME Restoring, backup.msgs # "none",
                 NEW r \in Command(module, [ram EXCEPT !.msgs = backup.msgs]), module' = r.m
          PROVE  module'.nvm = module.nvm /\ Moved(module, module', {TargetPos})
      <3>1. backup.msgs \in Messages
        BY <2>4, Targets
      <3> QED
        BY <2>2, <2>4, <3>1
    <2>5. ASSUME NEW r \in Command(module, [ram EXCEPT !.msgs = "rtcm"]),
                 NEW q \in Query(r.m), module' = q.m
          PROVE  module'.nvm = module.nvm /\ Moved(module, module', {TargetPos})
      <3>1. "rtcm" \in Messages
        BY DEF Messages
      <3>2. r.m \in Modules /\ Moved(module, r.m, {TargetPos}) /\ r.m.nvm = module.nvm
        BY <2>2, <3>1
      <3> QED
        BY <1>4, <2>5, <3>2
    <2>6. module'.nvm = module.nvm /\ Moved(module, module', {TargetPos})
      BY Zenon, <1>9, <2>3, <2>4, <2>5 DEF SetupMessages
    <2> QED
      BY <2>6
  <1>10. CASE Save
    <2>1. PICK r \in SavePar(module) : \E q \in Query(r.m) : module' = r.m \/ module' = q.m
      BY <1>10 DEF Save
    <2>2. PICK q \in Query(r.m) : module' = r.m \/ module' = q.m
      BY <2>1
    <2>3. Moved(module, r.m, {TargetPos}) /\ r.m \in Modules
      BY <1>1, SaveMoves DEF Moved
    <2>4. Moved(module, q.m, {TargetPos})
      BY <1>4, <2>3
    <2> QED
      BY <1>10, <2>2, <2>3, <2>4
  <1>11. CASE Restart
    BY <1>1, <1>11, RebootMoves DEF Restart, Moved
  <1>12. CASE VerifyMode
    BY <1>1, <1>12, TwoQueriesMove DEF VerifyMode, Moved
  <1>13. CASE VerifyRtcm
    BY <1>1, <1>4, <1>5, <1>13 DEF VerifyRtcm
  <1>14. CASE Rewrite
    BY <1>3, <1>14 DEF Rewrite
  <1>15. CASE Inject \/ Report \/ UserCancel \/ Evict
    BY <1>5, <1>15 DEF Inject, Report, UserCancel, Evict
  <1>16. CASE PowerLoss
    <2>1. /\ module' \in Modules
      BY <1>16, TypeEnvironment DEF TypeOK
    <2>2. /\ module'.ram = module.nvm /\ module'.nvm = module.nvm
          /\ module'.faults = module.faults /\ module'.lies = module.lies
      BY <1>1, <1>16 DEF PowerLoss, Modules, nvm
    <2> QED
      BY <1>1, <2>1, <2>2, BadNat DEF Moved, Bad
  <1> QED
    BY <1>7, <1>8, <1>9, <1>10, <1>11, <1>12, <1>13, <1>14, <1>15, <1>16 DEF SimpleStep

\* How such a run goes on, or ends.
LEMMA SimpleEnds ==
    ASSUME SimpleStep \/ UserCancel \/ Evict \/ PowerLoss, Running, Running'
    PROVE  todo' \in {todo, Tail(todo), Retrying \o Tail(todo)}
  <1>1. Continue \/ Retry \/ Raise("failed") => todo' \in {todo, Tail(todo)}
    BY DEF Continue, Retry, Fail, Raise, Running
  <1>2. CASE VerifyRtcm
    BY <1>1, <1>2 DEF VerifyRtcm, Fail
  <1>3. CASE UserCancel \/ Evict \/ PowerLoss
    BY <1>3 DEF UserCancel, Evict, PowerLoss
  <1> QED
    BY <1>1, <1>2, <1>3, UsualEnds DEF SimpleStep, Usual

\* It keeps to its steps and to its coordinates.
LEMMA SimpleNext == TypeOK /\ Structure /\ SimpleInv /\ [Next]_vars => SimpleInv'
  <1> SUFFICES ASSUME TypeOK, Structure, SimpleInv, [Next]_vars, Simple', Running' PROVE SimpleInv'
    BY DEF SimpleInv
  <1>1. Running /\ Simple
    BY RunningBefore, PlanStays DEF vars, runs, Simple
  <1>2. CASE UNCHANGED vars
    BY <1>1, <1>2 DEF vars, SimpleInv, ram, nvm
  <1>3. ~Checkpoint
    BY DEF Checkpoint, Raise, Running
  <1>4. CASE Next
    <2>1. SimpleStep \/ UserCancel \/ Evict \/ PowerLoss
      BY <1>1, <1>3, <1>4, OnlySimple, NextSteps
    <2>2. todo \in Seq(SimpleSteps) /\ module.ram.pos # "surveying" /\ module.nvm.pos # "surveying"
      BY <1>1 DEF SimpleInv, ram, nvm
    <2>3. module'.ram.pos # "surveying" /\ module'.nvm.pos # "surveying"
      BY <1>1, <2>1, <2>2, SimpleMoves, SimplePrograms DEF Moved
    <2>4. todo' \in {todo, Tail(todo), Retrying \o Tail(todo)}
      BY <1>1, <2>1, SimpleEnds
    <2>5. todo # <<>> => todo' \in Seq(SimpleSteps)
      <3>1. \A s, t \in Seq(SimpleSteps) : s \o t \in Seq(SimpleSteps)
        OBVIOUS
      <3> QED
        BY <2>2, <2>4, <3>1, TailSteps, SimplePrograms
    <2>6. todo # <<>>
      BY <2>1, Places DEF SimpleStep, UserCancel, Evict, PowerLoss, Place, Over
    <2> QED
      BY <2>3, <2>5, <2>6 DEF SimpleInv, ram, nvm
  <1> QED
    BY <1>2, <1>4

\* It begins with an earlier configuration, or as a base that was calibrated.
LEMMA SimpleInit == Init => SimpleInv
  <1> SUFFICES ASSUME Init, Simple PROVE SimpleInv
    BY DEF SimpleInv
  <1>1. todo = Program(plan) /\ ram = before /\ nvm = before
    BY DEF Init, ram, nvm
  <1>2. before.pos # "surveying"
    <2>1. PICK cfg \in Earlier :
             before = IF Restoring THEN [mode |-> "base", pos |-> "new", msgs |-> "rtcm"] ELSE cfg
      BY DEF Init
    <2>2. cfg.pos \in {"old", "survey", "off"}
      BY EarlierAssumption
    <2> QED
      BY <2>1, <2>2
  <1> QED
    BY <1>1, <1>2, SimplePrograms DEF SimpleInv

-----------------------------------------------------------------------------
(* What a run that writes says is true.                                    *)

\* The NVM holds what the plan aims at.
Kept == nvm.mode = TargetMode /\ (plan # "restoreDisabled" => nvm.pos = TargetPos)

\* From the saving on: which losses are still undetected.
WrittenInv ==
    Running /\ ~Readonly /\ module.lies <= 1 =>
        /\ Over => Kept
        /\ Place("restart") => ram = nvm \/ module.lies = 1
        /\ Place("verifyMode") => ram = nvm
        /\ Place("verifyRtcm") \/ Place("inject") \/ Place("report") => Kept

\* A record is stored at the end of a run.
RecordInv ==
    record # "none" =>
        /\ Running /\ todo \in {<<"report">>, <<>>}
        /\ record \in {"match", "warning"} => ~Readonly /\ ~Restoring

\* What may follow when a run that writes goes on.
LEMMA NextPlace ==
    ASSUME TypeOK, Structure, ~Over, Running, ~Readonly, todo' = Tail(todo)
    PROVE  /\ Over' => Place("report")
           /\ Place("restart")' <=> Place("save")
           /\ Place("verifyMode")' <=> Place("restart")
           /\ Place("verifyRtcm")' <=> Place("verifyMode")
           /\ Place("inject")' => Place("verifyRtcm")
           /\ Place("report")' => Place("inject")
  <1>1. todo \in Seq(WritingSteps) /\ todo # <<>> /\ Ordered(todo)
    BY DEF Structure, Over
  <1>2. IF todo' = <<>> THEN Head(todo) = "report" ELSE Follows(Head(todo), Head(todo'))
    BY <1>1, OrderedTail
  <1>3. Head(todo) # "restoreMemory"
    BY <1>1, HeadSteps DEF WritingSteps
  <1> QED
    BY <1>1, <1>2, <1>3 DEF Follows, Place, Over

\* Before the saving nothing is promised.
LEMMA WrittenEarly ==
    ASSUME TypeOK, Structure, ~Over, Running, ~Readonly,
           Head(todo) \notin {"save"} \cup LateSteps,
           todo' = Tail(todo) \/ (~Over' /\ Head(todo') \notin LateSteps)
    PROVE  WrittenInv'
  <1>1. CASE todo' = Tail(todo)
    BY <1>1, NextPlace DEF WrittenInv, Place, LateSteps
  <1>2. CASE ~Over' /\ Head(todo') \notin LateSteps
    BY <1>2 DEF WrittenInv, Place, LateSteps
  <1> QED
    BY <1>1, <1>2

\* The target stays.
LEMMA KeptStays == UNCHANGED runs /\ module'.nvm = module.nvm /\ Kept => Kept'
  BY DEF runs, Kept, TargetMode, TargetPos, Restoring, nvm

\* What saving and restarting do.
LEMMA WrittenSave ==
    ASSUME TypeOK, Structure, Running, ~Readonly, Save, Running', module'.lies <= 1
    PROVE  WrittenInv'
  <1>1. Place("save")
    BY Places
  <1>2. PICK r \in SavePar(module) : \E q \in Query(r.m) :
           r.res = "ok" /\ module' = q.m /\ Continue
    BY DEF Save, Fail, Raise, Running
  <1>3. PICK q \in Query(r.m) : module' = q.m
    BY <1>2
  <1>4. r.m \in Modules /\ module \in Modules
    BY SaveResult, ResultModule DEF TypeOK
  <1>5. /\ module'.ram = r.m.ram /\ module'.nvm = r.m.nvm /\ module'.lies = r.m.lies
    BY <1>3, <1>4, QueryResult, QueryEffect
  <1>6. module'.ram = module'.nvm \/ module'.lies = module.lies + 1
    BY <1>2, <1>4, <1>5, SaveEffect
  <1>7. module.lies \in Nat
    BY <1>4, BoundsAssumption DEF Modules
  <1>8. module'.ram = module'.nvm \/ module'.lies = 1
    BY <1>6, <1>7
  <1>9. Place("restart")' /\ ~Over'
    BY <1>1, <1>2, NextPlace DEF Continue, Place
  <1> QED
    BY <1>8, <1>9 DEF WrittenInv, Place, ram, nvm

\* The restart uncovers a saving that was lost.
LEMMA WrittenRestart ==
    ASSUME TypeOK, Structure, WrittenInv, Running, ~Readonly, Restart, Running',
           module'.lies <= 1
    PROVE  WrittenInv'
  <1>1. Place("restart")
    BY Places
  <1>2. PICK r \in Reboot(module) : r.res = "ok" /\ module' = r.m /\ Continue
    BY DEF Restart, Fail, Raise, Running
  <1>3. module \in Modules
    BY DEF TypeOK
  <1>4. /\ module'.nvm = module.nvm
        /\ \/ module'.ram = module.nvm /\ module'.lies = module.lies
           \/ module'.ram = module.ram /\ module'.lies = module.lies + 1
    BY <1>2, <1>3, RebootEffect
  <1>5. module.lies \in Nat
    BY <1>3, BoundsAssumption DEF Modules
  <1>6. module.lies <= 1 /\ (module'.lies = module.lies + 1 => module.lies # 1)
    BY <1>4, <1>5
  <1>7. module.ram = module.nvm \/ module.lies = 1
    BY <1>1, <1>6 DEF WrittenInv, ram, nvm
  <1>8. module'.ram = module'.nvm
    BY <1>4, <1>6, <1>7
  <1>9. Place("verifyMode")' /\ ~Over'
    BY <1>1, <1>2, NextPlace DEF Continue, Place
  <1> QED
    BY <1>8, <1>9 DEF WrittenInv, Place, ram, nvm

\* And the reading back a restart that loaded something else.
LEMMA WrittenVerify ==
    ASSUME TypeOK, Structure, SimpleInv, WrittenInv, Running, ~Readonly, VerifyMode, Running',
           module'.lies <= 1, UNCHANGED runs
    PROVE  WrittenInv'
  <1>1. Place("verifyMode")
    BY Places
  <1>2. PICK q \in Then(Query(module), LAMBDA n : Query(n)) :
           /\ module' = q.m /\ q.m.ram.mode = TargetMode
           /\ plan # "restoreDisabled" => Alike(q.m.ram.pos, TargetPos)
           /\ Continue
    BY DEF VerifyMode, Fail, Raise, Running
  <1>3. module'.ram = module.ram /\ module'.nvm = module.nvm /\ module'.lies = module.lies
    BY <1>2, TwoQueriesEffect DEF TypeOK
  <1>4. module.ram = module.nvm
    BY <1>1, <1>3 DEF WrittenInv, ram, nvm
  <1>5. plan # "restoreDisabled" => module.ram.pos = TargetPos
    <2>1. plan = "restoreSurvey" => module.ram.pos # "surveying"
      BY DEF SimpleInv, Simple, Restores, ram
    <2>2. module.ram.pos \in Positions
      BY DEF TypeOK, Modules, Configs
    <2> QED
      BY <1>2, <1>3, <2>1, <2>2 DEF Alike, Kind, TargetPos, Positions
  <1>6. Kept'
    BY <1>2, <1>3, <1>4, <1>5 DEF Kept, runs, TargetMode, TargetPos, Restoring, nvm
  <1>7. Place("verifyRtcm")' /\ ~Over'
    BY <1>1, <1>2, NextPlace DEF Continue, Place
  <1> QED
    BY <1>6, <1>7 DEF WrittenInv, Place

\* The first of two sequences is the first to begin.
LEMMA HeadConcat ==
    ASSUME NEW S, NEW s \in Seq(S), s # <<>>, NEW t \in Seq(S) PROVE Head(s \o t) = Head(s)
  OBVIOUS

\* What follows leaves the NVM alone.
LEMMA WrittenLate ==
    ASSUME TypeOK, Structure, WrittenInv, Running, ~Readonly, VerifyRtcm \/ Inject \/ Report,
           Running', module'.lies <= 1, UNCHANGED runs
    PROVE  WrittenInv'
  <1>1. Place("verifyRtcm") \/ Place("inject") \/ Place("report")
    BY Places
  <1>2. module'.nvm = module.nvm /\ module'.lies = module.lies
    BY QueryResult, QueryEffect DEF TypeOK, VerifyRtcm, Inject, Report
  <1>3. Kept'
    BY <1>1, <1>2, KeptStays DEF WrittenInv
  <1>4. todo' = Tail(todo) \/ todo' = Retrying \o Tail(todo)
    BY DEF VerifyRtcm, Inject, Report, Fail, Raise, Continue, Running
  <1>5. ~Place("restart")' /\ ~Place("verifyMode")'
    <2>1. CASE todo' = Tail(todo)
      BY <1>1, <2>1, NextPlace DEF Place
    <2>2. CASE todo' = Retrying \o Tail(todo)
      <3>1. Tail(todo) \in Seq(RunSteps)
        BY <1>1, TailSteps, MoreSteps DEF Structure, WritingSteps, Place, Over
      <3>2. Retrying \in Seq(RunSteps) /\ Retrying # <<>>
        BY ProgramSteps DEF Retrying
      <3>3. Head(todo') = Head(Retrying)
        BY <2>2, <3>1, <3>2, HeadConcat
      <3>4. Head(Retrying) = "messages"
        BY DEF Retrying
      <3> QED
        BY <3>3, <3>4 DEF Place
    <2> QED
      BY <1>4, <2>1, <2>2
  <1> QED
    BY <1>3, <1>5 DEF WrittenInv

\* The user, the watchdog and a loss of power take nothing from it.
LEMMA WrittenEnvironment ==
    ASSUME TypeOK, WrittenInv, Running, ~Readonly, UserCancel \/ Evict \/ PowerLoss,
           module'.lies <= 1, UNCHANGED runs
    PROVE  WrittenInv'
  <1>1. todo' = todo /\ module'.nvm = module.nvm /\ module'.lies = module.lies
    BY DEF UserCancel, Evict, PowerLoss, TypeOK, Modules
  <1>2. module'.ram = module.ram \/ module'.ram = module'.nvm
    BY DEF UserCancel, Evict, PowerLoss, TypeOK, Modules, nvm
  <1>3. Kept => Kept'
    BY <1>1, KeptStays
  <1>4. /\ Over' <=> Over
        /\ Place("restart")' <=> Place("restart")
        /\ Place("verifyMode")' <=> Place("verifyMode")
        /\ Place("verifyRtcm")' <=> Place("verifyRtcm")
        /\ Place("inject")' <=> Place("inject")
        /\ Place("report")' <=> Place("report")
    BY <1>1 DEF Place, Over
  <1> QED
    BY <1>1, <1>2, <1>3, <1>4 DEF WrittenInv, ram, nvm

\* No step of a run that writes leaves a loss undetected.
LEMMA WrittenNext ==
    TypeOK /\ Structure /\ SimpleInv /\ WrittenInv /\ [Next]_vars => WrittenInv'
  <1> SUFFICES ASSUME TypeOK, Structure, SimpleInv, WrittenInv, [Next]_vars, Running', ~Readonly',
                      module'.lies <= 1
               PROVE  WrittenInv'
    BY DEF WrittenInv
  <1>1. Running /\ UNCHANGED runs /\ ~Readonly
    BY RunningBefore, PlanStays DEF vars, runs, Readonly
  <1>2. CASE UNCHANGED vars
    BY <1>2 DEF vars, runs, WrittenInv, Running, Readonly, Over, Place, Kept, TargetMode,
       TargetPos, Restoring, ram, nvm
  <1>3. CASE Save
    BY <1>1, <1>3, WrittenSave
  <1>4. CASE Restart
    BY <1>1, <1>4, WrittenRestart
  <1>5. CASE VerifyMode
    BY <1>1, <1>5, WrittenVerify
  <1>6. CASE VerifyRtcm \/ Inject \/ Report
    BY <1>1, <1>6, WrittenLate
  <1>7. CASE UserCancel \/ Evict \/ PowerLoss
    BY <1>1, <1>7, WrittenEnvironment
  <1>8. ~Checkpoint
    BY DEF Checkpoint, Raise, Running
  <1>9. ASSUME ~Over, Head(todo) \notin {"save"} \cup LateSteps, Usual \/ Special,
               ~(UserCancel \/ Evict \/ PowerLoss)
        PROVE  WrittenInv'
    <2>1. CASE Usual
      <3>1. Continue \/ UNCHANGED todo
        BY <2>1, UsualEnds DEF Retry, Fail, Raise, Running
      <3> QED
        BY <1>1, <1>9, <3>1, WrittenEarly DEF Continue, Over
    <2>2. CASE Resume
      <3>1. <<"write">> \o Writing # <<>> /\ Head(<<"write">> \o Writing) = "write"
        <4>1. <<"write">> \in Seq(RunSteps) /\ <<"write">> # <<>> /\ Head(<<"write">>) = "write"
          BY DEF RunSteps, Checked
        <4>2. Writing \in Seq(RunSteps)
          BY ProgramSteps
        <4>3. Head(<<"write">> \o Writing) = "write"
          BY <4>1, <4>2, HeadConcat
        <4>4. <<"write">> \o Writing # <<>>
          BY <4>1, <4>2
        <4> QED
          BY <4>3, <4>4
      <3>2. todo' = Tail(todo) \/ todo' = <<"write">> \o Writing
        BY <2>2 DEF Resume, Continue
      <3> QED
        BY <1>1, <1>9, <3>1, <3>2, WrittenEarly DEF Over, LateSteps
    <2>3. CASE SvinEnter
      <3>1. todo' = todo
        BY <2>3 DEF SvinEnter
      <3> QED
        BY <1>1, <1>9, <3>1, WrittenEarly DEF Over
    <2>4. CASE Nmea
      <3>1. todo' = Tail(todo)
        BY <1>1, <2>4 DEF Nmea, Continue, Fail, Raise, Running
      <3> QED
        BY <1>1, <1>9, <3>1, WrittenEarly
    <2>5. ~(VerifyRtcm \/ RevertPos \/ RevertMode \/ RevertRates)
      <3>1. Head(todo) \in WritingSteps /\ Head(todo) # "verifyRtcm"
        BY <1>1, <1>9, HeadStructure DEF LateSteps
      <3> QED
        BY <3>1, Places DEF Place, WritingSteps, RunSteps, Checked
    <2> QED
      BY <1>9, <2>1, <2>2, <2>3, <2>4, <2>5 DEF Special
  <1>10. ASSUME Usual \/ Special, ~(Save \/ Restart \/ VerifyMode),
                ~(VerifyRtcm \/ Inject \/ Report), ~(UserCancel \/ Evict \/ PowerLoss)
         PROVE  ~Over /\ Head(todo) \notin {"save"} \cup LateSteps
    BY <1>10, Places DEF Usual, Special, Place, LateSteps
  <1> QED
    BY <1>2, <1>3, <1>4, <1>5, <1>6, <1>7, <1>8, <1>9, <1>10, NextSteps

\* A record is stored once, when nothing is left but the report.
LEMMA RecordNext ==
    TypeOK /\ Structure /\ RecordInv /\ [Next]_vars => RecordInv'
  <1> SUFFICES ASSUME TypeOK, Structure, RecordInv, [Next]_vars, record' # "none"
               PROVE  RecordInv'
    BY DEF RecordInv
  <1>1. CASE UNCHANGED vars
    BY <1>1 DEF vars, runs, told, RecordInv, Running, Readonly, Restoring
  <1>2. CASE Next
    <2>1. UNCHANGED runs
      BY <1>2, PlanStays
    <2>2. (Readonly' <=> Readonly) /\ (Restoring' <=> Restoring)
      BY <2>1 DEF runs, Readonly, Restoring
    <2>3. CASE Inject
      <3>1. Place("inject") /\ todo' = Tail(todo) /\ raised' = raised
        BY <2>3, Places DEF Inject, Continue
      <3>2. Running
        BY <3>1, HeadStructure DEF Place, FailedSteps, RevertSteps
      <3>3. Running' /\ todo' = <<"report">>
        <4>1. todo \in Seq(Steps) /\ todo # <<>> /\ Ordered(todo) /\ Head(todo) = "inject"
          BY <3>1, <3>2 DEF Structure, TypeOK, Place, Over
        <4>2. todo' # <<>> /\ Head(todo') = "report" /\ Ordered(todo')
          BY <3>1, <4>1, OrderedTail DEF Follows
        <4>3. todo' \in Seq(Steps)
          BY <3>1, <4>1, TailSteps
        <4> QED
          BY <3>1, <3>2, <4>2, <4>3, ReportLast DEF Running
      <3>4. record' \in {"match", "warning"} => ~Readonly /\ ~Restoring
        BY <2>3 DEF Inject
      <3> QED
        BY <2>2, <3>3, <3>4 DEF RecordInv
    <2>4. CASE ~Inject
      <3>1. record' = record
        BY <1>2, <2>4, SaidOnce
      <3>2. /\ Running /\ todo \in {<<"report">>, <<>>}
            /\ record \in {"match", "warning"} => ~Readonly /\ ~Restoring
        BY <3>1 DEF RecordInv
      <3>3. ~Checkpoint /\ ~WriteCoord /\ ~ConfigSvin
        BY <3>2 DEF Checkpoint, Running, Over, Checked, WriteCoord, ConfigSvin, At
      <3>4. Report \/ UserCancel \/ Evict \/ PowerLoss
        BY <1>2, <3>2, <3>3, NextSteps, OnlyAtItsPlace
      <3>5. todo' \in {<<"report">>, <<>>} /\ raised' = raised
        <4>1. CASE Report
          <5>1. todo' = Tail(todo) /\ todo # <<>> /\ raised' = raised
            BY <4>1 DEF Report, At, Continue
          <5>2. Tail(<<"report">>) = <<>>
            OBVIOUS
          <5> QED
            BY <3>2, <5>1, <5>2
        <4>2. CASE UserCancel \/ Evict \/ PowerLoss
          BY <3>2, <4>2 DEF UserCancel, Evict, PowerLoss
        <4> QED
          BY <3>4, <4>1, <4>2
      <3> QED
        BY <2>2, <3>1, <3>2, <3>5 DEF RecordInv, Running
    <2> QED
      BY <2>3, <2>4
  <1> QED
    BY <1>1, <1>2

-----------------------------------------------------------------------------
(* A run that only measures leaves the module as it was.                   *)

Clean(m) == m.faults = 0 /\ m.lies = 0 /\ m.losses = 0
PosIs(m, pos) == m.ram.pos = pos /\ m.nvm.pos = pos

\* It writes no coordinate, and owes the module its mode as long as memRestore is
\* set.
MeasuredInv ==
    Readonly =>
        /\ PosIs(module, before.pos)
        /\ Clean(module) => memRestore \/ ram.mode = before.mode
        /\ memRestore => ~Over /\ ~Place("inject") /\ ~Place("report")

\* A command that leaves the counts at zero has done what it was to do.
LEMMA CommandClean ==
    ASSUME NEW m \in Modules, NEW cfg \in Configs
    PROVE  \A r \in Command(m, cfg) :
             /\ Clean(r.m) => Clean(m) /\ r.res = "ok" /\ r.m.ram = cfg
             /\ r.m.nvm = m.nvm /\ r.m.ram \in {m.ram, cfg}
  <1>1. m.faults \in Nat /\ m.lies \in Nat /\ m.losses \in Nat
    BY BoundsAssumption DEF Modules
  <1>2. m.faults + 1 # 0 /\ m.lies + 1 # 0
    BY <1>1
  <1> QED
    BY <1>2 DEF Command, Lying, Faulty, Result, Modules, Clean

\* So have SAVEPAR,
LEMMA SaveClean ==
    ASSUME NEW m \in Modules
    PROVE  \A r \in SavePar(m) :
             /\ Clean(r.m) => Clean(m) /\ r.m.nvm = m.ram
             /\ r.m.ram = m.ram /\ r.m.nvm \in {m.ram, m.nvm}
  <1>1. m.faults \in Nat /\ m.lies \in Nat /\ m.losses \in Nat
    BY BoundsAssumption DEF Modules
  <1>2. m.faults + 1 # 0 /\ m.lies + 1 # 0
    BY <1>1
  <1> QED
    BY <1>2 DEF SavePar, Lying, Faulty, Result, Modules, Clean

\* a restart,
LEMMA RebootClean ==
    ASSUME NEW m \in Modules
    PROVE  \A r \in Reboot(m) :
             /\ Clean(r.m) => Clean(m) /\ r.m.ram = m.nvm
             /\ r.m.nvm = m.nvm /\ r.m.ram \in {m.ram, m.nvm}
  <1>1. m.faults \in Nat /\ m.lies \in Nat /\ m.losses \in Nat
    BY BoundsAssumption DEF Modules
  <1>2. m.faults + 1 # 0 /\ m.lies + 1 # 0
    BY <1>1
  <1> QED
    BY <1>2 DEF Reboot, Lying, Faulty, Result, Modules, Clean

\* and a query.
LEMMA QueryClean ==
    ASSUME NEW m \in Modules
    PROVE  \A r \in Query(m) :
             /\ Clean(r.m) => Clean(m) /\ r.res = "ok"
             /\ r.m.ram = m.ram /\ r.m.nvm = m.nvm
  <1>1. m.faults \in Nat
    BY BoundsAssumption DEF Modules
  <1>2. m.faults + 1 # 0
    BY <1>1
  <1> QED
    BY <1>2 DEF Query, Faulty, Result, Modules, Clean

\* The mode is compared.
LEMMA CheckModeClean ==
    ASSUME NEW m \in Modules, NEW mode \in Modes
    PROVE  \A r \in CheckMode(m, mode) :
             /\ r.m \in Modules /\ r.m.ram = m.ram /\ r.m.nvm = m.nvm
             /\ Clean(r.m) => Clean(m) /\ (r.res = "ok" <=> m.ram.mode = mode)
  <1>1. \A q \in Query(m) :
           /\ q.m \in Modules /\ q.m.ram = m.ram /\ q.m.nvm = m.nvm
           /\ Clean(q.m) => Clean(m) /\ q.res = "ok"
    BY QueryClean, QueryResult, ResultModule
  <1> QED
    BY <1>1 DEF CheckMode, Then, Result

\* A mode set in memory only leaves the coordinate where it is.
LEMMA MemoryModeClean ==
    ASSUME NEW m \in Modules, NEW mode \in Modes
    PROVE  \A r \in SetMode(m, mode, FALSE) :
             /\ r.m \in Modules /\ r.m.nvm = m.nvm /\ r.m.ram.pos = m.ram.pos
             /\ Clean(r.m) => Clean(m) /\ r.res = "ok" /\ r.m.ram.mode = mode
  <1>1. InMode(m, mode) \in Configs /\ InMode(m, mode).pos = m.ram.pos
           /\ InMode(m, mode).mode = mode
    BY InModeConfig DEF InMode, Modules, Configs
  <1>2. \A r \in Command(m, InMode(m, mode)) :
           /\ r.m \in Modules /\ r.m.nvm = m.nvm /\ r.m.ram.pos = m.ram.pos
           /\ Clean(r.m) => Clean(m) /\ r.res = "ok" /\ r.m.ram.mode = mode
    BY <1>1, CommandClean, CommandResult, ResultModule
  <1> QED
    BY <1>2 DEF SetMode, Then, Result

\* Neither does making sure of it, and if nothing fails it finds what was set.
LEMMA EnsureModeClean ==
    ASSUME NEW m \in Modules, NEW mode \in Modes
    PROVE  \A r \in EnsureMode(m, mode, FALSE) :
             /\ r.m.nvm = m.nvm /\ r.m.ram.pos = m.ram.pos
             /\ Clean(r.m) => Clean(m)
             /\ Clean(r.m) /\ m.ram.mode = mode => r.res = "ok" /\ r.m.ram.mode = mode
  <1> DEFINE Again(n) == Then(Command(n, InMode(n, mode)),
                              LAMBDA k : IF FALSE THEN SavePar(k) ELSE {Result("ok", k)})
  <1>1. \A n \in Modules : \A r \in Again(n) :
           /\ r.m \in Modules /\ r.m.nvm = n.nvm /\ r.m.ram.pos = n.ram.pos
           /\ Clean(r.m) => Clean(n)
    <2> TAKE n \in Modules
    <2>1. InMode(n, mode) \in Configs /\ InMode(n, mode).pos = n.ram.pos
      BY InModeConfig DEF InMode, Modules, Configs
    <2>2. \A r \in Command(n, InMode(n, mode)) :
             /\ r.m \in Modules /\ r.m.nvm = n.nvm /\ r.m.ram.pos = n.ram.pos
             /\ Clean(r.m) => Clean(n)
      BY <2>1, CommandClean, CommandResult, ResultModule
    <2> QED
      BY <2>2 DEF Then, Result
  <1>2. \A n \in Modules : \A r \in Then(Again(n), LAMBDA k : CheckMode(k, mode)) :
           /\ r.m.nvm = n.nvm /\ r.m.ram.pos = n.ram.pos
           /\ Clean(r.m) => Clean(n)
    <2> HIDE DEF Again
    <2>1. \A k \in Modules : \A r \in CheckMode(k, mode) :
             /\ r.m.nvm = k.nvm /\ r.m.ram.pos = k.ram.pos
             /\ Clean(r.m) => Clean(k)
      BY CheckModeClean
    <2> QED
      BY <1>1, <2>1 DEF Then
  <1>3. \A r \in CheckMode(m, mode) :
           /\ r.m \in Modules /\ r.m.ram = m.ram /\ r.m.nvm = m.nvm
           /\ Clean(r.m) => Clean(m) /\ (r.res = "ok" <=> m.ram.mode = mode)
    BY CheckModeClean
  <1>4. \A r \in EnsureMode(m, mode, FALSE) :
           \/ r \in CheckMode(m, mode) /\ r.res = "ok"
           \/ \E n \in CheckMode(m, mode) :
                n.res # "ok" /\ r \in Then(Again(n.m), LAMBDA k : CheckMode(k, mode))
    BY DEF EnsureMode
  <1> HIDE DEF Again
  <1> TAKE r \in EnsureMode(m, mode, FALSE)
  <1>5. CASE r \in CheckMode(m, mode) /\ r.res = "ok"
    BY <1>3, <1>5
  <1>6. ASSUME NEW n \in CheckMode(m, mode), n.res # "ok",
               r \in Then(Again(n.m), LAMBDA k : CheckMode(k, mode))
        PROVE  /\ r.m.nvm = m.nvm /\ r.m.ram.pos = m.ram.pos
               /\ (Clean(r.m) => Clean(m)) /\ ~(Clean(r.m) /\ m.ram.mode = mode)
    <2>1. n.m \in Modules /\ n.m.ram = m.ram /\ n.m.nvm = m.nvm
      BY <1>3
    <2>2. r.m.nvm = n.m.nvm /\ r.m.ram.pos = n.m.ram.pos /\ (Clean(r.m) => Clean(n.m))
      BY <1>2, <1>6, <2>1
    <2> QED
      BY <1>3, <1>6, <2>1, <2>2
  <1> QED
    BY <1>4, <1>5, <1>6

\* A mode switched in memory only, as a whole.
LEMMA MemoryOnlyClean ==
    ASSUME NEW m \in Modules, NEW mode \in Modes
    PROVE  \A r \in SetModeMemoryOnly(m, mode) :
             /\ r.m.nvm = m.nvm /\ r.m.ram.pos = m.ram.pos
             /\ Clean(r.m) => Clean(m) /\ r.res = "ok" /\ r.m.ram.mode = mode
  <1>1. \A s \in SetMode(m, mode, FALSE) :
           /\ s.m \in Modules /\ s.m.nvm = m.nvm /\ s.m.ram.pos = m.ram.pos
           /\ Clean(s.m) => Clean(m) /\ s.res = "ok" /\ s.m.ram.mode = mode
    BY MemoryModeClean
  <1>2. \A n \in Modules : \A r \in EnsureMode(n, mode, FALSE) :
           /\ r.m.nvm = n.nvm /\ r.m.ram.pos = n.ram.pos
           /\ Clean(r.m) => Clean(n)
           /\ Clean(r.m) /\ n.ram.mode = mode => r.res = "ok" /\ r.m.ram.mode = mode
    BY EnsureModeClean
  <1> TAKE r \in SetModeMemoryOnly(m, mode)
  <1>3. \/ r \in SetMode(m, mode, FALSE) /\ r.res # "ok"
        \/ \E s \in SetMode(m, mode, FALSE) : r \in EnsureMode(s.m, mode, FALSE)
    BY DEF SetModeMemoryOnly, Then
  <1>4. CASE r \in SetMode(m, mode, FALSE) /\ r.res # "ok"
    BY <1>1, <1>4
  <1>5. ASSUME NEW s \in SetMode(m, mode, FALSE), r \in EnsureMode(s.m, mode, FALSE)
        PROVE  /\ r.m.nvm = m.nvm /\ r.m.ram.pos = m.ram.pos
               /\ Clean(r.m) => Clean(m) /\ r.res = "ok" /\ r.m.ram.mode = mode
    BY <1>1, <1>2, <1>5
  <1> QED
    BY <1>3, <1>4, <1>5

\* Where the mode is owed.
Owing == ~Over /\ ~Place("inject") /\ ~Place("report")

\* Only restoring it leads to the end.
LEMMA StillOwing ==
    ASSUME TypeOK, Structure, Readonly, Owing, ~Place("restoreMemory"),
           \/ Continue \/ UNCHANGED todo
           \/ Raise("failed") \/ Raise("aborted") \/ Raise("evicted")
    PROVE  Owing'
  <1>1. CASE Continue
    <2>1. todo \in Seq(MeasuringSteps) /\ todo # <<>> /\ Ordered(todo)
      BY DEF Structure, Owing, Over
    <2>2. IF todo' = <<>> THEN Head(todo) = "report" ELSE Follows(Head(todo), Head(todo'))
      BY <1>1, <2>1, OrderedTail DEF Continue
    <2>3. Head(todo) \in MeasuringSteps
      BY <2>1, HeadSteps
    <2> QED
      BY <2>2, <2>3 DEF Owing, Place, Over, Follows, MeasuringSteps
  <1>2. CASE UNCHANGED todo
    BY <1>2 DEF Owing, Place, Over
  <1>3. CASE Raise("failed") \/ Raise("aborted") \/ Raise("evicted")
    <2>1. todo' = <<"restoreMemory", "report">>
      BY <1>3 DEF Raise, Unwinding
    <2> QED
      BY <2>1 DEF Owing, Place, Over
  <1> QED
    BY <1>1, <1>2, <1>3

\* The invariant, part by part.
LEMMA MeasuredParts ==
    ASSUME UNCHANGED runs, PosIs(module', before.pos),
           Clean(module') => memRestore' \/ module'.ram.mode = before.mode,
           memRestore' => Owing'
    PROVE  MeasuredInv'
  BY Zenon DEF MeasuredInv, Owing, runs, ram

\* The steps that leave the module alone.
LEMMA MeasuredIdle ==
    ASSUME TypeOK, Structure, MeasuredInv, Readonly, UNCHANGED runs,
           Gga \/ Collect \/ Connect \/ Inject \/ Report \/ Checkpoint \/ UserCancel \/ Evict
    PROVE  MeasuredInv'
  <1>1. /\ module'.ram = module.ram /\ module'.nvm = module.nvm
        /\ Clean(module') => Clean(module)
    <2>1. CASE module' = module
      BY <2>1 DEF Clean
    <2>2. CASE \E q \in Query(module) : module' = q.m
      <3>1. PICK q \in Query(module) : module' = q.m
        BY <2>2
      <3>2. module \in Modules
        BY DEF TypeOK
      <3>3. q.m.ram = module.ram /\ q.m.nvm = module.nvm /\ (Clean(q.m) => Clean(module))
        BY <3>2, QueryClean
      <3> QED
        BY <3>1, <3>3
    <2>3. module' = module \/ \E q \in Query(module) : module' = q.m
      BY DEF Gga, Collect, MayFail, Connect, Inject, Report, Checkpoint, UserCancel, Evict
    <2> QED
      BY <2>1, <2>2, <2>3
  <1>2. memRestore' = memRestore
    BY DEF Gga, Collect, MayFail, Connect, Inject, Report, Checkpoint, UserCancel, Evict, flags
  <1>3. \/ Continue \/ UNCHANGED todo
        \/ Raise("failed") \/ Raise("aborted") \/ Raise("evicted")
    BY DEF Gga, Collect, MayFail, Connect, Inject, Report, Checkpoint, UserCancel, Evict, Fail
  <1>4. memRestore => Owing
    BY Zenon DEF MeasuredInv, Owing
  <1>5. ~Place("restoreMemory")
          \/ UNCHANGED todo \/ Raise("failed") \/ Raise("aborted") \/ Raise("evicted")
    BY Places DEF Place, Checkpoint, UserCancel, Evict
  <1>6. memRestore' => Owing'
    <2>1. CASE UNCHANGED todo
      BY <1>2, <1>4, <2>1 DEF Owing, Place, Over
    <2>2. CASE ~Place("restoreMemory")
      BY <1>2, <1>3, <1>4, <2>2, StillOwing
    <2>3. CASE Raise("failed") \/ Raise("aborted") \/ Raise("evicted")
      <3>1. todo' = <<"restoreMemory", "report">>
        BY <2>3 DEF Raise, Unwinding
      <3> QED
        BY <3>1 DEF Owing, Place, Over
    <2> QED
      BY <1>5, <2>1, <2>2, <2>3
  <1>7. PosIs(module', before.pos)
    BY <1>1 DEF MeasuredInv, PosIs
  <1>8. Clean(module') => memRestore' \/ module'.ram.mode = before.mode
    BY <1>1, <1>2 DEF MeasuredInv, ram
  <1> QED
    BY <1>6, <1>7, <1>8, MeasuredParts

\* The loss of power loads the NVM.
LEMMA MeasuredPowerLoss ==
    ASSUME TypeOK, MeasuredInv, Readonly, UNCHANGED runs, PowerLoss
    PROVE  MeasuredInv'
  <1>1. module.losses \in Nat
    <2>1. module.losses \in 0..MaxLosses
      BY DEF TypeOK, Modules
    <2> QED
      BY <2>1, BoundsAssumption
  <1>2. module'.ram = module.nvm /\ module'.nvm = module.nvm
          /\ module'.losses = module.losses + 1
    BY DEF PowerLoss, TypeOK, Modules, nvm
  <1>3. ~Clean(module')
    <2>1. module.losses + 1 # 0
      BY <1>1
    <2> QED
      BY <1>2, <2>1 DEF Clean
  <1>4. memRestore' = memRestore /\ todo' = todo
    BY DEF PowerLoss, flags
  <1>5. memRestore' => Owing'
    BY <1>4 DEF MeasuredInv, Owing, Place, Over
  <1>6. PosIs(module', before.pos)
    BY <1>2 DEF MeasuredInv, PosIs
  <1> QED
    BY <1>3, <1>5, <1>6, MeasuredParts

\* The mode is switched back.
LEMMA MeasuredRestore ==
    ASSUME TypeOK, MeasuredInv, Readonly, UNCHANGED runs, RestoreMemory
    PROVE  MeasuredInv'
  <1>1. module \in Modules /\ before.mode \in Modes
    BY DEF TypeOK, Configs
  <1>2. ~memRestore'
    BY Zenon DEF RestoreMemory
  <1>3. CASE memRestore
    <2>1. PICK r \in SetModeMemoryOnly(module, before.mode) : module' = r.m
      BY <1>3 DEF RestoreMemory
    <2>2. /\ module'.nvm = module.nvm /\ module'.ram.pos = module.ram.pos
          /\ Clean(module') => module'.ram.mode = before.mode
      BY <1>1, <2>1, MemoryOnlyClean
    <2>3. PosIs(module', before.pos)
      BY <2>2 DEF MeasuredInv, PosIs
    <2> QED
      BY <1>2, <2>2, <2>3, MeasuredParts
  <1>4. CASE ~memRestore
    <2>1. module' = module
      BY <1>4 DEF RestoreMemory
    <2>2. PosIs(module', before.pos) /\ (Clean(module') => module'.ram.mode = before.mode)
      BY <1>4, <2>1 DEF MeasuredInv, ram
    <2> QED
      BY <1>2, <2>2, MeasuredParts
  <1> QED
    BY <1>3, <1>4

\* A base is made a rover in memory.
LEMMA MeasuredRover ==
    ASSUME TypeOK, Structure, MeasuredInv, Readonly, UNCHANGED runs, Rover
    PROVE  MeasuredInv'
  <1>1. module \in Modules /\ "rover" \in Modes
    BY DEF TypeOK, Modes
  <1>2. Continue \/ Raise("failed")
    BY DEF Rover, Fail
  <1>3. Place("rover") /\ Owing /\ ~Place("restoreMemory")
    BY Places DEF Place, Owing
  <1>4. Owing'
    BY <1>2, <1>3, StillOwing
  <1>5. PICK q \in Query(module) :
           \/ module' = q.m /\ memRestore' = memRestore
           \/ \E r \in SetModeMemoryOnly(q.m, "rover") :
                module' = r.m /\ memRestore' = (r.res = "ok")
    BY DEF Rover
  <1>6. /\ q.m \in Modules /\ q.m.ram = module.ram /\ q.m.nvm = module.nvm
        /\ Clean(q.m) => Clean(module)
    BY <1>1, QueryClean, QueryResult, ResultModule
  <1>7. CASE module' = q.m /\ memRestore' = memRestore
    <2>1. PosIs(module', before.pos)
      BY <1>6, <1>7 DEF MeasuredInv, PosIs
    <2>2. Clean(module') => memRestore' \/ module'.ram.mode = before.mode
      BY <1>6, <1>7 DEF MeasuredInv, ram
    <2> QED
      BY <1>4, <2>1, <2>2, MeasuredParts
  <1>8. ASSUME NEW r \in SetModeMemoryOnly(q.m, "rover"),
               module' = r.m, memRestore' = (r.res = "ok")
        PROVE  MeasuredInv'
    <2>1. /\ module'.nvm = q.m.nvm /\ module'.ram.pos = q.m.ram.pos
          /\ Clean(module') => r.res = "ok"
      BY <1>1, <1>6, <1>8, MemoryOnlyClean
    <2>2. r.res = "ok" => memRestore'
      BY <1>8, Zenon
    <2>3. PosIs(module', before.pos)
      BY <1>6, <2>1 DEF MeasuredInv, PosIs
    <2> QED
      BY <1>4, <2>1, <2>2, <2>3, MeasuredParts
  <1> QED
    BY <1>5, <1>7, <1>8

\* The output of GGA is not part of what is promised.
LEMMA MeasuredNmea ==
    ASSUME TypeOK, Structure, MeasuredInv, Readonly, UNCHANGED runs, Nmea
    PROVE  MeasuredInv'
  <1>1. Place("nmea") /\ Owing /\ ~Place("restoreMemory") /\ memRestore' = memRestore
    BY Places DEF Place, Owing, Nmea, flags
  <1>2. Owing'
    <2>1. Continue \/ Raise("failed") \/ todo' = Observing \o Concluding
      BY DEF Nmea, Fail
    <2>2. CASE todo' = Observing \o Concluding
      <3>1. /\ Observing \in Seq(RunSteps) /\ Observing # <<>> /\ Head(Observing) = "gga"
            /\ Concluding \in Seq(RunSteps)
        BY DEF Observing, Concluding, RunSteps, Checked
      <3>2. Head(Observing \o Concluding) = "gga" /\ Observing \o Concluding # <<>>
        BY <3>1, HeadConcat
      <3> QED
        BY <2>2, <3>2 DEF Owing, Place, Over
    <2> QED
      BY <1>1, <2>1, <2>2, StillOwing
  <1>3. PICK q \in Query(module) :
           \/ module' = q.m
           \/ \E r \in Command(q.m, [ram EXCEPT !.msgs = "measure"]) : module' = r.m
    BY DEF Nmea
  <1>4. /\ q.m \in Modules /\ q.m.ram = module.ram /\ q.m.nvm = module.nvm
        /\ Clean(q.m) => Clean(module)
    BY QueryClean, QueryResult, ResultModule DEF TypeOK
  <1>5. /\ module'.ram.pos = module.ram.pos /\ module'.ram.mode = module.ram.mode
        /\ module'.nvm = module.nvm /\ (Clean(module') => Clean(module))
    <2>1. CASE module' = q.m
      BY <1>4, <2>1
    <2>2. ASSUME NEW r \in Command(q.m, [ram EXCEPT !.msgs = "measure"]), module' = r.m
          PROVE  /\ module'.ram.pos = module.ram.pos /\ module'.ram.mode = module.ram.mode
                 /\ module'.nvm = module.nvm /\ (Clean(module') => Clean(module))
      <3> DEFINE cfg == [ram EXCEPT !.msgs = "measure"]
      <3>1. cfg \in Configs
        BY Targets DEF Messages
      <3>2. cfg.pos = module.ram.pos /\ cfg.mode = module.ram.mode
        BY Targets DEF ram, Modules, Configs
      <3> HIDE DEF cfg
      <3>3. r \in Command(q.m, cfg)
        BY <2>2 DEF cfg
      <3>4. r.m.nvm = q.m.nvm /\ r.m.ram \in {q.m.ram, cfg} /\ (Clean(r.m) => Clean(q.m))
        BY <1>4, <3>1, <3>3, CommandClean
      <3> QED
        BY <1>4, <2>2, <3>2, <3>4
    <2> QED
      BY <1>3, <2>1, <2>2
  <1>6. PosIs(module', before.pos)
    BY <1>5 DEF MeasuredInv, PosIs
  <1>7. Clean(module') => memRestore' \/ module'.ram.mode = before.mode
    BY <1>1, <1>5 DEF MeasuredInv, ram
  <1> QED
    BY <1>2, <1>6, <1>7, MeasuredParts

\* Nor does saving and restarting change what is promised, if nothing is lost.
LEMMA MeasuredReinit ==
    ASSUME TypeOK, Structure, MeasuredInv, Readonly, UNCHANGED runs, Reinit
    PROVE  MeasuredInv'
  <1>1. Place("reinit") /\ Owing /\ ~Place("restoreMemory") /\ memRestore' = memRestore
    BY Places DEF Place, Owing, Reinit, flags
  <1>2. Owing'
    BY <1>1, StillOwing DEF Reinit, Fail
  <1>3. PICK s \in SavePar(module) : \E b \in Reboot(s.m) : \E q \in Query(b.m) : module' = q.m
    BY DEF Reinit
  <1>4. PICK b \in Reboot(s.m) : \E q \in Query(b.m) : module' = q.m
    BY <1>3
  <1>5. PICK q \in Query(b.m) : module' = q.m
    BY <1>4
  <1>6. /\ s.m \in Modules /\ (Clean(s.m) => Clean(module) /\ s.m.nvm = module.ram)
        /\ s.m.ram = module.ram /\ s.m.nvm \in {module.ram, module.nvm}
    BY SaveClean, SaveResult, ResultModule DEF TypeOK
  <1>7. /\ b.m \in Modules /\ (Clean(b.m) => Clean(s.m) /\ b.m.ram = s.m.nvm)
        /\ b.m.nvm = s.m.nvm /\ b.m.ram \in {s.m.ram, s.m.nvm}
    BY <1>6, RebootClean, RebootResult, ResultModule
  <1>8. /\ Clean(module') => Clean(b.m)
        /\ module'.ram = b.m.ram /\ module'.nvm = b.m.nvm
    BY <1>5, <1>7, QueryClean
  <1>9. PosIs(module', before.pos)
    BY <1>6, <1>7, <1>8 DEF MeasuredInv, PosIs
  <1>10. Clean(module') => memRestore' \/ module'.ram.mode = before.mode
    BY <1>1, <1>6, <1>7, <1>8 DEF MeasuredInv, ram
  <1> QED
    BY <1>2, <1>9, <1>10, MeasuredParts

\* No step of a run that only measures breaks its promise.
LEMMA MeasuredNext ==
    TypeOK /\ Structure /\ MeasuredInv /\ [Next]_vars => MeasuredInv'
  <1> SUFFICES ASSUME TypeOK, Structure, MeasuredInv, [Next]_vars, Readonly' PROVE MeasuredInv'
    BY DEF MeasuredInv
  <1>1. UNCHANGED runs /\ Readonly
    BY PlanStays DEF vars, runs, Readonly
  <1>2. CASE UNCHANGED vars
    BY <1>1, <1>2 DEF vars, runs, flags, MeasuredInv, Place, Over, ram
  <1>3. ASSUME Usual \/ Special
        PROVE  \/ Rover \/ Nmea \/ Reinit \/ Gga \/ Collect \/ Connect \/ RestoreMemory
               \/ Inject \/ Report \/ UserCancel \/ Evict \/ PowerLoss
    <2>1. \A step : Place(step) => step \in MeasuringSteps
      BY <1>1, HeadStructure DEF Place
    <2> QED
      BY <1>3, <2>1, Places DEF Usual, Special, MeasuringSteps
  <1> QED
    BY <1>1, <1>2, <1>3, NextSteps, MeasuredRover, MeasuredNmea, MeasuredReinit, MeasuredIdle,
       MeasuredRestore, MeasuredPowerLoss

\* A run begins with what is promised.
LEMMA MeasuredInit == Init => WrittenInv /\ RecordInv /\ MeasuredInv
  <1> SUFFICES ASSUME Init PROVE WrittenInv /\ RecordInv /\ MeasuredInv
    OBVIOUS
  <1>1. /\ module = [ram |-> before, nvm |-> before, faults |-> 0, lies |-> 0, losses |-> 0]
        /\ record = "none" /\ ~memRestore
    BY Zenon DEF Init
  <1>2. ram = before /\ nvm = before
    BY <1>1 DEF ram, nvm
  <1>3. MeasuredInv
    BY <1>1, <1>2 DEF MeasuredInv, PosIs
  <1>4. plan \in AllPlans /\ todo = Program(plan)
    BY PlansAssumption DEF Init
  <1>5. ~Readonly => ~Over /\ ~Place("verifyRtcm") /\ ~Place("inject") /\ ~Place("report")
    BY <1>4 DEF Program, AllPlans, Readonly, Measuring, Writing, Over, Place
  <1> QED
    BY <1>1, <1>2, <1>3, <1>5 DEF WrittenInv, RecordInv

\* The inductive invariant implies what a successful run says.
LEMMA SuccessImplied ==
    TypeOK /\ WrittenInv /\ RecordInv /\ MeasuredInv => SuccessIsTrue
  <1> SUFFICES ASSUME TypeOK, WrittenInv, RecordInv, MeasuredInv PROVE SuccessIsTrue
    OBVIOUS
  <1>1. Over /\ Running /\ ~Readonly /\ module.lies <= 1 => Kept
    BY DEF WrittenInv
  <1>2. ASSUME record \in {"match", "warning"}, module.lies <= 1
        PROVE  nvm.pos = TargetPos /\ nvm.mode = "base"
    <2>1. Running /\ todo \in {<<"report">>, <<>>} /\ ~Readonly /\ ~Restoring
      BY <1>2 DEF RecordInv
    <2>2. Over \/ Place("report")
      BY <2>1 DEF Over, Place
    <2>3. Kept
      BY <1>2, <2>1, <2>2 DEF WrittenInv
    <2> QED
      BY <2>1, <2>3 DEF Kept, TargetMode, Restoring, Restores
  <1>3. Readonly => ram.pos = before.pos /\ nvm.pos = before.pos
    BY DEF MeasuredInv, PosIs, ram, nvm
  <1>4. ASSUME Readonly, Over, module.faults = 0, module.lies = 0, module.losses = 0
        PROVE  ram.mode = before.mode
    BY <1>4 DEF MeasuredInv, Clean
  <1> QED
    BY <1>1, <1>2, <1>3, <1>4 DEF SuccessIsTrue, Kept

\* What a run that ends well says is true.
THEOREM SuccessCorrect == Spec => []SuccessIsTrue
  <1>1. Init => TypeOK /\ Structure /\ SimpleInv /\ WrittenInv /\ RecordInv /\ MeasuredInv
    BY TypeInit, StructureInit, SimpleInit, MeasuredInit
  <1>2. TypeOK /\ Structure /\ SimpleInv /\ WrittenInv /\ RecordInv /\ MeasuredInv /\ [Next]_vars
          => (TypeOK /\ Structure /\ SimpleInv /\ WrittenInv /\ RecordInv /\ MeasuredInv)'
    BY TypeNext, StructureNext, SimpleNext, WrittenNext, RecordNext, MeasuredNext
  <1> QED
    BY <1>1, <1>2, SuccessImplied, PTL DEF Spec
-----------------------------------------------------------------------------
(* What is reported as reverted is as it was.                              *)

AsBefore == nvm.mode = before.mode /\ nvm.pos = before.pos
NvmAsRam == nvm.mode = ram.mode /\ nvm.pos = ram.pos
HasBoth == backup.mode # "none" /\ backup.pos # "none"
Allowed == IF plan = "manual" THEN 1 ELSE 0

\* A manual run that has not saved has not changed the NVM, or has counted a loss.
ManualInv ==
    plan = "manual" =>
        /\ backup.mode \in {before.mode, "none"} /\ backup.pos \in {before.pos, "none"}
        /\ (Running /\ ~saved) \/ Place("revertPos") \/ Place("revertMode")
             => AsBefore \/ Bad(module) >= 1

Left == {Reverting, <<"revertMode", "revertRates", "revertCheck">>,
         <<"revertRates", "revertCheck">>, <<"revertCheck">>, <<"report">>, <<>>}

\* Once the mode was written back the NVM is as the memory, or as many commands
\* failed as keep the report from promising anything.
Settled == NvmAsRam \/ (plan = "manual" /\ AsBefore) \/ Bad(module) >= Allowed + 1

RevertInv ==
    /\ ~Running /\ ~Readonly => todo \in Left
    /\ (Place("revertRates") \/ Place("revertCheck")) /\ HasBoth => Settled
    /\ report = "reverted" => Over /\ RevertedIsRestored

\* How a run that writes comes to write back.
LEMMA RevertBegins ==
    ASSUME Next, Running, ~Running', ~Readonly, UNCHANGED runs
    PROVE  todo' = <<"report">> \/ (todo' = Reverting /\ ~saved')
  <1>1. Readonly' <=> Readonly
    BY DEF runs, Readonly
  <1>2. ASSUME NEW kind \in {"failed", "aborted", "evicted"}, Raise(kind)
        PROVE  todo' = <<"report">> \/ (todo' = Reverting /\ ~saved')
    BY <1>2 DEF Raise, Unwinding
  <1>3. CASE Checkpoint
    <2>1. Raise("aborted") \/ Raise("evicted")
      BY <1>3 DEF Checkpoint
    <2> QED
      BY <1>2, <2>1
  <1>4. CASE Usual \/ Special
    <2>1. Continue \/ Retry \/ Raise("failed") => Raise("failed")
      BY DEF Continue, Retry, Fail, Running
    <2>2. Usual => Raise("failed")
      BY <2>1, UsualEnds
    <2>3. Special => Raise("failed")
      BY <2>1 DEF Special, Resume, SvinEnter, Nmea, VerifyRtcm, RevertPos, RevertMode,
         RevertRates, RevertBy, UserCancel, Evict, PowerLoss, Fail, Running
    <2> QED
      BY <1>2, <1>4, <2>2, <2>3
  <1> QED
    BY <1>3, <1>4, NextSteps

\* The heads of what may be left.
LEMMA LeftHeads ==
    /\ Reverting \in Left /\ <<"report">> \in Left /\ <<>> \in Left
    /\ \A s \in Left : s # <<>> =>
         /\ Tail(s) \in Left
         /\ Head(s) \in {"revertPos", "revertMode", "revertRates", "revertCheck", "report"}
         /\ Head(s) = "revertCheck" => Tail(s) = <<>>
         /\ Tail(s) # <<>> =>
              /\ Head(Tail(s)) # "revertPos" /\ Head(Tail(s)) # "report"
              /\ Head(Tail(s)) = "revertMode" => Head(s) = "revertPos"
              /\ Head(Tail(s)) = "revertRates" => Head(s) = "revertMode"
              /\ Head(Tail(s)) = "revertCheck" => Head(s) = "revertRates"
  BY DEF Left, Reverting

\* What such a run still does.
LEMMA OnlyReverting ==
    ASSUME Next, ~Running, ~Readonly, RevertInv
    PROVE  RevertPos \/ RevertMode \/ RevertRates \/ RevertCheck \/ Report \/ Evict \/ PowerLoss
  <1>1. \A step : Place(step) =>
           step \in {"revertPos", "revertMode", "revertRates", "revertCheck", "report"}
    BY LeftHeads DEF RevertInv, Place, Over
  <1>2. ~Checkpoint /\ ~UserCancel
    BY DEF Checkpoint, UserCancel
  <1> QED
    BY <1>1, <1>2, Places, NextSteps DEF Usual, Special

\* The coordinate goes to the memory only.
LEMMA PosMoves ==
    ASSUME TypeOK, RevertPos
    PROVE  module'.nvm = module.nvm /\ Bad(module') >= Bad(module)
  <1> DEFINE cfg == [ram EXCEPT !.pos = backup.pos]
  <1>1. module \in Modules /\ Bad(module) \in Nat
    BY BadNat DEF TypeOK
  <1>2. backup.pos # "none" => cfg \in Configs
    BY Targets DEF TypeOK, Backups
  <1> HIDE DEF cfg
  <1>3. PICK r \in Unless(backup.pos = "none", Command(module, cfg)) : module' = r.m
    BY DEF RevertPos, RevertBy, cfg
  <1>4. CASE backup.pos = "none"
    BY <1>1, <1>3, <1>4 DEF Unless, Result
  <1>5. CASE backup.pos # "none"
    BY <1>1, <1>2, <1>3, <1>5, CommandMoves DEF Unless, Moved
  <1> QED
    BY <1>4, <1>5

\* The mode to both, or a loss is counted.
LEMMA ModeSaved ==
    ASSUME TypeOK, RevertMode, backup.mode # "none"
    PROVE  /\ Bad(module') >= Bad(module)
           /\ \/ module'.nvm = module'.ram
              \/ module'.nvm = module.nvm /\ Bad(module') >= Bad(module) + 1
  <1>1. module \in Modules /\ backup.mode \in Modes
    BY DEF TypeOK, Backups
  <1>2. PICK r \in SetMode(module, backup.mode, TRUE) : module' = r.m
    BY DEF RevertMode, RevertBy, Unless
  <1> QED
    BY <1>1, <1>2, ModeMoves

\* The messages change neither, nor does the comparison.
LEMMA RatesMove ==
    ASSUME TypeOK, RevertRates \/ RevertCheck
    PROVE  /\ module'.nvm = module.nvm /\ Bad(module') >= Bad(module)
           /\ module'.ram.mode = module.ram.mode /\ module'.ram.pos = module.ram.pos
  <1> DEFINE cfg == [ram EXCEPT !.msgs = backup.msgs]
  <1>1. module \in Modules /\ Bad(module) \in Nat
    BY BadNat DEF TypeOK
  <1>2. CASE RevertRates
    <2>1. /\ backup.msgs # "none" => cfg \in Configs
          /\ cfg.mode = module.ram.mode /\ cfg.pos = module.ram.pos
      BY <1>1, Targets DEF TypeOK, Backups, ram, Modules, Configs
    <2> HIDE DEF cfg
    <2>2. PICK r \in Unless(backup.msgs = "none", Command(module, cfg)) : module' = r.m
      BY <1>2 DEF RevertRates, RevertBy, cfg
    <2>3. CASE backup.msgs = "none"
      BY <1>1, <2>2, <2>3 DEF Unless, Result
    <2>4. CASE backup.msgs # "none"
      BY <1>1, <2>1, <2>2, <2>4, CommandMoves DEF Unless, Moved
    <2> QED
      BY <2>3, <2>4
  <1>3. CASE RevertCheck
    BY <1>1, <1>3, TwoQueriesMove DEF RevertCheck, Moved
  <1> QED
    BY <1>2, <1>3

\* A loss of power loads the NVM.
LEMMA PowerMoves ==
    ASSUME TypeOK, PowerLoss
    PROVE  module'.ram = module'.nvm /\ module'.nvm = module.nvm /\ Bad(module') = Bad(module)
  BY DEF TypeOK, Modules, PowerLoss, nvm, Bad

\* The NVM of a manual run is as it was until something is counted.
LEMMA ManualNext ==
    TypeOK /\ Structure /\ SimpleInv /\ ManualInv /\ RevertInv /\ [Next]_vars => ManualInv'
  <1> SUFFICES ASSUME TypeOK, Structure, SimpleInv, ManualInv, RevertInv, [Next]_vars,
                      plan' = "manual"
               PROVE  ManualInv'
    BY DEF ManualInv
  <1>1. UNCHANGED runs /\ plan = "manual" /\ Simple /\ ~Readonly /\ Bad(module) \in Nat
    BY PlanStays, BadNat DEF vars, runs, Simple, Readonly, TypeOK
  <1>2. ASSUME (Running' /\ ~saved') \/ Place("revertPos")' \/ Place("revertMode")'
               => AsBefore' \/ Bad(module') >= 1
        PROVE  ManualInv'
    BY <1>1, <1>2 DEF ManualInv, runs
  <1>3. ASSUME AsBefore \/ Bad(module) >= 1, Bad(module') \in Nat, Bad(module') >= Bad(module),
               module'.nvm = module.nvm \/ Bad(module') >= 1
        PROVE  AsBefore' \/ Bad(module') >= 1
    BY <1>1, <1>3 DEF AsBefore, nvm, runs
  <1>4. CASE UNCHANGED vars
    BY <1>1, <1>4 DEF vars, runs, flags, ManualInv, Running, Place, Over, AsBefore, nvm
  <1>5. CASE Next /\ Running
    <2>1. ASSUME ~saved' PROVE AsBefore' \/ Bad(module') >= 1
      <3>1. CASE Checkpoint
        <4>1. module' = module /\ ~saved
          BY Zenon, <2>1, <3>1 DEF Checkpoint, flags
        <4> QED
          BY <1>1, <1>3, <1>5, <4>1 DEF ManualInv
      <3>2. CASE SimpleStep \/ UserCancel \/ Evict \/ PowerLoss
        <4>1. ~saved
          BY <2>1, <3>2, SavedStays
        <4>2. Moved(module, module', {TargetPos}) /\ (module'.nvm = module.nvm \/ Save)
          BY <1>1, <3>2, SimpleMoves
        <4>3. ASSUME Save PROVE module'.nvm = module.nvm \/ Bad(module') >= 1
          <5>1. PICK r \in SavePar(module) : module' = r.m /\ r.res # "ok"
            BY Zenon, <2>1, <4>3 DEF Save
          <5>2. module'.nvm = module.nvm \/ Bad(module') >= Bad(module) + 1
            BY <5>1, SaveMoves DEF TypeOK
          <5>3. Bad(module') \in Nat
            BY <4>2, BadNat DEF Moved
          <5> QED
            BY <1>1, <5>2, <5>3
        <4>4. Bad(module') \in Nat
          BY <4>2, BadNat DEF Moved
        <4> QED
          BY <1>1, <1>3, <1>5, <4>1, <4>2, <4>3, <4>4 DEF ManualInv, Moved
      <3> QED
        BY <1>1, <1>5, <3>1, <3>2, OnlySimple, NextSteps
    <2>2. CASE Running'
      <3>1. Head(todo') \in WritingSteps \/ todo' = <<>>
        <4>1. Structure' /\ TypeOK'
          BY StructureNext, TypeNext
        <4>2. todo' \in Seq(WritingSteps)
          BY <1>1, <2>2, <4>1 DEF Structure, Readonly, runs
        <4> QED
          BY <4>2, HeadSteps
      <3>2. ~Place("revertPos")' /\ ~Place("revertMode")'
        BY <3>1 DEF Place, Over, WritingSteps, RunSteps, Checked
      <3> QED
        BY <1>2, <2>1, <3>2
    <2>3. CASE ~Running'
      <3>1. todo' = <<"report">> \/ (todo' = Reverting /\ ~saved')
        BY <1>1, <1>5, <2>3, RevertBegins
      <3>2. todo' = <<"report">> => ~Place("revertPos")' /\ ~Place("revertMode")'
        BY DEF Place
      <3> QED
        BY <1>2, <2>1, <2>3, <3>1, <3>2
    <2> QED
      BY <2>2, <2>3
  <1>6. CASE Next /\ ~Running
    <2>1. RevertPos \/ RevertMode \/ RevertRates \/ RevertCheck \/ Report \/ Evict \/ PowerLoss
      BY <1>1, <1>6, OnlyReverting
    <2>2. ~Running'
      <3>1. raised' # "none"
        BY <1>6, EvictedByCheckpoint, NextSteps DEF Running, Checkpoint
      <3> QED
        BY <3>1 DEF Running
    <2>3. Bad(module') \in Nat
      BY TypeNext, BadNat DEF TypeOK
    <2>4. CASE RevertPos
      <3>1. Place("revertPos")
        BY <2>4, Places
      <3>2. AsBefore \/ Bad(module) >= 1
        BY <1>1, <3>1 DEF ManualInv
      <3>3. AsBefore' \/ Bad(module') >= 1
        BY <1>3, <2>3, <2>4, <3>2, PosMoves
      <3> QED
        BY <1>2, <3>3
    <2>5. CASE RevertMode \/ RevertRates \/ RevertCheck \/ Report
      <3>1. /\ Place("revertMode") \/ Place("revertRates") \/ Place("revertCheck") \/ Place("report")
            /\ todo' \in {Tail(todo), <<>>}
        BY <2>5, Places DEF RevertMode, RevertRates, RevertCheck, Report, RevertBy, Continue
      <3>2. todo \in Left /\ todo # <<>>
        BY <1>1, <1>6, <3>1 DEF RevertInv, Place, Over
      <3>3. todo' # <<>> => Head(todo') # "revertPos" /\ Head(todo') # "revertMode"
        BY <3>1, <3>2, LeftHeads DEF Place
      <3>4. ~Place("revertPos")' /\ ~Place("revertMode")'
        BY <3>3 DEF Place, Over
      <3> QED
        BY <1>2, <2>2, <3>4
    <2>6. CASE Evict \/ PowerLoss
      <3>1. todo' = todo /\ module'.nvm = module.nvm /\ Bad(module') = Bad(module)
        BY <2>6, PowerMoves DEF Evict, PowerLoss
      <3>2. (Place("revertPos")' => Place("revertPos")) /\ (Place("revertMode")' => Place("revertMode"))
        BY <3>1 DEF Place, Over
      <3>3. Place("revertPos") \/ Place("revertMode") => AsBefore' \/ Bad(module') >= 1
        BY <1>1, <1>3, <2>3, <3>1 DEF ManualInv
      <3> QED
        BY <1>2, <2>2, <3>2, <3>3
    <2> QED
      BY <2>1, <2>4, <2>5, <2>6
  <1> QED
    BY <1>4, <1>5, <1>6

\* What the comparison finds is so in the NVM as well.
LEMMA CheckFinds ==
    ASSUME TypeOK, ManualInv, RevertInv, RevertCheck, report' = "reverted", UNCHANGED runs
    PROVE  RevertedIsRestored'
  <1>1. Place("revertCheck")
    BY Places
  <1>2. PICK q \in Then(Query(module), LAMBDA n : Query(n)) :
           /\ module' = q.m
           /\ backup.mode \in {q.m.ram.mode, "none"}
           /\ backup.pos = "none" \/ Alike(q.m.ram.pos, backup.pos)
    BY DEF RevertCheck
  <1>3. /\ module'.nvm = module.nvm /\ module'.ram = module.ram
        /\ Bad(module') >= Bad(module) /\ module' \in Modules
    BY <1>2, TwoQueriesMove DEF TypeOK, Moved
  <1>4. SUFFICES ASSUME HasBoth
                 PROVE  /\ module'.ram.mode = backup.mode /\ Alike(module'.ram.pos, backup.pos)
                        /\ Bad(module') <= Allowed =>
                             module'.nvm.mode = backup.mode /\ Alike(module'.nvm.pos, backup.pos)
    BY DEF RevertedIsRestored, HasBoth, runs, Bad, Allowed, ram, nvm
  <1>5. module'.ram.mode = backup.mode /\ Alike(module'.ram.pos, backup.pos)
    BY <1>2, <1>4 DEF HasBoth
  <1>6. Settled
    BY <1>1, <1>4 DEF RevertInv
  <1>7. CASE NvmAsRam
    BY <1>3, <1>5, <1>7 DEF NvmAsRam, ram, nvm
  <1>8. CASE plan = "manual" /\ AsBefore
    <2>1. module.nvm.mode = backup.mode /\ module.nvm.pos = backup.pos
      BY <1>4, <1>8 DEF ManualInv, AsBefore, HasBoth, nvm
    <2> QED
      BY <1>3, <1>5, <2>1 DEF Alike
  <1>9. CASE Bad(module) >= Allowed + 1
    <2>1. Bad(module) \in Nat /\ Bad(module') \in Nat /\ Allowed \in Nat
      BY <1>3, BadNat DEF TypeOK, Allowed
    <2> QED
      BY <1>3, <1>5, <1>9, <2>1
  <1> QED
    BY <1>6, <1>7, <1>8, <1>9 DEF Settled

\* The write-back settles the NVM before it compares.
LEMMA RevertNext ==
    TypeOK /\ Structure /\ ManualInv /\ RevertInv /\ [Next]_vars => RevertInv'
  <1> SUFFICES ASSUME TypeOK, Structure, ManualInv, RevertInv, [Next]_vars PROVE RevertInv'
    OBVIOUS
  <1>1. UNCHANGED runs /\ (Readonly' <=> Readonly) /\ (HasBoth' <=> HasBoth) /\ Allowed' = Allowed
    BY PlanStays DEF vars, runs, Readonly, HasBoth, Allowed
  <1>2. CASE UNCHANGED vars
    BY <1>2 DEF vars, runs, told, RevertInv, Running, Readonly, Place, Over, HasBoth, Settled,
       NvmAsRam, AsBefore, Allowed, RevertedIsRestored, ram, nvm
  <1>3. Structure' /\ TypeOK'
    BY StructureNext, TypeNext
  <1>4. Bad(module) \in Nat /\ Bad(module') \in Nat /\ Allowed \in Nat
    BY <1>3, BadNat DEF TypeOK, Allowed
  <1>5. ASSUME Next PROVE report' = "reverted" => Over' /\ RevertedIsRestored'
    <2>1. ~Over
      BY <1>5, NextSteps, Places
      DEF Usual, Special, Place, Checkpoint, UserCancel, Evict, PowerLoss
    <2>2. report # "reverted"
      BY <2>1 DEF RevertInv
    <2>3. report' = "reverted" => RevertCheck
      BY <1>5, <2>2, SaidOnce
    <2>4. ASSUME RevertCheck, report' = "reverted" PROVE Over' /\ RevertedIsRestored'
      <3>1. Place("revertCheck") /\ todo' = Tail(todo)
        BY <2>4, Places DEF RevertCheck, Continue
      <3>2. ~Running /\ ~Readonly
        BY <2>1, <3>1, HeadStructure
        DEF Place, WritingSteps, RunSteps, Checked, MeasuringSteps
      <3>3. todo \in Left /\ todo # <<>> /\ Head(todo) = "revertCheck"
        BY <2>1, <3>1, <3>2 DEF RevertInv, Place, Over
      <3>4. Tail(todo) = <<>>
        BY <3>3, LeftHeads
      <3> QED
        BY <1>1, <2>4, <3>1, <3>4, CheckFinds DEF Over
    <2> QED
      BY <2>3, <2>4
  <1>6. ASSUME Next, Readonly \/ Running'
        PROVE  /\ ~Running' /\ ~Readonly' => todo' \in Left
               /\ ~Place("revertRates")' /\ ~Place("revertCheck")'
    <2>1. todo' \in Seq(WritingSteps) \/ todo' \in Seq(MeasuringSteps)
      BY <1>1, <1>3, <1>6 DEF Structure
    <2>2. todo' # <<>> => Head(todo') \in WritingSteps \cup MeasuringSteps
      BY <2>1, HeadSteps
    <2> QED
      BY <1>1, <1>6, <2>2 DEF Place, Over, WritingSteps, RunSteps, Checked, MeasuringSteps
  <1>7. ASSUME Next, Running, ~Running', ~Readonly
        PROVE  /\ todo' \in Left
               /\ ~Place("revertRates")' /\ ~Place("revertCheck")'
    <2>1. todo' = <<"report">> \/ todo' = Reverting
      BY <1>1, <1>7, RevertBegins
    <2> QED
      BY <2>1, LeftHeads DEF Place, Reverting
  <1>8. ASSUME Next, ~Running, ~Readonly
        PROVE  /\ todo' \in Left
               /\ (Place("revertRates")' \/ Place("revertCheck")') /\ HasBoth => Settled'
    <2>1. RevertPos \/ RevertMode \/ RevertRates \/ RevertCheck \/ Report \/ Evict \/ PowerLoss
      BY <1>8, OnlyReverting
    <2>2. todo \in Left /\ todo # <<>>
      BY <1>8, <2>1, Places DEF RevertInv, Place, Over, Evict, PowerLoss
    <2>3. CASE RevertPos \/ RevertMode \/ RevertRates \/ RevertCheck \/ Report
      <3>1. todo' \in {Tail(todo), <<>>}
        BY <2>3 DEF RevertPos, RevertMode, RevertRates, RevertCheck, Report, RevertBy, Continue
      <3>2. todo' \in Left
        BY <2>2, <3>1, LeftHeads
      <3>3. Place("revertRates")' => Place("revertMode")
        BY <2>2, <3>1, LeftHeads DEF Place, Over
      <3>4. Place("revertCheck")' => Place("revertRates")
        BY <2>2, <3>1, LeftHeads DEF Place, Over
      <3>5. ASSUME RevertMode, HasBoth PROVE Settled'
        <4>1. /\ Bad(module') >= Bad(module)
              /\ \/ module'.nvm = module'.ram
                 \/ module'.nvm = module.nvm /\ Bad(module') >= Bad(module) + 1
          BY <3>5, ModeSaved DEF HasBoth
        <4>2. CASE module'.nvm = module'.ram
          BY <4>2 DEF Settled, NvmAsRam, ram, nvm
        <4>3. CASE module'.nvm = module.nvm /\ Bad(module') >= Bad(module) + 1
          <5>1. Place("revertMode")
            BY <3>5, Places
          <5>2. plan = "manual" => AsBefore' \/ Bad(module) >= 1
            BY <1>1, <4>3, <5>1 DEF ManualInv, AsBefore, nvm, runs
          <5>3. plan # "manual" => Bad(module') >= Allowed + 1
            BY <1>4, <4>3 DEF Allowed
          <5>4. plan = "manual" /\ Bad(module) >= 1 => Bad(module') >= Allowed + 1
            BY <1>4, <4>3 DEF Allowed
          <5> QED
            BY <1>1, <5>2, <5>3, <5>4 DEF Settled, runs
        <4> QED
          BY <4>1, <4>2, <4>3
      <3>6. ASSUME RevertRates, HasBoth PROVE Settled'
        <4>1. Settled
          BY <3>6, Places DEF RevertInv
        <4>2. /\ module'.nvm = module.nvm /\ Bad(module') >= Bad(module)
              /\ module'.ram.mode = module.ram.mode /\ module'.ram.pos = module.ram.pos
          BY <3>6, RatesMove
        <4>3. Bad(module) >= Allowed + 1 => Bad(module') >= Allowed + 1
          BY <1>4, <4>2
        <4> QED
          BY <1>1, <4>1, <4>2, <4>3 DEF Settled, NvmAsRam, AsBefore, ram, nvm, runs
      <3>7. (Place("revertMode") => RevertMode) /\ (Place("revertRates") => RevertRates)
        BY <2>3, Places DEF Place
      <3> QED
        BY <3>2, <3>3, <3>4, <3>5, <3>6, <3>7
    <2>4. CASE Evict
      <3>1. todo' = todo /\ module' = module
        BY <2>4 DEF Evict
      <3> QED
        BY <1>1, <2>2, <3>1
        DEF RevertInv, Place, Over, Settled, NvmAsRam, AsBefore, ram, nvm, runs
    <2>5. CASE PowerLoss
      <3>1. todo' = todo /\ module'.ram = module'.nvm
        BY <2>5, PowerMoves DEF PowerLoss
      <3> QED
        BY <2>2, <3>1 DEF Settled, NvmAsRam, ram, nvm
    <2> QED
      BY <2>1, <2>3, <2>4, <2>5
  <1>9. CASE Next
    <2>1. \/ Readonly \/ Running'
          \/ Running /\ ~Running' /\ ~Readonly
          \/ ~Running /\ ~Readonly
      OBVIOUS
    <2> QED
      BY <1>1, <1>5, <1>6, <1>7, <1>8, <1>9, <2>1 DEF RevertInv
  <1> QED
    BY <1>2, <1>9

\* Neither promises anything at first.
LEMMA RevertInit == Init => ManualInv /\ RevertInv
  <1> SUFFICES ASSUME Init PROVE ManualInv /\ RevertInv
    OBVIOUS
  <1>1. /\ Running /\ todo = Program(plan) /\ report = "" /\ nvm = before
        /\ plan \in AllPlans
    BY PlansAssumption DEF Init, Running, nvm
  <1>2. ASSUME plan = "manual"
        PROVE  backup.mode \in {before.mode, "none"} /\ backup.pos \in {before.pos, "none"}
    BY <1>2 DEF Init, Restoring, Restores, Readonly, PartsOf
  <1>3. ManualInv
    BY <1>1, <1>2 DEF ManualInv, AsBefore
  <1>4. todo \in Seq(WritingSteps) \/ todo \in Seq(MeasuringSteps)
    BY <1>1, StructureInit DEF Structure
  <1>5. todo # <<>> => Head(todo) \in WritingSteps \cup MeasuringSteps
    BY <1>4, HeadSteps
  <1>6. ~Place("revertRates") /\ ~Place("revertCheck")
    BY <1>5 DEF Place, Over, WritingSteps, RunSteps, Checked, MeasuringSteps
  <1> QED
    BY <1>1, <1>3, <1>6 DEF RevertInv

\* What is reported as reverted is restored, in memory and in the NVM.
THEOREM RevertedCorrect == Spec => []RevertedIsRestored
  <1>1. Init => TypeOK /\ Structure /\ SimpleInv /\ ManualInv /\ RevertInv
    BY TypeInit, StructureInit, SimpleInit, RevertInit
  <1>2. TypeOK /\ Structure /\ SimpleInv /\ ManualInv /\ RevertInv /\ [Next]_vars
          => (TypeOK /\ Structure /\ SimpleInv /\ ManualInv /\ RevertInv)'
    BY TypeNext, StructureNext, SimpleNext, ManualNext, RevertNext
  <1>3. RevertInv => RevertedIsRestored
    BY DEF RevertInv, RevertedIsRestored
  <1> QED
    BY <1>1, <1>2, <1>3, PTL DEF Spec
=============================================================================
