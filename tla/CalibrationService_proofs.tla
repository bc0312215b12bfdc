---------------------- MODULE CalibrationService_proofs ----------------------
(***************************************************************************)
(* Proofs about CalibrationService, for every set of task kinds, process   *)
(* ids and rates and every number of tasks, kills and failing writes.      *)
(***************************************************************************)
EXTENDS CalibrationService, TLAPS

USE DEF Goes, Alive, memory, disk, module, history, port, outside, vars

-----------------------------------------------------------------------------
(* The user's cancel request, and the rate of the channel.                 *)

\* A request is there only if the user has made it, and a task ends as aborted
\* only by a request or a shutdown.
CancelInv == (cancel => asked) /\ (stage = "ABORTED" => asked \/ shutdown)

\* While the channel is at another rate, the scan goes on or the task is over.
RateInv == chan.rate # Default => wpc \in {"scan", "close"}

\* No step cancels a task the user has not asked to cancel.
LEMMA CancelStep == CancelInv /\ [Next]_vars => CancelInv'
  <1> SUFFICES ASSUME CancelInv, [Next]_vars PROVE CancelInv'
    OBVIOUS
  <1> USE DEF CancelInv
  <1>1. CASE Worker
    <2>a. UNCHANGED <<cancel, asked, shutdown>>
      BY <1>1 DEF Worker
    <2>1. stage' = "ABORTED" => stage = "ABORTED" \/ Checkpoint \/ Close
      BY <1>1 DEF Worker, Ends, Unknown, Begin, Refused, Acquire, Yielded, GiveUp, ToOpen,
        Open, ToDetect, Claimed, OtherModel, Silent, Probe, ScanFailed, ToObserve, Observe,
        Observed, ToBackup, Identify, SkipBackup, LoadBackup, Capture, Rehearsed, ToWrite,
        Write, Written, WriteFails, Unexpected, Ungate
    <2>2. Checkpoint /\ stage' = "ABORTED" => cancel \/ shutdown
      BY DEF Checkpoint, Ends
    <2>3. Close => stage' = stage
      BY DEF Close
    <2> QED
      BY <2>a, <2>1, <2>2, <2>3
  <1>2. CASE Start
    BY <1>2 DEF Start, Cleared
  <1>3. CASE Abort
    BY <1>3 DEF Abort
  <1>4. CASE Evict
    BY <1>4 DEF Evict
  <1>5. CASE Process
    BY <1>5 DEF Process, Sigterm, Kill, Boot, StartupRead, StartupMark, StartupShow
  <1>6. CASE UNCHANGED vars
    BY <1>6
  <1> QED
    BY <1>1, <1>2, <1>3, <1>4, <1>5, <1>6 DEF Next

\* No step leaves the channel at another rate, but for the scan and the end.
LEMMA RateStep == RateInv /\ [Next]_vars => RateInv'
  <1> SUFFICES ASSUME RateInv, [Next]_vars PROVE RateInv'
    OBVIOUS
  <1> USE DEF RateInv
  <1>1. CASE Worker
    <2>1. CASE Open \/ Probe \/ ScanFailed \/ Close
      BY <2>1 DEF Open, Probe, ScanFailed, Close, Unknown, Ends, NoChannel
    <2>2. CASE ~(Open \/ Probe \/ ScanFailed \/ Close)
      <3>1. UNCHANGED chan
        BY <1>1, <2>2 DEF Worker, Checkpoint, Begin, Refused, Acquire, Yielded, GiveUp,
          ToOpen, ToDetect, Claimed, OtherModel, Silent, ToObserve, Observe, Observed,
          ToBackup, Identify, SkipBackup, LoadBackup, Capture, Rehearsed, ToWrite, Write,
          Written, WriteFails, Unexpected, Ungate
      <3>2. wpc \in {"scan", "close"} => wpc' \in {"scan", "close"}
        BY <1>1, <2>2 DEF Worker, Checkpoint, Begin, Refused, Acquire, Yielded, GiveUp,
          ToOpen, ToDetect, Claimed, OtherModel, Silent, ToObserve, Observe, Observed,
          ToBackup, Identify, SkipBackup, LoadBackup, Capture, Rehearsed, ToWrite, Write,
          Written, WriteFails, Unexpected, Ungate, Ends, Checked, Unknown
      <3> QED
        BY <3>1, <3>2
    <2> QED
      BY <2>1, <2>2
  <1>2. CASE Start
    BY <1>2 DEF Start, Cleared
  <1>3. CASE Abort
    BY <1>3 DEF Abort
  <1>4. CASE Evict
    BY <1>4 DEF Evict
  <1>5. CASE Process
    BY <1>5 DEF Process, Sigterm, Kill, Boot, StartupRead, StartupMark, StartupShow, NoChannel
  <1>6. CASE UNCHANGED vars
    BY <1>6
  <1> QED
    BY <1>1, <1>2, <1>3, <1>4, <1>5, <1>6 DEF Next

-----------------------------------------------------------------------------
(* Type correctness.                                                       *)

TaskRecords == [id : TaskIds, action : AllActions \cup {"none"}]
Leases == [task : TaskIds, action : AllActions \cup {"none"},
           stage : Stages \cup {"none"}, pid : Pids \cup {0}]
Writers == [id : TaskIds, action : AllActions \cup {"none"},
            snap : Backups, before : Configs]

\* The memory of the worker, the disk and the module are well typed.
MemoryOK ==
    /\ stage \in Stages /\ wpc \in WorkerPcs
    /\ hold \in BOOLEAN /\ held \in BOOLEAN
    /\ chan \in [open : BOOLEAN, rate : Rates]
    /\ rates \subseteq Rates
    /\ snapshot \in Backups

DiskOK ==
    /\ leaseFile \in Leases /\ backup \in Backups
    /\ faults \in 0..MaxFaults /\ unclosed \subseteq TaskIds

ModuleOK == config \in Configs /\ last \in Writers

OutsideOK ==
    /\ up \in Ups /\ pid \in Pids
    /\ shutdown \in BOOLEAN /\ cancel \in BOOLEAN /\ task \in TaskRecords
    /\ notice \in [task : TaskIds, untouched : BOOLEAN]
    /\ kills \in 0..MaxKills /\ tasks \in TaskIds
    /\ asked \in BOOLEAN /\ lost \in TaskIds /\ blind \in BOOLEAN
    /\ cut \subseteq TaskIds

LEMMA TypeParts == TypeOK <=> MemoryOK /\ DiskOK /\ ModuleOK /\ OutsideOK
  BY Zenon DEF TypeOK, MemoryOK, DiskOK, ModuleOK, OutsideOK, TaskRecords, Leases, Writers

LEMMA TypePartsNext == MemoryOK' /\ DiskOK' /\ ModuleOK' /\ OutsideOK' => TypeOK'
  BY Zenon DEF TypeOK, MemoryOK, DiskOK, ModuleOK, OutsideOK, TaskRecords, Leases, Writers

\* A process that has just started, with nothing on disk: well typed.
LEMMA TypeInit == Init => TypeOK
  <1> SUFFICES ASSUME Init PROVE TypeOK
    OBVIOUS
  <1> USE PidsAssumption, BoundsAssumption
  <1>1. Original \in Configs
    BY DEF Original, Configs, TaskIds
  <1>2. NoBackup \in Backups
    BY <1>1 DEF NoBackup, Backups, Parts, TaskIds
  <1>3. NoWriter \in [id : TaskIds, action : AllActions \cup {"none"},
                      snap : Backups, before : Configs]
    BY <1>1, <1>2 DEF NoWriter, TaskIds
  <1>4. NoLease \in [task : TaskIds, action : AllActions \cup {"none"},
                     stage : Stages \cup {"none"}, pid : Pids \cup {0}]
    BY DEF NoLease, TaskIds
  <1>5. NoTask \in [id : TaskIds, action : AllActions \cup {"none"}]
    BY DEF NoTask, TaskIds
  <1>6. NoNotice \in [task : TaskIds, untouched : BOOLEAN]
    BY DEF NoNotice, TaskIds
  <1>7. NoChannel \in [open : BOOLEAN, rate : Rates]
    BY DEF NoChannel, Rates
  <1>8. MemoryOK
    BY <1>2, <1>7 DEF Init, Fresh, MemoryOK, Stages, WorkerPcs
  <1>9. DiskOK
    BY <1>2, <1>4 DEF Init, DiskOK, Leases
  <1>10. ModuleOK
    BY <1>1, <1>3 DEF Init, ModuleOK, Writers
  <1>11. OutsideOK
    <2>1. shutdown \in BOOLEAN /\ cancel \in BOOLEAN /\ asked \in BOOLEAN /\ blind \in BOOLEAN
      BY Zenon DEF Init, Fresh
    <2> QED
      BY <2>1, <1>5, <1>6 DEF Init, Fresh, OutsideOK, TaskRecords, Ups, TaskIds
  <1> QED
    BY <1>8, <1>9, <1>10, <1>11, TypeParts

\* What the worker makes of its memory.
LEMMA MemoryWorker == TypeOK /\ Worker => MemoryOK'
  <1> SUFFICES ASSUME TypeOK, Worker PROVE MemoryOK'
    OBVIOUS
  <1> USE DEF MemoryOK, Stages, WorkerPcs, Ends, Terminal
  <1>a. MemoryOK /\ DiskOK /\ ModuleOK /\ OutsideOK
    BY TypeParts
  <1>1. CASE Checkpoint \/ Begin \/ Refused \/ Yielded \/ ToOpen \/ ToDetect
    BY <1>a, <1>1 DEF Checkpoint, Begin, Refused, Yielded, ToOpen, ToDetect
  <1>2. CASE Acquire
    BY <1>a, <1>2 DEF Acquire
  <1>3. CASE GiveUp
    BY <1>a, <1>3 DEF GiveUp
  <1>4. CASE Open
    BY <1>a, <1>4 DEF Open, Rates
  <1>5. CASE Claimed \/ OtherModel \/ ToObserve \/ Observe \/ Observed \/ ToBackup \/ Identify
    BY <1>a, <1>5 DEF Claimed, OtherModel, ToObserve, Observe, Observed, ToBackup, Identify
  <1>6. CASE Silent
    <2>1. rates' \subseteq Rates
      BY <1>a, <1>6 DEF Silent, Candidates, Rates
    <2> QED
      BY <1>a, <1>6, <2>1 DEF Silent, Unknown
  <1>7. CASE Probe
    <2>1. chan' \in [open : BOOLEAN, rate : Rates]
      BY <1>a, <1>7 DEF Probe
    <2>2. rates' \subseteq Rates
      BY <1>a, <1>7 DEF Probe
    <2> QED
      BY <1>a, <1>7, <2>1, <2>2 DEF Probe
  <1>8. CASE ScanFailed
    BY <1>a, <1>8 DEF ScanFailed, Unknown, Rates
  <1>b. ASSUME NEW p \in Parts, NEW v \in BOOLEAN PROVE Captured(p, v) \in Backups
    BY <1>a DEF Captured, Backups, ModuleOK, OutsideOK, TaskRecords
  <1>9. CASE SkipBackup
    BY <1>a, <1>b, <1>9 DEF SkipBackup, Parts
  <1>10. CASE LoadBackup
    BY <1>a, <1>10 DEF LoadBackup, DiskOK
  <1>11. CASE Capture
    <2>1. snapshot' \in Backups
      BY <1>b, <1>11 DEF Capture
    <2> QED
      BY <1>a, <1>11, <2>1 DEF Capture
  <1>12. CASE Rehearsed \/ ToWrite \/ Write \/ Written \/ WriteFails \/ Unexpected
    BY <1>a, <1>12 DEF Rehearsed, ToWrite, Write, Written, WriteFails, Unexpected
  <1>13. CASE Close
    <2>1. NoBackup \in Backups
      BY BoundsAssumption DEF NoBackup, Backups, Parts, Original, Configs, TaskIds
    <2> QED
      BY <1>a, <1>13, <2>1 DEF Close, NoChannel, Rates
  <1>14. CASE Ungate
    BY <1>a, <1>14 DEF Ungate
  <1> QED
    BY <1>1, <1>2, <1>3, <1>4, <1>5, <1>6, <1>7, <1>8, <1>9, <1>10, <1>11, <1>12, <1>13,
       <1>14 DEF Worker

\* What the worker leaves on disk.
LEMMA DiskWorker == TypeOK /\ Worker => DiskOK'
  <1> SUFFICES ASSUME TypeOK, Worker PROVE DiskOK'
    OBVIOUS
  <1>a. MemoryOK /\ DiskOK /\ ModuleOK /\ OutsideOK
    BY TypeParts
  <1>b. Fault => faults' \in 0..MaxFaults
    BY <1>a, BoundsAssumption DEF Fault, DiskOK
  <1>c. ASSUME NEW s \in Stages PROVE Entry(s) \in Leases
    BY <1>a DEF Entry, Leases, OutsideOK, TaskRecords, AllActions
  <1>d. ASSUME NEW s \in Stages, WriteLease(s) \/ CloseLease(s) PROVE DiskOK'
    <2>1. leaseFile' \in Leases
      BY <1>a, <1>c, <1>d DEF WriteLease, CloseLease, DiskOK
    <2>2. faults' \in 0..MaxFaults
      BY <1>a, <1>b, <1>d DEF WriteLease, CloseLease, DiskOK
    <2>3. backup' \in Backups
      BY <1>a, <1>d DEF WriteLease, CloseLease, DiskOK
    <2>4. unclosed' \subseteq TaskIds
      <3>1. task.id \in TaskIds
        BY <1>a DEF OutsideOK, TaskRecords
      <3> QED
        BY <1>a, <1>d, <3>1 DEF WriteLease, CloseLease, DiskOK
    <2> QED
      BY <2>1, <2>2, <2>3, <2>4 DEF DiskOK
  <1>e. UNCHANGED disk => DiskOK'
    BY <1>a DEF DiskOK
  <1> HIDE DEF disk
  <1>1. CASE Begin \/ Yielded \/ ToOpen \/ Open \/ ToDetect \/ ToObserve \/ Observe \/ Observed
             \/ ToBackup \/ Identify \/ ToWrite
    BY <1>d, <1>1 DEF Begin, Yielded, ToOpen, Open, ToDetect, ToObserve, Observe, Observed,
       ToBackup, Identify, ToWrite, Stages, Terminal
  <1>2. CASE Acquire
    <2>1. leaseFile' \in Leases
      BY <1>a, <1>c, <1>2 DEF Acquire, DiskOK, Stages
    <2>2. faults' \in 0..MaxFaults
      BY <1>a, <1>b, <1>2 DEF Acquire, DiskOK
    <2> QED
      BY <1>a, <1>2, <2>1, <2>2 DEF Acquire, DiskOK
  <1>3. CASE GiveUp
    BY <1>d, <1>3 DEF GiveUp, Stages, Terminal
  <1>4. CASE Close
    BY <1>a, <1>d, <1>4 DEF Close, MemoryOK
  <1>5. CASE Capture
    <2>1. snapshot' \in Backups
      <3>1. ASSUME NEW p \in Parts, NEW v \in BOOLEAN PROVE Captured(p, v) \in Backups
        BY <1>a DEF Captured, Backups, ModuleOK, OutsideOK, TaskRecords
      <3> QED
        BY <1>5, <3>1 DEF Capture
    <2>2. backup' \in Backups
      BY <1>a, <1>5, <2>1 DEF Capture, DiskOK
    <2>3. faults' \in 0..MaxFaults
      BY <1>a, <1>b, <1>5 DEF Capture, DiskOK
    <2> QED
      BY <1>a, <1>5, <2>2, <2>3 DEF Capture, DiskOK
  <1>6. CASE Checkpoint \/ Refused \/ Claimed \/ OtherModel \/ Silent \/ Probe \/ ScanFailed
             \/ SkipBackup \/ LoadBackup \/ Rehearsed \/ Write \/ Written \/ WriteFails
             \/ Unexpected \/ Ungate
    BY <1>e, <1>6 DEF Checkpoint, Refused, Claimed, OtherModel, Silent, Probe, ScanFailed,
       SkipBackup, LoadBackup, Rehearsed, Write, Written, WriteFails, Unexpected, Ungate
  <1> QED
    BY <1>1, <1>2, <1>3, <1>4, <1>5, <1>6 DEF Worker

\* What the worker makes of the module.
LEMMA ModuleWorker == TypeOK /\ Worker => ModuleOK'
  <1> SUFFICES ASSUME TypeOK, Worker PROVE ModuleOK'
    OBVIOUS
  <1>a. MemoryOK /\ DiskOK /\ ModuleOK /\ OutsideOK
    BY TypeParts
  <1>b. snapshot.cfg \in Configs /\ task.id \in TaskIds
    BY <1>a DEF MemoryOK, Backups, OutsideOK, TaskRecords
  <1>c. UNCHANGED module => ModuleOK'
    BY <1>a DEF ModuleOK
  <1> HIDE DEF module
  <1>1. CASE Checkpoint \/ Written \/ WriteFails
    <2>1. [by |-> task.id, whole |-> TRUE, coord |-> TRUE] \in Configs
      BY <1>b DEF Configs
    <2>2. Restored(snapshot) \in Configs
      BY <1>b DEF Restored, Configs
    <2>3. config' \in {config, snapshot.cfg, Restored(snapshot),
                       [by |-> task.id, whole |-> TRUE, coord |-> TRUE]}
      BY <1>1 DEF Checkpoint, Written, WriteFails, PutBack
    <2>4. config' \in Configs
      BY <1>a, <1>b, <2>1, <2>2, <2>3 DEF ModuleOK
    <2> QED
      BY <1>a, <1>1, <2>4 DEF Checkpoint, Written, WriteFails, ModuleOK
  <1>2. CASE Write
    <2>1. config' \in Configs
      BY <1>b, <1>2 DEF Write, Configs
    <2>2. last' \in Writers
      BY <1>a, <1>2 DEF Write, ModuleOK, Writers, OutsideOK, TaskRecords, MemoryOK
    <2> QED
      BY <2>1, <2>2 DEF ModuleOK
  <1>3. CASE ~(Checkpoint \/ Written \/ WriteFails \/ Write)
    BY <1>c, <1>3 DEF Worker, Begin, Refused, Acquire, Yielded, GiveUp, ToOpen, Open,
       ToDetect, Claimed, OtherModel, Silent, Probe, ScanFailed, ToObserve, Observe, Observed,
       ToBackup, Identify, SkipBackup, LoadBackup, Capture, Rehearsed, ToWrite, Unexpected,
       Close, Ungate
  <1> QED
    BY <1>1, <1>2, <1>3

\* The steps of the user and of the process.
LEMMA TypeOthers == TypeOK /\ (Start \/ Abort \/ Evict \/ Process) => TypeOK'
  <1> SUFFICES ASSUME TypeOK, Start \/ Abort \/ Evict \/ Process PROVE TypeOK'
    OBVIOUS
  <1>a. MemoryOK /\ DiskOK /\ ModuleOK /\ OutsideOK
    BY TypeParts
  <1> USE BoundsAssumption
  <1>1. CASE Start
    <2>1. tasks' \in TaskIds
      BY <1>a, <1>1 DEF Start, OutsideOK, TaskIds
    <2>2. task' \in TaskRecords
      BY <1>1, <2>1, ActionsAssumption DEF Start, TaskRecords
    <2>3. MemoryOK' /\ DiskOK' /\ ModuleOK'
      BY <1>a, <1>1 DEF Start, Cleared, MemoryOK, DiskOK, ModuleOK, Stages, WorkerPcs
    <2>4. cancel' \in BOOLEAN /\ asked' \in BOOLEAN
      BY <1>1, Zenon DEF Start, Cleared
    <2>5. OutsideOK'
      BY <1>a, <1>1, <2>1, <2>2, <2>4 DEF Start, OutsideOK, TaskIds
    <2> QED
      BY <2>3, <2>5, TypePartsNext
  <1>2. CASE Abort
    <2>1. cancel' \in BOOLEAN /\ asked' \in BOOLEAN
      BY <1>2, Zenon DEF Abort
    <2> QED
      BY <1>2, <2>1 DEF Abort, TypeOK
  <1>3. CASE Evict
    <2>1. hold' \in BOOLEAN
      BY <1>3, Zenon DEF Evict
    <2> QED
      BY <1>3, <2>1 DEF Evict, TypeOK
  <1>4. CASE Sigterm
    <2>1. shutdown' \in BOOLEAN
      BY <1>4, Zenon DEF Sigterm
    <2> QED
      BY <1>4, <2>1 DEF Sigterm, TypeOK
  <1>5. CASE Kill
    <2>1. NoBackup \in Backups /\ NoTask \in TaskRecords /\ NoNotice.task \in TaskIds
      BY DEF NoBackup, Backups, Parts, Original, Configs, TaskIds, NoTask, TaskRecords, NoNotice
    <2>2. NoNotice \in [task : TaskIds, untouched : BOOLEAN]
      BY DEF NoNotice, TaskIds
    <2>3. shutdown' \in BOOLEAN /\ cancel' \in BOOLEAN /\ asked' \in BOOLEAN
      BY <1>5, Zenon DEF Kill
    <2>4. MemoryOK'
      <3>1. hold' \in BOOLEAN /\ held' \in BOOLEAN
        BY <1>5, Zenon DEF Kill
      <3> QED
        BY <1>5, <2>1, <3>1 DEF Kill, MemoryOK, Stages, WorkerPcs, NoChannel, Rates
    <2>5. DiskOK' /\ ModuleOK'
      BY <1>a, <1>5 DEF Kill, DiskOK, ModuleOK
    <2>6. kills' \in 0..MaxKills
      BY <1>a, <1>5 DEF Kill, OutsideOK
    <2>7. cut' \subseteq TaskIds /\ lost' \in TaskIds
      <3>1. task.id \in TaskIds /\ 0 \in TaskIds
        BY <1>a DEF OutsideOK, TaskRecords, TaskIds
      <3> QED
        BY <1>a, <1>5, <3>1 DEF Kill, OutsideOK
    <2>8. OutsideOK'
      BY <1>a, <1>5, <2>1, <2>2, <2>3, <2>6, <2>7 DEF Kill, OutsideOK, Ups
    <2> QED
      BY <2>4, <2>5, <2>8, TypePartsNext
  <1>6. CASE Boot
    <2>1. blind' \in BOOLEAN
      BY <1>6, Zenon DEF Boot
    <2> QED
      BY <1>6, <2>1 DEF Boot, TypeOK, Ups
  <1>7. CASE StartupRead
    <2>1. blind' \in BOOLEAN
      BY <1>a, <1>7, Zenon DEF StartupRead, OutsideOK
    <2> QED
      BY <1>7, <2>1 DEF StartupRead, TypeOK, Ups
  <1>8. CASE StartupMark
    <2>1. leaseFile.task \in TaskIds
      BY <1>a DEF DiskOK, Leases
    <2>2. Interrupted \in Leases
      BY <1>a DEF Interrupted, DiskOK, Leases, Stages, Terminal
    <2>3. notice' \in [task : TaskIds, untouched : BOOLEAN]
      BY <2>1, <1>8 DEF StartupMark, Untouched
    <2>4. DiskOK'
      <3>1. leaseFile' \in Leases
        BY <1>a, <1>8, <2>2 DEF StartupMark, DiskOK
      <3>2. faults' \in 0..MaxFaults
        BY <1>a, <1>8 DEF StartupMark, DiskOK, Fault
      <3>3. unclosed' \subseteq TaskIds
        BY <1>a, <1>8, <2>1 DEF StartupMark, DiskOK
      <3> QED
        BY <1>a, <1>8, <3>1, <3>2, <3>3 DEF StartupMark, DiskOK
    <2>5. MemoryOK' /\ ModuleOK'
      BY <1>a, <1>8 DEF StartupMark, MemoryOK, ModuleOK
    <2>6. OutsideOK'
      BY <1>a, <1>8, <2>3 DEF StartupMark, OutsideOK, Ups
    <2> QED
      BY <2>4, <2>5, <2>6, TypePartsNext
  <1>9. CASE StartupShow
    <2>1. task' \in TaskRecords
      BY <1>a, <1>9 DEF StartupShow, TaskRecords, OutsideOK, DiskOK, Leases
    <2>2. MemoryOK' /\ DiskOK' /\ ModuleOK'
      BY <1>a, <1>9 DEF StartupShow, MemoryOK, DiskOK, ModuleOK, Stages, Terminal
    <2>3. OutsideOK'
      BY <1>a, <1>9, <2>1 DEF StartupShow, OutsideOK, Ups
    <2> QED
      BY <2>2, <2>3, TypePartsNext
  <1> QED
    BY <1>1, <1>2, <1>3, <1>4, <1>5, <1>6, <1>7, <1>8, <1>9 DEF Process

LEMMA TypeStep == TypeOK /\ [Next]_vars => TypeOK'
  <1> SUFFICES ASSUME TypeOK, [Next]_vars PROVE TypeOK'
    OBVIOUS
  <1>1. CASE Worker
    <2>1. OutsideOK'
      BY <1>1, TypeParts DEF Worker, OutsideOK
    <2> QED
      BY <1>1, <2>1, MemoryWorker, DiskWorker, ModuleWorker, TypePartsNext
  <1>2. CASE Start \/ Abort \/ Evict \/ Process
    BY <1>2, TypeOthers
  <1>3. CASE UNCHANGED vars
    BY <1>3 DEF TypeOK
  <1> QED
    BY <1>1, <1>2, <1>3 DEF Next

\* The types of all variables: no write fails that may not, for any bounds.
THEOREM TypeCorrect == Spec => []TypeOK
  <1> QED
    BY TypeInit, TypeStep, PTL DEF Spec

\* A task is cancelled by the user only if it is the one the user cancelled.
THEOREM CancelCorrect == Spec => []CancelIsAsked
  <1>1. Init => CancelInv
    BY DEF Init, Fresh, CancelInv
  <1>2. CancelInv => CancelIsAsked
    BY DEF CancelInv, CancelIsAsked
  <1> QED
    BY <1>1, <1>2, CancelStep, PTL DEF Spec

\* A task that a scan has not found a rate for goes on at the rate it began with.
THEOREM RateCorrect == Spec => []RateRestored
  <1>1. Init => RateInv
    BY DEF Init, Fresh, RateInv, NoChannel
  <1>2. RateInv => RateRestored
    BY DEF RateInv, RateRestored
  <1> QED
    BY <1>1, <1>2, RateStep, PTL DEF Spec

-----------------------------------------------------------------------------
(* Which task is whose.                                                    *)

BeforeWrite == {"begin", "acquire", "yield", "yielded", "open", "opened", "detect", "scan",
                "detected", "observe", "identify", "backup", "backedUp"}

\* Tasks are numbered in the order they start; the one in memory, while its
\* worker lives, is the latest, and has written nothing before it writes.
IdInv ==
    /\ Alive => task.id = tasks
    /\ leaseFile.task <= tasks /\ notice.task <= tasks /\ last.id <= tasks
    /\ Alive => notice.task < task.id
    /\ wpc \in BeforeWrite => last.id < task.id
    /\ up # "up" => ~Alive
    /\ up = "mark" => ~Closed
    /\ wpc = "close" => stage \in Terminal

\* Every step of the worker leaves the lease or writes its own task to it.
LEMMA WorkerLease ==
    TypeOK /\ Worker => leaseFile' = leaseFile \/ \E s \in Stages : leaseFile' = Entry(s)
  <1> SUFFICES ASSUME TypeOK, Worker, leaseFile' # leaseFile
               PROVE  \E s \in Stages : leaseFile' = Entry(s)
    OBVIOUS
  <1>1. CASE Begin \/ Yielded \/ ToOpen \/ Open \/ ToDetect \/ ToObserve \/ Observe \/ Observed
             \/ ToBackup \/ Identify \/ ToWrite \/ Acquire \/ GiveUp
    BY <1>1 DEF Begin, Yielded, ToOpen, Open, ToDetect, ToObserve, Observe, Observed,
       ToBackup, Identify, ToWrite, Acquire, GiveUp, WriteLease, CloseLease, Stages, Terminal
  <1>2. CASE Close
    <2>1. leaseFile' = Entry(stage)
      BY <1>2 DEF Close, CloseLease
    <2>2. stage \in Stages
      BY DEF TypeOK
    <2> QED
      BY <2>1, <2>2
  <1>3. CASE ~(Begin \/ Yielded \/ ToOpen \/ Open \/ ToDetect \/ ToObserve \/ Observe
               \/ Observed \/ ToBackup \/ Identify \/ ToWrite \/ Acquire \/ GiveUp \/ Close)
    BY <1>3 DEF Worker, Checkpoint, Refused, Claimed, OtherModel, Silent, Probe, ScanFailed,
       SkipBackup, LoadBackup, Capture, Rehearsed, Write, Written, WriteFails, Unexpected,
       Ungate
  <1> QED
    BY <1>1, <1>2, <1>3

\* Where a step of the worker leads, as far as the invariants below tell apart.
LEMMA WorkerPc ==
    ASSUME Worker
    PROVE  /\ wpc # "none" /\ (wpc' = "none" => wpc = "ungate")
           /\ wpc' \in BeforeWrite => wpc \in BeforeWrite
           /\ wpc' = "write" => wpc = "backedUp" \/ wpc = "write"
           /\ wpc' = "close" => stage' \in Terminal
           /\ wpc' = "ungate" => Close
  <1> USE DEF Ends, Terminal, BeforeWrite
  <1>1. CASE Checkpoint \/ Begin \/ Refused \/ Acquire \/ Yielded \/ GiveUp \/ ToOpen \/ Open
             \/ ToDetect
    BY <1>1 DEF Checkpoint, Checked, Begin, Refused, Acquire, Yielded, GiveUp, ToOpen, Open,
       ToDetect
  <1>2. CASE Claimed \/ OtherModel \/ Silent \/ Probe \/ ScanFailed
    BY <1>2 DEF Claimed, OtherModel, Silent, Probe, ScanFailed, Unknown
  <1>3. CASE ToObserve \/ Observe \/ Observed \/ ToBackup \/ Identify \/ SkipBackup
             \/ LoadBackup \/ Capture
    BY <1>3 DEF ToObserve, Observe, Observed, ToBackup, Identify, SkipBackup, LoadBackup,
       Capture
  <1>4. CASE Rehearsed \/ ToWrite \/ Write \/ Written \/ WriteFails \/ Unexpected \/ Ungate
    BY <1>4 DEF Rehearsed, ToWrite, Write, Written, WriteFails, Unexpected, Ungate
  <1>5. CASE Close
    BY <1>5 DEF Close
  <1> QED
    BY <1>1, <1>2, <1>3, <1>4, <1>5 DEF Worker

\* Only Write makes its task the last writer.
LEMMA WorkerLast == Worker => UNCHANGED last \/ (Write /\ last'.id = task.id)
  <1>1. Worker => UNCHANGED last \/ Write
    BY DEF Worker, Checkpoint, Begin, Refused, Acquire, Yielded, GiveUp, ToOpen, Open,
       ToDetect, Claimed, OtherModel, Silent, Probe, ScanFailed, ToObserve, Observe,
       Observed, ToBackup, Identify, SkipBackup, LoadBackup, Capture, Rehearsed, ToWrite,
       Written, WriteFails, Unexpected, Close, Ungate
  <1>2. Write => last'.id = task.id
    BY DEF Write
  <1> QED
    BY <1>1, <1>2

LEMMA IdStep == TypeOK /\ IdInv /\ [Next]_vars => IdInv'
  <1> SUFFICES ASSUME TypeOK, IdInv, [Next]_vars PROVE IdInv'
    OBVIOUS
  <1>a. /\ tasks \in Nat /\ task.id \in Nat /\ leaseFile.task \in Nat
        /\ notice.task \in Nat /\ last.id \in Nat
    BY BoundsAssumption DEF TypeOK, TaskIds
  <1> USE DEF IdInv
  <1>1. CASE Worker
    <2>1. UNCHANGED outside
      BY <1>1 DEF Worker
    <2>2. leaseFile'.task \in {leaseFile.task, task.id}
      BY <1>1, WorkerLease DEF Entry
    <2>3. last'.id \in {last.id, task.id} /\ (wpc' \in BeforeWrite => last'.id = last.id)
      BY <1>1, WorkerLast DEF Write, BeforeWrite
    <2>4. up = "up"
      BY <1>1, WorkerPc
    <2> QED
      BY <1>a, <1>1, <2>1, <2>2, <2>3, <2>4, WorkerPc
  <1>2. CASE Start
    <2>1. tasks' = tasks + 1 /\ task'.id = tasks'
      BY <1>2 DEF Start
    <2> QED
      BY <1>a, <1>2, <2>1 DEF Start, Closed, Cleared
  <1>3. CASE Abort \/ Evict \/ Sigterm
    BY <1>3 DEF Abort, Evict, Sigterm, Closed
  <1>4. CASE Kill
    BY <1>a, <1>4 DEF Kill, NoNotice, BeforeWrite
  <1>5. CASE Boot \/ StartupRead
    BY <1>5 DEF Boot, StartupRead, Closed, BeforeWrite
  <1>6. CASE StartupMark
    <2>1. leaseFile'.task = leaseFile.task
      BY <1>6 DEF StartupMark, Interrupted, TypeOK
    <2> QED
      BY <1>a, <1>6, <2>1 DEF StartupMark, BeforeWrite
  <1>7. CASE StartupShow
    BY <1>7 DEF StartupShow, BeforeWrite, Closed
  <1>8. CASE UNCHANGED vars
    BY <1>8 DEF Closed
  <1> QED
    BY <1>1, <1>2, <1>3, <1>4, <1>5, <1>6, <1>7, <1>8 DEF Next, Process

LEMMA IdInit == Init => IdInv
  BY BoundsAssumption DEF Init, Fresh, IdInv, NoLease, NoNotice, NoWriter, BeforeWrite

-----------------------------------------------------------------------------
(* What the next process says of a task.                                   *)

\* A lease that is not closed is that of the worker that lives, or its task was
\* cut off or could not close it; the same holds of the task of a notice.
NoticeInv ==
    /\ ~Closed =>
         \/ leaseFile.task \in cut \cup unclosed
         \/ Alive /\ wpc # "ungate" /\ leaseFile.task = task.id
    /\ NoticeTrue

\* No task is forgotten that could not close its lease.
LEMMA WorkerUnclosed == Worker => unclosed \subseteq unclosed'
  BY DEF Worker, Checkpoint, Begin, Refused, Acquire, Yielded, GiveUp, ToOpen, Open,
     ToDetect, Claimed, OtherModel, Silent, Probe, ScanFailed, ToObserve, Observe, Observed,
     ToBackup, Identify, SkipBackup, LoadBackup, Capture, Rehearsed, ToWrite, Write, Written,
     WriteFails, Unexpected, Close, Ungate, WriteLease, CloseLease

\* Close closes the lease on disk, or its task is among those that could not.
LEMMA CloseClosed == IdInv /\ Close => Closed' \/ task.id \in unclosed'
  <1> SUFFICES ASSUME IdInv, Close, leaseFile' = Entry(stage) PROVE Closed'
    BY DEF Close, CloseLease
  <1>1. leaseFile'.stage \in Terminal
    BY DEF IdInv, Close, Entry
  <1> QED
    BY <1>1 DEF Closed

LEMMA NoticeStep == TypeOK /\ IdInv /\ NoticeInv /\ [Next]_vars => NoticeInv'
  <1> SUFFICES ASSUME TypeOK, IdInv, NoticeInv, [Next]_vars PROVE NoticeInv'
    OBVIOUS
  <1> USE DEF NoticeInv, NoticeTrue
  <1>1. CASE Worker
    <2>1. UNCHANGED outside
      BY <1>1 DEF Worker
    <2>2. NoticeTrue'
      BY <1>1, <2>1, WorkerUnclosed
    <2>3. ASSUME leaseFile' = leaseFile
          PROVE  NoticeInv'
      <3>1. Closed' = Closed
        BY <2>3 DEF Closed
      <3>2. CASE wpc' = "ungate"
        BY <1>1, <2>1, <2>2, <2>3, <3>1, <3>2, WorkerUnclosed, WorkerPc, CloseClosed
      <3>3. CASE wpc' # "ungate"
        BY <1>1, <2>1, <2>2, <2>3, <3>1, <3>3, WorkerUnclosed, WorkerPc
      <3> QED
        BY <3>2, <3>3
    <2>4. ASSUME NEW s, leaseFile' = Entry(s)
          PROVE  NoticeInv'
      <3>1. leaseFile'.task = task.id
        BY <2>4 DEF Entry
      <3>2. CASE Close
        BY <2>1, <2>2, <3>1, <3>2, CloseClosed
      <3>3. CASE ~Close /\ wpc' # "none"
        BY <1>1, <2>1, <2>2, <3>1, <3>3, WorkerPc
      <3>4. CASE wpc' = "none"
        <4>1. Ungate
          BY <1>1, <3>4, WorkerPc DEF Worker, Checkpoint, Checked, Begin, Refused, Acquire,
            Yielded, GiveUp, ToOpen, Open, ToDetect, Claimed, OtherModel, Silent, Probe,
            ScanFailed, ToObserve, Observe, Observed, ToBackup, Identify, SkipBackup,
            LoadBackup, Capture, Rehearsed, ToWrite, Write, Written, WriteFails, Unexpected,
            Close
        <4>2. leaseFile' = leaseFile
          BY <4>1 DEF Ungate
        <4> QED
          BY <2>3, <4>2
      <3> QED
        BY <3>2, <3>3, <3>4
    <2> QED
      BY <1>1, <2>3, <2>4, WorkerLease
  <1>2. CASE Start \/ Abort \/ Evict \/ Sigterm
    BY <1>2 DEF Start, Cleared, Abort, Evict, Sigterm, Closed
  <1>3. CASE Kill
    BY <1>3 DEF Kill, Closed, NoNotice
  <1>4. CASE Boot \/ StartupRead
    BY <1>4 DEF Boot, StartupRead, Closed
  <1>5. CASE StartupMark
    <2>1. ~Alive /\ ~Closed
      BY <1>5 DEF StartupMark, IdInv
    <2>2. leaseFile'.task = leaseFile.task
      BY <1>5 DEF StartupMark, Interrupted, TypeOK
    <2>3. notice'.task = leaseFile.task
      BY <1>5 DEF StartupMark
    <2>4. unclosed \subseteq unclosed' /\ cut' = cut
      BY <1>5 DEF StartupMark
    <2> QED
      BY <2>1, <2>2, <2>3, <2>4
  <1>6. CASE StartupShow
    BY <1>6 DEF StartupShow, Closed, IdInv
  <1>7. CASE UNCHANGED vars
    BY <1>7 DEF Closed
  <1> QED
    BY <1>1, <1>2, <1>3, <1>4, <1>5, <1>6, <1>7 DEF Next, Process

\* No task is called interrupted that came to its end and could say so on disk.
THEOREM NoticeCorrect == Spec => []NoticeTrue
  <1>1. Init => NoticeInv
    BY DEF Init, Fresh, NoticeInv, NoticeTrue, Closed, NoLease, NoNotice
  <1>2. NoticeInv => NoticeTrue
    BY DEF NoticeInv
  <1> QED
    BY <1>1, <1>2, TypeInit, TypeStep, IdInit, IdStep, NoticeStep, PTL DEF Spec

\* What the lease and the notice say of a diagnosis is said of a task that has
\* not written, and the lease of the worker that lives says what its task is.
AllClearInv ==
    /\ wpc \in {"identify", "backup", "backedUp", "write"} => task.action # "diagnose"
    /\ leaseFile.action = "diagnose" => leaseFile.task # last.id
    /\ Alive /\ leaseFile.task = task.id /\ leaseFile.action = "diagnose" =>
         task.action = "diagnose"
    /\ Alive /\ task.action = "diagnose" => last.id # task.id
    /\ NoFalseAllClear

LEMMA AllClearStep == TypeOK /\ IdInv /\ AllClearInv /\ [Next]_vars => AllClearInv'
  <1> SUFFICES ASSUME TypeOK, IdInv, AllClearInv, [Next]_vars PROVE AllClearInv'
    OBVIOUS
  <1> USE DEF AllClearInv, NoFalseAllClear
  <1>a. /\ tasks \in Nat /\ task.id \in Nat /\ leaseFile.task \in Nat
        /\ notice.task \in Nat /\ last.id \in Nat
    BY BoundsAssumption DEF TypeOK, TaskIds
  <1>1. CASE Worker
    <2>1. UNCHANGED outside
      BY <1>1 DEF Worker
    <2>2. wpc' \in {"identify", "backup", "backedUp", "write"} => task.action # "diagnose"
      <3>1. CASE Checkpoint \/ Begin \/ Refused \/ Acquire \/ Yielded \/ GiveUp \/ ToOpen
                 \/ Open \/ ToDetect \/ Claimed \/ OtherModel \/ Silent \/ Probe \/ ScanFailed
        BY <3>1 DEF Checkpoint, Begin, Refused, Acquire, Yielded, GiveUp, ToOpen, Open,
           ToDetect, Claimed, OtherModel, Silent, Probe, ScanFailed, Ends, Unknown
      <3>2. CASE ~(Checkpoint \/ Begin \/ Refused \/ Acquire \/ Yielded \/ GiveUp \/ ToOpen
                   \/ Open \/ ToDetect \/ Claimed \/ OtherModel \/ Silent \/ Probe
                   \/ ScanFailed)
        BY <1>1, <3>2 DEF Worker, ToObserve, Observe, Observed, ToBackup, Identify,
           SkipBackup, LoadBackup, Capture, Rehearsed, ToWrite, Write, Written, WriteFails,
           Unexpected, Close, Ungate, Ends
      <3> QED
        BY <3>1, <3>2
    <2>3. last' = last \/ (last'.id = task.id /\ task.action # "diagnose")
      BY <1>1, WorkerLast DEF Write
    <2>4. \/ leaseFile' = leaseFile
          \/ /\ leaseFile'.task = task.id
             /\ leaseFile'.action = "diagnose" => task.action = "diagnose"
      BY <1>1, WorkerLease DEF Entry
    <2>5. Alive
      BY <1>1, WorkerPc
    <2> QED
      BY <1>a, <2>1, <2>2, <2>3, <2>4, <2>5 DEF IdInv
  <1>2. CASE Start
    <2>1. tasks' = tasks + 1 /\ task'.id = tasks'
      BY <1>2 DEF Start
    <2> QED
      BY <1>a, <1>2, <2>1 DEF Start, Cleared, IdInv
  <1>3. CASE Abort \/ Evict \/ Sigterm \/ Boot \/ StartupRead
    BY <1>3 DEF Abort, Evict, Sigterm, Boot, StartupRead
  <1>4. CASE Kill
    BY <1>4 DEF Kill, NoNotice
  <1>5. CASE StartupMark
    <2>1. leaseFile'.task = leaseFile.task /\ leaseFile'.action = leaseFile.action
      BY <1>5 DEF StartupMark, Interrupted, TypeOK
    <2>2. notice'.task = leaseFile.task
          /\ (notice'.untouched => leaseFile.action = "diagnose")
      BY <1>5 DEF StartupMark, Untouched
    <2>3. wpc' = "none" /\ UNCHANGED <<last, task>>
      BY <1>5 DEF StartupMark, IdInv
    <2> QED
      BY <2>1, <2>2, <2>3
  <1>6. CASE StartupShow
    BY <1>6 DEF StartupShow, IdInv
  <1>7. CASE UNCHANGED vars
    BY <1>7
  <1> QED
    BY <1>1, <1>2, <1>3, <1>4, <1>5, <1>6, <1>7 DEF Next, Process

\* The user is never told that the module is untouched by a task that wrote to it.
THEOREM AllClearCorrect == Spec => []NoFalseAllClear
  <1>1. Init => AllClearInv
    BY DEF Init, Fresh, AllClearInv, NoFalseAllClear, NoLease, NoNotice
  <1>2. AllClearInv => NoFalseAllClear
    BY DEF AllClearInv
  <1> QED
    BY <1>1, <1>2, TypeInit, TypeStep, IdInit, IdStep, AllClearStep, PTL DEF Spec

-----------------------------------------------------------------------------
(* An interruption is shown.                                               *)

Holding == {"opened", "detect", "scan", "detected", "observe", "identify", "backup",
            "backedUp", "write", "close"}

\* From its acquisition to its release the lease on disk is the task's and open;
\* once the process is gone, it is the lost task's until the next start marks it.
InterruptInv ==
    /\ held => wpc \in Holding
    /\ held \/ wpc \in {"yield", "yielded", "open"} => ~Closed /\ leaseFile.task = task.id
    /\ lost # 0 => ~Alive
    /\ up \in {"down", "read", "mark"} /\ lost # 0 => ~Closed /\ leaseFile.task = lost
    /\ up = "show" /\ lost # 0 => notice.task = lost /\ (~Closed => leaseFile.task = lost)
    /\ InterruptionShown

\* An open lease is written by every step but the ones that end a task.
LEMMA WriteLeaseOpen ==
    ASSUME NEW s \in Stages \ Terminal, WriteLease(s)
    PROVE  \/ leaseFile' = leaseFile
           \/ ~Closed' /\ leaseFile'.task = task.id
  BY DEF WriteLease, Entry, Closed, Stages, Terminal

LEMMA InterruptWorker ==
    TypeOK /\ IdInv /\ InterruptInv /\ Worker =>
        /\ held' => wpc' \in Holding
        /\ held' \/ wpc' \in {"yield", "yielded", "open"} => ~Closed' /\ leaseFile'.task = task.id
  <1> SUFFICES ASSUME TypeOK, IdInv, InterruptInv, Worker
               PROVE  /\ held' => wpc' \in Holding
                      /\ held' \/ wpc' \in {"yield", "yielded", "open"} =>
                            ~Closed' /\ leaseFile'.task = task.id
    OBVIOUS
  <1> USE DEF InterruptInv, Holding, Ends
  <1>1. CASE Checkpoint \/ Refused \/ Claimed \/ OtherModel \/ Silent \/ Probe \/ ScanFailed
             \/ SkipBackup \/ LoadBackup \/ Capture \/ Rehearsed
    <2>1. leaseFile' = leaseFile /\ held' = held
      BY <1>1 DEF Checkpoint, Refused, Claimed, OtherModel, Silent, Probe, ScanFailed,
         SkipBackup, LoadBackup, Capture, Rehearsed
    <2>2. Closed' = Closed
      BY <2>1 DEF Closed
    <2>3. wpc' \in {"detected", "scan", "backedUp", "close"}
      BY <1>1 DEF Checkpoint, Refused, Claimed, OtherModel, Silent, Probe, ScanFailed,
         SkipBackup, LoadBackup, Capture, Rehearsed, Unknown
    <2> QED
      BY <2>1, <2>2, <2>3
  <1>2. CASE Write \/ Written \/ WriteFails \/ Unexpected \/ Ungate
    <2>1. leaseFile' = leaseFile /\ held' = held
      BY <1>2 DEF Write, Written, WriteFails, Unexpected, Ungate
    <2>2. Closed' = Closed
      BY <2>1 DEF Closed
    <2>3. wpc' \in {"write", "close", "none"} /\ (wpc' = "none" => wpc = "ungate")
      BY <1>2 DEF Write, Written, WriteFails, Unexpected, Ungate
    <2> QED
      BY <2>1, <2>2, <2>3
  <1>3. CASE Begin
    BY <1>3 DEF Begin
  <1>4. CASE Acquire
    <2>1. CASE wpc' = "close"
      BY <1>4, <2>1 DEF Acquire
    <2>2. CASE wpc' # "close"
      <3>1. leaseFile' = Entry("PREPARE") /\ wpc' = "yield" /\ held' = held
        BY <1>4, <2>2 DEF Acquire
      <3>2. ~Closed' /\ leaseFile'.task = task.id
        BY <3>1 DEF Entry, Closed, Terminal
      <3> QED
        BY <1>4, <3>1, <3>2 DEF Acquire
    <2> QED
      BY <2>1, <2>2
  <1>5. CASE Yielded \/ ToOpen \/ ToDetect \/ ToObserve \/ Observe \/ Observed \/ ToBackup
             \/ Identify \/ ToWrite
    <2>1. leaseFile' = leaseFile \/ (~Closed' /\ leaseFile'.task = task.id)
      BY <1>5, WriteLeaseOpen DEF Yielded, ToOpen, ToDetect, ToObserve, Observe, Observed,
         ToBackup, Identify, ToWrite, Stages, Terminal
    <2>2. leaseFile' = leaseFile => Closed' = Closed
      BY DEF Closed
    <2>3. held' = held /\ wpc' \in Holding \cup {"yielded", "open"}
      BY <1>5 DEF Yielded, ToOpen, ToDetect, ToObserve, Observe, Observed, ToBackup,
         Identify, ToWrite
    <2>4. held => wpc' \in Holding
      BY <1>5 DEF Yielded, ToOpen, ToDetect, ToObserve, Observe, Observed, ToBackup,
         Identify, ToWrite
    <2>5. wpc' \in {"yield", "yielded", "open"} => wpc \in {"yield", "yielded"}
      BY <1>5 DEF Yielded, ToOpen, ToDetect, ToObserve, Observe, Observed, ToBackup,
         Identify, ToWrite
    <2> QED
      BY <2>1, <2>2, <2>3, <2>4, <2>5
  <1>6. CASE GiveUp
    BY <1>6 DEF GiveUp
  <1>7. CASE Open
    <2>1. leaseFile' = leaseFile \/ (~Closed' /\ leaseFile'.task = task.id)
      BY <1>7, WriteLeaseOpen DEF Open, Stages, Terminal
    <2>2. leaseFile' = leaseFile => Closed' = Closed
      BY DEF Closed
    <2> QED
      BY <1>7, <2>1, <2>2 DEF Open
  <1>8. CASE Close
    BY <1>8 DEF Close
  <1> QED
    BY <1>1, <1>2, <1>3, <1>4, <1>5, <1>6, <1>7, <1>8 DEF Worker

LEMMA InterruptStep == TypeOK /\ IdInv /\ InterruptInv /\ [Next]_vars => InterruptInv'
  <1> SUFFICES ASSUME TypeOK, IdInv, InterruptInv, [Next]_vars PROVE InterruptInv'
    OBVIOUS
  <1> USE DEF InterruptInv, InterruptionShown, Holding
  <1>1. CASE Worker
    <2>1. UNCHANGED outside
      BY <1>1 DEF Worker
    <2>2. up = "up" /\ Alive
      BY <1>1, WorkerPc DEF IdInv
    <2> QED
      BY <1>1, <2>1, <2>2, InterruptWorker
  <1>2. CASE Start
    BY <1>2 DEF Start, Cleared, Closed
  <1>3. CASE Abort \/ Evict \/ Sigterm
    BY <1>3 DEF Abort, Evict, Sigterm, Closed
  <1>4. CASE Kill
    BY <1>4 DEF Kill, Closed, IdInv, TypeOK, Ups
  <1>5. CASE Boot
    BY <1>5 DEF Boot, Closed
  <1>6. CASE StartupRead
    BY <1>6 DEF StartupRead, Closed, IdInv
  <1>7. CASE StartupMark
    <2>1. leaseFile'.task = leaseFile.task
      BY <1>7 DEF StartupMark, Interrupted, TypeOK
    <2>2. notice'.task = leaseFile.task /\ up' = "show" /\ wpc' = "none" /\ held' = held
          /\ lost' = lost
      BY <1>7 DEF StartupMark, IdInv
    <2> QED
      BY <1>7, <2>1, <2>2 DEF StartupMark, IdInv
  <1>8. CASE StartupShow
    BY <1>8 DEF StartupShow, Closed, IdInv
  <1>9. CASE UNCHANGED vars
    BY <1>9 DEF Closed
  <1> QED
    BY <1>1, <1>2, <1>3, <1>4, <1>5, <1>6, <1>7, <1>8, <1>9 DEF Next, Process

\* A task that had the port open when the process was killed is shown as interrupted.
THEOREM InterruptionCorrect == Spec => []InterruptionShown
  <1>1. Init => InterruptInv
    BY DEF Init, Fresh, InterruptInv, InterruptionShown
  <1>2. InterruptInv => InterruptionShown
    BY DEF InterruptInv
  <1> QED
    BY <1>1, <1>2, TypeInit, TypeStep, IdInit, IdStep, InterruptStep, PTL DEF Spec

-----------------------------------------------------------------------------
(* A way back.                                                             *)

\* The backup of the last writer is on disk as it was taken, whatever the
\* configuration; that of a task about to write is of what it is about to change.
WayInv ==
    /\ last.action \in {"write", "restore"} /\ last.snap.saved /\ backup.by <= last.id =>
         /\ backup = last.snap
         /\ last.action = "write" => backup.by = last.id /\ backup.cfg = last.before
    /\ wpc \in {"backedUp", "write"} /\ task.action \in {"write", "restore"} /\ snapshot.saved =>
         backup = snapshot
    /\ wpc \in {"backedUp", "write"} /\ task.action = "write" =>
         /\ snapshot.by = task.id
         /\ last.id # task.id => snapshot.cfg = config
         /\ last.id = task.id => last.before = snapshot.cfg

LEMMA WayStep == TypeOK /\ IdInv /\ WayInv /\ [Next]_vars => WayInv'
  <1> SUFFICES ASSUME TypeOK, IdInv, WayInv, [Next]_vars PROVE WayInv'
    OBVIOUS
  <1> USE DEF WayInv
  <1>1. CASE Worker
    <2>1. UNCHANGED task
      BY <1>1 DEF Worker
    <2>2. CASE Write
      <3>1. /\ last'.id = task.id /\ last'.action = task.action /\ last'.snap = snapshot
            /\ last'.before = IF last.id = task.id THEN last.before ELSE config
            /\ UNCHANGED <<backup, snapshot, wpc>> /\ wpc = "write"
        BY <2>2 DEF Write
      <3> QED
        BY <2>1, <3>1
    <2>3. CASE Capture
      <3>1. last.id < task.id
        BY <2>3 DEF Capture, IdInv, BeforeWrite
      <3>2. last.id \in Nat /\ task.id \in Nat
        BY BoundsAssumption DEF TypeOK, TaskIds
      <3>3. UNCHANGED <<config, last>> /\ snapshot'.by = task.id /\ snapshot'.cfg = config
        BY <2>3 DEF Capture, Captured
      <3>4. (snapshot'.saved /\ backup' = snapshot') \/ (~snapshot'.saved /\ backup' = backup)
        BY <2>3 DEF Capture, Captured
      <3>5. backup' = backup \/ ~(backup'.by <= last.id)
        BY <3>1, <3>2, <3>3, <3>4
      <3> QED
        BY <2>1, <3>1, <3>2, <3>3, <3>4, <3>5
    <2>4. CASE SkipBackup \/ LoadBackup
      BY <2>1, <2>4 DEF SkipBackup, LoadBackup, Ends
    <2>5. CASE Checkpoint \/ Written \/ WriteFails
      <3>1. wpc' = "close" /\ UNCHANGED <<backup, last>>
        BY <2>5 DEF Checkpoint, Written, WriteFails, Ends
      <3> QED
        BY <3>1
    <2>6. CASE Close
      BY <2>6 DEF Close, CloseLease
    <2>7. CASE ~(Write \/ Capture \/ SkipBackup \/ LoadBackup \/ Checkpoint \/ Written
                 \/ WriteFails \/ Close)
      <3>1. UNCHANGED <<backup, last, config, snapshot>>
        BY <1>1, <2>7 DEF Worker, Begin, Refused, Acquire, Yielded, GiveUp, ToOpen, Open,
           ToDetect, Claimed, OtherModel, Silent, Probe, ScanFailed, ToObserve, Observe,
           Observed, ToBackup, Identify, Rehearsed, ToWrite, Unexpected, Ungate,
           WriteLease, CloseLease
      <3>2. wpc' \in {"backedUp", "write"} => wpc \in {"backedUp", "write"}
        BY <1>1, <2>7 DEF Worker, Begin, Refused, Acquire, Yielded, GiveUp, ToOpen, Open,
           ToDetect, Claimed, OtherModel, Silent, Probe, ScanFailed, ToObserve, Observe,
           Observed, ToBackup, Identify, Rehearsed, ToWrite, Unexpected, Ungate, Ends,
           Unknown
      <3> QED
        BY <2>1, <3>1, <3>2
    <2> QED
      BY <2>2, <2>3, <2>4, <2>5, <2>6, <2>7
  <1>2. CASE Start
    BY <1>2 DEF Start
  <1>3. CASE Abort \/ Evict \/ Sigterm \/ Boot \/ StartupRead
    BY <1>3 DEF Abort, Evict, Sigterm, Boot, StartupRead
  <1>4. CASE Kill
    BY <1>4 DEF Kill
  <1>5. CASE StartupMark
    BY <1>5 DEF StartupMark
  <1>6. CASE StartupShow
    BY <1>6 DEF StartupShow, IdInv
  <1>7. CASE UNCHANGED vars
    BY <1>7
  <1> QED
    BY <1>1, <1>2, <1>3, <1>4, <1>5, <1>6, <1>7 DEF Next, Process

\* While a task's configuration is incomplete on the module, backup.json can be
\* restored and gives back all that was there before it, if capture could read it.
THEOREM WayBackCorrect == Spec => []WayBack
  <1>1. Init => WayInv
    BY DEF Init, Fresh, WayInv, NoWriter
  <1>2. WayInv => WayBack
    BY DEF WayInv, WayBack, Usable, Complete, Restored
  <1> QED
    BY <1>1, <1>2, TypeInit, TypeStep, IdInit, IdStep, WayStep, PTL DEF Spec

=============================================================================
