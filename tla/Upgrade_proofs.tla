--------------------------- MODULE Upgrade_proofs ---------------------------
(***************************************************************************)
(* Proofs about Upgrade, for every set of entries, records and handlers    *)
(* and every number of upgrades.                                           *)
(***************************************************************************)
EXTENDS Upgrade, TLAPS

USE DEF Goes, SetState, Finish, StartService, StopService, Loads, HandlersGone, Nothing,
        Forgotten, Merged, noPid, service, web, tree, backups, db, vars

\* The steps of neither the web handlers nor the runner.
Rest ==
    \/ SaveRecord \/ CloseDb \/ Respawn
    \/ RunnerKilled \/ PowerFails \/ PidTaken \/ SeedAges

-----------------------------------------------------------------------------
(* Type correctness.                                                       *)

\* The service is up, no upgrade was ever started: well typed.
LEMMA TypeInit == Init => TypeOK
  <1> SUFFICES ASSUME Init PROVE TypeOK
    OBVIOUS
  <1>1. died \in BOOLEAN /\ hasTar \in BOOLEAN /\ hasBak \in BOOLEAN /\ rbOk \in BOOLEAN
    BY Zenon DEF Init
  <1>2. file \in [stage : Stages, pid : 0 .. MaxRuns, fin : BOOLEAN, old : BOOLEAN]
    BY RunsAssumption DEF Init, Stages
  <1> QED
    BY <1>1, <1>2, RunsAssumption DEF Init, TypeOK, Pcs

\* No step of a web handler leaves the types: the seed names no process, and a
\* launch is refused once the bound on the runs is reached.
LEMMA TypeWeb == TypeOK /\ Web => TypeOK'
  <1> SUFFICES ASSUME TypeOK, NEW h \in Handlers,
                         Check(h) \/ Launch(h) \/ SeedLook(h) \/ SeedWrite(h)
               PROVE TypeOK'
    BY DEF Web
  <1> USE DEF Handler
  <1> USE RunsAssumption DEF TypeOK, Pcs, Stages, ActiveStages
  <1>1. CASE Check(h)
    BY <1>1 DEF Check
  <1>2. CASE Launch(h)
    <2>1. died' \in BOOLEAN
      BY <1>2, Zenon DEF Launch, TypeOK
    <2>2. hasTar' \in BOOLEAN
      BY <1>2, Zenon DEF Launch, TypeOK
    <2>3. hasBak' \in BOOLEAN
      BY <1>2, Zenon DEF Launch, TypeOK
    <2> QED
      BY <1>2, <2>1, <2>2, <2>3 DEF Launch
  <1>3. CASE SeedLook(h)
    BY <1>3 DEF SeedLook
  <1>4. CASE SeedWrite(h)
    BY <1>4 DEF SeedWrite
  <1> QED
    BY <1>1, <1>2, <1>3, <1>4

\* What a stop, whether it works or not, leaves of the service is well typed.
LEMMA TypeStop ==
    ASSUME TypeOK, StopService
    PROVE  /\ svc' \in {"up", "down", "failed", "killed"}
           /\ loaded' \in [Items -> SUBSET (0 .. MaxRuns)]
           /\ unstopped' \in BOOLEAN
           /\ wpc' \in [Handlers -> {"idle", "launch", "seed", "write"}]
  <1>1. svc' \in {"up", "down", "failed", "killed"}
    BY DEF TypeOK
  <1>2. loaded' \in [Items -> SUBSET (0 .. MaxRuns)]
    BY DEF TypeOK
  <1>3. unstopped' \in BOOLEAN
    BY Zenon
  <1>4. wpc' \in [Handlers -> {"idle", "launch", "seed", "write"}]
    BY DEF TypeOK
  <1> QED
    BY <1>1, <1>2, <1>3, <1>4

\* So is what a start leaves.
LEMMA TypeStart ==
    ASSUME TypeOK, StartService
    PROVE  /\ svc' \in {"up", "down", "failed", "killed"}
           /\ loaded' \in [Items -> SUBSET (0 .. MaxRuns)]
           /\ unstopped' \in BOOLEAN
  BY DEF TypeOK

\* No step of the runner leaves the types.
LEMMA TypeRunner == TypeOK /\ Runner => TypeOK'
  <1> SUFFICES ASSUME TypeOK, Runner PROVE TypeOK'
    OBVIOUS
  <1> USE RunsAssumption DEF TypeOK, Pcs, Stages, ActiveStages
  <1> HIDE DEF StopService, StartService
  <1>a. UNCHANGED <<run, died>>
    BY DEF Runner
  <1>1. CASE Queued
    BY <1>a, <1>1 DEF Queued
  <1>2. CASE Fetch
    BY <1>a, <1>2 DEF Fetch
  <1>3. CASE Verify
    BY <1>a, <1>3 DEF Verify
  <1>4. CASE BackupTar
    <2>1. hasTar' \in BOOLEAN
      BY <1>a, <1>4, Zenon DEF BackupTar, TypeOK
    <2> QED
      BY <1>a, <1>4, <2>1 DEF BackupTar
  <1>5. CASE CopyMain
    BY <1>a, <1>5 DEF CopyMain
  <1>6. CASE CopyWal
    <2>1. hasBak' \in BOOLEAN
      BY <1>a, <1>6, Zenon DEF CopyWal, TypeOK
    <2> QED
      BY <1>a, <1>6, <2>1 DEF CopyWal
  <1>7. CASE Stop
    BY <1>a, <1>7, TypeStop DEF Stop
  <1>8. CASE Abort
    BY <1>a, <1>8 DEF Abort
  <1>9. CASE GiveUp
    BY <1>a, <1>9 DEF GiveUp
  <1>10. CASE Restart
    BY <1>a, <1>10, TypeStart DEF Restart
  <1>11. CASE Apply
    BY <1>a, <1>11 DEF Apply
  <1>12. CASE Copy
    BY <1>a, <1>12 DEF Copy
  <1>13. CASE Migrate
    BY <1>a, <1>13 DEF Migrate
  <1>14. CASE Deps
    BY <1>a, <1>14 DEF Deps
  <1>15. CASE Start
    BY <1>a, <1>15, TypeStart DEF Start
  <1>16. CASE Health
    BY <1>a, <1>16 DEF Health
  <1>17. CASE Success
    BY <1>a, <1>17 DEF Success
  <1>18. CASE RollbackStop
    BY <1>a, <1>18, TypeStop DEF RollbackStop
  <1>19. CASE RollbackTar
    <2>1. rbOk' \in BOOLEAN
      BY <1>a, <1>19, Zenon DEF RollbackTar, TypeOK
    <2> QED
      BY <1>a, <1>19, <2>1 DEF RollbackTar
  <1>20. CASE RollbackWal
    BY <1>a, <1>20 DEF RollbackWal
  <1>21. CASE RollbackMain
    BY <1>a, <1>21 DEF RollbackMain
  <1>22. CASE RollbackWal2
    BY <1>a, <1>22 DEF RollbackWal2
  <1>23. CASE RollbackDeps
    BY <1>a, <1>23 DEF RollbackDeps
  <1>24. CASE RollbackStart
    BY <1>a, <1>24, TypeStart DEF RollbackStart
  <1>25. CASE RollbackHealth
    <2>1. Finish("failed") \/ Finish("rolled_back")
      BY <1>25, Zenon DEF RollbackHealth
    <2>2. pc' = "none" /\ UNCHANGED <<service, web, code, db>> /\ Forgotten
      BY <1>25, Zenon DEF RollbackHealth
    <2>3. CASE Finish("failed")
      BY <1>a, <2>2, <2>3
    <2>4. CASE Finish("rolled_back")
      BY <1>a, <2>2, <2>4
    <2> QED
      BY <2>1, <2>3, <2>4
  <1> QED
    BY <1>1, <1>2, <1>3, <1>4, <1>5, <1>6, <1>7, <1>8, <1>9, <1>10, <1>11,
        <1>12, <1>13, <1>14, <1>15, <1>16, <1>17, <1>18, <1>19, <1>20, <1>21,
        <1>22, <1>23, <1>24, <1>25 DEF Runner

\* Neither do saved records, failures and the passing of time.
LEMMA TypeRest == TypeOK /\ Rest => TypeOK'
  <1> SUFFICES ASSUME TypeOK, Rest PROVE TypeOK'
    OBVIOUS
  <1> USE RunsAssumption DEF TypeOK, Pcs, Stages, ActiveStages
  <1>7. CASE Respawn
    BY <1>7 DEF Respawn
  <1>1. CASE SaveRecord
    BY <1>1 DEF SaveRecord
  <1>2. CASE CloseDb
    BY <1>2 DEF CloseDb
  <1>3. CASE RunnerKilled
    <2>1. died' \in BOOLEAN
      BY <1>3, Zenon DEF RunnerKilled, TypeOK
    <2> QED
      BY <1>3, <2>1 DEF RunnerKilled
  <1>4. CASE PowerFails
    <2>1. died' \in BOOLEAN
      BY <1>4, Zenon DEF PowerFails, TypeOK
    <2> QED
      BY <1>4, <2>1 DEF PowerFails
  <1>5. CASE PidTaken
    BY <1>5 DEF PidTaken
  <1>6. CASE SeedAges
    <2>1. file' = [file EXCEPT !.old = TRUE] /\ UNCHANGED <<pc, run, died, service, rbOk, web, tree, backups, db>>
      BY <1>6 DEF SeedAges
    <2>2. file' \in [stage : Stages, pid : 0 .. MaxRuns, fin : BOOLEAN, old : BOOLEAN]
      BY <2>1
    <2> QED
      BY <2>1, <2>2
  <1> QED
    BY <1>1, <1>2, <1>3, <1>4, <1>5, <1>6, <1>7 DEF Rest

\* Every variable keeps its type, for every number of handlers and of upgrades.
THEOREM TypeCorrect == Spec => []TypeOK
  <1>1. TypeOK /\ [Next]_vars => TypeOK'
    <2> SUFFICES ASSUME TypeOK, [Next]_vars PROVE TypeOK'
      OBVIOUS
    <2>1. CASE UNCHANGED vars
      BY <2>1 DEF TypeOK
    <2> QED
      BY <2>1, TypeWeb, TypeRunner, TypeRest DEF Next, Rest
  <1> QED
    BY <1>1, TypeInit, PTL DEF Spec

-----------------------------------------------------------------------------
(* The service while the files are replaced and when the runner ends.      *)

\* The steps at which files may be replaced, and until the service is started again.
Replacing == {"apply", "copy", "migrate", "deps", "start", "rbTar", "rbWal", "rbMain",
              "rbWal2", "rbDeps", "rbStart"}

\* While files are replaced the service is down, unless its stop has failed; before
\* and after, it is not.  A service whose stop has not failed was last started with
\* what is installed now, and systemd restarts only one whose stop has failed.
Serving ==
    /\ pc \in Replacing => svc = "down" \/ unstopped
    /\ pc \in {"queued", "fetch", "verify", "tar", "copyMain", "copyWal", "stop", "abort",
               "health", "success", "rbHealth"} => svc # "down"
    /\ svc = "killed" => unstopped
    /\ svc \in {"up", "failed"} /\ ~unstopped => loaded = code
    /\ NotLeftStopped

\* A runner is launched by the service that runs.
LEMMA ServingWeb == TypeOK /\ Serving /\ Web => Serving'
  <1> SUFFICES ASSUME TypeOK, Serving, NEW h \in Handlers,
                         Check(h) \/ Launch(h) \/ SeedLook(h) \/ SeedWrite(h)
               PROVE Serving'
    BY DEF Web
  <1> USE DEF Handler
  <1> USE DEF Serving, Replacing, NotLeftStopped
  <1> USE DEF TypeOK
  <1>1. CASE Check(h)
    BY <1>1 DEF Check
  <1>2. CASE Launch(h)
    BY <1>2 DEF Launch
  <1>3. CASE SeedLook(h)
    BY <1>3 DEF SeedLook
  <1>4. CASE SeedWrite(h)
    BY <1>4 DEF SeedWrite
  <1> QED
    BY <1>1, <1>2, <1>3, <1>4

\* The runner stops the service before the first file and starts it after the
\* last, on each of its ways through an upgrade.
LEMMA ServingRunner == TypeOK /\ Serving /\ Runner => Serving'
  <1> SUFFICES ASSUME TypeOK, Serving, Runner PROVE Serving'
    OBVIOUS
  <1> USE DEF Serving, Replacing, NotLeftStopped
  <1> USE DEF TypeOK
  <1>a. UNCHANGED <<run, died>>
    BY DEF Runner
  <1>1. CASE Queued
    BY <1>a, <1>1 DEF Queued
  <1>2. CASE Fetch
    BY <1>a, <1>2 DEF Fetch
  <1>3. CASE Verify
    BY <1>a, <1>3 DEF Verify
  <1>4. CASE BackupTar
    BY <1>a, <1>4 DEF BackupTar
  <1>5. CASE CopyMain
    BY <1>a, <1>5 DEF CopyMain
  <1>6. CASE CopyWal
    BY <1>a, <1>6 DEF CopyWal
  <1>7. CASE Stop
    BY <1>a, <1>7 DEF Stop
  <1>8. CASE Abort
    BY <1>a, <1>8 DEF Abort
  <1>9. CASE GiveUp
    BY <1>a, <1>9 DEF GiveUp
  <1>10. CASE Restart
    BY <1>a, <1>10 DEF Restart
  <1>11. CASE Apply
    BY <1>a, <1>11 DEF Apply
  <1>12. CASE Copy
    BY <1>a, <1>12 DEF Copy
  <1>13. CASE Migrate
    BY <1>a, <1>13 DEF Migrate
  <1>14. CASE Deps
    BY <1>a, <1>14 DEF Deps
  <1>15. CASE Start
    BY <1>a, <1>15 DEF Start
  <1>16. CASE Health
    BY <1>a, <1>16 DEF Health
  <1>17. CASE Success
    BY <1>a, <1>17 DEF Success
  <1>18. CASE RollbackStop
    BY <1>a, <1>18 DEF RollbackStop
  <1>19. CASE RollbackTar
    BY <1>a, <1>19 DEF RollbackTar
  <1>20. CASE RollbackWal
    BY <1>a, <1>20 DEF RollbackWal
  <1>21. CASE RollbackMain
    BY <1>a, <1>21 DEF RollbackMain
  <1>22. CASE RollbackWal2
    BY <1>a, <1>22 DEF RollbackWal2
  <1>23. CASE RollbackDeps
    BY <1>a, <1>23 DEF RollbackDeps
  <1>24. CASE RollbackStart
    BY <1>a, <1>24 DEF RollbackStart
  <1>25. CASE RollbackHealth
    BY <1>a, <1>25 DEF RollbackHealth
  <1> QED
    BY <1>1, <1>2, <1>3, <1>4, <1>5, <1>6, <1>7, <1>8, <1>9, <1>10, <1>11,
        <1>12, <1>13, <1>14, <1>15, <1>16, <1>17, <1>18, <1>19, <1>20, <1>21,
        <1>22, <1>23, <1>24, <1>25 DEF Runner

\* A killed runner has died; a power failure ends with the service started.
LEMMA ServingRest == TypeOK /\ Serving /\ Rest => Serving'
  <1> SUFFICES ASSUME TypeOK, Serving, Rest PROVE Serving'
    OBVIOUS
  <1> USE DEF Serving, Replacing, NotLeftStopped
  <1> USE DEF TypeOK
  <1>7. CASE Respawn
    BY <1>7 DEF Respawn
  <1>1. CASE SaveRecord
    BY <1>1 DEF SaveRecord
  <1>2. CASE CloseDb
    BY <1>2 DEF CloseDb
  <1>3. CASE RunnerKilled
    BY <1>3 DEF RunnerKilled
  <1>4. CASE PowerFails
    BY <1>4 DEF PowerFails
  <1>5. CASE PidTaken
    BY <1>5 DEF PidTaken
  <1>6. CASE SeedAges
    BY <1>6 DEF SeedAges
  <1> QED
    BY <1>1, <1>2, <1>3, <1>4, <1>5, <1>6, <1>7 DEF Rest

\* The invariant holds in every reachable state.
LEMMA ServingInvariant == Spec => []Serving
  <1>1. Init => Serving
    BY DEF Init, Serving, Replacing, NotLeftStopped
  <1>2. TypeOK /\ Serving /\ [Next]_vars => Serving'
    <2> SUFFICES ASSUME TypeOK, Serving, [Next]_vars PROVE Serving'
      OBVIOUS
    <2>1. CASE UNCHANGED vars
      BY <2>1 DEF Serving, Replacing, NotLeftStopped
    <2> QED
      BY <2>1, ServingWeb, ServingRunner, ServingRest DEF Next, Rest
  <1> QED
    BY <1>1, <1>2, TypeCorrect, PTL DEF Spec

\* A runner that was not killed never leaves the service stopped: not when the
\* ports stay busy, not after a rollback, not after an exception.
THEOREM NeverLeftStopped == Spec => []NotLeftStopped
  <1>1. Serving => NotLeftStopped
    BY DEF Serving
  <1> QED
    BY <1>1, ServingInvariant, PTL

\* RunsInstalled: a service that answers works with what is installed, for every
\* set of entries and through every kill, power failure and rollback, unless its
\* last stop has failed.
THEOREM RunsInstalledCorrect == Spec => []RunsInstalled
  <1>1. Serving => RunsInstalled
    BY DEF Serving, RunsInstalled
  <1> QED
    BY <1>1, ServingInvariant, PTL

-----------------------------------------------------------------------------
(* The archive a rollback needs.                                           *)

\* The archive is complete before the service is stopped, and describes the
\* installation until the first file is replaced.
Archived ==
    /\ RollbackPossible
    /\ pc \in {"copyMain", "copyWal"} => hasTar
    /\ pc \in {"copyMain", "copyWal", "stop", "apply"} => tar = code

\* A new runner begins before the archive is needed.
LEMMA ArchivedWeb == Archived /\ Web => Archived'
  <1> SUFFICES ASSUME Archived, NEW h \in Handlers,
                         Check(h) \/ Launch(h) \/ SeedLook(h) \/ SeedWrite(h)
               PROVE Archived'
    BY DEF Web
  <1> USE DEF Handler
  <1> USE DEF Archived, RollbackPossible
  <1>1. CASE Check(h)
    BY <1>1 DEF Check
  <1>2. CASE Launch(h)
    BY <1>2 DEF Launch
  <1>3. CASE SeedLook(h)
    BY <1>3 DEF SeedLook
  <1>4. CASE SeedWrite(h)
    BY <1>4 DEF SeedWrite
  <1> QED
    BY <1>1, <1>2, <1>3, <1>4

\* The runner gives up when it cannot archive the old version.
LEMMA ArchivedRunner == Archived /\ Runner => Archived'
  <1> SUFFICES ASSUME Archived, Runner PROVE Archived'
    OBVIOUS
  <1> USE DEF Archived, RollbackPossible
  <1>a. UNCHANGED <<run, died>>
    BY DEF Runner
  <1>1. CASE Queued
    BY <1>a, <1>1 DEF Queued
  <1>2. CASE Fetch
    BY <1>a, <1>2 DEF Fetch
  <1>3. CASE Verify
    BY <1>a, <1>3 DEF Verify
  <1>4. CASE BackupTar
    BY <1>a, <1>4 DEF BackupTar
  <1>5. CASE CopyMain
    BY <1>a, <1>5 DEF CopyMain
  <1>6. CASE CopyWal
    BY <1>a, <1>6 DEF CopyWal
  <1>7. CASE Stop
    BY <1>a, <1>7 DEF Stop
  <1>8. CASE Abort
    BY <1>a, <1>8 DEF Abort
  <1>9. CASE GiveUp
    BY <1>a, <1>9 DEF GiveUp
  <1>10. CASE Restart
    BY <1>a, <1>10 DEF Restart
  <1>11. CASE Apply
    BY <1>a, <1>11 DEF Apply
  <1>12. CASE Copy
    BY <1>a, <1>12 DEF Copy
  <1>13. CASE Migrate
    BY <1>a, <1>13 DEF Migrate
  <1>14. CASE Deps
    BY <1>a, <1>14 DEF Deps
  <1>15. CASE Start
    BY <1>a, <1>15 DEF Start
  <1>16. CASE Health
    BY <1>a, <1>16 DEF Health
  <1>17. CASE Success
    BY <1>a, <1>17 DEF Success
  <1>18. CASE RollbackStop
    BY <1>a, <1>18 DEF RollbackStop
  <1>19. CASE RollbackTar
    BY <1>a, <1>19 DEF RollbackTar
  <1>20. CASE RollbackWal
    BY <1>a, <1>20 DEF RollbackWal
  <1>21. CASE RollbackMain
    BY <1>a, <1>21 DEF RollbackMain
  <1>22. CASE RollbackWal2
    BY <1>a, <1>22 DEF RollbackWal2
  <1>23. CASE RollbackDeps
    BY <1>a, <1>23 DEF RollbackDeps
  <1>24. CASE RollbackStart
    BY <1>a, <1>24 DEF RollbackStart
  <1>25. CASE RollbackHealth
    BY <1>a, <1>25 DEF RollbackHealth
  <1> QED
    BY <1>1, <1>2, <1>3, <1>4, <1>5, <1>6, <1>7, <1>8, <1>9, <1>10, <1>11,
        <1>12, <1>13, <1>14, <1>15, <1>16, <1>17, <1>18, <1>19, <1>20, <1>21,
        <1>22, <1>23, <1>24, <1>25 DEF Runner

\* Neither failures nor the server touch the archive.
LEMMA ArchivedRest == Archived /\ Rest => Archived'
  <1> SUFFICES ASSUME Archived, Rest PROVE Archived'
    OBVIOUS
  <1> USE DEF Archived, RollbackPossible
  <1>7. CASE Respawn
    BY <1>7 DEF Respawn
  <1>1. CASE SaveRecord
    BY <1>1 DEF SaveRecord
  <1>2. CASE CloseDb
    BY <1>2 DEF CloseDb
  <1>3. CASE RunnerKilled
    BY <1>3 DEF RunnerKilled
  <1>4. CASE PowerFails
    BY <1>4 DEF PowerFails
  <1>5. CASE PidTaken
    BY <1>5 DEF PidTaken
  <1>6. CASE SeedAges
    BY <1>6 DEF SeedAges
  <1> QED
    BY <1>1, <1>2, <1>3, <1>4, <1>5, <1>6, <1>7 DEF Rest

\* Whenever a file has been replaced, and until the upgrade is over, the old
\* version is there to be restored.
THEOREM RollbackAlwaysPossible == Spec => []RollbackPossible
  <1>1. Init => Archived
    BY DEF Init, Archived, RollbackPossible
  <1>2. Archived /\ [Next]_vars => Archived'
    <2> SUFFICES ASSUME Archived, [Next]_vars PROVE Archived'
      OBVIOUS
    <2>1. CASE UNCHANGED vars
      BY <2>1 DEF Archived, RollbackPossible
    <2> QED
      BY <2>1, ArchivedWeb, ArchivedRunner, ArchivedRest DEF Next, Rest
  <1>3. Archived => RollbackPossible
    BY DEF Archived
  <1> QED
    BY <1>1, <1>2, <1>3, PTL DEF Spec

-----------------------------------------------------------------------------
(* What a success means.                                                   *)

\* The entries that are no longer to be copied are of the new version; while
\* files change, the state on disk is not that of an earlier success.
Installed ==
    /\ SuccessIsNew
    /\ pc = "copy" => \A i \in Items \ todo : code[i] = {run}
    /\ pc \in {"migrate", "deps", "start", "health", "success"}
           => code = [i \in Items |-> {run}]
    /\ pc \in {"copy", "rbTar"} => file.stage # "success"

\* The web writes no success and changes no file.
LEMMA InstalledWeb == TypeOK /\ Installed /\ Web => Installed'
  <1> SUFFICES ASSUME TypeOK, Installed, NEW h \in Handlers,
                         Check(h) \/ Launch(h) \/ SeedLook(h) \/ SeedWrite(h)
               PROVE Installed'
    BY DEF Web
  <1> USE DEF Handler
  <1> USE DEF Installed, SuccessIsNew, TypeOK
  <1>1. CASE Check(h)
    BY <1>1 DEF Check
  <1>2. CASE Launch(h)
    BY <1>2 DEF Launch
  <1>3. CASE SeedLook(h)
    BY <1>3 DEF SeedLook
  <1>4. CASE SeedWrite(h)
    BY <1>4 DEF SeedWrite
  <1> QED
    BY <1>1, <1>2, <1>3, <1>4

\* The runner reports a success only when each entry has been copied.
LEMMA InstalledRunner == TypeOK /\ Installed /\ Runner => Installed'
  <1> SUFFICES ASSUME TypeOK, Installed, Runner PROVE Installed'
    OBVIOUS
  <1> USE DEF Installed, SuccessIsNew, TypeOK
  <1>a. UNCHANGED <<run, died>>
    BY DEF Runner
  <1>1. CASE Queued
    BY <1>a, <1>1 DEF Queued
  <1>2. CASE Fetch
    BY <1>a, <1>2 DEF Fetch
  <1>3. CASE Verify
    BY <1>a, <1>3 DEF Verify
  <1>4. CASE BackupTar
    BY <1>a, <1>4 DEF BackupTar
  <1>5. CASE CopyMain
    BY <1>a, <1>5 DEF CopyMain
  <1>6. CASE CopyWal
    BY <1>a, <1>6 DEF CopyWal
  <1>7. CASE Stop
    BY <1>a, <1>7 DEF Stop
  <1>8. CASE Abort
    BY <1>a, <1>8 DEF Abort
  <1>9. CASE GiveUp
    BY <1>a, <1>9 DEF GiveUp
  <1>10. CASE Restart
    BY <1>a, <1>10 DEF Restart
  <1>11. CASE Apply
    BY <1>a, <1>11 DEF Apply
  <1>12. CASE Copy
    <2>1. pc = "copy" /\ UNCHANGED <<file, run>> /\ file.stage # "success"
      BY <1>a, <1>12 DEF Copy
    <2>2. ASSUME NEW i \in todo, code' = [code EXCEPT ![i] = {run}], todo' = todo \ {i},
                 UNCHANGED pc
          PROVE Installed'
      <3>1. \A j \in Items \ todo' : code'[j] = {run}
        BY <2>1, <2>2
      <3> QED
        BY <2>1, <2>2, <3>1
    <2>3. ASSUME todo = {}, pc' = "migrate", UNCHANGED tree PROVE Installed'
      <3>1. code = [i \in Items |-> {run}]
        BY <2>1, <2>3
      <3> QED
        BY <2>1, <2>3, <3>1
    <2> QED
      BY <2>1, <2>2, <2>3, <1>12 DEF Copy
  <1>13. CASE Migrate
    BY <1>a, <1>13 DEF Migrate
  <1>14. CASE Deps
    BY <1>a, <1>14 DEF Deps
  <1>15. CASE Start
    BY <1>a, <1>15 DEF Start
  <1>16. CASE Health
    BY <1>a, <1>16 DEF Health
  <1>17. CASE Success
    BY <1>a, <1>17 DEF Success
  <1>18. CASE RollbackStop
    BY <1>a, <1>18 DEF RollbackStop
  <1>19. CASE RollbackTar
    BY <1>a, <1>19 DEF RollbackTar
  <1>20. CASE RollbackWal
    BY <1>a, <1>20 DEF RollbackWal
  <1>21. CASE RollbackMain
    BY <1>a, <1>21 DEF RollbackMain
  <1>22. CASE RollbackWal2
    BY <1>a, <1>22 DEF RollbackWal2
  <1>23. CASE RollbackDeps
    BY <1>a, <1>23 DEF RollbackDeps
  <1>24. CASE RollbackStart
    BY <1>a, <1>24 DEF RollbackStart
  <1>25. CASE RollbackHealth
    BY <1>a, <1>25 DEF RollbackHealth
  <1> QED
    BY <1>1, <1>2, <1>3, <1>4, <1>5, <1>6, <1>7, <1>8, <1>9, <1>10, <1>11,
        <1>12, <1>13, <1>14, <1>15, <1>16, <1>17, <1>18, <1>19, <1>20, <1>21,
        <1>22, <1>23, <1>24, <1>25 DEF Runner

\* Failures change neither the state on disk nor the installation.
LEMMA InstalledRest == TypeOK /\ Installed /\ Rest => Installed'
  <1> SUFFICES ASSUME TypeOK, Installed, Rest PROVE Installed'
    OBVIOUS
  <1> USE DEF Installed, SuccessIsNew, TypeOK
  <1>7. CASE Respawn
    BY <1>7 DEF Respawn
  <1>1. CASE SaveRecord
    BY <1>1 DEF SaveRecord
  <1>2. CASE CloseDb
    BY <1>2 DEF CloseDb
  <1>3. CASE RunnerKilled
    BY <1>3 DEF RunnerKilled
  <1>4. CASE PowerFails
    BY <1>4 DEF PowerFails
  <1>5. CASE PidTaken
    BY <1>5 DEF PidTaken
  <1>6. CASE SeedAges
    BY <1>6 DEF SeedAges
  <1> QED
    BY <1>1, <1>2, <1>3, <1>4, <1>5, <1>6, <1>7 DEF Rest

\* A success that is on disk names the run whose version every entry has:
\* through every kill, power failure and racing seed.
THEOREM SuccessIsComplete == Spec => []SuccessIsNew
  <1>1. Init => Installed
    BY DEF Init, Installed, SuccessIsNew
  <1>2. TypeOK /\ Installed /\ [Next]_vars => Installed'
    <2> SUFFICES ASSUME TypeOK, Installed, [Next]_vars PROVE Installed'
      OBVIOUS
    <2>1. CASE UNCHANGED vars
      BY <2>1 DEF Installed, SuccessIsNew
    <2> QED
      BY <2>1, InstalledWeb, InstalledRunner, InstalledRest DEF Next, Rest
  <1>3. Installed => SuccessIsNew
    BY DEF Installed
  <1> QED
    BY <1>1, <1>2, <1>3, TypeCorrect, PTL DEF Spec

-----------------------------------------------------------------------------
(* The records.                                                            *)

\* The steps that put the copy of the database back.
PutsBack == RollbackWal \/ RollbackMain \/ RollbackWal2

\* No other step of the runner touches the database, except that the service it
\* starts, or stops, may move the log's records into it.
LEMMA RunnerKeepsRecords ==
    Runner /\ ~PutsBack => main \cup wal \subseteq main' \cup wal'
  BY DEF Runner, PutsBack, Queued, Fetch, Verify, BackupTar, CopyMain, CopyWal, Stop, Abort, GiveUp,
         Restart, Apply, Copy, Migrate, Deps, Start, Health, Success, RollbackStop, RollbackTar,
         RollbackDeps, RollbackStart, RollbackHealth

\* RecordsKept: records of calibrations get lost nowhere but where a rollback puts
\* the copy of the database back, for every number of records, copies and kills.
THEOREM RecordsKeptElsewhere == Spec => RecordsKept
  <1>1. [Next]_vars => [pc \notin {"rbWal", "rbMain", "rbWal2"} => main \cup wal \subseteq main' \cup wal']_vars
    <2> SUFFICES ASSUME Next, pc \notin {"rbWal", "rbMain", "rbWal2"}
                 PROVE  main \cup wal \subseteq main' \cup wal'
      OBVIOUS
    <2>1. ~PutsBack
      BY DEF PutsBack, RollbackWal, RollbackMain, RollbackWal2
    <2>2. CASE Web
      BY <2>2 DEF Web, Check, Launch, SeedLook, SeedWrite, db
    <2>3. CASE SaveRecord
      BY <2>3 DEF SaveRecord
    <2>4. CASE CloseDb
      BY <2>4 DEF CloseDb
    <2>5. CASE Respawn \/ RunnerKilled \/ PowerFails \/ PidTaken \/ SeedAges
      BY <2>5 DEF Respawn, RunnerKilled, PowerFails, PidTaken, SeedAges, db
    <2> QED
      BY <2>1, <2>2, <2>3, <2>4, <2>5, RunnerKeepsRecords DEF Next
  <1> QED
    BY <1>1, PTL DEF Spec, RecordsKept

=============================================================================
