----------------------- MODULE SerialHandover_proofs -----------------------
(***************************************************************************)
(* Proofs about SerialHandover, for every set of source threads, every     *)
(* number of probes and every number of calibration tasks.                 *)
(***************************************************************************)
EXTENDS SerialHandover, TLAPS

USE DEF MainGoes, CalGoes, signals, round, calVars, envVars, vars

-----------------------------------------------------------------------------
(* Type correctness.                                                       *)

\* The initial state of the shared events and threads is well typed.
LEMMA TypeInit == Init => TypeOK
  <1> SUFFICES ASSUME Init PROVE TypeOK
    OBVIOUS
  <1>1. /\ exitEv \in BOOLEAN /\ restart \in BOOLEAN /\ shutdown \in BOOLEAN /\ hold \in BOOLEAN
        /\ outlets \in BOOLEAN /\ ser \in BOOLEAN /\ calFd \in BOOLEAN /\ held \in BOOLEAN /\ saved \in BOOLEAN
    BY Zenon DEF Init
  <1> QED
    BY <1>1, BoundsAssumption DEF Init, TypeOK, Modes, MainPcs, CalPcs, SrcStates

\* No step of the main loop leaves the types; only a probe lowers the count.
LEMMA TypeMain == TypeOK /\ Main => TypeOK'
  <1> SUFFICES ASSUME TypeOK, Main PROVE TypeOK'
    OBVIOUS
  <1> USE BoundsAssumption DEF TypeOK, Modes, MainPcs, CalPcs, SrcStates
  <1>a. UNCHANGED <<envVars, calVars>>
    BY DEF Main
  <1>1. CASE MainTop
    BY <1>a, <1>1 DEF MainTop
  <1>2. CASE GateLook
    BY <1>a, <1>2 DEF GateLook, GateBlocks
  <1>3. CASE GateEat
    <2>1. restart' \in BOOLEAN
      BY <1>3, Zenon DEF GateEat
    <2> QED
      BY <1>a, <1>3, <2>1 DEF GateEat
  <1>4. CASE GateBeat
    BY <1>a, <1>4 DEF GateBeat
  <1>5. CASE GateSleep
    BY <1>a, <1>5 DEF GateSleep
  <1>6. CASE EvictHold
    <2>1. hold' \in BOOLEAN
      BY <1>6, Zenon DEF EvictHold
    <2> QED
      BY <1>a, <1>6, <2>1 DEF EvictHold
  <1>7. CASE EvictBeat
    BY <1>a, <1>7 DEF EvictBeat
  <1>8. CASE EvictRestart
    <2>1. restart' \in BOOLEAN
      BY <1>8, Zenon DEF EvictRestart
    <2> QED
      BY <1>a, <1>8, <2>1 DEF EvictRestart
  <1>9. CASE LoadConfig
    BY <1>a, <1>9 DEF LoadConfig
  <1>10. CASE After
    <2>1. restart' \in BOOLEAN
      BY <1>10, Zenon DEF After
    <2> QED
      BY <1>a, <1>10, <2>1 DEF After
  <1>11. CASE Guard
    BY <1>a, <1>11 DEF Guard, RoundForbidden, Alive
  <1>12. CASE ReadConfig
    BY <1>a, <1>12 DEF ReadConfig
  <1>13. CASE StartOutlets
    BY <1>a, <1>13 DEF StartOutlets
  <1>14. CASE Probe
    BY <1>a, <1>14 DEF Probe, ScanGoesOn, ProbesLeft
  <1>15. CASE ProbeEnd
    BY <1>a, <1>15 DEF ProbeEnd
  <1>16. CASE NotDetected
    BY <1>a, <1>16 DEF NotDetected, ScanGoesOn, ProbesLeft
  <1>17. CASE OpenSerial
    <2>1. ser' \in BOOLEAN
      BY <1>17, Zenon DEF OpenSerial
    <2> QED
      BY <1>a, <1>17, <2>1 DEF OpenSerial
  <1>18. CASE OpenRelay
    BY <1>a, <1>18 DEF OpenRelay
  <1>19. CASE Spawn
    BY <1>a, <1>19 DEF Spawn
  <1>20. CASE Register
    BY <1>a, <1>20 DEF Register
  <1>21. CASE WaitEnds
    BY <1>a, <1>21 DEF WaitEnds
  <1>22. CASE StopSource
    BY <1>a, <1>22 DEF StopSource
  <1>23. CASE JoinSource
    BY <1>a, <1>23 DEF JoinSource, JoinForgets, Alive
  <1>24. CASE CloseOutlets
    <2>1. outlets' \in BOOLEAN
      BY <1>24, Zenon DEF CloseOutlets
    <2> QED
      BY <1>a, <1>24, <2>1 DEF CloseOutlets
  <1>25. CASE CloseSer
    <2>1. ser' \in BOOLEAN
      BY <1>25, Zenon DEF CloseSer
    <2> QED
      BY <1>a, <1>25, <2>1 DEF CloseSer
  <1>26. CASE RoundEnds
    <2>1. restart' \in BOOLEAN
      BY <1>26, Zenon DEF RoundEnds
    <2> QED
      BY <1>a, <1>26, <2>1 DEF RoundEnds
  <1> QED
    BY <1>1, <1>2, <1>3, <1>4, <1>5, <1>6, <1>7, <1>8, <1>9, <1>10, <1>11,
        <1>12, <1>13, <1>14, <1>15, <1>16, <1>17, <1>18, <1>19, <1>20, <1>21,
        <1>22, <1>23, <1>24, <1>25, <1>26 DEF Main

\* No step of a source thread leaves the types.
LEMMA TypeSource == TypeOK /\ (\E t \in Threads : Source(t)) => TypeOK'
  <1> SUFFICES ASSUME TypeOK, NEW t \in Threads, Source(t) PROVE TypeOK'
    OBVIOUS
  <1> USE BoundsAssumption DEF TypeOK, Modes, MainPcs, CalPcs, SrcStates
  <1>a. UNCHANGED notSource
    BY DEF Source
  <1>1. CASE SrcError(t)
    <2>1. ser' \in BOOLEAN
      BY <1>1, Zenon DEF notSource, SrcError
    <2> QED
      BY <1>a, <1>1, <2>1 DEF notSource, SrcError
  <1>2. CASE SrcProbe(t)
    BY <1>a, <1>2 DEF notSource, SrcProbe
  <1>3. CASE SrcProbeEnd(t)
    BY <1>a, <1>3 DEF notSource, SrcProbeEnd
  <1>4. CASE SrcExit(t)
    <2>1. ser' \in BOOLEAN
      BY <1>4, Zenon DEF notSource, SrcExit
    <2> QED
      BY <1>a, <1>4, <2>1 DEF notSource, SrcExit
  <1> QED
    BY <1>1, <1>2, <1>3, <1>4 DEF Source

\* No step of the calibration worker leaves the types.
LEMMA TypeCal == TypeOK /\ Cal => TypeOK'
  <1> SUFFICES ASSUME TypeOK, Cal PROVE TypeOK'
    OBVIOUS
  <1> USE BoundsAssumption DEF TypeOK, Modes, MainPcs, CalPcs, SrcStates
  <1>a. UNCHANGED <<envVars, mpc, round>>
    BY DEF Cal
  <1>1. CASE CalStart
    BY <1>a, <1>1 DEF CalStart
  <1>2. CASE CalCheckpoint
    BY <1>a, <1>2 DEF CalCheckpoint, Evicted
  <1>3. CASE CalEnd
    BY <1>a, <1>3 DEF CalEnd
  <1>4. CASE CalHang
    BY <1>a, <1>4 DEF CalHang
  <1>5. CASE CalPrepare
    BY <1>a, <1>5 DEF CalPrepare
  <1>6. CASE CalPrecheck
    BY <1>a, <1>6 DEF CalPrecheck
  <1>7. CASE CalSetBeat
    BY <1>a, <1>7 DEF CalSetBeat
  <1>8. CASE CalSetHold
    BY <1>a, <1>8 DEF CalSetHold
  <1>9. CASE CalSetRestart
    BY <1>a, <1>9 DEF CalSetRestart
  <1>10. CASE CalYield
    BY <1>a, <1>10 DEF CalYield, Yielded, Alive
  <1>11. CASE DropHold
    <2>1. hold' \in BOOLEAN
      BY <1>11, Zenon DEF DropHold
    <2> QED
      BY <1>a, <1>11, <2>1 DEF DropHold
  <1>12. CASE DropBeat
    BY <1>a, <1>12 DEF DropBeat
  <1>13. CASE DropRestart
    BY <1>a, <1>13 DEF DropRestart
  <1>14. CASE CalAcquired
    BY <1>a, <1>14 DEF CalAcquired
  <1>15. CASE CalOpen
    <2>1. calFd' \in BOOLEAN
      BY <1>15, Zenon DEF CalOpen
    <2> QED
      BY <1>a, <1>15, <2>1 DEF CalOpen
  <1>16. CASE CalHeld
    BY <1>a, <1>16 DEF CalHeld
  <1>17. CASE RelClose
    <2>1. calFd' \in BOOLEAN /\ held' \in BOOLEAN
      BY <1>17, Zenon DEF RelClose
    <2> QED
      BY <1>a, <1>17, <2>1 DEF RelClose
  <1>18. CASE RelHold
    <2>1. hold' \in BOOLEAN
      BY <1>18, Zenon DEF RelHold
    <2> QED
      BY <1>a, <1>18, <2>1 DEF RelHold
  <1>19. CASE RelBeat
    BY <1>a, <1>19 DEF RelBeat
  <1>20. CASE RelRestart
    BY <1>a, <1>20 DEF RelRestart
  <1> QED
    BY <1>1, <1>2, <1>3, <1>4, <1>5, <1>6, <1>7, <1>8, <1>9, <1>10, <1>11,
        <1>12, <1>13, <1>14, <1>15, <1>16, <1>17, <1>18, <1>19, <1>20 DEF Cal,
        CalHandover

\* No web request, signal or passing of time leaves the types.
LEMMA TypeEnv == TypeOK /\ Env => TypeOK'
  <1> SUFFICES ASSUME TypeOK, Env PROVE TypeOK'
    OBVIOUS
  <1> USE BoundsAssumption DEF TypeOK, Modes, MainPcs, CalPcs, SrcStates
  <1>1. CASE WebSave
    BY <1>1 DEF WebSave
  <1>2. CASE WebRestart
    <2>1. saved' \in BOOLEAN
      BY <1>2, Zenon DEF WebRestart
    <2> QED
      BY <1>2, <2>1 DEF WebRestart
  <1>3. CASE Sigterm
    BY <1>3 DEF Sigterm
  <1>4. CASE BeatAges
    BY <1>4 DEF BeatAges
  <1> QED
    BY <1>1, <1>2, <1>3, <1>4 DEF Env

\* Types, and a scan that never makes more probes than it was given.
THEOREM TypeCorrect == Spec => []TypeOK
  <1>1. TypeOK /\ [Next]_vars => TypeOK'
    <2> SUFFICES ASSUME TypeOK, [Next]_vars PROVE TypeOK'
      OBVIOUS
    <2>1. CASE Exited \/ UNCHANGED vars
      BY <2>1 DEF Exited, TypeOK
    <2> QED
      BY <2>1, TypeMain, TypeSource, TypeCal, TypeEnv DEF Next
  <1> QED
    BY <1>1, TypeInit, PTL DEF Spec

-----------------------------------------------------------------------------
(* The rounds of the main loop: which threads may live, which handles may  *)
(* be open and which signals must be set at each point of the loop.        *)

\* Points of run_once before it has started a source thread.
Opening == {"read", "outlets", "detect", "probing", "openSerial", "openRelay", "spawn"}

\* Points of run_once at which its own source thread may run.
Sourcing == {"register", "wait", "stop", "join"}

\* Points of run_once after the join: worker_thread knows what still runs.
Closing == {"closeOutlets", "closeSer", "clear"}

ThreadInv ==
    /\ mpc \in Opening => Live = {}
    /\ mpc \in Sourcing => Live \subseteq {cur}
    /\ mpc \in {"wait", "stop", "join"} => Live = {} \/ worker = cur
    /\ mpc \notin Opening \cup Sourcing => Live \subseteq {worker}

HandleInv == ser => mpc \in {"spawn"} \cup Sourcing \cup {"closeOutlets", "closeSer"}

OutletInv ==
    /\ mpc \in (Opening \ {"read", "outlets"}) \cup {"register", "wait"} => outlets
    /\ Live # {} => exitEv \/ (mpc \in {"register", "wait", "stop"} /\ outlets)
    /\ mpc \in Opening \cup {"register", "wait"} => ~exitEv

RoundInv == ThreadInv /\ HandleInv /\ OutletInv

\* The program starts before its first round, with no thread and no handle.
LEMMA RoundInit == Init => RoundInv
  BY DEF Init, RoundInv, ThreadInv, HandleInv, OutletInv, Live, Opening, Sourcing, Closing

\* Threads come to life in Spawn only.
LEMMA MainKeepsLive == Main => Spawn \/ Live' = Live
  <1> SUFFICES ASSUME Main, ~Spawn PROVE UNCHANGED src
    BY DEF Live
  <1> QED
    BY DEF Main,
    MainTop, GateLook, GateEat, GateBeat, GateSleep, EvictHold, EvictBeat,
        EvictRestart, LoadConfig, After, Guard, ReadConfig, StartOutlets,
        Probe, ProbeEnd, NotDetected, OpenSerial, OpenRelay, Register,
        WaitEnds, StopSource, JoinSource, CloseOutlets, CloseSer, RoundEnds

\* Starting the source thread adds that one thread, or fails and adds none.
LEMMA SpawnAddsOne ==
  ASSUME TypeOK, Spawn, Live = {}
  PROVE  \/ mpc' = "register" /\ Live' \subseteq {cur'}
         \/ mpc' = "stop" /\ Live' = {}
  <1>1. CASE mpc' = "stop" /\ UNCHANGED <<src, cur>>
    BY <1>1 DEF Live
  <1>2. ASSUME NEW t \in Threads \ Live, mpc' = "register", cur' = t,
               src' = [src EXCEPT ![t] = IF runCfg = "serial" THEN "shared" ELSE "relay"]
        PROVE  mpc' = "register" /\ Live' \subseteq {cur'}
    <2>1. \A u \in Threads : u # t => src'[u] = "off"
      BY <1>2 DEF Live, TypeOK
    <2> QED
      BY <1>2, <2>1 DEF Live
  <1>3. CASE mpc' = "register"
    BY <1>2, <1>3 DEF Spawn
  <1>4. CASE mpc' = "stop"
    BY <1>1, <1>4 DEF Spawn
  <1> QED
    BY <1>3, <1>4 DEF Spawn

\* The worker and the environment touch nothing the round depends on.
LEMMA OthersKeepRound == Cal \/ Env => UNCHANGED <<exitEv, mpc, round>>
  <1>1. ASSUME Cal PROVE UNCHANGED <<exitEv, mpc, round>>
    BY <1>1 DEF Cal, CalStart, CalCheckpoint, CalEnd, CalHang, CalHandover,
    CalPrepare, CalPrecheck, CalSetBeat, CalSetHold, CalSetRestart, CalYield,
        DropHold, DropBeat, DropRestart, CalAcquired, CalOpen, CalHeld,
        RelClose, RelHold, RelBeat, RelRestart
  <1>2. ASSUME Env PROVE UNCHANGED <<exitEv, mpc, round>>
    BY <1>2 DEF Env, WebSave, WebRestart, Sigterm, BeatAges
  <1> QED
    BY <1>1, <1>2

\* Every step of the main loop keeps the facts about a round's threads,
\* handles and outlets.
LEMMA RoundMain == TypeOK /\ RoundInv /\ Main => RoundInv'
  <1> SUFFICES ASSUME TypeOK, RoundInv, Main PROVE RoundInv'
    OBVIOUS
  <1> USE DEF RoundInv, ThreadInv, HandleInv, OutletInv, Opening, Sourcing, Closing
  <1>1. CASE Spawn
    BY <1>1, SpawnAddsOne DEF Spawn
  <1>2. CASE ~Spawn
    <2>a. Live' = Live
      BY <1>2, MainKeepsLive
    <2>1. CASE MainTop
      BY <2>a, <2>1 DEF MainTop, Alive
    <2>2. CASE GateLook
      BY <2>a, <2>2 DEF GateLook, GateBlocks, Alive
    <2>3. CASE GateEat
      BY <2>a, <2>3 DEF GateEat, Alive
    <2>4. CASE GateBeat
      BY <2>a, <2>4 DEF GateBeat, Alive
    <2>5. CASE GateSleep
      BY <2>a, <2>5 DEF GateSleep, Alive
    <2>6. CASE EvictHold
      BY <2>a, <2>6 DEF EvictHold, Alive
    <2>7. CASE EvictBeat
      BY <2>a, <2>7 DEF EvictBeat, Alive
    <2>8. CASE EvictRestart
      BY <2>a, <2>8 DEF EvictRestart, Alive
    <2>9. CASE LoadConfig
      BY <2>a, <2>9 DEF LoadConfig, Alive
    <2>10. CASE After
      BY <2>a, <2>10 DEF After, Alive
    <2>11. CASE Guard
      BY <2>a, <2>11 DEF Guard, RoundForbidden, Alive
    <2>12. CASE ReadConfig
      BY <2>a, <2>12 DEF ReadConfig, Alive
    <2>13. CASE StartOutlets
      BY <2>a, <2>13 DEF StartOutlets, Alive
    <2>14. CASE Probe
      BY <2>a, <2>14 DEF Probe, ScanGoesOn, ProbesLeft, Alive
    <2>15. CASE ProbeEnd
      BY <2>a, <2>15 DEF ProbeEnd, Alive
    <2>16. CASE NotDetected
      BY <2>a, <2>16 DEF NotDetected, ScanGoesOn, ProbesLeft, Alive
    <2>17. CASE OpenSerial
      BY <2>a, <2>17 DEF OpenSerial, Alive
    <2>18. CASE OpenRelay
      BY <2>a, <2>18 DEF OpenRelay, Alive
    <2>19. CASE Register
      BY <2>a, <2>19 DEF Register, Alive
    <2>20. CASE WaitEnds
      BY <2>a, <2>20 DEF WaitEnds, Alive
    <2>21. CASE StopSource
      BY <2>a, <2>21 DEF StopSource, Alive
    <2>22. CASE JoinSource
      BY <2>a, <2>22 DEF JoinSource, JoinForgets, Alive
    <2>23. CASE CloseOutlets
      BY <2>a, <2>23 DEF CloseOutlets, Alive
    <2>24. CASE CloseSer
      BY <2>a, <2>24 DEF CloseSer, Alive
    <2>25. CASE RoundEnds
      BY <2>a, <2>25 DEF RoundEnds, Alive
    <2> QED
      BY <1>2, <2>1, <2>2, <2>3, <2>4, <2>5, <2>6, <2>7, <2>8, <2>9, <2>10,
        <2>11, <2>12, <2>13, <2>14, <2>15, <2>16, <2>17, <2>18, <2>19, <2>20,
        <2>21, <2>22, <2>23, <2>24, <2>25 DEF Main
  <1> QED
    BY <1>1, <1>2

\* A source thread can end but starts no other, and opens no handle of run_once.
LEMMA SourceShrinksLive ==
  ASSUME TypeOK, NEW t \in Threads, Source(t)
  PROVE  Live' \subseteq Live /\ (ser' => ser)
  BY DEF Source, SrcError, SrcProbe, SrcProbeEnd, SrcExit, Live, TypeOK

\* Every step of a source thread keeps the facts about the round.
LEMMA RoundSource == TypeOK /\ RoundInv /\ (\E t \in Threads : Source(t)) => RoundInv'
  <1> SUFFICES ASSUME TypeOK, RoundInv, NEW t \in Threads, Source(t) PROVE RoundInv'
    OBVIOUS
  <1>1. Live' \subseteq Live /\ (ser' => ser) /\ UNCHANGED notSource
    BY SourceShrinksLive DEF Source
  <1> QED
    BY <1>1 DEF RoundInv, ThreadInv, HandleInv, OutletInv, notSource, Opening, Sourcing, Closing

\* Every step of the program keeps the facts about the round.
LEMMA RoundStep == TypeOK /\ RoundInv /\ [Next]_vars => RoundInv'
  <1> SUFFICES ASSUME TypeOK, RoundInv, [Next]_vars PROVE RoundInv'
    OBVIOUS
  <1>1. CASE UNCHANGED <<exitEv, mpc, round>>
    BY <1>1 DEF RoundInv, ThreadInv, HandleInv, OutletInv, Live, Opening, Sourcing, Closing
  <1>2. CASE Exited \/ UNCHANGED vars
    BY <1>1, <1>2 DEF Exited
  <1> QED
    BY <1>1, <1>2, RoundMain, RoundSource, OthersKeepRound DEF Next

\* The facts about the round hold in every reachable state.
LEMMA RoundAlways == Spec => [](TypeOK /\ RoundInv)
  BY TypeCorrect, RoundInit, RoundStep, PTL DEF Spec

\* At most one source thread runs, whatever joins time out.
THEOREM OneSourceAlways == Spec => []OneSource
  <1>1. RoundInv => OneSource
    BY DEF RoundInv, ThreadInv, OneSource
  <1> QED
    BY <1>1, RoundAlways, PTL

\* A round that has ended leaves no handle on the port.
THEOREM ParkedQuietAlways == Spec => []ParkedQuiet
  <1>1. RoundInv => ParkedQuiet
    BY DEF RoundInv, ThreadInv, HandleInv, ParkedQuiet, AtGate, Alive, DataPlaneOnPort,
           Live, Opening, Sourcing
  <1> QED
    BY <1>1, RoundAlways, PTL

\* A source that was not told to exit has its outlets.
THEOREM SourceHasOutletsAlways == Spec => []SourceHasOutlets
  <1>1. RoundInv => SourceHasOutlets
    BY DEF RoundInv, OutletInv, SourceHasOutlets
  <1> QED
    BY <1>1, RoundAlways, PTL

\* The exit signal is never taken back from a live source thread: only a new
\* round clears it, and a live thread forbids the round.
THEOREM NoRevivalAlways == Spec => NoRevival
  <1>1. TypeOK /\ RoundInv /\ [Next]_vars => [exitEv /\ ~exitEv' => Live = {}]_vars
    <2> SUFFICES ASSUME RoundInv, Next, exitEv, ~exitEv' PROVE Live = {}
      BY DEF vars
    <2>1. CASE Main
      <3>1. CASE Guard
        BY <3>1 DEF Guard, RoundForbidden, Alive, RoundInv, ThreadInv, Opening, Sourcing
      <3>2. CASE StopSource
        BY <3>2 DEF StopSource
      <3>3. CASE ~Guard /\ ~StopSource
        BY <2>1, <3>3 DEF Main, MainTop, GateLook, GateEat, GateBeat, GateSleep, EvictHold, EvictBeat, EvictRestart, LoadConfig, After, ReadConfig, StartOutlets, Probe, ProbeEnd, NotDetected, OpenSerial, OpenRelay, Spawn, Register, WaitEnds, JoinSource, CloseOutlets, CloseSer, RoundEnds
      <3> QED
        BY <3>1, <3>2, <3>3
    <2>2. ASSUME NEW t \in Threads, Source(t) PROVE FALSE
      BY <2>2 DEF Source, notSource
    <2>3. CASE Cal \/ Env
      BY <2>3, OthersKeepRound
    <2> QED
      BY <2>1, <2>2, <2>3 DEF Next, Exited
  <1> QED
    BY <1>1, RoundAlways, PTL DEF Spec, NoRevival

-----------------------------------------------------------------------------
(* The implementation of the abstract life cycle.                          *)

\* A step that changes neither the live threads nor the two shared facts of
\* the mapping is a stutter of the life cycle.
LEMMA LifecycleStutter ==
  ASSUME Live' = Live, exitEv' = exitEv, outlets' = outlets
  PROVE  UNCHANGED Lifecycle!vars
  BY DEF Lifecycle!vars, SourcePhase

\* Every step of the main loop is a step of the life cycle or a stutter.
LEMMA LifecycleMain ==
  ASSUME TypeOK, RoundInv, Main
  PROVE  [Lifecycle!Next]_(Lifecycle!vars)
  <1> USE DEF Lifecycle!vars, Lifecycle!Next, Lifecycle!OpenOutlets, Lifecycle!Start,
              Lifecycle!Stop, Lifecycle!End, Lifecycle!CloseOutlets, SourcePhase,
              RoundInv, ThreadInv, OutletInv, Opening, Sourcing, Closing
  <1>1. CASE Spawn
    BY <1>1, SpawnAddsOne DEF Spawn
  <1>2. CASE ~Spawn
    <2>a. Live' = Live
      BY <1>2, MainKeepsLive
    <2>1. CASE Guard
      BY <2>a, <2>1 DEF Guard, RoundForbidden, Alive
    <2>2. CASE StartOutlets
      BY <2>a, <2>2 DEF StartOutlets
    <2>3. CASE StopSource
      BY <2>a, <2>3 DEF StopSource
    <2>4. CASE CloseOutlets
      BY <2>a, <2>4 DEF CloseOutlets
    <2>5. CASE ~Guard /\ ~StartOutlets /\ ~StopSource /\ ~CloseOutlets
      <3>1. UNCHANGED <<exitEv, outlets>>
        BY <1>2, <2>5 DEF Main, MainTop, GateLook, GateEat, GateBeat, GateSleep,
           EvictHold, EvictBeat, EvictRestart, LoadConfig, After, ReadConfig, Probe,
           ProbeEnd, NotDetected, OpenSerial, OpenRelay, Register, WaitEnds,
           JoinSource, CloseSer, RoundEnds
      <3> QED
        BY <2>a, <3>1, LifecycleStutter
    <2> QED
      BY <2>1, <2>2, <2>3, <2>4, <2>5
  <1> QED
    BY <1>1, <1>2

\* A source thread ends, which the life cycle allows once it was told to.
LEMMA LifecycleSource ==
  ASSUME TypeOK, RoundInv, NEW t \in Threads, Source(t)
  PROVE  [Lifecycle!Next]_(Lifecycle!vars)
  <1>1. Live' \subseteq Live /\ UNCHANGED <<exitEv, outlets>>
    BY SourceShrinksLive DEF Source, notSource
  <1>2. CASE exitEv
    <2>1. CASE Live' = {} /\ Live # {}
      BY <1>1, <1>2, <2>1 DEF Lifecycle!vars, Lifecycle!Next, Lifecycle!End, SourcePhase
    <2>2. CASE Live' # {} \/ Live = {}
      BY <1>1, <1>2, <2>2 DEF Lifecycle!vars, SourcePhase
    <2> QED
      BY <2>1, <2>2
  <1>3. CASE ~exitEv
    <2>1. Live' = Live
      BY <1>3 DEF Source, SrcError, SrcProbe, SrcProbeEnd, SrcExit, Live, TypeOK
    <2> QED
      BY <1>1, <2>1, LifecycleStutter
  <1> QED
    BY <1>2, <1>3

\* The rounds of the main loop implement the source's life cycle.
THEOREM ImplementsLifecycle == Spec => KeepsLifecycle
  <1>1. Init => Lifecycle!Init
    BY DEF Init, Lifecycle!Init, SourcePhase, Live
  <1>2. TypeOK /\ RoundInv /\ [Next]_vars => [Lifecycle!Next]_(Lifecycle!vars)
    <2> SUFFICES ASSUME TypeOK, RoundInv, [Next]_vars
                 PROVE  [Lifecycle!Next]_(Lifecycle!vars)
      OBVIOUS
    <2>1. CASE UNCHANGED <<exitEv, mpc, round>>
      BY <2>1, LifecycleStutter DEF Live
    <2>2. CASE Exited \/ UNCHANGED vars
      BY <2>1, <2>2 DEF Exited
    <2> QED
      BY <2>1, <2>2, LifecycleMain, LifecycleSource, OthersKeepRound DEF Next
  <1> QED
    BY <1>1, <1>2, RoundAlways, PTL DEF Spec, KeepsLifecycle, Lifecycle!Spec

-----------------------------------------------------------------------------
(* The gate.                                                               *)

\* No step of any thread leaves the gate closed without a task that has still
\* to open it: only CalSetHold closes it, and a task leaves the stages that
\* own it only through DropHold or RelHold.
THEOREM NoOrphanGateAlways == Spec => []NoOrphanGate
  <1>1. Init => NoOrphanGate
    BY DEF Init, NoOrphanGate
  <1>2. NoOrphanGate /\ [Next]_vars => NoOrphanGate'
    <2> SUFFICES ASSUME NoOrphanGate, [Next]_vars PROVE NoOrphanGate'
      OBVIOUS
    <2> USE DEF NoOrphanGate, GateOwners
    <2>1. CASE Cal
      <3>1. CASE CalHandover
        BY <3>1 DEF CalHandover, CalPrepare, CalPrecheck, CalSetBeat, CalSetHold,
           CalSetRestart, CalYield, DropHold, DropBeat, DropRestart, CalAcquired,
           CalOpen, CalHeld, RelClose, RelHold, RelBeat, RelRestart
      <3>2. CASE CalStart \/ CalCheckpoint \/ CalEnd \/ CalHang
        BY <3>2 DEF CalStart, CalCheckpoint, CalEnd, CalHang
      <3> QED
        BY <2>1, <3>1, <3>2 DEF Cal
    <2>2. CASE UNCHANGED cpc /\ (hold' => hold)
      BY <2>2
    <2>3. Main => UNCHANGED cpc /\ (hold' => hold)
      BY DEF Main, MainTop, GateLook, GateEat, GateBeat, GateSleep, EvictHold,
         EvictBeat, EvictRestart, LoadConfig, After, Guard, ReadConfig,
         StartOutlets, Probe, ProbeEnd, NotDetected, OpenSerial, OpenRelay,
         Spawn, Register, WaitEnds, StopSource, JoinSource, CloseOutlets,
         CloseSer, RoundEnds
    <2>4. (\E t \in Threads : Source(t)) => UNCHANGED cpc /\ (hold' => hold)
      BY DEF Source, notSource
    <2>5. Env \/ Exited \/ UNCHANGED vars => UNCHANGED cpc /\ (hold' => hold)
      BY DEF Env, WebSave, WebRestart, Sigterm, BeatAges, Exited
    <2> QED
      BY <2>1, <2>2, <2>3, <2>4, <2>5 DEF Next
  <1> QED
    BY <1>1, <1>2, PTL DEF Spec

\* While the gate stays closed, a main loop that has reached it starts no round.
THEOREM ParkedStaysAlways == Spec => ParkedStays
  <1>1. [Next]_vars =>
          [AtGate /\ hold /\ hold' => mpc' \in {"top", "gate", "gateBeat", "gateSleep",
                                                "evictHold", "exited"}]_vars
    <2> SUFFICES ASSUME Next, AtGate, hold
                 PROVE  mpc' \in {"top", "gate", "gateBeat", "gateSleep",
                                  "evictHold", "exited"}
      OBVIOUS
    <2>1. CASE Main
      BY <2>1 DEF AtGate, GateBlocks, Main, MainTop, GateLook, GateEat, GateBeat,
         GateSleep, EvictHold, EvictBeat, EvictRestart, LoadConfig, After, Guard,
         ReadConfig, StartOutlets, Probe, ProbeEnd, NotDetected, OpenSerial,
         OpenRelay, Spawn, Register, WaitEnds, StopSource, JoinSource,
         CloseOutlets, CloseSer, RoundEnds
    <2>2. (\E t \in Threads : Source(t)) => UNCHANGED mpc
      BY DEF Source, notSource
    <2> QED
      BY <2>1, <2>2, OthersKeepRound DEF Next, Exited, AtGate
  <1> QED
    BY <1>1, PTL DEF Spec, ParkedStays

=============================================================================
