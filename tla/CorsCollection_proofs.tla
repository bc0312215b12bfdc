------------------------ MODULE CorsCollection_proofs ------------------------
(***************************************************************************)
(* Proofs about CorsCollection, for all durations, pauses and limits.      *)
(***************************************************************************)
EXTENDS CorsCollection, TLAPS

\* The durations are numbers, and every attempt has a pause.
LEMMA Times ==
    /\ Horizon \in Nat /\ 1 <= Horizon /\ SlowConnect \in Nat /\ ConvergeHold \in Nat
    /\ FixHold \in Nat /\ FloatHold \in Nat /\ WaitTimeout \in Nat /\ Jitter \in Nat
    /\ Len(Backoff) \in Nat /\ 1 <= Len(Backoff)
    /\ \A i \in 1..Len(Backoff) : Backoff[i] \in Nat
  <1>1. Backoff \in Seq(Nat) /\ Backoff # <<>>
    BY TimesAssumption
  <1>2. /\ Len(Backoff) \in Nat /\ 1 <= Len(Backoff)
        /\ \A i \in 1..Len(Backoff) : Backoff[i] \in Nat
    BY <1>1
  <1>3. /\ Horizon \in Nat /\ SlowConnect \in Nat /\ ConvergeHold \in Nat
        /\ FixHold \in Nat /\ FloatHold \in Nat /\ WaitTimeout \in Nat /\ Jitter \in Nat
    BY TimesAssumption
  <1>4. FixHold < Horizon
    BY TimesAssumption
  <1> QED
    BY <1>2, <1>3, <1>4

-----------------------------------------------------------------------------
(* Timers.                                                                 *)

\* A timer that goes on stays a timer, and does not fall behind.
LEMMA LaterTimer ==
    ASSUME NEW t \in 0..Horizon, NEW n \in Nat
    PROVE  Later(t, n) \in 0..Horizon
  BY Times DEF Later, Capped

\* Of two timers the one that is ahead stays ahead.
LEMMA LaterMonotonic ==
    ASSUME NEW t \in 0..Horizon, NEW u \in 0..Horizon, t <= u, NEW n \in Nat
    PROVE  Later(t, n) <= Later(u, n)
  BY Times DEF Later, Capped

\* The timer of a row is a timer.
LEMMA InRowTimer ==
    ASSUME NEW t \in 0..Horizon, NEW q
    PROVE  InRow(t, q) \in 0..Horizon
  <1>1. Later(t, 1) \in 0..Horizon
    BY LaterTimer
  <1>2. {0, 1} \subseteq 0..Horizon
    BY Times
  <1> QED
    BY <1>1, <1>2 DEF InRow

\* An epoch keeps the order of two timers of a row.
LEMMA InRowMonotonic ==
    ASSUME NEW t \in 0..Horizon, NEW u \in 0..Horizon, t <= u, NEW q
    PROVE  InRow(t, q) <= InRow(u, q)
  <1>1. CASE ~Accepted(q)
    BY <1>1 DEF InRow
  <1>2. CASE Accepted(q) /\ t = 0
    <2>1. Horizon \in Nat /\ 1 <= Horizon
      BY Times
    <2>2. u # 0 => Later(u, 1) >= 1
      BY <2>1 DEF Later, Capped
    <2> QED
      BY <1>2, <2>2 DEF InRow
  <1>3. CASE Accepted(q) /\ t # 0
    <2>1. u # 0
      BY <1>3, Times
    <2> QED
      BY <1>3, <2>1, LaterMonotonic DEF InRow
  <1> QED
    BY <1>1, <1>2, <1>3

-----------------------------------------------------------------------------
(* Types.                                                                  *)

\* The loop begins well typed.
LEMMA TypeInit == Init => TypeOK
  <1> SUFFICES ASSUME Init PROVE TypeOK
    OBVIOUS
  <1>1. client \in [open : BOOLEAN, lost : Nat, total : 0..Horizon]
    BY Times DEF Init
  <1>2. /\ held \in 0..Horizon /\ waited \in 0..Horizon /\ elapsed \in 0..Horizon
        /\ row \in 0..Horizon /\ samples \in 0..ConvergeHold
        /\ probes \in Nat /\ hits \in 0..probes /\ retry \in 0..Len(Backoff)
    BY Times DEF Init
  <1> QED
    BY <1>1, <1>2 DEF Init, TypeOK, Qualities

\* The next attempt is one that has a pause.
LEMMA NextTryTyped == TypeOK /\ retry > 0 /\ NextTry => retry' \in 0..Len(Backoff)
  BY Times DEF TypeOK, NextTry

\* The connection stays one through every result of an attempt.
LEMMA ClientTyped ==
    ASSUME NEW c \in [open : BOOLEAN, lost : Nat, total : 0..Horizon]
    PROVE  /\ MarkDisconnected(c) \in [open : BOOLEAN, lost : Nat, total : 0..Horizon]
           /\ Connected(c) \in [open : BOOLEAN, lost : Nat, total : 0..Horizon]
           /\ Settled(c) \in [open : BOOLEAN, lost : Nat, total : 0..Horizon]
  <1>1. Outage(c) \in Nat
    BY DEF Outage
  <1>2. Capped(c.total + Outage(c)) \in 0..Horizon
    BY <1>1, Times DEF Capped
  <1> QED
    BY <1>2 DEF MarkDisconnected, Connected, Settled

\* An attempt to reconnect keeps the types.
LEMMA ReconnectTyped == TypeOK /\ Reconnect => TypeOK'
  <1> SUFFICES ASSUME TypeOK, Reconnect PROVE TypeOK'
    OBVIOUS
  <1> DEFINE Clientele == [open : BOOLEAN, lost : Nat, total : 0..Horizon]
  <1>1. client \in Clientele /\ retry \in 1..Len(Backoff)
    BY SMTT(30), Times DEF TypeOK, Reconnect
  <1>2. CASE /\ phase' = "failed" /\ retry' = 0
             /\ UNCHANGED <<client, held, waited, elapsed, history>>
    BY <1>2, Times DEF TypeOK, Reconnect, Ended, admission, history
  <1>3. ASSUME NEW slow \in 0..SlowConnect,
               NEW seconds, seconds = Backoff[retry] + slow,
               NEW c, c = [client EXCEPT !.lost = @ + seconds],
               waited' = Later(waited, seconds), elapsed' = Later(elapsed, seconds),
               row' = Later(row, seconds), cut' = (cut \/ Outage(c) > Jitter),
               Attempt(c)
        PROVE  TypeOK'
    <2>1. seconds \in Nat
      BY SMTT(30), <1>1, <1>3, Times
    <2>2. c \in Clientele /\ c.lost - client.lost = seconds
      <3>1. client.lost \in Nat /\ client.lost + seconds \in Nat
        BY <1>1, <2>1
      <3>2. c = [open |-> client.open, lost |-> client.lost + seconds, total |-> client.total]
        BY <1>1, <1>3
      <3> QED
        BY <1>1, <2>1, <3>1, <3>2
    <2>3. /\ waited' \in 0..Horizon /\ elapsed' \in 0..Horizon /\ row' \in 0..Horizon
          /\ Later(held, seconds) \in 0..Horizon
      BY <1>3, <2>1, LaterTimer DEF TypeOK
    <2>4. cut' \in BOOLEAN
      BY <1>3
    <2>5. client' \in Clientele
      BY <1>3, <2>2, ClientTyped DEF Attempt
    <2>6. held' \in 0..Horizon
      <3>1. held \in 0..Horizon /\ 0 \in 0..Horizon
        BY Times DEF TypeOK
      <3>2. held' \in {held, 0, Later(held, seconds)}
        BY <1>3, <2>2 DEF Attempt
      <3> QED
        BY <2>3, <3>1, <3>2
    <2>7. retry' \in 0..Len(Backoff) /\ phase' \in {phase, "failed"}
      BY SMTT(30), <1>1, <1>3, NextTryTyped, Times DEF Attempt, NextTry
    <2> QED
      BY <2>3, <2>4, <2>5, <2>6, <2>7 DEF TypeOK, Reconnect, Ended, admission
  <1> QED
    BY <1>2, <1>3 DEF Reconnect

\* Waiting keeps the types of what it changes.
LEMMA WaitTyped ==
    ASSUME TypeOK, NEW q \in Qualities, Admit(q) \/ Wait(q)
    PROVE  /\ phase' \in {"wait", "collect"} \cup Ended \/ phase' = phase
           /\ held' \in 0..Horizon /\ waited' \in 0..Horizon /\ elapsed' \in 0..Horizon
           /\ probes' \in Nat /\ hits' \in 0..probes'
           /\ allowFloat' \in BOOLEAN /\ grade' \in Qualities
           /\ samples' = samples /\ blunt' = blunt
  <1>1. HeldAfter(q) \in 0..Horizon
    BY InRowTimer DEF HeldAfter, TypeOK
  <1>2. WaitedAfter \in 0..Horizon /\ 1 \in 0..Horizon
    <2>1. waited \in 0..Horizon
      BY DEF TypeOK
    <2>2. 1 \in Nat
      OBVIOUS
    <2>3. Later(waited, 1) \in 0..Horizon
      BY <2>1, <2>2, LaterTimer
    <2>4. 1 \in 0..Horizon
      BY Times
    <2> QED
      BY <2>3, <2>4 DEF WaitedAfter
  <1>3. HitsAfter(q) \in 0..(probes + 1) /\ probes + 1 \in Nat /\ 0 \in 0..0
    BY DEF HitsAfter, TypeOK
  <1>4. CASE Admit(q)
    <2>1. /\ held' \in 0..Horizon /\ elapsed' \in 0..Horizon
          /\ probes' \in Nat /\ hits' \in 0..probes'
      BY <1>2, <1>3, <1>4, Times DEF Admit
    <2> QED
      BY <1>4, <2>1 DEF Admit, TypeOK
  <1>5. CASE Wait(q) /\ Reached(WaitedAfter, WaitTimeout)
    <2>1. WindowEnds(q)
      BY <1>5 DEF Wait
    <2>2. /\ held' = HeldAfter(q)
          /\ UNCHANGED <<grade, collected>>
      BY <1>5 DEF Wait
    <2>3. \/ Restarted /\ allowFloat' = TRUE /\ phase' = phase
          \/ UNCHANGED <<window, allowFloat>> /\ phase' = "failed"
      BY <2>1 DEF WindowEnds
    <2>4. /\ waited' \in 0..Horizon /\ probes' \in Nat /\ hits' \in 0..probes'
          /\ allowFloat' \in BOOLEAN
      <3>1. CASE Restarted /\ allowFloat' = TRUE
        BY <1>2, <3>1 DEF Restarted
      <3>2. CASE UNCHANGED <<window, allowFloat>>
        <4>1. waited \in 0..Horizon /\ probes \in Nat /\ hits \in 0..probes
              /\ allowFloat \in BOOLEAN
          BY DEF TypeOK
        <4> QED
          BY <3>2, <4>1 DEF window
      <3> QED
        BY <2>3, <3>1, <3>2
    <2> QED
      BY <1>1, <2>2, <2>3, <2>4 DEF TypeOK, Ended, collected
  <1>6. CASE Wait(q) /\ ~Reached(WaitedAfter, WaitTimeout)
    BY <1>1, <1>2, <1>3, <1>6 DEF Wait, TypeOK, collected
  <1> QED
    BY <1>4, <1>5, <1>6

\* Collecting keeps the types of what it changes.
LEMMA CollectTyped ==
    ASSUME TypeOK, NEW q \in Qualities, Collect(q)
    PROVE  /\ phase' \in {"collect"} \cup Ended
           /\ held' \in 0..Horizon /\ elapsed' \in 0..Horizon
           /\ samples' \in 0..ConvergeHold /\ blunt' \in BOOLEAN
           /\ UNCHANGED <<window, admission>>
  <1>1. held' \in 0..Horizon
    BY InRowTimer DEF HeldAfter, TypeOK, Collect
  <1>2. elapsed' \in 0..Horizon
    BY LaterTimer DEF TypeOK, Collect
  <1>3. samples' \in 0..ConvergeHold
    BY Times DEF TypeOK, Collect
  <1>4. blunt' \in BOOLEAN
    BY Zenon DEF Collect
  <1>5. phase' \in {"collect"} \cup Ended
    BY DEF Collect, Ended
  <1> QED
    BY <1>1, <1>2, <1>3, <1>4, <1>5 DEF Collect

\* Every step keeps the types.
LEMMA TypeNext == TypeOK /\ [Next]_vars => TypeOK'
  <1> SUFFICES ASSUME TypeOK, [Next]_vars PROVE TypeOK'
    OBVIOUS
  <1>1. CASE Checkpoint
    BY <1>1, Times DEF Checkpoint, TypeOK, Ended, window, admission, collected, history
  <1>2. CASE GiveUp
    BY <1>2 DEF GiveUp, TypeOK, Ended, window, admission, collected, history
  <1>3. CASE LinkLost
    <2>1. client \in [open : BOOLEAN, lost : Nat, total : 0..Horizon]
      BY DEF TypeOK
    <2>2. client' \in [open : BOOLEAN, lost : Nat, total : 0..Horizon]
      BY <1>3, <2>1, ClientTyped DEF LinkLost
    <2>3. retry' \in 0..Len(Backoff)
      BY <1>3, Times DEF LinkLost
    <2> QED
      BY <1>3, <2>2, <2>3 DEF LinkLost, TypeOK, window, admission, collected, history
  <1>4. CASE Reconnect
    BY <1>4, ReconnectTyped
  <1>5. CASE Observe
    <2>1. PICK q \in Qualities : Epoch(q)
      BY <1>5 DEF Observe
    <2>2. row' \in 0..Horizon
      BY <2>1, InRowTimer DEF Epoch, TypeOK
    <2>3. cut' \in BOOLEAN
      BY <2>1, Zenon DEF Epoch
    <2>4. CASE Admit(q) \/ Wait(q)
      BY <2>1, <2>2, <2>3, <2>4, WaitTyped DEF Epoch, TypeOK
    <2>5. CASE Collect(q)
      BY <2>1, <2>2, <2>3, <2>5, CollectTyped DEF Epoch, TypeOK, window, admission
    <2> QED
      BY <2>1, <2>4, <2>5 DEF Epoch
  <1>6. CASE Stop
    BY <1>6 DEF Stop, TypeOK, window, admission, collected, history
  <1>7. CASE UNCHANGED vars
    BY <1>7 DEF vars, TypeOK, window, admission, collected, history
  <1> QED
    BY <1>1, <1>2, <1>3, <1>4, <1>5, <1>6, <1>7 DEF Next, Loop

\* Type correctness of the collection.
THEOREM TypeCorrect == Spec => []TypeOK
  BY TypeInit, TypeNext, PTL DEF Spec

-----------------------------------------------------------------------------
(* What is called fixed.                                                   *)

\* Before collecting begins no sample is of a float solution.
GradeInv == GradeIsOfSamples /\ (phase = "wait" => ~blunt)

\* Every step keeps the grade true.
LEMMA GradeNext == TypeOK /\ GradeInv /\ [Next]_vars => GradeInv'
  <1> SUFFICES ASSUME TypeOK, GradeInv, [Next]_vars PROVE GradeInv'
    OBVIOUS
  <1> USE DEF GradeInv, GradeIsOfSamples
  <1>1. ASSUME UNCHANGED <<allowFloat, grade, blunt>>, phase' \in {phase} \cup Ended
        PROVE  GradeInv'
    BY <1>1 DEF Ended
  <1>2. CASE Checkpoint \/ GiveUp \/ LinkLost \/ Stop \/ UNCHANGED vars
    BY <1>1, <1>2 DEF Checkpoint, GiveUp, LinkLost, Stop, vars, admission, collected, Ended
  <1>3. CASE Reconnect
    BY <1>1, <1>3 DEF Reconnect, Attempt, NextTry, admission, Ended
  <1>4. CASE Observe
    <2>1. PICK q \in Qualities : Epoch(q)
      BY <1>4 DEF Observe
    <2>2. CASE phase = "wait" /\ Admit(q)
      BY <2>2 DEF Admit
    <2>3. CASE phase = "wait" /\ Wait(q)
      BY <2>3 DEF Wait, WindowEnds, collected
    <2>4. CASE phase = "collect" /\ Collect(q)
      <3>1. UNCHANGED <<allowFloat, grade>> /\ phase' # "wait"
        BY <2>4 DEF Collect, admission
      <3>2. ~allowFloat /\ ~blunt => ~blunt'
        BY <2>4 DEF Collect, Accepted
      <3> QED
        BY <3>1, <3>2
    <2> QED
      BY <2>1, <2>2, <2>3, <2>4 DEF Epoch
  <1> QED
    BY <1>2, <1>3, <1>4 DEF Next, Loop

\* A result called fixed is of fixed epochs only, unless it was downgraded.
THEOREM GradeCorrect == Spec => []GradeIsOfSamples
  <1>1. Init => GradeInv
    BY DEF Init, GradeInv, GradeIsOfSamples
  <1>2. GradeInv => GradeIsOfSamples
    BY DEF GradeInv
  <1> QED
    BY <1>1, <1>2, TypeInit, TypeNext, GradeNext, PTL DEF Spec

-----------------------------------------------------------------------------
(* The hold.                                                               *)

\* The timer of the hold is never ahead of the row of accepted epochs.
HoldInv == phase = "wait" => held <= row

\* Every step keeps it behind.
LEMMA HoldNext == TypeOK /\ HoldInv /\ [Next]_vars => HoldInv'
  <1> SUFFICES ASSUME TypeOK, HoldInv, [Next]_vars, phase' = "wait" PROVE held' <= row'
    BY DEF HoldInv
  <1>1. CASE Checkpoint \/ GiveUp \/ LinkLost \/ Stop \/ UNCHANGED vars
    BY <1>1 DEF HoldInv, Checkpoint, GiveUp, LinkLost, Stop, vars, history
  <1>2. CASE Reconnect
    <2>1. PICK slow \in 0..SlowConnect :
             LET seconds == Backoff[retry] + slow
                 c == [client EXCEPT !.lost = @ + seconds]
             IN  row' = Later(row, seconds) /\ Attempt(c)
      BY <1>2 DEF Reconnect
    <2> DEFINE seconds == Backoff[retry] + slow
               c == [client EXCEPT !.lost = @ + seconds]
    <2>2. retry \in 1..Len(Backoff)
      BY SMTT(30), <1>2, Times DEF TypeOK, Reconnect
    <2>3. seconds \in Nat
      BY <2>2, Times
    <2>4. client \in [open : BOOLEAN, lost : Nat, total : 0..Horizon]
      BY DEF TypeOK
    <2>5. c.lost - client.lost = seconds
      BY <2>3, <2>4
    <2>6. phase = "wait"
      BY <2>1 DEF Attempt, NextTry
    <2>7. held' \in {0, Later(held, seconds)}
      BY <2>1, <2>5 DEF Attempt
    <2>8. held \in 0..Horizon /\ row \in 0..Horizon /\ held <= row
      BY <2>6 DEF TypeOK, HoldInv
    <2>9. Later(held, seconds) <= Later(row, seconds) /\ Later(row, seconds) \in 0..Horizon
      BY <2>3, <2>8, LaterMonotonic, LaterTimer
    <2> QED
      BY <2>1, <2>7, <2>9, Times
  <1>3. CASE Observe
    <2>1. PICK q \in Qualities : Epoch(q)
      BY <1>3 DEF Observe
    <2>2. phase = "wait" /\ held' = HeldAfter(q) /\ row' = InRow(row, q)
      BY <2>1 DEF Epoch, Admit, Collect, Wait, Ended
    <2> QED
      BY <2>2, InRowMonotonic DEF HeldAfter, TypeOK, HoldInv
  <1> QED
    BY <1>1, <1>2, <1>3 DEF Next, Loop

\* Collecting begins after the hold that its first epoch demands.
LEMMA AdmittedStep ==
    TypeOK /\ HoldInv /\ [Next]_vars /\ phase = "wait" /\ phase' = "collect"
      => Reached(row', IF grade' = "fixed" THEN FixHold ELSE FloatHold)
  <1> SUFFICES ASSUME TypeOK, HoldInv, [Next]_vars, phase = "wait", phase' = "collect"
               PROVE  Reached(row', IF grade' = "fixed" THEN FixHold ELSE FloatHold)
    OBVIOUS
  <1>1. PICK q \in Qualities : Epoch(q)
    BY DEF Next, Loop, Checkpoint, GiveUp, LinkLost, Reconnect, Attempt, NextTry, Stop, vars,
       Observe, Ended
  <1>2. Admit(q) /\ row' = InRow(row, q)
    BY <1>1 DEF Epoch, Wait, WindowEnds
  <1>3. Reached(HeldAfter(q), HoldNeeded(q)) /\ grade' = q
    BY <1>2 DEF Admit, Admitted
  <1>4. /\ held \in 0..Horizon /\ row \in 0..Horizon /\ held <= row
        /\ FixHold \in Nat /\ FloatHold \in Nat /\ Horizon \in Nat
    BY Times DEF TypeOK, HoldInv
  <1>5. HeldAfter(q) <= row' /\ HeldAfter(q) \in 0..Horizon /\ row' \in 0..Horizon
    BY <1>2, <1>4, InRowMonotonic, InRowTimer DEF HeldAfter
  <1> QED
    BY <1>3, <1>4, <1>5 DEF Reached, HoldNeeded

\* Admission takes the whole hold, for all lengths of holds, pauses and outages.
THEOREM AdmittedCorrect == Spec => AdmittedAfterHold
  <1>1. Init => HoldInv
    BY DEF Init, HoldInv
  <1>2. Spec => [](TypeOK /\ HoldInv)
    BY <1>1, TypeInit, TypeNext, HoldNext, PTL DEF Spec
  <1>3. TypeOK /\ HoldInv /\ [Next]_vars
          => [phase = "wait" /\ phase' = "collect" =>
                Reached(row', IF grade' = "fixed" THEN FixHold ELSE FloatHold)]_vars
    BY AdmittedStep
  <1> QED
    BY <1>2, <1>3, PTL DEF Spec, AdmittedAfterHold

=============================================================================
