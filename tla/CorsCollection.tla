--------------------------- MODULE CorsCollection ---------------------------
(***************************************************************************)
(* Measuring the antenna with corrections from a CORS caster: the loop of  *)
(* CoordinateWriter._step_cors_fix_and_collect (calibration/writer.py)     *)
(* with the connection it pumps (CorsClient, calibration/cors.py).         *)
(*                                                                         *)
(* First the loop waits until the module has had a solution that is good   *)
(* enough for long enough, then it collects positions.  A fixed solution   *)
(* is always good enough; a float one only after a whole window in which   *)
(* no fixed one came, and this downgrade is never taken back.              *)
(*                                                                         *)
(* A pass of the loop takes a second.  A timer is 0 when it is not set and *)
(* otherwise one more than the seconds since then, up to Horizon.          *)
(***************************************************************************)
EXTENDS Naturals, Sequences

CONSTANTS
    FixHold, FloatHold,     \* FIX_HOLD_SECONDS, FLOAT_HOLD_SECONDS
    WaitTimeout,            \* FIX_WAIT_TIMEOUT
    Duration,               \* the duration the user has chosen
    FloatDuration,          \* FLOAT_MIN_COLLECT_SECONDS
    ConvergeHold,           \* CONVERGE_HOLD_SECONDS, in samples
    Jitter,                 \* CORS_NET_JITTER_TOLERANCE_SEC
    Backoff,                \* RECONNECT_BACKOFF
    Limit,                  \* CUMULATIVE_DISCONNECT_LIMIT
    SlowConnect,            \* bound on the seconds that connect() takes
    Horizon                 \* bound on all times

ASSUME TimesAssumption ==
    /\ {FixHold, FloatHold, WaitTimeout, Duration, FloatDuration, ConvergeHold, Jitter,
        Limit, SlowConnect, Horizon} \subseteq Nat
    /\ Backoff \in Seq(Nat) /\ Backoff # <<>>
    /\ \A t \in {FixHold, FloatHold, WaitTimeout, Duration, FloatDuration, Limit} : t < Horizon

VARIABLES
    phase,      \* what the loop does, or how it has ended
    held,       \* timer fix_hold_started
    waited,     \* timer fix_wait_started
    probes,     \* float_probes
    hits,       \* float_hits
    allowFloat, \* result['allow_float_collect']
    grade,      \* result['accuracy_grade']
    elapsed,    \* timer collect_started
    samples,    \* number of samples, up to ConvergeHold
    blunt,      \* a sample is of a float solution
    client,     \* the connection
    retry,      \* attempt of _cors_reconnect, or 0
    stop,       \* the run is cancelled or evicted
    row,        \* timer set by the first of the accepted epochs that came in a row
    cut         \* the link was lost for longer than Jitter since then

Ended == {"done", "failed", "stopped"}
Qualities == {"none", "float", "fixed"}
Clients == [open : BOOLEAN, lost : 0..Horizon, total : 0..Horizon]

history == <<row, cut>>
window == <<waited, probes, hits>>
admission == <<allowFloat, grade>>
collected == <<elapsed, samples, blunt>>

Capped(n) == IF n > Horizon THEN Horizon ELSE n
Later(timer, seconds) == IF timer = 0 THEN 0 ELSE Capped(timer + seconds)
Reached(timer, seconds) == timer > seconds

-----------------------------------------------------------------------------
(* The connection.                                                         *)

MarkDisconnected(c) == [c EXCEPT !.open = FALSE, !.lost = IF @ = 0 THEN 1 ELSE @]

CumulativeDisconnect(c) == IF c.lost = 0 THEN c.total ELSE Capped(c.total + c.lost - 1)

\* A successful _connect_once.
Connected(c) == [c EXCEPT !.open = TRUE, !.lost = 0]

\* How long the last outage was, and the connection with it accounted for.
Outage(c) == IF c.lost = 0 THEN 0 ELSE c.lost - 1
Settled(c) == [c EXCEPT !.total = Capped(@ + Outage(c)), !.lost = 0]

-----------------------------------------------------------------------------
(* The loop.                                                               *)

Init ==
    /\ phase = "wait" /\ held = 0 /\ waited = 0 /\ probes = 0 /\ hits = 0
    /\ allowFloat = FALSE /\ grade = "none"
    /\ elapsed = 0 /\ samples = 0 /\ blunt = FALSE
    /\ client = [open |-> TRUE, lost |-> 0, total |-> 0] /\ retry = 0
    /\ stop = FALSE /\ row = 0 /\ cut = FALSE

Active == phase \notin Ended
Passing == Active /\ ~stop /\ retry = 0

Checkpoint ==
    /\ Active /\ stop
    /\ phase' = "stopped" /\ retry' = 0
    /\ UNCHANGED <<held, window, admission, collected, client, stop, history>>

\* The module's port is dead, corrections cannot be written to it, or it has left
\* the rover mode.
GiveUp ==
    /\ Passing /\ phase' = "failed"
    /\ UNCHANGED <<held, window, admission, collected, client, retry, stop, history>>

\* pump finds the connection lost; the pass goes no further.
LinkLost ==
    /\ Passing
    /\ client' = MarkDisconnected(client) /\ retry' = 1
    /\ UNCHANGED <<phase, held, window, admission, collected, stop, history>>

NextTry ==
    IF retry < Len(Backoff) THEN retry' = retry + 1 /\ UNCHANGED phase
    ELSE retry' = 0 /\ phase' = "failed"

\* One attempt of _cors_reconnect, after which c is the connection: it is found
\* on, lost again before a position could be sent to it, refused, or not found.
Attempt(c) ==
    \/ /\ client' = Settled(Connected(c)) /\ retry' = 0 /\ UNCHANGED phase
       /\ held' = IF Outage(Connected(c)) <= Jitter THEN Later(held, c.lost - client.lost) ELSE 0
    \/ /\ client' = MarkDisconnected(Settled(Connected(c)))
       /\ retry' = 0 /\ phase' = "failed" /\ UNCHANGED held
    \/ /\ client' = c
       /\ retry' = 0 /\ phase' = "failed" /\ UNCHANGED held
    \/ /\ client' = c /\ NextTry /\ held' = Later(held, c.lost - client.lost)

\* The pause, then connect(), which takes its time.
Reconnect ==
    /\ Active /\ ~stop /\ retry > 0
    /\ UNCHANGED <<probes, hits, admission, samples, blunt, stop>>
    /\ \/ /\ CumulativeDisconnect(client) > Limit
          /\ phase' = "failed" /\ retry' = 0
          /\ UNCHANGED <<client, held, waited, elapsed, history>>
       \/ /\ CumulativeDisconnect(client) <= Limit
          /\ \E slow \in 0..SlowConnect :
               LET seconds == Backoff[retry] + slow
                   c == [client EXCEPT !.lost = @ + seconds]
               IN  /\ waited' = Later(waited, seconds)
                   /\ elapsed' = Later(elapsed, seconds)
                   /\ row' = Later(row, seconds)
                   /\ cut' = (cut \/ Outage(c) > Jitter)
                   /\ Attempt(c)

\* Slip: a float solution is as good as a fixed one.
AcceptedFloat(q) == q \in {"fixed", "float"}

Accepted(q) == q = "fixed" \/ (allowFloat /\ q = "float")
HoldNeeded(q) == IF q = "fixed" THEN FixHold ELSE FloatHold

\* The timer of a row of accepted epochs, after one more epoch.
InRow(timer, q) == IF ~Accepted(q) THEN 0 ELSE IF timer = 0 THEN 1 ELSE Later(timer, 1)

\* Slip: an epoch that is not good enough does not reset the timer.
HeldThrough(q) == IF held = 0 THEN InRow(0, q) ELSE Later(held, 1)

HeldAfter(q) == InRow(held, q)
HitsAfter(q) == IF q = "float" THEN hits + 1 ELSE hits
WaitedAfter == IF waited = 0 THEN 1 ELSE Later(waited, 1)
Mostly(h) == 2 * h >= probes + 1        \* FLOAT_MIGRATE_MIN_HITS_RATIO

Restarted == waited' = 1 /\ probes' = 0 /\ hits' = 0

\* The solution has been good enough for long enough.
Admitted(q) == Accepted(q) /\ Reached(HeldAfter(q), HoldNeeded(q))

Admit(q) ==
    /\ Admitted(q)
    /\ phase' = "collect" /\ elapsed' = 1 /\ held' = 0
    /\ grade' = q
    /\ probes' = probes + 1 /\ hits' = HitsAfter(q)
    /\ UNCHANGED <<waited, allowFloat, samples, blunt>>

\* The window ends: downgrade to a float solution that is there most of the time;
\* once downgraded go on waiting while it is; otherwise fail.
WindowEnds(q) ==
    \/ /\ Mostly(HitsAfter(q)) /\ (~allowFloat => q = "float")
       /\ allowFloat' = TRUE /\ Restarted /\ UNCHANGED phase
    \/ /\ ~Mostly(HitsAfter(q)) \/ (~allowFloat /\ q # "float")
       /\ phase' = "failed" /\ UNCHANGED <<window, allowFloat>>

Wait(q) ==
    /\ ~Admitted(q) /\ held' = HeldAfter(q)
    /\ UNCHANGED <<grade, collected>>
    /\ IF Reached(WaitedAfter, WaitTimeout) THEN WindowEnds(q)
       ELSE /\ waited' = WaitedAfter /\ probes' = probes + 1 /\ hits' = HitsAfter(q)
            /\ UNCHANGED <<phase, allowFloat>>

EffDuration ==
    IF grade = "float" /\ FloatDuration > Duration THEN FloatDuration ELSE Duration

\* Slip: an epoch that is not good enough begins the time anew.
CollectAnew(q) ==
    /\ held' = HeldAfter(q)
    /\ samples' = IF Accepted(q) /\ samples < ConvergeHold THEN samples + 1 ELSE samples
    /\ blunt' = (blunt \/ (Accepted(q) /\ q # "fixed"))
    /\ elapsed' = IF Accepted(q) THEN Later(elapsed, 1) ELSE 1
    /\ phase' \in (IF samples' >= ConvergeHold THEN {"done"} ELSE {})
                  \cup (IF ~Reached(elapsed', EffDuration) THEN {"collect"}
                        ELSE {"failed"} \cup (IF samples' = 0 THEN {} ELSE {"done"}))
    /\ UNCHANGED <<window, admission>>

\* An epoch adds a sample if it is good enough.  The loop ends when the samples
\* have converged or the time is over; then a plan may refuse what has not
\* converged, and a run without a sample fails.
Collect(q) ==
    /\ held' = HeldAfter(q)
    /\ samples' = IF Accepted(q) /\ samples < ConvergeHold THEN samples + 1 ELSE samples
    /\ blunt' = (blunt \/ (Accepted(q) /\ q # "fixed"))
    /\ elapsed' = Later(elapsed, 1)
    /\ phase' \in (IF samples' >= ConvergeHold THEN {"done"} ELSE {})
                  \cup (IF ~Reached(elapsed', EffDuration) THEN {"collect"}
                        ELSE {"failed"} \cup (IF samples' = 0 THEN {} ELSE {"done"}))
    /\ UNCHANGED <<window, admission>>

\* A pass that sees an epoch of quality q.
Epoch(q) ==
    /\ Passing
    /\ \/ phase = "wait" /\ (Admit(q) \/ Wait(q))
       \/ phase = "collect" /\ Collect(q)
    /\ row' = InRow(row, q)
    /\ cut' = (cut /\ row' # 0 /\ row # 0)
    /\ UNCHANGED <<client, retry, stop>>

\* The user cancels, or the lease is lost.
Stop ==
    /\ Active /\ ~stop /\ stop' = TRUE
    /\ UNCHANGED <<phase, held, window, admission, collected, client, retry, history>>

Observe == \E q \in Qualities : Epoch(q)
Loop == Checkpoint \/ GiveUp \/ LinkLost \/ Reconnect \/ Observe
Next == Loop \/ Stop

vars == <<phase, held, window, admission, collected, client, retry, stop, history>>

\* The loop runs, and the link is not lost in every pass.
Spec == Init /\ [][Next]_vars /\ WF_vars(Loop) /\ SF_vars(Observe)

-----------------------------------------------------------------------------
(* Properties.                                                             *)

\* Types; no outage is tried more often than there are pauses.
TypeOK ==
    /\ phase \in {"wait", "collect"} \cup Ended
    /\ held \in 0..Horizon /\ waited \in 0..Horizon /\ elapsed \in 0..Horizon
    /\ probes \in Nat /\ hits \in 0..probes
    /\ allowFloat \in BOOLEAN /\ grade \in Qualities
    /\ samples \in 0..ConvergeHold /\ blunt \in BOOLEAN
    /\ client \in [open : BOOLEAN, lost : Nat, total : 0..Horizon]
    /\ retry \in 0..Len(Backoff)
    /\ stop \in BOOLEAN /\ row \in 0..Horizon /\ cut \in BOOLEAN

\* Collecting begins only after epochs in a row, through short losses of the link
\* too, each of which was good enough, for as long as the last of them demands.
AdmittedAfterHold ==
    [][phase = "wait" /\ phase' = "collect" =>
         Reached(row', IF grade' = "fixed" THEN FixHold ELSE FloatHold)]_vars

\* A result that is called fixed is of fixed epochs only, unless the run had been
\* downgraded before.
GradeIsOfSamples == grade = "fixed" /\ ~allowFloat => ~blunt

\* The first wait ends, with a solution, with the downgrade, or without success; and
\* however often the link is lost meanwhile, collecting ends.  (A downgraded wait
\* need not end: a float solution that is there half of the time, but never for
\* FLOAT_HOLD_SECONDS, begins window after window.)
WaitsEnd ==
    /\ phase = "wait" /\ ~allowFloat ~> phase # "wait" \/ allowFloat
    /\ phase = "collect" ~> phase \in Ended

\* writer.py:1979-1982: an outage longer than the jitter that is tolerated makes the
\* hold begin anew.
OutageRestartsHold == [][phase = "wait" /\ phase' = "collect" => ~cut']_vars
=============================================================================
