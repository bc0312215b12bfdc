--------------------------- MODULE CommandChannel ---------------------------
(***************************************************************************)
(* Commands to the module, drivers/base.py: Channel.send and its retries,  *)
(* classify, apply_and_verify and the restart of the module, in the order  *)
(* in which set_fixed_ecef, set_mode and config_survey_in use them:        *)
(* command, save, restart, read back, once more.                           *)
(*                                                                         *)
(* An answer carries the name of its command and nothing else, so one that *)
(* comes after its attempt has timed out is taken for the answer to the    *)
(* next command of that name.  A setting is one value with one name; all   *)
(* lines of other names, RTCM frames and noise are "other".                *)
(***************************************************************************)
EXTENDS Naturals, Sequences

CONSTANTS
    Values,         \* of the setting
    Retries,        \* of one send, after its first attempt
    MaxSets,        \* bound on settings asked for
    MaxFaults,      \* bound on what the module does wrong
    MaxInbox,       \* commands the module can hold; further ones are lost
    MaxWire         \* bound on unread lines, for those nobody has asked for

ASSUME ValuesAssumption == Values \subseteq Nat \ {0} /\ Values # {}
ASSUME SendAssumption ==
    Retries \in Nat /\ MaxSets \in Nat /\ MaxFaults \in Nat /\ MaxWire \in Nat /\ MaxInbox \in Nat \ {0}

VARIABLES
    setting,    \* the module's, in its RAM
    stored,     \* and in its NVM
    inbox,      \* commands it has not executed
    wire,       \* lines that have not been read
    wanted,     \* the value asked for
    persist,    \* save and restart are asked for
    step,       \* the command that is due, or how the last setting ended
    again,      \* apply_and_verify: it has been applied a second time
    attempt,    \* of send
    waiting,    \* send has written and reads
    sets, faults,   \* for the bounds
    \* What the properties compare with; nothing in the code:
    late,       \* an attempt has timed out since the module restarted
    faulty      \* anything has gone wrong since then

module == <<setting, stored>>
traffic == <<inbox, wire>>
driver == <<wanted, persist, step, again, attempt, waiting>>
history == <<sets, faults, late, faulty>>
channelVars == <<module, traffic, driver, history>>

Sending == {"apply", "save", "check"}
Steps == Sending \cup {"restart", "idle", "done", "failed"}

\* command_name: the query and the command that sets share theirs.
Name(s) == IF s = "save" THEN "save" ELSE "setting"

\* The body of a command; only one that sets has a value.
Body == [what |-> step, value |-> IF step = "apply" THEN wanted ELSE 0]
Line(n, k, v) == [name |-> n, kind |-> k, value |-> v]

ChannelInit ==
    /\ setting \in Values /\ stored = setting
    /\ inbox = <<>> /\ wire = <<>>
    /\ wanted = setting /\ persist = FALSE /\ step = "idle" /\ again = FALSE
    /\ attempt = 0 /\ waiting = FALSE
    /\ sets = 0 /\ faults = 0 /\ late = FALSE /\ faulty = FALSE

Fault == faults < MaxFaults /\ faults' = faults + 1 /\ faulty' = TRUE
Sound == UNCHANGED <<faults, faulty>>

-----------------------------------------------------------------------------
(* The module.                                                             *)

Echo(c) == Line(Name(c.what), "echo of " \o c.what, c.value)

\* A command executed: its effect, and what is answered.
Done(c) ==
    CASE c.what = "apply" ->
           setting' = c.value /\ UNCHANGED stored /\ wire' = Append(wire, Line("setting", "ok", 0))
      [] c.what = "save" ->
           stored' = setting /\ UNCHANGED setting /\ wire' = Append(wire, Line("save", "ok", 0))
      [] c.what = "check" ->
           UNCHANGED module /\ wire' = Append(wire, Line("setting", "value", setting))

Execute ==
    /\ inbox # <<>> /\ inbox' = Tail(inbox)
    /\ Done(Head(inbox)) /\ Sound
    /\ UNCHANGED <<driver, sets, late>>

\* Some modules repeat a command before they answer.
EchoFirst ==
    /\ inbox # <<>> /\ Len(wire) < MaxWire
    /\ Echo(Head(inbox)) \notin {wire[i] : i \in 1..Len(wire)}
    /\ wire' = Append(wire, Echo(Head(inbox)))
    /\ UNCHANGED <<module, inbox, driver, history>>

\* It refuses, or answers without having done it; or the command or its answer is
\* lost in noise.
Misbehave ==
    /\ inbox # <<>> /\ inbox' = Tail(inbox) /\ Fault
    /\ LET c == Head(inbox) IN
       \/ wire' = Append(wire, Line(Name(c.what), "error", 0)) /\ UNCHANGED module
       \/ /\ c.what # "check"
          /\ wire' = Append(wire, Line(Name(c.what), "ok", 0)) /\ UNCHANGED module
       \/ UNCHANGED <<wire, module>>
       \/ UNCHANGED <<wire, stored>> /\ setting' = IF c.what = "apply" THEN c.value ELSE setting
    /\ UNCHANGED <<driver, sets, late>>

\* Positions, status, RTCM: what nobody has asked for.
Unasked ==
    /\ Len(wire) < MaxWire
    /\ wire' = Append(wire, Line("other", "value", 0))
    /\ UNCHANGED <<module, inbox, driver, history>>

Module == Execute \/ EchoFirst \/ Misbehave \/ Unasked

-----------------------------------------------------------------------------
(* send.                                                                   *)

\* Nothing is read or thrown away before a command is written.
Write ==
    /\ step \in Sending /\ ~waiting
    /\ inbox' = IF Len(inbox) < MaxInbox THEN Append(inbox, Body) ELSE inbox
    /\ waiting' = TRUE
    /\ UNCHANGED <<module, wire, wanted, persist, step, again, attempt, history>>

\* classify, for the command that was sent.
IsEcho(l) == l = Echo(Body)

\* The name decides; what is neither OK nor ERROR is the driver's to understand.
Classify(l) ==
    CASE l.name # Name(step) -> "other"
      [] l.name = Name(step) /\ IsEcho(l) -> "echo"
      [] l.name = Name(step) /\ ~IsEcho(l) -> IF l.kind = "error" THEN "error" ELSE "ok"

\* Slip: an answer to the query will do.
AnsweredAtAll(l) ==
    CASE step = "apply" -> IF persist THEN "save" ELSE "check"
      [] step = "save" -> IF again THEN "check" ELSE "restart"
      [] step = "check" -> IF l.kind = "value" THEN "done" ELSE IF again THEN "failed" ELSE "apply"

\* What comes after a send that was answered; a read back must be of the value.
Answered(l) ==
    CASE step = "apply" -> IF persist THEN "save" ELSE "check"
      [] step = "save" -> IF again THEN "check" ELSE "restart"
      [] step = "check" -> IF l.kind = "value" /\ l.value = wanted THEN "done"
                           ELSE IF again THEN "failed" ELSE "apply"

\* What comes after one that was refused, or timed out.
Unanswered == IF step = "check" /\ ~again THEN "apply" ELSE "failed"

\* Slip: every mismatch makes for another round.
GoesRound(next) ==
    /\ step' = next /\ waiting' = FALSE /\ attempt' = 0
    /\ UNCHANGED <<wanted, persist, again>>

\* A send is over: apply_and_verify applies the setting once more.
Goes(next) ==
    /\ step' = next /\ waiting' = FALSE /\ attempt' = 0
    /\ again' = (again \/ (step = "check" /\ next = "apply"))
    /\ UNCHANGED <<wanted, persist>>

ReadLine ==
    /\ waiting /\ wire # <<>> /\ wire' = Tail(wire)
    /\ LET l == Head(wire) IN
       CASE Classify(l) \in {"other", "echo"} -> UNCHANGED driver
         [] Classify(l) = "ok" -> Goes(Answered(l))
         [] Classify(l) = "error" -> Goes(Unanswered)
    /\ UNCHANGED <<module, inbox, history>>

TimeOut ==
    /\ waiting /\ late' = TRUE /\ faulty' = TRUE
    /\ IF attempt < Retries
       THEN attempt' = attempt + 1 /\ waiting' = FALSE /\ UNCHANGED <<wanted, persist, step, again>>
       ELSE Goes(Unanswered)
    /\ UNCHANGED <<module, traffic, sets, faults>>

-----------------------------------------------------------------------------
(* The driver.                                                             *)

Set(v, saving) ==
    /\ step \in {"idle", "done", "failed"} /\ sets < MaxSets
    /\ sets' = sets + 1
    /\ wanted' = v /\ persist' = saving
    /\ step' = "apply" /\ again' = FALSE /\ attempt' = 0
    /\ UNCHANGED <<module, traffic, waiting, faults, late, faulty>>

\* Slip: the port is not closed, so what has been received stays.
RestartKeepsLines ==
    /\ step = "restart"
    /\ setting' = stored /\ inbox' = <<>> /\ step' = "check"
    /\ late' = FALSE /\ faulty' = FALSE
    /\ UNCHANGED <<stored, wire, wanted, persist, again, attempt, waiting, sets, faults>>

\* _reboot_sequence: the port is closed and opened, and every line read up to the
\* first one of the module's start, or for so long; silence is a failure.
Restart ==
    /\ step = "restart" /\ wire' = <<>>
    /\ \/ /\ setting' = stored /\ inbox' = <<>> /\ step' = "check"
          /\ late' = FALSE /\ faulty' = FALSE /\ UNCHANGED faults
       \/ \* the command is lost and the module goes on, or nothing comes from it
          /\ Fault /\ setting' \in {setting, stored} /\ inbox' \in {inbox, <<>>}
          /\ step' \in {"check", "failed"} /\ UNCHANGED late
    /\ UNCHANGED <<stored, wanted, persist, again, attempt, waiting, sets>>

Driver == (\E v \in Values, saving \in BOOLEAN : Set(v, saving)) \/ Restart

ChannelNext == Module \/ Write \/ ReadLine \/ TimeOut \/ Driver

ChannelSpec == ChannelInit /\ [][ChannelNext]_channelVars

\* Every attempt ends, and the worker goes on.
ChannelFairness ==
    WF_channelVars(Write) /\ WF_channelVars(TimeOut) /\ WF_channelVars(Restart)

-----------------------------------------------------------------------------
(* Properties.                                                             *)

\* What is reported as read back is in the module, whatever it refuses, loses or
\* acknowledges without effect, as long as no answer was late.
VerifiedIsThere == step = "done" /\ ~late => setting = wanted

\* A module that does what it is told, in time, is not reported as failing,
\* whatever it repeats and sends in between, and whatever was late before its
\* last restart.
WorkingSucceeds == step = "failed" => faulty

\* Every setting asked for comes to an end, though the module may be silent, or
\* send without pause.
SetEnds == step \in Sending \cup {"restart"} ~> step \in {"done", "failed"}
=============================================================================
