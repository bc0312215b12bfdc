----------------------------- MODULE GgaManager -----------------------------
(***************************************************************************)
(* The positions reported to a CORS caster: GgaManager (calibration/       *)
(* cors.py).  The caster computes corrections for the position that was    *)
(* reported last, so reports must follow the module, go on, and never jump.*)
(*                                                                         *)
(* The client asks for a line in every pass of its loop, and for one       *)
(* regardless of the rhythm after it has reconnected; a reconnection takes *)
(* any number of seconds.  A line is the position in it and a number that  *)
(* tells it from the other lines there are.  The guard is on               *)
(* (GGA_GUARD_ENABLED).                                                    *)
(***************************************************************************)
EXTENDS Integers

CONSTANTS
    Positions,      \* places, with neighbours within GGA_JUMP_LIMIT of each other
    Lines,          \* numbers of lines
    StaleLimit,     \* GGA_STALE_LIMIT
    KeepAlive,      \* GGA_KEEPALIVE
    MaxDrop         \* GGA_JUMP_MAX_DROP

ASSUME PositionsAssumption == Positions \subseteq Nat \ {0}
ASSUME TimesAssumption == StaleLimit \in Nat /\ KeepAlive \in Nat /\ MaxDrop \in Nat

VARIABLES
    line,       \* the GGA line in the channel's cache, or one made of RMC and GLL
    anchor,     \* _anchor with _anchor_payload
    age,        \* seconds since _anchor_at, up to StaleLimit + 1
    drops,      \* _drops_since_anchor, up to MaxDrop
    stopped,    \* jump_stopped
    sent,       \* _last_forwarded
    quiet,      \* seconds since _last_sent_at, up to KeepAlive
    out,        \* the last call of source has returned a line
    reported    \* the position in the last line returned, or 0

vars == <<line, anchor, age, drops, stopped, sent, quiet, out, reported>>
guard == <<anchor, age, drops, stopped>>

NoLine == [pos |-> 0, no |-> 0]
Payloads == [pos : Positions, no : Lines] \cup {NoLine}

Near(p, q) == p - q <= 1 /\ q - p <= 1

Init ==
    /\ line = NoLine
    /\ anchor = NoLine /\ age = 0 /\ drops = 0 /\ stopped = FALSE
    /\ sent = NoLine /\ quiet = KeepAlive /\ out = FALSE /\ reported = 0

-----------------------------------------------------------------------------
(* source.                                                                 *)

\* Slip: a line is repeated only when it is the module's.
GiveRepeated(p, force) ==
    IF force \/ p # sent \/ (quiet >= KeepAlive /\ p # line)
    THEN sent' = p /\ quiet' = 0 /\ out' = TRUE /\ reported' = p.pos
    ELSE out' = FALSE /\ UNCHANGED <<sent, quiet, reported>>

\* A line that is new, or was sent KeepAlive seconds ago, is returned.
Give(p, force) ==
    IF force \/ p # sent \/ quiet >= KeepAlive
    THEN sent' = p /\ quiet' = 0 /\ out' = TRUE /\ reported' = p.pos
    ELSE out' = FALSE /\ UNCHANGED <<sent, quiet, reported>>

\* No line; reset_rhythm has gone before a forced call.
Withhold(force) ==
    /\ out' = FALSE /\ UNCHANGED reported
    /\ IF force THEN sent' = NoLine /\ quiet' = KeepAlive ELSE UNCHANGED <<sent, quiet>>

-----------------------------------------------------------------------------
(* _guard.                                                                 *)

Stale == anchor # NoLine /\ age > StaleLimit
InPlace == line # NoLine /\ (anchor = NoLine \/ Near(line.pos, anchor.pos))

NoPosition(force) == line = NoLine /\ Withhold(force) /\ UNCHANGED guard

TooOld(force) == line # NoLine /\ Stale /\ Withhold(force) /\ UNCHANGED guard

Accept(force) ==
    /\ InPlace /\ ~Stale
    /\ anchor' = line /\ age' = 0 /\ drops' = 0 /\ stopped' = FALSE
    /\ Give(line, force)

\* Slip: after MaxDrop lines elsewhere the place is believed.
JumpBelieved(force) ==
    /\ line # NoLine /\ ~InPlace /\ ~Stale
    /\ drops' = IF drops < MaxDrop THEN drops + 1 ELSE drops
    /\ UNCHANGED stopped
    /\ IF drops' >= MaxDrop THEN anchor' = line /\ age' = 0 /\ Give(line, force)
       ELSE UNCHANGED <<anchor, age>> /\ Give(anchor, force)

\* A line too far away is dropped; the accepted one stands in for it until MaxDrop
\* were dropped.
Jump(force) ==
    /\ line # NoLine /\ ~InPlace /\ ~Stale
    /\ drops' = IF drops < MaxDrop THEN drops + 1 ELSE drops
    /\ UNCHANGED <<anchor, age>>
    /\ IF drops' >= MaxDrop THEN stopped' = TRUE /\ Withhold(force)
       ELSE UNCHANGED stopped /\ Give(anchor, force)

Source(force) ==
    /\ NoPosition(force) \/ TooOld(force) \/ Accept(force) \/ Jump(force)
    /\ UNCHANGED line

-----------------------------------------------------------------------------
(* The module, the client and time.                                        *)

\* The module sends a line, or has no position.
Output ==
    /\ line' \in {p \in Payloads : p.no \notin {line.no, anchor.no, sent.no}} \cup {NoLine}
    /\ UNCHANGED <<guard, sent, quiet, out, reported>>

Pump == Source(FALSE)
Reconnected == Source(TRUE)

Tick ==
    /\ quiet' = IF quiet < KeepAlive THEN quiet + 1 ELSE quiet
    /\ age' = IF anchor # NoLine /\ age <= StaleLimit THEN age + 1 ELSE age
    /\ UNCHANGED <<line, anchor, drops, stopped, sent, out, reported>>

Next == Output \/ Pump \/ Reconnected \/ Tick

\* The loop goes on, and time passes.
Spec == Init /\ [][Next]_vars /\ WF_vars(Pump) /\ WF_vars(Tick)

-----------------------------------------------------------------------------
(* Properties.                                                             *)

\* Types, and that every counter keeps within what it is compared with.
TypeOK ==
    /\ line \in Payloads /\ anchor \in Payloads /\ sent \in Payloads
    /\ age \in 0..(StaleLimit + 1) /\ drops \in 0..MaxDrop /\ quiet \in 0..KeepAlive
    /\ stopped \in BOOLEAN /\ out \in BOOLEAN /\ reported \in Positions \cup {0}

\* From one report to the next the position moves to a neighbour at most, whatever
\* the module sends and however often the client reconnects.
ReportsNeverJump ==
    [][reported' # reported => reported = 0 \/ Near(reported, reported')]_vars

\* Reports follow the module: one that stays elsewhere is not reported in its old
\* place for ever, and one that stays in place goes on being reported, as long as
\* no acceptance is older than StaleLimit.
ReportsFollow ==
    /\ <>[](line # NoLine /\ ~InPlace) => <>[]~out
    /\ ([](age <= StaleLimit) /\ <>[]InPlace) => []<>out

\* cors.py:764 and 1149: once the module is in place again, it is reported again.
ReportsResume == <>[]InPlace => []<>out
=============================================================================
