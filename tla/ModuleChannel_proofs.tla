------------------------ MODULE ModuleChannel_proofs ------------------------
(***************************************************************************)
(* Proofs about the two uses of the channel to the module, and about       *)
(* ModuleChannel, which puts them together: the reported positions, for    *)
(* all places, limits and rhythms, and the commands, for all values,       *)
(* retries and faults.                                                     *)
(***************************************************************************)
EXTENDS ModuleChannel, SequenceTheorems, TLAPS

-----------------------------------------------------------------------------
(* Reported positions.                                                     *)

\* A line that has a position is one of the module's.
LEMMA Payload ==
    ASSUME NEW p \in Payloads
    PROVE  /\ p.pos \in Positions \cup {0}
           /\ p # NoLine => p.pos \in Positions /\ p.pos # 0
  BY PositionsAssumption DEF Payloads, NoLine

\* Giving a line keeps the types of what it changes.
LEMMA GiveTyped ==
    ASSUME TypeOK, NEW p \in Payloads, NEW force \in BOOLEAN, Give(p, force)
    PROVE  /\ sent' \in Payloads /\ quiet' \in 0..KeepAlive /\ out' \in BOOLEAN
           /\ reported' \in Positions \cup {0}
  <1>1. CASE sent' = p /\ quiet' = 0 /\ out' = TRUE /\ reported' = p.pos
    BY <1>1, Payload, TimesAssumption
  <1>2. CASE out' = FALSE /\ UNCHANGED <<sent, quiet, reported>>
    BY <1>2 DEF TypeOK
  <1> QED
    BY <1>1, <1>2 DEF Give

\* So does withholding one.
LEMMA WithholdTyped ==
    ASSUME TypeOK, NEW force \in BOOLEAN, Withhold(force)
    PROVE  /\ sent' \in Payloads /\ quiet' \in 0..KeepAlive /\ out' \in BOOLEAN
           /\ reported' \in Positions \cup {0}
  <1>1. NoLine \in Payloads /\ KeepAlive \in 0..KeepAlive
    BY TimesAssumption DEF Payloads
  <1> QED
    BY <1>1 DEF TypeOK, Withhold

\* The manager begins well typed.
LEMMA TypeInit == Init => TypeOK
  <1>1. NoLine \in Payloads
    BY DEF Payloads
  <1>2. 0 \in 0..(StaleLimit + 1) /\ 0 \in 0..MaxDrop /\ KeepAlive \in 0..KeepAlive
    BY TimesAssumption
  <1> QED
    BY <1>1, <1>2 DEF Init, TypeOK

\* A call of source keeps the types.
LEMMA SourceTyped ==
    ASSUME TypeOK, NEW force \in BOOLEAN, Source(force)
    PROVE  TypeOK'
  <1>1. /\ line \in Payloads /\ anchor \in Payloads /\ line' = line
        /\ age \in 0..(StaleLimit + 1) /\ drops \in 0..MaxDrop /\ stopped \in BOOLEAN
    BY DEF TypeOK, Source
  <1>2. CASE NoPosition(force) \/ TooOld(force)
    BY <1>1, <1>2, WithholdTyped DEF NoPosition, TooOld, guard, TypeOK
  <1>3. CASE Accept(force)
    <2>1. 0 \in 0..(StaleLimit + 1) /\ 0 \in 0..MaxDrop
      BY TimesAssumption
    <2> QED
      BY <1>1, <1>3, <2>1, GiveTyped DEF Accept, TypeOK
  <1>4. CASE Jump(force)
    <2>1. drops' \in 0..MaxDrop
      BY <1>1, <1>4, TimesAssumption DEF Jump
    <2>2. CASE stopped' = TRUE /\ Withhold(force)
      BY <1>1, <1>4, <2>1, <2>2, WithholdTyped DEF Jump, TypeOK
    <2>3. CASE UNCHANGED stopped /\ Give(anchor, force)
      BY <1>1, <1>4, <2>1, <2>3, GiveTyped DEF Jump, TypeOK
    <2> QED
      BY <1>4, <2>2, <2>3 DEF Jump
  <1> QED
    BY <1>2, <1>3, <1>4 DEF Source

\* Every step keeps the types.
LEMMA TypeNext == TypeOK /\ [Next]_vars => TypeOK'
  <1> SUFFICES ASSUME TypeOK, [Next]_vars PROVE TypeOK'
    OBVIOUS
  <1>1. CASE Output
    <2>1. line' \in Payloads
      BY <1>1 DEF Output, Payloads
    <2> QED
      BY <1>1, <2>1 DEF Output, TypeOK, guard
  <1>2. CASE Pump \/ Reconnected
    BY <1>2, SourceTyped DEF Pump, Reconnected
  <1>3. CASE Tick
    <2>1. quiet' \in 0..KeepAlive /\ age' \in 0..(StaleLimit + 1)
      BY <1>3, TimesAssumption DEF Tick, TypeOK
    <2> QED
      BY <1>3, <2>1 DEF Tick, TypeOK
  <1>4. CASE UNCHANGED vars
    BY <1>4 DEF vars, TypeOK
  <1> QED
    BY <1>1, <1>2, <1>3, <1>4 DEF Next

\* Types hold for ever, and no counter goes beyond its limit.
LEMMA Typed == Init /\ [][Next]_vars => []TypeOK
  BY TypeInit, TypeNext, PTL

THEOREM TypeCorrect == Spec => []TypeOK
  BY Typed, PTL DEF Spec

-----------------------------------------------------------------------------
(* Reports do not jump.                                                    *)

\* What was reported last is the accepted line's position, and that of the line
\* the rhythm remembers.
ReportInv ==
    /\ anchor # NoLine => reported = anchor.pos
    /\ sent # NoLine => reported = sent.pos
    /\ anchor = NoLine => reported = 0 /\ sent = NoLine

\* A line that is given is reported, now or because it was the last one.
LEMMA GiveReports ==
    ASSUME ReportInv, NEW p \in Payloads, p # NoLine, NEW force \in BOOLEAN, Give(p, force)
    PROVE  reported' = p.pos /\ sent' = p
  BY DEF Give, ReportInv

\* Withholding reports nothing.
LEMMA WithholdKeeps ==
    ASSUME ReportInv, NEW force \in BOOLEAN, Withhold(force), UNCHANGED guard
    PROVE  ReportInv' /\ reported' = reported
  BY DEF Withhold, ReportInv, guard

\* A call of source reports the place it has accepted, which is near the last one.
LEMMA SourceReports ==
    ASSUME TypeOK, ReportInv, NEW force \in BOOLEAN, Source(force)
    PROVE  /\ ReportInv'
           /\ reported' # reported => reported = 0 \/ Near(reported, reported')
  <1>1. line \in Payloads /\ anchor \in Payloads
    BY DEF TypeOK
  <1>2. CASE NoPosition(force) \/ TooOld(force)
    BY <1>2, WithholdKeeps DEF NoPosition, TooOld
  <1>3. CASE Accept(force)
    <2>1. line # NoLine /\ anchor' = line /\ Give(line, force)
      BY <1>3 DEF Accept, InPlace
    <2>2. reported' = line.pos /\ sent' = line
      BY <1>1, <2>1, GiveReports
    <2>3. anchor = NoLine \/ Near(line.pos, anchor.pos)
      BY <1>3 DEF Accept, InPlace
    <2>4. reported = 0 \/ Near(reported, reported')
      <3>1. CASE anchor = NoLine
        BY <3>1 DEF ReportInv
      <3>2. CASE anchor # NoLine
        <4>1. reported = anchor.pos /\ Near(line.pos, anchor.pos)
          BY <2>3, <3>2 DEF ReportInv
        <4>2. line.pos \in Nat /\ anchor.pos \in Nat
          <5>1. line.pos \in Positions \cup {0} /\ anchor.pos \in Positions \cup {0}
            BY <1>1, Payload
          <5>2. \A p \in Positions \cup {0} : p \in Nat
            BY PositionsAssumption
          <5> QED
            BY <5>1, <5>2, Zenon
        <4> QED
          BY <2>2, <4>1, <4>2 DEF Near
      <3> QED
        BY <3>1, <3>2
    <2> QED
      BY <2>1, <2>2, <2>4 DEF ReportInv
  <1>4. CASE Jump(force)
    <2>1. anchor # NoLine /\ anchor' = anchor
      BY <1>4 DEF Jump, InPlace
    <2>2. CASE Withhold(force)
      BY <2>1, <2>2 DEF Withhold, ReportInv
    <2>3. CASE Give(anchor, force)
      BY <1>1, <2>1, <2>3, GiveReports DEF ReportInv
    <2> QED
      BY <1>4, <2>2, <2>3 DEF Jump
  <1> QED
    BY <1>2, <1>3, <1>4 DEF Source

\* So does every step.
LEMMA ReportNext ==
    TypeOK /\ ReportInv /\ [Next]_vars
      => ReportInv' /\ (reported' # reported => reported = 0 \/ Near(reported, reported'))
  <1> SUFFICES ASSUME TypeOK, ReportInv, [Next]_vars
               PROVE  /\ ReportInv'
                      /\ reported' # reported => reported = 0 \/ Near(reported, reported')
    OBVIOUS
  <1>1. CASE Output
    BY <1>1 DEF Output, ReportInv, guard
  <1>2. CASE Pump \/ Reconnected
    BY <1>2, SourceReports DEF Pump, Reconnected
  <1>3. CASE Tick
    BY <1>3 DEF Tick, ReportInv
  <1>4. CASE UNCHANGED vars
    BY <1>4 DEF vars, ReportInv
  <1> QED
    BY <1>1, <1>2, <1>3, <1>4 DEF Next

\* So do two reports, one after the other.
LEMMA NeverJumping == Init /\ [][Next]_vars => ReportsNeverJump
  <1>1. Init => ReportInv
    BY DEF Init, ReportInv
  <1>2. Init /\ [][Next]_vars => [](TypeOK /\ ReportInv)
    BY <1>1, TypeInit, TypeNext, ReportNext, PTL
  <1>3. TypeOK /\ ReportInv /\ [Next]_vars
          => [reported' # reported => reported = 0 \/ Near(reported, reported')]_vars
    BY ReportNext
  <1> QED
    BY <1>2, <1>3, PTL DEF ReportsNeverJump

\* Reports never jump, for every limit and every series of lines and reconnections.
THEOREM NeverJump == Spec => ReportsNeverJump
  BY NeverJumping, PTL DEF Spec

-----------------------------------------------------------------------------
(* Commands.                                                               *)

\* What is sent, and what the module can answer.
Commands ==
    {c \in [what : Sending, value : Values \cup {0}] : c.what = "apply" => c.value \in Values}
Names == {"setting", "save", "other"}
WireLines ==
    [name : Names, kind : {"ok", "error", "value"}, value : Values \cup {0}]
        \cup {Echo(c) : c \in Commands}

\* Types; and the worker waits for an answer to what it has sent, and restarts the
\* module in the first round only.
ChannelTypeOK ==
    /\ setting \in Values /\ stored \in Values /\ wanted \in Values
    /\ inbox \in Seq(Commands) /\ wire \in Seq(WireLines)
    /\ persist \in BOOLEAN /\ again \in BOOLEAN /\ waiting \in BOOLEAN
    /\ late \in BOOLEAN /\ faulty \in BOOLEAN
    /\ step \in Steps
    /\ attempt \in 0..Retries /\ sets \in 0..MaxSets /\ faults \in 0..MaxFaults
    /\ waiting => step \in Sending
    /\ step = "restart" => ~again

\* Lines nobody has asked for, lines that do not end the wait, and those that answer
\* what was sent.
OtherLines == {l \in WireLines : l.name = "other"}
PassedLines == {l \in WireLines : l.name = "other" \/ l = Echo(Body)}
AnswerLines ==
    {l \in WireLines :
        /\ l.name = Name(step)
        /\ l.kind = "value" => l.value = setting
        /\ ~faulty => l.kind = IF step = "check" THEN "value" ELSE "ok"}

\* Lines of a set; and lines that are passed over but for one answer, with nothing
\* but what nobody has asked for behind it.
AllIn(w, lines) == \A i \in 1..Len(w) : w[i] \in lines
OneAnswer(w, passed, answers) ==
    \A i \in 1..Len(w) :
        \/ w[i] \in passed
        \/ w[i] \in answers /\ \A j \in 1..Len(w) : i < j => w[j] \in OtherLines

\* As long as no answer was late, the module has at most the command that is
\* waited for, at most one answer is on its way, and between two commands there
\* is none.
Orderly ==
    ~late =>
        /\ inbox # <<>> => waiting /\ inbox = <<Body>> /\ AllIn(wire, PassedLines)
        /\ OneAnswer(wire, PassedLines, AnswerLines)
        /\ ~waiting => AllIn(wire, OtherLines)
        /\ step = "done" => setting = wanted

\* As long as nothing has gone wrong, what was applied a second time is in the
\* module when it is read back.
Faultless ==
    /\ late => faulty
    /\ ~faulty =>
        /\ step # "failed"
        /\ again /\ step \in {"save", "check"} => setting = wanted
        /\ step = "apply" /\ waiting /\ inbox = <<>> => setting = wanted

\* What Append and Tail do to the lines.
LEMMA Appended ==
    ASSUME NEW S, NEW s \in Seq(S), NEW e \in S
    PROVE  /\ Append(s, e) \in Seq(S) /\ Len(Append(s, e)) = Len(s) + 1 /\ Len(s) \in Nat
           /\ \A i \in 1..Len(s) : Append(s, e)[i] = s[i]
           /\ Append(s, e)[Len(s) + 1] = e
           /\ Append(s, e) # <<>>
  OBVIOUS

LEMMA TailOf ==
    ASSUME NEW S, NEW s \in Seq(S), s # <<>>
    PROVE  /\ Head(s) \in S /\ Head(s) = s[1] /\ Tail(s) \in Seq(S)
           /\ Len(s) \in Nat /\ Len(s) > 0 /\ Len(Tail(s)) = Len(s) - 1
           /\ \A i \in 1..Len(Tail(s)) : Tail(s)[i] = s[i + 1]
  OBVIOUS

LEMMA Single ==
    ASSUME NEW e
    PROVE  Head(<<e>>) = e /\ Tail(<<e>>) = <<>> /\ Append(<<>>, e) = <<e>> /\ <<e>> # <<>>
  OBVIOUS

\* A line behind the others: the others stay where they are.
LEMMA AppendKeeps ==
    ASSUME NEW w \in Seq(WireLines), NEW e \in WireLines, NEW passed, NEW answers
    PROVE  /\ AllIn(w, passed) /\ e \in passed => AllIn(Append(w, e), passed)
           /\ AllIn(w, passed) /\ e \in answers => OneAnswer(Append(w, e), passed, answers)
           /\ OneAnswer(w, passed, answers) /\ e \in OtherLines /\ e \in passed
                => OneAnswer(Append(w, e), passed, answers)
  <1> DEFINE a == Append(w, e)
  <1>1. /\ Len(a) = Len(w) + 1 /\ Len(w) \in Nat
        /\ \A i \in 1..Len(w) : a[i] = w[i]
        /\ a[Len(w) + 1] = e
    BY Appended
  <1> HIDE DEF a
  <1>2. \A i \in 1..Len(a) : (i \in 1..Len(w) /\ a[i] = w[i]) \/ (i = Len(w) + 1 /\ a[i] = e)
    BY <1>1
  <1>3. AllIn(w, passed) /\ e \in passed => AllIn(a, passed)
    BY <1>2 DEF AllIn
  <1>4. ASSUME AllIn(w, passed), e \in answers PROVE OneAnswer(a, passed, answers)
    <2> SUFFICES ASSUME NEW i \in 1..Len(a)
                 PROVE  \/ a[i] \in passed
                        \/ a[i] \in answers /\ \A j \in 1..Len(a) : i < j => a[j] \in OtherLines
      BY DEF OneAnswer
    <2>1. CASE i \in 1..Len(w) /\ a[i] = w[i]
      BY <1>4, <2>1 DEF AllIn
    <2>2. CASE i = Len(w) + 1 /\ a[i] = e
      BY <1>1, <1>4, <2>2
    <2> QED
      BY <1>2, <2>1, <2>2
  <1>5. ASSUME OneAnswer(w, passed, answers), e \in OtherLines, e \in passed
        PROVE  OneAnswer(a, passed, answers)
    <2> SUFFICES ASSUME NEW i \in 1..Len(a)
                 PROVE  \/ a[i] \in passed
                        \/ a[i] \in answers /\ \A j \in 1..Len(a) : i < j => a[j] \in OtherLines
      BY DEF OneAnswer
    <2>1. CASE i \in 1..Len(w) /\ a[i] = w[i]
      <3>1. CASE w[i] \in passed
        BY <2>1, <3>1
      <3>2. CASE w[i] \in answers /\ \A j \in 1..Len(w) : i < j => w[j] \in OtherLines
        BY <1>2, <1>5, <2>1, <3>2
      <3> QED
        BY <1>5, <2>1, <3>1, <3>2 DEF OneAnswer
    <2>2. CASE i = Len(w) + 1 /\ a[i] = e
      BY <1>5, <2>2
    <2> QED
      BY <1>2, <2>1, <2>2
  <1> QED
    BY <1>3, <1>4, <1>5 DEF a

\* A line less: behind one that answers is nothing but lines nobody has asked for.
LEMMA TailKeeps ==
    ASSUME NEW w \in Seq(WireLines), w # <<>>, NEW passed, NEW answers
    PROVE  /\ AllIn(w, passed) => AllIn(Tail(w), passed) /\ Head(w) \in passed
           /\ OneAnswer(w, passed, answers) => OneAnswer(Tail(w), passed, answers)
           /\ OneAnswer(w, passed, answers) /\ Head(w) \notin passed
                => Head(w) \in answers /\ AllIn(Tail(w), OtherLines)
  <1> DEFINE t == Tail(w)
  <1>1. /\ Head(w) = w[1] /\ Len(w) \in Nat /\ Len(w) > 0 /\ Len(t) = Len(w) - 1
        /\ \A i \in 1..Len(t) : t[i] = w[i + 1]
    BY TailOf
  <1> HIDE DEF t
  <1>2. \A i \in 1..Len(t) : i + 1 \in 1..Len(w) /\ t[i] = w[i + 1]
    BY <1>1
  <1>3. 1 \in 1..Len(w)
    BY <1>1
  <1>4. AllIn(w, passed) => AllIn(t, passed) /\ Head(w) \in passed
    BY <1>1, <1>2, <1>3 DEF AllIn
  <1>5. ASSUME OneAnswer(w, passed, answers) PROVE OneAnswer(t, passed, answers)
    <2> SUFFICES ASSUME NEW i \in 1..Len(t)
                 PROVE  \/ t[i] \in passed
                        \/ t[i] \in answers /\ \A j \in 1..Len(t) : i < j => t[j] \in OtherLines
      BY DEF OneAnswer
    <2>1. i + 1 \in 1..Len(w) /\ t[i] = w[i + 1]
      BY <1>2
    <2>2. \A j \in 1..Len(t) : i < j => j + 1 \in 1..Len(w) /\ i + 1 < j + 1 /\ t[j] = w[j + 1]
      BY <1>2
    <2> QED
      BY <1>5, <2>1, <2>2 DEF OneAnswer
  <1>6. ASSUME OneAnswer(w, passed, answers), Head(w) \notin passed
        PROVE  Head(w) \in answers /\ AllIn(t, OtherLines)
    <2>1. w[1] \in answers /\ \A j \in 1..Len(w) : 1 < j => w[j] \in OtherLines
      BY <1>1, <1>3, <1>6 DEF OneAnswer
    <2>2. \A i \in 1..Len(t) : i + 1 \in 1..Len(w) /\ 1 < i + 1
      BY <1>2
    <2> QED
      BY <1>1, <1>2, <2>1, <2>2 DEF AllIn
  <1> QED
    BY <1>4, <1>5, <1>6 DEF t

\* Fewer lines are in a smaller set, and none is an answer where all are passed over.
LEMMA Weaker ==
    ASSUME NEW w, NEW passed, NEW answers
    PROVE  /\ AllIn(w, OtherLines) /\ OtherLines \subseteq passed => AllIn(w, passed)
           /\ AllIn(w, passed) => OneAnswer(w, passed, answers)
  BY DEF AllIn, OneAnswer

\* What nobody has asked for is passed over.
LEMMA OthersPass == OtherLines \subseteq PassedLines
  BY DEF OtherLines, PassedLines

\* An empty wire.
LEMMA NoLines ==
    ASSUME NEW passed, NEW answers
    PROVE  AllIn(<<>>, passed) /\ OneAnswer(<<>>, passed, answers)
  BY DEF AllIn, OneAnswer

\* The channel begins well typed, orderly and with nothing gone wrong.
LEMMA ChannelInitInv == ChannelInit => ChannelTypeOK /\ Orderly /\ Faultless
  <1> SUFFICES ASSUME ChannelInit PROVE ChannelTypeOK /\ Orderly /\ Faultless
    OBVIOUS
  <1>1. <<>> \in Seq(Commands) /\ <<>> \in Seq(WireLines)
    OBVIOUS
  <1>2. 0 \in 0..Retries /\ 0 \in 0..MaxSets /\ 0 \in 0..MaxFaults
    BY SendAssumption
  <1>4. ChannelTypeOK
    BY <1>1, <1>2 DEF ChannelInit, ChannelTypeOK, Steps, Sending
  <1>3. Orderly
    BY NoLines DEF ChannelInit, Orderly
  <1> QED
    BY <1>3, <1>4 DEF Faultless, ChannelInit

\* What is sent is a command.
LEMMA BodyIsCommand ==
    ASSUME ChannelTypeOK, step \in Sending
    PROVE  Body \in Commands
  BY DEF ChannelTypeOK, Body, Commands

\* The command that is due at the module's end of the channel.
LEMMA NextCommand ==
    ASSUME ChannelTypeOK, inbox # <<>>
    PROVE  Head(inbox) \in Commands /\ Tail(inbox) \in Seq(Commands)
  BY TailOf DEF ChannelTypeOK

\* A fault is counted.
LEMMA FaultTyped ==
    ASSUME ChannelTypeOK, Fault
    PROVE  faults' \in 0..MaxFaults /\ faulty' = TRUE
  BY SendAssumption DEF ChannelTypeOK, Fault

\* A line of a name, an end and a value is one the module can send.
LEMMA LineTyped ==
    ASSUME NEW n \in Names, NEW k \in {"ok", "error", "value"}, NEW v \in Values \cup {0}
    PROVE  Line(n, k, v) \in WireLines
  BY DEF Line, WireLines

\* A line behind the others is well typed.
LEMMA WireTyped ==
    ASSUME ChannelTypeOK, NEW e \in WireLines
    PROVE  Append(wire, e) \in Seq(WireLines)
  BY Appended DEF ChannelTypeOK

\* Name gives a command one of the names.
LEMMA NameTyped ==
    ASSUME NEW s
    PROVE  Name(s) \in Names /\ Name(s) # "other"
  BY DEF Name, Names

\* What a command executed does keeps the types.
LEMMA DoneTyped ==
    ASSUME ChannelTypeOK, NEW c \in Commands, Done(c)
    PROVE  setting' \in Values /\ stored' \in Values /\ wire' \in Seq(WireLines)
  <1>1. /\ c.what \in Sending /\ setting \in Values /\ stored \in Values
        /\ c.what = "apply" => c.value \in Values
    BY DEF ChannelTypeOK, Commands
  <1>2. CASE c.what = "apply"
    <2>1. setting' = c.value /\ UNCHANGED stored /\ wire' = Append(wire, Line("setting", "ok", 0))
      BY <1>2 DEF Done
    <2> QED
      BY <1>1, <1>2, <2>1, LineTyped, WireTyped DEF Names
  <1>3. CASE c.what = "save"
    <2>1. stored' = setting /\ UNCHANGED setting /\ wire' = Append(wire, Line("save", "ok", 0))
      BY <1>3 DEF Done
    <2> QED
      BY <1>1, <2>1, LineTyped, WireTyped DEF Names
  <1>4. CASE c.what = "check"
    <2>1. UNCHANGED module /\ wire' = Append(wire, Line("setting", "value", setting))
      BY <1>4 DEF Done
    <2> QED
      BY <1>1, <2>1, LineTyped, WireTyped DEF Names, module
  <1> QED
    BY <1>1, <1>2, <1>3, <1>4 DEF Sending

\* Nothing the driver keeps is changed.
LEMMA DriverKept ==
    ASSUME ChannelTypeOK, UNCHANGED driver, UNCHANGED sets, UNCHANGED late,
           faults' \in 0..MaxFaults, faulty' \in BOOLEAN, 
           setting' \in Values, stored' \in Values, inbox' \in Seq(Commands), wire' \in Seq(WireLines)
    PROVE  ChannelTypeOK'
  BY DEF ChannelTypeOK, driver

\* The module executes a command.
LEMMA ExecuteTyped == ChannelTypeOK /\ Execute => ChannelTypeOK'
  <1> SUFFICES ASSUME ChannelTypeOK, Execute PROVE ChannelTypeOK'
    OBVIOUS
  <1>1. Head(inbox) \in Commands /\ inbox' \in Seq(Commands) /\ Done(Head(inbox))
    BY NextCommand DEF Execute
  <1>2. UNCHANGED <<driver, sets, late, faults, faulty>>
    BY DEF Execute, Sound
  <1> QED
    BY <1>1, <1>2, DoneTyped, DriverKept DEF ChannelTypeOK

\* It repeats one.
LEMMA EchoTyped == ChannelTypeOK /\ EchoFirst => ChannelTypeOK'
  <1> SUFFICES ASSUME ChannelTypeOK, EchoFirst PROVE ChannelTypeOK'
    OBVIOUS
  <1>1. Head(inbox) \in Commands
    BY NextCommand DEF EchoFirst
  <1>2. Echo(Head(inbox)) \in WireLines
    BY <1>1 DEF WireLines
  <1>3. wire' \in Seq(WireLines)
    BY <1>2, WireTyped DEF EchoFirst
  <1> QED
    BY <1>3, DriverKept DEF EchoFirst, history, module, ChannelTypeOK

\* It refuses one, or loses it, or its answer.
LEMMA MisbehaveTyped == ChannelTypeOK /\ Misbehave => ChannelTypeOK'
  <1> SUFFICES ASSUME ChannelTypeOK, Misbehave PROVE ChannelTypeOK'
    OBVIOUS
  <1> DEFINE c == Head(inbox)
  <1>1. c \in Commands /\ inbox' \in Seq(Commands)
    BY NextCommand DEF Misbehave
  <1>2. /\ c.what = "apply" => c.value \in Values
        /\ setting \in Values /\ stored \in Values /\ wire \in Seq(WireLines)
    BY <1>1 DEF Commands, ChannelTypeOK
  <1>3. faults' \in 0..MaxFaults /\ faulty' = TRUE
    BY FaultTyped DEF Misbehave
  <1>4. /\ Append(wire, Line(Name(c.what), "error", 0)) \in Seq(WireLines)
        /\ Append(wire, Line(Name(c.what), "ok", 0)) \in Seq(WireLines)
    BY NameTyped, LineTyped, WireTyped
  <1>5. setting' \in Values /\ stored' \in Values /\ wire' \in Seq(WireLines)
    BY <1>2, <1>4 DEF Misbehave, module
  <1> QED
    BY <1>1, <1>3, <1>5, DriverKept DEF Misbehave

\* It sends what nobody has asked for.
LEMMA UnaskedTyped == ChannelTypeOK /\ Unasked => ChannelTypeOK'
  <1> SUFFICES ASSUME ChannelTypeOK, Unasked PROVE ChannelTypeOK'
    OBVIOUS
  <1>1. wire' \in Seq(WireLines)
    BY LineTyped, WireTyped DEF Unasked, Names
  <1> QED
    BY <1>1, DriverKept DEF Unasked, history, module, ChannelTypeOK

\* send writes.
LEMMA WriteTyped == ChannelTypeOK /\ Write => ChannelTypeOK'
  <1> SUFFICES ASSUME ChannelTypeOK, Write PROVE ChannelTypeOK'
    OBVIOUS
  <1>1. inbox' \in Seq(Commands)
    BY BodyIsCommand, Appended DEF Write, ChannelTypeOK
  <1> QED
    BY <1>1 DEF Write, ChannelTypeOK, history, module

\* What is due after a send is a step, and a restart only in the first round.
LEMMA GoesTyped ==
    ASSUME ChannelTypeOK, step \in Sending, UNCHANGED <<module, inbox, sets, faults>>,
           wire' \in Seq(WireLines), late' \in BOOLEAN, faulty' \in BOOLEAN,
           NEW l, Goes(Answered(l)) \/ Goes(Unanswered)
    PROVE  ChannelTypeOK'
  <1>1. step' \in Steps /\ (step' = "restart" => ~again')
    BY DEF Goes, Answered, Unanswered, Sending, Steps, ChannelTypeOK
  <1>2. attempt' \in 0..Retries
    BY SendAssumption DEF Goes
  <1>3. again' \in BOOLEAN
    BY Zenon DEF Goes
  <1> QED
    BY <1>1, <1>2, <1>3 DEF Goes, ChannelTypeOK, module

\* send reads a line.
LEMMA ReadTyped == ChannelTypeOK /\ ReadLine => ChannelTypeOK'
  <1> SUFFICES ASSUME ChannelTypeOK, ReadLine PROVE ChannelTypeOK'
    OBVIOUS
  <1> DEFINE l == Head(wire)
  <1>1. step \in Sending /\ wire' \in Seq(WireLines)
    BY TailOf DEF ReadLine, ChannelTypeOK
  <1>2. UNCHANGED <<module, inbox, history>> /\ (UNCHANGED driver \/ Goes(Answered(l)) \/ Goes(Unanswered))
    BY DEF ReadLine, Classify
  <1>3. CASE UNCHANGED driver
    BY <1>1, <1>2, <1>3 DEF ChannelTypeOK, driver, history, module
  <1>4. CASE Goes(Answered(l)) \/ Goes(Unanswered)
    BY <1>1, <1>2, <1>4, GoesTyped DEF ChannelTypeOK, history
  <1> QED
    BY <1>2, <1>3, <1>4

\* An attempt times out.
LEMMA TimeOutTyped == ChannelTypeOK /\ TimeOut => ChannelTypeOK'
  <1> SUFFICES ASSUME ChannelTypeOK, TimeOut PROVE ChannelTypeOK'
    OBVIOUS
  <1>1. CASE attempt < Retries
    <2>1. attempt' \in 0..Retries
      BY <1>1, SendAssumption DEF TimeOut, ChannelTypeOK
    <2> QED
      BY <1>1, <2>1 DEF TimeOut, ChannelTypeOK, module, traffic
  <1>2. CASE ~(attempt < Retries)
    BY <1>2, GoesTyped DEF TimeOut, ChannelTypeOK, traffic
  <1> QED
    BY <1>1, <1>2

\* A setting is asked for, and the module restarted.
LEMMA DriverTyped == ChannelTypeOK /\ Driver => ChannelTypeOK'
  <1> SUFFICES ASSUME ChannelTypeOK, Driver PROVE ChannelTypeOK'
    OBVIOUS
  <1>1. ASSUME NEW v \in Values, NEW saving \in BOOLEAN, Set(v, saving) PROVE ChannelTypeOK'
    <2>1. sets' \in 0..MaxSets /\ attempt' \in 0..Retries
      BY <1>1, SendAssumption DEF Set, ChannelTypeOK
    <2> QED
      BY <1>1, <2>1 DEF Set, ChannelTypeOK, Steps, Sending, module, traffic
  <1>2. CASE Restart
    <2>1. <<>> \in Seq(Commands) /\ <<>> \in Seq(WireLines)
      OBVIOUS
    <2>2. faults' \in 0..MaxFaults /\ faulty' \in BOOLEAN
      BY <1>2, FaultTyped DEF Restart, ChannelTypeOK
    <2>3. /\ setting' \in Values /\ inbox' \in Seq(Commands) /\ wire' \in Seq(WireLines)
          /\ late' \in BOOLEAN /\ step' \in Steps
          /\ step' # "restart"
          /\ ~waiting
      BY <1>2, <2>1 DEF Restart, ChannelTypeOK, Steps, Sending
    <2> QED
      BY <1>2, <2>2, <2>3 DEF Restart, ChannelTypeOK
  <1> QED
    BY <1>1, <1>2 DEF Driver

\* Every step keeps the types.
LEMMA ChannelTypeNext == ChannelTypeOK /\ [ChannelNext]_channelVars => ChannelTypeOK'
  <1>1. ChannelTypeOK /\ UNCHANGED channelVars => ChannelTypeOK'
    BY DEF ChannelTypeOK, channelVars, module, traffic, driver, history
  <1> QED
    BY <1>1, ExecuteTyped, EchoTyped, MisbehaveTyped, UnaskedTyped, WriteTyped, ReadTyped,
       TimeOutTyped, DriverTyped DEF ChannelNext, Module

-----------------------------------------------------------------------------
(* What is reported as read back is there.                                 *)

\* A step that leaves alone what is sent leaves alone which lines are passed over.
LEMMA PassedKept ==
    ASSUME UNCHANGED driver
    PROVE  Body' = Body /\ PassedLines' = PassedLines
  <1>1. Body' = Body
    BY DEF driver, Body
  <1> QED
    BY <1>1 DEF PassedLines, Echo, Line, Name

\* The module executes the command that is waited for: an answer goes behind lines
\* that are passed over.
LEMMA ExecuteOrderly == ChannelTypeOK /\ Orderly /\ Execute => Orderly'
  <1> SUFFICES ASSUME ChannelTypeOK, Orderly, Execute, ~late PROVE Orderly'
    BY DEF Execute, Orderly
  <1>1. waiting /\ inbox = <<Body>> /\ AllIn(wire, PassedLines) /\ UNCHANGED driver
    BY DEF Orderly, Execute
  <1>2. Done(Body) /\ inbox' = <<>>
    BY <1>1, Single DEF Execute
  <1>3. step \in Sending /\ wire \in Seq(WireLines) /\ UNCHANGED <<waiting, step>>
    BY <1>1 DEF ChannelTypeOK, driver
  <1>4. PICK e \in WireLines : wire' = Append(wire, e) /\ e \in AnswerLines'
    <2>1. CASE step = "apply"
      <3>1. wire' = Append(wire, Line("setting", "ok", 0))
        BY <1>2, <2>1 DEF Done, Body
      <3>2. Line("setting", "ok", 0) \in WireLines
        BY LineTyped DEF Names
      <3>3. Line("setting", "ok", 0) \in AnswerLines'
        BY <1>3, <2>1, <3>2 DEF AnswerLines, Line, Name
      <3> QED
        BY <3>1, <3>2, <3>3
    <2>2. CASE step = "save"
      <3>1. wire' = Append(wire, Line("save", "ok", 0))
        BY <1>2, <2>2 DEF Done, Body
      <3>2. Line("save", "ok", 0) \in WireLines
        BY LineTyped DEF Names
      <3>3. Line("save", "ok", 0) \in AnswerLines'
        BY <1>3, <2>2, <3>2 DEF AnswerLines, Line, Name
      <3> QED
        BY <3>1, <3>2, <3>3
    <2>3. CASE step = "check"
      <3>1. wire' = Append(wire, Line("setting", "value", setting)) /\ setting' = setting
        BY <1>2, <2>3 DEF Done, Body, module
      <3>2. Line("setting", "value", setting) \in WireLines
        BY LineTyped DEF Names, ChannelTypeOK
      <3>3. Line("setting", "value", setting) \in AnswerLines'
        BY <1>3, <2>3, <3>1, <3>2 DEF AnswerLines, Line, Name
      <3> QED
        BY <3>1, <3>2, <3>3
    <2> QED
      BY <1>3, <2>1, <2>2, <2>3 DEF Sending
  <1>5. OneAnswer(wire, PassedLines, AnswerLines)'
    BY <1>1, <1>3, <1>4, PassedKept, AppendKeeps
  <1> QED
    BY <1>1, <1>2, <1>3, <1>5 DEF Orderly, Sending

\* It repeats it.
LEMMA EchoOrderly == ChannelTypeOK /\ Orderly /\ EchoFirst => Orderly'
  <1> SUFFICES ASSUME ChannelTypeOK, Orderly, EchoFirst, ~late PROVE Orderly'
    BY DEF EchoFirst, Orderly, history
  <1>1. /\ waiting /\ inbox = <<Body>> /\ AllIn(wire, PassedLines)
        /\ UNCHANGED <<module, inbox, driver, history>>
    BY DEF Orderly, EchoFirst
  <1>2. wire' = Append(wire, Echo(Body)) /\ wire \in Seq(WireLines)
    BY <1>1, Single DEF EchoFirst, ChannelTypeOK
  <1>3. step \in Sending /\ UNCHANGED <<waiting, step>>
    BY <1>1 DEF ChannelTypeOK, driver
  <1>4. Echo(Body) \in WireLines
    BY <1>3, BodyIsCommand DEF WireLines
  <1>5. Echo(Body) \in PassedLines
    BY <1>4 DEF PassedLines
  <1>6. AllIn(wire, PassedLines)'
    BY <1>1, <1>2, <1>4, <1>5, PassedKept, AppendKeeps
  <1> QED
    BY <1>1, <1>3, <1>6, PassedKept, Weaker DEF Orderly, Sending

\* It fails the command: its answer, if any, goes behind lines that are passed over.
LEMMA MisbehaveOrderly == ChannelTypeOK /\ Orderly /\ Misbehave => Orderly'
  <1> SUFFICES ASSUME ChannelTypeOK, Orderly, Misbehave, ~late PROVE Orderly'
    BY DEF Misbehave, Orderly
  <1>1. /\ waiting /\ inbox = <<Body>> /\ AllIn(wire, PassedLines) /\ UNCHANGED driver
    BY DEF Orderly, Misbehave
  <1>2. inbox' = <<>> /\ Head(inbox) = Body /\ Body.what = step /\ faulty' = TRUE
    BY <1>1, Single DEF Misbehave, Fault, Body
  <1>3. step \in Sending /\ wire \in Seq(WireLines) /\ UNCHANGED <<waiting, step>>
    BY <1>1 DEF ChannelTypeOK, driver
  <1>4. ASSUME NEW k \in {"error", "ok"}, wire' = Append(wire, Line(Name(step), k, 0))
        PROVE  OneAnswer(wire, PassedLines, AnswerLines)'
    <2>1. Line(Name(step), k, 0) \in WireLines
      BY NameTyped, LineTyped
    <2>2. Line(Name(step), k, 0) \in AnswerLines'
      BY <1>2, <1>3, <2>1 DEF AnswerLines, Line, Name
    <2> QED
      BY <1>1, <1>3, <1>4, <2>1, <2>2, PassedKept, AppendKeeps
  <1>5. ASSUME wire' = wire PROVE OneAnswer(wire, PassedLines, AnswerLines)'
    BY <1>1, <1>5, PassedKept, Weaker
  <1>6. OneAnswer(wire, PassedLines, AnswerLines)'
    BY <1>2, <1>4, <1>5 DEF Misbehave
  <1> QED
    BY <1>1, <1>2, <1>3, <1>6 DEF Orderly, Sending

\* A line nobody has asked for is passed over, wherever it comes.
LEMMA UnaskedOrderly == ChannelTypeOK /\ Orderly /\ Unasked => Orderly'
  <1> SUFFICES ASSUME ChannelTypeOK, Orderly, Unasked, ~late PROVE Orderly'
    BY DEF Unasked, Orderly, history
  <1> DEFINE e == Line("other", "value", 0)
  <1>1. wire' = Append(wire, e) /\ UNCHANGED <<module, inbox, driver, history>> /\ wire \in Seq(WireLines)
    BY DEF Unasked, ChannelTypeOK
  <1>2. e \in WireLines /\ e.name = "other"
    BY LineTyped DEF Names, Line
  <1>3. e \in OtherLines /\ e \in PassedLines
    BY <1>2 DEF OtherLines, PassedLines
  <1>4. PassedLines' = PassedLines /\ AnswerLines' = AnswerLines /\ Body' = Body
    BY <1>1, PassedKept DEF AnswerLines, driver, module, history, Name
  <1> HIDE DEF e
  <1>5. OneAnswer(wire, PassedLines, AnswerLines)'
    BY <1>1, <1>2, <1>3, <1>4, AppendKeeps DEF Orderly
  <1>6. AllIn(wire, PassedLines) => AllIn(wire, PassedLines)'
    BY <1>1, <1>2, <1>3, <1>4, AppendKeeps
  <1>7. AllIn(wire, OtherLines) => AllIn(wire, OtherLines)'
    BY <1>1, <1>2, <1>3, AppendKeeps
  <1> QED
    BY <1>1, <1>4, <1>5, <1>6, <1>7 DEF Orderly, driver, module, history

\* A command is written when nothing is on its way but lines nobody has asked for.
LEMMA WriteOrderly == ChannelTypeOK /\ Orderly /\ Write => Orderly'
  <1> SUFFICES ASSUME ChannelTypeOK, Orderly, Write, ~late PROVE Orderly'
    BY DEF Write, Orderly, history
  <1>1. inbox = <<>> /\ AllIn(wire, OtherLines) /\ step \in Sending
    BY DEF Orderly, Write
  <1>2. inbox' = <<Body>> /\ waiting' = TRUE /\ Body' = Body /\ PassedLines' = PassedLines
        /\ UNCHANGED <<module, wire, step>>
    <2>1. Len(inbox) = 0 /\ Append(inbox, Body) = <<Body>>
      BY <1>1, Single
    <2>2. inbox' = <<Body>>
      BY <2>1, SendAssumption DEF Write
    <2>3. Body' = Body
      BY DEF Write, Body
    <2> QED
      BY <2>2, <2>3 DEF Write, PassedLines
  <1>3. AllIn(wire, PassedLines)' /\ OneAnswer(wire, PassedLines, AnswerLines)'
    BY <1>1, <1>2, OthersPass, Weaker
  <1> QED
    BY <1>1, <1>2, <1>3 DEF Orderly, Sending

\* classify, of a line that is passed over, and of one that answers.
LEMMA PassedOver ==
    ASSUME NEW l \in PassedLines
    PROVE  Classify(l) \in {"other", "echo"}
  <1>1. l.name = "other" \/ IsEcho(l)
    BY DEF PassedLines, IsEcho
  <1>2. CASE l.name # Name(step)
    BY <1>2 DEF Classify
  <1>3. CASE l.name = Name(step)
    BY <1>1, <1>3, NameTyped DEF Classify
  <1> QED
    BY <1>2, <1>3

LEMMA AnswerEnds ==
    ASSUME NEW l \in AnswerLines, l \notin PassedLines
    PROVE  Classify(l) = IF l.kind = "error" THEN "error" ELSE "ok"
  <1>1. l.name = Name(step) /\ ~IsEcho(l)
    BY DEF AnswerLines, PassedLines, IsEcho
  <1> QED
    BY <1>1 DEF Classify

\* send reads: what is passed over changes nothing, and behind an answer is nothing
\* but lines nobody has asked for.
LEMMA ReadOrderly == ChannelTypeOK /\ Orderly /\ ReadLine => Orderly'
  <1> SUFFICES ASSUME ChannelTypeOK, Orderly, ReadLine, ~late' PROVE Orderly'
    BY DEF Orderly
  <1>0. ~late
    BY DEF ReadLine, history
  <1> DEFINE l == Head(wire)
  <1>1. /\ step \in Sending /\ wire \in Seq(WireLines) /\ wire # <<>> /\ l \in WireLines
        /\ wire' = Tail(wire) /\ UNCHANGED <<module, inbox, history>>
        /\ OneAnswer(wire, PassedLines, AnswerLines)
    BY <1>0, TailOf DEF ReadLine, ChannelTypeOK, Orderly
  <1>2. CASE l \in PassedLines
    <2>1. Classify(l) \in {"other", "echo"}
      BY <1>2, PassedOver
    <2>2. UNCHANGED driver
      BY <2>1 DEF ReadLine
    <2>3. PassedLines' = PassedLines /\ AnswerLines' = AnswerLines /\ Body' = Body
      BY <1>1, <2>2, PassedKept DEF AnswerLines, driver, module, history, Name
    <2>4. OneAnswer(wire, PassedLines, AnswerLines)'
      BY <1>1, <2>3, TailKeeps
    <2>5. AllIn(wire, PassedLines) => AllIn(wire, PassedLines)'
      BY <1>1, <2>3, TailKeeps
    <2>6. AllIn(wire, OtherLines) => AllIn(wire, OtherLines)'
      BY <1>1, TailKeeps
    <2> QED
      BY <1>1, <2>2, <2>3, <2>4, <2>5, <2>6 DEF Orderly, driver, module, history
  <1>3. CASE l \notin PassedLines
    <2>1. l \in AnswerLines /\ AllIn(wire, OtherLines)'
      BY <1>1, <1>3, TailKeeps
    <2>2. inbox = <<>>
      BY <1>0, <1>1, <1>3, TailKeeps DEF Orderly
    <2>3. Classify(l) = IF l.kind = "error" THEN "error" ELSE "ok"
      BY <1>1, <1>3, <2>1, AnswerEnds
    <2>4. Goes(Answered(l)) \/ Goes(Unanswered)
      BY <2>3 DEF ReadLine
    <2>5. waiting' = FALSE
      BY <2>4 DEF Goes
    <2>6. step' = "done" => setting' = wanted'
      <3>1. ASSUME step' = "done" PROVE setting = wanted
        <4>1. step = "check" /\ l.kind = "value" /\ l.value = wanted
          BY <1>1, <2>4, <3>1 DEF Goes, Answered, Unanswered, Sending
        <4> QED
          BY <2>1, <4>1 DEF AnswerLines
      <3> QED
        BY <1>1, <2>4, <3>1 DEF Goes, module
    <2>7. OneAnswer(wire, PassedLines, AnswerLines)'
      <3>1. AllIn(wire', PassedLines')
        <4>1. (OtherLines \subseteq PassedLines)'
          BY DEF OtherLines, PassedLines
        <4> QED
          BY <2>1, <4>1, Weaker
      <3> QED
        BY <3>1, Weaker
    <2> QED
      BY <1>1, <2>1, <2>2, <2>5, <2>6, <2>7 DEF Orderly
  <1> QED
    BY <1>2, <1>3

\* A setting is asked for when nothing is on its way; a module that has restarted
\* has sent nothing.
LEMMA DriverOrderly == ChannelTypeOK /\ Orderly /\ Driver => Orderly'
  <1> SUFFICES ASSUME ChannelTypeOK, Orderly, Driver PROVE Orderly'
    OBVIOUS
  <1>1. ASSUME NEW v \in Values, NEW saving \in BOOLEAN, Set(v, saving), ~late
        PROVE  Orderly'
    <2>1. ~waiting /\ inbox = <<>> /\ AllIn(wire, OtherLines)
      BY <1>1 DEF Set, ChannelTypeOK, Orderly, Sending
    <2>2. AllIn(wire, OtherLines)' /\ inbox' = <<>> /\ step' = "apply"
      BY <1>1, <2>1 DEF Set, traffic
    <2>3. OneAnswer(wire', PassedLines', AnswerLines')
      <3>1. (OtherLines \subseteq PassedLines)'
        BY DEF OtherLines, PassedLines
      <3> QED
        BY <2>2, <3>1, Weaker
    <2> QED
      BY <2>2, <2>3 DEF Orderly
  <1>2. ASSUME Restart PROVE Orderly'
    <2>1. wire' = <<>> /\ step' \in {"check", "failed"} /\ (~late' => inbox' = <<>>)
      BY <1>2 DEF Restart, ChannelTypeOK, Orderly, Sending
    <2> QED
      BY <2>1, NoLines DEF Orderly
  <1>3. ASSUME NEW v \in Values, NEW saving \in BOOLEAN, Set(v, saving), late
        PROVE  Orderly'
    BY <1>3 DEF Set, Orderly
  <1> QED
    BY <1>1, <1>2, <1>3 DEF Driver

\* Every step keeps the order.
LEMMA OrderlyNext == ChannelTypeOK /\ Orderly /\ [ChannelNext]_channelVars => Orderly'
  <1>1. ASSUME ChannelTypeOK, Orderly, UNCHANGED channelVars PROVE Orderly'
    <2>1. PassedLines' = PassedLines /\ Body' = Body
      BY <1>1, PassedKept DEF channelVars
    <2>2. AnswerLines' = AnswerLines
      BY <1>1 DEF channelVars, module, history, driver, AnswerLines, Name
    <2>3. UNCHANGED <<setting, wanted, inbox, wire, waiting, step, late>>
      BY <1>1 DEF channelVars, module, traffic, history, driver
    <2> QED
      BY <1>1, <2>1, <2>2, <2>3 DEF Orderly
  <1>2. TimeOut => Orderly'
    BY DEF TimeOut, Orderly
  <1> QED
    BY <1>1, <1>2, ExecuteOrderly, EchoOrderly, MisbehaveOrderly, UnaskedOrderly, WriteOrderly,
       ReadOrderly, DriverOrderly DEF ChannelNext, Module

-----------------------------------------------------------------------------
(* A module that works is not reported as failing.                         *)

\* The module executes the command: what is applied is then in it.
LEMMA ExecuteFaultless == ChannelTypeOK /\ Orderly /\ Faultless /\ Execute => Faultless'
  <1> SUFFICES ASSUME ChannelTypeOK, Orderly, Faultless, Execute PROVE Faultless'
    OBVIOUS
  <1>1. UNCHANGED <<driver, late, faulty>>
    BY DEF Execute, Sound
  <1>2. UNCHANGED <<wanted, step, again, waiting>>
    BY <1>1 DEF driver
  <1>3. ASSUME ~faulty
        PROVE  /\ step = "apply" => setting' = wanted
               /\ step # "apply" => setting' = setting
    <2>1. inbox = <<Body>> /\ waiting
      BY <1>3 DEF Faultless, Orderly, Execute
    <2>2. Done(Body) /\ step \in Sending
      BY <2>1, Single DEF Execute, ChannelTypeOK
    <2> QED
      BY <2>2 DEF Done, Body, Sending, module
  <1> QED
    BY <1>1, <1>2, <1>3 DEF Faultless

\* A line is read: an answer without a fault says what is in the module.
LEMMA ReadFaultless == ChannelTypeOK /\ Orderly /\ Faultless /\ ReadLine => Faultless'
  <1> SUFFICES ASSUME ChannelTypeOK, Orderly, Faultless, ReadLine PROVE Faultless'
    OBVIOUS
  <1> DEFINE l == Head(wire)
  <1>1. /\ step \in Sending /\ waiting /\ wire \in Seq(WireLines) /\ wire # <<>>
        /\ UNCHANGED <<late, faulty, inbox, setting>>
    BY DEF ReadLine, ChannelTypeOK, history, module
  <1>2. CASE faulty
    BY <1>1, <1>2 DEF Faultless
  <1>3. CASE ~faulty /\ UNCHANGED driver
    BY <1>1, <1>3 DEF Faultless, driver
  <1>4. CASE ~faulty /\ l \in PassedLines
    <2>1. Classify(l) \in {"other", "echo"}
      BY <1>4, PassedOver
    <2> QED
      BY <1>3, <1>4, <2>1 DEF ReadLine
  <1>5. CASE ~faulty /\ l \notin PassedLines
    <2>1. OneAnswer(wire, PassedLines, AnswerLines)
      BY <1>5 DEF Faultless, Orderly
    <2>2. l \in AnswerLines
      BY <1>1, <1>5, <2>1, TailKeeps
    <2>3. inbox = <<>>
      BY <1>1, <1>5, TailKeeps DEF Faultless, Orderly
    <2>4. l.kind = (IF step = "check" THEN "value" ELSE "ok") /\ (l.kind = "value" => l.value = setting)
      BY <1>5, <2>2 DEF AnswerLines
    <2>5. Classify(l) = "ok"
      BY <1>5, <2>2, <2>4, AnswerEnds
    <2>6. Goes(Answered(l))
      BY <2>5 DEF ReadLine
    <2> HIDE DEF l
    <2>7. CASE step = "apply"
      <3>1. setting = wanted
        BY <1>1, <1>5, <2>3, <2>7 DEF Faultless
      <3> QED
        BY <1>1, <1>5, <2>6, <2>7, <3>1 DEF Goes, Answered, Faultless
    <2>8. CASE step = "save"
      BY <1>1, <1>5, <2>6, <2>8 DEF Goes, Answered, Faultless
    <2>9. CASE step = "check"
      BY <1>1, <1>5, <2>4, <2>6, <2>9 DEF Goes, Answered, Faultless
    <2> QED
      BY <1>1, <2>7, <2>8, <2>9 DEF Sending
  <1> QED
    BY <1>2, <1>4, <1>5

\* A setting is asked for, and the module restarted, before the first read back.
LEMMA DriverFaultless == ChannelTypeOK /\ Faultless /\ Driver => Faultless'
  <1> SUFFICES ASSUME ChannelTypeOK, Faultless, Driver PROVE Faultless'
    OBVIOUS
  <1>1. ASSUME NEW v \in Values, NEW saving \in BOOLEAN, Set(v, saving) PROVE Faultless'
    <2>1. ~waiting
      BY <1>1 DEF Set, ChannelTypeOK, Sending
    <2> QED
      BY <1>1, <2>1 DEF Set, Faultless
  <1>2. CASE Restart
    <2>1. ~again /\ UNCHANGED again
      BY <1>2 DEF Restart, ChannelTypeOK
    <2> QED
      BY <1>2, <2>1 DEF Restart, Faultless, Fault
  <1> QED
    BY <1>1, <1>2 DEF Driver

\* So it is with every step.
LEMMA FaultlessNext == ChannelTypeOK /\ Orderly /\ Faultless /\ [ChannelNext]_channelVars => Faultless'
  <1> SUFFICES ASSUME ChannelTypeOK, Orderly, Faultless, [ChannelNext]_channelVars PROVE Faultless'
    OBVIOUS
  <1>1. CASE EchoFirst \/ Unasked \/ UNCHANGED channelVars
    <2>1. UNCHANGED <<setting, wanted, step, again, waiting, inbox, late, faulty>>
      BY <1>1 DEF EchoFirst, Unasked, channelVars, module, traffic, driver, history
    <2> QED
      BY <2>1 DEF Faultless
  <1>2. CASE Misbehave
    BY <1>2 DEF Misbehave, Fault, Faultless
  <1>3. CASE Write
    <2>1. UNCHANGED <<setting, wanted, step, again, late, faulty>>
      BY <1>3 DEF Write, module, history
    <2>2. inbox' # <<>>
      BY <1>3, BodyIsCommand, Appended, SendAssumption DEF Write, ChannelTypeOK
    <2> QED
      BY <2>1, <2>2 DEF Faultless
  <1>4. CASE TimeOut
    BY <1>4 DEF TimeOut, Faultless
  <1> QED
    BY <1>1, <1>2, <1>3, <1>4, ExecuteFaultless, ReadFaultless, DriverFaultless DEF ChannelNext, Module
-----------------------------------------------------------------------------
(* Both uses.                                                              *)

\* The worker is in one thing: the channel goes its way, or stands still.
ChannelInv == ChannelTypeOK /\ Orderly /\ Faultless

LEMMA ModuleChannelNext == ChannelInv /\ [ModuleNext]_moduleVars => ChannelInv'
  <1>1. [ModuleNext]_moduleVars => [ChannelNext]_channelVars
    BY DEF ModuleNext, moduleVars, Positioned
  <1> QED
    BY <1>1, ChannelTypeNext, OrderlyNext, FaultlessNext DEF ChannelInv

\* What is reported as read back is in the module, for every number of retries,
\* faults and commands the module can hold.
THEOREM VerifiedCorrect == ModuleSpec => []VerifiedIsThere
  <1>1. ModuleInit => ChannelInv
    BY ChannelInitInv DEF ModuleInit, ChannelInv
  <1>2. ChannelInv => VerifiedIsThere
    BY DEF ChannelInv, Orderly, VerifiedIsThere
  <1> QED
    BY <1>1, <1>2, ModuleChannelNext, PTL DEF ModuleSpec

\* A module with which nothing has gone wrong is not reported as failing.
THEOREM WorkingCorrect == ModuleSpec => []WorkingSucceeds
  <1>1. ModuleInit => ChannelInv
    BY ChannelInitInv DEF ModuleInit, ChannelInv
  <1>2. ChannelInv => WorkingSucceeds
    BY DEF ChannelInv, Faultless, WorkingSucceeds
  <1> QED
    BY <1>1, <1>2, ModuleChannelNext, PTL DEF ModuleSpec

\* So do the positions: what they are reported from, and that they do not jump,
\* holds of the two uses together.
THEOREM ModulePositions == ModuleSpec => []TypeOK /\ ReportsNeverJump
  <1>1. ModuleInit => Init
    BY DEF ModuleInit
  <1>2. [ModuleNext]_moduleVars => [Next]_vars
    BY DEF ModuleNext, moduleVars, Positioned
  <1>3. ModuleSpec => Init /\ [][Next]_vars
    BY <1>1, <1>2, PTL DEF ModuleSpec
  <1> QED
    BY <1>3, Typed, NeverJumping, PTL
=============================================================================
