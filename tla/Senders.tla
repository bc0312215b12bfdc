------------------------------- MODULE Senders -------------------------------
(***************************************************************************)
(* The outlets with a queue and a thread of their own: the radio bridge,   *)
(* outlets/radio_bridge.py, and the caster uploader, caster_uploader.py.   *)
(* The main loop stops the instance there is and starts another one; stop  *)
(* waits for the thread only so long, and a thread that is in the middle   *)
(* of a connection attempt outlives its instance.                          *)
(*                                                                         *)
(* The two differ in when they open their handle (a serial port, an        *)
(* authorised connection), which is what "kind" tells apart.               *)
(***************************************************************************)
EXTENDS Naturals, Sequences

CONSTANTS
    SenderQueue,    \* RADIO_QUEUE_SIZE, CASTER_QUEUE_SIZE
    MaxInstances,   \* bound on starts
    MaxHandles,     \* bound on handles an instance opens
    MaxBlocks       \* bound on blocks of data offered

ASSUME SenderAssumption ==
    SenderQueue \in Nat \ {0} /\ MaxInstances \in Nat /\ MaxHandles \in Nat /\ MaxBlocks \in Nat

VARIABLES
    kind,       \* which of the two outlets this is
    current,    \* state.serial_bridge or state.caster_uploader; 0 is None
    started,    \* instances started
    ending,     \* where in stop the main loop is
    on,         \* self._running
    handle,     \* self._ser or self._sock, numbered; 0 is None
    opened,     \* handles opened so far
    open,       \* handles that are open, as pairs of an instance and a number
    queue,      \* self._outbox
    spot,       \* where the thread is
    block,      \* the block it has taken from the queue
    local,      \* the handle it has read to send it to
    offering,   \* the instance the data source is about to put a block into
    offered,    \* blocks offered
    pushing,    \* where in publish or feed it is
    \* What the properties compare with; nothing in the code:
    sent        \* the block that was sent last, and by whom

object == <<on, handle, opened, open>>
thread == <<spot, block, local>>
source == <<offering, offered, pushing>>
senderVars == <<kind, current, started, ending, object, queue, thread, source, sent>>

Kinds == {"radio", "uploader"}
Instances == 1..MaxInstances
Handles == 1..MaxHandles
Spots == {"none", "first", "opening", "retry", "retrying", "loop", "get", "taken", "sending", "done"}

SenderInit ==
    /\ kind \in Kinds /\ current = 0 /\ started = 0 /\ ending = "no"
    /\ on = [i \in Instances |-> FALSE] /\ handle = [i \in Instances |-> 0]
    /\ opened = [i \in Instances |-> 0] /\ open = {}
    /\ queue = [i \in Instances |-> <<>>] /\ spot = [i \in Instances |-> "none"]
    /\ block = [i \in Instances |-> 0] /\ local = [i \in Instances |-> 0]
    /\ offering = 0 /\ offered = 0 /\ pushing = "put"
    /\ sent = [block |-> 0, by |-> 0]

\* self._open, and what _connect does once the caster has agreed.
Opens(i) ==
    /\ opened[i] < MaxHandles
    /\ opened' = [opened EXCEPT ![i] = @ + 1]
    /\ handle' = [handle EXCEPT ![i] = opened'[i]]
    /\ open' = open \cup {<<i, opened'[i]>>}

\* _close_serial, _close: of the handle the object has.
Closes(i) ==
    /\ open' = open \ {<<i, handle[i]>>}
    /\ handle' = [handle EXCEPT ![i] = 0]

-----------------------------------------------------------------------------
(* The main loop.                                                          *)

\* The bridge opens its port before its thread starts, if it can.
SenderStart ==
    /\ current = 0 /\ started < MaxInstances
    /\ started' = started + 1 /\ current' = started'
    /\ on' = [on EXCEPT ![current'] = TRUE]
    /\ spot' = [spot EXCEPT ![current'] = "first"]
    /\ \/ kind = "radio" /\ Opens(current')
       \/ UNCHANGED <<handle, opened, open>>
    /\ UNCHANGED <<kind, ending, queue, block, local, source, sent>>

EndFlag ==
    /\ current # 0 /\ ending = "no"
    /\ ending' = "close"
    /\ on' = [on EXCEPT ![current] = FALSE]
    /\ UNCHANGED <<kind, current, started, handle, opened, open, queue, thread, source, sent>>

EndClose ==
    /\ ending = "close" /\ ending' = "drain"
    /\ Closes(current)
    /\ UNCHANGED <<kind, current, started, on, opened, queue, thread, source, sent>>

EndDrain ==
    /\ ending = "drain" /\ ending' = "join"
    /\ queue' = [queue EXCEPT ![current] = <<>>]
    /\ UNCHANGED <<kind, current, started, object, thread, source, sent>>

\* The thread has ended, or the wait for it has.
EndJoin ==
    /\ ending = "join" /\ ending' = "no"
    /\ current' = 0
    /\ UNCHANGED <<kind, started, object, queue, thread, source, sent>>

End == EndFlag \/ EndClose \/ EndDrain \/ EndJoin

-----------------------------------------------------------------------------
(* The data source: publish, feed.                                         *)

Offer ==
    /\ offering = 0 /\ offered < MaxBlocks
    /\ offered' = offered + 1
    /\ offering' = IF current # 0 /\ on[current] THEN current ELSE 0
    /\ UNCHANGED <<pushing, kind, current, started, ending, object, queue, thread, sent>>

Queued ==
    /\ offering # 0 /\ pushing \in {"put", "again"} /\ Len(queue[offering]) < SenderQueue
    /\ queue' = [queue EXCEPT ![offering] = Append(@, offered)]
    /\ offering' = 0 /\ pushing' = "put"
    /\ UNCHANGED <<kind, current, started, ending, object, thread, offered, sent>>

QueueFull ==
    /\ offering # 0 /\ pushing = "put" /\ Len(queue[offering]) = SenderQueue
    /\ pushing' = "drop"
    /\ UNCHANGED <<kind, current, started, ending, object, queue, thread, offering, offered, sent>>

\* The oldest block goes, even if the thread or stop has made room meanwhile.
DropOldest ==
    /\ pushing = "drop" /\ pushing' = "again"
    /\ queue' = [queue EXCEPT ![offering] = IF @ = <<>> THEN @ ELSE Tail(@)]
    /\ UNCHANGED <<kind, current, started, ending, object, thread, offering, offered, sent>>

Data == Offer \/ Queued \/ QueueFull \/ DropOldest

-----------------------------------------------------------------------------
(* The thread of an instance.                                              *)

Passes(i, from, to) == spot[i] = from /\ spot' = [spot EXCEPT ![i] = to]
mains == <<kind, current, started, ending>>

\* The bridge opens its port if start could not, without a look at the flag;
\* the uploader begins with its retries.
First(i) ==
    /\ Passes(i, "first", IF kind = "uploader" THEN "retry"
                          ELSE IF handle[i] = 0 THEN "opening" ELSE "loop")
    /\ UNCHANGED <<mains, object, queue, block, local, source, sent>>

\* One attempt, whatever comes of it.
Opening(i) ==
    /\ Passes(i, "opening", "loop")
    /\ \/ Opens(i) /\ UNCHANGED on
       \/ UNCHANGED object
    /\ UNCHANGED <<mains, queue, block, local, source, sent>>

\* Slip: attempts until there is a handle, whatever the flag says.
RetryForEver(i) ==
    /\ Passes(i, "retry", IF handle[i] = 0 THEN "retrying" ELSE "loop")
    /\ UNCHANGED <<mains, object, queue, block, local, source, sent>>

\* Attempts until there is a handle, or the flag is cleared.
Retry(i) ==
    /\ Passes(i, "retry", IF on[i] /\ handle[i] = 0 THEN "retrying" ELSE "loop")
    /\ UNCHANGED <<mains, object, queue, block, local, source, sent>>

\* Slip: an attempt that succeeds goes on to the queue without a look at the flag.
RetryingOn(i) ==
    /\ \/ Opens(i) /\ Passes(i, "retrying", "get") /\ UNCHANGED on
       \/ Passes(i, "retrying", "retry") /\ UNCHANGED object
    /\ UNCHANGED <<mains, queue, block, local, source, sent>>

Retrying(i) ==
    /\ \/ Opens(i) /\ Passes(i, "retrying", "loop") /\ UNCHANGED on
       \/ Passes(i, "retrying", "retry") /\ UNCHANGED object
    /\ UNCHANGED <<mains, queue, block, local, source, sent>>

Going(i) ==
    /\ Passes(i, "loop", "get") /\ on[i]
    /\ UNCHANGED <<mains, object, queue, block, local, source, sent>>

\* Slip: stop has closed the handle, so the thread need not.
OverNoClose(i) ==
    /\ Passes(i, "loop", "done") /\ ~on[i]
    /\ UNCHANGED <<mains, object, queue, block, local, source, sent>>

\* The end of the thread.
Over(i) ==
    /\ Passes(i, "loop", "done") /\ ~on[i]
    /\ Closes(i)
    /\ UNCHANGED <<mains, on, opened, queue, block, local, source, sent>>

Taken(i) ==
    /\ Passes(i, "get", "taken") /\ queue[i] # <<>>
    /\ block' = [block EXCEPT ![i] = Head(queue[i])]
    /\ queue' = [queue EXCEPT ![i] = Tail(queue[i])]
    /\ UNCHANGED <<mains, object, local, source, sent>>

\* Half a second without data.
Empty(i) ==
    /\ queue[i] = <<>>
    /\ Passes(i, "get", IF handle[i] # 0 \/ ~on[i] THEN "loop"
                        ELSE IF kind = "radio" THEN "opening" ELSE "retry")
    /\ UNCHANGED <<mains, object, queue, block, local, source, sent>>

\* Without a handle the block is lost.
Aim(i) ==
    /\ local' = [local EXCEPT ![i] = handle[i]]
    /\ IF handle[i] # 0
       THEN Passes(i, "taken", "sending") /\ UNCHANGED block
       ELSE /\ Passes(i, "taken", IF kind = "radio" THEN "opening" ELSE "loop")
            /\ block' = [block EXCEPT ![i] = 0]
    /\ UNCHANGED <<mains, object, queue, source, sent>>

\* What is closed cannot be written to.
Sent(i) ==
    /\ Passes(i, "sending", "loop") /\ <<i, local[i]>> \in open
    /\ sent' = [block |-> block[i], by |-> i]
    /\ block' = [block EXCEPT ![i] = 0] /\ local' = [local EXCEPT ![i] = 0]
    /\ UNCHANGED <<mains, object, queue, source>>

\* Slip: what could not be sent is queued again.
FailedRequeued(i) ==
    /\ \/ Passes(i, "sending", "retry")
       \/ kind = "radio" /\ Passes(i, "sending", "loop")
    /\ Closes(i)
    /\ queue' = [queue EXCEPT ![i] = IF Len(@) < SenderQueue THEN Append(@, block[i]) ELSE @]
    /\ block' = [block EXCEPT ![i] = 0] /\ local' = [local EXCEPT ![i] = 0]
    /\ UNCHANGED <<mains, on, opened, source, sent>>

\* The block is lost, and the handle given up; an exception the bridge does not
\* expect takes it past the retries.
Failed(i) ==
    /\ \/ Passes(i, "sending", "retry")
       \/ kind = "radio" /\ Passes(i, "sending", "loop")
    /\ Closes(i)
    /\ block' = [block EXCEPT ![i] = 0] /\ local' = [local EXCEPT ![i] = 0]
    /\ UNCHANGED <<mains, on, opened, queue, source, sent>>

Sender(i) ==
    \/ First(i) \/ Opening(i) \/ Retry(i) \/ Retrying(i) \/ Going(i) \/ Over(i)
    \/ Taken(i) \/ Empty(i) \/ Aim(i) \/ Sent(i) \/ Failed(i)

SenderNext == SenderStart \/ End \/ Data \/ \E i \in Instances : Sender(i)

SenderSpec == SenderInit /\ [][SenderNext]_senderVars

\* Every wait has a time limit, and every attempt to open or to send an end.
SenderFairness == \A i \in Instances : WF_senderVars(Sender(i))

-----------------------------------------------------------------------------
(* Properties.                                                             *)

SenderTypeOK ==
    /\ kind \in Kinds /\ current \in 0..MaxInstances /\ started \in 0..MaxInstances
    /\ ending \in {"no", "close", "drain", "join"}
    /\ on \in [Instances -> BOOLEAN] /\ handle \in [Instances -> 0..MaxHandles]
    /\ opened \in [Instances -> 0..MaxHandles] /\ open \subseteq Instances \X Handles
    /\ queue \in [Instances -> Seq(1..MaxBlocks)] /\ spot \in [Instances -> Spots]
    /\ block \in [Instances -> 0..MaxBlocks] /\ local \in [Instances -> 0..MaxHandles]
    /\ offering \in 0..MaxInstances /\ offered \in 0..MaxBlocks
    /\ pushing \in {"put", "drop", "again"}
    /\ sent \in [block : 0..MaxBlocks, by : 0..MaxInstances]

\* Blocks are sent in the order of the data, none twice, whatever is lost on the
\* way, through failures and from one instance to the next.
SentInOrder == [][sent' # sent => sent'.block > sent.block]_senderVars

\* An instance whose stop has closed its handle sends nothing any more, though its
\* thread may open another one.
StoppedSilent ==
    [][sent' # sent => sent'.by = current /\ ending \in {"no", "close"}]_senderVars

\* The only handle an instance ever has open is the one it knows of, which it
\* can close, and none is left when its thread has ended.
NoHandleLeft ==
    \A h \in open : handle[h[1]] = h[2] /\ spot[h[1]] # "done"

\* The thread of a stopped instance ends: again and again all of them have.
StoppedEnds == []<>(\A i \in Instances : spot[i] # "none" /\ ~on[i] => spot[i] = "done")
=============================================================================
