--------------------------- MODULE Outlets_proofs ---------------------------
(***************************************************************************)
(* Proofs about Outlets: about the radio bridge and the uploader, for      *)
(* every number of instances, handles and blocks and every length of the   *)
(* queue; about the local caster, for every number of clients, packets and *)
(* places in the queues; and about the announcer, for all addresses and    *)
(* names.  Those about the parse buffer are in a module of their own.      *)
(* What is proved of a part holds of the parts together, since each of     *)
(* them leaves the others alone.                                           *)
(*                                                                         *)
(* NoGap rests on what a client has been sent, the packet its thread holds *)
(* and its queue being one row of packets (Linked), and on how far the end *)
(* of this row is behind the packet that is published (Behind).            *)
(***************************************************************************)
EXTENDS Outlets, RtcmBuffer_proofs, FiniteSetTheorems

-----------------------------------------------------------------------------
(* The radio bridge and the uploader.                                      *)

USE DEF object, thread, source, mains

\* Instances that have not been started have nothing.
Unborn(i) == i > started => spot[i] = "none" /\ handle[i] = 0 /\ queue[i] = <<>> /\ block[i] = 0

\* What the type invariant needs: what is put into a queue is a block, and a
\* stop is of an instance.
Numbers ==
    /\ current <= started /\ offering <= started
    /\ offering # 0 => offered > 0
    /\ ending # "no" => current # 0 /\ ~on[current]
    /\ \A i \in Instances : i # current => ~on[i]

\* A thread that opens a handle has none.
Opener(i) == spot[i] \in {"opening", "retrying"} => handle[i] = 0

TypeInv == SenderTypeOK /\ Numbers /\ \A i \in Instances : Unborn(i)

HandleInv == NoHandleLeft /\ \A i \in Instances : Opener(i)

\* What stop has closed stays closed for a thread that still sends.
Closed(i) == i # current \/ ending \in {"drain", "join"}

Silent(i) == Closed(i) /\ spot[i] \in {"get", "taken", "sending"} => handle[i] = 0

StopInv == \A i \in Instances : Silent(i)

\* The blocks an instance has are in the order of the data, and none of them is
\* the one that is being offered.
Below(b) == b <= offered /\ (offering # 0 => b < offered)

Ascending(i) ==
    /\ \A a, b \in 1..Len(queue[i]) : a < b => queue[i][a] < queue[i][b]
    /\ \A a \in 1..Len(queue[i]) : Below(queue[i][a]) /\ block[i] < queue[i][a]
    /\ Below(block[i])
    /\ spot[i] \in {"taken", "sending"} => block[i] # 0

\* All that an instance has that may still send is behind what was sent last.
Ahead(i) ==
    ~Closed(i) => /\ \A a \in 1..Len(queue[i]) : sent.block < queue[i][a]
                  /\ block[i] # 0 => sent.block < block[i]

OrderInv == Below(sent.block) /\ \A i \in Instances : Ascending(i) /\ Ahead(i)

-----------------------------------------------------------------------------
(* Types.                                                                  *)

MainTypes ==
    /\ kind \in Kinds /\ current \in 0..MaxInstances /\ started \in 0..MaxInstances
    /\ ending \in {"no", "close", "drain", "join"}
    /\ offering \in 0..MaxInstances /\ offered \in 0..MaxBlocks /\ pushing \in {"put", "drop", "again"}
    /\ sent \in [block : 0..MaxBlocks, by : 0..MaxInstances]

ObjectTypes ==
    /\ on \in [Instances -> BOOLEAN] /\ handle \in [Instances -> 0..MaxHandles]
    /\ opened \in [Instances -> 0..MaxHandles] /\ open \subseteq Instances \X Handles

ThreadTypes ==
    /\ queue \in [Instances -> Seq(1..MaxBlocks)] /\ spot \in [Instances -> Spots]
    /\ block \in [Instances -> 0..MaxBlocks] /\ local \in [Instances -> 0..MaxHandles]

\* The three parts of the type invariant.
LEMMA TypeParts == SenderTypeOK <=> MainTypes /\ ObjectTypes /\ ThreadTypes
  BY DEF SenderTypeOK, MainTypes, ObjectTypes, ThreadTypes

\* The same of the next state.
LEMMA TypePartsNext == MainTypes' /\ ObjectTypes' /\ ThreadTypes' => SenderTypeOK'
  BY DEF SenderTypeOK, MainTypes, ObjectTypes, ThreadTypes

\* The bounds are numbers, and 0 is within all of them.
LEMMA Bounds ==
    /\ 0 \in 0..MaxInstances /\ 0 \in 0..MaxHandles /\ 0 \in 0..MaxBlocks
    /\ MaxInstances \in Nat /\ MaxHandles \in Nat /\ MaxBlocks \in Nat
    /\ \A i \in Instances : i \in Nat /\ i # 0
  BY SenderAssumption DEF Instances

\* Opening a handle numbers it and makes it the instance's own.
LEMMA OpensTyped ==
    ASSUME ObjectTypes, NEW i \in Instances, Opens(i)
    PROVE  /\ handle' \in [Instances -> 0..MaxHandles] /\ opened' \in [Instances -> 0..MaxHandles]
           /\ open' \subseteq Instances \X Handles
           /\ handle'[i] \in Handles /\ handle'[i] # 0 /\ open' = open \cup {<<i, handle'[i]>>}
           /\ \A j \in Instances : j # i => handle'[j] = handle[j]
  <1>1. opened[i] \in 0..MaxHandles /\ opened[i] < MaxHandles
    BY DEF ObjectTypes, Opens
  <1>2. opened[i] + 1 \in Handles /\ opened[i] + 1 \in 0..MaxHandles /\ opened[i] + 1 # 0
    BY <1>1, Bounds DEF Handles
  <1>3. opened' = [opened EXCEPT ![i] = opened[i] + 1] /\ opened'[i] = opened[i] + 1
    BY DEF ObjectTypes, Opens
  <1>4. handle' = [handle EXCEPT ![i] = opened[i] + 1] /\ open' = open \cup {<<i, opened[i] + 1>>}
    BY <1>3 DEF Opens
  <1>5. handle'[i] = opened[i] + 1 /\ \A j \in Instances : j # i => handle'[j] = handle[j]
    BY <1>4 DEF ObjectTypes
  <1> QED
    BY <1>2, <1>3, <1>4, <1>5 DEF ObjectTypes

\* Closing one leaves none.
LEMMA ClosesTyped ==
    ASSUME ObjectTypes, NEW i \in Instances, Closes(i)
    PROVE  /\ handle' \in [Instances -> 0..MaxHandles] /\ open' \subseteq Instances \X Handles
           /\ handle'[i] = 0 /\ open' = open \ {<<i, handle[i]>>}
           /\ \A j \in Instances : j # i => handle'[j] = handle[j]
  BY Bounds DEF ObjectTypes, Closes

\* Everything begins well typed.
LEMMA TypeInit == SenderInit => TypeInv
  <1> SUFFICES ASSUME SenderInit PROVE TypeInv
    OBVIOUS
  <1>1. MainTypes
    BY Bounds DEF SenderInit, MainTypes
  <1>2. ObjectTypes
    BY Bounds DEF SenderInit, ObjectTypes
  <1>3. ThreadTypes
    <2>1. <<>> \in Seq(1..MaxBlocks)
      BY EmptySeq
    <2> QED
      BY <2>1, Bounds DEF SenderInit, ThreadTypes, Spots
  <1>4. Numbers /\ \A i \in Instances : Unborn(i)
    BY DEF SenderInit, Numbers, Unborn
  <1> QED
    BY <1>1, <1>2, <1>3, <1>4, TypeParts DEF TypeInv

\* The instance a stop is about is one that there is.
LEMMA StopTyped ==
    ASSUME TypeInv, current # 0
    PROVE  current \in Instances /\ current <= started
  BY Bounds DEF TypeInv, Numbers, SenderTypeOK, Instances

\* So is the one a block is put into.
LEMMA Offering ==
    ASSUME TypeInv, offering # 0
    PROVE  offering \in Instances /\ offering <= started /\ offered \in 1..MaxBlocks
  BY Bounds DEF TypeInv, Numbers, SenderTypeOK, Instances

\* The numbers and the last block sent keep their types.
LEMMA MainTyped == TypeInv /\ [SenderNext]_senderVars => MainTypes' /\ Numbers'
  <1> SUFFICES ASSUME TypeInv, [SenderNext]_senderVars PROVE MainTypes' /\ Numbers'
    OBVIOUS
  <1>1. MainTypes /\ ObjectTypes /\ ThreadTypes /\ Numbers
    BY TypeParts DEF TypeInv
  <1>2. CASE SenderStart
    <2>1. /\ current = 0 /\ started' = started + 1 /\ current' = started + 1
          /\ on' = [on EXCEPT ![started + 1] = TRUE]
          /\ UNCHANGED <<kind, ending, source, sent>> /\ started + 1 \in 1..MaxInstances
      BY <1>1, <1>2, Bounds DEF SenderStart, MainTypes
    <2>2. MainTypes'
      BY <1>1, <2>1, Bounds DEF MainTypes
    <2>3. \A i \in Instances : i # started + 1 => ~on'[i]
      <3>1. \A i \in Instances : ~on[i]
        BY <1>1, <2>1, Bounds DEF Numbers
      <3> QED
        BY <1>1, <2>1, <3>1 DEF ObjectTypes
    <2>4. ending = "no" /\ started \in Nat /\ offering \in Nat
      BY <1>1, <2>1, Bounds DEF Numbers, MainTypes
    <2> QED
      BY <1>1, <2>1, <2>2, <2>3, <2>4 DEF Numbers
  <1>3. CASE End
    <2>1. MainTypes'
      BY <1>1, <1>3, Bounds DEF End, EndFlag, EndClose, EndDrain, EndJoin, MainTypes
    <2>2. CASE EndFlag
      <3>1. current \in Instances
        BY <2>2, StopTyped DEF EndFlag
      <3> QED
        BY <1>1, <2>1, <2>2, <3>1 DEF EndFlag, Numbers, ObjectTypes
    <2>3. CASE EndClose \/ EndDrain
      BY <1>1, <2>1, <2>3 DEF EndClose, EndDrain, Numbers
    <2>4. CASE EndJoin
      BY <1>1, <2>1, <2>4, Bounds DEF EndJoin, Numbers, MainTypes
    <2> QED
      BY <1>3, <2>2, <2>3, <2>4 DEF End
  <1>4. CASE Data
    <2>1. MainTypes'
      BY <1>1, <1>4, Bounds DEF Data, Offer, Queued, QueueFull, DropOldest, MainTypes
    <2>2. UNCHANGED <<current, started, ending, on>>
      BY <1>4 DEF Data, Offer, Queued, QueueFull, DropOldest
    <2>3. offering' <= started /\ (offering' # 0 => offered' > 0)
      <3>1. CASE Offer
        BY <1>1, <3>1, Bounds DEF Offer, Numbers, MainTypes
      <3>2. CASE Queued \/ QueueFull \/ DropOldest
        BY <1>1, <3>2, Bounds DEF Queued, QueueFull, DropOldest, Numbers, MainTypes
      <3> QED
        BY <1>4, <3>1, <3>2 DEF Data
    <2> QED
      BY <1>1, <2>1, <2>2, <2>3 DEF Numbers
  <1>5. ASSUME NEW i \in Instances, Sender(i)
        PROVE  MainTypes' /\ Numbers'
    <2>1. UNCHANGED <<kind, current, started, ending, on, offering, offered, pushing>>
      BY <1>5 DEF Sender, First, Opening, Opens, Retry, Retrying, Going, Over, Taken, Empty, Aim, Sent, Failed
    <2>2. sent' = sent \/ sent' = [block |-> block[i], by |-> i]
      BY <1>5 DEF Sender, First, Opening, Retry, Retrying, Going, Over, Taken, Empty, Aim, Sent, Failed
    <2>3. block[i] \in 0..MaxBlocks /\ i \in 0..MaxInstances
      BY <1>1, Bounds DEF ThreadTypes, Instances
    <2>4. sent' \in [block : 0..MaxBlocks, by : 0..MaxInstances]
      BY <1>1, <2>2, <2>3 DEF MainTypes
    <2> QED
      BY <1>1, <2>1, <2>4 DEF MainTypes, Numbers
  <1>6. CASE UNCHANGED senderVars
    BY <1>1, <1>6 DEF senderVars, MainTypes, Numbers
  <1> QED
    BY <1>2, <1>3, <1>4, <1>5, <1>6 DEF SenderNext

\* The objects keep their types.
LEMMA ObjectTyped == TypeInv /\ [SenderNext]_senderVars => ObjectTypes'
  <1> SUFFICES ASSUME TypeInv, [SenderNext]_senderVars PROVE ObjectTypes'
    OBVIOUS
  <1>1. MainTypes /\ ObjectTypes
    BY TypeParts DEF TypeInv
  <1>2. CASE SenderStart
    <2>1. current' \in Instances /\ on' = [on EXCEPT ![current'] = TRUE]
      BY <1>1, <1>2, Bounds DEF SenderStart, MainTypes, Instances
    <2>2. on' \in [Instances -> BOOLEAN]
      BY <1>1, <2>1, Zenon DEF ObjectTypes
    <2>3. CASE Opens(current')
      BY <1>1, <2>1, <2>2, <2>3, OpensTyped DEF ObjectTypes
    <2>4. CASE UNCHANGED <<handle, opened, open>>
      BY <1>1, <2>2, <2>4 DEF ObjectTypes
    <2> QED
      BY <1>2, <2>3, <2>4 DEF SenderStart
  <1>3. CASE EndFlag
    BY <1>1, <1>3, Zenon DEF EndFlag, ObjectTypes
  <1>4. CASE EndClose
    <2>1. current \in Instances
      BY <1>4, StopTyped DEF EndClose, TypeInv, Numbers
    <2> QED
      BY <1>1, <1>4, <2>1, ClosesTyped DEF EndClose, ObjectTypes
  <1>5. CASE EndDrain \/ EndJoin \/ Data \/ UNCHANGED senderVars
    BY <1>1, <1>5 DEF EndDrain, EndJoin, Data, Offer, Queued, QueueFull, DropOldest, senderVars, ObjectTypes
  <1>6. ASSUME NEW i \in Instances, Opening(i) \/ Retrying(i)
        PROVE  ObjectTypes'
    <2>1. on' = on /\ (Opens(i) \/ UNCHANGED object)
      BY <1>6 DEF Opening, Retrying
    <2> QED
      BY <1>1, <2>1, OpensTyped DEF ObjectTypes
  <1>7. ASSUME NEW i \in Instances, Over(i) \/ Failed(i)
        PROVE  ObjectTypes'
    <2>1. on' = on /\ opened' = opened /\ Closes(i)
      BY <1>7 DEF Over, Failed
    <2> QED
      BY <1>1, <2>1, ClosesTyped DEF ObjectTypes
  <1>8. ASSUME NEW i \in Instances,
               First(i) \/ Retry(i) \/ Going(i) \/ Taken(i) \/ Empty(i) \/ Aim(i) \/ Sent(i)
        PROVE  ObjectTypes'
    BY <1>1, <1>8 DEF First, Retry, Going, Taken, Empty, Aim, Sent, ObjectTypes
  <1> QED
    BY <1>2, <1>3, <1>4, <1>5, <1>6, <1>7, <1>8 DEF SenderNext, End, Sender

\* The threads and their queues keep their types.
LEMMA ThreadTyped == TypeInv /\ [SenderNext]_senderVars => ThreadTypes'
  <1> SUFFICES ASSUME TypeInv, [SenderNext]_senderVars PROVE ThreadTypes'
    OBVIOUS
  <1>1. MainTypes /\ ObjectTypes /\ ThreadTypes
    BY TypeParts DEF TypeInv
  <1>2. CASE SenderStart
    <2>1. spot' \in [Instances -> Spots]
      BY <1>1, <1>2 DEF SenderStart, ThreadTypes, Spots
    <2> QED
      BY <1>1, <1>2, <2>1 DEF SenderStart, ThreadTypes
  <1>3. CASE EndDrain
    <2>1. <<>> \in Seq(1..MaxBlocks)
      BY EmptySeq
    <2> QED
      BY <1>1, <1>3, <2>1 DEF EndDrain, ThreadTypes
  <1>4. CASE Queued
    <2>1. offering \in Instances /\ offered \in 1..MaxBlocks
      BY <1>4, Offering DEF Queued
    <2>2. Append(queue[offering], offered) \in Seq(1..MaxBlocks)
      BY <1>1, <2>1, AppendProperties DEF ThreadTypes
    <2> QED
      BY <1>1, <1>4, <2>2 DEF Queued, ThreadTypes
  <1>5. CASE DropOldest
    <2>1. \A i \in Instances : queue[i] # <<>> => Tail(queue[i]) \in Seq(1..MaxBlocks)
      BY <1>1, HeadTailProperties DEF ThreadTypes
    <2>2. queue' \in [Instances -> Seq(1..MaxBlocks)]
      BY <1>1, <1>5, <2>1 DEF DropOldest, ThreadTypes
    <2> QED
      BY <1>1, <1>5, <2>2 DEF DropOldest, ThreadTypes
  <1>6. CASE EndFlag \/ EndClose \/ EndJoin \/ Offer \/ QueueFull \/ UNCHANGED senderVars
    BY <1>1, <1>6 DEF EndFlag, EndClose, EndJoin, Offer, QueueFull, senderVars, ThreadTypes
  <1>7. ASSUME NEW i \in Instances, First(i) \/ Opening(i) \/ Retry(i) \/ Retrying(i) \/ Going(i) \/ Over(i)
                                    \/ Empty(i)
        PROVE  ThreadTypes'
    <2>1. spot' \in [Instances -> Spots]
      BY <1>1, <1>7 DEF First, Opening, Retry, Retrying, Going, Over, Empty, Passes, ThreadTypes, Spots
    <2>2. UNCHANGED <<queue, block, local>>
      BY <1>7 DEF First, Opening, Retry, Retrying, Going, Over, Empty
    <2> QED
      BY <1>1, <2>1, <2>2 DEF ThreadTypes
  <1>8. ASSUME NEW i \in Instances, Taken(i)
        PROVE  ThreadTypes'
    <2>1. Head(queue[i]) \in 1..MaxBlocks /\ Tail(queue[i]) \in Seq(1..MaxBlocks)
      BY <1>1, <1>8, HeadTailProperties DEF Taken, ThreadTypes
    <2>2. Head(queue[i]) \in 0..MaxBlocks
      BY <2>1, Bounds
    <2>3. queue' \in [Instances -> Seq(1..MaxBlocks)] /\ block' \in [Instances -> 0..MaxBlocks]
      BY <1>1, <1>8, <2>1, <2>2 DEF Taken, ThreadTypes
    <2>4. spot' \in [Instances -> Spots]
      BY <1>1, <1>8 DEF Taken, Passes, ThreadTypes, Spots
    <2> QED
      BY <1>1, <1>8, <2>3, <2>4 DEF Taken, ThreadTypes
  <1>9. ASSUME NEW i \in Instances, Aim(i) \/ Sent(i) \/ Failed(i)
        PROVE  ThreadTypes'
    <2>1. spot' \in [Instances -> Spots]
      BY <1>1, <1>9 DEF Aim, Sent, Failed, Passes, ThreadTypes, Spots
    <2>2. handle[i] \in 0..MaxHandles
      BY <1>1 DEF ObjectTypes
    <2>3. block' \in [Instances -> 0..MaxBlocks] /\ local' \in [Instances -> 0..MaxHandles]
      BY <1>1, <1>9, <2>2, Bounds DEF Aim, Sent, Failed, ThreadTypes
    <2>4. queue' = queue
      BY <1>9 DEF Aim, Sent, Failed
    <2> QED
      BY <1>1, <2>1, <2>3, <2>4 DEF ThreadTypes
  <1> QED
    BY <1>2, <1>3, <1>4, <1>5, <1>6, <1>7, <1>8, <1>9 DEF SenderNext, End, Data, Sender

\* What a thread does is its own, and is done by a thread that there is.
LEMMA OthersKept ==
    ASSUME TypeInv, NEW i \in Instances, Sender(i), NEW j \in Instances, j # i
    PROVE  /\ spot'[j] = spot[j] /\ handle'[j] = handle[j] /\ queue'[j] = queue[j]
           /\ block'[j] = block[j]
  <1>1. ObjectTypes /\ ThreadTypes
    BY TypeParts DEF TypeInv
  <1>2. CASE Opening(i) \/ Retrying(i)
    <2>1. /\ Opens(i) \/ UNCHANGED object
          /\ spot'[j] = spot[j] /\ queue' = queue /\ block' = block
      BY <1>1, <1>2 DEF Opening, Retrying, Passes, ThreadTypes
    <2> QED
      BY <1>1, <2>1, OpensTyped
  <1>3. CASE Over(i) \/ Failed(i)
    <2>1. Closes(i) /\ spot'[j] = spot[j] /\ queue' = queue /\ block'[j] = block[j]
      BY <1>1, <1>3 DEF Over, Failed, Passes, ThreadTypes
    <2> QED
      BY <1>1, <2>1, ClosesTyped
  <1>4. CASE First(i) \/ Retry(i) \/ Going(i) \/ Taken(i) \/ Empty(i) \/ Aim(i) \/ Sent(i)
    BY <1>1, <1>4 DEF First, Retry, Going, Taken, Empty, Aim, Sent, Passes, ThreadTypes
  <1> QED
    BY <1>2, <1>3, <1>4 DEF Sender

\* The same for the number of instances and the main loop, and the thread exists.
LEMMA SenderAlone ==
    ASSUME NEW i \in Instances, Sender(i)
    PROVE  /\ UNCHANGED <<kind, current, started, ending, on, offering, offered, pushing>>
           /\ spot[i] # "none"
  BY DEF Sender, First, Opening, Opens, Retry, Retrying, Going, Over, Taken, Empty, Aim, Sent, Failed, Passes

\* Instances that have not been started go on having nothing.
LEMMA UnbornNext == TypeInv /\ [SenderNext]_senderVars => \A j \in Instances : Unborn(j)'
  <1> SUFFICES ASSUME TypeInv, [SenderNext]_senderVars, NEW j \in Instances PROVE Unborn(j)'
    OBVIOUS
  <1>1. MainTypes /\ ObjectTypes /\ ThreadTypes /\ Unborn(j) /\ Numbers
    BY TypeParts DEF TypeInv
  <1>2. started \in Nat /\ j \in Nat /\ j # 0
    BY <1>1, Bounds DEF MainTypes
  <1>3. CASE SenderStart
    <2>1. /\ started' = started + 1 /\ current' = started + 1 /\ current' \in Instances
          /\ spot' = [spot EXCEPT ![current'] = "first"] /\ UNCHANGED <<queue, block>>
          /\ Opens(current') \/ UNCHANGED <<handle, opened, open>>
      BY <1>1, <1>3, Bounds DEF SenderStart, MainTypes, Instances
    <2>2. j > started' => j # current' /\ j > started
      BY <1>2, <2>1
    <2>3. j # current' => handle'[j] = handle[j] /\ spot'[j] = spot[j]
      BY <1>1, <2>1, OpensTyped DEF ThreadTypes
    <2> QED
      BY <1>1, <2>1, <2>2, <2>3 DEF Unborn
  <1>4. CASE EndClose \/ EndDrain
    <2>1. current \in Instances /\ current <= started
      BY <1>1, <1>4, StopTyped DEF EndClose, EndDrain, Numbers
    <2>2. started' = started /\ spot' = spot /\ block' = block
      BY <1>4 DEF EndClose, EndDrain
    <2>3. j # current => handle'[j] = handle[j] /\ queue'[j] = queue[j]
      BY <1>1, <1>4, <2>1, ClosesTyped DEF EndClose, EndDrain, ThreadTypes
    <2>4. j > started => j # current
      BY <1>2, <2>1, Bounds
    <2> QED
      BY <1>1, <2>2, <2>3, <2>4 DEF Unborn
  <1>5. CASE Queued \/ DropOldest
    <2>1. started' = started /\ spot' = spot /\ block' = block /\ handle' = handle
      BY <1>5 DEF Queued, DropOldest
    <2>2. j > started => j # offering
      BY <1>1, <1>2, Bounds DEF Numbers, MainTypes
    <2>3. j # offering => queue'[j] = queue[j]
      BY <1>1, <1>5 DEF Queued, DropOldest, ThreadTypes
    <2> QED
      BY <1>1, <2>1, <2>2, <2>3 DEF Unborn
  <1>6. CASE EndFlag \/ EndJoin \/ Offer \/ QueueFull \/ UNCHANGED senderVars
    BY <1>1, <1>6 DEF EndFlag, EndJoin, Offer, QueueFull, senderVars, Unborn
  <1>7. ASSUME NEW i \in Instances, Sender(i)
        PROVE  Unborn(j)'
    <2>1. started' = started /\ spot[i] # "none"
      BY <1>7, SenderAlone
    <2>2. j > started => j # i
      BY <1>1, <2>1 DEF Unborn
    <2> QED
      BY <1>1, <1>7, <2>1, <2>2, OthersKept DEF Unborn
  <1> QED
    BY <1>3, <1>4, <1>5, <1>6, <1>7 DEF SenderNext, End, Data

\* Everything stays well typed, for all bounds.
THEOREM SenderTypeCorrect == SenderSpec => []TypeInv
  <1>1. TypeInv /\ [SenderNext]_senderVars => TypeInv'
    BY MainTyped, ObjectTyped, ThreadTyped, UnbornNext, TypePartsNext DEF TypeInv
  <1> QED
    BY TypeInit, <1>1, PTL DEF SenderSpec

-----------------------------------------------------------------------------
(* Handles.                                                                *)

\* An instance without a handle has none open.
LEMMA NoneOpen ==
    ASSUME ObjectTypes, NoHandleLeft, NEW i \in Instances, handle[i] = 0
    PROVE  \A h \in open : h[1] # i
  <1> SUFFICES ASSUME NEW h \in open, h[1] = i PROVE FALSE
    OBVIOUS
  <1>1. h[2] \in Handles /\ handle[i] = h[2]
    BY DEF ObjectTypes, NoHandleLeft
  <1> QED
    BY <1>1, Bounds DEF Handles

\* Opening keeps the promise when there was none, and closing always.
LEMMA HandleOpened ==
    ASSUME ObjectTypes, NoHandleLeft, NEW i \in Instances, handle[i] = 0, Opens(i), spot'[i] # "done",
           \A j \in Instances : j # i => spot'[j] = spot[j]
    PROVE  NoHandleLeft'
  <1> SUFFICES ASSUME NEW h \in open' PROVE handle'[h[1]] = h[2] /\ spot'[h[1]] # "done"
    BY DEF NoHandleLeft
  <1>1. open' = open \cup {<<i, handle'[i]>>} /\ \A j \in Instances : j # i => handle'[j] = handle[j]
    BY OpensTyped
  <1>2. CASE h = <<i, handle'[i]>>
    BY <1>2
  <1>3. CASE h \in open
    <2>1. h[1] # i /\ h[1] \in Instances
      BY <1>3, NoneOpen DEF ObjectTypes
    <2> QED
      BY <1>1, <1>3, <2>1 DEF NoHandleLeft
  <1> QED
    BY <1>1, <1>2, <1>3

\* The handle that is closed is the only one.
LEMMA HandleClosed ==
    ASSUME ObjectTypes, NoHandleLeft, NEW i \in Instances, Closes(i),
           \A j \in Instances : j # i => spot'[j] = spot[j]
    PROVE  NoHandleLeft'
  <1> SUFFICES ASSUME NEW h \in open' PROVE handle'[h[1]] = h[2] /\ spot'[h[1]] # "done"
    BY DEF NoHandleLeft
  <1>1. open' = open \ {<<i, handle[i]>>} /\ \A j \in Instances : j # i => handle'[j] = handle[j]
    BY ClosesTyped
  <1>2. h \in open /\ h = <<h[1], h[2]>> /\ h[1] \in Instances /\ handle[h[1]] = h[2]
    BY <1>1 DEF ObjectTypes, NoHandleLeft
  <1>3. h[1] # i
    BY <1>1, <1>2
  <1> QED
    BY <1>1, <1>2, <1>3 DEF NoHandleLeft

\* Every step keeps the promise about handles.
LEMMA HandleNext == TypeInv /\ HandleInv /\ [SenderNext]_senderVars => HandleInv'
  <1> SUFFICES ASSUME TypeInv, HandleInv, [SenderNext]_senderVars PROVE HandleInv'
    OBVIOUS
  <1>1. MainTypes /\ ObjectTypes /\ ThreadTypes /\ NoHandleLeft /\ Numbers
        /\ \A i \in Instances : Opener(i) /\ Unborn(i)
    BY TypeParts DEF TypeInv, HandleInv
  <1>2. CASE SenderStart
    <2>1. /\ current' = started + 1 /\ current' \in Instances
          /\ spot' = [spot EXCEPT ![current'] = "first"]
          /\ Opens(current') \/ UNCHANGED <<handle, opened, open>>
      BY <1>1, <1>2, Bounds DEF SenderStart, MainTypes, Instances
    <2>2. spot[current'] = "none" /\ handle[current'] = 0
      BY <1>1, <2>1, Bounds DEF Unborn, MainTypes
    <2>3. spot'[current'] = "first" /\ \A j \in Instances : j # current' => spot'[j] = spot[j]
      BY <1>1, <2>1 DEF ThreadTypes
    <2>4. CASE Opens(current')
      <3>1. NoHandleLeft'
        BY <1>1, <2>1, <2>2, <2>3, <2>4, HandleOpened
      <3>2. \A j \in Instances : Opener(j)'
        BY <1>1, <2>1, <2>3, <2>4, OpensTyped DEF Opener
      <3> QED
        BY <3>1, <3>2 DEF HandleInv
    <2>5. CASE UNCHANGED <<handle, opened, open>>
      <3>1. NoHandleLeft'
        BY <1>1, <2>3, <2>5 DEF NoHandleLeft, ObjectTypes
      <3>2. \A j \in Instances : Opener(j)'
        BY <1>1, <2>3, <2>5 DEF Opener
      <3> QED
        BY <3>1, <3>2 DEF HandleInv
    <2> QED
      BY <2>1, <2>4, <2>5
  <1>3. CASE EndClose
    <2>1. current \in Instances /\ Closes(current) /\ spot' = spot
      BY <1>1, <1>3, StopTyped DEF EndClose, Numbers
    <2>2. NoHandleLeft'
      BY <1>1, <2>1, HandleClosed
    <2>3. \A j \in Instances : Opener(j)'
      BY <1>1, <2>1, ClosesTyped DEF Opener
    <2> QED
      BY <2>2, <2>3 DEF HandleInv
  <1>4. CASE EndFlag \/ EndDrain \/ EndJoin \/ Data \/ UNCHANGED senderVars
    BY <1>1, <1>4 DEF EndFlag, EndDrain, EndJoin, Data, Offer, Queued, QueueFull, DropOldest, senderVars,
                      HandleInv, NoHandleLeft, Opener
  <1>5. ASSUME NEW i \in Instances, Sender(i)
        PROVE  HandleInv'
    <2>1. \A j \in Instances : j # i => spot'[j] = spot[j] /\ handle'[j] = handle[j]
      BY <1>5, OthersKept
    <2>2. CASE Opening(i) \/ Retrying(i)
      <3>1. handle[i] = 0 /\ spot'[i] \in {"loop", "retry"}
        BY <1>1, <2>2 DEF Opening, Retrying, Passes, Opener, ThreadTypes
      <3>2. CASE Opens(i)
        <4>1. NoHandleLeft'
          BY <1>1, <2>1, <3>1, <3>2, HandleOpened
        <4> QED
          BY <1>1, <2>1, <3>1, <4>1 DEF HandleInv, Opener
      <3>3. CASE UNCHANGED object
        <4>1. NoHandleLeft'
          BY <1>1, <2>1, <3>1, <3>3 DEF NoHandleLeft, ObjectTypes
        <4> QED
          BY <1>1, <2>1, <3>1, <4>1 DEF HandleInv, Opener
      <3> QED
        BY <2>2, <3>2, <3>3 DEF Opening, Retrying
    <2>3. CASE Over(i) \/ Failed(i)
      <3>1. Closes(i)
        BY <2>3 DEF Over, Failed
      <3>2. NoHandleLeft' /\ handle'[i] = 0
        BY <1>1, <2>1, <3>1, HandleClosed, ClosesTyped
      <3> QED
        BY <1>1, <2>1, <3>2 DEF HandleInv, Opener
    <2>4. CASE First(i) \/ Retry(i) \/ Going(i) \/ Taken(i) \/ Empty(i) \/ Aim(i) \/ Sent(i)
      <3>1. UNCHANGED <<handle, open>>
        BY <2>4 DEF First, Retry, Going, Taken, Empty, Aim, Sent
      <3>2. spot'[i] # "done" /\ (spot'[i] \in {"opening", "retrying"} => handle[i] = 0)
        BY <1>1, <2>4 DEF First, Retry, Going, Taken, Empty, Aim, Sent, Passes, ThreadTypes
      <3>3. NoHandleLeft'
        BY <1>1, <2>1, <3>1, <3>2 DEF NoHandleLeft, ObjectTypes
      <3> QED
        BY <1>1, <2>1, <3>1, <3>2, <3>3 DEF HandleInv, Opener
    <2> QED
      BY <1>5, <2>2, <2>3, <2>4 DEF Sender
  <1> QED
    BY <1>2, <1>3, <1>4, <1>5 DEF SenderNext, End

\* NoHandleLeft: a handle that is open is the one its instance knows of and can
\* close, and is closed when the thread has ended, for all numbers of instances and
\* of handles they open.
THEOREM HandleCorrect == SenderSpec => []NoHandleLeft
  <1>1. SenderInit => HandleInv
    BY DEF SenderInit, HandleInv, NoHandleLeft, Opener
  <1>2. SenderSpec => []HandleInv
    BY <1>1, HandleNext, SenderTypeCorrect, PTL DEF SenderSpec
  <1>3. HandleInv => NoHandleLeft
    BY DEF HandleInv
  <1> QED
    BY <1>2, <1>3, PTL

-----------------------------------------------------------------------------
(* What is stopped is silent.                                              *)

\* A thread that is told to stop comes to no handle on the way to a block.
LEMMA SilentNext ==
    TypeInv /\ HandleInv /\ StopInv /\ [SenderNext]_senderVars => StopInv'
  <1> SUFFICES ASSUME TypeInv, HandleInv, StopInv, [SenderNext]_senderVars, NEW j \in Instances
               PROVE  Silent(j)'
    BY DEF StopInv
  <1>1. MainTypes /\ ObjectTypes /\ ThreadTypes /\ Numbers /\ Silent(j) /\ Opener(j) /\ Unborn(j)
    BY TypeParts DEF TypeInv, HandleInv, StopInv
  <1>2. CASE SenderStart
    <2>1. /\ current = 0 /\ current' = started + 1 /\ current' \in Instances /\ ending' = ending
          /\ spot' = [spot EXCEPT ![current'] = "first"]
          /\ Opens(current') \/ UNCHANGED <<handle, opened, open>>
      BY <1>1, <1>2, Bounds DEF SenderStart, MainTypes, Instances
    <2>2. CASE j = current'
      BY <1>1, <2>1, <2>2 DEF Silent, ThreadTypes
    <2>3. CASE j # current'
      <3>1. handle'[j] = handle[j] /\ spot'[j] = spot[j] /\ j # current
        BY <1>1, <2>1, <2>3, OpensTyped, Bounds DEF ThreadTypes
      <3> QED
        BY <1>1, <3>1 DEF Silent, Closed
    <2> QED
      BY <2>2, <2>3
  <1>3. CASE EndClose
    <2>1. current \in Instances /\ Closes(current) /\ UNCHANGED <<current, spot>>
      BY <1>1, <1>3, StopTyped DEF EndClose, Numbers
    <2>2. handle'[current] = 0 /\ \A i \in Instances : i # current => handle'[i] = handle[i]
      BY <1>1, <2>1, ClosesTyped
    <2> QED
      BY <1>1, <2>1, <2>2 DEF Silent, Closed
  <1>4. CASE EndFlag \/ EndDrain \/ EndJoin
    <2>1. Closed(j)' => Closed(j)
      BY <1>4 DEF EndFlag, EndDrain, EndJoin, Closed
    <2>2. handle' = handle /\ spot' = spot
      BY <1>4 DEF EndFlag, EndDrain, EndJoin
    <2> QED
      BY <1>1, <2>1, <2>2 DEF Silent
  <1>5. CASE Data \/ UNCHANGED senderVars
    BY <1>1, <1>5 DEF Data, Offer, Queued, QueueFull, DropOldest, senderVars, Silent, Closed
  <1>6. ASSUME NEW i \in Instances, Sender(i)
        PROVE  Silent(j)'
    <2>1. UNCHANGED <<current, ending, on>>
      BY <1>6, SenderAlone
    <2>2. CASE j # i
      BY <1>1, <1>6, <2>1, <2>2, OthersKept DEF Silent, Closed
    <2>3. CASE j = i
      <3>1. CASE First(i) \/ Opening(i) \/ Retry(i) \/ Retrying(i) \/ Over(i) \/ Empty(i) \/ Sent(i) \/ Failed(i)
        BY <1>1, <2>3, <3>1 DEF First, Opening, Retry, Retrying, Over, Empty, Sent, Failed, Passes,
                                Silent, ThreadTypes
      <3>2. CASE Going(i)
        <4>1. on[j]
          BY <2>3, <3>2 DEF Going
        <4>2. ~Closed(j)
          BY <1>1, <4>1 DEF Numbers, Closed
        <4> QED
          BY <2>1, <4>2 DEF Silent, Closed
      <3>3. CASE Taken(i) \/ Aim(i)
        <4>1. spot[j] \in {"get", "taken"} /\ handle' = handle
          BY <2>3, <3>3 DEF Taken, Aim, Passes
        <4> QED
          BY <1>1, <2>1, <4>1 DEF Silent, Closed
      <3> QED
        BY <1>6, <3>1, <3>2, <3>3 DEF Sender
    <2> QED
      BY <2>2, <2>3
  <1> QED
    BY <1>2, <1>3, <1>4, <1>5, <1>6 DEF SenderNext, End

\* A step that sends is of a thread whose handle is open.
LEMMA SendingStep ==
    ASSUME [SenderNext]_senderVars, sent' # sent
    PROVE  \E i \in Instances : Sent(i)
  <1>1. ~UNCHANGED sent
    OBVIOUS
  <1> QED
    BY <1>1 DEF SenderNext, senderVars, SenderStart, End, EndFlag, EndClose, EndDrain, EndJoin, Data, Offer,
                Queued, QueueFull, DropOldest, Sender, First, Opening, Retry, Retrying, Going, Over, Taken,
                Empty, Aim, Failed

\* Whoever sends has not been stopped.
LEMMA SentOpen ==
    ASSUME TypeInv, HandleInv, StopInv, NEW i \in Instances, Sent(i)
    PROVE  ~Closed(i)
  <1>1. <<i, local[i]>> \in open /\ spot[i] = "sending"
    BY DEF Sent, Passes
  <1>2. ObjectTypes /\ NoHandleLeft /\ Silent(i)
    BY TypeParts DEF TypeInv, HandleInv, StopInv
  <1>3. handle[i] # 0
    BY <1>1, <1>2, NoneOpen
  <1> QED
    BY <1>1, <1>2, <1>3 DEF Silent

\* StoppedSilent: an instance whose stop has closed its handle sends nothing any
\* more, for all numbers of instances, though its thread lives on and may open
\* another handle.
THEOREM SilentCorrect == SenderSpec => StoppedSilent
  <1>1. SenderInit => HandleInv /\ StopInv
    BY DEF SenderInit, HandleInv, NoHandleLeft, Opener, StopInv, Silent
  <1>2. SenderSpec => [](TypeInv /\ HandleInv /\ StopInv)
    BY <1>1, HandleNext, SilentNext, SenderTypeCorrect, PTL DEF SenderSpec
  <1>3. TypeInv /\ HandleInv /\ StopInv /\ [SenderNext]_senderVars =>
            [sent' # sent => sent'.by = current /\ ending \in {"no", "close"}]_senderVars
    <2> SUFFICES ASSUME TypeInv, HandleInv, StopInv, [SenderNext]_senderVars, sent' # sent
                 PROVE  sent'.by = current /\ ending \in {"no", "close"}
      OBVIOUS
    <2>1. PICK i \in Instances : Sent(i)
      BY SendingStep
    <2>2. ~Closed(i) /\ sent'.by = i
      BY <2>1, SentOpen DEF Sent
    <2> QED
      BY <2>2 DEF Closed, TypeInv, SenderTypeOK
  <1> QED
    BY <1>2, <1>3, PTL DEF SenderSpec, StoppedSilent

-----------------------------------------------------------------------------
(* The order of the data.                                                  *)

\* What is known of the numbers.
LEMMA Blocks ==
    ASSUME TypeInv, NEW i \in Instances
    PROVE  /\ queue[i] \in Seq(1..MaxBlocks) /\ Len(queue[i]) \in Nat
           /\ \A a \in 1..Len(queue[i]) : queue[i][a] \in Nat \ {0}
           /\ block[i] \in Nat /\ offered \in Nat /\ sent.block \in Nat
  <1>1. queue[i] \in Seq(1..MaxBlocks) /\ block[i] \in 0..MaxBlocks /\ offered \in 0..MaxBlocks
        /\ sent.block \in 0..MaxBlocks
    BY DEF TypeInv, SenderTypeOK
  <1>2. \A a \in 1..Len(queue[i]) : queue[i][a] \in 1..MaxBlocks
    BY <1>1, ElementOfSeq
  <1> QED
    BY <1>1, <1>2, Bounds

\* Below, of the next state.
BelowNext(b) == b <= offered' /\ (offering' # 0 => b < offered')

\* What is below the offered block stays below it, if none is offered anew that
\* was offered before.
LEMMA BelowKept ==
    ASSUME NEW b \in Nat, offered \in Nat, Below(b),
           \/ offered' = offered /\ (offering' # 0 => offering # 0)
           \/ offered' = offered + 1
    PROVE  BelowNext(b)
  BY DEF Below, BelowNext

\* An instance that keeps what it has, or loses some of it.
LEMMA OrderKept ==
    ASSUME TypeInv, NEW i \in Instances, Ascending(i), Ahead(i),
           \/ queue'[i] = queue[i]
           \/ queue'[i] = <<>>
           \/ queue[i] # <<>> /\ queue'[i] = Tail(queue[i]),
           block'[i] = block[i] \/ block'[i] = 0,
           spot'[i] \in {"taken", "sending"} => spot[i] \in {"taken", "sending"} /\ block'[i] = block[i],
           \/ offered' = offered /\ (offering' # 0 => offering # 0)
           \/ offered' = offered + 1,
           Closed(i) => Closed(i)', sent' = sent
    PROVE  Ascending(i)' /\ Ahead(i)'
  <1>1. /\ queue[i] \in Seq(1..MaxBlocks) /\ Len(queue[i]) \in Nat
        /\ \A a \in 1..Len(queue[i]) : queue[i][a] \in Nat \ {0}
        /\ block[i] \in Nat /\ offered \in Nat /\ sent.block \in Nat
    BY Blocks
  <1>2. \E d \in {0, 1} : /\ Len(queue'[i]) \in Nat /\ Len(queue'[i]) + d <= Len(queue[i])
                          /\ \A a \in 1..Len(queue'[i]) : queue'[i][a] = queue[i][a + d]
    <2>1. CASE queue'[i] = queue[i]
      BY <1>1, <2>1
    <2>2. CASE queue'[i] = <<>>
      <3>1. Len(queue'[i]) = 0 /\ 1..0 = {}
        BY <2>2, EmptySeq
      <3> QED
        BY <1>1, <3>1
    <2>3. CASE queue[i] # <<>> /\ queue'[i] = Tail(queue[i])
      <3>1. /\ Len(queue'[i]) = Len(queue[i]) - 1 /\ Len(queue[i]) > 0
            /\ \A a \in 1..Len(queue'[i]) : queue'[i][a] = queue[i][a + 1]
        BY <1>1, <2>3, HeadTailProperties, EmptySeq
      <3> QED
        BY <1>1, <3>1
    <2> QED
      BY <2>1, <2>2, <2>3
  <1>3. PICK d \in {0, 1} : /\ Len(queue'[i]) \in Nat /\ Len(queue'[i]) + d <= Len(queue[i])
                            /\ \A a \in 1..Len(queue'[i]) : queue'[i][a] = queue[i][a + d]
    BY <1>2
  <1>4. \A a \in 1..Len(queue'[i]) : a + d \in 1..Len(queue[i])
    BY <1>1, <1>3
  <1>5. ASSUME NEW a \in 1..Len(queue'[i]), NEW b \in 1..Len(queue'[i]), a < b
        PROVE  queue'[i][a] < queue'[i][b]
    <2>1. a + d < b + d
      BY <1>3, <1>5
    <2> QED
      BY <1>3, <1>4, <1>5, <2>1 DEF Ascending
  <1>6. ASSUME NEW a \in 1..Len(queue'[i])
        PROVE  BelowNext(queue'[i][a]) /\ block'[i] < queue'[i][a] /\ (~Closed(i)' => sent'.block < queue'[i][a])
    <2>1. queue'[i][a] = queue[i][a + d] /\ a + d \in 1..Len(queue[i])
      BY <1>3, <1>4, <1>6
    <2>2. Below(queue[i][a + d]) /\ block[i] < queue[i][a + d] /\ queue[i][a + d] \in Nat \ {0}
      BY <1>1, <2>1 DEF Ascending
    <2>3. BelowNext(queue'[i][a])
      BY <1>1, <2>1, <2>2, BelowKept
    <2>4. block'[i] < queue'[i][a]
      BY <1>1, <2>1, <2>2
    <2>5. ~Closed(i)' => sent'.block < queue'[i][a]
      BY <2>1 DEF Ahead
    <2> QED
      BY <2>3, <2>4, <2>5
  <1>7. BelowNext(block'[i])
    <2>1. Below(block[i]) /\ Below(0)
      BY <1>1 DEF Ascending, Below
    <2>2. block'[i] \in Nat /\ Below(block'[i])
      BY <1>1, <2>1
    <2> QED
      BY <1>1, <2>2, BelowKept
  <1>8. spot'[i] \in {"taken", "sending"} => block'[i] # 0
    BY DEF Ascending
  <1>9. ~Closed(i)' => (block'[i] # 0 => sent'.block < block'[i])
    BY DEF Ahead
  <1> QED
    BY <1>5, <1>6, <1>7, <1>8, <1>9 DEF Ascending, Ahead, Below, BelowNext

\* The offered block is put behind all others.
LEMMA OrderQueued ==
    ASSUME TypeInv, Queued, NEW o \in Instances, o = offering,
           Ascending(o), Ahead(o), Below(sent.block)
    PROVE  Ascending(o)' /\ Ahead(o)'
  <1> DEFINE q == queue[o]
  <1>1. o # 0 /\ offering' = 0 /\ offered' = offered
        /\ UNCHANGED <<block, spot, sent, current, ending>>
    BY Offering DEF Queued
  <1> USE <1>1
  <1>2. /\ q \in Seq(1..MaxBlocks) /\ Len(q) \in Nat
        /\ \A a \in 1..Len(q) : q[a] \in Nat \ {0}
        /\ block[o] \in Nat /\ offered \in Nat /\ sent.block \in Nat
    BY Blocks
  <1>3. queue'[o] = Append(q, offered) /\ offered \in 1..MaxBlocks
    BY Offering DEF Queued, TypeInv, SenderTypeOK
  <1>4. /\ Len(queue'[o]) = Len(q) + 1 /\ queue'[o][Len(q) + 1] = offered
        /\ \A a \in 1..Len(q) : queue'[o][a] = q[a]
    BY <1>2, <1>3
  <1>5. \A a \in 1..Len(q) : q[a] < offered /\ block[o] < q[a]
    BY DEF Ascending, Below
  <1>6. block[o] < offered /\ sent.block < offered
    BY DEF Ascending, Below
  <1>7. \A a, b \in 1..Len(q) : a < b => q[a] < q[b]
    BY DEF Ascending
  <1>8. ASSUME NEW a \in 1..(Len(q) + 1)
        PROVE  /\ queue'[o][a] <= offered /\ block[o] < queue'[o][a]
               /\ ~Closed(o) => sent.block < queue'[o][a]
               /\ \A b \in 1..(Len(q) + 1) : a < b => queue'[o][a] < queue'[o][b]
    <2>1. CASE a = Len(q) + 1
      BY <1>2, <1>4, <1>6, <2>1
    <2>2. CASE a \in 1..Len(q)
      <3>1. queue'[o][a] = q[a] /\ q[a] \in Nat /\ q[a] < offered /\ block[o] < q[a]
        BY <1>2, <1>4, <1>5, <2>2
      <3>2. ~Closed(o) => sent.block < q[a]
        BY <2>2 DEF Ahead
      <3>3. ASSUME NEW b \in 1..(Len(q) + 1), a < b
            PROVE  queue'[o][a] < queue'[o][b]
        <4>1. CASE b = Len(q) + 1
          BY <1>4, <3>1, <4>1
        <4>2. CASE b \in 1..Len(q)
          BY <1>4, <1>7, <2>2, <3>1, <3>3, <4>2
        <4> QED
          BY SMTT(30), <1>2, <3>3, <4>1, <4>2
      <3> QED
        BY <1>2, <3>1, <3>2, <3>3
    <2> QED
      BY <1>2, <1>8, <2>1, <2>2
  <1>9. Ascending(o)'
    BY <1>2, <1>4, <1>6, <1>8 DEF Ascending, Below
  <1>10. Ahead(o)'
    BY <1>4, <1>8 DEF Ahead, Closed
  <1> QED
    BY <1>9, <1>10

\* A thread takes the first block of its queue.
LEMMA OrderTaken ==
    ASSUME TypeInv, NEW i \in Instances, Taken(i), Ascending(i), Ahead(i)
    PROVE  Ascending(i)' /\ Ahead(i)'
  <1> DEFINE q == queue[i]
  <1>1. UNCHANGED <<offered, offering, sent, current, ending>>
    BY DEF Taken
  <1>2. /\ q \in Seq(1..MaxBlocks) /\ q # <<>> /\ Len(q) \in Nat
        /\ \A a \in 1..Len(q) : q[a] \in Nat \ {0}
        /\ sent.block \in Nat
    BY Blocks DEF Taken
  <1>3. Len(q) > 0
    BY <1>2, EmptySeq
  <1>4. queue'[i] = Tail(q) /\ block'[i] = q[1]
    BY <1>2, <1>3 DEF Taken, TypeInv, SenderTypeOK
  <1>5. Len(queue'[i]) = Len(q) - 1 /\ \A a \in 1..(Len(q) - 1) : queue'[i][a] = q[a + 1]
    BY <1>2, <1>4, HeadTailProperties
  <1>6. 1 \in 1..Len(q) /\ \A a \in 1..(Len(q) - 1) : a + 1 \in 1..Len(q) /\ 1 < a + 1
    BY <1>2, <1>3
  <1>7. \A a, b \in 1..Len(q) : a < b => q[a] < q[b]
    BY DEF Ascending
  <1>8. \A a \in 1..Len(q) : Below(q[a]) /\ (~Closed(i) => sent.block < q[a])
    BY DEF Ascending, Ahead
  <1>9. ASSUME NEW a \in 1..(Len(q) - 1)
        PROVE  /\ queue'[i][a] = q[a + 1] /\ q[1] < q[a + 1] /\ Below(q[a + 1])
               /\ ~Closed(i) => sent.block < q[a + 1]
               /\ \A b \in 1..(Len(q) - 1) : a < b => queue'[i][a] < queue'[i][b]
    <2>1. queue'[i][a] = q[a + 1] /\ a + 1 \in 1..Len(q) /\ 1 < a + 1
      BY <1>5, <1>6, <1>9
    <2>2. q[1] < q[a + 1] /\ Below(q[a + 1]) /\ (~Closed(i) => sent.block < q[a + 1])
      BY <1>6, <1>7, <1>8, <2>1
    <2>3. ASSUME NEW b \in 1..(Len(q) - 1), a < b
          PROVE  queue'[i][a] < queue'[i][b]
      <3>1. queue'[i][b] = q[b + 1] /\ b + 1 \in 1..Len(q) /\ a + 1 < b + 1
        BY <1>5, <1>6, <1>9, <2>3
      <3> QED
        BY <1>7, <2>1, <3>1
    <2> QED
      BY <2>1, <2>2, <2>3
  <1>10. Ascending(i)'
    <2>1. Below(q[1]) /\ q[1] # 0
      BY <1>2, <1>6, <1>8
    <2> QED
      BY <1>1, <1>4, <1>5, <1>9, <2>1 DEF Ascending, Below
  <1>11. Ahead(i)'
    BY <1>1, <1>4, <1>5, <1>6, <1>8, <1>9 DEF Ahead, Closed
  <1> QED
    BY <1>10, <1>11

\* A block is sent: it is behind the last one that was, and before all the others
\* of its instance, which is the only one that may send.
LEMMA OrderSent ==
    ASSUME TypeInv, OrderInv, NEW i \in Instances, Sent(i), ~Closed(i)
    PROVE  OrderInv' /\ sent'.block > sent.block
  <1>1. /\ spot[i] = "sending" /\ sent'.block = block[i] /\ queue' = queue
        /\ UNCHANGED <<offered, offering, current, ending>>
    BY DEF Sent, Passes
  <1>2. /\ block'[i] = 0 /\ spot'[i] = "loop"
        /\ \A j \in Instances : j # i => block'[j] = block[j] /\ spot'[j] = spot[j]
    BY DEF Sent, Passes, TypeInv, SenderTypeOK
  <1>3. Ascending(i) /\ Ahead(i) /\ block[i] # 0
    BY <1>1 DEF OrderInv, Ascending
  <1>4. sent'.block > sent.block
    BY <1>1, <1>3, Blocks DEF Ahead
  <1>5. Below(sent.block)'
    BY <1>1, <1>3 DEF Ascending, Below
  <1>6. Ascending(i)' /\ Ahead(i)'
    <2>1. \A a \in 1..Len(queue[i]) : queue[i][a] \in Nat \ {0}
      BY Blocks
    <2>2. offered \in Nat
      BY Blocks
    <2>3. Below(0)
      BY <2>2, <1>3, Blocks DEF Ascending, Below
    <2> QED
      BY <1>1, <1>2, <1>3, <2>1, <2>3 DEF Ascending, Ahead, Below, Closed
  <1>7. ASSUME NEW j \in Instances, j # i
        PROVE  Ascending(j)' /\ Ahead(j)'
    <2>1. Closed(j)'
      BY <1>1, <1>7 DEF Closed
    <2>2. Ascending(j)'
      BY <1>1, <1>2, <1>7 DEF OrderInv, Ascending, Below
    <2> QED
      BY <2>1, <2>2 DEF Ahead
  <1> QED
    BY <1>4, <1>5, <1>6, <1>7 DEF OrderInv

\* Every step keeps the order.
LEMMA OrderNext ==
    TypeInv /\ HandleInv /\ StopInv /\ OrderInv /\ [SenderNext]_senderVars => OrderInv'
  <1> SUFFICES ASSUME TypeInv, HandleInv, StopInv, OrderInv, [SenderNext]_senderVars PROVE OrderInv'
    OBVIOUS
  <1>1. /\ MainTypes /\ ObjectTypes /\ ThreadTypes /\ Numbers /\ Below(sent.block)
        /\ \A j \in Instances : Unborn(j) /\ Ascending(j) /\ Ahead(j)
    BY TypeParts DEF TypeInv, OrderInv
  <1>2. offered \in Nat /\ sent.block \in Nat
    BY <1>1, Bounds DEF MainTypes
  <1>3. CASE SenderStart
    <2>1. /\ current = 0 /\ current' = started + 1 /\ current' \in Instances
          /\ spot' = [spot EXCEPT ![current'] = "first"]
          /\ UNCHANGED <<queue, block, offered, offering, sent>>
      BY <1>1, <1>3, Bounds DEF SenderStart, MainTypes, Instances
    <2>2. Below(sent.block)'
      BY <1>1, <2>1 DEF Below
    <2>3. ASSUME NEW j \in Instances
          PROVE  Ascending(j)' /\ Ahead(j)'
      <3>1. CASE j = current'
        <4>1. queue'[j] = <<>> /\ block'[j] = 0 /\ spot'[j] = "first"
          BY <1>1, <2>1, <3>1, Bounds DEF Unborn, MainTypes, ThreadTypes
        <4>2. Len(queue'[j]) = 0
          BY <4>1, EmptySeq
        <4>3. 1..Len(queue'[j]) = {}
          BY <4>2
        <4>4. Below(0)
          BY <1>1, <1>2 DEF Below
        <4> QED
          BY <2>1, <4>1, <4>3, <4>4 DEF Ascending, Ahead, Below
      <3>2. CASE j # current'
        <4>1. spot'[j] = spot[j] /\ Closed(j)'
          BY <1>1, <2>1, <3>2 DEF ThreadTypes, Closed
        <4> QED
          BY <1>1, <2>1, <4>1, OrderKept
      <3> QED
        BY <3>1, <3>2
    <2> QED
      BY <2>2, <2>3 DEF OrderInv
  <1>4. CASE End \/ UNCHANGED senderVars
    <2>1. UNCHANGED <<block, spot, offered, offering, sent>>
      BY <1>4 DEF End, EndFlag, EndClose, EndDrain, EndJoin, senderVars
    <2>2. ASSUME NEW j \in Instances
          PROVE  Ascending(j)' /\ Ahead(j)'
      <3>1. queue'[j] \in {queue[j], <<>>}
        BY <1>1, <1>4 DEF End, EndFlag, EndClose, EndDrain, EndJoin, senderVars, ThreadTypes
      <3>2. Closed(j) => Closed(j)'
        BY <1>4, Bounds DEF End, EndFlag, EndClose, EndDrain, EndJoin, senderVars, Closed
      <3> QED
        BY <1>1, <2>1, <3>1, <3>2, OrderKept
    <2> QED
      BY <1>1, <2>1, <2>2 DEF OrderInv, Below
  <1>5. CASE Offer \/ QueueFull \/ DropOldest
    <2>1. /\ UNCHANGED <<block, spot, sent, current, ending>>
          /\ \/ offered' = offered /\ (offering' # 0 => offering # 0)
             \/ offered' = offered + 1
      BY <1>5 DEF Offer, QueueFull, DropOldest
    <2>2. ASSUME NEW j \in Instances
          PROVE  Ascending(j)' /\ Ahead(j)'
      <3>1. queue'[j] = queue[j] \/ (queue[j] # <<>> /\ queue'[j] = Tail(queue[j]))
        BY <1>1, <1>5 DEF Offer, QueueFull, DropOldest, ThreadTypes
      <3> QED
        BY <1>1, <2>1, <3>1, OrderKept DEF Closed
    <2>3. Below(sent.block)'
      BY <1>1, <1>2, <2>1, BelowKept DEF Below, BelowNext
    <2> QED
      BY <2>2, <2>3 DEF OrderInv
  <1>6. CASE Queued
    <2>1. offering \in Instances /\ offering' = 0 /\ offered' = offered
          /\ UNCHANGED <<block, spot, sent, current, ending>>
      BY <1>6, Offering DEF Queued
    <2>2. ASSUME NEW j \in Instances
          PROVE  Ascending(j)' /\ Ahead(j)'
      <3>1. CASE j = offering
        BY <1>1, <1>6, <3>1, OrderQueued
      <3>2. CASE j # offering
        <4>1. queue'[j] = queue[j]
          BY <1>1, <1>6, <3>2 DEF Queued, ThreadTypes
        <4> QED
          BY <1>1, <2>1, <4>1, OrderKept DEF Closed
      <3> QED
        BY <3>1, <3>2
    <2>3. Below(sent.block)'
      BY <1>1, <1>2, <2>1 DEF Below
    <2> QED
      BY <2>2, <2>3 DEF OrderInv
  <1>7. ASSUME NEW i \in Instances, Sender(i)
        PROVE  OrderInv'
    <2>1. CASE Sent(i)
      <3>1. ~Closed(i)
        BY <2>1, SentOpen
      <3> QED
        BY <2>1, <3>1, OrderSent
    <2>2. CASE ~Sent(i)
      <3>1. UNCHANGED <<current, ending, offered, offering>>
        BY <1>7, SenderAlone
      <3>2. sent' = sent
        BY <1>7, <2>2 DEF Sender, First, Opening, Retry, Retrying, Going, Over, Taken, Empty, Aim, Failed
      <3>3. ASSUME NEW j \in Instances, j # i
            PROVE  Ascending(j)' /\ Ahead(j)'
        BY <1>1, <1>7, <3>1, <3>2, <3>3, OthersKept, OrderKept DEF Closed
      <3>4. ASSUME Taken(i)
            PROVE  Ascending(i)' /\ Ahead(i)'
        BY <1>1, <3>4, OrderTaken
      <3>5. ASSUME ~Taken(i)
            PROVE  Ascending(i)' /\ Ahead(i)'
        <4>1. /\ queue' = queue /\ (block'[i] = block[i] \/ block'[i] = 0)
              /\ (spot'[i] \in {"taken", "sending"} =>
                     spot[i] \in {"taken", "sending"} /\ block'[i] = block[i])
          BY <1>1, <1>7, <2>2, <3>5 DEF Sender, First, Opening, Retry, Retrying, Going, Over, Empty, Aim,
                                        Failed, Passes, ThreadTypes
        <4>2. Ascending(i) /\ Ahead(i) /\ (Closed(i) => Closed(i)')
          BY <1>1, <3>1 DEF Closed
        <4>3. offered' = offered /\ (offering' # 0 => offering # 0) /\ queue'[i] = queue[i]
          BY <3>1, <4>1
        <4> QED
          BY <3>2, <4>1, <4>2, <4>3, OrderKept
      <3>6. Below(sent.block)'
        BY <1>1, <3>1, <3>2 DEF Below
      <3> QED
        BY <3>3, <3>4, <3>5, <3>6 DEF OrderInv
    <2> QED
      BY <2>1, <2>2
  <1> QED
    BY <1>3, <1>4, <1>5, <1>6, <1>7 DEF SenderNext, Data

\* SentInOrder: blocks are sent in the order of the data and none twice, for all
\* lengths of the queue, whatever is dropped or fails, and from one instance to
\* the next although threads of several instances may be there.
THEOREM OrderCorrect == SenderSpec => SentInOrder
  <1>1. SenderInit => HandleInv /\ StopInv
    BY DEF SenderInit, HandleInv, NoHandleLeft, Opener, StopInv, Silent
  <1>2. SenderInit => OrderInv
    <2> SUFFICES ASSUME SenderInit PROVE OrderInv
      OBVIOUS
    <2>1. Below(0) /\ sent.block = 0 /\ 1..Len(<<>>) = {}
      BY EmptySeq DEF SenderInit, Below
    <2> QED
      BY <2>1 DEF SenderInit, OrderInv, Ascending, Ahead
  <1>3. SenderSpec => [](TypeInv /\ HandleInv /\ StopInv /\ OrderInv)
    BY <1>1, <1>2, HandleNext, SilentNext, OrderNext, SenderTypeCorrect, PTL DEF SenderSpec
  <1>4. TypeInv /\ HandleInv /\ StopInv /\ OrderInv /\ [SenderNext]_senderVars =>
            [sent' # sent => sent'.block > sent.block]_senderVars
    <2> SUFFICES ASSUME TypeInv, HandleInv, StopInv, OrderInv, [SenderNext]_senderVars, sent' # sent
                 PROVE  sent'.block > sent.block
      OBVIOUS
    <2>1. PICK i \in Instances : Sent(i)
      BY SendingStep
    <2> QED
      BY <2>1, SentOpen, OrderSent
  <1> QED
    BY <1>3, <1>4, PTL DEF SenderSpec, SentInOrder

HIDE DEF object, thread, source, mains

-----------------------------------------------------------------------------
(* The local caster.                                                       *)

USE DEF control, publisher, threads, queues

\* What the type invariant needs: a client that has been accepted is one, and
\* what is published is a packet.
AcceptedIsPeer ==
    accepting \in {"count", "add"} => accepted \in Peers /\ at[accepted] = "backlog"

PublishedIsPacket == publishing # "no" => packet > 0

CasterTypeInv == CasterTypeOK /\ AcceptedIsPeer /\ PublishedIsPacket

\* What ClientLimit needs: only the accept thread adds, after it has counted.
LimitInv == ClientLimit /\ (accepting = "add" => Cardinality(clients) < MaxClients)

\* A client that is not served yet has nothing.
Fresh(p) ==
    at[p] \in {"away", "backlog", "refused"} =>
        got[p] = 0 /\ hand[p] = 0 /\ outbox[p] = <<>> /\ p \notin clients /\ p \notin targets

\* A thread holds a packet while it sends it.
Held(p) == hand[p] # 0 <=> at[p] = "send"

Served(p) == at[p] \in {"handshake", "loop", "wait", "send"}

\* What it was sent, what it holds and what is queued follow one another.
Linked(p) ==
    /\ \A i \in 1..(Len(outbox[p]) - 1) : outbox[p][i + 1] = outbox[p][i] + 1
    /\ hand[p] # 0 /\ outbox[p] # <<>> => outbox[p][1] = hand[p] + 1
    /\ got[p] # 0 /\ hand[p] # 0 => hand[p] = got[p] + 1
    /\ got[p] # 0 /\ hand[p] = 0 /\ outbox[p] # <<>> => outbox[p][1] = got[p] + 1

\* The last packet of this row; 0 is none.
Newest(p) ==
    IF outbox[p] # <<>> THEN outbox[p][Len(outbox[p])]
    ELSE IF hand[p] # 0 THEN hand[p] ELSE got[p]

Awaiting(p) == publishing = "put" /\ p \in targets

\* It is the packet before the one a client is about to be given, and for the
\* others the last one published.
Behind(p) ==
    Newest(p) # 0 =>
        /\ Awaiting(p) => Newest(p) = packet - 1
        /\ p \in clients /\ alive[p] /\ ~Awaiting(p) =>
               Newest(p) = IF publishing = "list" THEN packet - 1 ELSE packet

RowOf(p) == Fresh(p) /\ Held(p) /\ (Served(p) => Linked(p) /\ Behind(p))

RowInv == \A p \in Peers : RowOf(p)

-----------------------------------------------------------------------------
(* Types.                                                                  *)

CasterThreadTypes ==
    /\ at \in [Peers -> Positions] /\ alive \in [Peers -> BOOLEAN] /\ shut \in [Peers -> BOOLEAN]
    /\ outbox \in [Peers -> Seq(1..MaxPackets)]
    /\ hand \in [Peers -> 0..MaxPackets] /\ got \in [Peers -> 0..MaxPackets]

ControlTypes ==
    /\ running \in BOOLEAN /\ listening \in BOOLEAN
    /\ accepting \in {"none", "loop", "accept", "count", "add", "done"} /\ accepted \in Peers \cup {NoPeer}
    /\ stopping \in {"no", "listen", "list", "clients", "done"}
    /\ clients \subseteq Peers /\ closing \subseteq Peers /\ targets \subseteq Peers
    /\ publishing \in {"no", "list", "put"} /\ packet \in 0..MaxPackets

\* The two halves of the type invariant.
LEMMA CasterTypeParts == CasterTypeOK <=> ControlTypes /\ CasterThreadTypes
  BY DEF CasterTypeOK, ControlTypes, CasterThreadTypes

\* The same of the next state.
LEMMA CasterTypePartsNext == ControlTypes' /\ CasterThreadTypes' => CasterTypeOK'
  BY DEF CasterTypeOK, ControlTypes, CasterThreadTypes

\* The caster begins well typed.
LEMMA CasterTypeInit == CasterInit => CasterTypeInv
  <1> SUFFICES ASSUME CasterInit PROVE CasterTypeInv
    OBVIOUS
  <1>1. ControlTypes
    <2>1. 0 \in 0..MaxPackets
      BY CasterAssumption
    <2> QED
      BY <2>1 DEF CasterInit, ControlTypes
  <1>2. CasterThreadTypes
    <2>1. <<>> \in Seq(1..MaxPackets)
      OBVIOUS
    <2>2. 0 \in 0..MaxPackets
      BY CasterAssumption
    <2> QED
      BY <2>1, <2>2 DEF CasterInit, CasterThreadTypes, Positions
  <1> QED
    BY <1>1, <1>2, CasterTypeParts DEF CasterInit, CasterTypeInv, AcceptedIsPeer, PublishedIsPacket

\* The threads' variables are functions of the right kind after every step.
LEMMA ThreadsTyped == CasterTypeInv /\ [CasterNext]_casterVars => CasterThreadTypes'
  <1> SUFFICES ASSUME CasterTypeInv, [CasterNext]_casterVars PROVE CasterThreadTypes'
    OBVIOUS
  <1> USE DEF CasterThreadTypes, Positions
  <1>1. CasterThreadTypes /\ packet \in 0..MaxPackets /\ (publishing # "no" => packet > 0)
    BY CasterTypeParts DEF CasterTypeInv, PublishedIsPacket, ControlTypes
  <1>2. CASE CasterStart \/ StopFlag \/ StopListen \/ StopList \/ StopJoin
    BY <1>1, <1>2 DEF CasterStart, StopFlag, StopListen, StopList, StopJoin
  <1>3. ASSUME NEW p \in Peers, StopClient(p)
        PROVE  CasterThreadTypes'
    BY <1>1, <1>3 DEF StopClient
  <1>4. CASE AcceptLoop \/ (\E p \in Peers : Accept(p)) \/ AcceptNone
    BY <1>1, <1>4 DEF AcceptLoop, Accept, AcceptNone
  <1>5. CASE AcceptCount \/ AcceptAdd
    BY <1>1, <1>5 DEF AcceptCount, AcceptAdd
  <1>6. CASE Publish \/ PublishList \/ Published
    BY <1>1, <1>6 DEF Publish, PublishList, Published
  <1>7. ASSUME NEW p \in Peers, Put(p)
        PROVE  CasterThreadTypes'
    <2>1. packet \in 1..MaxPackets
      BY <1>1, <1>7 DEF Put
    <2>2. outbox' \in [Peers -> Seq(1..MaxPackets)]
      <3>1. outbox[p] \in Seq(1..MaxPackets)
        BY <1>1
      <3>2. Append(outbox[p], packet) \in Seq(1..MaxPackets)
        BY <2>1, <3>1
      <3> QED
        BY <1>1, <1>7, <3>2 DEF Put
    <2>3. alive' \in [Peers -> BOOLEAN] /\ shut' \in [Peers -> BOOLEAN]
      BY <1>1, <1>7, Zenon DEF Put
    <2> QED
      BY <1>1, <1>7, <2>2, <2>3 DEF Put
  <1>8. ASSUME NEW p \in Peers, Connect(p) \/ HandshakeOk(p) \/ HandshakeEnds(p) \/ Loop(p) \/ Peek(p)
        PROVE  CasterThreadTypes'
    BY <1>1, <1>8 DEF Connect, HandshakeOk, HandshakeEnds, Loop, Peek, Moves
  <1>9. ASSUME NEW p \in Peers, Get(p)
        PROVE  CasterThreadTypes'
    <2>1. outbox[p] \in Seq(1..MaxPackets) /\ outbox[p] # <<>>
      BY <1>1, <1>9 DEF Get
    <2>2. Head(outbox[p]) \in 1..MaxPackets /\ Tail(outbox[p]) \in Seq(1..MaxPackets)
      BY <2>1, HeadTailProperties
    <2>3. Head(outbox[p]) \in 0..MaxPackets
      BY <2>2, CasterAssumption
    <2>4. outbox' \in [Peers -> Seq(1..MaxPackets)] /\ hand' \in [Peers -> 0..MaxPackets]
      BY <1>1, <1>9, <2>2, <2>3 DEF Get
    <2>5. at' \in [Peers -> Positions]
      BY <1>1, <1>9 DEF Get, Moves
    <2> QED
      BY <1>1, <1>9, <2>4, <2>5 DEF Get
  <1>10. ASSUME NEW p \in Peers, Send(p) \/ SendFails(p)
         PROVE  CasterThreadTypes'
    <2>1. 0 \in 0..MaxPackets
      BY CasterAssumption
    <2>2. at' \in [Peers -> Positions] /\ hand' \in [Peers -> 0..MaxPackets]
      <3>1. at' \in {[at EXCEPT ![p] = "loop"], [at EXCEPT ![p] = "leaving"]}
        BY <1>10 DEF Send, SendFails, Moves
      <3>2. hand' = [hand EXCEPT ![p] = 0]
        BY <1>10 DEF Send, SendFails
      <3>3. "loop" \in Positions /\ "leaving" \in Positions
        OBVIOUS
      <3> QED
        BY <1>1, <2>1, <3>1, <3>2, <3>3
    <2>3. got' \in [Peers -> 0..MaxPackets]
      BY <1>1, <1>10 DEF Send, SendFails
    <2>4. alive' = alive /\ shut' = shut /\ outbox' = outbox
      BY <1>10 DEF Send, SendFails
    <2> QED
      BY <1>1, <2>2, <2>3, <2>4, Zenon
  <1>11. ASSUME NEW p \in Peers, Leave(p)
         PROVE  CasterThreadTypes'
    BY <1>1, <1>11 DEF Leave, Moves
  <1>12. CASE UNCHANGED casterVars
    BY <1>1, <1>12 DEF casterVars
  <1> QED
    BY <1>2, <1>3, <1>4, <1>5, <1>6, <1>7, <1>8, <1>9, <1>10, <1>11, <1>12
       DEF CasterNext, Stop, Accepting, Publishing, Serving

\* So are the others, and what is accepted is a client that waits for it.
LEMMA ControlTyped ==
    CasterTypeInv /\ [CasterNext]_casterVars => ControlTypes' /\ AcceptedIsPeer' /\ PublishedIsPacket'
  <1> SUFFICES ASSUME CasterTypeInv, [CasterNext]_casterVars
               PROVE  ControlTypes' /\ AcceptedIsPeer' /\ PublishedIsPacket'
    OBVIOUS
  <1> USE DEF ControlTypes, AcceptedIsPeer, PublishedIsPacket
  <1>1. /\ ControlTypes /\ AcceptedIsPeer /\ PublishedIsPacket
        /\ at \in [Peers -> Positions] /\ alive \in [Peers -> BOOLEAN]
    BY CasterTypeParts DEF CasterTypeInv, CasterThreadTypes
  <1>2. CASE CasterStart \/ StopFlag \/ StopListen \/ StopList \/ StopJoin
    BY <1>1, <1>2 DEF CasterStart, StopFlag, StopListen, StopList, StopJoin
  <1>3. ASSUME NEW p \in Peers, StopClient(p)
        PROVE  ControlTypes' /\ AcceptedIsPeer' /\ PublishedIsPacket'
    BY <1>1, <1>3 DEF StopClient
  <1>4. CASE AcceptLoop \/ AcceptNone
    BY <1>1, <1>4 DEF AcceptLoop, AcceptNone
  <1>5. ASSUME NEW p \in Peers, Accept(p)
        PROVE  ControlTypes' /\ AcceptedIsPeer' /\ PublishedIsPacket'
    BY <1>1, <1>5 DEF Accept
  <1>6. CASE AcceptCount \/ AcceptAdd
    BY <1>1, <1>6 DEF AcceptCount, AcceptAdd
  <1>7. CASE Publish \/ PublishList \/ Published
    BY <1>1, <1>7, CasterAssumption DEF Publish, PublishList, Published
  <1>8. ASSUME NEW p \in Peers, Put(p)
        PROVE  ControlTypes' /\ AcceptedIsPeer' /\ PublishedIsPacket'
    BY <1>1, <1>8 DEF Put
  <1>9. ASSUME NEW p \in Peers, Connect(p) \/ Serving(p) \/ Send(p) \/ SendFails(p)
        PROVE  ControlTypes' /\ AcceptedIsPeer' /\ PublishedIsPacket'
    <2>1. at[p] # "backlog" /\ at' = [at EXCEPT ![p] = at'[p]] /\ clients' \subseteq clients
          /\ UNCHANGED <<control, publisher>>
      BY <1>1, <1>9 DEF Connect, Serving, HandshakeOk, HandshakeEnds, Loop, Get, Peek, Send, SendFails,
                        Leave, Moves
    <2> QED
      BY <1>1, <2>1
  <1>10. CASE UNCHANGED casterVars
    BY <1>1, <1>10 DEF casterVars
  <1> QED
    BY <1>2, <1>3, <1>4, <1>5, <1>6, <1>7, <1>8, <1>9, <1>10
       DEF CasterNext, Stop, Accepting, Publishing

\* CasterTypeOK: the caster's variables keep their types, for all bounds.
THEOREM CasterTypeCorrect == CasterSpec => []CasterTypeInv
  <1>1. CasterTypeInv /\ [CasterNext]_casterVars => CasterTypeInv'
    BY ThreadsTyped, ControlTyped, CasterTypePartsNext DEF CasterTypeInv
  <1> QED
    BY CasterTypeInit, <1>1, PTL DEF CasterSpec

-----------------------------------------------------------------------------
(* The limit.                                                              *)

\* The clients that are counted are finitely many, and so are all parts of them.
LEMMA ClientsFinite ==
    ASSUME NEW C \in SUBSET Peers
    PROVE  IsFiniteSet(C) /\ Cardinality(C) \in Nat
           /\ \A D \in SUBSET C : Cardinality(D) <= Cardinality(C) /\ Cardinality(D) \in Nat
  <1>1. IsFiniteSet(C)
    BY PeersAssumption, FS_Subset
  <1>2. ASSUME NEW D \in SUBSET C
        PROVE  Cardinality(D) <= Cardinality(C) /\ Cardinality(D) \in Nat
    BY <1>1, FS_Subset, FS_CardinalityType
  <1> QED
    BY <1>1, <1>2, FS_CardinalityType

\* A step that adds no client keeps the limit.
LEMMA FewerClients ==
    ASSUME CasterTypeInv, LimitInv, clients' \subseteq clients, accepting' = "add" => accepting = "add"
    PROVE  LimitInv'
  <1>1. clients \in SUBSET Peers
    BY DEF CasterTypeInv, CasterTypeOK
  <1>2. Cardinality(clients') <= Cardinality(clients) /\ Cardinality(clients) \in Nat
        /\ Cardinality(clients') \in Nat
    BY <1>1, ClientsFinite
  <1> QED
    BY <1>2, CasterAssumption DEF LimitInv, ClientLimit

\* Every step keeps the limit.
LEMMA LimitNext == CasterTypeInv /\ LimitInv /\ [CasterNext]_casterVars => LimitInv'
  <1> SUFFICES ASSUME CasterTypeInv, LimitInv, [CasterNext]_casterVars PROVE LimitInv'
    OBVIOUS
  <1>1. clients \in SUBSET Peers /\ Cardinality(clients) \in Nat
    BY ClientsFinite DEF CasterTypeInv, CasterTypeOK
  <1>2. CASE AcceptAdd
    <2>1. IsFiniteSet(clients)
      BY <1>1, ClientsFinite
    <2>2. Cardinality(clients \cup {accepted}) \in {Cardinality(clients), Cardinality(clients) + 1}
      BY <2>1, FS_AddElement
    <2>3. Cardinality(clients) < MaxClients
      BY <1>2 DEF AcceptAdd, LimitInv
    <2> QED
      BY <1>1, <1>2, <2>2, <2>3, CasterAssumption DEF AcceptAdd, LimitInv, ClientLimit
  <1>3. CASE AcceptCount
    <2>1. clients' = clients
      BY <1>3 DEF AcceptCount
    <2>2. accepting' = "add" => Cardinality(clients) < MaxClients
      BY <1>1, <1>3, CasterAssumption DEF AcceptCount, Full
    <2> QED
      BY <2>1, <2>2 DEF LimitInv, ClientLimit
  <1>4. CASE CasterStart \/ Stop \/ Publishing
    <2>1. clients' \subseteq clients /\ (accepting' = "add" => accepting = "add")
      BY <1>4 DEF CasterStart, Stop, StopFlag, StopListen, StopList, StopClient, StopJoin,
                  Publishing, Publish, PublishList, Put, Published
    <2> QED
      BY <2>1, FewerClients
  <1>5. CASE AcceptLoop \/ (\E p \in Peers : Accept(p)) \/ AcceptNone
    <2>1. clients' \subseteq clients /\ (accepting' = "add" => accepting = "add")
      BY <1>5 DEF AcceptLoop, Accept, AcceptNone
    <2> QED
      BY <2>1, FewerClients
  <1>6. ASSUME NEW p \in Peers, Connect(p) \/ Serving(p) \/ Send(p) \/ SendFails(p)
        PROVE  LimitInv'
    <2>1. clients' \subseteq clients /\ accepting' = accepting
      BY <1>6 DEF Connect, Serving, HandshakeOk, HandshakeEnds, Loop, Get, Peek, Send, SendFails, Leave
    <2> QED
      BY <2>1, FewerClients
  <1>7. CASE UNCHANGED casterVars
    BY <1>7, FewerClients DEF casterVars
  <1> QED
    BY <1>2, <1>3, <1>4, <1>5, <1>6, <1>7 DEF CasterNext, Accepting

\* ClientLimit: never more clients than allowed, for all limits and numbers of
\* connections, though counting and adding are two steps.
THEOREM LimitCorrect == CasterSpec => []ClientLimit
  <1>1. CasterInit => LimitInv
    BY CasterAssumption, FS_EmptySet DEF CasterInit, LimitInv, ClientLimit
  <1>2. CasterSpec => []LimitInv
    BY <1>1, LimitNext, CasterTypeCorrect, PTL DEF CasterSpec
  <1>3. LimitInv => ClientLimit
    BY DEF LimitInv
  <1> QED
    BY <1>2, <1>3, PTL

-----------------------------------------------------------------------------
(* No gap.                                                                 *)

\* What is known of a queue.
LEMMA Queue ==
    ASSUME CasterTypeOK, NEW p \in Peers
    PROVE  /\ outbox[p] \in Seq(1..MaxPackets) /\ Len(outbox[p]) \in Nat
           /\ \A i \in 1..Len(outbox[p]) : outbox[p][i] \in Nat \ {0}
           /\ outbox[p] = <<>> <=> Len(outbox[p]) = 0
           /\ hand[p] \in Nat /\ got[p] \in Nat /\ packet \in Nat
  <1>1. outbox[p] \in Seq(1..MaxPackets) /\ hand[p] \in 0..MaxPackets /\ got[p] \in 0..MaxPackets
        /\ packet \in 0..MaxPackets
    BY DEF CasterTypeOK
  <1>2. \A i \in 1..Len(outbox[p]) : outbox[p][i] \in 1..MaxPackets
    BY <1>1, ElementOfSeq
  <1> QED
    BY <1>1, <1>2, CasterAssumption, EmptySeq

\* A step that leaves a client's row alone, and does not make a client of it.
LEMMA RowKept ==
    ASSUME NEW p \in Peers, RowOf(p),
           at'[p] = at[p], hand'[p] = hand[p], got'[p] = got[p], outbox'[p] = outbox[p],
           p \in clients' => p \in clients, alive'[p] => alive[p], UNCHANGED publisher
    PROVE  RowOf(p)'
  BY DEF RowOf, Fresh, Held, Served, Linked, Behind, Newest, Awaiting

\* A step of a thread from one place to another that touches no packet.
LEMMA RowMoved ==
    ASSUME NEW p \in Peers, RowOf(p),
           \/ at[p] = "away" /\ at'[p] = "backlog"
           \/ at[p] \in {"handshake", "loop", "wait"} /\ at'[p] \in {"loop", "wait", "leaving"}
           \/ at[p] = "leaving" /\ at'[p] = "gone",
           hand'[p] = hand[p], got'[p] = got[p], outbox'[p] = outbox[p],
           p \in clients' => p \in clients, alive'[p] => alive[p], UNCHANGED publisher
    PROVE  RowOf(p)'
  BY DEF RowOf, Fresh, Held, Served, Linked, Behind, Newest, Awaiting

\* A client is made of a peer that has nothing.
LEMMA RowBegins ==
    ASSUME CasterTypeOK, NEW p \in Peers, RowOf(p), at[p] = "backlog", at'[p] \in {"refused", "handshake"},
           hand'[p] = hand[p], got'[p] = got[p], outbox'[p] = outbox[p],
           at'[p] = "refused" => p \notin clients', UNCHANGED publisher
    PROVE  RowOf(p)'
  <1>1. got'[p] = 0 /\ hand'[p] = 0 /\ outbox'[p] = <<>> /\ p \notin targets'
    BY DEF RowOf, Fresh
  <1> QED
    BY <1>1 DEF RowOf, Fresh, Held, Served, Linked, Behind, Newest

\* The thread takes the first packet of its queue.
LEMMA RowGet ==
    ASSUME CasterTypeOK, NEW p \in Peers, RowOf(p), Get(p)
    PROVE  RowOf(p)'
  <1> DEFINE q == outbox[p]
  <1>1. /\ q \in Seq(1..MaxPackets) /\ q # <<>> /\ Len(q) \in Nat /\ Len(q) > 0
        /\ \A i \in 1..Len(q) : q[i] \in Nat \ {0}
    BY Queue DEF Get
  <1>2. /\ outbox'[p] = Tail(q) /\ hand'[p] = q[1] /\ got'[p] = got[p]
        /\ at[p] = "wait" /\ at'[p] = "send"
        /\ clients' = clients /\ alive' = alive /\ UNCHANGED publisher
    BY <1>1 DEF Get, Moves, CasterTypeOK
  <1>3. Len(Tail(q)) = Len(q) - 1 /\ \A i \in 1..(Len(q) - 1) : Tail(q)[i] = q[i + 1]
    BY <1>1, HeadTailProperties
  <1>4. Tail(q) = <<>> <=> Len(q) = 1
    <2>1. Tail(q) \in Seq(1..MaxPackets)
      BY <1>1, HeadTailProperties
    <2>2. Tail(q) = <<>> <=> Len(Tail(q)) = 0
      BY <2>1, EmptySeq
    <2> QED
      BY <1>1, <1>3, <2>2
  <1>5. hand[p] = 0 /\ Linked(p) /\ Behind(p)
    BY <1>2 DEF RowOf, Held, Served
  <1>6. Linked(p)'
    BY <1>1, <1>2, <1>3, <1>4, <1>5, Queue DEF Linked
  <1>7. Newest(p)' = Newest(p)
    <2>1. Newest(p) = q[Len(q)]
      BY <1>1 DEF Newest
    <2>2. CASE Len(q) = 1
      <3>1. q[1] # 0 /\ q[Len(q)] = q[1]
        BY <1>1, <2>2
      <3>2. outbox'[p] = <<>> /\ hand'[p] # 0 /\ hand'[p] = Newest(p)
        BY <1>2, <1>4, <2>1, <2>2, <3>1
      <3> QED
        BY <3>2 DEF Newest
    <2>3. CASE Len(q) > 1
      <3>1. Tail(q)[Len(q) - 1] = q[Len(q)]
        BY <1>1, <1>3, <2>3
      <3> QED
        BY <1>1, <1>2, <1>3, <1>4, <2>1, <2>3, <3>1 DEF Newest
    <2>4. Len(q) \in Nat /\ Len(q) > 0
      BY <1>1
    <2>5. \A n \in Nat : n > 0 => n = 1 \/ n > 1
      OBVIOUS
    <2> QED
      BY <2>2, <2>3, <2>4, <2>5, Zenon
  <1>8. Behind(p)'
    BY <1>2, <1>5, <1>7 DEF Behind, Awaiting
  <1>9. Fresh(p)' /\ Held(p)'
    BY <1>1, <1>2 DEF Fresh, Held
  <1> QED
    BY <1>6, <1>8, <1>9 DEF RowOf

\* It has sent a packet, or fails to.
LEMMA RowSend ==
    ASSUME CasterTypeOK, NEW p \in Peers, RowOf(p), Send(p) \/ SendFails(p)
    PROVE  RowOf(p)'
  <1>1. /\ outbox'[p] = outbox[p] /\ hand'[p] = 0 /\ at[p] = "send"
        /\ clients' = clients /\ alive' = alive /\ UNCHANGED publisher
    BY DEF Send, SendFails, Moves, CasterTypeOK
  <1>2. hand[p] # 0 /\ Linked(p) /\ Behind(p)
    BY <1>1 DEF RowOf, Held, Served
  <1>3. CASE Send(p)
    <2>1. got'[p] = hand[p] /\ at'[p] = "loop"
      BY <1>3 DEF Send, Moves, CasterTypeOK
    <2>2. Linked(p)'
      BY <1>1, <1>2, <2>1 DEF Linked
    <2>3. Newest(p)' = Newest(p)
      BY <1>1, <1>2, <2>1 DEF Newest
    <2>4. Behind(p)'
      BY <1>1, <1>2, <2>3 DEF Behind, Awaiting
    <2> QED
      BY <1>1, <2>1, <2>2, <2>4 DEF RowOf, Fresh, Held
  <1>4. CASE SendFails(p)
    <2>1. at'[p] = "leaving"
      BY <1>4 DEF SendFails, Moves, CasterTypeOK
    <2> QED
      BY <1>1, <2>1 DEF RowOf, Fresh, Held, Served
  <1> QED
    BY <1>3, <1>4

\* A client is given the packet that is published, which follows the last of its row.
LEMMA RowPut ==
    ASSUME CasterTypeInv, NEW p \in Peers, RowOf(p), Put(p)
    PROVE  RowOf(p)'
  <1> DEFINE q == outbox[p]
  <1>1. /\ q \in Seq(1..MaxPackets) /\ Len(q) \in Nat /\ (q = <<>> <=> Len(q) = 0)
        /\ \A i \in 1..Len(q) : q[i] \in Nat \ {0}
        /\ hand[p] \in Nat /\ got[p] \in Nat /\ packet \in Nat
    BY Queue DEF CasterTypeInv
  <1>2. /\ publishing = "put" /\ publishing' = "put" /\ p \in targets /\ p \notin targets'
        /\ packet' = packet /\ packet > 0 /\ clients' = clients
        /\ at'[p] = at[p] /\ hand'[p] = hand[p] /\ got'[p] = got[p]
    BY DEF Put, CasterTypeInv, PublishedIsPacket
  <1>3. Fresh(p)' /\ Held(p)'
    BY <1>2 DEF RowOf, Fresh, Held
  <1>4. CASE Len(q) < ClientQueue
    <2>1. outbox'[p] = Append(q, packet)
      BY <1>4 DEF Put, CasterTypeInv, CasterTypeOK
    <2>2. /\ Len(Append(q, packet)) = Len(q) + 1 /\ Append(q, packet)[Len(q) + 1] = packet
          /\ \A i \in 1..Len(q) : Append(q, packet)[i] = q[i]
          /\ Append(q, packet) # <<>>
      BY SMTT(30), <1>1
    <2>3. ASSUME Served(p)
          PROVE  Linked(p)' /\ Behind(p)'
      <3>1. Linked(p) /\ Behind(p) /\ Awaiting(p)
        BY <1>2, <2>3 DEF RowOf, Awaiting
      <3>2. Newest(p) # 0 => Newest(p) = packet - 1
        BY <3>1 DEF Behind
      <3>3. CASE q = <<>>
        <4>1. Len(q) = 0 /\ Append(q, packet)[1] = packet /\ Len(Append(q, packet)) = 1
          BY <1>1, <2>2, <3>3
        <4>2. (IF hand[p] # 0 THEN hand[p] ELSE got[p]) \in {0, packet - 1}
          BY <3>2, <3>3 DEF Newest
        <4>3. Linked(p)'
          <5>1. hand[p] # 0 => packet = hand[p] + 1
            BY <1>1, <1>2, <4>2
          <5>2. hand[p] = 0 /\ got[p] # 0 => packet = got[p] + 1
            BY <1>1, <1>2, <4>2
          <5>3. outbox'[p][1] = packet /\ Len(outbox'[p]) = 1
            BY <2>1, <4>1
          <5>4. 1..(Len(outbox'[p]) - 1) = {}
            BY <5>3
          <5>5. got[p] # 0 /\ hand[p] # 0 => hand[p] = got[p] + 1
            BY <3>1 DEF Linked
          <5> QED
            BY <1>2, <5>1, <5>2, <5>3, <5>4, <5>5 DEF Linked
        <4>4. Newest(p)' = packet
          BY <2>1, <2>2, <4>1 DEF Newest
        <4> QED
          BY <1>2, <4>3, <4>4 DEF Behind, Awaiting
      <3>4. CASE q # <<>>
        <4>1. Len(q) > 0 /\ q[Len(q)] = packet - 1
          BY <1>1, <3>2, <3>4 DEF Newest
        <4>2. \A i \in 1..Len(q) : Append(q, packet)[i + 1] = Append(q, packet)[i] + 1
          <5>1. ASSUME NEW i \in 1..Len(q)
                PROVE  Append(q, packet)[i + 1] = Append(q, packet)[i] + 1
            <6>1. CASE i = Len(q)
              BY <1>1, <2>2, <4>1, <5>1, <6>1
            <6>2. CASE i < Len(q)
              <7>1. i \in 1..(Len(q) - 1) /\ i + 1 \in 1..Len(q)
                BY <1>1, <5>1, <6>2
              <7> QED
                BY <2>2, <3>1, <5>1, <7>1 DEF Linked
            <6> QED
              BY <1>1, <5>1, <6>1, <6>2
          <5> QED
            BY <5>1
        <4>3. Append(q, packet)[1] = q[1]
          BY <1>1, <2>2, <4>1
        <4>4. Linked(p)'
          <5>1. Len(outbox'[p]) - 1 = Len(q)
            BY <1>1, <2>1, <2>2
          <5>2. \A i \in 1..(Len(outbox'[p]) - 1) : outbox'[p][i + 1] = outbox'[p][i] + 1
            BY <2>1, <4>2, <5>1
          <5>3. outbox'[p][1] = q[1]
            BY <2>1, <4>3
          <5> QED
            BY <1>2, <3>1, <3>4, <5>2, <5>3 DEF Linked
        <4>5. Newest(p)' = packet
          BY <1>1, <2>1, <2>2 DEF Newest
        <4> QED
          BY <1>2, <4>4, <4>5 DEF Behind, Awaiting
      <3> QED
        BY <3>3, <3>4
    <2> QED
      BY <1>2, <1>3, <2>3 DEF RowOf, Served
  <1>5. CASE Len(q) >= ClientQueue
    <2>1. alive'[p] = FALSE /\ outbox'[p] = q
      BY <1>1, <1>5, CasterAssumption DEF Put, CasterTypeInv, CasterTypeOK
    <2>2. ASSUME Served(p)
          PROVE  Linked(p)' /\ Behind(p)'
      BY <1>2, <2>1, <2>2 DEF RowOf, Linked, Behind, Newest, Awaiting
    <2> QED
      BY <1>2, <1>3, <2>2 DEF RowOf, Served
  <1> QED
    BY <1>1, <1>4, <1>5, CasterAssumption

\* The source takes the next packet, or the list, or has come to its end.
LEMMA RowPublish ==
    ASSUME CasterTypeInv, NEW p \in Peers, RowOf(p), Publish \/ PublishList \/ Published
    PROVE  RowOf(p)'
  <1>1. /\ at' = at /\ hand' = hand /\ got' = got /\ outbox' = outbox
        /\ clients' = clients /\ alive' = alive
    BY DEF Publish, PublishList, Published
  <1>2. Newest(p)' = Newest(p) /\ packet \in Nat
    BY <1>1, Queue DEF Newest, CasterTypeInv
  <1>3. Held(p)' /\ (Served(p)' => Linked(p)')
    BY <1>1 DEF RowOf, Held, Served, Linked
  <1>4. CASE Publish
    BY <1>1, <1>2, <1>3, <1>4 DEF Publish, RowOf, Fresh, Served, Behind, Awaiting
  <1>5. CASE PublishList
    <2>1. targets' = {c \in clients : alive[c]} /\ publishing = "list" /\ publishing' = "put"
          /\ packet' = packet
      BY <1>5 DEF PublishList
    <2>2. Fresh(p)'
      BY <1>1, <2>1 DEF RowOf, Fresh
    <2>3. Served(p) => Behind(p)'
      BY <1>1, <1>2, <2>1 DEF RowOf, Behind, Awaiting
    <2> QED
      BY <1>1, <1>3, <2>2, <2>3 DEF RowOf, Served
  <1>6. CASE Published
    BY <1>1, <1>2, <1>3, <1>6 DEF Published, RowOf, Fresh, Served, Behind, Awaiting
  <1> QED
    BY <1>4, <1>5, <1>6

\* Every step keeps all rows.
LEMMA RowNext == CasterTypeInv /\ RowInv /\ [CasterNext]_casterVars => RowInv'
  <1> SUFFICES ASSUME CasterTypeInv, RowInv, [CasterNext]_casterVars, NEW p \in Peers
               PROVE  RowOf(p)'
    BY DEF RowInv
  <1>1. RowOf(p) /\ CasterTypeOK
    BY DEF RowInv, CasterTypeInv
  <1>2. CASE CasterStart \/ Stop
    <2>1. /\ at' = at /\ hand' = hand /\ got' = got /\ outbox' = outbox /\ UNCHANGED publisher
          /\ clients' \subseteq clients
      BY <1>2 DEF CasterStart, Stop, StopFlag, StopListen, StopList, StopClient, StopJoin
    <2>2. alive'[p] => alive[p]
      BY <1>1, <1>2 DEF CasterStart, Stop, StopFlag, StopListen, StopList, StopClient, StopJoin,
                        CasterTypeOK
    <2> QED
      BY <1>1, <2>1, <2>2, RowKept
  <1>3. CASE AcceptLoop \/ (\E c \in Peers : Accept(c)) \/ AcceptNone
    BY <1>1, <1>3, RowKept DEF AcceptLoop, Accept, AcceptNone
  <1>4. CASE AcceptCount \/ AcceptAdd
    <2>1. accepted \in Peers /\ at[accepted] = "backlog"
      BY <1>4 DEF AcceptCount, AcceptAdd, CasterTypeInv, AcceptedIsPeer
    <2>2. /\ hand' = hand /\ got' = got /\ outbox' = outbox /\ alive' = alive /\ UNCHANGED publisher
          /\ at' = [at EXCEPT ![accepted] = at'[accepted]]
          /\ clients' \in {clients, clients \cup {accepted}}
      BY <1>1, <1>4, <2>1 DEF AcceptCount, AcceptAdd, CasterTypeOK
    <2>3. CASE p = accepted
      <3>1. at'[p] \in {"refused", "handshake", "backlog"} /\ (at'[p] # "handshake" => clients' = clients)
            /\ (at'[p] = "backlog" => at'[p] = at[p])
        BY <1>1, <1>4, <2>1, <2>3 DEF AcceptCount, AcceptAdd, CasterTypeOK
      <3>2. p \notin clients
        BY <1>1, <2>1, <2>3 DEF RowOf, Fresh
      <3>3. CASE at'[p] = "backlog"
        BY <1>1, <2>2, <3>1, <3>3, RowKept
      <3>4. CASE at'[p] # "backlog"
        BY <1>1, <2>1, <2>2, <2>3, <3>1, <3>2, <3>4, RowBegins
      <3> QED
        BY <3>3, <3>4
    <2>4. CASE p # accepted
      <3>1. at'[p] = at[p] /\ (p \in clients' => p \in clients)
        BY <1>1, <2>2, <2>4 DEF CasterTypeOK
      <3> QED
        BY <1>1, <2>2, <3>1, RowKept
    <2> QED
      BY <2>3, <2>4
  <1>5. CASE Publish \/ PublishList \/ Published
    BY <1>1, <1>5, RowPublish
  <1>6. ASSUME NEW c \in Peers, Put(c)
        PROVE  RowOf(p)'
    <2>1. CASE p = c
      BY <1>1, <1>6, <2>1, RowPut
    <2>2. CASE p # c
      <3>1. /\ at' = at /\ hand' = hand /\ got' = got /\ clients' = clients
            /\ publishing' = publishing /\ packet' = packet
            /\ outbox'[p] = outbox[p] /\ alive'[p] = alive[p]
            /\ (p \in targets' <=> p \in targets)
        BY <1>1, <1>6, <2>2 DEF Put, CasterTypeOK
      <3> QED
        BY <1>1, <3>1 DEF RowOf, Fresh, Held, Served, Linked, Behind, Newest, Awaiting
    <2> QED
      BY <2>1, <2>2
  <1>7. ASSUME NEW c \in Peers, Connect(c) \/ Serving(c) \/ Send(c) \/ SendFails(c)
        PROVE  RowOf(p)'
    <2>1. CASE p # c
      <3>1. /\ at'[p] = at[p] /\ hand'[p] = hand[p] /\ got'[p] = got[p] /\ outbox'[p] = outbox[p]
            /\ alive'[p] = alive[p] /\ clients' \subseteq clients /\ UNCHANGED publisher
        BY <1>1, <1>7, <2>1 DEF Connect, Serving, HandshakeOk, HandshakeEnds, Loop, Get, Peek, Send,
                                SendFails, Leave, Moves, CasterTypeOK
      <3> QED
        BY <1>1, <3>1, RowKept
    <2>2. CASE p = c /\ Get(c)
      BY <1>1, <2>2, RowGet
    <2>3. CASE p = c /\ (Send(c) \/ SendFails(c))
      BY <1>1, <2>3, RowSend
    <2>4. CASE p = c /\ (Connect(c) \/ HandshakeOk(c) \/ HandshakeEnds(c) \/ Loop(c) \/ Peek(c) \/ Leave(c))
      <3>1. \/ at[p] = "away" /\ at'[p] = "backlog"
            \/ at[p] \in {"handshake", "loop", "wait"} /\ at'[p] \in {"loop", "wait", "leaving"}
            \/ at[p] = "leaving" /\ at'[p] = "gone"
        BY <1>1, <2>4 DEF Connect, HandshakeOk, HandshakeEnds, Loop, Peek, Leave, Moves, CasterTypeOK
      <3>2. /\ hand' = hand /\ got' = got /\ outbox' = outbox /\ clients' \subseteq clients
            /\ UNCHANGED publisher
        BY <2>4 DEF Connect, HandshakeOk, HandshakeEnds, Loop, Peek, Leave
      <3>3. alive'[p] => alive[p]
        BY <1>1, <2>4 DEF Connect, HandshakeOk, HandshakeEnds, Loop, Peek, Leave, CasterTypeOK
      <3> QED
        BY <1>1, <3>1, <3>2, <3>3, RowMoved
    <2> QED
      BY <1>7, <2>1, <2>2, <2>3, <2>4 DEF Serving
  <1>8. CASE UNCHANGED casterVars
    BY <1>1, <1>8, RowKept DEF casterVars
  <1> QED
    BY <1>2, <1>3, <1>4, <1>5, <1>6, <1>7, <1>8 DEF CasterNext, Accepting, Publishing

\* Nobody has anything at first.
LEMMA RowInit == CasterInit => RowInv
  BY DEF CasterInit, RowInv, RowOf, Fresh, Held, Served

\* What a row means for a step: a packet that is sent is the next one.
LEMMA NoGapStep ==
    CasterTypeInv /\ RowInv /\ [CasterNext]_casterVars =>
        \A p \in Peers : got'[p] # got[p] /\ got[p] # 0 => got'[p] = got[p] + 1
  <1> SUFFICES ASSUME CasterTypeInv, RowInv, [CasterNext]_casterVars, NEW p \in Peers, got'[p] # got[p], got[p] # 0
               PROVE  got'[p] = got[p] + 1
    OBVIOUS
  <1>1. Send(p)
    <2>1. \E c \in Peers : Send(c)
      BY DEF CasterNext, casterVars, CasterStart, Stop, StopFlag, StopListen, StopList, StopClient, StopJoin,
             Accepting, AcceptLoop, Accept, AcceptNone, AcceptCount, AcceptAdd, Publishing, Publish,
             PublishList, Put, Published, Connect, Serving, HandshakeOk, HandshakeEnds, Loop, Get, Peek,
             SendFails, Leave
    <2> QED
      BY <2>1 DEF Send, CasterTypeInv, CasterTypeOK
  <1>2. hand[p] # 0 /\ Linked(p)
    BY <1>1 DEF Send, Moves, RowInv, RowOf, Held, Served
  <1>3. got'[p] = hand[p]
    BY <1>1 DEF Send, CasterTypeInv, CasterTypeOK
  <1> QED
    BY <1>2, <1>3 DEF Linked

\* NoGap: a client that is sent anything is sent every packet from its first one
\* on, for all numbers of clients, packets and places in a queue, whatever drops it
\* or stops the caster in between.
THEOREM NoGapCorrect == CasterSpec => NoGap
  <1>1. CasterSpec => []CasterTypeInv
    BY CasterTypeCorrect
  <1>2. CasterSpec => []RowInv
    BY <1>1, RowInit, RowNext, PTL DEF CasterSpec
  <1>3. CasterTypeInv /\ RowInv /\ [CasterNext]_casterVars =>
            [\A p \in Peers : got'[p] # got[p] /\ got[p] # 0 => got'[p] = got[p] + 1]_casterVars
    BY NoGapStep
  <1> QED
    BY <1>1, <1>2, <1>3, PTL DEF CasterSpec, NoGap

-----------------------------------------------------------------------------
(* The announcer.                                                          *)

\* The name that is tried first is one of the names.
LEMMA FreeNameTyped ==
    ASSUME NEW heard
    PROVE  FreeName(heard) \in 1..MaxSuffix
  <1>1. CASE 1..MaxSuffix \subseteq heard
    BY <1>1, AnnouncerAssumption DEF FreeName
  <1>2. CASE ~(1..MaxSuffix \subseteq heard)
    <2> DEFINE free == {n \in 1..MaxSuffix : n \notin heard}
    <2>0. free # {} /\ free \in SUBSET Nat
      BY <1>2, AnnouncerAssumption
    <2> HIDE DEF free
    <2>1. PICK n \in free : \A m \in free : n <= m
      BY <2>0, LeastNumber
    <2> USE DEF free
    <2>2. n \notin heard /\ 1..(n - 1) \subseteq heard
      BY <2>1, AnnouncerAssumption
    <2> QED
      BY <1>2, <2>1, <2>2 DEF FreeName
  <1> QED
    BY <1>1, <1>2

\* What AnnouncedAsShown rests on: only one of start and the thread registers, and
\* not what is announced already; what the library has taken is what will be
\* noted, unless stop has come in between; and behind stop the library is closed.
AnnouncerInv ==
    /\ hook = "none" => announced = "stopped" /\ watching = "none" /\ trying = "no"
    /\ hook = "start" => trying # "no"
    /\ trying # "no" =>
        /\ announced = "running" => hook \in Stopping
        /\ watching = IF hook = "start" THEN "none" ELSE "trying"
    /\ trying \in {"register", "adopt"} => candidate.name \in Names
    /\ trying = "adopt" /\ hook # "gone" => records.http = candidate /\ named = candidate.name
    /\ watching = "note" /\ hook # "gone" => records.http = Record(named, candidate.addr)
    /\ hook = "gone" => zc = "closed"

ShownInv == AnnouncerTypeOK /\ AnnouncerInv /\ AnnouncedAsShown

USE DEF library, kept, registering

\* The announcer begins with nothing announced.
LEMMA AnnouncerBegins == AnnouncerInit => ShownInv
  <1>1. 1 \in Names /\ 0 \in 0..MaxSuffix /\ NoRecord \in RecordsOf
    BY AnnouncerAssumption DEF Names, NoRecord, RecordsOf
  <1> SUFFICES ASSUME AnnouncerInit PROVE ShownInv
    OBVIOUS
  <1>2. AnnouncerTypeOK
    BY <1>1 DEF AnnouncerInit, AnnouncerTypeOK
  <1> QED
    BY <1>2 DEF AnnouncerInit, ShownInv, AnnouncerInv, AnnouncedAsShown, Stopping

\* A name and an address make a record.
LEMMA RecordTyped ==
    ASSUME NEW n \in Names \cup {0}, NEW a \in Addresses \cup {0}
    PROVE  /\ Record(n, a) \in RecordsOf
           /\ Record(n, a).name = n /\ Record(n, a).addr = a
  BY DEF Record, RecordsOf

\* The end of _try_register leaves what is announced alone.
LEMMA ReturnsTyped ==
    ASSUME ShownInv, trying # "no", Returns \/ Fails
    PROVE  /\ candidate' \in RecordsOf /\ turn' \in 0..MaxSuffix /\ trying' = "no"
           /\ hook' \in {"none", "start", "absent", "idle", "ntrip", "ntrip note"} \cup Stopping
           /\ hook' \notin {"none", "start"} /\ (hook' \in Stopping <=> hook \in Stopping)
           /\ hook' = "gone" <=> hook = "gone"
           /\ watching' \in {"none", "wait"}
  <1>1. NoRecord \in RecordsOf /\ 0 \in 0..MaxSuffix
    BY AnnouncerAssumption DEF NoRecord, RecordsOf
  <1>2. hook # "none"
    BY DEF ShownInv, AnnouncerInv
  <1>3. hook \in {"none", "start", "absent", "idle", "ntrip", "ntrip note"} \cup Stopping
    BY DEF ShownInv, AnnouncerTypeOK
  <1>4. hook = "start" => watching = "none"
    BY DEF ShownInv, AnnouncerInv
  <1> QED
    BY <1>1, <1>2, <1>3, <1>4 DEF Returns, Fails, Stopping

\* A step of _try_register.
LEMMA TryingShown == ShownInv /\ Trying => ShownInv'
  <1> SUFFICES ASSUME ShownInv, Trying PROVE ShownInv'
    OBVIOUS
  <1> USE DEF ShownInv
  <1>1. CASE TryAddresses
    <2>1. CASE network = 0
      <3>1. trying # "no" /\ Returns /\ announced' = "unavailable" /\ UNCHANGED <<network, others, library, http, ntrip, named, listed>>
        BY <1>1, <2>1 DEF TryAddresses
      <3>2. AnnouncerTypeOK'
        BY <3>1, ReturnsTyped DEF AnnouncerTypeOK
      <3>3. AnnouncerInv'
        BY <3>1, ReturnsTyped DEF AnnouncerInv
      <3>4. AnnouncedAsShown'
        BY <3>1, ReturnsTyped DEF AnnouncedAsShown
      <3> QED
        BY <3>2, <3>3, <3>4
    <2>2. CASE network # 0
      <3>1. candidate' \in RecordsOf
        <4>1. Record(0, network) \in RecordsOf
          BY RecordTyped DEF AnnouncerTypeOK
        <4> QED
          BY <1>1, <2>2, <4>1 DEF TryAddresses
      <3> QED
        BY <1>1, <2>2, <3>1 DEF TryAddresses, AnnouncerTypeOK, AnnouncerInv, AnnouncedAsShown
    <2> QED
      BY <2>1, <2>2
  <1>2. CASE TryResolve
    <2>1. candidate' \in RecordsOf /\ candidate'.name \in Names
      <3>1. PICK heard \in SUBSET others : candidate' = [candidate EXCEPT !.name = FreeName(heard)]
        BY <1>2 DEF TryResolve
      <3>2. FreeName(heard) \in Names
        <4>1. FreeName(heard) \in 1..MaxSuffix
          BY FreeNameTyped
        <4> QED
          BY <4>1, AnnouncerAssumption DEF Names
      <3>4. candidate \in RecordsOf
        BY DEF AnnouncerTypeOK
      <3> QED
        BY <3>1, <3>2, <3>4 DEF RecordsOf
    <2>2. /\ trying = "resolve" /\ trying' = "register"
          /\ UNCHANGED <<network, others, zc, records, http, ntrip, named, listed, announced, hook, watching, turn>>
      BY <1>2 DEF TryResolve
    <2>3. AnnouncerTypeOK'
      <3>1. /\ network' \in Addresses \cup {0} /\ others' \subseteq Names
            /\ zc' \in {"none", "open", "closed"}
            /\ records' \in [http : RecordsOf, ntrip : RecordsOf]
            /\ http' \in RecordsOf /\ ntrip' \in RecordsOf
        BY <2>2 DEF AnnouncerTypeOK
      <3>2. /\ named' \in Names /\ listed' \in Addresses \cup {0}
            /\ announced' \in {"stopped", "unavailable", "running"}
            /\ hook' \in {"none", "start", "absent", "idle", "ntrip", "ntrip note"} \cup Stopping
            /\ watching' \in {"none", "wait", "trying", "update", "note", "done"}
            /\ trying' \in {"no", "addresses", "resolve", "register", "adopt"} /\ turn' \in 0..MaxSuffix
        BY <2>2 DEF AnnouncerTypeOK
      <3> QED
        BY <2>1, <3>1, <3>2 DEF AnnouncerTypeOK
    <2>4. AnnouncerInv'
      BY <2>1, <2>2 DEF AnnouncerInv
    <2>5. AnnouncedAsShown'
      BY <2>2 DEF AnnouncedAsShown
    <2> QED
      BY <2>3, <2>4, <2>5
  <1>3. CASE TryRegister
    <2>0. /\ trying = "register" /\ candidate \in RecordsOf /\ candidate.name \in Names
          /\ records \in [http : RecordsOf, ntrip : RecordsOf] /\ turn \in 0..MaxSuffix
          /\ hook = "gone" => zc = "closed"
      BY <1>3 DEF TryRegister, AnnouncerTypeOK, AnnouncerInv
    <2>1. ASSUME zc = "open",
                 records' = [records EXCEPT !.http = candidate], named' = candidate.name, trying' = "adopt",
                 UNCHANGED <<zc, hook, watching, candidate, turn, announced>>
          PROVE  ShownInv'
      <3>1. records' \in [http : RecordsOf, ntrip : RecordsOf] /\ records'.http = candidate
        BY <2>0, <2>1
      <3>2. UNCHANGED <<network, others, http, ntrip, listed>>
        BY <1>3 DEF TryRegister
      <3>3. AnnouncerTypeOK'
        BY <2>0, <2>1, <3>1, <3>2 DEF AnnouncerTypeOK
      <3>4. AnnouncerInv'
        BY <2>0, <2>1, <3>1 DEF AnnouncerInv
      <3>5. AnnouncedAsShown'
        BY <2>0, <2>1 DEF AnnouncerInv, AnnouncedAsShown
      <3> QED
        BY <3>3, <3>4, <3>5
    <2>2. ASSUME turn < MaxSuffix, turn' = turn + 1, candidate' = [candidate EXCEPT !.name = turn' + 1],
                 UNCHANGED <<library, hook, watching, trying, named, announced>>
          PROVE  ShownInv'
      <3>1. turn' \in 0..MaxSuffix /\ candidate' \in RecordsOf /\ candidate'.name \in Names
        BY <2>0, <2>2, AnnouncerAssumption DEF RecordsOf, Names
      <3>2. UNCHANGED <<network, others, http, ntrip, listed, zc, records, hook, watching, trying, named, announced>>
        BY <1>3, <2>2 DEF TryRegister
      <3>3. AnnouncerTypeOK'
        <4>1. turn' \in 0..MaxSuffix /\ candidate' \in RecordsOf
          BY <3>1
        <4>2. /\ network' \in Addresses \cup {0} /\ others' \subseteq Names
              /\ zc' \in {"none", "open", "closed"}
              /\ records' \in [http : RecordsOf, ntrip : RecordsOf]
              /\ http' \in RecordsOf /\ ntrip' \in RecordsOf
          BY <3>2 DEF AnnouncerTypeOK
        <4>3. /\ named' \in Names /\ listed' \in Addresses \cup {0}
              /\ announced' \in {"stopped", "unavailable", "running"}
              /\ hook' \in {"none", "start", "absent", "idle", "ntrip", "ntrip note"} \cup Stopping
              /\ watching' \in {"none", "wait", "trying", "update", "note", "done"}
              /\ trying' \in {"no", "addresses", "resolve", "register", "adopt"}
          BY <3>2 DEF AnnouncerTypeOK
        <4> QED
          BY <4>1, <4>2, <4>3 DEF AnnouncerTypeOK
      <3>4. AnnouncerInv'
        BY <2>0, <2>2, <3>1 DEF AnnouncerInv
      <3>5. AnnouncedAsShown'
        BY <2>0, <2>2, <3>2 DEF AnnouncerInv, AnnouncedAsShown
      <3> QED
        BY <3>3, <3>4, <3>5
    <2>3. ASSUME Fails, UNCHANGED <<records, named>> PROVE ShownInv'
      <3>1. zc' \in {"none", zc} /\ announced' \in {"unavailable", announced}
            /\ (hook = "gone" => zc' = zc)
        BY <2>3 DEF Fails
      <3>2. AnnouncerTypeOK'
        BY <1>3, <2>0, <2>3, <3>1, ReturnsTyped DEF TryRegister, AnnouncerTypeOK
      <3>3. UNCHANGED <<http, listed>>
        BY <1>3 DEF TryRegister
      <3>4. AnnouncerInv'
        BY <2>0, <2>3, <3>1, ReturnsTyped DEF AnnouncerInv
      <3>5. AnnouncedAsShown'
        BY <2>0, <2>3, <3>1, <3>3, ReturnsTyped DEF AnnouncerInv, AnnouncedAsShown
      <3> QED
        BY <3>2, <3>4, <3>5
    <2> QED
      BY <1>3, <2>1, <2>2, <2>3 DEF TryRegister
  <1>4. CASE TryAdopt
    <2>0. /\ trying = "adopt" /\ candidate \in RecordsOf /\ candidate.name \in Names
          /\ candidate.addr \in Addresses \cup {0}
          /\ hook # "gone" => records.http = candidate /\ named = candidate.name
      BY <1>4 DEF TryAdopt, AnnouncerTypeOK, AnnouncerInv, RecordsOf
    <2>1. /\ Returns /\ http' = candidate /\ listed' = candidate.addr /\ announced' = "running"
          /\ UNCHANGED <<network, others, library, ntrip, named>>
      BY <1>4 DEF TryAdopt
    <2>2. AnnouncerTypeOK'
      BY <2>0, <2>1, ReturnsTyped DEF AnnouncerTypeOK
    <2>3. AnnouncerInv'
      BY <2>0, <2>1, ReturnsTyped DEF AnnouncerInv
    <2>4. AnnouncedAsShown'
      BY <2>0, <2>1, ReturnsTyped DEF AnnouncerInv, AnnouncedAsShown, Stopping
    <2> QED
      BY <2>2, <2>3, <2>4
  <1> QED
    BY <1>1, <1>2, <1>3, <1>4 DEF Trying

\* A step of the thread.
LEMMA WatchingShown == ShownInv /\ (Watching \/ WatchRefused) => ShownInv'
  <1> SUFFICES ASSUME ShownInv, Watching \/ WatchRefused PROVE ShownInv'
    OBVIOUS
  <1> USE DEF ShownInv
  <1>0. NoRecord \in RecordsOf /\ (watching \in {"wait", "update", "note"} => trying = "no")
    BY DEF NoRecord, RecordsOf, AnnouncerInv
  <1>1. CASE Watch
    <2>1. candidate' \in RecordsOf
      <3>1. Record(http.name, network) \in RecordsOf
        BY RecordTyped DEF AnnouncerTypeOK, RecordsOf
      <3> QED
        BY <1>1, <3>1 DEF Watch, AnnouncerTypeOK
    <2>2. /\ watching = "wait" /\ watching' \in {"done", "trying", "update"}
          /\ trying' = IF watching' = "trying" THEN "addresses" ELSE trying
          /\ watching' = "trying" => announced # "running" /\ hook \notin Stopping /\ zc # "none"
      BY <1>0, <1>1 DEF Watch
    <2>3. UNCHANGED <<network, others, zc, records, http, ntrip, named, listed, announced, hook, turn>>
      BY <1>1 DEF Watch
    <2>4. AnnouncerTypeOK'
      BY <2>1, <2>2, <2>3 DEF AnnouncerTypeOK
    <2>5. AnnouncerInv'
      BY <1>0, <2>2, <2>3 DEF AnnouncerInv
    <2>6. AnnouncedAsShown'
      BY <2>2, <2>3 DEF AnnouncedAsShown
    <2> QED
      BY <2>4, <2>5, <2>6
  <1>2. CASE WatchUpdate
    <2>1. CASE zc = "open"
      <3>1. /\ watching = "update" /\ watching' = "note"
            /\ records' = [records EXCEPT !.http = Record(named, candidate.addr)]
            /\ UNCHANGED <<candidate, network, others, zc, http, ntrip, named, listed, announced, hook, trying, turn>>
        BY <1>2, <2>1 DEF WatchUpdate
      <3>2. Record(named, candidate.addr) \in RecordsOf /\ Record(named, candidate.addr).name = named
        BY RecordTyped DEF AnnouncerTypeOK, RecordsOf
      <3>3. records' \in [http : RecordsOf, ntrip : RecordsOf] /\ records'.http = Record(named, candidate.addr)
        BY <3>1, <3>2 DEF AnnouncerTypeOK
      <3>4. AnnouncerTypeOK'
        <4>1. /\ network' \in Addresses \cup {0} /\ others' \subseteq Names
              /\ http' \in RecordsOf /\ ntrip' \in RecordsOf /\ candidate' \in RecordsOf
              /\ named' \in Names /\ listed' \in Addresses \cup {0}
          BY <3>1 DEF AnnouncerTypeOK
        <4>2. /\ zc' \in {"none", "open", "closed"} /\ announced' \in {"stopped", "unavailable", "running"}
              /\ hook' \in {"none", "start", "absent", "idle", "ntrip", "ntrip note"} \cup Stopping
              /\ trying' \in {"no", "addresses", "resolve", "register", "adopt"} /\ turn' \in 0..MaxSuffix
          BY <3>1 DEF AnnouncerTypeOK
        <4> QED
          BY <3>1, <3>3, <4>1, <4>2 DEF AnnouncerTypeOK
      <3>5. hook # "gone"
        BY <2>1 DEF AnnouncerInv
      <3>6. Record(named, candidate.addr)' = Record(named, candidate.addr)
        BY <3>1 DEF Record
      <3>7. AnnouncerInv'
        BY <1>0, <3>1, <3>3, <3>5, <3>6 DEF AnnouncerInv
      <3>8. AnnouncedAsShown'
        BY <3>1, <3>2, <3>3, <3>5 DEF AnnouncedAsShown
      <3> QED
        BY <3>4, <3>7, <3>8
    <2>2. CASE zc # "open"
      BY <1>0, <1>2, <2>2 DEF WatchUpdate, AnnouncerTypeOK, AnnouncerInv, AnnouncedAsShown
    <2> QED
      BY <2>1, <2>2
  <1>3. CASE WatchRefused
    <2>1. /\ watching = "update" /\ watching' = "wait" /\ candidate' = NoRecord
          /\ UNCHANGED <<network, others, zc, records, http, ntrip, named, listed, announced, hook, trying, turn>>
      BY <1>3 DEF WatchRefused
    <2>2. AnnouncerTypeOK'
      BY <1>0, <2>1 DEF AnnouncerTypeOK
    <2>3. AnnouncerInv'
      BY <1>0, <2>1 DEF AnnouncerInv
    <2>4. AnnouncedAsShown'
      BY <2>1 DEF AnnouncedAsShown
    <2> QED
      BY <2>2, <2>3, <2>4
  <1>4. CASE WatchNote
    <2>1. /\ watching = "note" /\ watching' = "wait"
          /\ http' = Record(named, candidate.addr) /\ listed' = candidate.addr /\ candidate' = NoRecord
          /\ UNCHANGED <<network, others, library, ntrip, named, announced, hook, trying, turn>>
      BY <1>4 DEF WatchNote
    <2>2. /\ Record(named, candidate.addr) \in RecordsOf /\ candidate.addr \in Addresses \cup {0}
          /\ Record(named, candidate.addr).name = named
          /\ Record(named, candidate.addr).addr = candidate.addr
      <3>1. candidate.addr \in Addresses \cup {0} /\ named \in Names
        BY DEF AnnouncerTypeOK, RecordsOf
      <3> QED
        BY <3>1, RecordTyped
    <2>3. AnnouncerTypeOK'
      BY <1>0, <2>1, <2>2 DEF AnnouncerTypeOK
    <2>4. hook # "gone" => records.http = Record(named, candidate.addr)
      BY <2>1 DEF AnnouncerInv
    <2>5. AnnouncerInv'
      BY <1>0, <2>1 DEF AnnouncerInv
    <2>6. AnnouncedAsShown'
      BY <2>1, <2>2, <2>4 DEF AnnouncedAsShown, Stopping
    <2> QED
      BY <2>3, <2>5, <2>6
  <1> QED
    BY <1>1, <1>2, <1>3, <1>4 DEF Watching

\* A call of the main loop.
LEMMA HooksShown == ShownInv /\ Hooks => ShownInv'
  <1> SUFFICES ASSUME ShownInv, Hooks PROVE ShownInv'
    OBVIOUS
  <1> USE DEF ShownInv
  <1>0. NoRecord \in RecordsOf
    BY DEF NoRecord, RecordsOf
  <1>1. CASE AnnouncerStart
    BY <1>1 DEF AnnouncerStart, AnnouncerTypeOK, AnnouncerInv, AnnouncedAsShown, Stopping
  <1>2. CASE NtripDrop \/ NtripAdd
    <2>1. /\ hook \in {"idle", "ntrip"} /\ hook' \in {"ntrip", "ntrip note"}
          /\ ntrip' \in {ntrip, NoRecord}
          /\ UNCHANGED <<network, others, zc, http, named, listed, announced, watching, registering>>
      BY <1>2 DEF NtripDrop, NtripAdd
    <2>2. records' \in [http : RecordsOf, ntrip : RecordsOf] /\ records'.http = records.http
      <3>1. Record(named, IF listed # 0 THEN listed ELSE network) \in RecordsOf
        BY RecordTyped DEF AnnouncerTypeOK
      <3> QED
        BY <1>0, <1>2, <3>1 DEF NtripDrop, NtripAdd, AnnouncerTypeOK
    <2>3. AnnouncerTypeOK'
      <3>1. ntrip' \in RecordsOf
        BY <1>0, <2>1 DEF AnnouncerTypeOK
      <3>2. hook' \in {"none", "start", "absent", "idle", "ntrip", "ntrip note"} \cup Stopping
        BY <2>1
      <3>3. UNCHANGED <<network, others, zc, http, candidate, named, listed, announced, watching, trying, turn>>
        BY <2>1
      <3> QED
        BY <2>2, <3>1, <3>2, <3>3 DEF AnnouncerTypeOK
    <2>4. AnnouncerInv'
      <3>1. Record(named, candidate.addr)' = Record(named, candidate.addr)
        BY <2>1 DEF Record
      <3> QED
        BY <2>1, <2>2, <3>1 DEF AnnouncerInv, Stopping
    <2>5. AnnouncedAsShown'
      BY <2>1, <2>2 DEF AnnouncedAsShown, Stopping
    <2> QED
      BY <2>3, <2>4, <2>5
  <1>3. CASE NtripNone \/ NtripNote
    <2>1. /\ hook \in {"ntrip", "ntrip note"} /\ hook' = "idle" /\ ntrip' \in {ntrip, records.ntrip}
          /\ UNCHANGED <<network, others, zc, records, http, named, listed, announced, watching, trying, candidate, turn>>
      BY <1>3 DEF NtripNone, NtripNote
    <2>2. AnnouncerTypeOK'
      <3>1. ntrip' \in RecordsOf
        BY <2>1 DEF AnnouncerTypeOK
      <3> QED
        BY <2>1, <3>1 DEF AnnouncerTypeOK
    <2> QED
      BY <2>1, <2>2 DEF AnnouncerInv, AnnouncedAsShown, Stopping, Record
  <1>4. CASE StopAnnouncer
    BY <1>4 DEF StopAnnouncer, AnnouncerTypeOK, AnnouncerInv, AnnouncedAsShown, Stopping, Record
  <1>5. CASE StopTake
    BY <1>0, <1>5 DEF StopTake, AnnouncerTypeOK, AnnouncerInv, AnnouncedAsShown, Stopping, Record
  <1>6. CASE StopClose
    <2>1. records' = [http |-> NoRecord, ntrip |-> NoRecord] /\ hook' = "gone" /\ zc' = "closed"
      BY <1>6 DEF StopClose
    <2>2. UNCHANGED <<network, others, kept, watching, registering>>
      BY <1>6 DEF StopClose
    <2>3. records' \in [http : RecordsOf, ntrip : RecordsOf]
      BY <1>0, <2>1
    <2>4. AnnouncerTypeOK'
      <3>1. /\ zc' \in {"none", "open", "closed"}
            /\ hook' \in {"none", "start", "absent", "idle", "ntrip", "ntrip note"} \cup Stopping
        BY <2>1 DEF Stopping
      <3>2. UNCHANGED <<network, others, http, ntrip, candidate, named, listed, announced, watching, trying, turn>>
        BY <2>2
      <3> QED
        BY <2>3, <3>1, <3>2 DEF AnnouncerTypeOK
    <2>5. AnnouncerInv'
      BY <1>6, <2>1, <2>2 DEF StopClose, AnnouncerInv, Stopping
    <2>6. AnnouncedAsShown'
      BY <2>1 DEF AnnouncedAsShown, Stopping
    <2> QED
      BY <2>4, <2>5, <2>6
  <1> QED
    BY <1>1, <1>2, <1>3, <1>4, <1>5, <1>6 DEF Hooks

\* Every step.
LEMMA ShownNext == ShownInv /\ [AnnouncerNext]_announcerVars => ShownInv'
  <1>1. ShownInv /\ UNCHANGED announcerVars => ShownInv'
    <2> SUFFICES ASSUME ShownInv, UNCHANGED announcerVars PROVE ShownInv'
      OBVIOUS
    <2>1. UNCHANGED <<network, others, zc, records, http, ntrip, named, listed, announced, hook, watching, trying,
                      candidate, turn>>
      BY DEF announcerVars
    <2>2. AnnouncerTypeOK'
      <3>1. /\ network' \in Addresses \cup {0} /\ others' \subseteq Names
            /\ zc' \in {"none", "open", "closed"}
            /\ records' \in [http : RecordsOf, ntrip : RecordsOf]
            /\ http' \in RecordsOf /\ ntrip' \in RecordsOf
            /\ candidate' \in RecordsOf
        BY <2>1 DEF ShownInv, AnnouncerTypeOK
      <3>2. /\ named' \in Names /\ listed' \in Addresses \cup {0}
            /\ announced' \in {"stopped", "unavailable", "running"}
            /\ hook' \in {"none", "start", "absent", "idle", "ntrip", "ntrip note"} \cup Stopping
            /\ watching' \in {"none", "wait", "trying", "update", "note", "done"}
            /\ trying' \in {"no", "addresses", "resolve", "register", "adopt"} /\ turn' \in 0..MaxSuffix
        BY <2>1 DEF ShownInv, AnnouncerTypeOK
      <3> QED
        BY <3>1, <3>2 DEF AnnouncerTypeOK
    <2>3. AnnouncerInv'
      BY <2>1 DEF ShownInv, AnnouncerInv, Record
    <2>4. AnnouncedAsShown'
      BY <2>1 DEF ShownInv, AnnouncedAsShown
    <2> QED
      BY <2>2, <2>3, <2>4 DEF ShownInv
  <1>2. ASSUME ShownInv, Changes PROVE ShownInv'
    <2>1. network' \in Addresses \cup {0} /\ others' \subseteq Names
      BY <1>2 DEF Changes, ShownInv, AnnouncerTypeOK
    <2>2. UNCHANGED <<zc, records, http, ntrip, named, listed, announced, hook, watching, trying, candidate, turn>>
      BY <1>2 DEF Changes
    <2>3. AnnouncerTypeOK'
      <3>1. AnnouncerTypeOK
        BY <1>2 DEF ShownInv
      <3>2. /\ zc' \in {"none", "open", "closed"}
            /\ records' \in [http : RecordsOf, ntrip : RecordsOf]
            /\ http' \in RecordsOf /\ ntrip' \in RecordsOf
            /\ candidate' \in RecordsOf
        BY ONLY <2>2, <3>1 DEF AnnouncerTypeOK
      <3>3. /\ named' \in Names /\ listed' \in Addresses \cup {0}
            /\ announced' \in {"stopped", "unavailable", "running"}
            /\ hook' \in {"none", "start", "absent", "idle", "ntrip", "ntrip note"} \cup Stopping
            /\ watching' \in {"none", "wait", "trying", "update", "note", "done"}
            /\ trying' \in {"no", "addresses", "resolve", "register", "adopt"} /\ turn' \in 0..MaxSuffix
        BY ONLY <2>2, <3>1 DEF AnnouncerTypeOK
      <3> QED
        BY ONLY <2>1, <3>2, <3>3 DEF AnnouncerTypeOK
    <2>4. AnnouncerInv'
      BY <1>2, <2>2 DEF ShownInv, AnnouncerInv, Record
    <2>5. AnnouncedAsShown'
      BY <1>2, <2>2 DEF ShownInv, AnnouncedAsShown
    <2> QED
      BY <2>3, <2>4, <2>5 DEF ShownInv
  <1> QED
    BY <1>1, <1>2, TryingShown, WatchingShown, HooksShown DEF AnnouncerNext

-----------------------------------------------------------------------------
(* The parts together.                                                     *)

\* A behaviour of the parts together is one of each of them.
LEMMA PartsAlone ==
    Spec => CasterSpec /\ SenderSpec /\ ParserSpec /\ AnnouncerSpec
  <1>1. Init => CasterInit /\ SenderInit /\ ParserInit /\ AnnouncerInit
    BY DEF Init
  <1>2. [Next]_outletVars => /\ [CasterNext]_casterVars /\ [SenderNext]_senderVars
                             /\ [ParserNext]_parserVars /\ [AnnouncerNext]_announcerVars
    BY DEF Next, outletVars
  <1> QED
    BY <1>1, <1>2, PTL DEF Spec, CasterSpec, SenderSpec, ParserSpec, AnnouncerSpec

\* What is shown as announced is announced, and nothing stays behind a stop, for
\* all addresses and names and whatever other devices do.
THEOREM ShownCorrect == Spec => []AnnouncedAsShown
  <1>1. ShownInv => AnnouncedAsShown
    BY DEF ShownInv
  <1>2. AnnouncerSpec => []AnnouncedAsShown
    BY <1>1, AnnouncerBegins, ShownNext, PTL DEF AnnouncerSpec
  <1> QED
    BY <1>2, PartsAlone, PTL

\* What is proved of the caster and of the senders holds of the parts together.
THEOREM OutletsCorrect ==
    Spec => [](ClientLimit /\ NoHandleLeft) /\ NoGap /\ StoppedSilent /\ SentInOrder
  BY PartsAlone, LimitCorrect, NoGapCorrect, HandleCorrect, SilentCorrect, OrderCorrect, PTL

\* Every variable of the outer parts stays in its type, for all values of the
\* constants, and the buffer of the parser within a frame of its limit.
THEOREM TypesCorrect == Spec => []TypeOK
  <1> DEFINE PartOK == part \in Receivers \cup {"announcer"}
  <1>1. Init => PartOK
    BY DEF Init
  <1>2. PartOK /\ [Next]_outletVars => PartOK'
    BY DEF Next, outletVars
  <1>3. Spec => []PartOK
    <2> HIDE DEF PartOK
    <2> QED
      BY <1>1, <1>2, PTL DEF Spec
  <1>4. CasterSpec => []CasterTypeOK
    <2>1. CasterTypeInv => CasterTypeOK
      BY DEF CasterTypeInv
    <2> QED
      BY <2>1, CasterTypeCorrect, PTL
  <1>5. SenderSpec => []SenderTypeOK
    <2>1. TypeInv => SenderTypeOK
      BY DEF TypeInv
    <2> QED
      BY <2>1, SenderTypeCorrect, PTL
  <1>6. AnnouncerSpec => []AnnouncerTypeOK
    <2>1. ShownInv => AnnouncerTypeOK
      BY DEF ShownInv
    <2> QED
      BY <2>1, AnnouncerBegins, ShownNext, PTL DEF AnnouncerSpec
  <1>7. PartOK /\ CasterTypeOK /\ SenderTypeOK /\ ParserTypeOK /\ AnnouncerTypeOK => TypeOK
    BY DEF TypeOK
  <1> HIDE DEF PartOK
  <1> QED
    BY <1>3, <1>4, <1>5, <1>6, <1>7, ParserTypeCorrect, PartsAlone, PTL

\* However the stream is cut, frames are handed on in order, and none is lost that
\* was not itself cut.
THEOREM StreamCorrect == Spec => []FramesArrive
  BY FramesCorrect, PartsAlone, PTL
=============================================================================
