----------------------------- MODULE LocalCaster -----------------------------
(***************************************************************************)
(* The local NTRIP caster, outlets/local_caster.py: the accept thread, one *)
(* thread and one queue per client, publish called by the data source, and *)
(* stop called by the main loop, all of them on one list of clients.       *)
(***************************************************************************)
EXTENDS Naturals, Sequences, FiniteSets

CONSTANTS
    Peers,          \* hosts that connect, each of them once
    NoPeer,         \* none of them
    MaxClients,     \* LOCAL_CASTER_MAX_CLIENTS
    ClientQueue,    \* LOCAL_CASTER_QUEUE_SIZE
    MaxPackets      \* bound on packets published

ASSUME PeersAssumption == IsFiniteSet(Peers) /\ NoPeer \notin Peers
ASSUME CasterAssumption == MaxClients \in Nat /\ ClientQueue \in Nat \ {0} /\ MaxPackets \in Nat

VARIABLES
    running,    \* self._running
    listening,  \* the listening socket is open
    accepted,   \* the accept loop's local client, or NoPeer
    accepting,  \* the accept thread: where it is
    clients,    \* self._clients
    stopping,   \* the main loop: where in stop it is
    closing,    \* stop's copy of the list
    publishing, \* the source: where in publish it is
    targets,    \* publish's copy of the list
    packet,     \* the packet that is published, numbered
    at,         \* where the thread of a client is
    alive,      \* client.alive
    shut,       \* its socket has been shut down or closed on our side
    outbox,     \* client.outbox
    hand,       \* the packet its thread has taken from the queue
    got         \* the last packet it was sent; nothing in the code

control == <<running, listening, accepted, accepting, stopping, closing>>
publisher == <<publishing, targets, packet>>
threads == <<at, alive, shut, outbox, hand, got>>
casterVars == <<control, publisher, clients, threads>>

Positions == {"away", "backlog", "refused", "handshake", "loop", "wait", "send", "leaving", "gone"}

CasterInit ==
    /\ running = FALSE /\ listening = FALSE /\ accepting = "none" /\ accepted = NoPeer
    /\ clients = {} /\ stopping = "no" /\ closing = {}
    /\ publishing = "no" /\ targets = {} /\ packet = 0
    /\ at = [p \in Peers |-> "away"] /\ alive = [p \in Peers |-> TRUE]
    /\ shut = [p \in Peers |-> FALSE] /\ outbox = [p \in Peers |-> <<>>]
    /\ hand = [p \in Peers |-> 0] /\ got = [p \in Peers |-> 0]

-----------------------------------------------------------------------------
(* The main loop.  A start that cannot bind the port leaves no caster.     *)

CasterStart ==
    /\ accepting = "none"
    /\ running' = TRUE /\ listening' = TRUE /\ accepting' = "loop"
    /\ UNCHANGED <<accepted, stopping, closing, publisher, clients, threads>>

StopFlag ==
    /\ running /\ stopping = "no"
    /\ running' = FALSE /\ stopping' = "listen"
    /\ UNCHANGED <<listening, accepted, accepting, closing, publisher, clients, threads>>

StopListen ==
    /\ stopping = "listen"
    /\ listening' = FALSE /\ stopping' = "list"
    /\ UNCHANGED <<running, accepted, accepting, closing, publisher, clients, threads>>

StopList ==
    /\ stopping = "list"
    /\ closing' = clients /\ clients' = {} /\ stopping' = "clients"
    /\ UNCHANGED <<running, listening, accepted, accepting, publisher, threads>>

StopClient(p) ==
    /\ stopping = "clients" /\ p \in closing
    /\ closing' = closing \ {p}
    /\ alive' = [alive EXCEPT ![p] = FALSE]
    /\ shut' = [shut EXCEPT ![p] = TRUE]
    /\ UNCHANGED <<running, listening, accepted, accepting, stopping, publisher, clients>>
    /\ UNCHANGED <<at, outbox, hand, got>>

\* join with a time limit.
StopJoin ==
    /\ stopping = "clients" /\ closing = {}
    /\ stopping' = "done"
    /\ UNCHANGED <<running, listening, accepted, accepting, closing, publisher, clients, threads>>

Stop == StopFlag \/ StopListen \/ StopList \/ (\E p \in Peers : StopClient(p)) \/ StopJoin

-----------------------------------------------------------------------------
(* The accept thread.                                                      *)

Connect(p) ==   \* the operating system accepts for the listening socket
    /\ listening /\ at[p] = "away"
    /\ at' = [at EXCEPT ![p] = "backlog"]
    /\ UNCHANGED <<control, publisher, clients, alive, shut, outbox, hand, got>>

AcceptLoop ==
    /\ accepting = "loop"
    /\ accepting' = IF running /\ listening THEN "accept" ELSE "done"
    /\ UNCHANGED <<running, listening, accepted, stopping, closing, publisher, clients, threads>>

\* The thread is in accept, where it does not see the flag.
Accept(p) ==
    /\ accepting = "accept" /\ listening /\ at[p] = "backlog"
    /\ accepted' = p /\ accepting' = "count"
    /\ UNCHANGED <<running, listening, stopping, closing, publisher, clients, threads>>

\* A second without a connection, or a socket that stop has closed.
AcceptNone ==
    /\ accepting = "accept"
    /\ accepting' = IF listening THEN "loop" ELSE "done"
    /\ UNCHANGED <<running, listening, accepted, stopping, closing, publisher, clients, threads>>

Full == Cardinality(clients) >= MaxClients

AcceptCount ==
    /\ accepting = "count"
    /\ IF Full
       THEN /\ at' = [at EXCEPT ![accepted] = "refused"]
            /\ accepting' = "loop" /\ accepted' = NoPeer
       ELSE accepting' = "add" /\ UNCHANGED <<at, accepted>>
    /\ UNCHANGED <<running, listening, stopping, closing, publisher, clients>>
    /\ UNCHANGED <<alive, shut, outbox, hand, got>>

\* Under the lock a second time; then the thread of the client is started.
AcceptAdd ==
    /\ accepting = "add"
    /\ clients' = clients \cup {accepted}
    /\ at' = [at EXCEPT ![accepted] = "handshake"]
    /\ accepting' = "loop" /\ accepted' = NoPeer
    /\ UNCHANGED <<running, listening, stopping, closing, publisher, alive, shut, outbox, hand, got>>

Accepting == AcceptLoop \/ (\E p \in Peers : Accept(p)) \/ AcceptNone \/ AcceptCount \/ AcceptAdd

-----------------------------------------------------------------------------
(* The thread of a client.                                                 *)

Moves(p, from, to) == at[p] = from /\ at' = [at EXCEPT ![p] = to]
queues == <<control, publisher, clients, alive, shut, outbox, got>>

\* A request for the stream, in time and authorised; the answer reaches the socket.
HandshakeOk(p) ==
    /\ Moves(p, "handshake", "loop") /\ ~shut[p]
    /\ UNCHANGED <<queues, hand>>

\* Time limit, source table, unknown mountpoint, wrong password, or no connection.
HandshakeEnds(p) ==
    /\ Moves(p, "handshake", "leaving")
    /\ UNCHANGED <<queues, hand>>

Loop(p) ==
    /\ Moves(p, "loop", IF running /\ alive[p] THEN "wait" ELSE "leaving")
    /\ UNCHANGED <<queues, hand>>

Get(p) ==
    /\ Moves(p, "wait", "send") /\ outbox[p] # <<>>
    /\ hand' = [hand EXCEPT ![p] = Head(outbox[p])]
    /\ outbox' = [outbox EXCEPT ![p] = Tail(outbox[p])]
    /\ UNCHANGED <<control, publisher, clients, alive, shut, got>>

\* A second without data: a look at the socket, whose peer may have closed it.
Peek(p) ==
    /\ outbox[p] = <<>>
    /\ \/ Moves(p, "wait", "loop") /\ ~shut[p]
       \/ Moves(p, "wait", "leaving")
    /\ UNCHANGED <<queues, hand>>

Send(p) ==
    /\ Moves(p, "send", "loop") /\ ~shut[p]
    /\ got' = [got EXCEPT ![p] = hand[p]]
    /\ hand' = [hand EXCEPT ![p] = 0]
    /\ UNCHANGED <<control, publisher, clients, alive, shut, outbox>>

\* The peer is gone, or we have shut the socket: sendall fails.
SendFails(p) ==
    /\ Moves(p, "send", "leaving")
    /\ hand' = [hand EXCEPT ![p] = 0]
    /\ UNCHANGED queues

Leave(p) ==
    /\ Moves(p, "leaving", "gone")
    /\ alive' = [alive EXCEPT ![p] = FALSE]
    /\ clients' = clients \ {p}
    /\ shut' = [shut EXCEPT ![p] = TRUE]
    /\ UNCHANGED <<control, publisher, outbox, hand, got>>

\* What comes by itself: a send to a peer that does not read ends only when the
\* socket is shut.
Serving(p) ==
    \/ HandshakeOk(p) \/ HandshakeEnds(p) \/ Loop(p) \/ Get(p) \/ Peek(p)
    \/ (shut[p] /\ SendFails(p)) \/ Leave(p)

-----------------------------------------------------------------------------
(* The data source.                                                        *)

Publish ==
    /\ publishing = "no" /\ running /\ packet < MaxPackets
    /\ packet' = packet + 1 /\ publishing' = "list"
    /\ UNCHANGED <<control, clients, threads, targets>>

PublishList ==
    /\ publishing = "list"
    /\ targets' = {p \in clients : alive[p]}
    /\ publishing' = "put"
    /\ UNCHANGED <<control, clients, threads, packet>>

\* Slip: a slow client loses its oldest packet and stays.
PutDropOldest(p) ==
    /\ publishing = "put" /\ p \in targets
    /\ targets' = targets \ {p}
    /\ outbox' = [outbox EXCEPT ![p] =
                    Append(IF Len(@) < ClientQueue THEN @ ELSE Tail(@), packet)]
    /\ UNCHANGED <<control, clients, publishing, packet, at, alive, shut, hand, got>>

\* Slip: a slow client is marked, and its socket stays open.
PutNoShutdown(p) ==
    /\ publishing = "put" /\ p \in targets
    /\ targets' = targets \ {p}
    /\ IF Len(outbox[p]) < ClientQueue
       THEN outbox' = [outbox EXCEPT ![p] = Append(@, packet)] /\ UNCHANGED alive
       ELSE alive' = [alive EXCEPT ![p] = FALSE] /\ UNCHANGED outbox
    /\ UNCHANGED <<control, clients, publishing, packet, at, shut, hand, got>>

\* A client whose queue is full is disconnected.
Put(p) ==
    /\ publishing = "put" /\ p \in targets
    /\ targets' = targets \ {p}
    /\ IF Len(outbox[p]) < ClientQueue
       THEN outbox' = [outbox EXCEPT ![p] = Append(@, packet)] /\ UNCHANGED <<alive, shut>>
       ELSE /\ alive' = [alive EXCEPT ![p] = FALSE]
            /\ shut' = [shut EXCEPT ![p] = TRUE]
            /\ UNCHANGED outbox
    /\ UNCHANGED <<control, clients, publishing, packet, at, hand, got>>

Published ==
    /\ publishing = "put" /\ targets = {}
    /\ publishing' = "no"
    /\ UNCHANGED <<control, clients, threads, targets, packet>>

Publishing == Publish \/ PublishList \/ (\E p \in Peers : Put(p)) \/ Published

CasterNext ==
    \/ CasterStart \/ Stop \/ Accepting \/ Publishing
    \/ \E p \in Peers : Connect(p) \/ Serving(p) \/ Send(p) \/ SendFails(p)

CasterSpec == CasterInit /\ [][CasterNext]_casterVars

\* The time limits of accept, recv, get and join; a stop that has begun.
CasterFairness ==
    /\ WF_casterVars(Stop /\ stopping # "no") /\ WF_casterVars(Accepting)
    /\ \A p \in Peers : WF_casterVars(Serving(p))

-----------------------------------------------------------------------------
(* Properties.                                                             *)

CasterTypeOK ==
    /\ running \in BOOLEAN /\ listening \in BOOLEAN
    /\ accepting \in {"none", "loop", "accept", "count", "add", "done"} /\ accepted \in Peers \cup {NoPeer}
    /\ stopping \in {"no", "listen", "list", "clients", "done"}
    /\ clients \subseteq Peers /\ closing \subseteq Peers /\ targets \subseteq Peers
    /\ publishing \in {"no", "list", "put"} /\ packet \in 0..MaxPackets
    /\ at \in [Peers -> Positions]
    /\ alive \in [Peers -> BOOLEAN] /\ shut \in [Peers -> BOOLEAN]
    /\ outbox \in [Peers -> Seq(1..MaxPackets)]
    /\ hand \in [Peers -> 0..MaxPackets] /\ got \in [Peers -> 0..MaxPackets]

\* There are never more clients than allowed, though the list is counted and
\* extended under the lock one after the other.
ClientLimit == Cardinality(clients) <= MaxClients

\* Nobody is served a stream with a gap: a client gets every packet from its
\* first one on, or is disconnected.
NoGap ==
    [][\A p \in Peers : got'[p] # got[p] /\ got[p] # 0 => got'[p] = got[p] + 1]_casterVars

\* A client that is dropped, and every client once the caster stops, even one
\* accepted in the middle of it, gives its place and its thread back: again and
\* again there is none left that has yet to.
PlacesComeBack ==
    []<>(\A p \in Peers : at[p] \notin {"away", "backlog", "refused", "gone"} => alive[p] /\ running)
=============================================================================
