------------------------------ MODULE Announcer ------------------------------
(***************************************************************************)
(* The address and the caster's port announced in the local network,       *)
(* discovery/zeroconf_announcer.py: started and stopped by the main loop,  *)
(* which also says when the local caster starts and stops, and kept up to  *)
(* date by a thread that stop waits for only so long.                      *)
(*                                                                         *)
(* The zeroconf library is a table of records; it refuses a name that      *)
(* another device has, and everything once it is closed, which takes all   *)
(* records back.  Names are 1 (2rtk), 2 (2rtk-2) and so on.                *)
(***************************************************************************)
EXTENDS Naturals

CONSTANTS
    MaxSuffix,      \* MAX_NAME_SUFFIX
    Addresses       \* the device can have, one at a time

ASSUME AnnouncerAssumption == MaxSuffix \in Nat \ {0} /\ 0 \notin Addresses

VARIABLES
    network,    \* the device's address; 0 is none
    others,     \* names other devices have
    zc,         \* self._zc: none, open, or closed
    records,    \* in the library: of http and of ntrip
    http,       \* self._http_info
    ntrip,      \* self._ntrip_info
    named,      \* self._server
    listed,     \* self._addresses; 0 is none
    announced,  \* self._state
    hook,       \* the main loop: where in start, set_ntrip or stop it is
    watching,   \* the thread: where it is
    trying,     \* where _try_register is, called by start or by the thread
    candidate,  \* its name and address, and the address the thread has read
    turn        \* candidates refused

library == <<zc, records>>
kept == <<http, ntrip, named, listed, announced>>
registering == <<trying, candidate, turn>>
announcerVars == <<network, others, library, kept, hook, watching, registering>>

Names == 1..(MaxSuffix + 1)
NoRecord == [name |-> 0, addr |-> 0]
Record(n, a) == [name |-> n, addr |-> a]
Stopping == {"stop", "take", "close", "gone"}

AnnouncerInit ==
    /\ network \in Addresses \cup {0} /\ others \in SUBSET Names
    /\ zc = "none" /\ records = [http |-> NoRecord, ntrip |-> NoRecord]
    /\ http = NoRecord /\ ntrip = NoRecord /\ named = 1 /\ listed = 0 /\ announced = "stopped"
    /\ hook = "none" /\ watching = "none"
    /\ trying = "no" /\ candidate = NoRecord /\ turn = 0

\* The network: addresses come and go, and so do other devices.
Changes ==
    /\ \/ network' \in Addresses \cup {0} /\ UNCHANGED others
       \/ \E n \in Names :
             /\ others' \in {others \cup {n}, others \ {n}}
             /\ UNCHANGED network
    /\ UNCHANGED <<library, kept, hook, watching, registering>>

-----------------------------------------------------------------------------
(* _try_register.                                                          *)

\* The library is not there, or there is no more name: the thread tries again, and
\* start gives up for good.
Fails ==
    /\ trying' = "no" /\ candidate' = NoRecord /\ turn' = 0
    /\ IF hook = "start"
       THEN hook' = "absent" /\ announced' = "unavailable" /\ zc' = "none" /\ UNCHANGED watching
       ELSE watching' = "wait" /\ UNCHANGED <<hook, announced, zc>>

\* It returns, to start, which starts the thread, or to the thread.
Returns ==
    /\ trying' = "no" /\ candidate' = NoRecord /\ turn' = 0
    /\ watching' = "wait" /\ hook' = IF hook = "start" THEN "idle" ELSE hook

TryAddresses ==
    /\ trying = "addresses"
    /\ IF network = 0
       THEN Returns /\ announced' = "unavailable"
       ELSE /\ trying' = "resolve" /\ candidate' = Record(0, network)
            /\ UNCHANGED <<turn, announced, hook, watching>>
    /\ UNCHANGED <<network, others, library, http, ntrip, named, listed>>

\* The first name that none of the devices heard of in time has; with all names
\* taken, the first one.
FreeName(heard) ==
    IF 1..MaxSuffix \subseteq heard THEN 1
    ELSE CHOOSE n \in 1..MaxSuffix : n \notin heard /\ 1..(n - 1) \subseteq heard

TryResolve ==
    /\ trying = "resolve" /\ trying' = "register"
    /\ \E heard \in SUBSET others : candidate' = [candidate EXCEPT !.name = FreeName(heard)]
    /\ UNCHANGED <<network, others, library, kept, hook, watching, turn>>

\* Behind the first candidate all names from the second on.
TryRegister ==
    /\ trying = "register"
    /\ \/ zc = "open" /\ candidate.name \notin others
          /\ records' = [records EXCEPT !.http = candidate]
          /\ named' = candidate.name
          /\ trying' = "adopt"
          /\ UNCHANGED <<zc, hook, watching, candidate, turn, announced>>
       \/ zc = "open" /\ candidate.name \in others /\ turn < MaxSuffix
          /\ turn' = turn + 1 /\ candidate' = [candidate EXCEPT !.name = turn' + 1]
          /\ UNCHANGED <<library, hook, watching, trying, named, announced>>
       \/ (zc # "open" \/ (candidate.name \in others /\ turn = MaxSuffix))
          /\ Fails /\ UNCHANGED <<records, named>>
    /\ UNCHANGED <<network, others, http, ntrip, listed>>

TryAdopt ==
    /\ trying = "adopt"
    /\ http' = candidate /\ listed' = candidate.addr /\ announced' = "running"
    /\ Returns
    /\ UNCHANGED <<network, others, library, ntrip, named>>

Trying == TryAddresses \/ TryResolve \/ TryRegister \/ TryAdopt

-----------------------------------------------------------------------------
(* The thread.                                                             *)

\* Slip: only what was announced is kept up to date.
WatchRunning ==
    /\ watching = "wait"
    /\ IF hook \in Stopping
       THEN watching' = "done" /\ UNCHANGED candidate
       ELSE /\ announced = "running" /\ network \notin {0, listed} /\ http # NoRecord
            /\ watching' = "update" /\ candidate' = Record(http.name, network)
    /\ UNCHANGED <<network, others, library, kept, hook, trying, turn>>

\* Every WATCH_INTERVAL.
Watch ==
    /\ watching = "wait"
    /\ IF hook \in Stopping
       THEN watching' = "done" /\ UNCHANGED <<trying, candidate>>
       ELSE \/ /\ announced # "running" /\ zc # "none"
               /\ watching' = "trying" /\ trying' = "addresses" /\ UNCHANGED candidate
            \/ /\ announced = "running" /\ network \notin {0, listed} /\ http # NoRecord
               /\ watching' = "update" /\ candidate' = Record(http.name, network)
               /\ UNCHANGED trying
    /\ UNCHANGED <<network, others, library, kept, hook, turn>>

\* _update_addresses: the record is made with self._server.
WatchUpdate ==
    /\ watching = "update"
    /\ IF zc = "open"
       THEN /\ records' = [records EXCEPT !.http = Record(named, candidate.addr)]
            /\ watching' = "note" /\ UNCHANGED candidate
       ELSE watching' = "wait" /\ candidate' = NoRecord /\ UNCHANGED records
    /\ UNCHANGED <<network, others, zc, kept, hook, trying, turn>>

\* A record the library has not taken is tried again in the next round.
WatchRefused ==
    /\ watching = "update" /\ watching' = "wait" /\ candidate' = NoRecord
    /\ UNCHANGED <<network, others, library, kept, hook, trying, turn>>

WatchNote ==
    /\ watching = "note" /\ watching' = "wait"
    /\ http' = Record(named, candidate.addr) /\ listed' = candidate.addr
    /\ candidate' = NoRecord
    /\ UNCHANGED <<network, others, library, ntrip, named, announced, hook, trying, turn>>

Watching == Watch \/ WatchUpdate \/ WatchNote

-----------------------------------------------------------------------------
(* The main loop.                                                          *)

AnnouncerStart ==
    /\ hook = "none"
    /\ \/ hook' = "start" /\ zc' = "open" /\ trying' = "addresses" /\ UNCHANGED announced
       \/ \* the library is not installed
          hook' = "absent" /\ announced' = "unavailable" /\ UNCHANGED <<zc, trying>>
    /\ UNCHANGED <<network, others, records, http, ntrip, named, listed, watching, candidate, turn>>

\* set_ntrip, when the local caster has been started or stopped.
NtripDrop ==
    /\ hook = "idle" /\ hook' = "ntrip"
    /\ ntrip' = NoRecord
    /\ records' = [records EXCEPT !.ntrip = NoRecord]
    /\ UNCHANGED <<network, others, zc, http, named, listed, announced, watching, registering>>

\* The caster was stopped, or the library refuses the record.
NtripNone ==
    /\ hook = "ntrip" /\ hook' = "idle"
    /\ UNCHANGED <<network, others, library, kept, watching, registering>>

NtripAdd ==
    /\ hook = "ntrip" /\ hook' = "ntrip note"
    /\ LET addr == IF listed # 0 THEN listed ELSE network IN
       records' = [records EXCEPT !.ntrip = Record(named, addr)]
    /\ UNCHANGED <<network, others, zc, kept, watching, registering>>

NtripNote ==
    /\ hook = "ntrip note" /\ hook' = "idle"
    /\ ntrip' = records.ntrip
    /\ UNCHANGED <<network, others, library, http, named, listed, announced, watching, registering>>

\* stop: the thread is told, and waited for, but not for ever.
StopAnnouncer ==
    /\ hook = "idle" /\ hook' = "stop"
    /\ UNCHANGED <<network, others, library, kept, watching, registering>>

StopTake ==
    /\ hook = "stop" /\ hook' = "close"
    /\ http' = NoRecord /\ ntrip' = NoRecord /\ announced' = "stopped"
    /\ UNCHANGED <<network, others, library, named, listed, watching, registering>>

\* Slip: the records that are known are taken back, and the library is left to itself.
StopCloseKnown ==
    /\ hook = "close" /\ hook' = "gone"
    /\ records' = [records EXCEPT !.http = IF trying = "adopt" THEN @ ELSE NoRecord,
                                  !.ntrip = NoRecord]
    /\ zc' = "closed"
    /\ UNCHANGED <<network, others, kept, watching, registering>>

\* A goodbye for every record, the library closed, self._zc none.
StopClose ==
    /\ hook = "close" /\ hook' = "gone"
    /\ records' = [http |-> NoRecord, ntrip |-> NoRecord] /\ zc' = "closed"
    /\ UNCHANGED <<network, others, kept, watching, registering>>

Hooks ==
    \/ AnnouncerStart \/ NtripDrop \/ NtripNone \/ NtripAdd \/ NtripNote
    \/ StopAnnouncer \/ StopTake \/ StopClose

AnnouncerNext == Changes \/ Trying \/ Watching \/ WatchRefused \/ Hooks

AnnouncerSpec == AnnouncerInit /\ [][AnnouncerNext]_announcerVars

\* Registering ends, the thread comes round, and the library takes an update some time.
AnnouncerFairness ==
    WF_announcerVars(Trying) /\ WF_announcerVars(Watch) /\ SF_announcerVars(WatchUpdate)
    /\ WF_announcerVars(WatchNote)

-----------------------------------------------------------------------------
(* Properties.                                                             *)

RecordsOf == [name : Names \cup {0}, addr : Addresses \cup {0}]

AnnouncerTypeOK ==
    /\ network \in Addresses \cup {0} /\ others \subseteq Names
    /\ zc \in {"none", "open", "closed"}
    /\ records \in [http : RecordsOf, ntrip : RecordsOf]
    /\ http \in RecordsOf /\ ntrip \in RecordsOf /\ candidate \in RecordsOf
    /\ named \in Names /\ listed \in Addresses \cup {0}
    /\ announced \in {"stopped", "unavailable", "running"}
    /\ hook \in {"none", "start", "absent", "idle", "ntrip", "ntrip note"} \cup Stopping
    /\ watching \in {"none", "wait", "trying", "update", "note", "done"}
    /\ trying \in {"no", "addresses", "resolve", "register", "adopt"} /\ turn \in 0..MaxSuffix

\* What the page shows as running is announced, under the name it shows, and the
\* addresses it shows are announced or about to be replaced; and nothing stays
\* announced behind a stop, though the thread may be in the middle of registering.
AnnouncedAsShown ==
    /\ announced = "running" /\ hook \notin Stopping =>
        /\ records.http.name = named /\ http.name = named
        /\ watching # "note" => records.http.addr = listed
    /\ hook = "gone" => records.http = NoRecord /\ records.ntrip = NoRecord

\* Once there is an address and a free name for good, the device is announced
\* with that address, whenever they came and whatever there was before.
AddressFollows ==
    \A a \in Addresses :
        <>[](network = a /\ others = {} /\ hook \in {"idle", "ntrip", "ntrip note"})
            => <>[](records.http.addr = a)
=============================================================================
