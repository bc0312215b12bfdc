------------------------------- MODULE Outlets -------------------------------
(***************************************************************************)
(* The outer parts: the receivers the data is distributed to,              *)
(* core/distributor.py (the local caster, the radio bridge or the          *)
(* uploader, and the parse buffer), and the announcer, which the main loop *)
(* starts before its first round and tells of the caster's port.           *)
(*                                                                         *)
(* They share nothing: distribute gives each receiver the same bytes, one  *)
(* after the other, never waits, and keeps an exception of one from the    *)
(* others; the hooks and the calls of the announcer swallow theirs.  So a  *)
(* behaviour is about one part, the others being idle, and what is said of *)
(* it holds whatever the others do.                                        *)
(***************************************************************************)
EXTENDS LocalCaster, Senders, RtcmBuffer, Announcer

VARIABLE part   \* the one this behaviour is about

outletVars == <<part, casterVars, senderVars, parserVars, announcerVars>>

\* The table register_all fills.
Receivers == {"local_caster", "radio", "caster", "parser"}

Init ==
    /\ part \in Receivers \cup {"announcer"}
    /\ CasterInit /\ SenderInit /\ ParserInit
    /\ kind = IF part = "radio" THEN "radio" ELSE "uploader"
    /\ AnnouncerInit /\ (part # "announcer" => network = 0 /\ others = {})

Next ==
    \/ part = "local_caster" /\ CasterNext
       /\ UNCHANGED <<part, senderVars, parserVars, announcerVars>>
    \/ part \in {"radio", "caster"} /\ SenderNext
       /\ UNCHANGED <<part, casterVars, parserVars, announcerVars>>
    \/ part = "parser" /\ ParserNext
       /\ UNCHANGED <<part, casterVars, senderVars, announcerVars>>
    \/ part = "announcer" /\ AnnouncerNext
       /\ UNCHANGED <<part, casterVars, senderVars, parserVars>>

Spec == Init /\ [][Next]_outletVars /\ CasterFairness /\ SenderFairness /\ AnnouncerFairness

TypeOK ==
    /\ part \in Receivers \cup {"announcer"}
    /\ CasterTypeOK /\ SenderTypeOK /\ ParserTypeOK /\ AnnouncerTypeOK
=============================================================================
