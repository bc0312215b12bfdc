---------------------------- MODULE ModuleChannel ----------------------------
(***************************************************************************)
(* What a calibration uses its channel to the module for: commands         *)
(* (drivers/base.py), and the positions it reports to a CORS caster        *)
(* (GgaManager of cors.py).  The worker is one thread and does one of them *)
(* at a time, and all that passes between them is the line in the          *)
(* channel's cache, which GgaManager takes to be any line.  So a behaviour *)
(* is about one of them, the other being idle.                             *)
(***************************************************************************)
EXTENDS GgaManager, CommandChannel

VARIABLE use    \* the one this behaviour is about

moduleVars == <<use, vars, channelVars>>

Uses == {"commands", "positions"}

ModuleInit ==
    /\ use \in Uses
    /\ Init /\ ChannelInit

Positioned(A) == use = "positions" /\ A /\ UNCHANGED <<use, channelVars>>

ModuleNext ==
    \/ use = "commands" /\ ChannelNext /\ UNCHANGED <<use, vars>>
    \/ Positioned(Next)

ModuleSpec ==
    /\ ModuleInit /\ [][ModuleNext]_moduleVars
    /\ ChannelFairness
    /\ WF_moduleVars(Positioned(Pump)) /\ WF_moduleVars(Positioned(Tick))
=============================================================================
