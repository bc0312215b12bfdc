-------------------------- MODULE MCCorsCollection --------------------------
(* Instances of CorsCollection for TLC, in seconds much shorter than the    *)
(* program's.                                                               *)
EXTENDS CorsCollection, TLC

Pauses == <<1, 1, 2>>
=============================================================================
