---------------------------- MODULE MCGgaManager ----------------------------
(* The instance of GgaManager for TLC.                                     *)
EXTENDS GgaManager

=============================================================================
