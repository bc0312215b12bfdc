----------------------------- MODULE MCUpgrade -----------------------------
(* The instance of Upgrade for TLC.                                        *)
EXTENDS Upgrade

=============================================================================
