----------------------- MODULE MCCalibrationService -----------------------
(* An instance of CalibrationService for TLC: its constants are in the cfg. *)
EXTENDS CalibrationService
=============================================================================
