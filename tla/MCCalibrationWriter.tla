------------------------- MODULE MCCalibrationWriter -------------------------
(* An instance of CalibrationWriter for TLC: a rover never calibrated, a rover *)
(* and a base with a coordinate, a base that surveys, and a silent one.        *)
EXTENDS CalibrationWriter

MCEarlier == {[mode |-> "rover", pos |-> "off", msgs |-> "gga"],
              [mode |-> "rover", pos |-> "old", msgs |-> "silent"],
              [mode |-> "base", pos |-> "old", msgs |-> "rtcm"],
              [mode |-> "base", pos |-> "survey", msgs |-> "rtcm"],
              [mode |-> "base", pos |-> "off", msgs |-> "silent"]}
=============================================================================
