-------------------------- MODULE MCSerialHandover --------------------------
(* Instances of SerialHandover for TLC.                                    *)
EXTENDS SerialHandover, TLC

\* Source threads are interchangeable in the safety runs.
ThreadSymmetry == Permutations(Threads)
=============================================================================
