---------------------------- MODULE MCRolloutLog ----------------------------
(* Instances of RolloutLog for TLC.                                        *)
EXTENDS RolloutLog, TLC

CONSTANTS i1, i2
=============================================================================
