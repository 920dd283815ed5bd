----------------------------- MODULE MCDriverInit -----------------------------
(* Instances of DriverInit for TLC.                                        *)
EXTENDS DriverInit
=============================================================================
