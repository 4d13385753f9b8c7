------------------------------ MODULE MCUsageTail ------------------------------
(* Instances of UsageTail for TLC.                                         *)
EXTENDS UsageTail
=============================================================================
