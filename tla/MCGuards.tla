------------------------------ MODULE MCGuards -------------------------------
(* Instances of Guards for TLC: one checkout has two directories, another *)
(* has one, and a call starts in the root of the first.                    *)
EXTENDS Guards, TLC
=============================================================================
