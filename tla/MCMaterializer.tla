---------------------------- MODULE MCMaterializer ----------------------------
(* Instances of Materializer for TLC.                                      *)
EXTENDS Materializer
=============================================================================
