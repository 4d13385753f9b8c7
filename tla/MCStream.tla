------------------------------ MODULE MCStream -------------------------------
(* Instances of Stream for TLC.                                            *)
EXTENDS Stream, TLC

(* Kinds are only compared with a filter.                                  *)
KindSymmetry == Permutations(Kinds)
ClientSymmetry == Permutations(Clients)
=============================================================================
