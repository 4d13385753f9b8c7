----------------------------- MODULE MCCollector -----------------------------
(* Instances of Collector for TLC.                                         *)
EXTENDS Collector

(* Keys are only ever compared, so they may be permuted in runs that check *)
(* no liveness property.                                                   *)
KeySymmetry == Permutations(Keys)
=============================================================================
