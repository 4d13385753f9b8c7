---------------------------- MODULE MCContextDocs ----------------------------
(* Instances of ContextDocs for TLC.  No definition names a session, and   *)
(* only invariants are checked, so that sessions may be permuted.          *)
EXTENDS ContextDocs, TLC
SessionsAreAlike == Permutations(Sessions)
=============================================================================
