--------------------------- MODULE MCSessionStore ---------------------------
(***************************************************************************)
(* Instances of SessionStore for TLC.                                      *)
(***************************************************************************)
EXTENDS SessionStore, TLC

Symmetric == Permutations(Process) \cup Permutations(Session)
=============================================================================
