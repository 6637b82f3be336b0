---------------------------- MODULE MCKeyCache ----------------------------
(***************************************************************************)
(* KeyCache for TLC.  Requests are alike, and so are keys.                 *)
(***************************************************************************)
EXTENDS KeyCache, TLC

Symmetry == Permutations(Requests) \cup Permutations(Kids)
=============================================================================
