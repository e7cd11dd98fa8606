----------------------------- MODULE MCTtlCache -----------------------------
(***************************************************************************)
(* Instances of TtlCache for TLC.  Workers, requests and patches are told  *)
(* apart by nothing.                                                       *)
(***************************************************************************)
EXTENDS TtlCache, TLC

Symmetry == Permutations(Workers) \cup Permutations(Requests) \cup Permutations(Patches)
=============================================================================
