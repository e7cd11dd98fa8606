---------------------------- MODULE MCMembership ----------------------------
(* Small instances of Membership. *)
EXTENDS Membership, TLC

CONSTANTS r1, r2, r3, p1, p2, agent, manager

ThreeRequests == {r1, r2, r3}
TwoReplicas == {p1, p2}
OneRole == {agent}
TwoRoles == {agent, manager}

(* Nothing tells apart the requests, the interpreters or the roles. *)
Symmetry == Permutations(ThreeRequests) \cup Permutations(TwoReplicas) \cup Permutations(TwoRoles)
=============================================================================
