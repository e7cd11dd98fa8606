------------------------------ MODULE MCFanout ------------------------------
(* Small instances of Fanout: which tenant each socket asks for.           *)
EXTENDS Fanout, TLC

CONSTANTS s1, s2, s3, tA, tB

ThreeSockets == {s1, s2, s3}
TwoSockets == {s1, s2}
TwoTenants == {tA, tB}
OneTenant == {tA}

(* Two sockets of one tenant and one of another. *)
MixedTenants == (s1 :> tA) @@ (s2 :> tA) @@ (s3 :> tB)
OwnTenants == (s1 :> tA) @@ (s2 :> tB)
SameTenant == [s \in TwoSockets |-> tA]
=============================================================================
