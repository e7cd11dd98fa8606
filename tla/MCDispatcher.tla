---------------------------- MODULE MCDispatcher ----------------------------
(* Small instances of Dispatcher: who calls whom. *)
EXTENDS Dispatcher, TLC

CONSTANTS c1, c2, c3, pA, pB

ThreeCalls == {c1, c2, c3}
TwoProviders == {pA, pB}

(* No fallback; a chain that crosses another one; a chain that lists its   *)
(* primary again as the last fallback.                                     *)
CrossedChains == (c1 :> <<pB>>) @@ (c2 :> <<pB, pA>>) @@ (c3 :> <<pA, pB, pA>>)
=============================================================================
