--------------------------- MODULE MCSessionStore ---------------------------
(* Small instances of SessionStore. *)
EXTENDS SessionStore, TLC

CONSTANTS w1, w2, a, b, garbled, r1, r2, r3

TwoWorkers == {w1, w2}
ThreeSids == {a, b, garbled}
OneCorrupt == {garbled}
ThreeRequests == {r1, r2, r3}

Symmetry3 == Permutations(ThreeRequests) \cup Permutations(TwoWorkers) \cup Permutations({a, b})
=============================================================================
