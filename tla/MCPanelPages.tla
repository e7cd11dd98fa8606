---------------------------- MODULE MCPanelPages ---------------------------
(* Instances of PanelPages for TLC. *)
EXTENDS PanelPages, TLC

CONSTANTS f1, f2, i1, i2, m1, m2

TwoFilters == {f1, f2}
TwoItems   == {i1, i2}
TwoModules == {m1, m2}

SymmetryIM == Permutations(TwoItems) \cup Permutations(TwoModules)
=============================================================================
