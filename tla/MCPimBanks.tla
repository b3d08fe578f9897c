----------------------------- MODULE MCPimBanks -----------------------------
(***************************************************************************)
(* Instances of PimBanks: shapes with one and two elements per row, two of *)
(* which have the same number of elements and can be mistaken for one      *)
(* another.                                                                *)
(***************************************************************************)
EXTENDS PimBanks, TLC

CONSTANTS a, b

Shape(g, c) == [groups |-> g, cols |-> c]
TwoFactorings == {Shape(3, 2), Shape(6, 1)}
OneShape == {Shape(3, 1)}

Sym == Permutations(Keys)
=============================================================================
