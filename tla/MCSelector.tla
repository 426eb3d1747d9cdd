----------------------------- MODULE MCSelector -----------------------------
(* An instance of Selector for TLC.                                         *)
EXTENDS Selector, TLC

CONSTANTS o1, o2, o3, c1, c2, x1, x2

MCOutbounds == {o1, o2, o3}
MCCallers == {c1, c2}
MCConns == {x1, x2}

Symmetry == Permutations(MCCallers) \union Permutations(MCConns) \union Permutations({o2, o3})
=============================================================================
