------------------------------ MODULE MCFakeIP ------------------------------
EXTENDS FakeIP, TLC

(* Domains, ranges and creators are interchangeable.                        *)
Symmetry == Permutations(Domains) \union Permutations(Ranges) \union Permutations(Creators)
=============================================================================
