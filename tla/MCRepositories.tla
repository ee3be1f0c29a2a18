--------------------------- MODULE MCRepositories ---------------------------
(* Two names, and one address typed in two ways.                         *)
EXTENDS MemoryRepositories

CONSTANTS n1, n2, e1, E1

Sym == Permutations({n1, n2})

MCLower == (e1 :> e1) @@ (E1 :> e1)
=============================================================================
