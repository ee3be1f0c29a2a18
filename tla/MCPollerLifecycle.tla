------------------------- MODULE MCPollerLifecycle -------------------------
(* Small instances of PollerLifecycle. *)
EXTENDS PollerLifecycle, TLC

Symmetry == Permutations(Clients) \cup Permutations(Slots) \cup Permutations(Entries)
=============================================================================
