-------------------------- MODULE MCRequestQueue --------------------------
(* Small instances of RequestQueue for TLC. *)
EXTENDS RequestQueue, TLC

Symmetry == Permutations(Guests) \cup Permutations(Calls) \cup Permutations(Tracks)

KaraokeRequired ==
    [songsPerGuestCap |-> 2, maxConsecutivePerGuest |-> NoLimit,
     allowDuplicates |-> FALSE, voteSkipMode |-> "fixed",
     voteSkipThreshold |-> 2, karaokeMode |-> "required"]

\* Every admission rule in force; one vote rejects.
EveryCap ==
    [songsPerGuestCap |-> 3, maxConsecutivePerGuest |-> 2,
     allowDuplicates |-> FALSE, voteSkipMode |-> "fixed",
     voteSkipThreshold |-> 1, karaokeMode |-> "optional"]
=============================================================================
