---------------------------- MODULE MCKaraoke ----------------------------
(* Small instances of Karaoke. *)
EXTENDS Karaoke, TLC

CONSTANTS a, b, c1, c2, g1, g2

TwoTracks == [i \in {1, 2} |-> IF i = 1 THEN a ELSE b]

\* Items 1 and 2 ask for one track, item 3 for another.
SharedTrack == [i \in {1, 2, 3} |-> IF i = 3 THEN b ELSE a]

GuestsAlike == Permutations(Guests)
=============================================================================
