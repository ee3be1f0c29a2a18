--------------------------- MODULE MCTrackSkips ---------------------------
(* Small instances of TrackSkips. *)
EXTENDS TrackSkips

CONSTANTS a, b, i1, g1, c1

\* Track a comes round again.
Round == <<a, b, a>>

\* All rows ask for track a.
OneTrack == [i \in Items |-> a]
=============================================================================
