SPECIFICATION Spec
CONSTANTS
  a = a  b = b  c1 = c1  c2 = c2  g1 = g1  g2 = g2
  Items = {1, 2}
  TrackOf <- TwoTracks
  Tracks = {a, b}
  NoTrack = NoTrack
  Guests = {g1}
  NoGuest = NoGuest
  Calls = {c1}
  PauseMode = "manual"
  MicCount = 1
  Timeout = 1
  Operations = {"pause"}
  Faults = {}
INVARIANTS HeldHasDeadline
