SPECIFICATION Spec
CONSTANTS
  a = a  b = b  i1 = i1  g1 = g1  c1 = c1
  Program <- Round
  Ending = {1}
  Tracks = {a, b}
  NoTrack = NoTrack
  Items = {i1}
  TrackOf <- OneTrack
  NoItem = NoItem
  Guests = {g1}
  NoGuest = NoGuest
  Calls = {c1}
  Threshold = 1
  VoteSkipMode = "fixed"
  Operations = {"item", "now", "uri", "host", "again"}
INVARIANTS TypeOK PollerSkipsOnce RejectionSpentOnce FullTalliesAct
PROPERTIES RejectedTrackEnds
CHECK_DEADLOCK FALSE
