SPECIFICATION FairSpec
CONSTANTS
    Items = {1, 2}
    Tracks = {"a", "b"}
    TrackOf <- MCTrackOf
    NoTrack = NoTrack
    Moderated = {2}
    RetryAfter = 1
    Grace = 2
    Refresh = 2
    MaxUpNext = 2
    MaxFaults = 1
INVARIANTS PumpRespectsReads KnownKeepsItsTurn
PROPERTY ApprovedEnds
CHECK_DEADLOCK FALSE
