\* One row under three overlapping calls of every kind, with the poller.
SPECIFICATION Spec
CONSTANTS
    Guests = {g1, g2}
    Tracks = {t1}
    Calls = {c1, c2, c3}
    MaxItems = 1
    Operations = {"request", "moderate", "remove", "vote", "poll", "end", "settings"}
    Settings <- KaraokeRequired
    PushOutcomes = {"pushed", "failed", "rate_limited"}
    NoGuest = NoGuest
    NoTrack = NoTrack
SYMMETRY Symmetry
INVARIANTS TypeOK NoUnapprovedPush PendingRowsShown RoomViewSound VoteLedger NoOrphans VotedOutIsDecided
PROPERTIES DrainedSessionGrowsNoMore
\* The clients may stop issuing calls, and MaxItems is a bound of the model.
CHECK_DEADLOCK FALSE
