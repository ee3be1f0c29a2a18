SPECIFICATION FairSpec
CONSTANTS
    song1 = song1
    song2 = song2
    guest1 = guest1
    viewer1 = viewer1
    None = None
    Items = {1}
    Guests = {guest1}
    Tracks = {song1, song2}
    RecentlyPlayedMax = 2
    Viewers = {viewer1}
    TrackOf <- OneTrack
    Scenarios <- Evenings
    MaxGets = 1
INVARIANTS NothingMissing InStep LyricsAreOfTheTrack
PROPERTY Converges
CHECK_DEADLOCK FALSE
