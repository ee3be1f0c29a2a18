\* One call at a time, every cap in force: the admission rules are exact.
SPECIFICATION Spec
CONSTANTS
    Guests = {g1, g2}
    Tracks = {t1, t2, t3, t4, t5}
    Calls = {c1}
    MaxItems = 5
    Operations = {"request", "remove"}
    Settings <- EveryCap
    PushOutcomes = {"failed"}
    NoGuest = NoGuest
    NoTrack = NoTrack
SYMMETRY Symmetry
INVARIANTS SongsPerGuestCapHolds NoDuplicateRequest
PROPERTIES ConsecutiveCapKept
\* The clients may stop issuing calls, and MaxItems is a bound of the model.
CHECK_DEADLOCK FALSE
