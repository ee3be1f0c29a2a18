SPECIFICATION Spec
CONSTANTS
  Clients = {c1, c2}
  Slots = {s1, s2}
  Entries = {e1, e2, e3}
  NoEntry = NoEntry
  ReadOutcomes = {"ok", "transient", "unauthorized"}
INVARIANTS TypeOK PolledWhileWatched NoOrphanTimer OneChain
PROPERTIES UnwatchedStops
