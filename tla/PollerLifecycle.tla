-------------------------- MODULE PollerLifecycle --------------------------
(***************************************************************************)
(* The timers of NowPlayingPoller                                          *)
(* (packages/backend/src/realtime/NowPlayingPoller.ts) for one session:    *)
(* who starts and stops the chain of ticks, while sockets open and close,  *)
(* the host ends the session or loses the provider, and a tick is waiting  *)
(* for an answer.                                                          *)
(*                                                                         *)
(* The poller's map holds at most one entry for the session.  A tick keeps *)
(* the entry it started with in a local, and looks the map up again when   *)
(* it ends; entries dropped from the map live on as long as a tick holds   *)
(* them, so each has an identity.                                          *)
(***************************************************************************)

CONSTANTS
    Clients,       \* WebSocket clients of the session
    Slots,         \* bound: ticks in flight at once
    Entries,       \* identities of PerSession entries
    NoEntry,       \* the map has no entry for the session
    ReadOutcomes   \* how getNowPlaying may answer

ASSUME ConstantsAssumption ==
    /\ NoEntry \notin Entries
    /\ ReadOutcomes \subseteq {"ok", "transient", "unauthorized"}

VARIABLES
    open,        \* clients with a subscriber in the room
    closing,     \* clients disconnected, whose onClose has not looked yet
    cur,         \* the entry in the poller's map
    timer,       \* entries whose next tick is scheduled
    ticking,     \* entries marked as executing a tick
    idle,        \* entries with a teardown pending
    cached,      \* entries that remember the host's connection
    pc,          \* slot -> where its tick waits
    held,        \* slot -> the entry its tick started with
    ended,       \* session.endedAt is set
    connection,  \* the host's provider connection
    down,        \* SIGTERM has been received
    stopped,     \* history: since the last start a tick has torn it down
    forked       \* history: a tick that outlived its own entry has scheduled
                 \* the entry now in the map

clients == <<open, closing>>
entries == <<cur, timer, ticking, idle, cached>>
ticks == <<pc, held>>
host == <<ended, connection, down>>
history == <<stopped, forked>>
vars == <<clients, entries, ticks, host, history>>

-----------------------------------------------------------------------------
TypeOK ==
    /\ open \subseteq Clients /\ closing \subseteq Clients
    /\ cur \in Entries \cup {NoEntry}
    /\ timer \subseteq Entries /\ ticking \subseteq Entries
    /\ idle \subseteq Entries /\ cached \subseteq Entries
    /\ pc \in [Slots -> {"free", "session", "provider", "read"}]
    /\ held \in [Slots -> Entries \cup {NoEntry}]
    /\ ended \in BOOLEAN /\ down \in BOOLEAN /\ stopped \in BOOLEAN
    /\ forked \in BOOLEAN
    /\ connection \in {"none", "valid", "revoked"}

Init ==
    /\ open = {} /\ closing = {}
    /\ cur = NoEntry
    /\ timer = {} /\ ticking = {} /\ idle = {} /\ cached = {}
    /\ pc = [s \in Slots |-> "free"]
    /\ held = [s \in Slots |-> NoEntry]
    /\ ended = FALSE /\ down = FALSE
    /\ connection \in {"none", "valid"}
    /\ stopped = FALSE /\ forked = FALSE

InFlight(s) == pc[s] # "free"

\* A tick whose entry is no longer in the map.
Outlived(s) == InFlight(s) /\ held[s] # cur

\* An entry nothing refers to any more.
Unused(e) == e # cur /\ \A s \in Slots : held[s] # e

-----------------------------------------------------------------------------
(* start, stop, tearDown.                                                  *)

\* A new entry in the map, with its first tick scheduled at once.
StartFresh ==
    /\ cur = NoEntry
    /\ \E e \in Entries :
          /\ Unused(e)
          /\ cur' = e
          /\ timer' = timer \cup {e}
          /\ ticking' = ticking \ {e}
          /\ idle' = idle \ {e}
          /\ cached' = cached \ {e}

\* Faulty variant: looks at the timer only, not at a tick in flight.
StartByTimer ==
    \/ StartFresh
    \/ /\ cur # NoEntry
       /\ idle' = idle \ {cur}
       /\ timer' = timer \cup {cur}
       /\ UNCHANGED <<cur, ticking, cached>>

\* Faulty variant: the pending teardown is not cancelled.
StartWithoutRescue ==
    \/ StartFresh
    \/ cur # NoEntry /\ UNCHANGED entries

\* An entry that has a timer or a tick in flight is only rescued from its
\* teardown.
Start ==
    \/ StartFresh
    \/ /\ cur # NoEntry
       /\ idle' = idle \ {cur}
       /\ timer' = timer \cup ({cur} \ ticking)
       /\ UNCHANGED <<cur, ticking, cached>>

\* A second stop does not move the deadline.
Stop ==
    /\ idle' = idle \cup ({cur} \ {NoEntry})
    /\ UNCHANGED <<cur, timer, ticking, cached>>

TearDown ==
    /\ cur' = NoEntry
    /\ timer' = timer \ {cur}
    /\ idle' = idle \ {cur}

-----------------------------------------------------------------------------
(* The WebSocket route.                                                    *)

OnOpen(c) ==
    /\ ~down
    /\ c \notin open \cup closing
    /\ open' = open \cup {c}
    /\ Start
    /\ stopped' = FALSE
    /\ forked' = (forked /\ cur # NoEntry)
    /\ UNCHANGED <<closing, ticks, host>>

\* room.disconnect, awaited before the count of subscribers is looked at.
OnClose(c) ==
    /\ c \in open
    /\ open' = open \ {c}
    /\ closing' = closing \cup {c}
    /\ UNCHANGED <<entries, ticks, host, history>>

\* Faulty variant: the last client's leaving is not looked for.
OnClosedAlone(c) ==
    /\ c \in closing
    /\ closing' = closing \ {c}
    /\ UNCHANGED <<open, entries, ticks, host, history>>

OnClosed(c) ==
    /\ c \in closing
    /\ closing' = closing \ {c}
    /\ IF open = {} THEN Stop ELSE UNCHANGED entries
    /\ UNCHANGED <<open, ticks, host, history>>

\* The idle grace is over.
IdleFires ==
    /\ cur \in idle
    /\ TearDown
    /\ UNCHANGED <<clients, ticking, cached, ticks, host, history>>

-----------------------------------------------------------------------------
(* A tick.  What it does between its reads is in other modules.            *)

\* The timer of e fires; tick() looks the map up.
TimerFires(e, s) ==
    /\ e \in timer
    /\ ~InFlight(s)
    /\ timer' = timer \ {e, cur}
    /\ IF cur = NoEntry
       THEN UNCHANGED <<ticking, ticks>>
       ELSE /\ ticking' = ticking \cup {cur}
            /\ pc' = [pc EXCEPT ![s] = "session"]
            /\ held' = [held EXCEPT ![s] = cur]
    /\ UNCHANGED <<clients, cur, idle, cached, host, history>>

\* The tick's own entry, in the map or not, is no longer ticking.
Return(s) ==
    /\ ticking' = ticking \ {held[s]}
    /\ pc' = [pc EXCEPT ![s] = "free"]
    /\ held' = [held EXCEPT ![s] = NoEntry]

\* Faulty variant: the entry the tick started with is scheduled.
FinishTickOwn(s) ==
    /\ Return(s)
    /\ timer' = timer \cup (IF open # {} THEN {held[s]} ELSE {})
    /\ UNCHANGED <<clients, cur, idle, cached, host, history>>

\* Faulty variant: schedules without looking the map up.
FinishTickBlindly(s) ==
    /\ Return(s)
    /\ timer' = timer \cup (IF open # {} THEN {cur} \ idle ELSE {})
    /\ UNCHANGED <<clients, cur, idle, cached, host, history>>

\* The end of every tick: the entry now in the map, its own or a later one, is
\* scheduled if somebody is subscribed and no teardown is pending.
FinishTick(s) ==
    LET scheduled == IF open # {} THEN {cur} \ (idle \cup {NoEntry}) ELSE {}
    IN  /\ Return(s)
        /\ timer' = timer \cup scheduled
        /\ forked' = (forked \/ (Outlived(s) /\ scheduled # {}))
        /\ UNCHANGED <<clients, cur, idle, cached, host, stopped>>

\* A tick that gives up: whatever entry is in the map is dropped.
GiveUp(s) ==
    /\ TearDown
    /\ Return(s)
    /\ stopped' = TRUE
    /\ UNCHANGED <<clients, cached, host, forked>>

Proceed(s, step) ==
    /\ pc' = [pc EXCEPT ![s] = step]
    /\ UNCHANGED <<clients, cur, timer, ticking, idle, held, host, history>>

ReadSession(s) ==
    /\ pc[s] = "session"
    /\ IF ended THEN GiveUp(s) ELSE Proceed(s, "provider") /\ UNCHANGED cached

\* Nothing connected: come back next tick, unless a connection was cached,
\* which is then found missing or revoked.
ResolveProvider(s) ==
    /\ pc[s] = "provider"
    /\ \/ /\ connection = "valid"
          /\ Proceed(s, "read")
          /\ cached' = cached \cup {held[s]}
       \/ /\ connection = "none" /\ held[s] \notin cached
          /\ FinishTick(s)
       \/ /\ connection # "valid"
          /\ connection = "none" => held[s] \in cached
          /\ GiveUp(s)

ReadNowPlaying(s, outcome) ==
    /\ pc[s] = "read"
    /\ outcome \in ReadOutcomes
    /\ IF outcome = "unauthorized" THEN GiveUp(s) ELSE FinishTick(s)

-----------------------------------------------------------------------------
(* The host, and the process's end.                                        *)

EndOrReopenSession ==
    /\ ended' = ~ended
    /\ UNCHANGED <<clients, entries, ticks, connection, down, history>>

ChangeConnection(state) ==
    /\ connection' = state
    /\ UNCHANGED <<clients, entries, ticks, ended, down, history>>

StopAll ==
    /\ ~down
    /\ down' = TRUE
    /\ TearDown
    /\ UNCHANGED <<clients, ticking, cached, ticks, ended, connection, history>>

-----------------------------------------------------------------------------
Ticking ==
    \/ \E e \in Entries, s \in Slots : TimerFires(e, s)
    \/ \E s \in Slots :
         \/ ReadSession(s) \/ ResolveProvider(s)
         \/ \E o \in ReadOutcomes : ReadNowPlaying(s, o)

Next ==
    \/ \E c \in Clients : OnOpen(c) \/ OnClose(c) \/ OnClosed(c)
    \/ IdleFires
    \/ Ticking
    \/ EndOrReopenSession
    \/ \E s \in {"none", "valid", "revoked"} : ChangeConnection(s)
    \/ StopAll

\* Timers fire, answers come, onClose runs to its end.
Spec ==
    /\ Init /\ [][Next]_vars
    /\ WF_vars(Ticking) /\ WF_vars(IdleFires)
    /\ \A c \in Clients : WF_vars(OnClosed(c))

-----------------------------------------------------------------------------
(* What the component promises.                                            *)

\* As long as somebody watches and no tick has given up, the chain goes on: a
\* timer is pending or a tick is in flight that will set the next one.
PolledWhileWatched ==
    open # {} /\ ~stopped /\ ~down =>
        /\ cur # NoEntry
        /\ cur \notin idle
        /\ cur \in timer \/ \E s \in Slots : held[s] = cur

\* "Never orphan a pending timer": every timer belongs to the entry in the
\* map, so a teardown or SIGTERM leaves none behind.
NoOrphanTimer == timer \cup idle \subseteq {cur}

\* One chain of ticks: a second tick would dispatch a second skip.  The entry in
\* the map has one tick in flight or one scheduled, never two, however often it
\* is started and stopped, until a tick that outlived an earlier entry (no fetch
\* has a timeout, a teardown waits for nobody) schedules it as well.
OneChain ==
    cur # NoEntry /\ ~forked =>
        /\ \A s, t \in Slots : held[s] = cur /\ held[t] = cur => s = t
        /\ cur \in timer => \A s \in Slots : held[s] # cur

\* When the last client has gone, polling stops.
UnwatchedStops == open = {} ~> cur = NoEntry \/ open # {}

=============================================================================
