------------------------------ MODULE Karaoke ------------------------------
(***************************************************************************)
(* KaraokeService (packages/backend/src/karaoke/KaraokeService.ts): mic    *)
(* claims, the spotlight and the karaoke pause of one session, with the    *)
(* part of the poller's tick that drives it, the room's karaoke slice and  *)
(* the host's player.                                                      *)
(*                                                                         *)
(* Setting the service's state and publishing the event run without an     *)
(* await between them; every provider call and every read is an await, so  *)
(* the tick and the guests' calls interleave at those points.              *)
(***************************************************************************)
EXTENDS QueueRules

CONSTANTS
    Items,           \* queue items, numbered in createdAt order
    TrackOf,         \* item -> its track
    Tracks, NoTrack, \* what the player can play; nothing
    Guests, NoGuest,
    Calls,           \* guest and host calls in flight at once
    PauseMode,       \* session.karaokePauseMode
    MicCount,        \* session.karaokeMicCount
    Timeout,         \* session.karaokePauseTimeoutSec, in steps of the clock
    Operations,      \* what happens in this instance
    Faults           \* which of "db" and "provider" calls may fail

NoItem == 0

ASSUME ConstantsAssumption ==
    /\ Items \subseteq Nat \ {NoItem} /\ IsFiniteSet(Items)
    /\ IsFiniteSet(Calls)
    /\ TrackOf \in [Items -> Tracks]
    /\ NoTrack \notin Tracks /\ NoGuest \notin Guests
    /\ PauseMode \in {"off", "manual", "auto"}
    /\ MicCount \in Nat \ {0} /\ Timeout \in Nat \ {0}
    /\ Faults \subseteq {"db", "provider"}

VARIABLES
    items,       \* queue_items: id -> [status]
    claims,      \* karaoke_claims: <<item, guest>>
    karaokeMode, \* session.karaokeMode: "optional" or "off"
    svc,         \* the service's state: [item, paused, left]
    room,        \* the room snapshot's karaoke slice, likewise
    player,      \* the host's player: [track, playing]
    held,        \* history: karaoke paused the player, nobody resumed it since
    polled,      \* the poller has an entry for the session, and a connection to ask
    lastUri,     \* the poller's lastKaraokeUri
    tick,        \* the tick in progress: its next step and locals
    pc, job      \* per call: its next step and locals

vars == <<items, claims, karaokeMode, svc, room, player, held, polled, lastUri, tick,
          pc, job>>
database == <<items, claims, karaokeMode>>
playback == <<player, held>>
state == <<svc, room>>
calls == <<pc, job>>
poller == <<polled, lastUri, tick>>
entry == <<polled, lastUri>>

-----------------------------------------------------------------------------
\* What remains until a deadline; 0: it has passed, or there is none.
Moments == 0..Timeout

KaraokeState ==
    [item: Items \cup {NoItem}, paused: BOOLEAN, left: Moments]

EmptyState == [item |-> NoItem, paused |-> FALSE, left |-> 0]

TickState ==
    [pc: {"idle", "reconcile", "resume", "clear", "change", "session", "items",
          "pick", "pause", "paused"},
     track: Tracks \cup {NoTrack}, playing: BOOLEAN, candidates: SUBSET Items,
     item: Items \cup {NoItem}, left: Moments]

NoTick == [pc |-> "idle", track |-> NoTrack, playing |-> FALSE,
           candidates |-> {}, item |-> NoItem, left |-> 0]

CallSteps ==
    {"idle", "pauseCheck", "pauseCall", "pauseSet", "readyCheck", "readyCall",
     "readyClear", "claimInsert", "claimDelete"}

Locals == [guest: Guests \cup {NoGuest}, item: Items \cup {NoItem}, left: Moments]

NoJob == [guest |-> NoGuest, item |-> NoItem, left |-> 0]

TypeOK ==
    /\ DOMAIN items \subseteq Items
    /\ items \in [DOMAIN items -> [status: {"approved", "playing", "played"}]]
    /\ claims \subseteq (DOMAIN items) \X Guests
    /\ karaokeMode \in {"optional", "off"}
    /\ svc \in KaraokeState /\ room \in KaraokeState
    /\ player \in [track: Tracks \cup {NoTrack}, playing: BOOLEAN]
    /\ held \in BOOLEAN
    /\ polled \in BOOLEAN
    /\ lastUri \in Tracks \cup {NoTrack}
    /\ tick \in TickState
    /\ pc \in [Calls -> CallSteps]
    /\ job \in [Calls -> Locals]

\* The queue as requests with and without a bundled claim have left it.
Init ==
    /\ items = [i \in Items |-> [status |-> "approved"]]
    /\ claims \in {{}} \cup {Items \X {g} : g \in Guests}
    /\ karaokeMode = "optional"
    /\ svc = EmptyState /\ room = EmptyState
    /\ player = [track |-> NoTrack, playing |-> FALSE]
    /\ held = FALSE
    /\ polled = FALSE /\ lastUri = NoTrack /\ tick = NoTick
    /\ pc = [c \in Calls |-> "idle"]
    /\ job = [c \in Calls |-> NoJob]

-----------------------------------------------------------------------------
(* Shared steps.                                                           *)

\* Faulty variant: the state is cleared without an event.
ClearPauseSilently ==
    /\ svc' = [svc EXCEPT !.paused = FALSE, !.left = 0]
    /\ room' = room

\* clearPauseAndBroadcast: no event when no spotlight is left.
ClearPause ==
    /\ svc' = [svc EXCEPT !.paused = FALSE, !.left = 0]
    /\ room' = IF svc.item = NoItem THEN room
               ELSE [room EXCEPT !.paused = FALSE, !.left = 0]

\* karaoke.paused: the reducer takes the event's item for the spotlight.
SetPause(i, left) ==
    /\ svc' = [svc EXCEPT !.paused = TRUE, !.left = left]
    /\ room' = [item |-> i, paused |-> TRUE, left |-> left]

\* karaoke.spotlight for an item that is not the current one.
SetSpotlight(i) ==
    /\ svc' = [EmptyState EXCEPT !.item = i]
    /\ room' = IF room.item = i THEN room ELSE [EmptyState EXCEPT !.item = i]

\* callProvider: best effort, a failure is logged and forgotten.
CallProvider(action, ok) ==
    /\ ok \/ "provider" \in Faults
    /\ IF ~ok \/ player.track = NoTrack
       THEN UNCHANGED playback
       ELSE /\ player' = [player EXCEPT !.playing = (action = "resume")]
            /\ held' = (action = "pause" /\ (player.playing \/ held))

Goto(c, step, locals) ==
    /\ pc' = [pc EXCEPT ![c] = step]
    /\ job' = [job EXCEPT ![c] = locals]

Return(c) == Goto(c, "idle", NoJob)

-----------------------------------------------------------------------------
(* The poller's tick: reconcilePlayback, then handleTrackChange.           *)

TickTo(step) == tick' = [tick EXCEPT !.pc = step]

\* getNowPlaying: everything later in the tick uses this answer.  A tick that
\* gets none ends, and the next one asks again.
Sample ==
    /\ polled /\ tick.pc = "idle"
    /\ tick' = [NoTick EXCEPT !.pc = "reconcile", !.track = player.track,
                              !.playing = player.playing]
    /\ UNCHANGED <<database, state, playback, entry, calls>>

\* Faulty variant: an expired deadline is not looked at.
ReconcileNoDeadline ==
    /\ tick.pc = "reconcile"
    /\ IF svc.paused /\ tick.playing THEN ClearPause ELSE UNCHANGED state
    /\ TickTo("change")
    /\ UNCHANGED <<database, playback, entry, calls>>

Reconcile ==
    /\ tick.pc = "reconcile"
    /\ IF svc.paused /\ tick.playing THEN ClearPause ELSE UNCHANGED state
    /\ TickTo(IF svc.paused /\ ~tick.playing /\ svc.left = 0
              THEN "resume" ELSE "change")
    /\ UNCHANGED <<database, playback, entry, calls>>

ReconcileResume(ok) ==
    /\ tick.pc = "resume"
    /\ CallProvider("resume", ok)
    /\ TickTo("clear")
    /\ UNCHANGED <<database, state, entry, calls>>

ReconcileClear ==
    /\ tick.pc = "clear"
    /\ ClearPause
    /\ TickTo("change")
    /\ UNCHANGED <<database, playback, entry, calls>>

\* lastKaraokeUri is set before the handler runs, whatever becomes of it.
TrackChange ==
    /\ tick.pc = "change"
    /\ lastUri' = tick.track
    /\ tick' = IF tick.track = lastUri THEN NoTick
               ELSE [tick EXCEPT !.pc = "session", !.left = Timeout]
    /\ UNCHANGED <<database, state, playback, polled, calls>>

ReadSession ==
    /\ tick.pc = "session"
    /\ IF karaokeMode = "off"
       THEN /\ tick' = NoTick
            /\ IF svc.item = NoItem THEN UNCHANGED state ELSE SetSpotlight(NoItem)
       ELSE /\ TickTo("items")
            /\ UNCHANGED state
    /\ UNCHANGED <<database, playback, entry, calls>>

\* Faulty variant: every live item is a candidate, whatever its track.
ReadAnyCandidates ==
    /\ tick.pc = "items"
    /\ tick' = [tick EXCEPT !.pc = "pick", !.candidates = ActiveItems(items)]
    /\ UNCHANGED <<database, state, playback, entry, calls>>

ReadCandidates ==
    /\ tick.pc = "items"
    /\ tick' = [tick EXCEPT !.pc = "pick",
                  !.candidates = {i \in ActiveItems(items) : TrackOf[i] = tick.track}]
    /\ UNCHANGED <<database, state, playback, entry, calls>>

Spotlight(i) ==
    /\ IF i = svc.item THEN UNCHANGED state ELSE SetSpotlight(i)
    /\ tick' = IF i \notin {NoItem, svc.item} /\ PauseMode = "auto"
               THEN [tick EXCEPT !.pc = "pause", !.item = i]
               ELSE NoTick

\* One read of an item's claims per step, the earliest candidate first.
PickSpotlight ==
    /\ tick.pc = "pick"
    /\ IF tick.candidates = {}
       THEN Spotlight(NoItem)
       ELSE \E i \in tick.candidates :
              /\ \A j \in tick.candidates : i <= j
              /\ IF \E g \in Guests : <<i, g>> \in claims
                 THEN Spotlight(i)
                 ELSE /\ tick' = [tick EXCEPT !.candidates = @ \ {i}]
                      /\ UNCHANGED state
    /\ UNCHANGED <<database, playback, entry, calls>>

AutoPause(ok) ==
    /\ tick.pc = "pause"
    /\ CallProvider("pause", ok)
    /\ TickTo("paused")
    /\ UNCHANGED <<database, state, entry, calls>>

AutoPaused ==
    /\ tick.pc = "paused"
    /\ SetPause(tick.item, tick.left)
    /\ tick' = NoTick
    /\ UNCHANGED <<database, playback, entry, calls>>

\* A failed read is caught in the tick, which goes on without karaoke.
TickReadFails ==
    /\ "db" \in Faults
    /\ tick.pc \in {"resume", "session", "items", "pick"}
    /\ tick' = NoTick
    /\ UNCHANGED <<database, state, playback, entry, calls>>

\* The entry is dropped, or no timer is set any more: the last client left, the
\* connection went, the provider answered 401.  A tick in flight runs on.
PollerStops ==
    /\ "restart" \in Operations
    /\ polled
    /\ polled' = FALSE
    /\ UNCHANGED <<database, state, playback, lastUri, tick, calls>>

\* A socket opens, on the entry of before or on a new one.
PollerStarts ==
    /\ ~polled /\ tick.pc = "idle"
    /\ polled' = TRUE
    /\ lastUri' \in {lastUri, NoTrack}
    /\ UNCHANGED <<database, state, playback, tick, calls>>

-----------------------------------------------------------------------------
(* pause and ready: the claim of the spotlight item is looked up, then the *)
(* spotlight is read again.                                                *)

HoldsSpotlightClaim(g) == svc.item # NoItem /\ <<svc.item, g>> \in claims

Ask(c, g, step) ==
    /\ pc[c] = "idle"
    /\ HoldsSpotlightClaim(g)
    /\ Goto(c, step, [NoJob EXCEPT !.guest = g])
    /\ UNCHANGED <<database, state, playback, poller>>

Pause(c, g) == "pause" \in Operations /\ Ask(c, g, "pauseCheck")

Ready(c, g) == "ready" \in Operations /\ Ask(c, g, "readyCheck")

PauseCheck(c) ==
    /\ pc[c] = "pauseCheck"
    /\ IF PauseMode = "manual"
       THEN Goto(c, "pauseCall", [job[c] EXCEPT !.item = svc.item, !.left = Timeout])
       ELSE Return(c)
    /\ UNCHANGED <<database, state, playback, poller>>

PauseCall(c, ok) ==
    /\ pc[c] = "pauseCall"
    /\ CallProvider("pause", ok)
    /\ Goto(c, "pauseSet", job[c])
    /\ UNCHANGED <<database, state, poller>>

PauseSet(c) ==
    /\ pc[c] = "pauseSet"
    /\ SetPause(job[c].item, job[c].left)
    /\ Return(c)
    /\ UNCHANGED <<database, playback, poller>>

ReadyCheck(c) ==
    /\ pc[c] = "readyCheck"
    /\ IF svc.paused THEN Goto(c, "readyCall", job[c]) ELSE Return(c)
    /\ UNCHANGED <<database, state, playback, poller>>

ReadyCall(c, ok) ==
    /\ pc[c] = "readyCall"
    /\ CallProvider("resume", ok)
    /\ Goto(c, "readyClear", job[c])
    /\ UNCHANGED <<database, state, poller>>

ReadyClear(c) ==
    /\ pc[c] = "readyClear"
    /\ ClearPause
    /\ Return(c)
    /\ UNCHANGED <<database, playback, poller>>

-----------------------------------------------------------------------------
(* claim, removeClaim, hostRemoveClaim.                                    *)

Rules == [karaokeMode |-> karaokeMode, karaokeMicCount |-> MicCount]

\* Faulty variant: one mic too many.
MayClaimOneMore(i, g) ==
    CanClaimMic([Rules EXCEPT !.karaokeMicCount = MicCount + 1], items, claims, i, g)

MayClaim(i, g) == CanClaimMic(Rules, items, claims, i, g)

Claim(c, g, i) ==
    /\ "claim" \in Operations
    /\ pc[c] = "idle"
    /\ i \in DOMAIN items
    /\ MayClaim(i, g)
    /\ Goto(c, "claimInsert", [NoJob EXCEPT !.guest = g, !.item = i])
    /\ UNCHANGED <<database, state, playback, poller>>

\* The foreign key refuses the claim of an item deleted meanwhile.
ClaimInsert(c) ==
    /\ pc[c] = "claimInsert"
    /\ claims' = IF job[c].item \in DOMAIN items
                 THEN claims \cup {<<job[c].item, job[c].guest>>} ELSE claims
    /\ Return(c)
    /\ UNCHANGED <<items, karaokeMode, state, playback, poller>>

RemoveClaim(c, g, i) ==
    /\ "unclaim" \in Operations
    /\ pc[c] = "idle"
    /\ <<i, g>> \in claims
    /\ CanRemoveClaim(items, i, g, g)
    /\ Goto(c, "claimDelete", [NoJob EXCEPT !.guest = g, !.item = i])
    /\ UNCHANGED <<database, state, playback, poller>>

HostRemoveClaim(c, g, i) ==
    /\ "hostUnclaim" \in Operations
    /\ pc[c] = "idle"
    /\ <<i, g>> \in claims
    /\ Goto(c, "claimDelete", [NoJob EXCEPT !.guest = g, !.item = i])
    /\ UNCHANGED <<database, state, playback, poller>>

ClaimDelete(c) ==
    /\ pc[c] = "claimDelete"
    /\ claims' = claims \ {<<job[c].item, job[c].guest>>}
    /\ Return(c)
    /\ UNCHANGED <<items, karaokeMode, state, playback, poller>>

-----------------------------------------------------------------------------
(* The player, the clock, and the rest of the server.                      *)

\* A track starts (the next one, or one the host picked) or playback stops.
PlayerMoves(t) ==
    /\ t # player.track
    /\ player' = [track |-> t, playing |-> t # NoTrack]
    /\ held' = FALSE
    /\ UNCHANGED <<database, state, poller, calls>>

\* The host's own play and pause buttons.
HostToggles ==
    /\ "host" \in Operations
    /\ player.track # NoTrack
    /\ player' = [player EXCEPT !.playing = ~@]
    /\ held' = FALSE
    /\ UNCHANGED <<database, state, poller, calls>>

Elapse(n) == IF n = 0 THEN 0 ELSE n - 1

TimePasses ==
    /\ svc' = [svc EXCEPT !.left = Elapse(@)]
    /\ room' = [room EXCEPT !.left = Elapse(@)]
    /\ tick' = [tick EXCEPT !.left = Elapse(@)]
    /\ job' = [c \in Calls |-> [job[c] EXCEPT !.left = Elapse(@)]]
    /\ UNCHANGED <<database, playback, entry, pc>>

\* Faulty variant: deleting an item leaves its claims.
ItemMovesNoCascade(i) ==
    /\ "queue" \in Operations
    /\ i \in DOMAIN items
    /\ items' = [j \in DOMAIN items \ {i} |-> items[j]]
    /\ UNCHANGED <<claims, karaokeMode, state, playback, poller, calls>>

\* The queue moves on: an item plays, has been played, or is deleted.
ItemMoves(i) ==
    /\ "queue" \in Operations
    /\ i \in DOMAIN items
    /\ \/ \E s \in {"playing", "played"} :
            /\ items[i].status # s
            /\ items' = [items EXCEPT ![i].status = s]
            /\ claims' = claims
       \/ /\ items' = [j \in DOMAIN items \ {i} |-> items[j]]
          /\ claims' = {k \in claims : k[1] # i}
    /\ UNCHANGED <<karaokeMode, state, playback, poller, calls>>

\* The process restarts: the state and the room are in memory only.
ServerRestarts ==
    /\ "crash" \in Operations
    /\ svc' = EmptyState /\ room' = EmptyState
    /\ polled' = FALSE /\ lastUri' = NoTrack /\ tick' = NoTick
    /\ pc' = [c \in Calls |-> "idle"]
    /\ job' = [c \in Calls |-> NoJob]
    /\ UNCHANGED <<database, playback>>

SwitchKaraoke(mode) ==
    /\ "switch" \in Operations
    /\ karaokeMode' = mode
    /\ UNCHANGED <<items, claims, state, playback, poller, calls>>

-----------------------------------------------------------------------------
Tick ==
    \/ Sample
    \/ Reconcile
    \/ \E ok \in BOOLEAN : ReconcileResume(ok) \/ AutoPause(ok)
    \/ ReconcileClear
    \/ TrackChange \/ ReadSession \/ ReadCandidates \/ PickSpotlight
    \/ AutoPaused
    \/ TickReadFails

CallBegins(c) ==
    \E g \in Guests :
        \/ Pause(c, g) \/ Ready(c, g)
        \/ \E i \in Items : Claim(c, g, i) \/ RemoveClaim(c, g, i) \/ HostRemoveClaim(c, g, i)

CallProceeds(c) ==
    \/ PauseCheck(c) \/ PauseSet(c)
    \/ ReadyCheck(c) \/ ReadyClear(c)
    \/ \E ok \in BOOLEAN : PauseCall(c, ok) \/ ReadyCall(c, ok)
    \/ ClaimInsert(c) \/ ClaimDelete(c)

Environment ==
    \/ PollerStops \/ PollerStarts
    \/ ServerRestarts
    \/ \E t \in Tracks \cup {NoTrack} : PlayerMoves(t)
    \/ HostToggles
    \/ TimePasses
    \/ \E i \in Items : ItemMoves(i)
    \/ \E m \in {"optional", "off"} : SwitchKaraoke(m)

Next ==
    \/ Tick
    \/ \E c \in Calls : CallBegins(c) \/ CallProceeds(c)
    \/ Environment

\* As long as the session is polled its ticks go on and the player's state is
\* read some day; nothing says that a poller that stopped starts again.
\* Accepted calls run on, time passes, and the session row, looked up in every
\* tick past the deadline, is read some day.
Spec ==
    /\ Init /\ [][Next]_vars
    /\ WF_vars(Tick) /\ WF_vars(TimePasses)
    /\ SF_vars(\E ok \in BOOLEAN : ReconcileResume(ok))
    /\ \A c \in Calls : WF_vars(CallProceeds(c))

-----------------------------------------------------------------------------
(* What the component promises.                                            *)

\* "Every transition broadcasts a `karaoke.*' event so the room snapshot stays
\* the realtime source of truth": what clients see is the service's state.
RoomAgrees == room = svc

\* Between two ticks the spotlight is on an item of the track the poller saw
\* last, however claims, items and the player moved while it was looking.
SpotlightFollows ==
    tick.pc = "idle" /\ svc.item # NoItem => TrackOf[svc.item] = lastUri

\* No song has more singers than mics.
MicCapHolds ==
    \A i \in DOMAIN items : Cardinality({k \in claims : k[1] = i}) <= MicCount

\* A karaoke pause of a session that stays polled does not last: the guest, the
\* host, the next track or the deadline ends it.
PauseEnds == svc.paused /\ polled ~> ~svc.paused \/ ~polled

\* core/src/types/session.ts: karaokePauseTimeoutSec is the "auto-resume
\* deadline (seconds) for any karaoke pause": while karaoke holds the player,
\* a deadline is running or about to.
HeldHasDeadline ==
    held => \/ svc.paused
            \/ tick.pc = "paused"
            \/ \E c \in Calls : pc[c] = "pauseSet"

=============================================================================
