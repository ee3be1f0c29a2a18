----------------------------- MODULE Reconcile -----------------------------
(***************************************************************************)
(* reconcileQueue of the now-playing poller                                *)
(* (packages/backend/src/realtime/NowPlayingPoller.ts): the pump that      *)
(* pushes young requests again and the status writes that retire old ones, *)
(* against a provider whose queue is read late.                            *)
(*                                                                         *)
(* Time passes in units of about 12 s: RETRY_AFTER_PUSH_MS (12 s) is       *)
(* RetryAfter units, RECONCILE_GRACE_MS and queueRefreshMs (30 s) are      *)
(* Grace and Refresh units.  A pushed track surfaces in queue reads before *)
(* RetryAfter units are over, as the code assumes.  A tick is shorter than *)
(* a unit.                                                                 *)
(***************************************************************************)
EXTENDS Integers, Sequences, FiniteSets

CONSTANTS
    Items,            \* queue rows, 1..n in the order of their creation
    Tracks, TrackOf,  \* and their tracks
    NoTrack,
    Moderated,        \* the rows that wait for the host first
    RetryAfter, Grace, Refresh,
    MaxUpNext,        \* bound: the provider's queue
    MaxFaults         \* bound: queue reads that fail and restarts of the server

ASSUME ConstantsAssumption ==
    /\ Items = 1..Cardinality(Items) /\ 1 \in Items
    /\ TrackOf \in [Items -> Tracks] /\ NoTrack \notin Tracks
    /\ Moderated \subseteq Items
    /\ RetryAfter \in Nat \ {0} /\ Grace \in Nat \ {0} /\ Refresh \in Nat \ {0}
    /\ MaxUpNext \in Nat /\ MaxFaults \in Nat

VARIABLES
    playing,    \* what the provider plays
    upNext,     \* its queue: [item, hidden], hidden counts down to surfacing
    status,     \* queue_items.status, per row
    age,        \* units since the row's creation, up to Grace
    pushing,    \* rows whose request or approval is about to push
    pumped,     \* entry.lastPushedAt: units since, or Never
    readAge,    \* entry.lastQueueReadAtMs: units since, or Never
    readTrack,  \* entry.lastQueueTrackUri
    shown,      \* the room snapshot's providerQueue, as a set of tracks
    tick,       \* the tick in progress: its next step and locals
    faults,     \* failed reads and restarts so far
    known,      \* history: rows a queue read has shown since they were pushed
    doubled,    \* history: rows pumped while a known copy waited
    retired     \* history: rows marked played while a known copy waited

provider == <<playing, upNext>>
table == <<status, age>>
entry == <<pumped, readAge, readTrack>>
history == <<known, doubled, retired>>
vars == <<provider, table, pushing, entry, shown, tick, faults, history>>

-----------------------------------------------------------------------------
Never == -1
Older(n, limit) == IF n \in {Never, limit} THEN n ELSE n + 1

\* A tick samples the player and reads the rows, perhaps reads the provider's
\* queue, and then walks the rows in order.
NoTick == [pc |-> "idle", now |-> NoTrack, rows |-> [i \in Items |-> "new"],
           queue |-> {}, next |-> 1]

Statuses == {"new", "pending", "approved", "playing", "played", "rejected"}

TypeOK ==
    /\ playing \in Tracks \cup {NoTrack}
    /\ upNext \in Seq([item: Items, hidden: 0..RetryAfter])
    /\ status \in [Items -> Statuses] /\ age \in [Items -> 0..Grace]
    /\ pushing \subseteq Items
    /\ pumped \in [Items -> Never..RetryAfter]
    /\ readAge \in Never..Refresh /\ readTrack \in Tracks \cup {NoTrack}
    /\ shown \subseteq Tracks
    /\ tick \in [pc: {"idle", "read", "walk"}, now: Tracks \cup {NoTrack},
                 rows: [Items -> Statuses], queue: SUBSET Tracks,
                 next: Items]
    /\ faults \in 0..MaxFaults
    /\ known \subseteq Items /\ doubled \subseteq Items /\ retired \subseteq Items

Init ==
    /\ playing = NoTrack /\ upNext = <<>>
    /\ status = [i \in Items |-> "new"] /\ age = [i \in Items |-> 0]
    /\ pushing = {}
    /\ pumped = [i \in Items |-> Never]
    /\ readAge = Never /\ readTrack = NoTrack
    /\ shown = {} /\ tick = NoTick
    /\ faults = 0
    /\ known = {} /\ doubled = {} /\ retired = {}

-----------------------------------------------------------------------------
(* The provider and time.                                                  *)

Open(i) == status[i] \in {"pending", "approved", "playing"}

\* provider.queueTrack was accepted: the track is last, and hidden for now.
Accept(i) ==
    /\ Len(upNext) < MaxUpNext
    /\ upNext' = Append(upNext, [item |-> i, hidden |-> RetryAfter])

\* A track ends or is skipped on the device; the next one starts, if any.
PlayerAdvances ==
    /\ playing # NoTrack \/ upNext # <<>>
    /\ IF upNext = <<>>
       THEN playing' = NoTrack /\ UNCHANGED <<upNext, known>>
       ELSE /\ playing' = TrackOf[Head(upNext).item]
            /\ upNext' = Tail(upNext)
            /\ known' = known \ {Head(upNext).item}
    /\ UNCHANGED <<table, pushing, entry, shown, tick, faults, doubled, retired>>

\* One unit passes.  The age of a row that is not waiting no longer matters.
Clock ==
    /\ tick.pc = "idle"
    /\ age' = [i \in Items |-> IF Open(i) THEN Older(age[i], Grace) ELSE 0]
    /\ pumped' = [i \in Items |-> IF Open(i) THEN Older(pumped[i], RetryAfter) ELSE Never]
    /\ readAge' = Older(readAge, Refresh)
    /\ upNext' = [k \in DOMAIN upNext |->
                    [upNext[k] EXCEPT !.hidden = IF @ = 0 THEN 0 ELSE @ - 1]]
    /\ UNCHANGED <<playing, status, pushing, readTrack, shown, tick, faults,
                   history>>

-----------------------------------------------------------------------------
(* QueueService: requests, the host, the guests' votes.                    *)

Request(i) ==
    /\ status[i] = "new" /\ \A j \in Items : j < i => status[j] # "new"
    /\ status' = [status EXCEPT ![i] = IF i \in Moderated THEN "pending" ELSE "approved"]
    /\ pushing' = IF i \in Moderated THEN pushing ELSE pushing \cup {i}
    /\ UNCHANGED <<provider, age, entry, shown, tick, faults, history>>

Approve(i) ==
    /\ status[i] = "pending"
    /\ status' = [status EXCEPT ![i] = "approved"]
    /\ pushing' = pushing \cup {i}
    /\ UNCHANGED <<provider, age, entry, shown, tick, faults, history>>

\* By votes, or by a host who thinks again.  (A pending row that is rejected
\* never concerns the poller.)
Reject(i) ==
    /\ status[i] = "approved"
    /\ status' = [status EXCEPT ![i] = "rejected"]
    /\ UNCHANGED <<provider, age, pushing, entry, shown, tick, faults, history>>

\* pushToProviderQueue: accepted, or refused (no active device).  The
\* roll-back of a rate-limited request is in module RequestQueue.
FirstPush(i) ==
    /\ i \in pushing
    /\ pushing' = pushing \ {i}
    /\ \/ Accept(i) /\ known' = known \ {i}
       \/ UNCHANGED <<upNext, known>>
    /\ UNCHANGED <<playing, table, entry, shown, tick, faults, doubled, retired>>

-----------------------------------------------------------------------------
(* The poller's tick.                                                      *)

\* shouldReadQueue: never read, another track, too old, or a young request.
ShouldRead(now, rows) ==
    \/ readAge \in {Never, Refresh}
    \/ now # readTrack
    \/ \E i \in Items : rows[i] = "approved" /\ age[i] < Grace

\* getNowPlaying, the room's snapshot and queueItems.findAllForSession.
Sample ==
    /\ tick.pc = "idle"
    /\ tick' = [pc |-> IF ShouldRead(playing, status) THEN "read" ELSE "walk",
                now |-> playing, rows |-> status, queue |-> shown, next |-> 1]
    /\ UNCHANGED <<provider, table, pushing, entry, shown, faults, history>>

\* Faulty variant: a failed read counts as an empty queue.
AfterFailedReadEmpty == {}

\* A failed read leaves the snapshot's queue.
AfterFailedRead == tick.queue

\* provider.getQueue: the tracks that have surfaced, some just now.
ReadQueue ==
    /\ tick.pc = "read"
    /\ \E late \in SUBSET {k \in DOMAIN upNext : upNext[k].hidden > 0} :
         LET listed == {upNext[k].item : k \in DOMAIN upNext \ late}
             tracks == {TrackOf[i] : i \in listed}
         IN  /\ upNext' = [k \in DOMAIN upNext |->
                              IF k \in late THEN upNext[k]
                              ELSE [upNext[k] EXCEPT !.hidden = 0]]
             /\ tick' = [tick EXCEPT !.pc = "walk", !.queue = tracks]
             /\ shown' = tracks
             /\ known' = known \cup listed
    /\ readAge' = 0 /\ readTrack' = tick.now
    /\ UNCHANGED <<playing, table, pushing, pumped, faults, doubled, retired>>

ReadQueueFails ==
    /\ tick.pc = "read" /\ faults < MaxFaults
    /\ faults' = faults + 1
    /\ tick' = [tick EXCEPT !.pc = "walk", !.queue = AfterFailedRead]
    /\ UNCHANGED <<provider, table, pushing, entry, shown, history>>

Listed(i) == TrackOf[i] \in tick.queue
Current(i) == TrackOf[i] = tick.now

\* lastPushedAt, or the row's creation.
SincePush(i) == IF pumped[i] = Never THEN age[i] ELSE pumped[i]

\* A young approved row that the provider does not seem to have.
Pumps(i) ==
    /\ tick.rows[i] = "approved" /\ age[i] < Grace
    /\ ~Current(i) /\ ~Listed(i)
    /\ SincePush(i) >= RetryAfter

Walked ==
    tick' = IF tick.next + 1 \in Items THEN [tick EXCEPT !.next = @ + 1] ELSE NoTick

\* providerForRetry.queueTrack; a refusal is swallowed.
Pump(i) ==
    /\ Pumps(i)
    /\ \/ /\ Accept(i)
          /\ pumped' = [pumped EXCEPT ![i] = 0]
          /\ doubled' = IF i \in known THEN doubled \cup {i} ELSE doubled
          /\ known' = known \ {i}
       \/ UNCHANGED <<upNext, pumped, doubled, known>>
    /\ UNCHANGED <<status, retired>>

\* Faulty variant: the queue is not consulted.
RetiresUnlessCurrent(i) == ~Current(i)

\* Faulty variant: only rows that were seen playing.
RetiresPlaying(i) == ~Current(i) /\ ~Listed(i) /\ tick.rows[i] = "playing"

Retires(i) == ~Current(i) /\ ~Listed(i)

\* A row past its grace: repo.setStatus by what the tick has read, over
\* whatever was decided since.
Settle(i) ==
    LET write(s) == status' = [status EXCEPT ![i] = s]
    IN  /\ tick.rows[i] \in {"approved", "playing"} /\ age[i] = Grace
        /\ IF Current(i) /\ tick.rows[i] # "playing" THEN write("playing") /\ UNCHANGED retired
           ELSE IF Retires(i)
           THEN /\ write("played")
                /\ retired' = IF i \in known THEN retired \cup {i} ELSE retired
           ELSE UNCHANGED <<status, retired>>
        /\ UNCHANGED <<upNext, pumped, doubled, known>>

Passes(i) ==
    /\ ~Pumps(i)
    /\ tick.rows[i] \notin {"approved", "playing"} \/ age[i] < Grace
    /\ UNCHANGED <<status, upNext, pumped, history>>

\* One row of reconcileQueue's loop.
Walk ==
    /\ tick.pc = "walk"
    /\ Pump(tick.next) \/ Settle(tick.next) \/ Passes(tick.next)
    /\ Walked
    /\ UNCHANGED <<playing, age, pushing, readAge, readTrack, shown, faults>>

\* The server restarts: poller, room and calls under way are gone, the rows
\* and the provider are not.
Restart ==
    /\ faults < MaxFaults
    /\ faults' = faults + 1
    /\ pushing' = {} /\ tick' = NoTick /\ shown' = {}
    /\ pumped' = [i \in Items |-> Never]
    /\ readAge' = Never /\ readTrack' = NoTrack
    /\ known' = {}
    /\ UNCHANGED <<provider, table, doubled, retired>>

-----------------------------------------------------------------------------
Tick == Sample \/ ReadQueue \/ Walk

Next ==
    \/ PlayerAdvances \/ Clock
    \/ \E i \in Items : Request(i) \/ Approve(i) \/ Reject(i) \/ FirstPush(i)
    \/ Tick \/ ReadQueueFails \/ Restart

Spec == Init /\ [][Next]_vars

\* The poller keeps ticking while a client watches, time passes, tracks end,
\* and an HTTP call that was started ends.
FairSpec ==
    /\ Spec
    /\ WF_vars(Tick) /\ SF_vars(Clock) /\ WF_vars(PlayerAdvances)

-----------------------------------------------------------------------------
(* Properties.                                                             *)

\* The retry pump never pushes a row again while a queue read has shown its
\* earlier push and that copy still waits: a failed or skipped read must not
\* make the poller forget what the last one said.  (tick 545-565, the pump of
\* reconcileQueue 842-880.)
PumpRespectsReads == doubled = {}

\* A row whose copy a queue read has shown, and which still waits in the
\* provider's queue, is not marked played: it keeps its place in the guest's
\* cap until it has had its turn.
KnownKeepsItsTurn == retired = {}

\* Every approved row is retired in the end, however its pushes and the queue
\* reads fare, and stops counting against its guest's cap.  (Each of the
\* finitely many rows is approved once.)
ApprovedEnds == <>[](\A i \in Items : status[i] # "approved")
=============================================================================
