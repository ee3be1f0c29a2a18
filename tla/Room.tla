-------------------------------- MODULE Room --------------------------------
(***************************************************************************)
(* One session's room, from the database to the screens:                   *)
(*   packages/realtime/src/NodeSessionRoom.ts, RoomRegistryImpl.ts         *)
(*   packages/backend/src/routes/realtime.ts, session.ts (tv-snapshot)     *)
(*   packages/backend/src/realtime/NowPlayingPoller.ts (what a tick sends) *)
(*   packages/frontend/src/realtime/RealtimeClient.ts, and the pages.      *)
(*                                                                         *)
(* A service writes a row, and publishes when the database has answered.   *)
(* Publishing changes the snapshot and puts the event on every open        *)
(* socket's wire without a pause; a wire delivers in order until the       *)
(* connection drops.                                                       *)
(***************************************************************************)
EXTENDS Pages

CONSTANTS
    Viewers,          \* the browsers
    Scenarios,        \* who has which page open, whether the session is
                      \* moderated, and the bounds: how often
                      \* each of Causes may happen, and which events come
                      \* with no row of queue_items, each at most once
    MaxGets,          \* bound: GET requests of one page under way
    TrackOf           \* item -> track

\* Row changes, ticks, presses; drops, restarts, failed reads.
Causes == {"row", "tick", "press", "fault"}

\* What a room hears beside the rows of queue_items and the ticks.
OtherEvent ==
    {e \in SessionEvent : e.type \notin
        {"queue.item_requested", "queue.item_approved", "queue.item_rejected",
         "queue.item_removed", "now_playing.updated", "playback.clock_sampled",
         "lyrics.loaded"}}

ASSUME RoomAssumption ==
    /\ IsFiniteSet(Items) /\ Items = 1..Cardinality(Items)  \* in order of creation
    /\ None \notin Viewers \cup Items \cup Tracks \cup SessionSnapshot
    /\ Scenarios \subseteq [kind: [Viewers -> {"guest", "host", "tv"}],
                            moderated: BOOLEAN, left: [Causes -> Nat],
                            others: SUBSET OtherEvent]
    /\ MaxGets \in Nat \ {0}
    /\ TrackOf \in [Items -> Tracks]

VARIABLES
    moderated,  \* session.moderationEnabled
    rows,       \* queue_items with their votes and mic claims
    reopened,   \* history: rows approved after they were rejected or played,
    stranded,   \* and rows whose request failed at its claim, since the start
    claiming,   \* requests that wrote a row and not yet the claim they came with
    owed,       \* calls that wrote a row and have not published yet
    room,       \* None, or the snapshot of the room in the registry
    hydrated,   \* the session is in hydratedSessions
    loads,      \* onOpen handlers that are reading the database
    subs,       \* the sockets subscribed to the room
    lastLyrics, \* lastLyricsUri of the poller's entry
    lookups,    \* track -> lyrics lookups under way
    kind,       \* which page each viewer has open
    conn,       \* its connection
    wire,       \* frames sent and not yet received
    page,       \* what it shows
    asked,      \* GET requests not answered yet
    answers,    \* answers on their way
    ask,        \* the call the user's last press made
    left, others  \* what is left of the bounds

store == <<moderated, rows, reopened, stranded, claiming, owed>>
server == <<room, hydrated, loads, subs>>
poller == <<lastLyrics, lookups>>
fetches == <<asked, answers>>
browser == <<kind, conn, wire, page, fetches, ask>>
bounds == <<left, others>>
vars == <<store, server, poller, browser, bounds>>

-----------------------------------------------------------------------------
NoRow == [status |-> "none", skipVotes |-> 0, karaokeClaims |-> <<>>]

Absent == {"none", "removed"}

OpenRow == {"pending"} \cup OpenStatuses

Statuses == [i \in Items |-> IF rows[i].status \in Absent THEN "none" ELSE rows[i].status]

NoAsk == [op |-> "none", item |-> None, track |-> None, state |-> "idle"]

\* blank -> asking (bootstrap) -> dialing -> live, and waiting for the
\* reconnect timer; closed once the page is left, lost if the client gave up.
Connection == {"blank", "asking", "dialing", "live", "waiting", "closed", "lost"}

Init ==
    /\ rows = [i \in Items |-> NoRow] /\ owed = <<>>
    /\ reopened = {} /\ stranded = {} /\ claiming = {}
    /\ room = None /\ hydrated = FALSE /\ loads = <<>> /\ subs = {}
    /\ lastLyrics = None /\ lookups = [t \in Tracks |-> 0]
    /\ \E s \in Scenarios : /\ kind = s.kind /\ moderated = s.moderated
                          /\ left = s.left /\ others = s.others
    /\ conn = [v \in Viewers |-> "blank"]
    /\ wire = [v \in Viewers |-> <<>>]
    /\ page = [v \in Viewers |-> EmptyPage]
    /\ asked = [v \in Viewers |-> 0] /\ answers = [v \in Viewers |-> <<>>]
    /\ ask = [v \in Viewers |-> NoAsk]

Spend(cause) == left[cause] > 0 /\ left' = [left EXCEPT ![cause] = @ - 1] /\ others' = others

-----------------------------------------------------------------------------
(* publish: the snapshot, then every subscriber.  Without a room nothing   *)
(* happens (forSession answers null).                                      *)

Publish(events) ==
    IF room = None THEN UNCHANGED <<room, wire>>
    ELSE /\ room' = Applied(room, events)
         /\ wire' = [v \in Viewers |-> IF v \in subs THEN wire[v] \o events ELSE wire[v]]

-----------------------------------------------------------------------------
(* The services: the write, then the announcement.                         *)

Summary(i, row) == [id |-> i, status |-> row.status, skipVotes |-> row.skipVotes,
                    karaokeClaims |-> row.karaokeClaims]

ItemEvent(verdict, i) ==
    [type |-> CASE verdict = "approved" -> "queue.item_approved"
                [] verdict = "rejected" -> "queue.item_rejected"
                [] verdict = "removed" -> "queue.item_removed",
     itemId |-> i]

Write(i, row, events, for) ==
    /\ rows' = [rows EXCEPT ![i] = row]
    /\ owed' = Append(owed, [events |-> events, for |-> for])
    /\ UNCHANGED <<moderated, stranded, claiming>>

\* What a request inserts, and what it announces of it: the row as it was
\* inserted, its singer, and its approval where nobody decides.
Created(singers) == [NoRow EXCEPT !.status = IF moderated THEN "pending" ELSE "approved",
                                  !.karaokeClaims = singers]

Requested(i, singers) ==
    <<[type |-> "queue.item_requested", item |-> Summary(i, Created(singers))]>>
    \o [n \in DOMAIN singers |->
           [type |-> "karaoke.claim_added", itemId |-> i, guestId |-> singers[n]]]
    \o (IF moderated THEN <<>> ELSE <<ItemEvent("approved", i)>>)

Request(i, for) ==
    /\ rows[i].status = "none"
    /\ Write(i, Created(<<>>), Requested(i, <<>>), for)
    /\ reopened' = reopened

\* The request of a guest who takes the mic with the song: the row first,
\* which all may read and decide from now on, ...
InsertItem(i, g) ==
    /\ rows[i].status = "none"
    /\ rows' = [rows EXCEPT ![i] = Created(<<>>)]
    /\ claiming' = claiming \cup {<<i, g>>}
    /\ UNCHANGED <<moderated, reopened, stranded, owed>>

MayInsertClaim(i, g) == rows[i].status \notin Absent /\ g \notin ToSet(rows[i].karaokeClaims)

\* ... then the claim, and only then the announcement.
InsertClaim(i, g) ==
    /\ <<i, g>> \in claiming /\ claiming' = claiming \ {<<i, g>>}
    /\ MayInsertClaim(i, g)
    /\ rows' = [rows EXCEPT ![i].karaokeClaims = Append(@, g)]
    /\ owed' = Append(owed, [events |-> Requested(i, <<g>>), for |-> None])
    /\ UNCHANGED <<moderated, reopened, stranded, bounds>>

\* The insert throws, the row being gone, the guest its singer already, or
\* the database out of reach: nothing takes the row back or announces it.
ClaimFails(i, g) ==
    /\ <<i, g>> \in claiming /\ claiming' = claiming \ {<<i, g>>}
    /\ MayInsertClaim(i, g) => Spend("fault")
    /\ ~MayInsertClaim(i, g) => UNCHANGED bounds
    /\ stranded' = stranded \cup {i}
    /\ UNCHANGED <<moderated, rows, reopened, owed>>

Claiming ==
    /\ \E i \in Items, g \in Guests : InsertClaim(i, g) \/ ClaimFails(i, g)
    /\ UNCHANGED <<server, poller, browser>>

\* A host may reverse a decision.
Decide(i, decision, for) ==
    /\ rows[i].status \notin Absent
    /\ Write(i, [rows[i] EXCEPT !.status = decision], <<ItemEvent(decision, i)>>, for)
    /\ reopened' = IF rows[i].status \in {"rejected", "played"} /\ decision = "approved"
                   THEN reopened \cup {i} ELSE reopened

DeleteRow(i, for) ==
    /\ rows[i].status \notin Absent \cup {"playing"}
    /\ Write(i, [NoRow EXCEPT !.status = "removed"], <<ItemEvent("removed", i)>>, for)
    /\ reopened' = reopened

CastVote(i) ==
    /\ rows[i].status \in OpenRow
    /\ LET votes == rows[i].skipVotes + 1 IN
       Write(i, [rows[i] EXCEPT !.skipVotes = votes],
             <<[type |-> "skip_vote.updated", itemId |-> i, votes |-> votes]>>, None)
    /\ reopened' = reopened

Claim(i, g) ==
    /\ rows[i].status \in OpenRow /\ g \notin ToSet(rows[i].karaokeClaims)
    /\ Write(i, [rows[i] EXCEPT !.karaokeClaims = Append(@, g)],
             <<[type |-> "karaoke.claim_added", itemId |-> i, guestId |-> g]>>, None)
    /\ reopened' = reopened

RemoveClaim(i, g) ==
    /\ rows[i].status \in OpenRow /\ g \in ToSet(rows[i].karaokeClaims)
    /\ Write(i, [rows[i] EXCEPT !.karaokeClaims = NotOf(@, g)],
             <<[type |-> "karaoke.claim_removed", itemId |-> i, guestId |-> g]>>, None)
    /\ reopened' = reopened

\* reconcileQueue writes statuses and announces nothing.
Reconciles(i, status) ==
    /\ rows[i].status \in OpenStatuses /\ status # rows[i].status
    /\ rows' = [rows EXCEPT ![i].status = status]
    /\ UNCHANGED <<moderated, reopened, stranded, claiming, owed>>

RowChanges ==
    /\ \E i \in Items :
          \/ Request(i, None) \/ \E g \in Guests : InsertItem(i, g)
          \/ \E d \in {"approved", "rejected"} : Decide(i, d, None)
          \/ DeleteRow(i, None)
          \/ CastVote(i)
          \/ \E g \in Guests : Claim(i, g) \/ RemoveClaim(i, g)
          \/ \E s \in {"playing", "played"} : Reconciles(i, s)
    /\ Spend("row")
    /\ UNCHANGED <<server, poller, browser>>

\* The database has answered call k: it publishes and answers its caller.
Announce(k) ==
    /\ k \in DOMAIN owed
    /\ owed' = RemoveAt(owed, k)
    /\ Publish(owed[k].events)
    /\ ask' = [v \in Viewers |-> IF v = owed[k].for THEN [ask[v] EXCEPT !.state = "ok"]
                                 ELSE ask[v]]
    /\ UNCHANGED <<moderated, rows, reopened, stranded, claiming, hydrated, loads, subs, poller,
                   kind, conn, page, fetches, bounds>>

\* Votes on tracks, the karaoke service, guest slots, the provider's state.
Broadcast(e) ==
    /\ e \in others /\ others' = others \ {e} /\ left' = left
    /\ room # None
    /\ Publish(<<e>>)
    /\ UNCHANGED <<store, hydrated, loads, subs, poller, kind, conn, page, fetches, ask>>

-----------------------------------------------------------------------------
(* The poller.                                                             *)

\* A tick that heard `next': the provider answered, so its rate limit is over;
\* now-playing if it changed, or was paused, resumed or moved (`changed'); the
\* clock; and a lookup of the lyrics if the track is new to this entry.
Tick(next, changed) ==
    /\ Spend("tick")
    /\ room # None
    /\ room.nowPlaying # next => changed
    /\ next = None /\ room.nowPlaying = None => ~changed
    /\ Publish((IF room.providerStatus = "rate_limited"
                THEN <<[type |-> "provider.status_updated", status |-> "ok"]>> ELSE <<>>)
               \o (IF changed
                   THEN <<[type |-> "now_playing.updated", track |-> next]>> ELSE <<>>)
               \o (IF next # None
                   THEN <<[type |-> "playback.clock_sampled", trackUri |-> next]>>
                   ELSE <<>>))
    /\ lastLyrics' = next
    /\ lookups' = IF next # None /\ next # lastLyrics
                  THEN [lookups EXCEPT ![next] = @ + 1] ELSE lookups
    /\ UNCHANGED <<store, hydrated, loads, subs, kind, conn, page, fetches, ask>>

\* Faulty variant: an answer is published without a look at the room.
StillPlaying(track) == room # None

\* The re-check before publishing.
IsCurrent(track) == room # None /\ room.nowPlaying = track

\* A lookup ends, with a document or with none.
LookupEnds(track, lyrics) ==
    /\ lookups[track] > 0
    /\ lookups' = [lookups EXCEPT ![track] = @ - 1]
    /\ IF IsCurrent(track)
       THEN Publish(<<[type |-> "lyrics.loaded", trackUri |-> track, lyrics |-> lyrics]>>)
       ELSE UNCHANGED <<room, wire>>
    /\ UNCHANGED <<store, hydrated, loads, subs, lastLyrics, kind, conn, page,
                   fetches, ask, bounds>>

\* The entry is torn down once nobody watches; the room stays.
TearDown ==
    /\ subs = {} /\ lastLyrics # None
    /\ lastLyrics' = None
    /\ UNCHANGED <<store, server, lookups, browser, bounds>>

-----------------------------------------------------------------------------
(* onOpen: connect, subscribe, hydrate the room once, send the snapshot.   *)

SnapshotFrame(s) == [type |-> "_snapshot", snapshot |-> s]

NotRead == [i \in {} |-> NoRow]

\* Server and browser agree that the socket is open; ensureRoom ran at the
\* upgrade.
OnOpen(v) ==
    LET r == IF room = None THEN CreateEmptySnapshot ELSE room IN
    /\ conn[v] = "dialing"
    /\ conn' = [conn EXCEPT ![v] = "live"]
    /\ room' = r
    /\ subs' = subs \cup {v}
    /\ IF hydrated
       THEN /\ wire' = [wire EXCEPT ![v] = <<SnapshotFrame(r)>>]
            /\ loads' = loads
       ELSE /\ loads' = Append(loads, [for |-> v, step |-> "items", read |-> NotRead])
            /\ wire' = wire
    /\ UNCHANGED <<store, hydrated, poller, kind, page, fetches, ask, bounds>>

\* queueItems.findAllForSession.
LoadItems(k) ==
    /\ loads[k].step = "items"
    /\ loads' = [loads EXCEPT ![k].step = "claims", ![k].read = rows]
    /\ UNCHANGED <<store, room, hydrated, subs, poller, browser, bounds>>

\* Faulty variant: the track being played is no longer waiting.
QueuedStatuses == {"approved", "queued"}

ShownStatuses == {"approved", "queued", "playing"}

InOrder(ids) == At([i \in 1..Cardinality(Items) |-> i], ids)

\* The merge: rows of the read that the snapshot does not hold yet, with the
\* claims read last.
MergeInto(s, read) ==
    LET new(statuses) ==
            InOrder({i \in DOMAIN read : read[i].status \in statuses
                        /\ ~Holds(s.pending, i) /\ ~Holds(s.queue, i)})
        summaries(ids) ==
            [n \in DOMAIN ids |->
                Summary(ids[n], [read[ids[n]] EXCEPT
                                    !.karaokeClaims = rows[ids[n]].karaokeClaims])]
    IN  [s EXCEPT !.pending = @ \o summaries(new({"pending"})),
                  !.queue = @ \o summaries(new(ShownStatuses))]

\* The end of the handler, whether or not its socket is still there.
Greet(k, snapshot) ==
    /\ loads' = RemoveAt(loads, k)
    /\ wire' = [v \in Viewers |-> IF v = loads[k].for
                                  THEN Append(wire[v], SnapshotFrame(snapshot)) ELSE wire[v]]
    /\ UNCHANGED <<store, subs, poller, kind, conn, page, fetches, ask>>

\* karaokeClaims.findAllForSession has answered: from getSnapshot to
\* setSnapshot, and to the frame, there is no I/O.
Hydrate(k) ==
    /\ loads[k].step = "claims"
    /\ room' = MergeInto(room, loads[k].read)
    /\ hydrated' = TRUE
    /\ Greet(k, room')
    /\ UNCHANGED bounds

\* A read fails: the room is left as it is, and the next socket tries again.
HydrateFails(k) ==
    /\ Spend("fault")
    /\ Greet(k, room)
    /\ UNCHANGED <<room, hydrated>>

Loading == \E k \in DOMAIN loads : LoadItems(k) \/ Hydrate(k) \/ HydrateFails(k)

-----------------------------------------------------------------------------
(* RealtimeClient.                                                         *)

\* The server forgets the socket (onClose); a handler at work goes on.
Unsubscribe(gone) ==
    /\ subs' = subs \ gone
    /\ wire' = [v \in Viewers |-> IF v \in gone THEN <<>> ELSE wire[v]]
    /\ loads' = [k \in DOMAIN loads |-> IF loads[k].for \in gone
                                        THEN [loads[k] EXCEPT !.for = None] ELSE loads[k]]

\* Faulty variant: only a dial that fails is tried again.
ReconnectsDials(c) == IF c = "dialing" THEN "waiting" ELSE "lost"

\* The close event of a socket the page did not close: scheduleReconnect,
\* whose attempts are not limited.
AfterClose(c) == "waiting"

Drop(v) ==
    /\ Spend("fault")
    /\ conn[v] \in {"dialing", "live"}
    /\ conn' = [conn EXCEPT ![v] = AfterClose(@)]
    /\ Unsubscribe({v})
    /\ UNCHANGED <<store, room, hydrated, poller, kind, page, fetches, ask>>

\* The reconnect timer fires: openSocket.
Reconnect(v) ==
    /\ conn[v] = "waiting"
    /\ conn' = [conn EXCEPT ![v] = "dialing"]
    /\ UNCHANGED <<store, server, poller, kind, wire, page, fetches, ask, bounds>>

Getting(v) == asked[v] + Len(answers[v])

\* A frame arrives; some events make the page ask for the list again.
Receive(v) ==
    /\ wire[v] # <<>>
    /\ RefreshesQueue(kind[v], Head(wire[v])) => Getting(v) < MaxGets
    /\ wire' = [wire EXCEPT ![v] = Tail(@)]
    /\ page' = [page EXCEPT ![v] = HandleMessage(kind[v], @, Head(wire[v]))]
    /\ asked' = IF RefreshesQueue(kind[v], Head(wire[v]))
                THEN [asked EXCEPT ![v] = @ + 1] ELSE asked
    /\ UNCHANGED <<store, server, poller, kind, conn, answers, ask, bounds>>

-----------------------------------------------------------------------------
(* The pages' requests.                                                    *)

\* tvSnapshot prefers the room's list to the table's, unless it is empty.
TvList ==
    IF room # None /\ room.queue # <<>>
    THEN [i \in Items |-> IF Holds(room.queue, i)
                          THEN room.queue[IndexOfId(room.queue, i)].status ELSE "none"]
    ELSE VisibleQueue(Statuses)

\* The tv's first answer brings more than the list; it counts the active
\* slots of the table while the room knows of none.
TvSnapshotAnswer(slots) ==
    [queue |-> TvList,
     nowPlaying |-> IF room = None THEN None ELSE room.nowPlaying,
     activeGuestCount |-> IF room = None \/ room.activeGuestCount = 0
                          THEN slots ELSE room.activeGuestCount]

Answers(v) ==
    IF kind[v] = "tv" /\ conn[v] = "asking"
    THEN {TvSnapshotAnswer(slots) : slots \in 0..Cardinality(Guests)}
    ELSE {[queue |-> Statuses]}

\* bootstrap: the list first.
Bootstrap(v) ==
    /\ conn[v] = "blank"
    /\ conn' = [conn EXCEPT ![v] = "asking"]
    /\ asked' = [asked EXCEPT ![v] = @ + 1]
    /\ UNCHANGED <<store, server, poller, kind, wire, page, answers, ask, bounds>>

\* The server answers a GET with what it reads now.
AnswerGet(v) ==
    /\ asked[v] > 0
    /\ asked' = [asked EXCEPT ![v] = @ - 1]
    /\ \E a \in Answers(v) : answers' = [answers EXCEPT ![v] = Append(@, a)]
    /\ UNCHANGED <<store, server, poller, kind, conn, wire, page, ask, bounds>>

\* Answers travel on connections of their own, and may overtake each other.
\* The first one opens the socket (openRealtime).
QueueAnswered(v, k) ==
    /\ k \in DOMAIN answers[v]
    /\ answers' = [answers EXCEPT ![v] = RemoveAt(@, k)]
    /\ page' = [page EXCEPT ![v] =
                   IF conn[v] = "asking" THEN Bootstrapped(kind[v], @, answers[v][k])
                   ELSE QueueArrives(kind[v], @, answers[v][k].queue)]
    /\ conn' = [conn EXCEPT ![v] = IF @ = "asking" THEN "dialing" ELSE @]
    /\ UNCHANGED <<store, server, poller, kind, wire, asked, ask, bounds>>

\* The page is left: RealtimeClient.close.
Leave(v) ==
    /\ Spend("fault")
    /\ conn[v] \in {"dialing", "live", "waiting"}
    /\ conn' = [conn EXCEPT ![v] = "closed"]
    /\ Unsubscribe({v})
    /\ UNCHANGED <<store, room, hydrated, poller, kind, page, fetches, ask>>

\* The process ends and comes back: rows stay, all else of the server is
\* gone; requests under way fail.
Restart ==
    /\ Spend("fault")
    /\ owed' = <<>> /\ claiming' = {} /\ reopened' = {} /\ stranded' = {}
    /\ room' = None /\ hydrated' = FALSE
    /\ subs' = {} /\ loads' = <<>>
    /\ lastLyrics' = None /\ lookups' = [t \in Tracks |-> 0]
    /\ wire' = [v \in Viewers |-> <<>>]
    /\ conn' = [v \in Viewers |->
                   CASE conn[v] \in {"dialing", "live"} -> AfterClose(conn[v])
                     [] conn[v] = "asking" /\ answers[v] = <<>> -> "dialing"
                     [] OTHER -> conn[v]]
    /\ asked' = [v \in Viewers |-> 0]
    /\ ask' = [v \in Viewers |-> IF ask[v].state = "sent"
                                 THEN [ask[v] EXCEPT !.state = "failed"] ELSE ask[v]]
    /\ UNCHANGED <<moderated, rows, kind, page, answers>>

-----------------------------------------------------------------------------
(* What users press.  A page has one such call under way.                  *)

Press(v, op, i, t) ==
    /\ Spend("press")
    /\ conn[v] \in {"dialing", "live", "waiting"} /\ ask[v].op = "none"
    /\ ask' = [ask EXCEPT ![v] = [op |-> op, item |-> i, track |-> t, state |-> "sent"]]
    /\ UNCHANGED <<store, server, poller, kind, conn, wire, fetches>>

Quietly(v) == page' = page

Pick(v, i) ==
    kind[v] = "guest" /\ Press(v, "pick", i, TrackOf[i]) /\ Quietly(v)

RemoveOwn(v, i) ==
    /\ kind[v] = "guest" /\ page[v].queue[i] \in {"pending", "approved"}
    /\ Press(v, "removeOwn", i, TrackOf[i]) /\ Quietly(v)

VoteSkipNowPlaying(v, t) ==
    /\ kind[v] = "guest" /\ page[v].nowPlaying = t
    /\ t \notin page[v].votedNowPlayingUris
    /\ Press(v, "voteNow", None, t) /\ Quietly(v)

VoteSkipProvider(v, t) ==
    /\ kind[v] = "guest" /\ t \in ToSet(page[v].providerQueue)
    /\ t \notin page[v].votedProviderUris
    /\ Press(v, "voteTrack", None, t) /\ Quietly(v)

Moderate(v, i, decision) ==
    /\ kind[v] = "host" /\ page[v].queue[i] = "pending"
    /\ Press(v, decision, i, TrackOf[i]) /\ Quietly(v)

\* A row with a request behind it is rejected as that item, another one as a
\* track; either way it is hidden at once.
RemoveRow(v, t) ==
    LET requested == {i \in Items : TrackOf[i] = t /\ page[v].queue[i] \in {"approved", "queued"}}
        item == IF requested = {} THEN None ELSE CHOOSE i \in requested : TRUE
    IN  /\ kind[v] = "host" /\ t \in ToSet(UpNext(page[v]))
        /\ Press(v, "removeRow", item, t)
        /\ page' = [page EXCEPT ![v] = Hidden(@, t)]

Presses(v) ==
    \/ \E i \in Items :
          \/ Pick(v, i) \/ RemoveOwn(v, i)
          \/ \E d \in {"approved", "rejected"} : Moderate(v, i, d)
    \/ \E t \in Tracks :
          VoteSkipNowPlaying(v, t) \/ VoteSkipProvider(v, t) \/ RemoveRow(v, t)

\* The route's service writes the row of a call; Announce answers it.
ServeRow(v) ==
    LET a == ask[v] IN
    /\ a.state = "sent"
    /\ \/ a.op = "pick" /\ Request(a.item, v)
       \/ a.op = "removeOwn" /\ DeleteRow(a.item, v)
       \/ a.op \in {"approved", "rejected"} /\ Decide(a.item, a.op, v)
       \/ a.op = "removeRow" /\ a.item # None /\ Decide(a.item, "rejected", v)
    /\ ask' = [ask EXCEPT ![v].state = "written"]
    /\ UNCHANGED <<server, poller, kind, conn, wire, page, fetches, bounds>>

\* A vote, or the rejection of a track, writes no row: it is announced and
\* answered at once.  The vote on now-playing counts for the room's track.
ServeTrack(v) ==
    LET a == ask[v]
        tally == room.nowPlayingSkipVote
        next == IF tally # None /\ tally.trackUri = room.nowPlaying
                THEN tally.count + 1 ELSE 1
    IN
    /\ a.state = "sent" /\ room # None
    /\ \/ /\ a.op = "voteNow" /\ room.nowPlaying # None
          /\ Publish(<<[type |-> "now_playing_skip_vote.updated",
                        trackUri |-> room.nowPlaying, count |-> next]>>)
       \/ /\ a.op = "voteTrack"
          /\ Publish(<<[type |-> "provider_queue_skip_vote.updated", trackUri |-> a.track,
                        count |-> room.providerQueueSkipVotes[a.track] + 1]>>)
       \/ a.op = "removeRow" /\ a.item = None /\ UNCHANGED <<room, wire>>
    /\ ask' = [ask EXCEPT ![v].state = "ok"]
    /\ UNCHANGED <<store, hydrated, loads, subs, poller, kind, conn, page, fetches, bounds>>

\* The service refuses (a cap, a missing row, a rate limit, a vote that was
\* cast before), or fails.
Refuse(v) ==
    /\ ask[v].state = "sent"
    /\ \E answer \in {"failed"} \cup (IF ask[v].op \in {"voteNow", "voteTrack"}
                                     THEN {"already_voted"} ELSE {}) :
          ask' = [ask EXCEPT ![v].state = answer]
    /\ UNCHANGED <<store, server, poller, kind, conn, wire, page, fetches, bounds>>

\* The page hears of it.
Answered(v) ==
    LET a == ask[v] IN
    /\ a.state \in {"ok", "failed", "already_voted"}
    /\ ask' = [ask EXCEPT ![v] = NoAsk]
    /\ page' = [page EXCEPT ![v] =
          CASE a.op = "pick" /\ a.state = "ok" -> Picked(@, a.item, a.track, moderated)
            [] a.op = "removeOwn" /\ a.state = "ok" -> RemovedOwn(@, a.item)
            [] a.op = "voteNow" /\ a.state # "failed" -> VotedNow(@, a.track)
            [] a.op = "voteTrack" /\ a.state # "failed" -> VotedProvider(@, a.track)
            [] a.op = "removeRow" /\ a.state = "failed" -> Restored(@, a.track)
            [] OTHER -> @]
    /\ asked' = IF kind[v] = "host" /\ a.item # None /\ a.state = "ok"
                THEN [asked EXCEPT ![v] = @ + 1] ELSE asked
    /\ UNCHANGED <<store, server, poller, kind, conn, wire, answers, bounds>>

-----------------------------------------------------------------------------
Stimuli ==
    \/ RowChanges
    \/ \E t \in Maybe(Tracks), changed \in BOOLEAN : Tick(t, changed)
    \/ \E e \in others : Broadcast(e)
    \/ \E v \in Viewers : Presses(v)

Faults == Restart \/ \E v \in Viewers : Drop(v) \/ Leave(v)

\* What the server owes once it has begun.
Server ==
    \/ \E k \in DOMAIN owed : Announce(k)
    \/ Claiming
    \/ \E t \in Tracks, found \in BOOLEAN : LookupEnds(t, IF found THEN t ELSE None)
    \/ TearDown
    \/ Loading

Browser(v) ==
    \/ Bootstrap(v) \/ AnswerGet(v) \/ \E k \in DOMAIN answers[v] : QueueAnswered(v, k)
    \/ OnOpen(v) \/ Reconnect(v) \/ Receive(v)
    \/ ServeRow(v) \/ ServeTrack(v) \/ Refuse(v) \/ Answered(v)

Next == Stimuli \/ Faults \/ Server \/ \E v \in Viewers : Browser(v)

Spec == Init /\ [][Next]_vars

\* Reads of the database answer or fail, announcements follow their writes,
\* timers fire, connections can be made again, and wires deliver.
Fairness ==
    /\ WF_vars(Loading)
    /\ \A v \in Viewers :
          /\ WF_vars(Bootstrap(v)) /\ WF_vars(AnswerGet(v))
          /\ WF_vars(\E k \in DOMAIN answers[v] : QueueAnswered(v, k))
          /\ WF_vars(OnOpen(v)) /\ WF_vars(Reconnect(v)) /\ WF_vars(Receive(v))

FairSpec == Spec /\ Fairness

-----------------------------------------------------------------------------
(* Properties.                                                             *)

\* Its announcement is on its way, or its claim is.
Announcing(i) ==
    \/ \E g \in Guests : <<i, g>> \in claiming
    \/ \E k \in DOMAIN owed : \E n \in DOMAIN owed[k].events :
           owed[k].events[n].type = "queue.item_requested" /\ owed[k].events[n].item.id = i

\* Hydration: while requests go on publishing into the room as the handler
\* reads the database, and after any restart, no request that waits or plays
\* is missing from the room, but those whose announcement is on its way and,
\* until the next restart, those a host approved after they were rejected or
\* played and those whose call failed between the row and its claim.
NothingMissing ==
    hydrated => \A i \in Items :
        rows[i].status \in OpenRow /\ i \notin reopened \cup stranded
        => Announcing(i) \/ Holds(room.pending, i) \/ Holds(room.queue, i)

\* What a page of this kind mirrors of the room with its own handlers.
Mirror(k, x) ==
    CASE k = "guest" -> <<x.nowPlaying, x.nowPlayingSkipVote>>
      [] k = "host" -> <<x.nowPlaying>>
      [] k = "tv" -> <<x.nowPlaying, x.activeGuestCount>>

\* Up Next without what the guest's own page put there in advance.
Confirmed(p) == SubSeq(p.providerQueue, 1, Len(p.providerQueue) - p.added)

Greeted(v) == v \in subs /\ \A k \in DOMAIN loads : loads[k].for # v

\* The two reducers agree: once the frames on its wire have arrived, a page
\* that was sent its snapshot shows what the room holds, whatever it showed
\* before and whatever it heard between subscribing and the snapshot.
InStep ==
    \A v \in Viewers : Greeted(v) =>
        LET p == Heard(kind[v], page[v], wire[v])
        IN  /\ Mirror(kind[v], p) = Mirror(kind[v], room)
            /\ Confirmed(p) = room.providerQueue

\* However late a lookup ends and however often the track changes meanwhile,
\* neither the room nor a page binds one track's lyrics to another.
LyricsAreOfTheTrack ==
    /\ room # None => room.lyrics \in {None, room.nowPlaying}
    /\ \A v \in Viewers :
          LET l == page[v].lyricsByUri IN l # None => l.doc \in {None, l.uri}

\* A page that shows the room as it is, the lyrics of its track included
\* unless they are being looked up.
Settled(v) ==
    /\ Greeted(v) /\ wire[v] = <<>>
    /\ Mirror(kind[v], page[v]) = Mirror(kind[v], room)
    /\ kind[v] # "host" /\ room.nowPlaying # None /\ lookups[room.nowPlaying] = 0
       => ShownLyrics(page[v]) = room.lyrics

\* Connections drop, the server restarts, hydration fails: when that is over
\* and nothing new happens, every page that is still open settles.
Converges == \A v \in Viewers : <>[](conn[v] = "closed" \/ Settled(v))

=============================================================================
