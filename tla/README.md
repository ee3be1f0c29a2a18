# OpenDJ: a TLA+ model

OpenDJ is a shared jukebox. A host opens a session on a streaming account,
guests join by QR code and request tracks, a moderation list, votes and caps
decide what is played, singers claim a microphone, and every browser sees the
room over a WebSocket. The server is one Node.js process: code runs alone
between two `await`s, and everything hard about it happens at the `await`s,
where requests, the polling loop and the host's own player overtake each other.

This directory holds a model of that server in TLA+. Paths below are relative
to the repository root.

## 1. Inventory

| component | state | operations | what makes it correct |
|---|---|---|---|
| **Admission rules** `packages/core/src/queue/` | none | `canEnqueue`, `enforcePerGuestCap`, `enforceConsecutiveCap`, `canClaimMic`, `canRemoveClaim` | caps and the duplicate rule are exact when calls do not overlap |
| **Request queue** `packages/backend/src/queue/QueueService.ts` | `queue_items`, `queue_skip_votes`, `karaoke_claims` | `requestTrack`, `moderate`, `removeOwn`, `castSkipVote`, `castNowPlayingSkipVote`, `hostRejectProviderTrack` | only approved items reach the provider; the counter of votes agrees with its ledger; the room shows what the table holds |
| **Now-playing poller** `packages/backend/src/realtime/NowPlayingPoller.ts` | per session: one timer, one tick, idle timer, caches | `start`, `stop`, `stopAll`, `tick`, `reconcileQueue` | one chain of ticks per watched session, none for an unwatched one; statuses follow the player |
| **Karaoke** `packages/backend/src/karaoke/KaraokeService.ts` | spotlight and pause (in memory), claims | `handleTrackChange`, `reconcilePlayback`, `pause`, `ready`, `claim`, `removeClaim`, `hostRemoveClaim` | the spotlight is on an item being played; every pause ends; the room agrees |
| **Realtime room** `packages/realtime/src/` | snapshot, subscribers | `publish`, `subscribe`, `setSnapshot`, the reducer `applyEvent` | a client's replayed snapshot equals the room's |
| **WebSocket route** `packages/backend/src/routes/realtime.ts` | sockets, hydrated sessions | `onOpen`, `onClose`, hydration from the database | no item is shown twice or after removal |
| **Provider cooldowns** `.../streaming/ProviderCooldowns.ts` | account -> end of its window | `record`, `untilEpochMs`, `guardFetch` | a window never shrinks, no call leaves inside one |
| **Streaming router** `.../streaming/StreamingRouter.ts` | `provider_connections` | `getProvider`, `switchProvider`, token refresh | a refreshed token is the one stored |
| **Guest identity** `packages/backend/src/guest/GuestIdentityService.ts` | `guest_slots`, `guests` | `issueIdentity`, `heartbeat` | the active slots never exceed the cap |
| **Sessions** `packages/backend/src/session/SessionService.ts` | `sessions` | `create`, `update`, `end`, `reopen` | one live session per slug |
| **Host sign-in** `packages/backend/src/auth`, `.../email`, `.../account` | credentials, tokens, auth sessions | register, login, reset, verify, OAuth, switch account | tokens work once; the lock counts failures |
| **Lyrics** `packages/backend/src/lyrics`, `packages/lyrics` | cache, feedback | `lookup`, `recordFeedback`, LRC parsing | the shown line is the one being sung |
| **Clock and cues** `packages/sync` | none | interpolation between samples | monotone between samples |
| **Browser client** `packages/frontend/src/realtime/RealtimeClient.ts` | socket, backoff, status | `connect`, `close`, reconnect | after any loss of connection the page shows the room again |
| **Live pages** `packages/frontend-template/src/app/pages/` | what each page mirrors of the room, the list it fetched, optimistic marks | snapshot and event handlers, buttons | a page's own reducer agrees with the room's |
| **Spotify adapter** `.../streaming/spotify/` | tokens of one call | request, renew, retry once | a rejected token is renewed once per request |
| **Search** `packages/backend/src/routes/search.ts` | cache of promises | `cachedSearch` | one call to the provider per query and lifetime |
| **Repositories** `packages/backend/src/repositories/`, `packages/db` | 22 tables | the repository interfaces of `types.ts`, in SQL and in memory | the in-memory ones, which the tests run on, answer as the database does |
| other routes, other adapters, other UI | | | thin, or the environment |

`PROJECT.json` lists each of these under `components` with the part that is
modelled, and under `hazards` every place in the code that a test would hardly
reach, with the properties that watch it.

How the parts meet:

- a route looks up the caller and calls one service; a service reads rows,
  decides, writes rows, and publishes events to the room, in that order, each
  read and write being an `await`; publishing is synchronous;
- the room applies each event to its snapshot (`applyEvent`) and forwards it to
  the subscribers, in one step;
- a socket's `onOpen` starts the session's poller, the last `onClose` stops it
  after a grace period; each tick reads the session, resolves the provider,
  reads what is playing, and then calls the karaoke service and reconciles the
  queue's statuses; the same rows are written by guests' calls meanwhile;
- each call to the provider gets a client of its own from the router, with the
  tokens the connection row held then; a client that renews its token writes the
  row; a 429 opens a cooldown that all calls of the account respect, and that
  the room tells its clients of;
- a page asks for its list over HTTP, then opens the socket, folds the snapshot
  and the events with handlers of its own, and fetches the list again when an
  event says that it changed.

Hard behaviours, in the order they are taken on: overlapping calls over one
row; the tick's stale samples; a step that fails after an earlier one was
written; entries and timers that outlive each other; windows and grace periods;
votes kept in memory; hydration of a room while events flow into it; sockets
that reconnect.

## 2. The modules

Each component has its module, a module `MC...` that only gives TLC its small
instances, and, where something is proved, a module `...Proofs` with the theorems.

### QueueRules

The pure admission rules over the session's items; ids are handed out in
creation order. Status
sets, caps and the duplicate rule are translated one function to one operator;
`NoLimit` (-1) stands for the `null` of an optional setting.

### RequestQueue

`QueueService` for one session, over its tables, the room's `queue` and
`pendingModeration` slices and the provider. `Calls` are the HTTP calls in flight; `pc[c]`
is the next step of call `c` and `job[c]` the locals it carries across an
`await`, so a step acts on what an earlier step of its own call read.

| action | code |
|---|---|
| `RequestTrack`, `ReadSession`, `AdmitRequest`, `InsertItem`, `InsertClaim`, `AnnounceRequest`, `PushRequest`, `RollBackRequest` | `requestTrack` (141-284), one action per stretch between two awaits; `now` is taken on entry (148), the session is read later |
| `Moderate`, `DecideItem`, `PublishApproved` / `PublishGone`, `PushApproval` | `moderate` (286-349) |
| `RemoveOwn`, `DeleteOwn` | `removeOwn` (389-431) |
| `CastSkipVote`, `RecordVote`, `CountVote`, `RejectByVote` | `castSkipVote` (433-531); the ledger's insert and the counter's update are two statements in `queue-skip-votes.ts` |
| `PollRead`, `PollWrite`, `PollSkip`, `PollDone` | the statuses a tick reads and later writes |
| `EndSession`, `SetModeration`, `CooldownEnds` | the host's settings, the end of a rate-limit window |

Abstracted: wording, timestamps, display names, artwork. The poller's choice of
what to write is left open (an approved item may become playing or played, a
playing or rejected one played), so what holds here holds whatever reconcile
decides.
The host and the guests may name every row of the table from its insert on
(`Nameable`: `GET /queue`, `routes/queue.ts` 104-114, lists them all), so a row may be
decided before the room was told of it. `approved`, `stranded` and `overtaken` are history
variables: the items that were approved at some time, those whose request failed
at its claim, and those an event about which went out before the one that introduces
them.

### Karaoke

`KaraokeService`, with the part of the tick that drives it. `svc` is the
service's in-memory state, `room` the snapshot's karaoke slice, `player` what
the host's device does, `tick` the tick in progress with its sample, `pc`/`job`
the calls in flight. `left` counts down to the resume deadline instead of
carrying a time. `HostToggles` is the host's play/pause button: the playback route
calls the provider without telling the karaoke service.

| action | code |
|---|---|
| `Sample`, `Reconcile`, `ReconcileResume`, `ReconcileClear` | `tick` 415-445, `reconcilePlayback` 353-371 |
| `TrackChange`, `ReadSession`, `ReadCandidates`, `Spotlight`, `AutoPause`, `AutoPaused`, `TickReadFails` | `tick` 478-505, `handleTrackChange` 278-342 |
| `Pause`, `PauseCheck`, `PauseCall`, `PauseSet`, `Ready...` | `pause` 373-409, `ready` 411-434, with `requireSpotlightClaim` 445-464 |
| `Claim`, `ClaimInsert`, `RemoveClaim`, `HostRemoveClaim`, `ClaimDelete` | 114-238 |
| `PollerStops`, `PollerStarts`, `ServerRestarts` | the entry is dropped or gives up (`polled`), a socket opens on the old entry or a fresh one; a new process |

### PollerLifecycle

The timers of the poller. The map holds at most one entry of the session, but a
tick keeps the entry it started with in a local, so entries have an identity
and may outlive their place in the map. Nothing bounds how long a tick runs (the
provider's client sets no timeout on its fetch). `timer`, `ticking`, `idle`, `cached`
are the sets of entries with that field set. `closing` holds the sockets that
left the room and whose handler has not yet looked whether it was the last.
`stopped` and `forked` are history variables: a tick gave up; a tick that had
outlived its entry set a timer on the entry it found in the map.

| action | code |
|---|---|
| `OnOpen` / `OnClose` / `OnClosed` | `routes/realtime.ts` 88-109, 167-175 |
| `Start`, `Stop`, `TearDown`, `IdleFires`, `StopAll` | the methods of the same name |
| `TimerFires`, `ReadSession`, `ResolveProvider`, `ReadNowPlaying`, with `FinishTick`, `GiveUp`, `Return` | `tick` 353-650: each exit of the function, and the `finally` |
| `EndOrReopenSession`, `ChangeConnection` | the host, elsewhere |

### TrackSkips

Who skips what, and how often. The player is what the code cannot see: `play`
is what the speakers play (a position in `Program`, so two plays of one track
differ), `reported` what its endpoint answers, `shown` what the room's snapshot
says. `cuts` is a history of the skips that arrived: the play that ended, the
play the caller meant, and the caller. `window` stands for `lastSkipAtMs`: it
is the play begun by the poller's last skip while that skip is younger than
`SKIP_SETTLE_MS`. The window is one of the clock: it closes whatever the tick
does, and a tick that sampled before the skip and goes on after the window is
`late`. The one time assumed is the player's: its report settles within the window (the
code's comment says that it takes 500 ms of the 1500). The poller keeps its entry.
`spent` is a history of the rows whose rejection was acted on.

| action | code |
|---|---|
| `Sample`, `EarlyCheck`, `EarlySkip` | `tick` 415-433, 507-535: URIs that votes or the host rejected |
| `ReadItems`, `LateCheck`, `LateSkip`, `Tombstone` | `tick` 537, `reconcileQueue` 773-834: rejected rows; the write of the tombstone may fail, which is logged |
| `RejectItem`, `LookAtRoom`, `DirectSkip` | `moderate` 301-385, `castSkipVote` 503-558 |
| `VoteOnNow`, `CountNowVote`, `DirectSkip` | `castNowPlayingSkipVote` 592-701 |
| `VoteOnUri`, `CountUriVote`, `DirectSkip` | `castProviderQueueSkipVote` 823-943 |
| `HostRejects`, `DirectSkip` | `hostRejectProviderTrack` 725-793 |
| `PlayerAdvances`, `ReportSettles`, `WindowCloses` | the player and the time |
| `Restart` | a new process, at any step: the rows stay, rejected URIs, tallies and the window do not |

`getNowPlaying` and the publication of its answer are one step (only the room,
in memory, lies between). The statuses approved, queued and playing are one,
`approved`: both places that look at them treat them alike.

### Reconcile

The rest of the poller's `reconcileQueue`: when a row is pushed again, and when
it is retired. The provider's queue is read late: a track that was accepted is
`hidden` for some time. Time passes in units of about 12 s; `pumped` and
`readAge` are the poller's memory of its pushes and reads as ages. A tick keeps
the rows it read, and walks them one at a time while guests and the host change
them.

| action | code |
|---|---|
| `Request`, `Approve`, `Reject`, `FirstPush` | `QueueService`, as far as it changes a status or pushes |
| `Sample`, `ReadQueue`, `ReadQueueFails` | `tick` 415-433, 537-575 with `shouldReadQueue` |
| `Walk` with `Pump`, `Settle`, `Passes` | `reconcileQueue` 836-893, one row at a time |
| `PlayerAdvances`, `Clock`, `Restart` | the provider, the time, a new process |

`known`, `doubled`, `retired` are history variables: the rows a queue read has
shown since they were pushed, and those pushed again or marked played while such
a copy still waited.

### Snapshot, Pages, Room

**Snapshot** is the room's snapshot and its reducer `applyEvent.ts`, one
operator per event. **Pages** is what the guest page, the host page and the TV
keep, with the handlers they fold events with (not `applyEvent`), the lyrics
engine, and what pressing a button does before and after the answer. **Room** puts
them together for one session: rows, the calls that wrote a row and have not
yet announced it (`owed`), the room, the sockets' `onOpen` handlers at their
reads (`loads`), the wires, the pages, and the pages' HTTP requests.

| action | code |
|---|---|
| `RowChanges`, `Announce` | the services: a write, then the events it owes |
| `InsertItem`, `InsertClaim`, `ClaimFails` | a request that takes the mic: its row, then its claim, then what it announces; a claim's insert that throws leaves the row (`stranded`), unannounced |
| `Broadcast`, `Tick`, `LookupEnds`, `TearDown` | other events; what a tick publishes (425-476) and its lyrics lookup with the re-check |
| `OnOpen`, `LoadItems`, `Hydrate`, `HydrateFails` | `routes/realtime.ts` 88-162, cut at its two reads |
| `Drop`, `Reconnect`, `Receive`, `Leave` | `RealtimeClient` |
| `Bootstrap`, `AnswerGet`, `QueueAnswered` | the pages' GET of the list, answered late and in any order |
| `Presses`, `ServeRow`, `ServeTrack`, `Refuse`, `Answered` | the pages' buttons and `routes/queue.ts` |
| `Restart` | a new process: rows stay, rooms and sockets do not |

A `Scenario` says which pages are open and how often each cause may happen; a run
is over a set of them.

### Records, PostgresStore, MemoryStore, Repositories, MemoryRepositories

**Records** has the rows of the 22 tables, the calls of `repositories/types.ts`
and the unique keys of `packages/db/src/schema`. **PostgresStore** gives each
call as the Drizzle statement over a set of rows, and each query as the set of
answers the statement allows (an `ORDER BY` with ties allows several).
**MemoryStore** gives the same calls as the methods of the in-memory classes over
sequences of rows in the order of insertion. **Repositories** is the abstract
specification: any calls, one atomic statement at a time; **MemoryRepositories**
does the same with the Maps and states that it implements the former
(`Database == INSTANCE Repositories WITH tables <- Stored`).

Where the two differ in what production calls do see, **Repositories** says what a
caller may count on, and no more (`Outcomes`, `AnswersOf`):

- three upserts (a connection, a cached lyric, an abuse subject) with a value left
  out may keep the old value, as the Maps do, or null it, as SQL does;
- `findActiveForSession` with an empty list of statuses may answer all rows or none.

The Maps keep the votes and claims of a deleted item, which SQL deletes with
it. `Stored` is the database after the same calls, cascades included, and every answer
of the Maps is compared with the answer from `Stored`; `OfItems` restricts the
comparison, for votes and claims, to items that are there, which is
what a caller who found the item first gets to see. `CallersLookFirst` is the one
assumption that remains: the Maps refuse no key that the database would.

### Sessions, ProviderCalls

**Sessions** is a host's sessions under one slug and the guests who join them,
each handler cut at its awaits, under the database's unique indexes.

| action | code |
|---|---|
| `StartJoin`, `FindSlot`, `CountActive`, `TakePosition`, `CreateSlot`, `FindGuest`, `CreateGuest` | `issueIdentity` and its route |
| `Create` / `InsertSession`, `Reopen` / `ReopenSession`, `Update` / `UpdateSession`, `End` | `SessionService`: check, then write |
| `NextDay` | the fingerprint's salt changes with the date |

**ProviderCalls** adds every call to the music provider: the poller's, the host's
(playback, devices, approval) and the guests' searches. Each has its own copy of
the tokens; `until` is the account's cooldown, counted down.

| action | code |
|---|---|
| `Tick`, `RunAction`, `UseDevices`, `PushToProviderQueue`, `AskSearch` (`GetProvider`) | who calls, and `StreamingRouter.getProvider` |
| `Search` | `cachedSearch`: own the entry, share it, or replace an expired one |
| `Send`, `TooManyRequests` | `guardFetch` and `record` of `ProviderCooldowns`, and the notice in the room |
| `Answered`, `Unauthorized`, `Renewed`, `NotRenewed`, `UpdateTokens`, `NoActiveDevice`, `Broken` | `SpotifyClient.request`, `SpotifyProvider.resume`, and the router's callback that saves tokens |
| `StartConnect`, `Callback`, `SwitchProvider` | `routes/providerOAuth.ts` |
| `Expire`, `Clock`, `Restart` | the token's life, time, a new process |

`told` is a history variable: what is left of the longest wait that any 429
received by this process asked for; `crowd` is the largest number of joins that at
one time had each counted a free slot and not taken it yet.

All runs are listed in `PROJECT.json`; the properties and what they mean are
commented where they are defined.

| run | instance | what it shows | states |
|---|---|---|---|
| `rq_calls` | 1 row, 2 guests, 3 overlapping calls of every kind, `required` mic claims whose insert may fail, poller, host | nothing unapproved is pushed; the room, the vote ledger, claims and rows agree in every interleaving; an ended session takes only the requests it caught in flight | 2.5 M |
| `rq_rules` | 5 rows, 2 guests, 5 tracks, one call at a time, both caps and no duplicates | the admission rules are exact over request sequences with removals | 354 k |
| `k_auto` | 2 songs, 1 singer, pause mode auto, failing reads and provider calls, a poller that stops and starts, a server restart | the room shows the service's state; a pause ends while the session is polled | 984 k |
| `k_singers` | 3 items of which two share a track, 2 guests, pause mode manual | the spotlight is on the track the poller saw; the mic cap | 2.4 M |
| `pl_timers` | 2 clients, 2 ticks in flight of any length, 3 entries | one chain of ticks for each entry, gone when nobody watches | 586 k |
| `ts_skips` | plays a, b, a; 1 item; 1 call at a time; every kind of skip, failing writes, late ticks, a restart at any step | the poller skips twice for a play only in a tick that outlasts the window; one rejection costs one skip, and one for each tombstone lost; no full tally is left; a rejected track ends | 693 k |
| `rc_retry` | 2 rows on 2 tracks, one of them moderated; provider's queue of 2; a read that fails or a restart | a row is not pushed again, nor marked played, while a read has shown its copy; every approved row is retired | 1.6 M |
| `st_agree` | each table alone (the queue's three together), 4 calls, 2 names, 2 times | the Maps of the tests change as a caller may count on, and answer as the database's tables do | 259 k |
| `rm_screens` | 1 item, 2 tracks, 1 browser as guest, host or TV, in 12 scenarios | no announced request is missing after hydration, pages and room agree, lyrics stay with their track, pages settle after faults | 855 k |
| `hs_calls` | 2 sessions, 3 tabs of 2 browsers, 2 host tabs, poller, host and 2 searching guests, in 11 scenarios | no call leaves within a reported wait, one search per key, the cap is passed only by overlapping joins, the notice goes away | 348 k |

Why the bounds are enough. Most hazards need two actors on one row and the
poller; a third call is given where three steps must overlap (a vote, a
decision and a removal). Rows are never revived and no rule of `QueueService`
but the admission rules relates two rows, so one row shows the interleavings,
and the run of the admission rules has more rows than either cap. The poller's
interesting cases need one entry in the map, one dropped entry with a tick in
flight, and a fresh one. The clock of Karaoke needs one unit: a deadline that is
ahead, and one that has passed. TrackSkips needs a track that comes round again
after another one. Reconcile needs a row whose push has not surfaced beside one that
has, an approval that comes later than the grace period, and one failed read.
The stores need four calls for the longest chain in which the two could come
apart (create an item, vote, vote again, delete), and each table is compared on its
own since no statement but those of the queue's three touches two. The room's
hazards are between one row's write, its announcement and one hydration, or one
page and the room: one browser sees them, and each scenario brings two or three
causes together. ProviderCalls needs two callers that hold the same
old token or race the same window, and a third that shares a search; the cap
needs two joins that overlap and a third after them.

What the bounds leave out: two
*direct* skips in flight at once (they do skip twice: nothing guards them), and
admission rules under overlapping requests (a request reads the list, decides
and inserts in separate steps, so two requests in flight together may pass one
check; the same holds for `claim`); two browsers in one room (they share nothing
but the room); two rows in one room. The safety theorems of section 4 have no
bounds: those about the room hold for any number of browsers and rows, and those
about the caps say what calls that overlap can add.

### Disagreements with the repository's own words

The runs named `..._doc_...` each check one sentence of a doc, a comment or a
test that the code does not keep; TLC's trace is the explanation.
`PROJECT.json` (`findings`) quotes the sentence and the line.

| run | sentence | what happens |
|---|---|---|
| `k_doc_deadline` | a deadline for any karaoke pause | a stale sample clears the pause, not the player |
| `ts_doc_settle` | the settle guard holds after any skip | it holds after the poller's own skips only |

Other places where the code and its own words, or two parts of the code, differ.
They were met while modelling; the models follow the code.

Queue and poller:
- `session.ts:50` of `packages/core/src/types` speaks of a percentage of the
  guests; `QueueService.ts:479` compares the bare count of votes.
- A request takes `now` on entry (`QueueService.ts:148`) and compares `endedAt` with
  it after reading the session: one that entered before the session ended
  is admitted and inserts its row after the end.
- The comment at `QueueService.ts:80` says "request+claim atomically"; the claim is inserted
  (228) after the row (211), outside a transaction, and nothing catches its
  failure. The row then stays, without its claim, and is announced to nobody until the room
  is hydrated anew.
- `GET /queue` lists a row before `queue.item_requested` is published (237): a host
  who decides or a guest who removes it then has the event of that published first, and
  the later one shows the item as pending, with no call left to correct it.
- `NowPlayingPoller.ts:282` promises no second chain of ticks; a tick that
  outlasts the idle grace and finds a fresh entry in the map starts one beside it. No
  timeout bounds a tick.
- The settle window counts from the skip (513, 789), and a tick waits for the provider's
  queue between its sample and the late pass. One that sampled before a skip and is
  answered after the window skips again for the play that is gone.
- A tombstone whose write fails (808-831), or that a crash forestalls, leaves
  the row rejected: when its track is played again it is skipped again.
- A resume at the deadline that fails is not tried again: `reconcilePlayback` (366-369)
  clears the pause all the same. Only a failed read of the session leaves it to
  the next tick.
- A row may be marked played while its track still waits to surface in the
  provider's queue: the grace runs from the row's creation (567-570, 842), and a
  row approved later is judged at once.

Repositories (what a test on the Maps cannot show):
- an upsert of a connection, a cached lyric or an abuse subject that leaves out an
  optional value keeps the old one in memory; Drizzle writes null over it. Production
  does so: a subject blocked again without an expiry (`AbuseModerationService.ts:65`), a
  reconnect without a refresh token (`routes/providerOAuth.ts` 165-168);
- the database drops votes and claims with their item, the Maps keep them and answer with
  them where nobody looks for the item first (`routes/realtime.ts:119`);
- most keys are unique in the database only (in memory: an account's slug, a
  guest's claim on an item, a provider account's id);
- `findActiveForSession` with an empty list of statuses: the Maps find nothing
  (`in-memory/index.ts` 1219-1223), SQL leaves the filter out (`abuse-subjects.ts`
  41-48);
- rows with equal `createdAt`, and rows
  that a caller of the Maps holds and sees change.

Room and pages:
- `routes/realtime.ts:79-81` says that live events keep the snapshot in sync after
  hydration; an item removed or decided between the read and the merge enters the room
  and stays, and a played item is never taken out of the room's queue;
- a row approved again after its rejection does not come back into the room (the
  host's page fetches the list, the TV's may prefer the room's);
- the guest page keeps the tallies of tracks that left the provider's queue, the
  server drops them; it keeps the lyrics engine's state when the snapshot has
  no track; it alone adds a picked track to Up Next in advance, against its
  comment that the provider's queue is the only source;
- the list is not fetched again after a reconnect, and of two fetches the older
  answer may come last (`guest-request.page.ts` 1012-1016);
- `session.ended` is never published.

Hosts, guests and the provider:
- a guest queued at the cap is never promoted, and no slot is ever freed, though
  `docs/agent-brief.md:1433` and the slot statuses speak of both;
- joins that overlap pass the cap (`GuestIdentityService.ts:166-175`), two joins of one
  browser at the same time leave one with an error of the unique index, and after
  midnight a browser takes a second slot;
- `client.ts` says that concurrent callers share a single refresh; the router
  builds a client per call, so they never do, and each rotation may invalidate
  the other's refresh token;
- a renewal that is saved late overwrites the tokens of a reconnect; a restart
  between renewal and save leaves a dead refresh token in the row;
- a renewal that the cooldown refuses is reported as invalid credentials;
- a tick that was let through before a 429 of another call, and is answered after it, publishes
  that the limit is over (comment at `NowPlayingPoller.ts:434`) while the window is open.

### Fairness

- RequestQueue: weak fairness of each call's next step: a pending promise
  settles. Nothing makes clients issue calls.
- Karaoke: weak fairness of the tick, which reschedules itself while the session
  is polled, of time and of calls in flight. Nothing starts a poller that stopped, so
  `PauseEnds` speaks of a session that stays polled. Strong fairness of the tick's
  handling of the deadline: a tick past it reads the session row first, and that read succeeds
  some day; what the provider then answers is left open.
- PollerLifecycle: weak fairness of a tick's steps, of timers, and of a closed
  socket's handler. No fairness of clients or the host.
- Reconcile: weak fairness of the poller's steps and of the player (tracks end);
  strong fairness of time, which here passes only between two ticks. No fairness
  of requests, decisions or pushes.
- Room: weak fairness of the handlers that read the database, of requests and
  their answers, of the client's timers and dials, and of the wires. No fairness
  of users, ticks or lookups.
- ProviderCalls: weak fairness of time and of the poller: its timer fires and
  the provider answers it. Nothing makes other callers' calls end.
- TrackSkips: weak fairness of the tick, of calls in flight, of the player's
  report and of time; strong fairness of an accepted early skip: asked at every
  tick, the provider accepts one of them. A track that ends by itself is not
  assumed to, nor a restart; after one the rejected URIs are forgotten, which
  `RejectedTrackEnds` excepts. The poller's entry stays: somebody watches.

## 4. What is proved

Checked by TLAPS for every value of the constants allowed by each module's
`ConstantsAssumption`.

**RequestQueueProofs**, for any number of guests, tracks, rows and overlapping
calls: `TypeCorrect`, `NoUnapprovedPushHolds`, `NoOrphansHolds`,
`VotedOutIsDecidedHolds`, `PendingRowsShownHolds`, `RoomViewSoundHolds`,
`VoteLedgerHolds`, `DrainedSessionGrowsNoMoreHolds`. None of these is inductive alone,
because what a step does depends on locals an earlier step stored. `LocalsOK`
says what each local may hold at each step; `RowsEvolve` is the one lemma all others use: how rows,
decided statuses and the history `approved` may change in a step. Each property
then gets its own strengthening that relates the locals of a call between two
steps to the tables (`Approvals`, `Settled`, `RoomViews`, `Admitted`).
`RoomViews` follows a request from its insert on: what its announcement
will show is already backed by the row, or by a call that has still to publish; the only
items it leaves out are the `overtaken` ones. `DrainedSessionGrowsNoMore` has two halves:
a request that enters after the end reads an ended session (`NoneJoins`), and only a request
that read an open one adds a row (`GrowsByRequest`, from `Admitted`).

The caps and the duplicate rule are read, decided and written in separate steps,
and the code has no lock: they are exact only when requests do not overlap.
`CapOverrunIsBounded` and `DuplicatesAreBounded` say so for any number of calls:
overlap costs at most one song, or one copy of a track, for each further call in
flight. `CapCounted` counts a call that has passed the check and not inserted
yet (`Cleared`) as a song already held. From them follow, for one call at a
time, `SongsPerGuestCapHoldsAlone` and `NoDuplicateRequestAlone`, the properties
of run `rq_rules`. Two things beside requests put rows back into the active
list, a host who approves a rejected row and a poller that writes `playing` over a
rejection; `NothingReopens` excludes them from these four theorems, and nothing
else. `ConsecutiveCapKeptAlone` needs one call at a time and no tick of the
poller: an item that starts to play between the check and the insert closes the
gap between two runs of one guest, which the code does not look for again.

**KaraokeProofs**: `TypeCorrect`; `RoomAgreesHolds` if guests may not pause
(`PauseMode # "manual"`): the strengthening `TickOwnsSpotlight` says that only
the tick moves the spotlight, so what it announces after an `await` is still
what the service holds; with manual pauses it is false: a
pause announced after the spotlight moved names the old item.
`SpotlightFollowsHolds` in every pause mode, if the database answers and
neither the poller nor the process starts anew: the strengthening `Looking` says between which steps
of a tick the spotlight may be about an earlier track; without the assumptions
it is false (a fresh poller entry that sees nothing playing clears nothing).
`MicOverrunIsBounded`: claims that overlap pass the number of mics by at most
their number less one (`MicsCounted`: a call between its count and its insert is
a singer already), and `MicCapHoldsAlone`: with one call at a time the cap is
exact.

**PollerLifecycleProofs**: `TypeCorrect`, `NoOrphanTimerHolds`,
`PolledWhileWatchedHolds` and `OneChainHolds`, for any number of clients, entries and
ticks, however long these run. `TicksKnown` says that a tick's entry is a real
one. `OneChain` speaks of the entry in the map, unless a tick that outlived its
own entry has set a timer on it (`forked`, which is how the second chain of
section 3 starts); its strengthening `TickMarksEntry` says that a tick of that entry has
it marked as ticking, so that `start` sets no second timer.

**TrackSkipsProofs**, for any program of plays, any items and any number of
overlapping calls, direct skips included (the run has one call at a time):
`TypeCorrect`, `PollerSkipsOnceHolds`, `RejectionSpentOnceHolds`,
`FullTalliesActHolds`. `SkipsSettled` orders the poller's skips: while its
window is open every play it skipped for lies before the play the last skip
began; once the window has closed they lie before what the player reports and
before what a tick in progress sampled, unless that tick is late. It rests on the
player's report settling within the window, and on nothing about ticks.
`SpentRejections` says that a row whose rejection was acted on is no longer
rejected, except between the skip and its tombstone; a tombstone that fails or is
lost with the process takes the row out of `spent`, so that the theorem
allows one more skip for each.

**ReconcileProofs**, for any rows, tracks, lengths of lag, grace and refresh:
`TypeCorrect`, `PumpRespectsReadsHolds`, `KnownKeepsItsTurnHolds`. The
strengthening `Remembered` says that what the room shows of the provider's queue
contains every row that a read has shown and that still waits, that such a row
has surfaced for good, and that the queue a walking tick works on is what the room
shows; a failed read keeps it true because it leaves the last answer in place.

**ProviderCallsProofs**, for any callers, queries, tabs, sessions and scenarios:
`OvershootIsTheOverlapHolds` (`CapInv` says that active slots and the joins
admitted to one stay together within the largest cap the session has had plus
the overlap, less one),
`CallsRespectWindowsHolds` (the wait told is never longer than the window kept),
and `OneSearchPerKeyHolds` (a search within its entry's life owns the entry, and
the entry lives at least as long).

**RoomProofs**, for any number of browsers of every kind, items, tracks and guests,
any events from the rest of the server (`OtherEvent`), and any number of row
changes, ticks, presses, drops and restarts:

- `RoomTypeCorrect`: types, and `Alive`: a room exists while the session is
  hydrated, or a handler or a socket is there, and a subscribed socket is live.
  It rests on what each event does to a snapshot (`ApplyEventFollows`) and each
  frame to a page (`FrameKeepsPage`).
- `HydrationMissesNothing` (`NothingMissing`), for any number of handlers that
  hydrate at the same time. It leaves out rows whose request failed at its claim
  (`stranded`): nothing announces those until a room is hydrated anew. Neither does it
  speak of rows approved again (`reopened`). Its strengthening: `OwedLate`, a rejection or a removal
  whose announcement is still on its way finds its row decided; `ReadsCover`,
  what the room misses while a handler is between its two reads, that handler
  has read as waiting or playing; `Complete`, a hydrated room misses nothing.
- `LyricsStayWithTheirTrack` (`LyricsAreOfTheTrack`). `LyricsBound` says that
  the room, every frame on a wire and every page bind lyrics to their own track.
- `PagesStayInStep` (`InStep`), which is inductive with the types: an event does
  to a page what it does to the room (`EventInStep`, kind by kind), a snapshot
  brings any page to the room (`SnapshotInStep`), and what a page shows after its
  whole wire depends only on what it mirrors now (`HeardAgrees`), so a press or
  a late answer changes nothing.

Wires, lists of events and the lists of the snapshot are sequences of any length.
What follows from folding over one is proved with a path of intermediate
values (`HeardPath`, `AppliedPath`, `AtPath`) and induction over its places.
That induction is not the library's, which takes an operator: `NatSetInduction`
states it for a set of numbers and is proved from the least element of a
finite set. In `RoomAssumption` the items are numbered from 1 in order of
creation, the order in which hydration reads them.

**MemoryRepositoriesProofs**, for any number of calls, any names and addresses, any
way in which `lower()` identifies addresses, and any clock:

- `MapsImplementTheDatabase` (`ImplementsDatabase`). The refinement is by table:
  one lemma `XStep` for each says that a method leaves in the Map the rows that
  the SQL statement leaves in the table. `Map.set` on a known key, a search for
  the first match and a loop with `delete` work on places of a list, a statement
  on a set of rows; they come to the same only if no two rows share a unique
  key, since otherwise a method that stops at the first match changes one row
  where the statement changes two. That, types, and the bounds of the counters
  are the inductive invariant `MapsInv`. The three tables of the queue go together:
  the database drops votes and claims with their item, a Map keeps them, and
  `Stored` forgets them; `ItemsStep` shows that ids are never used again, so
  that no row comes back. An upsert with a value left out takes the other branch of
  `Outcomes`.
- `MapsAnswerAsTheDatabase` (`AnswersAgree`), against the tables that the statements and
  their cascades left. One lemma `XAgree` for each table; `VotesAnswered` and `ClaimsAnswered`
  show that what is left of a Map's answer about an item that is there is the
  answer from `Stored`.
  Behind them: a filter lists the rows that match, each once (`FilteredRows`),
  `find` gives one of them or null (`FoundRow`), and `sort` by a time gives one
  of the orders that `ORDER BY` allows (`SortedRows`). All three rest on
  `InOrderArranges`: the definition of `InOrder`, which numbers each place by how
  many come before it, is a bijection that keeps the order.

Both keep the guard of `Call` that callers look before they create, and name
items that there are: the Maps refuse no duplicate key that the database would.

The assumptions are those named in the modules (`ConstantsAssumption`,
`SessionsAssumption`, `ProviderCallsAssumption`, `StoreAssumption`): types and finiteness of the
constants, which TLC evaluates in the runs.

Only model-checked: liveness (`PauseEnds`, `UnwatchedStops`,
`RejectedTrackEnds`, `ApprovedEnds`, `Converges`, `BannerClears`), which is
beyond TLAPS, as ENABLED is; and the two `doc_` runs, whose
properties are false.

## 5. Not modelled

- Host sign-in by password and by OAuth, switching accounts, abuse moderation:
  their tables and calls are in the stores, their services are not modelled.
- Clock interpolation, cue windows, the LRC parser and the search for the
  current line: arithmetic on milliseconds and text, without state.
- Pages: dashboards, login, settings, search boxes, karaoke buttons, messages
  and their timers. `canSkip`: no caller.
- Sessions: slugs (one is enough for the check-then-insert), heartbeats (nothing
  reads them), the priority branch of `issueIdentity` (nothing writes its rows),
  audit rows.
- Provider calls: the vendor's JSON, volume, the growth of the poller's delay
  beyond its first doubling, the capacity of the search cache (500), failures of
  the database other than of saving a token.
- The rate limit an approval or an auto-approved request checks first
  (`assertProviderNotRateLimited`) is compared with the time of its check in the model, with the
  time of the call's entry in the code.
- The Apple Music and Soundtrack stubs, migrations, app shell, agent tools.

## 6. Plan

Done: QueueRules, RequestQueue, Karaoke, PollerLifecycle, TrackSkips, Reconcile,
the stores, Room with its pages, Sessions, ProviderCalls; theorems about all of
them.

Next, in this order:

1. **HostAuth**: lockout, one-time tokens, OAuth states, and what switching
   accounts does to claims.
2. **TrackSkips, two direct calls** that overlap: which tallies a call clears
   that another one filled, and what two skips end.
3. **Clock** and the LRC parser against reference definitions.
