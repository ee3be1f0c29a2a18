------------------------------- MODULE Pages -------------------------------
(***************************************************************************)
(* What the three live pages keep of the room, and how a frame changes it: *)
(*   guest  frontend-template/.../guest-request.page.ts                    *)
(*   host   frontend-template/.../host/host-session.page.ts                *)
(*   tv     frontend-template/.../tv.page.ts                               *)
(* with the LyricsEngine of guest and tv (packages/frontend/src/lyrics).   *)
(* A page folds events with handlers of its own, not with applyEvent.      *)
(***************************************************************************)
EXTENDS Snapshot

\* One record for the three kinds; a kind leaves the fields of the others
\* alone.  `queue' is the answer of GET /queue, a status per item.
\* `added' is no state of the page: it counts the tracks that the page itself
\* put at the end of providerQueue.
EmptyPage ==
    [nowPlaying |-> None, recentlyPlayed |-> <<>>, providerQueue |-> <<>>,
     added |-> 0, nowPlayingSkipVote |-> None,
     providerSkipVotes |-> [t \in Tracks |-> 0],
     votedNowPlayingUris |-> {}, votedProviderUris |-> {},
     removedUris |-> {}, queue |-> [i \in Items |-> "none"],
     activeGuestCount |-> 0, sample |-> None, lyricsByUri |-> None]

OpenStatuses == {"approved", "queued", "playing"}

\* visibleQueue of the guest, upcoming of the tv.
VisibleQueue(queue) ==
    [i \in Items |-> IF queue[i] \in OpenStatuses THEN queue[i] ELSE "none"]

-----------------------------------------------------------------------------
(* LyricsEngine: the clock sample it runs on, and a document bound to a    *)
(* track, or None while the document is not known.                         *)

EngineSnapshot(p, s) ==
    [p EXCEPT !.sample = IF s.playbackClock # None THEN s.playbackClock ELSE @,
              !.lyricsByUri = IF s.nowPlaying # None
                              THEN [uri |-> s.nowPlaying, doc |-> s.lyrics] ELSE @]

EngineClock(p, e) ==
    LET stale == /\ p.sample # None /\ p.sample # e.trackUri
                 /\ p.lyricsByUri # None /\ p.lyricsByUri.uri # e.trackUri
    IN  [p EXCEPT !.sample = e.trackUri,
                  !.lyricsByUri = IF stale THEN None ELSE @]

EngineLyrics(p, e) ==
    IF p.sample \in {None, e.trackUri}
    THEN [p EXCEPT !.lyricsByUri = [uri |-> e.trackUri, doc |-> e.lyrics]]
    ELSE p

EngineEvent(p, e) ==
    CASE e.type = "playback.clock_sampled" -> EngineClock(p, e)
      [] e.type = "lyrics.loaded" -> EngineLyrics(p, e)
      [] e.type = "now_playing.updated" /\ e.track = None ->
            [p EXCEPT !.sample = None, !.lyricsByUri = None]
      [] OTHER -> p

\* computeState: the document on the screen, None in modes loading and none.
ShownLyrics(p) ==
    IF p.sample # None /\ p.lyricsByUri # None /\ p.lyricsByUri.uri = p.sample
    THEN p.lyricsByUri.doc ELSE None

-----------------------------------------------------------------------------
(* onSnapshot.                                                             *)

Seeded(p, s) ==
    [p EXCEPT !.nowPlaying = s.nowPlaying,
              !.providerQueue = s.providerQueue, !.added = 0]

GuestSnapshot(p, s) ==
    EngineSnapshot([Seeded(p, s) EXCEPT
                       !.recentlyPlayed = s.recentlyPlayed,
                       !.nowPlayingSkipVote = s.nowPlayingSkipVote,
                       !.providerSkipVotes = s.providerQueueSkipVotes], s)

HostSnapshot(p, s) == [Seeded(p, s) EXCEPT !.recentlyPlayed = s.recentlyPlayed]

\* The tv alone takes its list from the snapshot.
TvSnapshot(p, s) ==
    EngineSnapshot([Seeded(p, s) EXCEPT
                       !.queue = [i \in Items |-> IF Holds(s.queue, i)
                                                  THEN s.queue[IndexOfId(s.queue, i)].status
                                                  ELSE "none"],
                       !.activeGuestCount = s.activeGuestCount], s)

OnSnapshot(kind, p, s) ==
    CASE kind = "guest" -> GuestSnapshot(p, s)
      [] kind = "host" -> HostSnapshot(p, s)
      [] kind = "tv" -> TvSnapshot(p, s)

-----------------------------------------------------------------------------
(* The event listeners.                                                    *)

\* Faulty variant: the tally of the last track stays.
GuestNowPlayingKeepsTally(p, e) ==
    IF p.nowPlaying # e.track
    THEN [p EXCEPT !.nowPlaying = e.track, !.votedNowPlayingUris = {}]
    ELSE p

\* A change of track forgets the guest's own vote and the tally.
GuestNowPlaying(p, e) ==
    IF p.nowPlaying # e.track
    THEN [p EXCEPT !.nowPlaying = e.track, !.votedNowPlayingUris = {},
                   !.nowPlayingSkipVote = None]
    ELSE p

\* The tallies of tracks that left stay, the guest's own votes do not.
GuestProviderQueue(p, e) ==
    [p EXCEPT !.providerQueue = e.tracks, !.added = 0,
              !.votedProviderUris = @ \cap ToSet(e.tracks)]

GuestEvent(p, e) ==
    CASE e.type = "now_playing.updated" -> GuestNowPlaying(p, e)
      [] e.type = "now_playing_skip_vote.updated" ->
            [p EXCEPT !.nowPlayingSkipVote = [trackUri |-> e.trackUri, count |-> e.count]]
      [] e.type = "provider_queue.updated" -> GuestProviderQueue(p, e)
      [] e.type = "provider_queue_skip_vote.updated" ->
            [p EXCEPT !.providerSkipVotes[e.trackUri] = e.count]
      [] OTHER -> p

\* Rows hidden by the host come back once the provider has dropped them.
HostProviderQueue(p, e) ==
    [p EXCEPT !.providerQueue = e.tracks, !.removedUris = @ \cap ToSet(e.tracks)]

HostEvent(p, e) ==
    CASE e.type = "now_playing.updated" -> [p EXCEPT !.nowPlaying = e.track]
      [] e.type = "provider_queue.updated" -> HostProviderQueue(p, e)
      [] OTHER -> p

TvEvent(p, e) ==
    CASE e.type = "now_playing.updated" -> [p EXCEPT !.nowPlaying = e.track]
      [] e.type = "provider_queue.updated" -> [p EXCEPT !.providerQueue = e.tracks]
      [] e.type = "guest_slots.updated" -> [p EXCEPT !.activeGuestCount = e.activeCount]
      [] OTHER -> p

OnEvent(kind, p, e) ==
    CASE kind = "guest" -> GuestEvent(EngineEvent(p, e), e)
      [] kind = "host" -> HostEvent(p, e)
      [] kind = "tv" -> TvEvent(EngineEvent(p, e), e)

\* RealtimeClient.handleMessage: a snapshot frame goes to other listeners than
\* an event.
HandleMessage(kind, p, frame) ==
    IF frame.type = "_snapshot" THEN OnSnapshot(kind, p, frame.snapshot)
    ELSE OnEvent(kind, p, frame)

\* What the page shows once these frames have arrived.
Heard(kind, p, frames) ==
    LET after[n \in 0..Len(frames)] ==
            IF n = 0 THEN p ELSE HandleMessage(kind, after[n - 1], frames[n])
    IN  after[Len(frames)]

\* The events on which a page asks for GET /queue again.
RefreshesQueue(kind, frame) ==
    \/ frame.type \in {"queue.item_requested", "queue.item_approved",
                       "queue.item_rejected", "queue.item_removed"}
    \/ kind # "tv" /\ frame.type = "skip_vote.updated"

\* refreshQueue: the answer replaces the list.
QueueArrives(kind, p, list) ==
    [p EXCEPT !.queue = IF kind = "tv" THEN VisibleQueue(list) ELSE list]

\* The first answer a page waits for: the list, and for the tv (tvSnapshot)
\* what the room holds of the player and the guests.
Bootstrapped(kind, p, answer) ==
    IF kind = "tv"
    THEN [p EXCEPT !.queue = answer.queue, !.nowPlaying = answer.nowPlaying,
                   !.activeGuestCount = answer.activeGuestCount]
    ELSE QueueArrives(kind, p, answer.queue)

-----------------------------------------------------------------------------
(* What the user does, before and after the call it makes.                 *)

\* onPick: the new item joins the list, and Up Next unless the host moderates.
Picked(p, i, track, moderated) ==
    LET listed == [p EXCEPT !.queue[i] = IF moderated THEN "pending" ELSE "approved"]
    IN  IF moderated \/ track \in ToSet(p.providerQueue) THEN listed
        ELSE [listed EXCEPT !.providerQueue = Append(@, track),
                            !.added = @ + 1]

\* onRemoveOwn.
RemovedOwn(p, i) == [p EXCEPT !.queue[i] = "none"]

\* onVoteSkipNowPlaying, with the track shown when the guest pressed.
VotedNow(p, track) ==
    [p EXCEPT !.votedNowPlayingUris = @ \cup {track}]

\* onVoteSkipProvider.
VotedProvider(p, track) == [p EXCEPT !.votedProviderUris = @ \cup {track}]

\* onRemoveRow hides the row at once, and shows it again if the call fails.
Hidden(p, track) == [p EXCEPT !.removedUris = @ \cup {track}]

Restored(p, track) == [p EXCEPT !.removedUris = @ \ {track}]

\* mergedQueue: what the host sees next.
UpNext(p) == SelectSeq(p.providerQueue, LAMBDA t : t \notin p.removedUris)
=============================================================================
