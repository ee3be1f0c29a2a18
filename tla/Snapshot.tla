------------------------------ MODULE Snapshot ------------------------------
(***************************************************************************)
(* The session snapshot and its reducer applyEvent                         *)
(* (packages/realtime/src/applyEvent.ts, types/).                          *)
(*                                                                         *)
(* A track, its clock sample and its lyrics document are named by the      *)
(* track; None is null.  Wording, artwork, positions and times are left    *)
(* out, and so is activeLyricsWindow, which the server never fills.        *)
(***************************************************************************)
EXTENDS Integers, Sequences, SequencesExt

CONSTANTS
    Items, Guests, Tracks, None,
    RecentlyPlayedMax        \* RECENTLY_PLAYED_MAX

ASSUME RecentlyPlayedAssumption == RecentlyPlayedMax \in Nat \ {0}

Maybe(S) == S \cup {None}

QueueItemSummary ==
    [id: Items, status: {"pending", "approved", "queued", "playing", "played",
                           "rejected"},
     skipVotes: Nat, karaokeClaims: Seq(Guests)]

SessionEvent ==
    [type: {"queue.item_requested"}, item: QueueItemSummary]
    \cup [type: {"queue.item_approved", "queue.item_rejected",
                 "queue.item_removed", "karaoke.paused", "karaoke.resumed"}, itemId: Items]
    \cup [type: {"now_playing.updated"}, track: Maybe(Tracks)]
    \cup [type: {"skip_vote.updated"}, itemId: Items, votes: Nat]
    \cup [type: {"now_playing_skip_vote.updated",
                 "provider_queue_skip_vote.updated"}, trackUri: Tracks, count: Nat]
    \cup [type: {"provider_queue.updated"}, tracks: Seq(Tracks)]
    \cup [type: {"karaoke.claim_added", "karaoke.claim_removed"},
          itemId: Items, guestId: Guests]
    \cup [type: {"karaoke.spotlight"}, itemId: Maybe(Items), claims: Seq(Guests)]
    \cup [type: {"provider.status_updated"}, status: {"ok", "rate_limited"}]
    \cup [type: {"guest_slots.updated"}, activeCount: Nat, queuedCount: Nat]
    \cup [type: {"playback.clock_sampled"}, trackUri: Tracks]
    \cup [type: {"lyrics.loaded"}, trackUri: Tracks, lyrics: Maybe(Tracks)]
    \cup [type: {"playback.corrected", "lyrics.feedback_recorded",
                 "sync.cue_window_updated", "session.ended",
                 "session.settings_updated"}]

SkipTally == [trackUri: Tracks, count: Nat]

KaraokeSnapshotState == [spotlightItemId: Maybe(Items), paused: BOOLEAN]

\* providerQueueSkipVotes holds 0 for a track without an entry.
SessionSnapshot ==
    [nowPlaying: Maybe(Tracks), recentlyPlayed: Seq(Tracks),
     playbackClock: Maybe(Tracks), lyrics: Maybe(Tracks),
     queue: Seq(QueueItemSummary), pending: Seq(QueueItemSummary),
     providerQueue: Seq(Tracks), nowPlayingSkipVote: Maybe(SkipTally),
     providerQueueSkipVotes: [Tracks -> Nat],
     activeGuestCount: Nat, queuedGuestCount: Nat,
     karaoke: KaraokeSnapshotState, providerStatus: {"ok", "rate_limited"}]

CreateEmptyKaraokeState == [spotlightItemId |-> None, paused |-> FALSE]

CreateEmptySnapshot ==
    [nowPlaying |-> None, recentlyPlayed |-> <<>>, playbackClock |-> None,
     lyrics |-> None, queue |-> <<>>, pending |-> <<>>, providerQueue |-> <<>>,
     nowPlayingSkipVote |-> None, providerQueueSkipVotes |-> [t \in Tracks |-> 0],
     activeGuestCount |-> 0, queuedGuestCount |-> 0,
     karaoke |-> CreateEmptyKaraokeState, providerStatus |-> "ok"]

-----------------------------------------------------------------------------
(* Lists of summaries.                                                     *)

\* filter: the elements of `list' at `places', in order.
At(list, places) ==
    LET kept[n \in 0..Len(list)] ==
            IF n = 0 THEN <<>>
            ELSE IF n \in places THEN Append(kept[n - 1], list[n]) ELSE kept[n - 1]
    IN  kept[Len(list)]

Holds(list, id) == \E k \in DOMAIN list : list[k].id = id

\* findIndex.
IndexOfId(list, id) ==
    CHOOSE k \in DOMAIN list :
        list[k].id = id /\ \A j \in 1..(k - 1) : list[j].id # id

Without(list, id) == At(list, {k \in DOMAIN list : list[k].id # id})

WithoutFirst(list, id) ==
    IF Holds(list, id) THEN RemoveAt(list, IndexOfId(list, id)) ELSE list

\* updateItemById: `new' replaces the item of that id, looked for in pending
\* before queue; an unknown id changes nothing.
UpdateItemById(s, id, new(_)) ==
    IF Holds(s.pending, id)
    THEN [s EXCEPT !.pending[IndexOfId(s.pending, id)] = new(@)]
    ELSE IF Holds(s.queue, id)
         THEN [s EXCEPT !.queue[IndexOfId(s.queue, id)] = new(@)]
         ELSE s

-----------------------------------------------------------------------------
(* One operator per event that changes the snapshot.                       *)

ItemRequested(s, e) == [s EXCEPT !.pending = Append(@, e.item)]

ItemApproved(s, e) ==
    IF Holds(s.pending, e.itemId)
    THEN LET k == IndexOfId(s.pending, e.itemId)
             moved == [s.pending[k] EXCEPT !.status = "approved"]
         IN  [s EXCEPT !.pending = RemoveAt(@, k), !.queue = Append(@, moved)]
    ELSE UpdateItemById(s, e.itemId, LAMBDA x : [x EXCEPT !.status = "approved"])

ItemRejected(s, e) ==
    IF Holds(s.pending, e.itemId)
    THEN [s EXCEPT !.pending = WithoutFirst(@, e.itemId)]
    ELSE [s EXCEPT !.queue = WithoutFirst(@, e.itemId)]

ItemRemoved(s, e) ==
    [s EXCEPT !.queue = Without(@, e.itemId), !.pending = Without(@, e.itemId)]

\* A change of track enters the old one in recentlyPlayed and drops what was
\* bound to it: the tally of skip votes and the lyrics.
NowPlayingUpdated(s, e) ==
    LET prev == s.nowPlaying
        trackChanged == prev # e.track
        entered == trackChanged /\ prev # None
                   /\ (s.recentlyPlayed = <<>> \/ Head(s.recentlyPlayed) # prev)
        kept == Min({Len(s.recentlyPlayed), RecentlyPlayedMax - 1})
        history == IF entered THEN <<prev>> \o SubSeq(s.recentlyPlayed, 1, kept)
                   ELSE s.recentlyPlayed
    IN  [s EXCEPT !.nowPlaying = e.track,
                  !.recentlyPlayed = history,
                  !.nowPlayingSkipVote = IF trackChanged THEN None ELSE @,
                  !.lyrics = IF trackChanged THEN None ELSE @]

NowPlayingSkipVoteUpdated(s, e) ==
    [s EXCEPT !.nowPlayingSkipVote = [trackUri |-> e.trackUri, count |-> e.count]]

SkipVoteUpdated(s, e) ==
    IF Holds(s.queue, e.itemId)
    THEN [s EXCEPT !.queue[IndexOfId(s.queue, e.itemId)].skipVotes = e.votes]
    ELSE s

\* Tallies of tracks that left the provider's queue are dropped.
ProviderQueueUpdated(s, e) ==
    [s EXCEPT !.providerQueue = e.tracks,
              !.providerQueueSkipVotes =
                  [t \in Tracks |-> IF t \in ToSet(e.tracks) THEN @[t] ELSE 0]]

ProviderQueueSkipVoteUpdated(s, e) ==
    [s EXCEPT !.providerQueueSkipVotes[e.trackUri] = e.count]

NotOf(claims, g) == At(claims, {k \in DOMAIN claims : claims[k] # g})

ClaimAdded(s, e) ==
    UpdateItemById(s, e.itemId,
        LAMBDA x : [x EXCEPT !.karaokeClaims = Append(NotOf(@, e.guestId), e.guestId)])

ClaimRemoved(s, e) ==
    UpdateItemById(s, e.itemId,
        LAMBDA x : [x EXCEPT !.karaokeClaims = NotOf(@, e.guestId)])

\* A pause belongs to its spotlight; the event also brings the singers.
SpotlightMoved(s, e) ==
    LET next == IF e.itemId = None THEN s
                ELSE UpdateItemById(s, e.itemId,
                         LAMBDA x : [x EXCEPT !.karaokeClaims = e.claims])
        same == s.karaoke.spotlightItemId = e.itemId
    IN  [next EXCEPT !.karaoke = [spotlightItemId |-> e.itemId,
                                  paused |-> same /\ s.karaoke.paused]]

KaraokePaused(s, e) ==
    [s EXCEPT !.karaoke = [spotlightItemId |-> e.itemId, paused |-> TRUE]]

KaraokeResumed(s, e) == [s EXCEPT !.karaoke.paused = FALSE]

GuestSlotsUpdated(s, e) ==
    [s EXCEPT !.activeGuestCount = e.activeCount, !.queuedGuestCount = e.queuedCount]

ProviderStatusUpdated(s, e) == [s EXCEPT !.providerStatus = e.status]

ApplyEvent(s, e) ==
    CASE e.type = "queue.item_requested" -> ItemRequested(s, e)
      [] e.type = "queue.item_approved" -> ItemApproved(s, e)
      [] e.type = "queue.item_rejected" -> ItemRejected(s, e)
      [] e.type = "queue.item_removed" -> ItemRemoved(s, e)
      [] e.type = "now_playing.updated" -> NowPlayingUpdated(s, e)
      [] e.type = "now_playing_skip_vote.updated" -> NowPlayingSkipVoteUpdated(s, e)
      [] e.type = "skip_vote.updated" -> SkipVoteUpdated(s, e)
      [] e.type = "provider_queue.updated" -> ProviderQueueUpdated(s, e)
      [] e.type = "provider_queue_skip_vote.updated" -> ProviderQueueSkipVoteUpdated(s, e)
      [] e.type = "karaoke.claim_added" -> ClaimAdded(s, e)
      [] e.type = "karaoke.claim_removed" -> ClaimRemoved(s, e)
      [] e.type = "karaoke.spotlight" -> SpotlightMoved(s, e)
      [] e.type = "karaoke.paused" -> KaraokePaused(s, e)
      [] e.type = "karaoke.resumed" -> KaraokeResumed(s, e)
      [] e.type = "guest_slots.updated" -> GuestSlotsUpdated(s, e)
      [] e.type = "provider.status_updated" -> ProviderStatusUpdated(s, e)
      [] e.type = "playback.clock_sampled" -> [s EXCEPT !.playbackClock = e.trackUri]
      [] e.type = "lyrics.loaded" -> [s EXCEPT !.lyrics = e.lyrics]
      [] OTHER -> s

\* The snapshot once these events have been published, one after the other.
Applied(s, events) ==
    LET after[n \in 0..Len(events)] ==
            IF n = 0 THEN s ELSE ApplyEvent(after[n - 1], events[n])
    IN  after[Len(events)]
=============================================================================
