------------------------------- MODULE MCRoom -------------------------------
(* One item, two tracks, one browser with any of the pages.                *)
EXTENDS Room

CONSTANTS song1, song2, guest1, viewer1

OneTrack == [i \in Items |-> song1]

\* Other guests' votes, the provider's queue, and the other slices.
Vote == [type |-> "now_playing_skip_vote.updated", trackUri |-> song1, count |-> 2]
TrackVote == [type |-> "provider_queue_skip_vote.updated", trackUri |-> song2, count |-> 1]
UpNextIs(tracks) == [type |-> "provider_queue.updated", tracks |-> tracks]
Slots == [type |-> "guest_slots.updated", activeCount |-> 1, queuedCount |-> 0]
Singing ==
    { [type |-> "karaoke.spotlight", itemId |-> 1, claims |-> <<guest1>>],
      [type |-> "karaoke.paused", itemId |-> 1],
      [type |-> "karaoke.resumed", itemId |-> 1] }
Limited == [type |-> "provider.status_updated", status |-> "rate_limited"]
Edited == [type |-> "session.settings_updated"]

Evening(k, m, r, t, p, f, events) ==
    [kind |-> [v \in Viewers |-> k], moderated |-> m,
     left |-> [row |-> r, tick |-> t, press |-> p, fault |-> f], others |-> events]

\* Rows that change beside a hydration; a track that changes beside votes,
\* lookups and lost connections; what users press.
Evenings ==
    { Evening("tv", FALSE, 3, 0, 0, 0, {}), Evening("tv", TRUE, 2, 0, 0, 1, {}),
      Evening("guest", FALSE, 0, 3, 0, 0, {Vote}),
      Evening("guest", FALSE, 0, 2, 0, 1, {Vote}),
      Evening("tv", FALSE, 0, 2, 0, 1, {}), Evening("tv", FALSE, 0, 1, 0, 1, {Slots, Limited}),
      Evening("guest", FALSE, 1, 0, 1, 0, {UpNextIs(<<song2>>)}),
      Evening("guest", FALSE, 0, 1, 1, 0, {UpNextIs(<<song2>>)}),
      Evening("guest", FALSE, 0, 0, 1, 0, {TrackVote, UpNextIs(<<song2>>)}),
      Evening("host", FALSE, 1, 1, 1, 0, {UpNextIs(<<song2>>)}),
      Evening("host", TRUE, 1, 0, 1, 0, {Edited}),
      Evening("host", TRUE, 1, 0, 0, 1, Singing) }
=============================================================================
