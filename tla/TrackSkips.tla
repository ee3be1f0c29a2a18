---------------------------- MODULE TrackSkips ----------------------------
(***************************************************************************)
(* Who skips what: the skip paths of QueueService                          *)
(* (packages/backend/src/queue/QueueService.ts) and of the poller's tick   *)
(* (packages/backend/src/realtime/NowPlayingPoller.ts), against a player   *)
(* whose reports lag behind its skips.                                     *)
(*                                                                         *)
(* The player goes through Program; a play is a position in it, so that    *)
(* two plays of one track differ.  The code sees tracks only.  A skip ends *)
(* whatever plays when it arrives; `cuts' remembers which play it was      *)
(* meant for.  The poller keeps its entry throughout; the process may die. *)
(***************************************************************************)
EXTENDS Integers, Sequences, FiniteSets

CONSTANTS
    Program,          \* what the host's player plays, in order
    Ending,           \* the plays that may end without a skip
    Tracks, NoTrack,
    Items, TrackOf,   \* queue rows and their tracks
    NoItem,
    Guests, NoGuest,
    Calls,            \* calls in flight at once
    Threshold,        \* session.voteSkipThreshold
    VoteSkipMode,     \* session.voteSkipMode
    Operations        \* what is asked for in this instance

ASSUME ConstantsAssumption ==
    /\ Program \in Seq(Tracks) /\ NoTrack \notin Tracks
    /\ Ending \subseteq DOMAIN Program
    /\ TrackOf \in [Items -> Tracks]
    /\ NoGuest \notin Guests /\ NoItem \notin Items
    /\ Threshold \in Nat \ {0}
    /\ VoteSkipMode \in {"fixed", "percentage", "host_approval"}

Plays == DOMAIN Program
Nothing == Len(Program) + 1          \* the player has reached the end
Closed == 0

TrackAt(p) == IF p \in Plays THEN Program[p] ELSE NoTrack

VARIABLES
    play,       \* what the player plays
    reported,   \* what its now-playing endpoint answers
    shown,      \* the play behind the room snapshot's nowPlaying
    window,     \* Closed, or the play begun by the poller's last skip while
                \* that skip is younger than SKIP_SETTLE_MS
    rows,       \* queue_items: item -> status
    rejected,   \* rejectedProviderUris
    nowVotes,   \* nowPlayingVotes: [track, voters]
    uriVotes,   \* providerQueueVotes: track -> voters
    tick,       \* the tick in progress: its next step and locals
    pc, job,    \* per call: its next step and locals
    cuts,       \* history: [play ended by a skip, play it was meant for, by]
                \* of this life of the process
    spent       \* history: items skipped by reconcile since their rejection,
                \* unless the write that should tell was lost

player == <<play, reported>>
tallies == <<nowVotes, uriVotes>>
calls == <<pc, job>>
vars == <<player, shown, window, rows, rejected, tallies, tick, calls, cuts, spent>>

-----------------------------------------------------------------------------
\* `approved' stands for the active statuses: approved, queued, playing.
Status == {"approved", "rejected", "played"}

NoTick == [pc |-> "idle", seen |-> Nothing, hit |-> NoItem,
           rows |-> [i \in Items |-> "played"], late |-> FALSE]

NoJob == [kind |-> "none", aim |-> Nothing, track |-> NoTrack, guest |-> NoGuest]

NoVotes == [track |-> NoTrack, voters |-> {}]

TypeOK ==
    /\ play \in 1..Nothing /\ reported \in 1..play
    /\ shown \in 1..Nothing /\ window \in Closed..Nothing
    /\ rows \in [Items -> Status]
    /\ rejected \subseteq Tracks
    /\ nowVotes \in [track: Tracks \cup {NoTrack}, voters: SUBSET Guests]
    /\ uriVotes \in [Tracks -> SUBSET Guests]
    /\ tick \in [pc: {"idle", "early", "earlySkip", "read", "late",
                      "lateSkip", "tombstone"},
                 seen: 1..Nothing, hit: Items \cup {NoItem},
                 rows: [Items -> Status], late: BOOLEAN]
    /\ pc \in [Calls -> {"idle", "look", "vote", "skip"}]
    /\ job \in [Calls -> [kind: {"none", "item", "now", "uri", "host"},
                          aim: 1..Nothing, track: Tracks \cup {NoTrack},
                          guest: Guests \cup {NoGuest}]]
    /\ nowVotes.voters # {} => nowVotes.track \in Tracks
    /\ cuts \subseteq [play: Plays, aim: 1..Nothing, by: {"poller", "late", "call"}]
    /\ spent \subseteq Items

Init ==
    /\ play = 1 /\ reported = 1 /\ shown = Nothing /\ window = Closed
    /\ rows = [i \in Items |-> "approved"]
    /\ rejected = {}
    /\ nowVotes = NoVotes
    /\ uriVotes = [t \in Tracks |-> {}]
    /\ tick = NoTick
    /\ pc = [c \in Calls |-> "idle"] /\ job = [c \in Calls |-> NoJob]
    /\ cuts = {} /\ spent = {}

-----------------------------------------------------------------------------
(* The player.                                                             *)

\* provider.skipTrack() was accepted: the report follows later.
Cut(aim, by) ==
    /\ play \in Plays
    /\ play' = play + 1
    /\ reported' = reported
    /\ cuts' = cuts \cup {[play |-> play, aim |-> aim, by |-> by]}

\* The skip failed, or the player was idle.
NoCut == UNCHANGED <<player, cuts>>

\* The poller's skip, told apart when its tick is late.
PollerCut == Cut(tick.seen, IF tick.late THEN "late" ELSE "poller")

\* Faulty variant: the rejection is used up by the attempt.
AfterAttempt(t, ok) == rejected \ {t}

\* consumeProviderRejection follows a skip that was accepted.
AfterSkip(t, ok) == IF ok THEN rejected \ {t} ELSE rejected

\* A track ends by itself, or the host skips it on the device.
PlayerAdvances ==
    /\ play \in Ending
    /\ play' = play + 1
    /\ reported' = IF reported = play THEN play + 1 ELSE reported
    /\ UNCHANGED <<shown, window, rows, rejected, tallies, tick, calls, cuts, spent>>

\* Spotify's skip-settle latency, about 500 ms.
ReportSettles ==
    /\ reported # play
    /\ reported' = play
    /\ UNCHANGED <<play, shown, window, rows, rejected, tallies, tick, calls, cuts,
                   spent>>

\* SKIP_SETTLE_MS (1.5 s) after the poller's last skip.  Assumed of the player:
\* its report settles sooner.  A tick under way may be waiting for an answer
\* all that time and go on, late, with what it sampled before the skip.
WindowCloses ==
    /\ window # Closed
    /\ reported >= window
    /\ window' = Closed
    /\ tick' = [tick EXCEPT !.late = @ \/ (tick.pc # "idle" /\ tick.seen < window)]
    /\ UNCHANGED <<player, shown, rows, rejected, tallies, calls, cuts, spent>>

-----------------------------------------------------------------------------
(* The poller's tick.                                                      *)

\* getNowPlaying, then now_playing.updated: only the room lies between.
Sample ==
    /\ tick.pc = "idle"
    /\ tick' = [NoTick EXCEPT !.pc = "early", !.seen = reported]
    /\ shown' = reported
    /\ UNCHANGED <<player, window, rows, rejected, tallies, calls, cuts, spent>>

\* Faulty variant: no settle guard.
MayEarlySkipAlways == TrackAt(tick.seen) \in rejected

\* The settle guard and getRejectedProviderUris.
MayEarlySkip == window = Closed /\ TrackAt(tick.seen) \in rejected

EarlyCheck ==
    /\ tick.pc = "early"
    /\ tick' = [tick EXCEPT !.pc = IF MayEarlySkip THEN "earlySkip" ELSE "read"]
    /\ UNCHANGED <<player, shown, window, rows, rejected, tallies, calls, cuts, spent>>

EarlySkip(ok) ==
    /\ tick.pc = "earlySkip"
    /\ IF ok
       THEN /\ PollerCut
            /\ window' = play'
       ELSE NoCut /\ UNCHANGED window
    /\ rejected' = AfterSkip(TrackAt(tick.seen), ok)
    /\ tick' = [tick EXCEPT !.pc = "read"]
    /\ UNCHANGED <<shown, rows, tallies, calls, spent>>

\* queueItems.findAllForSession; the provider's queue is read next.
ReadItems ==
    /\ tick.pc = "read"
    /\ tick' = [tick EXCEPT !.pc = "late", !.rows = rows]
    /\ UNCHANGED <<player, shown, window, rows, rejected, tallies, calls, cuts, spent>>

\* The rejected rows of the sampled track, unless an active row wants it.
Hits(status, t) ==
    IF \E i \in Items : TrackOf[i] = t /\ status[i] = "approved"
    THEN {}
    ELSE {i \in Items : TrackOf[i] = t /\ status[i] = "rejected"}

LateCheck ==
    LET hits == Hits(tick.rows, TrackAt(tick.seen))
    IN  /\ tick.pc = "late"
        /\ IF window = Closed /\ hits # {}
           THEN \E i \in hits : tick' = [tick EXCEPT !.pc = "lateSkip", !.hit = i]
           ELSE tick' = NoTick
        /\ UNCHANGED <<player, shown, window, rows, rejected, tallies, calls, cuts,
                       spent>>

LateSkip(ok) ==
    /\ tick.pc = "lateSkip"
    /\ IF ok
       THEN /\ PollerCut
            /\ window' = play'
            /\ spent' = spent \cup {tick.hit}
            /\ tick' = [tick EXCEPT !.pc = "tombstone"]
       ELSE NoCut /\ UNCHANGED <<window, spent>> /\ tick' = NoTick
    /\ UNCHANGED <<shown, rows, rejected, tallies, calls>>

\* Faulty variant: the row stays rejected.
TombstoneForgotten(ok) ==
    /\ tick.pc = "tombstone"
    /\ tick' = NoTick
    /\ UNCHANGED <<player, shown, window, rows, rejected, tallies, calls, cuts, spent>>

\* The rejected row becomes `played', so that it does not match again.  A write
\* that fails is logged: the row stays rejected, the track was skipped.
Tombstone(ok) ==
    /\ tick.pc = "tombstone"
    /\ IF ok
       THEN rows' = [rows EXCEPT ![tick.hit] = "played"] /\ spent' = spent
       ELSE rows' = rows /\ spent' = spent \ {tick.hit}
    /\ tick' = NoTick
    /\ UNCHANGED <<player, shown, window, rejected, tallies, calls, cuts>>

-----------------------------------------------------------------------------
(* QueueService: a call reads the room once, decides, and skips later.     *)

Begin(c, step, locals) ==
    /\ pc[c] = "idle"
    /\ pc' = [pc EXCEPT ![c] = step]
    /\ job' = [job EXCEPT ![c] = locals]

Goto(c, step) == pc' = [pc EXCEPT ![c] = step] /\ job' = job

Return(c) == pc' = [pc EXCEPT ![c] = "idle"] /\ job' = [job EXCEPT ![c] = NoJob]

\* moderate(rejected), or castSkipVote at its threshold: the row first.
RejectItem(c, i) ==
    /\ "item" \in Operations
    /\ rows' = [rows EXCEPT ![i] = "rejected"]
    /\ spent' = spent \ {i}
    /\ Begin(c, "look", [NoJob EXCEPT !.kind = "item", !.track = TrackOf[i]])
    /\ UNCHANGED <<player, shown, window, rejected, tallies, tick, cuts>>

\* Then the room's nowPlaying: is it the rejected track?
LookAtRoom(c) ==
    /\ pc[c] = "look"
    /\ IF TrackAt(shown) = job[c].track
       THEN /\ pc' = [pc EXCEPT ![c] = "skip"]
            /\ job' = [job EXCEPT ![c].aim = shown]
       ELSE Return(c)
    /\ UNCHANGED <<player, shown, window, rows, rejected, tallies, tick, cuts, spent>>

\* castNowPlayingSkipVote: the snapshot, before the guest row is read.
VoteOnNow(c, g) ==
    /\ "now" \in Operations
    /\ shown \in Plays
    /\ Begin(c, "vote", [kind |-> "now", aim |-> shown, track |-> TrackAt(shown), guest |-> g])
    /\ UNCHANGED <<player, shown, window, rows, rejected, tallies, tick, cuts, spent>>

\* Faulty variant: whatever bucket there is takes the vote.
AnyBucket(t) == nowVotes

\* The bucket of the track voted on; another track's votes are dropped.
Bucket(t) == IF nowVotes.track = t THEN nowVotes ELSE [track |-> t, voters |-> {}]

\* The vote is counted; the threshold is compared in every voteSkipMode.
CountNowVote(c) ==
    LET bucket == Bucket(job[c].track)
        voters == bucket.voters \cup {job[c].guest}
    IN  /\ pc[c] = "vote" /\ job[c].kind = "now"
        /\ nowVotes' = [bucket EXCEPT !.voters = voters]
        /\ IF job[c].guest \notin bucket.voters /\ Cardinality(voters) >= Threshold
           THEN Goto(c, "skip") ELSE Return(c)
        /\ UNCHANGED <<player, shown, window, rows, rejected, uriVotes, tick, cuts,
                       spent>>

\* Tracks the room lists: now playing, or ahead in the provider's queue.
Listed == {TrackAt(p) : p \in {q \in Plays : shown = Nothing \/ q >= shown}}

\* The play a call aims at if it finds its track now playing in the room.
AimAt(t) == IF TrackAt(shown) = t THEN shown ELSE Nothing

\* castProviderQueueSkipVote: the snapshot, before the guest row is read.
VoteOnUri(c, g, t) ==
    /\ "uri" \in Operations
    /\ t \in Listed
    /\ Begin(c, "vote", [kind |-> "uri", aim |-> AimAt(t), track |-> t, guest |-> g])
    /\ UNCHANGED <<player, shown, window, rows, rejected, tallies, tick, cuts, spent>>

VotesDecide == VoteSkipMode \in {"fixed", "percentage"}

CountUriVote(c) ==
    LET t == job[c].track
        voters == uriVotes[t] \cup {job[c].guest}
        decided == /\ job[c].guest \notin uriVotes[t]
                   /\ Cardinality(voters) >= Threshold
                   /\ VotesDecide
    IN  /\ pc[c] = "vote" /\ job[c].kind = "uri"
        /\ rejected' = IF decided THEN rejected \cup {t} ELSE rejected
        /\ IF decided /\ job[c].aim \in Plays
           THEN uriVotes' = [uriVotes EXCEPT ![t] = voters] /\ Goto(c, "skip")
           ELSE /\ uriVotes' = [uriVotes EXCEPT ![t] = IF decided THEN {} ELSE voters]
                /\ Return(c)
        /\ UNCHANGED <<player, shown, window, rows, nowVotes, tick, cuts, spent>>

\* hostRejectProviderTrack.
HostRejects(c, t) ==
    /\ "host" \in Operations
    /\ t \in Listed
    /\ rejected' = rejected \cup {t}
    /\ IF AimAt(t) \in Plays
       THEN /\ Begin(c, "skip", [NoJob EXCEPT !.kind = "host", !.aim = AimAt(t), !.track = t])
            /\ UNCHANGED uriVotes
       ELSE /\ pc[c] = "idle" /\ UNCHANGED calls
            /\ uriVotes' = [uriVotes EXCEPT ![t] = {}]
    /\ UNCHANGED <<player, shown, window, rows, nowVotes, tick, cuts, spent>>

\* Faulty variant: a tally survives a failed skip.
TallyDoneIfSkipped(ok) == ok

\* The tally is dropped after the skip was tried, accepted or not.
TallyDone(ok) == TRUE

\* provider.skipTrack() of a call. It does not open the poller's settle window.
DirectSkip(c, ok) ==
    LET j == job[c]
    IN  /\ pc[c] = "skip"
        /\ IF ok THEN Cut(j.aim, "call") ELSE NoCut
        /\ rejected' = IF j.kind \in {"uri", "host"}
                       THEN AfterSkip(j.track, ok) ELSE rejected
        /\ IF TallyDone(ok)
           THEN /\ nowVotes' = IF j.kind = "now" THEN NoVotes ELSE nowVotes
                /\ uriVotes' = IF j.kind \in {"uri", "host"}
                               THEN [uriVotes EXCEPT ![j.track] = {}] ELSE uriVotes
           ELSE UNCHANGED tallies
        /\ Return(c)
        /\ UNCHANGED <<shown, window, rows, tick, spent>>

\* The host turns a decision round, or a guest asks for the track again.
WantAgain(i) ==
    /\ "again" \in Operations
    /\ rows[i] # "approved"
    /\ rows' = [rows EXCEPT ![i] = "approved"]
    /\ UNCHANGED <<player, shown, window, rejected, tallies, tick, calls, cuts, spent>>

\* The process dies and starts again: the rows are all that is left.  A skip
\* whose tombstone was still to be written leaves its row rejected.
Restart ==
    /\ shown' = Nothing /\ window' = Closed
    /\ rejected' = {}
    /\ nowVotes' = NoVotes /\ uriVotes' = [t \in Tracks |-> {}]
    /\ tick' = NoTick
    /\ pc' = [c \in Calls |-> "idle"] /\ job' = [c \in Calls |-> NoJob]
    /\ cuts' = {}
    /\ spent' = IF tick.pc = "tombstone" THEN spent \ {tick.hit} ELSE spent
    /\ UNCHANGED <<player, rows>>

-----------------------------------------------------------------------------
Tick ==
    \/ Sample \/ EarlyCheck \/ ReadItems \/ LateCheck
    \/ \E ok \in BOOLEAN : EarlySkip(ok) \/ LateSkip(ok) \/ Tombstone(ok)

CallBegins(c) ==
    \/ \E i \in Items : RejectItem(c, i)
    \/ \E g \in Guests : VoteOnNow(c, g) \/ \E t \in Tracks : VoteOnUri(c, g, t)
    \/ \E t \in Tracks : HostRejects(c, t)

CallProceeds(c) ==
    \/ LookAtRoom(c) \/ CountNowVote(c) \/ CountUriVote(c)
    \/ \E ok \in BOOLEAN : DirectSkip(c, ok)

Next ==
    \/ Tick
    \/ \E c \in Calls : CallBegins(c) \/ CallProceeds(c)
    \/ \E i \in Items : WantAgain(i)
    \/ PlayerAdvances \/ ReportSettles \/ WindowCloses
    \/ Restart

\* Ticks go on, time passes, and a provider asked again and again to skip
\* does so some day.
Spec ==
    /\ Init /\ [][Next]_vars
    /\ WF_vars(Tick) /\ WF_vars(ReportSettles) /\ WF_vars(WindowCloses)
    /\ SF_vars(EarlySkip(TRUE))
    /\ \A c \in Calls : WF_vars(CallProceeds(c))

-----------------------------------------------------------------------------
(* What the component promises.                                            *)

\* The settle guard: the poller skips again for a play it has skipped for only
\* if the second skip's tick sampled before the first and outlasted the settle
\* time, whoever else skips meanwhile.
PollerSkipsOnce ==
    \A s, t \in cuts :
        "call" \notin {s.by, t.by} /\ s.aim = t.aim /\ s.play < t.play => t.by = "late"

\* The tombstone: one rejection of an item costs one skip by the reconcile
\* pass, and one more each time the write that should have told was lost, by
\* failing or with the process; the track may be asked for again.
RejectionSpentOnce == tick.pc = "lateSkip" => tick.hit \notin spent

Skipping(kind, t) == \E c \in Calls : pc[c] = "skip" /\ job[c].kind = kind /\ job[c].track = t

\* No tally stays at its threshold: the call that filled it is about to skip,
\* and empties it whether the skip works or not.
FullTalliesAct ==
    /\ Cardinality(nowVotes.voters) >= Threshold => \E t \in Tracks : Skipping("now", t)
    /\ VotesDecide =>
          \A t \in Tracks : Cardinality(uriVotes[t]) >= Threshold => Skipping("uri", t)

\* A rejected provider track that reaches the speakers does not play out, unless
\* the process dies: a room that has started anew shows no track yet.
RejectedTrackEnds ==
    \A p \in Plays :
        play = p /\ Program[p] \in rejected ~> play # p \/ shown = Nothing

\* The comment on the late pass: "after ANY skip this session dispatched,
\* nowPlaying is unreliable for SKIP_SETTLE_MS - skipping again here would eat
\* the following track": the poller does not skip for a play skipped already.
SettledAfterAnySkip ==
    \A s, t \in cuts : s.by = "poller" /\ t.play < s.play => s.aim # t.aim
=============================================================================
