--------------------------- MODULE RequestQueue ---------------------------
(***************************************************************************)
(* QueueService (packages/backend/src/queue/QueueService.ts) over the      *)
(* queue_items, queue_skip_votes and karaoke_claims tables, the realtime   *)
(* room's queue slices and the host's streaming provider, for one session. *)
(*                                                                         *)
(* Every HTTP call in flight is a member of Calls.  A call runs alone      *)
(* between two awaits; between two of its steps any other call, and the    *)
(* now-playing poller, may run.  Rows are read once and used later, so a   *)
(* step acts on what an earlier step of the same call saw.                 *)
(***************************************************************************)
EXTENDS QueueRules

CONSTANTS
    Guests,          \* guests holding an active slot
    Tracks,          \* provider track URIs
    Calls,           \* HTTP calls the process can have in flight at once
    MaxItems,        \* bound: rows ever inserted
    Operations,      \* the operations the clients of this instance issue
    Settings,        \* the session row's settings, moderationEnabled apart
    PushOutcomes,    \* how a push to the provider's queue may end
    NoGuest, NoTrack \* "not set" in a call's locals

ItemId == 1..MaxItems

ASSUME ConstantsAssumption ==
    /\ IsFiniteSet(Guests) /\ IsFiniteSet(Calls)
    /\ NoGuest \notin Guests /\ NoTrack \notin Tracks
    /\ MaxItems \in Nat
    /\ PushOutcomes \subseteq {"pushed", "failed", "rate_limited"}
    /\ Settings.songsPerGuestCap \in Int
    /\ Settings.maxConsecutivePerGuest \in Int
    /\ Settings.allowDuplicates \in BOOLEAN
    /\ Settings.voteSkipMode \in {"fixed", "percentage", "host_approval"}
    /\ Settings.voteSkipThreshold \in Int
    /\ Settings.karaokeMode \in {"off", "optional", "required"}

VARIABLES
    session,   \* [ended, moderationEnabled]: what the host changes live
    rows,      \* queue_items: id -> row, the ids present being its domain
    lastId,    \* the newest id handed out
    votes,     \* queue_skip_votes: <<item, guest>>
    claims,    \* karaoke_claims: <<item, guest>>
    room,      \* [pending, queue]: item ids in the room snapshot's slices
    cooldown,  \* the provider account is inside a rate-limit window
    pushed,    \* items the provider accepted into its play queue
    approved,  \* history: items that were at some time approved
    stranded,  \* history: items whose request stopped at its claim insert
    overtaken, \* history: items a decision or removal of which was published
               \* before their own item_requested
    pollSeen,  \* items the poller's current tick may write -> status it read
    pc, job    \* per call: its next step and its locals

vars == <<session, rows, lastId, votes, claims, room, cooldown, pushed,
          approved, stranded, overtaken, pollSeen, pc, job>>
history == <<stranded, overtaken>>
tables == <<rows, lastId, votes, claims, approved>>
provider == <<cooldown, pushed>>
calls == <<pc, job>>

-----------------------------------------------------------------------------
Row == [guest: Guests, track: Tracks, status: ItemStatus, skipVotes: Nat]

Step == {"idle", "reqEnter", "reqRead", "reqAssert", "reqInsert", "reqClaim",
         "reqAnnounce", "reqApprove", "reqPush", "reqRollBack",
         "modAssert", "modSet", "modPush", "rmDelete",
         "voteInsert", "voteCount", "voteReject",
         "pubApproved", "pubRejected", "pubRemoved"}

Job == [guest: Guests \cup {NoGuest}, track: Tracks \cup {NoTrack},
        item: 0..MaxItems, mic: BOOLEAN, beforeEnd: BOOLEAN, ended: BOOLEAN,
        moderated: BOOLEAN,
        decision: {"none", "approved", "rejected"}]

NoJob == [guest |-> NoGuest, track |-> NoTrack, item |-> 0, mic |-> FALSE,
          beforeEnd |-> FALSE, ended |-> FALSE, moderated |-> FALSE, decision |-> "none"]

TypeOK ==
    /\ session \in [ended: BOOLEAN, moderationEnabled: BOOLEAN]
    /\ DOMAIN rows \subseteq 1..lastId
    /\ rows \in [DOMAIN rows -> Row]
    /\ lastId \in 0..MaxItems
    /\ votes \subseteq ItemId \X Guests
    /\ claims \subseteq ItemId \X Guests
    /\ room \in [pending: SUBSET ItemId, queue: SUBSET ItemId]
    /\ cooldown \in BOOLEAN
    /\ pushed \subseteq ItemId /\ approved \subseteq ItemId
    /\ stranded \subseteq ItemId /\ overtaken \subseteq ItemId
    /\ DOMAIN pollSeen \subseteq ItemId
    /\ pc \in [Calls -> Step]
    /\ job \in [Calls -> Job]

Init ==
    /\ session \in [ended: {FALSE}, moderationEnabled: BOOLEAN]
    /\ rows = [i \in {} |-> NoJob]
    /\ lastId = 0
    /\ votes = {} /\ claims = {}
    /\ room = [pending |-> {}, queue |-> {}]
    /\ cooldown = FALSE
    /\ pushed = {} /\ approved = {} /\ stranded = {} /\ overtaken = {}
    /\ pollSeen = [i \in {} |-> NoJob]
    /\ pc = [c \in Calls |-> "idle"]
    /\ job = [c \in Calls |-> NoJob]

-----------------------------------------------------------------------------
(* A call's control flow, and the row operations of the repositories.      *)

Goto(c, step) ==
    /\ pc' = [pc EXCEPT ![c] = step]
    /\ job' = job

Return(c) ==
    /\ pc' = [pc EXCEPT ![c] = "idle"]
    /\ job' = [job EXCEPT ![c] = NoJob]

Begin(c, step, locals) ==
    /\ pc[c] = "idle"
    /\ pc' = [pc EXCEPT ![c] = step]
    /\ job' = [job EXCEPT ![c] = locals]

InFlight(steps, i) == \E c \in Calls : pc[c] \in steps /\ job[c].item = i

\* The item's queue.item_requested event is still to come.
AwaitsAnnouncement(i) == InFlight({"reqClaim", "reqAnnounce"}, i)

\* Ids a client can name that findById still answers: GET queue lists every
\* row of the table, announced or not.
Nameable == DOMAIN rows

\* An event about the item goes out ahead of the one that introduces it.
Overtake(i) ==
    overtaken' = IF AwaitsAnnouncement(i) THEN overtaken \cup {i} ELSE overtaken

SetStatus(i, s) ==
    /\ rows' = [rows EXCEPT ![i].status = s]
    /\ approved' = IF s = "approved" THEN approved \cup {i} ELSE approved

\* Faulty variant: the row is only marked.
SoftDeleteRow(i) ==
    /\ rows' = [rows EXCEPT ![i].status = "removed"]
    /\ UNCHANGED <<votes, claims>>

\* Faulty variant: no cascade to the votes.
DeleteRowOnly(i) ==
    /\ rows' = [j \in DOMAIN rows \ {i} |-> rows[j]]
    /\ votes' = votes
    /\ claims' = {k \in claims : k[1] # i}

\* DELETE on queue_items; votes and claims go with it (ON DELETE CASCADE).
DeleteRow(i) ==
    /\ rows' = [j \in DOMAIN rows \ {i} |-> rows[j]]
    /\ votes' = {v \in votes : v[1] # i}
    /\ claims' = {k \in claims : k[1] # i}

-----------------------------------------------------------------------------
(* requestTrack                                                            *)

\* Bound: a request starts only while a fresh id is left for it.
IdLeft ==
    lastId + Cardinality({c \in Calls :
                 pc[c] \in {"reqEnter", "reqRead", "reqAssert", "reqInsert"}}) < MaxItems

\* The call takes `now' before anything else, then looks its slot up.
RequestTrack(c, g, t, mic) ==
    /\ "request" \in Operations
    /\ IdLeft
    /\ Begin(c, "reqEnter",
             [NoJob EXCEPT !.guest = g, !.track = t, !.mic = mic,
                           !.beforeEnd = ~session.ended])
    /\ UNCHANGED <<session, tables, room, provider, pollSeen, history>>

\* What canEnqueue makes of the session row: ended if endedAt <= now.  An end
\* since the call took its `now' counts only in the very same millisecond.
EndSeen(beforeEnd) ==
    IF ~session.ended THEN {FALSE}
    ELSE IF beforeEnd THEN BOOLEAN ELSE {TRUE}

\* The session and guest reads: the session row is kept for later.
ReadSession(c) ==
    /\ pc[c] = "reqEnter"
    /\ \E ended \in EndSeen(job[c].beforeEnd) :
          job' = [job EXCEPT ![c].beforeEnd = FALSE, ![c].ended = ended,
                             ![c].moderated = session.moderationEnabled]
    /\ pc' = [pc EXCEPT ![c] = "reqRead"]
    /\ UNCHANGED <<session, tables, room, provider, pollSeen, history>>

KaraokeGate(mic) ==
    IF mic THEN Settings.karaokeMode # "off"
           ELSE Settings.karaokeMode # "required"

\* findAllForSession, canEnqueue and the karaoke gate on what was read.
AdmitRequest(c) ==
    /\ pc[c] = "reqRead"
    /\ IF /\ CanEnqueue(Settings, job[c].ended, rows, job[c].guest, job[c].track)
          /\ KaraokeGate(job[c].mic)
       THEN Goto(c, IF job[c].moderated THEN "reqInsert" ELSE "reqAssert")
       ELSE Return(c)
    /\ UNCHANGED <<session, tables, room, provider, pollSeen, history>>

\* assertProviderNotRateLimited, of an auto-approved request or an approval.
AssertNotRateLimited(c) ==
    /\ pc[c] \in {"reqAssert", "modAssert"}
    /\ IF cooldown
       THEN Return(c)
       ELSE Goto(c, IF pc[c] = "reqAssert" THEN "reqInsert" ELSE "modSet")
    /\ UNCHANGED <<session, tables, room, provider, pollSeen, history>>

\* Faulty variant: an auto-approved request is stored as pending.
AlwaysPending(moderated) == "pending"

InitialStatus(moderated) == IF moderated THEN "pending" ELSE "approved"

InsertItem(c) ==
    /\ pc[c] = "reqInsert"
    /\ lastId < MaxItems
    /\ LET id == lastId + 1
           status == InitialStatus(job[c].moderated)
           row == [guest |-> job[c].guest, track |-> job[c].track,
                   status |-> status, skipVotes |-> 0]
       IN  /\ lastId' = id
           /\ rows' = [j \in DOMAIN rows \cup {id} |->
                           IF j = id THEN row ELSE rows[j]]
           /\ approved' = IF status = "approved" THEN approved \cup {id}
                                                 ELSE approved
           /\ job' = [job EXCEPT ![c].item = id]
    /\ pc' = [pc EXCEPT ![c] = IF job[c].mic THEN "reqClaim" ELSE "reqAnnounce"]
    /\ UNCHANGED <<session, votes, claims, room, provider, pollSeen, history>>

\* The claim insert: it fails on a deleted item (foreign key), or when the
\* database does, and nothing catches that; the item's row stays.
InsertClaim(c) ==
    /\ pc[c] = "reqClaim"
    /\ \/ /\ job[c].item \in DOMAIN rows
          /\ claims' = claims \cup {<<job[c].item, job[c].guest>>}
          /\ stranded' = stranded
          /\ Goto(c, "reqAnnounce")
       \/ /\ claims' = claims
          /\ stranded' = stranded \cup {job[c].item}
          /\ Return(c)
    /\ UNCHANGED <<session, rows, lastId, votes, approved, room, provider,
                   pollSeen, overtaken>>

\* Faulty variant: a request awaiting moderation is pushed too.
AnnounceAndPush(c) ==
    /\ pc[c] = "reqAnnounce"
    /\ room' = [room EXCEPT !.pending = @ \cup {job[c].item}]
    /\ Goto(c, "reqApprove")
    /\ UNCHANGED <<session, tables, provider, pollSeen, history>>

\* queue.item_requested (with the claim): always into the pending slice.
AnnounceRequest(c) ==
    /\ pc[c] = "reqAnnounce"
    /\ room' = [room EXCEPT !.pending = @ \cup {job[c].item}]
    /\ IF job[c].moderated THEN Return(c) ELSE Goto(c, "reqApprove")
    /\ UNCHANGED <<session, tables, provider, pollSeen, history>>

\* applyEvent of queue.item_approved: from pending to queue, if it is there.
ShowApproved(i) ==
    room' = IF i \in room.pending
            THEN [pending |-> room.pending \ {i}, queue |-> room.queue \cup {i}]
            ELSE room

\* Faulty variant: the event only clears the moderation list.
ShowNotPending(i) == room' = [room EXCEPT !.pending = @ \ {i}]

\* applyEvent of queue.item_rejected and queue.item_removed.
ShowGone(i) ==
    room' = [pending |-> room.pending \ {i}, queue |-> room.queue \ {i}]

AnnounceAutoApproval(c) ==
    /\ pc[c] = "reqApprove"
    /\ ShowApproved(job[c].item) /\ Overtake(job[c].item)
    /\ Goto(c, "reqPush")
    /\ UNCHANGED <<session, tables, provider, pollSeen, stranded>>

\* pushToProviderQueue: an open window answers 429 without a call; a call is
\* accepted, fails, or answers 429 and opens the window.
PushToProviderQueue(i, outcome) ==
    /\ cooldown => outcome = "rate_limited"
    /\ pushed' = IF outcome = "pushed" THEN pushed \cup {i} ELSE pushed
    /\ cooldown' = (outcome = "rate_limited")

PushRequest(c, outcome) ==
    /\ pc[c] = "reqPush"
    /\ PushToProviderQueue(job[c].item, outcome)
    /\ IF outcome = "rate_limited" THEN Goto(c, "reqRollBack") ELSE Return(c)
    /\ UNCHANGED <<session, tables, room, pollSeen, history>>

RollBackRequest(c) ==
    /\ pc[c] = "reqRollBack"
    /\ DeleteRow(job[c].item)
    /\ Goto(c, "pubRemoved")
    /\ UNCHANGED <<session, lastId, approved, room, provider, pollSeen, history>>

-----------------------------------------------------------------------------
(* moderate: any item may be decided again, whatever its status.           *)

Moderate(c, i, decision) ==
    /\ "moderate" \in Operations
    /\ i \in Nameable
    /\ Begin(c, IF decision = "approved" THEN "modAssert" ELSE "modSet",
             [NoJob EXCEPT !.item = i, !.decision = decision])
    /\ UNCHANGED <<session, tables, room, provider, pollSeen, history>>

\* applyModerationDecision and setStatus; a deleted row answers item_not_found.
DecideItem(c) ==
    /\ pc[c] = "modSet"
    /\ IF job[c].item \in DOMAIN rows
       THEN /\ SetStatus(job[c].item, job[c].decision)
            /\ Goto(c, IF job[c].decision = "approved"
                       THEN "pubApproved" ELSE "pubRejected")
       ELSE /\ UNCHANGED <<rows, approved>>
            /\ Return(c)
    /\ UNCHANGED <<session, lastId, votes, claims, room, provider, pollSeen, history>>

PublishApproved(c) ==
    /\ pc[c] = "pubApproved"
    /\ ShowApproved(job[c].item) /\ Overtake(job[c].item)
    /\ Goto(c, "modPush")
    /\ UNCHANGED <<session, tables, provider, pollSeen, stranded>>

\* queue.item_rejected (a decision or a vote) or queue.item_removed.
PublishGone(c) ==
    /\ pc[c] \in {"pubRejected", "pubRemoved"}
    /\ ShowGone(job[c].item) /\ Overtake(job[c].item)
    /\ Return(c)
    /\ UNCHANGED <<session, tables, provider, pollSeen, stranded>>

\* The push of an approval: its result is not looked at.
PushApproval(c, outcome) ==
    /\ pc[c] = "modPush"
    /\ PushToProviderQueue(job[c].item, outcome)
    /\ Return(c)
    /\ UNCHANGED <<session, tables, room, pollSeen, history>>

-----------------------------------------------------------------------------
(* removeOwn: refused for another guest's item or a playing one.           *)

RemoveOwn(c, g, i) ==
    /\ "remove" \in Operations
    /\ i \in Nameable
    /\ rows[i].guest = g
    /\ rows[i].status # "playing"
    /\ Begin(c, "rmDelete", [NoJob EXCEPT !.guest = g, !.item = i])
    /\ UNCHANGED <<session, tables, room, provider, pollSeen, history>>

DeleteOwn(c) ==
    /\ pc[c] = "rmDelete"
    /\ DeleteRow(job[c].item)
    /\ Goto(c, "pubRemoved")
    /\ UNCHANGED <<session, lastId, approved, room, provider, pollSeen, history>>

-----------------------------------------------------------------------------
(* castSkipVote: any item may be voted on, whatever its status.            *)

CastSkipVote(c, g, i) ==
    /\ "vote" \in Operations
    /\ i \in Nameable
    /\ Begin(c, "voteInsert", [NoJob EXCEPT !.guest = g, !.item = i])
    /\ UNCHANGED <<session, tables, room, provider, pollSeen, history>>

\* Faulty variant: a repeated vote goes on to the counter.
RecordAnyVote(c) ==
    /\ pc[c] = "voteInsert"
    /\ IF job[c].item \in DOMAIN rows
       THEN votes' = votes \cup {<<job[c].item, job[c].guest>>} /\ Goto(c, "voteCount")
       ELSE votes' = votes /\ Return(c)
    /\ UNCHANGED <<session, rows, lastId, claims, approved, room, provider, pollSeen, history>>

\* recordVote, first statement: INSERT ... ON CONFLICT DO NOTHING. A vote
\* already there is answered already_voted, a deleted item by an error.
RecordVote(c) ==
    LET vote == <<job[c].item, job[c].guest>>
    IN  /\ pc[c] = "voteInsert"
        /\ IF job[c].item \in DOMAIN rows /\ vote \notin votes
           THEN votes' = votes \cup {vote} /\ Goto(c, "voteCount")
           ELSE votes' = votes /\ Return(c)
        /\ UNCHANGED <<session, rows, lastId, claims, approved, room, provider,
                       pollSeen, history>>

VotesDecide == Settings.voteSkipMode \in {"fixed", "percentage"}

\* Faulty variant: one vote more than the threshold is asked for.
ThresholdPassed(count) == count > Settings.voteSkipThreshold /\ VotesDecide

\* The count is compared with the bare threshold, in percentage mode too.
ThresholdMet(count) == count >= Settings.voteSkipThreshold /\ VotesDecide

\* recordVote, second statement: the counter is bumped and returned (0 when
\* the row is gone).
CountVote(c) ==
    LET i == job[c].item
        count == IF i \in DOMAIN rows THEN rows[i].skipVotes + 1 ELSE 0
    IN  /\ pc[c] = "voteCount"
        /\ rows' = IF i \in DOMAIN rows
                   THEN [rows EXCEPT ![i].skipVotes = count] ELSE rows
        /\ IF ThresholdMet(count) THEN Goto(c, "voteReject") ELSE Return(c)
        /\ UNCHANGED <<session, lastId, votes, claims, approved, room, provider,
                       pollSeen, history>>

RejectByVote(c) ==
    /\ pc[c] = "voteReject"
    /\ IF job[c].item \in DOMAIN rows
       THEN /\ SetStatus(job[c].item, "rejected")
            /\ Goto(c, "pubRejected")
       ELSE /\ UNCHANGED <<rows, approved>>
            /\ Return(c)
    /\ UNCHANGED <<session, lastId, votes, claims, room, provider, pollSeen, history>>

-----------------------------------------------------------------------------
(* The now-playing poller as this component sees it: a tick reads all      *)
(* items, and later writes statuses to some, without looking again and     *)
(* without an event: approved items start playing or have been played,     *)
(* playing ones have been played, and a rejected one is marked played when *)
(* the poller skipped it.                                                  *)

PollRead ==
    /\ "poll" \in Operations
    /\ DOMAIN pollSeen = {}
    /\ pollSeen' = [i \in {j \in DOMAIN rows : rows[j].status \in
                               {"approved", "playing", "rejected"}}
                       |-> rows[i].status]
    /\ UNCHANGED <<session, tables, room, provider, calls, history>>

PollDone(i) == pollSeen' = [j \in DOMAIN pollSeen \ {i} |-> pollSeen[j]]

PollWrite(i, status) ==
    /\ i \in DOMAIN pollSeen
    /\ status = "playing" => pollSeen[i] = "approved"
    /\ PollDone(i)
    /\ rows' = IF i \in DOMAIN rows
               THEN [rows EXCEPT ![i].status = status] ELSE rows
    /\ UNCHANGED <<session, lastId, votes, claims, approved, room, provider,
                   calls, history>>

\* An item the tick leaves as it is.
PollSkip(i) ==
    /\ i \in DOMAIN pollSeen
    /\ PollDone(i)
    /\ UNCHANGED <<session, tables, room, provider, calls, history>>

-----------------------------------------------------------------------------
(* The host's other routes and the provider's clock.                       *)

EndSession ==
    /\ "end" \in Operations
    /\ ~session.ended
    /\ session' = [session EXCEPT !.ended = TRUE]
    /\ UNCHANGED <<tables, room, provider, pollSeen, calls, history>>

\* PATCH of the session's moderationEnabled; refused once it has ended.
SetModeration(enabled) ==
    /\ "settings" \in Operations
    /\ ~session.ended
    /\ session' = [session EXCEPT !.moderationEnabled = enabled]
    /\ UNCHANGED <<tables, room, provider, pollSeen, calls, history>>

CooldownEnds ==
    /\ cooldown
    /\ cooldown' = FALSE
    /\ UNCHANGED <<session, tables, room, pushed, pollSeen, calls, history>>

-----------------------------------------------------------------------------
ClientBegins(c) ==
    \/ \E g \in Guests, t \in Tracks, mic \in BOOLEAN : RequestTrack(c, g, t, mic)
    \/ \E i \in ItemId, d \in {"approved", "rejected"} : Moderate(c, i, d)
    \/ \E g \in Guests, i \in ItemId : RemoveOwn(c, g, i)
    \/ \E g \in Guests, i \in ItemId : CastSkipVote(c, g, i)

CallProceeds(c) ==
    \/ ReadSession(c) \/ AdmitRequest(c) \/ AssertNotRateLimited(c) \/ InsertItem(c)
    \/ InsertClaim(c) \/ AnnounceRequest(c) \/ AnnounceAutoApproval(c)
    \/ \E o \in PushOutcomes : PushRequest(c, o)
    \/ RollBackRequest(c)
    \/ DecideItem(c) \/ PublishApproved(c) \/ PublishGone(c)
    \/ \E o \in PushOutcomes : PushApproval(c, o)
    \/ DeleteOwn(c)
    \/ RecordVote(c) \/ CountVote(c) \/ RejectByVote(c)

Environment ==
    \/ PollRead
    \/ \E i \in ItemId : PollSkip(i) \/ \E s \in {"playing", "played"} : PollWrite(i, s)
    \/ EndSession
    \/ \E b \in BOOLEAN : SetModeration(b)
    \/ CooldownEnds

Next ==
    \/ \E c \in Calls : ClientBegins(c) \/ CallProceeds(c)
    \/ Environment

\* A call the process has accepted runs on; nobody has to issue one.
Spec == Init /\ [][Next]_vars /\ \A c \in Calls : WF_vars(CallProceeds(c))

-----------------------------------------------------------------------------
(* What the component promises.                                            *)

VotesOn(i) == {v \in votes : v[1] = i}
CountersOn(i) == {c \in Calls : pc[c] = "voteCount" /\ job[c].item = i}

\* recordVote's two statements: an item's counter is the number of ledger
\* entries, less the votes whose second statement has not run yet.
VoteLedger ==
    \A i \in DOMAIN rows :
        rows[i].skipVotes + Cardinality(CountersOn(i)) = Cardinality(VotesOn(i))

\* A rolled-back or removed request takes its votes and mic claims with it,
\* even those that other calls were writing at the time.
NoOrphans == \A v \in votes \cup claims : v[1] \in DOMAIN rows

\* Nothing reaches the host's play queue that nobody approved: not a pending
\* request of a moderated session, whichever calls overlap.
NoUnapprovedPush == pushed \subseteq approved

\* An item whose votes have crossed the threshold does not go on waiting for
\* moderation: a vote call is about to reject it, or it has been decided.
VotedOutIsDecided ==
    VotesDecide =>
        \A i \in DOMAIN rows :
            /\ rows[i].skipVotes >= Settings.voteSkipThreshold
            /\ rows[i].skipVotes > 0
            /\ rows[i].status = "pending"
            => InFlight({"voteReject"}, i)

\* Every pending row whose request got as far as its announcement is in the
\* room's moderation list; one whose claim insert failed is nowhere in it.
PendingRowsShown ==
    \A i \in DOMAIN rows \ stranded :
        rows[i].status = "pending" /\ ~AwaitsAnnouncement(i) => i \in room.pending

Leaving(i) == InFlight({"pubRejected", "pubRemoved"}, i)

\* The room's lists follow the table, whichever calls overlap: pending are only
\* rows that are pending or whose approval is being published, and queued only
\* rows that are there and not rejected; otherwise a call is about to publish
\* that the item is gone.  Only an item a decision or removal of which has
\* overtaken its introduction is shown wrongly for good.
RoomViewSound ==
    /\ \A i \in (room.pending \cup room.queue) \ overtaken :
          Leaving(i) \/ (i \in DOMAIN rows /\ rows[i].status # "rejected")
    /\ \A i \in room.pending \ overtaken :
          \/ Leaving(i) \/ InFlight({"reqApprove", "pubApproved"}, i)
          \/ rows[i].status = "pending"
    /\ \A i \in room.queue \ overtaken : Leaving(i) \/ rows[i].status # "pending"

\* songsPerGuestCap: no guest holds more active items than the cap.
SongsPerGuestCapHolds ==
    \A g \in Guests : CountActiveItemsForGuest(rows, g) <= Settings.songsPerGuestCap

\* core/src/types/session.ts: with allowDuplicates off, "guests can't request
\* a track that's already in the active queue".
NoDuplicateRequest ==
    ~Settings.allowDuplicates =>
        \A i, j \in ActiveItems(rows) : rows[i].track = rows[j].track => i = j

\* More than the cap of newest waiting items, all of one guest.
TooManyInARow ==
    LET cap == Settings.maxConsecutivePerGuest
        waiting == WaitingItems(rows)
        newest == {i \in waiting : Cardinality({j \in waiting : j > i}) <= cap}
    IN  /\ cap # NoLimit
        /\ Cardinality(newest) > cap
        /\ Cardinality({rows[i].guest : i \in newest}) = 1

\* maxConsecutivePerGuest: however items left the list before, a new request
\* never makes its guest the owner of too many in a row.
ConsecutiveCapKept == [][lastId' > lastId => ~TooManyInARow']_vars

\* Requests that may still insert: they took `now' before the session ended.
RequestsInFlight ==
    {c \in Calls : \/ pc[c] = "reqEnter" /\ job[c].beforeEnd
                   \/ pc[c] \in {"reqRead", "reqAssert", "reqInsert"} /\ ~job[c].ended}

\* Once a session has ended, no further request joins those it caught in
\* flight, and when these have been answered no row is added, whatever settings
\* and calls come later.
DrainedSessionGrowsNoMore ==
    [][session.ended => /\ RequestsInFlight' \subseteq RequestsInFlight
                        /\ RequestsInFlight = {} => lastId' = lastId]_vars

=============================================================================
