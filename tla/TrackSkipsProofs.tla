-------------------------- MODULE TrackSkipsProofs --------------------------
(* Theorems of TrackSkips for every program of plays, any number of items, *)
(* guests and overlapping calls.                                           *)
EXTENDS TrackSkips, TLAPS, FiniteSetTheorems

-----------------------------------------------------------------------------
(* Type correctness.                                                       *)

\* What the locals of the tick and of each call are where they are used.
LocalsOK ==
    /\ tick.pc \in {"lateSkip", "tombstone"} => tick.hit \in Items
    /\ \A c \in Calls :
          /\ pc[c] \in {"look", "vote"} => job[c].track \in Tracks
          /\ pc[c] = "vote" => job[c].guest \in Guests
          /\ pc[c] = "skip" /\ job[c].kind \in {"now", "uri", "host"}
                 => job[c].track \in Tracks

Typed == TypeOK /\ LocalsOK

LEMMA PlayTypes ==
    /\ Nothing \in Nat \ {0} /\ Plays = 1..(Nothing - 1)
    /\ Plays \subseteq 1..Nothing
    /\ \A p \in Plays : TrackAt(p) \in Tracks
<1>1. Len(Program) \in Nat /\ Plays = 1..Len(Program)
      /\ \A p \in Plays : Program[p] \in Tracks
  BY ConstantsAssumption DEF Plays
<1> QED  BY <1>1 DEF Nothing, TrackAt

Tick0 == [pc: {"idle", "early", "earlySkip", "read", "late", "lateSkip", "tombstone"},
          seen: 1..Nothing, hit: Items \cup {NoItem}, rows: [Items -> Status],
          late: BOOLEAN]

Job == [kind: {"none", "item", "now", "uri", "host"}, aim: 1..Nothing,
        track: Tracks \cup {NoTrack}, guest: Guests \cup {NoGuest}]

LEMMA NoneTypes == NoTick \in Tick0 /\ NoTick.pc = "idle" /\ NoJob \in Job
  BY PlayTypes DEF NoTick, Tick0, Status, NoJob, Job

LEMMA TypedInit == Init => Typed
<1> SUFFICES ASSUME Init PROVE Typed
  OBVIOUS
<1> USE PlayTypes, NoneTypes
<1>1. tick \in Tick0 /\ job \in [Calls -> Job] /\ pc \in [Calls -> {"idle", "look", "vote", "skip"}]
  BY DEF Init
<1>2. nowVotes \in [track: Tracks \cup {NoTrack}, voters: SUBSET Guests] /\ nowVotes.voters = {}
  BY DEF Init, NoVotes
<1>3. /\ play \in 1..Nothing /\ reported \in 1..play
      /\ shown \in 1..Nothing /\ window \in Closed..Nothing
  BY DEF Init, Closed
<1>4. /\ rows \in [Items -> Status] /\ uriVotes \in [Tracks -> SUBSET Guests]
      /\ rejected \subseteq Tracks /\ spent \subseteq Items
      /\ cuts \subseteq [play: Plays, aim: 1..Nothing, by: {"poller", "late", "call"}]
  BY DEF Init, Status
<1>5. LocalsOK
  BY DEF Init, LocalsOK
<1> QED  BY <1>1, <1>2, <1>3, <1>4, <1>5 DEF Typed, TypeOK, Tick0, Job

-----------------------------------------------------------------------------
\* A skip ends the play that is on, or nothing.
LEMMA CutTypes ==
  ASSUME Typed, NEW aim \in 1..Nothing, NEW by \in {"poller", "late", "call"},
         Cut(aim, by) \/ NoCut
  PROVE  /\ play' \in 1..Nothing /\ reported' \in 1..play' /\ reported' = reported
         /\ play <= play'
         /\ cuts' \subseteq [play: Plays, aim: 1..Nothing, by: {"poller", "late", "call"}]
  BY PlayTypes DEF Typed, TypeOK, Cut, NoCut, player

LEMMA TypedStep == Typed /\ [Next]_vars => Typed'
<1> SUFFICES ASSUME Typed, [Next]_vars PROVE Typed'
  OBVIOUS
<1> USE PlayTypes, NoneTypes
<1>0. TypeOK <=>
        /\ play \in 1..Nothing /\ reported \in 1..play
        /\ shown \in 1..Nothing /\ window \in Closed..Nothing
        /\ rows \in [Items -> Status] /\ rejected \subseteq Tracks
        /\ nowVotes \in [track: Tracks \cup {NoTrack}, voters: SUBSET Guests]
        /\ uriVotes \in [Tracks -> SUBSET Guests]
        /\ tick \in Tick0
        /\ pc \in [Calls -> {"idle", "look", "vote", "skip"}]
        /\ job \in [Calls -> Job]
        /\ nowVotes.voters # {} => nowVotes.track \in Tracks
        /\ cuts \subseteq [play: Plays, aim: 1..Nothing, by: {"poller", "late", "call"}]
        /\ spent \subseteq Items
  BY DEF TypeOK, Tick0, Job
<1>1. ASSUME Tick, UNCHANGED <<calls, tallies>> PROVE Typed'
  <2>0. UNCHANGED <<pc, job, nowVotes, uriVotes>>
    BY <1>1 DEF calls, tallies
  <2>1. CASE Sample \/ EarlyCheck \/ ReadItems
    <3>1. UNCHANGED <<play, reported, window, rows, rejected, cuts, spent>>
      BY <2>1 DEF Sample, EarlyCheck, ReadItems, player
    <3>2. tick' \in Tick0 /\ tick'.pc \in {"early", "earlySkip", "read", "late"}
      <4>1. CASE Sample
        <5>1. reported \in 1..Nothing
          BY <1>0 DEF Typed
        <5>2. tick' = [NoTick EXCEPT !.pc = "early", !.seen = reported]
          BY <4>1 DEF Sample
        <5> QED  BY <5>1, <5>2 DEF Tick0
      <4>2. CASE EarlyCheck
        <5>1. tick \in Tick0 /\ \E s \in {"earlySkip", "read"} : tick' = [tick EXCEPT !.pc = s]
          BY <4>2, <1>0 DEF EarlyCheck, Typed
        <5> QED  BY <5>1 DEF Tick0
      <4>3. CASE ReadItems
        <5>1. tick \in Tick0 /\ rows \in [Items -> Status]
              /\ tick' = [tick EXCEPT !.pc = "late", !.rows = rows]
          BY <4>3, <1>0 DEF ReadItems, Typed
        <5> QED  BY <5>1 DEF Tick0
      <4> QED  BY <2>1, <4>1, <4>2, <4>3
    <3>3. shown' \in 1..Nothing
      BY <2>1, <1>0 DEF Sample, EarlyCheck, ReadItems, Typed
    <3> QED  BY <1>0, <2>0, <3>1, <3>2, <3>3 DEF Typed, TypeOK, LocalsOK, Tick0, Job
  <2>2. CASE LateCheck
    <3>1. UNCHANGED <<play, reported, shown, window, rows, rejected, cuts, spent>>
      BY <2>2 DEF LateCheck, player
    <3>2. tick' \in Tick0 /\ (tick'.pc \in {"lateSkip", "tombstone"} => tick'.hit \in Items)
      <4>1. CASE tick' = NoTick
        BY <4>1
      <4>2. ASSUME NEW i \in Items, tick' = [tick EXCEPT !.pc = "lateSkip", !.hit = i]
            PROVE  tick' \in Tick0 /\ tick'.hit \in Items
        <5>1. tick \in Tick0
          BY <1>0 DEF Typed
        <5> QED  BY ONLY <4>2, <5>1 DEF Tick0
      <4>3. tick' = NoTick \/ \E i \in Items : tick' = [tick EXCEPT !.pc = "lateSkip", !.hit = i]
        BY <2>2 DEF LateCheck, Hits
      <4> QED  BY <4>1, <4>2, <4>3
    <3> QED  BY <1>0, <2>0, <3>1, <3>2 DEF Typed, TypeOK, LocalsOK, Tick0, Job
  <2>3. ASSUME NEW ok \in BOOLEAN, EarlySkip(ok) \/ LateSkip(ok) PROVE Typed'
    <3>1. UNCHANGED <<shown, rows>> /\ tick.seen \in 1..Nothing
      BY <2>3, <1>0 DEF EarlySkip, LateSkip, Typed, Tick0
    <3>2. \E by \in {"poller", "late"} : Cut(tick.seen, by) \/ NoCut
      BY <2>3 DEF EarlySkip, LateSkip, PollerCut
    <3>3. window' \in Closed..Nothing
      BY <2>3, <3>1, <3>2, <1>0, CutTypes DEF EarlySkip, LateSkip, Typed, Closed
    <3>4. rejected' \subseteq Tracks /\ spent' \subseteq Items
      BY <2>3, <1>0 DEF EarlySkip, LateSkip, AfterSkip, Typed, LocalsOK
    <3>5. tick' \in Tick0 /\ (tick'.pc \in {"lateSkip", "tombstone"} => tick'.hit \in Items)
      <4>1. tick \in Tick0 /\ (tick.pc = "lateSkip" => tick.hit \in Items)
        BY <1>0 DEF Typed, LocalsOK
      <4>2. \/ tick' = NoTick \/ tick' = [tick EXCEPT !.pc = "read"]
            \/ tick' = [tick EXCEPT !.pc = "tombstone"] /\ tick.pc = "lateSkip"
        BY <2>3 DEF EarlySkip, LateSkip
      <4> QED  BY <4>1, <4>2 DEF Tick0
    <3> QED  BY <1>0, <2>0, <3>1, <3>2, <3>3, <3>4, <3>5, CutTypes
             DEF Typed, TypeOK, LocalsOK, Tick0, Job
  <2>4. ASSUME NEW ok \in BOOLEAN, Tombstone(ok) PROVE Typed'
    <3>1. UNCHANGED <<play, reported, shown, window, rejected, cuts>> /\ tick' = NoTick
      BY <2>4 DEF Tombstone, player
    <3>2. rows' \in [Items -> Status] /\ spent' \subseteq Items
      BY <2>4, <1>0 DEF Tombstone, Typed, Status
    <3> QED  BY <1>0, <2>0, <3>1, <3>2 DEF Typed, TypeOK, LocalsOK, Tick0, Job
  <2> QED  BY <1>1, <2>1, <2>2, <2>3, <2>4 DEF Tick
<1>2. ASSUME NEW c \in Calls, NEW i \in Items, RejectItem(c, i) PROVE Typed'
  <2> DEFINE locals == [NoJob EXCEPT !.kind = "item", !.track = TrackOf[i]]
  <2>1. locals \in Job /\ locals.track \in Tracks
    BY ConstantsAssumption DEF NoJob, Job
  <2> HIDE DEF locals
  <2>2. /\ pc' = [pc EXCEPT ![c] = "look"] /\ job' = [job EXCEPT ![c] = locals]
        /\ rows' = [rows EXCEPT ![i] = "rejected"] /\ spent' = spent \ {i}
        /\ UNCHANGED <<play, reported, shown, window, rejected, nowVotes, uriVotes, tick, cuts>>
    BY <1>2 DEF RejectItem, Begin, locals, player, tallies
  <2>3. rows' \in [Items -> Status]
    BY <2>2, <1>0 DEF Typed, Status
  <2>4. TypeOK'
    BY <1>0, <2>1, <2>2, <2>3 DEF Typed, TypeOK, Tick0, Job
  <2>5. LocalsOK'
    BY <1>0, <2>1, <2>2 DEF Typed, LocalsOK
  <2> QED  BY <2>4, <2>5 DEF Typed
<1>3. ASSUME NEW c \in Calls, NEW g \in Guests,
             VoteOnNow(c, g) \/ \E t \in Tracks : VoteOnUri(c, g, t)
      PROVE  Typed'
  <2>1. PICK locals \in Job : /\ locals.track \in Tracks /\ locals.guest \in Guests
                              /\ pc' = [pc EXCEPT ![c] = "vote"]
                              /\ job' = [job EXCEPT ![c] = locals]
    <3>1. CASE VoteOnNow(c, g)
      BY <1>0, <3>1 DEF VoteOnNow, Begin, Typed, Job
    <3>2. ASSUME NEW t \in Tracks, VoteOnUri(c, g, t)
          PROVE  \E locals \in Job : /\ locals.track \in Tracks /\ locals.guest \in Guests
                                    /\ pc' = [pc EXCEPT ![c] = "vote"]
                                    /\ job' = [job EXCEPT ![c] = locals]
      <4>1. AimAt(t) \in 1..Nothing
        BY <1>0 DEF AimAt, Typed
      <4> QED  BY <3>2, <4>1 DEF VoteOnUri, Begin, Job
    <3> QED  BY <1>3, <3>1, <3>2
  <2>2. UNCHANGED <<play, reported, shown, window, rows, rejected, nowVotes, uriVotes,
                    tick, cuts, spent>>
    BY <1>3 DEF VoteOnNow, VoteOnUri, player, tallies
  <2>3. TypeOK'
    <3>1. pc' \in [Calls -> {"idle", "look", "vote", "skip"}] /\ job' \in [Calls -> Job]
      BY <1>0, <2>1 DEF Typed
    <3> QED  BY <1>0, <2>2, <3>1 DEF Typed, TypeOK, Tick0, Job
  <2>4. LocalsOK'
    BY <1>0, <2>1, <2>2 DEF Typed, LocalsOK
  <2> QED  BY <2>3, <2>4 DEF Typed
<1>4. ASSUME NEW c \in Calls, NEW t \in Tracks, HostRejects(c, t) PROVE Typed'
  <2>1. /\ UNCHANGED <<play, reported, shown, window, rows, nowVotes, tick, cuts, spent>>
        /\ rejected' = rejected \cup {t}
    BY <1>4 DEF HostRejects, player
  <2>2. uriVotes' \in [Tracks -> SUBSET Guests]
    BY <1>4, <1>0 DEF HostRejects, Typed
  <2> DEFINE locals == [NoJob EXCEPT !.kind = "host", !.aim = AimAt(t), !.track = t]
  <2>3. locals \in Job /\ locals.track = t
    BY <1>0 DEF AimAt, NoJob, Job, Typed
  <2> HIDE DEF locals
  <2>4. \/ pc' = [pc EXCEPT ![c] = "skip"] /\ job' = [job EXCEPT ![c] = locals]
        \/ UNCHANGED <<pc, job>>
    BY <1>4 DEF HostRejects, Begin, calls, locals
  <2>5. TypeOK'
    <3>1. pc' \in [Calls -> {"idle", "look", "vote", "skip"}] /\ job' \in [Calls -> Job]
      BY <1>0, <2>3, <2>4 DEF Typed
    <3> QED  BY <1>0, <2>1, <2>2, <2>3, <3>1 DEF Typed, TypeOK, Tick0, Job
  <2>6. LocalsOK'
    BY <1>0, <2>1, <2>3, <2>4 DEF Typed, LocalsOK
  <2> QED  BY <2>5, <2>6 DEF Typed
<1>5. ASSUME NEW c \in Calls, LookAtRoom(c) PROVE Typed'
  <2>1. UNCHANGED <<play, reported, shown, window, rows, rejected, nowVotes, uriVotes,
                    tick, cuts, spent>>
    BY <1>5 DEF LookAtRoom, player, tallies
  <2>2. /\ pc' \in [Calls -> {"idle", "look", "vote", "skip"}] /\ job' \in [Calls -> Job]
        /\ \A d \in Calls \ {c} : pc'[d] = pc[d] /\ job'[d] = job[d]
        /\ pc'[c] \in {"idle", "skip"} /\ (pc'[c] = "skip" => job'[c].track = job[c].track)
        /\ pc[c] = "look"
    <3>1. CASE TrackAt(shown) = job[c].track
      <4>1. job' = [job EXCEPT ![c].aim = shown] /\ pc' = [pc EXCEPT ![c] = "skip"] /\ pc[c] = "look"
        BY <1>5, <3>1 DEF LookAtRoom
      <4>2. job'[c] = [job[c] EXCEPT !.aim = shown] /\ job[c] \in Job /\ shown \in 1..Nothing
        BY <4>1, <1>0 DEF Typed
      <4>3. job'[c] \in Job /\ job'[c].track = job[c].track
        BY <4>2 DEF Job
      <4> QED  BY <4>1, <4>3, <1>0 DEF Typed
    <3>2. CASE TrackAt(shown) # job[c].track
      BY <1>5, <3>2, <1>0 DEF LookAtRoom, Return, Typed
    <3> QED  BY <3>1, <3>2
  <2>3. TypeOK'
    BY <1>0, <2>1, <2>2 DEF Typed, TypeOK, Tick0, Job
  <2>4. LocalsOK'
    BY <1>0, <2>1, <2>2 DEF Typed, LocalsOK
  <2> QED  BY <2>3, <2>4 DEF Typed
<1>6. ASSUME NEW c \in Calls, CountNowVote(c) \/ CountUriVote(c) PROVE Typed'
  <2>1. /\ UNCHANGED <<play, reported, shown, window, rows, tick, cuts, spent>>
        /\ pc[c] = "vote" /\ job[c].track \in Tracks /\ job[c].guest \in Guests
    BY <1>6 DEF CountNowVote, CountUriVote, player, Typed, LocalsOK
  <2>2. rejected' \subseteq Tracks /\ uriVotes' \in [Tracks -> SUBSET Guests]
    <3>1. CASE CountNowVote(c)
      BY <3>1, <1>0 DEF CountNowVote, Typed
    <3>2. CASE CountUriVote(c)
      <4>1. \E v \in SUBSET Guests : uriVotes' = [uriVotes EXCEPT ![job[c].track] = v]
        BY <3>2, <1>0, <2>1 DEF CountUriVote, Typed
      <4>2. rejected' \in {rejected, rejected \cup {job[c].track}}
        BY <3>2 DEF CountUriVote
      <4> QED  BY <4>1, <4>2, <1>0, <2>1 DEF Typed
    <3> QED  BY <1>6, <3>1, <3>2
  <2>3. /\ nowVotes' \in [track: Tracks \cup {NoTrack}, voters: SUBSET Guests]
        /\ nowVotes'.voters # {} => nowVotes'.track \in Tracks
    <3>1. CASE CountNowVote(c)
      <4>1. PICK v \in SUBSET Guests : nowVotes' = [Bucket(job[c].track) EXCEPT !.voters = v]
        BY <3>1, <1>0, <2>1 DEF CountNowVote, Bucket, Typed
      <4>2. Bucket(job[c].track) \in [track: Tracks, voters: SUBSET Guests]
        BY <1>0, <2>1 DEF Bucket, Typed
      <4> QED  BY <4>1, <4>2
    <3>2. CASE CountUriVote(c)
      BY <3>2, <1>0 DEF CountUriVote, Typed
    <3> QED  BY <1>6, <3>1, <3>2
  <2>4. \/ pc' = [pc EXCEPT ![c] = "skip"] /\ job' = job
        \/ pc' = [pc EXCEPT ![c] = "idle"] /\ job' = [job EXCEPT ![c] = NoJob]
    BY <1>6 DEF CountNowVote, CountUriVote, Goto, Return
  <2>5. TypeOK'
    <3>1. pc' \in [Calls -> {"idle", "look", "vote", "skip"}] /\ job' \in [Calls -> Job]
      BY <1>0, <2>3, <2>4 DEF Typed
    <3> QED  BY <1>0, <2>1, <2>2, <2>3, <3>1 DEF Typed, TypeOK, Tick0, Job
  <2>6. LocalsOK'
    BY <1>0, <2>1, <2>4 DEF Typed, LocalsOK
  <2> QED  BY <2>5, <2>6 DEF Typed
<1>7. ASSUME NEW c \in Calls, NEW ok \in BOOLEAN, DirectSkip(c, ok) PROVE Typed'
  <2>1. /\ UNCHANGED <<shown, window, rows, tick, spent>> /\ pc[c] = "skip"
        /\ pc' = [pc EXCEPT ![c] = "idle"] /\ job' = [job EXCEPT ![c] = NoJob]
    BY <1>7 DEF DirectSkip, Return
  <2>2. rejected' \subseteq Tracks /\ uriVotes' \in [Tracks -> SUBSET Guests]
    BY <1>7, <1>0 DEF DirectSkip, AfterSkip, TallyDone, tallies, Typed
  <2>3. /\ nowVotes' \in [track: Tracks \cup {NoTrack}, voters: SUBSET Guests]
        /\ nowVotes'.voters # {} => nowVotes'.track \in Tracks
    <3>1. NoVotes \in [track: Tracks \cup {NoTrack}, voters: SUBSET Guests] /\ NoVotes.voters = {}
      BY DEF NoVotes
    <3>2. nowVotes' = nowVotes \/ nowVotes' = NoVotes
      BY <1>7 DEF DirectSkip, TallyDone, tallies
    <3> QED  BY <1>0, <3>1, <3>2 DEF Typed
  <2>4. job[c].aim \in 1..Nothing
    BY <1>0 DEF Typed, Job
  <2>5. Cut(job[c].aim, "call") \/ NoCut
    BY <1>7 DEF DirectSkip
  <2>6. TypeOK'
    BY <1>0, <2>1, <2>2, <2>3, <2>4, <2>5, CutTypes DEF Typed, TypeOK, Tick0, Job
  <2>7. LocalsOK'
    BY <1>0, <2>1 DEF Typed, LocalsOK
  <2> QED  BY <2>6, <2>7 DEF Typed
<1>8. ASSUME PlayerAdvances \/ ReportSettles PROVE Typed'
  <2>1. /\ UNCHANGED <<shown, rows, rejected, nowVotes, uriVotes, tick, pc, job, cuts, spent>>
        /\ window' \in Closed..Nothing
        /\ play' \in 1..Nothing /\ reported' \in 1..play'
    BY <1>8, <1>0, ConstantsAssumption DEF PlayerAdvances, ReportSettles,
       player, tallies, calls, Typed, Closed, Plays
  <2> QED  BY <1>0, <2>1 DEF Typed, TypeOK, LocalsOK, Tick0, Job
<1>9. ASSUME NEW i \in Items, WantAgain(i) PROVE Typed'
  <2>1. /\ UNCHANGED <<play, reported, shown, window, rejected, nowVotes, uriVotes, tick,
                       pc, job, cuts, spent>>
        /\ rows' \in [Items -> Status]
    BY <1>9, <1>0 DEF WantAgain, player, tallies, calls, Typed, Status
  <2> QED  BY <1>0, <2>1 DEF Typed, TypeOK, LocalsOK, Tick0, Job
<1>12. CASE WindowCloses
  <2>1. /\ UNCHANGED <<play, reported, shown, rows, rejected, nowVotes, uriVotes, pc, job,
                       cuts, spent>>
        /\ window' \in Closed..Nothing
    BY <1>12 DEF WindowCloses, player, tallies, calls, Closed
  <2>2. PICK b \in BOOLEAN : tick' = [tick EXCEPT !.late = b]
    BY <1>12, <1>0 DEF WindowCloses, Typed, Tick0
  <2>3. tick' \in Tick0 /\ tick'.pc = tick.pc /\ tick'.hit = tick.hit
    BY <1>0, <2>2 DEF Typed, Tick0
  <2> QED  BY <1>0, <2>1, <2>3 DEF Typed, TypeOK, LocalsOK, Tick0, Job
<1>13. CASE Restart
  <2>1. /\ UNCHANGED <<play, reported, rows>> /\ tick' = NoTick
        /\ shown' \in 1..Nothing /\ window' \in Closed..Nothing
        /\ rejected' = {} /\ cuts' = {}
    BY <1>13 DEF Restart, player, Closed
  <2>2. nowVotes' \in [track: Tracks \cup {NoTrack}, voters: SUBSET Guests]
        /\ nowVotes'.voters = {} /\ uriVotes' \in [Tracks -> SUBSET Guests]
        /\ spent' \subseteq Items
    BY <1>13, <1>0 DEF Restart, NoVotes, Typed
  <2>3. /\ pc' \in [Calls -> {"idle", "look", "vote", "skip"}] /\ job' \in [Calls -> Job]
        /\ \A c \in Calls : pc'[c] = "idle"
    BY <1>13 DEF Restart
  <2> QED  BY <1>0, <2>1, <2>2, <2>3 DEF Typed, TypeOK, LocalsOK, Tick0, Job
<1>10. ASSUME UNCHANGED vars PROVE Typed'
  BY <1>10 DEF vars, player, tallies, calls, Typed, TypeOK, LocalsOK
<1>11. Tick => UNCHANGED <<calls, tallies>>
  BY DEF Tick, Sample, EarlyCheck, EarlySkip, ReadItems, LateCheck, LateSkip, Tombstone
<1> QED
  BY <1>1, <1>2, <1>3, <1>4, <1>5, <1>6, <1>7, <1>8, <1>9, <1>10, <1>11, <1>12, <1>13
     DEF Next, CallBegins, CallProceeds

\* The player, the tallies, the tick and every call's locals keep their types.
THEOREM TypeCorrect == Spec => []TypeOK
<1>1. Typed => TypeOK
  BY DEF Typed
<1> QED  BY <1>1, TypedInit, TypedStep, PTL DEF Spec

LEMMA TypedAlways == Spec => []Typed
BY TypedInit, TypedStep, PTL DEF Spec

-----------------------------------------------------------------------------
(* PollerSkipsOnce.  The settle window orders the poller's skips: while it *)
(* is open they all began plays up to its own, and once it has closed the  *)
(* player has left every play they were meant for.  Only a late tick still *)
(* looks at one of those.                                                  *)

PollerCuts == {s \in cuts : s.by # "call"}

\* A tick whose check has passed, or may still pass, without another window.
Aimed == tick.pc \in {"earlySkip", "lateSkip"}

SkipsSettled ==
    /\ tick.pc # "idle" => tick.seen <= reported
    /\ \A s \in PollerCuts : s.aim <= s.play /\ s.play < play
    /\ window # Closed => \A s \in PollerCuts : s.aim < window
    /\ window = Closed =>
          \A s \in PollerCuts :
              /\ s.aim < reported
              /\ tick.pc # "idle" => s.aim < tick.seen \/ tick.late
    /\ Aimed => \A s \in PollerCuts : s.aim < tick.seen \/ tick.late
    /\ PollerSkipsOnce

\* A skip the poller dispatches for a play later than all it skipped for, or
\* late.
LEMMA PollerCutStep ==
  ASSUME Typed, SkipsSettled, Aimed, PollerCut, window' = play',
         tick'.pc \in {"read", "tombstone"}, tick'.seen = tick.seen
  PROVE  SkipsSettled'
<1> USE DEF Typed, TypeOK
<1> DEFINE who == IF tick.late THEN "late" ELSE "poller"
           new == [play |-> play, aim |-> tick.seen, by |-> who]
<1>1. /\ play \in Nat /\ play \in Plays /\ play' = play + 1 /\ reported' = reported
      /\ tick.seen <= reported /\ reported <= play
      /\ tick.seen \in Nat /\ reported \in Nat
      /\ cuts' = cuts \cup {new}
  BY PlayTypes DEF SkipsSettled, Aimed, Cut, PollerCut
<1>2. \A s \in PollerCuts : /\ s.aim \in Nat /\ s.play \in Nat /\ s.play < play
                            /\ s.aim <= s.play
                            /\ s.aim < tick.seen \/ tick.late
  BY <1>1, PlayTypes DEF SkipsSettled, PollerCuts
<1>3. (\A s \in PollerCuts' : s \in PollerCuts \/ s = new) /\ new.aim = tick.seen
      /\ new.play = play /\ (tick.late => new.by = "late")
  <2>1. \A s \in cuts' : s \in cuts \/ s = new
    BY <1>1
  <2> QED  BY <2>1 DEF PollerCuts
<1>4. PollerSkipsOnce'
  <2> HIDE DEF who, new
  <2>1. \A s, t \in PollerCuts : s.aim = t.aim /\ s.play < t.play => t.by = "late"
    BY DEF SkipsSettled, PollerSkipsOnce, PollerCuts
  <2>2. \A s, t \in PollerCuts' : s.aim = t.aim /\ s.play < t.play => t.by = "late"
    BY <1>1, <1>2, <1>3, <2>1
  <2> QED  BY <2>2 DEF PollerSkipsOnce, PollerCuts
<1>5. /\ window' # Closed
      /\ \A s \in PollerCuts' : s.aim < window' /\ s.aim <= s.play /\ s.play < play'
  <2> HIDE DEF who, new
  <2> QED  BY <1>1, <1>2, <1>3 DEF Closed
<1> QED  BY <1>1, <1>4, <1>5 DEF SkipsSettled, Aimed

LEMMA SkipsSettledStep == Typed /\ SkipsSettled /\ [Next]_vars => SkipsSettled'
<1> SUFFICES ASSUME Typed, SkipsSettled, [Next]_vars PROVE SkipsSettled'
  OBVIOUS
<1> USE DEF Typed, TypeOK
<1>0. /\ \A s \in cuts : s.aim \in Nat /\ s.play \in Nat
      /\ play \in Nat /\ reported \in Nat /\ tick.seen \in Nat /\ window \in Nat
      /\ tick \in Tick0
  BY PlayTypes DEF Closed, Tick0
\* Steps that cut nothing for the poller and leave its window alone.
<1>1. ASSUME PollerCuts' = PollerCuts, UNCHANGED window, reported <= reported',
             reported' \in Nat, play <= play', play' \in Nat,
             \/ tick'.pc = "idle"
             \/ tick'.seen = tick.seen /\ tick'.late = tick.late /\ tick.pc # "idle",
             Aimed' => Aimed \/ window = Closed
      PROVE  SkipsSettled'
  <2>1. PollerSkipsOnce'
    BY <1>1 DEF PollerSkipsOnce, SkipsSettled, PollerCuts
  <2>2. \A s \in PollerCuts : s.aim \in Nat /\ s.play \in Nat
    BY <1>0 DEF PollerCuts
  <2> QED  BY <1>0, <1>1, <2>1, <2>2 DEF SkipsSettled, Aimed
<1>2. ASSUME UNCHANGED <<cuts, window, tick>>, reported <= reported', reported' \in Nat,
             play <= play', play' \in Nat
      PROVE  SkipsSettled'
  <2>1. CASE tick.pc = "idle"
    BY <1>1, <1>2, <2>1 DEF PollerCuts, Aimed
  <2>2. CASE tick.pc # "idle"
    BY <1>1, <1>2, <2>2 DEF PollerCuts, Aimed
  <2> QED  BY <2>1, <2>2
<1>3. CASE Sample
  <2>1. /\ tick' = [NoTick EXCEPT !.pc = "early", !.seen = reported]
        /\ UNCHANGED <<play, reported, window, cuts>>
    BY <1>3 DEF Sample, player
  <2>2. tick'.pc = "early" /\ tick'.seen = reported
    BY <2>1 DEF NoTick
  <2> QED  BY <1>0, <2>1, <2>2 DEF SkipsSettled, PollerSkipsOnce, PollerCuts, Aimed
<1>4. CASE EarlyCheck \/ ReadItems \/ LateCheck \/ \E ok \in BOOLEAN : Tombstone(ok)
  <2>1. /\ UNCHANGED <<play, reported, window, cuts>>
        /\ tick.pc # "idle"
        /\ Aimed' => window = Closed
    BY <1>4, NoneTypes DEF EarlyCheck, MayEarlySkip, ReadItems, LateCheck, Tombstone,
       player, Aimed, Tick0
  <2>2. tick'.pc = "idle" \/ (tick'.seen = tick.seen /\ tick'.late = tick.late)
    BY <1>0, <1>4, NoneTypes DEF EarlyCheck, ReadItems, LateCheck, Tombstone, Tick0
  <2> QED  BY <1>0, <1>1, <2>1, <2>2 DEF PollerCuts
<1>6. ASSUME NEW ok \in BOOLEAN, EarlySkip(ok) PROVE SkipsSettled'
  <2>1. /\ Aimed /\ tick'.pc = "read" /\ tick'.seen = tick.seen /\ tick'.late = tick.late
        /\ ~Aimed' /\ tick.pc # "idle"
    BY <1>0, <1>6 DEF EarlySkip, Aimed, Tick0
  <2>2. CASE ok
    BY <1>6, <2>1, <2>2, PollerCutStep DEF EarlySkip
  <2>3. CASE ~ok
    BY <1>0, <1>1, <1>6, <2>1, <2>3 DEF EarlySkip, NoCut, player, PollerCuts
  <2> QED  BY <2>2, <2>3
<1>7. ASSUME NEW ok \in BOOLEAN, LateSkip(ok) PROVE SkipsSettled'
  <2>1. Aimed
    BY <1>7 DEF LateSkip, Aimed
  <2>2. CASE ok
    <3>1. tick'.pc = "tombstone" /\ tick'.seen = tick.seen
      BY <1>0, <1>7, <2>2 DEF LateSkip, Tick0
    <3> QED  BY <1>7, <2>1, <2>2, <3>1, PollerCutStep DEF LateSkip
  <2>3. CASE ~ok
    <3>1. tick'.pc = "idle" /\ ~Aimed'
      BY <1>7, <2>3, NoneTypes DEF LateSkip, Aimed
    <3> QED
      BY <1>0, <1>1, <1>7, <2>3, <3>1 DEF LateSkip, NoCut, player, PollerCuts
  <2> QED  BY <2>2, <2>3
<1>8. ASSUME NEW c \in Calls, CallBegins(c) PROVE SkipsSettled'
  <2>1. UNCHANGED <<cuts, window, tick, play, reported>>
    BY <1>8 DEF CallBegins, RejectItem, VoteOnNow, VoteOnUri, HostRejects, player
  <2> QED  BY <1>0, <1>2, <2>1
<1>9. ASSUME NEW c \in Calls, LookAtRoom(c) \/ CountNowVote(c) \/ CountUriVote(c)
      PROVE  SkipsSettled'
  BY <1>0, <1>2, <1>9 DEF LookAtRoom, CountNowVote, CountUriVote, player
<1>10. ASSUME NEW c \in Calls, NEW ok \in BOOLEAN, DirectSkip(c, ok) PROVE SkipsSettled'
  <2>1. /\ UNCHANGED <<window, tick>> /\ reported' = reported
        /\ play <= play' /\ play' \in Nat
        /\ cuts' \subseteq cuts \cup {[play |-> play, aim |-> job[c].aim, by |-> "call"]}
        /\ cuts \subseteq cuts'
    BY <1>0, <1>10 DEF DirectSkip, Cut, NoCut, player
  <2>2. PollerCuts' = PollerCuts
    BY <2>1 DEF PollerCuts
  <2>3. CASE tick.pc = "idle"
    BY <1>0, <1>1, <2>1, <2>2, <2>3 DEF Aimed
  <2>4. CASE tick.pc # "idle"
    BY <1>0, <1>1, <2>1, <2>2, <2>4 DEF Aimed
  <2> QED  BY <2>3, <2>4
<1>11. CASE PlayerAdvances \/ ReportSettles
  BY <1>0, <1>2, <1>11, PlayTypes DEF PlayerAdvances, ReportSettles
<1>12. CASE WindowCloses
  <2>1. /\ window # Closed /\ reported >= window
        /\ window' = Closed /\ UNCHANGED <<play, reported, cuts>>
    BY <1>12 DEF WindowCloses, player
  <2>2. \A s \in PollerCuts : s.aim \in Nat /\ s.aim < window
    BY <1>0, <2>1 DEF SkipsSettled, PollerCuts
  <2>3. /\ tick'.pc = tick.pc /\ tick'.seen = tick.seen
        /\ tick.late => tick'.late
        /\ tick.pc # "idle" /\ tick.seen < window => tick'.late
    BY <1>0, <1>12 DEF WindowCloses, Tick0
  <2> QED  BY <1>0, <2>1, <2>2, <2>3 DEF SkipsSettled, PollerSkipsOnce, PollerCuts, Aimed
<1>13. CASE (\E i \in Items : WantAgain(i)) \/ UNCHANGED vars
  BY <1>0, <1>2, <1>13 DEF WantAgain, player, vars
<1>14. CASE Restart
  BY <1>14, NoneTypes DEF Restart, SkipsSettled, PollerSkipsOnce, PollerCuts, Aimed
<1> QED
  BY <1>3, <1>4, <1>6, <1>7, <1>8, <1>9, <1>10, <1>11, <1>12, <1>13, <1>14
     DEF Next, Tick, CallProceeds

\* The settle guard of the poller: although the player's reports lag and other
\* calls skip meanwhile, it skips again for a play it has skipped for only in a
\* tick that sampled before the first skip and outlasted the settle time.
THEOREM PollerSkipsOnceHolds == Spec => []PollerSkipsOnce
<1>1. Init => SkipsSettled
  BY NoneTypes DEF Init, SkipsSettled, PollerSkipsOnce, PollerCuts, Aimed
<1>2. SkipsSettled => PollerSkipsOnce
  BY DEF SkipsSettled
<1> QED  BY <1>1, <1>2, SkipsSettledStep, TypedAlways, PTL DEF Spec

-----------------------------------------------------------------------------
(* RejectionSpentOnce.  A rejection the reconcile pass has acted on is one *)
(* whose row is no longer rejected, but for the tombstone still to come.   *)

SpentRejections ==
    /\ \A i \in spent : rows[i] = "rejected" => tick.pc = "tombstone" /\ tick.hit = i
    /\ tick.pc = "late" => \A i \in spent : tick.rows[i] # "rejected"
    /\ RejectionSpentOnce

LEMMA SpentStep == Typed /\ SpentRejections /\ [Next]_vars => SpentRejections'
<1> SUFFICES ASSUME Typed, SpentRejections, [Next]_vars PROVE SpentRejections'
  OBVIOUS
<1> USE DEF Typed, TypeOK, SpentRejections, RejectionSpentOnce
<1>1. ASSUME spent' \subseteq spent, UNCHANGED tick,
             \A i \in spent' : rows'[i] = "rejected" => rows[i] = "rejected"
      PROVE  SpentRejections'
  BY <1>1
<1>2. CASE Sample \/ EarlyCheck
  <2>1. UNCHANGED <<rows, spent>> /\ tick.pc \in {"idle", "early"}
        /\ tick'.pc \in {"early", "earlySkip", "read"}
    BY <1>2 DEF Sample, EarlyCheck, NoTick
  <2> QED  BY <2>1
<1>3. ASSUME NEW ok \in BOOLEAN, EarlySkip(ok) PROVE SpentRejections'
  BY <1>3 DEF EarlySkip
<1>4. CASE ReadItems
  BY <1>4 DEF ReadItems
<1>5. CASE LateCheck
  <2>1. /\ UNCHANGED <<rows, spent>> /\ tick.pc = "late"
        /\ \/ tick' = NoTick
           \/ \E i \in Items : /\ tick.rows[i] = "rejected"
                               /\ tick' = [tick EXCEPT !.pc = "lateSkip", !.hit = i]
    BY <1>5 DEF LateCheck, Hits
  <2> QED  BY <2>1, NoneTypes
<1>6. ASSUME NEW ok \in BOOLEAN, LateSkip(ok) PROVE SpentRejections'
  <2>1. tick.pc = "lateSkip" /\ UNCHANGED rows
    BY <1>6 DEF LateSkip
  <2>2. CASE ok
    <3>1. spent' = spent \cup {tick.hit} /\ tick' = [tick EXCEPT !.pc = "tombstone"]
      BY <1>6, <2>2 DEF LateSkip
    <3> QED  BY <2>1, <3>1
  <2>3. CASE ~ok
    BY <1>6, <2>1, <2>3, NoneTypes DEF LateSkip
  <2> QED  BY <2>2, <2>3
<1>7. ASSUME NEW ok \in BOOLEAN, Tombstone(ok) PROVE SpentRejections'
  BY <1>7, NoneTypes DEF Tombstone, LocalsOK
<1>8. ASSUME NEW c \in Calls, NEW i \in Items, RejectItem(c, i) PROVE SpentRejections'
  <2>1. rows' = [rows EXCEPT ![i] = "rejected"] /\ spent' = spent \ {i} /\ UNCHANGED tick
    BY <1>8 DEF RejectItem
  <2> QED  BY <1>1, <2>1
<1>9. ASSUME NEW c \in Calls,
             \/ \E g \in Guests : VoteOnNow(c, g) \/ \E t \in Tracks : VoteOnUri(c, g, t)
             \/ \E t \in Tracks : HostRejects(c, t)
             \/ CallProceeds(c)
      PROVE  SpentRejections'
  <2>1. UNCHANGED <<rows, tick, spent>>
    BY <1>9 DEF VoteOnNow, VoteOnUri, HostRejects, CallProceeds, LookAtRoom,
       CountNowVote, CountUriVote, DirectSkip
  <2> QED  BY <1>1, <2>1
<1>10. ASSUME NEW i \in Items, WantAgain(i) PROVE SpentRejections'
  <2>1. rows' = [rows EXCEPT ![i] = "approved"] /\ UNCHANGED <<tick, spent>>
    BY <1>10 DEF WantAgain
  <2> QED  BY <1>1, <2>1
<1>11. CASE PlayerAdvances \/ ReportSettles \/ UNCHANGED vars
  BY <1>1, <1>11 DEF PlayerAdvances, ReportSettles, vars
<1>12. CASE WindowCloses
  <2>1. UNCHANGED <<rows, spent>> /\ \E b \in BOOLEAN : tick' = [tick EXCEPT !.late = b]
    BY <1>12 DEF WindowCloses
  <2>2. tick'.pc = tick.pc /\ tick'.hit = tick.hit /\ tick'.rows = tick.rows
    BY <2>1
  <2> QED  BY <2>1, <2>2
<1>13. CASE Restart
  <2>1. UNCHANGED rows /\ tick' = NoTick
        /\ spent' = IF tick.pc = "tombstone" THEN spent \ {tick.hit} ELSE spent
    BY <1>13 DEF Restart
  <2> QED  BY <2>1, NoneTypes
<1> QED
  BY <1>2, <1>3, <1>4, <1>5, <1>6, <1>7, <1>8, <1>9, <1>10, <1>11, <1>12, <1>13
     DEF Next, Tick, CallBegins

\* One rejection of an item costs the room one skip by the reconcile pass, and
\* one more for each tombstone that was lost, whatever is decided about the row
\* between its skip and its tombstone.
THEOREM RejectionSpentOnceHolds == Spec => []RejectionSpentOnce
<1>1. Init => SpentRejections
  BY NoneTypes DEF Init, SpentRejections, RejectionSpentOnce
<1>2. SpentRejections => RejectionSpentOnce
  BY DEF SpentRejections
<1> QED  BY <1>1, <1>2, SpentStep, TypedAlways, PTL DEF Spec

-----------------------------------------------------------------------------
(* FullTalliesAct.                                                         *)

Full(voters) == Cardinality(voters) >= Threshold

NowActs == Full(nowVotes.voters) => \E t \in Tracks : Skipping("now", t)
UriActs(t) == VotesDecide /\ Full(uriVotes[t]) => Skipping("uri", t)

LEMMA EmptyNotFull == ~Full({})
  BY FS_EmptySet, ConstantsAssumption DEF Full

\* Tallies a step leaves alone go on having their skipper.
LEMMA SkippersStay ==
  ASSUME NEW kind, NEW t,
         \A c \in Calls : pc[c] = "skip" /\ job[c].kind = kind /\ job[c].track = t
                              => pc'[c] = pc[c] /\ job'[c] = job[c]
  PROVE  Skipping(kind, t) => Skipping(kind, t)'
  BY DEF Skipping

LEMMA TalliesStep ==
  Typed /\ FullTalliesAct /\ [Next]_vars => FullTalliesAct'
<1> SUFFICES ASSUME Typed, FullTalliesAct, [Next]_vars PROVE FullTalliesAct'
  OBVIOUS
<1> USE DEF Typed, TypeOK
<1>0. NowActs /\ \A t \in Tracks : UriActs(t)
  BY DEF FullTalliesAct, NowActs, UriActs, Full
<1>1. ASSUME NowActs', \A t \in Tracks : UriActs(t)' PROVE FullTalliesAct'
  BY <1>1 DEF FullTalliesAct, NowActs, UriActs, Full, VotesDecide
<1>2. ASSUME nowVotes' = nowVotes, \A c \in Calls : pc[c] = "skip" /\ job[c].kind = "now"
                                       => pc'[c] = pc[c] /\ job'[c] = job[c]
      PROVE  NowActs'
  BY <1>0, <1>2, SkippersStay DEF NowActs, Full
<1>3. ASSUME NEW t \in Tracks, uriVotes'[t] = uriVotes[t],
             \A c \in Calls : pc[c] = "skip" /\ job[c].kind = "uri" /\ job[c].track = t
                                       => pc'[c] = pc[c] /\ job'[c] = job[c]
      PROVE  UriActs(t)'
  BY <1>0, <1>3, SkippersStay DEF UriActs, Full, VotesDecide
<1>4. ASSUME UNCHANGED tallies,
             \A c \in Calls : pc[c] = "skip" => pc'[c] = pc[c] /\ job'[c] = job[c]
      PROVE  FullTalliesAct'
  BY <1>1, <1>2, <1>3, <1>4 DEF tallies
<1>5. CASE Tick \/ PlayerAdvances \/ ReportSettles \/ WindowCloses
           \/ (\E i \in Items : WantAgain(i)) \/ UNCHANGED vars
  <2>1. UNCHANGED <<tallies, pc, job>>
    BY <1>5 DEF Tick, Sample, EarlyCheck, EarlySkip, ReadItems, LateCheck, LateSkip,
       Tombstone, PlayerAdvances, ReportSettles, WindowCloses, WantAgain, calls, vars
  <2> QED  BY <1>4, <2>1
<1>6. ASSUME NEW c \in Calls,
             \/ \E i \in Items : RejectItem(c, i)
             \/ \E g \in Guests : VoteOnNow(c, g) \/ \E t \in Tracks : VoteOnUri(c, g, t)
             \/ LookAtRoom(c)
      PROVE  FullTalliesAct'
  BY <1>4, <1>6 DEF RejectItem, VoteOnNow, VoteOnUri, LookAtRoom, Begin, Return
<1>7. ASSUME NEW c \in Calls, NEW t \in Tracks, HostRejects(c, t) PROVE FullTalliesAct'
  <2>1. /\ UNCHANGED nowVotes
        /\ \A d \in Calls : pc[d] = "skip" => pc'[d] = pc[d] /\ job'[d] = job[d]
    BY <1>7 DEF HostRejects, Begin, calls
  <2>2. ASSUME NEW u \in Tracks PROVE uriVotes'[u] = uriVotes[u] \/ uriVotes'[u] = {}
    BY <1>7, <2>2 DEF HostRejects
  <2>3. ASSUME NEW u \in Tracks PROVE UriActs(u)'
    BY <1>3, <2>1, <2>2, <2>3, EmptyNotFull DEF UriActs, Full, VotesDecide
  <2> QED  BY <1>1, <1>2, <2>1, <2>3
<1>8. ASSUME NEW c \in Calls, CountNowVote(c) PROVE FullTalliesAct'
  <2> PICK t : t = job[c].track
    OBVIOUS
  <2>1. /\ pc[c] = "vote" /\ job[c].kind = "now" /\ t \in Tracks
        /\ UNCHANGED uriVotes /\ \A d \in Calls \ {c} : pc'[d] = pc[d] /\ job'[d] = job[d]
    BY <1>8 DEF CountNowVote, Goto, Return, LocalsOK
  <2> DEFINE bucket == Bucket(t)
             voters == bucket.voters \cup {job[c].guest}
  <2>2. nowVotes' = [bucket EXCEPT !.voters = voters] /\ nowVotes'.voters = voters
    BY <1>8 DEF CountNowVote, Bucket
  <2>3. NowActs'
    <3>1. CASE job[c].guest \notin bucket.voters /\ Full(voters)
      <4>1. pc' = [pc EXCEPT ![c] = "skip"] /\ job' = job
        BY <1>8, <3>1 DEF CountNowVote, Goto, Full
      <4> QED  BY <2>1, <4>1 DEF NowActs, Skipping
    <3>2. CASE job[c].guest \in bucket.voters
      <4>1. bucket = nowVotes /\ voters = nowVotes.voters
        BY <3>2 DEF Bucket
      <4> QED  BY <1>2, <2>1, <2>2, <4>1
    <3>3. CASE ~Full(voters)
      BY <2>2, <3>3 DEF NowActs, Full
    <3> QED  BY <3>1, <3>2, <3>3
  <2> QED  BY <1>1, <1>3, <2>1, <2>3
<1>9. ASSUME NEW c \in Calls, CountUriVote(c) PROVE FullTalliesAct'
  <2> PICK t : t = job[c].track
    OBVIOUS
  <2>1. /\ pc[c] = "vote" /\ job[c].kind = "uri" /\ t \in Tracks
        /\ UNCHANGED nowVotes /\ \A d \in Calls \ {c} : pc'[d] = pc[d] /\ job'[d] = job[d]
        /\ \A u \in Tracks \ {t} : uriVotes'[u] = uriVotes[u]
    BY <1>9 DEF CountUriVote, Goto, Return, LocalsOK
  <2> DEFINE voters == uriVotes[t] \cup {job[c].guest}
             decided == job[c].guest \notin uriVotes[t] /\ Full(voters) /\ VotesDecide
  <2>2. UriActs(t)'
    <3>1. CASE decided /\ job[c].aim \in Plays
      <4>1. pc' = [pc EXCEPT ![c] = "skip"] /\ job' = job
        BY <1>9, <3>1 DEF CountUriVote, Goto, Full
      <4> QED  BY <2>1, <4>1 DEF UriActs, Skipping
    <3>2. CASE decided /\ job[c].aim \notin Plays
      <4>1. uriVotes'[t] = {}
        BY <1>9, <2>1, <3>2 DEF CountUriVote, Full
      <4> QED  BY <4>1, EmptyNotFull DEF UriActs, Full
    <3>3. CASE ~decided
      <4>1. uriVotes'[t] = voters
        BY <1>9, <2>1, <3>3 DEF CountUriVote, Full
      <4>2. CASE job[c].guest \in uriVotes[t]
        <5>1. uriVotes'[t] = uriVotes[t]
          BY <4>1, <4>2
        <5> QED  BY <1>3, <2>1, <5>1
      <4>3. CASE ~Full(voters) \/ ~VotesDecide
        BY <4>1, <4>3 DEF UriActs, Full, VotesDecide
      <4> QED  BY <3>3, <4>2, <4>3
    <3> QED  BY <3>1, <3>2, <3>3
  <2> QED  BY <1>1, <1>2, <1>3, <2>1, <2>2
<1>10. ASSUME NEW c \in Calls, NEW ok \in BOOLEAN, DirectSkip(c, ok) PROVE FullTalliesAct'
  <2>1. \A d \in Calls \ {c} : pc'[d] = pc[d] /\ job'[d] = job[d]
    BY <1>10 DEF DirectSkip, Return
  <2>2. NowActs'
    <3>1. CASE job[c].kind = "now"
      <4>1. nowVotes'.voters = {}
        BY <1>10, <3>1 DEF DirectSkip, TallyDone, NoVotes
      <4> QED  BY <4>1, EmptyNotFull DEF NowActs, Full
    <3>2. CASE job[c].kind # "now"
      BY <1>2, <1>10, <2>1, <3>2 DEF DirectSkip, TallyDone
    <3> QED  BY <3>1, <3>2
  <2>3. ASSUME NEW t \in Tracks PROVE UriActs(t)'
    <3>1. CASE job[c].kind \in {"uri", "host"} /\ job[c].track = t
      <4>1. uriVotes'[t] = {}
        BY <1>10, <3>1 DEF DirectSkip, TallyDone
      <4> QED  BY <4>1, EmptyNotFull DEF UriActs, Full
    <3>2. CASE ~(job[c].kind \in {"uri", "host"} /\ job[c].track = t)
      <4>1. uriVotes'[t] = uriVotes[t]
        BY <1>10, <3>2 DEF DirectSkip, TallyDone
      <4> QED  BY <1>3, <2>1, <3>2, <4>1
    <3> QED  BY <3>1, <3>2
  <2> QED  BY <1>1, <2>2, <2>3
<1>11. CASE Restart
  <2>1. nowVotes'.voters = {} /\ \A t \in Tracks : uriVotes'[t] = {}
    BY <1>11 DEF Restart, NoVotes
  <2> QED  BY <1>1, <2>1, EmptyNotFull DEF NowActs, UriActs, Full
<1> QED
  BY <1>5, <1>6, <1>7, <1>8, <1>9, <1>10, <1>11 DEF Next, CallBegins, CallProceeds

\* No tally of skip votes is left at its threshold: the call that filled it is
\* on its way to the player and empties it, although the skip may fail and
\* other calls vote, reject and skip meanwhile.
THEOREM FullTalliesActHolds == Spec => []FullTalliesAct
<1>1. Init => FullTalliesAct
  BY EmptyNotFull DEF Init, FullTalliesAct, NoVotes, Full
<1> QED  BY <1>1, TalliesStep, TypedAlways, PTL DEF Spec
=============================================================================
