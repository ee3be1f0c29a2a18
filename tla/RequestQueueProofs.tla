------------------------ MODULE RequestQueueProofs ------------------------
(* Theorems of RequestQueue for every value of its constants. *)
EXTENDS RequestQueue, TLAPS, FiniteSetTheorems

-----------------------------------------------------------------------------
(* Type correctness.  The locals of a call are set before they are used.   *)

Holding == Step \ {"idle", "reqEnter", "reqRead", "reqAssert", "reqInsert"}

\* What a call's locals are at each of its steps.
LocalsOK ==
    \A c \in Calls :
        /\ pc[c] \in {"reqEnter", "reqRead", "reqAssert", "reqInsert"} =>
               job[c].guest \in Guests /\ job[c].track \in Tracks
        /\ pc[c] \in {"reqClaim", "voteInsert", "voteCount"} =>
               job[c].guest \in Guests
        /\ pc[c] \in Holding => job[c].item \in 1..lastId
        /\ pc[c] \in {"modAssert", "modSet"} =>
               job[c].decision \in {"approved", "rejected"}

Typed == TypeOK /\ LocalsOK

LEMMA NoJobType == NoJob \in Job
  BY ConstantsAssumption DEF NoJob, Job

LEMMA TypedInit == Init => Typed
<1> SUFFICES ASSUME Init PROVE Typed
  OBVIOUS
<1>1. DOMAIN rows = {} /\ rows \in [DOMAIN rows -> Row]
  BY DEF Init
<1>2. pc \in [Calls -> Step] /\ job \in [Calls -> Job]
  BY NoJobType DEF Init, Step
<1>3. /\ session \in [ended: BOOLEAN, moderationEnabled: BOOLEAN]
      /\ room \in [pending: SUBSET ItemId, queue: SUBSET ItemId]
  BY DEF Init
<1>4. TypeOK
  <2>1. DOMAIN rows \subseteq 1..lastId /\ lastId \in 0..MaxItems
    BY <1>1, ConstantsAssumption DEF Init
  <2>2. /\ votes \subseteq ItemId \X Guests /\ claims \subseteq ItemId \X Guests
        /\ cooldown \in BOOLEAN
        /\ pushed \subseteq ItemId /\ approved \subseteq ItemId
        /\ stranded \subseteq ItemId /\ overtaken \subseteq ItemId
        /\ DOMAIN pollSeen \subseteq ItemId
    BY DEF Init
  <2> QED  BY <1>1, <1>2, <1>3, <2>1, <2>2 DEF TypeOK
<1>5. LocalsOK
  BY DEF Init, LocalsOK, Holding
<1> QED  BY <1>4, <1>5 DEF Typed

LEMMA TypedStep == Typed /\ [Next]_vars => Typed'
<1> SUFFICES ASSUME Typed, [Next]_vars PROVE Typed'
  OBVIOUS
<1> USE ConstantsAssumption, NoJobType
<1> USE DEF Typed, TypeOK, LocalsOK, ItemId, Holding, history
<1>1. ASSUME NEW c \in Calls, NEW g \in Guests, NEW t \in Tracks,
             NEW mic \in BOOLEAN, RequestTrack(c, g, t, mic)
      PROVE  Typed'
  <2> DEFINE locals == [NoJob EXCEPT !.guest = g, !.track = t, !.mic = mic,
                           !.beforeEnd = ~session.ended]
  <2>1. locals \in Job
    BY DEF NoJob, Job
  <2>2. locals.guest = g /\ locals.track = t
    BY DEF NoJob
  <2> HIDE DEF locals
  <2>3. /\ pc' = [pc EXCEPT ![c] = "reqEnter"] /\ job' = [job EXCEPT ![c] = locals]
        /\ UNCHANGED <<session, tables, room, provider, pollSeen, history>>
    BY <1>1 DEF RequestTrack, Begin, locals
  <2> QED  BY <2>1, <2>2, <2>3 DEF tables, provider, Step
<1>2. ASSUME NEW c \in Calls, NEW i \in ItemId, NEW d \in {"approved", "rejected"},
             Moderate(c, i, d)
      PROVE  Typed'
  <2> DEFINE locals == [NoJob EXCEPT !.item = i, !.decision = d]
  <2>1. locals \in Job /\ locals.item = i /\ locals.decision = d
    <3>1. i \in 0..MaxItems
      OBVIOUS
    <3> QED  BY ONLY <3>1, NoJobType DEF NoJob, Job
  <2>2. i \in 1..lastId
    BY <1>2 DEF Moderate, Nameable
  <2> HIDE DEF locals
  <2>3. /\ pc' = [pc EXCEPT ![c] = IF d = "approved" THEN "modAssert" ELSE "modSet"]
        /\ job' = [job EXCEPT ![c] = locals]
        /\ UNCHANGED <<session, tables, room, provider, pollSeen, history>>
    BY <1>2 DEF Moderate, Begin, locals
  <2> QED  BY <2>1, <2>2, <2>3 DEF tables, provider, Step
<1>3. ASSUME NEW c \in Calls, NEW g \in Guests, NEW i \in ItemId, RemoveOwn(c, g, i)
      PROVE  Typed'
  <2> DEFINE locals == [NoJob EXCEPT !.guest = g, !.item = i]
  <2>1. locals \in Job /\ locals.item = i /\ locals.guest = g
    <3>1. i \in 0..MaxItems
      OBVIOUS
    <3> QED  BY ONLY <3>1, NoJobType DEF NoJob, Job
  <2>2. i \in 1..lastId
    BY <1>3 DEF RemoveOwn, Nameable
  <2> HIDE DEF locals
  <2>3. /\ pc' = [pc EXCEPT ![c] = "rmDelete"] /\ job' = [job EXCEPT ![c] = locals]
        /\ UNCHANGED <<session, tables, room, provider, pollSeen, history>>
    BY <1>3 DEF RemoveOwn, Begin, locals
  <2> QED  BY <2>1, <2>2, <2>3 DEF tables, provider, Step
<1>4. ASSUME NEW c \in Calls, NEW g \in Guests, NEW i \in ItemId, CastSkipVote(c, g, i)
      PROVE  Typed'
  <2> DEFINE locals == [NoJob EXCEPT !.guest = g, !.item = i]
  <2>1. locals \in Job /\ locals.item = i /\ locals.guest = g
    <3>1. i \in 0..MaxItems
      OBVIOUS
    <3> QED  BY ONLY <3>1, NoJobType DEF NoJob, Job
  <2>2. i \in 1..lastId
    BY <1>4 DEF CastSkipVote, Nameable
  <2> HIDE DEF locals
  <2>3. /\ pc' = [pc EXCEPT ![c] = "voteInsert"] /\ job' = [job EXCEPT ![c] = locals]
        /\ UNCHANGED <<session, tables, room, provider, pollSeen, history>>
    BY <1>4 DEF CastSkipVote, Begin, locals
  <2> QED  BY <2>1, <2>2, <2>3 DEF tables, provider, Step
<1>4a. ASSUME NEW c \in Calls, ReadSession(c) PROVE Typed'
  <2>1. PICK e \in BOOLEAN :
            job' = [job EXCEPT ![c].beforeEnd = FALSE, ![c].ended = e,
                               ![c].moderated = session.moderationEnabled]
    BY <1>4a DEF ReadSession, EndSeen
  <2>2. job' \in [Calls -> Job]
    <3>1. [job[c] EXCEPT !.beforeEnd = FALSE, !.ended = e,
                         !.moderated = session.moderationEnabled] \in Job
      BY DEF Job
    <3> QED  BY <2>1, <3>1
  <2>3. /\ job'[c].guest = job[c].guest /\ job'[c].track = job[c].track
        /\ \A d \in Calls \ {c} : job'[d] = job[d]
    BY <2>1 DEF Job
  <2> QED  BY <1>4a, <2>2, <2>3 DEF ReadSession, tables, provider, Step
<1>5. ASSUME NEW c \in Calls, AdmitRequest(c) PROVE Typed'
  BY <1>5 DEF AdmitRequest, Goto, Return, tables, provider, Step
<1>6. ASSUME NEW c \in Calls, AssertNotRateLimited(c) PROVE Typed'
  BY <1>6 DEF AssertNotRateLimited, Goto, Return, tables, provider, Step
<1>7. ASSUME NEW c \in Calls, InsertItem(c) PROVE Typed'
  BY <1>7 DEF InsertItem, InitialStatus, Row, ItemStatus, Job, Step, provider
<1>8. ASSUME NEW c \in Calls, InsertClaim(c) PROVE Typed'
  BY <1>8 DEF InsertClaim, Goto, Return, provider, Step
<1>9. ASSUME NEW c \in Calls, AnnounceRequest(c) PROVE Typed'
  BY <1>9 DEF AnnounceRequest, Goto, Return, tables, provider, Step
<1>10. ASSUME NEW c \in Calls, AnnounceAutoApproval(c) \/ PublishApproved(c) PROVE Typed'
  BY <1>10 DEF AnnounceAutoApproval, PublishApproved, ShowApproved, Overtake, Goto, tables, provider, Step
<1>11. ASSUME NEW c \in Calls, NEW o \in PushOutcomes, PushRequest(c, o) \/ PushApproval(c, o)
       PROVE Typed'
  <2>1. /\ pc[c] \in {"reqPush", "modPush"}
        /\ pushed' \subseteq pushed \cup {job[c].item} /\ cooldown' \in BOOLEAN
        /\ UNCHANGED <<session, tables, room, pollSeen, history>>
    BY <1>11 DEF PushRequest, PushApproval, PushToProviderQueue
  <2>2. pushed' \subseteq ItemId
    BY <2>1
  <2>3. \/ pc' = [pc EXCEPT ![c] = "reqRollBack"] /\ job' = job
        \/ pc' = [pc EXCEPT ![c] = "idle"] /\ job' = [job EXCEPT ![c] = NoJob]
    BY <1>11 DEF PushRequest, PushApproval, Goto, Return
  <2> QED  BY <2>1, <2>2, <2>3 DEF tables, Step
<1>12. ASSUME NEW c \in Calls, RollBackRequest(c) \/ DeleteOwn(c) PROVE Typed'
  BY <1>12 DEF RollBackRequest, DeleteOwn, DeleteRow, Goto, provider, Step
<1>13. ASSUME NEW c \in Calls, DecideItem(c) PROVE Typed'
  BY <1>13 DEF DecideItem, SetStatus, Goto, Return, Row, ItemStatus, provider, Step
<1>14. ASSUME NEW c \in Calls, PublishGone(c) PROVE Typed'
  BY <1>14 DEF PublishGone, ShowGone, Overtake, Return, tables, provider, Step
<1>15. ASSUME NEW c \in Calls, RecordVote(c) PROVE Typed'
  BY <1>15 DEF RecordVote, Goto, Return, provider, Step
<1>16. ASSUME NEW c \in Calls, CountVote(c) PROVE Typed'
  <2>1. /\ DOMAIN rows' = DOMAIN rows /\ rows' \in [DOMAIN rows -> Row]
        /\ UNCHANGED <<session, lastId, votes, claims, room, provider, pushed,
                       approved, pollSeen, history>>
    <3>1. rows' = rows \/ \E n \in Nat : \E i \in DOMAIN rows :
                              rows' = [rows EXCEPT ![i].skipVotes = n]
      <4>1. CASE job[c].item \in DOMAIN rows
        <5>1. rows[job[c].item].skipVotes + 1 \in Nat
          BY <4>1 DEF Row
        <5> QED  BY <1>16, <4>1, <5>1 DEF CountVote
      <4>2. CASE job[c].item \notin DOMAIN rows
        BY <1>16, <4>2 DEF CountVote
      <4> QED  BY <4>1, <4>2
    <3>2. UNCHANGED <<session, lastId, votes, claims, room, provider, pushed,
                      approved, pollSeen, history>>
      BY <1>16 DEF CountVote, provider
    <3> QED  BY <3>1, <3>2 DEF Row
  <2>2. \/ pc' = [pc EXCEPT ![c] = "voteReject"] /\ job' = job
        \/ pc' = [pc EXCEPT ![c] = "idle"] /\ job' = [job EXCEPT ![c] = NoJob]
    BY <1>16 DEF CountVote, Goto, Return
  <2>3. pc[c] = "voteCount"
    BY <1>16 DEF CountVote
  <2> QED  BY <2>1, <2>2, <2>3 DEF provider, Step
<1>17. ASSUME NEW c \in Calls, RejectByVote(c) PROVE Typed'
  BY <1>17 DEF RejectByVote, SetStatus, Goto, Return, Row, ItemStatus, provider, Step
<1>18. ASSUME Environment PROVE Typed'
  <2>1. CASE PollRead \/ \E i \in ItemId : PollSkip(i)
    <3>1. DOMAIN pollSeen' \subseteq ItemId
      <4>1. CASE PollRead
        BY <4>1 DEF PollRead, ItemId
      <4>2. CASE \E i \in ItemId : PollSkip(i)
        BY <4>2 DEF PollSkip, PollDone
      <4> QED  BY <2>1, <4>1, <4>2
    <3>2. UNCHANGED <<session, tables, room, provider, calls, history>>
      BY <2>1 DEF PollRead, PollSkip
    <3> QED  BY <3>1, <3>2 DEF tables, provider, calls
  <2>2. ASSUME NEW i \in ItemId, NEW s \in {"playing", "played"}, PollWrite(i, s)
        PROVE  Typed'
    BY <2>2 DEF PollWrite, PollDone, Row, ItemStatus, tables, provider, calls
  <2>3. CASE EndSession \/ (\E b \in BOOLEAN : SetModeration(b)) \/ CooldownEnds
    BY <2>3 DEF EndSession, SetModeration, CooldownEnds, tables, provider, calls
  <2> QED  BY <1>18, <2>1, <2>2, <2>3 DEF Environment
<1>19. ASSUME UNCHANGED vars PROVE Typed'
  BY <1>19 DEF vars
<1> QED
  BY <1>1, <1>2, <1>3, <1>4, <1>4a, <1>5, <1>6, <1>7, <1>8, <1>9, <1>10, <1>11, <1>12,
     <1>13, <1>14, <1>15, <1>16, <1>17, <1>18, <1>19
     DEF Next, ClientBegins, CallProceeds

\* Rows, views, ledgers and the locals of every call keep their types.
THEOREM TypeCorrect == Spec => []TypeOK
<1>1. Typed => TypeOK
  BY DEF Typed
<1> QED  BY <1>1, TypedInit, TypedStep, PTL DEF Spec

LEMMA TypedAlways == Spec => []Typed
BY TypedInit, TypedStep, PTL DEF Spec

-----------------------------------------------------------------------------
(* How the rows evolve: an id is never reused, a row keeps its guest, and  *)
(* no step puts a row back to pending.                                     *)

Decided == {"approved", "rejected", "playing", "played"}

RowsEvolve ==
    /\ lastId <= lastId'
    /\ \A i \in 1..lastId :
          i \in DOMAIN rows' =>
              /\ i \in DOMAIN rows
              /\ rows'[i].guest = rows[i].guest /\ rows'[i].track = rows[i].track
              /\ rows'[i].status = rows[i].status \/ rows'[i].status \in Decided

LEMMA RowsEvolveStep == Typed /\ [Next]_vars => RowsEvolve
<1> SUFFICES ASSUME Typed, [Next]_vars PROVE RowsEvolve
  OBVIOUS
<1> USE ConstantsAssumption
<1> USE DEF Typed, TypeOK, RowsEvolve
<1>1. ASSUME UNCHANGED <<rows, lastId>> PROVE RowsEvolve
  BY <1>1
<1>2. ASSUME NEW c \in Calls, InsertItem(c) PROVE RowsEvolve
  BY <1>2 DEF InsertItem
<1>3. ASSUME NEW i, DeleteRow(i), UNCHANGED lastId PROVE RowsEvolve
  BY <1>3 DEF DeleteRow
<1>4. ASSUME NEW i \in DOMAIN rows, NEW s \in Decided,
             rows' = [rows EXCEPT ![i].status = s], UNCHANGED lastId
      PROVE  RowsEvolve
  BY <1>4 DEF Row
<1>5. ASSUME NEW c \in Calls, DecideItem(c) PROVE RowsEvolve
  <2>1. job[c].decision \in Decided
    BY <1>5 DEF DecideItem, LocalsOK, Decided
  <2> QED  BY <1>1, <1>4, <1>5, <2>1 DEF DecideItem, SetStatus
<1>6. ASSUME NEW c \in Calls, RejectByVote(c) PROVE RowsEvolve
  BY <1>1, <1>4, <1>6 DEF RejectByVote, SetStatus, Decided
<1>7. ASSUME NEW c \in Calls, CountVote(c) PROVE RowsEvolve
  BY <1>7 DEF CountVote, Row
<1>8. ASSUME NEW i \in ItemId, NEW s \in {"playing", "played"}, PollWrite(i, s)
      PROVE  RowsEvolve
  BY <1>1, <1>4, <1>8 DEF PollWrite, PollDone, Decided
<1>9. ASSUME NEW c \in Calls, RollBackRequest(c) \/ DeleteOwn(c) PROVE RowsEvolve
  BY <1>3, <1>9 DEF RollBackRequest, DeleteOwn
<1>10. ASSUME NEW c \in Calls, ClientBegins(c) PROVE RowsEvolve
  BY <1>1, <1>10 DEF ClientBegins, RequestTrack, Moderate, RemoveOwn, CastSkipVote, tables
<1>11. ASSUME NEW c \in Calls,
              \/ ReadSession(c) \/ AdmitRequest(c) \/ AssertNotRateLimited(c) \/ InsertClaim(c)
              \/ AnnounceRequest(c) \/ AnnounceAutoApproval(c)
              \/ \E o \in PushOutcomes : PushRequest(c, o) \/ PushApproval(c, o)
              \/ PublishApproved(c) \/ PublishGone(c) \/ RecordVote(c)
       PROVE  RowsEvolve
  BY <1>1, <1>11 DEF ReadSession, AdmitRequest, AssertNotRateLimited, InsertClaim, AnnounceRequest,
     AnnounceAutoApproval, PushRequest, PushApproval, PublishApproved, PublishGone,
     RecordVote, tables
<1>12. ASSUME PollRead \/ (\E i \in ItemId : PollSkip(i)) \/ EndSession
              \/ (\E b \in BOOLEAN : SetModeration(b)) \/ CooldownEnds
       PROVE  RowsEvolve
  BY <1>1, <1>12 DEF PollRead, PollSkip, EndSession, SetModeration, CooldownEnds, tables
<1> QED
  BY <1>1, <1>2, <1>5, <1>6, <1>7, <1>8, <1>9, <1>10, <1>11, <1>12
     DEF Next, CallProceeds, Environment, vars

-----------------------------------------------------------------------------
(* A client's call begins: nothing but the call's own step and locals      *)
(* changes, and an item it names is one the client could name.             *)

LEMMA CallBegins ==
  ASSUME Typed, NEW c \in Calls, ClientBegins(c)
  PROVE  /\ UNCHANGED <<session, rows, lastId, votes, claims, approved, room,
                         cooldown, pushed, pollSeen, stranded, overtaken>>
         /\ \A d \in Calls \ {c} : pc'[d] = pc[d] /\ job'[d] = job[d]
         /\ pc[c] = "idle"
         /\ pc'[c] \in {"reqEnter", "modAssert", "modSet", "rmDelete", "voteInsert"}
         /\ pc'[c] # "reqEnter" => job'[c].item \in Nameable
<1> USE DEF Typed, TypeOK
<1>1. CASE \E g \in Guests, t \in Tracks, mic \in BOOLEAN : RequestTrack(c, g, t, mic)
  BY <1>1 DEF RequestTrack, Begin, tables, provider, history
<1>2. ASSUME NEW i \in ItemId, NEW d \in {"approved", "rejected"}, Moderate(c, i, d)
      PROVE  /\ i \in Nameable /\ pc[c] = "idle"
             /\ pc' = [pc EXCEPT ![c] = IF d = "approved" THEN "modAssert" ELSE "modSet"]
             /\ job' = [job EXCEPT ![c] = [NoJob EXCEPT !.item = i, !.decision = d]]
             /\ UNCHANGED <<session, tables, room, provider, pollSeen, history>>
  BY <1>2 DEF Moderate, Begin
<1>3. ASSUME NEW g \in Guests, NEW i \in ItemId, RemoveOwn(c, g, i) \/ CastSkipVote(c, g, i)
      PROVE  /\ i \in Nameable /\ pc[c] = "idle"
             /\ \/ pc' = [pc EXCEPT ![c] = "rmDelete"]
                \/ pc' = [pc EXCEPT ![c] = "voteInsert"]
             /\ job' = [job EXCEPT ![c] = [NoJob EXCEPT !.guest = g, !.item = i]]
             /\ UNCHANGED <<session, tables, room, provider, pollSeen, history>>
  BY <1>3 DEF RemoveOwn, CastSkipVote, Begin
<1>4. \A i, d, g : /\ [NoJob EXCEPT !.item = i, !.decision = d].item = i
                   /\ [NoJob EXCEPT !.guest = g, !.item = i].item = i
  BY DEF NoJob
<1>5. CASE \E i \in ItemId, d \in {"approved", "rejected"} : Moderate(c, i, d)
  <2> PICK i \in ItemId, d \in {"approved", "rejected"} : Moderate(c, i, d)
    BY <1>5
  <2>1. /\ i \in Nameable /\ pc[c] = "idle"
        /\ pc' = [pc EXCEPT ![c] = IF d = "approved" THEN "modAssert" ELSE "modSet"]
        /\ job' = [job EXCEPT ![c] = [NoJob EXCEPT !.item = i, !.decision = d]]
        /\ UNCHANGED <<session, tables, room, provider, pollSeen, history>>
    BY <1>2
  <2> QED  BY <2>1, <1>4 DEF tables, provider, history
<1>6. CASE \E g \in Guests, i \in ItemId : RemoveOwn(c, g, i) \/ CastSkipVote(c, g, i)
  <2> PICK g \in Guests, i \in ItemId : RemoveOwn(c, g, i) \/ CastSkipVote(c, g, i)
    BY <1>6
  <2>1. /\ i \in Nameable /\ pc[c] = "idle"
        /\ \/ pc' = [pc EXCEPT ![c] = "rmDelete"]
           \/ pc' = [pc EXCEPT ![c] = "voteInsert"]
        /\ job' = [job EXCEPT ![c] = [NoJob EXCEPT !.guest = g, !.item = i]]
        /\ UNCHANGED <<session, tables, room, provider, pollSeen, history>>
    BY <1>3
  <2> QED  BY <2>1, <1>4 DEF tables, provider, history
<1> QED
  BY <1>1, <1>5, <1>6 DEF ClientBegins

-----------------------------------------------------------------------------
(* NoUnapprovedPush.  A call that is on its way to the provider carries an *)
(* item that was approved: by a decision of the host, or at its insertion  *)
(* because the session was not moderated when the request was read.        *)

Approvals ==
    /\ pushed \subseteq approved
    /\ \A c \in Calls :
          \/ pc[c] \in {"reqApprove", "reqPush", "pubApproved", "modPush"}
          \/ pc[c] \in {"reqClaim", "reqAnnounce"} /\ ~job[c].moderated
          => job[c].item \in approved

LEMMA ApprovalsStep == Typed /\ Approvals /\ [Next]_vars => Approvals'
<1> SUFFICES ASSUME Typed, Approvals, [Next]_vars PROVE Approvals'
  OBVIOUS
<1> USE DEF Typed, TypeOK, Approvals
<1>1. ASSUME NEW c \in Calls, ClientBegins(c) PROVE Approvals'
  BY <1>1, CallBegins
<1>2. ASSUME NEW c \in Calls,
             ReadSession(c) \/ AdmitRequest(c) \/ AssertNotRateLimited(c) \/ AnnounceRequest(c)
             \/ AnnounceAutoApproval(c) \/ PublishApproved(c) \/ PublishGone(c)
      PROVE  Approvals'
  <2>1. UNCHANGED <<approved, pushed>>
    BY <1>2 DEF ReadSession, AdmitRequest, AssertNotRateLimited, AnnounceRequest, AnnounceAutoApproval,
       PublishApproved, PublishGone, tables, provider
  <2>2. CASE ReadSession(c) \/ AdmitRequest(c) \/ AssertNotRateLimited(c)
    BY <2>1, <2>2 DEF ReadSession, AdmitRequest, AssertNotRateLimited, Goto, Return
  <2>3. CASE AnnounceRequest(c)
    BY <2>1, <2>3 DEF AnnounceRequest, Goto, Return
  <2>4. CASE AnnounceAutoApproval(c) \/ PublishApproved(c) \/ PublishGone(c)
    BY <2>1, <2>4 DEF AnnounceAutoApproval, PublishApproved, PublishGone, Goto, Return
  <2> QED  BY <1>2, <2>2, <2>3, <2>4
<1>3. ASSUME NEW c \in Calls, InsertItem(c) PROVE Approvals'
  <2>1. /\ job' = [job EXCEPT ![c].item = lastId + 1]
        /\ pc' = [pc EXCEPT ![c] = IF job[c].mic THEN "reqClaim" ELSE "reqAnnounce"]
        /\ approved' = IF ~job[c].moderated THEN approved \cup {lastId + 1} ELSE approved
        /\ pushed' = pushed
    BY <1>3 DEF InsertItem, InitialStatus, provider
  <2>2. job'[c].item = lastId + 1 /\ job'[c].moderated = job[c].moderated
    BY <2>1 DEF Job
  <2>3. \A d \in Calls \ {c} : pc'[d] = pc[d] /\ job'[d] = job[d]
    BY <2>1
  <2> QED  BY <2>1, <2>2, <2>3
<1>4. ASSUME NEW c \in Calls, InsertClaim(c) \/ RollBackRequest(c) \/ DeleteOwn(c)
                              \/ RecordVote(c) \/ CountVote(c)
      PROVE  Approvals'
  BY <1>4 DEF InsertClaim, RollBackRequest, DeleteOwn, RecordVote, CountVote, Goto,
     Return, NoJob, provider
<1>5. ASSUME NEW c \in Calls, NEW o \in PushOutcomes, PushRequest(c, o) \/ PushApproval(c, o)
      PROVE  Approvals'
  BY <1>5 DEF PushRequest, PushApproval, PushToProviderQueue, Goto, Return, NoJob, tables
<1>6. ASSUME NEW c \in Calls, DecideItem(c) \/ RejectByVote(c) PROVE Approvals'
  BY <1>6 DEF DecideItem, RejectByVote, SetStatus, Goto, Return, NoJob, provider, LocalsOK
<1>7. ASSUME Environment \/ UNCHANGED vars PROVE Approvals'
  BY <1>7 DEF Environment, PollRead, PollSkip, PollWrite, EndSession, SetModeration,
     CooldownEnds, tables, provider, calls, vars
<1> QED
  BY <1>1, <1>2, <1>3, <1>4, <1>5, <1>6, <1>7 DEF Next, CallProceeds

\* QueueService pushes only what was approved, whatever calls overlap: no
\* pending request of a moderated session reaches the host's play queue.
THEOREM NoUnapprovedPushHolds == Spec => []NoUnapprovedPush
<1>1. Init => Approvals
  BY DEF Init, Approvals
<1>2. Approvals => NoUnapprovedPush
  BY DEF Approvals, NoUnapprovedPush
<1> QED  BY <1>1, <1>2, ApprovalsStep, TypedAlways, PTL DEF Spec

-----------------------------------------------------------------------------
(* NoOrphans.                                                              *)

LEMMA NoOrphansStep == Typed /\ NoOrphans /\ [Next]_vars => NoOrphans'
<1> SUFFICES ASSUME Typed, NoOrphans, [Next]_vars PROVE NoOrphans'
  OBVIOUS
<1> USE DEF Typed, TypeOK, NoOrphans
<1>1. ASSUME DOMAIN rows \subseteq DOMAIN rows', UNCHANGED <<votes, claims>>
      PROVE  NoOrphans'
  BY <1>1
<1>2. ASSUME NEW c \in Calls, ClientBegins(c) PROVE NoOrphans'
  BY <1>1, <1>2, CallBegins
<1>3. ASSUME NEW c \in Calls,
             \/ ReadSession(c) \/ AdmitRequest(c) \/ AssertNotRateLimited(c)
             \/ AnnounceRequest(c) \/ AnnounceAutoApproval(c)
             \/ \E o \in PushOutcomes : PushRequest(c, o) \/ PushApproval(c, o)
             \/ PublishApproved(c) \/ PublishGone(c)
      PROVE  NoOrphans'
  BY <1>1, <1>3 DEF ReadSession, AdmitRequest, AssertNotRateLimited, AnnounceRequest,
     AnnounceAutoApproval, PushRequest, PushApproval, PublishApproved, PublishGone, tables
<1>4. ASSUME NEW c \in Calls, InsertItem(c) PROVE NoOrphans'
  BY <1>1, <1>4 DEF InsertItem
<1>5. ASSUME NEW c \in Calls, InsertClaim(c) \/ RecordVote(c) PROVE NoOrphans'
  BY <1>5 DEF InsertClaim, RecordVote
<1>6. ASSUME NEW c \in Calls, RollBackRequest(c) \/ DeleteOwn(c) PROVE NoOrphans'
  BY <1>6 DEF RollBackRequest, DeleteOwn, DeleteRow
<1>7. ASSUME NEW c \in Calls, DecideItem(c) \/ RejectByVote(c) \/ CountVote(c)
      PROVE  NoOrphans'
  BY <1>1, <1>7 DEF DecideItem, RejectByVote, CountVote, SetStatus
<1>8. ASSUME Environment \/ UNCHANGED vars PROVE NoOrphans'
  BY <1>1, <1>8 DEF Environment, PollRead, PollSkip, PollWrite, EndSession, SetModeration,
     CooldownEnds, tables, vars
<1> QED
  BY <1>2, <1>3, <1>4, <1>5, <1>6, <1>7, <1>8 DEF Next, CallProceeds

\* A rolled-back or removed request leaves no vote and no mic claim behind,
\* even one that another call was writing while the row was deleted.
THEOREM NoOrphansHolds == Spec => []NoOrphans
<1>1. Init => NoOrphans
  BY DEF Init, NoOrphans
<1> QED  BY <1>1, NoOrphansStep, TypedAlways, PTL DEF Spec

-----------------------------------------------------------------------------
(* VotedOutIsDecided.                                                      *)

LEMMA VotedOutStep == Typed /\ VotedOutIsDecided /\ [Next]_vars => VotedOutIsDecided'
<1> SUFFICES ASSUME Typed, VotedOutIsDecided, [Next]_vars, VotesDecide,
                    NEW i \in DOMAIN rows',
                    rows'[i].skipVotes >= Settings.voteSkipThreshold,
                    rows'[i].skipVotes > 0,
                    rows'[i].status = "pending"
             PROVE  InFlight({"voteReject"}, i)'
  BY DEF VotedOutIsDecided, VotesDecide
<1> USE DEF Typed, TypeOK, InFlight
<1>1. ASSUME i \in DOMAIN rows, rows[i].skipVotes = rows'[i].skipVotes,
             \A c \in Calls : pc[c] = "voteReject" /\ job[c].item = i =>
                                  pc'[c] = "voteReject" /\ job'[c].item = i
      PROVE  InFlight({"voteReject"}, i)'
  <2>1. rows[i].status = "pending"
    BY <1>1, RowsEvolveStep DEF RowsEvolve, Decided
  <2>2. InFlight({"voteReject"}, i)
    BY <1>1, <2>1 DEF VotedOutIsDecided
  <2> QED  BY <1>1, <2>2
<1>2. ASSUME NEW c \in Calls, ClientBegins(c) PROVE InFlight({"voteReject"}, i)'
  BY <1>1, <1>2, CallBegins
<1>3. ASSUME NEW c \in Calls,
             \/ ReadSession(c) \/ AdmitRequest(c) \/ AssertNotRateLimited(c) \/ InsertClaim(c)
             \/ AnnounceRequest(c) \/ AnnounceAutoApproval(c)
             \/ \E o \in PushOutcomes : PushRequest(c, o) \/ PushApproval(c, o)
             \/ PublishApproved(c) \/ PublishGone(c) \/ RecordVote(c)
      PROVE  InFlight({"voteReject"}, i)'
  BY <1>1, <1>3 DEF ReadSession, AdmitRequest, AssertNotRateLimited, InsertClaim, AnnounceRequest,
     AnnounceAutoApproval, PushRequest, PushApproval, PublishApproved, PublishGone,
     RecordVote, Goto, Return, tables
<1>4. ASSUME NEW c \in Calls, InsertItem(c) PROVE InFlight({"voteReject"}, i)'
  BY <1>1, <1>4 DEF InsertItem
<1>5. ASSUME NEW c \in Calls, RollBackRequest(c) \/ DeleteOwn(c)
      PROVE  InFlight({"voteReject"}, i)'
  BY <1>1, <1>5 DEF RollBackRequest, DeleteOwn, DeleteRow, Goto
<1>6. ASSUME NEW c \in Calls, DecideItem(c) PROVE InFlight({"voteReject"}, i)'
  BY <1>1, <1>6 DEF DecideItem, SetStatus, Goto, Return, Row
<1>7. ASSUME NEW c \in Calls, RejectByVote(c) PROVE InFlight({"voteReject"}, i)'
  BY <1>1, <1>7 DEF RejectByVote, SetStatus, Goto, Return, Row
<1>8. ASSUME NEW c \in Calls, CountVote(c) PROVE InFlight({"voteReject"}, i)'
  BY <1>1, <1>8 DEF CountVote, ThresholdMet, Goto, Return, Row
<1>9. ASSUME Environment \/ UNCHANGED vars PROVE InFlight({"voteReject"}, i)'
  <2>1. CASE PollRead \/ (\E k \in ItemId : PollSkip(k)) \/ UNCHANGED vars
    BY <1>1, <2>1 DEF PollRead, PollSkip, tables, calls, vars
  <2>2. CASE \E k \in ItemId : \E s \in {"playing", "played"} : PollWrite(k, s)
    BY <1>1, <2>2 DEF PollWrite, calls, Row
  <2>3. CASE EndSession \/ (\E b \in BOOLEAN : SetModeration(b)) \/ CooldownEnds
    BY <1>1, <2>3 DEF EndSession, SetModeration, CooldownEnds, tables, calls
  <2> QED  BY <1>9, <2>1, <2>2, <2>3 DEF Environment
<1> QED
  BY <1>2, <1>3, <1>4, <1>5, <1>6, <1>7, <1>8, <1>9 DEF Next, CallProceeds

\* castSkipVote: an item whose counter has crossed the threshold is not left
\* waiting for moderation; the call that counted the vote is rejecting it.
THEOREM VotedOutIsDecidedHolds == Spec => []VotedOutIsDecided
<1>1. Init => VotedOutIsDecided
  BY DEF Init, VotedOutIsDecided
<1> QED  BY <1>1, VotedOutStep, TypedAlways, PTL DEF Spec

-----------------------------------------------------------------------------
(* Settled.  A call that is about to publish a decision, or to push or     *)
(* roll back, holds an item whose row, if it is still there, is no longer  *)
(* pending; a call about to publish a removal holds a deleted item.        *)

SettledCall(c) ==
    LET i == job[c].item
    IN  /\ \/ pc[c] \in {"reqApprove", "reqPush", "reqRollBack", "pubApproved",
                         "pubRejected", "modPush"}
           \/ pc[c] \in {"reqClaim", "reqAnnounce"} /\ ~job[c].moderated
           => (i \in DOMAIN rows => rows[i].status # "pending")
        /\ pc[c] = "pubRemoved" => i \notin DOMAIN rows

\* What the poller has read is not pending (any more).
SeenOK(i) == i \in 1..lastId /\ (i \in DOMAIN rows => rows[i].status # "pending")

Settled ==
    /\ \A c \in Calls : SettledCall(c)
    /\ \A i \in DOMAIN pollSeen : SeenOK(i)

\* A call that does not move stays settled.
LEMMA SettledStays ==
  ASSUME Typed, Settled, [Next]_vars, NEW c \in Calls,
         pc'[c] = pc[c], job'[c] = job[c]
  PROVE  SettledCall(c)'
BY RowsEvolveStep DEF Typed, TypeOK, LocalsOK, Holding, Step, Settled, SettledCall,
   RowsEvolve, Decided

\* Neither does what the poller has read.
LEMMA SeenStays ==
  ASSUME Typed, Settled, [Next]_vars, NEW i \in DOMAIN pollSeen
  PROVE  SeenOK(i)'
BY RowsEvolveStep, TypedStep, ConstantsAssumption
   DEF Typed, TypeOK, Settled, SeenOK, RowsEvolve, Decided

LEMMA SettledStep == Typed /\ Settled /\ [Next]_vars => Settled'
<1> SUFFICES ASSUME Typed, Settled, [Next]_vars PROVE Settled'
  OBVIOUS
<1> USE DEF Typed, TypeOK
<1>1. ASSUME NEW c \in Calls, SettledCall(c)', pollSeen' = pollSeen,
             \A d \in Calls \ {c} : pc'[d] = pc[d] /\ job'[d] = job[d]
      PROVE  Settled'
  <2>1. \A d \in Calls : SettledCall(d)'
    BY <1>1, SettledStays
  <2>2. \A i \in DOMAIN pollSeen' : SeenOK(i)'
    BY <1>1, SeenStays
  <2> QED  BY <2>1, <2>2 DEF Settled
<1>2. ASSUME NEW c \in Calls, ClientBegins(c) PROVE Settled'
  BY <1>1, <1>2, CallBegins DEF SettledCall
<1>3. ASSUME NEW c \in Calls, ReadSession(c) \/ AdmitRequest(c) \/ AssertNotRateLimited(c) PROVE Settled'
  BY <1>1, <1>3 DEF ReadSession, AdmitRequest, AssertNotRateLimited, Goto, Return, SettledCall
<1>4. ASSUME NEW c \in Calls, InsertItem(c) PROVE Settled'
  <2>1. /\ job' = [job EXCEPT ![c].item = lastId + 1]
        /\ pc' = [pc EXCEPT ![c] = IF job[c].mic THEN "reqClaim" ELSE "reqAnnounce"]
        /\ pollSeen' = pollSeen
        /\ rows'[lastId + 1].status = IF job[c].moderated THEN "pending" ELSE "approved"
    BY <1>4 DEF InsertItem, InitialStatus
  <2>2. job'[c].item = lastId + 1 /\ job'[c].moderated = job[c].moderated
    BY <2>1 DEF Job
  <2> QED  BY <1>1, <2>1, <2>2 DEF SettledCall
<1>5. ASSUME NEW c \in Calls, InsertClaim(c) PROVE Settled'
  BY <1>1, <1>5 DEF InsertClaim, Goto, Return, SettledCall, Settled
<1>6. ASSUME NEW c \in Calls, AnnounceRequest(c) PROVE Settled'
  BY <1>1, <1>6 DEF AnnounceRequest, Goto, Return, SettledCall, Settled, tables
<1>7. ASSUME NEW c \in Calls, AnnounceAutoApproval(c) \/ PublishApproved(c) PROVE Settled'
  BY <1>1, <1>7 DEF AnnounceAutoApproval, PublishApproved, Goto, SettledCall, Settled, tables
<1>8. ASSUME NEW c \in Calls, NEW o \in PushOutcomes, PushRequest(c, o) \/ PushApproval(c, o)
      PROVE  Settled'
  BY <1>1, <1>8 DEF PushRequest, PushApproval, Goto, Return, SettledCall, Settled, tables
<1>9. ASSUME NEW c \in Calls, RollBackRequest(c) \/ DeleteOwn(c) PROVE Settled'
  BY <1>1, <1>9 DEF RollBackRequest, DeleteOwn, DeleteRow, Goto, SettledCall
<1>10. ASSUME NEW c \in Calls, DecideItem(c) PROVE Settled'
  BY <1>1, <1>10 DEF DecideItem, SetStatus, Goto, Return, SettledCall, LocalsOK, Row
<1>11. ASSUME NEW c \in Calls, PublishGone(c) PROVE Settled'
  BY <1>1, <1>11 DEF PublishGone, Return, SettledCall
<1>12. ASSUME NEW c \in Calls, RecordVote(c) \/ CountVote(c) PROVE Settled'
  BY <1>1, <1>12 DEF RecordVote, CountVote, Goto, Return, SettledCall
<1>13. ASSUME NEW c \in Calls, RejectByVote(c) PROVE Settled'
  BY <1>1, <1>13 DEF RejectByVote, SetStatus, Goto, Return, SettledCall, Row
<1>14. ASSUME UNCHANGED <<pc, job>>,
              \A i \in DOMAIN pollSeen' \ DOMAIN pollSeen :
                  /\ i \in DOMAIN rows /\ UNCHANGED <<rows, lastId>>
                  /\ rows[i].status # "pending"
       PROVE  Settled'
  <2>1. \A c \in Calls : SettledCall(c)'
    BY <1>14, SettledStays
  <2>2. \A i \in DOMAIN pollSeen' : SeenOK(i)'
    <3> SUFFICES ASSUME NEW i \in DOMAIN pollSeen' PROVE SeenOK(i)'
      OBVIOUS
    <3>1. CASE i \in DOMAIN pollSeen
      BY <3>1, SeenStays
    <3>2. CASE i \notin DOMAIN pollSeen
      BY <3>2, <1>14 DEF SeenOK
    <3> QED  BY <3>1, <3>2
  <2> QED  BY <2>1, <2>2 DEF Settled
<1>15. ASSUME Environment \/ UNCHANGED vars PROVE Settled'
  <2>1. CASE PollRead
    BY <1>14, <2>1 DEF PollRead, tables, calls
  <2>2. CASE ~PollRead
    <3>1. DOMAIN pollSeen' \subseteq DOMAIN pollSeen /\ UNCHANGED <<pc, job>>
      BY <1>15, <2>2 DEF PollDone, Environment, PollSkip, PollWrite, EndSession, SetModeration,
         CooldownEnds, calls, vars
    <3>2. DOMAIN pollSeen' \ DOMAIN pollSeen = {}
      BY <3>1
    <3> QED  BY <3>1, <3>2, <1>14
  <2> QED  BY <2>1, <2>2
<1> QED
  BY <1>2, <1>3, <1>4, <1>5, <1>6, <1>7, <1>8, <1>9, <1>10, <1>11, <1>12, <1>13, <1>15
     DEF Next, CallProceeds

LEMMA SettledAlways == Spec => []Settled
<1>1. Init => Settled
  BY DEF Init, Settled, SettledCall
<1> QED  BY <1>1, SettledStep, TypedAlways, PTL DEF Spec

-----------------------------------------------------------------------------
(* PendingRowsShown.                                                       *)

\* What went wrong once stays on record.
LEMMA HistoryGrows ==
  ASSUME [Next]_vars
  PROVE  stranded \subseteq stranded' /\ overtaken \subseteq overtaken'
<1> USE DEF history
<1>1. ASSUME NEW c \in Calls, ClientBegins(c) PROVE UNCHANGED history
  BY <1>1 DEF ClientBegins, RequestTrack, Moderate, RemoveOwn, CastSkipVote
<1>2. ASSUME NEW c \in Calls, CallProceeds(c)
      PROVE  stranded \subseteq stranded' /\ overtaken \subseteq overtaken'
  BY <1>2 DEF CallProceeds, ReadSession, AdmitRequest, AssertNotRateLimited, InsertItem,
     InsertClaim, AnnounceRequest, AnnounceAutoApproval, PushRequest, PushApproval,
     PublishApproved, PublishGone, RollBackRequest, DeleteOwn, DecideItem, RecordVote,
     CountVote, RejectByVote, Overtake
<1>3. ASSUME Environment \/ UNCHANGED vars PROVE UNCHANGED history
  BY <1>3 DEF Environment, PollRead, PollSkip, PollWrite, EndSession, SetModeration,
     CooldownEnds, vars
<1> QED  BY <1>1, <1>2, <1>3 DEF Next

LEMMA PendingShownStep ==
  Typed /\ Settled /\ PendingRowsShown /\ [Next]_vars => PendingRowsShown'
<1> SUFFICES ASSUME Typed, Settled, PendingRowsShown, [Next]_vars,
                    NEW i \in DOMAIN rows', i \notin stranded',
                    rows'[i].status = "pending", ~AwaitsAnnouncement(i)'
             PROVE  i \in room'.pending
  BY DEF PendingRowsShown
<1> USE DEF Typed, TypeOK, AwaitsAnnouncement, InFlight
<1>0. i \notin stranded
  BY HistoryGrows
<1>1. ASSUME i \in DOMAIN rows, ~AwaitsAnnouncement(i),
             i \in room.pending => i \in room'.pending
      PROVE  i \in room'.pending
  <2>1. rows[i].status = "pending"
    BY <1>1, RowsEvolveStep DEF RowsEvolve, Decided
  <2> QED  BY <1>0, <1>1, <2>1 DEF PendingRowsShown
<1>2. ASSUME i \in DOMAIN rows,
             \A c \in Calls : pc[c] \in {"reqClaim", "reqAnnounce"} =>
                 pc'[c] \in {"reqClaim", "reqAnnounce"} /\ job'[c].item = job[c].item,
             UNCHANGED room
      PROVE  i \in room'.pending
  BY <1>1, <1>2
<1>3. ASSUME NEW c \in Calls, ClientBegins(c) PROVE i \in room'.pending
  BY <1>2, <1>3, CallBegins
<1>4. ASSUME NEW c \in Calls, InsertItem(c) PROVE i \in room'.pending
  <2>1. CASE i \in DOMAIN rows
    BY <1>2, <1>4, <2>1 DEF InsertItem
  <2>2. CASE i \notin DOMAIN rows
    <3>1. job'[c].item = i
      BY <1>4, <2>2 DEF InsertItem, Job
    <3>2. pc'[c] \in {"reqClaim", "reqAnnounce"}
      BY <1>4 DEF InsertItem
    <3> QED  BY <3>1, <3>2
  <2> QED  BY <2>1, <2>2
<1>5. ASSUME NEW c \in Calls, InsertClaim(c) PROVE i \in room'.pending
  <2>1. CASE pc'[c] = "reqAnnounce"
    BY <1>2, <1>5, <2>1 DEF InsertClaim, Goto, Return
  <2>2. CASE pc'[c] # "reqAnnounce"
    <3>1. job[c].item \in stranded' /\ UNCHANGED <<rows, room>>
      BY <1>5, <2>2 DEF InsertClaim, Goto
    <3>2. job[c].item # i /\ \A d \in Calls \ {c} : pc'[d] = pc[d] /\ job'[d] = job[d]
      BY <1>5, <3>1 DEF InsertClaim, Goto, Return
    <3> QED  BY <1>1, <3>1, <3>2
  <2> QED  BY <2>1, <2>2
<1>6. ASSUME NEW c \in Calls, AnnounceRequest(c) PROVE i \in room'.pending
  BY <1>1, <1>6 DEF AnnounceRequest, Goto, Return, tables
<1>7. ASSUME NEW c \in Calls, AnnounceAutoApproval(c) \/ PublishApproved(c)
      PROVE  i \in room'.pending
  <2>1. job[c].item # i
    BY <1>7 DEF AnnounceAutoApproval, PublishApproved, Settled, SettledCall, tables
  <2>2. i \in room.pending => i \in room'.pending
    BY <1>7, <2>1 DEF AnnounceAutoApproval, PublishApproved, ShowApproved
  <2> QED
    BY <1>1, <1>7, <2>2 DEF AnnounceAutoApproval, PublishApproved, Goto, tables
<1>8. ASSUME NEW c \in Calls, PublishGone(c) PROVE i \in room'.pending
  <2>1. job[c].item # i
    BY <1>8 DEF PublishGone, Settled, SettledCall, tables
  <2>2. i \in room.pending => i \in room'.pending
    BY <1>8, <2>1 DEF PublishGone, ShowGone
  <2> QED  BY <1>1, <1>8, <2>2 DEF PublishGone, Return, tables
<1>9. ASSUME NEW c \in Calls,
             \/ ReadSession(c) \/ AdmitRequest(c) \/ AssertNotRateLimited(c)
             \/ \E o \in PushOutcomes : PushRequest(c, o) \/ PushApproval(c, o)
             \/ RecordVote(c) \/ CountVote(c)
      PROVE  i \in room'.pending
  BY <1>2, <1>9 DEF ReadSession, AdmitRequest, AssertNotRateLimited, PushRequest, PushApproval,
     RecordVote, CountVote, Goto, Return, tables
<1>10. ASSUME NEW c \in Calls,
              RollBackRequest(c) \/ DeleteOwn(c) \/ DecideItem(c) \/ RejectByVote(c)
       PROVE  i \in room'.pending
  BY <1>2, <1>10 DEF RollBackRequest, DeleteOwn, DeleteRow, DecideItem, RejectByVote,
     SetStatus, Goto, Return
<1>11. ASSUME Environment \/ UNCHANGED vars PROVE i \in room'.pending
  BY <1>2, <1>11 DEF Environment, PollRead, PollSkip, PollWrite, EndSession,
     SetModeration, CooldownEnds, tables, calls, vars
<1> QED
  BY <1>3, <1>4, <1>5, <1>6, <1>7, <1>8, <1>9, <1>10, <1>11 DEF Next, CallProceeds

\* Once a request is announced, the host's moderation list shows it for as
\* long as its row is pending, whichever calls publish meanwhile.
THEOREM PendingRowsShownHolds == Spec => []PendingRowsShown
<1>1. Init => PendingRowsShown
  BY DEF Init, PendingRowsShown
<1> QED  BY <1>1, PendingShownStep, SettledAlways, TypedAlways, PTL DEF Spec

-----------------------------------------------------------------------------
(* RoomViewSound.  A request owes the room its announcement from the insert *)
(* on; what the room will show by it is sound already then, unless an event *)
(* about the item has overtaken it.                                         *)

Shown == {"approved", "queued", "playing", "played"}
Awaiting == {"reqClaim", "reqAnnounce"}
Publishing == {"reqApprove", "pubApproved", "pubRejected", "pubRemoved"}

Approving(i) == InFlight({"reqApprove", "pubApproved"}, i)

PendingSound(i) ==
    \/ Leaving(i)
    \/ i \in DOMAIN rows /\ rows[i].status = "pending"
    \/ i \in DOMAIN rows /\ rows[i].status \in Shown /\ Approving(i)

ViewSound(i) ==
    i \notin overtaken =>
        /\ i \in room.pending => PendingSound(i)
        /\ i \in room.queue =>
              Leaving(i) \/ (i \in DOMAIN rows /\ rows[i].status \in Shown)

OwedSound(c) ==
    pc[c] \in Awaiting /\ job[c].item \notin overtaken =>
        \/ PendingSound(job[c].item)
        \/ /\ ~job[c].moderated
           /\ job[c].item \in DOMAIN rows /\ rows[job[c].item].status \in Shown

RoomViews ==
    /\ room.pending \cup room.queue \subseteq 1..lastId
    /\ \A i \in 1..lastId : ViewSound(i)
    /\ \A c \in Calls : OwedSound(c)

\* A step that leaves the item's row alone and ends no call that publishes
\* about it.
Kept(i) ==
    /\ i \in DOMAIN rows => i \in DOMAIN rows' /\ rows'[i].status = rows[i].status
    /\ \A c \in Calls : pc[c] \in Publishing /\ job[c].item = i
                         => pc'[c] = pc[c] /\ job'[c] = job[c]

LEMMA SoundStays ==
  ASSUME NEW i, Kept(i)
  PROVE  /\ Leaving(i) => Leaving(i)'
         /\ Approving(i) => Approving(i)'
         /\ PendingSound(i) => PendingSound(i)'
<1>1. Leaving(i) => Leaving(i)'
  BY DEF Leaving, InFlight, Kept, Publishing
<1>2. Approving(i) => Approving(i)'
  BY DEF Approving, InFlight, Kept, Publishing
<1> QED  BY <1>1, <1>2 DEF PendingSound, Kept

LEMMA OwedStays ==
  ASSUME Typed, [Next]_vars, NEW c \in Calls, OwedSound(c),
         pc[c] \in Awaiting, job'[c] = job[c], Kept(job[c].item)
  PROVE  OwedSound(c)'
<1>1. job[c].item \notin overtaken' => job[c].item \notin overtaken
  BY HistoryGrows
<1>2. PendingSound(job[c].item) => PendingSound(job[c].item)'
  <2> PICK i : i = job[c].item
    OBVIOUS
  <2>1. Kept(i)
    OBVIOUS
  <2>2. PendingSound(i) => PendingSound(i)'
    BY <2>1, SoundStays
  <2>3. PendingSound(job[c].item) => PendingSound(i)
    OBVIOUS
  <2>4. PendingSound(i)' => PendingSound(job[c].item)'
    BY DEF PendingSound, Leaving, Approving, InFlight
  <2> QED  BY <2>2, <2>3, <2>4
<1> QED  BY <1>1, <1>2 DEF OwedSound, Kept

\* A step that concerns one item, and the calls that owe its announcement.
LEMMA ViewsStay ==
  ASSUME Typed, RoomViews, [Next]_vars, NEW j,
         room'.pending \cup room'.queue \subseteq 1..lastId,
         \A i \in (1..lastId) \ {j} :
             /\ Kept(i)
             /\ i \in room'.pending => i \in room.pending
             /\ i \in room'.queue => i \in room.queue,
         j \in 1..lastId => ViewSound(j)',
         \A c \in Calls :
             \/ OwedSound(c)'
             \/ pc[c] \in Awaiting /\ job'[c] = job[c] /\ job[c].item # j
  PROVE  RoomViews'
<1> USE DEF Typed, TypeOK
<1>1. lastId \in Nat /\ lastId' \in Nat /\ lastId <= lastId'
  BY RowsEvolveStep, TypedStep, ConstantsAssumption DEF RowsEvolve
<1>2. ASSUME NEW i \in 1..lastId PROVE ViewSound(i)'
  <2>1. CASE i = j
    BY <2>1
  <2>2. CASE i # j
    BY <2>2, HistoryGrows, SoundStays DEF ViewSound, RoomViews, Kept
  <2> QED  BY <2>1, <2>2
<1>3. ASSUME NEW i \in 1..lastId' PROVE ViewSound(i)'
  BY <1>1, <1>2 DEF ViewSound
<1>4. ASSUME NEW c \in Calls PROVE OwedSound(c)'
  <2>1. ASSUME pc[c] \in Awaiting, job'[c] = job[c], job[c].item # j PROVE OwedSound(c)'
    <3>1. job[c].item \in 1..lastId
      BY <2>1 DEF LocalsOK, Holding, Awaiting, Step
    <3> QED  BY <2>1, <3>1, OwedStays DEF RoomViews
  <2> QED  BY <2>1
<1> QED  BY <1>1, <1>3, <1>4 DEF RoomViews

\* A step that concerns no item the room may show.
LEMMA ViewsUntouched ==
  ASSUME Typed, RoomViews, [Next]_vars, UNCHANGED room,
         \A i \in DOMAIN rows : i \in DOMAIN rows' /\ rows'[i].status = rows[i].status,
         \A c \in Calls : pc[c] \in Publishing => pc'[c] = pc[c] /\ job'[c] = job[c],
         \A c \in Calls : pc'[c] \in Awaiting => pc[c] \in Awaiting /\ job'[c] = job[c]
  PROVE  RoomViews'
<1> USE DEF Typed, TypeOK
<1>1. \A i \in 1..lastId : Kept(i)
  BY DEF Kept
<1>2. ASSUME NEW c \in Calls
      PROVE  \/ OwedSound(c)'
             \/ pc[c] \in Awaiting /\ job'[c] = job[c] /\ job[c].item # 0
  <2>1. pc[c] \in Awaiting => job[c].item # 0
    BY DEF LocalsOK, Holding, Awaiting, Step
  <2> QED  BY <2>1 DEF OwedSound
<1>3. room'.pending \cup room'.queue \subseteq 1..lastId
  BY DEF RoomViews
<1> QED  BY <1>1, <1>2, <1>3, ViewsStay

\* A call publishes about its item: what nobody has announced is overtaken.
LEMMA PublishedSound ==
  ASSUME Typed, Settled, RoomViews, [Next]_vars, NEW c \in Calls,
         UNCHANGED rows, pc[c] \in Publishing, Overtake(job[c].item),
         pc'[c] \notin Awaiting,
         \A d \in Calls \ {c} : pc'[d] = pc[d] /\ job'[d] = job[d],
         \/ ShowApproved(job[c].item) /\ pc[c] \in {"reqApprove", "pubApproved"}
            /\ job' = job
         \/ ShowGone(job[c].item)
  PROVE  RoomViews'
<1> USE DEF Typed, TypeOK
<1> PICK j : j = job[c].item
  OBVIOUS
<1>1. j \in 1..lastId
  BY DEF LocalsOK, Holding, Publishing, Step
<1>2. /\ room'.pending \cup room'.queue \subseteq room.pending \cup room.queue
      /\ \A i \in (1..lastId) \ {j} : /\ i \in room'.pending => i \in room.pending
                                      /\ i \in room'.queue => i \in room.queue
      /\ j \notin room'.pending
  BY DEF ShowApproved, ShowGone
<1>3. \A i \in (1..lastId) \ {j} : Kept(i)
  BY DEF Kept
<1>4. ViewSound(j)'
  <2>1. CASE ShowGone(job[c].item)
    BY <2>1 DEF ShowGone, ViewSound
  <2>2. CASE ShowApproved(job[c].item) /\ pc[c] \in {"reqApprove", "pubApproved"} /\ job' = job
    <3> SUFFICES ASSUME j \notin overtaken', j \in room'.queue
                 PROVE  Leaving(j)' \/ (j \in DOMAIN rows' /\ rows'[j].status \in Shown)
      BY <1>2 DEF ViewSound
    <3>1. j \notin overtaken /\ j \in room.pending \cup room.queue
      BY <2>2, HistoryGrows DEF ShowApproved
    <3>2. j \in DOMAIN rows => rows[j].status # "pending"
      BY <2>2 DEF Settled, SettledCall
    <3>3. Leaving(j) => Leaving(j)'
      BY <2>2 DEF Leaving, InFlight
    <3> QED  BY <1>1, <3>1, <3>2, <3>3 DEF RoomViews, ViewSound, PendingSound
  <2> QED  BY <2>1, <2>2
<1>5. ASSUME NEW d \in Calls
      PROVE  \/ OwedSound(d)'
             \/ pc[d] \in Awaiting /\ job'[d] = job[d] /\ job[d].item # j
  <2>1. CASE d = c
    BY <2>1 DEF OwedSound
  <2>2. ASSUME d # c, pc[d] \in Awaiting, job[d].item = j PROVE OwedSound(d)'
    <3>1. j \in overtaken'
      BY <2>2 DEF Overtake, AwaitsAnnouncement, InFlight, Awaiting
    <3> QED  BY <2>2, <3>1 DEF OwedSound
  <2> QED  BY <2>1, <2>2 DEF OwedSound
<1>6. room'.pending \cup room'.queue \subseteq 1..lastId
  BY <1>2 DEF RoomViews
<1> QED  BY <1>2, <1>3, <1>4, <1>5, <1>6, ViewsStay

\* A call changes its item's row and goes on to publish what it did.
LEMMA DecidedSound ==
  ASSUME Typed, RoomViews, [Next]_vars, NEW c \in Calls, NEW j, j = job[c].item,
         UNCHANGED room, job' = job, pc[c] \notin Awaiting \cup Publishing,
         \A d \in Calls \ {c} : pc'[d] = pc[d],
         \A i \in DOMAIN rows \ {j} : i \in DOMAIN rows' /\ rows'[i] = rows[i],
         \/ pc'[c] \in {"pubRemoved", "pubRejected"}
         \/ pc'[c] = "pubApproved" /\ j \in DOMAIN rows' /\ rows'[j].status = "approved"
  PROVE  RoomViews'
<1> USE DEF Typed, TypeOK
<1>1. pc'[c] \in {"pubRemoved", "pubRejected"} => Leaving(j)'
  BY DEF Leaving, InFlight
<1>2. pc'[c] = "pubApproved" => Approving(j)'
  BY DEF Approving, InFlight
<1>3. PendingSound(j)' /\ ViewSound(j)'
  BY <1>1, <1>2 DEF PendingSound, ViewSound, Shown
<1>4. \A i \in (1..lastId) \ {j} : Kept(i)
  BY DEF Kept
<1>5. ASSUME NEW d \in Calls
      PROVE  \/ OwedSound(d)'
             \/ pc[d] \in Awaiting /\ job'[d] = job[d] /\ job[d].item # j
  <2>1. CASE d = c
    BY <2>1 DEF OwedSound, Awaiting
  <2>2. CASE d # c /\ job[d].item = j
    <3>1. PendingSound(job[d].item)'
      BY <1>3, <2>2 DEF PendingSound, Leaving, Approving, InFlight
    <3> QED  BY <3>1 DEF OwedSound
  <2>3. CASE d # c /\ job[d].item # j
    BY <2>3 DEF OwedSound
  <2> QED  BY <2>1, <2>2, <2>3
<1>6. room'.pending \cup room'.queue \subseteq 1..lastId
  BY DEF RoomViews
<1> QED  BY <1>3, <1>4, <1>5, <1>6, ViewsStay

LEMMA RoomViewsStep ==
  Typed /\ Settled /\ RoomViews /\ [Next]_vars => RoomViews'
<1> SUFFICES ASSUME Typed, Settled, RoomViews, [Next]_vars
             PROVE  RoomViews'
  OBVIOUS
<1> USE DEF Typed, TypeOK
<1>1. ASSUME NEW c \in Calls, ClientBegins(c) PROVE RoomViews'
  BY <1>1, CallBegins, ViewsUntouched DEF Publishing, Awaiting
<1>2. ASSUME NEW c \in Calls,
             \/ ReadSession(c) \/ AdmitRequest(c) \/ AssertNotRateLimited(c)
             \/ InsertClaim(c)
             \/ \E o \in PushOutcomes : PushRequest(c, o) \/ PushApproval(c, o)
             \/ RecordVote(c)
      PROVE  RoomViews'
  BY <1>2, ViewsUntouched DEF ReadSession, AdmitRequest, AssertNotRateLimited,
     InsertClaim, PushRequest, PushApproval, RecordVote, Goto, Return, tables,
     Publishing, Awaiting
<1>3. ASSUME NEW c \in Calls, CountVote(c) PROVE RoomViews'
  <2>1. \A i \in DOMAIN rows : i \in DOMAIN rows' /\ rows'[i].status = rows[i].status
    BY <1>3 DEF CountVote, Row
  <2> QED  BY <1>3, <2>1, ViewsUntouched DEF CountVote, Goto, Return, Publishing, Awaiting
<1>4. ASSUME NEW c \in Calls, InsertItem(c) PROVE RoomViews'
  <2>1. /\ job'[c].item = lastId + 1 /\ job'[c].moderated = job[c].moderated
        /\ lastId + 1 \in DOMAIN rows'
        /\ rows'[lastId + 1].status = IF job[c].moderated THEN "pending" ELSE "approved"
    BY <1>4 DEF InsertItem, InitialStatus, Job
  <2>2. OwedSound(c)'
    BY <2>1 DEF OwedSound, PendingSound, Shown
  <2>3. /\ UNCHANGED room /\ \A d \in Calls \ {c} : pc'[d] = pc[d] /\ job'[d] = job[d]
        /\ \A i \in DOMAIN rows : i \in DOMAIN rows' /\ rows'[i] = rows[i]
        /\ pc[c] = "reqInsert"
    BY <1>4 DEF InsertItem
  <2>4. \A i \in 1..lastId : Kept(i)
    BY <2>3 DEF Kept, Publishing
  <2>5. \A d \in Calls : pc[d] \in Awaiting => job[d].item # 0
    BY DEF LocalsOK, Holding, Awaiting, Step
  <2>6. \A d \in Calls :
            \/ OwedSound(d)'
            \/ pc[d] \in Awaiting /\ job'[d] = job[d] /\ job[d].item # 0
    BY <2>2, <2>3, <2>5 DEF OwedSound
  <2>7. room'.pending \cup room'.queue \subseteq 1..lastId
    BY <2>3 DEF RoomViews
  <2> QED  BY <2>3, <2>4, <2>6, <2>7, ViewsStay
<1>5. ASSUME NEW c \in Calls, AnnounceRequest(c) PROVE RoomViews'
  <2> PICK j : j = job[c].item
    OBVIOUS
  <2>1. /\ pc[c] = "reqAnnounce" /\ UNCHANGED <<rows, overtaken>> /\ j \in 1..lastId
        /\ room' = [room EXCEPT !.pending = @ \cup {j}]
        /\ pc' = [pc EXCEPT ![c] = IF job[c].moderated THEN "idle" ELSE "reqApprove"]
        /\ \A d \in Calls \ {c} : job'[d] = job[d]
        /\ ~job[c].moderated => job' = job
    BY <1>5 DEF AnnounceRequest, Goto, Return, tables, history, LocalsOK, Holding, Step
  <2>2. \A i : Kept(i)
    BY <2>1 DEF Kept, Publishing
  <2>3. ~job[c].moderated => Approving(j)'
    BY <2>1 DEF Approving, InFlight
  <2>4. ViewSound(j)'
    <3> SUFFICES ASSUME j \notin overtaken PROVE
                 /\ PendingSound(j)'
                 /\ j \in room.queue => Leaving(j)' \/ (j \in DOMAIN rows /\ rows[j].status \in Shown)
      BY <2>1 DEF ViewSound
    <3>1. \/ PendingSound(j)
          \/ ~job[c].moderated /\ j \in DOMAIN rows /\ rows[j].status \in Shown
      BY <2>1 DEF RoomViews, OwedSound, Awaiting
    <3>2. PendingSound(j)'
      BY <2>1, <2>2, <2>3, <3>1, SoundStays DEF PendingSound
    <3>3. j \in room.queue => Leaving(j) \/ (j \in DOMAIN rows /\ rows[j].status \in Shown)
      BY <2>1 DEF RoomViews, ViewSound
    <3> QED  BY <2>2, <3>2, <3>3, SoundStays
  <2>5. ASSUME NEW d \in Calls
        PROVE  \/ OwedSound(d)'
               \/ pc[d] \in Awaiting /\ job'[d] = job[d] /\ job[d].item # j
    <3>1. CASE d = c
      BY <2>1, <3>1 DEF OwedSound, Awaiting
    <3>2. CASE d # c /\ pc[d] \in Awaiting
      BY <2>1, <2>2, <3>2, OwedStays DEF RoomViews
    <3>3. CASE d # c /\ pc[d] \notin Awaiting
      BY <2>1, <3>3 DEF OwedSound
    <3> QED  BY <3>1, <3>2, <3>3
  <2>6. room'.pending \cup room'.queue \subseteq 1..lastId
    BY <2>1 DEF RoomViews
  <2>7. \A i \in (1..lastId) \ {j} : /\ i \in room'.pending => i \in room.pending
                                     /\ i \in room'.queue => i \in room.queue
    BY <2>1
  <2> QED  BY <2>2, <2>4, <2>5, <2>6, <2>7, ViewsStay
<1>6. ASSUME NEW c \in Calls, AnnounceAutoApproval(c) \/ PublishApproved(c)
      PROVE  RoomViews'
  BY <1>6, PublishedSound DEF AnnounceAutoApproval, PublishApproved, Goto, tables,
     Publishing, Awaiting
<1>7. ASSUME NEW c \in Calls, PublishGone(c) PROVE RoomViews'
  BY <1>7, PublishedSound DEF PublishGone, Return, tables, Publishing, Awaiting
<1>8. ASSUME NEW c \in Calls, RollBackRequest(c) \/ DeleteOwn(c) PROVE RoomViews'
  BY <1>8, DecidedSound DEF RollBackRequest, DeleteOwn, DeleteRow, Goto, Publishing, Awaiting
<1>9. ASSUME NEW c \in Calls, DecideItem(c) \/ RejectByVote(c) PROVE RoomViews'
  <2>1. CASE job[c].item \in DOMAIN rows
    BY <1>9, <2>1, DecidedSound DEF DecideItem, RejectByVote, SetStatus, Goto, Row,
       Publishing, Awaiting
  <2>2. CASE job[c].item \notin DOMAIN rows
    BY <1>9, <2>2, ViewsUntouched DEF DecideItem, RejectByVote, Return, Publishing, Awaiting
  <2> QED  BY <2>1, <2>2
<1>10. ASSUME NEW k \in ItemId, NEW s \in {"playing", "played"}, PollWrite(k, s)
       PROVE  RoomViews'
  <2>1. /\ UNCHANGED <<room, pc, job, overtaken>> /\ DOMAIN rows' = DOMAIN rows
        /\ \A i \in DOMAIN rows \ {k} : rows'[i] = rows[i]
        /\ k \in DOMAIN rows => rows[k].status # "pending" /\ rows'[k].status \in Shown
    BY <1>10 DEF PollWrite, calls, history, Settled, SeenOK, Shown, Row
  <2>2. \A i \in (1..lastId) \ {k} : Kept(i)
    BY <2>1 DEF Kept
  <2>3. /\ Leaving(k)' <=> Leaving(k)
        /\ PendingSound(k) => PendingSound(k)'
    BY <2>1 DEF PendingSound, Leaving, Approving, InFlight
  <2>4. k \in 1..lastId => ViewSound(k)'
    BY <2>1, <2>3 DEF RoomViews, ViewSound
  <2>5. ASSUME NEW d \in Calls
        PROVE  \/ OwedSound(d)'
               \/ pc[d] \in Awaiting /\ job'[d] = job[d] /\ job[d].item # k
    <3>1. CASE job[d].item = k
      <4>1. PendingSound(job[d].item)' <=> PendingSound(k)'
        BY <2>1, <3>1 DEF PendingSound, Leaving, Approving, InFlight
      <4> QED  BY <2>1, <2>3, <3>1, <4>1 DEF RoomViews, OwedSound
    <3>2. CASE job[d].item # k
      BY <2>1, <3>2 DEF OwedSound
    <3> QED  BY <3>1, <3>2
  <2> QED  BY <2>1, <2>2, <2>4, <2>5, ViewsStay DEF RoomViews
<1>11. ASSUME Environment \/ UNCHANGED vars PROVE RoomViews'
  <2>1. CASE \E i \in ItemId, s \in {"playing", "played"} : PollWrite(i, s)
    BY <1>10, <2>1
  <2>2. CASE ~\E i \in ItemId, s \in {"playing", "played"} : PollWrite(i, s)
    BY <1>11, <2>2, ViewsUntouched DEF Environment, PollRead, PollSkip, EndSession,
       SetModeration, CooldownEnds, tables, calls, vars
  <2> QED  BY <2>1, <2>2
<1> QED
  BY <1>1, <1>2, <1>3, <1>4, <1>5, <1>6, <1>7, <1>8, <1>9, <1>11
     DEF Next, CallProceeds

\* Hosts and guests may act on any row of the table, announced or not: the
\* room goes on showing a rejected or deleted item, or a decided one as
\* pending, without a call on its way to correct it, only where an event about
\* the item has overtaken the one that introduces it.
THEOREM RoomViewSoundHolds == Spec => []RoomViewSound
<1>1. Init => RoomViews
  BY DEF Init, RoomViews, ViewSound, OwedSound, Awaiting
<1>2. RoomViews => RoomViewSound
  BY DEF RoomViews, ViewSound, RoomViewSound, PendingSound, Approving, Shown
<1> QED  BY <1>1, <1>2, RoomViewsStep, SettledAlways, TypedAlways, PTL DEF Spec

-----------------------------------------------------------------------------
(* VoteLedger.                                                             *)

LEMMA LedgerFinite ==
  ASSUME Typed, NEW i
  PROVE  /\ IsFiniteSet(VotesOn(i)) /\ Cardinality(VotesOn(i)) \in Nat
         /\ IsFiniteSet(CountersOn(i)) /\ Cardinality(CountersOn(i)) \in Nat
<1>1. IsFiniteSet({i} \X Guests)
  BY FS_Singleton, FS_Product, ConstantsAssumption
<1>2. VotesOn(i) \subseteq {i} \X Guests
  BY DEF VotesOn, Typed, TypeOK
<1>3. CountersOn(i) \subseteq Calls
  BY DEF CountersOn
<1>4. IsFiniteSet(VotesOn(i)) /\ IsFiniteSet(CountersOn(i))
  BY <1>1, <1>2, <1>3, FS_Subset, ConstantsAssumption
<1> QED  BY <1>4, FS_CardinalityType

\* The ledger entry of one item.
Balanced(i) ==
    rows[i].skipVotes + Cardinality(CountersOn(i)) = Cardinality(VotesOn(i))

\* The two statements of recordVote: the insert adds a vote and a counter
\* still to come, the update turns that counter into a count.
LEMMA VoteInserted ==
  ASSUME Typed, NEW i, Balanced(i), rows[i].skipVotes \in Nat,
         rows'[i].skipVotes = rows[i].skipVotes,
         NEW v, v \notin VotesOn(i), VotesOn(i)' = VotesOn(i) \cup {v},
         NEW c, c \notin CountersOn(i), CountersOn(i)' = CountersOn(i) \cup {c}
  PROVE  Balanced(i)'
<1>1. /\ Cardinality(VotesOn(i) \cup {v}) = Cardinality(VotesOn(i)) + 1
      /\ Cardinality(CountersOn(i) \cup {c}) = Cardinality(CountersOn(i)) + 1
  BY LedgerFinite, FS_AddElement
<1> QED  BY <1>1, LedgerFinite DEF Balanced

LEMMA VoteCounted ==
  ASSUME Typed, NEW i, Balanced(i), rows[i].skipVotes \in Nat,
         rows'[i].skipVotes = rows[i].skipVotes + 1,
         VotesOn(i)' = VotesOn(i),
         NEW c \in CountersOn(i), CountersOn(i)' = CountersOn(i) \ {c}
  PROVE  Balanced(i)'
<1>1. Cardinality(CountersOn(i) \ {c}) = Cardinality(CountersOn(i)) - 1
  BY LedgerFinite, FS_RemoveElement
<1> QED  BY <1>1, LedgerFinite DEF Balanced

LEMMA VoteLedgerStep ==
  Typed /\ NoOrphans /\ VoteLedger /\ [Next]_vars => VoteLedger'
<1> SUFFICES ASSUME Typed, NoOrphans, VoteLedger, [Next]_vars, NEW i \in DOMAIN rows'
             PROVE  Balanced(i)'
  BY DEF VoteLedger, Balanced
<1> USE DEF Typed, TypeOK
<1>0. i \in DOMAIN rows => Balanced(i) /\ rows[i].skipVotes \in Nat
  BY DEF VoteLedger, Balanced, Row
<1>1. ASSUME i \in DOMAIN rows, rows'[i].skipVotes = rows[i].skipVotes,
             VotesOn(i)' = VotesOn(i), CountersOn(i)' = CountersOn(i)
      PROVE  Balanced(i)'
  BY <1>0, <1>1 DEF Balanced
<1>2. ASSUME i \in DOMAIN rows, rows'[i].skipVotes = rows[i].skipVotes,
             \A v : v[1] = i => (v \in votes <=> v \in votes'),
             \A c \in Calls : \/ pc'[c] = pc[c] /\ job'[c] = job[c]
                              \/ pc[c] # "voteCount" /\ pc'[c] # "voteCount"
      PROVE  Balanced(i)'
  <2>1. VotesOn(i)' = VotesOn(i)
    BY <1>2 DEF VotesOn
  <2>2. CountersOn(i)' = CountersOn(i)
    BY <1>2 DEF CountersOn
  <2> QED  BY <1>1, <1>2, <2>1, <2>2
<1>3. ASSUME NEW c \in Calls, ClientBegins(c) PROVE Balanced(i)'
  BY <1>2, <1>3, CallBegins
<1>4. ASSUME NEW c \in Calls,
             \/ ReadSession(c) \/ AdmitRequest(c) \/ AssertNotRateLimited(c) \/ InsertClaim(c)
             \/ AnnounceRequest(c) \/ AnnounceAutoApproval(c)
             \/ \E o \in PushOutcomes : PushRequest(c, o) \/ PushApproval(c, o)
             \/ PublishApproved(c) \/ PublishGone(c)
      PROVE  Balanced(i)'
  BY <1>2, <1>4 DEF ReadSession, AdmitRequest, AssertNotRateLimited, InsertClaim, AnnounceRequest,
     AnnounceAutoApproval, PushRequest, PushApproval, PublishApproved, PublishGone,
     Goto, Return, tables
<1>5. ASSUME NEW c \in Calls, InsertItem(c) PROVE Balanced(i)'
  <2>1. CASE i \in DOMAIN rows
    BY <1>2, <1>5, <2>1 DEF InsertItem
  <2>2. CASE i \notin DOMAIN rows
    <3>1. rows'[i].skipVotes = 0 /\ UNCHANGED votes
      BY <1>5, <2>2 DEF InsertItem
    <3>2. VotesOn(i)' = {}
      BY <2>2, <3>1 DEF NoOrphans, VotesOn
    <3>3. CountersOn(i)' = {}
      BY <1>5, <2>2 DEF InsertItem, CountersOn, LocalsOK, Holding, Step
    <3> QED  BY <3>1, <3>2, <3>3, FS_EmptySet DEF Balanced
  <2> QED  BY <2>1, <2>2
<1>6. ASSUME NEW c \in Calls, RollBackRequest(c) \/ DeleteOwn(c) PROVE Balanced(i)'
  BY <1>2, <1>6 DEF RollBackRequest, DeleteOwn, DeleteRow, Goto
<1>7. ASSUME NEW c \in Calls, DecideItem(c) \/ RejectByVote(c) PROVE Balanced(i)'
  BY <1>2, <1>7 DEF DecideItem, RejectByVote, SetStatus, Goto, Return, Row
<1>8. ASSUME NEW c \in Calls, RecordVote(c) PROVE Balanced(i)'
  <2> PICK v : v = <<job[c].item, job[c].guest>>
    OBVIOUS
  <2>1. CASE job[c].item \in DOMAIN rows /\ v \notin votes
    <3>1. /\ pc[c] = "voteInsert" /\ votes' = votes \cup {v} /\ UNCHANGED rows
          /\ pc' = [pc EXCEPT ![c] = "voteCount"] /\ job' = job
      BY <1>8, <2>1 DEF RecordVote, Goto
    <3>2. CASE job[c].item = i
      <4>1. VotesOn(i)' = VotesOn(i) \cup {v} /\ v \notin VotesOn(i)
        BY <2>1, <3>1, <3>2 DEF VotesOn
      <4>2. CountersOn(i)' = CountersOn(i) \cup {c} /\ c \notin CountersOn(i)
        BY <3>1, <3>2 DEF CountersOn
      <4> QED  BY <1>0, <3>1, <4>1, <4>2, VoteInserted
    <3>3. CASE job[c].item # i
      <4>1. VotesOn(i)' = VotesOn(i)
        BY <3>1, <3>3 DEF VotesOn
      <4>2. CountersOn(i)' = CountersOn(i)
        BY <3>1, <3>3 DEF CountersOn
      <4> QED  BY <1>1, <3>1, <4>1, <4>2
    <3> QED  BY <3>2, <3>3
  <2>2. CASE ~(job[c].item \in DOMAIN rows /\ v \notin votes)
    BY <1>2, <1>8, <2>2 DEF RecordVote, Return
  <2> QED  BY <2>1, <2>2
<1>9. ASSUME NEW c \in Calls, CountVote(c) PROVE Balanced(i)'
  <2>1. /\ pc[c] = "voteCount" /\ pc'[c] # "voteCount" /\ UNCHANGED votes
        /\ \A d \in Calls \ {c} : pc'[d] = pc[d] /\ job'[d] = job[d]
        /\ i \in DOMAIN rows
    BY <1>9 DEF CountVote, Goto, Return
  <2>2. VotesOn(i)' = VotesOn(i)
    BY <2>1 DEF VotesOn
  <2>3. CASE job[c].item = i
    <3>1. rows'[i].skipVotes = rows[i].skipVotes + 1
      BY <1>9, <2>1, <2>3 DEF CountVote, Row
    <3>2. c \in CountersOn(i) /\ CountersOn(i)' = CountersOn(i) \ {c}
      BY <2>1, <2>3 DEF CountersOn
    <3> QED  BY <1>0, <2>1, <2>2, <3>1, <3>2, VoteCounted
  <2>4. CASE job[c].item # i
    <3>1. rows'[i].skipVotes = rows[i].skipVotes
      BY <1>9, <2>1, <2>4 DEF CountVote, Row
    <3>2. CountersOn(i)' = CountersOn(i)
      BY <2>1, <2>4 DEF CountersOn
    <3> QED  BY <1>1, <2>1, <2>2, <3>1, <3>2
  <2> QED  BY <2>3, <2>4
<1>10. ASSUME Environment \/ UNCHANGED vars PROVE Balanced(i)'
  <2>1. CASE PollRead \/ (\E k \in ItemId : PollSkip(k)) \/ UNCHANGED vars
    BY <1>2, <2>1 DEF PollRead, PollSkip, tables, calls, vars
  <2>2. CASE \E k \in ItemId : \E s \in {"playing", "played"} : PollWrite(k, s)
    BY <1>2, <2>2 DEF PollWrite, calls, Row
  <2>3. CASE EndSession \/ (\E b \in BOOLEAN : SetModeration(b)) \/ CooldownEnds
    BY <1>2, <2>3 DEF EndSession, SetModeration, CooldownEnds, tables, calls
  <2> QED  BY <1>10, <2>1, <2>2, <2>3 DEF Environment
<1> QED
  BY <1>3, <1>4, <1>5, <1>6, <1>7, <1>8, <1>9, <1>10 DEF Next, CallProceeds

\* A row's counter never drifts from the vote ledger, although recordVote
\* writes the two in separate statements and other calls run in between.
THEOREM VoteLedgerHolds == Spec => []VoteLedger
<1>1. Init => VoteLedger
  BY DEF Init, VoteLedger
<1> QED  BY <1>1, VoteLedgerStep, NoOrphansHolds, TypedAlways, PTL DEF Spec

-----------------------------------------------------------------------------
(* DrainedSessionGrowsNoMore.                                              *)

\* A call that passed the admission rules found the session unended.
Admitted ==
    \A c \in Calls : pc[c] \in {"reqAssert", "reqInsert"} => ~job[c].ended

LEMMA AdmittedStep == Typed /\ Admitted /\ [Next]_vars => Admitted'
<1> SUFFICES ASSUME Typed, Admitted, [Next]_vars PROVE Admitted'
  OBVIOUS
<1> USE DEF Typed, TypeOK
<1>1. ASSUME \A c \in Calls :
                 pc'[c] \in {"reqAssert", "reqInsert"} =>
                     pc[c] \in {"reqAssert", "reqInsert"} /\ job'[c] = job[c]
      PROVE  Admitted'
  BY <1>1 DEF Admitted
<1>2. ASSUME NEW c \in Calls, ClientBegins(c) PROVE Admitted'
  BY <1>1, <1>2, CallBegins
<1>2a. ASSUME NEW c \in Calls, ReadSession(c) PROVE Admitted'
  BY <1>1, <1>2a DEF ReadSession
<1>3. ASSUME NEW c \in Calls, AdmitRequest(c) PROVE Admitted'
  <2>1. \A d \in Calls \ {c} : pc'[d] = pc[d] /\ job'[d] = job[d]
    BY <1>3 DEF AdmitRequest, Goto, Return
  <2>2. CASE CanEnqueue(Settings, job[c].ended, rows, job[c].guest, job[c].track)
             /\ KaraokeGate(job[c].mic)
    <3>1. ~job[c].ended /\ job'[c] = job[c]
      BY <1>3, <2>2 DEF AdmitRequest, CanEnqueue, Goto
    <3> QED  BY <2>1, <3>1 DEF Admitted
  <2>3. CASE ~(CanEnqueue(Settings, job[c].ended, rows, job[c].guest, job[c].track)
               /\ KaraokeGate(job[c].mic))
    BY <1>1, <1>3, <2>3 DEF AdmitRequest, Return
  <2> QED  BY <2>2, <2>3
<1>4. ASSUME NEW c \in Calls, AssertNotRateLimited(c) PROVE Admitted'
  BY <1>1, <1>4 DEF AssertNotRateLimited, Goto, Return
<1>5. ASSUME NEW c \in Calls, InsertItem(c) PROVE Admitted'
  BY <1>1, <1>5 DEF InsertItem
<1>6. ASSUME NEW c \in Calls,
             \/ InsertClaim(c) \/ AnnounceRequest(c) \/ AnnounceAutoApproval(c)
             \/ \E o \in PushOutcomes : PushRequest(c, o) \/ PushApproval(c, o)
             \/ PublishApproved(c) \/ PublishGone(c)
             \/ RollBackRequest(c) \/ DeleteOwn(c)
      PROVE  Admitted'
  BY <1>1, <1>6 DEF InsertClaim, AnnounceRequest, AnnounceAutoApproval, PushRequest,
     PushApproval, PublishApproved, PublishGone, RollBackRequest, DeleteOwn, Goto, Return
<1>7. ASSUME NEW c \in Calls,
             DecideItem(c) \/ RecordVote(c) \/ CountVote(c) \/ RejectByVote(c)
      PROVE  Admitted'
  BY <1>1, <1>7 DEF DecideItem, RecordVote, CountVote, RejectByVote, Goto, Return
<1>8. ASSUME Environment \/ UNCHANGED vars PROVE Admitted'
  BY <1>1, <1>8 DEF Environment, PollRead, PollSkip, PollWrite, EndSession, SetModeration,
     CooldownEnds, calls, vars
<1> QED
  BY <1>2, <1>2a, <1>3, <1>4, <1>5, <1>6, <1>7, <1>8 DEF Next, CallProceeds

LEMMA AdmittedAlways == Spec => []Admitted
<1>1. Init => Admitted
  BY DEF Init, Admitted
<1> QED  BY <1>1, AdmittedStep, TypedAlways, PTL DEF Spec

\* Only a request adds a row, and one that still may holds an unended session.
LEMMA GrowsByRequest ==
  Typed /\ Admitted /\ [Next]_vars => lastId' = lastId \/ RequestsInFlight # {}
<1> SUFFICES ASSUME Typed, Admitted, [Next]_vars
             PROVE  lastId' = lastId \/ RequestsInFlight # {}
  OBVIOUS
<1>1. ASSUME NEW c \in Calls, InsertItem(c) PROVE c \in RequestsInFlight
  BY <1>1 DEF InsertItem, Admitted, RequestsInFlight
<1>2. ASSUME NEW c \in Calls, ClientBegins(c) PROVE lastId' = lastId
  BY <1>2, CallBegins
<1>3. ASSUME NEW c \in Calls, CallProceeds(c), ~InsertItem(c) PROVE lastId' = lastId
  BY <1>3 DEF CallProceeds, ReadSession, AdmitRequest, AssertNotRateLimited, InsertClaim,
     AnnounceRequest, AnnounceAutoApproval, PushRequest, PushApproval, PublishApproved,
     PublishGone, RollBackRequest, DeleteOwn, DecideItem, RecordVote, CountVote,
     RejectByVote, tables
<1>4. ASSUME Environment \/ UNCHANGED vars PROVE lastId' = lastId
  BY <1>4 DEF Environment, PollRead, PollSkip, PollWrite, EndSession, SetModeration,
     CooldownEnds, tables, vars
<1> QED  BY <1>1, <1>2, <1>3, <1>4 DEF Next

\* A request that enters after the end reads the session as ended.
LEMMA NoneJoins ==
  ASSUME Typed, [Next]_vars, session.ended
  PROVE  RequestsInFlight' \subseteq RequestsInFlight
<1> USE DEF Typed, TypeOK
<1>1. ASSUME \A c \in Calls :
                 pc'[c] \in {"reqEnter", "reqRead", "reqAssert", "reqInsert"} =>
                     /\ job'[c] = job[c]
                     /\ pc'[c] = "reqEnter" => pc[c] = "reqEnter"
                     /\ pc'[c] # "reqEnter" => pc[c] \in {"reqRead", "reqAssert", "reqInsert"}
      PROVE  RequestsInFlight' \subseteq RequestsInFlight
  BY <1>1 DEF RequestsInFlight
<1>2. ASSUME NEW c \in Calls, ClientBegins(c)
      PROVE  RequestsInFlight' \subseteq RequestsInFlight
  <2>1. CASE \E g \in Guests, t \in Tracks, mic \in BOOLEAN : RequestTrack(c, g, t, mic)
    <3>0. PICK g \in Guests, t \in Tracks, mic \in BOOLEAN : RequestTrack(c, g, t, mic)
      BY <2>1
    <3> DEFINE locals == [NoJob EXCEPT !.guest = g, !.track = t, !.mic = mic,
                                      !.beforeEnd = ~session.ended]
    <3>a. /\ pc' = [pc EXCEPT ![c] = "reqEnter"]
          /\ job' = [job EXCEPT ![c] = locals]
      BY <3>0 DEF RequestTrack, Begin
    <3>b. ~locals.beforeEnd
      BY DEF NoJob
    <3>c. pc \in [Calls -> Step] /\ job \in [Calls -> Job]
      OBVIOUS
    <3> HIDE DEF locals, TypeOK
    <3>1. /\ pc'[c] = "reqEnter" /\ ~job'[c].beforeEnd
          /\ \A d \in Calls \ {c} : pc'[d] = pc[d] /\ job'[d] = job[d]
      BY <3>a, <3>b, <3>c
    <3> QED  BY <3>1 DEF RequestsInFlight
  <2>2. CASE ~\E g \in Guests, t \in Tracks, mic \in BOOLEAN : RequestTrack(c, g, t, mic)
    <3>1. /\ pc'[c] \notin {"reqEnter", "reqRead", "reqAssert", "reqInsert"}
          /\ \A d \in Calls \ {c} : pc'[d] = pc[d] /\ job'[d] = job[d]
      BY <1>2, <2>2 DEF ClientBegins, Moderate, RemoveOwn, CastSkipVote, Begin
    <3> QED  BY <1>1, <3>1
  <2> QED  BY <2>1, <2>2
<1>3. ASSUME NEW c \in Calls, ReadSession(c)
      PROVE  RequestsInFlight' \subseteq RequestsInFlight
  <2>1. PICK e \in EndSeen(job[c].beforeEnd) :
            job' = [job EXCEPT ![c].beforeEnd = FALSE, ![c].ended = e,
                               ![c].moderated = session.moderationEnabled]
    BY <1>3 DEF ReadSession
  <2>2. job'[c].ended = e
    BY <2>1 DEF Job
  <2>3. /\ pc[c] = "reqEnter" /\ pc'[c] = "reqRead"
        /\ \A d \in Calls \ {c} : pc'[d] = pc[d] /\ job'[d] = job[d]
    BY <1>3, <2>1 DEF ReadSession
  <2>4. ~e => job[c].beforeEnd
    BY <2>1 DEF EndSeen
  <2> QED  BY <2>2, <2>3, <2>4 DEF RequestsInFlight
<1>4. ASSUME NEW c \in Calls,
             \/ AdmitRequest(c) \/ AssertNotRateLimited(c) \/ InsertItem(c)
             \/ InsertClaim(c) \/ AnnounceRequest(c) \/ AnnounceAutoApproval(c)
             \/ \E o \in PushOutcomes : PushRequest(c, o) \/ PushApproval(c, o)
             \/ PublishApproved(c) \/ PublishGone(c)
             \/ RollBackRequest(c) \/ DeleteOwn(c)
      PROVE  RequestsInFlight' \subseteq RequestsInFlight
  BY <1>1, <1>4 DEF AdmitRequest, AssertNotRateLimited, InsertItem, InsertClaim,
     AnnounceRequest, AnnounceAutoApproval, PushRequest, PushApproval, PublishApproved,
     PublishGone, RollBackRequest, DeleteOwn, Goto, Return
<1>5. ASSUME NEW c \in Calls,
             DecideItem(c) \/ RecordVote(c) \/ CountVote(c) \/ RejectByVote(c)
      PROVE  RequestsInFlight' \subseteq RequestsInFlight
  BY <1>1, <1>5 DEF DecideItem, RecordVote, CountVote, RejectByVote, Goto, Return
<1>6. ASSUME Environment \/ UNCHANGED vars
      PROVE  RequestsInFlight' \subseteq RequestsInFlight
  BY <1>1, <1>6 DEF Environment, PollRead, PollSkip, PollWrite, EndSession, SetModeration,
     CooldownEnds, calls, vars
<1> QED
  BY <1>2, <1>3, <1>4, <1>5, <1>6 DEF Next, CallProceeds

\* requestTrack takes `now' first and reads the session row later: when the
\* requests an end of the session caught in flight are answered, the table
\* grows no more.
THEOREM DrainedSessionGrowsNoMoreHolds == Spec => DrainedSessionGrowsNoMore
<1>1. Typed /\ Admitted /\ [Next]_vars
          => [session.ended => /\ RequestsInFlight' \subseteq RequestsInFlight
                               /\ RequestsInFlight = {} => lastId' = lastId]_vars
  BY GrowsByRequest, NoneJoins
<1> QED  BY <1>1, TypedAlways, AdmittedAlways, PTL DEF Spec, DrainedSessionGrowsNoMore

-----------------------------------------------------------------------------
(* The admission rules.  canEnqueue looks at the list before the insert, so *)
(* each call that has been admitted and has not inserted yet stands for one *)
(* item more.                                                               *)

Cleared == {"reqAssert", "reqInsert"}

HeldBy(g) == {i \in ActiveItems(rows) : rows[i].guest = g}
ClearedFor(g) == {c \in Calls : pc[c] \in Cleared /\ job[c].guest = g}

ItemsOn(t) == {i \in ActiveItems(rows) : rows[i].track = t}
ClearedOn(t) == {c \in Calls : pc[c] \in Cleared /\ job[c].track = t}

\* No step takes an item that was decided or played back into the list.  The
\* host may (an approval after a rejection), and so may a poller that writes
\* `playing' over a rejection; the caps are about requests.
NothingReopens ==
    \A i \in DOMAIN rows \cap DOMAIN rows' :
        rows'[i].status \in ActiveStatuses => rows[i].status \in ActiveStatuses

\* songsPerGuestCap, with calls that overlap: at most one item too many for
\* each further call that the process handles at once.
CapOverrunBounded ==
    \A g \in Guests : CountActiveItemsForGuest(rows, g)
                      <= Settings.songsPerGuestCap + Cardinality(Calls) - 1

\* allowDuplicates = false, with calls that overlap: a track waits or plays at
\* most once for each call that the process handles at once.
DuplicatesBounded ==
    ~Settings.allowDuplicates =>
        \A t \in Tracks : Cardinality(ItemsOn(t)) <= Cardinality(Calls)

CapCounted ==
    \A g \in Guests : Cardinality(HeldBy(g)) + Cardinality(ClearedFor(g))
                      <= Settings.songsPerGuestCap + Cardinality(Calls) - 1

TracksCounted ==
    ~Settings.allowDuplicates =>
        \A t \in Tracks : Cardinality(ItemsOn(t)) + Cardinality(ClearedOn(t))
                          <= Cardinality(Calls)

\* Sums of two finite sets when neither grows, and when one element of the
\* second turns into one of the first.
LEMMA SumStays ==
  ASSUME NEW S, NEW T, IsFiniteSet(S), IsFiniteSet(T),
         NEW S2 \in SUBSET S, NEW T2 \in SUBSET T
  PROVE  /\ Cardinality(S2) + Cardinality(T2) <= Cardinality(S) + Cardinality(T)
         /\ Cardinality(S2) + Cardinality(T2) \in Nat
         /\ Cardinality(S) + Cardinality(T) \in Nat
<1>1. /\ IsFiniteSet(S2) /\ Cardinality(S2) <= Cardinality(S)
      /\ IsFiniteSet(T2) /\ Cardinality(T2) <= Cardinality(T)
  BY FS_Subset
<1>2. /\ Cardinality(S) \in Nat /\ Cardinality(T) \in Nat
      /\ Cardinality(S2) \in Nat /\ Cardinality(T2) \in Nat
  BY <1>1, FS_CardinalityType
<1> QED  BY <1>1, <1>2

LEMMA SumMoves ==
  ASSUME NEW S, NEW T, IsFiniteSet(S), IsFiniteSet(T), NEW x, NEW y \in T
  PROVE  /\ Cardinality(S \cup {x}) + Cardinality(T \ {y}) <= Cardinality(S) + Cardinality(T)
         /\ Cardinality(S \cup {x}) + Cardinality(T \ {y}) \in Nat
         /\ Cardinality(S) + Cardinality(T) \in Nat
<1>1. /\ IsFiniteSet(S \cup {x})
      /\ Cardinality(S \cup {x}) = IF x \in S THEN Cardinality(S) ELSE Cardinality(S) + 1
  BY FS_AddElement
<1>2. /\ IsFiniteSet(T \ {y}) /\ Cardinality(T \ {y}) = Cardinality(T) - 1
  BY FS_RemoveElement
<1>3. /\ Cardinality(S) \in Nat /\ Cardinality(T) \in Nat
      /\ Cardinality(S \cup {x}) \in Nat /\ Cardinality(T \ {y}) \in Nat
  BY <1>1, <1>2, FS_CardinalityType
<1> QED  BY <1>1, <1>2, <1>3

LEMMA ListsFinite ==
  ASSUME Typed, NEW x
  PROVE  /\ IsFiniteSet(ActiveItems(rows)) /\ IsFiniteSet(WaitingItems(rows))
         /\ IsFiniteSet(HeldBy(x)) /\ IsFiniteSet(ItemsOn(x))
         /\ Cardinality(HeldBy(x)) \in Nat /\ Cardinality(ItemsOn(x)) \in Nat
<1>1. IsFiniteSet(1..lastId)
  BY FS_Interval DEF Typed, TypeOK
<1>2. /\ ActiveItems(rows) \subseteq 1..lastId /\ WaitingItems(rows) \subseteq 1..lastId
      /\ HeldBy(x) \subseteq 1..lastId /\ ItemsOn(x) \subseteq 1..lastId
  BY DEF Typed, TypeOK, ActiveItems, WaitingItems, HeldBy, ItemsOn
<1> QED  BY <1>1, <1>2, FS_Subset, FS_CardinalityType

LEMMA ClearedFinite ==
  ASSUME NEW x
  PROVE  /\ IsFiniteSet(ClearedFor(x)) /\ IsFiniteSet(ClearedOn(x))
         /\ Cardinality(ClearedFor(x)) \in Nat /\ Cardinality(ClearedOn(x)) \in Nat
         /\ Cardinality(ClearedFor(x)') \in Nat /\ Cardinality(ClearedOn(x)') \in Nat
         /\ Cardinality(ClearedFor(x)') <= Cardinality(Calls)
         /\ Cardinality(ClearedOn(x)') <= Cardinality(Calls)
         /\ Cardinality(Calls) \in Nat
<1>1. /\ ClearedFor(x) \subseteq Calls /\ ClearedFor(x)' \subseteq Calls
      /\ ClearedOn(x) \subseteq Calls /\ ClearedOn(x)' \subseteq Calls
  BY DEF ClearedFor, ClearedOn
<1> QED  BY <1>1, FS_Subset, FS_CardinalityType, ConstantsAssumption

\* A step admits a request, or inserts one, or leaves the table without new
\* rows and the admitted calls as they were.
LEMMA AdmissionSteps ==
  ASSUME Typed, [Next]_vars
  PROVE  \/ \E c \in Calls : AdmitRequest(c) \/ InsertItem(c)
         \/ /\ lastId' = lastId
            /\ \A c \in Calls : pc'[c] \in Cleared => pc[c] \in Cleared /\ job'[c] = job[c]
<1> DEFINE Calm == /\ lastId' = lastId
                   /\ \A c \in Calls : pc'[c] \in Cleared
                                       => pc[c] \in Cleared /\ job'[c] = job[c]
<1> USE DEF Typed, TypeOK, Cleared
<1>1. ASSUME NEW c \in Calls, ClientBegins(c) PROVE Calm
  BY <1>1, CallBegins
<1>1a. ASSUME NEW c \in Calls, ReadSession(c) PROVE Calm
  BY <1>1a DEF ReadSession, tables
<1>2. ASSUME NEW c \in Calls,
             \/ AssertNotRateLimited(c) \/ InsertClaim(c)
             \/ AnnounceRequest(c) \/ AnnounceAutoApproval(c)
             \/ \E o \in PushOutcomes : PushRequest(c, o) \/ PushApproval(c, o)
             \/ PublishApproved(c) \/ PublishGone(c)
             \/ RollBackRequest(c) \/ DeleteOwn(c)
      PROVE  Calm
  BY <1>2 DEF AssertNotRateLimited, InsertClaim, AnnounceRequest, AnnounceAutoApproval,
     PushRequest, PushApproval, PublishApproved, PublishGone, RollBackRequest, DeleteOwn,
     Goto, Return, tables
<1>3. ASSUME NEW c \in Calls,
             DecideItem(c) \/ RecordVote(c) \/ CountVote(c) \/ RejectByVote(c)
      PROVE  Calm
  BY <1>3 DEF DecideItem, RecordVote, CountVote, RejectByVote, Goto, Return
<1>4. ASSUME Environment \/ UNCHANGED vars PROVE Calm
  BY <1>4 DEF Environment, PollRead, PollSkip, PollWrite, EndSession, SetModeration,
     CooldownEnds, tables, calls, vars
<1> QED  BY <1>1, <1>1a, <1>2, <1>3, <1>4 DEF Next, CallProceeds

\* Where nothing is inserted and nothing reopens, the lists only shrink.
LEMMA ListsShrink ==
  ASSUME Typed, [Next]_vars, NothingReopens, lastId' = lastId, NEW x
  PROVE  HeldBy(x)' \subseteq HeldBy(x) /\ ItemsOn(x)' \subseteq ItemsOn(x)
<1>1. Typed' /\ RowsEvolve
  BY TypedStep, RowsEvolveStep
<1>2. ASSUME NEW i \in ActiveItems(rows)'
      PROVE  /\ i \in ActiveItems(rows) /\ rows'[i].guest = rows[i].guest
             /\ rows'[i].track = rows[i].track
  <2>1. i \in DOMAIN rows' /\ i \in 1..lastId
    BY <1>1 DEF ActiveItems, Typed, TypeOK
  <2> QED  BY <1>1, <2>1 DEF RowsEvolve, NothingReopens, ActiveItems
<1> QED  BY <1>2 DEF HeldBy, ItemsOn

\* The insert: the new row is the admitted call's.
LEMMA ListsGrow ==
  ASSUME Typed, NEW c \in Calls, InsertItem(c), NEW x
  PROVE  /\ IF job[c].guest = x
            THEN HeldBy(x)' = HeldBy(x) \cup {lastId + 1}
            ELSE HeldBy(x)' = HeldBy(x)
         /\ IF job[c].track = x
            THEN ItemsOn(x)' = ItemsOn(x) \cup {lastId + 1}
            ELSE ItemsOn(x)' = ItemsOn(x)
         /\ ClearedFor(x)' = ClearedFor(x) \ {c}
         /\ ClearedOn(x)' = ClearedOn(x) \ {c}
         /\ c \in ClearedFor(job[c].guest) /\ c \in ClearedOn(job[c].track)
<1> USE DEF Typed, TypeOK
<1>1. /\ DOMAIN rows' = DOMAIN rows \cup {lastId + 1} /\ lastId + 1 \notin DOMAIN rows
      /\ \A i \in DOMAIN rows : rows'[i] = rows[i]
      /\ rows'[lastId + 1].guest = job[c].guest /\ rows'[lastId + 1].track = job[c].track
      /\ rows'[lastId + 1].status \in ActiveStatuses
  BY ConstantsAssumption DEF InsertItem, InitialStatus, ActiveStatuses
<1>2. ActiveItems(rows)' = ActiveItems(rows) \cup {lastId + 1}
  BY <1>1 DEF ActiveItems
<1>3. \A i \in ActiveItems(rows) : rows'[i] = rows[i] /\ i # lastId + 1
  BY <1>1 DEF ActiveItems
<1>4. /\ pc[c] = "reqInsert" /\ pc'[c] \notin Cleared
      /\ \A d \in Calls \ {c} : pc'[d] = pc[d] /\ job'[d] = job[d]
  BY DEF InsertItem, Cleared
<1> QED  BY <1>1, <1>2, <1>3, <1>4 DEF HeldBy, ItemsOn, ClearedFor, ClearedOn, Cleared

\* The admission: a call that passes joins the admitted ones, and nothing else
\* changes.
LEMMA AdmissionFacts ==
  ASSUME Typed, NEW c \in Calls, AdmitRequest(c), NEW x
  PROVE  /\ HeldBy(x)' = HeldBy(x) /\ ItemsOn(x)' = ItemsOn(x)
         /\ \/ ClearedFor(x)' \subseteq ClearedFor(x) /\ ClearedOn(x)' \subseteq ClearedOn(x)
            \/ /\ CanEnqueue(Settings, job[c].ended, rows, job[c].guest, job[c].track)
               /\ job[c].guest # x => ClearedFor(x)' \subseteq ClearedFor(x)
               /\ job[c].track # x => ClearedOn(x)' \subseteq ClearedOn(x)
<1> USE DEF Typed, TypeOK
<1>1. rows' = rows
  BY DEF AdmitRequest, tables
<1>2. HeldBy(x)' = HeldBy(x) /\ ItemsOn(x)' = ItemsOn(x)
  BY <1>1 DEF HeldBy, ItemsOn, ActiveItems
<1>3. CASE CanEnqueue(Settings, job[c].ended, rows, job[c].guest, job[c].track)
           /\ KaraokeGate(job[c].mic)
  <2>1. job' = job /\ \A d \in Calls \ {c} : pc'[d] = pc[d]
    BY <1>3 DEF AdmitRequest, Goto
  <2> QED  BY <1>2, <1>3, <2>1 DEF ClearedFor, ClearedOn
<1>4. CASE ~(CanEnqueue(Settings, job[c].ended, rows, job[c].guest, job[c].track)
             /\ KaraokeGate(job[c].mic))
  <2>1. /\ \A d \in Calls \ {c} : pc'[d] = pc[d] /\ job'[d] = job[d]
        /\ pc'[c] \notin Cleared
    BY <1>4 DEF AdmitRequest, Return, Cleared
  <2> QED  BY <1>2, <2>1 DEF ClearedFor, ClearedOn
<1> QED  BY <1>3, <1>4

LEMMA CapCountedStep ==
  ASSUME Typed, CapCounted, [Next]_vars, NothingReopens, Settings.songsPerGuestCap \in Nat
  PROVE  CapCounted'
<1> SUFFICES ASSUME NEW g \in Guests
             PROVE  Cardinality(HeldBy(g)') + Cardinality(ClearedFor(g)')
                    <= Settings.songsPerGuestCap + Cardinality(Calls) - 1
  BY DEF CapCounted
<1> DEFINE Sum == Cardinality(HeldBy(g)) + Cardinality(ClearedFor(g))
           After == Cardinality(HeldBy(g)') + Cardinality(ClearedFor(g)')
<1>0. /\ Sum <= Settings.songsPerGuestCap + Cardinality(Calls) - 1
      /\ IsFiniteSet(HeldBy(g)) /\ IsFiniteSet(ClearedFor(g))
      /\ Cardinality(Calls) \in Nat
  BY ListsFinite, ClearedFinite DEF CapCounted
<1>1. ASSUME After <= Sum /\ After \in Nat /\ Sum \in Nat
      PROVE  After <= Settings.songsPerGuestCap + Cardinality(Calls) - 1
  BY <1>0, <1>1
<1> HIDE DEF Sum, After
<1>2. ASSUME HeldBy(g)' \subseteq HeldBy(g), ClearedFor(g)' \subseteq ClearedFor(g)
      PROVE  After <= Settings.songsPerGuestCap + Cardinality(Calls) - 1
  <2>1. After <= Sum /\ After \in Nat /\ Sum \in Nat
    BY <1>0, <1>2, SumStays DEF Sum, After
  <2> QED  BY <1>1, <2>1
<1>3. ASSUME NEW c \in Calls, AdmitRequest(c)
      PROVE  After <= Settings.songsPerGuestCap + Cardinality(Calls) - 1
  <2>1. CASE ClearedFor(g)' \subseteq ClearedFor(g)
    BY <1>2, <1>3, <2>1, AdmissionFacts
  <2>2. CASE ~(ClearedFor(g)' \subseteq ClearedFor(g))
    <3>1. CanEnqueue(Settings, job[c].ended, rows, g, job[c].track)
      BY <1>3, <2>2, AdmissionFacts
    <3>2. Cardinality(HeldBy(g)) < Settings.songsPerGuestCap
      <4>1. CountActiveItemsForGuest(rows, g) = Cardinality(HeldBy(g))
        BY DEF CountActiveItemsForGuest, HeldBy
      <4>2. ~(CountActiveItemsForGuest(rows, g) >= Settings.songsPerGuestCap)
        BY <3>1 DEF CanEnqueue, EnforcePerGuestCap
      <4>3. Cardinality(HeldBy(g)) \in Nat /\ Settings.songsPerGuestCap \in Int
        BY ListsFinite, ConstantsAssumption
      <4> QED  BY ONLY <4>1, <4>2, <4>3
    <3>3. HeldBy(g)' = HeldBy(g)
      BY <1>3, AdmissionFacts
    <3> QED  BY <3>2, <3>3, ListsFinite, ClearedFinite DEF After
  <2> QED  BY <2>1, <2>2
<1>4. ASSUME NEW c \in Calls, InsertItem(c)
      PROVE  After <= Settings.songsPerGuestCap + Cardinality(Calls) - 1
  <2>1. CASE job[c].guest = g
    <3>1. /\ HeldBy(g)' = HeldBy(g) \cup {lastId + 1}
          /\ ClearedFor(g)' = ClearedFor(g) \ {c} /\ c \in ClearedFor(g)
      BY <1>4, <2>1, ListsGrow
    <3>2. After <= Sum /\ After \in Nat /\ Sum \in Nat
      BY <1>0, <3>1, SumMoves DEF Sum, After
    <3> QED  BY <1>1, <3>2
  <2>2. CASE job[c].guest # g
    BY <1>2, <1>4, <2>2, ListsGrow
  <2> QED  BY <2>1, <2>2
<1>5. ASSUME lastId' = lastId,
             \A c \in Calls : pc'[c] \in Cleared => pc[c] \in Cleared /\ job'[c] = job[c]
      PROVE  After <= Settings.songsPerGuestCap + Cardinality(Calls) - 1
  <2>1. ClearedFor(g)' \subseteq ClearedFor(g)
    BY <1>5 DEF ClearedFor
  <2> QED  BY <1>2, <1>5, <2>1, ListsShrink
<1> QED  BY <1>3, <1>4, <1>5, AdmissionSteps DEF After

LEMMA TracksCountedStep ==
  ASSUME Typed, TracksCounted, [Next]_vars, NothingReopens
  PROVE  TracksCounted'
<1> SUFFICES ASSUME ~Settings.allowDuplicates, NEW t \in Tracks
             PROVE  Cardinality(ItemsOn(t)') + Cardinality(ClearedOn(t)') <= Cardinality(Calls)
  BY DEF TracksCounted
<1> DEFINE Sum == Cardinality(ItemsOn(t)) + Cardinality(ClearedOn(t))
           After == Cardinality(ItemsOn(t)') + Cardinality(ClearedOn(t)')
<1>0. /\ Sum <= Cardinality(Calls)
      /\ IsFiniteSet(ItemsOn(t)) /\ IsFiniteSet(ClearedOn(t))
      /\ Cardinality(Calls) \in Nat
  BY ListsFinite, ClearedFinite DEF TracksCounted
<1>1. ASSUME After <= Sum /\ After \in Nat /\ Sum \in Nat
      PROVE  After <= Cardinality(Calls)
  BY <1>0, <1>1
<1> HIDE DEF Sum, After
<1>2. ASSUME ItemsOn(t)' \subseteq ItemsOn(t), ClearedOn(t)' \subseteq ClearedOn(t)
      PROVE  After <= Cardinality(Calls)
  <2>1. After <= Sum /\ After \in Nat /\ Sum \in Nat
    BY <1>0, <1>2, SumStays DEF Sum, After
  <2> QED  BY <1>1, <2>1
<1>3. ASSUME NEW c \in Calls, AdmitRequest(c)
      PROVE  After <= Cardinality(Calls)
  <2>1. CASE ClearedOn(t)' \subseteq ClearedOn(t)
    BY <1>2, <1>3, <2>1, AdmissionFacts
  <2>2. CASE ~(ClearedOn(t)' \subseteq ClearedOn(t))
    <3>1. CanEnqueue(Settings, job[c].ended, rows, job[c].guest, t)
      BY <1>3, <2>2, AdmissionFacts
    <3>2. ItemsOn(t) = {}
      BY <3>1 DEF CanEnqueue, IsDuplicate, ItemsOn
    <3>3. Cardinality(ItemsOn(t)') = 0
      BY <1>3, <3>2, AdmissionFacts, FS_EmptySet
    <3> QED  BY <3>3, ClearedFinite DEF After
  <2> QED  BY <2>1, <2>2
<1>4. ASSUME NEW c \in Calls, InsertItem(c)
      PROVE  After <= Cardinality(Calls)
  <2>1. CASE job[c].track = t
    <3>1. /\ ItemsOn(t)' = ItemsOn(t) \cup {lastId + 1}
          /\ ClearedOn(t)' = ClearedOn(t) \ {c} /\ c \in ClearedOn(t)
      BY <1>4, <2>1, ListsGrow
    <3>2. After <= Sum /\ After \in Nat /\ Sum \in Nat
      BY <1>0, <3>1, SumMoves DEF Sum, After
    <3> QED  BY <1>1, <3>2
  <2>2. CASE job[c].track # t
    BY <1>2, <1>4, <2>2, ListsGrow
  <2> QED  BY <2>1, <2>2
<1>5. ASSUME lastId' = lastId,
             \A c \in Calls : pc'[c] \in Cleared => pc[c] \in Cleared /\ job'[c] = job[c]
      PROVE  After <= Cardinality(Calls)
  <2>1. ClearedOn(t)' \subseteq ClearedOn(t)
    BY <1>5 DEF ClearedOn
  <2> QED  BY <1>2, <1>5, <2>1, ListsShrink
<1> QED  BY <1>3, <1>4, <1>5, AdmissionSteps DEF After

LEMMA CountedInit ==
  ASSUME Init
  PROVE  /\ TracksCounted
         /\ Calls # {} /\ Settings.songsPerGuestCap \in Nat => CapCounted
<1>1. \A x : /\ HeldBy(x) = {} /\ ItemsOn(x) = {}
             /\ ClearedFor(x) = {} /\ ClearedOn(x) = {}
  BY DEF Init, HeldBy, ItemsOn, ActiveItems, ClearedFor, ClearedOn, Cleared
<1>2. /\ Cardinality(Calls) \in Nat /\ (Calls # {} => Cardinality(Calls) # 0)
      /\ Cardinality({}) = 0
  BY FS_EmptySet, FS_CardinalityType, ConstantsAssumption
<1>3. TracksCounted
  BY <1>1, <1>2 DEF TracksCounted
<1>4. ASSUME Calls # {}, Settings.songsPerGuestCap \in Nat PROVE CapCounted
  <2>1. 0 + 0 <= Settings.songsPerGuestCap + Cardinality(Calls) - 1
    BY <1>2, <1>4
  <2> QED  BY <1>1, <1>2, <2>1 DEF CapCounted
<1> QED  BY <1>3, <1>4

\* However requests overlap, and whatever else happens to the rows, no guest
\* gets more than one song beyond songsPerGuestCap for each further call.
THEOREM CapOverrunIsBounded ==
  ASSUME Calls # {}, Settings.songsPerGuestCap \in Nat
  PROVE  Spec /\ [][NothingReopens]_vars => []CapOverrunBounded
<1>1. Init => CapCounted
  BY CountedInit
<1>2. Typed /\ CapCounted /\ [Next]_vars /\ [NothingReopens]_vars => CapCounted'
  <2>1. CASE UNCHANGED vars
    <3>1. CapCounted => CapCounted'
      BY <2>1 DEF vars, CapCounted, HeldBy, ActiveItems, ClearedFor
    <3> QED  BY <3>1
  <2>2. CASE ~UNCHANGED vars
    BY <2>2, CapCountedStep
  <2> QED  BY <2>1, <2>2
<1>3. Typed /\ CapCounted => CapOverrunBounded
  <2> SUFFICES ASSUME Typed, CapCounted, NEW g \in Guests
               PROVE  Cardinality(HeldBy(g)) <= Settings.songsPerGuestCap + Cardinality(Calls) - 1
    BY DEF CapOverrunBounded, CountActiveItemsForGuest, HeldBy
  <2> QED  BY ListsFinite, ClearedFinite DEF CapCounted
<1> QED  BY <1>1, <1>2, <1>3, TypedAlways, PTL DEF Spec

\* However requests overlap, a track is in the active list at most once for
\* each call that the process handles at once.
THEOREM DuplicatesAreBounded ==
  Spec /\ [][NothingReopens]_vars => []DuplicatesBounded
<1>1. Init => TracksCounted
  BY CountedInit
<1>2. Typed /\ TracksCounted /\ [Next]_vars /\ [NothingReopens]_vars => TracksCounted'
  <2>1. CASE UNCHANGED vars
    <3>1. TracksCounted => TracksCounted'
      BY <2>1 DEF vars, TracksCounted, ItemsOn, ActiveItems, ClearedOn
    <3> QED  BY <3>1
  <2>2. CASE ~UNCHANGED vars
    BY <2>2, TracksCountedStep
  <2> QED  BY <2>1, <2>2
<1>3. Typed /\ TracksCounted => DuplicatesBounded
  <2> SUFFICES ASSUME Typed, TracksCounted, ~Settings.allowDuplicates, NEW t \in Tracks
               PROVE  Cardinality(ItemsOn(t)) <= Cardinality(Calls)
    BY DEF DuplicatesBounded
  <2> QED  BY ListsFinite, ClearedFinite DEF TracksCounted
<1> QED  BY <1>1, <1>2, <1>3, TypedAlways, PTL DEF Spec

\* With requests that do not overlap the cap of songs per guest is exact.
THEOREM SongsPerGuestCapHoldsAlone ==
  ASSUME Cardinality(Calls) = 1, Settings.songsPerGuestCap \in Nat
  PROVE  Spec /\ [][NothingReopens]_vars => []SongsPerGuestCapHolds
<1>1. Calls # {}
  BY FS_EmptySet
<1>2. CapOverrunBounded => SongsPerGuestCapHolds
  BY DEF CapOverrunBounded, SongsPerGuestCapHolds
<1> QED  BY <1>1, <1>2, CapOverrunIsBounded, PTL

\* With requests that do not overlap no track is in the active list twice.
THEOREM NoDuplicateRequestAlone ==
  ASSUME Cardinality(Calls) = 1
  PROVE  Spec /\ [][NothingReopens]_vars => []NoDuplicateRequest
<1>2. Typed /\ DuplicatesBounded => NoDuplicateRequest
  <2> SUFFICES ASSUME Typed, DuplicatesBounded, ~Settings.allowDuplicates,
                      NEW i \in ActiveItems(rows), NEW j \in ActiveItems(rows),
                      rows[i].track = rows[j].track
               PROVE  i = j
    BY DEF NoDuplicateRequest
  <2> DEFINE same == ItemsOn(rows[i].track)
  <2>1. i \in same /\ j \in same /\ rows[i].track \in Tracks
    BY DEF ItemsOn, ActiveItems, Typed, TypeOK, Row
  <2>2. IsFiniteSet(same) /\ Cardinality(same) \in Nat /\ Cardinality(same) <= 1
    BY <2>1, ListsFinite DEF DuplicatesBounded
  <2> HIDE DEF same
  <2>3. {i, j} \subseteq same
    BY <2>1
  <2>4. IsFiniteSet({i, j}) /\ Cardinality({i, j}) <= 1 /\ Cardinality({i, j}) \in Nat
    BY <2>2, <2>3, FS_Subset, FS_CardinalityType
  <2>5. Cardinality({i, j} \ {i}) = Cardinality({i, j}) - 1 /\ IsFiniteSet({i, j} \ {i})
    BY <2>4, FS_RemoveElement
  <2>6. Cardinality({i, j} \ {i}) \in Nat
    BY <2>5, FS_CardinalityType
  <2>7. Cardinality({i, j} \ {i}) = 0
    BY <2>4, <2>5, <2>6
  <2>8. {i, j} \ {i} = {}
    BY <2>5, <2>7, FS_EmptySet
  <2> QED  BY <2>8
<1> QED  BY <1>2, DuplicatesAreBounded, TypedAlways, PTL

-----------------------------------------------------------------------------
(* maxConsecutivePerGuest.  What a request was admitted on is still so when *)
(* it inserts, if calls do not overlap and the poller moves nothing: an item *)
(* that starts to play leaves the waiting list, which may close the gap      *)
(* between two runs of one guest.                                            *)

AloneInv ==
    /\ DOMAIN pollSeen = {}
    /\ \A c \in Calls : pc[c] \in Cleared =>
           ~EnforceConsecutiveCap(rows, job[c].guest, Settings.maxConsecutivePerGuest)

LEMMA AloneStep ==
  ASSUME \A c, d \in Calls : c = d, "poll" \notin Operations, Typed, AloneInv, [Next]_vars
  PROVE  AloneInv'
<1> USE DEF Typed, TypeOK, Cleared
<1>1. ASSUME DOMAIN pollSeen' = {},
             \A c \in Calls : pc'[c] \in Cleared
                              => pc[c] \in Cleared /\ job'[c] = job[c] /\ rows' = rows
      PROVE  AloneInv'
  BY <1>1 DEF AloneInv
<1>2. ASSUME NEW c \in Calls, ClientBegins(c) PROVE AloneInv'
  BY <1>1, <1>2, CallBegins DEF AloneInv
<1>2a. ASSUME NEW c \in Calls, ReadSession(c) PROVE AloneInv'
  BY <1>1, <1>2a DEF ReadSession, tables, AloneInv
<1>3. ASSUME NEW c \in Calls, AdmitRequest(c) PROVE AloneInv'
  <2>1. /\ \A d \in Calls : d = c
        /\ rows' = rows /\ pollSeen' = pollSeen
    BY <1>3 DEF AdmitRequest, tables
  <2>2. CASE CanEnqueue(Settings, job[c].ended, rows, job[c].guest, job[c].track)
             /\ KaraokeGate(job[c].mic)
    <3>1. job' = job
      BY <1>3, <2>2 DEF AdmitRequest, Goto
    <3>2. ~EnforceConsecutiveCap(rows, job[c].guest, Settings.maxConsecutivePerGuest)
      BY <2>2 DEF CanEnqueue
    <3> QED  BY <2>1, <3>1, <3>2 DEF AloneInv
  <2>3. CASE ~(CanEnqueue(Settings, job[c].ended, rows, job[c].guest, job[c].track)
               /\ KaraokeGate(job[c].mic))
    BY <1>1, <1>3, <2>1, <2>3 DEF AdmitRequest, Return, AloneInv
  <2> QED  BY <2>2, <2>3
<1>4. ASSUME NEW c \in Calls, AssertNotRateLimited(c) PROVE AloneInv'
  BY <1>1, <1>4 DEF AssertNotRateLimited, Goto, Return, tables, AloneInv
<1>5. ASSUME NEW c \in Calls,
             \/ InsertItem(c) \/ InsertClaim(c)
             \/ AnnounceRequest(c) \/ AnnounceAutoApproval(c)
             \/ \E o \in PushOutcomes : PushRequest(c, o) \/ PushApproval(c, o)
             \/ PublishApproved(c) \/ PublishGone(c)
             \/ RollBackRequest(c) \/ DeleteOwn(c)
      PROVE  AloneInv'
  <2>1. pollSeen' = pollSeen /\ pc'[c] \notin Cleared
    BY <1>5 DEF InsertItem, InsertClaim, AnnounceRequest, AnnounceAutoApproval,
       PushRequest, PushApproval, PublishApproved, PublishGone, RollBackRequest, DeleteOwn,
       Goto, Return, tables
  <2> QED  BY <1>1, <2>1 DEF AloneInv
<1>6. ASSUME NEW c \in Calls,
             DecideItem(c) \/ RecordVote(c) \/ CountVote(c) \/ RejectByVote(c)
      PROVE  AloneInv'
  <2>1. pollSeen' = pollSeen /\ pc'[c] \notin Cleared
    BY <1>6 DEF DecideItem, RecordVote, CountVote, RejectByVote, Goto, Return
  <2> QED  BY <1>1, <2>1 DEF AloneInv
<1>7. ASSUME Environment \/ UNCHANGED vars PROVE AloneInv'
  <2>1. pollSeen' = pollSeen /\ rows' = rows /\ pc' = pc /\ job' = job
    BY <1>7 DEF Environment, PollRead, PollSkip, PollWrite, EndSession, SetModeration,
       CooldownEnds, tables, calls, vars, AloneInv
  <2> QED  BY <1>1, <2>1 DEF AloneInv
<1> QED  BY <1>2, <1>2a, <1>3, <1>4, <1>5, <1>6, <1>7 DEF Next, CallProceeds

\* Behind every waiting item there is one more once a request is inserted.
LEMMA OneMoreBehind ==
  ASSUME Typed, NEW c \in Calls, InsertItem(c), NEW i \in WaitingItems(rows)
  PROVE  /\ Cardinality({j \in WaitingItems(rows) : j > i}) \in Nat
         /\ Cardinality({j \in WaitingItems(rows)' : j > i})
            = Cardinality({j \in WaitingItems(rows) : j > i}) + 1
<1> DEFINE behind == {j \in WaitingItems(rows) : j > i}
<1>1. /\ WaitingItems(rows)' = WaitingItems(rows) \cup {lastId + 1}
      /\ \A j \in WaitingItems(rows) : j \in 1..lastId
  BY ConstantsAssumption
     DEF InsertItem, InitialStatus, WaitingItems, WaitingStatuses, Typed, TypeOK
<1>2. lastId \in Nat /\ i \in 1..lastId
  BY <1>1, ConstantsAssumption DEF Typed, TypeOK
<1>3. /\ {j \in WaitingItems(rows)' : j > i} = behind \cup {lastId + 1}
      /\ lastId + 1 \notin behind
  BY <1>1, <1>2
<1>4. IsFiniteSet(behind)
  BY ListsFinite, FS_Subset
<1> HIDE DEF behind
<1>5. Cardinality(behind) \in Nat /\ Cardinality(behind \cup {lastId + 1}) = Cardinality(behind) + 1
  BY <1>3, <1>4, FS_AddElement, FS_CardinalityType
<1> QED  BY <1>3, <1>5 DEF behind

\* A request that the rule lets pass does not make too many in a row.
LEMMA InsertKeepsRuns ==
  ASSUME Typed, NEW c \in Calls, InsertItem(c),
         ~EnforceConsecutiveCap(rows, job[c].guest, Settings.maxConsecutivePerGuest)
  PROVE  ~TooManyInARow'
<1> DEFINE cap == Settings.maxConsecutivePerGuest
           W == WaitingItems(rows)
           W2 == WaitingItems(rows)'
           n == lastId + 1
           newest == {i \in W2 : Cardinality({j \in W2 : j > i}) <= cap}
           owners == {rows'[i].guest : i \in newest}
<1> SUFFICES ASSUME cap # NoLimit, Cardinality(newest) > cap, Cardinality(owners) = 1
             PROVE  FALSE
  BY DEF TooManyInARow
<1>0. cap \in Int /\ Typed'
  BY ConstantsAssumption, TypedStep DEF Next, CallProceeds
<1>1. /\ W2 = W \cup {n} /\ n \notin W
      /\ \A i \in W : rows'[i] = rows[i]
      /\ rows'[n].guest = job[c].guest
      /\ W \subseteq 1..lastId
  BY ConstantsAssumption
     DEF InsertItem, InitialStatus, WaitingItems, WaitingStatuses, Typed, TypeOK
<1>2. /\ IsFiniteSet(W) /\ IsFiniteSet(W2) /\ newest \subseteq W2
      /\ Cardinality(W) \in Nat /\ Cardinality(W2) = Cardinality(W) + 1
  BY <1>1, ListsFinite, FS_AddElement, FS_CardinalityType
<1>3. Cardinality(W) >= cap
  <2>1. Cardinality(newest) <= Cardinality(W2) /\ IsFiniteSet(newest)
    BY <1>2, FS_Subset
  <2>2. Cardinality(newest) \in Nat
    BY <2>1, FS_CardinalityType
  <2> HIDE DEF newest, cap, W, W2
  <2> QED  BY <1>0, <1>2, <2>1, <2>2
<1>4. PICK k \in W : /\ Cardinality({j \in W : j > k}) < cap
                     /\ rows[k].guest # job[c].guest
  BY <1>3 DEF EnforceConsecutiveCap
<1>5. k \in newest
  <2>1. Cardinality({j \in W2 : j > k}) = Cardinality({j \in W : j > k}) + 1
    BY OneMoreBehind
  <2>2. Cardinality({j \in W : j > k}) \in Nat
    BY OneMoreBehind
  <2>3. k \in W2
    BY <1>1
  <2> QED  BY <1>0, <1>4, <2>1, <2>2, <2>3
<1>6. n \in newest
  <2>1. {j \in W2 : j > n} = {}
    <3>1. lastId \in Nat
      BY ConstantsAssumption DEF Typed, TypeOK
    <3> QED  BY <1>1, <3>1
  <2>2. Cardinality({j \in W2 : j > n}) = 0
    BY <2>1, FS_EmptySet
  <2>3. cap >= 0
    <3>1. Cardinality({j \in W : j > k}) \in Nat
      BY OneMoreBehind
    <3> QED  BY <1>0, <1>4, <3>1
  <2> QED  BY <1>1, <2>2, <2>3
<1>7. rows[k].guest \in owners /\ job[c].guest \in owners
  BY <1>1, <1>4, <1>5, <1>6
<1>8. IsFiniteSet(owners)
  <2>1. \A i \in newest : rows'[i].guest \in Guests
    BY <1>0 DEF WaitingItems, Typed, TypeOK, Row
  <2>2. owners \subseteq Guests
    BY <2>1
  <2> QED  BY <2>2, FS_Subset, ConstantsAssumption
<1> HIDE DEF owners
<1>9. PICK g : owners = {g}
  BY <1>8, FS_Singleton
<1> QED  BY <1>4, <1>7, <1>9

\* With requests that do not overlap and a poller at rest, a request never
\* makes its guest the owner of too many waiting items in a row.
THEOREM ConsecutiveCapKeptAlone ==
  ASSUME \A c, d \in Calls : c = d, "poll" \notin Operations
  PROVE  Spec => ConsecutiveCapKept
<1>1. Init => AloneInv
  BY DEF Init, AloneInv, Cleared
<1>2. Typed /\ AloneInv /\ [Next]_vars => AloneInv'
  BY AloneStep
<1>3. Typed /\ AloneInv /\ [Next]_vars => [lastId' > lastId => ~TooManyInARow']_vars
  <2> SUFFICES ASSUME Typed, AloneInv, [Next]_vars, lastId' > lastId
               PROVE  ~TooManyInARow'
    OBVIOUS
  <2>1. lastId \in Nat
    BY ConstantsAssumption DEF Typed, TypeOK
  <2>2. lastId' # lastId
    BY <2>1
  <2>3. PICK c \in Calls : AdmitRequest(c) \/ InsertItem(c)
    BY <2>2, AdmissionSteps
  <2>4. InsertItem(c)
    BY <2>2, <2>3 DEF ReadSession, AdmitRequest, tables
  <2>5. ~EnforceConsecutiveCap(rows, job[c].guest, Settings.maxConsecutivePerGuest)
    BY <2>4 DEF InsertItem, AloneInv, Cleared
  <2> QED  BY <2>4, <2>5, InsertKeepsRuns
<1> QED  BY <1>1, <1>2, <1>3, TypedAlways, PTL DEF Spec, ConsecutiveCapKept
=============================================================================
