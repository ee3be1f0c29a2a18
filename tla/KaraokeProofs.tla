--------------------------- MODULE KaraokeProofs ---------------------------
(***************************************************************************)
(* Proofs about Karaoke, for any items, tracks, guests and calls, and any  *)
(* deadline.                                                               *)
(***************************************************************************)
EXTENDS Karaoke, TLAPS, FiniteSetTheorems

-----------------------------------------------------------------------------
(* Type correctness.                                                       *)

\* A call about a claim was made by a guest.
TypeInv ==
    /\ TypeOK
    /\ \A c \in Calls : pc[c] = "claimInsert" => job[c].guest \in Guests

LEMMA MomentsFacts ==
    /\ 0 \in Moments /\ Timeout \in Moments
    /\ \A n \in Moments : Elapse(n) \in Moments
BY ConstantsAssumption DEF Moments, Elapse

LEMMA NoneTypes ==
    /\ EmptyState \in KaraokeState
    /\ NoTick \in TickState /\ NoTick.pc = "idle"
    /\ NoJob \in Locals
BY MomentsFacts DEF EmptyState, KaraokeState, NoTick, TickState, NoJob, Locals

LEMMA TypeInit == Init => TypeInv
<1> SUFFICES ASSUME Init PROVE TypeInv
  OBVIOUS
<1> USE NoneTypes DEF Init
<1>1. /\ DOMAIN items \subseteq Items
      /\ items \in [DOMAIN items -> [status: {"approved", "playing", "played"}]]
      /\ claims \subseteq (DOMAIN items) \X Guests
  OBVIOUS
<1>2. pc \in [Calls -> CallSteps] /\ \A c \in Calls : pc[c] # "claimInsert"
  BY DEF CallSteps
<1> QED
  BY <1>1, <1>2 DEF TypeInv, TypeOK

\* A call that goes on with locals of its type keeps the types.
LEMMA GotoType ==
    ASSUME TypeInv, NEW c \in Calls, NEW step \in CallSteps, NEW locals \in Locals,
           step = "claimInsert" => locals.guest \in Guests,
           Goto(c, step, locals)
    PROVE  /\ pc' \in [Calls -> CallSteps]
           /\ job' \in [Calls -> Locals]
           /\ \A d \in Calls : pc'[d] = "claimInsert" => job'[d].guest \in Guests
BY DEF TypeInv, TypeOK, Goto

LEMMA ReturnType ==
    ASSUME TypeInv, NEW c \in Calls, Return(c)
    PROVE  /\ pc' \in [Calls -> CallSteps]
           /\ job' \in [Calls -> Locals]
           /\ \A d \in Calls : pc'[d] = "claimInsert" => job'[d].guest \in Guests
<1>1. "idle" \in CallSteps
  BY DEF CallSteps
<1> QED
  BY <1>1, NoneTypes, GotoType DEF Return

\* The helpers' results, and what they leave to their callers.
LEMMA CallProviderType ==
    ASSUME TypeOK, NEW act \in {"pause", "resume"}, NEW ok \in BOOLEAN, CallProvider(act, ok)
    PROVE  /\ player' \in [track: Tracks \cup {NoTrack}, playing: BOOLEAN]
           /\ held' \in BOOLEAN
BY DEF TypeOK, CallProvider, playback

LEMMA ClearPauseType ==
    ASSUME TypeOK, ClearPause
    PROVE  svc' \in KaraokeState /\ room' \in KaraokeState
BY MomentsFacts DEF TypeOK, ClearPause, KaraokeState

LEMMA SetPauseType ==
    ASSUME TypeOK, NEW i \in Items \cup {NoItem}, NEW n \in Moments, SetPause(i, n)
    PROVE  svc' \in KaraokeState /\ room' \in KaraokeState
BY DEF TypeOK, SetPause, KaraokeState

LEMMA SetSpotlightType ==
    ASSUME TypeOK, NEW i \in Items \cup {NoItem}, SetSpotlight(i)
    PROVE  svc' \in KaraokeState /\ room' \in KaraokeState
BY MomentsFacts DEF TypeOK, SetSpotlight, KaraokeState, EmptyState

\* A step of the poller's tick keeps the types.
LEMMA TypeTick == TypeInv /\ Tick => TypeInv'
<1> SUFFICES ASSUME TypeInv, Tick PROVE TypeInv'
  OBVIOUS
<1> USE DEF TypeInv, TypeOK, database, state, playback, entry, calls
<1>0. ASSUME NEW step \in {"clear", "resume", "change", "session", "items", "pick",
                            "paused"},
             TickTo(step)
      PROVE  tick' \in TickState
  BY <1>0 DEF TickTo, TickState
<1>1. CASE Sample
  <2>1. tick' \in TickState
    BY <1>1, NoneTypes DEF Sample, TickState
  <2> QED  BY <1>1, <2>1 DEF Sample
<1>2. CASE Reconcile
  BY <1>0, <1>2, ClearPauseType DEF Reconcile
<1>3. ASSUME NEW ok \in BOOLEAN, ReconcileResume(ok) \/ AutoPause(ok) PROVE TypeInv'
  BY <1>0, <1>3, CallProviderType DEF ReconcileResume, AutoPause
<1>4. CASE ReconcileClear
  BY <1>0, <1>4, ClearPauseType DEF ReconcileClear
<1>5. CASE TrackChange
  <2>1. tick' \in TickState /\ lastUri' \in Tracks \cup {NoTrack}
    BY <1>5, NoneTypes, MomentsFacts DEF TrackChange, TickState
  <2> QED  BY <1>5, <2>1 DEF TrackChange
<1>6. CASE ReadSession
  <2>1. CASE karaokeMode = "off"
    BY <1>6, <2>1, SetSpotlightType, NoneTypes DEF ReadSession
  <2>2. CASE karaokeMode # "off"
    BY <1>0, <1>6, <2>2 DEF ReadSession
  <2> QED  BY <2>1, <2>2
<1>7. CASE ReadCandidates
  <2>1. tick' \in TickState
    BY <1>7 DEF ReadCandidates, TickState, ActiveItems
  <2> QED  BY <1>7, <2>1 DEF ReadCandidates
<1>8. ASSUME NEW i \in Items \cup {NoItem}, Spotlight(i),
             UNCHANGED <<database, playback, entry, calls>>
      PROVE TypeInv'
  <2>1. svc' \in KaraokeState /\ room' \in KaraokeState
    BY <1>8, SetSpotlightType DEF Spotlight
  <2>2. tick' \in TickState
    BY <1>8, NoneTypes DEF Spotlight, TickState
  <2> QED  BY <1>8, <2>1, <2>2
<1>9. CASE PickSpotlight
  <2>1. CASE tick.candidates = {}
    BY <1>8, <1>9, <2>1 DEF PickSpotlight
  <2>2. CASE tick.candidates # {}
    <3>1. PICK i \in tick.candidates :
             \/ Spotlight(i)
             \/ tick' = [tick EXCEPT !.candidates = @ \ {i}] /\ UNCHANGED state
      BY <1>9, <2>2 DEF PickSpotlight
    <3>2. i \in Items
      BY <3>1 DEF TickState
    <3>3. UNCHANGED <<database, playback, entry, calls>>
      BY <1>9 DEF PickSpotlight
    <3>4. CASE tick' = [tick EXCEPT !.candidates = @ \ {i}] /\ UNCHANGED state
      <4>1. tick' \in TickState
        BY <3>4 DEF TickState
      <4> QED  BY <3>3, <3>4, <4>1
    <3> QED  BY <1>8, <3>1, <3>2, <3>3, <3>4
  <2> QED  BY <2>1, <2>2
<1>10. CASE AutoPaused
  <2>1. tick.item \in Items \cup {NoItem} /\ tick.left \in Moments
    BY DEF TickState
  <2> QED  BY <1>10, <2>1, NoneTypes, SetPauseType DEF AutoPaused
<1>11. CASE TickReadFails
  BY <1>11, NoneTypes DEF TickReadFails
<1> QED
  BY <1>1, <1>2, <1>3, <1>4, <1>5, <1>6, <1>7, <1>9, <1>10, <1>11 DEF Tick

\* A step of a call keeps the types.
LEMMA TypeCalls ==
    ASSUME TypeInv, NEW c \in Calls, CallBegins(c) \/ CallProceeds(c)
    PROVE  TypeInv'
<1> USE DEF TypeInv, TypeOK, database, state, playback, poller
<1>0. /\ {"pauseCheck", "pauseCall", "pauseSet", "readyCheck", "readyCall",
          "readyClear", "claimInsert", "claimDelete"} \subseteq CallSteps
      /\ job[c] \in Locals
      /\ \A g \in Guests : [NoJob EXCEPT !.guest = g] \in Locals
  BY NoneTypes DEF CallSteps, Locals
<1>1. ASSUME NEW g \in Guests, Pause(c, g) \/ Ready(c, g) PROVE TypeInv'
  BY <1>0, <1>1, GotoType DEF Pause, Ready, Ask
<1>2. ASSUME NEW g \in Guests, NEW i \in Items,
             Claim(c, g, i) \/ RemoveClaim(c, g, i) \/ HostRemoveClaim(c, g, i)
      PROVE TypeInv'
  <2>1. /\ [NoJob EXCEPT !.guest = g, !.item = i] \in Locals
        /\ [NoJob EXCEPT !.guest = g, !.item = i].guest = g
    BY NoneTypes DEF Locals
  <2>2. PICK step \in {"claimInsert", "claimDelete"} :
           Goto(c, step, [NoJob EXCEPT !.guest = g, !.item = i])
    BY <1>2 DEF Claim, RemoveClaim, HostRemoveClaim
  <2>3. UNCHANGED <<database, state, playback, poller>>
    BY <1>2 DEF Claim, RemoveClaim, HostRemoveClaim
  <2> QED
    BY <1>0, <2>1, <2>2, <2>3, GotoType
<1>3. CASE PauseCheck(c)
  <2>1. [job[c] EXCEPT !.item = svc.item, !.left = Timeout] \in Locals
    BY <1>0, MomentsFacts DEF Locals, KaraokeState
  <2> QED
    BY <1>0, <1>3, <2>1, GotoType, ReturnType DEF PauseCheck
<1>4. CASE PauseSet(c)
  <2>1. job[c].item \in Items \cup {NoItem} /\ job[c].left \in Moments
    BY <1>0 DEF Locals
  <2> QED
    BY <1>4, <2>1, SetPauseType, ReturnType DEF PauseSet
<1>5. CASE ReadyCheck(c)
  BY <1>0, <1>5, GotoType, ReturnType DEF ReadyCheck
<1>6. CASE ReadyClear(c)
  BY <1>6, ClearPauseType, ReturnType DEF ReadyClear
<1>7. ASSUME NEW ok \in BOOLEAN, PauseCall(c, ok) \/ ReadyCall(c, ok) PROVE TypeInv'
  <2>1. CASE PauseCall(c, ok)
    BY <1>0, <2>1, CallProviderType, GotoType DEF PauseCall
  <2>2. CASE ReadyCall(c, ok)
    BY <1>0, <2>2, CallProviderType, GotoType DEF ReadyCall
  <2> QED  BY <1>7, <2>1, <2>2
<1>8. CASE ClaimInsert(c)
  BY <1>8, ReturnType DEF ClaimInsert
<1>9. CASE ClaimDelete(c)
  BY <1>9, ReturnType DEF ClaimDelete
<1> QED
  BY <1>1, <1>2, <1>3, <1>4, <1>5, <1>6, <1>7, <1>8, <1>9 DEF CallBegins, CallProceeds

\* A step of the environment keeps the types.
LEMMA TypeEnvironment == TypeInv /\ Environment => TypeInv'
<1> SUFFICES ASSUME TypeInv, Environment PROVE TypeInv'
  OBVIOUS
<1> USE DEF TypeInv, TypeOK, database, state, playback, entry, poller, calls
<1>1. CASE PollerStops \/ PollerStarts
  BY <1>1 DEF PollerStops, PollerStarts
<1>2. CASE ServerRestarts
  <2>1. pc' \in [Calls -> CallSteps] /\ \A c \in Calls : pc'[c] # "claimInsert"
    BY <1>2 DEF ServerRestarts, CallSteps
  <2> QED  BY <1>2, <2>1, NoneTypes DEF ServerRestarts
<1>3. ASSUME NEW t \in Tracks \cup {NoTrack}, PlayerMoves(t) PROVE TypeInv'
  <2>1. player' \in [track: Tracks \cup {NoTrack}, playing: BOOLEAN]
    BY <1>3 DEF PlayerMoves
  <2> QED  BY <1>3, <2>1 DEF PlayerMoves
<1>4. CASE HostToggles
  BY <1>4 DEF HostToggles
<1>5. CASE TimePasses
  <2>1. svc' \in KaraokeState /\ room' \in KaraokeState
    BY <1>5, MomentsFacts DEF TimePasses, KaraokeState
  <2>2. tick' \in TickState
    BY <1>5, MomentsFacts DEF TimePasses, TickState
  <2>3. \A c \in Calls : /\ [job[c] EXCEPT !.left = Elapse(@)] \in Locals
                         /\ [job[c] EXCEPT !.left = Elapse(@)].guest = job[c].guest
    BY MomentsFacts DEF Locals
  <2> QED  BY <1>5, <2>1, <2>2, <2>3 DEF TimePasses
<1>6. ASSUME NEW i \in Items, ItemMoves(i) PROVE TypeInv'
  <2>1. CASE items' = [j \in DOMAIN items \ {i} |-> items[j]]
             /\ claims' = {k \in claims : k[1] # i}
    BY <1>6, <2>1 DEF ItemMoves
  <2>2. ASSUME NEW s \in {"playing", "played"},
               items' = [items EXCEPT ![i].status = s], claims' = claims, i \in DOMAIN items
        PROVE TypeInv'
    BY <1>6, <2>2 DEF ItemMoves
  <2> QED  BY <1>6, <2>1, <2>2 DEF ItemMoves
<1>7. ASSUME NEW m \in {"optional", "off"}, SwitchKaraoke(m) PROVE TypeInv'
  BY <1>7 DEF SwitchKaraoke
<1> QED
  BY <1>1, <1>2, <1>3, <1>4, <1>5, <1>6, <1>7 DEF Environment

LEMMA TypeStep == TypeInv /\ [Next]_vars => TypeInv'
<1> SUFFICES ASSUME TypeInv, [Next]_vars PROVE TypeInv'
  OBVIOUS
<1>1. CASE UNCHANGED vars
  BY <1>1 DEF vars, TypeInv, TypeOK
<1> QED
  BY <1>1, TypeTick, TypeCalls, TypeEnvironment DEF Next

LEMMA TypeAlways == Spec => []TypeInv
BY TypeInit, TypeStep, PTL DEF Spec

\* The service's state, the room, the claims and the locals of the tick and of
\* every call keep their types.
THEOREM TypeCorrect == Spec => []TypeOK
BY TypeAlways, PTL DEF TypeInv

-----------------------------------------------------------------------------
(* The room agrees with the service, unless guests may pause: the tick that *)
(* pauses for a new spotlight is then the only one to move it meanwhile.    *)

TickOwnsSpotlight ==
    /\ tick.pc \in {"pause", "paused"} => tick.item = svc.item /\ svc.item # NoItem
    /\ svc.item = NoItem => svc = EmptyState
    /\ \A c \in Calls : pc[c] \notin {"pauseCall", "pauseSet"}

RoomInv == TypeInv /\ TickOwnsSpotlight /\ RoomAgrees

\* The pause ends for the room as it does for the service.
LEMMA ClearPauseAgrees ==
    ASSUME RoomInv, ClearPause
    PROVE  /\ room' = svc' /\ svc'.item = svc.item
           /\ svc'.item = NoItem => svc' = EmptyState
<1> USE DEF RoomInv, TypeInv, TypeOK, TickOwnsSpotlight, RoomAgrees, KaraokeState
<1>1. CASE svc.item = NoItem
  <2>1. svc = EmptyState
    BY <1>1
  <2>2. svc' = EmptyState /\ room' = svc
    BY <1>1, <2>1 DEF ClearPause, EmptyState
  <2> QED  BY <1>1, <2>1, <2>2 DEF EmptyState
<1>2. CASE svc.item # NoItem
  BY <1>2 DEF ClearPause
<1> QED  BY <1>1, <1>2

LEMMA SetSpotlightAgrees ==
    ASSUME RoomInv, NEW i, i # svc.item, SetSpotlight(i)
    PROVE  /\ room' = svc' /\ svc'.item = i
           /\ i = NoItem => svc' = EmptyState
BY DEF RoomInv, RoomAgrees, SetSpotlight, EmptyState

\* A step of the poller's tick keeps the room in agreement.
LEMMA RoomTick == ASSUME RoomInv, Tick PROVE TickOwnsSpotlight' /\ RoomAgrees'
<1> USE DEF RoomInv, TickOwnsSpotlight, RoomAgrees, database, state, playback, entry, calls
<1>0. ASSUME NEW step, TickTo(step) PROVE tick'.pc = step /\ tick'.item = tick.item
  BY <1>0 DEF TickTo, TickState, TypeInv, TypeOK
<1>1. CASE Sample
  <2>1. tick'.pc = "reconcile"
    BY <1>1, NoneTypes DEF Sample, TickState
  <2> QED  BY <1>1, <2>1 DEF Sample
<1>2. CASE Reconcile
  BY <1>0, <1>2, ClearPauseAgrees DEF Reconcile
<1>3. ASSUME NEW ok \in BOOLEAN, ReconcileResume(ok) \/ AutoPause(ok)
      PROVE TickOwnsSpotlight' /\ RoomAgrees'
  BY <1>0, <1>3 DEF ReconcileResume, AutoPause
<1>4. CASE ReconcileClear
  BY <1>0, <1>4, ClearPauseAgrees DEF ReconcileClear
<1>5. CASE TrackChange
  <2>1. tick'.pc \in {"idle", "session"}
    BY <1>5, NoneTypes DEF TrackChange, TickState, TypeInv, TypeOK
  <2> QED  BY <1>5, <2>1 DEF TrackChange
<1>6. CASE ReadSession
  <2>1. CASE karaokeMode = "off"
    BY <1>6, <2>1, SetSpotlightAgrees, NoneTypes DEF ReadSession
  <2>2. CASE karaokeMode # "off"
    BY <1>0, <1>6, <2>2 DEF ReadSession
  <2> QED  BY <2>1, <2>2
<1>7. CASE ReadCandidates
  <2>1. tick'.pc = "pick"
    BY <1>7 DEF ReadCandidates, TickState, TypeInv, TypeOK
  <2> QED  BY <1>7, <2>1 DEF ReadCandidates
<1>8. ASSUME NEW i, Spotlight(i), UNCHANGED calls
      PROVE TickOwnsSpotlight' /\ RoomAgrees'
  <2>1. /\ room' = svc' /\ svc'.item = i
        /\ i = NoItem => svc' = EmptyState
    BY <1>8, SetSpotlightAgrees DEF Spotlight
  <2>2. tick'.pc \in {"pause", "paused"} => tick'.item = i /\ i # NoItem
    BY <1>8, NoneTypes DEF Spotlight, TickState, TypeInv, TypeOK
  <2> QED  BY <1>8, <2>1, <2>2
<1>9. CASE PickSpotlight
  <2>1. ASSUME NEW i \in tick.candidates,
               tick' = [tick EXCEPT !.candidates = @ \ {i}] /\ UNCHANGED state
        PROVE TickOwnsSpotlight' /\ RoomAgrees'
    <3>1. tick'.pc = "pick"
      BY <1>9, <2>1 DEF PickSpotlight, TickState, TypeInv, TypeOK
    <3> QED  BY <1>9, <2>1, <3>1 DEF PickSpotlight
  <2> QED  BY <1>8, <1>9, <2>1 DEF PickSpotlight
<1>10. CASE AutoPaused
  <2>1. /\ svc' = [svc EXCEPT !.paused = TRUE, !.left = tick.left]
        /\ room' = [item |-> svc.item, paused |-> TRUE, left |-> tick.left]
    BY <1>10 DEF AutoPaused, SetPause
  <2>2. room' = svc' /\ svc'.item = svc.item
    BY <2>1 DEF TypeInv, TypeOK, KaraokeState
  <2> QED  BY <1>10, <2>2, NoneTypes DEF AutoPaused
<1>11. CASE TickReadFails
  BY <1>11, NoneTypes DEF TickReadFails
<1> QED
  BY <1>1, <1>2, <1>3, <1>4, <1>5, <1>6, <1>7, <1>9, <1>10, <1>11 DEF Tick

\* A step of a call, in a mode in which guests may not pause.
LEMMA RoomCalls ==
    ASSUME PauseMode # "manual", RoomInv, NEW c \in Calls, CallBegins(c) \/ CallProceeds(c)
    PROVE  TickOwnsSpotlight' /\ RoomAgrees'
<1> USE DEF RoomInv, TickOwnsSpotlight, RoomAgrees, database, state, playback, poller
<1>0. ASSUME NEW step, step \notin {"pauseCall", "pauseSet"}, NEW locals, Goto(c, step, locals)
      PROVE  \A d \in Calls : pc'[d] \notin {"pauseCall", "pauseSet"}
  BY <1>0 DEF Goto, TypeInv, TypeOK
<1>1. CASE CallBegins(c)
  BY <1>0, <1>1 DEF CallBegins, Pause, Ready, Ask, Claim, RemoveClaim, HostRemoveClaim
<1>2. CASE ReadyClear(c)
  BY <1>0, <1>2, ClearPauseAgrees DEF ReadyClear, Return
<1>3. CASE PauseCheck(c) \/ ReadyCheck(c)
  BY <1>0, <1>3 DEF PauseCheck, ReadyCheck, Return
<1>4. ASSUME NEW ok \in BOOLEAN, ReadyCall(c, ok) PROVE TickOwnsSpotlight' /\ RoomAgrees'
  BY <1>0, <1>4 DEF ReadyCall
<1>5. CASE ClaimInsert(c) \/ ClaimDelete(c)
  BY <1>0, <1>5 DEF ClaimInsert, ClaimDelete, Return
<1> QED
  BY <1>1, <1>2, <1>3, <1>4, <1>5 DEF CallProceeds, PauseSet, PauseCall

\* A step of the environment: restarts empty both sides, time passes for both.
LEMMA RoomEnvironment == ASSUME RoomInv, Environment PROVE TickOwnsSpotlight' /\ RoomAgrees'
<1> USE DEF RoomInv, TickOwnsSpotlight, RoomAgrees, database, state, playback, entry, poller, calls
<1>1. CASE TimePasses
  <2>1. /\ svc' = [svc EXCEPT !.left = Elapse(@)]
        /\ room' = [svc EXCEPT !.left = Elapse(@)]
        /\ pc' = pc
    BY <1>1 DEF TimePasses
  <2>2. svc'.item = svc.item
    BY <2>1 DEF TypeInv, TypeOK, KaraokeState
  <2>3. Elapse(0) = 0
    BY DEF Elapse
  <2>4. ASSUME svc = EmptyState PROVE svc' = EmptyState
    <3>1. svc' = [EmptyState EXCEPT !.left = Elapse(EmptyState.left)]
      BY <2>1, <2>4
    <3>2. EmptyState.left = 0
      BY DEF EmptyState
    <3> QED  BY <2>3, <3>1, <3>2 DEF EmptyState
  <2>5. tick'.pc = tick.pc /\ tick'.item = tick.item
    BY <1>1 DEF TimePasses, TypeInv, TypeOK, TickState
  <2> QED  BY <2>1, <2>2, <2>4, <2>5
<1>2. CASE ServerRestarts
  BY <1>2, NoneTypes DEF ServerRestarts
<1>3. CASE Environment /\ ~TimePasses /\ ~ServerRestarts
  BY <1>3 DEF Environment, PollerStops, PollerStarts, PlayerMoves, HostToggles, ItemMoves, SwitchKaraoke
<1> QED  BY <1>1, <1>2, <1>3

\* In the modes `auto' and `off' clients see the service's own state at every
\* moment, whatever calls, ticks, failures and restarts overlap.
THEOREM RoomAgreesHolds ==
    ASSUME PauseMode # "manual"
    PROVE  Spec => []RoomAgrees
<1>1. Init => TickOwnsSpotlight /\ RoomAgrees
  BY NoneTypes DEF Init, TickOwnsSpotlight, RoomAgrees
<1>2. TypeInv /\ TickOwnsSpotlight /\ RoomAgrees /\ [Next]_vars
      => TickOwnsSpotlight' /\ RoomAgrees'
  <2> SUFFICES ASSUME RoomInv, [Next]_vars PROVE TickOwnsSpotlight' /\ RoomAgrees'
    BY DEF RoomInv
  <2>1. CASE UNCHANGED vars
    BY <2>1 DEF vars, RoomInv, TickOwnsSpotlight, RoomAgrees
  <2> QED
    BY <2>1, RoomTick, RoomCalls, RoomEnvironment DEF Next
<1> QED  BY <1>1, <1>2, TypeAlways, PTL DEF Spec

-----------------------------------------------------------------------------
(* The spotlight follows the music, unless a read fails or the poller       *)
(* forgets which track it saw.                                              *)

\* While a tick is looking for the spotlight, it looks among the items of the
\* track it saw; before and after, the spotlight is on the track seen last.  A
\* poller that never stops has found nothing yet when it starts.
Looking ==
    /\ tick.pc \in {"session", "items", "pick"} => tick.track = lastUri
    /\ tick.pc = "pick" => \A i \in tick.candidates : TrackOf[i] = tick.track
    /\ tick.pc \notin {"session", "items", "pick"} /\ svc.item # NoItem
       => TrackOf[svc.item] = lastUri
    /\ ~polled => svc.item = NoItem /\ tick.pc = "idle"

\* None of these moves the spotlight.
LEMMA SpotlightStays ==
    ASSUME TypeInv
    PROVE  /\ ClearPause => svc'.item = svc.item
           /\ \A i, n : SetPause(i, n) => svc'.item = svc.item
           /\ \A step : TickTo(step) => /\ tick'.pc = step /\ tick'.track = tick.track
                                       /\ tick'.candidates = tick.candidates
<1>1. ClearPause => svc'.item = svc.item
  BY DEF TypeInv, TypeOK, KaraokeState, ClearPause
<1>2. \A i, n : SetPause(i, n) => svc'.item = svc.item
  BY DEF TypeInv, TypeOK, KaraokeState, SetPause
<1>3. \A step : TickTo(step) => /\ tick'.pc = step /\ tick'.track = tick.track
                              /\ tick'.candidates = tick.candidates
  BY DEF TypeInv, TypeOK, TickState, TickTo
<1> QED  BY <1>1, <1>2, <1>3

LEMMA LookingTick == ASSUME "db" \notin Faults, TypeInv, Looking, Tick PROVE Looking'
<1> USE SpotlightStays DEF Looking, database, state, playback, entry, calls
<1>1. CASE Sample
  <2>1. tick'.pc = "reconcile"
    BY <1>1, NoneTypes DEF Sample, TickState
  <2> QED  BY <1>1, <2>1 DEF Sample
<1>2. CASE Reconcile
  BY <1>2 DEF Reconcile
<1>3. ASSUME NEW ok \in BOOLEAN, ReconcileResume(ok) \/ AutoPause(ok) PROVE Looking'
  BY <1>3 DEF ReconcileResume, AutoPause
<1>4. CASE ReconcileClear
  BY <1>4 DEF ReconcileClear
<1>5. CASE TrackChange
  <2>1. CASE tick.track = lastUri
    BY <1>5, <2>1, NoneTypes DEF TrackChange
  <2>2. CASE tick.track # lastUri
    <3>1. tick'.pc = "session" /\ tick'.track = tick.track
      BY <1>5, <2>2 DEF TrackChange, TypeInv, TypeOK, TickState
    <3> QED  BY <1>5, <3>1 DEF TrackChange
  <2> QED  BY <2>1, <2>2
<1>6. CASE ReadSession
  <2>1. CASE karaokeMode = "off"
    BY <1>6, <2>1, NoneTypes DEF ReadSession, SetSpotlight, EmptyState
  <2>2. CASE karaokeMode # "off"
    BY <1>6, <2>2 DEF ReadSession
  <2> QED  BY <2>1, <2>2
<1>7. CASE ReadCandidates
  <2>1. /\ tick'.pc = "pick" /\ tick'.track = tick.track
        /\ \A i \in tick'.candidates : TrackOf[i] = tick.track
    BY <1>7 DEF ReadCandidates, TickState, TypeInv, TypeOK
  <2> QED  BY <1>7, <2>1 DEF ReadCandidates
<1>8. ASSUME NEW i, i # NoItem => TrackOf[i] = lastUri, Spotlight(i), UNCHANGED entry,
             polled
      PROVE Looking'
  <2>1. svc'.item = i
    BY <1>8 DEF Spotlight, SetSpotlight, EmptyState
  <2>2. tick'.pc \in {"idle", "pause"}
    BY <1>8, NoneTypes DEF Spotlight, TickState, TypeInv, TypeOK
  <2> QED  BY <1>8, <2>1, <2>2
<1>9. CASE PickSpotlight
  <2>0. polled
    BY <1>9 DEF PickSpotlight
  <2>1. ASSUME NEW i \in tick.candidates,
               tick' = [tick EXCEPT !.candidates = @ \ {i}] /\ UNCHANGED state
        PROVE Looking'
    <3>1. /\ tick'.pc = "pick" /\ tick'.track = tick.track
          /\ tick'.candidates \subseteq tick.candidates
      BY <1>9, <2>1 DEF PickSpotlight, TickState, TypeInv, TypeOK
    <3> QED  BY <1>9, <2>1, <3>1 DEF PickSpotlight
  <2> QED  BY <1>8, <1>9, <2>0, <2>1 DEF PickSpotlight
<1>10. CASE AutoPaused
  BY <1>10, NoneTypes DEF AutoPaused
<1> QED
  BY <1>1, <1>2, <1>3, <1>4, <1>5, <1>6, <1>7, <1>9, <1>10 DEF Tick, TickReadFails

LEMMA LookingCalls ==
    ASSUME TypeInv, Looking, NEW c \in Calls, CallBegins(c) \/ CallProceeds(c)
    PROVE  Looking'
<1> USE SpotlightStays DEF Looking, database, state, playback, poller
<1>1. CASE CallBegins(c)
  <2>1. UNCHANGED <<svc, polled, lastUri, tick>>
    BY <1>1 DEF CallBegins, Pause, Ready, Ask, Claim, RemoveClaim, HostRemoveClaim
  <2> QED  BY <2>1
<1>2. CASE CallProceeds(c)
  <2>1. svc'.item = svc.item
    BY <1>2 DEF CallProceeds, PauseCheck, PauseSet, PauseCall, ReadyCheck, ReadyCall,
                ReadyClear, ClaimInsert, ClaimDelete
  <2>2. UNCHANGED <<polled, lastUri, tick>>
    BY <1>2 DEF CallProceeds, PauseCheck, PauseSet, PauseCall, ReadyCheck, ReadyCall,
                ReadyClear, ClaimInsert, ClaimDelete
  <2> QED  BY <2>1, <2>2
<1> QED  BY <1>1, <1>2

LEMMA LookingEnvironment ==
    ASSUME "restart" \notin Operations, TypeInv, Looking, Environment
    PROVE  Looking'
<1> USE DEF Looking, database, state, playback, entry, poller, calls
<1>1. CASE TimePasses
  <2>1. svc'.item = svc.item
    BY <1>1 DEF TimePasses, TypeInv, TypeOK, KaraokeState
  <2>2. /\ tick'.pc = tick.pc /\ tick'.track = tick.track
        /\ tick'.candidates = tick.candidates
    BY <1>1 DEF TimePasses, TypeInv, TypeOK, TickState
  <2> QED  BY <1>1, <2>1, <2>2 DEF TimePasses
<1>2. CASE ServerRestarts
  BY <1>2, NoneTypes DEF ServerRestarts, EmptyState
<1>3. CASE Environment /\ ~TimePasses /\ ~ServerRestarts
  BY <1>3 DEF Environment, PollerStops, PollerStarts, PlayerMoves, HostToggles, ItemMoves, SwitchKaraoke
<1> QED  BY <1>1, <1>2, <1>3

\* In every mode: as long as the database answers the tick and the poller keeps
\* its entry, the spotlight is on an item of the track the poller saw last.
THEOREM SpotlightFollowsHolds ==
    ASSUME "db" \notin Faults, "restart" \notin Operations
    PROVE  Spec => []SpotlightFollows
<1>1. Init => Looking
  BY NoneTypes DEF Init, Looking, EmptyState
<1>2. TypeInv /\ Looking /\ [Next]_vars => Looking'
  <2> SUFFICES ASSUME TypeInv, Looking, [Next]_vars PROVE Looking'
    OBVIOUS
  <2>1. CASE UNCHANGED vars
    BY <2>1 DEF vars, Looking
  <2> QED
    BY <2>1, LookingTick, LookingCalls, LookingEnvironment DEF Next
<1>3. Looking => SpotlightFollows
  BY DEF Looking, SpotlightFollows
<1> QED  BY <1>1, <1>2, <1>3, TypeAlways, PTL DEF Spec

-----------------------------------------------------------------------------
(* The mics.  claim() counts the singers before its insert, so each call    *)
(* that has counted and not yet inserted stands for one singer more.        *)

Singers(i) == {k \in claims : k[1] = i}

Inserting(i) == {c \in Calls : pc[c] = "claimInsert" /\ job[c].item = i}

MicsCounted ==
    \A i \in Items :
        /\ IsFiniteSet(Singers(i))
        /\ Cardinality(Singers(i)) + Cardinality(Inserting(i))
           <= MicCount + Cardinality(Calls) - 1

\* However claims overlap, a song has at most one singer too many for each
\* further call that the process handles at once.
MicOverrunBounded ==
    \A i \in DOMAIN items :
        Cardinality({k \in claims : k[1] = i}) <= MicCount + Cardinality(Calls) - 1

LEMMA OneMore ==
    ASSUME NEW S, NEW x, IsFiniteSet(S)
    PROVE  /\ IsFiniteSet(S \cup {x}) /\ Cardinality(S \cup {x}) \in Nat
           /\ Cardinality(S \cup {x}) <= Cardinality(S) + 1
<1>1. Cardinality(S) \in Nat
  BY FS_CardinalityType
<1>2. /\ IsFiniteSet(S \cup {x})
      /\ Cardinality(S \cup {x}) = IF x \in S THEN Cardinality(S) ELSE Cardinality(S) + 1
  BY FS_AddElement
<1> QED  BY <1>1, <1>2

LEMMA InsertingFinite ==
    ASSUME NEW i
    PROVE  /\ IsFiniteSet(Inserting(i)) /\ Cardinality(Inserting(i)) \in Nat
           /\ IsFiniteSet(Inserting(i)') /\ Cardinality(Inserting(i)') \in Nat
           /\ Cardinality(Calls) \in Nat /\ MicCount \in Nat
<1>1. Inserting(i) \subseteq Calls /\ Inserting(i)' \subseteq Calls
  BY DEF Inserting
<1> QED
  BY <1>1, FS_Subset, FS_CardinalityType, ConstantsAssumption

\* Steps that add no claim and let no further call pass the count.
LEMMA MicsStay ==
    ASSUME MicsCounted, claims' \subseteq claims,
           \A c \in Calls : pc'[c] = "claimInsert"
                            => pc[c] = "claimInsert" /\ job'[c].item = job[c].item
    PROVE  MicsCounted'
<1> SUFFICES ASSUME NEW i \in Items
             PROVE  /\ IsFiniteSet(Singers(i)')
                    /\ Cardinality(Singers(i)') + Cardinality(Inserting(i)')
                       <= MicCount + Cardinality(Calls) - 1
  BY DEF MicsCounted
<1>1. /\ IsFiniteSet(Singers(i))
      /\ Cardinality(Singers(i)) + Cardinality(Inserting(i))
         <= MicCount + Cardinality(Calls) - 1
  BY DEF MicsCounted
<1>2. Singers(i)' \subseteq Singers(i) /\ Inserting(i)' \subseteq Inserting(i)
  BY DEF Singers, Inserting
<1>3. /\ IsFiniteSet(Singers(i)') /\ Cardinality(Singers(i)') <= Cardinality(Singers(i))
      /\ Cardinality(Singers(i)') \in Nat /\ Cardinality(Singers(i)) \in Nat
      /\ Cardinality(Inserting(i)') <= Cardinality(Inserting(i))
  BY <1>1, <1>2, InsertingFinite, FS_Subset, FS_CardinalityType
<1> QED  BY <1>1, <1>3, InsertingFinite

\* A call that finds a mic free joins those that are about to insert.
LEMMA MicsClaim ==
    ASSUME TypeInv, MicsCounted, NEW c \in Calls, NEW g \in Guests, NEW i \in Items,
           Claim(c, g, i)
    PROVE  MicsCounted'
<1> SUFFICES ASSUME NEW k \in Items
             PROVE  /\ IsFiniteSet(Singers(k)')
                    /\ Cardinality(Singers(k)') + Cardinality(Inserting(k)')
                       <= MicCount + Cardinality(Calls) - 1
  BY DEF MicsCounted
<1>1. /\ pc[c] = "idle" /\ pc' = [pc EXCEPT ![c] = "claimInsert"]
      /\ job' = [job EXCEPT ![c] = [NoJob EXCEPT !.guest = g, !.item = i]]
      /\ claims' = claims
  BY DEF Claim, Goto, database
<1>2. /\ IsFiniteSet(Singers(k))
      /\ Cardinality(Singers(k)) + Cardinality(Inserting(k))
         <= MicCount + Cardinality(Calls) - 1
      /\ Cardinality(Singers(k)) \in Nat
      /\ Singers(k)' = Singers(k)
  BY <1>1, FS_CardinalityType DEF MicsCounted, Singers
<1>3. CASE k = i
  <2>1. Cardinality(Singers(k)) < MicCount
    BY <1>3 DEF Claim, MayClaim, CanClaimMic, Rules, Singers
  <2>2. Cardinality(Inserting(k)') <= Cardinality(Calls)
    <3>1. Inserting(k)' \subseteq Calls
      BY DEF Inserting
    <3> QED  BY <3>1, FS_Subset, ConstantsAssumption
  <2> QED  BY <1>2, <2>1, <2>2, InsertingFinite
<1>4. CASE k # i
  <2>1. [NoJob EXCEPT !.guest = g, !.item = i].item = i
    BY DEF NoJob
  <2>2. \A d \in Calls : pc'[d] = "claimInsert" /\ job'[d].item = k
                         => pc[d] = "claimInsert" /\ job[d].item = k
    BY <1>1, <1>4, <2>1 DEF TypeInv, TypeOK
  <2>3. Inserting(k)' \subseteq Inserting(k)
    BY <2>2 DEF Inserting
  <2>4. Cardinality(Inserting(k)') <= Cardinality(Inserting(k))
    BY <2>3, InsertingFinite, FS_Subset
  <2> QED  BY <1>2, <2>4, InsertingFinite
<1> QED  BY <1>3, <1>4

\* The insert turns the call into the singer it stood for.
LEMMA MicsInsert ==
    ASSUME TypeInv, MicsCounted, NEW c \in Calls, ClaimInsert(c)
    PROVE  MicsCounted'
<1> SUFFICES ASSUME NEW k \in Items
             PROVE  /\ IsFiniteSet(Singers(k)')
                    /\ Cardinality(Singers(k)') + Cardinality(Inserting(k)')
                       <= MicCount + Cardinality(Calls) - 1
  BY DEF MicsCounted
<1> DEFINE claim == <<job[c].item, job[c].guest>>
<1>1. /\ pc[c] = "claimInsert" /\ pc' = [pc EXCEPT ![c] = "idle"]
      /\ \A d \in Calls \ {c} : job'[d] = job[d]
      /\ claims' = claims \/ claims' = claims \cup {claim}
  BY DEF ClaimInsert, Return, Goto, TypeInv, TypeOK
<1>2. /\ IsFiniteSet(Singers(k))
      /\ Cardinality(Singers(k)) + Cardinality(Inserting(k))
         <= MicCount + Cardinality(Calls) - 1
      /\ Cardinality(Singers(k)) \in Nat
  BY FS_CardinalityType DEF MicsCounted
<1>3. Inserting(k)' = Inserting(k) \ {c}
  BY <1>1 DEF Inserting, TypeInv, TypeOK
<1>4. CASE job[c].item = k
  <2>1. Singers(k)' = Singers(k) \/ Singers(k)' = Singers(k) \cup {claim}
    BY <1>1, <1>4 DEF Singers
  <2>2. /\ IsFiniteSet(Singers(k)') /\ Cardinality(Singers(k)') \in Nat
        /\ Cardinality(Singers(k)') <= Cardinality(Singers(k)) + 1
    <3> HIDE DEF claim
    <3>1. /\ IsFiniteSet(Singers(k) \cup {claim})
          /\ Cardinality(Singers(k) \cup {claim}) \in Nat
          /\ Cardinality(Singers(k) \cup {claim}) <= Cardinality(Singers(k)) + 1
      BY <1>2, OneMore
    <3>2. CASE Singers(k)' = Singers(k)
      BY <1>2, <3>2
    <3>3. CASE Singers(k)' = Singers(k) \cup {claim}
      BY <3>1, <3>3
    <3> QED  BY <2>1, <3>2, <3>3
  <2>3. c \in Inserting(k)
    BY <1>1, <1>4 DEF Inserting
  <2>4. Cardinality(Inserting(k)') = Cardinality(Inserting(k)) - 1
    BY <1>3, <2>3, InsertingFinite, FS_RemoveElement
  <2> QED  BY <1>2, <2>2, <2>4, InsertingFinite
<1>5. CASE job[c].item # k
  <2>1. Singers(k)' = Singers(k)
    BY <1>1, <1>5 DEF Singers
  <2>2. Cardinality(Inserting(k)') <= Cardinality(Inserting(k))
    BY <1>3, InsertingFinite, FS_Subset
  <2> QED  BY <1>2, <2>1, <2>2, InsertingFinite
<1> QED  BY <1>4, <1>5

LEMMA MicsStep == TypeInv /\ MicsCounted /\ [Next]_vars => MicsCounted'
<1> SUFFICES ASSUME TypeInv, MicsCounted, [Next]_vars PROVE MicsCounted'
  OBVIOUS
<1> USE DEF database, entry, calls
<1>0. ASSUME NEW c \in Calls, NEW step, step # "claimInsert", NEW locals,
             Goto(c, step, locals), claims' \subseteq claims
      PROVE  MicsCounted'
  <2>1. \A d \in Calls : pc'[d] = "claimInsert"
                         => pc[d] = "claimInsert" /\ job'[d].item = job[d].item
    BY <1>0 DEF Goto, TypeInv, TypeOK
  <2> QED  BY <1>0, <2>1, MicsStay
<1>1. CASE UNCHANGED vars
  BY <1>1, MicsStay DEF vars
<1>2. CASE Tick
  <2>1. UNCHANGED <<claims, pc, job>>
    BY <1>2 DEF Tick, Sample, Reconcile, ReconcileResume, AutoPause, ReconcileClear,
                TrackChange, ReadSession, ReadCandidates, PickSpotlight, AutoPaused,
                TickReadFails
  <2> QED  BY <2>1, MicsStay
<1>3. ASSUME NEW c \in Calls, CallBegins(c) PROVE MicsCounted'
  <2>1. ASSUME NEW g \in Guests, Pause(c, g) \/ Ready(c, g) PROVE MicsCounted'
    BY <1>0, <2>1 DEF Pause, Ready, Ask
  <2>2. ASSUME NEW g \in Guests, NEW i \in Items, RemoveClaim(c, g, i) \/ HostRemoveClaim(c, g, i)
        PROVE MicsCounted'
    BY <1>0, <2>2 DEF RemoveClaim, HostRemoveClaim
  <2> QED  BY <1>3, <2>1, <2>2, MicsClaim DEF CallBegins
<1>4. ASSUME NEW c \in Calls, CallProceeds(c) PROVE MicsCounted'
  <2>1. CASE ClaimDelete(c)
    <3>1. claims' \subseteq claims
      BY <2>1 DEF ClaimDelete
    <3> QED  BY <1>0, <2>1, <3>1 DEF ClaimDelete, Return
  <2>2. CASE PauseCheck(c) \/ ReadyCheck(c) \/ PauseSet(c) \/ ReadyClear(c)
    BY <1>0, <2>2 DEF PauseCheck, ReadyCheck, PauseSet, ReadyClear, Return
  <2>3. ASSUME NEW ok \in BOOLEAN, PauseCall(c, ok) \/ ReadyCall(c, ok) PROVE MicsCounted'
    BY <1>0, <2>3 DEF PauseCall, ReadyCall
  <2> QED  BY <1>4, <2>1, <2>2, <2>3, MicsInsert DEF CallProceeds
<1>5. CASE Environment
  <2>1. CASE TimePasses
    <3>1. claims' = claims /\ pc' = pc /\ \A c \in Calls : job'[c].item = job[c].item
      BY <2>1 DEF TimePasses, TypeInv, TypeOK, Locals
    <3> QED  BY <3>1, MicsStay
  <2>2. CASE ServerRestarts
    <3>1. claims' = claims /\ \A c \in Calls : pc'[c] # "claimInsert"
      BY <2>2 DEF ServerRestarts
    <3> QED  BY <3>1, MicsStay
  <2>3. CASE Environment /\ ~TimePasses /\ ~ServerRestarts
    <3>1. claims' \subseteq claims /\ UNCHANGED <<pc, job>>
      BY <2>3 DEF Environment, PollerStops, PollerStarts, PlayerMoves, HostToggles, ItemMoves, SwitchKaraoke
    <3> QED  BY <3>1, MicsStay
  <2> QED  BY <1>5, <2>1, <2>2, <2>3
<1> QED  BY <1>1, <1>2, <1>3, <1>4, <1>5 DEF Next

LEMMA MicsInit == ASSUME Calls # {}, Init PROVE MicsCounted
<1> SUFFICES ASSUME NEW i \in Items
             PROVE  /\ IsFiniteSet(Singers(i))
                    /\ Cardinality(Singers(i)) + Cardinality(Inserting(i))
                       <= MicCount + Cardinality(Calls) - 1
  BY DEF MicsCounted
<1>1. Inserting(i) = {}
  BY DEF Init, Inserting
<1>2. /\ IsFiniteSet(Singers(i)) /\ Cardinality(Singers(i)) \in Nat
      /\ Cardinality(Singers(i)) <= 1
  <2>1. Singers(i) = {} \/ \E g \in Guests : Singers(i) = {<<i, g>>}
    BY DEF Init, Singers
  <2>2. CASE Singers(i) = {}
    BY <2>2, FS_EmptySet
  <2>3. ASSUME NEW g \in Guests, Singers(i) = {<<i, g>>}
        PROVE  IsFiniteSet(Singers(i)) /\ Cardinality(Singers(i)) = 1
    <3>1. IsFiniteSet({<<i, g>>}) /\ Cardinality({<<i, g>>}) = 1
      BY FS_Singleton
    <3> QED  BY <2>3, <3>1
  <2> QED  BY <2>1, <2>2, <2>3
<1>3. Cardinality(Calls) # 0 /\ Cardinality(Calls) \in Nat
  BY FS_EmptySet, FS_CardinalityType, ConstantsAssumption
<1> QED  BY <1>1, <1>2, <1>3, FS_EmptySet, ConstantsAssumption

\* Overlapping claims exceed the cap by no more than their number less one.
THEOREM MicOverrunIsBounded ==
    ASSUME Calls # {}
    PROVE  Spec => []MicOverrunBounded
<1>1. MicsCounted /\ TypeInv => MicOverrunBounded
  <2> SUFFICES ASSUME MicsCounted, TypeInv, NEW i \in DOMAIN items
               PROVE  Cardinality(Singers(i)) <= MicCount + Cardinality(Calls) - 1
    BY DEF MicOverrunBounded, Singers
  <2>1. i \in Items
    BY DEF TypeInv, TypeOK
  <2> QED
    BY <2>1, InsertingFinite, FS_CardinalityType DEF MicsCounted
<1>2. Init => MicsCounted
  BY MicsInit
<1> QED  BY <1>1, <1>2, MicsStep, TypeAlways, PTL DEF Spec

\* With calls that do not overlap no song has more singers than mics, whatever
\* the poller, the queue, the host and restarts do meanwhile.
THEOREM MicCapHoldsAlone ==
    ASSUME Cardinality(Calls) = 1
    PROVE  Spec => []MicCapHolds
<1>1. Calls # {}
  BY FS_EmptySet, ConstantsAssumption
<1>2. MicOverrunBounded => MicCapHolds
  BY ConstantsAssumption DEF MicOverrunBounded, MicCapHolds
<1> QED  BY <1>1, <1>2, MicOverrunIsBounded, PTL
=============================================================================
