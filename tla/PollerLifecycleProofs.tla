----------------------- MODULE PollerLifecycleProofs -----------------------
(***************************************************************************)
(* Proofs about PollerLifecycle, for any number of clients, of ticks in    *)
(* flight and of entries.                                                  *)
(***************************************************************************)
EXTENDS PollerLifecycle, TLAPS

\* A slot is free or holds a tick with its entry; an entry marked as ticking
\* has a tick that will unmark it.
TicksKnown ==
    /\ \A s \in Slots : InFlight(s) <=> held[s] \in Entries
    /\ \A e \in ticking : \E s \in Slots : held[s] = e

Inv == TypeOK /\ TicksKnown /\ NoOrphanTimer /\ PolledWhileWatched

\* Every step keeps the types, if a tick in flight has its entry.
LEMMA TypedStep == TypeOK /\ TicksKnown /\ [Next]_vars => TypeOK'
<1> SUFFICES ASSUME TypeOK, TicksKnown, [Next]_vars PROVE TypeOK'
  OBVIOUS
<1> USE ConstantsAssumption DEF TypeOK, TicksKnown, InFlight, clients, entries, ticks, host,
                           history
<1>1. ASSUME NEW c \in Clients, OnOpen(c) PROVE TypeOK'
  BY <1>1 DEF OnOpen, Start, StartFresh
<1>2. ASSUME NEW c \in Clients, OnClose(c) PROVE TypeOK'
  BY <1>2 DEF OnClose
<1>3. ASSUME NEW c \in Clients, OnClosed(c) PROVE TypeOK'
  BY <1>3 DEF OnClosed, Stop
<1>4. CASE IdleFires
  BY <1>4 DEF IdleFires, TearDown
<1>5. ASSUME NEW e \in Entries, NEW s \in Slots, TimerFires(e, s) PROVE TypeOK'
  BY <1>5 DEF TimerFires
<1>6. ASSUME NEW s \in Slots, FinishTick(s) PROVE TypeOK'
  BY <1>6 DEF FinishTick, Return
<1>7. ASSUME NEW s \in Slots, GiveUp(s) PROVE TypeOK'
  BY <1>7 DEF GiveUp, TearDown, Return
<1>8. ASSUME NEW s \in Slots, ReadSession(s) PROVE TypeOK'
  BY <1>7, <1>8 DEF ReadSession, Proceed
<1>9. ASSUME NEW s \in Slots, ResolveProvider(s) PROVE TypeOK'
  BY <1>6, <1>7, <1>9 DEF ResolveProvider, Proceed
<1>10. ASSUME NEW s \in Slots, NEW o \in ReadOutcomes, ReadNowPlaying(s, o)
       PROVE TypeOK'
  BY <1>6, <1>7, <1>10 DEF ReadNowPlaying
<1>11. CASE EndOrReopenSession
  BY <1>11 DEF EndOrReopenSession
<1>12. ASSUME NEW x \in {"none", "valid", "revoked"}, ChangeConnection(x) PROVE TypeOK'
  BY <1>12 DEF ChangeConnection
<1>13. CASE StopAll
  BY <1>13 DEF StopAll, TearDown
<1>14. CASE UNCHANGED vars
  BY <1>14 DEF vars
<1> QED
  BY <1>1, <1>2, <1>3, <1>4, <1>5, <1>8, <1>9, <1>10, <1>11, <1>12, <1>13, <1>14
     DEF Next, Ticking

LEMMA InvInit == Init => Inv
<1> SUFFICES ASSUME Init PROVE Inv
  OBVIOUS
<1> USE ConstantsAssumption DEF Init
<1>1. TypeOK
  BY DEF TypeOK
<1>2. TicksKnown
  BY DEF TicksKnown, InFlight
<1>3. NoOrphanTimer /\ PolledWhileWatched
  BY DEF NoOrphanTimer, PolledWhileWatched
<1> QED  BY <1>1, <1>2, <1>3 DEF Inv

\* Every step keeps the inductive invariant.
LEMMA InvStep == Inv /\ [Next]_vars => Inv'
<1> SUFFICES ASSUME Inv, [Next]_vars PROVE Inv'
  OBVIOUS
<1> USE ConstantsAssumption
    DEF Inv, TypeOK, TicksKnown, NoOrphanTimer, PolledWhileWatched, InFlight,
        clients, entries, ticks, host, history
<1>0. TypeOK'
  BY TypedStep
<1>1. ASSUME NEW c \in Clients, OnOpen(c) PROVE Inv'
  <2>1. CASE StartFresh
    <3>1. TicksKnown' /\ NoOrphanTimer'
      BY <1>1, <2>1 DEF OnOpen, StartFresh, Unused
    <3>2. PolledWhileWatched'
      BY <1>1, <2>1 DEF OnOpen, StartFresh
    <3> QED  BY <1>0, <3>1, <3>2
  <2>2. CASE ~StartFresh
    BY <1>0, <1>1, <2>2 DEF OnOpen, Start
  <2> QED  BY <2>1, <2>2
<1>2. ASSUME NEW c \in Clients, OnClose(c) PROVE Inv'
  BY <1>0, <1>2 DEF OnClose
<1>3. ASSUME NEW c \in Clients, OnClosed(c) PROVE Inv'
  BY <1>0, <1>3 DEF OnClosed, Stop
<1>4. CASE IdleFires
  BY <1>0, <1>4 DEF IdleFires, TearDown
<1>5. ASSUME NEW e \in Entries, NEW s \in Slots, TimerFires(e, s) PROVE Inv'
  <2>1. e = cur /\ cur # NoEntry
    BY <1>5 DEF TimerFires
  <2>2. TicksKnown'
    BY <1>5, <2>1 DEF TimerFires
  <2>3. NoOrphanTimer' /\ PolledWhileWatched'
    BY <1>5, <2>1 DEF TimerFires
  <2> QED  BY <1>0, <2>2, <2>3
<1>6. ASSUME NEW s \in Slots, FinishTick(s), InFlight(s) PROVE Inv'
  BY <1>0, <1>6 DEF FinishTick, Return
<1>7. ASSUME NEW s \in Slots, GiveUp(s), InFlight(s) PROVE Inv'
  BY <1>0, <1>7 DEF GiveUp, TearDown, Return
<1>8. ASSUME NEW s \in Slots, ReadSession(s) PROVE Inv'
  BY <1>0, <1>7, <1>8 DEF ReadSession, Proceed
<1>9. ASSUME NEW s \in Slots, ResolveProvider(s) PROVE Inv'
  BY <1>0, <1>6, <1>7, <1>9 DEF ResolveProvider, Proceed
<1>10. ASSUME NEW s \in Slots, NEW o \in ReadOutcomes, ReadNowPlaying(s, o)
       PROVE Inv'
  BY <1>6, <1>7, <1>10 DEF ReadNowPlaying
<1>11. CASE EndOrReopenSession
  BY <1>0, <1>11 DEF EndOrReopenSession
<1>12. ASSUME NEW x \in {"none", "valid", "revoked"}, ChangeConnection(x) PROVE Inv'
  BY <1>0, <1>12 DEF ChangeConnection
<1>13. CASE StopAll
  BY <1>0, <1>13 DEF StopAll, TearDown
<1>14. CASE UNCHANGED vars
  BY <1>0, <1>14 DEF vars
<1> QED
  BY <1>1, <1>2, <1>3, <1>4, <1>5, <1>8, <1>9, <1>10, <1>11, <1>12, <1>13, <1>14
     DEF Next, Ticking

LEMMA InvAlways == Spec => []Inv
BY InvInit, InvStep, PTL DEF Spec

\* Type correctness of the poller's timers and ticks.
THEOREM TypeCorrect == Spec => []TypeOK
BY InvAlways, PTL DEF Inv

\* A teardown leaves no timer behind, whatever ticks are in flight.
THEOREM NoOrphanTimerHolds == Spec => []NoOrphanTimer
BY InvAlways, PTL DEF Inv

\* A watched session goes on being polled until a tick gives up.
THEOREM PolledWhileWatchedHolds == Spec => []PolledWhileWatched
BY InvAlways, PTL DEF Inv

-----------------------------------------------------------------------------
(* One chain: a tick in flight of the entry in the map has it marked as     *)
(* ticking, so that a start does not schedule a second one.                 *)

TickMarksEntry ==
    ~forked => \A s \in Slots : InFlight(s) /\ held[s] = cur => cur \in ticking

Chained == TickMarksEntry /\ OneChain

LEMMA ChainedStep == Inv /\ Chained /\ [Next]_vars => Chained'
<1> SUFFICES ASSUME Inv, Chained, [Next]_vars PROVE Chained'
  OBVIOUS
<1> USE ConstantsAssumption
    DEF Inv, TypeOK, TicksKnown, NoOrphanTimer, Chained, TickMarksEntry, OneChain,
        InFlight, Outlived, clients, entries, ticks, host, history
<1>1. ASSUME NEW c \in Clients, OnOpen(c) PROVE Chained'
  <2>1. CASE StartFresh
    <3>1. cur' # NoEntry /\ \A s \in Slots : held'[s] # cur'
      BY <1>1, <2>1 DEF OnOpen, StartFresh, Unused
    <3> QED  BY <1>1, <2>1, <3>1 DEF OnOpen, StartFresh
  <2>2. CASE ~StartFresh
    BY <1>1, <2>2 DEF OnOpen, Start
  <2> QED  BY <2>1, <2>2
<1>2. ASSUME NEW c \in Clients, OnClose(c) PROVE Chained'
  BY <1>2 DEF OnClose
<1>3. ASSUME NEW c \in Clients, OnClosed(c) PROVE Chained'
  BY <1>3 DEF OnClosed, Stop
<1>4. CASE IdleFires
  BY <1>4 DEF IdleFires, TearDown
<1>5. ASSUME NEW e \in Entries, NEW s \in Slots, TimerFires(e, s) PROVE Chained'
  <2>1. /\ e = cur /\ cur # NoEntry
        /\ ~forked => \A t \in Slots : held[t] # cur
    BY <1>5 DEF TimerFires
  <2> QED  BY <1>5, <2>1 DEF TimerFires
<1>6. ASSUME NEW s \in Slots, FinishTick(s), InFlight(s) PROVE Chained'
  <2>1. CASE held[s] = cur
    <3>1. ~forked' => \A t \in Slots : held'[t] # cur
      BY <1>6, <2>1 DEF FinishTick, Return
    <3> QED  BY <1>6, <2>1, <3>1 DEF FinishTick
  <2>2. CASE held[s] # cur
    BY <1>6, <2>2 DEF FinishTick, Return
  <2> QED  BY <2>1, <2>2
<1>7. ASSUME NEW s \in Slots, GiveUp(s), InFlight(s) PROVE Chained'
  BY <1>7 DEF GiveUp, TearDown, Return
<1>8. ASSUME NEW s \in Slots, ReadSession(s) PROVE Chained'
  BY <1>7, <1>8 DEF ReadSession, Proceed
<1>9. ASSUME NEW s \in Slots, ResolveProvider(s) PROVE Chained'
  BY <1>6, <1>7, <1>9 DEF ResolveProvider, Proceed
<1>10. ASSUME NEW s \in Slots, NEW o \in ReadOutcomes, ReadNowPlaying(s, o)
       PROVE Chained'
  BY <1>6, <1>7, <1>10 DEF ReadNowPlaying
<1>11. CASE EndOrReopenSession
  BY <1>11 DEF EndOrReopenSession
<1>12. ASSUME NEW x \in {"none", "valid", "revoked"}, ChangeConnection(x)
       PROVE Chained'
  BY <1>12 DEF ChangeConnection
<1>13. CASE StopAll
  BY <1>13 DEF StopAll, TearDown
<1>14. CASE UNCHANGED vars
  BY <1>14 DEF vars
<1> QED
  BY <1>1, <1>2, <1>3, <1>4, <1>5, <1>8, <1>9, <1>10, <1>11, <1>12, <1>13, <1>14
     DEF Next, Ticking

\* However long its ticks take, an entry has one chain of them, but for what a
\* tick that outlived an earlier entry schedules.
THEOREM OneChainHolds == Spec => []OneChain
<1>1. Init => Chained
  BY DEF Init, Chained, TickMarksEntry, OneChain, InFlight
<1> QED  BY <1>1, ChainedStep, InvAlways, PTL DEF Spec, Chained
=============================================================================
