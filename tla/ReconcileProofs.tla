-------------------------- MODULE ReconcileProofs --------------------------
(* Theorems of Reconcile for any number of rows, any tracks and any         *)
(* lengths of the provider's lag, the grace and the refresh period.         *)
EXTENDS Reconcile, TLAPS

-----------------------------------------------------------------------------
(* Type correctness.                                                       *)

Entry == [item: Items, hidden: 0..RetryAfter]

\* What becomes of a typed queue of the provider.
LEMMA QueueTypes ==
    ASSUME NEW q \in Seq(Entry)
    PROVE  /\ DOMAIN q = 1..Len(q) /\ Len(q) \in Nat
           /\ \A i \in Items : Append(q, [item |-> i, hidden |-> RetryAfter]) \in Seq(Entry)
           /\ q # <<>> => Head(q) \in Entry /\ Tail(q) \in Seq(Entry)
           /\ \A f : DOMAIN f = DOMAIN q /\ (\A k \in DOMAIN q : f[k] \in Entry)
                         /\ f = [k \in DOMAIN q |-> f[k]] => f \in Seq(Entry)
<1>1. DOMAIN q = 1..Len(q) /\ Len(q) \in Nat
  OBVIOUS
<1>2. ASSUME NEW i \in Items
      PROVE  Append(q, [item |-> i, hidden |-> RetryAfter]) \in Seq(Entry)
  <2>1. [item |-> i, hidden |-> RetryAfter] \in Entry
    BY <1>2, ConstantsAssumption DEF Entry
  <2> QED  BY <2>1
<1>3. q # <<>> => Head(q) \in Entry /\ Tail(q) \in Seq(Entry)
  OBVIOUS
<1>4. ASSUME NEW f, DOMAIN f = DOMAIN q, \A k \in DOMAIN q : f[k] \in Entry,
             f = [k \in DOMAIN q |-> f[k]]
      PROVE  f \in Seq(Entry)
  <2>1. f \in [1..Len(q) -> Entry]
    BY <1>1, <1>4
  <2> QED  BY <1>1, <2>1
<1> QED  BY <1>1, <1>2, <1>3, <1>4

LEMMA WhatIsAssumed ==
    /\ 1 \in Items /\ TrackOf \in [Items -> Tracks]
    /\ RetryAfter \in Nat /\ Grace \in Nat /\ Refresh \in Nat /\ MaxFaults \in Nat
BY ConstantsAssumption

LEMMA AgeTypes ==
    ASSUME NEW limit \in Nat, NEW n \in Never..limit
    PROVE  /\ Older(n, limit) \in Never..limit
           /\ n \in 0..limit => Older(n, limit) \in 0..limit
BY DEF Older, Never

LEMMA InitTyped == Init => TypeOK
<1> SUFFICES ASSUME Init PROVE TypeOK
  OBVIOUS
<1>1. NoTick \in [pc: {"idle", "read", "walk"}, now: Tracks \cup {NoTrack},
                  rows: [Items -> Statuses], queue: SUBSET Tracks, next: Items]
  BY ConstantsAssumption DEF NoTick, Statuses
<1>2. NoTick.pc = "idle"
  BY DEF NoTick
<1>3. upNext \in Seq([item: Items, hidden: 0..RetryAfter])
  BY DEF Init
<1> QED  BY <1>1, <1>2, <1>3, ConstantsAssumption DEF Init, TypeOK, Statuses, Never

LEMMA StepTyped == TypeOK /\ [Next]_vars => TypeOK'
<1> SUFFICES ASSUME TypeOK, [Next]_vars PROVE TypeOK'
  OBVIOUS
<1> USE WhatIsAssumed
<1> DEFINE TickType == [pc: {"idle", "read", "walk"}, now: Tracks \cup {NoTrack},
                        rows: [Items -> Statuses], queue: SUBSET Tracks, next: Items]
<1>q. upNext \in Seq(Entry)
  BY DEF TypeOK, Entry
<1>n. NoTick \in TickType /\ NoTick.pc = "idle"
  BY DEF NoTick, Statuses
<1>a. ASSUME NEW i \in Items, Accept(i) PROVE upNext' \in Seq(Entry)
  BY <1>q, <1>a, QueueTypes DEF Accept
<1>1. CASE PlayerAdvances
  <2>1. /\ upNext' \in Seq(Entry)
        /\ playing' \in Tracks \cup {NoTrack} /\ known' \subseteq Items
    <3>1. CASE upNext = <<>>
      BY <1>1, <3>1, <1>q DEF PlayerAdvances, TypeOK
    <3>2. CASE upNext # <<>>
      <4>1. Head(upNext) \in Entry /\ Tail(upNext) \in Seq(Entry)
        BY <1>q, <3>2, QueueTypes
      <4>2. Head(upNext).item \in Items
        BY <4>1 DEF Entry
      <4> QED  BY <1>1, <3>2, <4>1, <4>2 DEF PlayerAdvances, TypeOK
    <3> QED  BY <3>1, <3>2
  <2> QED  BY <1>1, <2>1 DEF PlayerAdvances, TypeOK, Entry, table, entry
<1>2. CASE Clock
  <2>1. upNext' \in Seq(Entry)
    <3>1. \A k \in DOMAIN upNext : upNext[k] \in Entry
      BY <1>q
    <3>2. \A k \in DOMAIN upNext : upNext'[k] \in Entry
      BY <1>2, <3>1 DEF Clock, Entry
    <3>3. DOMAIN upNext' = DOMAIN upNext /\ upNext' = [k \in DOMAIN upNext |-> upNext'[k]]
      BY <1>2 DEF Clock
    <3> QED  BY <1>q, <3>2, <3>3, QueueTypes
  <2>2. age' \in [Items -> 0..Grace] /\ pumped' \in [Items -> Never..RetryAfter]
        /\ readAge' \in Never..Refresh
    BY <1>2, AgeTypes DEF Clock, TypeOK, Never
  <2> QED  BY <1>2, <2>1, <2>2 DEF Clock, TypeOK, Entry, history
<1>3. ASSUME NEW i \in Items, Request(i) \/ Approve(i) \/ Reject(i) PROVE TypeOK'
  BY <1>3 DEF Request, Approve, Reject, TypeOK, Statuses, provider, entry, history
<1>4. ASSUME NEW i \in Items, FirstPush(i) PROVE TypeOK'
  <2>1. upNext' \in Seq(Entry)
    BY <1>4, <1>a, <1>q DEF FirstPush
  <2> QED  BY <1>4, <2>1 DEF FirstPush, TypeOK, Entry, table, entry
<1>5. CASE Sample
  <2>1. tick' \in TickType
    BY <1>5 DEF Sample, TypeOK
  <2> QED  BY <1>5, <2>1 DEF Sample, TypeOK, provider, table, entry, history
<1>6. CASE ReadQueue
  <2>1. PICK late \in SUBSET {k \in DOMAIN upNext : upNext[k].hidden > 0} :
           LET listed == {upNext[k].item : k \in DOMAIN upNext \ late}
               tracks == {TrackOf[i] : i \in listed}
           IN  /\ upNext' = [k \in DOMAIN upNext |-> IF k \in late THEN upNext[k]
                                                     ELSE [upNext[k] EXCEPT !.hidden = 0]]
               /\ tick' = [tick EXCEPT !.pc = "walk", !.queue = tracks]
               /\ shown' = tracks
               /\ known' = known \cup listed
    BY <1>6 DEF ReadQueue
  <2>2. \A k \in DOMAIN upNext : upNext[k] \in Entry
    BY <1>q
  <2>3. upNext' \in Seq(Entry)
    <3>1. ASSUME NEW k \in DOMAIN upNext PROVE upNext'[k] \in Entry
      <4>1. \/ upNext'[k] = upNext[k]
            \/ upNext'[k] = [upNext[k] EXCEPT !.hidden = 0]
        BY <2>1
      <4>2. 0 \in 0..RetryAfter
        OBVIOUS
      <4> QED  BY <2>2, <4>1, <4>2 DEF Entry
    <3>2. DOMAIN upNext' = DOMAIN upNext /\ upNext' = [k \in DOMAIN upNext |-> upNext'[k]]
      BY <2>1
    <3> QED  BY <1>q, <3>1, <3>2, QueueTypes
  <2> DEFINE listed == {upNext[k].item : k \in DOMAIN upNext \ late}
             tracks == {TrackOf[i] : i \in listed}
  <2>4. listed \subseteq Items /\ tracks \subseteq Tracks
    BY <2>2 DEF Entry
  <2>5. tick' \in TickType
    BY <2>1, <2>4 DEF TypeOK
  <2>6. shown' \subseteq Tracks /\ known' \subseteq Items
    BY <2>1, <2>4 DEF TypeOK
  <2>7. readAge' \in Never..Refresh /\ readTrack' \in Tracks \cup {NoTrack}
    BY <1>6 DEF ReadQueue, TypeOK, Never
  <2>8. UNCHANGED <<playing, status, age, pushing, pumped, faults, doubled, retired>>
    BY <1>6 DEF ReadQueue, table
  <2> HIDE DEF listed, tracks
  <2> QED  BY <2>3, <2>5, <2>6, <2>7, <2>8 DEF TypeOK, Entry
<1>7. CASE Walk
  <2>1. tick' \in TickType
    BY <1>7, <1>n DEF Walk, Walked, TypeOK
  <2>2. tick.next \in Items
    BY <1>7 DEF Walk, TypeOK
  <2>3. /\ upNext' \in Seq(Entry) /\ status' \in [Items -> Statuses]
        /\ pumped' \in [Items -> Never..RetryAfter]
        /\ known' \subseteq Items /\ doubled' \subseteq Items /\ retired' \subseteq Items
    <3>1. CASE Pump(tick.next)
      <4>1. CASE Accept(tick.next)
        <5>1. upNext' \in Seq(Entry)
          BY <4>1, <2>2, <1>a
        <5>2. 0 \in Never..RetryAfter /\ Never \in Never..RetryAfter
          BY DEF Never
        <5>3. /\ pumped' \in {pumped, [pumped EXCEPT ![tick.next] = 0]}
              /\ doubled' \in {doubled, doubled \cup {tick.next}}
              /\ known' \subseteq known
          BY <3>1 DEF Pump
        <5>4. pumped' \in [Items -> Never..RetryAfter]
          BY <5>2, <5>3, <2>2 DEF TypeOK
        <5>5. doubled' \subseteq Items /\ known' \subseteq Items
          BY <5>3, <2>2 DEF TypeOK
        <5> QED  BY <3>1, <5>1, <5>4, <5>5 DEF Pump, TypeOK
      <4>2. CASE UNCHANGED <<upNext, pumped, doubled, known>>
        BY <3>1, <4>2, <1>q DEF Pump, TypeOK
      <4> QED  BY <3>1, <4>1, <4>2 DEF Pump
    <3>2. CASE Settle(tick.next)
      <4>1. /\ status' \in {status, [status EXCEPT ![tick.next] = "playing"],
                             [status EXCEPT ![tick.next] = "played"]}
            /\ retired' \in {retired, retired \cup {tick.next}}
            /\ UNCHANGED <<upNext, pumped, doubled, known>>
        BY <3>2 DEF Settle
      <4>2. status' \in [Items -> Statuses]
        BY <4>1, <2>2 DEF TypeOK, Statuses
      <4>3. retired' \subseteq Items
        BY <4>1, <2>2 DEF TypeOK
      <4> QED  BY <4>1, <4>2, <4>3, <1>q DEF TypeOK
    <3>3. CASE Passes(tick.next)
      BY <3>3, <1>q DEF Passes, TypeOK, history
    <3> QED  BY <1>7, <3>1, <3>2, <3>3 DEF Walk
  <2> QED  BY <1>7, <2>1, <2>3 DEF Walk, TypeOK, Entry
<1>8. CASE ReadQueueFails
  <2>1. tick' \in TickType
    BY <1>8 DEF ReadQueueFails, AfterFailedRead, TypeOK
  <2>2. faults' \in 0..MaxFaults
    BY <1>8 DEF ReadQueueFails, TypeOK
  <2> QED  BY <1>8, <2>1, <2>2 DEF ReadQueueFails, TypeOK, provider, table, entry, history
<1>9. CASE Restart
  <2>1. faults' \in 0..MaxFaults
    BY <1>9 DEF Restart, TypeOK
  <2> QED  BY <1>9, <1>n, <2>1 DEF Restart, TypeOK, provider, table, Never
<1>10. CASE UNCHANGED vars
  BY <1>10 DEF vars, provider, table, entry, history, TypeOK
<1> QED  BY <1>1, <1>2, <1>3, <1>4, <1>5, <1>6, <1>7, <1>8, <1>9, <1>10 DEF Next, Tick

\* Rows, the provider's queue, the poller's memory and the tick keep their
\* types.
THEOREM TypeCorrect == Spec => []TypeOK
<1> QED  BY InitTyped, StepTyped, PTL DEF Spec

-----------------------------------------------------------------------------
(* The poller does not forget what a queue read has shown.                 *)

\* A tick works on what the room showed when it began or on its own read, and
\* what a read has shown of the rows that still wait is in it.
Remembered ==
    /\ tick.pc # "idle" => tick.queue = shown
    /\ \A i \in known :
          /\ TrackOf[i] \in shown
          /\ \E k \in DOMAIN upNext : upNext[k].item = i /\ upNext[k].hidden = 0

IInv == TypeOK /\ Remembered /\ doubled = {} /\ retired = {}

\* Rows known before a step that only takes some of them away, and leaves the
\* copies of the others in the queue, are still remembered.
LEMMA StillRemembered ==
    ASSUME Remembered, UNCHANGED shown, known' \subseteq known,
           tick'.pc # "idle" => tick'.queue = shown,
           \A i \in known', k \in DOMAIN upNext :
              upNext[k].item = i /\ upNext[k].hidden = 0 =>
                 \E l \in DOMAIN upNext' : upNext'[l].item = i /\ upNext'[l].hidden = 0
    PROVE  Remembered'
BY DEF Remembered

LEMMA StepRemembered == IInv /\ [Next]_vars => IInv'
<1> SUFFICES ASSUME IInv, [Next]_vars PROVE IInv'
  OBVIOUS
<1>t. TypeOK /\ TypeOK'
  BY StepTyped DEF IInv
<1> SUFFICES Remembered' /\ doubled' = {} /\ retired' = {}
  BY <1>t DEF IInv
<1>q. upNext \in Seq(Entry) /\ DOMAIN upNext = 1..Len(upNext) /\ Len(upNext) \in Nat
  BY <1>t DEF TypeOK, Entry
<1>i. Remembered /\ doubled = {} /\ retired = {}
  BY DEF IInv
<1>a. ASSUME NEW i \in Items, Accept(i), NEW k \in DOMAIN upNext
      PROVE  k \in DOMAIN upNext' /\ upNext'[k] = upNext[k]
  BY <1>a, <1>q DEF Accept
<1>1. CASE PlayerAdvances
  <2>1. CASE upNext = <<>>
    BY <1>1, <1>i, <2>1 DEF PlayerAdvances, Remembered
  <2>2. CASE upNext # <<>>
    <3>1. known' = known \ {upNext[1].item} /\ upNext' = Tail(upNext)
      BY <1>1, <2>2 DEF PlayerAdvances
    <3>2. ASSUME NEW i \in known', NEW k \in DOMAIN upNext, upNext[k].item = i
          PROVE  k - 1 \in DOMAIN upNext' /\ upNext'[k - 1] = upNext[k]
      <4>1. k # 1
        BY <3>1, <3>2
      <4> QED  BY <1>q, <3>1, <4>1
    <3> QED  BY <1>1, <1>i, <3>1, <3>2, StillRemembered DEF PlayerAdvances, Remembered
  <2> QED  BY <2>1, <2>2
<1>2. CASE Clock
  <2>1. ASSUME NEW k \in DOMAIN upNext, upNext[k].hidden = 0
        PROVE  k \in DOMAIN upNext' /\ upNext'[k] = upNext[k]
    <3>1. upNext[k] \in Entry
      BY <1>q
    <3> QED  BY <1>2, <2>1, <3>1 DEF Clock, Entry
  <2> QED  BY <1>2, <1>i, <2>1, StillRemembered DEF Clock, history, Remembered
<1>3. ASSUME NEW i \in Items, Request(i) \/ Approve(i) \/ Reject(i)
      PROVE  Remembered' /\ doubled' = {} /\ retired' = {}
  BY <1>3, <1>i DEF Request, Approve, Reject, provider, entry, history, Remembered
<1>4. ASSUME NEW i \in Items, FirstPush(i)
      PROVE  Remembered' /\ doubled' = {} /\ retired' = {}
  <2>1. CASE Accept(i)
    BY <1>4, <2>1, <1>a, <1>i, StillRemembered DEF FirstPush, Remembered
  <2>2. CASE UNCHANGED <<upNext, known>>
    BY <1>4, <2>2, <1>i DEF FirstPush, Remembered
  <2> QED  BY <1>4, <2>1, <2>2 DEF FirstPush
<1>5. CASE Sample
  BY <1>5, <1>i DEF Sample, provider, table, entry, history, Remembered
<1>6. CASE ReadQueue
  <2>1. PICK late \in SUBSET {k \in DOMAIN upNext : upNext[k].hidden > 0} :
           LET listed == {upNext[k].item : k \in DOMAIN upNext \ late}
               tracks == {TrackOf[i] : i \in listed}
           IN  /\ upNext' = [k \in DOMAIN upNext |-> IF k \in late THEN upNext[k]
                                                     ELSE [upNext[k] EXCEPT !.hidden = 0]]
               /\ tick' = [tick EXCEPT !.pc = "walk", !.queue = tracks]
               /\ shown' = tracks
               /\ known' = known \cup listed
    BY <1>6 DEF ReadQueue
  <2> DEFINE listed == {upNext[k].item : k \in DOMAIN upNext \ late}
  <2>2. tick'.queue = shown'
    BY <2>1, <1>t DEF TypeOK
  <2>3. ASSUME NEW i \in known'
        PROVE  \E k \in DOMAIN upNext \ late : upNext[k].item = i
    <3>1. CASE i \in listed
      BY <3>1
    <3>2. CASE i \in known
      <4>1. PICK k \in DOMAIN upNext : upNext[k].item = i /\ upNext[k].hidden = 0
        BY <3>2, <1>i DEF Remembered
      <4> QED  BY <4>1
    <3> QED  BY <2>1, <2>3, <3>1, <3>2
  <2>4. ASSUME NEW i \in known'
        PROVE  /\ TrackOf[i] \in shown'
               /\ \E k \in DOMAIN upNext' : upNext'[k].item = i /\ upNext'[k].hidden = 0
    <3>1. PICK k \in DOMAIN upNext \ late : upNext[k].item = i
      BY <2>3
    <3>2. upNext[k] \in Entry
      BY <1>q
    <3>3. k \in DOMAIN upNext' /\ upNext'[k] = [upNext[k] EXCEPT !.hidden = 0]
      BY <2>1
    <3>4. upNext'[k].item = i /\ upNext'[k].hidden = 0
      BY <3>1, <3>2, <3>3 DEF Entry
    <3>5. TrackOf[i] \in shown'
      BY <2>1, <3>1
    <3> QED  BY <3>3, <3>4, <3>5
  <2> QED  BY <1>6, <1>i, <2>2, <2>4 DEF ReadQueue, Remembered
<1>7. CASE Walk
  <2>1. tick.pc = "walk" /\ tick.queue = shown /\ UNCHANGED shown
    BY <1>7, <1>i DEF Walk, Remembered
  <2>2. tick'.pc # "idle" => tick'.queue = shown
    BY <1>7, <2>1, <1>t DEF Walk, Walked, NoTick, TypeOK
  <2>3. tick.next \in known => Listed(tick.next)
    BY <2>1, <1>i DEF Listed, Remembered
  <2>4. CASE Pump(tick.next)
    <3>1. tick.next \notin known /\ tick.next \in Items
      BY <2>4, <2>3, <1>t DEF Pump, Pumps, TypeOK
    <3>2. CASE Accept(tick.next)
      BY <2>4, <3>1, <3>2, <1>a, <1>i, <2>1, <2>2, StillRemembered DEF Pump
    <3>3. CASE UNCHANGED <<upNext, pumped, doubled, known>>
      BY <2>4, <3>3, <1>i, <2>1, <2>2 DEF Pump, Remembered
    <3> QED  BY <2>4, <3>2, <3>3 DEF Pump
  <2>5. CASE Settle(tick.next)
    <3>1. retired' = {}
      BY <2>5, <2>3, <1>i DEF Settle, Retires
    <3>2. UNCHANGED <<upNext, doubled, known>>
      BY <2>5 DEF Settle
    <3> QED  BY <3>1, <3>2, <1>i, <2>1, <2>2 DEF Remembered
  <2>6. CASE Passes(tick.next)
    BY <2>6, <1>i, <2>1, <2>2 DEF Passes, history, Remembered
  <2> QED  BY <1>7, <2>4, <2>5, <2>6 DEF Walk
<1>8. CASE ReadQueueFails
  BY <1>8, <1>i, <1>t DEF ReadQueueFails, AfterFailedRead, provider, history, Remembered, TypeOK
<1>9. CASE Restart
  BY <1>9, <1>i DEF Restart, NoTick, Remembered
<1>10. CASE UNCHANGED vars
  BY <1>10, <1>i DEF vars, provider, table, entry, history, Remembered
<1> QED  BY <1>1, <1>2, <1>3, <1>4, <1>5, <1>6, <1>7, <1>8, <1>9, <1>10 DEF Next, Tick

LEMMA AlwaysRemembered == Spec => []IInv
<1>1. Init => IInv
  BY InitTyped DEF Init, IInv, Remembered, NoTick
<1> QED  BY <1>1, StepRemembered, PTL DEF Spec

\* The pump never pushes a row again while a copy that a queue read has shown
\* still waits, whatever reads fail and whatever restarts.
THEOREM PumpRespectsReadsHolds == Spec => []PumpRespectsReads
<1>1. IInv => PumpRespectsReads
  BY DEF IInv, PumpRespectsReads
<1> QED  BY <1>1, AlwaysRemembered, PTL

\* No row is marked played while a copy that a queue read has shown waits.
THEOREM KnownKeepsItsTurnHolds == Spec => []KnownKeepsItsTurn
<1>1. IInv => KnownKeepsItsTurn
  BY DEF IInv, KnownKeepsItsTurn
<1> QED  BY <1>1, AlwaysRemembered, PTL
=============================================================================
