------------------------ MODULE ProviderCallsProofs ------------------------
(* Theorems of ProviderCalls, with the sessions it extends, for any number  *)
(* of callers, queries, sessions, tabs and days, and for every scenario.    *)
EXTENDS ProviderCalls, TLAPS, FiniteSetTheorems, WellFoundedInduction
-----------------------------------------------------------------------------
\* Max is what its name says, for a pair of numbers and for a finite set.
LEMMA MaxOfTwo ==
    ASSUME NEW a \in Nat, NEW b \in Nat
    PROVE  Max({a, b}) \in Nat /\ Max({a, b}) >= a /\ Max({a, b}) >= b
<1>1. \E x \in {a, b} : \A y \in {a, b} : x >= y
  OBVIOUS
<1> QED  BY <1>1 DEF Max

LEMMA MaxOfFinite ==
    ASSUME NEW S, IsFiniteSet(S), S \subseteq Nat, S # {}
    PROVE  Max(S) \in S
<1> DEFINE Above(x) == {y \in S : y >= x}
           All == {Above(x) : x \in S}
<1>1. \A x \in S : Above(x) \subseteq S /\ IsFiniteSet(Above(x))
  BY FS_Subset
<1>2. All \subseteq FiniteSubsetsOf(S) /\ All # {}
  BY <1>1 DEF FiniteSubsetsOf
<1>3. PICK U \in All : \A V \in All : <<V, U>> \notin StrictSubsetOrdering(S)
  BY <1>2, FS_StrictSubsetOrderingWellFounded, WFMin
<1>4. PICK x \in S : U = Above(x)
  OBVIOUS
<1>5. ASSUME NEW z \in S, ~(x >= z)
      PROVE  FALSE
  <2>1. Above(z) \subseteq U /\ x \in U /\ x \notin Above(z)
    <3>1. x \in Nat /\ z \in Nat
      OBVIOUS
    <3>2. z > x
      BY <1>5, <3>1
    <3>3. \A y \in S : y >= z => y >= x
      BY <3>1, <3>2
    <3>4. Above(z) \subseteq Above(x)
      BY <3>3
    <3>5. x \in Above(x) /\ x \notin Above(z)
      BY <3>1, <1>5
    <3> QED  BY <1>4, <3>4, <3>5
  <2>2. <<Above(z), U>> \in StrictSubsetOrdering(S)
    BY <2>1, <1>1, <1>4 DEF StrictSubsetOrdering
  <2> QED  BY <1>3, <2>2
<1> QED  BY <1>5 DEF Max

-----------------------------------------------------------------------------
(* Type correctness.                                                       *)

Row == [state: {"none", "open", "ended"}, override: Overrides \cup {None}]
Hashes == {<<BrowserOf[t], d>> : t \in Tabs, d \in 1..LastDay}
Statuses == {"active", "queued"}
Slot == [id: Ids, hash: Hashes, status: Statuses, position: Nat \cup {None}]
JoinType == [at: {"idle", "lookup", "count", "line", "create", "guest", "newguest"},
             id: Ids \cup {None}, hash: Hashes \cup {None}, cap: Nat, status: Statuses,
             position: Nat \cup {None}]
EditType == [at: {"idle", "insert", "reopen", "update"}, id: Ids \cup {None},
             override: Overrides \cup {None}]

SessionsTyped ==
    /\ session \in [Ids -> Row] /\ slots \in Seq(Slot) /\ day \in 1..LastDay
    /\ join \in [Tabs -> JoinType] /\ edit \in [HostTabs -> EditType]
    /\ topCap \in [Ids -> Nat] /\ crowd \in [Ids -> Nat]
    /\ \A t \in Tabs : join[t].at # "idle" => join[t].id \in Ids /\ join[t].hash \in Hashes
    /\ \A h \in HostTabs : edit[h].at \in {"reopen", "update"} => edit[h].id \in Ids

LEMMA Assumed ==
    /\ IsFiniteSet(Ids) /\ Ids \subseteq Nat /\ IsFiniteSet(Tabs)
    /\ PlanCap \in Nat /\ Overrides \subseteq Nat /\ None \notin Nat /\ None \notin Ids
    /\ LastDay \in Nat \ {0}
BY SessionsAssumption

LEMMA CapIsNat ==
    ASSUME NEW entry \in Row
    PROVE  EffectiveGuestCap(entry) \in Nat
BY Assumed DEF Row, EffectiveGuestCap

LEMMA SlotIsKnown ==
    ASSUME SessionsTyped
    PROVE  FindByQrSlug \in Ids \cup {None}
<1>1. CASE OpenIds # {}
  BY <1>1 DEF FindByQrSlug, OpenIds
<1>2. CASE OpenIds = {} /\ Ids \ UnusedIds # {}
  <2>1. Max(Ids \ UnusedIds) \in Ids \ UnusedIds
    <3> DEFINE K == Ids \ UnusedIds
    <3>1. IsFiniteSet(K) /\ K \subseteq Nat /\ K # {}
      BY <1>2, Assumed, FS_Subset
    <3> HIDE DEF K
    <3>2. Max(K) \in K
      BY <3>1, MaxOfFinite
    <3> QED  BY <3>2 DEF K
  <2> QED  BY <1>2, <2>1 DEF FindByQrSlug
<1>3. CASE OpenIds = {} /\ Ids \ UnusedIds = {}
  BY <1>3 DEF FindByQrSlug
<1> QED  BY <1>1, <1>2, <1>3

\* The counts are numbers.
LEMMA CountsAreNats ==
    ASSUME SessionsTyped
    PROVE  /\ \A s, status : /\ IsFiniteSet({i \in SlotsOf(s) : slots[i].status = status})
                             /\ CountByStatus(s, status) \in Nat
           /\ \A s : IsFiniteSet(Admitted(s)) /\ Cardinality(Admitted(s)) \in Nat
<1>1. ASSUME NEW s, NEW status
      PROVE  /\ IsFiniteSet({i \in SlotsOf(s) : slots[i].status = status})
             /\ CountByStatus(s, status) \in Nat
  <2>1. IsFiniteSet(DOMAIN slots)
    BY FS_Interval DEF SessionsTyped
  <2>2. {i \in SlotsOf(s) : slots[i].status = status} \subseteq DOMAIN slots
    BY DEF SlotsOf
  <2> QED  BY <2>1, <2>2, FS_Subset, FS_CardinalityType DEF CountByStatus
<1>2. ASSUME NEW s PROVE IsFiniteSet(Admitted(s)) /\ Cardinality(Admitted(s)) \in Nat
  BY Assumed, FS_Subset, FS_CardinalityType DEF Admitted
<1> QED  BY <1>1, <1>2

LEMMA InitTyped == SessionsInit => SessionsTyped
<1> SUFFICES ASSUME SessionsInit PROVE SessionsTyped
  OBVIOUS
<1>1. NoJoin \in JoinType /\ NoJoin.at = "idle" /\ NoEdit \in EditType /\ NoEdit.at = "idle"
  BY DEF NoJoin, NoEdit, JoinType, EditType, Statuses
<1>2. session \in [Ids -> Row] /\ slots \in Seq(Slot) /\ day \in 1..LastDay
  BY Assumed DEF SessionsInit, Row
<1> QED  BY <1>1, <1>2, Assumed DEF SessionsInit, SessionsTyped

\* A tab's join moves on: the others' stay as they are.
LEMMA JoinTyped ==
    ASSUME SessionsTyped, NEW t \in Tabs, NEW j \in JoinType,
           j.at # "idle" => j.id \in Ids /\ j.hash \in Hashes,
           join' = [join EXCEPT ![t] = j]
    PROVE  /\ join' \in [Tabs -> JoinType]
           /\ \A u \in Tabs : join'[u].at # "idle" => join'[u].id \in Ids /\ join'[u].hash \in Hashes
BY DEF SessionsTyped

LEMMA EditTyped ==
    ASSUME SessionsTyped, NEW h \in HostTabs, NEW e \in EditType,
           e.at \in {"reopen", "update"} => e.id \in Ids,
           edit' = [edit EXCEPT ![h] = e]
    PROVE  /\ edit' \in [HostTabs -> EditType]
           /\ \A g \in HostTabs : edit'[g].at \in {"reopen", "update"} => edit'[g].id \in Ids
BY DEF SessionsTyped

LEMMA JoinStepTyped ==
    ASSUME SessionsTyped, NEW t \in Tabs, Join(t)
    PROVE  SessionsTyped'
<1> DEFINE j == join[t]
<1>j. j \in JoinType /\ (j.at # "idle" => j.id \in Ids /\ j.hash \in Hashes)
  BY DEF SessionsTyped
<1>n. NoJoin \in JoinType /\ NoJoin.at = "idle"
  BY DEF NoJoin, JoinType, Statuses
<1>1. CASE StartJoin(t)
  <2> DEFINE s == FindByQrSlug
             k == [NoJoin EXCEPT !.at = "lookup", !.id = s, !.hash = <<BrowserOf[t], day>>,
                                 !.cap = EffectiveGuestCap(session[s])]
  <2>1. s \in Ids \cup {None}
    BY SlotIsKnown
  <2>2. CASE s = None \/ session[s].state = "ended"
    BY <1>1, <2>2 DEF StartJoin, SessionsTyped, rows
  <2>3. CASE ~(s = None \/ session[s].state = "ended")
    <3>1. s \in Ids /\ session[s] \in Row
      BY <2>1, <2>3 DEF SessionsTyped
    <3>2. <<BrowserOf[t], day>> \in Hashes
      BY DEF SessionsTyped, Hashes
    <3>3. k \in JoinType /\ k.id = s /\ k.hash \in Hashes
      BY <3>1, <3>2, <1>n, CapIsNat DEF JoinType, NoJoin
    <3>4. join' = [join EXCEPT ![t] = k]
      BY <1>1, <2>3 DEF StartJoin
    <3> HIDE DEF k
    <3>5. /\ join' \in [Tabs -> JoinType]
          /\ \A u \in Tabs : join'[u].at # "idle" => join'[u].id \in Ids /\ join'[u].hash \in Hashes
      BY <3>1, <3>3, <3>4, JoinTyped
    <3>6. UNCHANGED <<session, slots, guests, day, edit, topCap, crowd>>
      BY <1>1 DEF StartJoin, rows
    <3> QED  BY <3>5, <3>6 DEF SessionsTyped
  <2> QED  BY <2>2, <2>3
<1>2. CASE FindSlot(t)
  <2>1. PICK a \in {"guest", "count"} : join' = [join EXCEPT ![t] = [j EXCEPT !.at = a]]
    BY <1>2 DEF FindSlot
  <2>2. [j EXCEPT !.at = a] \in JoinType /\ j.at # "idle"
    BY <1>2, <1>j DEF JoinType, FindSlot
  <2>3. /\ join' \in [Tabs -> JoinType]
        /\ \A u \in Tabs : join'[u].at # "idle" => join'[u].id \in Ids /\ join'[u].hash \in Hashes
    BY <1>j, <2>1, <2>2, JoinTyped DEF JoinType
  <2>4. UNCHANGED <<session, slots, guests, day, edit, topCap, crowd>>
    BY <1>2 DEF FindSlot, rows
  <2> QED  BY <2>3, <2>4 DEF SessionsTyped
<1>3. CASE CountActive(t)
  <2>1. PICK a \in {"create", "line"}, st \in Statuses :
           join' = [join EXCEPT ![t] = [j EXCEPT !.at = a, !.status = st]]
    BY <1>3 DEF CountActive, Statuses
  <2>2. [j EXCEPT !.at = a, !.status = st] \in JoinType /\ j.at # "idle"
    BY <1>3, <1>j DEF JoinType, CountActive
  <2>3. /\ join' \in [Tabs -> JoinType]
        /\ \A u \in Tabs : join'[u].at # "idle" => join'[u].id \in Ids /\ join'[u].hash \in Hashes
    BY <1>j, <2>1, <2>2, JoinTyped DEF JoinType
  <2>4. Cardinality(Admitted(j.id)') \in Nat
    BY Assumed, FS_Subset, FS_CardinalityType DEF Admitted
  <2>5. crowd' \in [Ids -> Nat]
    BY <1>3, <2>2, <2>4, <1>j, MaxOfTwo DEF CountActive, SessionsTyped
  <2>6. UNCHANGED <<session, slots, guests, day, edit, topCap>>
    BY <1>3 DEF CountActive, rows
  <2> QED  BY <2>3, <2>5, <2>6 DEF SessionsTyped
<1>4. CASE TakePosition(t)
  <2> DEFINE p == CountByStatus(j.id, "queued") + 1
  <2>1. p \in Nat
    <3>1. CountByStatus(j.id, "queued") \in Nat
      BY CountsAreNats, Zenon
    <3> QED  BY <3>1
  <2>2. [j EXCEPT !.at = "create", !.position = p] \in JoinType /\ j.at # "idle"
    BY <1>4, <1>j, <2>1 DEF JoinType, TakePosition
  <2>3. join' = [join EXCEPT ![t] = [j EXCEPT !.at = "create", !.position = p]]
    BY <1>4 DEF TakePosition
  <2>4. /\ join' \in [Tabs -> JoinType]
        /\ \A u \in Tabs : join'[u].at # "idle" => join'[u].id \in Ids /\ join'[u].hash \in Hashes
    BY <1>j, <2>2, <2>3, JoinTyped DEF JoinType
  <2>5. UNCHANGED <<session, slots, guests, day, edit, topCap, crowd>>
    BY <1>4 DEF TakePosition, rows
  <2> QED  BY <2>4, <2>5 DEF SessionsTyped
<1>5. CASE CreateSlot(t)
  <2>1. PICK k \in {NoJoin, [j EXCEPT !.at = "guest"]} : join' = [join EXCEPT ![t] = k]
    BY <1>5 DEF CreateSlot
  <2>2. k \in JoinType /\ (k.at # "idle" => k.id \in Ids /\ k.hash \in Hashes)
    BY <1>5, <1>j, <1>n, <2>1 DEF JoinType, CreateSlot
  <2>3. [id |-> j.id, hash |-> j.hash, status |-> j.status, position |-> j.position] \in Slot
    BY <1>5, <1>j DEF CreateSlot, JoinType, Slot
  <2>4. slots' \in Seq(Slot)
    BY <1>5, <2>3 DEF CreateSlot, SessionsTyped
  <2>5. UNCHANGED <<session, day, edit, topCap, crowd>>
    BY <1>5 DEF CreateSlot
  <2>6. /\ join' \in [Tabs -> JoinType]
        /\ \A u \in Tabs : join'[u].at # "idle" => join'[u].id \in Ids /\ join'[u].hash \in Hashes
    BY <2>1, <2>2, JoinTyped
  <2> QED  BY <2>4, <2>5, <2>6 DEF SessionsTyped
<1>6. CASE FindGuest(t) \/ CreateGuest(t)
  <2>1. PICK k \in {NoJoin, [j EXCEPT !.at = "newguest"]} : join' = [join EXCEPT ![t] = k]
    BY <1>6 DEF FindGuest, CreateGuest
  <2>2. k \in JoinType /\ (k.at # "idle" => k.id \in Ids /\ k.hash \in Hashes)
    BY <1>6, <1>j, <1>n, <2>1 DEF JoinType, FindGuest, CreateGuest
  <2>3. UNCHANGED <<session, slots, day, edit, topCap, crowd>>
    BY <1>6 DEF FindGuest, CreateGuest, rows
  <2> QED  BY <2>1, <2>2, <2>3, JoinTyped DEF SessionsTyped
<1> QED  BY <1>1, <1>2, <1>3, <1>4, <1>5, <1>6 DEF Join

LEMMA OpenedTyped ==
    ASSUME session \in [Ids -> Row], NEW x
    PROVE  [session EXCEPT ![x].state = "open"] \in [Ids -> Row]
<1> DEFINE f == [session EXCEPT ![x].state = "open"]
<1>1. ASSUME NEW s \in Ids PROVE f[s] \in Row
  <2>1. session[s] \in Row
    OBVIOUS
  <2>2. [session[s] EXCEPT !.state = "open"] \in Row
    BY <2>1 DEF Row
  <2>3. f[s] = session[s] \/ f[s] = [session[s] EXCEPT !.state = "open"]
    OBVIOUS
  <2> HIDE DEF f
  <2> QED  BY <2>1, <2>2, <2>3
<1>2. f = [s \in Ids |-> f[s]]
  OBVIOUS
<1> HIDE DEF f
<1>3. f \in [Ids -> Row]
  BY <1>1, <1>2
<1> QED  BY <1>3 DEF f

LEMMA EditStepTyped ==
    ASSUME SessionsTyped, NEW h \in HostTabs, Edit(h)
    PROVE  SessionsTyped'
<1> DEFINE e == edit[h]
<1>e. e \in EditType /\ (e.at \in {"reopen", "update"} => e.id \in Ids)
  BY DEF SessionsTyped
<1>n. NoEdit \in EditType /\ NoEdit.at = "idle"
  BY DEF NoEdit, EditType
<1>1. CASE Create(h)
  <2>1. edit' \in {edit, [edit EXCEPT ![h] = [NoEdit EXCEPT !.at = "insert"]]}
    BY <1>1 DEF Create, Begin
  <2>2. [NoEdit EXCEPT !.at = "insert"] \in EditType
    BY <1>n DEF EditType
  <2>3. /\ edit' \in [HostTabs -> EditType]
        /\ \A g \in HostTabs : edit'[g].at \in {"reopen", "update"} => edit'[g].id \in Ids
    <3>1. CASE edit' = edit
      BY <3>1 DEF SessionsTyped
    <3>2. CASE edit' = [edit EXCEPT ![h] = [NoEdit EXCEPT !.at = "insert"]]
      BY <2>2, <3>2, EditTyped DEF NoEdit
    <3> QED  BY <2>1, <3>1, <3>2
  <2> QED  BY <1>1, <2>3 DEF Create, SessionsTyped, rows
<1>2. CASE InsertSession(h)
  <2>1. session' \in [Ids -> Row]
    <3>1. \/ session' = session
          \/ session' = [session EXCEPT ![Min(UnusedIds)].state = "open"]
      BY <1>2 DEF InsertSession
    <3>2. [session EXCEPT ![Min(UnusedIds)].state = "open"] \in [Ids -> Row]
      BY OpenedTyped DEF SessionsTyped
    <3> QED  BY <3>1, <3>2 DEF SessionsTyped
  <2>2. edit' = [edit EXCEPT ![h] = NoEdit]
    BY <1>2 DEF InsertSession, Begin
  <2> QED  BY <1>2, <1>n, <2>1, <2>2, EditTyped DEF InsertSession, SessionsTyped
<1>3. CASE ReopenSession(h)
  <2>1. session' \in [Ids -> Row]
    <3>1. \/ session' = session
          \/ session' = [session EXCEPT ![e.id].state = "open"]
      BY <1>3 DEF ReopenSession
    <3>2. [session EXCEPT ![e.id].state = "open"] \in [Ids -> Row]
      BY OpenedTyped DEF SessionsTyped
    <3> QED  BY <3>1, <3>2 DEF SessionsTyped
  <2>2. edit' = [edit EXCEPT ![h] = NoEdit]
    BY <1>3 DEF ReopenSession, Begin
  <2> QED  BY <1>3, <1>n, <2>1, <2>2, EditTyped DEF ReopenSession, SessionsTyped
<1>4. CASE UpdateSession(h)
  <2>1. e.id \in Ids /\ e.override \in Overrides \cup {None}
    BY <1>4, <1>e DEF UpdateSession, EditType
  <2>2. session' = [session EXCEPT ![e.id].override = e.override]
    BY <1>4 DEF UpdateSession
  <2>3. session' \in [Ids -> Row]
    BY <2>1, <2>2 DEF SessionsTyped, Row
  <2>4. topCap' = [topCap EXCEPT ![e.id] = Max({@, EffectiveGuestCap(session'[e.id])})]
    BY <1>4 DEF UpdateSession
  <2>5. topCap[e.id] \in Nat /\ EffectiveGuestCap(session'[e.id]) \in Nat
    BY <2>1, <2>3, CapIsNat DEF SessionsTyped
  <2>6. topCap' \in [Ids -> Nat]
    BY <2>4, <2>5, MaxOfTwo DEF SessionsTyped
  <2>7. edit' = [edit EXCEPT ![h] = NoEdit]
    BY <1>4 DEF UpdateSession, Begin
  <2> QED  BY <1>4, <1>n, <2>3, <2>6, <2>7, EditTyped DEF UpdateSession, SessionsTyped
<1>5. ASSUME NEW s \in Ids, Reopen(h, s) PROVE SessionsTyped'
  <2> DEFINE k == [NoEdit EXCEPT !.at = "reopen", !.id = s]
  <2>1. edit' \in {edit, [edit EXCEPT ![h] = k]}
    BY <1>5 DEF Reopen, Begin
  <2>2. k \in EditType /\ k.id \in Ids
    BY <1>n DEF EditType, NoEdit
  <2>3. CASE edit' = edit
    BY <1>5, <2>3 DEF Reopen, SessionsTyped, rows
  <2>4. CASE edit' = [edit EXCEPT ![h] = k]
    <3> HIDE DEF k
    <3> QED  BY <1>5, <2>2, <2>4, EditTyped DEF Reopen, SessionsTyped, rows
  <2> QED  BY <2>1, <2>3, <2>4
<1>6. ASSUME NEW cap \in Overrides \cup {None}, NEW s \in Ids, Update(h, s, cap) PROVE SessionsTyped'
  <2> DEFINE k == [at |-> "update", id |-> s, override |-> cap]
  <2>1. edit' \in {edit, [edit EXCEPT ![h] = k]}
    BY <1>6 DEF Update, Begin
  <2>2. k \in EditType /\ k.id \in Ids
    BY DEF EditType
  <2>3. CASE edit' = edit
    BY <1>6, <2>3 DEF Update, SessionsTyped, rows
  <2>4. CASE edit' = [edit EXCEPT ![h] = k]
    <3> HIDE DEF k
    <3> QED  BY <1>6, <2>2, <2>4, EditTyped DEF Update, SessionsTyped, rows
  <2> QED  BY <2>1, <2>3, <2>4
<1> QED  BY <1>1, <1>2, <1>3, <1>4, <1>5, <1>6 DEF Edit

SessionsStep == SessionsNext \/ ForgetRequests \/ UNCHANGED svars

LEMMA StepTyped ==
    ASSUME SessionsTyped, SessionsStep
    PROVE  SessionsTyped'
<1>1. ASSUME NEW s \in Ids, End(s) PROVE SessionsTyped'
  <2>1. session' \in [Ids -> Row]
    BY <1>1 DEF End, SessionsTyped, Row
  <2> QED  BY <1>1, <2>1 DEF End, SessionsTyped
<1>2. CASE NextDay
  BY <1>2, Assumed DEF NextDay, SessionsTyped, rows
<1>3. CASE ForgetRequests
  <2>1. NoJoin \in JoinType /\ NoJoin.at = "idle" /\ NoEdit \in EditType /\ NoEdit.at = "idle"
    BY DEF NoJoin, NoEdit, JoinType, EditType, Statuses
  <2> QED  BY <1>3, <2>1 DEF ForgetRequests, SessionsTyped, rows
<1>4. CASE UNCHANGED svars
  BY <1>4 DEF svars, rows, SessionsTyped
<1> QED  BY <1>1, <1>2, <1>3, <1>4, JoinStepTyped, EditStepTyped DEF SessionsStep, SessionsNext

-----------------------------------------------------------------------------
(* The guest cap.                                                          *)
(* What the cap admits.                                                    *)
\* What a join or the table holds of the cap was the cap at some time.
CapsKnown ==
    /\ \A s \in Ids : EffectiveGuestCap(session[s]) <= topCap[s]
    /\ \A t \in Tabs : join[t].at # "idle" => join[t].cap <= topCap[join[t].id]

Beside(n) == IF n = 0 THEN 0 ELSE n - 1

\* The slots taken and those about to be taken.
TakenOrAdmitted ==
    \A s \in Ids :
        CountByStatus(s, "active") + Cardinality(Admitted(s)) <= topCap[s] + Beside(crowd[s])

CapInv == SessionsTyped /\ CapsKnown /\ TakenOrAdmitted

LEMMA InitCap == SessionsInit => CapInv
<1> SUFFICES ASSUME SessionsInit PROVE CapInv
  OBVIOUS
<1>1. SessionsTyped
  BY InitTyped
<1>2. CapsKnown
  BY Assumed DEF SessionsInit, CapsKnown, EffectiveGuestCap, NoJoin
<1>3. ASSUME NEW s \in Ids
      PROVE  CountByStatus(s, "active") = 0 /\ Cardinality(Admitted(s)) = 0
  <2>1. {i \in SlotsOf(s) : slots[i].status = "active"} = {}
    BY DEF SessionsInit, SlotsOf
  <2>2. Admitted(s) = {}
    BY DEF SessionsInit, Admitted, NoJoin
  <2> QED  BY <2>1, <2>2, FS_EmptySet DEF CountByStatus
<1>4. TakenOrAdmitted
  BY <1>3, Assumed DEF TakenOrAdmitted, SessionsInit, Beside
<1> QED  BY <1>1, <1>2, <1>4 DEF CapInv

\* The caps known stay known while they and the sessions' overrides stay, and
\* nothing joins.
LEMMA CapsStayKnown ==
    ASSUME CapInv, SessionsTyped', UNCHANGED topCap,
           \A s \in Ids : session'[s].override = session[s].override,
           \A t \in Tabs : join'[t].at # "idle" =>
               /\ join[t].at # "idle" /\ join'[t].id = join[t].id /\ join'[t].cap = join[t].cap
    PROVE  CapsKnown'
<1>1. \A s \in Ids : EffectiveGuestCap(session'[s]) = EffectiveGuestCap(session[s])
  BY DEF EffectiveGuestCap
<1> QED  BY <1>1 DEF CapInv, CapsKnown

\* Nothing is taken: the same slots, and no more joins admitted.
LEMMA NothingTaken ==
    ASSUME CapInv, SessionsTyped', UNCHANGED slots,
           \A s \in Ids : topCap'[s] >= topCap[s] /\ crowd'[s] >= crowd[s]
                          /\ Admitted(s)' \subseteq Admitted(s)
    PROVE  TakenOrAdmitted'
<1> SUFFICES ASSUME NEW s \in Ids
             PROVE  CountByStatus(s, "active")' + Cardinality(Admitted(s)')
                        <= topCap'[s] + Beside(crowd'[s])
  BY DEF TakenOrAdmitted
<1>1. CountByStatus(s, "active")' = CountByStatus(s, "active")
  BY DEF CountByStatus, SlotsOf
<1>2. IsFiniteSet(Admitted(s)) /\ Cardinality(Admitted(s)) \in Nat
      /\ CountByStatus(s, "active") \in Nat
  BY CountsAreNats, Zenon DEF CapInv
<1>3. Cardinality(Admitted(s)') \in Nat /\ Cardinality(Admitted(s)') <= Cardinality(Admitted(s))
  BY <1>2, FS_Subset, FS_CardinalityType
<1>4. /\ topCap[s] \in Nat /\ topCap'[s] \in Nat /\ crowd[s] \in Nat /\ crowd'[s] \in Nat
      /\ topCap'[s] >= topCap[s] /\ crowd'[s] >= crowd[s]
  BY DEF CapInv, SessionsTyped
<1>5. CountByStatus(s, "active") + Cardinality(Admitted(s)) <= topCap[s] + Beside(crowd[s])
  BY DEF CapInv, TakenOrAdmitted
<1> QED  BY <1>1, <1>2, <1>3, <1>4, <1>5 DEF Beside

\* A join is admitted when it has counted a free slot.
LEMMA CountActiveCap ==
    ASSUME CapInv, SessionsTyped', NEW t \in Tabs, CountActive(t)
    PROVE  CapInv'
<1>0. PICK s \in Ids : s = join[t].id
  BY DEF CountActive, CapInv, SessionsTyped
<1>1. /\ join[t] \in JoinType /\ join[t].at = "count" /\ join[t].cap <= topCap[s]
  BY <1>0 DEF CountActive, CapInv, SessionsTyped, CapsKnown
<1>2. \A u \in Tabs \ {t} : join'[u] = join[u]
  BY DEF CountActive, CapInv, SessionsTyped
<1>3. join'[t].id = s /\ join'[t].cap = join[t].cap
  BY <1>0, <1>1 DEF CountActive, CapInv, SessionsTyped, JoinType
<1>4. UNCHANGED <<session, slots, topCap>>
  BY DEF CountActive, rows
<1>5. CapsKnown'
  BY <1>0, <1>1, <1>2, <1>3, <1>4, CapsStayKnown
<1>6. \A r \in Ids \ {s} : Admitted(r)' = Admitted(r) /\ crowd'[r] = crowd[r]
  BY <1>0, <1>1, <1>2, <1>3 DEF Admitted, CountActive, CapInv, SessionsTyped
<1>7. Cardinality(Admitted(s)') \in Nat /\ crowd[s] \in Nat
  BY <1>1, Assumed, FS_Subset, FS_CardinalityType DEF Admitted, CapInv, SessionsTyped
<1>8. crowd'[s] \in Nat /\ crowd'[s] >= crowd[s] /\ crowd'[s] >= Cardinality(Admitted(s)')
  <2>1. crowd'[s] = Max({crowd[s], Cardinality(Admitted(s)')})
    <3>1. crowd' = [crowd EXCEPT ![s] = Max({@, Cardinality(Admitted(s)')})]
      BY <1>0, <1>3 DEF CountActive
    <3> QED  BY <3>1 DEF CapInv, SessionsTyped
  <2> QED  BY <1>7, <2>1, MaxOfTwo
<1>9. CASE HasRoom(s, join[t].cap)
  <2> SUFFICES ASSUME NEW r \in Ids
               PROVE  CountByStatus(r, "active")' + Cardinality(Admitted(r)')
                          <= topCap'[r] + Beside(crowd'[r])
    BY <1>5 DEF TakenOrAdmitted, CapInv
  <2>1. CountByStatus(r, "active")' = CountByStatus(r, "active")
    BY <1>4 DEF CountByStatus, SlotsOf
  <2>2. CASE r # s
    BY <1>4, <1>6, <2>1, <2>2 DEF CapInv, TakenOrAdmitted
  <2>3. CASE r = s
    <3>1. CountByStatus(s, "active") < topCap[s]
      <4>1. CountByStatus(s, "active") \in Nat
        BY CountsAreNats, Zenon DEF CapInv
      <4>2. join[t].cap \in Nat /\ topCap[s] \in Nat
        BY <1>1 DEF JoinType, CapInv, SessionsTyped
      <4> QED  BY <1>0, <1>1, <1>9, <4>1, <4>2 DEF HasRoom
    <3>2. t \in Admitted(s)'
      BY <1>0, <1>1, <1>3, <1>9 DEF Admitted, CountActive, CapInv, SessionsTyped, JoinType
    <3>3. Cardinality(Admitted(s)') # 0
      BY <3>2, Assumed, FS_Subset, FS_EmptySet DEF Admitted
    <3>4. CountByStatus(s, "active") \in Nat
      BY CountsAreNats, Zenon DEF CapInv
    <3>5. topCap[s] \in Nat
      BY <1>1 DEF CapInv, SessionsTyped
    <3> QED  BY <1>4, <1>7, <1>8, <2>1, <2>3, <3>1, <3>3, <3>4, <3>5 DEF Beside
  <2> QED  BY <2>2, <2>3
<1>10. CASE ~HasRoom(s, join[t].cap)
  <2>1. join'[t].at = "line"
    BY <1>0, <1>1, <1>10 DEF CountActive, CapInv, SessionsTyped, JoinType
  <2>2. Admitted(s)' \subseteq Admitted(s)
    BY <1>2, <2>1 DEF Admitted
  <2>3. \A r \in Ids : topCap'[r] >= topCap[r] /\ crowd'[r] >= crowd[r] /\ Admitted(r)' \subseteq Admitted(r)
    <3>1. \A r \in Ids : topCap[r] \in Nat /\ crowd[r] \in Nat
      BY DEF CapInv, SessionsTyped
    <3>2. \A r \in Ids : topCap'[r] >= topCap[r]
      BY <1>4, <3>1
    <3>3. \A r \in Ids : crowd'[r] >= crowd[r]
      BY <1>6, <1>8, <3>1
    <3>4. \A r \in Ids : Admitted(r)' \subseteq Admitted(r)
      BY <1>6, <2>2
    <3> QED  BY <3>2, <3>3, <3>4
  <2>4. TakenOrAdmitted'
    BY <1>4, <2>3, NothingTaken
  <2> QED  BY <1>5, <2>4 DEF CapInv
<1> QED  BY <1>9, <1>10

\* An admitted join takes its slot.
LEMMA CreateSlotCap ==
    ASSUME CapInv, SessionsTyped', NEW t \in Tabs, CreateSlot(t)
    PROVE  CapInv'
<1> DEFINE s == join[t].id
           slot == [id |-> s, hash |-> join[t].hash, status |-> join[t].status,
                   position |-> join[t].position]
<1>1. s \in Ids /\ join[t] \in JoinType /\ join[t].at = "create"
  BY DEF CreateSlot, CapInv, SessionsTyped
<1>2. /\ \A u \in Tabs \ {t} : join'[u] = join[u]
      /\ join'[t].at # "create"
      /\ join'[t].at # "idle" => join'[t].id = s /\ join'[t].cap = join[t].cap
  BY <1>1 DEF CreateSlot, CapInv, SessionsTyped, JoinType, NoJoin
<1>3. UNCHANGED <<session, topCap, crowd>>
  BY DEF CreateSlot
<1>4. CapsKnown'
  BY <1>1, <1>2, <1>3, CapsStayKnown
<1>5. \A r : Admitted(r)' = Admitted(r) \ {t}
  BY <1>1, <1>2 DEF Admitted
<1>6. CASE slots' = slots
  <2>1. \A r \in Ids : topCap'[r] >= topCap[r] /\ crowd'[r] >= crowd[r] /\ Admitted(r)' \subseteq Admitted(r)
    BY <1>3, <1>5 DEF CapInv, SessionsTyped
  <2>2. TakenOrAdmitted'
    BY <1>6, <2>1, NothingTaken
  <2> QED  BY <1>4, <2>2 DEF CapInv
<1>7. CASE slots' = Append(slots, slot)
  <2>1. /\ slots \in Seq(Slot) /\ DOMAIN slots = 1..Len(slots) /\ Len(slots) \in Nat
        /\ DOMAIN slots' = 1..(Len(slots) + 1) /\ slots'[Len(slots) + 1] = slot
        /\ \A i \in DOMAIN slots : slots'[i] = slots[i]
    BY <1>7 DEF CapInv, SessionsTyped
  <2> SUFFICES ASSUME NEW r \in Ids
               PROVE  CountByStatus(r, "active")' + Cardinality(Admitted(r)')
                          <= topCap'[r] + Beside(crowd'[r])
    BY <1>4 DEF TakenOrAdmitted, CapInv
  <2> DEFINE Act == {i \in SlotsOf(r) : slots[i].status = "active"}
  <2>2. /\ IsFiniteSet(Act) /\ Cardinality(Act) \in Nat /\ CountByStatus(r, "active") = Cardinality(Act)
        /\ IsFiniteSet(Admitted(r)) /\ Cardinality(Admitted(r)) \in Nat
    <3>1. IsFiniteSet(Act) /\ CountByStatus(r, "active") \in Nat
          /\ IsFiniteSet(Admitted(r)) /\ Cardinality(Admitted(r)) \in Nat
      BY CountsAreNats, Zenon DEF CapInv
    <3> QED  BY <3>1 DEF CountByStatus
  <2>3. Cardinality(Act) + Cardinality(Admitted(r)) <= topCap[r] + Beside(crowd[r])
    BY <2>2 DEF CapInv, TakenOrAdmitted
  <2>4. topCap[r] \in Nat /\ Beside(crowd[r]) \in Nat
    BY DEF CapInv, SessionsTyped, Beside
  <2>5. Cardinality(Admitted(r) \ {t}) \in Nat
        /\ Cardinality(Admitted(r) \ {t}) = IF t \in Admitted(r) THEN Cardinality(Admitted(r)) - 1
                                             ELSE Cardinality(Admitted(r))
    BY <2>2, FS_RemoveElement, FS_CardinalityType
  <2>6. CASE r = s /\ join[t].status = "active"
    <3>1. t \in Admitted(r)
      BY <1>1, <2>6 DEF Admitted
    <3>2. {i \in SlotsOf(r)' : slots'[i].status = "active"} = Act \cup {Len(slots) + 1}
      BY <2>1, <2>6 DEF SlotsOf
    <3>3. Len(slots) + 1 \notin Act
      BY <2>1 DEF SlotsOf
    <3>4. CountByStatus(r, "active")' = Cardinality(Act) + 1
      BY <2>2, <3>2, <3>3, FS_AddElement DEF CountByStatus
    <3> HIDE DEF Act
    <3> QED  BY <1>3, <1>5, <2>2, <2>3, <2>4, <2>5, <3>1, <3>4
  <2>7. CASE ~(r = s /\ join[t].status = "active")
    <3>1. {i \in SlotsOf(r)' : slots'[i].status = "active"} = Act
      BY <2>1, <2>7 DEF SlotsOf
    <3>2. CountByStatus(r, "active")' = Cardinality(Act)
      BY <3>1 DEF CountByStatus
    <3> HIDE DEF Act
    <3> QED  BY <1>3, <1>5, <2>2, <2>3, <2>4, <2>5, <3>2
  <2> QED  BY <2>6, <2>7
<1> QED  BY <1>6, <1>7 DEF CreateSlot

\* Who waits in line was not admitted.
InLine == \A t \in Tabs : join[t].at = "line" => join[t].status = "queued"

LEMMA StepInLine ==
    ASSUME SessionsTyped, InLine, SessionsStep
    PROVE  InLine'
<1>1. ASSUME NEW t \in Tabs, Join(t) PROVE InLine'
  <2>1. \A u \in Tabs \ {t} : join'[u] = join[u]
    BY <1>1 DEF Join, StartJoin, FindSlot, CountActive, TakePosition, CreateSlot, FindGuest,
                CreateGuest, SessionsTyped
  <2>2. join'[t].at = "line" => join'[t].status = "queued"
    <3>1. CASE CountActive(t)
      BY <3>1 DEF CountActive, SessionsTyped, JoinType
    <3>2. CASE StartJoin(t)
      BY <3>2 DEF StartJoin, SessionsTyped, JoinType, NoJoin
    <3>3. CASE FindSlot(t) \/ TakePosition(t) \/ CreateSlot(t) \/ FindGuest(t) \/ CreateGuest(t)
      BY <3>3 DEF FindSlot, TakePosition, CreateSlot, FindGuest, CreateGuest, SessionsTyped,
                  JoinType, NoJoin
    <3> QED  BY <1>1, <3>1, <3>2, <3>3 DEF Join
  <2> QED  BY <2>1, <2>2 DEF InLine
<1>2. ASSUME NEW h \in HostTabs, Edit(h) PROVE InLine'
  BY <1>2 DEF Edit, Create, InsertSession, ReopenSession, UpdateSession, Reopen, Update, rows, InLine
<1>3. ASSUME NEW s \in Ids, End(s) PROVE InLine'
  BY <1>3 DEF End, InLine
<1>4. CASE NextDay \/ ForgetRequests \/ UNCHANGED svars
  BY <1>4 DEF NextDay, ForgetRequests, svars, rows, InLine, NoJoin
<1> QED  BY <1>1, <1>2, <1>3, <1>4 DEF SessionsStep, SessionsNext

\* The other steps of a join: it begins with the cap of its session, moves on
\* before it counts, or leaves.
LEMMA JoinStepCap ==
    ASSUME CapInv, InLine, NEW t \in Tabs, Join(t)
    PROVE  CapInv'
<1>t. SessionsTyped /\ SessionsTyped'
  BY JoinStepTyped DEF CapInv
<1>1. CASE StartJoin(t)
  <2>1. /\ UNCHANGED <<session, slots, topCap, crowd>> /\ join[t].at = "idle"
        /\ \A u \in Tabs \ {t} : join'[u] = join[u]
    BY <1>1, <1>t DEF StartJoin, rows, SessionsTyped
  <2>2. join'[t].at \in {"idle", "lookup"}
    BY <1>1, <2>1, <1>t DEF StartJoin, SessionsTyped, JoinType, NoJoin
  <2>3. \A r \in Ids : Admitted(r)' \subseteq Admitted(r)
    BY <2>1, <2>2 DEF Admitted
  <2>4. TakenOrAdmitted'
    BY <1>t, <2>1, <2>3, NothingTaken DEF SessionsTyped
  <2>5. join'[t].at # "idle" =>
           join'[t].id \in Ids /\ join'[t].cap = EffectiveGuestCap(session[join'[t].id])
    BY <1>1, <2>1, <1>t DEF StartJoin, SessionsTyped, JoinType, NoJoin
  <2>6. CapsKnown'
    BY <2>1, <2>5 DEF CapInv, CapsKnown
  <2> QED  BY <1>t, <2>4, <2>6 DEF CapInv
<1>2. CASE FindSlot(t) \/ FindGuest(t) \/ CreateGuest(t)
  <2>1. /\ UNCHANGED <<session, slots, topCap, crowd>> /\ join[t].at # "idle"
        /\ \A u \in Tabs \ {t} : join'[u] = join[u]
        /\ join'[t].at # "create"
        /\ join'[t].at # "idle" => join'[t].id = join[t].id /\ join'[t].cap = join[t].cap
    BY <1>2, <1>t DEF FindSlot, FindGuest, CreateGuest, rows, SessionsTyped, JoinType, NoJoin
  <2>2. CapsKnown'
    BY <1>t, <2>1, CapsStayKnown
  <2>3. \A r \in Ids : Admitted(r)' \subseteq Admitted(r)
    BY <2>1 DEF Admitted
  <2>4. TakenOrAdmitted'
    BY <1>t, <2>1, <2>3, NothingTaken DEF SessionsTyped
  <2> QED  BY <1>t, <2>2, <2>4 DEF CapInv
<1>3. CASE TakePosition(t)
  <2>1. /\ UNCHANGED <<session, slots, topCap, crowd>> /\ join[t].at # "idle"
        /\ \A u \in Tabs \ {t} : join'[u] = join[u]
        /\ join'[t].status = join[t].status
        /\ join'[t].id = join[t].id /\ join'[t].cap = join[t].cap
    BY <1>3, <1>t DEF TakePosition, rows, SessionsTyped, JoinType
  <2>2. \A r \in Ids : Admitted(r)' \subseteq Admitted(r)
    BY <1>3, <2>1 DEF Admitted, InLine, TakePosition
  <2>3. CapsKnown'
    BY <1>t, <2>1, CapsStayKnown
  <2>4. TakenOrAdmitted'
    BY <1>t, <2>1, <2>2, NothingTaken DEF SessionsTyped
  <2> QED  BY <1>t, <2>3, <2>4 DEF CapInv
<1> QED  BY <1>t, <1>1, <1>2, <1>3, CountActiveCap, CreateSlotCap DEF Join

LEMMA StepCap ==
    ASSUME CapInv, InLine, SessionsStep
    PROVE  CapInv' /\ InLine'
<1>t. SessionsTyped /\ SessionsTyped'
  BY StepTyped DEF CapInv
<1>l. InLine'
  BY StepInLine DEF CapInv
<1> SUFFICES CapInv'
  BY <1>l
<1>q. ASSUME UNCHANGED <<slots, crowd, join>>, \A s \in Ids : topCap'[s] >= topCap[s]
      PROVE  TakenOrAdmitted'
  <2>1. \A r \in Ids : Admitted(r)' \subseteq Admitted(r)
    BY <1>q DEF Admitted
  <2> QED  BY <1>t, <1>q, <2>1, NothingTaken DEF SessionsTyped
<1>1. ASSUME UNCHANGED <<slots, crowd, join, topCap>>,
             \A s \in Ids : session'[s].override = session[s].override
      PROVE  CapInv'
  <2>1. \A s \in Ids : topCap'[s] >= topCap[s]
    BY <1>1, <1>t DEF SessionsTyped
  <2>2. CapsKnown'
    BY <1>t, <1>1, CapsStayKnown
  <2> QED  BY <1>t, <1>q, <1>1, <2>1, <2>2 DEF CapInv
<1>2. ASSUME NEW h \in HostTabs, UpdateSession(h) PROVE CapInv'
  <2>1. PICK s \in Ids : s = edit[h].id
    BY <1>2, <1>t DEF UpdateSession, SessionsTyped
  <2>2. /\ UNCHANGED <<slots, crowd, join>>
        /\ \A r \in Ids \ {s} : session'[r] = session[r] /\ topCap'[r] = topCap[r]
        /\ topCap'[s] = Max({topCap[s], EffectiveGuestCap(session'[s])})
    BY <1>2, <2>1, <1>t DEF UpdateSession, SessionsTyped
  <2>3. \A r \in Ids : topCap[r] \in Nat /\ EffectiveGuestCap(session'[r]) \in Nat
    BY <1>t, CapIsNat DEF SessionsTyped
  <2>4. topCap'[s] \in Nat /\ topCap'[s] >= topCap[s] /\ topCap'[s] >= EffectiveGuestCap(session'[s])
    BY <2>2, <2>3, MaxOfTwo
  <2>5. \A r \in Ids : topCap'[r] \in Nat /\ topCap'[r] >= topCap[r]
    BY <2>2, <2>3, <2>4
  <2>6. \A r \in Ids : EffectiveGuestCap(session'[r]) <= topCap'[r]
    BY <2>2, <2>3, <2>4 DEF CapInv, CapsKnown
  <2>7. \A t \in Tabs : join'[t].at # "idle" => join'[t].cap <= topCap'[join'[t].id]
    <3> SUFFICES ASSUME NEW t \in Tabs, join[t].at # "idle"
                 PROVE  join[t].cap <= topCap'[join[t].id]
      BY <2>2
    <3>1. join[t].id \in Ids /\ join[t].cap \in Nat /\ join[t].cap <= topCap[join[t].id]
      BY <1>t DEF CapInv, CapsKnown, SessionsTyped, JoinType
    <3> QED  BY <2>3, <2>5, <3>1
  <2> QED  BY <1>t, <1>q, <2>2, <2>5, <2>6, <2>7 DEF CapInv, CapsKnown
<1>3. ASSUME NEW h \in HostTabs, Edit(h), ~UpdateSession(h) PROVE CapInv'
  <2>1. UNCHANGED <<slots, crowd, join, topCap>>
    BY <1>3 DEF Edit, Create, InsertSession, ReopenSession, Reopen, Update, rows
  <2>2. \/ UNCHANGED session
        \/ session' = [session EXCEPT ![Min(UnusedIds)].state = "open"]
        \/ session' = [session EXCEPT ![edit[h].id].state = "open"]
    BY <1>3 DEF Edit, Create, InsertSession, ReopenSession, Reopen, Update, rows
  <2>3. ASSUME NEW s \in Ids PROVE session'[s].override = session[s].override
    <3>1. session'[s] = session[s] \/ session'[s] = [session[s] EXCEPT !.state = "open"]
      BY <2>2, <1>t DEF SessionsTyped
    <3>2. session[s] \in Row
      BY <1>t DEF SessionsTyped
    <3> QED  BY <3>1, <3>2 DEF Row
  <2> QED  BY <1>1, <2>1, <2>3
<1>4. ASSUME NEW s \in Ids, End(s) PROVE CapInv'
  BY <1>1, <1>4, <1>t DEF End, SessionsTyped, Row
<1>5. CASE NextDay \/ UNCHANGED svars
  BY <1>1, <1>5 DEF NextDay, svars, rows
<1>6. CASE ForgetRequests
  <2>1. UNCHANGED <<session, slots, topCap, crowd>> /\ \A t \in Tabs : join'[t].at = "idle"
    BY <1>6 DEF ForgetRequests, rows, NoJoin
  <2>2. \A r \in Ids : Admitted(r)' \subseteq Admitted(r)
    BY <2>1 DEF Admitted
  <2>3. TakenOrAdmitted'
    BY <1>t, <2>1, <2>2, NothingTaken DEF SessionsTyped
  <2>4. CapsKnown'
    BY <1>t, <2>1, CapsStayKnown
  <2> QED  BY <1>t, <2>3, <2>4 DEF CapInv
<1> QED  BY <1>2, <1>3, <1>4, <1>5, <1>6, JoinStepCap DEF SessionsStep, SessionsNext

LEMMA CapHolds == CapInv => OvershootIsTheOverlap
<1> SUFFICES ASSUME CapInv, NEW s \in Ids
             PROVE  CountByStatus(s, "active")
                        <= topCap[s] + (IF crowd[s] = 0 THEN 0 ELSE crowd[s] - 1)
  BY DEF OvershootIsTheOverlap
<1>1. CountByStatus(s, "active") \in Nat /\ Cardinality(Admitted(s)) \in Nat
  BY CountsAreNats, Zenon DEF CapInv
<1>2. CountByStatus(s, "active") + Cardinality(Admitted(s)) <= topCap[s] + Beside(crowd[s])
  BY DEF CapInv, TakenOrAdmitted
<1>3. topCap[s] \in Nat /\ crowd[s] \in Nat
  BY DEF CapInv, SessionsTyped
<1> QED  BY <1>1, <1>2, <1>3 DEF Beside

-----------------------------------------------------------------------------
(* The guest cap, whatever the calls do.                                   *)

\* Every step is a step of the sessions, forgets their requests, or leaves
\* them alone.
LEMMA StepOfSessions ==
    ASSUME [Next]_vars
    PROVE  SessionsStep
<1>1. ASSUME NEW c \in Callers, Moves(c) \/ Fails(c) PROVE UNCHANGED svars
  <2>1. CASE Moves(c)
    BY <2>1 DEF Moves, Send, Search, Answered, Unauthorized, Renewed, NotRenewed, UpdateTokens
  <2>2. CASE Fails(c)
    BY <2>2 DEF Fails, NoActiveDevice, Broken, TooManyRequests
  <2> QED  BY <1>1, <2>1, <2>2
<1>2. ASSUME NEW c, NEW op, NEW q, GetProvider(c, op, q) PROVE UNCHANGED svars
  BY <1>2 DEF GetProvider
<1>3. CASE StartConnect \/ Callback \/ SwitchProvider \/ Expire \/ Clock
  BY <1>3 DEF StartConnect, Callback, SwitchProvider, Expire, Clock, SessionsStep
<1>4. CASE Restart
  BY <1>4 DEF Restart, SessionsStep
<1>5. CASE UNCHANGED vars
  BY <1>5 DEF vars, SessionsStep
<1>6. CASE Tick \/ RunAction \/ UseDevices \/ PushToProviderQueue \/ \E c \in Guests : AskSearch(c)
  BY <1>6, <1>2 DEF Tick, RunAction, UseDevices, PushToProviderQueue, AskSearch, SessionsStep
<1> QED  BY <1>1, <1>3, <1>4, <1>5, <1>6 DEF Next, SessionsStep

\* The cap is passed by no more slots than joins overlapped, beside the last,
\* whatever host, days and restarts do.
THEOREM OvershootIsTheOverlapHolds == Spec => []OvershootIsTheOverlap
<1>1. Init => CapInv /\ InLine
  BY InitCap DEF Init, SessionsInit, InLine, NoJoin
<1>2. CapInv /\ InLine /\ [Next]_vars => (CapInv /\ InLine)'
  BY StepOfSessions, StepCap
<1> QED  BY <1>1, <1>2, CapHolds, PTL DEF Spec

-----------------------------------------------------------------------------
(* Type correctness of calls, cache and cooldown.                          *)

Ops == {"poll", "search", "push", "skip", "pause", "resume", "devices", "activate"}

Requests == {"none", "queue", "currently-playing", "search", "enqueue", "next", "pause", "play",
             "devices", "transfer"}

CallType == [at: {"idle", "ready", "sending", "waiting", "saving", "shared"}, op: Ops,
             request: Requests, query: Queries \cup {None}, owner: Callers \cup {None},
             access: Nat, refresh: Nat, renewing: BOOLEAN, rotated: BOOLEAN,
             isRetry: BOOLEAN, fresh: Nat]

EntryType == [owner: Callers \cup {None}, expires: Nat]
Tokens == [access: Nat, refresh: Nat]

CallsTyped ==
    /\ call \in [Callers -> CallType] /\ cache \in [Queries -> EntryType]
    /\ row \in Tokens \cup {None} /\ issued \in Nat
    /\ until \in Nat /\ told \in Nat
    /\ \A c \in Callers : call[c].at # "idle" => row \in Tokens

LEMMA CallsAssumed ==
    /\ Waits \subseteq Nat /\ DefaultWait \in Nat /\ Ttl \in Nat \ {0} /\ None \notin Nat
BY ProviderCallsAssumption, SessionsAssumption

LEMMA NoCallTyped == NoCall \in CallType /\ NoCall.at = "idle" /\ NoEntry \in EntryType
BY DEF NoCall, CallType, NoEntry, EntryType, Ops, Requests

LEMMA RequestsTyped == \A op \in Ops : Needs[op] \in Requests
BY DEF Needs, Ops, Requests

LEMMA WaitTyped ==
    ASSUME NEW header \in Waits
    PROVE  ParseRetryAfter(header) \in Nat
BY CallsAssumed DEF ParseRetryAfter

\* A call ends, and those that share it.
LEMMA SettleTyped ==
    ASSUME CallsTyped, NEW c \in Callers, NEW ok, Settle(c, ok)
    PROVE  /\ call' \in [Callers -> CallType] /\ cache' \in [Queries -> EntryType]
           /\ \A d \in Callers : call'[d] \in {NoCall, call[d]}
           /\ call'[c] = NoCall
<1>1. call' = [d \in Callers |-> IF c \in {d, call[d].owner} THEN NoCall ELSE call[d]]
  BY DEF Settle
<1>2. cache' = [q \in Queries |-> IF cache[q].owner # c THEN cache[q]
                                  ELSE IF ok THEN [cache[q] EXCEPT !.owner = None] ELSE NoEntry]
  BY DEF Settle, Evict
<1>3. \A q \in Queries : cache[q] \in EntryType /\ [cache[q] EXCEPT !.owner = None] \in EntryType
  BY DEF CallsTyped, EntryType
<1>4. \A q \in Queries : cache'[q] \in EntryType
  BY <1>2, <1>3, NoCallTyped
<1>5. cache' \in [Queries -> EntryType]
  BY <1>2, <1>4
<1> QED  BY <1>1, <1>5, NoCallTyped DEF CallsTyped

\* One call changes.
LEMMA OneCallTyped ==
    ASSUME CallsTyped, NEW c \in Callers, NEW k \in CallType, call' = [call EXCEPT ![c] = k]
    PROVE  /\ call' \in [Callers -> CallType] /\ call'[c] = k
           /\ \A d \in Callers \ {c} : call'[d] = call[d]
BY DEF CallsTyped

-----------------------------------------------------------------------------
(* Searches and cooldown.                                                  *)

Active == {"sending", "waiting", "saving"}

\* A search under way whose entry could still be alive owns a live entry.
Searches ==
    \A c \in Callers :
        /\ call[c].at = "ready" => call[c].query \in Queries /\ call[c].fresh = 0
        /\ call[c].fresh > 0 /\ call[c].at \in Active =>
              /\ call[c].query \in Queries
              /\ cache[call[c].query].owner = c
              /\ cache[call[c].query].expires >= call[c].fresh

CallsInv == CallsTyped /\ Searches /\ told <= until

\* A call moves on without touching the cache.
LEMMA QuietStep ==
    ASSUME CallsInv, NEW c \in Callers, NEW k \in CallType, call' = [call EXCEPT ![c] = k],
           UNCHANGED cache, k.at # "ready", k.query = call[c].query, k.fresh = call[c].fresh,
           k.at \in Active => call[c].at \in Active
    PROVE  Searches'
<1>1. call'[c] = k /\ \A d \in Callers \ {c} : call'[d] = call[d]
  BY OneCallTyped DEF CallsInv
<1> QED  BY <1>1 DEF CallsInv, Searches

\* A call begins with nothing cached for it yet.
LEMMA FreshStep ==
    ASSUME CallsInv, NEW c \in Callers, NEW k \in CallType, call' = [call EXCEPT ![c] = k],
           UNCHANGED cache, k.at = "ready" => k.query \in Queries, k.fresh = 0
    PROVE  Searches'
<1>1. call'[c] = k /\ \A d \in Callers \ {c} : call'[d] = call[d]
  BY OneCallTyped DEF CallsInv
<1> QED  BY <1>1 DEF CallsInv, Searches

LEMMA SettleStep ==
    ASSUME CallsInv, NEW c \in Callers, NEW ok, Settle(c, ok)
    PROVE  Searches'
<1>1. \A q \in Queries : cache[q].owner # c => cache'[q] = cache[q]
  BY DEF Settle, Evict
<1>2. \A d \in Callers : call'[d] \in {NoCall, call[d]}
  BY SettleTyped DEF CallsInv
<1>3. call'[c] = NoCall
  BY SettleTyped DEF CallsInv
<1> SUFFICES ASSUME NEW d \in Callers
             PROVE  /\ call'[d].at = "ready" => call'[d].query \in Queries /\ call'[d].fresh = 0
                    /\ call'[d].fresh > 0 /\ call'[d].at \in Active =>
                          /\ call'[d].query \in Queries
                          /\ cache'[call'[d].query].owner = d
                          /\ cache'[call'[d].query].expires >= call'[d].fresh
  BY DEF Searches
<1>4. CASE call'[d] = NoCall
  BY <1>4 DEF NoCall
<1>5. CASE call'[d] = call[d] /\ d # c
  BY <1>1, <1>5 DEF CallsInv, Searches
<1> QED  BY <1>2, <1>3, <1>4, <1>5

\* The steps that end a call.
LEMMA EndsCall ==
    ASSUME CallsInv, NEW c \in Callers, NEW ok, Settle(c, ok),
           UNCHANGED <<row, issued, until, told>>
    PROVE  CallsInv' /\ \A d \in Callers : call'[d].at = "waiting" => call[d].at = "waiting"
<1>1. call' \in [Callers -> CallType] /\ cache' \in [Queries -> EntryType]
  BY SettleTyped DEF CallsInv
<1>2. \A d \in Callers : call'[d] \in {NoCall, call[d]}
  BY SettleTyped DEF CallsInv
<1>3. Searches'
  BY SettleStep
<1>4. \A d \in Callers : call'[d].at # "idle" => call'[d] = call[d]
  BY <1>2 DEF NoCall
<1> QED  BY <1>1, <1>3, <1>4 DEF CallsInv, CallsTyped

\* The steps that move one call on.
LEMMA MovesCall ==
    ASSUME CallsInv, NEW c \in Callers, NEW k \in CallType, call' = [call EXCEPT ![c] = k],
           UNCHANGED <<cache, until, told>>, issued' \in Nat, row' \in Tokens,
           k.at # "ready", k.query = call[c].query, k.fresh = call[c].fresh,
           k.at \in Active => call[c].at \in Active
    PROVE  CallsInv'
<1>1. call' \in [Callers -> CallType]
  BY OneCallTyped DEF CallsInv
<1>2. Searches'
  BY QuietStep
<1> QED  BY <1>1, <1>2 DEF CallsInv, CallsTyped

\* Nothing but a request that leaves while nothing cools down is on its way
\* after a step and was not before.
Leaves == \A c \in Callers : call[c].at # "waiting" /\ call'[c].at = "waiting" => told = 0

LEMMA SendStep ==
    ASSUME CallsInv, NEW c \in Callers, Send(c)
    PROVE  CallsInv' /\ Leaves
<1>1. CASE ~CoolingDown
  <2> DEFINE k == [call[c] EXCEPT !.at = "waiting"]
  <2>1. call[c] \in CallType /\ call[c].at = "sending" /\ row \in Tokens /\ issued \in Nat
    BY DEF CallsInv, CallsTyped, Send
  <2>2. /\ k \in CallType /\ k.at = "waiting" /\ k.query = call[c].query
        /\ k.fresh = call[c].fresh /\ call' = [call EXCEPT ![c] = k] /\ UNCHANGED cache
    BY <1>1, <2>1 DEF CallType, Send
  <2>3. told = 0
    BY <1>1 DEF CoolingDown, CallsInv, CallsTyped
  <2>4. UNCHANGED <<until, told, row, issued>>
    BY DEF Send, provider
  <2> HIDE DEF k
  <2>5. CallsInv'
    BY <1>1, <2>1, <2>2, <2>4, MovesCall DEF Active
  <2> QED  BY <2>3, <2>5 DEF Leaves
<1>2. CASE Settle(c, FALSE)
  BY <1>2, EndsCall DEF Send, provider, Leaves
<1>3. CoolingDown /\ ~(EndsTick(c) /\ TickLimited(until)) => Settle(c, FALSE)
  BY DEF Send, Done
<1>4. ASSUME CoolingDown, EndsTick(c), TickLimited(until) PROVE CallsInv' /\ Leaves
  <2>1. Settle(Poller, FALSE)
    BY <1>4 DEF TickLimited
  <2>2. Poller \in Callers
    BY DEF Callers
  <2> QED  BY <2>1, <2>2, EndsCall DEF Send, provider, Leaves
<1> QED  BY <1>1, <1>2, <1>3, <1>4 DEF Send

\* A search is answered by the cache, waits for another, or leaves alone.
LEMMA SearchStep ==
    ASSUME CallsInv, NEW c \in Callers, Search(c)
    PROVE  CallsInv' /\ Leaves
<1>0. PICK q \in Queries : q = call[c].query
  BY DEF Search, CallsInv, Searches
<1>1. /\ call[c] \in CallType /\ call[c].at = "ready" /\ call[c].fresh = 0 /\ row \in Tokens
      /\ cache[q] \in EntryType /\ UNCHANGED <<row, issued, until, told>>
  BY <1>0 DEF Search, CallsInv, CallsTyped, Searches, provider
<1>2. CASE cache[q].expires > 0
  <2>1. PICK k \in {NoCall, [call[c] EXCEPT !.at = "shared", !.owner = cache[q].owner]} :
           call' = [call EXCEPT ![c] = k] /\ UNCHANGED cache
    BY <1>0, <1>1, <1>2 DEF Search
  <2>2. k \in CallType /\ k.at \in {"idle", "shared"} /\ k.fresh = 0
    <3>1. CASE k = NoCall
      BY <3>1, NoCallTyped DEF NoCall
    <3>2. CASE k = [call[c] EXCEPT !.at = "shared", !.owner = cache[q].owner]
      <4>1. cache[q].owner \in Callers \cup {None}
        BY <1>1 DEF EntryType
      <4> QED  BY <1>1, <3>2, <4>1 DEF CallType
    <3> QED  BY <2>1, <3>1, <3>2
  <2>3. Searches'
    BY <2>1, <2>2, FreshStep
  <2>4. call' \in [Callers -> CallType] /\ call'[c] = k /\ \A d \in Callers \ {c} : call'[d] = call[d]
    BY <2>1, <2>2, OneCallTyped DEF CallsInv
  <2> QED  BY <1>1, <2>1, <2>2, <2>3, <2>4 DEF CallsInv, CallsTyped, Leaves
<1>3. CASE ~(cache[q].expires > 0) /\ CoolingDown
  <2>1. call' = [call EXCEPT ![c] = NoCall] /\ cache' = [cache EXCEPT ![q] = NoEntry]
    BY <1>0, <1>1, <1>3 DEF Search
  <2>2. call' \in [Callers -> CallType] /\ call'[c] = NoCall
        /\ \A d \in Callers \ {c} : call'[d] = call[d]
    BY <2>1, NoCallTyped, OneCallTyped DEF CallsInv
  <2>3. cache' \in [Queries -> EntryType] /\ \A r \in Queries \ {q} : cache'[r] = cache[r]
    BY <2>1, NoCallTyped DEF CallsInv, CallsTyped
  <2>4. ASSUME NEW d \in Callers \ {c}, call[d].fresh > 0, call[d].at \in Active
        PROVE  call[d].query # q
    BY <1>1, <1>3, <2>4 DEF CallsInv, CallsTyped, Searches, CallType, EntryType
  <2>5. Searches'
    BY <2>2, <2>3, <2>4 DEF CallsInv, Searches, NoCall
  <2>6. call'[c].at = "idle"
    BY <2>2 DEF NoCall
  <2> QED  BY <1>1, <2>2, <2>3, <2>5, <2>6 DEF CallsInv, CallsTyped, Leaves
<1>4. CASE ~(cache[q].expires > 0) /\ ~CoolingDown
  <2> DEFINE k == [call[c] EXCEPT !.at = "waiting", !.fresh = Ttl]
             entry == [owner |-> c, expires |-> Ttl]
  <2>1. call' = [call EXCEPT ![c] = k] /\ cache' = [cache EXCEPT ![q] = entry]
    BY <1>0, <1>1, <1>4 DEF Search
  <2>2. /\ k \in CallType /\ k.at = "waiting" /\ k.query = q /\ k.fresh = Ttl
        /\ entry \in EntryType /\ entry.owner = c /\ entry.expires = Ttl /\ Ttl \in Nat
    BY <1>0, <1>1, CallsAssumed DEF CallType, EntryType
  <2> HIDE DEF k, entry
  <2>3. call' \in [Callers -> CallType] /\ call'[c] = k /\ \A d \in Callers \ {c} : call'[d] = call[d]
    BY <2>1, <2>2, OneCallTyped DEF CallsInv
  <2>4. /\ cache' \in [Queries -> EntryType] /\ cache'[q] = entry
        /\ \A r \in Queries \ {q} : cache'[r] = cache[r]
    BY <2>1, <2>2 DEF CallsInv, CallsTyped
  <2>5. ASSUME NEW d \in Callers \ {c}, call[d].fresh > 0, call[d].at \in Active
        PROVE  call[d].query # q
    BY <1>1, <1>4, <2>5 DEF CallsInv, CallsTyped, Searches, CallType, EntryType
  <2>6. Searches'
    BY <2>2, <2>3, <2>4, <2>5 DEF CallsInv, Searches
  <2>7. told = 0
    BY <1>4 DEF CoolingDown, CallsInv, CallsTyped
  <2> QED  BY <1>1, <2>2, <2>3, <2>4, <2>6, <2>7 DEF CallsInv, CallsTyped, Leaves
<1> QED  BY <1>2, <1>3, <1>4

\* Another request of a call is sent by a later step.
LEMMA FollowStep ==
    ASSUME CallsInv, NEW c \in Callers, Waiting(c), NEW request \in Requests, Follow(c, request),
           UNCHANGED <<row, issued, until, told>>
    PROVE  CallsInv' /\ Leaves
<1> DEFINE k == [call[c] EXCEPT !.at = "sending", !.request = request, !.isRetry = FALSE]
<1>1. call[c] \in CallType /\ call[c].at = "waiting" /\ row \in Tokens /\ issued \in Nat
  BY DEF CallsInv, CallsTyped, Waiting
<1>2. /\ k \in CallType /\ k.at = "sending" /\ k.query = call[c].query
      /\ k.fresh = call[c].fresh /\ call' = [call EXCEPT ![c] = k] /\ UNCHANGED cache
  BY <1>1 DEF CallType, Follow
<1> HIDE DEF k
<1>3. CallsInv'
  BY <1>1, <1>2, MovesCall DEF Active
<1>4. \A d \in Callers : d # c => call'[d] = call[d]
  BY <1>2, OneCallTyped DEF CallsInv
<1>5. call'[c].at = "sending"
  BY <1>2, OneCallTyped DEF CallsInv
<1> QED  BY <1>3, <1>4, <1>5 DEF Leaves

LEMMA AnswerSteps ==
    ASSUME CallsInv, NEW c \in Callers,
           Answered(c) \/ NotRenewed(c) \/ NoActiveDevice(c) \/ Broken(c)
    PROVE  CallsInv' /\ Leaves
<1>1. UNCHANGED <<row, issued, until, told>>
  BY DEF Answered, NotRenewed, NoActiveDevice, Broken, provider
<1>2. /\ "queue" \in Requests /\ Needs["activate"] \in Requests /\ Needs["devices"] \in Requests
  BY DEF Needs, Requests
<1>3. CASE \E ok \in BOOLEAN : Settle(c, ok)
  BY <1>1, <1>3, EndsCall DEF Leaves
<1>4. CASE Waiting(c) /\ \E request \in Requests : Follow(c, request)
  BY <1>1, <1>4, FollowStep
<1> QED  BY <1>2, <1>3, <1>4 DEF Answered, NotRenewed, NoActiveDevice, Broken, Done

LEMMA UnauthorizedStep ==
    ASSUME CallsInv, NEW c \in Callers, Unauthorized(c)
    PROVE  CallsInv' /\ Leaves
<1>1. UNCHANGED <<row, issued, until, told>>
  BY DEF Unauthorized, provider
<1>2. CASE Settle(c, FALSE)
  BY <1>1, <1>2, EndsCall DEF Leaves
<1>3. CASE /\ call' = [call EXCEPT ![c].at = "sending", ![c].renewing = TRUE]
           /\ UNCHANGED cache
  <2> DEFINE k == [call[c] EXCEPT !.at = "sending", !.renewing = TRUE]
  <2>1. call[c] \in CallType /\ call[c].at = "waiting" /\ row \in Tokens /\ issued \in Nat
    BY DEF CallsInv, CallsTyped, Unauthorized, Waiting
  <2>2. /\ k \in CallType /\ k.at = "sending" /\ k.query = call[c].query
        /\ k.fresh = call[c].fresh /\ call' = [call EXCEPT ![c] = k]
    BY <1>3, <2>1 DEF CallType
  <2> HIDE DEF k
  <2>3. CallsInv'
    BY <1>1, <1>3, <2>1, <2>2, MovesCall DEF Active
  <2>4. call'[c].at = "sending" /\ \A d \in Callers \ {c} : call'[d] = call[d]
    BY <2>2, OneCallTyped DEF CallsInv
  <2> QED  BY <2>3, <2>4 DEF Leaves
<1> QED  BY <1>2, <1>3 DEF Unauthorized, Done

LEMMA RenewalSteps ==
    ASSUME CallsInv, NEW c \in Callers, UpdateTokens(c) \/ \E rotated \in BOOLEAN : Renewed(c, rotated)
    PROVE  CallsInv' /\ Leaves
<1>1. call[c] \in CallType /\ row \in Tokens /\ issued \in Nat
      /\ call[c].at \in {"waiting", "saving"} /\ UNCHANGED <<cache, until, told>>
  BY DEF CallsInv, CallsTyped, UpdateTokens, Renewed
<1>2. CASE UpdateTokens(c)
  <2> DEFINE k == [call[c] EXCEPT !.at = "sending", !.renewing = FALSE, !.isRetry = TRUE]
  <2>1. /\ k \in CallType /\ k.at = "sending" /\ k.query = call[c].query
        /\ k.fresh = call[c].fresh /\ call' = [call EXCEPT ![c] = k]
    BY <1>1, <1>2 DEF CallType, UpdateTokens
  <2>2. row' \in Tokens /\ issued' \in Nat
    BY <1>1, <1>2 DEF CallType, Tokens, UpdateTokens, provider
  <2> HIDE DEF k
  <2>3. CallsInv'
    BY <1>1, <2>1, <2>2, MovesCall DEF Active
  <2>4. call'[c].at = "sending" /\ \A d \in Callers \ {c} : call'[d] = call[d]
    BY <2>1, OneCallTyped DEF CallsInv
  <2> QED  BY <2>3, <2>4 DEF Leaves
<1>3. ASSUME NEW rotated \in BOOLEAN, Renewed(c, rotated)
      PROVE  CallsInv' /\ Leaves
  <2> DEFINE n == issued + 1
             k == [call[c] EXCEPT !.at = "saving", !.access = n, !.rotated = rotated,
                                  !.refresh = IF rotated THEN n ELSE @]
  <2>0. /\ issued' = n /\ row' = row
        /\ call' = [call EXCEPT ![c].at = "saving", ![c].access = n, ![c].rotated = rotated,
                                ![c].refresh = IF rotated THEN n ELSE @]
    BY <1>3, Zenon DEF Renewed
  <2>n. n \in Nat
    BY <1>1
  <2> HIDE DEF n
  <2>1. /\ k \in CallType /\ k.at = "saving" /\ k.query = call[c].query
        /\ k.fresh = call[c].fresh /\ call' = [call EXCEPT ![c] = k]
    <3>1. CASE rotated = TRUE
      BY <1>1, <2>0, <2>n, <3>1 DEF CallType
    <3>2. CASE rotated = FALSE
      BY <1>1, <2>0, <2>n, <3>2 DEF CallType
    <3> QED  BY <1>3, <3>1, <3>2
  <2>2. row' \in Tokens /\ issued' \in Nat
    BY <1>1, <2>0, <2>n
  <2> HIDE DEF k
  <2>3. CallsInv'
    BY <1>1, <2>1, <2>2, MovesCall DEF Active
  <2>4. call'[c].at = "saving" /\ \A d \in Callers \ {c} : call'[d] = call[d]
    BY <2>1, OneCallTyped DEF CallsInv
  <2> QED  BY <2>3, <2>4 DEF Leaves
<1> QED  BY <1>2, <1>3

\* A 429 only ever lengthens the cooldown.
LEMMA LimitStep ==
    ASSUME CallsInv, NEW c \in Callers, NEW header \in Waits, TooManyRequests(c, header)
    PROVE  CallsInv' /\ Leaves
<1> DEFINE wait == ParseRetryAfter(header)
<1>1. wait \in Nat /\ until \in Nat /\ told \in Nat /\ told <= until
  BY WaitTyped DEF CallsInv, CallsTyped
<1>2. until' = Record(wait) /\ told' = Max({told, wait})
  BY DEF TooManyRequests
<1>3. until' \in Nat /\ until' >= until /\ until' >= wait
  BY <1>1, <1>2 DEF Record, CoolingDown
<1>4. told' \in {told, wait} /\ told' \in Nat
  <2>1. \E x \in {told, wait} : \A y \in {told, wait} : x >= y
    BY <1>1
  <2> QED  BY <1>1, <1>2, <2>1 DEF Max
<1>5. told' <= until'
  BY <1>1, <1>3, <1>4
<1>6. PICK d \in Callers, ok \in BOOLEAN : Settle(d, ok)
  BY DEF TooManyRequests, TickLimited, Done, Callers
<1>7. /\ call' \in [Callers -> CallType] /\ cache' \in [Queries -> EntryType] /\ Searches'
      /\ \A e \in Callers : call'[e] \in {NoCall, call[e]}
  BY <1>6, SettleTyped, SettleStep DEF CallsInv
<1>8. \A e \in Callers : call'[e].at # "idle" => call'[e] = call[e]
  BY <1>7 DEF NoCall
<1>9. row' = row /\ issued' = issued
  BY DEF TooManyRequests, provider
<1> QED  BY <1>3, <1>4, <1>5, <1>7, <1>8, <1>9 DEF CallsInv, CallsTyped, Leaves

\* A call begins.
LEMMA GetProviderStep ==
    ASSUME CallsInv, NEW c \in Callers, NEW op \in Ops, NEW q \in Queries \cup {None},
           op = "search" => q \in Queries, GetProvider(c, op, q)
    PROVE  CallsInv' /\ Leaves
<1>1. UNCHANGED <<row, issued, until, told, cache>>
  BY DEF GetProvider, provider
<1>2. CASE row = None
  BY <1>1, <1>2 DEF GetProvider, CallsInv, CallsTyped, Searches, Leaves
<1>3. CASE row # None
  <2> DEFINE k == Ready(op, q)
  <2>1. row \in Tokens
    BY <1>3 DEF CallsInv, CallsTyped
  <2>2. /\ k \in CallType /\ k.at \in {"ready", "sending"} /\ k.query = q /\ k.fresh = 0
        /\ k.at = "ready" => op = "search"
    BY <2>1, RequestsTyped, NoCallTyped DEF Ready, CallType, NoCall, Tokens
  <2>3. call' = [call EXCEPT ![c] = k]
    BY <1>3 DEF GetProvider
  <2> HIDE DEF k
  <2>4. call' \in [Callers -> CallType] /\ call'[c] = k /\ \A d \in Callers \ {c} : call'[d] = call[d]
    BY <2>2, <2>3, OneCallTyped DEF CallsInv
  <2>5. Searches'
    BY <1>1, <2>2, <2>3, FreshStep
  <2> QED  BY <1>1, <2>1, <2>2, <2>4, <2>5 DEF CallsInv, CallsTyped, Leaves
<1> QED  BY <1>2, <1>3

LEMMA ClockStep ==
    ASSUME CallsInv, Clock
    PROVE  CallsInv' /\ Leaves
<1>1. ASSUME NEW n \in Nat PROVE Less(n) \in Nat
  BY <1>1 DEF Less
<1>2. /\ until' \in Nat /\ told' \in Nat /\ told' <= until' /\ row' = row /\ issued' = issued
  BY DEF Clock, Less, CallsInv, CallsTyped, provider
<1>3. ASSUME NEW c \in Callers
      PROVE  /\ call'[c] = [call[c] EXCEPT !.fresh = Less(@)]
             /\ call'[c] \in CallType /\ call'[c].at = call[c].at /\ call'[c].query = call[c].query
             /\ call'[c].fresh = Less(call[c].fresh)
  <2>1. call[c] \in CallType /\ call'[c] = [call[c] EXCEPT !.fresh = Less(@)]
    BY DEF Clock, CallsInv, CallsTyped
  <2>2. Less(call[c].fresh) \in Nat
    BY <2>1, <1>1 DEF CallType
  <2> QED  BY <2>1, <2>2 DEF CallType
<1>4. ASSUME NEW q \in Queries
      PROVE  /\ cache'[q] \in EntryType /\ cache'[q].owner = cache[q].owner
             /\ cache'[q].expires = Less(cache[q].expires)
  <2>1. cache[q] \in EntryType /\ cache'[q] = [cache[q] EXCEPT !.expires = Less(@)]
    BY DEF Clock, CallsInv, CallsTyped
  <2>2. Less(cache[q].expires) \in Nat
    BY <2>1, <1>1 DEF EntryType
  <2> QED  BY <2>1, <2>2 DEF EntryType
<1>5. call' \in [Callers -> CallType] /\ cache' \in [Queries -> EntryType]
  BY <1>3, <1>4 DEF Clock
<1>6. Searches'
  <2> SUFFICES ASSUME NEW c \in Callers
               PROVE  /\ call'[c].at = "ready" => call'[c].query \in Queries /\ call'[c].fresh = 0
                      /\ call'[c].fresh > 0 /\ call'[c].at \in Active =>
                            /\ call'[c].query \in Queries
                            /\ cache'[call'[c].query].owner = c
                            /\ cache'[call'[c].query].expires >= call'[c].fresh
    BY DEF Searches
  <2>1. call[c].fresh \in Nat /\ \A q \in Queries : cache[q].expires \in Nat
    BY DEF CallsInv, CallsTyped, CallType, EntryType
  <2>2. call[c].at = "ready" => call[c].query \in Queries /\ call[c].fresh = 0
    BY DEF CallsInv, Searches
  <2>3. call[c].fresh > 0 /\ call[c].at \in Active =>
              /\ call[c].query \in Queries
              /\ cache[call[c].query].owner = c
              /\ cache[call[c].query].expires >= call[c].fresh
    BY DEF CallsInv, Searches
  <2>4. /\ call'[c].at = call[c].at /\ call'[c].query = call[c].query
        /\ call'[c].fresh = Less(call[c].fresh)
    BY <1>3
  <2>5. ASSUME call'[c].fresh > 0, call[c].at \in Active
        PROVE  /\ call[c].query \in Queries
               /\ cache'[call[c].query].owner = c
               /\ cache'[call[c].query].expires >= call'[c].fresh
    <3>1. call[c].fresh > 0
      BY <2>1, <2>4, <2>5 DEF Less
    <3>2. PICK q \in Queries : q = call[c].query
      BY <2>3, <2>5, <3>1
    <3>3. cache[q].owner = c /\ cache[q].expires >= call[c].fresh
      BY <2>3, <2>5, <3>1, <3>2
    <3>4. cache'[q].owner = c /\ cache'[q].expires = Less(cache[q].expires)
      BY <1>4, <3>3
    <3> QED  BY <2>1, <2>4, <3>1, <3>2, <3>3, <3>4 DEF Less
  <2>6. call[c].at = "ready" => call'[c].fresh = 0
    BY <2>2, <2>4 DEF Less
  <2> QED  BY <2>2, <2>4, <2>5, <2>6
<1>7. Leaves
  BY <1>3 DEF Leaves
<1> QED  BY <1>2, <1>3, <1>5, <1>6, <1>7 DEF CallsInv, CallsTyped

\* The steps that touch no call.
LEMMA OtherSteps ==
    ASSUME CallsInv,
           \/ StartConnect \/ Callback \/ SwitchProvider \/ Expire \/ UNCHANGED vars
           \/ SessionsNext /\ UNCHANGED pvars
    PROVE  CallsInv' /\ Leaves
<1>1. UNCHANGED <<call, cache, until, told>>
  BY DEF StartConnect, Callback, SwitchProvider, Expire, vars, pvars
<1>2. /\ row' = row \/ row' = NewTokens(issued + 1)
      /\ issued' \in {issued, issued + 1}
  BY DEF StartConnect, Callback, SwitchProvider, Expire, vars, pvars, provider
<1>3. NewTokens(issued + 1) \in Tokens
  BY DEF CallsInv, CallsTyped, NewTokens, Tokens
<1>4. Searches' /\ Leaves
  BY <1>1 DEF CallsInv, Searches, Leaves
<1> QED  BY <1>1, <1>2, <1>3, <1>4 DEF CallsInv, CallsTyped

LEMMA RestartStep ==
    ASSUME CallsInv, Restart
    PROVE  CallsInv' /\ Leaves
<1>1. /\ call' = [c \in Callers |-> NoCall] /\ cache' = [q \in Queries |-> NoEntry]
      /\ until' = 0 /\ told' = 0 /\ row' = row /\ issued' = issued
  BY DEF Restart, provider
<1> QED  BY <1>1, NoCallTyped DEF CallsInv, CallsTyped, Searches, Leaves, NoCall

LEMMA StepCalls ==
    ASSUME CallsInv, [Next]_vars
    PROVE  CallsInv' /\ Leaves
<1>1. ASSUME NEW c \in Callers, Moves(c) PROVE CallsInv' /\ Leaves
  BY <1>1, SendStep, SearchStep, AnswerSteps, UnauthorizedStep, RenewalSteps DEF Moves
<1>2. ASSUME NEW c \in Callers, Fails(c) PROVE CallsInv' /\ Leaves
  BY <1>2, AnswerSteps, LimitStep DEF Fails
<1>3. CASE Tick \/ RunAction \/ UseDevices \/ PushToProviderQueue
  <2>1. Poller \in Callers /\ Host \in Callers
    BY DEF Callers
  <2>2. PICK c \in Callers, op \in Ops \ {"search"} : GetProvider(c, op, None)
    BY <1>3, <2>1 DEF Tick, RunAction, UseDevices, PushToProviderQueue, Ops
  <2> QED  BY <2>2, GetProviderStep
<1>4. ASSUME NEW c \in Guests, AskSearch(c) PROVE CallsInv' /\ Leaves
  <2>1. c \in Callers /\ "search" \in Ops
    BY DEF Callers, Ops
  <2> QED  BY <1>4, <2>1, GetProviderStep DEF AskSearch
<1> QED  BY <1>1, <1>2, <1>3, <1>4, ClockStep, OtherSteps, RestartStep DEF Next

LEMMA InitCalls == Init => CallsInv
<1> SUFFICES ASSUME Init PROVE CallsInv
  OBVIOUS
<1>1. NewTokens(1) \in Tokens
  BY DEF NewTokens, Tokens
<1>2. row \in Tokens \cup {None}
  BY <1>1 DEF Init, ProviderInit
<1>3. /\ call = [c \in Callers |-> NoCall] /\ cache = [q \in Queries |-> NoEntry]
      /\ issued = 1 /\ until = 0 /\ told = 0
  BY DEF Init, ProviderInit
<1> QED  BY <1>2, <1>3, NoCallTyped DEF CallsInv, CallsTyped, Searches, NoCall

LEMMA AlwaysCalls == Spec => []CallsInv
<1> QED  BY InitCalls, StepCalls, PTL DEF Spec

\* No request leaves before the end of the longest wait a 429 asked for,
\* whoever else was let through before and reports late.
THEOREM CallsRespectWindowsHolds == Spec => CallsRespectWindows
<1>1. CallsInv /\ [Next]_vars =>
         [\A c \in Callers : call[c].at # "waiting" /\ call'[c].at = "waiting" => told = 0]_vars
  BY StepCalls DEF Leaves
<1> QED  BY <1>1, AlwaysCalls, PTL DEF Spec, CallsRespectWindows

\* Two searches for the same thing never run together while the entry of the
\* earlier one could still be alive.
THEOREM OneSearchPerKeyHolds == Spec => []OneSearchPerKey
<1>1. CallsInv => OneSearchPerKey
  <2> SUFFICES ASSUME CallsInv, NEW q \in Queries
               PROVE  Cardinality({c \in Callers : call[c].query = q /\ call[c].fresh > 0
                                      /\ call[c].at \in {"sending", "waiting", "saving"}}) <= 1
    BY DEF OneSearchPerKey
  <2> DEFINE S == {c \in Callers : call[c].query = q /\ call[c].fresh > 0
                                      /\ call[c].at \in {"sending", "waiting", "saving"}}
  <2>1. S = {} \/ S = {cache[q].owner}
    BY DEF CallsInv, Searches, Active
  <2> HIDE DEF S
  <2>2. Cardinality(S) \in {0, 1}
    BY <2>1, FS_EmptySet, FS_Singleton
  <2> QED  BY <2>2 DEF S
<1> QED  BY <1>1, AlwaysCalls, PTL
=============================================================================
