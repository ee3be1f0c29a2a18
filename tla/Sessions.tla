------------------------------ MODULE Sessions ------------------------------
(***************************************************************************)
(* A host's sessions under one QR slug, and the guests who join them:      *)
(*   packages/backend/src/session/SessionService.ts                        *)
(*   packages/backend/src/guest/GuestIdentityService.ts                    *)
(*   packages/backend/src/routes/session.ts, guest.ts                      *)
(*   packages/backend/src/repositories/drizzle (sessions, slots, guests).  *)
(*                                                                         *)
(* A handler reads, awaits, and writes; other handlers run at every await. *)
(* One action is the code between two awaits. The database is the real     *)
(* one, with its unique indexes. Heartbeats are left out: nothing reads    *)
(* last_heartbeat. So is the priority branch of issueIdentity: no code     *)
(* writes fingerprint_priority rows.                                       *)
(***************************************************************************)
EXTENDS Naturals, Sequences, FiniteSetsExt

CONSTANTS
    Ids,         \* session ids, in the order in which they are created
    Tabs,        \* browser tabs that join
    BrowserOf,   \* tab -> browser, whose fingerprint it sends
    HostTabs,
    PlanCap,     \* the guest cap of the account's plan
    Overrides,   \* values of guestCapOverride the host may set
    LastDay,     \* bound: the days, counted from 1
    Scenarios,   \* the bounds: how often each kind of event may happen; and
                 \* whether the host has connected the provider
    None

ASSUME SessionsAssumption ==
    /\ IsFiniteSet(Ids) /\ Ids \subseteq Nat /\ 1 \in Ids
    /\ IsFiniteSet(Tabs)
    /\ PlanCap \in Nat /\ Overrides \subseteq Nat \ {0} /\ None \notin Nat
    /\ LastDay \in Nat \ {0}

VARIABLES
    session,   \* id -> row of sessions
    slots,     \* rows of guest_slots, in the order of creation
    guests,    \* rows of guests, as <<session, stored hash>>
    day,
    join,      \* tab -> its POST /identity
    edit,      \* host tab -> its POST or PATCH on a session
    topCap,    \* history: the largest cap each session has had
    crowd,     \* history: the most joins that at one time had each counted
               \* a free slot and not taken it yet
    left       \* what is left of the scenario

rows == <<session, slots, guests>>
svars == <<rows, day, join, edit, topCap, crowd>>

-----------------------------------------------------------------------------
Spend(cause) == left[cause] > 0 /\ left' = [left EXCEPT ![cause] = @ - 1]

OpenIds == {s \in Ids : session[s].state = "open"}
UnusedIds == {s \in Ids : session[s].state = "none"}

\* An open session wins, else the one that started last.
FindByQrSlug ==
    LET known == Ids \ UnusedIds IN
    IF OpenIds # {} THEN CHOOSE s \in OpenIds : TRUE
    ELSE IF known # {} THEN Max(known) ELSE None

EffectiveGuestCap(row) == IF row.override # None THEN row.override ELSE PlanCap

NoJoin == [at |-> "idle", id |-> None, hash |-> None, cap |-> 0, status |-> "active", position |-> None]
NoEdit == [at |-> "idle", id |-> None, override |-> None]

\* The host has created the first session.
SessionsInit ==
    /\ session = [s \in Ids |-> [state |-> IF s = 1 THEN "open" ELSE "none", override |-> None]]
    /\ slots = <<>> /\ guests = {} /\ day = 1
    /\ join = [t \in Tabs |-> NoJoin] /\ edit = [h \in HostTabs |-> NoEdit]
    /\ topCap = [s \in Ids |-> PlanCap] /\ crowd = [s \in Ids |-> 0]

-----------------------------------------------------------------------------
\* Guests.

SlotsOf(s) == {i \in DOMAIN slots : slots[i].id = s}
CountByStatus(s, status) == Cardinality({i \in SlotsOf(s) : slots[i].status = status})
SlotFor(s, hash) == {i \in SlotsOf(s) : slots[i].hash = hash}

\* The joins about to take the slot of s they counted as free.
Admitted(s) == {t \in Tabs : join[t].at = "create" /\ join[t].id = s /\ join[t].status = "active"}

\* The salted hash is that of the browser and the day.
StartJoin(t) ==
    /\ join[t].at = "idle" /\ Spend("join")
    /\ LET s == FindByQrSlug IN
       join' = IF s = None \/ session[s].state = "ended" THEN join
               ELSE [join EXCEPT ![t] = [NoJoin EXCEPT !.at = "lookup", !.id = s,
                                           !.hash = <<BrowserOf[t], day>>,
                                           !.cap = EffectiveGuestCap(session[s])]]
    /\ UNCHANGED <<rows, day, edit, topCap, crowd>>

FindSlot(t) ==
    /\ join[t].at = "lookup"
    /\ join' = [join EXCEPT ![t].at =
                   IF SlotFor(join[t].id, join[t].hash) # {} THEN "guest" ELSE "count"]
    /\ UNCHANGED <<rows, day, edit, topCap, crowd, left>>

\* Faulty variant: the count may reach the cap.
HasRoomAtCap(s, cap) == CountByStatus(s, "active") <= cap

HasRoom(s, cap) == CountByStatus(s, "active") < cap

CountActive(t) ==
    LET s == join[t].id
        room == HasRoom(s, join[t].cap) IN
    /\ join[t].at = "count"
    /\ join' = [join EXCEPT ![t].at = IF room THEN "create" ELSE "line",
                            ![t].status = IF room THEN "active" ELSE "queued"]
    /\ crowd' = [crowd EXCEPT ![s] = Max({@, Cardinality(Admitted(s)')})]
    /\ UNCHANGED <<rows, day, edit, topCap, left>>

TakePosition(t) ==
    /\ join[t].at = "line"
    /\ join' = [join EXCEPT ![t].at = "create",
                            ![t].position = CountByStatus(join[t].id, "queued") + 1]
    /\ UNCHANGED <<rows, day, edit, topCap, crowd, left>>

\* The second row of a browser is refused by the unique index: an error.
CreateSlot(t) ==
    LET j == join[t]
        taken == SlotFor(j.id, j.hash) # {} IN
    /\ j.at = "create"
    /\ slots' = IF taken THEN slots
                ELSE Append(slots, [id |-> j.id, hash |-> j.hash, status |-> j.status,
                                    position |-> j.position])
    /\ join' = [join EXCEPT ![t] = IF taken THEN NoJoin ELSE [@ EXCEPT !.at = "guest"]]
    /\ UNCHANGED <<session, guests, day, edit, topCap, crowd, left>>

FindGuest(t) ==
    /\ join[t].at = "guest"
    /\ join' = [join EXCEPT ![t] = IF <<join[t].id, join[t].hash>> \in guests THEN NoJoin
                                   ELSE [@ EXCEPT !.at = "newguest"]]
    /\ UNCHANGED <<rows, day, edit, topCap, crowd, left>>

\* A second insert is refused, and changes nothing.
CreateGuest(t) ==
    /\ join[t].at = "newguest"
    /\ guests' = guests \cup {<<join[t].id, join[t].hash>>}
    /\ join' = [join EXCEPT ![t] = NoJoin]
    /\ UNCHANGED <<session, slots, day, edit, topCap, crowd, left>>

-----------------------------------------------------------------------------
\* The host.

Begin(h, e) == edit' = [edit EXCEPT ![h] = e]

\* sessions_qr_slug_active_unique
SlugIsFree(s) == OpenIds \ {s} = {}

Create(h) ==
    /\ edit[h].at = "idle" /\ Spend("edit")
    /\ IF OpenIds = {} THEN Begin(h, [NoEdit EXCEPT !.at = "insert"]) ELSE UNCHANGED edit
    /\ UNCHANGED <<rows, day, join, topCap, crowd>>

InsertSession(h) ==
    /\ edit[h].at = "insert"
    /\ session' = IF UnusedIds # {} /\ SlugIsFree(Min(UnusedIds))
                  THEN [session EXCEPT ![Min(UnusedIds)].state = "open"] ELSE session
    /\ Begin(h, NoEdit)
    /\ UNCHANGED <<slots, guests, day, join, topCap, crowd, left>>

End(s) ==
    /\ session[s].state # "none" /\ Spend("edit")
    /\ session' = [session EXCEPT ![s].state = "ended"]
    /\ UNCHANGED <<slots, guests, day, join, edit, topCap, crowd>>

Reopen(h, s) ==
    /\ edit[h].at = "idle" /\ session[s].state # "none" /\ Spend("edit")
    /\ IF session[s].state = "ended" /\ SlugIsFree(s)
       THEN Begin(h, [NoEdit EXCEPT !.at = "reopen", !.id = s]) ELSE UNCHANGED edit
    /\ UNCHANGED <<rows, day, join, topCap, crowd>>

ReopenSession(h) ==
    LET s == edit[h].id IN
    /\ edit[h].at = "reopen"
    /\ session' = IF SlugIsFree(s) THEN [session EXCEPT ![s].state = "open"] ELSE session
    /\ Begin(h, NoEdit)
    /\ UNCHANGED <<slots, guests, day, join, topCap, crowd, left>>

Update(h, s, cap) ==
    /\ edit[h].at = "idle" /\ session[s].state # "none" /\ Spend("edit")
    /\ IF session[s].state = "open"
       THEN Begin(h, [at |-> "update", id |-> s, override |-> cap]) ELSE UNCHANGED edit
    /\ UNCHANGED <<rows, day, join, topCap, crowd>>

\* The row is written even if the session has ended since the check.
UpdateSession(h) ==
    LET s == edit[h].id IN
    /\ edit[h].at = "update"
    /\ session' = [session EXCEPT ![s].override = edit[h].override]
    /\ topCap' = [topCap EXCEPT ![s] = Max({@, EffectiveGuestCap(session'[s])})]
    /\ Begin(h, NoEdit)
    /\ UNCHANGED <<slots, guests, day, join, crowd, left>>

-----------------------------------------------------------------------------
NextDay ==
    /\ day < LastDay /\ day' = day + 1
    /\ UNCHANGED <<rows, join, edit, topCap, crowd, left>>

\* The server restarts: what it was doing is lost.
ForgetRequests ==
    /\ join' = [t \in Tabs |-> NoJoin] /\ edit' = [h \in HostTabs |-> NoEdit]
    /\ UNCHANGED <<rows, day, topCap, crowd>>

Join(t) ==
    \/ StartJoin(t) \/ FindSlot(t) \/ CountActive(t) \/ TakePosition(t)
    \/ CreateSlot(t) \/ FindGuest(t) \/ CreateGuest(t)

Edit(h) ==
    \/ Create(h) \/ InsertSession(h) \/ ReopenSession(h) \/ UpdateSession(h)
    \/ \E s \in Ids : Reopen(h, s) \/ \E cap \in Overrides \cup {None} : Update(h, s, cap)

SessionsNext ==
    \/ \E t \in Tabs : Join(t)
    \/ \E h \in HostTabs : Edit(h)
    \/ \E s \in Ids : End(s)
    \/ NextDay

-----------------------------------------------------------------------------
\* The cap is checked and the slot taken in two steps, so joins that run
\* together may pass it, but only by as many as were between the two at one
\* time beside the last: joins one after another never do
\* (GuestIdentityService.ts:166-175), whoever changes the cap, reopens the
\* session or restarts the server meanwhile.
OvershootIsTheOverlap ==
    \A s \in Ids :
        CountByStatus(s, "active") <= topCap[s] + (IF crowd[s] = 0 THEN 0 ELSE crowd[s] - 1)
=============================================================================
