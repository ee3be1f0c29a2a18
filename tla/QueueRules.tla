---------------------------- MODULE QueueRules ----------------------------
(***************************************************************************)
(* The pure rules of packages/core/src/queue: who may add a song, when a   *)
(* song has been voted out, who may hold a mic.                            *)
(*                                                                         *)
(* `items' is a function from item ids to rows [guest, track, status, ...].*)
(* Ids are numbers handed out in request order, so `id' also stands for    *)
(* the (createdAt, id) order the code sorts by.                            *)
(***************************************************************************)
EXTENDS Integers, FiniteSets

ItemStatus == {"pending", "approved", "queued", "playing", "played", "rejected"}

\* Statuses that occupy one of the guest's slots.
ActiveStatuses == {"pending", "approved", "queued", "playing"}

\* The waiting list: active, and not on the speakers yet.
WaitingStatuses == {"pending", "approved", "queued"}

\* The `null' of maxConsecutivePerGuest: no limit.
NoLimit == -1

-----------------------------------------------------------------------------
ActiveItems(items) == {i \in DOMAIN items : items[i].status \in ActiveStatuses}

WaitingItems(items) == {i \in DOMAIN items : items[i].status \in WaitingStatuses}

CountActiveItemsForGuest(items, g) ==
    Cardinality({i \in ActiveItems(items) : items[i].guest = g})

\* Faulty variant: the cap is one too high.
EnforcePerGuestCapLate(items, g, cap) ==
    cap <= 0 \/ CountActiveItemsForGuest(items, g) > cap

\* TRUE when the cap refuses one more item of g.
EnforcePerGuestCap(items, g, cap) ==
    cap <= 0 \/ CountActiveItemsForGuest(items, g) >= cap

\* Faulty variant: counts one waiting item too many before it looks.
EnforceConsecutiveCapLate(items, g, cap) ==
    LET waiting == WaitingItems(items)
        behind(i) == Cardinality({j \in waiting : j > i})
    IN  /\ cap # NoLimit
        /\ Cardinality(waiting) > cap
        /\ \A i \in waiting : behind(i) < cap => items[i].guest = g

\* TRUE when the last `cap' waiting items exist and all belong to g.
EnforceConsecutiveCap(items, g, cap) ==
    LET waiting == WaitingItems(items)
        behind(i) == Cardinality({j \in waiting : j > i})
    IN  /\ cap # NoLimit
        /\ Cardinality(waiting) >= cap
        /\ \A i \in waiting : behind(i) < cap => items[i].guest = g

\* Faulty variant: looks at the items nobody has decided only.
IsDuplicatePending(items, t) ==
    \E i \in DOMAIN items : items[i].status = "pending" /\ items[i].track = t

IsDuplicate(items, t) == \E i \in ActiveItems(items) : items[i].track = t

\* Faulty variant: an ended session still takes requests.
CanEnqueueEnded(settings, ended, items, g, t) ==
    /\ ~EnforcePerGuestCap(items, g, settings.songsPerGuestCap)
    /\ ~EnforceConsecutiveCap(items, g, settings.maxConsecutivePerGuest)
    /\ settings.allowDuplicates \/ ~IsDuplicate(items, t)

\* The guest always belongs to the session here: the row is looked up by
\* (session, fingerprint), so guest_session_mismatch cannot be answered.
CanEnqueue(settings, ended, items, g, t) ==
    /\ ~ended
    /\ ~EnforcePerGuestCap(items, g, settings.songsPerGuestCap)
    /\ ~EnforceConsecutiveCap(items, g, settings.maxConsecutivePerGuest)
    /\ settings.allowDuplicates \/ ~IsDuplicate(items, t)

\* `claims' is a set of <<item, guest>> pairs.
CanClaimMic(settings, items, claims, i, g) ==
    /\ settings.karaokeMode # "off"
    /\ items[i].status \in ActiveStatuses
    /\ <<i, g>> \notin claims
    /\ Cardinality({c \in claims : c[1] = i}) < settings.karaokeMicCount

CanRemoveClaim(items, i, owner, g) ==
    owner = g /\ items[i].status \in WaitingStatuses
=============================================================================
