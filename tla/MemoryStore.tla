---------------------------- MODULE MemoryStore ----------------------------
(***************************************************************************)
(* The repositories the tests run on                                       *)
(* (packages/backend/src/repositories/in-memory/index.ts): a table is a    *)
(* Map, here the sequence of its rows in the order of insertion.           *)
(* XMem(c, seq, id, now) is the table after the call c, with id for a new  *)
(* row; XMemAnswers(seq, now) has the answer of each query.                *)
(***************************************************************************)
EXTENDS Records, Sequences, SequencesExt

CONSTANT Limit   \* bound: the page size of the audit list

\* The rows at these places, in the order of a relation between the places.
InOrder(seq, places, before) ==
    LET place(n) == CHOOSE i \in places :
                        Cardinality({j \in places : <<j, i>> \in before}) = n - 1
    IN  [n \in 1..Cardinality(places) |-> seq[place(n)]]
Pairs(seq) == (DOMAIN seq) \X (DOMAIN seq)
Earlier(seq) == {p \in Pairs(seq) : p[1] < p[2]}

\* filter.
Matches(seq, Where(_)) == {i \in DOMAIN seq : Where(seq[i])}
Filter(seq, Where(_)) == InOrder(seq, Matches(seq, Where), Earlier(seq))
\* sort by a number, which keeps the order of equals.
Sorted(seq, Rank(_)) ==
    InOrder(seq, DOMAIN seq,
            {p \in Pairs(seq) : \/ Rank(seq[p[1]]) < Rank(seq[p[2]])
                                \/ Rank(seq[p[1]]) = Rank(seq[p[2]]) /\ p[1] < p[2]})

\* rows.set, with the key that Same tells; a key that exists keeps its place.
Put(seq, r, Same(_)) ==
    IF Matches(seq, Same) = {} THEN Append(seq, r)
    ELSE [i \in DOMAIN seq |-> IF Same(seq[i]) THEN r ELSE seq[i]]
\* Assignments to the fields of the rows that match.
Assign(seq, Where(_), Set(_)) ==
    [i \in DOMAIN seq |-> IF Where(seq[i]) THEN Set(seq[i]) ELSE seq[i]]
Drop(seq, Where(_)) == Filter(seq, LAMBDA r : ~Where(r))

Find(seq, Where(_)) ==
    LET found == Matches(seq, Where)
    IN  IF found = {} THEN None ELSE seq[CHOOSE i \in found : \A j \in found : i <= j]
HowMany(seq, Where(_)) == Cardinality(Matches(seq, Where))
\* Faulty variant: the row there was is forgotten.
NotKept(x, old, field) == x

\* input.x ?? existing?.x ?? null
Kept(x, old, field) == Else(x, IF old = None THEN None ELSE old[field])

-----------------------------------------------------------------------------
UsersMem(c, seq, id, now) ==
    CASE c.op = "create" ->
           Append(seq, [id |-> id, primaryEmail |-> c.primaryEmail,
                        emailVerified |-> c.emailVerified])
      [] c.op = "setEmailVerified" ->
           Assign(seq, LAMBDA r : r.id = c.id /\ ~r.emailVerified,
                  LAMBDA r : [r EXCEPT !.emailVerified = TRUE])
UsersMemAnswers(seq, now) ==
    [findById |-> [i \in Ids |-> Find(seq, LAMBDA r : r.id = i)],
     findByPrimaryEmail |-> [e \in Emails |->
        Find(seq, LAMBDA r : r.primaryEmail # None /\ Lower[r.primaryEmail] = Lower[e])]]

\* It throws when the slug is taken.
AccountsMem(c, seq, id, now) ==
    IF Find(seq, LAMBDA r : r.slug = c.slug) # None THEN seq
    ELSE Append(seq, [id |-> id, slug |-> c.slug, plan |-> Else(c.plan, "oss")])
AccountsMemAnswers(seq, now) ==
    [findById |-> [i \in Ids |-> Find(seq, LAMBDA r : r.id = i)],
     findBySlug |-> [s \in Names |-> Find(seq, LAMBDA r : r.slug = s)]]

MembershipsMem(c, seq, id, now) ==
    LET same(r) == r.accountId = c.accountId /\ r.userId = c.userId
        old == Find(seq, same)
    IN  Put(seq, [accountId |-> c.accountId, userId |-> c.userId, role |-> c.role,
                  status |-> Else(c.status, "active"),
                  createdAt |-> Else(Kept(None, old, "createdAt"), now)], same)
MembershipsMemAnswers(seq, now) ==
    [find |-> [k \in Names \X Names |->
        Find(seq, LAMBDA r : r.accountId = k[1] /\ r.userId = k[2])],
     findAllForUser |-> [u \in Names |-> Filter(seq, LAMBDA r : r.userId = u)]]

AuthIdentitiesMem(c, seq, id, now) ==
    Append(seq, [id |-> id, userId |-> c.userId, providerId |-> c.providerId,
                 providerSubject |-> c.providerSubject])
AuthIdentitiesMemAnswers(seq, now) ==
    [findByProvider |-> [k \in Names \X Names |->
        Find(seq, LAMBDA r : r.providerId = k[1] /\ r.providerSubject = k[2])]]

AuthSessionsMem(c, seq, id, now) ==
    CASE c.op = "create" ->
           Append(seq, [id |-> id, sessionHash |-> c.sessionHash,
                        currentAccountId |-> None, claimsSnapshot |-> {},
                        lastSeenAt |-> now, expiresAt |-> c.expiresAt,
                        revokedAt |-> None])
      [] c.op = "touch" -> Assign(seq, LAMBDA r : r.id = c.id,
                                  LAMBDA r : [r EXCEPT !.lastSeenAt = now])
      [] c.op = "revoke" -> Assign(seq, LAMBDA r : r.id = c.id,
                                   LAMBDA r : [r EXCEPT !.revokedAt = now])
      [] c.op = "updateClaimsSnapshot" ->
           Assign(seq, LAMBDA r : r.id = c.id,
                  LAMBDA r : [r EXCEPT !.claimsSnapshot = c.claims])
      [] c.op = "updateCurrentAccount" ->
           Assign(seq, LAMBDA r : r.id = c.id,
                  LAMBDA r : [r EXCEPT !.currentAccountId = c.accountId])
AuthSessionsMemAnswers(seq, now) ==
    [findActiveByHash |-> [h \in Names |->
        Find(seq, LAMBDA r : r.sessionHash = h /\ r.revokedAt = None
                              /\ ~(r.expiresAt <= now))]]

PasswordCredentialsMem(c, seq, id, now) ==
    LET same(r) == r.userId = c.userId
        old == Find(seq, same)
    IN  CASE c.op = "upsert" ->
               Put(seq, [userId |-> c.userId, passwordHash |-> c.passwordHash,
                         failedAttempts |-> 0, lockedUntil |-> None], same)
          [] c.op = "recordFailedAttempt" ->
               IF old = None THEN seq
               ELSE Assign(seq, same,
                           LAMBDA r : [r EXCEPT !.failedAttempts = old.failedAttempts + 1,
                                                !.lockedUntil = c.lockUntil])
          [] c.op = "resetFailedAttempts" ->
               Assign(seq, same,
                      LAMBDA r : [r EXCEPT !.failedAttempts = 0, !.lockedUntil = None])
PasswordCredentialsMemAnswers(seq, now) ==
    [findByUser |-> [u \in Names |-> Find(seq, LAMBDA r : r.userId = u)]]

EmailVerificationTokensMem(c, seq, id, now) ==
    CASE c.op = "create" ->
           Put(seq, [tokenHash |-> c.tokenHash, userId |-> c.userId,
                     expiresAt |-> c.expiresAt, consumedAt |-> None],
               LAMBDA r : r.tokenHash = c.tokenHash)
      [] c.op = "consume" ->
           Assign(seq, LAMBDA r : r.tokenHash = c.tokenHash,
                  LAMBDA r : [r EXCEPT !.consumedAt = now])
      [] c.op = "pruneExpired" ->
           Drop(seq, LAMBDA r : r.expiresAt <= now \/ r.consumedAt # None)
EmailVerificationTokensMemAnswers(seq, now) ==
    [findActiveByHash |-> [h \in Names |->
        Find(seq, LAMBDA r : r.tokenHash = h /\ r.consumedAt = None
                              /\ ~(r.expiresAt <= now))]]

\* A class of its own, with the same statements.
PasswordResetTokensMem(c, seq, id, now) == EmailVerificationTokensMem(c, seq, id, now)
PasswordResetTokensMemAnswers(seq, now) == EmailVerificationTokensMemAnswers(seq, now)

OAuthStatesMem(c, seq, id, now) ==
    CASE c.op = "create" ->
           Put(seq, [state |-> c.state, flowKind |-> c.flowKind,
                     expiresAt |-> c.expiresAt], LAMBDA r : r.state = c.state)
      [] c.op = "delete" -> Drop(seq, LAMBDA r : r.state = c.state)
      [] c.op = "pruneExpired" -> Drop(seq, LAMBDA r : r.expiresAt <= now)
OAuthStatesMemAnswers(seq, now) ==
    [findActive |-> [s \in Names |->
        Find(seq, LAMBDA r : r.state = s /\ ~(r.expiresAt <= now))]]

\* What the call leaves out keeps the value of the row there was.
ProviderConnectionsMem(c, seq, id, now) ==
    CASE c.op = "upsert" ->
           LET same(r) == r.accountId = c.accountId /\ r.providerId = c.providerId
               old == Find(seq, same)
           IN  Put(seq, [id |-> Else(Kept(None, old, "id"), id),
                         accountId |-> c.accountId, providerId |-> c.providerId,
                         providerAccountId |->
                            Kept(c.providerAccountId, old, "providerAccountId"),
                         accessToken |-> id,
                         refreshToken |-> IF c.refresh THEN id
                                          ELSE Kept(None, old, "refreshToken")],
                   same)
      [] c.op = "updateTokens" ->
           Assign(seq, LAMBDA r : r.id = c.id,
                  LAMBDA r : [r EXCEPT !.accessToken = id,
                                       !.refreshToken = IF c.refresh THEN id ELSE @])
      [] c.op = "delete" -> Drop(seq, LAMBDA r : r.id = c.id)
ProviderConnectionsMemAnswers(seq, now) ==
    [findByAccountAndProvider |-> [k \in Names \X Names |->
        Find(seq, LAMBDA r : r.accountId = k[1] /\ r.providerId = k[2])],
     findAllForAccount |-> [a \in Names |-> Filter(seq, LAMBDA r : r.accountId = a)]]

SessionsMem(c, seq, id, now) ==
    CASE c.op = "create" ->
           Append(seq, [id |-> id, accountId |-> c.accountId, qrSlug |-> c.qrSlug,
                        songsPerGuestCap |-> Else(c.songsPerGuestCap, 3),
                        startedAt |-> now, endedAt |-> None])
      [] c.op = "update" ->
           Assign(seq, LAMBDA r : r.id = c.id /\ c.songsPerGuestCap # None,
                  LAMBDA r : [r EXCEPT !.songsPerGuestCap = c.songsPerGuestCap])
      [] c.op = "end" ->
           Assign(seq, LAMBDA r : r.id = c.id /\ r.endedAt = None,
                  LAMBDA r : [r EXCEPT !.endedAt = now])
      [] c.op = "reopen" -> Assign(seq, LAMBDA r : r.id = c.id,
                                   LAMBDA r : [r EXCEPT !.endedAt = None])
\* Faulty variant: the latest session, ended or not.
BySlugLatest(seq, q) ==
    Find(Filter(seq, LAMBDA r : r.qrSlug = q),
         LAMBDA r : \A s \in Range(seq) : s.qrSlug = q => s.startedAt <= r.startedAt)

\* The first active session, else the first of those that started last.
BySlug(seq, q) ==
    LET named == Filter(seq, LAMBDA r : r.qrSlug = q)
        active == Filter(named, LAMBDA r : r.endedAt = None)
    IN  IF active # <<>> THEN active[1]
        ELSE Find(named, LAMBDA r : \A s \in Range(named) : s.startedAt <= r.startedAt)
SessionsMemAnswers(seq, now) ==
    [findById |-> [i \in Ids |-> Find(seq, LAMBDA r : r.id = i)],
     findByQrSlug |-> [q \in Names |-> BySlug(seq, q)],
     findByAccount |-> [a \in Names |-> Filter(seq, LAMBDA r : r.accountId = a)]]

GuestsMem(c, seq, id, now) ==
    CASE c.op = "create" ->
           Append(seq, [id |-> id, sessionId |-> c.sessionId,
                        fingerprint |-> c.fingerprint, userId |-> None])
      [] c.op = "linkUser" -> Assign(seq, LAMBDA r : r.id = c.id,
                                     LAMBDA r : [r EXCEPT !.userId = c.userId])
GuestsMemAnswers(seq, now) ==
    [findBySessionAndFingerprint |-> [k \in Names \X Names |->
        Find(seq, LAMBDA r : r.sessionId = k[1] /\ r.fingerprint = k[2])]]

GuestSlotsMem(c, seq, id, now) ==
    CASE c.op = "create" ->
           Append(seq, [id |-> id, sessionId |-> c.sessionId,
                        fingerprintHash |-> c.fingerprintHash, slotToken |-> id,
                        status |-> c.status, queuePosition |-> None,
                        lastHeartbeat |-> now, createdAt |-> now])
      [] c.op = "touchHeartbeat" ->
           Assign(seq, LAMBDA r : r.id = c.id,
                  LAMBDA r : [r EXCEPT !.lastHeartbeat = now])
      [] c.op = "setStatus" ->
           Assign(seq, LAMBDA r : r.id = c.id,
                  LAMBDA r : [r EXCEPT !.status = c.status,
                                       !.queuePosition = Else(c.queuePosition, @)])
      [] c.op = "delete" -> Drop(seq, LAMBDA r : r.id = c.id)
GuestSlotsMemAnswers(seq, now) ==
    [findBySessionAndFingerprint |-> [k \in Names \X Names |->
        Find(seq, LAMBDA r : r.sessionId = k[1] /\ r.fingerprintHash = k[2])],
     findBySlotToken |-> [t \in Ids |-> Find(seq, LAMBDA r : r.slotToken = t)],
     countByStatus |-> [k \in Names \X GuestSlotStatus |->
        HowMany(seq, LAMBDA r : r.sessionId = k[1] /\ r.status = k[2])],
     findActiveStaleSince |-> [k \in Names \X Times |->
        Filter(seq, LAMBDA r : r.sessionId = k[1] /\ r.status = "active"
                                   /\ r.lastHeartbeat <= k[2])],
     findFirstQueued |-> [n \in Names |->
        LET queued == Filter(seq, LAMBDA r : r.sessionId = n /\ r.status = "queued")
        IN  Find(queued, LAMBDA r : \A s \in Range(queued) : r.createdAt <= s.createdAt)]]

FingerprintPriorityMem(c, seq, id, now) ==
    LET same(r) == r.sessionId = c.sessionId /\ r.fingerprintHash = c.fingerprintHash
    IN  CASE c.op = "upsert" ->
               Put(seq, [sessionId |-> c.sessionId, fingerprintHash |-> c.fingerprintHash,
                         releasedAt |-> now, expiresAt |-> c.expiresAt], same)
          [] c.op = "delete" -> Drop(seq, same)
FingerprintPriorityMemAnswers(seq, now) ==
    [find |-> [k \in Names \X Names |->
        Find(seq, LAMBDA r : r.sessionId = k[1] /\ r.fingerprintHash = k[2]
                              /\ ~(r.expiresAt <= now))]]

QueueItemsMem(c, seq, id, now) ==
    CASE c.op = "create" ->
           Append(seq, [id |-> id, sessionId |-> c.sessionId,
                        status |-> Else(c.status, "pending"), skipVotes |-> 0,
                        createdAt |-> now, decidedAt |-> None])
      [] c.op = "setStatus" ->
           Assign(seq, LAMBDA r : r.id = c.id,
                  LAMBDA r : [r EXCEPT !.status = c.status,
                                       !.decidedAt = Else(c.decidedAt, @)])
      [] c.op = "delete" -> Drop(seq, LAMBDA r : r.id = c.id)
      [] c.op = "incrementSkipVotes" ->
           [i \in DOMAIN seq |-> IF seq[i].id = c.id
                                 THEN [seq[i] EXCEPT !.skipVotes = @ + 1] ELSE seq[i]]
QueueItemsMemAnswers(seq, now) ==
    [findById |-> [i \in Ids |-> Find(seq, LAMBDA r : r.id = i)],
     findAllForSession |-> [n \in Names |->
        Sorted(Filter(seq, LAMBDA r : r.sessionId = n),
                LAMBDA r : r.createdAt)]]

\* The ledger, and the counter of the item in the table that it shares.
QueueSkipVotesMem(c, seq, items, id, now) ==
    IF Find(seq, LAMBDA r : r.queueItemId = c.queueItemId /\ r.guestId = c.guestId) # None
    THEN [votes |-> seq, items |-> items]
    ELSE [votes |-> Append(seq, [queueItemId |-> c.queueItemId, guestId |-> c.guestId]),
          items |-> QueueItemsMem([op |-> "incrementSkipVotes", id |-> c.queueItemId],
                                  items, id, now)]
QueueSkipVotesMemAnswers(seq, now) ==
    [hasVoted |-> [k \in Ids \X Names |->
        Find(seq, LAMBDA r : r.queueItemId = k[1] /\ r.guestId = k[2]) # None]]

\* It throws when the guest has claimed the item.
KaraokeClaimsMem(c, seq, id, now) ==
    CASE c.op = "create" ->
           IF Find(seq, LAMBDA r : r.queueItemId = c.queueItemId /\ r.guestId = c.guestId)
              # None
           THEN seq
           ELSE Append(seq, [id |-> id, sessionId |-> c.sessionId,
                             queueItemId |-> c.queueItemId, guestId |-> c.guestId,
                             createdAt |-> now])
      [] c.op = "delete" -> Drop(seq, LAMBDA r : r.id = c.id)
KaraokeClaimsMemAnswers(seq, now) ==
    LET sorted(q) == Sorted(q, LAMBDA r : r.createdAt)
    IN  [findAllForItem |-> [i \in Ids |->
            sorted(Filter(seq, LAMBDA r : r.queueItemId = i))],
         findAllForSession |-> [n \in Names |->
            sorted(Filter(seq, LAMBDA r : r.sessionId = n))],
         findByItemAndGuest |-> [k \in Ids \X Names |->
            Find(seq, LAMBDA r : r.queueItemId = k[1] /\ r.guestId = k[2])]]

SessionAuditEventsMem(c, seq, id, now) ==
    Append(seq, [id |-> id, sessionId |-> c.sessionId, createdAt |-> now])
SessionAuditEventsMemAnswers(seq, now) ==
    [listForSession |-> [k \in Names \X Opt(Times) |->
        LET page == Filter(seq, LAMBDA r : r.sessionId = k[1]
                                   /\ (k[2] # None => r.createdAt < k[2]))
            latest == Sorted(page, LAMBDA r : -r.createdAt)
        IN  SubSeq(latest, 1, IF Len(latest) < Limit THEN Len(latest) ELSE Limit)]]

LyricsCacheMem(c, seq, id, now) ==
    CASE c.op = "upsert" ->
           LET same(r) == r.source = c.source /\ r.lookupKeyHash = c.lookupKeyHash
               old == Find(seq, same)
           IN  Put(seq, [id |-> Else(Kept(None, old, "id"), id), source |-> c.source,
                         lookupKeyHash |-> c.lookupKeyHash,
                         isSynced |-> c.syncedLrc # None,
                         syncedLrc |-> Kept(c.syncedLrc, old, "syncedLrc"),
                         createdAt |-> Else(Kept(None, old, "createdAt"), now),
                         lastUsedAt |-> Kept(None, old, "lastUsedAt"),
                         suppressedAt |-> Kept(None, old, "suppressedAt")], same)
      [] c.op = "recordHit" -> Assign(seq, LAMBDA r : r.id = c.id,
                                      LAMBDA r : [r EXCEPT !.lastUsedAt = now])
      [] c.op = "suppress" -> Assign(seq, LAMBDA r : r.id = c.id,
                                     LAMBDA r : [r EXCEPT !.suppressedAt = now])
LyricsCacheMemAnswers(seq, now) ==
    [findBySourceAndKey |-> [k \in Names \X Names |->
        Find(seq, LAMBDA r : r.source = k[1] /\ r.lookupKeyHash = k[2])]]

LyricsFeedbackMem(c, seq, id, now) ==
    Append(seq, [id |-> id, lyricsCacheId |-> c.lyricsCacheId, kind |-> c.kind])
LyricsFeedbackMemAnswers(seq, now) ==
    [countForCacheEntry |-> [k \in Names \X Opt(Names) |->
        HowMany(seq, LAMBDA r : r.lyricsCacheId = k[1] /\ (k[2] # None => r.kind = k[2]))]]

AbuseSubjectsMem(c, seq, id, now) ==
    LET same(r) == r.subjectHash = c.subjectHash
        old == Find(seq, same)
    IN  CASE c.op = "upsert" ->
               Put(seq, [subjectHash |-> c.subjectHash,
                         sessionId |-> Kept(c.sessionId, old, "sessionId"),
                         riskScore |-> Else(Kept(c.riskScore, old, "riskScore"), "0.00"),
                         status |-> c.status,
                         firstSeenAt |-> Else(Kept(None, old, "firstSeenAt"), now),
                         lastSeenAt |-> now,
                         expiresAt |-> Kept(c.expiresAt, old, "expiresAt")], same)
          [] c.op = "delete" -> Drop(seq, same)
\* An empty list of statuses lets no row through.
AbuseSubjectsMemAnswers(seq, now) ==
    [findByHash |-> [h \in Names |-> Find(seq, LAMBDA r : r.subjectHash = h)],
     findActiveForSession |-> [k \in Names \X Opt(SUBSET AbuseSubjectStatus) |->
        Filter(seq, LAMBDA r : r.sessionId = k[1]
                        /\ (k[2] # None => r.status \in k[2])
                        /\ ~(r.expiresAt # None /\ r.expiresAt <= now))]]

ActionEventsMem(c, seq, id, now) ==
    Append(seq, [id |-> id, sessionId |-> c.sessionId, eventKind |-> c.eventKind,
                 createdAt |-> now])
ActionEventsMemAnswers(seq, now) ==
    [countByKindSince |-> [k \in Names \X Times |->
        [kind \in Names |-> HowMany(seq, LAMBDA r :
            r.sessionId = k[1] /\ r.eventKind = kind /\ r.createdAt >= k[2])]]]
=============================================================================
