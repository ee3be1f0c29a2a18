--------------------------- MODULE PostgresStore ---------------------------
(***************************************************************************)
(* The repositories the server runs on                                     *)
(* (packages/backend/src/repositories/drizzle): a table is a set of rows,  *)
(* a call one SQL statement.  XDb(c, rows, id, now) is the table after the *)
(* call c, with id for a new row; XDbAnswers(rows, now) has, for each      *)
(* query and each of its arguments, the set of the answers that the        *)
(* database may give: without ORDER BY, and among equals, any order.       *)
(***************************************************************************)
EXTENDS Records, Sequences, SequencesExt

CONSTANT Limit   \* bound: the page size of the audit list

\* INSERT: refused, with an error, when a key is taken.
Refused(rows, r, Keys(_)) == \E s \in rows : Keys(s) \cap Keys(r) # {}
Insert(rows, r, Keys(_)) == IF Refused(rows, r, Keys) THEN rows ELSE rows \cup {r}
\* ON CONFLICT (one key) DO UPDATE.
Upsert(rows, r, Same(_), Set(_)) ==
    IF \E s \in rows : Same(s)
    THEN {IF Same(s) THEN Set(s) ELSE s : s \in rows}
    ELSE rows \cup {r}
Update(rows, Where(_), Set(_)) == {IF Where(s) THEN Set(s) ELSE s : s \in rows}
Delete(rows, Where(_)) == {s \in rows : ~Where(s)}

One(rows) == IF rows = {} THEN {None} ELSE rows
AnyOrder(rows) == SetToSeqs(rows)
Ascending(rows, Time(_)) ==
    {q \in SetToSeqs(rows) :
        \A i, j \in DOMAIN q : i < j => Time(q[i]) <= Time(q[j])}

-----------------------------------------------------------------------------
UsersDb(c, rows, id, now) ==
    CASE c.op = "create" ->
           Insert(rows, [id |-> id, primaryEmail |-> c.primaryEmail,
                         emailVerified |-> c.emailVerified], usersKeys)
      [] c.op = "setEmailVerified" ->
           Update(rows, LAMBDA r : r.id = c.id,
                  LAMBDA r : [r EXCEPT !.emailVerified = TRUE])
UsersDbAnswers(rows, now) ==
    [findById |-> [i \in Ids |-> One({r \in rows : r.id = i})],
     findByPrimaryEmail |-> [e \in Emails |->
        One({r \in rows : r.primaryEmail # None /\ Lower[r.primaryEmail] = Lower[e]})]]

AccountsDb(c, rows, id, now) ==
    Insert(rows, [id |-> id, slug |-> c.slug, plan |-> Else(c.plan, "oss")], accountsKeys)
AccountsDbAnswers(rows, now) ==
    [findById |-> [i \in Ids |-> One({r \in rows : r.id = i})],
     findBySlug |-> [s \in Names |-> One({r \in rows : r.slug = s})]]

MembershipsDb(c, rows, id, now) ==
    LET status == Else(c.status, "active")
    IN  Upsert(rows, [accountId |-> c.accountId, userId |-> c.userId, role |-> c.role,
                      status |-> status, createdAt |-> now],
               LAMBDA r : r.accountId = c.accountId /\ r.userId = c.userId,
               LAMBDA r : [r EXCEPT !.role = c.role, !.status = status])
MembershipsDbAnswers(rows, now) ==
    [find |-> [k \in Names \X Names |->
        One({r \in rows : r.accountId = k[1] /\ r.userId = k[2]})],
     findAllForUser |-> [u \in Names |-> AnyOrder({r \in rows : r.userId = u})]]

AuthIdentitiesDb(c, rows, id, now) ==
    Insert(rows, [id |-> id, userId |-> c.userId, providerId |-> c.providerId,
                  providerSubject |-> c.providerSubject], authIdentitiesKeys)
AuthIdentitiesDbAnswers(rows, now) ==
    [findByProvider |-> [k \in Names \X Names |->
        One({r \in rows : r.providerId = k[1] /\ r.providerSubject = k[2]})]]

AuthSessionsDb(c, rows, id, now) ==
    CASE c.op = "create" ->
           Insert(rows, [id |-> id, sessionHash |-> c.sessionHash,
                         currentAccountId |-> None, claimsSnapshot |-> {},
                         lastSeenAt |-> now, expiresAt |-> c.expiresAt,
                         revokedAt |-> None], authSessionsKeys)
      [] c.op = "touch" -> Update(rows, LAMBDA r : r.id = c.id,
                                  LAMBDA r : [r EXCEPT !.lastSeenAt = now])
      [] c.op = "revoke" -> Update(rows, LAMBDA r : r.id = c.id,
                                   LAMBDA r : [r EXCEPT !.revokedAt = now])
      [] c.op = "updateClaimsSnapshot" ->
           Update(rows, LAMBDA r : r.id = c.id,
                  LAMBDA r : [r EXCEPT !.claimsSnapshot = c.claims])
      [] c.op = "updateCurrentAccount" ->
           Update(rows, LAMBDA r : r.id = c.id,
                  LAMBDA r : [r EXCEPT !.currentAccountId = c.accountId])
AuthSessionsDbAnswers(rows, now) ==
    [findActiveByHash |-> [h \in Names |->
        One({r \in rows : r.sessionHash = h /\ r.revokedAt = None /\ r.expiresAt > now})]]

PasswordCredentialsDb(c, rows, id, now) ==
    CASE c.op = "upsert" ->
           Upsert(rows, [userId |-> c.userId, passwordHash |-> c.passwordHash,
                         failedAttempts |-> 0, lockedUntil |-> None],
                  LAMBDA r : r.userId = c.userId,
                  LAMBDA r : [r EXCEPT !.passwordHash = c.passwordHash,
                                       !.failedAttempts = 0, !.lockedUntil = None])
      [] c.op = "recordFailedAttempt" ->
           {IF r.userId = c.userId
            THEN [r EXCEPT !.failedAttempts = @ + 1, !.lockedUntil = c.lockUntil]
            ELSE r : r \in rows}
      [] c.op = "resetFailedAttempts" ->
           Update(rows, LAMBDA r : r.userId = c.userId,
                  LAMBDA r : [r EXCEPT !.failedAttempts = 0, !.lockedUntil = None])
PasswordCredentialsDbAnswers(rows, now) ==
    [findByUser |-> [u \in Names |-> One({r \in rows : r.userId = u})]]

EmailVerificationTokensDb(c, rows, id, now) ==
    CASE c.op = "create" ->
           Insert(rows, [tokenHash |-> c.tokenHash, userId |-> c.userId,
                         expiresAt |-> c.expiresAt, consumedAt |-> None],
                  emailVerificationTokensKeys)
      [] c.op = "consume" ->
           Update(rows, LAMBDA r : r.tokenHash = c.tokenHash,
                  LAMBDA r : [r EXCEPT !.consumedAt = now])
      [] c.op = "pruneExpired" ->
           Delete(rows, LAMBDA r : r.expiresAt <= now \/ r.consumedAt # None)
EmailVerificationTokensDbAnswers(rows, now) ==
    [findActiveByHash |-> [h \in Names |->
        One({r \in rows : r.tokenHash = h /\ r.consumedAt = None /\ r.expiresAt > now})]]

\* A table and a file of its own, with the same statements.
PasswordResetTokensDb(c, rows, id, now) ==
    EmailVerificationTokensDb(c, rows, id, now)
PasswordResetTokensDbAnswers(rows, now) ==
    EmailVerificationTokensDbAnswers(rows, now)

OAuthStatesDb(c, rows, id, now) ==
    CASE c.op = "create" ->
           Insert(rows, [state |-> c.state, flowKind |-> c.flowKind,
                         expiresAt |-> c.expiresAt], oauthStatesKeys)
      [] c.op = "delete" -> Delete(rows, LAMBDA r : r.state = c.state)
      [] c.op = "pruneExpired" -> Delete(rows, LAMBDA r : r.expiresAt <= now)
OAuthStatesDbAnswers(rows, now) ==
    [findActive |-> [s \in Names |->
        One({r \in rows : r.state = s /\ r.expiresAt > now})]]

\* The statement sets the column to what the call gives, null when it gives
\* nothing, whatever the row has.
Overwrite(given, had) == given

RefreshToken(c, id) == IF c.refresh THEN id ELSE None
ConnectionUpsert(c, rows, id, Set(_, _)) ==
    Upsert(rows, [id |-> id, accountId |-> c.accountId, providerId |-> c.providerId,
                  providerAccountId |-> c.providerAccountId,
                  accessToken |-> id, refreshToken |-> RefreshToken(c, id)],
           LAMBDA r : r.accountId = c.accountId /\ r.providerId = c.providerId,
           LAMBDA r : [r EXCEPT !.providerAccountId = Set(c.providerAccountId, @),
                                !.accessToken = id,
                                !.refreshToken = Set(RefreshToken(c, id), @)])
ProviderConnectionsDb(c, rows, id, now) ==
    CASE c.op = "upsert" -> ConnectionUpsert(c, rows, id, Overwrite)
      [] c.op = "updateTokens" ->
           Update(rows, LAMBDA r : r.id = c.id,
                  LAMBDA r : [r EXCEPT !.accessToken = id,
                                       !.refreshToken = IF c.refresh THEN id ELSE @])
      [] c.op = "delete" -> Delete(rows, LAMBDA r : r.id = c.id)
ProviderConnectionsDbAnswers(rows, now) ==
    [findByAccountAndProvider |-> [k \in Names \X Names |->
        One({r \in rows : r.accountId = k[1] /\ r.providerId = k[2]})],
     findAllForAccount |-> [a \in Names |-> AnyOrder({r \in rows : r.accountId = a})]]

\* An update that would break a key is refused (reopen, when the slug is taken).
SessionsDb(c, rows, id, now) ==
    CASE c.op = "create" ->
           Insert(rows, [id |-> id, accountId |-> c.accountId, qrSlug |-> c.qrSlug,
                         songsPerGuestCap |-> Else(c.songsPerGuestCap, 3),
                         startedAt |-> now, endedAt |-> None], sessionsKeys)
      [] c.op = "update" /\ c.songsPerGuestCap # None ->
           Update(rows, LAMBDA r : r.id = c.id,
                  LAMBDA r : [r EXCEPT !.songsPerGuestCap = c.songsPerGuestCap])
      [] c.op = "update" /\ c.songsPerGuestCap = None -> rows
      [] c.op = "end" ->
           Update(rows, LAMBDA r : r.id = c.id /\ r.endedAt = None,
                  LAMBDA r : [r EXCEPT !.endedAt = now])
      [] c.op = "reopen" ->
           LET new == Update(rows, LAMBDA r : r.id = c.id,
                             LAMBDA r : [r EXCEPT !.endedAt = None])
           IN  IF \E r, s \in new : r # s /\ sessionsKeys(r) \cap sessionsKeys(s) # {}
               THEN rows ELSE new
\* The active session first, then the latest.
SessionsDbAnswers(rows, now) ==
    LET latest(S) == {r \in S : \A s \in S : s.startedAt <= r.startedAt}
    IN  [findById |-> [i \in Ids |-> One({r \in rows : r.id = i})],
         findByQrSlug |-> [q \in Names |->
            LET named == {r \in rows : r.qrSlug = q}
                active == {r \in named : r.endedAt = None}
            IN  One(latest(IF active = {} THEN named ELSE active))],
         findByAccount |-> [a \in Names |-> AnyOrder({r \in rows : r.accountId = a})]]

GuestsDb(c, rows, id, now) ==
    CASE c.op = "create" ->
           Insert(rows, [id |-> id, sessionId |-> c.sessionId,
                         fingerprint |-> c.fingerprint, userId |-> None], guestsKeys)
      [] c.op = "linkUser" -> Update(rows, LAMBDA r : r.id = c.id,
                                     LAMBDA r : [r EXCEPT !.userId = c.userId])
GuestsDbAnswers(rows, now) ==
    [findBySessionAndFingerprint |-> [k \in Names \X Names |->
        One({r \in rows : r.sessionId = k[1] /\ r.fingerprint = k[2]})]]

GuestSlotsDb(c, rows, id, now) ==
    CASE c.op = "create" ->
           Insert(rows, [id |-> id, sessionId |-> c.sessionId,
                         fingerprintHash |-> c.fingerprintHash, slotToken |-> id,
                         status |-> c.status, queuePosition |-> None,
                         lastHeartbeat |-> now, createdAt |-> now], guestSlotsKeys)
      [] c.op = "touchHeartbeat" ->
           Update(rows, LAMBDA r : r.id = c.id,
                  LAMBDA r : [r EXCEPT !.lastHeartbeat = now])
      [] c.op = "setStatus" ->
           Update(rows, LAMBDA r : r.id = c.id,
                  LAMBDA r : [r EXCEPT !.status = c.status,
                                       !.queuePosition = Else(c.queuePosition, @)])
      [] c.op = "delete" -> Delete(rows, LAMBDA r : r.id = c.id)
GuestSlotsDbAnswers(rows, now) ==
    [findBySessionAndFingerprint |-> [k \in Names \X Names |->
        One({r \in rows : r.sessionId = k[1] /\ r.fingerprintHash = k[2]})],
     findBySlotToken |-> [t \in Ids |-> One({r \in rows : r.slotToken = t})],
     countByStatus |-> [k \in Names \X GuestSlotStatus |->
        {Cardinality({r \in rows : r.sessionId = k[1] /\ r.status = k[2]})}],
     findActiveStaleSince |-> [k \in Names \X Times |->
        AnyOrder({r \in rows : r.sessionId = k[1] /\ r.status = "active"
                                /\ r.lastHeartbeat <= k[2]})],
     findFirstQueued |-> [n \in Names |->
        LET queued == {r \in rows : r.sessionId = n /\ r.status = "queued"}
        IN  One({r \in queued : \A s \in queued : r.createdAt <= s.createdAt})]]

FingerprintPriorityDb(c, rows, id, now) ==
    LET same(r) == r.sessionId = c.sessionId /\ r.fingerprintHash = c.fingerprintHash
    IN  CASE c.op = "upsert" ->
               Upsert(rows, [sessionId |-> c.sessionId,
                             fingerprintHash |-> c.fingerprintHash,
                             releasedAt |-> now, expiresAt |-> c.expiresAt], same,
                      LAMBDA r : [r EXCEPT !.releasedAt = now, !.expiresAt = c.expiresAt])
          [] c.op = "delete" -> Delete(rows, same)
FingerprintPriorityDbAnswers(rows, now) ==
    [find |-> [k \in Names \X Names |->
        One({r \in rows : r.sessionId = k[1] /\ r.fingerprintHash = k[2]
                           /\ r.expiresAt > now})]]

\* (The votes and claims of a deleted row go with it: Cascade.)
QueueItemsDb(c, rows, id, now) ==
    CASE c.op = "create" ->
           Insert(rows, [id |-> id, sessionId |-> c.sessionId,
                         status |-> Else(c.status, "pending"), skipVotes |-> 0,
                         createdAt |-> now, decidedAt |-> None], queueItemsKeys)
      [] c.op = "setStatus" ->
           Update(rows, LAMBDA r : r.id = c.id,
                  LAMBDA r : [r EXCEPT !.status = c.status,
                                       !.decidedAt = Else(c.decidedAt, @)])
      [] c.op = "delete" -> Delete(rows, LAMBDA r : r.id = c.id)
      [] c.op = "incrementSkipVotes" ->
           {IF r.id = c.id THEN [r EXCEPT !.skipVotes = @ + 1] ELSE r : r \in rows}
QueueItemsDbAnswers(rows, now) ==
    [findById |-> [i \in Ids |-> One({r \in rows : r.id = i})],
     findAllForSession |-> [n \in Names |->
        Ascending({r \in rows : r.sessionId = n}, LAMBDA r : r.createdAt)]]

\* The ledger and then the counter of the item.
QueueSkipVotesDb(c, rows, items, id, now) ==
    LET vote == [queueItemId |-> c.queueItemId, guestId |-> c.guestId]
    IN  [votes |-> Insert(rows, vote, queueSkipVotesKeys),
         items |-> IF Refused(rows, vote, queueSkipVotesKeys) THEN items
                   ELSE QueueItemsDb([op |-> "incrementSkipVotes", id |-> c.queueItemId],
                                     items, id, now)]
QueueSkipVotesDbAnswers(rows, now) ==
    [hasVoted |-> [k \in Ids \X Names |->
        {\E r \in rows : r.queueItemId = k[1] /\ r.guestId = k[2]}]]

KaraokeClaimsDb(c, rows, id, now) ==
    CASE c.op = "create" ->
           Insert(rows, [id |-> id, sessionId |-> c.sessionId,
                         queueItemId |-> c.queueItemId, guestId |-> c.guestId,
                         createdAt |-> now], karaokeClaimsKeys)
      [] c.op = "delete" -> Delete(rows, LAMBDA r : r.id = c.id)
KaraokeClaimsDbAnswers(rows, now) ==
    [findAllForItem |-> [i \in Ids |->
        Ascending({r \in rows : r.queueItemId = i}, LAMBDA r : r.createdAt)],
     findAllForSession |-> [n \in Names |->
        Ascending({r \in rows : r.sessionId = n}, LAMBDA r : r.createdAt)],
     findByItemAndGuest |-> [k \in Ids \X Names |->
        One({r \in rows : r.queueItemId = k[1] /\ r.guestId = k[2]})]]

SessionAuditEventsDb(c, rows, id, now) ==
    rows \cup {[id |-> id, sessionId |-> c.sessionId, createdAt |-> now]}
SessionAuditEventsDbAnswers(rows, now) ==
    [listForSession |-> [k \in Names \X Opt(Times) |->
        LET page == {r \in rows : r.sessionId = k[1]
                                   /\ (k[2] # None => r.createdAt < k[2])}
        IN  {SubSeq(q, 1, IF Len(q) < Limit THEN Len(q) ELSE Limit) :
                q \in Ascending(page, LAMBDA r : -r.createdAt)}]]

LyricUpsert(c, rows, id, now, Set(_, _)) ==
    Upsert(rows, [id |-> id, source |-> c.source, lookupKeyHash |-> c.lookupKeyHash,
                  isSynced |-> c.syncedLrc # None, syncedLrc |-> c.syncedLrc,
                  createdAt |-> now, lastUsedAt |-> None, suppressedAt |-> None],
           LAMBDA r : r.source = c.source /\ r.lookupKeyHash = c.lookupKeyHash,
           LAMBDA r : [r EXCEPT !.isSynced = c.syncedLrc # None,
                                !.syncedLrc = Set(c.syncedLrc, @)])
LyricsCacheDb(c, rows, id, now) ==
    CASE c.op = "upsert" -> LyricUpsert(c, rows, id, now, Overwrite)
      [] c.op = "recordHit" -> Update(rows, LAMBDA r : r.id = c.id,
                                      LAMBDA r : [r EXCEPT !.lastUsedAt = now])
      [] c.op = "suppress" -> Update(rows, LAMBDA r : r.id = c.id,
                                     LAMBDA r : [r EXCEPT !.suppressedAt = now])
LyricsCacheDbAnswers(rows, now) ==
    [findBySourceAndKey |-> [k \in Names \X Names |->
        One({r \in rows : r.source = k[1] /\ r.lookupKeyHash = k[2]})]]

LyricsFeedbackDb(c, rows, id, now) ==
    rows \cup {[id |-> id, lyricsCacheId |-> c.lyricsCacheId, kind |-> c.kind]}
LyricsFeedbackDbAnswers(rows, now) ==
    [countForCacheEntry |-> [k \in Names \X Opt(Names) |->
        {Cardinality({r \in rows : r.lyricsCacheId = k[1]
                                    /\ (k[2] # None => r.kind = k[2])})}]]

\* The statement itself keeps the risk score.
SubjectUpsert(c, rows, now, Set(_, _)) ==
    Upsert(rows, [subjectHash |-> c.subjectHash, sessionId |-> c.sessionId,
                  riskScore |-> Else(c.riskScore, "0.00"), status |-> c.status,
                  firstSeenAt |-> now, lastSeenAt |-> now, expiresAt |-> c.expiresAt],
           LAMBDA r : r.subjectHash = c.subjectHash,
           LAMBDA r : [r EXCEPT !.sessionId = Set(c.sessionId, @),
                                !.riskScore = Else(c.riskScore, @),
                                !.status = c.status, !.lastSeenAt = now,
                                !.expiresAt = Set(c.expiresAt, @)])
AbuseSubjectsDb(c, rows, id, now) ==
    CASE c.op = "upsert" -> SubjectUpsert(c, rows, now, Overwrite)
      [] c.op = "delete" -> Delete(rows, LAMBDA r : r.subjectHash = c.subjectHash)
\* Without a list of statuses, or with an empty one, every status will do.
AbuseSubjectsDbAnswers(rows, now) ==
    [findByHash |-> [h \in Names |-> One({r \in rows : r.subjectHash = h})],
     findActiveForSession |-> [k \in Names \X Opt(SUBSET AbuseSubjectStatus) |->
        AnyOrder({r \in rows : r.sessionId = k[1]
                                /\ (k[2] \notin {None, {}} => r.status \in k[2])
                                /\ (r.expiresAt # None => r.expiresAt > now)})]]

ActionEventsDb(c, rows, id, now) ==
    rows \cup {[id |-> id, sessionId |-> c.sessionId, eventKind |-> c.eventKind,
                 createdAt |-> now]}
ActionEventsDbAnswers(rows, now) ==
    [countByKindSince |-> [k \in Names \X Times |->
        {[kind \in Names |-> Cardinality({r \in rows :
            r.sessionId = k[1] /\ r.eventKind = kind /\ r.createdAt >= k[2]})]}]]

-----------------------------------------------------------------------------
\* ON DELETE CASCADE from queue_items.
Cascade(rows, items) == {r \in rows : \E i \in items : i.id = r.queueItemId}
=============================================================================
