------------------------------ MODULE Records ------------------------------
(***************************************************************************)
(* The rows of the backend's tables, the calls its repositories offer      *)
(* (packages/backend/src/repositories/types.ts) and the keys the database  *)
(* keeps unique (packages/db/src/schema).                                  *)
(*                                                                         *)
(* A column stays when some repository reads it to answer a call or writes *)
(* it with a rule of its own.  Text that is only stored and handed back is *)
(* left out; one setting stands for all the settings of a session.         *)
(***************************************************************************)
EXTENDS Integers, FiniteSets, TLC

CONSTANTS
    None,       \* null
    Names,      \* keys, hashes, fingerprints, slugs, subjects: any text
    Emails,     \* addresses as typed
    Lower,      \* and in lower case
    MaxCalls,   \* bound: calls, and so rows
    MaxNow      \* bound: the clock

RiskScores == {"0.00", "1.00"}

ASSUME StoreAssumption ==
    /\ None \notin Names \cup Emails \cup Int \cup RiskScores
    /\ DOMAIN Lower = Emails
    /\ MaxCalls \in Nat /\ MaxNow \in Nat

Ids == 1..MaxCalls
Times == 0..MaxNow
Opt(S) == S \cup {None}

\* x ?? y
Else(x, y) == IF x = None THEN y ELSE x

-----------------------------------------------------------------------------
(* Rows.                                                                   *)

UserRecord == [id: Ids, primaryEmail: Opt(Emails), emailVerified: BOOLEAN]
AccountRecord == [id: Ids, slug: Names, plan: {"oss", "pro"}]
MembershipRecord == [accountId: Names, userId: Names, role: {"owner", "viewer"},
                     status: {"active", "suspended"}, createdAt: Times]
AuthIdentityRecord == [id: Ids, userId: Names, providerId: Names,
                       providerSubject: Names]
AuthSessionRecord == [id: Ids, sessionHash: Names, currentAccountId: Opt(Names),
                      claimsSnapshot: SUBSET {"moderate"}, lastSeenAt: Times,
                      expiresAt: Times, revokedAt: Opt(Times)]
PasswordCredentialRecord == [userId: Names, passwordHash: Names,
                             failedAttempts: 0..MaxCalls, lockedUntil: Opt(Times)]
EmailVerificationTokenRecord == [tokenHash: Names, userId: Names,
                                 expiresAt: Times, consumedAt: Opt(Times)]
PasswordResetTokenRecord == EmailVerificationTokenRecord
OAuthStateRecord == [state: Names, flowKind: {"login", "connect-provider"},
                     expiresAt: Times]
ProviderConnectionRecord == [id: Ids, accountId: Names, providerId: Names,
                             providerAccountId: Opt(Names), accessToken: Ids,
                             refreshToken: Opt(Ids)]
SessionRecord == [id: Ids, accountId: Names, qrSlug: Names, songsPerGuestCap: 1..3,
                  startedAt: Times, endedAt: Opt(Times)]
GuestRecord == [id: Ids, sessionId: Names, fingerprint: Names, userId: Opt(Names)]
GuestSlotStatus == {"active", "queued", "priority_queued"}
GuestSlotRecord == [id: Ids, sessionId: Names, fingerprintHash: Names,
                    slotToken: Ids, status: GuestSlotStatus,
                    queuePosition: Opt(Ids), lastHeartbeat: Times, createdAt: Times]
FingerprintPriorityRecord == [sessionId: Names, fingerprintHash: Names,
                              releasedAt: Times, expiresAt: Times]
QueueItemStatus == {"pending", "approved", "queued", "playing", "played", "rejected"}
QueueItemRecord == [id: Ids, sessionId: Names, status: QueueItemStatus,
                    skipVotes: 0..MaxCalls, createdAt: Times, decidedAt: Opt(Times)]
QueueSkipVoteRecord == [queueItemId: Ids, guestId: Names]
KaraokeClaimRecord == [id: Ids, sessionId: Names, queueItemId: Ids, guestId: Names,
                       createdAt: Times]
SessionAuditEventRecord == [id: Ids, sessionId: Names, createdAt: Times]
LyricsCacheRecord == [id: Ids, source: Names, lookupKeyHash: Names,
                      isSynced: BOOLEAN, syncedLrc: Opt(Names), createdAt: Times,
                      lastUsedAt: Opt(Times), suppressedAt: Opt(Times)]
LyricsFeedbackRecord == [id: Ids, lyricsCacheId: Opt(Names), kind: Names]
AbuseSubjectStatus == {"normal", "blocked"}
AbuseSubjectRecord == [subjectHash: Names, sessionId: Opt(Names),
                       riskScore: RiskScores, status: AbuseSubjectStatus,
                       firstSeenAt: Times, lastSeenAt: Times, expiresAt: Opt(Times)]
ActionEventRecord == [id: Ids, sessionId: Names, eventKind: Names, createdAt: Times]

Tables == [users |-> UserRecord, accounts |-> AccountRecord,
           memberships |-> MembershipRecord, authIdentities |-> AuthIdentityRecord,
           authSessions |-> AuthSessionRecord,
           passwordCredentials |-> PasswordCredentialRecord,
           emailVerificationTokens |-> EmailVerificationTokenRecord,
           passwordResetTokens |-> PasswordResetTokenRecord,
           oauthStates |-> OAuthStateRecord,
           providerConnections |-> ProviderConnectionRecord,
           sessions |-> SessionRecord, guests |-> GuestRecord,
           guestSlots |-> GuestSlotRecord,
           fingerprintPriority |-> FingerprintPriorityRecord,
           queueItems |-> QueueItemRecord, queueSkipVotes |-> QueueSkipVoteRecord,
           karaokeClaims |-> KaraokeClaimRecord,
           sessionAuditEvents |-> SessionAuditEventRecord,
           lyricsCache |-> LyricsCacheRecord, lyricsFeedback |-> LyricsFeedbackRecord,
           abuseSubjects |-> AbuseSubjectRecord, actionEvents |-> ActionEventRecord]

\* null is not a row.
ASSUME RowAssumption == \A t \in DOMAIN Tables : None \notin Tables[t]

-----------------------------------------------------------------------------
(* Calls that write, with what tells them apart.  A date that a service    *)
(* computes from now is any time.                                          *)

UserCalls ==
    [op: {"create"}, primaryEmail: Opt(Emails), emailVerified: BOOLEAN]
        \cup [op: {"setEmailVerified"}, id: Ids]
AccountCalls == [op: {"create"}, slug: Names, plan: {None, "pro"}]
MembershipCalls ==
    [op: {"upsert"}, accountId: Names, userId: Names, role: {"owner", "viewer"},
     status: {None, "suspended"}]
AuthIdentityCalls == [op: {"create"}, userId: Names, providerId: Names,
                      providerSubject: Names]
AuthSessionCalls ==
    [op: {"create"}, sessionHash: Names, expiresAt: Times]
        \cup [op: {"touch", "revoke"}, id: Ids]
        \cup [op: {"updateClaimsSnapshot"}, id: Ids, claims: SUBSET {"moderate"}]
        \cup [op: {"updateCurrentAccount"}, id: Ids, accountId: Opt(Names)]
PasswordCredentialCalls ==
    [op: {"upsert"}, userId: Names, passwordHash: Names]
        \cup [op: {"recordFailedAttempt"}, userId: Names, lockUntil: Opt(Times)]
        \cup [op: {"resetFailedAttempts"}, userId: Names]
EmailVerificationTokenCalls ==
    [op: {"create"}, tokenHash: Names, userId: Names, expiresAt: Times]
        \cup [op: {"consume"}, tokenHash: Names] \cup [op: {"pruneExpired"}]
PasswordResetTokenCalls == EmailVerificationTokenCalls
OAuthStateCalls ==
    [op: {"create"}, state: Names, flowKind: {"login", "connect-provider"},
     expiresAt: Times]
        \cup [op: {"delete"}, state: Names] \cup [op: {"pruneExpired"}]
\* The access token is fresh; refresh tells whether a refresh token came with it.
ProviderConnectionCalls ==
    [op: {"upsert"}, accountId: Names, providerId: Names,
     providerAccountId: Opt(Names), refresh: BOOLEAN]
        \cup [op: {"updateTokens"}, id: Ids, refresh: BOOLEAN]
        \cup [op: {"delete"}, id: Ids]
SessionCalls ==
    [op: {"create"}, accountId: Names, qrSlug: Names, songsPerGuestCap: {None, 1}]
        \cup [op: {"update"}, id: Ids, songsPerGuestCap: {None, 2}]
        \cup [op: {"end", "reopen"}, id: Ids]
GuestCalls ==
    [op: {"create"}, sessionId: Names, fingerprint: Names]
        \cup [op: {"linkUser"}, id: Ids, userId: Names]
GuestSlotCalls ==
    [op: {"create"}, sessionId: Names, fingerprintHash: Names,
     status: {"active", "queued"}]
        \cup [op: {"touchHeartbeat", "delete"}, id: Ids]
        \cup [op: {"setStatus"}, id: Ids, status: {"active"}, queuePosition: Opt({1})]
FingerprintPriorityCalls ==
    [op: {"upsert"}, sessionId: Names, fingerprintHash: Names, expiresAt: Times]
        \cup [op: {"delete"}, sessionId: Names, fingerprintHash: Names]
QueueItemCalls ==
    [op: {"create"}, sessionId: Names, status: {None, "approved"}]
        \cup [op: {"setStatus"}, id: Ids, status: {"approved", "played"},
              decidedAt: Opt(Times)]
        \cup [op: {"delete", "incrementSkipVotes"}, id: Ids]
QueueSkipVoteCalls == [op: {"recordVote"}, queueItemId: Ids, guestId: Names]
KaraokeClaimCalls ==
    [op: {"create"}, sessionId: Names, queueItemId: Ids, guestId: Names]
        \cup [op: {"delete"}, id: Ids]
SessionAuditEventCalls == [op: {"record"}, sessionId: Names]
LyricsCacheCalls ==
    [op: {"upsert"}, source: Names, lookupKeyHash: Names, syncedLrc: Opt(Names)]
        \cup [op: {"recordHit", "suppress"}, id: Ids]
LyricsFeedbackCalls == [op: {"create"}, lyricsCacheId: Opt(Names), kind: Names]
AbuseSubjectCalls ==
    [op: {"upsert"}, subjectHash: Names, sessionId: Opt(Names),
     riskScore: {None, "1.00"}, status: AbuseSubjectStatus, expiresAt: Opt({MaxNow})]
        \cup [op: {"delete"}, subjectHash: Names]
ActionEventCalls == [op: {"create"}, sessionId: Names, eventKind: Names]

CallsOf(t) ==
    CASE t = "users" -> UserCalls
      [] t = "accounts" -> AccountCalls
      [] t = "memberships" -> MembershipCalls
      [] t = "authIdentities" -> AuthIdentityCalls
      [] t = "authSessions" -> AuthSessionCalls
      [] t = "passwordCredentials" -> PasswordCredentialCalls
      [] t = "emailVerificationTokens" -> EmailVerificationTokenCalls
      [] t = "passwordResetTokens" -> PasswordResetTokenCalls
      [] t = "oauthStates" -> OAuthStateCalls
      [] t = "providerConnections" -> ProviderConnectionCalls
      [] t = "sessions" -> SessionCalls
      [] t = "guests" -> GuestCalls
      [] t = "guestSlots" -> GuestSlotCalls
      [] t = "fingerprintPriority" -> FingerprintPriorityCalls
      [] t = "queueItems" -> QueueItemCalls
      [] t = "queueSkipVotes" -> QueueSkipVoteCalls
      [] t = "karaokeClaims" -> KaraokeClaimCalls
      [] t = "sessionAuditEvents" -> SessionAuditEventCalls
      [] t = "lyricsCache" -> LyricsCacheCalls
      [] t = "lyricsFeedback" -> LyricsFeedbackCalls
      [] t = "abuseSubjects" -> AbuseSubjectCalls
      [] t = "actionEvents" -> ActionEventCalls

-----------------------------------------------------------------------------
(* The keys of a row: the database holds no two rows of a table that share *)
(* one.  (Surrogate ids are fresh; a partial index gives some rows no key.) *)

KeyIf(cond, key) == IF cond THEN {key} ELSE {}

usersKeys(r) == {<<"id", r.id>>} \cup
    {<<"email", Lower[e]>> : e \in {r.primaryEmail} \ {None}}
accountsKeys(r) == {<<"id", r.id>>, <<"slug", r.slug>>}
membershipsKeys(r) == {<<r.accountId, r.userId>>}
authIdentitiesKeys(r) ==
    {<<"id", r.id>>, <<"identity", r.providerId, r.providerSubject>>}
authSessionsKeys(r) == {<<"id", r.id>>, <<"hash", r.sessionHash>>}
passwordCredentialsKeys(r) == {r.userId}
emailVerificationTokensKeys(r) == {r.tokenHash}
passwordResetTokensKeys(r) == {r.tokenHash}
oauthStatesKeys(r) == {r.state}
providerConnectionsKeys(r) ==
    {<<"id", r.id>>, <<"account", r.accountId, r.providerId>>}
        \cup KeyIf(r.providerAccountId # None,
                   <<"native", r.providerId, r.providerAccountId>>)
sessionsKeys(r) == {<<"id", r.id>>} \cup KeyIf(r.endedAt = None, <<"slug", r.qrSlug>>)
guestsKeys(r) == {<<"id", r.id>>, <<"guest", r.sessionId, r.fingerprint>>}
guestSlotsKeys(r) ==
    {<<"id", r.id>>, <<"token", r.slotToken>>, <<"guest", r.sessionId, r.fingerprintHash>>}
fingerprintPriorityKeys(r) == {<<r.sessionId, r.fingerprintHash>>}
queueItemsKeys(r) == {r.id}
queueSkipVotesKeys(r) == {<<r.queueItemId, r.guestId>>}
karaokeClaimsKeys(r) == {<<"id", r.id>>, <<"claim", r.queueItemId, r.guestId>>}
sessionAuditEventsKeys(r) == {r.id}
lyricsCacheKeys(r) == {<<"id", r.id>>, <<"lookup", r.source, r.lookupKeyHash>>}
lyricsFeedbackKeys(r) == {r.id}
abuseSubjectsKeys(r) == {r.subjectHash}
actionEventsKeys(r) == {r.id}
=============================================================================
