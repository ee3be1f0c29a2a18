---------------------------- MODULE Repositories ---------------------------
(***************************************************************************)
(* What a caller may count on, whichever repositories it is given: the     *)
(* statements of the database (PostgresStore), one atomic call at a time,  *)
(* and, where the repositories of the tests differ, either of the two.     *)
(* They differ in what becomes of a value that an upsert leaves out, and   *)
(* in what an empty list of statuses asks for.  The tables do not depend   *)
(* on one another but for the queue's three; a behaviour is about the      *)
(* tables in "focus" only.                                                 *)
(***************************************************************************)
EXTENDS PostgresStore

VARIABLES tables, focus, calls, now

vars == <<tables, focus, calls, now>>

QueueTables == {"queueItems", "queueSkipVotes", "karaokeClaims"}

\* A statement on a table of its own.
StatementOn(t, c, id) ==
    CASE t = "users" -> UsersDb(c, tables[t], id, now)
      [] t = "accounts" -> AccountsDb(c, tables[t], id, now)
      [] t = "memberships" -> MembershipsDb(c, tables[t], id, now)
      [] t = "authIdentities" -> AuthIdentitiesDb(c, tables[t], id, now)
      [] t = "authSessions" -> AuthSessionsDb(c, tables[t], id, now)
      [] t = "passwordCredentials" -> PasswordCredentialsDb(c, tables[t], id, now)
      [] t = "emailVerificationTokens" -> EmailVerificationTokensDb(c, tables[t], id, now)
      [] t = "passwordResetTokens" -> PasswordResetTokensDb(c, tables[t], id, now)
      [] t = "oauthStates" -> OAuthStatesDb(c, tables[t], id, now)
      [] t = "providerConnections" -> ProviderConnectionsDb(c, tables[t], id, now)
      [] t = "sessions" -> SessionsDb(c, tables[t], id, now)
      [] t = "guests" -> GuestsDb(c, tables[t], id, now)
      [] t = "guestSlots" -> GuestSlotsDb(c, tables[t], id, now)
      [] t = "fingerprintPriority" -> FingerprintPriorityDb(c, tables[t], id, now)
      [] t = "karaokeClaims" -> KaraokeClaimsDb(c, tables[t], id, now)
      [] t = "sessionAuditEvents" -> SessionAuditEventsDb(c, tables[t], id, now)
      [] t = "lyricsCache" -> LyricsCacheDb(c, tables[t], id, now)
      [] t = "lyricsFeedback" -> LyricsFeedbackDb(c, tables[t], id, now)
      [] t = "abuseSubjects" -> AbuseSubjectsDb(c, tables[t], id, now)
      [] t = "actionEvents" -> ActionEventsDb(c, tables[t], id, now)

\* The same upserts in a repository where the row keeps what the call leaves out.
ProviderConnectionsKept(c, rows, id) == ConnectionUpsert(c, rows, id, Else)
LyricsCacheKept(c, rows, id, at) == LyricUpsert(c, rows, id, at, Else)
AbuseSubjectsKept(c, rows, at) == SubjectUpsert(c, rows, at, Else)

\* The row loses what the call leaves out, or keeps it.
Outcomes(t, c, id) ==
    {StatementOn(t, c, id)} \cup
    CASE t = "providerConnections" /\ c.op = "upsert" ->
           {ProviderConnectionsKept(c, tables[t], id)}
      [] t = "lyricsCache" /\ c.op = "upsert" ->
           {LyricsCacheKept(c, tables[t], id, now)}
      [] t = "abuseSubjects" /\ c.op = "upsert" ->
           {AbuseSubjectsKept(c, tables[t], now)}
      [] OTHER -> {}

\* The deletion of an item cascades, and a vote counts on its item.
AfterCalls(t, c, id) ==
    IF t = "queueItems"
    THEN LET items == QueueItemsDb(c, tables.queueItems, id, now)
         IN  {[tables EXCEPT !.queueItems = items,
                             !.queueSkipVotes = Cascade(@, items),
                             !.karaokeClaims = Cascade(@, items)]}
    ELSE IF t = "queueSkipVotes"
    THEN LET after == QueueSkipVotesDb(c, tables.queueSkipVotes, tables.queueItems, id, now)
         IN  {[tables EXCEPT !.queueItems = after.items, !.queueSkipVotes = after.votes]}
    ELSE {[tables EXCEPT ![t] = rows] : rows \in Outcomes(t, c, id)}

\* To an empty list of statuses: every subject, or none.
AbuseSubjectsAnswers(rows, at) ==
    LET answers == AbuseSubjectsDbAnswers(rows, at)
    IN  [answers EXCEPT !.findActiveForSession = [k \in DOMAIN @ |->
            IF k[2] = {} THEN @[k] \cup {<<>>} ELSE @[k]]]

AnswersOf(t, rows, at) ==
    CASE t = "users" -> UsersDbAnswers(rows, at)
      [] t = "accounts" -> AccountsDbAnswers(rows, at)
      [] t = "memberships" -> MembershipsDbAnswers(rows, at)
      [] t = "authIdentities" -> AuthIdentitiesDbAnswers(rows, at)
      [] t = "authSessions" -> AuthSessionsDbAnswers(rows, at)
      [] t = "passwordCredentials" -> PasswordCredentialsDbAnswers(rows, at)
      [] t = "emailVerificationTokens" -> EmailVerificationTokensDbAnswers(rows, at)
      [] t = "passwordResetTokens" -> PasswordResetTokensDbAnswers(rows, at)
      [] t = "oauthStates" -> OAuthStatesDbAnswers(rows, at)
      [] t = "providerConnections" -> ProviderConnectionsDbAnswers(rows, at)
      [] t = "sessions" -> SessionsDbAnswers(rows, at)
      [] t = "guests" -> GuestsDbAnswers(rows, at)
      [] t = "guestSlots" -> GuestSlotsDbAnswers(rows, at)
      [] t = "fingerprintPriority" -> FingerprintPriorityDbAnswers(rows, at)
      [] t = "queueItems" -> QueueItemsDbAnswers(rows, at)
      [] t = "queueSkipVotes" -> QueueSkipVotesDbAnswers(rows, at)
      [] t = "karaokeClaims" -> KaraokeClaimsDbAnswers(rows, at)
      [] t = "sessionAuditEvents" -> SessionAuditEventsDbAnswers(rows, at)
      [] t = "lyricsCache" -> LyricsCacheDbAnswers(rows, at)
      [] t = "lyricsFeedback" -> LyricsFeedbackDbAnswers(rows, at)
      [] t = "abuseSubjects" -> AbuseSubjectsAnswers(rows, at)
      [] t = "actionEvents" -> ActionEventsDbAnswers(rows, at)

-----------------------------------------------------------------------------
Init ==
    /\ tables = [t \in DOMAIN Tables |-> {}]
    /\ focus \in {QueueTables} \cup {{t} : t \in DOMAIN Tables \ QueueTables}
    /\ calls = 0
    /\ now = 0

Call(t) ==
    /\ calls < MaxCalls
    /\ calls' = calls + 1
    /\ \E c \in CallsOf(t) : tables' \in AfterCalls(t, c, calls + 1)
    /\ UNCHANGED <<focus, now>>

Tick ==
    /\ now < MaxNow
    /\ now' = now + 1
    /\ UNCHANGED <<tables, focus, calls>>

Next == (\E t \in focus : Call(t)) \/ Tick

Spec == Init /\ [][Next]_vars
=============================================================================
